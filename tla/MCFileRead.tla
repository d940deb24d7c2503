---------------------------- MODULE MCFileRead ----------------------------
EXTENDS FileRead

CONSTANTS f1, f2, s1, t1, MaxFileSize

\* Every layout with a list of up to MaxFileSize bytes and at most one hole.
SmallLayouts ==
    {l \in [off : 0 .. MetaSize - 1, size : 0 .. MaxFileSize, frag : BOOLEAN,
            holes : {{}} \cup {{n} : n \in 0 .. (MaxFileSize \div BlockSize) - 1}] :
        /\ l.frag => l.size % BlockSize # 0
        /\ \A n \in l.holes : n < BlocklistCount(l)}

OneFile == [{f1} -> SmallLayouts]

\* Two indexed files; the second one's list straddles its MD-blocks.
TwoFiles ==
    {[f \in {f1, f2} |->
        IF f = f1 THEN [off |-> 4, size |-> 7, frag |-> TRUE, holes |-> {1}]
                  ELSE [off |-> 3, size |-> 8, frag |-> FALSE, holes |-> {}]]}

SmallImages == OneFile \cup TwoFiles

SmallLoad ==
    [img \in SmallImages |->
        IF img \in TwoFiles THEN [threads |-> Threads, start |-> 8, size |-> 1]
                            ELSE [threads |-> {t1}, start |-> MaxFileSize + 1, size |-> 3]]

OneSlot == [f \in Files |-> s1]
=============================================================================
