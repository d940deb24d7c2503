---------------------------- MODULE MCDirectory ----------------------------
(* Directories of up to four names, split into runs and indexed in every   *)
(* way, for TLC.                                                           *)
EXTENDS Directory

CONSTANT Starts     \* where in its MD-block a listing may start

\* Names that are prefixes of each other, in order.
SomeNames == <<<<1>>, <<1, 1>>, <<1, 2>>, <<2>>>>
AllNames == Range(SomeNames) \cup {<<2, 1>>}

Listings == {SelectSeq(SomeNames, LAMBDA n : n \in s) : s \in SUBSET Range(SomeNames)}

Splits(list) ==
    IF list = <<>> THEN {{}} ELSE {{1} \cup heads : heads \in SUBSET (2 .. Len(list))}

SmallLayouts ==
    UNION {UNION {{[start |-> s, names |-> list, heads |-> heads, indexed |-> i] :
                     s \in Starts, i \in SUBSET (heads \ {1})} :
                  heads \in Splits(list)} : list \in Listings}
=============================================================================
