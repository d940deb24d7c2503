\* One reader over every layout: MD-blocks of two list entries, up to five
\* blocks of two bytes, lists that start at any offset; and two readers of two
\* files whose indexes compete for one slot.
SPECIFICATION FairSpec
CONSTANTS
    f1 = f1  f2 = f2  s1 = s1  t1 = t1
    Threads = {t1, t2}
    Slots = {s1}
    Files = {f1, f2}
    Images <- SmallImages
    Load <- SmallLoad
    SlotOf <- OneSlot
    MetaSize = 8
    EntrySize = 4
    BlockSize = 2
    MaxFileSize = 11
    Junk = Junk
    NoThread = NoThread
    NoFile = NoFile
INVARIANTS
    ReadCorrect
    ListConsistent
    IndexCorrect
    IndexOwned
PROPERTIES
    ReadEnds
