SPECIFICATION Spec
CONSTANTS
    Images <- SmallImages
    Wanted <- SmallWanted
    Sizes = {0, 1, 2, 6, 9, 12}
    MetaSize = 4
    MinorLow = 4
    MajorLimit = 4
    MinorHigh = 4
    Limit = 16
INVARIANTS
    InodeTrue
    CursorsTrue
    ReplyCorrect
