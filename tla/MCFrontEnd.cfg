SPECIFICATION Spec
CONSTANTS
    Children <- SmallTree
    Root = "r"
    Nowhere = "nowhere"
    Subdirs <- NamedSubdirs
    Paths <- SmallPaths
    MaxFailed = 2
    MaxUsers = 2
    MaxTerms = 2
INVARIANTS
    RootIsSubdir
    PartsTrue
    HandlesRight
    StatusTrue
PROPERTIES
    Patience
    TermEnds
    Answered
