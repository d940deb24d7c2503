SPECIFICATION Spec
CONSTANTS
    Children <- SmallTree
    Root = "r"
    Nowhere = "nowhere"
    Subdirs <- SlashSubdirs
    Paths <- SmallPaths
    MaxFailed = 2
    MaxUsers = 2
    MaxTerms = 2
INVARIANT RootIsSubdir
