\* MD-blocks of 8 bytes, so that a listing of four names spans several.
SPECIFICATION Spec
CONSTANTS
    Names <- AllNames
    Layouts <- SmallLayouts
    Starts = {0, 3, 5, 6}
    HeaderSize = 3
    EntrySize = 2
    MetaSize = 8
    MaxRoom = 4
INVARIANTS
    ReaddirResumes
    LookupCorrect
    CursorConsistent
