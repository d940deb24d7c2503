\* Every tree of three nodes, names of one or two bytes, small first buffers.
SPECIFICATION FairSpec
CONSTANTS
    r = r  a = a  b = b  c = c
    Nodes = {r, a, b, c}
    Root = r
    Trees <- SmallTrees
    MaxLen = 2
    PathCapacity = 2
    StackCapacity = 1
    NoNode = NoNode
INVARIANTS
    PathCorrect
    BuffersFit
    InOrder
PROPERTIES
    NextReturns
