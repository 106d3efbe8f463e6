\* A directory and one in it, the inner one written in two ways, and with a slash or not.
SPECIFICATION Spec
CONSTANTS
    a = a
    b = b
    l1 = l1
    l2 = l2
    l3 = l3
    None = None
    Preorder <- TwoLevels
    Parent <- ParentTwo
    Spellings <- TwoSpellings
    Paths <- FourPaths
    Listeners <- ThreeListeners
    MaxWd = 4
    MaxQueue = 1
SYMMETRY Symmetry
INVARIANTS
    TypeOK
    OnePathOneId
PROPERTY WatchersKept
CHECK_DEADLOCK FALSE
