\* Finding: a watcher is removed while its event is handled.
SPECIFICATION Spec
CONSTANTS
    a = a
    b = b
    l1 = l1
    l2 = l2
    l3 = l3
    None = None
    Preorder <- TwoLevels
    Parent <- ParentTwo
    Spellings <- TwoSpellings
    Paths <- NestedPaths
    Listeners <- TwoListeners
    MaxWd = 3
    MaxQueue = 1
INVARIANT RemovedIsSilent
CHECK_DEADLOCK FALSE
