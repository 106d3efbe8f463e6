\* Two windows of an application, two keys, values of one and two blocks.
SPECIFICATION Spec
CONSTANTS
    p1 = p1
    p2 = p2
    a = a
    b = b
    x = x
    y = y
    i1 = i1
    i2 = i2
    i3 = i3
    i4 = i4
    Instances <- TwoInstances
    Keys <- TwoKeys
    Values <- LongAndShort
    Inodes <- FourInodes
    Nul = Nul
    Ext = Ext
    None = None
    Unknown = Unknown
    Quiet = Quiet
SYMMETRY Symmetry
INVARIANTS
    TypeOK
    LoneWriterExact
PROPERTY ImplementsSafeStore
CHECK_DEADLOCK FALSE
