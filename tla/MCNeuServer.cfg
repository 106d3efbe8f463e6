\* Every mode, three connections, one extension; no symmetry, for the liveness.
SPECIFICATION FairSpec
CONSTANTS
    h1 = h1
    h2 = h2
    h3 = h3
    e1 = e1
    App = App
    None = None
    Conns <- ThreeConns
    ExtIds <- OneExt
    Modes <- AllModes
INVARIANTS
    TypeOK
    RegisteredAreEstablished
    ExtensionsExact
PROPERTIES
    SuccessMeansDelivered
    AbortNeedsLeaver
    IdleEnds
CHECK_DEADLOCK FALSE
