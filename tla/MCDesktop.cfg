\* Two threads, restarts and crashes; a display with scale 2; an array of two menu items.
CONSTANTS
    a = a
    b = b
    Bad = Bad
    NoItems = NoItems
    Garbage = Garbage
    None = None
    NoFile = NoFile
    Torn = Torn
    MaxItems = 2
    Items = {a, b, Bad}
    Requests <- MCRequests
    Idless = {b}
    Configs <- MCConfigs
    Scale = 2
    Sizes = {5}
    Places = {"moved"}
    Configured <- MCConfigured
SPECIFICATION Spec
INVARIANTS
    TypeOK
    ShownIsRequested
PROPERTIES
    ReopensAsLeft
    StateIsWhole
    ClickIsShown
    CloseEnds
