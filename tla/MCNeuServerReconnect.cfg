\* Finding: an extension reconnects before its old connection is closed.
SPECIFICATION Spec
CONSTANTS
    h1 = h1
    h2 = h2
    h3 = h3
    e1 = e1
    App = App
    None = None
    Conns <- ThreeConns
    ExtIds <- OneExt
    Modes <- JustCloud
PROPERTY NotConnectedIsTrue
CHECK_DEADLOCK FALSE
