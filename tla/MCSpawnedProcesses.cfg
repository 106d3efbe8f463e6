\* Two callers and two children, two ids: both run at once, one fills its pipe while the other ends; no symmetry.
SPECIFICATION FairSpec
CONSTANTS
    server = server
    main = main
    c1 = c1
    c2 = c2
    None = None
    Callers <- Threads
    Quiet <- MainThread
    Children <- TwoChildren
    MaxVirtualPid = 1
    PipeCapacity = 1
    MaxOutput = 1
    MaxCalls = 3
INVARIANTS
    TypeOK
    NoUseAfterFree
    ExitIsLast
    ListedUntilWrap
PROPERTIES
    NoSignalAfterExitEvent
    ExitedIsForgotten
    CallsReturn
CHECK_DEADLOCK FALSE
