CONSTANTS
    Null = Null
    NotANumber = NotANumber
    None = None
    o1 = o1
    Expanded <- MCExpanded
    Canonical <- MCCanonical
    Setups <- MCSetups
    Others <- MCOthers
    Extensions <- MCExtensions
    Dotted <- MCDotted
    DotEnds <- MCDotEnds
    Outside <- MCOutside
    Resources <- MCResources
    TargetFiles <- MCTargetFiles
    FileTargets = {"f1"}
    MaxLL = 7
    MountPaths <- MCMountPaths
    Requests <- MCRequests
    FilePaths <- MCFilePaths
    Words <- MCWords
    Sizes = {0, 1, 3}
    Offsets = {0, 1, 2, 3, 7}
    MaxMounts = 2
SPECIFICATION AppSpec
INVARIANTS
    TypeOK
    CliWins
    GlobalsAreTrue
    OneTimeToken
    OwnPageHasToken
    AnswersAreRight
    
PROPERTY
    EffectsArePermitted
CHECK_DEADLOCK FALSE
