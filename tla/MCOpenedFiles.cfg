\* Two streams on files that grow, directories, pipes and endless devices, all sizes: ids, what the client receives, and that reads end; no symmetry.
SPECIFICATION FairSpec
CONSTANTS
    s1 = s1
    s2 = s2
    s3 = s3
    None = None
    Streams <- TwoStreams
    MaxLen = 1
    Sizes <- AllSizes
    BufSize = 2
INVARIANTS
    TypeOK
    NoSilentGap
    TableIsSound
    ListedUntilClosed
PROPERTIES
    EndIsTrue
    ReadIsAnswered
    ReadsEnd
CHECK_DEADLOCK FALSE
