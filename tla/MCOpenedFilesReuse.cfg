\* Finding: an id given again replaces an open stream.
SPECIFICATION Spec
CONSTANTS
    s1 = s1
    s2 = s2
    s3 = s3
    None = None
    Streams <- ThreeStreams
    MaxLen = 0
    Sizes <- AllSizes
    BufSize = 2
INVARIANT OpenIsReachable
CHECK_DEADLOCK FALSE
