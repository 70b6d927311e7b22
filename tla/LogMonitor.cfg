SPECIFICATION FairSpec
CONSTANTS
    Inodes = {i1, i2, i3, i4}
    None = None
    Closed = Closed
    Reuse = FALSE
    MaxLines = 3
INVARIANT TypeOK
PROPERTIES
    NoReplay
    CatchesUp
