SPECIFICATION Spec
CONSTANTS
    Streams = {s1, s2}
    Files = {f1}
    Contents <- SharedContents
    Lines <- SharedLines
    BufSize = 2
    MaxOffset = 3
    MaxNesting = 1
    WriteErrors = TRUE
VIEW View
SYMMETRY Symmetry
CHECK_DEADLOCK FALSE
INVARIANTS
    TypeOK
    CallsUseLiveStream
    FlushedIsDurable
    BuffersAreInvisible
