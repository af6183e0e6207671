SPECIFICATION Spec
CONSTANTS
    Streams = {s1}
    Files = {f1}
    Contents <- MCContents
    Lines <- MCLines
    BufSize = 2
    MaxOffset = 3
    MaxNesting = 1
    WriteErrors = FALSE
CHECK_DEADLOCK FALSE
PROPERTIES
    NextThrowsOnlyAtEnd
