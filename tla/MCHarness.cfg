SPECIFICATION HSpec
CONSTANTS
    Streams = {1, 2, 3, 4, 5, 6}
    Files = {"js", "syntax", "actual"}
    Contents <- MCContents
    Lines <- MCLines
    Syntax <- MCSyntax
    Rounds = 2
    BufSize = 2
    MaxOffset = 5
    MaxNesting = 1
    WriteErrors = FALSE
CHECK_DEADLOCK FALSE
INVARIANTS
    ReadFileIsContentPlusNewline
    RecordedTreeIsFoundEqual
PROPERTIES
    ScriptEnds
