SPECIFICATION FramerSpec
CONSTANTS
    Bytes <- MCBytes
    LF = "lf"
    CR = "cr"
    Modes = {"lf", "crlf", "raw"}
    MaxRecord = 2
    MaxChunk = 3
    MaxStream = 6
INVARIANTS
    ChunkingIrrelevant
    OneRecordPerLine
CHECK_DEADLOCK FALSE
