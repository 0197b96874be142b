SPECIFICATION Spec
CONSTANTS
    Streams <- MCStreams
    Handlers <- MCHandlers
    max_head_size = 24
    max_headers_count = 3
    max_chunk_line_size = 6
    HexDigits = 1
INVARIANTS
    DecodesWhatWasSent
    CutDoesNotMatter
    PendingBounded
    BodyWithinLimit
CHECK_DEADLOCK FALSE
