SPECIFICATION Spec
CONSTANTS
    Streams <- DisputedStreams
    Handlers <- MCHandlers
    max_head_size = 24
    max_headers_count = 3
    max_chunk_line_size = 6
    HexDigits = 1
INVARIANTS CutNeverMatters LastIsKept
CHECK_DEADLOCK FALSE
