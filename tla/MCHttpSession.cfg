SPECIFICATION Spec
CONSTANTS
    Scripts <- MCScripts
    BufferSize = 4
    MaxYields = 1
INVARIANTS NoByteLost RequestIntact OneAnswerIfReadFirst KeepAliveHonestIfReadFirst FreshErrorIsAnswered
