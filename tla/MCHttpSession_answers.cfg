SPECIFICATION Spec
CONSTANTS
    Scripts <- AnswerScripts
    BufferSize = 4
    MaxYields = 0
INVARIANTS ErrorIsAnswered OneAnswerEach KeepAliveHonest
