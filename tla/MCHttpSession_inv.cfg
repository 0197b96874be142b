SPECIFICATION Spec
CONSTANTS
    Scripts <- MCScripts
    BufferSize = 4
    MaxYields = 1
INVARIANTS
    TypeOK TypeInv HeadInv RequestInv ControlInv OwedInv AnswersInv
