SPECIFICATION FairSpec
CONSTANTS
    Scripts <- LiveScripts
    BufferSize = 2
    MaxYields = 1
PROPERTY RequestIsServed
