CONSTANTS
    PageBytes = 3
    MaxPages = 5
    MaxFiles = 2
SPECIFICATION RandSpec
INVARIANT AllOverwritten
CHECK_DEADLOCK FALSE
