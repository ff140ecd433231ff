CONSTANTS
    a = a
    b = b
    z = z
    BlockSize = 2
    BlockCount = 2
    MaxBlocks = 2
    Byte <- MCByte
    Zero = z
    Records <- MCRecords
    Files <- MCFiles
    AppendModes = {TRUE}
    MaxLog = 7
    MaxFile = 8
SPECIFICATION Spec
INVARIANT WriteIsSync
