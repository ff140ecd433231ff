CONSTANTS
    n1 = n1
    n2 = n2
    n3 = n3
    v1 = v1
    v2 = v2
    Null = Null
    Node <- MCNode
    Value <- MCValue
    Numbers <- MCNumbers
    PrequeLen = 2
    MaxLines = 4
    MaxTears = 1
SPECIFICATION MCSpec
INVARIANT RestartKeepsQueue
