SPECIFICATION RpcSpec
CONSTANTS
    Conn = {c}
    C = c
    Name = {a, b}
    LongName = LongName
    Inode = {i1, i2}
    Data = {x, y}
    Zero = Zero
    MaxData = 1
    MaxSize = 1
    NFd = 3
    Own = {0}
    Modes <- MCModes
    None = None
    Thread = {t1, t2}
    MaxCalls = 5
INVARIANTS
    RpcTypeOK
    HeldIsOpen
    LeakExplained
PROPERTIES
    RefinesCallOnce
    Released
CHECK_DEADLOCK FALSE
