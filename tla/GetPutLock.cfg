SPECIFICATION GPSpec
CONSTANTS
    Conn = {p1, p2}
    Name = {a}
    LongName = LongName
    Inode = {i1}
    Data = {x, y}
    x = x
    y = y
    Zero = Zero
    MaxData = 2
    MaxSize = 3
    NFd = 3
    Own = {0}
    Modes <- MCModes
    None = None
    Target = a
    Source <- MCSource
    LocalFd = 0
    MaxCmds = 2
INVARIANTS
    CopyUnderLock
CHECK_DEADLOCK FALSE
