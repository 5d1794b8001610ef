SPECIFICATION LockingSpec
CONSTANTS
    Conn = {p1, p2}
    Name = {a, b}
    LongName = LongName
    Inode = {i1, i2}
    Data = {x}
    Zero = Zero
    MaxData = 1
    MaxSize = 1
    NFd = 3
    Own = {0}
    Modes <- MCModes
    None = None
INVARIANTS
    LockExclusion
PROPERTIES
    LockedContentStable
SYMMETRY Symmetry
VIEW ClientView
CHECK_DEADLOCK FALSE
