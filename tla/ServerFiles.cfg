SPECIFICATION Spec
CONSTANTS
    Conn = {p1, p2}
    Name = {a}
    LongName = LongName
    Inode = {i1, i2}
    Data = {x}
    Zero = x
    MaxData = 1
    MaxSize = 1
    NFd = 3
    Own = {0}
    Modes <- MCWriteModes
    None = None
INVARIANTS
    TypeOK
PROPERTIES
    LockLossOwn
SYMMETRY Symmetry
VIEW ClientView
CHECK_DEADLOCK FALSE
