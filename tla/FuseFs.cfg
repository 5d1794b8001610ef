SPECIFICATION FuseSpec
CONSTANTS
    Conn = {m, o}
    M = m
    Name = {a, b}
    LongName = LongName
    Inode = {i1, i2}
    Data = {x}
    Zero = Zero
    MaxData = 2
    MaxSize = 2
    NFd = 3
    Own = {0}
    Modes <- MCModes
    None = None
    Handle = {h1, h2}
    Node = {d, LongName}
    LinkLens = {1, 2, 3}
    MAXPATHLEN = 3
    MAX_SYMLINK_SIZE = 2
    MaxRequests = 5
SYMMETRY Symmetry
VIEW MCView
INVARIANTS
    HandlesValid
    DescriptorsAccounted
    ErrnoTold
PROPERTIES
    ShortenedOnlyIfAsked
    AcknowledgedEffect
CHECK_DEADLOCK FALSE
