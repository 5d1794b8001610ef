SPECIFICATION IOFairSpec
CONSTANTS
    Conn = {p1, p2}
    Name = {a}
    LongName = LongName
    Inode = {i1}
    Data = {x, y}
    x = x
    y = y
    Zero = Zero
    MaxData = 2
    MaxSize = 5
    NFd = 2
    Own = {0}
    Modes <- MCModes
    None = None
    Target = a
    File = i1
    TheFd = 1
    Contents <- MCContents
    Payload <- MCPayload
    Offsets = {0, 1}
    Counts = {0, 1, 3, 4}
INVARIANTS
    IOTypeOK
    ReadReported
    WriteReported
    ShortForAReason
PROPERTIES
    CallsReturn
CHECK_DEADLOCK FALSE
