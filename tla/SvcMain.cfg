SPECIFICATION FairSpec
CONSTANTS
    Client = {c1, c2}
    Main = Main
    NPort = 3
    Backlog = 0
    Addr <- MCAddr
    IcbinnPath <- MCIcbinnPath
    Dir = {dA, dB, dC}
    Empty = Empty
    TooLong = TooLong
    InitDirs <- MCInitDirs
    Creatable <- MCCreatable
    None = None
    c1 = c1
    c2 = c2
    dA = dA
    dB = dB
    dC = dC
INVARIANTS
    TypeOK
    RightRoot
    NoForeignConnection
    ListenersReleased
PROPERTIES
    MkdirRaceHarmless
    EveryRequestResolved
    GoneClientReaped
\* When every client is gone the parent waits in select.
CHECK_DEADLOCK FALSE
