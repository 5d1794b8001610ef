SPECIFICATION Spec
CONSTANTS
    Lines <- MCLines
    Blank = {" "}
    NewLine = "nl"
    LineSize = 11
    MaxLines = 2
INVARIANTS
    TypeOK
    HandlerGetsWords
    CommandMeant
PROPERTIES
    SessionEnds
CHECK_DEADLOCK FALSE
