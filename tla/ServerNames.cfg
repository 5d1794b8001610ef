SPECIFICATION FairSpec
CONSTANTS
    Name <- MCName
    Dots <- MCDots
    Batch = 2
    Lister = {l1}
    None = None
INVARIANTS
    TypeOK
    QuietListingExact
    CreationsHideNothing
    RemovalsRepeatNothing
PROPERTIES
    ListingEnds
CHECK_DEADLOCK FALSE
