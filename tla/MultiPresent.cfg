\* Three targets with up to 4 hits each.
CONSTANTS
    NoSets = 3
    MaxCount = 4
    BelowFirst = 2
    MaxNumber = 3
SPECIFICATION FairSpec
INVARIANTS
    
    ResponseExact
PROPERTIES
    Responds
\* A response is the end.
CHECK_DEADLOCK FALSE
