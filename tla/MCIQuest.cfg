\* Pages of two rows over results of up to five rows, both query kinds,
\* with and without --no-page, from main to exit.
CONSTANTS
    MaxSqlRows = 2
    MaxTotal = 5
SPECIFICATION FairSpec
INVARIANTS
    TypeOK
    PrintedInOrder
    CompleteUnlessDeclined
PROPERTIES
    EventuallyExits
CHECK_DEADLOCK FALSE
