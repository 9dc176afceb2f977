\* A result that ends exactly at a page boundary.
CONSTANTS
    MaxSqlRows = 2
    MaxTotal = 5
SPECIFICATION Spec
INVARIANT AllPrintedMeansSuccess
CHECK_DEADLOCK FALSE
