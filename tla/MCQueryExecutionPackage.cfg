\* Statements on an open database succeed; sqlite3_open itself may fail.
CONSTANTS
    q1 = q1
    q2 = q2
    Queries <- MCQueries
    TPChoices <- MCTPChoices
    InitialDbs <- MCInitialDbs
    DbCanFail = TRUE
    StmtCanFail = FALSE
    MaxRowId = 3

SPECIFICATION QEPSpec

INVARIANT SliceAgreesWithReference
INVARIANT NoDuplicateRows

CONSTRAINT DbBound

\* A constructor call on an unparsable string throws and changes nothing: when
\* no query string parses, no step changes the state.
CHECK_DEADLOCK FALSE
