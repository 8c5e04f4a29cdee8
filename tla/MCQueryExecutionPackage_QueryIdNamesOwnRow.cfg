\* The database opens, and any statement of writeToSQLite may fail on it,
\* as it does when the table is locked by another connection (SQLITE_BUSY).
CONSTANTS
    q1 = q1
    q2 = q2
    Queries <- MCQueries
    TPChoices <- MCTPChoices
    InitialDbs <- MCInitialDbs
    DbCanFail = FALSE
    StmtCanFail = TRUE
    MaxRowId = 3

SPECIFICATION QEPSpec

INVARIANT QueryIdNamesOwnRow

CONSTRAINT DbBound

\* A constructor call on an unparsable string throws and changes nothing: when
\* no query string parses, no step changes the state.
CHECK_DEADLOCK FALSE
