\* Two bindings per row and a flush chunk of two bindings; the deadline
\* passes at clock 2, so a stream of up to four rows can meet the probe
\* before or after it.
CONSTANTS
    a = a
    b = b
    null = null
    Ids = {a, b}
    NullId = null
    NumVars = 2
    FlushCount = 2
    Deadline = 1
    MaxClock = 3
    EntryChoices <- MCEntries

SPECIFICATION Spec

 
INVARIANT LateRowsBounded

\* streamJSON returns: the stream ends.
CHECK_DEADLOCK FALSE
