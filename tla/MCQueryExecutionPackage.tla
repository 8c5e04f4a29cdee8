---------------------- MODULE MCQueryExecutionPackage ----------------------
(* Two query strings whose patterns resolve to every sequence of at most  *)
(* two resolutions (bool true/false, empty or one-cell hypertrie), over a *)
(* table that is empty or already holds a row from an earlier run.        *)
EXTENDS QueryExecutionPackage

CONSTANTS q1, q2

MCQueries == {q1, q2}

MCTPChoices == BoundedSeq(Resolutions(1), 2)

MCInitialDbs == {<<>>, <<[query |-> q1, runtime |-> <<>>]>>}

\* Row ids stay below MaxRowId (only reached when rows are duplicated).
DbBound == Len(db) <= MaxRowId
=============================================================================
