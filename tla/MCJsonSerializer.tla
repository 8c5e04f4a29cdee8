-------------------------- MODULE MCJsonSerializer --------------------------
(* Results of at most two entries, each a key over two term ids or with   *)
(* an unbound slot, written once or twice, so that up to four rows cross  *)
(* a flush chunk and the lookup of an unbound slot throws mid-stream.     *)
EXTENDS JsonSerializer

CONSTANTS a, b, null

\* Entries whose keys hold only the given term ids.
EntriesOver(ids) ==
    LET E == [key : [1..NumVars -> ids], c : 1..2] IN
    {<<>>} \cup {<<e>> : e \in E} \cup {<<e, f>> : e \in E, f \in E}

\* Results whose keys are all bound, and results with an unbound slot in
\* the first entry, in the second, or after a bound entry written twice.
MCEntries ==
    EntriesOver({a, b})
    \cup {<<[key |-> <<a, null>>, c |-> 1]>>,
          <<[key |-> <<a, b>>, c |-> 2], [key |-> <<null, b>>, c |-> 1]>>,
          <<[key |-> <<b, b>>, c |-> 1], [key |-> <<a, null>>, c |-> 2]>>}
=============================================================================
