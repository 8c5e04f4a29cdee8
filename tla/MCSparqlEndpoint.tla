------------------------- MODULE MCSparqlEndpoint -------------------------
(* Query variables x (two occurrences: a join variable), y and z (one     *)
(* occurrence each).                                                      *)
EXTENDS SparqlEndpoint

CONSTANTS t1, t2, x, y, z

MCVars == {x, y, z}
MCOcc == x :> 2 @@ y :> 1 @@ z :> 1
=============================================================================
