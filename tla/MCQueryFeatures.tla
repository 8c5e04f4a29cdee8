--------------------------- MODULE MCQueryFeatures ---------------------------
(* Queries of one or two triple patterns over three variables and one     *)
(* constant; estimates 1 or 2, so that ties between variables occur.      *)
EXTENDS QueryFeatures

CONSTANTS x, y, z, k

MCVars == {x, y, z}
MCConsts == {k}
\* Patterns with a constant predicate, and one of three variables.
TP == {<<s, k, o>> : s, o \in MCVars \cup MCConsts} \cup {<<x, y, z>>}
MCQueries == {<<t>> : t \in TP} \cup {<<t, u>> : t \in TP, u \in TP}
=============================================================================
