\* Every query of one or two patterns over three variables and a constant,
\* in every iteration order of var_to_id_.
CONSTANTS
    x = x
    y = y
    z = z
    k = k
    Vars <- MCVars
    Consts <- MCConsts
    Queries <- MCQueries
    Cards = {1, 2}

SPECIFICATION Spec

INVARIANT GraphAgreesWithReference

\* extract_query_features returns after one pass.
CHECK_DEADLOCK FALSE
