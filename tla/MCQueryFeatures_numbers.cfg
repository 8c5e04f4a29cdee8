\* Every query of one or two patterns: some hold a single variable.
CONSTANTS
    x = x
    y = y
    z = z
    k = k
    Vars <- MCVars
    Consts <- MCConsts
    Queries <- MCQueries
    Cards = {1, 2}

SPECIFICATION Spec


INVARIANT FeaturesAreNumbers

\* extract_query_features returns after one pass.
CHECK_DEADLOCK FALSE
