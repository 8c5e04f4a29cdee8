----------------------------- MODULE QueryFeatures -----------------------------
(***************************************************************************)
(* The graph part of SPARQLEndpoint::extract_query_features               *)
(* (src/libs/endpoint/src/dice/endpoint/SparqlEndpoint.cpp, lines 97-184): *)
(* the features of the variable co-occurrence graph of a query that are   *)
(* posted to the planner service (struct QueryFeatures,                    *)
(* src/libs/endpoint/private-include/dice/endpoint/SparqlEndpoint.hpp).   *)
(*                                                                         *)
(* A query is a sequence of triple patterns over variables and constants. *)
(* order is the iteration order of var_to_id_ (a hash map: any order of   *)
(* the variables of the query), which fixes the index of each variable.  *)
(* cards are the estimates of the cardinality estimator (not under src/). *)
(* A double is a ratio [num, den]; a division by zero is NaN (0/0) or Inf. *)
(***************************************************************************)
EXTENDS Naturals, Sequences, SequencesExt

CONSTANTS
    Vars,         \* query variables (model values)
    Consts,       \* constant terms (model values)
    Queries,      \* the queries: sequences of triple patterns
    Cards         \* the values an estimate may take

VARIABLES
    query,        \* sparql_query.triple_patterns_
    order,        \* var_to_id_ in iteration order
    cards,        \* cards[v]: CardEst::calcCard(odg, operands, id of v)
    features      \* the QueryFeatures computed, or NoFeatures

vars == <<query, order, cards, features>>

NoFeatures == [computed |-> FALSE]
\* A value that is no number: *max_element / *min_element of an empty
\* vector or an unassigned char (indeterminate), or a division by zero.
Undefined(why) == [undefined |-> why]
Indeterminate == Undefined("indeterminate")

\* The variables of a query, as the parser records them in var_to_id_.
VarsOf(q) == {t \in UNION {ToSet(q[i]) : i \in DOMAIN q} : t \in Vars}

\* static_cast<double>(a) / b.
Ratio(a, b) == IF b # 0 THEN [num |-> a, den |-> b] ELSE Undefined(IF a = 0 THEN "NaN" ELSE "Inf")

(* Lines 102-107: var_id_to_index, the position in var_to_id_.             *)
Index(v) == CHOOSE i \in DOMAIN order : order[i] = v

(* Lines 111-119: the variables a pattern contains, in var_to_id_ order.  *)
VarsInTP(tp) == SelectSeq(order, LAMBDA v : v \in ToSet(tp))

\* A plausible slip: the inner loop starts at i, pairing a variable with itself.
ConnectPairsWithSelf(adj, vs) ==
    [r \in DOMAIN order |-> [c \in DOMAIN order |->
        IF \E i, j \in DOMAIN vs : i <= j /\ {r, c} = {Index(vs[i]), Index(vs[j])}
        THEN 1 ELSE adj[r][c]]]

(* Lines 121-128: every pair i < j of the pattern's variables is set to 1 *)
(* in both directions.                                                     *)
ConnectPairs(adj, vs) ==
    [r \in DOMAIN order |-> [c \in DOMAIN order |->
        IF \E i, j \in DOMAIN vs : i < j /\ {r, c} = {Index(vs[i]), Index(vs[j])}
        THEN 1 ELSE adj[r][c]]]

(* Lines 131-134: each variable the pattern contains gains one degree.    *)
BumpDegrees(deg, tp) ==
    [d \in DOMAIN order |-> deg[d] + (IF order[d] \in ToSet(VarsInTP(tp)) THEN 1 ELSE 0)]

(* Lines 98-100 and the loop of lines 110-135 over the triple patterns.   *)
RECURSIVE GraphLoop(_, _, _)
GraphLoop(i, adj, deg) ==
    IF i > Len(query) THEN [adjacency |-> adj, degrees |-> deg]
    ELSE GraphLoop(i + 1, ConnectPairs(adj, VarsInTP(query[i])), BumpDegrees(deg, query[i]))

(* Lines 150-157: the ones of the matrix, halved.                          *)
TotalEdges(adj) == SumFunction([r \in DOMAIN adj |-> SumFunction(adj[r])]) \div 2

(* Lines 159-160: *max_element / *min_element over the degrees.            *)
Extreme(deg, which) ==
    IF deg = <<>> THEN Indeterminate
    ELSE [value |-> IF which = "max" THEN Max(Range(deg)) ELSE Min(Range(deg))]

\* std::numeric_limits<double>::max(): above every estimate.
DblMax == Max(Cards) + 1

(* Lines 171-184: the first variable, in var_to_id_ order, whose estimate *)
(* is strictly below the smallest seen so far (starting from DBL_MAX);     *)
(* the char stays uninitialised when there is none.                        *)
RECURSIVE MinCardLoop(_, _, _)
MinCardLoop(i, min, var) ==
    IF i > Len(order) THEN var
    ELSE IF cards[order[i]] < min
         THEN MinCardLoop(i + 1, cards[order[i]], [var |-> order[i]])
         ELSE MinCardLoop(i + 1, min, var)

(* Lines 97-184: the graph and cardinality features.  num_vars is a       *)
(* size_t; with one or no variable the denominators below are 0.          *)
ComputeFeatures ==
    LET n   == Len(order)
        g   == GraphLoop(1, [r \in 1..n |-> [c \in 1..n |-> 0]], [d \in 1..n |-> 0])
        tot == TotalEdges(g.adjacency)
    IN [computed            |-> TRUE,
        adjacency           |-> g.adjacency,
        degrees             |-> g.degrees,
        total_edges         |-> tot,
        max_variable_degree |-> Extreme(g.degrees, "max"),
        min_variable_degree |-> Extreme(g.degrees, "min"),
        avg_variable_degree |-> Ratio(SumFunction(g.degrees), n),
        graph_density       |-> Ratio(2 * tot, n * (n - 1)),
        min_cardinality_variable |-> MinCardLoop(1, DblMax, Indeterminate)]

(* A query taken from the cache: its var_to_id_ in some hash order, and   *)
(* what the estimator says of each variable.                              *)
Init ==
    /\ query \in Queries
    /\ order \in SetToSeqs(VarsOf(query))
    /\ cards \in [VarsOf(query) -> Cards]
    /\ features = NoFeatures

(* extract_query_features, for its graph and cardinality part.            *)
Extract ==
    /\ ~features.computed
    /\ features' = ComputeFeatures
    /\ UNCHANGED <<query, order, cards>>

Next == Extract

Spec == Init /\ [][Next]_vars
-----------------------------------------------------------------------------
\* Reference definitions: the co-occurrence graph of the query.
SharesPattern(v, w) == \E i \in DOMAIN query : {v, w} \subseteq ToSet(query[i])
RefDegree(v) == Cardinality({i \in DOMAIN query : v \in ToSet(query[i])})
RefEdges == {{v, w} : v \in VarsOf(query), w \in VarsOf(query)} \ {{v} : v \in Vars}

(* The features posted to the planner describe the query: the matrix is   *)
(* the co-occurrence graph of distinct variables, total_edges its number   *)
(* of edges, each degree the number of patterns holding the variable, and *)
(* min_cardinality_variable the first variable of least estimate.         *)
(* Concerns the nested pair loop, the halving of the matrix sum and the   *)
(* strict comparison of the cardinality loop.                              *)
GraphAgreesWithReference ==
    features.computed =>
        /\ \A r, c \in DOMAIN order :
              features.adjacency[r][c] = IF r # c /\ SharesPattern(order[r], order[c]) THEN 1 ELSE 0
        /\ features.total_edges = Cardinality({e \in RefEdges : \E v, w \in e : v # w /\ SharesPattern(v, w)})
        /\ \A d \in DOMAIN order : features.degrees[d] = RefDegree(order[d])
        /\ order # <<>> =>
              LET least == {v \in ToSet(order) : \A w \in ToSet(order) : cards[v] <= cards[w]}
              IN  features.min_cardinality_variable.var = order[CHOOSE i \in DOMAIN order :
                       order[i] \in least /\ \A j \in 1..i - 1 : order[j] \notin least]

(* Every number posted to the planner is a defined value: no degree read  *)
(* from an empty vector, no NaN or infinite average or density, and an    *)
(* initialised least-cardinality variable.                                 *)
FeaturesAreNumbers ==
    features.computed =>
        \A f \in {"max_variable_degree", "min_variable_degree", "avg_variable_degree",
                  "graph_density", "min_cardinality_variable"} :
            "undefined" \notin DOMAIN features[f]
=============================================================================
