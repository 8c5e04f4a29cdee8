------------------------ MODULE QueryExecutionPackage ------------------------
(***************************************************************************)
(* The constructor of tentris::store::cache::QueryExecutionPackage         *)
(* (src/src/lib/tentris/store/QueryExecutionPackage.hpp): it opens the     *)
(* feature database, parses the query, slices one operand per triple       *)
(* pattern out of the triple store and records the query in the SQLite     *)
(* table TestQueryData, keeping the row id as queryID.                     *)
(*                                                                         *)
(* The triple store is immutable, so what resolveTriplePattern returns for *)
(* the patterns of a query is fixed per query string (variable resolved). *)
(* The SQLite table outlives the process: db is the table, one record per  *)
(* row, the row id being the index.                                        *)
(***************************************************************************)
EXTENDS Naturals, Sequences, SequencesExt

CONSTANTS
    Queries,      \* the query strings (model values)
    TPChoices,    \* the resolution sequences a query's patterns may have
    InitialDbs,   \* contents of TestQueryData left by earlier runs
    DbCanFail,    \* whether sqlite3_open of the feature database can fail
    StmtCanFail,  \* whether a statement on the open database can fail (e.g. SQLITE_BUSY)
    MaxRowId      \* bound on row ids; also bounds an indeterminate queryID

VARIABLES
    resolved,     \* resolved[q]: resolveTriplePattern of each pattern of q
    parsable,     \* parsable[q]: ParsedSPARQL(q) does not throw
    db,           \* TestQueryData: <<[query, runtime]>>, row id = index
    built         \* <<p>>: the package the last constructor returned, or <<>>

qepVars == <<resolved, parsable, db, built>>

(* What resolveTriplePattern returns: a bool when every position of the   *)
(* pattern is a constant, a hypertrie (of some size) otherwise.            *)
BoolOp(b)  == [kind |-> "bool", val |-> b]
TrieOp(n)  == [kind |-> "trie", size |-> n]
Resolutions(maxSize) == {BoolOp(b) : b \in BOOLEAN} \cup {TrieOp(n) : n \in 0..maxSize}

\* SelectModifier values; OTHER stands for any other bit pattern.
Modifiers == {"NONE", "DISTINCT", "REDUCE", "OTHER"}

Row == [query : Queries, runtime : Seq(Int)]

(***************************************************************************)
(* The slicing loop of the constructor (lines 126-148).  st holds the      *)
(* members it writes: is_trivial_empty, operands (the positions of the     *)
(* kept hypertries) and tpSizes.                                           *)
(***************************************************************************)
SliceInit == [is_trivial_empty |-> FALSE, operands |-> <<>>, tpSizes |-> <<>>]

SliceStep(st, pos, op) ==
    IF op.kind = "bool"
    THEN [st EXCEPT !.is_trivial_empty = ~op.val, !.tpSizes = Append(@, 0)]
    ELSE IF op.size > 0
         THEN [st EXCEPT !.tpSizes = Append(@, op.size), !.operands = Append(@, pos)]
         ELSE [st EXCEPT !.is_trivial_empty = TRUE, !.operands = <<>>]

\* A plausible slip: the early exit of the loop is forgotten.
RECURSIVE SliceLoopNoBreak(_, _, _)
SliceLoopNoBreak(ops, i, st) ==
    IF i > Len(ops) THEN st
    ELSE SliceLoopNoBreak(ops, i + 1, SliceStep(st, i, ops[i]))

RECURSIVE SliceLoop(_, _, _)
SliceLoop(ops, i, st) ==
    IF i > Len(ops) THEN st
    ELSE LET next == SliceStep(st, i, ops[i])
         IN  IF next.is_trivial_empty THEN next ELSE SliceLoop(ops, i + 1, next)

Sliced(q) == SliceLoop(resolved[q], 1, SliceInit)

(***************************************************************************)
(* writeToSQLite (lines 269-408): reuse the row of an already recorded    *)
(* query string, else insert one.  res is how the database answers this   *)
(* constructor: "open_error" (sqlite3_open failed, so every statement     *)
(* fails to prepare), a failure of the lookup's prepare (return, lines    *)
(* 276-279) or of its step (anything but SQLITE_ROW falls through to the  *)
(* INSERT, line 287), a failure of the INSERT's prepare (return, lines    *)
(* 310-313) or of its step (only logged, lines 399-401), or "ok".  On    *)
(* every early return queryID keeps its indeterminate value.              *)
(***************************************************************************)
RowsOf(d, q) == {i \in DOMAIN d : d[i].query = q}

\* The outcomes of one writeToSQLite the model allows.
SqlOutcomes ==
    {"ok"} \cup (IF DbCanFail THEN {"open_error"} ELSE {})
           \cup (IF StmtCanFail
                 THEN {"check_prepare_error", "check_step_error",
                       "insert_prepare_error", "insert_step_error"}
                 ELSE {})

\* The lookup statement never ran to a result.
NoLookup(res) == res \in {"open_error", "check_prepare_error"}

\* The rows the lookup reports: none unless its step returned SQLITE_ROW.
Found(d, q, res) == IF res = "check_step_error" THEN {} ELSE RowsOf(d, q)

\* The INSERT did not add a row.
InsertFailed(res) == res \in {"insert_prepare_error", "insert_step_error"}

\* A plausible slip: the existence check is skipped and a row always inserted.
InsertRowAlways(d, q, res) ==
    IF NoLookup(res) \/ InsertFailed(res) THEN d
    ELSE Append(d, [query |-> q, runtime |-> <<>>])

DbAfterWrite(d, q, res) ==
    IF NoLookup(res) \/ Found(d, q, res) # {} \/ InsertFailed(res) THEN d
    ELSE Append(d, [query |-> q, runtime |-> <<>>])

\* A plausible slip: sqlite3_last_insert_rowid taken even for a found row.
QueryIdAlwaysInserted(d, q, res, garbage) ==
    IF NoLookup(res) \/ InsertFailed(res) THEN garbage ELSE Len(d) + 1

\* SELECT rowid ... WHERE QueryString = ? yields the first matching row.
QueryIdAfterWrite(d, q, res, garbage) ==
    CASE NoLookup(res)             -> garbage
      [] Found(d, q, res) # {}     -> Min(Found(d, q, res))
      [] InsertFailed(res)         -> garbage
      [] OTHER                     -> Len(d) + 1

(***************************************************************************)
(* The package a successful construction yields.  select_modifier is      *)
(* never assigned (line 117 is commented out), so its value is whatever   *)
(* the memory held: mod is chosen by the caller over Modifiers.           *)
(***************************************************************************)
NewPackage(q, res, garbage, mod) ==
    LET st == Sliced(q) IN
    [query            |-> q,
     queryID          |-> QueryIdAfterWrite(db, q, res, garbage),
     select_modifier  |-> mod,
     is_trivial_empty |-> st.is_trivial_empty,
     operands         |-> st.operands,
     tpSizes          |-> st.tpSizes]

(***************************************************************************)
(* The constructor (lines 80-151) as a step.  The database is opened      *)
(* before parsing; a parse error throws std::invalid_argument before any  *)
(* row is written: no package exists, and the step is not enabled.       *)
(***************************************************************************)
(* Lines 359-364: on the insert path every variable's cardinalities come *)
(* through cardinalityestimation, a shared_ptr no constructor assigns.    *)
(* The call through the null pointer is undefined behaviour; the build    *)
(* either dies there or carries on, and the model allows both.  Every     *)
(* query string is taken to have a variable.                              *)
ReachesCardinalityCall(d, q, res) ==
    ~NoLookup(res) /\ Found(d, q, res) = {} /\ res # "insert_prepare_error"

ConstructPackage(q, res, garbage, mod) ==
    /\ parsable[q]
    /\ db' = DbAfterWrite(db, q, res)
    /\ built' = <<NewPackage(q, res, garbage, mod)>>
    /\ UNCHANGED <<resolved, parsable>>

QEPInit ==
    /\ resolved \in [Queries -> TPChoices]
    /\ parsable \in [Queries -> BOOLEAN]
    /\ db \in InitialDbs
    /\ built = <<>>

QEPNext ==
    \E q \in Queries, res \in SqlOutcomes, garbage \in 0..MaxRowId, mod \in Modifiers :
        ConstructPackage(q, res, garbage, mod)

QEPSpec == QEPInit /\ [][QEPNext]_qepVars

-----------------------------------------------------------------------------
IsEmptyOperand(op) == op = BoolOp(FALSE) \/ op = TrieOp(0)

(* Spec section 3: a package is trivially empty iff some sliced operand   *)
(* is false or empty; otherwise its operands are the hypertries of the    *)
(* patterns, in pattern order, and tpSizes has the size of every pattern. *)
(* Checks the early exit and the overwrite of is_trivial_empty in the     *)
(* slicing loop of the constructor.                                        *)
SliceAgreesWithReference ==
    \A p \in ToSet(built) :
        LET ops == resolved[p.query] IN
        /\ p.is_trivial_empty <=> \E i \in DOMAIN ops : IsEmptyOperand(ops[i])
        /\ ~p.is_trivial_empty =>
              /\ p.operands = SelectSeq([i \in 1..Len(ops) |-> i], LAMBDA i : ops[i].kind = "trie")
              /\ p.tpSizes = [i \in DOMAIN ops |-> IF ops[i].kind = "bool" THEN 0 ELSE ops[i].size]

(* However often the cache evicts and rebuilds the package of a query,    *)
(* TestQueryData holds at most one row per query string: writeToSQLite   *)
(* looks the string up before inserting.  (A lookup whose step fails      *)
(* falls through to the INSERT, so this holds only while statements on    *)
(* the open database succeed.)                                             *)
NoDuplicateRows ==
    \A q \in Queries : Cardinality(RowsOf(db, q)) <= 1

(* Every package carries as queryID the row of its own query string,      *)
(* whether that row was found or inserted: the terminal writes the        *)
(* query's runtime into row queryID (insertTentrisQueryRuntime).          *)
(* Concerns the early returns of writeToSQLite that leave queryID         *)
(* unassigned.                                                             *)
QueryIdNamesOwnRow ==
    \A p \in ToSet(built) :
        p.queryID \in DOMAIN db /\ db[p.queryID].query = p.query
=============================================================================
