--------------------------- MODULE TentrisTerminal ---------------------------
(***************************************************************************)
(* The query loop of the terminal front end                               *)
(* (src/src/exec/TentrisTerminal.cpp): commandlineInterface reads the     *)
(* queries of a CSV file and, one after the other, fetches the package    *)
(* from the QueryExecutionPackage cache, evaluates it with runCMDQuery /  *)
(* writeNTriple, and stores the execution time in TestQueryData.          *)
(*                                                                         *)
(* The state the loop keeps in globals (error, number_of_bindings,        *)
(* execute_start, execute_end, timeout) and in the local query_package    *)
(* survives from one query to the next, as in the code.  Time is a        *)
(* discrete clock; Tick may happen between any two steps.                 *)
(***************************************************************************)
EXTENDS QueryExecutionPackage

CONSTANTS
    Bindings,       \* result tuples (model values)
    CsvLength,      \* bound on the number of query lines in the CSV file
    CsvFiles,       \* the files the loop may be started on: [open, lines]
    AnswerChoices,  \* COUNTED results a query may have: <<[b, c]>>
    CacheSize,      \* capacity of the QueryExecutionPackage cache
    TimeoutTicks,   \* cfg.timeout, in clock ticks
    CheckInterval,  \* lines between two timeout probes (500 in the code)
    MaxClock,       \* bound on the clock
    DistinctQueries \* the query strings whose text says SELECT DISTINCT

VARIABLES
    csv,            \* the query strings read from the CSV file
    answer,         \* answer[q]: the entries the COUNTED Einsum yields for q
    cache,          \* packages in LRU order, least recently used first
    line,           \* index of the CSV line being processed
    pc,             \* where the loop is
    clock,          \* steady_clock::now()
    error, number_of_bindings, execute_start, execute_end, timeout,
    query_package,  \* <<p>> or <<>> (the null shared_ptr)
    mode,           \* RESULT_TYPE chosen by the switch: COUNTED or DISTINCT
    entries,        \* what the Einsum yields for the running query
    entry, copy,    \* position in entries, and copies of it written
    timeout_check, result_count, first,
    out,            \* the lines written to stdout for the current query
    late,           \* lines written after the deadline had passed
    handles         \* sqlite3 connections the package constructors opened

termVars == <<csv, answer, cache, line, pc, clock, error,
              number_of_bindings, execute_start, execute_end, timeout,
              query_package, mode, entries, entry, copy, timeout_check,
              result_count, first, out, late, handles>>
vars == <<qepVars, termVars>>

Status == {"OK", "UNPARSABLE", "PROCESSING_TIMEOUT", "SERIALIZATION_TIMEOUT"}
Entry == [b : Bindings, c : Nat \ {0}]

(***************************************************************************)
(* The QueryExecutionPackage_cache (not under src/; spec section 4.F): a  *)
(* bounded LRU map from query strings to packages.  A query that fails to *)
(* parse is not cached.                                                    *)
(***************************************************************************)
CachedQueries == {cache[i].query : i \in DOMAIN cache}
CachedPackage(q) == cache[CHOOSE i \in DOMAIN cache : cache[i].query = q]
Touch(q) == Append(SelectSeq(cache, LAMBDA p : p.query # q), CachedPackage(q))
Admit(p) == IF Len(cache) < CacheSize THEN Append(cache, p)
            ELSE Append(Tail(cache), p)

(* What the Einsum of a package yields (spec section 4.E): the COUNTED    *)
(* entries, or under DISTINCT each result tuple once with count 1.        *)
(* getEinsum picks DISTINCT_t for every modifier other than NONE.         *)
EinsumEntries(q, m) ==
    IF m = "NONE" THEN answer[q]
    ELSE [i \in DOMAIN answer[q] |-> [b |-> answer[q][i].b, c |-> 1]]

(***************************************************************************)
(* Lines 290-296: start of a query, reset of the counters, and the cache  *)
(* lookup that constructs the package on a miss.                          *)
(***************************************************************************)
(* QueryExecutionPackage.hpp lines 84-90: every constructor call opens   *)
(* the feature database before it parses; sqlite3_open returns a         *)
(* connection even when it fails, and the struct has no destructor that  *)
(* closes it.                                                             *)
OpenFeatureDb(n) == n + 1

FetchHit(q) ==
    /\ q \in CachedQueries
    /\ query_package' = <<CachedPackage(q)>>
    /\ cache' = Touch(q)
    /\ pc' = "dispatch"
    /\ error' = "OK"
    /\ UNCHANGED <<qepVars, handles>>

FetchMiss(q) ==
    /\ q \notin CachedQueries
    /\ \E res \in SqlOutcomes, garbage \in 0..MaxRowId, m \in Modifiers :
          /\ ConstructPackage(q, res, garbage, m)
          /\ query_package' = <<NewPackage(q, res, garbage, m)>>
          /\ cache' = Admit(NewPackage(q, res, garbage, m))
    /\ handles' = OpenFeatureDb(handles)
    /\ pc' = "dispatch"
    /\ error' = "OK"

\* The constructor dies in the call through the null cardinalityestimation.
FetchMissCrash(q) ==
    /\ q \notin CachedQueries
    /\ parsable[q]
    /\ \E res \in SqlOutcomes : ReachesCardinalityCall(db, q, res)
    /\ handles' = OpenFeatureDb(handles)
    /\ pc' = "crashed"
    /\ UNCHANGED <<qepVars, cache, query_package, error>>

\* std::invalid_argument from the parser: query_package keeps its old value.
FetchUnparsable(q) ==
    /\ q \notin CachedQueries
    /\ ~parsable[q]
    /\ error' = "UNPARSABLE"
    /\ handles' = OpenFeatureDb(handles)
    /\ pc' = "report"
    /\ UNCHANGED <<query_package, cache, qepVars>>

Fetch ==
    /\ pc = "idle"
    /\ line <= Len(csv)
    /\ number_of_bindings' = 0
    /\ LET q == csv[line] IN
          \/ FetchHit(q)
          \/ FetchMiss(q)
          \/ FetchMissCrash(q)
          \/ FetchUnparsable(q)
    /\ UNCHANGED <<csv, answer, line, clock, execute_start, execute_end, timeout, mode,
                   entries, entry, copy, timeout_check, result_count, first, out, late>>

(***************************************************************************)
(* Lines 312-330: the deadline, the start of the execution clock, and the *)
(* switch on the package's select_modifier.  A value other than NONE,     *)
(* REDUCE and DISTINCT falls into "default: break" and runs nothing.      *)
(***************************************************************************)
Dispatch ==
    /\ pc = "dispatch"
    /\ timeout' = clock + TimeoutTicks
    /\ execute_start' = clock
    /\ LET m == query_package[1].select_modifier IN
          IF m = "NONE" THEN mode' = "COUNTED" /\ pc' = "run"
          ELSE IF m \in {"REDUCE", "DISTINCT"} THEN mode' = "DISTINCT" /\ pc' = "run"
          ELSE pc' = "report" /\ UNCHANGED mode
    /\ UNCHANGED <<qepVars, handles, csv, answer, cache, line, clock, error,
                   number_of_bindings, execute_end, query_package, entries, entry,
                   copy, timeout_check, result_count, first, out, late>>

(***************************************************************************)
(* runCMDQuery (lines 127-137) and the start of writeNTriple (lines       *)
(* 73-82): past the deadline the query is a processing timeout; otherwise *)
(* the Einsum of a package that is not trivially empty is iterated.       *)
(***************************************************************************)
RunCMDQuery ==
    /\ pc = "run"
    /\ IF clock < timeout
       THEN LET p == query_package[1] IN
            /\ entries' = IF p.is_trivial_empty THEN <<>>
                          ELSE EinsumEntries(p.query, p.select_modifier)
            /\ entry' = 1
            /\ copy' = 0
            /\ timeout_check' = 0
            /\ result_count' = 0
            /\ first' = TRUE
            /\ pc' = "write"
            /\ UNCHANGED error
       ELSE /\ error' = "PROCESSING_TIMEOUT"
            /\ pc' = "report"
            /\ UNCHANGED <<entries, entry, copy, timeout_check, result_count, first>>
    /\ UNCHANGED <<qepVars, handles, csv, answer, cache, line, clock,
                   number_of_bindings, execute_start, execute_end, timeout,
                   query_package, mode, out, late>>

\* A plausible slip: the probe compares against one line too many.
TimeoutCheckDueLate(tc) == tc = CheckInterval + 1

(* Line 107: the probe is due every CheckInterval written lines.          *)
TimeoutCheckDue(tc) == tc = CheckInterval

(***************************************************************************)
(* One line of writeNTriple (lines 84-117): the first result stops the    *)
(* execution clock; each of the count copies of a result is one line; on  *)
(* every CheckInterval-th line the deadline is probed and, when passed,   *)
(* the query ends as a serialization timeout.                              *)
(***************************************************************************)
WriteLine ==
    /\ pc = "write"
    /\ entry <= Len(entries)
    /\ LET e  == entries[entry]
           rc == result_count + 1
           tc == timeout_check + 1
       IN
       /\ out' = Append(out, e.b)
       /\ late' = IF clock > timeout THEN late + 1 ELSE late
       /\ execute_end' = IF first THEN clock ELSE execute_end
       /\ first' = FALSE
       /\ IF copy + 1 < e.c THEN copy' = copy + 1 /\ UNCHANGED entry
          ELSE copy' = 0 /\ entry' = entry + 1
       /\ result_count' = rc
       /\ IF TimeoutCheckDue(tc) /\ clock > timeout
          THEN /\ timeout_check' = 0
               /\ error' = "SERIALIZATION_TIMEOUT"
               /\ number_of_bindings' = rc
               /\ pc' = "report"
          ELSE /\ timeout_check' = IF TimeoutCheckDue(tc) THEN 0 ELSE tc
               /\ UNCHANGED <<error, number_of_bindings, pc>>
    /\ UNCHANGED <<qepVars, handles, csv, answer, cache, line, clock, execute_start,
                   timeout, query_package, mode, entries>>

(* Line 84: the range-for over the Einsum has no entry left.             *)
EinsumExhausted(e, n) == e > n

\* A plausible slip: the count of printed lines is not stored.
FinishWriteNoCount ==
    /\ pc = "write"
    /\ EinsumExhausted(entry, Len(entries))
    /\ execute_end' = IF first THEN clock ELSE execute_end
    /\ pc' = "report"
    /\ UNCHANGED <<qepVars, handles, csv, answer, cache, line, clock, error, number_of_bindings,
                   execute_start, timeout, query_package, mode, entries, entry,
                   copy, timeout_check, result_count, first, out, late>>

(* Lines 120-123: the Einsum is exhausted.                                *)
FinishWrite ==
    /\ pc = "write"
    /\ EinsumExhausted(entry, Len(entries))
    /\ execute_end' = IF first THEN clock ELSE execute_end
    /\ number_of_bindings' = result_count
    /\ pc' = "report"
    /\ UNCHANGED <<qepVars, handles, csv, answer, cache, line, clock, error,
                   execute_start, timeout, query_package, mode, entries, entry,
                   copy, timeout_check, result_count, first, out, late>>

(* insertTentrisQueryRuntime (lines 139-164): UPDATE ... WHERE rowid =   *)
(* queryID; a row id that does not exist matches no row.                  *)
RecordRuntime(id, runtime) ==
    IF id \in DOMAIN db
    THEN db' = [db EXCEPT ![id].runtime = <<runtime>>]
    ELSE UNCHANGED db

(***************************************************************************)
(* Lines 341-349 and insertTentrisQueryRuntime (lines 139-164): the       *)
(* execution time execute_end - execute_start is written to the row       *)
(* query_package->queryID.  An UPDATE of a row id that does not exist     *)
(* changes nothing; dereferencing the null query_package kills the        *)
(* process.  The locals of writeNTriple and the Einsum leave scope, and   *)
(* the output of the query is done.                                       *)
(***************************************************************************)
Report ==
    /\ pc = "report"
    /\ IF query_package = <<>>
       THEN /\ pc' = "crashed"
            /\ UNCHANGED <<db, line, mode, entries, entry, copy,
                           timeout_check, result_count, first, out, late>>
       ELSE /\ RecordRuntime(query_package[1].queryID, execute_end - execute_start)
            /\ line' = line + 1
            /\ pc' = "idle"
            /\ mode' = "COUNTED"
            /\ entries' = <<>>
            /\ entry' = 1
            /\ copy' = 0
            /\ timeout_check' = 0
            /\ result_count' = 0
            /\ first' = TRUE
            /\ out' = <<>>
            /\ late' = 0
    /\ UNCHANGED <<resolved, parsable, built, handles, csv, answer, cache, clock, error,
                   number_of_bindings, execute_start, execute_end, timeout,
                   query_package>>

\* Time passes.
Tick ==
    /\ clock < MaxClock
    /\ line <= Len(csv)
    /\ pc # "crashed"
    /\ clock' = clock + 1
    /\ UNCHANGED <<qepVars, handles, csv, answer, cache, line, pc, error,
                   number_of_bindings, execute_start, execute_end, timeout,
                   query_package, mode, entries, entry, copy, timeout_check,
                   result_count, first, out, late>>

\* A line read from the file is kept unless it is empty.
IsQueryLine(l) == l # ""

\* A plausible slip: the title line is read as a query.
ReadSparqlQueriesFromCsvWithTitle(file) ==
    IF ~file.open THEN <<>> ELSE SelectSeq(file.lines, IsQueryLine)

(***************************************************************************)
(* readSparqlQueriesFromCsv (lines 247-272): a file that cannot be opened *)
(* or has no first line gives no query; otherwise the first line is      *)
(* skipped as the column title and every non-empty line after it is a    *)
(* query string.                                                          *)
(***************************************************************************)
ReadSparqlQueriesFromCsv(file) ==
    IF ~file.open \/ file.lines = <<>> THEN <<>>
    ELSE SelectSeq(Tail(file.lines), IsQueryLine)

(* Globals of static storage start zeroed; the clock does not.            *)
Init ==
    /\ QEPInit
    /\ \E file \in CsvFiles : csv = ReadSparqlQueriesFromCsv(file)
    /\ answer \in [Queries -> AnswerChoices]
    /\ cache = <<>>
    /\ line = 1
    /\ pc = "idle"
    /\ clock = 1
    /\ error = "OK"
    /\ number_of_bindings = 0
    /\ execute_start = 0
    /\ execute_end = 0
    /\ timeout = 0
    /\ query_package = <<>>
    /\ mode = "COUNTED"
    /\ entries = <<>>
    /\ entry = 1
    /\ copy = 0
    /\ timeout_check = 0
    /\ result_count = 0
    /\ first = TRUE
    /\ out = <<>>
    /\ late = 0
    /\ handles = 0

Step == Fetch \/ Dispatch \/ RunCMDQuery \/ WriteLine \/ FinishWrite \/ Report

Next == Step \/ Tick

\* The loop runs on its own thread and never waits: every enabled step of it
\* is eventually taken.  Time is not required to pass.
Spec == Init /\ [][Next]_vars /\ WF_vars(Step)
-----------------------------------------------------------------------------
TerminalTypeOK ==
    /\ db \in Seq(Row)
    /\ csv \in Seq(Queries) /\ Len(csv) <= CsvLength
    /\ pc \in {"idle", "dispatch", "run", "write", "report", "crashed"}
    /\ error \in Status
    /\ mode \in {"COUNTED", "DISTINCT"}
    /\ entries \in Seq(Entry)
    /\ out \in Seq(Bindings)
    /\ Len(cache) <= CacheSize

\* The lines a stream of entries stands for: each tuple, count times.
Expand(es) == FlattenSeq([i \in DOMAIN es |-> [k \in 1..es[i].c |-> es[i].b]])

(* The number of bindings the terminal logs for a query is the number of  *)
(* lines writeNTriple printed for it, and a query reported OK printed     *)
(* every copy of every result of its Einsum, in order.  Concerns the      *)
(* counters of writeNTriple across the early return on a serialization    *)
(* timeout, and the reset of number_of_bindings between queries.          *)
ReportedCountIsOutput ==
    pc = "report" /\ error \in {"OK", "SERIALIZATION_TIMEOUT"} =>
        /\ number_of_bindings = Len(out)
        /\ error = "OK" => out = Expand(entries)

(* Once the deadline has passed, writeNTriple prints at most              *)
(* CheckInterval more lines before it gives up with a serialization       *)
(* timeout (spec 8.6, for the serializer of the terminal).                *)
SerializationOverrunBounded == late <= CheckInterval

\* The packages alive: those in the cache and the one the loop still holds.
LivePackages ==
    Len(cache) + (IF query_package # <<>> /\ query_package[1] \notin ToSet(cache) THEN 1 ELSE 0)

(* Every sqlite3 connection a package constructor opened is owned by a    *)
(* package still alive, so the connections in use stay bounded by the     *)
(* cache size however many queries are evicted, rebuilt or fail to parse. *)
(* Concerns sqlite3_open in the constructor and the destruction of        *)
(* evicted packages.                                                      *)
HandlesHeldByLivePackages == handles <= LivePackages

(* Every execution time written to TestQueryData is a duration, never     *)
(* negative.                                                               *)
ExecutionTimeNonNegative ==
    \A i \in DOMAIN db : \A k \in DOMAIN db[i].runtime : db[i].runtime[k] >= 0

(* A SELECT DISTINCT query never prints the same result tuple twice       *)
(* (spec 8.7).                                                             *)
DistinctWithoutDuplicates ==
    line <= Len(csv) /\ csv[line] \in DistinctQueries => IsInjective(out)

=============================================================================
