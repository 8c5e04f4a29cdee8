---------------------------- MODULE JsonSerializer ----------------------------
(***************************************************************************)
(* tentris::http::streamJSON (src/src/lib/tentris/http/JsonSerializer.hpp): *)
(* the SPARQL-results/JSON writer of the HTTP front end.  It appends the    *)
(* head, then one chunk per copy of every Einsum entry, separated by       *)
(* commas, and the closing brackets.  It counts written bindings           *)
(* (vars.size() per row) and, once more than flush_result_count were       *)
(* written since the last flush, compares the clock with the deadline.     *)
(*                                                                         *)
(* The Einsum is not under src/: what it yields is a chosen sequence of    *)
(* entries [key, c].  Every term id of a key is looked up in the term      *)
(* index with at(); NullId is the unbound slot of a lonely projection      *)
(* variable (spec section 6), which the index does not hold.  Chunks are   *)
(* tokens; the JSON text of a binding is abstracted to its key.            *)
(***************************************************************************)
EXTENDS Naturals, Sequences, SequencesExt

CONSTANTS
    Ids,          \* term ids (model values), NullId among them when it may occur
    NullId,       \* the unbound slot
    NumVars,      \* vars.size()
    FlushCount,   \* flush_result_count (500 in the code)
    Deadline,     \* the timeout, on the clock
    MaxClock,     \* bound on the clock
    EntryChoices  \* what the Einsum may yield: sequences of [key, c]

VARIABLES
    entries,      \* the entries of the Einsum being serialised
    entry, copy,  \* position: entry, and copies of it already written
    result_count, firstResult,
    out,          \* the chunks appended to the stream
    status,       \* the returned Status, "none" while running
    pc,
    clock,        \* system_clock::now()
    late          \* rows appended while the deadline had passed

vars == <<entries, entry, copy, result_count, firstResult, out, status, pc, clock, late>>

HeadChunk  == [kind |-> "head"]
CommaChunk == [kind |-> "comma"]
CloseChunk == [kind |-> "close"]
RowOf(k) == [kind |-> "row", key |-> k]

\* The range-for over results (line 48) is exhausted.
Exhausted == entry > Len(entries)

(* Lines 35-45: the head with the variable names.                          *)
WriteHead ==
    /\ pc = "head"
    /\ out' = <<HeadChunk>>
    /\ pc' = "render"
    /\ UNCHANGED <<entries, entry, copy, result_count, firstResult, status, clock, late>>

(* Lines 49-88: the JSON text of an entry, built once for all its copies.  *)
(* term index inv().at() throws std::out_of_range for an id it does not    *)
(* hold; the exception leaves streamJSON with the stream neither closed    *)
(* nor done.                                                               *)
RenderEntry ==
    /\ pc = "render"
    /\ entry \in DOMAIN entries
    /\ pc' = IF \E i \in 1..NumVars : entries[entry].key[i] = NullId THEN "thrown" ELSE "copy"
    /\ UNCHANGED <<entries, entry, copy, result_count, firstResult, out, status, clock, late>>

Emit(o, isFirst, row) == IF isFirst THEN Append(o, row) ELSE o \o <<CommaChunk, row>>

\* A plausible slip: rows are counted instead of bindings.
CountRows(rc) == rc + 1

(* Line 90: result_count grows by the bindings of a row.                   *)
CountBindings(rc) == rc + NumVars

(* Lines 89-108: one copy of the current entry.  After the first result,   *)
(* once more than FlushCount bindings were counted the deadline is        *)
(* probed: past it, the stream is closed and SERIALIZATION_TIMEOUT         *)
(* returned; otherwise the count restarts at the flush.                    *)
WriteCopy ==
    /\ pc = "copy"
    /\ LET e       == entries[entry]
           rc      == CountBindings(result_count)
           probe   == ~firstResult /\ rc > FlushCount
           expired == probe /\ clock > Deadline
           o       == Emit(out, firstResult, RowOf(e.key))
       IN
       /\ firstResult' = FALSE
       /\ late' = IF clock > Deadline THEN late + 1 ELSE late
       /\ result_count' = IF probe THEN 0 ELSE rc
       /\ out' = IF expired THEN Append(o, CloseChunk) ELSE o
       /\ status' = IF expired THEN "SERIALIZATION_TIMEOUT" ELSE status
       /\ IF copy + 1 < e.c
          THEN copy' = copy + 1 /\ UNCHANGED entry
          ELSE copy' = 0 /\ entry' = entry + 1
       /\ pc' = CASE expired         -> "done"
                  [] copy + 1 < e.c  -> "copy"
                  [] OTHER           -> "render"
    /\ UNCHANGED <<entries, clock>>

(* Lines 111-113: after the last entry the stream is closed; Status::OK.   *)
Finish ==
    /\ pc = "render"
    /\ Exhausted
    /\ out' = Append(out, CloseChunk)
    /\ status' = "OK"
    /\ pc' = "done"
    /\ UNCHANGED <<entries, entry, copy, result_count, firstResult, clock, late>>

\* Time passes while the stream is written.
Tick ==
    /\ pc \notin {"done", "thrown"}
    /\ clock < MaxClock
    /\ clock' = clock + 1
    /\ UNCHANGED <<entries, entry, copy, result_count, firstResult, out, status, pc, late>>

(* Lines 32-36: the locals of streamJSON.                                  *)
Init ==
    /\ entries \in EntryChoices
    /\ entry = 1
    /\ copy = 0
    /\ result_count = 0
    /\ firstResult = TRUE
    /\ out = <<>>
    /\ status = "none"
    /\ pc = "head"
    /\ clock = 0
    /\ late = 0

Serialize == WriteHead \/ RenderEntry \/ WriteCopy \/ Finish

Next == Serialize \/ Tick

\* The writer runs on the request's thread and never waits on anything.
Spec == Init /\ [][Next]_vars /\ WF_vars(Serialize)
-----------------------------------------------------------------------------
\* The rows a stream carries, and the text they must be framed in.
RowsOf(o) == SelectSeq(o, LAMBDA t : t.kind = "row")
Opened(rs) ==
    <<HeadChunk>> \o (IF rs = <<>> THEN <<>>
                 ELSE <<rs[1]>> \o FlattenSeq([i \in 1..Len(rs) - 1 |-> <<CommaChunk, rs[i + 1]>>]))
Framed(rs) == Opened(rs) \o <<CloseChunk>>

\* Every copy of every entry, in order.
Expanded(es) == FlattenSeq([i \in DOMAIN es |-> [j \in 1..es[i].c |-> RowOf(es[i].key)]])

ChunkRows == FlushCount \div (IF NumVars = 0 THEN 1 ELSE NumVars) + 1

(* Spec section 4.G: the serializer probes the deadline per flush chunk:   *)
(* once the deadline has passed, at most one chunk of rows is appended     *)
(* before the stream ends with SERIALIZATION_TIMEOUT.                     *)
LateRowsBounded == late <= ChunkRows

=============================================================================
