---------------------------- MODULE SparqlEndpoint ----------------------------
(***************************************************************************)
(* SPARQLEndpoint::handle_query                                            *)
(* (src/libs/endpoint/src/dice/endpoint/SparqlEndpoint.cpp) run by         *)
(* several executor threads for the same query string, and the lazily     *)
(* computed join / non-join variable lists of the SPARQLQuery they share  *)
(* (src/libs/sparql2tensor/src/dice/sparql2tensor/SPARQLQuery.hpp).       *)
(*                                                                         *)
(* A request is parsed through the query cache, its features are         *)
(* extracted (which fills the lazy lists on first use), sent to the       *)
(* planner service, whose answer is parsed as the query plan; then the    *)
(* query is evaluated and answered, and the runtime sent to the service.  *)
(*                                                                         *)
(* The memo of SPARQLQuery is unsynchronised: each read or write of its   *)
(* mutable members is a step of its own.                                  *)
(***************************************************************************)
EXTENDS Naturals, Sequences, SequencesExt

CONSTANTS
    Threads,      \* executor threads running handle_query
    Vars,         \* the variables of the query (var_to_id_), model values
    Occ,          \* Occ[v]: occurrences of v in the triple patterns
    MaxRequests,  \* requests each thread handles
    PlannerReplies \* what the planner service may answer: "plan" or "" (down)

VARIABLES
    \* the mutable members of the shared SPARQLQuery
    reverse_map_built, id_to_var, variables_computed,
    join_variable_names, non_join_variable_names,
    \* per thread
    pc,           \* pc[t]: the step thread t is at
    todo,         \* todo[t]: variables the current loop has still to visit
    features,     \* features[t]: [join, non_join] copied into QueryFeatures
    served,       \* served[t]: requests thread t has finished
    outcome,      \* outcome[t]: how its last request ended
    \* the query and what leaves the process
    ask,          \* ask_ of the shared SPARQLQuery: an ASK or a SELECT query
    planner,      \* the posts the planner service received, in order
    responses     \* the requests answered with 200 OK

vars == <<reverse_map_built, id_to_var, variables_computed, join_variable_names,
          non_join_variable_names, pc, todo, features, served, outcome,
          ask, planner, responses>>

JoinVars    == {v \in Vars : Occ[v] > 1}
NonJoinVars == {v \in Vars : Occ[v] <= 1}

Outcomes == {"none", "ok", "out_of_range", "plan_parse_error", "timeout"}

NoFeatures == [join |-> <<>>, non_join |-> <<>>]

\* The request thread t is handling: its served count plus one.
ReqId(t) == <<t, served[t] + 1>>

\* A JSON body POSTed to the planner: "features" or "runtime".
Post(kind, t) == [kind |-> kind, req |-> ReqId(t)]

\* Steps of a thread that are inside compute_variable_types.
MemoSteps == {"cvt_check", "brm_check", "brm_clear", "brm_fill", "classify"}

\* The getter that called compute_variable_types, and the step after it.
Caller(t) == IF pc[t][2] = "join" THEN "copy_join" ELSE "copy_non_join"
Goto(t, step, getter) == pc' = [pc EXCEPT ![t] = <<step, getter>>]

(***************************************************************************)
(* handle_query, lines 311-316: the query is taken from the query cache   *)
(* (the same SPARQLQuery for every thread) and extract_query_features     *)
(* begins with get_join_variable_names (lines 66, 91-94).                 *)
(***************************************************************************)
StartRequest(t) ==
    /\ pc[t] = <<"idle", "-">>
    /\ served[t] < MaxRequests
    /\ Goto(t, "cvt_check", "join")
    /\ features' = [features EXCEPT ![t] = NoFeatures]
    /\ UNCHANGED <<ask, planner, responses, reverse_map_built, id_to_var, variables_computed,
                   join_variable_names, non_join_variable_names, todo, served, outcome>>

(* compute_variable_types, line 63: return at once once computed.         *)
CvtCheck(t) ==
    /\ pc[t][1] = "cvt_check"
    /\ IF variables_computed THEN Goto(t, Caller(t), "-") ELSE Goto(t, "brm_check", pc[t][2])
    /\ UNCHANGED <<ask, planner, responses, reverse_map_built, id_to_var, variables_computed, join_variable_names,
                   non_join_variable_names, todo, features, served, outcome>>

(* build_reverse_map, line 49; when already built, lines 67-77 count the  *)
(* occurrences into a local map whose keys are all the variables.         *)
BrmCheck(t) ==
    /\ pc[t][1] = "brm_check"
    /\ IF reverse_map_built THEN Goto(t, "classify", pc[t][2]) ELSE Goto(t, "brm_clear", pc[t][2])
    /\ todo' = [todo EXCEPT ![t] = Vars]
    /\ UNCHANGED <<ask, planner, responses, reverse_map_built, id_to_var, variables_computed, join_variable_names,
                   non_join_variable_names, features, served, outcome>>

(* build_reverse_map, line 50: id_to_var_.clear().                        *)
BrmClear(t) ==
    /\ pc[t][1] = "brm_clear"
    /\ id_to_var' = {}
    /\ Goto(t, "brm_fill", pc[t][2])
    /\ UNCHANGED <<ask, planner, responses, reverse_map_built, variables_computed, join_variable_names,
                   non_join_variable_names, todo, features, served, outcome>>

(* build_reverse_map, lines 51-54: one entry per step, in the map's       *)
(* iteration order; then the flag, and the counting of lines 67-77.       *)
BrmFill(t) ==
    /\ pc[t][1] = "brm_fill"
    /\ IF todo[t] # {}
       THEN \E v \in todo[t] :
               /\ id_to_var' = id_to_var \cup {v}
               /\ todo' = [todo EXCEPT ![t] = @ \ {v}]
               /\ UNCHANGED <<reverse_map_built, pc>>
       ELSE /\ reverse_map_built' = TRUE
            /\ todo' = [todo EXCEPT ![t] = Vars]
            /\ Goto(t, "classify", pc[t][2])
            /\ UNCHANGED id_to_var
    /\ UNCHANGED <<ask, planner, responses, variables_computed, join_variable_names, non_join_variable_names,
                   features, served, outcome>>

\* A plausible slip: every variable that occurs is taken for a join variable.
IsJoinCountAny(c) == c >= 1

(* Line 81: a variable occurring more than once is a join variable.       *)
IsJoinCount(c) == c > 1

(***************************************************************************)
(* compute_variable_types, lines 80-88: each variable is looked up in     *)
(* id_to_var_ with at(), which throws std::out_of_range for a missing     *)
(* key, and appended to one of the two lists; then the flag is set.       *)
(* The exception leaves handle_query: the request ends.                   *)
(***************************************************************************)
Classify(t) ==
    /\ pc[t][1] = "classify"
    /\ IF todo[t] # {}
       THEN /\ UNCHANGED variables_computed
            /\ \E v \in todo[t] :
               IF v \notin id_to_var
               THEN /\ outcome' = [outcome EXCEPT ![t] = "out_of_range"]
                    /\ served' = [served EXCEPT ![t] = @ + 1]
                    /\ Goto(t, "idle", "-")
                    /\ UNCHANGED <<todo, join_variable_names, non_join_variable_names>>
               ELSE /\ todo' = [todo EXCEPT ![t] = @ \ {v}]
                    /\ IF IsJoinCount(Occ[v])
                       THEN /\ join_variable_names' = Append(join_variable_names, v)
                            /\ UNCHANGED non_join_variable_names
                       ELSE /\ non_join_variable_names' = Append(non_join_variable_names, v)
                            /\ UNCHANGED join_variable_names
                    /\ UNCHANGED <<pc, served, outcome>>
       ELSE /\ variables_computed' = TRUE
            /\ Goto(t, Caller(t), "-")
            /\ UNCHANGED <<todo, join_variable_names, non_join_variable_names, served, outcome>>
    /\ UNCHANGED <<ask, planner, responses, reverse_map_built, id_to_var, features>>

(* Lines 66-67: the returned vectors are copied into the features; the   *)
(* second getter runs compute_variable_types again.                       *)
CopyJoin(t) ==
    /\ pc[t][1] = "copy_join"
    /\ features' = [features EXCEPT ![t].join = join_variable_names]
    /\ Goto(t, "cvt_check", "non_join")
    /\ UNCHANGED <<ask, planner, responses, reverse_map_built, id_to_var, variables_computed, join_variable_names,
                   non_join_variable_names, todo, served, outcome>>

CopyNonJoin(t) ==
    /\ pc[t][1] = "copy_non_join"
    /\ features' = [features EXCEPT ![t].non_join = non_join_variable_names]
    /\ Goto(t, "api", "-")
    /\ UNCHANGED <<ask, planner, responses, reverse_map_built, id_to_var, variables_computed, join_variable_names,
                   non_join_variable_names, todo, served, outcome>>

(***************************************************************************)
(* Lines 320-322 with send_query_features_to_api (216-263) and            *)
(* parse_query_plan (302-305): when the service cannot be reached the     *)
(* response is the empty string, and nlohmann::json::parse throws out of  *)
(* handle_query.                                                           *)
(***************************************************************************)
(* parse_query_plan (lines 302-305): only a JSON answer of the service    *)
(* parses; the empty response of a failed request throws.                 *)
PlanParses(reply) == reply = "plan"

ParsePlan(t) ==
    /\ pc[t][1] = "api"
    /\ \E reply \in PlannerReplies :
          IF PlanParses(reply)
          THEN /\ planner' = Append(planner, Post("features", t))
               /\ Goto(t, "eval", "-")
               /\ UNCHANGED <<served, outcome>>
          ELSE /\ outcome' = [outcome EXCEPT ![t] = "plan_parse_error"]
               /\ served' = [served EXCEPT ![t] = @ + 1]
               /\ Goto(t, "idle", "-")
               /\ UNCHANGED planner
    /\ UNCHANGED <<reverse_map_built, id_to_var, variables_computed, join_variable_names,
                   non_join_variable_names, todo, features, ask, responses>>

\* The request ends with the exception check_timeout or the evaluator threw.
TimedOut(t) ==
    /\ outcome' = [outcome EXCEPT ![t] = "timeout"]
    /\ served' = [served EXCEPT ![t] = @ + 1]
    /\ Goto(t, "idle", "-")
    /\ UNCHANGED <<planner, responses>>

\* The response is sent; the runtime post follows.
Answered(t) ==
    /\ responses' = responses \cup {ReqId(t)}
    /\ Goto(t, "runtime", "-")
    /\ UNCHANGED <<planner, served, outcome>>

(***************************************************************************)
(* Lines 326-334: an ASK query is evaluated by eval_ask and answered at   *)
(* once.  The evaluator is not under src/; it may throw on the deadline.  *)
(***************************************************************************)
EvalAsk(t) ==
    /\ pc[t][1] = "eval"
    /\ ask
    /\ TimedOut(t) \/ Answered(t)
    /\ UNCHANGED <<reverse_map_built, id_to_var, variables_computed, join_variable_names,
                   non_join_variable_names, todo, features, ask>>

\* A plausible slip: the runtime is posted before the deadline is checked.
EvalSelectPostFirst(t) ==
    /\ pc[t][1] = "eval"
    /\ ~ask
    /\ \E deadlinePassed \in BOOLEAN :
          IF deadlinePassed
          THEN /\ outcome' = [outcome EXCEPT ![t] = "timeout"]
               /\ served' = [served EXCEPT ![t] = @ + 1]
               /\ planner' = Append(planner, Post("runtime", t))
               /\ Goto(t, "idle", "-")
               /\ UNCHANGED responses
          ELSE Answered(t)
    /\ UNCHANGED <<reverse_map_built, id_to_var, variables_computed, join_variable_names,
                   non_join_variable_names, todo, features, ask>>

(***************************************************************************)
(* Lines 335-354: a SELECT query is evaluated with the plan and the whole *)
(* result serialised into the SAX writer; only then check_timeout throws  *)
(* if the deadline has passed (the evaluator may also throw earlier), and *)
(* no response and no runtime post follow.                               *)
(***************************************************************************)
EvalSelect(t) ==
    /\ pc[t][1] = "eval"
    /\ ~ask
    /\ TimedOut(t) \/ Answered(t)
    /\ UNCHANGED <<reverse_map_built, id_to_var, variables_computed, join_variable_names,
                   non_join_variable_names, todo, features, ask>>

(***************************************************************************)
(* Lines 356-360 with send_runtime_to_api (266-300): the runtime is       *)
(* POSTed without any id of the request; a failed post is only logged.    *)
(***************************************************************************)
PostRuntime(t) ==
    /\ pc[t][1] = "runtime"
    /\ \E reply \in PlannerReplies :
          planner' = IF PlanParses(reply) THEN Append(planner, Post("runtime", t))
                     ELSE planner
    /\ outcome' = [outcome EXCEPT ![t] = "ok"]
    /\ served' = [served EXCEPT ![t] = @ + 1]
    /\ Goto(t, "idle", "-")
    /\ UNCHANGED <<reverse_map_built, id_to_var, variables_computed, join_variable_names,
                   non_join_variable_names, todo, features, ask, responses>>

(* A fresh SPARQLQuery: every lazy member empty, no flag set.             *)
Init ==
    /\ reverse_map_built = FALSE
    /\ id_to_var = {}
    /\ variables_computed = FALSE
    /\ join_variable_names = <<>>
    /\ non_join_variable_names = <<>>
    /\ pc = [t \in Threads |-> <<"idle", "-">>]
    /\ todo = [t \in Threads |-> {}]
    /\ features = [t \in Threads |-> NoFeatures]
    /\ served = [t \in Threads |-> 0]
    /\ outcome = [t \in Threads |-> "none"]
    /\ ask \in BOOLEAN
    /\ planner = <<>>
    /\ responses = {}

Thread(t) ==
    \/ StartRequest(t) \/ CvtCheck(t) \/ BrmCheck(t) \/ BrmClear(t) \/ BrmFill(t)
    \/ Classify(t) \/ CopyJoin(t) \/ CopyNonJoin(t) \/ ParsePlan(t) \/ EvalAsk(t)
    \/ EvalSelect(t) \/ PostRuntime(t)

Next == \E t \in Threads : Thread(t)

\* A task on the executor runs to its end once started.
Spec == Init /\ [][Next]_vars /\ \A t \in Threads : WF_vars(Thread(t))

-----------------------------------------------------------------------------
\* A list names each variable of a set exactly once.
ListsExactly(s, S) == IsInjective(s) /\ ToSet(s) = S

(* Every request whose features are extracted carries the join variables  *)
(* and the non-join variables of the query, each exactly once, and no     *)
(* request dies in compute_variable_types: the lazy lists of the shared   *)
(* SPARQLQuery are filled once, whoever asks first and however many       *)
(* requests follow.                                                        *)
FeatureExtractionSound ==
    \A t \in Threads :
        /\ outcome[t] # "out_of_range"
        /\ pc[t][1] \in {"api", "eval", "runtime"} =>
              /\ ListsExactly(features[t].join, JoinVars)
              /\ ListsExactly(features[t].non_join, NonJoinVars)

(* The planner receives a runtime only for a request that was answered,   *)
(* and only after that request's features: a request that times out in    *)
(* check_timeout, after its result was serialised, posts features and no  *)
(* runtime.  Concerns the order of check_timeout, the response and        *)
(* send_runtime_to_api in handle_query.                                   *)
RuntimeOnlyForAnswered ==
    \A i \in DOMAIN planner :
        planner[i].kind = "runtime" =>
            /\ planner[i].req \in responses
            /\ \E j \in 1..(i - 1) : planner[j] = [planner[i] EXCEPT !.kind = "features"]
=============================================================================
