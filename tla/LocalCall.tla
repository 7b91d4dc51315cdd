----------------------------- MODULE LocalCall -----------------------------
(***************************************************************************)
(* One tool call after another on the local backend (backends/local.py),   *)
(* which hands each operation to the in-process core.  The core is         *)
(* external.  It answers                                                   *)
(*   rows      what its facade promises     norows   an empty list         *)
(*   missing   no such item: None, False or a ValueError                   *)
(*   refused   the item is there, the operation is not carried out         *)
(* or it is absent, out of order, or raises a ValueError of another kind.  *)
(* Values and replies are those of RemoteMethods and ToolReplies; the      *)
(* values "not found" and "raised import" occur only here.                 *)
(***************************************************************************)
EXTENDS ToolReplies

CONSTANTS
  LocalTools,      \* the tools a client calls
  CoreOccurring    \* the faults that may occur

CoreFaults == {"down", "crashed", "nocore", "invalid"}
CoreAnswers == {"rows", "norows", "missing", "refused"}

\* What each local tool asks of the backend or of the core beneath it, where
\* that differs from what it asks of the service.
LocalAsks == [
  memory_recall |-> <<"recall">>, code_search |-> <<"search">>,
  code_dead_code |-> <<"code_dead_code">>, code_dependencies |-> <<"code_dependencies">>,
  memory_resolve_aliases |-> <<"resolve_aliases">>,
  agent_set_recall_profile |-> <<"no_route">>, agent_get_recall_profile |-> <<"no_route">>,
  code_blame |-> <<"blame_code">>, code_read_transcript |-> <<"read_transcript_centered">>,
  peer_chat |-> <<"peer_chat">>, insight_personalize |-> <<"personalize">>,
  insight_feedback |-> <<"update_from_feedback">>,
  insight_health |-> <<"summary", "orphaned_notes", "find_old_notes">>,
  insight_maintenance_status |-> <<"orphaned_notes", "find_old_notes">>,
  evolution_synthesize_opinions |-> <<"run_evolver">>,
  evolution_synthesize_observations |-> <<"run_evolver">>,
  evolution_reinforce_opinions |-> <<"run_evolver">>,
  reasoning_challenge |-> <<"challenge">>,
  reasoning_resolve_conflict |-> <<"get", "auto_resolve">>,
  reasoning_proof_tree |-> <<"build_proof">>,
  reasoning_query |-> <<"route">>,
  reasoning_fuzzy_confidence |-> <<"decision_get", "calculate">>,
  memory_plan_get |-> <<"manager_get">>, memory_plan_update_task |-> <<"manager_write">>,
  memory_check_failure |-> <<"manager_list">>, pattern_get |-> <<"manager_get">>,
  memory_anchor_set |-> <<"manager_write">>, memory_anchor_clear |-> <<"manager_write">>,
  memory_anchor_graduate |-> <<"manager_graduate">>]

LocalRequests(t) == IF t \in DOMAIN LocalAsks THEN LocalAsks[t] ELSE Requests(t)

\* LOCAL_BROKEN_TOOLS: refused before they begin.
Broken ==
  {"memory_search_advanced", "memory_policy_bundle", "pattern_list", "pattern_query",
   "memory_plan_active", "memory_anchor_list", "memory_anchor_check_drift",
   "dev_load_context", "zettel_clusters", "zettel_backlinks", "zettel_connections",
   "zettel_discover", "memory_plan_create", "memory_log_failure"}

ASSUME LocalToolsAssumption == LocalTools \subseteq DOMAIN Asks \cup DOMAIN LocalAsks \cup Broken
ASSUME CoreFaultsAssumption == CoreOccurring \subseteq CoreFaults

LocalWrites ==
  {"add", "ingest", "update", "supersede", "delete", "clear_user_memories",
   "ingest_conversation_sync", "submit_feedback", "ingest_document", "ingest_structured",
   "ingest_code", "resolve_aliases", "run_evolution_cycle", "run_clustering", "run_evolver",
   "personalize", "update_from_feedback", "ground", "auto_resolve", "decision_create",
   "decision_supersede", "decision_retract", "decision_reinforce", "decision_contradict",
   "decision_create_pending", "decision_resolve_requirement", "decision_try_activate",
   "manager_write", "manager_graduate"}

\* The answers of the core, method by method.
AnswersOf(m) ==
  CASE m \in {"search", "search_by_metadata", "recall", "list_memories", "decision_list",
              "decision_search", "code_dead_code", "blame_code", "manager_list",
              "manager_graduate"} -> {"rows", "norows"}
    [] m \in {"get", "explain", "update", "delete", "decision_get", "decision_retract",
              "decision_supersede", "decision_reinforce", "decision_contradict",
              "decision_provenance", "code_dependencies", "build_proof", "manager_get"} ->
           {"rows", "missing"}
    [] m = "decision_find_conflicts" -> {"rows", "norows", "missing"}
    [] m = "supersede" -> {"rows", "missing", "refused"}
    [] m \in {"decision_resolve_requirement", "decision_try_activate", "ingest_code",
              "submit_feedback", "auto_resolve"} -> {"rows", "refused"}
    [] OTHER -> {"rows"}

-----------------------------------------------------------------------------
\* add() to delete().
Crud(m, o) ==
  CASE o = "missing" /\ m \in {"get", "explain"} -> "nothing"
    [] o = "missing" /\ m = "update" -> "not_found"
    [] o = "missing" /\ m = "delete" -> "false"
    [] m = "supersede" /\ o \in {"missing", "refused"} -> "raised"
    [] OTHER -> "value"

\* search() to recall(), list_memories(): lists, and a text.
Searching(m, o) == IF o = "norows" /\ m # "recall" THEN "empty" ELSE "value"

\* ingest_code(), code_dead_code(), code_dependencies().
Coding(o) ==
  CASE o \in {"missing", "refused"} -> "error" [] o = "norows" -> "empty" [] OTHER -> "value"

\* submit_feedback(): without a search before it is skipped; every exception is caught.
Feedback(o) ==
  CASE o \in CoreFaults -> "error" [] o = "refused" -> "skipped" [] OTHER -> "value"

\* Mutant of Deciding: a provenance without its decision is handed on.
MDecidingProvenance(m, o) ==
  CASE o = "missing" /\ m # "decision_provenance" -> "nothing"
    [] o = "norows" -> "empty"
    [] o = "invalid" -> "raised"
    [] OTHER -> "value"

\* decision_create() to decision_create_pending(): four catch every ValueError.
Deciding(m, o) ==
  CASE o = "missing" -> "nothing"
    [] o = "norows" -> "empty"
    [] o = "invalid" -> IF m \in {"decision_supersede", "decision_retract",
                                  "decision_reinforce", "decision_contradict"}
                        THEN "nothing" ELSE "raised"
    [] OTHER -> "value"

\* Mutant of Activating: the core's answer is not looked at.
MActivating(o) == "value"

\* decision_resolve_requirement(), decision_try_activate()
Activating(o) == IF o = "refused" THEN "false" ELSE "value"

\* Evolution, insight, graph and ingestion methods hand on what the core returns; a
\* conflict it leaves as it was it reports as not resolved.
HandsOn(o) == IF o = "refused" THEN "false" ELSE "value"

Decisions ==
  {"decision_create", "decision_get", "decision_list", "decision_search",
   "decision_supersede", "decision_retract", "decision_reinforce", "decision_contradict",
   "decision_provenance", "decision_find_conflicts", "decision_create_pending",
   "decision_resolve_requirement", "decision_try_activate"}

\* An exception of the core passes through; these import from it before they ask
\* for the memory, the others are told by _get_memory() that it is missing.
ImportsFirst ==
  {"add", "supersede", "search", "ingest", "recall", "code_dead_code", "peer_chat",
   "challenge", "route", "build_proof", "manager_write", "manager_get", "manager_list",
   "manager_graduate"} \cup Decisions

CoreRaises(m, o) ==
  CASE o = "down" -> "raised_timed_out"
    [] o = "nocore" /\ m \in ImportsFirst -> "raised_import"
    [] OTHER -> "raised"

LocalValue(m, o) ==
  IF m = "no_route" THEN "unsupported"
  ELSE IF m = "submit_feedback" THEN Feedback(o)
  ELSE IF m \in {"decision_resolve_requirement", "decision_try_activate"} /\ o \notin CoreFaults
       THEN Activating(o)
  ELSE IF m \in Decisions /\ o \notin CoreFaults \ {"invalid"} THEN Deciding(m, o)
  ELSE IF o \in CoreFaults THEN CoreRaises(m, o)
  ELSE
  CASE m \in {"manager_get", "build_proof"} -> IF o = "missing" THEN "nothing" ELSE "value"
    [] m \in {"add", "get", "explain", "update", "supersede", "delete"} -> Crud(m, o)
    [] m \in {"search", "search_by_metadata", "recall", "list_memories", "blame_code",
              "manager_list", "manager_graduate"} -> Searching(m, o)
    [] m \in {"ingest_code", "code_dead_code", "code_dependencies"} -> Coding(o)
    [] OTHER -> HandsOn(o)

\* What the tools say that only the local backend serves to the end, or that ask
\* a manager of the core over it, module by module.
Viewed(v) ==
  CASE v = "nothing" -> "absent" [] v = "empty" -> "empty" [] OTHER -> "shown"

EvolutionTools ==
  {"evolution_trigger", "evolution_synthesize_opinions", "evolution_synthesize_observations",
   "evolution_reinforce_opinions", "clustering_run"}
evolution_tools == "done"

InsightViews == {"insight_health", "insight_reflect", "insight_maintenance_status"}
insight_views(v) == Viewed(v)

InsightWrites == {"insight_personalize", "insight_feedback", "insight_ground"}
insight_writes(v) == Addressed(v)

ReasoningTools ==
  {"reasoning_challenge", "reasoning_resolve_conflict", "reasoning_query",
   "reasoning_proof_tree", "reasoning_fuzzy_confidence"}
reasoning_tools(t, v) ==
  IF t = "reasoning_resolve_conflict" /\ v # "false" THEN Addressed(v) ELSE Viewed(v)

PlanTools == {"memory_plan_get", "memory_plan_update_task", "memory_check_failure"}
memory_check_failure(v) == Viewed(v)
plan_tools(t, v) ==
  IF t = "memory_plan_update_task" THEN "done"
  ELSE IF t = "memory_check_failure" THEN memory_check_failure(v) ELSE Viewed(v)

AnchorTools == {"memory_anchor_set", "memory_anchor_clear", "memory_anchor_graduate"}

\* Mutant of anchor_tools: graduating nothing is acknowledged like graduating some.
Manchor_tools(t, v) == "done"

anchor_tools(t, v) ==
  IF t = "memory_anchor_graduate" /\ v = "empty" THEN "empty" ELSE "done"

PatternTools == {"pattern_get"}
pattern_tools(v) == Viewed(v)

ProvenanceTools == {"code_blame", "code_read_transcript", "peer_chat"}
code_provenance(v) == Viewed(v)

AliasTools == {"memory_resolve_aliases", "memory_ingest_structured"}
alias_and_structured == "done"

LocalServed ==
  EvolutionTools \cup InsightViews \cup InsightWrites \cup ReasoningTools \cup PlanTools
    \cup AnchorTools \cup PatternTools \cup ProvenanceTools \cup AliasTools

LocalTold(t, v) ==
  CASE t \in EvolutionTools -> evolution_tools
    [] t \in InsightViews -> insight_views(v)
    [] t \in InsightWrites -> insight_writes(v)
    [] t \in ReasoningTools -> reasoning_tools(t, v)
    [] t \in PlanTools -> plan_tools(t, v)
    [] t \in AnchorTools -> anchor_tools(t, v)
    [] t \in PatternTools -> pattern_tools(v)
    [] t \in ProvenanceTools -> code_provenance(v)
    [] t \in AliasTools -> alias_and_structured

LocalSaid(t, vs) ==
  LET v == vs[Len(vs)] IN
  IF v = "raised_import" THEN IF t = "memory_search" THEN "failed" ELSE "unsupported"
  ELSE IF v \in Raised   \* code_read_transcript catches OSError
       THEN IF t = "code_read_transcript" THEN "failed" ELSE Excepted(t, v)
  ELSE IF v = "not_found" THEN "absent"
  ELSE IF t \in LocalServed THEN LocalTold(t, v)
  ELSE Said(t, vs)

-----------------------------------------------------------------------------
VARIABLES
  ltool, lat, lvals,
  lout,      \* the core's last answer or fault
  ldone,     \* the core carried out a write of this call
  lreply

lvars == <<ltool, lat, lvals, lout, ldone, lreply>>

LocalMethod == LocalRequests(ltool)[Len(lvals) + 1]
MayDo(m, o) ==
  IF m \notin LocalWrites \/ o \in {"norows", "missing", "refused", "nocore", "invalid"} THEN {ldone}
  ELSE IF o \in {"down", "crashed"} THEN {ldone, TRUE}
  ELSE {TRUE}

LocalInit ==
  /\ ltool = "none" /\ lat = "idle" /\ lvals = <<>>
  /\ lout = "none" /\ ldone = FALSE /\ lreply = "none"

\* BackendCapabilityMiddleware refuses a broken tool, any other begins.
LocalBegin(t) ==
  /\ lat = "idle" /\ ltool' = t
  /\ IF t \in Broken THEN lat' = "told" /\ lreply' = "failed"
     ELSE lat' = "ask" /\ UNCHANGED lreply
  /\ UNCHANGED <<lvals, lout, ldone>>

\* A method of the backend runs to its end in the process.
Perform(o) ==
  /\ lat = "ask"
  /\ o \in IF LocalMethod = "no_route" THEN {"rows"} ELSE AnswersOf(LocalMethod) \cup CoreOccurring
  /\ lout' = o
  /\ ldone' \in MayDo(LocalMethod, o)
  /\ lvals' = Append(lvals, LocalValue(LocalMethod, o))
  /\ lat' = IF lvals'[Len(lvals')] \in Raised \cup {"raised_import", "nothing"}
               \/ Len(lvals') = Len(LocalRequests(ltool)) THEN "answered" ELSE "ask"
  /\ UNCHANGED <<ltool, lreply>>

Tell ==
  /\ lat = "answered" /\ lat' = "told"
  /\ lreply' = LocalSaid(ltool, lvals)
  /\ UNCHANGED <<ltool, lvals, lout, ldone>>

LocalEnd ==
  /\ lat = "told"
  /\ ltool' = "none" /\ lat' = "idle" /\ lvals' = <<>>
  /\ lout' = "none" /\ ldone' = FALSE /\ lreply' = "none"

LocalNext ==
  \/ \E t \in LocalTools : LocalBegin(t)
  \/ \E o \in CoreAnswers \cup CoreFaults : Perform(o)
  \/ Tell \/ LocalEnd

LocalSpec == LocalInit /\ [][LocalNext]_lvars

-----------------------------------------------------------------------------
\* local.py with its tools: a core that is down, missing or broken is never told
\* as an empty result, a missing item or a success, and what a write tool
\* acknowledges the core has done in this call.
LocalReplyIsTrue ==
  lat = "told" =>
    /\ lout \in CoreFaults => lreply \in {"failed", "unreachable", "unsupported", "unconfirmed"}
    /\ lreply = "done" => ldone

\* What the service answers where the core answers o.
AsRemote(m, o) ==
  CASE o = "missing" -> "404"
    [] o = "refused" -> CASE m = "ingest_code" -> "odd"
                          [] m \in Decisions -> "norows"
                          [] OTHER -> "refused"
    [] OTHER -> o

\* Tools that both backends serve with the same request, and do not report in
\* wording of the backend's own.
Twins ==
  {t \in DOMAIN Asks \ {"memory_update", "memory_recall", "memory_feedback"} :
     t \notin Broken \cup LocalServed /\ Len(LocalRequests(t)) = 1
     /\ LocalRequests(t) # <<"no_route">>}

\* tests/test_decision_tools_mode_parity.py: "rendered output is identical in both
\* modes", and "absence reads the same in both modes": the kind of the reply to a
\* success, to nothing found and to a missing item is that of the remote backend.
BothBackendsAgree ==
  lat = "told" /\ ltool \in Twins /\ lout \in CoreAnswers =>
    lreply = Said(ltool, <<Value(Asks[ltool], Request(Asks[ltool], AsRemote(Asks[ltool], lout)))>>)
=============================================================================
