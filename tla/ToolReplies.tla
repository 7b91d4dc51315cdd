---------------------------- MODULE ToolReplies ----------------------------
(***************************************************************************)
(* What the tools of tools/*.py say, on the remote backend, of the values  *)
(* its methods hand them: the requests each tool makes, in order, and the  *)
(* kind of its reply                                                       *)
(*   done         a write is acknowledged    shown    there is something   *)
(*   held         it is held for review      empty    there is nothing     *)
(*   absent       no such item               not_yet  a condition fails    *)
(*   failed, unreachable                     the call failed               *)
(*   unconfirmed  it may have happened       unsupported                   *)
(* Early returns that send nothing are left out (the form of an argument,  *)
(* code that does not parse); rows a tool filters away are no rows.        *)
(***************************************************************************)
EXTENDS RemoteMethods

Failed(v, otherwise) == IF v = "error" THEN "failed" ELSE otherwise
Held(v) == IF v = "held" THEN "held" ELSE "done"
Found(v) == IF v = "nothing" THEN "absent" ELSE "shown"
Listed(v) == IF v = "empty" THEN "empty" ELSE "shown"
Addressed(v) == IF v = "nothing" THEN "absent" ELSE "done"

\* Mutant of memory_ingest: every receipt is one of a stored memory.
Mmemory_ingest(v) == Failed(v, "done")

\* memory_tools.py
memory_ingest(v) == Failed(v, Held(v))
memory_search(v) == Listed(v)
memory_recall(v) == Listed(v)
get_working_context(v) == Listed(v)
read_around_tool(v) == Failed(v, "shown")
memory_get(v) == Found(v)
memory_explain(v) == Found(v)
memory_ask(v) == "shown"
memory_recall_pack(v) == Failed(v, "shown")
memory_policy_bundle(v) == Failed(v, "shown")
memory_add(v) == Held(v)
memory_update(v) == Failed(v, "done")
memory_supersede(v) == "done"
memory_delete(v) == IF v = "false" THEN "failed" ELSE "done"
memory_clear(v) == Failed(v, "done")
memory_list(v) == Listed(v)
memory_stats(v) == IF v = "odd" THEN "failed" ELSE "shown"
memory_distill(v) == Held(v)
\* An error has no counts: "0 chunks ingested, 0 failed."
memory_ingest_conversation(v) == Held(v)
memory_search_by_metadata(v) == Listed(v)
memory_feedback(v) == Failed(v, "done")

\* decision_tools.py
decision_create_tool(v) == "done"
decision_get_tool(v) == Found(v)
decision_list_tool(v) == Listed(v)
decision_search_tool(v) == Listed(v)
decision_supersede_tool(v) == Addressed(v)
decision_retract_tool(v) == Addressed(v)
decision_reinforce_tool(v) == Addressed(v)
decision_contradict_tool(v) == Addressed(v)
decision_provenance_tool(v) == IF v = "empty" THEN "absent" ELSE Found(v)
decision_find_conflicts_tool(v) == IF v = "empty" THEN "empty" ELSE Found(v)
decision_create_pending_tool(v) == "done"
\* Mutant of decision_try_activate_tool: the answer is not looked at.
Mdecision_try_activate_tool(v) == "done"

decision_resolve_requirement_tool(v) == IF v = "false" THEN "absent" ELSE "done"
decision_try_activate_tool(v) == IF v = "false" THEN "not_yet" ELSE "done"

\* dev_tools.py.  The two that ingest read "item_id" of whatever came back.
dev_record_decision(v) == Held(v)
dev_record_pattern(v) == Held(v)
dev_save_session(v) == Held(v)
dev_log_friction(v) == Held(v)
dev_query_decisions(v) == Listed(v)
\* Sessions, then decisions.
dev_load_context(vs) == IF \A i \in DOMAIN vs : vs[i] = "empty" THEN "empty" ELSE "shown"

\* code_tools.py
code_index(v) == IF v = "error" THEN "unconfirmed" ELSE "done"
code_search(v) == Failed(v, IF v = "value" THEN "shown" ELSE "empty")
code_dead_code(v) ==
  Failed(v, CASE v = "nothing" -> "failed" [] v = "value" -> "shown" [] OTHER -> "empty")
code_dependencies(v) == IF v \in {"error", "nothing"} THEN "failed" ELSE "shown"

\* the other modules
memory_ingest_document(v) == IF v = "odd" THEN "failed" ELSE "done"
memory_resolve_aliases(v) == IF v \in {"error", "nothing"} THEN "failed" ELSE "done"
agent_set_recall_profile(v) == Failed(v, "done")
agent_get_recall_profile(v) == Failed(v, IF v = "value" THEN "shown" ELSE "empty")
reasoning_query_traces(v) == Listed(v)
evolution_status(v) == IF v = "value" THEN "shown" ELSE "empty"
\* The item is looked up before grounding, which the service does not have.
insight_ground(v) == Found(v)

-----------------------------------------------------------------------------
\* graceful(): an exception becomes a sentence, or stays the tool's error.
graceful(v) ==
  CASE v = "unsupported" -> "unsupported"
    [] v = "raised_timed_out" -> "unreachable"
    [] v = "raised_unknown" -> "unconfirmed"
    [] OTHER -> "failed"

\* memory_search is not wrapped; evolution_status swallows what its search raises.
Excepted(t, v) ==
  CASE t = "evolution_status" -> evolution_status(v)
    [] t = "memory_search" -> "failed"
    [] OTHER -> graceful(v)

\* graceful() passes on what is no connection error; a missing receipt field is a KeyError.
Raises(t, v) ==
  \/ v \in {"raised", "raised_unknown"}
  \/ t = "memory_ingest_document" /\ v = "odd"

-----------------------------------------------------------------------------
\* The method by which each tool makes its request.
Asks == [
  memory_ingest |-> "ingest", memory_search |-> "search", memory_recall |-> "recall",
  get_working_context |-> "search", read_around |-> "read_around",
  memory_get |-> "get", memory_explain |-> "explain", memory_ask |-> "ask",
  memory_recall_pack |-> "recall_pack", memory_policy_bundle |-> "policy_bundle",
  memory_add |-> "add", memory_update |-> "update", memory_supersede |-> "supersede",
  memory_delete |-> "delete", memory_clear |-> "clear_user_memories",
  memory_list |-> "list_memories", memory_stats |-> "stats", memory_distill |-> "add",
  memory_ingest_conversation |-> "ingest_conversation_sync",
  memory_search_by_metadata |-> "search_by_metadata",
  memory_feedback |-> "submit_feedback", decision_create |-> "decision_create",
  decision_get |-> "decision_get", decision_list |-> "decision_list",
  decision_search |-> "decision_search", decision_supersede |-> "decision_supersede",
  decision_retract |-> "decision_retract",
  decision_reinforce |-> "decision_reinforce",
  decision_contradict |-> "decision_contradict",
  decision_provenance |-> "decision_provenance",
  decision_find_conflicts |-> "decision_find_conflicts",
  decision_create_pending |-> "decision_create_pending",
  decision_resolve_requirement |-> "decision_resolve_requirement",
  decision_try_activate |-> "decision_try_activate", dev_record_decision |-> "add",
  dev_record_pattern |-> "add", dev_save_session |-> "ingest",
  dev_log_friction |-> "ingest", dev_query_decisions |-> "search",
  dev_load_context |-> "search", code_index |-> "ingest_code",
  code_search |-> "request_rows", code_dead_code |-> "request_rows",
  code_dependencies |-> "request_read", memory_ingest_document |-> "ingest_document",
  memory_resolve_aliases |-> "request_write",
  agent_set_recall_profile |-> "request_write",
  agent_get_recall_profile |-> "request_rows", reasoning_query_traces |-> "search",
  evolution_status |-> "search", evolution_trigger |-> "run_evolution_cycle",
  clustering_run |-> "run_clustering", insight_health |-> "summary",
  insight_reflect |-> "reflect", insight_maintenance_status |-> "orphaned_notes",
  memory_ingest_structured |-> "ingest_structured", insight_ground |-> "get"]

\* The two tools that make a second one.
Then == [dev_load_context |-> "search", insight_ground |-> "ground"]

Requests(t) == IF t \in DOMAIN Then THEN <<Asks[t], Then[t]>> ELSE <<Asks[t]>>

LocalOnly == {"run_evolution_cycle", "run_clustering", "summary", "reflect",
              "orphaned_notes", "ingest_structured", "ground"}

Value(method, r) ==
  CASE method = "add" -> add(r)
    [] method = "get" -> get(r)
    [] method = "explain" -> explain(r)
    [] method = "update" -> update(r)
    [] method = "supersede" -> supersede(r)
    [] method = "delete" -> delete(r)
    [] method = "ask" -> ask(r)
    [] method = "recall_pack" -> recall_pack(r)
    [] method = "policy_bundle" -> policy_bundle(r)
    [] method = "read_around" -> read_around(r)
    [] method = "submit_feedback" -> submit_feedback(r)
    [] method = "clear_user_memories" -> clear_user_memories(r)
    [] method = "search" -> search(r)
    [] method = "search_by_metadata" -> search_by_metadata(r)
    [] method = "recall" -> recall(r)
    [] method = "ingest" -> ingest(r)
    [] method = "ingest_conversation_sync" -> ingest_conversation_sync(r)
    [] method = "ingest_document" -> ingest_document(r)
    [] method = "stats" -> stats(r)
    [] method = "list_memories" -> list_memories(r)
    [] method = "ingest_code" -> ingest_code(r)
    [] method = "decision_create" -> decision_create(r)
    [] method = "decision_get" -> decision_get(r)
    [] method = "decision_list" -> decision_list(r)
    [] method = "decision_search" -> decision_search(r)
    [] method = "decision_supersede" -> decision_supersede(r)
    [] method = "decision_retract" -> decision_retract(r)
    [] method = "decision_reinforce" -> decision_reinforce(r)
    [] method = "decision_contradict" -> decision_contradict(r)
    [] method = "decision_provenance" -> decision_provenance(r)
    [] method = "decision_find_conflicts" -> decision_find_conflicts(r)
    [] method = "decision_create_pending" -> decision_create_pending(r)
    [] method = "decision_resolve_requirement" -> decision_resolve_requirement(r)
    [] method = "decision_try_activate" -> decision_try_activate(r)
    [] method \in {"request_rows", "request_read", "request_write"} -> request(r)
    [] method \in LocalOnly -> local_only(r)

\* The reply to the values of all requests of a call; only the last may be an exception.
Said(t, vs) ==
  LET v == vs[Len(vs)] IN
  IF v \in Raised THEN Excepted(t, v) ELSE
  CASE t = "memory_ingest" -> memory_ingest(v)
    [] t = "memory_search" -> memory_search(v)
    [] t = "memory_recall" -> memory_recall(v)
    [] t = "get_working_context" -> get_working_context(v)
    [] t = "read_around" -> read_around_tool(v)
    [] t = "memory_get" -> memory_get(v)
    [] t = "memory_explain" -> memory_explain(v)
    [] t = "memory_ask" -> memory_ask(v)
    [] t = "memory_recall_pack" -> memory_recall_pack(v)
    [] t = "memory_policy_bundle" -> memory_policy_bundle(v)
    [] t = "memory_add" -> memory_add(v)
    [] t = "memory_update" -> memory_update(v)
    [] t = "memory_supersede" -> memory_supersede(v)
    [] t = "memory_delete" -> memory_delete(v)
    [] t = "memory_clear" -> memory_clear(v)
    [] t = "memory_list" -> memory_list(v)
    [] t = "memory_stats" -> memory_stats(v)
    [] t = "memory_distill" -> memory_distill(v)
    [] t = "memory_ingest_conversation" -> memory_ingest_conversation(v)
    [] t = "memory_search_by_metadata" -> memory_search_by_metadata(v)
    [] t = "memory_feedback" -> memory_feedback(v)
    [] t = "decision_create" -> decision_create_tool(v)
    [] t = "decision_get" -> decision_get_tool(v)
    [] t = "decision_list" -> decision_list_tool(v)
    [] t = "decision_search" -> decision_search_tool(v)
    [] t = "decision_supersede" -> decision_supersede_tool(v)
    [] t = "decision_retract" -> decision_retract_tool(v)
    [] t = "decision_reinforce" -> decision_reinforce_tool(v)
    [] t = "decision_contradict" -> decision_contradict_tool(v)
    [] t = "decision_provenance" -> decision_provenance_tool(v)
    [] t = "decision_find_conflicts" -> decision_find_conflicts_tool(v)
    [] t = "decision_create_pending" -> decision_create_pending_tool(v)
    [] t = "decision_resolve_requirement" -> decision_resolve_requirement_tool(v)
    [] t = "decision_try_activate" -> decision_try_activate_tool(v)
    [] t = "dev_record_decision" -> dev_record_decision(v)
    [] t = "dev_record_pattern" -> dev_record_pattern(v)
    [] t = "dev_save_session" -> dev_save_session(v)
    [] t = "dev_log_friction" -> dev_log_friction(v)
    [] t = "dev_query_decisions" -> dev_query_decisions(v)
    [] t = "dev_load_context" -> dev_load_context(vs)
    [] t = "code_index" -> code_index(v)
    [] t = "code_search" -> code_search(v)
    [] t = "code_dead_code" -> code_dead_code(v)
    [] t = "code_dependencies" -> code_dependencies(v)
    [] t = "memory_ingest_document" -> memory_ingest_document(v)
    [] t = "memory_resolve_aliases" -> memory_resolve_aliases(v)
    [] t = "agent_set_recall_profile" -> agent_set_recall_profile(v)
    [] t = "agent_get_recall_profile" -> agent_get_recall_profile(v)
    [] t = "reasoning_query_traces" -> reasoning_query_traces(v)
    [] t = "evolution_status" -> evolution_status(v)
    [] t = "insight_ground" -> insight_ground(v)
=============================================================================
