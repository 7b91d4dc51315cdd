----------------------------- MODULE RemoteCall -----------------------------
(***************************************************************************)
(* One tool call after another on the remote backend of a stdio process:   *)
(* the routing middleware around it, the headers and the request of each   *)
(* backend method it uses, and its reply.  Meanwhile another thread may    *)
(* switch the session's workspace, and the service's own choice for        *)
(* requests without a header (its lever: a saved pick, a default) may      *)
(* move.  The service is external: it applies a request or not, answers or *)
(* not, and may echo where a write went.                                   *)
(***************************************************************************)
EXTENDS ToolReplies

CONSTANTS
  Tools,       \* the tools a client calls
  Occurring,   \* the faults that may occur
  Picks,       \* workspaces a person can name
  Default,     \* the account default /auth/me tells, for display only
  NoWs         \* none

Workspaces == Picks \cup {Default}

ASSUME ToolsAssumption == Tools \subseteq DOMAIN Asks
ASSUME FaultsAssumption == Occurring \subseteq Faults
ASSUME WorkspacesAssumption ==
  NoWs \notin Workspaces /\ {"none", "blank"} \cap (Workspaces \cup {NoWs}) = {}

VARIABLES
  pick,      \* _session["team_id"], the explicit pick
  shown,     \* _session["default_team_id"]
  booted,    \* _session["_bootstrapped"]
  lever,     \* where the service routes a request without a header
  tool, arg, at,
  hdr,       \* X-Workspace-Id of the last request
  vals,      \* what the methods handed back so far
  answer,    \* the outcome of the last request
  applied,   \* the service did the write
  landed,    \* where the last request that is no GET was routed, or redirected
  target,    \* the last entry of WRITE_TARGETS
  reply, line,
  seen       \* history: what was picked since the call began

session == <<pick, shown, booted>>
call == <<tool, arg, at, hdr, vals, answer, applied, landed, target, reply, line>>
vars == <<session, lever, call, seen>>

-----------------------------------------------------------------------------
Method == Requests(tool)[Len(vals) + 1]

Adders == {"memory_add", "memory_distill", "dev_record_decision", "dev_record_pattern"}
ChangingDecisions ==
  {"decision_create", "decision_supersede", "decision_retract", "decision_reinforce",
   "decision_contradict", "decision_create_pending", "decision_resolve_requirement",
   "decision_try_activate"}

\* Methods whose request writes, and those that post in order to read.
Writes ==
  {"add", "ingest", "update", "supersede", "delete", "clear_user_memories",
   "ingest_conversation_sync", "submit_feedback", "ingest_document", "ingest_code",
   "request_write"} \cup ChangingDecisions

\* Mutant of Posts: of the requests that write, only those by POST are noted.
MPosts == Writes \ {"update", "delete", "clear_user_memories"}

Posts == Writes \cup {"search", "recall", "ask", "recall_pack", "read_around",
                      "decision_find_conflicts"}

\* readOnlyHint = False in the tools' annotations.
WriteTools ==
  {"memory_ingest", "memory_update", "memory_supersede", "memory_delete", "memory_clear",
   "memory_ingest_conversation", "memory_feedback", "dev_save_session", "dev_log_friction",
   "code_index", "memory_ingest_document", "memory_resolve_aliases",
   "agent_set_recall_profile", "evolution_trigger", "clustering_run",
   "memory_ingest_structured", "insight_ground"} \cup Adders \cup ChangingDecisions

\* The bodies a route answers with.
BodiesOf(m) ==
  CASE m \in {"search", "search_by_metadata", "recall", "list_memories"} ->
         {"rows", "norows", "odd"}
    [] m = "add" -> {"rows", "held", "odd"}
    [] m \in {"ingest", "ingest_conversation_sync"} -> {"rows", "held"}
    [] m \in {"update", "delete", "clear_user_memories"} -> {"rows", "none"}
    [] m \in {"stats", "ingest_document", "ingest_code"} -> {"rows", "odd"}
    [] m \in {"decision_list", "decision_search", "decision_provenance",
              "decision_find_conflicts", "decision_resolve_requirement",
              "decision_try_activate", "request_rows"} -> {"rows", "norows"}
    [] OTHER -> {"rows"}

Routed == IF hdr # NoWs THEN hdr ELSE lever

\* Whether the service did the write, as far as its answer determines it.
MayApply(m, a) ==
  IF m \notin Writes \/ Routed = NoWs THEN {FALSE}
  ELSE IF a \in {"rows", "none"} THEN {TRUE}
  ELSE IF a \in Lost \cup {"odd", "garbled"} THEN BOOLEAN ELSE {FALSE}

\* A request that reaches no workspace is refused for that, and no other is.
Outcomes(m) ==
  IF Routed = NoWs THEN Occurring \cap (Lost \cup Unsent \cup {"nopick", "redirect"})
  ELSE BodiesOf(m) \cup (Occurring \ {"nopick"})

-----------------------------------------------------------------------------
\* Mutant of Header: the workspace shown to the user is sent.
MHeader(discovered) ==
  IF arg # NoWs THEN arg ELSE IF pick # NoWs THEN pick ELSE discovered

\* _headers(): an argument, else the session's pick, else no header.
Header(discovered) == IF arg # NoWs THEN arg ELSE pick

\* No answer came, or one with an error status (response.is_error).
Erring == Faults \ {"garbled", "redirect"}

\* A redirect is no answer of the service: nothing but the header says where it was to go.
Reached(a) == IF a = "redirect" THEN hdr ELSE Routed

\* Mutant of Noted: without an echo, the pick of the moment is recorded.
MNoted(m, a, echo) ==
  IF m \notin Posts \/ a \in Erring THEN target
  ELSE IF echo THEN Routed ELSE IF pick # NoWs THEN pick ELSE "blank"

\* _note_write_target(): the echo, else the header this request carried.
Noted(m, a, echo) ==
  IF m \notin Posts \/ a \in Erring THEN target
  ELSE IF echo THEN Routed ELSE IF hdr # NoWs THEN hdr ELSE "blank"

\* format_write_target(): an entry that names nothing is named by routing explain.
Named(entry, explained) == IF entry = "blank" THEN explained ELSE entry

-----------------------------------------------------------------------------
Init ==
  /\ pick \in Picks \cup {NoWs}
  /\ shown = NoWs /\ booted = FALSE
  /\ lever \in Workspaces \cup {NoWs}
  /\ tool = "none" /\ arg = NoWs /\ at = "idle" /\ hdr = NoWs /\ vals = <<>>
  /\ answer = "none" /\ applied = FALSE /\ landed = NoWs /\ target = "none"
  /\ reply = "none" /\ line = "none" /\ seen = {}

\* on_call_tool() opens a fresh list and the tool begins.
Call(t, w) ==
  /\ at = "idle"
  /\ w # NoWs => t \in {"memory_add", "memory_ingest"}
  /\ tool' = t /\ arg' = w /\ at' = "send"
  /\ seen' = {pick}
  /\ UNCHANGED <<session, lever, hdr, vals, answer, applied, landed, target, reply, line>>

\* A method builds its headers; the first ones ask /auth/me, which may not answer.
Send ==
  /\ at = "send" /\ Method \notin LocalOnly
  /\ \E d \in IF booted THEN {shown} ELSE {Default, NoWs} :
       /\ shown' = d
       /\ hdr' = Header(d)
  /\ booted' = TRUE
  /\ at' = "sent"
  /\ UNCHANGED <<pick, lever, tool, arg, vals, answer, applied, landed, target, reply, line, seen>>

\* A method the service has no route for.
NotOffered ==
  /\ at = "send" /\ Method \in LocalOnly
  /\ vals' = Append(vals, Value(Method, "none"))
  /\ at' = "answered"
  /\ UNCHANGED <<session, lever, tool, arg, hdr, answer, applied, landed, target, reply, line, seen>>

\* The service handles the request, or it is lost on the way there or back.
Serve(a) ==
  /\ at = "sent" /\ a \in Outcomes(Method)
  /\ answer' = a
  /\ applied' \in MayApply(Method, a)
  /\ landed' = IF applied' \/ (Method \in Posts /\ a \notin Erring) THEN Reached(a) ELSE landed
  /\ \E echo \in IF a \in Faults \cup {"none"} THEN {FALSE} ELSE BOOLEAN :
       target' = Noted(Method, a, echo)
  /\ vals' = Append(vals, Value(Method, Request(Method, a)))
  /\ at' = "answered"
  /\ UNCHANGED <<session, lever, tool, arg, hdr, reply, line, seen>>

\* The tool goes on to its next request, unless this one raised or found nothing.
Continues == vals[Len(vals)] \notin Raised \cup {"nothing"} /\ Len(vals) < Len(Requests(tool))

GoOn ==
  /\ at = "answered" /\ Continues
  /\ at' = "send"
  /\ UNCHANGED <<session, lever, tool, arg, hdr, vals, answer, applied, landed, target, reply, line, seen>>

Reply ==
  /\ at = "answered" /\ ~Continues
  /\ reply' = Said(tool, vals)
  /\ at' = "replied"
  /\ UNCHANGED <<session, lever, tool, arg, hdr, vals, answer, applied, landed, target, line, seen>>

\* The middleware names the target of a tool that may write and did not raise.
AddLine ==
  /\ at = "replied"
  /\ IF tool \in WriteTools /\ target # "none" /\ ~Raises(tool, vals[Len(vals)])
       THEN \E e \in {lever, NoWs} : line' = Named(target, e)
       ELSE line' = "none"
  /\ at' = "done"
  /\ UNCHANGED <<session, lever, tool, arg, hdr, vals, answer, applied, landed, target, reply, seen>>

End ==
  /\ at = "done"
  /\ tool' = "none" /\ arg' = NoWs /\ at' = "idle" /\ hdr' = NoWs /\ vals' = <<>>
  /\ answer' = "none" /\ applied' = FALSE /\ landed' = NoWs /\ target' = "none"
  /\ reply' = "none" /\ line' = "none" /\ seen' = {}
  /\ UNCHANGED <<session, lever>>

\* set_active_workspace() by another thread of the process.
Switch(w) ==
  /\ pick' = w
  /\ seen' = IF at = "idle" THEN {} ELSE seen \cup {w}
  /\ UNCHANGED <<shown, booted, lever, call>>

\* A save or an expiry on the service's side.
MoveLever(w) ==
  /\ lever' = w
  /\ UNCHANGED <<session, call, seen>>

Next ==
  \/ \E t \in Tools, w \in Picks \cup {NoWs} : Call(t, w)
  \/ Send \/ NotOffered
  \/ \E a \in Faults \cup {"rows", "norows", "held", "odd", "none"} : Serve(a)
  \/ GoOn \/ Reply \/ AddLine \/ End
  \/ \E w \in Picks : Switch(w)
  \/ \E w \in Workspaces \cup {NoWs} : MoveLever(w)

Spec == Init /\ [][Next]_vars

-----------------------------------------------------------------------------
\* Types; a line, once there, names a workspace or says it is unknown.
TypeOK ==
  /\ pick \in Picks \cup {NoWs} /\ shown \in {Default, NoWs} /\ booted \in BOOLEAN
  /\ lever \in Workspaces \cup {NoWs}
  /\ tool \in Tools \cup {"none"} /\ arg \in Picks \cup {NoWs}
  /\ at \in {"idle", "send", "sent", "answered", "replied", "done"}
  /\ hdr \in Picks \cup {NoWs} /\ applied \in BOOLEAN
  /\ landed \in Workspaces \cup {NoWs}
  /\ target \in Workspaces \cup {"none", "blank"}
  /\ line \in Workspaces \cup {NoWs, "none"}
  /\ seen \subseteq Picks \cup {NoWs}

\* Tools that do not look whether their request failed.
Unheeding ==
  {"dev_save_session", "dev_log_friction", "memory_ingest_conversation", "evolution_status"}

Answered == at \in {"replied", "done"}

\* remote.py's error policy with the tools' handling of it: a fault of the
\* request is never told as an empty result, a missing item or a success; only
\* a 404 is absence.
OutageIsTold ==
  Answered /\ answer \in Faults =>
    \/ reply \in {"failed", "unreachable", "unconfirmed"}
    \/ answer = "404" /\ reply = "absent"

\* Every write tool: what is acknowledged was done by the service in this call.
AcknowledgedWasDone ==
  Answered /\ reply = "done" => applied

\* Tools over add() and ingest(): a receipt of a held memory is not told as stored.
HeldIsTold ==
  Answered /\ answer = "held" => reply = "held"

\* WriteOutcomeUnknown and graceful(): an add whose receipt was lost is told as
\* unconfirmed, neither as failed nor as a backend that was not reached.
LostAddIsUnconfirmed ==
  Answered /\ tool \in Adders /\ answer \in Lost => reply = "unconfirmed"

\* The header rule: a request lands in the workspace of its argument, else in one
\* picked during the call, else, with no pick, where the service's own choice is;
\* never in the account default because it is shown.
PicksHonoured ==
  [][landed' \notin {landed, NoWs} =>
       IF arg # NoWs THEN landed' = arg
       ELSE landed' \in seen \/ (NoWs \in seen /\ landed' = lever)]_vars

\* The middleware and _note_write_target(): "Every write tool's result ends with
\* Workspace: <name> (<id>), routed by <lever>", whatever method its request has.
AcknowledgedIsNamed ==
  at = "done" /\ tool \in WriteTools /\ reply \in {"done", "held"} => line # "none"

\* format_write_target(): the line names where the service routed the write, or, of a
\* redirected one, where its header sent it, whatever is picked meanwhile; only a
\* request without header whose route echoes nothing is named by what routing explain
\* says later.
LineNamesTarget ==
  line # "none" => target = "blank" \/ (line = landed /\ landed # NoWs)
=============================================================================
