-------------------------- MODULE RemoteCallProofs --------------------------
(***************************************************************************)
(* Proofs about RemoteCall for any set of tools, faults and workspaces:    *)
(* types, that requests land where the person's picks say, that the        *)
(* result line names where the write went, and, over the table of tools,   *)
(* that the reply says what became of the request.                         *)
(***************************************************************************)
EXTENDS RemoteCall, SequenceTheorems, TLAPS

-----------------------------------------------------------------------------
(* Steps with the choices named. *)

EnvStep ==
  \/ \E t \in Tools, w \in Picks \cup {NoWs} : Call(t, w)
  \/ \E w \in Picks : Switch(w)
  \/ \E w \in Workspaces \cup {NoWs} : MoveLever(w)

OwnStep ==
  \/ Send \/ NotOffered
  \/ \E a \in Faults \cup {"rows", "norows", "held", "odd", "none"} : Serve(a)
  \/ GoOn \/ Reply \/ AddLine \/ End

\* Every step is the environment's or the call's own.
LEMMA NextSplit == Next <=> EnvStep \/ OwnStep
  BY Zenon DEF Next, EnvStep, OwnStep

\* An echo comes only with an answer, and an answer only from a workspace.
LEMMA EchoIsRouted ==
  ASSUME NEW a, a \in Outcomes(Method), a \notin Faults
  PROVE  Routed # NoWs
  BY FaultsAssumption DEF Outcomes, Faults, Lost, Unsent, Refusals

-----------------------------------------------------------------------------
\* Every variable keeps its type: headers carry only what a person named, and
\* the line is a workspace, none, or unknown.
THEOREM CallTypeCorrect == Spec => []TypeOK
<1>1. Init => TypeOK
  BY DEF Init, TypeOK, Workspaces
<1>2. TypeOK /\ [Next]_vars => TypeOK'
  <2> SUFFICES ASSUME TypeOK, [Next]_vars PROVE TypeOK'
    OBVIOUS
  <2> USE DEF Workspaces
  <2>1. CASE EnvStep
    BY <2>1 DEF EnvStep, Call, Switch, MoveLever, TypeOK, session, call
  <2>2. CASE Send
    BY <2>2 DEF Send, Header, TypeOK
  <2>3. CASE NotOffered
    BY <2>3 DEF NotOffered, TypeOK, session
  <2>4. ASSUME NEW a, Serve(a) PROVE TypeOK'
    <3>1. PICK echo \in IF a \in Faults \cup {"none"} THEN {FALSE} ELSE BOOLEAN :
            target' = Noted(Method, a, echo)
      BY <2>4 DEF Serve
    <3>2. echo => a \notin Faults
      BY <3>1
    <3>3. echo => Routed # NoWs
      BY <2>4, <3>2, EchoIsRouted DEF Serve
    <3>4. Routed \in Workspaces \cup {NoWs}
      BY DEF Routed, TypeOK
    <3>5. target' \in Workspaces \cup {"none", "blank"}
      BY <3>1, <3>3, <3>4 DEF Noted, TypeOK
    <3>6. landed' \in Workspaces \cup {NoWs}
      BY <2>4, <3>4 DEF Serve, Reached, TypeOK
    <3>7. applied' \in BOOLEAN
      BY <2>4 DEF Serve, MayApply
    <3> QED
      BY <2>4, <3>5, <3>6, <3>7 DEF Serve, TypeOK, session
  <2>5. CASE GoOn \/ Reply
    BY <2>5 DEF GoOn, Reply, TypeOK, session
  <2>6. CASE AddLine
    <3>1. line' \in Workspaces \cup {NoWs, "none"}
      BY <2>6 DEF AddLine, Named, TypeOK
    <3> QED
      BY <2>6, <3>1 DEF AddLine, TypeOK, session
  <2>7. CASE End
    BY <2>7 DEF End, TypeOK, session
  <2>8. CASE UNCHANGED vars
    BY <2>8 DEF vars, session, call, TypeOK
  <2> QED
    BY <2>1, <2>2, <2>3, <2>4, <2>5, <2>6, <2>7, <2>8, NextSplit DEF OwnStep
<1> QED
  BY <1>1, <1>2, PTL DEF Spec

-----------------------------------------------------------------------------
(* The header of a request on its way is the argument or a pick of the call. *)

HeaderOK ==
  /\ at # "idle" => pick \in seen
  /\ at = "sent" => IF arg # NoWs THEN hdr = arg ELSE hdr \in seen

LEMMA HeaderInit == Init => HeaderOK
  BY DEF Init, HeaderOK

LEMMA HeaderStep == HeaderOK /\ [Next]_vars => HeaderOK'
<1> SUFFICES ASSUME HeaderOK, [Next]_vars PROVE HeaderOK'
  OBVIOUS
<1>1. CASE EnvStep
  BY <1>1 DEF EnvStep, Call, Switch, MoveLever, HeaderOK, session, call
<1>2. CASE Send
  BY <1>2 DEF Send, Header, HeaderOK
<1>3. CASE NotOffered \/ GoOn \/ Reply \/ AddLine \/ End
  BY <1>3 DEF NotOffered, GoOn, Reply, AddLine, End, HeaderOK, session
<1>4. ASSUME NEW a, Serve(a) PROVE HeaderOK'
  BY <1>4 DEF Serve, HeaderOK, session
<1>5. CASE UNCHANGED vars
  BY <1>5 DEF vars, session, call, HeaderOK
<1> QED
  BY <1>1, <1>2, <1>3, <1>4, <1>5, NextSplit DEF OwnStep

\* A request lands in the workspace of its argument, else in one picked during
\* the call, else where the service's own choice is: for any tools and faults,
\* and however many switches fall between its steps.
THEOREM PicksAlwaysHonoured == Spec => PicksHonoured
<1>1. HeaderOK /\ [Next]_vars =>
        [landed' \notin {landed, NoWs} =>
           IF arg # NoWs THEN landed' = arg
           ELSE landed' \in seen \/ (NoWs \in seen /\ landed' = lever)]_vars
  <2> SUFFICES ASSUME HeaderOK, Next, landed' \notin {landed, NoWs}
               PROVE  IF arg # NoWs THEN landed' = arg
                      ELSE landed' \in seen \/ (NoWs \in seen /\ landed' = lever)
    OBVIOUS
  <2>1. CASE EnvStep
    BY <2>1 DEF EnvStep, Call, Switch, MoveLever, call
  <2>2. ASSUME NEW a, Serve(a)
        PROVE  IF arg # NoWs THEN landed' = arg
               ELSE landed' \in seen \/ (NoWs \in seen /\ landed' = lever)
    <3>1. at = "sent" /\ landed' \in {hdr, Routed}
      BY <2>2 DEF Serve, Reached
    <3>2. IF arg # NoWs THEN hdr = arg ELSE hdr \in seen
      BY <3>1 DEF HeaderOK
    <3>3. landed' # NoWs
      OBVIOUS
    <3> QED
      BY <3>1, <3>2, <3>3 DEF Routed
  <2>3. CASE Send \/ NotOffered \/ GoOn \/ Reply \/ AddLine \/ End
    BY <2>3 DEF Send, NotOffered, GoOn, Reply, AddLine, End
  <2> QED
    BY <2>1, <2>2, <2>3, NextSplit DEF OwnStep
<1> QED
  BY <1>1, HeaderInit, HeaderStep, PTL DEF Spec, PicksHonoured

-----------------------------------------------------------------------------
(* The line: what was noted is where the call's write was routed. *)

\* No call sends a request that writes after another one.
LEMMA WritesFirst ==
  ASSUME NEW t, NEW n \in Nat, n > 1, n <= Len(Requests(t))
  PROVE  Requests(t)[n] \notin Writes
<1>1. t \in DOMAIN Then /\ n = 2 /\ Requests(t)[n] = Then[t]
  BY DEF Requests
<1>2. Then[t] \in {"search", "ground"}
  BY <1>1 DEF Then
<1> QED
  BY <1>1, <1>2 DEF Writes, ChangingDecisions

\* Before the first answer nothing is noted; what is noted is where it landed.
LineOK ==
  /\ \E S : vals \in Seq(S)
  /\ at = "idle" => vals = <<>>
  /\ at \in {"send", "sent"} => Len(vals) < Len(Requests(tool))
  /\ vals = <<>> => target = "none"
  /\ target \notin {"none", "blank"} => target = landed /\ landed # NoWs
  /\ at # "done" => line = "none"
  /\ LineNamesTarget

LEMMA LineInit == Init => LineOK
<1> SUFFICES ASSUME Init PROVE LineOK
  OBVIOUS
<1>1. vals \in Seq({})
  BY DEF Init
<1> QED
  BY <1>1 DEF Init, LineOK, LineNamesTarget

LEMMA LineStep == LineOK /\ [Next]_vars => LineOK'
<1> SUFFICES ASSUME LineOK, [Next]_vars PROVE LineOK'
  OBVIOUS
<1> USE DEF LineNamesTarget
<1>1. CASE EnvStep
  <2>1. CASE \E t \in Tools, w \in Picks \cup {NoWs} : Call(t, w)
    <3>1. vals' = <<>> /\ at' = "send" /\ line' = "none" /\ target' = target /\ landed' = landed
      BY <2>1 DEF Call, LineOK
    <3>2. Len(Requests(tool')) > 0
      BY DEF Requests
    <3>3. vals' \in Seq({}) /\ Len(vals') = 0
      BY <3>1
    <3> QED
      BY <2>1, <3>1, <3>2, <3>3 DEF LineOK, Call
  <2>2. CASE \/ \E w \in Picks : Switch(w)
             \/ \E w \in Workspaces \cup {NoWs} : MoveLever(w)
    BY <2>2 DEF Switch, MoveLever, call, LineOK
  <2> QED
    BY <1>1, <2>1, <2>2 DEF EnvStep
<1>2. CASE Send
  BY <1>2 DEF Send, LineOK
<1>3. ASSUME NEW v, vals' = Append(vals, v)
      PROVE  (\E S : vals' \in Seq(S)) /\ vals' # <<>>
  <2>1. PICK S : vals \in Seq(S)
    BY DEF LineOK
  <2>2. vals \in Seq(S \cup {v})
    BY <2>1
  <2>3. Append(vals, v) \in Seq(S \cup {v}) /\ Len(Append(vals, v)) = Len(vals) + 1
    BY <2>2
  <2>4. Len(vals) \in Nat /\ Len(<<>>) = 0
    BY <2>1
  <2> QED
    BY <1>3, <2>3, <2>4
<1>4. CASE NotOffered
  BY <1>4, <1>3 DEF NotOffered, LineOK
<1>5. ASSUME NEW a, Serve(a) PROVE LineOK'
  <2>1. (\E S : vals' \in Seq(S)) /\ vals' # <<>>
    BY <1>5, <1>3 DEF Serve
  <2>2. target # "none" => Method \notin Writes
    <3> SUFFICES ASSUME target # "none" PROVE Method \notin Writes
      OBVIOUS
    <3>1. PICK S : vals \in Seq(S)
      BY DEF LineOK
    <3>2. Len(vals) \in Nat /\ Len(vals) # 0
      BY <3>1 DEF LineOK
    <3>3. Len(vals) + 1 \in Nat /\ Len(vals) + 1 > 1 /\ Len(vals) + 1 <= Len(Requests(tool))
      BY <1>5, <3>2 DEF Serve, LineOK, Requests
    <3> QED
      BY <3>3, WritesFirst DEF Method
  <2>3. PICK echo \in IF a \in Faults \cup {"none"} THEN {FALSE} ELSE BOOLEAN :
          target' = Noted(Method, a, echo)
    BY <1>5 DEF Serve
  <2>4. CASE Method \notin Posts \/ a \in Erring
    <3>1. target' = target
      BY <2>3, <2>4 DEF Noted
    <3>2. target # "none" => landed' = landed
      BY <1>5, <2>2, <2>4 DEF Serve, MayApply
    <3> QED
      BY <1>5, <2>1, <3>1, <3>2 DEF Serve, LineOK
  <2>5. CASE Method \in Posts /\ a \notin Erring
    <3>1. landed' = Reached(a)
      BY <1>5, <2>5 DEF Serve
    <3>2. a # "redirect" => Routed # NoWs
      BY <1>5, <2>5, FaultsAssumption DEF Serve, Outcomes, Erring, Faults, Lost, Unsent, Refusals
    <3>3. target' = "blank" \/ (target' = Reached(a) /\ Reached(a) # NoWs)
      BY <2>3, <2>5, <3>2 DEF Noted, Reached, Routed, Faults
    <3> QED
      BY <1>5, <2>1, <3>1, <3>2, <3>3 DEF Serve, LineOK
  <2> QED
    BY <2>4, <2>5
<1>6. CASE GoOn
  BY <1>6 DEF GoOn, Continues, LineOK
<1>7. CASE Reply
  BY <1>7 DEF Reply, LineOK
<1>8. CASE AddLine
  BY <1>8 DEF AddLine, Named, LineOK
<1>9. CASE End
  <2>1. vals' \in Seq({})
    BY <1>9 DEF End
  <2> QED
    BY <1>9, <2>1 DEF End, LineOK
<1>10. CASE UNCHANGED vars
  BY <1>10 DEF vars, session, call, LineOK
<1> QED
  BY <1>1, <1>2, <1>4, <1>5, <1>6, <1>7, <1>8, <1>9, <1>10, NextSplit DEF OwnStep

\* The result line names where the call's write was routed, or sent by its header, for any
\* tools, faults and workspaces, whatever is switched while the call runs.
THEOREM LineAlwaysNamesTarget == Spec => []LineNamesTarget
<1>1. LineOK => LineNamesTarget
  BY DEF LineOK
<1> QED
  BY <1>1, LineInit, LineStep, PTL DEF Spec
-----------------------------------------------------------------------------
(* What a tool says of the outcome of its one request: the tools, by the    *)
(* shape of their method's value and of their reply.                        *)

Outcome(t, a) == Said(t, <<Value(Asks[t], Request(Asks[t], a))>>)

FaultTold(t, a) ==
  \/ Outcome(t, a) \in {"failed", "unreachable", "unconfirmed"}
  \/ a = "404" /\ Outcome(t, a) = "absent"

\* The reply to each outcome, as far as the properties tell replies apart.
OutcomeOK(t, a) ==
  /\ a \in Faults \ {"cites404"} /\ t \notin Unheeding => FaultTold(t, a)
  /\ Outcome(t, a) = "done" /\ t \notin Unheeding => Asks[t] \in Writes /\ a \in {"rows", "none"}
  /\ a = "held" => Outcome(t, a) = "held"
  /\ t \in Adders /\ a \in Lost => Outcome(t, a) = "unconfirmed"
  /\ Outcome(t, a) \in {"done", "held"} /\ t \in WriteTools \ Unheeding =>
       a \notin Faults /\ Asks[t] \in Posts /\ ~Raises(t, Value(Asks[t], Request(Asks[t], a)))

OutcomesOf(t) == Faults \cup BodiesOf(Asks[t])

LEMMA RequestOf ==
  ASSUME NEW m, NEW a
  PROVE  /\ a \notin Faults => Request(m, a) = a
         /\ a \in Faults => Request(m, a) \in Errors
         /\ a \in Faults \ {"cites404"} => Request(m, a) # "error_citing_404"
         /\ a \in Faults /\ Request(m, a) = "error_404" => a = "404"
         /\ a \in Lost /\ m = "add" => Request(m, a) = "unknown"
  BY DEF Request, Faults, Lost, Unsent, Refusals, Errors

\* An exception is told as one, whatever the tool; one of an unknown outcome as unconfirmed.
LEMMA ExceptionTold ==
  ASSUME NEW t, NEW v, v \in Raised, t # "evolution_status", v # "unsupported"
  PROVE  /\ Said(t, <<v>>) \in {"failed", "unreachable", "unconfirmed"}
         /\ v = "raised_unknown" /\ t # "memory_search" => Said(t, <<v>>) = "unconfirmed"
  BY DEF Said, Raised, Excepted, graceful

\* Tools that list what a search found.
Searchers ==
  {"memory_search", "memory_recall", "get_working_context",
   "memory_search_by_metadata", "dev_query_decisions", "reasoning_query_traces"}

LEMMA SearchersOK ==
  ASSUME NEW t \in Searchers, NEW a \in OutcomesOf(t)
  PROVE  OutcomeOK(t, a)
<1>1. Asks[t] \in {"recall", "search", "search_by_metadata"}
  BY DEF Searchers, Asks
<1>2. \A r : Value(Asks[t], r) = search(r)
  BY <1>1 DEF Value, LocalOnly, recall, search_by_metadata
<1>3. \A v : v \notin Raised => Said(t, <<v>>) = Listed(v)
  BY DEF Searchers, Said, memory_search, memory_recall, get_working_context,
         memory_search_by_metadata, dev_query_decisions, reasoning_query_traces
<1> QED
  BY <1>1, <1>2, <1>3, RequestOf, ExceptionTold
  DEF Searchers, OutcomesOf, OutcomeOK, Outcome, FaultTold, BodiesOf, Errors, Raise, Raised,
      Faults, Lost, Unsent, Refusals, Writes, ChangingDecisions, Posts, Adders, WriteTools,
      Unheeding, Raises, search, Listed

\* The tool that lists what two searches found, when there was but one.
Loading == {"dev_load_context"}

LEMMA LoadingOK ==
  ASSUME NEW t \in Loading, NEW a \in OutcomesOf(t)
  PROVE  OutcomeOK(t, a)
<1>1. Asks[t] = "search"
  BY DEF Loading, Asks
<1>2. \A r : Value(Asks[t], r) = search(r)
  BY <1>1 DEF Value, LocalOnly
<1>3. \A v : v \notin Raised => Said(t, <<v>>) = Listed(v)
  BY DEF Loading, Said, dev_load_context, Listed
<1> QED
  BY <1>1, <1>2, <1>3, RequestOf, ExceptionTold
  DEF Loading, OutcomesOf, OutcomeOK, Outcome, FaultTold, BodiesOf, Errors, Raise, Raised,
      Faults, Lost, Unsent, Refusals, Writes, ChangingDecisions, Posts, Adders, WriteTools,
      Unheeding, Raises, search, Listed

\* Tools that list what a route answers.
Listers == {"memory_list", "decision_list", "decision_search"}

LEMMA ListersOK ==
  ASSUME NEW t \in Listers, NEW a \in OutcomesOf(t)
  PROVE  OutcomeOK(t, a)
<1>1. Asks[t] \in {"decision_list", "decision_search", "list_memories"}
  BY DEF Listers, Asks
<1>2. \A r : Value(Asks[t], r) =
      IF Asks[t] = "list_memories" THEN list_memories(r) ELSE DecisionRequest(r, FALSE)
  BY <1>1 DEF Value, LocalOnly, decision_list, decision_search
<1>3. \A v : v \notin Raised => Said(t, <<v>>) = Listed(v)
  BY DEF Listers, Said, memory_list, decision_list_tool, decision_search_tool
<1> QED
  BY <1>1, <1>2, <1>3, RequestOf, ExceptionTold
  DEF Listers, OutcomesOf, OutcomeOK, Outcome, FaultTold, BodiesOf, Errors, Raise, Raised,
      Faults, Lost, Unsent, Refusals, Writes, ChangingDecisions, Posts, Adders, WriteTools,
      Unheeding, Raises, list_memories, DecisionRequest, Listed

\* Tools that show one item, or look it up first.
Lookups == {"memory_get", "memory_explain", "decision_get", "insight_ground"}

LEMMA LookupsOK ==
  ASSUME NEW t \in Lookups, NEW a \in OutcomesOf(t)
  PROVE  OutcomeOK(t, a)
<1>1. Asks[t] \in {"decision_get", "explain", "get"}
  BY DEF Lookups, Asks
<1>2. \A r : Value(Asks[t], r) =
      IF Asks[t] = "decision_get" THEN DecisionRequest(r, TRUE) ELSE get(r)
  BY <1>1 DEF Value, LocalOnly, explain, decision_get
<1>3. \A v : v \notin Raised => Said(t, <<v>>) = Found(v)
  BY DEF Lookups, Said, memory_get, memory_explain, decision_get_tool, insight_ground
<1> QED
  BY <1>1, <1>2, <1>3, RequestOf, ExceptionTold
  DEF Lookups, OutcomesOf, OutcomeOK, Outcome, FaultTold, BodiesOf, Errors, Raise, Raised,
      Faults, Lost, Unsent, Refusals, Writes, ChangingDecisions, Posts, Adders, WriteTools,
      Unheeding, Raises, get, DecisionRequest, Found

\* Tools that show what there is around one decision.
Neighbours == {"decision_provenance", "decision_find_conflicts"}

LEMMA NeighboursOK ==
  ASSUME NEW t \in Neighbours, NEW a \in OutcomesOf(t)
  PROVE  OutcomeOK(t, a)
<1>1. Asks[t] \in {"decision_find_conflicts", "decision_provenance"}
  BY DEF Neighbours, Asks
<1>2. \A r : Value(Asks[t], r) = DecisionRequest(r, TRUE)
  BY <1>1 DEF Value, LocalOnly, decision_provenance, decision_find_conflicts
<1>3. \A v : v \notin Raised => Said(t, <<v>>) =
      IF v = "empty" THEN (IF t = "decision_provenance" THEN "absent"
      ELSE "empty") ELSE Found(v)
  BY DEF Neighbours, Said, decision_provenance_tool, decision_find_conflicts_tool
<1> QED
  BY <1>1, <1>2, <1>3, RequestOf, ExceptionTold
  DEF Neighbours, OutcomesOf, OutcomeOK, Outcome, FaultTold, BodiesOf, Errors, Raise, Raised,
      Faults, Lost, Unsent, Refusals, Writes, ChangingDecisions, Posts, Adders, WriteTools,
      Unheeding, Raises, DecisionRequest, Found

\* Tools that change a decision.
DecisionEdits ==
  {"decision_supersede", "decision_retract",
   "decision_reinforce", "decision_contradict"}

LEMMA DecisionEditsOK ==
  ASSUME NEW t \in DecisionEdits, NEW a \in OutcomesOf(t)
  PROVE  OutcomeOK(t, a)
<1>1. Asks[t] \in
      {"decision_contradict", "decision_reinforce",
       "decision_retract", "decision_supersede"}
  BY DEF DecisionEdits, Asks
<1>2. \A r : Value(Asks[t], r) = DecisionRequest(r, TRUE)
  BY <1>1 DEF Value, LocalOnly, decision_supersede, decision_retract, decision_reinforce,
         decision_contradict
<1>3. \A v : v \notin Raised => Said(t, <<v>>) = Addressed(v)
  BY DEF DecisionEdits, Said, decision_supersede_tool, decision_retract_tool,
         decision_reinforce_tool, decision_contradict_tool
<1> QED
  BY <1>1, <1>2, <1>3, RequestOf, ExceptionTold
  DEF DecisionEdits, OutcomesOf, OutcomeOK, Outcome, FaultTold, BodiesOf, Errors, Raise,
      Raised, Faults, Lost, Unsent, Refusals, Writes, ChangingDecisions, Posts, Adders,
      WriteTools, Unheeding, Raises, DecisionRequest, Addressed

\* Tools that make a decision.
DecisionMakers == {"decision_create", "decision_create_pending"}

LEMMA DecisionMakersOK ==
  ASSUME NEW t \in DecisionMakers, NEW a \in OutcomesOf(t)
  PROVE  OutcomeOK(t, a)
<1>1. Asks[t] \in {"decision_create", "decision_create_pending"}
  BY DEF DecisionMakers, Asks
<1>2. \A r : Value(Asks[t], r) = DecisionRequest(r, FALSE)
  BY <1>1 DEF Value, LocalOnly, decision_create, decision_create_pending
<1>3. \A v : v \notin Raised => Said(t, <<v>>) = "done"
  BY DEF DecisionMakers, Said, decision_create_tool, decision_create_pending_tool
<1> QED
  BY <1>1, <1>2, <1>3, RequestOf, ExceptionTold
  DEF DecisionMakers, OutcomesOf, OutcomeOK, Outcome, FaultTold, BodiesOf, Errors, Raise,
      Raised, Faults, Lost, Unsent, Refusals, Writes, ChangingDecisions, Posts, Adders,
      WriteTools, Unheeding, Raises, DecisionRequest

\* The tool that resolves a requirement of a pending decision.
Resolving == {"decision_resolve_requirement"}

LEMMA ResolvingOK ==
  ASSUME NEW t \in Resolving, NEW a \in OutcomesOf(t)
  PROVE  OutcomeOK(t, a)
<1>1. Asks[t] = "decision_resolve_requirement"
  BY DEF Resolving, Asks
<1>2. \A r : Value(Asks[t], r) = decision_resolve_requirement(r)
  BY <1>1 DEF Value, LocalOnly
<1>3. \A v : v \notin Raised => Said(t, <<v>>) = decision_resolve_requirement_tool(v)
  BY DEF Resolving, Said
<1> QED
  BY <1>1, <1>2, <1>3, RequestOf, ExceptionTold
  DEF Resolving, OutcomesOf, OutcomeOK, Outcome, FaultTold, BodiesOf, Errors, Raise, Raised,
      Faults, Lost, Unsent, Refusals, Writes, ChangingDecisions, Posts, Adders, WriteTools,
      Unheeding, Raises, DecisionRequest, decision_resolve_requirement,
      decision_resolve_requirement_tool

\* The tool that tries to activate a pending decision.
Attempting == {"decision_try_activate"}

LEMMA AttemptingOK ==
  ASSUME NEW t \in Attempting, NEW a \in OutcomesOf(t)
  PROVE  OutcomeOK(t, a)
<1>1. Asks[t] = "decision_try_activate"
  BY DEF Attempting, Asks
<1>2. \A r : Value(Asks[t], r) = decision_try_activate(r)
  BY <1>1 DEF Value, LocalOnly
<1>3. \A v : v \notin Raised => Said(t, <<v>>) = decision_try_activate_tool(v)
  BY DEF Attempting, Said
<1> QED
  BY <1>1, <1>2, <1>3, RequestOf, ExceptionTold
  DEF Attempting, OutcomesOf, OutcomeOK, Outcome, FaultTold, BodiesOf, Errors, Raise, Raised,
      Faults, Lost, Unsent, Refusals, Writes, ChangingDecisions, Posts, Adders, WriteTools,
      Unheeding, Raises, DecisionRequest, decision_try_activate, decision_try_activate_tool

\* Tools that add a memory.
Adds == {"memory_add", "memory_distill", "dev_record_decision", "dev_record_pattern"}

LEMMA AddsOK ==
  ASSUME NEW t \in Adds, NEW a \in OutcomesOf(t)
  PROVE  OutcomeOK(t, a)
<1>1. Asks[t] = "add"
  BY DEF Adds, Asks
<1>2. \A r : Value(Asks[t], r) = add(r)
  BY <1>1 DEF Value, LocalOnly
<1>3. \A v : v \notin Raised => Said(t, <<v>>) = Held(v)
  BY DEF Adds, Said, memory_add, memory_distill, dev_record_decision, dev_record_pattern
<1> QED
  BY <1>1, <1>2, <1>3, RequestOf, ExceptionTold
  DEF Adds, OutcomesOf, OutcomeOK, Outcome, FaultTold, BodiesOf, Errors, Raise, Raised, Faults,
      Lost, Unsent, Refusals, Writes, ChangingDecisions, Posts, Adders, WriteTools, Unheeding,
      Raises, add, Held

\* Tools that ingest.
Ingests ==
  {"memory_ingest", "memory_ingest_conversation",
   "dev_save_session", "dev_log_friction"}

LEMMA IngestsOK ==
  ASSUME NEW t \in Ingests, NEW a \in OutcomesOf(t)
  PROVE  OutcomeOK(t, a)
<1>1. Asks[t] \in {"ingest", "ingest_conversation_sync"}
  BY DEF Ingests, Asks
<1>2. \A r : Value(Asks[t], r) = ingest(r)
  BY <1>1 DEF Value, LocalOnly, ingest_conversation_sync, ingest
<1>3. \A v : v \notin Raised => Said(t, <<v>>) =
      IF t = "memory_ingest" THEN memory_ingest(v) ELSE Held(v)
  BY DEF Ingests, Said, memory_ingest_conversation, dev_save_session, dev_log_friction
<1> QED
  BY <1>1, <1>2, <1>3, RequestOf, ExceptionTold
  DEF Ingests, OutcomesOf, OutcomeOK, Outcome, FaultTold, BodiesOf, Errors, Raise, Raised,
      Faults, Lost, Unsent, Refusals, Writes, ChangingDecisions, Posts, Adders, WriteTools,
      Unheeding, Raises, ingest, Told, memory_ingest, Held, Failed

\* Tools that are told of a change by the answer or the error as it is.
Edits == {"memory_update", "memory_clear", "memory_feedback"}

LEMMA EditsOK ==
  ASSUME NEW t \in Edits, NEW a \in OutcomesOf(t)
  PROVE  OutcomeOK(t, a)
<1>1. Asks[t] \in {"clear_user_memories", "submit_feedback", "update"}
  BY DEF Edits, Asks
<1>2. \A r : Value(Asks[t], r) = Told(r)
  BY <1>1 DEF Value, LocalOnly, update, clear_user_memories, submit_feedback
<1>3. \A v : v \notin Raised => Said(t, <<v>>) = Failed(v, "done")
  BY DEF Edits, Said, memory_update, memory_clear, memory_feedback
<1> QED
  BY <1>1, <1>2, <1>3, RequestOf, ExceptionTold
  DEF Edits, OutcomesOf, OutcomeOK, Outcome, FaultTold, BodiesOf, Errors, Raise, Raised,
      Faults, Lost, Unsent, Refusals, Writes, ChangingDecisions, Posts, Adders, WriteTools,
      Unheeding, Raises, Told, Failed

\* Tools that show the answer or the error as it is.
Reads == {"read_around", "memory_recall_pack", "memory_policy_bundle"}

LEMMA ReadsOK ==
  ASSUME NEW t \in Reads, NEW a \in OutcomesOf(t)
  PROVE  OutcomeOK(t, a)
<1>1. Asks[t] \in {"policy_bundle", "read_around", "recall_pack"}
  BY DEF Reads, Asks
<1>2. \A r : Value(Asks[t], r) = Told(r)
  BY <1>1 DEF Value, LocalOnly, read_around, recall_pack, policy_bundle
<1>3. \A v : v \notin Raised => Said(t, <<v>>) = Failed(v, "shown")
  BY DEF Reads, Said, read_around_tool, memory_recall_pack, memory_policy_bundle
<1> QED
  BY <1>1, <1>2, <1>3, RequestOf, ExceptionTold
  DEF Reads, OutcomesOf, OutcomeOK, Outcome, FaultTold, BodiesOf, Errors, Raise, Raised,
      Faults, Lost, Unsent, Refusals, Writes, ChangingDecisions, Posts, Adders, WriteTools,
      Unheeding, Raises, Told, Failed

\* The tool that shows an answer of the service.
Asking == {"memory_ask"}

LEMMA AskingOK ==
  ASSUME NEW t \in Asking, NEW a \in OutcomesOf(t)
  PROVE  OutcomeOK(t, a)
<1>1. Asks[t] = "ask"
  BY DEF Asking, Asks
<1>2. \A r : Value(Asks[t], r) = ask(r)
  BY <1>1 DEF Value, LocalOnly
<1>3. \A v : v \notin Raised => Said(t, <<v>>) = "shown"
  BY DEF Asking, Said, memory_ask
<1> QED
  BY <1>1, <1>2, <1>3, RequestOf, ExceptionTold
  DEF Asking, OutcomesOf, OutcomeOK, Outcome, FaultTold, BodiesOf, Errors, Raise, Raised,
      Faults, Lost, Unsent, Refusals, Writes, ChangingDecisions, Posts, Adders, WriteTools,
      Unheeding, Raises, ask

\* The tool that supersedes a memory.
Superseding == {"memory_supersede"}

LEMMA SupersedingOK ==
  ASSUME NEW t \in Superseding, NEW a \in OutcomesOf(t)
  PROVE  OutcomeOK(t, a)
<1>1. Asks[t] = "supersede"
  BY DEF Superseding, Asks
<1>2. \A r : Value(Asks[t], r) = supersede(r)
  BY <1>1 DEF Value, LocalOnly
<1>3. \A v : v \notin Raised => Said(t, <<v>>) = "done"
  BY DEF Superseding, Said, memory_supersede
<1> QED
  BY <1>1, <1>2, <1>3, RequestOf, ExceptionTold
  DEF Superseding, OutcomesOf, OutcomeOK, Outcome, FaultTold, BodiesOf, Errors, Raise, Raised,
      Faults, Lost, Unsent, Refusals, Writes, ChangingDecisions, Posts, Adders, WriteTools,
      Unheeding, Raises, supersede

\* The tool that deletes a memory.
Deleting == {"memory_delete"}

LEMMA DeletingOK ==
  ASSUME NEW t \in Deleting, NEW a \in OutcomesOf(t)
  PROVE  OutcomeOK(t, a)
<1>1. Asks[t] = "delete"
  BY DEF Deleting, Asks
<1>2. \A r : Value(Asks[t], r) = delete(r)
  BY <1>1 DEF Value, LocalOnly
<1>3. \A v : v \notin Raised => Said(t, <<v>>) = memory_delete(v)
  BY DEF Deleting, Said
<1> QED
  BY <1>1, <1>2, <1>3, RequestOf, ExceptionTold
  DEF Deleting, OutcomesOf, OutcomeOK, Outcome, FaultTold, BodiesOf, Errors, Raise, Raised,
      Faults, Lost, Unsent, Refusals, Writes, ChangingDecisions, Posts, Adders, WriteTools,
      Unheeding, Raises, delete, memory_delete

\* The tool that counts memories.
Counting == {"memory_stats"}

LEMMA CountingOK ==
  ASSUME NEW t \in Counting, NEW a \in OutcomesOf(t)
  PROVE  OutcomeOK(t, a)
<1>1. Asks[t] = "stats"
  BY DEF Counting, Asks
<1>2. \A r : Value(Asks[t], r) = stats(r)
  BY <1>1 DEF Value, LocalOnly
<1>3. \A v : v \notin Raised => Said(t, <<v>>) = memory_stats(v)
  BY DEF Counting, Said
<1> QED
  BY <1>1, <1>2, <1>3, RequestOf, ExceptionTold
  DEF Counting, OutcomesOf, OutcomeOK, Outcome, FaultTold, BodiesOf, Errors, Raise, Raised,
      Faults, Lost, Unsent, Refusals, Writes, ChangingDecisions, Posts, Adders, WriteTools,
      Unheeding, Raises, stats, memory_stats

\* The tool that ingests a document.
Documents == {"memory_ingest_document"}

LEMMA DocumentsOK ==
  ASSUME NEW t \in Documents, NEW a \in OutcomesOf(t)
  PROVE  OutcomeOK(t, a)
<1>1. Asks[t] = "ingest_document"
  BY DEF Documents, Asks
<1>2. \A r : Value(Asks[t], r) = ingest_document(r)
  BY <1>1 DEF Value, LocalOnly
<1>3. \A v : v \notin Raised => Said(t, <<v>>) = memory_ingest_document(v)
  BY DEF Documents, Said
<1> QED
  BY <1>1, <1>2, <1>3, RequestOf, ExceptionTold
  DEF Documents, OutcomesOf, OutcomeOK, Outcome, FaultTold, BodiesOf, Errors, Raise, Raised,
      Faults, Lost, Unsent, Refusals, Writes, ChangingDecisions, Posts, Adders, WriteTools,
      Unheeding, Raises, ingest_document, memory_ingest_document

\* The tool that replaces a code index.
Indexing == {"code_index"}

LEMMA IndexingOK ==
  ASSUME NEW t \in Indexing, NEW a \in OutcomesOf(t)
  PROVE  OutcomeOK(t, a)
<1>1. Asks[t] = "ingest_code"
  BY DEF Indexing, Asks
<1>2. \A r : Value(Asks[t], r) = ingest_code(r)
  BY <1>1 DEF Value, LocalOnly
<1>3. \A v : v \notin Raised => Said(t, <<v>>) = code_index(v)
  BY DEF Indexing, Said
<1> QED
  BY <1>1, <1>2, <1>3, RequestOf, ExceptionTold
  DEF Indexing, OutcomesOf, OutcomeOK, Outcome, FaultTold, BodiesOf, Errors, Raise, Raised,
      Faults, Lost, Unsent, Refusals, Writes, ChangingDecisions, Posts, Adders, WriteTools,
      Unheeding, Raises, ingest_code, code_index

\* Tools that call a route that writes.
RouteWriters == {"memory_resolve_aliases", "agent_set_recall_profile"}

LEMMA RouteWritersOK ==
  ASSUME NEW t \in RouteWriters, NEW a \in OutcomesOf(t)
  PROVE  OutcomeOK(t, a)
<1>1. Asks[t] = "request_write"
  BY DEF RouteWriters, Asks
<1>2. \A r : Value(Asks[t], r) = request(r)
  BY <1>1 DEF Value, LocalOnly
<1>3. \A v : v \notin Raised => Said(t, <<v>>) =
      IF t = "memory_resolve_aliases" THEN memory_resolve_aliases(v)
      ELSE agent_set_recall_profile(v)
  BY DEF RouteWriters, Said
<1> QED
  BY <1>1, <1>2, <1>3, RequestOf, ExceptionTold
  DEF RouteWriters, OutcomesOf, OutcomeOK, Outcome, FaultTold, BodiesOf, Errors, Raise, Raised,
      Faults, Lost, Unsent, Refusals, Writes, ChangingDecisions, Posts, Adders, WriteTools,
      Unheeding, Raises, request, memory_resolve_aliases, agent_set_recall_profile, Failed

\* Tools that call a route that reads.
RouteReaders ==
  {"code_search", "code_dead_code",
   "code_dependencies", "agent_get_recall_profile"}

LEMMA RouteReadersOK ==
  ASSUME NEW t \in RouteReaders, NEW a \in OutcomesOf(t)
  PROVE  OutcomeOK(t, a)
<1>1. Asks[t] \in {"request_read", "request_rows"}
  BY DEF RouteReaders, Asks
<1>2. \A r : Value(Asks[t], r) = request(r)
  BY <1>1 DEF Value, LocalOnly
<1>3. \A v : v \notin Raised => Said(t, <<v>>) =
      CASE t = "code_search" -> code_search(v)
        [] t = "code_dead_code" -> code_dead_code(v)
        [] t = "code_dependencies" -> code_dependencies(v)
        [] OTHER -> agent_get_recall_profile(v)
  BY DEF RouteReaders, Said
<1> QED
  BY <1>1, <1>2, <1>3, RequestOf, ExceptionTold
  DEF RouteReaders, OutcomesOf, OutcomeOK, Outcome, FaultTold, BodiesOf, Errors, Raise, Raised,
      Faults, Lost, Unsent, Refusals, Writes, ChangingDecisions, Posts, Adders, WriteTools,
      Unheeding, Raises, request, code_search, code_dead_code, code_dependencies,
      agent_get_recall_profile, Failed

\* The table: every tool whose request the service serves.
LEMMA Table ==
  ASSUME NEW t \in DOMAIN Asks, Asks[t] \notin LocalOnly, NEW a \in OutcomesOf(t)
  PROVE  OutcomeOK(t, a)
<1>1. CASE t = "evolution_status"
  <2>1. Asks[t] = "search"
    BY <1>1 DEF Asks
  <2> QED
    BY <1>1, <2>1 DEF OutcomeOK, OutcomesOf, BodiesOf, Faults, Lost, Unsent, Refusals,
         Adders, Unheeding
<1>2. t = "evolution_status"
      \/ t \in Searchers \/ t \in Loading \/ t \in Listers \/ t \in Lookups
      \/ t \in Neighbours \/ t \in DecisionEdits \/ t \in DecisionMakers \/ t \in Resolving
      \/ t \in Attempting \/ t \in Adds \/ t \in Ingests \/ t \in Edits
      \/ t \in Reads \/ t \in Asking \/ t \in Superseding \/ t \in Deleting
      \/ t \in Counting \/ t \in Documents \/ t \in Indexing \/ t \in RouteWriters
      \/ t \in RouteReaders
  BY DEF Asks, LocalOnly, Searchers, Loading, Listers, Lookups, Neighbours, DecisionEdits,
         DecisionMakers,
         Resolving, Attempting, Adds, Ingests, Edits, Reads, Asking, Superseding, Deleting,
         Counting, Documents, Indexing, RouteWriters, RouteReaders
<1> QED
  BY <1>1, <1>2, SearchersOK, LoadingOK, ListersOK, LookupsOK, NeighboursOK, DecisionEditsOK,
     DecisionMakersOK, ResolvingOK, AttemptingOK, AddsOK, IngestsOK, EditsOK, ReadsOK,
     AskingOK, SupersedingOK, DeletingOK, CountingOK, DocumentsOK, IndexingOK, RouteWritersOK,
     RouteReadersOK
-----------------------------------------------------------------------------
(* What a call has behind it, and what its reply says of that.              *)

\* Nothing yet, or the first of two requests, which found something.
NothingYet == vals = <<>> /\ answer = "none"
Halfway ==
  /\ tool \in DOMAIN Then /\ answer \notin Faults \cup {"held"}
  /\ \E v : /\ vals = <<v>> /\ v \notin Raised \cup {"nothing"}
            /\ tool = "dev_load_context" => v \in {"value", "empty"}

\* The one request that it made, or the one that the service does not offer.
AfterOne ==
  /\ Asks[tool] \notin LocalOnly /\ vals = <<Value(Asks[tool], Request(Asks[tool], answer))>>
  /\ answer \in Occurring \cup BodiesOf(Asks[tool])
  /\ Asks[tool] \in Writes /\ answer \in {"rows", "none"} => applied
  /\ Asks[tool] \in Posts /\ answer \notin Faults => target # "none"
NotServed == Asks[tool] \in LocalOnly /\ vals = <<"unsupported">> /\ answer = "none"

\* Both requests of a tool that makes two.
AfterTwo ==
  \/ /\ tool = "dev_load_context" /\ answer \in Occurring \cup BodiesOf("search")
     /\ \E v \in {"value", "empty"} : vals = <<v, search(Request("search", answer))>>
  \/ /\ tool = "insight_ground" /\ answer \notin Faults \cup {"held"}
     /\ \E v : vals = <<v, "unsupported">>

\* What the properties say of a reply.
ReplyOK ==
  /\ answer \in Faults => answer \in Occurring
  /\ answer \in Faults \ {"cites404"} /\ tool \notin Unheeding =>
       reply \in {"failed", "unreachable", "unconfirmed"} \/ (answer = "404" /\ reply = "absent")
  /\ reply = "done" /\ tool \notin Unheeding => applied
  /\ answer = "held" => reply = "held"
  /\ tool \in Adders /\ answer \in Lost => reply = "unconfirmed"
  /\ reply \in {"done", "held"} /\ tool \in WriteTools \ Unheeding =>
       target # "none" /\ ~Raises(tool, vals[Len(vals)])

CallInv ==
  /\ at = "idle" => NothingYet
  /\ at # "idle" => tool \in Tools
  /\ at \in {"send", "sent"} => NothingYet \/ Halfway
  /\ at = "sent" => Method \notin LocalOnly
  /\ at \in {"answered", "replied", "done"} => AfterOne \/ NotServed \/ AfterTwo
  /\ at \in {"replied", "done"} => ReplyOK
  /\ at = "done" /\ tool \in WriteTools \ Unheeding /\ reply \in {"done", "held"} => line # "none"

\* The requests of a tool that makes two.
LEMMA RequestsOf ==
  /\ \A t : t \notin DOMAIN Then => Requests(t) = <<Asks[t]>>
  /\ Requests("dev_load_context") = <<"search", "search">>
  /\ Requests("insight_ground") = <<"get", "ground">>
  /\ DOMAIN Then = {"dev_load_context", "insight_ground"}
  /\ Asks["dev_load_context"] = "search" /\ Asks["insight_ground"] = "get"
<1>1. DOMAIN Then = {"dev_load_context", "insight_ground"}
  BY DEF Then
<1>2. Then["dev_load_context"] = "search" /\ Then["insight_ground"] = "ground"
  BY DEF Then
<1>3. Asks["dev_load_context"] = "search" /\ Asks["insight_ground"] = "get"
  BY DEF Asks
<1> QED
  BY <1>1, <1>2, <1>3 DEF Requests

LEMMA AppendToOne == ASSUME NEW v, NEW w PROVE Append(<<v>>, w) = <<v, w>>
<1> DEFINE S == {v, w}
<1>1. <<v>> \in Seq(S) /\ <<v, w>> \in Seq(S)
  OBVIOUS
<1>2. Append(<<v>>, w) \in Seq(S) /\ Len(Append(<<v>>, w)) = 2
  BY <1>1
<1>3. Append(<<v>>, w)[1] = v /\ Append(<<v>>, w)[2] = w
  BY <1>1
<1>4. Len(<<v, w>>) = 2 /\ <<v, w>>[1] = v /\ <<v, w>>[2] = w
  OBVIOUS
<1>5. \A i \in 1 .. 2 : Append(<<v>>, w)[i] = <<v, w>>[i]
  BY <1>3, <1>4
<1> QED
  BY <1>1, <1>2, <1>4, <1>5, SeqEqual

\* The method of the next request.
LEMMA MethodOf ==
  /\ vals = <<>> => Method = Asks[tool]
  /\ \A v : vals = <<v>> /\ tool = "dev_load_context" => Method = "search"
  /\ \A v : vals = <<v>> /\ tool = "insight_ground" => Method = "ground"
<1>1. vals = <<>> => Method = Requests(tool)[1]
  BY DEF Method
<1>2. tool \in DOMAIN Then => tool = "dev_load_context" \/ tool = "insight_ground"
  BY RequestsOf
<1>3. Requests(tool)[1] = Asks[tool]
  BY <1>2, RequestsOf
<1>4. ASSUME NEW v, vals = <<v>> PROVE Method = Requests(tool)[2]
  <2>1. Len(vals) + 1 = 2
    BY <1>4
  <2> QED
    BY <2>1 DEF Method
<1> QED
  BY <1>1, <1>3, <1>4, RequestsOf

\* A method without a route hands back the same to every tool.
LEMMA UnservedValue == \A m \in LocalOnly : \A r : Value(m, r) = "unsupported"
BY DEF Value, LocalOnly, local_only

LEMMA ServedNotLocal == \A m \in {"search", "get"} : m \notin LocalOnly
BY DEF LocalOnly

\* A first request that found something has not failed.
LEMMA FirstFound ==
  ASSUME NEW t \in DOMAIN Then, NEW a \in OutcomesOf(t),
         Value(Asks[t], Request(Asks[t], a)) \notin Raised \cup {"nothing"}
  PROVE  /\ a \notin Faults \cup {"held"}
         /\ t = "dev_load_context" => Value(Asks[t], Request(Asks[t], a)) \in {"value", "empty"}
<1>1. CASE t = "dev_load_context"
  <2>1. Asks[t] = "search"
    BY <1>1, RequestsOf
  <2>2. \A r : Value("search", r) = search(r)
    BY DEF Value, LocalOnly
  <2> QED
    BY <1>1, <2>1, <2>2, RequestOf
    DEF OutcomesOf, BodiesOf, search, Raise, Raised, Errors, Faults, Lost, Unsent, Refusals
<1>2. CASE t = "insight_ground"
  <2>1. Asks[t] = "get"
    BY <1>2, RequestsOf
  <2>2. \A r : Value("get", r) = get(r)
    BY DEF Value, LocalOnly
  <2> QED
    BY <1>2, <2>1, <2>2, RequestOf
    DEF OutcomesOf, BodiesOf, get, Raise, Raised, Errors, Faults, Lost, Unsent, Refusals
<1> QED
  BY <1>1, <1>2, RequestsOf

\* The second search told after the first, and grounding that is not offered.
LEMMA SaidOfTwo ==
  /\ \A v, w : w \notin Raised => Said("dev_load_context", <<v, w>>) \in {"empty", "shown"}
  /\ \A v, w : w \in Raised \ {"unsupported"} =>
       Said("dev_load_context", <<v, w>>) \in {"failed", "unreachable", "unconfirmed"}
  /\ \A v : Said("insight_ground", <<v, "unsupported">>) = "unsupported"
<1>1. \A v, w : <<v, w>>[Len(<<v, w>>)] = w
  OBVIOUS
<1>2. \A v, w : w \notin Raised => Said("dev_load_context", <<v, w>>) = dev_load_context(<<v, w>>)
  BY <1>1 DEF Said
<1>3. \A vs : dev_load_context(vs) \in {"empty", "shown"}
  BY DEF dev_load_context
<1>4. \A t, v, w : w \in Raised => Said(t, <<v, w>>) = Excepted(t, w)
  BY <1>1 DEF Said
<1> QED
  BY <1>2, <1>3, <1>4 DEF Excepted, graceful, Raised

LEMMA ReplyAfterOne ==
  ASSUME tool \in Tools, AfterOne, reply' = Said(tool, vals), UNCHANGED <<tool, vals, answer, applied, target>>
  PROVE  ReplyOK'
<1>1. tool \in DOMAIN Asks /\ answer \in OutcomesOf(tool) /\ (answer \in Faults => answer \in Occurring)
  <2>1. \A m : BodiesOf(m) \cap Faults = {}
    BY DEF BodiesOf, Faults, Lost, Unsent, Refusals
  <2> QED
    BY <2>1, ToolsAssumption, FaultsAssumption DEF AfterOne, OutcomesOf
<1>2. OutcomeOK(tool, answer)
  BY <1>1, Table DEF AfterOne
<1>3. reply' = Outcome(tool, answer) /\ vals[Len(vals)] = Value(Asks[tool], Request(Asks[tool], answer))
  BY DEF AfterOne, Outcome
<1> QED
  BY <1>1, <1>2, <1>3 DEF OutcomeOK, FaultTold, AfterOne, ReplyOK

LEMMA ReplyNotServed ==
  ASSUME NotServed, reply' = Said(tool, vals), UNCHANGED <<tool, vals, answer, applied, target>>
  PROVE  ReplyOK'
<1>1. tool \notin {"evolution_status", "memory_search"}
  BY DEF NotServed, LocalOnly, Asks
<1>2. Said(tool, <<"unsupported">>) = "unsupported"
  BY <1>1 DEF Said, Raised, Excepted, graceful
<1> QED
  BY <1>2 DEF NotServed, ReplyOK, Faults, Lost, Unsent, Refusals

LEMMA ReplyAfterTwo ==
  ASSUME AfterTwo, reply' = Said(tool, vals), UNCHANGED <<tool, vals, answer, applied, target>>
  PROVE  ReplyOK'
<1>1. CASE tool = "insight_ground"
  <2>1. reply' = "unsupported" /\ answer \notin Faults \cup {"held"}
    BY <1>1, SaidOfTwo DEF AfterTwo
  <2> QED
    BY <1>1, <2>1 DEF ReplyOK, Lost, Faults
<1>2. CASE tool = "dev_load_context"
  <2>1. PICK v \in {"value", "empty"} : vals = <<v, search(Request("search", answer))>>
    BY <1>2 DEF AfterTwo
  <2>2. answer \in Occurring \cup {"rows", "norows", "odd"} /\ Occurring \subseteq Faults
    BY <1>2, FaultsAssumption DEF AfterTwo, BodiesOf
  <2>3. /\ answer \in Faults => search(Request("search", answer)) \in Raised \ {"unsupported"}
        /\ answer \notin Faults => search(Request("search", answer)) \notin Raised
    BY <2>2, RequestOf DEF search, Raise, Raised, Errors, Faults, Lost, Unsent, Refusals
  <2>4. /\ answer \in Faults => reply' \in {"failed", "unreachable", "unconfirmed"}
        /\ answer \notin Faults => reply' \in {"empty", "shown"}
    BY <1>2, <2>1, <2>3, SaidOfTwo
  <2>5. tool \notin Adders \cup WriteTools
    BY <1>2 DEF Adders, WriteTools, ChangingDecisions
  <2>6. answer # "held" /\ (answer \in Faults => answer \in Occurring)
    BY <2>2 DEF Faults, Lost, Unsent, Refusals
  <2>7. reply' \notin {"done", "held"}
    BY <2>4
  <2> QED
    BY <2>4, <2>5, <2>6, <2>7 DEF ReplyOK
<1> QED
  BY <1>1, <1>2 DEF AfterTwo

\* What the service answers, and what it answered, to either request of a call.
LEMMA ServeStep ==
  ASSUME TypeOK, CallInv, NEW a, Serve(a)
  PROVE  CallInv'
<1>1. /\ at = "sent" /\ at' = "answered" /\ tool \in Tools /\ tool' = tool /\ answer' = a
      /\ vals' = Append(vals, Value(Method, Request(Method, a))) /\ Method \notin LocalOnly
      /\ a \in Outcomes(Method) /\ applied' \in MayApply(Method, a)
  BY DEF Serve, CallInv
<1>2. a \in Occurring \cup BodiesOf(Method)
  BY <1>1 DEF Outcomes
<1>3. CASE NothingYet
  <2>1. Method = Asks[tool]
    BY <1>3, MethodOf DEF NothingYet
  <2>2. vals' = <<Value(Asks[tool], Request(Asks[tool], a))>>
    BY <1>1, <1>3, <2>1 DEF NothingYet
  <2>3. Routed = NoWs => a \in Faults
    BY <1>1, FaultsAssumption DEF Outcomes, Faults, Lost, Unsent, Refusals
  <2>4. Asks[tool] \in Writes /\ a \in {"rows", "none"} => applied'
    BY <1>1, <2>1, <2>3 DEF MayApply, Faults, Lost, Unsent, Refusals
  <2>5. Asks[tool] \in Posts /\ a \notin Faults => target' # "none"
    <3>1. PICK echo : target' = Noted(Method, a, echo)
      BY DEF Serve
    <3>2. Routed # "none" /\ hdr # "none"
      BY WorkspacesAssumption DEF TypeOK, Routed, Workspaces
    <3> QED
      BY <2>1, <3>1, <3>2 DEF Noted, Erring
  <2> QED
    BY <1>1, <1>2, <2>1, <2>2, <2>4, <2>5 DEF AfterOne, CallInv
<1>4. CASE Halfway
  <2>1. PICK v : vals = <<v>> /\ (tool = "dev_load_context" => v \in {"value", "empty"})
    BY <1>4 DEF Halfway
  <2>2. tool = "dev_load_context" /\ Method = "search"
    BY <1>1, <1>4, <2>1, MethodOf, RequestsOf DEF Halfway, LocalOnly
  <2>3. \A r : Value("search", r) = search(r)
    BY DEF Value, LocalOnly
  <2>4. vals' = <<v, search(Request("search", a))>>
    BY <1>1, <2>1, <2>2, <2>3, AppendToOne
  <2> QED
    BY <1>1, <1>2, <2>1, <2>2, <2>4 DEF AfterTwo, CallInv
<1> QED
  BY <1>1, <1>3, <1>4 DEF CallInv

LEMMA NotOfferedStep ==
  ASSUME CallInv, NotOffered
  PROVE  CallInv'
<1>1. /\ at = "send" /\ at' = "answered" /\ tool \in Tools /\ tool' = tool /\ answer' = answer
      /\ vals' = Append(vals, "unsupported") /\ Method \in LocalOnly
  BY UnservedValue DEF NotOffered, CallInv
<1>2. CASE NothingYet
  <2>1. Method = Asks[tool] /\ vals' = <<"unsupported">>
    BY <1>1, <1>2, MethodOf DEF NothingYet
  <2> QED
    BY <1>1, <1>2, <2>1 DEF NothingYet, NotServed, CallInv
<1>3. CASE Halfway
  <2>1. PICK v : vals = <<v>>
    BY <1>3 DEF Halfway
  <2>2. tool = "insight_ground"
    BY <1>1, <1>3, <2>1, MethodOf, RequestsOf, ServedNotLocal DEF Halfway
  <2>3. vals' = <<v, "unsupported">>
    BY <1>1, <2>1, AppendToOne
  <2> QED
    BY <1>1, <1>3, <2>2, <2>3 DEF Halfway, AfterTwo, CallInv
<1> QED
  BY <1>1, <1>2, <1>3 DEF CallInv

\* A tool goes on only after the first of two requests, which found something.
LEMMA GoOnStep ==
  ASSUME CallInv, GoOn
  PROVE  CallInv'
<1>1. /\ at = "answered" /\ at' = "send" /\ tool \in Tools /\ tool' = tool /\ vals' = vals
      /\ answer' = answer /\ Continues
  BY DEF GoOn, CallInv
<1>2. CASE AfterOne
  <2>1. vals[Len(vals)] = Value(Asks[tool], Request(Asks[tool], answer)) /\ Len(vals) = 1
    BY <1>2 DEF AfterOne
  <2>2. tool \in DOMAIN Then
    BY <1>1, <2>1, RequestsOf DEF Continues
  <2>3. answer \in OutcomesOf(tool)
    BY <1>2, FaultsAssumption DEF AfterOne, OutcomesOf
  <2>4. /\ answer \notin Faults \cup {"held"}
        /\ Value(Asks[tool], Request(Asks[tool], answer)) \notin Raised \cup {"nothing"}
        /\ tool = "dev_load_context" =>
             Value(Asks[tool], Request(Asks[tool], answer)) \in {"value", "empty"}
    BY <1>1, <2>1, <2>2, <2>3, FirstFound DEF Continues
  <2> QED
    BY <1>1, <1>2, <2>2, <2>4 DEF AfterOne, Halfway, CallInv
<1>3. CASE NotServed
  BY <1>1, <1>3 DEF NotServed, Continues, Raised
<1>4. CASE AfterTwo
  BY <1>1, <1>4, RequestsOf DEF AfterTwo, Continues
<1> QED
  BY <1>1, <1>2, <1>3, <1>4 DEF CallInv

\* A line names something where something was noted.
LEMMA AddLineStep ==
  ASSUME TypeOK, CallInv, AddLine
  PROVE  CallInv'
<1>1. /\ at = "replied" /\ at' = "done" /\ tool \in Tools /\ ReplyOK
      /\ UNCHANGED <<tool, vals, answer, applied, target, reply>>
  BY DEF AddLine, CallInv
<1>2. tool \in WriteTools \ Unheeding /\ reply \in {"done", "held"} => line' # "none"
  <2>1. lever # "none" /\ NoWs # "none"
    BY WorkspacesAssumption DEF TypeOK
  <2> QED
    BY <1>1, <2>1 DEF AddLine, ReplyOK, Named
<1>3. ReplyOK'
  BY <1>1 DEF ReplyOK
<1>4. AfterOne' <=> AfterOne
  BY <1>1 DEF AfterOne
<1>5. (NotServed' <=> NotServed) /\ (AfterTwo' <=> AfterTwo)
  BY <1>1 DEF NotServed, AfterTwo
<1> QED
  BY <1>1, <1>2, <1>3, <1>4, <1>5 DEF CallInv
LEMMA CallInvStep ==
  ASSUME TypeOK, CallInv, [Next]_vars
  PROVE  CallInv'
<1>1. CASE \E t \in Tools, w \in Picks \cup {NoWs} : Call(t, w)
  BY <1>1 DEF Call, CallInv, NothingYet
<1>2. CASE \/ Send
           \/ (\E w \in Picks : Switch(w)) \/ (\E w \in Workspaces \cup {NoWs} : MoveLever(w))
           \/ UNCHANGED vars
  <2>1. UNCHANGED <<tool, vals, answer, applied, target, reply, line>>
    BY <1>2 DEF Send, Switch, MoveLever, call, vars
  <2>2. at' = at \/ (at = "send" /\ at' = "sent" /\ Method \notin LocalOnly)
    BY <1>2 DEF Send, Switch, MoveLever, call, vars
  <2>3. (NothingYet' <=> NothingYet) /\ (Halfway' <=> Halfway)
    BY <2>1 DEF NothingYet, Halfway
  <2>4. (AfterOne' <=> AfterOne) /\ (NotServed' <=> NotServed) /\ (AfterTwo' <=> AfterTwo)
    BY <2>1 DEF AfterOne, NotServed, AfterTwo
  <2>5. (ReplyOK' <=> ReplyOK) /\ Method' = Method
    BY <2>1 DEF ReplyOK, Method
  <2> QED
    BY <2>1, <2>2, <2>3, <2>4, <2>5 DEF CallInv
<1>3. ASSUME NEW a, Serve(a) PROVE CallInv'
  BY <1>3, ServeStep
<1>4. CASE Reply
  <2>1. /\ at = "answered" /\ at' = "replied" /\ tool \in Tools /\ reply' = Said(tool, vals)
        /\ UNCHANGED <<tool, vals, answer, applied, target>>
    BY <1>4 DEF Reply, CallInv
  <2>2. ReplyOK'
    BY <2>1, ReplyAfterOne, ReplyNotServed, ReplyAfterTwo DEF CallInv
  <2>3. AfterOne' <=> AfterOne
    BY <2>1 DEF AfterOne
  <2>4. (NotServed' <=> NotServed) /\ (AfterTwo' <=> AfterTwo)
    BY <2>1 DEF NotServed, AfterTwo
  <2> QED
    BY <2>1, <2>2, <2>3, <2>4 DEF CallInv
<1>5. CASE End
  BY <1>5 DEF End, CallInv, NothingYet
<1> QED
  BY <1>1, <1>2, <1>3, <1>4, <1>5, NotOfferedStep, GoOnStep, AddLineStep DEF Next

LEMMA CallInvHolds == Spec => []CallInv
<1>1. Init => CallInv
  BY DEF Init, CallInv, NothingYet
<1>2. TypeOK /\ CallInv /\ [Next]_vars => CallInv'
  BY CallInvStep
<1> QED
  BY <1>1, <1>2, CallTypeCorrect, PTL DEF Spec

\* remote.py's error policy, for every tool but the four that do not look and for every
\* fault but one whose text merely cites "404": a fault of the request is told as a fault,
\* or, where it is a 404, as absence.
THEOREM OutagesAreTold ==
  Tools \cap Unheeding = {} /\ "cites404" \notin Occurring => (Spec => []OutageIsTold)
<1> SUFFICES ASSUME Tools \cap Unheeding = {}, "cites404" \notin Occurring
             PROVE  Spec => []OutageIsTold
  OBVIOUS
<1>1. CallInv => OutageIsTold
  BY DEF CallInv, ReplyOK, OutageIsTold, Answered
<1> QED
  BY <1>1, CallInvHolds, PTL

\* Every tool but those four acknowledges only what the service did in this call, whatever
\* faults occur.
THEOREM OnlyDoneIsAcknowledged == Tools \cap Unheeding = {} => (Spec => []AcknowledgedWasDone)
<1> SUFFICES ASSUME Tools \cap Unheeding = {} PROVE Spec => []AcknowledgedWasDone
  OBVIOUS
<1>1. CallInv => AcknowledgedWasDone
  BY DEF CallInv, ReplyOK, AcknowledgedWasDone, Answered
<1> QED
  BY <1>1, CallInvHolds, PTL

\* Every tool tells a receipt of a held memory as held, whatever faults occur.
THEOREM HeldIsNeverStored == Spec => []HeldIsTold
<1>1. CallInv => HeldIsTold
  BY DEF CallInv, ReplyOK, HeldIsTold, Answered
<1> QED
  BY <1>1, CallInvHolds, PTL

\* Every tool over add() tells an add whose receipt was lost as unconfirmed.
THEOREM LostAddsAreUnconfirmed == Spec => []LostAddIsUnconfirmed
<1>1. CallInv => LostAddIsUnconfirmed
  BY DEF CallInv, ReplyOK, LostAddIsUnconfirmed, Answered
<1> QED
  BY <1>1, CallInvHolds, PTL

\* Every write that such a tool acknowledges ends with the line that names its workspace.
THEOREM WritesAreNamed == Tools \cap Unheeding = {} => (Spec => []AcknowledgedIsNamed)
<1> SUFFICES ASSUME Tools \cap Unheeding = {} PROVE Spec => []AcknowledgedIsNamed
  OBVIOUS
<1>1. CallInv => AcknowledgedIsNamed
  BY DEF CallInv, AcknowledgedIsNamed
<1> QED
  BY <1>1, CallInvHolds, PTL
=============================================================================
