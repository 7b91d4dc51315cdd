--------------------------- MODULE RemoteMethods ---------------------------
(***************************************************************************)
(* What each method of backends/remote.py hands to a tool for each outcome *)
(* of its one request.  An outcome is a body of a successful answer        *)
(*   rows    what the route promises       norows  "there is nothing"      *)
(*   held    a receipt with status "held"  odd     a promised field absent *)
(*   none    204, no body                                                  *)
(* or a fault.  A value is "value", "held", "odd", an answer that says no  *)
(* ("nothing", "empty", "false"), an error handed back as a dictionary     *)
(* ("error"), or an exception.                                             *)
(***************************************************************************)
EXTENDS Naturals, Sequences

Lost == {"timedout", "broken"}       \* the connection ended before a receipt came
Unsent == {"slow", "unreachable"}    \* no connection was made
Refusals == {"404", "cites404", "refused", "nopick"}  \* cites404: "404" only in the text
\* garbled: no JSON, with a status of success; redirect: a 3xx, which is not followed.
Faults == Lost \cup Unsent \cup Refusals \cup {"garbled", "redirect"}

\* Mutant of Request: a lost receipt of an add is a failed request, like any other.
MRequest(method, a) ==
  CASE a \notin Faults -> a
    [] a = "404" -> "error_404"
    [] a = "cites404" -> "error_citing_404"
    [] a \in {"timedout", "slow"} -> "error_timed_out"
    [] OTHER -> "error"

\* What _request() returns: the body, an error dictionary told apart by what
\* its text says, or WriteOutcomeUnknown for an add whose receipt is lost.
Request(method, a) ==
  IF a \in Lost /\ method = "add" THEN "unknown" ELSE
  CASE a \notin Faults -> a
    [] a = "404" -> "error_404"
    [] a = "cites404" -> "error_citing_404"
    [] a \in {"timedout", "slow"} -> "error_timed_out"
    [] OTHER -> "error"

Errors == {"error_404", "error_citing_404", "error_timed_out", "error", "unknown"}

\* RuntimeError(err); an unknown outcome was raised before the method saw it.
Raise(r) ==
  CASE r = "unknown" -> "raised_unknown"
    [] r = "error_timed_out" -> "raised_timed_out"
    [] OTHER -> "raised"
Raised == {"raised_unknown", "raised_timed_out", "raised", "unsupported"}

Told(r) == IF r \in Errors THEN "error" ELSE IF r = "none" THEN "nothing" ELSE "value"

add(r) ==
  CASE r \in Errors -> Raise(r)
    [] r = "held" -> "held"
    [] r = "rows" -> "value"
    [] OTHER -> "raised"                 \* a receipt without an item id

get(r) ==
  IF r \in {"none", "error_404", "error_citing_404"} THEN "nothing"
  ELSE IF r \in Errors THEN Raise(r) ELSE "value"

explain(r) == get(r)

update(r) == Told(r)

supersede(r) == IF r \in Errors THEN Raise(r) ELSE "value"

delete(r) == IF r \in Errors THEN "false" ELSE "value"

ask(r) == IF r \in Errors THEN Raise(r) ELSE "value"

recall_pack(r) == Told(r)
policy_bundle(r) == Told(r)
read_around(r) == Told(r)
submit_feedback(r) == Told(r)
clear_user_memories(r) == Told(r)

\* search() sends its own request; an envelope without "results" is no result.
search(r) ==
  CASE r \in Errors -> Raise(r)
    [] r = "rows" -> "value"
    [] OTHER -> "empty"

search_by_metadata(r) == search(r)

\* recall() is a search whose rows may all fall to the confidence floor.
recall(r) == search(r)

ingest(r) == IF r = "held" THEN "held" ELSE Told(r)
ingest_conversation_sync(r) == IF r = "held" THEN "held" ELSE Told(r)

ingest_document(r) ==
  CASE r \in Errors -> Raise(r)
    [] r = "rows" -> "value"
    [] OTHER -> "odd"

stats(r) ==
  CASE r \in Errors -> Raise(r)
    [] r = "none" -> "raised"
    [] r = "odd" -> "odd"
    [] OTHER -> "value"

list_memories(r) ==
  CASE r \in Errors -> Raise(r)
    [] r = "rows" -> "value"
    [] r = "norows" -> "empty"
    [] OTHER -> "raised"

\* A bundle is published only by an answer that says "replaced".
ingest_code(r) ==
  IF r = "rows" THEN "value" ELSE "error"

\* Methods the hosted service does not have raise NotImplementedError.
local_only(r) == "unsupported"

\* request(), for tools that call a route themselves.
request(r) ==
  CASE r \in Errors -> "error"
    [] r = "none" -> "nothing"
    [] r = "norows" -> "empty"
    [] r = "odd" -> "odd"
    [] OTHER -> "value"

-----------------------------------------------------------------------------
\* Mutant of DecisionRequest: a failure is read as a missing decision everywhere.
MDecisionRequest(r, noneOn404) ==
  CASE r \in Errors /\ noneOn404 -> "nothing"
    [] r \in Errors /\ ~noneOn404 -> Raise(r)
    [] r = "none" -> "raised"
    [] r = "norows" -> "empty"
    [] OTHER -> "value"

\* _decision_request(): 404 is absence only where the route addresses a decision.
DecisionRequest(r, noneOn404) ==
  CASE r = "error_404" /\ noneOn404 -> "nothing"
    [] r \in Errors /\ ~(r = "error_404" /\ noneOn404) -> Raise(r)
    [] r = "none" -> "raised"
    [] r = "norows" -> "empty"
    [] OTHER -> "value"

decision_create(r) == DecisionRequest(r, FALSE)
decision_get(r) == DecisionRequest(r, TRUE)
decision_list(r) == DecisionRequest(r, FALSE)
decision_search(r) == DecisionRequest(r, FALSE)
decision_supersede(r) == DecisionRequest(r, TRUE)
decision_retract(r) == DecisionRequest(r, TRUE)
decision_reinforce(r) == DecisionRequest(r, TRUE)
decision_contradict(r) == DecisionRequest(r, TRUE)
decision_provenance(r) == DecisionRequest(r, TRUE)
decision_find_conflicts(r) == DecisionRequest(r, TRUE)
decision_create_pending(r) == DecisionRequest(r, FALSE)

\* Not resolved, and no such requirement, are both "false".
decision_resolve_requirement(r) ==
  LET v == DecisionRequest(r, TRUE) IN IF v \in {"nothing", "empty"} THEN "false" ELSE v

decision_try_activate(r) ==
  LET v == DecisionRequest(r, FALSE) IN IF v = "empty" THEN "false" ELSE v
=============================================================================
