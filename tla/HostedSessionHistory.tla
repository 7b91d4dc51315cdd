------------------------ MODULE HostedSessionHistory ------------------------
(***************************************************************************)
(* HostedSession with history variables: which identities were dropped     *)
(* after a 401 before each call began, and when the identity a call holds  *)
(* was last judged or minted.                                              *)
(***************************************************************************)
EXTENDS HostedSession

VARIABLES
  dropped,  \* per token, the identities a 401 dropped
  barred,   \* per call, dropped for its token when it began
  judged    \* per call, the clock when its identity was judged or minted

hvars == <<vars, dropped, barred, judged>>

HInit ==
  /\ Init
  /\ dropped = [t \in Tokens |-> {}] /\ barred = [c \in Calls |-> {}]
  /\ judged = [c \in Calls |-> 0]

HNext ==
  /\ Next
  /\ dropped' = [t \in Tokens |-> dropped[t] \cup
                   {id[c] : c \in {d \in Calls : At(d, "invalidate") /\ pc'[d] = "idle"
                                                   /\ TokenOf[d] = t}}]
  /\ barred' = [c \in Calls |-> IF At(c, "idle") /\ pc'[c] # "idle"
                                THEN dropped[TokenOf[c]] ELSE barred[c]]
  /\ judged' = [c \in Calls |-> IF pc'[c] # pc[c] /\ pc[c] \in {"judge", "exchange"}
                                THEN clock ELSE judged[c]]
HSpec == HInit /\ [][HNext]_hvars
\* Worker threads and the event loop make progress; clients call again.
HFairSpec == HSpec /\ \A c \in Calls : WF_vars(Step(c)) /\ WF_vars(Start(c))

\* _on_unauthorized: "The client's NEXT call performs a fresh exchange".  A
\* call never runs on an identity that a 401 dropped before the call began.
FreshAfterReject ==
  \A c \in Calls :
    TokenOf[c] \in OAuth /\ pc[c] \notin {"idle", "lookup"} => id[c] \notin barred[c]

\* CACHE_SKEW_SECONDS: a call refused with a 401 held a revoked token, or let
\* more than the skew pass since its token was judged or minted.
SkewSuffices ==
  \A c \in Calls :
    At(c, "invalidate") /\ TokenOf[c] \in OAuth =>
      id[c].epoch # epoch[TokenOf[c]] \/ clock > judged[c] + Skew
=============================================================================
