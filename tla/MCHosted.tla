------------------------------ MODULE MCHosted ------------------------------
(***************************************************************************)
(* One hosted server for TLC: its calls (HostedSessionHistory) and the two *)
(* ways in, requests without authorization against their budgets           *)
(* (RateLimit) and requests with a key (KeyVerifier).  The three share no  *)
(* state here, so each is explored with the others at rest.                *)
(***************************************************************************)
EXTENDS MCHostedSessionHistory, RateLimit, KeyVerifier

CONSTANTS p1, p2
TwoPaths == {"register", "mcp"}
Limits == [p \in Paths |-> 1]
Windows == [p \in Paths |-> IF p = "mcp" THEN 4 ELSE 2]

VARIABLE part

ServerInit ==
  /\ HInit /\ RateInit /\ VerifierInit
  /\ part \in {"calls", "budgets", "keys"}
  /\ part # "keys" => valid = {}

ServerNext ==
  \/ part = "calls" /\ HNext /\ UNCHANGED <<part, rateVars, verifierVars>>
  \/ part = "budgets" /\ RateNext /\ UNCHANGED <<part, hvars, verifierVars>>
  \/ part = "keys" /\ VerifierNext /\ UNCHANGED <<part, hvars, rateVars>>

ServerSpec == ServerInit /\ [][ServerNext]_<<part, hvars, rateVars, verifierVars>>
=============================================================================
