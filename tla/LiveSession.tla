---------------------------- MODULE LiveSession ----------------------------
(***************************************************************************)
(* What the stdio process promises about its one live session: which       *)
(* backend the next tool call uses and, on a remote backend, which         *)
(* workspace it names.  A switch moves the session and nothing else does,  *)
(* except a migration, which leaves (or arrives), then either settles or   *)
(* turns back to where the session was, with the latest pick made before   *)
(* it left.  Rebuilds and caches do not appear.                            *)
(***************************************************************************)
CONSTANTS
  Workspaces,  \* the workspaces a switch may select
  Picks,       \* every value a pick may have
  NoWs,        \* no pick: the service decides
  Unbuilt      \* the backend is built on first use, its pick not yet read

VARIABLES
  session,  \* the backend the next call uses: its kind and its pick
  trip,     \* the migration under way: where to, and the pick it left
  parked    \* the pick the next arrival returns to

vars == <<session, trip, parked>>

At(k, p) == [kind |-> k, pick |-> p]
AtHome == [to |-> "none", left |-> NoWs]
Returning(p) == At("remote", IF p = NoWs THEN Unbuilt ELSE p)

Init ==
  /\ session \in {At("local", Unbuilt), At("remote", Unbuilt)}
  /\ trip = AtHome /\ parked = NoWs

\* The first call after a rebuild that carried nothing builds the backend.
FirstUse ==
  /\ session.pick = Unbuilt
  /\ \E p \in Picks : /\ session' = [session EXCEPT !.pick = p]
                      /\ session.kind = "local" => p = NoWs
  /\ UNCHANGED <<trip, parked>>

Switch ==
  /\ session.kind = "remote" /\ session.pick # Unbuilt
  /\ \E w \in Workspaces : session' = At("remote", w)
  /\ UNCHANGED <<trip, parked>>

Leave ==
  /\ trip = AtHome /\ session.kind = "remote" /\ session.pick # Unbuilt
  /\ session' = At("local", Unbuilt)
  /\ trip' = [to |-> "local", left |-> session.pick]
  /\ UNCHANGED parked

Arrive ==
  /\ trip = AtHome /\ session.kind = "local"
  /\ session' = Returning(parked)
  /\ trip' = [to |-> "remote", left |-> NoWs]
  /\ UNCHANGED parked

\* The migration is complete: a departure parks a pick, an arrival forgets it.
Settle ==
  /\ trip # AtHome /\ trip' = AtHome
  /\ parked' \in (IF trip.to = "local" THEN Picks ELSE {NoWs})
  /\ UNCHANGED session

\* The migration failed: back to the source, with the pick it had on leaving.
TurnBack ==
  /\ trip # AtHome /\ trip' = AtHome
  /\ session' = IF trip.to = "local" THEN Returning(trip.left) ELSE At("local", Unbuilt)
  /\ UNCHANGED parked

\* The migration failed and the config could not be written back: the process
\* stays on the target.
Strand == trip # AtHome /\ trip' = AtHome /\ UNCHANGED <<session, parked>>

Next == FirstUse \/ Switch \/ Leave \/ Arrive \/ Settle \/ TurnBack \/ Strand
Spec == Init /\ [][Next]_vars
=============================================================================
