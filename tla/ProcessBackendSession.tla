----------------------- MODULE ProcessBackendSession -----------------------
(***************************************************************************)
(* The caches, the lock and the rebuilds of ProcessBackend implement the   *)
(* one live session of LiveSession, when the client does not overlap two   *)
(* migrations and a build does not raise.                                  *)
(***************************************************************************)
EXTENDS ProcessBackend

CONSTANT Unbuilt  \* no pick yet: nothing is built

ASSUME UnbuiltAssumption == Unbuilt \notin Picks

\* What the next call gets from get_backend().
Session ==
  IF Obj <= Len(heap) THEN heap[Obj] ELSE [kind |-> env, pick |-> Unbuilt]

Travelling(c) ==
  pc[c] \in {"m_target", "m_import", "m_finish", "r_save", "r_drop", "r_build", "r_reset"}

\* The migration past its forward rebuild; nothing writes the backend it left.
Trip ==
  IF \A c \in Migrators : ~Travelling(c) THEN [to |-> "none", left |-> NoWs]
  ELSE LET c == CHOOSE d \in Migrators : Travelling(d)
       IN [to |-> arg[c], left |-> IF arg[c] = "local" THEN heap[src[c]].pick ELSE NoWs]

Live == INSTANCE LiveSession WITH session <- Session, trip <- Trip

\* dispatch.rebuild_lock, commit_if_current and revert(): every step of the
\* caches is a step of the one live session or invisible to it.  A switch that
\* replies "Switched" moved the live session, never an orphan, and a failed
\* migration brings back the latest pick.
RefinesSession == Live!Spec
=============================================================================
