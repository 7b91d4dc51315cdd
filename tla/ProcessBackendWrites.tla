------------------------ MODULE ProcessBackendWrites ------------------------
(***************************************************************************)
(* ProcessBackend with a history variable: the sessions that were live     *)
(* while each write ran.                                                   *)
(***************************************************************************)
EXTENDS ProcessBackendSession

VARIABLE seen  \* per writer, the live sessions since its call began

hvars == <<vars, seen>>

HInit == Init /\ seen = [c \in Writers |-> {}]
HNext ==
  /\ Next
  /\ seen' = [c \in Writers |->
                IF Running(c)' THEN seen[c] \cup {Session, Session'} ELSE seen[c]]
HSpec == HInit /\ [][HNext]_hvars

\* get_backend() and commit_if_current(): a write never reaches a store that
\* was at no moment of its call the live session's.
WriteLandsInSession ==
  \A c \in Writers : landed[c] # NoStore => landed[c] \in seen[c]
=============================================================================
