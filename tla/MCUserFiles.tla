---------------------------- MODULE MCUserFiles ----------------------------
(***************************************************************************)
(* Instances for TLC of what the processes of one user keep in files: the  *)
(* protected key file of Windows (CredentialStore), the key that login     *)
(* leaves for the next server (Login), and the session file of the hooks   *)
(* (SessionFile).  They share no state here, so each is explored with the  *)
(* others at rest.                                                         *)
(***************************************************************************)
EXTENDS CredentialStore, Login, SessionFile, TLC

CONSTANTS p1, p2, k1, k2, a1, a2
Alike == Permutations({p1, p2}) \cup Permutations({k1, k2}) \cup Permutations({a1, a2})

VARIABLE file

FilesInit ==
  /\ Init /\ LoginInit /\ SessionFileInit
  /\ file \in {"credentials", "login", "session"}
  /\ file # "credentials" => canon = NoFile /\ legacy = NoFile
  /\ file # "login" =>
       /\ env = Nothing /\ ring = Nothing /\ keyFile = Nothing /\ app = Nothing /\ accepted = {}
       /\ ~windows /\ ~full /\ ~wrapped /\ ringUp
  /\ file # "session" => session = Absent /\ ~win32

FilesNext ==
  \/ file = "credentials" /\ Next /\ UNCHANGED <<file, loginVars, sessionVars>>
  \/ file = "login" /\ LoginNext /\ UNCHANGED <<file, vars, sessionVars>>
  \/ file = "session" /\ SessionFileNext /\ UNCHANGED <<file, vars, loginVars>>

FilesSpec == FilesInit /\ [][FilesNext]_<<file, vars, loginVars, sessionVars>>
=============================================================================
