---------------------------- MODULE SessionFile ----------------------------
(***************************************************************************)
(* memory_auto() and the session file it shares with the hooks of the      *)
(* client (tools/lifecycle_tools.py): the file is read, the settings of    *)
(* the call are put into it and it is published through a temporary file,  *)
(* by any number of calls at once, while hooks (external) rewrite it and,  *)
(* on Windows, keep it from being replaced while they have it open.        *)
(***************************************************************************)
EXTENDS Naturals

CONSTANTS
  Autos,        \* calls that may overlap; the settings of each are its own
  Hooked,       \* what the hooks keep in the file
  NoSettings, NoTemp, Absent, Corrupt

Contents == [kept : Hooked \cup {NoSettings}, overrides : Autos \cup {NoSettings}]

ASSUME SessionFileAssumption ==
  NoSettings \notin Autos /\ Absent # Corrupt /\ Absent \notin Contents /\ Corrupt \notin Contents

VARIABLES
  win32,      \* sys.platform
  session,    \* the session file: Contents, Absent or Corrupt
  opened,     \* a hook has it open
  temps,      \* the temporary file of each call
  stage,      \* where each call is
  tries,      \* how often each was refused by an open file
  autoReply,
  published,  \* history: the call has replaced the file
  behind      \* history: the calls that have not read the file since its last write

callVars == <<temps, stage, tries, autoReply, published, behind>>
sessionVars == <<win32, session, opened, callVars>>

OnDisk == Contents \cup {Absent, Corrupt}
Move(c, there) == stage' = [stage EXCEPT ![c] = there]

SessionFileInit ==
  /\ win32 \in BOOLEAN /\ session \in {Absent, Corrupt} \cup [kept : Hooked, overrides : {NoSettings}]
  /\ opened = FALSE
  /\ temps = [c \in Autos |-> NoTemp] /\ stage = [c \in Autos |-> "idle"]
  /\ tries = [c \in Autos |-> 0] /\ autoReply = [c \in Autos |-> "none"]
  /\ published = [c \in Autos |-> FALSE] /\ behind = {}

\* memory_auto(): without a session id, or with one of no usable character, it ends.
Configure(c, named) ==
  /\ stage[c] = "idle"
  /\ IF named THEN Move(c, "read") /\ UNCHANGED autoReply
     ELSE Move(c, "answered") /\ autoReply' = [autoReply EXCEPT ![c] = "not_saved"]
  /\ UNCHANGED <<win32, session, opened, temps, tries, published, behind>>

\* The finally clause and the reply: OSError from unlink() passes memory_auto() by.
EndWrite(c, said) ==
  /\ Move(c, "answered")
  /\ \/ temps' = [temps EXCEPT ![c] = NoTemp] /\ autoReply' = [autoReply EXCEPT ![c] = said]
     \/ /\ temps[c] # NoTemp
        /\ autoReply' = [autoReply EXCEPT ![c] = "unreachable"] /\ UNCHANGED temps

\* Mutant of ReadSession: what cannot be read is replaced by a new session.
MReadSession(c) ==
  /\ stage[c] = "read" /\ Move(c, "replace")
  /\ temps' = [temps EXCEPT ![c] =
       [kept |-> IF session \in Contents THEN session.kept ELSE NoSettings, overrides |-> c]]
  /\ behind' = behind \ {c}
  /\ UNCHANGED <<win32, session, opened, tries, autoReply, published>>

\* The file is read, or begun anew, and a temporary file with the settings is filled.
ReadSession(c) ==
  /\ stage[c] = "read" /\ session # Corrupt /\ Move(c, "replace")
  /\ temps' = [temps EXCEPT ![c] =
       [kept |-> IF session = Absent THEN NoSettings ELSE session.kept, overrides |-> c]]
  /\ behind' = behind \ {c}
  /\ UNCHANGED <<win32, session, opened, tries, autoReply, published>>

\* No directory, a file that is no JSON object, or no temporary file.
CannotRead(c) ==
  /\ stage[c] = "read" /\ EndWrite(c, "not_saved")
  /\ UNCHANGED <<win32, session, opened, tries, published, behind>>

\* The temporary file is made and cannot be filled.
CannotFill(c) ==
  /\ stage[c] = "replace" /\ tries[c] = 0 /\ EndWrite(c, "not_saved")
  /\ UNCHANGED <<win32, session, opened, tries, published, behind>>

\* Path.replace() in one step; then there is nothing left to unlink.
Publish(c) ==
  /\ stage[c] = "replace" /\ ~(win32 /\ opened)
  /\ session' = temps[c] /\ published' = [published EXCEPT ![c] = TRUE]
  /\ temps' = [temps EXCEPT ![c] = NoTemp]
  /\ Move(c, "answered") /\ autoReply' = [autoReply EXCEPT ![c] = "saved"]
  /\ behind' = Autos
  /\ UNCHANGED <<win32, opened, tries>>

\* Mutant of Refused: after the third refusal the loop just ends.
MRefused(c) ==
  /\ stage[c] = "replace" /\ win32 /\ opened
  /\ tries' = [tries EXCEPT ![c] = @ + 1]
  /\ IF tries[c] = 2 THEN EndWrite(c, "saved") ELSE UNCHANGED <<temps, stage, autoReply>>
  /\ UNCHANGED <<win32, session, opened, published, behind>>

\* A sharing violation: tried again twice, after a pause, and then raised.
Refused(c) ==
  /\ stage[c] = "replace" /\ win32 /\ opened
  /\ tries' = [tries EXCEPT ![c] = @ + 1]
  /\ IF tries[c] = 2 THEN EndWrite(c, "not_saved") ELSE UNCHANGED <<temps, stage, autoReply>>
  /\ UNCHANGED <<win32, session, opened, published, behind>>

\* Any other error of the replacement is raised at once.
CannotReplace(c) ==
  /\ stage[c] = "replace" /\ EndWrite(c, "not_saved")
  /\ UNCHANGED <<win32, session, opened, tries, published, behind>>

\* A hook opens the file, or closes it.
HookOpens ==
  /\ session # Absent /\ opened' = ~opened
  /\ UNCHANGED <<win32, session, callVars>>

\* A hook writes what it keeps, or is cut off while it writes.
HookWrites ==
  /\ session' \in {Corrupt} \cup
       [kept : Hooked,
        overrides : {IF session \in Contents THEN session.overrides ELSE NoSettings}]
  /\ session' # session
  /\ behind' = Autos
  /\ UNCHANGED <<win32, opened, temps, stage, tries, autoReply, published>>

SessionFileNext ==
  \/ \E c \in Autos :
       \/ \E named \in BOOLEAN : Configure(c, named)
       \/ ReadSession(c) \/ CannotRead(c) \/ CannotFill(c)
       \/ Publish(c) \/ Refused(c) \/ CannotReplace(c)
  \/ HookOpens \/ HookWrites

SessionFileSpec == SessionFileInit /\ [][SessionFileNext]_sessionVars

-----------------------------------------------------------------------------
\* A call says that settings are in force exactly when it put them into the file, and
\* leaves no temporary file unless removing it failed, which is not passed over.
ReplyIsTrue(c) ==
  stage[c] = "answered" =>
    /\ (autoReply[c] = "saved") = published[c]
    /\ temps[c] # NoTemp => autoReply[c] = "unreachable"

\* What hooks keep in the file is lost to a call only if a hook or another call wrote
\* the file after this one had read it; a file that cannot be read is left as it is.
Keeps(c) ==
  published'[c] /\ ~published[c] /\ c \notin behind =>
    /\ session # Corrupt
    /\ session # Absent => session'.kept = session.kept

\* test_lifecycle_tools.py: "does not report success" where nothing was saved, and what
\* was in the session file before is in it after.
SessionFileIsTrue == [][\A c \in Autos : ReplyIsTrue(c)' /\ Keeps(c)]_sessionVars
=============================================================================
