-------------------------- MODULE CredentialStore --------------------------
(***************************************************************************)
(* The protected API key file that every interpreter of a Windows user     *)
(* shares (windows_credentials.py): a lock file, publication through a     *)
(* restricted temporary file, and the migration of the old MCP key file.   *)
(* Processes read and store at once, any ACL call or write may fail, and a *)
(* process may die between any two steps.  An old MCP version, which knows *)
(* nothing of the lock, may write the old file (external).                 *)
(***************************************************************************)
EXTENDS Naturals

CONSTANTS
  Procs,           \* interpreters, one call each at a time
  Keys, NoKey,
  LegacyOverlaps,  \* whether the old MCP may write while the lock is held
  MaxWrites,       \* bound on the writes that get a time of their own
  NoProc, NoFile

ASSUME StoreAssumption ==
  /\ NoKey \notin Keys /\ NoProc \notin Procs /\ LegacyOverlaps \in BOOLEAN
  /\ MaxWrites \in Nat \ {0} /\ {"none", "stored"} \cap (Keys \cup {NoKey}) = {}

\* A file: its stripped contents, its mtime, and whether only the user has access.
File == [key : Keys \cup {NoKey}, time : 0 .. MaxWrites, guarded : BOOLEAN]

ASSUME NoFileAssumption == NoFile \notin File

VARIABLES
  canon,    \* the key file
  legacy,   \* the old MCP's key file
  holder,   \* who holds the lock file
  now,      \* the time of the last write
  temp,     \* the temporary file of each process
  litter,   \* temporary files of processes that died
  pc,
  want,     \* the key a store was called with; NoKey for a read
  carry,    \* the key being published
  moving,   \* whether it comes from the old file
  answer,   \* what the call returned: a key, NoKey for "", "stored", or "none"
  seen,     \* history: what was stored at some time since the call began
  crossed   \* history: whether a retirement came between a read's two checks

files == <<canon, legacy, temp, litter>>
locals == <<want, carry, moving, answer>>
history == <<seen, crossed>>
vars == <<files, holder, now, pc, locals, history>>

Exists(f) == f # NoFile
LegacyNewer == Exists(legacy) /\ (~Exists(canon) \/ legacy.time > canon.time)

\* The key that is stored: the canonical one, or a newer one of the old MCP.
Stored ==
  IF LegacyNewer /\ legacy.key # NoKey THEN legacy.key
  ELSE IF Exists(canon) THEN canon.key ELSE NoKey

At(p, here) == pc[p] = here
Goto(p, there) == pc' = [pc EXCEPT ![p] = there]
Remember ==
  /\ seen' = [p \in Procs |-> IF At(p, "idle") THEN seen[p] ELSE seen[p] \cup {Stored'}]
  /\ crossed' = crossed \cup {p \in Procs : At(p, "check_legacy") /\ Exists(legacy) /\ ~Exists(legacy')}
Positions == {"idle", "check", "check_legacy", "lock", "compare", "guard", "take", "make",
              "protect", "fill", "replace", "retire", "answer"}
\* Inside the lock.
Inside == Positions \ {"idle", "check", "check_legacy", "lock"}

Forget(p) == carry' = [carry EXCEPT ![p] = NoKey] /\ moving' = [moving EXCEPT ![p] = FALSE]

\* Mutant of Leave: an exception leaves the lock file locked.
LeaveLocked(p) == Goto(p, "idle") /\ Forget(p) /\ UNCHANGED holder

\* The call ends: the lock, if it was taken, is released.
Leave(p) ==
  /\ Goto(p, "idle") /\ Forget(p)
  /\ holder' = IF holder = p THEN NoProc ELSE holder

Init ==
  /\ now = 1 /\ holder = NoProc /\ litter = {}
  /\ canon \in {NoFile} \cup [key : Keys, time : {1}, guarded : {TRUE}]
  /\ legacy \in {NoFile} \cup [key : Keys \cup {NoKey}, time : {0, 1}, guarded : {FALSE}]
  /\ temp = [p \in Procs |-> NoFile] /\ pc = [p \in Procs |-> "idle"]
  /\ want = [p \in Procs |-> NoKey] /\ carry = [p \in Procs |-> NoKey]
  /\ answer = [p \in Procs |-> "none"] /\ moving = [p \in Procs |-> FALSE]
  /\ seen = [p \in Procs |-> {}] /\ crossed = {}

-----------------------------------------------------------------------------
Call(p, k, entry) ==
  /\ At(p, "idle") /\ Goto(p, entry)
  /\ want' = [want EXCEPT ![p] = k] /\ carry' = [carry EXCEPT ![p] = NoKey]
  /\ moving' = [moving EXCEPT ![p] = FALSE] /\ answer' = [answer EXCEPT ![p] = "none"]
  /\ seen' = [seen EXCEPT ![p] = {Stored}] /\ crossed' = crossed \ {p}
  /\ UNCHANGED <<files, holder, now>>

Read(p) == Call(p, NoKey, "check")
Store(p, k) == Call(p, k, "lock")

\* Mutant of Check: a missing key file alone ends the read.
CheckOnly(p) ==
  /\ At(p, "check")
  /\ IF Exists(canon) THEN Goto(p, "lock") /\ UNCHANGED answer
     ELSE Goto(p, "idle") /\ answer' = [answer EXCEPT ![p] = NoKey]
  /\ UNCHANGED <<files, holder, now, want, carry, moving, history>>

\* read_key, before the lock: two questions to the file system.
Check(p) ==
  /\ At(p, "check") /\ Goto(p, IF Exists(canon) THEN "lock" ELSE "check_legacy")
  /\ UNCHANGED <<files, holder, now, locals, history>>

CheckLegacy(p) ==
  /\ At(p, "check_legacy")
  /\ IF Exists(legacy) THEN Goto(p, "lock") /\ UNCHANGED answer
     ELSE Goto(p, "idle") /\ answer' = [answer EXCEPT ![p] = NoKey]
  /\ UNCHANGED <<files, holder, now, want, carry, moving, history>>

\* Mutant of Lock: a read goes past the migration.
LockPast(p) ==
  /\ At(p, "lock") /\ holder = NoProc /\ holder' = p
  /\ Goto(p, IF want[p] = NoKey THEN "answer" ELSE "compare")
  /\ UNCHANGED <<files, now, locals, history>>

\* _locked.
Lock(p) ==
  /\ At(p, "lock") /\ holder = NoProc /\ holder' = p /\ Goto(p, "compare")
  /\ UNCHANGED <<files, now, locals, history>>

\* Where a migration goes on: read_key answers, store_key publishes its key.
Migrated(p) ==
  /\ Goto(p, IF want[p] = NoKey THEN "answer" ELSE "make")
  /\ carry' = [carry EXCEPT ![p] = want[p]] /\ moving' = [moving EXCEPT ![p] = FALSE]

\* Mutant of Compare: the times are not compared.
CompareExists(p) ==
  /\ At(p, "compare")
  /\ IF ~Exists(legacy) THEN Migrated(p)
     ELSE Goto(p, IF ~Exists(canon) THEN "guard" ELSE "retire") /\ UNCHANGED <<carry, moving>>
  /\ UNCHANGED <<files, holder, now, want, answer, history>>

\* _migrate_legacy
Compare(p) ==
  /\ At(p, "compare")
  /\ IF ~Exists(legacy) THEN Migrated(p)
     ELSE Goto(p, IF LegacyNewer THEN "guard" ELSE "retire") /\ UNCHANGED <<carry, moving>>
  /\ UNCHANGED <<files, holder, now, want, answer, history>>

Guard(p) ==
  /\ At(p, "guard") /\ Goto(p, "take")
  /\ legacy' = IF Exists(legacy) THEN [legacy EXCEPT !.guarded = TRUE] ELSE legacy
  /\ UNCHANGED <<canon, temp, litter, holder, now, locals, history>>

Take(p) ==
  /\ At(p, "take") /\ Exists(legacy)
  /\ IF legacy.key = NoKey THEN Migrated(p)
     ELSE /\ Goto(p, "make") /\ carry' = [carry EXCEPT ![p] = legacy.key]
          /\ moving' = [moving EXCEPT ![p] = TRUE]
  /\ UNCHANGED <<files, holder, now, want, answer, history>>

Retire(p) ==
  /\ At(p, "retire") /\ legacy' = NoFile /\ Migrated(p)
  /\ UNCHANGED <<canon, temp, litter, holder, now, want, answer>> /\ Remember

-----------------------------------------------------------------------------
(* _publish.                                                                *)

\* Mutant of Make: the key is written before the file is restricted.
MakeFilled(p) ==
  /\ At(p, "make") /\ now < MaxWrites /\ now' = now + 1 /\ Goto(p, "protect")
  /\ temp' = [temp EXCEPT ![p] = [key |-> carry[p], time |-> now', guarded |-> FALSE]]
  /\ UNCHANGED <<canon, legacy, litter, holder, locals, history>>

Make(p) ==
  /\ At(p, "make") /\ Goto(p, "protect")
  /\ temp' = [temp EXCEPT ![p] = [key |-> NoKey, time |-> now, guarded |-> FALSE]]
  /\ UNCHANGED <<canon, legacy, litter, holder, now, locals, history>>

Protect(p) ==
  /\ At(p, "protect") /\ Goto(p, "fill")
  /\ temp' = [temp EXCEPT ![p].guarded = TRUE]
  /\ UNCHANGED <<canon, legacy, litter, holder, now, locals, history>>

Fill(p) ==
  /\ At(p, "fill") /\ now < MaxWrites /\ now' = now + 1 /\ Goto(p, "replace")
  /\ temp' = [temp EXCEPT ![p].key = carry[p], ![p].time = now']
  /\ UNCHANGED <<canon, legacy, litter, holder, locals, history>>

\* os.replace.  A migration goes on to retire the old file.
Replace(p) ==
  /\ At(p, "replace")
  /\ canon' = temp[p] /\ temp' = [temp EXCEPT ![p] = NoFile]
  /\ IF moving[p] THEN Goto(p, "retire") /\ UNCHANGED <<holder, carry, moving, answer>>
     ELSE Leave(p) /\ answer' = [answer EXCEPT ![p] = "stored"]
  /\ UNCHANGED <<legacy, litter, now, want>> /\ Remember

\* read_key, with the lock: restrict the key file and read it.
Answer(p) ==
  /\ At(p, "answer") /\ Leave(p)
  /\ canon' = IF Exists(canon) THEN [canon EXCEPT !.guarded = TRUE] ELSE canon
  /\ answer' = [answer EXCEPT ![p] = IF Exists(canon) THEN canon.key ELSE NoKey]
  /\ UNCHANGED <<legacy, temp, litter, now, want, history>>

\* An ACL call, a file operation or the wait for the lock fails: the exception
\* passes `finally`, which removes the temporary file and releases the lock.
Fail(p) ==
  /\ pc[p] \in {"lock"} \cup (Inside \ {"compare"}) /\ Leave(p)
  /\ temp' = [temp EXCEPT ![p] = NoFile]
  /\ UNCHANGED <<canon, legacy, litter, now, want, answer, history>>

\* The process dies; the operating system releases its lock.
Crash(p) ==
  /\ ~At(p, "idle") /\ Leave(p)
  /\ litter' = litter \cup {[key |-> f.key, guarded |-> f.guarded] : f \in {temp[p]} \ {NoFile}}
  /\ temp' = [temp EXCEPT ![p] = NoFile]
  /\ UNCHANGED <<canon, legacy, now, want, answer, history>>

LegacyWrite(k) ==
  /\ LegacyOverlaps \/ holder = NoProc
  /\ now < MaxWrites /\ now' = now + 1
  /\ legacy' = [key |-> k, time |-> now', guarded |-> Exists(legacy) /\ legacy.guarded]
  /\ UNCHANGED <<canon, temp, litter, holder, pc, locals>> /\ Remember

Step(p) ==
  \/ Check(p) \/ CheckLegacy(p) \/ Lock(p) \/ Compare(p) \/ Guard(p) \/ Take(p) \/ Retire(p)
  \/ Make(p) \/ Protect(p) \/ Fill(p) \/ Replace(p) \/ Answer(p)

Next ==
  \/ \E p \in Procs : Read(p) \/ (\E k \in Keys : Store(p, k)) \/ Step(p) \/ Fail(p) \/ Crash(p)
  \/ \E k \in Keys : LegacyWrite(k)

Spec == Init /\ [][Next]_vars

-----------------------------------------------------------------------------
\* Every variable has its type, and the process that holds the lock is the one
\* inside it.
TypeOK ==
  /\ canon \in File \cup {NoFile} /\ legacy \in File \cup {NoFile}
  /\ temp \in [Procs -> File \cup {NoFile}] /\ litter \subseteq [key : Keys \cup {NoKey}, guarded : BOOLEAN]
  /\ now \in 0 .. MaxWrites /\ pc \in [Procs -> Positions]
  /\ want \in [Procs -> Keys \cup {NoKey}] /\ carry \in [Procs -> Keys \cup {NoKey}]
  /\ moving \in [Procs -> BOOLEAN] /\ answer \in [Procs -> Keys \cup {NoKey, "stored", "none"}]
  /\ seen \in [Procs -> SUBSET (Keys \cup {NoKey})] /\ crossed \subseteq Procs
  /\ holder \in Procs \cup {NoProc} /\ \A p \in Procs : holder = p <=> pc[p] \in Inside

\* "protection and its read-back must succeed while empty": no file with a key
\* in it is ever open to other users, not even one a dead process left behind.
\* (The old MCP's own file is what it is until a migration restricts it.)
NeverExposed ==
  \A f \in {canon} \cup {temp[p] : p \in Procs} \cup litter :
    Exists(f) /\ f.key # NoKey => f.guarded

\* "preserve the previous key on every ACL failure", and on every crash: what
\* is stored changes only to the key of a completed store or of a new write of
\* the old MCP.  Migrations, failed or not, never change it.
KeyPreserved ==
  [][Stored' # Stored =>
       \/ Exists(legacy') /\ legacy' # legacy /\ Stored' = legacy'.key
       \/ \E p \in Procs : /\ At(p, "replace") /\ At(p, "idle")'
                           /\ ~moving[p] /\ Stored' = want[p]]_vars

\* A read returns a key that was stored at some time during the call.
ReadsStored == \A p \in Procs : answer[p] \in Keys => answer[p] \in seen[p]

\* A read that finds no key found none stored, or another process's migration
\* retired the old file between its two unlocked checks.
MissesOnlyAcross ==
  \A p \in Procs : answer[p] = NoKey /\ want[p] = NoKey => NoKey \in seen[p] \/ p \in crossed
=============================================================================
