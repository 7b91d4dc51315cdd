------------------------ MODULE CredentialStoreProofs ------------------------
(***************************************************************************)
(* Proofs about CredentialStore, for every number of processes and keys    *)
(* and every length of run.                                                *)
(***************************************************************************)
EXTENDS CredentialStore, TLAPS

FilesOK ==
  /\ canon \in File \cup {NoFile} /\ legacy \in File \cup {NoFile}
  /\ temp \in [Procs -> File \cup {NoFile}]
  /\ litter \subseteq [key : Keys \cup {NoKey}, guarded : BOOLEAN]
  /\ now \in 0 .. MaxWrites

CallsOK ==
  /\ pc \in [Procs -> Positions]
  /\ want \in [Procs -> Keys \cup {NoKey}] /\ carry \in [Procs -> Keys \cup {NoKey}]
  /\ moving \in [Procs -> BOOLEAN] /\ answer \in [Procs -> Keys \cup {NoKey, "stored", "none"}]
  /\ holder \in Procs \cup {NoProc} /\ \A p \in Procs : holder = p <=> pc[p] \in Inside

SeenOK == seen \in [Procs -> SUBSET (Keys \cup {NoKey})] /\ crossed \subseteq Procs

\* A temporary file is empty until it is restricted, and restricted once a key
\* is in it; nothing else is renamed or left behind.
TempOK ==
  \A p \in Procs :
    /\ temp[p] # NoFile => pc[p] \in {"protect", "fill", "replace"}
    /\ pc[p] = "protect" => temp[p] # NoFile /\ temp[p].key = NoKey
    /\ pc[p] \in {"fill", "replace"} => temp[p] # NoFile /\ temp[p].guarded

Closed ==
  /\ canon # NoFile /\ canon.key # NoKey => canon.guarded
  /\ \A f \in litter : f.key # NoKey => f.guarded

IInv == FilesOK /\ CallsOK /\ SeenOK /\ TempOK /\ Closed

LEMMA InvParts == IInv => TypeOK /\ NeverExposed
<1> SUFFICES ASSUME IInv PROVE TypeOK /\ NeverExposed
  OBVIOUS
<1>1. TypeOK
  BY DEF IInv, TypeOK, FilesOK, CallsOK, SeenOK
<1>2. ASSUME NEW p \in Procs, temp[p] # NoFile, temp[p].key # NoKey PROVE temp[p].guarded
  BY <1>2 DEF IInv, TempOK
<1> QED
  BY <1>1, <1>2 DEF IInv, Closed, NeverExposed, Exists

LEMMA StoredType == IInv => Stored \in Keys \cup {NoKey}
BY DEF IInv, FilesOK, File, Stored, LegacyNewer, Exists

LEMMA RememberOK == ASSUME IInv, FilesOK', Remember PROVE SeenOK'
<1>1. Stored' \in Keys \cup {NoKey}
  BY DEF FilesOK, File, Stored, LegacyNewer, Exists
<1> QED
  BY <1>1 DEF IInv, SeenOK, Remember

-----------------------------------------------------------------------------
(* Every step keeps the types, and no key is ever in an open file.          *)

LEMMA MigratedOK ==
  ASSUME IInv, NEW p \in Procs, pc[p] \in Inside, Migrated(p)
  PROVE  /\ pc' \in [Procs -> Positions] /\ carry' \in [Procs -> Keys \cup {NoKey}]
         /\ moving' \in [Procs -> BOOLEAN]
         /\ \A q \in Procs : pc'[q] \in Inside <=> pc[q] \in Inside
<1>1. pc'[p] \in Inside /\ \A q \in Procs \ {p} : pc'[q] = pc[q]
  BY DEF IInv, CallsOK, Migrated, Goto, Inside, Positions
<1>2. pc' \in [Procs -> Positions]
  BY DEF IInv, CallsOK, Migrated, Goto, Positions
<1> QED
  BY <1>1, <1>2 DEF IInv, CallsOK, Migrated

LEMMA CheckStep == ASSUME IInv, NEW p \in Procs, Check(p) PROVE IInv'
<1>1. FilesOK'
  BY NoFileAssumption DEF IInv, FilesOK, CallsOK, TempOK, File, Check, At, Goto, files, locals, history, Exists
<1>2. CallsOK'
  BY StoreAssumption DEF IInv, FilesOK, File, CallsOK, Positions, Inside, Check, At, Goto, files, locals, history, Exists
<1>3. SeenOK'
  BY DEF IInv, SeenOK, Check, At, Goto, files, locals, history, Exists
<1>4. TempOK'
  BY NoFileAssumption DEF IInv, FilesOK, File, CallsOK, TempOK, Check, At, Goto, files, locals, history, Exists
<1>5. Closed'
  BY NoFileAssumption DEF IInv, FilesOK, File, CallsOK, TempOK, Closed, Check, At, Goto, files, locals, history, Exists
<1> QED
  BY <1>1, <1>2, <1>3, <1>4, <1>5 DEF IInv

LEMMA CheckLegacyStep == ASSUME IInv, NEW p \in Procs, CheckLegacy(p) PROVE IInv'
<1>1. FilesOK'
  BY NoFileAssumption DEF IInv, FilesOK, CallsOK, TempOK, File, CheckLegacy, At, Goto, files, locals, history, Exists
<1>2. CallsOK'
  BY StoreAssumption DEF IInv, FilesOK, File, CallsOK, Positions, Inside, CheckLegacy, At, Goto, files, locals, history, Exists
<1>3. SeenOK'
  BY DEF IInv, SeenOK, CheckLegacy, At, Goto, files, locals, history, Exists
<1>4. TempOK'
  BY NoFileAssumption DEF IInv, FilesOK, File, CallsOK, TempOK, CheckLegacy, At, Goto, files, locals, history, Exists
<1>5. Closed'
  BY NoFileAssumption DEF IInv, FilesOK, File, CallsOK, TempOK, Closed, CheckLegacy, At, Goto, files, locals, history, Exists
<1> QED
  BY <1>1, <1>2, <1>3, <1>4, <1>5 DEF IInv

LEMMA LockStep == ASSUME IInv, NEW p \in Procs, Lock(p) PROVE IInv'
<1>1. FilesOK'
  BY NoFileAssumption DEF IInv, FilesOK, CallsOK, TempOK, File, Lock, At, Goto, files, locals, history, Exists
<1>2. CallsOK'
  BY StoreAssumption DEF IInv, FilesOK, File, CallsOK, Positions, Inside, Lock, At, Goto, files, locals, history, Exists
<1>3. SeenOK'
  BY DEF IInv, SeenOK, Lock, At, Goto, files, locals, history, Exists
<1>4. TempOK'
  BY NoFileAssumption DEF IInv, FilesOK, File, CallsOK, TempOK, Lock, At, Goto, files, locals, history, Exists
<1>5. Closed'
  BY NoFileAssumption DEF IInv, FilesOK, File, CallsOK, TempOK, Closed, Lock, At, Goto, files, locals, history, Exists
<1> QED
  BY <1>1, <1>2, <1>3, <1>4, <1>5 DEF IInv

LEMMA CompareStep == ASSUME IInv, NEW p \in Procs, Compare(p) PROVE IInv'
<1>1. FilesOK'
  BY NoFileAssumption DEF IInv, FilesOK, CallsOK, TempOK, File, Compare, Migrated, At, Goto, files, locals, history, Exists
<1>2. CallsOK'
  <2>1. CASE ~Exists(legacy)
    <3>1. Migrated(p) /\ pc[p] \in Inside
      BY <2>1 DEF Compare, At, Inside, Positions
    <3> QED
      BY <3>1, MigratedOK DEF IInv, CallsOK, Compare
  <2>2. CASE Exists(legacy)
    BY <2>2 DEF IInv, CallsOK, Positions, Inside, Compare, At, Goto
  <2> QED
    BY <2>1, <2>2
<1>3. SeenOK'
  BY DEF IInv, SeenOK, Compare, Migrated, At, Goto, files, locals, history, Exists
<1>4. TempOK'
  BY NoFileAssumption DEF IInv, FilesOK, File, CallsOK, TempOK, Compare, Migrated, At, Goto, files, locals, history, Exists
<1>5. Closed'
  BY NoFileAssumption DEF IInv, FilesOK, File, CallsOK, TempOK, Closed, Compare, Migrated, At, Goto, files, locals, history, Exists
<1> QED
  BY <1>1, <1>2, <1>3, <1>4, <1>5 DEF IInv

LEMMA GuardStep == ASSUME IInv, NEW p \in Procs, Guard(p) PROVE IInv'
<1>1. FilesOK'
  BY NoFileAssumption DEF IInv, FilesOK, CallsOK, TempOK, File, Guard, At, Goto, files, locals, history, Exists
<1>2. CallsOK'
  BY StoreAssumption DEF IInv, FilesOK, File, CallsOK, Positions, Inside, Guard, At, Goto, files, locals, history, Exists
<1>3. SeenOK'
  BY DEF IInv, SeenOK, Guard, At, Goto, files, locals, history, Exists
<1>4. TempOK'
  BY NoFileAssumption DEF IInv, FilesOK, File, CallsOK, TempOK, Guard, At, Goto, files, locals, history, Exists
<1>5. Closed'
  BY NoFileAssumption DEF IInv, FilesOK, File, CallsOK, TempOK, Closed, Guard, At, Goto, files, locals, history, Exists
<1> QED
  BY <1>1, <1>2, <1>3, <1>4, <1>5 DEF IInv

LEMMA TakeStep == ASSUME IInv, NEW p \in Procs, Take(p) PROVE IInv'
<1>1. FilesOK'
  BY NoFileAssumption DEF IInv, FilesOK, CallsOK, TempOK, File, Take, Migrated, At, Goto, files, locals, history, Exists
<1>2. CallsOK'
  <2>1. CASE legacy.key = NoKey
    <3>1. Migrated(p) /\ pc[p] \in Inside
      BY <2>1 DEF Take, At, Inside, Positions
    <3> QED
      BY <3>1, MigratedOK DEF IInv, CallsOK, Take
  <2>2. CASE legacy.key # NoKey
    <3>1. legacy.key \in Keys
      BY <2>2 DEF IInv, FilesOK, File, Take, Exists
    <3> QED
      BY <2>2, <3>1 DEF IInv, CallsOK, Positions, Inside, Take, At, Goto
  <2> QED
    BY <2>1, <2>2
<1>3. SeenOK'
  BY DEF IInv, SeenOK, Take, Migrated, At, Goto, files, locals, history, Exists
<1>4. TempOK'
  BY NoFileAssumption DEF IInv, FilesOK, File, CallsOK, TempOK, Take, Migrated, At, Goto, files, locals, history, Exists
<1>5. Closed'
  BY NoFileAssumption DEF IInv, FilesOK, File, CallsOK, TempOK, Closed, Take, Migrated, At, Goto, files, locals, history, Exists
<1> QED
  BY <1>1, <1>2, <1>3, <1>4, <1>5 DEF IInv

LEMMA RetireStep == ASSUME IInv, NEW p \in Procs, Retire(p) PROVE IInv'
<1>1. FilesOK'
  BY NoFileAssumption DEF IInv, FilesOK, CallsOK, TempOK, File, Retire, Migrated, At, Goto, files, locals, history, Exists
<1>2. CallsOK'
  BY StoreAssumption DEF IInv, FilesOK, File, CallsOK, Positions, Inside, Retire, Migrated, At, Goto, files, locals, history, Exists
<1>3. SeenOK'
  BY <1>1, RememberOK DEF Retire
<1>4. TempOK'
  BY NoFileAssumption DEF IInv, FilesOK, File, CallsOK, TempOK, Retire, Migrated, At, Goto, files, locals, history, Exists
<1>5. Closed'
  BY NoFileAssumption DEF IInv, FilesOK, File, CallsOK, TempOK, Closed, Retire, Migrated, At, Goto, files, locals, history, Exists
<1> QED
  BY <1>1, <1>2, <1>3, <1>4, <1>5 DEF IInv

LEMMA MakeStep == ASSUME IInv, NEW p \in Procs, Make(p) PROVE IInv'
<1>1. FilesOK'
  BY NoFileAssumption DEF IInv, FilesOK, CallsOK, TempOK, File, Make, At, Goto, files, locals, history, Exists
<1>2. CallsOK'
  BY StoreAssumption DEF IInv, FilesOK, File, CallsOK, Positions, Inside, Make, At, Goto, files, locals, history, Exists
<1>3. SeenOK'
  BY DEF IInv, SeenOK, Make, At, Goto, files, locals, history, Exists
<1>4. TempOK'
  <2> DEFINE f == [key |-> NoKey, time |-> now, guarded |-> FALSE]
  <2>1. f \in File /\ f.key = NoKey
    BY DEF IInv, FilesOK, File
  <2>2. temp' = [temp EXCEPT ![p] = f] /\ pc[p] = "make" /\ pc' = [pc EXCEPT ![p] = "protect"]
    BY DEF Make, At, Goto
  <2> HIDE DEF f
  <2> QED
    BY <2>1, <2>2, NoFileAssumption DEF IInv, FilesOK, CallsOK, TempOK
<1>5. Closed'
  BY NoFileAssumption DEF IInv, FilesOK, File, CallsOK, TempOK, Closed, Make, At, Goto, files, locals, history, Exists
<1> QED
  BY <1>1, <1>2, <1>3, <1>4, <1>5 DEF IInv

LEMMA ProtectStep == ASSUME IInv, NEW p \in Procs, Protect(p) PROVE IInv'
<1>1. FilesOK'
  <2>1. temp[p] \in File
    BY StoreAssumption DEF IInv, FilesOK, CallsOK, TempOK, Protect, At
  <2>2. [temp[p] EXCEPT !.guarded = TRUE] \in File
    BY <2>1 DEF File
  <2>3. temp' = [temp EXCEPT ![p] = [temp[p] EXCEPT !.guarded = TRUE]]
    BY DEF Protect
  <2> QED
    BY <2>1, <2>2, <2>3 DEF IInv, FilesOK, Protect
<1>2. CallsOK'
  BY StoreAssumption DEF IInv, FilesOK, File, CallsOK, Positions, Inside, Protect, At, Goto, files, locals, history, Exists
<1>3. SeenOK'
  BY DEF IInv, SeenOK, Protect, At, Goto, files, locals, history, Exists
<1>4. TempOK'
  <2>1. temp[p] \in File /\ pc[p] = "protect" /\ pc' = [pc EXCEPT ![p] = "fill"]
    BY DEF IInv, FilesOK, TempOK, Protect, At, Goto
  <2>2. [temp[p] EXCEPT !.guarded = TRUE] \in File /\ [temp[p] EXCEPT !.guarded = TRUE].guarded
    BY <2>1 DEF File
  <2>3. temp' = [temp EXCEPT ![p] = [temp[p] EXCEPT !.guarded = TRUE]]
    BY DEF Protect
  <2> QED
    BY <2>1, <2>2, <2>3, NoFileAssumption DEF IInv, FilesOK, CallsOK, TempOK
<1>5. Closed'
  BY NoFileAssumption DEF IInv, FilesOK, File, CallsOK, TempOK, Closed, Protect, At, Goto, files, locals, history, Exists
<1> QED
  BY <1>1, <1>2, <1>3, <1>4, <1>5 DEF IInv

LEMMA FillStep == ASSUME IInv, NEW p \in Procs, Fill(p) PROVE IInv'
<1>1. FilesOK'
  <2>1. temp[p] \in File /\ carry[p] \in Keys \cup {NoKey} /\ now' \in 0 .. MaxWrites
    BY StoreAssumption DEF IInv, FilesOK, CallsOK, TempOK, Fill, At
  <2>2. [temp[p] EXCEPT !.key = carry[p], !.time = now'] \in File
    BY <2>1 DEF File
  <2>3. temp' = [temp EXCEPT ![p] = [temp[p] EXCEPT !.key = carry[p], !.time = now']]
    BY DEF Fill
  <2> QED
    BY <2>1, <2>2, <2>3 DEF IInv, FilesOK, Fill
<1>2. CallsOK'
  BY StoreAssumption DEF IInv, FilesOK, File, CallsOK, Positions, Inside, Fill, At, Goto, files, locals, history, Exists
<1>3. SeenOK'
  BY DEF IInv, SeenOK, Fill, At, Goto, files, locals, history, Exists
<1>4. TempOK'
  BY NoFileAssumption DEF IInv, FilesOK, File, CallsOK, TempOK, Fill, At, Goto, files, locals, history, Exists
<1>5. Closed'
  BY NoFileAssumption DEF IInv, FilesOK, File, CallsOK, TempOK, Closed, Fill, At, Goto, files, locals, history, Exists
<1> QED
  BY <1>1, <1>2, <1>3, <1>4, <1>5 DEF IInv

LEMMA ReplaceStep == ASSUME IInv, NEW p \in Procs, Replace(p) PROVE IInv'
<1>1. FilesOK'
  BY NoFileAssumption DEF IInv, FilesOK, CallsOK, TempOK, File, Replace, Leave, Forget, At, Goto, files, locals, history, Exists
<1>2. CallsOK'
  <2>1. CASE moving[p]
    BY <2>1 DEF IInv, CallsOK, Positions, Inside, Replace, At, Goto
  <2>2. CASE ~moving[p]
    <3>1. Leave(p) /\ answer' = [answer EXCEPT ![p] = "stored"] /\ want' = want
      BY <2>2 DEF Replace
    <3> QED
      BY <3>1, StoreAssumption DEF IInv, CallsOK, Positions, Inside, Leave, Forget, Goto
  <2> QED
    BY <2>1, <2>2
<1>3. SeenOK'
  BY <1>1, RememberOK DEF Replace
<1>4. TempOK'
  BY NoFileAssumption DEF IInv, FilesOK, File, CallsOK, TempOK, Replace, Leave, Forget, At, Goto, files, locals, history, Exists
<1>5. Closed'
  BY NoFileAssumption DEF IInv, FilesOK, File, CallsOK, TempOK, Closed, Replace, Leave, Forget, At, Goto, files, locals, history, Exists
<1> QED
  BY <1>1, <1>2, <1>3, <1>4, <1>5 DEF IInv

LEMMA AnswerStep == ASSUME IInv, NEW p \in Procs, Answer(p) PROVE IInv'
<1>1. FilesOK'
  BY NoFileAssumption DEF IInv, FilesOK, CallsOK, TempOK, File, Answer, Leave, Forget, At, Goto, files, locals, history, Exists
<1>2. CallsOK'
  BY StoreAssumption DEF IInv, FilesOK, File, CallsOK, Positions, Inside, Answer, Leave, Forget, At, Goto, files, locals, history, Exists
<1>3. SeenOK'
  BY DEF IInv, SeenOK, Answer, Leave, Forget, At, Goto, files, locals, history, Exists
<1>4. TempOK'
  BY NoFileAssumption DEF IInv, FilesOK, File, CallsOK, TempOK, Answer, Leave, Forget, At, Goto, files, locals, history, Exists
<1>5. Closed'
  BY NoFileAssumption DEF IInv, FilesOK, File, CallsOK, TempOK, Closed, Answer, Leave, Forget, At, Goto, files, locals, history, Exists
<1> QED
  BY <1>1, <1>2, <1>3, <1>4, <1>5 DEF IInv

LEMMA FailStep == ASSUME IInv, NEW p \in Procs, Fail(p) PROVE IInv'
<1>1. FilesOK'
  BY NoFileAssumption DEF IInv, FilesOK, CallsOK, TempOK, File, Fail, Leave, Forget, At, Goto, files, locals, history, Exists
<1>2. CallsOK'
  BY StoreAssumption DEF IInv, FilesOK, File, CallsOK, Positions, Inside, Fail, Leave, Forget, At, Goto, files, locals, history, Exists
<1>3. SeenOK'
  BY DEF IInv, SeenOK, Fail, Leave, Forget, At, Goto, files, locals, history, Exists
<1>4. TempOK'
  BY NoFileAssumption DEF IInv, FilesOK, File, CallsOK, TempOK, Fail, Leave, Forget, At, Goto, files, locals, history, Exists
<1>5. Closed'
  BY NoFileAssumption DEF IInv, FilesOK, File, CallsOK, TempOK, Closed, Fail, Leave, Forget, At, Goto, files, locals, history, Exists
<1> QED
  BY <1>1, <1>2, <1>3, <1>4, <1>5 DEF IInv

LEMMA CrashStep == ASSUME IInv, NEW p \in Procs, Crash(p) PROVE IInv'
<1>1. FilesOK'
  BY NoFileAssumption DEF IInv, FilesOK, CallsOK, TempOK, File, Crash, Leave, Forget, At, Goto, files, locals, history, Exists
<1>2. CallsOK'
  BY StoreAssumption DEF IInv, FilesOK, File, CallsOK, Positions, Inside, Crash, Leave, Forget, At, Goto, files, locals, history, Exists
<1>3. SeenOK'
  BY DEF IInv, SeenOK, Crash, Leave, Forget, At, Goto, files, locals, history, Exists
<1>4. TempOK'
  BY NoFileAssumption DEF IInv, FilesOK, File, CallsOK, TempOK, Crash, Leave, Forget, At, Goto, files, locals, history, Exists
<1>5. Closed'
  BY NoFileAssumption DEF IInv, FilesOK, File, CallsOK, TempOK, Closed, Crash, Leave, Forget, At, Goto, files, locals, history, Exists
<1> QED
  BY <1>1, <1>2, <1>3, <1>4, <1>5 DEF IInv

LEMMA CallStep ==
  ASSUME IInv, NEW p \in Procs, NEW k \in Keys \cup {NoKey}, NEW entry \in {"check", "lock"},
         Call(p, k, entry)
  PROVE  IInv'
<1>1. FilesOK' /\ Closed'
  BY DEF IInv, FilesOK, Closed, Call, files
<1>2. CallsOK'
  BY DEF IInv, CallsOK, Positions, Inside, Call, At, Goto
<1>3. SeenOK'
  BY StoredType DEF IInv, SeenOK, Call
<1>4. TempOK'
  BY DEF IInv, CallsOK, TempOK, Call, At, Goto, files
<1> QED
  BY <1>1, <1>2, <1>3, <1>4 DEF IInv

LEMMA LegacyWriteStep == ASSUME IInv, NEW k \in Keys, LegacyWrite(k) PROVE IInv'
<1>1. FilesOK'
  BY StoreAssumption, NoFileAssumption DEF IInv, FilesOK, File, LegacyWrite, Exists
<1>2. CallsOK' /\ TempOK' /\ Closed'
  BY DEF IInv, CallsOK, TempOK, Closed, LegacyWrite, locals
<1>3. SeenOK'
  BY <1>1, RememberOK DEF LegacyWrite
<1> QED
  BY <1>1, <1>2, <1>3 DEF IInv

LEMMA InitIInv == Init => IInv
<1> SUFFICES ASSUME Init PROVE IInv
  OBVIOUS
<1>1. FilesOK /\ Closed
  <2>1. 1 \in 0 .. MaxWrites /\ 0 \in 0 .. MaxWrites
    BY StoreAssumption
  <2>2. canon = NoFile \/ (canon \in File /\ canon.guarded)
    BY <2>1 DEF Init, File
  <2>3. legacy \in File \cup {NoFile}
    BY <2>1 DEF Init, File
  <2>4. temp \in [Procs -> File \cup {NoFile}] /\ litter = {} /\ now = 1
    BY DEF Init
  <2> QED
    BY <2>1, <2>2, <2>3, <2>4 DEF FilesOK, Closed
<1>2. CallsOK /\ SeenOK /\ TempOK
  BY StoreAssumption DEF Init, CallsOK, SeenOK, TempOK, Positions, Inside
<1> QED
  BY <1>1, <1>2 DEF IInv

LEMMA NextIInv == IInv /\ [Next]_vars => IInv'
<1> SUFFICES ASSUME IInv, [Next]_vars PROVE IInv'
  OBVIOUS
<1>1. ASSUME NEW p \in Procs, Read(p) \/ (\E k \in Keys : Store(p, k)) PROVE IInv'
  BY <1>1, CallStep DEF Read, Store
<1>2. ASSUME NEW p \in Procs, Step(p) \/ Fail(p) \/ Crash(p) PROVE IInv'
  BY <1>2, CheckStep, CheckLegacyStep, LockStep, CompareStep, GuardStep, TakeStep, RetireStep,
     MakeStep, ProtectStep, FillStep, ReplaceStep, AnswerStep, FailStep, CrashStep
     DEF Step
<1>3. CASE UNCHANGED vars
  BY <1>3 DEF vars, files, locals, history, IInv, FilesOK, CallsOK, SeenOK, TempOK, Closed
<1> QED
  BY <1>1, <1>2, <1>3, LegacyWriteStep DEF Next

\* Every variable has its type, and the lock belongs to the one process inside.
THEOREM CredentialTypeCorrect == Spec => []TypeOK
BY InitIInv, NextIInv, InvParts, PTL DEF Spec

\* Whatever fails and whoever dies, no file of the store, finished, temporary or
\* left behind, holds a key and is open to other users.
THEOREM Protected == Spec => []NeverExposed
BY InitIInv, NextIInv, InvParts, PTL DEF Spec

-----------------------------------------------------------------------------
(* What is stored.  While the lock is held nobody writes the old file, so   *)
(* what the process inside has read of it stays true until it retires it.   *)

Publishing == {"make", "protect", "fill", "replace"}

Placed(p) ==
  /\ pc[p] \in {"guard", "take"} => LegacyNewer
  /\ pc[p] \in Publishing => carry[p] \in Keys
  /\ pc[p] \in Publishing /\ moving[p] => LegacyNewer /\ legacy.key = carry[p]
  /\ pc[p] \in Publishing /\ ~moving[p] =>
       carry[p] = want[p] /\ (legacy # NoFile => legacy.key = NoKey)
  /\ pc[p] = "replace" => temp[p].key = carry[p] /\ (legacy # NoFile => legacy.time < temp[p].time)
  /\ pc[p] = "retire" => canon # NoFile /\ ~LegacyNewer

Timely ==
  /\ canon # NoFile => canon.time <= now
  /\ legacy # NoFile => legacy.time <= now
  /\ \A p \in Procs : temp[p] # NoFile => temp[p].time <= now

SInv == IInv /\ Timely /\ \A p \in Procs : Placed(p)

\* A process outside the lock touches neither file and places nobody.
LEMMA Elsewhere ==
  ASSUME SInv, IInv', NEW p \in Procs, UNCHANGED <<canon, legacy>>,
         \A q \in Procs \ {p} : /\ pc'[q] = pc[q] /\ carry'[q] = carry[q] /\ want'[q] = want[q]
                                 /\ moving'[q] = moving[q] /\ temp'[q] = temp[q],
         Placed(p)'
  PROVE  \A q \in Procs : Placed(q)'
<1> SUFFICES ASSUME NEW q \in Procs \ {p} PROVE Placed(q)'
  OBVIOUS
<1>1. Placed(q)
  BY DEF SInv
<1>2. LegacyNewer' = LegacyNewer
  BY DEF LegacyNewer, Exists
<1> QED
  BY <1>1, <1>2 DEF Placed

\* While one process is inside, the others are not.
LEMMA Alone ==
  ASSUME SInv, IInv', NEW p \in Procs, pc[p] \in Inside,
         \A q \in Procs \ {p} : pc'[q] = pc[q], Placed(p)'
  PROVE  \A q \in Procs : Placed(q)'
<1> SUFFICES ASSUME NEW q \in Procs \ {p} PROVE Placed(q)'
  OBVIOUS
<1>1. pc[q] \notin Inside
  BY DEF SInv, IInv, CallsOK
<1> QED
  BY <1>1 DEF Placed, Publishing, Inside, Positions

LEMMA CheckPlaces == ASSUME SInv, NEW p \in Procs, Check(p) PROVE Timely' /\ \A q \in Procs : Placed(q)'
<1>1. IInv /\ IInv' /\ Timely /\ Placed(p)
  BY CheckStep DEF SInv
<1>2. Timely'
  BY <1>1, StoreAssumption, NoFileAssumption DEF IInv, FilesOK, File, TempOK, Timely, Check, At, Goto, files, locals, history, Exists
<1>3. Placed(p)'
  BY <1>1, StoreAssumption, NoFileAssumption DEF IInv, FilesOK, File, CallsOK, TempOK, Timely, Placed, Publishing, LegacyNewer, Check, At, Goto, files, locals, history, Exists
<1> QED
  <2>1. /\ UNCHANGED <<canon, legacy>>
        /\ \A q \in Procs \ {p} : /\ pc'[q] = pc[q] /\ carry'[q] = carry[q] /\ want'[q] = want[q]
                                  /\ moving'[q] = moving[q] /\ temp'[q] = temp[q]
    BY <1>1 DEF IInv, FilesOK, CallsOK, Check, At, Goto, files, locals, history, Exists
  <2> QED
    BY <1>1, <1>2, <1>3, <2>1, Elsewhere

LEMMA CheckLegacyPlaces == ASSUME SInv, NEW p \in Procs, CheckLegacy(p) PROVE Timely' /\ \A q \in Procs : Placed(q)'
<1>1. IInv /\ IInv' /\ Timely /\ Placed(p)
  BY CheckLegacyStep DEF SInv
<1>2. Timely'
  BY <1>1, StoreAssumption, NoFileAssumption DEF IInv, FilesOK, File, TempOK, Timely, CheckLegacy, At, Goto, files, locals, history, Exists
<1>3. Placed(p)'
  BY <1>1, StoreAssumption, NoFileAssumption DEF IInv, FilesOK, File, CallsOK, TempOK, Timely, Placed, Publishing, LegacyNewer, CheckLegacy, At, Goto, files, locals, history, Exists
<1> QED
  <2>1. /\ UNCHANGED <<canon, legacy>>
        /\ \A q \in Procs \ {p} : /\ pc'[q] = pc[q] /\ carry'[q] = carry[q] /\ want'[q] = want[q]
                                  /\ moving'[q] = moving[q] /\ temp'[q] = temp[q]
    BY <1>1 DEF IInv, FilesOK, CallsOK, CheckLegacy, At, Goto, files, locals, history, Exists
  <2> QED
    BY <1>1, <1>2, <1>3, <2>1, Elsewhere

LEMMA LockPlaces == ASSUME SInv, NEW p \in Procs, Lock(p) PROVE Timely' /\ \A q \in Procs : Placed(q)'
<1>1. IInv /\ IInv' /\ Timely /\ Placed(p)
  BY LockStep DEF SInv
<1>2. Timely'
  BY <1>1, StoreAssumption, NoFileAssumption DEF IInv, FilesOK, File, TempOK, Timely, Lock, At, Goto, files, locals, history, Exists
<1>3. Placed(p)'
  BY <1>1, StoreAssumption, NoFileAssumption DEF IInv, FilesOK, File, CallsOK, TempOK, Timely, Placed, Publishing, LegacyNewer, Lock, At, Goto, files, locals, history, Exists
<1> QED
  <2>1. /\ UNCHANGED <<canon, legacy>>
        /\ \A q \in Procs \ {p} : /\ pc'[q] = pc[q] /\ carry'[q] = carry[q] /\ want'[q] = want[q]
                                  /\ moving'[q] = moving[q] /\ temp'[q] = temp[q]
    BY <1>1 DEF IInv, FilesOK, CallsOK, Lock, At, Goto, files, locals, history, Exists
  <2> QED
    BY <1>1, <1>2, <1>3, <2>1, Elsewhere

LEMMA ComparePlaces == ASSUME SInv, NEW p \in Procs, Compare(p) PROVE Timely' /\ \A q \in Procs : Placed(q)'
<1>1. IInv /\ IInv' /\ Timely /\ Placed(p)
  BY CompareStep DEF SInv
<1>2. Timely'
  BY <1>1, StoreAssumption, NoFileAssumption DEF IInv, FilesOK, File, TempOK, Timely, Compare, Migrated, At, Goto, files, locals, history, Exists
<1>3. Placed(p)'
  BY <1>1, StoreAssumption, NoFileAssumption DEF IInv, FilesOK, File, CallsOK, TempOK, Timely, Placed, Publishing, LegacyNewer, Compare, Migrated, At, Goto, files, locals, history, Exists
<1> QED
  <2>1. pc[p] \in Inside /\ \A q \in Procs \ {p} : pc'[q] = pc[q]
    BY <1>1 DEF IInv, CallsOK, Inside, Positions, Compare, Migrated, At, Goto, files, locals, history, Exists
  <2> QED
    BY <1>1, <1>2, <1>3, <2>1, Alone

LEMMA GuardPlaces == ASSUME SInv, NEW p \in Procs, Guard(p) PROVE Timely' /\ \A q \in Procs : Placed(q)'
<1>1. IInv /\ IInv' /\ Timely /\ Placed(p)
  BY GuardStep DEF SInv
<1>2. Timely'
  BY <1>1, StoreAssumption, NoFileAssumption DEF IInv, FilesOK, File, TempOK, Timely, Guard, At, Goto, files, locals, history, Exists
<1>3. Placed(p)'
  <2>1. LegacyNewer' = LegacyNewer
    <3>1. CASE legacy = NoFile
      BY <3>1 DEF Guard, Exists, LegacyNewer
    <3>2. CASE legacy # NoFile
      <4>1. legacy \in File /\ legacy' = [legacy EXCEPT !.guarded = TRUE] /\ canon' = canon
        BY <1>1, <3>2 DEF IInv, FilesOK, Guard, Exists
      <4>2. legacy' \in File /\ legacy'.time = legacy.time
        BY <4>1 DEF File
      <4> QED
        BY <3>2, <4>1, <4>2, NoFileAssumption DEF LegacyNewer, Exists
    <3> QED
      BY <3>1, <3>2
  <2>2. pc[p] = "guard" /\ pc'[p] = "take"
    BY <1>1 DEF IInv, CallsOK, Guard, At, Goto
  <2> QED
    BY <1>1, <2>1, <2>2 DEF Placed, Publishing
<1> QED
  <2>1. pc[p] \in Inside /\ \A q \in Procs \ {p} : pc'[q] = pc[q]
    BY <1>1 DEF IInv, CallsOK, Inside, Positions, Guard, At, Goto, files, locals, history, Exists
  <2> QED
    BY <1>1, <1>2, <1>3, <2>1, Alone

LEMMA TakePlaces == ASSUME SInv, NEW p \in Procs, Take(p) PROVE Timely' /\ \A q \in Procs : Placed(q)'
<1>1. IInv /\ IInv' /\ Timely /\ Placed(p)
  BY TakeStep DEF SInv
<1>2. Timely'
  BY <1>1, StoreAssumption, NoFileAssumption DEF IInv, FilesOK, File, TempOK, Timely, Take, Migrated, At, Goto, files, locals, history, Exists
<1>3. Placed(p)'
  BY <1>1, StoreAssumption, NoFileAssumption DEF IInv, FilesOK, File, CallsOK, TempOK, Timely, Placed, Publishing, LegacyNewer, Take, Migrated, At, Goto, files, locals, history, Exists
<1> QED
  <2>1. pc[p] \in Inside /\ \A q \in Procs \ {p} : pc'[q] = pc[q]
    BY <1>1 DEF IInv, CallsOK, Inside, Positions, Take, Migrated, At, Goto, files, locals, history, Exists
  <2> QED
    BY <1>1, <1>2, <1>3, <2>1, Alone

LEMMA RetirePlaces == ASSUME SInv, NEW p \in Procs, Retire(p) PROVE Timely' /\ \A q \in Procs : Placed(q)'
<1>1. IInv /\ IInv' /\ Timely /\ Placed(p)
  BY RetireStep DEF SInv
<1>2. Timely'
  BY <1>1, StoreAssumption, NoFileAssumption DEF IInv, FilesOK, File, TempOK, Timely, Retire, Migrated, At, Goto, files, locals, history, Exists
<1>3. Placed(p)'
  BY <1>1, StoreAssumption, NoFileAssumption DEF IInv, FilesOK, File, CallsOK, TempOK, Timely, Placed, Publishing, LegacyNewer, Retire, Migrated, At, Goto, files, locals, history, Exists
<1> QED
  <2>1. pc[p] \in Inside /\ \A q \in Procs \ {p} : pc'[q] = pc[q]
    BY <1>1 DEF IInv, CallsOK, Inside, Positions, Retire, Migrated, At, Goto, files, locals, history, Exists
  <2> QED
    BY <1>1, <1>2, <1>3, <2>1, Alone

LEMMA MakePlaces == ASSUME SInv, NEW p \in Procs, Make(p) PROVE Timely' /\ \A q \in Procs : Placed(q)'
<1>1. IInv /\ IInv' /\ Timely /\ Placed(p)
  BY MakeStep DEF SInv
<1>2. Timely'
  BY <1>1, StoreAssumption, NoFileAssumption DEF IInv, FilesOK, File, TempOK, Timely, Make, At, Goto, files, locals, history, Exists
<1>3. Placed(p)'
  BY <1>1, StoreAssumption, NoFileAssumption DEF IInv, FilesOK, File, CallsOK, TempOK, Timely, Placed, Publishing, LegacyNewer, Make, At, Goto, files, locals, history, Exists
<1> QED
  <2>1. pc[p] \in Inside /\ \A q \in Procs \ {p} : pc'[q] = pc[q]
    BY <1>1 DEF IInv, CallsOK, Inside, Positions, Make, At, Goto, files, locals, history, Exists
  <2> QED
    BY <1>1, <1>2, <1>3, <2>1, Alone

LEMMA ProtectPlaces == ASSUME SInv, NEW p \in Procs, Protect(p) PROVE Timely' /\ \A q \in Procs : Placed(q)'
<1>1. IInv /\ IInv' /\ Timely /\ Placed(p)
  BY ProtectStep DEF SInv
<1>2. Timely'
  BY <1>1, StoreAssumption, NoFileAssumption DEF IInv, FilesOK, File, TempOK, Timely, Protect, At, Goto, files, locals, history, Exists
<1>3. Placed(p)'
  BY <1>1, StoreAssumption, NoFileAssumption DEF IInv, FilesOK, File, CallsOK, TempOK, Timely, Placed, Publishing, LegacyNewer, Protect, At, Goto, files, locals, history, Exists
<1> QED
  <2>1. pc[p] \in Inside /\ \A q \in Procs \ {p} : pc'[q] = pc[q]
    BY <1>1 DEF IInv, CallsOK, Inside, Positions, Protect, At, Goto, files, locals, history, Exists
  <2> QED
    BY <1>1, <1>2, <1>3, <2>1, Alone

LEMMA FillPlaces == ASSUME SInv, NEW p \in Procs, Fill(p) PROVE Timely' /\ \A q \in Procs : Placed(q)'
<1>1. IInv /\ IInv' /\ Timely /\ Placed(p)
  BY FillStep DEF SInv
<1>2. Timely'
  BY <1>1, StoreAssumption, NoFileAssumption DEF IInv, FilesOK, File, TempOK, Timely, Fill, At, Goto, files, locals, history, Exists
<1>3. Placed(p)'
  BY <1>1, StoreAssumption, NoFileAssumption DEF IInv, FilesOK, File, CallsOK, TempOK, Timely, Placed, Publishing, LegacyNewer, Fill, At, Goto, files, locals, history, Exists
<1> QED
  <2>1. pc[p] \in Inside /\ \A q \in Procs \ {p} : pc'[q] = pc[q]
    BY <1>1 DEF IInv, CallsOK, Inside, Positions, Fill, At, Goto, files, locals, history, Exists
  <2> QED
    BY <1>1, <1>2, <1>3, <2>1, Alone

LEMMA ReplacePlaces == ASSUME SInv, NEW p \in Procs, Replace(p) PROVE Timely' /\ \A q \in Procs : Placed(q)'
<1>1. IInv /\ IInv' /\ Timely /\ Placed(p)
  BY ReplaceStep DEF SInv
<1>2. Timely'
  BY <1>1, StoreAssumption, NoFileAssumption DEF IInv, FilesOK, File, TempOK, Timely, Replace, Leave, Forget, At, Goto, files, locals, history, Exists
<1>3. Placed(p)'
  BY <1>1, StoreAssumption, NoFileAssumption DEF IInv, FilesOK, File, CallsOK, TempOK, Timely, Placed, Publishing, LegacyNewer, Replace, Leave, Forget, At, Goto, files, locals, history, Exists
<1> QED
  <2>1. pc[p] \in Inside /\ \A q \in Procs \ {p} : pc'[q] = pc[q]
    BY <1>1 DEF IInv, CallsOK, Inside, Positions, Replace, Leave, Forget, At, Goto, files, locals, history, Exists
  <2> QED
    BY <1>1, <1>2, <1>3, <2>1, Alone

LEMMA AnswerPlaces == ASSUME SInv, NEW p \in Procs, Answer(p) PROVE Timely' /\ \A q \in Procs : Placed(q)'
<1>1. IInv /\ IInv' /\ Timely /\ Placed(p)
  BY AnswerStep DEF SInv
<1>2. Timely'
  BY <1>1, StoreAssumption, NoFileAssumption DEF IInv, FilesOK, File, TempOK, Timely, Answer, Leave, Forget, At, Goto, files, locals, history, Exists
<1>3. Placed(p)'
  BY <1>1, StoreAssumption, NoFileAssumption DEF IInv, FilesOK, File, CallsOK, TempOK, Timely, Placed, Publishing, LegacyNewer, Answer, Leave, Forget, At, Goto, files, locals, history, Exists
<1> QED
  <2>1. pc[p] \in Inside /\ \A q \in Procs \ {p} : pc'[q] = pc[q]
    BY <1>1 DEF IInv, CallsOK, Inside, Positions, Answer, Leave, Forget, At, Goto, files, locals, history, Exists
  <2> QED
    BY <1>1, <1>2, <1>3, <2>1, Alone

LEMMA FailPlaces == ASSUME SInv, NEW p \in Procs, Fail(p) PROVE Timely' /\ \A q \in Procs : Placed(q)'
<1>1. IInv /\ IInv' /\ Timely /\ Placed(p)
  BY FailStep DEF SInv
<1>2. Timely'
  BY <1>1, StoreAssumption, NoFileAssumption DEF IInv, FilesOK, File, TempOK, Timely, Fail, Leave, Forget, At, Goto, files, locals, history, Exists
<1>3. Placed(p)'
  BY <1>1, StoreAssumption, NoFileAssumption DEF IInv, FilesOK, File, CallsOK, TempOK, Timely, Placed, Publishing, LegacyNewer, Fail, Leave, Forget, At, Goto, files, locals, history, Exists
<1> QED
  <2>1. /\ UNCHANGED <<canon, legacy>>
        /\ \A q \in Procs \ {p} : /\ pc'[q] = pc[q] /\ carry'[q] = carry[q] /\ want'[q] = want[q]
                                  /\ moving'[q] = moving[q] /\ temp'[q] = temp[q]
    BY <1>1 DEF IInv, FilesOK, CallsOK, Fail, Leave, Forget, At, Goto, files, locals, history, Exists
  <2> QED
    BY <1>1, <1>2, <1>3, <2>1, Elsewhere

LEMMA CrashPlaces == ASSUME SInv, NEW p \in Procs, Crash(p) PROVE Timely' /\ \A q \in Procs : Placed(q)'
<1>1. IInv /\ IInv' /\ Timely /\ Placed(p)
  BY CrashStep DEF SInv
<1>2. Timely'
  BY <1>1, StoreAssumption, NoFileAssumption DEF IInv, FilesOK, File, TempOK, Timely, Crash, Leave, Forget, At, Goto, files, locals, history, Exists
<1>3. Placed(p)'
  BY <1>1, StoreAssumption, NoFileAssumption DEF IInv, FilesOK, File, CallsOK, TempOK, Timely, Placed, Publishing, LegacyNewer, Crash, Leave, Forget, At, Goto, files, locals, history, Exists
<1> QED
  <2>1. /\ UNCHANGED <<canon, legacy>>
        /\ \A q \in Procs \ {p} : /\ pc'[q] = pc[q] /\ carry'[q] = carry[q] /\ want'[q] = want[q]
                                  /\ moving'[q] = moving[q] /\ temp'[q] = temp[q]
    BY <1>1 DEF IInv, FilesOK, CallsOK, Crash, Leave, Forget, At, Goto, files, locals, history, Exists
  <2> QED
    BY <1>1, <1>2, <1>3, <2>1, Elsewhere

LEMMA CallPlaces ==
  ASSUME SInv, NEW p \in Procs, NEW k \in Keys \cup {NoKey}, NEW entry \in {"check", "lock"},
         Call(p, k, entry)
  PROVE  Timely' /\ \A q \in Procs : Placed(q)'
<1>1. IInv'
  BY CallStep DEF SInv
<1>2. Timely'
  BY DEF SInv, Timely, Call, files
<1>3. Placed(p)'
  BY DEF SInv, IInv, CallsOK, Placed, Publishing, Call, Goto
<1>4. /\ UNCHANGED <<canon, legacy>>
      /\ \A q \in Procs \ {p} : /\ pc'[q] = pc[q] /\ carry'[q] = carry[q] /\ want'[q] = want[q]
                                /\ moving'[q] = moving[q] /\ temp'[q] = temp[q]
  BY DEF SInv, IInv, CallsOK, Call, Goto, files
<1> QED
  BY <1>1, <1>2, <1>3, <1>4, Elsewhere

\* Only where the old MCP stays out of a held lock.
LEMMA LegacyWritePlaces ==
  ASSUME ~LegacyOverlaps, SInv, NEW k \in Keys, LegacyWrite(k)
  PROVE  Timely' /\ \A q \in Procs : Placed(q)'
<1>1. Timely'
  BY StoreAssumption DEF SInv, IInv, FilesOK, File, Timely, LegacyWrite
<1>2. ASSUME NEW q \in Procs PROVE pc'[q] \notin Inside
  BY StoreAssumption DEF SInv, IInv, CallsOK, LegacyWrite
<1> QED
  BY <1>1, <1>2 DEF Placed, Publishing, Inside, Positions

LEMMA InitSInv == Init => SInv
<1> SUFFICES ASSUME Init PROVE SInv
  OBVIOUS
<1>1. Timely
  <2>1. canon # NoFile => canon.time = 1
    BY DEF Init
  <2>2. legacy # NoFile => legacy.time \in {0, 1}
    BY DEF Init
  <2> QED
    BY <2>1, <2>2 DEF Init, Timely
<1>2. ASSUME NEW p \in Procs PROVE Placed(p)
  BY DEF Init, Placed, Publishing
<1> QED
  BY <1>1, <1>2, InitIInv DEF SInv

LEMMA NextSInv == ASSUME ~LegacyOverlaps PROVE SInv /\ [Next]_vars => SInv'
<1> SUFFICES ASSUME SInv, [Next]_vars PROVE SInv'
  OBVIOUS
<1>1. IInv'
  BY NextIInv DEF SInv
<1>2. ASSUME NEW p \in Procs, Read(p) \/ (\E k \in Keys : Store(p, k))
      PROVE Timely' /\ \A q \in Procs : Placed(q)'
  BY <1>2, CallPlaces DEF Read, Store
<1>3. ASSUME NEW p \in Procs, Step(p) \/ Fail(p) \/ Crash(p)
      PROVE Timely' /\ \A q \in Procs : Placed(q)'
  BY <1>3, CheckPlaces, CheckLegacyPlaces, LockPlaces, ComparePlaces, GuardPlaces, TakePlaces,
     RetirePlaces, MakePlaces, ProtectPlaces, FillPlaces, ReplacePlaces, AnswerPlaces, FailPlaces,
     CrashPlaces DEF Step
<1>4. CASE UNCHANGED vars
  <2>1. UNCHANGED <<canon, legacy, temp, now, pc, want, carry, moving>>
    BY <1>4 DEF vars, files, locals
  <2>2. Timely'
    BY <2>1 DEF SInv, Timely
  <2>3. ASSUME NEW q \in Procs PROVE Placed(q)'
    BY <2>1 DEF SInv, Placed, LegacyNewer, Exists
  <2> QED
    BY <1>1, <2>2, <2>3 DEF SInv
<1> QED
  BY <1>1, <1>2, <1>3, <1>4, LegacyWritePlaces DEF Next, SInv

-----------------------------------------------------------------------------
(* What each step does to the stored key.                                   *)

KeyStep ==
  Stored' # Stored =>
    \/ Exists(legacy') /\ legacy' # legacy /\ Stored' = legacy'.key
    \/ \E p \in Procs : /\ At(p, "replace") /\ At(p, "idle")'
                        /\ ~moving[p] /\ Stored' = want[p]

\* Restricting a file leaves what is stored in it.
LEMMA Restricting ==
  ASSUME IInv,
         canon' = canon \/ (canon # NoFile /\ canon' = [canon EXCEPT !.guarded = TRUE]),
         legacy' = legacy \/ (legacy # NoFile /\ legacy' = [legacy EXCEPT !.guarded = TRUE])
  PROVE  Stored' = Stored
<1>1. canon' = canon \/ (canon # NoFile /\ canon' # NoFile /\ canon'.key = canon.key /\ canon'.time = canon.time)
  BY NoFileAssumption DEF IInv, FilesOK, File
<1>2. legacy' = legacy \/ (legacy # NoFile /\ legacy' # NoFile /\ legacy'.key = legacy.key /\ legacy'.time = legacy.time)
  BY NoFileAssumption DEF IInv, FilesOK, File
<1> QED
  BY <1>1, <1>2 DEF Stored, LegacyNewer, Exists

LEMMA RetireKeeps == ASSUME SInv, NEW p \in Procs, Retire(p) PROVE Stored' = Stored
<1>1. canon # NoFile /\ ~LegacyNewer /\ canon' = canon /\ legacy' = NoFile
  BY DEF SInv, Placed, Retire, At
<1> QED
  BY <1>1 DEF Stored, LegacyNewer, Exists

LEMMA ReplaceKeeps == ASSUME SInv, NEW p \in Procs, Replace(p) PROVE KeyStep
<1>1. /\ pc[p] = "replace" /\ temp[p] \in File /\ canon' = temp[p] /\ legacy' = legacy
      /\ temp[p].key = carry[p] /\ canon' # NoFile
      /\ legacy # NoFile => legacy \in File /\ legacy.time < temp[p].time
  BY NoFileAssumption DEF SInv, IInv, FilesOK, TempOK, Placed, Replace, At
<1>2. Stored' = carry[p]
  <2>1. ~LegacyNewer'
    BY <1>1 DEF LegacyNewer, Exists, File
  <2> QED
    BY <1>1, <2>1 DEF Stored, Exists
<1>3. CASE moving[p]
  <2>1. LegacyNewer /\ legacy.key = carry[p] /\ carry[p] \in Keys
    BY <1>1, <1>3 DEF SInv, Placed, Publishing
  <2>2. Stored = carry[p]
    BY <2>1, StoreAssumption DEF Stored
  <2> QED
    BY <1>2, <2>2 DEF KeyStep
<1>4. CASE ~moving[p]
  <2>1. carry[p] = want[p]
    BY <1>1, <1>4 DEF SInv, Placed, Publishing
  <2>2. pc'[p] = "idle"
    BY <1>4 DEF SInv, IInv, CallsOK, Replace, Leave, Goto
  <2> QED
    BY <1>1, <1>2, <1>4, <2>1, <2>2 DEF KeyStep, At
<1> QED
  BY <1>3, <1>4

LEMMA LegacyWriteKeeps == ASSUME SInv, NEW k \in Keys, LegacyWrite(k) PROVE KeyStep
<1>1. legacy' = [key |-> k, time |-> now + 1, guarded |-> Exists(legacy) /\ legacy.guarded]
      /\ now + 1 \in 0 .. MaxWrites /\ canon' = canon
  BY StoreAssumption DEF SInv, IInv, FilesOK, LegacyWrite
<1>2. legacy' \in File /\ legacy'.key = k /\ legacy'.time = now + 1
  BY <1>1 DEF File, SInv, IInv, FilesOK, Exists
<1>3. legacy' # NoFile /\ legacy' # legacy
  BY <1>2, NoFileAssumption, StoreAssumption DEF SInv, IInv, FilesOK, File, Timely
<1>4. LegacyNewer'
  BY <1>1, <1>2, <1>3, NoFileAssumption, StoreAssumption
     DEF SInv, IInv, FilesOK, File, Timely, LegacyNewer, Exists
<1>5. Stored' = legacy'.key
  BY <1>2, <1>4, StoreAssumption DEF Stored
<1> QED
  BY <1>3, <1>5 DEF KeyStep, Exists

LEMMA NextKeeps == SInv /\ [Next]_vars => KeyStep
<1> SUFFICES ASSUME SInv, [Next]_vars PROVE KeyStep
  OBVIOUS
<1>1. ASSUME UNCHANGED <<canon, legacy>> PROVE KeyStep
  BY <1>1 DEF KeyStep, Stored, LegacyNewer, Exists
<1>2. ASSUME NEW p \in Procs, Guard(p) \/ Answer(p) PROVE KeyStep
  <2>1. Stored' = Stored
    BY <1>2, Restricting DEF SInv, Guard, Answer, Exists
  <2> QED
    BY <2>1 DEF KeyStep
<1>3. ASSUME NEW p \in Procs, Retire(p) PROVE KeyStep
  BY <1>3, RetireKeeps DEF KeyStep
<1>4. ASSUME NEW p \in Procs, Read(p) \/ (\E k \in Keys : Store(p, k)) PROVE KeyStep
  BY <1>1, <1>4 DEF Read, Store, Call, files
<1>5. ASSUME NEW p \in Procs,
             Check(p) \/ CheckLegacy(p) \/ Lock(p) \/ Compare(p) \/ Take(p) \/ Fail(p) \/ Crash(p)
      PROVE KeyStep
  BY <1>1, <1>5 DEF Check, CheckLegacy, Lock, Compare, Take, Fail, Crash, files
<1>6. ASSUME NEW p \in Procs, Make(p) \/ Protect(p) \/ Fill(p) PROVE KeyStep
  BY <1>1, <1>6 DEF Make, Protect, Fill
<1>7. CASE UNCHANGED vars
  BY <1>1, <1>7 DEF vars, files
<1> QED
  BY <1>2, <1>3, <1>4, <1>5, <1>6, <1>7, ReplaceKeeps, LegacyWriteKeeps DEF Next, Step

\* As long as the old MCP does not write during a migration, the stored key
\* changes only to the key of a completed store or of a new write of the old
\* MCP, whatever fails and whoever dies.
THEOREM Preserved == ASSUME ~LegacyOverlaps PROVE Spec => KeyPreserved
<1>1. SInv /\ [Next]_vars => SInv'
  BY NextSInv
<1>2. SInv /\ [Next]_vars => [KeyStep]_vars
  BY NextKeeps
<1>3. [][KeyStep]_vars => KeyPreserved
  BY PTL DEF KeyStep, KeyPreserved
<1> QED
  BY InitSInv, <1>1, <1>2, <1>3, PTL DEF Spec

-----------------------------------------------------------------------------
(* What a read returns.  The stored key is always among those seen by the   *)
(* calls under way; once a migration is over, the key file holds one of     *)
(* them until the lock is left, whatever the old MCP writes meanwhile.      *)

CanonKey == IF Exists(canon) THEN canon.key ELSE NoKey

ReadOK(p) ==
  /\ pc[p] # "idle" => Stored \in seen[p] /\ answer[p] = "none"
  /\ pc[p] = "check_legacy" => Exists(legacy) \/ NoKey \in seen[p] \/ p \in crossed
  /\ pc[p] = "answer" => CanonKey \in seen[p]
  /\ answer[p] \in Keys => answer[p] \in seen[p]
  /\ answer[p] = NoKey /\ want[p] = NoKey => NoKey \in seen[p] \/ p \in crossed

RInv == IInv /\ \A p \in Procs : ReadOK(p)

\* A key file that is missing, or an old file without a key, leaves what is in the key file.
LEMMA StoredIsCanon ==
  ~Exists(legacy) \/ legacy.key = NoKey => Stored = CanonKey
BY DEF Stored, CanonKey, LegacyNewer

LEMMA StoredKept ==
  ASSUME UNCHANGED <<canon, legacy>>
  PROVE  Stored' = Stored /\ CanonKey' = CanonKey /\ Exists(legacy') = Exists(legacy)
BY DEF Stored, CanonKey, LegacyNewer, Exists

\* What every call under way has seen after a step that remembers it.
LEMMA Remembered ==
  ASSUME RInv, IInv', Remember, NEW q \in Procs
  PROVE  /\ pc[q] # "idle" => Stored' \in seen'[q] /\ seen[q] \subseteq seen'[q]
         /\ pc[q] = "idle" => seen'[q] = seen[q]
         /\ q \in crossed => q \in crossed'
         /\ pc[q] = "check_legacy" /\ Exists(legacy) => Exists(legacy') \/ q \in crossed'
BY DEF Remember, At

\* A step of p that writes neither file and remembers nothing.
LEMMA QuietReads ==
  ASSUME RInv, NEW p \in Procs, UNCHANGED <<canon, legacy, seen, crossed, want>>,
         \A q \in Procs \ {p} : pc'[q] = pc[q] /\ answer'[q] = answer[q],
         ReadOK(p)'
  PROVE  \A q \in Procs : ReadOK(q)'
<1> SUFFICES ASSUME NEW q \in Procs \ {p} PROVE ReadOK(q)'
  OBVIOUS
<1>1. ReadOK(q) /\ pc'[q] = pc[q] /\ answer'[q] = answer[q]
  BY DEF RInv
<1> QED
  BY <1>1, StoredKept DEF ReadOK

LEMMA MigratedReads ==
  ASSUME RInv, NEW p \in Procs, pc[p] # "idle", Migrated(p), UNCHANGED <<canon, legacy, seen, crossed, want, answer>>,
         ~Exists(legacy) \/ legacy.key = NoKey
  PROVE  \A q \in Procs : ReadOK(q)'
<1>1. pc'[p] \in {"answer", "make"} /\ \A q \in Procs \ {p} : pc'[q] = pc[q]
  BY DEF RInv, IInv, CallsOK, Migrated, Goto
<1>2. ReadOK(p)'
  BY <1>1, StoredIsCanon, StoredKept DEF RInv, ReadOK
<1> QED
  BY <1>1, <1>2, QuietReads

LEMMA CallReads ==
  ASSUME RInv, NEW p \in Procs, NEW k \in Keys \cup {NoKey}, NEW entry \in {"check", "lock"},
         Call(p, k, entry)
  PROVE  \A q \in Procs : ReadOK(q)'
<1>1. UNCHANGED <<canon, legacy>>
  BY DEF Call, files
<1>2. /\ pc'[p] = entry /\ answer'[p] = "none" /\ seen'[p] = {Stored}
      /\ \A q \in Procs \ {p} : /\ pc'[q] = pc[q] /\ answer'[q] = answer[q] /\ want'[q] = want[q]
                              /\ seen'[q] = seen[q] /\ (q \in crossed' <=> q \in crossed)
  BY DEF RInv, IInv, CallsOK, SeenOK, Call, Goto
<1>3. ReadOK(p)'
  BY <1>1, <1>2, StoredKept, StoreAssumption DEF ReadOK
<1>4. ASSUME NEW q \in Procs \ {p} PROVE ReadOK(q)'
  BY <1>1, <1>2, StoredKept DEF RInv, ReadOK
<1> QED
  BY <1>3, <1>4

LEMMA CheckReads ==
  ASSUME RInv, NEW p \in Procs, Check(p) \/ CheckLegacy(p)
  PROVE  \A q \in Procs : ReadOK(q)'
<1>1. /\ UNCHANGED <<canon, legacy, seen, crossed, want>>
      /\ \A q \in Procs \ {p} : pc'[q] = pc[q] /\ answer'[q] = answer[q]
  BY DEF RInv, IInv, CallsOK, Check, CheckLegacy, files, locals, history, Goto
<1>2. CASE Check(p)
  <2>1. pc[p] = "check" /\ answer' = answer /\ pc'[p] = IF Exists(canon) THEN "lock" ELSE "check_legacy"
    BY <1>2 DEF RInv, IInv, CallsOK, Check, At, Goto, locals
  <2>2. ~Exists(canon) /\ ~Exists(legacy) => Stored = NoKey
    BY DEF Stored, LegacyNewer
  <2>3. ReadOK(p)'
    BY <1>1, <2>1, <2>2, StoredKept DEF RInv, ReadOK
  <2> QED
    BY <1>1, <2>3, QuietReads
<1>3. CASE CheckLegacy(p)
  <2>1. /\ pc[p] = "check_legacy"
        /\ \/ Exists(legacy) /\ pc'[p] = "lock" /\ answer' = answer
           \/ ~Exists(legacy) /\ pc'[p] = "idle" /\ answer'[p] = NoKey
    BY <1>3 DEF RInv, IInv, CallsOK, CheckLegacy, At, Goto
  <2>2. ReadOK(p)'
    BY <1>1, <2>1, StoredKept, StoreAssumption DEF RInv, ReadOK
  <2> QED
    BY <1>1, <2>2, QuietReads
<1> QED
  BY <1>2, <1>3

LEMMA InsideReads ==
  ASSUME RInv, NEW p \in Procs, Lock(p) \/ Compare(p) \/ Take(p) \/ Make(p) \/ Protect(p) \/ Fill(p)
  PROVE  \A q \in Procs : ReadOK(q)'
<1>1. UNCHANGED <<canon, legacy, seen, crossed, want, answer>> /\ pc[p] # "idle"
  BY DEF Lock, Compare, Take, Make, Protect, Fill, files, locals, history, At
<1>2. CASE /\ pc'[p] \notin {"idle", "check_legacy", "answer"}
           /\ \A q \in Procs \ {p} : pc'[q] = pc[q]
  <2>1. ReadOK(p)'
    BY <1>1, <1>2, StoredKept DEF RInv, ReadOK
  <2> QED
    BY <1>1, <1>2, <2>1, QuietReads
<1>3. CASE Migrated(p) /\ (~Exists(legacy) \/ legacy.key = NoKey)
  BY <1>1, <1>3, MigratedReads
<1>4. CASE Compare(p)
  <2>1. CASE ~Exists(legacy)
    BY <1>3, <1>4, <2>1 DEF Compare
  <2>2. CASE Exists(legacy)
    BY <1>2, <1>4, <2>2 DEF RInv, IInv, CallsOK, Compare, Goto
  <2> QED
    BY <2>1, <2>2
<1>5. CASE Take(p)
  <2>1. CASE legacy.key = NoKey
    BY <1>3, <1>5, <2>1 DEF Take
  <2>2. CASE legacy.key # NoKey
    BY <1>2, <1>5, <2>2 DEF RInv, IInv, CallsOK, Take, Goto
  <2> QED
    BY <2>1, <2>2
<1>6. CASE Lock(p) \/ Make(p) \/ Protect(p) \/ Fill(p)
  BY <1>2, <1>6 DEF RInv, IInv, CallsOK, Lock, Make, Protect, Fill, Goto
<1> QED
  BY <1>4, <1>5, <1>6

LEMMA LeaveReads ==
  ASSUME RInv, NEW p \in Procs, Fail(p) \/ Crash(p)
  PROVE  \A q \in Procs : ReadOK(q)'
<1>1. UNCHANGED <<canon, legacy, seen, crossed, want, answer>> /\ pc'[p] = "idle"
  BY DEF RInv, IInv, CallsOK, Fail, Crash, Leave, Goto, history
<1>2. \A q \in Procs \ {p} : pc'[q] = pc[q]
  BY DEF RInv, IInv, CallsOK, Fail, Crash, Leave, Goto
<1>3. ReadOK(p)'
  BY <1>1 DEF RInv, ReadOK
<1> QED
  BY <1>1, <1>2, <1>3, QuietReads

\* Restricting the old file, and the key file as it is read.
LEMMA RestrictReads ==
  ASSUME RInv, NEW p \in Procs, Guard(p) \/ Answer(p)
  PROVE  \A q \in Procs : ReadOK(q)'
<1>1. Stored' = Stored
  <2>1. CASE Guard(p)
    BY <2>1, Restricting DEF RInv, Guard, Exists
  <2>2. CASE Answer(p)
    BY <2>2, Restricting DEF RInv, Answer, Exists
  <2> QED
    BY <2>1, <2>2
<1>2. CanonKey' = CanonKey /\ Exists(legacy') = Exists(legacy)
  <2>1. CASE Guard(p)
    BY <2>1, NoFileAssumption DEF RInv, IInv, FilesOK, File, Guard, CanonKey, Exists
  <2>2. CASE Answer(p)
    BY <2>2, NoFileAssumption DEF RInv, IInv, FilesOK, File, Answer, CanonKey, Exists
  <2> QED
    BY <2>1, <2>2
<1>3. UNCHANGED <<seen, crossed, want>>
  BY DEF Guard, Answer, locals, history
<1>4. \A q \in Procs \ {p} : pc'[q] = pc[q] /\ answer'[q] = answer[q]
  BY DEF RInv, IInv, CallsOK, Guard, Answer, Leave, Goto, locals
<1>5. CASE Guard(p)
  <2>1. pc[p] = "guard" /\ pc'[p] = "take" /\ answer' = answer
    BY <1>5 DEF RInv, IInv, CallsOK, Guard, At, Goto, locals
  <2> QED
    BY <1>1, <1>2, <1>3, <1>4, <2>1 DEF RInv, ReadOK
<1>6. CASE Answer(p)
  <2>1. pc[p] = "answer" /\ pc'[p] = "idle" /\ answer'[p] = CanonKey
    BY <1>6 DEF RInv, IInv, CallsOK, Answer, At, Leave, Goto, CanonKey
  <2> QED
    BY <1>1, <1>2, <1>3, <1>4, <2>1 DEF RInv, ReadOK
<1> QED
  BY <1>5, <1>6

LEMMA WriteReads ==
  ASSUME RInv, IInv', NEW p \in Procs, Retire(p) \/ Replace(p)
  PROVE  \A q \in Procs : ReadOK(q)'
<1>1. /\ Remember /\ want' = want /\ pc[p] \in Inside
      /\ \A q \in Procs \ {p} : pc'[q] = pc[q] /\ answer'[q] = answer[q]
  BY DEF RInv, IInv, CallsOK, Retire, Replace, Migrated, Leave, Goto, At, Inside, Positions
<1>2. ASSUME NEW q \in Procs \ {p} PROVE ReadOK(q)'
  <2>1. pc[q] \notin Inside
    BY <1>1 DEF RInv, IInv, CallsOK
  <2>2. pc[q] # "answer"
    BY <2>1 DEF Inside, Positions
  <2>3. ReadOK(q)
    BY DEF RInv
  <2>4. Exists(legacy') = Exists(legacy) \/ Retire(p)
    BY DEF Replace
  <2> QED
    BY <1>1, <2>2, <2>3, Remembered DEF ReadOK
<1>3. CASE Retire(p)
  <2>1. /\ pc[p] = "retire" /\ pc'[p] \in {"answer", "make"} /\ answer' = answer
        /\ legacy' = NoFile
    BY <1>3 DEF RInv, IInv, CallsOK, Retire, Migrated, At, Goto
  <2>2. Stored' = CanonKey'
    BY <2>1 DEF Stored, CanonKey, LegacyNewer, Exists
  <2>3. ReadOK(p)'
    BY <1>1, <2>1, <2>2, Remembered, StoreAssumption DEF RInv, ReadOK
  <2> QED
    BY <1>2, <2>3
<1>4. CASE Replace(p)
  <2>1. /\ pc[p] = "replace"
        /\ \/ pc'[p] = "retire" /\ answer' = answer
           \/ pc'[p] = "idle" /\ answer'[p] = "stored"
    BY <1>4 DEF RInv, IInv, CallsOK, Replace, Leave, At, Goto
  <2>2. ReadOK(p)'
    BY <1>1, <2>1, Remembered, StoreAssumption DEF RInv, ReadOK
  <2> QED
    BY <1>2, <2>2
<1> QED
  BY <1>3, <1>4

LEMMA LegacyWriteReads ==
  ASSUME RInv, IInv', NEW k \in Keys, LegacyWrite(k)
  PROVE  \A q \in Procs : ReadOK(q)'
<1> SUFFICES ASSUME NEW q \in Procs PROVE ReadOK(q)'
  OBVIOUS
<1>1. Remember /\ UNCHANGED <<canon, pc, want, answer>>
  BY DEF LegacyWrite, locals
<1>2. CanonKey' = CanonKey
  BY <1>1 DEF CanonKey, Exists
<1> QED
  BY <1>1, <1>2, Remembered DEF RInv, ReadOK

LEMMA InitRInv == Init => RInv
<1> SUFFICES ASSUME Init, NEW p \in Procs PROVE ReadOK(p)
  BY InitIInv DEF RInv
<1>1. pc[p] = "idle" /\ answer[p] = "none"
  BY DEF Init
<1> QED
  BY <1>1, StoreAssumption DEF ReadOK

LEMMA NextRInv == RInv /\ [Next]_vars => RInv'
<1> SUFFICES ASSUME RInv, [Next]_vars PROVE \A q \in Procs : ReadOK(q)'
  BY NextIInv DEF RInv
<1>1. IInv'
  BY NextIInv DEF RInv
<1>2. ASSUME NEW p \in Procs, Read(p) \/ (\E k \in Keys : Store(p, k))
      PROVE  \A q \in Procs : ReadOK(q)'
  BY <1>2, CallReads DEF Read, Store
<1>3. ASSUME NEW p \in Procs, Step(p) \/ Fail(p) \/ Crash(p)
      PROVE  \A q \in Procs : ReadOK(q)'
  BY <1>1, <1>3, CheckReads, InsideReads, LeaveReads, RestrictReads, WriteReads DEF Step
<1>4. CASE UNCHANGED vars
  BY <1>4, StoredKept DEF vars, files, locals, history, RInv, ReadOK
<1> QED
  BY <1>1, <1>2, <1>3, <1>4, LegacyWriteReads DEF Next

LEMMA ReadsHold == RInv => ReadsStored /\ MissesOnlyAcross
BY DEF RInv, ReadOK, ReadsStored, MissesOnlyAcross

\* A read returns a key that was stored during the call, whoever stores, migrates, fails
\* or dies meanwhile, and also where the old MCP writes into a held lock.
THEOREM ReadsAreStored == Spec => []ReadsStored
BY InitRInv, NextRInv, ReadsHold, PTL DEF Spec

\* A read that finds no key found none stored, or looked on both sides of another
\* process's migration: there is no other way to miss a key.
THEOREM MissesExplained == Spec => []MissesOnlyAcross
BY InitRInv, NextRInv, ReadsHold, PTL DEF Spec
=============================================================================
