--------------------- MODULE ProcessBackendSessionProofs ---------------------
(***************************************************************************)
(* Proofs about what the process backend keeps across calls: where writes  *)
(* land, where migrations take the data, and that the caches implement the *)
(* one live session.  They build on the invariants of                      *)
(* ProcessBackendProofs.                                                   *)
(***************************************************************************)
EXTENDS ProcessBackendProofs, ProcessBackendWrites

-----------------------------------------------------------------------------
(* Whose step it is. *)

\* Nothing of the call changes.
Same(c) ==
  /\ pc'[c] = pc[c] /\ arg'[c] = arg[c] /\ mode'[c] = mode[c]
  /\ src'[c] = src[c] /\ tgt'[c] = tgt[c] /\ live'[c] = live[c] /\ carry'[c] = carry[c]
  /\ held'[c] = held[c] /\ from'[c] = from[c] /\ landed'[c] = landed[c]
  /\ named'[c] = named[c] /\ reply'[c] = reply[c]

SwitcherActs(c) == c \in Switchers /\ (StartSwitch(c) \/ SwitchStep(c))
WriterActs(c) == c \in Writers /\ (StartWrite(c) \/ WriteStep(c))
MigratorActs(c) == c \in Migrators /\ (StartMigrate(c) \/ MigrateStep(c))
Acts(c) == SwitcherActs(c) \/ WriterActs(c) \/ MigratorActs(c)

LEMMA SwitcherAlone ==
  ASSUME IInv, NEW c \in Switchers, SwitcherActs(c), NEW d \in Calls, d # c
  PROVE  Same(d)
<1> USE DEF IInv, TypeOK, Same, Goto, End, Calls
<1>1. CASE StartSwitch(c)
  BY <1>1 DEF StartSwitch
<1>2. CASE SwitchGet(c) \/ SwitchList(c)
  BY <1>2 DEF SwitchGet, SwitchList
<1>3. CASE SwitchCommit(c) \/ SwitchLabel(c)
  BY <1>3 DEF SwitchCommit, SwitchLabel
<1>4. CASE SwitchLoad(c)
  BY <1>4 DEF SwitchLoad
<1>5. CASE SwitchSave(c)
  BY <1>5 DEF SwitchSave
<1> QED
  BY <1>1, <1>2, <1>3, <1>4, <1>5 DEF SwitcherActs, SwitchStep

LEMMA WriterAlone ==
  ASSUME IInv, NEW c \in Writers, WriterActs(c), NEW d \in Calls, d # c
  PROVE  Same(d)
BY DEF IInv, TypeOK, Same, Goto, End, Calls, WriterActs, StartWrite, WriteStep, WriteGet,
       WriteSend, locals

LEMMA MigratorAlone ==
  ASSUME IInv, NEW c \in Migrators, MigratorActs(c), NEW d \in Calls, d # c
  PROVE  Same(d)
<1> USE DEF IInv, TypeOK, Same, Goto, End, Calls
<1>1. CASE StartMigrate(c) \/ MigrateMode(c) \/ MigrateGet(c)
  BY <1>1 DEF StartMigrate, MigrateMode, MigrateGet
<1>2. CASE MigrateLive(c) \/ MigrateExport(c)
  BY <1>2 DEF MigrateLive, MigrateExport
<1>3. CASE MigrateLoad(c)
  BY <1>3 DEF MigrateLoad
<1>4. CASE MigrateSave(c)
  BY <1>4 DEF MigrateSave
<1>5. CASE MigrateTarget(c) \/ MigrateImport(c)
  BY <1>5 DEF MigrateTarget, MigrateImport
<1>6. CASE MigrateFinish(c)
  BY <1>6 DEF MigrateFinish
<1>7. CASE RevertSave(c)
  BY <1>7 DEF RevertSave, RevertFails
<1>8. CASE ForwardDrop(c) \/ ForwardBuild(c) \/ ForwardReset(c)
  BY <1>8 DEF ForwardDrop, ForwardBuild, ForwardReset, locals
<1>9. CASE RevertDrop(c) \/ RevertReset(c)
  BY <1>9 DEF RevertDrop, RevertReset
<1>10. CASE RevertBuild(c)
  BY <1>10 DEF RevertBuild, RevertFails
<1> QED
  BY <1>1, <1>2, <1>3, <1>4, <1>5, <1>6, <1>7, <1>8, <1>9, <1>10
     DEF MigratorActs, MigrateStep, RebuildStep

\* Every step is one call's, or none's.
LEMMA OneActs ==
  ASSUME IInv, [Next]_vars
  PROVE  UNCHANGED vars \/ \E c \in Calls : Acts(c) /\ \A d \in Calls \ {c} : Same(d)
<1>1. CASE UNCHANGED vars
  BY <1>1
<1>2. ASSUME NEW c \in Calls, Acts(c) PROVE \A d \in Calls \ {c} : Same(d)
  BY <1>2, SwitcherAlone, WriterAlone, MigratorAlone
     DEF Acts, SwitcherActs, WriterActs, MigratorActs
<1>3. Next => UNCHANGED vars \/ \E c \in Calls : Acts(c)
  BY DEF Next, Quiet, Acts, SwitcherActs, WriterActs, MigratorActs, Calls
<1> QED
  BY <1>1, <1>2, <1>3

LEMMA IInvHolds == Spec => []IInv
BY InitOK, NextOK, PTL DEF Spec

-----------------------------------------------------------------------------
(* Objects are built and never forgotten; only the current one is changed.  *)

\* A commit changes the object of the common cache, which stays there.
Commits(o) == o = ccache /\ UNCHANGED <<env, dcache, ccache, lock>> /\ lock = Free

HeapGrows ==
  /\ Len(heap) <= Len(heap')
  /\ \A o \in 1 .. Len(heap) : heap'[o] = heap[o] \/ (heap'[o].kind = heap[o].kind /\ Commits(o))

LEMMA AppendKeeps ==
  ASSUME ProcessOK, NEW b, heap' = Append(heap, b)
  PROVE  /\ Len(heap) \in Nat /\ Len(heap') = Len(heap) + 1
         /\ \A o \in 1 .. Len(heap) : heap'[o] = heap[o]
BY AppendProperties DEF ProcessOK

LEMMA AppendGrows ==
  ASSUME ProcessOK, NEW b, heap' = Append(heap, b)
  PROVE  HeapGrows
BY AppendKeeps DEF HeapGrows

LEMMA KeptGrows == ASSUME ProcessOK, heap' = heap PROVE HeapGrows
BY DEF ProcessOK, HeapGrows

LEMMA ResolveGrows == ASSUME ProcessOK, Resolve \/ ResolveRaises PROVE HeapGrows
<1>1. heap' = heap \/ \E b \in Built(env, NoWs) : heap' = Append(heap, b)
  BY DEF Resolve, ResolveRaises, process
<1> QED
  BY <1>1, KeptGrows, AppendGrows

LEMMA BuildGrows ==
  ASSUME ProcessOK, NEW c, NEW m, Build(c, m) \/ BuildRaises(c, m)
  PROVE  HeapGrows
<1>1. heap' = heap \/ \E b \in Built(m, carry[c]) : heap' = Append(heap, b)
  BY DEF Build, BuildRaises
<1> QED
  BY <1>1, KeptGrows, AppendGrows

LEMMA SwitcherGrows ==
  ASSUME IInv, NEW c \in Switchers, SwitcherActs(c)
  PROVE  HeapGrows
<1>1. ProcessOK
  BY Parts DEF IInv
<1>2. CASE StartSwitch(c) \/ SwitchList(c)
  BY <1>1, <1>2, KeptGrows DEF StartSwitch, SwitchList, process
<1>3. CASE SwitchLoad(c)
  BY <1>1, <1>3, KeptGrows DEF SwitchLoad, process
<1>4. CASE SwitchSave(c)
  BY <1>1, <1>4, KeptGrows DEF SwitchSave
<1>5. CASE SwitchGet(c) \/ SwitchLabel(c)
  BY <1>1, <1>5, ResolveGrows DEF SwitchGet, SwitchLabel
<1>6. CASE SwitchCommit(c)
  <2>1. KindsKept
    BY <1>6, CommitKeepsKinds
  <2>2. CASE heap' = heap
    BY <1>1, <2>2, KeptGrows
  <2>3. CASE heap' # heap
    <3>1. heap' = [heap EXCEPT ![ccache].pick = arg[c]] /\ Commits(ccache)
      BY <1>6, <2>3 DEF SwitchCommit, Committed, Commits
    <3>2. /\ Len(heap') = Len(heap) /\ Len(heap) \in Nat
          /\ \A o \in 1 .. Len(heap) : o # ccache => heap'[o] = heap[o]
      BY <1>1, <3>1 DEF ProcessOK
    <3> QED
      BY <2>1, <3>1, <3>2 DEF HeapGrows, KindsKept, Commits
  <2> QED
    BY <2>2, <2>3
<1> QED
  BY <1>2, <1>3, <1>4, <1>5, <1>6 DEF SwitcherActs, SwitchStep

LEMMA WriterGrows ==
  ASSUME IInv, NEW c \in Writers, WriterActs(c)
  PROVE  HeapGrows
<1>1. ProcessOK
  BY Parts DEF IInv
<1>2. CASE StartWrite(c) \/ WriteSend(c)
  BY <1>1, <1>2, KeptGrows DEF StartWrite, WriteSend, process
<1>3. CASE WriteGet(c)
  BY <1>1, <1>3, ResolveGrows DEF WriteGet
<1> QED
  BY <1>2, <1>3 DEF WriterActs, WriteStep

LEMMA MigratorGrows ==
  ASSUME IInv, NEW c \in Migrators, MigratorActs(c)
  PROVE  HeapGrows
<1>1. ProcessOK
  BY Parts DEF IInv
<1>2. CASE StartMigrate(c) \/ MigrateMode(c) \/ MigrateLive(c) \/ MigrateExport(c)
  BY <1>1, <1>2, KeptGrows DEF StartMigrate, MigrateMode, MigrateLive, MigrateExport, process
<1>3. CASE MigrateLoad(c) \/ MigrateImport(c)
  BY <1>1, <1>3, KeptGrows DEF MigrateLoad, MigrateImport, process
<1>4. CASE MigrateSave(c) \/ MigrateFinish(c) \/ RevertSave(c)
  BY <1>1, <1>4, KeptGrows DEF MigrateSave, MigrateFinish, RevertSave
<1>5. CASE MigrateGet(c) \/ MigrateTarget(c)
  BY <1>1, <1>5, ResolveGrows DEF MigrateGet, MigrateTarget
<1>6. CASE ForwardDrop(c) \/ ForwardReset(c) \/ RevertDrop(c) \/ RevertReset(c)
  BY <1>1, <1>6, KeptGrows DEF ForwardDrop, ForwardReset, RevertDrop, RevertReset, Drop, Reset
<1>7. CASE ForwardBuild(c) \/ RevertBuild(c)
  BY <1>1, <1>7, BuildGrows DEF ForwardBuild, RevertBuild
<1> QED
  BY <1>2, <1>3, <1>4, <1>5, <1>6, <1>7 DEF MigratorActs, MigrateStep, RebuildStep

LEMMA StepGrows == ASSUME IInv, [Next]_vars PROVE HeapGrows
<1>1. UNCHANGED vars => HeapGrows
  BY KeptGrows, Parts DEF vars, process, IInv
<1> QED
  BY <1>1, OneActs, SwitcherGrows, WriterGrows, MigratorGrows
     DEF Acts, SwitcherActs, WriterActs, MigratorActs

-----------------------------------------------------------------------------
(* Writes. *)

\* A writer about to send has seen its backend, as it is now, as the live session.
WriteOK(c) ==
  /\ At(c, "w_send") => heap[src[c]] \in seen[c]
  /\ landed[c] # NoStore => landed[c] \in seen[c]

WritesOK == \A c \in Writers : WriteOK(c)

\* The live session after a step is that of an object in the common cache.
LEMMA SessionOfCache ==
  ASSUME IInv', ccache' # NoObj
  PROVE  Session' = heap'[ccache']
BY DEF IInv, TypeOK, Session, Obj, Objects, NoObj

LEMMA WriteStepOK ==
  ASSUME IInv, IInv', WritesOK, HNext, NEW c \in Writers
  PROVE  WriteOK(c)'
<1>1. c \in Calls /\ WriteOK(c)
  BY DEF WritesOK, Calls
<1>2. /\ seen'[c] = IF Running(c)' THEN seen[c] \cup {Session, Session'} ELSE seen[c]
      /\ seen[c] \subseteq seen'[c]
  BY DEF HNext
<1>3. ASSUME Same(c) PROVE WriteOK(c)'
  <2>1. ASSUME pc[c] = "w_send" PROVE heap'[src[c]] \in seen'[c]
    <3>1. src[c] \in 1 .. Len(heap)
      BY <1>1, <2>1, SourceOK, Parts DEF IInv, HasSource
    <3>2. CASE heap'[src[c]] = heap[src[c]]
      BY <1>1, <1>2, <2>1, <3>2 DEF WriteOK, At
    <3>3. CASE Commits(src[c])
      <4>1. ccache' # NoObj /\ heap'[src[c]] = heap'[ccache']
        BY <3>1, <3>3 DEF Commits, NoObj, IInv, TypeOK
      <4>2. Running(c)'
        BY <1>3, <2>1 DEF Running, Same
      <4> QED
        BY <1>2, <4>1, <4>2, SessionOfCache
    <3> QED
      BY <3>1, <3>2, <3>3, StepGrows DEF HNext, HeapGrows
  <2> QED
    BY <1>1, <1>2, <1>3, <2>1 DEF WriteOK, Same, At
<1>4. CASE StartWrite(c)
  BY <1>1, <1>2, <1>4 DEF StartWrite, WriteOK, At, Goto, locals, IInv, TypeOK
<1>5. CASE WriteGet(c)
  <2>1. CASE Resolve /\ src' = [src EXCEPT ![c] = Obj] /\ Goto(c, "w_send")
    <3>1. ccache' = Obj /\ src'[c] = Obj /\ pc'[c] = "w_send" /\ Obj # NoObj
      BY <1>1, <2>1, GetOK, Parts DEF Resolve, Goto, IInv, TypeOK
    <3>2. heap'[src'[c]] = Session'
      BY <3>1, SessionOfCache
    <3>3. Running(c)'
      BY <3>1 DEF Running
    <3> QED
      BY <1>1, <1>2, <1>5, <3>2, <3>3 DEF WriteGet, WriteOK
  <2>2. CASE End(c, "raised")
    BY <1>1, <1>2, <1>5, <2>2 DEF WriteGet, WriteOK, At, End, Goto, IInv, TypeOK
  <2> QED
    BY <1>5, <2>1, <2>2 DEF WriteGet
<1>6. CASE WriteSend(c)
  BY <1>1, <1>2, <1>6 DEF WriteSend, WriteOK, At, End, Goto, IInv, TypeOK
<1>7. Acts(c) => WriterActs(c)
  BY CallsAssumption DEF Acts, SwitcherActs, MigratorActs
<1>8. CASE UNCHANGED vars
  BY <1>3, <1>8 DEF vars, process, locals, Same
<1>9. UNCHANGED vars \/ Same(c) \/ Acts(c)
  BY <1>1, OneActs DEF HNext
<1> QED
  BY <1>3, <1>4, <1>5, <1>6, <1>7, <1>8, <1>9 DEF WriterActs, WriteStep

\* get_backend() and commit_if_current(): a write never reaches a store that was at no
\* moment of its call the live session's, whatever switches, migrations and failures
\* overlap it, and whether or not a key is found.
THEOREM WritesLandInSession == HSpec => []WriteLandsInSession
<1>1. HInit => IInv /\ WritesOK
  <2>1. HInit => WritesOK
    BY DEF HInit, Init, WritesOK, WriteOK, At, Calls
  <2> QED
    BY <2>1, InitOK DEF HInit
<1>2. IInv /\ WritesOK /\ [HNext]_hvars => (IInv /\ WritesOK)'
  <2> SUFFICES ASSUME IInv, WritesOK, [HNext]_hvars PROVE IInv' /\ WritesOK'
    OBVIOUS
  <2>1. IInv'
    BY NextOK DEF HNext, hvars
  <2>2. CASE HNext
    BY <2>1, <2>2, WriteStepOK DEF WritesOK
  <2>3. CASE UNCHANGED hvars
    <3>1. UNCHANGED <<heap, pc, src, landed, seen>>
      BY <2>3 DEF hvars, vars, process, locals
    <3> QED
      BY <2>1, <3>1 DEF WritesOK, WriteOK, At
  <2> QED
    BY <2>1, <2>2, <2>3
<1>3. WritesOK => WriteLandsInSession
  BY DEF WritesOK, WriteOK, WriteLandsInSession
<1> QED
  BY <1>1, <1>2, <1>3, PTL DEF HSpec

-----------------------------------------------------------------------------
(* What a migration holds while it runs, when the client does not overlap   *)
(* two migrations and a build does not raise.                               *)

\* The client never sends one of these calls while another of them runs.
Apart(S) == \A c, d \in S : <<c, d>> \notin MayOverlap
Alone(S) == \A c, d \in S : Running(c) /\ Running(d) => c = d

\* A migration on its way out of the source, and one that came into the target.
Leaving == {"m_live", "m_export", "m_load", "m_save", "f_drop", "f_build", "f_reset"}
Arrived == {"m_import", "m_finish", "r_save", "r_drop", "r_build", "r_reset"}

\* What a rebuild to m that carries ws leaves in the dispatch cache.
Rebuilt(m, ws) ==
  IF m = "remote" /\ ws # NoWs
  THEN dcache # NoObj /\ heap[dcache] = RemoteStore(ws)
  ELSE dcache = NoObj

\* Why the caches are one session: the source stays current until the rebuild
\* drops it, the mode is the target's until it is dropped again, and what either
\* rebuild carries is what it should.
TripOK(c) ==
  /\ pc[c] \in {"idle", "m_mode"} => from[c] = NoStore /\ landed[c] = NoStore
  /\ from[c] # NoStore => from[c].kind = mode[c]
  /\ landed[c] # NoStore => landed[c].kind = arg[c]
  /\ from[c] # NoStore \/ pc[c] \in HasSource \cup {"m_get"} => mode[c] # arg[c]
  /\ pc[c] \in {"m_get", "m_live", "m_export", "m_load", "m_save", "f_drop"} => env = mode[c]
  /\ pc[c] \in {"m_target", "m_import", "m_finish", "r_save", "r_drop"} => env = arg[c]
  /\ pc[c] \in HasSource => heap[src[c]].kind = mode[c]
  /\ pc[c] \in Leaving => ccache = src[c]
  /\ pc[c] \in Arrived => ccache # NoObj
  /\ pc[c] \in HasTarget => tgt[c] = ccache /\ heap[tgt[c]].kind = arg[c]
  /\ pc[c] \in {"f_drop", "f_build", "f_reset"} =>
       carry[c] = IF arg[c] = "remote" THEN parked ELSE NoWs
  /\ pc[c] \in {"r_build", "r_reset"} => carry[c] = PickRead(c)
  /\ pc[c] \in {"f_build", "r_build"} => dcache = NoObj
  /\ pc[c] = "f_reset" => Rebuilt(arg[c], carry[c])
  /\ pc[c] = "r_reset" => Rebuilt(mode[c], carry[c])

\* A switch about to commit onto a remote backend has a workspace of the listing.
NameOK(c) == At(c, "s_commit") /\ heap[src[c]].kind = "remote" => arg[c] \in Workspaces

TripInv ==
  /\ CacheInv /\ Alone(Migrators)
  /\ \A c \in Migrators : TripOK(c)
  /\ \A c \in Switchers : NameOK(c)

-----------------------------------------------------------------------------
(* And, when the client overlaps no switch with a migration either, what an *)
(* arrival brings back and what a save keeps.                               *)

\* A completed departure exported the workspace.
Departed(ws) == \E d \in Migrators : Completed(d, "local") /\ from[d] = RemoteStore(ws)

\* A migration to remote that carries a parked pick.
Returns(c) == arg[c] = "remote" /\ carry[c] # NoWs

\* Its rebuild leaves the process in the target's mode, and what a return holds from
\* then on is of the workspace it carries.
ReturnOK(c) ==
  /\ pc[c] = "m_export" /\ (mode[c] = "local" \/ heap[src[c]].kind = "local") => live[c] = NoWs
  /\ pc[c] \in HasConfig \cup {"m_load"} => live[c] = NoWs \/ from[c] = RemoteStore(live[c])
  /\ At(c, "m_target") => env = arg[c] /\ (ccache # NoObj => heap[ccache].kind = arg[c])
  /\ pc[c] \in HasTarget => heap[tgt[c]].kind = arg[c]
  /\ At(c, "m_finish") => landed[c] = heap[tgt[c]]
  /\ Completed(c, "remote") => landed[c] = RemoteStore(named[c])
  /\ reply[c] = "complete" => pc[c] = "done"
  /\ Returns(c) /\ (pc[c] \in {"f_drop", "f_build", "f_reset", "m_target", "m_import", "m_finish"}
                      \/ Completed(c, "remote")) => Departed(carry[c])
  /\ Returns(c) /\ pc[c] \in {"f_reset", "m_target"} =>
       dcache # NoObj /\ heap[dcache] = RemoteStore(carry[c])
  /\ Returns(c) /\ At(c, "m_target") => ccache \in {NoObj, dcache}
  /\ Returns(c) /\ pc[c] \in HasTarget => heap[tgt[c]] = RemoteStore(carry[c])
  /\ Returns(c) /\ Completed(c, "remote") => landed[c] = RemoteStore(carry[c])

\* The local store has no workspaces, so nothing of it is parked, also where a rebuild
\* that raised has left a local object in remote mode.
LocalHasNoPick == \A o \in 1 .. Len(heap) : heap[o].kind = "local" => heap[o].pick = NoWs

ReturnInv ==
  /\ LocalHasNoPick
  /\ parked # NoWs => Departed(parked)
  /\ \A c \in Migrators : ReturnOK(c)

\* What an older package's load_config() lays over the file's default.
Inherited(team) == file.package = "older" /\ EnvTeam # NoWs /\ team = EnvTeam

\* What a migration writes back keeps the default the file holds, or is the
\* environment's; no save changes the package.
KeptInv ==
  /\ \A c \in Calls : pc[c] \in HasConfig => held[c].package = file.package
  /\ \A c \in Migrators :
       pc[c] \in HasConfig => held[c].team = file.team \/ Inherited(held[c].team)
  /\ \A c \in Switchers : reply[c] = "saved" => pc[c] = "done"
  /\ SavedDefaultKept
-----------------------------------------------------------------------------
(* One call at a time: what the client's restraint gives. *)

LEMMA ActorReady == ASSUME NEW c \in Calls, Acts(c) PROVE Running(c) \/ MayStart(c)
<1>1. CASE StartSwitch(c) \/ StartWrite(c) \/ StartMigrate(c)
  BY <1>1 DEF StartSwitch, StartWrite, StartMigrate
<1>2. CASE SwitchStep(c)
  BY <1>2 DEF SwitchStep, SwitchGet, SwitchList, SwitchCommit, SwitchLabel, SwitchLoad,
              SwitchSave, At, Running
<1>3. CASE WriteStep(c)
  BY <1>3 DEF WriteStep, WriteGet, WriteSend, At, Running
<1>4. CASE MigrateStep(c)
  BY <1>4 DEF MigrateStep, MigrateMode, MigrateGet, MigrateLive, MigrateExport, MigrateLoad,
              MigrateSave, MigrateTarget, MigrateImport, MigrateFinish, RevertSave,
              RebuildStep, ForwardDrop, ForwardBuild, ForwardReset, RevertDrop, RevertBuild,
              RevertReset, At, Running
<1> QED
  BY <1>1, <1>2, <1>3, <1>4 DEF Acts, SwitcherActs, WriterActs, MigratorActs

LEMMA AloneStep ==
  ASSUME IInv, [Next]_vars, NEW S \in SUBSET Calls, Apart(S), Alone(S)
  PROVE  Alone(S)'
<1>1. UNCHANGED vars => \A d \in Calls : Running(d)' <=> Running(d)
  BY DEF vars, Running
<1>2. ASSUME NEW c \in Calls, Acts(c), \A d \in Calls \ {c} : Same(d)
      PROVE  Alone(S)'
  <2>1. \A d \in Calls \ {c} : Running(d)' <=> Running(d)
    BY <1>2 DEF Same, Running
  <2>2. MayStart(c) /\ c \in S => \A d \in S : ~Running(d)
    BY DEF MayStart, Apart
  <2>3. Running(c) \/ MayStart(c)
    BY <1>2, ActorReady
  <2>4. \A d, e \in S : Running(d)' /\ Running(e)' /\ d # e => FALSE
    BY <2>1, <2>2, <2>3 DEF Alone
  <2> QED
    BY <2>4 DEF Alone
<1> QED
  BY <1>1, <1>2, OneActs DEF Alone

\* While one of them runs, no other acts.
LEMMA OthersWait ==
  ASSUME IInv, NEW S \in SUBSET Calls, Apart(S), Alone(S),
         NEW c \in S, NEW d \in S, Running(c), Acts(d)
  PROVE  c = d
<1>1. Running(d) \/ MayStart(d)
  BY ActorReady
<1>2. MayStart(d) => \A e \in S : ~Running(e)
  BY DEF MayStart, Apart
<1> QED
  BY <1>1, <1>2 DEF Alone
-----------------------------------------------------------------------------
(* What the other calls may do to a migration under way. *)

Aside ==
  /\ UNCHANGED <<env, lock, parked>> /\ HeapGrows
  /\ UNCHANGED <<dcache, ccache>> \/ Resolve

LEMMA SwitcherAside == ASSUME IInv, NEW d \in Switchers, SwitcherActs(d) PROVE Aside
<1>1. HeapGrows
  BY SwitcherGrows
<1>2. CASE SwitchGet(d) \/ SwitchLabel(d)
  BY <1>1, <1>2 DEF Aside, SwitchGet, SwitchLabel, Resolve, ResolveRaises, process
<1>3. CASE StartSwitch(d) \/ SwitchList(d) \/ SwitchLoad(d)
  BY <1>1, <1>3 DEF Aside, StartSwitch, SwitchList, SwitchLoad, process
<1>4. CASE SwitchCommit(d) \/ SwitchSave(d)
  BY <1>1, <1>4 DEF Aside, SwitchCommit, SwitchSave
<1> QED
  BY <1>2, <1>3, <1>4 DEF SwitcherActs, SwitchStep

LEMMA WriterAside == ASSUME IInv, NEW d \in Writers, WriterActs(d) PROVE Aside
BY WriterGrows DEF Aside, WriterActs, StartWrite, WriteStep, WriteGet, WriteSend, Resolve,
                   ResolveRaises, process

\* get_backend() returns what the common cache holds, if it holds anything.
LEMMA ResolveKeepsCurrent ==
  ASSUME IInv, Resolve, ccache # NoObj
  PROVE  UNCHANGED <<dcache, ccache, heap>>
BY DEF IInv, TypeOK, Resolve, Obj, Objects, NoObj

LEMMA AsideKeepsTrip ==
  ASSUME IInv, CacheInv, NEW c \in Migrators, TripOK(c), Same(c), Aside
  PROVE  TripOK(c)'
<1>1. /\ c \in Calls /\ UNCHANGED <<env, lock, parked>>
      /\ pc'[c] = pc[c] /\ arg'[c] = arg[c] /\ mode'[c] = mode[c] /\ src'[c] = src[c]
      /\ tgt'[c] = tgt[c] /\ carry'[c] = carry[c] /\ from'[c] = from[c] /\ landed'[c] = landed[c]
  BY DEF Calls, Same, Aside
<1>2. ccache # NoObj => UNCHANGED <<dcache, ccache>>
  BY ResolveKeepsCurrent DEF Aside
<1>3. InRebuild(c) =>
        /\ UNCHANGED <<dcache, ccache>>
        /\ \A o \in 1 .. Len(heap) : heap'[o] = heap[o]
  BY <1>1, CallsAssumption DEF CacheInv, LockDiscipline, Aside, HeapGrows, Commits, Resolve
<1>4. /\ pc[c] \in HasSource => src[c] \in 1 .. Len(heap)
      /\ tgt[c] # NoObj => tgt[c] \in 1 .. Len(heap)
      /\ dcache # NoObj => dcache \in 1 .. Len(heap)
      /\ pc[c] \in HasSource => src[c] # NoObj
      /\ pc[c] \in HasTarget => tgt[c] # NoObj
  BY <1>1, SourceOK, Parts DEF IInv, TypeOK, LocalsOK, CallOK, Objects, NoObj
<1>5. \A o \in 1 .. Len(heap) : heap'[o].kind = heap[o].kind
  BY DEF Aside, HeapGrows
<1>6. /\ pc[c] \in HasSource => heap'[src[c]].kind = mode[c]
      /\ pc[c] \in HasTarget => tgt[c] = ccache' /\ heap'[tgt[c]].kind = arg[c]
  BY <1>2, <1>4, <1>5 DEF TripOK
<1>7. /\ pc[c] \in Leaving => ccache' = src[c]
      /\ pc[c] \in Arrived => ccache' # NoObj
  BY <1>2, <1>4 DEF TripOK, Leaving, HasSource
<1>8. /\ pc[c] \in {"f_build", "r_build"} => dcache' = NoObj
      /\ pc[c] \in {"r_build", "r_reset"} => PickRead(c)' = PickRead(c)
      /\ pc[c] = "f_reset" => Rebuilt(arg[c], carry[c])'
      /\ pc[c] = "r_reset" => Rebuilt(mode[c], carry[c])'
  BY <1>1, <1>3, <1>4 DEF TripOK, InRebuild, PickRead, Rebuilt, HasSource
<1> QED
  BY <1>1, <1>6, <1>7, <1>8 DEF TripOK
-----------------------------------------------------------------------------
(* The migration's own steps. *)

\* get_backend() returns a backend of the mode the process is in.
LEMMA ResolveFinds ==
  ASSUME IInv, IInv', CacheInv', ~KeyMayBeMissing, Resolve
  PROVE  /\ Obj # NoObj /\ ccache' = Obj /\ heap'[Obj].kind = env /\ UNCHANGED <<env, lock, parked>>
         /\ \A o \in 1 .. Len(heap) : heap'[o] = heap[o]
<1>1. Obj # NoObj /\ ccache' = Obj /\ lock' = Free /\ env' = env
  BY GetOK, Parts DEF Resolve, IInv, ProcessOK
<1>2. heap' = heap \/ \E b \in Built(env, NoWs) : heap' = Append(heap, b)
  BY DEF Resolve
<1>3. \A o \in 1 .. Len(heap) : heap'[o] = heap[o]
  BY <1>2, AppendKeeps, Parts DEF IInv
<1> QED
  BY <1>1, <1>3 DEF CacheInv, Resolve

\* build_backend(m, ws) builds what carries ws.
LEMMA BuildCarries ==
  ASSUME IInv, NEW c \in Migrators, NEW m, Build(c, m), dcache = NoObj
  PROVE  /\ carry' = carry => Rebuilt(m, carry[c])'
         /\ \A o \in 1 .. Len(heap) : heap'[o] = heap[o]
<1>1. CASE m = "remote" /\ carry[c] # NoWs
  <2>1. PICK b \in Built(m, carry[c]) : heap' = Append(heap, b) /\ dcache' = Len(heap) + 1
    BY <1>1 DEF Build
  <2>2. b = RemoteStore(carry[c])
    BY <1>1, <2>1 DEF Built, TeamOf
  <2> QED
    BY <1>1, <2>1, <2>2, AppendProperties DEF IInv, TypeOK, Rebuilt, NoObj
<1>2. CASE ~(m = "remote" /\ carry[c] # NoWs)
  BY <1>2 DEF Build, Rebuilt
<1> QED
  BY <1>1, <1>2

LEMMA OwnKeepsTrip ==
  ASSUME IInv, CacheInv, IInv', CacheInv', ~KeyMayBeMissing,
         NEW c \in Migrators, TripOK(c), MigratorActs(c)
  PROVE  TripOK(c)'
<1>1. /\ c \in Calls /\ CallsTyped
      /\ pc[c] \in HasSource => src[c] \in 1 .. Len(heap)
      /\ pc[c] \in HasTarget => tgt[c] # NoObj
  BY SourceOK, Parts DEF Calls, IInv, LocalsOK, CallOK
<1>2. \A m : ~MayRaise(m)
  BY DEF MayRaise
<1> USE DEF HasSource, HasTarget, Leaving, Arrived
<1>3. CASE StartMigrate(c)
  BY <1>1, <1>3 DEF TripOK, StartMigrate, MayStart, At, Goto, CallsTyped, process
<1>4. CASE MigrateMode(c)
  BY <1>1, <1>4 DEF TripOK, MigrateMode, At, Goto, End, CallsTyped, process
<1>5. CASE MigrateGet(c)
  <2>1. CASE Resolve /\ src' = [src EXCEPT ![c] = Obj] /\ Goto(c, "m_live")
    BY <1>1, <1>5, <2>1, ResolveFinds DEF TripOK, MigrateGet, At, Goto, CallsTyped
  <2> QED
    BY <1>2, <1>5, <2>1 DEF MigrateGet, ResolveRaises
<1>6. CASE MigrateLive(c)
  BY <1>1, <1>6 DEF TripOK, MigrateLive, At, Goto, CallsTyped, process
<1>7. CASE MigrateExport(c)
  <2>1. ExportStore(c).kind = mode[c]
    BY <1>1, <1>7 DEF TripOK, MigrateExport, At, ExportStore, RemoteStore
  <2> QED
    BY <1>1, <1>7, <2>1 DEF TripOK, MigrateExport, At, Goto, End, CallsTyped, process
<1>8. CASE MigrateLoad(c)
  BY <1>1, <1>8 DEF TripOK, MigrateLoad, At, Goto, End, CallsTyped, process
<1>9. CASE MigrateSave(c)
  BY <1>1, <1>9 DEF TripOK, MigrateSave, At, Goto, End, CallsTyped
<1>10. CASE MigrateTarget(c)
  <2>1. CASE Resolve /\ tgt' = [tgt EXCEPT ![c] = Obj] /\ Goto(c, "m_import")
    BY <1>1, <1>10, <2>1, ResolveFinds DEF TripOK, MigrateTarget, At, Goto, CallsTyped
  <2> QED
    BY <1>2, <1>10, <2>1 DEF MigrateTarget, ResolveRaises
<1>11. CASE MigrateImport(c)
  BY <1>1, <1>11 DEF TripOK, MigrateImport, At, Goto, CallsTyped, process
<1>12. CASE MigrateFinish(c)
  BY <1>1, <1>12 DEF TripOK, MigrateFinish, At, Goto, End, CallsTyped
<1>13. CASE RevertSave(c)
  BY <1>1, <1>13 DEF TripOK, RevertSave, RevertFails, At, Goto, End, CallsTyped
<1>14. CASE ForwardDrop(c)
  BY <1>1, <1>14 DEF TripOK, ForwardDrop, Drop, At, Goto, CallsTyped, locals
<1>15. CASE ForwardBuild(c)
  <2>1. Build(c, arg[c]) /\ Goto(c, "f_reset") /\ UNCHANGED locals /\ At(c, "f_build")
    BY <1>2, <1>15 DEF ForwardBuild, BuildRaises
  <2>2. UNCHANGED <<env, ccache, lock, parked>>
    BY <2>1 DEF Build
  <2>3. Rebuilt(arg[c], carry[c])' /\ \A o \in 1 .. Len(heap) : heap'[o] = heap[o]
    BY <2>1, BuildCarries DEF TripOK, At, locals, Rebuilt
  <2> QED
    BY <1>1, <2>1, <2>2, <2>3 DEF TripOK, At, Goto, CallsTyped, locals
<1>16. CASE ForwardReset(c)
  BY <1>1, <1>16 DEF TripOK, ForwardReset, Reset, CacheInv, InRebuild, Going, At, Goto, CallsTyped, locals
<1>17. CASE RevertDrop(c)
  BY <1>1, <1>17 DEF TripOK, RevertDrop, Drop, PickRead, At, Goto, CallsTyped
<1>18. CASE RevertBuild(c)
  <2>1. /\ Build(c, mode[c]) /\ Goto(c, "r_reset") /\ At(c, "r_build")
        /\ UNCHANGED <<arg, mode, src, tgt, live, carry, held, from, landed, named>>
    BY <1>2, <1>18 DEF RevertBuild, BuildRaises
  <2>2. UNCHANGED <<env, ccache, lock, parked>>
    BY <2>1 DEF Build
  <2>3. Rebuilt(mode[c], carry[c])' /\ \A o \in 1 .. Len(heap) : heap'[o] = heap[o]
    BY <2>1, BuildCarries DEF TripOK, At, Rebuilt
  <2> QED
    BY <1>1, <2>1, <2>2, <2>3 DEF TripOK, PickRead, At, Goto, CallsTyped
<1>19. CASE RevertReset(c)
  BY <1>1, <1>19 DEF TripOK, RevertReset, Reset, At, Goto, End, CallsTyped
<1> QED
  BY <1>3, <1>4, <1>5, <1>6, <1>7, <1>8, <1>9, <1>10, <1>11, <1>12, <1>13, <1>14, <1>15, <1>16,
     <1>17, <1>18, <1>19 DEF MigratorActs, MigrateStep, RebuildStep
LEMMA NameStep ==
  ASSUME IInv, [Next]_vars, NEW c \in Switchers, NameOK(c)
  PROVE  NameOK(c)'
<1>1. /\ c \in Calls /\ CallsTyped /\ HeapGrows
      /\ At(c, "s_commit") => src[c] \in 1 .. Len(heap)
  BY SourceOK, StepGrows, Parts DEF Calls, IInv, HasSource, At
<1>2. CASE UNCHANGED vars \/ Same(c)
  <2>1. pc'[c] = pc[c] /\ arg'[c] = arg[c] /\ src'[c] = src[c]
    BY <1>2 DEF Same, vars, locals
  <2> QED
    BY <1>1, <2>1 DEF NameOK, At, HeapGrows
<1>3. CASE SwitchList(c)
  BY <1>1, <1>3 DEF NameOK, SwitchList, Resolvable, At, Goto, End, process, CallsTyped
<1>4. CASE SwitcherActs(c) /\ ~SwitchList(c)
  <2>1. pc'[c] # "s_commit"
    BY <1>1, <1>4 DEF SwitcherActs, SwitchStep, StartSwitch, SwitchGet, SwitchCommit, SwitchLabel,
                      SwitchLoad, SwitchSave, At, Goto, End, CallsTyped
  <2> QED
    BY <2>1 DEF NameOK, At
<1>5. Acts(c) => SwitcherActs(c)
  BY CallsAssumption DEF Acts, WriterActs, MigratorActs
<1>6. UNCHANGED vars \/ Same(c) \/ Acts(c)
  BY <1>1, OneActs
<1> QED
  BY <1>2, <1>3, <1>4, <1>5, <1>6

LEMMA TripStep ==
  ASSUME IInv, TripInv, [Next]_vars, ~KeyMayBeMissing, Apart(Migrators)
  PROVE  TripInv'
<1>1. IInv' /\ CacheInv' /\ CacheInv
  BY NextOK, CacheInvInductive DEF TripInv
<1>2. Alone(Migrators)'
  BY AloneStep DEF TripInv, Calls
<1>3. ASSUME NEW c \in Migrators PROVE TripOK(c)'
  <2>1. c \in Calls /\ TripOK(c)
    BY DEF TripInv, Calls
  <2>2. CASE UNCHANGED vars
    <3>1. /\ UNCHANGED <<env, dcache, ccache, heap, parked>>
          /\ UNCHANGED <<pc, arg, mode, src, tgt, carry, from, landed>>
      BY <2>2 DEF vars, process, locals
    <3> QED
      BY <2>1, <3>1 DEF TripOK, PickRead, Rebuilt
  <2>3. CASE Acts(c)
    <3>1. MigratorActs(c)
      BY <2>3, CallsAssumption DEF Acts, SwitcherActs, WriterActs
    <3> QED
      BY <1>1, <2>1, <3>1, OwnKeepsTrip
  <2>4. ASSUME NEW d \in Calls, Acts(d), Same(c), d # c PROVE TripOK(c)'
    <3>1. CASE SwitcherActs(d) \/ WriterActs(d)
      <4>1. Aside
        BY <3>1, SwitcherAside, WriterAside DEF SwitcherActs, WriterActs
      <4> QED
        BY <1>1, <2>1, <2>4, <4>1, AsideKeepsTrip
    <3>2. CASE MigratorActs(d)
      <4>1. ~Running(c)
        BY <2>1, <2>4, <3>2, OthersWait DEF MigratorActs, TripInv, Calls
      <4>2. pc[c] \in {"idle", "done"} /\ pc'[c] = pc[c]
        BY <2>4, <4>1 DEF Running, Same
      <4>3. pc[c] \notin HasSource \cup {"m_get"} \cup Arrived \cup Leaving \cup HasTarget
        BY <4>2 DEF HasSource, Arrived, Leaving, HasTarget
      <4> QED
        BY <2>1, <2>4, <4>2, <4>3 DEF TripOK, Same
    <3> QED
      BY <2>4, <3>1, <3>2 DEF Acts
  <2> QED
    BY <2>1, <2>2, <2>3, <2>4, OneActs
<1> QED
  BY <1>1, <1>2, <1>3, NameStep DEF TripInv

LEMMA TripInvHolds == ~KeyMayBeMissing /\ Apart(Migrators) => (Spec => []TripInv)
<1> SUFFICES ASSUME ~KeyMayBeMissing, Apart(Migrators) PROVE Spec => []TripInv
  OBVIOUS
<1>1. Init => TripInv
  <2> SUFFICES ASSUME Init PROVE TripInv
    OBVIOUS
  <2>1. CacheInv
    BY CallsAssumption DEF Init, CacheInv, LockDiscipline, InRebuild
  <2>2. \A c \in Calls : pc[c] = "idle" /\ from[c] = NoStore /\ landed[c] = NoStore
    BY DEF Init
  <2> QED
    BY <2>1, <2>2 DEF TripInv, Alone, Running, TripOK, NameOK, At, Calls, HasSource, Leaving,
                      Arrived, HasTarget
<1>2. IInv /\ TripInv /\ [Next]_vars => TripInv'
  BY TripStep
<1> QED
  BY <1>1, <1>2, IInvHolds, PTL DEF Spec

\* memory_migrate refuses "migrating onto itself": when migrations do not overlap and
\* a build does not raise, no import reaches the kind of backend its export read.
THEOREM NeverOntoItself == ~KeyMayBeMissing /\ Apart(Migrators) => (Spec => []NoSelfImport)
<1>1. TripInv => NoSelfImport
  BY DEF TripInv, TripOK, NoSelfImport
<1> QED
  BY <1>1, TripInvHolds, PTL
-----------------------------------------------------------------------------
(* The caches implement one live session. *)

\* The session as a process with these caches has it.
LEMMA SessionIs ==
  ASSUME IInv
  PROVE  /\ ccache # NoObj => Session = heap[ccache]
         /\ ccache = NoObj /\ dcache # NoObj => Session = heap[dcache]
         /\ ccache = NoObj /\ dcache = NoObj => Session = [kind |-> env, pick |-> Unbuilt]
BY DEF IInv, TypeOK, Session, Obj, Objects, NoObj

LEMMA SessionNowIs ==
  ASSUME IInv'
  PROVE  /\ ccache' # NoObj => Session' = heap'[ccache']
         /\ ccache' = NoObj /\ dcache' # NoObj => Session' = heap'[dcache']
         /\ ccache' = NoObj /\ dcache' = NoObj => Session' = [kind |-> env', pick |-> Unbuilt]
BY DEF IInv, TypeOK, Session, Obj, Objects, NoObj

LEMMA SessionKept == ASSUME UNCHANGED <<env, dcache, ccache, heap>> PROVE Session' = Session
BY DEF Session, Obj

\* The trip of the one migration that may be travelling.
TripOf(c) ==
  IF Travelling(c)
  THEN [to |-> arg[c], left |-> IF arg[c] = "local" THEN heap[src[c]].pick ELSE NoWs]
  ELSE [to |-> "none", left |-> NoWs]

LEMMA OnlyTrip ==
  ASSUME NEW c \in Migrators, \A d \in Migrators \ {c} : ~Travelling(d)
  PROVE  Trip = TripOf(c)
<1>1. CASE Travelling(c)
  <2>1. c = CHOOSE d \in Migrators : Travelling(d)
    BY <1>1
  <2> QED
    BY <1>1, <2>1, Zenon DEF Trip, TripOf
<1>2. CASE ~Travelling(c)
  BY <1>2, Zenon DEF Trip, TripOf
<1> QED
  BY <1>1, <1>2

LEMMA OnlyTripNow ==
  ASSUME NEW c \in Migrators, \A d \in Migrators \ {c} : ~Travelling(d)'
  PROVE  Trip' = TripOf(c)'
<1>1. CASE Travelling(c)'
  <2>1. c = CHOOSE d \in Migrators : Travelling(d)'
    BY <1>1
  <2> QED
    BY <1>1, <2>1, Zenon DEF Trip, TripOf
<1>2. CASE ~Travelling(c)'
  BY <1>2, Zenon DEF Trip, TripOf
<1> QED
  BY <1>1, <1>2
LEMMA TravellingRuns == ASSUME NEW c, Travelling(c) PROVE Running(c)
BY DEF Travelling, Running

\* Nothing the other calls do moves the trip: a commit reaches the current backend,
\* and that is not the one a trip has left.
LEMMA AsideKeepsTheTrip ==
  ASSUME IInv, TripInv, ~KeyMayBeMissing, Aside, \A c \in Migrators : Same(c)
  PROVE  Trip' = Trip /\ parked' = parked
<1>1. \A c \in Migrators : Travelling(c)' <=> Travelling(c)
  BY DEF Same, Travelling
<1>2. CASE \A c \in Migrators : ~Travelling(c)
  BY <1>1, <1>2, Zenon DEF Trip, Aside
<1>3. ASSUME NEW c \in Migrators, Travelling(c) PROVE Trip' = Trip
  <2>1. \A d \in Migrators \ {c} : ~Travelling(d) /\ ~Travelling(d)'
    BY <1>1, <1>3, TravellingRuns DEF TripInv, Alone
  <2>2. Trip = TripOf(c) /\ Trip' = TripOf(c)'
    BY <2>1, OnlyTrip, OnlyTripNow
  <2>3. heap'[src[c]].pick = heap[src[c]].pick
    <3>1. c \in Calls /\ pc[c] \in HasSource /\ src[c] \in 1 .. Len(heap) /\ TripOK(c)
      BY <1>3, SourceOK, Parts DEF Calls, IInv, Travelling, HasSource, TripInv
    <3>2. ~Commits(src[c])
      <4>1. CASE pc[c] \in {"r_build", "r_reset"}
        BY <3>1, <4>1, CallsAssumption DEF TripInv, CacheInv, LockDiscipline, InRebuild, Commits
      <4>2. CASE pc[c] \in {"m_target", "m_import", "m_finish", "r_save", "r_drop"}
        <5>1. src[c] # NoObj /\ heap[src[c]].kind = mode[c] /\ mode[c] # arg[c] /\ env = arg[c]
          BY <3>1, <4>2 DEF TripOK, NoObj
        <5> QED
          BY <5>1 DEF TripInv, CacheInv, Commits
      <4> QED
        BY <1>3, <4>1, <4>2 DEF Travelling
    <3> QED
      BY <3>1, <3>2 DEF Aside, HeapGrows
  <2> QED
    BY <1>1, <1>3, <2>2, <2>3 DEF TripOf, Same
<1> QED
  BY <1>2, <1>3 DEF Aside

\* get_backend() is the first use of a backend not yet built, or changes nothing.
LEMMA ResolveRefines ==
  ASSUME IInv, IInv', Resolve, Trip' = Trip
  PROVE  Live!FirstUse \/ UNCHANGED Live!vars
<1>1. CASE ccache # NoObj \/ dcache # NoObj
  <2>1. /\ heap' = heap /\ parked' = parked /\ ccache' = Obj /\ Obj # NoObj
        /\ Obj = IF ccache # NoObj THEN ccache ELSE dcache
    BY <1>1 DEF Resolve, Obj, IInv, TypeOK, Objects, NoObj
  <2>2. Session' = Session
    BY <1>1, <2>1, SessionIs, SessionNowIs
  <2> QED
    BY <2>1, <2>2 DEF Live!vars
<1>2. CASE ccache = NoObj /\ dcache = NoObj
  <2>1. /\ Obj = Len(heap) + 1 /\ Obj > Len(heap) /\ ccache' = Obj /\ ccache' # NoObj
        /\ Len(heap) \in Nat
    BY <1>2 DEF Resolve, Obj, IInv, TypeOK, NoObj
  <2>2. PICK b \in Built(env, NoWs) : heap' = Append(heap, b)
    BY <2>1 DEF Resolve
  <2>3. b \in Store /\ b.kind = env
    BY <2>2, BuiltOK, Parts DEF IInv, ProcessOK, Picks
  <2>4. Session' = b
    BY <2>1, <2>2, <2>3, SessionNowIs, AppendProperties DEF IInv, TypeOK
  <2>5. env = "local" => b.pick = NoWs
    BY <2>2 DEF Built, LocalStore
  <2>6. b = [[kind |-> env, pick |-> Unbuilt] EXCEPT !.pick = b.pick]
    BY <2>3 DEF Store
  <2>7. Session = [kind |-> env, pick |-> Unbuilt]
    BY <1>2, SessionIs
  <2>8. b.pick \in Picks /\ parked' = parked
    BY <2>3 DEF Store, Resolve
  <2> QED
    BY <2>3, <2>4, <2>5, <2>6, <2>7, <2>8 DEF Live!FirstUse
<1> QED
  BY <1>1, <1>2

\* A commit onto the current remote backend is the switch of the session.
LEMMA CommitRefines ==
  ASSUME IInv, IInv', NEW d \in Switchers, NameOK(d), SwitchCommit(d), Trip' = Trip
  PROVE  Live!Switch \/ UNCHANGED Live!vars
<1>1. UNCHANGED <<env, dcache, ccache, lock, parked>> /\ d \in Calls
  BY DEF SwitchCommit, Calls
<1>2. CASE heap' = heap
  BY <1>1, <1>2, SessionKept DEF Live!vars
<1>3. CASE heap' # heap
  <2>1. /\ src[d] = ccache /\ heap[src[d]].kind = "remote" /\ arg[d] \in Workspaces
        /\ heap' = [heap EXCEPT ![src[d]].pick = arg[d]]
    BY <1>3 DEF SwitchCommit, Committed, NameOK
  <2>2. src[d] \in 1 .. Len(heap) /\ heap[src[d]] \in Store
    BY <1>1, SourceOK, Parts DEF IInv, SwitchCommit, At, HasSource
  <2>3. Session = heap[ccache] /\ Session' = heap'[ccache]
    BY <1>1, <2>1, <2>2, SessionIs, SessionNowIs DEF NoObj
  <2>4. heap'[ccache] = [kind |-> "remote", pick |-> arg[d]]
    BY <2>1, <2>2 DEF Store, IInv, TypeOK
  <2>5. Session.pick # Unbuilt
    BY <2>1, <2>2, <2>3, UnbuiltAssumption DEF Store
  <2> QED
    BY <1>1, <2>1, <2>3, <2>4, <2>5 DEF Live!Switch, Live!At
<1> QED
  BY <1>2, <1>3

LEMMA OthersRefine ==
  ASSUME IInv, IInv', TripInv, ~KeyMayBeMissing, NEW d \in Switchers \cup Writers, Acts(d),
         \A c \in Calls \ {d} : Same(c)
  PROVE  Live!Next \/ UNCHANGED Live!vars
<1>1. SwitcherActs(d) \/ WriterActs(d)
  BY CallsAssumption DEF Acts, MigratorActs
<1>2. Aside /\ \A c \in Migrators : Same(c)
  BY <1>1, SwitcherAside, WriterAside, CallsAssumption DEF SwitcherActs, WriterActs, Calls
<1>3. Trip' = Trip /\ parked' = parked
  BY <1>2, AsideKeepsTheTrip
<1>4. CASE Resolve
  BY <1>3, <1>4, ResolveRefines DEF Live!Next
<1>5. CASE UNCHANGED <<env, dcache, ccache, heap>>
  BY <1>3, <1>5, SessionKept DEF Live!vars
<1>6. CASE d \in Switchers /\ SwitchCommit(d)
  BY <1>3, <1>6, CommitRefines DEF Live!Next, TripInv
<1>7. Resolve \/ UNCHANGED <<env, dcache, ccache, heap>> \/ (d \in Switchers /\ SwitchCommit(d))
  BY <1>1 DEF SwitcherActs, StartSwitch, SwitchStep, SwitchGet, SwitchList, SwitchLabel, SwitchLoad,
              SwitchSave, WriterActs, StartWrite, WriteStep, WriteGet, WriteSend, ResolveRaises, process
<1> QED
  BY <1>4, <1>5, <1>6, <1>7
\* The forward rebuild's last step leaves the remote session, or arrives in it.
LEMMA ResetRefines ==
  ASSUME IInv, IInv', TripInv, NEW c \in Migrators, ForwardReset(c),
         Trip = TripOf(c), Trip' = TripOf(c)'
  PROVE  Live!Leave \/ Live!Arrive
<1>1. /\ c \in Calls /\ TripOK(c) /\ CallsTyped /\ ccache' = NoObj /\ arg[c] \in Modes
      /\ pc[c] = "f_reset" /\ pc'[c] = "m_target" /\ UNCHANGED <<env, dcache, heap, parked, locals>>
      /\ src[c] \in 1 .. Len(heap) /\ heap[src[c]] \in Store /\ parked \in Picks
  BY SourceOK, Parts DEF Calls, TripInv, IInv, ProcessOK, ForwardReset, Reset, At, Goto, CallsTyped,
                         HasSource, LocalsOK, CallOK
<1>2. /\ ccache = src[c] /\ mode[c] # arg[c] /\ heap[src[c]].kind = mode[c] /\ mode[c] \in Modes
      /\ carry[c] = (IF arg[c] = "remote" THEN parked ELSE NoWs) /\ Rebuilt(arg[c], carry[c])
  BY <1>1, Parts DEF TripOK, Leaving, HasSource, IInv, LocalsOK, CallOK
<1>3. env' = arg[c]
  BY <1>1 DEF TripInv, CacheInv, InRebuild, Going
<1>4. Session = heap[src[c]] /\ Trip = Live!AtHome
  BY <1>1, <1>2, SessionIs DEF NoObj, TripOf, Travelling, Live!AtHome
<1>5. Trip' = [to |-> arg[c], left |-> IF arg[c] = "local" THEN heap[src[c]].pick ELSE NoWs]
  BY <1>1 DEF TripOf, Travelling, locals
<1>6. CASE arg[c] = "local"
  <2>1. dcache' = NoObj
    BY <1>1, <1>2, <1>6 DEF Rebuilt
  <2>2. Session' = Live!At("local", Unbuilt)
    BY <1>1, <1>3, <1>6, <2>1, SessionNowIs DEF Live!At
  <2>3. Session.kind = "remote" /\ Session.pick # Unbuilt
    BY <1>1, <1>2, <1>4, <1>6, UnbuiltAssumption DEF Store, Modes
  <2> QED
    BY <1>1, <1>4, <1>5, <1>6, <2>2, <2>3 DEF Live!Leave
<1>7. CASE arg[c] = "remote"
  <2>1. Session.kind = "local"
    BY <1>2, <1>4, <1>7 DEF Modes
  <2>2. CASE parked = NoWs
    BY <1>1, <1>2, <1>3, <1>4, <1>5, <1>7, <2>1, <2>2, SessionNowIs
       DEF Live!Arrive, Live!Returning, Live!At, Rebuilt
  <2>3. CASE parked # NoWs
    BY <1>1, <1>2, <1>3, <1>4, <1>5, <1>7, <2>1, <2>3, SessionNowIs
       DEF Live!Arrive, Live!Returning, Live!At, Rebuilt, RemoteStore
  <2> QED
    BY <2>2, <2>3
<1> QED
  BY <1>1, <1>6, <1>7 DEF Modes

\* The revert's last step turns the session back, with the pick it left.
LEMMA BackRefines ==
  ASSUME IInv, IInv', TripInv, NEW c \in Migrators, RevertReset(c),
         Trip = TripOf(c), Trip' = TripOf(c)'
  PROVE  Live!TurnBack
<1>1. /\ c \in Calls /\ TripOK(c) /\ CallsTyped /\ ccache' = NoObj /\ arg[c] \in Modes
      /\ pc[c] = "r_reset" /\ pc'[c] = "done" /\ UNCHANGED <<env, dcache, heap, parked>>
      /\ src[c] \in 1 .. Len(heap) /\ heap[src[c]] \in Store
  BY SourceOK, Parts DEF Calls, TripInv, IInv, ProcessOK, RevertReset, Reset, At, Goto, End,
                         CallsTyped, HasSource, LocalsOK, CallOK
<1>2. /\ mode[c] # arg[c] /\ mode[c] \in Modes
      /\ carry[c] = PickRead(c) /\ Rebuilt(mode[c], carry[c])
  BY <1>1, Parts DEF TripOK, HasSource, IInv, LocalsOK, CallOK
<1>3. env' = mode[c]
  BY <1>1 DEF TripInv, CacheInv, InRebuild, Going
<1>4. /\ Trip' = Live!AtHome /\ Trip # Live!AtHome /\ Trip.to = arg[c]
      /\ arg[c] = "local" => Trip.left = heap[src[c]].pick
  BY <1>1 DEF TripOf, Travelling, Live!AtHome, Modes
<1>5. CASE mode[c] = "local"
  <2>1. dcache' = NoObj
    BY <1>1, <1>2, <1>5 DEF Rebuilt
  <2>2. Session' = Live!At("local", Unbuilt)
    BY <1>1, <1>3, <1>5, <2>1, SessionNowIs DEF Live!At
  <2> QED
    BY <1>1, <1>2, <1>4, <1>5, <2>2 DEF Live!TurnBack
<1>6. CASE mode[c] = "remote"
  <2>1. Trip.to = "local" /\ Trip.left = heap[src[c]].pick /\ carry[c] = heap[src[c]].pick
    BY <1>1, <1>2, <1>4, <1>6 DEF Modes, PickRead
  <2>2. Session' = Live!Returning(carry[c])
    <3>1. CASE carry[c] = NoWs
      BY <1>1, <1>2, <1>3, <1>6, <3>1, SessionNowIs DEF Live!Returning, Live!At, Rebuilt
    <3>2. CASE carry[c] # NoWs
      BY <1>1, <1>2, <1>3, <1>6, <3>2, SessionNowIs DEF Live!Returning, Live!At, Rebuilt, RemoteStore
    <3> QED
      BY <3>1, <3>2
  <2> QED
    BY <1>1, <1>4, <2>1, <2>2 DEF Live!TurnBack
<1> QED
  BY <1>2, <1>5, <1>6 DEF Modes

LEMMA MigratorRefines ==
  ASSUME IInv, IInv', TripInv, ~KeyMayBeMissing, Apart(Migrators),
         NEW c \in Migrators, MigratorActs(c), \A d \in Calls \ {c} : Same(d)
  PROVE  Live!Next \/ UNCHANGED Live!vars
<1>1. /\ c \in Calls /\ TripOK(c) /\ CallsTyped
      /\ pc[c] \in HasSource => src[c] \in 1 .. Len(heap) /\ src[c] # NoObj
  BY SourceOK, Parts DEF Calls, TripInv, IInv, NoObj
<1>2. Trip = TripOf(c) /\ Trip' = TripOf(c)'
  <2>1. ASSUME NEW d \in Migrators, d # c PROVE ~Travelling(d)
    <3>1. Acts(c) /\ Migrators \in SUBSET Calls /\ Alone(Migrators)
      BY DEF Acts, Calls, TripInv
    <3> QED
      BY <2>1, <3>1, OthersWait, TravellingRuns
  <2>2. \A d \in Migrators \ {c} : ~Travelling(d)'
    BY <2>1 DEF Same, Travelling, Calls
  <2> QED
    BY <2>1, <2>2, OnlyTrip, OnlyTripNow
<1>3. \A m : ~MayRaise(m)
  BY DEF MayRaise
<1>4. CASE StartMigrate(c) \/ MigrateMode(c) \/ MigrateLive(c) \/ MigrateExport(c)
  <2>1. UNCHANGED process /\ ~Travelling(c) /\ ~Travelling(c)'
    BY <1>1, <1>4 DEF StartMigrate, MayStart, MigrateMode, MigrateLive, MigrateExport, At, Goto,
                      End, CallsTyped, Travelling
  <2> QED
    BY <1>2, <2>1, SessionKept DEF process, TripOf, Live!vars
<1>5. CASE MigrateLoad(c) \/ MigrateSave(c)
  <2>1. UNCHANGED <<env, dcache, ccache, heap, parked>> /\ ~Travelling(c) /\ ~Travelling(c)'
    BY <1>1, <1>5 DEF MigrateLoad, MigrateSave, process, At, Goto, End, CallsTyped, Travelling
  <2> QED
    BY <1>2, <2>1, SessionKept DEF TripOf, Live!vars
<1>6. CASE MigrateGet(c)
  <2>1. Resolve /\ ~Travelling(c) /\ ~Travelling(c)'
    BY <1>1, <1>3, <1>6 DEF MigrateGet, ResolveRaises, At, Goto, End, CallsTyped, Travelling
  <2> QED
    BY <1>2, <2>1, ResolveRefines DEF TripOf, Live!Next
<1>7. CASE ForwardDrop(c) \/ ForwardBuild(c)
  <2>1. /\ ~Travelling(c) /\ ~Travelling(c)' /\ parked' = parked
        /\ ccache' = ccache /\ ccache = src[c]
    BY <1>1, <1>3, <1>7 DEF ForwardDrop, ForwardBuild, Drop, Build, BuildRaises, TripOK, Leaving,
                            At, Goto, CallsTyped, Travelling
  <2>2. heap'[ccache] = heap[ccache]
    BY <1>1, <1>3, <1>7, <2>1, BuildCarries
       DEF ForwardDrop, ForwardBuild, Drop, BuildRaises, TripOK, At, HasSource
  <2>3. Session' = Session
    BY <1>1, <1>7, <2>1, <2>2, SessionIs, SessionNowIs DEF ForwardDrop, ForwardBuild, At, HasSource
  <2> QED
    BY <1>2, <2>1, <2>3 DEF TripOf, Live!vars
<1>8. CASE ForwardReset(c)
  BY <1>2, <1>8, ResetRefines DEF Live!Next
<1>9. CASE MigrateTarget(c)
  <2>1. Resolve /\ Travelling(c) /\ Travelling(c)' /\ UNCHANGED <<arg, src>> /\ pc[c] \in HasSource
    BY <1>1, <1>3, <1>9 DEF MigrateTarget, ResolveRaises, At, Goto, CallsTyped, Travelling, HasSource
  <2>2. heap'[src[c]] = heap[src[c]]
    BY <1>1, <2>1, AppendKeeps, Parts DEF Resolve, IInv
  <2> QED
    BY <1>2, <2>1, <2>2, ResolveRefines DEF TripOf, Live!Next
<1>10. CASE MigrateImport(c)
  <2>1. UNCHANGED process /\ UNCHANGED <<arg, src>> /\ Travelling(c) /\ Travelling(c)'
    BY <1>1, <1>10 DEF MigrateImport, At, Goto, CallsTyped, Travelling
  <2> QED
    BY <1>2, <2>1, SessionKept DEF process, TripOf, Live!vars
<1>11. CASE MigrateFinish(c)
  <2>1. /\ UNCHANGED <<env, dcache, ccache, heap>> /\ Travelling(c) /\ ~Travelling(c)'
        /\ arg[c] \in Modes /\ live[c] \in Picks
        /\ parked' = IF arg[c] = "local" THEN live[c] ELSE NoWs
    BY <1>1, <1>11, Parts DEF MigrateFinish, At, Goto, End, CallsTyped, Travelling, IInv, LocalsOK,
                              CallOK
  <2> QED
    BY <1>2, <2>1, SessionKept DEF TripOf, Live!Settle, Live!AtHome, Live!Next, Modes
<1>12. CASE RevertSave(c)
  <2>1. /\ UNCHANGED <<env, dcache, ccache, heap, parked, arg, src>> /\ Travelling(c)
        /\ arg[c] \in Modes
    BY <1>1, <1>12, Parts DEF RevertSave, RevertFails, At, Travelling, IInv, LocalsOK, CallOK
  <2> QED
    BY <1>2, <2>1, SessionKept DEF TripOf, Live!Strand, Live!AtHome, Live!Next, Live!vars, Modes
<1>13. CASE RevertDrop(c) \/ RevertBuild(c)
  <2>1. /\ Travelling(c) /\ Travelling(c)' /\ parked' = parked /\ UNCHANGED <<arg, src>>
        /\ ccache' = ccache /\ ccache # NoObj /\ pc[c] \in HasSource
    BY <1>1, <1>3, <1>13 DEF RevertDrop, RevertBuild, Drop, Build, BuildRaises, TripOK, Arrived,
                             At, Goto, CallsTyped, Travelling, HasSource
  <2>2. \A o \in 1 .. Len(heap) : heap'[o] = heap[o]
    BY <1>1, <1>3, <1>13, BuildCarries DEF RevertDrop, RevertBuild, Drop, BuildRaises, TripOK, At
  <2>3. Session' = Session
    BY <2>1, <2>2, SessionIs, SessionNowIs DEF IInv, TypeOK, Objects, NoObj
  <2> QED
    BY <1>1, <1>2, <2>1, <2>2, <2>3 DEF TripOf, Live!vars
<1>14. CASE RevertReset(c)
  BY <1>2, <1>14, BackRefines DEF Live!Next
<1> QED
  BY <1>4, <1>5, <1>6, <1>7, <1>8, <1>9, <1>10, <1>11, <1>12, <1>13, <1>14
     DEF MigratorActs, MigrateStep, RebuildStep
LEMMA StepRefines ==
  ASSUME IInv, IInv', TripInv, ~KeyMayBeMissing, Apart(Migrators), [Next]_vars
  PROVE  [Live!Next]_Live!vars
<1>1. CASE UNCHANGED vars
  <2>1. UNCHANGED <<env, dcache, ccache, heap, parked>> /\ UNCHANGED <<pc, arg, src>>
    BY <1>1 DEF vars, process, locals
  <2>2. Session' = Session
    BY <2>1, SessionKept
  <2>3. Trip' = Trip
    <3>1. \A c \in Migrators : Travelling(c)' <=> Travelling(c)
      BY <2>1 DEF Travelling
    <3>2. CASE \A c \in Migrators : ~Travelling(c)
      BY <3>1, <3>2, Zenon DEF Trip
    <3>3. ASSUME NEW c \in Migrators, Travelling(c) PROVE Trip' = Trip
      <4>1. \A d \in Migrators \ {c} : ~Travelling(d) /\ ~Travelling(d)'
        BY <3>1, <3>3, TravellingRuns DEF TripInv, Alone
      <4>2. Trip = TripOf(c) /\ Trip' = TripOf(c)'
        BY <4>1, OnlyTrip, OnlyTripNow
      <4> QED
        BY <2>1, <3>1, <4>2 DEF TripOf
    <3> QED
      BY <3>2, <3>3
  <2> QED
    BY <2>1, <2>2, <2>3 DEF Live!vars
<1>2. ASSUME NEW c \in Calls, Acts(c), \A d \in Calls \ {c} : Same(d)
      PROVE  Live!Next \/ UNCHANGED Live!vars
  <2>1. CASE c \in Migrators
    <3>1. MigratorActs(c)
      BY <1>2, <2>1, CallsAssumption DEF Acts, SwitcherActs, WriterActs
    <3> QED
      BY <1>2, <2>1, <3>1, MigratorRefines
  <2>2. CASE c \in Switchers \cup Writers
    BY <1>2, <2>2, OthersRefine
  <2> QED
    BY <2>1, <2>2 DEF Calls
<1> QED
  BY <1>1, <1>2, OneActs

\* dispatch.rebuild_lock, commit_if_current and revert(): when migrations do not overlap
\* and a build does not raise, the two caches, the lock and the rebuilds implement the one
\* live session of LiveSession, whatever switches and writes overlap a migration and
\* wherever it fails.
THEOREM CachesAreOneSession == ~KeyMayBeMissing /\ Apart(Migrators) => (Spec => RefinesSession)
<1> SUFFICES ASSUME ~KeyMayBeMissing, Apart(Migrators) PROVE Spec => RefinesSession
  OBVIOUS
<1>1. Init => Live!Init
  <2> SUFFICES ASSUME Init PROVE Live!Init
    OBVIOUS
  <2>1. IInv /\ env \in Modes /\ ccache = NoObj /\ dcache = NoObj /\ parked = NoWs
    BY InitOK, EnvironmentAssumption DEF Init
  <2>2. Session = Live!At("local", Unbuilt) \/ Session = Live!At("remote", Unbuilt)
    BY <2>1, SessionIs DEF Live!At, Modes
  <2>3. \A c \in Migrators : ~Travelling(c)
    BY DEF Init, Travelling, Calls
  <2>4. Trip = Live!AtHome
    BY <2>3, Zenon DEF Trip, Live!AtHome
  <2> QED
    BY <2>1, <2>2, <2>4 DEF Live!Init
<1>2. IInv /\ IInv' /\ TripInv /\ [Next]_vars => [Live!Next]_Live!vars
  BY StepRefines
<1> QED
  BY <1>1, <1>2, IInvHolds, TripInvHolds, PTL DEF Spec, RefinesSession, Live!Spec
-----------------------------------------------------------------------------
(* What a save keeps, when migrations and switches come one at a time. *)

Movers == Migrators \cup Switchers

LEMMA AloneHolds == Apart(Movers) => (Spec => []Alone(Movers))
<1> SUFFICES ASSUME Apart(Movers) PROVE Spec => []Alone(Movers)
  OBVIOUS
<1>1. Init => Alone(Movers)
  BY DEF Init, Alone, Running, Movers, Calls
<1>2. IInv /\ Alone(Movers) /\ [Next]_vars => Alone(Movers)'
  BY AloneStep DEF Movers, Calls
<1> QED
  BY <1>1, <1>2, IInvHolds, PTL DEF Spec

\* Once a call has ended it takes no step.
LEMMA DoneStays ==
  ASSUME IInv, [Next]_vars, NEW c \in Calls, pc[c] = "done"
  PROVE  Same(c)
<1>1. ~Acts(c)
  BY ActorReady DEF Running, MayStart, At
<1>2. UNCHANGED vars => Same(c)
  BY DEF vars, locals, Same
<1> QED
  BY <1>1, <1>2, OneActs

\* While a migration runs, no switch and no other migration takes a step.
LEMMA OnlyWritesBeside ==
  ASSUME IInv, Alone(Movers), Apart(Movers), NEW c \in Migrators, Running(c),
         NEW d \in Calls, Acts(d), d # c
  PROVE  WriterActs(d)
<1>1. d \notin Movers
  BY OthersWait DEF Movers, Calls
<1> QED
  BY <1>1 DEF Acts, SwitcherActs, MigratorActs, Movers

LEMMA ConfigRuns == ASSUME NEW c, pc[c] \in HasConfig PROVE Running(c)
BY DEF HasConfig, Running

\* The package stays, and what a call loads is of that package.
PackageKept ==
  /\ file'.package = file.package
  /\ \A c \in Calls : pc'[c] \in HasConfig => held'[c].package = file.package

LEMMA StepKeepsPackage ==
  ASSUME IInv, KeptInv, NEW c \in Calls, Acts(c), \A d \in Calls \ {c} : Same(d)
  PROVE  PackageKept
<1>1. /\ ProcessOK /\ CallsTyped /\ (pc[c] \in HasConfig => held[c] \in Config)
      /\ \A d \in Calls \ {c} : pc'[d] = pc[d] /\ held'[d] = held[d]
  BY Parts DEF IInv, Same, LocalsOK, CallOK
<1>2. pc[c] \in HasConfig => held[c].package = file.package
  BY DEF KeptInv
<1>3. file'.package = file.package /\ (pc'[c] \in HasConfig => held'[c].package = file.package)
  <2> USE DEF HasConfig
  <2>1. CASE MigrateSave(c) \/ RevertSave(c) \/ SwitchSave(c)
    BY <1>1, <1>2, <2>1 DEF MigrateSave, RevertSave, RevertFails, SwitchSave, At, Goto, End, CallsTyped, Config
  <2>2. CASE MigrateLoad(c) \/ SwitchLoad(c)
    <3>1. file' = file
      BY <2>2 DEF MigrateLoad, SwitchLoad, process
    <3>2. pc'[c] \in HasConfig => held'[c] = FileLayer /\ "ok" \in Outcomes
      BY <1>1, <2>2 DEF MigrateLoad, SwitchLoad, Goto, End, CallsTyped
    <3> QED
      BY <1>1, <3>1, <3>2, LayerOK
  <2>3. CASE StartMigrate(c) \/ MigrateMode(c) \/ MigrateGet(c) \/ MigrateLive(c) \/ MigrateExport(c)
    BY <1>1, <2>3 DEF StartMigrate, MigrateMode, MigrateGet, MigrateLive, MigrateExport, Goto, End,
                      CallsTyped, process, Resolve, ResolveRaises
  <2>4. CASE MigrateTarget(c) \/ MigrateImport(c) \/ MigrateFinish(c)
    BY <1>1, <1>2, <2>4 DEF MigrateTarget, MigrateImport, MigrateFinish, At, Goto, End,
                            CallsTyped, process, Resolve, ResolveRaises
  <2>5. CASE RebuildStep(c)
    BY <1>1, <1>2, <2>5 DEF RebuildStep, ForwardDrop, ForwardBuild, ForwardReset, RevertDrop,
                            RevertBuild, RevertReset, RevertFails, Drop, Build, BuildRaises, Reset,
                            At, Goto, End, CallsTyped, locals
  <2>6. CASE StartSwitch(c) \/ SwitchGet(c) \/ SwitchList(c) \/ SwitchCommit(c) \/ SwitchLabel(c)
    BY <1>1, <2>6 DEF StartSwitch, SwitchGet, SwitchList, SwitchCommit, SwitchLabel, Goto, End,
                      CallsTyped, process, Resolve, ResolveRaises
  <2>7. CASE WriterActs(c)
    BY <1>1, <2>7 DEF WriterActs, StartWrite, WriteStep, WriteGet, WriteSend, Goto, End,
                      CallsTyped, process, Resolve, ResolveRaises
  <2> QED
    BY <2>1, <2>2, <2>3, <2>4, <2>5, <2>6, <2>7
       DEF Acts, SwitcherActs, SwitchStep, MigratorActs, MigrateStep
<1>4. \A d \in Calls \ {c} : pc'[d] \in HasConfig => held'[d].package = file.package
  BY <1>1 DEF KeptInv
<1> QED
  BY <1>3, <1>4 DEF PackageKept

\* A switch's default stays the file's when it is not under way with a migration.
LEMMA SwitcherKeepsDefault ==
  ASSUME IInv, KeptInv, PackageKept, Alone(Movers), Apart(Movers), NEW c \in Switchers,
         SwitcherActs(c), \A d \in Calls \ {c} : Same(d)
  PROVE  KeptInv'
<1>1. c \in Calls /\ CallsTyped /\ \A d \in Calls \ {c} : reply'[d] = reply[d] /\ pc'[d] = pc[d] /\ arg'[d] = arg[d]
  BY Parts DEF Calls, IInv, Same
<1>2. \A d \in Migrators : pc'[d] \notin HasConfig
  <2>1. ASSUME NEW d \in Migrators, pc[d] \in HasConfig PROVE FALSE
    <3>1. Acts(c) /\ c # d /\ Running(d)
      BY <2>1, ConfigRuns, CallsAssumption DEF Acts
    <3>2. WriterActs(c)
      BY <1>1, <3>1, OnlyWritesBeside
    <3> QED
      BY <3>2, CallsAssumption DEF WriterActs
  <2> QED
    BY <1>1, <2>1, CallsAssumption DEF Calls
<1>3. pc[c] # "done" /\ reply[c] # "saved"
  <2>1. Running(c) \/ MayStart(c)
    BY <1>1, ActorReady DEF Acts
  <2> QED
    BY <2>1 DEF Running, MayStart, At, KeptInv
<1>4. \A d \in Calls : pc'[d] \in HasConfig => held'[d].package = file'.package
  BY DEF PackageKept
<1>5. CASE SwitchSave(c) /\ reply'[c] = "saved"
  <2>1. held[c] \in Config
    BY <1>1, <1>5 DEF SwitchSave, At, HasConfig, IInv, LocalsOK, CallOK
  <2>2. file'.team = arg'[c] /\ pc'[c] = "done"
    BY <1>1, <1>5, <2>1 DEF SwitchSave, End, Goto, CallsTyped, Config
  <2> QED
    BY <1>1, <1>2, <1>4, <1>5, <2>2 DEF KeptInv, SavedDefaultKept, Calls
<1>6. CASE reply'[c] # "saved"
  <2>1. file' = file
    BY <1>1, <1>6 DEF SwitcherActs, StartSwitch, SwitchStep, SwitchGet, SwitchList, SwitchCommit,
                      SwitchLabel, SwitchLoad, SwitchSave, Resolve, ResolveRaises, process, End,
                      CallsTyped
  <2> QED
    BY <1>1, <1>2, <1>3, <1>4, <1>6, <2>1 DEF KeptInv, SavedDefaultKept, Calls
<1>7. reply'[c] = "saved" => SwitchSave(c)
  BY <1>1, <1>3 DEF SwitcherActs, StartSwitch, SwitchStep, SwitchGet, SwitchList, SwitchCommit,
                    SwitchLabel, SwitchLoad, Resolve, ResolveRaises, process, End, CallsTyped
<1> QED
  BY <1>5, <1>6, <1>7

\* A migration writes back the default it read.
LEMMA MigratorKeepsDefault ==
  ASSUME IInv, KeptInv, PackageKept, Alone(Movers), Apart(Movers), NEW c \in Migrators,
         MigratorActs(c), \A d \in Calls \ {c} : Same(d)
  PROVE  KeptInv'
<1>1. /\ c \in Calls /\ ProcessOK /\ CallsTyped
      /\ \A d \in Calls \ {c} : reply'[d] = reply[d] /\ pc'[d] = pc[d] /\ arg'[d] = arg[d] /\ held'[d] = held[d]
      /\ pc[c] \in HasConfig => held[c] \in Config
  BY Parts DEF Calls, IInv, Same, LocalsOK, CallOK
<1>2. \A d \in Migrators \ {c} : pc'[d] \notin HasConfig
  <2>1. ASSUME NEW d \in Migrators, d # c, pc[d] \in HasConfig PROVE FALSE
    <3>1. Acts(c) /\ Running(d)
      BY <2>1, ConfigRuns DEF Acts
    <3>2. WriterActs(c)
      BY <1>1, <2>1, <3>1, OnlyWritesBeside
    <3> QED
      BY <3>2, CallsAssumption DEF WriterActs
  <2> QED
    BY <1>1, <2>1 DEF Calls
<1>3. pc[c] \in HasConfig => held[c].team = file.team \/ Inherited(held[c].team)
  BY DEF KeptInv
<1>4. /\ file'.team = file.team \/ Inherited(file'.team)
      /\ pc'[c] \in HasConfig => held'[c].team = file'.team \/ Inherited(held'[c].team)
  <2> USE DEF HasConfig
  <2>1. CASE MigrateSave(c) \/ RevertSave(c)
    <3>1. pc[c] \in HasConfig /\ held' = held
      BY <2>1 DEF MigrateSave, RevertSave, At
    <3>2. file' = file \/ file'.team = held[c].team
      BY <1>1, <2>1, <3>1 DEF MigrateSave, RevertSave, Config
    <3> QED
      BY <1>3, <3>1, <3>2
  <2>2. CASE MigrateLoad(c)
    <3>1. file' = file
      BY <2>2 DEF MigrateLoad, process
    <3>2. pc'[c] \in HasConfig => held'[c] = FileLayer /\ "ok" \in Outcomes
      BY <1>1, <2>2 DEF MigrateLoad, Goto, End, CallsTyped
    <3> QED
      BY <1>1, <3>1, <3>2, LayerOK DEF Inherited
  <2>3. CASE StartMigrate(c) \/ MigrateMode(c) \/ MigrateGet(c) \/ MigrateLive(c) \/ MigrateExport(c)
    BY <1>1, <2>3 DEF StartMigrate, MigrateMode, MigrateGet, MigrateLive, MigrateExport, Goto, End,
                      CallsTyped, process, Resolve, ResolveRaises
  <2>4. CASE MigrateTarget(c) \/ MigrateImport(c) \/ MigrateFinish(c)
    BY <1>1, <1>3, <2>4 DEF MigrateTarget, MigrateImport, MigrateFinish, At, Goto, End,
                            CallsTyped, process, Resolve, ResolveRaises
  <2>5. CASE RebuildStep(c)
    BY <1>1, <1>3, <2>5 DEF RebuildStep, ForwardDrop, ForwardBuild, ForwardReset, RevertDrop,
                            RevertBuild, RevertReset, RevertFails, Drop, Build, BuildRaises, Reset,
                            At, Goto, End, CallsTyped, locals
  <2> QED
    BY <2>1, <2>2, <2>3, <2>4, <2>5 DEF MigratorActs, MigrateStep
<1>5. \A d \in Switchers : d # c /\ d \in Calls
  BY CallsAssumption DEF Calls
<1>6. SavedDefaultKept'
  <2>1. \A d \in Switchers : reply'[d] = reply[d] /\ arg'[d] = arg[d]
    BY <1>1, <1>5
  <2>2. SavedDefaultKept /\ file'.package = file.package
    BY DEF KeptInv, PackageKept
  <2>3. CASE Inherited(file'.team)
    BY <2>2, <2>3 DEF SavedDefaultKept, Inherited
  <2>4. CASE file'.team = file.team
    BY <2>1, <2>2, <2>4 DEF SavedDefaultKept
  <2> QED
    BY <1>4, <2>3, <2>4
<1>7. \A d \in Migrators :
        pc'[d] \in HasConfig => held'[d].team = file'.team \/ Inherited(held[d].team)'
  <2>1. pc'[c] \in HasConfig => held'[c].team = file'.team \/ Inherited(held[c].team)'
    BY <1>4 DEF PackageKept, Inherited
  <2> QED
    BY <1>2, <2>1
<1>8. \A d \in Calls : pc'[d] \in HasConfig => held'[d].package = file'.package
  BY DEF PackageKept
<1> QED
  BY <1>1, <1>5, <1>6, <1>7, <1>8 DEF KeptInv

LEMMA WriterKeepsDefault ==
  ASSUME IInv, KeptInv, PackageKept, NEW c \in Writers, WriterActs(c),
         \A d \in Calls \ {c} : Same(d)
  PROVE  KeptInv'
<1>1. file' = file
  BY DEF WriterActs, StartWrite, WriteStep, WriteGet, WriteSend, Resolve, ResolveRaises, process
<1>2. \A d \in Movers :
        pc'[d] = pc[d] /\ held'[d] = held[d] /\ reply'[d] = reply[d] /\ arg'[d] = arg[d]
  BY CallsAssumption DEF Movers, Calls, Same
<1>3. \A d \in Calls : pc'[d] \in HasConfig => held'[d].package = file'.package
  BY DEF PackageKept
<1> QED
  BY <1>1, <1>2, <1>3 DEF KeptInv, SavedDefaultKept, Inherited, Movers

\* switch_workspace: "Saved as the default".  When switches and migrations come one at a
\* time, the file keeps the default some such reply saved, whatever a migration writes,
\* reverts or fails to write; over a package that cannot leave the environment out, a
\* migration may put SMARTMEMORY_TEAM_ID in its place, and nothing else.
THEOREM DefaultKept == Apart(Movers) => (Spec => []SavedDefaultKept)
<1> SUFFICES ASSUME Apart(Movers) PROVE Spec => []SavedDefaultKept
  OBVIOUS
<1>1. Init => KeptInv
  BY DEF Init, KeptInv, SavedDefaultKept, HasConfig, Calls
<1>2. IInv /\ KeptInv /\ Alone(Movers) /\ [Next]_vars => KeptInv'
  <2> SUFFICES ASSUME IInv, KeptInv, Alone(Movers), [Next]_vars PROVE KeptInv'
    OBVIOUS
  <2>1. CASE UNCHANGED vars
    BY <2>1 DEF vars, process, locals, KeptInv, SavedDefaultKept, Inherited
  <2>2. ASSUME NEW c \in Calls, Acts(c), \A d \in Calls \ {c} : Same(d) PROVE KeptInv'
    BY <2>2, StepKeepsPackage, SwitcherKeepsDefault, MigratorKeepsDefault, WriterKeepsDefault
       DEF Acts, SwitcherActs, WriterActs, MigratorActs
  <2> QED
    BY <2>1, <2>2, OneActs
<1>3. KeptInv => SavedDefaultKept
  BY DEF KeptInv
<1> QED
  BY <1>1, <1>2, <1>3, IInvHolds, AloneHolds, PTL DEF Spec
-----------------------------------------------------------------------------
(* Where an arrival brings the data, under the same restraint. *)

LEMMA DepartedStays ==
  ASSUME IInv, ReturnInv, [Next]_vars, NEW ws, Departed(ws)
  PROVE  Departed(ws)'
<1>1. PICK d \in Migrators : Completed(d, "local") /\ from[d] = RemoteStore(ws)
  BY DEF Departed
<1>2. d \in Calls /\ pc[d] = "done"
  BY <1>1 DEF ReturnInv, ReturnOK, Completed, Calls
<1>3. Same(d)
  BY <1>2, DoneStays
<1>4. Completed(d, "local")' /\ from'[d] = RemoteStore(ws)
  BY <1>1, <1>3 DEF Same, Completed
<1> QED
  BY <1>4 DEF Departed

LEMMA ResolveBuilds ==
  ASSUME Resolve
  PROVE  heap' = heap \/ \E m, ws : \E b \in Built(m, ws) : heap' = Append(heap, b)
BY DEF Resolve

\* A step builds an object, gives a remote one another pick, or leaves all as they are.
LEMMA HeapStep ==
  ASSUME NEW c \in Calls, Acts(c)
  PROVE  \/ heap' = heap
         \/ \E m, ws : \E b \in Built(m, ws) : heap' = Append(heap, b)
         \/ \E o, ws : heap' = Committed(o, ws)
<1>1. CASE SwitcherActs(c)
  <2>1. Resolve \/ heap' = heap \/ \E ws : heap' = Committed(src[c], ws)
    BY <1>1 DEF SwitcherActs, StartSwitch, SwitchStep, SwitchGet, SwitchList, SwitchCommit,
                SwitchLabel, SwitchLoad, SwitchSave, ResolveRaises, process
  <2> QED
    BY <2>1, ResolveBuilds
<1>2. CASE WriterActs(c)
  <2>1. Resolve \/ heap' = heap
    BY <1>2 DEF WriterActs, StartWrite, WriteStep, WriteGet, WriteSend, ResolveRaises, process
  <2> QED
    BY <2>1, ResolveBuilds
<1>3. CASE MigratorActs(c)
  <2>1. Resolve \/ heap' = heap \/ \E m : Build(c, m)
    BY <1>3 DEF MigratorActs, StartMigrate, MigrateStep, MigrateMode, MigrateGet, MigrateLive,
                MigrateExport, MigrateLoad, MigrateSave, MigrateTarget, MigrateImport,
                MigrateFinish, RevertSave, RebuildStep, ForwardDrop, ForwardBuild, ForwardReset,
                RevertDrop, RevertBuild, RevertReset, Drop, BuildRaises, Reset, ResolveRaises, process
  <2> QED
    BY <2>1, ResolveBuilds DEF Build
<1> QED
  BY <1>1, <1>2, <1>3 DEF Acts

LEMMA LocalStaysPickless ==
  ASSUME IInv, LocalHasNoPick, NEW c \in Calls, Acts(c)
  PROVE  LocalHasNoPick'
<1>1. heap \in Seq(Store)
  BY DEF IInv, TypeOK
<1>2. CASE heap' = heap
  BY <1>2 DEF LocalHasNoPick
<1>3. ASSUME NEW m, NEW ws, NEW b \in Built(m, ws), heap' = Append(heap, b) PROVE LocalHasNoPick'
  <2>1. b.kind = "local" => b.pick = NoWs
    BY <1>3 DEF Built, LocalStore, RemoteStore
  <2>2. Len(heap') = Len(heap) + 1 /\ heap'[Len(heap) + 1] = b /\ Len(heap) \in Nat
        /\ \A o \in 1 .. Len(heap) : heap'[o] = heap[o]
    BY <1>1, <1>3, AppendProperties
  <2> QED
    BY <2>1, <2>2 DEF LocalHasNoPick
<1>4. ASSUME NEW o, NEW ws, heap' = Committed(o, ws) PROVE LocalHasNoPick'
  <2>1. Len(heap') = Len(heap)
    BY <1>1, <1>4 DEF Committed
  <2>2. \A p \in 1 .. Len(heap) : heap'[p] = heap[p] \/ heap'[p].kind = "remote"
    BY <1>1, <1>4 DEF Committed, Store
  <2> QED
    BY <2>1, <2>2 DEF LocalHasNoPick
<1> QED
  BY <1>2, <1>3, <1>4, HeapStep

\* Only a build changes the objects beside a migration when no switch runs.
LEMMA WriterKeepsObjects ==
  ASSUME IInv, NEW d \in Writers, WriterActs(d)
  PROVE  \A o \in 1 .. Len(heap) : heap'[o] = heap[o]
<1>1. heap' = heap \/ \E b \in Built(env, NoWs) : heap' = Append(heap, b)
  BY DEF WriterActs, StartWrite, WriteStep, WriteGet, WriteSend, Resolve, ResolveRaises, process
<1> QED
  BY <1>1, AppendKeeps, Parts DEF IInv

\* Where the common cache was dropped, get_backend() returns what is in the dispatch
\* cache or builds, in the mode of the process.
LEMMA ResolveAfterReset ==
  ASSUME IInv, CacheInv', Resolve
  PROVE  /\ Obj # NoObj /\ ccache' = Obj /\ env' = env
         /\ ccache # NoObj => Obj = ccache /\ heap' = heap
         /\ ccache = NoObj => heap'[Obj].kind = env
         /\ dcache # NoObj => dcache' = dcache
         /\ ccache = NoObj /\ dcache # NoObj => Obj = dcache /\ heap' = heap
<1>1. Obj # NoObj /\ ccache' = Obj /\ env' = env
  BY DEF Resolve, Obj, IInv, TypeOK, Objects, NoObj
<1>2. /\ ccache # NoObj => Obj = ccache /\ heap' = heap
      /\ dcache # NoObj => dcache' = dcache
      /\ ccache = NoObj /\ dcache # NoObj => Obj = dcache /\ heap' = heap
      /\ ccache = NoObj => dcache' = Obj
  BY DEF Resolve, Obj, IInv, TypeOK, Objects, NoObj
<1> QED
  BY <1>1, <1>2 DEF CacheInv

\* build_backend() with a workspace to carry leaves an object of it in the dispatch cache.
LEMMA BuildReturns ==
  ASSUME IInv, NEW c \in Migrators, Build(c, arg[c]), Returns(c)
  PROVE  dcache' # NoObj /\ heap'[dcache'] = RemoteStore(carry[c])
<1>1. PICK b \in Built(arg[c], carry[c]) : heap' = Append(heap, b) /\ dcache' = Len(heap) + 1
  BY DEF Build, Returns
<1>2. b = RemoteStore(carry[c])
  BY <1>1 DEF Built, TeamOf, Returns
<1> QED
  BY <1>1, <1>2, AppendProperties DEF IInv, TypeOK, NoObj

LEMMA OthersKeepReturn ==
  ASSUME IInv, CacheInv', ReturnInv, Alone(Movers), Apart(Movers), [Next]_vars,
         NEW c \in Migrators, NEW d \in Calls, Acts(d), Same(c), d # c
  PROVE  ReturnOK(c)'
<1>1. /\ c \in Calls /\ ReturnOK(c) /\ \A ws : Departed(ws) => Departed(ws)'
      /\ pc[c] \in HasTarget => tgt[c] \in 1 .. Len(heap)
      /\ pc[c] \in HasSource => src[c] \in 1 .. Len(heap)
      /\ dcache # NoObj => dcache \in 1 .. Len(heap)
      /\ ccache # NoObj => ccache \in 1 .. Len(heap)
  BY DepartedStays, SourceOK, Parts
     DEF Calls, ReturnInv, IInv, CallsTyped, ProcessOK, LocalsOK, CallOK, Objects, NoObj
<1>2. /\ pc'[c] = pc[c] /\ arg'[c] = arg[c] /\ from'[c] = from[c] /\ live'[c] = live[c]
      /\ tgt'[c] = tgt[c] /\ landed'[c] = landed[c] /\ named'[c] = named[c] /\ src'[c] = src[c]
      /\ carry'[c] = carry[c] /\ reply'[c] = reply[c] /\ mode'[c] = mode[c]
  BY DEF Same
<1>3. CASE Running(c)
  <2>1. WriterActs(d) /\ d \in Writers
    BY <1>3, OnlyWritesBeside DEF WriterActs
  <2>2. \A o \in 1 .. Len(heap) : heap'[o] = heap[o]
    BY <2>1, WriterKeepsObjects
  <2>3. Resolve \/ UNCHANGED process
    BY <2>1 DEF WriterActs, StartWrite, WriteStep, WriteGet, WriteSend, ResolveRaises
  <2>4. env' = env /\ (dcache # NoObj => dcache' = dcache)
    BY <2>3, ResolveAfterReset DEF process
  <2>5. At(c, "m_target") =>
          /\ ccache' # NoObj => heap'[ccache'].kind = arg[c]
          /\ Returns(c) => ccache' \in {NoObj, dcache}
    <3>1. CASE Resolve
      BY <1>1, <2>2, <3>1, ResolveAfterReset DEF ReturnOK, At
    <3>2. CASE UNCHANGED process
      BY <1>1, <2>2, <3>2 DEF ReturnOK, At, process
    <3> QED
      BY <2>3, <3>1, <3>2
  <2> QED
    BY <1>1, <1>2, <2>2, <2>4, <2>5 DEF ReturnOK, Completed, Returns, At, HasTarget, HasSource
<1>4. CASE ~Running(c)
  <2>1. pc[c] \in {"idle", "done"}
    BY <1>4 DEF Running
  <2> QED
    BY <1>1, <1>2, <2>1 DEF ReturnOK, Completed, Returns, At, HasTarget, HasConfig
<1> QED
  BY <1>3, <1>4

LEMMA OwnKeepsReturn ==
  ASSUME IInv, CacheInv, CacheInv', ReturnInv, [Next]_vars,
         NEW c \in Migrators, MigratorActs(c)
  PROVE  ReturnOK(c)'
<1>1. /\ c \in Calls /\ ReturnOK(c) /\ CallsTyped
      /\ \A ws : Departed(ws) => Departed(ws)'
      /\ pc[c] \in HasSource => src[c] \in 1 .. Len(heap) /\ heap[src[c]] \in Store
      /\ pc[c] \in HasTarget => tgt[c] \in 1 .. Len(heap) /\ heap[tgt[c]] \in Store
      /\ dcache # NoObj => dcache \in 1 .. Len(heap)
      /\ pc[c] \in HasSource => arg[c] \in Modes /\ mode[c] \in Modes
  BY DepartedStays, SourceOK, TargetOK, Parts
     DEF Calls, ReturnInv, IInv, CallsTyped, ProcessOK, LocalsOK, CallOK, Objects, NoObj,
         HasSource
<1>3. pc[c] # "done" /\ reply[c] # "complete"
  <2>1. Running(c) \/ MayStart(c)
    BY <1>1, ActorReady DEF Acts
  <2> QED
    BY <1>1, <2>1 DEF Running, MayStart, At, ReturnOK
<1> USE DEF HasSource, HasConfig, HasTarget, Completed, Returns, At
<1>4. CASE StartMigrate(c) \/ MigrateMode(c)
  BY <1>1, <1>3, <1>4 DEF ReturnOK, StartMigrate, MayStart, MigrateMode, Goto, End,
                          CallsTyped, process
<1>5. CASE MigrateLive(c)
  <2>1. (mode[c] = "local" \/ heap[src[c]].kind = "local") => PickRead(c) = NoWs
    BY <1>1, <1>5 DEF MigrateLive, PickRead, ReturnInv, LocalHasNoPick
  <2> QED
    BY <1>1, <1>3, <1>5, <2>1 DEF ReturnOK, MigrateLive, Goto, CallsTyped, process
<1>6. CASE MigrateGet(c) \/ MigrateLoad(c)
  BY <1>1, <1>3, <1>6 DEF ReturnOK, MigrateGet, MigrateLoad, Goto, End, CallsTyped
<1>7. CASE MigrateExport(c)
  <2>1. live[c] = NoWs \/ ExportStore(c) = RemoteStore(live[c])
    BY <1>1, <1>7 DEF MigrateExport, ExportStore, ReturnOK, Modes, Store
  <2> QED
    BY <1>1, <1>3, <1>7, <2>1 DEF ReturnOK, MigrateExport, Goto, End, CallsTyped
<1>8. CASE MigrateSave(c)
  <2>1. parked # NoWs => \E d \in Migrators : Completed(d, "local")' /\ from'[d] = RemoteStore(parked)
    BY <1>1 DEF ReturnInv, Departed
  <2> QED
    BY <1>1, <1>3, <1>8, <2>1 DEF ReturnOK, MigrateSave, Goto, End, CallsTyped, Departed
<1>9. CASE ForwardDrop(c)
  BY <1>1, <1>3, <1>9 DEF ReturnOK, ForwardDrop, Goto, CallsTyped, locals
<1>10. CASE ForwardBuild(c)
  <2>1. CASE Build(c, arg[c]) /\ Goto(c, "f_reset")
    <3>1. Returns(c) => dcache' # NoObj /\ heap'[dcache'] = RemoteStore(carry[c])
      BY <1>1, <1>10, <2>1, BuildReturns
    <3> QED
      BY <1>1, <1>3, <1>10, <2>1, <3>1 DEF ReturnOK, ForwardBuild, Goto, CallsTyped, locals
  <2>2. CASE BuildRaises(c, arg[c]) /\ Goto(c, "r_save")
    BY <1>1, <1>3, <1>10, <2>2 DEF ReturnOK, ForwardBuild, Goto, CallsTyped, locals
  <2> QED
    BY <1>10, <2>1, <2>2 DEF ForwardBuild
<1>11. CASE ForwardReset(c)
  <2>1. env = arg[c]
    BY <1>1, <1>11 DEF ForwardReset, CacheInv, InRebuild, Going
  <2> QED
    BY <1>1, <1>3, <1>11, <2>1 DEF ReturnOK, ForwardReset, Reset, Goto, CallsTyped, locals
<1>12. CASE MigrateTarget(c)
  <2>1. CASE Resolve /\ tgt' = [tgt EXCEPT ![c] = Obj] /\ Goto(c, "m_import")
    <3>1. heap'[Obj].kind = arg[c] /\ (Returns(c) => heap'[Obj] = RemoteStore(carry[c]))
      BY <1>1, <1>12, <2>1, ResolveAfterReset DEF ReturnOK, MigrateTarget
    <3> QED
      BY <1>1, <1>3, <1>12, <2>1, <3>1 DEF ReturnOK, MigrateTarget, Goto, CallsTyped
  <2>2. CASE ResolveRaises /\ UNCHANGED tgt /\ Goto(c, "r_save")
    BY <1>1, <1>3, <1>12, <2>2 DEF ReturnOK, MigrateTarget, Goto, CallsTyped
  <2> QED
    BY <1>12, <2>1, <2>2 DEF MigrateTarget
<1>13. CASE MigrateImport(c)
  BY <1>1, <1>3, <1>13 DEF ReturnOK, MigrateImport, Goto, CallsTyped, process
<1>14. CASE MigrateFinish(c)
  <2>1. arg[c] = "remote" => heap[tgt[c]] = RemoteStore(heap[tgt[c]].pick)
    BY <1>1, <1>14 DEF MigrateFinish, ReturnOK, RemoteStore, Store
  <2> QED
    BY <1>1, <1>3, <1>14, <2>1 DEF ReturnOK, MigrateFinish, Goto, End, CallsTyped
<1>15. CASE RevertSave(c) \/ RevertDrop(c) \/ RevertBuild(c) \/ RevertReset(c)
  BY <1>1, <1>3, <1>15 DEF ReturnOK, RevertSave, RevertDrop, RevertBuild, RevertReset, RevertFails,
                           Goto, End, CallsTyped
<1> QED
  BY <1>4, <1>5, <1>6, <1>7, <1>8, <1>9, <1>10, <1>11, <1>12, <1>13, <1>14, <1>15
     DEF MigratorActs, MigrateStep, RebuildStep

LEMMA ReturnStep ==
  ASSUME IInv, CacheInv, CacheInv', ReturnInv, Alone(Movers), Apart(Movers), [Next]_vars
  PROVE  ReturnInv'
<1>1. CASE UNCHANGED vars
  <2>1. /\ UNCHANGED <<env, dcache, ccache, heap, parked>>
        /\ UNCHANGED <<pc, arg, mode, src, tgt, live, carry, from, landed, named, reply>>
    BY <1>1 DEF vars, process, locals
  <2> QED
    BY <2>1 DEF ReturnInv, ReturnOK, LocalHasNoPick, Departed, Completed, Returns, At
<1>2. ASSUME NEW c \in Calls, Acts(c), \A d \in Calls \ {c} : Same(d) PROVE ReturnInv'
  <2>1. ASSUME NEW d \in Migrators PROVE ReturnOK(d)'
    <3>1. CASE d = c
      <4>1. MigratorActs(d)
        BY <1>2, <2>1, <3>1, CallsAssumption DEF Acts, SwitcherActs, WriterActs
      <4> QED
        BY <2>1, <4>1, OwnKeepsReturn
    <3>2. CASE d # c
      BY <1>2, <2>1, <3>2, OthersKeepReturn DEF Calls
    <3> QED
      BY <3>1, <3>2
  <2>2. ASSUME parked' # NoWs PROVE Departed(parked)'
    <3>1. CASE parked' = parked
      <4>1. \A ws : Departed(ws) => Departed(ws)'
        BY DepartedStays
      <4> QED
        BY <2>2, <3>1, <4>1 DEF ReturnInv, Departed
    <3>2. CASE parked' # parked
      <4>1. c \in Migrators /\ MigrateFinish(c)
        BY <1>2, <3>2, SwitcherAside, WriterAside
           DEF Acts, SwitcherActs, WriterActs, Aside, MigratorActs, StartMigrate, MigrateStep,
               MigrateMode, MigrateGet, MigrateLive, MigrateExport, MigrateLoad, MigrateSave,
               MigrateTarget, MigrateImport, RevertSave, RebuildStep, ForwardDrop, ForwardBuild,
               ForwardReset, RevertDrop, RevertBuild, RevertReset, Drop, Build, BuildRaises, Reset,
               Resolve, ResolveRaises, process
      <4>2. arg[c] = "local" /\ parked' = live[c]
        BY <2>2, <4>1 DEF MigrateFinish
      <4>3. from[c] = RemoteStore(live[c])
        BY <2>2, <4>1, <4>2 DEF ReturnInv, ReturnOK, MigrateFinish, At, HasConfig
      <4>4. Completed(c, "local")' /\ from'[c] = from[c]
        BY <4>1, <4>2 DEF MigrateFinish, End, Completed, IInv, TypeOK, Calls
      <4> QED
        BY <4>1, <4>2, <4>3, <4>4 DEF Departed
    <3> QED
      BY <3>1, <3>2
  <2>3. LocalHasNoPick'
    BY <1>2, LocalStaysPickless DEF ReturnInv
  <2> QED
    BY <2>1, <2>2, <2>3 DEF ReturnInv
<1> QED
  BY <1>1, <1>2, OneActs

LEMMA ReturnInvHolds == Apart(Movers) => (Spec => []ReturnInv)
<1> SUFFICES ASSUME Apart(Movers) PROVE Spec => []ReturnInv
  OBVIOUS
<1>1. Init => ReturnInv
  BY DEF Init, ReturnInv, ReturnOK, LocalHasNoPick, Completed, Returns, At, HasConfig, HasTarget, Calls
<1>2. IInv /\ CacheInv /\ CacheInv' /\ ReturnInv /\ Alone(Movers) /\ [Next]_vars => ReturnInv'
  BY ReturnStep
<1> QED
  BY <1>1, <1>2, IInvHolds, CacheInvHolds, AloneHolds, PTL DEF Spec

\* _arrive_remote_workspace: "Name the remote workspace an import landed in."  When switches
\* and migrations come one at a time, the workspace an arrival names is the one its import
\* reached, also after rebuilds that raised.
THEOREM ArrivalIsNamed == Apart(Movers) => (Spec => []ArrivalNamed)
<1>1. ReturnInv => ArrivalNamed
  BY DEF ReturnInv, ReturnOK, ArrivalNamed
<1> QED
  BY <1>1, ReturnInvHolds, PTL

\* _leave_remote_workspace: "a later memory_migrate('remote') must return the data where it
\* came from", after any number of migrations, failed ones and rebuilds that raised among
\* them.
THEOREM DataComesBack == Apart(Movers) => (Spec => []RoundTrip)
<1>1. ReturnInv => RoundTrip
  <2> SUFFICES ASSUME ReturnInv, NEW c \in Migrators, Completed(c, "remote"), carry[c] # NoWs
               PROVE  \E d \in Migrators : Completed(d, "local") /\ from[d] = landed[c]
    BY DEF RoundTrip
  <2>1. Departed(carry[c]) /\ landed[c] = RemoteStore(carry[c])
    BY DEF ReturnInv, ReturnOK, Returns, Completed
  <2> QED
    BY <2>1 DEF Departed
<1> QED
  BY <1>1, ReturnInvHolds, PTL
=============================================================================
