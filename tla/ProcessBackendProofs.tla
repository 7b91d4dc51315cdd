------------------------ MODULE ProcessBackendProofs ------------------------
(***************************************************************************)
(* Proofs about ProcessBackend, for every set of calls, every overlap the  *)
(* client may choose and every outcome of the environment.                 *)
(***************************************************************************)
EXTENDS ProcessBackend, SequenceTheorems, TLAPS

(* What a call's position says about its local variables.                   *)
HasSource == {"s_list", "s_commit", "w_send", "m_live", "m_export", "m_load", "m_save",
              "f_drop", "f_build", "f_reset", "m_target", "m_import", "m_finish",
              "r_save", "r_drop", "r_build", "r_reset"}
HasConfig == {"s_save", "m_save", "f_drop", "f_build", "f_reset", "m_target",
              "m_import", "m_finish", "r_save", "r_drop", "r_build", "r_reset"}
HasTarget == {"m_import", "m_finish"}

CallOK(c) ==
    /\ c \in Switchers /\ pc[c] # "idle" => arg[c] \in Picks
    /\ c \in Migrators /\ pc[c] # "idle" => arg[c] \in Modes
    /\ c \in Migrators /\ pc[c] \notin {"idle", "m_mode"} => mode[c] \in Modes
    /\ pc[c] \in HasSource => src[c] # NoObj
    /\ pc[c] \in HasTarget => tgt[c] # NoObj
    /\ pc[c] \in HasConfig => held[c] \in Config

LocalsOK == \A c \in Calls : CallOK(c)

IInv == TypeOK /\ LocalsOK

-----------------------------------------------------------------------------
(* What an action may do to the process.                                    *)

ProcessOK ==
  /\ env \in Modes /\ heap \in Seq(Store)
  /\ dcache \in Objects /\ ccache \in Objects
  /\ lock \in Calls \cup {Free} /\ parked \in Picks
  /\ file \in Config \cup {NoConfig}

\* load_config() succeeds only where the package is installed.
LEMMA LoadedOK ==
  ASSUME ProcessOK, "ok" \in Outcomes
  PROVE  file \in Config
BY DEF ProcessOK, Outcomes

\* What file_layer_config() hands over: the file's default, or, over a package that
\* cannot leave the environment out, SMARTMEMORY_TEAM_ID.
LEMMA LayerOK ==
  ASSUME ProcessOK, "ok" \in Outcomes
  PROVE  /\ FileLayer \in Config /\ FileLayer.package = file.package
         /\ \/ FileLayer.team = file.team
            \/ file.package = "older" /\ EnvTeam # NoWs /\ FileLayer.team = EnvTeam
<1>1. file \in Config
  BY LoadedOK
<1>2. CASE file.package = "current"
  BY <1>1, <1>2 DEF FileLayer
<1>3. CASE file.package # "current"
  <2>1. file.package = "older"
    BY <1>1, <1>3 DEF Config, AnyPackage
  <2>2. FileLayer = [file EXCEPT !.mode = IF EnvMode # "none" THEN EnvMode ELSE file.mode,
                                 !.team = IF EnvTeam # NoWs THEN EnvTeam ELSE file.team]
    BY <1>3 DEF FileLayer, Overlaid
  <2> QED
    BY <1>1, <2>1, <2>2, NamesAssumption, EnvironmentAssumption DEF Config
<1> QED
  BY <1>2, <1>3

\* build_backend makes an object of the mode it is asked for.
LEMMA BuiltOK ==
  ASSUME ProcessOK, NEW m \in Modes, NEW ws \in Picks, NEW b \in Built(m, ws)
  PROVE  b \in Store /\ b.kind = m
<1>1. CASE m = "local"
  BY <1>1 DEF Built, LocalStore, Store, Modes, Picks
<1>2. CASE m # "local"
  <2>1. PICK o \in Outcomes : b = RemoteStore(TeamOf(ws, o))
    BY <1>2 DEF Built
  <2>2. TeamOf(ws, o) \in Picks
    <3>1. o = "ok" => file.team \in Picks
      BY LoadedOK DEF Config
    <3> QED
      BY <3>1, NamesAssumption DEF TeamOf, Picks
  <2> QED
    BY <1>2, <2>1, <2>2 DEF RemoteStore, Store, Modes
<1> QED
  BY <1>1, <1>2

\* get_backend() returns an object that exists, and forgets none.
LEMMA ResolveOK ==
  ASSUME ProcessOK, Resolve
  PROVE  ProcessOK' /\ Obj \in 1 .. Len(heap') /\ Len(heap) <= Len(heap')
<1>1. Len(heap) \in Nat
  BY DEF ProcessOK
<1>2. CASE Obj <= Len(heap)
  BY <1>1, <1>2 DEF ProcessOK, Resolve, Obj, Objects, NoObj
<1>3. CASE ~(Obj <= Len(heap))
  <2>1. Obj = Len(heap) + 1 /\ dcache' = Obj /\ ccache' = Obj
    BY <1>1, <1>3 DEF ProcessOK, Resolve, Obj, Objects, NoObj
  <2>2. PICK b \in Built(env, NoWs) : heap' = Append(heap, b)
    BY <1>3 DEF Resolve
  <2>3. b \in Store
    BY <2>2, BuiltOK DEF ProcessOK, Picks
  <2>4. heap' \in Seq(Store) /\ Len(heap') = Len(heap) + 1
    BY <2>2, <2>3, AppendProperties DEF ProcessOK
  <2> QED
    BY <1>1, <2>1, <2>4 DEF ProcessOK, Resolve, Objects
<1> QED
  BY <1>2, <1>3

\* Both rebuilds keep the process well typed, for a mode and a carried pick.
LEMMA DropOK ==
  ASSUME ProcessOK, NEW c \in Calls, NEW m \in Modes, Drop(c, m)
  PROVE  ProcessOK' /\ heap' = heap
BY DEF ProcessOK, Drop, Objects, NoObj

LEMMA BuildOK ==
  ASSUME ProcessOK, NEW c \in Calls, carry[c] \in Picks, NEW m \in Modes,
         Build(c, m) \/ BuildRaises(c, m)
  PROVE  ProcessOK' /\ Len(heap) <= Len(heap')
<1>1. Len(heap) \in Nat
  BY DEF ProcessOK
<1>2. CASE BuildRaises(c, m)
  BY <1>1, <1>2 DEF ProcessOK, BuildRaises, Objects
<1>3. CASE Build(c, m) /\ ~(m = "remote" /\ carry[c] # NoWs)
  BY <1>1, <1>3 DEF ProcessOK, Build, Objects
<1>4. CASE Build(c, m) /\ m = "remote" /\ carry[c] # NoWs
  <2>1. PICK b \in Built(m, carry[c]) : heap' = Append(heap, b)
    BY <1>4 DEF Build
  <2>2. heap' \in Seq(Store) /\ Len(heap') = Len(heap) + 1
    BY <2>1, BuiltOK, AppendProperties DEF ProcessOK
  <2> QED
    BY <1>1, <1>4, <2>2 DEF ProcessOK, Build, Objects
<1> QED
  BY <1>2, <1>3, <1>4

LEMMA ResetOK ==
  ASSUME ProcessOK, NEW c \in Calls, Reset(c)
  PROVE  ProcessOK' /\ heap' = heap
BY DEF ProcessOK, Reset, Objects, NoObj

-----------------------------------------------------------------------------
CallsTyped ==
  /\ pc \in [Calls -> Positions] /\ reply \in [Calls -> Replies]
  /\ arg \in [Calls -> Picks \cup Modes \cup {"none"}]
  /\ mode \in [Calls -> Modes \cup {"none"}]
  /\ src \in [Calls -> Objects] /\ tgt \in [Calls -> Objects]
  /\ live \in [Calls -> Picks] /\ carry \in [Calls -> Picks] /\ named \in [Calls -> Picks]
  /\ held \in [Calls -> Config \cup {NoConfig}]
  /\ from \in [Calls -> Store \cup {NoStore}] /\ landed \in [Calls -> Store \cup {NoStore}]
  /\ tries \in [Calls -> {1, 2}]

Grows == ProcessOK' /\ Len(heap) <= Len(heap')


\* A step of c leaves the rest of the calls alone.
Untouched(d) ==
  /\ pc'[d] = pc[d] /\ arg'[d] = arg[d] /\ mode'[d] = mode[d]
  /\ src'[d] = src[d] /\ tgt'[d] = tgt[d] /\ held'[d] = held[d]

LEMMA Elsewhere ==
  ASSUME LocalsOK, NEW c \in Calls, CallOK(c)', \A d \in Calls \ {c} : Untouched(d)
  PROVE  LocalsOK'
BY DEF LocalsOK, CallOK, Untouched


\* get_backend(), whether it returns or raises.
LEMMA GetOK ==
  ASSUME ProcessOK, Resolve \/ ResolveRaises
  PROVE  /\ ProcessOK' /\ Len(heap) <= Len(heap')
         /\ Resolve => Obj \in Objects' \ {NoObj}
BY ResolveOK DEF ResolveRaises, process, ProcessOK, Objects, NoObj

LEMMA ObjectsGrow ==
  ASSUME ProcessOK, ProcessOK', Len(heap) <= Len(heap')
  PROVE  Objects \subseteq Objects'
BY DEF ProcessOK, Objects

\* The backend a call holds is a typed object.
LEMMA SourceOK ==
  ASSUME ProcessOK, CallsTyped, LocalsOK, NEW c \in Calls, pc[c] \in HasSource
  PROVE  /\ src[c] \in 1 .. Len(heap) /\ heap[src[c]] \in Store
         /\ heap[src[c]].pick \in Picks
<1>1. src[c] \in 1 .. Len(heap)
  BY DEF ProcessOK, CallsTyped, LocalsOK, CallOK, Objects, NoObj
<1>2. heap[src[c]] \in Store
  BY <1>1, ElementOfSeq DEF ProcessOK
<1> QED
  BY <1>1, <1>2 DEF Store

LEMMA TargetOK ==
  ASSUME ProcessOK, CallsTyped, LocalsOK, NEW c \in Calls, pc[c] \in HasTarget
  PROVE  heap[tgt[c]] \in Store /\ heap[tgt[c]].pick \in Picks
<1>1. tgt[c] \in 1 .. Len(heap)
  BY DEF ProcessOK, CallsTyped, LocalsOK, CallOK, Objects, NoObj
<1>2. heap[tgt[c]] \in Store
  BY <1>1, ElementOfSeq DEF ProcessOK
<1> QED
  BY <1>1, <1>2 DEF Store

LEMMA StartSwitchOK ==
  ASSUME ProcessOK, CallsTyped, LocalsOK, NEW c \in Switchers, StartSwitch(c)
  PROVE  ProcessOK' /\ CallsTyped' /\ LocalsOK'
<1>1. c \in Calls
  BY DEF Calls
<1>2. ProcessOK' /\ Len(heap) <= Len(heap')
  BY <1>1 DEF ProcessOK, Objects, process, StartSwitch
<1>3. pc' \in [Calls -> Positions] /\ reply' \in [Calls -> Replies]
  BY <1>1 DEF CallsTyped, StartSwitch, Goto, Positions, Replies
<1>4. arg' \in [Calls -> Picks \cup Modes \cup {"none"}]
  BY <1>1, <1>2 DEF CallsTyped, Picks, StartSwitch
<1>5. CallsTyped'
  BY <1>2, <1>3, <1>4, ObjectsGrow DEF CallsTyped, StartSwitch
<1>6. CallOK(c)'
  BY <1>1, <1>2, CallsAssumption DEF LocalsOK, CallOK, CallsTyped, ProcessOK, StartSwitch, At, Goto, HasSource, HasTarget, HasConfig, Picks
<1>7. \A d \in Calls \ {c} : Untouched(d)
  BY <1>1 DEF Untouched, CallsTyped, StartSwitch, Goto
<1> QED
  BY <1>1, <1>2, <1>5, <1>6, <1>7, Elsewhere

LEMMA SwitchGetOK ==
  ASSUME ProcessOK, CallsTyped, LocalsOK, NEW c \in Switchers, SwitchGet(c)
  PROVE  ProcessOK' /\ CallsTyped' /\ LocalsOK'
<1>1. c \in Calls
  BY DEF Calls
<1>2. ProcessOK' /\ Len(heap) <= Len(heap')
  BY <1>1, GetOK DEF SwitchGet
<1>3. pc' \in [Calls -> Positions] /\ reply' \in [Calls -> Replies]
  BY <1>1 DEF CallsTyped, SwitchGet, Goto, End, Positions, Replies
<1>4. src' \in [Calls -> Objects']
  BY <1>1, <1>2, GetOK, ObjectsGrow DEF CallsTyped, SwitchGet
<1>5. CallsTyped'
  BY <1>2, <1>3, <1>4, ObjectsGrow DEF CallsTyped, SwitchGet
<1>6. CallOK(c)'
  BY <1>1, <1>2, GetOK, CallsAssumption DEF LocalsOK, CallOK, CallsTyped, ProcessOK, SwitchGet, At, Goto, End, HasSource, HasTarget, HasConfig
<1>7. \A d \in Calls \ {c} : Untouched(d)
  BY <1>1 DEF Untouched, CallsTyped, SwitchGet, Goto, End
<1> QED
  BY <1>1, <1>2, <1>5, <1>6, <1>7, Elsewhere

LEMMA SwitchListOK ==
  ASSUME ProcessOK, CallsTyped, LocalsOK, NEW c \in Switchers, SwitchList(c)
  PROVE  ProcessOK' /\ CallsTyped' /\ LocalsOK'
<1>1. c \in Calls
  BY DEF Calls
<1>2. ProcessOK' /\ Len(heap) <= Len(heap')
  BY <1>1 DEF ProcessOK, Objects, process, SwitchList
<1>3. pc' \in [Calls -> Positions] /\ reply' \in [Calls -> Replies]
  BY <1>1 DEF CallsTyped, SwitchList, Goto, End, Positions, Replies
<1>5. CallsTyped'
  BY <1>2, <1>3, ObjectsGrow DEF CallsTyped, SwitchList
<1>6. CallOK(c)'
  BY <1>1, <1>2, CallsAssumption DEF LocalsOK, CallOK, CallsTyped, ProcessOK, SwitchList, At, Goto, End, HasSource, HasTarget, HasConfig
<1>7. \A d \in Calls \ {c} : Untouched(d)
  BY <1>1 DEF Untouched, CallsTyped, SwitchList, Goto, End
<1> QED
  BY <1>1, <1>2, <1>5, <1>6, <1>7, Elsewhere

LEMMA SwitchCommitOK ==
  ASSUME ProcessOK, CallsTyped, LocalsOK, NEW c \in Switchers, SwitchCommit(c)
  PROVE  ProcessOK' /\ CallsTyped' /\ LocalsOK'
<1>1. c \in Calls
  BY DEF Calls
<1>2. ProcessOK' /\ Len(heap) <= Len(heap')
  <2>1. heap' \in Seq(Store) /\ Len(heap') = Len(heap)
    <3>1. arg[c] \in Picks
      BY <1>1 DEF SwitchCommit, At, LocalsOK, CallOK
    <3>2. src[c] \in 1 .. Len(heap) /\ heap[src[c]] \in Store
      BY <1>1, SourceOK DEF SwitchCommit, At, HasSource
    <3>3. [heap[src[c]] EXCEPT !.pick = arg[c]] \in Store
      BY <3>1, <3>2 DEF Store
    <3>4. heap' = heap \/ heap' = [heap EXCEPT ![src[c]] = [heap[src[c]] EXCEPT !.pick = arg[c]]]
      BY DEF SwitchCommit, Committed
    <3> QED
      BY <3>2, <3>3, <3>4, ExceptSeq DEF ProcessOK
  <2> QED
    BY <2>1 DEF SwitchCommit, ProcessOK, Objects
<1>3. pc' \in [Calls -> Positions] /\ reply' \in [Calls -> Replies]
  BY <1>1 DEF CallsTyped, SwitchCommit, Goto, End, Positions, Replies
<1>5. CallsTyped'
  BY <1>2, <1>3, ObjectsGrow DEF CallsTyped, SwitchCommit
<1>6. CallOK(c)'
  BY <1>1, <1>2, CallsAssumption DEF LocalsOK, CallOK, CallsTyped, ProcessOK, SwitchCommit, At, Goto, End, HasSource, HasTarget, HasConfig
<1>7. \A d \in Calls \ {c} : Untouched(d)
  BY <1>1 DEF Untouched, CallsTyped, SwitchCommit, Goto, End
<1> QED
  BY <1>1, <1>2, <1>5, <1>6, <1>7, Elsewhere

LEMMA SwitchLabelOK ==
  ASSUME ProcessOK, CallsTyped, LocalsOK, NEW c \in Switchers, SwitchLabel(c)
  PROVE  ProcessOK' /\ CallsTyped' /\ LocalsOK'
<1>1. c \in Calls
  BY DEF Calls
<1>2. ProcessOK' /\ Len(heap) <= Len(heap')
  BY <1>1, GetOK DEF SwitchLabel
<1>3. pc' \in [Calls -> Positions] /\ reply' \in [Calls -> Replies]
  BY <1>1 DEF CallsTyped, SwitchLabel, Goto, End, Positions, Replies
<1>5. CallsTyped'
  BY <1>2, <1>3, ObjectsGrow DEF CallsTyped, SwitchLabel
<1>6. CallOK(c)'
  BY <1>1, <1>2, GetOK, CallsAssumption DEF LocalsOK, CallOK, CallsTyped, ProcessOK, SwitchLabel, At, Goto, End, HasSource, HasTarget, HasConfig
<1>7. \A d \in Calls \ {c} : Untouched(d)
  BY <1>1 DEF Untouched, CallsTyped, SwitchLabel, Goto, End
<1> QED
  BY <1>1, <1>2, <1>5, <1>6, <1>7, Elsewhere

LEMMA SwitchLoadOK ==
  ASSUME ProcessOK, CallsTyped, LocalsOK, NEW c \in Switchers, SwitchLoad(c)
  PROVE  ProcessOK' /\ CallsTyped' /\ LocalsOK'
<1>1. c \in Calls
  BY DEF Calls
<1>2. ProcessOK' /\ Len(heap) <= Len(heap')
  BY <1>1 DEF ProcessOK, Objects, process, SwitchLoad
<1>3. pc' \in [Calls -> Positions] /\ reply' \in [Calls -> Replies]
  BY <1>1 DEF CallsTyped, SwitchLoad, Goto, End, Positions, Replies
<1>4. held' \in [Calls -> Config \cup {NoConfig}]
  BY <1>1, LayerOK DEF CallsTyped, ProcessOK, SwitchLoad
<1>5. CallsTyped'
  BY <1>2, <1>3, <1>4, ObjectsGrow DEF CallsTyped, SwitchLoad
<1>6. CallOK(c)'
  <2>1. pc'[c] = "s_save" => held'[c] \in Config
    BY <1>1, LayerOK DEF CallsTyped, SwitchLoad, Goto, End
  <2> QED
    BY <1>1, <1>2, <2>1, CallsAssumption DEF LocalsOK, CallOK, CallsTyped, ProcessOK, SwitchLoad, At, Goto, End, HasSource, HasTarget, HasConfig
<1>7. \A d \in Calls \ {c} : Untouched(d)
  BY <1>1 DEF Untouched, CallsTyped, SwitchLoad, Goto, End
<1> QED
  BY <1>1, <1>2, <1>5, <1>6, <1>7, Elsewhere

LEMMA SwitchSaveOK ==
  ASSUME ProcessOK, CallsTyped, LocalsOK, NEW c \in Switchers, SwitchSave(c)
  PROVE  ProcessOK' /\ CallsTyped' /\ LocalsOK'
<1>1. c \in Calls
  BY DEF Calls
<1>2. ProcessOK' /\ Len(heap) <= Len(heap')
  BY <1>1 DEF ProcessOK, Objects, LocalsOK, CallOK, At, HasConfig, Config, SwitchSave
<1>3. pc' \in [Calls -> Positions] /\ reply' \in [Calls -> Replies]
  BY <1>1 DEF CallsTyped, SwitchSave, Goto, End, Positions, Replies
<1>5. CallsTyped'
  BY <1>2, <1>3, ObjectsGrow DEF CallsTyped, SwitchSave
<1>6. CallOK(c)'
  BY <1>1, <1>2, CallsAssumption DEF LocalsOK, CallOK, CallsTyped, ProcessOK, SwitchSave, At, Goto, End, HasSource, HasTarget, HasConfig
<1>7. \A d \in Calls \ {c} : Untouched(d)
  BY <1>1 DEF Untouched, CallsTyped, SwitchSave, Goto, End
<1> QED
  BY <1>1, <1>2, <1>5, <1>6, <1>7, Elsewhere

LEMMA StartWriteOK ==
  ASSUME ProcessOK, CallsTyped, LocalsOK, NEW c \in Writers, StartWrite(c)
  PROVE  ProcessOK' /\ CallsTyped' /\ LocalsOK'
<1>1. c \in Calls
  BY DEF Calls
<1>2. ProcessOK' /\ Len(heap) <= Len(heap')
  BY <1>1 DEF ProcessOK, Objects, process, locals, StartWrite
<1>3. pc' \in [Calls -> Positions] /\ reply' \in [Calls -> Replies]
  BY <1>1 DEF CallsTyped, StartWrite, Goto, locals, Positions, Replies
<1>5. CallsTyped'
  BY <1>2, <1>3, ObjectsGrow DEF CallsTyped, StartWrite, locals
<1>6. CallOK(c)'
  BY <1>1, <1>2, CallsAssumption DEF LocalsOK, CallOK, CallsTyped, ProcessOK, StartWrite, At, Goto, locals, HasSource, HasTarget, HasConfig
<1>7. \A d \in Calls \ {c} : Untouched(d)
  BY <1>1 DEF Untouched, CallsTyped, StartWrite, Goto, locals
<1> QED
  BY <1>1, <1>2, <1>5, <1>6, <1>7, Elsewhere

LEMMA WriteGetOK ==
  ASSUME ProcessOK, CallsTyped, LocalsOK, NEW c \in Writers, WriteGet(c)
  PROVE  ProcessOK' /\ CallsTyped' /\ LocalsOK'
<1>1. c \in Calls
  BY DEF Calls
<1>2. ProcessOK' /\ Len(heap) <= Len(heap')
  BY <1>1, GetOK DEF WriteGet
<1>3. pc' \in [Calls -> Positions] /\ reply' \in [Calls -> Replies]
  BY <1>1 DEF CallsTyped, WriteGet, Goto, End, Positions, Replies
<1>4. src' \in [Calls -> Objects']
  BY <1>1, <1>2, GetOK, ObjectsGrow DEF CallsTyped, WriteGet
<1>5. CallsTyped'
  BY <1>2, <1>3, <1>4, ObjectsGrow DEF CallsTyped, WriteGet
<1>6. CallOK(c)'
  BY <1>1, <1>2, GetOK, CallsAssumption DEF LocalsOK, CallOK, CallsTyped, ProcessOK, WriteGet, At, Goto, End, HasSource, HasTarget, HasConfig
<1>7. \A d \in Calls \ {c} : Untouched(d)
  BY <1>1 DEF Untouched, CallsTyped, WriteGet, Goto, End
<1> QED
  BY <1>1, <1>2, <1>5, <1>6, <1>7, Elsewhere

LEMMA WriteSendOK ==
  ASSUME ProcessOK, CallsTyped, LocalsOK, NEW c \in Writers, WriteSend(c)
  PROVE  ProcessOK' /\ CallsTyped' /\ LocalsOK'
<1>1. c \in Calls
  BY DEF Calls
<1>2. ProcessOK' /\ Len(heap) <= Len(heap')
  BY <1>1 DEF ProcessOK, Objects, process, WriteSend
<1>3. pc' \in [Calls -> Positions] /\ reply' \in [Calls -> Replies]
  BY <1>1 DEF CallsTyped, WriteSend, Goto, End, Positions, Replies
<1>4. landed' \in [Calls -> Store \cup {NoStore}]
  BY <1>1, <1>2, SourceOK DEF CallsTyped, WriteSend, At, HasSource
<1>5. CallsTyped'
  BY <1>2, <1>3, <1>4, ObjectsGrow DEF CallsTyped, WriteSend
<1>6. CallOK(c)'
  BY <1>1, <1>2, CallsAssumption DEF LocalsOK, CallOK, CallsTyped, ProcessOK, WriteSend, At, Goto, End, HasSource, HasTarget, HasConfig
<1>7. \A d \in Calls \ {c} : Untouched(d)
  BY <1>1 DEF Untouched, CallsTyped, WriteSend, Goto, End
<1> QED
  BY <1>1, <1>2, <1>5, <1>6, <1>7, Elsewhere

LEMMA StartMigrateOK ==
  ASSUME ProcessOK, CallsTyped, LocalsOK, NEW c \in Migrators, StartMigrate(c)
  PROVE  ProcessOK' /\ CallsTyped' /\ LocalsOK'
<1>1. c \in Calls
  BY DEF Calls
<1>2. ProcessOK' /\ Len(heap) <= Len(heap')
  BY <1>1 DEF ProcessOK, Objects, process, StartMigrate
<1>3. pc' \in [Calls -> Positions] /\ reply' \in [Calls -> Replies]
  BY <1>1 DEF CallsTyped, StartMigrate, Goto, Positions, Replies
<1>4. arg' \in [Calls -> Picks \cup Modes \cup {"none"}]
  BY <1>1, <1>2 DEF CallsTyped, StartMigrate
<1>5. CallsTyped'
  BY <1>2, <1>3, <1>4, ObjectsGrow DEF CallsTyped, StartMigrate
<1>6. CallOK(c)'
  BY <1>1, <1>2, CallsAssumption DEF LocalsOK, CallOK, CallsTyped, ProcessOK, StartMigrate, At, Goto, HasSource, HasTarget, HasConfig
<1>7. \A d \in Calls \ {c} : Untouched(d)
  BY <1>1 DEF Untouched, CallsTyped, StartMigrate, Goto
<1> QED
  BY <1>1, <1>2, <1>5, <1>6, <1>7, Elsewhere

LEMMA MigrateModeOK ==
  ASSUME ProcessOK, CallsTyped, LocalsOK, NEW c \in Migrators, MigrateMode(c)
  PROVE  ProcessOK' /\ CallsTyped' /\ LocalsOK'
<1>1. c \in Calls
  BY DEF Calls
<1>2. ProcessOK' /\ Len(heap) <= Len(heap')
  BY <1>1 DEF ProcessOK, Objects, process, MigrateMode
<1>3. pc' \in [Calls -> Positions] /\ reply' \in [Calls -> Replies]
  BY <1>1 DEF CallsTyped, MigrateMode, Goto, End, Positions, Replies
<1>4. mode' \in [Calls -> Modes \cup {"none"}]
  BY <1>1, <1>2 DEF CallsTyped, ProcessOK, MigrateMode
<1>5. CallsTyped'
  BY <1>2, <1>3, <1>4, ObjectsGrow DEF CallsTyped, MigrateMode
<1>6. CallOK(c)'
  BY <1>1, <1>2, CallsAssumption DEF LocalsOK, CallOK, CallsTyped, ProcessOK, MigrateMode, At, Goto, End, HasSource, HasTarget, HasConfig
<1>7. \A d \in Calls \ {c} : Untouched(d)
  BY <1>1 DEF Untouched, CallsTyped, MigrateMode, Goto, End
<1> QED
  BY <1>1, <1>2, <1>5, <1>6, <1>7, Elsewhere

LEMMA MigrateGetOK ==
  ASSUME ProcessOK, CallsTyped, LocalsOK, NEW c \in Migrators, MigrateGet(c)
  PROVE  ProcessOK' /\ CallsTyped' /\ LocalsOK'
<1>1. c \in Calls
  BY DEF Calls
<1>2. ProcessOK' /\ Len(heap) <= Len(heap')
  BY <1>1, GetOK DEF MigrateGet
<1>3. pc' \in [Calls -> Positions] /\ reply' \in [Calls -> Replies]
  BY <1>1 DEF CallsTyped, MigrateGet, Goto, End, Positions, Replies
<1>4. src' \in [Calls -> Objects']
  BY <1>1, <1>2, GetOK, ObjectsGrow DEF CallsTyped, MigrateGet
<1>5. CallsTyped'
  BY <1>2, <1>3, <1>4, ObjectsGrow DEF CallsTyped, MigrateGet
<1>6. CallOK(c)'
  BY <1>1, <1>2, GetOK, CallsAssumption DEF LocalsOK, CallOK, CallsTyped, ProcessOK, MigrateGet, At, Goto, End, HasSource, HasTarget, HasConfig
<1>7. \A d \in Calls \ {c} : Untouched(d)
  BY <1>1 DEF Untouched, CallsTyped, MigrateGet, Goto, End
<1> QED
  BY <1>1, <1>2, <1>5, <1>6, <1>7, Elsewhere

LEMMA MigrateLiveOK ==
  ASSUME ProcessOK, CallsTyped, LocalsOK, NEW c \in Migrators, MigrateLive(c)
  PROVE  ProcessOK' /\ CallsTyped' /\ LocalsOK'
<1>1. c \in Calls
  BY DEF Calls
<1>2. ProcessOK' /\ Len(heap) <= Len(heap')
  BY <1>1 DEF ProcessOK, Objects, process, MigrateLive
<1>3. pc' \in [Calls -> Positions] /\ reply' \in [Calls -> Replies]
  BY <1>1 DEF CallsTyped, MigrateLive, Goto, Positions, Replies
<1>4. live' \in [Calls -> Picks]
  BY <1>1, <1>2, SourceOK DEF CallsTyped, MigrateLive, At, HasSource, PickRead, Picks
<1>5. CallsTyped'
  BY <1>2, <1>3, <1>4, ObjectsGrow DEF CallsTyped, MigrateLive
<1>6. CallOK(c)'
  BY <1>1, <1>2, CallsAssumption DEF LocalsOK, CallOK, CallsTyped, ProcessOK, MigrateLive, At, Goto, HasSource, HasTarget, HasConfig
<1>7. \A d \in Calls \ {c} : Untouched(d)
  BY <1>1 DEF Untouched, CallsTyped, MigrateLive, Goto
<1> QED
  BY <1>1, <1>2, <1>5, <1>6, <1>7, Elsewhere

LEMMA MigrateExportOK ==
  ASSUME ProcessOK, CallsTyped, LocalsOK, NEW c \in Migrators, MigrateExport(c)
  PROVE  ProcessOK' /\ CallsTyped' /\ LocalsOK'
<1>1. c \in Calls
  BY DEF Calls
<1>2. ProcessOK' /\ Len(heap) <= Len(heap')
  BY <1>1 DEF ProcessOK, Objects, process, MigrateExport
<1>3. pc' \in [Calls -> Positions] /\ reply' \in [Calls -> Replies]
  BY <1>1 DEF CallsTyped, MigrateExport, Goto, End, Positions, Replies
<1>40. live[c] \in Picks
  BY <1>1, <1>2 DEF CallsTyped
<1>41. ExportStore(c) \in Store
  BY <1>1, <1>2, SourceOK, <1>40 DEF MigrateExport, At, HasSource, ExportStore, RemoteStore, Store, Modes
<1>42. from' \in [Calls -> Store \cup {NoStore}]
  BY <1>1, <1>2, <1>41 DEF CallsTyped, MigrateExport
<1>5. CallsTyped'
  BY <1>2, <1>3, <1>40, <1>41, <1>42, ObjectsGrow DEF CallsTyped, MigrateExport
<1>6. CallOK(c)'
  BY <1>1, <1>2, CallsAssumption DEF LocalsOK, CallOK, CallsTyped, ProcessOK, MigrateExport, At, Goto, End, HasSource, HasTarget, HasConfig
<1>7. \A d \in Calls \ {c} : Untouched(d)
  BY <1>1 DEF Untouched, CallsTyped, MigrateExport, Goto, End
<1> QED
  BY <1>1, <1>2, <1>5, <1>6, <1>7, Elsewhere

LEMMA MigrateLoadOK ==
  ASSUME ProcessOK, CallsTyped, LocalsOK, NEW c \in Migrators, MigrateLoad(c)
  PROVE  ProcessOK' /\ CallsTyped' /\ LocalsOK'
<1>1. c \in Calls
  BY DEF Calls
<1>2. ProcessOK' /\ Len(heap) <= Len(heap')
  BY <1>1 DEF ProcessOK, Objects, process, MigrateLoad
<1>3. pc' \in [Calls -> Positions] /\ reply' \in [Calls -> Replies]
  BY <1>1 DEF CallsTyped, MigrateLoad, Goto, End, Positions, Replies
<1>4. held' \in [Calls -> Config \cup {NoConfig}]
  BY <1>1, LayerOK DEF CallsTyped, ProcessOK, MigrateLoad
<1>5. CallsTyped'
  BY <1>2, <1>3, <1>4, ObjectsGrow DEF CallsTyped, MigrateLoad
<1>6. CallOK(c)'
  <2>1. pc'[c] = "m_save" => held'[c] \in Config
    BY <1>1, LayerOK DEF CallsTyped, MigrateLoad, Goto, End
  <2> QED
    BY <1>1, <1>2, <2>1, CallsAssumption DEF LocalsOK, CallOK, CallsTyped, ProcessOK, MigrateLoad, At, Goto, End, HasSource, HasTarget, HasConfig
<1>7. \A d \in Calls \ {c} : Untouched(d)
  BY <1>1 DEF Untouched, CallsTyped, MigrateLoad, Goto, End
<1> QED
  BY <1>1, <1>2, <1>5, <1>6, <1>7, Elsewhere

LEMMA MigrateSaveOK ==
  ASSUME ProcessOK, CallsTyped, LocalsOK, NEW c \in Migrators, MigrateSave(c)
  PROVE  ProcessOK' /\ CallsTyped' /\ LocalsOK'
<1>1. c \in Calls
  BY DEF Calls
<1>2. ProcessOK' /\ Len(heap) <= Len(heap')
  BY <1>1 DEF ProcessOK, Objects, LocalsOK, CallOK, At, HasConfig, Config, MigrateSave
<1>3. pc' \in [Calls -> Positions] /\ reply' \in [Calls -> Replies]
  BY <1>1 DEF CallsTyped, MigrateSave, Goto, End, Positions, Replies
<1>4. carry' \in [Calls -> Picks] /\ tries' \in [Calls -> {1, 2}]
  BY <1>1, <1>2 DEF CallsTyped, ProcessOK, MigrateSave, Picks
<1>5. CallsTyped'
  BY <1>2, <1>3, <1>4, ObjectsGrow DEF CallsTyped, MigrateSave
<1>6. CallOK(c)'
  BY <1>1, <1>2, CallsAssumption DEF LocalsOK, CallOK, CallsTyped, ProcessOK, MigrateSave, At, Goto, End, HasSource, HasTarget, HasConfig
<1>7. \A d \in Calls \ {c} : Untouched(d)
  BY <1>1 DEF Untouched, CallsTyped, MigrateSave, Goto, End
<1> QED
  BY <1>1, <1>2, <1>5, <1>6, <1>7, Elsewhere

LEMMA ForwardDropOK ==
  ASSUME ProcessOK, CallsTyped, LocalsOK, NEW c \in Migrators, ForwardDrop(c)
  PROVE  ProcessOK' /\ CallsTyped' /\ LocalsOK'
<1>1. c \in Calls
  BY DEF Calls
<1>2. ProcessOK' /\ Len(heap) <= Len(heap')
  BY <1>1, DropOK DEF LocalsOK, CallOK, At, ProcessOK, ForwardDrop
<1>3. pc' \in [Calls -> Positions] /\ reply' \in [Calls -> Replies]
  BY <1>1 DEF CallsTyped, ForwardDrop, Goto, locals, Positions, Replies
<1>5. CallsTyped'
  BY <1>2, <1>3, ObjectsGrow DEF CallsTyped, ForwardDrop, locals
<1>6. CallOK(c)'
  BY <1>1, <1>2, CallsAssumption DEF LocalsOK, CallOK, CallsTyped, ProcessOK, ForwardDrop, At, Goto, locals, HasSource, HasTarget, HasConfig
<1>7. \A d \in Calls \ {c} : Untouched(d)
  BY <1>1 DEF Untouched, CallsTyped, ForwardDrop, Goto, locals
<1> QED
  BY <1>1, <1>2, <1>5, <1>6, <1>7, Elsewhere

LEMMA ForwardBuildOK ==
  ASSUME ProcessOK, CallsTyped, LocalsOK, NEW c \in Migrators, ForwardBuild(c)
  PROVE  ProcessOK' /\ CallsTyped' /\ LocalsOK'
<1>1. c \in Calls
  BY DEF Calls
<1>2. ProcessOK' /\ Len(heap) <= Len(heap')
  BY <1>1, BuildOK DEF LocalsOK, CallOK, At, CallsTyped, ForwardBuild
<1>3. pc' \in [Calls -> Positions] /\ reply' \in [Calls -> Replies]
  BY <1>1 DEF CallsTyped, ForwardBuild, Goto, locals, Positions, Replies
<1>5. CallsTyped'
  BY <1>2, <1>3, ObjectsGrow DEF CallsTyped, ForwardBuild, locals
<1>6. CallOK(c)'
  BY <1>1, <1>2, CallsAssumption DEF LocalsOK, CallOK, CallsTyped, ProcessOK, ForwardBuild, At, Goto, locals, HasSource, HasTarget, HasConfig
<1>7. \A d \in Calls \ {c} : Untouched(d)
  BY <1>1 DEF Untouched, CallsTyped, ForwardBuild, Goto, locals
<1> QED
  BY <1>1, <1>2, <1>5, <1>6, <1>7, Elsewhere

LEMMA ForwardResetOK ==
  ASSUME ProcessOK, CallsTyped, LocalsOK, NEW c \in Migrators, ForwardReset(c)
  PROVE  ProcessOK' /\ CallsTyped' /\ LocalsOK'
<1>1. c \in Calls
  BY DEF Calls
<1>2. ProcessOK' /\ Len(heap) <= Len(heap')
  BY <1>1, ResetOK DEF ProcessOK, ForwardReset
<1>3. pc' \in [Calls -> Positions] /\ reply' \in [Calls -> Replies]
  BY <1>1 DEF CallsTyped, ForwardReset, Goto, locals, Positions, Replies
<1>5. CallsTyped'
  BY <1>2, <1>3, ObjectsGrow DEF CallsTyped, ForwardReset, locals
<1>6. CallOK(c)'
  BY <1>1, <1>2, CallsAssumption DEF LocalsOK, CallOK, CallsTyped, ProcessOK, ForwardReset, At, Goto, locals, HasSource, HasTarget, HasConfig
<1>7. \A d \in Calls \ {c} : Untouched(d)
  BY <1>1 DEF Untouched, CallsTyped, ForwardReset, Goto, locals
<1> QED
  BY <1>1, <1>2, <1>5, <1>6, <1>7, Elsewhere

LEMMA MigrateTargetOK ==
  ASSUME ProcessOK, CallsTyped, LocalsOK, NEW c \in Migrators, MigrateTarget(c)
  PROVE  ProcessOK' /\ CallsTyped' /\ LocalsOK'
<1>1. c \in Calls
  BY DEF Calls
<1>2. ProcessOK' /\ Len(heap) <= Len(heap')
  BY <1>1, GetOK DEF MigrateTarget
<1>3. pc' \in [Calls -> Positions] /\ reply' \in [Calls -> Replies]
  BY <1>1 DEF CallsTyped, MigrateTarget, Goto, Positions, Replies
<1>4. tgt' \in [Calls -> Objects']
  BY <1>1, <1>2, GetOK, ObjectsGrow DEF CallsTyped, MigrateTarget
<1>5. CallsTyped'
  BY <1>2, <1>3, <1>4, ObjectsGrow DEF CallsTyped, MigrateTarget
<1>6. CallOK(c)'
  BY <1>1, <1>2, GetOK, CallsAssumption DEF LocalsOK, CallOK, CallsTyped, ProcessOK, MigrateTarget, At, Goto, HasSource, HasTarget, HasConfig
<1>7. \A d \in Calls \ {c} : Untouched(d)
  BY <1>1 DEF Untouched, CallsTyped, MigrateTarget, Goto
<1> QED
  BY <1>1, <1>2, <1>5, <1>6, <1>7, Elsewhere

LEMMA MigrateImportOK ==
  ASSUME ProcessOK, CallsTyped, LocalsOK, NEW c \in Migrators, MigrateImport(c)
  PROVE  ProcessOK' /\ CallsTyped' /\ LocalsOK'
<1>1. c \in Calls
  BY DEF Calls
<1>2. ProcessOK' /\ Len(heap) <= Len(heap')
  BY <1>1 DEF ProcessOK, Objects, process, MigrateImport
<1>3. pc' \in [Calls -> Positions] /\ reply' \in [Calls -> Replies]
  BY <1>1 DEF CallsTyped, MigrateImport, Goto, Positions, Replies
<1>40. landed' \in [Calls -> Store \cup {NoStore}]
  BY <1>1, <1>2, TargetOK DEF CallsTyped, MigrateImport, At, HasTarget
<1>41. tries' \in [Calls -> {1, 2}]
  BY <1>1, <1>2 DEF CallsTyped, MigrateImport
<1>5. CallsTyped'
  BY <1>2, <1>3, <1>40, <1>41, ObjectsGrow DEF CallsTyped, MigrateImport
<1>6. CallOK(c)'
  BY <1>1, <1>2, CallsAssumption DEF LocalsOK, CallOK, CallsTyped, ProcessOK, MigrateImport, At, Goto, HasSource, HasTarget, HasConfig
<1>7. \A d \in Calls \ {c} : Untouched(d)
  BY <1>1 DEF Untouched, CallsTyped, MigrateImport, Goto
<1> QED
  BY <1>1, <1>2, <1>5, <1>6, <1>7, Elsewhere

LEMMA MigrateFinishOK ==
  ASSUME ProcessOK, CallsTyped, LocalsOK, NEW c \in Migrators, MigrateFinish(c)
  PROVE  ProcessOK' /\ CallsTyped' /\ LocalsOK'
<1>1. c \in Calls
  BY DEF Calls
<1>2. ProcessOK' /\ Len(heap) <= Len(heap')
  BY <1>1 DEF ProcessOK, CallsTyped, Objects, Picks, MigrateFinish
<1>3. pc' \in [Calls -> Positions] /\ reply' \in [Calls -> Replies]
  BY <1>1 DEF CallsTyped, MigrateFinish, Goto, End, Positions, Replies
<1>4. named' \in [Calls -> Picks]
  BY <1>1, <1>2, TargetOK DEF CallsTyped, MigrateFinish, At, HasTarget
<1>5. CallsTyped'
  BY <1>2, <1>3, <1>4, ObjectsGrow DEF CallsTyped, MigrateFinish
<1>6. CallOK(c)'
  BY <1>1, <1>2, CallsAssumption DEF LocalsOK, CallOK, CallsTyped, ProcessOK, MigrateFinish, At, Goto, End, HasSource, HasTarget, HasConfig
<1>7. \A d \in Calls \ {c} : Untouched(d)
  BY <1>1 DEF Untouched, CallsTyped, MigrateFinish, Goto, End
<1> QED
  BY <1>1, <1>2, <1>5, <1>6, <1>7, Elsewhere

LEMMA RevertSaveOK ==
  ASSUME ProcessOK, CallsTyped, LocalsOK, NEW c \in Migrators, RevertSave(c)
  PROVE  ProcessOK' /\ CallsTyped' /\ LocalsOK'
<1>1. c \in Calls
  BY DEF Calls
<1>2. ProcessOK' /\ Len(heap) <= Len(heap')
  BY <1>1 DEF ProcessOK, Objects, LocalsOK, CallOK, At, HasConfig, Config, RevertSave
<1>3. pc' \in [Calls -> Positions] /\ reply' \in [Calls -> Replies]
  BY <1>1 DEF CallsTyped, RevertSave, Goto, End, RevertFails, Positions, Replies
<1>4. tries' \in [Calls -> {1, 2}]
  BY <1>1, <1>2 DEF CallsTyped, RevertSave, RevertFails
<1>5. CallsTyped'
  BY <1>2, <1>3, <1>4, ObjectsGrow DEF CallsTyped, RevertSave, RevertFails
<1>6. CallOK(c)'
  BY <1>1, <1>2, CallsAssumption DEF LocalsOK, CallOK, CallsTyped, ProcessOK, RevertSave, At, Goto, End, RevertFails, HasSource, HasTarget, HasConfig
<1>7. \A d \in Calls \ {c} : Untouched(d)
  BY <1>1 DEF Untouched, CallsTyped, RevertSave, Goto, End, RevertFails
<1> QED
  BY <1>1, <1>2, <1>5, <1>6, <1>7, Elsewhere

LEMMA RevertDropOK ==
  ASSUME ProcessOK, CallsTyped, LocalsOK, NEW c \in Migrators, RevertDrop(c)
  PROVE  ProcessOK' /\ CallsTyped' /\ LocalsOK'
<1>1. c \in Calls
  BY DEF Calls
<1>2. ProcessOK' /\ Len(heap) <= Len(heap')
  BY <1>1, DropOK DEF LocalsOK, CallOK, At, ProcessOK, RevertDrop
<1>3. pc' \in [Calls -> Positions] /\ reply' \in [Calls -> Replies]
  BY <1>1 DEF CallsTyped, RevertDrop, Goto, Positions, Replies
<1>4. carry' \in [Calls -> Picks]
  BY <1>1, <1>2, SourceOK DEF CallsTyped, RevertDrop, At, HasSource, PickRead, Picks
<1>5. CallsTyped'
  BY <1>2, <1>3, <1>4, ObjectsGrow DEF CallsTyped, RevertDrop
<1>6. CallOK(c)'
  BY <1>1, <1>2, CallsAssumption DEF LocalsOK, CallOK, CallsTyped, ProcessOK, RevertDrop, At, Goto, HasSource, HasTarget, HasConfig
<1>7. \A d \in Calls \ {c} : Untouched(d)
  BY <1>1 DEF Untouched, CallsTyped, RevertDrop, Goto
<1> QED
  BY <1>1, <1>2, <1>5, <1>6, <1>7, Elsewhere

LEMMA RevertBuildOK ==
  ASSUME ProcessOK, CallsTyped, LocalsOK, NEW c \in Migrators, RevertBuild(c)
  PROVE  ProcessOK' /\ CallsTyped' /\ LocalsOK'
<1>1. c \in Calls
  BY DEF Calls
<1>2. ProcessOK' /\ Len(heap) <= Len(heap')
  BY <1>1, BuildOK DEF LocalsOK, CallOK, At, CallsTyped, RevertBuild
<1>3. pc' \in [Calls -> Positions] /\ reply' \in [Calls -> Replies]
  BY <1>1 DEF CallsTyped, RevertBuild, Goto, End, RevertFails, Positions, Replies
<1>4. tries' \in [Calls -> {1, 2}]
  BY <1>1, <1>2 DEF CallsTyped, RevertBuild, RevertFails
<1>5. CallsTyped'
  BY <1>2, <1>3, <1>4, ObjectsGrow DEF CallsTyped, RevertBuild, RevertFails
<1>6. CallOK(c)'
  BY <1>1, <1>2, CallsAssumption DEF LocalsOK, CallOK, CallsTyped, ProcessOK, RevertBuild, At, Goto, End, RevertFails, HasSource, HasTarget, HasConfig
<1>7. \A d \in Calls \ {c} : Untouched(d)
  BY <1>1 DEF Untouched, CallsTyped, RevertBuild, Goto, End, RevertFails
<1> QED
  BY <1>1, <1>2, <1>5, <1>6, <1>7, Elsewhere

LEMMA RevertResetOK ==
  ASSUME ProcessOK, CallsTyped, LocalsOK, NEW c \in Migrators, RevertReset(c)
  PROVE  ProcessOK' /\ CallsTyped' /\ LocalsOK'
<1>1. c \in Calls
  BY DEF Calls
<1>2. ProcessOK' /\ Len(heap) <= Len(heap')
  BY <1>1, ResetOK DEF ProcessOK, RevertReset
<1>3. pc' \in [Calls -> Positions] /\ reply' \in [Calls -> Replies]
  BY <1>1 DEF CallsTyped, RevertReset, Goto, End, Positions, Replies
<1>5. CallsTyped'
  BY <1>2, <1>3, ObjectsGrow DEF CallsTyped, RevertReset
<1>6. CallOK(c)'
  BY <1>1, <1>2, CallsAssumption DEF LocalsOK, CallOK, CallsTyped, ProcessOK, RevertReset, At, Goto, End, HasSource, HasTarget, HasConfig
<1>7. \A d \in Calls \ {c} : Untouched(d)
  BY <1>1 DEF Untouched, CallsTyped, RevertReset, Goto, End
<1> QED
  BY <1>1, <1>2, <1>5, <1>6, <1>7, Elsewhere

-----------------------------------------------------------------------------
\* The inductive invariant in the parts the lemmas use.
LEMMA Parts == TypeOK <=> ProcessOK /\ CallsTyped
BY DEF TypeOK, ProcessOK, CallsTyped

LEMMA InitOK == Init => IInv
<1> SUFFICES ASSUME Init PROVE IInv
  OBVIOUS
<1>1. ProcessOK
  <2>1. file \in Config \cup {NoConfig}
    BY EnvironmentAssumption DEF Init, Config, AnyPackage
  <2> QED
    BY <2>1, NamesAssumption, EnvironmentAssumption DEF Init, ProcessOK, Objects, NoObj, Picks, Modes
<1>2. CallsTyped
  BY <1>1 DEF Init, CallsTyped, ProcessOK, Objects, NoObj, Picks, Positions, Replies
<1>3. LocalsOK
  BY DEF Init, LocalsOK, CallOK, HasSource, HasTarget, HasConfig
<1> QED
  BY <1>1, <1>2, <1>3, Parts DEF IInv

LEMMA NextOK == IInv /\ [Next]_vars => IInv'
<1> SUFFICES ASSUME ProcessOK, CallsTyped, LocalsOK, [Next]_vars
             PROVE  ProcessOK' /\ CallsTyped' /\ LocalsOK'
  BY Parts DEF IInv, TypeOK, ProcessOK, CallsTyped
<1>1. CASE UNCHANGED vars
  BY <1>1 DEF ProcessOK, CallsTyped, LocalsOK, CallOK, Objects, vars, process, locals
<1>2. ASSUME NEW c \in Switchers, StartSwitch(c) \/ SwitchStep(c)
      PROVE  ProcessOK' /\ CallsTyped' /\ LocalsOK'
  BY <1>2, StartSwitchOK, SwitchGetOK, SwitchListOK, SwitchCommitOK, SwitchLabelOK,
     SwitchLoadOK, SwitchSaveOK DEF SwitchStep
<1>3. ASSUME NEW c \in Writers, StartWrite(c) \/ WriteStep(c)
      PROVE  ProcessOK' /\ CallsTyped' /\ LocalsOK'
  BY <1>3, StartWriteOK, WriteGetOK, WriteSendOK DEF WriteStep
<1>4. ASSUME NEW c \in Migrators, StartMigrate(c) \/ MigrateStep(c)
      PROVE  ProcessOK' /\ CallsTyped' /\ LocalsOK'
  <2>1. CASE RebuildStep(c)
    BY <2>1, ForwardDropOK, ForwardBuildOK, ForwardResetOK, RevertDropOK, RevertBuildOK,
       RevertResetOK DEF RebuildStep
  <2>2. CASE ~RebuildStep(c)
    BY <1>4, <2>2, StartMigrateOK, MigrateModeOK, MigrateGetOK, MigrateLiveOK,
       MigrateExportOK, MigrateLoadOK, MigrateSaveOK, MigrateTargetOK, MigrateImportOK,
       MigrateFinishOK, RevertSaveOK DEF MigrateStep
  <2> QED
    BY <2>1, <2>2
<1> QED
  BY <1>1, <1>2, <1>3, <1>4 DEF Next, Quiet

\* The process variables and the locals of every call keep their types, and a
\* call that uses a backend or a config object has one.
THEOREM TypeCorrect == Spec => [](TypeOK /\ LocalsOK)
<1>1. Spec => []IInv
  BY InitOK, NextOK, PTL DEF Spec
<1> QED
  BY <1>1, PTL DEF IInv

-----------------------------------------------------------------------------
(* The lock and the two caches.                                             *)

\* The mode a rebuild under way has set.
Going(c) == IF pc[c] \in {"f_build", "f_reset"} THEN arg[c] ELSE mode[c]

\* Why the caches agree: the dispatch cache is dropped with every change of the
\* mode, only the owner of the lock changes the mode, and the common cache is
\* filled from the dispatch cache.
CacheInv ==
  /\ LockDiscipline
  /\ \A c \in Calls : InRebuild(c) => env = Going(c)
  /\ dcache # NoObj => heap[dcache].kind = env
  /\ ~KeyMayBeMissing /\ lock = Free /\ ccache # NoObj => dcache = ccache

\* What a step outside the rebuild leaves alone.
RebuildsUnmoved ==
  \A d \in Calls :
    /\ InRebuild(d)' <=> InRebuild(d)
    /\ InRebuild(d) => pc'[d] = pc[d] /\ arg'[d] = arg[d] /\ mode'[d] = mode[d]

KindsKept == \A o \in 1 .. Len(heap) : heap'[o].kind = heap[o].kind

LEMMA AsideKeeps ==
  ASSUME IInv, CacheInv, RebuildsUnmoved, KindsKept, UNCHANGED <<env, dcache, ccache, lock>>
  PROVE  CacheInv'
<1>1. LockDiscipline'
  BY DEF CacheInv, LockDiscipline, RebuildsUnmoved
<1>2. (\A c \in Calls : InRebuild(c) => env = Going(c))'
  BY DEF CacheInv, RebuildsUnmoved, Going, InRebuild
<1>3. dcache # NoObj => heap'[dcache].kind = env
  BY DEF IInv, TypeOK, CacheInv, KindsKept, Objects, NoObj
<1> QED
  BY <1>1, <1>2, <1>3 DEF CacheInv

\* get_backend() fills the common cache from the dispatch cache, or both with
\* one new object of the current mode.
LEMMA ResolveKeeps ==
  ASSUME IInv, CacheInv, RebuildsUnmoved, Resolve
  PROVE  CacheInv'
<1>1. LockDiscipline'
  BY DEF CacheInv, LockDiscipline, RebuildsUnmoved, Resolve
<1>2. (\A c \in Calls : InRebuild(c) => env = Going(c))'
  BY DEF CacheInv, RebuildsUnmoved, Going, InRebuild, Resolve
<1>3. CASE Obj <= Len(heap)
  BY <1>1, <1>2, <1>3 DEF CacheInv, Resolve, Obj, IInv, TypeOK, Objects, NoObj
<1>4. CASE ~(Obj <= Len(heap))
  <2>1. Obj = Len(heap) + 1 /\ dcache' = Obj /\ ccache' = Obj
    BY <1>4 DEF Resolve, Obj, IInv, TypeOK, Objects, NoObj
  <2>2. PICK b \in Built(env, NoWs) : heap' = Append(heap, b)
    BY <1>4 DEF Resolve
  <2>3. b \in Store /\ b.kind = env
    BY <2>2, BuiltOK, Parts DEF IInv, ProcessOK, Picks
  <2>4. heap'[Obj] = b
    BY <2>1, <2>2, <2>3, AppendProperties DEF IInv, TypeOK
  <2>5. env' = env
    BY DEF Resolve
  <2> QED
    BY <1>1, <1>2, <2>1, <2>3, <2>4, <2>5 DEF CacheInv
<1> QED
  BY <1>3, <1>4

\* commit_if_current changes the pick of an object, never its kind.
LEMMA CommitKeepsKinds ==
  ASSUME IInv, NEW c \in Switchers, SwitchCommit(c)
  PROVE  KindsKept
<1>1. heap \in Seq(Store)
  BY DEF IInv, TypeOK
<1>2. heap' = heap \/ heap' = [heap EXCEPT ![src[c]].pick = arg[c]]
  BY DEF SwitchCommit, Committed
<1>3. \A o \in 1 .. Len(heap) : heap[o] \in Store
  BY <1>1, ElementOfSeq
<1>4. DOMAIN heap = 1 .. Len(heap)
  BY <1>1
<1> QED
  BY <1>2, <1>3, <1>4 DEF KindsKept, Store

LEMMA SwitchKeepsCaches ==
  ASSUME IInv, CacheInv, NEW c \in Switchers, StartSwitch(c) \/ SwitchStep(c)
  PROVE  CacheInv'
<1>1. c \in Calls /\ pc \in [Calls -> Positions] /\ arg \in [Calls -> Picks \cup Modes \cup {"none"}]
      /\ mode \in [Calls -> Modes \cup {"none"}]
  BY DEF Calls, IInv, TypeOK
<1>2. CASE StartSwitch(c)
  <2>1. RebuildsUnmoved
    BY <1>1, <1>2 DEF RebuildsUnmoved, InRebuild, StartSwitch, At, Goto, End, MayStart
  <2> QED
    BY <1>2, <2>1, AsideKeeps DEF StartSwitch, KindsKept, process
<1>3. CASE SwitchList(c)
  <2>1. RebuildsUnmoved
    BY <1>1, <1>3 DEF RebuildsUnmoved, InRebuild, SwitchList, At, Goto, End, MayStart
  <2> QED
    BY <1>3, <2>1, AsideKeeps DEF SwitchList, KindsKept, process
<1>4. CASE SwitchCommit(c)
  <2>1. RebuildsUnmoved
    BY <1>1, <1>4 DEF RebuildsUnmoved, InRebuild, SwitchCommit, At, Goto, End, MayStart
  <2> QED
    BY <1>4, <2>1, CommitKeepsKinds, AsideKeeps DEF SwitchCommit
<1>5. CASE SwitchLoad(c)
  <2>1. RebuildsUnmoved
    BY <1>1, <1>5 DEF RebuildsUnmoved, InRebuild, SwitchLoad, At, Goto, End, MayStart
  <2> QED
    BY <1>5, <2>1, AsideKeeps DEF SwitchLoad, KindsKept, process
<1>6. CASE SwitchSave(c)
  <2>1. RebuildsUnmoved
    BY <1>1, <1>6 DEF RebuildsUnmoved, InRebuild, SwitchSave, At, Goto, End, MayStart
  <2> QED
    BY <1>6, <2>1, AsideKeeps DEF SwitchSave, KindsKept, process
<1>7. CASE SwitchGet(c)
  <2>1. RebuildsUnmoved
    BY <1>1, <1>7 DEF RebuildsUnmoved, InRebuild, SwitchGet, At, Goto, End
  <2>2. CASE Resolve
    BY <2>1, <2>2, ResolveKeeps
  <2>3. CASE ResolveRaises
    BY <2>1, <2>3, AsideKeeps DEF ResolveRaises, KindsKept, process
  <2> QED
    BY <1>7, <2>2, <2>3 DEF SwitchGet
<1>8. CASE SwitchLabel(c)
  <2>1. RebuildsUnmoved
    BY <1>1, <1>8 DEF RebuildsUnmoved, InRebuild, SwitchLabel, At, Goto, End
  <2>2. CASE Resolve
    BY <2>1, <2>2, ResolveKeeps
  <2>3. CASE ResolveRaises
    BY <2>1, <2>3, AsideKeeps DEF ResolveRaises, KindsKept, process
  <2> QED
    BY <1>8, <2>2, <2>3 DEF SwitchLabel
<1> QED
  BY <1>2, <1>3, <1>4, <1>5, <1>6, <1>7, <1>8 DEF SwitchStep

LEMMA WriteKeepsCaches ==
  ASSUME IInv, CacheInv, NEW c \in Writers, StartWrite(c) \/ WriteStep(c)
  PROVE  CacheInv'
<1>1. c \in Calls /\ pc \in [Calls -> Positions] /\ arg \in [Calls -> Picks \cup Modes \cup {"none"}]
      /\ mode \in [Calls -> Modes \cup {"none"}]
  BY DEF Calls, IInv, TypeOK
<1>2. CASE StartWrite(c)
  <2>1. RebuildsUnmoved
    BY <1>1, <1>2 DEF RebuildsUnmoved, InRebuild, StartWrite, At, Goto, End, MayStart, locals
  <2> QED
    BY <1>2, <2>1, AsideKeeps DEF StartWrite, KindsKept, process
<1>3. CASE WriteSend(c)
  <2>1. RebuildsUnmoved
    BY <1>1, <1>3 DEF RebuildsUnmoved, InRebuild, WriteSend, At, Goto, End, MayStart
  <2> QED
    BY <1>3, <2>1, AsideKeeps DEF WriteSend, KindsKept, process
<1>4. CASE WriteGet(c)
  <2>1. RebuildsUnmoved
    BY <1>1, <1>4 DEF RebuildsUnmoved, InRebuild, WriteGet, At, Goto, End
  <2>2. CASE Resolve
    BY <2>1, <2>2, ResolveKeeps
  <2>3. CASE ResolveRaises
    BY <2>1, <2>3, AsideKeeps DEF ResolveRaises, KindsKept, process
  <2> QED
    BY <1>4, <2>2, <2>3 DEF WriteGet
<1> QED
  BY <1>2, <1>3, <1>4 DEF WriteStep

LEMMA MigrateKeepsCaches ==
  ASSUME IInv, CacheInv, NEW c \in Migrators, StartMigrate(c) \/ (MigrateStep(c) /\ ~RebuildStep(c))
  PROVE  CacheInv'
<1>1. c \in Calls /\ pc \in [Calls -> Positions] /\ arg \in [Calls -> Picks \cup Modes \cup {"none"}]
      /\ mode \in [Calls -> Modes \cup {"none"}]
  BY DEF Calls, IInv, TypeOK
<1>2. CASE StartMigrate(c)
  <2>1. RebuildsUnmoved
    BY <1>1, <1>2 DEF RebuildsUnmoved, InRebuild, StartMigrate, At, Goto, End, MayStart
  <2> QED
    BY <1>2, <2>1, AsideKeeps DEF StartMigrate, KindsKept, process
<1>3. CASE MigrateMode(c)
  <2>1. RebuildsUnmoved
    BY <1>1, <1>3 DEF RebuildsUnmoved, InRebuild, MigrateMode, At, Goto, End, MayStart
  <2> QED
    BY <1>3, <2>1, AsideKeeps DEF MigrateMode, KindsKept, process
<1>4. CASE MigrateLive(c)
  <2>1. RebuildsUnmoved
    BY <1>1, <1>4 DEF RebuildsUnmoved, InRebuild, MigrateLive, At, Goto, End, MayStart
  <2> QED
    BY <1>4, <2>1, AsideKeeps DEF MigrateLive, KindsKept, process
<1>5. CASE MigrateExport(c)
  <2>1. RebuildsUnmoved
    BY <1>1, <1>5 DEF RebuildsUnmoved, InRebuild, MigrateExport, At, Goto, End, MayStart
  <2> QED
    BY <1>5, <2>1, AsideKeeps DEF MigrateExport, KindsKept, process
<1>6. CASE MigrateLoad(c)
  <2>1. RebuildsUnmoved
    BY <1>1, <1>6 DEF RebuildsUnmoved, InRebuild, MigrateLoad, At, Goto, End, MayStart
  <2> QED
    BY <1>6, <2>1, AsideKeeps DEF MigrateLoad, KindsKept, process
<1>7. CASE MigrateSave(c)
  <2>1. RebuildsUnmoved
    BY <1>1, <1>7 DEF RebuildsUnmoved, InRebuild, MigrateSave, At, Goto, End, MayStart
  <2> QED
    BY <1>7, <2>1, AsideKeeps DEF MigrateSave, KindsKept, process
<1>8. CASE MigrateImport(c)
  <2>1. RebuildsUnmoved
    BY <1>1, <1>8 DEF RebuildsUnmoved, InRebuild, MigrateImport, At, Goto, End, MayStart
  <2> QED
    BY <1>8, <2>1, AsideKeeps DEF MigrateImport, KindsKept, process
<1>9. CASE MigrateFinish(c)
  <2>1. RebuildsUnmoved
    BY <1>1, <1>9 DEF RebuildsUnmoved, InRebuild, MigrateFinish, At, Goto, End, MayStart
  <2> QED
    BY <1>9, <2>1, AsideKeeps DEF MigrateFinish, KindsKept, process
<1>10. CASE RevertSave(c)
  <2>1. RebuildsUnmoved
    BY <1>1, <1>10 DEF RebuildsUnmoved, InRebuild, RevertSave, At, Goto, End, MayStart, RevertFails
  <2> QED
    BY <1>10, <2>1, AsideKeeps DEF RevertSave, KindsKept, process
<1>11. CASE MigrateGet(c)
  <2>1. RebuildsUnmoved
    BY <1>1, <1>11 DEF RebuildsUnmoved, InRebuild, MigrateGet, At, Goto, End
  <2>2. CASE Resolve
    BY <2>1, <2>2, ResolveKeeps
  <2>3. CASE ResolveRaises
    BY <2>1, <2>3, AsideKeeps DEF ResolveRaises, KindsKept, process
  <2> QED
    BY <1>11, <2>2, <2>3 DEF MigrateGet
<1>12. CASE MigrateTarget(c)
  <2>1. RebuildsUnmoved
    BY <1>1, <1>12 DEF RebuildsUnmoved, InRebuild, MigrateTarget, At, Goto, End
  <2>2. CASE Resolve
    BY <2>1, <2>2, ResolveKeeps
  <2>3. CASE ResolveRaises
    BY <2>1, <2>3, AsideKeeps DEF ResolveRaises, KindsKept, process
  <2> QED
    BY <1>12, <2>2, <2>3 DEF MigrateTarget
<1> QED
  BY <1>2, <1>3, <1>4, <1>5, <1>6, <1>7, <1>8, <1>9, <1>10, <1>11, <1>12 DEF MigrateStep

\* The rebuild: the owner alone moves, and the mode it set stands until it
\* releases the lock.
LEMMA RebuildKeepsCaches ==
  ASSUME IInv, CacheInv, NEW c \in Migrators, RebuildStep(c)
  PROVE  CacheInv'
<1>1. /\ c \in Calls /\ pc \in [Calls -> Positions] /\ Free \notin Calls
      /\ ProcessOK /\ carry[c] \in Picks
      /\ At(c, "f_build") => arg[c] \in Modes
      /\ At(c, "r_build") => mode[c] \in Modes
  BY CallsAssumption, Parts DEF Calls, IInv, TypeOK, LocalsOK, CallOK, At
<1>2. ASSUME NEW m, Drop(c, m), lock = Free, UNCHANGED <<arg, mode>>,
             \/ m = arg[c] /\ Goto(c, "f_build")
             \/ m = mode[c] /\ Goto(c, "r_build")
      PROVE  CacheInv'
  BY <1>1, <1>2 DEF CacheInv, LockDiscipline, InRebuild, Going, Drop, Goto
<1>3. ASSUME NEW m \in Modes, Build(c, m), UNCHANGED <<arg, mode>>,
             \/ At(c, "f_build") /\ m = arg[c] /\ Goto(c, "f_reset")
             \/ At(c, "r_build") /\ m = mode[c] /\ Goto(c, "r_reset")
      PROVE  CacheInv'
  <2>1. LockDiscipline' /\ lock' = c /\ env' = env /\ env = m
    BY <1>1, <1>3 DEF CacheInv, LockDiscipline, InRebuild, Going, Build, Goto, At
  <2>2. (\A d \in Calls : InRebuild(d) => env = Going(d))'
    BY <1>1, <1>3, <2>1 DEF CacheInv, LockDiscipline, InRebuild, Going, Goto, At
  <2>3. CASE m = "remote" /\ carry[c] # NoWs
    <3>1. PICK b \in Built(m, carry[c]) : heap' = Append(heap, b)
      BY <1>3, <2>3 DEF Build
    <3>2. b \in Store /\ b.kind = m
      BY <1>1, <3>1, BuiltOK
    <3>3. dcache' = Len(heap) + 1 /\ heap'[Len(heap) + 1] = b
      BY <1>1, <1>3, <2>3, <3>1, <3>2, AppendProperties DEF Build, ProcessOK
    <3> QED
      BY <1>1, <2>1, <2>2, <3>2, <3>3 DEF CacheInv
  <2>4. CASE ~(m = "remote" /\ carry[c] # NoWs)
    BY <1>1, <1>3, <2>1, <2>2, <2>4 DEF CacheInv, Build
  <2> QED
    BY <2>3, <2>4
<1>4. ASSUME NEW m, BuildRaises(c, m), UNCHANGED <<arg, mode>>, InRebuild(c),
             Goto(c, "r_save") \/ Goto(c, "done")
      PROVE  CacheInv'
  BY <1>1, <1>4 DEF CacheInv, LockDiscipline, InRebuild, Going, BuildRaises, MayRaise, Goto
<1>5. ASSUME Reset(c), UNCHANGED <<arg, mode>>, InRebuild(c),
             Goto(c, "m_target") \/ Goto(c, "done")
      PROVE  CacheInv'
  BY <1>1, <1>5 DEF CacheInv, LockDiscipline, InRebuild, Going, Reset, Goto
<1>6. CASE ForwardDrop(c)
  BY <1>2, <1>6 DEF ForwardDrop, Drop, locals
<1>7. CASE RevertDrop(c)
  BY <1>2, <1>7 DEF RevertDrop, Drop
<1>8. CASE ForwardBuild(c)
  BY <1>1, <1>3, <1>4, <1>8 DEF ForwardBuild, locals, At, InRebuild
<1>9. CASE RevertBuild(c)
  BY <1>1, <1>3, <1>4, <1>9 DEF RevertBuild, RevertFails, End, At, InRebuild
<1>10. CASE ForwardReset(c)
  BY <1>5, <1>10 DEF ForwardReset, locals, At, InRebuild
<1>11. CASE RevertReset(c)
  BY <1>5, <1>11 DEF RevertReset, End, At, InRebuild
<1> QED
  BY <1>6, <1>7, <1>8, <1>9, <1>10, <1>11 DEF RebuildStep

LEMMA CacheInvInductive == IInv /\ CacheInv /\ [Next]_vars => CacheInv'
<1> SUFFICES ASSUME IInv, CacheInv, [Next]_vars PROVE CacheInv'
  OBVIOUS
<1>1. CASE UNCHANGED vars
  BY <1>1 DEF CacheInv, LockDiscipline, InRebuild, Going, vars, process, locals
<1> QED
  BY <1>1, SwitchKeepsCaches, WriteKeepsCaches, MigrateKeepsCaches, RebuildKeepsCaches
     DEF Next, Quiet, MigrateStep

LEMMA CacheInvHolds == Spec => []CacheInv
<1>1. Init => CacheInv
  BY CallsAssumption DEF Init, CacheInv, LockDiscipline, InRebuild
<1>2. Spec => []IInv
  BY InitOK, NextOK, PTL DEF Spec
<1> QED
  BY <1>1, <1>2, CacheInvInductive, PTL DEF Spec

\* dispatch.rebuild_lock is held by the call inside a rebuild and by no other,
\* also after a build that raised.
THEOREM LockHeld == Spec => []LockDiscipline
<1>1. CacheInv => LockDiscipline
  BY DEF CacheInv
<1> QED
  BY <1>1, CacheInvHolds, PTL

\* _rebuild_process_backend drops both caches together: when a key is always
\* found, the caches agree with each other and with the process mode.
THEOREM CachesAlwaysAgree == ~KeyMayBeMissing => (Spec => []CachesAgree)
<1> SUFFICES ASSUME ~KeyMayBeMissing PROVE Spec => []CachesAgree
  OBVIOUS
<1>1. CacheInv => CachesAgree
  BY DEF CacheInv, CachesAgree
<1> QED
  BY <1>1, CacheInvHolds, PTL

=============================================================================
