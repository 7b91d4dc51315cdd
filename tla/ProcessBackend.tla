--------------------------- MODULE ProcessBackend ---------------------------
(***************************************************************************)
(* The stdio server's process backend: the two caches of one backend       *)
(* object (backends/dispatch.py and tools/common.py), the lock that guards *)
(* their rebuild, and the three kinds of tool call that meet there.        *)
(* FastMCP runs synchronous tools in a thread pool, so calls interleave at *)
(* every point where they hold no lock.                                    *)
(*                                                                         *)
(*   a switcher   server._switch_workspace (both switch tools)             *)
(*   a migrator   portability_tools.memory_migrate                         *)
(*   a writer     any tool that takes get_backend() and sends one request  *)
(*                                                                         *)
(* Every call is one thread that runs once.  What a remote service or the  *)
(* config file answers is a free choice among the outcomes the code tells  *)
(* apart.                                                                  *)
(***************************************************************************)
EXTENDS Naturals, Sequences, FiniteSets

CONSTANTS
  Migrators, Switchers, Writers,  \* the tool calls, by kind
  MayOverlap,      \* <<c, d>> : the client may send c while d still runs
  Workspaces,      \* the workspaces GET /memory/workspaces lists
  LocalName,       \* LOCAL_WORKSPACE, the one workspace of local mode
  NoWs,            \* no workspace named: "" or None
  EnvWs,           \* SMARTMEMORY_WORKSPACE_ID, else SMARTMEMORY_TEAM_ID
  EnvTeam,         \* SMARTMEMORY_TEAM_ID
  EnvMode,         \* SMARTMEMORY_MODE, which load_config() lays over the file's mode
  Free,            \* nobody holds rebuild_lock
  InitModes,       \* the values of SMARTMEMORY_MCP_MODE at start
  InitTeams,       \* the values of team_id in the config file at start
  Packages,        \* the smartmemory packages that may be installed
  ConfigOutcomes,  \* what load_config() may do when it is
  SaveMayFail,     \* whether save_config() may raise
  KeyMayBeMissing  \* whether get_api_key() may find no key

Calls == Migrators \cup Switchers \cup Writers
Modes == {"local", "remote"}
Picks == Workspaces \cup {LocalName, NoWs}
NoObj == 0

\* No package, one whose load_config() always lays the environment over the
\* file, and one that can leave the environment out (apply_env=False).
AnyPackage == {"absent", "older", "current"}

ASSUME CallsAssumption ==
  /\ Migrators \cap Switchers = {} /\ Migrators \cap Writers = {}
  /\ Switchers \cap Writers = {} /\ Free \notin Calls
  /\ MayOverlap \subseteq Calls \X Calls

ASSUME NamesAssumption ==
  /\ LocalName \notin Workspaces /\ NoWs \notin Workspaces
  /\ LocalName # NoWs /\ EnvWs \in Picks
  /\ EnvTeam \in Picks /\ (EnvTeam # NoWs => EnvWs # NoWs)

ASSUME EnvironmentAssumption ==
  /\ InitModes \subseteq Modes /\ InitTeams \subseteq Picks
  /\ EnvMode \in Modes \cup {"none"}
  /\ Packages \subseteq AnyPackage /\ ConfigOutcomes \subseteq {"ok", "unreadable"}
  /\ SaveMayFail \in BOOLEAN /\ KeyMayBeMissing \in BOOLEAN

VARIABLES
  env,      \* SMARTMEMORY_MCP_MODE, as requested_mode() reads it
  dcache,   \* dispatch._backend
  ccache,   \* tools.common._backend
  heap,     \* every backend object built, by index: its kind and its pick
  lock,     \* owner of dispatch.rebuild_lock (an RLock, so owning it is enough)
  parked,   \* portability_tools._parked["remote_workspace"]
  file,     \* the package and its config file's mode and team_id
  pc,       \* where each call is
  arg,      \* switchers: the workspace asked for; migrators: the target mode
  mode,     \* migrators: source_mode
  src,      \* the object the call's first get_backend() returned
  tgt,      \* migrators: target_backend
  live,     \* migrators: live_workspace, the pick captured before the export
  carry,    \* migrators: the workspace the rebuild under way carries
  held,     \* the config object the call loaded
  from,     \* migrators: the store the export read
  landed,   \* the store the call's write or import reached
  named,    \* migrators: the pick the reply of an arrival names
  tries,    \* migrators: reverts still possible inside the try block
  reply     \* how the call ended

process == <<env, dcache, ccache, heap, lock, parked, file>>
locals == <<arg, mode, src, tgt, live, carry, held, from, landed, named, tries, reply>>
vars == <<process, pc, locals>>

-----------------------------------------------------------------------------
(* Backend objects.  A store is where a request of an object ends: the      *)
(* local store, or the remote workspace its pick names (NoWs: the service   *)
(* decides).                                                                *)

Store == [kind : Modes, pick : Picks]
LocalStore == [kind |-> "local", pick |-> NoWs]
RemoteStore(ws) == [kind |-> "remote", pick |-> ws]
Config == [mode : Modes, team : Picks, package : AnyPackage \ {"absent"}]

NoStore == [kind |-> "none", pick |-> NoWs]
NoConfig == [mode |-> "none", team |-> NoWs, package |-> "absent"]

Outcomes == IF file = NoConfig THEN {"absent"} ELSE ConfigOutcomes

\* load_config(): the file with the environment laid over it.
Overlaid ==
  [file EXCEPT !.mode = IF EnvMode # "none" THEN EnvMode ELSE @,
               !.team = IF EnvTeam # NoWs THEN EnvTeam ELSE @]

\* Mutant of FileLayer: load_config() whatever the package can do.
FileLayerOverlaid == Overlaid

\* file_layer_config(): the file alone, where the package can tell it apart.
FileLayer == IF file.package = "current" THEN file ELSE Overlaid

\* build_backend's workspace: the argument, else the environment, else the
\* config when it can be read, else none.
TeamOf(ws, outcome) ==
  CASE ws # NoWs -> ws
    [] ws = NoWs /\ EnvWs # NoWs -> EnvWs
    [] OTHER -> IF outcome = "ok" THEN file.team ELSE NoWs

\* The objects build_backend(m, ws) may construct now.
Built(m, ws) ==
  IF m = "local" THEN {LocalStore}
  ELSE {RemoteStore(TeamOf(ws, o)) : o \in Outcomes}

\* build_backend raises only without a key and without a config.
MayRaise(m) == m = "remote" /\ KeyMayBeMissing /\ \E o \in Outcomes : o # "ok"

\* Mutant of Obj: an index past the object built.
ObjOffByOne == IF ccache # NoObj THEN ccache
               ELSE IF dcache # NoObj THEN dcache ELSE Len(heap) + 2

\* The object get_backend() would return: the common cache, else the dispatch
\* cache, else a new one.
Obj == IF ccache # NoObj THEN ccache
       ELSE IF dcache # NoObj THEN dcache ELSE Len(heap) + 1

\* The critical section of get_backend() when it returns Obj.
Resolve ==
  /\ lock = Free
  /\ ccache' = Obj
  /\ IF Obj <= Len(heap)
     THEN UNCHANGED <<dcache, heap>>
     ELSE /\ dcache' = Obj
          /\ \E b \in Built(env, NoWs) : heap' = Append(heap, b)
  /\ UNCHANGED <<env, lock, parked, file>>

\* The critical section of get_backend() when build_backend raises.
ResolveRaises ==
  /\ lock = Free /\ ccache = NoObj /\ dcache = NoObj /\ MayRaise(env)
  /\ UNCHANGED process

At(c, here) == pc[c] = here
Goto(c, there) == pc' = [pc EXCEPT ![c] = there]
End(c, how) == Goto(c, "done") /\ reply' = [reply EXCEPT ![c] = how]
Running(c) == pc[c] \notin {"idle", "done"}
MayStart(c) == At(c, "idle") /\ \A d \in Calls : Running(d) => <<c, d>> \in MayOverlap

Init ==
  /\ env \in InitModes /\ dcache = NoObj /\ ccache = NoObj /\ heap = << >>
  /\ lock = Free /\ parked = NoWs
  /\ \/ file \in [mode : Modes, team : InitTeams, package : Packages \ {"absent"}]
     \/ "absent" \in Packages /\ file = NoConfig
  /\ pc = [c \in Calls |-> "idle"]
  /\ arg = [c \in Calls |-> "none"] /\ mode = [c \in Calls |-> "none"]
  /\ src = [c \in Calls |-> NoObj] /\ tgt = [c \in Calls |-> NoObj]
  /\ live = [c \in Calls |-> NoWs] /\ carry = [c \in Calls |-> NoWs]
  /\ held = [c \in Calls |-> NoConfig]
  /\ from = [c \in Calls |-> NoStore] /\ landed = [c \in Calls |-> NoStore]
  /\ named = [c \in Calls |-> NoWs] /\ tries = [c \in Calls |-> 1]
  /\ reply = [c \in Calls |-> "none"]

-----------------------------------------------------------------------------
(* switch_workspace: take the backend, resolve the name over the network,   *)
(* commit only onto the backend that is still current, then save.           *)

StartSwitch(c) ==
  /\ MayStart(c) /\ Goto(c, "s_get")
  /\ \E w \in Workspaces \cup {LocalName} : arg' = [arg EXCEPT ![c] = w]
  /\ UNCHANGED <<process, mode, src, tgt, live, carry, held, from, landed, named, tries, reply>>

SwitchGet(c) ==
  /\ At(c, "s_get")
  /\ \/ /\ Resolve /\ src' = [src EXCEPT ![c] = Obj]
        /\ Goto(c, "s_list") /\ UNCHANGED reply
     \/ ResolveRaises /\ End(c, "refused") /\ UNCHANGED src
  /\ UNCHANGED <<arg, mode, tgt, live, carry, held, from, landed, named, tries>>

\* Local mode knows only LocalName; a remote listing may also fail.
Resolvable(c) ==
  IF heap[src[c]].kind = "local" THEN arg[c] = LocalName ELSE arg[c] \in Workspaces

SwitchList(c) ==
  /\ At(c, "s_list")
  /\ \/ Resolvable(c) /\ Goto(c, "s_commit") /\ UNCHANGED reply
     \/ /\ heap[src[c]].kind = "remote" \/ ~Resolvable(c)
        /\ End(c, "refused")
  /\ UNCHANGED <<process, arg, mode, src, tgt, live, carry, held, from, landed, named, tries>>

\* commit_if_current(backend, set_active_workspace): a no-op on a local backend.
Committed(o, ws) ==
  IF heap[o].kind = "remote" THEN [heap EXCEPT ![o].pick = ws] ELSE heap

\* Mutant of SwitchCommit: commits without asking whether the backend is current.
SwitchCommitUnchecked(c) ==
  /\ At(c, "s_commit") /\ lock = Free
  /\ heap' = Committed(src[c], arg[c]) /\ End(c, "switched")
  /\ UNCHANGED <<env, dcache, ccache, lock, parked, file>>
  /\ UNCHANGED <<arg, mode, src, tgt, live, carry, held, from, landed, named, tries>>

SwitchCommit(c) ==
  /\ At(c, "s_commit") /\ lock = Free
  /\ IF src[c] # ccache
     THEN Goto(c, "s_label") /\ UNCHANGED <<heap, reply>>
     ELSE /\ heap' = Committed(src[c], arg[c])
          /\ \/ Goto(c, "s_load") /\ UNCHANGED reply    \* save_as_default
             \/ End(c, "switched")
  /\ UNCHANGED <<env, dcache, ccache, lock, parked, file>>
  /\ UNCHANGED <<arg, mode, src, tgt, live, carry, held, from, landed, named, tries>>

\* The refusal names the workspace in use, which takes get_backend() again.
SwitchLabel(c) ==
  /\ At(c, "s_label") /\ (Resolve \/ ResolveRaises) /\ End(c, "refused")
  /\ UNCHANGED <<arg, mode, src, tgt, live, carry, held, from, landed, named, tries>>

SwitchLoad(c) ==
  /\ At(c, "s_load")
  /\ \E o \in Outcomes :
       CASE o = "ok" -> Goto(c, "s_save") /\ held' = [held EXCEPT ![c] = FileLayer] /\ UNCHANGED reply
         [] o = "absent" -> End(c, "switched") /\ UNCHANGED held
         [] OTHER -> End(c, "raised") /\ UNCHANGED held
  /\ UNCHANGED <<process, arg, mode, src, tgt, live, carry, from, landed, named, tries>>

SwitchSave(c) ==
  /\ At(c, "s_save")
  /\ \/ file' = [held[c] EXCEPT !.team = arg[c]] /\ End(c, "saved")
     \/ SaveMayFail /\ UNCHANGED file /\ End(c, "raised")
  /\ UNCHANGED <<env, dcache, ccache, heap, lock, parked>>
  /\ UNCHANGED <<arg, mode, src, tgt, live, carry, held, from, landed, named, tries>>

-----------------------------------------------------------------------------
(* A writer: get_backend(), then one request whose headers are built from   *)
(* the pick the object has then.                                            *)

StartWrite(c) ==
  /\ MayStart(c) /\ Goto(c, "w_get") /\ UNCHANGED <<process, locals>>

WriteGet(c) ==
  /\ At(c, "w_get")
  /\ \/ /\ Resolve /\ src' = [src EXCEPT ![c] = Obj]
        /\ Goto(c, "w_send") /\ UNCHANGED reply
     \/ ResolveRaises /\ End(c, "raised") /\ UNCHANGED src
  /\ UNCHANGED <<arg, mode, tgt, live, carry, held, from, landed, named, tries>>

WriteSend(c) ==
  /\ At(c, "w_send") /\ End(c, "wrote")
  /\ landed' = [landed EXCEPT ![c] = heap[src[c]]]
  /\ UNCHANGED <<process, arg, mode, src, tgt, live, carry, held, from, named, tries>>

-----------------------------------------------------------------------------
(* memory_migrate up to the forward rebuild.                                *)

StartMigrate(c) ==
  /\ MayStart(c) /\ Goto(c, "m_mode")
  /\ \E t \in Modes : arg' = [arg EXCEPT ![c] = t]
  /\ UNCHANGED <<process, mode, src, tgt, live, carry, held, from, landed, named, tries, reply>>

\* requested_mode() takes no lock.
MigrateMode(c) ==
  /\ At(c, "m_mode") /\ mode' = [mode EXCEPT ![c] = env]
  /\ IF env = arg[c] THEN End(c, "already") ELSE Goto(c, "m_get") /\ UNCHANGED reply
  /\ UNCHANGED <<process, arg, src, tgt, live, carry, held, from, landed, named, tries>>

MigrateGet(c) ==
  /\ At(c, "m_get")
  /\ \/ /\ Resolve /\ src' = [src EXCEPT ![c] = Obj]
        /\ Goto(c, "m_live") /\ UNCHANGED reply
     \/ ResolveRaises /\ End(c, "raised") /\ UNCHANGED src
  /\ UNCHANGED <<arg, mode, tgt, live, carry, held, from, landed, named, tries>>

\* _live_workspace(source_backend), read after the lock is released.
PickRead(c) == IF mode[c] = "remote" THEN heap[src[c]].pick ELSE NoWs

MigrateLive(c) ==
  /\ At(c, "m_live") /\ Goto(c, "m_export")
  /\ live' = [live EXCEPT ![c] = PickRead(c)]
  /\ UNCHANGED <<process, arg, mode, src, tgt, carry, held, from, landed, named, tries, reply>>

\* _export_okf follows the object's type; a remote export is pinned to `live`
\* only when the process was remote.
ExportStore(c) ==
  IF heap[src[c]].kind = "remote" /\ mode[c] = "remote"
  THEN RemoteStore(live[c]) ELSE heap[src[c]]

MigrateExport(c) ==
  /\ At(c, "m_export")
  /\ \/ /\ Goto(c, "m_load") /\ UNCHANGED reply
        /\ from' = [from EXCEPT ![c] = ExportStore(c)]
     \/ (End(c, "raised") \/ End(c, "nothing")) /\ UNCHANGED from
  /\ UNCHANGED <<process, arg, mode, src, tgt, live, carry, held, landed, named, tries>>

MigrateLoad(c) ==
  /\ At(c, "m_load")
  /\ \E o \in Outcomes :
       CASE o = "ok" -> Goto(c, "m_save") /\ held' = [held EXCEPT ![c] = FileLayer] /\ UNCHANGED reply
         [] o = "absent" -> End(c, "refused") /\ UNCHANGED held
         [] OTHER -> End(c, "raised") /\ UNCHANGED held
  /\ UNCHANGED <<process, arg, mode, src, tgt, live, carry, from, landed, named, tries>>

\* The forward save, outside the try block, then the workspace to carry.
MigrateSave(c) ==
  /\ At(c, "m_save")
  /\ \/ /\ file' = [held[c] EXCEPT !.mode = arg[c]]
        /\ carry' = [carry EXCEPT ![c] = IF arg[c] = "remote" THEN parked ELSE NoWs]
        /\ tries' = [tries EXCEPT ![c] = 1]
        /\ Goto(c, "f_drop") /\ UNCHANGED reply
     \/ SaveMayFail /\ UNCHANGED <<file, carry, tries>> /\ End(c, "raised")
  /\ UNCHANGED <<env, dcache, ccache, heap, lock, parked>>
  /\ UNCHANGED <<arg, mode, src, tgt, live, held, from, landed, named>>

-----------------------------------------------------------------------------
(* _rebuild_process_backend: under the lock, set the mode and drop the      *)
(* dispatch cache, build the remote object that carries a workspace, drop   *)
(* the common cache.  `f` steps rebuild towards the target, `r` steps back  *)
(* towards the source mode.                                                 *)

Drop(c, m) ==
  /\ lock = Free /\ lock' = c
  /\ env' = m /\ dcache' = NoObj
  /\ UNCHANGED <<ccache, heap, parked, file>>

\* Mutant of Build: forgets the workspace to carry.
BuildWithoutCarry(c, m) ==
  /\ lock = c /\ UNCHANGED <<env, dcache, ccache, heap, lock, parked, file>>

\* The build succeeds, or there is nothing to carry and nothing is built.
Build(c, m) ==
  /\ lock = c
  /\ IF m = "remote" /\ carry[c] # NoWs
     THEN /\ \E b \in Built(m, carry[c]) : heap' = Append(heap, b)
          /\ dcache' = Len(heap) + 1
     ELSE UNCHANGED <<dcache, heap>>
  /\ UNCHANGED <<env, ccache, lock, parked, file>>

\* Mutant of BuildRaises: the exception leaves the lock taken.
BuildRaisesKeepsLock(c, m) ==
  /\ lock = c /\ carry[c] # NoWs /\ MayRaise(m) /\ UNCHANGED process

\* The build raises: the lock is released and the common cache stays.
BuildRaises(c, m) ==
  /\ lock = c /\ carry[c] # NoWs /\ MayRaise(m)
  /\ lock' = Free
  /\ UNCHANGED <<env, dcache, ccache, heap, parked, file>>

\* Mutant of Reset: the common cache is not dropped.
ResetKeepsCommonCache(c) ==
  /\ lock = c /\ lock' = Free /\ UNCHANGED <<env, dcache, ccache, heap, parked, file>>

Reset(c) ==
  /\ lock = c /\ lock' = Free /\ ccache' = NoObj
  /\ UNCHANGED <<env, dcache, heap, parked, file>>

ForwardDrop(c) ==
  /\ At(c, "f_drop") /\ Drop(c, arg[c]) /\ Goto(c, "f_build")
  /\ UNCHANGED locals

ForwardBuild(c) ==
  /\ At(c, "f_build")
  /\ \/ Build(c, arg[c]) /\ Goto(c, "f_reset")
     \/ BuildRaises(c, arg[c]) /\ Goto(c, "r_save")
  /\ UNCHANGED locals

ForwardReset(c) ==
  /\ At(c, "f_reset") /\ Reset(c) /\ Goto(c, "m_target")
  /\ UNCHANGED locals

-----------------------------------------------------------------------------
(* The import and what follows it.                                          *)

MigrateTarget(c) ==
  /\ At(c, "m_target")
  /\ \/ Resolve /\ tgt' = [tgt EXCEPT ![c] = Obj] /\ Goto(c, "m_import")
     \/ ResolveRaises /\ UNCHANGED tgt /\ Goto(c, "r_save")
  /\ UNCHANGED <<arg, mode, src, live, carry, held, from, landed, named, tries, reply>>

\* The import goes through, every item fails (the revert is then inside the
\* try block, so one that raises is tried again), or it raises.
MigrateImport(c) ==
  /\ At(c, "m_import")
  /\ \/ /\ landed' = [landed EXCEPT ![c] = heap[tgt[c]]]
        /\ Goto(c, "m_finish") /\ UNCHANGED tries
     \/ /\ \E n \in {1, 2} : tries' = [tries EXCEPT ![c] = n]
        /\ Goto(c, "r_save") /\ UNCHANGED landed
  /\ UNCHANGED <<process, arg, mode, src, tgt, live, carry, held, from, named, reply>>

\* Mutant of MigrateFinish: names the workspace it carried, not where it is.
MigrateFinishNamesCarried(c) ==
  /\ At(c, "m_finish") /\ End(c, "complete")
  /\ parked' = live[c] /\ named' = [named EXCEPT ![c] = carry[c]]
  /\ UNCHANGED <<env, dcache, ccache, heap, lock, file>>
  /\ UNCHANGED <<arg, mode, src, tgt, live, carry, held, from, landed, tries>>

\* _leave_remote_workspace parks the exported pick; _arrive_remote_workspace
\* forgets it and names the pick the target has by then.
MigrateFinish(c) ==
  /\ At(c, "m_finish") /\ End(c, "complete")
  /\ IF arg[c] = "local"
     THEN parked' = live[c] /\ UNCHANGED named
     ELSE parked' = NoWs /\ named' = [named EXCEPT ![c] = heap[tgt[c]].pick]
  /\ UNCHANGED <<env, dcache, ccache, heap, lock, file>>
  /\ UNCHANGED <<arg, mode, src, tgt, live, carry, held, from, landed, tries>>

-----------------------------------------------------------------------------
(* revert(): the config as it was loaded, then a rebuild that carries the   *)
(* pick the source backend has at that moment.                              *)

RevertFails(c) ==
  IF tries[c] > 1
  THEN Goto(c, "r_save") /\ tries' = [tries EXCEPT ![c] = @ - 1] /\ UNCHANGED reply
  ELSE End(c, "raised") /\ UNCHANGED tries

RevertSave(c) ==
  /\ At(c, "r_save")
  /\ \/ file' = held[c] /\ Goto(c, "r_drop") /\ UNCHANGED <<tries, reply>>
     \/ SaveMayFail /\ UNCHANGED file /\ RevertFails(c)
  /\ UNCHANGED <<env, dcache, ccache, heap, lock, parked>>
  /\ UNCHANGED <<arg, mode, src, tgt, live, carry, held, from, landed, named>>

\* Mutant of RevertDrop: carries the pick captured before the export.
RevertDropCarriesCaptured(c) ==
  /\ At(c, "r_drop") /\ Drop(c, mode[c]) /\ Goto(c, "r_build")
  /\ carry' = [carry EXCEPT ![c] = live[c]]
  /\ UNCHANGED <<arg, mode, src, tgt, live, held, from, landed, named, tries, reply>>

RevertDrop(c) ==
  /\ At(c, "r_drop") /\ Drop(c, mode[c]) /\ Goto(c, "r_build")
  /\ carry' = [carry EXCEPT ![c] = PickRead(c)]
  /\ UNCHANGED <<arg, mode, src, tgt, live, held, from, landed, named, tries, reply>>

RevertBuild(c) ==
  /\ At(c, "r_build")
  /\ \/ Build(c, mode[c]) /\ Goto(c, "r_reset") /\ UNCHANGED <<tries, reply>>
     \/ BuildRaises(c, mode[c]) /\ RevertFails(c)
  /\ UNCHANGED <<arg, mode, src, tgt, live, carry, held, from, landed, named>>

RevertReset(c) ==
  /\ At(c, "r_reset") /\ Reset(c) /\ End(c, "failed")
  /\ UNCHANGED <<arg, mode, src, tgt, live, carry, held, from, landed, named, tries>>

-----------------------------------------------------------------------------
SwitchStep(c) ==
  \/ SwitchGet(c) \/ SwitchList(c) \/ SwitchCommit(c)
  \/ SwitchLabel(c) \/ SwitchLoad(c) \/ SwitchSave(c)
WriteStep(c) == WriteGet(c) \/ WriteSend(c)
RebuildStep(c) ==
  \/ ForwardDrop(c) \/ ForwardBuild(c) \/ ForwardReset(c)
  \/ RevertDrop(c) \/ RevertBuild(c) \/ RevertReset(c)
MigrateStep(c) ==
  \/ MigrateMode(c) \/ MigrateGet(c) \/ MigrateLive(c) \/ MigrateExport(c)
  \/ MigrateLoad(c) \/ MigrateSave(c) \/ MigrateTarget(c) \/ MigrateImport(c)
  \/ MigrateFinish(c) \/ RevertSave(c) \/ RebuildStep(c)

\* All calls have ended: the client sends nothing more.
Quiet == (\A c \in Calls : At(c, "done")) /\ UNCHANGED vars

Next ==
  \/ \E c \in Switchers : StartSwitch(c) \/ SwitchStep(c)
  \/ \E c \in Writers : StartWrite(c) \/ WriteStep(c)
  \/ \E c \in Migrators : StartMigrate(c) \/ MigrateStep(c)
  \/ Quiet

\* A started call keeps taking steps: its thread is scheduled, every request
\* has a timeout, and a lock released for good is obtained.  The client owes
\* nothing, so no fairness on the Start actions.
Fairness ==
  /\ \A c \in Switchers : WF_vars(SwitchStep(c))
  /\ \A c \in Writers : WF_vars(WriteStep(c))
  /\ \A c \in Migrators : WF_vars(MigrateStep(c))

Spec == Init /\ [][Next]_vars
FairSpec == Spec /\ Fairness

-----------------------------------------------------------------------------
(* Properties.                                                              *)

Positions ==
  {"idle", "done", "s_get", "s_list", "s_commit", "s_label", "s_load", "s_save",
   "w_get", "w_send", "m_mode", "m_get", "m_live", "m_export", "m_load", "m_save",
   "f_drop", "f_build", "f_reset", "m_target", "m_import", "m_finish",
   "r_save", "r_drop", "r_build", "r_reset"}
Replies == {"none", "refused", "switched", "saved", "wrote", "already", "nothing",
            "raised", "complete", "failed"}

Objects == 0 .. Len(heap)

\* Every variable has its type, and every reference is to an object built.
TypeOK ==
  /\ env \in Modes /\ heap \in Seq(Store)
  /\ dcache \in Objects /\ ccache \in Objects
  /\ lock \in Calls \cup {Free} /\ parked \in Picks
  /\ file \in Config \cup {NoConfig}
  /\ pc \in [Calls -> Positions] /\ reply \in [Calls -> Replies]
  /\ arg \in [Calls -> Picks \cup Modes \cup {"none"}]
  /\ mode \in [Calls -> Modes \cup {"none"}]
  /\ src \in [Calls -> Objects] /\ tgt \in [Calls -> Objects]
  /\ live \in [Calls -> Picks] /\ carry \in [Calls -> Picks] /\ named \in [Calls -> Picks]
  /\ held \in [Calls -> Config \cup {NoConfig}]
  /\ from \in [Calls -> Store \cup {NoStore}] /\ landed \in [Calls -> Store \cup {NoStore}]
  /\ tries \in [Calls -> {1, 2}]

\* dispatch.rebuild_lock: only the call inside a rebuild owns the lock, and a
\* call inside a rebuild does own it.
InRebuild(c) == pc[c] \in {"f_build", "f_reset", "r_build", "r_reset"}
LockDiscipline == \A c \in Calls : InRebuild(c) <=> lock = c

\* "drop both backend caches together" (_rebuild_process_backend): while no
\* rebuild runs the two caches never hold different objects, and an object
\* tools get is of the mode the process says it runs in.
CachesAgree ==
  lock = Free =>
    /\ ccache # NoObj /\ dcache # NoObj => ccache = dcache
    /\ \A o \in {ccache, dcache} \ {NoObj} : heap[o].kind = env

\* memory_migrate: "migrating onto itself would just duplicate every memory".
\* No acknowledged import reaches the kind of backend its export read.
NoSelfImport ==
  \A c \in Migrators :
    from[c] # NoStore /\ landed[c] # NoStore => landed[c].kind # from[c].kind

Completed(c, t) == reply[c] = "complete" /\ arg[c] = t

\* _leave_remote_workspace: "a later memory_migrate('remote') must return the
\* data where it came from".  A completed arrival that carried a parked pick
\* imported into the store some completed departure exported.
RoundTrip ==
  \A c \in Migrators :
    Completed(c, "remote") /\ carry[c] # NoWs =>
      \E d \in Migrators : Completed(d, "local") /\ from[d] = landed[c]

\* _arrive_remote_workspace: "Name the remote workspace an import landed in."
ArrivalNamed ==
  \A c \in Migrators : Completed(c, "remote") => landed[c] = RemoteStore(named[c])

\* switch_workspace replied "Saved as the default": the file holds what some
\* such reply saved, whatever a migration writes or reverts, except what
\* file_layer_config() warns of: over a package that cannot tell the layers
\* apart, a later save also saves the environment's SMARTMEMORY_TEAM_ID.
SavedDefaultKept ==
  LET savers == {c \in Switchers : reply[c] = "saved"}
  IN savers # {} =>
       \/ \E c \in savers : file.team = arg[c]
       \/ file.package = "older" /\ EnvTeam # NoWs /\ file.team = EnvTeam

\* Every tool call ends: nobody waits for rebuild_lock forever, also when a
\* build or a save inside a rebuild raises.
EveryCallEnds == \A c \in Calls : ~At(c, "idle") ~> At(c, "done")
=============================================================================
