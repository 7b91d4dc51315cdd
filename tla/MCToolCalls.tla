---------------------------- MODULE MCToolCalls ----------------------------
(***************************************************************************)
(* Instances for TLC of the tool calls of one stdio process: a call on the *)
(* remote backend (RemoteCall), a call on the local one (LocalCall), what  *)
(* overlapping calls share (SharedBackend), a search of past sessions      *)
(* (TranscriptSearch) and an indexing of a repository (CodeIndex).  They   *)
(* share no variable, so each is explored with the others at rest.         *)
(***************************************************************************)
EXTENDS MCRemoteCall, LocalCall, SharedBackend, TranscriptSearch, CodeIndex, TLC

CONSTANTS t1, t2, t3, wa, wb
Alike == Permutations({t1, t2, t3}) \cup Permutations({wa, wb})

\* Every local tool but the two whose reply does not follow their request:
\* memory_feedback (told as recorded when it was skipped) and evolution_status.
LocalHeeding ==
  (DOMAIN Asks \cup DOMAIN LocalAsks \cup Broken) \ {"memory_feedback", "evolution_status"}

\* Every fault of the core but a ValueError that means something else than absence.
CorePlain == CoreFaults \ {"invalid"}

\* A module at the root, a package, and a module in it, which import one another.  One
\* content has a function with its module's name, two methods with the tested one's, a
\* route, a base, calls, and tests in and out of a class.
ThreePaths == <<<<"main">>, <<"pkg", "__init__">>, <<"pkg", "b">>>>
Defined(name, type, calls, bases) ==
  [name |-> name, type |-> type, calls |-> calls, bases |-> bases]
Importing == [defs |-> <<>>, imports |-> {<<"pkg">>, <<"pkg", "b">>}]
Defining ==
  [defs |-> <<Defined(<<"main">>, "function", {"f"}, {}),
              Defined(<<"C">>, "class", {}, {}), Defined(<<"C", "f">>, "function", {"main"}, {}),
              Defined(<<"D">>, "class", {}, {<<"C">>}), Defined(<<"D", "f">>, "route", {}, {}),
              Defined(<<"test_f">>, "test", {"f"}, {}),
              Defined(<<"TestC">>, "test", {}, {}),
              Defined(<<"TestC", "test_main">>, "test", {"main"}, {})>>,
   imports |-> {<<"main">>}]
TwoSources == {Importing, Defining}
NamedFor == "test_f" :> "f" @@ "test_main" :> "main"

VARIABLE part

PartsInit ==
  /\ Init /\ LocalInit /\ SharedInit /\ TranscriptInit /\ IndexInit
  /\ part \in {"remote", "local", "shared", "transcripts", "index"}
  /\ part # "remote" => pick = NoWs /\ lever = NoWs
  /\ part # "shared" => kind = "local"
  /\ part # "transcripts" => ranking = NoStore /\ fit = "same"
  /\ part # "index" => \A p \in Paths : checkout[p] = NoFile

PartsNext ==
  \/ part = "remote" /\ Next /\ UNCHANGED <<part, lvars, sharedVars, searchVars, indexVars>>
  \/ part = "local" /\ LocalNext /\ UNCHANGED <<part, vars, sharedVars, searchVars, indexVars>>
  \/ part = "shared" /\ SharedNext /\ UNCHANGED <<part, vars, lvars, searchVars, indexVars>>
  \/ part = "transcripts" /\ TranscriptNext /\ UNCHANGED <<part, vars, lvars, sharedVars, indexVars>>
  \/ part = "index" /\ IndexNext /\ UNCHANGED <<part, vars, lvars, sharedVars, searchVars>>

PartsSpec ==
  PartsInit /\ [][PartsNext]_<<part, vars, lvars, sharedVars, searchVars, indexVars>>
=============================================================================
