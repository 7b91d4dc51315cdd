----------------------------- MODULE CodeIndex -----------------------------
(***************************************************************************)
(* Indexing a repository with the bundled parser (code_parser.py, and      *)
(* ingest_code() of remote.py): the files are collected, read and parsed   *)
(* one by one while they are edited (external), and the bundle replaces    *)
(* the index of the service whole or not at all.  A path or a dotted name  *)
(* is a sequence of its parts; an id is the path and the name in it.       *)
(***************************************************************************)
EXTENDS Naturals, Sequences, FiniteSets

CONSTANTS
  Sorted,       \* the paths a Python file may have, without ".py", in order
  Sources,      \* what may be in a file, see Source
  Tested,       \* the function that a test is named for: "test_f" :> "f"
  Unparsable,   \* contents that cannot be read or parsed
  NoFile, Prior

\* A file: its definitions in order, and the modules that it imports by full name.
\* A definition is <<function>>, <<class>> or <<class, method>>, of an entity type, with
\* the last names of what it calls and the names of its bases.
Definition == [name : Seq(STRING), type : {"class", "function", "route", "test"},
               calls : SUBSET STRING, bases : SUBSET Seq(STRING)]
Source == [defs : Seq(Definition), imports : SUBSET Seq(STRING)]

ItemsOf(s) == {s[i] : i \in DOMAIN s}
Final(s) == s[Len(s)]
Paths == ItemsOf(Sorted)
Id(path, name) == <<path, name>>
Relation(from, to, kind) == [source |-> from, target |-> to, type |-> kind]

\* parse_file(): pkg/__init__.py is the module pkg.
ModuleName(path) ==
  IF Len(path) > 1 /\ Final(path) = "__init__" THEN SubSeq(path, 1, Len(path) - 1) ELSE path

\* Mutant of ModuleToPath: the directories of a module are left out.
MModuleToPath(name) == <<Final(name)>>

\* _module_to_path()
ModuleToPath(name) == name

ModuleId(path) == Id(path, ModuleName(path))

\* A method is found in the body of a class of its file.
ASSUME SourcesAssumption ==
  /\ Sources \subseteq Source /\ {Unparsable, NoFile} \cap Sources = {} /\ Unparsable # NoFile
  /\ \A src \in Sources : \A d \in ItemsOf(src.defs) :
       \/ Len(d.name) = 1
       \/ Len(d.name) = 2 /\ \E c \in ItemsOf(src.defs) : c.name = <<d.name[1]>>

\* _link_tests(): the definition of the tested name itself, or else the first method.
Subjects(defs, test) ==
  LET f == Tested[Final(test.name)]
      other == {i \in DOMAIN defs : defs[i].type # "test"}
      exact == {i \in other : defs[i].name = <<f>>}
      methods == {i \in other : Len(defs[i].name) = 2 /\ Final(defs[i].name) = f} IN
  IF exact # {} THEN {<<f>>}
  ELSE {defs[i].name : i \in {j \in methods : \A k \in methods : j <= k}}

\* parse_file() of a file that can be parsed.
Entities(path, src) == {ModuleId(path)} \cup {Id(path, d.name) : d \in ItemsOf(src.defs)}

Owner(path, d) == IF Len(d.name) = 1 THEN ModuleId(path) ELSE Id(path, <<d.name[1]>>)

Relations(path, src) ==
  LET defs == ItemsOf(src.defs)
      tests == {d \in defs : d.type = "test" /\ Final(d.name) \in DOMAIN Tested} IN
  {Relation(Owner(path, d), Id(path, d.name), "DEFINES") : d \in defs}
    \cup (UNION {{Relation(Id(path, d.name), Id(path, b), "INHERITS") : b \in d.bases} : d \in defs})
    \cup (UNION {{Relation(Id(path, d.name), Id(path, <<c>>), "CALLS") : c \in d.calls} : d \in defs})
    \cup {Relation(ModuleId(path), Id(ModuleToPath(m), m), "IMPORTS") : m \in src.imports}
    \cup (UNION {{Relation(Id(path, t.name), Id(path, s), "TESTS") : s \in Subjects(src.defs, t)} : t \in tests})

-----------------------------------------------------------------------------
VARIABLES
  checkout,   \* what is in each file, or NoFile
  index,      \* the contents that the service's index was made from; Prior, before this call
  phase,      \* where ingest_code() is
  pending,    \* the collected files still to parse
  parsed,     \* the contents of each file parsed so far
  faults,     \* whether a file or a directory could not be read
  indexReply,
  edited      \* history: the files edited since the call began

indexVars == <<checkout, index, phase, pending, parsed, faults, indexReply, edited>>

Present == {p \in Paths : checkout[p] # NoFile}
Bundle == {p \in Paths : parsed[p] # NoFile}
BundleEntities == UNION {Entities(p, parsed[p]) : p \in Bundle}

\* Relations whose ends are both in the bundle are sent.
BundleRelations ==
  {r \in UNION {Relations(p, parsed[p]) : p \in Bundle} :
     r.source \in BundleEntities /\ r.target \in BundleEntities}

Unparsed == [p \in Paths |-> NoFile]
IndexInit ==
  /\ checkout \in [Paths -> Sources \cup {Unparsable, NoFile}]
  /\ index = Prior /\ phase = "idle" /\ pending = {} /\ parsed = Unparsed
  /\ faults = FALSE /\ indexReply = "none" /\ edited = {}

\* collect_python_files(): a directory that cannot be listed is an error of the call,
\* and the files below it are not collected.
Collect ==
  /\ phase = "idle" /\ phase' = "parse"
  /\ \E unlisted \in SUBSET Present :
       /\ pending' = Present \ unlisted
       /\ faults' \in {unlisted # {}, TRUE}
  /\ UNCHANGED <<checkout, index, parsed, indexReply, edited>>

\* parse_file(), of the first of them.
ParseFile(i) ==
  LET p == Sorted[i] IN
  /\ phase = "parse" /\ p \in pending /\ \A j \in 1 .. i - 1 : Sorted[j] \notin pending
  /\ pending' = pending \ {p}
  /\ IF checkout[p] \in {Unparsable, NoFile} THEN faults' = TRUE /\ UNCHANGED parsed
     ELSE parsed' = [parsed EXCEPT ![p] = checkout[p]] /\ UNCHANGED faults
  /\ UNCHANGED <<checkout, index, phase, indexReply, edited>>

\* Mutant of Decide: what could not be read is only reported.
MDecide ==
  /\ phase = "parse" /\ pending = {}
  /\ \/ phase' = "done" /\ indexReply' = "unchanged"
     \/ Bundle # {} /\ phase' = "publish" /\ UNCHANGED indexReply
  /\ UNCHANGED <<checkout, index, pending, parsed, faults, edited>>

\* Any error, no entity, or too large a bundle refuses the replacement before it is sent.
Decide ==
  /\ phase = "parse" /\ pending = {}
  /\ \/ phase' = "done" /\ indexReply' = "unchanged"
     \/ ~faults /\ Bundle # {} /\ phase' = "publish" /\ UNCHANGED indexReply
  /\ UNCHANGED <<checkout, index, pending, parsed, faults, edited>>

\* The service replaces the whole index, refuses, or its answer is lost.
PublishBundle ==
  /\ phase = "publish" /\ phase' = "done"
  /\ \/ index' = parsed /\ indexReply' \in {"replaced", "unconfirmed"}
     \/ UNCHANGED index /\ indexReply' \in {"refused", "unconfirmed"}
  /\ UNCHANGED <<checkout, pending, parsed, faults, edited>>

\* What is in the service then is the prior index of the next call.
EndIndex ==
  /\ phase = "done" /\ phase' = "idle"
  /\ index' = Prior /\ parsed' = Unparsed /\ faults' = FALSE /\ indexReply' = "none" /\ edited' = {}
  /\ UNCHANGED <<checkout, pending>>

\* A developer writes or removes a file.
Edit(p) ==
  /\ \E s \in Sources \cup {Unparsable, NoFile} : s # checkout[p] /\ checkout' = [checkout EXCEPT ![p] = s]
  /\ phase \in {"parse", "publish"} /\ edited' = edited \cup {p}
  /\ UNCHANGED <<index, phase, pending, parsed, faults, indexReply>>

IndexNext ==
  \/ Collect \/ (\E i \in DOMAIN Sorted : ParseFile(i)) \/ Decide \/ PublishBundle \/ EndIndex
  \/ \E p \in Paths : Edit(p)

IndexSpec == IndexInit /\ [][IndexNext]_indexVars

-----------------------------------------------------------------------------
\* What was not edited meanwhile is in the index as it is in the checkout.
WholeIndex ==
  \A p \in Paths \ edited : index[p] = checkout[p]

\* A module is reached from every module that imports it by its full name, unless it is
\* a package: its file is not where _module_to_path() looks.
ImportsAgree ==
  \A p, q \in Bundle :
    ModuleName(q) = q /\ q \in parsed[p].imports =>
      Relation(ModuleId(p), ModuleId(q), "IMPORTS") \in BundleRelations

\* Every definition hangs from one owner, which is not itself unless it has the name of
\* its module: main.py and its main() have one id.
OwnersAgree ==
  \A p \in Bundle : \A d \in ItemsOf(parsed[p].defs) :
    LET owners == {r.source : r \in {s \in BundleRelations :
                     s.type = "DEFINES" /\ s.target = Id(p, d.name)}} IN
    /\ Cardinality(owners) = 1
    /\ d.name # ModuleName(p) => Id(p, d.name) \notin owners

\* A test points to one definition of its file, which has the name it tests, if any has.
TestsAgree ==
  \A p \in Bundle : \A d \in ItemsOf(parsed[p].defs) :
    d.type = "test" /\ Final(d.name) \in DOMAIN Tested =>
      LET named == {e.name : e \in {e \in ItemsOf(parsed[p].defs) :
                      e.type # "test" /\ Final(e.name) = Tested[Final(d.name)]}}
          linked == {r.target : r \in {s \in BundleRelations :
                       s.type = "TESTS" /\ s.source = Id(p, d.name)}} IN
      /\ named = {} => linked = {}
      /\ named # {} => Cardinality(linked) = 1 /\ linked \subseteq {Id(p, n) : n \in named}

\* ingest_code(): an index that is told as replaced is whole and its edges lead where the
\* source says; one that is told as unchanged, or refused, is as it was.
IndexIsTrue ==
  phase = "done" =>
    /\ indexReply \in {"unchanged", "refused"} => index = Prior
    /\ indexReply = "replaced" => WholeIndex /\ ImportsAgree /\ OwnersAgree /\ TestsAgree
=============================================================================
