# Verification of smartmemory-mcp

TLA+ models of the MCP server in `src/smartmemory_mcp/`, the TLC runs that check
them on small instances, and TLAPS proofs of the properties that matter most for
every value of the constants. The code is the reference: every definition
that models code is listed in `PROJECT.json` under `map` with the lines it
stands for, and named after them where TLA+ allows it.

Run a model with `tlc -workers 2 -config <run>.cfg <module>`, a proof with
`tlapm <module>.tla`.

## 1. The system

One Python package serves the same tools in two shapes.

* **stdio** (`server.py`): one process per user. It holds *one* backend object,
  local (the in-process `smartmemory` package) or remote (HTTP to the service),
  and FastMCP runs its synchronous tools in a thread pool, so tool calls of one
  client overlap. The `--http` transport is the same process for several clients
  of one identity.
* **hosted** (`hosted/`): one process for many tenants. A middleware turns each
  call's bearer token into an identity, builds a backend for that call alone, and
  names in the reply where a write went.

| component | state | operations | interacts with |
|---|---|---|---|
| process backend (`backends/dispatch.py`, `tools/common.py`) | two caches of one object, `rebuild_lock`, the mode in the environment | resolve, build, `set_process_mode`, `commit_if_current` | every stdio tool; config file; service |
| stdio workspace tools (`server.py`, `workspace_select.py`) | the pick inside the backend object; the saved default | `switch_workspace`, `switch_team`, `list_workspaces`, `login`, `whoami` | process backend, listing, config file |
| migration (`tools/portability_tools.py`) | `_parked` pick, the config file | `memory_migrate`, `memory_export`, `memory_import` | both kinds of backend, rebuild lock |
| remote backend (`backends/remote.py`) | session: token, pick, default, client key, `_bootstrapped` | about 60 methods over `_request`, `search`, `export_okf` | service; routing middleware |
| routing middleware (`routing_middleware.py`) | the list of write echoes of one call | stamp the client key, append the result line | remote backend |
| local backend (`backends/local.py`) | the lazily built memory | about 60 methods over the external package | external package |
| hosted call (`hosted/middleware.py`, `identity.py`, `backend.py`, `server.py`) | per-call identity, routing answer, backend; hinted sessions | one call from token to result line, `switch_workspace` | exchange, service |
| token exchange (`hosted/exchange.py`) | an unlocked LRU of identities shared by all callers | get, put, invalidate, exchange | worker threads, service |
| API key verifier (`hosted/api_key_verifier.py`) | a 60 s cache of verdicts | `verify_token` | event loop, service |
| rate limits (`hosted/ratelimit.py`) | counters per endpoint and address, one for registrations | `dispatch` | every unauthenticated request |
| credentials (`tier.py`, `windows_credentials.py`, `login`) | environment, keyring, app config, key files, lock file | read, store, migrate, log in | other interpreters of the user, an old MCP, the next server |
| tools (`tools/*.py`) | warn-once flags; the transcript instance | about 100 tool handlers | a backend |
| lifecycle (`tools/lifecycle_tools.py`) | the session file | `memory_auto` | the client's hooks |
| transcripts (`tools/transcript_tools.py`) | a store of past sessions | search, status | an importer that runs for hours |
| code index (`code_parser.py`, `ingest_code`) | the index on the service | collect, parse, replace | the files of a checkout |
| support (`eval_logger.py`, `health.py`, `capabilities.py`, `hosted/tools.py`) | an append-only log; static allowlists | log, list, filter | - |

What makes it hard, and the property each part owes its users:

* Calls read the process backend, wait for the network and then act on what
  they read, while a migration replaces it. *A switch that reports success moved
  the session the next call uses; a write lands in a session that was live while
  it ran; a failed migration leaves the session as it found it.*
* A rebuild raises half-way, a config save raises, a lock is taken again inside
  itself. *No cache disagrees with the mode, nobody waits forever.*
* Workspaces are named by four sources (call, session, environment, saved
  config) plus what is parked over a round trip. *Data returns where it came
  from, and replies name where it is.*
* All tenants share one cache without a lock. *No call ever acts under another
  caller's identity; the cache stays within its size; a revoked token is not
  used by a call that starts after its rejection.*
* Budgets reset in fixed windows and take an address from a header. *The bound
  over any interval, whose requests spend a budget, and when to retry.*
* Several interpreters and an old version share one key file, ACL calls fail and
  processes die. *The key is never lost, never exposed, never wrong; a login
  that succeeded takes effect when the server restarts.*
* A verdict on a key is cached, and arrives while keys are revoked. *Nobody is
  accepted on a key for longer than a cached answer lives and a request travels.*
* Worker threads share one backend object: its lazy memory and the attributes
  that a search leaves for the reply. *One memory; a reply never names what an
  earlier search left behind.*
* Every backend method translates failures in its own way, and there are two
  backends. *An outage is never told as absence or success, and a tool's reply
  means the same in both modes.*
* Files are edited while they are indexed, and hooks write the session file a
  call is rewriting. *An index told as replaced is whole; settings told as saved
  are in the file, and nothing else is lost from it.*

`PROJECT.json` lists all components with what is left out of each, and every
hazard at its line with the properties that cover it.

## 2. Modules

```
LiveSession                      what the stdio process promises
   ^ implemented by (RefinesSession)
ProcessBackendSession -- extends --> ProcessBackend     <-- ProcessBackendProofs
   ^ ProcessBackendWrites (history of each write)       <-- ProcessBackendSessionProofs
HostedSession <-- HostedSessionHistory (history)        <-- HostedSessionProofs
RateLimit, KeyVerifier                                  <-- HostedDoorProofs
CredentialStore                                         <-- CredentialStoreProofs
Login, SessionFile                                      <-- UserFilesProofs
RemoteMethods <- ToolReplies <- RemoteCall              <-- RemoteCallProofs
                             <- LocalCall (both backends)     ^
SharedBackend, TranscriptSearch, CodeIndex, LocalCall   <-- ToolCallProofs
MC*                              instances for TLC
```

Three MC modules hold several parts that share no variable: `MCHosted`
(HostedSessionHistory, RateLimit, KeyVerifier), `MCUserFiles` (CredentialStore, Login, SessionFile) and
`MCToolCalls` (RemoteCall, LocalCall, SharedBackend, TranscriptSearch,
CodeIndex). A variable chosen in the initial state says which part moves; the
others rest in one initial state. What is explored is the union of the parts'
state spaces and not their product, which would show nothing more: no action of
one part reads a variable of another.

### ProcessBackend

One step per stretch of code that no other thread can interrupt in a way that
matters: a critical section of `rebuild_lock`, a network call, one read or write
of shared state. `Resolve` is `get_backend()`; `Built` and `TeamOf` are
`build_backend` with its precedence argument > environment > saved default.
A backend object is an index into `heap`, so the identity test of
`commit_if_current` and an orphaned object are visible. `s_*` positions are
`_switch_workspace`, `w_*` any tool that sends one request, `m_*` and `f_*`
`memory_migrate` up to its import and `r_*` its `revert()`. A rebuild is three
steps (drop, build, reset) under the lock because it may raise in the middle,
and reads that take no lock (`requested_mode()`, the pick) can fall between them.
What a listing, an export, an import, `load_config()` or `save_config()` answers
is a free choice among the outcomes the code distinguishes. `FileLayer` is
`file_layer_config()`: with a `current` package the file alone; an `older` one has no
`load_config(apply_env=False)`, and what is loaded, and saved later, is `Overlaid` by
`EnvTeam` (`SMARTMEMORY_TEAM_ID`) and `EnvMode` (`SMARTMEMORY_MODE`). `Packages` says
which may be installed; without one there is no config file. An import is
all-or-nothing; its per-item accounting is not modelled.

### LiveSession

The abstract specification: a session (kind of backend and pick), the migration
under way and the parked pick. No caches, no lock, no objects. `Switch` needs a
session whose backend was built; a migration leaves or arrives, then settles or
turns back *with the latest pick it had on leaving*.

### HostedSession

One hosted call. Each `OrderedDict` operation of `ExchangeCache` is a step of
its own, because exchanges run in worker threads and the cache has no lock; the
order of the dictionary is the relation `older`. The service is external: it
mints tokens with a lifetime, revokes them, keeps one pick per caller and
resolves a header-less write. `HostedSessionHistory` adds what was dropped after
a 401 before a call began and when an identity was last judged.

### RateLimit

`dispatch` never awaits before it has counted, so a request is one step. Time is
a bounded clock with several ticks to the second, since `Retry-After` is cut to
seconds. The window arithmetic is that of `hit()`. `log` and `told` are history.

### CredentialStore

The key file, the old MCP's key file, the lock, and one temporary file per
process; one step per file operation. Any ACL call, file operation or wait for
the lock may fail (`Fail` runs what `finally` does), any process may die
(`Crash` leaves its temporary file behind and the system releases its lock). The
old MCP (`LegacyWrite`) is external and knows nothing of the lock.
Modification times are write numbers, so the comparison in `_migrate_legacy` is
exact and two writes never share a time.

### RemoteMethods, ToolReplies, RemoteCall

What a user is told about one request. `RemoteMethods` has one operator per
method of `RemoteBackend` that gives its return value for each outcome of
`_request`, because every method translates an error in its own way: it raises,
hands back `{"error": ...}`, or swallows it into a value. `ToolReplies` has one
operator per tool that gives what its reply says for what the methods handed
back: done, held, rows, empty, absent, failed, unreachable, unconfirmed. Both
are pure; a value or reply is the class the properties tell apart, not its text
(`"error_404"` is an error whose text says 404).
`Asks` and `Then` give the requests of each tool, 57 tools in all.

`RemoteCall` runs them: `Call` is the middleware opening its list of write
targets, `Send` builds the headers (the first ones ask `/auth/me`), `Serve` is
the service applying the request or not and answering or not, `Reply` the tool
and `AddLine` the middleware naming the write's target. Between these steps
another thread may `Switch` the pick, and the service's own choice for requests
without a header (`lever`) may move. `seen` is history: the picks in force since
the call began. Two calls in flight at once are not modelled; their lists of
write targets are context variables of their own, and what they share is the
session, which `Switch` changes at any time.

### LocalCall

The same tools on the local backend, where each operation is a call into the
external `smartmemory` core. The core gives its facade's rows or none, finds
nothing, does not carry the operation out, is absent, is down or raises;
`LocalValue` is what each method of `local.py` makes of that, `LocalSaid` what the
tool says, with the operators of `ToolReplies` wherever the tool is the same code.
`LocalAsks` lists the tools whose request differs, `Broken` those that the
capability middleware refuses before they begin. A tool is a sequence of requests
that ends early when one raises or finds nothing. `BothBackendsAgree` compares the
reply with the one `RemoteMethods` and `ToolReplies` give for the service's answer
of the same meaning (`AsRemote`), for the 42 tools that ask the same of both.

### SharedBackend

Worker threads on one backend object. `_mem` is looked at without the lock, then
under it (`Look`, `Acquire`, `LookAgain`, `Construct`, `Return`); a construction
may raise. `search()` leaves its session id, and locally the ids it showed, in
attributes of the object; `memory_search` reads one back for its reply and
`submit_feedback()` the other. Each assignment and each read is a step.
`during` records which searches overlap, `printed` the searches around the last
reply that named one.

### KeyVerifier

`verify_token()` with its cache. The request to `/auth/me` is an await: other calls
of the event loop, revocations and time fall between `Verify`, `Judge` (the service
looks at the key) and `Conclude` (the answer is cached and returned). `Flight` is the
timeout of the request. `lived` is the last time a key was valid.

### Login

The key of a stdio server in the four places `get_api_key()` looks at, in its order,
`store_api_key()` with a keyring that may come and go, the decision of `login()`
whether to store, the tools a server registers as it starts and the key its backend
is built with. The protected file of Windows is one step here; its own steps are
CredentialStore. `due` remembers the key last told as logged in.

### SessionFile

`memory_auto()` reads the session file, fills a temporary file and replaces the
original, with two more tries when Windows refuses because a hook has it open. Any
number of calls overlap; the hooks (external) open it and rewrite it, or are cut off
in between. Every step may fail; the `finally` clause may fail to remove the
temporary file. `behind` records who has not read the file since its last write.

### TranscriptSearch

`transcript_search()`: the width of the embedder is compared with that of the index, the store
is searched with a wider window when a project is asked for, the rows are filtered
and the reply says what was left out. An importer creates the store and adds
sessions of any rank meanwhile. The store and its ranking are external.

### CodeIndex

The bundled parser as operators over an abstract file (its definitions in order,
with what they call, extend, import and are named for), giving the relations of
`code_parser.py`, and `ingest_code()` as steps over a checkout that is edited meanwhile:
collect, parse each file, decide, and have the service replace the index, refuse,
or answer nothing. What is collected is a set that is parsed in the order of `Sorted`.

## 3. Runs

| run | question | instance | distinct states |
|---|---|---|---|
| `process_session` | caches and mode agree; the caches implement the live session; a write lands in it; nothing imports into its own source | two migrations one after the other, a switch and a write at any time, saves may raise, with the package and without it | 1 759 176 |
| `process_serial` | round trips, arrival names, saved default | three migrations and a switch, one at a time, two workspaces, an environment pick and mode, a package that can leave them out and one that cannot | 852 095 |
| `process_live` | every call ends | one call of each kind, any overlap, builds and saves may raise | 44 061 |
| `hosted_isolation` | whose identity a call holds; size of the cache | three calls of two callers, a cache of one entry, a revocation | 1 179 486 |
| `hosted_serial` | no reuse after a 401; the result line; budgets of any interval, Retry-After; how stale an accepted key may be | an OAuth and a key caller, one call at a time, faults, no echoes; two addresses, forged headers, two endpoints, several windows; two checks of one key | 940 950 |
| `hosted_live` | nobody is refused for expiry within the skew; callers are served again | two endless clients of one token that expires and is revoked | 74 300 |
| `user_files` | key preserved, never exposed, reads truthful; a login takes effect; the session file keeps what is in it | two processes, two keys, four writes, failures and deaths anywhere; every setting of the four places; two overlapping calls and a hook | 825 920 |
| `tool_calls` | no outage told as absence or success; what is acknowledged was done, and named; a write lands where it was picked to go; both backends are told alike; one memory; whose search a reply names; what a search of transcripts leaves out; an index is whole | 53 remote and 87 local tools, every answer and fault, two picks, a default; three threads and three searches; four sessions; three paths of two contents each | 325 693 |
| `finding_*` | see section 6 | | |

**Bounds.** Two migrations are the fewest that leave and return; a third in
`process_serial` follows a *failed* return. One switch and one write meet each of
their steps at every position. `process_live` has one migration, since two that
overlap take liveness checking past any reasonable time: that migrations which
overlap *each other* all end is not checked. What is known of them is proved: the
lock is held exactly by the call inside a rebuild (`LockHeld`), so none waits for a
call that has left, and the caches agree (`CachesAlwaysAgree`), for any number of
calls in any overlap. The older package is left to `process_serial`: what it adds to
the saved config is what the environment tells every build of a backend anyway. One
workspace is enough where only "a pick or none" matters; two where confusing them
would show. A cache of one entry evicts on every second caller, and three calls let
two callers trim while a third looks up. `MaxClock` lets a token pass its skew and
expire; rate windows of 2 to 4 ticks against a clock of 4 cover several windows of
each counter and every offset between them. In the checks of `hosted_serial` a key's
entry lives 2 and a request travels 2, so by `Horizon` = 7 an entry has ended and
been renewed; one key is enough because no step reads the entry of another, and two
calls make an answer overtake a revocation and another's answer. In `tool_calls` the
remote and the local part need no bound besides the workspaces: two picks and a
default tell the argument, the session's pick, a pick made meanwhile and the
service's choice apart, and a call has at most three requests. Its local part leaves
out the two tools whose reply does not follow their request (section 6) and
ValueErrors that mean something other than absence. Three threads let two of them
wait while a third constructs or fails, and three searches give an earlier, an
overlapping and a later one. Transcripts are searched for up to two rows with an
over-fetch of 2 capped at 3 and four sessions: below the cap, at it, a full window
and one that is not. Three paths are a module at the root, a package and a module in
it; the two contents exercise every kind of relation, tests in and out of a class,
and imports in both directions. In `user_files` two keys tell a stored one from a
replaced one, two overlapping calls and two contents of a hook are the fewest with
which an update can be lost. Four file times allow an initial file, an old-MCP
write, a migration and a store. `Permutations` of processes, keys, threads and equal
callers are used as symmetry only in runs without liveness properties and only over
values no constant tells apart.

**Deadlock** is checked in all runs. `Quiet` in `ProcessBackend` stands for a
client that sends no more calls once all have ended; a lock nobody frees would
still show, since other calls have not ended.

**Fairness.** `process_live` assumes weak fairness of each *started* call: its
thread is scheduled, each request has a timeout, and an `RLock` that is free for
good is obtained (waiting calls are not in competition forever, because each
call runs once). It assumes nothing of clients: sending a call is not fair.
`hosted_live` assumes weak fairness of each call's steps and, because the
property is about "a caller who keeps calling", of sending the next call; the
clock and revocations owe nothing.

**Mutants.** Each property of a passing run has a mutant, an operator commented
"Mutant of ..." next to the definition it replaces, that makes TLC violate it.

## 4. Proofs

All obligations of the eight proof modules are proved with SMT, Zenon and LS4. Nothing
is assumed beyond the named `ASSUME`s of the modules (disjointness of kinds of values,
non-empty limits, `Skew < Life`, positions that are no keys, a method's class is in its
file), which TLC evaluates on every run, and the hypotheses that some theorems
state. Every invariant and action property that a passing run checks is the
statement of a theorem.

The hypotheses, each of which the run of that property satisfies, and each of which
stands for a condition of section 6. TLC violates the property on an instance that
relaxes the hypothesis alone, so none is there for the proof's sake:

| hypothesis | what it says of the environment | theorems |
|---|---|---|
| `~KeyMayBeMissing` | an API key is found whenever a backend is built | `CachesAlwaysAgree`, `CachesAreOneSession`, `NeverOntoItself` |
| `Apart(Migrators)` | migrations come one at a time; switches and writes overlap them freely | `CachesAreOneSession`, `NeverOntoItself` |
| `Apart(Movers)` | switches and migrations come one at a time; writes overlap them | `DataComesBack`, `ArrivalIsNamed`, `DefaultKept` |
| `OwnCallsApart` | calls with one token come one at a time; different callers overlap in every way | `NeverARejectedIdentity`; `LineIsTrue` needs it or `Echoes` |
| `Tools \cap Unheeding = {}` | the tools called look whether their request failed | `OutagesAreTold`, `OnlyDoneIsAcknowledged`, `WritesAreNamed` |
| `"cites404" \notin Occurring` | no error text merely cites "404" | `OutagesAreTold` |
| two tools not in `LocalTools`; no `"invalid"` | `memory_feedback`, `evolution_status` are not called; a ValueError of the core means absence | `LocalRepliesAreTrue` |
| `~LegacyOverlaps` | the old MCP stays out of a held lock | `Preserved` |

The theorems without such a hypothesis hold for every interleaving, failure and
crash that the models have.

* **ProcessBackendProofs.** `TypeCorrect`: types, and that a call past
  `get_backend()` or `load_config()` holds an object or config. `TypeOK` alone
  is not inductive: steps index `heap` by `src[c]`, so the invariant carries
  what each position implies about locals (`CallOK`). `LockHeld`: the lock's
  owner is exactly the call inside a rebuild. `CachesAlwaysAgree`, when a key is
  always found: agreement alone is not inductive, because a rebuild suspends it.
  The strengthening (`CacheInv`) adds that the owner of the lock, if it is inside
  a rebuild, is going to the mode the environment already names, and that the
  dispatch cache, when filled, holds an object of that mode; the common cache may
  be the old one only until the owner resets it.
* **ProcessBackendSessionProofs** follows single calls from step to step, so it begins
  with lemmas on whose step it is: a step changes the locals of one call (`Same`).
  `WritesLandInSession`, for any overlap: a writer about to send has already seen its
  backend, as it is now, as the live session (`WriteOK`), because a switch changes the
  pick only of an object that is still current. `CachesAreOneSession`: each step of
  the caches is a step of `LiveSession` or leaves its state as it was, and the
  initial states agree. It needs `TripInv`: what a migration knows at each position
  of its source, its target and the pick it will put back (`TripOK`), among them that
  the source stays current until the rebuild drops it and that either rebuild carries
  what it should; and that a switch commits only onto a workspace of the listing
  (`NameOK`). `NeverOntoItself` falls out of the same invariant. `DataComesBack` and
  `ArrivalIsNamed` from `ReturnInv`: a parked pick is a workspace that some completed
  departure exported (`Departed`), also after a migration that failed, and one that
  returns holds a target of that workspace until its import. They need no key: a rebuild
  that raises leaves an old object in the common cache, but a local object has no pick
  (`LocalHasNoPick`), so nothing is parked from one, and a rebuild that returns leaves
  the caches as it meant to. `DefaultKept` from
  `KeptInv`: what a migration is going to write back still holds the file's default, or,
  over an older package, the environment's (`Inherited`); the theorem then says that
  nothing but that value takes the place of the default.
* **HostedSessionProofs.** `HostedTypeCorrect`, `Isolation` (no call ever holds
  another caller's identity: the invariant ranges over the cache *and* every
  call in flight, since a put may follow a removal), `Budget` (entries beyond
  the size belong to distinct calls still inside `put`: the cached tokens nobody
  is still putting never outgrow the size, since a call leaves `put` only at a
  `trim` that saw the cache within it, `FewerFits`). `SkewAlwaysSuffices`, from the
  time each identity in use was judged at (`JudgedInv`). `NeverARejectedIdentity`: what
  a 401 dropped is stale for good (its epoch has passed or its time has), is in no entry
  and in no call of that caller (`DroppedInv`); the last is what a second call of the
  same caller would break. `LineIsTrue`: without an echo, the routing answer a call
  holds is still where its write will go (`RoutingOK`).
* **HostedDoorProofs** (of RateLimit and KeyVerifier). `RateTypeCorrect` and `Budgets`:
  in any interval as long as a window fewer than twice the limit are admitted. The
  invariant relates each log entry to the window that admitted it: windows start at
  least a window apart, the n-th admission of a window holds count n, and the first is
  at the window's start. The bound follows by an injection of the interval's requests
  into two windows' counts. `PeerBudgets`: without a trusted proxy a bucket logs
  only its own address' requests (`OwnRequests`), so nobody spends another's
  budget. `RetryIsEnough`: the window of the last refusal is still the bucket's or
  a later one (`ToldOK`), so who waits the whole seconds told and not quite one more
  outlasts it. `VerifierTypeCorrect`; `StalenessBounded`, from an invariant
  that bounds every cached entry, and every good answer still on its way, by the
  last time its key was valid (`EntryOK`, `CheckOK`): a verdict alone says nothing
  of the entry it leaves for the next caller.
* **CredentialStoreProofs.** `CredentialTypeCorrect`, `Protected` (a temporary
  file is empty until it is restricted, at every position, so whatever crashes
  leaves nothing readable) and `Preserved`: if the old MCP stays out of a held
  lock, the stored key changes only by a completed store or a new old-MCP write.
  The strengthening (`Placed`) says what a process inside the lock may still
  rely on: which file was newer, what it carries, that the temporary file's time
  is past the old file's. `ReadsAreStored` and `MissesExplained` follow what a
  reader holds between its two looks (`ReadOK`), and need nothing of the old MCP.
* **UserFilesProofs** (of Login and SessionFile). `LoginEffective`, from the
  invariant that the key that is due is still where it was put (`DueIsThere`),
  since only a login writes there and each login renews `due`. `SessionFileKept`,
  from what a change under way has read and has to keep (`UnderWayOK`): a call
  says settings are saved exactly when it put them into the file, and what a hook
  kept there is lost to it only if it was written after the call had read.
* **RemoteCallProofs.** `CallTypeCorrect`; `PicksAlwaysHonoured`, from the
  invariant that a request in flight carries the argument or a pick in force
  during the call (`HeaderOK`); `LineAlwaysNamesTarget`, from `LineOK`: nothing
  is noted before the first answer, and what is noted names where the write
  landed or nothing. It rests on the fact that no call writes after its first
  request (`WritesFirst`). The other five are about the *table* of tools and hold for
  every subset of it: the tools fall into classes by what their method makes of an
  outcome and what they make of its value, a lemma per class gives the reply to
  every outcome, and `CallInv` carries which request of a call the answer belongs to, since
  a tool with two or three requests ends early when one fails (`Halfway`, `AfterOne`,
  `AfterTwo`, `NotServed`).
* **ToolCallProofs.** Of SharedBackend: `SharedTypeCorrect`; `OneMemoryForAll`, because
  whoever builds holds the lock and there is no memory yet (`LockOK`, `OneOK`);
  `RepliesOwnOrOverlapping`, for both backends and any number of threads. It is not
  inductive as it stands: `ISearch` adds that the searches under way are in one
  another's `during` (`Overlap`), and that after its rows a search finds on the object
  only what an overlapping one left (`LeftOK`, `PrintedOK`).
  Of TranscriptSearch: `AbsenceIsNeverMistaken`, from `ITranscript` (the matches are the
  best of the store as it was searched, whole where the window was not full) and lemmas on
  what filtering and cutting a sequence keep.
  Of LocalCall: `BackendsAlwaysAgree`, without a hypothesis, from a table of methods
  that correspond (`Corresponds`, `TwinsAlike`: the same answer gives the same value, or
  values of which the tool says the same), and `LocalRepliesAreTrue`; `LocalInv` says
  that the last request a call made is the one that ended it (`LastAsked`).
  Of CodeIndex: `IndexAlwaysTrue`. `IndexInv` says that a file nobody edits is still
  to be parsed, was parsed as it is, or was missed with an error (`ReadAsItIs`), so
  that a bundle is sent only when everything was read. That imports, owners and tests
  lead where the source says is a fact of the operators for whatever files were parsed
  (`ImportsHold`, `OwnersHold`, `TestsHold`); the first of several methods a test may
  mean exists because a non-empty set of naturals has a least element (`LeastOf`).

Only model-checked: liveness (`EveryCallEnds`, `ServedAgain`), which is outside what
the prover supports, as are ENABLED and induction over data. No property needs the
latter: parsed files, searches and logs are sets and sequences whose facts follow
from their elements, and `LeastOf` is all the induction used.

## 5. Plan

Modelled first: where calls meet, where tenants meet, and what a call tells its
user on either backend. Then what surrounds them: the key verifier, the login, the
shared backend object, the session file, the transcripts and the index (done).
Next, in order:

1. **Concurrent requests** in `RemoteCall`: several calls of one session, clients
   of an `--http` process that stamp their key on one backend object. No request
   may carry another client's key; section 6 says why this does not hold today.
2. **Archives** (`memory_export`, `memory_import`, the item count of an import).
3. Pure operators against reference definitions: `resolve_workspace`, search
   windows, list paging, the name matching of `code_dependencies.py`, and
   `memory_search_advanced` over them.
4. Proofs: that what section 6 excludes is all that can go wrong, such as
   `ArrivalIsNamed` with switches that overlap only the export.

Abstract specifications worth stating next: a write register with three-valued
receipts for RemoteCall, and an atomic key cell for CredentialStore, of which
`Login` would be a client.
Runs of one family share a configuration where their instances allow it.

## 6. Findings and known conditions

Four runs end in a violation of what a comment or docstring of the code says:

* `finding_round_trip`: an export is pinned to the captured workspace but the
  import is not. A `switch_workspace` that commits on the rebuilt backend before
  the import builds its headers sends the data elsewhere, while
  `portability_tools.py:64` promises a later migration "must return the data
  where it came from". With calls one at a time `RoundTrip` holds.
* `finding_default_lost`: a migration loads the config, and saves it later without
  looking again. A `switch_workspace(save_as_default=True)` in between replies that
  the workspace is the default "for new sessions" (`server.py:213`), and the
  migration's save puts the old one back. With calls one at a time
  `SavedDefaultKept` holds.
* `finding_stale_put`: an exchange that finished before a revocation is stored
  after another call's 401 dropped the entry, and the next call runs on it,
  while `hosted/backend.py:46` says it performs a fresh exchange.
* `finding_failed_write_saved`: `ingest()` hands back an error as a dictionary,
  and `dev_save_session` and `dev_log_friction` take `str()` of it for the id of
  what they stored: the reply is "Session saved" for a write that failed.
  `remote.py:885` calls this "reporting a failed write as a successful one, with
  a fake id the caller could then store or look up", and repairs it in `add()`.

Conditions met while modelling, kept out of the properties by the instance or
the assumption named:

* Two overlapping migrations can import into the store they exported from, since
  mode and backend are read in two steps (`NoSelfImport` is checked with
  migrations one after the other).
* If `build_backend` raises inside a rebuild because no key is found, the common
  cache keeps the old object while the mode is new (`KeyMayBeMissing = FALSE` for
  `CachesAgree`), and the arrival line can name the wrong workspace when a switch
  overlaps (`ArrivalNamed` is checked one call at a time).
* With a smartmemory package that predates `load_config(apply_env=False)` a migration
  saves `SMARTMEMORY_TEAM_ID` and `SMARTMEMORY_MODE` into the config, over a saved
  default, even when nothing overlaps it; `file_layer_config()` warns of it
  (`dispatch.py:120-127`). `SavedDefaultKept` allows that value and no other.
* A default saved in local mode is the local name and is sent as a workspace id
  by a later remote session.
* An expired entry read by two calls costs two exchanges; `move_to_end` raises
  when another call dropped the entry in between, and the call fails.
* A pick that changes between a call's routing answer and its write makes the
  result line name the old workspace when the service echoes nothing
  (`LineNamesTarget`, one at a time).
* A hosted caller without any workspace is refused before `switch_workspace` can
  run, because every call must display a workspace.
* With `LegacyOverlaps = TRUE`, an old MCP's write between reading and retiring
  its file is removed unread: `KeyPreserved` and its theorem assume the old MCP
  stays out of a held lock.
* A read that finds neither file may have looked on both sides of another
  process's migration; `MissesOnlyAcross` says this is the only such case.

* Registrations the per-address budget refuses keep their charge on the global
  one, which `ratelimit.py:113` says means someone is filling the client store.
* `get` and `explain` take any error text that contains "404" for absence
  (`Occurring` leaves `cites404` out).
* `memory_ingest_conversation` tells a failed request as "0 chunks ingested, 0
  failed", and `evolution_status` a failed search as an idle, empty history;
  `tool_calls` leaves these two and the two of `finding_failed_write_saved` out on
  the remote backend.
* A lost receipt of a write other than an add is told as failed or as a backend
  that was not reached, though the service may have applied it; only adds
  promise more (`LostAddIsUnconfirmed`).
* Overlapping misses of one token each pay an exchange; buckets of the rate limiter
  are never removed.
* `set_client_key` (`routing_middleware.py:41`) stamps the one backend object of an
  `--http` process: a request may carry the key of a client that called meanwhile.
* A failed export unlinks its destination (`remote.py:686`), with the archive that
  was there before.
* `login` keeps the key unless the reply contains "error", so after a validation
  that failed in other words the key is stored although the reply says it failed;
  `login("")` stores the empty key over the one that was there (in Login, `due` ends
  then). On POSIX a key in the app's config hides the key file, and a keyring that
  comes back hides it everywhere (`Unshadowed`). A backend built while no key is
  found but the app is installed stays without one. The tools are those of the
  server's start, while `whoami` shows the tier of the moment.
* Between the two backends: `memory_update` tells a missing item as absent on the
  local one and as failed on the remote; `memory_recall` words its answers
  differently; `memory_feedback` says recorded when the local backend skipped it
  (these are not in `Twins`). `decision_supersede`, `retract`, `reinforce` and
  `contradict` take any ValueError of the core for an absent decision (`CorePlain`
  leaves it out), and `decision_try_activate` of a missing decision is told as "still
  pending" locally and fails remotely (the core answers it as refused, not missing).
* Managers of plans, anchors and decisions get the backend wrapper or the memory,
  tool by tool; `Broken` lists the tools for which the wrapper does not suffice.
* `transcript_search` tells its window only when it could show as many rows as were
  asked for. When a full window held fewer rows of the project, those ranked below it
  are left out in silence, though `transcript_tools.py:362` says "the bound is reported
  rather than hidden". `AbsenceIsTold` says that this is the only such case.
* httpx follows no redirect by default, and a 3xx answer is not `is_error`:
  `_note_write_target`, which is to "record where a successful write went"
  (`remote.py:330`), records the header before the request raises, so a tool that tells the
  failure as text still ends with the line that names the workspace (the fault
  `redirect`).
* An index of transcripts whose width cannot be read is searched all the same
  (`AbsenceIsTold` says so).
* In the index: an import of a package finds no target, since its file is
  `__init__.py`; relative imports resolve to the root; calls of methods never link;
  `main.py` and its function `main` have one id.
* `memory_auto` reads, then replaces: what a hook or another call wrote between the
  two is lost (`Keeps` asks for nothing then).
* A search id that is printed may be that of a search that ran at the same time.

## 7. Not modelled

The service, the `smartmemory` package, FastMCP, the network, the file
system, the keyring and the client's hooks are external and appear only as the outcomes
the code tells apart. The wording of replies, logging, telemetry, static wiring of
the hosted server and the contents of memories are left out.

Not modelled at all: the hosted OAuth providers, configuration and client storage
(they read the environment once and choose library objects); the hosted tool
surface (constants); `eval_logger.py`, `health.py` and `capabilities.py`'s listing
(an append-only log, constant text); archives, with `export_okf`, `import_okf` and
the refused paths; list paging and `search_window.py`; the name matching of
`code_dependencies.py`; `code_effects`, which only calls the external scanner;
`transcript_status` and the warm start, and the transcript instance itself, which
two first searches may build twice; `insight_plugins`, `reasoning_extract_trace`
and `agent_evaluation_get`, which call the core's plugins directly; where
CredentialStore's files are; the client key of `--http`. `get_working_context` is
modelled with the `smartmemory` package installed. The components marked `partly` and
`not_modelled` in `PROJECT.json` say the same component by component, and section 5
what comes next.
