--------------------------- MODULE HostedSession ---------------------------
(***************************************************************************)
(* One tool call on the hosted, multi-tenant server, from the bearer token *)
(* to the reply (hosted/middleware.py, exchange.py, identity.py,           *)
(* backend.py, server.py).  Calls of any callers overlap: the exchange and *)
(* the routing calls run in worker threads and share one ExchangeCache,    *)
(* which has no lock, so every OrderedDict operation is a step of its own. *)
(*                                                                         *)
(* The service behind the server (external) mints SmartMemory tokens,      *)
(* refuses the expired and the revoked ones with a 401, keeps one saved    *)
(* workspace pick per caller and resolves a header-less write to the pick, *)
(* else to the caller's default.  Time is a bounded clock.                 *)
(***************************************************************************)
EXTENDS Naturals, FiniteSets

CONSTANTS
  Calls,           \* tool calls; a call that ended may be sent again
  MayOverlap,      \* <<c, d>> : c may be sent while d runs
  Tokens,          \* bearer tokens, one per signed-in caller
  ApiKeys,         \* the tokens the verifier classified as API keys
  TokenOf,         \* the token each call carries
  Workspaces, NoWs,
  HomeOf,          \* active_workspace_id of each token's identity, or NoWs
  Tools,           \* the kinds of tool each call may run: "write", "switch"
  MaxEntries,      \* ExchangeCache._max_size
  Skew,            \* CACHE_SKEW_SECONDS, in ticks
  Life,            \* how long a minted token lives, in ticks
  Echoes,          \* whether the service echoes the target of a write
  Faults,          \* whether the network or the service may fail
  MaxClock, MaxRevocations, \* bounds
  NoIdentity

ASSUME CallersAssumption ==
  /\ IsFiniteSet(Tokens) /\ ApiKeys \subseteq Tokens /\ TokenOf \in [Calls -> Tokens]
  /\ MayOverlap \subseteq Calls \X Calls
  /\ Workspaces # {} /\ NoWs \notin Workspaces
  /\ HomeOf \in [Tokens -> Workspaces \cup {NoWs}]
  /\ Tools \in [Calls -> SUBSET {"write", "switch"}]
  /\ Echoes \in BOOLEAN /\ Faults \in BOOLEAN

ASSUME TimesAssumption ==
  /\ MaxEntries \in Nat /\ Skew \in Nat /\ Life \in Nat
  /\ MaxClock \in Nat /\ MaxRevocations \in Nat /\ Skew < Life

\* VerifiedIdentity, as far as calls tell two of them apart.
Forever == MaxClock + Life + 1
Identity == [token : Tokens, epoch : 0 .. MaxRevocations, expires : 0 .. Forever]

ASSUME NoIdentityAssumption == NoIdentity \notin Identity

VARIABLES
  clock,
  epoch,    \* service: how often each caller's minted tokens were revoked
  pick,     \* service: the saved routing-session pick of each caller
  entry,    \* ExchangeCache._entries: the identity stored under each token
  older,    \* ... and its order: <<s, t>> when s is nearer the evicted end
  pc,
  op,       \* the tool the call runs
  id,       \* `verified`, the identity the call holds
  routing,  \* the workspace the routing answer named, NoWs for no answer
  want,     \* the workspace a switch resolved its argument to
  landed,   \* the workspace the call's write went to
  named,    \* the workspace the result line names
  reply

service == <<clock, epoch, pick>>
cache == <<entry, older>>
locals == <<op, id, routing, want, landed, named>>
vars == <<service, cache, pc, locals, reply>>

OAuth == Tokens \ ApiKeys
Cached == {t \in Tokens : entry[t] # NoIdentity}
Target(t) == IF pick[t] # NoWs THEN pick[t] ELSE HomeOf[t]
Valid(i) == i.epoch = epoch[i.token] /\ clock < i.expires

At(c, here) == pc[c] = here
Goto(c, there) == pc' = [pc EXCEPT ![c] = there]
End(c, how) == Goto(c, "idle") /\ reply' = [reply EXCEPT ![c] = how]
MayStart(c) == At(c, "idle") /\ \A d \in Calls : ~At(d, "idle") => <<c, d>> \in MayOverlap

Init ==
  /\ clock = 0 /\ epoch = [t \in Tokens |-> 0] /\ pick = [t \in Tokens |-> NoWs]
  /\ entry = [t \in Tokens |-> NoIdentity] /\ older = {}
  /\ pc = [c \in Calls |-> "idle"] /\ reply = [c \in Calls |-> "none"]
  /\ op = [c \in Calls |-> "none"] /\ id = [c \in Calls |-> NoIdentity]
  /\ routing = [c \in Calls |-> NoWs] /\ want = [c \in Calls |-> NoWs]
  /\ landed = [c \in Calls |-> NoWs] /\ named = [c \in Calls |-> NoWs]

-----------------------------------------------------------------------------
(* ExchangeCache.                                                           *)

Remove(t) ==
  /\ entry' = [entry EXCEPT ![t] = NoIdentity]
  /\ older' = {p \in older : t \notin {p[1], p[2]}}

MoveToEnd(t) ==
  /\ older' = {p \in older : t \notin {p[1], p[2]}} \cup {<<s, t>> : s \in Cached \ {t}}
  /\ UNCHANGED entry

Assign(t, i) ==
  /\ entry' = [entry EXCEPT ![t] = i]
  /\ older' = IF t \in Cached THEN older ELSE older \cup {<<s, t>> : s \in Cached}

\* Mutant of Start: the routing answer outlives its call.
StartKeepsRouting(c) ==
  /\ MayStart(c)
  /\ op' \in {[op EXCEPT ![c] = o] : o \in Tools[c]}
  /\ id' = [id EXCEPT ![c] = NoIdentity] /\ Goto(c, "lookup")
  /\ reply' = [reply EXCEPT ![c] = "none"]
  /\ UNCHANGED <<service, cache, routing, want, landed, named>>

\* on_call_tool: an API key is the credential, an OAuth token needs an exchange.
ApiKeyIdentity(t) == [token |-> t, epoch |-> 0, expires |-> Forever]

Start(c) ==
  /\ MayStart(c)
  /\ op' \in {[op EXCEPT ![c] = o] : o \in Tools[c]}
  /\ IF TokenOf[c] \in ApiKeys
     THEN id' = [id EXCEPT ![c] = ApiKeyIdentity(TokenOf[c])] /\ Goto(c, "route")
     ELSE id' = [id EXCEPT ![c] = NoIdentity] /\ Goto(c, "lookup")
  /\ routing' = [routing EXCEPT ![c] = NoWs] /\ want' = [want EXCEPT ![c] = NoWs]
  /\ landed' = [landed EXCEPT ![c] = NoWs] /\ named' = [named EXCEPT ![c] = NoWs]
  /\ reply' = [reply EXCEPT ![c] = "none"]
  /\ UNCHANGED <<service, cache>>

\* Mutant of Lookup: the missing entry is not told from a stored one.
LookupUnchecked(c) ==
  /\ At(c, "lookup")
  /\ id' = [id EXCEPT ![c] = entry[TokenOf[c]]] /\ Goto(c, "judge")
  /\ UNCHANGED <<service, cache, op, routing, want, landed, named, reply>>

\* Mutant of Lookup: entries keyed by the MCP client, which callers share.
LookupByClient(c) ==
  /\ At(c, "lookup")
  /\ \/ Cached = {} /\ Goto(c, "exchange") /\ UNCHANGED id
     \/ \E t \in Cached : id' = [id EXCEPT ![c] = entry[t]] /\ Goto(c, "judge")
  /\ UNCHANGED <<service, cache, op, routing, want, landed, named, reply>>

\* get: self._entries.get(fingerprint)
Lookup(c) ==
  /\ At(c, "lookup")
  /\ id' = [id EXCEPT ![c] = entry[TokenOf[c]]]
  /\ Goto(c, IF TokenOf[c] \in Cached THEN "judge" ELSE "exchange")
  /\ UNCHANGED <<service, cache, op, routing, want, landed, named, reply>>

\* Mutant of Judge: expiry without the skew.
JudgeWithoutSkew(c) ==
  /\ At(c, "judge")
  /\ IF clock >= id[c].expires
     THEN Remove(TokenOf[c]) /\ Goto(c, "exchange")
     ELSE UNCHANGED cache /\ Goto(c, "touch")
  /\ UNCHANGED <<service, locals, reply>>

\* get: an entry within the skew of its expiry is dropped.
Judge(c) ==
  /\ At(c, "judge")
  /\ IF clock + Skew >= id[c].expires
     THEN Remove(TokenOf[c]) /\ Goto(c, "exchange")
     ELSE UNCHANGED cache /\ Goto(c, "touch")
  /\ UNCHANGED <<service, locals, reply>>

\* get and put: move_to_end raises KeyError when the entry is gone meanwhile.
Promote(c, next) ==
  /\ IF TokenOf[c] \in Cached
     THEN MoveToEnd(TokenOf[c]) /\ Goto(c, next) /\ UNCHANGED reply
     ELSE UNCHANGED cache /\ End(c, "raised")
  /\ UNCHANGED <<service, locals>>

Touch(c) == At(c, "touch") /\ Promote(c, "route")

\* exchange(): one POST; anything but a well-formed 200 is a HostedAuthError.
Minted(t) == [token |-> t, epoch |-> epoch[t], expires |-> clock + Life]

Exchange(c) ==
  /\ At(c, "exchange")
  /\ \/ /\ id' = [id EXCEPT ![c] = Minted(TokenOf[c])]
        /\ Goto(c, "store") /\ UNCHANGED reply
     \/ Faults /\ End(c, "unauthorized") /\ UNCHANGED id
  /\ UNCHANGED <<service, cache, op, routing, want, landed, named>>

Store(c) ==
  /\ At(c, "store")
  /\ Assign(TokenOf[c], id[c]) /\ Goto(c, "settle")
  /\ UNCHANGED <<service, locals, reply>>

Settle(c) == At(c, "settle") /\ Promote(c, "trim")

\* Mutant of Trim: one entry too many is left.
TrimOffByOne(c) ==
  /\ At(c, "trim")
  /\ Goto(c, IF Cardinality(Cached) > MaxEntries + 1 THEN "evict" ELSE "route")
  /\ UNCHANGED <<service, cache, locals, reply>>

Trim(c) ==
  /\ At(c, "trim")
  /\ Goto(c, IF Cardinality(Cached) > MaxEntries THEN "evict" ELSE "route")
  /\ UNCHANGED <<service, cache, locals, reply>>

\* popitem(last=False)
Oldest(t) == t \in Cached /\ \A s \in Cached \ {t} : <<t, s>> \in older

Evict(c) ==
  /\ At(c, "evict")
  /\ IF Cached # {}
     THEN /\ \E t \in Tokens : Oldest(t) /\ Remove(t)
          /\ Goto(c, "trim") /\ UNCHANGED reply
     ELSE UNCHANGED cache /\ End(c, "raised")
  /\ UNCHANGED <<service, locals>>

-----------------------------------------------------------------------------
(* The call with its identity.                                              *)

\* A 401 of any call to the service: drop the cached exchange, then fail.
Rejected(c) == ~Valid(id[c]) /\ Goto(c, "invalidate") /\ UNCHANGED reply

\* Mutant of Invalidate: the 401 fails the call and leaves the entry.
InvalidateNothing(c) ==
  /\ At(c, "invalidate") /\ End(c, "unauthorized")
  /\ UNCHANGED <<service, cache, locals>>

Invalidate(c) ==
  /\ At(c, "invalidate")
  /\ Remove(TokenOf[c]) /\ End(c, "unauthorized")
  /\ UNCHANGED <<service, locals>>

\* _read_routing: 404 leaves the call without an answer, any other failure
\* refuses it.
Route(c) ==
  /\ At(c, "route")
  /\ \/ Rejected(c) /\ UNCHANGED routing
     \/ /\ Valid(id[c]) /\ Goto(c, "build") /\ UNCHANGED reply
        /\ \/ routing' = [routing EXCEPT ![c] = Target(TokenOf[c])]
           \/ Faults /\ UNCHANGED routing
     \/ Faults /\ End(c, "refused") /\ UNCHANGED routing
  /\ UNCHANGED <<service, cache, op, id, want, landed, named>>

\* build_hosted_backend asserts that the call displays some workspace.
Build(c) ==
  /\ At(c, "build")
  /\ IF routing[c] = NoWs /\ HomeOf[TokenOf[c]] = NoWs
     THEN End(c, "refused")
     ELSE Goto(c, IF op[c] = "write" THEN "write" ELSE "list") /\ UNCHANGED reply
  /\ UNCHANGED <<service, cache, locals>>

\* format_write_target: the echo, else the routing answer, else "(unknown)".
LineTarget(c) == IF Echoes THEN Target(TokenOf[c]) ELSE routing[c]

\* One header-less write and its result line.
Write(c) ==
  /\ At(c, "write")
  /\ \/ Rejected(c) /\ UNCHANGED <<landed, named>>
     \/ /\ Valid(id[c]) /\ Target(TokenOf[c]) # NoWs
        /\ landed' = [landed EXCEPT ![c] = Target(TokenOf[c])]
        /\ named' = [named EXCEPT ![c] = LineTarget(c)]
        /\ End(c, "wrote")
     \/ /\ Faults \/ Target(TokenOf[c]) = NoWs
        /\ End(c, "failed") /\ UNCHANGED <<landed, named>>
  /\ UNCHANGED <<service, cache, op, id, routing, want>>

\* switch_session_workspace: resolve the name against the listing, then save.
List(c) ==
  /\ At(c, "list")
  /\ \/ Rejected(c) /\ UNCHANGED want
     \/ /\ Valid(id[c]) /\ \E w \in Workspaces : want' = [want EXCEPT ![c] = w]
        /\ Goto(c, "save") /\ UNCHANGED reply
     \/ Faults /\ End(c, "refused") /\ UNCHANGED want
  /\ UNCHANGED <<service, cache, op, id, routing, landed, named>>

Save(c) ==
  /\ At(c, "save")
  /\ \/ Rejected(c) /\ UNCHANGED pick
     \/ /\ Valid(id[c]) /\ pick' = [pick EXCEPT ![TokenOf[c]] = want[c]]
        /\ End(c, "switched")
     \/ Faults /\ End(c, "refused") /\ UNCHANGED pick
  /\ UNCHANGED <<clock, epoch, cache, locals>>

-----------------------------------------------------------------------------
Step(c) ==
  \/ Lookup(c) \/ Judge(c) \/ Touch(c)
  \/ Exchange(c) \/ Store(c) \/ Settle(c) \/ Trim(c) \/ Evict(c)
  \/ Invalidate(c) \/ Route(c) \/ Build(c) \/ Write(c) \/ List(c) \/ Save(c)

Tick ==
  /\ clock < MaxClock /\ clock' = clock + 1
  /\ UNCHANGED <<epoch, pick, cache, pc, locals, reply>>

\* The service stops accepting every token it minted for one caller, or a key.
Revoke(t) ==
  /\ epoch[t] < MaxRevocations /\ epoch' = [epoch EXCEPT ![t] = @ + 1]
  /\ UNCHANGED <<clock, pick, cache, pc, locals, reply>>

Next ==
  \/ \E c \in Calls : Start(c) \/ Step(c)
  \/ Tick \/ \E t \in Tokens : Revoke(t)

Spec == Init /\ [][Next]_vars

-----------------------------------------------------------------------------
Positions == {"idle", "lookup", "judge", "touch", "exchange", "store", "settle", "trim",
              "evict", "invalidate", "route", "build", "write", "list", "save"}
Replies == {"none", "raised", "unauthorized", "refused", "wrote", "failed", "switched"}

\* Every variable has its type, and `older` orders the cached tokens.
TypeOK ==
  /\ clock \in 0 .. MaxClock /\ epoch \in [Tokens -> 0 .. MaxRevocations]
  /\ pick \in [Tokens -> Workspaces \cup {NoWs}]
  /\ entry \in [Tokens -> Identity \cup {NoIdentity}]
  /\ older \in SUBSET (Cached \X Cached)
  /\ \A s, t \in Cached : s # t => (<<s, t>> \in older <=> <<t, s>> \notin older)
  /\ pc \in [Calls -> Positions] /\ reply \in [Calls -> Replies]
  /\ op \in [Calls -> {"write", "switch", "none"}]
  /\ id \in [Calls -> Identity \cup {NoIdentity}]
  /\ \A c \in Calls :
       pc[c] \notin {"idle", "lookup", "exchange"} => id[c] # NoIdentity
  /\ routing \in [Calls -> Workspaces \cup {NoWs}] /\ want \in [Calls -> Workspaces \cup {NoWs}]
  /\ landed \in [Calls -> Workspaces \cup {NoWs}] /\ named \in [Calls -> Workspaces \cup {NoWs}]

\* ExchangeCache and HostedIdentity: whatever calls overlap and whatever is
\* evicted, a call holds and the cache keeps only identities exchanged for the
\* caller's own token, and an API key never enters the cache.
OwnIdentity ==
  /\ \A c \in Calls : id[c] # NoIdentity => id[c].token = TokenOf[c]
  /\ \A t \in Cached : entry[t].token = t /\ t \in OAuth

\* "Bounded LRU": besides the entries of calls still inside put, the cache
\* never holds more than _max_size, also when several calls trim at once.
Putting == {TokenOf[c] : c \in {d \in Calls : pc[d] \in {"settle", "trim", "evict"}}}
WithinBudget == Cardinality(Cached \ Putting) <= MaxEntries

\* HostedIdentity.team_id and the result line: the workspace a write's result
\* names is the one the write went to (or it names none).
LineNamesTarget ==
  \A c \in Calls : reply[c] = "wrote" => named[c] \in {landed[c], NoWs}

\* A caller who keeps calling is served again and again, whatever is revoked,
\* expires or is dropped by other calls.
Servable(c) == TokenOf[c] \in OAuth /\ HomeOf[TokenOf[c]] # NoWs
ServedAgain == \A c \in Calls : Servable(c) => []<>(reply[c] \in {"wrote", "switched"})
=============================================================================
