------------------------ MODULE HostedSessionProofs ------------------------
(***************************************************************************)
(* Proofs about HostedSession, for every set of callers and calls, every   *)
(* overlap, every cache size and every length of time.                     *)
(***************************************************************************)
EXTENDS HostedSessionHistory, FiniteSetTheorems, TLAPS

ServiceOK ==
  /\ clock \in 0 .. MaxClock /\ epoch \in [Tokens -> 0 .. MaxRevocations]
  /\ pick \in [Tokens -> Workspaces \cup {NoWs}]

CacheOK ==
  /\ entry \in [Tokens -> Identity \cup {NoIdentity}]
  /\ older \in SUBSET (Cached \X Cached)
  /\ \A s, t \in Cached : s # t => (<<s, t>> \in older <=> <<t, s>> \notin older)

CallsOK ==
  /\ pc \in [Calls -> Positions] /\ reply \in [Calls -> Replies]
  /\ op \in [Calls -> {"write", "switch", "none"}]
  /\ id \in [Calls -> Identity \cup {NoIdentity}]
  /\ routing \in [Calls -> Workspaces \cup {NoWs}] /\ want \in [Calls -> Workspaces \cup {NoWs}]
  /\ landed \in [Calls -> Workspaces \cup {NoWs}] /\ named \in [Calls -> Workspaces \cup {NoWs}]

Holding ==
  \A c \in Calls : pc[c] \notin {"idle", "lookup", "exchange"} => id[c] # NoIdentity

\* A call that uses the cache carries an OAuth token.
CacheUse == {"lookup", "judge", "touch", "exchange", "store", "settle", "trim", "evict"}
OAuthOnly == \A c \in Calls : pc[c] \in CacheUse => TokenOf[c] \in OAuth

\* OwnIdentity, for the calls and for the cache.
OwnCalls == \A c \in Calls : id[c] # NoIdentity => id[c].token = TokenOf[c]
OwnCache == \A t \in Cached : entry[t].token = t /\ t \in OAuth

IInv == ServiceOK /\ CacheOK /\ CallsOK /\ Holding /\ OwnCalls /\ OwnCache /\ OAuthOnly

LEMMA InvParts == IInv => TypeOK /\ OwnIdentity
BY DEF IInv, TypeOK, OwnIdentity, ServiceOK, CacheOK, CallsOK, Holding, OwnCalls, OwnCache

-----------------------------------------------------------------------------
(* What the operations of the cache do.                                     *)

LEMMA RemoveOK ==
  ASSUME CacheOK, NEW t \in Tokens, Remove(t)
  PROVE  CacheOK' /\ Cached' = Cached \ {t} /\ \A s \in Cached' : entry'[s] = entry[s]
<1>1. Cached' = Cached \ {t} /\ \A s \in Cached' : entry'[s] = entry[s]
  BY DEF CacheOK, Cached, Remove
<1> QED
  BY <1>1 DEF CacheOK, Remove

LEMMA AssignOK ==
  ASSUME CacheOK, NEW t \in Tokens, NEW i \in Identity, Assign(t, i)
  PROVE  /\ CacheOK' /\ Cached' = Cached \cup {t} /\ entry'[t] = i
         /\ \A s \in Tokens \ {t} : entry'[s] = entry[s]
<1>1. /\ Cached' = Cached \cup {t} /\ entry'[t] = i
      /\ \A s \in Tokens \ {t} : entry'[s] = entry[s]
  BY NoIdentityAssumption DEF CacheOK, Cached, Assign
<1>2. entry' \in [Tokens -> Identity \cup {NoIdentity}]
  BY DEF CacheOK, Assign
<1>3. CASE t \in Cached
  BY <1>1, <1>2, <1>3 DEF CacheOK, Assign
<1>4. CASE t \notin Cached
  BY <1>1, <1>2, <1>4 DEF CacheOK, Assign
<1> QED
  BY <1>3, <1>4

LEMMA MoveOK ==
  ASSUME CacheOK, NEW t \in Cached, MoveToEnd(t)
  PROVE  CacheOK' /\ entry' = entry /\ Cached' = Cached
<1>1. entry' = entry /\ Cached' = Cached
  BY DEF MoveToEnd, Cached
<1> QED
  BY <1>1 DEF CacheOK, MoveToEnd

-----------------------------------------------------------------------------
(* Every step keeps the types.                                              *)

LEMMA CallTypes == ASSUME TypeOK, NEW c \in Calls
  PROVE  /\ TokenOf[c] \in Tokens /\ Target(TokenOf[c]) \in Workspaces \cup {NoWs}
         /\ Minted(TokenOf[c]) \in Identity /\ ApiKeyIdentity(TokenOf[c]) \in Identity
<1>1. TokenOf[c] \in Tokens
  BY CallersAssumption
<1>2. clock + Life \in 0 .. Forever /\ Forever \in 0 .. Forever /\ 0 \in 0 .. MaxRevocations
  BY TimesAssumption DEF TypeOK, Forever
<1> QED
  BY <1>1, <1>2, CallersAssumption DEF TypeOK, Target, Minted, ApiKeyIdentity, Identity

LEMMA CallFacts == ASSUME IInv, NEW c \in Calls
  PROVE  /\ TokenOf[c] \in Tokens /\ Target(TokenOf[c]) \in Workspaces \cup {NoWs}
         /\ Minted(TokenOf[c]) \in Identity /\ ApiKeyIdentity(TokenOf[c]) \in Identity
         /\ Minted(TokenOf[c]).token = TokenOf[c] /\ ApiKeyIdentity(TokenOf[c]).token = TokenOf[c]
         /\ Minted(TokenOf[c]) # NoIdentity /\ ApiKeyIdentity(TokenOf[c]) # NoIdentity
         /\ TokenOf[c] \in Cached => entry[TokenOf[c]] # NoIdentity
         /\ entry[TokenOf[c]] \in Identity \cup {NoIdentity}
         /\ entry[TokenOf[c]] # NoIdentity => entry[TokenOf[c]].token = TokenOf[c]
         /\ TokenOf[c] \notin Cached => entry[TokenOf[c]] = NoIdentity
         /\ TokenOf[c] \notin ApiKeys => TokenOf[c] \in OAuth
<1>1. /\ TokenOf[c] \in Tokens /\ Target(TokenOf[c]) \in Workspaces \cup {NoWs}
      /\ Minted(TokenOf[c]) \in Identity /\ ApiKeyIdentity(TokenOf[c]) \in Identity
  BY CallTypes, InvParts
<1>2. /\ Minted(TokenOf[c]).token = TokenOf[c] /\ ApiKeyIdentity(TokenOf[c]).token = TokenOf[c]
      /\ Minted(TokenOf[c]) # NoIdentity /\ ApiKeyIdentity(TokenOf[c]) # NoIdentity
  BY <1>1, NoIdentityAssumption DEF Minted, ApiKeyIdentity
<1>3. /\ TokenOf[c] \in Cached => entry[TokenOf[c]] # NoIdentity
      /\ entry[TokenOf[c]] \in Identity \cup {NoIdentity}
      /\ entry[TokenOf[c]] # NoIdentity => entry[TokenOf[c]].token = TokenOf[c]
      /\ TokenOf[c] \notin Cached => entry[TokenOf[c]] = NoIdentity
      /\ TokenOf[c] \notin ApiKeys => TokenOf[c] \in OAuth
  BY <1>1, InvParts DEF TypeOK, OwnIdentity, Cached, OAuth
<1> QED
  BY <1>1, <1>2, <1>3

LEMMA StartStep == ASSUME IInv, NEW c \in Calls, Start(c) PROVE IInv'
<1>1. ServiceOK /\ CacheOK /\ CallsOK /\ Holding /\ OwnCalls /\ OwnCache /\ OAuthOnly
  BY DEF IInv
<1>2. ServiceOK'
  BY <1>1 DEF ServiceOK, Start, service, cache, locals
<1>3. CacheOK' /\ OwnCache'
  BY <1>1 DEF CacheOK, OwnCache, Cached, Start, service, cache, locals
<1>4. CallsOK'
  <2>1. PICK o \in {"write", "switch"} : op' = [op EXCEPT ![c] = o]
    BY CallersAssumption DEF Start
  <2>2. CASE TokenOf[c] \in ApiKeys
    BY <1>1, <2>1, <2>2, CallFacts
       DEF CallsOK, Positions, Replies, Start, service, cache, Goto, At, MayStart
  <2>3. CASE TokenOf[c] \notin ApiKeys
    BY <1>1, <2>1, <2>3, CallFacts
       DEF CallsOK, Positions, Replies, Start, service, cache, Goto, At, MayStart
  <2> QED
    BY <2>2, <2>3
<1>5. Holding' /\ OwnCalls' /\ OAuthOnly'
  <2>2. CASE TokenOf[c] \in ApiKeys
    BY <1>1, <2>2, CallFacts
       DEF CallsOK, Holding, OwnCalls, OAuthOnly, CacheUse, OAuth, Start, service, cache,
           Goto, At, MayStart
  <2>3. CASE TokenOf[c] \notin ApiKeys
    BY <1>1, <2>3, CallFacts
       DEF CallsOK, Holding, OwnCalls, OAuthOnly, CacheUse, OAuth, Start, service, cache,
           Goto, At, MayStart
  <2> QED
    BY <2>2, <2>3
<1> QED
  BY <1>2, <1>3, <1>4, <1>5 DEF IInv

LEMMA LookupStep == ASSUME IInv, NEW c \in Calls, Lookup(c) PROVE IInv'
<1>1. ServiceOK /\ CacheOK /\ CallsOK /\ Holding /\ OwnCalls /\ OwnCache /\ OAuthOnly
  BY DEF IInv
<1>2. ServiceOK'
  BY <1>1 DEF ServiceOK, Lookup, service, cache, locals
<1>3. CacheOK' /\ OwnCache'
  BY <1>1 DEF CacheOK, OwnCache, Cached, Lookup, service, cache, locals
<1>4. CallsOK'
  BY <1>1, CallFacts
     DEF CallsOK, Positions, Replies, Lookup, locals, service, cache, Goto, End, At
<1>5. Holding' /\ OwnCalls' /\ OAuthOnly'
  BY <1>1, CallFacts
     DEF CallsOK, Holding, OwnCalls, OAuthOnly, CacheUse, OAuth, Lookup, locals, service,
         cache, Goto, End, At
<1> QED
  BY <1>2, <1>3, <1>4, <1>5 DEF IInv

LEMMA JudgeStep == ASSUME IInv, NEW c \in Calls, Judge(c) PROVE IInv'
<1>1. ServiceOK /\ CacheOK /\ CallsOK /\ Holding /\ OwnCalls /\ OwnCache /\ OAuthOnly
  BY DEF IInv
<1>2. ServiceOK'
  BY <1>1 DEF ServiceOK, Judge, service, cache, locals
<1>3. CacheOK' /\ OwnCache'
  BY <1>1, CallFacts, RemoveOK DEF OwnCache, CacheOK, Cached, Judge, service, cache, locals
<1>4. CallsOK'
  BY <1>1, CallFacts
     DEF CallsOK, Positions, Replies, Judge, locals, service, cache, Goto, End, At
<1>5. Holding' /\ OwnCalls' /\ OAuthOnly'
  BY <1>1, CallFacts
     DEF CallsOK, Holding, OwnCalls, OAuthOnly, CacheUse, OAuth, Judge, locals, service,
         cache, Goto, End, At
<1> QED
  BY <1>2, <1>3, <1>4, <1>5 DEF IInv

LEMMA TouchStep == ASSUME IInv, NEW c \in Calls, Touch(c) PROVE IInv'
<1>1. ServiceOK /\ CacheOK /\ CallsOK /\ Holding /\ OwnCalls /\ OwnCache /\ OAuthOnly
  BY DEF IInv
<1>2. ServiceOK'
  BY <1>1 DEF ServiceOK, Touch, Promote, service, cache, locals
<1>3. CacheOK' /\ OwnCache'
  <2>1. CASE TokenOf[c] \in Cached
    BY <1>1, <2>1, MoveOK DEF OwnCache, Touch, Promote
  <2>2. CASE TokenOf[c] \notin Cached
    BY <1>1, <2>2 DEF CacheOK, OwnCache, Cached, Touch, Promote, cache
  <2> QED
    BY <2>1, <2>2
<1>4. CallsOK'
  BY <1>1, CallFacts
     DEF CallsOK, Positions, Replies, Touch, locals, service, cache, Goto, End, At, Promote
<1>5. Holding' /\ OwnCalls' /\ OAuthOnly'
  BY <1>1, CallFacts
     DEF CallsOK, Holding, OwnCalls, OAuthOnly, CacheUse, OAuth, Touch, locals, service,
         cache, Goto, End, At, Promote
<1> QED
  BY <1>2, <1>3, <1>4, <1>5 DEF IInv

LEMMA ExchangeStep == ASSUME IInv, NEW c \in Calls, Exchange(c) PROVE IInv'
<1>1. ServiceOK /\ CacheOK /\ CallsOK /\ Holding /\ OwnCalls /\ OwnCache /\ OAuthOnly
  BY DEF IInv
<1>2. ServiceOK'
  BY <1>1 DEF ServiceOK, Exchange, service, cache, locals
<1>3. CacheOK' /\ OwnCache'
  BY <1>1 DEF CacheOK, OwnCache, Cached, Exchange, service, cache, locals
<1>4. CallsOK'
  BY <1>1, CallFacts
     DEF CallsOK, Positions, Replies, Exchange, locals, service, cache, Goto, End, At
<1>5. Holding' /\ OwnCalls' /\ OAuthOnly'
  BY <1>1, CallFacts
     DEF CallsOK, Holding, OwnCalls, OAuthOnly, CacheUse, OAuth, Exchange, locals, service,
         cache, Goto, End, At
<1> QED
  BY <1>2, <1>3, <1>4, <1>5 DEF IInv

LEMMA StoreStep == ASSUME IInv, NEW c \in Calls, Store(c) PROVE IInv'
<1>1. ServiceOK /\ CacheOK /\ CallsOK /\ Holding /\ OwnCalls /\ OwnCache /\ OAuthOnly
  BY DEF IInv
<1>2. ServiceOK'
  BY <1>1 DEF ServiceOK, Store, service, cache, locals
<1>3. CacheOK' /\ OwnCache'
  <2>1. id[c] \in Identity /\ id[c].token = TokenOf[c] /\ TokenOf[c] \in OAuth /\ TokenOf[c] \in Tokens
    BY <1>1, CallFacts DEF CallsOK, Holding, OwnCalls, OAuthOnly, CacheUse, Store, At
  <2>2. Assign(TokenOf[c], id[c])
    BY DEF Store
  <2>3. /\ CacheOK' /\ Cached' = Cached \cup {TokenOf[c]} /\ entry'[TokenOf[c]] = id[c]
        /\ \A s \in Tokens \ {TokenOf[c]} : entry'[s] = entry[s]
    BY <1>1, <2>1, <2>2, AssignOK
  <2> QED
    BY <1>1, <2>1, <2>3 DEF OwnCache, Cached
<1>4. CallsOK'
  BY <1>1, CallFacts
     DEF CallsOK, Positions, Replies, Store, locals, service, cache, Goto, End, At
<1>5. Holding' /\ OwnCalls' /\ OAuthOnly'
  BY <1>1, CallFacts
     DEF CallsOK, Holding, OwnCalls, OAuthOnly, CacheUse, OAuth, Store, locals, service,
         cache, Goto, End, At
<1> QED
  BY <1>2, <1>3, <1>4, <1>5 DEF IInv

LEMMA SettleStep == ASSUME IInv, NEW c \in Calls, Settle(c) PROVE IInv'
<1>1. ServiceOK /\ CacheOK /\ CallsOK /\ Holding /\ OwnCalls /\ OwnCache /\ OAuthOnly
  BY DEF IInv
<1>2. ServiceOK'
  BY <1>1 DEF ServiceOK, Settle, Promote, service, cache, locals
<1>3. CacheOK' /\ OwnCache'
  <2>1. CASE TokenOf[c] \in Cached
    BY <1>1, <2>1, MoveOK DEF OwnCache, Settle, Promote
  <2>2. CASE TokenOf[c] \notin Cached
    BY <1>1, <2>2 DEF CacheOK, OwnCache, Cached, Settle, Promote, cache
  <2> QED
    BY <2>1, <2>2
<1>4. CallsOK'
  BY <1>1, CallFacts
     DEF CallsOK, Positions, Replies, Settle, locals, service, cache, Goto, End, At, Promote
<1>5. Holding' /\ OwnCalls' /\ OAuthOnly'
  BY <1>1, CallFacts
     DEF CallsOK, Holding, OwnCalls, OAuthOnly, CacheUse, OAuth, Settle, locals, service,
         cache, Goto, End, At, Promote
<1> QED
  BY <1>2, <1>3, <1>4, <1>5 DEF IInv

LEMMA TrimStep == ASSUME IInv, NEW c \in Calls, Trim(c) PROVE IInv'
<1>1. ServiceOK /\ CacheOK /\ CallsOK /\ Holding /\ OwnCalls /\ OwnCache /\ OAuthOnly
  BY DEF IInv
<1>2. ServiceOK'
  BY <1>1 DEF ServiceOK, Trim, service, cache, locals
<1>3. CacheOK' /\ OwnCache'
  BY <1>1 DEF CacheOK, OwnCache, Cached, Trim, service, cache, locals
<1>4. CallsOK'
  BY <1>1, CallFacts
     DEF CallsOK, Positions, Replies, Trim, locals, service, cache, Goto, End, At
<1>5. Holding' /\ OwnCalls' /\ OAuthOnly'
  BY <1>1, CallFacts
     DEF CallsOK, Holding, OwnCalls, OAuthOnly, CacheUse, OAuth, Trim, locals, service,
         cache, Goto, End, At
<1> QED
  BY <1>2, <1>3, <1>4, <1>5 DEF IInv

LEMMA EvictStep == ASSUME IInv, NEW c \in Calls, Evict(c) PROVE IInv'
<1>1. ServiceOK /\ CacheOK /\ CallsOK /\ Holding /\ OwnCalls /\ OwnCache /\ OAuthOnly
  BY DEF IInv
<1>2. ServiceOK'
  BY <1>1 DEF ServiceOK, Evict, service, cache, locals
<1>3. CacheOK' /\ OwnCache'
  <2>1. CASE Cached # {}
    <3>1. PICK t \in Tokens : Remove(t)
      BY <2>1 DEF Evict
    <3> QED
      BY <1>1, <3>1, RemoveOK DEF OwnCache
  <2>2. CASE Cached = {}
    BY <1>1, <2>2 DEF CacheOK, OwnCache, Cached, Evict, cache
  <2> QED
    BY <2>1, <2>2
<1>4. CallsOK'
  BY <1>1, CallFacts
     DEF CallsOK, Positions, Replies, Evict, locals, service, cache, Goto, End, At
<1>5. Holding' /\ OwnCalls' /\ OAuthOnly'
  BY <1>1, CallFacts
     DEF CallsOK, Holding, OwnCalls, OAuthOnly, CacheUse, OAuth, Evict, locals, service,
         cache, Goto, End, At
<1> QED
  BY <1>2, <1>3, <1>4, <1>5 DEF IInv

LEMMA InvalidateStep == ASSUME IInv, NEW c \in Calls, Invalidate(c) PROVE IInv'
<1>1. ServiceOK /\ CacheOK /\ CallsOK /\ Holding /\ OwnCalls /\ OwnCache /\ OAuthOnly
  BY DEF IInv
<1>2. ServiceOK'
  BY <1>1 DEF ServiceOK, Invalidate, service, cache, locals
<1>3. CacheOK' /\ OwnCache'
  BY <1>1, CallFacts, RemoveOK
     DEF OwnCache, CacheOK, Cached, Invalidate, service, cache, locals
<1>4. CallsOK'
  BY <1>1, CallFacts
     DEF CallsOK, Positions, Replies, Invalidate, locals, service, cache, Goto, End, At
<1>5. Holding' /\ OwnCalls' /\ OAuthOnly'
  BY <1>1, CallFacts
     DEF CallsOK, Holding, OwnCalls, OAuthOnly, CacheUse, OAuth, Invalidate, locals,
         service, cache, Goto, End, At
<1> QED
  BY <1>2, <1>3, <1>4, <1>5 DEF IInv

LEMMA RouteStep == ASSUME IInv, NEW c \in Calls, Route(c) PROVE IInv'
<1>1. ServiceOK /\ CacheOK /\ CallsOK /\ Holding /\ OwnCalls /\ OwnCache /\ OAuthOnly
  BY DEF IInv
<1>2. ServiceOK'
  BY <1>1 DEF ServiceOK, Route, service, cache, locals
<1>3. CacheOK' /\ OwnCache'
  BY <1>1 DEF CacheOK, OwnCache, Cached, Route, service, cache, locals
<1>4. CallsOK'
  BY <1>1, CallFacts
     DEF CallsOK, Positions, Replies, Route, locals, service, cache, Goto, End, At, Rejected
<1>5. Holding' /\ OwnCalls' /\ OAuthOnly'
  BY <1>1, CallFacts
     DEF CallsOK, Holding, OwnCalls, OAuthOnly, CacheUse, OAuth, Route, locals, service,
         cache, Goto, End, At, Rejected
<1> QED
  BY <1>2, <1>3, <1>4, <1>5 DEF IInv

LEMMA BuildStep == ASSUME IInv, NEW c \in Calls, Build(c) PROVE IInv'
<1>1. ServiceOK /\ CacheOK /\ CallsOK /\ Holding /\ OwnCalls /\ OwnCache /\ OAuthOnly
  BY DEF IInv
<1>2. ServiceOK'
  BY <1>1 DEF ServiceOK, Build, service, cache, locals
<1>3. CacheOK' /\ OwnCache'
  BY <1>1 DEF CacheOK, OwnCache, Cached, Build, service, cache, locals
<1>4. CallsOK'
  BY <1>1, CallFacts
     DEF CallsOK, Positions, Replies, Build, locals, service, cache, Goto, End, At, Rejected
<1>5. Holding' /\ OwnCalls' /\ OAuthOnly'
  BY <1>1, CallFacts
     DEF CallsOK, Holding, OwnCalls, OAuthOnly, CacheUse, OAuth, Build, locals, service,
         cache, Goto, End, At, Rejected
<1> QED
  BY <1>2, <1>3, <1>4, <1>5 DEF IInv

LEMMA WriteStep == ASSUME IInv, NEW c \in Calls, Write(c) PROVE IInv'
<1>1. ServiceOK /\ CacheOK /\ CallsOK /\ Holding /\ OwnCalls /\ OwnCache /\ OAuthOnly
  BY DEF IInv
<1>2. ServiceOK'
  BY <1>1 DEF ServiceOK, Write, service, cache, locals
<1>3. CacheOK' /\ OwnCache'
  BY <1>1 DEF CacheOK, OwnCache, Cached, Write, service, cache, locals
<1>4. CallsOK'
  <2>1. CASE UNCHANGED <<landed, named>>
    BY <1>1, <2>1, CallFacts
       DEF CallsOK, Positions, Replies, Write, service, cache, Goto, End, At, Rejected
  <2>2. CASE landed' = [landed EXCEPT ![c] = Target(TokenOf[c])]
             /\ named' = [named EXCEPT ![c] = LineTarget(c)] /\ End(c, "wrote")
    <3>1. LineTarget(c) \in Workspaces \cup {NoWs}
      BY <1>1, CallFacts DEF CallsOK, LineTarget
    <3> QED
      BY <1>1, <2>2, <3>1, CallFacts
         DEF CallsOK, Positions, Replies, Write, service, cache, Goto, End
  <2> QED
    BY <2>1, <2>2 DEF Write, At
<1>5. Holding' /\ OwnCalls' /\ OAuthOnly'
  <2>1. PICK p \in {"invalidate", "idle"} : Goto(c, p)
    BY DEF Write, Rejected, End
  <2>2. id' = id /\ pc[c] = "write"
    BY DEF Write, At
  <2> QED
    BY <1>1, <2>1, <2>2 DEF CallsOK, Holding, OwnCalls, OAuthOnly, CacheUse, Goto
<1> QED
  BY <1>2, <1>3, <1>4, <1>5 DEF IInv

LEMMA ListStep == ASSUME IInv, NEW c \in Calls, List(c) PROVE IInv'
<1>1. ServiceOK /\ CacheOK /\ CallsOK /\ Holding /\ OwnCalls /\ OwnCache /\ OAuthOnly
  BY DEF IInv
<1>2. ServiceOK'
  BY <1>1 DEF ServiceOK, List, service, cache, locals
<1>3. CacheOK' /\ OwnCache'
  BY <1>1 DEF CacheOK, OwnCache, Cached, List, service, cache, locals
<1>4. CallsOK'
  BY <1>1, CallFacts
     DEF CallsOK, Positions, Replies, List, locals, service, cache, Goto, End, At, Rejected
<1>5. Holding' /\ OwnCalls' /\ OAuthOnly'
  BY <1>1, CallFacts
     DEF CallsOK, Holding, OwnCalls, OAuthOnly, CacheUse, OAuth, List, locals, service,
         cache, Goto, End, At, Rejected
<1> QED
  BY <1>2, <1>3, <1>4, <1>5 DEF IInv

LEMMA SaveStep == ASSUME IInv, NEW c \in Calls, Save(c) PROVE IInv'
<1>1. ServiceOK /\ CacheOK /\ CallsOK /\ Holding /\ OwnCalls /\ OwnCache /\ OAuthOnly
  BY DEF IInv
<1>2. ServiceOK'
  BY <1>1, CallFacts DEF ServiceOK, CallsOK, Save, service, cache, locals
<1>3. CacheOK' /\ OwnCache'
  BY <1>1 DEF CacheOK, OwnCache, Cached, Save, service, cache, locals
<1>4. CallsOK'
  BY <1>1, CallFacts
     DEF CallsOK, Positions, Replies, Save, locals, service, cache, Goto, End, At, Rejected
<1>5. Holding' /\ OwnCalls' /\ OAuthOnly'
  BY <1>1, CallFacts
     DEF CallsOK, Holding, OwnCalls, OAuthOnly, CacheUse, OAuth, Save, locals, service,
         cache, Goto, End, At, Rejected
<1> QED
  BY <1>2, <1>3, <1>4, <1>5 DEF IInv

LEMMA OutsideStep == ASSUME IInv, Tick \/ (\E t \in Tokens : Revoke(t)) \/ UNCHANGED vars PROVE IInv'
<1>1. CASE Tick
  BY <1>1, TimesAssumption
     DEF Tick, IInv, ServiceOK, CacheOK, CallsOK, Holding, OwnCalls, OwnCache, OAuthOnly,
         Cached, cache, locals
<1>2. ASSUME NEW t \in Tokens, Revoke(t) PROVE IInv'
  <2>1. ServiceOK'
    BY <1>2, TimesAssumption DEF Revoke, IInv, ServiceOK
  <2> QED
    BY <1>2, <2>1
       DEF Revoke, IInv, CacheOK, CallsOK, Holding, OwnCalls, OwnCache, OAuthOnly, Cached,
           cache, locals
<1>3. CASE UNCHANGED vars
  BY <1>3
     DEF vars, service, IInv, ServiceOK, CacheOK, CallsOK, Holding, OwnCalls, OwnCache,
         OAuthOnly, Cached, cache, locals
<1> QED
  BY <1>1, <1>2, <1>3

LEMMA InitIInv == Init => IInv
<1> SUFFICES ASSUME Init PROVE IInv
  OBVIOUS
<1>1. ServiceOK /\ CacheOK
  BY CallersAssumption, TimesAssumption DEF Init, ServiceOK, CacheOK, Cached
<1>2. CallsOK /\ Holding /\ OwnCalls /\ OwnCache /\ OAuthOnly
  BY
     DEF Init, CallsOK, Holding, OwnCalls, OwnCache, OAuthOnly, Cached, CacheUse, Positions,
         Replies
<1> QED
  BY <1>1, <1>2 DEF IInv

LEMMA NextIInv == IInv /\ [Next]_vars => IInv'
<1> SUFFICES ASSUME IInv, [Next]_vars PROVE IInv'
  OBVIOUS
<1>1. ASSUME NEW c \in Calls, Start(c) \/ Step(c) PROVE IInv'
  BY <1>1, StartStep, LookupStep, JudgeStep, TouchStep, ExchangeStep, StoreStep,
     SettleStep, TrimStep, EvictStep, InvalidateStep, RouteStep, BuildStep,
     WriteStep, ListStep, SaveStep
     DEF Step
<1> QED
  BY <1>1, OutsideStep DEF Next

\* Every variable has its type in every reachable state.
THEOREM HostedTypeCorrect == Spec => []TypeOK
<1>1. Spec => []IInv
  BY InitIInv, NextIInv, PTL DEF Spec
<1> QED
  BY <1>1, InvParts, PTL

\* However many callers call at once, and whatever the cache drops, expires or
\* evicts, no call ever holds an identity that is not its own caller's.
THEOREM Isolation == Spec => []OwnIdentity
<1>1. Spec => []IInv
  BY InitIInv, NextIInv, PTL DEF Spec
<1> QED
  BY <1>1, InvParts, PTL

-----------------------------------------------------------------------------
(* The bound on the cache.  A put may push the cache over its size, and an  *)
(* eviction by one call may be for the entry of another; what stays bounded *)
(* is the cache without the tokens of calls still inside put.               *)

LEMMA FewerFits ==
  ASSUME WithinBudget, IInv, (Cached' \ Putting') \subseteq (Cached \ Putting)
  PROVE  WithinBudget'
<1>1. IsFiniteSet(Cached \ Putting)
  BY FS_Subset, CallersAssumption DEF Cached
<1>2. /\ Cardinality(Cached' \ Putting') <= Cardinality(Cached \ Putting)
      /\ Cardinality(Cached' \ Putting') \in Nat /\ Cardinality(Cached \ Putting) \in Nat
  BY <1>1, FS_Subset, FS_CardinalityType
<1> QED
  BY <1>2, TimesAssumption DEF WithinBudget

PutSteps == {"settle", "trim", "evict"}

LEMMA PuttingMoves ==
  ASSUME CallsOK, NEW c \in Calls, NEW p, Goto(c, p)
  PROVE  /\ Putting \ {TokenOf[c]} \subseteq Putting'
         /\ p \in PutSteps => Putting \subseteq Putting' /\ TokenOf[c] \in Putting'
         /\ pc[c] \notin PutSteps => Putting \subseteq Putting'
BY DEF CallsOK, Goto, Putting, PutSteps

\* A step of a call that is not inside put, and that stores nothing.
LEMMA OutsidePut ==
  ASSUME IInv, WithinBudget, NEW c \in Calls, NEW p, Goto(c, p),
         pc[c] \notin PutSteps, Cached' \subseteq Cached
  PROVE  WithinBudget'
BY PuttingMoves, FewerFits DEF IInv

LEMMA BudgetStep ==
  ASSUME IInv, WithinBudget, NEW c \in Calls, Start(c) \/ Step(c) PROVE WithinBudget'
<1>0. TokenOf[c] \in Tokens /\ CacheOK /\ CallsOK
  BY CallersAssumption DEF IInv
<1>1. CASE Start(c)
  <2>1. \E p : Goto(c, p)
    BY <1>1 DEF Start, End, MayStart
  <2>2. pc[c] \notin PutSteps
    BY <1>1 DEF Start, At, PutSteps, MayStart
  <2>3. Cached' \subseteq Cached
    BY <1>0, <1>1 DEF Start, Cached, cache
  <2> QED
    BY <2>1, <2>2, <2>3, OutsidePut
<1>2. CASE Lookup(c)
  <2>1. \E p : Goto(c, p)
    BY <1>2 DEF Lookup, End
  <2>2. pc[c] \notin PutSteps
    BY <1>2 DEF Lookup, At, PutSteps
  <2>3. Cached' \subseteq Cached
    BY <1>0, <1>2 DEF Lookup, Cached, cache
  <2> QED
    BY <2>1, <2>2, <2>3, OutsidePut
<1>3. CASE Judge(c)
  <2>1. \E p : Goto(c, p)
    BY <1>3 DEF Judge, End
  <2>2. pc[c] \notin PutSteps
    BY <1>3 DEF Judge, At, PutSteps
  <2>3. Cached' \subseteq Cached
    BY <1>0, <1>3, RemoveOK DEF Judge, Cached, cache
  <2> QED
    BY <2>1, <2>2, <2>3, OutsidePut
<1>4. CASE Touch(c)
  <2>1. \E p : Goto(c, p)
    BY <1>4 DEF Touch, End, Promote
  <2>2. pc[c] \notin PutSteps
    BY <1>4 DEF Touch, At, PutSteps
  <2>3. Cached' \subseteq Cached
    BY <1>0, <1>4, MoveOK DEF Touch, Promote, Cached, cache
  <2> QED
    BY <2>1, <2>2, <2>3, OutsidePut
<1>5. CASE Exchange(c)
  <2>1. \E p : Goto(c, p)
    BY <1>5 DEF Exchange, End
  <2>2. pc[c] \notin PutSteps
    BY <1>5 DEF Exchange, At, PutSteps
  <2>3. Cached' \subseteq Cached
    BY <1>0, <1>5 DEF Exchange, Cached, cache
  <2> QED
    BY <2>1, <2>2, <2>3, OutsidePut
<1>10. CASE Invalidate(c)
  <2>1. \E p : Goto(c, p)
    BY <1>10 DEF Invalidate, End
  <2>2. pc[c] \notin PutSteps
    BY <1>10 DEF Invalidate, At, PutSteps
  <2>3. Cached' \subseteq Cached
    BY <1>0, <1>10, RemoveOK DEF Invalidate, Cached, cache
  <2> QED
    BY <2>1, <2>2, <2>3, OutsidePut
<1>11. CASE Route(c)
  <2>1. \E p : Goto(c, p)
    BY <1>11 DEF Route, End, Rejected
  <2>2. pc[c] \notin PutSteps
    BY <1>11 DEF Route, At, PutSteps
  <2>3. Cached' \subseteq Cached
    BY <1>0, <1>11 DEF Route, Cached, cache
  <2> QED
    BY <2>1, <2>2, <2>3, OutsidePut
<1>12. CASE Build(c)
  <2>1. \E p : Goto(c, p)
    BY <1>12 DEF Build, End
  <2>2. pc[c] \notin PutSteps
    BY <1>12 DEF Build, At, PutSteps
  <2>3. Cached' \subseteq Cached
    BY <1>0, <1>12 DEF Build, Cached, cache
  <2> QED
    BY <2>1, <2>2, <2>3, OutsidePut
<1>13. CASE Write(c)
  <2>1. \E p : Goto(c, p)
    BY <1>13 DEF Write, End, Rejected
  <2>2. pc[c] \notin PutSteps
    BY <1>13 DEF Write, At, PutSteps
  <2>3. Cached' \subseteq Cached
    BY <1>0, <1>13 DEF Write, Cached, cache
  <2> QED
    BY <2>1, <2>2, <2>3, OutsidePut
<1>14. CASE List(c)
  <2>1. \E p : Goto(c, p)
    BY <1>14 DEF List, End, Rejected
  <2>2. pc[c] \notin PutSteps
    BY <1>14 DEF List, At, PutSteps
  <2>3. Cached' \subseteq Cached
    BY <1>0, <1>14 DEF List, Cached, cache
  <2> QED
    BY <2>1, <2>2, <2>3, OutsidePut
<1>15. CASE Save(c)
  <2>1. \E p : Goto(c, p)
    BY <1>15 DEF Save, End, Rejected
  <2>2. pc[c] \notin PutSteps
    BY <1>15 DEF Save, At, PutSteps
  <2>3. Cached' \subseteq Cached
    BY <1>0, <1>15 DEF Save, Cached, cache
  <2> QED
    BY <2>1, <2>2, <2>3, OutsidePut
<1>6. CASE Store(c)
  <2>1. id[c] \in Identity /\ Goto(c, "settle") /\ Assign(TokenOf[c], id[c])
    BY <1>0, <1>6 DEF IInv, CallsOK, Holding, Store, At
  <2>2. Cached' = Cached \cup {TokenOf[c]}
    BY <1>0, <2>1, AssignOK
  <2> QED
    BY <1>0, <2>1, <2>2, PuttingMoves, FewerFits DEF PutSteps
<1>7. CASE Settle(c)
  <2>1. CASE TokenOf[c] \in Cached
    <3>1. Goto(c, "trim") /\ Cached' = Cached
      BY <1>0, <1>7, <2>1, MoveOK DEF Settle, Promote
    <3> QED
      BY <1>0, <3>1, PuttingMoves, FewerFits DEF PutSteps
  <2>2. CASE TokenOf[c] \notin Cached
    <3>1. Goto(c, "idle") /\ Cached' = Cached
      BY <1>7, <2>2 DEF Settle, Promote, End, cache, Cached
    <3> QED
      BY <1>0, <2>2, <3>1, PuttingMoves, FewerFits
  <2> QED
    BY <2>1, <2>2
<1>8. CASE Trim(c)
  <2>1. Cached' = Cached
    BY <1>8 DEF Trim, cache, Cached
  <2>2. CASE Cardinality(Cached) > MaxEntries
    <3>1. Goto(c, "evict")
      BY <1>8, <2>2 DEF Trim
    <3> QED
      BY <1>0, <2>1, <3>1, PuttingMoves, FewerFits DEF PutSteps
  <2>3. CASE ~(Cardinality(Cached) > MaxEntries)
    <3>1. IsFiniteSet(Cached)
      BY FS_Subset, CallersAssumption DEF Cached
    <3>2. /\ Cardinality(Cached \ Putting') <= Cardinality(Cached)
          /\ Cardinality(Cached \ Putting') \in Nat /\ Cardinality(Cached) \in Nat
      BY <3>1, FS_Subset, FS_CardinalityType
    <3> QED
      BY <2>1, <2>3, <3>2, TimesAssumption DEF WithinBudget
  <2> QED
    BY <2>2, <2>3
<1>9. CASE Evict(c)
  <2>1. CASE Cached = {}
    <3>1. Cached' = {}
      BY <1>9, <2>1 DEF Evict, cache, Cached
    <3> QED
      BY <3>1, FewerFits
  <2>2. CASE Cached # {}
    <3>1. PICK t \in Tokens : Remove(t)
      BY <1>9, <2>2 DEF Evict
    <3>2. Cached' \subseteq Cached /\ Goto(c, "trim")
      BY <1>0, <1>9, <2>2, <3>1, RemoveOK DEF Evict
    <3> QED
      BY <1>0, <3>2, PuttingMoves, FewerFits DEF PutSteps
  <2> QED
    BY <2>1, <2>2
<1> QED
  BY <1>1, <1>2, <1>3, <1>4, <1>5, <1>6, <1>7, <1>8, <1>9, <1>10, <1>11, <1>12, <1>13, <1>14, <1>15
     DEF Step

\* "Bounded LRU", for every number of worker threads: the entries beyond the
\* size of the cache belong to calls that have not finished their put.
THEOREM Budget == Spec => []WithinBudget
<1>1. Init => WithinBudget
  <2> SUFFICES ASSUME Init PROVE WithinBudget
    OBVIOUS
  <2>1. Cached \ Putting = {}
    BY DEF Init, Cached
  <2> QED
    BY <2>1, FS_EmptySet, TimesAssumption DEF WithinBudget
<1>2. IInv /\ WithinBudget /\ [Next]_vars => WithinBudget'
  <2> SUFFICES ASSUME IInv, WithinBudget, [Next]_vars PROVE WithinBudget'
    OBVIOUS
  <2>1. CASE Tick \/ (\E t \in Tokens : Revoke(t)) \/ UNCHANGED vars
    BY <2>1 DEF Tick, Revoke, vars, cache, WithinBudget, Cached, Putting
  <2> QED
    BY <2>1, BudgetStep DEF Next
<1> QED
  BY <1>1, <1>2, InitIInv, NextIInv, PTL DEF Spec
-----------------------------------------------------------------------------
(* Whose step it is, and what it does to the identities.                    *)

Same(c) ==
  /\ pc'[c] = pc[c] /\ op'[c] = op[c] /\ id'[c] = id[c] /\ routing'[c] = routing[c]
  /\ want'[c] = want[c] /\ landed'[c] = landed[c] /\ named'[c] = named[c] /\ reply'[c] = reply[c]

Acts(c) == Start(c) \/ Step(c)

LEMMA ActsAlone ==
  ASSUME IInv, NEW c \in Calls, Acts(c), NEW d \in Calls, d # c
  PROVE  Same(d)
<1> USE DEF IInv, CallsOK, Same, Goto, End, locals
<1>1. CASE Start(c)
  BY <1>1 DEF Start
<1>2. CASE Lookup(c) \/ Judge(c) \/ Touch(c) \/ Exchange(c) \/ Store(c)
  BY <1>2 DEF Lookup, Judge, Touch, Promote, Exchange, Store
<1>3. CASE Settle(c) \/ Trim(c) \/ Evict(c) \/ Invalidate(c) \/ Route(c) \/ Build(c)
  BY <1>3 DEF Settle, Promote, Trim, Evict, Invalidate, Route, Rejected, Build
<1>4. CASE Write(c)
  BY <1>4 DEF Write, Rejected
<1>5. CASE List(c) \/ Save(c)
  BY <1>5 DEF List, Save, Rejected
<1> QED
  BY <1>1, <1>2, <1>3, <1>4, <1>5 DEF Acts, Step

\* The world outside the calls.
Outside == (Tick \/ (\E t \in Tokens : Revoke(t)) \/ UNCHANGED vars) /\ UNCHANGED <<cache, pc, locals, reply>>

LEMMA OneActs ==
  ASSUME IInv, [Next]_vars
  PROVE  Outside \/ \E c \in Calls : Acts(c) /\ \A d \in Calls \ {c} : Same(d)
<1>1. Next => Tick \/ (\E t \in Tokens : Revoke(t)) \/ \E c \in Calls : Acts(c)
  BY DEF Next, Acts
<1>2. Tick \/ (\E t \in Tokens : Revoke(t)) \/ UNCHANGED vars => Outside
  BY DEF Tick, Revoke, vars, Outside
<1> QED
  BY <1>1, <1>2, ActsAlone

\* The clock and the revocations only advance, and only outside the calls.
LEMMA ServiceGrows ==
  ASSUME IInv, [Next]_vars
  PROVE  /\ clock <= clock' /\ \A t \in Tokens : epoch[t] <= epoch'[t]
         /\ \A c \in Calls : Acts(c) => clock' = clock /\ epoch' = epoch
<1>1. ASSUME NEW c \in Calls, Acts(c) PROVE clock' = clock /\ epoch' = epoch
  BY <1>1 DEF Acts, Start, Step, Lookup, Judge, Touch, Promote, Exchange, Store, Settle, Trim, Evict,
              Invalidate, Route, Build, Write, List, Save, service
<1>2. clock \in Nat /\ epoch \in [Tokens -> Nat]
  BY TimesAssumption DEF IInv, ServiceOK
<1>3. Outside => clock <= clock' /\ \A t \in Tokens : epoch[t] <= epoch'[t]
  BY <1>2 DEF Outside, Tick, Revoke, vars, service
<1> QED
  BY <1>1, <1>2, <1>3, OneActs

\* Only a put stores an identity: the one its call holds.
LEMMA EntryStep ==
  ASSUME IInv, [Next]_vars, NEW t \in Cached'
  PROVE  \/ t \in Cached /\ entry'[t] = entry[t]
         \/ \E c \in Calls : Store(c) /\ t = TokenOf[c] /\ entry'[t] = id[c]
<1>1. CacheOK /\ t \in Tokens
  BY DEF IInv, Cached
<1>2. CASE UNCHANGED cache
  BY <1>2 DEF cache, Cached
<1>3. ASSUME NEW s \in Tokens, Remove(s) PROVE t \in Cached /\ entry'[t] = entry[t]
  BY <1>1, <1>3, RemoveOK
<1>4. ASSUME NEW s \in Cached, MoveToEnd(s) PROVE t \in Cached /\ entry'[t] = entry[t]
  BY <1>1, <1>4, MoveOK
<1>5. ASSUME NEW c \in Calls, Store(c)
      PROVE  \/ t \in Cached /\ entry'[t] = entry[t]
             \/ t = TokenOf[c] /\ entry'[t] = id[c]
  <2>1. id[c] \in Identity /\ TokenOf[c] \in Tokens /\ Assign(TokenOf[c], id[c])
    BY <1>5, CallersAssumption DEF IInv, CallsOK, Holding, Store, At
  <2>2. /\ Cached' = Cached \cup {TokenOf[c]} /\ entry'[TokenOf[c]] = id[c]
        /\ \A s \in Tokens \ {TokenOf[c]} : entry'[s] = entry[s]
    BY <1>1, <2>1, AssignOK
  <2> QED
    BY <1>1, <2>2
<1>6. ASSUME NEW c \in Calls, Acts(c), ~Store(c) PROVE t \in Cached /\ entry'[t] = entry[t]
  <2>1. TokenOf[c] \in Tokens
    BY CallersAssumption
  <2>2. CASE Judge(c) \/ Invalidate(c)
    BY <1>2, <1>3, <2>1, <2>2 DEF Judge, Invalidate, cache, Cached
  <2>3. CASE Touch(c) \/ Settle(c)
    BY <1>2, <1>4, <2>1, <2>3 DEF Touch, Settle, Promote, cache, Cached
  <2>4. CASE Evict(c)
    BY <1>2, <1>3, <2>4 DEF Evict, cache, Cached
  <2>5. CASE Start(c) \/ Lookup(c) \/ Exchange(c) \/ Trim(c) \/ Route(c) \/ Build(c) \/ Write(c)
             \/ List(c) \/ Save(c)
    <3>1. UNCHANGED cache
      BY <2>5 DEF Start, Lookup, Exchange, Trim, Route, Build, Write, List, Save
    <3> QED
      BY <3>1 DEF cache, Cached
  <2> QED
    BY <1>6, <2>2, <2>3, <2>4, <2>5 DEF Acts, Step
<1> QED
  BY <1>2, <1>5, <1>6, OneActs DEF Outside
-----------------------------------------------------------------------------
(* A 401 is final: what the service refused once it refuses for good.       *)

Stale(i, t) == i.epoch < epoch[t] \/ i.expires <= clock

\* No identity is of a revocation yet to come, and a call that drops its own
\* was refused for a reason that stays.
StaleInv ==
  /\ \A c \in Calls : id[c] # NoIdentity => id[c].epoch <= epoch[TokenOf[c]]
  /\ \A t \in Cached : entry[t].epoch <= epoch[t]
  /\ \A c \in Calls : At(c, "invalidate") => Stale(id[c], TokenOf[c])

LEMMA Fields ==
  ASSUME IInv
  PROVE  /\ clock \in Nat /\ epoch \in [Tokens -> Nat] /\ Life \in Nat /\ Skew \in Nat
         /\ \A c \in Calls : TokenOf[c] \in Tokens
         /\ \A c \in Calls : id[c] # NoIdentity =>
              id[c].epoch \in Nat /\ id[c].expires \in Nat /\ id[c].token = TokenOf[c]
         /\ \A t \in Cached :
              t \in Tokens /\ entry[t].epoch \in Nat /\ entry[t].expires \in Nat
<1>1. \A i \in Identity : i.epoch \in Nat /\ i.expires \in Nat
  BY TimesAssumption DEF Identity, Forever
<1> QED
  BY <1>1, TimesAssumption, CallersAssumption DEF IInv, ServiceOK, CallsOK, CacheOK, OwnCalls, Cached

\* What an identity may become.
LEMMA IdStep ==
  ASSUME IInv, NEW c \in Calls, Acts(c)
  PROVE  \/ id'[c] = id[c] /\ ~Lookup(c)
         \/ Start(c) /\ id'[c] = NoIdentity
         \/ Start(c) /\ TokenOf[c] \in ApiKeys /\ id'[c] = ApiKeyIdentity(TokenOf[c])
         \/ Lookup(c) /\ id'[c] = entry[TokenOf[c]]
         \/ Exchange(c) /\ id'[c] = Minted(TokenOf[c])
<1> USE DEF IInv, CallsOK, locals
<1>1. CASE Start(c)
  BY <1>1 DEF Start, MayStart, Lookup, At
<1>2. CASE Lookup(c)
  BY <1>2 DEF Lookup
<1>3. CASE Exchange(c)
  BY <1>3 DEF Exchange, Lookup, At
<1>4. CASE Judge(c) \/ Touch(c) \/ Store(c) \/ Settle(c) \/ Trim(c) \/ Evict(c) \/ Invalidate(c)
  BY <1>4 DEF Judge, Touch, Promote, Store, Settle, Trim, Evict, Invalidate, Lookup, At
<1>5. CASE Route(c) \/ Build(c) \/ Write(c) \/ List(c) \/ Save(c)
  BY <1>5 DEF Route, Build, Write, List, Save, Lookup, At
<1> QED
  BY <1>1, <1>2, <1>3, <1>4, <1>5 DEF Acts, Step

\* A call drops its identity only after a 401, which the service had a reason for.
LEMMA RejectedStep ==
  ASSUME IInv, NEW c \in Calls, Acts(c), pc'[c] = "invalidate"
  PROVE  Rejected(c) /\ id'[c] = id[c] /\ pc[c] \in {"route", "write", "list", "save"}
<1> USE DEF IInv, CallsOK, Goto, End, At
<1>1. CASE Start(c) \/ Lookup(c) \/ Judge(c) \/ Touch(c) \/ Exchange(c) \/ Store(c)
  BY <1>1 DEF Start, Lookup, Judge, Touch, Promote, Exchange, Store
<1>2. CASE Settle(c) \/ Trim(c) \/ Evict(c) \/ Invalidate(c) \/ Build(c)
  BY <1>2 DEF Settle, Promote, Trim, Evict, Invalidate, Build
<1>3. CASE Route(c)
  BY <1>3 DEF Route
<1>4. CASE Write(c)
  BY <1>4 DEF Write
<1>5. CASE List(c) \/ Save(c)
  BY <1>5 DEF List, Save, locals
<1> QED
  BY <1>1, <1>2, <1>3, <1>4, <1>5 DEF Acts, Step

LEMMA StaleStep ==
  ASSUME IInv, IInv', StaleInv, [Next]_vars
  PROVE  StaleInv'
<1>1. /\ clock <= clock' /\ clock' \in Nat /\ epoch' \in [Tokens -> Nat]
      /\ \A t \in Tokens : epoch[t] <= epoch'[t]
  BY ServiceGrows, TimesAssumption DEF IInv, ServiceOK
<1>2. ASSUME NEW c \in Calls, id'[c] # NoIdentity PROVE id'[c].epoch <= epoch'[TokenOf[c]]
  <2>1. CASE id'[c] = id[c]
    BY <1>1, <1>2, <2>1, Fields DEF StaleInv
  <2>2. CASE id'[c] # id[c]
    <3>1. Acts(c)
      BY <2>2, OneActs DEF Outside, locals, Same
    <3>2. CASE Lookup(c) /\ id'[c] = entry[TokenOf[c]]
      BY <1>1, <1>2, <3>2, Fields DEF StaleInv, Cached
    <3>3. CASE Exchange(c) /\ id'[c] = Minted(TokenOf[c])
      BY <1>1, <3>3, Fields DEF Minted
    <3>4. CASE id'[c] = ApiKeyIdentity(TokenOf[c])
      BY <1>1, <3>4, Fields DEF ApiKeyIdentity
    <3> QED
      BY <1>2, <2>2, <3>1, <3>2, <3>3, <3>4, IdStep
  <2> QED
    BY <2>1, <2>2
<1>3. ASSUME NEW t \in Cached' PROVE entry'[t].epoch <= epoch'[t]
  <2>1. CASE t \in Cached /\ entry'[t] = entry[t]
    BY <1>1, <2>1, Fields DEF StaleInv
  <2>2. ASSUME NEW c \in Calls, Store(c), t = TokenOf[c], entry'[t] = id[c]
        PROVE  entry'[t].epoch <= epoch'[t]
    <3>1. id[c] # NoIdentity
      BY <2>2 DEF Store, At, IInv, Holding
    <3> QED
      BY <1>1, <2>2, <3>1, Fields DEF StaleInv
  <2> QED
    BY <2>1, <2>2, EntryStep
<1>4. ASSUME NEW c \in Calls, pc'[c] = "invalidate" PROVE Stale(id[c], TokenOf[c])' /\ id'[c] = id[c]
  <2>1. CASE pc[c] = "invalidate" /\ id'[c] = id[c]
    <3>1. id[c] # NoIdentity
      BY <2>1 DEF IInv, Holding
    <3> QED
      BY <1>1, <2>1, <3>1, Fields DEF StaleInv, Stale, At
  <2>2. CASE Acts(c)
    <3>1. Rejected(c) /\ id'[c] = id[c] /\ id[c] # NoIdentity
      BY <1>4, <2>2, RejectedStep DEF IInv, Holding
    <3>2. clock' = clock /\ epoch' = epoch
      BY <2>2, ServiceGrows
    <3>3. id[c].epoch # epoch[TokenOf[c]] \/ ~(clock < id[c].expires)
      BY <3>1, Fields DEF Rejected, Valid
    <3> QED
      BY <3>1, <3>2, <3>3, Fields DEF StaleInv, Stale
  <2> QED
    BY <1>4, <2>1, <2>2, OneActs DEF Outside, locals, Same
<1> QED
  BY <1>2, <1>3, <1>4 DEF StaleInv, At
LEMMA HistoryIInv == HSpec => []IInv
<1>1. HInit => IInv
  BY InitIInv DEF HInit
<1>2. IInv /\ [HNext]_hvars => IInv'
  BY NextIInv DEF HNext, hvars
<1> QED
  BY <1>1, <1>2, PTL DEF HSpec

LEMMA StaleHolds == HSpec => []StaleInv
<1>1. HInit => StaleInv
  BY DEF HInit, Init, StaleInv, Cached, At
<1>2. IInv /\ IInv' /\ StaleInv /\ [HNext]_hvars => StaleInv'
  BY StaleStep DEF HNext, hvars
<1> QED
  BY <1>1, <1>2, HistoryIInv, PTL DEF HSpec

-----------------------------------------------------------------------------
(* The skew. *)

Judged == {"touch", "store", "settle", "trim", "evict", "invalidate", "route", "build", "write",
           "list", "save"}

\* An identity in use was, when it was judged or minted, more than the skew
\* away from its expiry.
JudgedOK(c) ==
  TokenOf[c] \in OAuth /\ pc[c] \in Judged => judged[c] + Skew < id[c].expires

JudgedInv == judged \in [Calls -> Nat] /\ \A c \in Calls : JudgedOK(c)

LEMMA JudgedStep ==
  ASSUME IInv, IInv', JudgedInv, HNext
  PROVE  JudgedInv'
<1>1. /\ clock \in Nat /\ Skew \in Nat /\ judged \in [Calls -> Nat] /\ [Next]_vars
      /\ judged' = [c \in Calls |-> IF pc'[c] # pc[c] /\ pc[c] \in {"judge", "exchange"}
                                    THEN clock ELSE judged[c]]
  BY Fields DEF HNext, JudgedInv
<1>2. judged' \in [Calls -> Nat]
  BY <1>1
<1>3. ASSUME NEW c \in Calls PROVE JudgedOK(c)'
  <2>1. JudgedOK(c) /\ CallsOK /\ TokenOf[c] \in Tokens
    BY CallersAssumption DEF JudgedInv, IInv
  <2>2. CASE Outside \/ Same(c)
    <3>1. pc'[c] = pc[c] /\ id'[c] = id[c]
      BY <2>2 DEF Outside, locals, Same
    <3> QED
      BY <1>1, <2>1, <3>1 DEF JudgedOK
  <2>3. CASE Start(c) \/ Lookup(c) \/ Invalidate(c)
    BY <1>1, <2>1, <2>3 DEF JudgedOK, Judged, OAuth, Start, MayStart, Lookup, Invalidate, At, Goto,
                            End, CallsOK
  <2>4. CASE Judge(c)
    <3>1. id[c] # NoIdentity /\ id'[c] = id[c] /\ id[c].expires \in Nat
      BY <2>4, Fields DEF Judge, At, IInv, Holding, locals
    <3>2. pc'[c] = "touch" => ~(clock + Skew >= id[c].expires)
      BY <2>1, <2>4 DEF Judge, Goto, CallsOK
    <3>3. pc[c] = "judge" /\ pc'[c] \in {"exchange", "touch"}
      BY <2>1, <2>4 DEF Judge, Goto, At, CallsOK
    <3> QED
      BY <1>1, <3>1, <3>2, <3>3 DEF JudgedOK, Judged
  <2>5. CASE Exchange(c)
    <3>1. pc'[c] = "store" => id'[c].expires = clock + Life
      BY <2>1, <2>5 DEF Exchange, Goto, End, Minted, CallsOK
    <3>2. pc[c] = "exchange" /\ pc'[c] \in {"store", "idle"}
      BY <2>1, <2>5 DEF Exchange, Goto, End, At, CallsOK
    <3> QED
      BY <1>1, <3>1, <3>2, TimesAssumption DEF JudgedOK, Judged
  <2>6. CASE Acts(c) /\ ~(Start(c) \/ Lookup(c) \/ Invalidate(c) \/ Judge(c) \/ Exchange(c))
    <3>1. id'[c] = id[c]
      BY <2>6, IdStep
    <3>2. pc[c] \in Judged
      BY <2>6 DEF Acts, Step, Judged, Touch, Store, Settle, Trim, Evict, Route, Build, Write, List, Save, At
    <3> QED
      BY <1>1, <2>1, <3>1, <3>2 DEF JudgedOK, Judged
  <2> QED
    BY <1>1, <2>2, <2>3, <2>4, <2>5, <2>6, OneActs
<1> QED
  BY <1>2, <1>3 DEF JudgedInv

\* CACHE_SKEW_SECONDS: for every life of a token, every skew shorter than it and every
\* overlap of calls, a call that drops its identity after a 401 held a revoked token, or
\* let more than the skew pass since the token was judged or minted.
THEOREM SkewAlwaysSuffices == HSpec => []SkewSuffices
<1>1. HInit => JudgedInv
  BY DEF HInit, Init, JudgedInv, JudgedOK, Judged
<1>2. IInv /\ IInv' /\ JudgedInv /\ [HNext]_hvars => JudgedInv'
  <2> SUFFICES ASSUME IInv, IInv', JudgedInv, [HNext]_hvars PROVE JudgedInv'
    OBVIOUS
  <2>1. CASE UNCHANGED hvars
    BY <2>1 DEF hvars, vars, locals, JudgedInv, JudgedOK
  <2> QED
    BY <2>1, JudgedStep
<1>3. IInv /\ StaleInv /\ JudgedInv => SkewSuffices
  <2> SUFFICES ASSUME IInv, StaleInv, JudgedInv, NEW c \in Calls, At(c, "invalidate"),
                      TokenOf[c] \in OAuth
               PROVE  id[c].epoch # epoch[TokenOf[c]] \/ clock > judged[c] + Skew
    BY DEF SkewSuffices
  <2>1. id[c] # NoIdentity /\ judged[c] \in Nat /\ judged[c] + Skew < id[c].expires
    BY DEF At, IInv, Holding, JudgedInv, JudgedOK, Judged
  <2>2. Stale(id[c], TokenOf[c])
    BY DEF StaleInv
  <2> QED
    BY <2>1, <2>2, Fields DEF Stale
<1> QED
  BY <1>1, <1>2, <1>3, HistoryIInv, StaleHolds, PTL DEF HSpec
-----------------------------------------------------------------------------
(* Callers whose own calls do not overlap.  The calls of different callers  *)
(* still do, in every way.                                                  *)

OwnCallsApart == \A c, d \in Calls : TokenOf[c] = TokenOf[d] => <<c, d>> \notin MayOverlap

OneEach ==
  \A c, d \in Calls :
    TokenOf[c] = TokenOf[d] /\ pc[c] # "idle" /\ pc[d] # "idle" => c = d

\* What a call does where it stands.
LEMMA WhereItStands ==
  ASSUME NEW c \in Calls, Acts(c)
  PROVE  /\ pc[c] = "idle" => Start(c)
         /\ pc[c] = "invalidate" => Invalidate(c)
         /\ pc[c] = "lookup" => Lookup(c)
<1> USE DEF At
<1>1. CASE Start(c) \/ Lookup(c) \/ Judge(c) \/ Touch(c) \/ Exchange(c) \/ Store(c)
  BY <1>1 DEF Start, MayStart, Lookup, Judge, Touch, Exchange, Store
<1>2. CASE Settle(c) \/ Trim(c) \/ Evict(c) \/ Invalidate(c) \/ Route(c) \/ Build(c) \/ Write(c)
           \/ List(c) \/ Save(c)
  BY <1>2 DEF Settle, Trim, Evict, Invalidate, Route, Build, Write, List, Save
<1> QED
  BY <1>1, <1>2 DEF Acts, Step

LEMMA OneEachStep ==
  ASSUME OwnCallsApart, IInv, OneEach, [Next]_vars
  PROVE  OneEach'
<1>1. ASSUME NEW c \in Calls, NEW d \in Calls, TokenOf[c] = TokenOf[d], c # d,
             pc'[c] # "idle", pc'[d] # "idle"
      PROVE  FALSE
  <2>1. CASE Outside
    BY <1>1, <2>1 DEF Outside, OneEach
  <2>2. ASSUME NEW b \in Calls, Acts(b), \A e \in Calls \ {b} : Same(e), b \in {c, d}, NEW e \in {c, d} \ {b}
        PROVE  FALSE
    <3>1. pc[e] # "idle" /\ pc[b] = "idle"
      BY <1>1, <2>2 DEF Same, OneEach
    <3>2. MayStart(b)
      BY <2>2, <3>1, WhereItStands DEF Start
    <3> QED
      BY <1>1, <2>2, <3>1, <3>2 DEF MayStart, At, OwnCallsApart
  <2>3. ASSUME NEW b \in Calls \ {c, d}, \A e \in Calls \ {b} : Same(e)
        PROVE  FALSE
    BY <1>1, <2>3 DEF Same, OneEach
  <2> QED
    BY <1>1, <2>1, <2>2, <2>3, OneActs
<1> QED
  BY <1>1 DEF OneEach

-----------------------------------------------------------------------------
(* An identity a 401 dropped.                                               *)

\* What a 401 dropped the service never accepts again, and neither the cache
\* nor a call of its caller still has it.
DroppedInv ==
  /\ dropped \in [Tokens -> SUBSET Identity]
  /\ \A t \in Tokens : \A i \in dropped[t] : Stale(i, t)
  /\ \A t \in Cached : entry[t] \notin dropped[t]
  /\ \A c \in Calls :
       TokenOf[c] \in OAuth /\ pc[c] \notin {"idle", "lookup"} => id[c] \notin dropped[TokenOf[c]]
  /\ barred \in [Calls -> SUBSET Identity]
  /\ \A c \in Calls : barred[c] \subseteq dropped[TokenOf[c]]

\* Only a call that drops its own entry adds to what was dropped.
LEMMA DroppedStep ==
  ASSUME IInv, HNext, dropped \in [Tokens -> SUBSET Identity], NEW t \in Tokens
  PROVE  \/ dropped'[t] = dropped[t]
         \/ \E d \in Calls : /\ Invalidate(d) /\ TokenOf[d] = t
                             /\ \A c \in Calls \ {d} : Same(c)
                             /\ dropped'[t] = dropped[t] \cup {id[d]}
<1> DEFINE Dropping == {d \in Calls : At(d, "invalidate") /\ pc'[d] = "idle" /\ TokenOf[d] = t}
<1>1. dropped'[t] = dropped[t] \cup {id[c] : c \in Dropping}
  BY DEF HNext
<1>2. CASE Dropping = {}
  BY <1>1, <1>2 DEF Dropping
<1>3. ASSUME NEW d \in Dropping 
      PROVE  \E e \in Calls : /\ Invalidate(e) /\ TokenOf[e] = t
                              /\ \A c \in Calls \ {e} : Same(c)
                              /\ dropped'[t] = dropped[t] \cup {id[e]}
  <2>1. Acts(d) /\ \A c \in Calls \ {d} : Same(c)
    BY OneActs DEF At, Outside, Same, HNext
  <2>2. Invalidate(d)
    BY <2>1, WhereItStands DEF At
  <2>3. Dropping = {d}
    BY <2>1 DEF At, Same
  <2> HIDE DEF Dropping
  <2>4. {id[c] : c \in Dropping} = {id[d]}
    BY <2>3
  <2> QED
    BY <1>1, <2>1, <2>2, <2>4 DEF Dropping
<1> HIDE DEF Dropping
<1>4. \A d \in Dropping : d \in Calls
  BY DEF Dropping
<1> QED
  BY <1>2, <1>3, <1>4
LEMMA FreshStep ==
  ASSUME OwnCallsApart, IInv, IInv', StaleInv, StaleInv', OneEach, DroppedInv, HNext
  PROVE  DroppedInv'
<1>1. /\ dropped \in [Tokens -> SUBSET Identity] /\ [Next]_vars
      /\ \A c \in Calls : TokenOf[c] \in Tokens
  BY Fields DEF DroppedInv, HNext
<1>2. ASSUME NEW c \in Calls, Invalidate(c) PROVE id[c] \in Identity /\ Stale(id[c], TokenOf[c])
  BY <1>2 DEF Invalidate, IInv, Holding, CallsOK, StaleInv, At
<1>3. /\ dropped' \in [Tokens -> SUBSET Identity]
      /\ \A t \in Tokens : dropped[t] \subseteq dropped'[t]
  <2>1. dropped' = [t \in Tokens |-> dropped'[t]]
    BY DEF HNext
  <2>2. \A t \in Tokens : dropped'[t] \subseteq Identity /\ dropped[t] \subseteq dropped'[t]
    BY <1>1, <1>2, DroppedStep
  <2> QED
    BY <2>1, <2>2
<1>4. ASSUME NEW t \in Tokens, NEW i \in dropped'[t] PROVE Stale(i, t)'
  <2>1. Stale(i, t)
    BY <1>1, <1>2, DroppedStep DEF DroppedInv
  <2>2. /\ clock <= clock' /\ clock \in Nat /\ clock' \in Nat
        /\ epoch[t] <= epoch'[t] /\ epoch[t] \in Nat /\ epoch'[t] \in Nat
    BY <1>1, ServiceGrows, TimesAssumption DEF IInv, ServiceOK
  <2>3. i.epoch \in Nat /\ i.expires \in Nat
    BY <1>3, TimesAssumption DEF Identity, Forever
  <2> QED
    BY <2>1, <2>2, <2>3 DEF Stale
<1>5. ASSUME NEW t \in Cached' PROVE entry'[t] \notin dropped'[t]
  <2>0. t \in Tokens
    BY DEF Cached
  <2>1. ASSUME NEW d \in Calls, Invalidate(d), TokenOf[d] = t PROVE FALSE
    BY <1>1, <2>0, <2>1, RemoveOK DEF Invalidate, IInv
  <2>2. dropped'[t] = dropped[t]
    BY <1>1, <2>0, <2>1, DroppedStep
  <2>3. ASSUME NEW c \in Calls, Store(c), t = TokenOf[c], entry'[t] = id[c]
        PROVE  entry'[t] \notin dropped[t]
    BY <2>3 DEF Store, At, IInv, OAuthOnly, CacheUse, DroppedInv
  <2> QED
    BY <1>1, <2>2, <2>3, EntryStep DEF DroppedInv
<1>6. ASSUME NEW c \in Calls, TokenOf[c] \in OAuth, pc'[c] \notin {"idle", "lookup"}
      PROVE  id'[c] \notin dropped'[TokenOf[c]]
  <2>1. ASSUME NEW d \in Calls, Invalidate(d), TokenOf[d] = TokenOf[c], \A e \in Calls \ {d} : Same(e)
        PROVE  FALSE
    <3>1. pc'[d] = "idle" /\ pc[d] = "invalidate"
      BY <2>1 DEF Invalidate, End, Goto, At, IInv, CallsOK
    <3>2. c # d /\ pc[c] # "idle"
      BY <1>6, <2>1, <3>1 DEF Same
    <3> QED
      BY <2>1, <3>1, <3>2 DEF OneEach
  <2>2. dropped'[TokenOf[c]] = dropped[TokenOf[c]]
    BY <1>1, <2>1, DroppedStep
  <2>3. id'[c] \notin dropped[TokenOf[c]]
    <3>1. CASE Outside \/ Same(c)
      BY <1>6, <3>1 DEF Outside, locals, Same, DroppedInv
    <3>2. CASE Acts(c) /\ id'[c] = id[c] /\ ~Lookup(c)
      <4>1. pc[c] # "idle"
        <5> SUFFICES ASSUME Start(c) PROVE FALSE
          BY <3>2, WhereItStands
        <5> QED
          BY <1>6 DEF Start, Goto, IInv, CallsOK, OAuth
      <4> QED
        BY <1>6, <3>2, <4>1, WhereItStands DEF DroppedInv
    <3>3. CASE Start(c)
      BY <1>6, <3>3 DEF Start, Goto, IInv, CallsOK, OAuth
    <3>4. CASE id'[c] = entry[TokenOf[c]]
      BY <1>1, <3>4, NoIdentityAssumption DEF Cached, DroppedInv
    <3>5. CASE id'[c] = Minted(TokenOf[c])
      <4>1. ~Stale(Minted(TokenOf[c]), TokenOf[c])
        BY <1>1, Fields, TimesAssumption DEF Minted, Stale
      <4> QED
        BY <1>1, <3>5, <4>1 DEF DroppedInv
    <3> QED
      BY <1>1, <3>1, <3>2, <3>3, <3>4, <3>5, IdStep, OneActs
  <2> QED
    BY <2>2, <2>3
<1>7. /\ barred' \in [Calls -> SUBSET Identity]
      /\ \A c \in Calls : barred'[c] \subseteq dropped'[TokenOf[c]]
  <2>1. barred' = [c \in Calls |-> IF At(c, "idle") /\ pc'[c] # "idle"
                                   THEN dropped[TokenOf[c]] ELSE barred[c]]
    BY DEF HNext
  <2>2. \A c \in Calls : barred[c] \in SUBSET Identity /\ dropped[TokenOf[c]] \in SUBSET Identity
    BY <1>1 DEF DroppedInv
  <2> QED
    BY <1>1, <1>3, <2>1, <2>2 DEF DroppedInv
<1> QED
  BY <1>3, <1>4, <1>5, <1>6, <1>7 DEF DroppedInv

\* _on_unauthorized: for every caller whose own calls do not overlap, whatever the calls
\* of others do, no call runs on an identity that a 401 dropped before the call began.
THEOREM NeverARejectedIdentity == OwnCallsApart => (HSpec => []FreshAfterReject)
<1> SUFFICES ASSUME OwnCallsApart PROVE HSpec => []FreshAfterReject
  OBVIOUS
<1>1. HInit => OneEach /\ DroppedInv
  BY CallersAssumption DEF HInit, Init, OneEach, DroppedInv, Cached
<1>2. IInv /\ OneEach /\ [HNext]_hvars => OneEach'
  BY OneEachStep DEF HNext, hvars
<1>3. IInv /\ IInv' /\ StaleInv /\ StaleInv' /\ OneEach /\ DroppedInv /\ [HNext]_hvars => DroppedInv'
  <2> SUFFICES ASSUME IInv, IInv', StaleInv, StaleInv', OneEach, DroppedInv, [HNext]_hvars
               PROVE  DroppedInv'
    OBVIOUS
  <2>1. CASE UNCHANGED hvars
    BY <2>1 DEF hvars, vars, service, cache, locals, DroppedInv, Stale, Cached
  <2> QED
    BY <2>1, FreshStep
<1>4. DroppedInv => FreshAfterReject
  BY DEF DroppedInv, FreshAfterReject
<1> QED
  BY <1>1, <1>2, <1>3, <1>4, HistoryIInv, StaleHolds, PTL DEF HSpec
-----------------------------------------------------------------------------
(* The result line of a write.                                              *)

\* Without an echo the line shows the routing answer, which must still be true.
RoutingOK(c) ==
  ~Echoes /\ pc[c] \in {"build", "write"} => routing[c] \in {NoWs, Target(TokenOf[c])}
Unrouted(c) == pc[c] \in CacheUse \cup {"route"} => routing[c] = NoWs
LineOK(c) == reply[c] = "wrote" => named[c] \in {landed[c], NoWs}
LineInv == \A c \in Calls : RoutingOK(c) /\ Unrouted(c) /\ LineOK(c)

LEMMA PickStep ==
  ASSUME IInv, [Next]_vars, NEW t \in Tokens
  PROVE  \/ pick'[t] = pick[t]
         \/ \E c \in Calls : Save(c) /\ TokenOf[c] = t
<1>1. CASE Outside
  BY <1>1 DEF Outside, Tick, Revoke, vars, service
<1>2. ASSUME NEW c \in Calls, Save(c), TokenOf[c] # t PROVE pick'[t] = pick[t]
  BY <1>2, CallersAssumption DEF Save, IInv, ServiceOK
<1>3. ASSUME NEW c \in Calls, Acts(c), ~Save(c) PROVE pick' = pick
  BY <1>3 DEF Acts, Start, Step, Lookup, Judge, Touch, Promote, Exchange, Store, Settle, Trim, Evict,
              Invalidate, Route, Build, Write, List, service
<1> QED
  BY <1>1, <1>2, <1>3, OneActs

\* How a call comes to the steps that show its routing answer.
LEMMA RoutingStep ==
  ASSUME IInv, NEW c \in Calls, Acts(c), pc'[c] \in {"build", "write"}
  PROVE  \/ Route(c) /\ pick' = pick /\ routing'[c] \in {routing[c], Target(TokenOf[c])}
         \/ pc[c] = "build" /\ pick' = pick /\ routing'[c] = routing[c]
<1> USE DEF IInv, CallsOK, Goto, End, At
<1>1. CASE Start(c) \/ Lookup(c) \/ Judge(c) \/ Touch(c) \/ Exchange(c) \/ Store(c)
  BY <1>1 DEF Start, Lookup, Judge, Touch, Promote, Exchange, Store
<1>2. CASE Settle(c) \/ Trim(c) \/ Evict(c) \/ Invalidate(c)
  BY <1>2 DEF Settle, Promote, Trim, Evict, Invalidate
<1>3. CASE Route(c)
  BY <1>3 DEF Route, service
<1>4. CASE Build(c)
  BY <1>4 DEF Build, service, locals
<1>5. CASE Write(c) \/ List(c) \/ Save(c)
  BY <1>5 DEF Write, List, Save, Rejected
<1> QED
  BY <1>1, <1>2, <1>3, <1>4, <1>5 DEF Acts, Step
LEMMA UnroutedStep ==
  ASSUME IInv, NEW c \in Calls, Acts(c), Unrouted(c)
  PROVE  Unrouted(c)'
<1> USE DEF IInv, CallsOK, Goto, End, At, Unrouted, CacheUse
<1>1. CASE Start(c)
  BY <1>1 DEF Start
<1>2. CASE Lookup(c) \/ Judge(c) \/ Touch(c) \/ Exchange(c) \/ Store(c)
  BY <1>2 DEF Lookup, Judge, Touch, Promote, Exchange, Store, locals
<1>3. CASE Settle(c) \/ Trim(c) \/ Evict(c) \/ Invalidate(c)
  BY <1>3 DEF Settle, Promote, Trim, Evict, Invalidate, locals
<1>4. CASE Route(c) \/ Build(c)
  BY <1>4 DEF Route, Rejected, Build
<1>5. CASE Write(c) \/ List(c) \/ Save(c)
  BY <1>5 DEF Write, List, Save, Rejected
<1> QED
  BY <1>1, <1>2, <1>3, <1>4, <1>5 DEF Acts, Step

LEMMA WrittenLine ==
  ASSUME IInv, NEW c \in Calls, Acts(c), RoutingOK(c), LineOK(c)
  PROVE  LineOK(c)'
<1> USE DEF IInv, CallsOK, Goto, End, At, LineOK
<1>1. CASE Start(c) \/ Lookup(c) \/ Judge(c) \/ Touch(c) \/ Exchange(c) \/ Store(c)
  BY <1>1 DEF Start, Lookup, Judge, Touch, Promote, Exchange, Store, locals
<1>2. CASE Settle(c) \/ Trim(c) \/ Evict(c) \/ Invalidate(c)
  BY <1>2 DEF Settle, Promote, Trim, Evict, Invalidate, locals
<1>3. CASE Route(c) \/ Build(c) \/ List(c) \/ Save(c)
  BY <1>3 DEF Route, Rejected, Build, List, Save, locals
<1>4. CASE Write(c)
  <2>1. Target(TokenOf[c]) \in Workspaces \cup {NoWs}
    BY CallFacts
  <2> QED
    BY <1>4, <2>1, CallersAssumption DEF Write, Rejected, LineTarget, RoutingOK
<1> QED
  BY <1>1, <1>2, <1>3, <1>4 DEF Acts, Step

LEMMA LineStep ==
  ASSUME Echoes \/ OwnCallsApart, IInv, Echoes \/ OneEach, LineInv, [Next]_vars
  PROVE  LineInv'
<1>1. ASSUME NEW c \in Calls, ~Echoes, pc'[c] \in {"build", "write"}
      PROVE  routing'[c] \in {NoWs, Target(TokenOf[c])'}
  <2>1. CASE Acts(c)
    <3>1. routing'[c] \in {NoWs, Target(TokenOf[c])} /\ pick' = pick
      BY <1>1, <2>1, RoutingStep DEF LineInv, RoutingOK, Unrouted, Route, At
    <3> QED
      BY <3>1 DEF Target
  <2>2. CASE Outside \/ Same(c)
    <3>1. pc'[c] = pc[c] /\ routing'[c] = routing[c]
      BY <2>2 DEF Outside, locals, Same
    <3>2. ASSUME NEW d \in Calls, Save(d), TokenOf[d] = TokenOf[c] PROVE FALSE
      BY <1>1, <3>1, <3>2 DEF Save, At, OneEach
    <3>3. pick'[TokenOf[c]] = pick[TokenOf[c]]
      BY <3>2, PickStep, CallersAssumption
    <3> QED
      BY <1>1, <3>1, <3>3 DEF LineInv, RoutingOK, Target
  <2> QED
    BY <2>1, <2>2, OneActs
<1>2. ASSUME NEW c \in Calls PROVE Unrouted(c)' /\ LineOK(c)'
  <2>1. CASE Acts(c)
    BY <2>1, UnroutedStep, WrittenLine DEF LineInv
  <2>2. CASE Outside \/ Same(c)
    BY <2>2 DEF Outside, locals, Same, LineInv, Unrouted, LineOK
  <2> QED
    BY <2>1, <2>2, OneActs
<1> QED
  BY <1>1, <1>2 DEF LineInv, RoutingOK

\* HostedIdentity.team_id and the result line: where the service echoes the target of a
\* write, or where a caller's own calls do not overlap, the line names the workspace the
\* write went to, or none.
THEOREM LineIsTrue == Echoes \/ OwnCallsApart => (Spec => []LineNamesTarget)
<1> SUFFICES ASSUME Echoes \/ OwnCallsApart PROVE Spec => []LineNamesTarget
  OBVIOUS
<1>1. Init => IInv /\ (Echoes \/ OneEach) /\ LineInv
  BY InitIInv DEF Init, OneEach, LineInv, RoutingOK, Unrouted, CacheUse, LineOK
<1>2. IInv /\ (Echoes \/ OneEach) /\ LineInv /\ [Next]_vars
        => IInv' /\ (Echoes \/ OneEach)' /\ LineInv'
  BY NextIInv, OneEachStep, LineStep
<1>3. LineInv => LineNamesTarget
  BY DEF LineInv, LineOK, LineNamesTarget
<1> QED
  BY <1>1, <1>2, <1>3, PTL DEF Spec
=============================================================================
