---------------------------- MODULE KeyVerifier ----------------------------
(***************************************************************************)
(* The check of an API key on the hosted server                            *)
(* (hosted/api_key_verifier.py): a cache of accepted keys, and a request   *)
(* to /auth/me for any other, during which the event loop goes on with     *)
(* other calls.  The account service is external: it judges a key when it  *)
(* handles the request; a request may fail instead.  Time is a bounded     *)
(* clock.  `lived`, `begun` and `verdict` are history variables.           *)
(***************************************************************************)
EXTENDS Integers

CONSTANTS
  Callers,    \* calls of verify_token() under way
  Keys,       \* tokens of the form of a key
  NotKeys,    \* other tokens
  Ttl,        \* CACHE_TTL_SECONDS
  Flight,     \* how long a request may be on its way
  Horizon,    \* bound on the clock
  NoEntry, NoKey

ASSUME TtlAssumption == Ttl \in Nat \ {0} /\ Flight \in Nat /\ Horizon \in Nat
ASSUME KeysAssumption ==
  Keys \cap NotKeys = {} /\ NoKey \notin Keys \cup NotKeys /\ NoEntry \notin Nat

VARIABLES
  now,
  valid,     \* the keys the service accepts
  expires,   \* _cache: when the entry of each key ends
  step,      \* where each caller is
  token,     \* the key it has
  said,      \* the service's answer to it
  lived,     \* the last time each key was valid, or -1
  begun,     \* when each caller began
  verdict    \* what each caller was told last

keyService == <<valid, lived>>
call == <<step, token, said, begun, verdict>>
verifierVars == <<now, keyService, expires, call>>

-----------------------------------------------------------------------------
VerifierInit ==
  /\ now = 0 /\ valid \in SUBSET Keys
  /\ lived = [k \in Keys |-> IF k \in valid THEN 0 ELSE -1]
  /\ expires = [k \in Keys |-> NoEntry]
  /\ step = [c \in Callers |-> "idle"] /\ token = [c \in Callers |-> NoKey]
  /\ said = [c \in Callers |-> "none"] /\ begun = [c \in Callers |-> 0]
  /\ verdict = [c \in Callers |-> "none"]

\* Mutant of CachedKey: an entry is used whatever its age.
MCachedKey(k) == expires[k] # NoEntry

\* An entry of the cache that has not ended.
CachedKey(k) == expires[k] # NoEntry /\ now < expires[k]

\* verify_token() up to the request: what is no key is refused, a cached key
\* accepted, an entry that ended dropped.
Verify(c, k) ==
  /\ step[c] = "idle"
  /\ token' = [token EXCEPT ![c] = k] /\ begun' = [begun EXCEPT ![c] = now]
  /\ IF k \in NotKeys \/ (k \in Keys /\ CachedKey(k))
     THEN /\ step' = [step EXCEPT ![c] = "told"]
          /\ verdict' = [verdict EXCEPT ![c] = IF k \in Keys THEN "accepted" ELSE "refused"]
          /\ UNCHANGED expires
     ELSE /\ step' = [step EXCEPT ![c] = "asking"]
          /\ expires' = [expires EXCEPT ![k] = NoEntry]
          /\ UNCHANGED verdict
  /\ UNCHANGED <<now, keyService, said>>

\* The service handles the request: 200 with a user, or another status.
JudgeKey(c) ==
  /\ step[c] = "asking" /\ said[c] = "none"
  /\ said' = [said EXCEPT ![c] = IF token[c] \in valid THEN "user" ELSE "rejected"]
  /\ UNCHANGED <<now, keyService, expires, step, token, begun, verdict>>

\* A 5xx, a body without a user, no connection, a timeout.
Break(c) ==
  /\ step[c] = "asking"
  /\ said' = [said EXCEPT ![c] = "broken"]
  /\ UNCHANGED <<now, keyService, expires, step, token, begun, verdict>>

\* Mutant of EntryAfter: any answer of the service is kept for an acceptance.
MEntryAfter(c) == IF said[c] = "broken" THEN expires[token[c]] ELSE now + Ttl

\* What the cache holds of the caller's key after the answer: only acceptances are kept.
EntryAfter(c) == IF said[c] = "user" THEN now + Ttl ELSE expires[token[c]]

\* verify_token() after the request.
Conclude(c) ==
  /\ step[c] = "asking" /\ said[c] # "none"
  /\ expires' = [expires EXCEPT ![token[c]] = EntryAfter(c)]
  /\ verdict' = [verdict EXCEPT ![c] = IF said[c] = "user" THEN "accepted" ELSE "refused"]
  /\ step' = [step EXCEPT ![c] = "told"]
  /\ UNCHANGED <<now, keyService, token, said, begun>>

\* The caller goes on with its request, or is refused with 401.
Leave(c) ==
  /\ step[c] = "told"
  /\ step' = [step EXCEPT ![c] = "idle"] /\ token' = [token EXCEPT ![c] = NoKey]
  /\ said' = [said EXCEPT ![c] = "none"] /\ verdict' = [verdict EXCEPT ![c] = "none"]
  /\ begun' = [begun EXCEPT ![c] = 0]
  /\ UNCHANGED <<now, keyService, expires>>

\* A key is created or revoked.
Change(k) ==
  /\ valid' = IF k \in valid THEN valid \ {k} ELSE valid \cup {k}
  /\ lived' = [lived EXCEPT ![k] = now]
  /\ UNCHANGED <<now, expires, call>>

\* No request is under way for longer than Flight; a verdict is used at once.
Elapse ==
  /\ now < Horizon
  /\ \A c \in Callers : step[c] # "told" /\ (step[c] = "asking" => now < begun[c] + Flight)
  /\ now' = now + 1
  /\ lived' = [k \in Keys |-> IF k \in valid THEN now + 1 ELSE lived[k]]
  /\ UNCHANGED <<valid, expires, call>>

VerifierNext ==
  \/ \E c \in Callers :
       \/ \E k \in Keys \cup NotKeys : Verify(c, k)
       \/ JudgeKey(c) \/ Break(c) \/ Conclude(c) \/ Leave(c)
  \/ \E k \in Keys : Change(k)
  \/ Elapse

VerifierSpec == VerifierInit /\ [][VerifierNext]_verifierVars

-----------------------------------------------------------------------------
\* Every variable has its type.
VerifierTypeOK ==
  /\ now \in 0 .. Horizon /\ valid \subseteq Keys
  /\ lived \in [Keys -> -1 .. Horizon]
  /\ expires \in [Keys -> Nat \cup {NoEntry}]
  /\ step \in [Callers -> {"idle", "asking", "told"}]
  /\ token \in [Callers -> Keys \cup NotKeys \cup {NoKey}]
  /\ said \in [Callers -> {"none", "user", "rejected", "broken"}]
  /\ begun \in [Callers -> 0 .. Horizon]
  /\ verdict \in [Callers -> {"none", "accepted", "refused"}]

\* "Every key that passes it is validated by svc-api; nothing is accepted locally":
\* whoever is accepted has a key that the service accepted at some time no longer
\* ago than a cached answer lives and a request travels, however a revocation, the
\* answers to overlapping checks and the end of an entry fall together.
BoundedStaleness ==
  \A c \in Callers :
    verdict[c] = "accepted" =>
      token[c] \in Keys /\ lived[token[c]] # -1 /\ now < lived[token[c]] + Ttl + Flight
=============================================================================
