--------------------------- MODULE SharedBackend ---------------------------
(***************************************************************************)
(* Overlapping tool calls on the one backend object of a process: worker   *)
(* threads share its attributes.  On the local backend the first use       *)
(* constructs the memory under a lock (local.py, `_mem`).  On both, a      *)
(* search leaves its session id on the object, where memory_search reads   *)
(* it back for its reply; the local one also leaves the ids it showed,     *)
(* which later feedback is paired with.  Searches are numbered, 0 is none. *)
(***************************************************************************)
EXTENDS Naturals

CONSTANTS
  Threads,
  MaxSearches,   \* bound
  NoThread, NoReply

ASSUME SharedAssumption == MaxSearches \in Nat /\ NoThread \notin Threads

VARIABLES
  kind,         \* "local" or "remote"
  memory,       \* _memory, 0 for None
  holder,       \* _init_lock
  built,        \* how many constructions succeeded
  stage,        \* where each thread is
  mem,          \* the memory its operation uses
  mine,         \* the number of its search
  got,          \* the session id it read back
  lastSession,  \* _last_search_session_id
  lastShown,    \* _last_shown_ids, by the search they are of
  searches,     \* how many searches began
  during,       \* history: the searches that overlap each thread's search
  printed       \* history: the searches around the last reply with a session id,
                \* while no search began since

construction == <<memory, holder, built, mem>>
attributes == <<lastSession, lastShown>>
sharedVars ==
  <<kind, construction, stage, mine, got, attributes, searches, during, printed>>

SharedInit ==
  /\ kind \in {"local", "remote"}
  /\ memory = 0 /\ holder = NoThread /\ built = 0
  /\ stage = [t \in Threads |-> "idle"] /\ mem = [t \in Threads |-> 0]
  /\ mine = [t \in Threads |-> 0] /\ got = [t \in Threads |-> 0]
  /\ lastSession = 0 /\ lastShown = 0 /\ searches = 0
  /\ during = [t \in Threads |-> {}] /\ printed = NoReply

UnderWay(t) == mine[t] # 0 /\ stage[t] # "done"

-----------------------------------------------------------------------------
\* A tool other than memory_search begins; a remote one touches none of this.
Use(t) ==
  /\ stage[t] = "idle"
  /\ stage' = [stage EXCEPT ![t] = IF kind = "local" THEN "look" ELSE "done"]
  /\ UNCHANGED <<kind, construction, mine, got, attributes, searches, during, printed>>

\* memory_search begins.
Search(t) ==
  /\ stage[t] = "idle" /\ searches < MaxSearches
  /\ searches' = searches + 1
  /\ mine' = [mine EXCEPT ![t] = searches']
  /\ stage' = [stage EXCEPT ![t] = IF kind = "remote" THEN "post" ELSE "sent"]
  /\ during' = [u \in Threads |->
       IF u = t THEN {searches'} \cup {mine[v] : v \in {w \in Threads : UnderWay(w)}}
       ELSE IF UnderWay(u) THEN during[u] \cup {searches'} ELSE during[u]]
  /\ printed' = NoReply
  /\ UNCHANGED <<kind, construction, got, attributes>>

\* _mem: the first look, without the lock.
Look(t) ==
  /\ stage[t] = "look"
  /\ stage' = [stage EXCEPT ![t] = IF memory # 0 THEN "return" ELSE "wait"]
  /\ UNCHANGED <<kind, construction, mine, got, attributes, searches, during, printed>>

Acquire(t) ==
  /\ stage[t] = "wait" /\ holder = NoThread
  /\ holder' = t /\ stage' = [stage EXCEPT ![t] = "locked"]
  /\ UNCHANGED <<kind, memory, built, mem, mine, got, attributes, searches, during, printed>>

\* Mutant of Constructed: the look before the lock is taken to be enough.
MConstructed == FALSE

\* The second look, under the lock.
Constructed == memory # 0

LookAgain(t) ==
  /\ stage[t] = "locked"
  /\ stage' = [stage EXCEPT ![t] = IF Constructed THEN "return" ELSE "build"]
  /\ holder' = IF Constructed THEN NoThread ELSE holder
  /\ UNCHANGED <<kind, memory, built, mem, mine, got, attributes, searches, during, printed>>

\* _get_memory() answers; the lock is left.
Construct(t) ==
  /\ stage[t] = "build"
  /\ built' = built + 1 /\ memory' = built + 1
  /\ holder' = NoThread /\ stage' = [stage EXCEPT ![t] = "return"]
  /\ UNCHANGED <<kind, mem, mine, got, attributes, searches, during, printed>>

\* It raises, the lock is left and nothing kept: the next call tries again.
ConstructFails(t) ==
  /\ stage[t] = "build"
  /\ holder' = NoThread /\ stage' = [stage EXCEPT ![t] = "done"]
  /\ UNCHANGED <<kind, memory, built, mem, mine, got, attributes, searches, during, printed>>

\* _mem answers with the attribute as it then is.
Return(t) ==
  /\ stage[t] = "return"
  /\ mem' = [mem EXCEPT ![t] = memory]
  /\ stage' = [stage EXCEPT ![t] = "done"]
  /\ UNCHANGED <<kind, memory, holder, built, mine, got, attributes, searches, during, printed>>

-----------------------------------------------------------------------------
\* RemoteBackend.search() clears the attribute before its request.
Post(t) ==
  /\ stage[t] = "post"
  /\ lastSession' = 0
  /\ stage' = [stage EXCEPT ![t] = "sent"]
  /\ UNCHANGED <<kind, construction, mine, got, lastShown, searches, during, printed>>

\* Mutant of SessionAfter: rows that come without an id leave the one before.
MSessionAfter(t) == {lastSession, mine[t]}

\* The attribute after the rows: of the service, whose header may be missing, or of
\* the core, numbered by the backend itself.
SessionAfter(t) == IF kind = "remote" THEN {0, mine[t]} ELSE {mine[t]}

Rows(t) ==
  /\ stage[t] = "sent"
  /\ lastSession' \in SessionAfter(t)
  /\ stage' = [stage EXCEPT ![t] = IF kind = "remote" THEN "read" ELSE "note"]
  /\ UNCHANGED <<kind, construction, mine, got, lastShown, searches, during, printed>>

\* The search raises, and so does the tool.
SearchFails(t) ==
  /\ stage[t] = "sent"
  /\ stage' = [stage EXCEPT ![t] = "done"]
  /\ UNCHANGED <<kind, construction, mine, got, attributes, searches, during, printed>>

\* LocalBackend.search(): the second attribute.
Note(t) ==
  /\ stage[t] = "note"
  /\ lastShown' = mine[t]
  /\ stage' = [stage EXCEPT ![t] = "read"]
  /\ UNCHANGED <<kind, construction, mine, got, lastSession, searches, during, printed>>

\* memory_search prints the attribute with its rows.
ShowId(t) ==
  /\ stage[t] = "read"
  /\ got' = [got EXCEPT ![t] = lastSession]
  /\ printed' = IF lastSession = 0 THEN printed ELSE during[t]
  /\ stage' = [stage EXCEPT ![t] = "done"]
  /\ UNCHANGED <<kind, construction, mine, attributes, searches, during>>

\* Without rows, or with citations, it prints no id.
ShowPlain(t) ==
  /\ stage[t] = "read"
  /\ stage' = [stage EXCEPT ![t] = "done"]
  /\ UNCHANGED <<kind, construction, mine, got, attributes, searches, during, printed>>

Finish(t) ==
  /\ stage[t] = "done"
  /\ stage' = [stage EXCEPT ![t] = "idle"] /\ mem' = [mem EXCEPT ![t] = 0]
  /\ mine' = [mine EXCEPT ![t] = 0] /\ got' = [got EXCEPT ![t] = 0]
  /\ during' = [during EXCEPT ![t] = {}]
  /\ UNCHANGED <<kind, memory, holder, built, attributes, searches, printed>>

SharedNext ==
  \E t \in Threads :
    \/ Use(t) \/ Search(t)
    \/ Look(t) \/ Acquire(t) \/ LookAgain(t) \/ Construct(t) \/ ConstructFails(t) \/ Return(t)
    \/ Post(t) \/ Rows(t) \/ SearchFails(t) \/ Note(t) \/ ShowId(t) \/ ShowPlain(t)
    \/ Finish(t)

SharedSpec == SharedInit /\ [][SharedNext]_sharedVars

-----------------------------------------------------------------------------
\* Every variable has its type.
SharedTypeOK ==
  /\ kind \in {"local", "remote"}
  /\ memory \in Nat /\ built \in Nat /\ holder \in Threads \cup {NoThread}
  /\ stage \in [Threads -> {"idle", "look", "wait", "locked", "build", "return", "post",
                            "sent", "note", "read", "done"}]
  /\ mem \in [Threads -> Nat]
  /\ mine \in [Threads -> Nat] /\ got \in [Threads -> Nat]
  /\ lastSession \in Nat /\ lastShown \in Nat /\ searches \in 0 .. MaxSearches
  /\ during \in [Threads -> SUBSET Nat] /\ printed \in (SUBSET Nat) \cup {NoReply}

\* "Initialize once under a lock, caching only successful construction": threads
\* that use the backend together, or after a construction that failed, work on one
\* and the same memory.
OneMemory ==
  built <= 1 /\ \A t \in Threads : mem[t] \in {0, memory}

\* memory_search and submit_feedback(): a reply names its own search or one that
\* ran at the same time, and until another search begins feedback on it is paired
\* with what such a search showed; never with what an earlier one left behind.
OwnOrOverlapping ==
  /\ \A t \in Threads : got[t] # 0 => got[t] \in during[t]
  /\ kind = "local" /\ printed # NoReply => lastShown \in printed
=============================================================================
