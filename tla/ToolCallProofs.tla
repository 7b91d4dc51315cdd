--------------------------- MODULE ToolCallProofs ---------------------------
(***************************************************************************)
(* Proofs about what the tool calls of one stdio process do besides the    *)
(* requests of the remote backend: what overlapping calls share            *)
(* (SharedBackend), for any number of threads and searches; a search of    *)
(* past sessions (TranscriptSearch), for a store of any size and any       *)
(* window; a call on the local backend (LocalCall), over its table of      *)
(* tools; and an indexing of a repository (CodeIndex), of any files.       *)
(***************************************************************************)
EXTENDS RemoteCallProofs, LocalCall, SharedBackend, TranscriptSearch, CodeIndex,
        FiniteSetTheorems, WellFoundedInduction

-----------------------------------------------------------------------------
(* What overlapping calls share.                                            *)
\* The lock is held by whoever is in the locked part, and there is no memory while
\* one is built.
LockOK(t) ==
  /\ stage[t] \in {"locked", "build"} => holder = t
  /\ stage[t] = "build" => memory = 0

\* What was constructed is what is kept, once.
OneOK == built = memory /\ memory \in {0, 1}

MemOK(t) == mem[t] \in {0, memory}

IConstruction ==
  SharedTypeOK /\ OneOK /\ \A t \in Threads : LockOK(t) /\ MemOK(t)

\* Where a search is while it is under way, and what is left of it otherwise.
SearchOK(t) ==
  /\ stage[t] \in {"post", "sent", "note", "read"} => mine[t] # 0
  /\ mine[t] # 0 => stage[t] \in {"post", "sent", "note", "read", "done"}
  /\ got[t] # 0 => stage[t] = "done" /\ got[t] \in during[t]

\* Two searches under way are each in what overlaps the other.
Overlap(t, u) == UnderWay(t) /\ UnderWay(u) => mine[u] \in during[t]

\* After its rows a search finds on the object only what an overlapping one left.
LeftOK(t) ==
  /\ stage[t] \in {"note", "read"} => lastSession \in during[t] \cup {0}
  /\ kind = "local" /\ stage[t] = "read" => lastShown \in during[t]

\* While no search begins, the ones under way are around the last reply.
PrintedOK ==
  kind = "local" /\ printed # NoReply =>
    lastShown \in printed /\ \A u \in Threads : UnderWay(u) => mine[u] \in printed

ISearch ==
  /\ SharedTypeOK /\ PrintedOK
  /\ \A t \in Threads : SearchOK(t) /\ LeftOK(t)
  /\ \A t, u \in Threads : Overlap(t, u)

-----------------------------------------------------------------------------
LEMMA TypesInitially == SharedInit => SharedTypeOK
BY SharedAssumption DEF SharedInit, SharedTypeOK

LEMMA TypesKept == SharedTypeOK /\ [SharedNext]_sharedVars => SharedTypeOK'
<1> SUFFICES ASSUME SharedTypeOK, [SharedNext]_sharedVars PROVE SharedTypeOK'
  OBVIOUS
<1> USE SharedAssumption
<1>1. ASSUME NEW t \in Threads, \/ Use(t) \/ Search(t) \/ Look(t) \/ Acquire(t) \/ LookAgain(t)
                                \/ Construct(t) \/ ConstructFails(t) \/ Return(t) \/ Post(t)
                                \/ Rows(t) \/ SearchFails(t) \/ Note(t) \/ ShowId(t)
                                \/ ShowPlain(t) \/ Finish(t)
      PROVE  SharedTypeOK'
  <2>1. CASE Use(t)
    BY <2>1 DEF SharedTypeOK, Use, construction, attributes
  <2>2. CASE Search(t)
    BY <2>2 DEF SharedTypeOK, Search, UnderWay, construction, attributes
  <2>3. CASE Look(t)
    BY <2>3 DEF SharedTypeOK, Look, construction, attributes
  <2>4. CASE Acquire(t)
    BY <2>4 DEF SharedTypeOK, Acquire, construction, attributes
  <2>5. CASE LookAgain(t)
    BY <2>5 DEF SharedTypeOK, LookAgain, Constructed, construction, attributes
  <2>6. CASE Construct(t)
    BY <2>6 DEF SharedTypeOK, Construct, construction, attributes
  <2>7. CASE ConstructFails(t)
    BY <2>7 DEF SharedTypeOK, ConstructFails, construction, attributes
  <2>8. CASE Return(t)
    BY <2>8 DEF SharedTypeOK, Return, construction, attributes
  <2>9. CASE Post(t)
    BY <2>9 DEF SharedTypeOK, Post, construction, attributes
  <2>10. CASE Rows(t)
    BY <2>10 DEF SharedTypeOK, Rows, SessionAfter, construction, attributes
  <2>11. CASE SearchFails(t)
    BY <2>11 DEF SharedTypeOK, SearchFails, construction, attributes
  <2>12. CASE Note(t)
    BY <2>12 DEF SharedTypeOK, Note, construction, attributes
  <2>13. CASE ShowId(t)
    BY <2>13 DEF SharedTypeOK, ShowId, construction, attributes
  <2>14. CASE ShowPlain(t)
    BY <2>14 DEF SharedTypeOK, ShowPlain, construction, attributes
  <2>15. CASE Finish(t)
    BY <2>15 DEF SharedTypeOK, Finish, construction, attributes
  <2> QED
    BY <1>1, <2>1, <2>2, <2>3, <2>4, <2>5, <2>6, <2>7, <2>8, <2>9, <2>10, <2>11, <2>12,
       <2>13, <2>14, <2>15
<1>2. CASE UNCHANGED sharedVars
  BY <1>2 DEF SharedTypeOK, sharedVars, construction, attributes
<1> QED
  BY <1>1, <1>2 DEF SharedNext

\* Every variable of the shared backend always has its type.
THEOREM SharedTypeCorrect == SharedSpec => []SharedTypeOK
BY TypesInitially, TypesKept, PTL DEF SharedSpec

-----------------------------------------------------------------------------
LEMMA ConstructionInitially == SharedInit => IConstruction
BY TypesInitially, SharedAssumption DEF SharedInit, IConstruction, OneOK, LockOK, MemOK

LEMMA ConstructionKept == IConstruction /\ [SharedNext]_sharedVars => IConstruction'
<1> SUFFICES ASSUME IConstruction, [SharedNext]_sharedVars PROVE IConstruction'
  OBVIOUS
<1> USE SharedAssumption
<1> SharedTypeOK'
  BY TypesKept DEF IConstruction
<1>1. ASSUME NEW t \in Threads, \/ Use(t) \/ Search(t) \/ Look(t) \/ Acquire(t) \/ LookAgain(t)
                                \/ Construct(t) \/ ConstructFails(t) \/ Return(t) \/ Post(t)
                                \/ Rows(t) \/ SearchFails(t) \/ Note(t) \/ ShowId(t)
                                \/ ShowPlain(t) \/ Finish(t)
      PROVE  IConstruction'
  <2>1. CASE Use(t)
    BY <2>1 DEF IConstruction, SharedTypeOK, OneOK, LockOK, MemOK, Use, construction, attributes
  <2>2. CASE Search(t)
    BY <2>2 DEF IConstruction, SharedTypeOK, OneOK, LockOK, MemOK, Search, UnderWay, construction, attributes
  <2>3. CASE Look(t)
    BY <2>3 DEF IConstruction, SharedTypeOK, OneOK, LockOK, MemOK, Look, construction, attributes
  <2>4. CASE Acquire(t)
    BY <2>4 DEF IConstruction, SharedTypeOK, OneOK, LockOK, MemOK, Acquire, construction, attributes
  <2>5. CASE LookAgain(t)
    BY <2>5 DEF IConstruction, SharedTypeOK, OneOK, LockOK, MemOK, LookAgain, Constructed, construction, attributes
  <2>6. CASE Construct(t)
    BY <2>6 DEF IConstruction, SharedTypeOK, OneOK, LockOK, MemOK, Construct, construction, attributes
  <2>7. CASE ConstructFails(t)
    BY <2>7 DEF IConstruction, SharedTypeOK, OneOK, LockOK, MemOK, ConstructFails, construction, attributes
  <2>8. CASE Return(t)
    BY <2>8 DEF IConstruction, SharedTypeOK, OneOK, LockOK, MemOK, Return, construction, attributes
  <2>9. CASE Post(t)
    BY <2>9 DEF IConstruction, SharedTypeOK, OneOK, LockOK, MemOK, Post, construction, attributes
  <2>10. CASE Rows(t)
    BY <2>10 DEF IConstruction, SharedTypeOK, OneOK, LockOK, MemOK, Rows, SessionAfter, construction, attributes
  <2>11. CASE SearchFails(t)
    BY <2>11 DEF IConstruction, SharedTypeOK, OneOK, LockOK, MemOK, SearchFails, construction, attributes
  <2>12. CASE Note(t)
    BY <2>12 DEF IConstruction, SharedTypeOK, OneOK, LockOK, MemOK, Note, construction, attributes
  <2>13. CASE ShowId(t)
    BY <2>13 DEF IConstruction, SharedTypeOK, OneOK, LockOK, MemOK, ShowId, construction, attributes
  <2>14. CASE ShowPlain(t)
    BY <2>14 DEF IConstruction, SharedTypeOK, OneOK, LockOK, MemOK, ShowPlain, construction, attributes
  <2>15. CASE Finish(t)
    BY <2>15 DEF IConstruction, SharedTypeOK, OneOK, LockOK, MemOK, Finish, construction, attributes
  <2> QED
    BY <1>1, <2>1, <2>2, <2>3, <2>4, <2>5, <2>6, <2>7, <2>8, <2>9, <2>10, <2>11, <2>12,
       <2>13, <2>14, <2>15
<1>2. CASE UNCHANGED sharedVars
  BY <1>2 DEF IConstruction, SharedTypeOK, OneOK, LockOK, MemOK, sharedVars, construction, attributes
<1> QED
  BY <1>1, <1>2 DEF SharedNext

\* local.py, _mem: whatever threads use the backend at the same time, and however
\* often a construction fails, one memory is constructed and all work on it.
THEOREM OneMemoryForAll == SharedSpec => []OneMemory
<1>1. IConstruction => OneMemory
  BY DEF IConstruction, OneOK, MemOK, OneMemory, SharedTypeOK
<1> QED
  BY <1>1, ConstructionInitially, ConstructionKept, PTL DEF SharedSpec

-----------------------------------------------------------------------------
LEMMA SearchesInitially == SharedInit => ISearch
BY TypesInitially, SharedAssumption
   DEF SharedInit, ISearch, PrintedOK, SearchOK, LeftOK, Overlap, UnderWay

LEMMA SearchesKept == ISearch /\ [SharedNext]_sharedVars => ISearch'
<1> SUFFICES ASSUME ISearch, [SharedNext]_sharedVars PROVE ISearch'
  OBVIOUS
<1> USE SharedAssumption
<1> SharedTypeOK'
  BY TypesKept DEF ISearch
<1>1. ASSUME NEW t \in Threads, \/ Use(t) \/ Search(t) \/ Look(t) \/ Acquire(t) \/ LookAgain(t)
                                \/ Construct(t) \/ ConstructFails(t) \/ Return(t) \/ Post(t)
                                \/ Rows(t) \/ SearchFails(t) \/ Note(t) \/ ShowId(t)
                                \/ ShowPlain(t) \/ Finish(t)
      PROVE  ISearch'
  <2>1. CASE Use(t)
    BY <2>1 DEF ISearch, SharedTypeOK, PrintedOK, SearchOK, LeftOK, Overlap, UnderWay, Use, construction, attributes
  <2>2. CASE Search(t)
    BY <2>2 DEF ISearch, SharedTypeOK, PrintedOK, SearchOK, LeftOK, Overlap, UnderWay, Search, construction, attributes
  <2>3. CASE Look(t)
    BY <2>3 DEF ISearch, SharedTypeOK, PrintedOK, SearchOK, LeftOK, Overlap, UnderWay, Look, construction, attributes
  <2>4. CASE Acquire(t)
    BY <2>4 DEF ISearch, SharedTypeOK, PrintedOK, SearchOK, LeftOK, Overlap, UnderWay, Acquire, construction, attributes
  <2>5. CASE LookAgain(t)
    BY <2>5 DEF ISearch, SharedTypeOK, PrintedOK, SearchOK, LeftOK, Overlap, UnderWay, LookAgain, Constructed, construction, attributes
  <2>6. CASE Construct(t)
    BY <2>6 DEF ISearch, SharedTypeOK, PrintedOK, SearchOK, LeftOK, Overlap, UnderWay, Construct, construction, attributes
  <2>7. CASE ConstructFails(t)
    BY <2>7 DEF ISearch, SharedTypeOK, PrintedOK, SearchOK, LeftOK, Overlap, UnderWay, ConstructFails, construction, attributes
  <2>8. CASE Return(t)
    BY <2>8 DEF ISearch, SharedTypeOK, PrintedOK, SearchOK, LeftOK, Overlap, UnderWay, Return, construction, attributes
  <2>9. CASE Post(t)
    BY <2>9 DEF ISearch, SharedTypeOK, PrintedOK, SearchOK, LeftOK, Overlap, UnderWay, Post, construction, attributes
  <2>10. CASE Rows(t)
    BY <2>10 DEF ISearch, SharedTypeOK, PrintedOK, SearchOK, LeftOK, Overlap, UnderWay, Rows, SessionAfter, construction, attributes
  <2>11. CASE SearchFails(t)
    BY <2>11 DEF ISearch, SharedTypeOK, PrintedOK, SearchOK, LeftOK, Overlap, UnderWay, SearchFails, construction, attributes
  <2>12. CASE Note(t)
    BY <2>12 DEF ISearch, SharedTypeOK, PrintedOK, SearchOK, LeftOK, Overlap, UnderWay, Note, construction, attributes
  <2>13. CASE ShowId(t)
    BY <2>13 DEF ISearch, SharedTypeOK, PrintedOK, SearchOK, LeftOK, Overlap, UnderWay, ShowId, construction, attributes
  <2>14. CASE ShowPlain(t)
    BY <2>14 DEF ISearch, SharedTypeOK, PrintedOK, SearchOK, LeftOK, Overlap, UnderWay, ShowPlain, construction, attributes
  <2>15. CASE Finish(t)
    BY <2>15 DEF ISearch, SharedTypeOK, PrintedOK, SearchOK, LeftOK, Overlap, UnderWay, Finish, construction, attributes
  <2> QED
    BY <1>1, <2>1, <2>2, <2>3, <2>4, <2>5, <2>6, <2>7, <2>8, <2>9, <2>10, <2>11, <2>12,
       <2>13, <2>14, <2>15
<1>2. CASE UNCHANGED sharedVars
  BY <1>2 DEF ISearch, SharedTypeOK, PrintedOK, SearchOK, LeftOK, Overlap, UnderWay, sharedVars,
              construction, attributes
<1> QED
  BY <1>1, <1>2 DEF SharedNext

\* memory_search and submit_feedback(): a reply names its own search or one that
\* ran at the same time, and feedback on it is paired with what such a one showed.
THEOREM RepliesOwnOrOverlapping == SharedSpec => []OwnOrOverlapping
<1>1. ISearch => OwnOrOverlapping
  BY DEF ISearch, SearchOK, PrintedOK, OwnOrOverlapping
<1> QED
  BY <1>1, SearchesInitially, SearchesKept, PTL DEF SharedSpec
-----------------------------------------------------------------------------
(* A search of past sessions.                                               *)

StoreOK == ranking = NoStore \/ ranking \in Seq(Ran)

\* What the steps of a search have established: the call is one that was asked, the store
\* is there and its width does not differ, and the matches are the best of what it held.
SearchSteps ==
  /\ searchAt \in {"idle", "probe", "search", "filter", "told"}
  /\ searchAt # "idle" => top \in 1 .. MaxTopK /\ byProject \in BOOLEAN
  /\ searchAt \in {"probe", "search", "filter"} => ranking # NoStore
  /\ searchAt \in {"search", "filter"} => fit # "differs"
  /\ searchAt = "filter" =>
       /\ searched \in Seq(Ran) /\ matches \in Seq(Ran)
       /\ \/ matches = SubSeq(searched, 1, Least(Fetch, Len(searched)))
          \/ fit = "unreadable" /\ matches = <<>>

ITranscript ==
  /\ StoreOK /\ SearchSteps /\ AbsenceIsTold
  /\ fit \in {"same", "differs", "unreadable"}

LEMMA FetchOK == ASSUME top \in 1 .. MaxTopK, byProject \in BOOLEAN PROVE Fetch \in Nat \ {0}
<1> USE TranscriptAssumption
<1>1. top \in Nat \ {0} /\ top * Overfetch \in Nat \ {0}
  OBVIOUS
<1> QED
  BY <1>1 DEF Fetch, Least

\* The best of a store is a part of it, and all of it where it is no longer than that.
LEMMA BestOK ==
  ASSUME NEW s \in Seq(Ran), NEW n \in Nat \ {0}
  PROVE  LET best == SubSeq(s, 1, Least(n, Len(s))) IN
         /\ best \in Seq(Ran)
         /\ best = <<>> => s = <<>>
         /\ Len(s) <= n => best = s
<1> DEFINE k == Least(n, Len(s))
<1>1. k \in 0 .. Len(s) /\ (Len(s) <= n => k = Len(s)) /\ (k = 0 => Len(s) = 0)
  BY DEF Least
<1> HIDE DEF k
<1>2. SubSeq(s, 1, k) \in Seq(Ran) /\ Len(SubSeq(s, 1, k)) = k
  BY <1>1
<1>3. k = Len(s) => SubSeq(s, 1, k) = s
  BY <1>2, SeqEqual
<1>4. Len(s) = 0 => s = <<>>
  OBVIOUS
<1>5. SubSeq(s, 1, k) = <<>> => k = 0
  BY <1>2
<1> QED
  BY <1>1, <1>2, <1>3, <1>4, <1>5 DEF k

LEMMA TranscriptInitially == TranscriptInit => ITranscript
<1> SUFFICES ASSUME TranscriptInit PROVE ITranscript
  OBVIOUS
<1>1. <<>> \in Seq(Ran)
  OBVIOUS
<1>2. ranking \in {NoStore, <<>>} /\ searchAt = "idle" /\ fit \in {"same", "differs", "unreadable"}
  BY DEF TranscriptInit
<1> QED
  BY <1>1, <1>2 DEF ITranscript, StoreOK, SearchSteps, AbsenceIsTold

\* The reply of a search follows from what its store held then.
LEMMA NarrowStep ==
  ASSUME ITranscript, Narrow
  PROVE  ITranscript'
<1>1. /\ searchAt = "filter" /\ searchAt' = "told"
      /\ UNCHANGED <<ranking, fit, top, byProject, matches, searched>>
  BY DEF Narrow
<1>2. /\ top \in 1 .. MaxTopK /\ byProject \in BOOLEAN /\ fit # "differs"
      /\ searched \in Seq(Ran) /\ matches \in Seq(Ran)
  BY <1>1 DEF ITranscript, SearchSteps
<1>3. top \in Nat /\ Fetch \in Nat \ {0}
  BY <1>2, FetchOK, TranscriptAssumption
<1> DEFINE kept == InProject(matches)
           placed == InProject(searched)
<1>4. Len(kept) \in Nat /\ Len(placed) \in Nat
  BY <1>2 DEF InProject
<1>5. fit = "same" => matches = SubSeq(searched, 1, Least(Fetch, Len(searched)))
  BY <1>1 DEF ITranscript, SearchSteps
<1>6. fit = "same" => (matches = <<>> => searched = <<>>)
  BY <1>2, <1>3, <1>5, BestOK
<1>7. fit = "same" /\ Len(searched) <= Fetch => kept = placed
  BY <1>2, <1>3, <1>5, BestOK
<1>8. Len(searched) \in Nat
  BY <1>2
<1>9. Fetch' = Fetch
  BY <1>1 DEF Fetch
<1>10. CASE byProject
  <2>1. /\ says'.kind = (IF kept = <<>> THEN "nothing" ELSE "hits")
        /\ says'.shown = Least(Len(kept), top)
        /\ says'.unrecorded = Unrecorded(matches) /\ says'.windowed = Windowed(kept)
    BY <1>10 DEF Narrow
  <2>2. fit = "same" /\ Len(placed) > says'.shown =>
          says'.windowed \/ (Len(searched) > Fetch /\ says'.shown < top)
    <3> HIDE DEF kept, placed
    <3>1. Len(kept) >= top => says'.windowed
      BY <2>1 DEF Windowed
    <3>2. says'.shown = IF Len(kept) < top THEN Len(kept) ELSE top
      BY <2>1 DEF Least
    <3>3. fit = "same" /\ Len(searched) <= Fetch => Len(kept) = Len(placed)
      BY <1>7
    <3>4. fit = "same" /\ Len(placed) > says'.shown /\ Len(kept) < top => Len(searched) > Fetch
      BY <3>2, <3>3, <1>3, <1>4, <1>8
    <3>5. Len(kept) < top => says'.shown < top
      BY <3>2, <1>3, <1>4
    <3> QED
      BY <3>1, <3>4, <3>5, <1>3, <1>4
  <2>3. AbsenceIsTold'
    BY <1>1, <1>2, <1>9, <1>10, <2>1, <2>2 DEF AbsenceIsTold
  <2> QED
    BY <1>1, <1>2, <2>3 DEF ITranscript, StoreOK, SearchSteps
<1>11. CASE ~byProject
  <2>1. says'.kind = (IF matches = <<>> THEN "nothing" ELSE "hits")
    BY <1>11 DEF Narrow
  <2>2. AbsenceIsTold'
    BY <1>1, <1>2, <1>6, <1>11, <2>1 DEF AbsenceIsTold
  <2> QED
    BY <1>1, <1>2, <2>2 DEF ITranscript, StoreOK, SearchSteps
<1> QED
  BY <1>2, <1>10, <1>11

LEMMA SearchStoreStep ==
  ASSUME ITranscript, SearchStore
  PROVE  ITranscript'
<1>1. /\ searchAt = "search" /\ searchAt' = "filter" /\ searched' = ranking
      /\ UNCHANGED <<ranking, fit, top, byProject, says>>
  BY DEF SearchStore
<1>2. top \in 1 .. MaxTopK /\ byProject \in BOOLEAN /\ ranking \in Seq(Ran)
  BY <1>1 DEF ITranscript, SearchSteps, StoreOK
<1>3. Fetch \in Nat \ {0} /\ Fetch' = Fetch
  BY <1>1, <1>2, FetchOK DEF Fetch
<1>4. matches' = SubSeq(ranking, 1, Least(Fetch, Len(ranking))) \/ (fit = "unreadable" /\ matches' = <<>>)
  BY <1>1 DEF SearchStore, ITranscript, SearchSteps
<1>5. matches' \in Seq(Ran)
  <2>1. SubSeq(ranking, 1, Least(Fetch, Len(ranking))) \in Seq(Ran)
    BY <1>2, <1>3, BestOK
  <2>2. <<>> \in Seq(Ran)
    OBVIOUS
  <2> QED
    BY <1>4, <2>1, <2>2
<1> QED
  BY <1>1, <1>2, <1>3, <1>4, <1>5 DEF ITranscript, SearchSteps, StoreOK, AbsenceIsTold

LEMMA ImportStep ==
  ASSUME ITranscript, Import
  PROVE  ITranscript'
<1>1. /\ UNCHANGED <<fit, searchAt, top, byProject, matches, searched, says>>
      /\ Fetch' = Fetch
  BY DEF Import, Fetch
<1>2. ranking' \in Seq(Ran)
  <2>1. CASE ranking = NoStore
    BY <2>1 DEF Import
  <2>2. CASE ranking # NoStore
    <3>1. ranking \in Seq(Ran)
      BY <2>2 DEF ITranscript, StoreOK
    <3>2. PICK s \in Ran, i \in 0 .. Len(ranking) :
            ranking' = SubSeq(ranking, 1, i) \o <<s>> \o SubSeq(ranking, i + 1, Len(ranking))
      BY <2>2 DEF Import
    <3> QED
      BY <3>1, <3>2
  <2> QED
    BY <2>1, <2>2
<1>3. ranking' # NoStore
  BY <1>2, TranscriptAssumption
<1>4. AbsenceIsTold'
  BY <1>1 DEF ITranscript, AbsenceIsTold
<1> QED
  BY <1>1, <1>2, <1>3, <1>4 DEF ITranscript, StoreOK, SearchSteps

LEMMA TranscriptKept == ITranscript /\ [TranscriptNext]_searchVars => ITranscript'
<1> SUFFICES ASSUME ITranscript, [TranscriptNext]_searchVars PROVE ITranscript'
  OBVIOUS
<1>1. ASSUME NEW k \in 1 .. MaxTopK, NEW p \in BOOLEAN, NEW usable \in BOOLEAN,
             AskTranscripts(k, p, usable)
      PROVE  ITranscript'
  BY <1>1 DEF AskTranscripts, Says, ITranscript, StoreOK, SearchSteps, AbsenceIsTold
<1>2. CASE Probe
  BY <1>2 DEF Probe, Says, ITranscript, StoreOK, SearchSteps, AbsenceIsTold
<1>3. CASE StoreFails
  BY <1>3 DEF StoreFails, Says, ITranscript, StoreOK, SearchSteps, AbsenceIsTold
<1>4. CASE EndSearch
  BY <1>4 DEF EndSearch, Says, ITranscript, StoreOK, SearchSteps, AbsenceIsTold
<1>5. CASE UNCHANGED searchVars
  <2>1. Fetch' = Fetch
    BY <1>5 DEF searchVars, Fetch
  <2> QED
    BY <1>5, <2>1 DEF searchVars, ITranscript, StoreOK, SearchSteps, AbsenceIsTold
<1> QED
  BY <1>1, <1>2, <1>3, <1>4, <1>5, NarrowStep, SearchStoreStep, ImportStep DEF TranscriptNext

\* transcript_search(): for every window and size of the store, and however an import
\* fills it during the search, "no results" is told only of a store whose embeddings the
\* query can match, and a session of the project is left out only where the window says so.
THEOREM AbsenceIsNeverMistaken == TranscriptSpec => []AbsenceIsTold
<1>1. ITranscript => AbsenceIsTold
  BY DEF ITranscript
<1> QED
  BY <1>1, TranscriptInitially, TranscriptKept, PTL DEF TranscriptSpec
-----------------------------------------------------------------------------
(* A call on the local backend: its methods, compared with those of the      *)
(* remote one, and the replies of its tools.                                 *)

\* Where the core answers o, a method of the local backend hands over what the remote
\* one does for an answer of the service that it may give.
Corresponds(m, k) ==
  \A o \in AnswersOf(m) :
    /\ AsRemote(k, o) \in Faults \cup BodiesOf(k)
    /\ LocalValue(m, o) = Value(k, Request(k, AsRemote(k, o)))

LEMMA RequestsToo ==
  /\ \A m : Request(m, "rows") = "rows" /\ Request(m, "norows") = "norows"
            /\ Request(m, "odd") = "odd"
  /\ \A m : Request(m, "404") = "error_404" /\ Request(m, "refused") = "error"
BY DEF Request, Faults, Lost, Unsent, Refusals

\* Methods that answer in one way.
Plainly == {"add", "ingest", "ingest_conversation_sync", "ask", "recall_pack", "read_around",
            "clear_user_memories", "stats", "ingest_document", "decision_create",
            "decision_create_pending"}

LEMMA PlainlyOK == \A m \in Plainly : Corresponds(m, m)
<1> SUFFICES ASSUME NEW m \in Plainly PROVE Corresponds(m, m)
  OBVIOUS
<1>1. AnswersOf(m) = {"rows"}
  BY DEF Plainly, AnswersOf
<1>2. LocalValue(m, "rows") = "value"
  BY DEF Plainly, LocalValue, CoreFaults, Decisions, Crud, Deciding, HandsOn
<1>3. AsRemote(m, "rows") = "rows" /\ "rows" \in BodiesOf(m)
  BY DEF Plainly, AsRemote, BodiesOf
<1>4. Value(m, "rows") = "value"
  BY DEF Plainly, Value, LocalOnly, add, ingest, ingest_conversation_sync, ask, recall_pack,
         read_around, clear_user_memories, stats, ingest_document, decision_create,
         decision_create_pending, DecisionRequest, Told, Errors
<1> QED
  BY <1>1, <1>2, <1>3, <1>4, RequestsToo DEF Corresponds

\* Methods that list.
Listing == {"search", "search_by_metadata", "list_memories", "decision_list", "decision_search"}

LEMMA ListingOK == \A m \in Listing : Corresponds(m, m)
<1> SUFFICES ASSUME NEW m \in Listing PROVE Corresponds(m, m)
  OBVIOUS
<1>1. AnswersOf(m) = {"rows", "norows"}
  BY DEF Listing, AnswersOf
<1>2. LocalValue(m, "rows") = "value" /\ LocalValue(m, "norows") = "empty"
  BY DEF Listing, LocalValue, CoreFaults, Decisions, Searching, Deciding
<1>3. /\ AsRemote(m, "rows") = "rows" /\ AsRemote(m, "norows") = "norows"
      /\ {"rows", "norows"} \subseteq BodiesOf(m)
  BY DEF Listing, AsRemote, BodiesOf
<1>4. Value(m, "rows") = "value" /\ Value(m, "norows") = "empty"
  BY DEF Listing, Value, LocalOnly, search, search_by_metadata, list_memories, decision_list,
         decision_search, DecisionRequest, Errors
<1> QED
  BY <1>1, <1>2, <1>3, <1>4, RequestsToo DEF Corresponds

\* Methods that address one item, which may not be there.
Addressing == {"get", "explain", "delete", "decision_get", "decision_retract",
               "decision_supersede", "decision_reinforce", "decision_contradict",
               "decision_provenance"}

LEMMA AddressingOK == \A m \in Addressing : Corresponds(m, m)
<1> SUFFICES ASSUME NEW m \in Addressing PROVE Corresponds(m, m)
  OBVIOUS
<1>1. AnswersOf(m) = {"rows", "missing"}
  BY DEF Addressing, AnswersOf
<1>2. /\ LocalValue(m, "rows") = "value"
      /\ LocalValue(m, "missing") = IF m = "delete" THEN "false" ELSE "nothing"
  BY DEF Addressing, LocalValue, CoreFaults, Decisions, Crud, Deciding
<1>3. /\ AsRemote(m, "rows") = "rows" /\ AsRemote(m, "missing") = "404"
      /\ "rows" \in BodiesOf(m) /\ "404" \in Faults
  BY DEF Addressing, AsRemote, BodiesOf, Faults, Refusals
<1>4. /\ Value(m, "rows") = "value"
      /\ Value(m, "error_404") = IF m = "delete" THEN "false" ELSE "nothing"
  BY DEF Addressing, Value, LocalOnly, get, explain, delete, decision_get, decision_retract,
         decision_supersede, decision_reinforce, decision_contradict, decision_provenance,
         DecisionRequest, Errors
<1> QED
  BY <1>1, <1>2, <1>3, <1>4, RequestsToo DEF Corresponds

\* A search for conflicts finds none, or not the decision.
LEMMA ConflictsOK == Corresponds("decision_find_conflicts", "decision_find_conflicts")
<1> DEFINE m == "decision_find_conflicts"
<1>1. AnswersOf(m) = {"rows", "norows", "missing"}
  BY DEF AnswersOf
<1>2. /\ LocalValue(m, "rows") = "value" /\ LocalValue(m, "norows") = "empty"
      /\ LocalValue(m, "missing") = "nothing"
  BY DEF LocalValue, CoreFaults, Decisions, Deciding
<1>3. /\ AsRemote(m, "rows") = "rows" /\ AsRemote(m, "norows") = "norows"
      /\ AsRemote(m, "missing") = "404"
      /\ {"rows", "norows"} \subseteq BodiesOf(m) /\ "404" \in Faults
  BY DEF AsRemote, BodiesOf, Faults, Refusals
<1>4. /\ Value(m, "rows") = "value" /\ Value(m, "norows") = "empty"
      /\ Value(m, "error_404") = "nothing"
  BY DEF Value, LocalOnly, decision_find_conflicts, DecisionRequest, Errors
<1> QED
  BY <1>1, <1>2, <1>3, <1>4, RequestsToo DEF Corresponds

\* A memory that is not there, or may not be superseded.
LEMMA SupersedeOK == Corresponds("supersede", "supersede")
<1> DEFINE m == "supersede"
<1>1. AnswersOf(m) = {"rows", "missing", "refused"}
  BY DEF AnswersOf
<1>2. /\ LocalValue(m, "rows") = "value" /\ LocalValue(m, "missing") = "raised"
      /\ LocalValue(m, "refused") = "raised"
  BY DEF LocalValue, CoreFaults, Decisions, Crud
<1>3. /\ AsRemote(m, "rows") = "rows" /\ AsRemote(m, "missing") = "404"
      /\ AsRemote(m, "refused") = "refused"
      /\ "rows" \in BodiesOf(m) /\ {"404", "refused"} \subseteq Faults
  BY DEF AsRemote, BodiesOf, Faults, Refusals, Decisions
<1>4. /\ Value(m, "rows") = "value" /\ Value(m, "error_404") = "raised"
      /\ Value(m, "error") = "raised"
  BY DEF Value, LocalOnly, supersede, Raise, Errors
<1> QED
  BY <1>1, <1>2, <1>3, <1>4, RequestsToo DEF Corresponds

\* Methods that may find their condition unmet.
Conditional == {"decision_resolve_requirement", "decision_try_activate"}

LEMMA ConditionalOK == \A m \in Conditional : Corresponds(m, m)
<1> SUFFICES ASSUME NEW m \in Conditional PROVE Corresponds(m, m)
  OBVIOUS
<1>1. AnswersOf(m) = {"rows", "refused"}
  BY DEF Conditional, AnswersOf
<1>2. LocalValue(m, "rows") = "value" /\ LocalValue(m, "refused") = "false"
  BY DEF Conditional, LocalValue, CoreFaults, Activating
<1>3. /\ AsRemote(m, "rows") = "rows" /\ AsRemote(m, "refused") = "norows"
      /\ {"rows", "norows"} \subseteq BodiesOf(m)
  BY DEF Conditional, AsRemote, BodiesOf, Decisions
<1>4. Value(m, "rows") = "value" /\ Value(m, "norows") = "false"
  BY DEF Conditional, Value, LocalOnly, decision_resolve_requirement, decision_try_activate,
         DecisionRequest, Errors
<1> QED
  BY <1>1, <1>2, <1>3, <1>4, RequestsToo DEF Corresponds

\* The code index: what it replaces, and what the tools ask of it.
LEMMA IngestCodeOK == Corresponds("ingest_code", "ingest_code")
<1> DEFINE m == "ingest_code"
<1>1. AnswersOf(m) = {"rows", "refused"}
  BY DEF AnswersOf
<1>2. LocalValue(m, "rows") = "value" /\ LocalValue(m, "refused") = "error"
  BY DEF LocalValue, CoreFaults, Decisions, Coding
<1>3. /\ AsRemote(m, "rows") = "rows" /\ AsRemote(m, "refused") = "odd"
      /\ {"rows", "odd"} \subseteq BodiesOf(m)
  BY DEF AsRemote, BodiesOf, Decisions
<1>4. Value(m, "rows") = "value" /\ Value(m, "odd") = "error"
  BY DEF Value, LocalOnly, ingest_code
<1> QED
  BY <1>1, <1>2, <1>3, <1>4, RequestsToo DEF Corresponds

LEMMA CodeRowsOK == \A m \in {"search", "code_dead_code"} : Corresponds(m, "request_rows")
<1> SUFFICES ASSUME NEW m \in {"search", "code_dead_code"} PROVE Corresponds(m, "request_rows")
  OBVIOUS
<1>1. AnswersOf(m) = {"rows", "norows"}
  BY DEF AnswersOf
<1>2. LocalValue(m, "rows") = "value" /\ LocalValue(m, "norows") = "empty"
  BY DEF LocalValue, CoreFaults, Decisions, Searching, Coding
<1>3. /\ AsRemote("request_rows", "rows") = "rows" /\ AsRemote("request_rows", "norows") = "norows"
      /\ {"rows", "norows"} \subseteq BodiesOf("request_rows")
  BY DEF AsRemote, BodiesOf
<1>4. Value("request_rows", "rows") = "value" /\ Value("request_rows", "norows") = "empty"
  BY DEF Value, LocalOnly, request, Errors
<1> QED
  BY <1>1, <1>2, <1>3, <1>4, RequestsToo DEF Corresponds

LEMMA CodeReadOK == Corresponds("code_dependencies", "request_read")
<1> DEFINE m == "code_dependencies"
<1>1. AnswersOf(m) = {"rows", "missing"}
  BY DEF AnswersOf
<1>2. LocalValue(m, "rows") = "value" /\ LocalValue(m, "missing") = "error"
  BY DEF LocalValue, CoreFaults, Decisions, Coding
<1>3. /\ AsRemote("request_read", "rows") = "rows" /\ AsRemote("request_read", "missing") = "404"
      /\ "rows" \in BodiesOf("request_read") /\ "404" \in Faults
  BY DEF AsRemote, BodiesOf, Faults, Refusals
<1>4. Value("request_read", "rows") = "value" /\ Value("request_read", "error_404") = "error"
  BY DEF Value, LocalOnly, request, Errors
<1> QED
  BY <1>1, <1>2, <1>3, <1>4, RequestsToo DEF Corresponds
\* The tools that both backends serve, with the request that each makes on either.
OneMethod == Plainly \cup Listing \cup Addressing \cup Conditional
                \cup {"decision_find_conflicts", "supersede", "ingest_code"}
CodeViews == {"code_search", "code_dead_code", "code_dependencies"}

LEMMA OneMethodOK == \A m \in OneMethod : Corresponds(m, m)
BY PlainlyOK, ListingOK, AddressingOK, ConditionalOK, ConflictsOK, SupersedeOK, IngestCodeOK
   DEF OneMethod

LEMMA LocalAsksDomain ==
  DOMAIN LocalAsks =
    {"memory_recall", "code_search", "code_dead_code", "code_dependencies",
     "memory_resolve_aliases", "agent_set_recall_profile", "agent_get_recall_profile",
     "code_blame", "code_read_transcript", "peer_chat", "insight_personalize",
     "insight_feedback", "insight_health", "insight_maintenance_status",
     "evolution_synthesize_opinions", "evolution_synthesize_observations",
     "evolution_reinforce_opinions", "reasoning_challenge", "reasoning_resolve_conflict",
     "reasoning_proof_tree", "reasoning_query", "reasoning_fuzzy_confidence",
     "memory_plan_get", "memory_plan_update_task", "memory_check_failure", "pattern_get",
     "memory_anchor_set", "memory_anchor_clear", "memory_anchor_graduate"}
BY DEF LocalAsks

LEMMA TwinRequests ==
  ASSUME NEW t \in Twins
  PROVE  \/ Asks[t] \in OneMethod /\ LocalRequests(t) = <<Asks[t]>>
         \/ /\ t \in {"code_search", "code_dead_code"} /\ Asks[t] = "request_rows"
            /\ LocalRequests(t) \in {<<"search">>, <<"code_dead_code">>}
         \/ /\ t = "code_dependencies" /\ Asks[t] = "request_read"
            /\ LocalRequests(t) = <<"code_dependencies">>
<1>1. /\ LocalAsks["code_search"] = <<"search">>
      /\ LocalAsks["code_dead_code"] = <<"code_dead_code">>
      /\ LocalAsks["code_dependencies"] = <<"code_dependencies">>
      /\ LocalAsks["agent_set_recall_profile"] = <<"no_route">>
      /\ LocalAsks["agent_get_recall_profile"] = <<"no_route">>
  BY DEF LocalAsks
<1>2. /\ Asks["code_search"] = "request_rows" /\ Asks["code_dead_code"] = "request_rows"
      /\ Asks["code_dependencies"] = "request_read"
  BY DEF Asks
<1>3. /\ t \in DOMAIN Asks \ {"memory_update", "memory_recall", "memory_feedback"}
      /\ t \notin Broken \cup LocalServed /\ LocalRequests(t) # <<"no_route">>
  BY DEF Twins
<1>4. t \in DOMAIN LocalAsks => t \in CodeViews
  BY <1>1, <1>3, LocalAsksDomain
     DEF CodeViews, LocalRequests, LocalServed, EvolutionTools, InsightViews, InsightWrites,
         ReasoningTools, PlanTools, AnchorTools, PatternTools, ProvenanceTools, AliasTools
<1>5. CASE t \in CodeViews
  BY <1>1, <1>2, <1>5, LocalAsksDomain DEF CodeViews, LocalRequests
<1>6. CASE t \notin CodeViews
  <2>1. LocalRequests(t) = <<Asks[t]>>
    <3>1. t \notin DOMAIN Then
      BY <1>3, RequestsOf DEF Broken, LocalServed, InsightWrites
    <3> QED
      BY <1>4, <1>6, <3>1, RequestsOf DEF LocalRequests
  <2>2. Asks[t] \in OneMethod
    BY <1>3, <1>4, <1>6, LocalAsksDomain
       DEF Asks, CodeViews, OneMethod, Plainly, Listing, Addressing, Conditional, Broken,
           LocalServed, EvolutionTools, InsightViews, InsightWrites, AliasTools
  <2> QED
    BY <2>1, <2>2
<1> QED
  BY <1>5, <1>6

\* The reply of a tool says what the last value is, whichever came before.
LEMMA LastSays ==
  ASSUME NEW t, t \in LocalServed \/ t \in DOMAIN Asks, t # "dev_load_context", NEW vs
  PROVE  LocalSaid(t, vs) = LocalSaid(t, <<vs[Len(vs)]>>)
<1> DEFINE v == vs[Len(vs)]
<1>1. <<v>>[Len(<<v>>)] = v
  OBVIOUS
<1>2. ASSUME t \notin LocalServed, v \notin Raised PROVE Said(t, vs) = Said(t, <<v>>)
  <2>1. /\ t \in DOMAIN Asks
        /\ t \notin {"evolution_trigger", "clustering_run", "insight_health", "insight_reflect",
                    "insight_maintenance_status", "memory_ingest_structured"}
    BY <1>2 DEF LocalServed, EvolutionTools, InsightViews, AliasTools
  <2> QED
    BY <1>1, <1>2, <2>1 DEF Said, Asks
<1> QED
  BY <1>1, <1>2 DEF LocalSaid

\* A tool that both serve is told of what the core answers as of what the service does.
LocalReply(t, m, o) == LocalSaid(t, <<LocalValue(m, o)>>)

LEMMA TwinsAlike ==
  ASSUME NEW t \in Twins, NEW o, NEW m, LocalRequests(t) = <<m>>, o \in AnswersOf(m)
  PROVE  /\ LocalReply(t, m, o) = Outcome(t, AsRemote(Asks[t], o))
         /\ AsRemote(Asks[t], o) \in OutcomesOf(t)
<1>1. Corresponds(m, Asks[t])
  <2>1. m = LocalRequests(t)[1]
    OBVIOUS
  <2> QED
    BY <2>1, TwinRequests, OneMethodOK, CodeRowsOK, CodeReadOK
<1>2. /\ LocalValue(m, o) = Value(Asks[t], Request(Asks[t], AsRemote(Asks[t], o)))
      /\ AsRemote(Asks[t], o) \in OutcomesOf(t)
  BY <1>1 DEF Corresponds, OutcomesOf
<1>3. t \notin LocalServed
  BY DEF Twins
<1>4. LocalValue(m, o) \notin {"raised_import", "not_found"}
  <2>1. m \notin {"update", "no_route", "submit_feedback"} /\ o \in CoreAnswers
    <3>1. m \in OneMethod \cup {"search", "code_dead_code", "code_dependencies"}
      <4>1. m = LocalRequests(t)[1]
        OBVIOUS
      <4> QED
        BY <4>1, TwinRequests
    <3>2. AnswersOf(m) \subseteq CoreAnswers
      BY DEF AnswersOf, CoreAnswers
    <3> QED
      BY <3>1, <3>2 DEF OneMethod, Plainly, Listing, Addressing, Conditional
  <2> QED
    BY <2>1 DEF LocalValue, CoreFaults, CoreAnswers, Crud, Searching, Coding, Deciding,
                Activating, HandsOn
<1>5. <<LocalValue(m, o)>>[Len(<<LocalValue(m, o)>>)] = LocalValue(m, o)
  OBVIOUS
<1>6. LocalReply(t, m, o) = Said(t, <<LocalValue(m, o)>>)
  <2>1. t # "code_read_transcript"
    BY <1>3 DEF LocalServed, ProvenanceTools
  <2>2. LocalValue(m, o) \in Raised => Said(t, <<LocalValue(m, o)>>) = Excepted(t, LocalValue(m, o))
    BY <1>5 DEF Said
  <2> QED
    BY <1>3, <1>4, <1>5, <2>1, <2>2 DEF LocalReply, LocalSaid
<1> QED
  BY <1>2, <1>6 DEF Outcome
-----------------------------------------------------------------------------
(* What a local tool acknowledges.                                           *)

\* Tools whose reply follows their request, and the faults that do not mislead them.
Loyal == (DOMAIN Asks \cup DOMAIN LocalAsks) \ (Broken \cup {"memory_feedback", "evolution_status"})

\* Four of them, whose request or wording the other backend does not share.
Unlike(t) ==
  \/ t = "memory_update" /\ LocalRequests(t) = <<"update">>
  \/ t = "memory_recall" /\ LocalRequests(t) = <<"recall">>
  \/ /\ t \in {"agent_set_recall_profile", "agent_get_recall_profile"}
     /\ LocalRequests(t) = <<"no_route">>

LEMMA LoyalSplit ==
  ASSUME NEW t \in Loyal
  PROVE  t \in Twins \/ t \in LocalServed \/ Unlike(t)
<1> SUFFICES ASSUME t \notin LocalServed PROVE t \in Twins \/ Unlike(t)
  OBVIOUS
<1>1. CASE t \in DOMAIN LocalAsks
  <2>1. t \in {"memory_recall", "agent_set_recall_profile", "agent_get_recall_profile"} \cup CodeViews
    BY <1>1, LocalAsksDomain
       DEF CodeViews, LocalServed, EvolutionTools, InsightViews, InsightWrites,
           ReasoningTools, PlanTools, AnchorTools, PatternTools, ProvenanceTools, AliasTools
  <2>2. /\ LocalAsks["memory_recall"] = <<"recall">>
        /\ LocalAsks["agent_set_recall_profile"] = <<"no_route">>
        /\ LocalAsks["agent_get_recall_profile"] = <<"no_route">>
        /\ LocalAsks["code_search"] = <<"search">>
        /\ LocalAsks["code_dead_code"] = <<"code_dead_code">>
        /\ LocalAsks["code_dependencies"] = <<"code_dependencies">>
    BY DEF LocalAsks
  <2>3. CodeViews \subseteq DOMAIN Asks \ Broken
    BY DEF CodeViews, Asks, Broken
  <2>4. t \in CodeViews => Len(LocalRequests(t)) = 1 /\ LocalRequests(t) # <<"no_route">>
    BY <2>2, LocalAsksDomain DEF CodeViews, LocalRequests
  <2> QED
    BY <1>1, <2>1, <2>2, <2>3, <2>4 DEF CodeViews, Twins, LocalRequests, Unlike
<1>2. CASE t \notin DOMAIN LocalAsks
  <2>1. t \in DOMAIN Asks \ Broken
    BY <1>2 DEF Loyal
  <2>2. LocalRequests(t) = <<Asks[t]>>
    BY <1>2, <2>1, RequestsOf DEF LocalRequests, Broken, LocalServed, InsightWrites
  <2>3. Asks[t] # "no_route" /\ (t = "memory_update" => Asks[t] = "update")
    BY <2>1 DEF Asks
  <2>4. t # "memory_recall"
    BY <1>2, LocalAsksDomain
  <2> QED
    <3>1. Len(<<Asks[t]>>) = 1 /\ <<Asks[t]>>[1] = Asks[t] /\ <<"no_route">>[1] = "no_route"
      OBVIOUS
    <3>2. Len(LocalRequests(t)) = 1 /\ LocalRequests(t) # <<"no_route">>
      BY <2>2, <2>3, <3>1
    <3> QED
      BY <1>2, <2>1, <2>2, <2>3, <2>4, <3>2 DEF Twins, Loyal, Unlike
<1> QED
  BY <1>1, <1>2

\* What may still be asked after i requests have been, and ends the call.
Ends(t, i, v) ==
  i = Len(LocalRequests(t)) \/ v \in Raised \cup {"raised_import", "nothing"}

\* An acknowledgement is of a write that the core carried out.
Acknowledges(t, m, o) == LocalReply(t, m, o) = "done" => m \in LocalWrites /\ o = "rows"

LEMMA TwinsAcknowledge ==
  ASSUME NEW t \in Twins, t # "evolution_status", NEW m, LocalRequests(t) = <<m>>, NEW o \in AnswersOf(m)
  PROVE  Acknowledges(t, m, o)
<1> SUFFICES ASSUME LocalReply(t, m, o) = "done" PROVE m \in LocalWrites /\ o = "rows"
  BY DEF Acknowledges
<1>1. Outcome(t, AsRemote(Asks[t], o)) = "done" /\ AsRemote(Asks[t], o) \in OutcomesOf(t)
  BY TwinsAlike
<1>2. m = LocalRequests(t)[1]
  OBVIOUS
<1>3. t \in DOMAIN Asks
  BY DEF Twins
<1>4. CASE t \in Unheeding
  <2>1. Asks[t] \in {"ingest", "ingest_conversation_sync"}
    BY <1>4 DEF Asks, Unheeding
  <2>2. m = Asks[t]
    BY <1>2, <2>1, TwinRequests
  <2> QED
    BY <2>1, <2>2 DEF AnswersOf, LocalWrites
<1>5. CASE t \notin Unheeding
  <2>1. Asks[t] \notin LocalOnly
    BY TwinRequests DEF OneMethod, Plainly, Listing, Addressing, Conditional, LocalOnly
  <2>2. Asks[t] \in Writes /\ AsRemote(Asks[t], o) \in {"rows", "none"}
    BY <1>1, <1>3, <1>5, <2>1, Table DEF OutcomeOK
  <2>3. o = "rows"
    <3>1. o \in CoreAnswers
      BY DEF AnswersOf, CoreAnswers
    <3> QED
      BY <2>2, <3>1 DEF AsRemote, CoreAnswers
  <2>4. m = Asks[t] /\ Asks[t] \in OneMethod
    BY <1>2, <2>2, TwinRequests DEF Writes, ChangingDecisions
  <2> QED
    BY <2>2, <2>3, <2>4
       DEF OneMethod, Plainly, Listing, Addressing, Conditional, Writes, ChangingDecisions,
           LocalWrites
<1> QED
  BY <1>4, <1>5

\* The writing tools that only the local backend serves to the end.
OneWriters == EvolutionTools \cup AnchorTools \cup AliasTools
                \cup {"insight_personalize", "insight_feedback", "memory_plan_update_task"}
TwoWriters == {"insight_ground", "reasoning_resolve_conflict"}

LEMMA WriterRequests ==
  /\ \A t \in OneWriters \ {"memory_anchor_graduate"} : \E m \in LocalWrites :
       LocalRequests(t) = <<m>> /\ AnswersOf(m) = {"rows"}
  /\ LocalRequests("memory_anchor_graduate") = <<"manager_graduate">>
  /\ LocalRequests("insight_ground") = <<"get", "ground">>
  /\ LocalRequests("reasoning_resolve_conflict") = <<"get", "auto_resolve">>
<1>1. /\ LocalAsks["evolution_synthesize_opinions"] = <<"run_evolver">>
      /\ LocalAsks["evolution_synthesize_observations"] = <<"run_evolver">>
      /\ LocalAsks["evolution_reinforce_opinions"] = <<"run_evolver">>
      /\ LocalAsks["memory_resolve_aliases"] = <<"resolve_aliases">>
      /\ LocalAsks["insight_personalize"] = <<"personalize">>
      /\ LocalAsks["insight_feedback"] = <<"update_from_feedback">>
      /\ LocalAsks["memory_plan_update_task"] = <<"manager_write">>
      /\ LocalAsks["memory_anchor_set"] = <<"manager_write">>
      /\ LocalAsks["memory_anchor_clear"] = <<"manager_write">>
      /\ LocalAsks["memory_anchor_graduate"] = <<"manager_graduate">>
      /\ LocalAsks["reasoning_resolve_conflict"] = <<"get", "auto_resolve">>
  BY DEF LocalAsks
<1>2. /\ Asks["evolution_trigger"] = "run_evolution_cycle"
      /\ Asks["clustering_run"] = "run_clustering"
      /\ Asks["memory_ingest_structured"] = "ingest_structured"
  BY DEF Asks
<1>3. \A m \in {"run_evolver", "resolve_aliases", "personalize", "update_from_feedback",
                "manager_write", "run_evolution_cycle", "run_clustering", "ingest_structured"} :
        m \in LocalWrites /\ AnswersOf(m) = {"rows"}
  BY DEF LocalWrites, AnswersOf
<1>4. /\ LocalRequests("evolution_trigger") = <<"run_evolution_cycle">>
      /\ LocalRequests("clustering_run") = <<"run_clustering">>
      /\ LocalRequests("memory_ingest_structured") = <<"ingest_structured">>
      /\ LocalRequests("insight_ground") = <<"get", "ground">>
  BY <1>2, LocalAsksDomain, RequestsOf DEF LocalRequests
<1>5. \A t \in DOMAIN LocalAsks : LocalRequests(t) = LocalAsks[t]
  BY DEF LocalRequests
<1> QED
  BY <1>1, <1>3, <1>4, <1>5, LocalAsksDomain
     DEF OneWriters, EvolutionTools, AnchorTools, AliasTools

LEMMA ServedAcknowledge ==
  ASSUME NEW t \in LocalServed, NEW i \in 1 .. Len(LocalRequests(t)),
         NEW o \in AnswersOf(LocalRequests(t)[i]),
         Ends(t, i, LocalValue(LocalRequests(t)[i], o))
  PROVE  Acknowledges(t, LocalRequests(t)[i], o)
<1> DEFINE m == LocalRequests(t)[i]
           v == LocalValue(m, o)
<1>1. SUFFICES ASSUME LocalReply(t, m, o) = "done" PROVE m \in LocalWrites /\ o = "rows"
  BY DEF Acknowledges
<1> HIDE DEF v
<1>2. <<v>>[Len(<<v>>)] = v
  OBVIOUS
<1>3. t # "evolution_status"
  BY DEF LocalServed, EvolutionTools, InsightViews, InsightWrites, ReasoningTools, PlanTools,
         AnchorTools, PatternTools, ProvenanceTools, AliasTools
<1>4. v \notin Raised \cup {"raised_import", "not_found"} /\ LocalTold(t, v) = "done"
  BY <1>1, <1>2, <1>3 DEF LocalReply, LocalSaid, Excepted, graceful, v
<1>5. t \in OneWriters \cup TwoWriters
  BY <1>4
     DEF LocalServed, OneWriters, TwoWriters, EvolutionTools, InsightViews, InsightWrites,
         ReasoningTools, PlanTools, AnchorTools, PatternTools, ProvenanceTools, AliasTools,
         LocalTold, insight_views, Viewed, reasoning_tools, plan_tools, memory_check_failure,
         pattern_tools, code_provenance
<1>6. CASE t \in OneWriters \ {"memory_anchor_graduate"}
  <2>1. PICK n \in LocalWrites : LocalRequests(t) = <<n>> /\ AnswersOf(n) = {"rows"}
    BY <1>6, WriterRequests
  <2>2. m = n
    BY <2>1
  <2> QED
    BY <2>1, <2>2
<1>7. CASE t = "memory_anchor_graduate"
  <2>1. m = "manager_graduate"
    BY <1>7, WriterRequests
  <2>2. o = "norows" => v = "empty"
    BY <2>1 DEF v, LocalValue, CoreFaults, Decisions, Searching
  <2>3. v # "empty"
    BY <1>4, <1>7
       DEF LocalTold, anchor_tools, EvolutionTools, InsightViews, InsightWrites,
           ReasoningTools, PlanTools, AnchorTools, PatternTools, ProvenanceTools, AliasTools
  <2>4. AnswersOf("manager_graduate") = {"rows", "norows"}
    BY DEF AnswersOf
  <2> QED
    BY <2>1, <2>2, <2>3, <2>4 DEF LocalWrites
<1>8. CASE t \in TwoWriters
  <2>1. v # "nothing"
    BY <1>4, <1>8
       DEF TwoWriters, LocalTold, insight_writes, reasoning_tools, Addressed, Viewed,
           EvolutionTools, InsightViews, InsightWrites, ReasoningTools, PlanTools,
           AnchorTools, PatternTools, ProvenanceTools, AliasTools
  <2>2. i = Len(LocalRequests(t))
    BY <1>4, <2>1 DEF Ends, v
  <2>3. \/ t = "insight_ground" /\ m = "ground"
        \/ t = "reasoning_resolve_conflict" /\ m = "auto_resolve"
    BY <1>8, <2>2, WriterRequests DEF TwoWriters
  <2>4. AnswersOf("ground") = {"rows"} /\ AnswersOf("auto_resolve") = {"rows", "refused"}
    BY DEF AnswersOf
  <2>5. LocalValue("auto_resolve", "refused") = "false"
    BY DEF LocalValue, CoreFaults, Decisions, HandsOn
  <2>6. t = "reasoning_resolve_conflict" => v # "false"
    BY <1>4
       DEF LocalTold, reasoning_tools, Viewed,
           EvolutionTools, InsightViews, InsightWrites, ReasoningTools, PlanTools,
           AnchorTools, PatternTools, ProvenanceTools, AliasTools
  <2> QED
    BY <2>3, <2>4, <2>5, <2>6 DEF v, LocalWrites
<1> QED
  BY <1>5, <1>6, <1>7, <1>8

LEMMA LoyalAcknowledge ==
  ASSUME NEW t \in Loyal, NEW i \in 1 .. Len(LocalRequests(t)),
         NEW o \in AnswersOf(LocalRequests(t)[i]),
         Ends(t, i, LocalValue(LocalRequests(t)[i], o))
  PROVE  Acknowledges(t, LocalRequests(t)[i], o)
<1> DEFINE m == LocalRequests(t)[i]
<1>1. CASE t \in LocalServed
  BY <1>1, ServedAcknowledge
<1>2. CASE t \in Twins
  <2>1. PICK n : LocalRequests(t) = <<n>>
    BY <1>2, TwinRequests
  <2>2. m = n
    BY <2>1
  <2> QED
    BY <1>2, <2>1, <2>2, TwinsAcknowledge DEF Loyal
<1>3. CASE t = "memory_update" /\ LocalRequests(t) = <<"update">>
  <2>1. m = "update" /\ AnswersOf("update") = {"rows", "missing"}
    BY <1>3 DEF AnswersOf
  <2>2. LocalValue("update", "missing") = "not_found"
    BY DEF LocalValue, CoreFaults, Decisions, Crud
  <2>3. <<"not_found">>[Len(<<"not_found">>)] = "not_found" /\ "not_found" \notin Raised
    BY DEF Raised
  <2>4. LocalReply(t, m, "missing") = "absent"
    BY <2>1, <2>2, <2>3 DEF LocalReply, LocalSaid
  <2> QED
    BY <2>1, <2>4 DEF Acknowledges, LocalWrites
<1>4. CASE t = "memory_recall" /\ LocalRequests(t) = <<"recall">>
  <2>1. m = "recall" /\ o \in CoreAnswers /\ LocalValue("recall", o) = "value"
    BY <1>4 DEF AnswersOf, CoreAnswers, LocalValue, CoreFaults, Decisions, Searching
  <2>2. <<"value">>[Len(<<"value">>)] = "value" /\ "value" \notin Raised
    BY DEF Raised
  <2>3. Said(t, <<"value">>) = "shown"
    BY <1>4, <2>2 DEF Said, memory_recall, Listed
  <2>4. t \notin LocalServed
    BY <1>4 DEF LocalServed, EvolutionTools, InsightViews, InsightWrites, ReasoningTools,
                PlanTools, AnchorTools, PatternTools, ProvenanceTools, AliasTools
  <2> QED
    BY <2>1, <2>2, <2>3, <2>4 DEF Acknowledges, LocalReply, LocalSaid
<1>5. CASE /\ t \in {"agent_set_recall_profile", "agent_get_recall_profile"}
           /\ LocalRequests(t) = <<"no_route">>
  <2>1. LocalValue(m, o) = "unsupported"
    BY <1>5 DEF LocalValue
  <2>2. <<"unsupported">>[Len(<<"unsupported">>)] = "unsupported" /\ "unsupported" \in Raised
    BY DEF Raised
  <2>3. LocalReply(t, m, o) = "unsupported"
    BY <1>5, <2>1, <2>2 DEF LocalReply, LocalSaid, Excepted, graceful
  <2> QED
    BY <2>3 DEF Acknowledges
<1> QED
  BY <1>1, <1>2, <1>3, <1>4, <1>5, LoyalSplit DEF Unlike
-----------------------------------------------------------------------------
(* A fault of the core, and what a call has behind it.                       *)

\* What the local tools ask: one method, two, or three, and feedback from one tool only.
LEMMA LocalAsksOf ==
  ASSUME NEW t \in DOMAIN LocalAsks
  PROVE  /\ Len(LocalAsks[t]) \in 1 .. 3
         /\ \A i \in 1 .. Len(LocalAsks[t]) : LocalAsks[t][i] # "submit_feedback"
<1>1. \/ \E m : m # "submit_feedback" /\ LocalAsks[t] = <<m>>
      \/ LocalAsks[t] \in {<<"orphaned_notes", "find_old_notes">>, <<"get", "auto_resolve">>,
                           <<"decision_get", "calculate">>}
      \/ LocalAsks[t] = <<"summary", "orphaned_notes", "find_old_notes">>
  BY DEF LocalAsks
<1> QED
  BY <1>1

LEMMA RequestsMade ==
  ASSUME NEW t \in (DOMAIN Asks \cup DOMAIN LocalAsks) \ Broken
  PROVE  /\ Len(LocalRequests(t)) \in Nat \ {0}
         /\ t \in Loyal =>
              \A i \in 1 .. Len(LocalRequests(t)) : LocalRequests(t)[i] # "submit_feedback"
<1>1. CASE t \in DOMAIN LocalAsks
  BY <1>1, LocalAsksOf DEF LocalRequests
<1>2. CASE t \notin DOMAIN LocalAsks
  <2>1. t \in DOMAIN Asks /\ t # "dev_load_context"
    BY <1>2 DEF Broken
  <2>2. CASE t = "insight_ground"
    BY <1>2, <2>2, RequestsOf DEF LocalRequests
  <2>3. CASE t # "insight_ground"
    <3>1. LocalRequests(t) = <<Asks[t]>>
      BY <1>2, <2>1, <2>3, RequestsOf DEF LocalRequests
    <3>2. t # "memory_feedback" => Asks[t] # "submit_feedback"
      BY <2>1 DEF Asks
    <3> QED
      BY <3>1, <3>2 DEF Loyal
  <2> QED
    BY <2>2, <2>3
<1> QED
  BY <1>1, <1>2

LEMMA LoyalSaid ==
  ASSUME NEW t \in Loyal, NEW vs
  PROVE  LocalSaid(t, vs) = LocalSaid(t, <<vs[Len(vs)]>>)
<1>1. t # "dev_load_context" /\ (t \in LocalServed \/ t \in DOMAIN Asks)
  <2>1. {"memory_update", "memory_recall", "agent_set_recall_profile",
         "agent_get_recall_profile"} \subseteq DOMAIN Asks
    BY DEF Asks
  <2> QED
    BY <2>1, LoyalSplit DEF Twins, Unlike, Loyal, Broken
<1> QED
  BY <1>1, LastSays

\* A fault is told as one.
LEMMA FaultIsTold ==
  ASSUME NEW t \in Loyal, NEW m, m \notin {"submit_feedback", "no_route"},
         NEW o \in CoreFaults \ {"invalid"}
  PROVE  LocalReply(t, m, o) \in {"failed", "unreachable", "unsupported", "unconfirmed"}
<1> DEFINE v == LocalValue(m, o)
<1>1. v = CoreRaises(m, o)
  BY DEF LocalValue, CoreFaults
<1>2. v \in {"raised_timed_out", "raised_import", "raised"}
  BY <1>1 DEF CoreRaises
<1> HIDE DEF v
<1>3. <<v>>[Len(<<v>>)] = v
  OBVIOUS
<1>4. t # "evolution_status"
  BY DEF Loyal
<1>5. LocalSaid(t, <<v>>) \in {"failed", "unreachable", "unsupported", "unconfirmed"}
  BY <1>2, <1>3, <1>4 DEF LocalSaid, Raised, Excepted, graceful
<1> QED
  BY <1>5 DEF LocalReply, v

\* The values of the methods that a call may ask.
AnyValue == {LocalValue(LocalRequests(t)[i], o) :
               t \in LocalTools, i \in Nat, o \in CoreAnswers \cup CoreFaults}

\* The last method that a call asked ended it; where it wrote, and the core answered that
\* it did, the core has.
LastAsked ==
  LET i == Len(lvals)
      m == LocalRequests(ltool)[i] IN
  /\ i \in 1 .. Len(LocalRequests(ltool))
  /\ lvals[i] = LocalValue(m, lout)
  /\ lout \in AnswersOf(m) \/ (lout \in CoreOccurring /\ m # "no_route")
  /\ Ends(ltool, i, lvals[i])
  /\ m \in LocalWrites /\ lout = "rows" => ldone

LocalInv ==
  /\ lat \in {"idle", "ask", "answered", "told"}
  /\ lvals \in Seq(AnyValue)
  /\ lat = "idle" => lvals = <<>> /\ lout = "none"
  /\ lat # "idle" => ltool \in LocalTools
  /\ lat = "ask" => ltool \notin Broken /\ Len(lvals) < Len(LocalRequests(ltool))
  /\ lat = "answered" => ltool \notin Broken /\ LastAsked
  /\ lat = "told" => IF ltool \in Broken THEN lout = "none" /\ lreply = "failed"
                     ELSE LastAsked /\ lreply = LocalSaid(ltool, lvals)

LEMMA LocalInitially == LocalInit => LocalInv
BY DEF LocalInit, LocalInv

LEMMA PerformStep ==
  ASSUME LocalInv, NEW o \in CoreAnswers \cup CoreFaults, Perform(o)
  PROVE  LocalInv'
<1> DEFINE i == Len(lvals) + 1
           m == LocalRequests(ltool)[i]
           v == LocalValue(m, o)
<1>1. /\ lat = "ask" /\ ltool' = ltool /\ lout' = o /\ lvals' = Append(lvals, v)
      /\ ldone' \in MayDo(m, o) /\ lreply' = lreply
      /\ o \in IF m = "no_route" THEN {"rows"} ELSE AnswersOf(m) \cup CoreOccurring
      /\ lat' = IF lvals'[Len(lvals')] \in Raised \cup {"raised_import", "nothing"}
                   \/ Len(lvals') = Len(LocalRequests(ltool)) THEN "answered" ELSE "ask"
  BY DEF Perform, LocalMethod
<1>2. ltool \in LocalTools \ Broken /\ lvals \in Seq(AnyValue) /\ Len(lvals) < Len(LocalRequests(ltool))
  BY <1>1 DEF LocalInv
<1>3. Len(LocalRequests(ltool)) \in Nat
  BY <1>2, RequestsMade, LocalToolsAssumption
<1>4. i \in 1 .. Len(LocalRequests(ltool)) /\ i \in Nat
  BY <1>2, <1>3
<1>5. v \in AnyValue
  BY <1>2, <1>4 DEF AnyValue
<1> HIDE DEF v
<1>6. lvals' \in Seq(AnyValue) /\ Len(lvals') = i /\ lvals'[i] = v
  BY <1>1, <1>2, <1>5
<1>7. CASE lat' = "ask"
  <2>1. i < Len(LocalRequests(ltool))
    BY <1>1, <1>3, <1>4, <1>6, <1>7
  <2> QED
    BY <1>1, <1>2, <1>6, <1>7, <2>1 DEF LocalInv
<1>8. CASE lat' = "answered"
  <2>1. Ends(ltool, i, v)
    BY <1>1, <1>6, <1>8 DEF Ends
  <2>2. o \in AnswersOf(m) \/ (o \in CoreOccurring /\ m # "no_route")
    BY <1>1 DEF AnswersOf
  <2>3. m \in LocalWrites /\ o = "rows" => ldone'
    BY <1>1 DEF MayDo
  <2>4. LastAsked'
    BY <1>1, <1>4, <1>6, <2>1, <2>2, <2>3 DEF LastAsked, Ends, v
  <2> QED
    BY <1>1, <1>2, <1>6, <1>8, <2>4 DEF LocalInv
<1> QED
  BY <1>1, <1>7, <1>8

LEMMA LocalKept == LocalInv /\ [LocalNext]_lvars => LocalInv'
<1> SUFFICES ASSUME LocalInv, [LocalNext]_lvars PROVE LocalInv'
  OBVIOUS
<1>1. ASSUME NEW t \in LocalTools, LocalBegin(t) PROVE LocalInv'
  <2>1. /\ lat = "idle" /\ ltool' = t /\ lvals' = lvals /\ lvals = <<>> /\ lout' = lout
        /\ lout = "none" /\ lvals \in Seq(AnyValue)
    BY <1>1 DEF LocalBegin, LocalInv
  <2>2. CASE t \in Broken
    BY <1>1, <2>1, <2>2 DEF LocalBegin, LocalInv
  <2>3. CASE t \notin Broken
    <3>1. Len(LocalRequests(t)) \in Nat \ {0}
      BY <2>3, RequestsMade, LocalToolsAssumption
    <3>2. Len(lvals') < Len(LocalRequests(t))
      BY <2>1, <3>1
    <3> QED
      BY <1>1, <2>1, <2>3, <3>2 DEF LocalBegin, LocalInv
  <2> QED
    BY <2>2, <2>3
<1>2. ASSUME Tell PROVE LocalInv'
  <2>1. /\ lat = "answered" /\ lat' = "told" /\ lreply' = LocalSaid(ltool, lvals)
        /\ UNCHANGED <<ltool, lvals, lout, ldone>>
    BY <1>2 DEF Tell
  <2>2. LastAsked'
    BY <2>1 DEF LocalInv, LastAsked
  <2> QED
    BY <2>1, <2>2 DEF LocalInv
<1>3. ASSUME LocalEnd PROVE LocalInv'
  <2>1. <<>> \in Seq(AnyValue)
    OBVIOUS
  <2> QED
    BY <1>3, <2>1 DEF LocalEnd, LocalInv
<1>4. CASE UNCHANGED lvars
  BY <1>4 DEF lvars, LocalInv, LastAsked
<1> QED
  BY <1>1, <1>2, <1>3, <1>4, PerformStep DEF LocalNext

LEMMA LocalInvHolds == LocalSpec => []LocalInv
BY LocalInitially, LocalKept, PTL DEF LocalSpec

\* The reply is that to the last value.
LEMMA ReplyOfLast ==
  ASSUME LocalInv, lat = "told", ltool \notin Broken, NEW m, m = LocalRequests(ltool)[Len(lvals)],
         LocalSaid(ltool, lvals) = LocalSaid(ltool, <<lvals[Len(lvals)]>>)
  PROVE  lreply = LocalReply(ltool, m, lout)
BY DEF LocalInv, LastAsked, LocalReply

\* local.py with its tools, but the two that do not look and a ValueError of the core: one
\* that is down, missing or broken is told as a fault whatever was asked, and what a tool
\* acknowledges the core has done in this call.
THEOREM LocalRepliesAreTrue ==
  LocalTools \cap {"memory_feedback", "evolution_status"} = {} /\ "invalid" \notin CoreOccurring
    => (LocalSpec => []LocalReplyIsTrue)
<1> SUFFICES ASSUME LocalTools \cap {"memory_feedback", "evolution_status"} = {},
                    "invalid" \notin CoreOccurring
             PROVE  LocalSpec => []LocalReplyIsTrue
  OBVIOUS
<1>1. LocalInv => LocalReplyIsTrue
  <2> SUFFICES ASSUME LocalInv, lat = "told"
               PROVE  /\ lout \in CoreFaults =>
                           lreply \in {"failed", "unreachable", "unsupported", "unconfirmed"}
                      /\ lreply = "done" => ldone
    BY DEF LocalReplyIsTrue
  <2>1. CASE ltool \in Broken
    BY <2>1 DEF LocalInv, CoreFaults
  <2>2. CASE ltool \notin Broken
    <3> DEFINE m == LocalRequests(ltool)[Len(lvals)]
    <3>1. ltool \in Loyal
      BY <2>2, LocalToolsAssumption DEF LocalInv, Loyal
    <3>2. lreply = LocalReply(ltool, m, lout)
      BY <2>2, <3>1, LoyalSaid, ReplyOfLast
    <3>3. /\ Len(lvals) \in 1 .. Len(LocalRequests(ltool)) /\ lvals[Len(lvals)] = LocalValue(m, lout)
          /\ lout \in AnswersOf(m) \/ (lout \in CoreOccurring /\ m # "no_route")
          /\ Ends(ltool, Len(lvals), LocalValue(m, lout))
          /\ m \in LocalWrites /\ lout = "rows" => ldone
      BY <2>2 DEF LocalInv, LastAsked
    <3>4. m # "submit_feedback"
      BY <3>1, <3>3, RequestsMade DEF Loyal
    <3>5. AnswersOf(m) \subseteq CoreAnswers /\ CoreAnswers \cap CoreFaults = {}
      BY DEF AnswersOf, CoreAnswers, CoreFaults
    <3>6. CASE lout \in AnswersOf(m)
      <4>1. Acknowledges(ltool, m, lout)
        BY <3>1, <3>3, <3>6, LoyalAcknowledge
      <4> QED
        BY <3>2, <3>3, <3>5, <3>6, <4>1 DEF Acknowledges
    <3>7. CASE lout \in CoreOccurring /\ m # "no_route"
      <4>1. lout \in CoreFaults \ {"invalid"}
        BY <3>7, CoreFaultsAssumption
      <4> QED
        BY <3>1, <3>2, <3>4, <3>7, <4>1, FaultIsTold
    <3> QED
      BY <3>3, <3>6, <3>7
  <2> QED
    BY <2>1, <2>2
<1> QED
  BY <1>1, LocalInvHolds, PTL

\* tests/test_decision_tools_mode_parity.py, for every tool that both backends serve with
\* the same request: a success, nothing found and a missing item read the same in both.
THEOREM BackendsAlwaysAgree == LocalSpec => []BothBackendsAgree
<1>1. LocalInv => BothBackendsAgree
  <2> SUFFICES ASSUME LocalInv, lat = "told", ltool \in Twins, lout \in CoreAnswers
               PROVE  lreply = Outcome(ltool, AsRemote(Asks[ltool], lout))
    BY DEF BothBackendsAgree, Outcome
  <2>1. ltool \in DOMAIN Asks \ Broken /\ ltool # "dev_load_context"
    BY DEF Twins, Broken
  <2>2. PICK m : LocalRequests(ltool) = <<m>>
    BY TwinRequests
  <2>3. /\ Len(lvals) \in 1 .. Len(LocalRequests(ltool))
        /\ LET n == LocalRequests(ltool)[Len(lvals)] IN
             lout \in AnswersOf(n) \/ lout \in CoreOccurring
    BY <2>1 DEF LocalInv, LastAsked
  <2>4. LocalRequests(ltool)[Len(lvals)] = m
    BY <2>2, <2>3
  <2>5. lout \in AnswersOf(m)
    BY <2>3, <2>4, CoreFaultsAssumption DEF CoreFaults, CoreAnswers
  <2>6. lreply = LocalReply(ltool, m, lout)
    BY <2>1, <2>4, LastSays, ReplyOfLast
  <2> QED
    BY <2>2, <2>5, <2>6, TwinsAlike
<1> QED
  BY <1>1, LocalInvHolds, PTL
-----------------------------------------------------------------------------
(* An indexing of a repository: the relations of a bundle.                   *)

Contents == parsed \in [Paths -> Sources \cup {NoFile}]

Less == {pair \in Nat \X Nat : pair[1] < pair[2]}

LEMMA LeastOf == ASSUME NEW S \in SUBSET Nat, S # {} PROVE \E i \in S : \A j \in S : i <= j
<1>1. OpToRel(<, Nat) = Less
  BY DEF OpToRel, Less
<1>2. IsWellFoundedOn(Less, Nat)
  BY <1>1, NatLessThanWellFounded
<1>3. PICK i \in S : \A j \in S : <<j, i>> \notin Less
  BY <1>2, WFMin
<1>4. \A j \in S : ~(j < i)
  BY <1>3 DEF Less
<1> QED
  BY <1>4

\* A definition of a source has a name of one or two parts.
LEMMA DefinitionOf ==
  ASSUME NEW src \in Sources, NEW d \in ItemsOf(src.defs)
  PROVE  /\ src.defs \in Seq(Definition) /\ d \in Definition /\ d.name \in Seq(STRING)
         /\ d.name = <<d.name[1]>> \/ Len(d.name) = 2
         /\ Len(d.name) = 2 => \E c \in ItemsOf(src.defs) : c.name = <<d.name[1]>>
<1>1. src \in Source
  BY SourcesAssumption
<1>2. src.defs \in Seq(Definition)
  BY <1>1 DEF Source
<1>3. d \in Definition
  BY <1>2 DEF ItemsOf
<1>4. d.name \in Seq(STRING)
  BY <1>3 DEF Definition
<1>5. Len(d.name) = 1 => d.name = <<d.name[1]>>
  BY <1>4
<1> QED
  BY <1>2, <1>3, <1>4, <1>5, SourcesAssumption

\* What the bundle has of a file: its module, its definitions and their owners.
LEMMA EntitiesOf ==
  ASSUME Contents, NEW p \in Bundle
  PROVE  /\ parsed[p] \in Sources /\ ModuleId(p) \in BundleEntities
         /\ \A d \in ItemsOf(parsed[p].defs) :
              Id(p, d.name) \in BundleEntities /\ Owner(p, d) \in BundleEntities
<1>1. parsed[p] \in Sources
  BY DEF Contents, Bundle
<1>2. Entities(p, parsed[p]) \subseteq BundleEntities
  BY DEF BundleEntities
<1>3. ModuleId(p) \in BundleEntities
  BY <1>2 DEF Entities
<1>4. \A d \in ItemsOf(parsed[p].defs) : Id(p, d.name) \in BundleEntities
  BY <1>2 DEF Entities
<1>5. ASSUME NEW d \in ItemsOf(parsed[p].defs) PROVE Owner(p, d) \in BundleEntities
  <2>1. CASE Len(d.name) = 1
    BY <1>3, <2>1 DEF Owner
  <2>2. CASE Len(d.name) # 1
    <3>1. PICK c \in ItemsOf(parsed[p].defs) : c.name = <<d.name[1]>>
      BY <1>1, <2>2, SourcesAssumption
    <3> QED
      BY <1>4, <2>2, <3>1 DEF Owner
  <2> QED
    BY <2>1, <2>2
<1> QED
  BY <1>1, <1>3, <1>4, <1>5

LEMMA ImportsHold == ASSUME Contents PROVE ImportsAgree
<1> SUFFICES ASSUME NEW p \in Bundle, NEW q \in Bundle, ModuleName(q) = q, q \in parsed[p].imports
             PROVE  Relation(ModuleId(p), ModuleId(q), "IMPORTS") \in BundleRelations
  BY DEF ImportsAgree
<1> DEFINE r == Relation(ModuleId(p), ModuleId(q), "IMPORTS")
<1>1. r = Relation(ModuleId(p), Id(ModuleToPath(q), q), "IMPORTS")
  BY DEF ModuleToPath, ModuleId
<1>2. r \in Relations(p, parsed[p])
  BY <1>1 DEF Relations
<1>3. r.source = ModuleId(p) /\ r.target = ModuleId(q)
  BY DEF Relation
<1> HIDE DEF r
<1>4. r.source \in BundleEntities /\ r.target \in BundleEntities
  BY <1>3, EntitiesOf
<1> QED
  BY <1>2, <1>4 DEF BundleRelations, r

\* The relations of a kind come from where the source has them.
LEMMA RelationsFrom ==
  ASSUME NEW r \in BundleRelations
  PROVE  /\ r.type = "DEFINES" => \E p \in Bundle : \E d \in ItemsOf(parsed[p].defs) :
              r.source = Owner(p, d) /\ r.target = Id(p, d.name)
         /\ r.type = "TESTS" => \E p \in Bundle : \E t \in ItemsOf(parsed[p].defs) :
              \E s \in Subjects(parsed[p].defs, t) :
                r.source = Id(p, t.name) /\ r.target = Id(p, s)
<1>1. PICK p \in Bundle : r \in Relations(p, parsed[p])
  BY DEF BundleRelations
<1>2. \A from, to, sort : /\ Relation(from, to, sort).source = from
                          /\ Relation(from, to, sort).target = to
                          /\ Relation(from, to, sort).type = sort
  BY DEF Relation
<1> DEFINE defs == ItemsOf(parsed[p].defs)
<1>3. \/ \E d \in defs : r = Relation(Owner(p, d), Id(p, d.name), "DEFINES")
      \/ \E d \in defs : \E b \in d.bases : r = Relation(Id(p, d.name), Id(p, b), "INHERITS")
      \/ \E d \in defs : \E c \in d.calls : r = Relation(Id(p, d.name), Id(p, <<c>>), "CALLS")
      \/ \E m \in parsed[p].imports :
           r = Relation(ModuleId(p), Id(ModuleToPath(m), m), "IMPORTS")
      \/ \E t \in defs : \E s \in Subjects(parsed[p].defs, t) :
           r = Relation(Id(p, t.name), Id(p, s), "TESTS")
  BY <1>1 DEF Relations
<1>4. CASE \E d \in defs : r = Relation(Owner(p, d), Id(p, d.name), "DEFINES")
  BY <1>2, <1>4
<1>5. CASE \E t \in defs : \E s \in Subjects(parsed[p].defs, t) :
             r = Relation(Id(p, t.name), Id(p, s), "TESTS")
  BY <1>2, <1>5
<1>6. ASSUME NEW from, NEW to, NEW sort, sort \in {"INHERITS", "CALLS", "IMPORTS"},
             r = Relation(from, to, sort)
      PROVE  r.type \notin {"DEFINES", "TESTS"}
  BY <1>2, <1>6
<1>7. CASE r.type \in {"DEFINES", "TESTS"}
  <2>1. \/ \E d \in defs : r = Relation(Owner(p, d), Id(p, d.name), "DEFINES")
        \/ \E t \in defs : \E s \in Subjects(parsed[p].defs, t) :
             r = Relation(Id(p, t.name), Id(p, s), "TESTS")
    BY <1>3, <1>6, <1>7
  <2> QED
    BY <1>4, <1>5, <2>1
<1> QED
  BY <1>7

LEMMA IdOf == \A p, q, m, n : Id(p, m) = Id(q, n) => p = q /\ m = n
BY DEF Id

LEMMA OwnersHold == ASSUME Contents PROVE OwnersAgree
<1> SUFFICES ASSUME NEW p \in Bundle, NEW d \in ItemsOf(parsed[p].defs)
             PROVE  LET owners == {r.source : r \in {s \in BundleRelations :
                                     s.type = "DEFINES" /\ s.target = Id(p, d.name)}} IN
                    /\ Cardinality(owners) = 1
                    /\ d.name # ModuleName(p) => Id(p, d.name) \notin owners
  BY DEF OwnersAgree
<1> DEFINE owners == {r.source : r \in {s \in BundleRelations :
                        s.type = "DEFINES" /\ s.target = Id(p, d.name)}}
           own == Relation(Owner(p, d), Id(p, d.name), "DEFINES")
<1>1. own \in BundleRelations
  <2>1. own \in Relations(p, parsed[p])
    BY DEF Relations
  <2>2. own.source \in BundleEntities /\ own.target \in BundleEntities
    BY EntitiesOf DEF Relation
  <2> QED
    BY <2>1, <2>2 DEF BundleRelations
<1>2. own.source = Owner(p, d) /\ own.target = Id(p, d.name) /\ own.type = "DEFINES"
  BY DEF Relation
<1>3. ASSUME NEW r \in BundleRelations, r.type = "DEFINES", r.target = Id(p, d.name)
      PROVE  r.source = Owner(p, d)
  <2>1. PICK q \in Bundle : \E e \in ItemsOf(parsed[q].defs) :
          r.source = Owner(q, e) /\ r.target = Id(q, e.name)
    BY <1>3, RelationsFrom
  <2>2. PICK e \in ItemsOf(parsed[q].defs) : r.source = Owner(q, e) /\ r.target = Id(q, e.name)
    BY <2>1
  <2>3. q = p /\ e.name = d.name
    BY <1>3, <2>2 DEF Id
  <2> QED
    BY <2>2, <2>3 DEF Owner
<1>4. owners = {Owner(p, d)}
  <2> HIDE DEF own
  <2> QED
    BY <1>1, <1>2, <1>3
<1>5. d.name # ModuleName(p) => Id(p, d.name) # Owner(p, d)
  <2>1. Len(d.name) = 2 => d.name # <<d.name[1]>>
    OBVIOUS
  <2>2. d.name = <<d.name[1]>> => Len(d.name) = 1
    OBVIOUS
  <2>3. d.name = <<d.name[1]>> \/ Len(d.name) = 2
    BY EntitiesOf, DefinitionOf
  <2> QED
    BY <2>1, <2>2, <2>3, IdOf DEF Owner, ModuleId
<1>6. Cardinality({Owner(p, d)}) = 1
  BY FS_Singleton
<1> QED
  BY <1>4, <1>5, <1>6

\* A test is linked to one definition of the name it tests, if there is any.
LEMMA SubjectOf ==
  ASSUME NEW src \in Sources, NEW test \in ItemsOf(src.defs)
  PROVE  LET f == Tested[Final(test.name)]
             named == {e.name : e \in {e \in ItemsOf(src.defs) :
                         e.type # "test" /\ Final(e.name) = f}} IN
         /\ named = {} => Subjects(src.defs, test) = {}
         /\ named # {} => \E n \in named : Subjects(src.defs, test) = {n}
<1> DEFINE f == Tested[Final(test.name)]
           defs == src.defs
           named == {e.name : e \in {e \in ItemsOf(defs) : e.type # "test" /\ Final(e.name) = f}}
           other == {i \in DOMAIN defs : defs[i].type # "test"}
           exact == {i \in other : defs[i].name = <<f>>}
           methods == {i \in other : Len(defs[i].name) = 2 /\ Final(defs[i].name) = f}
           first == {i \in methods : \A k \in methods : i <= k}
<1>1. Subjects(defs, test) = IF exact # {} THEN {<<f>>} ELSE {defs[i].name : i \in first}
  BY DEF Subjects
<1>2. Final(<<f>>) = f
  BY DEF Final
<1>3. defs \in Seq(Definition) /\ DOMAIN defs \subseteq Nat
  <2>1. defs \in Seq(Definition)
    BY DefinitionOf
  <2> QED
    BY <2>1
<1>4. \A i \in DOMAIN defs : defs[i] \in ItemsOf(defs)
  BY DEF ItemsOf
<1>5. \A i \in exact \cup methods : defs[i].name \in named
  BY <1>2, <1>4
<1>6. ASSUME NEW e \in ItemsOf(defs), e.type # "test", Final(e.name) = f
      PROVE  exact \cup methods # {}
  <2>1. PICK i \in DOMAIN defs : e = defs[i]
    BY DEF ItemsOf
  <2>2. CASE e.name = <<e.name[1]>>
    <3>1. Final(e.name) = e.name[1]
      <4>1. Len(<<e.name[1]>>) = 1
        OBVIOUS
      <4> QED
        BY <2>2, <4>1 DEF Final
    <3>2. e.name = <<f>>
      BY <1>6, <2>2, <3>1
    <3> QED
      BY <1>6, <2>1, <3>2
  <2>3. CASE Len(e.name) = 2
    BY <1>6, <2>1, <2>3
  <2> QED
    BY <2>2, <2>3, DefinitionOf
<1>7. CASE exact # {}
  <2>1. <<f>> \in named
    BY <1>5, <1>7
  <2> QED
    BY <1>1, <1>7, <2>1
<1>8. CASE exact = {} /\ methods = {}
  <2>1. named = {}
    BY <1>6, <1>8
  <2> QED
    BY <1>1, <1>8, <2>1
<1>9. CASE exact = {} /\ methods # {}
  <2>1. methods \in SUBSET Nat
    BY <1>3
  <2> HIDE DEF methods
  <2>2. PICK i \in methods : \A j \in methods : i <= j
    BY <1>9, <2>1, LeastOf
  <2>3. first = {i}
    <3>1. \A j \in methods : j \in Nat
      BY <2>1
    <3>2. \A j \in methods : j <= i => j = i
      BY <2>2, <3>1
    <3> QED
      BY <2>2, <3>2
  <2> HIDE DEF first, exact
  <2>4. Subjects(defs, test) = {defs[i].name}
    BY <1>1, <1>9, <2>3
  <2> QED
    BY <1>5, <2>2, <2>4
<1> QED
  BY <1>7, <1>8, <1>9

LEMMA TestsHold == ASSUME Contents PROVE TestsAgree
<1> SUFFICES ASSUME NEW p \in Bundle, NEW d \in ItemsOf(parsed[p].defs),
                    d.type = "test", Final(d.name) \in DOMAIN Tested
             PROVE  LET named == {e.name : e \in {e \in ItemsOf(parsed[p].defs) :
                                    e.type # "test" /\ Final(e.name) = Tested[Final(d.name)]}}
                        linked == {r.target : r \in {s \in BundleRelations :
                                     s.type = "TESTS" /\ s.source = Id(p, d.name)}} IN
                    /\ named = {} => linked = {}
                    /\ named # {} => Cardinality(linked) = 1 /\ linked \subseteq {Id(p, n) : n \in named}
  BY DEF TestsAgree
<1> DEFINE named == {e.name : e \in {e \in ItemsOf(parsed[p].defs) :
                       e.type # "test" /\ Final(e.name) = Tested[Final(d.name)]}}
           linked == {r.target : r \in {s \in BundleRelations :
                        s.type = "TESTS" /\ s.source = Id(p, d.name)}}
           subjects == Subjects(parsed[p].defs, d)
<1>1. /\ named = {} => subjects = {}
      /\ named # {} => \E n \in named : subjects = {n}
  BY EntitiesOf, SubjectOf
<1>2. \A t : t.name = d.name => Subjects(parsed[p].defs, t) = subjects
  BY DEF Subjects
<1>3. \A n \in named : Id(p, n) \in BundleEntities
  BY EntitiesOf
<1> HIDE DEF named, subjects
<1>4. ASSUME NEW r \in BundleRelations, r.type = "TESTS", r.source = Id(p, d.name)
      PROVE  \E s \in subjects : r.target = Id(p, s)
  <2>1. PICK q \in Bundle : \E t \in ItemsOf(parsed[q].defs) :
          \E s \in Subjects(parsed[q].defs, t) : r.source = Id(q, t.name) /\ r.target = Id(q, s)
    BY <1>4, RelationsFrom
  <2>2. PICK t \in ItemsOf(parsed[q].defs) :
          \E s \in Subjects(parsed[q].defs, t) : r.source = Id(q, t.name) /\ r.target = Id(q, s)
    BY <2>1
  <2>3. q = p /\ t.name = d.name
    BY <1>4, <2>2 DEF Id
  <2> QED
    BY <1>2, <2>2, <2>3
<1>5. ASSUME NEW s \in subjects PROVE Id(p, s) \in linked
  <2> DEFINE link == Relation(Id(p, d.name), Id(p, s), "TESTS")
  <2>1. link \in Relations(p, parsed[p])
    BY <1>5 DEF Relations, subjects
  <2>2. link.source = Id(p, d.name) /\ link.target = Id(p, s) /\ link.type = "TESTS"
    BY DEF Relation
  <2> HIDE DEF link
  <2>3. s \in named
    BY <1>1, <1>5
  <2>4. link \in BundleRelations
    BY <1>3, <2>1, <2>2, <2>3, EntitiesOf DEF BundleRelations
  <2> QED
    BY <2>2, <2>4
<1>6. linked = {Id(p, s) : s \in subjects}
  BY <1>4, <1>5
<1>7. CASE named = {}
  BY <1>1, <1>6, <1>7 DEF named
<1>8. CASE named # {}
  <2>1. PICK n \in named : linked = {Id(p, n)}
    BY <1>1, <1>6, <1>8
  <2>2. Cardinality(linked) = 1
    BY <2>1, FS_Singleton
  <2> QED
    BY <1>8, <2>1, <2>2 DEF named
<1> QED
  BY <1>7, <1>8-----------------------------------------------------------------------------
(* An indexing of a repository: what was read of the checkout.               *)

\* A file that is not edited is still to read, or was read as it is, or was missed and
\* the call has an error for it.
ReadAsItIs(p) == p \in pending \/ parsed[p] = checkout[p] \/ faults

Unedited == Paths \ edited

IndexTypes ==
  /\ checkout \in [Paths -> Sources \cup {Unparsable, NoFile}]
  /\ Contents /\ pending \subseteq Paths /\ edited \subseteq Paths /\ faults \in BOOLEAN
  /\ phase \in {"idle", "parse", "publish", "done"}

\* A replacement is sent only when every file was read, and told only when it was made.
IndexHistory ==
  /\ phase = "idle" => parsed = Unparsed /\ edited = {}
  /\ phase \in {"idle", "parse", "publish"} => index = Prior
  /\ phase = "parse" => \A p \in Unedited : ReadAsItIs(p)
  /\ phase = "publish" => \A p \in Unedited : parsed[p] = checkout[p]
  /\ phase = "done" /\ indexReply \in {"unchanged", "refused"} => index = Prior
  /\ phase = "done" /\ indexReply = "replaced" =>
       index = parsed /\ \A p \in Unedited : parsed[p] = checkout[p]

IndexInv == IndexTypes /\ IndexHistory

LEMMA IndexInitially == IndexInit => IndexInv
BY DEF IndexInit, IndexInv, IndexTypes, IndexHistory, Contents, Unparsed

LEMMA CollectKeeps == IndexInv /\ Collect => IndexInv'
<1> SUFFICES ASSUME IndexInv, Collect PROVE IndexInv'
  OBVIOUS
<1> USE DEF IndexInv
<1>1. PICK unlisted \in SUBSET Present :
        pending' = Present \ unlisted /\ faults' \in {unlisted # {}, TRUE}
  BY DEF Collect
<1>2. phase = "idle" /\ phase' = "parse"
      /\ UNCHANGED <<checkout, index, parsed, indexReply, edited>>
  BY DEF Collect
<1>3. parsed = Unparsed /\ edited = {} /\ index = Prior
  BY <1>2 DEF IndexHistory
<1>4. IndexTypes'
  BY <1>1, <1>2 DEF IndexTypes, Contents, Present
<1>5. ASSUME NEW p \in Paths PROVE ReadAsItIs(p)'
  <2>1. CASE checkout[p] = NoFile
    BY <1>2, <1>3, <2>1 DEF ReadAsItIs, Unparsed
  <2>2. CASE p \in Present \ unlisted
    BY <1>1, <2>2 DEF ReadAsItIs
  <2>3. CASE p \in unlisted
    <3>1. faults' = TRUE
      BY <1>1, <2>3
    <3> QED
      BY <3>1 DEF ReadAsItIs
  <2> QED
    BY <2>1, <2>2, <2>3 DEF Present
<1>6. IndexHistory'
  BY <1>2, <1>3, <1>5 DEF IndexHistory, Unedited
<1> QED
  BY <1>4, <1>6

LEMMA ParseKeeps == ASSUME NEW i \in DOMAIN Sorted PROVE IndexInv /\ ParseFile(i) => IndexInv'
<1> SUFFICES ASSUME IndexInv, ParseFile(i) PROVE IndexInv'
  OBVIOUS
<1> USE DEF IndexInv
<1> DEFINE p == Sorted[i]
<1>1. p \in Paths
  BY DEF Paths, ItemsOf
<1>2. phase = "parse" /\ pending' = pending \ {p}
      /\ UNCHANGED <<checkout, index, phase, indexReply, edited>>
  BY DEF ParseFile
<1>3. \/ checkout[p] \in {Unparsable, NoFile} /\ faults' = TRUE /\ parsed' = parsed
      \/ /\ checkout[p] \notin {Unparsable, NoFile}
         /\ parsed' = [parsed EXCEPT ![p] = checkout[p]] /\ faults' = faults
  BY DEF ParseFile
<1> HIDE DEF p
<1>4. IndexTypes'
  BY <1>1, <1>2, <1>3 DEF IndexTypes, Contents
<1>5. ASSUME NEW q \in Paths, ReadAsItIs(q) PROVE ReadAsItIs(q)'
  BY <1>1, <1>2, <1>3, <1>5 DEF ReadAsItIs, IndexTypes, Contents
<1>6. IndexHistory'
  BY <1>2, <1>5 DEF IndexHistory, Unedited
<1> QED
  BY <1>4, <1>6

LEMMA EditKeeps == ASSUME NEW p \in Paths PROVE IndexInv /\ Edit(p) => IndexInv'
<1> SUFFICES ASSUME IndexInv, Edit(p) PROVE IndexInv'
  OBVIOUS
<1> USE DEF IndexInv
<1>1. PICK s \in Sources \cup {Unparsable, NoFile} : checkout' = [checkout EXCEPT ![p] = s]
  BY DEF Edit
<1>2. phase \in {"parse", "publish"} /\ edited' = edited \cup {p}
      /\ UNCHANGED <<index, phase, pending, parsed, faults, indexReply>>
  BY DEF Edit
<1>3. IndexTypes'
  BY <1>1, <1>2 DEF IndexTypes, Contents
<1>4. \A q \in Unedited' : q \in Unedited /\ checkout'[q] = checkout[q]
  BY <1>1, <1>2 DEF Unedited, IndexTypes
<1>5. IndexHistory'
  BY <1>2, <1>4 DEF IndexHistory, ReadAsItIs
<1> QED
  BY <1>3, <1>5

\* Its steps: nothing is sent while a file is still to read, or with an error.
LEMMA IndexKept == IndexInv /\ [IndexNext]_indexVars => IndexInv'
<1> SUFFICES ASSUME IndexInv, [IndexNext]_indexVars PROVE IndexInv'
  OBVIOUS
<1> USE DEF IndexInv
<1>1. CASE Collect
  BY <1>1, CollectKeeps
<1>2. ASSUME NEW i \in DOMAIN Sorted, ParseFile(i) PROVE IndexInv'
  BY <1>2, ParseKeeps
<1>3. CASE Decide
  <2>1. phase' = "publish" => ~faults /\ pending = {}
    BY <1>3 DEF Decide
  <2>2. IndexTypes'
    BY <1>3 DEF IndexTypes, Contents, Decide
  <2> QED
    BY <1>3, <2>1, <2>2 DEF Decide, IndexHistory, Unedited, ReadAsItIs
<1>4. CASE PublishBundle
  BY <1>4 DEF PublishBundle, IndexTypes, IndexHistory, Contents, Unedited
<1>5. CASE EndIndex
  BY <1>5 DEF EndIndex, IndexTypes, IndexHistory, Contents, Unparsed
<1>6. ASSUME NEW p \in Paths, Edit(p) PROVE IndexInv'
  BY <1>6, EditKeeps
<1>7. CASE UNCHANGED indexVars
  BY <1>7 DEF indexVars, IndexTypes, IndexHistory, Contents, Unedited, ReadAsItIs
<1> QED
  BY <1>1, <1>2, <1>3, <1>4, <1>5, <1>6, <1>7 DEF IndexNext

LEMMA IndexInvHolds == IndexSpec => []IndexInv
BY IndexInitially, IndexKept, PTL DEF IndexSpec

\* ingest_code(): an index that is told as replaced has every file that was not edited
\* meanwhile, and its imports, owners and tests lead where the source says; one that is
\* told as unchanged, or refused, is as it was.
THEOREM IndexAlwaysTrue == IndexSpec => []IndexIsTrue
<1>1. IndexInv => IndexIsTrue
  <2> SUFFICES ASSUME IndexInv PROVE IndexIsTrue
    OBVIOUS
  <2>1. Contents
    BY DEF IndexInv, IndexTypes
  <2>2. ImportsAgree /\ OwnersAgree /\ TestsAgree
    BY <2>1, ImportsHold, OwnersHold, TestsHold
  <2>3. phase = "done" /\ indexReply = "replaced" => WholeIndex
    BY DEF IndexInv, IndexHistory, WholeIndex, Unedited
  <2> QED
    BY <2>2, <2>3 DEF IndexIsTrue, IndexInv, IndexHistory
<1> QED
  BY <1>1, IndexInvHolds, PTL
=============================================================================
