-------------------------- MODULE UserFilesProofs --------------------------
(***************************************************************************)
(* Proofs about what a user's processes leave in files.  A login takes     *)
(* effect, for any number of keys: the key told as logged in stays where   *)
(* it was put until another login overwrites it, and get_api_key() of a    *)
(* later server finds it there unless it is shadowed.  memory_auto() tells *)
(* the truth of the session file, for any number of calls and hooks.       *)
(***************************************************************************)
EXTENDS Login, SessionFile, TLAPS

\* The key that is due is a key, and is still where it was put.
DueIsThere ==
  due # NotDue =>
    /\ due.key \in ApiKeys
    /\ due.where = "ring" => ring = due.key
    /\ due.where = "file" => keyFile = due.key
    /\ due.where \in {"ring", "file"}

\* What a login was called with is a key or nothing.
ArgumentOK == argument \in MaybeKey

LoginInv == DueIsThere /\ ArgumentOK

LEMMA InvStarts == LoginInit => LoginInv
BY DEF LoginInit, LoginInv, DueIsThere, ArgumentOK, MaybeKey

LEMMA RecordedIsThere ==
  ASSUME LoginInv, NEW w \in {"ring", "file"}, Recorded(w),
         w = "ring" => ring' = argument, w = "file" => keyFile' = argument,
         argument' = argument
  PROVE  LoginInv'
<1>1. ArgumentOK'
  BY DEF LoginInv, ArgumentOK
<1>2. CASE outcome = "logged_in" /\ argument # Nothing
  <2>1. due' = [key |-> argument, where |-> w]
    BY <1>2 DEF Recorded
  <2>2. argument \in ApiKeys
    BY <1>2 DEF LoginInv, ArgumentOK, MaybeKey
  <2> QED
    BY <1>1, <2>1, <2>2 DEF LoginInv, DueIsThere
<1>3. CASE ~(outcome = "logged_in" /\ argument # Nothing)
  <2>1. due' = NotDue
    BY <1>3 DEF Recorded
  <2> QED
    BY <1>1, <2>1 DEF LoginInv, DueIsThere
<1> QED
  BY <1>2, <1>3

LEMMA InvKept == LoginInv /\ [LoginNext]_loginVars => LoginInv'
<1> SUFFICES ASSUME LoginInv, [LoginNext]_loginVars PROVE LoginInv'
  OBVIOUS
<1> USE DEF LoginInv, DueIsThere, ArgumentOK, MaybeKey, places, setting, server, login
<1>1. CASE Start
  BY <1>1 DEF Start
<1>2. CASE BuildRemote
  BY <1>2 DEF BuildRemote
<1>3. CASE Stop
  BY <1>3 DEF Stop
<1>4. CASE \E k \in MaybeKey : Ask(k)
  BY <1>4 DEF Ask
<1>5. CASE Refuse
  BY <1>5 DEF Refuse
<1>6. CASE KeepInRing
  <2>1. Recorded("ring") /\ ring' = argument /\ argument' = argument
    BY <1>6 DEF KeepInRing
  <2> QED
    BY <2>1, RecordedIsThere
<1>7. CASE KeepInFile
  <2>1. Recorded("file") /\ keyFile' = argument /\ argument' = argument
    BY <1>7 DEF KeepInFile
  <2> QED
    BY <2>1, RecordedIsThere
<1>8. CASE FileFails
  BY <1>8 DEF FileFails
<1>9. CASE RingChanges
  BY <1>9 DEF RingChanges
<1>10. CASE UNCHANGED loginVars
  BY <1>10 DEF loginVars
<1> QED
  BY <1>1, <1>2, <1>3, <1>4, <1>5, <1>6, <1>7, <1>8, <1>9, <1>10 DEF LoginNext

\* What get_api_key() finds when the key that is due is not shadowed.
LEMMA DueIsFound ==
  ASSUME LoginInv, due # NotDue, Unshadowed
  PROVE  KeyFound = due.key /\ due.key # Nothing
<1>1. due.key \in ApiKeys /\ env = Nothing
  BY DEF LoginInv, DueIsThere, Unshadowed
<1>2. due.key # Nothing
  BY <1>1, LoginAssumption
<1>3. CASE due.where = "ring"
  BY <1>1, <1>2, <1>3 DEF LoginInv, DueIsThere, Unshadowed, KeyFound
<1>4. CASE due.where = "file"
  <2>1. keyFile = due.key /\ ~(ringUp /\ ring # Nothing) /\ (windows \/ app = Nothing)
    BY <1>4 DEF LoginInv, DueIsThere, Unshadowed
  <2>2. KeyFound = keyFile
    BY <1>1, <2>1 DEF KeyFound
  <2> QED
    BY <1>2, <2>1, <2>2
<1> QED
  BY <1>3, <1>4 DEF LoginInv, DueIsThere

\* One step of a server, seen from the key that is due.
Heeds ==
  due # NotDue /\ Unshadowed =>
    /\ offered' # offered => offered' \in {"down", "pro", "pro_plus"}
    /\ uses' # uses => uses' \in {NotBuilt, due.key}

LEMMA StepHeeds == LoginInv /\ [LoginNext]_loginVars => Heeds
<1> SUFFICES ASSUME LoginInv, [LoginNext]_loginVars, due # NotDue, Unshadowed
             PROVE  /\ offered' # offered => offered' \in {"down", "pro", "pro_plus"}
                    /\ uses' # uses => uses' \in {NotBuilt, due.key}
  BY DEF Heeds
<1>1. KeyFound = due.key /\ due.key # Nothing
  BY DueIsFound
<1>2. CASE Start
  BY <1>1, <1>2 DEF Start, Tier
<1>3. CASE BuildRemote
  BY <1>1, <1>3 DEF BuildRemote
<1>4. CASE Stop
  BY <1>4 DEF Stop
<1>5. CASE UNCHANGED <<offered, uses>>
  BY <1>5
<1>6. (\E k \in MaybeKey : Ask(k)) \/ Refuse \/ KeepInRing \/ KeepInFile \/ FileFails
        \/ RingChanges \/ UNCHANGED loginVars => UNCHANGED <<offered, uses>>
  BY DEF Ask, Refuse, KeepInRing, KeepInFile, FileFails, RingChanges, loginVars, server
<1> QED
  BY <1>2, <1>3, <1>4, <1>5, <1>6 DEF LoginNext

\* A server that starts after a login that was told as done has its key, whatever comes
\* between, unless another key shadows it (login() in server.py, get_api_key() in tier.py).
THEOREM LoginEffective == LoginSpec => LoginTakesEffect
<1>1. LoginInit => LoginInv
  BY InvStarts
<1>2. LoginInv /\ [LoginNext]_loginVars => LoginInv'
  BY InvKept
<1>3. LoginInv /\ [LoginNext]_loginVars => [Heeds]_loginVars
  BY StepHeeds
<1>4. LoginSpec => [][Heeds]_loginVars
  BY <1>1, <1>2, <1>3, PTL DEF LoginSpec
<1> QED
  BY <1>4, PTL DEF LoginTakesEffect, Heeds

-----------------------------------------------------------------------------
(* The session file.  A call that has filled its temporary file has in it   *)
(* what was in the session file when it was last written.                   *)

FunctionsOK ==
  /\ temps \in [Autos -> Contents \cup {NoTemp}] /\ published \in [Autos -> BOOLEAN]
  /\ stage \in [Autos -> {"idle", "read", "replace", "answered"}]
  /\ autoReply \in [Autos -> {"none", "saved", "not_saved", "unreachable"}]
  /\ tries \in [Autos -> Nat]
  /\ session \in OnDisk

UnderWayOK(c) ==
  /\ stage[c] # "answered" => ~published[c]
  /\ stage[c] \in {"idle", "read"} => temps[c] = NoTemp
  /\ stage[c] = "replace" => temps[c] \in Contents
  /\ stage[c] = "replace" /\ c \notin behind =>
       session # Corrupt /\ (session # Absent => temps[c].kept = session.kept)

SessionInv == FunctionsOK /\ \A c \in Autos : UnderWayOK(c) /\ ReplyIsTrue(c)

LEMMA SessionStarts == SessionFileInit => SessionInv
BY DEF SessionFileInit, SessionInv, FunctionsOK, UnderWayOK, ReplyIsTrue, OnDisk, Contents

\* A call that ends without having replaced the file says that nothing is saved.
LEMMA EndTells ==
  ASSUME SessionInv, NEW c \in Autos, stage[c] # "answered", EndWrite(c, "not_saved"),
         UNCHANGED <<session, published, behind>>, tries' \in [Autos -> Nat]
  PROVE  SessionInv'
<1>1. /\ stage' = [stage EXCEPT ![c] = "answered"]
      /\ temps' = [temps EXCEPT ![c] = NoTemp] \/ temps' = temps
      /\ \/ autoReply' = [autoReply EXCEPT ![c] = "not_saved"] /\ temps'[c] = NoTemp
         \/ autoReply' = [autoReply EXCEPT ![c] = "unreachable"]
  BY DEF SessionInv, FunctionsOK, EndWrite, Move
<1>2. FunctionsOK'
  BY <1>1 DEF SessionInv, FunctionsOK, OnDisk
<1>3. ASSUME NEW d \in Autos PROVE UnderWayOK(d)' /\ ReplyIsTrue(d)'
  <2>1. UnderWayOK(d) /\ ReplyIsTrue(d)
    BY DEF SessionInv
  <2>2. CASE d # c
    BY <1>1, <2>1, <2>2 DEF SessionInv, FunctionsOK, UnderWayOK, ReplyIsTrue
  <2>3. CASE d = c
    BY <1>1, <2>1, <2>3 DEF SessionInv, FunctionsOK, UnderWayOK, ReplyIsTrue
  <2> QED
    BY <2>2, <2>3
<1> QED
  BY <1>2, <1>3 DEF SessionInv

LEMMA ReadKeeps ==
  ASSUME SessionInv, NEW c \in Autos, ReadSession(c)
  PROVE  SessionInv'
<1> DEFINE new == [kept |-> IF session = Absent THEN NoSettings ELSE session.kept, overrides |-> c]
<1>1. /\ stage[c] = "read" /\ session # Corrupt /\ stage' = [stage EXCEPT ![c] = "replace"]
      /\ temps' = [temps EXCEPT ![c] = new] /\ behind' = behind \ {c}
      /\ UNCHANGED <<session, tries, autoReply, published>>
  BY DEF ReadSession, Move
<1>2. new \in Contents
  BY <1>1, SessionFileAssumption DEF SessionInv, FunctionsOK, OnDisk, Contents
<1>3. FunctionsOK'
  BY <1>1, <1>2 DEF SessionInv, FunctionsOK, OnDisk
<1>4. ASSUME NEW d \in Autos PROVE UnderWayOK(d)' /\ ReplyIsTrue(d)'
  <2>1. UnderWayOK(d) /\ ReplyIsTrue(d)
    BY DEF SessionInv
  <2>2. CASE d # c
    BY <1>1, <2>1, <2>2 DEF SessionInv, FunctionsOK, UnderWayOK, ReplyIsTrue
  <2>3. CASE d = c
    <3>1. temps'[c] = new /\ stage'[c] = "replace" /\ (session # Absent => new.kept = session.kept)
      BY <1>1 DEF SessionInv, FunctionsOK
    <3> QED
      BY <1>1, <1>2, <2>1, <2>3, <3>1 DEF UnderWayOK, ReplyIsTrue
  <2> QED
    BY <2>2, <2>3
<1> QED
  BY <1>3, <1>4 DEF SessionInv

LEMMA PublishKeeps ==
  ASSUME SessionInv, NEW c \in Autos, Publish(c)
  PROVE  SessionInv' /\ \A d \in Autos : Keeps(d)
<1>1. /\ stage[c] = "replace" /\ session' = temps[c] /\ behind' = Autos /\ tries' = tries
      /\ published' = [published EXCEPT ![c] = TRUE] /\ temps' = [temps EXCEPT ![c] = NoTemp]
      /\ stage' = [stage EXCEPT ![c] = "answered"]
      /\ autoReply' = [autoReply EXCEPT ![c] = "saved"]
  BY DEF Publish, Move
<1>2. temps[c] \in Contents
  BY <1>1 DEF SessionInv, UnderWayOK
<1>3. FunctionsOK'
  BY <1>1, <1>2 DEF SessionInv, FunctionsOK, OnDisk
<1>4. ASSUME NEW d \in Autos PROVE UnderWayOK(d)' /\ ReplyIsTrue(d)' /\ Keeps(d)
  <2>1. UnderWayOK(d) /\ ReplyIsTrue(d)
    BY DEF SessionInv
  <2>2. CASE d # c
    BY <1>1, <2>1, <2>2 DEF SessionInv, FunctionsOK, UnderWayOK, ReplyIsTrue, Keeps
  <2>3. CASE d = c
    BY <1>1, <2>1, <2>3 DEF SessionInv, FunctionsOK, UnderWayOK, ReplyIsTrue, Keeps
  <2> QED
    BY <2>2, <2>3
<1> QED
  BY <1>3, <1>4 DEF SessionInv

LEMMA RefusedKeeps ==
  ASSUME SessionInv, NEW c \in Autos, Refused(c)
  PROVE  SessionInv'
<1>1. /\ stage[c] = "replace" /\ tries' = [tries EXCEPT ![c] = @ + 1]
      /\ UNCHANGED <<session, published, behind>>
  BY DEF Refused
<1>2. tries' \in [Autos -> Nat]
  BY <1>1 DEF SessionInv, FunctionsOK
<1>3. CASE tries[c] = 2
  BY <1>1, <1>2, <1>3, EndTells DEF Refused
<1>4. CASE tries[c] # 2
  <2>1. UNCHANGED <<temps, stage, autoReply>>
    BY <1>4 DEF Refused
  <2> QED
    BY <1>1, <1>2, <2>1 DEF SessionInv, FunctionsOK, UnderWayOK, ReplyIsTrue
<1> QED
  BY <1>3, <1>4

\* Hooks change the session file only, and every call is then behind.
LEMMA HooksKeep ==
  ASSUME SessionInv, HookOpens \/ HookWrites
  PROVE  SessionInv'
<1>1. UNCHANGED <<temps, stage, tries, autoReply, published>>
  BY DEF HookOpens, HookWrites, callVars
<1>2. \/ UNCHANGED <<session, behind>>
      \/ behind' = Autos /\ session' \in OnDisk
  <2>1. CASE HookOpens
    BY <2>1 DEF HookOpens, callVars
  <2>2. CASE HookWrites
    <3>1. session \in Contents => session.overrides \in Autos \cup {NoSettings}
      BY DEF Contents
    <3>2. session' \in OnDisk
      BY <2>2, <3>1 DEF HookWrites, OnDisk, Contents
    <3> QED
      BY <2>2, <3>2 DEF HookWrites
  <2> QED
    BY <2>1, <2>2
<1> QED
  BY <1>1, <1>2 DEF SessionInv, FunctionsOK, UnderWayOK, ReplyIsTrue

LEMMA ConfigureKeeps ==
  ASSUME SessionInv, NEW c \in Autos, NEW named \in BOOLEAN, Configure(c, named)
  PROVE  SessionInv'
<1>1. /\ stage[c] = "idle" /\ UNCHANGED <<session, temps, tries, published, behind>>
      /\ \/ stage' = [stage EXCEPT ![c] = "read"] /\ autoReply' = autoReply
         \/ /\ stage' = [stage EXCEPT ![c] = "answered"]
            /\ autoReply' = [autoReply EXCEPT ![c] = "not_saved"]
  BY DEF Configure, Move
<1> QED
  BY <1>1 DEF SessionInv, FunctionsOK, UnderWayOK, ReplyIsTrue

SessionStep == \A c \in Autos : ReplyIsTrue(c)' /\ Keeps(c)

LEMMA SessionKept ==
  SessionInv /\ [SessionFileNext]_sessionVars => SessionInv' /\ [SessionStep]_sessionVars
<1> SUFFICES ASSUME SessionInv, [SessionFileNext]_sessionVars
             PROVE  SessionInv' /\ \A c \in Autos : Keeps(c)
  BY DEF SessionInv, SessionStep
<1>1. ASSUME SessionInv', published' = published PROVE SessionInv' /\ \A c \in Autos : Keeps(c)
  BY <1>1 DEF Keeps
<1>2. ASSUME NEW c \in Autos, NEW named \in BOOLEAN, Configure(c, named)
      PROVE  SessionInv' /\ \A d \in Autos : Keeps(d)
  BY <1>1, <1>2, ConfigureKeeps DEF Configure
<1>3. ASSUME NEW c \in Autos, ReadSession(c) PROVE SessionInv' /\ \A d \in Autos : Keeps(d)
  BY <1>1, <1>3, ReadKeeps DEF ReadSession
<1>4. ASSUME NEW c \in Autos, CannotRead(c) \/ CannotFill(c) \/ CannotReplace(c)
      PROVE  SessionInv' /\ \A d \in Autos : Keeps(d)
  <2>1. /\ stage[c] # "answered" /\ EndWrite(c, "not_saved") /\ tries' = tries
        /\ UNCHANGED <<session, published, behind>>
    BY <1>4 DEF CannotRead, CannotFill, CannotReplace
  <2>2. tries' \in [Autos -> Nat]
    BY <2>1 DEF SessionInv, FunctionsOK
  <2> QED
    BY <1>1, <2>1, <2>2, EndTells
<1>5. ASSUME NEW c \in Autos, Refused(c) PROVE SessionInv' /\ \A d \in Autos : Keeps(d)
  BY <1>1, <1>5, RefusedKeeps DEF Refused
<1>6. CASE HookOpens \/ HookWrites
  BY <1>1, <1>6, HooksKeep DEF HookOpens, HookWrites, callVars
<1>7. CASE UNCHANGED sessionVars
  BY <1>1, <1>7 DEF sessionVars, callVars, SessionInv, FunctionsOK, UnderWayOK, ReplyIsTrue
<1> QED
  BY <1>2, <1>3, <1>4, <1>5, <1>6, <1>7, PublishKeeps DEF SessionFileNext

\* memory_auto() tells settings as saved exactly when they are in the file, leaves no
\* temporary file unspoken of, and loses only what was written while it ran: for any
\* number of overlapping calls, with every error, and whatever hooks do.
THEOREM SessionFileKept == SessionFileSpec => SessionFileIsTrue
<1>1. SessionFileSpec => [][SessionStep]_sessionVars
  BY SessionStarts, SessionKept, PTL DEF SessionFileSpec
<1> QED
  BY <1>1, PTL DEF SessionFileIsTrue, SessionStep
=============================================================================
