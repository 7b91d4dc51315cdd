-------------------------- MODULE HostedDoorProofs --------------------------
(***************************************************************************)
(* Proofs about the two ways into the hosted server, which share no state: *)
(* RateLimit, for every set of addresses and paths, every limit and        *)
(* window, and every length of time; and KeyVerifier, for any number of    *)
(* callers and keys, any time to live and any time on the way.             *)
(***************************************************************************)
EXTENDS RateLimit, KeyVerifier, FiniteSetTheorems, SequenceTheorems, TLAPS

-----------------------------------------------------------------------------
(* The budgets of requests without authorization.                           *)

\* What the requests s that bucket b was charged for say of its value k: they
\* lie in the windows that held them, later ones count more or lie in a later
\* window, and k is beyond all of them.
InWindow(b, e) ==
  /\ e.held.count \in 1 .. LimitOf(b)
  /\ e.held.start <= e.at /\ e.at < e.held.start + WindowOf(b)
  /\ e.held.count = 1 => e.at = e.held.start

Beyond(b, h, k) ==
  \/ h.start = k.start /\ h.count <= k.count
  \/ h.start + WindowOf(b) <= k.start

Consistent(b, t, k, s) ==
  /\ k # NoBucket => k.start <= t /\ k.count \in 1 .. LimitOf(b)
  /\ \A i \in 1 .. Len(s) : InWindow(b, s[i]) /\ k # NoBucket /\ Beyond(b, s[i].held, k)
  /\ \A i, j \in 1 .. Len(s) :
       i < j => \/ s[i].held.start = s[j].held.start /\ s[i].held.count < s[j].held.count
                \/ s[i].held.start + WindowOf(b) <= s[j].held.start

IBudget == RateTypeOK /\ \A b \in Buckets : Consistent(b, instant, bucket[b], log[b])

-----------------------------------------------------------------------------
(* What hit() does to one bucket.                                           *)

LEMMA Rules ==
  ASSUME NEW b \in Buckets
  PROVE  WindowOf(b) \in Nat \ {0} /\ LimitOf(b) \in Nat \ {0}
BY RulesAssumption DEF Buckets, WindowOf, LimitOf, Global

LEMMA CurrentOK ==
  ASSUME RateTypeOK, NEW b \in Buckets, Consistent(b, instant, bucket[b], log[b])
  PROVE  /\ Current(b) \in Counter /\ Current(b).start <= instant
         /\ instant < Current(b).start + WindowOf(b) /\ Current(b).count <= LimitOf(b)
         /\ Current(b).count = 0 => Current(b).start = instant
<1>1. bucket[b] \in Counter \cup {NoBucket} /\ instant \in Nat /\ instant \in Times
  BY RulesAssumption DEF RateTypeOK, Times
<1>2. CASE bucket[b] = NoBucket \/ instant - bucket[b].start >= WindowOf(b)
  <2>1. Current(b) = [start |-> instant, count |-> 0]
    BY <1>2 DEF Current
  <2> QED
    BY <1>1, <2>1, Rules DEF Counter
<1>3. CASE bucket[b] # NoBucket /\ ~(instant - bucket[b].start >= WindowOf(b))
  <2>1. Current(b) = bucket[b] /\ bucket[b] \in Counter
    BY <1>1, <1>3 DEF Current
  <2>2. bucket[b].start \in Nat /\ bucket[b].count \in Nat
    BY <2>1, RulesAssumption DEF Counter, Times
  <2> QED
    BY <1>1, <1>3, <2>1, <2>2, Rules DEF Consistent
<1> QED
  BY <1>2, <1>3

LEMMA ChargeOK ==
  ASSUME RateTypeOK, NEW b \in Buckets, NEW i \in 1 .. Len(log[b])
  PROVE  /\ log[b][i] \in Served /\ log[b][i].at \in Nat
         /\ log[b][i].held.start \in Nat /\ log[b][i].held.count \in Nat
<1>1. log[b] \in Seq(Served)
  BY DEF RateTypeOK
<1>2. log[b][i] \in Served
  BY <1>1
<1> QED
  BY <1>2, RulesAssumption DEF Served, Counter, Times

LEMMA HitOK ==
  ASSUME RateTypeOK, NEW b \in Buckets, Consistent(b, instant, bucket[b], log[b])
  PROVE  /\ Hit(b) \in Counter /\ Hit(b).start = Current(b).start
         /\ Hit(b).count = IF Admits(b) THEN Current(b).count + 1 ELSE Current(b).count
         /\ Hit(b).count \in 1 .. LimitOf(b)
<1>1. Current(b) \in Counter /\ Current(b).count <= LimitOf(b) /\ Current(b).count \in Nat
  BY CurrentOK DEF Counter
<1> QED
  BY <1>1, Rules DEF Hit, Admits, Counter

\* The entries already there stay behind the counter, whatever it held.
LEMMA HitBeyond ==
  ASSUME RateTypeOK, NEW b \in Buckets, Consistent(b, instant, bucket[b], log[b]),
         NEW i \in 1 .. Len(log[b])
  PROVE  \/ /\ log[b][i].held.start = Hit(b).start
            /\ log[b][i].held.count <= Current(b).count
         \/ log[b][i].held.start + WindowOf(b) <= Hit(b).start
<1> DEFINE h == log[b][i].held
<1>1. /\ bucket[b] \in Counter /\ Beyond(b, h, bucket[b]) /\ h \in Counter
      /\ bucket[b] # NoBucket
  BY ChargeOK DEF RateTypeOK, Consistent, Served
<1>2. /\ h.start \in Nat /\ h.count \in Nat /\ bucket[b].start \in Nat /\ bucket[b].count \in Nat
      /\ instant \in Nat /\ WindowOf(b) \in Nat
  BY <1>1, Rules, RulesAssumption DEF RateTypeOK, Times, Counter
<1>3. Hit(b).start = Current(b).start
  BY HitOK
<1>4. CASE instant - bucket[b].start >= WindowOf(b)
  <2>1. Current(b).start = instant
    BY <1>4 DEF Current
  <2> QED
    BY <1>1, <1>2, <1>3, <1>4, <2>1 DEF Beyond
<1>5. CASE ~(instant - bucket[b].start >= WindowOf(b))
  <2>1. Current(b) = bucket[b]
    BY <1>1, <1>5 DEF Current
  <2> QED
    BY <1>1, <1>2, <1>3, <2>1 DEF Beyond
<1> QED
  BY <1>4, <1>5

LEMMA HitKeeps ==
  ASSUME RateTypeOK, NEW b \in Buckets, Consistent(b, instant, bucket[b], log[b])
  PROVE  Consistent(b, instant, Hit(b), log[b])
<1>1. Hit(b) # NoBucket /\ Hit(b).start <= instant /\ Hit(b).count \in 1 .. LimitOf(b)
  BY HitOK, CurrentOK, NoneAssumption
<1>2. ASSUME NEW i \in 1 .. Len(log[b]) PROVE Beyond(b, log[b][i].held, Hit(b))
  <2>1. log[b][i].held.count \in Nat /\ Current(b).count \in Nat
    BY CurrentOK, ChargeOK DEF Counter
  <2> QED
    BY <2>1, HitBeyond, HitOK DEF Beyond
<1> QED
  BY <1>1, <1>2 DEF Consistent

LEMMA AdmitKeeps ==
  ASSUME RateTypeOK, NEW b \in Buckets, Consistent(b, instant, bucket[b], log[b]), Admits(b),
         NEW e \in Served, e.at = instant, e.held = Hit(b)
  PROVE  /\ Append(log[b], e) \in Seq(Served)
         /\ Consistent(b, instant, Hit(b), Append(log[b], e))
<1> DEFINE s == log[b]  n == Len(s)  s2 == Append(s, e)
<1>1. /\ s \in Seq(Served) /\ n \in Nat
      /\ s2 \in Seq(Served) /\ Len(s2) = n + 1 /\ s2[n + 1] = e
      /\ \A i \in 1 .. n : s2[i] = s[i]
  BY AppendProperties DEF RateTypeOK
<1>2. /\ Hit(b) \in Counter /\ Hit(b).count = Current(b).count + 1 /\ Current(b).count \in Nat
      /\ Hit(b).start = Current(b).start /\ instant \in Nat /\ WindowOf(b) \in Nat
      /\ Hit(b).start \in Nat /\ Hit(b).count <= LimitOf(b) /\ LimitOf(b) \in Nat
  BY HitOK, CurrentOK, Rules, RulesAssumption DEF RateTypeOK, Times, Counter
<1>3. InWindow(b, e) /\ Beyond(b, e.held, Hit(b))
  BY <1>2, HitOK, CurrentOK DEF InWindow, Beyond
<1>4. Consistent(b, instant, Hit(b), s)
  BY HitKeeps
<1>5. ASSUME NEW i \in 1 .. n
      PROVE  \/ s[i].held.start = e.held.start /\ s[i].held.count < e.held.count
             \/ s[i].held.start + WindowOf(b) <= e.held.start
  <2>1. s[i].held.count \in Nat
    BY ChargeOK
  <2> QED
    BY <1>2, <2>1, HitBeyond
<1>6. ASSUME NEW i \in 1 .. n + 1
      PROVE  InWindow(b, s2[i]) /\ Hit(b) # NoBucket /\ Beyond(b, s2[i].held, Hit(b))
  BY <1>1, <1>3, <1>4, NoneAssumption, <1>2 DEF Consistent
<1>7. ASSUME NEW i \in 1 .. n + 1, NEW j \in 1 .. n + 1, i < j
      PROVE  \/ s2[i].held.start = s2[j].held.start /\ s2[i].held.count < s2[j].held.count
             \/ s2[i].held.start + WindowOf(b) <= s2[j].held.start
  <2>1. CASE j = n + 1
    <3>1. i \in 1 .. n
      BY <1>1, <1>7, <2>1
    <3> QED
      BY <1>1, <1>5, <2>1, <3>1
  <2>2. CASE j \in 1 .. n
    <3>1. i \in 1 .. n
      BY <1>1, <1>7, <2>2
    <3> QED
      BY <1>1, <1>4, <1>7, <2>2, <3>1 DEF Consistent
  <2> QED
    BY <1>1, <1>7, <2>1, <2>2
<1> QED
  BY <1>1, <1>4, <1>6, <1>7 DEF Consistent

LEMMA TickKeeps ==
  ASSUME RateTypeOK, NEW b \in Buckets, Consistent(b, instant, bucket[b], log[b])
  PROVE  Consistent(b, instant + 1, bucket[b], log[b])
<1>1. bucket[b] \in Counter \cup {NoBucket} /\ instant \in Nat
  BY RulesAssumption DEF RateTypeOK, Times
<1>2. bucket[b] # NoBucket => bucket[b].start <= instant + 1
  BY <1>1, RulesAssumption DEF Consistent, Counter, Times
<1> QED
  BY <1>2 DEF Consistent

-----------------------------------------------------------------------------
(* Every step keeps the invariant.                                          *)

LEMMA AnswerOK ==
  ASSUME RateTypeOK, NEW b \in Buckets, Consistent(b, instant, bucket[b], log[b]),
         NEW peer \in Peers, NEW path \in Paths, Refuse(peer, path, b)
  PROVE  told' \in Answer
<1>1. Current(b) \in Counter /\ Current(b).start \in Times /\ instant \in Times
  BY CurrentOK DEF RateTypeOK, Counter
<1>2. RetryAfter(b) \in Nat
  <2> DEFINE left == WindowOf(b) - (instant - Current(b).start)
             kept == IF left < Second THEN Second ELSE left
  <2>1. left \in Int /\ Second \in Nat \ {0}
    BY <1>1, Rules, RulesAssumption DEF Times
  <2>2. kept \in Nat
    BY <2>1
  <2>3. kept \div Second \in Nat
    BY <2>1, <2>2
  <2> QED
    BY <2>3 DEF RetryAfter
<1> QED
  BY <1>1, <1>2 DEF Refuse, Answer

LEMMA InitIInv == RateInit => IBudget
<1> SUFFICES ASSUME RateInit PROVE IBudget
  OBVIOUS
<1>1. RateTypeOK
  BY RulesAssumption DEF RateInit, RateTypeOK, Times
<1>2. ASSUME NEW b \in Buckets PROVE Consistent(b, instant, bucket[b], log[b])
  <2>1. bucket[b] = NoBucket /\ log[b] = <<>>
    BY DEF RateInit
  <2>2. Len(log[b]) = 0
    BY <2>1
  <2> QED
    BY <2>1, <2>2 DEF Consistent
<1> QED
  BY <1>1, <1>2 DEF IBudget

\* A bucket the step leaves alone, charges, or charges for a request it admits.
LEMMA BucketStep ==
  ASSUME IBudget, NEW b \in Buckets, instant' = instant,
         \/ bucket'[b] = bucket[b] /\ log'[b] = log[b]
         \/ bucket'[b] = Hit(b) /\ log'[b] = log[b]
         \/ /\ bucket'[b] = Hit(b) /\ Admits(b)
            /\ \E e \in Served : e.at = instant /\ e.held = Hit(b) /\ log'[b] = Append(log[b], e)
  PROVE  /\ bucket'[b] \in Counter \cup {NoBucket} /\ log'[b] \in Seq(Served)
         /\ Consistent(b, instant', bucket'[b], log'[b])
<1>1. RateTypeOK /\ Consistent(b, instant, bucket[b], log[b])
  BY DEF IBudget
<1>2. bucket[b] \in Counter \cup {NoBucket} /\ log[b] \in Seq(Served)
  BY <1>1 DEF RateTypeOK
<1>3. CASE bucket'[b] = bucket[b] /\ log'[b] = log[b]
  BY <1>1, <1>2, <1>3
<1>4. CASE bucket'[b] = Hit(b) /\ log'[b] = log[b]
  BY <1>1, <1>2, <1>4, HitOK, HitKeeps
<1>5. ASSUME bucket'[b] = Hit(b), Admits(b),
             NEW e \in Served, e.at = instant, e.held = Hit(b), log'[b] = Append(log[b], e)
      PROVE  /\ bucket'[b] \in Counter \cup {NoBucket} /\ log'[b] \in Seq(Served)
             /\ Consistent(b, instant', bucket'[b], log'[b])
  BY <1>1, <1>5, HitOK, AdmitKeeps
<1> QED
  BY <1>3, <1>4, <1>5

LEMMA BucketsStep ==
  ASSUME IBudget, instant' = instant, told' \in Answer \cup {NoAnswer},
         bucket' = [b \in Buckets |-> bucket'[b]], log' = [b \in Buckets |-> log'[b]],
         \A b \in Buckets :
           \/ bucket'[b] = bucket[b] /\ log'[b] = log[b]
           \/ bucket'[b] = Hit(b) /\ log'[b] = log[b]
           \/ /\ bucket'[b] = Hit(b) /\ Admits(b)
              /\ \E e \in Served : e.at = instant /\ e.held = Hit(b) /\ log'[b] = Append(log[b], e)
  PROVE  IBudget'
<1>1. \A b \in Buckets : /\ bucket'[b] \in Counter \cup {NoBucket} /\ log'[b] \in Seq(Served)
                         /\ Consistent(b, instant', bucket'[b], log'[b])
  BY BucketStep
<1>2. RateTypeOK'
  BY <1>1 DEF IBudget, RateTypeOK
<1> QED
  BY <1>1, <1>2 DEF IBudget

LEMMA OwnBucket ==
  ASSUME NEW peer \in Peers, NEW header \in Peers \cup {NoHeader}, NEW path \in Paths
  PROVE  /\ Own(path, ClientIp(peer, header)) \in Buckets
         /\ Own(path, ClientIp(peer, header)) # Global
BY RulesAssumption DEF Own, ClientIp, Buckets, Global

\* The record that Admit appends to the log of a charged bucket.
LEMMA EntryServed ==
  ASSUME IBudget, NEW b \in Buckets, NEW peer \in Peers, NEW path \in Paths
  PROVE  [peer |-> peer, path |-> path, at |-> instant, held |-> Hit(b)] \in Served
<1>1. Hit(b) \in Counter /\ instant \in Times
  BY HitOK DEF IBudget, RateTypeOK
<1> QED
  BY <1>1 DEF Served

LEMMA RequestStep ==
  ASSUME IBudget, NEW peer \in Peers, NEW header \in Peers \cup {NoHeader}, NEW path \in Paths,
         Request(peer, header, path)
  PROVE  IBudget'
<1> DEFINE own == Own(path, ClientIp(peer, header))
<1>1. own \in Buckets
  BY OwnBucket
<1>2. /\ instant' = instant /\ bucket' = [bucket EXCEPT ![own] = Hit(own)]
      /\ IF Admits(own) THEN Admit(peer, path, {own}) ELSE Refuse(peer, path, own)
  BY DEF Request
<1>3. RateTypeOK
  BY DEF IBudget
<1>4. /\ bucket' = [b \in Buckets |-> bucket'[b]] /\ bucket'[own] = Hit(own)
      /\ \A b \in Buckets \ {own} : bucket'[b] = bucket[b]
  BY <1>1, <1>2, <1>3 DEF RateTypeOK
<1>5. CASE Admits(own)
  <2>1. told' = told /\ told \in Answer \cup {NoAnswer}
    BY <1>2, <1>3, <1>5 DEF Admit, RateTypeOK
  <2>2. /\ log' = [b \in Buckets |-> log'[b]]
        /\ log'[own] = Append(log[own], [peer |-> peer, path |-> path, at |-> instant, held |-> Hit(own)])
        /\ \A b \in Buckets \ {own} : log'[b] = log[b]
    BY <1>1, <1>2, <1>5 DEF Admit
  <2> QED
    BY <1>1, <1>2, <1>4, <1>5, <2>1, <2>2, EntryServed, BucketsStep
<1>6. CASE ~Admits(own)
  <2>1. told' \in Answer /\ log' = log
    BY <1>1, <1>2, <1>3, <1>6, AnswerOK DEF IBudget, Refuse
  <2>2. log = [b \in Buckets |-> log[b]]
    BY <1>3 DEF RateTypeOK
  <2> QED
    BY <1>1, <1>2, <1>4, <2>1, <2>2, BucketsStep
<1> QED
  BY <1>5, <1>6

LEMMA RegisterStep ==
  ASSUME IBudget, NEW peer \in Peers, NEW header \in Peers \cup {NoHeader}, "register" \in Paths,
         Register(peer, header)
  PROVE  IBudget'
<1> DEFINE own == Own("register", ClientIp(peer, header))
<1>1. own \in Buckets /\ own # Global /\ Global \in Buckets
  BY OwnBucket DEF Buckets
<1>2. RateTypeOK /\ log = [b \in Buckets |-> log[b]]
  BY DEF IBudget, RateTypeOK
<1>3. CASE ~Admits(Global)
  <2>1. /\ instant' = instant /\ bucket' = [bucket EXCEPT ![Global] = Hit(Global)]
        /\ Refuse(peer, "register", Global)
    BY <1>3 DEF Register
  <2>2. /\ bucket' = [b \in Buckets |-> bucket'[b]] /\ bucket'[Global] = Hit(Global)
        /\ \A b \in Buckets \ {Global} : bucket'[b] = bucket[b]
    BY <1>1, <1>2, <2>1 DEF RateTypeOK
  <2>3. told' \in Answer /\ log' = log
    BY <1>1, <1>2, <2>1, AnswerOK DEF IBudget, Refuse
  <2> QED
    BY <1>2, <2>1, <2>2, <2>3, BucketsStep
<1>4. CASE Admits(Global)
  <2>1. /\ instant' = instant /\ bucket' = [bucket EXCEPT ![Global] = Hit(Global), ![own] = Hit(own)]
        /\ IF Admits(own) THEN Admit(peer, "register", {Global, own})
           ELSE Refuse(peer, "register", own)
    BY <1>4 DEF Register
  <2>2. /\ bucket' = [b \in Buckets |-> bucket'[b]]
        /\ bucket'[Global] = Hit(Global) /\ bucket'[own] = Hit(own)
        /\ \A b \in Buckets \ {Global, own} : bucket'[b] = bucket[b]
    BY <1>1, <1>2, <2>1 DEF RateTypeOK
  <2>3. CASE Admits(own)
    <3>1. told' = told /\ told \in Answer \cup {NoAnswer}
      BY <1>2, <2>1, <2>3 DEF Admit, RateTypeOK
    <3>2. /\ log' = [b \in Buckets |-> log'[b]]
          /\ \A b \in {Global, own} :
               log'[b] = Append(log[b], [peer |-> peer, path |-> "register", at |-> instant,
                                         held |-> Hit(b)])
          /\ \A b \in Buckets \ {Global, own} : log'[b] = log[b]
      BY <1>1, <2>1, <2>3 DEF Admit
    <3> QED
      BY <1>1, <1>4, <2>1, <2>2, <2>3, <3>1, <3>2, EntryServed, BucketsStep
  <2>4. CASE ~Admits(own)
    <3>1. told' \in Answer /\ log' = log
      BY <1>1, <1>2, <2>1, <2>4, AnswerOK DEF IBudget, Refuse
    <3> QED
      BY <1>1, <1>2, <2>1, <2>2, <3>1, BucketsStep
  <2> QED
    BY <2>3, <2>4
<1> QED
  BY <1>3, <1>4

LEMMA NextIInv == IBudget /\ [RateNext]_rateVars => IBudget'
<1> SUFFICES ASSUME IBudget, [RateNext]_rateVars PROVE IBudget'
  OBVIOUS
<1>1. CASE Pass
  <2>1. instant' \in Times
    BY <1>1, RulesAssumption DEF Pass, IBudget, RateTypeOK, Times
  <2>2. instant' = instant + 1 /\ UNCHANGED <<bucket, log, told>>
    BY <1>1 DEF Pass
  <2> QED
    BY <2>1, <2>2, TickKeeps DEF IBudget, RateTypeOK
<1>2. ASSUME NEW peer \in Peers, NEW header \in Peers \cup {NoHeader},
             ("register" \in Paths /\ Register(peer, header)) \/
             (\E path \in Paths : Request(peer, header, path))
      PROVE  IBudget'
  BY <1>2, RegisterStep, RequestStep
<1>3. CASE UNCHANGED rateVars
  BY <1>3 DEF rateVars, IBudget, RateTypeOK, Consistent
<1> QED
  BY <1>1, <1>2, <1>3 DEF RateNext

\* Every variable has its type in every reachable state.
THEOREM RateTypeCorrect == RateSpec => []RateTypeOK
<1>1. IBudget => RateTypeOK
  BY DEF IBudget
<1> QED
  BY <1>1, InitIInv, NextIInv, PTL DEF RateSpec

-----------------------------------------------------------------------------
(* The bound.  Requests admitted within one interval as long as the window  *)
(* were held by at most two windows, and the one that opened the earlier    *)
(* window came before the interval: number them 1 .. limit - 1 and          *)
(* limit .. 2 * limit - 1.                                                  *)

\* The number of a request admitted at `at` in [t, t + w), counted n-th in the
\* window that started at st.
Number(t, lim, st, n) == IF st < t THEN n - 1 ELSE n + lim - 1

LEMMA NumberRange ==
  ASSUME NEW w \in Nat \ {0}, NEW lim \in Nat \ {0}, NEW t \in Nat, NEW at \in Nat, at >= t,
         NEW st \in Nat, NEW n \in 1 .. lim, st <= at, n = 1 => at = st
  PROVE  Number(t, lim, st, n) \in 1 .. 2 * lim - 1
<1>1. CASE st < t
  <2>1. n # 1
    BY <1>1
  <2> QED
    BY <1>1, <2>1 DEF Number
<1>2. CASE ~(st < t)
  BY <1>2 DEF Number
<1> QED
  BY <1>1, <1>2

LEMMA NumberDiffers ==
  ASSUME NEW w \in Nat \ {0}, NEW lim \in Nat \ {0}, NEW t \in Nat,
         NEW at1 \in Nat, NEW st1 \in Nat, NEW n1 \in 1 .. lim, st1 <= at1,
         NEW at2 \in Nat, NEW st2 \in Nat, NEW n2 \in 1 .. lim, st2 <= at2,
         at1 >= t, at1 < st1 + w, at2 < t + w,
         (st1 = st2 /\ n1 < n2) \/ st1 + w <= st2
  PROVE  Number(t, lim, st1, n1) # Number(t, lim, st2, n2)
<1>1. CASE st1 = st2 /\ n1 < n2
  BY <1>1 DEF Number
<1>2. CASE st1 + w <= st2
  <2>1. st1 < t /\ ~(st2 < t)
    BY <1>2
  <2>2. n1 - 1 < n2 + lim - 1
    OBVIOUS
  <2> QED
    BY <2>1, <2>2 DEF Number
<1> QED
  BY <1>1, <1>2

LEMMA Numbered ==
  ASSUME IBudget, NEW b \in Buckets, NEW t \in Times
  PROVE  Cardinality(Admitted(b, t, t + WindowOf(b) - 1)) <= 2 * LimitOf(b) - 1
<1> DEFINE w == WindowOf(b)  lim == LimitOf(b)  s == log[b]
           S == Admitted(b, t, t + w - 1)
           number(i) == Number(t, lim, s[i].held.start, s[i].held.count)
           f == [i \in S |-> number(i)]
<1>1. w \in Nat \ {0} /\ lim \in Nat \ {0} /\ t \in Nat
  BY Rules, RulesAssumption DEF Times
<1>2. RateTypeOK /\ Consistent(b, instant, bucket[b], s)
  BY DEF IBudget
<1>3. ASSUME NEW i \in S
      PROVE  /\ i \in 1 .. Len(s) /\ s[i].at \in Nat /\ s[i].at >= t /\ s[i].at < t + w
             /\ s[i].held.start \in Nat /\ s[i].held.count \in 1 .. lim
             /\ s[i].held.start <= s[i].at /\ s[i].at < s[i].held.start + w
             /\ s[i].held.count = 1 => s[i].at = s[i].held.start
  <2>1. i \in 1 .. Len(s) /\ s[i].at \in t .. t + w - 1
    BY <1>2 DEF Admitted, RateTypeOK
  <2>2. s[i].at \in Nat /\ s[i].held.start \in Nat
    BY <1>2, <2>1, ChargeOK
  <2>3. s[i].at >= t /\ s[i].at < t + w
    BY <1>1, <2>1, <2>2
  <2>4. InWindow(b, s[i])
    BY <1>2, <2>1 DEF Consistent
  <2> QED
    BY <2>1, <2>2, <2>3, <2>4 DEF InWindow
<1>4. ASSUME NEW i \in S PROVE number(i) \in 1 .. 2 * lim - 1
  BY <1>1, <1>3, NumberRange
<1>5. ASSUME NEW i \in S, NEW j \in S, i < j PROVE number(i) # number(j)
  <2>1. \/ s[i].held.start = s[j].held.start /\ s[i].held.count < s[j].held.count
        \/ s[i].held.start + w <= s[j].held.start
    BY <1>2, <1>3, <1>5 DEF Consistent
  <2>2. /\ s[i].held.count \in 1 .. lim /\ s[j].held.count \in 1 .. lim
        /\ s[i].at \in Nat /\ s[j].at \in Nat /\ s[i].held.start \in Nat /\ s[j].held.start \in Nat
        /\ s[i].held.start <= s[i].at /\ s[j].held.start <= s[j].at
        /\ s[i].at >= t /\ s[i].at < s[i].held.start + w /\ s[j].at < t + w
    BY <1>3
  <2> HIDE DEF w, lim, s
  <2> QED
    BY <1>1, <2>1, <2>2, NumberDiffers
<1>6. f \in Injection(S, 1 .. 2 * lim - 1)
  <2>1. \A i, j \in S : i # j => f[i] # f[j]
    <3> SUFFICES ASSUME NEW i \in S, NEW j \in S, i # j PROVE f[i] # f[j]
      OBVIOUS
    <3>1. i \in Int /\ j \in Int
      BY <1>3
    <3> QED
      BY <1>5, <3>1
  <2>2. f \in [S -> 1 .. 2 * lim - 1]
    BY <1>4
  <2> QED
    BY <2>1, <2>2 DEF Injection, IsInjective
<1>7. IsFiniteSet(1 .. 2 * lim - 1) /\ Cardinality(1 .. 2 * lim - 1) = 2 * lim - 1
  <2>1. 2 * lim - 1 \in Int /\ 2 * lim - 1 >= 1
    BY <1>1
  <2> QED
    BY <2>1, FS_Interval
<1>8. Cardinality(S) <= Cardinality(1 .. 2 * lim - 1)
  BY <1>6, <1>7, FS_Injection
<1> QED
  BY <1>7, <1>8

\* "One budget: `limit` events per `window` seconds": for every limit and every
\* window, no interval as long as the window lets through twice the limit.
THEOREM Budgets == RateSpec => []SlidingBudget
<1>1. IBudget => SlidingBudget
  BY Numbered DEF SlidingBudget
<1> QED
  BY <1>1, InitIInv, NextIInv, PTL DEF RateSpec

-----------------------------------------------------------------------------
(* Without a trusted proxy a client's own bucket holds its own requests     *)
(* only, so the bound of the bucket is a bound of the client.               *)

OwnOnly(path, ip) ==
  \A i \in 1 .. Len(log[<<path, ip>>]) : log[<<path, ip>>][i].peer = ip

OwnRequests == ~TrustProxy => \A path \in Paths : \A ip \in Peers : OwnOnly(path, ip)

LEMMA InitOwn == RateInit => OwnRequests
<1> SUFFICES ASSUME RateInit, NEW path \in Paths, NEW ip \in Peers PROVE OwnOnly(path, ip)
  BY DEF OwnRequests
<1>1. log[<<path, ip>>] = <<>>
  BY DEF RateInit, Buckets
<1> QED
  BY <1>1 DEF OwnOnly

\* A request admitted under a bucket of its own is entered there and in no other
\* client's.
LEMMA AdmitOwn ==
  ASSUME RateTypeOK, OwnRequests, NEW peer \in Peers, NEW header \in Peers \cup {NoHeader},
         NEW of \in Paths, NEW charged, Admit(peer, of, charged),
         charged \subseteq {Global, Own(of, ClientIp(peer, header))}
  PROVE  OwnRequests'
<1> SUFFICES ASSUME ~TrustProxy, NEW path \in Paths, NEW ip \in Peers,
                    NEW i \in 1 .. Len(log'[<<path, ip>>])
             PROVE  log'[<<path, ip>>][i].peer = ip
  BY DEF OwnRequests, OwnOnly
<1> DEFINE b == <<path, ip>>
           e == [peer |-> peer, path |-> of, at |-> instant, held |-> Hit(b)]
<1>1. b \in Buckets /\ b # Global /\ Own(of, ClientIp(peer, header)) = <<of, peer>>
  BY RulesAssumption DEF Buckets, Global, Own, ClientIp
<1>2. log[b] \in Seq(Served) /\ \A j \in 1 .. Len(log[b]) : log[b][j].peer = ip
  BY <1>1 DEF RateTypeOK, OwnRequests, OwnOnly
<1>3. log'[b] = IF b \in charged THEN Append(log[b], e) ELSE log[b]
  BY <1>1 DEF Admit
<1>4. CASE b \notin charged
  BY <1>2, <1>3, <1>4
<1>5. CASE b \in charged
  <2>1. ip = peer /\ e.peer = peer
    BY <1>1, <1>5
  <2>2. log'[b] = Append(log[b], e)
    BY <1>3, <1>5
  <2>3. /\ Len(Append(log[b], e)) = Len(log[b]) + 1
        /\ Append(log[b], e)[Len(log[b]) + 1] = e
        /\ \A j \in 1 .. Len(log[b]) : Append(log[b], e)[j] = log[b][j]
    BY <1>2
  <2>4. Len(log[b]) \in Nat
    BY <1>2
  <2>5. i \in 1 .. Len(log[b]) \/ i = Len(log[b]) + 1
    BY <2>2, <2>3, <2>4
  <2> QED
    BY <1>2, <2>1, <2>2, <2>3, <2>5
<1> QED
  BY <1>4, <1>5

LEMMA NextOwn == IBudget /\ OwnRequests /\ [RateNext]_rateVars => OwnRequests'
<1> SUFFICES ASSUME IBudget, OwnRequests, [RateNext]_rateVars PROVE OwnRequests'
  OBVIOUS
<1>1. ASSUME log' = log PROVE OwnRequests'
  BY <1>1 DEF OwnRequests, OwnOnly
<1>2. ASSUME NEW peer \in Peers, NEW header \in Peers \cup {NoHeader},
             "register" \in Paths, Register(peer, header)
      PROVE  OwnRequests'
  <2>1. \/ log' = log
        \/ Admit(peer, "register", {Global, Own("register", ClientIp(peer, header))})
    BY <1>2 DEF Register, Refuse
  <2> QED
    BY <1>1, <1>2, <2>1, AdmitOwn DEF IBudget
<1>3. ASSUME NEW peer \in Peers, NEW header \in Peers \cup {NoHeader},
             NEW path \in Paths, Request(peer, header, path)
      PROVE  OwnRequests'
  <2>1. log' = log \/ Admit(peer, path, {Own(path, ClientIp(peer, header))})
    BY <1>3 DEF Request, Refuse
  <2> QED
    BY <1>1, <2>1, AdmitOwn DEF IBudget
<1> QED
  BY <1>1, <1>2, <1>3 DEF RateNext, Pass, rateVars

LEMMA PeerNumbered ==
  ASSUME IBudget, OwnRequests, ~TrustProxy, NEW peer \in Peers, NEW path \in Paths, NEW t \in Times
  PROVE  Cardinality(UNION {{<<ip, i>> : i \in {j \in Admitted(<<path, ip>>, t, t + Window[path] - 1) :
                                               log[<<path, ip>>][j].peer = peer}} : ip \in Peers})
           <= 2 * Limit[path] - 1
<1> DEFINE b == <<path, peer>>
           S == Admitted(b, t, t + Window[path] - 1)
           Of(ip) == {<<ip, i>> : i \in {j \in Admitted(<<path, ip>>, t, t + Window[path] - 1) :
                                            log[<<path, ip>>][j].peer = peer}}
           T == UNION {Of(ip) : ip \in Peers}
<1>1. b \in Buckets /\ b # Global /\ LimitOf(b) = Limit[path] /\ WindowOf(b) = Window[path]
  BY RulesAssumption DEF Buckets, Global, LimitOf, WindowOf
<1>2. Cardinality(S) <= 2 * Limit[path] - 1
  BY <1>1, Numbered
<1>3. ASSUME NEW ip \in Peers PROVE <<path, ip>> \in Buckets /\ log[<<path, ip>>] \in Seq(Served)
  BY DEF Buckets, IBudget, RateTypeOK
<1>4. IsFiniteSet(S)
  <2>1. S \in SUBSET (1 .. Len(log[b])) /\ Len(log[b]) \in Nat
    BY <1>3 DEF Admitted
  <2>2. IsFiniteSet(1 .. Len(log[b]))
    BY <2>1, FS_Interval
  <2> QED
    BY <2>1, <2>2, FS_Subset
<1>5. ASSUME NEW x \in T PROVE x[2] \in S /\ x = <<peer, x[2]>>
  <2>1. PICK ip \in Peers : x \in Of(ip)
    BY <1>5
  <2>2. PICK i \in Admitted(<<path, ip>>, t, t + Window[path] - 1) :
          log[<<path, ip>>][i].peer = peer /\ x = <<ip, i>>
    BY <2>1
  <2>3. i \in 1 .. Len(log[<<path, ip>>])
    BY <1>3 DEF Admitted
  <2>4. ip = peer
    BY <2>2, <2>3 DEF OwnRequests, OwnOnly
  <2> QED
    BY <2>2, <2>4
<1>6. [x \in T |-> x[2]] \in Injection(T, S)
  BY <1>5 DEF Injection, IsInjective
<1>7. Cardinality(T) <= Cardinality(S) /\ IsFiniteSet(T)
  BY <1>4, <1>6, FS_Injection
<1>8. Cardinality(T) \in Nat /\ Cardinality(S) \in Nat /\ Limit[path] \in Nat
  BY <1>4, <1>7, FS_CardinalityType, RulesAssumption
<1> QED
  BY <1>2, <1>7, <1>8

\* "Trusting it unconditionally would let any caller mint a fresh bucket per request":
\* without a trusted proxy no client gets past the bound of an endpoint by the
\* headers it sends, whatever the limits and however many clients there are.
THEOREM PeerBudgets == RateSpec => []PeerBudget
<1>1. IBudget /\ OwnRequests => PeerBudget
  BY PeerNumbered DEF PeerBudget
<1> QED
  BY <1>1, InitIInv, NextIInv, InitOwn, NextOwn, PTL DEF RateSpec

-----------------------------------------------------------------------------
(* The last refusal: the window it was about is still the bucket's, or a    *)
(* later one has begun since.                                               *)

LEMMA WholeSeconds ==
  ASSUME NEW left \in Nat, NEW d \in Nat \ {0}
  PROVE  (IF left < d THEN d ELSE left) \div d \in Nat \ {0}
         /\ ((IF left < d THEN d ELSE left) \div d) * d + d - 1 >= left
OBVIOUS

ToldOK ==
  told # NoAnswer =>
    LET b == told.bucket IN
    /\ b \in Buckets /\ bucket[b] # NoBucket
    /\ told.start <= told.at /\ told.at < told.start + WindowOf(b) /\ told.at <= instant
    /\ told.at + told.seconds * Second + Second - 1 >= told.start + WindowOf(b)
    /\ told.seconds >= 1
    /\ bucket[b].start = told.start \/ bucket[b].start > told.at

LEMMA AnswerTypes ==
  ASSUME RateTypeOK, told # NoAnswer
  PROVE  /\ told.bucket \in Buckets /\ told.at \in Nat /\ told.start \in Nat
         /\ told.seconds \in Nat /\ instant \in Nat
BY RulesAssumption DEF RateTypeOK, Answer, Times

LEMMA CurrentLater ==
  ASSUME RateTypeOK, NEW b \in Buckets, bucket[b] # NoBucket
  PROVE  /\ bucket[b].start \in Nat /\ instant \in Nat
         /\ \/ Current(b).start = instant /\ instant >= bucket[b].start + WindowOf(b)
            \/ Current(b).start = bucket[b].start /\ instant < bucket[b].start + WindowOf(b)
<1>1. bucket[b] \in Counter /\ instant \in Nat
  BY RulesAssumption DEF RateTypeOK, Times
<1>2. bucket[b].start \in Nat
  BY <1>1, RulesAssumption DEF Counter, Times
<1> QED
  BY <1>1, <1>2, Rules DEF Current

LEMMA InitTold == RateInit => ToldOK
BY DEF RateInit, ToldOK

LEMMA RefusedTold ==
  ASSUME IBudget, NEW b \in Buckets, NEW peer \in Peers, NEW path \in Paths,
         Refuse(peer, path, b), bucket'[b] = Hit(b), instant' = instant
  PROVE  ToldOK'
<1> DEFINE left == WindowOf(b) - (instant - Current(b).start)
<1>1. /\ Hit(b) \in Counter /\ Hit(b) # NoBucket /\ Hit(b).start = Current(b).start
      /\ Current(b).start <= instant /\ instant < Current(b).start + WindowOf(b)
  BY HitOK, CurrentOK, NoneAssumption DEF IBudget
<1>2. Current(b).start \in Nat /\ instant \in Nat /\ WindowOf(b) \in Nat /\ Second \in Nat \ {0}
  BY <1>1, Rules, RulesAssumption DEF IBudget, RateTypeOK, Counter, Times
<1>3. left \in Nat
  BY <1>1, <1>2
<1>4. RetryAfter(b) \in Nat \ {0} /\ RetryAfter(b) * Second + Second - 1 >= left
  BY <1>2, <1>3, WholeSeconds DEF RetryAfter
<1>5. /\ told'.bucket = b /\ told'.at = instant /\ told'.start = Current(b).start
      /\ told'.seconds = RetryAfter(b)
  BY DEF Refuse
<1>6. RetryAfter(b) * Second \in Nat
  BY <1>2, <1>4
<1>7. instant + RetryAfter(b) * Second + Second - 1 >= Current(b).start + WindowOf(b)
  BY <1>2, <1>3, <1>4, <1>6
<1>8. RetryAfter(b) >= 1
  BY <1>4
<1> QED
  BY <1>1, <1>2, <1>5, <1>7, <1>8 DEF ToldOK

LEMMA ToldKept ==
  ASSUME IBudget, ToldOK, told' = told, instant' \in Nat, instant' >= instant,
         \A b \in Buckets : bucket'[b] = bucket[b] \/ bucket'[b] = Hit(b)
  PROVE  ToldOK'
<1> SUFFICES ASSUME told # NoAnswer PROVE ToldOK'
  BY DEF ToldOK
<1> DEFINE b == told.bucket
<1>1. /\ b \in Buckets /\ told.at \in Nat /\ told.start \in Nat
      /\ instant \in Nat /\ WindowOf(b) \in Nat
  BY AnswerTypes, Rules DEF IBudget
<1>2. /\ bucket[b] # NoBucket
      /\ told.start <= told.at /\ told.at < told.start + WindowOf(b) /\ told.at <= instant
      /\ bucket[b].start = told.start \/ bucket[b].start > told.at
  BY DEF ToldOK
<1>3. Hit(b) # NoBucket /\ Hit(b).start = Current(b).start
  BY <1>1, HitOK, NoneAssumption DEF IBudget
<1>4. /\ bucket[b].start \in Nat
      /\ \/ Current(b).start = instant /\ instant >= bucket[b].start + WindowOf(b)
         \/ Current(b).start = bucket[b].start
  BY <1>1, <1>2, CurrentLater DEF IBudget
<1>5. bucket'[b] # NoBucket /\ (bucket'[b].start = told.start \/ bucket'[b].start > told.at)
  <2>1. CASE bucket'[b] = bucket[b]
    BY <1>2, <2>1
  <2>2. CASE bucket'[b] = Hit(b)
    <3>1. CASE Current(b).start = bucket[b].start
      BY <1>2, <1>3, <2>2, <3>1
    <3>2. CASE Current(b).start = instant /\ instant >= bucket[b].start + WindowOf(b)
      <4>1. instant > told.at
        BY <1>1, <1>2, <1>4, <3>2, Rules
      <4> QED
        BY <1>3, <2>2, <3>2, <4>1
    <3> QED
      BY <1>4, <3>1, <3>2
  <2> QED
    BY <1>1, <2>1, <2>2
<1>6. told.at <= instant'
  BY <1>1, <1>2
<1> QED
  BY <1>5, <1>6 DEF ToldOK

LEMMA NextTold == IBudget /\ ToldOK /\ [RateNext]_rateVars => ToldOK'
<1> SUFFICES ASSUME IBudget, ToldOK, [RateNext]_rateVars PROVE ToldOK'
  OBVIOUS
<1>1. instant \in Nat /\ bucket \in [Buckets -> Counter \cup {NoBucket}]
  BY RulesAssumption DEF IBudget, RateTypeOK, Times
<1>2. CASE Pass \/ UNCHANGED rateVars
  BY <1>1, <1>2, ToldKept DEF Pass, rateVars
<1>3. ASSUME NEW peer \in Peers, NEW header \in Peers \cup {NoHeader},
             "register" \in Paths, Register(peer, header)
      PROVE  ToldOK'
  <2> DEFINE own == Own("register", ClientIp(peer, header))
  <2>1. own \in Buckets /\ own # Global /\ Global \in Buckets /\ instant' = instant
    BY <1>3, OwnBucket DEF Buckets, Register
  <2>2. CASE ~Admits(Global)
    <3>1. bucket'[Global] = Hit(Global) /\ Refuse(peer, "register", Global)
      BY <1>1, <1>3, <2>1, <2>2 DEF Register
    <3> QED
      BY <1>3, <2>1, <3>1, RefusedTold
  <2>3. CASE Admits(Global) /\ ~Admits(own)
    <3>1. bucket'[own] = Hit(own) /\ Refuse(peer, "register", own)
      BY <1>1, <1>3, <2>1, <2>3 DEF Register
    <3> QED
      BY <1>3, <2>1, <3>1, RefusedTold
  <2>4. CASE Admits(Global) /\ Admits(own)
    <3>1. told' = told /\ bucket' = [bucket EXCEPT ![Global] = Hit(Global), ![own] = Hit(own)]
      BY <1>3, <2>4 DEF Register, Admit
    <3>2. \A b \in Buckets : bucket'[b] = bucket[b] \/ bucket'[b] = Hit(b)
      BY <1>1, <2>1, <3>1
    <3> QED
      BY <1>1, <2>1, <3>1, <3>2, ToldKept
  <2> QED
    BY <2>2, <2>3, <2>4
<1>4. ASSUME NEW peer \in Peers, NEW header \in Peers \cup {NoHeader}, NEW path \in Paths,
             Request(peer, header, path)
      PROVE  ToldOK'
  <2> DEFINE own == Own(path, ClientIp(peer, header))
  <2>1. own \in Buckets /\ instant' = instant /\ bucket' = [bucket EXCEPT ![own] = Hit(own)]
    BY <1>4, OwnBucket DEF Request
  <2>2. /\ bucket'[own] = Hit(own)
        /\ \A b \in Buckets : bucket'[b] = bucket[b] \/ bucket'[b] = Hit(b)
    BY <1>1, <2>1
  <2>3. told' = told \/ Refuse(peer, path, own)
    BY <1>4 DEF Request, Admit
  <2>4. CASE told' = told
    BY <1>1, <2>1, <2>2, <2>4, ToldKept
  <2>5. CASE Refuse(peer, path, own)
    BY <2>1, <2>2, <2>5, RefusedTold
  <2> QED
    BY <2>3, <2>4, <2>5
<1> QED
  BY <1>2, <1>3, <1>4 DEF RateNext

LEMMA RetryFinds == IBudget /\ ToldOK => RetrySuffices
<1> SUFFICES ASSUME IBudget, ToldOK, told # NoAnswer,
                    instant >= told.at + told.seconds * Second + Second - 1
             PROVE  Current(told.bucket).start > told.at
  BY DEF RetrySuffices
<1> DEFINE b == told.bucket
<1>1. /\ b \in Buckets /\ told.at \in Nat /\ told.start \in Nat /\ told.seconds \in Nat
      /\ instant \in Nat /\ Second \in Nat \ {0} /\ WindowOf(b) \in Nat
  BY AnswerTypes, Rules, RulesAssumption DEF IBudget
<1>2. /\ bucket[b] # NoBucket /\ told.at < told.start + WindowOf(b)
      /\ told.at + told.seconds * Second + Second - 1 >= told.start + WindowOf(b)
      /\ bucket[b].start = told.start \/ bucket[b].start > told.at
  BY DEF ToldOK
<1>3. told.seconds * Second \in Nat
  BY <1>1
<1>4. instant >= told.start + WindowOf(b) /\ instant > told.at
  BY <1>1, <1>2, <1>3
<1>5. /\ bucket[b].start \in Nat
      /\ \/ Current(b).start = instant
         \/ Current(b).start = bucket[b].start /\ instant < bucket[b].start + WindowOf(b)
  BY <1>1, <1>2, CurrentLater DEF IBudget
<1> QED
  BY <1>1, <1>2, <1>4, <1>5

\* "Returns seconds to wait": for every window and every length of a second, who waits
\* as told, and not quite a second more, is counted in a new window.
THEOREM RetryIsEnough == RateSpec => []RetrySuffices
<1> QED
  BY InitIInv, NextIInv, InitTold, NextTold, RetryFinds, PTL DEF RateSpec

-----------------------------------------------------------------------------
(* The verifier of keys and its cache.                                      *)
\* A key the service accepts lives now, and no key has lived later than now.
History ==
  \A k \in Keys : lived[k] <= now /\ (k \in valid => lived[k] = now)

\* An entry ends no later than a life of it and a flight after its key last lived.
EntryOK(k) ==
  expires[k] # NoEntry => lived[k] # -1 /\ expires[k] <= lived[k] + Ttl + Flight

\* A check under way is about a key, is young enough, and a good answer to it
\* is about a time since it began.
CheckOK(c) ==
  /\ step[c] = "asking" =>
       /\ token[c] \in Keys /\ begun[c] <= now /\ now <= begun[c] + Flight
       /\ said[c] = "user" => lived[token[c]] >= begun[c]
  /\ step[c] = "idle" => said[c] = "none"
  /\ step[c] # "told" => verdict[c] = "none"

Fresh(c) ==
  verdict[c] = "accepted" =>
    token[c] \in Keys /\ lived[token[c]] # -1 /\ now < lived[token[c]] + Ttl + Flight

IVerifier ==
  /\ VerifierTypeOK /\ History
  /\ \A k \in Keys : EntryOK(k)
  /\ \A c \in Callers : CheckOK(c) /\ Fresh(c)

-----------------------------------------------------------------------------
LEMMA Initially == VerifierInit => IVerifier
BY TtlAssumption, KeysAssumption
   DEF VerifierInit, IVerifier, VerifierTypeOK, History, EntryOK, CheckOK, Fresh

\* The cases of one caller's step: nothing of the service or the clock moves.
LEMMA VerifyKeeps ==
  ASSUME IVerifier, NEW c \in Callers, NEW k \in Keys \cup NotKeys, Verify(c, k)
  PROVE  IVerifier'
<1> USE TtlAssumption, KeysAssumption
<1>1. VerifierTypeOK'
  BY DEF IVerifier, VerifierTypeOK, Verify, keyService
<1>2. History'
  BY DEF IVerifier, History, Verify, keyService
<1>3. ASSUME NEW j \in Keys PROVE EntryOK(j)'
  BY DEF IVerifier, VerifierTypeOK, EntryOK, Verify, keyService
<1>4. ASSUME NEW d \in Callers PROVE CheckOK(d)' /\ Fresh(d)'
  <2>1. CheckOK(d) /\ Fresh(d)
    BY DEF IVerifier
  <2>2. CASE d # c
    BY <2>1, <2>2 DEF IVerifier, VerifierTypeOK, CheckOK, Fresh, Verify, keyService
  <2>3. CASE d = c /\ (k \in NotKeys \/ (k \in Keys /\ CachedKey(k)))
    <3>1. step'[c] = "told" /\ token'[c] = k /\ (verdict'[c] = "accepted" => k \in Keys /\ CachedKey(k))
      BY <2>3 DEF IVerifier, VerifierTypeOK, Verify
    <3>2. ASSUME k \in Keys, CachedKey(k) PROVE lived[k] # -1 /\ now < lived[k] + Ttl + Flight
      <4>1. EntryOK(k) /\ expires[k] \in Nat /\ now \in Nat /\ lived[k] \in Int /\ now < expires[k]
        BY <3>2 DEF IVerifier, VerifierTypeOK, CachedKey
      <4> QED
        BY <3>2, <4>1 DEF EntryOK, CachedKey
    <3> QED
      BY <2>3, <3>1, <3>2 DEF CheckOK, Fresh, Verify, keyService
  <2>4. CASE d = c /\ ~(k \in NotKeys \/ (k \in Keys /\ CachedKey(k)))
    BY <2>1, <2>4 DEF IVerifier, VerifierTypeOK, CheckOK, Fresh, Verify, keyService
  <2> QED
    BY <2>2, <2>3, <2>4
<1> QED
  BY <1>1, <1>2, <1>3, <1>4 DEF IVerifier

LEMMA ConcludeKeeps ==
  ASSUME IVerifier, NEW c \in Callers, Conclude(c)
  PROVE  IVerifier'
<1> USE TtlAssumption, KeysAssumption
<1>1. /\ token[c] \in Keys /\ begun[c] <= now /\ now <= begun[c] + Flight
      /\ said[c] = "user" => lived[token[c]] >= begun[c]
  BY DEF IVerifier, CheckOK, Conclude
<1>2. /\ now \in Nat /\ begun[c] \in Nat /\ \A k \in Keys : lived[k] \in Int
      /\ \A k \in Keys : expires[k] \in Nat \cup {NoEntry}
  BY DEF IVerifier, VerifierTypeOK
<1>3. VerifierTypeOK'
  BY <1>1, <1>2 DEF IVerifier, VerifierTypeOK, Conclude, EntryAfter, keyService
<1>4. History'
  BY DEF IVerifier, History, Conclude, keyService
<1>5. ASSUME NEW j \in Keys PROVE EntryOK(j)'
  BY <1>1, <1>2 DEF IVerifier, VerifierTypeOK, EntryOK, Conclude, EntryAfter, keyService
<1>6. ASSUME NEW d \in Callers PROVE CheckOK(d)' /\ Fresh(d)'
  <2>1. CheckOK(d) /\ Fresh(d)
    BY DEF IVerifier
  <2>2. CASE d # c
    BY <2>1, <2>2 DEF IVerifier, VerifierTypeOK, CheckOK, Fresh, Conclude, keyService
  <2>3. CASE d = c
    BY <1>1, <1>2, <2>3 DEF IVerifier, VerifierTypeOK, CheckOK, Fresh, Conclude, keyService
  <2> QED
    BY <2>2, <2>3
<1> QED
  BY <1>3, <1>4, <1>5, <1>6 DEF IVerifier

LEMMA JudgeKeeps ==
  ASSUME IVerifier, NEW c \in Callers, JudgeKey(c) \/ Break(c)
  PROVE  IVerifier'
<1> USE TtlAssumption, KeysAssumption
<1>1. token[c] \in Keys /\ begun[c] <= now /\ begun[c] \in Nat /\ now \in Nat
  BY DEF IVerifier, CheckOK, VerifierTypeOK, JudgeKey, Break
<1>2. VerifierTypeOK'
  BY DEF IVerifier, VerifierTypeOK, JudgeKey, Break, keyService
<1>3. History' /\ \A k \in Keys : EntryOK(k)'
  BY DEF IVerifier, History, EntryOK, JudgeKey, Break, keyService
<1>4. token[c] \in valid => lived[token[c]] >= begun[c]
  BY <1>1 DEF IVerifier, History
<1>5. ASSUME NEW d \in Callers PROVE CheckOK(d)' /\ Fresh(d)'
  BY <1>1, <1>4 DEF IVerifier, VerifierTypeOK, CheckOK, Fresh, JudgeKey, Break, keyService
<1> QED
  BY <1>2, <1>3, <1>5 DEF IVerifier

LEMMA LeaveKeeps ==
  ASSUME IVerifier, NEW c \in Callers, Leave(c)
  PROVE  IVerifier'
<1> USE TtlAssumption, KeysAssumption
<1>1. VerifierTypeOK'
  BY DEF IVerifier, VerifierTypeOK, Leave, keyService
<1>2. History' /\ \A k \in Keys : EntryOK(k)'
  BY DEF IVerifier, History, EntryOK, Leave, keyService
<1>3. ASSUME NEW d \in Callers PROVE CheckOK(d)' /\ Fresh(d)'
  BY DEF IVerifier, VerifierTypeOK, CheckOK, Fresh, Leave, keyService
<1> QED
  BY <1>1, <1>2, <1>3 DEF IVerifier

\* What lived last only moves forward, so every bound stays.
LEMMA LaterKeeps ==
  ASSUME IVerifier, VerifierTypeOK', History', UNCHANGED <<expires, call>>,
         now' = now \/ now' = now + 1,
         \A k \in Keys : lived'[k] >= lived[k],
         \A c \in Callers : now' # now =>
           step[c] # "told" /\ (step[c] = "asking" => now < begun[c] + Flight)
  PROVE  IVerifier'
<1> USE TtlAssumption, KeysAssumption
<1>1. /\ now \in Nat /\ now' \in Nat /\ \A k \in Keys : lived[k] \in Int /\ lived'[k] \in Int
      /\ \A k \in Keys : lived[k] >= -1
  BY DEF IVerifier, VerifierTypeOK
<1>2. ASSUME NEW k \in Keys PROVE EntryOK(k)'
  <2>1. expires'[k] = expires[k] /\ expires[k] \in Nat \cup {NoEntry}
    BY DEF IVerifier, VerifierTypeOK
  <2> QED
    BY <1>1, <2>1 DEF IVerifier, EntryOK
<1>3. ASSUME NEW c \in Callers PROVE CheckOK(c)' /\ Fresh(c)'
  <2>1. /\ step'[c] = step[c] /\ token'[c] = token[c] /\ said'[c] = said[c]
        /\ begun'[c] = begun[c] /\ verdict'[c] = verdict[c] /\ begun[c] \in Nat
    BY DEF IVerifier, VerifierTypeOK, call
  <2>2. CheckOK(c) /\ Fresh(c)
    BY DEF IVerifier
  <2>3. CheckOK(c)'
    BY <1>1, <2>1, <2>2 DEF CheckOK
  <2>4. verdict[c] = "accepted" => now' = now
    BY <2>2 DEF CheckOK
  <2>5. Fresh(c)'
    BY <1>1, <2>1, <2>2, <2>4 DEF Fresh
  <2> QED
    BY <2>3, <2>5
<1> QED
  BY <1>2, <1>3 DEF IVerifier

LEMMA ChangeKeeps ==
  ASSUME IVerifier, NEW k \in Keys, Change(k)
  PROVE  IVerifier'
<1> USE TtlAssumption, KeysAssumption
<1>1. VerifierTypeOK'
  BY DEF IVerifier, VerifierTypeOK, Change, call
<1>2. History' /\ \A j \in Keys : lived'[j] >= lived[j]
  BY DEF IVerifier, VerifierTypeOK, History, Change
<1> QED
  BY <1>1, <1>2, LaterKeeps DEF Change

LEMMA ElapseKeeps ==
  ASSUME IVerifier, Elapse
  PROVE  IVerifier'
<1> USE TtlAssumption, KeysAssumption
<1>1. VerifierTypeOK'
  BY DEF IVerifier, VerifierTypeOK, Elapse, call
<1>2. History' /\ \A j \in Keys : lived'[j] >= lived[j]
  BY DEF IVerifier, VerifierTypeOK, History, Elapse
<1> QED
  BY <1>1, <1>2, LaterKeeps DEF Elapse

LEMMA IInvInductive == IVerifier /\ [VerifierNext]_verifierVars => IVerifier'
<1> SUFFICES ASSUME IVerifier, [VerifierNext]_verifierVars PROVE IVerifier'
  OBVIOUS
<1>1. CASE UNCHANGED verifierVars
  BY <1>1 DEF verifierVars, keyService, call, IVerifier, VerifierTypeOK, History, EntryOK, CheckOK, Fresh
<1>2. ASSUME NEW c \in Callers, NEW k \in Keys \cup NotKeys, Verify(c, k) PROVE IVerifier'
  BY <1>2, VerifyKeeps
<1>3. ASSUME NEW c \in Callers, JudgeKey(c) \/ Break(c) PROVE IVerifier'
  BY <1>3, JudgeKeeps
<1>4. ASSUME NEW c \in Callers, Conclude(c) PROVE IVerifier'
  BY <1>4, ConcludeKeeps
<1>5. ASSUME NEW c \in Callers, Leave(c) PROVE IVerifier'
  BY <1>5, LeaveKeeps
<1>6. ASSUME NEW k \in Keys, Change(k) PROVE IVerifier'
  BY <1>6, ChangeKeeps
<1>7. CASE Elapse
  BY <1>7, ElapseKeeps
<1> QED
  BY <1>1, <1>2, <1>3, <1>4, <1>5, <1>6, <1>7 DEF VerifierNext

\* Every variable of the verifier keeps its type, for any keys, callers and times.
THEOREM VerifierTypeCorrect == VerifierSpec => []VerifierTypeOK
<1>1. IVerifier => VerifierTypeOK
  BY DEF IVerifier
<1> QED
  BY Initially, IInvInductive, <1>1, PTL DEF VerifierSpec

\* Nobody is accepted by a key that the service has not accepted within the life
\* of a cached answer and the time a request may be on its way.
THEOREM StalenessBounded == VerifierSpec => []BoundedStaleness
<1>1. IVerifier => BoundedStaleness
  BY DEF IVerifier, Fresh, BoundedStaleness
<1> QED
  BY Initially, IInvInductive, <1>1, PTL DEF VerifierSpec
=============================================================================
