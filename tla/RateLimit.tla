----------------------------- MODULE RateLimit -----------------------------
(***************************************************************************)
(* The budgets of the hosted server's unauthenticated surface              *)
(* (hosted/ratelimit.py): one fixed-window counter per endpoint and client *)
(* address, and one for all registrations together.  A request runs        *)
(* `dispatch` without giving up the event loop, so it is one step.  Time   *)
(* is a bounded clock of ticks, several to the second Retry-After counts.  *)
(* `log` and `told` are history variables.                                 *)
(***************************************************************************)
EXTENDS Integers, Sequences, FiniteSets

CONSTANTS
  Peers,           \* addresses requests come from
  Paths,           \* the paths with a budget; "register" has two
  Limit, Window,   \* of each path's rule
  GlobalLimit, GlobalWindow, \* REGISTER_GLOBAL_RULE
  TrustProxy,      \* HostedConfig.trust_proxy
  Second,          \* ticks in a second
  MaxInstant,      \* bound
  Everyone, NoHeader, NoBucket, NoAnswer

ASSUME RulesAssumption ==
  /\ Limit \in [Paths -> Nat \ {0}] /\ Window \in [Paths -> Nat \ {0}]
  /\ GlobalLimit \in Nat \ {0} /\ GlobalWindow \in Nat \ {0}
  /\ TrustProxy \in BOOLEAN /\ Second \in Nat \ {0} /\ MaxInstant \in Nat
  /\ Everyone \notin Peers /\ NoHeader \notin Peers

Global == <<"register", Everyone>>
Buckets == (Paths \X Peers) \cup {Global}
LimitOf(b) == IF b = Global THEN GlobalLimit ELSE Limit[b[1]]
WindowOf(b) == IF b = Global THEN GlobalWindow ELSE Window[b[1]]

Times == 0 .. MaxInstant
Counter == [start : Times, count : Nat]
Served == [peer : Peers, path : Paths, at : Times, held : Counter]
Answer == [bucket : Buckets, peer : Peers, path : Paths, at : Times, start : Times, seconds : Nat]

ASSUME NoneAssumption == NoBucket \notin Counter /\ NoAnswer \notin Answer

VARIABLES
  instant,
  bucket,  \* _buckets: each counter's window start and count, or NoBucket
  log,     \* the admitted requests charged to each bucket: the peer, the time
           \* and what the counter then held
  told     \* the last 429: of which bucket, to whom, when, for which window

rateVars == <<instant, bucket, log, told>>

RateInit ==
  /\ instant = 0 /\ log = [b \in Buckets |-> <<>>]
  /\ bucket = [b \in Buckets |-> NoBucket] /\ told = NoAnswer

-----------------------------------------------------------------------------
\* Mutant of Current: the window ends at half time.
CurrentEarly(b) ==
  IF bucket[b] = NoBucket \/ 2 * (instant - bucket[b].start) >= WindowOf(b)
  THEN [start |-> instant, count |-> 0] ELSE bucket[b]

\* hit(): the bucket as of now, a fresh window when there is none or it ended.
Current(b) ==
  IF bucket[b] = NoBucket \/ instant - bucket[b].start >= WindowOf(b)
  THEN [start |-> instant, count |-> 0] ELSE bucket[b]

Admits(b) == Current(b).count < LimitOf(b)

\* hit(): what the bucket holds afterwards.
Hit(b) == IF Admits(b) THEN [Current(b) EXCEPT !.count = @ + 1] ELSE Current(b)

\* Mutant of RetryAfter: the time that passed, not the time left.
RetryElapsed(b) ==
  LET left == instant - Current(b).start
  IN  (IF left < Second THEN Second ELSE left) \div Second

\* hit() and _too_many: at least a second, cut to whole seconds.
RetryAfter(b) ==
  LET left == WindowOf(b) - (instant - Current(b).start)
  IN  (IF left < Second THEN Second ELSE left) \div Second

\* Mutant of ClientIp: the header is believed whoever sent it.
ClientIpTrusting(peer, header) == IF header # NoHeader THEN header ELSE peer

\* client_ip
ClientIp(peer, header) == IF TrustProxy /\ header # NoHeader THEN header ELSE peer

\* dispatch: the bucket of one client on one endpoint.
Own(path, ip) == <<path, ip>>

Refuse(peer, path, b) ==
  /\ told' = [bucket |-> b, peer |-> peer, path |-> path, at |-> instant,
              start |-> Current(b).start, seconds |-> RetryAfter(b)]
  /\ UNCHANGED log

\* The request goes on to the application, charged to `charged`.
Admit(peer, path, charged) ==
  /\ log' = [b \in Buckets |->
               IF b \in charged THEN Append(log[b], [peer |-> peer, path |-> path, at |-> instant,
                                     held |-> Hit(b)])
               ELSE log[b]]
  /\ UNCHANGED told

\* dispatch, on "/authorize", "/token" and "/mcp" without authorization.
Request(peer, header, path) ==
  LET own == Own(path, ClientIp(peer, header)) IN
  /\ path # "register"
  /\ bucket' = [bucket EXCEPT ![own] = Hit(own)]
  /\ IF Admits(own) THEN Admit(peer, path, {own}) ELSE Refuse(peer, path, own)
  /\ UNCHANGED instant

\* dispatch, on "/register": the global budget is charged first, and keeps the
\* charge when the client's own budget then refuses.
Register(peer, header) ==
  LET own == Own("register", ClientIp(peer, header)) IN
  /\ IF ~Admits(Global)
     THEN bucket' = [bucket EXCEPT ![Global] = Hit(Global)] /\ Refuse(peer, "register", Global)
     ELSE /\ bucket' = [bucket EXCEPT ![Global] = Hit(Global), ![own] = Hit(own)]
          /\ IF Admits(own) THEN Admit(peer, "register", {Global, own})
             ELSE Refuse(peer, "register", own)
  /\ UNCHANGED instant

Pass == instant < MaxInstant /\ instant' = instant + 1 /\ UNCHANGED <<bucket, log, told>>

RateNext ==
  \/ Pass
  \/ \E peer \in Peers, header \in Peers \cup {NoHeader} :
       \/ "register" \in Paths /\ Register(peer, header)
       \/ \E path \in Paths : Request(peer, header, path)

RateSpec == RateInit /\ [][RateNext]_rateVars

-----------------------------------------------------------------------------
\* Every variable has its type.
RateTypeOK ==
  /\ instant \in Times
  /\ bucket \in [Buckets -> Counter \cup {NoBucket}]
  /\ told \in Answer \cup {NoAnswer}
  /\ log \in [Buckets -> Seq(Served)]

\* Which requests charged to b were admitted between two moments.
Admitted(b, from, to) == {i \in DOMAIN log[b] : log[b][i].at \in from .. to}

\* "One budget: `limit` events per `window` seconds".  A window starts at a
\* client's own request, so two windows can meet inside one interval as long
\* as the window; the request that opened the earlier one is then outside it.
SlidingBudget ==
  \A b \in Buckets, t \in Times :
    Cardinality(Admitted(b, t, t + WindowOf(b) - 1)) <= 2 * LimitOf(b) - 1

\* "Trusting it unconditionally would let any caller mint a fresh bucket per
\* request by varying the header": without a trusted proxy the same bound
\* holds of every address, whatever header its requests carry.
PeerBudget ==
  ~TrustProxy =>
    \A peer \in Peers, path \in Paths, t \in Times :
      Cardinality(UNION {{<<ip, i>> : i \in {j \in Admitted(<<path, ip>>, t, t + Window[path] - 1) :
                                               log[<<path, ip>>][j].peer = peer}} : ip \in Peers})
        <= 2 * Limit[path] - 1

\* "Returns seconds to wait": Retry-After is cut to whole seconds, and a
\* client that waits as told and not quite a second more finds a new window.
RetrySuffices ==
  told # NoAnswer /\ instant >= told.at + told.seconds * Second + Second - 1 =>
    Current(told.bucket).start > told.at
=============================================================================
