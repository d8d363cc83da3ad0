------------------------- MODULE RateLimiterProofs -------------------------
(***************************************************************************)
(* Theorems about RateLimiter.  The argument follows one number, the line  *)
(* of a bucket: the time at which it was, or will be, empty if nothing     *)
(* more is taken.  A reservation moves the line up by a token, and what is *)
(* paid for stays below it; a cancellation moves it back, but never below  *)
(* the line of the last request that was let through.                      *)
(***************************************************************************)
EXTENDS RateLimiter, TLAPS

-----------------------------------------------------------------------------
(* Arithmetic of the limiter *)

\* The burst is at least one token.
LEMMA FullFacts == Full \in Nat /\ Cost \in Nat /\ Cost > 0 /\ Full >= Cost
<1>1. Burst \in Nat /\ Burst >= 1 /\ Cost \in Nat /\ Cost > 0
  BY ConfigAssumption
<1>2. ASSUME NEW b \in Nat, NEW k \in Nat, b >= 1 PROVE b * k \in Nat /\ b * k >= k
  BY <1>2
<1> QED BY <1>1, <1>2 DEF Full

\* Retry-After is never shorter than the delay.
LEMMA RetryAfterCovers ==
    ASSUME NEW d \in Int, d > 0
    PROVE  RetryAfter(d) \in Nat /\ RetryAfter(d) >= d
<1> DEFINE n == d + Second - 1
           q == n \div Second
<1>1. Second \in Nat /\ Second >= 1 /\ n \in Nat
  BY BoundAssumption
<1>2. q \in Nat /\ n < (q + 1) * Second
  BY <1>1
<1>3. (q + 1) * Second = q * Second + Second /\ q * Second \in Nat
  BY <1>1, <1>2
<1>4. q * Second >= d
  BY <1>1, <1>2, <1>3
<1> QED BY <1>3, <1>4 DEF RetryAfter

\* A reservation at t that does not go back in time moves the line up by a
\* token, from where it was or from a full bucket at t.
LEMMA ReservedFacts ==
    ASSUME NEW l \in Limiter, NEW t \in Nat, l.tokens <= Full
    PROVE  LET new == Reserved(l, t) IN
           /\ new \in Limiter
           /\ new.last = t
           /\ new.tokens <= Full
           /\ new.lastEvent >= t
           /\ new.lastEvent > t => new.lastEvent = t - new.tokens
           /\ new.lastEvent <= t => new.tokens >= 0
           /\ t >= l.last =>
                /\ t - new.tokens >= (l.last - l.tokens) + Cost
                /\ t - new.tokens >= (t - Full) + Cost
                /\ \/ t - new.tokens = (l.last - l.tokens) + Cost
                   \/ t - new.tokens = (t - Full) + Cost
BY FullFacts DEF Reserved, Level, AtMost, Limiter

\* The first reservation of a new limiter finds a full bucket.
LEMMA NewLimiterFacts ==
    /\ NewLimiter \in Limiter
    /\ NewLimiter.tokens <= Full
    /\ NewLimiter.last = 0
    /\ \A t \in Nat : Reserved(NewLimiter, t).tokens = Full - Cost
BY FullFacts DEF NewLimiter, Reserved, Level, AtMost, Limiter

LEMMA CancelledType ==
    ASSUME NEW l \in Limiter, NEW t \in Nat, NEW due \in Int, l.tokens <= Full
    PROVE  /\ Cancelled(l, due, t) \in Limiter
           /\ Cancelled(l, due, t).tokens <= Full
           /\ Cancelled(l, due, t).last \in {l.last, t}
BY FullFacts DEF Cancelled, Level, AtMost, Limiter

\* A cancellation at the limiter's last time moves the line back by what was
\* not reserved since, unless that overfills the bucket.
LEMMA CancelledFacts ==
    ASSUME NEW l \in Limiter, NEW due \in Int, l.tokens <= Full,
           due > l.last, l.lastEvent >= due
    PROVE  LET new == Cancelled(l, due, l.last) IN
           /\ new.last = l.last
           /\ l.lastEvent >= due + Cost => new = l
           /\ l.lastEvent < due + Cost =>
                /\ new.last - new.tokens >= (l.last - l.tokens) - Cost + (l.lastEvent - due)
                /\ \/ new.last - new.tokens = (l.last - l.tokens) - Cost + (l.lastEvent - due)
                   \/ new.last - new.tokens = l.last - Full
           /\ new.lastEvent \in {l.lastEvent, due - Cost}
           /\ new.lastEvent # l.lastEvent => l.lastEvent = due
BY FullFacts DEF Cancelled, Level, AtMost, Limiter

-----------------------------------------------------------------------------
(* Types *)

\* A request in the middleware has read the clock at most MaxLag ago; one
\* that was refused must wait, and its limiter is in the map if it says so.
FlightInv ==
    /\ \A r \in Request : request[r].pc # "idle" =>
          /\ request[r].client \in Client
          /\ request[r].now <= clock
          /\ clock <= request[r].now + MaxLag
    /\ \A r \in Request : request[r].pc = "refused" => request[r].due > request[r].now
    /\ \A r \in Request : request[r].mapped =>
          request[r].pc = "refused" /\ visitors[request[r].client] # None

\* No limiter knows a time that has not come.
VisitorInv ==
    \A c \in Client : visitors[c] # None =>
        visitors[c].limiter.last <= clock /\ visitors[c].lastSeen <= clock

TypeInv == TypeOK /\ FlightInv /\ VisitorInv

LEMMA NoVisitor == None \notin Visitor
BY BoundAssumption DEF Visitor, Limiter

LEMMA LimiterOfType ==
    ASSUME TypeOK, NEW c \in Client, NEW t \in Nat
    PROVE  LimiterOf(c, t) \in Limiter /\ LimiterOf(c, t).tokens <= Full
BY NewLimiterFacts DEF TypeOK, LimiterOf, Visitor

LEMMA InitTypeInv == Init => TypeInv
BY FullFacts, BoundAssumption
DEF Init, TypeInv, TypeOK, FlightInv, VisitorInv, RequestState, Idle

LEMMA NextTypeInv == TypeInv /\ [Next]_vars => TypeInv'
<1> SUFFICES ASSUME TypeInv, [Next]_vars PROVE TypeInv'
  OBVIOUS
<1> USE BoundAssumption DEF TypeInv
<1>1. CASE Tick
  BY <1>1 DEF Tick, TypeOK, FlightInv, VisitorInv, RequestState, Visitor, Limiter
<1>2. ASSUME NEW r \in Request, NEW c \in Client, Arrive(r, c) PROVE TypeInv'
  BY <1>2 DEF Arrive, TypeOK, FlightInv, VisitorInv, RequestState
<1>3. ASSUME NEW r \in Request, Reserve(r) PROVE TypeInv'
  <2>1. PICK c \in Client, t \in Nat : c = request[r].client /\ t = request[r].now /\ t <= clock
    BY <1>3 DEF Reserve, TypeOK, FlightInv, RequestState
  <2>2. PICK new \in Limiter : /\ new = Reserved(LimiterOf(c, t), t)
                              /\ new.last = t /\ new.tokens <= Full
    BY ReservedFacts, LimiterOfType
  <2>3. /\ visitors' = [d \in Client |->
              IF d = c THEN [limiter |-> new, lastSeen |-> t]
              ELSE IF d \in Evicted(t) THEN None ELSE visitors[d]]
        /\ lastCleanup' \in {lastCleanup, t}
        /\ backwards' \in {backwards, backwards \cup {c}}
        /\ clock' = clock
        /\ \/ /\ request' = [Detached(t) EXCEPT ![r] = Idle]
              /\ paid' = [paid EXCEPT ![c] = AtLeast(t - Full, @) + Cost]
              /\ told' = [told EXCEPT ![c] = None]
           \/ /\ new.lastEvent > t
              /\ request' = [Detached(t) EXCEPT ![r] =
                               [pc |-> "refused", client |-> c, now |-> t,
                                due |-> new.lastEvent, mapped |-> TRUE]]
              /\ UNCHANGED <<paid, told>>
    BY <1>3, <2>1, <2>2 DEF Reserve, Seen
  <2>4. /\ Detached(t) \in [Request -> RequestState]
        /\ \A q \in Request :
              /\ Detached(t)[q].pc = request[q].pc
              /\ Detached(t)[q].client = request[q].client
              /\ Detached(t)[q].now = request[q].now
              /\ Detached(t)[q].due = request[q].due
              /\ Detached(t)[q].mapped =>
                    request[q].mapped /\ request[q].client \notin Evicted(t)
    BY DEF Detached, TypeOK, RequestState
  <2>5. /\ visitors' \in [Client -> Visitor \cup {None}]
        /\ \A d \in Client : visitors'[d] # None => visitors'[d].limiter.tokens <= Full
        /\ VisitorInv'
    BY <2>1, <2>2, <2>3 DEF TypeOK, VisitorInv, Visitor
  <2>6. /\ lastCleanup' \in Nat \cup {None}
        /\ backwards' \subseteq Client
        /\ clock' \in Nat
        /\ paid' \in [Client -> Int]
        /\ told' \in [Client -> Nat \cup {None}]
    BY <2>1, <2>3, FullFacts DEF TypeOK, AtLeast
  <2>7. PICK f \in [Request -> RequestState] : f = Detached(t)
    BY <2>4
  <2>8. /\ visitors'[c] # None
        /\ \A d \in Client \ Evicted(t) : visitors[d] # None => visitors'[d] # None
    BY <2>2, <2>3, NoVisitor DEF Visitor, TypeOK
  <2>10. ASSUME NEW q \in Request
         PROVE  /\ f[q].pc # "idle" => /\ f[q].client \in Client
                                       /\ f[q].now <= clock /\ clock <= f[q].now + MaxLag
                /\ f[q].pc = "refused" => f[q].due > f[q].now
                /\ f[q].mapped => f[q].pc = "refused" /\ visitors'[f[q].client] # None
    BY <2>4, <2>7, <2>8 DEF FlightInv
  <2>9. request' \in [Request -> RequestState] /\ FlightInv'
    <3>1. CASE request' = [f EXCEPT ![r] = Idle]
      <4>1. request' \in [Request -> RequestState]
        BY <3>1 DEF RequestState, Idle
      <4>2. request'[r] = Idle /\ \A q \in Request \ {r} : request'[q] = f[q]
        BY <3>1
      <4>3. Idle.pc = "idle" /\ Idle.mapped = FALSE
        BY DEF Idle
      <4> QED BY <2>3, <2>10, <4>1, <4>2, <4>3 DEF FlightInv
    <3>2. CASE /\ new.lastEvent > t
               /\ request' = [f EXCEPT ![r] =
                                [pc |-> "refused", client |-> c, now |-> t,
                                 due |-> new.lastEvent, mapped |-> TRUE]]
      <4>1. new.lastEvent \in Int
        BY <2>2 DEF Limiter
      <4>2. request' \in [Request -> RequestState]
        BY <3>2, <4>1 DEF RequestState
      <4>3. request'[r] = [pc |-> "refused", client |-> c, now |-> t,
                           due |-> new.lastEvent, mapped |-> TRUE]
            /\ \A q \in Request \ {r} : request'[q] = f[q]
        BY <3>2
      <4>4. clock <= t + MaxLag
        BY <1>3, <2>1 DEF Reserve, FlightInv
      <4> QED BY <2>1, <2>3, <2>8, <2>10, <3>2, <4>2, <4>3, <4>4 DEF FlightInv
    <3> QED BY <2>3, <2>7, <3>1, <3>2
  <2> QED BY <2>5, <2>6, <2>9 DEF TypeOK
<1>4. ASSUME NEW r \in Request, CancelAt(r) PROVE TypeInv'
  <2>1. PICK c \in Client, t \in Nat, due \in Int :
          /\ c = request[r].client /\ t = request[r].now /\ due = request[r].due
          /\ t <= clock /\ due > t
    BY <1>4 DEF CancelAt, TypeOK, FlightInv, RequestState
  <2>2. /\ \/ UNCHANGED visitors
           \/ /\ visitors[c] # None
              /\ visitors' = [visitors EXCEPT ![c] =
                                [limiter |-> Cancelled(visitors[c].limiter, due, t),
                                 lastSeen |-> visitors[c].lastSeen]]
        /\ backwards' \in {backwards, backwards \cup {c}}
        /\ told' \in {told, [told EXCEPT ![c] = t + RetryAfter(due - t)]}
        /\ request' = [request EXCEPT ![r] = Idle]
        /\ UNCHANGED <<clock, lastCleanup, paid>>
    BY <1>4, <2>1 DEF CancelAt, FlightInv
  <2>3. /\ visitors' \in [Client -> Visitor \cup {None}]
        /\ \A d \in Client : visitors[d] # None <=> visitors'[d] # None
        /\ \A d \in Client : visitors'[d] # None => visitors'[d].limiter.tokens <= Full
        /\ VisitorInv'
    <3>1. CASE UNCHANGED visitors
      BY <2>2, <3>1 DEF TypeOK, VisitorInv
    <3>2. CASE visitors[c] # None /\ ~UNCHANGED visitors
      <4>1. visitors[c].limiter \in Limiter /\ visitors[c].limiter.tokens <= Full
        BY <3>2 DEF TypeOK, Visitor
      <4>2. PICK new \in Limiter : /\ new = Cancelled(visitors[c].limiter, due, t)
                                  /\ new.tokens <= Full
                                  /\ new.last \in {visitors[c].limiter.last, t}
        BY <4>1, CancelledType
      <4>3. visitors[c].lastSeen \in Nat
        BY <3>2 DEF TypeOK, Visitor
      <4>4. visitors' = [visitors EXCEPT ![c] = [limiter |-> new, lastSeen |-> visitors[c].lastSeen]]
        BY <2>2, <3>2, <4>2
      <4>5. visitors' \in [Client -> Visitor \cup {None}] /\ visitors'[c] # None
        BY <4>2, <4>3, <4>4, NoVisitor DEF TypeOK, Visitor
      <4> QED BY <2>1, <2>2, <3>2, <4>2, <4>4, <4>5 DEF TypeOK, VisitorInv
    <3> QED BY <2>2, <3>1, <3>2
  <2>4. told' \in [Client -> Nat \cup {None}]
    <3>1. RetryAfter(due - t) \in Nat
      BY <2>1, RetryAfterCovers
    <3> QED BY <2>1, <2>2, <3>1 DEF TypeOK
  <2>5. request' \in [Request -> RequestState] /\ FlightInv'
    BY <2>1, <2>2, <2>3 DEF TypeOK, FlightInv, RequestState, Idle
  <2> QED BY <2>2, <2>3, <2>4, <2>5 DEF TypeOK
<1>5. CASE UNCHANGED vars
  BY <1>5 DEF vars, TypeOK, FlightInv, VisitorInv
<1> QED BY <1>1, <1>2, <1>3, <1>4, <1>5 DEF Next

\* Every variable keeps its type, and no bucket is ever overfull, whatever
\* overlaps and whatever times the limiter is given.
THEOREM LimiterTyped == Spec => []TypeOK
<1>1. TypeInv => TypeOK
  BY DEF TypeInv
<1> QED BY InitTypeInv, NextTypeInv, <1>1, PTL DEF Spec

-----------------------------------------------------------------------------
(* What is let through is paid for *)

\* A bucket l of client c with the requests f, if l was never given an
\* earlier time.  The floor is the line of the last request let through:
\* those that wait are a token's worth below it, and will not be given back,
\* or a token's worth above.
Steady(c, l, p, f) ==
    LET line == l.last - l.tokens
        Waits(r) == f[r].mapped /\ f[r].client = c
    IN
    /\ p <= l.last
    /\ \A r \in Request : Waits(r) =>
          f[r].now <= l.last /\ f[r].due <= line /\ f[r].due <= l.lastEvent
    /\ \A r, q \in Request : Waits(r) /\ Waits(q) /\ r # q =>
          f[r].due >= f[q].due + Cost \/ f[q].due >= f[r].due + Cost
    /\ \E floor \in Int :
          /\ p <= floor /\ floor <= line /\ floor <= l.lastEvent
          /\ \A r \in Request : Waits(r) =>
                f[r].due + Cost <= floor \/ f[r].due >= floor + Cost

\* A client without a bucket has paid for all it got, as of any time that may
\* still be used for it.
EmptyInv(c) ==
    visitors[c] = None =>
      /\ paid[c] + Full <= clock
      /\ \A r \in Request : request[r].pc = "arrived" /\ request[r].client = c =>
            paid[c] + Full <= request[r].now

SeenInv(c) ==
    visitors[c] # None =>
      /\ visitors[c].lastSeen = visitors[c].limiter.last
      /\ Steady(c, visitors[c].limiter, paid[c], request)

BucketInv == \A c \in Client \ backwards : EmptyInv(c) /\ SeenInv(c)

LEMMA FewerWait ==
    ASSUME NEW c \in Client, NEW l \in Limiter, NEW p \in Int,
           NEW f \in [Request -> RequestState], NEW g \in [Request -> RequestState],
           Steady(c, l, p, f),
           \A q \in Request : g[q].mapped /\ g[q].client = c =>
               /\ f[q].mapped /\ f[q].client = c
               /\ f[q].now = g[q].now /\ f[q].due = g[q].due
    PROVE  Steady(c, l, p, g)
BY DEF Steady

\* A reservation that need not wait: the floor comes up to the new line.
LEMMA AdmitSteady ==
    ASSUME NEW c \in Client, NEW l \in Limiter, NEW p \in Int, NEW t \in Nat,
           NEW f \in [Request -> RequestState],
           l.tokens <= Full, t >= l.last, Steady(c, l, p, f),
           Reserved(l, t).lastEvent <= t
    PROVE  Steady(c, Reserved(l, t), AtLeast(t - Full, p) + Cost, f)
<1>1. PICK new \in Limiter :
        /\ new = Reserved(l, t)
        /\ new.last = t /\ new.tokens >= 0 /\ new.lastEvent = t
        /\ t - new.tokens >= (l.last - l.tokens) + Cost
        /\ t - new.tokens >= (t - Full) + Cost
  <2>1. PICK new \in Limiter :
          /\ new = Reserved(l, t)
          /\ new.last = t /\ new.tokens >= 0 /\ new.lastEvent >= t /\ new.lastEvent <= t
          /\ t - new.tokens >= (l.last - l.tokens) + Cost
          /\ t - new.tokens >= (t - Full) + Cost
    BY ReservedFacts
  <2>2. new.lastEvent = t
    BY <2>1 DEF Limiter
  <2> QED BY <2>1, <2>2
<1>2. PICK line \in Int, paid2 \in Int :
        /\ line = t - new.tokens /\ paid2 = AtLeast(t - Full, p) + Cost
        /\ line >= (l.last - l.tokens) + Cost /\ line <= t
        /\ paid2 <= line
  <2>1. PICK floor \in Int : p <= floor /\ floor <= l.last - l.tokens
    BY DEF Steady
  <2>2. t - new.tokens \in Int /\ AtLeast(t - Full, p) + Cost \in Int
    BY FullFacts DEF AtLeast, Limiter
  <2>3. l.last - l.tokens \in Int
    BY DEF Limiter
  <2> QED BY <1>1, <2>1, <2>2, <2>3, FullFacts DEF AtLeast, Limiter
<1>3. ASSUME NEW r \in Request, f[r].mapped, f[r].client = c
      PROVE  f[r].now <= t /\ f[r].due + Cost <= line /\ f[r].due <= t
  BY <1>2, <1>3, FullFacts DEF Steady, Limiter, RequestState
<1>4. ASSUME NEW r \in Request PROVE f[r].due \in Int
  BY <1>4 DEF RequestState
<1>5. Steady(c, new, paid2, f)
  <2>1. \A r, q \in Request :
           f[r].mapped /\ f[r].client = c /\ f[q].mapped /\ f[q].client = c /\ r # q =>
             f[r].due >= f[q].due + Cost \/ f[q].due >= f[r].due + Cost
    BY DEF Steady
  <2>2. \A r \in Request : f[r].mapped /\ f[r].client = c =>
           f[r].now <= t /\ f[r].due <= line /\ f[r].due <= t /\ f[r].due + Cost <= line
    BY <1>2, <1>3, <1>4, FullFacts
  <2>3. paid2 <= t /\ line <= t
    BY <1>2
  <2> QED BY <1>1, <1>2, <2>1, <2>2, <2>3 DEF Steady
<1> QED BY <1>1, <1>2, <1>5

\* A reservation that must wait is due a token's worth above the old line.
LEMMA RefuseSteady ==
    ASSUME NEW c \in Client, NEW l \in Limiter, NEW p \in Int, NEW t \in Nat,
           NEW f \in [Request -> RequestState], NEW r \in Request,
           l.tokens <= Full, t >= l.last, Steady(c, l, p, f),
           Reserved(l, t).lastEvent > t, ~f[r].mapped
    PROVE  Steady(c, Reserved(l, t), p,
                  [f EXCEPT ![r] = [pc |-> "refused", client |-> c, now |-> t,
                                    due |-> Reserved(l, t).lastEvent, mapped |-> TRUE]])
<1>1. PICK new \in Limiter :
        /\ new = Reserved(l, t)
        /\ new.last = t /\ new.lastEvent = t - new.tokens
        /\ t - new.tokens >= (l.last - l.tokens) + Cost
        /\ new.lastEvent > t
  BY ReservedFacts
<1>2. PICK old \in Int, due \in Int :
        /\ old = l.last - l.tokens /\ due = new.lastEvent
        /\ due >= old + Cost /\ due > t
        /\ due = t - new.tokens
  BY <1>1 DEF Limiter
<1>3. PICK g : g = [f EXCEPT ![r] = [pc |-> "refused", client |-> c, now |-> t,
                                    due |-> due, mapped |-> TRUE]]
  OBVIOUS
<1>4. /\ g[r].mapped /\ g[r].client = c /\ g[r].now = t /\ g[r].due = due
      /\ \A q \in Request \ {r} : g[q] = f[q]
      /\ \A q \in Request : f[q].due \in Int /\ f[q].now \in Nat
  BY <1>3 DEF RequestState
<1>5. PICK floor \in Int :
        /\ p <= floor /\ floor <= old /\ floor <= l.lastEvent
        /\ \A q \in Request : f[q].mapped /\ f[q].client = c =>
              f[q].due + Cost <= floor \/ f[q].due >= floor + Cost
  BY <1>2 DEF Steady
<1>6. ASSUME NEW q \in Request \ {r}, g[q].mapped, g[q].client = c
      PROVE  /\ g[q].now <= t /\ g[q].due <= old
             /\ g[q].due + Cost <= floor \/ g[q].due >= floor + Cost
  BY <1>2, <1>4, <1>5, <1>6 DEF Steady, Limiter
<1>7. ASSUME NEW q1 \in Request \ {r}, NEW q2 \in Request \ {r}, q1 # q2,
             g[q1].mapped, g[q1].client = c, g[q2].mapped, g[q2].client = c
      PROVE  g[q1].due >= g[q2].due + Cost \/ g[q2].due >= g[q1].due + Cost
  BY <1>4, <1>7 DEF Steady
<1>8. p <= t
  BY DEF Steady, Limiter
<1>9. Steady(c, new, p, g)
  <2>1. \A q \in Request : g[q].due \in Int
    BY <1>2, <1>4
  <2>2. \A q \in Request : g[q].mapped /\ g[q].client = c =>
           g[q].now <= t /\ g[q].due <= due
    BY <1>2, <1>4, <1>6, <2>1, FullFacts
  <2>3. \A q1, q2 \in Request :
           /\ g[q1].mapped /\ g[q1].client = c
           /\ g[q2].mapped /\ g[q2].client = c
           /\ q1 # q2
           => g[q1].due >= g[q2].due + Cost \/ g[q2].due >= g[q1].due + Cost
    BY <1>2, <1>4, <1>6, <1>7, <2>1, FullFacts
  <2>4. /\ p <= floor /\ floor <= due
        /\ \A q \in Request : g[q].mapped /\ g[q].client = c =>
              g[q].due + Cost <= floor \/ g[q].due >= floor + Cost
    BY <1>2, <1>4, <1>5, <1>6, <2>1, FullFacts
  <2> QED BY <1>1, <1>2, <1>8, <2>2, <2>3, <2>4 DEF Steady
<1> QED BY <1>1, <1>2, <1>3, <1>9
\* A cancellation at the last time of the bucket: what is given back stays
\* above the floor and above what waits below it.
LEMMA CancelSteady ==
    ASSUME NEW c \in Client, NEW l \in Limiter, NEW p \in Int,
           NEW f \in [Request -> RequestState], NEW r \in Request,
           l.tokens <= Full, Steady(c, l, p, f),
           f[r].mapped, f[r].client = c, f[r].due > l.last
    PROVE  Steady(c, Cancelled(l, f[r].due, l.last), p, [f EXCEPT ![r] = Idle])
<1>1. PICK due \in Int, old \in Int, last \in Nat :
        due = f[r].due /\ old = l.last - l.tokens /\ last = l.last /\ due > last
  BY DEF RequestState, Limiter
<1>2. PICK g \in [Request -> RequestState] :
        /\ g = [f EXCEPT ![r] = Idle]
        /\ ~g[r].mapped /\ \A q \in Request \ {r} : g[q] = f[q]
        /\ \A q \in Request : f[q].due \in Int /\ f[q].now \in Nat
  <2>1. Idle \in RequestState /\ ~Idle.mapped
    BY DEF RequestState, Idle
  <2>2. [f EXCEPT ![r] = Idle] \in [Request -> RequestState]
    BY <2>1
  <2> QED BY <2>1, <2>2 DEF RequestState
<1>3. Steady(c, l, p, g)
  <2>1. \A q \in Request : g[q].mapped => f[q] = g[q]
    BY <1>2
  <2> QED BY <2>1, FewerWait
<1>4. CASE l.lastEvent >= due + Cost
  <2>1. Cancelled(l, due, last) = l
    BY <1>1, <1>4, FullFacts DEF Cancelled, Limiter
  <2> QED BY <1>1, <1>2, <1>3, <2>1
<1>5. CASE l.lastEvent < due + Cost
  <2>1. due <= old /\ due <= l.lastEvent
    BY <1>1 DEF Steady
  <2>2. PICK floor \in Int :
          /\ p <= floor /\ floor <= old /\ floor <= l.lastEvent
          /\ \A q \in Request : f[q].mapped /\ f[q].client = c =>
                f[q].due + Cost <= floor \/ f[q].due >= floor + Cost
    BY <1>1 DEF Steady
  <2>3. due >= floor + Cost
    BY <1>1, <1>5, <2>2, FullFacts DEF Limiter
  <2>4. PICK new \in Limiter :
          /\ new = Cancelled(l, due, last)
          /\ new.last = last
          /\ new.last - new.tokens >= old - Cost + (l.lastEvent - due)
          /\ new.lastEvent \in {l.lastEvent, due - Cost}
          /\ new.lastEvent # l.lastEvent => l.lastEvent = due
    <3>1. Cancelled(l, due, last) \in Limiter
      BY <1>1, CancelledType
    <3> QED BY <1>1, <1>5, <2>1, <3>1, CancelledFacts
  <2>5. PICK line \in Int : line = last - new.tokens /\ line >= due - Cost
    BY <1>1, <2>1, <2>4, FullFacts DEF Limiter
  <2>6. new.lastEvent >= due - Cost
    BY <1>1, <2>1, <2>4, FullFacts DEF Limiter
  <2>7. ASSUME NEW q \in Request, g[q].mapped, g[q].client = c
        PROVE  /\ g[q].now <= last
               /\ g[q].due + Cost <= due
               /\ g[q].due + Cost <= floor \/ g[q].due >= floor + Cost
    <3>1. q # r /\ g[q] = f[q]
      BY <1>2, <2>7
    <3>2. f[q].now <= last /\ f[q].due <= l.lastEvent
      BY <1>1, <2>7, <3>1 DEF Steady
    <3>3. f[q].due >= due + Cost \/ due >= f[q].due + Cost
      BY <1>1, <2>7, <3>1 DEF Steady
    <3>4. f[q].due \in Int /\ l.lastEvent \in Int
      BY <1>2 DEF Limiter
    <3> QED BY <1>1, <1>5, <2>2, <2>7, <3>1, <3>2, <3>3, <3>4, FullFacts
  <2>8. /\ p <= last
        /\ \A q1, q2 \in Request :
              /\ g[q1].mapped /\ g[q1].client = c
              /\ g[q2].mapped /\ g[q2].client = c
              /\ q1 # q2
              => g[q1].due >= g[q2].due + Cost \/ g[q2].due >= g[q1].due + Cost
    BY <1>1, <1>3 DEF Steady
  <2>9. \A q \in Request : g[q].mapped /\ g[q].client = c =>
           g[q].now <= last /\ g[q].due <= line /\ g[q].due <= new.lastEvent
    <3>1. \A q \in Request : g[q].due \in Int
      BY DEF RequestState
    <3> QED BY <1>1, <2>5, <2>6, <2>7, <3>1, FullFacts DEF Limiter
  <2>10. floor <= line /\ floor <= new.lastEvent
    BY <1>1, <2>3, <2>5, <2>6, FullFacts DEF Limiter
  <2>11. Steady(c, new, p, g)
    BY <2>2, <2>4, <2>5, <2>7, <2>8, <2>9, <2>10 DEF Steady
  <2> QED BY <1>1, <1>2, <2>4, <2>11
<1> QED BY <1>1, <1>4, <1>5, FullFacts DEF Limiter

\* A new limiter behaves as one that was full at t.
LEMMA NewLimiterAt ==
    ASSUME NEW t \in Nat
    PROVE  LET full == [tokens |-> Full, last |-> t, lastEvent |-> t] IN
           /\ full \in Limiter
           /\ Reserved(NewLimiter, t) = Reserved(full, t)
           /\ Reserved(full, t).lastEvent <= t
BY FullFacts DEF NewLimiter, Reserved, Level, AtMost, Limiter
LEMMA InitBucketInv == Init => BucketInv
<1> SUFFICES ASSUME Init, NEW c \in Client PROVE EmptyInv(c) /\ SeenInv(c)
  BY DEF BucketInv
<1> QED BY FullFacts DEF Init, EmptyInv, SeenInv, Idle

\* A client that is evicted at t has paid for all it got before any time that
\* may still be used for it: that takes a TTL that refills a bucket.
LEMMA EvictedIsFull ==
    ASSUME VisitorTTL >= Full + MaxLag, TypeInv, BucketInv,
           NEW c \in Client \ backwards, NEW t \in Nat, t <= clock, c \in Evicted(t)
    PROVE  /\ paid[c] + Full <= clock
           /\ \A q \in Request : request[q].pc = "arrived" /\ request[q].client = c =>
                paid[c] + Full <= request[q].now
<1>1. visitors[c] # None /\ t - visitors[c].lastSeen > VisitorTTL
  BY DEF Evicted
<1>2. PICK seen \in Nat : seen = visitors[c].lastSeen /\ seen + VisitorTTL < t
  BY <1>1, ConfigAssumption DEF TypeInv, TypeOK, Visitor
<1>3. paid[c] <= seen
  BY <1>1, <1>2 DEF BucketInv, SeenInv, Steady
<1>4. paid[c] \in Int /\ clock \in Nat
  BY DEF TypeInv, TypeOK
<1>5. ASSUME NEW q \in Request, request[q].pc = "arrived" PROVE paid[c] + Full <= request[q].now
  <2>1. request[q].now \in Nat /\ clock <= request[q].now + MaxLag
    BY <1>5 DEF TypeInv, TypeOK, FlightInv, RequestState
  <2> QED BY <1>2, <1>3, <1>4, <2>1, FullFacts, BoundAssumption, ConfigAssumption
<1> QED BY <1>2, <1>3, <1>4, <1>5, FullFacts, BoundAssumption, ConfigAssumption

LEMMA ReserveBucketInv ==
    ASSUME VisitorTTL >= Full + MaxLag, TypeInv, TypeInv', BucketInv,
           NEW r \in Request, Reserve(r), NEW d \in Client \ backwards'
    PROVE  EmptyInv(d)' /\ SeenInv(d)'
<1>1. PICK c \in Client, t \in Nat :
        /\ c = request[r].client /\ t = request[r].now /\ t <= clock
        /\ request[r].pc = "arrived" /\ ~request[r].mapped
  BY DEF Reserve, TypeInv, TypeOK, FlightInv, RequestState
<1>2. PICK l \in Limiter, new \in Limiter :
        /\ l = LimiterOf(c, t) /\ new = Reserved(l, t)
        /\ new.last = t /\ l.tokens <= Full
  BY LimiterOfType, ReservedFacts DEF TypeInv
<1>3. PICK f \in [Request -> RequestState] :
        /\ f = Detached(t)
        /\ \A q \in Request : /\ f[q].pc = request[q].pc
                              /\ f[q].client = request[q].client
                              /\ f[q].now = request[q].now
                              /\ f[q].due = request[q].due
                              /\ f[q].mapped =>
                                   request[q].mapped /\ request[q].client \notin Evicted(t)
  <2>1. Detached(t) \in [Request -> RequestState]
    BY DEF Detached, TypeInv, TypeOK, RequestState
  <2> QED BY <2>1 DEF Detached
<1>4. /\ visitors' = [e \in Client |->
            IF e = c THEN [limiter |-> new, lastSeen |-> t]
            ELSE IF e \in Evicted(t) THEN None ELSE visitors[e]]
      /\ backwards' = IF t < l.last THEN backwards \cup {c} ELSE backwards
      /\ clock' = clock
      /\ \/ /\ new.lastEvent <= t
            /\ request' = [f EXCEPT ![r] = Idle]
            /\ paid' = [paid EXCEPT ![c] = AtLeast(t - Full, @) + Cost]
         \/ /\ new.lastEvent > t
            /\ request' = [f EXCEPT ![r] =
                             [pc |-> "refused", client |-> c, now |-> t,
                              due |-> new.lastEvent, mapped |-> TRUE]]
            /\ UNCHANGED paid
  BY <1>1, <1>2, <1>3 DEF Reserve, Seen
<1>5. d \in Client \ backwards /\ (d = c => t >= l.last)
  BY <1>4, <1>2 DEF Limiter
<1>6. /\ request' \in [Request -> RequestState]
      /\ paid \in [Client -> Int]
      /\ request \in [Request -> RequestState]
  BY DEF TypeInv, TypeOK
<1>7. CASE d # c
  <2>1. paid'[d] = paid[d]
    BY <1>4, <1>6, <1>7
  <2>2. /\ request'[r].client = c \/ request'[r].client = None
        /\ request'[r].pc # "arrived"
        /\ \A q \in Request \ {r} : request'[q] = f[q]
    BY <1>4 DEF Idle
  <2>3. d # None
    BY BoundAssumption
  <2>4. CASE d \in Evicted(t)
    <3>1. visitors'[d] = None
      BY <1>4, <1>7, <2>4
    <3>2. \A q \in Request : request'[q].pc = "arrived" /\ request'[q].client = d =>
             request[q].pc = "arrived" /\ request[q].client = d /\ request'[q].now = request[q].now
      BY <1>3, <1>7, <2>2, <2>3
    <3>3. EmptyInv(d)'
      BY <1>1, <1>4, <1>5, <2>1, <2>4, <3>2, EvictedIsFull DEF EmptyInv
    <3> QED BY <3>1, <3>3 DEF SeenInv
  <2>5. CASE d \notin Evicted(t)
    <3>1. visitors'[d] = visitors[d]
      BY <1>4, <1>7, <2>5
    <3>2. EmptyInv(d)'
      <4>1. EmptyInv(d)
        BY <1>5 DEF BucketInv
      <4> QED BY <1>3, <1>4, <1>7, <2>1, <2>2, <2>3, <3>1, <4>1 DEF EmptyInv
    <3>3. ASSUME visitors[d] # None
          PROVE  Steady(d, visitors[d].limiter, paid[d], request')
      <4>1. Steady(d, visitors[d].limiter, paid[d], request)
        BY <1>5, <3>3 DEF BucketInv, SeenInv
      <4>2. visitors[d].limiter \in Limiter /\ paid[d] \in Int
        BY <3>3 DEF TypeInv, TypeOK, Visitor
      <4>3. \A q \in Request : request'[q].mapped /\ request'[q].client = d =>
               /\ request[q].mapped /\ request[q].client = d
               /\ request[q].now = request'[q].now /\ request[q].due = request'[q].due
        BY <1>3, <1>7, <2>2, <2>3
      <4> QED BY <1>6, <4>1, <4>2, <4>3, FewerWait
    <3>4. SeenInv(d) => SeenInv(d)'
      BY <2>1, <3>1, <3>3 DEF SeenInv
    <3> QED BY <1>5, <3>2, <3>4 DEF BucketInv
  <2> QED BY <2>4, <2>5
<1>8. CASE d = c
  <2>1. PICK k \in Limiter :
          /\ k.tokens <= Full /\ t >= k.last /\ Reserved(k, t) = new
          /\ Steady(c, k, paid[c], f)
    <3>1. paid[c] \in Int
      BY <1>6
    <3>2. CASE visitors[c] = None \/ c \in Evicted(t)
      <4>1. paid[c] + Full <= t
        <5>1. CASE visitors[c] = None
          BY <1>1, <1>5, <1>8, <5>1 DEF BucketInv, EmptyInv
        <5>2. CASE c \in Evicted(t)
          BY <1>1, <1>5, <1>8, <5>2, EvictedIsFull
        <5> QED BY <3>2, <5>1, <5>2
      <4>2. PICK k \in Limiter :
              /\ k = [tokens |-> Full, last |-> t, lastEvent |-> t]
              /\ Reserved(NewLimiter, t) = Reserved(k, t)
        BY NewLimiterAt
      <4>3. l = NewLimiter
        BY <1>2, <3>2 DEF LimiterOf
      <4>4. \A q \in Request : ~(f[q].mapped /\ f[q].client = c)
        <5>1. CASE visitors[c] = None
          BY <1>3, <5>1 DEF TypeInv, FlightInv
        <5>2. CASE c \in Evicted(t)
          BY <1>3, <5>2
        <5> QED BY <3>2, <5>1, <5>2
      <4>5. paid[c] <= t /\ paid[c] <= t - Full /\ t - Full <= t
        BY <3>1, <4>1, FullFacts
      <4>6. Steady(c, k, paid[c], f)
        <5>1. k.last = t /\ k.tokens = Full /\ k.lastEvent = t /\ t - Full \in Int
          BY <4>2, FullFacts
        <5> QED BY <4>4, <4>5, <5>1 DEF Steady
      <4> QED BY <1>2, <4>2, <4>3, <4>6, FullFacts
    <3>3. CASE visitors[c] # None /\ c \notin Evicted(t)
      <4>1. l = visitors[c].limiter /\ Steady(c, l, paid[c], request)
        BY <1>2, <1>5, <1>8, <3>3 DEF LimiterOf, BucketInv, SeenInv
      <4>2. Steady(c, l, paid[c], f)
        BY <1>3, <1>6, <3>1, <4>1, FewerWait
      <4> QED BY <1>2, <1>5, <1>8, <4>2
    <3> QED BY <3>2, <3>3
  <2>2. visitors'[c] = [limiter |-> new, lastSeen |-> t] /\ visitors'[c] # None
    <3>1. visitors'[c] = [limiter |-> new, lastSeen |-> t]
      BY <1>4
    <3>2. [limiter |-> new, lastSeen |-> t] \in Visitor
      BY DEF Visitor
    <3> QED BY <3>1, <3>2, NoVisitor
  <2>3. Steady(c, new, paid'[c], request')
    <3>1. CASE /\ new.lastEvent <= t
               /\ request' = [f EXCEPT ![r] = Idle]
               /\ paid' = [paid EXCEPT ![c] = AtLeast(t - Full, @) + Cost]
      <4>1. paid'[c] = AtLeast(t - Full, paid[c]) + Cost /\ paid'[c] \in Int
        BY <1>6, <3>1, FullFacts DEF AtLeast
      <4>2. Steady(c, new, paid'[c], f)
        BY <1>6, <2>1, <3>1, <4>1, AdmitSteady
      <4>3. \A q \in Request : request'[q].mapped => request'[q] = f[q]
        BY <3>1 DEF Idle
      <4> QED BY <1>6, <4>1, <4>2, <4>3, FewerWait
    <3>2. CASE /\ new.lastEvent > t
               /\ request' = [f EXCEPT ![r] =
                                [pc |-> "refused", client |-> c, now |-> t,
                                 due |-> new.lastEvent, mapped |-> TRUE]]
               /\ UNCHANGED paid
      <4>1. ~f[r].mapped /\ paid[c] \in Int
        BY <1>1, <1>3, <1>6
      <4> QED BY <2>1, <3>2, <4>1, RefuseSteady
    <3> QED BY <1>4, <3>1, <3>2
  <2> QED BY <1>2, <1>8, <2>2, <2>3 DEF EmptyInv, SeenInv
<1> QED BY <1>7, <1>8
LEMMA CancelBucketInv ==
    ASSUME TypeInv, TypeInv', BucketInv,
           NEW r \in Request, CancelAt(r), NEW d \in Client \ backwards'
    PROVE  EmptyInv(d)' /\ SeenInv(d)'
<1>1. PICK c \in Client, t \in Nat, due \in Int :
        /\ c = request[r].client /\ t = request[r].now /\ due = request[r].due
        /\ due > t
  BY DEF CancelAt, TypeInv, TypeOK, FlightInv, RequestState
<1>2. /\ request' = [request EXCEPT ![r] = Idle]
      /\ UNCHANGED <<clock, paid>>
      /\ d \in Client \ backwards
  BY DEF CancelAt
<1>3. /\ request \in [Request -> RequestState]
      /\ request' \in [Request -> RequestState]
      /\ paid[d] \in Int
  BY DEF TypeInv, TypeOK
<1>4. \A q \in Request : request'[q].mapped \/ request'[q].pc = "arrived" => request'[q] = request[q]
  BY <1>2 DEF Idle
<1>5. CASE visitors'[d] = visitors[d]
  <2>1. EmptyInv(d)'
    <3>1. EmptyInv(d)
      BY <1>2 DEF BucketInv
    <3> QED BY <1>2, <1>4, <1>5, <3>1 DEF EmptyInv
  <2>2. ASSUME visitors[d] # None PROVE Steady(d, visitors[d].limiter, paid[d], request')
    <3>1. Steady(d, visitors[d].limiter, paid[d], request) /\ visitors[d].limiter \in Limiter
      BY <1>2, <2>2 DEF BucketInv, SeenInv, TypeInv, TypeOK, Visitor
    <3> QED BY <1>3, <1>4, <3>1, FewerWait
  <2>3. SeenInv(d)'
    BY <1>2, <1>5, <2>2 DEF BucketInv, SeenInv
  <2> QED BY <2>1, <2>3
<1>6. CASE visitors'[d] # visitors[d]
  <2>1. d = c /\ request[r].mapped /\ visitors[c] # None
    BY <1>1, <1>6 DEF CancelAt, TypeInv, TypeOK, FlightInv
  <2>2. PICK l \in Limiter, seen \in Nat :
          l = visitors[c].limiter /\ seen = visitors[c].lastSeen /\ l.tokens <= Full
    BY <2>1 DEF TypeInv, TypeOK, Visitor
  <2>3. PICK new \in Limiter : new = Cancelled(l, due, t)
    BY <2>2, CancelledType
  <2>4. /\ visitors'[c] = [limiter |-> new, lastSeen |-> seen]
        /\ backwards' = IF new.last < l.last THEN backwards \cup {c} ELSE backwards
    BY <1>1, <2>1, <2>2, <2>3 DEF CancelAt, TypeInv, TypeOK
  <2>5. seen = l.last /\ Steady(c, l, paid[c], request)
    BY <1>2, <2>1, <2>2 DEF BucketInv, SeenInv
  <2>6. t <= l.last
    BY <1>1, <2>1, <2>5 DEF Steady
  <2>7. new = l \/ new.last = t
    BY <2>3 DEF Cancelled
  <2>8. new.last >= l.last
    BY <1>2, <2>1, <2>4 DEF Limiter
  <2>9. new.last = l.last /\ Steady(c, new, paid[c], request')
    <3>1. CASE new = l
      BY <1>3, <1>4, <2>1, <2>5, <3>1, FewerWait
    <3>2. CASE new.last = t
      <4>1. t = l.last
        BY <2>6, <2>8, <3>2 DEF Limiter
      <4>2. Steady(c, Cancelled(l, due, l.last), paid[c], [request EXCEPT ![r] = Idle])
        BY <1>1, <1>3, <2>1, <2>2, <2>5, <4>1, CancelSteady
      <4> QED BY <1>2, <2>3, <3>2, <4>1, <4>2
    <3> QED BY <2>7, <3>1, <3>2
  <2>10. visitors'[c] # None
    <3>1. [limiter |-> new, lastSeen |-> seen] \in Visitor
      BY DEF Visitor
    <3> QED BY <2>4, <3>1, NoVisitor
  <2> QED BY <1>2, <2>1, <2>4, <2>5, <2>9, <2>10 DEF EmptyInv, SeenInv
<1> QED BY <1>5, <1>6

LEMMA NextBucketInv ==
    ASSUME VisitorTTL >= Full + MaxLag, TypeInv, TypeInv', BucketInv, [Next]_vars
    PROVE  BucketInv'
<1> SUFFICES ASSUME NEW d \in Client \ backwards'
             PROVE  EmptyInv(d)' /\ SeenInv(d)'
  BY DEF BucketInv
<1>1. CASE Tick
  <2>1. EmptyInv(d) /\ SeenInv(d) /\ paid[d] \in Int /\ clock \in Nat
    BY <1>1 DEF BucketInv, Tick, TypeInv, TypeOK
  <2> QED BY <1>1, <2>1, FullFacts DEF Tick, EmptyInv, SeenInv
<1>2. ASSUME NEW r \in Request, NEW c \in Client, Arrive(r, c)
      PROVE  EmptyInv(d)' /\ SeenInv(d)'
  <2>1. EmptyInv(d) /\ SeenInv(d)
    BY <1>2 DEF BucketInv, Arrive
  <2>2. /\ UNCHANGED <<clock, visitors, paid>>
        /\ \A q \in Request : request'[q].mapped => request'[q] = request[q]
        /\ \A q \in Request : request'[q].pc = "arrived" =>
              request'[q] = request[q] \/ request'[q].now = clock
    BY <1>2 DEF Arrive, TypeInv, TypeOK
  <2>3. EmptyInv(d)'
    BY <2>1, <2>2 DEF EmptyInv
  <2>4. ASSUME visitors[d] # None PROVE Steady(d, visitors[d].limiter, paid[d], request')
    <3>1. /\ visitors[d].limiter \in Limiter /\ paid[d] \in Int
          /\ request \in [Request -> RequestState] /\ request' \in [Request -> RequestState]
      BY <2>4 DEF TypeInv, TypeOK, Visitor
    <3>2. Steady(d, visitors[d].limiter, paid[d], request)
      BY <2>1, <2>4 DEF SeenInv
    <3> QED BY <2>2, <3>1, <3>2, FewerWait
  <2>5. SeenInv(d)'
    BY <2>1, <2>2, <2>4 DEF SeenInv
  <2> QED BY <2>3, <2>5
<1>3. ASSUME NEW r \in Request, Reserve(r) PROVE EmptyInv(d)' /\ SeenInv(d)'
  BY <1>3, ReserveBucketInv
<1>4. ASSUME NEW r \in Request, CancelAt(r) PROVE EmptyInv(d)' /\ SeenInv(d)'
  BY <1>4, CancelBucketInv
<1>5. CASE UNCHANGED vars
  BY <1>5 DEF vars, BucketInv, EmptyInv, SeenInv
<1> QED BY <1>1, <1>2, <1>3, <1>4, <1>5 DEF Next

LEMMA PaidInTime == TypeInv /\ BucketInv => AdmittedWithinRate
<1> SUFFICES ASSUME TypeInv, BucketInv, NEW c \in Client \ backwards
             PROVE  paid[c] <= clock
  BY DEF AdmittedWithinRate
<1>1. paid[c] \in Int /\ clock \in Nat
  BY DEF TypeInv, TypeOK
<1>2. CASE visitors[c] = None
  BY <1>1, <1>2, FullFacts DEF BucketInv, EmptyInv
<1>3. CASE visitors[c] # None
  <2>1. visitors[c].limiter.last \in Nat /\ visitors[c].limiter.last <= clock
    BY <1>3 DEF TypeInv, TypeOK, VisitorInv, Visitor, Limiter
  <2>2. paid[c] <= visitors[c].limiter.last
    BY <1>3 DEF BucketInv, SeenInv, Steady
  <2> QED BY <1>1, <2>1, <2>2
<1> QED BY <1>2, <1>3

\* withRateLimit never lets a client through faster than RATE_LIMIT_RPS after
\* a burst of RATE_LIMIT_BURST, for any number of clients and of requests at
\* once, if a visitor is kept for as long as its bucket takes to refill and a
\* request to pass, and the limiter is never given an earlier time.
THEOREM RateIsKept ==
    VisitorTTL >= Full + MaxLag => (Spec => []AdmittedWithinRate)
<1> SUFFICES ASSUME VisitorTTL >= Full + MaxLag PROVE Spec => []AdmittedWithinRate
  OBVIOUS
<1>1. Spec => []TypeInv
  BY InitTypeInv, NextTypeInv, PTL DEF Spec
<1>2. TypeInv /\ TypeInv' /\ BucketInv /\ [Next]_vars => BucketInv'
  BY NextBucketInv
<1> QED BY <1>1, <1>2, InitBucketInv, PaidInTime, PTL DEF Spec

-----------------------------------------------------------------------------
(* Retry-After *)

\* A client that waits for its answers has one request at a time; while it is
\* not being refused, its line is a token below what it was told.
AloneInv(c) ==
    /\ \A r, q \in Request : request[r].client = c /\ request[q].client = c => r = q
    /\ \A r \in Request : request[r].client = c /\ request[r].pc = "refused" =>
          /\ request[r].mapped \/ visitors[c] = None
          /\ told[c] # None => request[r].now < told[c]
    /\ visitors[c] # None =>
          LET l    == visitors[c].limiter
              line == l.last - l.tokens
          IN
          /\ \A r \in Request : request[r].client = c /\ request[r].pc = "arrived" =>
                request[r].now >= l.last
          /\ \A r \in Request : request[r].client = c /\ request[r].pc = "refused" =>
                request[r].now = l.last /\ request[r].due = line /\ request[r].due = l.lastEvent
          /\ \/ told[c] = None
             \/ told[c] >= line + Cost
             \/ \E r \in Request : request[r].client = c /\ request[r].pc = "refused"

AloneInvs == \A c \in Client \ Overlap : AloneInv(c)

LEMMA InitAloneInvs == Init => AloneInvs
<1> SUFFICES ASSUME Init, NEW c \in Client PROVE AloneInv(c)
  BY DEF AloneInvs
<1>1. visitors[c] = None /\ \A r \in Request : request[r].client # c
  BY BoundAssumption DEF Init, Idle
<1> QED BY <1>1 DEF AloneInv

LEMMA ReserveAloneInv ==
    ASSUME TypeInv, TypeInv', AloneInvs,
           NEW r \in Request, Reserve(r), NEW d \in Client \ Overlap
    PROVE  AloneInv(d)'
<1>1. PICK c \in Client, t \in Nat :
        /\ c = request[r].client /\ t = request[r].now
        /\ request[r].pc = "arrived" /\ ~request[r].mapped
  BY DEF Reserve, TypeInv, TypeOK, FlightInv, RequestState
<1>2. PICK l \in Limiter, new \in Limiter :
        /\ l = LimiterOf(c, t) /\ new = Reserved(l, t) /\ l.tokens <= Full
  BY LimiterOfType, ReservedFacts DEF TypeInv
<1>3. PICK f \in [Request -> RequestState] :
        /\ f = Detached(t)
        /\ \A q \in Request : /\ f[q].pc = request[q].pc
                              /\ f[q].client = request[q].client
                              /\ f[q].now = request[q].now
                              /\ f[q].due = request[q].due
                              /\ request[q].client \notin Evicted(t) =>
                                    f[q].mapped = request[q].mapped
  <2>1. Detached(t) \in [Request -> RequestState]
    BY DEF Detached, TypeInv, TypeOK, RequestState
  <2> QED BY <2>1 DEF Detached
<1>4. /\ visitors' = [e \in Client |->
            IF e = c THEN [limiter |-> new, lastSeen |-> t]
            ELSE IF e \in Evicted(t) THEN None ELSE visitors[e]]
      /\ \/ /\ new.lastEvent <= t
            /\ request' = [f EXCEPT ![r] = Idle]
            /\ told' = [told EXCEPT ![c] = None]
         \/ /\ new.lastEvent > t
            /\ request' = [f EXCEPT ![r] =
                             [pc |-> "refused", client |-> c, now |-> t,
                              due |-> new.lastEvent, mapped |-> TRUE]]
            /\ UNCHANGED told
  BY <1>1, <1>2, <1>3 DEF Reserve, Seen
<1>5. /\ told \in [Client -> Nat \cup {None}]
      /\ request' \in [Request -> RequestState]
      /\ AloneInv(d)
      /\ d # None
  BY BoundAssumption DEF TypeInv, TypeOK, AloneInvs
<1>6. \A q \in Request : request'[q].client = d => f[q].client = d
  BY <1>1, <1>3, <1>4, <1>5 DEF Idle
<1>7. CASE d # c
  <2>1. told'[d] = told[d] /\ \A q \in Request : f[q].client = d => request'[q] = f[q]
    BY <1>1, <1>3, <1>4, <1>5, <1>7
  <2>2. visitors'[d] = IF d \in Evicted(t) THEN None ELSE visitors[d]
    BY <1>4, <1>7
  <2>3. \A q \in Request : request'[q].client = d =>
           /\ request[q].client = d
           /\ request'[q].pc = request[q].pc /\ request'[q].now = request[q].now
           /\ request'[q].due = request[q].due
           /\ d \notin Evicted(t) => request'[q].mapped = request[q].mapped
    BY <1>3, <1>6, <2>1
  <2>4. \A q \in Request : request[q].client = d => request'[q].client = d /\ request'[q].pc = request[q].pc
    BY <1>3, <2>1
  <2> QED BY <1>5, <2>1, <2>2, <2>3, <2>4 DEF AloneInv
<1>8. CASE d = c
  <2>1. \A q \in Request \ {r} : request'[q].client # c
    BY <1>1, <1>3, <1>5, <1>6, <1>8 DEF AloneInv
  <2>2. visitors'[c].limiter = new
    BY <1>4
  <2>3. CASE /\ new.lastEvent <= t
             /\ request' = [f EXCEPT ![r] = Idle]
             /\ told' = [told EXCEPT ![c] = None]
    <3>1. request'[r].client # c /\ told'[c] = None
      BY <1>5, <1>8, <2>3 DEF Idle
    <3> QED BY <1>8, <2>1, <3>1 DEF AloneInv
  <2>4. CASE /\ new.lastEvent > t
             /\ request' = [f EXCEPT ![r] =
                              [pc |-> "refused", client |-> c, now |-> t,
                               due |-> new.lastEvent, mapped |-> TRUE]]
             /\ UNCHANGED told
    <3>1. /\ request'[r].pc = "refused" /\ request'[r].client = c /\ request'[r].now = t
          /\ request'[r].due = new.lastEvent /\ request'[r].mapped
      BY <2>4
    <3>2. new.last = t /\ new.lastEvent = new.last - new.tokens
      BY <1>2, <2>4, ReservedFacts
    <3>3. visitors[c] # None /\ c \notin Evicted(t)
      <4>1. Reserved(NewLimiter, t).lastEvent <= t
        BY NewLimiterAt
      <4> QED BY <1>2, <2>4, <4>1 DEF LimiterOf, Limiter
    <3>4. l = visitors[c].limiter /\ t >= l.last
      BY <1>1, <1>2, <1>5, <1>8, <3>3 DEF AloneInv, LimiterOf
    <3>5. \A q \in Request : request[q].client = c => request[q].pc # "refused"
      BY <1>1, <1>5, <1>8 DEF AloneInv
    <3>6. told[c] = None \/ told[c] >= (l.last - l.tokens) + Cost
      BY <1>5, <1>8, <3>3, <3>4, <3>5 DEF AloneInv
    <3>7. t < (l.last - l.tokens) + Cost
      <4>1. \/ t - new.tokens = (l.last - l.tokens) + Cost
            \/ t - new.tokens = (t - Full) + Cost
        BY <1>2, <3>4, ReservedFacts
      <4>2. t - new.tokens > t /\ (t - Full) + Cost <= t
        BY <2>4, <3>2, FullFacts
      <4> QED BY <4>1, <4>2, FullFacts DEF Limiter
    <3>8. told[c] # None => t < told[c]
      <4>1. (l.last - l.tokens) + Cost \in Int
        BY FullFacts DEF Limiter
      <4> QED BY <1>5, <3>6, <3>7, <4>1
    <3> QED BY <1>8, <2>1, <2>2, <2>4, <3>1, <3>2, <3>8 DEF AloneInv
  <2> QED BY <1>4, <2>3, <2>4
<1> QED BY <1>7, <1>8
LEMMA CancelAloneInv ==
    ASSUME TypeInv, TypeInv', AloneInvs,
           NEW r \in Request, CancelAt(r), NEW d \in Client \ Overlap
    PROVE  AloneInv(d)'
<1>1. PICK c \in Client, t \in Nat, due \in Int :
        /\ c = request[r].client /\ t = request[r].now /\ due = request[r].due
        /\ due > t /\ request[r].pc = "refused"
  BY DEF CancelAt, TypeInv, TypeOK, FlightInv, RequestState
<1>2. /\ request' = [request EXCEPT ![r] = Idle]
      /\ request' \in [Request -> RequestState]
      /\ request \in [Request -> RequestState]
      /\ told \in [Client -> Nat \cup {None}]
      /\ told' = IF c \in Overlap THEN told
                 ELSE [told EXCEPT ![c] = t + RetryAfter(due - t)]
      /\ AloneInv(d)
      /\ d # None
  BY <1>1, BoundAssumption DEF CancelAt, TypeInv, TypeOK, AloneInvs
<1>3. /\ request'[r].client = None
      /\ \A q \in Request \ {r} : request'[q] = request[q]
  BY <1>2 DEF Idle
<1>4. CASE d # c
  <2>1. visitors'[d] = visitors[d]
    BY <1>1, <1>4 DEF CancelAt, TypeInv, TypeOK
  <2>2. told'[d] = told[d]
    BY <1>2, <1>4
  <2>3. \A q \in Request : request[q].client = d \/ request'[q].client = d => request'[q] = request[q]
    BY <1>1, <1>2, <1>3, <1>4
  <2> QED BY <1>2, <2>1, <2>2, <2>3 DEF AloneInv
<1>5. CASE d = c
  <2>1. \A q \in Request : request'[q].client # c
    BY <1>1, <1>2, <1>3, <1>5 DEF AloneInv
  <2>2. CASE ~request[r].mapped
    <3>1. visitors'[c] = None
      BY <1>1, <1>2, <1>5, <2>2 DEF CancelAt, AloneInv
    <3> QED BY <1>5, <2>1, <3>1 DEF AloneInv
  <2>3. CASE request[r].mapped
    <3>1. visitors[c] # None
      BY <1>1, <2>3 DEF TypeInv, FlightInv
    <3>2. PICK l \in Limiter : l = visitors[c].limiter /\ l.tokens <= Full
      BY <3>1 DEF TypeInv, TypeOK, Visitor
    <3>3. t = l.last /\ due = l.last - l.tokens /\ due = l.lastEvent
      BY <1>1, <1>2, <1>5, <3>1, <3>2 DEF AloneInv
    <3>4. PICK new \in Limiter :
            /\ new = Cancelled(l, due, t)
            /\ \/ new.last - new.tokens = (l.last - l.tokens) - Cost + (l.lastEvent - due)
               \/ new.last - new.tokens = l.last - Full
      <4>1. Cancelled(l, due, t) \in Limiter
        BY <3>2, CancelledType
      <4>2. l.lastEvent < due + Cost /\ l.lastEvent >= due /\ due > l.last
        BY <1>1, <3>3, FullFacts
      <4> QED BY <3>2, <3>3, <4>1, <4>2, CancelledFacts
    <3>5. visitors'[c].limiter = new
      BY <1>1, <2>3, <3>2, <3>4 DEF CancelAt, TypeInv, TypeOK
    <3>6. (new.last - new.tokens) + Cost <= due
      <4>1. l.last \in Nat /\ l.last - Full + Cost <= l.last
        BY FullFacts DEF Limiter
      <4> QED BY <1>1, <3>3, <3>4, <4>1, FullFacts
    <3>7. told'[c] \in Nat /\ told'[c] >= due
      <4>1. RetryAfter(due - t) \in Nat /\ RetryAfter(due - t) >= due - t
        BY <1>1, RetryAfterCovers
      <4>2. told'[c] = t + RetryAfter(due - t)
        BY <1>2, <1>5
      <4> QED BY <1>1, <4>1, <4>2
    <3>8. told'[c] >= (new.last - new.tokens) + Cost
      <4>1. (new.last - new.tokens) + Cost \in Int
        BY FullFacts DEF Limiter
      <4> QED BY <1>1, <3>6, <3>7, <4>1
    <3> QED BY <1>5, <2>1, <3>5, <3>8 DEF AloneInv
  <2> QED BY <2>2, <2>3
<1> QED BY <1>4, <1>5

LEMMA NextAloneInvs == ASSUME TypeInv, TypeInv', AloneInvs, [Next]_vars PROVE AloneInvs'
<1> SUFFICES ASSUME NEW d \in Client \ Overlap PROVE AloneInv(d)'
  BY DEF AloneInvs
<1>1. CASE Tick
  BY <1>1 DEF Tick, AloneInvs, AloneInv
<1>2. ASSUME NEW r \in Request, NEW c \in Client, Arrive(r, c) PROVE AloneInv(d)'
  <2>1. /\ AloneInv(d)
        /\ UNCHANGED <<visitors, told>>
        /\ request[r].pc = "idle"
        /\ c \in Overlap \/ \A q \in Request : request[q].client # c
        /\ request'[r].client = c /\ request'[r].pc = "arrived" /\ request'[r].now = clock
        /\ \A q \in Request \ {r} : request'[q] = request[q]
    BY <1>2 DEF Arrive, Flights, AloneInvs, TypeInv, TypeOK
  <2>2. CASE d = c
    <3>1. \A q \in Request : request'[q].client = d => q = r
      BY <2>1, <2>2
    <3>2. visitors[d] # None => /\ visitors[d].limiter.last <= clock
                                /\ visitors[d].limiter \in Limiter /\ clock \in Nat
      BY DEF TypeInv, TypeOK, VisitorInv, Visitor
    <3> QED BY <2>1, <2>2, <3>1, <3>2 DEF AloneInv
  <2>3. CASE d # c
    <3>1. \A q \in Request : request'[q].client = d => q # r
      BY <2>1, <2>3
    <3>2. \A q \in Request : request[q].pc = "refused" => q # r
      BY <2>1
    <3> QED BY <2>1, <3>1, <3>2 DEF AloneInv
  <2> QED BY <2>2, <2>3
<1>3. ASSUME NEW r \in Request, Reserve(r) PROVE AloneInv(d)'
  BY <1>3, ReserveAloneInv
<1>4. ASSUME NEW r \in Request, CancelAt(r) PROVE AloneInv(d)'
  BY <1>4, CancelAloneInv
<1>5. CASE UNCHANGED vars
  BY <1>5 DEF vars, AloneInvs, AloneInv
<1> QED BY <1>1, <1>2, <1>3, <1>4, <1>5 DEF Next

\* A client that waits for its answers, and then for as long as Retry-After
\* says, is let through, whatever the others do and whenever it is evicted.
THEOREM RetryAfterIsKept == Spec => []RetryAfterHonoured
<1>1. Spec => []TypeInv
  BY InitTypeInv, NextTypeInv, PTL DEF Spec
<1>2. TypeInv /\ TypeInv' /\ AloneInvs /\ [Next]_vars => AloneInvs'
  BY NextAloneInvs
<1>3. TypeInv /\ AloneInvs => RetryAfterHonoured
  BY DEF TypeInv, FlightInv, AloneInvs, AloneInv, RetryAfterHonoured
<1> QED BY <1>1, <1>2, <1>3, InitAloneInvs, PTL DEF Spec

-----------------------------------------------------------------------------
(* The limiter implements a plain token bucket.  For a client that waits for
   its answers the line of its limiter is the time paid for, but for the token
   of a request that is being refused. *)

Refusing(c) == \E r \in Request : request[r].client = c /\ request[r].pc = "refused"

IdealInv(c) ==
    /\ c \notin backwards
    /\ visitors[c] # None =>
         LET line == visitors[c].limiter.last - visitors[c].limiter.tokens IN
         line = IF Refusing(c) THEN paid[c] + Cost ELSE paid[c]

IdealInvs == \A c \in Client \ Overlap : IdealInv(c)

\* Whether it finds its limiter or gets a new one, a request of such a client meets
\* what a plain bucket would hold, and the limiter is not given an earlier time.
LEMMA LevelIsIdeal ==
    ASSUME VisitorTTL >= Full + MaxLag, TypeInv, BucketInv, AloneInvs, IdealInvs,
           NEW r \in Request, request[r].pc = "arrived",
           NEW c \in Client \ Overlap, request[r].client = c
    PROVE  LET t == request[r].now IN
           /\ LimiterOf(c, t).last <= t
           /\ Level(LimiterOf(c, t), t) = AtMost(Full, t - paid[c])
<1>1. PICK t \in Nat : t = request[r].now
  BY DEF TypeInv, TypeOK, RequestState
<1>2. /\ paid[c] \in Int
      /\ AloneInv(c) /\ IdealInv(c) /\ EmptyInv(c) /\ SeenInv(c)
      /\ VisitorTTL \in Nat /\ MaxLag \in Nat
  BY ConfigAssumption, BoundAssumption
  DEF TypeInv, TypeOK, AloneInvs, IdealInvs, BucketInv, IdealInv
<1>3. CASE visitors[c] # None /\ c \notin Evicted(t)
  <2>1. PICK l \in Limiter : l = visitors[c].limiter /\ l = LimiterOf(c, t)
    BY <1>3 DEF TypeInv, TypeOK, Visitor, LimiterOf
  <2>2. l.last <= t
    BY <1>1, <1>2, <1>3, <2>1 DEF AloneInv
  <2>3. ~Refusing(c)
    BY <1>2 DEF AloneInv, Refusing
  <2>4. l.last - l.tokens = paid[c]
    BY <1>2, <1>3, <2>1, <2>3 DEF IdealInv
  <2>5. Level(l, t) = AtMost(Full, l.tokens + (t - l.last))
    BY <2>2, FullFacts DEF Level, Limiter, AtMost
  <2>6. l.tokens + (t - l.last) = t - paid[c]
    BY <2>4 DEF Limiter
  <2> QED BY <1>1, <2>1, <2>2, <2>5, <2>6
<1>4. CASE visitors[c] = None \/ c \in Evicted(t)
  <2>1. paid[c] + Full <= t
    <3>1. CASE visitors[c] = None
      BY <1>1, <1>2, <3>1 DEF EmptyInv
    <3>2. CASE visitors[c] # None
      <4>1. visitors[c].lastSeen \in Nat /\ t - visitors[c].lastSeen > VisitorTTL
        BY <1>4, <3>2 DEF Evicted, TypeInv, TypeOK, Visitor
      <4>2. paid[c] <= visitors[c].lastSeen
        BY <1>2, <3>2 DEF SeenInv, Steady
      <4> QED BY <1>2, <4>1, <4>2, FullFacts
    <3> QED BY <3>1, <3>2
  <2>2. LimiterOf(c, t) = NewLimiter
    BY <1>4 DEF LimiterOf
  <2>3. Level(NewLimiter, t) = Full /\ NewLimiter.last <= t
    BY FullFacts DEF Level, NewLimiter, AtMost
  <2>4. AtMost(Full, t - paid[c]) = Full
    BY <1>2, <2>1, FullFacts DEF AtMost
  <2> QED BY <1>1, <2>2, <2>3, <2>4
<1> QED BY <1>3, <1>4

\* What Reserve makes of the client whose request it is.
LEMMA ReserveIsIdeal ==
    ASSUME VisitorTTL >= Full + MaxLag, TypeInv, BucketInv, AloneInvs, IdealInvs,
           NEW r \in Request, Reserve(r),
           NEW c \in Client \ Overlap, request[r].client = c
    PROVE  LET t == request[r].now
               left == AtMost(Full, t - paid[c]) - Cost
           IN  /\ visitors'[c].limiter.last = t
               /\ visitors'[c].limiter.tokens = left
               /\ backwards' = backwards
               /\ \/ /\ left >= 0
                     /\ request'[r] = Idle
                     /\ paid' = [paid EXCEPT ![c] = t - left]
                  \/ /\ left < 0
                     /\ request'[r].client = c /\ request'[r].pc = "refused"
                     /\ UNCHANGED paid
<1>1. PICK t \in Nat : t = request[r].now
  BY DEF TypeInv, TypeOK, RequestState
<1>2. PICK l \in Limiter : l = LimiterOf(c, t) /\ l.tokens <= Full
  BY LimiterOfType DEF TypeInv
<1>3. /\ l.last <= t
      /\ Level(l, t) = AtMost(Full, t - paid[c])
      /\ paid \in [Client -> Int]
      /\ request[r].pc = "arrived"
  BY <1>1, <1>2, LevelIsIdeal DEF Reserve, TypeInv, TypeOK
<1> DEFINE left == AtMost(Full, t - paid[c]) - Cost
<1>4. left \in Int
  BY <1>3, FullFacts DEF AtMost
<1>5. PICK new \in Limiter :
        /\ new = Reserved(l, t)
        /\ new.last = t /\ new.tokens = left
        /\ new.lastEvent <= t <=> left >= 0
  <2>1. Reserved(l, t) = [tokens |-> left, last |-> t, lastEvent |-> IF left < 0 THEN t - left ELSE t]
    BY <1>3 DEF Reserved
  <2> HIDE DEF left
  <2>2. Reserved(l, t) \in Limiter
    BY <1>4, <2>1 DEF Limiter
  <2> QED BY <1>4, <2>1, <2>2
<1>6. Detached(t) \in [Request -> RequestState]
  BY DEF Detached, TypeInv, TypeOK, RequestState
<1>7. /\ visitors'[c].limiter = new
      /\ backwards' = backwards
      /\ \/ /\ new.lastEvent <= t
            /\ request' = [Detached(t) EXCEPT ![r] = Idle]
            /\ paid' = [paid EXCEPT ![c] = AtLeast(t - Full, @) + Cost]
         \/ /\ new.lastEvent > t
            /\ request' = [Detached(t) EXCEPT ![r] =
                             [pc |-> "refused", client |-> c, now |-> t,
                              due |-> new.lastEvent, mapped |-> TRUE]]
            /\ UNCHANGED paid
  BY <1>1, <1>2, <1>3, <1>5 DEF Reserve, Limiter
<1>8. AtLeast(t - Full, paid[c]) + Cost = t - left
  BY <1>3, FullFacts DEF AtLeast, AtMost
<1>9. CASE new.lastEvent <= t
  <2>1. request'[r] = Idle /\ paid' = [paid EXCEPT ![c] = t - left]
    BY <1>3, <1>5, <1>6, <1>7, <1>8, <1>9 DEF Limiter
  <2> QED BY <1>1, <1>5, <1>7, <1>9, <2>1
<1>10. CASE ~(new.lastEvent <= t)
  <2>1. request'[r].client = c /\ request'[r].pc = "refused" /\ UNCHANGED paid
    BY <1>6, <1>7, <1>10
  <2> QED BY <1>1, <1>4, <1>5, <1>7, <1>10, <2>1
<1> QED BY <1>9, <1>10

\* What Reserve leaves of the other requests and of the other clients.
LEMMA ReserveOthers ==
    ASSUME TypeInv, NEW r \in Request, Reserve(r)
    PROVE  /\ \A q \in Request \ {r} : /\ request'[q].pc = request[q].pc
                                       /\ request'[q].client = request[q].client
                                       /\ request'[q].now = request[q].now
           /\ request'[r].client = request[r].client \/ request'[r].client = None
           /\ request'[r].pc \in {"idle", "refused"}
           /\ \A d \in Client \ {request[r].client} :
                 /\ visitors'[d] = visitors[d] \/ visitors'[d] = None
                 /\ paid'[d] = paid[d]
                 /\ d \in backwards' => d \in backwards
<1>1. PICK c \in Client, t \in Nat : c = request[r].client /\ t = request[r].now
  BY DEF Reserve, TypeInv, TypeOK, FlightInv, RequestState
<1>2. PICK f \in [Request -> RequestState] :
        /\ f = Detached(t)
        /\ \A q \in Request : /\ f[q].pc = request[q].pc
                              /\ f[q].client = request[q].client
                              /\ f[q].now = request[q].now
  <2>1. Detached(t) \in [Request -> RequestState]
    BY DEF Detached, TypeInv, TypeOK, RequestState
  <2> QED BY <2>1 DEF Detached
<1>3. \/ request' = [f EXCEPT ![r] = Idle]
      \/ \E due : request' = [f EXCEPT ![r] =
                      [pc |-> "refused", client |-> c, now |-> t,
                       due |-> due, mapped |-> TRUE]]
  BY <1>1, <1>2 DEF Reserve
<1>4. /\ visitors' = [d \in Client |->
           IF d = c THEN [limiter |-> Reserved(LimiterOf(c, t), t), lastSeen |-> Seen(c, t)]
           ELSE IF d \in Evicted(t) THEN None ELSE visitors[d]]
      /\ \/ UNCHANGED paid
         \/ paid' = [paid EXCEPT ![c] = AtLeast(t - Full, @) + Cost]
      /\ backwards' = backwards \/ backwards' = backwards \cup {c}
  BY <1>1 DEF Reserve
<1>5. paid \in [Client -> Int]
  BY DEF TypeInv, TypeOK
<1>6. ASSUME NEW d \in Client \ {c}
      PROVE  /\ visitors'[d] = visitors[d] \/ visitors'[d] = None
             /\ paid'[d] = paid[d]
             /\ d \in backwards' => d \in backwards
  BY <1>4, <1>5
<1>7. /\ \A q \in Request \ {r} : request'[q] = f[q]
      /\ request'[r].client = c \/ request'[r].client = None
      /\ request'[r].pc \in {"idle", "refused"}
  BY <1>2, <1>3 DEF Idle
<1> QED BY <1>1, <1>2, <1>6, <1>7

LEMMA ReserveIdealInv ==
    ASSUME VisitorTTL >= Full + MaxLag, TypeInv, BucketInv, AloneInvs, IdealInvs,
           NEW r \in Request, Reserve(r), NEW d \in Client \ Overlap
    PROVE  IdealInv(d)'
<1>1. /\ IdealInv(d) /\ AloneInv(d) /\ paid[d] \in Int /\ paid \in [Client -> Int]
      /\ request[r].client \in Client /\ request[r].now \in Nat /\ d # None
      /\ request[r].pc = "arrived"
  BY BoundAssumption
  DEF IdealInvs, AloneInvs, Reserve, TypeInv, TypeOK, FlightInv, RequestState
<1>2. CASE request[r].client # d
  <2>1. Refusing(d)' <=> Refusing(d)
    BY <1>1, <1>2, ReserveOthers DEF Refusing
  <2>2. /\ visitors'[d] = visitors[d] \/ visitors'[d] = None
        /\ paid'[d] = paid[d]
        /\ d \in backwards' => d \in backwards
    BY <1>2, ReserveOthers
  <2> QED BY <1>1, <2>1, <2>2 DEF IdealInv
<1>3. CASE request[r].client = d
  <2>1. PICK t \in Nat : t = request[r].now
    BY <1>1
  <2>2. PICK left \in Int : left = AtMost(Full, t - paid[d]) - Cost
    BY <1>1, FullFacts DEF AtMost
  <2>3. /\ visitors'[d].limiter.last = t
        /\ visitors'[d].limiter.tokens = left
        /\ backwards' = backwards
        /\ \/ /\ left >= 0
              /\ request'[r] = Idle
              /\ paid' = [paid EXCEPT ![d] = t - left]
           \/ /\ left < 0
              /\ request'[r].client = d /\ request'[r].pc = "refused"
              /\ UNCHANGED paid
    BY <1>3, <2>1, <2>2, ReserveIsIdeal
  <2>4. \A q \in Request \ {r} : request'[q].client # d
    BY <1>1, <1>3, ReserveOthers DEF AloneInv
  <2>5. CASE left >= 0
    <3>1. ~Refusing(d)'
      BY <1>1, <2>3, <2>4, <2>5 DEF Refusing, Idle
    <3>2. paid'[d] = t - left
      BY <1>1, <2>3, <2>5
    <3> QED BY <1>1, <2>3, <3>1, <3>2 DEF IdealInv
  <2>6. CASE left < 0
    <3>1. Refusing(d)' /\ paid'[d] = paid[d]
      BY <2>3, <2>6 DEF Refusing
    <3>2. t - left = paid[d] + Cost
      BY <1>1, <2>2, <2>6, FullFacts DEF AtMost
    <3> QED BY <1>1, <2>3, <3>1, <3>2 DEF IdealInv
  <2> QED BY <2>5, <2>6
<1> QED BY <1>2, <1>3

LEMMA CancelIdealInv ==
    ASSUME TypeInv, AloneInvs, IdealInvs,
           NEW r \in Request, CancelAt(r), NEW d \in Client \ Overlap
    PROVE  IdealInv(d)'
<1>1. /\ IdealInv(d) /\ AloneInv(d) /\ paid[d] \in Int /\ d # None
      /\ visitors \in [Client -> Visitor \cup {None}]
      /\ request \in [Request -> RequestState]
      /\ request' = [request EXCEPT ![r] = Idle] /\ paid' = paid
      /\ request[r].pc = "refused" /\ request[r].client \in Client
  BY BoundAssumption DEF IdealInvs, AloneInvs, CancelAt, TypeInv, TypeOK, FlightInv
<1>2. CASE request[r].client # d
  <2>1. visitors'[d] = visitors[d] /\ (d \in backwards' => d \in backwards)
    BY <1>1, <1>2 DEF CancelAt
  <2>2. Refusing(d)' <=> Refusing(d)
    BY <1>1, <1>2 DEF Refusing, Idle
  <2> QED BY <1>1, <2>1, <2>2 DEF IdealInv
<1>3. CASE request[r].client = d
  <2>1. ~Refusing(d)' /\ Refusing(d)
    <3>1. \A q \in Request : request[q].client = d => q = r
      BY <1>1, <1>3 DEF AloneInv
    <3>2. \A q \in Request : request'[q].client # d
      BY <1>1, <3>1 DEF Idle
    <3> QED BY <1>1, <1>3, <3>2 DEF Refusing
  <2>2. CASE ~request[r].mapped
    <3>1. visitors'[d] = None /\ backwards' = backwards
      BY <1>1, <1>3, <2>2 DEF CancelAt, AloneInv
    <3> QED BY <1>1, <3>1 DEF IdealInv
  <2>3. CASE request[r].mapped
    <3>1. visitors[d] # None
      BY <1>3, <2>3 DEF TypeInv, FlightInv
    <3>2. PICK l \in Limiter : l = visitors[d].limiter
      BY <1>1, <3>1 DEF Visitor
    <3>3. /\ request[r].now = l.last
          /\ request[r].due = l.last - l.tokens
          /\ request[r].due = l.lastEvent
          /\ request[r].due > l.last
      BY <1>1, <1>3, <3>1, <3>2 DEF AloneInv, TypeInv, FlightInv
    <3>4. l.last - l.tokens = paid[d] + Cost
      BY <1>1, <2>1, <3>1, <3>2 DEF IdealInv
    <3>5. PICK new : new = Cancelled(l, l.lastEvent, l.last)
      OBVIOUS
    <3>6. new.last = l.last /\ new.tokens = l.tokens + Cost
      BY <3>3, <3>5, FullFacts DEF Cancelled, Level, AtMost, Limiter
    <3>7. visitors'[d].limiter = new /\ backwards' = backwards
      <4>1. /\ visitors'[d] = [limiter |-> new, lastSeen |-> visitors[d].lastSeen]
            /\ backwards' = IF new.last < l.last THEN backwards \cup {d} ELSE backwards
        BY <1>1, <1>3, <2>3, <3>2, <3>3, <3>5 DEF CancelAt
      <4> QED BY <3>6, <4>1 DEF Limiter
    <3>8. l.last - (l.tokens + Cost) = paid[d]
      BY <1>1, <3>4, FullFacts DEF Limiter
    <3> QED BY <1>1, <2>1, <3>6, <3>7, <3>8 DEF IdealInv
  <2> QED BY <2>2, <2>3
<1> QED BY <1>2, <1>3

LEMMA InitIdealInvs == Init => IdealInvs
BY DEF Init, IdealInvs, IdealInv

LEMMA NextIdealInvs ==
    ASSUME VisitorTTL >= Full + MaxLag, TypeInv, BucketInv, AloneInvs, IdealInvs, [Next]_vars
    PROVE  IdealInvs'
<1> SUFFICES ASSUME NEW d \in Client \ Overlap PROVE IdealInv(d)'
  BY DEF IdealInvs
<1>1. CASE Tick
  BY <1>1 DEF Tick, IdealInvs, IdealInv, Refusing
<1>2. ASSUME NEW r \in Request, NEW c \in Client, Arrive(r, c) PROVE IdealInv(d)'
  <2>1. /\ IdealInv(d) /\ UNCHANGED <<visitors, paid, backwards>>
        /\ request[r].pc = "idle" /\ request'[r].pc = "arrived"
        /\ \A q \in Request \ {r} : request'[q] = request[q]
    BY <1>2 DEF Arrive, IdealInvs, TypeInv, TypeOK
  <2>2. Refusing(d)' <=> Refusing(d)
    BY <2>1 DEF Refusing
  <2> QED BY <2>1, <2>2 DEF IdealInv
<1>3. ASSUME NEW r \in Request, Reserve(r) PROVE IdealInv(d)'
  BY <1>3, ReserveIdealInv
<1>4. ASSUME NEW r \in Request, CancelAt(r) PROVE IdealInv(d)'
  BY <1>4, CancelIdealInv
<1>5. CASE UNCHANGED vars
  BY <1>5 DEF vars, IdealInvs, IdealInv, Refusing
<1> QED BY <1>1, <1>2, <1>3, <1>4, <1>5 DEF Next

\* A request of a client waits for its decision.
Asks(r, c) == request[r].client = c /\ request[r].pc = "arrived"

LEMMA WaitingIsAsking ==
    ASSUME NEW c PROVE Waiting(c) = {request[r].now : r \in {q \in Request : Asks(q, c)}}
BY DEF Waiting, Flights, Asks

LEMMA WaitingSame ==
    ASSUME NEW c,
           \A q \in Request : /\ Asks(q, c)' <=> Asks(q, c)
                              /\ Asks(q, c) => request'[q].now = request[q].now
    PROVE  Waiting(c)' = Waiting(c)
BY WaitingIsAsking DEF Waiting, Flights, Asks

LEMMA WaitingOne ==
    ASSUME TypeInv, AloneInvs, NEW c \in Client \ Overlap, NEW r \in Request, Asks(r, c)
    PROVE  Waiting(c) = {request[r].now}
<1>1. \A q \in Request : Asks(q, c) => q = r
  BY DEF AloneInvs, AloneInv, Asks
<1> QED BY <1>1, WaitingIsAsking

LEMMA ArriveBucket ==
    ASSUME TypeInv, NEW r \in Request, NEW c \in Client, Arrive(r, c)
    PROVE  [Bucket!Next]_Bucket!vars
<1>1. /\ UNCHANGED <<clock, paid>>
      /\ request[r].pc = "idle"
      /\ c \in Overlap \/ \A q \in Request : request[q].client # c
      /\ request'[r].client = c /\ request'[r].pc = "arrived" /\ request'[r].now = clock
      /\ \A q \in Request \ {r} : request'[q] = request[q]
  BY DEF Arrive, Flights, TypeInv, TypeOK
<1>2. ASSUME NEW d \in Client, d # c PROVE Waiting(d)' = Waiting(d)
  <2>1. \A q \in Request : /\ Asks(q, d)' <=> Asks(q, d)
                           /\ Asks(q, d) => request'[q].now = request[q].now
    BY <1>1, <1>2 DEF Asks
  <2> QED BY <2>1, WaitingSame
<1>3. CASE c \in Overlap
  BY <1>1, <1>2, <1>3 DEF Bucket!vars
<1>4. CASE c \notin Overlap
  <2>1. Waiting(c) = {}
    BY <1>1, <1>4 DEF Waiting, Flights
  <2>2. Waiting(c)' = {clock}
    <3>1. \A q \in Request : Asks(q, c)' <=> q = r
      BY <1>1, <1>4 DEF Asks
    <3>2. Waiting(c)' = {request'[q].now : q \in {p \in Request : Asks(p, c)'}}
      BY DEF Waiting, Flights, Asks
    <3> QED BY <1>1, <3>1, <3>2
  <2>3. Bucket!Ask(c)
    BY <1>1, <1>2, <1>4, <2>1, <2>2 DEF Bucket!Ask
  <2> QED BY <1>4, <2>3 DEF Bucket!Next
<1> QED BY <1>3, <1>4

LEMMA ReserveBucket ==
    ASSUME VisitorTTL >= Full + MaxLag, TypeInv, BucketInv, AloneInvs, IdealInvs,
           NEW r \in Request, Reserve(r)
    PROVE  [Bucket!Next]_Bucket!vars
<1>1. /\ request[r].client \in Client /\ request[r].pc = "arrived"
      /\ paid \in [Client -> Int] /\ UNCHANGED clock
  BY DEF Reserve, TypeInv, TypeOK, FlightInv
<1>2. PICK c \in Client, t \in Nat : c = request[r].client /\ t = request[r].now
  BY <1>1 DEF TypeInv, TypeOK, RequestState
<1>3. ASSUME NEW d \in Client, d # c PROVE Waiting(d)' = Waiting(d) /\ paid'[d] = paid[d]
  <2>1. \A q \in Request : /\ Asks(q, d)' <=> Asks(q, d)
                           /\ Asks(q, d) => request'[q].now = request[q].now
    BY <1>1, <1>2, <1>3, BoundAssumption, ReserveOthers DEF Asks
  <2> QED BY <1>2, <1>3, <2>1, WaitingSame, ReserveOthers
<1>4. CASE c \in Overlap
  BY <1>1, <1>3, <1>4 DEF Bucket!vars
<1>5. CASE c \notin Overlap
  <2>1. Waiting(c) = {t}
    BY <1>1, <1>2, <1>5, WaitingOne DEF Asks
  <2>2. Waiting(c)' = {}
    <3>1. \A q \in Request : ~Asks(q, c)'
      BY <1>1, <1>2, <1>5, ReserveOthers DEF Asks, AloneInvs, AloneInv
    <3>2. Waiting(c)' = {request'[q].now : q \in {p \in Request : Asks(p, c)'}}
      BY DEF Waiting, Flights, Asks
    <3> QED BY <3>1, <3>2
  <2>3. PICK left \in Int : left = AtMost(Full, t - paid[c]) - Cost
    BY <1>1, FullFacts DEF AtMost
  <2>4. Bucket!InBucket(c, t) = left + Cost
    BY <1>1, <1>5, <2>3, FullFacts DEF Bucket!InBucket, AtMost
  <2>5. \/ left >= 0 /\ paid' = [paid EXCEPT ![c] = t - left]
        \/ left < 0 /\ UNCHANGED paid
    BY <1>2, <1>5, <2>3, ReserveIsIdeal
  <2>6. CASE left >= 0 /\ paid' = [paid EXCEPT ![c] = t - left]
    <3>1. Bucket!InBucket(c, t) >= Cost /\ t - (Bucket!InBucket(c, t) - Cost) = paid'[c]
      BY <1>1, <2>3, <2>4, <2>6, FullFacts
    <3>2. Bucket!Admit(c, t)
      BY <1>1, <1>3, <1>5, <2>1, <2>2, <3>1 DEF Bucket!Admit
    <3> QED BY <1>5, <2>1, <3>2 DEF Bucket!Next
  <2>7. CASE left < 0 /\ UNCHANGED paid
    <3>1. Bucket!InBucket(c, t) < Cost
      BY <2>3, <2>4, <2>7, FullFacts
    <3>2. Bucket!Refuse(c, t)
      BY <1>1, <1>3, <1>5, <2>1, <2>2, <2>7, <3>1 DEF Bucket!Refuse
    <3> QED BY <1>5, <2>1, <3>2 DEF Bucket!Next
  <2> QED BY <2>5, <2>6, <2>7
<1> QED BY <1>4, <1>5

LEMMA NextBucket ==
    ASSUME VisitorTTL >= Full + MaxLag, TypeInv, BucketInv, AloneInvs, IdealInvs, [Next]_vars
    PROVE  [Bucket!Next]_Bucket!vars
<1>1. CASE Tick
  BY <1>1 DEF Tick, Bucket!Next, Bucket!Tick, Waiting, Flights
<1>2. ASSUME NEW r \in Request, CancelAt(r) PROVE UNCHANGED Bucket!vars
  <2>1. /\ UNCHANGED <<clock, paid>> /\ request[r].pc = "refused"
        /\ request'[r].pc = "idle" /\ \A q \in Request \ {r} : request'[q] = request[q]
    BY <1>2 DEF CancelAt, Idle, TypeInv, TypeOK
  <2>2. ASSUME NEW d \in Client PROVE Waiting(d)' = Waiting(d)
    <3>1. \A q \in Request : /\ Asks(q, d)' <=> Asks(q, d)
                             /\ Asks(q, d) => request'[q].now = request[q].now
      BY <2>1 DEF Asks
    <3> QED BY <3>1, WaitingSame
  <2> QED BY <2>1, <2>2 DEF Bucket!vars
<1>3. CASE UNCHANGED vars
  BY <1>3 DEF vars, Bucket!vars, Waiting, Flights
<1> QED BY <1>1, <1>2, <1>3, ArriveBucket, ReserveBucket DEF Next

LEMMA InitBucket == Init => Bucket!Init
<1> SUFFICES ASSUME Init PROVE Bucket!Init
  OBVIOUS
<1>1. \A c \in Client : Waiting(c) = {}
  BY DEF Init, Waiting, Flights, Idle
<1> QED BY <1>1 DEF Init, Bucket!Init

\* A client that waits for its answers meets a plain token bucket, for any number
\* of clients, whatever they send and whenever visitors are evicted, if a visitor
\* is kept for as long as its bucket takes to refill and a request to pass.
THEOREM LimiterImplementsBucket ==
    VisitorTTL >= Full + MaxLag => (Spec => ImplementsBucket)
<1> SUFFICES ASSUME VisitorTTL >= Full + MaxLag PROVE Spec => ImplementsBucket
  OBVIOUS
<1>1. Spec => []TypeInv
  BY InitTypeInv, NextTypeInv, PTL DEF Spec
<1>2. TypeInv /\ TypeInv' /\ BucketInv /\ [Next]_vars => BucketInv'
  BY NextBucketInv
<1>3. TypeInv /\ TypeInv' /\ AloneInvs /\ [Next]_vars => AloneInvs'
  BY NextAloneInvs
<1>4. TypeInv /\ BucketInv /\ AloneInvs /\ IdealInvs /\ [Next]_vars => IdealInvs'
  BY NextIdealInvs
<1>5. TypeInv /\ BucketInv /\ AloneInvs /\ IdealInvs /\ [Next]_vars => [Bucket!Next]_Bucket!vars
  BY NextBucket
<1> QED
  BY <1>1, <1>2, <1>3, <1>4, <1>5, InitBucketInv, InitAloneInvs, InitIdealInvs, InitBucket, PTL
  DEF Spec, ImplementsBucket, Bucket!Spec
=============================================================================
