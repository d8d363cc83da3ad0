---------------------------- MODULE RateLimiter ----------------------------
(***************************************************************************)
(* withRateLimit of the public verifier: a token bucket per client.  A     *)
(* request reads the clock, reserves a token under the limiter's mutex     *)
(* (where idle clients are evicted too), and, if it would have to wait,    *)
(* cancels the reservation outside the mutex and is answered 429.          *)
(*                                                                         *)
(* The buckets are those of golang.org/x/time/rate.  A bucket gains one    *)
(* unit per tick, a token is Cost units: ticks and units are small enough  *)
(* for every moment at which something can change.                         *)
(***************************************************************************)
EXTENDS Integers

CONSTANTS
    Client,           \* addresses, as extractClientIP finds them
    Request,          \* requests in flight
    Overlap,          \* clients that send a request before the last is answered
    Cost,             \* ticks it takes to earn a token: 1 / RATE_LIMIT_RPS
    Burst,            \* RATE_LIMIT_BURST
    VisitorTTL,       \* RATE_LIMIT_VISITOR_TTL
    CleanupInterval,  \* RATE_LIMIT_CLEANUP_INTERVAL
    Second,           \* ticks of a second
    MaxLag,           \* ticks a request may take in the middleware (bound)
    MaxDebt,          \* a client this far below an empty bucket waits (bound)
    MaxTime,          \* the clock stops here (bound)
    None              \* no visitor, no cleanup yet, no Retry-After

\* The checks of config.Load.
ASSUME ConfigAssumption ==
    /\ Cost \in Nat \ {0}
    /\ Burst \in Nat \ {0}
    /\ VisitorTTL \in Nat \ {0}
    /\ CleanupInterval \in Nat \ {0}

ASSUME BoundAssumption ==
    /\ Second \in Nat \ {0}
    /\ MaxLag \in Nat
    /\ MaxDebt \in Nat
    /\ MaxTime \in Nat
    /\ Overlap \subseteq Client
    /\ None \notin Int
    /\ None \notin Client
    /\ None \notin [limiter : [tokens : Int, last : Nat, lastEvent : Int], lastSeen : Nat]

VARIABLES
    clock,        \* the time
    visitors,     \* client -> its limiter and lastSeen, None if it has none
    lastCleanup,  \* when idle clients were last looked for
    request,      \* the requests in the middleware
    paid,         \* history: up to when time has paid for what was let through
    told,         \* history: when the last 429 told a client outside Overlap to come back
    backwards     \* history: clients whose limiter was given an earlier time

vars == <<clock, visitors, lastCleanup, request, paid, told, backwards>>

-----------------------------------------------------------------------------
(* The limiter of golang.org/x/time/rate *)

Full == Burst * Cost

Limiter == [tokens : Int, last : Nat, lastEvent : Int]

\* Mutant: a new limiter starts with one token instead of the burst.
NewLimiter_OneToken == [tokens |-> Cost, last |-> 0, lastEvent |-> 0]

NewLimiter == [tokens |-> Full, last |-> 0, lastEvent |-> 0]

AtMost(bound, n) == IF n > bound THEN bound ELSE n

AtLeast(bound, n) == IF n < bound THEN bound ELSE n

\* Mutant: the bucket never overflows.
Level_Uncapped(l, t) == l.tokens + (IF t > l.last THEN t - l.last ELSE 0)

\* Limiter.advance: what is in the bucket at t, nothing gained before last.
Level(l, t) == AtMost(Full, l.tokens + (IF t > l.last THEN t - l.last ELSE 0))

\* Limiter.reserveN with one token; the reservation is due at lastEvent.
Reserved(l, t) ==
    LET left == Level(l, t) - Cost IN
    [tokens |-> left, last |-> t, lastEvent |-> IF left < 0 THEN t - left ELSE t]

\* Mutant: the handler forgets to cancel.
Cancelled_Not(l, due, t) == l

\* Reservation.CancelAt: the token comes back, less what was reserved since.
Cancelled(l, due, t) ==
    LET restore == Cost - (l.lastEvent - due) IN
    IF due < t \/ restore <= 0
    THEN l
    ELSE [tokens    |-> AtMost(Full, Level(l, t) + restore),
          last      |-> t,
          lastEvent |-> IF due = l.lastEvent /\ due - Cost >= t
                        THEN due - Cost ELSE l.lastEvent]

-----------------------------------------------------------------------------
(* The visitors *)

Visitor == [limiter : Limiter, lastSeen : Nat]

CleanupDue(t) == lastCleanup = None \/ t - lastCleanup >= CleanupInterval

\* The clients that cleanupVisitors deletes from the map.
Evicted(t) ==
    {c \in Client : /\ CleanupDue(t)
                    /\ visitors[c] # None
                    /\ t - visitors[c].lastSeen > VisitorTTL}

\* The limiter reserve finds or makes.
LimiterOf(c, t) ==
    IF visitors[c] = None \/ c \in Evicted(t) THEN NewLimiter ELSE visitors[c].limiter

\* Mutant: lastSeen is set only when the visitor is made.
Seen_Once(c, t) ==
    IF visitors[c] = None \/ c \in Evicted(t) THEN t ELSE visitors[c].lastSeen

Seen(c, t) == t

\* The whole seconds of Retry-After, in ticks.
RetryAfter(delay) == ((delay + Second - 1) \div Second) * Second

-----------------------------------------------------------------------------
(* A request *)

Idle == [pc |-> "idle", client |-> None, now |-> 0, due |-> 0, mapped |-> FALSE]

Flights(c) == {r \in Request : request[r].client = c}

\* withRateLimit up to the reading of the clock.
Arrive(r, c) ==
    /\ request[r].pc = "idle"
    /\ c \in Overlap \/ Flights(c) = {}
    /\ visitors[c] # None => Level(visitors[c].limiter, clock) >= -MaxDebt
    /\ request' = [request EXCEPT ![r] =
                     [pc |-> "arrived", client |-> c, now |-> clock,
                      due |-> 0, mapped |-> FALSE]]
    /\ UNCHANGED <<clock, visitors, lastCleanup, paid, told, backwards>>

\* The requests after a cleanup at t: a reservation made with a limiter that
\* is evicted is cancelled with that limiter.
Detached(t) ==
    [r \in Request |->
       IF request[r].client \in Evicted(t) /\ request[r].mapped
       THEN [pc |-> request[r].pc, client |-> request[r].client, now |-> request[r].now,
             due |-> request[r].due, mapped |-> FALSE]
       ELSE request[r]]

\* ipRateLimiter.reserve, and the decision that follows from the reservation.
Reserve(r) ==
    LET c   == request[r].client
        t   == request[r].now
        new == Reserved(LimiterOf(c, t), t)
    IN
    /\ request[r].pc = "arrived"
    /\ visitors' = [d \in Client |->
         IF d = c THEN [limiter |-> new, lastSeen |-> Seen(c, t)]
         ELSE IF d \in Evicted(t) THEN None ELSE visitors[d]]
    /\ lastCleanup' = IF CleanupDue(t) THEN t ELSE lastCleanup
    /\ backwards' = IF t < LimiterOf(c, t).last THEN backwards \cup {c} ELSE backwards
    /\ \/ /\ new.lastEvent <= t
          /\ request' = [Detached(t) EXCEPT ![r] = Idle]
          /\ paid' = [paid EXCEPT ![c] = AtLeast(t - Full, @) + Cost]
          /\ told' = [told EXCEPT ![c] = None]
       \/ /\ new.lastEvent > t
          /\ request' = [Detached(t) EXCEPT ![r] =
                           [pc |-> "refused", client |-> c, now |-> t,
                            due |-> new.lastEvent, mapped |-> TRUE]]
          /\ UNCHANGED <<paid, told>>
    /\ UNCHANGED clock

\* The reservation is cancelled and the request answered 429.
CancelAt(r) ==
    LET c   == request[r].client
        t   == request[r].now
        old == visitors[c].limiter
        new == Cancelled(old, request[r].due, t)
    IN
    /\ request[r].pc = "refused"
    /\ \/ /\ request[r].mapped
          /\ visitors' = [visitors EXCEPT ![c] =
                            [limiter |-> new, lastSeen |-> visitors[c].lastSeen]]
          /\ backwards' = IF new.last < old.last THEN backwards \cup {c} ELSE backwards
       \/ /\ ~request[r].mapped
          /\ UNCHANGED <<visitors, backwards>>
    /\ told' = IF c \in Overlap THEN told
               ELSE [told EXCEPT ![c] = t + RetryAfter(request[r].due - t)]
    /\ request' = [request EXCEPT ![r] = Idle]
    /\ UNCHANGED <<clock, lastCleanup, paid>>

Tick ==
    /\ clock < MaxTime
    /\ \A r \in Request : request[r].pc = "idle" \/ clock - request[r].now < MaxLag
    /\ clock' = clock + 1
    /\ UNCHANGED <<visitors, lastCleanup, request, paid, told, backwards>>

-----------------------------------------------------------------------------
Init ==
    /\ clock = 0
    /\ visitors = [c \in Client |-> None]
    /\ lastCleanup = None
    /\ request = [r \in Request |-> Idle]
    /\ paid = [c \in Client |-> -Full]
    /\ told = [c \in Client |-> None]
    /\ backwards = {}

Next ==
    \/ Tick
    \/ \E r \in Request, c \in Client : Arrive(r, c)
    \/ \E r \in Request : Reserve(r) \/ CancelAt(r)

Spec == Init /\ [][Next]_vars

-----------------------------------------------------------------------------
(* Properties *)

RequestState ==
    [pc : {"idle", "arrived", "refused"}, client : Client \cup {None},
     now : Nat, due : Int, mapped : BOOLEAN]

\* Every variable has its type; no bucket of ipRateLimiter ever holds more
\* than the burst.
TypeOK ==
    /\ clock \in Nat
    /\ visitors \in [Client -> Visitor \cup {None}]
    /\ \A c \in Client : visitors[c] # None => visitors[c].limiter.tokens <= Full
    /\ lastCleanup \in Nat \cup {None}
    /\ request \in [Request -> RequestState]
    /\ paid \in [Client -> Int]
    /\ told \in [Client -> Nat \cup {None}]
    /\ backwards \subseteq Client

\* What withRateLimit lets through is paid for by time: each request costs a
\* token's worth of it, and no more than a full burst is saved up.  Evictions
\* and refused requests make no difference, as long as the client's limiter
\* is never given a time before the last one (the clock is read before the
\* mutex is taken, and that reading is used for CancelAt again).
AdmittedWithinRate ==
    \A c \in Client \ backwards : paid[c] <= clock

\* A client that waits for its answers and comes back no sooner than the last
\* Retry-After said is not refused again: what withRateLimit refused costs it
\* nothing.
RetryAfterHonoured ==
    \A r \in Request :
        /\ request[r].pc = "refused"
        /\ request[r].client \notin Overlap
        /\ told[request[r].client] # None
        => request[r].now < told[request[r].client]

-----------------------------------------------------------------------------
(* What the limiter implements, for the clients that wait for their answers *)

Waiting(c) == {request[r].now : r \in {q \in Flights(c) : request[q].pc = "arrived"}}

Bucket == INSTANCE TokenBucket
          WITH Client <- Client \ Overlap,
               empty  <- [c \in Client \ Overlap |-> paid[c]],
               asked  <- [c \in Client \ Overlap |-> Waiting(c)]

\* A client that waits for its answers is let through exactly when a plain token
\* bucket would let it through: neither the eviction of its visitor, nor a token
\* reserved and given back, nor what other clients do, makes withRateLimit refuse
\* it a request too many or grant it one.
ImplementsBucket == Bucket!Spec
=============================================================================
