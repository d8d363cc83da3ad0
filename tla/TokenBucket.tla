---------------------------- MODULE TokenBucket ----------------------------
(***************************************************************************)
(* What the rate limiter of the verifier promises a client that waits for  *)
(* its answers: a bucket that gains a unit per tick, holds Full units, and *)
(* gives Cost of them to every request that finds them there.  A refusal   *)
(* takes nothing, and a client that stays away loses nothing.  There are   *)
(* no reservations, cancellations, visitors or evictions.                  *)
(***************************************************************************)
EXTENDS Integers

CONSTANTS Client, Cost, Full

VARIABLES
    clock,   \* the time
    empty,   \* when the bucket of each client was, or would be, empty
    asked    \* when the request came that waits for its decision, if one does

vars == <<clock, empty, asked>>

\* What is in the bucket of c at t.
InBucket(c, t) == IF t - empty[c] > Full THEN Full ELSE t - empty[c]

Init ==
    /\ clock = 0
    /\ empty = [c \in Client |-> -Full]
    /\ asked = [c \in Client |-> {}]

Tick ==
    /\ clock' = clock + 1
    /\ UNCHANGED <<empty, asked>>

Ask(c) ==
    /\ asked[c] = {}
    /\ asked' = [asked EXCEPT ![c] = {clock}]
    /\ UNCHANGED <<clock, empty>>

Admit(c, t) ==
    /\ asked[c] = {t}
    /\ InBucket(c, t) >= Cost
    /\ empty' = [empty EXCEPT ![c] = t - (InBucket(c, t) - Cost)]
    /\ asked' = [asked EXCEPT ![c] = {}]
    /\ UNCHANGED clock

Refuse(c, t) ==
    /\ asked[c] = {t}
    /\ InBucket(c, t) < Cost
    /\ asked' = [asked EXCEPT ![c] = {}]
    /\ UNCHANGED <<clock, empty>>

Next ==
    \/ Tick
    \/ \E c \in Client : Ask(c)
    \/ \E c \in Client : \E t \in asked[c] : Admit(c, t) \/ Refuse(c, t)

Spec == Init /\ [][Next]_vars
=============================================================================
