------------------------------ MODULE KeyRing ------------------------------
(***************************************************************************)
(* What a university may expect of its signing key: it is chosen once, it  *)
(* can be verified with before it is signed with, and every token carries  *)
(* it, until the university goes and everything with it.  There are no     *)
(* requests and no statements, so nothing is ever half done but this: a    *)
(* key that is published and not yet in use.                               *)
(***************************************************************************)
CONSTANTS University, Key, None

VARIABLES
    live,     \* universities that exist
    key,      \* the key each is verified with, None if it has none yet
    usable,   \* the key each signs with, None before it may
    tokens    \* what was signed and is kept: university and key

vars == <<live, key, usable, tokens>>

Init ==
    /\ live = University
    /\ key = [u \in University |-> None]
    /\ usable = [u \in University |-> None]
    /\ tokens = {}

Publish(u, k) ==
    /\ u \in live
    /\ key[u] = None
    /\ key' = [key EXCEPT ![u] = k]
    /\ UNCHANGED <<live, usable, tokens>>

Enable(u) ==
    /\ u \in live
    /\ key[u] # None
    /\ usable[u] = None
    /\ usable' = [usable EXCEPT ![u] = key[u]]
    /\ UNCHANGED <<live, key, tokens>>

Issue(u) ==
    /\ u \in live
    /\ usable[u] # None
    /\ tokens' = tokens \cup {[vuz |-> u, key |-> usable[u]]}
    /\ UNCHANGED <<live, key, usable>>

Retire(u) ==
    /\ u \in live
    /\ live' = live \ {u}
    /\ key' = [key EXCEPT ![u] = None]
    /\ usable' = [usable EXCEPT ![u] = None]
    /\ tokens' = {s \in tokens : s.vuz # u}

Next ==
    \E u \in University :
        \/ \E k \in Key : Publish(u, k)
        \/ Enable(u)
        \/ Issue(u)
        \/ Retire(u)

Spec == Init /\ [][Next]_vars
=============================================================================
