--------------------------- MODULE DiplomaLedger ---------------------------
(***************************************************************************)
(* What batch_results and diploma_hashes promise to the universities, the  *)
(* students and the public verifier, with no trace of how the rows get     *)
(* there: no topics, no consumers, no counters.  The constants are those   *)
(* of BatchPipeline.                                                       *)
(***************************************************************************)
CONSTANTS University, Number, Task, NumberVuz, TaskNumber, TaskHash, None

VARIABLES
    live,    \* universities that exist
    rows,    \* the outcome of each uploaded record: "none", "ok" or "error"
    hash,    \* the hash registered for each diploma number
    status   \* "absent", "active" or "revoked", for each diploma number

vars == <<live, rows, hash, status>>

Vuz(t) == NumberVuz[TaskNumber[t]]

Init ==
    /\ live = University
    /\ rows = [t \in Task |-> "none"]
    /\ hash = [n \in Number |-> None]
    /\ status = [n \in Number |-> "absent"]

\* A number is registered once, for the hash of some uploaded record.
Issue(t) ==
    /\ Vuz(t) \in live
    /\ status[TaskNumber[t]] = "absent"
    /\ hash' = [hash EXCEPT ![TaskNumber[t]] = TaskHash[t]]
    /\ status' = [status EXCEPT ![TaskNumber[t]] = "active"]
    /\ UNCHANGED <<live, rows>>

\* A record succeeds only if the registry holds its own hash.
Accept(t) ==
    /\ Vuz(t) \in live
    /\ rows[t] = "none"
    /\ status[TaskNumber[t]] # "absent"
    /\ hash[TaskNumber[t]] = TaskHash[t]
    /\ rows' = [rows EXCEPT ![t] = "ok"]
    /\ UNCHANGED <<live, hash, status>>

Reject(t) ==
    /\ Vuz(t) \in live
    /\ rows[t] = "none"
    /\ rows' = [rows EXCEPT ![t] = "error"]
    /\ UNCHANGED <<live, hash, status>>

Revoke(n) ==
    /\ status[n] # "absent"
    /\ status' = [status EXCEPT ![n] = "revoked"]
    /\ UNCHANGED <<live, rows, hash>>

\* A university leaves with everything it issued, for good.
Purge(u) ==
    /\ u \in live
    /\ live' = live \ {u}
    /\ rows' = [t \in Task |-> IF Vuz(t) = u THEN "none" ELSE rows[t]]
    /\ hash' = [n \in Number |-> IF NumberVuz[n] = u THEN None ELSE hash[n]]
    /\ status' = [n \in Number |-> IF NumberVuz[n] = u THEN "absent" ELSE status[n]]

Next ==
    \/ \E t \in Task : Issue(t) \/ Accept(t) \/ Reject(t)
    \/ \E n \in Number : Revoke(n)
    \/ \E u \in University : Purge(u)

Spec == Init /\ [][Next]_vars
=============================================================================
