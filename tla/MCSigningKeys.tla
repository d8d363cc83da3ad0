--------------------------- MODULE MCSigningKeys ---------------------------
(***************************************************************************)
(* Two universities.  The first sends three requests with two different    *)
(* keys, one of them twice, as a client does that retries, each after the  *)
(* answer to the last; the second sends two with different keys at once.   *)
(***************************************************************************)
EXTENDS SigningKeys, TLC

CONSTANTS u1, u2, r1, r2, r3, r4, r5, k1, k2

MCUniversity == {u1, u2}
MCRequest    == {r1, r2, r3, r4, r5}
MCKey        == {k1, k2}
MCOverlap    == {u2}
MCRequestVuz == r1 :> u1 @@ r2 :> u1 @@ r3 :> u1 @@ r4 :> u2 @@ r5 :> u2
MCRequestKey == r1 :> k1 @@ r2 :> k2 @@ r3 :> k1 @@ r4 :> k2 @@ r5 :> k1
=============================================================================
