---------------------------- MODULE MCShareLinks ----------------------------
(***************************************************************************)
(* One diploma, two requests for links to it with different lifetimes, one *)
(* of them the default, and the visits of both links.                      *)
(***************************************************************************)
EXTENDS ShareLinks, TLC

CONSTANTS u1, d1, r1, r2

MCUniversity  == {u1}
MCDiploma     == {d1}
MCDiplomaVuz  == d1 :> u1
MCRequest     == {r1, r2}
MCRequestHash == [r \in {r1, r2} |-> d1]
MCRequestTtl  == r1 :> 0 @@ r2 :> 1

VisitSymmetry == Permutations(Visit)
=============================================================================
