------------------------------ MODULE MCAccess ------------------------------
(***************************************************************************)
(* A university that is gone and registers again under its e-mail, and the *)
(* demo university with another.  A log-in, a request for an API key and   *)
(* an upload that may use what they give.                                  *)
(***************************************************************************)
EXTENDS Access, TLC

CONSTANTS u1, u2, demo, e1, e2, l1, k1, q1

MCUniversity      == {u1, u2, demo}
MCEmail           == {e1, e2}
MCUniversityEmail == u1 :> e1 @@ u2 :> e1 @@ demo :> e2
MCRequest         == {l1, k1, q1}
MCRequestKind     == l1 :> "login" @@ k1 :> "apikey" @@ q1 :> "upload"

UniversitySymmetry == Permutations({u1, u2})
=============================================================================
