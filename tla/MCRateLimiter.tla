--------------------------- MODULE MCRateLimiter ---------------------------
(***************************************************************************)
(* A client that sends two requests at once and one that waits for its     *)
(* answers; each is evicted within the time of the clock.                  *)
(***************************************************************************)
EXTENDS RateLimiter, TLC

CONSTANTS c1, c2

MCClient  == {c1, c2}
MCOverlap == {c1}

RequestSymmetry == Permutations(Request)
=============================================================================
