--------------------------- MODULE MCRateLimiter ---------------------------
(* Finite instances of RateLimiter.                                         *)
EXTENDS RateLimiter, TLC

MCSymmetry == Permutations(Requests) \cup Permutations(Tags)
=============================================================================
