--------------------------- MODULE MCRateLimiter ---------------------------
(* An instance of RateLimiter for TLC.  Requests at the lock are interchangeable. *)
EXTENDS RateLimiter, TLC

MCSymmetry == Permutations(Slot)

=============================================================================
