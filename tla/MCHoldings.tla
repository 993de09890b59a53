----------------------------- MODULE MCHoldings -----------------------------
(* The instance of Holdings for TLC: requests, names and keys are interchangeable. *)
EXTENDS Holdings, TLC

MCSymmetry == Permutations(Request) \cup Permutations(Name) \cup Permutations(Key)

=============================================================================
