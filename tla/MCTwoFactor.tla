---------------------------- MODULE MCTwoFactor -----------------------------
(* The instance of TwoFactor for TLC. *)
EXTENDS TwoFactor, TLC

MCSymmetry == Permutations(Request) \cup Permutations(Token)

=============================================================================
