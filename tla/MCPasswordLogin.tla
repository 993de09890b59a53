-------------------------- MODULE MCPasswordLogin ---------------------------
(* The instance of PasswordLogin for TLC: requests and tokens are interchangeable. *)
EXTENDS PasswordLogin, TLC

MCSymmetry == Permutations(Request) \cup Permutations(Token)

=============================================================================
