-------------------------- MODULE MCSignInMethods ---------------------------
(***************************************************************************)
(* The instance of SignInMethods for TLC: two accounts at one provider     *)
(* with an address each.  The server starts with empty tables, or with one *)
(* account made through x1 that has a passkey.                             *)
(***************************************************************************)
EXTENDS SignInMethods, TLC

CONSTANTS u1, u2, x1, x2, e1, e2, p1

MCProviderOf == [x \in Account |-> "google"]

MCEmailOf == [x \in Account |-> IF x = x1 THEN e1 ELSE e2]

NoUser == [status |-> "absent", email |-> e1, verified |-> FALSE, active |-> FALSE, password |-> FALSE]

MCInitTables ==
    {[users |-> [u \in User |-> NoUser],
      linked |-> [x \in Account |-> {}],
      keys |-> [p \in Passkey |-> {}]],
     [users |-> [u \in User |-> IF u = u1 THEN [NoUser EXCEPT !.status = "live", !.verified = TRUE,
                                                              !.active = TRUE] ELSE NoUser],
      linked |-> [x \in Account |-> IF x = x1 THEN {u1} ELSE {}],
      keys |-> [p \in Passkey |-> {u1}]]}

MCSymmetry == Permutations(Request)

=============================================================================
