---------------------------- MODULE QrHandshake -----------------------------
(***************************************************************************)
(* What "sign in with a QR code" promises, whatever requests race: a       *)
(* session goes pending, scanned, approved, consumed, or from scanned to   *)
(* rejected; it belongs to the one user who scanned it; and one access     *)
(* token at most is handed out for it, to that user.  QrLogin implements   *)
(* this specification.                                                     *)
(***************************************************************************)
EXTENDS Naturals

CONSTANT User

VARIABLES status,  \* QrStatus, or "absent" before the row is inserted and "gone" after
          owner,   \* the users the session belongs to: nobody, or the one who scanned it
          due,     \* a poll has consumed the approval and not answered yet
          given    \* how many access tokens each user was given

hvars == <<status, owner, due, given>>

HInit == /\ status = "absent" /\ owner = {} /\ due = FALSE
         /\ given = [u \in User |-> 0]

Create == status = "absent" /\ status' = "pending" /\ UNCHANGED <<owner, due, given>>

ScanBy(u) == /\ status = "pending" /\ status' = "scanned"
             /\ owner' = {u}
             /\ UNCHANGED <<due, given>>

Decide == /\ status = "scanned" /\ status' \in {"approved", "rejected"}
          /\ UNCHANGED <<owner, due, given>>

Collect == /\ status = "approved" /\ status' = "consumed"
           /\ due' = TRUE
           /\ UNCHANGED <<owner, given>>

HandOver == /\ due /\ due' = FALSE
            /\ \E u \in owner : given' = [given EXCEPT ![u] = @ + 1]
            /\ UNCHANGED <<status, owner>>

\* The user may not sign in (any more), or the answer is lost: the session is spent all the same.
Lose == due /\ due' = FALSE /\ UNCHANGED <<status, owner, given>>

\* The row is removed some time after its expiry.
Forget == status \notin {"absent", "gone"} /\ status' = "gone" /\ UNCHANGED <<owner, due, given>>

HNext == \/ Create \/ Decide \/ Collect \/ HandOver \/ Lose \/ Forget
         \/ \E u \in User : ScanBy(u)

HSpec == HInit /\ [][HNext]_hvars

=============================================================================
