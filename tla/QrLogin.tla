------------------------------ MODULE QrLogin -------------------------------
(***************************************************************************)
(* modules/qr_login: one session (sessions share no row), the new device   *)
(* that polls it and the phones that scan, approve and reject it, all as   *)
(* concurrent requests.  Each database statement is a step; what follows   *)
(* it up to the next await belongs to the step.  A request reads the       *)
(* session first and decides on that copy, so every later statement        *)
(* carries its own guard: it is those guards that are checked here.        *)
(* The secret and the code are abstracted: a poll has the secret, and a    *)
(* caller types the right code or a wrong one.                             *)
(***************************************************************************)
EXTENDS Naturals, FiniteSets

CONSTANTS Request,      \* the tasks serving requests
          User,         \* the users signed in on a phone
          MaxAttempts   \* MAX_CODE_ATTEMPTS (3)

ASSUME ConstantsAssumption == MaxAttempts \in Nat \ {0} /\ IsFiniteSet(Request)

VARIABLES status,    \* of the row, "absent" before the insert and "gone" after the clean-up
          owner,     \* user_id of the row: {} for NULL, or one user
          attempts,  \* wrong codes counted
          expired,   \* expires_at has passed
          mayEnter,  \* which users are active, and verified where that is required
          pc, actor, \* where each request is, and whose it is
          given,     \* history: how many access tokens each user was given
          wrong      \* history: wrong codes answered

rowVars == <<status, owner, attempts, expired>>
vars == <<rowVars, mayEnter, pc, actor, given, wrong>>

Status == {"absent", "pending", "scanned", "approved", "rejected", "consumed", "gone"}

PCs == {"idle", "mark_scanned", "rescan", "record_wrong", "approve", "reject", "consume", "issue"}

TypeOK == /\ status \in Status
          /\ owner \in SUBSET User
          /\ attempts \in 0..MaxAttempts
          /\ expired \in BOOLEAN
          /\ mayEnter \in SUBSET User
          /\ pc \in [Request -> PCs]
          /\ actor \in [Request -> SUBSET User]
          /\ given \in [User -> Nat]
          /\ wrong \in Nat

Init == /\ status = "absent" /\ owner = {} /\ attempts = 0 /\ expired = FALSE
        /\ mayEnter = User
        /\ pc = [r \in Request |-> "idle"]
        /\ actor = [r \in Request |-> {}]
        /\ given = [u \in User |-> 0]
        /\ wrong = 0

-----------------------------------------------------------------------------

Goto(r, label, who) == pc' = [pc EXCEPT ![r] = label] /\ actor' = [actor EXCEPT ![r] = who]

Done(r) == Goto(r, "idle", {})

\* find_live
Live == status \notin {"absent", "gone"} /\ ~expired

\* require_scanned_by
ScannedBy(u) == status = "scanned" /\ owner = {u}

-----------------------------------------------------------------------------
(* create *)

Create ==
    /\ status = "absent"
    /\ status' = "pending"
    /\ UNCHANGED <<owner, attempts, expired, mayEnter, pc, actor, given, wrong>>

-----------------------------------------------------------------------------
(* scan: a session scanned by the same user already is answered as scanned *)

ScanRead(r, u) ==
    /\ pc[r] = "idle" /\ u \in mayEnter
    /\ Live /\ status = "pending"
    /\ Goto(r, "mark_scanned", {u})
    /\ UNCHANGED <<rowVars, mayEnter, given, wrong>>

\* Seeded fault: the UPDATE trusts the status the handler read.
MarkableBlindly == Live

\* ... WHERE status = 'pending' AND expires_at > now
Markable == status = "pending" /\ ~expired

MarkScanned(r) ==
    /\ pc[r] = "mark_scanned"
    /\ IF Markable
       THEN /\ status' = "scanned" /\ owner' = actor[r]
            /\ Done(r)
       ELSE /\ Goto(r, "rescan", actor[r])
            /\ UNCHANGED <<status, owner>>
    /\ UNCHANGED <<attempts, expired, mayEnter, given, wrong>>

\* The race was lost: read again and answer for whoever holds the session now.
Rescan(r) ==
    /\ pc[r] = "rescan"
    /\ Done(r)
    /\ UNCHANGED <<rowVars, mayEnter, given, wrong>>

-----------------------------------------------------------------------------
(* approve, reject *)

\* The code is compared with the copy just read.
ApproveRead(r, u) ==
    /\ pc[r] = "idle" /\ u \in mayEnter
    /\ Live /\ ScannedBy(u)
    /\ \E label \in {"approve", "record_wrong"} : Goto(r, label, {u})
    /\ UNCHANGED <<rowVars, mayEnter, given, wrong>>

\* Seeded fault: the session is cancelled one wrong code too late.
LastAttemptLate == attempts >= MaxAttempts

LastAttempt == attempts + 1 >= MaxAttempts

\* One statement counts and cancels, whoever scanned it and however late it is.
RecordWrongCode(r) ==
    /\ pc[r] = "record_wrong"
    /\ IF status = "scanned"
       THEN /\ attempts' = attempts + 1
            /\ status' = IF LastAttempt THEN "rejected" ELSE status
       ELSE UNCHANGED <<attempts, status>>
    /\ wrong' = wrong + 1
    /\ Done(r)
    /\ UNCHANGED <<owner, expired, mayEnter, given>>

\* resolve: ... WHERE status = 'scanned' AND user_id = $3 AND expires_at > now
Resolvable(r) == status = "scanned" /\ owner = actor[r] /\ ~expired

ResolveApproved(r) ==
    /\ pc[r] = "approve"
    /\ status' = IF Resolvable(r) THEN "approved" ELSE status
    /\ Done(r)
    /\ UNCHANGED <<owner, attempts, expired, mayEnter, given, wrong>>

RejectRead(r, u) ==
    /\ pc[r] = "idle" /\ u \in mayEnter
    /\ Live /\ ScannedBy(u)
    /\ Goto(r, "reject", {u})
    /\ UNCHANGED <<rowVars, mayEnter, given, wrong>>

\* The phone is told "rejected" even where resolve found nothing to reject.
ResolveRejected(r) ==
    /\ pc[r] = "reject"
    /\ status' = IF Resolvable(r) THEN "rejected" ELSE status
    /\ Done(r)
    /\ UNCHANGED <<owner, attempts, expired, mayEnter, given, wrong>>

-----------------------------------------------------------------------------
(* poll; every status but approved is only reported *)

PollRead(r) ==
    /\ pc[r] = "idle"
    /\ Live /\ status = "approved"
    /\ Goto(r, "consume", {})
    /\ UNCHANGED <<rowVars, mayEnter, given, wrong>>

\* consume: only one of two polls finds the row approved, and it learns whose it is.
Consume(r) ==
    /\ pc[r] = "consume"
    /\ IF status = "approved" /\ ~expired
       THEN status' = "consumed" /\ Goto(r, "issue", owner)
       ELSE UNCHANGED status /\ Done(r)
    /\ UNCHANGED <<owner, attempts, expired, mayEnter, given, wrong>>

\* The user is read, and refused where they may not sign in; the session stays consumed.
Issue(r) ==
    /\ pc[r] = "issue"
    /\ given' = [u \in User |-> IF u \in actor[r] \cap mayEnter THEN given[u] + 1 ELSE given[u]]
    /\ Done(r)
    /\ UNCHANGED <<rowVars, mayEnter, wrong>>

-----------------------------------------------------------------------------
(* Time, administrators, and requests cut short *)

Expire == /\ status # "absent" /\ ~expired
          /\ expired' = TRUE
          /\ UNCHANGED <<status, owner, attempts, mayEnter, pc, actor, given, wrong>>

\* cleanup_expired_rows, or the insert of a later session
Cleanup == /\ expired /\ status \notin {"absent", "gone"}
           /\ status' = "gone"
           /\ UNCHANGED <<owner, attempts, expired, mayEnter, pc, actor, given, wrong>>

ToggleUser(u) == /\ mayEnter' = IF u \in mayEnter THEN mayEnter \ {u} ELSE mayEnter \cup {u}
                 /\ UNCHANGED <<rowVars, pc, actor, given, wrong>>

\* The handler's future is dropped at an await.
Drop(r) == /\ pc[r] # "idle"
           /\ Done(r)
           /\ UNCHANGED <<rowVars, mayEnter, given, wrong>>

-----------------------------------------------------------------------------

Handler(r) ==
    \/ MarkScanned(r) \/ Rescan(r) \/ RecordWrongCode(r) \/ ResolveApproved(r) \/ ResolveRejected(r)
    \/ PollRead(r) \/ Consume(r) \/ Issue(r) \/ Drop(r)
    \/ \E u \in User : ScanRead(r, u) \/ ApproveRead(r, u) \/ RejectRead(r, u)

Next == \/ Create \/ Expire \/ Cleanup
        \/ \E u \in User : ToggleUser(u)
        \/ \E r \in Request : Handler(r)

Spec == Init /\ [][Next]_vars

-----------------------------------------------------------------------------
(* Properties *)

\* However many wrong codes arrive at once, a session answers no more of them than the limit and
\* those that were already under way (record_wrong_code counts and cancels in one statement).
WrongCodesAreBounded == wrong <= MaxAttempts - 1 + Cardinality(Request)

Due == \E r \in Request : pc[r] = "issue"

Handshake == INSTANCE QrHandshake WITH due <- Due

\* The detailed protocol keeps the promise of QrHandshake: the states in their order, one owner,
\* one token at most and for the owner only ("the access token is handed out exactly once").
KeepsHandshake == Handshake!HSpec

=============================================================================
