----------------------------- MODULE UsersAdmin -----------------------------
(***************************************************************************)
(* What administrators do to accounts, request by request.                 *)
(*                                                                         *)
(* An HTTP request runs on a task of its own; every await of its handler   *)
(* is a place where other requests run, so each database round trip is a   *)
(* step of its own here.  Requests that change a role, an active flag or   *)
(* delete an account may take the Postgres advisory lock that guards "at   *)
(* least one active administrator remains"; a request may be dropped at    *)
(* any await (the 10 second timeout, a closed connection), which rolls its *)
(* transaction back.                                                       *)
(*                                                                         *)
(* A row's name, email and password play no part here.  The audit log is   *)
(* kept as what each request has written to it.  Removing the files of a   *)
(* deleted account touches no state of this module.                        *)
(***************************************************************************)
EXTENDS FiniteSets

CONSTANTS User,      \* the row ids the database may hand out
          Request,   \* the tasks serving requests
          Patch,     \* the patches administrators send
          InitRows,  \* the users table when the server first starts
          NoOne      \* stands for "no request holds the lock"

Role == {"user", "admin"}

RowType == [status : {"absent", "live", "deleted"}, role : Role, is_active : BOOLEAN]

\* UserPatch: "keep" is a field the request leaves out.
PatchType == [role : {"keep", "user", "admin"}, active : {"keep", "yes", "no"}]

AuditAction == {"created_by_admin", "role_changed", "active_status_changed", "deleted"}

\* What a request may do to the table; there is no audit action for an invitation.
Deed == AuditAction \cup {"invited"}

ASSUME ConstantsAssumption == /\ Patch \subseteq PatchType
                              /\ InitRows \in [User -> RowType]
                              /\ NoOne \notin Request
                              /\ User # {}

VARIABLES users,       \* the users table
          lock,        \* who holds pg_advisory_xact_lock(ADMIN_GUARD_KEY)
          phase,       \* whether the process is starting up or serving
          pc,          \* where each request is in its handler
          req,         \* the locals of each handler
          staleDelete  \* history: an unguarded delete has removed an active administrator

vars == <<users, lock, phase, pc, req, staleDelete>>

-----------------------------------------------------------------------------
(* The users table *)

IsActiveAdmin(row) == row.status = "live" /\ row.is_active /\ row.role = "admin"

ActiveAdmins == {u \in User : IsActiveAdmin(users[u])}

NewRow(role) == [status |-> "live", role |-> role, is_active |-> TRUE]

\* Seeded fault: a field left out of the request is written all the same.
PatchedBlindly(row, p) == [row EXCEPT !.role = p.role,
                                      !.is_active = IF p.active = "keep" THEN @ ELSE p.active = "yes"]

Patched(row, p) == [row EXCEPT !.role = IF p.role = "keep" THEN @ ELSE p.role,
                               !.is_active = IF p.active = "keep" THEN @ ELSE p.active = "yes"]

\* Seeded fault: the deleted rows are not filtered out.
MatchesAny(row) == row.status # "absent"

\* WHERE deleted_at IS NULL
Matches(row) == row.status = "live"

\* The soft delete keeps the row and its role.
SoftDeleted(row) == [row EXCEPT !.status = "deleted", !.is_active = FALSE]

-----------------------------------------------------------------------------
(* Requests *)

PCs == {"idle", "require", "lock", "count", "write", "insert", "audit_role",
        "audit_active", "audit_once", "reply"}

ReqType == [op : {"none", "update", "delete", "create", "invite"}, target : User,
            patch : PatchType, newRole : Role, guard : BOOLEAN, before : RowType,
            stale : BOOLEAN, changed : SUBSET Deed, logged : SUBSET AuditAction,
            auditFailed : BOOLEAN]

AnyUser == CHOOSE u \in User : TRUE

Keep == [role |-> "keep", active |-> "keep"]

NoRow == [status |-> "absent", role |-> "user", is_active |-> FALSE]

NoReq == [op |-> "none", target |-> AnyUser, patch |-> Keep,
          newRole |-> "user", guard |-> FALSE, before |-> NoRow, stale |-> FALSE,
          changed |-> {}, logged |-> {}, auditFailed |-> FALSE]

TypeOK == /\ users \in [User -> RowType]
          /\ lock \in Request \cup {NoOne}
          /\ phase \in {"starting", "serving"}
          /\ pc \in [Request -> PCs]
          /\ req \in [Request -> ReqType]
          /\ staleDelete \in BOOLEAN

Init == /\ users = InitRows
        /\ lock = NoOne
        /\ phase = "starting"
        /\ pc = [r \in Request |-> "idle"]
        /\ req = [r \in Request |-> NoReq]
        /\ staleDelete = FALSE

Goto(r, label) == pc' = [pc EXCEPT ![r] = label]

\* The handler has its answer; of its locals only what it changed and logged still matters.
Answer(r, q) ==
    /\ Goto(r, "reply")
    /\ req' = [req EXCEPT ![r] = [NoReq EXCEPT !.changed = q.changed, !.logged = q.logged,
                                               !.auditFailed = q.auditFailed, !.stale = q.stale]]

\* Seeded fault: a lock of the session, which the end of the transaction does not release.
KeepLock(r) == UNCHANGED lock

\* A transaction that ends, by commit or rollback, gives the lock up.
ReleaseLock(r) == lock' = IF lock = r THEN NoOne ELSE lock

\* The AdminUser extractor: the session is checked against the live row.
AdminUser(a) == phase = "serving" /\ IsActiveAdmin(users[a])

CheckAdminUpdate(a, t, p) == ~(a = t /\ (p.role = "user" \/ p.active = "no"))

CheckDelete(a, t) == a # t

Accept(r, op, a, t, p, role, label) ==
    /\ pc[r] = "idle"
    /\ AdminUser(a)
    /\ req' = [req EXCEPT ![r] = [NoReq EXCEPT !.op = op, !.target = t, !.patch = p,
                                               !.newRole = role]]
    /\ Goto(r, label)
    /\ UNCHANGED <<users, lock, phase, staleDelete>>

\* PATCH /users/{id}
BeginUpdate(r, a, t, p) == /\ CheckAdminUpdate(a, t, p)
                           /\ Accept(r, "update", a, t, p, "user", "require")

\* DELETE /users/{id}
BeginDelete(r, a, t) == /\ CheckDelete(a, t)
                        /\ Accept(r, "delete", a, t, Keep, "user", "require")

\* POST /users
BeginCreate(r, a, role) == Accept(r, "create", a, AnyUser, Keep, role, "insert")

\* POST /auth/invitations: the same insert, and nothing in the audit log.
BeginInvite(r, a, role) == Accept(r, "invite", a, AnyUser, Keep, role, "insert")

\* Seeded fault: deactivating an administrator is not taken for a removal.
GuardDemotionOnly(q, row) == IF q.op = "update" THEN q.patch.role = "user"
                             ELSE row.role = "admin" /\ row.is_active

\* guard_last_admin: from the patch for an update, from the row just read for a delete.
GuardLastAdmin(q, row) == IF q.op = "update"
                          THEN q.patch.role = "user" \/ q.patch.active = "no"
                          ELSE row.role = "admin" /\ row.is_active

\* before = require(id): a read outside the transaction that follows.
Require(r) ==
    LET row   == users[req[r].target]
        guard == GuardLastAdmin(req[r], row)
    IN /\ pc[r] = "require"
       /\ IF row.status # "live"
          THEN Answer(r, NoReq)
          ELSE /\ Goto(r, IF guard THEN "lock" ELSE "write")
               /\ req' = [req EXCEPT ![r].before = row, ![r].guard = guard]
       /\ UNCHANGED <<users, lock, phase, staleDelete>>

AcquireLock(r) == /\ pc[r] = "lock"
                  /\ lock = NoOne
                  /\ lock' = r
                  /\ Goto(r, "count")
                  /\ UNCHANGED <<users, phase, req, staleDelete>>

\* Seeded fault: the account to be removed counts as well.
CountEveryone(r) ==
    /\ pc[r] = "count"
    /\ IF ActiveAdmins = {}
       THEN Answer(r, NoReq) /\ ReleaseLock(r)
       ELSE Goto(r, "write") /\ UNCHANGED <<req, lock>>
    /\ UNCHANGED <<users, phase, staleDelete>>

\* SELECT COUNT(*) of the other active administrators; none left is an error.
CountOthers(r) ==
    /\ pc[r] = "count"
    /\ IF ActiveAdmins \ {req[r].target} = {}
       THEN Answer(r, NoReq) /\ ReleaseLock(r)
       ELSE Goto(r, "write") /\ UNCHANGED <<req, lock>>
    /\ UNCHANGED <<users, phase, staleDelete>>

\* What an UPDATE turned the row into, as the audit log should tell it.
Changes(old, new) ==
    (IF old.role # new.role THEN {"role_changed"} ELSE {}) \cup
    (IF old.is_active # new.is_active THEN {"active_status_changed"} ELSE {})

\* UPDATE ... WHERE deleted_at IS NULL, and the commit.
WriteUpdate(r) ==
    LET t   == req[r].target
        row == users[t]
        new == Patched(row, req[r].patch)
    IN /\ pc[r] = "write" /\ req[r].op = "update"
       /\ IF Matches(row)
          THEN /\ users' = [users EXCEPT ![t] = new]
               /\ req' = [req EXCEPT ![r].changed = Changes(row, new),
                                     ![r].stale = (row # req[r].before)]
               /\ Goto(r, "audit_role")
          ELSE Answer(r, NoReq) /\ UNCHANGED users
       /\ ReleaseLock(r)
       /\ UNCHANGED <<phase, staleDelete>>

WriteDelete(r) ==
    LET t   == req[r].target
        row == users[t]
    IN /\ pc[r] = "write" /\ req[r].op = "delete"
       /\ IF Matches(row)
          THEN /\ users' = [users EXCEPT ![t] = SoftDeleted(row)]
               /\ req' = [req EXCEPT ![r].changed = {"deleted"}]
               /\ Goto(r, "audit_once")
          ELSE Answer(r, NoReq) /\ UNCHANGED users
       /\ staleDelete' = (staleDelete \/ (IsActiveAdmin(row) /\ ~req[r].guard))
       /\ ReleaseLock(r)
       /\ UNCHANGED phase

\* create_with_password: the insert fails when the address is taken or the password is weak.  An
\* invitation has no more to do with the table, and writes no audit entry.
Insert(r) ==
    /\ pc[r] = "insert"
    /\ \/ \E u \in User :
            /\ users[u].status = "absent"
            /\ users' = [users EXCEPT ![u] = NewRow(req[r].newRole)]
            /\ IF req[r].op = "create"
               THEN /\ req' = [req EXCEPT ![r].changed = {"created_by_admin"}]
                    /\ Goto(r, "audit_once")
               ELSE Answer(r, [NoReq EXCEPT !.changed = {"invited"}])
       \/ Answer(r, NoReq) /\ UNCHANGED users
    /\ UNCHANGED <<lock, phase, staleDelete>>

\* AuditLogService::record: one insert, whose failure is logged and dropped.
Recorded(q, action) == {[q EXCEPT !.logged = @ \cup {action}], [q EXCEPT !.auditFailed = TRUE]}

RoleDue(q) == q.patch.role # "keep" /\ q.patch.role # q.before.role

\* Seeded fault: an entry for every patch that names the field.
ActiveDueAlways(q) == q.patch.active # "keep"

ActiveDue(q) == q.patch.active # "keep" /\ (q.patch.active = "yes") # q.before.is_active

AuditRole(r) == /\ pc[r] = "audit_role"
                /\ \E q \in IF RoleDue(req[r]) THEN Recorded(req[r], "role_changed") ELSE {req[r]} :
                        req' = [req EXCEPT ![r] = q]
                /\ Goto(r, "audit_active")
                /\ UNCHANGED <<users, lock, phase, staleDelete>>

AuditActive(r) == /\ pc[r] = "audit_active"
                  /\ \E q \in IF ActiveDue(req[r]) THEN Recorded(req[r], "active_status_changed")
                                                  ELSE {req[r]} : Answer(r, q)
                  /\ UNCHANGED <<users, lock, phase, staleDelete>>

\* A delete and a creation record the one thing they did.
AuditOnce(r) == /\ pc[r] = "audit_once"
                /\ \E q \in Recorded(req[r], IF req[r].op = "delete" THEN "deleted"
                                               ELSE "created_by_admin") : Answer(r, q)
                /\ UNCHANGED <<users, lock, phase, staleDelete>>

Reply(r) == /\ pc[r] = "reply"
            /\ req' = [req EXCEPT ![r] = NoReq]
            /\ Goto(r, "idle")
            /\ UNCHANGED <<users, lock, phase, staleDelete>>

\* The handler's future is dropped: timeout, or the client went away.
Drop(r) == /\ pc[r] # "idle"
           /\ req' = [req EXCEPT ![r] = NoReq]
           /\ Goto(r, "idle")
           /\ ReleaseLock(r)
           /\ UNCHANGED <<users, phase, staleDelete>>

-----------------------------------------------------------------------------
(* The rest of the program, as far as it changes these rows *)

\* Registration and first sign-in through a provider: always with the role user.
SignUp(u) == /\ phase = "serving"
             /\ users[u].status = "absent"
             /\ users' = [users EXCEPT ![u] = NewRow("user")]
             /\ UNCHANGED <<lock, phase, pc, req, staleDelete>>

\* ensure_bootstrap_admin: with no active administrator one is created; a failure (its
\* address is taken by a live account) is only logged.
EnsureBootstrapAdmin ==
    /\ phase = "starting"
    /\ phase' = "serving"
    /\ \/ /\ ActiveAdmins = {}
          /\ \E u \in User : /\ users[u].status = "absent"
                             /\ users' = [users EXCEPT ![u] = NewRow("admin")]
       \/ UNCHANGED users
    /\ UNCHANGED <<lock, pc, req, staleDelete>>

\* The process dies and is started again: its connections, and with them its
\* transactions and the lock, are gone.
Restart == /\ phase = "serving"
           /\ phase' = "starting"
           /\ lock' = NoOne
           /\ pc' = [r \in Request |-> "idle"]
           /\ req' = [r \in Request |-> NoReq]
           /\ UNCHANGED <<users, staleDelete>>

-----------------------------------------------------------------------------

Begin(r) == \E a \in User :
    \/ \E t \in User, p \in Patch : BeginUpdate(r, a, t, p)
    \/ \E t \in User : BeginDelete(r, a, t)
    \/ \E role \in Role : BeginCreate(r, a, role)
    \/ \E role \in Role : BeginInvite(r, a, role)

\* One database round trip of a handler that does not wait for another request.
Step(r) == \/ Require(r) \/ CountOthers(r)
           \/ WriteUpdate(r) \/ WriteDelete(r) \/ Insert(r)
           \/ AuditRole(r) \/ AuditActive(r) \/ AuditOnce(r) \/ Reply(r)

Next == \/ \E r \in Request : Begin(r) \/ Step(r) \/ AcquireLock(r) \/ Drop(r)
        \/ \E u \in User : SignUp(u)
        \/ EnsureBootstrapAdmin
        \/ Restart

Spec == Init /\ [][Next]_vars

\* Tokio polls every woken task and Postgres answers every query; Postgres grants an
\* advisory lock in the order of the waiters, so no waiter is overtaken for ever.
Fairness == /\ WF_vars(EnsureBootstrapAdmin)
            /\ \A r \in Request : WF_vars(Step(r)) /\ SF_vars(AcquireLock(r))

FairSpec == Spec /\ Fairness

-----------------------------------------------------------------------------
(* Properties *)

\* The lock is held exactly by the one transaction between its advisory lock and its end.
InGuardedTx(r) == pc[r] = "count" \/ (pc[r] = "write" /\ req[r].guard)

LockInv == \A r \in Request : InGuardedTx(r) <=> lock = r

\* A guarded transaction that has counted still has another administrator to rely on when it
\* writes, unless an unguarded delete has taken one away.
GuardInv == \A r \in Request :
    (pc[r] = "write" /\ req[r].guard /\ ~staleDelete) => ActiveAdmins \ {req[r].target} # {}

\* An update that skips the guard takes nobody's role or access away.
UnguardedInv == \A r \in Request :
    (pc[r] = "write" /\ req[r].op = "update" /\ ~req[r].guard)
        => req[r].patch.role # "user" /\ req[r].patch.active # "no"

\* Who waits for the lock or counts under it is a guarded request.
WaitInv == \A r \in Request : pc[r] \in {"lock", "count"} => req[r].guard

\* Requests that write are the ones with a row to write to.
OpInv == \A r \in Request : pc[r] \in {"require", "lock", "count", "write"}
                                => req[r].op \in {"update", "delete"}

\* The inductive invariant behind LastAdminKept (update, soft_delete in admin_changes.rs): the
\* advisory lock serialises the transactions that count administrators, so what one has
\* counted is still true when it writes.
GuardIsSound == LockInv /\ GuardInv /\ UnguardedInv /\ WaitInv /\ OpInv

\* No step, by any interleaving of updates, deletes, creations, drops and restarts, takes the
\* last active administrator away (README.md "the last active admin cannot be removed"), as
\* long as no delete has skipped the guard on the strength of a row that has changed since.
LastAdminKept == [][ActiveAdmins # {} /\ ~staleDelete' => ActiveAdmins' # {}]_vars

\* A deleted account never comes back and never changes again, whatever requests that read it
\* while it was live still write ("WHERE id = $ AND deleted_at IS NULL", admin_changes.rs).
DeletedIsFinal == [][\A u \in User : users[u].status = "deleted" => users'[u] = users[u]]_vars

\* The audit log tells what happened: an answered request has logged nothing it did not do, and
\* all it did, invitations apart, unless writing an entry failed (audit_log/mod.rs: a "durable,
\* admin-readable log of security-sensitive administrative actions"), provided that the row was
\* still as the request had read it when it wrote.  Without that proviso it does not hold:
\* update_user.rs decides what to record from the row it read before its transaction.  An account
\* made by invitation leaves no entry (invite_user.rs), although tests/audit_log.rs:1 says that
\* "administrative actions on users are recorded".
AuditTellsWhatHappened == \A r \in Request :
    pc[r] = "reply" /\ ~req[r].stale =>
        /\ req[r].logged \subseteq req[r].changed
        /\ ~req[r].auditFailed => req[r].logged = req[r].changed \ {"invited"}

\* Every request that was accepted ends: no one waits for ever for the advisory lock.
EveryRequestEnds == \A r \in Request : (pc[r] # "idle") ~> (pc[r] = "idle")

=============================================================================
