-------------------------- MODULE UsersAdminProofs --------------------------
(***************************************************************************)
(* For any number of accounts and of concurrent requests: the last active  *)
(* administrator is only ever lost to a delete that skipped the guard, a   *)
(* deleted account is never written to again, and the audit log tells what *)
(* a request did.                                                          *)
(***************************************************************************)
EXTENDS UsersAdmin, TLAPS

LEMMA ConstantsTyped == /\ NoReq \in ReqType
                        /\ NoRow \in RowType
                        /\ \A role \in Role : NewRow(role) \in RowType
  <1>1. AnyUser \in User
    BY ConstantsAssumption DEF AnyUser
  <1>2. NoRow \in RowType
    BY DEF NoRow, RowType, Role
  <1>3. Keep \in PatchType
    BY DEF Keep, PatchType
  <1> QED
    BY <1>1, <1>2, <1>3 DEF NoReq, ReqType, NewRow, RowType, Role

\* Where a handler stands after its answer: its locals are cleared but for the audit fields.
LEMMA AnswerTyped ==
  ASSUME TypeOK, NEW r \in Request, NEW q \in ReqType, Answer(r, q)
  PROVE  /\ pc' \in [Request -> PCs]
         /\ req' \in [Request -> ReqType]
         /\ pc'[r] = "reply"
         /\ \A s \in Request : s # r => pc'[s] = pc[s] /\ req'[s] = req[s]
  BY ConstantsTyped DEF TypeOK, Answer, Goto, PCs, ReqType

LEMMA RecordedTyped ==
  ASSUME NEW q \in ReqType, NEW action \in AuditAction
  PROVE  Recorded(q, action) \subseteq ReqType
  <1>1. q.logged \cup {action} \in SUBSET AuditAction
    BY DEF ReqType
  <1>2. [q EXCEPT !.logged = q.logged \cup {action}] \in ReqType
    BY <1>1 DEF ReqType
  <1>3. [q EXCEPT !.auditFailed = TRUE] \in ReqType
    BY DEF ReqType
  <1> QED
    BY <1>2, <1>3 DEF Recorded

LEMMA RowsTyped ==
  ASSUME NEW row \in RowType, NEW p \in PatchType
  PROVE  Patched(row, p) \in RowType /\ SoftDeleted(row) \in RowType
  BY DEF Patched, SoftDeleted, RowType, PatchType, Role

\* What a handler notes in its locals leaves them well formed.
LEMMA ReqsTyped ==
  ASSUME NEW q \in ReqType, NEW row \in RowType, NEW b \in BOOLEAN, NEW c \in SUBSET Deed
  PROVE  /\ [q EXCEPT !.before = row, !.guard = b] \in ReqType
         /\ [q EXCEPT !.changed = c, !.stale = b] \in ReqType
         /\ [q EXCEPT !.changed = c] \in ReqType
<1>1. [q EXCEPT !.before = row, !.guard = b] \in ReqType
  BY DEF ReqType
<1>2. [q EXCEPT !.changed = c, !.stale = b] \in ReqType
  BY DEF ReqType
<1>3. [q EXCEPT !.changed = c] \in ReqType
  BY DEF ReqType
<1> QED
  BY <1>1, <1>2, <1>3

\* Type correctness: every step keeps the tables and the handlers' locals well formed.
LEMMA TypeStep == TypeOK /\ [Next]_vars => TypeOK'
<1> SUFFICES ASSUME TypeOK, [Next]_vars PROVE TypeOK'
  OBVIOUS
<1> USE ConstantsAssumption, ConstantsTyped
<1>1. ASSUME NEW r \in Request, Begin(r) PROVE TypeOK'
  <2>1. ASSUME NEW op \in {"update", "delete", "create", "invite"}, NEW a \in User, NEW t \in User,
               NEW p \in PatchType, NEW role \in Role, NEW label \in PCs,
               Accept(r, op, a, t, p, role, label)
        PROVE TypeOK'
    BY <2>1 DEF Accept, TypeOK, Goto, ReqType
  <2>2. AnyUser \in User /\ Keep \in PatchType
    BY DEF AnyUser, Keep, PatchType
  <2> QED
    BY <1>1, <2>1, <2>2 DEF Begin, BeginUpdate, BeginDelete, BeginCreate, BeginInvite, PCs, Role
<1>2. ASSUME NEW r \in Request, Require(r) PROVE TypeOK'
  <2>1. CASE users[req[r].target].status # "live"
    BY <1>2, <2>1, AnswerTyped DEF Require, TypeOK
  <2>2. CASE users[req[r].target].status = "live"
    <3>1. users[req[r].target] \in RowType /\ GuardLastAdmin(req[r], users[req[r].target]) \in BOOLEAN
      BY DEF TypeOK, ReqType, RowType, GuardLastAdmin
    <3> DEFINE row == users[req[r].target]
               guard == GuardLastAdmin(req[r], row)
    <3>2. [req[r] EXCEPT !.before = row, !.guard = guard] \in ReqType
      BY <3>1, ReqsTyped DEF TypeOK
    <3> HIDE DEF row, guard
    <3>3. req' = [req EXCEPT ![r] = [req[r] EXCEPT !.before = row, !.guard = guard]]
      BY <1>2, <2>2 DEF Require, TypeOK, row, guard
    <3>4. pc' \in [Request -> PCs]
      BY <1>2, <2>2 DEF Require, TypeOK, Goto, PCs
    <3> QED
      BY <1>2, <3>2, <3>3, <3>4 DEF Require, TypeOK
  <2> QED
    BY <2>1, <2>2
<1>3. ASSUME NEW r \in Request, AcquireLock(r) PROVE TypeOK'
  BY <1>3 DEF AcquireLock, TypeOK, Goto, PCs
<1>4. ASSUME NEW r \in Request, CountOthers(r) PROVE TypeOK'
  <2>1. CASE ActiveAdmins \ {req[r].target} = {}
    BY <1>4, <2>1, AnswerTyped DEF CountOthers, ReleaseLock, TypeOK
  <2>2. CASE ActiveAdmins \ {req[r].target} # {}
    BY <1>4, <2>2 DEF CountOthers, TypeOK, Goto, PCs
  <2> QED
    BY <2>1, <2>2
<1>5. ASSUME NEW r \in Request, WriteUpdate(r) PROVE TypeOK'
  <2> DEFINE t == req[r].target
             new == Patched(users[t], req[r].patch)
  <2>1. t \in User /\ new \in RowType
    BY RowsTyped DEF TypeOK, ReqType
  <2>2. CASE users[t].status = "live"
    <3>1. Changes(users[t], new) \in SUBSET Deed
      BY DEF Changes, AuditAction, Deed
    <3>2. req' \in [Request -> ReqType]
      <4> DEFINE c == Changes(users[t], new)
                 b == users[t] # req[r].before
      <4>1. [req[r] EXCEPT !.changed = c, !.stale = b] \in ReqType
        BY <2>1, <3>1, ReqsTyped DEF TypeOK
      <4> HIDE DEF c, b
      <4>2. req' = [req EXCEPT ![r] = [req[r] EXCEPT !.changed = c, !.stale = b]]
        BY <1>5, <2>2 DEF Matches, WriteUpdate, TypeOK, c, b
      <4> QED
        BY <4>1, <4>2 DEF TypeOK
    <3>3. users' \in [User -> RowType]
      BY <1>5, <2>1, <2>2 DEF Matches, WriteUpdate, TypeOK
    <3>4. pc' \in [Request -> PCs]
      BY <1>5, <2>2 DEF Matches, WriteUpdate, TypeOK, Goto, PCs
    <3> QED
      BY <1>5, <3>2, <3>3, <3>4 DEF WriteUpdate, ReleaseLock, TypeOK
  <2>3. CASE users[t].status # "live"
    BY <1>5, <2>3, AnswerTyped DEF Matches, WriteUpdate, ReleaseLock, TypeOK
  <2> QED
    BY <2>2, <2>3
<1>6. ASSUME NEW r \in Request, WriteDelete(r) PROVE TypeOK'
  <2> DEFINE t == req[r].target
  <2>0. t \in User /\ req[r].patch \in PatchType /\ users[t] \in RowType
    BY DEF TypeOK, ReqType
  <2>1. t \in User /\ SoftDeleted(users[t]) \in RowType
    BY <2>0, RowsTyped
  <2>2. staleDelete' \in BOOLEAN
    BY <1>6, <2>1 DEF Matches, WriteDelete, TypeOK, IsActiveAdmin, RowType, ReqType
  <2>3. CASE users[t].status = "live"
    BY <1>6, <2>1, <2>2, <2>3 DEF Matches, WriteDelete, ReleaseLock, TypeOK, Goto, PCs, ReqType, AuditAction, Deed
  <2>4. CASE users[t].status # "live"
    BY <1>6, <2>2, <2>4, AnswerTyped DEF Matches, WriteDelete, ReleaseLock, TypeOK
  <2> QED
    BY <2>3, <2>4
<1>7. ASSUME NEW r \in Request, Insert(r) PROVE TypeOK'
  <2>1. CASE Answer(r, NoReq) /\ UNCHANGED users
    BY <1>7, <2>1, AnswerTyped DEF Insert, TypeOK
  <2>2. ASSUME NEW u \in User, users' = [users EXCEPT ![u] = NewRow(req[r].newRole)]
        PROVE users' \in [User -> RowType]
    BY <2>2 DEF TypeOK, ReqType
  <2>3. CASE req' = [req EXCEPT ![r].changed = {"created_by_admin"}] /\ Goto(r, "audit_once")
    <3>1. req' \in [Request -> ReqType]
      <4>1. [req[r] EXCEPT !.changed = {"created_by_admin"}] \in ReqType
        BY ReqsTyped DEF TypeOK, AuditAction, Deed
      <4> QED
        BY <2>3, <4>1 DEF TypeOK
    <3>2. pc' \in [Request -> PCs]
      BY <2>3 DEF TypeOK, Goto, PCs
    <3>3. users' \in [User -> RowType]
      BY <1>7, <2>2 DEF Insert, TypeOK
    <3> QED
      BY <1>7, <3>1, <3>2, <3>3 DEF Insert, TypeOK
  <2>4. CASE Answer(r, [NoReq EXCEPT !.changed = {"invited"}])
    <3>1. [NoReq EXCEPT !.changed = {"invited"}] \in ReqType
      BY ReqsTyped, ConstantsTyped DEF TypeOK, Deed
    <3> QED
      BY <1>7, <2>2, <2>4, <3>1, AnswerTyped DEF Insert, TypeOK
  <2> QED
    BY <1>7, <2>1, <2>3, <2>4 DEF Insert
<1>8. ASSUME NEW r \in Request, AuditRole(r) PROVE TypeOK'
  <2>1. Recorded(req[r], "role_changed") \subseteq ReqType
    BY RecordedTyped DEF TypeOK, AuditAction
  <2> QED
    BY <1>8, <2>1 DEF AuditRole, TypeOK, Goto, PCs
<1>9. ASSUME NEW r \in Request, AuditActive(r) PROVE TypeOK'
  <2>1. Recorded(req[r], "active_status_changed") \subseteq ReqType
    BY RecordedTyped DEF TypeOK, AuditAction
  <2>2. PICK q \in ReqType : Answer(r, q)
    BY <1>9, <2>1 DEF AuditActive, TypeOK
  <2> QED
    BY <1>9, <2>2, AnswerTyped DEF AuditActive, TypeOK
<1>10. ASSUME NEW r \in Request, AuditOnce(r) PROVE TypeOK'
  <2>1. \A action \in AuditAction : Recorded(req[r], action) \subseteq ReqType
    BY RecordedTyped DEF TypeOK
  <2>2. PICK q \in ReqType : Answer(r, q)
    BY <1>10, <2>1 DEF AuditOnce, AuditAction
  <2> QED
    BY <1>10, <2>2, AnswerTyped DEF AuditOnce, TypeOK
<1>11. ASSUME NEW r \in Request, Reply(r) PROVE TypeOK'
  BY <1>11 DEF Reply, TypeOK, Goto, PCs
<1>12. ASSUME NEW r \in Request, Drop(r) PROVE TypeOK'
  BY <1>12 DEF Drop, ReleaseLock, TypeOK, Goto, PCs
<1>13. ASSUME NEW u \in User, SignUp(u) PROVE TypeOK'
  BY <1>13 DEF SignUp, TypeOK, Role
<1>14. CASE EnsureBootstrapAdmin
  BY <1>14 DEF EnsureBootstrapAdmin, TypeOK, Role
<1>15. CASE Restart
  BY <1>15 DEF Restart, TypeOK, PCs
<1>16. CASE UNCHANGED vars
  BY <1>16 DEF vars, TypeOK
<1> QED
  BY <1>1, <1>2, <1>3, <1>4, <1>5, <1>6, <1>7, <1>8, <1>9, <1>10, <1>11, <1>12, <1>13, <1>14,
     <1>15, <1>16 DEF Next, Step

\* The users table, the lock and the handlers' locals stay well formed.
THEOREM TypeCorrect == Spec => []TypeOK
<1>1. Init => TypeOK
  BY ConstantsAssumption, ConstantsTyped DEF Init, TypeOK, PCs
<1> QED
  BY <1>1, TypeStep, PTL DEF Spec

-----------------------------------------------------------------------------
(* The last administrator *)

\* Rows only leave the set of active administrators through one row at a time.
LEMMA OneRowWritten ==
  ASSUME TypeOK, NEW t \in User, NEW row \in RowType, users' = [users EXCEPT ![t] = row]
  PROVE  /\ ActiveAdmins \ {t} = ActiveAdmins' \ {t}
         /\ IsActiveAdmin(row) => t \in ActiveAdmins'
  BY DEF ActiveAdmins, IsActiveAdmin, TypeOK, RowType

\* The steps that write the users table or note an unguarded delete.
LEMMA Writers ==
  ASSUME [Next]_vars
  PROVE  \/ UNCHANGED <<users, staleDelete>>
         \/ \E r \in Request : WriteUpdate(r) \/ WriteDelete(r) \/ Insert(r)
         \/ \E u \in User : SignUp(u)
         \/ EnsureBootstrapAdmin
<1> DEFINE Quiet == UNCHANGED <<users, staleDelete>>
<1>1. ASSUME NEW r \in Request, Begin(r) PROVE Quiet
  BY <1>1 DEF Begin, BeginUpdate, BeginDelete, BeginCreate, BeginInvite, Accept
<1>2. ASSUME NEW r \in Request, Require(r) \/ AcquireLock(r) \/ CountOthers(r) PROVE Quiet
  BY <1>2 DEF Require, AcquireLock, CountOthers
<1>3. ASSUME NEW r \in Request, AuditRole(r) \/ AuditActive(r) \/ AuditOnce(r) PROVE Quiet
  BY <1>3 DEF AuditRole, AuditActive, AuditOnce
<1>4. ASSUME NEW r \in Request, Reply(r) \/ Drop(r) PROVE Quiet
  BY <1>4 DEF Reply, Drop
<1>5. CASE Restart \/ UNCHANGED vars
  BY <1>5 DEF Restart, vars
<1> HIDE DEF Quiet
<1>6. \/ Quiet \/ \E r \in Request : WriteUpdate(r) \/ WriteDelete(r) \/ Insert(r)
      \/ (\E u \in User : SignUp(u)) \/ EnsureBootstrapAdmin
  BY <1>1, <1>2, <1>3, <1>4, <1>5 DEF Next, Step, Quiet
<1> QED
  BY <1>6 DEF Quiet

\* An unguarded delete that was noted stays noted.
LEMMA StaleStays ==
  ASSUME TypeOK, [Next]_vars, ~staleDelete'
  PROVE  ~staleDelete
<1>1. ASSUME NEW r \in Request, WriteDelete(r) PROVE ~staleDelete
  BY <1>1 DEF WriteDelete
<1>2. ASSUME NEW r \in Request, WriteUpdate(r) \/ Insert(r) PROVE ~staleDelete
  BY <1>2 DEF WriteUpdate, Insert
<1>3. CASE (\E u \in User : SignUp(u)) \/ EnsureBootstrapAdmin
  BY <1>3 DEF SignUp, EnsureBootstrapAdmin
<1> QED
  BY <1>1, <1>2, <1>3, Writers

\* What any step may do to the set of active administrators: it only loses one to a write that
\* was guarded, or to an unguarded delete, which the history variable notes.
LEMMA AdminsOnlyGrow ==
  ASSUME TypeOK, GuardIsSound, [Next]_vars
  PROVE  \/ ActiveAdmins \subseteq ActiveAdmins'
         \/ staleDelete'
         \/ \E r \in Request : /\ pc[r] = "write" /\ req[r].guard /\ pc'[r] # "write"
                               /\ ActiveAdmins \ {req[r].target} \subseteq ActiveAdmins'
<1> DEFINE Goal == \/ ActiveAdmins \subseteq ActiveAdmins'
                   \/ staleDelete'
                   \/ \E r \in Request : /\ pc[r] = "write" /\ req[r].guard /\ pc'[r] # "write"
                                         /\ ActiveAdmins \ {req[r].target} \subseteq ActiveAdmins'
<1>1. ASSUME UNCHANGED users PROVE Goal
  BY <1>1 DEF ActiveAdmins
<1>2. ASSUME NEW u \in User, NEW role \in Role, users[u].status = "absent",
             users' = [users EXCEPT ![u] = NewRow(role)]
      PROVE Goal
  <2>1. NewRow(role) \in RowType
    BY ConstantsTyped
  <2>2. u \notin ActiveAdmins
    BY <1>2 DEF ActiveAdmins, IsActiveAdmin
  <2> QED
    BY <1>2, <2>1, <2>2, OneRowWritten
<1>3. ASSUME NEW r \in Request, WriteUpdate(r) PROVE Goal
  <2> DEFINE t == req[r].target
             new == Patched(users[t], req[r].patch)
  <2>1. CASE users[t].status # "live"
    BY <1>1, <1>3, <2>1 DEF Matches, WriteUpdate
  <2>2. CASE users[t].status = "live"
    <3>1. t \in User /\ new \in RowType /\ users' = [users EXCEPT ![t] = new]
      BY <1>3, <2>2, RowsTyped DEF Matches, WriteUpdate, TypeOK, ReqType
    <3>2. CASE req[r].guard
      <4> HIDE DEF new
      <4> QED
        BY <1>3, <2>2, <3>1, <3>2, OneRowWritten DEF Matches, WriteUpdate, Goto, TypeOK
    <3>3. CASE ~req[r].guard
      <4>1. req[r].patch.role # "user" /\ req[r].patch.active # "no"
        BY <1>3, <3>3 DEF Matches, WriteUpdate, GuardIsSound, UnguardedInv
      <4>2. req[r].patch \in PatchType /\ users[t] \in RowType
        BY <3>1 DEF TypeOK, ReqType
      <4>3. IsActiveAdmin(users[t]) => IsActiveAdmin(new)
        BY <4>1, <4>2 DEF IsActiveAdmin, Patched, PatchType, RowType
      <4>4. t \in ActiveAdmins => t \in ActiveAdmins'
        <5> HIDE DEF new
        <5> QED
          BY <3>1, <4>3, OneRowWritten DEF ActiveAdmins
      <4>5. ActiveAdmins \ {t} = ActiveAdmins' \ {t}
        <5> HIDE DEF new
        <5> QED
          BY <3>1, OneRowWritten
      <4> QED
        BY <4>4, <4>5
    <3> QED
      BY <3>2, <3>3
  <2> QED
    BY <2>1, <2>2
<1>4. ASSUME NEW r \in Request, WriteDelete(r) PROVE Goal
  <2> DEFINE t == req[r].target
             new == SoftDeleted(users[t])
  <2>1. CASE users[t].status # "live"
    BY <1>1, <1>4, <2>1 DEF Matches, WriteDelete
  <2>2. CASE users[t].status = "live"
    <3>0. t \in User /\ req[r].patch \in PatchType
      BY DEF TypeOK, ReqType
    <3>1. t \in User /\ new \in RowType /\ users' = [users EXCEPT ![t] = new]
      BY <1>4, <2>2, <3>0, RowsTyped DEF Matches, WriteDelete, TypeOK
    <3>2. ActiveAdmins \ {t} = ActiveAdmins' \ {t}
      <4> HIDE DEF new
      <4> QED
        BY <3>1, OneRowWritten
    <3>3. CASE req[r].guard
      BY <1>4, <2>2, <3>2, <3>3 DEF Matches, WriteDelete, Goto, TypeOK
    <3>4. CASE ~req[r].guard
      <4>1. t \in ActiveAdmins => staleDelete'
        BY <1>4, <3>4 DEF Matches, WriteDelete, ActiveAdmins
      <4> QED
        BY <3>2, <4>1
    <3> QED
      BY <3>3, <3>4
  <2> QED
    BY <2>1, <2>2
<1>5. ASSUME NEW r \in Request, Insert(r) PROVE Goal
  <2>1. req[r].newRole \in Role
    BY DEF TypeOK, ReqType
  <2> QED
    BY <1>1, <1>2, <1>5, <2>1 DEF Insert
<1>6. ASSUME NEW u \in User, SignUp(u) PROVE Goal
  BY <1>2, <1>6 DEF SignUp, Role
<1>7. CASE EnsureBootstrapAdmin
  BY <1>1, <1>2, <1>7 DEF EnsureBootstrapAdmin, Role
<1>8. ASSUME NEW r \in Request, Begin(r) PROVE Goal
  BY <1>1, <1>8 DEF Begin, BeginUpdate, BeginDelete, BeginCreate, BeginInvite, Accept
<1>9. ASSUME NEW r \in Request,
             \/ Require(r) \/ AcquireLock(r) \/ CountOthers(r) \/ AuditRole(r)
             \/ AuditActive(r) \/ AuditOnce(r) \/ Reply(r) \/ Drop(r)
      PROVE Goal
  BY <1>1, <1>9 DEF Require, AcquireLock, CountOthers, AuditRole, AuditActive, AuditOnce, Reply, Drop
<1>10. CASE Restart \/ UNCHANGED vars
  BY <1>1, <1>10 DEF Restart, vars
<1> QED
  BY <1>3, <1>4, <1>5, <1>6, <1>7, <1>8, <1>9, <1>10 DEF Next, Step

\* A request that is about to write under the guard either was before the step, or has just
\* counted and found another administrator.
LEMMA RequestStep ==
  ASSUME TypeOK, [Next]_vars, NEW r \in Request, pc'[r] = "write", req'[r].guard
  PROVE  \/ pc'[r] = pc[r] /\ req'[r] = req[r]
         \/ CountOthers(r) /\ ActiveAdmins \ {req[r].target} # {}
<1> DEFINE Goal == \/ pc'[r] = pc[r] /\ req'[r] = req[r]
                   \/ CountOthers(r) /\ ActiveAdmins \ {req[r].target} # {}
<1>1. ASSUME NEW s \in Request, Begin(s) PROVE Goal
  BY <1>1 DEF Begin, BeginUpdate, BeginDelete, BeginCreate, BeginInvite, Accept, Goto, TypeOK
<1>2. ASSUME NEW s \in Request, NEW q, Answer(s, q) PROVE Goal
  BY <1>2 DEF Answer, Goto, TypeOK
<1>3. ASSUME NEW s \in Request, Require(s) PROVE Goal
  <2>1. CASE users[req[s].target].status # "live"
    BY <1>2, <1>3, <2>1 DEF Require
  <2>2. CASE users[req[s].target].status = "live"
    <3> DEFINE guard == GuardLastAdmin(req[s], users[req[s].target])
    <3>1. guard \in BOOLEAN
      BY DEF TypeOK, ReqType, RowType, GuardLastAdmin
    <3> HIDE DEF guard
    <3>2. /\ pc' = [pc EXCEPT ![s] = IF guard THEN "lock" ELSE "write"]
          /\ req' = [req EXCEPT ![s].before = users[req[s].target], ![s].guard = guard]
      BY <1>3, <2>2 DEF Require, Goto, guard
    <3>3. s # r
      BY <3>1, <3>2 DEF TypeOK, ReqType
    <3> QED
      BY <3>2, <3>3 DEF TypeOK
  <2> QED
    BY <2>1, <2>2
<1>4. ASSUME NEW s \in Request, AcquireLock(s) PROVE Goal
  BY <1>4 DEF AcquireLock, Goto, TypeOK
<1>5. ASSUME NEW s \in Request, CountOthers(s) PROVE Goal
  BY <1>2, <1>5 DEF CountOthers, Goto, TypeOK
<1>6. ASSUME NEW s \in Request, WriteUpdate(s) \/ WriteDelete(s) PROVE Goal
  BY <1>2, <1>6 DEF Matches, WriteUpdate, WriteDelete, Goto, TypeOK
<1>7. ASSUME NEW s \in Request, Insert(s) PROVE Goal
  BY <1>2, <1>7 DEF Insert, Goto, TypeOK
<1>8. ASSUME NEW s \in Request, AuditRole(s) \/ AuditActive(s) \/ AuditOnce(s) PROVE Goal
  BY <1>2, <1>8 DEF AuditRole, AuditActive, AuditOnce, Goto, TypeOK
<1>9. ASSUME NEW s \in Request, Reply(s) \/ Drop(s) PROVE Goal
  BY <1>9 DEF Reply, Drop, Goto, TypeOK
<1>10. CASE Restart
  BY <1>10 DEF Restart
<1>11. CASE (\E u \in User : SignUp(u)) \/ EnsureBootstrapAdmin \/ UNCHANGED vars
  BY <1>11 DEF SignUp, EnsureBootstrapAdmin, vars
<1> QED
  BY <1>1, <1>3, <1>4, <1>5, <1>6, <1>7, <1>8, <1>9, <1>10, <1>11 DEF Next, Step

\* Every step keeps the lock with the one guarded transaction, and what it has counted true.
LEMMA GuardStep == TypeOK /\ GuardIsSound /\ [Next]_vars => GuardIsSound'
<1> SUFFICES ASSUME TypeOK, GuardIsSound, [Next]_vars PROVE GuardIsSound'
  OBVIOUS
<1> USE ConstantsAssumption
<1>0. TypeOK'
  BY TypeStep
\* The parts that do not look at the users table, action by action.
<1>1. (LockInv /\ UnguardedInv /\ WaitInv /\ OpInv)'
  <2> DEFINE Goal == (LockInv /\ UnguardedInv /\ WaitInv /\ OpInv)'
  <2> USE DEF GuardIsSound, LockInv, UnguardedInv, WaitInv, OpInv, InGuardedTx
  <2>1. ASSUME NEW r \in Request, Begin(r) PROVE Goal
    <3>1. ASSUME NEW op \in {"update", "delete"}, NEW a, NEW t, NEW p, NEW role,
                 Accept(r, op, a, t, p, role, "require")
          PROVE Goal
      BY <3>1 DEF Accept, TypeOK, Goto, NoReq
    <3>2. ASSUME NEW op, NEW a, NEW t, NEW p, NEW role, Accept(r, op, a, t, p, role, "insert")
          PROVE Goal
      BY <3>2 DEF Accept, TypeOK, Goto, NoReq
    <3> QED
      BY <2>1, <3>1, <3>2 DEF Begin, BeginUpdate, BeginDelete, BeginCreate, BeginInvite
  <2>2. ASSUME NEW r \in Request, Require(r) PROVE Goal
    <3>1. CASE users[req[r].target].status # "live"
      BY <2>2, <3>1, AnswerTyped, ConstantsTyped DEF Require
    <3>2. CASE users[req[r].target].status = "live"
      <4> DEFINE guard == GuardLastAdmin(req[r], users[req[r].target])
      <4>1. guard \in BOOLEAN
        BY DEF TypeOK, ReqType, RowType, GuardLastAdmin
      <4>2. req[r].op = "update" /\ ~guard => req[r].patch.role # "user" /\ req[r].patch.active # "no"
        BY DEF GuardLastAdmin
      <4> HIDE DEF guard
      <4>3. /\ pc' = [pc EXCEPT ![r] = IF guard THEN "lock" ELSE "write"]
            /\ req' = [req EXCEPT ![r].before = users[req[r].target], ![r].guard = guard]
            /\ pc[r] = "require" /\ UNCHANGED lock
        BY <2>2, <3>2 DEF Require, Goto, guard
      <4>4. /\ req'[r].guard = guard /\ req'[r].op = req[r].op /\ req'[r].patch = req[r].patch
            /\ \A s \in Request : s # r => req'[s] = req[s] /\ pc'[s] = pc[s]
            /\ pc'[r] = IF guard THEN "lock" ELSE "write"
        BY <4>3 DEF TypeOK, ReqType
      <4>7. pc[r] = "require" /\ lock' = lock
        BY <4>3
      <4>5. CASE guard
        <5>1. \A s \in Request : InGuardedTx(s)' <=> InGuardedTx(s)
          BY <4>4, <4>5, <4>7
        <5>2. LockInv'
          BY <4>7, <5>1 DEF LockInv
        <5>3. UnguardedInv'
          BY <4>4, <4>5 DEF UnguardedInv
        <5>4. (WaitInv /\ OpInv)'
          BY <4>4, <4>5, <4>7 DEF WaitInv, OpInv
        <5> QED
          BY <5>2, <5>3, <5>4
      <4>6. CASE ~guard
        BY <4>2, <4>4, <4>6, <4>7
      <4> QED
        BY <4>5, <4>6
    <3> QED
      BY <3>1, <3>2
  <2>3. ASSUME NEW r \in Request, AcquireLock(r) PROVE Goal
    BY <2>3 DEF AcquireLock, TypeOK, Goto
  <2>4. ASSUME NEW r \in Request, CountOthers(r) PROVE Goal
    <3>0. pc[r] = "count" /\ lock = r
      BY <2>4 DEF CountOthers
    <3>1. CASE ActiveAdmins \ {req[r].target} = {}
      BY <2>4, <3>0, <3>1, AnswerTyped, ConstantsTyped DEF CountOthers, ReleaseLock
    <3>2. CASE ActiveAdmins \ {req[r].target} # {}
      BY <2>4, <3>0, <3>2 DEF CountOthers, TypeOK, Goto, ReqType
    <3> QED
      BY <3>1, <3>2
  <2>5. ASSUME NEW r \in Request, pc[r] = "write", ReleaseLock(r),
               pc'[r] \in {"reply", "audit_role", "audit_once"},
               \A s \in Request : s # r => pc'[s] = pc[s] /\ req'[s] = req[s]
        PROVE Goal
    BY <2>5 DEF ReleaseLock
  <2>6. ASSUME NEW r \in Request, WriteUpdate(r) \/ WriteDelete(r) PROVE Goal
    <3>1. CASE users[req[r].target].status = "live"
      BY <2>5, <2>6, <3>1 DEF Matches, WriteUpdate, WriteDelete, Goto, TypeOK
    <3>2. CASE users[req[r].target].status # "live"
      BY <2>5, <2>6, <3>2, AnswerTyped, ConstantsTyped DEF Matches, WriteUpdate, WriteDelete
    <3> QED
      BY <3>1, <3>2
  \* Steps of a handler that is in no transaction, and stays out of one.
  <2>7. ASSUME NEW r \in Request, lock' = lock,
               pc[r] \in {"insert", "audit_role", "audit_active", "audit_once", "reply"},
               pc'[r] \in {"audit_once", "audit_active", "reply", "idle"},
               \A s \in Request : s # r => pc'[s] = pc[s] /\ req'[s] = req[s]
        PROVE Goal
    BY <2>7
  <2>8. ASSUME NEW r \in Request, Insert(r) PROVE Goal
    <3>1. CASE Answer(r, NoReq)
      BY <2>7, <2>8, <3>1, AnswerTyped, ConstantsTyped DEF Insert
    <3>2. CASE req' = [req EXCEPT ![r].changed = {"created_by_admin"}] /\ Goto(r, "audit_once")
      BY <2>7, <2>8, <3>2 DEF Insert, Goto, TypeOK
    <3> DEFINE invited == [NoReq EXCEPT !.changed = {"invited"}]
    <3>3. CASE Answer(r, invited)
      <4>1. invited \in ReqType
        BY ConstantsTyped DEF ReqType, Deed
      <4> HIDE DEF invited
      <4> QED
        BY <2>7, <2>8, <3>3, <4>1, AnswerTyped DEF Insert
    <3> QED
      BY <2>8, <3>1, <3>2, <3>3 DEF Insert
  <2>9. ASSUME NEW r \in Request, AuditRole(r) PROVE Goal
    BY <2>7, <2>9 DEF AuditRole, Goto, TypeOK
  <2>10. ASSUME NEW r \in Request, AuditActive(r) \/ AuditOnce(r) PROVE Goal
    <3>1. /\ lock' = lock /\ pc'[r] = "reply" /\ pc[r] \in {"audit_active", "audit_once"}
          /\ \A s \in Request : s # r => pc'[s] = pc[s] /\ req'[s] = req[s]
      BY <2>10 DEF AuditActive, AuditOnce, Answer, Goto, TypeOK
    <3> QED
      BY <2>7, <3>1
  <2>11. ASSUME NEW r \in Request, Reply(r) PROVE Goal
    BY <2>7, <2>11 DEF Reply, Goto, TypeOK
  <2>12. ASSUME NEW r \in Request, Drop(r) PROVE Goal
    BY <2>12 DEF Drop, ReleaseLock, Goto, TypeOK
  <2>13. CASE Restart
    BY <2>13 DEF Restart
  <2>14. CASE (\E u \in User : SignUp(u)) \/ EnsureBootstrapAdmin \/ UNCHANGED vars
    BY <2>14 DEF SignUp, EnsureBootstrapAdmin, vars
  <2> QED
    BY <2>1, <2>2, <2>3, <2>4, <2>6, <2>8, <2>9, <2>10, <2>11, <2>12, <2>13, <2>14 DEF Next, Step
<1>2. GuardInv'
  <2> SUFFICES ASSUME NEW r \in Request, pc'[r] = "write", req'[r].guard, ~staleDelete'
               PROVE  ActiveAdmins' \ {req'[r].target} # {}
    BY DEF GuardInv
  <2>1. ~staleDelete
    BY StaleStays
  \* Either the request was in its guarded transaction already, or it has just counted.
  <2>2. /\ InGuardedTx(r) /\ req'[r].target = req[r].target
        /\ ActiveAdmins \ {req[r].target} # {}
    <3>1. CASE pc'[r] = pc[r] /\ req'[r] = req[r]
      BY <2>1, <3>1 DEF GuardIsSound, GuardInv, InGuardedTx
    <3>2. CASE CountOthers(r) /\ ActiveAdmins \ {req[r].target} # {}
      BY <3>2 DEF CountOthers, InGuardedTx
    <3>3. (pc'[r] = pc[r] /\ req'[r] = req[r]) \/ (CountOthers(r) /\ ActiveAdmins \ {req[r].target} # {})
      BY RequestStep
    <3> QED
      BY <3>1, <3>2, <3>3
  <2>3. lock = r
    BY <2>2 DEF GuardIsSound, LockInv
  \* No other request is in a guarded transaction, so the set the request counted only grows.
  <2>4. pc'[r] = "write" /\ lock' = r
    BY <1>1 DEF LockInv, InGuardedTx
  <2>5. ActiveAdmins \subseteq ActiveAdmins'
    <3>1. ASSUME NEW s \in Request, pc[s] = "write", req[s].guard, pc'[s] # "write" PROVE FALSE
      BY <2>3, <2>4, <3>1 DEF GuardIsSound, LockInv, InGuardedTx
    <3> QED
      BY <3>1, AdminsOnlyGrow
  <2> QED
    BY <2>2, <2>5
<1> QED
  BY <1>1, <1>2 DEF GuardIsSound

\* The advisory lock does its work: whatever the interleaving, a guarded transaction that has
\* counted another administrator still has one when it writes.
THEOREM GuardCorrect == Spec => []GuardIsSound
<1>1. Init => GuardIsSound
  BY ConstantsAssumption DEF Init, GuardIsSound, LockInv, GuardInv, UnguardedInv, WaitInv, OpInv,
     InGuardedTx
<1> QED
  BY <1>1, TypeCorrect, GuardStep, PTL DEF Spec

\* The last active administrator is never removed, for any number of administrators, accounts
\* and concurrent requests, unless a delete has skipped the guard on a stale read.
THEOREM LastAdminIsKept == Spec => LastAdminKept
<1>1. TypeOK /\ GuardIsSound /\ [Next]_vars
        => [ActiveAdmins # {} /\ ~staleDelete' => ActiveAdmins' # {}]_vars
  <2> SUFFICES ASSUME TypeOK, GuardIsSound, [Next]_vars, ActiveAdmins # {}, ~staleDelete'
               PROVE  ActiveAdmins' # {}
    OBVIOUS
  <2>1. ~staleDelete
    BY StaleStays
  <2> QED
    BY <2>1, AdminsOnlyGrow DEF GuardIsSound, GuardInv
<1> QED
  BY <1>1, TypeCorrect, GuardCorrect, PTL DEF Spec, LastAdminKept

\* A deleted account stays exactly as the delete left it.
THEOREM DeletedStaysDeleted == Spec => DeletedIsFinal
<1>1. TypeOK /\ [Next]_vars
        => [\A u \in User : users[u].status = "deleted" => users'[u] = users[u]]_vars
  <2> SUFFICES ASSUME TypeOK, [Next]_vars, NEW u \in User, users[u].status = "deleted"
               PROVE  users'[u] = users[u]
    OBVIOUS
  <2>1. CASE UNCHANGED users
    BY <2>1
  <2>2. ASSUME NEW r \in Request, WriteUpdate(r) \/ WriteDelete(r) PROVE users'[u] = users[u]
    BY <2>2 DEF Matches, WriteUpdate, WriteDelete, TypeOK
  <2>3. ASSUME NEW r \in Request, Insert(r) PROVE users'[u] = users[u]
    BY <2>3 DEF Insert, TypeOK
  <2>4. CASE (\E v \in User : SignUp(v)) \/ EnsureBootstrapAdmin
    BY <2>4 DEF SignUp, EnsureBootstrapAdmin, TypeOK
  <2> QED
    BY <2>1, <2>2, <2>3, <2>4, Writers
<1> QED
  BY <1>1, TypeCorrect, PTL DEF Spec, DeletedIsFinal

-----------------------------------------------------------------------------
(* The audit log *)

RolePart(q) == IF RoleDue(q) THEN {"role_changed"} ELSE {}
ActivePart(q) == IF ActiveDue(q) THEN {"active_status_changed"} ELSE {}

\* What is logged is of these entries, and all of them unless writing one failed.
Tells(q, entries) == q.logged \subseteq entries /\ (~q.auditFailed => q.logged = entries)

\* What the log owes: there is no entry for an invitation.
Owed(q) == q.changed \ {"invited"}

\* What a handler at p with the locals q has logged so far, and what it has yet to log.
Audited(p, q) ==
    /\ p \in {"require", "lock", "count", "write", "insert", "audit_role", "audit_once"} =>
          q.logged = {}
    /\ p = "audit_role" /\ ~q.stale => q.changed = RolePart(q) \cup ActivePart(q)
    /\ p = "audit_active" /\ ~q.stale => /\ q.changed = RolePart(q) \cup ActivePart(q)
                                         /\ Tells(q, RolePart(q))
    /\ p = "audit_once" => q.changed = {IF q.op = "delete" THEN "deleted" ELSE "created_by_admin"}
    /\ p = "reply" /\ ~q.stale => Tells(q, Owed(q))

AuditInv == \A r \in Request : Audited(pc[r], req[r])

\* An UPDATE of a row that is still as it was read changes what the patch was found to change.
LEMMA DueIsChanged ==
  ASSUME NEW q \in ReqType
  PROVE  Changes(q.before, Patched(q.before, q.patch)) = RolePart(q) \cup ActivePart(q)
<1> DEFINE new == Patched(q.before, q.patch)
<1>1. q.before \in RowType /\ q.patch \in PatchType
  BY DEF ReqType
<1>2. /\ new.role = IF q.patch.role = "keep" THEN q.before.role ELSE q.patch.role
      /\ new.is_active = IF q.patch.active = "keep" THEN q.before.is_active
                                                    ELSE q.patch.active = "yes"
  BY <1>1 DEF Patched, RowType
<1> HIDE DEF new
<1>3. q.before.role # new.role <=> RoleDue(q)
  BY <1>2 DEF RoleDue
<1>4. q.before.is_active # new.is_active <=> ActiveDue(q)
  BY <1>2 DEF ActiveDue
<1> QED
  BY <1>3, <1>4 DEF Changes, RolePart, ActivePart, new

LEMMA RecordedTells ==
  ASSUME NEW q \in ReqType, NEW action, NEW entries, Tells(q, entries),
         NEW s \in Recorded(q, action)
  PROVE  /\ Tells(s, entries \cup {action})
         /\ s.changed = q.changed /\ s.stale = q.stale /\ s.patch = q.patch /\ s.before = q.before
<1>1. CASE s = [q EXCEPT !.logged = q.logged \cup {action}]
  BY <1>1 DEF ReqType, Tells
<1>2. CASE s = [q EXCEPT !.auditFailed = TRUE]
  BY <1>2 DEF ReqType, Tells
<1> QED
  BY <1>1, <1>2 DEF Recorded

LEMMA AnswerTells ==
  ASSUME TypeOK, NEW r \in Request, NEW q, Answer(r, q), ~q.stale => Tells(q, Owed(q))
  PROVE  /\ Audited(pc'[r], req'[r])
         /\ \A s \in Request : s # r => pc'[s] = pc[s] /\ req'[s] = req[s]
<1> DEFINE a == [NoReq EXCEPT !.changed = q.changed, !.logged = q.logged,
                              !.auditFailed = q.auditFailed, !.stale = q.stale]
<1>1. /\ a.changed = q.changed /\ a.logged = q.logged /\ a.auditFailed = q.auditFailed
      /\ a.stale = q.stale
  BY DEF NoReq
<1>2. pc'[r] = "reply" /\ req'[r] = a /\ \A s \in Request : s # r => pc'[s] = pc[s] /\ req'[s] = req[s]
  BY DEF TypeOK, Answer, Goto
<1> HIDE DEF a
<1> QED
  BY <1>1, <1>2 DEF Audited, Tells, Owed

LEMMA AuditStep == TypeOK /\ AuditInv /\ [Next]_vars => AuditInv'
<1> SUFFICES ASSUME TypeOK, AuditInv, [Next]_vars PROVE AuditInv'
  OBVIOUS
<1>t. \A r \in Request : req[r] \in ReqType /\ Audited(pc[r], req[r])
  BY DEF TypeOK, AuditInv
<1>n. NoReq.logged = {} /\ NoReq.changed = {} /\ Tells(NoReq, Owed(NoReq))
  BY DEF NoReq, Tells, Owed
<1>o. ASSUME NEW r \in Request, Audited(pc'[r], req'[r]),
             \A s \in Request : s # r => pc'[s] = pc[s] /\ req'[s] = req[s]
      PROVE AuditInv'
  BY <1>o, <1>t DEF AuditInv
<1>a. ASSUME NEW r \in Request, NEW q, Answer(r, q), ~q.stale => Tells(q, Owed(q))
      PROVE AuditInv'
  BY <1>a, <1>o, AnswerTells
<1>g. ASSUME NEW r \in Request, NEW label \in PCs, NEW q, Audited(label, q),
             Goto(r, label), req' = [req EXCEPT ![r] = q]
      PROVE AuditInv'
  BY <1>g, <1>o DEF Goto, TypeOK
<1>1. ASSUME NEW r \in Request, Begin(r) PROVE AuditInv'
  <2>1. ASSUME NEW op, NEW b, NEW t, NEW p, NEW role, NEW label \in {"require", "insert"},
               Accept(r, op, b, t, p, role, label)
        PROVE AuditInv'
    <3> DEFINE q == [NoReq EXCEPT !.op = op, !.target = t, !.patch = p, !.newRole = role]
    <3>1. q.logged = {}
      BY DEF NoReq
    <3>2. Goto(r, label) /\ req' = [req EXCEPT ![r] = q] /\ label \in PCs
      BY <2>1 DEF Accept, PCs
    <3> HIDE DEF q
    <3> QED
      BY <1>g, <3>1, <3>2 DEF Audited
  <2> QED
    BY <1>1, <2>1 DEF Begin, BeginUpdate, BeginDelete, BeginCreate, BeginInvite
<1>2. ASSUME NEW r \in Request, Require(r) PROVE AuditInv'
  <2>1. CASE users[req[r].target].status # "live"
    BY <1>2, <1>a, <1>n, <2>1 DEF Require
  <2>2. CASE users[req[r].target].status = "live"
    <3> DEFINE row == users[req[r].target]
               guard == GuardLastAdmin(req[r], row)
    <3>1. req' = [req EXCEPT ![r].before = row, ![r].guard = guard]
      BY <1>2, <2>2 DEF Require
    <3>2. req[r].logged = {}
      BY <1>2, <1>t DEF Require, Audited
    <3>3. pc'[r] \in {"lock", "write"} /\ \A s \in Request : s # r => pc'[s] = pc[s]
      BY <1>2, <2>2 DEF Require, Goto, TypeOK
    <3> HIDE DEF row, guard
    <3>4. req'[r].logged = {} /\ \A s \in Request : s # r => req'[s] = req[s]
      BY <3>1, <3>2, <1>t DEF TypeOK, ReqType
    <3> QED
      BY <1>o, <3>3, <3>4 DEF Audited
  <2> QED
    BY <2>1, <2>2
<1>3. ASSUME NEW r \in Request, AcquireLock(r) PROVE AuditInv'
  <2>1. /\ pc'[r] = "count" /\ req' = req /\ req[r].logged = {}
        /\ \A s \in Request : s # r => pc'[s] = pc[s]
    BY <1>3, <1>t DEF AcquireLock, Goto, TypeOK, Audited
  <2> QED
    BY <1>o, <2>1 DEF Audited
<1>4. ASSUME NEW r \in Request, CountOthers(r) PROVE AuditInv'
  <2>1. ASSUME Goto(r, "write"), req' = req PROVE AuditInv'
    <3>1. /\ pc'[r] = "write" /\ req[r].logged = {}
          /\ \A s \in Request : s # r => pc'[s] = pc[s]
      BY <1>4, <2>1, <1>t DEF CountOthers, Goto, TypeOK, Audited
    <3> QED
      BY <1>o, <2>1, <3>1 DEF Audited
  <2> QED
    BY <1>4, <1>a, <1>n, <2>1 DEF CountOthers
<1>5. ASSUME NEW r \in Request, WriteUpdate(r) PROVE AuditInv'
  <2> DEFINE row == users[req[r].target]
             new == Patched(row, req[r].patch)
             ch == Changes(row, new)
             st == (row # req[r].before)
  <2>1. CASE ~Matches(row)
    BY <1>5, <1>a, <1>n, <2>1 DEF WriteUpdate
  <2>2. CASE Matches(row)
    <3>1. /\ req' = [req EXCEPT ![r].changed = ch, ![r].stale = st]
          /\ Goto(r, "audit_role") /\ pc[r] = "write"
      BY <1>5, <2>2 DEF WriteUpdate
    <3>2. ~st => ch = RolePart(req[r]) \cup ActivePart(req[r])
      BY <1>t, DueIsChanged
    <3>3. req[r].logged = {}
      BY <3>1, <1>t DEF Audited
    <3> HIDE DEF st, ch
    <3>4. /\ req'[r].changed = ch /\ req'[r].stale = st /\ req'[r].logged = {}
          /\ req'[r].patch = req[r].patch /\ req'[r].before = req[r].before
          /\ \A s \in Request : s # r => req'[s] = req[s]
      BY <3>1, <3>3, <1>t DEF TypeOK, ReqType
    <3>5. RolePart(req'[r]) = RolePart(req[r]) /\ ActivePart(req'[r]) = ActivePart(req[r])
      BY <3>4 DEF RolePart, ActivePart, RoleDue, ActiveDue
    <3>6. pc'[r] = "audit_role" /\ \A s \in Request : s # r => pc'[s] = pc[s]
      BY <3>1 DEF Goto, TypeOK
    <3> QED
      BY <1>o, <3>2, <3>4, <3>5, <3>6 DEF Audited
  <2> QED
    BY <2>1, <2>2
<1>6. ASSUME NEW r \in Request, WriteDelete(r) PROVE AuditInv'
  <2>1. ASSUME Matches(users[req[r].target]) PROVE AuditInv'
    <3>1. req' = [req EXCEPT ![r].changed = {"deleted"}] /\ req[r].op = "delete"
      BY <1>6, <2>1 DEF WriteDelete
    <3>2. /\ req'[r].changed = {"deleted"} /\ req'[r].op = "delete"
          /\ req'[r].logged = req[r].logged
          /\ \A s \in Request : s # r => req'[s] = req[s]
      BY <3>1, <1>t DEF TypeOK, ReqType
    <3>3. pc'[r] = "audit_once" /\ \A s \in Request : s # r => pc'[s] = pc[s]
      BY <1>6, <2>1 DEF WriteDelete, Goto, TypeOK
    <3>4. req[r].logged = {}
      BY <1>6, <1>t DEF WriteDelete, Audited
    <3> QED
      BY <1>o, <3>2, <3>3, <3>4 DEF Audited
  <2> QED
    BY <1>6, <1>a, <1>n, <2>1 DEF WriteDelete
<1>8. ASSUME NEW r \in Request, Insert(r) PROVE AuditInv'
  <2>1. ASSUME req[r].op = "create", req' = [req EXCEPT ![r].changed = {"created_by_admin"}],
               Goto(r, "audit_once")
        PROVE AuditInv'
    <3>1. /\ req'[r].changed = {"created_by_admin"} /\ req'[r].op = "create"
          /\ req'[r].logged = req[r].logged
          /\ \A s \in Request : s # r => req'[s] = req[s]
      BY <2>1, <1>t DEF TypeOK, ReqType
    <3>2. pc'[r] = "audit_once" /\ \A s \in Request : s # r => pc'[s] = pc[s]
      BY <2>1 DEF Goto, TypeOK
    <3>3. req[r].logged = {}
      BY <1>8, <1>t DEF Insert, Audited
    <3> QED
      BY <1>o, <3>1, <3>2, <3>3 DEF Audited
  <2>2. ASSUME Answer(r, [NoReq EXCEPT !.changed = {"invited"}]) PROVE AuditInv'
    <3>1. Tells([NoReq EXCEPT !.changed = {"invited"}], Owed([NoReq EXCEPT !.changed = {"invited"}]))
      BY DEF NoReq, Tells, Owed
    <3> QED
      BY <1>a, <2>2, <3>1
  <2> QED
    BY <1>8, <1>a, <1>n, <2>1, <2>2 DEF Insert
<1>9. ASSUME NEW r \in Request, AuditRole(r) PROVE AuditInv'
  <2>0. /\ req[r].logged = {} /\ Tells(req[r], {})
        /\ ~req[r].stale => req[r].changed = RolePart(req[r]) \cup ActivePart(req[r])
    BY <1>9, <1>t DEF AuditRole, Audited, Tells
  <2>1. PICK q : /\ q \in IF RoleDue(req[r]) THEN Recorded(req[r], "role_changed") ELSE {req[r]}
                 /\ req' = [req EXCEPT ![r] = q] /\ Goto(r, "audit_active")
    BY <1>9 DEF AuditRole
  <2>2. /\ Tells(q, RolePart(req[r]))
        /\ q.changed = req[r].changed /\ q.stale = req[r].stale
        /\ q.patch = req[r].patch /\ q.before = req[r].before
    <3>1. CASE RoleDue(req[r])
      <4>1. {} \cup {"role_changed"} = RolePart(req[r])
        BY <3>1 DEF RolePart
      <4>2. q \in Recorded(req[r], "role_changed")
        BY <2>1, <3>1
      <4>3. Tells(q, {} \cup {"role_changed"})
        BY <1>t, <2>0, <4>2, RecordedTells
      <4> QED
        BY <1>t, <2>0, <4>1, <4>2, <4>3, RecordedTells
    <3>2. CASE ~RoleDue(req[r])
      BY <2>0, <2>1, <3>2 DEF RolePart
    <3> QED
      BY <3>1, <3>2
  <2>3. RolePart(q) = RolePart(req[r]) /\ ActivePart(q) = ActivePart(req[r])
    BY <2>2 DEF RolePart, ActivePart, RoleDue, ActiveDue
  <2>4. Audited("audit_active", q)
    BY <2>0, <2>2, <2>3 DEF Audited
  <2> QED
    BY <1>g, <2>1, <2>4 DEF PCs
<1>10. ASSUME NEW r \in Request, AuditActive(r) PROVE AuditInv'
  <2>0. ~req[r].stale => /\ req[r].changed = RolePart(req[r]) \cup ActivePart(req[r])
                         /\ Tells(req[r], RolePart(req[r]))
    BY <1>10, <1>t DEF AuditActive, Audited
  <2>1. PICK q : /\ q \in IF ActiveDue(req[r]) THEN Recorded(req[r], "active_status_changed")
                                               ELSE {req[r]}
                 /\ Answer(r, q)
    BY <1>10 DEF AuditActive
  <2>2. CASE ActiveDue(req[r])
    <3>1. q.changed = req[r].changed /\ q.stale = req[r].stale
      <4>1. q = [req[r] EXCEPT !.logged = @ \cup {"active_status_changed"}]
            \/ q = [req[r] EXCEPT !.auditFailed = TRUE]
        BY <2>1, <2>2 DEF Recorded
      <4> QED
        BY <1>t, <4>1 DEF ReqType
    <3>2. RolePart(req[r]) \cup {"active_status_changed"} = RolePart(req[r]) \cup ActivePart(req[r])
      BY <2>2 DEF ActivePart
    <3>3. ASSUME ~req[r].stale PROVE Tells(q, RolePart(req[r]) \cup {"active_status_changed"})
      BY <1>t, <2>0, <2>1, <2>2, <3>3, RecordedTells
    <3>4. ~req[r].stale => Owed(q) = RolePart(req[r]) \cup ActivePart(req[r])
      BY <2>0, <3>1 DEF Owed, RolePart, ActivePart
    <3> QED
      BY <1>a, <2>1, <3>1, <3>2, <3>3, <3>4
  <2>3. CASE ~ActiveDue(req[r])
    <3>1. q = req[r] /\ ActivePart(req[r]) = {}
      BY <2>1, <2>3 DEF ActivePart
    <3>2. ~req[r].stale => Owed(q) = RolePart(req[r])
      BY <2>0, <3>1 DEF Owed, RolePart
    <3> QED
      BY <1>a, <2>0, <2>1, <3>1, <3>2
  <2> QED
    BY <2>2, <2>3
<1>11. ASSUME NEW r \in Request, AuditOnce(r) PROVE AuditInv'
  <2> DEFINE act == IF req[r].op = "delete" THEN "deleted" ELSE "created_by_admin"
  <2>0. req[r].changed = {act} /\ act # "invited" /\ Tells(req[r], {})
    BY <1>11, <1>t DEF AuditOnce, Audited, Tells
  <2>1. PICK q \in Recorded(req[r], act) : Answer(r, q)
    BY <1>11 DEF AuditOnce
  <2> HIDE DEF act
  <2>2. Tells(q, {} \cup {act}) /\ q.changed = req[r].changed
    <3>1. req[r] \in ReqType /\ Tells(req[r], {}) /\ q \in Recorded(req[r], act)
      BY <1>t, <2>0, <2>1
    <3> QED
      BY <3>1, RecordedTells, Zenon
  <2>3. {} \cup {act} = {act}
    OBVIOUS
  <2>4. Owed(q) = {act}
    BY <2>0, <2>2 DEF Owed
  <2> QED
    BY <1>a, <2>1, <2>2, <2>3, <2>4
<1>12. ASSUME NEW r \in Request, Reply(r) \/ Drop(r) PROVE AuditInv'
  <2>1. Audited("idle", NoReq)
    BY DEF Audited
  <2> QED
    BY <1>12, <1>g, <2>1 DEF Reply, Drop, PCs
<1>13. CASE Restart
  BY <1>13 DEF Restart, AuditInv, Audited
<1>14. CASE (\E u \in User : SignUp(u)) \/ EnsureBootstrapAdmin \/ UNCHANGED vars
  BY <1>14, <1>t DEF SignUp, EnsureBootstrapAdmin, vars, AuditInv
<1> QED
  BY <1>1, <1>2, <1>3, <1>4, <1>5, <1>6, <1>8, <1>9, <1>10, <1>11, <1>12, <1>13, <1>14
     DEF Next, Step

\* The audit log of an answered request has what the request did, no more and, unless writing an
\* entry failed, no less, provided that the row was as the request had read it when it wrote.
THEOREM AuditLogIsTrue == Spec => []AuditTellsWhatHappened
<1>1. Init => AuditInv
  BY DEF Init, AuditInv, Audited
<1>2. AuditInv => AuditTellsWhatHappened
  BY DEF AuditInv, Audited, Tells, Owed, AuditTellsWhatHappened
<1> QED
  BY <1>1, <1>2, TypeCorrect, AuditStep, PTL DEF Spec

=============================================================================
