--------------------------- MODULE QrLoginProofs ----------------------------
(***************************************************************************)
(* For any number of phones, users and polls: QrLogin implements           *)
(* QrHandshake, and the wrong codes a session answers are bounded.         *)
(***************************************************************************)
EXTENDS QrLogin, FiniteSetTheorems, TLAPS

\* A session that has been scanned has one owner.
OwnerInv == status \in {"scanned", "approved"} => \E u \in User : owner = {u}

\* A request that is about to scan acts for one user.
ScannerInv == \A r \in Request : pc[r] = "mark_scanned" => \E u \in User : actor[r] = {u}

\* One poll at most has consumed the approval; it acts for the owner of a session that is spent.
IssueInv == \A r \in Request : pc[r] = "issue" =>
                /\ status \in {"consumed", "gone"}
                /\ actor[r] = owner
                /\ \E u \in User : owner = {u}
                /\ \A q \in Request : pc[q] = "issue" => q = r

HandshakeInv == OwnerInv /\ ScannerInv /\ IssueInv

\* The requests that compared a wrong code and have not counted it yet.
Uncounted == {r \in Request : pc[r] = "record_wrong"}

\* Until the session is decided every wrong code answered was counted; afterwards only those
\* still under way are left to be answered.
CodesInv == /\ status \in {"absent", "pending", "scanned"} => wrong = attempts /\ attempts < MaxAttempts
            /\ status \in {"absent", "pending"} => Uncounted = {}
            /\ wrong + Cardinality(Uncounted) <= MaxAttempts - 1 + Cardinality(Request)

-----------------------------------------------------------------------------

\* Every step keeps the row and the requests well formed, and the wrong-code counter within
\* its limit: the limit is part of the type, so CodesInv is needed for it.
LEMMA TypeStep == TypeOK /\ CodesInv /\ [Next]_vars => TypeOK'
<1> SUFFICES ASSUME TypeOK, CodesInv, [Next]_vars PROVE TypeOK'
  OBVIOUS
<1> USE ConstantsAssumption DEF TypeOK
<1>1. CASE Create
  BY <1>1 DEF Create, Status
<1>2. CASE Expire \/ Cleanup
  BY <1>2 DEF Expire, Cleanup, Status
<1>3. ASSUME NEW u \in User, ToggleUser(u) PROVE TypeOK'
  BY <1>3 DEF ToggleUser, rowVars
<1>4. ASSUME NEW r \in Request, NEW u \in User, ScanRead(r, u) \/ ApproveRead(r, u) \/ RejectRead(r, u)
      PROVE TypeOK'
  BY <1>4 DEF ScanRead, ApproveRead, RejectRead, Goto, PCs, rowVars
<1>5. ASSUME NEW r \in Request, MarkScanned(r) PROVE TypeOK'
  BY <1>5 DEF MarkScanned, Goto, Done, PCs, Status
<1>6. ASSUME NEW r \in Request, RecordWrongCode(r) PROVE TypeOK'
  BY <1>6 DEF RecordWrongCode, Goto, Done, PCs, Status, LastAttempt, CodesInv
<1>7. ASSUME NEW r \in Request, ResolveApproved(r) \/ ResolveRejected(r) PROVE TypeOK'
  BY <1>7 DEF ResolveApproved, ResolveRejected, Goto, Done, PCs, Status
<1>8. ASSUME NEW r \in Request, PollRead(r) \/ Consume(r) PROVE TypeOK'
  BY <1>8 DEF PollRead, Consume, Goto, Done, PCs, Status, rowVars
<1>9. ASSUME NEW r \in Request, Issue(r) PROVE TypeOK'
  BY <1>9 DEF Issue, Goto, Done, PCs, rowVars
<1>10. ASSUME NEW r \in Request, Rescan(r) \/ Drop(r) PROVE TypeOK'
  BY <1>10 DEF Rescan, Drop, Goto, Done, PCs, rowVars
<1>11. CASE UNCHANGED vars
  BY <1>11 DEF vars, rowVars
<1> QED
  BY <1>1, <1>2, <1>3, <1>4, <1>5, <1>6, <1>7, <1>8, <1>9, <1>10, <1>11 DEF Next, Handler

-----------------------------------------------------------------------------

\* What a step leaves alone, for the requests it is not about.
LEMMA GotoFrame ==
  ASSUME TypeOK, NEW r \in Request, NEW label, NEW who, Goto(r, label, who)
  PROVE  /\ pc'[r] = label /\ actor'[r] = who
         /\ \A q \in Request : q # r => pc'[q] = pc[q] /\ actor'[q] = actor[q]
  BY DEF TypeOK, Goto

LEMMA HandshakeStep == TypeOK /\ HandshakeInv /\ [Next]_vars => HandshakeInv'
<1> SUFFICES ASSUME TypeOK, HandshakeInv, [Next]_vars PROVE HandshakeInv'
  OBVIOUS
<1> USE DEF HandshakeInv, OwnerInv, ScannerInv, IssueInv
<1>1. CASE Create
  BY <1>1 DEF Create
<1>2. CASE Expire \/ Cleanup
  BY <1>2 DEF Expire, Cleanup
<1>3. ASSUME NEW u \in User, ToggleUser(u) PROVE HandshakeInv'
  BY <1>3 DEF ToggleUser, rowVars
<1>4. ASSUME NEW r \in Request, NEW u \in User, ScanRead(r, u) \/ ApproveRead(r, u) \/ RejectRead(r, u)
      PROVE HandshakeInv'
  BY <1>4, GotoFrame DEF ScanRead, ApproveRead, RejectRead, rowVars
<1>5. ASSUME NEW r \in Request, MarkScanned(r) PROVE HandshakeInv'
  BY <1>5, GotoFrame DEF MarkScanned, Done, Markable
<1>6. ASSUME NEW r \in Request, RecordWrongCode(r) PROVE HandshakeInv'
  BY <1>6, GotoFrame DEF RecordWrongCode, Done
<1>7. ASSUME NEW r \in Request, ResolveApproved(r) \/ ResolveRejected(r) PROVE HandshakeInv'
  BY <1>7, GotoFrame DEF ResolveApproved, ResolveRejected, Done, Resolvable
<1>8. ASSUME NEW r \in Request, PollRead(r) PROVE HandshakeInv'
  BY <1>8, GotoFrame DEF PollRead, rowVars
<1>9. ASSUME NEW r \in Request, Consume(r) PROVE HandshakeInv'
  BY <1>9, GotoFrame DEF Consume, Done
<1>10. ASSUME NEW r \in Request, Issue(r) \/ Rescan(r) \/ Drop(r) PROVE HandshakeInv'
  BY <1>10, GotoFrame DEF Issue, Rescan, Drop, Done, rowVars
<1>11. CASE UNCHANGED vars
  BY <1>11 DEF vars, rowVars
<1> QED
  BY <1>1, <1>2, <1>3, <1>4, <1>5, <1>6, <1>7, <1>8, <1>9, <1>10, <1>11 DEF Next, Handler

-----------------------------------------------------------------------------

LEMMA UncountedFinite == /\ IsFiniteSet(Uncounted) /\ Cardinality(Uncounted) \in Nat
                         /\ Cardinality(Request) \in Nat
                         /\ Cardinality(Uncounted) <= Cardinality(Request)
  BY ConstantsAssumption, FS_Subset, FS_CardinalityType DEF Uncounted

\* The same after a step.
LEMMA UncountedFinite2 == /\ IsFiniteSet(Uncounted') /\ Cardinality(Uncounted') \in Nat
                          /\ Cardinality(Uncounted') <= Cardinality(Request)
  BY ConstantsAssumption, FS_Subset, FS_CardinalityType DEF Uncounted

LEMMA CodesStep == TypeOK /\ CodesInv /\ [Next]_vars => CodesInv'
<1> SUFFICES ASSUME TypeOK, CodesInv, [Next]_vars PROVE CodesInv'
  OBVIOUS
<1>a. Cardinality(Uncounted') \in Nat /\ Cardinality(Uncounted) \in Nat /\ Cardinality(Request) \in Nat
  BY UncountedFinite, UncountedFinite2
<1>b. ASSUME Uncounted' \subseteq Uncounted
      PROVE  Cardinality(Uncounted') <= Cardinality(Uncounted)
  BY <1>b, UncountedFinite, FS_Subset
\* A step that counts nothing and compares no wrong code.
<1>c. ASSUME Uncounted' \subseteq Uncounted, UNCHANGED <<wrong, attempts>>,
             status' = status \/ (status \in {"absent", "pending"} /\ status' \in {"pending", "scanned"})
                \/ status' \in {"approved", "rejected", "consumed", "gone"}
      PROVE CodesInv'
  BY <1>a, <1>b, <1>c, ConstantsAssumption DEF CodesInv, TypeOK
<1>1. CASE Create \/ Expire \/ Cleanup
  BY <1>1, <1>c DEF Create, Expire, Cleanup, Uncounted
<1>2. ASSUME NEW u \in User, ToggleUser(u) PROVE CodesInv'
  BY <1>2, <1>c DEF ToggleUser, Uncounted, rowVars
<1>3. ASSUME NEW r \in Request, NEW u \in User, ScanRead(r, u) \/ RejectRead(r, u) PROVE CodesInv'
  <2>1. Uncounted' \subseteq Uncounted
    BY <1>3, GotoFrame DEF ScanRead, RejectRead, Uncounted
  <2> QED
    BY <1>3, <1>c, <2>1 DEF ScanRead, RejectRead, rowVars
<1>4. ASSUME NEW r \in Request, NEW u \in User, ApproveRead(r, u) PROVE CodesInv'
  <2>1. status = "scanned" /\ UNCHANGED <<status, attempts, wrong>>
    BY <1>4 DEF ApproveRead, ScannedBy, rowVars
  <2>2. wrong = attempts /\ attempts < MaxAttempts
    BY <2>1 DEF CodesInv
  <2> QED
    BY <1>a, <2>1, <2>2, UncountedFinite2, ConstantsAssumption DEF CodesInv, TypeOK
<1>5. ASSUME NEW r \in Request, MarkScanned(r) PROVE CodesInv'
  <2>1. Uncounted' \subseteq Uncounted
    BY <1>5, GotoFrame DEF MarkScanned, Done, Uncounted
  <2> QED
    BY <1>5, <1>c, <2>1 DEF MarkScanned, Markable
<1>6. ASSUME NEW r \in Request, RecordWrongCode(r) PROVE CodesInv'
  <2>1. r \in Uncounted /\ Uncounted' = Uncounted \ {r}
    BY <1>6, GotoFrame DEF RecordWrongCode, Done, Uncounted
  <2>2. Cardinality(Uncounted') = Cardinality(Uncounted) - 1
    BY <2>1, UncountedFinite, FS_RemoveElement
  <2>3. wrong' = wrong + 1
    BY <1>6 DEF RecordWrongCode
  <2>5. status \notin {"absent", "pending"} /\ status' \notin {"absent", "pending"}
    BY <1>6, <2>1 DEF RecordWrongCode, CodesInv
  <2>6. status' \in {"absent", "pending", "scanned"} => wrong' = attempts' /\ attempts' < MaxAttempts
    BY <1>6, <2>5, ConstantsAssumption DEF RecordWrongCode, LastAttempt, CodesInv, TypeOK
  <2> QED
    BY <1>a, <2>2, <2>3, <2>5, <2>6, ConstantsAssumption DEF CodesInv, TypeOK
<1>7. ASSUME NEW r \in Request, ResolveApproved(r) \/ ResolveRejected(r) PROVE CodesInv'
  <2>1. Uncounted' \subseteq Uncounted
    BY <1>7, GotoFrame DEF ResolveApproved, ResolveRejected, Done, Uncounted
  <2> QED
    BY <1>7, <1>c, <2>1 DEF ResolveApproved, ResolveRejected
<1>8. ASSUME NEW r \in Request, PollRead(r) \/ Consume(r) PROVE CodesInv'
  <2>1. Uncounted' \subseteq Uncounted
    BY <1>8, GotoFrame DEF PollRead, Consume, Done, Uncounted
  <2> QED
    BY <1>8, <1>c, <2>1 DEF PollRead, Consume, rowVars
<1>9. ASSUME NEW r \in Request, Issue(r) \/ Rescan(r) \/ Drop(r) PROVE CodesInv'
  <2>1. Uncounted' \subseteq Uncounted
    BY <1>9, GotoFrame DEF Issue, Rescan, Drop, Done, Uncounted
  <2> QED
    BY <1>9, <1>c, <2>1 DEF Issue, Rescan, Drop, rowVars
<1>10. CASE UNCHANGED vars
  BY <1>10, <1>c DEF vars, rowVars, Uncounted
<1> QED
  BY <1>1, <1>2, <1>3, <1>4, <1>5, <1>6, <1>7, <1>8, <1>9, <1>10 DEF Next, Handler

-----------------------------------------------------------------------------

LEMMA Started == Init => TypeOK /\ HandshakeInv /\ CodesInv
<1> SUFFICES ASSUME Init PROVE TypeOK /\ HandshakeInv /\ CodesInv
  OBVIOUS
<1>1. TypeOK
  <2>1. expired \in BOOLEAN /\ owner \in SUBSET User /\ mayEnter \in SUBSET User
    BY Zenon DEF Init
  <2>2. status \in Status /\ attempts \in 0..MaxAttempts /\ wrong \in Nat
    BY ConstantsAssumption DEF Init, Status
  <2>3. /\ pc \in [Request -> PCs] /\ actor \in [Request -> SUBSET User]
        /\ given \in [User -> Nat]
    BY DEF Init, PCs
  <2> QED
    BY <2>1, <2>2, <2>3 DEF TypeOK
<1>2. HandshakeInv
  BY DEF Init, HandshakeInv, OwnerInv, ScannerInv, IssueInv
<1>3. Uncounted = {}
  BY DEF Init, Uncounted
<1>4. CodesInv
  <2>1. Cardinality(Uncounted) = 0
    BY <1>3, FS_EmptySet
  <2> QED
    BY <1>3, <2>1, UncountedFinite, ConstantsAssumption DEF Init, CodesInv
<1> QED
  BY <1>1, <1>2, <1>4

\* Type correctness, with the wrong-code counter never past its limit (record_wrong_code), and
\* with it the two inductive invariants.
THEOREM Inductive == Spec => [](TypeOK /\ HandshakeInv /\ CodesInv)
  BY Started, TypeStep, HandshakeStep, CodesStep, PTL DEF Spec

\* TypeOK for every number of requests, users and attempts.
THEOREM TypeCorrect == Spec => []TypeOK
  BY Inductive, PTL

\* A session answers no more wrong codes than the limit and those under way when it was reached.
THEOREM WrongCodesBounded == Spec => []WrongCodesAreBounded
<1>1. TypeOK /\ CodesInv => WrongCodesAreBounded
  BY UncountedFinite, ConstantsAssumption DEF TypeOK, CodesInv, WrongCodesAreBounded
<1> QED
  BY <1>1, Inductive, PTL

-----------------------------------------------------------------------------
(* QrLogin implements QrHandshake: each step is a step of the handshake, or invisible to it. *)

LEMMA HandshakeSteps ==
  TypeOK /\ HandshakeInv /\ [Next]_vars => [Handshake!HNext]_(Handshake!hvars)
<1> SUFFICES ASSUME TypeOK, HandshakeInv, [Next]_vars
             PROVE  Handshake!HNext \/ UNCHANGED Handshake!hvars
  OBVIOUS
\* A request that neither starts nor ends handing over a token.
<1>a. ASSUME NEW r \in Request, pc[r] # "issue", pc'[r] # "issue",
             \A q \in Request : q # r => pc'[q] = pc[q]
      PROVE  Due' = Due
  BY <1>a DEF Due
\* The one request that hands it over.
<1>b. ASSUME NEW r \in Request, pc[r] = "issue", pc'[r] # "issue",
             \A q \in Request : q # r => pc'[q] = pc[q]
      PROVE  Due /\ Due' = FALSE
  BY <1>b DEF Due, HandshakeInv, IssueInv
<1>1. CASE Create
  BY <1>1 DEF Create, Handshake!HNext, Handshake!Create, Due
<1>2. CASE Expire
  BY <1>2 DEF Expire, Handshake!hvars, Due
<1>3. CASE Cleanup
  BY <1>3 DEF Cleanup, Handshake!HNext, Handshake!Forget, Handshake!hvars, Due
<1>4. ASSUME NEW u \in User, ToggleUser(u) PROVE UNCHANGED Handshake!hvars
  BY <1>4 DEF ToggleUser, Handshake!hvars, Due, rowVars
<1>5. ASSUME NEW r \in Request, NEW u \in User, ScanRead(r, u) \/ ApproveRead(r, u) \/ RejectRead(r, u)
      PROVE UNCHANGED Handshake!hvars
  <2>1. Due' = Due
    BY <1>5, <1>a, GotoFrame DEF ScanRead, ApproveRead, RejectRead
  <2> QED
    BY <1>5, <2>1 DEF ScanRead, ApproveRead, RejectRead, Handshake!hvars, rowVars
<1>6. ASSUME NEW r \in Request, MarkScanned(r)
      PROVE Handshake!HNext \/ UNCHANGED Handshake!hvars
  <2>1. Due' = Due
    BY <1>6, <1>a, GotoFrame DEF MarkScanned, Done
  <2>2. CASE Markable
    <3>1. PICK u \in User : actor[r] = {u}
      BY <1>6 DEF MarkScanned, HandshakeInv, ScannerInv
    <3>2. Handshake!ScanBy(u)
      BY <1>6, <2>1, <2>2, <3>1 DEF MarkScanned, Markable, Handshake!ScanBy
    <3> QED
      BY <3>2 DEF Handshake!HNext
  <2>3. CASE ~Markable
    BY <1>6, <2>1, <2>3 DEF MarkScanned, Handshake!hvars
  <2> QED
    BY <2>2, <2>3
<1>7. ASSUME NEW r \in Request, RecordWrongCode(r) \/ ResolveApproved(r) \/ ResolveRejected(r)
      PROVE Handshake!HNext \/ UNCHANGED Handshake!hvars
  <2>1. Due' = Due
    BY <1>7, <1>a, GotoFrame DEF RecordWrongCode, ResolveApproved, ResolveRejected, Done
  <2>2. UNCHANGED <<owner, given>>
    BY <1>7 DEF RecordWrongCode, ResolveApproved, ResolveRejected
  <2>3. status' = status \/ (status = "scanned" /\ status' \in {"approved", "rejected"})
    BY <1>7 DEF RecordWrongCode, ResolveApproved, ResolveRejected, Resolvable
  <2> QED
    BY <2>1, <2>2, <2>3 DEF Handshake!HNext, Handshake!Decide, Handshake!hvars
<1>8. ASSUME NEW r \in Request, PollRead(r) \/ Rescan(r) PROVE UNCHANGED Handshake!hvars
  <2>1. Due' = Due
    BY <1>8, <1>a, GotoFrame DEF PollRead, Rescan, Done
  <2> QED
    BY <1>8, <2>1 DEF PollRead, Rescan, Handshake!hvars, rowVars
<1>9. ASSUME NEW r \in Request, Consume(r)
      PROVE Handshake!HNext \/ UNCHANGED Handshake!hvars
  <2>1. CASE status = "approved" /\ ~expired
    <3>1. Due'
      BY <1>9, <2>1, GotoFrame DEF Consume, Due
    <3> QED
      BY <1>9, <2>1, <3>1 DEF Consume, Handshake!HNext, Handshake!Collect
  <2>2. CASE ~(status = "approved" /\ ~expired)
    <3>1. Due' = Due
      BY <1>9, <2>2, <1>a, GotoFrame DEF Consume, Done
    <3> QED
      BY <1>9, <2>2, <3>1 DEF Consume, Handshake!hvars
  <2> QED
    BY <2>1, <2>2
<1>10. ASSUME NEW r \in Request, Issue(r) PROVE Handshake!HNext
  <2>1. Due /\ Due' = FALSE
    <3>1. pc[r] = "issue" /\ pc'[r] # "issue" /\ \A q \in Request : q # r => pc'[q] = pc[q]
      BY <1>10, GotoFrame DEF Issue, Done
    <3> QED
      BY <1>b, <3>1
  <2>2. PICK u \in User : owner = {u} /\ actor[r] = {u}
    BY <1>10 DEF Issue, HandshakeInv, IssueInv
  <2>3. UNCHANGED <<status, owner>>
    BY <1>10 DEF Issue, rowVars
  <2>4. CASE u \in mayEnter
    <3>1. given' = [given EXCEPT ![u] = @ + 1]
      BY <1>10, <2>2, <2>4 DEF Issue, TypeOK
    <3> QED
      BY <2>1, <2>2, <2>3, <3>1 DEF Handshake!HNext, Handshake!HandOver
  <2>5. CASE u \notin mayEnter
    <3>1. given' = given
      BY <1>10, <2>2, <2>5 DEF Issue, TypeOK
    <3> QED
      BY <2>1, <2>3, <3>1 DEF Handshake!HNext, Handshake!Lose
  <2> QED
    BY <2>4, <2>5
<1>11. ASSUME NEW r \in Request, Drop(r)
       PROVE Handshake!HNext \/ UNCHANGED Handshake!hvars
  <2>1. UNCHANGED <<status, owner, given>>
    BY <1>11 DEF Drop, rowVars
  <2>2. CASE pc[r] = "issue"
    <3>1. Due /\ Due' = FALSE
      BY <1>11, <1>b, <2>2, GotoFrame DEF Drop, Done
    <3> QED
      BY <2>1, <3>1 DEF Handshake!HNext, Handshake!Lose
  <2>3. CASE pc[r] # "issue"
    <3>1. Due' = Due
      BY <1>11, <1>a, <2>3, GotoFrame DEF Drop, Done
    <3> QED
      BY <2>1, <3>1 DEF Handshake!hvars
  <2> QED
    BY <2>2, <2>3
<1>12. CASE UNCHANGED vars
  BY <1>12 DEF vars, rowVars, Handshake!hvars, Due
<1> QED
  BY <1>1, <1>2, <1>3, <1>4, <1>5, <1>6, <1>7, <1>8, <1>9, <1>10, <1>11, <1>12 DEF Next, Handler

\* However phones and polls race, the session goes through its states in order, has one owner,
\* and yields one token at most, for the owner (consume: "handed out exactly once").
THEOREM Implements == Spec => KeepsHandshake
<1>1. Init => Handshake!HInit
  BY DEF Init, Handshake!HInit, Due
<1> QED
  BY <1>1, HandshakeSteps, Inductive, PTL DEF Spec, KeepsHandshake, Handshake!HSpec

=============================================================================
