------------------------ MODULE PublicEndpointProofs ------------------------
(***************************************************************************)
(* The way of a request anybody may make: past the rate limiter, into      *)
(* password sign-in and reset, and out as a mail.  Three specifications,   *)
(* each over variables of its own.                                         *)
(*                                                                         *)
(* PasswordLogin, for any number of concurrent requests and any limits:    *)
(* reset links work once, sessions die with their password, and the        *)
(* lockout and the limit on reset mails are passed by no more than the     *)
(* requests under way.                                                     *)
(*                                                                         *)
(* RateLimiter, for any clients, headers, table size, window and limit: no *)
(* client is let in two windows' worth of times within a window, and only  *)
(* its own requests are held against it.                                   *)
(*                                                                         *)
(* MailOutbox, for any number of mails, starts, retries and failed         *)
(* statements: a stored mail stays in the table until a delivery of it has *)
(* come to an end, and no mail is delivered more often than processes      *)
(* could find it.                                                          *)
(***************************************************************************)
EXTENDS PasswordLogin, RateLimiter, MailOutbox, FiniteSetTheorems, TLAPS


\* The strengthening of TokensWorkOnce that each statement preserves.
TokensInv == \A t \in Token : uses[t] <= 1 /\ (tokens[t] # "used" => uses[t] = 0)

\* A JWT carries the version of the password that was shown for it.
SessionsInv == \A s \in sessions : s.tv = s.proven

\* The requests that have checked a wrong password and not counted it yet.
Failing == {r \in Request : pc[r] = "record_failed"}

\* While the account is open the counter bounds the wrong passwords refused; when it is locked,
\* only the requests that were past the check are left.
GuessInv == /\ ~acct.locked => /\ acct.fails < MaxFailed => guesses <= acct.fails
                               /\ acct.fails = MaxFailed => guesses = 0
            /\ guesses + Cardinality(Failing) <= MaxFailed - 1 + Cardinality(Request)

\* The requests that found the account under the limit and have not inserted their token yet.
Issuing == {r \in Request : pc[r] \in {"invalidate", "insert"}}

ResetInv == Cardinality(Issued) + Cardinality(Issuing) <= MaxResets - 1 + Cardinality(Request)

-----------------------------------------------------------------------------
(* The statements on auth_tokens *)

\* Every statement keeps the table well formed and its tokens single-use.
LEMMA StatementsKeepTokens ==
  ASSUME TokensTypeOK, TokensInv,
         \/ \E t \in Token : Insert(t) \/ Claim(t) \/ Lapse(t)
         \/ InvalidateUnused
         \/ UNCHANGED tokenVars
  PROVE  TokensTypeOK' /\ TokensInv'
<1> USE DEF TokensTypeOK, TokensInv
<1>1. ASSUME NEW t \in Token, Insert(t) PROVE TokensTypeOK' /\ TokensInv'
  BY <1>1 DEF Insert
<1>2. ASSUME NEW t \in Token, Claim(t) PROVE TokensTypeOK' /\ TokensInv'
  BY <1>2 DEF Claim, Claimable, Live
<1>3. ASSUME NEW t \in Token, Lapse(t) PROVE TokensTypeOK' /\ TokensInv'
  BY <1>3 DEF Lapse, Live
<1>4. CASE InvalidateUnused
  BY <1>4 DEF InvalidateUnused, Live
<1>5. CASE UNCHANGED tokenVars
  BY <1>5 DEF tokenVars
<1> QED
  BY <1>1, <1>2, <1>3, <1>4, <1>5

\* Only an insert adds a acc, and it adds one.
LEMMA InsertIssuesOne ==
  ASSUME TokensTypeOK, NEW t \in Token, Insert(t), IsFiniteSet(Token)
  PROVE  Cardinality(Issued') = Cardinality(Issued) + 1
<1>1. Issued' = Issued \cup {t} /\ t \notin Issued
  BY DEF TokensTypeOK, Insert, Issued
<1>2. IsFiniteSet(Issued)
  BY FS_Subset DEF Issued
<1> QED
  BY <1>1, <1>2, FS_AddElement

LEMMA OthersIssueNone ==
  ASSUME TokensTypeOK,
         \/ \E t \in Token : Claim(t) \/ Lapse(t)
         \/ InvalidateUnused
         \/ UNCHANGED tokenVars
  PROVE  Issued' = Issued
<1> USE DEF TokensTypeOK, Issued
<1>1. ASSUME NEW t \in Token, Claim(t) \/ Lapse(t) PROVE Issued' = Issued
  BY <1>1 DEF Claim, Claimable, Lapse, Live
<1>2. CASE InvalidateUnused
  BY <1>2 DEF InvalidateUnused, Live
<1>3. CASE UNCHANGED tokenVars
  BY <1>3 DEF tokenVars
<1> QED
  BY <1>1, <1>2, <1>3

LEMMA IssuedFinite ==
  ASSUME IsFiniteSet(Token)
  PROVE  IsFiniteSet(Issued) /\ Cardinality(Issued) \in Nat
  BY FS_Subset, FS_CardinalityType DEF Issued

LEMMA TokensStarted ==
  ASSUME TokensInit
  PROVE  TokensTypeOK /\ TokensInv /\ Issued = {}
  BY DEF TokensInit, TokensTypeOK, TokensInv, Issued

-----------------------------------------------------------------------------
(* The requests *)

LEMMA NoLocTyped == NoLoc \in LocType
  BY ConstantsAssumption DEF NoLoc, LocType, Version

LEMMA RowTyped ==
  ASSUME NEW acc \in AcctType, NEW n \in 0..MaxFailed, NEW b \in BOOLEAN
  PROVE  /\ [acc EXCEPT !.fails = n, !.locked = b] \in AcctType
         /\ [acc EXCEPT !.locked = b] \in AcctType
         /\ [acc EXCEPT !.active = b] \in AcctType
         /\ [acc EXCEPT !.verified = b] \in AcctType
  BY DEF AcctType

\* The same for the values the statements write.
LEMMA RowsWritten ==
  ASSUME NEW acc \in AcctType
  PROVE  /\ [acc EXCEPT !.fails = 0, !.locked = FALSE] \in AcctType
         /\ [acc EXCEPT !.locked = FALSE] \in AcctType
         /\ [acc EXCEPT !.active = ~@] \in AcctType
         /\ [acc EXCEPT !.verified = TRUE] \in AcctType
<1>1. 0 \in 0..MaxFailed
  BY ConstantsAssumption
<1>2. TRUE \in BOOLEAN /\ FALSE \in BOOLEAN /\ (~acc.active) \in BOOLEAN
  BY Zenon
<1> QED
  BY <1>1, <1>2, RowTyped, Zenon

LEMMA SetsFinite == /\ Cardinality(Request) \in Nat
                    /\ IsFiniteSet(Failing) /\ Cardinality(Failing) \in Nat
                    /\ Cardinality(Failing) <= Cardinality(Request)
                    /\ IsFiniteSet(Issuing) /\ Cardinality(Issuing) \in Nat
                    /\ Cardinality(Issuing) <= Cardinality(Request)
<1>1. Failing \in SUBSET Request /\ Issuing \in SUBSET Request
  BY DEF Failing, Issuing
<1> QED
  BY <1>1, ConstantsAssumption, FS_Subset, FS_CardinalityType

LEMMA SetsFinite2 == /\ IsFiniteSet(Failing') /\ Cardinality(Failing') \in Nat
                     /\ Cardinality(Failing') <= Cardinality(Request)
                     /\ IsFiniteSet(Issuing') /\ Cardinality(Issuing') \in Nat
                     /\ Cardinality(Issuing') <= Cardinality(Request)
<1>1. Failing' \in SUBSET Request /\ Issuing' \in SUBSET Request
  BY DEF Failing, Issuing
<1> QED
  BY <1>1, ConstantsAssumption, FS_Subset, FS_CardinalityType

\* Where a request goes, the others stay where they are.
LEMMA Frame ==
  ASSUME TypeOK, NEW r \in Request, NEW label \in PCs,
         pc' = [pc EXCEPT ![r] = label]
  PROVE  /\ pc' \in [Request -> PCs] /\ pc'[r] = label
         /\ \A q \in Request : q # r => pc'[q] = pc[q]
  BY DEF TypeOK

-----------------------------------------------------------------------------

\* The tokens are only ever changed by the statements of OneTimeTokens.
LEMMA TokensStep == TokensTypeOK /\ TokensInv /\ [Next]_vars => TokensTypeOK' /\ TokensInv'
<1> SUFFICES ASSUME TokensTypeOK, TokensInv, [Next]_vars PROVE TokensTypeOK' /\ TokensInv'
  OBVIOUS
<1>1. \/ \E t \in Token : Insert(t) \/ Claim(t) \/ Lapse(t)
      \/ InvalidateUnused
      \/ UNCHANGED tokenVars
  <2>1. ASSUME NEW r \in Request, Handler(r) \/ Drop(r) PROVE <1>1!:
    BY <2>1 DEF Handler, Drop, LoginRead, RecordFailedLogin, ResetFailedLogins, ForgotRead,
                CountResets, Invalidate, InsertToken, ResetClaim, ResetUser, ResetPassword,
                MarkVerified, FinishReset, ChangeRead, ChangePassword
  <2>2. CASE Expire \/ LockExpires \/ ToggleActive
    BY <2>2 DEF Expire, LockExpires, ToggleActive
  <2>3. CASE UNCHANGED vars
    BY <2>3 DEF vars
  <2> QED
    BY <2>1, <2>2, <2>3 DEF Next
<1> QED
  BY <1>1, StatementsKeepTokens

LEMMA TypeStep == TypeOK /\ TokensInv /\ [Next]_vars => TypeOK'
<1> SUFFICES ASSUME TypeOK, TokensInv, [Next]_vars PROVE TypeOK'
  OBVIOUS
<1>t. TokensTypeOK'
  BY TokensStep DEF TypeOK
<1> USE <1>t, NoLocTyped, ConstantsAssumption DEF TypeOK
<1>1. ASSUME NEW r \in Request, LoginRead(r) PROVE TypeOK'
  <2>1. [tv |-> acct.tv, mayEnter |-> MayEnter] \in LocType
    BY DEF LocType, AcctType, MayEnter
  <2> QED
    BY <1>1, <2>1 DEF LoginRead, Goto, PCs
<1>2. ASSUME NEW r \in Request, RecordFailedLogin(r) PROVE TypeOK'
  <2>1. CountFailure(acct) \in AcctType
    <3>1. PICK n \in 0..MaxFailed : n = IF acct.fails < MaxFailed THEN acct.fails + 1 ELSE acct.fails
      BY DEF AcctType
    <3>2. PICK b \in BOOLEAN : b = IF acct.fails + 1 >= MaxFailed THEN TRUE ELSE acct.locked
      BY DEF AcctType
    <3> QED
      BY <3>1, <3>2, RowTyped DEF CountFailure
  <2> QED
    BY <1>2, <2>1 DEF RecordFailedLogin, Done, PCs
<1>3. ASSUME NEW r \in Request, ResetFailedLogins(r) PROVE TypeOK'
  <2>1. LoginSession(loc[r]) \in SessionType
    BY DEF LoginSession, SessionType, LocType
  <2>2. [acct EXCEPT !.fails = 0, !.locked = FALSE] \in AcctType
    BY RowsWritten
  <2> QED
    BY <1>3, <2>1, <2>2 DEF ResetFailedLogins, Done, PCs
<1>4. ASSUME NEW r \in Request,
             \/ ForgotRead(r) \/ CountResets(r) \/ Invalidate(r) \/ InsertToken(r)
             \/ ResetClaim(r) \/ ResetUser(r) \/ FinishReset(r) \/ ChangeRead(r) \/ Drop(r)
      PROVE TypeOK'
  BY <1>4 DEF ForgotRead, CountResets, Invalidate, InsertToken, ResetClaim, ResetUser,
              FinishReset, ChangeRead, Drop, Goto, Done, PCs
<1>5. ASSUME NEW r \in Request, ResetPassword(r) \/ ChangePassword(r) PROVE TypeOK'
  <2>1. acct.tv < MaxVersion => NewPassword(acct) \in AcctType
    BY DEF NewPassword, AcctType, Version
  <2> QED
    BY <1>5, <2>1 DEF ResetPassword, ChangePassword, Goto, Done, PCs
<1>6. ASSUME NEW r \in Request, MarkVerified(r) PROVE TypeOK'
  BY <1>6, RowsWritten DEF MarkVerified, Goto, PCs
<1>7. CASE Expire
  BY <1>7 DEF Expire
<1>8. CASE LockExpires \/ ToggleActive
  <2>1. acct' \in AcctType
    BY <1>8, RowsWritten, Zenon DEF LockExpires, ToggleActive
  <2> QED
    BY <1>8, <2>1 DEF LockExpires, ToggleActive
<1>9. CASE UNCHANGED vars
  BY <1>9 DEF vars
<1> QED
  BY <1>1, <1>2, <1>3, <1>4, <1>5, <1>6, <1>7, <1>8, <1>9 DEF Next, Handler

-----------------------------------------------------------------------------

LEMMA SessionsStep == SessionsInv /\ [Next]_vars => SessionsInv'
<1> SUFFICES ASSUME SessionsInv, [Next]_vars PROVE SessionsInv'
  OBVIOUS
<1> USE DEF SessionsInv
<1>1. ASSUME NEW r \in Request, ResetFailedLogins(r) PROVE SessionsInv'
  BY <1>1 DEF ResetFailedLogins, LoginSession
<1>2. ASSUME NEW r \in Request, Handler(r) \/ Drop(r), ~ResetFailedLogins(r) PROVE SessionsInv'
  BY <1>2 DEF Handler, Drop, LoginRead, RecordFailedLogin, ForgotRead, CountResets, Invalidate,
              InsertToken, ResetClaim, ResetUser, ResetPassword, MarkVerified, FinishReset,
              ChangeRead, ChangePassword
<1>3. CASE Expire \/ LockExpires \/ ToggleActive
  BY <1>3 DEF Expire, LockExpires, ToggleActive
<1>4. CASE UNCHANGED vars
  BY <1>4 DEF vars
<1> QED
  BY <1>1, <1>2, <1>3, <1>4 DEF Next, Handler

-----------------------------------------------------------------------------

\* The account is locked when the last allowed failure is counted, so the sum of the wrong
\* passwords refused and of those still to be counted never passes the bound.
LEMMA GuessStep == TypeOK /\ GuessInv /\ [Next]_vars => GuessInv'
<1> SUFFICES ASSUME TypeOK, GuessInv, [Next]_vars PROVE GuessInv'
  OBVIOUS
<1>a. /\ Cardinality(Failing) \in Nat /\ Cardinality(Failing') \in Nat
      /\ Cardinality(Request) \in Nat /\ Cardinality(Failing') <= Cardinality(Request)
  BY SetsFinite, SetsFinite2
<1>m. MaxFailed \in Nat /\ MaxFailed > 0 /\ guesses \in Nat /\ acct.fails \in 0..MaxFailed
  BY ConstantsAssumption DEF TypeOK, AcctType
\* A step that lets no wrong password in and leaves the counter and the lock alone.
<1>b. ASSUME Failing' \subseteq Failing, acct'.fails = acct.fails, acct'.locked = acct.locked,
             guesses' = guesses
      PROVE GuessInv'
  <2>1. Cardinality(Failing') <= Cardinality(Failing)
    BY <1>b, SetsFinite, FS_Subset
  <2> QED
    BY <1>a, <1>b, <1>m, <2>1 DEF GuessInv
\* A step that starts the history again.
<1>c. ASSUME guesses' = 0, acct'.fails \in Nat PROVE GuessInv'
  BY <1>a, <1>c, <1>m DEF GuessInv
<1>1. ASSUME NEW r \in Request, LoginRead(r) PROVE GuessInv'
  <2>1. ~acct.locked /\ acct' = acct /\ guesses' = guesses
    BY <1>1 DEF LoginRead
  <2>2. guesses <= MaxFailed - 1
    BY <1>m, <2>1 DEF GuessInv
  <2> QED
    BY <1>a, <1>m, <2>1, <2>2 DEF GuessInv
<1>2. ASSUME NEW r \in Request, RecordFailedLogin(r) PROVE GuessInv'
  <2>1. r \in Failing /\ Failing' = Failing \ {r}
    BY <1>2 DEF RecordFailedLogin, Done, TypeOK, Failing
  <2>2. Cardinality(Failing') = Cardinality(Failing) - 1
    BY <2>1, SetsFinite, FS_RemoveElement
  <2>3. guesses' = guesses + 1 /\ acct' = CountFailure(acct)
    BY <1>2 DEF RecordFailedLogin
  <2>4. ~acct'.locked => ~acct.locked /\ acct.fails + 1 < MaxFailed /\ acct'.fails = acct.fails + 1
    BY <1>m, <2>3 DEF CountFailure, TypeOK, AcctType
  <2> QED
    BY <1>a, <1>m, <2>2, <2>3, <2>4 DEF GuessInv
<1>3. ASSUME NEW r \in Request, ResetFailedLogins(r) PROVE GuessInv'
  BY <1>3, <1>c DEF ResetFailedLogins, TypeOK, AcctType
<1>4. ASSUME NEW r \in Request,
             \/ ForgotRead(r) \/ CountResets(r) \/ Invalidate(r) \/ InsertToken(r)
             \/ ResetClaim(r) \/ ResetUser(r) \/ FinishReset(r) \/ ChangeRead(r) \/ Drop(r)
      PROVE GuessInv'
  <2>1. Failing' \subseteq Failing
    BY <1>4 DEF ForgotRead, CountResets, Invalidate, InsertToken, ResetClaim, ResetUser,
                FinishReset, ChangeRead, Drop, Goto, Done, TypeOK, Failing
  <2>2. acct' = acct /\ guesses' = guesses
    BY <1>4 DEF ForgotRead, CountResets, Invalidate, InsertToken, ResetClaim, ResetUser,
                FinishReset, ChangeRead, Drop
  <2> QED
    BY <1>b, <2>1, <2>2
<1>5. ASSUME NEW r \in Request, ResetPassword(r) \/ ChangePassword(r) \/ MarkVerified(r)
      PROVE GuessInv'
  <2>1. Failing' \subseteq Failing
    BY <1>5 DEF ResetPassword, ChangePassword, MarkVerified, Goto, Done, TypeOK, Failing
  <2>2. acct'.fails = acct.fails /\ acct'.locked = acct.locked /\ guesses' = guesses
    BY <1>5 DEF ResetPassword, ChangePassword, MarkVerified, NewPassword, TypeOK, AcctType
  <2> QED
    BY <1>b, <2>1, <2>2
<1>6. CASE Expire
  BY <1>6, <1>b DEF Expire, Failing
<1>7. CASE LockExpires
  BY <1>7, <1>c DEF LockExpires, TypeOK, AcctType
<1>8. CASE ToggleActive
  <2>1. acct'.fails = acct.fails /\ acct'.locked = acct.locked
    BY <1>8 DEF ToggleActive, TypeOK, AcctType
  <2> QED
    BY <1>8, <1>b, <2>1 DEF ToggleActive, Failing
<1>9. CASE UNCHANGED vars
  BY <1>9, <1>b DEF vars, Failing
<1> QED
  BY <1>1, <1>2, <1>3, <1>4, <1>5, <1>6, <1>7, <1>8, <1>9 DEF Next, Handler

-----------------------------------------------------------------------------

LEMMA ResetStep == TypeOK /\ ResetInv /\ [Next]_vars => ResetInv'
<1> SUFFICES ASSUME TypeOK, ResetInv, [Next]_vars PROVE ResetInv'
  OBVIOUS
<1>a. /\ Cardinality(Issuing) \in Nat /\ Cardinality(Issuing') \in Nat
      /\ Cardinality(Request) \in Nat /\ Cardinality(Issuing') <= Cardinality(Request)
      /\ Cardinality(Issued) \in Nat /\ MaxResets \in Nat
  BY SetsFinite, SetsFinite2, IssuedFinite, ConstantsAssumption
\* A step that inserts no token and lets no request past the count.
<1>b. ASSUME Issuing' \subseteq Issuing, Issued' = Issued PROVE ResetInv'
  <2>1. Cardinality(Issuing') <= Cardinality(Issuing)
    BY <1>b, SetsFinite, FS_Subset
  <2> QED
    BY <1>a, <1>b, <2>1 DEF ResetInv
<1>c. ASSUME UNCHANGED tokenVars \/ InvalidateUnused \/ \E t \in Token : Claim(t) \/ Lapse(t)
      PROVE Issued' = Issued
  BY <1>c, OthersIssueNone DEF TypeOK
<1>1. ASSUME NEW r \in Request, CountResets(r) PROVE ResetInv'
  <2>1. Issued' = Issued
    BY <1>1, <1>c DEF CountResets
  <2>2. CASE UnderResetLimit
    BY <1>a, <2>1, <2>2 DEF UnderResetLimit, ResetInv
  <2>3. CASE ~UnderResetLimit
    <3>1. Issuing' \subseteq Issuing
      BY <1>1, <2>3 DEF CountResets, Goto, TypeOK, Issuing
    <3> QED
      BY <1>b, <2>1, <3>1
  <2> QED
    BY <2>2, <2>3
<1>2. ASSUME NEW r \in Request, InsertToken(r) PROVE ResetInv'
  <2>1. r \in Issuing /\ Issuing' = Issuing \ {r}
    BY <1>2 DEF InsertToken, Done, TypeOK, Issuing
  <2>2. Cardinality(Issuing') = Cardinality(Issuing) - 1
    BY <2>1, SetsFinite, FS_RemoveElement
  <2>3. Cardinality(Issued') = Cardinality(Issued) + 1
    BY <1>2, InsertIssuesOne, ConstantsAssumption DEF InsertToken, TypeOK
  <2> QED
    BY <1>a, <2>2, <2>3 DEF ResetInv
<1>3. ASSUME NEW r \in Request, Handler(r) \/ Drop(r), ~CountResets(r), ~InsertToken(r)
      PROVE ResetInv'
  <2>1. Issuing' \subseteq Issuing
    BY <1>3 DEF Handler, Drop, LoginRead, RecordFailedLogin, ResetFailedLogins, ForgotRead,
                Invalidate, ResetClaim, ResetUser, ResetPassword, MarkVerified, FinishReset,
                ChangeRead, ChangePassword, Goto, Done, TypeOK, Issuing
  <2>2. Issued' = Issued
    BY <1>3, <1>c DEF Handler, Drop, LoginRead, RecordFailedLogin, ResetFailedLogins, ForgotRead,
                Invalidate, ResetClaim, ResetUser, ResetPassword, MarkVerified, FinishReset,
                ChangeRead, ChangePassword
  <2> QED
    BY <1>b, <2>1, <2>2
<1>4. CASE Expire \/ LockExpires \/ ToggleActive
  <2>1. Issuing' = Issuing
    BY <1>4 DEF Expire, LockExpires, ToggleActive, Issuing
  <2>2. Issued' = Issued
    BY <1>4, <1>c DEF Expire, LockExpires, ToggleActive
  <2> QED
    BY <1>b, <2>1, <2>2
<1>5. CASE UNCHANGED vars
  BY <1>5, <1>b, <1>c DEF vars, Issuing
<1> QED
  BY <1>1, <1>2, <1>3, <1>4, <1>5 DEF Next, Handler

-----------------------------------------------------------------------------

LEMMA Started == Init => TypeOK /\ TokensInv /\ SessionsInv /\ GuessInv /\ ResetInv
<1> SUFFICES ASSUME Init PROVE TypeOK /\ TokensInv /\ SessionsInv /\ GuessInv /\ ResetInv
  OBVIOUS
<1>1. TokensTypeOK /\ TokensInv /\ Issued = {}
  BY TokensStarted DEF Init
<1>2. PICK v \in BOOLEAN : acct = [tv |-> 0, active |-> TRUE, verified |-> v, fails |-> 0,
                                   locked |-> FALSE]
  BY DEF Init
<1>3. TypeOK
  <2>1. acct \in AcctType
    BY <1>2, ConstantsAssumption DEF AcctType, Version
  <2> QED
    BY <1>1, <2>1, NoLocTyped DEF Init, TypeOK, PCs
<1>4. Failing = {} /\ Issuing = {}
  BY DEF Init, Failing, Issuing
<1>5. Cardinality(Failing) = 0 /\ Cardinality(Issuing) = 0 /\ Cardinality(Issued) = 0
  BY <1>1, <1>4, FS_EmptySet
<1>6. GuessInv
  BY <1>2, <1>5, SetsFinite, ConstantsAssumption DEF Init, GuessInv
<1>7. ResetInv
  BY <1>5, SetsFinite, ConstantsAssumption DEF ResetInv
<1> QED
  BY <1>1, <1>3, <1>6, <1>7 DEF Init, SessionsInv

LEMMA Inductive == Spec => [](TypeOK /\ TokensInv /\ SessionsInv /\ GuessInv /\ ResetInv)
<1>1. TypeOK => TokensTypeOK
  BY DEF TypeOK
<1> QED
  BY <1>1, Started, TypeStep, TokensStep, SessionsStep, GuessStep, ResetStep, PTL DEF Spec

\* The acc, the tokens and the requests stay well formed.
THEOREM TypeCorrect == Spec => []TypeOK
  BY Inductive, PTL

\* A reset link is redeemed once at most, however many requests present it (claim).
THEOREM ResetLinksWorkOnce == Spec => []TokensWorkOnce
<1>1. TokensInv => TokensWorkOnce
  BY DEF TokensInv, TokensWorkOnce
<1> QED
  BY <1>1, Inductive, PTL

\* A session is refused once the password it was opened with is replaced, also when the login was
\* under way at that moment (set_password_hash bumps token_version).
THEOREM SessionsDie == Spec => []SessionsDieWithPassword
<1>1. SessionsInv => SessionsDieWithPassword
  BY DEF SessionsInv, SessionsDieWithPassword, Valid
<1> QED
  BY <1>1, Inductive, PTL

\* The lockout: wrong passwords refused between two unlockings (record_failed_login).
THEOREM GuessesBounded == Spec => []GuessesAreBounded
<1>1. TypeOK /\ GuessInv => GuessesAreBounded
  BY SetsFinite, ConstantsAssumption DEF TypeOK, GuessInv, GuessesAreBounded
<1> QED
  BY <1>1, Inductive, PTL

\* The limit on reset mails is passed by no more than the requests under way (forgot).
THEOREM ResetsBounded == Spec => []ResetsAreBounded
<1>1. ResetInv => ResetsAreBounded
  BY SetsFinite, IssuedFinite, ConstantsAssumption DEF ResetInv, ResetsAreBounded
<1> QED
  BY <1>1, Inductive, PTL

-----------------------------------------------------------------------------
(* The rate limiter *)

\* The points of a history, all of them and those of a stretch of ticks.
All(past) == Points(past, 0..Horizon)

Span == Window - 2 * MaxDelay

Within(P, t) == {p \in P : p[1] \in t..(t + Span - 1)}

\* One tick later.
Shift(P) == {p \in (1..Horizon) \X (Nat \ {0}) : <<p[1] - 1, p[2]>> \in P}

-----------------------------------------------------------------------------
(* Counting points *)

LEMMA LimiterConstants ==
  /\ Window \in Nat /\ Window >= 1 /\ MaxRequests \in Nat /\ MaxRequests >= 1
  /\ MaxDelay \in Nat /\ MaxDelay <= 1 /\ MaxTracked \in Nat /\ MaxAsked \in Nat
  /\ Horizon \in Nat /\ Horizon = Window + 2 * MaxDelay /\ Span \in Int
  BY LimiterAssumption DEF Horizon, Span

\* What the points of a history are; there are finitely many.
LEMMA PointsOf ==
  ASSUME NEW past \in Past, NEW T \in SUBSET (0..Horizon)
  PROVE  /\ Points(past, T) \subseteq T \X (Nat \ {0})
         /\ \A t, i : <<t, i>> \in Points(past, T) <=> t \in T /\ i \in 1..past[t]
         /\ IsFiniteSet(Points(past, T)) /\ Cardinality(Points(past, T)) \in Nat
<1>0. Horizon \in Nat /\ \A t \in T : past[t] \in Nat
  BY LimiterConstants DEF Past
<1>1. \A t \in T : 1..past[t] \subseteq Nat \ {0}
  BY <1>0
<1>2. Points(past, T) \subseteq T \X (Nat \ {0})
  <2> SUFFICES ASSUME NEW p \in Points(past, T) PROVE p \in T \X (Nat \ {0})
    OBVIOUS
  <2>1. PICK t \in T : p \in {t} \X (1..past[t])
    BY DEF Points
  <2> QED
    BY <1>1, <2>1
<1>3. ASSUME NEW t, NEW i
      PROVE  <<t, i>> \in Points(past, T) <=> t \in T /\ i \in 1..past[t]
  <2>1. ASSUME <<t, i>> \in Points(past, T) PROVE t \in T /\ i \in 1..past[t]
    <3>1. PICK u \in T : <<t, i>> \in {u} \X (1..past[u])
      BY <2>1 DEF Points
    <3>2. t = u /\ i \in 1..past[u]
      BY <3>1
    <3> QED
      BY <3>2
  <2>2. ASSUME t \in T, i \in 1..past[t] PROVE <<t, i>> \in Points(past, T)
    <3>1. <<t, i>> \in {t} \X (1..past[t])
      BY <2>2
    <3> QED
      BY <2>2, <3>1 DEF Points
  <2> QED
    BY <2>1, <2>2
<1>4. IsFiniteSet(Points(past, T))
  <2> DEFINE f == [t \in T |-> {t} \X (1..past[t])]
             S == {{t} \X (1..past[t]) : t \in T}
  <2>1. IsFiniteSet(T)
    <3>1. IsFiniteSet(0..Horizon)
      BY <1>0, FS_Interval
    <3> QED
      BY <3>1, FS_Subset
  <2>2. f \in Surjection(T, S)
    BY DEF Surjection
  <2>3. IsFiniteSet(S)
    BY <2>1, <2>2, FS_Surjection
  <2>4. ASSUME NEW X \in S PROVE IsFiniteSet(X)
    <3>1. PICK t \in T : X = {t} \X (1..past[t])
      OBVIOUS
    <3>2. IsFiniteSet({t})
      BY FS_Singleton
    <3>3. 1 \in Int /\ past[t] \in Int
      BY <1>0
    <3>4. IsFiniteSet(1..past[t])
      BY <3>3, FS_Interval
    <3> QED
      BY <3>1, <3>2, <3>4, FS_Product
  <2> QED
    BY <2>3, <2>4, FS_UNION DEF Points
<1> QED
  BY <1>2, <1>3, <1>4, FS_CardinalityType

LEMMA Finite ==
  ASSUME NEW P, IsFiniteSet(P), NEW Q \in SUBSET P
  PROVE  /\ IsFiniteSet(Q) /\ Cardinality(Q) \in Nat /\ Cardinality(P) \in Nat
         /\ Cardinality(Q) <= Cardinality(P)
  BY FS_Subset, FS_CardinalityType

\* A subset without one of the points is smaller.
LEMMA Smaller ==
  ASSUME NEW P, IsFiniteSet(P), NEW Q \in SUBSET P, NEW p \in P, p \notin Q
  PROVE  Cardinality(Q) < Cardinality(P)
<1>1. Cardinality(Q) # Cardinality(P)
  BY FS_Subset
<1> QED
  BY <1>1, Finite

\* Points that are split in two are counted apart.
LEMMA Parts ==
  ASSUME NEW P, IsFiniteSet(P), NEW Q \in SUBSET P
  PROVE  Cardinality(P) = Cardinality(Q) + Cardinality(P \ Q)
<1>1. P \cap Q = Q
  OBVIOUS
<1>2. Cardinality(P \ Q) = Cardinality(P) - Cardinality(Q)
  BY <1>1, FS_Difference
<1> QED
  BY <1>2, Finite

\* A tick makes no points, and loses those beyond the horizon only.
LEMMA Shifted ==
  ASSUME NEW P, IsFiniteSet(P), P \subseteq (0..Horizon) \X (Nat \ {0})
  PROVE  /\ IsFiniteSet(Shift(P)) /\ Cardinality(Shift(P)) <= Cardinality(P)
         /\ (\A p \in P : p[1] < Horizon) => Cardinality(Shift(P)) = Cardinality(P)
<1> DEFINE back == [p \in Shift(P) |-> <<p[1] - 1, p[2]>>]
<1>0. Horizon \in Nat
  BY LimiterConstants
<1>1. \A p \in Shift(P) : p = <<p[1], p[2]>> /\ p[1] \in 1..Horizon /\ p[2] \in Nat \ {0} /\ <<p[1] - 1, p[2]>> \in P
  BY DEF Shift
<1>2. back \in [Shift(P) -> P]
  BY <1>1
<1>3. ASSUME NEW p \in Shift(P), NEW q \in Shift(P), back[p] = back[q] PROVE p = q
  <2>1. p[1] - 1 = q[1] - 1 /\ p[2] = q[2]
    BY <1>3
  <2>2. p[1] \in Int /\ q[1] \in Int
    <3>1. 1..Horizon \subseteq Int
      BY <1>0
    <3> QED
      BY <1>1, <3>1, Zenon
  <2>3. \A m, n \in Int : m - 1 = n - 1 => m = n
    OBVIOUS
  <2>4. p[1] = q[1]
    BY <2>1, <2>2, <2>3
  <2> QED
    BY <1>1, <2>1, <2>4
<1>4. back \in Injection(Shift(P), P)
  BY <1>2, <1>3 DEF Injection, IsInjective
<1>5. /\ IsFiniteSet(Shift(P)) /\ Cardinality(Shift(P)) <= Cardinality(P)
      /\ Cardinality(Shift(P)) = Cardinality(P) <=> back \in Surjection(Shift(P), P)
  BY <1>4, FS_Injection
<1>6. ASSUME \A p \in P : p[1] < Horizon PROVE back \in Surjection(Shift(P), P)
  <2>1. ASSUME NEW p \in P PROVE \E q \in Shift(P) : back[q] = p
    <3>1. p = <<p[1], p[2]>> /\ p[1] \in 0..Horizon /\ p[2] \in Nat \ {0} /\ p[1] < Horizon
      BY <1>6
    <3> DEFINE q == <<p[1] + 1, p[2]>>
    <3>2. p[1] + 1 \in 1..Horizon /\ (p[1] + 1) - 1 = p[1]
      BY <1>0, <3>1
    <3>3. q \in Shift(P)
      BY <3>1, <3>2 DEF Shift
    <3>4. back[q] = p
      BY <3>1, <3>2, <3>3
    <3> QED
      BY <3>3, <3>4
  <2> QED
    BY <1>2, <2>1 DEF Surjection
<1> QED
  BY <1>5, <1>6

\* One more request at a tick is one more point.
LEMMA Added ==
  ASSUME NEW past \in Past, NEW now \in 0..Horizon, NEW T \in SUBSET (0..Horizon), now \in T
  PROVE  LET more == [past EXCEPT ![now] = @ + 1]
             new == <<now, past[now] + 1>>
         IN /\ more \in Past
            /\ Points(more, T) = Points(past, T) \cup {new}
            /\ new \notin Points(past, T) /\ new \in Points(more, T)
            /\ Cardinality(Points(more, T)) = Cardinality(Points(past, T)) + 1
<1> DEFINE more == [past EXCEPT ![now] = @ + 1]
           new == <<now, past[now] + 1>>
<1>1. past \in [0..Horizon -> Nat] /\ past[now] \in Nat
  BY DEF Past
<1>2. more \in Past /\ more[now] = past[now] + 1 /\ \A t \in 0..Horizon : t # now => more[t] = past[t]
  BY <1>1 DEF Past
<1>3. /\ Points(past, T) \subseteq T \X (Nat \ {0}) /\ Points(more, T) \subseteq T \X (Nat \ {0})
      /\ \A t, i : <<t, i>> \in Points(past, T) <=> t \in T /\ i \in 1..past[t]
      /\ \A t, i : <<t, i>> \in Points(more, T) <=> t \in T /\ i \in 1..more[t]
      /\ IsFiniteSet(Points(past, T)) /\ Cardinality(Points(past, T)) \in Nat
  BY <1>2, PointsOf
<1> HIDE DEF more
<1>4. \A i : i \in 1..more[now] <=> i \in 1..past[now] \/ i = past[now] + 1
  BY <1>1, <1>2
<1>5. past[now] + 1 \notin 1..past[now]
  BY <1>1
<1>6. new \notin Points(past, T) /\ new \in Points(more, T)
  BY <1>3, <1>4, <1>5
<1>7. ASSUME NEW t, NEW i
      PROVE  <<t, i>> \in Points(more, T) <=> <<t, i>> \in Points(past, T) \cup {new}
  <2>1. CASE t = now
    BY <1>3, <1>4, <2>1
  <2>2. CASE t # now
    <3>1. <<t, i>> # new
      BY <2>2
    <3>2. t \in T => more[t] = past[t]
      BY <1>2, <2>2
    <3> QED
      BY <1>3, <3>1, <3>2
  <2> QED
    BY <2>1, <2>2
<1>8. Points(more, T) = Points(past, T) \cup {new}
  <2>1. \A p \in Points(more, T) : p = <<p[1], p[2]>>
    BY <1>3
  <2>2. \A p \in Points(past, T) \cup {new} : p = <<p[1], p[2]>>
    BY <1>3
  <2> QED
    BY <1>7, <2>1, <2>2
<1>9. Cardinality(Points(more, T)) = Cardinality(Points(past, T)) + 1
  <2> HIDE DEF new
  <2>1. Cardinality(Points(past, T) \cup {new}) = Cardinality(Points(past, T)) + 1
    BY <1>3, <1>6, FS_AddElement
  <2> QED
    BY <1>8, <2>1
<1> QED
  BY <1>2, <1>6, <1>8, <1>9 DEF more

\* The history one tick later (older, in Tick).
Later(past) == [t \in 0..Horizon |-> IF t = 0 THEN 0 ELSE past[t - 1]]

LEMMA LaterPoints ==
  ASSUME NEW past \in Past, NEW x \in 0..Horizon, NEW y \in 0..Horizon,
         y = x + 1 \/ (x = Horizon /\ y = Horizon)
  PROVE  Later(past) \in Past /\ Points(Later(past), 0..y) = Shift(Points(past, 0..x))
<1> DEFINE late == Later(past)
<1>1. Horizon \in Nat /\ past \in [0..Horizon -> Nat] /\ x \in Nat /\ y \in Nat
  BY LimiterConstants DEF Past
<1>2. late \in Past /\ late[0] = 0 /\ \A t \in 1..Horizon : late[t] = past[t - 1]
  <2>1. \A t \in 0..Horizon : t # 0 => t - 1 \in 0..Horizon
    BY <1>1
  <2> QED
    BY <1>1, <2>1 DEF Later, Past
<1> HIDE DEF late
<1>3. /\ Points(past, 0..x) \subseteq (0..x) \X (Nat \ {0}) /\ Points(late, 0..y) \subseteq (0..y) \X (Nat \ {0})
      /\ \A t, i : <<t, i>> \in Points(past, 0..x) <=> t \in 0..x /\ i \in 1..past[t]
      /\ \A t, i : <<t, i>> \in Points(late, 0..y) <=> t \in 0..y /\ i \in 1..late[t]
  <2>1. 0..x \in SUBSET (0..Horizon) /\ 0..y \in SUBSET (0..Horizon)
    BY <1>1
  <2> QED
    BY <1>2, <2>1, PointsOf
<1>4. ASSUME NEW t, NEW i
      PROVE  <<t, i>> \in Points(late, 0..y) <=> <<t, i>> \in Shift(Points(past, 0..x))
  <2>1. <<t, i>> \in Shift(Points(past, 0..x))
           <=> t \in 1..Horizon /\ i \in Nat \ {0} /\ t - 1 \in 0..x /\ i \in 1..past[t - 1]
    BY <1>3 DEF Shift
  <2>2. t \in 0..y /\ i \in 1..late[t] => t \in 1..Horizon
    BY <1>1, <1>2
  <2>3. t \in 1..Horizon => (t \in 0..y <=> t - 1 \in 0..x)
    BY <1>1
  <2>4. t \in 1..Horizon => t - 1 \in 0..Horizon /\ late[t] = past[t - 1]
    BY <1>1, <1>2
  <2>5. t \in 1..Horizon => (i \in 1..late[t] => i \in Nat \ {0})
    BY <1>1, <2>4
  <2> QED
    BY <1>3, <2>1, <2>2, <2>3, <2>4, <2>5
<1>5. Points(late, 0..y) = Shift(Points(past, 0..x))
  <2>1. \A p \in Points(late, 0..y) : p = <<p[1], p[2]>>
    BY <1>3
  <2>2. \A p \in Shift(Points(past, 0..x)) : p = <<p[1], p[2]>>
    BY DEF Shift
  <2>3. ASSUME NEW p \in Points(late, 0..y) PROVE p \in Shift(Points(past, 0..x))
    <3>1. p = <<p[1], p[2]>>
      BY <2>1
    <3>2. <<p[1], p[2]>> \in Shift(Points(past, 0..x))
      BY <1>4, <3>1
    <3> QED
      BY <3>1, <3>2
  <2>4. ASSUME NEW p \in Shift(Points(past, 0..x)) PROVE p \in Points(late, 0..y)
    <3>1. p = <<p[1], p[2]>>
      BY <2>2
    <3>2. <<p[1], p[2]>> \in Points(late, 0..y)
      BY <1>4, <3>1
    <3> QED
      BY <3>1, <3>2
  <2> QED
    BY <2>3, <2>4
<1> QED
  BY <1>2, <1>5 DEF late

-----------------------------------------------------------------------------
(* Windows among the points *)

Grid == (0..Horizon) \X (Nat \ {0})

\* How the points P of what was let in fall into windows: cur are those of the latest window,
\* which started a ticks ago with the first of them.  The others are older, but for the delay at
\* the lock, and no stretch of ticks that reaches into the latest window holds a whole window
\* of them.
Windows(P, cur, a) ==
  /\ cur \subseteq P
  /\ Cardinality(cur) <= MaxRequests
  /\ a > Horizon => Cardinality(cur) < MaxRequests
  /\ a <= Horizon => \E p \in cur : p[1] = a
  /\ \A p \in cur : a - Window < p[1] /\ p[1] <= a + MaxDelay
  /\ \A p \in P \ cur : p[1] > a - MaxDelay
  /\ \A t \in Nat : Cardinality(Within(P \ cur, t)) < 2 * MaxRequests
  /\ \A t \in Nat : t <= a + MaxDelay => Cardinality(Within(P \ cur, t)) < MaxRequests

LEMMA WithinFinite ==
  ASSUME NEW P, IsFiniteSet(P), NEW t
  PROVE  Within(P, t) \subseteq P /\ IsFiniteSet(Within(P, t)) /\ Cardinality(Within(P, t)) \in Nat
<1>1. Within(P, t) \subseteq P
  BY DEF Within
<1> QED
  BY <1>1, Finite

\* No stretch holds two windows' worth of points.
LEMMA WindowsBound ==
  ASSUME NEW P, IsFiniteSet(P), P \subseteq Grid, NEW cur, NEW a \in Nat, Windows(P, cur, a),
         NEW t \in Nat
  PROVE  Cardinality(Within(P, t)) < 2 * MaxRequests
<1>0. IsFiniteSet(cur) /\ IsFiniteSet(P \ cur) /\ Cardinality(cur) \in Nat
  BY Finite DEF Windows
<1>1. /\ IsFiniteSet(Within(P, t)) /\ Cardinality(Within(P, t)) \in Nat
      /\ Cardinality(Within(cur, t)) \in Nat /\ Cardinality(Within(P \ cur, t)) \in Nat
      /\ Cardinality(Within(cur, t)) <= Cardinality(cur)
  BY <1>0, WithinFinite, Finite
<1>2. Within(cur, t) \in SUBSET Within(P, t) /\ Within(P, t) \ Within(cur, t) = Within(P \ cur, t)
  BY DEF Within, Windows
<1>3. Cardinality(Within(P, t)) = Cardinality(Within(cur, t)) + Cardinality(Within(P \ cur, t))
  BY <1>1, <1>2, Parts
<1>4. CASE t <= a + MaxDelay
  <2>1. Cardinality(Within(P \ cur, t)) < MaxRequests /\ Cardinality(cur) <= MaxRequests
    BY <1>4 DEF Windows
  <2>2. \A w, c, q, m, n \in Nat : w = c + q /\ c <= n /\ n <= m /\ q < m => w < 2 * m
    OBVIOUS
  <2> QED
    BY <1>0, <1>1, <1>3, <2>1, <2>2, LimiterConstants
<1>5. CASE ~(t <= a + MaxDelay)
  <2>1. ASSUME NEW p \in Within(cur, t) PROVE FALSE
    <3>1. p \in cur /\ p[1] \in t..(t + Span - 1)
      BY <2>1 DEF Within
    <3>2. p[1] <= a + MaxDelay /\ p[1] \in 0..Horizon
      BY <3>1 DEF Windows, Grid
    <3> QED
      BY <1>5, <3>1, <3>2, LimiterConstants
  <2>2. Within(cur, t) = {}
    BY <2>1
  <2>3. Cardinality(Within(cur, t)) = 0
    BY <2>2, FS_EmptySet
  <2> QED
    <3>1. Cardinality(Within(P \ cur, t)) < 2 * MaxRequests
      BY DEF Windows
    <3>2. Cardinality(Within(P, t)) = Cardinality(Within(P \ cur, t))
      BY <1>1, <1>3, <2>3
    <3> QED
      BY <3>1, <3>2
<1> QED
  BY <1>4, <1>5

\* A tick keeps the windows.
LEMMA WindowsLater ==
  ASSUME NEW P, IsFiniteSet(P), P \subseteq Grid, NEW cur, NEW a \in Nat, Windows(P, cur, a)
  PROVE  Windows(Shift(P), Shift(cur), a + 1)
<1>0. /\ IsFiniteSet(cur) /\ cur \subseteq P /\ cur \subseteq Grid /\ Cardinality(cur) \in Nat
      /\ IsFiniteSet(P \ cur) /\ P \ cur \subseteq Grid
  BY Finite DEF Windows
<1>1. /\ IsFiniteSet(Shift(cur)) /\ Cardinality(Shift(cur)) \in Nat
      /\ Cardinality(Shift(cur)) <= Cardinality(cur)
  BY <1>0, Shifted, FS_CardinalityType DEF Grid
<1>2. Shift(cur) \subseteq Shift(P) /\ Shift(P) \ Shift(cur) = Shift(P \ cur)
  BY <1>0 DEF Shift
<1>3. Cardinality(Shift(cur)) <= MaxRequests
  BY <1>0, <1>1, LimiterConstants DEF Windows
<1>4. ASSUME a + 1 > Horizon PROVE Cardinality(Shift(cur)) < MaxRequests
  <2>1. CASE a > Horizon
    BY <1>0, <1>1, <2>1, LimiterConstants DEF Windows
  <2>2. CASE a = Horizon
    <3>1. PICK p \in cur : p[1] = a
      BY <2>2, LimiterConstants DEF Windows
    <3>2. Shift(cur) = Shift(cur \ {p})
      <4>1. ASSUME NEW q \in Shift(cur) PROVE <<q[1] - 1, q[2]>> # p
        <5>1. q[1] \in 1..Horizon
          BY DEF Shift
        <5>2. q[1] - 1 # Horizon
          BY <5>1, LimiterConstants
        <5> QED
          BY <2>2, <3>1, <5>2
      <4> QED
        BY <4>1 DEF Shift
    <3>3. IsFiniteSet(cur \ {p}) /\ cur \ {p} \subseteq Grid
      BY <1>0, Finite
    <3>4. Cardinality(Shift(cur)) <= Cardinality(cur \ {p}) /\ Cardinality(cur \ {p}) \in Nat
      BY <3>2, <3>3, Shifted, FS_CardinalityType DEF Grid
    <3>5. Cardinality(cur \ {p}) < Cardinality(cur)
      BY <1>0, Smaller
    <3> QED
      BY <1>0, <1>1, <3>4, <3>5, LimiterConstants DEF Windows
  <2> QED
    BY <1>4, <2>1, <2>2, LimiterConstants
<1>5. ASSUME a + 1 <= Horizon PROVE \E p \in Shift(cur) : p[1] = a + 1
  <2>1. PICK p \in cur : p[1] = a
    BY <1>5, LimiterConstants DEF Windows
  <2>2. p \in Grid /\ p = <<a, p[2]>> /\ p[2] \in Nat \ {0}
    BY <1>0, <2>1 DEF Grid
  <2> DEFINE q == <<a + 1, p[2]>>
  <2>3. a + 1 \in 1..Horizon /\ (a + 1) - 1 = a
    BY <1>5, LimiterConstants
  <2>4. q \in Shift(cur)
    BY <2>2, <2>3 DEF Shift
  <2> QED
    BY <2>4
<1>6. ASSUME NEW p \in Shift(cur) PROVE (a + 1) - Window < p[1] /\ p[1] <= (a + 1) + MaxDelay
  <2>1. p[1] \in 1..Horizon /\ <<p[1] - 1, p[2]>> \in cur
    BY DEF Shift
  <2>2. a - Window < p[1] - 1 /\ p[1] - 1 <= a + MaxDelay
    BY <2>1 DEF Windows
  <2> QED
    BY <2>1, <2>2, LimiterConstants
<1>7. ASSUME NEW p \in Shift(P \ cur) PROVE p[1] > (a + 1) - MaxDelay
  <2>1. p[1] \in 1..Horizon /\ <<p[1] - 1, p[2]>> \in P \ cur
    BY DEF Shift
  <2>2. p[1] - 1 > a - MaxDelay
    BY <2>1 DEF Windows
  <2> QED
    BY <2>1, <2>2, LimiterConstants
<1>8. ASSUME NEW t \in Nat
      PROVE  \E u \in Nat : /\ u <= t /\ (t <= (a + 1) + MaxDelay => u <= a + MaxDelay)
                             /\ Cardinality(Within(Shift(P \ cur), t)) <= Cardinality(Within(P \ cur, u))
                             /\ Cardinality(Within(Shift(P \ cur), t)) \in Nat
                             /\ Cardinality(Within(P \ cur, u)) \in Nat
  <2> DEFINE u == IF t = 0 THEN 0 ELSE t - 1
  <2>1. u \in Nat /\ u <= t /\ (t <= (a + 1) + MaxDelay => u <= a + MaxDelay) /\ t <= u + 1
    BY LimiterConstants
  <2> HIDE DEF u
  <2>2. /\ IsFiniteSet(Within(P \ cur, u)) /\ Within(P \ cur, u) \subseteq Grid
        /\ Cardinality(Within(P \ cur, u)) \in Nat
    BY <1>0, WithinFinite
  <2>3. /\ IsFiniteSet(Shift(Within(P \ cur, u)))
        /\ Cardinality(Shift(Within(P \ cur, u))) <= Cardinality(Within(P \ cur, u))
    BY <2>2, Shifted DEF Grid
  <2>4. ASSUME NEW p \in Within(Shift(P \ cur), t) PROVE p \in Shift(Within(P \ cur, u))
    <3>1. /\ p \in Shift(P \ cur) /\ p[1] \in t..(t + Span - 1) /\ p[1] \in 1..Horizon
          /\ <<p[1] - 1, p[2]>> \in P \ cur
      BY DEF Within, Shift
    <3>2. p[1] - 1 \in u..(u + Span - 1)
      BY <2>1, <3>1, LimiterConstants DEF u
    <3>3. <<p[1] - 1, p[2]>> \in Within(P \ cur, u)
      BY <3>1, <3>2 DEF Within
    <3> QED
      BY <3>1, <3>3 DEF Shift
  <2>5. Within(Shift(P \ cur), t) \in SUBSET Shift(Within(P \ cur, u))
    BY <2>4
  <2>6. /\ Cardinality(Within(Shift(P \ cur), t)) <= Cardinality(Shift(Within(P \ cur, u)))
        /\ Cardinality(Within(Shift(P \ cur), t)) \in Nat /\ Cardinality(Shift(Within(P \ cur, u))) \in Nat
    BY <2>3, <2>5, Finite
  <2> QED
    BY <2>1, <2>2, <2>3, <2>6
<1>9. ASSUME NEW t \in Nat
      PROVE  /\ Cardinality(Within(Shift(P \ cur), t)) < 2 * MaxRequests
             /\ t <= (a + 1) + MaxDelay => Cardinality(Within(Shift(P \ cur), t)) < MaxRequests
  <2>1. PICK u \in Nat : /\ u <= t /\ (t <= (a + 1) + MaxDelay => u <= a + MaxDelay)
                         /\ Cardinality(Within(Shift(P \ cur), t)) <= Cardinality(Within(P \ cur, u))
                         /\ Cardinality(Within(Shift(P \ cur), t)) \in Nat
                         /\ Cardinality(Within(P \ cur, u)) \in Nat
    BY <1>8
  <2>2. Cardinality(Within(P \ cur, u)) < 2 * MaxRequests
    BY DEF Windows
  <2>3. u <= a + MaxDelay => Cardinality(Within(P \ cur, u)) < MaxRequests
    BY DEF Windows
  <2>4. \A c, d, m \in Nat : c <= d => (d < m => c < m) /\ (d < 2 * m => c < 2 * m)
    OBVIOUS
  <2> QED
    BY <2>1, <2>2, <2>3, <2>4, LimiterConstants
<1> QED
  BY <1>2, <1>3, <1>4, <1>5, <1>6, <1>7, <1>9 DEF Windows

\* A request that is let in within the latest window is one of its points.
LEMMA WindowsMore ==
  ASSUME NEW P, IsFiniteSet(P), P \subseteq Grid, NEW cur, NEW a \in Nat, Windows(P, cur, a),
         NEW new \in Grid, new \notin P, new[1] <= MaxDelay, a - Window < new[1],
         a <= Horizon, Cardinality(cur) < MaxRequests
  PROVE  /\ Windows(P \cup {new}, cur \cup {new}, a)
         /\ Cardinality(cur \cup {new}) = Cardinality(cur) + 1
<1>0. IsFiniteSet(cur) /\ cur \subseteq P /\ Cardinality(cur) \in Nat
  BY Finite DEF Windows
<1>1. new \notin cur
  BY <1>0
<1>2. Cardinality(cur \cup {new}) = Cardinality(cur) + 1
  BY <1>0, <1>1, FS_AddElement
<1>3. Cardinality(cur \cup {new}) <= MaxRequests
  BY <1>0, <1>2, LimiterConstants
<1>4. (P \cup {new}) \ (cur \cup {new}) = P \ cur
  BY <1>0
<1>5. ~(a > Horizon) /\ new[1] \in 0..Horizon
  BY LimiterConstants DEF Grid
<1>6. new[1] <= a + MaxDelay
  BY <1>5, LimiterConstants
<1>7. \E p \in cur \cup {new} : p[1] = a
  BY DEF Windows
<1>8. \A p \in cur \cup {new} : a - Window < p[1] /\ p[1] <= a + MaxDelay
  BY <1>6 DEF Windows
<1>9. cur \cup {new} \subseteq P \cup {new}
  BY <1>0
<1> QED
  BY <1>2, <1>3, <1>4, <1>5, <1>7, <1>8, <1>9 DEF Windows

\* A request that is let in after the latest window starts the next one.
LEMMA WindowsNew ==
  ASSUME NEW P, IsFiniteSet(P), P \subseteq Grid, NEW cur, NEW a \in Nat, Windows(P, cur, a),
         NEW new \in Grid, new \notin P, new[1] <= MaxDelay, a >= Window
  PROVE  Windows(P \cup {new}, {new}, new[1])
<1> DEFINE now == new[1]
<1>0. IsFiniteSet(cur) /\ IsFiniteSet(P \ cur) /\ Cardinality(cur) \in Nat /\ cur \subseteq P
  BY Finite DEF Windows
<1>1. now \in 0..Horizon /\ now \in Nat /\ now <= MaxDelay
  BY LimiterConstants DEF Grid
<1> HIDE DEF now
<1>2. (P \cup {new}) \ {new} = P
  OBVIOUS
<1>3. Cardinality({new}) = 1
  BY FS_Singleton
<1>4. Cardinality({new}) <= MaxRequests /\ ~(now > Horizon)
  BY <1>1, <1>3, LimiterConstants
<1>5. now - Window < now /\ now <= now + MaxDelay
  BY <1>1, LimiterConstants
<1>6. ASSUME NEW p \in P PROVE p[1] > now - MaxDelay
  <2>1. p[1] \in 0..Horizon
    BY DEF Grid
  <2>2. a - Window < p[1] \/ p[1] > a - MaxDelay
    BY DEF Windows
  <2> QED
    BY <1>1, <2>1, <2>2, LimiterConstants
<1>7. \A t \in Nat : Cardinality(Within(P, t)) < 2 * MaxRequests
  BY WindowsBound
<1>8. ASSUME NEW t \in Nat, t <= now + MaxDelay PROVE Cardinality(Within(P, t)) < MaxRequests
  <2>1. Within(P, t) \subseteq cur
    <3> SUFFICES ASSUME NEW p \in Within(P, t), p \notin cur PROVE FALSE
      OBVIOUS
    <3>1. p \in P \ cur /\ p[1] \in t..(t + Span - 1)
      BY DEF Within
    <3>2. p[1] > a - MaxDelay /\ p[1] \in 0..Horizon
      BY <3>1 DEF Windows, Grid
    <3> QED
      BY <1>1, <1>8, <3>1, <3>2, LimiterConstants DEF Span
  <2>2. /\ Cardinality(Within(P, t)) <= Cardinality(cur) /\ Cardinality(Within(P, t)) \in Nat
    BY <1>0, <2>1, Finite
  <2>3. CASE a > Horizon
    <3>1. Cardinality(cur) < MaxRequests
      BY <2>3 DEF Windows
    <3> QED
      BY <1>0, <2>2, <3>1, LimiterConstants
  <2>4. CASE a <= Horizon
    <3>1. PICK p \in cur : p[1] = a
      BY <2>4 DEF Windows
    <3>2. a \notin t..(t + Span - 1)
      BY <1>1, <1>8, LimiterConstants DEF Span
    <3>3. p \notin Within(P, t)
      BY <3>1, <3>2 DEF Within
    <3>4. Cardinality(Within(P, t)) < Cardinality(cur)
      BY <1>0, <2>1, <3>3, Smaller
    <3>5. Cardinality(cur) <= MaxRequests
      BY DEF Windows
    <3> QED
      BY <1>0, <2>2, <3>4, <3>5, LimiterConstants
  <2> QED
    BY <2>3, <2>4, LimiterConstants
<1>9. Windows(P \cup {new}, {new}, now)
  <2>1. \E p \in {new} : p[1] = now
    BY DEF now
  <2>2. \A p \in {new} : now - Window < p[1] /\ p[1] <= now + MaxDelay
    BY <1>5 DEF now
  <2> QED
    BY <1>2, <1>4, <1>6, <1>7, <1>8, <2>1, <2>2 DEF Windows
<1> QED
  BY <1>9 DEF now

-----------------------------------------------------------------------------
(* The inductive invariant *)

\* A request is limited by the address of the client that sent it, whatever header it sent.
KeyInv == \A r \in pending : key[r] = owner[r]

\* The latest window of the observed client is the one in the table, and at least the requests
\* let in are counted there.  A client that is not in the table, or not any more, has no window
\* that still runs.
Tracked(cur, a) ==
  IF Observed \in DOMAIN hits
  THEN hits[Observed].age = Min({a, Window + MaxDelay}) /\ Cardinality(cur) <= hits[Observed].count
  ELSE a >= Window

WindowInv == \E cur, a : a \in Nat /\ Windows(All(admitted), cur, a) /\ Tracked(cur, a)

\* What the table counts, the observed client asked for since its window started.
CountInv ==
  Observed \in DOMAIN hits /\ hits[Observed].age < Window + MaxDelay
    => hits[Observed].count <= Cardinality(Points(asked, 0..(hits[Observed].age + MaxDelay)))

LimiterInv == LimiterTypeOK /\ KeyInv /\ WindowInv /\ CountInv

LEMMA MinOf == \A m, n \in Int : Min({m, n}) = IF m <= n THEN m ELSE n
<1> SUFFICES ASSUME NEW m \in Int, NEW n \in Int PROVE Min({m, n}) = IF m <= n THEN m ELSE n
  OBVIOUS
<1> DEFINE x == IF m <= n THEN m ELSE n
<1>1. x \in {m, n} /\ (\A y \in {m, n} : x <= y)
  OBVIOUS
<1>2. ASSUME NEW z \in {m, n}, \A y \in {m, n} : z <= y PROVE z = x
  BY <1>2
<1> QED
  BY <1>1, <1>2 DEF Min

\* The entry a request leaves in the table.
Counted(r) == [Entry(key[r], age[r]) EXCEPT !.count = Min({@ + 1, MaxRequests + 1})]

One(r) == IF owner[r] = Observed THEN 1 ELSE 0

\* The window a request is counted in, and what it is counted as.
LEMMA EntryOf ==
  ASSUME LimiterTypeOK, NEW r \in Slot
  PROVE  /\ age[r] \in Nat /\ age[r] <= MaxDelay /\ age[r] \in 0..Horizon
         /\ Entry(key[r], age[r]) \in EntryType /\ Counted(r) \in EntryType
         /\ Counted(r).age = Entry(key[r], age[r]).age
         /\ LET n == Entry(key[r], age[r]).count
            IN Counted(r).count = IF n + 1 <= MaxRequests + 1 THEN n + 1 ELSE MaxRequests + 1
         /\ Kept(age[r]) \subseteq DOMAIN hits
<1>1. age[r] \in 0..MaxDelay /\ key[r] \in Address /\ hits \in [DOMAIN hits -> EntryType]
  BY DEF LimiterTypeOK
<1>2. age[r] \in Nat /\ age[r] <= MaxDelay /\ age[r] \in 0..Horizon /\ age[r] \in 0..(Window + MaxDelay)
  BY <1>1, LimiterConstants
<1>3. Kept(age[r]) \subseteq DOMAIN hits
  BY DEF Kept
<1>4. Entry(key[r], age[r]) \in EntryType
  <2>1. [age |-> age[r], count |-> 0] \in EntryType
    BY <1>2, LimiterConstants DEF EntryType
  <2>2. key[r] \in Kept(age[r]) => hits[key[r]] \in EntryType
    BY <1>1, <1>3
  <2> QED
    BY <2>1, <2>2 DEF Entry
<1> DEFINE E == Entry(key[r], age[r])
<1>5. E \in [age : 0..(Window + MaxDelay), count : 0..(MaxRequests + 1)]
  BY <1>4 DEF EntryType
<1>6. Counted(r) = [E EXCEPT !.count = Min({E.count + 1, MaxRequests + 1})]
  BY DEF Counted
<1> HIDE DEF E
<1>7. E.count \in Nat /\ E.count <= MaxRequests + 1
  BY <1>5, LimiterConstants
<1>8. Min({E.count + 1, MaxRequests + 1}) = IF E.count + 1 <= MaxRequests + 1 THEN E.count + 1 ELSE MaxRequests + 1
  BY <1>7, LimiterConstants, MinOf
<1>9. Min({E.count + 1, MaxRequests + 1}) \in 0..(MaxRequests + 1)
  BY <1>7, <1>8, LimiterConstants
<1>10. Counted(r) \in EntryType /\ Counted(r).age = E.age /\ Counted(r).count = Min({E.count + 1, MaxRequests + 1})
  BY <1>5, <1>6, <1>9 DEF EntryType
<1> QED
  BY <1>2, <1>3, <1>4, <1>8, <1>10 DEF E

\* Deciding on a request, in terms of the entry it leaves behind.
LEMMA AllowIs ==
  ASSUME NEW r \in Slot, Allow(r)
  PROVE  /\ r \in pending /\ pending' = pending \ {r}
         /\ hits' = [a \in Kept(age[r]) \cup {key[r]} |-> IF a = key[r] THEN Counted(r) ELSE hits[a]]
         /\ asked' = [asked EXCEPT ![age[r]] = @ + One(r)]
         /\ admitted' = IF Counted(r).count <= MaxRequests
                        THEN [admitted EXCEPT ![age[r]] = @ + One(r)] ELSE admitted
         /\ owner' = [owner EXCEPT ![r] = Observed]
         /\ key' = [key EXCEPT ![r] = Proxy]
         /\ age' = [age EXCEPT ![r] = 0]
  BY DEF Allow, Counted, One

LEMMA TickIs ==
  ASSUME Tick
  PROVE  asked' = Later(asked) /\ admitted' = Later(admitted)
  BY DEF Tick, Later

-----------------------------------------------------------------------------
(* Types and addresses *)

LEMMA LimiterStarted == LimiterInit => LimiterInv
<1> SUFFICES ASSUME LimiterInit PROVE LimiterInv
  OBVIOUS
<1>1. Observed \in Client /\ Proxy \in Address
  BY LimiterAssumption DEF Address
<1>2. hits = [a \in {} |-> [age |-> 0, count |-> 0]] /\ DOMAIN hits = {}
  BY DEF LimiterInit
<1>3. asked \in Past /\ admitted \in Past /\ \A t \in 0..Horizon : admitted[t] = 0
  BY DEF LimiterInit, NoHistory, Past
<1>4. LimiterTypeOK
  <2>1. hits \in [DOMAIN hits -> EntryType]
    BY <1>2
  <2>2. 0 \in 0..MaxDelay
    BY LimiterConstants
  <2> QED
    BY <1>1, <1>2, <1>3, <2>1, <2>2 DEF LimiterInit, LimiterTypeOK
<1>5. KeyInv
  BY DEF LimiterInit, KeyInv
<1>6. CountInv
  BY <1>2 DEF CountInv
<1>7. WindowInv
  <2>1. All(admitted) = {}
    <3>1. Horizon \in Nat /\ 0..Horizon \in SUBSET (0..Horizon)
      BY LimiterConstants
    <3>2. All(admitted) \subseteq (0..Horizon) \X (Nat \ {0})
      BY <1>3, <3>1, PointsOf DEF All
    <3>3. \A t, i : <<t, i>> \in All(admitted) => t \in 0..Horizon /\ i \in 1..admitted[t]
      BY <1>3, <3>1, PointsOf DEF All
    <3> SUFFICES ASSUME NEW p \in All(admitted) PROVE FALSE
      OBVIOUS
    <3>4. p = <<p[1], p[2]>>
      BY <3>2
    <3>5. p[1] \in 0..Horizon /\ p[2] \in 1..admitted[p[1]]
      BY <3>3, <3>4
    <3>6. p[2] \in 1..0
      BY <1>3, <3>5
    <3> QED
      BY <3>6
  <2> DEFINE a == Horizon + 1
  <2>2. a \in Nat /\ a >= Window /\ ~(a <= Horizon) /\ 0 <= MaxRequests /\ 0 < MaxRequests /\ 0 < 2 * MaxRequests
    BY LimiterConstants
  <2>3. Cardinality({}) = 0
    BY FS_EmptySet
  <2>4. \A t : Within({}, t) = {}
    BY DEF Within
  <2>5. {} \ {} = {}
    OBVIOUS
  <2>6. Windows({}, {}, a)
    BY <2>2, <2>3, <2>4, <2>5 DEF Windows
  <2>7. Tracked({}, a)
    BY <1>2, <2>2 DEF Tracked
  <2> HIDE DEF a
  <2> QED
    BY <2>1, <2>2, <2>6, <2>7 DEF WindowInv
<1> QED
  BY <1>4, <1>5, <1>6, <1>7 DEF LimiterInv

\* The last entry of the header is what the proxy appended; without a proxy it is the peer.
LEMMA AddressIsSenders ==
  ASSUME NEW c \in Client, NEW sent \in Sent
  PROVE  (IF TrustProxy THEN ClientIp(Append(sent, c), Proxy) ELSE ClientIp(sent, c)) = c
<1>1. TrustProxy \in BOOLEAN /\ c # Garbage
  BY LimiterAssumption
<1>2. CASE TrustProxy
  <2>1. sent \in Seq(Client \cup {Garbage})
    <3>1. <<>> \in Seq(Client \cup {Garbage}) /\ <<Garbage>> \in Seq(Client \cup {Garbage})
      OBVIOUS
    <3>2. \A d \in Client : <<d>> \in Seq(Client \cup {Garbage})
      OBVIOUS
    <3> QED
      BY <3>1, <3>2 DEF Sent
  <2>2. /\ Append(sent, c) \in Seq(Client \cup {Garbage}) /\ Len(Append(sent, c)) = Len(sent) + 1
        /\ Append(sent, c)[Len(sent) + 1] = c /\ Append(sent, c) # <<>>
    BY <2>1
  <2>3. Last(Append(sent, c)) = c
    BY <2>2 DEF Last
  <2> QED
    BY <1>1, <1>2, <2>2, <2>3 DEF ClientIp
<1>3. CASE ~TrustProxy
  BY <1>3 DEF ClientIp
<1> QED
  BY <1>1, <1>2, <1>3

LEMMA LimiterTypeStep == LimiterTypeOK /\ [LimiterNext]_limiterVars => LimiterTypeOK'
<1> SUFFICES ASSUME LimiterTypeOK, [LimiterNext]_limiterVars PROVE LimiterTypeOK'
  OBVIOUS
<1>1. ASSUME NEW r \in Slot, NEW c \in Client, NEW sent \in Sent, Arrive(r, c, sent) PROVE LimiterTypeOK'
  <2>1. key' = [key EXCEPT ![r] = c]
    BY <1>1, AddressIsSenders DEF Arrive
  <2> QED
    BY <1>1, <2>1 DEF Arrive, LimiterTypeOK, Address
<1>2. ASSUME NEW r \in Slot, Allow(r) PROVE LimiterTypeOK'
  <2>1. age[r] \in 0..Horizon /\ Counted(r) \in EntryType /\ Kept(age[r]) \subseteq DOMAIN hits
    BY EntryOf
  <2>2. hits' \in [DOMAIN hits' -> EntryType] /\ DOMAIN hits' \subseteq Address
    <3>1. hits' = [a \in Kept(age[r]) \cup {key[r]} |-> IF a = key[r] THEN Counted(r) ELSE hits[a]]
      BY <1>2, AllowIs
    <3>2. /\ key[r] \in Address /\ DOMAIN hits \subseteq Address
          /\ \A a \in DOMAIN hits : hits[a] \in EntryType
      BY DEF LimiterTypeOK
    <3> QED
      BY <2>1, <3>1, <3>2
  <2>3. asked' \in Past /\ admitted' \in Past
    <3>1. One(r) \in Nat /\ asked \in [0..Horizon -> Nat] /\ admitted \in [0..Horizon -> Nat]
      BY DEF One, LimiterTypeOK, Past
    <3>2. ASSUME NEW past \in [0..Horizon -> Nat]
          PROVE  [past EXCEPT ![age[r]] = @ + One(r)] \in [0..Horizon -> Nat]
      BY <2>1, <3>1
    <3>3. /\ asked' = [asked EXCEPT ![age[r]] = @ + One(r)]
          /\ admitted' = [admitted EXCEPT ![age[r]] = @ + One(r)] \/ admitted' = admitted
      BY <1>2, AllowIs
    <3> QED
      BY <3>1, <3>2, <3>3 DEF Past
  <2>4. owner' \in [Slot -> Client] /\ key' \in [Slot -> Address] /\ age' \in [Slot -> 0..MaxDelay]
    <3>1. Observed \in Client /\ Proxy \in Address /\ 0 \in 0..MaxDelay
      BY LimiterConstants, LimiterAssumption DEF Address
    <3>2. /\ owner' = [owner EXCEPT ![r] = Observed] /\ key' = [key EXCEPT ![r] = Proxy]
          /\ age' = [age EXCEPT ![r] = 0]
      BY <1>2, AllowIs
    <3> QED
      BY <3>1, <3>2 DEF LimiterTypeOK
  <2> QED
    BY <1>2, <2>2, <2>3, <2>4, AllowIs DEF LimiterTypeOK
<1>3. ASSUME Tick PROVE LimiterTypeOK'
  <2>1. asked' \in Past /\ admitted' \in Past
    <3>1. Horizon \in 0..Horizon
      BY LimiterConstants
    <3> QED
      BY <1>3, <3>1, TickIs, LaterPoints DEF LimiterTypeOK
  <2>2. \A m \in 0..(Window + MaxDelay) : Min({m + 1, Window + MaxDelay}) \in 0..(Window + MaxDelay)
    BY LimiterConstants, MinOf
  <2>3. hits' \in [DOMAIN hits' -> EntryType] /\ DOMAIN hits' \subseteq Address
    BY <1>3, <2>2 DEF Tick, LimiterTypeOK, EntryType
  <2>4. age' \in [Slot -> 0..MaxDelay]
    BY <1>3, LimiterConstants DEF Tick, LimiterTypeOK
  <2> QED
    BY <1>3, <2>1, <2>3, <2>4 DEF Tick, LimiterTypeOK
<1>4. CASE UNCHANGED limiterVars
  BY <1>4 DEF limiterVars, LimiterTypeOK
<1> QED
  BY <1>1, <1>2, <1>3, <1>4 DEF LimiterNext

LEMMA KeyStep == LimiterTypeOK /\ KeyInv /\ [LimiterNext]_limiterVars => KeyInv'
<1> SUFFICES ASSUME LimiterTypeOK, KeyInv, [LimiterNext]_limiterVars PROVE KeyInv'
  OBVIOUS
<1>1. ASSUME NEW r \in Slot, NEW c \in Client, NEW sent \in Sent, Arrive(r, c, sent) PROVE KeyInv'
  <2>1. key' = [key EXCEPT ![r] = c]
    BY <1>1, AddressIsSenders DEF Arrive
  <2> QED
    BY <1>1, <2>1 DEF Arrive, LimiterTypeOK, KeyInv
<1>2. ASSUME NEW r \in Slot, Allow(r) PROVE KeyInv'
  BY <1>2, AllowIs DEF LimiterTypeOK, KeyInv
<1>3. CASE Tick
  BY <1>3 DEF Tick, KeyInv
<1>4. CASE UNCHANGED limiterVars
  BY <1>4 DEF limiterVars, KeyInv
<1> QED
  BY <1>1, <1>2, <1>3, <1>4 DEF LimiterNext

-----------------------------------------------------------------------------
(* The windows of the observed client *)

LEMMA AllOf ==
  ASSUME NEW past \in Past
  PROVE  IsFiniteSet(All(past)) /\ All(past) \subseteq Grid /\ Cardinality(All(past)) \in Nat
<1>1. 0..Horizon \in SUBSET (0..Horizon)
  OBVIOUS
<1> QED
  BY <1>1, PointsOf DEF All, Grid

\* A request of another client leaves the history alone, and the entry, unless that is swept.
LEMMA OthersRequest ==
  ASSUME LimiterTypeOK, KeyInv, NEW r \in Slot, Allow(r), owner[r] # Observed
  PROVE  /\ asked' = asked /\ admitted' = admitted
         /\ Observed \in DOMAIN hits' <=> Observed \in Kept(age[r])
         /\ Observed \in DOMAIN hits' => hits'[Observed] = hits[Observed]
         /\ Kept(age[r]) \subseteq DOMAIN hits
<1>1. One(r) = 0 /\ r \in pending /\ key[r] # Observed
  BY AllowIs DEF One, KeyInv
<1>2. \A past \in [0..Horizon -> Nat] : [past EXCEPT ![age[r]] = @ + 0] = past
  <2> SUFFICES ASSUME NEW past \in [0..Horizon -> Nat] PROVE [past EXCEPT ![age[r]] = @ + 0] = past
    OBVIOUS
  <2>1. age[r] \in 0..Horizon
    BY EntryOf
  <2>2. past[age[r]] + 0 = past[age[r]]
    BY <2>1
  <2> QED
    BY <2>1, <2>2
<1>3. asked' = [asked EXCEPT ![age[r]] = @ + 0] /\ (admitted' = [admitted EXCEPT ![age[r]] = @ + 0] \/ admitted' = admitted)
  BY <1>1, AllowIs
<1>4. asked' = asked /\ admitted' = admitted
  BY <1>2, <1>3 DEF LimiterTypeOK, Past
<1>5. hits' = [a \in Kept(age[r]) \cup {key[r]} |-> IF a = key[r] THEN Counted(r) ELSE hits[a]]
  BY AllowIs
<1>6. Kept(age[r]) \subseteq DOMAIN hits
  BY EntryOf
<1> QED
  BY <1>1, <1>4, <1>5, <1>6

\* A window that a request is counted in is not over, and started at most a horizon ago.
LEMMA Running ==
  ASSUME NEW a \in Nat, NEW started, started = Min({a, Window + MaxDelay}),
         NEW now \in Nat, now <= MaxDelay
  PROVE  /\ Since(started, now) < Window => started = a /\ a - Window < now /\ a < Window + MaxDelay /\ a <= Horizon
         /\ ~(Since(started, now) < Window) => a >= Window
<1>1. started = IF a <= Window + MaxDelay THEN a ELSE Window + MaxDelay
  BY MinOf, LimiterConstants
<1>2. started \in Nat
  BY <1>1, LimiterConstants
<1>3. Since(started, now) = IF started > now THEN started - now ELSE 0
  BY DEF Since
<1> QED
  BY <1>1, <1>2, <1>3, LimiterConstants

\* A request of the observed client is counted in its running window or starts the next one.
LEMMA OwnRequest ==
  ASSUME LimiterTypeOK, KeyInv, NEW r \in Slot, Allow(r), owner[r] = Observed
  PROVE  /\ key[r] = Observed /\ Observed \in DOMAIN hits' /\ hits'[Observed] = Counted(r)
         /\ asked' = [asked EXCEPT ![age[r]] = @ + 1]
         /\ admitted' = IF Counted(r).count <= MaxRequests
                        THEN [admitted EXCEPT ![age[r]] = @ + 1] ELSE admitted
         /\ \/ /\ Observed \in DOMAIN hits /\ Since(hits[Observed].age, age[r]) < Window
               /\ Entry(key[r], age[r]) = hits[Observed]
            \/ /\ Observed \in DOMAIN hits => ~(Since(hits[Observed].age, age[r]) < Window)
               /\ Entry(key[r], age[r]) = [age |-> age[r], count |-> 0]
<1>1. One(r) = 1 /\ r \in pending /\ key[r] = Observed
  BY AllowIs DEF One, KeyInv
<1>2. hits' = [a \in Kept(age[r]) \cup {key[r]} |-> IF a = key[r] THEN Counted(r) ELSE hits[a]]
  BY AllowIs
<1>3. Kept(age[r]) \subseteq DOMAIN hits
  BY EntryOf
<1>4. asked' = [asked EXCEPT ![age[r]] = @ + 1]
  BY <1>1, AllowIs
<1>5. admitted' = IF Counted(r).count <= MaxRequests
                  THEN [admitted EXCEPT ![age[r]] = @ + 1] ELSE admitted
  BY <1>1, AllowIs
<1>6. Observed \in DOMAIN hits /\ Observed \notin Kept(age[r]) => ~(Since(hits[Observed].age, age[r]) < Window)
  BY DEF Kept
<1>7. \/ /\ Observed \in DOMAIN hits /\ Since(hits[Observed].age, age[r]) < Window
         /\ Entry(key[r], age[r]) = hits[Observed]
      \/ /\ Observed \in DOMAIN hits => ~(Since(hits[Observed].age, age[r]) < Window)
         /\ Entry(key[r], age[r]) = [age |-> age[r], count |-> 0]
  BY <1>1, <1>3, <1>6 DEF Entry
<1>8. Observed \in DOMAIN hits' /\ hits'[Observed] = Counted(r)
  BY <1>1, <1>2
<1> QED
  BY <1>1, <1>4, <1>5, <1>7, <1>8

LEMMA WindowAllow ==
  ASSUME LimiterTypeOK, KeyInv, WindowInv, NEW r \in Slot, Allow(r)
  PROVE  WindowInv'
<1>1. PICK cur, a : a \in Nat /\ Windows(All(admitted), cur, a) /\ Tracked(cur, a)
  BY DEF WindowInv
<1>2. age[r] \in Nat /\ age[r] <= MaxDelay /\ age[r] \in 0..Horizon
  BY EntryOf
<1>3. asked \in Past /\ admitted \in Past /\ admitted[age[r]] \in Nat
  BY <1>2 DEF LimiterTypeOK, Past
<1>4. IsFiniteSet(All(admitted)) /\ All(admitted) \subseteq Grid
  BY <1>3, AllOf
<1>5. CASE owner[r] # Observed
  <2>1. /\ admitted' = admitted /\ (Observed \in DOMAIN hits' <=> Observed \in Kept(age[r]))
        /\ (Observed \in DOMAIN hits' => hits'[Observed] = hits[Observed])
        /\ Kept(age[r]) \subseteq DOMAIN hits
    BY <1>5, OthersRequest
  <2>2. ASSUME Observed \in DOMAIN hits, Observed \notin Kept(age[r]) PROVE a >= Window
    <3>1. ~(Since(hits[Observed].age, age[r]) < Window)
      BY <2>2 DEF Kept
    <3>2. hits[Observed].age = Min({a, Window + MaxDelay})
      BY <1>1, <2>2 DEF Tracked
    <3> QED
      BY <1>1, <1>2, <3>1, <3>2, Running
  <2>3. Tracked(cur, a)'
    BY <1>1, <2>1, <2>2 DEF Tracked
  <2>4. Windows(All(admitted)', cur, a)
    BY <1>1, <2>1 DEF All
  <2> QED
    BY <1>1, <2>3, <2>4 DEF WindowInv
<1>6. CASE owner[r] = Observed
  <2>1. /\ key[r] = Observed /\ Observed \in DOMAIN hits' /\ hits'[Observed] = Counted(r)
        /\ admitted' = IF Counted(r).count <= MaxRequests
                       THEN [admitted EXCEPT ![age[r]] = @ + 1] ELSE admitted
    BY <1>6, OwnRequest
  <2>0. PICK new : new = <<age[r], admitted[age[r]] + 1>>
    OBVIOUS
  <2> DEFINE n == Entry(key[r], age[r]).count
             more == [admitted EXCEPT ![age[r]] = @ + 1]
  <2>2. /\ Counted(r).age = Entry(key[r], age[r]).age /\ n \in Nat
        /\ Counted(r).count = IF n + 1 <= MaxRequests + 1 THEN n + 1 ELSE MaxRequests + 1
    <3>1. n \in 0..(MaxRequests + 1)
      BY EntryOf DEF EntryType
    <3> QED
      BY <3>1, EntryOf, LimiterConstants
  <2>3. /\ All(more) = All(admitted) \cup {new} /\ new \notin All(admitted)
        /\ new \in Grid /\ new[1] = age[r]
    <3> DEFINE T == 0..Horizon
    <3> HIDE DEF T
    <3>2. /\ Points(more, T) = Points(admitted, T) \cup {<<age[r], admitted[age[r]] + 1>>}
          /\ <<age[r], admitted[age[r]] + 1>> \notin Points(admitted, T)
      <4>1. T \in SUBSET (0..Horizon) /\ age[r] \in T
        BY <1>2 DEF T
      <4> QED
        BY <1>2, <1>3, <4>1, Added
    <3>3. admitted[age[r]] + 1 \in Nat \ {0}
      BY <1>3
    <3> QED
      BY <1>2, <2>0, <3>2, <3>3 DEF All, Grid, T
  <2>4. CASE /\ Observed \in DOMAIN hits /\ Since(hits[Observed].age, age[r]) < Window
             /\ Entry(key[r], age[r]) = hits[Observed]
    <3>1. hits[Observed].age = Min({a, Window + MaxDelay}) /\ Cardinality(cur) <= n
      BY <1>1, <2>4 DEF Tracked
    <3>2. hits[Observed].age = a /\ a - Window < age[r] /\ a <= Horizon
      BY <1>1, <1>2, <2>4, <3>1, Running
    <3>3. Counted(r).age = Min({a, Window + MaxDelay})
      BY <2>2, <2>4, <3>1
    <3>4. Cardinality(cur) \in Nat /\ Cardinality(cur) <= MaxRequests
      BY <1>1, <1>4, Finite DEF Windows
    <3>5. CASE Counted(r).count <= MaxRequests
      <4>1. Counted(r).count = n + 1 /\ Cardinality(cur) < MaxRequests
        BY <2>2, <3>1, <3>4, <3>5, LimiterConstants
      <4>2. /\ Windows(All(admitted) \cup {new}, cur \cup {new}, a)
            /\ Cardinality(cur \cup {new}) = Cardinality(cur) + 1
        <5>1. /\ a \in Nat /\ new \in Grid /\ new \notin All(admitted) /\ new[1] <= MaxDelay
              /\ a - Window < new[1] /\ a <= Horizon /\ Cardinality(cur) < MaxRequests
          BY <1>1, <1>2, <2>3, <3>2, <4>1
        <5>2. /\ IsFiniteSet(All(admitted)) /\ All(admitted) \subseteq Grid
              /\ Windows(All(admitted), cur, a)
          BY <1>1, <1>4
        <5> HIDE DEF n, more
        <5> QED
          BY <5>1, <5>2, WindowsMore
      <4>3. Windows(All(admitted)', cur \cup {new}, a)
        BY <2>1, <2>3, <3>5, <4>2 DEF All
      <4>4. Cardinality(cur \cup {new}) <= Counted(r).count
        BY <2>2, <3>1, <3>4, <4>1, <4>2
      <4>5. Tracked(cur \cup {new}, a)'
        BY <2>1, <3>3, <4>4 DEF Tracked
      <4> QED
        BY <1>1, <4>3, <4>5 DEF WindowInv
    <3>6. CASE ~(Counted(r).count <= MaxRequests)
      <4>1. Cardinality(cur) <= Counted(r).count
        BY <2>2, <3>4, <3>6, LimiterConstants
      <4>2. Windows(All(admitted)', cur, a)
        BY <1>1, <2>1, <3>6 DEF All
      <4>3. Tracked(cur, a)'
        BY <2>1, <3>3, <4>1 DEF Tracked
      <4> QED
        BY <1>1, <4>2, <4>3 DEF WindowInv
    <3> QED
      BY <3>5, <3>6
  <2>5. CASE /\ Observed \in DOMAIN hits => ~(Since(hits[Observed].age, age[r]) < Window)
             /\ Entry(key[r], age[r]) = [age |-> age[r], count |-> 0]
    <3>1. a >= Window
      <4>1. Observed \in DOMAIN hits => hits[Observed].age = Min({a, Window + MaxDelay})
        BY <1>1 DEF Tracked
      <4>2. Observed \notin DOMAIN hits => a >= Window
        BY <1>1 DEF Tracked
      <4> QED
        BY <1>1, <1>2, <2>5, <4>1, <4>2, Running
    <3>2. Counted(r).age = age[r] /\ Counted(r).count = 1 /\ Counted(r).count <= MaxRequests
      BY <2>2, <2>5, LimiterConstants
    <3>3. Windows(All(admitted) \cup {new}, {new}, age[r])
      BY <1>1, <1>2, <1>4, <2>3, <3>1, WindowsNew
    <3>4. Windows(All(admitted)', {new}, age[r])
      BY <2>1, <2>3, <3>2, <3>3 DEF All
    <3>5. age[r] = Min({age[r], Window + MaxDelay})
      BY <1>2, MinOf, LimiterConstants
    <3>6. Cardinality({new}) <= Counted(r).count
      <4>1. Cardinality({new}) = 1
        BY FS_Singleton
      <4> QED
        BY <3>2, <4>1
    <3> DEFINE now == age[r]
    <3>7. /\ hits'[Observed].age = Min({now, Window + MaxDelay}) /\ Cardinality({new}) <= hits'[Observed].count
          /\ Observed \in DOMAIN hits' /\ now \in Nat /\ Windows(All(admitted)', {new}, now)
      BY <1>2, <2>1, <3>2, <3>4, <3>5, <3>6
    <3> HIDE DEF now
    <3> QED
      BY <3>7 DEF WindowInv, Tracked
  <2> QED
    BY <1>6, <2>4, <2>5, OwnRequest
<1> QED
  BY <1>5, <1>6

LEMMA TickEntry ==
  ASSUME LimiterTypeOK, Tick, Observed \in DOMAIN hits
  PROVE  /\ Observed \in DOMAIN hits' /\ hits'[Observed].count = hits[Observed].count
         /\ hits'[Observed].age = Min({hits[Observed].age + 1, Window + MaxDelay})
         /\ hits[Observed].age \in Nat /\ hits[Observed].count \in Nat
         /\ hits[Observed].age <= Window + MaxDelay
<1>1. hits[Observed] \in [age : 0..(Window + MaxDelay), count : 0..(MaxRequests + 1)]
  BY DEF LimiterTypeOK, EntryType
<1>2. hits[Observed].age \in 0..(Window + MaxDelay) /\ hits[Observed].count \in 0..(MaxRequests + 1)
  BY <1>1
<1>3. hits' = [a \in DOMAIN hits |-> [hits[a] EXCEPT !.age = Min({hits[a].age + 1, Window + MaxDelay})]]
  BY DEF Tick
<1>4. Observed \in DOMAIN hits' /\ hits'[Observed] = [hits[Observed] EXCEPT !.age = Min({hits[Observed].age + 1, Window + MaxDelay})]
  BY <1>3
<1> QED
  BY <1>1, <1>2, <1>4, LimiterConstants

LEMMA WindowTick ==
  ASSUME LimiterTypeOK, WindowInv, Tick
  PROVE  WindowInv'
<1>1. PICK cur, a : a \in Nat /\ Windows(All(admitted), cur, a) /\ Tracked(cur, a)
  BY DEF WindowInv
<1>2. PICK late, b : late = Shift(cur) /\ b = a + 1
  OBVIOUS
<1>3. IsFiniteSet(All(admitted)) /\ All(admitted) \subseteq Grid /\ admitted \in Past
  BY AllOf DEF LimiterTypeOK
<1>4. All(admitted)' = Shift(All(admitted))
  <2>1. Horizon \in 0..Horizon
    BY LimiterConstants
  <2> QED
    BY <1>3, <2>1, TickIs, LaterPoints DEF All
<1>5. Windows(All(admitted)', late, b)
  BY <1>1, <1>2, <1>3, <1>4, WindowsLater
<1>6. Cardinality(late) \in Nat /\ Cardinality(cur) \in Nat /\ Cardinality(late) <= Cardinality(cur)
  <2>1. IsFiniteSet(cur) /\ cur \subseteq Grid
    BY <1>1, <1>3, Finite DEF Windows
  <2> QED
    BY <1>2, <2>1, Shifted, FS_CardinalityType DEF Grid
<1>7. Tracked(late, b)'
  <2>1. CASE Observed \in DOMAIN hits
    <3>1. hits[Observed].age = Min({a, Window + MaxDelay}) /\ Cardinality(cur) <= hits[Observed].count
      BY <1>1, <2>1 DEF Tracked
    <3>2. Min({Min({a, Window + MaxDelay}) + 1, Window + MaxDelay}) = Min({b, Window + MaxDelay})
      <4>1. Min({a, Window + MaxDelay}) = IF a <= Window + MaxDelay THEN a ELSE Window + MaxDelay
        BY <1>1, MinOf, LimiterConstants
      <4>2. Min({a, Window + MaxDelay}) + 1 \in Int /\ b \in Int /\ Window + MaxDelay \in Int
        BY <1>1, <1>2, <4>1, LimiterConstants
      <4>3. Min({b, Window + MaxDelay}) = IF b <= Window + MaxDelay THEN b ELSE Window + MaxDelay
        BY <4>2, MinOf
      <4>4. Min({Min({a, Window + MaxDelay}) + 1, Window + MaxDelay})
              = IF Min({a, Window + MaxDelay}) + 1 <= Window + MaxDelay
                THEN Min({a, Window + MaxDelay}) + 1 ELSE Window + MaxDelay
        BY <4>2, MinOf
      <4> QED
        BY <1>1, <1>2, <4>1, <4>3, <4>4, LimiterConstants
    <3>3. /\ Observed \in DOMAIN hits' /\ hits'[Observed].age = Min({b, Window + MaxDelay})
          /\ hits'[Observed].count = hits[Observed].count /\ hits[Observed].count \in Nat
      BY <2>1, <3>1, <3>2, TickEntry
    <3>4. Cardinality(late) <= hits'[Observed].count
      BY <1>6, <3>1, <3>3
    <3> QED
      BY <3>3, <3>4 DEF Tracked
  <2>2. CASE Observed \notin DOMAIN hits
    <3>1. a >= Window /\ Observed \notin DOMAIN hits'
      BY <1>1, <2>2 DEF Tracked, Tick
    <3>2. b >= Window
      BY <1>1, <1>2, <3>1, LimiterConstants
    <3> QED
      BY <3>1, <3>2 DEF Tracked
  <2> QED
    BY <2>1, <2>2
<1>8. b \in Nat
  BY <1>1, <1>2
<1> QED
  BY <1>5, <1>7, <1>8 DEF WindowInv

-----------------------------------------------------------------------------
(* What is counted was asked for *)

\* The requests of the observed client that its running window can hold.
LEMMA CountAllow ==
  ASSUME LimiterTypeOK, KeyInv, WindowInv, CountInv, NEW r \in Slot, Allow(r)
  PROVE  /\ CountInv'
         /\ owner[r] = Observed /\ ~(Counted(r).count <= MaxRequests) => Total(asked') > MaxRequests
<1>1. age[r] \in Nat /\ age[r] <= MaxDelay /\ age[r] \in 0..Horizon
  BY EntryOf
<1>2. asked \in Past
  BY DEF LimiterTypeOK
<1>3. CASE owner[r] # Observed
  <2>1. /\ asked' = asked /\ (Observed \in DOMAIN hits' => Observed \in DOMAIN hits /\ hits'[Observed] = hits[Observed])
    BY <1>3, OthersRequest
  <2> QED
    BY <1>3, <2>1 DEF CountInv
<1>4. CASE owner[r] = Observed
  <2>1. /\ Observed \in DOMAIN hits' /\ hits'[Observed] = Counted(r)
        /\ asked' = [asked EXCEPT ![age[r]] = @ + 1]
    BY <1>4, OwnRequest
  <2> DEFINE n == Entry(key[r], age[r]).count
             s == Entry(key[r], age[r]).age
  <2>2. /\ Counted(r).age = s /\ n \in Nat /\ s \in Nat
        /\ Counted(r).count = IF n + 1 <= MaxRequests + 1 THEN n + 1 ELSE MaxRequests + 1
    <3>1. n \in 0..(MaxRequests + 1) /\ s \in 0..(Window + MaxDelay)
      BY EntryOf DEF EntryType
    <3> QED
      BY <3>1, EntryOf, LimiterConstants
  <2>3. /\ s < Window + MaxDelay
        /\ n <= Cardinality(Points(asked, 0..(s + MaxDelay)))
    <3>1. CASE /\ Observed \in DOMAIN hits /\ Since(hits[Observed].age, age[r]) < Window
               /\ Entry(key[r], age[r]) = hits[Observed]
      <4>1. PICK cur, a : a \in Nat /\ Tracked(cur, a)
        BY DEF WindowInv
      <4>2. hits[Observed].age = Min({a, Window + MaxDelay})
        BY <3>1, <4>1 DEF Tracked
      <4>3. hits[Observed].age < Window + MaxDelay
        BY <1>1, <3>1, <4>1, <4>2, Running
      <4> QED
        BY <3>1, <4>3 DEF CountInv
    <3>2. CASE Entry(key[r], age[r]) = [age |-> age[r], count |-> 0]
      <4>1. s = age[r] /\ n = 0
        BY <3>2
      <4> DEFINE T == 0..(s + MaxDelay)
      <4>2. T \in SUBSET (0..Horizon)
        BY <1>1, <4>1, LimiterConstants
      <4> HIDE DEF T
      <4>3. Cardinality(Points(asked, T)) \in Nat
        BY <1>2, <4>2, PointsOf
      <4> QED
        BY <1>1, <4>1, <4>3, LimiterConstants DEF T
    <3> QED
      BY <1>4, <3>1, <3>2, OwnRequest
  <2> HIDE DEF n, s
  <2> DEFINE T == 0..(s + MaxDelay)
  <2>4. T \in SUBSET (0..Horizon) /\ age[r] \in T
    BY <1>1, <2>2, <2>3, LimiterConstants
  <2>5. Cardinality(Points(asked', T)) = Cardinality(Points(asked, T)) + 1 /\ asked' \in Past
    BY <1>1, <1>2, <2>1, <2>4, Added
  <2>6. Cardinality(Points(asked, T)) \in Nat /\ Cardinality(Points(asked', T)) \in Nat
    BY <1>2, <2>4, <2>5, PointsOf
  <2>7. n + 1 <= Cardinality(Points(asked', T))
    BY <2>2, <2>3, <2>5, <2>6
  <2>8. Counted(r).count <= Cardinality(Points(asked', T))
    BY <2>2, <2>6, <2>7, LimiterConstants
  <2>9. CountInv'
    BY <2>1, <2>2, <2>8 DEF CountInv
  <2>10. ASSUME ~(Counted(r).count <= MaxRequests) PROVE Total(asked') > MaxRequests
    <3>1. Cardinality(Points(asked', T)) > MaxRequests
      BY <2>2, <2>6, <2>7, <2>10, LimiterConstants
    <3>2. Points(asked', T) \in SUBSET All(asked')
      BY <2>4 DEF Points, All
    <3>3. /\ Cardinality(Points(asked', T)) <= Cardinality(All(asked'))
          /\ Cardinality(All(asked')) \in Nat
      BY <2>5, <3>2, AllOf, Finite
    <3> QED
      BY <2>6, <3>1, <3>3, LimiterConstants DEF Total, All
  <2> QED
    BY <2>9, <2>10
<1> QED
  BY <1>3, <1>4

LEMMA CountTick ==
  ASSUME LimiterTypeOK, CountInv, Tick
  PROVE  CountInv'
<1> SUFFICES ASSUME Observed \in DOMAIN hits', hits'[Observed].age < Window + MaxDelay
             PROVE  hits'[Observed].count <= Cardinality(Points(asked', 0..(hits'[Observed].age + MaxDelay)))
  BY DEF CountInv
<1>1. Observed \in DOMAIN hits
  BY DEF Tick
<1> DEFINE s == hits[Observed].age
<1>2. /\ s \in Nat /\ s <= Window + MaxDelay /\ hits'[Observed].count = hits[Observed].count
      /\ hits'[Observed].age = Min({s + 1, Window + MaxDelay}) /\ hits[Observed].count \in Nat
  BY <1>1, TickEntry
<1>3. Min({s + 1, Window + MaxDelay}) = IF s + 1 <= Window + MaxDelay THEN s + 1 ELSE Window + MaxDelay
  BY <1>2, MinOf, LimiterConstants
<1>4. hits'[Observed].age = s + 1 /\ s < Window + MaxDelay
  BY <1>2, <1>3, LimiterConstants
<1>5. hits[Observed].count <= Cardinality(Points(asked, 0..(s + MaxDelay)))
  BY <1>1, <1>4 DEF CountInv
<1> HIDE DEF s
<1> DEFINE x == s + MaxDelay
           y == (s + 1) + MaxDelay
<1>6. x \in 0..Horizon /\ y \in 0..Horizon /\ y = x + 1 /\ 0..x \in SUBSET (0..Horizon) /\ x < Horizon
  <2>1. s + 1 < Window + MaxDelay
    BY <1>2, <1>3, <1>4, LimiterConstants
  <2> QED
    BY <1>2, <2>1, LimiterConstants
<1> HIDE DEF x, y
<1>7. Points(asked', 0..y) = Shift(Points(asked, 0..x))
  BY <1>6, TickIs, LaterPoints DEF LimiterTypeOK
<1>8. /\ IsFiniteSet(Points(asked, 0..x)) /\ Points(asked, 0..x) \subseteq (0..x) \X (Nat \ {0})
  BY <1>6, PointsOf DEF LimiterTypeOK
<1>9. /\ Points(asked, 0..x) \subseteq (0..Horizon) \X (Nat \ {0})
      /\ \A p \in Points(asked, 0..x) : p[1] \in 0..x
  BY <1>6, <1>8
<1>10. \A p \in Points(asked, 0..x) : p[1] < Horizon
  <2>1. \A m \in 0..x : m < Horizon
    BY <1>6, LimiterConstants
  <2> QED
    BY <1>9, <2>1
<1>11. Cardinality(Shift(Points(asked, 0..x))) = Cardinality(Points(asked, 0..x))
  BY <1>8, <1>9, <1>10, Shifted
<1> QED
  BY <1>2, <1>4, <1>5, <1>7, <1>11 DEF x, y

-----------------------------------------------------------------------------
(* Theorems *)

LEMMA LimiterStep == LimiterInv /\ [LimiterNext]_limiterVars => LimiterInv'
<1> SUFFICES ASSUME LimiterInv, [LimiterNext]_limiterVars PROVE LimiterInv'
  OBVIOUS
<1>0. LimiterTypeOK /\ KeyInv /\ WindowInv /\ CountInv
  BY DEF LimiterInv
<1>1. LimiterTypeOK' /\ KeyInv'
  BY <1>0, LimiterTypeStep, KeyStep
<1>2. ASSUME hits' = hits, asked' = asked, admitted' = admitted PROVE WindowInv' /\ CountInv'
  BY <1>0, <1>2 DEF WindowInv, Tracked, CountInv, All
<1>3. ASSUME NEW r \in Slot, NEW c \in Client, NEW sent \in Sent, Arrive(r, c, sent)
      PROVE  WindowInv' /\ CountInv'
  BY <1>2, <1>3 DEF Arrive
<1>4. ASSUME NEW r \in Slot, Allow(r) PROVE WindowInv' /\ CountInv'
  BY <1>0, <1>4, WindowAllow, CountAllow
<1>5. ASSUME Tick PROVE WindowInv' /\ CountInv'
  BY <1>0, <1>5, WindowTick, CountTick
<1>6. ASSUME UNCHANGED limiterVars PROVE WindowInv' /\ CountInv'
  BY <1>2, <1>6 DEF limiterVars
<1>7. WindowInv' /\ CountInv'
  BY <1>3, <1>4, <1>5, <1>6 DEF LimiterNext
<1> QED
  BY <1>1, <1>7 DEF LimiterInv

LEMMA LimiterInvariance == LimiterSpec => []LimiterInv
  BY LimiterStarted, LimiterStep, PTL DEF LimiterSpec

\* The limiter's state keeps its type.
THEOREM LimiterTypeCorrect == LimiterSpec => []LimiterTypeOK
<1>1. LimiterInv => LimiterTypeOK
  BY DEF LimiterInv
<1> QED
  BY <1>1, LimiterInvariance, PTL

\* A request waiting for the lock is limited by the address of its sender, never by what the
\* sender wrote into the forwarding header (client_ip).
THEOREM LimitedByOwnAddress == LimiterSpec => []KeyInv
<1>1. LimiterInv => KeyInv
  BY DEF LimiterInv
<1> QED
  BY <1>1, LimiterInvariance, PTL

\* Whatever the size of the table, the number of clients and the headers they send, no client is
\* let in two windows' worth of times within a window, less the delays at the lock (allow).
THEOREM LimitHolds == LimiterSpec => []AdmittedAreBounded
<1>1. LimiterInv => AdmittedAreBounded
  <2> SUFFICES ASSUME LimiterInv PROVE AdmittedAreBounded
    OBVIOUS
  <2>1. admitted \in Past /\ IsFiniteSet(All(admitted)) /\ All(admitted) \subseteq Grid
    BY AllOf DEF LimiterInv, LimiterTypeOK
  <2>2. PICK cur, a : a \in Nat /\ Windows(All(admitted), cur, a)
    BY DEF LimiterInv, WindowInv
  <2>3. ASSUME NEW t \in 0..(Horizon + 1 - Span) PROVE Admissions(t, Span) < 2 * MaxRequests
    <3>1. t \in Nat /\ t..(t + Span - 1) \in SUBSET (0..Horizon)
      BY LimiterConstants
    <3>2. Points(admitted, t..(t + Span - 1)) = Within(All(admitted), t)
      <4>1. /\ Points(admitted, t..(t + Span - 1)) \subseteq (t..(t + Span - 1)) \X (Nat \ {0})
            /\ \A u, i : <<u, i>> \in Points(admitted, t..(t + Span - 1)) <=> u \in t..(t + Span - 1) /\ i \in 1..admitted[u]
        <5> DEFINE T == t..(t + Span - 1)
        <5>1. T \in SUBSET (0..Horizon)
          BY <3>1
        <5> HIDE DEF T
        <5>2. /\ Points(admitted, T) \subseteq T \X (Nat \ {0})
              /\ \A u, i : <<u, i>> \in Points(admitted, T) <=> u \in T /\ i \in 1..admitted[u]
          BY <2>1, <5>1, PointsOf
        <5> QED
          BY <5>2 DEF T
      <4>2. \A u, i : <<u, i>> \in All(admitted) <=> u \in 0..Horizon /\ i \in 1..admitted[u]
        BY <2>1, PointsOf DEF All
      <4>3. ASSUME NEW p \in Points(admitted, t..(t + Span - 1)) PROVE p \in Within(All(admitted), t)
        <5>1. p = <<p[1], p[2]>> /\ p[1] \in t..(t + Span - 1) /\ p[1] \in 0..Horizon
          BY <3>1, <4>1
        <5>2. p \in All(admitted)
          BY <4>1, <4>2, <5>1
        <5> QED
          BY <5>1, <5>2 DEF Within
      <4>4. ASSUME NEW p \in Within(All(admitted), t) PROVE p \in Points(admitted, t..(t + Span - 1))
        <5>1. p \in All(admitted) /\ p = <<p[1], p[2]>> /\ p[1] \in t..(t + Span - 1)
          BY <2>1 DEF Within, Grid
        <5>2. p[2] \in 1..admitted[p[1]]
          BY <4>2, <5>1
        <5>3. <<p[1], p[2]>> \in Points(admitted, t..(t + Span - 1))
          BY <4>1, <5>1, <5>2
        <5> QED
          BY <5>1, <5>3
      <4> QED
        BY <4>3, <4>4
    <3>3. Cardinality(Within(All(admitted), t)) < 2 * MaxRequests
      BY <2>1, <2>2, <3>1, WindowsBound
    <3> QED
      BY <3>2, <3>3 DEF Admissions
  <2> QED
    BY <2>3 DEF AdmittedAreBounded, Span
<1> QED
  BY <1>1, LimiterInvariance, PTL

\* A client is refused only when it has itself sent more requests than the limit within the
\* horizon: others cannot use up its window, nor can a window that is over (allow).
THEOREM RefusedForOwnRequests == LimiterSpec => OnlyBusyClientsAreRefused
<1>1. ASSUME LimiterInv, [LimiterNext]_limiterVars, Total(asked') > Total(asked), Total(admitted') = Total(admitted)
      PROVE  Total(asked') > MaxRequests
  <2>0. LimiterTypeOK /\ KeyInv /\ WindowInv /\ CountInv /\ asked \in Past /\ admitted \in Past
    BY <1>1 DEF LimiterInv, LimiterTypeOK
  <2>1. Total(asked) \in Nat /\ Total(admitted) \in Nat
    BY <2>0, AllOf DEF Total, All
  <2>2. ASSUME asked' = asked PROVE FALSE
    BY <1>1, <2>1, <2>2
  <2>3. ASSUME NEW r \in Slot, Allow(r) PROVE Total(asked') > MaxRequests
    <3>1. owner[r] = Observed
      BY <2>0, <2>2, <2>3, OthersRequest
    <3>2. ASSUME Counted(r).count <= MaxRequests PROVE FALSE
      <4>1. admitted' = [admitted EXCEPT ![age[r]] = @ + 1]
        BY <2>0, <2>3, <3>1, <3>2, OwnRequest
      <4>2. age[r] \in 0..Horizon /\ 0..Horizon \in SUBSET (0..Horizon)
        BY <2>0, EntryOf
      <4>3. Cardinality(Points(admitted', 0..Horizon)) = Cardinality(Points(admitted, 0..Horizon)) + 1
        BY <2>0, <4>1, <4>2, Added
      <4> QED
        BY <1>1, <2>1, <4>3 DEF Total
    <3> QED
      BY <2>0, <2>3, <3>1, <3>2, CountAllow
  <2>4. ASSUME Tick PROVE FALSE
    <3>1. Horizon \in 0..Horizon
      BY LimiterConstants
    <3>2. All(asked') = Shift(All(asked))
      BY <2>0, <2>4, <3>1, TickIs, LaterPoints DEF All
    <3>3. IsFiniteSet(All(asked)) /\ All(asked) \subseteq Grid
      BY <2>0, AllOf
    <3>4. /\ Cardinality(Shift(All(asked))) <= Cardinality(All(asked)) /\ Cardinality(Shift(All(asked))) \in Nat
      BY <3>3, Shifted, FS_CardinalityType DEF Grid
    <3> QED
      BY <1>1, <2>1, <3>2, <3>4 DEF Total, All
  <2>5. ASSUME NEW r \in Slot, NEW c \in Client, NEW sent \in Sent, Arrive(r, c, sent) PROVE FALSE
    BY <2>2, <2>5 DEF Arrive
  <2>6. ASSUME UNCHANGED limiterVars PROVE FALSE
    BY <2>2, <2>6 DEF limiterVars
  <2> QED
    BY <1>1, <2>3, <2>4, <2>5, <2>6 DEF LimiterNext
<1>2. LimiterInv /\ [LimiterNext]_limiterVars
        => [Total(asked') > Total(asked) /\ Total(admitted') = Total(admitted)
              => Total(asked') > MaxRequests]_limiterVars
  BY <1>1
<1> QED
  BY <1>2, LimiterInvariance, PTL DEF LimiterSpec, OnlyBusyClientsAreRefused

-----------------------------------------------------------------------------
(* The outbox *)

\* A process can still be started; the recovery task has a mail in hand while it is busy, which
\* it no longer has before it.
RecoveryInv ==
    /\ ~up => starts < MaxStarts
    /\ stage[Recovery] \in {"send", "send_unsaved", "remove", "mark_dead"} => current \in Mail /\ current \notin todo

\* A row is only removed, buried or pruned after a delivery has come to an end.
HandledInv ==
    /\ \A w \in Worker : stage[w] \in {"remove", "mark_dead"} => outcome[MailOf(w)] # "open"
    /\ \A m \in Mail : row[m] = "dead" => outcome[m] # "open"

\* The attempts a mail can still get without another start: those its own task has left, and
\* those the recovery task has left.
Own(m) == IF stage[m] = "new" THEN Retries + 1
          ELSE IF stage[m] \in {"insert", "send", "send_unsaved"} THEN Retries + 1 - tries[m] ELSE 0

ToRecover(m) == stage[Recovery] = "select" \/ m \in todo

InRecovery(m) == stage[Recovery] \in {"send", "send_unsaved"} /\ current = m

Rec(m) == IF ToRecover(m) THEN Retries + 1 ELSE IF InRecovery(m) THEN Retries + 1 - tries[Recovery] ELSE 0

\* The attempts allowed so far.
Allowed == (Retries + 1) * (1 + starts)

SendsInv == \A m \in Mail : sends[m] + Own(m) + Rec(m) <= Allowed

OutboxInv == OutboxTypeOK /\ RecoveryInv /\ HandledInv /\ StoredUntilHandled /\ SendsInv

-----------------------------------------------------------------------------

LEMMA Workers == /\ Recovery \in Worker /\ Mail \subseteq Worker
                 /\ \A m \in Mail : m # Recovery /\ MailOf(m) = m
                 /\ MailOf(Recovery) = current
                 /\ \A w \in Worker : w = Recovery \/ w \in Mail
  BY OutboxAssumption DEF Worker, MailOf

\* Between none and all the attempts of a task are left to it.
LEMMA AttemptsLeft ==
  /\ OutboxTypeOK => \A m \in Mail : Own(m) \in 0..(Retries + 1) /\ Rec(m) \in 0..(Retries + 1)
  /\ OutboxTypeOK' => \A m \in Mail : Own(m)' \in 0..(Retries + 1) /\ Rec(m)' \in 0..(Retries + 1)
  BY OutboxAssumption, Workers DEF OutboxTypeOK, Own, Rec

\* Each start allows a task's attempts once more.
LEMMA StartAllows == ASSUME starts \in Nat
                     PROVE  /\ Allowed \in Nat
                            /\ starts' = starts + 1 => Allowed' = Allowed + Retries + 1
                            /\ starts' = starts => Allowed' = Allowed
<1>1. \A a, b \in Nat : a * b \in Nat /\ a * (b + 1) = a * b + a
  OBVIOUS
<1>2. Retries + 1 \in Nat /\ 1 + starts \in Nat
  BY OutboxAssumption
<1>3. Allowed \in Nat /\ (Retries + 1) * (1 + starts + 1) = Allowed + Retries + 1
  <2>1. PICK a \in Nat, b \in Nat : a = Retries + 1 /\ b = 1 + starts
    BY <1>2
  <2>2. a * b \in Nat /\ a * (b + 1) = a * b + a
    BY <1>1
  <2>3. Allowed = a * b /\ (Retries + 1) * (1 + starts + 1) = a * (b + 1)
    BY <2>1 DEF Allowed
  <2>4. a * b + a = a * b + Retries + 1
    BY <2>1, <2>2, OutboxAssumption
  <2> QED
    BY <2>2, <2>3, <2>4
<1>4. ASSUME starts' = starts + 1 PROVE Allowed' = Allowed + Retries + 1
  <2>1. 1 + starts' = 1 + starts + 1
    BY <1>4
  <2> QED
    BY <1>3, <2>1 DEF Allowed
<1>5. ASSUME starts' = starts PROVE Allowed' = Allowed
  BY <1>5 DEF Allowed
<1> QED
  BY <1>3, <1>4, <1>5

LEMMA StageMoved ==
  ASSUME OutboxTypeOK, NEW w \in Worker, NEW s \in Stage, Moves(w, s)
  PROVE  /\ stage' \in [Worker -> Stage] /\ stage'[w] = s
         /\ \A v \in Worker : v # w => stage'[v] = stage[v]
  BY DEF OutboxTypeOK, Moves

\* The mail a busy worker is about.
LEMMA InHand ==
  ASSUME RecoveryInv, NEW w \in Worker, stage[w] \in {"send", "send_unsaved", "remove", "mark_dead"}
  PROVE  MailOf(w) \in Mail /\ (w = Recovery => MailOf(w) = current /\ current \notin todo)
  BY Workers DEF RecoveryInv

\* What a delivery that has come to an end changes.
LEMMA DeliveryEnds ==
  ASSUME OutboxTypeOK, RecoveryInv, NEW w \in Worker, Send(w) \/ GiveUp(w)
  PROVE  /\ stage[w] \in {"send", "send_unsaved"} /\ MailOf(w) \in Mail
         /\ outcome' \in [Mail -> {"open", "sent", "gave_up"}] /\ outcome'[MailOf(w)] # "open"
         /\ \A m \in Mail : m # MailOf(w) => outcome'[m] = outcome[m] /\ sends'[m] = sends[m]
         /\ \A m \in Mail : outcome[m] # "open" => outcome'[m] # "open"
         /\ sends' \in [Mail -> Nat] /\ sends'[MailOf(w)] <= sends[MailOf(w)] + 1
         /\ tries' \in [Worker -> 0..Retries]
         /\ \E s \in {"done", "remove", "mark_dead"} : Moves(w, s)
         /\ UNCHANGED <<row, up, current, todo, persisted, starts, faults>>
<1>1. PICK how \in {"sent", "gave_up"}, n \in {0, 1} : Delivered(w, how, n)
  BY DEF Send, GiveUp
<1>2. stage[w] \in {"send", "send_unsaved"} /\ UNCHANGED <<row, up, current, todo, persisted, starts, faults>>
  BY <1>1 DEF Delivered
<1>3. PICK m \in Mail : m = MailOf(w)
  BY <1>2, InHand
<1>4. /\ outcome' = [outcome EXCEPT ![m] = IF @ = "sent" THEN @ ELSE how]
      /\ sends' = [sends EXCEPT ![m] = @ + n]
      /\ tries' = [tries EXCEPT ![w] = 0]
      /\ Moves(w, IF stage[w] = "send_unsaved" THEN "done" ELSE IF how = "sent" THEN "remove" ELSE "mark_dead")
  BY <1>1, <1>3 DEF Delivered, Take
<1>5. /\ outcome' \in [Mail -> {"open", "sent", "gave_up"}] /\ outcome'[m] # "open"
      /\ \A k \in Mail : k # m => outcome'[k] = outcome[k]
  BY <1>4 DEF OutboxTypeOK
<1>6. /\ sends' \in [Mail -> Nat] /\ sends'[m] <= sends[m] + 1
      /\ \A k \in Mail : k # m => sends'[k] = sends[k]
  BY <1>4 DEF OutboxTypeOK
<1>7. tries' \in [Worker -> 0..Retries]
  BY <1>4, OutboxAssumption DEF OutboxTypeOK
<1>8. \E s \in {"done", "remove", "mark_dead"} : Moves(w, s)
  BY <1>4
<1> QED
  BY <1>2, <1>3, <1>5, <1>6, <1>7, <1>8

\* What finish() changes.
LEMMA Finishes ==
  ASSUME OutboxTypeOK, RecoveryInv, NEW w \in Worker, RemoveMail(w) \/ MarkDead(w)
  PROVE  /\ stage[w] \in {"remove", "mark_dead"} /\ MailOf(w) \in Mail /\ Moves(w, "done")
         /\ row' \in [Mail -> {"none", "pending", "dead"}]
         /\ \A m \in Mail : m # MailOf(w) => row'[m] = row[m]
         /\ current' = (IF w = Recovery THEN NoMail ELSE current)
         /\ faults' \in 0..MaxFaults
         /\ UNCHANGED <<up, tries, todo, persisted, outcome, sends, starts>>
<1>1. /\ stage[w] \in {"remove", "mark_dead"} /\ Moves(w, "done")
      /\ current' = (IF w = Recovery THEN NoMail ELSE current)
      /\ UNCHANGED <<up, tries, todo, persisted, outcome, sends, starts>>
  BY DEF RemoveMail, MarkDead, EndWork
<1>2. PICK m \in Mail : m = MailOf(w)
  BY <1>1, InHand
<1>3. \/ UNCHANGED row \/ row' = [row EXCEPT ![m] = "none"]
      \/ row' = [row EXCEPT ![m] = IF @ = "none" THEN "none" ELSE "dead"]
  BY <1>2 DEF RemoveMail, MarkDead
<1>4. row' \in [Mail -> {"none", "pending", "dead"}] /\ \A k \in Mail : k # m => row'[k] = row[k]
  BY <1>3 DEF OutboxTypeOK
<1>5. faults' \in 0..MaxFaults
  BY OutboxAssumption DEF RemoveMail, MarkDead, Works, Fault, OutboxTypeOK
<1> QED
  BY <1>1, <1>2, <1>4, <1>5

\* What storing a mail changes.
LEMMA Stores ==
  ASSUME OutboxTypeOK, NEW m \in Mail, InsertMail(m)
  PROVE  /\ stage[m] = "insert" /\ \E s \in {"send", "send_unsaved"} : Moves(m, s)
         /\ row' \in [Mail -> {"none", "pending", "dead"}] /\ persisted' \in SUBSET Mail
         /\ \A k \in Mail : k # m => row'[k] = row[k] /\ (k \in persisted' <=> k \in persisted)
         /\ row'[m] = "pending" \/ (row'[m] = row[m] /\ persisted' = persisted)
         /\ faults' \in 0..MaxFaults
         /\ UNCHANGED <<up, tries, current, todo, outcome, sends, starts>>
<1>1. stage[m] = "insert" /\ UNCHANGED <<up, tries, current, todo, outcome, sends, starts>>
  BY DEF InsertMail
<1>2. faults' \in 0..MaxFaults
  BY OutboxAssumption DEF InsertMail, Works, Fault, OutboxTypeOK
<1>3. CASE row' = [row EXCEPT ![m] = "pending"] /\ persisted' = persisted \cup {m} /\ Moves(m, "send")
  BY <1>1, <1>2, <1>3 DEF OutboxTypeOK
<1>4. CASE Moves(m, "send_unsaved") /\ UNCHANGED <<row, persisted>>
  BY <1>1, <1>2, <1>4 DEF OutboxTypeOK
<1> QED
  BY <1>3, <1>4 DEF InsertMail

-----------------------------------------------------------------------------
(* Every step *)

LEMMA OutboxStarted == OutboxInit => OutboxInv
<1> SUFFICES ASSUME OutboxInit PROVE OutboxInv
  OBVIOUS
<1>1. /\ 0 \in 0..Retries /\ 0 \in 0..MaxStarts /\ 0 \in 0..MaxFaults /\ 0 < MaxStarts
  BY OutboxAssumption
<1>2. stage[Recovery] = "done" /\ \A m \in Mail : stage[m] \in {"new", "done"}
  BY Workers, OutboxAssumption DEF OutboxInit
<1>3. stage \in [Worker -> Stage]
  BY DEF OutboxInit, Stage
<1>4. row \in [Mail -> {"none", "pending", "dead"}] /\ tries \in [Worker -> 0..Retries]
  BY <1>1 DEF OutboxInit
<1>5. outcome \in [Mail -> {"open", "sent", "gave_up"}] /\ sends \in [Mail -> Nat]
  BY DEF OutboxInit
<1>6. up = FALSE /\ up \in BOOLEAN
  BY DEF OutboxInit
<1>7. OutboxTypeOK
  BY <1>1, <1>3, <1>4, <1>5, <1>6 DEF OutboxInit, OutboxTypeOK
<1>8. RecoveryInv
  BY <1>1, <1>2 DEF OutboxInit, RecoveryInv
<1>9. HandledInv /\ StoredUntilHandled
  <2>1. \A w \in Worker : stage[w] \notin {"remove", "mark_dead"}
    BY <1>2, Workers
  <2> QED
    BY <2>1 DEF OutboxInit, HandledInv, StoredUntilHandled
<1>10. SendsInv
  <2>1. ASSUME NEW m \in Mail PROVE sends[m] = 0 /\ Own(m) \in {0, Retries + 1} /\ Rec(m) = 0
    BY <1>2 DEF OutboxInit, Own, Rec, ToRecover, InRecovery
  <2>2. Allowed = Retries + 1
    BY OutboxAssumption DEF OutboxInit, Allowed
  <2> QED
    BY <2>1, <2>2, OutboxAssumption DEF SendsInv
<1> QED
  BY <1>7, <1>8, <1>9, <1>10 DEF OutboxInv

LEMMA OutboxStep == OutboxInv /\ [OutboxNext]_outboxVars => OutboxInv'
<1> SUFFICES ASSUME OutboxInv, [OutboxNext]_outboxVars PROVE OutboxInv'
  OBVIOUS
<1>t. OutboxTypeOK /\ RecoveryInv /\ HandledInv /\ StoredUntilHandled /\ SendsInv
  BY DEF OutboxInv
<1>n. /\ MaxStarts \in Nat /\ starts \in Nat /\ \A m \in Mail : sends[m] \in Nat
      /\ \A m \in Mail : Own(m) \in 0..(Retries + 1) /\ Rec(m) \in 0..(Retries + 1)
      /\ Retries \in Nat /\ Allowed \in Nat
  BY <1>t, OutboxAssumption, AttemptsLeft, StartAllows DEF OutboxTypeOK
<1>s. /\ \A m \in Mail : m \in Worker /\ m # Recovery /\ MailOf(m) = m /\ MailOf(m)' = m
      /\ Recovery \in Worker /\ MailOf(Recovery) = current /\ MailOf(Recovery)' = current'
      /\ \A w \in Worker : w = Recovery \/ w \in Mail
  BY Workers DEF MailOf
\* It is enough that no mail gets more deliveries and attempts to come than it had.
<1>b. ASSUME OutboxTypeOK', UNCHANGED starts,
             \A m \in Mail : sends'[m] + Own(m)' + Rec(m)' <= sends[m] + Own(m) + Rec(m)
      PROVE  SendsInv'
  <2> SUFFICES ASSUME NEW m \in Mail PROVE sends'[m] + Own(m)' + Rec(m)' <= Allowed'
    BY DEF SendsInv
  <2>1. Own(m)' \in 0..(Retries + 1) /\ Rec(m)' \in 0..(Retries + 1) /\ sends'[m] \in Nat
    BY <1>b, AttemptsLeft DEF OutboxTypeOK
  <2>2. sends[m] + Own(m) + Rec(m) <= Allowed /\ Allowed' = Allowed
    BY <1>t, <1>n, <1>b, StartAllows DEF SendsInv
  <2> QED
    BY <1>b, <1>n, <2>1, <2>2
<1>1. ASSUME Start PROVE OutboxInv'
  <2>1. /\ ~up /\ up' = TRUE /\ starts' = starts + 1 /\ Moves(Recovery, "select")
        /\ UNCHANGED <<row, tries, current, todo, persisted, outcome, sends, faults>>
    BY <1>1 DEF Start
  <2>2. /\ stage' \in [Worker -> Stage] /\ stage'[Recovery] = "select"
        /\ \A v \in Worker : v # Recovery => stage'[v] = stage[v]
    BY <1>s, <1>t, <2>1, StageMoved DEF Stage
  <2>3. starts' \in 0..MaxStarts
    BY <1>n, <1>t, <2>1 DEF RecoveryInv
  <2>4. OutboxTypeOK'
    BY <1>t, <2>1, <2>2, <2>3 DEF OutboxTypeOK
  <2>5. RecoveryInv'
    BY <2>1, <2>2 DEF RecoveryInv
  <2>6. HandledInv' /\ StoredUntilHandled'
    BY <1>s, <1>t, <2>1, <2>2 DEF HandledInv, StoredUntilHandled
  <2>7. SendsInv'
    <3> SUFFICES ASSUME NEW m \in Mail PROVE sends'[m] + Own(m)' + Rec(m)' <= Allowed'
      BY DEF SendsInv
    <3>1. Own(m)' = Own(m) /\ Rec(m)' \in 0..(Retries + 1)
      BY <1>s, <2>1, <2>2, <2>4, AttemptsLeft DEF Own
    <3>2. sends[m] + Own(m) + Rec(m) <= Allowed /\ Allowed' = Allowed + Retries + 1
      BY <1>t, <1>n, <2>1, StartAllows DEF SendsInv
    <3> QED
      BY <1>n, <2>1, <3>1, <3>2
  <2> QED
    BY <2>4, <2>5, <2>6, <2>7 DEF OutboxInv
<1>2. ASSUME Stop PROVE OutboxInv'
  <2>1. /\ starts < MaxStarts /\ up' = FALSE /\ current' = NoMail /\ todo' = {}
        /\ stage' = [w \in Worker |-> IF stage[w] = "new" THEN "new" ELSE "done"]
        /\ tries' = [w \in Worker |-> 0]
        /\ UNCHANGED <<row, persisted, outcome, sends, starts, faults>>
    BY <1>2 DEF Stop
  <2>2. \A w \in Worker : stage'[w] \in {"new", "done"} /\ (stage'[w] = "new" => stage[w] = "new")
    BY <2>1
  <2>3. OutboxTypeOK'
    <3>1. stage' \in [Worker -> Stage] /\ tries' \in [Worker -> 0..Retries]
      BY <2>1, OutboxAssumption DEF Stage
    <3>2. up' \in BOOLEAN
      BY <2>1
    <3> QED
      BY <1>t, <2>1, <3>1, <3>2 DEF OutboxTypeOK
  <2>4. RecoveryInv'
    BY <1>s, <2>1, <2>2 DEF RecoveryInv
  <2>5. HandledInv' /\ StoredUntilHandled'
    BY <1>t, <2>1, <2>2 DEF HandledInv, StoredUntilHandled
  <2>6. SendsInv'
    <3>1. ASSUME NEW m \in Mail PROVE Own(m)' <= Own(m) /\ Rec(m)' = 0
      <4>1. Own(m)' = Own(m) \/ Own(m)' = 0
        BY <1>s, <2>1, <2>2 DEF Own
      <4>2. Rec(m)' = 0
        BY <1>s, <2>1, <2>2 DEF Rec, ToRecover, InRecovery
      <4> QED
        BY <1>n, <4>1, <4>2
    <3>2. ASSUME NEW m \in Mail
          PROVE  sends'[m] + Own(m)' + Rec(m)' <= sends[m] + Own(m) + Rec(m)
      BY <1>n, <2>1, <2>3, <3>1, AttemptsLeft
    <3> QED
      BY <1>b, <2>1, <2>3, <3>2
  <2> QED
    BY <2>3, <2>4, <2>5, <2>6 DEF OutboxInv
<1>3. ASSUME NEW m \in Mail, Dispatch(m) \/ InsertMail(m) PROVE OutboxInv'
  <2>1. /\ UNCHANGED <<up, tries, current, todo, outcome, sends, starts>>
        /\ stage[m] \in {"new", "insert"} /\ faults' \in 0..MaxFaults
        /\ row' \in [Mail -> {"none", "pending", "dead"}] /\ persisted' \in SUBSET Mail
        /\ \A k \in Mail : k # m => row'[k] = row[k] /\ (k \in persisted' <=> k \in persisted)
        /\ row'[m] = "pending" \/ (row'[m] = row[m] /\ persisted' = persisted)
    <3>1. CASE Dispatch(m)
      BY <1>t, <3>1 DEF Dispatch, OutboxTypeOK
    <3>2. CASE InsertMail(m)
      BY <1>t, <3>2, Stores
    <3> QED
      BY <1>3, <3>1, <3>2
  <2>2. PICK s \in {"insert", "send", "send_unsaved"} : Moves(m, s)
    BY <1>3, <1>t, Stores DEF Dispatch
  <2>3. /\ stage' \in [Worker -> Stage] /\ stage'[m] = s
        /\ \A v \in Worker : v # m => stage'[v] = stage[v]
    BY <1>s, <1>t, <2>2, StageMoved DEF Stage
  <2>4. OutboxTypeOK'
    BY <1>t, <2>1, <2>3 DEF OutboxTypeOK
  <2>5. RecoveryInv'
    BY <1>s, <1>t, <2>1, <2>3 DEF RecoveryInv
  <2>6. HandledInv'
    <3>1. \A w \in Worker : stage'[w] \in {"remove", "mark_dead"} => outcome'[MailOf(w)'] # "open"
      BY <1>s, <1>t, <2>1, <2>3 DEF HandledInv, MailOf
    <3>2. \A k \in Mail : row'[k] = "dead" => outcome'[k] # "open"
      BY <1>t, <2>1 DEF HandledInv
    <3> QED
      BY <3>1, <3>2 DEF HandledInv
  <2>7. StoredUntilHandled'
    BY <1>t, <2>1 DEF StoredUntilHandled, OutboxTypeOK
  <2>8. SendsInv'
    <3>1. ASSUME NEW k \in Mail PROVE Own(k)' <= Own(k) /\ Rec(k)' = Rec(k)
      <4>1. Own(k)' = Own(k) \/ (Own(k) = Retries + 1 /\ Own(k)' = Retries + 1 - tries[k])
        BY <1>s, <2>1, <2>3 DEF Own
      <4>2. tries[k] \in 0..Retries
        BY <1>s, <1>t DEF OutboxTypeOK
      <4>3. Rec(k)' = Rec(k)
        BY <1>s, <2>1, <2>3 DEF Rec, ToRecover, InRecovery
      <4> QED
        BY <1>n, <4>1, <4>2, <4>3
    <3>2. ASSUME NEW k \in Mail
          PROVE  sends'[k] + Own(k)' + Rec(k)' <= sends[k] + Own(k) + Rec(k)
      BY <1>n, <2>1, <2>4, <3>1, AttemptsLeft
    <3> QED
      BY <1>b, <2>1, <2>4, <3>2
  <2> QED
    BY <2>4, <2>5, <2>6, <2>7, <2>8 DEF OutboxInv
<1>4. ASSUME Select \/ TakeNext PROVE OutboxInv'
  <2>1. /\ UNCHANGED <<row, up, tries, persisted, outcome, sends, starts>>
        /\ stage[Recovery] \in {"select", "done"} /\ faults' \in 0..MaxFaults
    BY <1>4, <1>t, OutboxAssumption DEF Select, TakeNext, Works, Fault, OutboxTypeOK
  <2>2. PICK s \in {"done", "failed", "send"} : /\ Moves(Recovery, s)
                                                /\ todo' \in SUBSET Mail /\ current' \in Mail \cup {NoMail}
                                                /\ s = "send" => current' \in Mail /\ current' \notin todo'
                                                /\ \A m \in Mail : ToRecover(m)' => ToRecover(m)
                                                /\ \A m \in Mail : InRecovery(m)' => ToRecover(m)
    <3>1. CASE Select
      <4>1. PICK s \in {"done", "failed"} : Moves(Recovery, s)
        BY <3>1 DEF Select
      <4>2. todo' \in SUBSET Mail /\ current' = current /\ stage[Recovery] = "select"
        BY <1>t, <3>1, OutboxAssumption DEF Select, OutboxTypeOK
      <4>3. stage'[Recovery] = s
        BY <1>s, <1>t, <4>1, StageMoved DEF Stage
      <4> QED
        BY <1>t, <4>1, <4>2, <4>3 DEF ToRecover, InRecovery, OutboxTypeOK
    <3>2. CASE TakeNext
      <4>1. PICK m \in todo : current' = m /\ todo' = todo \ {m} /\ Moves(Recovery, "send")
        BY <3>2 DEF TakeNext
      <4>2. m \in Mail /\ todo' \in SUBSET Mail
        BY <1>t, <4>1 DEF OutboxTypeOK
      <4>3. stage'[Recovery] = "send"
        BY <1>s, <1>t, <4>1, StageMoved DEF Stage
      <4>4. \A k \in Mail : (ToRecover(k)' => ToRecover(k)) /\ (InRecovery(k)' => ToRecover(k))
        BY <4>1, <4>3 DEF ToRecover, InRecovery
      <4> QED
        BY <4>1, <4>2, <4>4
    <3> QED
      BY <1>4, <3>1, <3>2
  <2>3. /\ stage' \in [Worker -> Stage] /\ stage'[Recovery] = s
        /\ \A v \in Worker : v # Recovery => stage'[v] = stage[v]
    BY <1>s, <1>t, <2>2, StageMoved DEF Stage
  <2>4. OutboxTypeOK'
    BY <1>t, <2>1, <2>2, <2>3 DEF OutboxTypeOK
  <2>5. RecoveryInv'
    BY <1>t, <2>1, <2>2, <2>3 DEF RecoveryInv
  <2>6. HandledInv' /\ StoredUntilHandled'
    BY <1>s, <1>t, <2>1, <2>3 DEF HandledInv, StoredUntilHandled
  <2>7. SendsInv'
    <3>1. ASSUME NEW k \in Mail PROVE Own(k)' = Own(k) /\ Rec(k)' <= Rec(k)
      <4>1. Own(k)' = Own(k)
        BY <1>s, <2>1, <2>3 DEF Own
      <4>2. Rec(k)' = 0 \/ Rec(k) = Retries + 1
        BY <2>2 DEF Rec
      <4> QED
        BY <1>n, <2>4, <4>1, <4>2, AttemptsLeft
    <3>2. ASSUME NEW k \in Mail
          PROVE  sends'[k] + Own(k)' + Rec(k)' <= sends[k] + Own(k) + Rec(k)
      BY <1>n, <2>1, <2>4, <3>1, AttemptsLeft
    <3> QED
      BY <1>b, <2>1, <2>4, <3>2
  <2> QED
    BY <2>4, <2>5, <2>6, <2>7 DEF OutboxInv
<1>5. ASSUME NEW w \in Worker, Send(w) \/ GiveUp(w) PROVE OutboxInv'
  <2>1. /\ stage[w] \in {"send", "send_unsaved"}
        /\ outcome' \in [Mail -> {"open", "sent", "gave_up"}]
        /\ \A m \in Mail : outcome[m] # "open" => outcome'[m] # "open"
        /\ sends' \in [Mail -> Nat]
        /\ tries' \in [Worker -> 0..Retries]
        /\ UNCHANGED <<row, up, current, todo, persisted, starts, faults>>
    BY <1>5, <1>t, DeliveryEnds
  <2>2. PICK m \in Mail : /\ m = MailOf(w) /\ outcome'[m] # "open" /\ sends'[m] <= sends[m] + 1
                          /\ \A k \in Mail : k # m => outcome'[k] = outcome[k] /\ sends'[k] = sends[k]
    BY <1>5, <1>t, DeliveryEnds
  <2>3. PICK s \in {"done", "remove", "mark_dead"} : Moves(w, s)
    BY <1>5, <1>t, DeliveryEnds
  <2>4. /\ stage' \in [Worker -> Stage] /\ stage'[w] = s
        /\ \A v \in Worker : v # w => stage'[v] = stage[v]
    BY <1>t, <2>3, StageMoved DEF Stage
  <2>5. OutboxTypeOK'
    BY <1>t, <2>1, <2>4 DEF OutboxTypeOK
  <2>6. RecoveryInv'
    BY <1>s, <1>t, <2>1, <2>4 DEF RecoveryInv
  <2>7. HandledInv'
    <3>1. ASSUME NEW v \in Worker, stage'[v] \in {"remove", "mark_dead"} PROVE outcome'[MailOf(v)'] # "open"
      <4>1. MailOf(v)' = MailOf(v)
        BY <2>1 DEF MailOf
      <4>2. CASE v = w
        BY <2>2, <4>1, <4>2
      <4>3. CASE v # w
        <5>1. stage[v] \in {"remove", "mark_dead"}
          BY <2>4, <3>1, <4>3
        <5>2. MailOf(v) \in Mail /\ outcome[MailOf(v)] # "open"
          BY <1>t, <5>1, InHand DEF HandledInv
        <5> QED
          BY <2>1, <4>1, <5>2
      <4> QED
        BY <4>2, <4>3
    <3>2. \A k \in Mail : row'[k] = "dead" => outcome'[k] # "open"
      BY <1>t, <2>1 DEF HandledInv
    <3> QED
      BY <3>1, <3>2 DEF HandledInv
  <2>8. StoredUntilHandled'
    BY <1>t, <2>1 DEF StoredUntilHandled, OutboxTypeOK
  <2>9. SendsInv'
    <3>0. \A v \in Worker : v # w => tries'[v] = tries[v]
      BY <1>5, <1>t DEF Send, GiveUp, Delivered, OutboxTypeOK
    <3>1. ASSUME NEW k \in Mail, k # m PROVE Own(k)' <= Own(k) /\ Rec(k)' <= Rec(k)
      <4>1. Own(k)' = Own(k)
        BY <1>s, <2>2, <2>4, <3>0, <3>1 DEF Own, MailOf
      <4>2. (ToRecover(k)' <=> ToRecover(k)) /\ (InRecovery(k)' <=> InRecovery(k))
        BY <1>s, <2>1, <2>2, <2>3, <2>4, <3>1 DEF ToRecover, InRecovery
      <4>3. InRecovery(k) => w # Recovery
        BY <1>s, <2>2, <3>1 DEF InRecovery
      <4>4. Rec(k)' = Rec(k)
        BY <1>s, <3>0, <4>2, <4>3 DEF Rec
      <4> QED
        BY <1>n, <4>1, <4>4
    <3>2. Own(m)' + Rec(m)' + 1 <= Own(m) + Rec(m)
      <4>t. \A v \in Worker : tries[v] \in 0..Retries
        BY <1>t DEF OutboxTypeOK
      <4>1. CASE w = m
        <5>1. Own(m)' = 0 /\ Own(m) = Retries + 1 - tries[m]
          BY <2>1, <2>4, <4>1 DEF Own
        <5>2. Rec(m)' = Rec(m)
          BY <1>s, <2>1, <2>4, <3>0, <4>1 DEF Rec, ToRecover, InRecovery
        <5> QED
          BY <1>n, <1>s, <4>t, <5>1, <5>2
      <4>2. CASE w = Recovery
        <5>1. m = current /\ m \notin todo
          BY <1>s, <1>t, <2>1, <2>2, <4>2 DEF RecoveryInv
        <5>2. Rec(m) = Retries + 1 - tries[Recovery] /\ Rec(m)' = 0
          BY <2>1, <2>4, <4>2, <5>1 DEF Rec, ToRecover, InRecovery
        <5>3. Own(m)' = Own(m)
          BY <1>s, <2>4, <3>0, <4>2 DEF Own
        <5> QED
          BY <1>n, <1>s, <4>t, <5>2, <5>3
      <4> QED
        BY <1>s, <2>2, <4>1, <4>2
    <3>3. ASSUME NEW k \in Mail
          PROVE  sends'[k] + Own(k)' + Rec(k)' <= sends[k] + Own(k) + Rec(k)
      <4>1. sends'[k] \in Nat /\ Own(k)' \in 0..(Retries + 1) /\ Rec(k)' \in 0..(Retries + 1)
        BY <2>1, <2>5, AttemptsLeft
      <4>2. CASE k = m
        BY <1>n, <2>2, <3>2, <4>1, <4>2
      <4>3. CASE k # m
        BY <1>n, <2>2, <3>1, <4>1, <4>3
      <4> QED
        BY <4>2, <4>3
    <3> QED
      BY <1>b, <2>1, <2>5, <3>3
  <2> QED
    BY <2>5, <2>6, <2>7, <2>8, <2>9 DEF OutboxInv
<1>6. ASSUME NEW w \in Worker, RemoveMail(w) \/ MarkDead(w) PROVE OutboxInv'
  <2>1. /\ stage[w] \in {"remove", "mark_dead"} /\ Moves(w, "done")
        /\ row' \in [Mail -> {"none", "pending", "dead"}]
        /\ current' = (IF w = Recovery THEN NoMail ELSE current)
        /\ faults' \in 0..MaxFaults
        /\ UNCHANGED <<up, tries, todo, persisted, outcome, sends, starts>>
    BY <1>6, <1>t, Finishes
  <2>2. PICK m \in Mail : m = MailOf(w) /\ \A k \in Mail : k # m => row'[k] = row[k]
    BY <1>6, <1>t, Finishes
  <2>3. outcome[m] # "open"
    BY <1>t, <2>1, <2>2 DEF HandledInv
  <2>4. /\ stage' \in [Worker -> Stage] /\ stage'[w] = "done"
        /\ \A v \in Worker : v # w => stage'[v] = stage[v]
    BY <1>t, <2>1, StageMoved DEF Stage
  <2>5. OutboxTypeOK'
    BY <1>t, <2>1, <2>4 DEF OutboxTypeOK
  <2>6. RecoveryInv'
    BY <1>s, <1>t, <2>1, <2>4 DEF RecoveryInv
  <2>7. HandledInv'
    <3>1. ASSUME NEW v \in Worker, stage'[v] \in {"remove", "mark_dead"} PROVE outcome'[MailOf(v)'] # "open"
      <4>1. v # w /\ stage[v] \in {"remove", "mark_dead"}
        BY <2>4, <3>1
      <4>2. MailOf(v)' = MailOf(v)
        BY <2>1, <4>1 DEF MailOf
      <4> QED
        BY <1>t, <2>1, <4>1, <4>2 DEF HandledInv
    <3>2. \A k \in Mail : row'[k] = "dead" => outcome'[k] # "open"
      BY <1>t, <2>1, <2>2, <2>3 DEF HandledInv
    <3> QED
      BY <3>1, <3>2 DEF HandledInv
  <2>8. StoredUntilHandled'
    BY <1>t, <2>1, <2>2, <2>3 DEF StoredUntilHandled, OutboxTypeOK
  <2>9. SendsInv'
    <3>1. ASSUME NEW k \in Mail PROVE Own(k)' = Own(k) /\ Rec(k)' = Rec(k)
      <4>1. Own(k)' = Own(k)
        BY <1>s, <2>1, <2>4 DEF Own
      <4>2. (ToRecover(k)' <=> ToRecover(k)) /\ (InRecovery(k)' <=> InRecovery(k))
        BY <1>s, <2>1, <2>4 DEF ToRecover, InRecovery
      <4> QED
        BY <2>1, <4>1, <4>2 DEF Rec
    <3>2. ASSUME NEW k \in Mail
          PROVE  sends'[k] + Own(k)' + Rec(k)' <= sends[k] + Own(k) + Rec(k)
      BY <1>n, <2>1, <3>1
    <3> QED
      BY <1>b, <2>1, <2>5, <3>2
  <2> QED
    BY <2>5, <2>6, <2>7, <2>8, <2>9 DEF OutboxInv
<1>7. ASSUME NEW w \in Worker, Retry(w) PROVE OutboxInv'
  <2>1. /\ stage[w] \in {"send", "send_unsaved"} /\ tries[w] < Retries
        /\ tries' = [tries EXCEPT ![w] = @ + 1]
        /\ UNCHANGED <<row, up, stage, current, todo, persisted, outcome, starts, faults>>
    BY <1>7 DEF Retry
  <2>2. PICK m \in Mail, n \in {0, 1} : m = MailOf(w) /\ sends' = [sends EXCEPT ![m] = @ + n]
    BY <1>7, <1>t, <2>1, InHand DEF Retry, Take
  <2>3. /\ tries[w] \in 0..Retries /\ tries'[w] = tries[w] + 1 /\ tries' \in [Worker -> 0..Retries]
        /\ \A v \in Worker : v # w => tries'[v] = tries[v]
    BY <1>n, <1>t, <2>1 DEF OutboxTypeOK
  <2>4. /\ sends' \in [Mail -> Nat] /\ sends'[m] <= sends[m] + 1
        /\ \A k \in Mail : k # m => sends'[k] = sends[k]
    BY <1>t, <2>2 DEF OutboxTypeOK
  <2>5. OutboxTypeOK'
    BY <1>t, <2>1, <2>3, <2>4 DEF OutboxTypeOK
  <2>6. RecoveryInv' /\ HandledInv' /\ StoredUntilHandled'
    BY <1>t, <2>1 DEF RecoveryInv, HandledInv, StoredUntilHandled, MailOf
  <2>7. ASSUME NEW k \in Mail, k # m PROVE Own(k)' = Own(k) /\ Rec(k)' = Rec(k)
    <3>1. Own(k)' = Own(k)
      BY <1>s, <2>1, <2>2, <2>3, <2>7 DEF Own
    <3>2. ToRecover(k)' = ToRecover(k) /\ InRecovery(k)' = InRecovery(k)
      BY <2>1 DEF ToRecover, InRecovery
    <3>3. InRecovery(k) => w # Recovery
      BY <1>s, <2>2, <2>7 DEF InRecovery
    <3> QED
      BY <1>s, <2>3, <3>1, <3>2, <3>3 DEF Rec
  <2>8. Own(m)' + Rec(m)' + 1 <= Own(m) + Rec(m)
    <3>1. CASE w = m
      <4>1. Own(m) = Retries + 1 - tries[m] /\ Own(m)' = Retries + 1 - tries'[m]
        BY <2>1, <3>1 DEF Own
      <4>2. Rec(m)' = Rec(m)
        BY <1>s, <2>1, <2>3, <3>1 DEF Rec, ToRecover, InRecovery
      <4> QED
        BY <1>n, <2>3, <3>1, <4>1, <4>2
    <3>2. CASE w = Recovery
      <4>1. m = current /\ m \notin todo
        BY <1>s, <1>t, <2>1, <2>2, <3>2 DEF RecoveryInv
      <4>2. Rec(m) = Retries + 1 - tries[w] /\ Rec(m)' = Retries + 1 - tries'[w]
        BY <2>1, <3>2, <4>1 DEF Rec, ToRecover, InRecovery
      <4>3. Own(m)' = Own(m)
        BY <1>s, <2>1, <2>3, <3>2 DEF Own
      <4> QED
        BY <1>n, <2>3, <4>2, <4>3
    <3> QED
      BY <1>s, <2>2, <3>1, <3>2
  <2>9. SendsInv'
    <3>1. ASSUME NEW k \in Mail
          PROVE  sends'[k] + Own(k)' + Rec(k)' <= sends[k] + Own(k) + Rec(k)
      <4>1. sends'[k] \in Nat /\ Own(k)' \in 0..(Retries + 1) /\ Rec(k)' \in 0..(Retries + 1)
        BY <2>4, <2>5, AttemptsLeft
      <4>2. CASE k = m
        BY <1>n, <2>4, <2>8, <4>1, <4>2
      <4>3. CASE k # m
        BY <1>n, <2>4, <2>7, <4>1, <4>3
      <4> QED
        BY <4>2, <4>3
    <3> QED
      BY <1>b, <2>1, <2>5, <3>1
  <2> QED
    BY <2>5, <2>6, <2>9 DEF OutboxInv
<1>8. ASSUME (\E m \in Mail : PruneDead(m)) \/ UNCHANGED outboxVars PROVE OutboxInv'
  <2>1. UNCHANGED <<up, stage, tries, current, todo, persisted, outcome, sends, starts, faults>>
    BY <1>8 DEF PruneDead, outboxVars
  <2>2. /\ row' \in [Mail -> {"none", "pending", "dead"}]
        /\ \A m \in Mail : row'[m] = row[m] \/ (row[m] = "dead" /\ row'[m] = "none")
    BY <1>8, <1>t DEF PruneDead, outboxVars, OutboxTypeOK
  <2>3. OutboxTypeOK'
    BY <1>t, <2>1, <2>2 DEF OutboxTypeOK
  <2>4. RecoveryInv' /\ SendsInv'
    BY <1>t, <2>1 DEF RecoveryInv, SendsInv, Allowed, Own, Rec, ToRecover, InRecovery
  <2>5. HandledInv'
    <3>1. \A w \in Worker : MailOf(w)' = MailOf(w)
      BY <2>1 DEF MailOf
    <3>2. \A m \in Mail : row'[m] = "dead" => row[m] = "dead"
      BY <2>2
    <3> QED
      BY <1>t, <2>1, <3>1, <3>2 DEF HandledInv
  <2>6. StoredUntilHandled'
    BY <1>t, <2>1, <2>2 DEF StoredUntilHandled, HandledInv, OutboxTypeOK
  <2> QED
    BY <2>3, <2>4, <2>5, <2>6 DEF OutboxInv
<1> QED
  BY <1>1, <1>2, <1>3, <1>4, <1>5, <1>6, <1>7, <1>8 DEF OutboxNext, TaskStep, WorkerStep

LEMMA OutboxInvariance == OutboxSpec => []OutboxInv
  BY OutboxStarted, OutboxStep, PTL DEF OutboxSpec

\* Rows, workers and histories keep their types, and no process is started beyond the bound.
THEOREM OutboxTypeCorrect == OutboxSpec => []OutboxTypeOK
<1>1. OutboxInv => OutboxTypeOK
  BY DEF OutboxInv
<1> QED
  BY <1>1, OutboxInvariance, PTL

\* Wherever a process stops and whatever statement fails, a mail that was stored is pending in
\* the table until a delivery of it has come to an end (dispatch, recover_pending, finish).
THEOREM StoredMailStays == OutboxSpec => []StoredUntilHandled
<1>1. OutboxInv => StoredUntilHandled
  BY DEF OutboxInv
<1> QED
  BY <1>1, OutboxInvariance, PTL

\* A recipient gets at most Retries + 1 copies of a mail from the mail's own task and as many from
\* the recovery of each process, lost answers and two workers at the same mail included (deliver,
\* recover_pending).
THEOREM ResendsHaveAStart == OutboxSpec => []ResendsAreBounded
<1>1. OutboxInv => ResendsAreBounded
  <2> SUFFICES ASSUME OutboxInv, NEW m \in Mail PROVE sends[m] <= (Retries + 1) * (1 + starts)
    BY DEF ResendsAreBounded
  <2>1. /\ sends[m] \in Nat /\ Own(m) \in 0..(Retries + 1) /\ Rec(m) \in 0..(Retries + 1)
        /\ Allowed \in Nat /\ sends[m] + Own(m) + Rec(m) <= Allowed
    BY OutboxAssumption, AttemptsLeft, StartAllows DEF OutboxInv, OutboxTypeOK, SendsInv
  <2> QED
    BY <2>1, OutboxAssumption DEF Allowed
<1> QED
  BY <1>1, OutboxInvariance, PTL

=============================================================================
