--------------------------- MODULE PasswordLogin ----------------------------
(***************************************************************************)
(* Signing in to one account with its password, and replacing the          *)
(* password: login with lockout, forgot, reset, change, sessions.          *)
(* Accounts share no row, so one account, and any number of concurrent     *)
(* requests for it, is the whole of the behaviour.  Two-factor sign-in is  *)
(* TwoFactor; here the account has none.                                   *)
(*                                                                         *)
(* Each database statement is a step; what follows it up to the next await *)
(* belongs to the step.  Every password set is a new one, so the account's *)
(* token_version also names its password, and a caller either knows the    *)
(* password of the row it is checked against or does not.  A session is    *)
(* the JWT issued; `proven` remembers which password was shown for it.     *)
(* The behaviours are those of one hour: a token issued keeps counting.    *)
(***************************************************************************)
EXTENDS OneTimeTokens

CONSTANTS Request,      \* the tasks serving requests
          MaxFailed,    \* max_failed_login_attempts (5)
          MaxResets,    \* MAX_RESETS_PER_HOUR (3)
          RequireVerifiedEmail,  \* the setting of that name
          MaxVersion    \* bound: password changes in a behaviour

ASSUME ConstantsAssumption == /\ MaxFailed \in Nat \ {0} /\ MaxResets \in Nat \ {0}
                              /\ MaxVersion \in Nat
                              /\ RequireVerifiedEmail \in BOOLEAN
                              /\ IsFiniteSet(Request) /\ IsFiniteSet(Token)

VARIABLES acct,      \* the account's row
          sessions,  \* the JWTs issued
          pc, loc,   \* where each request is, and what it keeps of the row it read
          guesses    \* history: wrong passwords refused since the counter or the lock was cleared

vars == <<tokenVars, acct, sessions, pc, loc, guesses>>

Version == 0..MaxVersion

AcctType == [tv : Version, active : BOOLEAN, verified : BOOLEAN, fails : 0..MaxFailed,
             locked : BOOLEAN]

SessionType == [tv : Version, proven : Version]

PCs == {"idle", "record_failed", "reset_failed", "count_resets", "invalidate", "insert",
        "reset_user", "reset_password", "mark_verified", "finish_reset", "change_password"}

LocType == [tv : Version, mayEnter : BOOLEAN]

NoLoc == [tv |-> 0, mayEnter |-> FALSE]

TypeOK == /\ TokensTypeOK
          /\ acct \in AcctType
          /\ sessions \in SUBSET SessionType
          /\ pc \in [Request -> PCs]
          /\ loc \in [Request -> LocType]
          /\ guesses \in Nat

\* A registered account, or one an administrator created as verified.
Init == /\ TokensInit
        /\ \E v \in BOOLEAN : acct = [tv |-> 0, active |-> TRUE, verified |-> v, fails |-> 0,
                                      locked |-> FALSE]
        /\ sessions = {}
        /\ pc = [r \in Request |-> "idle"]
        /\ loc = [r \in Request |-> NoLoc]
        /\ guesses = 0

-----------------------------------------------------------------------------

Goto(r, label) == pc' = [pc EXCEPT ![r] = label] /\ UNCHANGED loc

Done(r) == pc' = [pc EXCEPT ![r] = "idle"] /\ loc' = [loc EXCEPT ![r] = NoLoc]

\* SessionVerifier::verify: the live row decides.
Valid(s) == acct.active /\ s.tv = acct.tv

-----------------------------------------------------------------------------
(* login *)

\* The checks after the password: is_active, and a verified address where one is required.
MayEnter == acct.active /\ (RequireVerifiedEmail => acct.verified)

\* find_by_email, the lock and the password, checked against the row just read.
LoginRead(r) ==
    /\ pc[r] = "idle" /\ ~acct.locked
    /\ \/ Goto(r, "record_failed")
       \/ /\ pc' = [pc EXCEPT ![r] = "reset_failed"]
          /\ loc' = [loc EXCEPT ![r] = [tv |-> acct.tv, mayEnter |-> MayEnter]]
    /\ UNCHANGED <<tokenVars, acct, sessions, guesses>>

\* Seeded fault: the account is locked one wrong password too late.
CountFailureLate(row) == [row EXCEPT !.fails = IF @ < MaxFailed THEN @ + 1 ELSE @,
                                     !.locked = IF row.fails >= MaxFailed THEN TRUE ELSE @]

\* One statement counts and locks; beyond the limit the count is no longer told apart.
CountFailure(row) == [row EXCEPT !.fails = IF @ < MaxFailed THEN @ + 1 ELSE @,
                                 !.locked = IF row.fails + 1 >= MaxFailed THEN TRUE ELSE @]

RecordFailedLogin(r) ==
    /\ pc[r] = "record_failed"
    /\ acct' = CountFailure(acct)
    /\ guesses' = guesses + 1
    /\ Done(r)
    /\ UNCHANGED <<tokenVars, sessions>>

\* Seeded fault: the JWT carries the version the account has by now.
LoginSessionReread(l) == [tv |-> acct.tv, proven |-> l.tv]

\* jwt::issue with the token_version of the row the password was checked against.
LoginSession(l) == [tv |-> l.tv, proven |-> l.tv]

\* reset_failed_logins, then the checks on the row read before.
ResetFailedLogins(r) ==
    /\ pc[r] = "reset_failed"
    /\ acct' = [acct EXCEPT !.fails = 0, !.locked = FALSE]
    /\ guesses' = 0
    /\ sessions' = sessions \cup {s \in {LoginSession(loc[r])} : loc[r].mayEnter}
    /\ Done(r)
    /\ UNCHANGED tokenVars

-----------------------------------------------------------------------------
(* forgot, and the two statements of OneTimeTokenService::issue *)

\* For an inactive account the answer is the same and nothing happens.
ForgotRead(r) ==
    /\ pc[r] = "idle" /\ acct.active
    /\ Goto(r, "count_resets")
    /\ UNCHANGED <<tokenVars, acct, sessions, guesses>>

\* Seeded fault: one reset mail more than the limit.
UnderResetLimitInclusive == Cardinality(Issued) <= MaxResets

\* issued_within ... >= MAX_RESETS_PER_HOUR
UnderResetLimit == Cardinality(Issued) < MaxResets

CountResets(r) ==
    /\ pc[r] = "count_resets"
    /\ Goto(r, IF UnderResetLimit THEN "invalidate" ELSE "idle")
    /\ UNCHANGED <<tokenVars, acct, sessions, guesses>>

Invalidate(r) ==
    /\ pc[r] = "invalidate"
    /\ InvalidateUnused
    /\ Goto(r, "insert")
    /\ UNCHANGED <<acct, sessions, guesses>>

InsertToken(r) ==
    /\ pc[r] = "insert"
    /\ \E t \in Token : Insert(t)
    /\ Done(r)
    /\ UNCHANGED <<acct, sessions, guesses>>

-----------------------------------------------------------------------------
(* reset *)

ResetClaim(r) ==
    /\ pc[r] = "idle"
    /\ \E t \in Token : Claim(t)
    /\ Goto(r, "reset_user")
    /\ UNCHANGED <<acct, sessions, guesses>>

ResetUser(r) ==
    /\ pc[r] = "reset_user"
    /\ Goto(r, IF acct.active THEN "reset_password" ELSE "idle")
    /\ UNCHANGED <<tokenVars, acct, sessions, guesses>>

\* set_password_hash
NewPassword(row) == [row EXCEPT !.tv = @ + 1]

\* UsersService::set_password: the policy may reject the new password, and the token is spent.
ResetPassword(r) ==
    /\ pc[r] = "reset_password"
    /\ \/ acct.tv < MaxVersion /\ acct' = NewPassword(acct) /\ Goto(r, "mark_verified")
       \/ Done(r) /\ UNCHANGED acct
    /\ UNCHANGED <<tokenVars, sessions, guesses>>

\* mark_email_verified: the link proved control of the inbox.
MarkVerified(r) ==
    /\ pc[r] = "mark_verified"
    /\ acct' = [acct EXCEPT !.verified = TRUE]
    /\ Goto(r, "finish_reset")
    /\ UNCHANGED <<tokenVars, sessions, guesses>>

\* The other reset links stop working.
FinishReset(r) ==
    /\ pc[r] = "finish_reset"
    /\ InvalidateUnused
    /\ Done(r)
    /\ UNCHANGED <<acct, sessions, guesses>>

-----------------------------------------------------------------------------
(* change *)

\* A live session and the current password; a wrong one ends here and is not counted.
ChangeRead(r) ==
    /\ pc[r] = "idle" /\ (\E s \in sessions : Valid(s))
    /\ Goto(r, "change_password")
    /\ UNCHANGED <<tokenVars, acct, sessions, guesses>>

ChangePassword(r) ==
    /\ pc[r] = "change_password"
    /\ \/ acct.tv < MaxVersion /\ acct' = NewPassword(acct)
       \/ UNCHANGED acct
    /\ Done(r)
    /\ UNCHANGED <<tokenVars, sessions, guesses>>

-----------------------------------------------------------------------------
(* Time, administrators, and requests cut short *)

Expire == /\ \E t \in Token : Lapse(t)
          /\ UNCHANGED <<acct, sessions, pc, loc, guesses>>

\* locked_until passes; the count of failures stays.
LockExpires == /\ acct.locked
               /\ acct' = [acct EXCEPT !.locked = FALSE]
               /\ guesses' = 0
               /\ UNCHANGED <<tokenVars, sessions, pc, loc>>

\* An administrator deactivates the account, or activates it again.
ToggleActive == /\ acct' = [acct EXCEPT !.active = ~@]
                /\ UNCHANGED <<tokenVars, sessions, pc, loc, guesses>>

\* The handler's future is dropped at an await: the client left, or 10 seconds passed.
Drop(r) == /\ pc[r] # "idle"
           /\ Done(r)
           /\ UNCHANGED <<tokenVars, acct, sessions, guesses>>

-----------------------------------------------------------------------------

Handler(r) ==
    \/ LoginRead(r) \/ RecordFailedLogin(r) \/ ResetFailedLogins(r)
    \/ ForgotRead(r) \/ CountResets(r) \/ Invalidate(r) \/ InsertToken(r)
    \/ ResetClaim(r) \/ ResetUser(r) \/ ResetPassword(r) \/ MarkVerified(r) \/ FinishReset(r)
    \/ ChangeRead(r) \/ ChangePassword(r)

Next == \/ \E r \in Request : Handler(r) \/ Drop(r)
        \/ Expire \/ LockExpires \/ ToggleActive

Spec == Init /\ [][Next]_vars

-----------------------------------------------------------------------------
(* Properties; TokensWorkOnce is in OneTimeTokens *)

\* A session works only as long as the password it was opened with is the account's, even when
\* the password was replaced while the login was under way (credentials.rs: "every token issued
\* before this call stops working immediately").
SessionsDieWithPassword == \A s \in sessions : Valid(s) => s.proven = acct.tv

\* Between two unlockings no more wrong passwords are refused than the limit and the requests
\* that were already past the check when it was reached (record_failed_login: "a burst of
\* concurrent wrong-password requests cannot ... all decide not to lock").
GuessesAreBounded == guesses <= MaxFailed - 1 + Cardinality(Request)

\* The limit on reset mails can be passed by the requests that counted at the same time, and
\* by no more (forgot_password.rs).  README.md:402 promises the limit itself, "at most 3 reset
\* emails per account per hour", and so does password_reset/mod.rs:14.  The code does not keep that:
\* requests that have all read the count before any of them inserts its token all send a mail.
ResetsAreBounded == Cardinality(Issued) <= MaxResets - 1 + Cardinality(Request)

=============================================================================
