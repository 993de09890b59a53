----------------------------- MODULE TwoFactor ------------------------------
(***************************************************************************)
(* Two-factor sign-in of one account: enrolment (begin_setup,              *)
(* confirm_setup), disable, the hand-off from login to a pending token,    *)
(* and verify_login with an authenticator code or a recovery code.         *)
(*                                                                         *)
(* Each database statement is a step; what follows it up to the next await *)
(* belongs to the step.  A secret and a batch of recovery codes are named  *)
(* by the order they were generated in, and one code stands for its batch. *)
(* A caller may hold any session that is valid, the password of the row it *)
(* is checked against, the authenticator, and any recovery code.  The      *)
(* lockout of login and the reset links are PasswordLogin; a new password  *)
(* is here the one statement that bumps token_version.                     *)
(***************************************************************************)
EXTENDS OneTimeTokens

CONSTANTS Request,      \* the tasks serving requests
          MaxVersion,   \* bound: password changes in a behaviour
          MaxSecrets,   \* bound: authenticator secrets generated
          MaxBatches    \* bound: batches of recovery codes generated

ASSUME ConstantsAssumption == /\ MaxVersion \in Nat /\ MaxSecrets \in Nat /\ MaxBatches \in Nat
                              /\ IsFiniteSet(Request)

VARIABLES acct,      \* the account's row
          codes,     \* the recovery codes that are not used
          sessions,  \* the token_version of the JWTs issued
          pc, loc,   \* where each request is, and its locals
          secrets,   \* how many authenticator secrets were generated
          batches,   \* how many batches of recovery codes were generated
          confirmed, \* history: the secrets a right code was given for
          restarted, \* history: the secret was changed while enforced, or about to be
          claimed,   \* history: how often a recovery code was claimed
          outdated,  \* history: the batches of codes that something has replaced or deleted
          opened,    \* history: the sessions opened with a pending login
          entered    \* history: the sessions opened with a recovery code

codeHistories == <<outdated, opened, entered>>

histories == <<confirmed, restarted, claimed, codeHistories>>

vars == <<tokenVars, acct, codes, sessions, pc, loc, secrets, batches, histories>>

Version == 0..MaxVersion
Batch == 1..MaxBatches

AcctType == [tv : Version, active : BOOLEAN, totp : BOOLEAN, secret : 0..MaxSecrets]

PCs == {"idle", "invalidate", "insert", "store_secret", "enable", "replace", "commit_codes",
        "disable", "delete_codes", "verify", "claim_code", "redeem"}

\* The token_version read, the pending token presented, the recovery code claimed, the codes the
\* DELETE found; history: how many batches there had been when it ran.
LocType == [tv : Version, token : SUBSET Token, code : SUBSET Batch, seen : SUBSET Batch,
            older : 0..MaxBatches]

NoLoc == [tv |-> 0, token |-> {}, code |-> {}, seen |-> {}, older |-> 0]

TypeOK == /\ TokensTypeOK
          /\ acct \in AcctType
          /\ codes \in SUBSET Batch
          /\ sessions \in SUBSET Version
          /\ pc \in [Request -> PCs]
          /\ loc \in [Request -> LocType]
          /\ secrets \in 0..MaxSecrets /\ batches \in 0..MaxBatches
          /\ confirmed \in SUBSET (1..MaxSecrets)
          /\ restarted \in BOOLEAN
          /\ claimed \in [Batch -> Nat]
          /\ outdated \in SUBSET Batch
          /\ opened \in [Token -> Nat] /\ entered \in [Batch -> Nat]

Init == /\ TokensInit
        /\ acct = [tv |-> 0, active |-> TRUE, totp |-> FALSE, secret |-> 0]
        /\ codes = {} /\ sessions = {}
        /\ pc = [r \in Request |-> "idle"]
        /\ loc = [r \in Request |-> NoLoc]
        /\ secrets = 0 /\ batches = 0 /\ confirmed = {} /\ restarted = FALSE
        /\ claimed = [c \in Batch |-> 0]
        /\ outdated = {}
        /\ opened = [t \in Token |-> 0] /\ entered = [c \in Batch |-> 0]

-----------------------------------------------------------------------------

Goto(r, label) == pc' = [pc EXCEPT ![r] = label] /\ UNCHANGED loc

GotoWith(r, label, l) == pc' = [pc EXCEPT ![r] = label] /\ loc' = [loc EXCEPT ![r] = l]

Done(r) == GotoWith(r, "idle", NoLoc)

\* A session the verifier accepts, and require_active_user.
Authenticated == acct.active /\ acct.tv \in sessions

-----------------------------------------------------------------------------
(* login, with the right password *)

LoginRead(r) ==
    /\ pc[r] = "idle" /\ acct.active
    /\ IF acct.totp THEN Goto(r, "invalidate") /\ UNCHANGED sessions
                    ELSE sessions' = sessions \cup {acct.tv} /\ UNCHANGED <<pc, loc>>
    /\ UNCHANGED <<tokenVars, acct, codes, secrets, batches, histories>>

\* OneTimeTokenService::issue
Invalidate(r) ==
    /\ pc[r] = "invalidate"
    /\ InvalidateUnused
    /\ Goto(r, "insert")
    /\ UNCHANGED <<acct, codes, sessions, secrets, batches, histories>>

InsertToken(r) ==
    /\ pc[r] = "insert"
    /\ \E t \in Token : Insert(t)
    /\ Done(r)
    /\ UNCHANGED <<acct, codes, sessions, secrets, batches, histories>>

-----------------------------------------------------------------------------
(* begin_setup, confirm_setup *)

\* Whether or not two-factor is on already.
SetupRead(r) ==
    /\ pc[r] = "idle" /\ Authenticated
    /\ Goto(r, "store_secret")
    /\ UNCHANGED <<tokenVars, acct, codes, sessions, secrets, batches, histories>>

\* A request has checked a code and is about to turn two-factor on.
Confirming == \E q \in Request : pc[q] = "enable"

\* Seeded fault: two-factor is on as soon as there is a secret.
StoreEnforced(r) ==
    /\ pc[r] = "store_secret" /\ secrets < MaxSecrets
    /\ secrets' = secrets + 1
    /\ acct' = [acct EXCEPT !.secret = secrets + 1, !.totp = TRUE]
    /\ restarted' = (restarted \/ acct.totp \/ Confirming)
    /\ Done(r)
    /\ UNCHANGED <<tokenVars, codes, sessions, batches, confirmed, claimed, codeHistories>>

\* set_pending_totp_secret, which asks neither whether two-factor is on nor whether the secret
\* it replaces has just been confirmed.
StoreSecret(r) ==
    /\ pc[r] = "store_secret" /\ secrets < MaxSecrets
    /\ secrets' = secrets + 1
    /\ acct' = [acct EXCEPT !.secret = secrets + 1]
    /\ restarted' = (restarted \/ acct.totp \/ Confirming)
    /\ Done(r)
    /\ UNCHANGED <<tokenVars, codes, sessions, batches, confirmed, claimed, codeHistories>>

\* Not on already, a secret stored, and a right code for it.
ConfirmRead(r) ==
    /\ pc[r] = "idle" /\ Authenticated
    /\ ~acct.totp /\ acct.secret # 0
    /\ confirmed' = confirmed \cup {acct.secret}
    /\ Goto(r, "enable")
    /\ UNCHANGED <<tokenVars, acct, codes, sessions, secrets, batches, restarted, claimed, codeHistories>>

EnableTotp(r) ==
    /\ pc[r] = "enable"
    /\ acct' = [acct EXCEPT !.totp = TRUE]
    /\ Goto(r, "replace")
    /\ UNCHANGED <<tokenVars, codes, sessions, secrets, batches, histories>>

\* replace_all, a transaction: the DELETE locks the rows it finds ...
ReplaceDelete(r) ==
    /\ pc[r] = "replace"
    /\ GotoWith(r, "commit_codes", [loc[r] EXCEPT !.seen = codes, !.older = batches])
    /\ UNCHANGED <<tokenVars, acct, codes, sessions, secrets, batches, histories>>

\* Seeded fault: the new codes are added to the old ones.
KeptBesides(c, seen) == codes \cup {c}

\* ... and the commit takes them away and shows the new codes.
Replaced(c, seen) == (codes \ seen) \cup {c}

ReplaceCommit(r) ==
    /\ pc[r] = "commit_codes" /\ batches < MaxBatches
    /\ batches' = batches + 1
    /\ codes' = Replaced(batches + 1, loc[r].seen)
    /\ outdated' = outdated \cup 1..loc[r].older
    /\ Done(r)
    /\ UNCHANGED <<tokenVars, acct, sessions, secrets, confirmed, restarted, claimed, opened, entered>>

-----------------------------------------------------------------------------
(* disable: needs the password *)

DisableRead(r) ==
    /\ pc[r] = "idle" /\ Authenticated
    /\ Goto(r, "disable")
    /\ UNCHANGED <<tokenVars, acct, codes, sessions, secrets, batches, histories>>

\* disable_totp
Disabled(row) == [row EXCEPT !.totp = FALSE, !.secret = 0]

DisableTotp(r) ==
    /\ pc[r] = "disable"
    /\ acct' = Disabled(acct)
    /\ restarted' = Confirming
    /\ Goto(r, "delete_codes")
    /\ UNCHANGED <<tokenVars, codes, sessions, secrets, batches, confirmed, claimed, codeHistories>>

DeleteCodes(r) ==
    /\ pc[r] = "delete_codes"
    /\ codes' = {}
    /\ outdated' = 1..batches
    /\ Done(r)
    /\ UNCHANGED <<tokenVars, acct, sessions, secrets, batches, confirmed, restarted, claimed, opened,
                   entered>>

-----------------------------------------------------------------------------
(* verify_login *)

\* peek: the pending token is looked at and left for another attempt.
Peek(r) ==
    /\ pc[r] = "idle"
    /\ \E t \in Token : Live(t) /\ GotoWith(r, "verify", [NoLoc EXCEPT !.token = {t}])
    /\ UNCHANGED <<tokenVars, acct, codes, sessions, secrets, batches, histories>>

\* The user is read; a live code of the secret, something that may be a recovery code, or neither.
VerifyRead(r) ==
    /\ pc[r] = "verify"
    /\ \/ /\ acct.active /\ acct.totp /\ acct.secret # 0
          /\ \E label \in {"redeem", "claim_code"} :
                GotoWith(r, label, [loc[r] EXCEPT !.tv = acct.tv])
       \/ Done(r)
    /\ UNCHANGED <<tokenVars, acct, codes, sessions, secrets, batches, histories>>

\* Seeded fault: a recovery code is checked, not marked as used.
StillUnused(c) == codes

\* used_at = now
Used(c) == codes \ {c}

\* A row that a transaction is deleting is waited for, and then is not there.
ClaimCode(r) ==
    /\ pc[r] = "claim_code"
    /\ \/ \E c \in codes : /\ \A q \in Request : c \notin loc[q].seen
                           /\ codes' = Used(c)
                           /\ claimed' = [claimed EXCEPT ![c] = @ + 1]
                           /\ GotoWith(r, "redeem", [loc[r] EXCEPT !.code = {c}])
       \/ Done(r) /\ UNCHANGED <<codes, claimed>>
    /\ UNCHANGED <<tokenVars, acct, sessions, secrets, batches, confirmed, restarted, codeHistories>>

\* The JWT carries the version read in this second step.
OpenSession(r, t) ==
    /\ sessions' = sessions \cup {loc[r].tv}
    /\ opened' = [opened EXCEPT ![t] = @ + 1]
    /\ entered' = [c \in Batch |-> IF c \in loc[r].code THEN entered[c] + 1 ELSE entered[c]]

\* Seeded fault: the token is spent, and whether it still was there is not asked.
RedeemUnchecked(r) ==
    /\ pc[r] = "redeem"
    /\ \E t \in loc[r].token : OpenSession(r, t) /\ (Claim(t) \/ (~Claimable(t) /\ UNCHANGED tokenVars))
    /\ Done(r)
    /\ UNCHANGED <<acct, codes, secrets, batches, confirmed, restarted, claimed, outdated>>

\* Only now is the token spent.
Redeem(r) ==
    /\ pc[r] = "redeem"
    /\ \E t \in loc[r].token :
          \/ Claim(t) /\ OpenSession(r, t)
          \/ ~Claimable(t) /\ UNCHANGED <<tokenVars, sessions, opened, entered>>
    /\ Done(r)
    /\ UNCHANGED <<acct, codes, secrets, batches, confirmed, restarted, claimed, outdated>>

-----------------------------------------------------------------------------
(* Time, the rest of the system, and requests cut short *)

Expire == /\ \E t \in Token : Lapse(t)
          /\ UNCHANGED <<acct, codes, sessions, pc, loc, secrets, batches, histories>>

\* set_password_hash, of a change or a reset
NewPassword == /\ acct.tv < MaxVersion
               /\ acct' = [acct EXCEPT !.tv = @ + 1]
               /\ UNCHANGED <<tokenVars, codes, sessions, pc, loc, secrets, batches, histories>>

ToggleActive == /\ acct' = [acct EXCEPT !.active = ~@]
                /\ UNCHANGED <<tokenVars, codes, sessions, pc, loc, secrets, batches, histories>>

\* The handler's future is dropped at an await; an open transaction rolls back.
Drop(r) == /\ pc[r] # "idle"
           /\ Done(r)
           /\ UNCHANGED <<tokenVars, acct, codes, sessions, secrets, batches, histories>>

-----------------------------------------------------------------------------

Handler(r) ==
    \/ LoginRead(r) \/ Invalidate(r) \/ InsertToken(r)
    \/ SetupRead(r) \/ StoreSecret(r)
    \/ ConfirmRead(r) \/ EnableTotp(r) \/ ReplaceDelete(r) \/ ReplaceCommit(r)
    \/ DisableRead(r) \/ DisableTotp(r) \/ DeleteCodes(r)
    \/ Peek(r) \/ VerifyRead(r) \/ ClaimCode(r) \/ Redeem(r)

Next == \/ \E r \in Request : Handler(r) \/ Drop(r)
        \/ Expire \/ NewPassword \/ ToggleActive

Spec == Init /\ [][Next]_vars

-----------------------------------------------------------------------------
(* Properties *)

\* One pending login and one recovery code open one session each at most: the token is only
\* looked at when the code is checked, so that several requests with right codes may be past the
\* check with one token, and a code is spent before it is known whether the token still is there
\* (verify_login).
ProofsOpenOneSession == /\ \A t \in Token : opened[t] <= 1
                        /\ \A c \in Batch : entered[c] <= 1

\* A recovery code is accepted once, however many requests present it at the same time
\* (totp_recovery_code.rs, claim: "atomically consumes a matching, not-yet-used code").
CodesWorkOnce == \A c \in Batch : claimed[c] <= 1

\* No code works that had been there when a later batch was written or two-factor turned off,
\* whatever enrolments, sign-ins and dropped requests come between the statements (replace_all:
\* "must not leave old codes still valid").  A batch that another confirmation had yet to commit was
\* not there for its DELETE, and stays valid beside the new one.
OldCodesAreGone == codes \cap outdated = {}

\* "Two-factor is not enforced at login until confirm_setup proves the app has it too"
\* (begin_setup.rs): the secret that login asks a code for is one the user has shown a code of,
\* unless a secret was stored while two-factor was on, or a secret was stored or removed between
\* the code that was checked and the statement that turns two-factor on; the comment makes
\* no exception of these.
EnforcedSecretIsConfirmed == acct.totp /\ ~restarted => acct.secret \in confirmed

=============================================================================
