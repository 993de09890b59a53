-------------------------- MODULE TwoFactorProofs ---------------------------
(***************************************************************************)
(* For any number of concurrent requests: a pending login and a recovery   *)
(* code open one session each, login enforces a confirmed secret, and no   *)
(* recovery code outlives the enrolment it belongs to.                     *)
(***************************************************************************)
EXTENDS TwoFactor, TLAPS

\* A token is claimed once.
TokensInv == \A t \in Token : uses[t] <= 1 /\ (tokens[t] # "used" => uses[t] = 0)

\* A code that can still be claimed, or is yet to be generated, has never been claimed.
CodesInv == /\ codes \subseteq 1..batches
            /\ \A c \in Batch : /\ claimed[c] <= 1
                                /\ (c \in codes \/ c > batches) => claimed[c] = 0

\* From the right code on, the secret is a confirmed one, unless it was changed meanwhile.
SecretInv == (acct.totp \/ Confirming) /\ ~restarted => acct.secret \in confirmed

\* A pending login opens a session only where it is claimed.
OpenedInv == \A t \in Token : opened[t] <= uses[t]

\* A claimed code is in the hands of one request, and has opened no session before that request
\* opens one.
EnteredInv ==
    /\ \A c \in Batch : entered[c] <= 1 /\ (claimed[c] = 0 => entered[c] = 0)
    /\ \A r \in Request : \A c \in loc[r].code : claimed[c] # 0 /\ entered[c] = 0
    /\ \A r, q \in Request : loc[r].code \cap loc[q].code # {} => r = q

\* What was there when the DELETE of a request ran and is still there, that DELETE has found.
OutdatedInv ==
    /\ outdated \subseteq 1..batches
    /\ \A r \in Request : pc[r] = "commit_codes" =>
          /\ loc[r].older <= batches
          /\ \A c \in codes : c <= loc[r].older => c \in loc[r].seen

TwoFactorInv == /\ TypeOK /\ TokensInv /\ CodesInv /\ SecretInv
                /\ OpenedInv /\ EnteredInv /\ OutdatedInv /\ OldCodesAreGone

-----------------------------------------------------------------------------
(* The statements on auth_tokens *)

\* Every statement keeps the table well formed and its tokens single-use.
LEMMA StatementsKeepTokens ==
  ASSUME TokensTypeOK, TokensInv,
         \/ \E t \in Token : Insert(t) \/ Claim(t) \/ Lapse(t)
         \/ InvalidateUnused
         \/ UNCHANGED tokenVars
  PROVE  TokensTypeOK' /\ TokensInv'
<1> USE DEF TokensTypeOK, TokensInv
<1>1. ASSUME NEW t \in Token, Insert(t) PROVE TokensTypeOK' /\ TokensInv'
  BY <1>1 DEF Insert
<1>2. ASSUME NEW t \in Token, Claim(t) PROVE TokensTypeOK' /\ TokensInv'
  BY <1>2 DEF Claim, Claimable, Live
<1>3. ASSUME NEW t \in Token, Lapse(t) PROVE TokensTypeOK' /\ TokensInv'
  BY <1>3 DEF Lapse, Live
<1>4. CASE InvalidateUnused
  BY <1>4 DEF InvalidateUnused, Live
<1>5. CASE UNCHANGED tokenVars
  BY <1>5 DEF tokenVars
<1> QED
  BY <1>1, <1>2, <1>3, <1>4, <1>5

LEMMA TokensStarted ==
  ASSUME TokensInit
  PROVE  TokensTypeOK /\ TokensInv
  BY DEF TokensInit, TokensTypeOK, TokensInv

-----------------------------------------------------------------------------
(* The requests *)

LEMMA NoLocTyped == NoLoc \in LocType
  BY ConstantsAssumption DEF NoLoc, LocType, Version

LEMMA RowTyped ==
  ASSUME NEW row \in AcctType, NEW b \in BOOLEAN, NEW n \in 0..MaxSecrets
  PROVE  /\ [row EXCEPT !.totp = b] \in AcctType
         /\ [row EXCEPT !.totp = b, !.secret = n] \in AcctType
         /\ [row EXCEPT !.secret = n] \in AcctType
         /\ [row EXCEPT !.active = b] \in AcctType
  BY DEF AcctType

\* The same for the values the statements write.
LEMMA RowsWritten ==
  ASSUME NEW row \in AcctType
  PROVE  /\ [row EXCEPT !.totp = TRUE] \in AcctType
         /\ Disabled(row) \in AcctType
         /\ [row EXCEPT !.active = ~@] \in AcctType
<1>1. 0 \in 0..MaxSecrets
  BY ConstantsAssumption
<1>2. TRUE \in BOOLEAN /\ FALSE \in BOOLEAN /\ (~row.active) \in BOOLEAN
  BY Zenon
<1> QED
  BY <1>1, <1>2, RowTyped, Zenon DEF Disabled

\* The pending tokens are only ever changed by the statements of OneTimeTokens.
LEMMA TokensStep == TypeOK /\ TokensInv /\ [Next]_vars => TokensTypeOK' /\ TokensInv'
<1> SUFFICES ASSUME TypeOK, TokensInv, [Next]_vars PROVE TokensTypeOK' /\ TokensInv'
  OBVIOUS
<1> DEFINE Statement == \/ \E t \in Token : Insert(t) \/ Claim(t) \/ Lapse(t)
                        \/ InvalidateUnused
                        \/ UNCHANGED tokenVars
<1>1. ASSUME NEW r \in Request, Redeem(r) PROVE Statement
  <2>1. loc[r].token \subseteq Token
    BY DEF TypeOK, LocType
  <2> QED
    BY <1>1, <2>1 DEF Redeem
<1>2. ASSUME NEW r \in Request, Handler(r) \/ Drop(r), ~Redeem(r) PROVE Statement
  BY <1>2 DEF Handler, Drop, LoginRead, Invalidate, InsertToken, SetupRead, StoreSecret,
              ConfirmRead, EnableTotp, ReplaceDelete, ReplaceCommit, DisableRead, DisableTotp,
              DeleteCodes, Peek, VerifyRead, ClaimCode
<1>3. ASSUME Expire \/ NewPassword \/ ToggleActive \/ UNCHANGED vars PROVE Statement
  BY <1>3 DEF Expire, NewPassword, ToggleActive, vars
<1>4. Statement
  BY <1>1, <1>2, <1>3 DEF Next
<1> QED
  BY <1>4, StatementsKeepTokens DEF TypeOK

LEMMA TypeStep == TypeOK /\ TokensInv /\ [Next]_vars => TypeOK'
<1> SUFFICES ASSUME TypeOK, TokensInv, [Next]_vars PROVE TypeOK'
  OBVIOUS
<1>t. TokensTypeOK'
  BY TokensStep
<1> USE <1>t, NoLocTyped, ConstantsAssumption DEF TypeOK, histories, codeHistories
<1>1. ASSUME NEW r \in Request, LoginRead(r) PROVE TypeOK'
  BY <1>1 DEF LoginRead, Goto, PCs, AcctType
<1>2. ASSUME NEW r \in Request, Invalidate(r) \/ InsertToken(r) \/ SetupRead(r) \/ DisableRead(r) \/ Drop(r)
      PROVE TypeOK'
  BY <1>2 DEF Invalidate, InsertToken, SetupRead, DisableRead, Drop, Goto, GotoWith, Done, PCs
<1>3. ASSUME NEW r \in Request, StoreSecret(r) PROVE TypeOK'
  <2>1. secrets + 1 \in 0..MaxSecrets
    BY <1>3 DEF StoreSecret
  <2>2. acct' \in AcctType
    BY <1>3, <2>1, RowTyped DEF StoreSecret
  <2>3. restarted' \in BOOLEAN
    BY <1>3, Zenon DEF StoreSecret
  <2> QED
    BY <1>3, <2>1, <2>2, <2>3 DEF StoreSecret, GotoWith, Done, PCs
<1>4. ASSUME NEW r \in Request, ConfirmRead(r) PROVE TypeOK'
  <2>1. acct.secret \in 1..MaxSecrets
    BY <1>4 DEF ConfirmRead, AcctType
  <2> QED
    BY <1>4, <2>1 DEF ConfirmRead, Goto, PCs
<1>5. ASSUME NEW r \in Request, EnableTotp(r) \/ DisableTotp(r) PROVE TypeOK'
  <2>1. acct' \in AcctType
    BY <1>5, RowsWritten, Zenon DEF EnableTotp, DisableTotp
  <2>2. restarted' \in BOOLEAN
    BY <1>5, Zenon DEF EnableTotp, DisableTotp, Confirming
  <2> QED
    BY <1>5, <2>1, <2>2 DEF EnableTotp, DisableTotp, Goto, PCs
<1>6. ASSUME NEW r \in Request, ReplaceDelete(r) PROVE TypeOK'
  <2>1. [loc[r] EXCEPT !.seen = codes, !.older = batches] \in LocType
    BY DEF LocType
  <2> QED
    BY <1>6, <2>1 DEF ReplaceDelete, GotoWith, PCs
<1>7. ASSUME NEW r \in Request, ReplaceCommit(r) PROVE TypeOK'
  <2>1. batches + 1 \in Batch
    BY <1>7 DEF ReplaceCommit, Batch
  <2>2. codes' \in SUBSET Batch
    BY <1>7, <2>1 DEF ReplaceCommit, Replaced
  <2>3. batches' \in 0..MaxBatches
    BY <1>7 DEF ReplaceCommit
  <2>4. outdated' \in SUBSET Batch
    <3>1. loc[r].older \in Nat /\ loc[r].older <= MaxBatches
      BY DEF LocType
    <3>2. 1..loc[r].older \subseteq Batch /\ outdated \subseteq Batch
      BY <3>1 DEF Batch
    <3> QED
      BY <1>7, <3>2 DEF ReplaceCommit
  <2> QED
    BY <1>7, <2>2, <2>3, <2>4 DEF ReplaceCommit, GotoWith, Done, PCs
<1>8. ASSUME NEW r \in Request, DeleteCodes(r) PROVE TypeOK'
  BY <1>8 DEF DeleteCodes, GotoWith, Done, PCs, Batch
<1>9. ASSUME NEW r \in Request, Peek(r) PROVE TypeOK'
  <2>1. \A t \in Token : [NoLoc EXCEPT !.token = {t}] \in LocType
    BY DEF NoLoc, LocType
  <2> QED
    BY <1>9, <2>1 DEF Peek, GotoWith, PCs
<1>10. ASSUME NEW r \in Request, VerifyRead(r) PROVE TypeOK'
  <2>1. [loc[r] EXCEPT !.tv = acct.tv] \in LocType
    BY DEF LocType, AcctType
  <2> QED
    BY <1>10, <2>1 DEF VerifyRead, GotoWith, Done, PCs
<1>11. ASSUME NEW r \in Request, ClaimCode(r) PROVE TypeOK'
  <2>1. \A c \in codes : [loc[r] EXCEPT !.code = {c}] \in LocType
    BY DEF LocType
  <2> QED
    BY <1>11, <2>1 DEF ClaimCode, Used, GotoWith, Done, PCs
<1>12. ASSUME NEW r \in Request, Redeem(r) PROVE TypeOK'
  <2>1. sessions' \in SUBSET Version /\ opened' \in [Token -> Nat] /\ entered' \in [Batch -> Nat]
    BY <1>12 DEF Redeem, OpenSession, LocType
  <2> QED
    BY <1>12, <2>1 DEF Redeem, GotoWith, Done, PCs
<1>13. CASE Expire
  BY <1>13 DEF Expire
<1>14. CASE NewPassword
  BY <1>14 DEF NewPassword, AcctType, Version
<1>15. CASE ToggleActive
  <2>1. acct' \in AcctType
    BY <1>15, RowsWritten, Zenon DEF ToggleActive
  <2> QED
    BY <1>15, <2>1 DEF ToggleActive
<1>16. CASE UNCHANGED vars
  BY <1>16 DEF vars
<1> QED
  BY <1>1, <1>2, <1>3, <1>4, <1>5, <1>6, <1>7, <1>8, <1>9, <1>10, <1>11, <1>12, <1>13, <1>14,
     <1>15, <1>16 DEF Next, Handler

-----------------------------------------------------------------------------

\* Codes only come from a new batch and only leave by being claimed or deleted.
LEMMA CodesStep == TypeOK /\ CodesInv /\ [Next]_vars => CodesInv'
<1> SUFFICES ASSUME TypeOK, CodesInv, [Next]_vars PROVE CodesInv'
  OBVIOUS
<1> USE ConstantsAssumption DEF TypeOK, CodesInv, histories, codeHistories
<1>1. ASSUME NEW r \in Request, ReplaceCommit(r) PROVE CodesInv'
  <2>1. /\ batches' = batches + 1 /\ claimed' = claimed
        /\ codes' \subseteq codes \cup {batches + 1}
    BY <1>1 DEF ReplaceCommit, Replaced
  <2> QED
    BY <2>1 DEF Batch
<1>2. ASSUME NEW r \in Request, DeleteCodes(r) PROVE CodesInv'
  BY <1>2 DEF DeleteCodes
<1>3. ASSUME NEW r \in Request, ClaimCode(r) PROVE CodesInv'
  <2>1. ASSUME NEW c \in codes, codes' = Used(c), claimed' = [claimed EXCEPT ![c] = @ + 1]
        PROVE CodesInv'
    <3>1. c \in Batch /\ claimed[c] = 0 /\ batches' = batches
      BY <1>3 DEF ClaimCode
    <3>2. claimed'[c] = 1 /\ \A d \in Batch : d # c => claimed'[d] = claimed[d]
      BY <2>1, <3>1
    <3>3. c \notin codes' /\ codes' \subseteq codes /\ c <= batches
      BY <2>1, <3>1 DEF Used
    <3> QED
      BY <3>1, <3>2, <3>3 DEF Batch
  <2>2. CASE UNCHANGED <<codes, claimed>>
    BY <1>3, <2>2 DEF ClaimCode
  <2> QED
    BY <1>3, <2>1, <2>2 DEF ClaimCode
<1>4. ASSUME NEW r \in Request, Handler(r) \/ Drop(r), ~ReplaceCommit(r), ~DeleteCodes(r), ~ClaimCode(r)
      PROVE CodesInv'
  <2>1. UNCHANGED <<codes, batches, claimed>>
    BY <1>4 DEF Handler, Drop, LoginRead, Invalidate, InsertToken, SetupRead, StoreSecret,
                ConfirmRead, EnableTotp, ReplaceDelete, DisableRead, DisableTotp, Peek,
                VerifyRead, Redeem
  <2> QED
    BY <2>1
<1>5. CASE Expire \/ NewPassword \/ ToggleActive
  BY <1>5 DEF Expire, NewPassword, ToggleActive
<1>6. CASE UNCHANGED vars
  BY <1>6 DEF vars
<1> QED
  BY <1>1, <1>2, <1>3, <1>4, <1>5, <1>6 DEF Next

-----------------------------------------------------------------------------

\* The statements that change the secret, turn two-factor on or check a code; the rest change
\* neither the secret nor who is confirming, except that a confirmation may be dropped.
LEMMA SecretStep == TypeOK /\ SecretInv /\ [Next]_vars => SecretInv'
<1> SUFFICES ASSUME TypeOK, SecretInv, [Next]_vars PROVE SecretInv'
  OBVIOUS
<1> USE DEF TypeOK, SecretInv, Confirming, histories
<1>1. ASSUME NEW r \in Request, StoreSecret(r) PROVE SecretInv'
  <2>1. acct'.totp = acct.totp
    BY <1>1 DEF StoreSecret, AcctType
  <2>2. Confirming' => Confirming
    BY <1>1 DEF StoreSecret, Done, GotoWith
  <2> QED
    BY <1>1, <2>1, <2>2 DEF StoreSecret
<1>2. ASSUME NEW r \in Request, DisableTotp(r) PROVE SecretInv'
  <2>1. acct'.totp = FALSE
    BY <1>2 DEF DisableTotp, Disabled, AcctType
  <2>2. Confirming' => Confirming
    BY <1>2 DEF DisableTotp, Goto
  <2> QED
    BY <1>2, <2>1, <2>2 DEF DisableTotp
<1>3. ASSUME NEW r \in Request, ConfirmRead(r) PROVE SecretInv'
  BY <1>3 DEF ConfirmRead
<1>4. ASSUME NEW r \in Request, EnableTotp(r) PROVE SecretInv'
  <2>1. acct'.secret = acct.secret /\ Confirming
    BY <1>4 DEF EnableTotp, AcctType
  <2> QED
    BY <1>4, <2>1 DEF EnableTotp
<1>5. ASSUME NEW r \in Request, Handler(r) \/ Drop(r), ~StoreSecret(r), ~DisableTotp(r),
             ~ConfirmRead(r), ~EnableTotp(r)
      PROVE SecretInv'
  <2>1. UNCHANGED <<acct, confirmed, restarted>>
    BY <1>5 DEF Handler, Drop, LoginRead, Invalidate, InsertToken, SetupRead, ReplaceDelete,
                ReplaceCommit, DisableRead, DeleteCodes, Peek, VerifyRead, ClaimCode, Redeem
  <2>2. Confirming' => Confirming
    BY <1>5 DEF Handler, Drop, LoginRead, Invalidate, InsertToken, SetupRead, ReplaceDelete,
                ReplaceCommit, DisableRead, DeleteCodes, Peek, VerifyRead, ClaimCode, Redeem,
                Goto, GotoWith, Done
  <2> QED
    BY <2>1, <2>2
<1>6. CASE Expire \/ NewPassword \/ ToggleActive
  <2>1. acct'.totp = acct.totp /\ acct'.secret = acct.secret
    BY <1>6 DEF Expire, NewPassword, ToggleActive, AcctType
  <2> QED
    BY <1>6, <2>1 DEF Expire, NewPassword, ToggleActive
<1>7. CASE UNCHANGED vars
  BY <1>7 DEF vars
<1> QED
  BY <1>1, <1>2, <1>3, <1>4, <1>5, <1>6, <1>7 DEF Next

-----------------------------------------------------------------------------

\* The requests that a step of r leaves alone.
LEMMA OthersKept ==
  ASSUME TypeOK, NEW r \in Request,
         (\E label : Goto(r, label)) \/ (\E label, l : GotoWith(r, label, l)) \/ Done(r)
  PROVE  \A q \in Request : q # r => pc'[q] = pc[q] /\ loc'[q] = loc[q]
  BY DEF TypeOK, Goto, GotoWith, Done

\* A session is opened for a claim of the token, never beside it.
LEMMA OpenedStep == TypeOK /\ OpenedInv /\ [Next]_vars => OpenedInv'
<1> SUFFICES ASSUME TypeOK, OpenedInv, [Next]_vars PROVE OpenedInv'
  OBVIOUS
<1> USE DEF TypeOK, TokensTypeOK, OpenedInv, histories, codeHistories
<1>1. ASSUME NEW r \in Request, Redeem(r) PROVE OpenedInv'
  <2>1. PICK t \in loc[r].token : \/ Claim(t) /\ OpenSession(r, t)
                                 \/ UNCHANGED <<tokenVars, opened>>
    BY <1>1 DEF Redeem
  <2>2. t \in Token
    BY DEF LocType
  <2>3. CASE Claim(t) /\ OpenSession(r, t)
    BY <2>2, <2>3 DEF Claim, OpenSession
  <2>4. CASE UNCHANGED <<tokenVars, opened>>
    BY <2>4 DEF tokenVars
  <2> QED
    BY <2>1, <2>3, <2>4
<1>2. ASSUME NEW r \in Request, Handler(r) \/ Drop(r), ~Redeem(r) PROVE OpenedInv'
  <2>1. UNCHANGED <<uses, opened>>
    BY <1>2 DEF Handler, Drop, LoginRead, Invalidate, InsertToken, SetupRead, StoreSecret,
                ConfirmRead, EnableTotp, ReplaceDelete, ReplaceCommit, DisableRead, DisableTotp,
                DeleteCodes, Peek, VerifyRead, ClaimCode, Insert, InvalidateUnused, tokenVars
  <2> QED
    BY <2>1
<1>3. CASE Expire \/ NewPassword \/ ToggleActive \/ UNCHANGED vars
  BY <1>3 DEF Expire, Lapse, NewPassword, ToggleActive, vars, tokenVars
<1> QED
  BY <1>1, <1>2, <1>3 DEF Next

\* A code is in one request's hands from its claim to the end of that request.
LEMMA EnteredStep == TypeOK /\ CodesInv /\ EnteredInv /\ [Next]_vars => EnteredInv'
<1> SUFFICES ASSUME TypeOK, CodesInv, EnteredInv, [Next]_vars PROVE EnteredInv'
  OBVIOUS
<1> USE DEF histories, codeHistories
<1>t. pc \in [Request -> PCs] /\ loc \in [Request -> LocType] /\ entered \in [Batch -> Nat]
  BY DEF TypeOK
<1>k. ASSUME \A q \in Request : loc'[q].code \subseteq loc[q].code, UNCHANGED <<claimed, entered>>
      PROVE  EnteredInv'
  BY <1>k DEF EnteredInv
<1>1. ASSUME NEW r \in Request, ClaimCode(r) PROVE EnteredInv'
  <2>1. \A q \in Request : q # r => loc'[q] = loc[q]
    BY <1>1, OthersKept DEF ClaimCode
  <2>2. ASSUME NEW c \in codes, claimed' = [claimed EXCEPT ![c] = @ + 1],
               GotoWith(r, "redeem", [loc[r] EXCEPT !.code = {c}])
        PROVE  EnteredInv'
    <3>1. c \in Batch /\ claimed[c] = 0 /\ claimed \in [Batch -> Nat]
      BY DEF TypeOK, CodesInv
    <3>2. claimed'[c] = 1 /\ \A d \in Batch : d # c => claimed'[d] = claimed[d]
      BY <2>2, <3>1
    <3>3. loc'[r].code = {c} /\ entered' = entered
      BY <1>1, <1>t, <2>2 DEF GotoWith, ClaimCode, LocType
    <3>4. entered[c] = 0 /\ \A q \in Request : c \notin loc[q].code
      BY <3>1 DEF EnteredInv
    <3>5. \A q \in Request : loc[q].code \subseteq Batch
      BY <1>t DEF LocType
    <3>6. \A q \in Request : \A d \in loc'[q].code : claimed'[d] # 0 /\ entered'[d] = 0
      BY <2>1, <3>2, <3>3, <3>4, <3>5 DEF EnteredInv
    <3>7. \A q, p \in Request : loc'[q].code \cap loc'[p].code # {} => q = p
      BY <2>1, <3>3, <3>4 DEF EnteredInv
    <3>8. \A d \in Batch : entered'[d] <= 1 /\ (claimed'[d] = 0 => entered'[d] = 0)
      BY <3>2, <3>3 DEF EnteredInv
    <3> QED
      BY <3>6, <3>7, <3>8 DEF EnteredInv
  <2>3. CASE Done(r) /\ UNCHANGED <<codes, claimed>>
    <3>1. loc'[r].code = {} /\ entered' = entered
      BY <1>1, <1>t, <2>3 DEF Done, GotoWith, NoLoc, ClaimCode
    <3> QED
      BY <1>k, <2>1, <2>3, <3>1
  <2> QED
    BY <1>1, <2>2, <2>3 DEF ClaimCode
<1>2. ASSUME NEW r \in Request, Redeem(r) PROVE EnteredInv'
  <2>1. loc'[r].code = {} /\ \A q \in Request : q # r => loc'[q] = loc[q]
    BY <1>2, <1>t, OthersKept DEF Redeem, Done, GotoWith, NoLoc
  <2>2. PICK t \in loc[r].token : OpenSession(r, t) \/ UNCHANGED entered
    BY <1>2 DEF Redeem
  <2>3. CASE UNCHANGED entered
    BY <1>2, <1>k, <2>1, <2>3 DEF Redeem
  <2>4. CASE OpenSession(r, t)
    <3>1. /\ \A c \in loc[r].code : entered[c] = 0 /\ claimed[c] # 0
          /\ claimed' = claimed
      BY <1>2 DEF EnteredInv, Redeem
    <3>2. /\ \A c \in Batch \ loc[r].code : entered'[c] = entered[c]
          /\ \A c \in Batch \cap loc[r].code : entered'[c] = 1
      BY <1>t, <2>4, <3>1 DEF OpenSession
    <3>3. \A q \in Request : q # r => loc[q].code \cap loc[r].code = {} /\ loc[q].code \subseteq Batch
      BY <1>t DEF EnteredInv, LocType
    <3>4. \A c \in Batch : entered'[c] <= 1 /\ (claimed'[c] = 0 => entered'[c] = 0)
      BY <3>1, <3>2 DEF EnteredInv
    <3>5. \A q \in Request : \A c \in loc'[q].code : claimed'[c] # 0 /\ entered'[c] = 0
      BY <2>1, <3>1, <3>2, <3>3 DEF EnteredInv
    <3>6. \A q, p \in Request : loc'[q].code \cap loc'[p].code # {} => q = p
      BY <2>1 DEF EnteredInv
    <3> QED
      BY <3>4, <3>5, <3>6 DEF EnteredInv
  <2> QED
    BY <2>2, <2>3, <2>4
<1>3. ASSUME NEW r \in Request, Handler(r) \/ Drop(r), ~ClaimCode(r), ~Redeem(r) PROVE EnteredInv'
  <2>1. UNCHANGED <<claimed, entered>>
    BY <1>3 DEF Handler, Drop, LoginRead, Invalidate, InsertToken, SetupRead, StoreSecret,
                ConfirmRead, EnableTotp, ReplaceDelete, ReplaceCommit, DisableRead, DisableTotp,
                DeleteCodes, Peek, VerifyRead
  <2>2. \A q \in Request : q # r => loc'[q] = loc[q]
    BY <1>3, OthersKept DEF Handler, Drop, LoginRead, Invalidate, InsertToken, SetupRead, StoreSecret,
                ConfirmRead, EnableTotp, ReplaceDelete, ReplaceCommit, DisableRead, DisableTotp,
                DeleteCodes, Peek, VerifyRead
  <2>3. loc'[r].code \subseteq loc[r].code
    <3>1. ASSUME UNCHANGED loc \/ Done(r) \/ \E label : Goto(r, label)
          PROVE  loc'[r].code \subseteq loc[r].code
      BY <1>t, <3>1 DEF Goto, GotoWith, Done, NoLoc
    <3>2. ASSUME ReplaceDelete(r) \/ VerifyRead(r) PROVE loc'[r].code \subseteq loc[r].code
      BY <1>t, <3>1, <3>2 DEF ReplaceDelete, VerifyRead, GotoWith, LocType
    <3>3. ASSUME Peek(r) PROVE loc'[r].code \subseteq loc[r].code
      BY <1>t, <3>3 DEF Peek, GotoWith, NoLoc
    <3>4. ASSUME Handler(r) \/ Drop(r), ~ClaimCode(r), ~Redeem(r), ~ReplaceDelete(r), ~VerifyRead(r), ~Peek(r)
          PROVE  UNCHANGED loc \/ Done(r) \/ \E label : Goto(r, label)
      BY <3>4 DEF Handler, Drop, LoginRead, Invalidate, InsertToken, SetupRead, StoreSecret,
                  ConfirmRead, EnableTotp, ReplaceCommit, DisableRead, DisableTotp, DeleteCodes
    <3> QED
      BY <1>3, <3>1, <3>2, <3>3, <3>4
  <2> QED
    BY <1>k, <2>1, <2>2, <2>3
<1>4. CASE Expire \/ NewPassword \/ ToggleActive \/ UNCHANGED vars
  BY <1>4, <1>k DEF Expire, NewPassword, ToggleActive, vars
<1> QED
  BY <1>1, <1>2, <1>3, <1>4 DEF Next

\* A commit takes away what was there at its DELETE; what came after it has a higher number.
LEMMA OutdatedStep ==
  TypeOK /\ CodesInv /\ OutdatedInv /\ OldCodesAreGone /\ [Next]_vars => OutdatedInv' /\ OldCodesAreGone'
<1> SUFFICES ASSUME TypeOK, CodesInv, OutdatedInv, OldCodesAreGone, [Next]_vars
             PROVE  OutdatedInv' /\ OldCodesAreGone'
  OBVIOUS
<1> USE DEF histories, codeHistories
<1>t. /\ pc \in [Request -> PCs] /\ loc \in [Request -> LocType] /\ batches \in Nat
      /\ codes \subseteq 1..batches /\ outdated \subseteq 1..batches
  BY ConstantsAssumption DEF TypeOK, CodesInv, OutdatedInv
<1>k. ASSUME codes' \subseteq codes, UNCHANGED <<outdated, batches>>,
             \A q \in Request : pc'[q] = "commit_codes" => pc[q] = "commit_codes" /\ loc'[q] = loc[q]
      PROVE  OutdatedInv' /\ OldCodesAreGone'
  BY <1>k DEF OutdatedInv, OldCodesAreGone
<1>1. ASSUME NEW r \in Request, ReplaceCommit(r) PROVE OutdatedInv' /\ OldCodesAreGone'
  <2>1. /\ pc[r] = "commit_codes" /\ batches' = batches + 1
        /\ codes' = (codes \ loc[r].seen) \cup {batches + 1} /\ outdated' = outdated \cup 1..loc[r].older
    BY <1>1 DEF ReplaceCommit, Replaced
  <2>2. pc'[r] = "idle" /\ \A q \in Request : q # r => pc'[q] = pc[q] /\ loc'[q] = loc[q]
    BY <1>1, <1>t DEF ReplaceCommit, Done, GotoWith
  <2>3. /\ loc[r].older \in Nat /\ loc[r].older <= batches
        /\ \A c \in codes : c <= loc[r].older => c \in loc[r].seen
    BY <1>t, <2>1, ConstantsAssumption DEF OutdatedInv, LocType
  <2>4. OldCodesAreGone'
    <3>1. \A c \in codes \ loc[r].seen : c \notin outdated /\ c \notin 1..loc[r].older
      BY <2>3 DEF OldCodesAreGone
    <3>2. batches + 1 \notin outdated /\ batches + 1 \notin 1..loc[r].older
      BY <1>t, <2>3
    <3> QED
      BY <2>1, <3>1, <3>2 DEF OldCodesAreGone
  <2>5. outdated' \subseteq 1..batches'
    <3>1. 1..loc[r].older \subseteq 1..batches /\ 1..batches \subseteq 1..(batches + 1)
      BY <1>t, <2>3
    <3> QED
      BY <1>t, <2>1, <3>1
  <2>6. ASSUME NEW q \in Request, pc'[q] = "commit_codes"
        PROVE  /\ loc'[q].older <= batches'
               /\ \A c \in codes' : c <= loc'[q].older => c \in loc'[q].seen
    <3>1. loc'[q] = loc[q] /\ loc[q].older \in Nat /\ loc[q].older <= batches
          /\ \A c \in codes : c <= loc[q].older => c \in loc[q].seen
      BY <1>t, <2>2, <2>6, ConstantsAssumption DEF OutdatedInv, LocType
    <3>2. ~(batches + 1 <= loc[q].older)
      BY <1>t, <3>1
    <3> QED
      BY <1>t, <2>1, <3>1, <3>2
  <2> QED
    BY <2>4, <2>5, <2>6 DEF OutdatedInv
<1>2. ASSUME NEW r \in Request, ReplaceDelete(r) PROVE OutdatedInv' /\ OldCodesAreGone'
  <2>1. /\ UNCHANGED <<codes, outdated, batches>>
        /\ loc'[r].seen = codes /\ loc'[r].older = batches
    BY <1>2, <1>t DEF ReplaceDelete, GotoWith, LocType
  <2>2. \A q \in Request : q # r => pc'[q] = pc[q] /\ loc'[q] = loc[q]
    BY <1>2, <1>t DEF ReplaceDelete, GotoWith
  <2> QED
    BY <1>t, <2>1, <2>2 DEF OutdatedInv, OldCodesAreGone
<1>3. ASSUME NEW r \in Request, DeleteCodes(r) PROVE OutdatedInv' /\ OldCodesAreGone'
  <2>1. /\ codes' = {} /\ outdated' = 1..batches /\ batches' = batches
        /\ pc'[r] = "idle" /\ \A q \in Request : q # r => pc'[q] = pc[q] /\ loc'[q] = loc[q]
    BY <1>3, <1>t DEF DeleteCodes, Done, GotoWith
  <2> QED
    BY <2>1 DEF OutdatedInv, OldCodesAreGone
<1>4. ASSUME NEW r \in Request, Handler(r) \/ Drop(r), ~ReplaceCommit(r), ~ReplaceDelete(r), ~DeleteCodes(r)
      PROVE OutdatedInv' /\ OldCodesAreGone'
  <2>1. codes' \subseteq codes /\ UNCHANGED <<outdated, batches>>
    BY <1>4 DEF Handler, Drop, LoginRead, Invalidate, InsertToken, SetupRead, StoreSecret,
                ConfirmRead, EnableTotp, DisableRead, DisableTotp, Peek, VerifyRead, ClaimCode, Used, Redeem
  <2>2. \A q \in Request : q # r => pc'[q] = pc[q] /\ loc'[q] = loc[q]
    BY <1>4, OthersKept DEF Handler, Drop, LoginRead, Invalidate, InsertToken, SetupRead, StoreSecret,
                ConfirmRead, EnableTotp, DisableRead, DisableTotp, Peek, VerifyRead, ClaimCode, Redeem
  <2>3. pc'[r] = "commit_codes" => pc[r] = "commit_codes" /\ loc'[r] = loc[r]
    BY <1>4, <1>t DEF Handler, Drop, LoginRead, Invalidate, InsertToken, SetupRead, StoreSecret,
                ConfirmRead, EnableTotp, DisableRead, DisableTotp, Peek, VerifyRead, ClaimCode, Redeem,
                Goto, GotoWith, Done
  <2> QED
    BY <1>k, <2>1, <2>2, <2>3
<1>5. CASE Expire \/ NewPassword \/ ToggleActive \/ UNCHANGED vars
  BY <1>5, <1>k DEF Expire, NewPassword, ToggleActive, vars
<1> QED
  BY <1>1, <1>2, <1>3, <1>4, <1>5 DEF Next

-----------------------------------------------------------------------------

LEMMA Started == Init => TwoFactorInv
<1> SUFFICES ASSUME Init PROVE TwoFactorInv
  OBVIOUS
<1>1. TokensTypeOK /\ TokensInv
  BY TokensStarted DEF Init
<1>2. acct \in AcctType
  BY ConstantsAssumption DEF Init, AcctType, Version
<1>3. restarted \in BOOLEAN
  BY Zenon DEF Init
<1>4. TypeOK
  BY <1>1, <1>2, <1>3, NoLocTyped, ConstantsAssumption DEF Init, TypeOK, PCs, Batch
<1>5. CodesInv
  BY ConstantsAssumption DEF Init, CodesInv, Batch
<1>6. SecretInv
  BY DEF Init, SecretInv, Confirming
<1>7. OpenedInv
  BY DEF Init, TokensInit, OpenedInv
<1>8. EnteredInv
  BY DEF Init, NoLoc, EnteredInv
<1>9. OutdatedInv /\ OldCodesAreGone
  BY DEF Init, OutdatedInv, OldCodesAreGone
<1> QED
  BY <1>1, <1>4, <1>5, <1>6, <1>7, <1>8, <1>9 DEF TwoFactorInv

LEMMA Inductive == Spec => []TwoFactorInv
<1>1. TwoFactorInv /\ [Next]_vars => TwoFactorInv'
  BY TypeStep, TokensStep, CodesStep, SecretStep, OpenedStep, EnteredStep, OutdatedStep DEF TwoFactorInv
<1> QED
  BY Started, <1>1, PTL DEF Spec

\* The account, the codes and the requests stay well formed.
THEOREM TypeCorrect == Spec => []TypeOK
<1>1. TwoFactorInv => TypeOK
  BY DEF TwoFactorInv
<1> QED
  BY <1>1, Inductive, PTL

\* A pending login and a recovery code open one session each at most, though the token is only
\* looked at before the code is checked and the code is spent before the token is (verify_login).
THEOREM SessionsHaveProofs == Spec => []ProofsOpenOneSession
<1>1. TwoFactorInv => ProofsOpenOneSession
  <2> SUFFICES ASSUME TwoFactorInv PROVE ProofsOpenOneSession
    OBVIOUS
  <2>1. ASSUME NEW t \in Token PROVE opened[t] <= 1
    <3>1. opened[t] \in Nat /\ uses[t] \in Nat /\ opened[t] <= uses[t] /\ uses[t] <= 1
      BY DEF TwoFactorInv, TypeOK, TokensTypeOK, OpenedInv, TokensInv
    <3> QED
      BY <3>1
  <2>2. \A c \in Batch : entered[c] <= 1
    BY DEF TwoFactorInv, EnteredInv
  <2> QED
    BY <2>1, <2>2 DEF ProofsOpenOneSession
<1> QED
  BY <1>1, Inductive, PTL

\* A recovery code is accepted once, whatever enrolments and removals happen around it.
THEOREM RecoveryCodesWorkOnce == Spec => []CodesWorkOnce
<1>1. TwoFactorInv => CodesWorkOnce
  BY DEF TwoFactorInv, CodesInv, CodesWorkOnce
<1> QED
  BY <1>1, Inductive, PTL

\* The secret login asks a code for was confirmed, unless it was changed while two-factor was on
\* or between the confirmation's check and its write (begin_setup, disable).
THEOREM ConfirmedIsEnforced == Spec => []EnforcedSecretIsConfirmed
<1>1. TwoFactorInv => EnforcedSecretIsConfirmed
  BY DEF TwoFactorInv, SecretInv, EnforcedSecretIsConfirmed
<1> QED
  BY <1>1, Inductive, PTL

\* No recovery code works that was there when a later batch was written or two-factor turned off,
\* for any number of enrolments and removals at once (replace_all in one transaction, disable).
THEOREM EarlierCodesAreGone == Spec => []OldCodesAreGone
<1>1. TwoFactorInv => OldCodesAreGone
  BY DEF TwoFactorInv
<1> QED
  BY <1>1, Inductive, PTL

=============================================================================
