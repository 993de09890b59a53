--------------------------- MODULE OneTimeTokens ----------------------------
(***************************************************************************)
(* The table auth_tokens and the statements of AuthTokenRepository, as     *)
(* PasswordLogin (reset links) and TwoFactor (pending logins) use them.    *)
(* Every statement names one user and one purpose, so the rows of one      *)
(* user's one purpose are a table of their own; a statement is atomic, and *)
(* a service call made of two statements is two steps.                     *)
(***************************************************************************)
EXTENDS Naturals, FiniteSets

CONSTANT Token          \* the rows the table may ever hold: the bound on tokens issued

VARIABLES tokens,       \* "free" (never issued), "live", or "used" (used_at set, or expired)
          uses          \* history: how often claim found the row

tokenVars == <<tokens, uses>>

TokensTypeOK == /\ tokens \in [Token -> {"free", "live", "used"}]
                /\ uses \in [Token -> Nat]

TokensInit == /\ tokens = [t \in Token |-> "free"]
              /\ uses = [t \in Token |-> 0]

Live(t) == tokens[t] = "live"

\* insert
Insert(t) == tokens[t] = "free" /\ tokens' = [tokens EXCEPT ![t] = "live"] /\ UNCHANGED uses

\* invalidate_unused
InvalidateUnused == /\ tokens' = [t \in Token |-> IF Live(t) THEN "used" ELSE tokens[t]]
                    /\ UNCHANGED uses

\* Seeded fault: a claim that does not look at used_at.
ClaimableTwice(t) == tokens[t] # "free"

\* claim: UPDATE ... WHERE used_at IS NULL, so that only one of two redemptions finds the row.
Claimable(t) == Live(t)

Claim(t) == /\ Claimable(t)
            /\ tokens' = [tokens EXCEPT ![t] = "used"]
            /\ uses' = [uses EXCEPT ![t] = @ + 1]

\* count_issued_since counts rows, spent ones too.
Issued == {t \in Token : tokens[t] # "free"}

\* expires_at passes: no statement finds the row any more.
Lapse(t) == Live(t) /\ tokens' = [tokens EXCEPT ![t] = "used"] /\ UNCHANGED uses

\* "Two concurrent redemptions of the same link cannot both succeed" (auth_token.rs, claim).
TokensWorkOnce == \A t \in Token : uses[t] <= 1

=============================================================================
