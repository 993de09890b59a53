----------------------------- MODULE Accounts -------------------------------
(***************************************************************************)
(* The users table as sign-in sees it, and the links mailed to addresses:  *)
(* the statements of the users repositories that create accounts, verify   *)
(* and change addresses and set passwords, and the rows of auth_tokens     *)
(* with the address each link was mailed to.  SignInMethods has the        *)
(* requests that send these statements.  Only links that still work are    *)
(* kept; `proven` remembers who was shown to control an address: the       *)
(* reader of a mailed link, or the person a provider vouches for.          *)
(***************************************************************************)
EXTENDS Naturals, FiniteSets

CONSTANTS User,     \* the row ids the database may hand out
          Email     \* addresses

VARIABLES users,    \* the users table
          links,    \* the mailed links that still work
          proven    \* history: pairs of an account and an address its holder controls

accountVars == <<users, links, proven>>

RowType == [status : {"absent", "live", "deleted"}, email : Email, verified : BOOLEAN,
            active : BOOLEAN, password : BOOLEAN]

\* A row of auth_tokens: the address it was mailed to, and new_email (for the other kinds the
\* same address, which nothing reads).
LinkType == [user : User, kind : {"verify", "change", "reset"}, to : Email, new_email : Email]

AccountsTypeOK == /\ users \in [User -> RowType]
                  /\ links \in SUBSET LinkType
                  /\ proven \in SUBSET (User \X Email)

\* find_by_id with the filter on is_active
Active(u) == users[u].status = "live" /\ users[u].active

\* find_by_email
At(e) == {u \in User : users[u].status = "live" /\ users[u].email = e}

-----------------------------------------------------------------------------
(* Statements *)

\* users_email_unique_among_active
Free(e) == At(e) = {}

\* INSERT INTO users
Create(u, e, verified, password) ==
    /\ users[u].status = "absent" /\ Free(e)
    /\ users' = [users EXCEPT ![u] = [status |-> "live", email |-> e, verified |-> verified,
                                      active |-> TRUE, password |-> password]]

\* UPDATE users ... WHERE deleted_at IS NULL
Write(u, row) == users' = [users EXCEPT ![u] = IF @.status = "live" THEN row ELSE @]

MarkEmailVerified(u) == Write(u, [users[u] EXCEPT !.verified = TRUE])

SetPasswordHash(u) == Write(u, [users[u] EXCEPT !.password = TRUE])

\* The unique index turns a change to an address that is taken into an error.
Changeable(u, e) == users[u].status = "live" => At(e) \subseteq {u}

ChangeEmail(u, e) == /\ Changeable(u, e)
                     /\ Write(u, [users[u] EXCEPT !.email = e, !.verified = TRUE])

InvalidateLinks(u, kind) == links' = {l \in links : l.user # u \/ l.kind # kind}

InsertLink(l) == links' = links \cup {l}

\* A mailed link is followed: it works once, and shows that its reader has the inbox.
ClaimLink(l) == /\ l \in links
                /\ links' = links \ {l}
                /\ proven' = proven \cup {<<l.user, l.to>>}

-----------------------------------------------------------------------------
(* Properties *)

\* An address marked as verified was shown to belong to the holder of the account, whatever
\* links to older addresses are still under way: it is what a sign-in through a provider relies
\* on when it joins an account by its address (handle_callback.rs "Linking to an account whose
\* email was never verified would let whoever pre-registered that address ... share the account").
VerifiedIsProven == \A u \in User :
    users[u].status = "live" /\ users[u].verified => <<u, users[u].email>> \in proven

=============================================================================
