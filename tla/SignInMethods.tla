---------------------------- MODULE SignInMethods ---------------------------
(***************************************************************************)
(* The ways into an account: sign-in, sign-up and linking through a        *)
(* provider (modules/oauth), passkeys (modules/passkeys), and the mailed   *)
(* links that verify and change an address or set a password, all as       *)
(* concurrent requests.  Each statement, and the pair of calls to the      *)
(* provider, is a step; what follows it up to the next await belongs to    *)
(* the step.                                                               *)
(*                                                                         *)
(* States, grants and challenges are kept as the set of those that still   *)
(* work: a claim removes the row, expired or not.  The secrets in them,    *)
(* PKCE and the WebAuthn signatures are abstracted: a claim presents the   *)
(* right secret, the provider names one of its accounts, and a passkey     *)
(* signs for whoever holds it.  Who is active may act with a session.      *)
(***************************************************************************)
EXTENDS Accounts

CONSTANTS Request,       \* the tasks serving requests
          Account,       \* accounts at the providers
          ProviderOf,    \* the provider each of them is at
          EmailOf,       \* the address the provider knows for it
          Passkey,       \* credential ids
          MaxPasskeys,   \* MAX_PASSKEYS_PER_USER (10)
          RequireVerifiedEmail,  \* the setting of that name
          InitTables,    \* the tables the server may start with
          MaxEvents      \* bound: requests and outside events in a behaviour

\* A nullable user id, or the user of a row that may not exist.
UserOption == {{}} \cup {{u} : u \in User}

TablesType == [users : [User -> RowType], linked : [Account -> UserOption],
               keys : [Passkey -> UserOption]]

\* Every account was made with a password, or through a provider that had verified its address.
Recoverable(rows) == \A u \in User :
    rows[u].status = "live" => rows[u].verified \/ rows[u].password

\* users_email_unique_among_active
EmailsUnique(rows) == \A u, v \in User :
    rows[u].status = "live" /\ rows[v].status = "live" /\ rows[u].email = rows[v].email => u = v

\* The server starts with tables it has written itself.
ASSUME ConstantsAssumption ==
    /\ IsFiniteSet(User) /\ IsFiniteSet(Account) /\ IsFiniteSet(Passkey)
    /\ EmailOf \in [Account -> Email]
    /\ MaxPasskeys \in Nat /\ MaxEvents \in Nat
    /\ RequireVerifiedEmail \in BOOLEAN
    /\ InitTables \subseteq TablesType
    /\ \A t \in InitTables : Recoverable(t.users) /\ EmailsUnique(t.users)

VARIABLES linked,      \* oauth_identities: whose each provider account is, {} for no row
          keys,        \* passkeys: whose each credential is, {} for no row
          states,      \* oauth_states: the linking user of each, or {}
          grants,      \* login_grants: for whom, and (history) through which provider account
          challenges,  \* webauthn_challenges: the registering user, or {} for authentication
          pc, loc,     \* where each request is, and its locals
          owned,       \* history: which sign-in method was ever whose
          sessions,    \* history: the sessions opened, and the method that opened each
          events       \* requests and outside events so far

vars == <<accountVars, linked, keys, states, grants, challenges, pc, loc, owned, sessions, events>>

Via(x) == <<"account", x>>
ViaKey(p) == <<"passkey", p>>

Method == {<<"password", u>> : u \in User} \cup {Via(x) : x \in Account}
              \cup {ViaKey(p) : p \in Passkey}

LinkedTo(u) == {x \in Account : linked[x] = {u}}

KeysOf(u) == {p \in Passkey : keys[p] = {u}}

\* What sign_in_method_count counts.
Methods(u) == {<<"password", v>> : v \in {w \in {u} : users[w].password}}
                  \cup {Via(x) : x \in LinkedTo(u)} \cup {ViaKey(p) : p \in KeysOf(u)}

PCs == {"idle", "invalidate", "insert_link", "mark_verified", "change_email", "drop_links",
        "reset_user", "set_password", "provider", "find_identity", "linking_user", "find_email", "create",
        "link", "grant_user", "insert_grant", "exchange_user", "store_passkey", "passkey_user",
        "list_passkeys", "update_passkey", "count_methods", "remove"}

\* user: whom the request acts for; linker: the user of its state; acct, key: the provider account
\* or passkey at hand; verified: what the provider or the row read says of the address; link: the
\* link issued or claimed; gone: what unlink or delete is to remove; seen: the methods counted.
LocType == [user : UserOption, linker : UserOption, acct : SUBSET Account, key : SUBSET Passkey,
            verified : BOOLEAN, link : SUBSET LinkType, gone : SUBSET Method, seen : SUBSET Method]

NoLoc == [user |-> {}, linker |-> {}, acct |-> {}, key |-> {}, verified |-> FALSE, link |-> {},
          gone |-> {}, seen |-> {}]

TypeOK == /\ AccountsTypeOK
          /\ linked \in [Account -> UserOption]
          /\ keys \in [Passkey -> UserOption]
          /\ states \in SUBSET UserOption
          /\ grants \in SUBSET [user : User, via : Account]
          /\ challenges \in SUBSET UserOption
          /\ pc \in [Request -> PCs]
          /\ loc \in [Request -> LocType]
          /\ owned \in SUBSET (Method \X User)
          /\ sessions \in SUBSET (Method \X User)
          /\ events \in 0..MaxEvents

Init == /\ \E t \in InitTables : users = t.users /\ linked = t.linked /\ keys = t.keys
        /\ links = {} /\ states = {} /\ grants = {} /\ challenges = {}
        /\ proven = {<<u, users[u].email>> : u \in {w \in User : users[w].verified}}
        /\ pc = [r \in Request |-> "idle"]
        /\ loc = [r \in Request |-> NoLoc]
        /\ owned = UNION {{<<m, u>> : m \in Methods(u)} : u \in User}
        /\ sessions = {}
        /\ events = 0

-----------------------------------------------------------------------------

Event == events < MaxEvents /\ events' = events + 1

Goto(r, label, l) == pc' = [pc EXCEPT ![r] = label] /\ loc' = [loc EXCEPT ![r] = l]

Done(r) == Goto(r, "idle", NoLoc)

\* A request arrives, and its first statement sends it on with these locals.
Arrive(r, label, l) == pc[r] = "idle" /\ Event /\ Goto(r, label, l)

oauthVars == <<linked, states, grants>>
passkeyVars == <<keys, challenges>>
history == <<owned, sessions>>

\* The access token: its user and what opened the session.
OpenSession(m, u) == sessions' = sessions \cup {<<m, u>>}

-----------------------------------------------------------------------------
(* Registration, and the links mailed to an address *)

Register(r, u, e) ==
    /\ Create(u, e, FALSE, TRUE)
    /\ Arrive(r, "invalidate",
              [NoLoc EXCEPT !.link = {[user |-> u, kind |-> "verify", to |-> e, new_email |-> e]}])
    /\ owned' = owned \cup {<<<<"password", u>>, u>>}
    /\ UNCHANGED <<links, proven, oauthVars, passkeyVars, sessions>>

\* Seeded fault: the confirmation of a new address goes to the old one.
ChangeLinkToOld(u, e) == [user |-> u, kind |-> "change", to |-> users[u].email, new_email |-> e]

ChangeLink(u, e) == [user |-> u, kind |-> "change", to |-> e, new_email |-> e]

\* resend, request_change (with the password, to an address that is free) and forgot, up to issue.
AskForLink(r, u) ==
    LET e == users[u].email
    IN /\ Active(u)
       /\ \E l \in {[user |-> u, kind |-> k, to |-> e, new_email |-> e] :
                        k \in {"reset"} \cup {v \in {"verify"} : ~users[u].verified}}
                   \cup {ChangeLink(u, n) : n \in {f \in Email : users[u].password /\ Free(f)}} :
              Arrive(r, "invalidate", [NoLoc EXCEPT !.link = {l}])
       /\ UNCHANGED <<accountVars, oauthVars, passkeyVars, history>>

\* OneTimeTokenService::issue, and the mail.
InvalidateOlder(r) ==
    /\ pc[r] = "invalidate"
    /\ \E l \in loc[r].link : InvalidateLinks(l.user, l.kind)
    /\ Goto(r, "insert_link", loc[r])
    /\ UNCHANGED <<users, proven, oauthVars, passkeyVars, history, events>>

MailLink(r) ==
    /\ pc[r] = "insert_link"
    /\ \E l \in loc[r].link : InsertLink(l)
    /\ Done(r)
    /\ UNCHANGED <<users, proven, oauthVars, passkeyVars, history, events>>

\* Where each kind of link leads once it is claimed.
AfterClaim == [verify |-> "mark_verified", change |-> "change_email", reset |-> "reset_user"]

\* verify, confirm_change, reset: the claim of the link.
FollowLink(r) ==
    /\ \E l \in links : /\ ClaimLink(l)
                        /\ Arrive(r, AfterClaim[l.kind], [NoLoc EXCEPT !.link = {l}])
    /\ UNCHANGED <<users, oauthVars, passkeyVars, history>>

\* reset reads the user of the link it has claimed.
ResetUser(r) ==
    /\ pc[r] = "reset_user"
    /\ IF \A l \in loc[r].link : Active(l.user) THEN Goto(r, "set_password", loc[r]) ELSE Done(r)
    /\ UNCHANGED <<accountVars, oauthVars, passkeyVars, history, events>>

\* The policy may refuse the new password.
SetPassword(r) ==
    /\ pc[r] = "set_password"
    /\ \E l \in loc[r].link :
          \/ /\ SetPasswordHash(l.user)
             /\ owned' = owned \cup {<<<<"password", l.user>>, l.user>>}
             /\ Goto(r, "mark_verified", loc[r])
          \/ Done(r) /\ UNCHANGED <<users, owned>>
    /\ UNCHANGED <<links, proven, oauthVars, passkeyVars, sessions, events>>

\* For verify this is all; reset also drops its other links.
MarkVerified(r) ==
    /\ pc[r] = "mark_verified"
    /\ \E l \in loc[r].link :
          /\ MarkEmailVerified(l.user)
          /\ IF l.kind = "reset" THEN Goto(r, "drop_links", loc[r]) ELSE Done(r)
    /\ UNCHANGED <<links, proven, oauthVars, passkeyVars, history, events>>

\* An address taken meanwhile is an error, and the link is spent.
ConfirmChange(r) ==
    /\ pc[r] = "change_email"
    /\ \E l \in loc[r].link :
          IF Changeable(l.user, l.new_email)
          THEN ChangeEmail(l.user, l.new_email) /\ Goto(r, "drop_links", loc[r])
          ELSE UNCHANGED users /\ Done(r)
    /\ UNCHANGED <<links, proven, oauthVars, passkeyVars, history, events>>

DropLinks(r) ==
    /\ pc[r] = "drop_links"
    /\ \E l \in loc[r].link : InvalidateLinks(l.user, l.kind)
    /\ Done(r)
    /\ UNCHANGED <<users, proven, oauthVars, passkeyVars, history, events>>

-----------------------------------------------------------------------------
(* Providers: start, callback, exchange *)

InsertState(linker) ==
    /\ Event
    /\ states' = states \cup {linker}
    /\ UNCHANGED <<accountVars, linked, grants, passkeyVars, pc, loc, history>>

StartSignIn == InsertState({})

StartLinking(u) == Active(u) /\ InsertState({u})

\* The redirect back claims its state, which is spent even if the provider is another one than
\* the state's, reports an error, or sends no code.
ClaimState(r) ==
    /\ \E s \in states :
          /\ states' = states \ {s}
          /\ \/ Arrive(r, "provider", [NoLoc EXCEPT !.linker = s])
             \/ Arrive(r, "idle", NoLoc)
    /\ UNCHANGED <<accountVars, linked, grants, passkeyVars, history>>

\* exchange_code and fetch_profile: the provider names an account of its own, with or without a
\* verified address, or a call fails.
Profile(r) ==
    /\ pc[r] = "provider"
    /\ \/ \E x \in Account, v \in BOOLEAN :
             Goto(r, "find_identity", [loc[r] EXCEPT !.acct = {x}, !.verified = v])
       \/ Done(r)
    /\ UNCHANGED <<accountVars, oauthVars, passkeyVars, history, events>>

FindIdentity(r) ==
    /\ pc[r] = "find_identity"
    /\ \E x \in loc[r].acct :
          CASE linked[x] # {} /\ loc[r].linker = {} ->
                   Goto(r, "grant_user", [loc[r] EXCEPT !.user = linked[x]])
            [] linked[x] = {} /\ loc[r].linker # {} -> Goto(r, "linking_user", loc[r])
            [] linked[x] = {} /\ loc[r].linker = {} /\ loc[r].verified ->
                   Goto(r, "find_email", loc[r])
            [] OTHER -> Done(r)
    /\ UNCHANGED <<accountVars, oauthVars, passkeyVars, history, events>>

LinkingUser(r) ==
    /\ pc[r] = "linking_user"
    /\ IF \A u \in loc[r].linker : Active(u)
       THEN Goto(r, "link", [loc[r] EXCEPT !.user = loc[r].linker])
       ELSE Done(r)
    /\ UNCHANGED <<accountVars, oauthVars, passkeyVars, history, events>>

\* Seeded fault: is_email_verified is not asked.
MayJoinAny(u) == users[u].active

MayJoin(u) == users[u].active /\ users[u].verified

FindByEmail(r) ==
    /\ pc[r] = "find_email"
    /\ \E x \in loc[r].acct :
          LET found == At(EmailOf[x])
          IN CASE found = {} -> Goto(r, "create", loc[r])
               [] found # {} /\ \A u \in found : MayJoin(u) ->
                      Goto(r, "link", [loc[r] EXCEPT !.user = found])
               [] OTHER -> Done(r)
    /\ UNCHANGED <<accountVars, oauthVars, passkeyVars, history, events>>

\* Seeded fault: the address the provider vouches for is not marked as verified.
CreateUnverified(u, e) == Create(u, e, FALSE, FALSE)

CreatePasswordless(u, e) == Create(u, e, TRUE, FALSE)

\* An address taken meanwhile is an error.
CreateFromProfile(r) ==
    /\ pc[r] = "create"
    /\ \E x \in loc[r].acct :
          \/ \E u \in User : /\ CreatePasswordless(u, EmailOf[x])
                             /\ proven' = proven \cup {<<u, EmailOf[x]>>}
                             /\ Goto(r, "link", [loc[r] EXCEPT !.user = {u}])
          \/ ~Free(EmailOf[x]) /\ Done(r) /\ UNCHANGED <<users, proven>>
    /\ UNCHANGED <<links, oauthVars, passkeyVars, history, events>>

AfterLink(r) == IF loc[r].linker = {} THEN Goto(r, "grant_user", loc[r]) ELSE Done(r)

\* Seeded fault: an upsert, which moves a provider account that is linked already.
LinkByUpsert(r) ==
    /\ pc[r] = "link"
    /\ linked' = [x \in Account |-> IF x \in loc[r].acct THEN loc[r].user ELSE linked[x]]
    /\ owned' = owned \cup {<<Via(x), u>> : x \in loc[r].acct, u \in loc[r].user}
    /\ AfterLink(r)
    /\ UNCHANGED <<accountVars, states, grants, passkeyVars, sessions, events>>

\* Seeded fault: what insert_identity answers is ignored.
LinkIgnoringConflict(r) ==
    /\ pc[r] = "link"
    /\ IF \A x \in loc[r].acct : linked[x] = {}
       THEN /\ linked' = [x \in Account |-> IF x \in loc[r].acct THEN loc[r].user ELSE linked[x]]
            /\ owned' = owned \cup {<<Via(x), u>> : x \in loc[r].acct, u \in loc[r].user}
       ELSE UNCHANGED <<linked, owned>>
    /\ AfterLink(r)
    /\ UNCHANGED <<accountVars, states, grants, passkeyVars, sessions, events>>

\* ON CONFLICT DO NOTHING, which is the error already_linked.
Link(r) ==
    /\ pc[r] = "link"
    /\ IF \A x \in loc[r].acct : linked[x] = {}
       THEN /\ linked' = [x \in Account |-> IF x \in loc[r].acct THEN loc[r].user ELSE linked[x]]
            /\ owned' = owned \cup {<<Via(x), u>> : x \in loc[r].acct, u \in loc[r].user}
            /\ AfterLink(r)
       ELSE UNCHANGED <<linked, owned>> /\ Done(r)
    /\ UNCHANGED <<accountVars, states, grants, passkeyVars, sessions, events>>

GrantUser(r) ==
    /\ pc[r] = "grant_user"
    /\ IF \A u \in loc[r].user : Active(u) /\ (RequireVerifiedEmail => users[u].verified)
       THEN Goto(r, "insert_grant", loc[r])
       ELSE Done(r)
    /\ UNCHANGED <<accountVars, oauthVars, passkeyVars, history, events>>

InsertGrant(r) ==
    /\ pc[r] = "insert_grant"
    /\ grants' = grants \cup {[user |-> u, via |-> x] : u \in loc[r].user, x \in loc[r].acct}
    /\ Done(r)
    /\ UNCHANGED <<accountVars, linked, states, passkeyVars, history, events>>

ClaimGrant(r) ==
    /\ \E g \in grants : /\ grants' = grants \ {g}
                         /\ Arrive(r, "exchange_user",
                                   [NoLoc EXCEPT !.user = {g.user}, !.acct = {g.via}])
    /\ UNCHANGED <<accountVars, linked, states, passkeyVars, history>>

ExchangeGrant(r) ==
    /\ pc[r] = "exchange_user"
    /\ \E u \in loc[r].user, x \in loc[r].acct :
          IF Active(u) THEN OpenSession(Via(x), u) ELSE UNCHANGED sessions
    /\ Done(r)
    /\ UNCHANGED <<accountVars, oauthVars, passkeyVars, owned, events>>

-----------------------------------------------------------------------------
(* Passkeys: the two ceremonies *)

InsertChallenge(user) ==
    /\ Event
    /\ challenges' = challenges \cup {user}
    /\ UNCHANGED <<accountVars, oauthVars, keys, pc, loc, history>>

BeginLogin == InsertChallenge({})

\* The reads come before the challenge, which only waits to be claimed: they are one step with it.
BeginRegistration(u) ==
    /\ Active(u) /\ Cardinality(KeysOf(u)) < MaxPasskeys
    /\ InsertChallenge({u})

\* finish_registration claims a challenge of the caller; the library may refuse the credential.
ClaimRegistration(r, u) ==
    /\ Active(u) /\ {u} \in challenges
    /\ challenges' = challenges \ {{u}}
    /\ \/ \E p \in Passkey : Arrive(r, "store_passkey", [NoLoc EXCEPT !.user = {u}, !.key = {p}])
       \/ Arrive(r, "idle", NoLoc)
    /\ UNCHANGED <<accountVars, oauthVars, keys, history>>

Store(p, us) == /\ keys' = [keys EXCEPT ![p] = @ \cup us]
                /\ owned' = owned \cup {<<ViaKey(p), u>> : u \in us}

\* ON CONFLICT DO NOTHING, which is the error AlreadyRegistered.
StorePasskey(r) ==
    /\ pc[r] = "store_passkey"
    /\ \E p \in loc[r].key :
          IF keys[p] = {} THEN Store(p, loc[r].user) ELSE UNCHANGED <<keys, owned>>
    /\ Done(r)
    /\ UNCHANGED <<accountVars, oauthVars, challenges, sessions, events>>

\* finish_login claims a challenge without a user; the credential presented names its user.
ClaimAuthentication(r) ==
    /\ {} \in challenges
    /\ challenges' = challenges \ {{}}
    /\ \/ \E p \in Passkey, u \in User :
             Arrive(r, "passkey_user", [NoLoc EXCEPT !.user = {u}, !.key = {p}])
       \/ Arrive(r, "idle", NoLoc)
    /\ UNCHANGED <<accountVars, oauthVars, keys, history>>

PasskeyUser(r) ==
    /\ pc[r] = "passkey_user"
    /\ \E u \in loc[r].user :
          IF Active(u)
          THEN Goto(r, "list_passkeys", [loc[r] EXCEPT !.verified = users[u].verified])
          ELSE Done(r)
    /\ UNCHANGED <<accountVars, oauthVars, passkeyVars, history, events>>

\* The library accepts a credential that is one of the user's.
ListPasskeys(r) ==
    /\ pc[r] = "list_passkeys"
    /\ \E u \in loc[r].user :
          IF loc[r].key \subseteq KeysOf(u) THEN Goto(r, "update_passkey", loc[r]) ELSE Done(r)
    /\ UNCHANGED <<accountVars, oauthVars, passkeyVars, history, events>>

\* update_after_use (the counter is not modelled), the check of the address and the token.
UpdatePasskey(r) ==
    /\ pc[r] = "update_passkey"
    /\ \E u \in loc[r].user, p \in loc[r].key :
          IF RequireVerifiedEmail => loc[r].verified
          THEN OpenSession(ViaKey(p), u)
          ELSE UNCHANGED sessions
    /\ Done(r)
    /\ UNCHANGED <<accountVars, oauthVars, passkeyVars, owned, events>>

-----------------------------------------------------------------------------
(* Removing a way to sign in *)

\* unlink finds a linked account of the provider, delete a passkey of the caller.
AskForRemoval(r, u) ==
    /\ Active(u)
    /\ \E gone \in {{Via(y) : y \in {z \in Account : ProviderOf[z] = ProviderOf[x]}} :
                        x \in LinkedTo(u)}
                   \cup {{ViaKey(p)} : p \in KeysOf(u)} :
          Arrive(r, "count_methods", [NoLoc EXCEPT !.user = {u}, !.gone = gone])
    /\ UNCHANGED <<accountVars, oauthVars, passkeyVars, history>>

\* Seeded fault: < 1 for < 2.
IsLastOffByOne(methods) == Cardinality(methods) < 1

IsLast(methods) == Cardinality(methods) < 2

CountMethods(r) ==
    /\ pc[r] = "count_methods"
    /\ \E u \in loc[r].user :
          IF IsLast(Methods(u))
          THEN Done(r)
          ELSE Goto(r, "remove", [loc[r] EXCEPT !.seen = Methods(u)])
    /\ UNCHANGED <<accountVars, oauthVars, passkeyVars, history, events>>

\* delete_identity takes every account of the provider away from the user, delete one passkey.
Remove(r) ==
    /\ pc[r] = "remove"
    /\ linked' = [x \in Account |-> IF Via(x) \in loc[r].gone /\ linked[x] = loc[r].user
                                    THEN {} ELSE linked[x]]
    /\ keys' = [p \in Passkey |-> IF ViaKey(p) \in loc[r].gone /\ keys[p] = loc[r].user
                                  THEN {} ELSE keys[p]]
    /\ Done(r)
    /\ UNCHANGED <<accountVars, states, grants, challenges, history, events>>

-----------------------------------------------------------------------------
(* Events outside these requests *)

\* An administrator disables or enables the account (update_user).
ToggleActive(u) ==
    /\ users[u].status = "live" /\ Event
    /\ users' = [users EXCEPT ![u].active = ~@]
    /\ UNCHANGED <<links, proven, oauthVars, passkeyVars, pc, loc, history>>

\* delete_user keeps the row, and with it what refers to it.
SoftDelete(u) ==
    /\ users[u].status = "live" /\ Event
    /\ users' = [users EXCEPT ![u].status = "deleted"]
    /\ UNCHANGED <<links, proven, oauthVars, passkeyVars, pc, loc, history>>

\* Time passes: one of the rows with an expires_at no longer works.
Expire ==
    /\ \/ \E l \in links : links' = links \ {l} /\ UNCHANGED <<states, grants, challenges>>
       \/ \E s \in states : states' = states \ {s} /\ UNCHANGED <<links, grants, challenges>>
       \/ \E g \in grants : grants' = grants \ {g} /\ UNCHANGED <<links, states, challenges>>
       \/ \E c \in challenges : challenges' = challenges \ {c} /\ UNCHANGED <<links, states, grants>>
    /\ UNCHANGED <<users, proven, linked, keys, pc, loc, history, events>>

\* The client goes away, a statement fails or the server stops: the rest is not done.
Drop(r) ==
    /\ pc[r] # "idle"
    /\ Done(r)
    /\ UNCHANGED <<accountVars, oauthVars, passkeyVars, history, events>>

-----------------------------------------------------------------------------

MailedLinks(r) ==
    \/ \E u \in User, e \in Email : Register(r, u, e)
    \/ \E u \in User : AskForLink(r, u)
    \/ InvalidateOlder(r) \/ MailLink(r) \/ FollowLink(r)
    \/ ResetUser(r) \/ SetPassword(r) \/ MarkVerified(r) \/ ConfirmChange(r) \/ DropLinks(r)

Providers(r) ==
    \/ ClaimState(r) \/ Profile(r) \/ FindIdentity(r) \/ LinkingUser(r) \/ FindByEmail(r)
    \/ CreateFromProfile(r) \/ Link(r) \/ GrantUser(r) \/ InsertGrant(r)
    \/ ClaimGrant(r) \/ ExchangeGrant(r)

Passkeys(r) ==
    \/ \E u \in User : ClaimRegistration(r, u)
    \/ StorePasskey(r) \/ ClaimAuthentication(r) \/ PasskeyUser(r) \/ ListPasskeys(r)
    \/ UpdatePasskey(r)

Removal(r) ==
    \/ \E u \in User : AskForRemoval(r, u)
    \/ CountMethods(r) \/ Remove(r)

Outside ==
    \/ StartSignIn \/ BeginLogin \/ Expire
    \/ \E u \in User : StartLinking(u) \/ BeginRegistration(u) \/ ToggleActive(u) \/ SoftDelete(u)

Next == \/ \E r \in Request : MailedLinks(r) \/ Providers(r) \/ Passkeys(r) \/ Removal(r) \/ Drop(r)
        \/ Outside

Spec == Init /\ [][Next]_vars

-----------------------------------------------------------------------------
(* Properties *)

\* A sign-in through a provider joins an existing account by its address only if the holder of
\* the account was shown to have that address, whoever registered it first and whatever happens
\* between the reads and the link (resolve, "would let whoever pre-registered that address
\* (without owning it) share the account").
JoinsAreProven == \A r \in Request : pc[r] = "link" /\ loc[r].linker = {} =>
    \A u \in loc[r].user, x \in loc[r].acct : <<u, EmailOf[x]>> \in proven

\* A session opened through a provider account or a passkey is of a user whose sign-in method
\* that was: two first sign-ins, or a sign-in and a link, that race for one provider account do
\* not let the loser into the wrong account (insert_identity, already_linked).
SessionsAreProven == sessions \subseteq owned

\* A provider account that is linked is never moved to another user: it has to be unlinked
\* first (insert_identity "Returns false if that provider account is already linked (to anyone)").
ProviderAccountsStay ==
    [][\A x \in Account : linked[x] # {} => linked'[x] \in {{}, linked[x]}]_vars

\* The last way into an account is only removed when the count that allowed it is out of date
\* (another removal came between sign_in_method_count and the delete), or when it goes together
\* with others (two accounts of one provider count as two and are removed as one).  README.md:291
\* knows no such exceptions: "refused if it is your last sign-in method".
LastMethodKept ==
    [][\A r \in Request : pc[r] = "remove" /\ pc'[r] = "idle" =>
          \A u \in loc[r].user :
             Methods(u) # {} /\ Methods(u)' = {} =>
                \/ ~(loc[r].seen \subseteq Methods(u))
                \/ Cardinality(Methods(u)) > 1]_vars

\* Whoever lost every way to sign in that way can still get in with a reset link, which is mailed
\* to an address that is known to be theirs (create_passwordless, forgot).
NobodyIsLockedOut == \A u \in User :
    users[u].status = "live" /\ Methods(u) = {} => users[u].verified

=============================================================================
