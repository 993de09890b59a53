------------------------ MODULE SignInMethodsProofs -------------------------
(***************************************************************************)
(* For any number of accounts, addresses, provider accounts, passkeys and  *)
(* concurrent requests: verified addresses are proven ones, a provider     *)
(* account joins only accounts with a proven address, every session is of  *)
(* a user whose sign-in method opened it, and nobody is locked out.        *)
(***************************************************************************)
EXTENDS SignInMethods, FiniteSetTheorems, TLAPS

Proven(u) == <<u, users[u].email>> \in proven

\* A mailed link is of an account that exists.  A link to change the address was mailed to the
\* new one; any other link was mailed to the current one, or that has been proven since.
Sound(l) == /\ users[l.user].status # "absent"
            /\ l.kind = "change" => l.to = l.new_email
            /\ l.kind # "change" => l.to = users[l.user].email \/ Proven(l.user)

\* Where the reader of a link has been shown to have the inbox.
Claimed == {"reset_user", "set_password", "mark_verified", "change_email", "drop_links"}

LinkInv == /\ \A l \in links : Sound(l)
           /\ \A r \in Request : \A l \in loc[r].link :
                 /\ Sound(l)
                 /\ pc[r] \in Claimed => <<l.user, l.to>> \in proven
                 /\ pc[r] \in {"reset_user", "set_password", "mark_verified"} => l.kind # "change"
                 /\ pc[r] = "change_email" => l.kind = "change"

\* A sign-in through a provider is about one account of it, and only linking has a linker.
Joining(r) == /\ pc[r] = "link" /\ loc[r].linker = {} =>
                    \A u \in loc[r].user, x \in loc[r].acct : <<u, EmailOf[x]>> \in proven
              /\ \A x, y \in loc[r].acct : x = y
              /\ pc[r] = "linking_user" => loc[r].linker # {}

JoinInv == \A r \in Request : Joining(r)

\* What is about to be granted is owned.
Granting(r) == /\ pc[r] \in {"grant_user", "insert_grant", "exchange_user"} =>
                     \A u \in loc[r].user, x \in loc[r].acct : <<Via(x), u>> \in owned
               /\ pc[r] = "update_passkey" =>
                     \A u \in loc[r].user, p \in loc[r].key : <<ViaKey(p), u>> \in owned

\* What is linked, stored or granted is owned.
OwnedInv == /\ \A x \in Account, u \in User : linked[x] = {u} => <<Via(x), u>> \in owned
            /\ \A p \in Passkey, u \in User : keys[p] = {u} => <<ViaKey(p), u>> \in owned
            /\ \A g \in grants : <<Via(g.via), g.user>> \in owned
            /\ \A r \in Request : Granting(r)
            /\ SessionsAreProven

\* A removal was allowed by a count of two or more.
CountInv == \A r \in Request : pc[r] = "remove" => ~IsLast(loc[r].seen)

UsersInv == EmailsUnique(users) /\ Recoverable(users) /\ VerifiedIsProven

-----------------------------------------------------------------------------

LEMMA NoLocTyped == NoLoc \in LocType
  BY DEF NoLoc, LocType, UserOption

\* The locals a request arrives with, and those it goes on with, are well formed.
LEMMA FreshLocs ==
  ASSUME NEW us \in UserOption
  PROVE  /\ \A l \in LinkType : [NoLoc EXCEPT !.link = {l}] \in LocType
         /\ [NoLoc EXCEPT !.linker = us] \in LocType
         /\ \A x \in Account : [NoLoc EXCEPT !.user = us, !.acct = {x}] \in LocType
         /\ \A p \in Passkey : [NoLoc EXCEPT !.user = us, !.key = {p}] \in LocType
         /\ \A gone \in SUBSET Method : [NoLoc EXCEPT !.user = us, !.gone = gone] \in LocType
  BY DEF NoLoc, LocType, UserOption

LEMMA NextLocs ==
  ASSUME NEW l \in LocType, NEW us \in UserOption, NEW v \in BOOLEAN
  PROVE  /\ [l EXCEPT !.user = us] \in LocType
         /\ [l EXCEPT !.verified = v] \in LocType
         /\ \A x \in Account : [l EXCEPT !.acct = {x}, !.verified = v] \in LocType
         /\ \A seen \in SUBSET Method : [l EXCEPT !.seen = seen] \in LocType
  BY DEF LocType

\* A step of a request touches no other request.
LEMMA GotoFrame ==
  ASSUME TypeOK, NEW r \in Request, NEW label \in PCs, NEW l \in LocType, Goto(r, label, l)
  PROVE  /\ pc' \in [Request -> PCs] /\ loc' \in [Request -> LocType]
         /\ pc'[r] = label /\ loc'[r] = l
         /\ \A q \in Request : q # r => pc'[q] = pc[q] /\ loc'[q] = loc[q]
  BY DEF TypeOK, Goto

LEMMA Moved ==
  ASSUME TypeOK, NEW r \in Request, NEW label, NEW l, Goto(r, label, l)
  PROVE  /\ pc'[r] = label /\ loc'[r] = l
         /\ \A q \in Request : q # r => pc'[q] = pc[q] /\ loc'[q] = loc[q]
  BY DEF TypeOK, Goto

LEMMA NoLocFields ==
  /\ NoLoc.user = {} /\ NoLoc.linker = {} /\ NoLoc.acct = {} /\ NoLoc.key = {}
  /\ NoLoc.link = {}
  BY DEF NoLoc

LEMMA ArriveFrame ==
  ASSUME TypeOK, NEW r \in Request, NEW label \in PCs, NEW l \in LocType, Arrive(r, label, l)
  PROVE  events' \in 0..MaxEvents /\ pc[r] = "idle" /\ Goto(r, label, l)
  BY ConstantsAssumption DEF Arrive, Event, TypeOK

LEMMA UserSets ==
  ASSUME NEW u \in User PROVE {u} \in UserOption
  BY DEF UserOption

LEMMA MethodsTyped ==
  ASSUME TypeOK, NEW u \in User
  PROVE  Methods(u) \subseteq Method
  BY DEF Methods, Method, LinkedTo, KeysOf

\* With addresses unique among live accounts, an address has at most one.
LEMMA AtMostOne ==
  ASSUME TypeOK, UsersInv, NEW e \in Email
  PROVE  At(e) \in UserOption
<1>1. \A u, v \in At(e) : u = v
  BY DEF At, UsersInv, EmailsUnique
<1>2. CASE At(e) = {}
  BY <1>2 DEF UserOption
<1>3. CASE At(e) # {}
  <2>1. PICK u \in At(e) : TRUE
    BY <1>3
  <2>2. At(e) = {u} /\ u \in User
    BY <1>1, <2>1 DEF At
  <2> QED
    BY <2>2, UserSets
<1> QED
  BY <1>2, <1>3

\* What the statements on users write.
LEMMA RowsTyped ==
  ASSUME NEW row \in RowType
  PROVE  /\ [row EXCEPT !.verified = TRUE] \in RowType
         /\ [row EXCEPT !.password = TRUE] \in RowType
         /\ \A e \in Email : [row EXCEPT !.email = e, !.verified = TRUE] \in RowType
         /\ \A b \in BOOLEAN : [row EXCEPT !.active = b] \in RowType
         /\ [row EXCEPT !.status = "deleted"] \in RowType
  BY DEF RowType

LEMMA NewRowTyped ==
  ASSUME NEW e \in Email, NEW b \in BOOLEAN, NEW c \in BOOLEAN
  PROVE  [status |-> "live", email |-> e, verified |-> b, active |-> TRUE, password |-> c]
            \in RowType
  BY DEF RowType

-----------------------------------------------------------------------------
(* Type correctness *)

\* What following a link comes to, by the kind of the link.
LEMMA FollowLinkCases ==
  ASSUME TypeOK, NEW r \in Request, FollowLink(r)
  PROVE  \E l \in links :
            /\ ClaimLink(l)
            /\ \/ /\ l.kind # "change"
                  /\ \E label \in {"reset_user", "mark_verified"} :
                        Arrive(r, label, [NoLoc EXCEPT !.link = {l}])
               \/ l.kind = "change" /\ Arrive(r, "change_email", [NoLoc EXCEPT !.link = {l}])
<1>1. PICK l \in links : /\ ClaimLink(l)
                         /\ Arrive(r, AfterClaim[l.kind], [NoLoc EXCEPT !.link = {l}])
  BY DEF FollowLink
<1>2. l.kind \in {"verify", "change", "reset"}
  BY DEF TypeOK, AccountsTypeOK, LinkType
<1>3. /\ AfterClaim["verify"] = "mark_verified" /\ AfterClaim["change"] = "change_email"
      /\ AfterClaim["reset"] = "reset_user"
  BY DEF AfterClaim
<1> QED
  BY <1>1, <1>2, <1>3

LEMMA MailedLinksTyped ==
  ASSUME TypeOK, NEW r \in Request, MailedLinks(r)
  PROVE  TypeOK'
<1> USE NoLocTyped, ConstantsAssumption DEF TypeOK, AccountsTypeOK, oauthVars, passkeyVars, history
<1>f. \A l \in LinkType : [NoLoc EXCEPT !.link = {l}] \in LocType
  <2>1. {} \in UserOption
    BY DEF UserOption
  <2> QED
    BY <2>1, FreshLocs
<1>l. loc[r] \in LocType /\ loc[r].link \subseteq LinkType
  BY DEF LocType
<1>1. ASSUME NEW u \in User, NEW e \in Email, Register(r, u, e) PROVE TypeOK'
  <2>1. [user |-> u, kind |-> "verify", to |-> e, new_email |-> e] \in LinkType
    BY DEF LinkType
  <2>2. users' \in [User -> RowType]
    BY <1>1, NewRowTyped DEF Register, Create
  <2>3. owned' \in SUBSET (Method \X User)
    BY <1>1 DEF Register, Method
  <2> QED
    BY <1>1, <1>f, <2>1, <2>2, <2>3, GotoFrame, ArriveFrame DEF Register, PCs
<1>2. ASSUME NEW u \in User, AskForLink(r, u) PROVE TypeOK'
  <2>1. users[u].email \in Email
    BY DEF RowType
  <2>2. PICK l \in LinkType : Arrive(r, "invalidate", [NoLoc EXCEPT !.link = {l}])
    BY <1>2, <2>1 DEF AskForLink, ChangeLink, LinkType
  <2> QED
    BY <1>2, <1>f, <2>2, GotoFrame, ArriveFrame DEF AskForLink, PCs, accountVars
<1>3. CASE InvalidateOlder(r)
  BY <1>3, <1>l DEF InvalidateOlder, InvalidateLinks, Goto, PCs
<1>4. CASE MailLink(r)
  BY <1>4, <1>l DEF MailLink, InsertLink, Done, Goto, PCs
<1>5. CASE FollowLink(r)
  <2>1. PICK l \in links :
           /\ ClaimLink(l)
           /\ \E label \in Claimed : Arrive(r, label, [NoLoc EXCEPT !.link = {l}])
    BY <1>5, FollowLinkCases DEF Claimed
  <2>2. l.user \in User /\ l.to \in Email
    BY DEF LinkType
  <2>3. links' \in SUBSET LinkType /\ proven' \in SUBSET (User \X Email)
    BY <2>1, <2>2 DEF ClaimLink
  <2> QED
    BY <1>5, <1>f, <2>1, <2>3, GotoFrame, ArriveFrame DEF FollowLink, Claimed, PCs
<1>6. CASE SetPassword(r)
  <2>1. PICK l \in loc[r].link :
          \/ /\ SetPasswordHash(l.user)
             /\ owned' = owned \cup {<<<<"password", l.user>>, l.user>>}
             /\ Goto(r, "mark_verified", loc[r])
          \/ Done(r) /\ UNCHANGED <<users, owned>>
    BY <1>6 DEF SetPassword
  <2>2. l.user \in User
    BY <1>l DEF LinkType
  <2>3. users' \in [User -> RowType]
    <3>1. [users[l.user] EXCEPT !.password = TRUE] \in RowType
      BY <2>2, RowsTyped
    <3> QED
      BY <2>1, <2>2, <3>1 DEF SetPasswordHash, Write
  <2>4. owned' \in SUBSET (Method \X User)
    BY <2>1, <2>2 DEF Method
  <2> QED
    BY <1>6, <1>l, <2>1, <2>3, <2>4 DEF SetPassword, Done, Goto, PCs
<1>6a. CASE ResetUser(r)
  BY <1>6a, <1>l DEF ResetUser, accountVars, Done, Goto, PCs
<1>7. CASE MarkVerified(r)
  <2>1. PICK l \in loc[r].link : /\ MarkEmailVerified(l.user)
                                 /\ Goto(r, "drop_links", loc[r]) \/ Done(r)
    BY <1>7 DEF MarkVerified
  <2>2. users' \in [User -> RowType]
    BY <1>l, <2>1, RowsTyped DEF MarkEmailVerified, Write, LinkType
  <2> QED
    BY <1>7, <1>l, <2>1, <2>2 DEF MarkVerified, Done, Goto, PCs
<1>8. CASE ConfirmChange(r)
  <2>1. PICK l \in loc[r].link :
          \/ ChangeEmail(l.user, l.new_email) /\ Goto(r, "drop_links", loc[r])
          \/ UNCHANGED users /\ Done(r)
    BY <1>8 DEF ConfirmChange
  <2>2. l.user \in User /\ l.new_email \in Email
    BY <1>l DEF LinkType
  <2>3. users' \in [User -> RowType]
    <3>1. [users[l.user] EXCEPT !.email = l.new_email, !.verified = TRUE] \in RowType
      BY <2>2, RowsTyped
    <3> QED
      BY <2>1, <2>2, <3>1 DEF ChangeEmail, Write
  <2> QED
    BY <1>8, <1>l, <2>1, <2>3 DEF ConfirmChange, Done, Goto, PCs
<1>9. CASE DropLinks(r)
  BY <1>9, <1>l DEF DropLinks, InvalidateLinks, Done, Goto, PCs
<1> QED
  BY <1>1, <1>2, <1>3, <1>4, <1>5, <1>6, <1>6a, <1>7, <1>8, <1>9 DEF MailedLinks

LEMMA ProvidersTyped ==
  ASSUME TypeOK, UsersInv, NEW r \in Request, Providers(r)
  PROVE  TypeOK'
<1> USE NoLocTyped, ConstantsAssumption
    DEF TypeOK, AccountsTypeOK, accountVars, oauthVars, passkeyVars, history
<1>l. /\ loc[r] \in LocType /\ loc[r].acct \subseteq Account
      /\ loc[r].user \in UserOption /\ loc[r].linker \in UserOption
  BY DEF LocType
<1>u. \A us \in UserOption : [loc[r] EXCEPT !.user = us] \in LocType
  BY <1>l, NextLocs
<1>d. "idle" \in PCs
  BY DEF PCs
<1>1. CASE ClaimState(r)
  <2>1. PICK s \in states : /\ states' = states \ {s}
                            /\ \/ Arrive(r, "provider", [NoLoc EXCEPT !.linker = s])
                               \/ Arrive(r, "idle", NoLoc)
    BY <1>1 DEF ClaimState
  <2>2. [NoLoc EXCEPT !.linker = s] \in LocType /\ "provider" \in PCs
    BY FreshLocs DEF PCs
  <2> QED
    BY <1>1, <1>d, <2>1, <2>2, GotoFrame, ArriveFrame DEF ClaimState
<1>2. CASE Profile(r)
  <2>1. \A x \in Account, v \in BOOLEAN : [loc[r] EXCEPT !.acct = {x}, !.verified = v] \in LocType
    BY <1>l, NextLocs
  <2> QED
    BY <1>2, <1>d, <2>1, GotoFrame DEF Profile, Done, PCs
<1>3. CASE FindIdentity(r)
  <2>1. PICK x \in loc[r].acct : \/ Goto(r, "grant_user", [loc[r] EXCEPT !.user = linked[x]])
                                 \/ Goto(r, "linking_user", loc[r])
                                 \/ Goto(r, "find_email", loc[r])
                                 \/ Done(r)
    BY <1>3 DEF FindIdentity
  <2>2. linked[x] \in UserOption
    BY <1>l
  <2> QED
    BY <1>3, <1>l, <1>u, <2>1, <2>2, GotoFrame DEF FindIdentity, Done, PCs
<1>4. CASE LinkingUser(r)
  BY <1>4, <1>l, <1>u, GotoFrame DEF LinkingUser, Done, PCs
<1>5. CASE FindByEmail(r)
  <2>1. PICK x \in loc[r].acct : \/ Goto(r, "create", loc[r])
                                 \/ Goto(r, "link", [loc[r] EXCEPT !.user = At(EmailOf[x])])
                                 \/ Done(r)
    BY <1>5 DEF FindByEmail
  <2>2. At(EmailOf[x]) \in UserOption
    BY <1>l, AtMostOne
  <2> QED
    BY <1>5, <1>l, <1>u, <2>1, <2>2, GotoFrame DEF FindByEmail, Done, PCs
<1>6. CASE CreateFromProfile(r)
  <2>1. PICK x \in loc[r].acct :
          \/ \E u \in User : /\ CreatePasswordless(u, EmailOf[x])
                             /\ proven' = proven \cup {<<u, EmailOf[x]>>}
                             /\ Goto(r, "link", [loc[r] EXCEPT !.user = {u}])
          \/ Done(r) /\ UNCHANGED <<users, proven>>
    BY <1>6 DEF CreateFromProfile
  <2>2. EmailOf[x] \in Email
    BY <1>l
  <2>3. ASSUME NEW u \in User, CreatePasswordless(u, EmailOf[x])
        PROVE users' \in [User -> RowType]
    BY <2>2, <2>3, NewRowTyped DEF CreatePasswordless, Create
  <2>4. users' \in [User -> RowType] /\ proven' \in SUBSET (User \X Email)
    <3>1. ASSUME NEW u \in User, proven' = proven \cup {<<u, EmailOf[x]>>}
          PROVE proven' \in SUBSET (User \X Email)
      BY <2>2, <3>1
    <3> QED
      BY <2>1, <2>3, <3>1
  <2>5. \/ \E us \in UserOption : Goto(r, "link", [loc[r] EXCEPT !.user = us])
        \/ Done(r)
    BY <2>1, UserSets
  <2>6. pc' \in [Request -> PCs] /\ loc' \in [Request -> LocType]
    BY <1>u, <1>d, <2>5, GotoFrame DEF Done, PCs
  <2> QED
    BY <1>6, <2>4, <2>6 DEF CreateFromProfile
<1>7. CASE Link(r)
  <2>1. linked' \in [Account -> UserOption]
    BY <1>7, <1>l DEF Link
  <2>2. owned' \in SUBSET (Method \X User)
    <3>1. loc[r].user \subseteq User
      BY <1>l DEF UserOption
    <3>2. \A x \in Account : Via(x) \in Method
      BY DEF Method
    <3> QED
      BY <1>7, <1>l, <3>1, <3>2 DEF Link
  <2>3. AfterLink(r) \/ Done(r)
    BY <1>7 DEF Link
  <2> QED
    BY <1>7, <1>l, <2>1, <2>2, <2>3, GotoFrame DEF Link, AfterLink, Done, PCs
<1>8. CASE GrantUser(r)
  BY <1>8, <1>l, GotoFrame DEF GrantUser, Done, PCs
<1>9. CASE InsertGrant(r)
  <2>1. grants' \in SUBSET [user : User, via : Account]
    BY <1>9, <1>l DEF InsertGrant, UserOption
  <2> QED
    BY <1>9, <1>d, <2>1, GotoFrame DEF InsertGrant, Done
<1>10. CASE ClaimGrant(r)
  <2>1. PICK g \in grants : /\ grants' = grants \ {g}
                            /\ Arrive(r, "exchange_user",
                                      [NoLoc EXCEPT !.user = {g.user}, !.acct = {g.via}])
    BY <1>10 DEF ClaimGrant
  <2>2. [NoLoc EXCEPT !.user = {g.user}, !.acct = {g.via}] \in LocType
    BY UserSets, FreshLocs
  <2> QED
    BY <1>10, <2>1, <2>2, GotoFrame, ArriveFrame DEF ClaimGrant, PCs
<1>11. CASE ExchangeGrant(r)
  <2>1. sessions' \in SUBSET (Method \X User)
    <3>1. loc[r].user \subseteq User /\ \A x \in Account : Via(x) \in Method
      BY <1>l DEF UserOption, Method
    <3> QED
      BY <1>11, <1>l, <3>1 DEF ExchangeGrant, OpenSession
  <2> QED
    BY <1>11, <1>d, <2>1, GotoFrame DEF ExchangeGrant, Done
<1> QED
  BY <1>1, <1>2, <1>3, <1>4, <1>5, <1>6, <1>7, <1>8, <1>9, <1>10, <1>11 DEF Providers

LEMMA PasskeysTyped ==
  ASSUME TypeOK, NEW r \in Request, Passkeys(r) \/ Removal(r)
  PROVE  TypeOK'
<1> USE NoLocTyped, ConstantsAssumption
    DEF TypeOK, AccountsTypeOK, accountVars, oauthVars, passkeyVars, history
<1>l. /\ loc[r] \in LocType /\ loc[r].key \subseteq Passkey
      /\ loc[r].user \in UserOption /\ loc[r].user \subseteq User
  BY DEF LocType, UserOption
<1>d. "idle" \in PCs
  BY DEF PCs
<1>k. \A p \in Passkey, u \in User : [NoLoc EXCEPT !.user = {u}, !.key = {p}] \in LocType
  BY UserSets, FreshLocs
<1>1. ASSUME NEW u \in User, ClaimRegistration(r, u) PROVE TypeOK'
  <2>1. \/ \E p \in Passkey : Arrive(r, "store_passkey", [NoLoc EXCEPT !.user = {u}, !.key = {p}])
        \/ Arrive(r, "idle", NoLoc)
    BY <1>1 DEF ClaimRegistration
  <2>2. \E label \in PCs, l \in LocType : Arrive(r, label, l)
    BY <1>k, <1>d, <2>1 DEF PCs
  <2> QED
    BY <1>1, <2>2, GotoFrame, ArriveFrame DEF ClaimRegistration
<1>2. CASE StorePasskey(r)
  <2>1. PICK p \in loc[r].key :
          IF keys[p] = {} THEN Store(p, loc[r].user) ELSE UNCHANGED <<keys, owned>>
    BY <1>2 DEF StorePasskey
  <2>2. keys[p] = {} => keys[p] \cup loc[r].user = loc[r].user
    OBVIOUS
  <2>3. keys' \in [Passkey -> UserOption]
    BY <1>l, <2>1, <2>2 DEF Store
  <2>4. owned' \in SUBSET (Method \X User)
    BY <1>l, <2>1 DEF Store, Method
  <2> QED
    BY <1>2, <1>d, <2>3, <2>4, GotoFrame DEF StorePasskey, Done
<1>3. CASE ClaimAuthentication(r)
  <2>1. \/ \E p \in Passkey, u \in User :
              Arrive(r, "passkey_user", [NoLoc EXCEPT !.user = {u}, !.key = {p}])
        \/ Arrive(r, "idle", NoLoc)
    BY <1>3 DEF ClaimAuthentication
  <2>2. \E label \in PCs, l \in LocType : Arrive(r, label, l)
    BY <1>k, <1>d, <2>1 DEF PCs
  <2> QED
    BY <1>3, <2>2, GotoFrame, ArriveFrame DEF ClaimAuthentication
<1>4. CASE PasskeyUser(r)
  <2>1. PICK u \in loc[r].user :
          \/ Goto(r, "list_passkeys", [loc[r] EXCEPT !.verified = users[u].verified])
          \/ Done(r)
    BY <1>4 DEF PasskeyUser
  <2>2. users[u].verified \in BOOLEAN
    BY <1>l DEF RowType
  <2>3. [loc[r] EXCEPT !.verified = users[u].verified] \in LocType
    BY <1>l, <2>2, NextLocs
  <2> QED
    BY <1>4, <1>d, <2>1, <2>3, GotoFrame DEF PasskeyUser, Done, PCs
<1>5. CASE ListPasskeys(r)
  BY <1>5, <1>l, GotoFrame DEF ListPasskeys, Done, PCs
<1>6. CASE UpdatePasskey(r)
  <2>1. sessions' \in SUBSET (Method \X User)
    <3>1. \A p \in Passkey : ViaKey(p) \in Method
      BY DEF Method
    <3> QED
      BY <1>6, <1>l, <3>1 DEF UpdatePasskey, OpenSession
  <2> QED
    BY <1>6, <1>d, <2>1, GotoFrame DEF UpdatePasskey, Done
<1>7. ASSUME NEW u \in User, AskForRemoval(r, u) PROVE TypeOK'
  <2>1. PICK gone : /\ gone \in {{Via(y) : y \in {z \in Account : ProviderOf[z] = ProviderOf[x]}} :
                                     x \in LinkedTo(u)}
                                 \cup {{ViaKey(p)} : p \in KeysOf(u)}
                    /\ Arrive(r, "count_methods", [NoLoc EXCEPT !.user = {u}, !.gone = gone])
    BY <1>7 DEF AskForRemoval
  <2>2. gone \in SUBSET Method
    BY <2>1 DEF Method, KeysOf
  <2>3. [NoLoc EXCEPT !.user = {u}, !.gone = gone] \in LocType
    BY <2>2, UserSets, FreshLocs
  <2> QED
    BY <1>7, <2>1, <2>3, GotoFrame, ArriveFrame DEF AskForRemoval, PCs
<1>8. CASE CountMethods(r)
  <2>1. \A u \in loc[r].user : [loc[r] EXCEPT !.seen = Methods(u)] \in LocType
    BY <1>l, MethodsTyped, NextLocs
  <2> QED
    BY <1>8, <1>d, <2>1, GotoFrame DEF CountMethods, Done, PCs
<1>9. CASE Remove(r)
  <2>1. {} \in UserOption
    BY DEF UserOption
  <2>2. linked' \in [Account -> UserOption] /\ keys' \in [Passkey -> UserOption]
    BY <1>9, <2>1 DEF Remove
  <2> QED
    BY <1>9, <1>d, <2>2, GotoFrame DEF Remove, Done
<1> QED
  BY <1>1, <1>2, <1>3, <1>4, <1>5, <1>6, <1>7, <1>8, <1>9 DEF Passkeys, Removal

LEMMA TypeStep == TypeOK /\ UsersInv /\ [Next]_vars => TypeOK'
<1> SUFFICES ASSUME TypeOK, UsersInv, [Next]_vars PROVE TypeOK'
  OBVIOUS
<1> USE ConstantsAssumption
    DEF TypeOK, AccountsTypeOK, accountVars, oauthVars, passkeyVars, history
<1>1. ASSUME NEW r \in Request, MailedLinks(r) PROVE TypeOK'
  BY <1>1, MailedLinksTyped
<1>2. ASSUME NEW r \in Request, Providers(r) PROVE TypeOK'
  BY <1>2, ProvidersTyped
<1>3. ASSUME NEW r \in Request, Passkeys(r) \/ Removal(r) PROVE TypeOK'
  BY <1>3, PasskeysTyped
<1>4. ASSUME NEW r \in Request, Drop(r) PROVE TypeOK'
  BY <1>4, NoLocTyped, GotoFrame DEF Drop, Done, PCs
<1>5. ASSUME NEW us \in UserOption, InsertState(us) \/ InsertChallenge(us) PROVE TypeOK'
  BY <1>5 DEF InsertState, InsertChallenge, Event
<1>6. ASSUME NEW u \in User, ToggleActive(u) \/ SoftDelete(u) PROVE TypeOK'
  <2>1. users' \in [User -> RowType]
    <3>1. users[u] \in RowType /\ (~users[u].active) \in BOOLEAN
      BY Zenon DEF RowType
    <3>2. /\ [users[u] EXCEPT !.active = ~users[u].active] \in RowType
          /\ [users[u] EXCEPT !.status = "deleted"] \in RowType
      BY <3>1, RowsTyped
    <3> QED
      BY <1>6, <3>2 DEF ToggleActive, SoftDelete
  <2> QED
    BY <1>6, <2>1 DEF ToggleActive, SoftDelete, Event
<1>7. CASE Expire
  BY <1>7 DEF Expire
<1>8. CASE UNCHANGED vars
  BY <1>8 DEF vars
<1>9. {} \in UserOption
  BY DEF UserOption
<1> QED
  BY <1>1, <1>2, <1>3, <1>4, <1>5, <1>6, <1>7, <1>8, <1>9, UserSets
     DEF Next, Outside, StartSignIn, BeginLogin, StartLinking, BeginRegistration

-----------------------------------------------------------------------------
(* Accounts, addresses and links *)

\* What a step may make of the one row it writes: a new account with a free address; or a live
\* one that keeps its password and stays verified, and whose address is the old one or one that
\* is free and proven.
Born(w) == /\ users[w].status = "absent" /\ users'[w].status = "live"
           /\ Free(users'[w].email)
           /\ users'[w].verified => <<w, users'[w].email>> \in proven'
           /\ users'[w].verified \/ users'[w].password

Changed(w) == /\ users[w].status = "live" /\ users'[w].status \in {"live", "deleted"}
              /\ users[w].password => users'[w].password
              /\ users[w].verified => users'[w].verified
              /\ users'[w].verified => users[w].verified \/ <<w, users'[w].email>> \in proven'
              /\ \/ users'[w].email = users[w].email
                 \/ /\ At(users'[w].email) \subseteq {w}
                    /\ <<w, users'[w].email>> \in proven'

OneRow(w) == /\ \A u \in User : u # w => users'[u] = users[u]
             /\ Born(w) \/ Changed(w)

\* An UPDATE of a live row, by the row it writes.
LEMMA Written ==
  ASSUME TypeOK, NEW w \in User, NEW row \in RowType, Write(w, row)
  PROVE  \/ users' = users
         \/ /\ users[w].status = "live" /\ users'[w] = row
            /\ \A u \in User : u # w => users'[u] = users[u]
  BY DEF TypeOK, AccountsTypeOK, Write

LEMMA RowsMove ==
  ASSUME TypeOK, LinkInv, [Next]_vars
  PROVE  /\ proven \subseteq proven'
         /\ users' = users \/ \E w \in User : OneRow(w)
<1> USE DEF TypeOK, AccountsTypeOK
<1> DEFINE Goal == /\ proven \subseteq proven'
                   /\ users' = users \/ \E w \in User : OneRow(w)
<1>1. ASSUME NEW r \in Request, NEW u \in User, NEW e \in Email, Register(r, u, e) PROVE Goal
  <2>1. proven' = proven
    BY <1>1 DEF Register
  <2>2. Born(u) /\ \A v \in User : v # u => users'[v] = users[v]
    BY <1>1 DEF Register, Create, Born
  <2> QED
    BY <2>1, <2>2 DEF OneRow
<1>2. ASSUME NEW r \in Request, CreateFromProfile(r) PROVE Goal
  <2>1. PICK x \in loc[r].acct :
          \/ \E u \in User : /\ CreatePasswordless(u, EmailOf[x])
                             /\ proven' = proven \cup {<<u, EmailOf[x]>>}
          \/ UNCHANGED <<users, proven>>
    BY <1>2 DEF CreateFromProfile
  <2>2. EmailOf[x] \in Email
    BY ConstantsAssumption DEF LocType
  <2>3. ASSUME NEW u \in User, CreatePasswordless(u, EmailOf[x]),
               proven' = proven \cup {<<u, EmailOf[x]>>}
        PROVE Goal
    <3>1. /\ users'[u] = [status |-> "live", email |-> EmailOf[x], verified |-> TRUE,
                          active |-> TRUE, password |-> FALSE]
          /\ users[u].status = "absent" /\ Free(EmailOf[x])
          /\ \A v \in User : v # u => users'[v] = users[v]
      BY <2>3 DEF CreatePasswordless, Create
    <3>2. Born(u)
      BY <2>3, <3>1 DEF Born
    <3> QED
      BY <2>3, <3>1, <3>2 DEF OneRow
  <2> QED
    BY <2>1, <2>3
<1>3. ASSUME NEW r \in Request, SetPassword(r) PROVE Goal
  <2>1. PICK l \in loc[r].link : SetPasswordHash(l.user) \/ users' = users
    BY <1>3 DEF SetPassword
  <2>2. l.user \in User /\ users[l.user] \in RowType
    BY DEF LocType, LinkType
  <2>3. \/ users' = users
        \/ /\ users[l.user].status = "live"
           /\ users'[l.user] = [users[l.user] EXCEPT !.password = TRUE]
           /\ \A u \in User : u # l.user => users'[u] = users[u]
    BY <2>1, <2>2, RowsTyped, Written DEF SetPasswordHash
  <2>4. users' = users \/ OneRow(l.user)
    BY <2>2, <2>3 DEF OneRow, Changed, RowType
  <2> QED
    BY <1>3, <2>2, <2>4 DEF SetPassword
<1>4. ASSUME NEW r \in Request, MarkVerified(r) PROVE Goal
  <2>1. PICK l \in loc[r].link : MarkEmailVerified(l.user)
    BY <1>4 DEF MarkVerified
  <2>2. l.user \in User /\ users[l.user] \in RowType
    BY DEF LocType, LinkType
  <2>3. \/ users' = users
        \/ /\ users[l.user].status = "live"
           /\ users'[l.user] = [users[l.user] EXCEPT !.verified = TRUE]
           /\ \A u \in User : u # l.user => users'[u] = users[u]
    BY <2>1, <2>2, RowsTyped, Written DEF MarkEmailVerified
  <2>4. <<l.user, users[l.user].email>> \in proven
    BY <1>4, <2>1 DEF MarkVerified, LinkInv, Sound, Claimed, Proven
  <2>5. proven' = proven
    BY <1>4 DEF MarkVerified
  <2>6. users' = users \/ OneRow(l.user)
    BY <2>2, <2>3, <2>4, <2>5 DEF OneRow, Changed, RowType
  <2> QED
    BY <2>2, <2>5, <2>6
<1>5. ASSUME NEW r \in Request, ConfirmChange(r) PROVE Goal
  <2>1. PICK l \in loc[r].link : ChangeEmail(l.user, l.new_email) \/ users' = users
    BY <1>5 DEF ConfirmChange
  <2>2. l.user \in User /\ l.new_email \in Email /\ users[l.user] \in RowType
    BY DEF LocType, LinkType
  <2>3. [users[l.user] EXCEPT !.email = l.new_email, !.verified = TRUE] \in RowType
    BY <2>2, RowsTyped
  <2>4. \/ users' = users
        \/ /\ users[l.user].status = "live" /\ At(l.new_email) \subseteq {l.user}
           /\ users'[l.user] = [users[l.user] EXCEPT !.email = l.new_email, !.verified = TRUE]
           /\ \A u \in User : u # l.user => users'[u] = users[u]
    BY <2>1, <2>2, <2>3, Written DEF ChangeEmail, Changeable
  <2>5. <<l.user, l.new_email>> \in proven
    BY <1>5, <2>1 DEF ConfirmChange, LinkInv, Sound, Claimed
  <2>6. proven' = proven
    BY <1>5 DEF ConfirmChange
  <2>7. users' = users \/ OneRow(l.user)
    <3>1. LET new == [users[l.user] EXCEPT !.email = l.new_email, !.verified = TRUE]
          IN /\ new.email = l.new_email /\ new.verified
             /\ new.status = users[l.user].status /\ new.password = users[l.user].password
      BY <2>2 DEF RowType
    <3> QED
      BY <2>2, <2>4, <2>5, <2>6, <3>1 DEF OneRow, Changed
  <2> QED
    BY <2>2, <2>6, <2>7
<1>6. ASSUME NEW u \in User, ToggleActive(u) \/ SoftDelete(u) PROVE Goal
  <2>1. users[u] \in RowType /\ proven' = proven
    BY <1>6 DEF ToggleActive, SoftDelete
  <2>2. OneRow(u)
    BY <1>6, <2>1 DEF ToggleActive, SoftDelete, OneRow, Changed, RowType
  <2> QED
    BY <2>1, <2>2
<1>7. ASSUME NEW r \in Request, FollowLink(r) PROVE Goal
  BY <1>7 DEF FollowLink, ClaimLink
<1>8. CASE UNCHANGED <<users, proven>>
  BY <1>8
<1>9. ASSUME NEW r \in Request, MailedLinks(r) PROVE Goal
  BY <1>9, <1>1, <1>3, <1>4, <1>5, <1>7, <1>8
     DEF MailedLinks, AskForLink, InvalidateOlder, MailLink, ResetUser, DropLinks, accountVars
<1>10. ASSUME NEW r \in Request, Providers(r) PROVE Goal
  <2>1. ASSUME ClaimState(r) \/ Profile(r) \/ FindIdentity(r) \/ LinkingUser(r) PROVE Goal
    BY <2>1, <1>8 DEF ClaimState, Profile, FindIdentity, LinkingUser, accountVars
  <2>2. ASSUME FindByEmail(r) \/ Link(r) PROVE Goal
    BY <2>2, <1>8 DEF FindByEmail, Link, accountVars
  <2>3. ASSUME GrantUser(r) \/ InsertGrant(r) \/ ClaimGrant(r) \/ ExchangeGrant(r) PROVE Goal
    <3>1. UNCHANGED accountVars
      <4>1. CASE GrantUser(r)
        BY <4>1 DEF GrantUser
      <4>2. CASE InsertGrant(r)
        BY <4>2 DEF InsertGrant
      <4>3. CASE ClaimGrant(r)
        BY <4>3 DEF ClaimGrant
      <4>4. CASE ExchangeGrant(r)
        BY <4>4 DEF ExchangeGrant
      <4> QED
        BY <2>3, <4>1, <4>2, <4>3, <4>4
    <3> QED
      BY <1>8, <3>1 DEF accountVars
  <2> QED
    BY <1>10, <1>2, <2>1, <2>2, <2>3 DEF Providers
<1>11. ASSUME NEW r \in Request, Passkeys(r) \/ Removal(r) \/ Drop(r) PROVE Goal
  BY <1>11, <1>8
     DEF Passkeys, Removal, ClaimRegistration, StorePasskey, ClaimAuthentication, PasskeyUser,
         ListPasskeys, UpdatePasskey, AskForRemoval, CountMethods, Remove, Drop, accountVars
<1>12. CASE Outside
  BY <1>12, <1>6, <1>8
     DEF Outside, StartSignIn, BeginLogin, StartLinking, BeginRegistration, InsertState,
         InsertChallenge, Expire, accountVars
<1>13. CASE UNCHANGED vars
  BY <1>13, <1>8 DEF vars, accountVars
<1> QED
  BY <1>9, <1>10, <1>11, <1>12, <1>13 DEF Next

LEMMA UsersStep == TypeOK /\ UsersInv /\ LinkInv /\ [Next]_vars => UsersInv'
<1> SUFFICES ASSUME TypeOK, UsersInv, LinkInv, [Next]_vars PROVE UsersInv'
  OBVIOUS
<1> USE DEF UsersInv, EmailsUnique, Recoverable, VerifiedIsProven
<1>p. proven \subseteq proven'
  BY RowsMove
<1>1. CASE users' = users
  BY <1>1, <1>p
<1>2. ASSUME NEW w \in User, OneRow(w) PROVE UsersInv'
  <2>1. \A u \in User : u # w => users'[u] = users[u]
    BY <1>2 DEF OneRow
  <2>2. EmailsUnique(users')
    <3>1. \A u \in User : /\ u # w /\ users[u].status = "live" /\ users'[w].status = "live"
                          => users'[w].email # users[u].email
      BY <1>2 DEF OneRow, Born, Changed, Free, At
    <3> QED
      BY <2>1, <3>1
  <2>3. Recoverable(users')
    BY <1>2, <2>1 DEF OneRow, Born, Changed
  <2>4. users'[w].status = "live" /\ users'[w].verified => <<w, users'[w].email>> \in proven'
    BY <1>2, <1>p DEF OneRow, Born, Changed
  <2> QED
    BY <1>p, <2>1, <2>2, <2>3, <2>4
<1> QED
  BY <1>1, <1>2, RowsMove

\* A link that was sound stays so, whatever becomes of its account.
LEMMA SoundStays ==
  ASSUME TypeOK, LinkInv, [Next]_vars, NEW l \in LinkType, Sound(l)
  PROVE  Sound(l)'
<1>p. proven \subseteq proven'
  BY RowsMove
<1>u. l.user \in User
  BY DEF LinkType
<1>1. CASE users' = users
  BY <1>1, <1>p, <1>u DEF Sound, Proven
<1>2. ASSUME NEW w \in User, OneRow(w) PROVE Sound(l)'
  <2>1. CASE l.user = w
    BY <1>2, <1>p, <2>1 DEF Sound, Proven, OneRow, Born, Changed
  <2>2. CASE l.user # w
    BY <1>2, <1>p, <1>u, <2>2 DEF Sound, Proven, OneRow
  <2> QED
    BY <2>1, <2>2
<1> QED
  BY <1>1, <1>2, RowsMove

\* The requests that are not about links take none up.
LEMMA OtherSteps ==
  ASSUME TypeOK, NEW r \in Request, Providers(r) \/ Passkeys(r) \/ Removal(r) \/ Drop(r)
  PROVE  /\ links' = links
         /\ \A q \in Request : q # r => pc'[q] = pc[q] /\ loc'[q] = loc[q]
         /\ pc'[r] \notin Claimed /\ loc'[r].link \subseteq loc[r].link
<1> USE DEF accountVars
<1> DEFINE Goal == /\ links' = links
                   /\ \A q \in Request : q # r => pc'[q] = pc[q] /\ loc'[q] = loc[q]
                   /\ pc'[r] \notin Claimed /\ loc'[r].link \subseteq loc[r].link
<1>g. ASSUME NEW label \in PCs \ Claimed, NEW l, Goto(r, label, l), l.link \subseteq loc[r].link,
             links' = links
      PROVE  Goal
  BY <1>g, Moved
<1>d. ASSUME Done(r), links' = links PROVE Goal
  BY <1>d, <1>g, NoLocFields DEF Done, PCs, Claimed
<1>i. ASSUME Arrive(r, "idle", NoLoc), links' = links PROVE Goal
  BY <1>i, <1>d DEF Arrive, Done
<1>a. ASSUME NEW label \in PCs \ Claimed, NEW l, Arrive(r, label, l), l.link = {}, links' = links
      PROVE  Goal
  BY <1>a, <1>g DEF Arrive
<1>k. /\ \A us : [loc[r] EXCEPT !.user = us].link = loc[r].link
      /\ \A v : [loc[r] EXCEPT !.verified = v].link = loc[r].link
      /\ \A x, v : [loc[r] EXCEPT !.acct = {x}, !.verified = v].link = loc[r].link
      /\ \A m : [loc[r] EXCEPT !.seen = m].link = loc[r].link
  BY DEF TypeOK, LocType
<1>1. CASE Providers(r)
  <2>1. CASE ClaimState(r)
    <3>1. PICK s \in states : \/ Arrive(r, "provider", [NoLoc EXCEPT !.linker = s])
                              \/ Arrive(r, "idle", NoLoc)
      BY <2>1 DEF ClaimState
    <3>2. [NoLoc EXCEPT !.linker = s].link = {} /\ links' = links
      BY <2>1 DEF NoLoc, ClaimState
    <3> QED
      BY <1>a, <1>i, <3>1, <3>2 DEF PCs, Claimed
  <2>2. CASE Profile(r)
    <3>1. ASSUME NEW x \in Account, NEW v \in BOOLEAN,
                 Goto(r, "find_identity", [loc[r] EXCEPT !.acct = {x}, !.verified = v])
          PROVE  Goal
      <4> DEFINE l == [loc[r] EXCEPT !.acct = {x}, !.verified = v]
      <4>1. l.link \subseteq loc[r].link /\ "find_identity" \in PCs \ Claimed
        BY <1>k DEF PCs, Claimed
      <4>2. links' = links
        BY <2>2 DEF Profile
      <4> HIDE DEF l
      <4>3. Goto(r, "find_identity", l)
        BY <3>1 DEF l
      <4> QED
        BY <4>1, <4>2, <4>3, <1>g
    <3> QED
      BY <2>2, <3>1, <1>d DEF Profile
  <2>3. CASE FindIdentity(r)
    <3>1. PICK x \in loc[r].acct : \/ Goto(r, "grant_user", [loc[r] EXCEPT !.user = linked[x]])
                                   \/ Goto(r, "linking_user", loc[r])
                                   \/ Goto(r, "find_email", loc[r])
                                   \/ Done(r)
      BY <2>3 DEF FindIdentity
    <3> QED
      BY <2>3, <3>1, <1>g, <1>d, <1>k DEF FindIdentity, PCs, Claimed
  <2>4. CASE LinkingUser(r) \/ GrantUser(r)
    BY <2>4, <1>g, <1>d, <1>k DEF LinkingUser, GrantUser, PCs, Claimed
  <2>5. CASE FindByEmail(r)
    <3>1. PICK x \in loc[r].acct : \/ Goto(r, "create", loc[r])
                                   \/ Goto(r, "link", [loc[r] EXCEPT !.user = At(EmailOf[x])])
                                   \/ Done(r)
      BY <2>5 DEF FindByEmail
    <3> QED
      BY <2>5, <3>1, <1>g, <1>d, <1>k DEF FindByEmail, PCs, Claimed
  <2>6. CASE CreateFromProfile(r)
    <3>1. \/ \E u \in User : Goto(r, "link", [loc[r] EXCEPT !.user = {u}])
          \/ Done(r)
      BY <2>6 DEF CreateFromProfile
    <3> QED
      BY <2>6, <3>1, <1>g, <1>d, <1>k DEF CreateFromProfile, PCs, Claimed
  <2>7. CASE Link(r)
    <3>1. Goto(r, "grant_user", loc[r]) \/ Done(r)
      BY <2>7 DEF Link, AfterLink
    <3> QED
      BY <2>7, <3>1, <1>g, <1>d DEF Link, PCs, Claimed
  <2>8. CASE InsertGrant(r) \/ ExchangeGrant(r)
    BY <2>8, <1>d DEF InsertGrant, ExchangeGrant
  <2>9. CASE ClaimGrant(r)
    <3>1. PICK g \in grants :
            Arrive(r, "exchange_user", [NoLoc EXCEPT !.user = {g.user}, !.acct = {g.via}])
      BY <2>9 DEF ClaimGrant
    <3>2. [NoLoc EXCEPT !.user = {g.user}, !.acct = {g.via}].link = {}
      BY DEF NoLoc
    <3> QED
      BY <2>9, <1>a, <3>1, <3>2 DEF ClaimGrant, PCs, Claimed
  <2> QED
    BY <1>1, <2>1, <2>2, <2>3, <2>4, <2>5, <2>6, <2>7, <2>8, <2>9 DEF Providers
<1>n. \A us, p : [NoLoc EXCEPT !.user = us, !.key = {p}].link = {}
  BY DEF NoLoc
<1>2. CASE Passkeys(r)
  <2>1. ASSUME NEW u \in User, ClaimRegistration(r, u) PROVE Goal
    BY <2>1, <1>a, <1>i, <1>n DEF ClaimRegistration, PCs, Claimed
  <2>2. CASE StorePasskey(r) \/ UpdatePasskey(r)
    BY <2>2, <1>d DEF StorePasskey, UpdatePasskey
  <2>3. CASE ClaimAuthentication(r)
    BY <2>3, <1>a, <1>i, <1>n DEF ClaimAuthentication, PCs, Claimed
  <2>4. CASE PasskeyUser(r)
    BY <2>4, <1>g, <1>d, <1>k DEF PasskeyUser, PCs, Claimed
  <2>5. CASE ListPasskeys(r)
    BY <2>5, <1>g, <1>d DEF ListPasskeys, PCs, Claimed
  <2> QED
    BY <1>2, <2>1, <2>2, <2>3, <2>4, <2>5 DEF Passkeys
<1>3. CASE Removal(r)
  <2>1. ASSUME NEW u \in User, AskForRemoval(r, u) PROVE Goal
    <3>1. PICK gone : Arrive(r, "count_methods", [NoLoc EXCEPT !.user = {u}, !.gone = gone])
      BY <2>1 DEF AskForRemoval
    <3>2. [NoLoc EXCEPT !.user = {u}, !.gone = gone].link = {}
      BY DEF NoLoc
    <3> QED
      BY <2>1, <1>a, <3>1, <3>2 DEF AskForRemoval, PCs, Claimed
  <2>2. CASE CountMethods(r)
    BY <2>2, <1>g, <1>d, <1>k DEF CountMethods, PCs, Claimed
  <2>3. CASE Remove(r)
    BY <2>3, <1>d DEF Remove
  <2> QED
    BY <1>3, <2>1, <2>2, <2>3 DEF Removal
<1>4. CASE Drop(r)
  BY <1>4, <1>d DEF Drop
<1> QED
  BY <1>1, <1>2, <1>3, <1>4

\* What following, issuing and dropping links does to the links at large and in hand.
LEMMA LinkStep == TypeOK /\ LinkInv /\ [Next]_vars => LinkInv'
<1> SUFFICES ASSUME TypeOK, LinkInv, [Next]_vars PROVE LinkInv'
  OBVIOUS
<1>t. /\ links \subseteq LinkType
      /\ \A r \in Request : loc[r] \in LocType /\ loc[r].link \subseteq LinkType
  BY DEF TypeOK, AccountsTypeOK, LocType
<1>p. proven \subseteq proven'
  BY RowsMove
<1>s. /\ \A l \in links : Sound(l)'
      /\ \A r \in Request : \A l \in loc[r].link : Sound(l)'
  BY <1>t, SoundStays DEF LinkInv
<1>n. NoLoc.link = {}
  BY DEF NoLoc
<1>m. \A l \in LinkType : [NoLoc EXCEPT !.link = {l}].link = {l}
  BY DEF NoLoc
\* It is enough that new links are sound, and that the request at hand is.
<1> DEFINE Held(r) == \A l \in loc'[r].link :
                 /\ Sound(l)'
                 /\ pc'[r] \in Claimed => <<l.user, l.to>> \in proven'
                 /\ pc'[r] \in {"reset_user", "set_password", "mark_verified"} => l.kind # "change"
                 /\ pc'[r] = "change_email" => l.kind = "change"
<1>h. ASSUME NEW q \in Request, pc'[q] = pc[q], loc'[q] = loc[q] PROVE Held(q)
  BY <1>h, <1>s, <1>p DEF LinkInv
<1>g. ASSUME NEW r \in Request, \A q \in Request : q # r => pc'[q] = pc[q] /\ loc'[q] = loc[q],
             Held(r), \A l \in links' : Sound(l)'
      PROVE LinkInv'
  BY <1>g, <1>h DEF LinkInv
<1>d. ASSUME NEW r \in Request, NEW label \in PCs \ Claimed, NEW l \in LocType, Goto(r, label, l),
             l.link \subseteq loc[r].link, links' \subseteq links
      PROVE LinkInv'
  <2>1. Held(r)
    BY <1>d, <1>s, GotoFrame DEF Claimed
  <2> QED
    BY <1>d, <1>g, <1>s, <2>1, GotoFrame
<1>1. ASSUME NEW r \in Request, MailedLinks(r) PROVE LinkInv'
  <2>1. ASSUME NEW u \in User, NEW e \in Email, Register(r, u, e) PROVE LinkInv'
    <3> DEFINE l == [user |-> u, kind |-> "verify", to |-> e, new_email |-> e]
    <3>1. l \in LinkType /\ Goto(r, "invalidate", [NoLoc EXCEPT !.link = {l}]) /\ links' = links
      BY <2>1 DEF Register, Arrive, LinkType
    <3>2. Sound(l)'
      BY <2>1 DEF Register, Create, Sound, TypeOK, AccountsTypeOK
    <3>3. [NoLoc EXCEPT !.link = {l}] \in LocType
      BY <3>1, FreshLocs DEF UserOption
    <3>4. Held(r)
      <4>1. pc'[r] = "invalidate" /\ loc'[r].link = {l}
        <5>1. pc'[r] = "invalidate" /\ loc'[r] = [NoLoc EXCEPT !.link = {l}]
          BY <3>1, Moved
        <5> QED
          BY <1>m, <3>1, <5>1
      <4> QED
        BY <3>2, <4>1 DEF Claimed
    <3> QED
      BY <1>g, <1>s, <3>1, <3>3, <3>4, GotoFrame DEF PCs
  <2>2. ASSUME NEW u \in User, AskForLink(r, u) PROVE LinkInv'
    <3>1. users[u].email \in Email /\ users[u].status # "absent"
      BY <2>2 DEF AskForLink, Active, TypeOK, AccountsTypeOK, RowType
    <3>2. PICK l \in LinkType : /\ Arrive(r, "invalidate", [NoLoc EXCEPT !.link = {l}])
                                /\ Sound(l)
      <4>1. PICK l : /\ \/ \E k \in {"reset", "verify"} :
                             l = [user |-> u, kind |-> k, to |-> users[u].email,
                                  new_email |-> users[u].email]
                        \/ \E n \in Email : l = ChangeLink(u, n)
                     /\ Arrive(r, "invalidate", [NoLoc EXCEPT !.link = {l}])
        BY <2>2 DEF AskForLink
      <4>2. l \in LinkType /\ Sound(l)
        BY <3>1, <4>1 DEF ChangeLink, LinkType, Sound
      <4> QED
        BY <4>1, <4>2
    <3>3. links' = links /\ Goto(r, "invalidate", [NoLoc EXCEPT !.link = {l}])
      BY <2>2, <3>2 DEF AskForLink, Arrive, accountVars
    <3>4. [NoLoc EXCEPT !.link = {l}] \in LocType
      BY FreshLocs DEF UserOption
    <3>5. Held(r)
      <4>1. pc'[r] = "invalidate" /\ loc'[r].link = {l} /\ Sound(l)'
        <5>1. pc'[r] = "invalidate" /\ loc'[r] = [NoLoc EXCEPT !.link = {l}]
          BY <3>3, Moved
        <5> QED
          BY <1>m, <3>2, <5>1, SoundStays
      <4> QED
        BY <4>1 DEF Claimed
    <3> QED
      BY <1>g, <1>s, <3>3, <3>4, <3>5, GotoFrame DEF PCs
  <2>3. CASE InvalidateOlder(r)
    <3>1. Goto(r, "insert_link", loc[r]) /\ links' \subseteq links
      BY <2>3 DEF InvalidateOlder, InvalidateLinks
    <3>2. Held(r)
      BY <1>s, <1>t, <3>1, GotoFrame DEF PCs, Claimed
    <3> QED
      BY <1>g, <1>s, <1>t, <3>1, <3>2, GotoFrame DEF PCs
  <2>4. CASE MailLink(r)
    <3>1. Goto(r, "idle", NoLoc) /\ links' \subseteq links \cup loc[r].link
      BY <2>4 DEF MailLink, InsertLink, Done
    <3>2. Held(r)
      BY <1>n, <3>1, NoLocTyped, GotoFrame DEF PCs
    <3> QED
      BY <1>g, <1>s, <3>1, <3>2, NoLocTyped, GotoFrame DEF PCs
  <2>5. CASE FollowLink(r)
    <3>1. PICK l \in links :
            /\ ClaimLink(l)
            /\ \/ /\ l.kind # "change"
                  /\ \E label \in {"reset_user", "mark_verified"} :
                        Arrive(r, label, [NoLoc EXCEPT !.link = {l}])
               \/ l.kind = "change" /\ Arrive(r, "change_email", [NoLoc EXCEPT !.link = {l}])
      BY <2>5, FollowLinkCases
    <3>2. links' \subseteq links /\ <<l.user, l.to>> \in proven'
      BY <3>1 DEF ClaimLink
    <3>3. [NoLoc EXCEPT !.link = {l}] \in LocType
      BY <1>t, FreshLocs DEF UserOption
    <3>4. ASSUME NEW label \in {"reset_user", "mark_verified", "change_email"},
                 label = "change_email" <=> l.kind = "change",
                 Arrive(r, label, [NoLoc EXCEPT !.link = {l}])
          PROVE  LinkInv'
      <4>1. label \in PCs /\ Goto(r, label, [NoLoc EXCEPT !.link = {l}])
        BY <3>4 DEF Arrive, PCs
      <4>2. Held(r)
        <5>1. pc'[r] = label /\ loc'[r].link = {l}
          <6>1. pc'[r] = label /\ loc'[r] = [NoLoc EXCEPT !.link = {l}]
            BY <4>1, Moved
          <6> QED
            BY <1>m, <1>t, <6>1
        <5> QED
          BY <1>s, <3>2, <3>4, <5>1
      <4> QED
        BY <1>g, <1>s, <3>2, <3>3, <4>1, <4>2, GotoFrame
    <3> QED
      BY <3>1, <3>4
  <2>6. CASE ResetUser(r) \/ SetPassword(r) \/ MarkVerified(r) \/ ConfirmChange(r)
    <3>1. links' = links
      BY <2>6 DEF ResetUser, SetPassword, MarkVerified, ConfirmChange, accountVars
    <3>2. \/ Done(r)
          \/ pc[r] = "reset_user" /\ Goto(r, "set_password", loc[r])
          \/ pc[r] = "set_password" /\ Goto(r, "mark_verified", loc[r])
          \/ pc[r] \in Claimed /\ Goto(r, "drop_links", loc[r])
      BY <2>6 DEF ResetUser, SetPassword, MarkVerified, ConfirmChange, Claimed
    <3>3. CASE Done(r)
      BY <1>d, <1>n, <3>1, <3>3, NoLocTyped DEF Done, PCs, Claimed
    <3>4. ASSUME pc[r] \in {"reset_user", "set_password"},
                 NEW label \in {"set_password", "mark_verified"}, Goto(r, label, loc[r])
          PROVE  LinkInv'
      <4>1. Held(r)
        <5>1. pc'[r] = label /\ loc'[r] = loc[r]
          BY <3>4, Moved
        <5> QED
          BY <1>s, <1>p, <3>4, <5>1 DEF Claimed, LinkInv
      <4> QED
        BY <1>g, <1>s, <1>t, <3>1, <3>4, <4>1, GotoFrame DEF PCs
    <3>5. ASSUME pc[r] \in Claimed, Goto(r, "drop_links", loc[r]) PROVE LinkInv'
      <4>1. Held(r)
        <5>1. pc'[r] = "drop_links" /\ loc'[r] = loc[r]
          BY <3>5, Moved
        <5> QED
          BY <1>s, <1>p, <3>5, <5>1 DEF LinkInv
      <4> QED
        BY <1>g, <1>s, <1>t, <3>1, <3>5, <4>1, GotoFrame DEF PCs
    <3> QED
      BY <3>2, <3>3, <3>4, <3>5
  <2>7. CASE DropLinks(r)
    BY <1>d, <1>n, <2>7, NoLocTyped DEF DropLinks, InvalidateLinks, Done, PCs, Claimed
  <2> QED
    BY <1>1, <2>1, <2>2, <2>3, <2>4, <2>5, <2>6, <2>7 DEF MailedLinks
<1>2. ASSUME NEW r \in Request, Providers(r) \/ Passkeys(r) \/ Removal(r) \/ Drop(r) PROVE LinkInv'
  <2>1. links' = links
    BY <1>2, OtherSteps
  <2>2. Held(r)
    BY <1>2, <1>s, OtherSteps DEF Claimed
  <2> QED
    BY <1>2, <1>g, <1>s, <2>1, <2>2, OtherSteps
<1>3. CASE Outside
  <2>1. links' \subseteq links /\ UNCHANGED <<pc, loc>>
    BY <1>3 DEF Outside, StartSignIn, BeginLogin, StartLinking, BeginRegistration, InsertState,
         InsertChallenge, Expire, ToggleActive, SoftDelete, accountVars
  <2> QED
    BY <1>h, <1>s, <2>1 DEF LinkInv
<1>4. CASE UNCHANGED vars
  BY <1>4, <1>h, <1>s DEF LinkInv, vars, accountVars
<1> QED
  BY <1>1, <1>2, <1>3, <1>4 DEF Next

-----------------------------------------------------------------------------
(* Sign-in through providers and passkeys *)

\* Where a request about links, or about passkeys and removals, may be.
LinkPCs == {"idle", "invalidate", "insert_link", "reset_user", "set_password", "mark_verified",
            "change_email", "drop_links"}
KeyPCs == {"idle", "store_passkey", "passkey_user", "list_passkeys", "update_passkey",
           "count_methods", "remove"}

\* What the step of a request leaves alone.
Apart(r) == /\ \A q \in Request : q # r => pc'[q] = pc[q] /\ loc'[q] = loc[q]
            /\ loc'[r].acct \subseteq loc[r].acct
            /\ owned \subseteq owned' /\ UNCHANGED grants

LEMMA MailedLinksApart ==
  ASSUME TypeOK, NEW r \in Request, MailedLinks(r)
  PROVE  Apart(r) /\ pc'[r] \in LinkPCs /\ UNCHANGED <<linked, keys, sessions>>
<1> USE DEF oauthVars, passkeyVars, history
<1> DEFINE Kept == owned \subseteq owned' /\ UNCHANGED <<grants, linked, keys, sessions>>
           Goal == Apart(r) /\ pc'[r] \in LinkPCs /\ UNCHANGED <<linked, keys, sessions>>
<1>g. ASSUME NEW label \in LinkPCs, NEW l, Goto(r, label, l), l.acct \subseteq loc[r].acct, Kept
      PROVE  Goal
  BY <1>g, Moved DEF Apart
<1>d. ASSUME Done(r), Kept PROVE Goal
  BY <1>d, <1>g, NoLocFields DEF Done, LinkPCs
<1>a. ASSUME NEW label \in LinkPCs, NEW l, Arrive(r, label, [NoLoc EXCEPT !.link = {l}]), Kept
      PROVE  Goal
  <2>1. [NoLoc EXCEPT !.link = {l}].acct = {}
    BY DEF NoLoc
  <2> QED
    BY <1>a, <1>g, <2>1 DEF Arrive
<1>1. ASSUME NEW u \in User, NEW e \in Email, Register(r, u, e) PROVE Goal
  <2>1. Kept
    BY <1>1 DEF Register
  <2> QED
    BY <1>1, <1>a, <2>1 DEF Register, LinkPCs
<1>2. ASSUME NEW u \in User, AskForLink(r, u) PROVE Goal
  <2>1. Kept
    BY <1>2 DEF AskForLink
  <2>2. PICK l : Arrive(r, "invalidate", [NoLoc EXCEPT !.link = {l}])
    BY <1>2 DEF AskForLink
  <2> QED
    BY <1>a, <2>1, <2>2 DEF LinkPCs
<1>3. CASE InvalidateOlder(r)
  BY <1>3, <1>g DEF InvalidateOlder, LinkPCs
<1>4. CASE MailLink(r) \/ DropLinks(r)
  BY <1>4, <1>d DEF MailLink, DropLinks
<1>5. CASE FollowLink(r)
  <2>1. Kept
    BY <1>5 DEF FollowLink
  <2>2. PICK l \in links, label \in LinkPCs : Arrive(r, label, [NoLoc EXCEPT !.link = {l}])
    BY <1>5, FollowLinkCases DEF LinkPCs
  <2> QED
    BY <1>a, <2>1, <2>2
<1>6a. CASE ResetUser(r)
  BY <1>6a, <1>g, <1>d DEF ResetUser, LinkPCs
<1>6. CASE SetPassword(r)
  <2>1. Kept
    BY <1>6 DEF SetPassword
  <2>2. Goto(r, "mark_verified", loc[r]) \/ Done(r)
    BY <1>6 DEF SetPassword
  <2> QED
    BY <1>g, <1>d, <2>1, <2>2 DEF LinkPCs
<1>7. CASE MarkVerified(r) \/ ConfirmChange(r)
  <2>1. Goto(r, "drop_links", loc[r]) \/ Done(r)
    BY <1>7 DEF MarkVerified, ConfirmChange
  <2>2. Kept
    BY <1>7 DEF MarkVerified, ConfirmChange
  <2> QED
    BY <1>g, <1>d, <2>1, <2>2 DEF LinkPCs
<1> QED
  BY <1>1, <1>2, <1>3, <1>4, <1>5, <1>6, <1>6a, <1>7 DEF MailedLinks

LEMMA PasskeysApart ==
  ASSUME TypeOK, NEW r \in Request, Passkeys(r) \/ Removal(r) \/ Drop(r)
  PROVE  Apart(r) /\ pc'[r] \in KeyPCs
<1> USE DEF oauthVars, passkeyVars, history
<1> DEFINE Kept == owned \subseteq owned' /\ UNCHANGED grants
           Goal == Apart(r) /\ pc'[r] \in KeyPCs
<1>g. ASSUME NEW label \in KeyPCs, NEW l, Goto(r, label, l), l.acct \subseteq loc[r].acct, Kept
      PROVE  Goal
  BY <1>g, Moved DEF Apart
<1>d. ASSUME Done(r), Kept PROVE Goal
  BY <1>d, <1>g, NoLocFields DEF Done, KeyPCs
<1>a. ASSUME NEW label \in KeyPCs, NEW l, Arrive(r, label, l), l.acct = {}, Kept PROVE Goal
  BY <1>a, <1>g DEF Arrive
<1>i. ASSUME Arrive(r, "idle", NoLoc), Kept PROVE Goal
  BY <1>i, <1>d DEF Arrive, Done
<1>n. /\ \A us, p : [NoLoc EXCEPT !.user = us, !.key = {p}].acct = {}
      /\ \A us, gone : [NoLoc EXCEPT !.user = us, !.gone = gone].acct = {}
      /\ \A v : [loc[r] EXCEPT !.verified = v].acct = loc[r].acct
      /\ \A m : [loc[r] EXCEPT !.seen = m].acct = loc[r].acct
  BY DEF NoLoc, TypeOK, LocType
<1>1. ASSUME NEW u \in User, ClaimRegistration(r, u) PROVE Goal
  BY <1>1, <1>a, <1>i, <1>n DEF ClaimRegistration, KeyPCs
<1>2. CASE StorePasskey(r)
  <2>1. Kept
    BY <1>2 DEF StorePasskey, Store
  <2> QED
    BY <1>2, <1>d, <2>1 DEF StorePasskey
<1>3. CASE UpdatePasskey(r) \/ Remove(r) \/ Drop(r)
  <2>1. Kept /\ Done(r)
    BY <1>3 DEF UpdatePasskey, Remove, Drop
  <2> QED
    BY <1>d, <2>1
<1>4. CASE ClaimAuthentication(r)
  BY <1>4, <1>a, <1>i, <1>n DEF ClaimAuthentication, KeyPCs
<1>5. CASE PasskeyUser(r)
  BY <1>5, <1>g, <1>d, <1>n DEF PasskeyUser, KeyPCs
<1>6. CASE ListPasskeys(r)
  BY <1>6, <1>g, <1>d DEF ListPasskeys, KeyPCs
<1>7. ASSUME NEW u \in User, AskForRemoval(r, u) PROVE Goal
  <2>1. PICK gone : Arrive(r, "count_methods", [NoLoc EXCEPT !.user = {u}, !.gone = gone])
    BY <1>7 DEF AskForRemoval
  <2> QED
    BY <1>7, <1>a, <1>n, <2>1 DEF AskForRemoval, KeyPCs
<1>8. CASE CountMethods(r)
  BY <1>8, <1>g, <1>d, <1>n DEF CountMethods, KeyPCs
<1> QED
  BY <1>1, <1>2, <1>3, <1>4, <1>5, <1>6, <1>7, <1>8 DEF Passkeys, Removal

\* The steps of a sign-in through a provider: what is joined is proven, what is granted is
\* owned, and so is what is linked, granted or opened by the step.
LEMMA ProviderSteps ==
  ASSUME TypeOK, UsersInv, JoinInv, OwnedInv, NEW r \in Request, Providers(r),
         proven \subseteq proven'
  PROVE  /\ \A q \in Request : q # r => pc'[q] = pc[q] /\ loc'[q] = loc[q]
         /\ Joining(r)' /\ Granting(r)'
         /\ owned \subseteq owned' /\ UNCHANGED keys /\ pc'[r] # "remove"
         /\ \A x \in Account, u \in User : linked'[x] = {u} => <<Via(x), u>> \in owned'
         /\ \A g \in grants' : <<Via(g.via), g.user>> \in owned'
         /\ sessions' \subseteq owned'
<1> USE DEF oauthVars, passkeyVars, history
<1> DEFINE
      Frame == \A q \in Request : q # r => pc'[q] = pc[q] /\ loc'[q] = loc[q]
      Tables == /\ owned \subseteq owned' /\ UNCHANGED keys
                /\ \A x \in Account, u \in User : linked'[x] = {u} => <<Via(x), u>> \in owned'
                /\ \A g \in grants' : <<Via(g.via), g.user>> \in owned'
                /\ sessions' \subseteq owned'
      Goal == Frame /\ Joining(r)' /\ Granting(r)' /\ pc'[r] # "remove" /\ Tables
<1>l. /\ loc[r] \in LocType /\ loc[r].acct \subseteq Account /\ loc[r].user \in UserOption
      /\ \A x, y \in loc[r].acct : x = y
      /\ \A us \in UserOption : \A u \in us : us = {u} /\ u \in User
      /\ \A us : /\ [loc[r] EXCEPT !.user = us].user = us
                 /\ [loc[r] EXCEPT !.user = us].acct = loc[r].acct
                 /\ [loc[r] EXCEPT !.user = us].linker = loc[r].linker
  BY DEF TypeOK, LocType, UserOption, JoinInv, Joining
<1>t. ASSUME UNCHANGED <<linked, keys, grants, history>> PROVE Tables
  BY <1>t DEF OwnedInv, SessionsAreProven
<1>d. ASSUME Done(r), Tables PROVE Goal
  <2>1. Frame /\ pc'[r] = "idle" /\ loc'[r] = NoLoc
    BY <1>d, Moved DEF Done
  <2> QED
    BY <1>d, <2>1, NoLocFields DEF Joining, Granting
<1>1. CASE ClaimState(r)
  <2>1. Tables
    <3>1. UNCHANGED <<linked, keys, grants, history>>
      BY <1>1 DEF ClaimState
    <3> QED
      BY <1>t, <3>1
  <2>2. PICK us \in states : \/ Goto(r, "provider", [NoLoc EXCEPT !.linker = us])
                             \/ Done(r)
    BY <1>1 DEF ClaimState, Arrive, Done
  <2>3. ASSUME Goto(r, "provider", [NoLoc EXCEPT !.linker = us]) PROVE Goal
    <3>1. Frame /\ pc'[r] = "provider" /\ loc'[r] = [NoLoc EXCEPT !.linker = us]
      BY <2>3, Moved
    <3>2. loc'[r].acct = {}
      BY <3>1 DEF NoLoc
    <3> QED
      BY <2>1, <3>1, <3>2 DEF Joining, Granting
  <2> QED
    BY <1>d, <2>1, <2>2, <2>3
<1>2. CASE Profile(r)
  <2>1. Tables
    BY <1>2, <1>t DEF Profile
  <2>2. ASSUME NEW x \in Account, NEW v \in BOOLEAN,
               Goto(r, "find_identity", [loc[r] EXCEPT !.acct = {x}, !.verified = v])
        PROVE  Goal
    <3>1. /\ Frame /\ pc'[r] = "find_identity"
          /\ loc'[r] = [loc[r] EXCEPT !.acct = {x}, !.verified = v]
      BY <2>2, Moved
    <3>2. loc'[r].acct = {x}
      BY <1>l, <3>1 DEF LocType
    <3> QED
      BY <2>1, <3>1, <3>2 DEF Joining, Granting
  <2> QED
    BY <1>2, <1>d, <2>1, <2>2 DEF Profile
<1>3. CASE FindIdentity(r)
  <2>1. Tables
    BY <1>3, <1>t DEF FindIdentity
  <2>2. PICK x \in loc[r].acct :
          \/ Goto(r, "grant_user", [loc[r] EXCEPT !.user = linked[x]])
          \/ loc[r].linker # {} /\ Goto(r, "linking_user", loc[r])
          \/ Goto(r, "find_email", loc[r])
          \/ Done(r)
    BY <1>3 DEF FindIdentity
  <2>3. ASSUME Goto(r, "grant_user", [loc[r] EXCEPT !.user = linked[x]]) PROVE Goal
    <3>1. /\ Frame /\ pc'[r] = "grant_user"
          /\ loc'[r] = [loc[r] EXCEPT !.user = linked[x]]
      BY <2>3, Moved
    <3>2. loc'[r].user = linked[x] /\ loc'[r].acct = loc[r].acct
      BY <1>l, <3>1
    <3>3. linked[x] \in UserOption /\ x \in Account
      BY <1>l DEF TypeOK
    <3>4. \A u \in linked[x] : <<Via(x), u>> \in owned
      BY <1>l, <3>3 DEF OwnedInv
    <3>5. \A u \in loc'[r].user, y \in loc'[r].acct : <<Via(y), u>> \in owned'
      BY <1>l, <2>1, <3>2, <3>4
    <3> QED
      BY <1>l, <2>1, <3>1, <3>2, <3>5 DEF Joining, Granting
  <2>4. ASSUME \/ loc[r].linker # {} /\ Goto(r, "linking_user", loc[r])
               \/ Goto(r, "find_email", loc[r])
        PROVE  Goal
    <3>1. /\ Frame /\ loc'[r] = loc[r]
          /\ \/ loc[r].linker # {} /\ pc'[r] = "linking_user"
             \/ pc'[r] = "find_email"
      BY <2>4, Moved
    <3> QED
      BY <1>l, <2>1, <3>1 DEF Joining, Granting
  <2> QED
    BY <1>d, <2>1, <2>2, <2>3, <2>4
<1>4. CASE LinkingUser(r)
  <2>1. Tables
    BY <1>4, <1>t DEF LinkingUser
  <2>2. loc[r].linker # {}
    BY <1>4 DEF LinkingUser, JoinInv, Joining
  <2>3. ASSUME Goto(r, "link", [loc[r] EXCEPT !.user = loc[r].linker]) PROVE Goal
    <3>1. /\ Frame /\ pc'[r] = "link" /\ loc'[r] = [loc[r] EXCEPT !.user = loc[r].linker]
      BY <2>3, Moved
    <3>2. loc'[r].linker # {} /\ loc'[r].acct = loc[r].acct
      BY <1>l, <2>2, <3>1
    <3> QED
      BY <1>l, <2>1, <3>1, <3>2 DEF Joining, Granting
  <2> QED
    BY <1>4, <1>d, <2>1, <2>3 DEF LinkingUser
<1>5. CASE FindByEmail(r)
  <2>1. Tables
    BY <1>5, <1>t DEF FindByEmail
  <2>2. PICK x \in loc[r].acct :
          \/ Goto(r, "create", loc[r])
          \/ /\ \A u \in At(EmailOf[x]) : MayJoin(u)
             /\ Goto(r, "link", [loc[r] EXCEPT !.user = At(EmailOf[x])])
          \/ Done(r)
    BY <1>5 DEF FindByEmail
  <2>3. ASSUME Goto(r, "create", loc[r]) PROVE Goal
    <3>1. Frame /\ pc'[r] = "create" /\ loc'[r] = loc[r]
      BY <2>3, Moved
    <3> QED
      BY <1>l, <2>1, <3>1 DEF Joining, Granting
  <2>4. ASSUME \A u \in At(EmailOf[x]) : MayJoin(u),
               Goto(r, "link", [loc[r] EXCEPT !.user = At(EmailOf[x])])
        PROVE  Goal
    <3>1. /\ Frame /\ pc'[r] = "link" /\ loc'[r] = [loc[r] EXCEPT !.user = At(EmailOf[x])]
      BY <2>4, Moved
    <3>2. loc'[r].user = At(EmailOf[x]) /\ loc'[r].acct = loc[r].acct
      BY <1>l, <3>1
    <3>3. \A u \in At(EmailOf[x]) : <<u, EmailOf[x]>> \in proven
      BY <2>4 DEF At, MayJoin, UsersInv, VerifiedIsProven
    <3>4. \A u \in loc'[r].user, y \in loc'[r].acct : <<u, EmailOf[y]>> \in proven'
      BY <1>l, <3>2, <3>3
    <3> QED
      BY <1>l, <2>1, <3>1, <3>2, <3>4 DEF Joining, Granting
  <2> QED
    BY <1>d, <2>1, <2>2, <2>3, <2>4
<1>6. CASE CreateFromProfile(r)
  <2>1. Tables
    BY <1>6, <1>t DEF CreateFromProfile
  <2>2. PICK x \in loc[r].acct :
          \/ \E u \in User : /\ proven' = proven \cup {<<u, EmailOf[x]>>}
                             /\ Goto(r, "link", [loc[r] EXCEPT !.user = {u}])
          \/ Done(r)
    BY <1>6 DEF CreateFromProfile
  <2>3. ASSUME NEW u \in User, proven' = proven \cup {<<u, EmailOf[x]>>},
               Goto(r, "link", [loc[r] EXCEPT !.user = {u}])
        PROVE  Goal
    <3>1. Frame /\ pc'[r] = "link" /\ loc'[r] = [loc[r] EXCEPT !.user = {u}]
      BY <2>3, Moved
    <3>2. loc'[r].user = {u} /\ loc'[r].acct = loc[r].acct
      BY <1>l, <3>1
    <3>3. \A v \in loc'[r].user, y \in loc'[r].acct : <<v, EmailOf[y]>> \in proven'
      BY <1>l, <2>3, <3>2
    <3> QED
      BY <1>l, <2>1, <3>1, <3>2, <3>3 DEF Joining, Granting
  <2> QED
    BY <1>d, <2>1, <2>2, <2>3
<1>7. CASE Link(r)
  <2>1. /\ UNCHANGED <<grants, keys, sessions>>
        /\ \/ /\ linked' = [x \in Account |-> IF x \in loc[r].acct THEN loc[r].user ELSE linked[x]]
              /\ owned' = owned \cup {<<Via(x), u>> : x \in loc[r].acct, u \in loc[r].user}
              /\ Goto(r, "grant_user", loc[r]) \/ Done(r)
           \/ UNCHANGED <<linked, owned>> /\ Done(r)
    BY <1>7 DEF Link, AfterLink
  <2>2. ASSUME linked' = [x \in Account |-> IF x \in loc[r].acct THEN loc[r].user ELSE linked[x]],
               owned' = owned \cup {<<Via(x), u>> : x \in loc[r].acct, u \in loc[r].user}
        PROVE  Tables /\ \A u \in loc[r].user, x \in loc[r].acct : <<Via(x), u>> \in owned'
    <3>1. owned \subseteq owned'
      BY <2>2
    <3>2. \A u \in loc[r].user, x \in loc[r].acct : <<Via(x), u>> \in owned'
      BY <2>2
    <3>3. \A x \in Account, u \in User : linked'[x] = {u} => <<Via(x), u>> \in owned'
      <4> TAKE x \in Account, u \in User
      <4>1. CASE x \in loc[r].acct
        BY <2>2, <3>2, <4>1
      <4>2. CASE x \notin loc[r].acct
        BY <2>2, <3>1, <4>2 DEF OwnedInv
      <4> QED
        BY <4>1, <4>2
    <3> QED
      BY <2>1, <3>1, <3>2, <3>3 DEF OwnedInv, SessionsAreProven
  <2>3. Tables
    BY <1>t, <2>1, <2>2
  <2>4. ASSUME \A u \in loc[r].user, x \in loc[r].acct : <<Via(x), u>> \in owned',
               Goto(r, "grant_user", loc[r])
        PROVE  Goal
    <3>1. Frame /\ pc'[r] = "grant_user" /\ loc'[r] = loc[r]
      BY <2>4, Moved
    <3> QED
      BY <1>l, <2>3, <2>4, <3>1 DEF Joining, Granting
  <2> QED
    BY <1>d, <2>1, <2>2, <2>3, <2>4
<1>8. CASE GrantUser(r)
  <2>1. Tables
    BY <1>8, <1>t DEF GrantUser
  <2>2. ASSUME Goto(r, "insert_grant", loc[r]) PROVE Goal
    <3>1. Frame /\ pc'[r] = "insert_grant" /\ loc'[r] = loc[r]
      BY <2>2, Moved
    <3>2. \A u \in loc[r].user, x \in loc[r].acct : <<Via(x), u>> \in owned'
      BY <1>8, <2>1 DEF GrantUser, OwnedInv, Granting
    <3> QED
      BY <1>l, <2>1, <3>1, <3>2 DEF Joining, Granting
  <2> QED
    BY <1>8, <1>d, <2>1, <2>2 DEF GrantUser
<1>9. CASE InsertGrant(r)
  <2>1. \A u \in loc[r].user, x \in loc[r].acct : <<Via(x), u>> \in owned
    BY <1>9 DEF InsertGrant, OwnedInv, Granting
  <2>2. \A g \in grants' : <<Via(g.via), g.user>> \in owned
    BY <1>9, <2>1 DEF InsertGrant, OwnedInv
  <2>3. Tables
    BY <1>9, <2>2 DEF InsertGrant, OwnedInv, SessionsAreProven
  <2> QED
    BY <1>9, <1>d, <2>3 DEF InsertGrant
<1>10. CASE ClaimGrant(r)
  <2>1. PICK g \in grants :
          /\ grants' = grants \ {g}
          /\ Arrive(r, "exchange_user", [NoLoc EXCEPT !.user = {g.user}, !.acct = {g.via}])
    BY <1>10 DEF ClaimGrant
  <2>2. Tables
    BY <1>10, <2>1 DEF ClaimGrant, OwnedInv, SessionsAreProven
  <2>3. /\ Frame /\ pc'[r] = "exchange_user"
        /\ loc'[r] = [NoLoc EXCEPT !.user = {g.user}, !.acct = {g.via}]
    BY <2>1, Moved DEF Arrive
  <2>4. loc'[r].user = {g.user} /\ loc'[r].acct = {g.via}
    BY <2>3 DEF NoLoc
  <2>5. <<Via(g.via), g.user>> \in owned'
    BY <2>2 DEF OwnedInv
  <2> QED
    BY <2>2, <2>3, <2>4, <2>5 DEF Joining, Granting
<1>11. CASE ExchangeGrant(r)
  <2>1. PICK u \in loc[r].user, x \in loc[r].acct : sessions' \subseteq sessions \cup {<<Via(x), u>>}
    BY <1>11 DEF ExchangeGrant, OpenSession
  <2>2. <<Via(x), u>> \in owned
    BY <1>11 DEF ExchangeGrant, OwnedInv, Granting
  <2>3. Tables
    BY <1>11, <2>1, <2>2 DEF ExchangeGrant, OwnedInv, SessionsAreProven
  <2> QED
    BY <1>11, <1>d, <2>3 DEF ExchangeGrant
<1> QED
  BY <1>1, <1>2, <1>3, <1>4, <1>5, <1>6, <1>7, <1>8, <1>9, <1>10, <1>11 DEF Providers

\* The same of passkeys, and of removals, which take ways in and give none.
LEMMA PasskeySteps ==
  ASSUME TypeOK, OwnedInv, NEW r \in Request, Passkeys(r) \/ Removal(r) \/ Drop(r)
  PROVE  /\ Granting(r)'
         /\ \A x \in Account : linked'[x] \in {{}, linked[x]}
         /\ \A p \in Passkey, u \in User : keys'[p] = {u} => <<ViaKey(p), u>> \in owned'
         /\ sessions' \subseteq owned'
<1> USE DEF oauthVars, passkeyVars, history
<1> DEFINE
      Tables == /\ \A x \in Account : linked'[x] \in {{}, linked[x]}
                /\ \A p \in Passkey, u \in User : keys'[p] = {u} => <<ViaKey(p), u>> \in owned'
                /\ sessions' \subseteq owned'
      Goal == Granting(r)' /\ Tables
<1>p. pc'[r] \in KeyPCs
  BY PasskeysApart
<1>t. ASSUME UNCHANGED <<linked, keys, history>> PROVE Tables
  BY <1>t DEF OwnedInv, SessionsAreProven
<1>g. ASSUME pc'[r] # "update_passkey", Tables PROVE Goal
  BY <1>g, <1>p DEF KeyPCs, Granting
<1>a. ASSUME NEW label \in PCs \ {"update_passkey"}, NEW l, Goto(r, label, l), Tables PROVE Goal
  BY <1>a, <1>g, Moved
<1>d. ASSUME Done(r), Tables PROVE Goal
  BY <1>d, <1>a DEF Done, PCs
<1>1. ASSUME NEW u \in User, ClaimRegistration(r, u) PROVE Goal
  <2>1. Tables
    BY <1>1, <1>t DEF ClaimRegistration
  <2>2. (\E l : Goto(r, "store_passkey", l)) \/ Done(r)
    BY <1>1 DEF ClaimRegistration, Arrive, Done
  <2> QED
    BY <1>a, <1>d, <2>1, <2>2 DEF PCs
<1>2. CASE StorePasskey(r)
  <2>1. PICK q \in loc[r].key :
          IF keys[q] = {} THEN Store(q, loc[r].user) ELSE UNCHANGED <<keys, owned>>
    BY <1>2 DEF StorePasskey
  <2>2. UNCHANGED <<linked, sessions>>
    BY <1>2 DEF StorePasskey
  <2>3. CASE keys[q] # {}
    BY <1>2, <1>d, <1>t, <2>1, <2>2, <2>3 DEF StorePasskey
  <2>4. CASE keys[q] = {}
    <3>1. owned' = owned \cup {<<ViaKey(q), u>> : u \in loc[r].user}
      BY <2>1, <2>4 DEF Store
    <3>2. \A p \in Passkey : keys'[p] = IF p = q THEN loc[r].user ELSE keys[p]
      BY <2>1, <2>4 DEF Store, TypeOK
    <3>3. \A p \in Passkey, u \in User : keys'[p] = {u} => <<ViaKey(p), u>> \in owned'
      BY <3>1, <3>2 DEF OwnedInv
    <3>4. Tables
      BY <2>2, <3>1, <3>3 DEF OwnedInv, SessionsAreProven
    <3> QED
      BY <1>2, <1>d, <3>4 DEF StorePasskey
  <2> QED
    BY <2>3, <2>4
<1>3. CASE ClaimAuthentication(r)
  <2>1. Tables
    BY <1>3, <1>t DEF ClaimAuthentication
  <2>2. (\E l : Goto(r, "passkey_user", l)) \/ Done(r)
    BY <1>3 DEF ClaimAuthentication, Arrive, Done
  <2> QED
    BY <1>a, <1>d, <2>1, <2>2 DEF PCs
<1>4. CASE PasskeyUser(r)
  BY <1>4, <1>a, <1>d, <1>t DEF PasskeyUser, PCs
<1>5. CASE ListPasskeys(r)
  <2>1. Tables
    BY <1>5, <1>t DEF ListPasskeys
  <2>2. PICK u \in loc[r].user : \/ loc[r].key \subseteq KeysOf(u) /\ Goto(r, "update_passkey", loc[r])
                                 \/ Done(r)
    BY <1>5 DEF ListPasskeys
  <2>3. ASSUME loc[r].key \subseteq KeysOf(u), Goto(r, "update_passkey", loc[r]) PROVE Goal
    <3>1. pc'[r] = "update_passkey" /\ loc'[r] = loc[r]
      BY <2>3, Moved
    <3>2. loc[r].user = {u} /\ u \in User
      BY DEF TypeOK, LocType, UserOption
    <3>3. \A p \in loc[r].key : <<ViaKey(p), u>> \in owned
      BY <2>3, <3>2 DEF KeysOf, OwnedInv
    <3>4. owned' = owned
      BY <1>5 DEF ListPasskeys
    <3> QED
      BY <2>1, <3>1, <3>2, <3>3, <3>4 DEF Granting
  <2> QED
    BY <1>d, <2>1, <2>2, <2>3
<1>6. CASE UpdatePasskey(r)
  <2>1. PICK u \in loc[r].user, p \in loc[r].key : sessions' \subseteq sessions \cup {<<ViaKey(p), u>>}
    BY <1>6 DEF UpdatePasskey, OpenSession
  <2>2. <<ViaKey(p), u>> \in owned
    BY <1>6 DEF UpdatePasskey, OwnedInv, Granting
  <2>3. Tables
    BY <1>6, <2>1, <2>2 DEF UpdatePasskey, OwnedInv, SessionsAreProven
  <2> QED
    BY <1>6, <1>d, <2>3 DEF UpdatePasskey
<1>7. ASSUME NEW u \in User, AskForRemoval(r, u) PROVE Goal
  <2>1. Tables
    BY <1>7, <1>t DEF AskForRemoval
  <2>2. \E l : Goto(r, "count_methods", l)
    BY <1>7 DEF AskForRemoval, Arrive
  <2> QED
    BY <1>a, <2>1, <2>2 DEF PCs
<1>8. CASE CountMethods(r)
  BY <1>8, <1>a, <1>d, <1>t DEF CountMethods, PCs
<1>9. CASE Remove(r)
  <2>1. /\ \A x \in Account : linked'[x] \in {{}, linked[x]}
        /\ \A p \in Passkey : keys'[p] \in {{}, keys[p]}
    BY <1>9 DEF Remove
  <2>2. Tables
    BY <1>9, <2>1 DEF Remove, OwnedInv, SessionsAreProven
  <2> QED
    BY <1>9, <1>d, <2>2 DEF Remove
<1>10. CASE Drop(r)
  BY <1>10, <1>d, <1>t DEF Drop
<1> QED
  BY <1>1, <1>2, <1>3, <1>4, <1>5, <1>6, <1>7, <1>8, <1>9, <1>10 DEF Passkeys, Removal

LEMMA OutsideSteps ==
  ASSUME Outside
  PROVE  UNCHANGED <<linked, keys, pc, loc, history>> /\ grants' \subseteq grants
<1> USE DEF oauthVars, passkeyVars, history, accountVars
<1>1. CASE Expire
  BY <1>1 DEF Expire
<1>2. CASE ~Expire
  BY <1>2 DEF Outside, StartSignIn, BeginLogin, StartLinking, BeginRegistration, InsertState,
              InsertChallenge, ToggleActive, SoftDelete
<1> QED
  BY <1>1, <1>2

LEMMA SigningStep ==
  TypeOK /\ UsersInv /\ LinkInv /\ JoinInv /\ OwnedInv /\ [Next]_vars => JoinInv' /\ OwnedInv'
<1> SUFFICES ASSUME TypeOK, UsersInv, LinkInv, JoinInv, OwnedInv, [Next]_vars
             PROVE  JoinInv' /\ OwnedInv'
  OBVIOUS
<1>p. proven \subseteq proven'
  BY RowsMove
<1>q. ASSUME NEW q \in Request, pc'[q] = pc[q], loc'[q] = loc[q], owned \subseteq owned'
      PROVE  Joining(q)' /\ Granting(q)'
  BY <1>p, <1>q DEF JoinInv, Joining, OwnedInv, Granting
<1>j. ASSUME NEW r \in Request, Apart(r), pc'[r] \in LinkPCs \cup KeyPCs PROVE Joining(r)'
  BY <1>j DEF Apart, LinkPCs, KeyPCs, JoinInv, Joining
<1>1. ASSUME NEW r \in Request, MailedLinks(r) PROVE JoinInv' /\ OwnedInv'
  <2>1. Apart(r) /\ pc'[r] \in LinkPCs /\ UNCHANGED <<linked, keys, sessions>>
    BY <1>1, MailedLinksApart
  <2>2. Joining(r)' /\ Granting(r)'
    BY <1>j, <2>1 DEF LinkPCs, Granting
  <2>3. \A q \in Request : Joining(q)' /\ Granting(q)'
    BY <1>q, <2>1, <2>2 DEF Apart
  <2> QED
    BY <2>1, <2>3 DEF JoinInv, OwnedInv, SessionsAreProven, Apart
<1>2. ASSUME NEW r \in Request, Providers(r) PROVE JoinInv' /\ OwnedInv'
  <2>1. \A q \in Request : Joining(q)' /\ Granting(q)'
    BY <1>2, <1>p, <1>q, ProviderSteps
  <2>2. \A p \in Passkey, u \in User : keys'[p] = {u} => <<ViaKey(p), u>> \in owned'
    BY <1>2, <1>p, ProviderSteps DEF OwnedInv
  <2> QED
    BY <1>2, <1>p, <2>1, <2>2, ProviderSteps DEF JoinInv, OwnedInv, SessionsAreProven
<1>3. ASSUME NEW r \in Request, Passkeys(r) \/ Removal(r) \/ Drop(r) PROVE JoinInv' /\ OwnedInv'
  <2>1. Apart(r) /\ pc'[r] \in KeyPCs
    BY <1>3, PasskeysApart
  <2>2. Joining(r)' /\ Granting(r)'
    BY <1>3, <1>j, <2>1, PasskeySteps
  <2>3. \A q \in Request : Joining(q)' /\ Granting(q)'
    BY <1>q, <2>1, <2>2 DEF Apart
  <2>4. \A x \in Account, u \in User : linked'[x] = {u} => <<Via(x), u>> \in owned'
    BY <1>3, <2>1, PasskeySteps DEF Apart, OwnedInv
  <2> QED
    BY <1>3, <2>1, <2>3, <2>4, PasskeySteps DEF JoinInv, OwnedInv, SessionsAreProven, Apart
<1>4. CASE Outside
  BY <1>4, <1>q, OutsideSteps DEF JoinInv, OwnedInv, SessionsAreProven, history
<1>5. CASE UNCHANGED vars
  BY <1>5, <1>q DEF vars, JoinInv, OwnedInv, SessionsAreProven
<1> QED
  BY <1>1, <1>2, <1>3, <1>4, <1>5 DEF Next

LEMMA CountStep ==
  TypeOK /\ UsersInv /\ LinkInv /\ JoinInv /\ OwnedInv /\ CountInv /\ [Next]_vars => CountInv'
<1> SUFFICES ASSUME TypeOK, UsersInv, LinkInv, JoinInv, OwnedInv, CountInv, [Next]_vars
             PROVE  CountInv'
  OBVIOUS
<1> USE DEF IsLast
<1>g. ASSUME NEW r \in Request, \A q \in Request : q # r => pc'[q] = pc[q] /\ loc'[q] = loc[q],
             pc'[r] = "remove" => ~IsLast(loc'[r].seen)
      PROVE CountInv'
  BY <1>g DEF CountInv
<1>1. ASSUME NEW r \in Request, MailedLinks(r) PROVE CountInv'
  BY <1>1, <1>g, MailedLinksApart DEF Apart, LinkPCs
<1>2. ASSUME NEW r \in Request, Providers(r) PROVE CountInv'
  BY <1>2, <1>g, RowsMove, ProviderSteps
<1>3. ASSUME NEW r \in Request, Passkeys(r) \/ Removal(r) \/ Drop(r) PROVE CountInv'
  <2>0. Apart(r)
    BY <1>3, PasskeysApart
  <2>a. ASSUME NEW label \in PCs \ {"remove"}, NEW l, Goto(r, label, l) PROVE CountInv'
    BY <1>g, <2>a, Moved
  <2>d. ASSUME Done(r) PROVE CountInv'
    BY <2>a, <2>d DEF Done, PCs
  <2>1. ASSUME NEW u \in User, ClaimRegistration(r, u) PROVE CountInv'
    BY <2>1, <2>a, <2>d DEF ClaimRegistration, Arrive, Done, PCs
  <2>2. CASE StorePasskey(r) \/ UpdatePasskey(r) \/ Remove(r) \/ Drop(r)
    BY <2>2, <2>d DEF StorePasskey, UpdatePasskey, Remove, Drop
  <2>3. CASE ClaimAuthentication(r)
    BY <2>3, <2>a, <2>d DEF ClaimAuthentication, Arrive, Done, PCs
  <2>4. CASE PasskeyUser(r) \/ ListPasskeys(r)
    BY <2>4, <2>a, <2>d DEF PasskeyUser, ListPasskeys, PCs
  <2>5. ASSUME NEW u \in User, AskForRemoval(r, u) PROVE CountInv'
    BY <2>5, <2>a DEF AskForRemoval, Arrive, PCs
  <2>6. CASE CountMethods(r)
    <3>1. PICK u \in loc[r].user :
            \/ Done(r)
            \/ ~IsLast(Methods(u)) /\ Goto(r, "remove", [loc[r] EXCEPT !.seen = Methods(u)])
      BY <2>6 DEF CountMethods
    <3>2. ASSUME ~IsLast(Methods(u)), Goto(r, "remove", [loc[r] EXCEPT !.seen = Methods(u)])
          PROVE CountInv'
      <4>1. [loc[r] EXCEPT !.seen = Methods(u)].seen = Methods(u)
        BY DEF TypeOK, LocType
      <4>2. loc'[r] = [loc[r] EXCEPT !.seen = Methods(u)]
        BY <3>2, Moved
      <4> QED
        BY <1>g, <2>0, <3>2, <4>1, <4>2 DEF Apart
    <3> QED
      BY <2>d, <3>1, <3>2
  <2> QED
    BY <1>3, <2>1, <2>2, <2>3, <2>4, <2>5, <2>6 DEF Passkeys, Removal
<1>4. CASE Outside \/ UNCHANGED vars
  <2>1. UNCHANGED <<pc, loc>>
    BY <1>4, OutsideSteps DEF vars
  <2> QED
    BY <2>1 DEF CountInv
<1> QED
  BY <1>1, <1>2, <1>3, <1>4 DEF Next

-----------------------------------------------------------------------------
(* The theorems *)

IndInv == TypeOK /\ UsersInv /\ LinkInv /\ JoinInv /\ OwnedInv /\ CountInv

LEMMA Initially == Init => IndInv
<1> SUFFICES ASSUME Init PROVE IndInv
  OBVIOUS
<1>1. PICK t \in InitTables : users = t.users /\ linked = t.linked /\ keys = t.keys
  BY DEF Init
<1>2. /\ users \in [User -> RowType] /\ linked \in [Account -> UserOption]
      /\ keys \in [Passkey -> UserOption]
      /\ Recoverable(users) /\ EmailsUnique(users)
  BY <1>1, ConstantsAssumption DEF TablesType
<1>3. /\ links = {} /\ states = {} /\ grants = {} /\ challenges = {} /\ sessions = {} /\ events = 0
      /\ proven = {<<u, users[u].email>> : u \in {w \in User : users[w].verified}}
      /\ owned = UNION {{<<m, u>> : m \in Methods(u)} : u \in User}
      /\ \A r \in Request : pc[r] = "idle" /\ loc[r] = NoLoc
  BY DEF Init
<1>4. TypeOK
  <2>1. \A u \in User : users[u].email \in Email
    BY <1>2 DEF RowType
  <2>2. proven \in SUBSET (User \X Email)
    BY <1>3, <2>1
  <2>3. owned \in SUBSET (Method \X User)
    <3>1. \A u \in User : Methods(u) \subseteq Method
      BY DEF Methods, Method, LinkedTo, KeysOf
    <3> QED
      BY <1>3, <3>1
  <2>4. pc \in [Request -> PCs] /\ loc \in [Request -> LocType]
    BY NoLocTyped DEF Init, PCs
  <2> QED
    BY <1>2, <1>3, <2>2, <2>3, <2>4, ConstantsAssumption DEF TypeOK, AccountsTypeOK
<1>5. UsersInv
  BY <1>2, <1>3 DEF UsersInv, VerifiedIsProven
<1>6. LinkInv /\ JoinInv /\ CountInv
  BY <1>3, NoLocFields DEF LinkInv, JoinInv, Joining, CountInv
<1>7. OwnedInv
  <2>1. ASSUME NEW x \in Account, NEW u \in User, linked[x] = {u} PROVE <<Via(x), u>> \in owned
    <3>1. Via(x) \in Methods(u)
      BY <2>1 DEF Methods, LinkedTo
    <3> QED
      BY <1>3, <3>1
  <2>2. ASSUME NEW p \in Passkey, NEW u \in User, keys[p] = {u} PROVE <<ViaKey(p), u>> \in owned
    <3>1. ViaKey(p) \in Methods(u)
      BY <2>2 DEF Methods, KeysOf
    <3> QED
      BY <1>3, <3>1
  <2> QED
    BY <1>3, <2>1, <2>2 DEF OwnedInv, Granting, SessionsAreProven
<1> QED
  BY <1>4, <1>5, <1>6, <1>7 DEF IndInv

LEMMA Inductive == Spec => []IndInv
<1>1. IndInv /\ [Next]_vars => IndInv'
  BY TypeStep, UsersStep, LinkStep, SigningStep, CountStep DEF IndInv
<1> QED
  BY <1>1, Initially, PTL DEF Spec

\* Type correctness: every table, and every request's locals, stay what the code declares them
\* to be, whatever requests run at once.
THEOREM TypeCorrect == Spec => []TypeOK
  BY Inductive, PTL DEF IndInv

\* VerifiedIsProven, for any number of accounts, addresses and concurrent requests: is_email_verified
\* is only ever set for an address whose holder has been shown to have it.
THEOREM VerifiedAddressesAreProven == Spec => []VerifiedIsProven
  BY Inductive, PTL DEF IndInv, UsersInv

\* JoinsAreProven: a callback that is about to link a provider account to an account found or made
\* by its address does so to one whose holder was shown to have that address.
THEOREM JoinedAccountsAreProven == Spec => []JoinsAreProven
<1>1. IndInv => JoinsAreProven
  BY DEF IndInv, JoinInv, Joining, JoinsAreProven
<1> QED
  BY <1>1, Inductive, PTL

\* SessionsAreProven: exchange and finish_login open sessions only for a user whose sign-in method
\* it was, whoever else races for the same provider account or passkey.
THEOREM SessionsAreOwned == Spec => []SessionsAreProven
  BY Inductive, PTL DEF IndInv, OwnedInv

\* NobodyIsLockedOut: a live account without any way to sign in has a verified address, to which
\* forgot mails a link.
THEOREM EveryAccountHasAWayIn == Spec => []NobodyIsLockedOut
<1>1. UsersInv => NobodyIsLockedOut
  <2> SUFFICES ASSUME UsersInv, NEW u \in User, users[u].status = "live", Methods(u) = {}
               PROVE  users[u].verified
    BY DEF NobodyIsLockedOut
  <2>1. ~users[u].password
    BY DEF Methods
  <2> QED
    BY <2>1 DEF UsersInv, Recoverable
<1> QED
  BY <1>1, Inductive, PTL DEF IndInv

\* ProviderAccountsStay: no step moves a linked provider account to another user.
THEOREM LinkedAccountsStay == Spec => ProviderAccountsStay
<1> DEFINE Stays == \A x \in Account : linked[x] # {} => linked'[x] \in {{}, linked[x]}
<1>1. ASSUME IndInv, [Next]_vars PROVE Stays
  <2> USE <1>1 DEF IndInv
  <2>0. ASSUME linked' = linked PROVE Stays
    BY <2>0
  <2>1. ASSUME NEW r \in Request, MailedLinks(r) PROVE Stays
    BY <2>0, <2>1, MailedLinksApart
  <2>2. ASSUME NEW r \in Request, Providers(r) PROVE Stays
    <3> USE DEF oauthVars
    <3>1. CASE Link(r)
      BY <2>0, <3>1 DEF Link
    <3>2. CASE ClaimState(r) \/ Profile(r) \/ FindIdentity(r) \/ LinkingUser(r)
      BY <2>0, <3>2 DEF ClaimState, Profile, FindIdentity, LinkingUser
    <3>3. CASE FindByEmail(r) \/ CreateFromProfile(r)
      BY <2>0, <3>3 DEF FindByEmail, CreateFromProfile
    <3>4. CASE GrantUser(r) \/ InsertGrant(r)
      BY <2>0, <3>4 DEF GrantUser, InsertGrant
    <3>5. CASE ClaimGrant(r) \/ ExchangeGrant(r)
      BY <2>0, <3>5 DEF ClaimGrant, ExchangeGrant
    <3> QED
      BY <2>2, <3>1, <3>2, <3>3, <3>4, <3>5 DEF Providers
  <2>3. ASSUME NEW r \in Request, Passkeys(r) \/ Removal(r) \/ Drop(r) PROVE Stays
    BY <2>3, PasskeySteps
  <2>4. CASE Outside \/ UNCHANGED vars
    BY <2>0, <2>4, OutsideSteps DEF vars
  <2> QED
    BY <2>1, <2>2, <2>3, <2>4 DEF Next
<1>2. IndInv /\ [Next]_vars => [Stays]_vars
  BY <1>1
<1> QED
  BY <1>2, Inductive, PTL DEF Spec, ProviderAccountsStay

\* What sign_in_method_count counts is finite.
LEMMA MethodsFinite ==
  ASSUME NEW u \in User
  PROVE  IsFiniteSet(Methods(u))
<1> DEFINE Pw == {<<"password", v>> : v \in {w \in {u} : users[w].password}}
           Ac == {Via(x) : x \in LinkedTo(u)}
           Ke == {ViaKey(p) : p \in KeysOf(u)}
<1>1. IsFiniteSet(Pw)
  <2>1. Pw \in SUBSET {<<"password", u>>}
    OBVIOUS
  <2> QED
    BY <2>1, FS_Singleton, FS_Subset
<1>2. IsFiniteSet(Ac)
  <2>1. IsFiniteSet(LinkedTo(u))
    BY ConstantsAssumption, FS_Subset DEF LinkedTo
  <2>2. [x \in LinkedTo(u) |-> Via(x)] \in Surjection(LinkedTo(u), Ac)
    BY DEF Surjection
  <2> QED
    BY <2>1, <2>2, FS_Surjection
<1>3. IsFiniteSet(Ke)
  <2>1. IsFiniteSet(KeysOf(u))
    BY ConstantsAssumption, FS_Subset DEF KeysOf
  <2>2. [p \in KeysOf(u) |-> ViaKey(p)] \in Surjection(KeysOf(u), Ke)
    BY DEF Surjection
  <2> QED
    BY <2>1, <2>2, FS_Surjection
<1>4. IsFiniteSet(Pw \cup Ac \cup Ke)
  BY <1>1, <1>2, <1>3, FS_Union
<1> QED
  BY <1>4 DEF Methods

\* LastMethodKept: unlink and delete take the last way into an account only on a count that is
\* out of date, or together with others.
THEOREM LastMethodStays == Spec => LastMethodKept
<1> DEFINE Kept == \A r \in Request : pc[r] = "remove" /\ pc'[r] = "idle" =>
              \A u \in loc[r].user :
                 Methods(u) # {} /\ Methods(u)' = {} =>
                    \/ ~(loc[r].seen \subseteq Methods(u))
                    \/ Cardinality(Methods(u)) > 1
<1>1. ASSUME IndInv PROVE Kept
  <2> SUFFICES ASSUME NEW r \in Request, pc[r] = "remove", NEW u \in loc[r].user,
                      loc[r].seen \subseteq Methods(u)
               PROVE  Cardinality(Methods(u)) > 1
    OBVIOUS
  <2>1. u \in User
    BY <1>1 DEF IndInv, TypeOK, LocType, UserOption
  <2>2. IsFiniteSet(Methods(u))
    BY <2>1, MethodsFinite
  <2>3. ~(Cardinality(loc[r].seen) < 2)
    BY <1>1 DEF IndInv, CountInv, IsLast
  <2>4. /\ IsFiniteSet(loc[r].seen) /\ Cardinality(loc[r].seen) <= Cardinality(Methods(u))
    BY <2>2, FS_Subset
  <2>5. Cardinality(loc[r].seen) \in Nat /\ Cardinality(Methods(u)) \in Nat
    BY <2>2, <2>4, FS_CardinalityType
  <2> QED
    BY <2>3, <2>4, <2>5
<1>2. IndInv => [Kept]_vars
  BY <1>1
<1> QED
  BY <1>2, Inductive, PTL DEF LastMethodKept

=============================================================================
