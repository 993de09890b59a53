------------------------------ MODULE Holdings ------------------------------
(***************************************************************************)
(* What accounts hold: uploaded files (modules/media), profile photos      *)
(* (modules/avatars), both as rows and as objects in infra/storage.rs, and *)
(* API keys (modules/api_keys), with the deletion of an account, which     *)
(* takes its files along.  Each statement and each call of the store is a  *)
(* step; a put or a delete of one object is atomic (a rename, or one       *)
(* request to S3).                                                         *)
(*                                                                         *)
(* An object is known by its generated name, and a media row by the name   *)
(* of its object.  What is in a file, its size and its type are left out.  *)
(* Administrators are UsersAdmin's: their requests just arrive.            *)
(***************************************************************************)
EXTENDS Naturals, FiniteSets

CONSTANTS User, Request,
          Name,           \* generated object names
          Key,            \* rows of api_keys
          MaxKeys,        \* MAX_ACTIVE_KEYS_PER_USER (20)
          MaxProcessing,  \* MAX_CONCURRENT_PROCESSING (4)
          MaxFaults       \* bound: dropped requests and failed calls in a behaviour

ASSUME ConstantsAssumption ==
    /\ IsFiniteSet(Request) /\ IsFiniteSet(Key)
    /\ MaxKeys \in Nat \ {0} /\ MaxProcessing \in Nat \ {0} /\ MaxFaults \in Nat

VARIABLES users,     \* whether each account is deleted
          avatar,    \* users.avatar_key: {} for NULL
          media,     \* the owner of each media row, {} for no row
          store,     \* the stored objects
          keyOwner,  \* the owner of each row of api_keys, {} for no row
          revoked,   \* the rows with a revoked_at
          permits,   \* AvatarService.processing
          detached,  \* blocking tasks whose request was dropped
          pc, loc,   \* where each request is, and its locals
          used,      \* the names generated so far
          lost,      \* history: objects a race left to nobody
          unsure,    \* history: objects whose row was written, though the request got an error
          faults     \* dropped requests and failed calls so far

rows == <<users, avatar, media>>
apiKeys == <<keyOwner, revoked>>
processing == <<permits, detached>>
history == <<used, lost, unsure>>
vars == <<rows, store, apiKeys, processing, pc, loc, history, faults>>

UserOption == {{}} \cup {{u} : u \in User}
NameOption == {{}} \cup {{n} : n \in Name}

PCs == {"idle", "key_owner", "ready", "insert_key", "put", "insert_media", "delete_row", "acquire",
        "process", "read_avatar", "update_avatar", "soft_delete", "purge", "remove"}

\* user: the actor, or the account to delete; task: how the actor came in, then what the request
\* is about; name: the object written or to delete; old: the photo read; gone: objects to remove.
LocType == [user : UserOption, task : {"none", "session", "key", "media", "photo", "account"},
            name : NameOption, old : NameOption, gone : SUBSET Name]

NoLoc == [user |-> {}, task |-> "none", name |-> {}, old |-> {}, gone |-> {}]

TypeOK == /\ users \in [User -> {"live", "deleted"}]
          /\ avatar \in [User -> NameOption]
          /\ media \in [Name -> UserOption]
          /\ store \in SUBSET Name
          /\ keyOwner \in [Key -> UserOption]
          /\ revoked \in SUBSET Key
          /\ permits \in Nat /\ detached \in Nat
          /\ pc \in [Request -> PCs]
          /\ loc \in [Request -> LocType]
          /\ \A r \in Request : pc[r] = "remove" => loc[r].gone # {}
          /\ used \in SUBSET Name /\ lost \in SUBSET Name /\ unsure \in SUBSET Name
          /\ faults \in 0..MaxFaults

Init == /\ users = [u \in User |-> "live"]
        /\ avatar = [u \in User |-> {}]
        /\ media = [n \in Name |-> {}]
        /\ store = {}
        /\ keyOwner = [k \in Key |-> {}] /\ revoked = {}
        /\ permits = MaxProcessing /\ detached = 0
        /\ pc = [r \in Request |-> "idle"]
        /\ loc = [r \in Request |-> NoLoc]
        /\ used = {} /\ lost = {} /\ unsure = {}
        /\ faults = 0

-----------------------------------------------------------------------------

Goto(r, label, l) == pc' = [pc EXCEPT ![r] = label] /\ loc' = [loc EXCEPT ![r] = l]

Done(r) == Goto(r, "idle", NoLoc)

Fault == faults < MaxFaults /\ faults' = faults + 1

Live(u) == users[u] = "live"

\* The request goes on to remove these objects; a removal of an account then removes its media.
Clean(r, gone, l) ==
    CASE gone # {}                       -> Goto(r, "remove", [l EXCEPT !.gone = gone])
      [] gone = {} /\ l.task = "account" -> Goto(r, "purge", [l EXCEPT !.gone = {}])
      [] gone = {} /\ l.task # "account" -> Done(r)

-----------------------------------------------------------------------------
(* Who is asking: a session, or an API key (AuthUser) *)

AcceptSession(r, u) ==
    /\ pc[r] = "idle" /\ Live(u)
    /\ Goto(r, "ready", [NoLoc EXCEPT !.user = {u}, !.task = "session"])
    /\ UNCHANGED <<rows, store, apiKeys, processing, history, faults>>

\* find_by_hash and is_usable
FindKey(r, k) ==
    /\ pc[r] = "idle" /\ keyOwner[k] # {} /\ k \notin revoked
    /\ Goto(r, "key_owner", [NoLoc EXCEPT !.user = keyOwner[k], !.task = "key"])
    /\ UNCHANGED <<rows, store, apiKeys, processing, history, faults>>

KeyOwner(r) ==
    /\ pc[r] = "key_owner"
    /\ IF \A u \in loc[r].user : Live(u) THEN Goto(r, "ready", loc[r]) ELSE Done(r)
    /\ UNCHANGED <<rows, store, apiKeys, processing, history, faults>>

\* A request that only reads, or is refused before it does anything.
Answer(r) ==
    /\ pc[r] = "ready"
    /\ Done(r)
    /\ UNCHANGED <<rows, store, apiKeys, processing, history, faults>>

-----------------------------------------------------------------------------
(* API keys: create, revoke *)

LiveKeys(u) == {k \in Key : keyOwner[k] = {u} /\ k \notin revoked}

\* Seeded fault: > for >=.
UnderKeyLimitInclusive(u) == Cardinality(LiveKeys(u)) <= MaxKeys

UnderKeyLimit(u) == Cardinality(LiveKeys(u)) < MaxKeys

CountKeys(r) ==
    /\ pc[r] = "ready" /\ loc[r].task = "session"
    /\ \A u \in loc[r].user : UnderKeyLimit(u)
    /\ Goto(r, "insert_key", loc[r])
    /\ UNCHANGED <<rows, store, apiKeys, processing, history, faults>>

InsertKey(r) ==
    /\ pc[r] = "insert_key"
    /\ \E k \in Key : /\ keyOwner[k] = {}
                      /\ keyOwner' = [keyOwner EXCEPT ![k] = loc[r].user]
    /\ Done(r)
    /\ UNCHANGED <<rows, store, revoked, processing, history, faults>>

RevokeKey(r) ==
    /\ pc[r] = "ready" /\ loc[r].task = "session"
    /\ \E k \in Key : /\ keyOwner[k] = loc[r].user /\ k \notin revoked
                      /\ revoked' = revoked \cup {k}
    /\ Done(r)
    /\ UNCHANGED <<rows, store, keyOwner, processing, history, faults>>

-----------------------------------------------------------------------------
(* The object store *)

\* A fresh name, and the object to be put under it.
NewObject(r, task) ==
    \E n \in Name \ used : /\ used' = used \cup {n}
                           /\ Goto(r, "put", [loc[r] EXCEPT !.task = task, !.name = {n}])

Put(r) ==
    /\ pc[r] = "put"
    /\ \/ /\ store' = store \cup loc[r].name
          /\ Goto(r, IF loc[r].task = "media" THEN "insert_media" ELSE "read_avatar", loc[r])
          /\ UNCHANGED faults
       \/ Fault /\ Done(r) /\ UNCHANGED store
    /\ UNCHANGED <<rows, apiKeys, processing, history>>

\* Best effort: a failure is logged, and the next one is tried.
RemoveObject(r) ==
    /\ pc[r] = "remove"
    /\ \E n \in loc[r].gone :
          /\ \/ store' = store \ {n} /\ UNCHANGED faults
             \/ Fault /\ UNCHANGED store
          /\ Clean(r, loc[r].gone \ {n}, loc[r])
    /\ UNCHANGED <<rows, apiKeys, processing, history>>

-----------------------------------------------------------------------------
(* Media: upload, delete *)

Upload(r) ==
    /\ pc[r] = "ready"
    /\ NewObject(r, "media")
    /\ UNCHANGED <<rows, store, apiKeys, processing, lost, unsure, faults>>

\* An insert that fails takes the object back, also one that only seems to: the connection may
\* break after the row is there.  One that comes after the account's deletion does not fail, for
\* the row of the account is still there.
InsertMedia(r) ==
    /\ pc[r] = "insert_media"
    /\ \E u \in loc[r].user, n \in loc[r].name :
          \/ /\ media' = [media EXCEPT ![n] = {u}]
             /\ lost' = IF Live(u) THEN lost ELSE lost \cup {n}
             /\ Done(r) /\ UNCHANGED <<unsure, faults>>
          \/ /\ Fault /\ Clean(r, {n}, loc[r]) /\ UNCHANGED lost
             /\ \/ UNCHANGED <<media, unsure>>
                \/ media' = [media EXCEPT ![n] = {u}] /\ unsure' = unsure \cup {n}
    /\ UNCHANGED <<users, avatar, store, apiKeys, processing, used>>

\* find_accessible: the owner, or an administrator.
FindMedia(r, n) ==
    /\ media[n] # {}
    /\ \/ pc[r] = "ready" /\ media[n] = loc[r].user
       \/ pc[r] = "idle"
    /\ Goto(r, "delete_row", [NoLoc EXCEPT !.task = "media", !.name = {n}])
    /\ UNCHANGED <<rows, store, apiKeys, processing, history, faults>>

DeleteRow(r) ==
    /\ pc[r] = "delete_row"
    /\ \E n \in loc[r].name :
          IF media[n] = {}
          THEN Done(r) /\ UNCHANGED media
          ELSE /\ media' = [media EXCEPT ![n] = {}]
               /\ Clean(r, {n}, loc[r])
    /\ UNCHANGED <<users, avatar, store, apiKeys, processing, history, faults>>

-----------------------------------------------------------------------------
(* Profile photos: set, remove *)

SetAvatar(r) ==
    /\ pc[r] = "ready"
    /\ Goto(r, "acquire", loc[r])
    /\ UNCHANGED <<rows, store, apiKeys, processing, history, faults>>

\* Seeded fault: the permit is not kept by the blocking task (let _ = permit).
TakeAndGiveBack == permits > 0 /\ permits' = permits

Take == permits > 0 /\ permits' = permits - 1

Acquire(r) ==
    /\ pc[r] = "acquire"
    /\ Take
    /\ Goto(r, "process", loc[r])
    /\ UNCHANGED <<rows, store, apiKeys, detached, history, faults>>

\* The blocking task ends and its permit is free; the image may not be one.
Processed(r) ==
    /\ pc[r] = "process"
    /\ permits' = permits + 1
    /\ \/ NewObject(r, "photo")
       \/ Done(r) /\ UNCHANGED used
    /\ UNCHANGED <<rows, store, apiKeys, detached, lost, unsure, faults>>

\* So does the task of a request that was dropped.
ProcessedForNobody ==
    /\ detached > 0
    /\ permits' = permits + 1 /\ detached' = detached - 1
    /\ UNCHANGED <<rows, store, apiKeys, pc, loc, history, faults>>

RemoveAvatar(r) ==
    /\ pc[r] = "ready"
    /\ Goto(r, "read_avatar", [loc[r] EXCEPT !.task = "photo"])
    /\ UNCHANGED <<rows, store, apiKeys, processing, history, faults>>

\* Seeded fault: what a failed change removes is the photo read as well.
TakenBackWithOld(r) == loc[r].name \cup loc[r].old

\* What a change that failed removes: the new object, if there is one.
TakenBack(r) == loc[r].name

\* set_avatar_key, its SELECT: a deleted account is an error.
ReadAvatar(r) ==
    /\ pc[r] = "read_avatar"
    /\ \E u \in loc[r].user :
          \/ /\ IF Live(u)
                THEN Goto(r, "update_avatar", [loc[r] EXCEPT !.old = avatar[u]])
                ELSE Clean(r, TakenBack(r), loc[r])
             /\ UNCHANGED faults
          \/ Fault /\ Clean(r, TakenBack(r), loc[r])
    /\ UNCHANGED <<rows, store, apiKeys, processing, history>>

\* Its UPDATE and commit.  Another request may have set a photo since the SELECT, which nobody
\* then removes, or deleted the account, which keeps the new one.  A commit that seems to have
\* failed may have been done.
UpdateAvatar(r) ==
    /\ pc[r] = "update_avatar"
    /\ \E u \in loc[r].user :
          \/ /\ avatar' = [avatar EXCEPT ![u] = loc[r].name]
             /\ lost' = lost \cup (avatar[u] \ loc[r].old)
                             \cup (IF Live(u) THEN {} ELSE loc[r].name)
             /\ Clean(r, loc[r].old, loc[r])
             /\ UNCHANGED <<unsure, faults>>
          \/ /\ Fault /\ Clean(r, TakenBack(r), loc[r]) /\ UNCHANGED lost
             /\ \/ UNCHANGED <<avatar, unsure>>
                \/ /\ avatar' = [avatar EXCEPT ![u] = loc[r].name]
                   /\ unsure' = unsure \cup loc[r].name
    /\ UNCHANGED <<users, media, store, apiKeys, processing, used>>

-----------------------------------------------------------------------------
(* Deleting an account *)

\* require, up to the statement of soft_delete
ReadTarget(r, u) ==
    /\ pc[r] = "idle" /\ Live(u)
    /\ Goto(r, "soft_delete", [NoLoc EXCEPT !.user = {u}, !.task = "account", !.old = avatar[u]])
    /\ UNCHANGED <<rows, store, apiKeys, processing, history, faults>>

\* Then the photo that was read is removed, and the media.
SoftDelete(r) ==
    /\ pc[r] = "soft_delete"
    /\ \E u \in loc[r].user :
          IF Live(u)
          THEN /\ users' = [users EXCEPT ![u] = "deleted"]
               /\ lost' = lost \cup (avatar[u] \ loc[r].old)
               /\ Clean(r, loc[r].old, loc[r])
          ELSE Done(r) /\ UNCHANGED <<users, lost>>
    /\ UNCHANGED <<avatar, media, store, apiKeys, processing, used, unsure, faults>>

\* Seeded fault: the rows go, the objects stay.
PurgedRowsOnly(us) == {}

Purged(us) == {n \in Name : media[n] = us}

\* delete_all_by_owner; if it fails that is only logged.
Purge(r) ==
    /\ pc[r] = "purge"
    /\ \/ /\ media' = [n \in Name |-> IF media[n] = loc[r].user THEN {} ELSE media[n]]
          /\ Clean(r, Purged(loc[r].user), [loc[r] EXCEPT !.task = "media"])
          /\ UNCHANGED faults
       \/ Fault /\ Done(r) /\ UNCHANGED media
    /\ UNCHANGED <<users, avatar, store, apiKeys, processing, history>>

-----------------------------------------------------------------------------

\* The request is dropped, by its timeout or its client: a blocking task goes on without it.
Drop(r) ==
    /\ pc[r] # "idle" /\ Fault
    /\ detached' = IF pc[r] = "process" THEN detached + 1 ELSE detached
    /\ Done(r)
    /\ UNCHANGED <<rows, store, apiKeys, permits, history>>

Next ==
    \/ \E r \in Request :
          \/ \E u \in User : AcceptSession(r, u) \/ ReadTarget(r, u)
          \/ \E k \in Key : FindKey(r, k)
          \/ \E n \in Name : FindMedia(r, n)
          \/ KeyOwner(r) \/ Answer(r) \/ CountKeys(r) \/ InsertKey(r) \/ RevokeKey(r)
          \/ Upload(r) \/ Put(r) \/ InsertMedia(r) \/ DeleteRow(r) \/ RemoveObject(r)
          \/ SetAvatar(r) \/ Acquire(r) \/ Processed(r) \/ RemoveAvatar(r)
          \/ ReadAvatar(r) \/ UpdateAvatar(r)
          \/ SoftDelete(r) \/ Purge(r) \/ Drop(r)
    \/ ProcessedForNobody

Spec == Init /\ [][Next]_vars

-----------------------------------------------------------------------------
(* Properties *)

\* Whatever two requests replace, delete or fail to write at once, a media row and the photo of
\* a live account have their object, so that nobody is shown a file that cannot be served
\* (content, "media row has no stored object").  The one exception is a row whose own INSERT or
\* commit was reported as failed and had been done: upload and set take its object back.
RowsHaveFiles == /\ \A n \in Name : media[n] # {} => n \in store \cup unsure
                 /\ \A u \in User : Live(u) => avatar[u] \subseteq store \cup unsure

\* When all requests have ended and none was dropped or failed, the store holds the files and
\* photos of live accounts and nothing else, but for what a race has left over: a photo replaced
\* by a request that had not read it, and what reaches an account that is being deleted
\* (set_avatar_key; delete_all_for_user "Removes everything a user uploaded").
OnlyRacesLeak ==
    faults = 0 /\ (\A r \in Request : pc[r] = "idle") =>
        \A n \in store : \/ \E u \in User : Live(u) /\ (media[n] = {u} \/ avatar[u] = {n})
                         \/ n \in lost

\* Images in processing never exceed the permits, although the task of a dropped request goes
\* on while new requests come in (MAX_CONCURRENT_PROCESSING, "only a few run at once").
ProcessingIsBounded ==
    Cardinality({r \in Request : pc[r] = "process"}) + detached <= MaxProcessing

\* The limit on active keys is passed by no more than the requests that counted at once
\* (create: list_active, then insert).  It is passed, although error.rs:5 says "you can have at
\* most {0} active API keys".
KeysAreBounded ==
    \A u \in User :
        Cardinality(LiveKeys(u))
            + Cardinality({r \in Request : pc[r] = "insert_key" /\ loc[r].user = {u}})
        <= MaxKeys - 1 + Cardinality(Request)

=============================================================================
