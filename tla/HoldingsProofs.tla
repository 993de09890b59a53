--------------------------- MODULE HoldingsProofs ---------------------------
(***************************************************************************)
(* For any number of accounts, requests, names, keys and permits: image    *)
(* processing and API keys stay within their bounds, rows have their       *)
(* objects, and nothing but a race leaves an object to nobody.             *)
(***************************************************************************)
EXTENDS Holdings, FiniteSetTheorems, TLAPS

-----------------------------------------------------------------------------
(* What a request can do to an object, given where it is *)

\* The object it is writing, which only it knows of.
PrivateAt(label, l) ==
    IF label \in {"put", "insert_media", "read_avatar", "update_avatar"} THEN l.name ELSE {}

\* The objects it is removing.
CondemnedAt(label, l) == IF label = "remove" THEN l.gone ELSE {}

\* The photo it has read and may remove.
OldAt(label, l) == IF label \in {"update_avatar", "soft_delete"} THEN l.old ELSE {}

\* The file whose row it is about to delete.
DoomedAt(label, l) == IF label = "delete_row" THEN l.name ELSE {}

\* The deleted account whose files it has yet to purge.
PurgingAt(label, l) ==
    IF label = "purge" \/ (label = "remove" /\ l.task = "account") THEN l.user ELSE {}

\* A request without an object, a request to delete an account, and a purge that has an account.
ShapeAt(label, l) == /\ label \in {"ready", "key_owner"} => l.name = {}
                     /\ label = "purge" \/ (label = "remove" /\ l.task = "account") => l.user # {}
                     /\ label = "delete_row" => l.task # "account"
                     /\ label = "soft_delete" => l.task = "account"

Private(r) == PrivateAt(pc[r], loc[r])
Condemned(r) == CondemnedAt(pc[r], loc[r])
Old(r) == OldAt(pc[r], loc[r])
Doomed(r) == DoomedAt(pc[r], loc[r])
Purging(r) == PurgingAt(pc[r], loc[r])

-----------------------------------------------------------------------------
(* Where an object can be *)

PrivateInv ==
    \A r \in Request : \A n \in Private(r) :
        /\ n \in used /\ media[n] = {}
        /\ \A u \in User : n \notin avatar[u]
        /\ \A q \in Request : /\ n \notin Condemned(q) /\ n \notin Old(q) /\ n \notin Doomed(q)
                              /\ q # r => n \notin Private(q)
        /\ pc[r] # "put" => n \in store

\* In no row that anybody is shown.
Unnamed(n) == media[n] = {} /\ \A u \in User : Live(u) => n \notin avatar[u]

CondemnedInv ==
    \A r \in Request : \A n \in Condemned(r) : n \in used /\ (n \in unsure \/ Unnamed(n))

OldInv ==
    \A r \in Request : \A n \in Old(r) :
        n \in used /\ media[n] = {} /\ \A u \in User : n \in avatar[u] => loc[r].user = {u}

DoomedInv ==
    \A r \in Request : \A n \in Doomed(r) : n \in used /\ \A u \in User : n \notin avatar[u]

AvatarInv ==
    \A u \in User : \A n \in avatar[u] :
        /\ n \in used /\ media[n] = {}
        /\ \A v \in User : n \in avatar[v] => v = u
        /\ Live(u) => n \in store \cup unsure

MediaInv == \A n \in Name : media[n] # {} => n \in used /\ n \in store \cup unsure

ShapeInv == \A r \in Request : ShapeAt(pc[r], loc[r])

FileInv == /\ TypeOK /\ ShapeInv
           /\ PrivateInv /\ CondemnedInv /\ OldInv /\ DoomedInv /\ AvatarInv /\ MediaInv

\* While nothing was dropped and nothing failed, every object has somebody.
Covered(n) ==
    \/ \E u \in User : Live(u) /\ (media[n] = {u} \/ n \in avatar[u])
    \/ n \in lost
    \/ \E r \in Request : n \in Private(r) \/ n \in Condemned(r)
    \/ \E r \in Request : media[n] # {} /\ media[n] = Purging(r)

LeakInv == faults = 0 => \A n \in store : Covered(n)

-----------------------------------------------------------------------------
(* How a request moves *)

\* The request goes to another place with other locals, the others stay.
LEMMA Moved ==
  ASSUME TypeOK, NEW r \in Request, NEW label \in PCs, NEW l \in LocType, Goto(r, label, l)
  PROVE  /\ pc' \in [Request -> PCs] /\ loc' \in [Request -> LocType]
         /\ pc'[r] = label /\ loc'[r] = l
         /\ \A q \in Request : q # r => pc'[q] = pc[q] /\ loc'[q] = loc[q]
  BY DEF TypeOK, Goto

LEMMA Objects ==
  ASSUME TypeOK, NEW r \in Request, NEW label \in PCs, NEW l \in LocType, Goto(r, label, l)
  PROVE  /\ Private(r)' = PrivateAt(label, l) /\ Condemned(r)' = CondemnedAt(label, l)
         /\ Old(r)' = OldAt(label, l) /\ Doomed(r)' = DoomedAt(label, l)
         /\ Purging(r)' = PurgingAt(label, l)
         /\ \A q \in Request : q # r => /\ Private(q)' = Private(q) /\ Condemned(q)' = Condemned(q)
                                        /\ Old(q)' = Old(q) /\ Doomed(q)' = Doomed(q)
                                        /\ Purging(q)' = Purging(q)
  BY Moved DEF Private, Condemned, Old, Doomed, Purging

\* The objects a request can know of are names, and its user is one account at most.
LEMMA ObjectsTyped ==
  ASSUME TypeOK, NEW r \in Request
  PROVE  /\ loc[r] \in LocType /\ pc[r] \in PCs
         /\ loc[r].user \in UserOption /\ loc[r].name \in NameOption /\ loc[r].old \in NameOption
         /\ loc[r].gone \in SUBSET Name
         /\ \A u \in loc[r].user : u \in User /\ loc[r].user = {u}
         /\ \A n \in loc[r].name : n \in Name /\ loc[r].name = {n}
         /\ \A n \in loc[r].old : n \in Name /\ loc[r].old = {n}
         /\ loc[r].name \in SUBSET Name /\ loc[r].old \in SUBSET Name
<1>1. loc[r] \in LocType /\ pc[r] \in PCs
  BY DEF TypeOK
<1>2. /\ loc[r].user \in UserOption /\ loc[r].name \in NameOption /\ loc[r].old \in NameOption
      /\ loc[r].gone \in SUBSET Name
  BY <1>1 DEF LocType
<1> QED
  BY <1>1, <1>2 DEF UserOption, NameOption

LEMMA NoLocTyped ==
  /\ NoLoc \in LocType
  /\ NoLoc.name = {} /\ NoLoc.old = {} /\ NoLoc.gone = {} /\ NoLoc.user = {} /\ NoLoc.task = "none"
  BY DEF NoLoc, LocType, UserOption, NameOption

\* Where Clean goes, and what the request is about there.
LEMMA Cleaned ==
  ASSUME TypeOK, NEW r \in Request, NEW gone \in SUBSET Name, NEW l \in LocType, Clean(r, gone, l),
         l.task = "account" => l.user # {}
  PROVE  \E label \in {"remove", "purge", "idle"}, m \in LocType :
            /\ Goto(r, label, m) /\ (label = "remove" => m.gone # {}) /\ ShapeAt(label, m)
            /\ PrivateAt(label, m) = {} /\ CondemnedAt(label, m) = gone
            /\ OldAt(label, m) = {} /\ DoomedAt(label, m) = {}
            /\ PurgingAt(label, m) = IF l.task = "account" THEN l.user ELSE {}
<1> USE DEF PrivateAt, CondemnedAt, OldAt, DoomedAt, PurgingAt, ShapeAt
<1>1. CASE gone # {}
  <2>1. Goto(r, "remove", [l EXCEPT !.gone = gone])
    BY <1>1 DEF Clean
  <2>2. [l EXCEPT !.gone = gone] \in LocType
    BY DEF LocType
  <2>3. /\ [l EXCEPT !.gone = gone].gone = gone /\ [l EXCEPT !.gone = gone].task = l.task
        /\ [l EXCEPT !.gone = gone].user = l.user
    BY DEF LocType
  <2> WITNESS "remove" \in {"remove", "purge", "idle"}, [l EXCEPT !.gone = gone] \in LocType
  <2> QED
    BY <1>1, <2>1, <2>3
<1>2. CASE gone = {} /\ l.task = "account"
  <2>1. Goto(r, "purge", [l EXCEPT !.gone = {}])
    BY <1>2 DEF Clean
  <2>2. [l EXCEPT !.gone = {}] \in LocType
    BY DEF LocType
  <2>3. [l EXCEPT !.gone = {}].user = l.user
    BY DEF LocType
  <2> WITNESS "purge" \in {"remove", "purge", "idle"}, [l EXCEPT !.gone = {}] \in LocType
  <2> QED
    BY <1>2, <2>1, <2>3
<1>3. CASE gone = {} /\ l.task # "account"
  <2>1. Goto(r, "idle", NoLoc)
    BY <1>3 DEF Clean, Done
  <2>2. NoLoc \in LocType
    BY NoLocTyped
  <2> WITNESS "idle" \in {"remove", "purge", "idle"}, NoLoc \in LocType
  <2> QED
    BY <1>3, <2>1
<1> QED
  BY <1>1, <1>2, <1>3

LEMMA CleanedOwn ==
  ASSUME TypeOK, NEW r \in Request, NEW gone \in SUBSET Name, Clean(r, gone, loc[r]),
         loc[r].task = "account" => loc[r].user # {}
  PROVE  \E label \in {"remove", "purge", "idle"}, m \in LocType :
            /\ Goto(r, label, m) /\ (label = "remove" => m.gone # {}) /\ ShapeAt(label, m)
            /\ PrivateAt(label, m) = {} /\ CondemnedAt(label, m) = gone
            /\ OldAt(label, m) = {} /\ DoomedAt(label, m) = {}
            /\ PurgingAt(label, m) = IF loc[r].task = "account" THEN loc[r].user ELSE {}
<1>1. PICK l \in LocType : l = loc[r]
  BY ObjectsTyped
<1>2. Clean(r, gone, l) /\ (l.task = "account" => l.user # {})
  BY <1>1
<1>3. \E label \in {"remove", "purge", "idle"}, m \in LocType :
            /\ Goto(r, label, m) /\ (label = "remove" => m.gone # {}) /\ ShapeAt(label, m)
            /\ PrivateAt(label, m) = {} /\ CondemnedAt(label, m) = gone
            /\ OldAt(label, m) = {} /\ DoomedAt(label, m) = {}
            /\ PurgingAt(label, m) = IF l.task = "account" THEN l.user ELSE {}
  BY <1>2, Cleaned
<1> QED
  BY <1>1, <1>3

\* The request is not, or no longer, about an object.
Unarmed(label, l) == /\ label # "remove" /\ ShapeAt(label, l)
                     /\ PrivateAt(label, l) = {} /\ CondemnedAt(label, l) = {}
                     /\ OldAt(label, l) = {} /\ DoomedAt(label, l) = {} /\ PurgingAt(label, l) = {}

LEMMA DoneUnarmed ==
  ASSUME NEW r, Done(r)
  PROVE  \E label \in PCs, l \in LocType : Goto(r, label, l) /\ Unarmed(label, l) /\ label = "idle"
<1>1. Goto(r, "idle", NoLoc) /\ "idle" \in PCs /\ NoLoc \in LocType
  BY NoLocTyped DEF Done, PCs
<1>2. Unarmed("idle", NoLoc)
  BY DEF Unarmed, ShapeAt, PrivateAt, CondemnedAt, OldAt, DoomedAt, PurgingAt
<1> QED
  BY <1>1, <1>2

\* The steps of a request that neither has nor gets an object.
Harmless(r) == \/ \E u \in User : AcceptSession(r, u)
               \/ \E k \in Key : FindKey(r, k)
               \/ KeyOwner(r) \/ Answer(r) \/ CountKeys(r) \/ InsertKey(r) \/ RevokeKey(r)
               \/ SetAvatar(r) \/ Acquire(r) \/ RemoveAvatar(r)

LEMMA HarmlessMove ==
  ASSUME TypeOK, ShapeInv, NEW r \in Request, Harmless(r)
  PROVE  /\ UNCHANGED <<rows, store, history, faults>>
         /\ Unarmed(pc[r], loc[r]) /\ pc[r] # "process"
         /\ \E label \in PCs, l \in LocType :
               /\ Goto(r, label, l) /\ Unarmed(label, l)
               /\ label = "process" <=> Acquire(r)
               /\ label = "insert_key" <=> CountKeys(r)
<1> USE DEF Unarmed, ShapeAt, PrivateAt, CondemnedAt, OldAt, DoomedAt, PurgingAt
<1>0. /\ loc[r] \in LocType /\ ShapeAt(pc[r], loc[r])
      /\ pc[r] \in {"ready", "key_owner"} => loc[r].name = {}
  BY ObjectsTyped DEF ShapeInv
<1>1. UNCHANGED <<rows, store, history, faults>>
  BY DEF Harmless, AcceptSession, FindKey, KeyOwner, Answer, CountKeys, InsertKey, RevokeKey, SetAvatar,
         Acquire, RemoveAvatar
<1>2. pc[r] \in {"idle", "key_owner", "ready", "insert_key", "acquire"}
  BY DEF Harmless, AcceptSession, FindKey, KeyOwner, Answer, CountKeys, InsertKey, RevokeKey, SetAvatar,
         Acquire, RemoveAvatar
<1>3. Unarmed(pc[r], loc[r])
  BY <1>0, <1>2
<1> HIDE DEF Unarmed
<1>a. Acquire(r) => pc[r] = "acquire"
  BY DEF Acquire
<1>b. CountKeys(r) => pc[r] = "ready" /\ Goto(r, "insert_key", loc[r])
  BY DEF CountKeys
<1>4. ASSUME NEW u \in User, AcceptSession(r, u)
      PROVE  \E l \in LocType : Goto(r, "ready", l) /\ Unarmed("ready", l)
  <2> DEFINE l == [NoLoc EXCEPT !.user = {u}, !.task = "session"]
  <2>1. l \in LocType /\ l.name = {}
    BY NoLocTyped DEF LocType, UserOption
  <2>2. Goto(r, "ready", l)
    BY <1>4 DEF AcceptSession
  <2> QED
    BY <2>1, <2>2 DEF Unarmed
<1>5. ASSUME NEW k \in Key, FindKey(r, k)
      PROVE  \E l \in LocType : Goto(r, "key_owner", l) /\ Unarmed("key_owner", l)
  <2> DEFINE l == [NoLoc EXCEPT !.user = keyOwner[k], !.task = "key"]
  <2>0. keyOwner[k] \in UserOption
    BY DEF TypeOK
  <2>1. l \in LocType /\ l.name = {}
    BY <2>0, NoLocTyped DEF LocType
  <2>2. Goto(r, "key_owner", l)
    BY <1>5 DEF FindKey
  <2> QED
    BY <2>1, <2>2 DEF Unarmed
<1>6. ASSUME RemoveAvatar(r)
      PROVE  \E l \in LocType : Goto(r, "read_avatar", l) /\ Unarmed("read_avatar", l)
  <2> DEFINE l == [loc[r] EXCEPT !.task = "photo"]
  <2>1. l \in LocType /\ l.name = loc[r].name
    BY <1>0 DEF LocType
  <2>2. Goto(r, "read_avatar", l) /\ loc[r].name = {}
    BY <1>0, <1>6 DEF RemoveAvatar
  <2> QED
    BY <2>1, <2>2 DEF Unarmed
<1>7. ASSUME KeyOwner(r)
      PROVE  \E label \in {"ready", "idle"}, l \in LocType : Goto(r, label, l) /\ Unarmed(label, l)
  <2>1. CASE Goto(r, "ready", loc[r])
    BY <1>0, <1>7, <2>1 DEF KeyOwner, Unarmed
  <2>2. CASE Done(r)
    BY <2>2, DoneUnarmed
  <2> QED
    BY <1>7, <2>1, <2>2 DEF KeyOwner
<1>8. ASSUME CountKeys(r) PROVE Goto(r, "insert_key", loc[r]) /\ Unarmed("insert_key", loc[r])
  BY <1>8 DEF CountKeys, Unarmed
<1>9. ASSUME SetAvatar(r) PROVE Goto(r, "acquire", loc[r]) /\ Unarmed("acquire", loc[r])
  BY <1>9 DEF SetAvatar, Unarmed
<1>10. ASSUME Acquire(r) PROVE Goto(r, "process", loc[r]) /\ Unarmed("process", loc[r])
  BY <1>10 DEF Acquire, Unarmed
<1>11. ASSUME Answer(r) \/ InsertKey(r) \/ RevokeKey(r) PROVE Done(r)
  BY <1>11 DEF Answer, InsertKey, RevokeKey
<1>12. CASE Acquire(r)
  <2>1. "process" \in PCs /\ ~CountKeys(r)
    BY <1>a, <1>b, <1>12 DEF PCs
  <2> QED
    BY <1>0, <1>1, <1>2, <1>3, <1>10, <1>12, <2>1
<1>13. CASE CountKeys(r)
  <2>1. "insert_key" \in PCs /\ ~Acquire(r)
    BY <1>a, <1>b, <1>13 DEF PCs
  <2> QED
    BY <1>0, <1>1, <1>2, <1>3, <1>8, <1>13, <2>1
<1>14. CASE ~Acquire(r) /\ ~CountKeys(r)
  <2>1. {"ready", "key_owner", "read_avatar", "acquire", "idle"} \subseteq PCs
    BY DEF PCs
  <2>2. \E label \in {"ready", "key_owner", "read_avatar", "acquire", "idle"}, l \in LocType :
            Goto(r, label, l) /\ Unarmed(label, l)
    BY <1>0, <1>4, <1>5, <1>6, <1>7, <1>9, <1>11, <1>14, DoneUnarmed DEF Harmless
  <2> QED
    BY <1>1, <1>2, <1>3, <1>14, <2>1, <2>2
<1> QED
  BY <1>12, <1>13, <1>14

\* The tables, the store and the counters keep their types.
TablesOK == /\ users \in [User -> {"live", "deleted"}]
            /\ avatar \in [User -> NameOption]
            /\ media \in [Name -> UserOption]
            /\ store \in SUBSET Name
            /\ keyOwner \in [Key -> UserOption]
            /\ revoked \in SUBSET Key
            /\ permits \in Nat /\ detached \in Nat
            /\ used \in SUBSET Name /\ lost \in SUBSET Name /\ unsure \in SUBSET Name
            /\ faults \in 0..MaxFaults

LEMMA TypesMove ==
  ASSUME TypeOK, TablesOK', NEW r \in Request, NEW label \in PCs, NEW l \in LocType, Goto(r, label, l),
         label = "remove" => l.gone # {}
  PROVE  TypeOK'
<1>1. /\ pc' \in [Request -> PCs] /\ loc' \in [Request -> LocType]
      /\ pc'[r] = label /\ loc'[r] = l
      /\ \A q \in Request : q # r => pc'[q] = pc[q] /\ loc'[q] = loc[q]
  BY Moved
<1>2. \A q \in Request : pc'[q] = "remove" => loc'[q].gone # {}
  BY <1>1 DEF TypeOK
<1> QED
  BY <1>1, <1>2 DEF TypeOK, TablesOK

LEMMA TablesStep == TypeOK /\ [Next]_vars => TablesOK'
<1> SUFFICES ASSUME TypeOK, [Next]_vars PROVE TablesOK'
  OBVIOUS
<1>t. TablesOK
  BY DEF TypeOK, TablesOK
<1>f. Fault => faults' \in 0..MaxFaults
  BY <1>t, ConstantsAssumption DEF Fault, TablesOK
<1>u. ASSUME UNCHANGED <<rows, store, apiKeys, processing, history>>, UNCHANGED faults \/ Fault PROVE TablesOK'
  BY <1>f, <1>t, <1>u DEF TablesOK, rows, apiKeys, processing, history
<1> USE DEF rows, apiKeys, processing, history
<1>1. ASSUME NEW r \in Request, Harmless(r) PROVE TablesOK'
  <2>1. ASSUME NEW k \in Key, keyOwner' = [keyOwner EXCEPT ![k] = loc[r].user] PROVE keyOwner' \in [Key -> UserOption]
    <3>1. loc[r].user \in UserOption
      BY ObjectsTyped
    <3> QED
      BY <1>t, <2>1, <3>1 DEF TablesOK
  <2>2. CASE InsertKey(r)
    <3>1. keyOwner' \in [Key -> UserOption]
      BY <2>1, <2>2 DEF InsertKey
    <3> QED
      BY <1>t, <2>2, <3>1 DEF InsertKey, TablesOK
  <2>3. CASE RevokeKey(r)
    BY <1>t, <2>3 DEF RevokeKey, TablesOK
  <2>4. CASE Acquire(r)
    <3>1. permits' \in Nat
      BY <1>t, <2>4 DEF Acquire, Take, TablesOK
    <3> QED
      BY <1>t, <2>4, <3>1 DEF Acquire, TablesOK
  <2> QED
    BY <1>1, <1>u, <2>2, <2>3, <2>4 DEF Harmless, AcceptSession, FindKey, KeyOwner, Answer, CountKeys, SetAvatar,
       RemoveAvatar
<1>2. ASSUME NEW r \in Request, NEW task, NewObject(r, task) PROVE used' \in SUBSET Name
  BY <1>2, <1>t DEF NewObject, TablesOK
<1>3. ASSUME NEW r \in Request, Upload(r) PROVE TablesOK'
  <2>1. used' \in SUBSET Name
    BY <1>2, <1>3 DEF Upload
  <2> QED
    BY <1>3, <1>t, <2>1 DEF Upload, TablesOK
<1>4. ASSUME NEW r \in Request, Put(r) \/ RemoveObject(r) PROVE TablesOK'
  <2>1. store' \in SUBSET Name
    BY <1>4, <1>t, ObjectsTyped DEF Put, RemoveObject, TablesOK
  <2>2. faults' \in 0..MaxFaults
    BY <1>4, <1>f, <1>t DEF Put, RemoveObject, TablesOK
  <2>3. UNCHANGED <<rows, apiKeys, processing, history>>
    BY <1>4 DEF Put, RemoveObject
  <2> QED
    BY <1>t, <2>1, <2>2, <2>3 DEF TablesOK
<1>5. ASSUME NEW r \in Request, InsertMedia(r) PROVE TablesOK'
  <2>1. PICK u \in loc[r].user, n \in loc[r].name :
          \/ /\ media' = [media EXCEPT ![n] = {u}]
             /\ lost' = IF Live(u) THEN lost ELSE lost \cup {n}
             /\ UNCHANGED <<unsure, faults>>
          \/ /\ Fault /\ UNCHANGED lost
             /\ \/ UNCHANGED <<media, unsure>>
                \/ media' = [media EXCEPT ![n] = {u}] /\ unsure' = unsure \cup {n}
    BY <1>5 DEF InsertMedia
  <2>2. u \in User /\ n \in Name /\ {u} \in UserOption
    BY ObjectsTyped DEF UserOption
  <2>3. media' \in [Name -> UserOption] /\ lost' \in SUBSET Name /\ unsure' \in SUBSET Name
    BY <1>t, <2>1, <2>2 DEF TablesOK
  <2>4. faults' \in 0..MaxFaults
    BY <1>f, <1>t, <2>1 DEF TablesOK
  <2> QED
    BY <1>5, <1>t, <2>3, <2>4 DEF InsertMedia, TablesOK
<1>6. ASSUME NEW r \in Request, DeleteRow(r) \/ Purge(r) PROVE TablesOK'
  <2>0. {} \in UserOption
    BY DEF UserOption
  <2>1. CASE DeleteRow(r)
    <3>1. media' \in [Name -> UserOption]
      BY <1>t, <2>0, <2>1 DEF DeleteRow, TablesOK
    <3> QED
      BY <1>t, <2>1, <3>1 DEF DeleteRow, TablesOK
  <2>2. CASE Purge(r)
    <3>1. media' \in [Name -> UserOption]
      BY <1>t, <2>0, <2>2 DEF Purge, TablesOK
    <3>2. faults' \in 0..MaxFaults
      BY <1>f, <1>t, <2>2 DEF Purge, TablesOK
    <3> QED
      BY <1>t, <2>2, <3>1, <3>2 DEF Purge, TablesOK
  <2> QED
    BY <1>6, <2>1, <2>2
<1>7. ASSUME NEW r \in Request, Processed(r) PROVE TablesOK'
  <2>1. used' \in SUBSET Name /\ permits' \in Nat
    BY <1>2, <1>7, <1>t DEF Processed, TablesOK
  <2> QED
    BY <1>7, <1>t, <2>1 DEF Processed, TablesOK
<1>8. CASE ProcessedForNobody
  <2>1. permits' \in Nat /\ detached' \in Nat
    BY <1>8, <1>t DEF ProcessedForNobody, TablesOK
  <2> QED
    BY <1>8, <1>t, <2>1 DEF ProcessedForNobody, TablesOK
<1>9. ASSUME NEW r \in Request, UpdateAvatar(r) PROVE TablesOK'
  <2>1. PICK u \in loc[r].user :
          \/ /\ avatar' = [avatar EXCEPT ![u] = loc[r].name]
             /\ lost' = lost \cup (avatar[u] \ loc[r].old) \cup (IF Live(u) THEN {} ELSE loc[r].name)
             /\ UNCHANGED <<unsure, faults>>
          \/ /\ Fault /\ UNCHANGED lost
             /\ \/ UNCHANGED <<avatar, unsure>>
                \/ avatar' = [avatar EXCEPT ![u] = loc[r].name] /\ unsure' = unsure \cup loc[r].name
    BY <1>9 DEF UpdateAvatar
  <2>2. u \in User /\ loc[r].name \in NameOption /\ loc[r].name \in SUBSET Name
    BY ObjectsTyped
  <2>3. avatar[u] \in SUBSET Name
    BY <1>t, <2>2 DEF TablesOK, NameOption
  <2>4. avatar' \in [User -> NameOption]
    BY <1>t, <2>1, <2>2 DEF TablesOK
  <2>5. lost' \in SUBSET Name /\ unsure' \in SUBSET Name
    BY <1>t, <2>1, <2>2, <2>3 DEF TablesOK
  <2>6. faults' \in 0..MaxFaults
    BY <1>f, <1>t, <2>1 DEF TablesOK
  <2> QED
    BY <1>9, <1>t, <2>4, <2>5, <2>6 DEF UpdateAvatar, TablesOK
<1>10. ASSUME NEW r \in Request, SoftDelete(r) PROVE TablesOK'
  <2>1. PICK u \in loc[r].user :
          \/ users' = [users EXCEPT ![u] = "deleted"] /\ lost' = lost \cup (avatar[u] \ loc[r].old)
          \/ UNCHANGED <<users, lost>>
    BY <1>10 DEF SoftDelete
  <2>2. avatar[u] \in SUBSET Name
    BY <1>t, ObjectsTyped DEF TablesOK, NameOption
  <2>3. users' \in [User -> {"live", "deleted"}] /\ lost' \in SUBSET Name
    BY <1>t, <2>1, <2>2 DEF TablesOK
  <2> QED
    BY <1>10, <1>t, <2>3 DEF SoftDelete, TablesOK
<1>11. ASSUME NEW r \in Request,
              (\E u \in User : ReadTarget(r, u)) \/ (\E n \in Name : FindMedia(r, n)) \/ ReadAvatar(r)
       PROVE  TablesOK'
  BY <1>11, <1>u DEF ReadTarget, FindMedia, ReadAvatar
<1>12. ASSUME NEW r \in Request, Drop(r) PROVE TablesOK'
  <2>1. faults' \in 0..MaxFaults /\ detached' \in Nat
    BY <1>12, <1>f, <1>t DEF Drop, TablesOK
  <2> QED
    BY <1>12, <1>t, <2>1 DEF Drop, TablesOK
<1>13. CASE UNCHANGED vars
  BY <1>13, <1>u DEF vars
<1> QED
  BY <1>1, <1>3, <1>4, <1>5, <1>6, <1>7, <1>8, <1>9, <1>10, <1>11, <1>12, <1>13 DEF Next, Harmless

-----------------------------------------------------------------------------
(* Steps that change no row *)

\* A request that moves on, with what it knew or has just read, removing what it condemned.
LEMMA FilesStay ==
  ASSUME FileInv, TypeOK', NEW r \in Request, NEW label \in PCs, NEW l \in LocType, Goto(r, label, l),
         ShapeAt(label, l), UNCHANGED <<rows, used, unsure>>,
         \A n \in store : n \in store' \/ n \in Condemned(r),
         PrivateAt(label, l) \subseteq Private(r),
         label # "put" => PrivateAt(label, l) \subseteq store',
         CondemnedAt(label, l) \subseteq Condemned(r) \cup Private(r),
         CondemnedAt(label, l) = {} \/ PrivateAt(label, l) = {},
         \A n \in OldAt(label, l) : \E u \in User : n \in avatar[u] /\ l.user = {u},
         \A n \in DoomedAt(label, l) : n \in Name /\ media[n] # {}
  PROVE  FileInv'
<1>t. /\ TypeOK /\ ShapeInv /\ PrivateInv /\ CondemnedInv /\ OldInv /\ DoomedInv /\ AvatarInv /\ MediaInv
      /\ UNCHANGED <<users, avatar, media>> /\ \A u \in User : Live(u)' <=> Live(u)
  BY DEF FileInv, rows, Live
<1>m. /\ pc'[r] = label /\ loc'[r] = l
      /\ \A q \in Request : q # r => pc'[q] = pc[q] /\ loc'[q] = loc[q]
  BY <1>t, Moved
<1>o. /\ Private(r)' = PrivateAt(label, l) /\ Condemned(r)' = CondemnedAt(label, l)
      /\ Old(r)' = OldAt(label, l) /\ Doomed(r)' = DoomedAt(label, l)
      /\ \A q \in Request : q # r => /\ Private(q)' = Private(q) /\ Condemned(q)' = Condemned(q)
                                     /\ Old(q)' = Old(q) /\ Doomed(q)' = Doomed(q)
  BY <1>t, Objects
\* Nobody has a private object that he did not have, and no one else has an object of his.
<1>1. ASSUME NEW q \in Request, NEW n \in Private(q)' PROVE n \in Private(q)
  BY <1>1, <1>o
<1>2. ASSUME NEW q \in Request, NEW n \in Private(q), NEW s \in Request, q # r \/ n \in Private(q)'
      PROVE  n \notin Condemned(s)' /\ n \notin Old(s)' /\ n \notin Doomed(s)'
  <2>1. n \notin Condemned(s) /\ n \notin Old(s) /\ n \notin Doomed(s) /\ n \notin Condemned(r)
        /\ media[n] = {} /\ (\A u \in User : n \notin avatar[u]) /\ (q # r => n \notin Private(r))
    BY <1>t DEF PrivateInv
  <2>2. CASE s # r
    BY <1>o, <2>1, <2>2
  <2>3. CASE s = r
    <3>1. n \notin Condemned(r)'
      BY <1>2, <1>o, <2>1
    <3>2. n \notin Old(r)' /\ n \notin Doomed(r)'
      BY <1>o, <2>1
    <3> QED
      BY <2>3, <3>1, <3>2
  <2> QED
    BY <2>2, <2>3
<1>3. PrivateInv'
  <2> SUFFICES ASSUME NEW q \in Request, NEW n \in Private(q)'
               PROVE  /\ n \in used' /\ media'[n] = {}
                      /\ \A u \in User : n \notin avatar'[u]
                      /\ \A s \in Request : /\ n \notin Condemned(s)' /\ n \notin Old(s)' /\ n \notin Doomed(s)'
                                            /\ s # q => n \notin Private(s)'
                      /\ pc'[q] # "put" => n \in store'
    BY DEF PrivateInv
  <2>1. n \in Private(q)
    BY <1>1
  <2>2. n \in used' /\ media'[n] = {} /\ \A u \in User : n \notin avatar'[u]
    BY <1>t, <2>1 DEF PrivateInv
  <2>3. \A s \in Request : n \notin Condemned(s)' /\ n \notin Old(s)' /\ n \notin Doomed(s)'
    BY <1>2, <2>1
  <2>4. \A s \in Request : s # q => n \notin Private(s)'
    BY <1>1, <1>t, <2>1 DEF PrivateInv
  <2>5. pc'[q] # "put" => n \in store'
    <3>1. CASE q = r
      BY <1>m, <1>o, <3>1
    <3>2. CASE q # r
      BY <1>m, <1>t, <2>1, <3>2 DEF PrivateInv
    <3> QED
      BY <3>1, <3>2
  <2> QED
    BY <2>2, <2>3, <2>4, <2>5
<1>4. CondemnedInv'
  <2>1. ASSUME NEW n \in Private(r) PROVE n \in used /\ media[n] = {} /\ \A u \in User : n \notin avatar[u]
    BY <1>t DEF PrivateInv
  <2>2. ASSUME NEW q \in Request, NEW n \in Condemned(q)'
        PROVE  n \in used /\ (n \in unsure \/ Unnamed(n))
    <3>1. n \in Condemned(q) \/ n \in Private(r)
      BY <1>o
    <3> QED
      BY <1>t, <2>1, <3>1 DEF CondemnedInv, Unnamed
  <2> QED
    BY <1>t, <2>2 DEF CondemnedInv, Unnamed
<1>5. OldInv'
  <2>1. ASSUME NEW n \in Old(r)' PROVE n \in used /\ media[n] = {} /\ \A u \in User : n \in avatar[u] => l.user = {u}
    BY <1>o, <1>t DEF AvatarInv
  <2>2. ASSUME NEW q \in Request, NEW n \in Old(q)'
        PROVE  n \in used' /\ media'[n] = {} /\ \A u \in User : n \in avatar'[u] => loc'[q].user = {u}
    <3>1. CASE q = r
      BY <1>m, <1>t, <2>1, <3>1
    <3>2. CASE q # r
      BY <1>m, <1>o, <1>t, <3>2 DEF OldInv
    <3> QED
      BY <3>1, <3>2
  <2> QED
    BY <2>2 DEF OldInv
<1>6. DoomedInv'
  <2>1. ASSUME NEW n \in Doomed(r)' PROVE n \in used /\ \A u \in User : n \notin avatar[u]
    BY <1>o, <1>t DEF AvatarInv, MediaInv
  <2> QED
    BY <1>o, <1>t, <2>1 DEF DoomedInv
<1>7. AvatarInv' /\ MediaInv'
  <2>1. \A n \in store : \/ n \in store' \/ n \in unsure'
                         \/ media[n] = {} /\ \A u \in User : Live(u) => n \notin avatar[u]
    BY <1>t DEF CondemnedInv, Unnamed
  <2>2. MediaInv'
    BY <1>t, <2>1 DEF MediaInv
  <2>3. AvatarInv'
    BY <1>t, <2>1 DEF AvatarInv
  <2> QED
    BY <2>2, <2>3
<1>8. ShapeInv'
  BY <1>m, <1>t DEF ShapeInv
<1> QED
  BY <1>3, <1>4, <1>5, <1>6, <1>7, <1>8 DEF FileInv

\* Every object still has somebody: what is new in the store is the request's own, and it loses
\* nothing but what is removed.
LEMMA CoveredStay ==
  ASSUME FileInv, LeakInv, NEW r \in Request, NEW label \in PCs, NEW l \in LocType, Goto(r, label, l),
         UNCHANGED <<rows, lost>>, faults' = 0 => faults = 0,
         \A n \in store' : n \in store \/ n \in PrivateAt(label, l),
         faults' = 0 => /\ \A n \in store' : n \in Private(r) \/ n \in Condemned(r)
                                              => n \in PrivateAt(label, l) \/ n \in CondemnedAt(label, l)
                        /\ Purging(r) = {} \/ PurgingAt(label, l) = Purging(r)
  PROVE  LeakInv'
<1>t. TypeOK /\ UNCHANGED <<users, avatar, media>> /\ \A u \in User : Live(u)' <=> Live(u)
  BY DEF FileInv, rows, Live
<1>o. /\ Private(r)' = PrivateAt(label, l) /\ Condemned(r)' = CondemnedAt(label, l)
      /\ Purging(r)' = PurgingAt(label, l)
      /\ \A q \in Request : q # r => /\ Private(q)' = Private(q) /\ Condemned(q)' = Condemned(q)
                                     /\ Purging(q)' = Purging(q)
  BY <1>t, Objects
<1> SUFFICES ASSUME faults' = 0, NEW n \in store' PROVE Covered(n)'
  BY DEF LeakInv
<1>1. CASE n \in PrivateAt(label, l)
  BY <1>1, <1>o DEF Covered
<1>2. CASE n \in store
  <2>0. Covered(n)
    BY <1>2 DEF LeakInv
  <2>1. CASE \E u \in User : Live(u) /\ (media[n] = {u} \/ n \in avatar[u])
    BY <1>t, <2>1 DEF Covered
  <2>2. CASE n \in lost
    BY <2>2 DEF Covered
  <2>3. ASSUME NEW q \in Request, n \in Private(q) \/ n \in Condemned(q)
        PROVE  n \in Private(q)' \/ n \in Condemned(q)'
    BY <1>o, <2>3
  <2>4. ASSUME NEW q \in Request, media[n] # {}, media[n] = Purging(q)
        PROVE  media'[n] # {} /\ media'[n] = Purging(q)'
    BY <1>o, <1>t, <2>4
  <2> QED
    BY <2>0, <2>1, <2>2, <2>3, <2>4 DEF Covered
<1> QED
  BY <1>1, <1>2

LEMMA Faulty == ASSUME TypeOK, Fault PROVE faults' # 0
  BY ConstantsAssumption DEF TypeOK, Fault

\* A request that ends, or goes on without an object.
LEMMA UnarmedMove ==
  ASSUME FileInv, LeakInv, TypeOK', NEW r \in Request, NEW label \in PCs, NEW l \in LocType,
         Goto(r, label, l), Unarmed(label, l), UNCHANGED <<rows, store, history>>,
         faults' = 0 => faults = 0 /\ Private(r) = {} /\ Condemned(r) = {} /\ Purging(r) = {}
  PROVE  FileInv' /\ LeakInv'
<1>1. UNCHANGED <<used, lost, unsure>>
  BY DEF history
<1>2. /\ ShapeAt(label, l) /\ PrivateAt(label, l) = {} /\ CondemnedAt(label, l) = {}
      /\ OldAt(label, l) = {} /\ DoomedAt(label, l) = {}
  BY DEF Unarmed
<1>3. FileInv'
  BY <1>1, <1>2, FilesStay
<1>4. LeakInv'
  BY <1>1, <1>2, CoveredStay
<1> QED
  BY <1>3, <1>4

\* A request that gives up, with the object it was writing to be removed.
LEMMA TakenBackMove ==
  ASSUME FileInv, LeakInv, TypeOK', NEW r \in Request, NEW label \in PCs, NEW l \in LocType,
         Goto(r, label, l), ShapeAt(label, l), UNCHANGED <<rows, store, history>>,
         PrivateAt(label, l) = {}, CondemnedAt(label, l) = Private(r), OldAt(label, l) = {},
         DoomedAt(label, l) = {}, Condemned(r) = {}, Purging(r) = {}, faults' = 0 => faults = 0
  PROVE  FileInv' /\ LeakInv'
<1>1. UNCHANGED <<used, lost, unsure>>
  BY DEF history
<1>2. FileInv'
  BY <1>1, FilesStay
<1>3. LeakInv'
  BY <1>1, CoveredStay
<1> QED
  BY <1>2, <1>3

LEMMA StoreSteps ==
  ASSUME FileInv, LeakInv, TablesOK', NEW r \in Request, Put(r) \/ RemoveObject(r)
  PROVE  FileInv' /\ LeakInv'
<1>t. TypeOK /\ ShapeAt(pc[r], loc[r]) /\ loc[r] \in LocType /\ loc[r].gone \in SUBSET Name
  BY ObjectsTyped DEF FileInv, ShapeInv
<1> USE DEF PrivateAt, CondemnedAt, OldAt, DoomedAt, PurgingAt, ShapeAt
<1>1. CASE Put(r)
  <2>0. pc[r] = "put" /\ UNCHANGED <<rows, history>>
    BY <1>1 DEF Put
  <2>1. Private(r) = loc[r].name /\ Condemned(r) = {} /\ Purging(r) = {}
    BY <2>0 DEF Private, Condemned, Purging
  <2>2. ASSUME NEW label \in {"insert_media", "read_avatar"}, store' = store \cup loc[r].name,
               Goto(r, label, loc[r]), UNCHANGED faults
        PROVE  FileInv' /\ LeakInv'
    <3>1. label \in PCs /\ UNCHANGED <<used, lost, unsure>>
      BY <2>0 DEF PCs, history
    <3>2. TypeOK'
      BY <1>t, <2>2, <3>1, TypesMove
    <3>3. /\ ShapeAt(label, loc[r]) /\ PrivateAt(label, loc[r]) = loc[r].name /\ CondemnedAt(label, loc[r]) = {}
          /\ DoomedAt(label, loc[r]) = {} /\ OldAt(label, loc[r]) = {}
      OBVIOUS
    <3> HIDE DEF PrivateAt, CondemnedAt, OldAt, DoomedAt, PurgingAt, ShapeAt
    <3>4. FileInv'
      BY <1>t, <2>0, <2>1, <2>2, <3>1, <3>2, <3>3, FilesStay
    <3>5. LeakInv'
      BY <1>t, <2>0, <2>1, <2>2, <3>1, <3>3, CoveredStay
    <3> QED
      BY <3>4, <3>5
  <2>3. ASSUME Fault, Done(r), UNCHANGED store PROVE FileInv' /\ LeakInv'
    <3>1. PICK label \in PCs, l \in LocType : Goto(r, label, l) /\ Unarmed(label, l)
      BY <2>3, DoneUnarmed
    <3>2. TypeOK'
      BY <1>t, <3>1, TypesMove DEF Unarmed
    <3> QED
      BY <1>t, <2>0, <2>3, <3>1, <3>2, Faulty, UnarmedMove
  <2>4. \/ Fault /\ Done(r) /\ UNCHANGED store
        \/ \E label \in {"insert_media", "read_avatar"} :
              store' = store \cup loc[r].name /\ Goto(r, label, loc[r]) /\ UNCHANGED faults
    <3>1. (IF loc[r].task = "media" THEN "insert_media" ELSE "read_avatar") \in {"insert_media", "read_avatar"}
      OBVIOUS
    <3> QED
      BY <1>1, <3>1 DEF Put
  <2> QED
    BY <2>2, <2>3, <2>4
<1>2. CASE RemoveObject(r)
  <2>0. pc[r] = "remove" /\ UNCHANGED <<rows, history>> /\ UNCHANGED <<used, lost, unsure>>
    BY <1>2 DEF RemoveObject, history
  <2>1. PICK n \in loc[r].gone :
          /\ \/ store' = store \ {n} /\ UNCHANGED faults
             \/ Fault /\ UNCHANGED store
          /\ Clean(r, loc[r].gone \ {n}, loc[r])
    BY <1>2 DEF RemoveObject
  <2>2. /\ Private(r) = {} /\ Condemned(r) = loc[r].gone
        /\ Purging(r) = IF loc[r].task = "account" THEN loc[r].user ELSE {}
    BY <2>0 DEF Private, Condemned, Purging
  <2>3. loc[r].task = "account" => loc[r].user # {}
    BY <1>t, <2>0
  <2> HIDE DEF PrivateAt, CondemnedAt, OldAt, DoomedAt, PurgingAt, ShapeAt
  <2>4. PICK label \in {"remove", "purge", "idle"}, m \in LocType :
            /\ Goto(r, label, m) /\ (label = "remove" => m.gone # {}) /\ ShapeAt(label, m)
            /\ PrivateAt(label, m) = {} /\ CondemnedAt(label, m) = loc[r].gone \ {n}
            /\ OldAt(label, m) = {} /\ DoomedAt(label, m) = {}
            /\ PurgingAt(label, m) = IF loc[r].task = "account" THEN loc[r].user ELSE {}
    <3>1. PICK g \in SUBSET Name : g = loc[r].gone \ {n}
      BY <1>t
    <3>2. Clean(r, g, loc[r])
      BY <2>1, <3>1
    <3>3. \E label \in {"remove", "purge", "idle"}, m \in LocType :
            /\ Goto(r, label, m) /\ (label = "remove" => m.gone # {}) /\ ShapeAt(label, m)
            /\ PrivateAt(label, m) = {} /\ CondemnedAt(label, m) = g
            /\ OldAt(label, m) = {} /\ DoomedAt(label, m) = {}
            /\ PurgingAt(label, m) = IF loc[r].task = "account" THEN loc[r].user ELSE {}
      BY <1>t, <2>3, <3>2, CleanedOwn
    <3> QED
      BY <3>1, <3>3
  <2>5. label \in PCs
    BY DEF PCs
  <2>6. TypeOK'
    BY <1>t, <2>4, <2>5, TypesMove
  <2>7. FileInv'
    BY <2>0, <2>1, <2>2, <2>4, <2>5, <2>6, FilesStay
  <2>8. LeakInv'
    BY <1>t, <2>0, <2>1, <2>2, <2>4, <2>5, Faulty, CoveredStay
  <2> QED
    BY <2>7, <2>8
<1> QED
  BY <1>1, <1>2

\* A request reads what it will delete or replace.
LEMMA ReadSteps ==
  ASSUME FileInv, LeakInv, TablesOK', NEW r \in Request,
         \/ \E u \in User : ReadTarget(r, u)
         \/ \E n \in Name : FindMedia(r, n)
         \/ ReadAvatar(r)
  PROVE  FileInv' /\ LeakInv'
<1>t. /\ TypeOK /\ ShapeAt(pc[r], loc[r]) /\ loc[r] \in LocType
      /\ \A u \in loc[r].user : u \in User /\ loc[r].user = {u}
      /\ \A u \in User : avatar[u] \in NameOption
      /\ UNCHANGED <<rows, store, history>> /\ UNCHANGED <<used, lost, unsure>>
  BY ObjectsTyped DEF FileInv, ShapeInv, ReadTarget, FindMedia, ReadAvatar, history, TypeOK
<1> USE DEF PrivateAt, CondemnedAt, OldAt, DoomedAt, PurgingAt, ShapeAt
<1>1. ASSUME NEW u \in User, ReadTarget(r, u) PROVE FileInv' /\ LeakInv'
  <2> DEFINE l == [NoLoc EXCEPT !.user = {u}, !.task = "account", !.old = avatar[u]]
  <2>1. l \in LocType /\ l.user = {u} /\ l.old = avatar[u] /\ l.name = {} /\ l.task = "account"
    BY <1>t, NoLocTyped DEF LocType, UserOption
  <2>2. Goto(r, "soft_delete", l) /\ pc[r] = "idle" /\ UNCHANGED faults
    BY <1>1 DEF ReadTarget
  <2>3. Private(r) = {} /\ Condemned(r) = {} /\ Purging(r) = {} /\ "soft_delete" \in PCs
    BY <2>2 DEF Private, Condemned, Purging, PCs
  <2> HIDE DEF l
  <2>4. /\ ShapeAt("soft_delete", l) /\ PrivateAt("soft_delete", l) = {} /\ CondemnedAt("soft_delete", l) = {}
        /\ DoomedAt("soft_delete", l) = {} /\ OldAt("soft_delete", l) = avatar[u]
    BY <2>1
  <2> HIDE DEF PrivateAt, CondemnedAt, OldAt, DoomedAt, PurgingAt, ShapeAt
  <2>5. TypeOK'
    BY <1>t, <2>1, <2>2, <2>3, TypesMove
  <2>6. FileInv'
    BY <1>t, <2>1, <2>2, <2>3, <2>4, <2>5, FilesStay
  <2>7. LeakInv'
    BY <1>t, <2>1, <2>2, <2>3, <2>4, CoveredStay
  <2> QED
    BY <2>6, <2>7
<1>2. ASSUME NEW n \in Name, FindMedia(r, n) PROVE FileInv' /\ LeakInv'
  <2> DEFINE l == [NoLoc EXCEPT !.task = "media", !.name = {n}]
  <2>1. l \in LocType /\ l.name = {n} /\ l.task = "media"
    BY NoLocTyped DEF LocType, NameOption
  <2>2. Goto(r, "delete_row", l) /\ pc[r] \in {"idle", "ready"} /\ UNCHANGED faults /\ media[n] # {}
    BY <1>2 DEF FindMedia
  <2>3. Private(r) = {} /\ Condemned(r) = {} /\ Purging(r) = {} /\ "delete_row" \in PCs
    BY <2>2 DEF Private, Condemned, Purging, PCs
  <2> HIDE DEF l
  <2>4. /\ ShapeAt("delete_row", l) /\ PrivateAt("delete_row", l) = {} /\ CondemnedAt("delete_row", l) = {}
        /\ DoomedAt("delete_row", l) = {n} /\ OldAt("delete_row", l) = {}
    BY <2>1
  <2> HIDE DEF PrivateAt, CondemnedAt, OldAt, DoomedAt, PurgingAt, ShapeAt
  <2>5. TypeOK'
    BY <1>t, <2>1, <2>2, <2>3, TypesMove
  <2>6. FileInv'
    BY <1>t, <2>1, <2>2, <2>3, <2>4, <2>5, FilesStay
  <2>7. LeakInv'
    BY <1>t, <2>1, <2>2, <2>3, <2>4, CoveredStay
  <2> QED
    BY <2>6, <2>7
<1>3. ASSUME ReadAvatar(r) PROVE FileInv' /\ LeakInv'
  <2>0. pc[r] = "read_avatar"
    BY <1>3 DEF ReadAvatar
  <2>1. Private(r) = loc[r].name /\ Condemned(r) = {} /\ Purging(r) = {} /\ "update_avatar" \in PCs
    BY <2>0 DEF Private, Condemned, Purging, PCs
  <2>2. PICK u \in loc[r].user :
          \/ Goto(r, "update_avatar", [loc[r] EXCEPT !.old = avatar[u]]) /\ UNCHANGED faults
          \/ Clean(r, loc[r].name, loc[r]) /\ (Fault \/ UNCHANGED faults)
    BY <1>3 DEF ReadAvatar, TakenBack
  <2>3. CASE Goto(r, "update_avatar", [loc[r] EXCEPT !.old = avatar[u]]) /\ UNCHANGED faults
    <3> DEFINE l == [loc[r] EXCEPT !.old = avatar[u]]
    <3>1. l \in LocType /\ l.name = loc[r].name /\ l.user = {u} /\ l.old = avatar[u] /\ u \in User
      BY <1>t DEF LocType
    <3>2. Goto(r, "update_avatar", l)
      BY <2>3
    <3> HIDE DEF l
    <3>3. /\ ShapeAt("update_avatar", l) /\ PrivateAt("update_avatar", l) = loc[r].name
          /\ CondemnedAt("update_avatar", l) = {} /\ DoomedAt("update_avatar", l) = {}
          /\ OldAt("update_avatar", l) = avatar[u]
      BY <3>1
    <3>4. loc[r].name \subseteq store
      BY <2>0, <2>1 DEF FileInv, PrivateInv
    <3> HIDE DEF PrivateAt, CondemnedAt, OldAt, DoomedAt, PurgingAt, ShapeAt
    <3>5. TypeOK'
      BY <1>t, <2>1, <3>1, <3>2, TypesMove
    <3>6. FileInv'
      BY <1>t, <2>1, <3>1, <3>2, <3>3, <3>4, <3>5, FilesStay
    <3>7. LeakInv'
      BY <1>t, <2>1, <2>3, <3>1, <3>2, <3>3, CoveredStay
    <3> QED
      BY <3>6, <3>7
  <2>4. CASE Clean(r, loc[r].name, loc[r]) /\ (Fault \/ UNCHANGED faults)
    <3> HIDE DEF PrivateAt, CondemnedAt, OldAt, DoomedAt, PurgingAt, ShapeAt
    <3>1. loc[r].user # {} /\ loc[r].name \in SUBSET Name
      BY <1>t, <2>2, ObjectsTyped
    <3>2. PICK label \in {"remove", "purge", "idle"}, m \in LocType :
            /\ Goto(r, label, m) /\ (label = "remove" => m.gone # {}) /\ ShapeAt(label, m)
            /\ PrivateAt(label, m) = {} /\ CondemnedAt(label, m) = loc[r].name
            /\ OldAt(label, m) = {} /\ DoomedAt(label, m) = {}
      <4>1. PICK g \in SUBSET Name : g = loc[r].name
        BY <3>1
      <4>2. Clean(r, g, loc[r])
        BY <2>4, <4>1
      <4>3. \E label \in {"remove", "purge", "idle"}, m \in LocType :
            /\ Goto(r, label, m) /\ (label = "remove" => m.gone # {}) /\ ShapeAt(label, m)
            /\ PrivateAt(label, m) = {} /\ CondemnedAt(label, m) = g
            /\ OldAt(label, m) = {} /\ DoomedAt(label, m) = {}
            /\ PurgingAt(label, m) = IF loc[r].task = "account" THEN loc[r].user ELSE {}
        BY <1>t, <3>1, <4>2, CleanedOwn
      <4> QED
        BY <4>1, <4>3
    <3>3. label \in PCs
      BY DEF PCs
    <3>4. TypeOK'
      BY <1>t, <3>2, <3>3, TypesMove
    <3>5. faults' = 0 => faults = 0
      BY <1>t, <2>4, Faulty
    <3> QED
      BY <1>t, <2>1, <3>2, <3>3, <3>4, <3>5, TakenBackMove
  <2> QED
    BY <2>2, <2>3, <2>4
<1> QED
  BY <1>1, <1>2, <1>3

-----------------------------------------------------------------------------
(* Steps that change rows *)

\* What a row can newly name is the request's own object, and what the request then condemns is
\* in no row.
LEMMA FilesMove ==
  ASSUME FileInv, TypeOK', NEW r \in Request, NEW label \in PCs, NEW l \in LocType, Goto(r, label, l),
         ShapeAt(label, l), PrivateAt(label, l) = {}, OldAt(label, l) = {}, DoomedAt(label, l) = {},
         UNCHANGED <<store, used>>, unsure \subseteq unsure', pc[r] # "put", UNCHANGED media \/ UNCHANGED avatar,
         \A u \in User : Live(u)' => Live(u),
         \A u \in User : \A n \in avatar'[u] :
            n \in avatar[u] \/ (n \in Private(r) /\ \A v \in User : v # u => avatar'[v] = avatar[v]),
         \A n \in Name : media'[n] # {} => media[n] # {} \/ n \in Private(r),
         \A n \in CondemnedAt(label, l) :
            /\ n \in Name /\ n \in used /\ (n \in unsure' \/ Unnamed(n)')
            /\ \A q \in Request : q # r => n \notin Private(q)
  PROVE  FileInv'
<1>t. TypeOK /\ ShapeInv /\ PrivateInv /\ CondemnedInv /\ OldInv /\ DoomedInv /\ AvatarInv /\ MediaInv
  BY DEF FileInv
<1>m. /\ pc'[r] = label /\ loc'[r] = l
      /\ \A q \in Request : q # r => pc'[q] = pc[q] /\ loc'[q] = loc[q]
  BY <1>t, Moved
<1>o. /\ Private(r)' = {} /\ Condemned(r)' = CondemnedAt(label, l) /\ Old(r)' = {} /\ Doomed(r)' = {}
      /\ \A q \in Request : q # r => /\ Private(q)' = Private(q) /\ Condemned(q)' = Condemned(q)
                                     /\ Old(q)' = Old(q) /\ Doomed(q)' = Doomed(q)
  BY <1>t, Objects
<1>n. \A q \in Request : /\ Private(q) \subseteq Name /\ Condemned(q) \subseteq Name
                         /\ Old(q) \subseteq Name /\ Doomed(q) \subseteq Name
  BY <1>t, ObjectsTyped DEF Private, Condemned, Old, Doomed, PrivateAt, CondemnedAt, OldAt, DoomedAt
<1>p. ASSUME NEW n \in Name, n \notin Private(r)
      PROVE  /\ media[n] = {} => media'[n] = {}
             /\ \A u \in User : n \in avatar'[u] => n \in avatar[u]
  BY <1>p
<1>1. PrivateInv'
  <2> SUFFICES ASSUME NEW q \in Request, NEW n \in Private(q)'
               PROVE  /\ n \in used' /\ media'[n] = {}
                      /\ \A u \in User : n \notin avatar'[u]
                      /\ \A s \in Request : /\ n \notin Condemned(s)' /\ n \notin Old(s)' /\ n \notin Doomed(s)'
                                            /\ s # q => n \notin Private(s)'
                      /\ pc'[q] # "put" => n \in store'
    BY DEF PrivateInv
  <2>1. q # r /\ n \in Private(q) /\ n \in Name
    BY <1>n, <1>o
  <2>2. /\ n \in used /\ media[n] = {} /\ n \notin Private(r)
        /\ \A u \in User : n \notin avatar[u]
        /\ \A s \in Request : /\ n \notin Condemned(s) /\ n \notin Old(s) /\ n \notin Doomed(s)
                              /\ s # q => n \notin Private(s)
        /\ pc[q] # "put" => n \in store
    BY <1>t, <2>1 DEF PrivateInv
  <2>3. n \in used' /\ media'[n] = {} /\ \A u \in User : n \notin avatar'[u]
    BY <1>p, <2>1, <2>2
  <2>4. \A s \in Request : /\ n \notin Condemned(s)' /\ n \notin Old(s)' /\ n \notin Doomed(s)'
                           /\ s # q => n \notin Private(s)'
    BY <1>o, <2>1, <2>2
  <2> QED
    BY <1>m, <2>1, <2>2, <2>3, <2>4
<1>2. CondemnedInv'
  <2>1. ASSUME NEW q \in Request, NEW n \in Condemned(q)'
        PROVE  n \in used /\ (n \in unsure' \/ Unnamed(n)')
    <3>1. CASE q = r
      BY <1>o, <3>1
    <3>2. CASE q # r
      <4>1. n \in Condemned(q) /\ n \in Name /\ n \notin Private(r)
        BY <1>n, <1>o, <1>t, <3>2 DEF PrivateInv
      <4> QED
        BY <1>p, <1>t, <4>1 DEF CondemnedInv, Unnamed
    <3> QED
      BY <3>1, <3>2
  <2> QED
    BY <2>1 DEF CondemnedInv
<1>3. OldInv'
  <2>1. ASSUME NEW q \in Request, NEW n \in Old(q)'
        PROVE  n \in used' /\ media'[n] = {} /\ \A u \in User : n \in avatar'[u] => loc'[q].user = {u}
    <3>1. q # r /\ n \in Old(q) /\ n \in Name /\ n \notin Private(r)
      BY <1>n, <1>o, <1>t DEF PrivateInv
    <3> QED
      BY <1>m, <1>p, <1>t, <3>1 DEF OldInv
  <2> QED
    BY <2>1 DEF OldInv
<1>4. DoomedInv'
  <2>1. ASSUME NEW q \in Request, NEW n \in Doomed(q)' PROVE n \in used' /\ \A u \in User : n \notin avatar'[u]
    <3>1. q # r /\ n \in Doomed(q) /\ n \in Name /\ n \notin Private(r)
      BY <1>n, <1>o, <1>t DEF PrivateInv
    <3> QED
      BY <1>p, <1>t, <3>1 DEF DoomedInv
  <2> QED
    BY <2>1 DEF DoomedInv
<1>5. ASSUME NEW n \in Private(r)
      PROVE  n \in Name /\ n \in used /\ n \in store /\ media[n] = {} /\ \A u \in User : n \notin avatar[u]
  BY <1>n, <1>t DEF PrivateInv
<1>6. AvatarInv'
  <2> SUFFICES ASSUME NEW u \in User, NEW n \in avatar'[u]
               PROVE  /\ n \in used' /\ media'[n] = {}
                      /\ \A v \in User : n \in avatar'[v] => v = u
                      /\ Live(u)' => n \in store' \cup unsure'
    BY DEF AvatarInv
  <2>1. CASE n \in Private(r)
    BY <1>5, <2>1
  <2>2. CASE n \notin Private(r)
    <3>1. n \in avatar[u]
      BY <2>2
    <3>2. n \in Name
      BY <1>t, <3>1 DEF TypeOK, NameOption
    <3> QED
      BY <1>p, <1>t, <2>2, <3>1, <3>2 DEF AvatarInv
  <2> QED
    BY <2>1, <2>2
<1>7. MediaInv'
  BY <1>5, <1>t DEF MediaInv
<1>8. ShapeInv'
  BY <1>m, <1>t DEF ShapeInv
<1> QED
  BY <1>1, <1>2, <1>3, <1>4, <1>6, <1>7, <1>8 DEF FileInv

\* Who covers an object, before and after the request has moved.
LEMMA CoveredMove ==
  ASSUME FileInv, LeakInv, NEW r \in Request, NEW label \in PCs, NEW l \in LocType, Goto(r, label, l),
         UNCHANGED <<store, faults>>,
         faults = 0 => \A n \in store :
            \/ n \in lost' \/ n \in CondemnedAt(label, l)
            \/ \E u \in User : Live(u)' /\ (media'[n] = {u} \/ n \in avatar'[u])
            \/ media'[n] # {} /\ media'[n] = PurgingAt(label, l)
            \/ \E q \in Request : q # r /\ (n \in Private(q) \/ n \in Condemned(q))
            \/ \E q \in Request : q # r /\ media'[n] # {} /\ media'[n] = Purging(q)
  PROVE  LeakInv'
<1>o. /\ Condemned(r)' = CondemnedAt(label, l) /\ Purging(r)' = PurgingAt(label, l)
      /\ \A q \in Request : q # r => /\ Private(q)' = Private(q) /\ Condemned(q)' = Condemned(q)
                                     /\ Purging(q)' = Purging(q)
  BY Objects DEF FileInv
<1> SUFFICES ASSUME faults = 0, NEW n \in store PROVE Covered(n)'
  BY DEF LeakInv
<1>1. ASSUME NEW q \in Request, q # r, n \in Private(q) \/ n \in Condemned(q) PROVE Covered(n)'
  BY <1>1, <1>o DEF Covered
<1>2. ASSUME NEW q \in Request, q # r, media'[n] # {}, media'[n] = Purging(q) PROVE Covered(n)'
  BY <1>2, <1>o DEF Covered
<1>3. ASSUME n \in CondemnedAt(label, l) \/ (media'[n] # {} /\ media'[n] = PurgingAt(label, l)) PROVE Covered(n)'
  BY <1>3, <1>o DEF Covered
<1>4. ASSUME n \in lost' \/ \E u \in User : Live(u)' /\ (media'[n] = {u} \/ n \in avatar'[u]) PROVE Covered(n)'
  BY <1>4 DEF Covered
<1> QED
  BY <1>1, <1>2, <1>3, <1>4

\* A fresh name is in no row and known to nobody.
LEMMA NewObjectStep ==
  ASSUME FileInv, LeakInv, TablesOK', NEW r \in Request, NEW task \in {"media", "photo"}, NewObject(r, task),
         UNCHANGED <<rows, store, lost, unsure, faults>>, Unarmed(pc[r], loc[r])
  PROVE  FileInv' /\ LeakInv'
<1>t. /\ TypeOK /\ ShapeInv /\ PrivateInv /\ CondemnedInv /\ OldInv /\ DoomedInv /\ AvatarInv /\ MediaInv
      /\ UNCHANGED <<users, avatar, media>> /\ (\A u \in User : Live(u)' <=> Live(u)) /\ loc[r] \in LocType
  BY ObjectsTyped DEF FileInv, rows, Live
<1>1. PICK n \in Name \ used : used' = used \cup {n} /\ Goto(r, "put", [loc[r] EXCEPT !.task = task, !.name = {n}])
  BY DEF NewObject
<1> DEFINE l == [loc[r] EXCEPT !.task = task, !.name = {n}]
<1>2. l \in LocType /\ l.name = {n} /\ "put" \in PCs
  BY <1>t DEF LocType, NameOption, PCs
<1>3. Goto(r, "put", l)
  BY <1>1
<1> HIDE DEF l
<1>4. /\ ShapeAt("put", l) /\ PrivateAt("put", l) = {n} /\ CondemnedAt("put", l) = {}
      /\ OldAt("put", l) = {} /\ DoomedAt("put", l) = {} /\ PurgingAt("put", l) = {}
  BY <1>2 DEF PrivateAt, CondemnedAt, OldAt, DoomedAt, PurgingAt, ShapeAt
<1>5. TypeOK'
  BY <1>t, <1>2, <1>3, TypesMove
<1>m. /\ pc'[r] = "put" /\ loc'[r] = l
      /\ \A q \in Request : q # r => pc'[q] = pc[q] /\ loc'[q] = loc[q]
  BY <1>t, <1>2, <1>3, Moved
<1>o. /\ Private(r)' = {n} /\ Condemned(r)' = {} /\ Old(r)' = {} /\ Doomed(r)' = {} /\ Purging(r)' = {}
      /\ \A q \in Request : q # r => /\ Private(q)' = Private(q) /\ Condemned(q)' = Condemned(q)
                                     /\ Old(q)' = Old(q) /\ Doomed(q)' = Doomed(q) /\ Purging(q)' = Purging(q)
  BY <1>t, <1>2, <1>3, <1>4, Objects
<1>f. /\ media[n] = {} /\ \A u \in User : n \notin avatar[u]
      /\ \A q \in Request : n \notin Private(q) /\ n \notin Condemned(q) /\ n \notin Old(q) /\ n \notin Doomed(q)
  BY <1>t DEF PrivateInv, CondemnedInv, OldInv, DoomedInv, AvatarInv, MediaInv
<1>6. PrivateInv'
  <2> SUFFICES ASSUME NEW q \in Request, NEW k \in Private(q)'
               PROVE  /\ k \in used' /\ media'[k] = {}
                      /\ \A u \in User : k \notin avatar'[u]
                      /\ \A s \in Request : /\ k \notin Condemned(s)' /\ k \notin Old(s)' /\ k \notin Doomed(s)'
                                            /\ s # q => k \notin Private(s)'
                      /\ pc'[q] # "put" => k \in store'
    BY DEF PrivateInv
  <2>1. CASE q = r
    <3>1. k = n
      BY <1>o, <2>1
    <3>2. \A s \in Request : /\ n \notin Condemned(s)' /\ n \notin Old(s)' /\ n \notin Doomed(s)'
                             /\ s # q => n \notin Private(s)'
      BY <1>f, <1>o, <2>1
    <3> QED
      BY <1>1, <1>f, <1>m, <1>t, <2>1, <3>1, <3>2
  <2>2. CASE q # r
    <3>1. k \in Private(q) /\ k # n
      BY <1>f, <1>o, <2>2
    <3>2. /\ k \in used /\ media[k] = {}
          /\ \A u \in User : k \notin avatar[u]
          /\ \A s \in Request : /\ k \notin Condemned(s) /\ k \notin Old(s) /\ k \notin Doomed(s)
                                /\ s # q => k \notin Private(s)
          /\ pc[q] # "put" => k \in store
      BY <1>t, <3>1 DEF PrivateInv
    <3>3. \A s \in Request : /\ k \notin Condemned(s)' /\ k \notin Old(s)' /\ k \notin Doomed(s)'
                             /\ s # q => k \notin Private(s)'
      BY <1>o, <3>1, <3>2
    <3> QED
      BY <1>1, <1>m, <1>t, <2>2, <3>2, <3>3
  <2> QED
    BY <2>1, <2>2
<1>7. CondemnedInv' /\ DoomedInv'
  BY <1>1, <1>o, <1>t DEF CondemnedInv, DoomedInv, Unnamed
<1>8. OldInv'
  BY <1>1, <1>m, <1>o, <1>t DEF OldInv
<1>9. AvatarInv' /\ MediaInv'
  BY <1>1, <1>t DEF AvatarInv, MediaInv
<1>10. ShapeInv'
  BY <1>4, <1>m, <1>t DEF ShapeInv
<1>11. FileInv'
  BY <1>5, <1>6, <1>7, <1>8, <1>9, <1>10 DEF FileInv
<1>12. LeakInv'
  <2>1. Private(r) = {} /\ Condemned(r) = {} /\ Purging(r) = {}
    BY DEF Unarmed, Private, Condemned, Purging
  <2> QED
    BY <1>2, <1>3, <1>4, <2>1, CoveredStay
<1> QED
  BY <1>11, <1>12

\* The row of an upload: the file has an owner, or a deleted one.
LEMMA InsertMediaStep ==
  ASSUME FileInv, LeakInv, TablesOK', NEW r \in Request, InsertMedia(r)
  PROVE  FileInv' /\ LeakInv'
<1>t. /\ TypeOK /\ MediaInv /\ PrivateInv /\ loc[r] \in LocType /\ pc[r] = "insert_media"
      /\ UNCHANGED <<users, avatar, store, used>> /\ \A u \in User : Live(u)' <=> Live(u)
  BY ObjectsTyped DEF FileInv, InsertMedia, Live
<1>p. Private(r) = loc[r].name /\ Condemned(r) = {} /\ Purging(r) = {}
  BY <1>t DEF Private, Condemned, Purging, PrivateAt, CondemnedAt, PurgingAt
<1>1. PICK u \in loc[r].user, n \in loc[r].name :
          \/ /\ media' = [media EXCEPT ![n] = {u}]
             /\ lost' = IF Live(u) THEN lost ELSE lost \cup {n}
             /\ Done(r) /\ UNCHANGED <<unsure, faults>>
          \/ /\ Fault /\ Clean(r, {n}, loc[r]) /\ UNCHANGED lost
             /\ \/ UNCHANGED <<media, unsure>>
                \/ media' = [media EXCEPT ![n] = {u}] /\ unsure' = unsure \cup {n}
  BY DEF InsertMedia
<1>2. u \in User /\ n \in Name /\ loc[r].name = {n} /\ loc[r].user = {u}
  BY <1>t, ObjectsTyped
<1>3. CASE /\ media' = [media EXCEPT ![n] = {u}]
           /\ lost' = IF Live(u) THEN lost ELSE lost \cup {n}
           /\ Done(r) /\ UNCHANGED <<unsure, faults>>
  <2>1. PICK label \in PCs, l \in LocType : Goto(r, label, l) /\ Unarmed(label, l)
    BY <1>3, DoneUnarmed
  <2>2. /\ ShapeAt(label, l) /\ PrivateAt(label, l) = {} /\ CondemnedAt(label, l) = {}
        /\ OldAt(label, l) = {} /\ DoomedAt(label, l) = {} /\ label # "remove"
    BY <2>1 DEF Unarmed
  <2>3. TypeOK'
    BY <1>t, <2>1, <2>2, TypesMove
  <2>4. media'[n] = {u} /\ \A k \in Name : k # n => media'[k] = media[k]
    BY <1>2, <1>3, <1>t DEF TypeOK
  <2>5. FileInv'
    BY <1>2, <1>3, <1>p, <1>t, <2>1, <2>2, <2>3, <2>4, FilesMove
  <2>6. ASSUME faults = 0, NEW k \in store, k # n
        PROVE  \/ k \in lost' \/ \E v \in User : Live(v)' /\ (media'[k] = {v} \/ k \in avatar'[v])
               \/ \E q \in Request : q # r /\ (k \in Private(q) \/ k \in Condemned(q))
               \/ \E q \in Request : q # r /\ media'[k] # {} /\ media'[k] = Purging(q)
    <3>1. Covered(k) /\ k \in Name
      BY <1>t, <2>6 DEF LeakInv, TypeOK
    <3>2. media'[k] = media[k] /\ k \notin Private(r) /\ k \notin Condemned(r)
      BY <1>2, <1>p, <2>4, <2>6, <3>1
    <3>3. k \in lost => k \in lost'
      BY <1>3
    <3> QED
      BY <1>p, <1>t, <3>1, <3>2, <3>3 DEF Covered
  <2>7. n \in lost' \/ \E v \in User : Live(v)' /\ media'[n] = {v}
    BY <1>2, <1>3, <1>t, <2>4
  <2>8. LeakInv'
    BY <1>3, <1>t, <2>1, <2>6, <2>7, CoveredMove
  <2> QED
    BY <2>5, <2>8
<1>4. CASE /\ Fault /\ Clean(r, {n}, loc[r]) /\ UNCHANGED lost
           /\ \/ UNCHANGED <<media, unsure>>
              \/ media' = [media EXCEPT ![n] = {u}] /\ unsure' = unsure \cup {n}
  <2>1. PICK g \in SUBSET Name : g = {n}
    BY <1>2
  <2>2. Clean(r, g, loc[r]) /\ loc[r].user # {}
    BY <1>2, <1>4, <2>1
  <2>3. PICK label \in {"remove", "purge", "idle"}, m \in LocType :
            /\ Goto(r, label, m) /\ (label = "remove" => m.gone # {}) /\ ShapeAt(label, m)
            /\ PrivateAt(label, m) = {} /\ CondemnedAt(label, m) = g
            /\ OldAt(label, m) = {} /\ DoomedAt(label, m) = {}
            /\ PurgingAt(label, m) = IF loc[r].task = "account" THEN loc[r].user ELSE {}
    BY <1>t, <2>2, CleanedOwn
  <2>4. label \in PCs
    BY DEF PCs
  <2>5. TypeOK'
    BY <1>t, <2>3, <2>4, TypesMove
  <2>6. faults' # 0
    BY <1>4, <1>t, Faulty
  <2>7. CASE UNCHANGED <<media, unsure>>
    <3>1. UNCHANGED <<rows, store, history>>
      BY <1>4, <1>t, <2>7 DEF rows, history
    <3> QED
      BY <1>2, <1>p, <2>1, <2>3, <2>4, <2>5, <2>6, <3>1, TakenBackMove
  <2>8. CASE media' = [media EXCEPT ![n] = {u}] /\ unsure' = unsure \cup {n}
    <3>1. \A k \in Name : k # n => media'[k] = media[k]
      BY <1>2, <1>t, <2>8 DEF TypeOK
    <3>2. n \in Private(r) /\ n \in used /\ \A q \in Request : q # r => n \notin Private(q)
      BY <1>2, <1>p, <1>t DEF PrivateInv
    <3>3. FileInv'
      BY <1>2, <1>t, <2>1, <2>3, <2>4, <2>5, <2>8, <3>1, <3>2, FilesMove
    <3> QED
      BY <2>6, <3>3 DEF LeakInv
  <2> QED
    BY <1>4, <2>7, <2>8
<1> QED
  BY <1>1, <1>3, <1>4

\* The file whose row is deleted is removed.
LEMMA DeleteRowStep ==
  ASSUME FileInv, LeakInv, TablesOK', NEW r \in Request, DeleteRow(r)
  PROVE  FileInv' /\ LeakInv'
<1>t. /\ TypeOK /\ PrivateInv /\ DoomedInv /\ loc[r] \in LocType /\ pc[r] = "delete_row"
      /\ ShapeAt(pc[r], loc[r])
      /\ UNCHANGED <<users, avatar, store, used, lost, unsure, faults>> /\ \A u \in User : Live(u)' <=> Live(u)
  BY ObjectsTyped DEF FileInv, DeleteRow, Live, ShapeInv, history
<1>p. Private(r) = {} /\ Condemned(r) = {} /\ Purging(r) = {} /\ Doomed(r) = loc[r].name
  BY <1>t DEF Private, Condemned, Purging, Doomed, PrivateAt, CondemnedAt, PurgingAt, DoomedAt
<1>1. PICK n \in loc[r].name :
        \/ Done(r) /\ UNCHANGED media
        \/ media' = [media EXCEPT ![n] = {}] /\ Clean(r, {n}, loc[r])
  BY DEF DeleteRow
<1>2. n \in Name /\ loc[r].name = {n}
  BY <1>t, ObjectsTyped
<1>3. CASE Done(r) /\ UNCHANGED media
  <2>1. PICK label \in PCs, l \in LocType : Goto(r, label, l) /\ Unarmed(label, l)
    BY <1>3, DoneUnarmed
  <2>2. TypeOK'
    BY <1>t, <2>1, TypesMove DEF Unarmed
  <2>3. UNCHANGED <<rows, store, history>>
    BY <1>3, <1>t DEF rows, history
  <2> QED
    BY <1>p, <1>t, <2>1, <2>2, <2>3, UnarmedMove
<1>4. CASE media' = [media EXCEPT ![n] = {}] /\ Clean(r, {n}, loc[r])
  <2>1. PICK g \in SUBSET Name : g = {n}
    BY <1>2
  <2>2. Clean(r, g, loc[r]) /\ loc[r].task # "account"
    BY <1>4, <1>t, <2>1 DEF ShapeAt
  <2>3. PICK label \in {"remove", "purge", "idle"}, m \in LocType :
            /\ Goto(r, label, m) /\ (label = "remove" => m.gone # {}) /\ ShapeAt(label, m)
            /\ PrivateAt(label, m) = {} /\ CondemnedAt(label, m) = g
            /\ OldAt(label, m) = {} /\ DoomedAt(label, m) = {}
            /\ PurgingAt(label, m) = IF loc[r].task = "account" THEN loc[r].user ELSE {}
    BY <1>t, <2>2, CleanedOwn
  <2>4. label \in PCs
    BY DEF PCs
  <2>5. TypeOK'
    BY <1>t, <2>3, <2>4, TypesMove
  <2>6. media'[n] = {} /\ \A k \in Name : k # n => media'[k] = media[k]
    BY <1>2, <1>4, <1>t DEF TypeOK
  <2>7. n \in used /\ (\A u \in User : n \notin avatar[u]) /\ \A q \in Request : n \notin Private(q)
    BY <1>p, <1>t DEF DoomedInv, PrivateInv
  <2>8. FileInv'
    BY <1>2, <1>p, <1>t, <2>1, <2>3, <2>4, <2>5, <2>6, <2>7, FilesMove DEF Unnamed
  <2>9. ASSUME faults = 0, NEW k \in store, k # n
        PROVE  \/ k \in lost' \/ \E v \in User : Live(v)' /\ (media'[k] = {v} \/ k \in avatar'[v])
               \/ \E q \in Request : q # r /\ (k \in Private(q) \/ k \in Condemned(q))
               \/ \E q \in Request : q # r /\ media'[k] # {} /\ media'[k] = Purging(q)
    <3>1. Covered(k) /\ media'[k] = media[k]
      BY <1>t, <2>6, <2>9 DEF LeakInv, TypeOK
    <3> QED
      BY <1>p, <1>t, <3>1 DEF Covered
  <2>10. LeakInv'
    BY <1>t, <2>1, <2>3, <2>4, <2>9, CoveredMove
  <2> QED
    BY <2>8, <2>10
<1> QED
  BY <1>1, <1>3, <1>4

\* The photo that was read is removed; the one that is replaced is that one, or a race has lost it.
LEMMA UpdateAvatarStep ==
  ASSUME FileInv, LeakInv, TablesOK', NEW r \in Request, UpdateAvatar(r)
  PROVE  FileInv' /\ LeakInv'
<1>t. /\ TypeOK /\ PrivateInv /\ OldInv /\ loc[r] \in LocType /\ pc[r] = "update_avatar"
      /\ UNCHANGED <<users, media, store, used>> /\ \A u \in User : Live(u)' <=> Live(u)
  BY ObjectsTyped DEF FileInv, UpdateAvatar, Live
<1>p. Private(r) = loc[r].name /\ Condemned(r) = {} /\ Purging(r) = {} /\ Old(r) = loc[r].old
  BY <1>t DEF Private, Condemned, Purging, Old, PrivateAt, CondemnedAt, PurgingAt, OldAt
<1>1. PICK u \in loc[r].user :
          \/ /\ avatar' = [avatar EXCEPT ![u] = loc[r].name]
             /\ lost' = lost \cup (avatar[u] \ loc[r].old) \cup (IF Live(u) THEN {} ELSE loc[r].name)
             /\ Clean(r, loc[r].old, loc[r])
             /\ UNCHANGED <<unsure, faults>>
          \/ /\ Fault /\ Clean(r, loc[r].name, loc[r]) /\ UNCHANGED lost
             /\ \/ UNCHANGED <<avatar, unsure>>
                \/ avatar' = [avatar EXCEPT ![u] = loc[r].name] /\ unsure' = unsure \cup loc[r].name
  BY DEF UpdateAvatar, TakenBack
<1>2. u \in User /\ loc[r].user = {u} /\ loc[r].name \in SUBSET Name /\ loc[r].old \in SUBSET Name
  BY <1>t, ObjectsTyped
<1>3. CASE /\ avatar' = [avatar EXCEPT ![u] = loc[r].name]
           /\ lost' = lost \cup (avatar[u] \ loc[r].old) \cup (IF Live(u) THEN {} ELSE loc[r].name)
           /\ Clean(r, loc[r].old, loc[r])
           /\ UNCHANGED <<unsure, faults>>
  <2>1. PICK g \in SUBSET Name : g = loc[r].old
    BY <1>2
  <2>2. Clean(r, g, loc[r]) /\ loc[r].user # {}
    BY <1>2, <1>3, <2>1
  <2>3. PICK label \in {"remove", "purge", "idle"}, m \in LocType :
            /\ Goto(r, label, m) /\ (label = "remove" => m.gone # {}) /\ ShapeAt(label, m)
            /\ PrivateAt(label, m) = {} /\ CondemnedAt(label, m) = g
            /\ OldAt(label, m) = {} /\ DoomedAt(label, m) = {}
            /\ PurgingAt(label, m) = IF loc[r].task = "account" THEN loc[r].user ELSE {}
    BY <1>t, <2>2, CleanedOwn
  <2>4. label \in PCs
    BY DEF PCs
  <2>5. TypeOK'
    BY <1>t, <2>3, <2>4, TypesMove
  <2>6. avatar'[u] = loc[r].name /\ \A v \in User : v # u => avatar'[v] = avatar[v]
    BY <1>2, <1>3, <1>t DEF TypeOK
  <2>7. ASSUME NEW n \in loc[r].old
        PROVE  /\ n \in Name /\ n \in used /\ media'[n] = {} /\ \A v \in User : n \notin avatar'[v]
               /\ \A q \in Request : n \notin Private(q)
    <3>1. /\ n \in used /\ media[n] = {} /\ (\A v \in User : n \in avatar[v] => {u} = {v})
          /\ \A q \in Request : n \notin Private(q)
      BY <1>2, <1>p, <1>t DEF OldInv, PrivateInv
    <3>2. ASSUME NEW v \in User PROVE n \notin avatar'[v]
      <4>1. CASE v = u
        BY <1>p, <2>6, <3>1, <4>1
      <4>2. CASE v # u
        BY <2>6, <3>1, <4>2
      <4> QED
        BY <4>1, <4>2
    <3> QED
      BY <1>2, <1>t, <3>1, <3>2
  <2>8. FileInv'
    <3>1. \A v \in User : \A n \in avatar'[v] :
            n \in avatar[v] \/ (n \in Private(r) /\ \A w \in User : w # v => avatar'[w] = avatar[w])
      BY <1>p, <2>6
    <3>2. \A n \in CondemnedAt(label, m) :
            /\ n \in Name /\ n \in used /\ (n \in unsure' \/ Unnamed(n)')
            /\ \A q \in Request : q # r => n \notin Private(q)
      BY <2>1, <2>3, <2>7 DEF Unnamed
    <3> QED
      BY <1>3, <1>t, <2>3, <2>4, <2>5, <3>1, <3>2, FilesMove
  <2>9. ASSUME faults = 0, NEW k \in store
        PROVE  \/ k \in lost' \/ k \in CondemnedAt(label, m)
               \/ \E v \in User : Live(v)' /\ (media'[k] = {v} \/ k \in avatar'[v])
               \/ \E q \in Request : q # r /\ (k \in Private(q) \/ k \in Condemned(q))
               \/ \E q \in Request : q # r /\ media'[k] # {} /\ media'[k] = Purging(q)
    <3>1. Covered(k)
      BY <2>9 DEF LeakInv
    <3>2. CASE k \in Private(r)
      BY <1>2, <1>3, <1>p, <1>t, <2>6, <3>2
    <3>3. ASSUME NEW v \in User, Live(v), media[k] = {v} \/ k \in avatar[v]
          PROVE  \/ k \in lost' \/ k \in CondemnedAt(label, m)
                 \/ \E w \in User : Live(w)' /\ (media'[k] = {w} \/ k \in avatar'[w])
      <4>1. CASE media[k] = {v} \/ v # u
        BY <1>t, <2>6, <3>3, <4>1
      <4>2. CASE k \in avatar[u]
        BY <1>3, <2>1, <2>3, <4>2
      <4> QED
        BY <3>3, <4>1, <4>2
    <3>4. lost \subseteq lost'
      BY <1>3
    <3> QED
      BY <1>p, <1>t, <3>1, <3>2, <3>3, <3>4 DEF Covered
  <2>10. LeakInv'
    BY <1>3, <1>t, <2>3, <2>4, <2>9, CoveredMove
  <2> QED
    BY <2>8, <2>10
<1>4. CASE /\ Fault /\ Clean(r, loc[r].name, loc[r]) /\ UNCHANGED lost
           /\ \/ UNCHANGED <<avatar, unsure>>
              \/ avatar' = [avatar EXCEPT ![u] = loc[r].name] /\ unsure' = unsure \cup loc[r].name
  <2>1. PICK g \in SUBSET Name : g = loc[r].name
    BY <1>2
  <2>2. Clean(r, g, loc[r]) /\ loc[r].user # {}
    BY <1>2, <1>4, <2>1
  <2>3. PICK label \in {"remove", "purge", "idle"}, m \in LocType :
            /\ Goto(r, label, m) /\ (label = "remove" => m.gone # {}) /\ ShapeAt(label, m)
            /\ PrivateAt(label, m) = {} /\ CondemnedAt(label, m) = g
            /\ OldAt(label, m) = {} /\ DoomedAt(label, m) = {}
            /\ PurgingAt(label, m) = IF loc[r].task = "account" THEN loc[r].user ELSE {}
    BY <1>t, <2>2, CleanedOwn
  <2>4. label \in PCs
    BY DEF PCs
  <2>5. TypeOK'
    BY <1>t, <2>3, <2>4, TypesMove
  <2>6. faults' # 0
    BY <1>4, <1>t, Faulty
  <2>7. CASE UNCHANGED <<avatar, unsure>>
    <3>1. UNCHANGED <<rows, store, history>>
      BY <1>4, <1>t, <2>7 DEF rows, history
    <3> QED
      BY <1>p, <2>1, <2>3, <2>4, <2>5, <2>6, <3>1, TakenBackMove
  <2>8. CASE avatar' = [avatar EXCEPT ![u] = loc[r].name] /\ unsure' = unsure \cup loc[r].name
    <3>1. avatar'[u] = loc[r].name /\ \A v \in User : v # u => avatar'[v] = avatar[v]
      BY <1>2, <1>t, <2>8 DEF TypeOK
    <3>2. \A v \in User : \A n \in avatar'[v] :
            n \in avatar[v] \/ (n \in Private(r) /\ \A w \in User : w # v => avatar'[w] = avatar[w])
      BY <1>p, <3>1
    <3>3. \A n \in loc[r].name :
            n \in Name /\ n \in used /\ \A q \in Request : q # r => n \notin Private(q)
      BY <1>2, <1>p, <1>t DEF PrivateInv
    <3>4. FileInv'
      BY <1>t, <2>1, <2>3, <2>4, <2>5, <2>8, <3>2, <3>3, FilesMove
    <3> QED
      BY <2>6, <3>4 DEF LeakInv
  <2> QED
    BY <1>4, <2>7, <2>8
<1> QED
  BY <1>1, <1>3, <1>4

\* An account is deleted: its photo is removed, and its files wait for the purge.
LEMMA SoftDeleteStep ==
  ASSUME FileInv, LeakInv, TablesOK', NEW r \in Request, SoftDelete(r)
  PROVE  FileInv' /\ LeakInv'
<1>t. /\ TypeOK /\ PrivateInv /\ OldInv /\ loc[r] \in LocType /\ pc[r] = "soft_delete" /\ loc[r].task = "account"
      /\ UNCHANGED <<avatar, media, store, used, unsure, faults>>
  BY ObjectsTyped DEF FileInv, SoftDelete, ShapeInv, ShapeAt
<1>p. Private(r) = {} /\ Condemned(r) = {} /\ Purging(r) = {} /\ Old(r) = loc[r].old
  BY <1>t DEF Private, Condemned, Purging, Old, PrivateAt, CondemnedAt, PurgingAt, OldAt
<1>1. PICK u \in loc[r].user :
          \/ /\ users' = [users EXCEPT ![u] = "deleted"]
             /\ lost' = lost \cup (avatar[u] \ loc[r].old)
             /\ Clean(r, loc[r].old, loc[r])
          \/ Done(r) /\ UNCHANGED <<users, lost>>
  BY DEF SoftDelete
<1>2. u \in User /\ loc[r].user = {u} /\ loc[r].old \in SUBSET Name
  BY <1>t, ObjectsTyped
<1>3. CASE Done(r) /\ UNCHANGED <<users, lost>>
  <2>1. PICK label \in PCs, l \in LocType : Goto(r, label, l) /\ Unarmed(label, l)
    BY <1>3, DoneUnarmed
  <2>2. TypeOK'
    BY <1>t, <2>1, TypesMove DEF Unarmed
  <2>3. UNCHANGED <<rows, store, history>>
    BY <1>3, <1>t DEF rows, history
  <2> QED
    BY <1>p, <1>t, <2>1, <2>2, <2>3, UnarmedMove
<1>4. CASE /\ users' = [users EXCEPT ![u] = "deleted"]
           /\ lost' = lost \cup (avatar[u] \ loc[r].old)
           /\ Clean(r, loc[r].old, loc[r])
  <2>1. PICK g \in SUBSET Name : g = loc[r].old
    BY <1>2
  <2>2. Clean(r, g, loc[r]) /\ loc[r].user # {}
    BY <1>2, <1>4, <2>1
  <2>3. PICK label \in {"remove", "purge", "idle"}, m \in LocType :
            /\ Goto(r, label, m) /\ (label = "remove" => m.gone # {}) /\ ShapeAt(label, m)
            /\ PrivateAt(label, m) = {} /\ CondemnedAt(label, m) = g
            /\ OldAt(label, m) = {} /\ DoomedAt(label, m) = {}
            /\ PurgingAt(label, m) = IF loc[r].task = "account" THEN loc[r].user ELSE {}
    BY <1>t, <2>2, CleanedOwn
  <2>4. label \in PCs /\ PurgingAt(label, m) = {u}
    BY <1>2, <1>t, <2>3 DEF PCs
  <2>5. TypeOK'
    BY <1>t, <2>3, <2>4, TypesMove
  <2>6. \A v \in User : Live(v)' <=> Live(v) /\ v # u
    BY <1>2, <1>4, <1>t DEF TypeOK, Live
  <2>7. ASSUME NEW n \in loc[r].old
        PROVE  /\ n \in Name /\ n \in used /\ media'[n] = {} /\ \A v \in User : Live(v)' => n \notin avatar'[v]
               /\ \A q \in Request : q # r => n \notin Private(q)
    <3>1. /\ n \in used /\ media[n] = {} /\ (\A v \in User : n \in avatar[v] => {u} = {v})
          /\ \A q \in Request : n \notin Private(q)
      BY <1>2, <1>p, <1>t DEF OldInv, PrivateInv
    <3> QED
      BY <1>2, <1>t, <2>6, <3>1
  <2>8. FileInv'
    <3>1. \A n \in CondemnedAt(label, m) :
            /\ n \in Name /\ n \in used /\ (n \in unsure' \/ Unnamed(n)')
            /\ \A q \in Request : q # r => n \notin Private(q)
      BY <2>1, <2>3, <2>7 DEF Unnamed
    <3> QED
      BY <1>t, <2>3, <2>4, <2>5, <2>6, <3>1, FilesMove
  <2>9. ASSUME faults = 0, NEW k \in store
        PROVE  \/ k \in lost' \/ k \in CondemnedAt(label, m)
               \/ \E v \in User : Live(v)' /\ (media'[k] = {v} \/ k \in avatar'[v])
               \/ media'[k] # {} /\ media'[k] = PurgingAt(label, m)
               \/ \E q \in Request : q # r /\ (k \in Private(q) \/ k \in Condemned(q))
               \/ \E q \in Request : q # r /\ media'[k] # {} /\ media'[k] = Purging(q)
    <3>1. Covered(k)
      BY <2>9 DEF LeakInv
    <3>2. ASSUME NEW v \in User, Live(v), media[k] = {v} \/ k \in avatar[v]
          PROVE  \/ k \in lost' \/ k \in CondemnedAt(label, m)
                 \/ \E w \in User : Live(w)' /\ (media'[k] = {w} \/ k \in avatar'[w])
                 \/ media'[k] # {} /\ media'[k] = PurgingAt(label, m)
      <4>1. CASE v # u
        BY <1>t, <2>6, <3>2, <4>1
      <4>2. CASE v = u
        BY <1>4, <1>t, <2>1, <2>3, <2>4, <3>2, <4>2
      <4> QED
        BY <4>1, <4>2
    <3>3. lost \subseteq lost'
      BY <1>4
    <3> QED
      BY <1>p, <1>t, <3>1, <3>2, <3>3 DEF Covered
  <2>10. LeakInv'
    BY <1>t, <2>3, <2>4, <2>9, CoveredMove
  <2> QED
    BY <2>8, <2>10
<1> QED
  BY <1>1, <1>3, <1>4

\* The files of a deleted account lose their rows and are removed.
LEMMA PurgeStep ==
  ASSUME FileInv, LeakInv, TablesOK', NEW r \in Request, Purge(r)
  PROVE  FileInv' /\ LeakInv'
<1>t. /\ TypeOK /\ PrivateInv /\ AvatarInv /\ MediaInv /\ loc[r] \in LocType /\ pc[r] = "purge"
      /\ loc[r].user # {} /\ UNCHANGED <<users, avatar, store, used, lost, unsure>>
      /\ \A u \in User : Live(u)' <=> Live(u)
  BY ObjectsTyped DEF FileInv, Purge, ShapeInv, ShapeAt, history, Live
<1>p. Private(r) = {} /\ Condemned(r) = {} /\ Purging(r) = loc[r].user
  BY <1>t DEF Private, Condemned, Purging, PrivateAt, CondemnedAt, PurgingAt
<1>1. CASE Fault /\ Done(r) /\ UNCHANGED media
  <2>1. PICK label \in PCs, l \in LocType : Goto(r, label, l) /\ Unarmed(label, l)
    BY <1>1, DoneUnarmed
  <2>2. TypeOK'
    BY <1>t, <2>1, TypesMove DEF Unarmed
  <2>3. UNCHANGED <<rows, store, history>> /\ faults' # 0
    BY <1>1, <1>t, Faulty DEF rows, history
  <2> QED
    BY <2>1, <2>2, <2>3, UnarmedMove
<1>2. CASE /\ media' = [n \in Name |-> IF media[n] = loc[r].user THEN {} ELSE media[n]]
           /\ Clean(r, Purged(loc[r].user), [loc[r] EXCEPT !.task = "media"])
           /\ UNCHANGED faults
  <2>1. PICK g \in SUBSET Name : g = {n \in Name : media[n] = loc[r].user}
    OBVIOUS
  <2>2. PICK k \in LocType : k = [loc[r] EXCEPT !.task = "media"]
    BY <1>t DEF LocType
  <2>3. Clean(r, g, k) /\ k.task = "media"
    BY <1>2, <1>t, <2>1, <2>2 DEF Purged, LocType
  <2>4. PICK label \in {"remove", "purge", "idle"}, m \in LocType :
            /\ Goto(r, label, m) /\ (label = "remove" => m.gone # {}) /\ ShapeAt(label, m)
            /\ PrivateAt(label, m) = {} /\ CondemnedAt(label, m) = g
            /\ OldAt(label, m) = {} /\ DoomedAt(label, m) = {}
            /\ PurgingAt(label, m) = IF k.task = "account" THEN k.user ELSE {}
    <3>1. TypeOK /\ Clean(r, g, k) /\ (k.task = "account" => k.user # {})
      BY <1>t, <2>3
    <3> QED
      BY <3>1, Cleaned, Zenon
  <2>5. label \in PCs
    BY DEF PCs
  <2>6. TypeOK'
    BY <1>t, <2>4, <2>5, TypesMove
  <2>7. ASSUME NEW n \in g
        PROVE  /\ n \in Name /\ n \in used /\ (n \in unsure' \/ Unnamed(n)')
               /\ \A q \in Request : q # r => n \notin Private(q)
    <3>1. n \in Name /\ media[n] # {} /\ media[n] = loc[r].user
      BY <1>t, <2>1
    <3>2. media'[n] = {}
      BY <1>2, <3>1
    <3> QED
      BY <1>t, <3>1, <3>2 DEF MediaInv, AvatarInv, PrivateInv, Unnamed
  <2>8. \A n \in Name : media'[n] # {} => media[n] # {}
    BY <1>2
  <2>9. FileInv'
    BY <1>t, <2>4, <2>5, <2>6, <2>7, <2>8, FilesMove
  <2>10. ASSUME faults = 0, NEW n \in store, n \notin g
         PROVE  \/ n \in lost' \/ \E v \in User : Live(v)' /\ (media'[n] = {v} \/ n \in avatar'[v])
                \/ \E q \in Request : q # r /\ (n \in Private(q) \/ n \in Condemned(q))
                \/ \E q \in Request : q # r /\ media'[n] # {} /\ media'[n] = Purging(q)
    <3>1. Covered(n) /\ n \in Name
      BY <1>t, <2>10 DEF LeakInv, TypeOK
    <3>2. media'[n] = media[n] /\ media[n] # Purging(r)
      BY <1>2, <1>p, <2>1, <2>10, <3>1
    <3> QED
      BY <1>p, <1>t, <3>1, <3>2 DEF Covered
  <2>11. LeakInv'
    BY <1>2, <1>t, <2>4, <2>5, <2>10, CoveredMove
  <2> QED
    BY <2>9, <2>11
<1> QED
  BY <1>1, <1>2 DEF Purge

-----------------------------------------------------------------------------
(* Every step *)

LEMMA FilesInit == Init => FileInv /\ LeakInv
<1> SUFFICES ASSUME Init PROVE FileInv /\ LeakInv
  OBVIOUS
<1>1. /\ {} \in UserOption /\ {} \in NameOption /\ NoLoc \in LocType /\ "idle" \in PCs
      /\ MaxProcessing \in Nat /\ 0 \in 0..MaxFaults
  BY NoLocTyped, ConstantsAssumption DEF UserOption, NameOption, PCs
<1>2. TypeOK
  BY <1>1 DEF Init, TypeOK
<1>3. \A r \in Request : pc[r] = "idle" /\ loc[r] = NoLoc
  BY DEF Init
<1>4. \A r \in Request : Private(r) = {} /\ Condemned(r) = {} /\ Old(r) = {} /\ Doomed(r) = {}
  BY <1>3 DEF Private, Condemned, Old, Doomed, PrivateAt, CondemnedAt, OldAt, DoomedAt
<1>5. ShapeInv
  BY <1>3 DEF ShapeInv, ShapeAt
<1>6. (\A u \in User : avatar[u] = {}) /\ (\A n \in Name : media[n] = {}) /\ store = {}
  BY DEF Init
<1> QED
  BY <1>2, <1>4, <1>5, <1>6
     DEF FileInv, LeakInv, PrivateInv, CondemnedInv, OldInv, DoomedInv, AvatarInv, MediaInv

LEMMA FilesStep == FileInv /\ LeakInv /\ [Next]_vars => FileInv' /\ LeakInv'
<1> SUFFICES ASSUME FileInv, LeakInv, [Next]_vars PROVE FileInv' /\ LeakInv'
  OBVIOUS
<1>t. TypeOK /\ ShapeInv /\ TablesOK'
  BY TablesStep DEF FileInv
<1>1. ASSUME NEW r \in Request, Harmless(r) PROVE FileInv' /\ LeakInv'
  <2>1. UNCHANGED <<rows, store, history, faults>> /\ Unarmed(pc[r], loc[r])
    BY <1>1, <1>t, HarmlessMove
  <2>2. PICK label \in PCs, l \in LocType : Goto(r, label, l) /\ Unarmed(label, l)
    BY <1>1, <1>t, HarmlessMove
  <2>3. Private(r) = {} /\ Condemned(r) = {} /\ Purging(r) = {}
    BY <2>1 DEF Unarmed, Private, Condemned, Purging
  <2>4. TypeOK'
    BY <1>t, <2>2, TypesMove DEF Unarmed
  <2> QED
    BY <2>1, <2>2, <2>3, <2>4, UnarmedMove
<1>2. ASSUME NEW r \in Request, Upload(r) PROVE FileInv' /\ LeakInv'
  <2>1. NewObject(r, "media") /\ UNCHANGED <<rows, store, lost, unsure, faults>> /\ pc[r] = "ready"
    BY <1>2 DEF Upload
  <2>2. Unarmed(pc[r], loc[r])
    BY <1>t, <2>1 DEF Unarmed, ShapeInv, PrivateAt, CondemnedAt, OldAt, DoomedAt, PurgingAt
  <2> QED
    BY <1>t, <2>1, <2>2, NewObjectStep
<1>3. ASSUME NEW r \in Request, Processed(r) PROVE FileInv' /\ LeakInv'
  <2>0. UNCHANGED <<rows, store, lost, unsure, faults>> /\ pc[r] = "process"
    BY <1>3 DEF Processed
  <2>1. Unarmed(pc[r], loc[r])
    BY <1>t, <2>0 DEF Unarmed, ShapeInv, PrivateAt, CondemnedAt, OldAt, DoomedAt, PurgingAt
  <2>2. CASE NewObject(r, "photo")
    BY <1>t, <2>0, <2>1, <2>2, NewObjectStep
  <2>3. CASE Done(r) /\ UNCHANGED used
    <3>1. PICK label \in PCs, l \in LocType : Goto(r, label, l) /\ Unarmed(label, l)
      BY <2>3, DoneUnarmed
    <3>2. TypeOK'
      BY <1>t, <3>1, TypesMove DEF Unarmed
    <3>3. Private(r) = {} /\ Condemned(r) = {} /\ Purging(r) = {}
      BY <2>1 DEF Unarmed, Private, Condemned, Purging
    <3> QED
      BY <2>0, <2>3, <3>1, <3>2, <3>3, UnarmedMove DEF history
  <2> QED
    BY <1>3, <2>2, <2>3 DEF Processed
<1>4. ASSUME NEW r \in Request, Drop(r) PROVE FileInv' /\ LeakInv'
  <2>1. UNCHANGED <<rows, store, history>> /\ faults' # 0 /\ Done(r)
    BY <1>4, <1>t, Faulty DEF Drop
  <2>2. PICK label \in PCs, l \in LocType : Goto(r, label, l) /\ Unarmed(label, l)
    BY <2>1, DoneUnarmed
  <2>3. TypeOK'
    BY <1>t, <2>2, TypesMove DEF Unarmed
  <2> QED
    BY <2>1, <2>2, <2>3, UnarmedMove
<1>5. CASE ProcessedForNobody \/ UNCHANGED vars
  <2>1. UNCHANGED <<users, avatar, media, store, used, lost, unsure, faults, pc, loc>>
    BY <1>5 DEF ProcessedForNobody, vars, rows, history
  <2>2. TypeOK'
    BY <1>t, <2>1 DEF TypeOK, TablesOK
  <2>3. \A r \in Request : /\ Private(r)' = Private(r) /\ Condemned(r)' = Condemned(r) /\ Old(r)' = Old(r)
                           /\ Doomed(r)' = Doomed(r) /\ Purging(r)' = Purging(r)
    BY <2>1 DEF Private, Condemned, Old, Doomed, Purging
  <2>4. PrivateInv' /\ CondemnedInv' /\ OldInv' /\ DoomedInv'
    BY <2>1, <2>3 DEF FileInv, PrivateInv, CondemnedInv, OldInv, DoomedInv, Live, Unnamed
  <2>5. AvatarInv' /\ MediaInv' /\ ShapeInv'
    BY <2>1 DEF FileInv, AvatarInv, MediaInv, ShapeInv, Live
  <2>6. LeakInv'
    BY <2>1, <2>3 DEF LeakInv, Covered, Live
  <2> QED
    BY <2>2, <2>4, <2>5, <2>6 DEF FileInv
<1> QED
  BY <1>1, <1>2, <1>3, <1>4, <1>5, <1>t, StoreSteps, ReadSteps, InsertMediaStep, DeleteRowStep, UpdateAvatarStep,
     SoftDeleteStep, PurgeStep
     DEF Next, Harmless

-----------------------------------------------------------------------------
(* The bounds *)

\* Every permit is free, or with a request, or with the task of a dropped one.
ProcessingInv ==
    permits + Cardinality({r \in Request : pc[r] = "process"}) + detached = MaxProcessing

\* The steps that have to do with neither keys nor permits.
LEMMA Elsewhere ==
  ASSUME TypeOK, NEW r \in Request,
         \/ Upload(r) \/ Put(r) \/ InsertMedia(r) \/ DeleteRow(r) \/ RemoveObject(r) \/ ReadAvatar(r)
         \/ UpdateAvatar(r) \/ SoftDelete(r) \/ Purge(r)
         \/ (\E u \in User : ReadTarget(r, u)) \/ (\E n \in Name : FindMedia(r, n))
  PROVE  /\ UNCHANGED <<apiKeys, processing>> /\ pc[r] \notin {"process", "insert_key"}
         /\ \E label \in PCs \ {"process", "insert_key"} : \E l : Goto(r, label, l)
<1> DEFINE Away == \E label \in PCs \ {"process", "insert_key"} : \E l : Goto(r, label, l)
<1>1. Done(r) => Away
  BY DEF Done, PCs
<1>2. ASSUME NEW gone, NEW l, Clean(r, gone, l) PROVE Away
  <2>1. CASE gone # {}
    BY <1>2, <2>1 DEF Clean, PCs
  <2>2. CASE gone = {} /\ l.task = "account"
    BY <1>2, <2>2 DEF Clean, PCs
  <2>3. CASE gone = {} /\ l.task # "account"
    BY <1>1, <1>2, <2>3 DEF Clean
  <2> QED
    BY <2>1, <2>2, <2>3
<1>3. CASE Upload(r)
  BY <1>3 DEF Upload, NewObject, PCs
<1>4. CASE Put(r)
  <2>1. (IF loc[r].task = "media" THEN "insert_media" ELSE "read_avatar") \in PCs \ {"process", "insert_key"}
    BY DEF PCs
  <2> QED
    BY <1>1, <1>4, <2>1 DEF Put
<1>5. CASE InsertMedia(r)
  BY <1>1, <1>2, <1>5 DEF InsertMedia
<1>6. CASE DeleteRow(r)
  BY <1>1, <1>2, <1>6 DEF DeleteRow
<1>7. CASE RemoveObject(r)
  BY <1>2, <1>7 DEF RemoveObject
<1>8. CASE ReadAvatar(r)
  <2>1. "update_avatar" \in PCs \ {"process", "insert_key"}
    BY DEF PCs
  <2> QED
    BY <1>2, <1>8, <2>1 DEF ReadAvatar
<1>9. CASE UpdateAvatar(r)
  BY <1>2, <1>9 DEF UpdateAvatar
<1>10. CASE SoftDelete(r)
  BY <1>1, <1>2, <1>10 DEF SoftDelete
<1>11. CASE Purge(r)
  BY <1>1, <1>2, <1>11 DEF Purge
<1>12. ASSUME NEW u \in User, ReadTarget(r, u) PROVE Away /\ UNCHANGED <<apiKeys, processing>> /\ pc[r] = "idle"
  BY <1>12 DEF ReadTarget, PCs
<1>13. ASSUME NEW n \in Name, FindMedia(r, n)
       PROVE Away /\ UNCHANGED <<apiKeys, processing>> /\ pc[r] \in {"idle", "ready"}
  BY <1>13 DEF FindMedia, PCs
<1> QED
  BY <1>3, <1>4, <1>5, <1>6, <1>7, <1>8, <1>9, <1>10, <1>11, <1>12, <1>13

\* Where the request goes, whatever its locals are.
LEMMA Steered ==
  ASSUME TypeOK, NEW r \in Request, NEW label, NEW l, Goto(r, label, l)
  PROVE  pc'[r] = label /\ loc'[r] = l /\ \A q \in Request : q # r => pc'[q] = pc[q] /\ loc'[q] = loc[q]
  BY DEF TypeOK, Goto

LEMMA ProcessingStep ==
  ASSUME TypeOK, ShapeInv, ProcessingInv, [Next]_vars
  PROVE  ProcessingInv'
<1> DEFINE P == {q \in Request : pc[q] = "process"}
           Q == {q \in Request : pc'[q] = "process"}
<1>t. IsFiniteSet(P) /\ Cardinality(P) \in Nat /\ permits \in Nat /\ detached \in Nat /\ MaxProcessing \in Nat
  <2>1. IsFiniteSet(P)
    BY ConstantsAssumption, FS_Subset
  <2> QED
    BY <2>1, FS_CardinalityType, ConstantsAssumption DEF TypeOK
<1>i. permits + Cardinality(P) + detached = MaxProcessing
  BY DEF ProcessingInv
<1> SUFFICES permits' + Cardinality(Q) + detached' = MaxProcessing
  BY DEF ProcessingInv
\* Nobody comes to process an image, and nobody leaves.
<1>1. ASSUME NEW r \in Request, NEW label, NEW l, Goto(r, label, l), label # "process", pc[r] # "process",
             UNCHANGED processing
      PROVE  permits' + Cardinality(Q) + detached' = MaxProcessing
  <2>1. Q = P
    BY <1>1, Steered
  <2> QED
    BY <1>1, <1>i, <2>1 DEF processing
<1>2. ASSUME NEW r \in Request, NEW label, NEW l, Goto(r, label, l), label # "process", pc[r] = "process"
      PROVE  Cardinality(Q) = Cardinality(P) - 1
  <2>1. Q = P \ {r} /\ r \in P
    BY <1>2, Steered
  <2> QED
    BY <1>t, <2>1, FS_RemoveElement
<1>3. ASSUME NEW r \in Request, NEW l, Goto(r, "process", l), pc[r] # "process"
      PROVE  Cardinality(Q) = Cardinality(P) + 1
  <2>1. Q = P \cup {r} /\ r \notin P
    BY <1>3, Steered
  <2> QED
    BY <1>t, <2>1, FS_AddElement
<1> HIDE DEF P, Q
<1>4. ASSUME NEW r \in Request, Harmless(r) PROVE permits' + Cardinality(Q) + detached' = MaxProcessing
  <2>1. CASE Acquire(r)
    <3>1. Goto(r, "process", loc[r]) /\ pc[r] # "process" /\ permits > 0 /\ permits' = permits - 1 /\ detached' = detached
      BY <2>1 DEF Acquire, Take
    <3>2. Cardinality(Q) = Cardinality(P) + 1
      BY <1>3, <3>1
    <3> QED
      BY <1>i, <1>t, <3>1, <3>2
  <2>2. CASE ~Acquire(r)
    <3>1. PICK label \in PCs, l \in LocType : Goto(r, label, l) /\ label # "process"
      BY <1>4, <2>2, HarmlessMove
    <3>2. pc[r] # "process"
      BY <1>4, HarmlessMove
    <3>3. UNCHANGED processing
      BY <1>4, <2>2 DEF Harmless, AcceptSession, FindKey, KeyOwner, Answer, CountKeys, InsertKey, RevokeKey,
         SetAvatar, RemoveAvatar
    <3> QED
      BY <1>1, <3>1, <3>2, <3>3
  <2> QED
    BY <2>1, <2>2
<1>5. ASSUME NEW r \in Request,
             \/ Upload(r) \/ Put(r) \/ InsertMedia(r) \/ DeleteRow(r) \/ RemoveObject(r) \/ ReadAvatar(r)
             \/ UpdateAvatar(r) \/ SoftDelete(r) \/ Purge(r)
             \/ (\E u \in User : ReadTarget(r, u)) \/ (\E n \in Name : FindMedia(r, n))
      PROVE  permits' + Cardinality(Q) + detached' = MaxProcessing
  <2>1. UNCHANGED processing /\ pc[r] # "process" /\ \E label \in PCs \ {"process", "insert_key"} : \E l : Goto(r, label, l)
    BY <1>5, Elsewhere
  <2> QED
    BY <1>1, <2>1
<1>6. ASSUME NEW r \in Request, Processed(r) PROVE permits' + Cardinality(Q) + detached' = MaxProcessing
  <2>1. permits' = permits + 1 /\ detached' = detached /\ pc[r] = "process"
    BY <1>6 DEF Processed
  <2>2. \E label \in {"put", "idle"} : \E l : Goto(r, label, l)
    BY <1>6 DEF Processed, NewObject, Done
  <2>3. Cardinality(Q) = Cardinality(P) - 1
    BY <1>2, <2>1, <2>2
  <2> QED
    BY <1>i, <1>t, <2>1, <2>3
<1>7. ASSUME NEW r \in Request, Drop(r) PROVE permits' + Cardinality(Q) + detached' = MaxProcessing
  <2>1. Goto(r, "idle", NoLoc) /\ permits' = permits
    BY <1>7 DEF Drop, Done
  <2>2. CASE pc[r] = "process"
    <3>1. detached' = detached + 1
      BY <1>7, <2>2 DEF Drop
    <3>2. Cardinality(Q) = Cardinality(P) - 1
      BY <1>2, <2>1, <2>2
    <3> QED
      BY <1>i, <1>t, <2>1, <3>1, <3>2
  <2>3. CASE pc[r] # "process"
    <3>1. UNCHANGED processing
      BY <1>7, <2>3 DEF Drop, processing
    <3> QED
      BY <1>1, <2>1, <2>3, <3>1
  <2> QED
    BY <2>2, <2>3
<1>8. CASE ProcessedForNobody
  <2>1. detached > 0 /\ permits' = permits + 1 /\ detached' = detached - 1 /\ pc' = pc
    BY <1>8 DEF ProcessedForNobody
  <2>2. Q = P
    BY <2>1 DEF P, Q
  <2> QED
    BY <1>i, <1>t, <2>1, <2>2
<1>9. CASE UNCHANGED vars
  BY <1>9, <1>i DEF vars, processing, P, Q
<1> QED
  BY <1>4, <1>5, <1>6, <1>7, <1>8, <1>9 DEF Next, Harmless

\* The requests that have counted an account's keys and not yet inserted theirs.
Inserting(u) == {r \in Request : pc[r] = "insert_key" /\ loc[r].user = {u}}

LEMMA KeyStep ==
  ASSUME TypeOK, ShapeInv, KeysAreBounded, [Next]_vars
  PROVE  KeysAreBounded'
<1> SUFFICES ASSUME NEW u \in User
             PROVE  Cardinality(LiveKeys(u)') + Cardinality(Inserting(u)') <= MaxKeys - 1 + Cardinality(Request)
  BY DEF KeysAreBounded, Inserting
<1> DEFINE L == LiveKeys(u)
           I == Inserting(u)
           N == LiveKeys(u)'
           J == Inserting(u)'
<1>f. /\ \A S \in SUBSET Key : IsFiniteSet(S) /\ Cardinality(S) \in Nat
      /\ \A S \in SUBSET Request : IsFiniteSet(S) /\ Cardinality(S) \in Nat /\ Cardinality(S) <= Cardinality(Request)
  BY ConstantsAssumption, FS_Subset, FS_CardinalityType
<1>s. L \in SUBSET Key /\ N \in SUBSET Key /\ I \in SUBSET Request /\ J \in SUBSET Request
  BY DEF LiveKeys, Inserting
<1>c. /\ IsFiniteSet(L) /\ IsFiniteSet(N) /\ IsFiniteSet(I) /\ IsFiniteSet(J)
      /\ Cardinality(L) \in Nat /\ Cardinality(N) \in Nat /\ Cardinality(I) \in Nat /\ Cardinality(J) \in Nat
      /\ Cardinality(J) <= Cardinality(Request) /\ Cardinality(Request) \in Nat /\ MaxKeys \in Nat
  BY <1>f, <1>s, ConstantsAssumption, FS_CardinalityType
<1>i. Cardinality(L) + Cardinality(I) <= MaxKeys - 1 + Cardinality(Request)
  BY DEF KeysAreBounded, Inserting
<1>m. ASSUME N \subseteq L, J \subseteq I
      PROVE  Cardinality(N) + Cardinality(J) <= MaxKeys - 1 + Cardinality(Request)
  <2>1. Cardinality(N) <= Cardinality(L) /\ Cardinality(J) <= Cardinality(I)
    BY <1>c, <1>m, FS_Subset
  <2> QED
    BY <1>c, <1>i, <2>1
\* Nobody begins to insert a key.
<1>g. ASSUME NEW r \in Request, NEW label, NEW l, Goto(r, label, l), label # "insert_key" PROVE J \subseteq I
  BY <1>g, Steered DEF Inserting
<1>k. ASSUME UNCHANGED apiKeys PROVE N \subseteq L
  BY <1>k DEF apiKeys, LiveKeys
<1> HIDE DEF L, I, N, J
<1> SUFFICES Cardinality(N) + Cardinality(J) <= MaxKeys - 1 + Cardinality(Request)
  BY DEF N, J
<1>1. ASSUME NEW r \in Request, CountKeys(r)
      PROVE  Cardinality(N) + Cardinality(J) <= MaxKeys - 1 + Cardinality(Request)
  <2>1. Goto(r, "insert_key", loc[r]) /\ UNCHANGED apiKeys /\ \A v \in loc[r].user : UnderKeyLimit(v)
    BY <1>1 DEF CountKeys
  <2>2. N \subseteq L
    BY <1>k, <2>1
  <2>3. CASE loc[r].user = {u}
    <3>1. Cardinality(L) < MaxKeys /\ Cardinality(N) <= Cardinality(L)
      BY <1>c, <2>1, <2>2, <2>3, FS_Subset DEF UnderKeyLimit, L
    <3> QED
      BY <1>c, <3>1
  <2>4. CASE loc[r].user # {u}
    <3>1. J \subseteq I
      BY <2>1, <2>4, Steered DEF J, I, Inserting
    <3> QED
      BY <1>m, <2>2, <3>1
  <2> QED
    BY <2>3, <2>4
<1>2. ASSUME NEW r \in Request, InsertKey(r)
      PROVE  Cardinality(N) + Cardinality(J) <= MaxKeys - 1 + Cardinality(Request)
  <2>1. PICK k \in Key : keyOwner[k] = {} /\ keyOwner' = [keyOwner EXCEPT ![k] = loc[r].user]
    BY <1>2 DEF InsertKey
  <2>2. Goto(r, "idle", NoLoc) /\ revoked' = revoked /\ pc[r] = "insert_key"
    BY <1>2 DEF InsertKey, Done
  <2>3. keyOwner'[k] = loc[r].user /\ \A j \in Key : j # k => keyOwner'[j] = keyOwner[j]
    BY <2>1 DEF TypeOK
  <2>4. CASE loc[r].user # {u}
    <3>1. N \subseteq L
      BY <2>2, <2>3, <2>4 DEF N, L, LiveKeys
    <3> QED
      BY <1>g, <1>m, <2>2, <3>1
  <2>5. CASE loc[r].user = {u}
    <3>1. N \subseteq L \cup {k} /\ k \notin L
      BY <2>1, <2>2, <2>3 DEF N, L, LiveKeys
    <3>2. IsFiniteSet(L \cup {k}) /\ Cardinality(L \cup {k}) = Cardinality(L) + 1
      BY <1>c, <3>1, FS_AddElement
    <3>3. Cardinality(N) <= Cardinality(L) + 1
      BY <3>1, <3>2, FS_Subset
    <3>4. J = I \ {r} /\ r \in I
      BY <2>2, <2>5, Steered DEF J, I, Inserting
    <3>5. Cardinality(J) = Cardinality(I) - 1
      BY <1>c, <3>4, FS_RemoveElement
    <3> QED
      BY <1>c, <1>i, <3>3, <3>5
  <2> QED
    BY <2>4, <2>5
<1>3. ASSUME NEW r \in Request, RevokeKey(r)
      PROVE  Cardinality(N) + Cardinality(J) <= MaxKeys - 1 + Cardinality(Request)
  <2>1. Goto(r, "idle", NoLoc) /\ keyOwner' = keyOwner /\ revoked \subseteq revoked'
    BY <1>3 DEF RevokeKey, Done
  <2>2. N \subseteq L
    BY <2>1 DEF N, L, LiveKeys
  <2> QED
    BY <1>g, <1>m, <2>1, <2>2
<1>4. ASSUME NEW r \in Request, Harmless(r), ~CountKeys(r), ~InsertKey(r), ~RevokeKey(r)
      PROVE  Cardinality(N) + Cardinality(J) <= MaxKeys - 1 + Cardinality(Request)
  <2>1. UNCHANGED apiKeys
    BY <1>4 DEF Harmless, AcceptSession, FindKey, KeyOwner, Answer, SetAvatar, Acquire, RemoveAvatar
  <2>2. PICK label \in PCs, l \in LocType : Goto(r, label, l) /\ label # "insert_key"
    BY <1>4, HarmlessMove
  <2> QED
    BY <1>g, <1>k, <1>m, <2>1, <2>2
<1>5. ASSUME NEW r \in Request,
             \/ Upload(r) \/ Put(r) \/ InsertMedia(r) \/ DeleteRow(r) \/ RemoveObject(r) \/ ReadAvatar(r)
             \/ UpdateAvatar(r) \/ SoftDelete(r) \/ Purge(r)
             \/ (\E v \in User : ReadTarget(r, v)) \/ (\E n \in Name : FindMedia(r, n))
      PROVE  Cardinality(N) + Cardinality(J) <= MaxKeys - 1 + Cardinality(Request)
  <2>1. UNCHANGED apiKeys /\ \E label \in PCs \ {"process", "insert_key"} : \E l : Goto(r, label, l)
    BY <1>5, Elsewhere
  <2> QED
    BY <1>g, <1>k, <1>m, <2>1
<1>6. ASSUME NEW r \in Request, Processed(r) \/ Drop(r)
      PROVE  Cardinality(N) + Cardinality(J) <= MaxKeys - 1 + Cardinality(Request)
  <2>1. UNCHANGED apiKeys /\ \E label \in {"put", "idle"} : \E l : Goto(r, label, l)
    BY <1>6 DEF Processed, NewObject, Drop, Done
  <2> QED
    BY <1>g, <1>k, <1>m, <2>1
<1>7. CASE ProcessedForNobody \/ UNCHANGED vars
  <2>1. UNCHANGED apiKeys /\ pc' = pc /\ loc' = loc
    BY <1>7 DEF ProcessedForNobody, vars
  <2>2. J \subseteq I
    BY <2>1 DEF J, I, Inserting
  <2> QED
    BY <1>k, <1>m, <2>1, <2>2
<1> QED
  BY <1>1, <1>2, <1>3, <1>4, <1>5, <1>6, <1>7 DEF Next, Harmless

-----------------------------------------------------------------------------
(* The theorems *)

HoldingsInv == FileInv /\ LeakInv /\ ProcessingInv /\ KeysAreBounded

LEMMA Invariance == Spec => []HoldingsInv
<1>1. Init => HoldingsInv
  <2> SUFFICES ASSUME Init PROVE ProcessingInv /\ KeysAreBounded
    BY FilesInit DEF HoldingsInv
  <2>1. {r \in Request : pc[r] = "process"} = {} /\ permits = MaxProcessing /\ detached = 0
    BY DEF Init
  <2>2. ProcessingInv
    BY <2>1, FS_EmptySet, ConstantsAssumption DEF ProcessingInv
  <2>3. ASSUME NEW u \in User
        PROVE  LiveKeys(u) = {} /\ {r \in Request : pc[r] = "insert_key" /\ loc[r].user = {u}} = {}
    BY DEF Init, LiveKeys
  <2>4. KeysAreBounded
    <3>1. Cardinality({}) = 0 /\ Cardinality(Request) \in Nat /\ MaxKeys \in Nat \ {0}
      BY FS_EmptySet, FS_CardinalityType, ConstantsAssumption
    <3>2. ASSUME NEW u \in User
          PROVE  Cardinality(LiveKeys(u))
                   + Cardinality({r \in Request : pc[r] = "insert_key" /\ loc[r].user = {u}})
                 <= MaxKeys - 1 + Cardinality(Request)
      <4>1. /\ Cardinality(LiveKeys(u)) = 0
            /\ Cardinality({r \in Request : pc[r] = "insert_key" /\ loc[r].user = {u}}) = 0
        BY <2>3, <3>1
      <4> QED
        BY <3>1, <4>1
    <3> QED
      BY <3>2 DEF KeysAreBounded
  <2> QED
    BY <2>2, <2>4
<1>2. HoldingsInv /\ [Next]_vars => HoldingsInv'
  <2> SUFFICES ASSUME HoldingsInv, [Next]_vars PROVE HoldingsInv'
    OBVIOUS
  <2>1. TypeOK /\ ShapeInv /\ FileInv /\ LeakInv /\ ProcessingInv /\ KeysAreBounded
    BY DEF HoldingsInv, FileInv
  <2> QED
    BY <2>1, FilesStep, ProcessingStep, KeyStep DEF HoldingsInv
<1> QED
  BY <1>1, <1>2, PTL DEF Spec

\* Rows, store, keys and locals keep their types (modules/media, avatars, api_keys).
THEOREM TypeCorrect == Spec => []TypeOK
<1>1. HoldingsInv => TypeOK
  BY DEF HoldingsInv, FileInv
<1> QED
  BY <1>1, Invariance, PTL

\* However many requests upload, replace, remove, fail and are dropped at once, a media row and
\* the photo of a live account have their object (media and avatar services).
THEOREM FilesAreThere == Spec => []RowsHaveFiles
<1>1. HoldingsInv => RowsHaveFiles
  <2> SUFFICES ASSUME HoldingsInv PROVE RowsHaveFiles
    OBVIOUS
  <2>1. MediaInv /\ AvatarInv
    BY DEF HoldingsInv, FileInv
  <2> QED
    BY <2>1 DEF MediaInv, AvatarInv, RowsHaveFiles
<1> QED
  BY <1>1, Invariance, PTL

\* Nothing but the two races, and calls that fail, leaves an object in the store to nobody
\* (delete_all_for_user, set_avatar_key).
THEOREM LeaksAreRaces == Spec => []OnlyRacesLeak
<1>1. HoldingsInv => OnlyRacesLeak
  <2> SUFFICES ASSUME HoldingsInv, faults = 0, \A r \in Request : pc[r] = "idle", NEW n \in store
               PROVE  (\E u \in User : Live(u) /\ (media[n] = {u} \/ avatar[u] = {n})) \/ n \in lost
    BY DEF OnlyRacesLeak
  <2>1. TypeOK /\ Covered(n)
    BY DEF HoldingsInv, FileInv, LeakInv
  <2>2. \A r \in Request : Private(r) = {} /\ Condemned(r) = {} /\ Purging(r) = {}
    BY DEF Private, Condemned, Purging, PrivateAt, CondemnedAt, PurgingAt
  <2>3. \A u \in User : n \in avatar[u] => avatar[u] = {n}
    BY <2>1 DEF TypeOK, NameOption
  <2> QED
    BY <2>1, <2>2, <2>3 DEF Covered
<1> QED
  BY <1>1, Invariance, PTL

\* For any number of permits and of dropped requests, no more images are processed than there
\* are permits (process_image).
THEOREM PermitsBoundProcessing == Spec => []ProcessingIsBounded
<1>1. HoldingsInv => ProcessingIsBounded
  <2> SUFFICES ASSUME HoldingsInv PROVE ProcessingIsBounded
    OBVIOUS
  <2> DEFINE n == Cardinality({r \in Request : pc[r] = "process"})
  <2>1. permits + n + detached = MaxProcessing /\ permits \in Nat /\ detached \in Nat
    BY DEF HoldingsInv, FileInv, TypeOK, ProcessingInv
  <2>2. n \in Nat
    <3>1. IsFiniteSet({r \in Request : pc[r] = "process"})
      BY ConstantsAssumption, FS_Subset
    <3> QED
      BY <3>1, FS_CardinalityType
  <2>3. ProcessingIsBounded <=> n + detached <= MaxProcessing
    BY DEF ProcessingIsBounded
  <2> HIDE DEF n
  <2> QED
    BY <2>1, <2>2, <2>3, ConstantsAssumption
<1> QED
  BY <1>1, Invariance, PTL

\* However the counts and the inserts of several requests interleave, an account has fewer
\* active keys above the limit than there are requests at once (create).
THEOREM KeyLimitHolds == Spec => []KeysAreBounded
<1>1. HoldingsInv => KeysAreBounded
  BY DEF HoldingsInv
<1> QED
  BY <1>1, Invariance, PTL

=============================================================================
