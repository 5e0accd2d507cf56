-------------------------- MODULE EntityStoreProofs --------------------------
(***************************************************************************)
(* Generated entities, for any number of clients, requests, documents and  *)
(* faults, and every declaration.  The inductive invariant comes in three  *)
(* parts, each proved with the ones before it: StoreInv, what requests     *)
(* hold and documents record; FreshInv, the identifiers of the sequence    *)
(* that are not stored yet; and VersionInv, the versions that somebody has *)
(* read or is about to store.  Last come the children of a parent.         *)
(***************************************************************************)
EXTENDS EntityStore, Children, FiniteSetTheorems, TLAPS

(***************************************************************************)
(* What requests hold: inputs until they are parsed, then objects.         *)
(***************************************************************************)
InputType == [val : Val \cup {Null, Keep}, ver : Int \cup {Keep}, id : 0..MaxEntityId, seen : Nat]
ObjectType == [val : Val \cup {Null}, ver : Int, hist : Seq(Val), deleted : BOOLEAN,
               given : BOOLEAN, id : EntityId, dirty : BOOLEAN, base : Nat, seen : Nat]
Document == [val : Val \cup {Null}, ver : Int, hist : Seq(Val), deleted : BOOLEAN,
             given : BOOLEAN, stamp : Nat, rev : Nat]
CallType == [pc : {"idle", "load", "parse", "get", "next", "save", "insert", "remove"},
             op : {"none", "Set", "New", "BulkSet", "Delete"},
             todo : Seq(InputType) \cup Seq(ObjectType), obj : ObjectType,
             got : Nat, warned : BOOLEAN, from : Int, dropped : BOOLEAN]

(* A request has an input. *)
Parsing(cl) == cl.pc = "parse" \/ (cl.op = "Set" /\ cl.pc = "load")

CallOK(cl) ==
  /\ cl \in CallType
  /\ \/ cl.op = "none" /\ cl.pc = "idle"
     \/ cl.op = "Set" /\ cl.pc \in {"load", "get", "next", "save"}
     \/ cl.op = "New" /\ cl.pc \in {"parse", "next", "insert"}
     \/ cl.op = "BulkSet" /\ cl.pc \in {"parse", "get", "next", "save"}
     \/ cl.op = "Delete" /\ cl.pc \in {"load", "get", "next", "save", "remove"}
  /\ Parsing(cl) => cl.todo \in Seq(InputType)
  /\ ~Parsing(cl) => cl.todo \in Seq(ObjectType)
  /\ cl.op = "Set" /\ cl.pc = "load" => Len(cl.todo) = 1 /\ cl.todo[1].id \in EntityId
  /\ cl.op = "Delete" \/ (cl.op = "Set" /\ cl.pc # "load") => cl.todo = <<>>
  /\ cl.pc = "parse" => \A k \in 1..Len(cl.todo) : cl.todo[k].ver = Keep

(* The numbers of the sequences, and those that they have given twice.     *)
NumbersTyped ==
  /\ idSeq \in EntityId /\ idTwice \subseteq 1..idSeq
  /\ verSeq \in Nat /\ verTwice \subseteq {-1} \cup 1..verSeq

TypesOK ==
  /\ setting \in Settings
  /\ collection \in [EntityId -> Document \cup {NoDoc}]
  /\ NumbersTyped /\ writes \in Nat
  /\ known \in [Client -> [ver : Int, stamp : Nat, id : 0..MaxEntityId]]
  /\ call \in [Client -> CallType]

There(i) == collection[i] # NoDoc

-----------------------------------------------------------------------------
(* The history of a document, and of an object that is to be saved.  What  *)
(* is said of a request takes the state it depends on as parameters: the   *)
(* documents col, the number of writes w, the declaration s.               *)
NoRepeat(h) == \A k \in 1..(Len(h) - 1) : h[k] # h[k + 1]
Recordable(o) ==
  /\ NoRepeat(o.hist)
  /\ o.hist # <<>> /\ ~o.dirty => o.val \in {Last(o.hist), Null}
  /\ o.dirty => o.val # Null

(* A new object, but for its identifier, value and version.                *)
Raw(o) == o.hist = <<>> /\ ~o.deleted /\ o.base = 0 /\ o.seen = 0

ObjectOK(o, w, s) == Recordable(o) /\ o.base <= w /\ o.seen <= w /\ (o.deleted => s.method = "update")

ObjectsOK(cl, w, s) ==
  /\ ObjectOK(cl.obj, w, s) /\ cl.got <= w
  /\ ~Parsing(cl) => \A k \in 1..Len(cl.todo) : ObjectOK(cl.todo[k], w, s) /\ Raw(cl.todo[k]) /\ cl.todo[k].ver = 0
  /\ Parsing(cl) => \A k \in 1..Len(cl.todo) : cl.todo[k].seen <= w
  /\ cl.op \in {"New", "BulkSet"} /\ cl.pc # "parse" =>
       Raw(cl.obj) /\ (cl.pc \in {"get", "next"} => cl.obj.ver = 0)

DocumentsOK ==
  \A i \in EntityId : There(i) =>
    LET d == collection[i]
    IN  /\ d.stamp \in 1..writes /\ d.rev \in 1..writes
        /\ d.deleted => setting.method = "update"
        /\ NoRepeat(d.hist) /\ (d.hist # <<>> => d.val \in {Last(d.hist), Null})

(* An object that was loaded at the document's last write has its history  *)
(* and its mark.                                                           *)
UpToDate(cl, col, s) ==
  cl.pc \in {"get", "next", "save"} /\ col[cl.obj.id] # NoDoc /\ cl.obj.base = col[cl.obj.id].rev =>
    /\ cl.obj.hist = col[cl.obj.id].hist
    /\ s.field => (cl.obj.deleted <=> col[cl.obj.id].deleted)

(* What Set has found stays, where documents are only marked.              *)
Stays(cl, col, s) ==
  cl.op # "New" /\ cl.pc \in {"next", "save"} => col[cl.obj.id] # NoDoc \/ s.method = "delete"

(* All of this, of a request.                                              *)
Fine(cl, col, w, s) == CallOK(cl) /\ ObjectsOK(cl, w, s) /\ UpToDate(cl, col, s) /\ Stays(cl, col, s)

StoreInv ==
  /\ TypesOK /\ DocumentsOK
  /\ \A c \in Client : Fine(call[c], collection, writes, setting) /\ known[c].stamp <= writes

-----------------------------------------------------------------------------
(* Identifiers of the sequence, given once (tw are the others), that are   *)
(* not stored yet: of the object a New is about, 0, and of those that it   *)
(* has still to do.                                                        *)
Creates(cl) == cl.op = "New" /\ cl.pc # "parse"
Nth(cl, k) == IF k = 0 THEN cl.obj ELSE cl.todo[k]
Fresh(cl, tw, k) == Creates(cl) /\ k \in 0..Len(cl.todo) /\ ~Nth(cl, k).given /\ Nth(cl, k).id \notin tw

FreshInv ==
  /\ \A i \in EntityId : There(i) /\ ~collection[i].given => i <= idSeq
  /\ \A c \in Client, k \in Nat : Fresh(call[c], idTwice, k) =>
       LET i == Nth(call[c], k).id
       IN  i <= idSeq /\ (There(i) => collection[i].given)
  /\ \A c, d \in Client : \A k, l \in Nat :
       Fresh(call[c], idTwice, k) /\ Fresh(call[d], idTwice, l) /\ Nth(call[c], k).id = Nth(call[d], l).id => c = d /\ k = l

-----------------------------------------------------------------------------
(* Versions that somebody has read, each with the stamp of its document    *)
(* (or 0 and 0, of no document), versions that are to be stored, and those *)
(* that a Delete has read.                                                 *)
Reads(cl, kn, v, s) ==
  \/ v = kn.ver /\ s = kn.stamp
  \/ cl.op = "Set" /\ cl.pc = "load" /\ cl.todo[1].ver # Keep /\ v = cl.todo[1].ver /\ s = cl.todo[1].seen
  \/ cl.pc \in {"get", "next"} /\ v = cl.obj.ver /\ s = cl.obj.seen
Pends(cl, tw, v) == cl.pc \in {"save", "insert"} /\ v = cl.obj.ver /\ v \notin tw
DeleteReads(cl, v) == cl.op = "Delete" /\ cl.pc # "load" /\ v = cl.from

(* A stamp stands for one document and one version.                        *)
StampsOK ==
  /\ \A i, j \in EntityId : There(i) /\ There(j) /\ collection[i].stamp = collection[j].stamp => i = j
  /\ \A c \in Client, v \in Int, s \in Nat : Reads(call[c], known[c], v, s) =>
       s <= writes /\ \A i \in EntityId : There(i) /\ collection[i].stamp = s => collection[i].ver = v

(* What Set is about to save is newer than what its user has seen.         *)
NewerThanSeen(cl, col, s, tw) ==
  /\ cl.pc = "next" => s.scope = "type"
  /\ cl.pc = "save" /\ col[cl.obj.id] # NoDoc /\ col[cl.obj.id].stamp = cl.obj.seen =>
       \/ s.scope = "none"
       \/ cl.obj.ver > col[cl.obj.id].ver
       \/ s.scope = "type" /\ cl.obj.ver \in tw

(* With versions of the type a version stands for one document and stamp,  *)
(* too, and one that is to be stored has not been seen by anybody.         *)
NumbersOK ==
  /\ \A i \in EntityId : There(i) => collection[i].ver \in verTwice \/ collection[i].ver \in 1..verSeq
  /\ \A i, j \in EntityId :
       There(i) /\ There(j) /\ collection[i].ver = collection[j].ver /\ collection[i].ver \notin verTwice => i = j
  /\ \A c \in Client, v \in Int, s \in Nat : Reads(call[c], known[c], v, s) =>
       v <= verSeq /\ \A i \in EntityId : There(i) /\ collection[i].ver = v /\ v \notin verTwice => collection[i].stamp = s
  /\ \A c \in Client, v \in Int : Pends(call[c], verTwice, v) =>
       /\ v \in 1..verSeq
       /\ \A i \in EntityId : There(i) => collection[i].ver # v
       /\ \A d \in Client : ~DeleteReads(call[d], v) /\ \A s \in Nat : ~Reads(call[d], known[d], v, s)
       /\ \A d \in Client : Pends(call[d], verTwice, v) => c = d
  /\ \A c \in Client, v \in Int : DeleteReads(call[c], v) => v <= verSeq

(* A document that was replaced with no warning is the one the user saw.   *)
Warned(cl, col, tw) ==
  cl.op # "New" /\ cl.pc \in {"next", "save"} /\ ~cl.warned /\ col[cl.obj.id] # NoDoc
    /\ col[cl.obj.id].stamp = cl.got =>
      col[cl.obj.id].stamp = cl.obj.seen \/ col[cl.obj.id].ver \in tw

(* Delete's Set has given the document another version.                    *)
Moved(cl, col, s, tw) ==
  cl.pc = "remove" /\ s.field /\ ~cl.dropped /\ col[cl.obj.id] # NoDoc =>
    col[cl.obj.id].ver # cl.from \/ cl.from \in tw

VersionsOK(cl, col, s, tw) ==
  NewerThanSeen(cl, col, s, tw) /\ (s.scope = "type" => Warned(cl, col, tw) /\ Moved(cl, col, s, tw))

VersionInv ==
  /\ StampsOK /\ (setting.scope = "type" => NumbersOK)
  /\ \A c \in Client : VersionsOK(call[c], collection, setting, verTwice)

-----------------------------------------------------------------------------
(* What a declaration decides.                                             *)
LEMMA SettingFacts ==
  ASSUME setting \in Settings
  PROVE  /\ setting.method \in {"update", "delete"} /\ setting.field \in BOOLEAN
         /\ setting.scope \in {"none", "object", "type"}
BY SettingAssumption DEF SettingType

(* A record with an object's fields, as the model makes them.              *)
LEMMA InitObjectIs ==
  ASSUME NEW i \in EntityId, NEW given \in BOOLEAN
  PROVE  /\ InitObject(i, given) \in ObjectType
         /\ InitObject(i, given) = [val |-> Null, ver |-> 0, hist |-> <<>>, deleted |-> FALSE,
                                    given |-> given, id |-> i, dirty |-> FALSE, base |-> 0, seen |-> 0]
BY DEF InitObject, Object, Blank, ObjectType

(* The object of a request that has none.                                  *)
LEMMA NoObjectIs ==
  /\ NoObject \in ObjectType /\ Raw(NoObject) /\ Recordable(NoObject)
  /\ NoObject.id = 1 /\ NoObject.ver = 0 /\ ~NoObject.dirty /\ 1 \in EntityId
<1>1. 1 \in EntityId
  BY EntityBoundAssumption DEF EntityId
<1> QED
  <2>1. /\ NoObject \in ObjectType
        /\ NoObject = [val |-> Null, ver |-> 0, hist |-> <<>>, deleted |-> FALSE,
                       given |-> FALSE, id |-> 1, dirty |-> FALSE, base |-> 0, seen |-> 0]
    BY <1>1, InitObjectIs DEF NoObject
  <2> QED
    BY <1>1, <2>1 DEF Raw, Recordable, NoRepeat

(* The fields of a document.                                               *)
LEMMA DocumentIs ==
  ASSUME TypesOK, NEW i \in EntityId, There(i)
  PROVE  collection[i] \in Document
BY DEF TypesOK, There

(* An object that was loaded is its document, as far as it is stored.      *)
LEMMA LoadObjectIs ==
  ASSUME TypesOK, DocumentsOK, NEW i \in EntityId, There(i)
  PROVE  LET o == LoadObject(i)  d == collection[i]
         IN  /\ o \in ObjectType /\ o.id = i /\ o.val = d.val /\ o.ver = d.ver /\ o.hist = d.hist
             /\ ~o.dirty /\ o.base = d.rev /\ o.seen = d.stamp
             /\ o.deleted <=> d.deleted /\ setting.field
             /\ ObjectOK(o, writes, setting)
<1> DEFINE o == LoadObject(i)
           d == collection[i]
           b == Object(i, d.given, d)
<1>1. d \in Document
  BY DocumentIs
<1>2. b \in ObjectType /\ b.id = i /\ b.val = d.val /\ b.ver = d.ver /\ b.hist = d.hist
      /\ ~b.dirty /\ b.base = d.rev /\ b.seen = d.stamp
  BY <1>1 DEF Object, ObjectType, Document
<1> HIDE DEF b
<1>3. o = [b EXCEPT !.deleted = d.deleted /\ setting.field]
  BY DEF LoadObject, b
<1>4. /\ o \in ObjectType /\ o.id = i /\ o.val = d.val /\ o.ver = d.ver /\ o.hist = d.hist
      /\ ~o.dirty /\ o.base = d.rev /\ o.seen = d.stamp
      /\ o.deleted <=> d.deleted /\ setting.field
  <2> HIDE DEF o
  <2> QED
    BY <1>2, <1>3 DEF ObjectType
<1> HIDE DEF o
<1>5. ObjectOK(o, writes, setting)
  BY <1>1, <1>4 DEF ObjectOK, Recordable, DocumentsOK, Document, TypesOK
<1> QED
  BY <1>4, <1>5 DEF o

(* The parser changes the value, the version and what goes with it.        *)
LEMMA ParsedIs ==
  ASSUME NEW o \in ObjectType, NEW inp \in InputType, ~o.dirty, Recordable(o)
  PROVE  LET p == Parsed(o, inp)
         IN  /\ p \in ObjectType /\ Recordable(p)
             /\ p.id = o.id /\ p.given = o.given /\ p.hist = o.hist /\ p.deleted = o.deleted /\ p.base = o.base
             /\ inp.ver = Keep => p.ver = o.ver /\ p.seen = o.seen
             /\ inp.ver # Keep => p.ver = inp.ver /\ p.seen = inp.seen
<1> DEFINE w == WithValue(o, inp.val)
           p == Parsed(o, inp)
<1>1. /\ w \in ObjectType /\ Recordable(w)
      /\ w.id = o.id /\ w.given = o.given /\ w.hist = o.hist /\ w.deleted = o.deleted /\ w.base = o.base
      /\ w.ver = o.ver /\ w.seen = o.seen
  <2>1. CASE inp.val = Keep
    BY <2>1 DEF WithValue
  <2>2. CASE inp.val # Keep
    <3>1. inp.val \in Val \cup {Null}
      BY <2>2 DEF InputType
    <3>2. w = [o EXCEPT !.val = inp.val, !.dirty = @ \/ (inp.val # Null /\ inp.val # o.val)]
      BY <2>2 DEF WithValue
    <3>3. w \in ObjectType
      BY <3>1, <3>2 DEF ObjectType
    <3>4. /\ w.id = o.id /\ w.given = o.given /\ w.hist = o.hist /\ w.deleted = o.deleted /\ w.base = o.base
          /\ w.ver = o.ver /\ w.seen = o.seen /\ w.val = inp.val
      BY <3>2 DEF ObjectType
    <3>5. w.dirty <=> (inp.val # Null /\ inp.val # o.val)
      BY <3>2 DEF ObjectType
    <3> QED
      BY <3>3, <3>4, <3>5 DEF Recordable
  <2> QED
    BY <2>1, <2>2
<1> HIDE DEF w
<1>2. CASE inp.ver = Keep
  BY <1>1, <1>2 DEF Parsed, w
<1>3. CASE inp.ver # Keep
  <2>1. inp.ver \in Int /\ inp.seen \in Nat
    BY <1>3 DEF InputType
  <2>2. p = [w EXCEPT !.ver = inp.ver, !.seen = inp.seen]
    BY <1>3 DEF Parsed, w
  <2>3. p \in ObjectType /\ p.val = w.val /\ p.hist = w.hist /\ p.dirty = w.dirty
        /\ p.id = w.id /\ p.given = w.given /\ p.deleted = w.deleted /\ p.base = w.base
        /\ p.ver = inp.ver /\ p.seen = inp.seen
    BY <1>1, <2>1, <2>2 DEF ObjectType
  <2> QED
    BY <1>1, <1>3, <2>3 DEF Recordable
<1> QED
  BY <1>2, <1>3

-----------------------------------------------------------------------------
(* What becomes of a request.                                              *)
SameButVersion(p, o) ==
  /\ p.val = o.val /\ p.hist = o.hist /\ p.deleted = o.deleted /\ p.given = o.given
  /\ p.id = o.id /\ p.dirty = o.dirty /\ p.base = o.base /\ p.seen = o.seen

(* The fields of a client that asks for nothing.                           *)
LEMMA IdleIs ==
  /\ Idle \in CallType /\ CallOK(Idle)
  /\ Idle.pc = "idle" /\ Idle.op = "none" /\ Idle.todo = <<>> /\ Idle.obj = NoObject
  /\ Idle.got = 0 /\ Idle.warned = FALSE /\ Idle.from = 0 /\ Idle.dropped = FALSE
<1>1. NoObject \in ObjectType
  BY NoObjectIs
<1> HIDE DEF NoObject
<1> QED
  BY <1>1 DEF Idle, CallType, CallOK, Parsing

(* What a request is once its object is to be stored.                      *)
LEMMA ToStoreIs ==
  ASSUME setting \in Settings, NEW cl \in CallType, NEW o \in ObjectType
  PROVE  LET r == ToStore(cl, o)
         IN  /\ r \in CallType /\ r.op = cl.op /\ r.todo = cl.todo /\ r.got = cl.got
             /\ r.warned = cl.warned /\ r.from = cl.from /\ r.dropped = cl.dropped
             /\ SameButVersion(r.obj, o)
             /\ r.pc = IF setting.scope = "type" THEN "next" ELSE Stores(cl)
             /\ r.obj.ver = IF setting.scope = "object" THEN o.ver + 1 ELSE o.ver
<1> DEFINE r == ToStore(cl, o)
<1>0. Stores(cl) \in {"insert", "save"}
  BY DEF Stores
<1>1. CASE setting.scope = "none"
  <2>1. r = [cl EXCEPT !.pc = Stores(cl), !.obj = o]
    BY <1>1 DEF ToStore
  <2> HIDE DEF r
  <2>2. r \in CallType
    BY <1>0, <2>1 DEF CallType
  <2> QED
    BY <1>1, <2>1, <2>2 DEF CallType, SameButVersion, r
<1>2. CASE setting.scope = "object"
  <2> DEFINE p == [o EXCEPT !.ver = @ + 1]
  <2>1. p \in ObjectType /\ SameButVersion(p, o) /\ p.ver = o.ver + 1
    BY DEF ObjectType, SameButVersion
  <2>2. r = [cl EXCEPT !.pc = Stores(cl), !.obj = p]
    BY <1>2 DEF ToStore
  <2> HIDE DEF r, p
  <2>3. r \in CallType /\ r.pc = Stores(cl) /\ r.obj = p
    BY <1>0, <2>1, <2>2 DEF CallType
  <2>4. /\ r.op = cl.op /\ r.todo = cl.todo /\ r.got = cl.got
        /\ r.warned = cl.warned /\ r.from = cl.from /\ r.dropped = cl.dropped
    BY <2>2 DEF CallType
  <2> QED
    BY <1>2, <2>1, <2>3, <2>4 DEF r
<1>3. CASE setting.scope = "type"
  <2>1. r = [cl EXCEPT !.pc = "next", !.obj = o]
    BY <1>3 DEF ToStore
  <2> HIDE DEF r
  <2>2. r \in CallType
    BY <2>1 DEF CallType
  <2> QED
    BY <1>3, <2>1, <2>2 DEF CallType, SameButVersion, r
<1> QED
  BY <1>1, <1>2, <1>3, SettingFacts

(* The next object, or the end of the request.                             *)
LEMMA ContinueIs ==
  ASSUME setting \in Settings, NEW cl \in CallType, cl.todo \in Seq(ObjectType)
  PROVE  LET r == Continue(cl)
         IN  \/ cl.todo = <<>> /\ r = Idle
             \/ /\ cl.todo # <<>> /\ Head(cl.todo) \in ObjectType /\ Tail(cl.todo) \in Seq(ObjectType)
                /\ r \in CallType /\ r.op = cl.op /\ r.todo = Tail(cl.todo) /\ r.got = 0
                /\ r.warned = FALSE /\ r.from = 0 /\ r.dropped = FALSE
                /\ SameButVersion(r.obj, Head(cl.todo))
                /\ cl.op = "New" => /\ r.pc = IF setting.scope = "type" THEN "next" ELSE "insert"
                                    /\ r.obj.ver = IF setting.scope = "object" THEN Head(cl.todo).ver + 1
                                                                                ELSE Head(cl.todo).ver
                /\ cl.op # "New" => r.pc = "get" /\ r.obj.ver = Head(cl.todo).ver
<1> DEFINE r == Continue(cl)
           rest == [Idle EXCEPT !.op = cl.op, !.todo = Tail(cl.todo)]
           o == Head(cl.todo)
<1>1. CASE cl.todo = <<>>
  BY <1>1 DEF Continue
<1>2. CASE cl.todo # <<>>
  <2>1. o \in ObjectType /\ Tail(cl.todo) \in Seq(ObjectType)
    BY <1>2
  <2>2. cl.op \in {"none", "Set", "New", "BulkSet", "Delete"}
    BY DEF CallType
  <2>3. /\ rest \in CallType /\ rest.op = cl.op /\ rest.todo = Tail(cl.todo) /\ rest.got = 0
        /\ rest.warned = FALSE /\ rest.from = 0 /\ rest.dropped = FALSE
    BY IdleIs, <2>1, <2>2 DEF CallType
  <2> HIDE DEF rest, o
  <2>4. CASE cl.op = "New"
    <3>1. r = ToStore(rest, o)
      BY <1>2, <2>4 DEF Continue, rest, o
    <3>2. Stores(rest) = "insert"
      BY <2>3, <2>4 DEF Stores
    <3> HIDE DEF r
    <3>3. /\ r \in CallType /\ r.op = cl.op /\ r.todo = Tail(cl.todo) /\ r.got = 0
          /\ r.warned = FALSE /\ r.from = 0 /\ r.dropped = FALSE
          /\ SameButVersion(r.obj, o)
          /\ r.pc = IF setting.scope = "type" THEN "next" ELSE "insert"
          /\ r.obj.ver = IF setting.scope = "object" THEN o.ver + 1 ELSE o.ver
      BY <2>1, <2>3, <3>1, <3>2, ToStoreIs
    <3> QED
      BY <1>2, <2>1, <2>4, <3>3 DEF r, o
  <2>5. CASE cl.op # "New"
    <3>1. r = [rest EXCEPT !.pc = "get", !.obj = o]
      BY <1>2, <2>5 DEF Continue, rest, o
    <3> HIDE DEF r
    <3>2. /\ r \in CallType /\ r.op = cl.op /\ r.todo = Tail(cl.todo) /\ r.got = 0
          /\ r.warned = FALSE /\ r.from = 0 /\ r.dropped = FALSE
          /\ r.pc = "get" /\ r.obj = o
      BY <2>1, <2>3, <3>1 DEF CallType
    <3> QED
      BY <1>2, <2>1, <2>5, <3>2 DEF r, o, SameButVersion
  <2> QED
    BY <2>4, <2>5
<1> QED
  BY <1>1, <1>2

(* A call that failed ends the request, or, within Delete's Set, leads on  *)
(* to the removal.                                                         *)
Drops(cl, r) ==
  /\ cl.op = "Delete" /\ cl.pc \in {"get", "next", "save"}
  /\ r \in CallType /\ r.pc = "remove" /\ r.dropped = TRUE
  /\ r.op = cl.op /\ r.todo = cl.todo /\ r.obj = cl.obj /\ r.got = cl.got
  /\ r.warned = cl.warned /\ r.from = cl.from

LEMMA CallFailedIs ==
  ASSUME NEW cl \in CallType
  PROVE  \/ CallFailed(cl) = Idle /\ (cl.op # "Delete" \/ cl.pc \notin {"get", "next", "save"})
         \/ Drops(cl, CallFailed(cl))
BY DEF CallFailed, Drops, CallType

(* After Set: the removal, in Delete, or the next object.                  *)
LEMMA SetDoneIs ==
  ASSUME NEW cl \in CallType, cl.op = "Delete"
  PROVE  LET r == SetDone(cl)
         IN  /\ r \in CallType /\ r.pc = "remove" /\ r.dropped = cl.dropped
             /\ r.op = cl.op /\ r.todo = cl.todo /\ r.obj = cl.obj /\ r.got = cl.got
             /\ r.warned = cl.warned /\ r.from = cl.from
BY DEF SetDone, CallType

-----------------------------------------------------------------------------
(* What is said of a request is still so after more writes.                *)
LEMMA ObjectsStayOK ==
  ASSUME NEW cl, CallOK(cl), NEW s, NEW w \in Nat, NEW v \in Nat, w <= v, ObjectsOK(cl, w, s)
  PROVE  ObjectsOK(cl, v, s)
<1>1. cl.got \in Nat /\ cl.obj \in ObjectType
  BY DEF CallOK, CallType
<1>2. \A o \in ObjectType : ObjectOK(o, w, s) => ObjectOK(o, v, s)
  BY DEF ObjectOK, ObjectType
<1>3. ~Parsing(cl) => \A k \in 1..Len(cl.todo) : cl.todo[k] \in ObjectType
  BY DEF CallOK
<1>4. Parsing(cl) => \A k \in 1..Len(cl.todo) : cl.todo[k].seen \in Nat
  <2>1. Parsing(cl) => \A k \in 1..Len(cl.todo) : cl.todo[k] \in InputType
    BY DEF CallOK
  <2>2. \A inp \in InputType : inp.seen \in Nat
    BY DEF InputType
  <2> QED
    BY <2>1, <2>2
<1>5. ObjectOK(cl.obj, v, s) /\ cl.got <= v
  BY <1>1, <1>2 DEF ObjectsOK
<1>6. ~Parsing(cl) => \A k \in 1..Len(cl.todo) : ObjectOK(cl.todo[k], v, s) /\ Raw(cl.todo[k]) /\ cl.todo[k].ver = 0
  BY <1>2, <1>3 DEF ObjectsOK
<1>7. Parsing(cl) => \A k \in 1..Len(cl.todo) : cl.todo[k].seen <= v
  BY <1>4 DEF ObjectsOK
<1> QED
  BY <1>5, <1>6, <1>7 DEF ObjectsOK

(* What is said of a request holds of each way on.                         *)
LEMMA IdleFine ==
  ASSUME NEW col, NEW w \in Nat, NEW s
  PROVE  Fine(Idle, col, w, s)
<1>1. Raw(Idle.obj) /\ Recordable(Idle.obj) /\ Idle.obj \in ObjectType
  BY IdleIs, NoObjectIs
<1> HIDE DEF Idle
<1>2. ObjectOK(Idle.obj, w, s)
  BY <1>1 DEF ObjectOK, Raw
<1>3. ObjectsOK(Idle, w, s)
  BY <1>2, IdleIs DEF ObjectsOK, Parsing
<1> QED
  BY <1>3, IdleIs DEF Fine, UpToDate, Stays

LEMMA RemoveFine ==
  ASSUME NEW cl, NEW col, NEW w \in Nat, NEW s, Fine(cl, col, w, s), cl.op = "Delete", cl.pc # "load",
         NEW r \in CallType, r.pc = "remove", r.op = cl.op, r.todo = cl.todo, r.obj = cl.obj, r.got = cl.got,
         NEW kol, NEW v \in Nat, w <= v
  PROVE  Fine(r, kol, v, s)
<1>1. CallOK(cl) /\ ObjectsOK(cl, v, s)
  BY ObjectsStayOK DEF Fine
<1>2. ~Parsing(cl) /\ ~Parsing(r)
  BY <1>1 DEF CallOK, Parsing
<1>3. CallOK(r)
  BY <1>1, <1>2 DEF CallOK
<1>4. ObjectsOK(r, v, s)
  BY <1>1, <1>2 DEF ObjectsOK
<1> QED
  BY <1>3, <1>4 DEF Fine, UpToDate, Stays

LEMMA FailedFine ==
  ASSUME NEW cl, NEW col, NEW w \in Nat, NEW s, Fine(cl, col, w, s), NEW kol, NEW v \in Nat, w <= v
  PROVE  Fine(CallFailed(cl), kol, v, s)
<1>1. cl \in CallType
  BY DEF Fine, CallOK
<1>2. CASE CallFailed(cl) = Idle
  BY <1>2, IdleFine
<1>3. CASE Drops(cl, CallFailed(cl))
  BY <1>3, RemoveFine DEF Drops
<1> QED
  BY <1>1, <1>2, <1>3, CallFailedIs

(* Objects that a bulk method has still to do.                             *)
NewObjects(q, w, s) ==
  /\ q \in Seq(ObjectType)
  /\ \A k \in 1..Len(q) : ObjectOK(q[k], w, s) /\ Raw(q[k]) /\ q[k].ver = 0

RevsOK(col) == \A i \in EntityId : col[i] # NoDoc => col[i].rev # 0

LEMMA ContinueFine ==
  ASSUME setting \in Settings, NEW cl \in CallType, NEW w \in Nat, NewObjects(cl.todo, w, setting),
         cl.op \in {"New", "BulkSet"} \/ cl.todo = <<>>, NEW col, RevsOK(col)
  PROVE  Fine(Continue(cl), col, w, setting)
<1> DEFINE r == Continue(cl)
           o == Head(cl.todo)
<1>1. CASE r = Idle
  BY <1>1, IdleFine
<1>2. CASE cl.todo # <<>>
  <2>1. cl.todo \in Seq(ObjectType)
    BY DEF NewObjects
  <2>2. o = cl.todo[1] /\ 1 \in 1..Len(cl.todo)
    BY <1>2, <2>1
  <2>3. ObjectOK(o, w, setting) /\ Raw(o) /\ o.ver = 0 /\ o \in ObjectType
    BY <2>1, <2>2 DEF NewObjects
  <2>4. NewObjects(Tail(cl.todo), w, setting)
    <3>1. Tail(cl.todo) \in Seq(ObjectType)
      BY <1>2, <2>1
    <3>2. \A k \in 1..Len(Tail(cl.todo)) : Tail(cl.todo)[k] = cl.todo[k + 1] /\ k + 1 \in 1..Len(cl.todo)
      BY <1>2, <2>1
    <3> QED
      BY <3>1, <3>2 DEF NewObjects
  <2>5. /\ r \in CallType /\ r.op = cl.op /\ r.todo = Tail(cl.todo) /\ r.got = 0
        /\ SameButVersion(r.obj, o)
        /\ cl.op = "New" => /\ r.pc = IF setting.scope = "type" THEN "next" ELSE "insert"
                            /\ r.obj.ver = IF setting.scope = "object" THEN o.ver + 1 ELSE o.ver
        /\ cl.op # "New" => r.pc = "get" /\ r.obj.ver = o.ver
    BY <1>2, <2>1, ContinueIs
  <2> HIDE DEF r, o
  <2>6. cl.op \in {"New", "BulkSet"}
    BY <1>2
  <2>7. r.pc \in {"next", "insert", "get"} /\ ~Parsing(r)
    BY <2>5, <2>6 DEF Parsing
  <2>8. CallOK(r)
    BY <2>4, <2>5, <2>6, <2>7 DEF CallOK, NewObjects
  <2>9. r.obj.base = 0 /\ Raw(r.obj) /\ ObjectOK(r.obj, w, setting)
    BY <2>3, <2>5 DEF SameButVersion, ObjectOK, Raw, Recordable
  <2>10. r.pc \in {"get", "next"} => r.obj.ver = 0
    BY <2>3, <2>5, <2>6
  <2>11. ObjectsOK(r, w, setting)
    BY <2>4, <2>5, <2>7, <2>9, <2>10 DEF ObjectsOK, NewObjects
  <2>12. r.obj.id \in EntityId
    BY <2>5 DEF CallType, ObjectType
  <2>13. UpToDate(r, col, setting)
    BY <2>9, <2>12 DEF UpToDate, RevsOK
  <2>14. Stays(r, col, setting)
    BY <2>5, <2>6 DEF Stays
  <2> QED
    BY <2>8, <2>11, <2>13, <2>14 DEF Fine, r
<1> QED
  BY <1>1, <1>2, ContinueIs DEF NewObjects

(* What the request has still to do are new objects.                       *)
LEMMA TodoIs ==
  ASSUME NEW cl, NEW col, NEW w \in Nat, NEW s, Fine(cl, col, w, s), ~Parsing(cl), NEW v \in Nat, w <= v
  PROVE  NewObjects(cl.todo, v, s) /\ (cl.op \in {"New", "BulkSet"} \/ cl.todo = <<>> \/ cl.op = "none"
                                        \/ (cl.op = "Delete" /\ cl.pc = "load"))
<1>1. CallOK(cl) /\ ObjectsOK(cl, v, s)
  BY ObjectsStayOK DEF Fine
<1> QED
  BY <1>1 DEF CallOK, ObjectsOK, NewObjects, Parsing

LEMMA SetDoneFine ==
  ASSUME setting \in Settings, NEW cl, NEW col, NEW w \in Nat, Fine(cl, col, w, setting), cl.pc = "save",
         NEW kol, RevsOK(kol), NEW v \in Nat, w <= v
  PROVE  Fine(SetDone(cl), kol, v, setting)
<1>1. cl \in CallType /\ ~Parsing(cl)
  BY DEF Fine, CallOK, Parsing
<1>2. CASE cl.op = "Delete"
  BY <1>1, <1>2, SetDoneIs, RemoveFine
<1>3. CASE cl.op # "Delete"
  <2>1. SetDone(cl) = Continue(cl)
    BY <1>3 DEF SetDone
  <2>2. cl.op # "none"
    BY DEF Fine, CallOK
  <2>3. NewObjects(cl.todo, v, setting) /\ (cl.op \in {"New", "BulkSet"} \/ cl.todo = <<>>)
    BY <1>1, <1>3, <2>2, TodoIs
  <2> QED
    BY <1>1, <2>1, <2>3, ContinueFine
<1> QED
  BY <1>2, <1>3

-----------------------------------------------------------------------------
(* Steps, each of one client's request.                                    *)
DocumentOK(d, n, s) ==
  /\ d.stamp \in 1..n /\ d.rev \in 1..n
  /\ d.deleted => s.method = "update"
  /\ NoRepeat(d.hist) /\ (d.hist # <<>> => d.val \in {Last(d.hist), Null})

NewDocument(d, n, s) == d \in Document /\ DocumentOK(d, n, s) /\ d.rev = n

Written ==
  \/ UNCHANGED <<collection, writes>>
  \/ \E i \in EntityId : \E d : /\ Write(i, d)
                                 /\ \/ NewDocument(d, writes + 1, setting)
                                    \/ d = NoDoc /\ setting.method = "delete"

(* What is said of a request, from the invariant.                          *)
LEMMA FineFacts ==
  ASSUME StoreInv, NEW c \in Client
  PROVE  LET cl == call[c]
         IN  /\ Fine(cl, collection, writes, setting) /\ CallOK(cl) /\ cl \in CallType
             /\ ObjectsOK(cl, writes, setting)
             /\ cl.obj \in ObjectType /\ ObjectOK(cl.obj, writes, setting) /\ cl.obj.id \in EntityId
             /\ writes \in Nat /\ setting \in Settings /\ idSeq \in EntityId /\ verSeq \in Nat
             /\ NumbersTyped
<1>1. Fine(call[c], collection, writes, setting)
  BY DEF StoreInv
<1>2. CallOK(call[c]) /\ ObjectsOK(call[c], writes, setting)
  BY <1>1 DEF Fine
<1>3. call[c] \in CallType
  BY <1>2 DEF CallOK
<1>4. call[c].obj \in ObjectType
  BY <1>3 DEF CallType
<1>5. call[c].obj.id \in EntityId
  BY <1>4 DEF ObjectType
<1>6. ObjectOK(call[c].obj, writes, setting)
  BY <1>2 DEF ObjectsOK
<1> QED
  BY <1>1, <1>2, <1>3, <1>4, <1>5, <1>6 DEF StoreInv, TypesOK, NumbersTyped

(* Most steps leave the sequences alone.                                   *)
LEMMA NumbersStay ==
  ASSUME StoreInv, UNCHANGED numbers
  PROVE  UNCHANGED <<idSeq, idTwice, verSeq, verTwice>> /\ NumbersTyped'
BY DEF StoreInv, TypesOK, NumbersTyped, numbers, EntityId

(* NoDoc is no document.                                                   *)
LEMMA NotADocument == NoDoc \notin Document
BY NoDocAssumption DEF Document

(* What a step leaves of the documents.                                    *)
LEMMA WrittenKeeps ==
  ASSUME StoreInv, Written, UNCHANGED setting
  PROVE  /\ writes' \in Nat /\ writes <= writes'
         /\ collection' \in [EntityId -> Document \cup {NoDoc}]
         /\ DocumentsOK' /\ RevsOK(collection')
         /\ \A i \in EntityId : collection'[i] # collection[i] =>
              \/ collection'[i] = NoDoc /\ setting.method = "delete"
              \/ collection'[i] # NoDoc /\ collection'[i].rev = writes + 1
<1>0. /\ writes \in Nat /\ collection \in [EntityId -> Document \cup {NoDoc}]
      /\ \A i \in EntityId : There(i) => DocumentOK(collection[i], writes, setting)
  BY DEF StoreInv, TypesOK, DocumentsOK, DocumentOK
<1>1. CASE UNCHANGED <<collection, writes>>
  <2>1. DocumentsOK'
    BY <1>1 DEF StoreInv, DocumentsOK, There, NoRepeat
  <2>2. RevsOK(collection')
    BY <1>0, <1>1 DEF RevsOK, There, DocumentOK
  <2> QED
    BY <1>0, <1>1, <2>1, <2>2
<1>2. ASSUME NEW j \in EntityId, NEW d, Write(j, d),
             NewDocument(d, writes + 1, setting) \/ (d = NoDoc /\ setting.method = "delete")
      PROVE  /\ writes' \in Nat /\ writes <= writes'
             /\ collection' \in [EntityId -> Document \cup {NoDoc}]
             /\ DocumentsOK' /\ RevsOK(collection')
             /\ \A i \in EntityId : collection'[i] # collection[i] =>
                  \/ collection'[i] = NoDoc /\ setting.method = "delete"
                  \/ collection'[i] # NoDoc /\ collection'[i].rev = writes + 1
  <2>1. collection' = [collection EXCEPT ![j] = d] /\ writes' = writes + 1
    BY <1>2 DEF Write
  <2>2. d \in Document \cup {NoDoc}
    BY <1>2 DEF NewDocument
  <2>3. collection' \in [EntityId -> Document \cup {NoDoc}]
    BY <1>0, <2>1, <2>2
  <2>4. \A i \in EntityId : collection'[i] = IF i = j THEN d ELSE collection[i]
    BY <1>0, <2>1
  <2>5. \A i \in EntityId : collection'[i] # NoDoc => DocumentOK(collection'[i], writes', setting)
    <3> SUFFICES ASSUME NEW i \in EntityId, collection'[i] # NoDoc
                 PROVE  DocumentOK(collection'[i], writes', setting)
      OBVIOUS
    <3>1. CASE i = j
      BY <1>2, <2>1, <2>4, <3>1 DEF NewDocument
    <3>2. CASE i # j
      <4>1. There(i) /\ collection'[i] = collection[i]
        BY <2>4, <3>2 DEF There
      <4>2. DocumentOK(collection[i], writes, setting)
        BY <1>0, <4>1
      <4> QED
        BY <1>0, <2>1, <4>1, <4>2 DEF DocumentOK
    <3> QED
      BY <3>1, <3>2
  <2>6. DocumentsOK'
    BY <2>5 DEF DocumentsOK, DocumentOK, There, NoRepeat
  <2>7. RevsOK(collection')
    BY <2>5 DEF RevsOK, DocumentOK
  <2>8. \A i \in EntityId : collection'[i] # collection[i] =>
          \/ collection'[i] = NoDoc /\ setting.method = "delete"
          \/ collection'[i] # NoDoc /\ collection'[i].rev = writes + 1
    BY <1>2, <2>4, NotADocument DEF NewDocument
  <2> QED
    BY <1>0, <2>1, <2>3, <2>6, <2>7, <2>8
<1> QED
  BY <1>1, <1>2 DEF Written

(* A write does not disturb the others' requests: the document gets a      *)
(* number that nobody has loaded, and goes only where Delete deletes.      *)
LEMMA OthersFine ==
  ASSUME StoreInv, Written, UNCHANGED setting, NEW c \in Client
  PROVE  Fine(call[c], collection', writes', setting)
<1> DEFINE cl == call[c]
           i == call[c].obj.id
<1>1. /\ Fine(cl, collection, writes, setting) /\ CallOK(cl) /\ ObjectsOK(cl, writes, setting)
      /\ cl.obj \in ObjectType /\ cl.obj.base <= writes /\ i \in EntityId /\ writes \in Nat
  BY FineFacts DEF ObjectOK
<1>2. cl.obj.base \in Nat
  BY <1>1 DEF ObjectType
<1>3. /\ writes' \in Nat /\ writes <= writes'
      /\ collection'[i] # collection[i] =>
            \/ collection'[i] = NoDoc /\ setting.method = "delete"
            \/ collection'[i] # NoDoc /\ collection'[i].rev = writes + 1
  BY <1>1, WrittenKeeps
<1> HIDE DEF cl, i
<1>4. ObjectsOK(cl, writes', setting)
  BY <1>1, <1>3, ObjectsStayOK
<1>5. UpToDate(cl, collection, setting) /\ Stays(cl, collection, setting)
  BY <1>1 DEF Fine
<1>6. i = cl.obj.id
  BY DEF cl, i
<1>7. UpToDate(cl, collection', setting)
  BY <1>1, <1>2, <1>3, <1>5, <1>6 DEF UpToDate
<1>8. Stays(cl, collection', setting)
  BY <1>3, <1>5, <1>6 DEF Stays
<1> QED
  BY <1>1, <1>4, <1>7, <1>8 DEF Fine, cl

(* A step of one client keeps the invariant, if its next request is fine.  *)
LEMMA StepKeeps ==
  ASSUME StoreInv, Written, UNCHANGED setting, NumbersTyped', UNCHANGED known,
         NEW c \in Client, NEW r, Becomes(c, r), Fine(r, collection', writes', setting)
  PROVE  StoreInv'
<1>1. \A d \in Client : Fine(call[d], collection', writes', setting)
  BY OthersFine
<1>2. r \in CallType /\ call \in [Client -> CallType]
  BY DEF Fine, CallOK, StoreInv, TypesOK
<1>3. call' \in [Client -> CallType] /\ \A d \in Client : call'[d] = IF d = c THEN r ELSE call[d]
  BY <1>2 DEF Becomes
<1>4. \A d \in Client : Fine(call'[d], collection', writes', setting)
  BY <1>1, <1>3
<1>6. \A d \in Client : known'[d].stamp <= writes'
  <2>1. \A d \in Client : known[d].stamp <= writes /\ known[d].stamp \in Nat
    BY DEF StoreInv, TypesOK
  <2> QED
    BY <2>1, WrittenKeeps DEF StoreInv, TypesOK
<1>7. TypesOK'
  <2>1. collection' \in [EntityId -> Document \cup {NoDoc}] /\ writes' \in Nat
    BY WrittenKeeps
  <2>2. known' \in [Client -> [ver : Int, stamp : Nat, id : 0..MaxEntityId]] /\ setting' \in Settings
    BY DEF StoreInv, TypesOK
  <2> QED
    BY <1>3, <2>1, <2>2 DEF TypesOK, CallType, Document, InputType, ObjectType, EntityId
<1> QED
  BY <1>4, <1>6, <1>7, WrittenKeeps DEF StoreInv

-----------------------------------------------------------------------------
(* The collection begins with one document.                                *)
LEMMA InitKeeps == EntityInit => StoreInv
<1> SUFFICES ASSUME EntityInit PROVE StoreInv
  OBVIOUS
<1>1. PICK v \in Val : \E h \in {<<>>, <<v>>} :
       LET n == Len(h) + 1
           o == [InitObject(1, FALSE) EXCEPT
                   !.val = v, !.hist = h, !.ver = IF setting.scope = "none" THEN 0 ELSE n]
       IN  /\ collection = [i \in EntityId |-> IF i = 1 THEN Doc(o, n) ELSE NoDoc]
           /\ verSeq = n /\ writes = n
  BY DEF EntityInit
<1>2. PICK h \in {<<>>, <<v>>} :
       LET n == Len(h) + 1
           o == [InitObject(1, FALSE) EXCEPT
                   !.val = v, !.hist = h, !.ver = IF setting.scope = "none" THEN 0 ELSE n]
       IN  /\ collection = [i \in EntityId |-> IF i = 1 THEN Doc(o, n) ELSE NoDoc]
           /\ verSeq = n /\ writes = n
  BY <1>1
<1> DEFINE n == Len(h) + 1
           o == [InitObject(1, FALSE) EXCEPT
                   !.val = v, !.hist = h, !.ver = IF setting.scope = "none" THEN 0 ELSE n]
<1>3. h \in Seq(Val) /\ n \in 1..2 /\ NoRepeat(h) /\ (h # <<>> => v = Last(h))
  <2>1. h = <<>> \/ h = <<v>>
    BY <1>2
  <2>2. CASE h = <<>>
    BY <2>2 DEF NoRepeat
  <2>3. CASE h = <<v>>
    BY <2>3 DEF NoRepeat, Last
  <2> QED
    BY <2>1, <2>2, <2>3
<1>4. NoObject \in ObjectType /\ NoObject = InitObject(1, FALSE) /\ ~NoObject.deleted /\ ~NoObject.given
  <2>1. 1 \in EntityId /\ FALSE \in BOOLEAN
    BY NoObjectIs
  <2>2. ~InitObject(1, FALSE).deleted /\ ~InitObject(1, FALSE).given
    BY <2>1 DEF InitObject, Object, Blank
  <2> QED
    BY <2>2, NoObjectIs DEF NoObject
<1>13. o = [NoObject EXCEPT !.val = v, !.hist = h, !.ver = IF setting.scope = "none" THEN 0 ELSE n]
  BY <1>4
<1> HIDE DEF NoObject, o
<1>5. o.val = v /\ o.hist = h /\ o.ver \in Int /\ ~o.deleted /\ ~o.given /\ o.given \in BOOLEAN /\ o.deleted \in BOOLEAN
  <2>1. PICK x \in Int : x = IF setting.scope = "none" THEN 0 ELSE n
    BY <1>3
  <2>2. o = [NoObject EXCEPT !.val = v, !.hist = h, !.ver = x]
    BY <1>13, <2>1
  <2> QED
    BY <1>4, <2>1, <2>2 DEF ObjectType
<1>6. collection = [i \in EntityId |-> IF i = 1 THEN Doc(o, n) ELSE NoDoc] /\ verSeq = n /\ writes = n
  BY <1>2 DEF o
<1> HIDE DEF n
<1>7. NewDocument(Doc(o, n), n, setting)
  BY <1>3, <1>5 DEF NewDocument, DocumentOK, Document, Doc
<1>8. /\ collection \in [EntityId -> Document \cup {NoDoc}]
      /\ \A i \in EntityId : There(i) => DocumentOK(collection[i], writes, setting)
  BY <1>6, <1>7 DEF There, NewDocument
<1>9. DocumentsOK
  BY <1>8 DEF DocumentsOK, DocumentOK
<1>10. TypesOK
  <2>1. idSeq \in EntityId /\ idTwice = {} /\ verTwice = {-1}
    BY EntityBoundAssumption DEF EntityInit, EntityId
  <2>2. known \in [Client -> [ver : Int, stamp : Nat, id : 0..MaxEntityId]]
    <3>1. Nobody \in [ver : Int, stamp : Nat, id : 0..MaxEntityId]
      BY EntityBoundAssumption DEF Nobody
    <3> QED
      BY <3>1 DEF EntityInit
  <2>3. call \in [Client -> CallType]
    BY IdleIs DEF EntityInit
  <2>4. setting \in Settings /\ verSeq \in Nat /\ writes \in Nat
    BY <1>3, <1>6 DEF EntityInit
  <2> QED
    BY <1>8, <2>1, <2>2, <2>3, <2>4 DEF TypesOK, NumbersTyped
<1>11. \A c \in Client : Fine(call[c], collection, writes, setting)
  <2>1. writes \in Nat
    BY <1>10 DEF TypesOK
  <2>2. \A c \in Client : call[c] = Idle
    BY DEF EntityInit
  <2> QED
    BY <2>1, <2>2, IdleFine
<1>12. \A c \in Client : known[c].stamp <= writes
  BY <1>3, <1>6 DEF EntityInit, Nobody
<1> QED
  BY <1>9, <1>10, <1>11, <1>12 DEF StoreInv

(* A user looks at a document, or asks for something.                      *)
LEMMA QueryKeeps ==
  ASSUME StoreInv, NEW c \in Client, NEW i \in EntityId, Query(c, i)
  PROVE  StoreInv'
<1>1. /\ Written /\ UNCHANGED <<setting, call, collection, writes>> /\ NumbersTyped'
      /\ There(i) /\ known' = [known EXCEPT ![c] = [ver |-> collection[i].ver, stamp |-> collection[i].stamp, id |-> i]]
  BY NumbersStay DEF Query, Written, There
<1>2. /\ collection[i].ver \in Int /\ collection[i].stamp \in Nat /\ collection[i].stamp <= writes
      /\ i \in 0..MaxEntityId
  BY <1>1, DocumentIs DEF StoreInv, DocumentsOK, Document, EntityId
<1>3. known \in [Client -> [ver : Int, stamp : Nat, id : 0..MaxEntityId]]
  BY DEF StoreInv, TypesOK
<1>4. known' \in [Client -> [ver : Int, stamp : Nat, id : 0..MaxEntityId]]
  BY <1>1, <1>2, <1>3
<1>5. \A d \in Client : known'[d].stamp <= writes
  BY <1>1, <1>2, <1>3 DEF StoreInv
<1>6. TypesOK'
  BY <1>1, <1>4 DEF StoreInv, TypesOK, CallType, Document, InputType, ObjectType, EntityId
<1>7. \A d \in Client : Fine(call'[d], collection', writes', setting)
  BY <1>1 DEF StoreInv
<1>8. DocumentsOK'
  BY <1>1, WrittenKeeps
<1> QED
  BY <1>1, <1>5, <1>6, <1>7, <1>8 DEF StoreInv

(* The fields of an input.                                                 *)
LEMMA InputIs ==
  ASSUME NEW i \in 0..MaxEntityId, NEW v \in Val \cup {Null, Keep}
  PROVE  Input(i, v) \in InputType /\ Input(i, v).ver = Keep /\ Input(i, v).seen = 0 /\ Input(i, v).id = i
BY DEF Input, InputType

LEMMA StartKeeps ==
  ASSUME StoreInv, NEW c \in Client, NEW r, Start(c, r),
         r \in CallType, r.obj = NoObject \/ \E i \in EntityId : r.obj = [NoObject EXCEPT !.id = i],
         r.got = 0,
         \/ r.op = "Set" /\ r.pc = "load" /\ Len(r.todo) = 1 /\ r.todo[1].id \in EntityId
         \/ r.op \in {"New", "BulkSet"} /\ r.pc = "parse" /\ \A k \in 1..Len(r.todo) : r.todo[k].ver = Keep
         \/ r.op = "Delete" /\ r.pc = "load" /\ r.todo = <<>>,
         r.op # "Delete" => r.todo \in Seq(InputType),
         \A k \in 1..Len(r.todo) : r.todo[k].seen <= writes
  PROVE  StoreInv'
<1>1. Written /\ UNCHANGED <<setting, known, collection, writes>> /\ Becomes(c, r) /\ NumbersTyped'
  BY NumbersStay DEF Start, Written
<1>2. writes \in Nat
  BY <1>1 DEF StoreInv, TypesOK
<1>3. Raw(r.obj) /\ Recordable(r.obj) /\ r.obj \in ObjectType
  <2>1. Raw(NoObject) /\ Recordable(NoObject) /\ NoObject \in ObjectType
    BY NoObjectIs
  <2> HIDE DEF NoObject
  <2>2. \A i \in EntityId : LET o == [NoObject EXCEPT !.id = i]
                            IN  Raw(o) /\ Recordable(o) /\ o \in ObjectType
    BY <2>1 DEF Raw, Recordable, ObjectType
  <2> QED
    BY <2>1, <2>2
<1>4. CallOK(r)
  <2>1. CASE r.op = "Set"
    BY <2>1 DEF CallOK, Parsing
  <2>2. CASE r.op \in {"New", "BulkSet"}
    BY <2>2 DEF CallOK, Parsing
  <2>3. CASE r.op = "Delete"
    <3>1. r.pc = "load" /\ r.todo = <<>>
      BY <2>3
    <3>2. r.todo \in Seq(ObjectType)
      BY <3>1
    <3> QED
      BY <2>3, <3>1, <3>2 DEF CallOK, Parsing
  <2> QED
    BY <2>1, <2>2, <2>3
<1>5. ObjectOK(r.obj, writes, setting)
  BY <1>2, <1>3 DEF ObjectOK, Raw
<1>6. ObjectsOK(r, writes, setting)
  BY <1>2, <1>5 DEF ObjectsOK, Parsing
<1>7. Fine(r, collection', writes', setting)
  BY <1>1, <1>4, <1>6 DEF Fine, UpToDate, Stays
<1> QED
  BY <1>1, <1>2, <1>7, StepKeeps

(* Every mutation starts with what its user gives.                         *)
LEMMA MutationsKeep ==
  ASSUME StoreInv, NEW c \in Client,
         \/ \E i \in EntityId : DeleteMutation(c, i)
         \/ \E i \in EntityId, v \in Val \cup {Null, Keep} : SetMutation(c, i, v)
         \/ \E i \in EntityId \cup {0}, v \in Val : CreateMutation(c, i, v)
         \/ \E op \in {"New", "BulkSet"}, ids \in Batches, v \in Val : BulkMutation(c, op, ids, v)
  PROVE  StoreInv'
<1>0. /\ Idle \in CallType /\ Idle.obj = NoObject /\ Idle.got = 0 /\ Idle.todo = <<>> /\ writes \in Nat
      /\ NoObject \in ObjectType
  BY IdleIs, NoObjectIs DEF StoreInv, TypesOK
<1> HIDE DEF Idle, NoObject
<1>1. ASSUME NEW i \in EntityId, DeleteMutation(c, i)
      PROVE  StoreInv'
  <2> DEFINE o == [NoObject EXCEPT !.id = i]
             r == [Idle EXCEPT !.pc = "load", !.op = "Delete", !.obj = o]
  <2>1. o \in ObjectType
    BY <1>0 DEF ObjectType
  <2>2. Start(c, r)
    BY <1>1 DEF DeleteMutation
  <2> HIDE DEF o
  <2>3. r \in CallType /\ r.pc = "load" /\ r.op = "Delete" /\ r.obj = o /\ r.got = 0 /\ r.todo = <<>>
    BY <1>0, <2>1 DEF CallType
  <2>4. r.obj = [NoObject EXCEPT !.id = i]
    BY <2>3 DEF o
  <2> HIDE DEF r
  <2> QED
    BY <2>2, <2>3, <2>4, StartKeeps
<1>2. ASSUME NEW i \in EntityId, NEW v \in Val \cup {Null, Keep}, SetMutation(c, i, v)
      PROVE  StoreInv'
  <2> DEFINE R(inp) == [Idle EXCEPT !.pc = "load", !.op = "Set", !.todo = <<inp>>]
             seen == [Input(i, v) EXCEPT !.ver = known[c].ver, !.seen = known[c].stamp]
  <2>1. i \in 0..MaxEntityId
    BY DEF EntityId
  <2>2. Input(i, v) \in InputType /\ Input(i, v).seen = 0 /\ Input(i, v).id = i
    BY <2>1, InputIs
  <2>3. seen \in InputType /\ seen.seen <= writes /\ seen.id = i
    <3>1. known[c].ver \in Int /\ known[c].stamp \in Nat /\ known[c].stamp <= writes
      BY DEF StoreInv, TypesOK
    <3> QED
      BY <2>2, <3>1 DEF InputType
  <2>4. Start(c, R(Input(i, v))) \/ Start(c, R(seen))
    BY <1>2 DEF SetMutation
  <2> HIDE DEF R, seen
  <2>5. PICK inp \in InputType : Start(c, R(inp)) /\ inp.seen <= writes /\ inp.id = i
    BY <1>0, <2>2, <2>3, <2>4
  <2>6. <<inp>> \in Seq(InputType) /\ Len(<<inp>>) = 1 /\ <<inp>>[1] = inp
    OBVIOUS
  <2>7. PICK r : r = R(inp)
    OBVIOUS
  <2>8. r \in CallType /\ r.pc = "load" /\ r.op = "Set" /\ r.obj = NoObject /\ r.got = 0 /\ r.todo = <<inp>>
    BY <1>0, <2>6, <2>7 DEF CallType, R
  <2>9. Start(c, r)
    BY <2>5, <2>7
  <2>10. \A k \in 1..Len(r.todo) : r.todo[k].seen <= writes
    BY <2>5, <2>6, <2>8
  <2> QED
    BY <2>5, <2>6, <2>8, <2>9, <2>10, StartKeeps
<1>3. ASSUME NEW i \in EntityId \cup {0}, NEW v \in Val, CreateMutation(c, i, v)
      PROVE  StoreInv'
  <2>1. i \in 0..MaxEntityId
    BY EntityBoundAssumption DEF EntityId
  <2>2. PICK inp : inp = Input(i, v)
    OBVIOUS
  <2>3. inp \in InputType /\ inp.ver = Keep /\ inp.seen = 0
    BY <2>1, <2>2, InputIs
  <2>4. <<inp>> \in Seq(InputType) /\ Len(<<inp>>) = 1 /\ <<inp>>[1] = inp
    BY <2>3
  <2>5. PICK r : r = [Idle EXCEPT !.pc = "parse", !.op = "New", !.todo = <<inp>>]
    OBVIOUS
  <2>6. r \in CallType /\ r.pc = "parse" /\ r.op = "New" /\ r.obj = NoObject /\ r.got = 0 /\ r.todo = <<inp>>
    BY <1>0, <2>4, <2>5 DEF CallType
  <2>7. Start(c, r)
    BY <1>3, <2>2, <2>5 DEF CreateMutation
  <2>8. \A k \in 1..Len(r.todo) : r.todo[k].seen <= writes /\ r.todo[k].ver = Keep
    BY <1>0, <2>3, <2>4, <2>6
  <2> QED
    BY <2>4, <2>6, <2>7, <2>8, StartKeeps
<1>4. ASSUME NEW op \in {"New", "BulkSet"}, NEW ids \in Batches, NEW v \in Val, BulkMutation(c, op, ids, v)
      PROVE  StoreInv'
  <2>1. ids[1] \in 0..MaxEntityId /\ ids[2] \in 0..MaxEntityId
    BY BatchAssumption
  <2>2. PICK q : q = <<Input(ids[1], v), Input(ids[2], v)>>
    OBVIOUS
  <2>3. /\ q \in Seq(InputType) /\ \A k \in 1..Len(q) : q[k].ver = Keep /\ q[k].seen = 0
    <3>1. PICK a, b : a = Input(ids[1], v) /\ b = Input(ids[2], v)
      OBVIOUS
    <3>2. a \in InputType /\ b \in InputType /\ a.ver = Keep /\ b.ver = Keep /\ a.seen = 0 /\ b.seen = 0
      BY <2>1, <3>1, InputIs
    <3>3. q = <<a, b>>
      BY <2>2, <3>1
    <3> QED
      BY <3>2, <3>3
  <2>5. PICK r : r = [Idle EXCEPT !.pc = "parse", !.op = op, !.todo = q]
    OBVIOUS
  <2>6. r \in CallType /\ r.pc = "parse" /\ r.op = op /\ r.obj = NoObject /\ r.got = 0 /\ r.todo = q
    BY <1>0, <2>3, <2>5 DEF CallType
  <2>7. Start(c, r)
    BY <1>4, <2>2, <2>5 DEF BulkMutation
  <2>8. \A k \in 1..Len(r.todo) : r.todo[k].seen <= writes /\ r.todo[k].ver = Keep
    BY <1>0, <2>3, <2>6
  <2> QED
    BY <2>3, <2>6, <2>7, <2>8, StartKeeps
<1> QED
  BY <1>1, <1>2, <1>3, <1>4

-----------------------------------------------------------------------------
(* The steps of a request.                                                 *)
LEMMA UnappliedKeeps ==
  ASSUME StoreInv, NEW c \in Client, Unapplied(c), UNCHANGED <<setting, known>>, NumbersTyped'
  PROVE  StoreInv'
<1>1. Written /\ UNCHANGED <<collection, writes>> /\ Becomes(c, CallFailed(call[c]))
  BY DEF Unapplied, Written
<1>2. Fine(CallFailed(call[c]), collection', writes', setting)
  BY <1>1, FineFacts, FailedFine
<1> QED
  BY <1>1, <1>2, StepKeeps

LEMMA AnsweredKeeps ==
  ASSUME StoreInv, Written, NEW c \in Client, NEW r, Answered(c, r), Fine(r, collection', writes', setting),
         UNCHANGED <<setting, known>>, NumbersTyped'
  PROVE  StoreInv'
<1>2. CASE Becomes(c, r)
  BY <1>2, StepKeeps
<1>3. CASE Becomes(c, CallFailed(call[c]))
  <2>1. writes' \in Nat /\ writes <= writes'
    BY WrittenKeeps
  <2>2. Fine(CallFailed(call[c]), collection', writes', setting)
    BY <2>1, FineFacts, FailedFine
  <2> QED
    BY <1>3, <2>2, StepKeeps
<1> QED
  BY <1>2, <1>3 DEF Answered

LEMMA LoadForSetKeeps ==
  ASSUME StoreInv, NEW c \in Client, LoadForSet(c)
  PROVE  StoreInv'
<1> DEFINE cl == call[c]
           inp == cl.todo[1]
           found == collection[inp.id] # NoDoc
           obj == IF found THEN LoadObject(inp.id) ELSE InitObject(inp.id, TRUE)
           p == Parsed(obj, inp)
           r == [cl EXCEPT !.pc = "get", !.todo = <<>>, !.obj = p]
<1>1. cl.pc = "load" /\ cl.op = "Set" /\ UNCHANGED <<setting, idTwice, verSeq, verTwice, known>>
  BY DEF LoadForSet
<1>2. /\ CallOK(cl) /\ cl \in CallType /\ ObjectsOK(cl, writes, setting) /\ writes \in Nat
      /\ idSeq \in EntityId /\ verSeq \in Nat /\ TypesOK /\ DocumentsOK
  BY FineFacts DEF StoreInv
<1>3. inp \in InputType /\ inp.id \in EntityId /\ inp.seen <= writes
  <2>1. cl.todo \in Seq(InputType) /\ Len(cl.todo) = 1 /\ inp.id \in EntityId /\ Parsing(cl)
    BY <1>1, <1>2 DEF CallOK, Parsing
  <2>2. 1 \in 1..Len(cl.todo)
    BY <2>1
  <2> QED
    BY <1>2, <2>1, <2>2 DEF ObjectsOK
<1>4. CASE /\ found \/ idSeq < MaxEntityId
           /\ idSeq' = IF found THEN idSeq ELSE idSeq + 1
           /\ Becomes(c, r)
           /\ UNCHANGED <<collection, writes, faults>>
  <2>1. NumbersTyped' /\ Written
    <3>1. idSeq' \in EntityId
      BY <1>2, <1>4, EntityBoundAssumption DEF EntityId
    <3> QED
      BY <1>1, <1>4, <3>1, FineFacts DEF NumbersTyped, EntityId, Written
  <2>2. /\ obj \in ObjectType /\ obj.id = inp.id /\ ~obj.dirty /\ Recordable(obj)
        /\ obj.base <= writes /\ obj.seen <= writes
        /\ obj.deleted => setting.method = "update"
        /\ There(inp.id) => /\ obj.base = collection[inp.id].rev /\ obj.hist = collection[inp.id].hist
                            /\ obj.deleted <=> collection[inp.id].deleted /\ setting.field
    <3>1. CASE found
      <4>1. obj = LoadObject(inp.id) /\ There(inp.id)
        BY <3>1 DEF There
      <4>2. ObjectOK(LoadObject(inp.id), writes, setting)
        BY <1>2, <1>3, <4>1, LoadObjectIs
      <4>3. /\ LoadObject(inp.id) \in ObjectType /\ LoadObject(inp.id).id = inp.id /\ ~LoadObject(inp.id).dirty
            /\ LoadObject(inp.id).base = collection[inp.id].rev /\ LoadObject(inp.id).hist = collection[inp.id].hist
            /\ LoadObject(inp.id).deleted <=> collection[inp.id].deleted /\ setting.field
        BY <1>2, <1>3, <4>1, LoadObjectIs
      <4> QED
        BY <4>1, <4>2, <4>3 DEF ObjectOK
    <3>2. CASE ~found
      <4>1. obj = InitObject(inp.id, TRUE) /\ ~There(inp.id)
        BY <3>2 DEF There
      <4>2. /\ obj \in ObjectType
            /\ obj = [val |-> Null, ver |-> 0, hist |-> <<>>, deleted |-> FALSE,
                      given |-> TRUE, id |-> inp.id, dirty |-> FALSE, base |-> 0, seen |-> 0]
        BY <1>3, <4>1, InitObjectIs
      <4> HIDE DEF obj, found
      <4>3. /\ obj \in ObjectType /\ obj.id = inp.id /\ ~obj.dirty /\ obj.hist = <<>> /\ ~obj.deleted
            /\ obj.base = 0 /\ obj.seen = 0
        BY <4>2
      <4>4. Recordable(obj)
        BY <4>3 DEF Recordable, NoRepeat
      <4> QED
        <5>1. obj.base <= writes /\ obj.seen <= writes
          BY <1>2, <4>3
        <5>2. ~There(inp.id)
          BY <4>1
        <5>3. ~obj.deleted
          BY <4>3
        <5> QED
          BY <4>3, <4>4, <5>1, <5>2, <5>3
    <3> QED
      BY <3>1, <3>2
  <2> HIDE DEF obj, found
  <2>3. /\ p \in ObjectType /\ Recordable(p)
        /\ p.id = obj.id /\ p.hist = obj.hist /\ p.deleted = obj.deleted /\ p.base = obj.base
        /\ p.seen = obj.seen \/ p.seen = inp.seen
    BY <1>3, <2>2, ParsedIs
  <2> HIDE DEF p, inp
  <2>4. <<>> \in Seq(ObjectType)
    OBVIOUS
  <2>5. r \in CallType /\ r.pc = "get" /\ r.op = "Set" /\ r.todo = <<>> /\ r.obj = p /\ r.got = cl.got
    BY <1>1, <1>2, <2>3, <2>4 DEF CallType
  <2>6. Becomes(c, r) /\ UNCHANGED <<collection, writes>>
    BY <1>4
  <2> HIDE DEF r
  <2>7. CallOK(r)
    BY <2>4, <2>5 DEF CallOK, Parsing
  <2>8. cl.got <= writes
    BY <1>2 DEF ObjectsOK
  <2>9. ObjectOK(p, writes, setting)
    BY <1>3, <2>2, <2>3 DEF ObjectOK
  <2>10. ObjectsOK(r, writes, setting)
    BY <2>5, <2>8, <2>9 DEF ObjectsOK, Parsing
  <2>11. UpToDate(r, collection, setting) /\ Stays(r, collection, setting)
    BY <2>2, <2>3, <2>5 DEF UpToDate, Stays, There
  <2>12. Fine(r, collection', writes', setting)
    BY <2>6, <2>7, <2>10, <2>11 DEF Fine
  <2> QED
    BY <1>1, <2>1, <2>6, <2>12, StepKeeps
<1>5. CASE Unapplied(c) /\ UNCHANGED idSeq
  <2>1. NumbersTyped'
    BY <1>1, <1>5, FineFacts DEF NumbersTyped, EntityId
  <2> QED
    BY <1>1, <1>5, <2>1, UnappliedKeeps
<1> QED
  BY <1>4, <1>5 DEF LoadForSet

LEMMA SetGetKeeps ==
  ASSUME StoreInv, NEW c \in Client, SetGet(c)
  PROVE  StoreInv'
<1> DEFINE cl == call[c]
           i == cl.obj.id
           warned == setting.scope # "none" /\ Mismatch(cl.obj, collection[i])
           loaded == [cl EXCEPT !.got = collection[i].stamp, !.warned = warned]
           r == ToStore(loaded, cl.obj)
<1>1. cl.pc = "get" /\ UNCHANGED <<setting, known>> /\ NumbersTyped'
  BY NumbersStay DEF SetGet
<1>2. /\ Fine(cl, collection, writes, setting) /\ CallOK(cl) /\ cl \in CallType
      /\ ObjectsOK(cl, writes, setting) /\ writes \in Nat /\ setting \in Settings
      /\ idSeq \in EntityId /\ verSeq \in Nat /\ TypesOK /\ DocumentsOK
      /\ cl.obj \in ObjectType /\ ObjectOK(cl.obj, writes, setting) /\ i \in EntityId
  BY FineFacts DEF StoreInv
<1>3. CASE UNCHANGED <<collection, writes>> /\ Becomes(c, CallFailed(cl))
  <2>1. Fine(CallFailed(cl), collection', writes', setting)
    BY <1>2, <1>3, FailedFine
  <2> QED
    BY <1>1, <1>2, <1>3, <2>1, StepKeeps DEF Written
<1>4. CASE There(i) /\ UNCHANGED <<collection, writes>> /\ Becomes(c, r)
  <2>1. collection[i].stamp \in Nat /\ collection[i].stamp <= writes
    BY <1>2, <1>4 DEF DocumentsOK, TypesOK
  <2>2. warned \in BOOLEAN
    OBVIOUS
  <2> HIDE DEF warned
  <2>3. /\ loaded \in CallType /\ loaded.got = collection[i].stamp
        /\ loaded.op = cl.op /\ loaded.todo = cl.todo /\ Stores(loaded) = Stores(cl)
    BY <1>2, <2>1, <2>2 DEF CallType, Stores
  <2> HIDE DEF loaded
  <2>4. Becomes(c, r)
    BY <1>4 DEF loaded, warned
  <2>5. /\ r \in CallType /\ r.op = cl.op /\ r.todo = cl.todo /\ r.got = collection[i].stamp
        /\ SameButVersion(r.obj, cl.obj)
        /\ r.pc = IF setting.scope = "type" THEN "next" ELSE Stores(cl)
        /\ r.obj.ver = IF setting.scope = "object" THEN cl.obj.ver + 1 ELSE cl.obj.ver
    BY <1>2, <2>3, ToStoreIs
  <2> HIDE DEF r
  <2>6. cl.op \in {"Set", "BulkSet", "Delete"}
    BY <1>1, <1>2 DEF CallOK
  <2>7. r.pc \in {"next", "save"} /\ (r.pc = "next" => r.obj.ver = cl.obj.ver)
    <3>1. Stores(cl) = "save"
      BY <2>6 DEF Stores
    <3> QED
      BY <2>5, <3>1
  <2>8. CallOK(r)
    BY <1>1, <1>2, <2>5, <2>6, <2>7 DEF CallOK, Parsing
  <2>9. ObjectOK(r.obj, writes, setting)
    BY <1>2, <2>5 DEF ObjectOK, Recordable, SameButVersion
  <2>10. NewObjects(cl.todo, writes, setting)
    <3>1. ~Parsing(cl) /\ writes <= writes
      BY <1>1, <1>2 DEF Parsing, CallOK
    <3> QED
      BY <1>2, <3>1, TodoIs
  <2>11. cl.op = "BulkSet" => Raw(r.obj) /\ (r.pc = "next" => r.obj.ver = 0)
    BY <1>1, <1>2, <2>5, <2>7 DEF ObjectsOK, SameButVersion, Raw
  <2>12. ObjectsOK(r, writes, setting)
    BY <2>1, <2>5, <2>6, <2>7, <2>9, <2>10, <2>11 DEF ObjectsOK, Parsing, NewObjects
  <2>13. r.obj.id = i /\ r.obj.hist = cl.obj.hist /\ r.obj.base = cl.obj.base /\ r.obj.deleted = cl.obj.deleted
    BY <2>5 DEF SameButVersion
  <2>14. UpToDate(r, collection, setting)
    BY <1>1, <1>2, <2>13 DEF Fine, UpToDate
  <2>15. Stays(r, collection, setting)
    BY <1>4, <2>13 DEF Stays, There
  <2>16. Fine(r, collection', writes', setting)
    BY <1>4, <2>8, <2>12, <2>14, <2>15 DEF Fine
  <2> QED
    BY <1>1, <1>2, <1>4, <2>4, <2>16, StepKeeps DEF Written
<1>5. CASE Unapplied(c)
  BY <1>1, <1>2, <1>5, UnappliedKeeps
<1> QED
  BY <1>3, <1>4, <1>5 DEF SetGet, There

LEMMA NextVersionKeeps ==
  ASSUME StoreInv, NEW c \in Client, NextVersion(c)
  PROVE  StoreInv'
<1> DEFINE cl == call[c]
           Versioned(n) == [cl EXCEPT !.pc = Stores(cl), !.obj = [@ EXCEPT !.ver = n]]
<1>1. cl.pc = "next" /\ UNCHANGED <<setting, idSeq, idTwice, known, collection, writes>>
  BY DEF NextVersion, Unapplied
<1>2. /\ Fine(cl, collection, writes, setting) /\ CallOK(cl) /\ cl \in CallType
      /\ ObjectsOK(cl, writes, setting) /\ writes \in Nat /\ setting \in Settings
      /\ idSeq \in EntityId /\ verSeq \in Nat /\ TypesOK /\ DocumentsOK
      /\ cl.obj \in ObjectType /\ ObjectOK(cl.obj, writes, setting) /\ cl.obj.id \in EntityId
  BY FineFacts DEF StoreInv
<1>3. NumbersTyped' /\ Written
  <2>1. NumbersTyped
    BY FineFacts
  <2>2. CASE verSeq' = verSeq + 1 /\ verTwice' = verTwice
    BY <1>1, <2>1, <2>2 DEF NumbersTyped, Written, EntityId
  <2>3. CASE verSeq' = verSeq /\ verTwice' = verTwice
    BY <1>1, <2>1, <2>3 DEF NumbersTyped, Written, EntityId
  <2>4. CASE verSeq' = verSeq /\ \E again \in {-1} \cup 1..verSeq : verTwice' = verTwice \cup {again}
    BY <1>1, <2>1, <2>4 DEF NumbersTyped, Written, EntityId
  <2> QED
    BY <2>2, <2>3, <2>4 DEF NextVersion
<1>4. ASSUME NEW n \in Int, Becomes(c, Versioned(n))
      PROVE  StoreInv'
  <2>1. PICK p : p = [cl.obj EXCEPT !.ver = n]
    OBVIOUS
  <2>2. p \in ObjectType /\ SameButVersion(p, cl.obj)
    BY <1>2, <2>1 DEF ObjectType, SameButVersion
  <2>3. PICK r : r = [cl EXCEPT !.pc = Stores(cl), !.obj = p]
    OBVIOUS
  <2>4. Becomes(c, r)
    BY <1>2, <1>4, <2>1, <2>3 DEF CallType
  <2>5. r \in CallType /\ r.op = cl.op /\ r.todo = cl.todo /\ r.obj = p /\ r.got = cl.got /\ r.pc = Stores(cl)
    BY <1>2, <2>2, <2>3 DEF CallType, Stores
  <2>6. cl.op \in {"Set", "New", "BulkSet", "Delete"} /\ r.pc = IF cl.op = "New" THEN "insert" ELSE "save"
    BY <1>1, <1>2, <2>5 DEF CallOK, Stores
  <2>7. CallOK(r)
    BY <1>1, <1>2, <2>5, <2>6 DEF CallOK, Parsing
  <2>8. ObjectOK(p, writes, setting) /\ (Raw(cl.obj) => Raw(p))
    BY <1>2, <2>2 DEF ObjectOK, Recordable, SameButVersion, Raw
  <2>9. ~Parsing(cl) /\ ~Parsing(r)
    BY <1>1, <2>5, <2>6 DEF Parsing
  <2>10. ObjectsOK(r, writes, setting)
    BY <1>1, <1>2, <2>5, <2>6, <2>8, <2>9 DEF ObjectsOK
  <2>11. UpToDate(r, collection, setting) /\ Stays(r, collection, setting)
    BY <1>1, <1>2, <2>2, <2>5, <2>6 DEF Fine, UpToDate, Stays, SameButVersion
  <2>12. Fine(r, collection', writes', setting)
    BY <1>1, <2>7, <2>10, <2>11 DEF Fine
  <2> QED
    BY <1>1, <1>2, <1>3, <2>4, <2>12, StepKeeps
<1>5. CASE Unapplied(c)
  BY <1>1, <1>2, <1>3, <1>5, UnappliedKeeps
<1>6. CASE Becomes(c, Versioned(verSeq + 1))
  <2> HIDE DEF Versioned
  <2> QED
    BY <1>2, <1>4, <1>6
<1>7. CASE \E again \in {-1} \cup 1..verSeq : Becomes(c, Versioned(again))
  <2> HIDE DEF Versioned
  <2> QED
    BY <1>2, <1>4, <1>7
<1> QED
  BY <1>5, <1>6, <1>7 DEF NextVersion

(* What the parser makes of the inputs of a bulk mutation.                 *)
NewObject(inp, i) ==
  Parsed(IF inp.id \in EntityId THEN InitObject(inp.id, TRUE) ELSE InitObject(i, FALSE), inp)

LEMMA NewObjectIs ==
  ASSUME NEW inp \in InputType, inp.ver = Keep, NEW i \in EntityId
  PROVE  LET o == NewObject(inp, i)
         IN  /\ o \in ObjectType /\ Recordable(o) /\ Raw(o) /\ o.ver = 0
             /\ inp.id \in EntityId => o.given /\ o.id = inp.id
             /\ inp.id \notin EntityId => ~o.given /\ o.id = i
<1> DEFINE b == IF inp.id \in EntityId THEN InitObject(inp.id, TRUE) ELSE InitObject(i, FALSE)
<1>1. /\ b \in ObjectType /\ b.hist = <<>> /\ ~b.deleted /\ b.base = 0 /\ b.seen = 0 /\ b.ver = 0 /\ ~b.dirty
      /\ inp.id \in EntityId => b.given /\ b.id = inp.id
      /\ inp.id \notin EntityId => ~b.given /\ b.id = i
  <2>1. CASE inp.id \in EntityId
    <3>1. b = InitObject(inp.id, TRUE)
      BY <2>1
    <3>2. /\ b \in ObjectType
          /\ b = [val |-> Null, ver |-> 0, hist |-> <<>>, deleted |-> FALSE,
                  given |-> TRUE, id |-> inp.id, dirty |-> FALSE, base |-> 0, seen |-> 0]
      BY <2>1, <3>1, InitObjectIs
    <3> HIDE DEF b
    <3> QED
      BY <2>1, <3>2
  <2>2. CASE inp.id \notin EntityId
    <3>1. b = InitObject(i, FALSE)
      BY <2>2
    <3>2. /\ b \in ObjectType
          /\ b = [val |-> Null, ver |-> 0, hist |-> <<>>, deleted |-> FALSE,
                  given |-> FALSE, id |-> i, dirty |-> FALSE, base |-> 0, seen |-> 0]
      BY <3>1, InitObjectIs
    <3> HIDE DEF b
    <3> QED
      BY <2>2, <3>2
  <2> QED
    BY <2>1, <2>2
<1> HIDE DEF b
<1>2. Recordable(b)
  BY <1>1 DEF Recordable, NoRepeat
<1>3. NewObject(inp, i) = Parsed(b, inp)
  BY DEF NewObject, b
<1>4. LET p == Parsed(b, inp)
      IN  /\ p \in ObjectType /\ Recordable(p)
          /\ p.id = b.id /\ p.given = b.given /\ p.hist = b.hist /\ p.deleted = b.deleted /\ p.base = b.base
          /\ inp.ver = Keep => p.ver = b.ver /\ p.seen = b.seen
  BY <1>1, <1>2, ParsedIs
<1> QED
  BY <1>1, <1>3, <1>4 DEF Raw

(* A failed Parse takes no number.                                         *)
ParseFails(c) == Unapplied(c) /\ UNCHANGED <<idSeq, idTwice>>

(* The numbers f for the inputs' objects: the next ones of the sequence,   *)
(* but for one that it has given twice.                                    *)
ParsedWith(c, f, q) ==
  LET n == Len(call[c].todo)  cl == [call[c] EXCEPT !.todo = q]
  IN  /\ f \in [1..n -> EntityId] /\ \A k \in 1..n : f[k] = idSeq + k \/ f[k] \in idTwice'
      /\ q = [k \in 1..n |-> NewObject(call[c].todo[k], f[k])] /\ Len(q) = n
      /\ NewObjects(q, writes, setting)
      /\ Becomes(c, Continue(cl)) /\ cl \in CallType /\ cl.todo = q /\ cl.op = call[c].op

LEMMA ParseIs ==
  ASSUME StoreInv, NEW c \in Client, Parse(c), ~ParseFails(c)
  PROVE  /\ idSeq' = idSeq + Len(call[c].todo) /\ idTwice \subseteq idTwice' /\ NumbersTyped'
         /\ UNCHANGED <<collection, writes>>
         /\ call[c].todo \in Seq(InputType) /\ \A k \in 1..Len(call[c].todo) : call[c].todo[k].ver = Keep
         /\ call[c].op \in {"New", "BulkSet"}
         /\ \E f, q : ParsedWith(c, f, q)
<1> DEFINE n == Len(call[c].todo)
           next == [k \in 1..n |-> idSeq + k]
           To(f) == [call[c] EXCEPT !.todo = [k \in 1..n |-> NewObject(call[c].todo[k], f[k])]]
<1>1. /\ call[c].pc = "parse" /\ idSeq + n <= MaxEntityId /\ idSeq' = idSeq + n
      /\ UNCHANGED <<collection, writes, verSeq, verTwice>>
      /\ \/ Becomes(c, Continue(To(next))) /\ UNCHANGED idTwice
         \/ \E k \in 1..n, again \in 1..idSeq :
              Becomes(c, Continue(To([next EXCEPT ![k] = again]))) /\ idTwice' = idTwice \cup {again}
  BY DEF Parse, NewObject, ParseFails
<1>2. CallOK(call[c]) /\ call[c] \in CallType /\ writes \in Nat /\ idSeq \in EntityId /\ NumbersTyped
  BY FineFacts
<1>3. /\ call[c].todo \in Seq(InputType) /\ call[c].op \in {"New", "BulkSet"}
      /\ \A k \in 1..n : call[c].todo[k].ver = Keep
  BY <1>1, <1>2 DEF CallOK, Parsing
<1>4. n \in Nat /\ \A k \in 1..n : call[c].todo[k] \in InputType
  BY <1>3
<1>5. idSeq' \in EntityId /\ idSeq <= idSeq' /\ \A k \in 1..n : idSeq + k \in EntityId
  <2>1. PICK m, i : m = n /\ i = idSeq
    OBVIOUS
  <2>2. m \in Nat /\ i \in 1..MaxEntityId /\ i + m <= MaxEntityId /\ MaxEntityId \in Nat
    BY <1>1, <1>2, <1>4, <2>1, EntityBoundAssumption DEF EntityId
  <2>3. i + m \in 1..MaxEntityId /\ i <= i + m /\ \A k \in 1..m : i + k \in 1..MaxEntityId
    BY <2>2
  <2> QED
    BY <1>1, <2>1, <2>3 DEF EntityId
<1> HIDE DEF n, To
<1>6. PICK f \in [1..n -> EntityId] :
        /\ Becomes(c, Continue(To(f))) /\ idTwice \subseteq idTwice'
        /\ \A k \in 1..n : f[k] = idSeq + k \/ f[k] \in idTwice'
  <2>1. next \in [1..n -> EntityId] /\ \A k \in 1..n : next[k] = idSeq + k
    BY <1>5
  <2>2. CASE Becomes(c, Continue(To(next))) /\ UNCHANGED idTwice
    BY <2>1, <2>2
  <2>3. ASSUME NEW k \in 1..n, NEW again \in 1..idSeq, idTwice' = idTwice \cup {again},
               Becomes(c, Continue(To([next EXCEPT ![k] = again])))
        PROVE  \E g \in [1..n -> EntityId] :
                 /\ Becomes(c, Continue(To(g))) /\ idTwice \subseteq idTwice'
                 /\ \A j \in 1..n : g[j] = idSeq + j \/ g[j] \in idTwice'
    <3>1. again \in EntityId
      BY <1>2, EntityBoundAssumption DEF EntityId
    <3>2. PICK g : g = [next EXCEPT ![k] = again]
      OBVIOUS
    <3>3. g \in [1..n -> EntityId] /\ \A j \in 1..n : g[j] = IF j = k THEN again ELSE idSeq + j
      <4> HIDE DEF next
      <4> QED
        BY <2>1, <3>1, <3>2
    <3>4. Becomes(c, Continue(To(g)))
      BY <2>3, <3>2
    <3> QED
      BY <2>3, <3>3, <3>4
  <2> QED
    BY <1>1, <2>2, <2>3
<1>7. NumbersTyped'
  <2>1. CASE UNCHANGED idTwice
    BY <1>1, <1>2, <1>5, <2>1 DEF NumbersTyped, EntityId
  <2>2. CASE \E again \in 1..idSeq : idTwice' = idTwice \cup {again}
    BY <1>1, <1>2, <1>5, <2>2 DEF NumbersTyped, EntityId
  <2> QED
    BY <1>1, <2>1, <2>2
<1> DEFINE q == [k \in 1..n |-> NewObject(call[c].todo[k], f[k])]
           cl == [call[c] EXCEPT !.todo = q]
<1>8. \A k \in 1..n : LET o == NewObject(call[c].todo[k], f[k])
                       IN  o \in ObjectType /\ Recordable(o) /\ Raw(o) /\ o.ver = 0
  BY <1>3, <1>4, NewObjectIs DEF n
<1>9. q \in Seq(ObjectType) /\ Len(q) = n /\ \A k \in 1..n : q[k] = NewObject(call[c].todo[k], f[k])
  BY <1>4, <1>8
<1>10. Becomes(c, Continue(cl))
  BY <1>6 DEF To
<1> HIDE DEF q
<1>11. NewObjects(q, writes, setting)
  BY <1>2, <1>8, <1>9 DEF NewObjects, ObjectOK, Raw
<1>12. cl \in CallType /\ cl.todo = q /\ cl.op = call[c].op
  BY <1>2, <1>9 DEF CallType
<1>13. ParsedWith(c, f, q)
  BY <1>6, <1>9, <1>10, <1>11, <1>12 DEF ParsedWith, n, q
<1> QED
  BY <1>1, <1>3, <1>6, <1>7, <1>13 DEF n

LEMMA ParseKeeps ==
  ASSUME StoreInv, NEW c \in Client, Parse(c)
  PROVE  StoreInv'
<1>1. UNCHANGED <<setting, verSeq, verTwice, known>> /\ writes \in Nat /\ setting \in Settings /\ NumbersTyped
  BY FineFacts DEF Parse
<1>2. CASE ParseFails(c)
  <2>1. NumbersTyped'
    BY <1>1, <1>2 DEF NumbersTyped, EntityId, ParseFails
  <2> QED
    BY <1>1, <1>2, <2>1, UnappliedKeeps DEF ParseFails
<1>3. CASE ~ParseFails(c)
  <2>1. /\ NumbersTyped' /\ UNCHANGED <<collection, writes>> /\ call[c].op \in {"New", "BulkSet"}
        /\ \E f, q : ParsedWith(c, f, q)
    BY <1>3, ParseIs
  <2>2. PICK f, q : ParsedWith(c, f, q)
    BY <2>1
  <2> DEFINE cl == [call[c] EXCEPT !.todo = q]
  <2>3. /\ Becomes(c, Continue(cl)) /\ NewObjects(cl.todo, writes, setting) /\ cl \in CallType
        /\ cl.op \in {"New", "BulkSet"}
    BY <2>1, <2>2 DEF ParsedWith
  <2> HIDE DEF cl
  <2>4. RevsOK(collection') /\ Written
    BY <1>1, <2>1, WrittenKeeps DEF Written
  <2>5. Fine(Continue(cl), collection', writes', setting)
    BY <1>1, <2>1, <2>3, <2>4, ContinueFine
  <2> QED
    BY <1>1, <2>1, <2>3, <2>4, <2>5, StepKeeps
<1> QED
  BY <1>2, <1>3

(* A value goes to the history, unless it is there already.                *)
LEMMA RecordedIs ==
  ASSUME NEW o \in ObjectType, Recordable(o)
  PROVE  LET r == Recorded(o)
         IN  /\ r \in ObjectType /\ NoRepeat(r.hist) /\ (r.hist # <<>> => r.val \in {Last(r.hist), Null})
             /\ r.val = o.val /\ r.ver = o.ver /\ r.deleted = o.deleted /\ r.given = o.given /\ r.id = o.id
             /\ r.base = o.base /\ r.seen = o.seen
             /\ r.hist = o.hist \/ r.hist = Append(o.hist, o.val)
<1>0. o.hist \in Seq(Val) /\ o.val \in Val \cup {Null} /\ o.dirty \in BOOLEAN
  BY DEF ObjectType
<1>1. CASE o.dirty /\ (o.hist = <<>> \/ Last(o.hist) # o.val)
  <2>1. PICK h : h = Append(o.hist, o.val)
    OBVIOUS
  <2>2. o.val \in Val
    BY <1>0, <1>1 DEF Recordable
  <2>3. /\ h \in Seq(Val) /\ h # <<>> /\ Len(h) = Len(o.hist) + 1 /\ Last(h) = o.val
        /\ \A k \in 1..Len(o.hist) : h[k] = o.hist[k]
    BY <1>0, <2>1, <2>2 DEF Last
  <2>4. NoRepeat(h)
    <3> SUFFICES ASSUME NEW k \in 1..(Len(h) - 1) PROVE h[k] # h[k + 1]
      BY DEF NoRepeat
    <3>1. CASE k < Len(o.hist)
      <4>1. o.hist[k] # o.hist[k + 1]
        BY <1>0, <3>1 DEF Recordable, NoRepeat
      <4> QED
        BY <1>0, <2>3, <3>1, <4>1
    <3>2. CASE k = Len(o.hist)
      <4>1. o.hist # <<>> /\ Last(o.hist) # o.val
        BY <1>0, <1>1, <3>2
      <4> QED
        BY <1>0, <2>3, <3>2, <4>1 DEF Last
    <3> QED
      BY <1>0, <2>3, <3>1, <3>2
  <2>5. Recorded(o) = [o EXCEPT !.hist = h]
    BY <1>1, <2>1 DEF Recorded, ObjectType
  <2>6. PICK r : r = Recorded(o)
    OBVIOUS
  <2>7. /\ r \in ObjectType /\ r.hist = h
        /\ r.val = o.val /\ r.ver = o.ver /\ r.deleted = o.deleted /\ r.given = o.given /\ r.id = o.id
        /\ r.base = o.base /\ r.seen = o.seen
    BY <2>3, <2>5, <2>6 DEF ObjectType
  <2> QED
    BY <2>1, <2>3, <2>4, <2>6, <2>7
<1>2. CASE ~(o.dirty /\ (o.hist = <<>> \/ Last(o.hist) # o.val))
  <2>1. Recorded(o) = o
    BY <1>2 DEF Recorded
  <2> QED
    BY <1>0, <1>2, <2>1 DEF Recordable
<1> QED
  BY <1>1, <1>2

LEMMA SaveKeeps ==
  ASSUME StoreInv, NEW c \in Client, Save(c)
  PROVE  StoreInv'
<1> DEFINE cl == call[c]
           i == cl.obj.id
           o == Recorded(cl.obj)
           d == Doc([o EXCEPT !.given = collection[i].given], writes + 1)
<1>1. cl.pc = "save" /\ UNCHANGED <<setting, known>> /\ NumbersTyped'
  BY NumbersStay DEF Save
<1>2. /\ Fine(cl, collection, writes, setting) /\ CallOK(cl) /\ cl \in CallType
      /\ writes \in Nat /\ setting \in Settings /\ idSeq \in EntityId /\ verSeq \in Nat /\ TypesOK
      /\ cl.obj \in ObjectType /\ ObjectOK(cl.obj, writes, setting) /\ i \in EntityId
  BY FineFacts DEF StoreInv
<1>3. CASE Unapplied(c)
  BY <1>1, <1>2, <1>3, UnappliedKeeps
<1>4. ASSUME Written, Answered(c, SetDone(cl))
      PROVE  StoreInv'
  <2>1. RevsOK(collection') /\ writes' \in Nat /\ writes <= writes'
    BY <1>1, <1>4, WrittenKeeps
  <2>2. Fine(SetDone(cl), collection', writes', setting)
    BY <1>1, <1>2, <2>1, SetDoneFine
  <2> QED
    BY <1>1, <1>4, <2>2, AnsweredKeeps
<1>5. CASE UNCHANGED <<collection, writes>> /\ Answered(c, SetDone(cl))
  BY <1>4, <1>5 DEF Written
<1>6. CASE There(i) /\ Write(i, d) /\ Answered(c, SetDone(cl))
  <2>1. collection[i] \in Document
    BY <1>2, <1>6, DocumentIs
  <2>2. collection[i].given \in BOOLEAN
    BY <2>1 DEF Document
  <2>3. /\ o \in ObjectType /\ NoRepeat(o.hist) /\ (o.hist # <<>> => o.val \in {Last(o.hist), Null})
        /\ o.deleted = cl.obj.deleted
    BY <1>2, RecordedIs DEF ObjectOK
  <2> HIDE DEF o
  <2>4. PICK p : p = [o EXCEPT !.given = collection[i].given]
    OBVIOUS
  <2>5. p \in ObjectType /\ p.hist = o.hist /\ p.val = o.val /\ p.deleted = o.deleted
    BY <2>2, <2>3, <2>4 DEF ObjectType
  <2>6. PICK e : e = Doc(p, writes + 1)
    OBVIOUS
  <2>7. e \in Document /\ e.hist = o.hist /\ e.val = o.val /\ e.deleted = o.deleted /\ e.rev = writes + 1 /\ e.stamp = writes + 1
    BY <1>2, <2>5, <2>6 DEF Doc, Document, ObjectType
  <2>8. NewDocument(e, writes + 1, setting)
    BY <1>2, <2>3, <2>7 DEF NewDocument, DocumentOK, ObjectOK
  <2>9. Write(i, e)
    BY <1>6, <2>4, <2>6
  <2>10. Written
    BY <1>2, <2>8, <2>9 DEF Written
  <2> QED
    BY <1>4, <1>6, <2>10
<1> QED
  BY <1>3, <1>5, <1>6 DEF Save, There

LEMMA InsertKeeps ==
  ASSUME StoreInv, NEW c \in Client, Insert(c)
  PROVE  StoreInv'
<1> DEFINE cl == call[c]
           i == cl.obj.id
<1>1. cl.pc = "insert" /\ UNCHANGED <<setting, known>> /\ NumbersTyped'
  BY NumbersStay DEF Insert
<1>2. /\ Fine(cl, collection, writes, setting) /\ CallOK(cl) /\ cl \in CallType /\ ObjectsOK(cl, writes, setting)
      /\ writes \in Nat /\ setting \in Settings /\ idSeq \in EntityId /\ verSeq \in Nat
      /\ cl.obj \in ObjectType /\ ObjectOK(cl.obj, writes, setting) /\ i \in EntityId
  BY FineFacts
<1>3. CASE Unapplied(c)
  BY <1>1, <1>2, <1>3, UnappliedKeeps
<1>4. CASE Becomes(c, CallFailed(cl)) /\ UNCHANGED <<collection, writes, faults>>
  <2>1. Fine(CallFailed(cl), collection', writes', setting)
    BY <1>2, <1>4, FailedFine
  <2> QED
    BY <1>1, <1>2, <1>4, <2>1, StepKeeps DEF Written
<1>5. CASE Write(i, Doc(cl.obj, writes + 1)) /\ Answered(c, Continue(cl))
  <2>1. cl.op = "New" /\ ~Parsing(cl)
    BY <1>1, <1>2 DEF CallOK, Parsing
  <2>2. Raw(cl.obj)
    BY <1>1, <1>2, <2>1 DEF ObjectsOK
  <2>3. PICK e : e = Doc(cl.obj, writes + 1)
    OBVIOUS
  <2>4. e \in Document /\ e.hist = <<>> /\ ~e.deleted /\ e.rev = writes + 1 /\ e.stamp = writes + 1
    BY <1>2, <2>2, <2>3 DEF Doc, Document, ObjectType, Raw
  <2>5. NewDocument(e, writes + 1, setting)
    BY <1>2, <2>4 DEF NewDocument, DocumentOK, NoRepeat
  <2>6. Written
    BY <1>2, <1>5, <2>3, <2>5 DEF Written
  <2>7. RevsOK(collection') /\ writes' \in Nat /\ writes <= writes'
    BY <1>1, <2>6, WrittenKeeps
  <2>8. NewObjects(cl.todo, writes', setting)
    BY <1>2, <2>1, <2>7, TodoIs
  <2>9. Fine(Continue(cl), collection', writes', setting)
    BY <1>2, <2>1, <2>7, <2>8, ContinueFine
  <2> QED
    BY <1>1, <1>5, <2>6, <2>9, AnsweredKeeps
<1> QED
  BY <1>3, <1>4, <1>5 DEF Insert

LEMMA DeleteObjectKeeps ==
  ASSUME StoreInv, NEW c \in Client, DeleteObject(c)
  PROVE  StoreInv'
<1> DEFINE cl == call[c]
           i == cl.obj.id
           bumps == setting.scope # "none" /\ setting.field
           o == LoadObject(i)
           r == [cl EXCEPT !.pc = IF bumps THEN "get" ELSE "remove", !.obj = o, !.from = collection[i].ver]
<1>1. cl.pc = "load" /\ cl.op = "Delete" /\ UNCHANGED <<setting, known>> /\ NumbersTyped'
  BY NumbersStay DEF DeleteObject
<1>2. /\ Fine(cl, collection, writes, setting) /\ CallOK(cl) /\ cl \in CallType /\ ObjectsOK(cl, writes, setting)
      /\ writes \in Nat /\ setting \in Settings /\ idSeq \in EntityId /\ verSeq \in Nat /\ TypesOK /\ DocumentsOK
      /\ cl.obj \in ObjectType /\ ObjectOK(cl.obj, writes, setting) /\ i \in EntityId
  BY FineFacts DEF StoreInv
<1>3. CASE Unapplied(c)
  BY <1>1, <1>2, <1>3, UnappliedKeeps
<1>4. CASE Becomes(c, CallFailed(cl)) /\ UNCHANGED <<collection, writes, faults>>
  <2>1. Fine(CallFailed(cl), collection', writes', setting)
    BY <1>2, <1>4, FailedFine
  <2> QED
    BY <1>1, <1>2, <1>4, <2>1, StepKeeps DEF Written
<1>5. CASE There(i) /\ Becomes(c, r) /\ UNCHANGED <<collection, writes, faults>>
  <2>1. /\ o \in ObjectType /\ o.id = i /\ o.hist = collection[i].hist /\ ObjectOK(o, writes, setting)
        /\ o.deleted <=> collection[i].deleted /\ setting.field
    BY <1>2, <1>5, LoadObjectIs
  <2>2. collection[i].ver \in Int
    BY <1>2, <1>5, DocumentIs DEF Document
  <2> HIDE DEF o, bumps
  <2>3. PICK p \in {"get", "remove"} : p = IF bumps THEN "get" ELSE "remove"
    OBVIOUS
  <2>4. r = [cl EXCEPT !.pc = p, !.obj = o, !.from = collection[i].ver] /\ Becomes(c, r)
    BY <1>5, <2>3 DEF o, bumps
  <2> HIDE DEF r
  <2>5. r \in CallType /\ r.pc = p /\ r.op = cl.op /\ r.todo = cl.todo /\ r.obj = o /\ r.got = cl.got
    BY <1>2, <2>1, <2>2, <2>4 DEF CallType
  <2>6. cl.todo \in Seq(ObjectType) /\ ~Parsing(cl) /\ ~Parsing(r)
    BY <1>1, <1>2, <2>3, <2>5 DEF CallOK, Parsing
  <2>7. cl.todo = <<>>
    BY <1>1, <1>2 DEF CallOK
  <2>8. CallOK(r)
    BY <1>1, <2>3, <2>5, <2>6, <2>7 DEF CallOK
  <2>9. ObjectsOK(r, writes, setting)
    BY <1>1, <1>2, <2>1, <2>5, <2>6 DEF ObjectsOK
  <2>10. UpToDate(r, collection, setting) /\ Stays(r, collection, setting)
    BY <2>1, <2>3, <2>5 DEF UpToDate, Stays
  <2>11. Fine(r, collection', writes', setting)
    BY <1>5, <2>8, <2>9, <2>10 DEF Fine
  <2> QED
    BY <1>1, <1>2, <1>5, <2>4, <2>11, StepKeeps DEF Written
<1> QED
  BY <1>3, <1>4, <1>5 DEF DeleteObject, There

LEMMA RemoveDocKeeps ==
  ASSUME StoreInv, NEW c \in Client, RemoveDoc(c)
  PROVE  StoreInv'
<1> DEFINE cl == call[c]
           i == cl.obj.id
           d == IF setting.method = "delete" THEN NoDoc
                ELSE [collection[i] EXCEPT !.deleted = TRUE, !.rev = writes + 1]
<1>1. cl.pc = "remove" /\ UNCHANGED <<setting, known>> /\ NumbersTyped'
  BY NumbersStay DEF RemoveDoc
<1>2. /\ writes \in Nat /\ setting \in Settings /\ idSeq \in EntityId /\ verSeq \in Nat /\ i \in EntityId
      /\ TypesOK /\ DocumentsOK
  BY FineFacts DEF StoreInv
<1>3. CASE Unapplied(c)
  BY <1>1, <1>2, <1>3, UnappliedKeeps
<1>4. ASSUME Written, Answered(c, Idle)
      PROVE  StoreInv'
  <2>1. writes' \in Nat
    BY <1>1, <1>4, WrittenKeeps
  <2>2. Fine(Idle, collection', writes', setting)
    BY <2>1, IdleFine
  <2> QED
    BY <1>1, <1>4, <2>2, AnsweredKeeps
<1>5. CASE UNCHANGED <<collection, writes>> /\ Answered(c, Idle)
  BY <1>4, <1>5 DEF Written
<1>6. CASE There(i) /\ Write(i, d) /\ Answered(c, Idle)
  <2>1. CASE setting.method = "delete"
    BY <1>2, <1>4, <1>6, <2>1 DEF Written
  <2>2. CASE setting.method # "delete"
    <3>1. collection[i] \in Document /\ DocumentOK(collection[i], writes, setting)
      BY <1>2, <1>6, DocumentIs DEF DocumentsOK, DocumentOK
    <3>2. setting.method = "update"
      BY <1>2, <2>2, SettingFacts
    <3>3. PICK e : e = [collection[i] EXCEPT !.deleted = TRUE, !.rev = writes + 1]
      OBVIOUS
    <3>4. /\ e \in Document /\ e.deleted /\ e.rev = writes + 1 /\ e.stamp = collection[i].stamp
          /\ e.hist = collection[i].hist /\ e.val = collection[i].val
      <4>1. PICK x \in Document : x = collection[i]
        BY <3>1
      <4>2. e = [x EXCEPT !.deleted = TRUE, !.rev = writes + 1]
        BY <3>3, <4>1
      <4>3. /\ e \in Document /\ e.deleted /\ e.rev = writes + 1 /\ e.stamp = x.stamp
            /\ e.hist = x.hist /\ e.val = x.val
        <5>1. PICK n \in Nat : n = writes + 1
          BY <1>2
        <5>2. e = [x EXCEPT !.deleted = TRUE, !.rev = n]
          BY <4>2, <5>1
        <5>3. e \in Document
          BY <5>2 DEF Document
        <5>4. e.deleted = TRUE /\ e.rev = n /\ e.stamp = x.stamp /\ e.hist = x.hist /\ e.val = x.val
          BY <5>2 DEF Document
        <5> QED
          BY <5>1, <5>3, <5>4
      <4> QED
        BY <4>1, <4>3
    <3>5. NewDocument(e, writes + 1, setting)
      BY <1>2, <3>1, <3>2, <3>4 DEF NewDocument, DocumentOK
    <3>6. Write(i, e)
      BY <1>6, <2>2, <3>3
    <3> QED
      BY <1>2, <1>4, <1>6, <3>5, <3>6 DEF Written
  <2> QED
    BY <2>1, <2>2
<1> QED
  BY <1>3, <1>5, <1>6 DEF RemoveDoc, There

-----------------------------------------------------------------------------
(* Every step keeps it.                                                    *)
LEMMA StoreInvStep ==
  ASSUME StoreInv, [EntityNext]_entityVars
  PROVE  StoreInv'
<1>1. CASE UNCHANGED entityVars
  <2>1. /\ UNCHANGED <<setting, call, known, collection, writes>> /\ Written /\ NumbersTyped'
    BY <1>1, NumbersStay DEF entityVars, numbers, Written
  <2>2. DocumentsOK'
    BY <2>1, WrittenKeeps
  <2>3. TypesOK'
    BY <2>1 DEF StoreInv, TypesOK, CallType, Document, InputType, ObjectType, EntityId
  <2> QED
    BY <2>1, <2>2, <2>3 DEF StoreInv
<1>2. ASSUME NEW c \in Client,
             \/ \E i \in EntityId : Query(c, i) \/ DeleteMutation(c, i)
             \/ \E i \in EntityId, v \in Val \cup {Null, Keep} : SetMutation(c, i, v)
             \/ \E i \in EntityId \cup {0}, v \in Val : CreateMutation(c, i, v)
             \/ \E op \in {"New", "BulkSet"}, ids \in Batches, v \in Val : BulkMutation(c, op, ids, v)
      PROVE  StoreInv'
  BY <1>2, QueryKeeps, MutationsKeep
<1>3. ASSUME NEW c \in Client,
             \/ LoadForSet(c) \/ Parse(c) \/ SetGet(c) \/ NextVersion(c)
             \/ Save(c) \/ Insert(c) \/ DeleteObject(c) \/ RemoveDoc(c)
      PROVE  StoreInv'
  BY <1>3, LoadForSetKeeps, ParseKeeps, SetGetKeeps, NextVersionKeeps, SaveKeeps, InsertKeeps, DeleteObjectKeeps,
     RemoveDocKeeps
<1> QED
  BY <1>1, <1>2, <1>3 DEF EntityNext

(* What requests hold and what documents record is consistent.             *)
THEOREM StoreInvAlways == EntitySpec => []StoreInv
<1>1. EntityInit => StoreInv
  BY InitKeeps
<1>2. StoreInv /\ [EntityNext]_entityVars => StoreInv'
  BY StoreInvStep
<1> QED
  BY <1>1, <1>2, PTL DEF EntitySpec

(* The history of a document has no entry twice in a row, and ends with    *)
(* the field's value or the value is null, for any number of clients,      *)
(* requests and faults.                                                    *)
THEOREM HistoryAlwaysConsistent == EntitySpec => []HistoryConsistent
<1>1. StoreInv => HistoryConsistent
  BY DEF StoreInv, DocumentsOK, There, NoRepeat, HistoryConsistent
<1> QED
  BY <1>1, StoreInvAlways, PTL

(* Of the invariants that are checked.                                     *)
LEMMA TypesFollow == StoreInv => EntityTypeOK
<1> SUFFICES ASSUME StoreInv PROVE EntityTypeOK
  OBVIOUS
<1>1. \A i \in EntityId : There(i) => collection[i] \in Document /\ DocumentOK(collection[i], writes, setting)
  BY DocumentIs DEF StoreInv, DocumentsOK, DocumentOK
<1>2. \A d \in Document : DocumentOK(d, writes, setting) => d \in DocType
  BY DEF Document, DocumentOK, DocType
<1>3. \A c \in Client : call[c].obj.id \in EntityId /\ call[c].obj.base \in 0..writes
  BY FineFacts DEF ObjectOK, ObjectType
<1>4. idTwice \subseteq EntityId
  <2>1. idSeq \in 1..MaxEntityId /\ idTwice \subseteq 1..idSeq /\ MaxEntityId \in Nat
    BY EntityBoundAssumption DEF StoreInv, TypesOK, NumbersTyped, EntityId
  <2>2. 1..idSeq \subseteq 1..MaxEntityId
    BY <2>1
  <2> QED
    BY <2>1, <2>2 DEF EntityId
<1> QED
  BY <1>1, <1>2, <1>3, <1>4 DEF EntityTypeOK, There, StoreInv, TypesOK, NumbersTyped, DocumentOK

LEMMA SavedIsThereFollows == StoreInv => SavedIsThere
<1> SUFFICES ASSUME StoreInv PROVE SavedIsThere
  OBVIOUS
<1>1. \A c \in Client : Stays(call[c], collection, setting)
  BY DEF StoreInv, Fine
<1> QED
  BY <1>1 DEF SavedIsThere, Stays

-----------------------------------------------------------------------------
(* What a write loses.                                                     *)
LEMMA SaveMovesOn ==
  ASSUME setting \in Settings, NEW cl, CallOK(cl), cl.pc = "save"
  PROVE  SetDone(cl) # cl /\ CallFailed(cl) # cl
<1>1. cl \in CallType /\ cl.todo \in Seq(ObjectType)
  BY DEF CallOK, Parsing
<1>2. CASE cl.op = "Delete"
  <2>1. SetDone(cl).pc = "remove"
    BY <1>1, <1>2, SetDoneIs
  <2>2. CallFailed(cl).pc \in {"remove", "idle"}
    BY <1>1, CallFailedIs, IdleIs DEF Drops
  <2> QED
    BY <2>1, <2>2
<1>3. CASE cl.op # "Delete"
  <2>1. SetDone(cl) = Continue(cl) /\ CallFailed(cl) = Idle
    BY <1>3 DEF SetDone, CallFailed
  <2>2. cl.op # "New"
    BY DEF CallOK
  <2>3. Continue(cl).pc \in {"idle", "get"}
    BY <1>1, <2>2, ContinueIs, IdleIs
  <2> QED
    BY <2>1, <2>3, IdleIs
<1> QED
  BY <1>2, <1>3

(* A write of Save is that of its object, as it was recorded.              *)
SavedAs(c) ==
  LET cl == call[c]  i == cl.obj.id  d == collection'[i]  o == Recorded(cl.obj)
  IN  /\ cl.pc = "save" /\ There(i) /\ d # NoDoc
      /\ collection' = [collection EXCEPT ![i] = d] /\ writes' = writes + 1
      /\ d.hist = o.hist /\ d.ver = cl.obj.ver /\ d.deleted = cl.obj.deleted
      /\ d.given = collection[i].given /\ d.stamp = writes + 1
      /\ Answered(c, SetDone(cl)) /\ UNCHANGED <<setting, numbers, known>>

LEMMA SaveIs ==
  ASSUME StoreInv, NEW c \in Client, Save(c)
  PROVE  SavedAs(c) \/ UNCHANGED <<collection, writes>>
<1> DEFINE cl == call[c]
           i == cl.obj.id
           o == Recorded(cl.obj)
           d == Doc([o EXCEPT !.given = collection[i].given], writes + 1)
<1>1. CASE There(i) /\ Write(i, d) /\ Answered(c, SetDone(cl))
  <2>1. i \in EntityId /\ cl.obj \in ObjectType /\ Recordable(cl.obj) /\ TypesOK /\ writes \in Nat
    BY FineFacts DEF ObjectOK, StoreInv
  <2>2. o \in ObjectType /\ o.deleted = cl.obj.deleted /\ o.ver = cl.obj.ver
    BY <2>1, RecordedIs
  <2> HIDE DEF o
  <2>3. PICK p : p = [o EXCEPT !.given = collection[i].given]
    OBVIOUS
  <2>4. p.hist = o.hist /\ p.ver = o.ver /\ p.deleted = o.deleted /\ p.given = collection[i].given
    BY <2>2, <2>3 DEF ObjectType
  <2>5. PICK e : e = Doc(p, writes + 1)
    OBVIOUS
  <2>6. /\ e.hist = o.hist /\ e.ver = o.ver /\ e.deleted = o.deleted /\ e.given = collection[i].given
        /\ e.stamp = writes + 1
    BY <2>4, <2>5 DEF Doc
  <2>7. e # NoDoc
    <3>1. o.hist \in Seq(Val) /\ o.val \in Val \cup {Null} /\ p \in ObjectType
      <4>1. collection[i] \in Document
        BY <1>1, <2>1, DocumentIs
      <4>2. collection[i].given \in BOOLEAN
        BY <4>1 DEF Document
      <4> QED
        BY <2>2, <2>3, <4>2 DEF ObjectType
    <3>2. e \in Document
      BY <2>1, <2>5, <3>1 DEF Doc, Document, ObjectType
    <3> QED
      BY <3>2, NotADocument
  <2>8. collection' = [collection EXCEPT ![i] = e] /\ writes' = writes + 1
    BY <1>1, <2>3, <2>5 DEF Write
  <2>9. collection'[i] = e
    BY <2>1, <2>8 DEF TypesOK
  <2>10. cl.pc = "save" /\ UNCHANGED <<setting, numbers, known>>
    BY DEF Save
  <2> QED
    BY <1>1, <2>2, <2>6, <2>7, <2>8, <2>9, <2>10 DEF SavedAs, o
<1>2. CASE UNCHANGED <<collection, writes>>
  BY <1>2
<1> QED
  BY <1>1, <1>2 DEF Save, Unapplied, There

(* Which steps change what a client holds.                                 *)
Steps(c) ==
  \/ \E i \in EntityId : Query(c, i) \/ DeleteMutation(c, i)
  \/ \E i \in EntityId, v \in Val \cup {Null, Keep} : SetMutation(c, i, v)
  \/ \E i \in EntityId \cup {0}, v \in Val : CreateMutation(c, i, v)
  \/ \E op \in {"New", "BulkSet"}, ids \in Batches, v \in Val : BulkMutation(c, op, ids, v)
  \/ LoadForSet(c) \/ Parse(c) \/ SetGet(c) \/ NextVersion(c)
  \/ Save(c) \/ Insert(c) \/ DeleteObject(c) \/ RemoveDoc(c)

(* A step of the system is a step of one client.                           *)
LEMMA NextIs == EntityNext <=> \E c \in Client : Steps(c)
BY DEF EntityNext, Steps

(* A step is of one client.                                                *)
LEMMA OthersKeep ==
  ASSUME StoreInv, NEW c \in Client, Steps(c), NEW d \in Client, d # c
  PROVE  call'[d] = call[d] /\ known'[d] = known[d]
<1>1. call \in [Client -> CallType] /\ known \in [Client -> [ver : Int, stamp : Nat, id : 0..MaxEntityId]]
  BY DEF StoreInv, TypesOK
<1>2. \A r : Becomes(c, r) => call'[d] = call[d]
  BY <1>1 DEF Becomes
<1>3. CASE \E i \in EntityId : Query(c, i)
  BY <1>1, <1>3 DEF Query
<1>4. CASE \/ \E i \in EntityId : DeleteMutation(c, i)
           \/ \E i \in EntityId, v \in Val \cup {Null, Keep} : SetMutation(c, i, v)
           \/ \E i \in EntityId \cup {0}, v \in Val : CreateMutation(c, i, v)
           \/ \E op \in {"New", "BulkSet"}, ids \in Batches, v \in Val : BulkMutation(c, op, ids, v)
  BY <1>2, <1>4 DEF DeleteMutation, SetMutation, CreateMutation, BulkMutation, Start
<1>5. CASE \/ LoadForSet(c) \/ Parse(c) \/ SetGet(c) \/ NextVersion(c)
  BY <1>2, <1>5 DEF LoadForSet, Parse, SetGet, NextVersion, Unapplied
<1>6. CASE \/ Save(c) \/ Insert(c) \/ DeleteObject(c) \/ RemoveDoc(c)
  BY <1>2, <1>6 DEF Save, Insert, DeleteObject, RemoveDoc, Unapplied, Answered
<1> QED
  BY <1>3, <1>4, <1>5, <1>6 DEF Steps

(* A document is replaced by a write of its own, of one client.            *)
LEMMA ReplacesIs ==
  ASSUME StoreInv, EntityNext, NEW c \in Client, Replaces(c)
  PROVE  SavedAs(c) /\ Save(c)
<1>1. PICK e \in Client : Steps(e)
  BY NextIs
<1>2. c = e
  BY <1>1, OthersKeep DEF Replaces
<1>3. call[c].pc = "save" /\ collection' # collection
  BY DEF Replaces
<1>4. Save(c)
  <2>1. ~\E i \in EntityId : Query(c, i) \/ DeleteMutation(c, i)
    BY <1>3 DEF Query, DeleteMutation, Start
  <2>2. ~\E i \in EntityId, v \in Val \cup {Null, Keep} : SetMutation(c, i, v)
    BY <1>3 DEF SetMutation, Start
  <2>3. ~\E i \in EntityId \cup {0}, v \in Val : CreateMutation(c, i, v)
    BY <1>3 DEF CreateMutation, Start
  <2>4. ~\E op \in {"New", "BulkSet"}, ids \in Batches, v \in Val : BulkMutation(c, op, ids, v)
    BY <1>3 DEF BulkMutation, Start
  <2>5. ~(LoadForSet(c) \/ Parse(c) \/ SetGet(c) \/ NextVersion(c))
    BY <1>3 DEF LoadForSet, Parse, SetGet, NextVersion
  <2>6. ~(Insert(c) \/ DeleteObject(c) \/ RemoveDoc(c))
    BY <1>3 DEF Insert, DeleteObject, RemoveDoc
  <2> QED
    BY <1>1, <1>2, <2>1, <2>2, <2>3, <2>4, <2>5, <2>6 DEF Steps
<1> QED
  BY <1>3, <1>4, SaveIs

(* Appending loses no entry.                                               *)
LEMMA AppendedIsLonger ==
  ASSUME NEW h \in Seq(Val), NEW v \in Val
  PROVE  IsPrefix(h, h) /\ IsPrefix(h, Append(h, v))
<1>1. IsPrefix(h, h)
  BY DEF IsPrefix
<1>2. PICK g : g = Append(h, v)
  OBVIOUS
<1>3. g \in Seq(Val) /\ Len(g) = Len(h) + 1 /\ \A k \in 1..Len(h) : g[k] = h[k]
  BY <1>2
<1>4. SubSeq(g, 1, Len(h)) = SubSeq(h, 1, Len(h))
  BY <1>3
<1> QED
  BY <1>1, <1>2, <1>3, <1>4 DEF IsPrefix

(* Two things that a write may lose.                                       *)
LEMMA HistoryLossStep ==
  ASSUME StoreInv, EntityNext
  PROVE  HistoryLoss
<1> SUFFICES ASSUME NEW c \in Client, Replaces(c), call[c].obj.base = collection[call[c].obj.id].rev
             PROVE  IsPrefix(collection[call[c].obj.id].hist, collection'[call[c].obj.id].hist)
  BY DEF HistoryLoss
<1> DEFINE cl == call[c]
           i == cl.obj.id
<1>1. SavedAs(c)
  BY ReplacesIs
<1>2. cl.obj \in ObjectType /\ Recordable(cl.obj) /\ UpToDate(cl, collection, setting)
  BY FineFacts DEF ObjectOK, Fine
<1>3. cl.obj.hist = collection[i].hist
  BY <1>1, <1>2 DEF UpToDate, SavedAs, There
<1>4. PICK h \in Seq(Val) : h = cl.obj.hist
  BY <1>2 DEF ObjectType
<1>5. collection'[i].hist = Recorded(cl.obj).hist
  BY <1>1 DEF SavedAs
<1>6. Recorded(cl.obj).hist = h \/ (Recorded(cl.obj).hist = Append(h, cl.obj.val) /\ cl.obj.val \in Val)
  <2>1. CASE cl.obj.dirty
    <3>1. cl.obj.val \in Val
      BY <1>2, <2>1 DEF ObjectType, Recordable
    <3> QED
      BY <1>2, <1>4, <3>1, RecordedIs
  <2>2. CASE ~cl.obj.dirty
    BY <1>4, <2>2 DEF Recorded
  <2> QED
    BY <2>1, <2>2
<1>7. IsPrefix(h, Recorded(cl.obj).hist)
  <2>1. CASE Recorded(cl.obj).hist = h
    <3>1. IsPrefix(h, h)
      BY <1>4 DEF IsPrefix
    <3> QED
      BY <2>1, <3>1
  <2>2. CASE Recorded(cl.obj).hist = Append(h, cl.obj.val) /\ cl.obj.val \in Val
    <3>1. IsPrefix(h, Append(h, cl.obj.val))
      BY <1>4, <2>2, AppendedIsLonger
    <3> QED
      BY <2>2, <3>1
  <2> QED
    BY <1>6, <2>1, <2>2
<1> QED
  BY <1>3, <1>4, <1>5, <1>7

LEMMA RevivalStep ==
  ASSUME StoreInv, EntityNext
  PROVE  Revival
<1> SUFFICES ASSUME NEW i \in EntityId, There(i), collection[i].deleted, collection'[i] # NoDoc,
                    ~collection'[i].deleted, setting.field
             PROVE  \E c \in Client : Replaces(c) /\ call[c].obj.id = i /\ call[c].obj.base # collection[i].rev
  BY DEF Revival, There
<1>1. PICK c \in Client : Steps(c)
  BY NextIs
<1>2. collection'[i] # collection[i]
  OBVIOUS
<1> DEFINE cl == call[c]
           j == cl.obj.id
<1>3. /\ Fine(cl, collection, writes, setting) /\ CallOK(cl) /\ cl.obj.id \in EntityId /\ writes \in Nat
      /\ setting \in Settings /\ TypesOK
  BY FineFacts DEF StoreInv
<1>4. CASE Save(c)
  <2>1. SavedAs(c)
    BY <1>2, <1>4, SaveIs
  <2>2. j = i
    BY <1>2, <1>3, <2>1 DEF SavedAs, TypesOK
  <2>3. Replaces(c)
    <3>1. cl.pc = "save" /\ (Becomes(c, SetDone(cl)) \/ Becomes(c, CallFailed(cl)))
      BY <2>1 DEF SavedAs, Answered
    <3>2. SetDone(cl) # cl /\ CallFailed(cl) # cl
      BY <1>3, <3>1, SaveMovesOn
    <3>3. call'[c] # call[c]
      BY <1>3, <3>1, <3>2 DEF Becomes, TypesOK
    <3> QED
      BY <1>2, <3>1, <3>3 DEF Replaces
  <2>4. cl.obj.base # collection[i].rev
    BY <1>3, <2>1, <2>2 DEF Fine, UpToDate, SavedAs, There
  <2> QED
    BY <2>2, <2>3, <2>4
<1>5. CASE Insert(c)
  BY <1>2, <1>3, <1>5 DEF Insert, Unapplied, Write, There, TypesOK
<1>6. CASE RemoveDoc(c)
  <2>1. j = i /\ Write(i, IF setting.method = "delete" THEN NoDoc
                          ELSE [collection[i] EXCEPT !.deleted = TRUE, !.rev = writes + 1])
    BY <1>2, <1>3, <1>6 DEF RemoveDoc, Unapplied, Write, TypesOK
  <2>2. PICK x \in Document : x = collection[i]
    BY <1>3, DocumentIs
  <2>3. PICK e : e = [x EXCEPT !.deleted = TRUE, !.rev = writes + 1]
    OBVIOUS
  <2>4. e.deleted
    BY <2>3 DEF Document
  <2>5. collection'[i] = NoDoc \/ collection'[i] = e
    BY <1>3, <2>1, <2>2, <2>3 DEF Write, TypesOK
  <2> QED
    BY <2>4, <2>5
<1>7. CASE \E k \in EntityId : Query(c, k) \/ DeleteMutation(c, k)
  BY <1>2, <1>7 DEF Query, DeleteMutation, Start
<1>8. CASE \/ \E k \in EntityId, v \in Val \cup {Null, Keep} : SetMutation(c, k, v)
           \/ \E k \in EntityId \cup {0}, v \in Val : CreateMutation(c, k, v)
           \/ \E op \in {"New", "BulkSet"}, ids \in Batches, v \in Val : BulkMutation(c, op, ids, v)
  BY <1>2, <1>8 DEF SetMutation, CreateMutation, BulkMutation, Start
<1>9. CASE LoadForSet(c) \/ Parse(c) \/ SetGet(c) \/ NextVersion(c) \/ DeleteObject(c)
  BY <1>2, <1>9 DEF LoadForSet, Parse, SetGet, NextVersion, DeleteObject, Unapplied
<1> QED
  BY <1>1, <1>4, <1>5, <1>6, <1>7, <1>8, <1>9 DEF Steps

(* Entries of a history, and a mark, are lost only to an object that was   *)
(* loaded before a later write of its document.                            *)
THEOREM OverwritesAlwaysExplained == EntitySpec => OverwritesExplained
<1>1. StoreInv /\ [EntityNext]_entityVars => [HistoryLoss /\ Revival]_entityVars
  BY HistoryLossStep, RevivalStep
<1> QED
  BY <1>1, StoreInvAlways, PTL DEF EntitySpec, OverwritesExplained

-----------------------------------------------------------------------------
(* Identifiers of the sequence.                                            *)
LEMMA FreshInvInit == EntityInit => FreshInv
<1> SUFFICES ASSUME EntityInit PROVE FreshInv
  OBVIOUS
<1>1. \A c \in Client : call[c] = Idle
  BY DEF EntityInit
<1>2. \A c \in Client, k \in Nat : ~Fresh(call[c], idTwice, k)
  BY <1>1, IdleIs DEF Fresh, Creates
<1>3. \A i \in EntityId : There(i) => i = 1
  BY DEF EntityInit, There
<1>4. idSeq = 1
  BY DEF EntityInit
<1> QED
  BY <1>2, <1>3, <1>4 DEF FreshInv, EntityId

(* What a step has to see to, for its own client and for the documents.    *)
LEMMA FreshStep ==
  ASSUME StoreInv, FreshInv, idSeq' \in Nat, idSeq <= idSeq', idTwice \subseteq idTwice',
         NEW c \in Client, \A d \in Client : d # c => call'[d] = call[d],
         \A k \in Nat : Fresh(call'[c], idTwice', k) =>
           LET i == Nth(call'[c], k).id
           IN  /\ i \in EntityId /\ i <= idSeq'
               /\ i > idSeq \/ \E l \in Nat : Fresh(call[c], idTwice, l) /\ Nth(call[c], l).id = i,
         \A k, l \in Nat : Fresh(call'[c], idTwice', k) /\ Fresh(call'[c], idTwice', l) /\ Nth(call'[c], k).id = Nth(call'[c], l).id => k = l,
         \A i \in EntityId : collection'[i] # NoDoc =>
           \/ There(i) /\ collection'[i].given = collection[i].given
           \/ collection'[i].given \/ i \in idTwice
           \/ /\ Fresh(call[c], idTwice, 0) /\ i = Nth(call[c], 0).id
              /\ \A k \in Nat : Fresh(call'[c], idTwice', k) => Nth(call'[c], k).id # i
  PROVE  FreshInv'
<1>0. idSeq \in Nat /\ idTwice \subseteq 1..idSeq
  BY DEF StoreInv, TypesOK, NumbersTyped, EntityId
<1>1. \A i \in EntityId : collection'[i] # NoDoc /\ ~collection'[i].given => i <= idSeq'
  <2> SUFFICES ASSUME NEW i \in EntityId, collection'[i] # NoDoc, ~collection'[i].given
               PROVE  i <= idSeq'
    OBVIOUS
  <2>1. CASE There(i) /\ collection'[i].given = collection[i].given
    BY <1>0, <2>1 DEF FreshInv, EntityId
  <2>2. CASE Fresh(call[c], idTwice, 0) /\ i = Nth(call[c], 0).id
    BY <1>0, <2>2 DEF FreshInv, EntityId
  <2>3. CASE i \in idTwice
    BY <1>0, <2>3
  <2> QED
    BY <2>1, <2>2, <2>3
<1>2. ASSUME NEW d \in Client, NEW k \in Nat, Fresh(call'[d], idTwice', k), NEW i, i = Nth(call'[d], k).id
      PROVE  i \in EntityId /\ i <= idSeq' /\ (collection'[i] # NoDoc => collection'[i].given)
  <2>0. i \notin idTwice
    BY <1>2 DEF Fresh
  <2>1. CASE d = c
    <3>1. /\ i \in EntityId /\ i <= idSeq'
          /\ i > idSeq \/ \E l \in Nat : Fresh(call[c], idTwice, l) /\ Nth(call[c], l).id = i
      BY <1>2, <2>1
    <3>2. There(i) => collection[i].given
      <4>1. CASE i > idSeq
        BY <1>0, <3>1, <4>1 DEF FreshInv, EntityId
      <4>2. CASE \E l \in Nat : Fresh(call[c], idTwice, l) /\ Nth(call[c], l).id = i
        BY <4>2 DEF FreshInv
      <4> QED
        BY <3>1, <4>1, <4>2
    <3> QED
      BY <1>2, <2>0, <2>1, <3>1, <3>2
  <2>2. CASE d # c
    <3>1. Fresh(call[d], idTwice, k) /\ i = Nth(call[d], k).id
      BY <1>2, <2>2 DEF Fresh
    <3>2. i <= idSeq /\ (There(i) => collection[i].given)
      BY <3>1 DEF FreshInv
    <3>3. call[d] \in CallType /\ ~Parsing(call[d]) /\ CallOK(call[d])
      BY <3>1, FineFacts DEF Fresh, Creates, Parsing
    <3>4. i \in EntityId
      <4>1. call[d].todo \in Seq(ObjectType) /\ call[d].obj \in ObjectType /\ k \in 0..Len(call[d].todo)
        BY <3>1, <3>3 DEF CallOK, CallType, Fresh
      <4>2. Nth(call[d], k) \in ObjectType
        BY <4>1 DEF Nth
      <4> QED
        BY <3>1, <4>2 DEF ObjectType
    <3>5. ~(Fresh(call[c], idTwice, 0) /\ i = Nth(call[c], 0).id)
      BY <2>2, <3>1 DEF FreshInv
    <3>6. collection'[i] # NoDoc => collection'[i].given
      BY <2>0, <3>2, <3>4, <3>5
    <3> QED
      BY <1>0, <3>2, <3>4, <3>6 DEF EntityId
  <2> QED
    BY <2>1, <2>2
<1>3. ASSUME NEW d \in Client, NEW k \in Nat, NEW l \in Nat, d # c, Fresh(call[d], idTwice, k), Fresh(call'[c], idTwice', l)
      PROVE  Nth(call[d], k).id # Nth(call'[c], l).id
  <2>1. Nth(call[d], k).id <= idSeq
    BY <1>3 DEF FreshInv
  <2>2. CASE Nth(call'[c], l).id > idSeq /\ Nth(call'[c], l).id \in EntityId
    BY <1>0, <2>1, <2>2 DEF EntityId
  <2>3. CASE \E m \in Nat : Fresh(call[c], idTwice, m) /\ Nth(call[c], m).id = Nth(call'[c], l).id
    BY <1>3, <2>3 DEF FreshInv
  <2> QED
    BY <1>3, <2>2, <2>3
<1>4. ASSUME NEW d \in Client, NEW e \in Client, NEW k \in Nat, NEW l \in Nat,
             Fresh(call'[d], idTwice', k), Fresh(call'[e], idTwice', l), Nth(call'[d], k).id = Nth(call'[e], l).id
      PROVE  d = e /\ k = l
  <2>1. CASE d = c /\ e = c
    BY <1>4, <2>1
  <2>0. /\ d # c => call'[d] = call[d] /\ Fresh(call[d], idTwice, k)
        /\ e # c => call'[e] = call[e] /\ Fresh(call[e], idTwice, l)
    BY <1>4 DEF Fresh
  <2>2. CASE d # c /\ e = c
    BY <1>3, <1>4, <2>0, <2>2
  <2>3. CASE d = c /\ e # c
    BY <1>3, <1>4, <2>0, <2>3
  <2>4. CASE d # c /\ e # c
    BY <1>4, <2>0, <2>4 DEF FreshInv
  <2> QED
    BY <2>1, <2>2, <2>3, <2>4
<1> QED
  BY <1>1, <1>2, <1>4 DEF FreshInv, There

(* A step that leaves its client without objects to create.                *)
LEMMA FreshOther ==
  ASSUME StoreInv, FreshInv, NEW c \in Client, \A d \in Client : d # c => call'[d] = call[d],
         ~Creates(call'[c]), idSeq' \in Nat, idSeq <= idSeq', idTwice \subseteq idTwice',
         \A i \in EntityId : collection'[i] # NoDoc => There(i) /\ collection'[i].given = collection[i].given
  PROVE  FreshInv'
<1>1. \A k \in Nat : ~Fresh(call'[c], idTwice', k)
  BY DEF Fresh
<1> QED
  BY <1>1, FreshStep

(* The objects of a request after the first is done.                       *)
LEMMA ShiftIs ==
  ASSUME setting \in Settings, NEW cl \in CallType, cl.op = "New", cl.todo \in Seq(ObjectType),
         NEW tw, NEW k \in Nat, Fresh(Continue(cl), tw, k)
  PROVE  /\ k + 1 \in 1..Len(cl.todo) /\ ~cl.todo[k + 1].given
         /\ Nth(Continue(cl), k).id = cl.todo[k + 1].id
<1> DEFINE r == Continue(cl)
<1>1. r # Idle
  BY IdleIs DEF Fresh, Creates
<1>2. cl.todo # <<>> /\ r.todo = Tail(cl.todo) /\ SameButVersion(r.obj, Head(cl.todo))
  BY <1>1, ContinueIs
<1> HIDE DEF r
<1>3. k \in 0..Len(Tail(cl.todo)) /\ ~Nth(r, k).given
  BY <1>2 DEF Fresh, r
<1>4. k + 1 \in 1..Len(cl.todo)
  BY <1>2, <1>3
<1>5. CASE k = 0
  <2>1. Head(cl.todo) = cl.todo[1] /\ Nth(r, k) = r.obj
    BY <1>2, <1>5 DEF Nth
  <2> QED
    BY <1>2, <1>3, <1>4, <1>5, <2>1 DEF SameButVersion, r
<1>6. CASE k # 0
  <2>1. Nth(r, k) = Tail(cl.todo)[k]
    BY <1>2, <1>6 DEF Nth
  <2>2. Tail(cl.todo)[k] = cl.todo[k + 1]
    BY <1>2, <1>3, <1>6
  <2> QED
    BY <1>3, <1>4, <2>1, <2>2 DEF r
<1> QED
  BY <1>5, <1>6

(* Every step keeps the identifiers fresh.                                 *)
LEMMA FreshInvStep ==
  ASSUME StoreInv, FreshInv, NEW c \in Client, Steps(c)
  PROVE  FreshInv'
<1> DEFINE cl == call[c]
<1>0. /\ Fine(cl, collection, writes, setting) /\ CallOK(cl) /\ cl \in CallType
      /\ writes \in Nat /\ setting \in Settings /\ idSeq \in EntityId /\ idSeq \in Nat /\ TypesOK
      /\ cl.obj \in ObjectType /\ cl.obj.id \in EntityId
  BY FineFacts DEF StoreInv, EntityId
<1>1. \A d \in Client : d # c => call'[d] = call[d]
  BY OthersKeep
<1>2. \A r : Becomes(c, r) => call'[c] = r
  BY <1>0 DEF Becomes, TypesOK
<1>3. ~Creates(Idle)
  BY IdleIs DEF Creates
<1>4. ~Creates(CallFailed(cl))
  BY <1>0, <1>3, CallFailedIs DEF Drops, Creates
<1>5. ASSUME Unapplied(c), idSeq' \in Nat, idSeq <= idSeq', idTwice \subseteq idTwice'
      PROVE  FreshInv'
  BY <1>1, <1>2, <1>4, <1>5, FreshOther DEF Unapplied, There
<1>6. CASE \E i \in EntityId : Query(c, i)
  <2>1. UNCHANGED <<call, collection, idSeq, idTwice>>
    BY <1>6, NumbersStay DEF Query
  <2> QED
    BY <2>1 DEF FreshInv, There
<1>7. CASE \/ \E i \in EntityId : DeleteMutation(c, i)
           \/ \E i \in EntityId, v \in Val \cup {Null, Keep} : SetMutation(c, i, v)
           \/ \E i \in EntityId \cup {0}, v \in Val : CreateMutation(c, i, v)
           \/ \E op \in {"New", "BulkSet"}, ids \in Batches, v \in Val : BulkMutation(c, op, ids, v)
  <2>1. PICK r : Start(c, r) /\ (r.pc = "parse" \/ r.op \in {"Set", "Delete"})
    <3>0. Idle \in CallType
      BY IdleIs
    <3> HIDE DEF Idle
    <3>1. ASSUME NEW i \in EntityId, DeleteMutation(c, i)
          PROVE  \E r : Start(c, r) /\ (r.pc = "parse" \/ r.op \in {"Set", "Delete"})
      <4>1. \A o : [Idle EXCEPT !.pc = "load", !.op = "Delete", !.obj = o].op = "Delete"
        BY <3>0 DEF CallType
      <4>2. \E o : Start(c, [Idle EXCEPT !.pc = "load", !.op = "Delete", !.obj = o])
        BY <3>1 DEF DeleteMutation
      <4> QED
        BY <4>1, <4>2
    <3>2. ASSUME NEW i \in EntityId, NEW v \in Val \cup {Null, Keep}, SetMutation(c, i, v)
          PROVE  \E r : Start(c, r) /\ (r.pc = "parse" \/ r.op \in {"Set", "Delete"})
      <4>1. \A q : LET r == [Idle EXCEPT !.pc = "load", !.op = "Set", !.todo = q] IN r.op = "Set"
        BY <3>0 DEF CallType
      <4>2. \E q : Start(c, [Idle EXCEPT !.pc = "load", !.op = "Set", !.todo = q])
        BY <3>2 DEF SetMutation
      <4> QED
        BY <4>1, <4>2
    <3>3. ASSUME NEW i \in EntityId \cup {0}, NEW v \in Val, CreateMutation(c, i, v)
          PROVE  \E r : Start(c, r) /\ (r.pc = "parse" \/ r.op \in {"Set", "Delete"})
      <4>1. \A q : [Idle EXCEPT !.pc = "parse", !.op = "New", !.todo = q].pc = "parse"
        BY <3>0 DEF CallType
      <4>2. \E q : Start(c, [Idle EXCEPT !.pc = "parse", !.op = "New", !.todo = q])
        BY <3>3 DEF CreateMutation
      <4> QED
        BY <4>1, <4>2
    <3>4. ASSUME NEW op \in {"New", "BulkSet"}, NEW ids \in Batches, NEW v \in Val, BulkMutation(c, op, ids, v)
          PROVE  \E r : Start(c, r) /\ (r.pc = "parse" \/ r.op \in {"Set", "Delete"})
      <4>1. \A q : [Idle EXCEPT !.pc = "parse", !.op = op, !.todo = q].pc = "parse"
        BY <3>0 DEF CallType
      <4>2. \E q : Start(c, [Idle EXCEPT !.pc = "parse", !.op = op, !.todo = q])
        BY <3>4 DEF BulkMutation
      <4> QED
        BY <4>1, <4>2
    <3> QED
      BY <1>7, <3>1, <3>2, <3>3, <3>4
  <2>2. ~Creates(call'[c]) /\ UNCHANGED <<collection, idSeq, idTwice>>
    BY <1>2, <2>1, NumbersStay DEF Start, Creates
  <2> QED
    BY <1>0, <1>1, <2>2, FreshOther DEF There
<1>8. CASE LoadForSet(c)
  <2>0. UNCHANGED idTwice
    BY <1>8 DEF LoadForSet
  <2>1. CASE Unapplied(c)
    <3>1. idSeq' \in Nat /\ idSeq <= idSeq'
      BY <1>0, <1>8 DEF LoadForSet
    <3> QED
      BY <1>5, <2>0, <2>1, <3>1
  <2>2. CASE ~Unapplied(c)
    <3>2. UNCHANGED collection /\ idSeq' \in Nat /\ idSeq <= idSeq' /\ cl.op = "Set"
      BY <1>0, <1>8, <2>2 DEF LoadForSet
    <3>3. \E p : Becomes(c, [cl EXCEPT !.pc = "get", !.todo = <<>>, !.obj = p])
      BY <1>8, <2>2 DEF LoadForSet
    <3>4. \A p : [cl EXCEPT !.pc = "get", !.todo = <<>>, !.obj = p].op = cl.op
      BY <1>0 DEF CallType
    <3>1. UNCHANGED collection /\ idSeq' \in Nat /\ idSeq <= idSeq' /\ call'[c].op = cl.op /\ cl.op = "Set"
      BY <1>2, <3>2, <3>3, <3>4
    <3> QED
      BY <1>1, <2>0, <3>1, FreshOther DEF Creates, There
  <2> QED
    BY <2>1, <2>2
<1>9. CASE SetGet(c)
  <2>0. UNCHANGED <<idSeq, idTwice>>
    BY <1>9, NumbersStay DEF SetGet
  <2>1. CASE Unapplied(c)
    BY <1>0, <1>5, <2>0, <2>1
  <2>2. cl.op # "New" /\ UNCHANGED <<idSeq, idTwice, collection>>
    BY <1>0, <1>9, <2>0 DEF SetGet, CallOK, Unapplied
  <2>3. CASE Becomes(c, CallFailed(cl))
    BY <1>0, <1>1, <1>2, <1>4, <2>2, <2>3, FreshOther DEF There
  <2>4. ASSUME NEW stamp, NEW warned, There(cl.obj.id), stamp = collection[cl.obj.id].stamp, warned \in BOOLEAN,
               Becomes(c, ToStore([cl EXCEPT !.got = stamp, !.warned = warned], cl.obj))
        PROVE  FreshInv'
    <3>1. stamp \in Nat
      BY <1>0, <2>4, DocumentIs DEF Document
    <3>2. PICK l : l = [cl EXCEPT !.got = stamp, !.warned = warned]
      OBVIOUS
    <3>3. l \in CallType /\ l.op = cl.op
      BY <1>0, <2>4, <3>1, <3>2 DEF CallType
    <3>4. call'[c] = ToStore(l, cl.obj) /\ ToStore(l, cl.obj).op = cl.op
      BY <1>0, <1>2, <2>4, <3>2, <3>3, ToStoreIs
    <3>5. ~Creates(call'[c])
      BY <2>2, <3>4 DEF Creates
    <3> QED
      BY <1>0, <1>1, <2>2, <3>5, FreshOther DEF There
  <2> QED
    BY <1>9, <2>1, <2>3, <2>4 DEF SetGet, There
<1>10. CASE DeleteObject(c)
  <2>0. UNCHANGED <<idSeq, idTwice>>
    BY <1>10, NumbersStay DEF DeleteObject
  <2>1. CASE Unapplied(c)
    BY <1>0, <1>5, <2>0, <2>1
  <2>2. UNCHANGED <<idSeq, idTwice, collection>> /\ cl.op = "Delete"
    BY <1>10, <2>0 DEF DeleteObject, Unapplied
  <2>3. CASE Becomes(c, CallFailed(cl))
    BY <1>0, <1>1, <1>2, <1>4, <2>2, <2>3, FreshOther DEF There
  <2>4. CASE ~Unapplied(c) /\ ~Becomes(c, CallFailed(cl))
    <3>1. call'[c].op = cl.op
      BY <1>0, <1>2, <1>10, <2>4 DEF DeleteObject, CallType
    <3> QED
      BY <1>0, <1>1, <2>2, <3>1, FreshOther DEF Creates, There
  <2> QED
    BY <2>1, <2>3, <2>4
<1>11. CASE Save(c)
  <2>0. UNCHANGED <<idSeq, idTwice>>
    BY <1>11, NumbersStay DEF Save
  <2>1. CASE Unapplied(c)
    BY <1>0, <1>5, <2>0, <2>1
  <2>2. cl.pc = "save" /\ cl.op # "New" /\ UNCHANGED <<idSeq, idTwice>> /\ cl.todo \in Seq(ObjectType)
    BY <1>0, <1>11, <2>0 DEF Save, CallOK, Parsing
  <2>3. ~Creates(SetDone(cl))
    <3>1. CASE cl.op = "Delete"
      BY <1>0, <3>1, SetDoneIs DEF Creates
    <3>2. CASE cl.op # "Delete"
      <4>1. PICK r : r = Continue(cl)
        OBVIOUS
      <4>2. r = Idle \/ r.op = cl.op
        BY <1>0, <1>3, <2>2, <4>1, ContinueIs
      <4>3. r.op # "New"
        BY <2>2, <4>2 DEF Idle
      <4>4. SetDone(cl) = r
        BY <3>2, <4>1 DEF SetDone
      <4> QED
        BY <4>3, <4>4 DEF Creates
    <3> QED
      BY <3>1, <3>2
  <2>4. CASE Answered(c, SetDone(cl))
    <3>1. ~Creates(call'[c])
      BY <1>2, <1>4, <2>3, <2>4 DEF Answered
    <3>2. \A i \in EntityId : collection'[i] # NoDoc => There(i) /\ collection'[i].given = collection[i].given
      <4>1. CASE SavedAs(c)
        BY <1>0, <4>1 DEF SavedAs, TypesOK, There
      <4>2. CASE UNCHANGED collection
        BY <4>2 DEF There
      <4> QED
        BY <1>11, <4>1, <4>2, SaveIs
    <3> QED
      BY <1>0, <1>1, <2>2, <3>1, <3>2, FreshOther
  <2> QED
    BY <1>11, <2>1, <2>4 DEF Save
<1>12. CASE RemoveDoc(c)
  <2>0. UNCHANGED <<idSeq, idTwice>>
    BY <1>12, NumbersStay DEF RemoveDoc
  <2>1. CASE Unapplied(c)
    BY <1>0, <1>5, <2>0, <2>1
  <2>2. CASE Answered(c, Idle)
    <3>1. ~Creates(call'[c]) /\ UNCHANGED <<idSeq, idTwice>>
      BY <1>2, <1>3, <1>4, <2>0, <2>2 DEF Answered
    <3>2. \A i \in EntityId : collection'[i] # NoDoc => There(i) /\ collection'[i].given = collection[i].given
      <4> SUFFICES ASSUME NEW i \in EntityId, collection'[i] # NoDoc
                   PROVE  There(i) /\ collection'[i].given = collection[i].given
        OBVIOUS
      <4>1. CASE collection'[i] = collection[i]
        BY <4>1 DEF There
      <4>2. CASE collection'[i] # collection[i]
        <5>1. /\ There(i)
              /\ collection'[i] = [collection[i] EXCEPT !.deleted = TRUE, !.rev = writes + 1]
          BY <1>0, <1>12, <4>2 DEF RemoveDoc, Unapplied, Write, There, TypesOK
        <5>2. PICK x \in Document : x = collection[i]
          BY <1>0, <5>1, DocumentIs
        <5>3. [x EXCEPT !.deleted = TRUE, !.rev = writes + 1].given = x.given
          BY DEF Document
        <5> QED
          BY <5>1, <5>2, <5>3
      <4> QED
        BY <4>1, <4>2
    <3> QED
      BY <1>0, <1>1, <3>1, <3>2, FreshOther
  <2> QED
    BY <1>12, <2>1, <2>2 DEF RemoveDoc
<1>13. CASE NextVersion(c)
  <2>1. CASE Unapplied(c)
    <3>1. UNCHANGED <<idSeq, idTwice>>
      BY <1>13 DEF NextVersion
    <3> QED
      BY <1>0, <1>5, <2>1, <3>1
  <2>2. ASSUME NEW n \in Int, NEW r, r = [cl EXCEPT !.pc = Stores(cl), !.obj = [@ EXCEPT !.ver = n]], Becomes(c, r)
        PROVE  FreshInv'
    <3>1. PICK p : p = [cl.obj EXCEPT !.ver = n]
      OBVIOUS
    <3>2. p \in ObjectType /\ p.id = cl.obj.id /\ p.given = cl.obj.given
      BY <1>0, <3>1 DEF ObjectType
    <3>3. r = [cl EXCEPT !.pc = Stores(cl), !.obj = p]
      BY <1>0, <2>2, <3>1 DEF CallType
    <3>4. r.op = cl.op /\ r.todo = cl.todo /\ r.obj = p
      BY <1>0, <3>2, <3>3 DEF CallType
    <3>5. cl.pc = "next" /\ UNCHANGED <<collection, idSeq, idTwice>>
      BY <1>13 DEF NextVersion, Unapplied
    <3>6. \A k \in Nat : /\ Nth(r, k).id = Nth(cl, k).id
                         /\ Fresh(r, idTwice', k) => Fresh(cl, idTwice, k)
      BY <3>2, <3>4, <3>5 DEF Nth, Fresh, Creates
    <3>7. call'[c] = r
      BY <1>2, <2>2
    <3>8. \A k \in Nat : Fresh(r, idTwice', k) => Nth(cl, k).id \in EntityId /\ Nth(cl, k).id <= idSeq
      <4> SUFFICES ASSUME NEW k \in Nat, Fresh(r, idTwice', k) PROVE Nth(cl, k).id \in EntityId /\ Nth(cl, k).id <= idSeq
        OBVIOUS
      <4>1. Fresh(cl, idTwice, k)
        BY <3>6
      <4>2. Nth(cl, k).id <= idSeq
        BY <4>1 DEF FreshInv
      <4>3. cl.todo \in Seq(ObjectType)
        BY <1>0, <3>5 DEF CallOK, Parsing
      <4>4. Nth(cl, k) \in ObjectType
        BY <1>0, <4>1, <4>3 DEF Nth, Fresh
      <4> QED
        BY <4>2, <4>4 DEF ObjectType
    <3>9. \A k, l \in Nat : Fresh(r, idTwice', k) /\ Fresh(r, idTwice', l) /\ Nth(r, k).id = Nth(r, l).id => k = l
      BY <3>6 DEF FreshInv
    <3>10. \A k \in Nat : Fresh(r, idTwice', k) =>
             LET i == Nth(r, k).id
             IN  /\ i \in EntityId /\ i <= idSeq'
                 /\ i > idSeq \/ \E l \in Nat : Fresh(cl, idTwice, l) /\ Nth(cl, l).id = i
      BY <3>5, <3>6, <3>8
    <3>11. \A i \in EntityId : collection'[i] # NoDoc => There(i) /\ collection'[i].given = collection[i].given
      BY <3>5 DEF There
    <3> QED
      BY <1>0, <1>1, <3>5, <3>7, <3>9, <3>10, <3>11, FreshStep
  <2>3. verSeq + 1 \in Int /\ {-1} \cup 1..verSeq \subseteq Int
    BY FineFacts
  <2> DEFINE Versioned(n) == [cl EXCEPT !.pc = Stores(cl), !.obj = [@ EXCEPT !.ver = n]]
  <2>4. \/ Unapplied(c) \/ Becomes(c, Versioned(verSeq + 1))
        \/ \E again \in {-1} \cup 1..verSeq : Becomes(c, Versioned(again))
    BY <1>13 DEF NextVersion
  <2>5. \A n \in Int : Becomes(c, Versioned(n)) => FreshInv'
    BY <2>2
  <2> HIDE DEF Versioned
  <2> QED
    BY <2>1, <2>3, <2>4, <2>5
<1>14. CASE Parse(c)
  <2>1. CASE ParseFails(c)
    BY <1>0, <1>5, <2>1 DEF ParseFails
  <2>2. CASE ~ParseFails(c)
    <3> DEFINE n == Len(cl.todo)
    <3>0. /\ idSeq' = idSeq + n /\ idSeq' \in EntityId /\ idTwice \subseteq idTwice' /\ UNCHANGED collection
          /\ cl.todo \in Seq(InputType) /\ (\A k \in 1..n : cl.todo[k].ver = Keep)
          /\ \E f, q : ParsedWith(c, f, q)
      BY <1>14, <2>2, ParseIs DEF NumbersTyped
    <3>7. PICK f, q : ParsedWith(c, f, q)
      BY <3>0
    <3> DEFINE l == [cl EXCEPT !.todo = q]
    <3>1. /\ idSeq' = idSeq + n /\ idSeq' \in EntityId /\ idTwice \subseteq idTwice' /\ UNCHANGED collection
          /\ cl.todo \in Seq(InputType) /\ (\A k \in 1..n : cl.todo[k].ver = Keep)
          /\ Becomes(c, Continue(l)) /\ NewObjects(q, writes, setting) /\ Len(q) = n
          /\ (\A k \in 1..Len(q) : /\ q[k] = NewObject(cl.todo[k], f[k]) /\ f[k] \in EntityId
                                   /\ f[k] = idSeq + k \/ f[k] \in idTwice')
          /\ l \in CallType /\ l.todo = q /\ l.op = cl.op
      BY <3>0, <3>7 DEF ParsedWith
    <3>2. n \in Nat /\ (\A k \in 1..n : cl.todo[k] \in InputType) /\ q \in Seq(ObjectType)
      BY <3>1 DEF NewObjects
    <3> HIDE DEF n, l
    <3>3. \A k \in 1..n : ~q[k].given /\ q[k].id \notin idTwice' => q[k].id = idSeq + k /\ idSeq + k \in EntityId
      <4> SUFFICES ASSUME NEW k \in 1..n, ~q[k].given, q[k].id \notin idTwice'
                   PROVE  q[k].id = idSeq + k /\ idSeq + k \in EntityId
        OBVIOUS
      <4>1. PICK inp \in InputType : inp = cl.todo[k]
        BY <3>2
      <4>2. PICK i \in EntityId : i = f[k] /\ (i = idSeq + k \/ i \in idTwice')
        BY <3>1
      <4>3. inp.ver = Keep /\ q[k] = NewObject(inp, i)
        BY <3>1, <4>1, <4>2
      <4> QED
        BY <4>2, <4>3, NewObjectIs
    <3>4. call'[c] = Continue(l)
      BY <1>2, <3>1
    <3>5. CASE cl.op = "New"
      <4>1. ASSUME NEW k \in Nat, Fresh(call'[c], idTwice', k)
            PROVE  k + 1 \in 1..n /\ Nth(call'[c], k).id = idSeq + (k + 1) /\ idSeq + (k + 1) \in EntityId
        <5>1. k + 1 \in 1..Len(l.todo) /\ ~l.todo[k + 1].given /\ Nth(call'[c], k).id = l.todo[k + 1].id
          BY <1>0, <3>1, <3>2, <3>4, <3>5, <4>1, ShiftIs
        <5>2. Nth(call'[c], k).id \notin idTwice'
          BY <4>1 DEF Fresh
        <5> QED
          BY <3>1, <3>3, <5>1, <5>2
      <4>2. \A k \in Nat : Fresh(call'[c], idTwice', k) =>
              LET i == Nth(call'[c], k).id
              IN  /\ i \in EntityId /\ i <= idSeq'
                  /\ i > idSeq \/ \E m \in Nat : Fresh(cl, idTwice, m) /\ Nth(cl, m).id = i
        <5> SUFFICES ASSUME NEW k \in Nat, Fresh(call'[c], idTwice', k)
                     PROVE  LET i == Nth(call'[c], k).id IN i \in EntityId /\ i <= idSeq' /\ i > idSeq
          OBVIOUS
        <5>1. k + 1 \in 1..n /\ Nth(call'[c], k).id = idSeq + (k + 1) /\ idSeq + (k + 1) \in EntityId
          BY <4>1
        <5> QED
          BY <1>0, <3>1, <3>2, <5>1
      <4>3. \A k, m \in Nat : Fresh(call'[c], idTwice', k) /\ Fresh(call'[c], idTwice', m)
                                /\ Nth(call'[c], k).id = Nth(call'[c], m).id => k = m
        BY <1>0, <4>1
      <4>4. \A i \in EntityId : collection'[i] # NoDoc => There(i) /\ collection'[i].given = collection[i].given
        BY <3>1 DEF There
      <4> QED
        BY <1>0, <1>1, <3>1, <3>2, <4>2, <4>3, <4>4, FreshStep
    <3>6. CASE cl.op # "New"
      <4>1. ~Creates(Continue(l))
        BY <1>0, <1>3, <3>1, <3>2, <3>6, ContinueIs DEF Creates
      <4> QED
        BY <1>0, <1>1, <3>1, <3>2, <3>4, <4>1, FreshOther DEF There
    <3> QED
      BY <3>5, <3>6
  <2> QED
    BY <2>1, <2>2
<1>15. CASE Insert(c)
  <2>0. UNCHANGED <<idSeq, idTwice>>
    BY <1>15, NumbersStay DEF Insert
  <2>1. CASE Unapplied(c)
    BY <1>0, <1>5, <2>0, <2>1
  <2>2. CASE Becomes(c, CallFailed(cl)) /\ UNCHANGED collection
    BY <1>0, <1>1, <1>2, <1>4, <2>0, <2>2, FreshOther DEF There
  <2>3. CASE ~There(cl.obj.id) /\ Write(cl.obj.id, Doc(cl.obj, writes + 1)) /\ Answered(c, Continue(cl))
    <3>1. /\ cl.pc = "insert" /\ cl.op = "New" /\ UNCHANGED <<idSeq, idTwice>> /\ cl.todo \in Seq(ObjectType)
          /\ Creates(cl)
      BY <1>0, <1>15, <2>0 DEF Insert, CallOK, Parsing, Creates
    <3>2. call'[c] = Continue(cl) \/ call'[c] = Idle
      <4>1. CallFailed(cl) = Idle
        BY <3>1 DEF CallFailed
      <4> QED
        BY <1>2, <2>3, <4>1 DEF Answered
    <3>3. ASSUME NEW k \in Nat, Fresh(call'[c], idTwice', k)
          PROVE  Fresh(cl, idTwice, k + 1) /\ Nth(call'[c], k).id = Nth(cl, k + 1).id /\ Nth(cl, k + 1).id \in EntityId
      <4>1. call'[c] = Continue(cl)
        BY <1>3, <3>2, <3>3 DEF Fresh
      <4>2. k + 1 \in 1..Len(cl.todo) /\ ~cl.todo[k + 1].given /\ Nth(call'[c], k).id = cl.todo[k + 1].id
        BY <1>0, <3>1, <3>3, <4>1, ShiftIs
      <4>5. Nth(call'[c], k).id \notin idTwice
        BY <3>1, <3>3 DEF Fresh
      <4>3. Nth(cl, k + 1) = cl.todo[k + 1] /\ cl.todo[k + 1] \in ObjectType
        BY <3>1, <4>2 DEF Nth
      <4>4. k + 1 \in 0..Len(cl.todo)
        BY <4>2
      <4> QED
        BY <3>1, <4>2, <4>3, <4>4, <4>5 DEF Fresh, ObjectType
    <3>4. \A k \in Nat : Fresh(call'[c], idTwice', k) =>
              LET i == Nth(call'[c], k).id
              IN  /\ i \in EntityId /\ i <= idSeq'
                  /\ i > idSeq \/ \E m \in Nat : Fresh(cl, idTwice, m) /\ Nth(cl, m).id = i
      <4> SUFFICES ASSUME NEW k \in Nat, Fresh(call'[c], idTwice', k)
                   PROVE  LET i == Nth(call'[c], k).id
                          IN  i \in EntityId /\ i <= idSeq' /\ \E m \in Nat : Fresh(cl, idTwice, m) /\ Nth(cl, m).id = i
        OBVIOUS
      <4>1. k + 1 \in Nat /\ Fresh(cl, idTwice, k + 1) /\ Nth(call'[c], k).id = Nth(cl, k + 1).id /\ Nth(cl, k + 1).id \in EntityId
        BY <3>3
      <4>2. Nth(cl, k + 1).id <= idSeq
        BY <4>1 DEF FreshInv
      <4> QED
        BY <3>1, <4>1, <4>2
    <3>5. \A k, m \in Nat : Fresh(call'[c], idTwice', k) /\ Fresh(call'[c], idTwice', m)
                              /\ Nth(call'[c], k).id = Nth(call'[c], m).id => k = m
      <4> SUFFICES ASSUME NEW k \in Nat, NEW m \in Nat, Fresh(call'[c], idTwice', k), Fresh(call'[c], idTwice', m),
                          Nth(call'[c], k).id = Nth(call'[c], m).id
                   PROVE  k = m
        OBVIOUS
      <4>1. Fresh(cl, idTwice, k + 1) /\ Fresh(cl, idTwice, m + 1) /\ Nth(cl, k + 1).id = Nth(cl, m + 1).id /\ k + 1 \in Nat /\ m + 1 \in Nat
        BY <3>3
      <4>2. k + 1 = m + 1
        BY <4>1 DEF FreshInv
      <4> QED
        BY <4>2
    <3>6. PICK e : e = Doc(cl.obj, writes + 1)
      OBVIOUS
    <3>7. e.given = cl.obj.given
      BY <3>6 DEF Doc
    <3>8. \A i \in EntityId : collection'[i] = IF i = cl.obj.id THEN e ELSE collection[i]
      BY <1>0, <2>3, <3>6 DEF Write, TypesOK
    <3>9. \A i \in EntityId : collection'[i] # NoDoc =>
            \/ There(i) /\ collection'[i].given = collection[i].given
            \/ collection'[i].given \/ i \in idTwice
            \/ /\ Fresh(cl, idTwice, 0) /\ i = Nth(cl, 0).id
               /\ \A k \in Nat : Fresh(call'[c], idTwice', k) => Nth(call'[c], k).id # i
      <4> SUFFICES ASSUME NEW i \in EntityId, collection'[i] # NoDoc, i = cl.obj.id, ~cl.obj.given, i \notin idTwice
                   PROVE  /\ Fresh(cl, idTwice, 0) /\ i = Nth(cl, 0).id
                          /\ \A k \in Nat : Fresh(call'[c], idTwice', k) => Nth(call'[c], k).id # i
        BY <3>7, <3>8 DEF There
      <4>1. Len(cl.todo) \in Nat
        BY <3>1
      <4>2. Fresh(cl, idTwice, 0) /\ i = Nth(cl, 0).id
        BY <3>1, <4>1 DEF Fresh, Nth
      <4>3. ASSUME NEW k \in Nat, Fresh(call'[c], idTwice', k), Nth(call'[c], k).id = i
            PROVE  FALSE
        <5>1. Fresh(cl, idTwice, k + 1) /\ Nth(cl, k + 1).id = Nth(cl, 0).id /\ k + 1 \in Nat /\ 0 \in Nat
          BY <3>3, <4>2, <4>3
        <5>2. k + 1 = 0
          BY <4>2, <5>1 DEF FreshInv
        <5> QED
          BY <5>2
      <4> QED
        BY <4>2, <4>3
    <3> QED
      BY <1>0, <1>1, <3>1, <3>4, <3>5, <3>9, FreshStep
  <2> QED
    BY <1>15, <2>1, <2>2, <2>3 DEF Insert, There
<1> QED
  BY <1>6, <1>7, <1>8, <1>9, <1>10, <1>11, <1>12, <1>13, <1>14, <1>15 DEF Steps

(* A request goes on with what is stored, and an identifier of the         *)
(* sequence is taken only if some user has given it before or the sequence *)
(* has given it twice, for any number of clients, requests and faults.     *)
THEOREM AlwaysStoredAsAnswered == EntitySpec => []StoredAsAnswered
<1>1. EntityInit => FreshInv
  BY FreshInvInit
<1>2. StoreInv /\ FreshInv /\ [EntityNext]_entityVars => FreshInv'
  <2>1. ASSUME StoreInv, FreshInv, EntityNext PROVE FreshInv'
    BY <2>1, NextIs, FreshInvStep
  <2>2. ASSUME FreshInv, UNCHANGED entityVars PROVE FreshInv'
    BY <2>2 DEF FreshInv, entityVars, There
  <2> QED
    BY <2>1, <2>2
<1>3. StoreInv /\ FreshInv => TakenIdExcused
  <2> SUFFICES ASSUME StoreInv, FreshInv, NEW c \in Client, call[c].pc = "insert", ~call[c].obj.given,
                      There(call[c].obj.id), call[c].obj.id \notin idTwice
               PROVE  collection[call[c].obj.id].given
    BY DEF TakenIdExcused, There
  <2>1. CallOK(call[c])
    BY FineFacts
  <2>2. call[c].op = "New" /\ call[c].todo \in Seq(ObjectType)
    BY <2>1 DEF CallOK, Parsing
  <2>3. Len(call[c].todo) \in Nat
    BY <2>2
  <2>4. Fresh(call[c], idTwice, 0) /\ Nth(call[c], 0).id = call[c].obj.id
    BY <2>2, <2>3 DEF Fresh, Creates, Nth
  <2> QED
    BY <2>4 DEF FreshInv
<1>4. StoreInv /\ FreshInv => StoredAsAnswered
  BY <1>3, TypesFollow, SavedIsThereFollows DEF StoredAsAnswered
<1> QED
  BY <1>1, <1>2, <1>4, StoreInvAlways, PTL DEF EntitySpec

-----------------------------------------------------------------------------
(* Versions.                                                               *)
Same(i) == collection'[i] # NoDoc =>
  There(i) /\ collection'[i].ver = collection[i].ver /\ collection'[i].stamp = collection[i].stamp

NewAt(c, j) ==
  /\ collection'[j] # NoDoc /\ collection'[j].stamp = writes + 1
  /\ setting.scope = "type" =>
       /\ collection'[j].ver \in verTwice \/ Pends(call[c], verTwice, collection'[j].ver)
       /\ \A v \in Int : ~Pends(call'[c], verTwice', v)

(* What a step of c has to see to.                                         *)
VersionFrame(c) ==
  /\ \A d \in Client : d # c => call'[d] = call[d] /\ known'[d] = known[d]
  /\ UNCHANGED setting /\ writes' \in Nat /\ writes <= writes' /\ (verSeq' = verSeq \/ verSeq' = verSeq + 1)
  /\ verTwice \subseteq verTwice'
  /\ \E j \in EntityId : (\A i \in EntityId : i # j => Same(i)) /\ (Same(j) \/ (NewAt(c, j) /\ writes' = writes + 1))
  /\ \A v \in Int, s \in Nat : Reads(call'[c], known'[c], v, s) =>
       \/ Reads(call[c], known[c], v, s)
       \/ \E i \in EntityId : There(i) /\ v = collection[i].ver /\ s = collection[i].stamp
       \/ v = 0 /\ s = 0
  /\ setting.scope = "type" =>
       \A v \in Int : Pends(call'[c], verTwice', v) => Pends(call[c], verTwice, v) \/ (v = verSeq + 1 /\ verSeq' = verSeq + 1)
  /\ \A v \in Int : DeleteReads(call'[c], v) =>
       DeleteReads(call[c], v) \/ \E i \in EntityId : There(i) /\ v = collection[i].ver
  /\ VersionsOK(call'[c], collection', setting, verTwice')

(* The stamps of documents are below the number of writes, and the         *)
(* versions given twice below the next.                                    *)
LEMMA StampedDocs ==
  ASSUME StoreInv
  PROVE  /\ writes \in Nat /\ verSeq \in Nat /\ \A v \in verTwice : v \in Int /\ v <= verSeq
         /\ \A i \in EntityId : There(i) =>
              collection[i].ver \in Int /\ collection[i].stamp \in Nat /\ collection[i].stamp \in 1..writes
BY DocumentIs DEF StoreInv, TypesOK, NumbersTyped, DocumentsOK, Document

(* A step that meets the frame keeps what is said of stamps.               *)
LEMMA FrameStamps ==
  ASSUME StoreInv, VersionInv, NEW c \in Client, VersionFrame(c)
  PROVE  StampsOK'
<1>0. /\ writes \in Nat /\ verSeq \in Nat
      /\ \A i \in EntityId : There(i) =>
           collection[i].ver \in Int /\ collection[i].stamp \in Nat /\ collection[i].stamp \in 1..writes
  BY StampedDocs
<1>1. PICK j \in EntityId : (\A i \in EntityId : i # j => Same(i)) /\ (Same(j) \/ (NewAt(c, j) /\ writes' = writes + 1))
  BY DEF VersionFrame
<1>2. \A i \in EntityId : collection'[i] # NoDoc =>
        \/ There(i) /\ collection'[i].ver = collection[i].ver /\ collection'[i].stamp = collection[i].stamp
        \/ i = j /\ collection'[i].stamp = writes + 1 /\ writes' = writes + 1
  BY <1>1 DEF Same, NewAt
<1>3. \A i, k \in EntityId : collection'[i] # NoDoc /\ collection'[k] # NoDoc
                               /\ collection'[i].stamp = collection'[k].stamp => i = k
  <2> SUFFICES ASSUME NEW i \in EntityId, NEW k \in EntityId, collection'[i] # NoDoc, collection'[k] # NoDoc,
                      collection'[i].stamp = collection'[k].stamp
               PROVE  i = k
    OBVIOUS
  <2>1. CASE i = j /\ collection'[i].stamp = writes + 1
    BY <1>0, <1>2, <2>1
  <2>2. CASE k = j /\ collection'[k].stamp = writes + 1
    BY <1>0, <1>2, <2>2
  <2>3. CASE There(i) /\ There(k) /\ collection'[i].stamp = collection[i].stamp /\ collection'[k].stamp = collection[k].stamp
    BY <2>3 DEF VersionInv, StampsOK
  <2> QED
    BY <1>2, <2>1, <2>2, <2>3
<1>4. ASSUME NEW d \in Client, NEW v \in Int, NEW s \in Nat, Reads(call'[d], known'[d], v, s)
      PROVE  s <= writes /\ \A i \in EntityId : There(i) /\ collection[i].stamp = s => collection[i].ver = v
  <2>1. CASE Reads(call[d], known[d], v, s)
    BY <2>1 DEF VersionInv, StampsOK
  <2>2. CASE d # c
    BY <1>4, <2>1, <2>2 DEF VersionFrame
  <2>3. CASE d = c
    <3>1. CASE \E i \in EntityId : There(i) /\ v = collection[i].ver /\ s = collection[i].stamp
      <4>1. PICK k \in EntityId : There(k) /\ v = collection[k].ver /\ s = collection[k].stamp
        BY <3>1
      <4>2. \A i \in EntityId : There(i) /\ collection[i].stamp = s => i = k
        BY <4>1 DEF VersionInv, StampsOK
      <4> QED
        BY <1>0, <4>1, <4>2
    <3>2. CASE v = 0 /\ s = 0
      BY <1>0, <3>2
    <3> QED
      BY <1>4, <2>1, <2>3, <3>1, <3>2 DEF VersionFrame
  <2> QED
    BY <2>2, <2>3
<1>5. ASSUME NEW d \in Client, NEW v \in Int, NEW s \in Nat, Reads(call'[d], known'[d], v, s)
      PROVE  s <= writes' /\ \A i \in EntityId : collection'[i] # NoDoc /\ collection'[i].stamp = s => collection'[i].ver = v
  <2>1. s <= writes /\ \A i \in EntityId : There(i) /\ collection[i].stamp = s => collection[i].ver = v
    BY <1>4, <1>5
  <2>2. writes' \in Nat /\ writes <= writes'
    BY DEF VersionFrame
  <2> QED
    BY <1>0, <1>2, <2>1, <2>2
<1> QED
  BY <1>3, <1>5 DEF StampsOK, There

LEMMA FrameNumbers ==
  ASSUME StoreInv, VersionInv, NEW c \in Client, VersionFrame(c), setting.scope = "type"
  PROVE  NumbersOK'
<1>0. /\ writes \in Nat /\ verSeq \in Nat /\ verSeq' \in Nat /\ verSeq <= verSeq' /\ NumbersOK
      /\ verTwice \subseteq verTwice' /\ \A v \in verTwice : v \in Int /\ v <= verSeq
      /\ \A i \in EntityId : There(i) =>
           collection[i].ver \in Int /\ collection[i].stamp \in Nat /\ collection[i].stamp \in 1..writes
  BY StampedDocs DEF VersionFrame, VersionInv
<1>1. PICK j \in EntityId : (\A i \in EntityId : i # j => Same(i)) /\ (Same(j) \/ (NewAt(c, j) /\ writes' = writes + 1))
  BY DEF VersionFrame
<1>2. \A i \in EntityId : collection'[i] # NoDoc =>
        \/ There(i) /\ collection'[i].ver = collection[i].ver /\ collection'[i].stamp = collection[i].stamp
        \/ /\ i = j /\ (\A v \in Int : ~Pends(call'[c], verTwice', v))
           /\ collection'[i].ver \in verTwice \/ Pends(call[c], verTwice, collection'[i].ver)
  BY <1>1 DEF Same, NewAt
<1>3. \A v \in Int : Pends(call[c], verTwice, v) => v \in 1..verSeq /\ (\A i \in EntityId : There(i) => collection[i].ver # v)
                                            /\ \A d \in Client : /\ ~DeleteReads(call[d], v)
                                                                 /\ \A s \in Nat : ~Reads(call[d], known[d], v, s)
  BY <1>0 DEF NumbersOK
<1>4. \A i \in EntityId : collection'[i] # NoDoc => collection'[i].ver \in Int
  <2>1. call[c].obj.ver \in Int
    BY FineFacts DEF ObjectType
  <2> QED
    BY <1>0, <1>2, <2>1 DEF Pends
<1>5. \A i \in EntityId : There(i) => collection[i].ver \in verTwice \/ collection[i].ver \in 1..verSeq
  BY <1>0 DEF NumbersOK
<1>6. \A i \in EntityId : collection'[i] # NoDoc => collection'[i].ver \in verTwice \/ collection'[i].ver \in 1..verSeq
  BY <1>2, <1>3, <1>4, <1>5
<1>7. \A i, k \in EntityId : collection'[i] # NoDoc /\ collection'[k] # NoDoc
                               /\ collection'[i].ver = collection'[k].ver /\ collection'[i].ver \notin verTwice' => i = k
  <2> SUFFICES ASSUME NEW i \in EntityId, NEW k \in EntityId, collection'[i] # NoDoc, collection'[k] # NoDoc,
                      collection'[i].ver = collection'[k].ver, collection'[i].ver \notin verTwice', i # k
               PROVE  FALSE
    OBVIOUS
  <2>0. \A a, b \in EntityId :
           There(a) /\ There(b) /\ collection[a].ver = collection[b].ver /\ collection[a].ver \notin verTwice => a = b
    BY <1>0 DEF NumbersOK
  <2>1. CASE There(i) /\ collection'[i].ver = collection[i].ver
    <3>1. CASE There(k) /\ collection'[k].ver = collection[k].ver
      BY <1>0, <2>0, <2>1, <3>1
    <3>2. CASE Pends(call[c], verTwice, collection'[k].ver)
      BY <1>3, <1>4, <2>1, <3>2
    <3> QED
      BY <1>0, <1>2, <3>1, <3>2
  <2>2. CASE i = j /\ Pends(call[c], verTwice, collection'[i].ver)
    <3>1. There(k) /\ collection'[k].ver = collection[k].ver
      BY <1>2, <2>2
    <3> QED
      BY <1>3, <1>4, <2>2, <3>1
  <2> QED
    BY <1>0, <1>2, <2>1, <2>2
(* A read of the new state is an old one, or of a document.                *)
<1>8. ASSUME NEW d \in Client, NEW v \in Int, NEW s \in Nat, Reads(call'[d], known'[d], v, s)
      PROVE  \/ Reads(call[d], known[d], v, s)
             \/ \E i \in EntityId : There(i) /\ v = collection[i].ver /\ s = collection[i].stamp
             \/ v = 0 /\ s = 0
  BY <1>8 DEF VersionFrame
<1>9. ASSUME NEW d \in Client, NEW v \in Int, NEW s \in Nat, Reads(call'[d], known'[d], v, s)
      PROVE  /\ v <= verSeq
             /\ \A i \in EntityId : There(i) /\ collection[i].ver = v /\ v \notin verTwice => collection[i].stamp = s
             /\ ~Pends(call[c], verTwice, v)
  <2>1. CASE Reads(call[d], known[d], v, s)
    <3>1. /\ v <= verSeq
          /\ \A i \in EntityId : There(i) /\ collection[i].ver = v /\ v \notin verTwice => collection[i].stamp = s
      BY <1>0, <2>1 DEF NumbersOK
    <3> QED
      BY <1>3, <2>1, <3>1
  <2>2. CASE \E i \in EntityId : There(i) /\ v = collection[i].ver /\ s = collection[i].stamp
    <3>1. PICK k \in EntityId : There(k) /\ v = collection[k].ver /\ s = collection[k].stamp
      BY <2>2
    <3>2. \A i \in EntityId : There(i) /\ collection[i].ver = v /\ v \notin verTwice => i = k
      BY <1>0, <3>1 DEF NumbersOK
    <3>3. v <= verSeq
      BY <1>0, <1>5, <3>1
    <3> QED
      BY <1>3, <3>1, <3>2, <3>3
  <2>3. CASE v = 0 /\ s = 0
    BY <1>0, <1>3, <1>5, <2>3
  <2> QED
    BY <1>8, <1>9, <2>1, <2>2, <2>3
<1>10. ASSUME NEW d \in Client, NEW v \in Int, NEW s \in Nat, Reads(call'[d], known'[d], v, s)
       PROVE  /\ v <= verSeq'
              /\ \A i \in EntityId : collection'[i] # NoDoc /\ collection'[i].ver = v /\ v \notin verTwice' => collection'[i].stamp = s
  <2>1. /\ v <= verSeq /\ ~Pends(call[c], verTwice, v)
        /\ \A i \in EntityId : There(i) /\ collection[i].ver = v /\ v \notin verTwice => collection[i].stamp = s
    BY <1>9, <1>10
  <2> QED
    BY <1>0, <1>2, <2>1
<1>11. ASSUME NEW d \in Client, NEW v \in Int, DeleteReads(call'[d], v)
       PROVE  v <= verSeq /\ (DeleteReads(call[d], v) \/ \E i \in EntityId : There(i) /\ v = collection[i].ver)
  <2>1. DeleteReads(call[d], v) \/ \E i \in EntityId : There(i) /\ v = collection[i].ver
    BY <1>11 DEF VersionFrame
  <2>2. CASE DeleteReads(call[d], v)
    BY <1>0, <2>2 DEF NumbersOK
  <2>3. CASE \E i \in EntityId : There(i) /\ v = collection[i].ver
    BY <1>0, <1>5, <2>3
  <2> QED
    BY <2>1, <2>2, <2>3
<1>12. ASSUME NEW d \in Client, NEW v \in Int, Pends(call'[d], verTwice', v)
       PROVE  \/ d = c /\ v = verSeq + 1 /\ verSeq' = verSeq + 1
              \/ Pends(call[d], verTwice, v) /\ v \in 1..verSeq
  <2>1. CASE d = c
    BY <1>0, <1>12, <2>1 DEF VersionFrame, NumbersOK
  <2>2. CASE d # c
    <3>1. call'[d] = call[d]
      BY <2>2 DEF VersionFrame
    <3>2. Pends(call[d], verTwice, v)
      BY <1>0, <1>12, <3>1 DEF Pends
    <3> QED
      BY <1>0, <3>2 DEF NumbersOK
  <2> QED
    BY <2>1, <2>2
(* A version that is to be stored.                                         *)
<1>13. ASSUME NEW d \in Client, NEW v \in Int, Pends(call'[d], verTwice', v)
       PROVE  /\ v \in 1..verSeq'
              /\ \A i \in EntityId : collection'[i] # NoDoc => collection'[i].ver # v
              /\ \A e \in Client : ~DeleteReads(call'[e], v) /\ \A s \in Nat : ~Reads(call'[e], known'[e], v, s)
              /\ \A e \in Client : Pends(call'[e], verTwice', v) => d = e
  <2>0. v \notin verTwice
    BY <1>0, <1>13 DEF Pends
  <2>1. CASE d = c /\ v = verSeq + 1 /\ verSeq' = verSeq + 1
    <3>1. v \in 1..verSeq'
      BY <1>0, <2>1
    <3>2. \A i \in EntityId : collection'[i] # NoDoc => collection'[i].ver # v
      BY <1>0, <1>6, <2>1
    <3>3. \A e \in Client : ~DeleteReads(call'[e], v) /\ \A s \in Nat : ~Reads(call'[e], known'[e], v, s)
      BY <1>0, <1>9, <1>11, <2>1
    <3>4. \A e \in Client : Pends(call'[e], verTwice', v) => d = e
      BY <1>0, <1>12, <2>1
    <3> QED
      BY <3>1, <3>2, <3>3, <3>4
  <2>2. CASE Pends(call[d], verTwice, v) /\ v \in 1..verSeq
    <3>0. /\ \A i \in EntityId : There(i) => collection[i].ver # v
          /\ \A e \in Client : ~DeleteReads(call[e], v) /\ \A s \in Nat : ~Reads(call[e], known[e], v, s)
          /\ \A e \in Client : Pends(call[e], verTwice, v) => d = e
      BY <1>0, <2>2 DEF NumbersOK
    <3>1. v \in 1..verSeq'
      BY <1>0, <2>2
    <3>2. \A i \in EntityId : collection'[i] # NoDoc => collection'[i].ver # v
      <4> SUFFICES ASSUME NEW i \in EntityId, collection'[i] # NoDoc, collection'[i].ver = v
                   PROVE  FALSE
        OBVIOUS
      <4>1. /\ i = j /\ (\A w \in Int : ~Pends(call'[c], verTwice', w))
            /\ collection'[i].ver \in verTwice \/ Pends(call[c], verTwice, collection'[i].ver)
        BY <1>2, <3>0
      <4>2. Pends(call[c], verTwice, v)
        BY <2>0, <4>1
      <4>3. d = c
        BY <3>0, <4>2
      <4> QED
        BY <1>13, <4>1, <4>3
    <3>3. \A e \in Client : ~DeleteReads(call'[e], v)
      BY <1>11, <3>0
    <3>4. \A e \in Client : \A s \in Nat : ~Reads(call'[e], known'[e], v, s)
      <4> SUFFICES ASSUME NEW e \in Client, NEW s \in Nat, Reads(call'[e], known'[e], v, s) PROVE FALSE
        OBVIOUS
      <4>1. v # 0
        BY <2>2
      <4> QED
        BY <1>8, <3>0, <4>1
    <3>5. \A e \in Client : Pends(call'[e], verTwice', v) => d = e
      <4> SUFFICES ASSUME NEW e \in Client, Pends(call'[e], verTwice', v) PROVE d = e
        OBVIOUS
      <4>1. Pends(call[e], verTwice, v)
        BY <1>0, <1>12, <2>2
      <4> QED
        BY <3>0, <4>1
    <3> QED
      BY <3>1, <3>2, <3>3, <3>4, <3>5
  <2> QED
    BY <1>12, <1>13, <2>1, <2>2
<1>14. \A i \in EntityId : collection'[i] # NoDoc => collection'[i].ver \in verTwice' \/ collection'[i].ver \in 1..verSeq'
  BY <1>0, <1>6
<1>15. \A d \in Client, v \in Int : DeleteReads(call'[d], v) => v <= verSeq'
  BY <1>0, <1>11
<1> QED
  BY <1>7, <1>10, <1>13, <1>14, <1>15 DEF NumbersOK, There

(* Other clients' requests.                                                *)
LEMMA FrameOthers ==
  ASSUME StoreInv, VersionInv, NEW c \in Client, VersionFrame(c), NEW d \in Client, d # c
  PROVE  VersionsOK(call'[d], collection', setting, verTwice')
<1> DEFINE cl == call[d]
           i == cl.obj.id
<1>0. /\ writes \in Nat /\ cl.obj.seen <= writes /\ cl.got <= writes /\ i \in EntityId /\ CallOK(cl)
      /\ cl.obj.seen \in Nat /\ cl.got \in Nat /\ call'[d] = cl /\ cl.from \in Int /\ verTwice \subseteq verTwice'
  <2>1. /\ writes \in Nat /\ i \in EntityId /\ CallOK(cl) /\ cl \in CallType /\ ObjectsOK(cl, writes, setting)
        /\ cl.obj \in ObjectType /\ ObjectOK(cl.obj, writes, setting)
    BY FineFacts
  <2>2. call'[d] = cl /\ verTwice \subseteq verTwice'
    BY DEF VersionFrame
  <2> QED
    BY <2>1, <2>2 DEF ObjectsOK, ObjectOK, ObjectType, CallType
<1>1. /\ VersionsOK(cl, collection, setting, verTwice) /\ (setting.scope = "type" => NumbersOK)
  BY DEF VersionInv
<1>2. \/ Same(i)
      \/ /\ collection'[i] # NoDoc /\ collection'[i].stamp = writes + 1
         /\ setting.scope = "type" => collection'[i].ver \in verTwice \/ Pends(call[c], verTwice, collection'[i].ver)
  BY <1>0 DEF VersionFrame, NewAt
<1> HIDE DEF cl, i
<1>3. i = cl.obj.id
  BY DEF cl, i
<1>4. NewerThanSeen(cl, collection', setting, verTwice')
  BY <1>0, <1>1, <1>2, <1>3 DEF VersionsOK, NewerThanSeen, Same, There
<1>5. ASSUME setting.scope = "type" PROVE Warned(cl, collection', verTwice')
  BY <1>0, <1>1, <1>2, <1>3, <1>5 DEF VersionsOK, Warned, Same, There
<1>6. ASSUME setting.scope = "type" PROVE Moved(cl, collection', setting, verTwice')
  <2>1. CASE Same(i)
    BY <1>0, <1>1, <1>3, <1>6, <2>1 DEF VersionsOK, Moved, Same, There
  <2>2. CASE cl.pc # "remove"
    BY <2>2 DEF Moved
  <2>3. CASE cl.pc = "remove" /\ (collection'[i].ver \in verTwice \/ Pends(call[c], verTwice, collection'[i].ver))
    <3>1. cl.op = "Delete"
      BY <1>0, <2>3 DEF CallOK
    <3>2. DeleteReads(cl, cl.from)
      BY <2>3, <3>1 DEF DeleteReads
    <3>3. ~Pends(call[c], verTwice, cl.from)
      BY <1>0, <1>1, <1>6, <3>2 DEF NumbersOK, cl
    <3> QED
      BY <1>0, <1>3, <2>3, <3>3 DEF Moved
  <2> QED
    BY <1>2, <1>6, <2>1, <2>2, <2>3
<1> QED
  BY <1>0, <1>4, <1>5, <1>6 DEF VersionsOK

LEMMA FrameKeeps ==
  ASSUME StoreInv, VersionInv, NEW c \in Client, VersionFrame(c)
  PROVE  VersionInv'
<1>1. \A d \in Client : VersionsOK(call'[d], collection', setting, verTwice')
  BY FrameOthers DEF VersionFrame
<1>2. setting' = setting
  BY DEF VersionFrame
<1> QED
  BY <1>1, <1>2, FrameStamps, FrameNumbers DEF VersionInv

-----------------------------------------------------------------------------
(* A request that has ended, or goes on with another new object, has read  *)
(* nothing and stores, with versions of the type, nothing yet.             *)
Settled(c, r) ==
  /\ \A v \in Int, s \in Nat : Reads(r, known[c], v, s) => (v = known[c].ver /\ s = known[c].stamp) \/ (v = 0 /\ s = 0)
  /\ setting.scope = "type" => \A v \in Int : ~Pends(r, verTwice', v)
  /\ \A v \in Int : DeleteReads(r, v) => DeleteReads(call[c], v)
  /\ r.pc # "save" /\ (r.pc = "next" => setting.scope = "type" /\ r.op = "New")

(* The ways on from a request that is settled.                             *)
LEMMA SettledOK ==
  ASSUME NEW c \in Client, NEW r, Settled(c, r), NEW col, NEW tw, Moved(r, col, setting, tw)
  PROVE  VersionsOK(r, col, setting, tw)
BY DEF Settled, VersionsOK, NewerThanSeen, Warned

LEMMA IdleSettled ==
  ASSUME NEW c \in Client
  PROVE  Settled(c, Idle)
BY IdleIs DEF Settled, Reads, Pends, DeleteReads

LEMMA FailedSettled ==
  ASSUME StoreInv, NEW c \in Client
  PROVE  Settled(c, CallFailed(call[c]))
<1>1. CASE CallFailed(call[c]) = Idle
  BY <1>1, IdleSettled
<1>2. CASE Drops(call[c], CallFailed(call[c]))
  BY <1>2 DEF Drops, Settled, Reads, Pends, DeleteReads
<1> QED
  BY <1>1, <1>2, CallFailedIs, FineFacts

LEMMA ContinueSettled ==
  ASSUME setting \in Settings, NEW c \in Client, NEW cl \in CallType, NEW w, NewObjects(cl.todo, w, setting),
         cl.op # "Delete", cl.op \in {"New", "BulkSet"} \/ cl.todo = <<>>
  PROVE  Settled(c, Continue(cl)) /\ Continue(cl).pc # "remove"
<1> DEFINE r == Continue(cl)
<1>1. cl.todo \in Seq(ObjectType)
  BY DEF NewObjects
<1>2. CASE r = Idle
  BY <1>2, IdleSettled, IdleIs
<1>3. CASE cl.todo # <<>>
  <2>1. PICK o : o = Head(cl.todo)
    OBVIOUS
  <2>2. o = cl.todo[1] /\ 1 \in 1..Len(cl.todo)
    BY <1>1, <1>3, <2>1
  <2>3. Raw(o) /\ o.ver = 0 /\ o.seen = 0
    BY <2>2 DEF NewObjects, Raw
  <2>4. /\ r \in CallType /\ r.op = cl.op /\ SameButVersion(r.obj, o)
        /\ cl.op = "New" => /\ r.pc = IF setting.scope = "type" THEN "next" ELSE "insert"
                            /\ r.obj.ver = IF setting.scope = "object" THEN o.ver + 1 ELSE o.ver
        /\ cl.op # "New" => r.pc = "get" /\ r.obj.ver = o.ver
    BY <1>1, <1>3, <2>1, ContinueIs
  <2> HIDE DEF r
  <2>5. r.obj.seen = 0 /\ r.pc \in {"next", "insert", "get"} /\ (r.pc \in {"get", "next"} => r.obj.ver = 0)
    BY <2>3, <2>4 DEF SameButVersion
  <2>6. r.pc = "next" => setting.scope = "type" /\ r.op = "New"
    BY <2>4
  <2>7. setting.scope = "type" => r.pc # "insert"
    BY <2>4
  <2>8. r.op # "Delete"
    BY <2>4
  <2> QED
    BY <2>5, <2>6, <2>7, <2>8 DEF Settled, Reads, Pends, DeleteReads, r
<1> QED
  BY <1>1, <1>2, <1>3, ContinueIs

(* The frame of a step after which the client's request is settled.        *)
LEMMA SettledFrame ==
  ASSUME StoreInv, VersionInv, NEW c \in Client, Steps(c), NEW r, r = call'[c], Settled(c, r),
         UNCHANGED <<setting, verSeq, verTwice, known>>, writes' \in Nat, writes <= writes',
         \E j \in EntityId : (\A i \in EntityId : i # j => Same(i)) /\ (Same(j) \/ (NewAt(c, j) /\ writes' = writes + 1)),
         VersionsOK(r, collection', setting, verTwice')
  PROVE  VersionFrame(c)
<1>1. \A d \in Client : d # c => call'[d] = call[d] /\ known'[d] = known[d]
  BY OthersKeep
<1>2. \A v \in Int, s \in Nat : Reads(call'[c], known'[c], v, s) => Reads(call[c], known[c], v, s) \/ (v = 0 /\ s = 0)
  BY DEF Settled, Reads
<1>4. \A v \in Int : DeleteReads(call'[c], v) => DeleteReads(call[c], v)
  BY DEF Settled
<1>5. setting.scope = "type" => \A v \in Int : ~Pends(call'[c], verTwice', v)
  BY DEF Settled
<1> QED
  BY <1>1, <1>2, <1>4, <1>5 DEF VersionFrame

(* A step that leaves the documents alone.                                 *)
LEMMA SameDocs ==
  ASSUME UNCHANGED collection
  PROVE  \E j \in EntityId : (\A i \in EntityId : i # j => Same(i)) /\ Same(j)
BY NoObjectIs DEF Same, There

LEMMA UnappliedVersions ==
  ASSUME StoreInv, VersionInv, NEW c \in Client, Steps(c), Becomes(c, CallFailed(call[c])),
         UNCHANGED <<setting, verSeq, verTwice, known, collection, writes>>
  PROVE  VersionInv'
<1>1. call'[c] = CallFailed(call[c]) /\ writes \in Nat
  BY FineFacts DEF Becomes, StoreInv, TypesOK
<1>2. CallFailed(call[c]).pc = "remove" => CallFailed(call[c]).dropped = TRUE
  <2>1. CallFailed(call[c]) = Idle \/ Drops(call[c], CallFailed(call[c]))
    BY CallFailedIs, FineFacts
  <2> QED
    BY <2>1, IdleIs DEF Drops
<1>3. Settled(c, CallFailed(call[c]))
  BY FailedSettled
<1>5. PICK r : r = CallFailed(call[c])
  OBVIOUS
<1>6. \E j \in EntityId : (\A i \in EntityId : i # j => Same(i)) /\ (Same(j) \/ (NewAt(c, j) /\ writes' = writes + 1))
  BY SameDocs
<1>4. VersionFrame(c)
  <2>1. writes' \in Nat /\ writes <= writes'
    BY <1>1
  <2>2. r = call'[c] /\ Settled(c, r) /\ (r.pc = "remove" => r.dropped = TRUE)
    BY <1>1, <1>2, <1>3, <1>5
  <2>3. VersionsOK(r, collection', setting, verTwice')
    BY <2>2, SettledOK DEF Moved
  <2> QED
    BY <1>6, <2>1, <2>2, <2>3, SettledFrame
<1> QED
  BY <1>4, FrameKeeps

-----------------------------------------------------------------------------
(* The steps.                                                              *)
LEMMA QueryVersions ==
  ASSUME StoreInv, VersionInv, NEW c \in Client, NEW i \in EntityId, Query(c, i)
  PROVE  VersionInv'
<1>1. /\ UNCHANGED <<setting, verSeq, verTwice, call, collection, writes>> /\ There(i) /\ Steps(c)
      /\ known' = [known EXCEPT ![c] = [ver |-> collection[i].ver, stamp |-> collection[i].stamp, id |-> i]]
  BY NumbersStay DEF Query, There, Steps
<1>2. known' \in [Client -> [ver : Int, stamp : Nat, id : 0..MaxEntityId]] /\ known'[c].ver = collection[i].ver
        /\ known'[c].stamp = collection[i].stamp /\ writes \in Nat
  <2>1. StoreInv'
    BY QueryKeeps
  <2>2. known \in [Client -> [ver : Int, stamp : Nat, id : 0..MaxEntityId]]
    BY DEF StoreInv, TypesOK
  <2> QED
    BY <1>1, <2>1, <2>2 DEF StoreInv, TypesOK
<1>3. \A d \in Client : d # c => call'[d] = call[d] /\ known'[d] = known[d]
  BY <1>1, OthersKeep
<1>4. \A v, s : Reads(call'[c], known'[c], v, s) =>
        Reads(call[c], known[c], v, s) \/ (v = collection[i].ver /\ s = collection[i].stamp)
  BY <1>1, <1>2 DEF Reads
<1>5. VersionsOK(call'[c], collection', setting, verTwice')
  BY <1>1 DEF VersionInv
<1>6. \E j \in EntityId : (\A k \in EntityId : k # j => Same(k)) /\ (Same(j) \/ (NewAt(c, j) /\ writes' = writes + 1))
  BY <1>1, SameDocs
<1>7. VersionFrame(c)
  BY <1>1, <1>2, <1>3, <1>4, <1>5, <1>6 DEF VersionFrame
<1> QED
  BY <1>7, FrameKeeps

(* The other steps leave known alone; what a request has read is said of   *)
(* its next state r.                                                       *)
LEMMA RequestVersions ==
  ASSUME StoreInv, VersionInv, NEW c \in Client, Steps(c), NEW r, Becomes(c, r), UNCHANGED <<setting, known>>,
         UNCHANGED <<collection, writes>>, verTwice \subseteq verTwice', verSeq' = verSeq \/ verSeq' = verSeq + 1,
         \A v \in Int, s \in Nat : Reads(r, known[c], v, s) =>
           \/ Reads(call[c], known[c], v, s)
           \/ \E i \in EntityId : There(i) /\ v = collection[i].ver /\ s = collection[i].stamp
           \/ v = 0 /\ s = 0,
         setting.scope = "type" => \A v \in Int : Pends(r, verTwice', v) => v = verSeq + 1 /\ verSeq' = verSeq + 1,
         \A v \in Int : DeleteReads(r, v) =>
           DeleteReads(call[c], v) \/ \E i \in EntityId : There(i) /\ v = collection[i].ver,
         VersionsOK(r, collection, setting, verTwice')
  PROVE  VersionInv'
<1>1. call'[c] = r /\ writes \in Nat
  BY FineFacts DEF Becomes, StoreInv, TypesOK
<1>2. \A d \in Client : d # c => call'[d] = call[d] /\ known'[d] = known[d]
  BY OthersKeep
<1>3. \E j \in EntityId : (\A k \in EntityId : k # j => Same(k)) /\ (Same(j) \/ (NewAt(c, j) /\ writes' = writes + 1))
  BY SameDocs
<1>4. known'[c] = known[c] /\ collection' = collection /\ writes' = writes
  OBVIOUS
<1>5. VersionsOK(call'[c], collection', setting, verTwice')
  BY <1>1, <1>4
<1>6. VersionFrame(c)
  BY <1>1, <1>2, <1>3, <1>4, <1>5 DEF VersionFrame
<1> QED
  BY <1>6, FrameKeeps

LEMMA StartVersions ==
  ASSUME StoreInv, VersionInv, NEW c \in Client, Steps(c), NEW r, Start(c, r),
         \/ r.pc = "parse" /\ r.op # "Delete"
         \/ r.pc = "load" /\ r.op = "Delete"
         \/ /\ r.pc = "load" /\ r.op = "Set"
            /\ \/ r.todo[1].ver = Keep
               \/ r.todo[1].ver = known[c].ver /\ r.todo[1].seen = known[c].stamp
  PROVE  VersionInv'
<1>1. Becomes(c, r) /\ UNCHANGED <<setting, known, collection, writes, verSeq, verTwice>>
  BY NumbersStay DEF Start
<1>2. \A v \in Int, s \in Nat : Reads(r, known[c], v, s) => Reads(call[c], known[c], v, s)
  BY DEF Reads
<1>3. /\ \A v \in Int : ~Pends(r, verTwice', v) /\ ~DeleteReads(r, v)
      /\ VersionsOK(r, collection, setting, verTwice')
  BY DEF Pends, DeleteReads, VersionsOK, NewerThanSeen, Warned, Moved
<1> QED
  BY <1>1, <1>2, <1>3, RequestVersions

LEMMA MutationVersions ==
  ASSUME StoreInv, VersionInv, NEW c \in Client, Steps(c),
         \/ \E i \in EntityId : DeleteMutation(c, i)
         \/ \E i \in EntityId, v \in Val \cup {Null, Keep} : SetMutation(c, i, v)
         \/ \E i \in EntityId \cup {0}, v \in Val : CreateMutation(c, i, v)
         \/ \E op \in {"New", "BulkSet"}, ids \in Batches, v \in Val : BulkMutation(c, op, ids, v)
  PROVE  VersionInv'
<1>0. Idle \in CallType
  BY IdleIs
<1> HIDE DEF Idle
<1>1. ASSUME NEW i \in EntityId, DeleteMutation(c, i)
      PROVE  VersionInv'
  <2>1. PICK r : Start(c, r) /\ r = [Idle EXCEPT !.pc = "load", !.op = "Delete", !.obj = [NoObject EXCEPT !.id = i]]
    BY <1>1 DEF DeleteMutation
  <2>2. \A o : LET q == [Idle EXCEPT !.pc = "load", !.op = "Delete", !.obj = o] IN q.pc = "load" /\ q.op = "Delete"
    BY <1>0 DEF CallType
  <2>3. r.pc = "load" /\ r.op = "Delete"
    BY <2>1, <2>2
  <2> QED
    BY <2>1, <2>3, StartVersions
<1>2. ASSUME NEW i \in EntityId, NEW v \in Val \cup {Null, Keep}, SetMutation(c, i, v)
      PROVE  VersionInv'
  <2>1. i \in 0..MaxEntityId
    BY DEF EntityId
  <2>2. PICK a : a = Input(i, v)
    OBVIOUS
  <2>3. a \in InputType /\ a.ver = Keep
    BY <2>1, <2>2, InputIs
  <2>4. PICK b : b = [a EXCEPT !.ver = known[c].ver, !.seen = known[c].stamp]
    OBVIOUS
  <2>5. b.ver = known[c].ver /\ b.seen = known[c].stamp
    BY <2>3, <2>4 DEF InputType
  <2>6. \A inp : LET q == [Idle EXCEPT !.pc = "load", !.op = "Set", !.todo = <<inp>>]
                 IN  q.pc = "load" /\ q.op = "Set" /\ q.todo[1] = inp
    BY <1>0 DEF CallType
  <2>7. \/ Start(c, [Idle EXCEPT !.pc = "load", !.op = "Set", !.todo = <<a>>])
        \/ Start(c, [Idle EXCEPT !.pc = "load", !.op = "Set", !.todo = <<b>>])
    BY <1>2, <2>2, <2>4 DEF SetMutation
  <2>8. PICK inp \in {a, b} : Start(c, [Idle EXCEPT !.pc = "load", !.op = "Set", !.todo = <<inp>>])
    BY <2>7
  <2>9. PICK r : r = [Idle EXCEPT !.pc = "load", !.op = "Set", !.todo = <<inp>>]
    OBVIOUS
  <2>10. r.pc = "load" /\ r.op = "Set" /\ r.todo[1] = inp /\ Start(c, r)
    BY <2>6, <2>8, <2>9
  <2> QED
    BY <2>3, <2>5, <2>8, <2>10, StartVersions
<1>3. ASSUME NEW i \in EntityId \cup {0}, NEW v \in Val, CreateMutation(c, i, v)
      PROVE  VersionInv'
  <2>1. PICK r : Start(c, r) /\ \E q : r = [Idle EXCEPT !.pc = "parse", !.op = "New", !.todo = q]
    BY <1>3 DEF CreateMutation
  <2>2. \A q : LET s == [Idle EXCEPT !.pc = "parse", !.op = "New", !.todo = q] IN s.pc = "parse" /\ s.op = "New"
    BY <1>0 DEF CallType
  <2> QED
    BY <2>1, <2>2, StartVersions
<1>4. ASSUME NEW op \in {"New", "BulkSet"}, NEW ids \in Batches, NEW v \in Val, BulkMutation(c, op, ids, v)
      PROVE  VersionInv'
  <2>1. PICK r : Start(c, r) /\ \E q : r = [Idle EXCEPT !.pc = "parse", !.op = op, !.todo = q]
    BY <1>4 DEF BulkMutation
  <2>2. \A q : LET s == [Idle EXCEPT !.pc = "parse", !.op = op, !.todo = q] IN s.pc = "parse" /\ s.op = op
    BY <1>0 DEF CallType
  <2> QED
    BY <2>1, <2>2, StartVersions
<1> QED
  BY <1>1, <1>2, <1>3, <1>4

LEMMA LoadForSetVersions ==
  ASSUME StoreInv, VersionInv, NEW c \in Client, LoadForSet(c)
  PROVE  VersionInv'
<1> DEFINE cl == call[c]
           inp == cl.todo[1]
           found == collection[inp.id] # NoDoc
           obj == IF found THEN LoadObject(inp.id) ELSE InitObject(inp.id, TRUE)
           p == Parsed(obj, inp)
           r == [cl EXCEPT !.pc = "get", !.todo = <<>>, !.obj = p]
<1>1. cl.pc = "load" /\ cl.op = "Set" /\ UNCHANGED <<setting, verSeq, verTwice, known>> /\ Steps(c)
  BY DEF LoadForSet, Steps
<1>2. /\ CallOK(cl) /\ cl \in CallType /\ TypesOK /\ DocumentsOK
  BY FineFacts DEF StoreInv
<1>3. inp \in InputType /\ inp.id \in EntityId
  <2>1. cl.todo \in Seq(InputType) /\ Len(cl.todo) = 1 /\ inp.id \in EntityId
    BY <1>1, <1>2 DEF CallOK, Parsing
  <2>2. 1 \in 1..Len(cl.todo)
    BY <2>1
  <2> QED
    BY <2>1, <2>2
<1>4. CASE Becomes(c, r) /\ UNCHANGED <<collection, writes>>
  <2>1. /\ obj \in ObjectType /\ ~obj.dirty /\ Recordable(obj)
        /\ \/ There(inp.id) /\ obj.ver = collection[inp.id].ver /\ obj.seen = collection[inp.id].stamp
           \/ obj.ver = 0 /\ obj.seen = 0
    <3>1. CASE found
      <4>1. obj = LoadObject(inp.id) /\ There(inp.id)
        BY <3>1 DEF There
      <4>2. ObjectOK(LoadObject(inp.id), writes, setting)
        BY <1>2, <1>3, <4>1, LoadObjectIs
      <4>3. /\ LoadObject(inp.id) \in ObjectType /\ ~LoadObject(inp.id).dirty
            /\ LoadObject(inp.id).ver = collection[inp.id].ver /\ LoadObject(inp.id).seen = collection[inp.id].stamp
        BY <1>2, <1>3, <4>1, LoadObjectIs
      <4> QED
        BY <4>1, <4>2, <4>3 DEF ObjectOK
    <3>2. CASE ~found
      <4>1. obj = InitObject(inp.id, TRUE)
        BY <3>2
      <4>2. /\ obj \in ObjectType
            /\ obj = [val |-> Null, ver |-> 0, hist |-> <<>>, deleted |-> FALSE,
                      given |-> TRUE, id |-> inp.id, dirty |-> FALSE, base |-> 0, seen |-> 0]
        BY <1>3, <4>1, InitObjectIs
      <4> HIDE DEF obj, found
      <4>3. obj.ver = 0 /\ obj.seen = 0 /\ ~obj.dirty /\ obj.hist = <<>>
        BY <4>2
      <4>4. Recordable(obj)
        BY <4>3 DEF Recordable, NoRepeat
      <4> QED
        BY <4>2, <4>3, <4>4
    <3> QED
      BY <3>1, <3>2
  <2> HIDE DEF obj, found
  <2>2. /\ p \in ObjectType
        /\ inp.ver = Keep => p.ver = obj.ver /\ p.seen = obj.seen
        /\ inp.ver # Keep => p.ver = inp.ver /\ p.seen = inp.seen
    BY <1>3, <2>1, ParsedIs
  <2> HIDE DEF p
  <2>3. r.pc = "get" /\ r.op = "Set" /\ r.obj = p
    BY <1>1, <1>2, <2>2 DEF CallType
  <2> HIDE DEF r
  <2>4. \A v \in Int, s \in Nat : Reads(r, known[c], v, s) =>
           \/ Reads(cl, known[c], v, s)
           \/ \E i \in EntityId : There(i) /\ v = collection[i].ver /\ s = collection[i].stamp
           \/ v = 0 /\ s = 0
    <3> SUFFICES ASSUME NEW v \in Int, NEW s \in Nat, Reads(r, known[c], v, s), ~(v = known[c].ver /\ s = known[c].stamp)
                 PROVE  \/ Reads(cl, known[c], v, s)
                        \/ \E i \in EntityId : There(i) /\ v = collection[i].ver /\ s = collection[i].stamp
                        \/ v = 0 /\ s = 0
      BY DEF Reads
    <3>1. v = p.ver /\ s = p.seen
      BY <2>3 DEF Reads
    <3>2. CASE inp.ver # Keep
      BY <1>1, <2>2, <3>1, <3>2 DEF Reads
    <3>3. CASE inp.ver = Keep
      BY <1>3, <2>1, <2>2, <3>1, <3>3
    <3> QED
      BY <3>2, <3>3
  <2>5. /\ \A v \in Int : ~Pends(r, verTwice', v) /\ ~DeleteReads(r, v)
        /\ VersionsOK(r, collection, setting, verTwice')
    BY <2>3 DEF Pends, DeleteReads, VersionsOK, NewerThanSeen, Warned, Moved
  <2> QED
    BY <1>1, <1>4, <2>4, <2>5, RequestVersions
<1>5. CASE Unapplied(c)
  BY <1>1, <1>5, UnappliedVersions DEF Unapplied
<1> QED
  BY <1>4, <1>5 DEF LoadForSet

LEMMA ParseVersions ==
  ASSUME StoreInv, VersionInv, NEW c \in Client, Parse(c)
  PROVE  VersionInv'
<1>1. UNCHANGED <<setting, verSeq, verTwice, known>> /\ setting \in Settings /\ Steps(c)
  BY FineFacts DEF Parse, Steps
<1>2. CASE ParseFails(c)
  BY <1>1, <1>2, UnappliedVersions DEF ParseFails, Unapplied
<1>3. CASE ~ParseFails(c)
  <2>1. UNCHANGED <<collection, writes>> /\ call[c].op \in {"New", "BulkSet"} /\ \E f, q : ParsedWith(c, f, q)
    BY <1>3, ParseIs
  <2>2. PICK f, q : ParsedWith(c, f, q)
    BY <2>1
  <2> DEFINE cl == [call[c] EXCEPT !.todo = q]
  <2>3. /\ Becomes(c, Continue(cl)) /\ NewObjects(cl.todo, writes, setting) /\ cl \in CallType
        /\ cl.op \in {"New", "BulkSet"}
    BY <2>1, <2>2 DEF ParsedWith
  <2> HIDE DEF cl
  <2>4. PICK r : r = Continue(cl)
    OBVIOUS
  <2>5. Settled(c, r) /\ r.pc # "remove"
    BY <1>1, <2>3, <2>4, ContinueSettled
  <2>6. \A v \in Int, s \in Nat : Reads(r, known[c], v, s) => Reads(call[c], known[c], v, s) \/ (v = 0 /\ s = 0)
    BY <2>5 DEF Settled, Reads
  <2>7. VersionsOK(r, collection, setting, verTwice')
    BY <2>5, SettledOK DEF Moved
  <2>8. Becomes(c, r)
    BY <2>3, <2>4
  <2> QED
    BY <1>1, <2>1, <2>5, <2>6, <2>7, <2>8, RequestVersions DEF Settled
<1> QED
  BY <1>2, <1>3

LEMMA SetGetVersions ==
  ASSUME StoreInv, VersionInv, NEW c \in Client, SetGet(c)
  PROVE  VersionInv'
<1> DEFINE cl == call[c]
           i == cl.obj.id
           warned == setting.scope # "none" /\ Mismatch(cl.obj, collection[i])
           loaded == [cl EXCEPT !.got = collection[i].stamp, !.warned = warned]
           r == ToStore(loaded, cl.obj)
<1>1. cl.pc = "get" /\ UNCHANGED <<setting, verSeq, verTwice, known, collection, writes>> /\ Steps(c)
  BY NumbersStay DEF SetGet, Unapplied, Steps
<1>2. /\ CallOK(cl) /\ cl \in CallType /\ setting \in Settings /\ TypesOK
      /\ cl.obj \in ObjectType /\ i \in EntityId
  BY FineFacts DEF StoreInv
<1>3. CASE Becomes(c, CallFailed(cl))
  BY <1>1, <1>3, UnappliedVersions
<1>4. CASE There(i) /\ Becomes(c, r)
  <2>1. collection[i] \in Document
    BY <1>2, <1>4, DocumentIs
  <2>2. warned \in BOOLEAN /\ collection[i].stamp \in Nat /\ collection[i].ver \in Int
    BY <2>1 DEF Document
  <2>3. ~warned <=> setting.scope = "none" \/ cl.obj.ver = collection[i].ver
    BY DEF Mismatch
  <2> HIDE DEF warned
  <2>4. /\ loaded \in CallType /\ loaded.op = cl.op /\ loaded.from = cl.from /\ loaded.warned = warned
        /\ Stores(loaded) = Stores(cl)
    BY <1>2, <2>2 DEF CallType, Stores
  <2> HIDE DEF loaded
  <2>5. Becomes(c, r)
    BY <1>4 DEF loaded, warned
  <2>6. Stores(cl) = "save" /\ cl.op # "New"
    BY <1>1, <1>2 DEF CallOK, Stores
  <2>7. /\ r.op = cl.op /\ r.from = cl.from /\ r.warned = warned /\ SameButVersion(r.obj, cl.obj)
        /\ r.pc = IF setting.scope = "type" THEN "next" ELSE "save"
        /\ r.obj.ver = IF setting.scope = "object" THEN cl.obj.ver + 1 ELSE cl.obj.ver
    BY <1>2, <2>4, <2>6, ToStoreIs
  <2> HIDE DEF r
  <2>8. r.obj.id = i /\ r.obj.seen = cl.obj.seen /\ cl.obj.ver \in Int /\ cl.obj.seen \in Nat
    BY <1>2, <2>7 DEF SameButVersion, ObjectType
  <2>9. Reads(cl, known[c], cl.obj.ver, cl.obj.seen)
    BY <1>1 DEF Reads
  <2>10. collection[i].stamp = cl.obj.seen => collection[i].ver = cl.obj.ver
    BY <1>2, <1>4, <2>8, <2>9 DEF VersionInv, StampsOK
  <2>11. setting.scope \in {"none", "object", "type"}
    BY <1>2, SettingFacts
  <2>12. NewerThanSeen(r, collection, setting, verTwice)
    BY <2>2, <2>7, <2>8, <2>10, <2>11 DEF NewerThanSeen
  <2>13. ASSUME setting.scope = "type" PROVE Warned(r, collection, verTwice) /\ Moved(r, collection, setting, verTwice)
    <3>1. ~warned => collection[i].ver \in verTwice \/ collection[i].stamp = cl.obj.seen
      <4>1. NumbersOK
        BY <2>13 DEF VersionInv
      <4>2. collection[i].ver = cl.obj.ver /\ cl.obj.ver \notin verTwice => collection[i].stamp = cl.obj.seen
        BY <1>2, <1>4, <2>8, <2>9, <4>1 DEF NumbersOK
      <4> QED
        BY <2>3, <2>13, <4>2
    <3> QED
      BY <2>7, <2>8, <2>13, <3>1 DEF Warned, Moved
  <2>14. VersionsOK(r, collection, setting, verTwice')
    BY <1>1, <2>12, <2>13 DEF VersionsOK
  <2>15. \A v \in Int, s \in Nat : Reads(r, known[c], v, s) => Reads(cl, known[c], v, s)
    BY <1>1, <2>7, <2>8 DEF Reads
  <2>16. setting.scope = "type" => \A v \in Int : ~Pends(r, verTwice', v)
    BY <2>7 DEF Pends
  <2>17. \A v \in Int : DeleteReads(r, v) => DeleteReads(cl, v)
    BY <1>1, <2>7 DEF DeleteReads
  <2> QED
    BY <1>1, <2>5, <2>14, <2>15, <2>16, <2>17, RequestVersions
<1> QED
  BY <1>3, <1>4 DEF SetGet, There, Unapplied

LEMMA NextVersionVersions ==
  ASSUME StoreInv, VersionInv, NEW c \in Client, NextVersion(c)
  PROVE  VersionInv'
<1> DEFINE cl == call[c]
           Versioned(n) == [cl EXCEPT !.pc = Stores(cl), !.obj = [@ EXCEPT !.ver = n]]
<1>1. cl.pc = "next" /\ UNCHANGED <<setting, known, collection, writes>> /\ Steps(c)
  BY DEF NextVersion, Unapplied, Steps
<1>2. /\ CallOK(cl) /\ cl \in CallType /\ setting \in Settings /\ verSeq \in Nat /\ writes \in Nat
      /\ cl.obj \in ObjectType /\ cl.obj.id \in EntityId
  BY FineFacts
<1>3. setting.scope = "type" /\ Warned(cl, collection, verTwice) /\ NumbersOK
  BY <1>1 DEF VersionInv, VersionsOK, NewerThanSeen
<1>4. ASSUME NEW n \in Int, n \in verTwice' \/ (n = verSeq + 1 /\ verSeq' = verSeq + 1),
             verSeq' = verSeq \/ verSeq' = verSeq + 1, verTwice \subseteq verTwice', Becomes(c, Versioned(n))
      PROVE  VersionInv'
  <2>1. PICK p : p = [cl.obj EXCEPT !.ver = n]
    OBVIOUS
  <2>2. p \in ObjectType /\ p.ver = n /\ p.id = cl.obj.id /\ p.seen = cl.obj.seen
    BY <1>2, <2>1 DEF ObjectType
  <2>3. PICK r : r = [cl EXCEPT !.pc = Stores(cl), !.obj = p]
    OBVIOUS
  <2>4. Becomes(c, r)
    BY <1>2, <1>4, <2>1, <2>3 DEF CallType
  <2>5. /\ r.op = cl.op /\ r.obj = p /\ r.got = cl.got /\ r.pc = Stores(cl) /\ r.warned = cl.warned /\ r.from = cl.from
    BY <1>2, <2>2, <2>3 DEF CallType, Stores
  <2>6. r.pc = IF cl.op = "New" THEN "insert" ELSE "save"
    BY <2>5 DEF Stores
  <2>7. \A i \in EntityId : There(i) => collection[i].ver <= verSeq
    BY <1>2, <1>3, StampedDocs DEF NumbersOK
  <2>8. n \in verTwice' \/ (There(cl.obj.id) => n > collection[cl.obj.id].ver)
    <3>1. There(cl.obj.id) => collection[cl.obj.id].ver \in Int
      BY <1>2, StampedDocs
    <3> QED
      BY <1>2, <1>4, <2>7, <3>1
  <2>9. VersionsOK(r, collection, setting, verTwice')
    BY <1>1, <1>3, <1>4, <2>2, <2>5, <2>6, <2>8 DEF VersionsOK, NewerThanSeen, Warned, Moved, There
  <2>10. \A v \in Int, s \in Nat : Reads(r, known[c], v, s) => Reads(cl, known[c], v, s)
    BY <2>6 DEF Reads
  <2>11. \A v \in Int : Pends(r, verTwice', v) => v = verSeq + 1 /\ verSeq' = verSeq + 1
    BY <1>4, <2>2, <2>5 DEF Pends
  <2>12. \A v \in Int : DeleteReads(r, v) => DeleteReads(cl, v)
    BY <1>1, <2>5 DEF DeleteReads
  <2> QED
    BY <1>1, <1>4, <2>4, <2>9, <2>10, <2>11, <2>12, RequestVersions
<1>5. CASE Unapplied(c) /\ UNCHANGED <<verSeq, verTwice>>
  BY <1>1, <1>5, UnappliedVersions DEF Unapplied
<1>6. CASE verSeq' = verSeq + 1 /\ UNCHANGED verTwice /\ Becomes(c, Versioned(verSeq + 1))
  <2> HIDE DEF Versioned
  <2> QED
    BY <1>2, <1>4, <1>6
<1>7. ASSUME NEW again \in {-1} \cup 1..verSeq, UNCHANGED verSeq, verTwice' = verTwice \cup {again},
             Becomes(c, Versioned(again))
      PROVE  VersionInv'
  <2> HIDE DEF Versioned
  <2> QED
    BY <1>2, <1>4, <1>7
<1> QED
  BY <1>5, <1>6, <1>7 DEF NextVersion

LEMMA DeleteObjectVersions ==
  ASSUME StoreInv, VersionInv, NEW c \in Client, DeleteObject(c)
  PROVE  VersionInv'
<1> DEFINE cl == call[c]
           i == cl.obj.id
           bumps == setting.scope # "none" /\ setting.field
           o == LoadObject(i)
           r == [cl EXCEPT !.pc = IF bumps THEN "get" ELSE "remove", !.obj = o, !.from = collection[i].ver]
<1>1. cl.pc = "load" /\ cl.op = "Delete" /\ UNCHANGED <<setting, verSeq, verTwice, known, collection, writes>> /\ Steps(c)
  BY NumbersStay DEF DeleteObject, Unapplied, Steps
<1>2. /\ cl \in CallType /\ TypesOK /\ DocumentsOK /\ i \in EntityId
  BY FineFacts DEF StoreInv
<1>3. CASE Becomes(c, CallFailed(cl))
  BY <1>1, <1>3, UnappliedVersions
<1>4. CASE There(i) /\ Becomes(c, r)
  <2>1. o \in ObjectType /\ o.ver = collection[i].ver /\ o.seen = collection[i].stamp
    BY <1>2, <1>4, LoadObjectIs
  <2>2. collection[i].ver \in Int
    BY <1>2, <1>4, StampedDocs
  <2>3. PICK p \in {"get", "remove"} : p = (IF bumps THEN "get" ELSE "remove") /\ (p = "remove" <=> ~bumps)
    OBVIOUS
  <2> HIDE DEF o
  <2>4. r = [cl EXCEPT !.pc = p, !.obj = o, !.from = collection[i].ver] /\ Becomes(c, r)
    BY <1>4, <2>3 DEF o
  <2>5. r.pc = p /\ r.op = cl.op /\ r.obj = o /\ r.from = collection[i].ver
    <3> HIDE DEF r
    <3> QED
      BY <1>2, <2>1, <2>2, <2>4 DEF CallType
  <2> HIDE DEF r
  <2>6. VersionsOK(r, collection, setting, verTwice')
    BY <2>3, <2>5 DEF VersionsOK, NewerThanSeen, Warned, Moved
  <2>7. \A v \in Int, s \in Nat : Reads(r, known[c], v, s) =>
           \/ Reads(cl, known[c], v, s)
           \/ \E k \in EntityId : There(k) /\ v = collection[k].ver /\ s = collection[k].stamp
    BY <1>1, <1>2, <1>4, <2>1, <2>5 DEF Reads
  <2>8. \A v \in Int : ~Pends(r, verTwice', v)
    BY <2>3, <2>5 DEF Pends
  <2>9. \A v \in Int : DeleteReads(r, v) => \E k \in EntityId : There(k) /\ v = collection[k].ver
    BY <1>2, <1>4, <2>5 DEF DeleteReads
  <2> QED
    BY <1>1, <2>4, <2>6, <2>7, <2>8, <2>9, RequestVersions
<1> QED
  BY <1>3, <1>4 DEF DeleteObject, There, Unapplied

(* A write after which the request is settled.                             *)
LEMMA WriteVersions ==
  ASSUME StoreInv, VersionInv, NEW c \in Client, Steps(c), NEW r, Becomes(c, r), Settled(c, r),
         VersionsOK(r, collection', setting, verTwice'),
         UNCHANGED <<setting, verSeq, verTwice, known>>, NEW j \in EntityId, NEW d,
         collection' = [collection EXCEPT ![j] = d], writes' = writes + 1,
         \/ d = NoDoc
         \/ There(j) /\ d.ver = collection[j].ver /\ d.stamp = collection[j].stamp
         \/ /\ d.stamp = writes + 1 /\ call[c].pc \in {"save", "insert"} /\ d.ver = call[c].obj.ver
  PROVE  VersionInv'
<1>1. call'[c] = r /\ collection \in [EntityId -> Document \cup {NoDoc}] /\ writes \in Nat
  BY FineFacts DEF Becomes, StoreInv, TypesOK
<1>2. \A i \in EntityId : collection'[i] = IF i = j THEN d ELSE collection[i]
  BY <1>1
<1>3. \A i \in EntityId : i # j => Same(i)
  BY <1>2 DEF Same, There
<1>4. Same(j) \/ NewAt(c, j)
  <2>1. CASE d = NoDoc \/ (There(j) /\ d.ver = collection[j].ver /\ d.stamp = collection[j].stamp)
    BY <1>2, <2>1 DEF Same
  <2>2. CASE d # NoDoc /\ d.stamp = writes + 1 /\ call[c].pc \in {"save", "insert"} /\ d.ver = call[c].obj.ver
    BY <1>1, <1>2, <2>2 DEF NewAt, Pends, Settled
  <2> QED
    BY <2>1, <2>2
<1>5. writes' \in Nat /\ writes <= writes'
  BY <1>1
<1>6. \E k \in EntityId : (\A i \in EntityId : i # k => Same(i)) /\ (Same(k) \/ (NewAt(c, k) /\ writes' = writes + 1))
  BY <1>3, <1>4
<1>7. VersionFrame(c)
  BY <1>1, <1>5, <1>6, SettledFrame
<1> QED
  BY <1>7, FrameKeeps

LEMMA SettledVersions ==
  ASSUME StoreInv, VersionInv, NEW c \in Client, Steps(c), NEW r, Becomes(c, r), Settled(c, r),
         Moved(r, collection, setting, verTwice'),
         UNCHANGED <<setting, verSeq, verTwice, known, collection, writes>>
  PROVE  VersionInv'
<1>1. VersionsOK(r, collection, setting, verTwice')
  BY SettledOK
<1>2. \A v \in Int, s \in Nat : Reads(r, known[c], v, s) => Reads(call[c], known[c], v, s) \/ (v = 0 /\ s = 0)
  BY DEF Settled, Reads
<1> QED
  BY <1>1, <1>2, RequestVersions DEF Settled

LEMMA SaveVersions ==
  ASSUME StoreInv, VersionInv, NEW c \in Client, Save(c)
  PROVE  VersionInv'
<1> DEFINE cl == call[c]
           i == cl.obj.id
<1>1. cl.pc = "save" /\ UNCHANGED <<setting, verSeq, verTwice, known>> /\ Steps(c)
  BY NumbersStay DEF Save, Steps
<1>2. /\ Fine(cl, collection, writes, setting) /\ CallOK(cl) /\ cl \in CallType /\ setting \in Settings
      /\ cl.obj \in ObjectType /\ i \in EntityId /\ writes \in Nat /\ TypesOK
  BY FineFacts DEF StoreInv
<1>3. CASE Unapplied(c)
  BY <1>1, <1>3, UnappliedVersions DEF Unapplied
<1>4. Settled(c, CallFailed(cl)) /\ \A col, tw : Moved(CallFailed(cl), col, setting, tw)
  <2>1. CallFailed(cl) = Idle \/ Drops(cl, CallFailed(cl))
    BY <1>2, CallFailedIs
  <2> QED
    BY <2>1, FailedSettled, IdleIs DEF Drops, Moved
<1>5. Settled(c, SetDone(cl)) /\ (SetDone(cl).pc = "remove" =>
                                   cl.op = "Delete" /\ SetDone(cl).obj = cl.obj /\ SetDone(cl).from = cl.from)
  <2>1. CASE cl.op = "Delete"
    <3>1. PICK r : r = SetDone(cl)
      OBVIOUS
    <3>2. r.pc = "remove" /\ r.op = cl.op /\ r.obj = cl.obj /\ r.from = cl.from
      BY <1>2, <2>1, <3>1, SetDoneIs
    <3>3. Settled(c, r)
      BY <1>1, <2>1, <3>2 DEF Settled, Reads, Pends, DeleteReads
    <3> QED
      BY <2>1, <3>1, <3>2, <3>3
  <2>2. CASE cl.op # "Delete"
    <3>1. cl.op # "none" /\ ~Parsing(cl)
      BY <1>1, <1>2 DEF CallOK, Parsing
    <3>0. writes <= writes
      BY <1>2
    <3>4. /\ NewObjects(cl.todo, writes, setting)
          /\ \/ cl.op \in {"New", "BulkSet"} \/ cl.todo = <<>> \/ cl.op = "none"
             \/ (cl.op = "Delete" /\ cl.pc = "load")
      BY <1>2, <3>0, <3>1, TodoIs
    <3>2. NewObjects(cl.todo, writes, setting) /\ (cl.op \in {"New", "BulkSet"} \/ cl.todo = <<>>)
      BY <2>2, <3>1, <3>4
    <3>3. Settled(c, Continue(cl)) /\ Continue(cl).pc # "remove"
      BY <1>2, <2>2, <3>2, ContinueSettled
    <3> QED
      BY <2>2, <3>3 DEF SetDone
  <2> QED
    BY <2>1, <2>2
<1>6. CASE ~There(i) /\ UNCHANGED <<collection, writes>> /\ Answered(c, SetDone(cl))
  <2>1. Moved(SetDone(cl), collection, setting, verTwice')
    BY <1>5, <1>6 DEF Moved, There
  <2>2. PICK r \in {SetDone(cl), CallFailed(cl)} : Becomes(c, r)
    BY <1>6 DEF Answered
  <2> QED
    BY <1>1, <1>4, <1>5, <1>6, <2>1, <2>2, SettledVersions
<1>7. CASE SavedAs(c)
  <2>1. PICK d : d = collection'[i]
    OBVIOUS
  <2>2. /\ d # NoDoc /\ collection' = [collection EXCEPT ![i] = d] /\ writes' = writes + 1
        /\ d.ver = cl.obj.ver /\ d.stamp = writes + 1 /\ Answered(c, SetDone(cl))
    BY <1>7, <2>1 DEF SavedAs
  <2>3. Moved(SetDone(cl), collection', setting, verTwice') \/ setting.scope # "type"
    <3> SUFFICES ASSUME setting.scope = "type", SetDone(cl).pc = "remove", cl.from \notin verTwice'
                 PROVE  d.ver # cl.from
      BY <1>5, <2>1, <2>2 DEF Moved
    <3>1. cl.obj.ver \in Int /\ cl.from \in Int
      BY <1>2 DEF ObjectType, CallType
    <3>2. DeleteReads(cl, cl.from)
      BY <1>1, <1>5 DEF DeleteReads
    <3>3. ~Pends(cl, verTwice, cl.from)
      BY <3>1, <3>2 DEF VersionInv, NumbersOK
    <3> QED
      BY <1>1, <2>2, <3>3 DEF Pends
  <2>4. VersionsOK(SetDone(cl), collection', setting, verTwice')
    BY <1>5, <2>3, SettledOK DEF VersionsOK, Settled, NewerThanSeen
  <2>5. VersionsOK(CallFailed(cl), collection', setting, verTwice')
    BY <1>4, SettledOK
  <2>6. PICK r \in {SetDone(cl), CallFailed(cl)} : Becomes(c, r)
    BY <2>2 DEF Answered
  <2>7. Settled(c, r) /\ VersionsOK(r, collection', setting, verTwice')
    BY <1>4, <1>5, <2>4, <2>5, <2>6
  <2>8. d.stamp = writes + 1 /\ cl.pc \in {"save", "insert"} /\ d.ver = cl.obj.ver
    BY <1>1, <2>2
  <2> QED
    BY <1>1, <1>2, <2>2, <2>6, <2>7, <2>8, WriteVersions
<1>8. Unapplied(c) \/ SavedAs(c) \/ (~There(i) /\ UNCHANGED <<collection, writes>> /\ Answered(c, SetDone(cl)))
  <2>1. CASE UNCHANGED <<collection, writes>> /\ ~Unapplied(c)
    <3>1. CASE ~There(i)
      BY <2>1, <3>1 DEF Save, There
    <3>2. CASE There(i)
      BY <1>2, <2>1, <3>2 DEF Save, Write, There
    <3> QED
      BY <3>1, <3>2
  <2> QED
    BY <2>1, SaveIs
<1> QED
  BY <1>3, <1>6, <1>7, <1>8

LEMMA InsertVersions ==
  ASSUME StoreInv, VersionInv, NEW c \in Client, Insert(c)
  PROVE  VersionInv'
<1> DEFINE cl == call[c]
           i == cl.obj.id
<1>1. cl.pc = "insert" /\ UNCHANGED <<setting, verSeq, verTwice, known>> /\ Steps(c)
  BY NumbersStay DEF Insert, Steps
<1>2. /\ Fine(cl, collection, writes, setting) /\ CallOK(cl) /\ cl \in CallType /\ setting \in Settings
      /\ i \in EntityId /\ writes \in Nat
  BY FineFacts DEF StoreInv
<1>3. CASE Becomes(c, CallFailed(cl)) /\ UNCHANGED <<collection, writes>>
  BY <1>1, <1>3, UnappliedVersions
<1>4. CASE Write(i, Doc(cl.obj, writes + 1)) /\ Answered(c, Continue(cl))
  <2>1. cl.op = "New" /\ ~Parsing(cl)
    BY <1>1, <1>2 DEF CallOK, Parsing
  <2>2. NewObjects(cl.todo, writes, setting)
    <3>1. writes <= writes
      BY <1>2
    <3> QED
      BY <1>2, <2>1, <3>1, TodoIs
  <2>3. Settled(c, Continue(cl)) /\ Continue(cl).pc # "remove"
    BY <1>2, <2>1, <2>2, ContinueSettled
  <2>4. Settled(c, CallFailed(cl)) /\ CallFailed(cl).pc # "remove"
    BY <2>1, FailedSettled, IdleIs DEF CallFailed
  <2>5. PICK r \in {Continue(cl), CallFailed(cl)} : Becomes(c, r)
    BY <1>4 DEF Answered
  <2>6. Settled(c, r) /\ VersionsOK(r, collection', setting, verTwice')
    BY <2>3, <2>4, <2>5, SettledOK DEF Moved
  <2>7. PICK d : d = Doc(cl.obj, writes + 1)
    OBVIOUS
  <2>8. d.stamp = writes + 1 /\ d.ver = cl.obj.ver /\ cl.pc \in {"save", "insert"}
    BY <1>1, <2>7 DEF Doc
  <2>9. collection' = [collection EXCEPT ![i] = d] /\ writes' = writes + 1
    BY <1>4, <2>7 DEF Write
  <2> QED
    BY <1>1, <1>2, <2>5, <2>6, <2>8, <2>9, WriteVersions
<1> QED
  BY <1>3, <1>4 DEF Insert, Unapplied

LEMMA RemoveDocVersions ==
  ASSUME StoreInv, VersionInv, NEW c \in Client, RemoveDoc(c)
  PROVE  VersionInv'
<1> DEFINE cl == call[c]
           i == cl.obj.id
<1>1. cl.pc = "remove" /\ UNCHANGED <<setting, verSeq, verTwice, known>> /\ Steps(c)
  BY NumbersStay DEF RemoveDoc, Steps
<1>2. i \in EntityId /\ writes \in Nat /\ TypesOK /\ Idle.pc = "idle"
  BY FineFacts, IdleIs DEF StoreInv
<1>3. Settled(c, Idle) /\ \A col, tw : Moved(Idle, col, setting, tw)
  BY <1>2, IdleSettled DEF Moved
<1>4. CallFailed(cl) = Idle
  BY <1>1 DEF CallFailed
<1>5. CASE UNCHANGED <<collection, writes>>
  <2>1. Becomes(c, Idle)
    BY <1>2, <1>4, <1>5 DEF RemoveDoc, Answered, Unapplied, Write
  <2> QED
    BY <1>1, <1>3, <1>5, <2>1, SettledVersions
<1>6. ASSUME NEW d, There(i), Write(i, d), d = NoDoc \/ (d.ver = collection[i].ver /\ d.stamp = collection[i].stamp),
             Answered(c, Idle)
      PROVE  VersionInv'
  <2>1. Becomes(c, Idle)
    BY <1>4, <1>6 DEF Answered
  <2>2. VersionsOK(Idle, collection', setting, verTwice')
    BY <1>3, SettledOK
  <2> QED
    BY <1>1, <1>2, <1>3, <1>6, <2>1, <2>2, WriteVersions DEF Write
<1>7. CASE There(i) /\ setting.method = "delete" /\ Write(i, NoDoc) /\ Answered(c, Idle)
  BY <1>6, <1>7
<1>8. CASE There(i) /\ Write(i, [collection[i] EXCEPT !.deleted = TRUE, !.rev = writes + 1]) /\ Answered(c, Idle)
  <2>1. PICK x \in Document : x = collection[i]
    BY <1>2, <1>8, DocumentIs
  <2>2. PICK d : d = [x EXCEPT !.deleted = TRUE, !.rev = writes + 1]
    OBVIOUS
  <2>3. d.ver = x.ver /\ d.stamp = x.stamp
    BY <2>2 DEF Document
  <2> QED
    BY <1>6, <1>8, <2>1, <2>2, <2>3
<1> QED
  BY <1>5, <1>7, <1>8 DEF RemoveDoc, There, Unapplied

(* The first document, and its version, are read by nobody.                *)
LEMMA VersionInvInit == EntityInit => VersionInv
<1> SUFFICES ASSUME EntityInit PROVE VersionInv
  OBVIOUS
<1>1. StoreInv
  BY InitKeeps
<1>2. \A c \in Client : call[c] = Idle /\ known[c] = Nobody
  BY DEF EntityInit
<1>3. Nobody.ver = 0 /\ Nobody.stamp = 0
  BY DEF Nobody
<1>4. \A c \in Client, v \in Int, s \in Nat :
        /\ Reads(call[c], known[c], v, s) => v = 0 /\ s = 0
        /\ ~Pends(call[c], verTwice, v) /\ ~DeleteReads(call[c], v)
  BY <1>2, <1>3, IdleIs DEF Reads, Pends, DeleteReads
<1>5. \A i \in EntityId : There(i) => i = 1
  BY DEF EntityInit, There
<1>6. /\ writes \in Nat /\ verSeq \in Nat
      /\ \A i \in EntityId : There(i) =>
           collection[i].ver \in Int /\ collection[i].stamp \in Nat /\ collection[i].stamp \in 1..writes
  BY <1>1, StampedDocs
<1>7. StampsOK
  BY <1>4, <1>5, <1>6 DEF StampsOK
<1>8. setting.scope = "type" => \A i \in EntityId : There(i) => collection[i].ver \in 1..verSeq
  <2> SUFFICES ASSUME setting.scope = "type", There(1) PROVE collection[1].ver \in 1..verSeq
    BY <1>5
  <2>1. PICK v \in Val : \E h \in {<<>>, <<v>>} :
       LET n == Len(h) + 1
           o == [InitObject(1, FALSE) EXCEPT
                   !.val = v, !.hist = h, !.ver = IF setting.scope = "none" THEN 0 ELSE n]
       IN  /\ collection = [i \in EntityId |-> IF i = 1 THEN Doc(o, n) ELSE NoDoc]
           /\ verSeq = n /\ writes = n
    BY DEF EntityInit
  <2>2. PICK h \in {<<>>, <<v>>} :
       LET n == Len(h) + 1
           o == [InitObject(1, FALSE) EXCEPT
                   !.val = v, !.hist = h, !.ver = IF setting.scope = "none" THEN 0 ELSE n]
       IN  /\ collection = [i \in EntityId |-> IF i = 1 THEN Doc(o, n) ELSE NoDoc]
           /\ verSeq = n /\ writes = n
    BY <2>1
  <2>3. PICK n : n = Len(h) + 1
    OBVIOUS
  <2>4. n \in 1..2
    <3>1. h = <<>> \/ h = <<v>>
      BY <2>2
    <3>2. CASE h = <<>>
      BY <2>3, <3>2
    <3>3. CASE h = <<v>>
      BY <2>3, <3>3
    <3> QED
      BY <3>1, <3>2, <3>3
  <2>5. PICK o : o = [NoObject EXCEPT !.val = v, !.hist = h, !.ver = n]
    OBVIOUS
  <2>6. NoObject \in ObjectType /\ 1 \in EntityId
    BY NoObjectIs
  <2> HIDE DEF NoObject
  <2>7. o.ver = n
    BY <2>5, <2>6 DEF ObjectType
  <2>8. collection = [i \in EntityId |-> IF i = 1 THEN Doc(o, n) ELSE NoDoc] /\ verSeq = n
    BY <2>2, <2>3, <2>5 DEF NoObject
  <2>9. collection[1] = Doc(o, n) /\ Doc(o, n).ver = n
    BY <2>6, <2>7, <2>8 DEF Doc
  <2> QED
    BY <2>4, <2>8, <2>9
<1>9. setting.scope = "type" => NumbersOK
  BY <1>4, <1>5, <1>6, <1>8 DEF NumbersOK
<1>10. \A c \in Client : VersionsOK(call[c], collection, setting, verTwice)
  BY <1>2, IdleIs DEF VersionsOK, NewerThanSeen, Warned, Moved
<1> QED
  BY <1>7, <1>9, <1>10 DEF VersionInv

(* Every step keeps what is said of versions.                              *)
LEMMA VersionInvStep ==
  ASSUME StoreInv, VersionInv, [EntityNext]_entityVars
  PROVE  VersionInv'
<1>1. CASE UNCHANGED entityVars
  BY <1>1 DEF entityVars, VersionInv, StampsOK, NumbersOK, There
<1>2. CASE EntityNext
  <2>1. PICK c \in Client : Steps(c)
    BY <1>2, NextIs
  <2>2. CASE \E i \in EntityId : Query(c, i)
    BY <2>2, QueryVersions
  <2>3. CASE \/ \E i \in EntityId : DeleteMutation(c, i)
             \/ \E i \in EntityId, v \in Val \cup {Null, Keep} : SetMutation(c, i, v)
             \/ \E i \in EntityId \cup {0}, v \in Val : CreateMutation(c, i, v)
             \/ \E op \in {"New", "BulkSet"}, ids \in Batches, v \in Val : BulkMutation(c, op, ids, v)
    BY <2>1, <2>3, MutationVersions
  <2>4. CASE \/ LoadForSet(c) \/ Parse(c) \/ SetGet(c) \/ NextVersion(c)
             \/ Save(c) \/ Insert(c) \/ DeleteObject(c) \/ RemoveDoc(c)
    BY <2>4, LoadForSetVersions, ParseVersions, SetGetVersions, NextVersionVersions, SaveVersions, InsertVersions,
       DeleteObjectVersions, RemoveDocVersions
  <2> QED
    BY <2>1, <2>2, <2>3, <2>4 DEF Steps
<1> QED
  BY <1>1, <1>2

(* From the invariant, what the property says of a step.                   *)
LEMMA VersionsStep ==
  ASSUME StoreInv, VersionInv, EntityNext
  PROVE  UnseenOverwriteWarned /\ VersionFallExplained /\ MarkMovesVersion
<1>1. UnseenOverwriteWarned
  <2> SUFFICES ASSUME NEW c \in Client, Replaces(c), setting.scope = "type", ~call[c].warned,
                      ReplacedDoc(c).stamp = call[c].got
               PROVE  ReplacedDoc(c).stamp = call[c].obj.seen \/ ReplacedDoc(c).ver \in verTwice
    BY DEF UnseenOverwriteWarned
  <2>1. SavedAs(c) /\ CallOK(call[c])
    BY ReplacesIs, FineFacts
  <2>2. Warned(call[c], collection, verTwice)
    BY DEF VersionInv, VersionsOK
  <2>3. call[c].op # "New" /\ call[c].pc = "save" /\ There(call[c].obj.id)
    BY <2>1 DEF CallOK, SavedAs
  <2> QED
    BY <2>2, <2>3 DEF Warned, ReplacedDoc, There
<1>2. VersionFallExplained
  <2> SUFFICES ASSUME NEW c \in Client, Replaces(c), setting.scope # "none",
                      call[c].obj.seen = collection[call[c].obj.id].stamp,
                      collection'[call[c].obj.id].ver \notin verTwice
               PROVE  collection'[call[c].obj.id].ver > collection[call[c].obj.id].ver
    BY DEF VersionFallExplained
  <2>1. SavedAs(c)
    BY ReplacesIs
  <2>2. NewerThanSeen(call[c], collection, setting, verTwice)
    BY DEF VersionInv, VersionsOK
  <2> QED
    BY <2>1, <2>2 DEF SavedAs, NewerThanSeen, There
<1>3. MarkMovesVersion
  <2> SUFFICES ASSUME NEW c \in Client, call[c].pc = "remove", call'[c] # call[c], collection' # collection,
                      setting.scope = "type", setting.field, ~call[c].dropped
               PROVE  ReplacedDoc(c).ver # call[c].from \/ call[c].from \in verTwice
    BY DEF MarkMovesVersion
  <2>1. PICK e \in Client : Steps(e)
    BY NextIs
  <2>2. c = e
    BY <2>1, OthersKeep
  <2>3. RemoveDoc(c)
    <3>1. ~\E i \in EntityId : Query(c, i) \/ DeleteMutation(c, i)
      BY DEF Query, DeleteMutation, Start
    <3>2. ~\E i \in EntityId, v \in Val \cup {Null, Keep} : SetMutation(c, i, v)
      BY DEF SetMutation, Start
    <3>3. ~\E i \in EntityId \cup {0}, v \in Val : CreateMutation(c, i, v)
      BY DEF CreateMutation, Start
    <3>4. ~\E op \in {"New", "BulkSet"}, ids \in Batches, v \in Val : BulkMutation(c, op, ids, v)
      BY DEF BulkMutation, Start
    <3>5. ~(LoadForSet(c) \/ Parse(c) \/ SetGet(c) \/ NextVersion(c))
      BY DEF LoadForSet, Parse, SetGet, NextVersion
    <3>6. ~(Insert(c) \/ DeleteObject(c) \/ Save(c))
      BY DEF Insert, DeleteObject, Save
    <3> QED
      BY <2>1, <2>2, <3>1, <3>2, <3>3, <3>4, <3>5, <3>6 DEF Steps
  <2>4. There(call[c].obj.id)
    BY <2>3 DEF RemoveDoc, Unapplied, There
  <2>5. Moved(call[c], collection, setting, verTwice)
    BY DEF VersionInv, VersionsOK
  <2> QED
    BY <2>4, <2>5 DEF Moved, ReplacedDoc, There
<1> QED
  BY <1>1, <1>2, <1>3

(* What versions promise of every write, for any number of clients,        *)
(* requests and faults.                                                    *)
THEOREM VersionsAlwaysExplained == EntitySpec => VersionsExplained
<1>1. EntityInit => VersionInv
  BY VersionInvInit
<1>2. StoreInv /\ VersionInv /\ [EntityNext]_entityVars => VersionInv'
  BY VersionInvStep
<1>3. StoreInv /\ VersionInv /\ [EntityNext]_entityVars =>
        [UnseenOverwriteWarned /\ VersionFallExplained /\ MarkMovesVersion]_entityVars
  BY VersionsStep
<1> QED
  BY <1>1, <1>2, <1>3, StoreInvAlways, PTL DEF EntitySpec, VersionsExplained

-----------------------------------------------------------------------------
(***************************************************************************)
(* The children of a parent: while one replacement of them is between its  *)
(* two calls, the parent has no children; a second one that comes then is  *)
(* remembered.                                                             *)
(***************************************************************************)
JobRecord == [pc : {"none", "parse", "insert", "save"}, parent : Parent \cup {NoParent},
              new : BOOLEAN, input : Seq(Child \cup {0}), items : Seq(Child)]

ChildrenTypeOK ==
  /\ owner \in [Child -> Parent \cup {NoParent}]
  /\ childSeq \in 0..MaxChild
  /\ job \in [User -> JobRecord]
  /\ \A u \in User : job[u].pc # "none" => job[u].parent \in Parent
  /\ last \in [Parent -> SUBSET Child]

(* A parent whose replacements neither met nor were cut short.             *)
Tidy(p) ==
  /\ \A u, v \in Replacing(p) : u = v
  /\ IF Replacing(p) = {} THEN ListFK(p) = last[p] ELSE ListFK(p) = {}

ChildrenInv == ChildrenTypeOK /\ \A p \in Parent \ (mixed \cup cut) : Tidy(p)

-----------------------------------------------------------------------------
LEMMA ChildrenInvInit == ChildrenInit => ChildrenInv
<1> SUFFICES ASSUME ChildrenInit PROVE ChildrenInv
  OBVIOUS
<1>1. AtRest \in JobRecord
  BY DEF AtRest, JobRecord
<1>2. ChildrenTypeOK
  <2>1. childSeq \in 0..MaxChild
    BY ChildAssumption DEF ChildrenInit
  <2>2. AtRest.pc = "none"
    BY DEF AtRest
  <2> QED
    BY <1>1, <2>1, <2>2 DEF ChildrenInit, ChildrenTypeOK
<1>3. ASSUME NEW p \in Parent PROVE Tidy(p)
  <2>1. Replacing(p) = {}
    BY DEF ChildrenInit, Replacing, AtRest
  <2>2. ListFK(p) = {}
    BY ParentAssumption DEF ChildrenInit, ListFK
  <2> QED
    BY <2>1, <2>2 DEF ChildrenInit, Tidy
<1> QED
  BY <1>2, <1>3 DEF ChildrenInv

LEMMA ChildrenTypeNext == ChildrenTypeOK /\ [ChildrenNext]_childVars => ChildrenTypeOK'
<1> SUFFICES ASSUME ChildrenTypeOK, [ChildrenNext]_childVars PROVE ChildrenTypeOK'
  OBVIOUS
<1> USE DEF ChildrenTypeOK
<1>0. AtRest \in JobRecord /\ AtRest.pc = "none"
  BY DEF AtRest, JobRecord
<1>r. ASSUME NEW u \in User PROVE Ends(u) => /\ job' \in [User -> JobRecord]
                                             /\ \A v \in User : job'[v].pc # "none" => job'[v].parent \in Parent
  BY <1>0 DEF Ends
<1>g. ASSUME NEW u \in User, NEW place \in {"insert", "save"}, job[u].pc # "none",
             job' = [job EXCEPT ![u].pc = place]
      PROVE  /\ job' \in [User -> JobRecord]
             /\ \A v \in User : job'[v].pc # "none" => job'[v].parent \in Parent
  BY <1>g DEF JobRecord
<1>1. CASE UNCHANGED childVars
  BY <1>1 DEF childVars
<1>2. ASSUME NEW u \in User, NEW p \in Parent, NEW input \in ChildLists, BeginMutation(u, p, input)
      PROVE  ChildrenTypeOK'
  <2> DEFINE new == [pc |-> "parse", parent |-> p, new |-> p \notin parents, input |-> input, items |-> <<>>]
  <2>1. new \in JobRecord /\ new.parent \in Parent
    BY ChildAssumption DEF JobRecord
  <2> QED
    BY <1>2, <2>1 DEF BeginMutation
<1>3. ASSUME NEW u \in User, ParseChild(u) PROVE ChildrenTypeOK'
  <2> DEFINE me == job[u]
             given == Head(me.input)
             child == IF given = 0 THEN childSeq + 1 ELSE given
             new == [pc |-> "parse", parent |-> me.parent, new |-> me.new, input |-> Tail(me.input),
                     items |-> Append(me.items, child)]
  <2>1. me.input \in Seq(Child \cup {0}) /\ me.items \in Seq(Child) /\ me.input # <<>>
        /\ me.new \in BOOLEAN /\ me.parent \in Parent
    BY <1>3 DEF ParseChild, JobRecord
  <2>2. given \in Child \cup {0} /\ Tail(me.input) \in Seq(Child \cup {0})
    BY <2>1
  <2>3. childSeq + 1 \in Child
    BY <1>3, ChildAssumption DEF ParseChild, Child
  <2>4. child \in Child
    BY <2>2, <2>3
  <2>5. Append(me.items, child) \in Seq(Child)
    BY <2>1, <2>4
  <2>6. new \in JobRecord /\ new.parent \in Parent
    BY <2>1, <2>2, <2>5 DEF JobRecord
  <2>7. job' = [job EXCEPT ![u] = new] /\ childSeq' = childSeq + 1 /\ UNCHANGED <<owner, last>>
    BY <1>3 DEF ParseChild
  <2>8. childSeq' \in 0..MaxChild
    BY <2>3, <2>7, ChildAssumption DEF Child
  <2> QED
    BY <2>6, <2>7, <2>8
<1>4. ASSUME NEW u \in User, RemoveFK(u) PROVE ChildrenTypeOK'
  <2>1. job[u].pc = "parse" /\ (Ends(u) \/ job' = [job EXCEPT ![u].pc = "insert"])
    BY <1>4 DEF RemoveFK
  <2>2. owner' \in [Child -> Parent \cup {NoParent}] /\ UNCHANGED <<childSeq, last>>
    BY <1>4 DEF RemoveFK
  <2> QED
    BY <1>r, <1>g, <2>1, <2>2
<1>5. ASSUME NEW u \in User, InsertMany(u) PROVE ChildrenTypeOK'
  <2>1. job[u].pc = "insert" /\ (Ends(u) \/ job' = [job EXCEPT ![u].pc = "save"]) /\ childSeq' = childSeq
    BY <1>5 DEF InsertMany
  <2>2. job[u].parent \in Parent /\ job[u].items \in Seq(Child)
    BY <2>1 DEF JobRecord
  <2>3. {job[u].items[i] : i \in 1..Len(job[u].items)} \subseteq Child
    BY <2>2
  <2>4. owner' \in [Child -> Parent \cup {NoParent}]
    BY <1>5, <2>2 DEF InsertMany
  <2>5. last' \in [Parent -> SUBSET Child]
    BY <1>5, <2>2, <2>3 DEF InsertMany
  <2> QED
    BY <1>r, <1>g, <2>1, <2>4, <2>5
<1>6. ASSUME NEW u \in User, SaveParent(u) PROVE ChildrenTypeOK'
  BY <1>6, <1>r DEF SaveParent
<1>7. ASSUME NEW p \in Parent, DeleteParent(p) PROVE ChildrenTypeOK'
  BY <1>7 DEF DeleteParent
<1> QED
  BY <1>1, <1>2, <1>3, <1>4, <1>5, <1>6, <1>7 DEF ChildrenNext

-----------------------------------------------------------------------------
(* Steps that touch neither a parent's children nor who replaces them.     *)
LEMMA Untouched ==
  ASSUME NEW p \in Parent, Tidy(p), Replacing(p)' = Replacing(p), ListFK(p)' = ListFK(p),
         last'[p] = last[p]
  PROVE  Tidy(p)'
BY DEF Tidy

LEMMA SameChildren == owner' = owner => \A p \in Parent : ListFK(p)' = ListFK(p)
BY DEF ListFK

(* Who replaces, when one client's request moves.                          *)
LEMMA Moves ==
  ASSUME ChildrenTypeOK, NEW u \in User, NEW new \in JobRecord, job' = [job EXCEPT ![u] = new]
  PROVE  \A p \in Parent :
           Replacing(p)' = (Replacing(p) \ {u})
             \cup (IF new.parent = p /\ new.pc = "insert" THEN {u} ELSE {})
<1>1. job'[u] = new /\ \A v \in User \ {u} : job'[v] = job[v]
  BY DEF ChildrenTypeOK
<1> QED
  BY <1>1 DEF Replacing

LEMMA RestIsAJob == AtRest \in JobRecord /\ AtRest.pc = "none"
BY DEF AtRest, JobRecord

LEMMA QuietSteps ==
  ASSUME ChildrenInv, NEW u \in User, NEW new \in JobRecord, job' = [job EXCEPT ![u] = new],
         job[u].pc # "insert", new.pc # "insert", UNCHANGED <<owner, last, mixed, cut>>
  PROVE  \A p \in Parent \ (mixed' \cup cut') : Tidy(p)'
<1> SUFFICES ASSUME NEW p \in Parent \ (mixed \cup cut) PROVE Tidy(p)'
  OBVIOUS
<1>1. u \notin Replacing(p)
  BY DEF Replacing
<1>2. Replacing(p)' = (Replacing(p) \ {u})
             \cup (IF new.parent = p /\ new.pc = "insert" THEN {u} ELSE {})
  BY Moves DEF ChildrenInv
<1>3. Replacing(p)' = Replacing(p)
  BY <1>1, <1>2
<1>4. ListFK(p)' = ListFK(p) /\ Tidy(p)
  BY SameChildren DEF ChildrenInv
<1> QED
  BY <1>3, <1>4, Untouched

LEMMA RemoveKeeps ==
  ASSUME ChildrenInv, NEW u \in User, RemoveFK(u)
  PROVE  \A p \in Parent \ (mixed' \cup cut') : Tidy(p)'
<1> DEFINE me == job[u]
           goes == [pc |-> "insert", parent |-> me.parent, new |-> me.new, input |-> me.input,
                    items |-> me.items]
<1>0. PICK q \in Parent : q = me.parent
  BY DEF RemoveFK, ChildrenInv, ChildrenTypeOK
<1>1. me.pc = "parse" /\ q = me.parent /\ me \in JobRecord /\ last' = last
  BY <1>0 DEF RemoveFK, ChildrenInv, ChildrenTypeOK
<1>2. \A p \in Parent : u \notin Replacing(p)
  BY <1>1 DEF Replacing
<1>3. CASE Ends(u) /\ UNCHANGED <<owner, mixed, cut>>
  BY <1>1, <1>3, QuietSteps, RestIsAJob DEF Ends
<1>4. CASE /\ owner' = [i \in Child |-> IF owner[i] = q THEN NoParent ELSE owner[i]]
           /\ mixed' = (IF Replacing(q) # {} THEN mixed \cup {q} ELSE mixed \ {q})
           /\ \/ job' = [job EXCEPT ![u].pc = "insert"] /\ cut' = cut \ {q}
              \/ Ends(u) /\ cut' = cut \cup {q}
  <2>0. q # NoParent
    BY <1>1, ParentAssumption
  <2>1. ListFK(q)' = {}
    <3>1. \A i \in Child : owner'[i] # q
      BY <1>4, <2>0
    <3> QED
      BY <3>1 DEF ListFK
  <2>2. \A p \in Parent \ {q} : ListFK(p)' = ListFK(p)
    BY <1>4, ParentAssumption DEF ListFK
  <2>3. PICK new \in {goes, AtRest} : job' = [job EXCEPT ![u] = new]
                                      /\ (new = AtRest => q \in cut')
    <3>1. goes = [me EXCEPT !.pc = "insert"]
      BY <1>1 DEF JobRecord
    <3>2. CASE job' = [job EXCEPT ![u].pc = "insert"]
      <4>1. job' = [job EXCEPT ![u] = goes]
        BY <3>1, <3>2 DEF ChildrenInv, ChildrenTypeOK
      <4>2. goes # AtRest
        BY DEF AtRest
      <4> QED
        BY <4>1, <4>2
    <3>3. CASE Ends(u) /\ cut' = cut \cup {q}
      BY <3>3 DEF Ends
    <3> QED
      BY <1>4, <3>2, <3>3
  <2>4. goes \in JobRecord /\ goes.parent = q /\ goes.pc = "insert"
    BY <1>1 DEF JobRecord
  <2>5. new \in JobRecord /\ (new.pc = "insert" => new.parent = q)
    BY <2>4, RestIsAJob
  <2> HIDE DEF goes
  <2>m. \A p \in Parent : Replacing(p)' = (Replacing(p) \ {u})
             \cup (IF new.parent = p /\ new.pc = "insert" THEN {u} ELSE {})
    BY <2>3, <2>5, Moves DEF ChildrenInv
  <2>6. \A p \in Parent \ {q} : Replacing(p)' = Replacing(p)
    BY <1>2, <2>5, <2>m
  <2> SUFFICES ASSUME NEW p \in Parent, p \notin mixed', p \notin cut' PROVE Tidy(p)'
    OBVIOUS
  <2>7. CASE p # q
    <3>1. p \notin mixed /\ p \notin cut
      BY <1>4, <2>7
    <3>2. Tidy(p)
      BY <3>1 DEF ChildrenInv
    <3> QED
      BY <1>1, <2>2, <2>6, <2>7, <3>2, Untouched
  <2>8. CASE p = q
    <3>1. Replacing(q) = {} /\ new # AtRest
      BY <1>4, <2>3, <2>8
    <3>2. new = goes
      BY <3>1
    <3>3. Replacing(q)' = {u}
      BY <1>1, <2>4, <2>m, <3>1, <3>2
    <3> QED
      BY <2>1, <2>8, <3>3, Zenon DEF Tidy
  <2> QED
    BY <2>7, <2>8
<1> QED
  BY <1>0, <1>3, <1>4 DEF RemoveFK

(* Insertion is in order: it takes free identifiers, all or a part.        *)
LEMMA InsertedFree ==
  ASSUME NEW items \in Seq(Child)
  PROVE  \A i \in Inserted(items) : i \in Child /\ owner[i] = NoParent
BY DEF Inserted, Free

LEMMA InsertedWhole ==
  ASSUME NEW items \in Seq(Child), Cardinality(Inserted(items)) = Len(items)
  PROVE  Inserted(items) = {items[i] : i \in 1..Len(items)}
<1> DEFINE stop == {i \in 1..Len(items) : ~Free(items, i)}
           before == {k \in 1..Len(items) : \A s \in stop : k < s}
<1>0. Inserted(items) = {items[i] : i \in before}
  BY DEF Inserted
<1>1. CASE stop = {}
  <2>1. before = 1..Len(items)
    BY <1>1
  <2> QED
    BY <1>0, <2>1
<1>2. CASE stop # {}
  <2>1. PICK s \in stop : TRUE
    BY <1>2
  <2> DEFINE B == 1..(s - 1)
             T == {items[i] : i \in B}
             f == [i \in B |-> items[i]]
  <2>2. s \in Nat /\ s >= 1 /\ s <= Len(items) /\ Len(items) \in Nat
    BY <2>1
  <2>3. before \subseteq B
    <3> SUFFICES ASSUME NEW k \in before PROVE k \in B
      OBVIOUS
    <3>1. k \in Nat /\ k >= 1 /\ k < s
      BY <2>1
    <3> QED
      BY <2>2, <3>1
  <2>4. f \in Surjection(B, T)
    BY DEF Surjection
  <2>5. IsFiniteSet(B) /\ Cardinality(B) = s - 1
    <3>1. 1 \in Int /\ s - 1 \in Int
      BY <2>2
    <3>2. IsFiniteSet(1..(s - 1)) /\ Cardinality(1..(s - 1)) = IF 1 > s - 1 THEN 0 ELSE s - 1 - 1 + 1
      BY <3>1, FS_Interval
    <3> QED
      BY <2>2, <3>2
  <2>6. IsFiniteSet(T) /\ Cardinality(T) <= s - 1
    BY <2>4, <2>5, FS_Surjection
  <2> HIDE DEF B, T, f, before
  <2>7. Inserted(items) \in SUBSET T
    BY <1>0, <2>3 DEF T
  <2>8. Cardinality(Inserted(items)) <= Cardinality(T)
    BY <2>6, <2>7, FS_Subset
  <2>9. Cardinality(T) \in Nat
    BY <2>6, FS_CardinalityType
  <2> QED
    BY <2>2, <2>6, <2>8, <2>9
<1> QED
  BY <1>1, <1>2

LEMMA ChildInsertKeeps ==
  ASSUME ChildrenInv, NEW u \in User, InsertMany(u)
  PROVE  \A p \in Parent \ (mixed' \cup cut') : Tidy(p)'
<1> DEFINE me == job[u]
           saves == [pc |-> "save", parent |-> me.parent, new |-> me.new, input |-> me.input,
                     items |-> me.items]
<1>0. PICK q \in Parent : q = me.parent
  BY DEF InsertMany, ChildrenInv, ChildrenTypeOK
<1>i. PICK items \in Seq(Child) : items = me.items
  BY DEF ChildrenInv, ChildrenTypeOK, JobRecord
<1>1. me.pc = "insert" /\ q = me.parent /\ me \in JobRecord /\ mixed' = mixed
  BY <1>0 DEF InsertMany, ChildrenInv, ChildrenTypeOK
<1>2. u \in Replacing(q) /\ \A p \in Parent \ {q} : u \notin Replacing(p)
  BY <1>1 DEF Replacing
<1>3. PICK new \in JobRecord : new.pc # "insert" /\ job' = [job EXCEPT ![u] = new]
  <2>1. saves = [me EXCEPT !.pc = "save"] /\ saves \in JobRecord /\ saves.pc = "save"
    BY <1>1 DEF JobRecord
  <2>2. CASE job' = [job EXCEPT ![u].pc = "save"]
    <3>1. job' = [job EXCEPT ![u] = saves]
      BY <2>1, <2>2 DEF ChildrenInv, ChildrenTypeOK
    <3> QED
      BY <2>1, <3>1
  <2>3. CASE Ends(u)
    BY <2>3, RestIsAJob DEF Ends
  <2> QED
    BY <2>2, <2>3 DEF InsertMany
<1>4. \A p \in Parent : Replacing(p)' = Replacing(p) \ {u}
  <2>1. \A p \in Parent : Replacing(p)' = (Replacing(p) \ {u})
             \cup (IF new.parent = p /\ new.pc = "insert" THEN {u} ELSE {})
    BY <1>3, Moves DEF ChildrenInv
  <2> QED
    BY <1>3, <2>1
<1> SUFFICES ASSUME NEW p \in Parent, p \notin mixed', p \notin cut' PROVE Tidy(p)'
  OBVIOUS
<1>5. CASE owner' = owner /\ last' = last /\ cut' = cut \cup {q}
  <2>1. p # q /\ p \notin mixed /\ p \notin cut
    BY <1>1, <1>5
  <2>2. Tidy(p) /\ Replacing(p)' = Replacing(p) /\ ListFK(p)' = ListFK(p)
    BY <1>2, <1>4, <1>5, <2>1, SameChildren DEF ChildrenInv
  <2> QED
    BY <1>5, <2>2, Untouched
<1>6. CASE /\ owner' = [i \in Child |-> IF i \in Inserted(items) THEN q ELSE owner[i]]
           /\ last' = [last EXCEPT ![q] = {items[i] : i \in 1..Len(items)}]
           /\ cut' = (IF Cardinality(Inserted(items)) = Len(items) THEN cut ELSE cut \cup {q})
  <2>1. p \notin mixed /\ p \notin cut
    BY <1>1, <1>6
  <2>2. Tidy(p)
    BY <2>1 DEF ChildrenInv
  <2>3. CASE p # q
    <3>1. ListFK(p)' = ListFK(p)
      <4>1. \A i \in Child : owner'[i] = p <=> owner[i] = p
        BY <1>6, <2>3, InsertedFree, ParentAssumption
      <4> QED
        BY <4>1 DEF ListFK
    <3>2. last'[p] = last[p]
      BY <1>6, <2>3 DEF ChildrenInv, ChildrenTypeOK
    <3>3. Replacing(p)' = Replacing(p)
      BY <1>2, <1>4, <2>3
    <3> QED
      BY <2>2, <3>1, <3>2, <3>3, Untouched
  <2>4. CASE p = q
    <3>1. Replacing(p) = {u} /\ ListFK(p) = {}
      BY <1>2, <2>2, <2>4 DEF Tidy
    <3>2. Replacing(p)' = {}
      BY <1>4, <3>1
    <3>3. Cardinality(Inserted(items)) = Len(items)
      BY <1>6, <2>4
    <3>4. Inserted(items) = {items[i] : i \in 1..Len(items)}
      BY <3>3, InsertedWhole
    <3>5. \A i \in Child : owner[i] # p
      BY <3>1 DEF ListFK
    <3>6. \A i \in Child : owner'[i] = p <=> i \in Inserted(items)
      BY <1>6, <2>4, <3>5
    <3>7. ListFK(p)' = Inserted(items)
      BY <3>6, InsertedFree DEF ListFK
    <3>8. last'[p] = Inserted(items)
      BY <1>6, <2>4, <3>4 DEF ChildrenInv, ChildrenTypeOK
    <3> QED
      BY <3>2, <3>7, <3>8 DEF Tidy
  <2> QED
    BY <2>3, <2>4
<1> QED
  BY <1>0, <1>i, <1>5, <1>6 DEF InsertMany

LEMMA ChildrenInvNext == ChildrenInv /\ [ChildrenNext]_childVars => ChildrenInv'
<1> SUFFICES ASSUME ChildrenInv, [ChildrenNext]_childVars
             PROVE  \A p \in Parent \ (mixed' \cup cut') : Tidy(p)'
  BY ChildrenTypeNext DEF ChildrenInv
<1>0. ASSUME UNCHANGED <<owner, job, last, mixed, cut>>
      PROVE  \A p \in Parent \ (mixed' \cup cut') : Tidy(p)'
  BY <1>0 DEF ChildrenInv, Tidy, Replacing, ListFK
<1>1. CASE UNCHANGED childVars
  BY <1>0, <1>1 DEF childVars
<1>2. ASSUME NEW u \in User, NEW p \in Parent, NEW input \in ChildLists, BeginMutation(u, p, input)
      PROVE  \A q \in Parent \ (mixed' \cup cut') : Tidy(q)'
  <2> DEFINE new == [pc |-> "parse", parent |-> p, new |-> p \notin parents, input |-> input, items |-> <<>>]
  <2>1. new \in JobRecord /\ new.pc # "insert"
    BY ChildAssumption DEF JobRecord
  <2>2. job' = [job EXCEPT ![u] = new] /\ job[u].pc # "insert"
        /\ UNCHANGED <<owner, last, mixed, cut>>
    BY <1>2, RestIsAJob DEF BeginMutation
  <2> QED
    BY <2>1, <2>2, QuietSteps
<1>3. ASSUME NEW u \in User, ParseChild(u)
      PROVE  \A q \in Parent \ (mixed' \cup cut') : Tidy(q)'
  <2>1. ChildrenTypeOK /\ ChildrenTypeOK'
    BY ChildrenTypeNext DEF ChildrenInv
  <2> DEFINE me == job[u]
             new == [pc |-> "parse", parent |-> me.parent, new |-> me.new, input |-> Tail(me.input),
                     items |-> Append(me.items, IF Head(me.input) = 0 THEN childSeq + 1
                                                ELSE Head(me.input))]
  <2>2. job' = [job EXCEPT ![u] = new] /\ new.pc = "parse"
    BY <1>3 DEF ParseChild
  <2> HIDE DEF new
  <2>3. new \in JobRecord
    BY <2>1, <2>2 DEF ChildrenTypeOK
  <2>4. job[u].pc # "insert" /\ UNCHANGED <<owner, last, mixed, cut>>
    BY <1>3 DEF ParseChild
  <2> QED
    BY <2>2, <2>3, <2>4, QuietSteps
<1>4. ASSUME NEW u \in User, RemoveFK(u) \/ InsertMany(u)
      PROVE  \A q \in Parent \ (mixed' \cup cut') : Tidy(q)'
  BY <1>4, RemoveKeeps, ChildInsertKeeps
<1>5. ASSUME NEW u \in User, SaveParent(u)
      PROVE  \A q \in Parent \ (mixed' \cup cut') : Tidy(q)'
  BY <1>5, RestIsAJob, QuietSteps DEF SaveParent, Ends
<1>6. ASSUME NEW p \in Parent, DeleteParent(p)
      PROVE  \A q \in Parent \ (mixed' \cup cut') : Tidy(q)'
  BY <1>0, <1>6 DEF DeleteParent
<1> QED
  BY <1>1, <1>2, <1>3, <1>4, <1>5, <1>6 DEF ChildrenNext

(* However clients, parents and lists of children are chosen and whatever  *)
(* calls are lost: ListFK gives the children of the last replacement, but  *)
(* where replacements met or one was cut short (ReplaceFK).                *)
THEOREM ChildrenAlwaysOfOneInput == ChildrenSpec => []ChildrenOfOneInput
<1>1. ChildrenInit => ChildrenInv
  BY ChildrenInvInit
<1>2. ChildrenInv /\ [ChildrenNext]_childVars => ChildrenInv'
  BY ChildrenInvNext
<1>3. ChildrenInv => ChildrenOfOneInput
  BY DEF ChildrenInv, Tidy, ChildrenOfOneInput
<1> QED
  BY <1>1, <1>2, <1>3, PTL DEF ChildrenSpec
=============================================================================
