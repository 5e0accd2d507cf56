---------------------------- MODULE EntityStore ----------------------------
(***************************************************************************)
(* What the generator writes for an entity with a GraphQL interface, kept  *)
(* in MongoDB: queries and mutations (gen/gql_generator.go), the engine's  *)
(* methods behind them (gen/no_cache.go), the collection's                 *)
(* (gen/mongo_generator.go), and three options that work inside them:      *)
(* versions (gen/version.go), history (gen/change_detector.go and          *)
(* gen/history.go) and deletion by a mark.                                 *)
(*                                                                         *)
(* A request makes a call of the database or of a sequence at a time and   *)
(* holds no lock between them; each call is a step and may fail, applied   *)
(* or not.  The entity has one field with a history besides its options'.  *)
(* A sequence may give a number again: Next is not atomic (MongoSequence). *)
(* A process that stops loses its requests, which is no more than their    *)
(* not going on.                                                           *)
(***************************************************************************)
EXTENDS Integers, SequencesExt

CONSTANTS Client,    \* users, with one request each at a time
          Val, Null, \* values of the field; nil
          Keep,      \* an input that does not mention a field
          NoDoc,     \* no document
          Settings,  \* the ways the entity may be declared: see SettingType
          Batches,   \* pairs of identifiers in the inputs of bulk mutations, 0 for none
          MaxEntityId, MaxRequests, MaxFaults \* bounds on a behaviour

SettingType == [method : {"update", "delete"}, \* Delete marks the document, or deletes it
                field  : BOOLEAN,              \* the entity has a field for the mark
                scope  : {"none", "object", "type"}] \* versions

ASSUME SettingAssumption == Settings \subseteq SettingType
ASSUME BatchAssumption == Batches \subseteq (0..MaxEntityId) \X (0..MaxEntityId)
ASSUME EntityBoundAssumption == MaxEntityId \in Nat \ {0} /\ MaxRequests \in Nat /\ MaxFaults \in Nat
ASSUME NullAssumption == Null \notin Val /\ Keep \notin Val \cup {Null}
ASSUME NoDocAssumption == NoDoc \notin [val : Val \cup {Null}, ver : Int, hist : Seq(Val), deleted : BOOLEAN,
                                         given : BOOLEAN, stamp : Nat, rev : Nat]

VARIABLES
  setting,  \* the declaration
  collection,     \* the collection
  idSeq, verSeq, \* the largest numbers given for identifiers and for versions
  idTwice, verTwice, \* the numbers given more than once, and -1
  call,     \* of each client: its request
  known,    \* of each client: the document it has looked at last
  requests, faults, writes \* how many there were

entityVars == <<setting, collection, idSeq, verSeq, idTwice, verTwice, call, known,
                requests, faults, writes>>
numbers == <<idSeq, verSeq, idTwice, verTwice>>

EntityId == 1..MaxEntityId

(* A document.  Not in the code: given, the identifier was in the input;   *)
(* stamp, the number of its last replacement; rev, of its last write.      *)
Doc(o, n) == [val |-> o.val, ver |-> o.ver, hist |-> o.hist, deleted |-> o.deleted,
              given |-> o.given, stamp |-> n, rev |-> n]

(* An object in memory.  Not in the code: base, the rev it was loaded at,  *)
(* and seen, the stamp of the document its version was read from.          *)
Object(i, given, d) ==
  [val |-> d.val, ver |-> d.ver, hist |-> d.hist, deleted |-> d.deleted,
   given |-> given, id |-> i, dirty |-> FALSE, base |-> d.rev, seen |-> d.stamp]

(* Mutation: the document's own mark is not decoded. *)
LoadUnmarked(i) == [Object(i, collection[i].given, collection[i]) EXCEPT !.deleted = FALSE]

(* MethodLoad: by identifier, marked or not; without a field the mark is lost. *)
LoadObject(i) ==
  [Object(i, collection[i].given, collection[i]) EXCEPT !.deleted = collection[i].deleted /\ setting.field]

(* MethodInit: a fresh identifier, empty fields.                           *)
Blank == [val |-> Null, ver |-> 0, hist |-> <<>>, deleted |-> FALSE, stamp |-> 0, rev |-> 0]
InitObject(i, given) == Object(i, given, Blank)

(* Mutation: history compares with nothing and notes every save. *)
RecordedAlways(o) ==
  IF o.dirty THEN [o EXCEPT !.hist = Append(@, o.val)] ELSE o

(* HookSave: a field whose bit is set goes to its history, unless the last *)
(* entry there is the same.                                                *)
Recorded(o) ==
  IF o.dirty /\ (o.hist = <<>> \/ Last(o.hist) # o.val)
    THEN [o EXCEPT !.hist = Append(@, o.val)] ELSE o

(* The field's setter sets the bit if the value differs; SetNull has none. *)
WithValue(o, v) ==
  IF v = Keep THEN o
  ELSE [o EXCEPT !.val = v, !.dirty = @ \/ (v # Null /\ v # o.val)]

(* The parser of inputs: what the input mentions is set, the version too.  *)
Parsed(o, inp) ==
  LET p == WithValue(o, inp.val)
  IN  IF inp.ver = Keep THEN p ELSE [p EXCEPT !.ver = inp.ver, !.seen = inp.seen]

NoObject == InitObject(1, FALSE)
Idle == [pc |-> "idle", op |-> "none", todo |-> <<>>, obj |-> NoObject,
         got |-> 0, warned |-> FALSE, from |-> 0, dropped |-> FALSE]

Nobody == [ver |-> 0, stamp |-> 0, id |-> 0]

(* One object has been created with the first number of the sequence, and  *)
(* perhaps been Set once.                                                  *)
EntityInit ==
  /\ setting \in Settings
  /\ \E v \in Val : \E h \in {<<>>, <<v>>} :
       LET n == Len(h) + 1
           o == [InitObject(1, FALSE) EXCEPT
                   !.val = v, !.hist = h, !.ver = IF setting.scope = "none" THEN 0 ELSE n]
       IN  /\ collection = [i \in EntityId |-> IF i = 1 THEN Doc(o, n) ELSE NoDoc]
           /\ verSeq = n /\ writes = n
  /\ idSeq = 1 /\ idTwice = {} /\ verTwice = {-1}
  /\ call = [c \in Client |-> Idle]
  /\ known = [c \in Client |-> Nobody]
  /\ requests = 0 /\ faults = 0

-----------------------------------------------------------------------------
Becomes(c, r) == call' = [call EXCEPT ![c] = r]

Stores(cl) == IF cl.op = "New" THEN "insert" ELSE "save"

(* The next version: o.V++ here, or a number of the type's sequence.       *)
ToStore(cl, o) ==
  CASE setting.scope = "none"   -> [cl EXCEPT !.pc = Stores(cl), !.obj = o]
    [] setting.scope = "object" -> [cl EXCEPT !.pc = Stores(cl), !.obj = [o EXCEPT !.ver = @ + 1]]
    [] setting.scope = "type"   -> [cl EXCEPT !.pc = "next", !.obj = o]

(* Bulk methods go on with the next object.                                *)
Continue(cl) ==
  IF cl.todo = <<>> THEN Idle
  ELSE LET rest == [Idle EXCEPT !.op = cl.op, !.todo = Tail(cl.todo)]
       IN  IF cl.op = "New" THEN ToStore(rest, Head(cl.todo))
           ELSE [rest EXCEPT !.pc = "get", !.obj = Head(cl.todo)]

(* Set is done: Delete, which has called it for the version, goes on.      *)
SetDone(cl) == IF cl.op = "Delete" THEN [cl EXCEPT !.pc = "remove"] ELSE Continue(cl)

(* An error ends the request; Delete does not look at the one of its Set.  *)
CallFailed(cl) ==
  IF cl.op = "Delete" /\ cl.pc \in {"get", "next", "save"}
    THEN [cl EXCEPT !.pc = "remove", !.dropped = TRUE] ELSE Idle

Fault == faults < MaxFaults /\ faults' = faults + 1

(* A call that fails without an effect.                                    *)
Unapplied(c) == Fault /\ Becomes(c, CallFailed(call[c])) /\ UNCHANGED <<collection, writes>>

Write(i, d) == collection' = [collection EXCEPT ![i] = d] /\ writes' = writes + 1

(* What becomes of the request after a write: its answer may be lost.      *)
Answered(c, ok) ==
  \/ Becomes(c, ok) /\ UNCHANGED faults
  \/ Fault /\ Becomes(c, CallFailed(call[c]))

-----------------------------------------------------------------------------
(* A query by identifier shows the user the document, with its version.    *)
Query(c, i) ==
  /\ call[c].pc = "idle"
  /\ collection[i] # NoDoc
  /\ known' = [known EXCEPT ![c] = [ver |-> collection[i].ver, stamp |-> collection[i].stamp, id |-> i]]
  /\ UNCHANGED <<setting, collection, numbers, call, requests, faults, writes>>

Start(c, r) ==
  /\ call[c].pc = "idle" /\ requests < MaxRequests
  /\ requests' = requests + 1
  /\ Becomes(c, r)
  /\ UNCHANGED <<setting, collection, numbers, known, faults, writes>>

Input(i, v) == [val |-> v, ver |-> Keep, id |-> i, seen |-> 0]

SetMutation(c, i, v) ==
  \/ Start(c, [Idle EXCEPT !.pc = "load", !.op = "Set", !.todo = <<Input(i, v)>>])
  \/ /\ known[c].id = i /\ setting.scope # "none"
     /\ Start(c, [Idle EXCEPT !.pc = "load", !.op = "Set", !.todo =
                    <<[Input(i, v) EXCEPT !.ver = known[c].ver, !.seen = known[c].stamp]>>])

CreateMutation(c, i, v) ==
  Start(c, [Idle EXCEPT !.pc = "parse", !.op = "New", !.todo = <<Input(i, v)>>])

BulkMutation(c, op, ids, v) ==
  Start(c, [Idle EXCEPT !.pc = "parse", !.op = op, !.todo = <<Input(ids[1], v), Input(ids[2], v)>>])

DeleteMutation(c, i) ==
  Start(c, [Idle EXCEPT !.pc = "load", !.op = "Delete", !.obj = [NoObject EXCEPT !.id = i]])

-----------------------------------------------------------------------------
(* The mutation's own Get.  What is not found is made; if that fails, Set  *)
(* is called with nil and panics.                                          *)
LoadForSet(c) ==
  LET cl == call[c]  inp == cl.todo[1]
      found == collection[inp.id] # NoDoc
      obj == IF found THEN LoadObject(inp.id) ELSE InitObject(inp.id, TRUE)
  IN  /\ cl.pc = "load" /\ cl.op = "Set"
      /\ \/ /\ found \/ idSeq < MaxEntityId
            /\ idSeq' = IF found THEN idSeq ELSE idSeq + 1
            /\ Becomes(c, [cl EXCEPT !.pc = "get", !.todo = <<>>, !.obj = Parsed(obj, inp)])
            /\ UNCHANGED <<collection, writes, faults>>
         \/ Unapplied(c) /\ UNCHANGED idSeq
      /\ UNCHANGED <<setting, verSeq, idTwice, verTwice, known, requests>>

(* The inputs of Create and of the bulk mutations are parsed into new      *)
(* objects; an identifier in the input replaces the fresh one.  One of the *)
(* fresh ones may be a number that was given before.                       *)
Parse(c) ==
  LET cl == call[c]  n == Len(cl.todo)
      Obj(k, number) == LET inp == cl.todo[k]
                        IN  Parsed(IF inp.id \in EntityId THEN InitObject(inp.id, TRUE)
                                   ELSE InitObject(number, FALSE), inp)
      Parsing(number) == Becomes(c, Continue([cl EXCEPT !.todo = [k \in 1..n |-> Obj(k, number[k])]]))
      next == [k \in 1..n |-> idSeq + k]
  IN  /\ cl.pc = "parse"
      /\ \/ /\ idSeq + n <= MaxEntityId
            /\ idSeq' = idSeq + n
            /\ \/ Parsing(next) /\ UNCHANGED <<idTwice, faults>>
               \/ /\ Fault
                  /\ \E k \in 1..n, again \in 1..idSeq :
                       Parsing([next EXCEPT ![k] = again]) /\ idTwice' = idTwice \cup {again}
            /\ UNCHANGED <<collection, writes>>
         \/ Unapplied(c) /\ UNCHANGED <<idSeq, idTwice>>
      /\ UNCHANGED <<setting, verSeq, verTwice, known, requests>>

(* Mutation: only a version newer than the current one is a mismatch. *)
MismatchIfNewer(o, cur) == o.ver > cur.ver

(* A mismatch is logged, whatever behaviour the declaration asks for.      *)
Mismatch(o, cur) == o.ver # cur.ver

(* Set reads the document again, for the comparison of versions.           *)
SetGet(c) ==
  LET cl == call[c]  i == cl.obj.id
  IN  /\ cl.pc = "get"
      /\ \/ /\ collection[i] = NoDoc
            /\ Becomes(c, CallFailed(cl))
            /\ UNCHANGED <<collection, writes, faults>>
         \/ /\ collection[i] # NoDoc
            /\ Becomes(c, ToStore([cl EXCEPT !.got = collection[i].stamp,
                             !.warned = setting.scope # "none" /\ Mismatch(cl.obj, collection[i])], cl.obj))
            /\ UNCHANGED <<collection, writes, faults>>
         \/ Unapplied(c)
      /\ UNCHANGED <<setting, numbers, known, requests>>

(* A number of the type's sequence.  Getting the sequence may fail, and    *)
(* the request with it; an error of Next is not looked at, and -1 stays.   *)
(* Next may also give a number that was given before.                      *)
NextVersion(c) ==
  LET Versioned(n) == [call[c] EXCEPT !.pc = Stores(call[c]), !.obj = [@ EXCEPT !.ver = n]]
  IN  /\ call[c].pc = "next"
      /\ \/ /\ verSeq' = verSeq + 1
            /\ Becomes(c, Versioned(verSeq + 1))
            /\ UNCHANGED <<verTwice, collection, writes, faults>>
         \/ /\ Fault
            /\ \E again \in {-1} \cup 1..verSeq : Becomes(c, Versioned(again)) /\ verTwice' = verTwice \cup {again}
            /\ UNCHANGED <<verSeq, collection, writes>>
         \/ Unapplied(c) /\ UNCHANGED <<verSeq, verTwice>>
      /\ UNCHANGED <<setting, idSeq, idTwice, known, requests>>

(* MethodSave: nothing is checked but an error; what is gone stays gone.   *)
Save(c) ==
  LET cl == call[c]  i == cl.obj.id  o == Recorded(cl.obj)
  IN  /\ cl.pc = "save"
      /\ \/ /\ collection[i] = NoDoc
            /\ UNCHANGED <<collection, writes>>
            /\ Answered(c, SetDone(cl))
         \/ /\ collection[i] # NoDoc
            /\ Write(i, Doc([o EXCEPT !.given = collection[i].given], writes + 1))
            /\ Answered(c, SetDone(cl))
         \/ Unapplied(c)
      /\ UNCHANGED <<setting, numbers, known, requests>>

(* MethodCreate: no hooks; an identifier that is taken is an error.        *)
Insert(c) ==
  LET cl == call[c]  i == cl.obj.id
  IN  /\ cl.pc = "insert"
      /\ \/ /\ collection[i] # NoDoc
            /\ Becomes(c, CallFailed(cl))
            /\ UNCHANGED <<collection, writes, faults>>
         \/ /\ collection[i] = NoDoc
            /\ Write(i, Doc(cl.obj, writes + 1))
            /\ Answered(c, Continue(cl))
         \/ Unapplied(c)
      /\ UNCHANGED <<setting, numbers, known, requests>>

(* Delete: with versions and a field for the mark, the object is Set first. *)
DeleteObject(c) ==
  LET cl == call[c]  i == cl.obj.id
      bumps == setting.scope # "none" /\ setting.field
  IN  /\ cl.pc = "load" /\ cl.op = "Delete"
      /\ \/ /\ collection[i] = NoDoc
            /\ Becomes(c, CallFailed(cl))
            /\ UNCHANGED <<collection, writes, faults>>
         \/ /\ collection[i] # NoDoc
            /\ Becomes(c, [cl EXCEPT !.pc = IF bumps THEN "get" ELSE "remove",
                                     !.obj = LoadObject(i), !.from = collection[i].ver])
            /\ UNCHANGED <<collection, writes, faults>>
         \/ Unapplied(c)
      /\ UNCHANGED <<setting, numbers, known, requests>>

(* Mutation: the document is deleted, whatever the option says. *)
RemoveReally(c) ==
  /\ call[c].pc = "remove"
  /\ collection[call[c].obj.id] # NoDoc
  /\ Write(call[c].obj.id, NoDoc)
  /\ Becomes(c, Idle)
  /\ UNCHANGED <<setting, numbers, known, requests, faults>>

(* MethodRemove: the document is deleted, or marked.                       *)
RemoveDoc(c) ==
  LET cl == call[c]  i == cl.obj.id
  IN  /\ cl.pc = "remove"
      /\ \/ /\ collection[i] = NoDoc
            /\ UNCHANGED <<collection, writes>>
            /\ Answered(c, Idle)
         \/ /\ collection[i] # NoDoc
            /\ Write(i, IF setting.method = "delete" THEN NoDoc
                        ELSE [collection[i] EXCEPT !.deleted = TRUE, !.rev = writes + 1])
            /\ Answered(c, Idle)
         \/ Unapplied(c)
      /\ UNCHANGED <<setting, numbers, known, requests>>

EntityNext ==
  \E c \in Client :
    \/ \E i \in EntityId : Query(c, i) \/ DeleteMutation(c, i)
    \/ \E i \in EntityId, v \in Val \cup {Null, Keep} : SetMutation(c, i, v)
    \/ \E i \in EntityId \cup {0}, v \in Val : CreateMutation(c, i, v)
    \/ \E op \in {"New", "BulkSet"}, ids \in Batches, v \in Val : BulkMutation(c, op, ids, v)
    \/ LoadForSet(c) \/ Parse(c) \/ SetGet(c) \/ NextVersion(c)
    \/ Save(c) \/ Insert(c) \/ DeleteObject(c) \/ RemoveDoc(c)

EntitySpec == EntityInit /\ [][EntityNext]_entityVars

-----------------------------------------------------------------------------
DocType == [val : Val \cup {Null}, ver : Int, hist : Seq(Val), deleted : BOOLEAN,
            given : BOOLEAN, stamp : 1..writes, rev : 1..writes]

(* Histories hold values and versions are numbers; a mark is on a document *)
(* only where Delete marks.                                                *)
EntityTypeOK ==
  /\ setting \in Settings
  /\ \A i \in EntityId : collection[i] # NoDoc =>
       /\ collection[i] \in DocType
       /\ collection[i].deleted => setting.method = "update"
  /\ idSeq \in EntityId /\ idTwice \subseteq EntityId
  /\ verSeq \in Nat /\ verTwice \subseteq {-1} \cup 1..verSeq
  /\ \A c \in Client : call[c].obj.id \in EntityId /\ call[c].obj.base \in 0..writes

(* A document's history has no two equal entries in a row, and ends with   *)
(* the field's value unless that is null: whatever requests overlap or     *)
(* fail, the bit of the field and the comparison with the last entry       *)
(* (history.go, change_detector.go) record each change once.               *)
HistoryConsistent ==
  \A i \in EntityId : collection[i] # NoDoc /\ collection[i].hist # <<>> =>
    /\ \A k \in 1..(Len(collection[i].hist) - 1) : collection[i].hist[k] # collection[i].hist[k + 1]
    /\ collection[i].val \in {Last(collection[i].hist), Null}

(* c's step replaces the document of its object.                           *)
Replaces(c) == call[c].pc = "save" /\ call'[c] # call[c] /\ collection' # collection
ReplacedDoc(c) == collection[call[c].obj.id]

(* A replacement loses entries of a history only if the document was       *)
(* written after the object was loaded, or the object never was.           *)
HistoryLoss ==
  \A c \in Client : Replaces(c) =>
    LET i == call[c].obj.id
    IN  IsPrefix(collection[i].hist, collection'[i].hist) \/ call[c].obj.base # collection[i].rev

(* A mark is taken off a document only by an object that has no field for  *)
(* it, or was not loaded after the document was marked.                    *)
Revival ==
  \A i \in EntityId :
    (collection[i] # NoDoc /\ collection[i].deleted /\ collection'[i] # NoDoc /\ ~collection'[i].deleted) =>
      \/ ~setting.field
      \/ \E c \in Client : Replaces(c) /\ call[c].obj.id = i /\ call[c].obj.base # collection[i].rev

(* What a document loses to a replacement, entries of its history or its   *)
(* mark, it loses to an object that was loaded before a later write, or    *)
(* never: the lost update of a store that compares nothing                 *)
(* (mongo_generator.go, Save).                                             *)
OverwritesExplained == [][HistoryLoss /\ Revival]_entityVars

(* With versions from the type's sequence, a replacement of a document     *)
(* other than the one the user's version is of was logged as a mismatch,   *)
(* or the document came between Set's Get and its Save, or its version is  *)
(* one the sequence has given twice or the -1 of a Next that failed.       *)
UnseenOverwriteWarned ==
  \A c \in Client : Replaces(c) /\ setting.scope = "type" =>
    LET d == ReplacedDoc(c)
    IN  \/ d.stamp = call[c].obj.seen \/ call[c].warned
        \/ d.stamp # call[c].got \/ d.ver \in verTwice

(* A document's version goes up, unless it is replaced by an object that   *)
(* carries another document's version, or the new one is a number given    *)
(* twice or -1.                                                            *)
VersionFallExplained ==
  \A c \in Client : Replaces(c) /\ setting.scope # "none" =>
    LET i == call[c].obj.id
    IN  \/ collection'[i].ver > collection[i].ver
        \/ call[c].obj.seen # collection[i].stamp \/ collection'[i].ver \in verTwice

(* What Set has found is there when it is saved, unless documents are      *)
(* really deleted: only then may a Set answer with an object that is not   *)
(* stored, as ReplaceOne's count of matches is not looked at.              *)
SavedIsThere ==
  \A c \in Client : call[c].pc \in {"next", "save"} /\ call[c].op # "New" =>
    collection[call[c].obj.id] # NoDoc \/ setting.method = "delete"

(* An identifier of the sequence that turns out to be taken was taken by   *)
(* an object that was created with an identifier of its user's, or the     *)
(* sequence has given it twice.                                            *)
TakenIdExcused ==
  \A c \in Client : call[c].pc = "insert" /\ ~call[c].obj.given /\ collection[call[c].obj.id] # NoDoc =>
    collection[call[c].obj.id].given \/ call[c].obj.id \in idTwice

(* With versions of the type and a field for the mark, a document that is  *)
(* marked no longer has the version it had when Delete read it, unless the *)
(* Set that Delete calls has failed, which Delete does not notice, or that *)
(* version was given twice.                                                *)
MarkMovesVersion ==
  \A c \in Client :
    (/\ call[c].pc = "remove" /\ call'[c] # call[c] /\ collection' # collection
     /\ setting.scope = "type" /\ setting.field /\ ~call[c].dropped) =>
      ReplacedDoc(c).ver # call[c].from \/ call[c].from \in verTwice

(* What versions (version.go) promise of every write, the three above.     *)
VersionsExplained ==
  [][UnseenOverwriteWarned /\ VersionFallExplained /\ MarkMovesVersion]_entityVars

(* A request goes on with what is stored; and the types.                   *)
StoredAsAnswered == EntityTypeOK /\ SavedIsThere /\ TakenIdExcused
=============================================================================
