----------------------------- MODULE DictCache -----------------------------
(***************************************************************************)
(* The code generated for a dictionary (gen/dictionaries_generator.go in   *)
(* the functions of gen/no_cache.go) over its MongoDB collection           *)
(* (gen/mongo_generator.go): all items are cached, with an index by id and *)
(* one by qualifier, behind a read/write mutex.                            *)
(*                                                                         *)
(* Every operation first ensures the cache, a look without the mutex and   *)
(* then perhaps a load under it, gives the mutex up, and takes it again    *)
(* for the operation proper.  What is done under the mutex is one step:    *)
(* nobody else sees its middle, and a restart in it loses the cache.       *)
(* The collection is external: a call may fail, unapplied or applied.      *)
(*                                                                         *)
(* Get hands out a pointer to the cached item.  The GraphQL mutation       *)
(* generated for Set (gen/gql_generator.go), Change here, gets the item,   *)
(* has its input parsed into it, without the mutex, and calls Set with it. *)
(* The input always gives the qualifier.  Hooks and validators may refuse, *)
(* and leave items alone; the caller of a plain Set brings its own object. *)
(***************************************************************************)
EXTENDS Integers, SequencesExt

CONSTANTS Worker,    \* goroutines
          Id, Qual,  \* identifiers of items, a set of numbers, and values of the qualifier
          Ops,       \* the operations they call
          Faults,    \* what may go wrong: see FaultKinds
          SoftDelete,\* deleted items are marked and kept
          MaxCalls,  \* bound on the number of calls in a behaviour
          None,      \* a nil slice or map, no document
          Gone       \* a document that is marked as deleted

OpKinds == {"Get", "GetAll", "Set", "Change", "New", "Delete"}
FaultKinds == {"list", "save", "saveReply", "create", "createReply",
               "remove", "removeReply", "parse", "check", "crash"}

ASSUME KindAssumption == Ops \subseteq OpKinds /\ Faults \subseteq FaultKinds
ASSUME BoundAssumption == SoftDelete \in BOOLEAN /\ MaxCalls \in Nat
ASSUME IdAssumption == IsFiniteSet(Id) /\ Id # {} /\ Qual # {}
ASSUME NoneAssumption ==
  /\ {None, Gone} \cap Qual = {} /\ None # Gone
  /\ None \notin Seq([id : Id, qual : Qual])
  /\ None \notin [Id -> Nat] /\ None \notin [Qual -> SUBSET Nat]
  /\ \A workers \in SUBSET Worker : None # workers

VARIABLES
  db,      \* the collection: the qualifier of each document, by id
  cache,   \* the items, as a slice
  idx,     \* position of each id, 0 for none; None for a nil map
  qualIdx, \* the positions of each qualifier, their order left out; None for a nil map
  pc, op, id, qual, \* of each worker: place, operation and its arguments
  held,    \* of each worker: None, or the object Change works on, see Sharing
  checked, \* of each worker: Set or Delete has found the item to work on
  calls,   \* how many calls were started
  ret,     \* the last call that returned
  failed,  \* the ids a call of the collection has failed for since the cache was loaded
  spoiled, \* the ids whose cached item a Change has changed since then, and then ended
  moved,   \* the ids set, or changed in the cache, since then
  undone   \* nothing has been loaded since a Delete dropped the cache, or a List failed

caches == <<cache, idx, qualIdx>>
vars == <<db, caches, pc, op, id, qual, held, checked, calls, ret, failed, spoiled, moved, undone>>

Item(i, q) == [id |-> i, qual |-> q]
Stored(i) == IF db[i] \in Qual THEN db[i] ELSE None

Init ==
  /\ db \in [Id -> Qual \cup {None}]
  /\ cache = None /\ idx = None /\ qualIdx = None
  /\ pc = [w \in Worker |-> "idle"]
  /\ op \in [Worker -> {"Get"}] /\ id \in [Worker -> {CHOOSE i \in Id : TRUE}]
  /\ qual \in [Worker -> {CHOOSE q \in Qual : TRUE}]
  /\ held = [w \in Worker |-> None]
  /\ checked = [w \in Worker |-> FALSE]
  /\ calls = 0
  /\ ret = [out |-> "ok", there |-> FALSE, excused |-> FALSE]
  /\ failed = {} /\ spoiled = {} /\ moved = {} /\ undone = FALSE

Goto(w, l) == pc' = [pc EXCEPT ![w] = l]

Return(w, out) ==
  /\ Goto(w, "idle")
  /\ ret' = [out |-> out, there |-> Stored(id[w]) # None, excused |-> undone \/ id[w] \in failed]

Failed(w) == failed' = failed \cup {id[w]}

(* The object of a Change: {} while it is the one in the cache, and the    *)
(* workers that shared it when another took its place there.  What such an *)
(* object contains is the qual of its holders, those about to parse aside. *)
Sharing(i) == {w \in Worker : held[w] = {} /\ id[w] = i}
InCache(w) == held[w] = {}
Drop(w) == held' = [held EXCEPT ![w] = None]

(* A Change ends and leaves behind what it wrote into the cached item.     *)
GiveUp(w, changed) ==
  /\ Drop(w)
  /\ spoiled' = IF InCache(w) /\ changed THEN spoiled \cup {id[w]} ELSE spoiled

-----------------------------------------------------------------------------
Call(w, o, i, q) ==
  /\ pc[w] = "idle" /\ calls < MaxCalls
  /\ calls' = calls + 1
  /\ op' = [op EXCEPT ![w] = o]
  /\ id' = [id EXCEPT ![w] = i]
  /\ qual' = [qual EXCEPT ![w] = q]
  /\ checked' = [checked EXCEPT ![w] = FALSE]
  /\ Goto(w, "ensure")
  /\ UNCHANGED <<db, caches, held, ret, failed, spoiled, moved, undone>>

(* EnsureCache: a look without the mutex, ...                              *)
EnsureCache(w) ==
  /\ pc[w] = "ensure"
  /\ Goto(w, IF cache = None THEN "load" ELSE "act")
  /\ UNCHANGED <<db, caches, op, id, qual, held, checked, calls, ret, failed, spoiled, moved, undone>>

(* ... and another with it.  The items are listed in no particular order;  *)
(* the caller drops the error of a List that fails.                        *)
Positions(items, q) == {k \in 1..Len(items) : items[k].qual = q}

PositionOf(items, i) ==
  LET at == {k \in 1..Len(items) : items[k].id = i}
  IN  IF at = {} THEN 0 ELSE CHOOSE k \in at : \A j \in at : j <= k

Loaded(positions) ==
  LET items == SetToSeq({Item(i, db[i]) : i \in {i \in Id : Stored(i) # None}})
  IN  /\ cache' = items
      /\ idx' = [i \in Id |-> IF positions THEN PositionOf(items, i) ELSE 0]
      /\ qualIdx' = [q \in Qual |-> Positions(items, q)]
      /\ failed' = {} /\ spoiled' = {} /\ moved' = {} /\ undone' = FALSE

NotLoaded == UNCHANGED <<caches, failed, spoiled, moved>>

(* Mutation: the index by id is not rebuilt. *)
LoadWithoutIndex(w) ==
  /\ pc[w] = "load"
  /\ Loaded(FALSE)
  /\ Goto(w, "act")
  /\ UNCHANGED <<db, op, id, qual, held, checked, calls, ret>>

(* Mutation: under the mutex it is the index that is looked at. *)
LoadForIndex(w) ==
  /\ pc[w] = "load"
  /\ \/ idx # None /\ NotLoaded /\ UNCHANGED undone
     \/ idx = None /\ "list" \in Faults /\ NotLoaded /\ undone' = TRUE
     \/ idx = None /\ Loaded(TRUE)
  /\ Goto(w, "act")
  /\ UNCHANGED <<db, op, id, qual, held, checked, calls, ret>>

Load(w) ==
  /\ pc[w] = "load"
  /\ \/ cache # None /\ NotLoaded /\ UNCHANGED undone
     \/ cache = None /\ "list" \in Faults /\ NotLoaded /\ undone' = TRUE
     \/ cache = None /\ Loaded(TRUE)
  /\ Goto(w, "act")
  /\ UNCHANGED <<db, op, id, qual, held, checked, calls, ret>>

Found(w) == idx # None /\ idx[id[w]] # 0

Act(w, o) == pc[w] = "act" /\ op[w] = o

-----------------------------------------------------------------------------
(* Get, on its own and as the first part of Set, Delete and Change.        *)
Get(w) ==
  /\ pc[w] = "act"
  /\ op[w] = "Get" \/ (op[w] \in {"Set", "Change", "Delete"} /\ ~checked[w])
  /\ \/ ~Found(w) /\ Return(w, "not found") /\ Drop(w) /\ UNCHANGED checked
     \/ Found(w) /\ op[w] = "Get" /\ Return(w, "ok") /\ UNCHANGED <<held, checked>>
     \/ /\ Found(w) /\ op[w] = "Change" /\ held[w] = None
        /\ held' = [held EXCEPT ![w] = {}]
        /\ Goto(w, "parse")
        /\ UNCHANGED <<checked, ret>>
     \/ /\ Found(w) /\ (op[w] \in {"Set", "Delete"} \/ held[w] # None)
        /\ checked' = [checked EXCEPT ![w] = TRUE]
        /\ Goto(w, "ensure")
        /\ UNCHANGED <<held, ret>>
  /\ UNCHANGED <<db, caches, op, id, qual, calls, failed, spoiled, moved, undone>>

(* The input is parsed into the object, for everybody who holds it; the    *)
(* parser may fail before or after it has set the qualifier.               *)
Written(w) ==
  IF InCache(w)
    THEN /\ cache' = [cache EXCEPT ![idx[id[w]]] = Item(id[w], qual[w])]
         /\ moved' = moved \cup {id[w]}
         /\ UNCHANGED qual
    ELSE /\ qual' = [v \in Worker |-> IF held[v] = held[w] /\ pc[v] # "parse" THEN qual[w] ELSE qual[v]]
         /\ UNCHANGED <<cache, moved>>

ParseInput(w) ==
  /\ pc[w] = "parse"
  /\ \/ Written(w) /\ Goto(w, "ensure") /\ UNCHANGED <<held, ret, spoiled>>
     \/ "parse" \in Faults /\ Written(w) /\ Return(w, "error") /\ GiveUp(w, TRUE)
     \/ /\ "parse" \in Faults /\ UNCHANGED <<cache, qual, moved>>
        /\ Return(w, "error") /\ GiveUp(w, FALSE)
  /\ UNCHANGED <<db, idx, qualIdx, op, id, checked, calls, failed, undone>>

(* A hook or a validator refuses before the collection is called.          *)
Refuse(w) ==
  /\ "check" \in Faults
  /\ pc[w] = "ensure" /\ (checked[w] \/ op[w] = "New")
  /\ Return(w, "error") /\ GiveUp(w, TRUE)
  /\ UNCHANGED <<db, caches, op, id, qual, checked, calls, failed, moved, undone>>

(* GetAll of a qualifier goes from positions to items.                     *)
GetAll(w) ==
  /\ Act(w, "GetAll")
  /\ LET positions == IF qualIdx = None THEN {} ELSE qualIdx[qual[w]]
         length == IF cache = None THEN 0 ELSE Len(cache)
     IN  Return(w, IF \A k \in positions : k <= length THEN "ok" ELSE "panic")
  /\ UNCHANGED <<db, caches, op, id, qual, held, checked, calls, failed, spoiled, moved, undone>>

(* Set: the cache first, then ReplaceOne, which replaces nothing and is    *)
(* content when there is no document.  The object takes the place of the   *)
(* cached one, unless it is the cached one.                                *)
Value(w) == IF InCache(w) THEN cache[idx[id[w]]].qual ELSE qual[w]
Replaced(w) == IF db[id[w]] = None THEN db ELSE [db EXCEPT ![id[w]] = Value(w)]

Exchanged(w) ==
  IF InCache(w) THEN Drop(w) /\ UNCHANGED qual
  ELSE /\ held' = [v \in Worker |->
                      CASE v = w -> None
                        [] v # w /\ v \in Sharing(id[w]) -> Sharing(id[w])
                        [] v # w /\ held[w] # None /\ held[v] = held[w] -> {}
                        [] OTHER -> held[v]]
       /\ qual' = [v \in Worker |->
                      IF v \in Sharing(id[w]) /\ pc[v] # "parse" THEN cache[idx[id[w]]].qual ELSE qual[v]]

Set(w) ==
  /\ op[w] \in {"Set", "Change"} /\ pc[w] = "act" /\ checked[w]
  /\ \/ ~Found(w) /\ Return(w, "not found") /\ Drop(w) /\ UNCHANGED <<db, cache, qual, failed, spoiled, moved>>
     \/ /\ Found(w)
        /\ cache' = [cache EXCEPT ![idx[id[w]]] = Item(id[w], Value(w))]
        /\ moved' = moved \cup {id[w]}
        /\ Exchanged(w)
        /\ \/ /\ db' = Replaced(w) /\ Return(w, "ok")
              /\ spoiled' = spoiled \ {id[w]} /\ UNCHANGED failed
           \/ /\ "saveReply" \in Faults /\ db' = Replaced(w)
              /\ Return(w, "error") /\ Failed(w) /\ UNCHANGED spoiled
           \/ /\ "save" \in Faults /\ db' = db
              /\ Return(w, "error") /\ Failed(w) /\ UNCHANGED spoiled
  /\ UNCHANGED <<idx, qualIdx, op, id, checked, calls, undone>>

(* New: an id in the index is refused; InsertOne refuses one in the        *)
(* collection; then the item is appended and indexed.  With no index by id *)
(* the last of these panics, whatever was done before it, and the deferred *)
(* unlock still happens.                                                   *)

Indexed(w, position) == [qualIdx EXCEPT ![qual[w]] = @ \cup {position}]

Remember(w) ==
  LET items == IF cache = None THEN <<>> ELSE cache
      n == Len(items) + 1
  IN  /\ cache' = Append(items, Item(id[w], qual[w]))
      /\ \/ /\ idx # None
            /\ idx' = [idx EXCEPT ![id[w]] = n] /\ qualIdx' = Indexed(w, n)
            /\ Return(w, "ok")
         \/ /\ idx = None
            /\ UNCHANGED idx
            /\ qualIdx' = qualIdx \/ (qualIdx # None /\ qualIdx' = Indexed(w, n))
            /\ Return(w, "panic")

Inserted(w) == [db EXCEPT ![id[w]] = qual[w]]

New(w) ==
  /\ Act(w, "New")
  /\ \/ Found(w) /\ Return(w, "duplicate") /\ UNCHANGED <<db, caches, failed>>
     \/ /\ ~Found(w) /\ db[id[w]] # None
        /\ Return(w, "error") /\ UNCHANGED <<db, caches, failed>>
     \/ /\ ~Found(w) /\ db[id[w]] = None
        /\ \/ db' = Inserted(w) /\ Remember(w) /\ UNCHANGED failed
           \/ /\ "createReply" \in Faults /\ db' = Inserted(w)
              /\ Return(w, "error") /\ UNCHANGED caches /\ Failed(w)
           \/ /\ "create" \in Faults /\ UNCHANGED db
              /\ Return(w, "error") /\ UNCHANGED caches /\ Failed(w)
  /\ UNCHANGED <<op, id, qual, held, checked, calls, spoiled, moved, undone>>

(* Delete: the document, and with it the whole cache and the index by id.  *)
Removed(w) ==
  IF db[id[w]] = None THEN db ELSE [db EXCEPT ![id[w]] = IF SoftDelete THEN Gone ELSE None]

(* Mutation: the cache is not dropped with the document. *)
DeleteKeepsCache(w) ==
  /\ Act(w, "Delete") /\ checked[w]
  /\ \/ ~Found(w) /\ Return(w, "not found") /\ UNCHANGED db
     \/ Found(w) /\ db' = Removed(w) /\ Return(w, "ok")
  /\ UNCHANGED <<caches, op, id, qual, held, checked, calls, failed, spoiled, moved, undone>>

(* The objects that were in the cache stay with those who hold them.       *)
Emptied ==
  /\ cache' = None /\ idx' = None
  /\ held' = [v \in Worker |-> IF InCache(v) THEN Sharing(id[v]) ELSE held[v]]
  /\ qual' = [v \in Worker |->
                 IF InCache(v) /\ pc[v] # "parse" THEN cache[idx[id[v]]].qual ELSE qual[v]]

Delete(w) ==
  /\ Act(w, "Delete") /\ checked[w]
  /\ \/ /\ ~Found(w) /\ Return(w, "not found")
        /\ UNCHANGED <<db, cache, idx, held, qual, failed, undone>>
     \/ /\ Found(w)
        /\ \/ /\ db' = Removed(w) /\ Emptied /\ undone' = TRUE
              /\ Return(w, "ok") /\ UNCHANGED failed
           \/ /\ "removeReply" \in Faults /\ db' = Removed(w)
              /\ Return(w, "error") /\ UNCHANGED <<cache, idx, held, qual, undone>> /\ Failed(w)
           \/ /\ "remove" \in Faults /\ UNCHANGED db
              /\ Return(w, "error") /\ UNCHANGED <<cache, idx, held, qual, undone>> /\ Failed(w)
  /\ UNCHANGED <<qualIdx, op, id, checked, calls, spoiled, moved>>

(* The process stops and starts again. *)
Crash ==
  /\ "crash" \in Faults /\ cache # None
  /\ cache' = None /\ idx' = None /\ qualIdx' = None
  /\ pc' = [w \in Worker |-> "idle"] /\ held' = [w \in Worker |-> None] /\ undone' = FALSE
  /\ UNCHANGED <<db, op, id, qual, checked, calls, ret, failed, spoiled, moved>>

Step(w) == \/ EnsureCache(w) \/ Load(w) \/ ParseInput(w) \/ Refuse(w)
           \/ Get(w) \/ GetAll(w) \/ Set(w) \/ New(w) \/ Delete(w)

Next == \/ \E w \in Worker : \/ Step(w)
                             \/ \E o \in Ops, i \in Id, q \in Qual : Call(w, o, i, q)
        \/ Crash

Spec == Init /\ [][Next]_vars

-----------------------------------------------------------------------------
TypeOK ==
  /\ db \in [Id -> Qual \cup {None, Gone}]
  /\ cache = None \/ cache \in Seq([id : Id, qual : Qual])
  /\ idx = None \/ idx \in [Id -> Nat]
  /\ qualIdx = None \/ qualIdx \in [Qual -> SUBSET Nat]
  /\ pc \in [Worker -> {"idle", "ensure", "load", "act", "parse"}]
  /\ op \in [Worker -> OpKinds] /\ id \in [Worker -> Id] /\ qual \in [Worker -> Qual]
  /\ held \in [Worker -> {None} \cup (SUBSET Worker)]
  /\ checked \in [Worker -> BOOLEAN]
  /\ calls \in 0..MaxCalls
  /\ failed \subseteq Id /\ spoiled \subseteq Id /\ moved \subseteq Id /\ undone \in BOOLEAN

(* A cache without its index by id: New has run on what a Delete, or a     *)
(* failed List, left.                                                      *)
Broken == cache # None /\ idx = None
Cached(i) == IF idx[i] = 0 THEN None ELSE cache[idx[i]].qual

(* The index and the slice say the same, and no id is there twice.         *)
IndexAgrees ==
  cache # None /\ idx # None =>
    /\ \A i \in Id : idx[i] # 0 => idx[i] \in 1..Len(cache) /\ cache[idx[i]].id = i
    /\ \A k \in 1..Len(cache) : idx[cache[k].id] = k

(* A Change that has parsed its input and not ended works on the cached    *)
(* item.                                                                   *)
Changing(i) == \E w \in Worker : InCache(w) /\ id[w] = i /\ pc[w] # "parse"

(* The cache has the items of the collection, but for those a failed call  *)
(* was about, and with the same content, but for those that a Change has   *)
(* written into and is not done with, or has given up.                     *)
DriftsOnlyWhereFailed ==
  cache # None /\ idx # None => \A i \in Id :
    /\ Cached(i) = None /\ Stored(i) # None => i \in failed
    /\ Cached(i) # None /\ Stored(i) = None => i \in failed
    /\ Cached(i) # Stored(i) => i \in failed \cup spoiled \/ Changing(i)

(* The index by qualifier is right about every item not set or changed     *)
(* since it was built: Set does not touch it.                              *)
QualifierStaleOnlyWhereSet ==
  cache # None /\ ~Broken =>
    \A k \in 1..Len(cache) : cache[k].id \notin moved =>
      \A q \in Qual : k \in qualIdx[q] <=> cache[k].qual = q

(* The item of a Change stays the cached one until another takes its place *)
(* or the cache is dropped.                                                *)
HeldAreCached == \A w \in Worker : InCache(w) => Found(w)

(* What the cache says of the collection, whatever the interleaving, and   *)
(* the types.                                                              *)
CacheAgrees == TypeOK /\ HeldAreCached /\ IndexAgrees /\ DriftsOnlyWhereFailed /\ QualifierStaleOnlyWhereSet

(* A broken dictionary is never mended while the process lives: nothing is *)
(* found in it, set or deleted again, whatever the collection holds.       *)
BrokenIsFinal ==
  [][Broken /\ ~Crash =>
       /\ Broken'
       /\ \A w \in Worker : pc[w] = "act" /\ pc'[w] = "idle" /\ op[w] \in {"Get", "Set", "Change", "Delete"}
                           => ret'.out = "not found"]_vars

(* "item not found" (errors.go:9): what is not found is not there.         *)
NotFoundMeansAbsent == ret.out = "not found" => ~ret.there

(* It is there only when an insertion of it was answered with an error, or *)
(* when the cache was dropped, or not loaded, behind the call's back.      *)
NotFoundExplained == ret.out = "not found" /\ ret.there => ret.excused

(* Nobody panics, at a position without an item or a store in a nil map,   *)
(* in any other situation.                                                 *)
PanicExplained == ret.out = "panic" => ret.excused

(* Both: every call that misses an item has one of these reasons.          *)
MissesExplained == NotFoundExplained /\ PanicExplained
=============================================================================
