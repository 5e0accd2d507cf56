-------------------------------- MODULE LRU --------------------------------
(***************************************************************************)
(* cache.LRU (cache/lru.go): a bounded map whose items are chained in a    *)
(* doubly linked list, most recently used first.  The list is modelled at  *)
(* the level of its pointers; every exported operation runs under c.lock   *)
(* and is one action.                                                      *)
(*                                                                         *)
(* `stamp` and `clock` are history variables: the moment an item was last  *)
(* put at the head of the list.  No guard but the bound MaxClock reads     *)
(* them; they let the properties speak of "least recently used" without    *)
(* mentioning the list.                                                    *)
(***************************************************************************)
EXTENDS Integers, FiniteSets

CONSTANTS Key,        \* the keys callers use
          Value,      \* the values they store
          Zero,       \* the zero value of V, what a failed lookup returns
          Item,       \* addresses of lruItem structures
          Nil,        \* the nil pointer
          Size,       \* NewLRU's argument
          MaxClock    \* bound on the number of promotions in a behaviour

(* NewLRU(0) panics on its first Set (removeTail returns nil), so a usable *)
(* cache has a positive size.                                              *)
ASSUME SizeAssumption == Size \in Nat \ {0}
(* Nil is told apart from everything else a variable may hold.             *)
ASSUME NilAssumption == Nil \notin Item \cup Value \cup {Zero}
ASSUME ClockAssumption == MaxClock \in Nat

VARIABLES index,      \* c.index: the item of each key, Nil when absent
          content,    \* it.key and it.value of each item
          list,       \* c.head, c.tail and the next and prev of each item
          res,        \* what the last call returned
          panicked,   \* a nil pointer was dereferenced
          stamp, clock

cache == <<index, content, list>>
history == <<stamp, clock>>
vars == <<index, content, list, res, panicked, stamp, clock>>

-----------------------------------------------------------------------------
(* The list operations, as functions of the whole list.  Each has the      *)
(* condition under which the Go code would dereference a nil pointer.      *)

Pointer == Item \cup {Nil}

NewList == [head |-> Nil, tail |-> Nil,
            next |-> [i \in Item |-> Nil], prev |-> [i \in Item |-> Nil]]

(* f[p] := v, for a field f of the item at p; nothing when p is nil. *)
Assign(f, p, v) == [i \in Item |-> IF i = p THEN v ELSE f[i]]

addHeadPanics(l) == l.tail # Nil /\ l.head = Nil

(* Mutation: the first item does not become the tail. *)
addHeadForgetsTail(l, it) ==
  [head |-> it, tail |-> l.tail,
   next |-> Assign(l.next, it, l.head), prev |-> Assign(l.prev, it, Nil)]

addHead(l, it) ==
  [head |-> it,
   tail |-> IF l.tail = Nil THEN it ELSE l.tail,
   next |-> Assign(l.next, it, l.head),
   prev |-> LET p == Assign(l.prev, it, Nil)
            IN  IF l.tail = Nil THEN p ELSE Assign(p, l.head, it)]

removeTailPanics(l) == l.tail = Nil

removeTail(l) ==
  LET newTail == l.prev[l.tail]
  IN  [head |-> IF newTail = Nil THEN Nil ELSE l.head,
       tail |-> newTail,
       next |-> Assign(l.next, newTail, Nil),
       prev |-> l.prev]

moveToHeadPanics(l, it) == l.head # it /\ (l.prev[it] = Nil \/ l.head = Nil)

(* Mutation: a use of an item does not move it. *)
moveToHeadSkipped(l, it) == l

moveToHead(l, it) ==
  IF l.head = it THEN l
  ELSE LET p == l.prev[it]
           n == l.next[it]
       IN  [head |-> it,
            tail |-> IF n = Nil THEN p ELSE l.tail,
            next |-> Assign(Assign(l.next, p, n), it, l.head),
            prev |-> Assign(Assign(Assign(l.prev, n, p), it, Nil), l.head, it)]

remove(l, it) ==
  LET p == l.prev[it]
      n == l.next[it]
  IN  [head |-> IF p = Nil THEN n ELSE l.head,
       tail |-> IF n = Nil THEN p ELSE l.tail,
       next |-> Assign(l.next, p, n),
       prev |-> Assign(l.prev, n, p)]

-----------------------------------------------------------------------------
Present == {k \in Key : index[k] # Nil}
Live == {index[k] : k \in Present}

Full == Cardinality(Present) = Size

NoCall == [op |-> "none", key |-> Nil, value |-> Zero]

Init ==
  /\ index = [k \in Key |-> Nil]
  /\ content = [i \in Item |-> [key |-> Nil, value |-> Zero]]
  /\ list = NewList
  /\ res = NoCall
  /\ panicked = FALSE
  /\ stamp = [i \in Item |-> 0]
  /\ clock = 0

Return(op, k, v) == res' = [op |-> op, key |-> k, value |-> v]

Panic == /\ panicked' = TRUE
         /\ UNCHANGED <<cache, history>>

Promoted(it) == /\ clock < MaxClock
                /\ clock' = clock + 1
                /\ stamp' = [stamp EXCEPT ![it] = clock + 1]

(* setItem on a key the index holds. *)
Update(k, v) ==
  LET it == index[k]
  IN  /\ k \in Present
      /\ IF moveToHeadPanics(list, it) THEN Panic
         ELSE /\ content' = [content EXCEPT ![it].value = v]
              /\ list' = moveToHead(list, it)
              /\ Promoted(it)
              /\ UNCHANGED <<index, panicked>>

(* setItem when len(c.index) = c.size: the tail's item is recycled. *)
Evict(k, v) ==
  LET it == list.tail
      shorter == removeTail(list)
  IN  /\ k \notin Present
      /\ Full
      /\ IF removeTailPanics(list) \/ addHeadPanics(shorter) THEN Panic
         ELSE /\ index' = [index EXCEPT ![content[it].key] = Nil, ![k] = it]
              /\ content' = [content EXCEPT ![it] = [key |-> k, value |-> v]]
              /\ list' = addHead(shorter, it)
              /\ Promoted(it)
              /\ UNCHANGED panicked

(* setItem with room left: a new item, at an address nobody uses. *)
Insert(k, v, used) ==
  /\ k \notin Present
  /\ ~Full
  /\ \E it \in Item \ (Live \cup used) :
       IF addHeadPanics(list) THEN Panic
       ELSE /\ index' = [index EXCEPT ![k] = it]
            /\ content' = [content EXCEPT ![it] = [key |-> k, value |-> v]]
            /\ list' = addHead(list, it)
            /\ Promoted(it)
            /\ UNCHANGED panicked

setItem(k, v, used) == Update(k, v) \/ Evict(k, v) \/ Insert(k, v, used)

(* findItem: a hit moves the item to the head. *)
findItem(k) ==
  \/ /\ k \in Present
     /\ IF moveToHeadPanics(list, index[k]) THEN Panic
        ELSE /\ list' = moveToHead(list, index[k])
             /\ Promoted(index[k])
             /\ UNCHANGED <<index, content, panicked>>
  \/ k \notin Present /\ UNCHANGED <<cache, panicked, history>>

(* The `ok` findItem returns.  "if it, ok := c.index[key]; ok { ... }"     *)
(* declares an ok of its own, so the named result is never assigned and    *)
(* every lookup reports a miss.                                            *)
findItemOk(k) == FALSE

-----------------------------------------------------------------------------
Set(k, v) == /\ ~panicked
             /\ setItem(k, v, {})
             /\ Return("Set", k, Zero)

(* Find, and Get, which is Find without the flag. *)
Find(k) ==
  /\ ~panicked
  /\ findItem(k)
  /\ Return("Find", k, IF findItemOk(k) THEN content[index[k]].value ELSE Zero)

Remove(k) ==
  /\ ~panicked
  /\ \/ /\ k \in Present
        /\ list' = remove(list, index[k])
        /\ index' = [index EXCEPT ![k] = Nil]
        /\ Return("Remove", k, content[index[k]].value)
        /\ UNCHANGED <<content, panicked, history>>
     \/ /\ k \notin Present
        /\ Return("Remove", k, Zero)
        /\ UNCHANGED <<cache, panicked, history>>

Next == \E k \in Key : \/ \E v \in Value : Set(k, v)
                       \/ Find(k)
                       \/ Remove(k)

Spec == Init /\ [][Next]_vars

-----------------------------------------------------------------------------
CacheTypeOK ==
  /\ index \in [Key -> Pointer]
  /\ content \in [Item -> [key : Key \cup {Nil}, value : Value \cup {Zero}]]
  /\ list \in [head : Pointer, tail : Pointer,
               next : [Item -> Pointer], prev : [Item -> Pointer]]
  /\ panicked \in BOOLEAN
  /\ stamp \in [Item -> Nat]
  /\ clock \in Nat

TypeOK ==
  /\ CacheTypeOK
  /\ res \in [op : {"none", "Set", "Find", "Remove"}, key : Key \cup {Nil},
              value : Value \cup {Zero}]

(* The index and the items agree: the item filed under a key carries it. *)
IndexMatches == \A k \in Present : content[index[k]].key = k

(* head and tail of list l are the two ends of the items L, nil together.  *)
EndsMatch(l, L) ==
  /\ l.head \in L \cup {Nil}
  /\ l.tail \in L \cup {Nil}
  /\ L = {} <=> l.head = Nil
  /\ L = {} <=> l.tail = Nil
  /\ \A i \in L : /\ l.prev[i] = Nil <=> i = l.head
                  /\ l.next[i] = Nil <=> i = l.tail

(* next and prev are mutually inverse on L, and never lead out of it.      *)
Linked(l, L) ==
  \A i \in L :
    /\ l.next[i] # Nil => l.next[i] \in L /\ l.prev[l.next[i]] = i
    /\ l.prev[i] # Nil => l.prev[i] \in L /\ l.next[l.prev[i]] = i

(* Following next goes back in time.                                       *)
RecencyOrdered(l, L, s, c) ==
  \A i \in L : /\ s[i] <= c
               /\ l.next[i] # Nil => s[l.next[i]] < s[i]

Chain(l, L, s, c) ==
  EndsMatch(l, L) /\ Linked(l, L) /\ RecencyOrdered(l, L, s, c)

(* The list is well formed between any two calls: it chains exactly the    *)
(* indexed items, in order of last use (what setItem, findItem and Remove  *)
(* rely on when they move an item or recycle the tail).                    *)
WellFormed == IndexMatches /\ Chain(list, Live, stamp, clock)

(* No legal sequence of calls makes the pointer surgery of addHead,        *)
(* removeTail or moveToHead dereference nil.                               *)
NoPanic == ~panicked

(* The cache never holds more than the size it was made with.              *)
Bounded == IsFiniteSet(Present) /\ Cardinality(Present) <= Size

(* Together these are inductive. *)
CacheInv == CacheTypeOK /\ WellFormed /\ NoPanic /\ Bounded

(* "Get() = %v, want %v" (cache/lru_test.go:57): looking up a key the      *)
(* cache holds returns the value stored under it.                          *)
GetReturnsStored ==
  res.op = "Find" /\ res.key \in Present =>
    res.value = content[index[res.key]].value
=============================================================================
