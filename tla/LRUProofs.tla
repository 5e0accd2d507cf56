----------------------------- MODULE LRUProofs -----------------------------
(***************************************************************************)
(* For every set of keys, values and items and every size: the list stays  *)
(* well formed, no call dereferences nil, the size is respected, and the   *)
(* cache implements LRUAbstract.                                           *)
(*                                                                         *)
(* The list lemmas come first: each list operation takes a chain of a set  *)
(* of items to a chain of the new set.  That the tail is a least recently  *)
(* used item needs no induction along the list: among the live items one   *)
(* has the smallest stamp, and an item with a next is not it.              *)
(*                                                                         *)
(* The lockable cache is built on that: CacheInv and a list ordered by use *)
(* say what its victims can be, and UserInv what a goroutine finds of the  *)
(* item, the box and the mutex it is after.                                *)
(***************************************************************************)
EXTENDS LRURefinement, Lockable, FiniteSetTheorems, WellFoundedInduction, TLAPS

ListType == [head : Pointer, tail : Pointer,
             next : [Item -> Pointer], prev : [Item -> Pointer]]

-----------------------------------------------------------------------------
(* Among any items, one has not been used since any other was.             *)
LEMMA OldestExists ==
  ASSUME NEW S \in SUBSET Item, S # {}, NEW s \in [Item -> Nat]
  PROVE  \E m \in S : \A j \in S : s[m] <= s[j]
<1> DEFINE T == {s[i] : i \in S}
<1>1. T \subseteq Nat /\ T # {}
  OBVIOUS
<1>2. PICK x \in T : \A y \in T : <<y, x>> \notin OpToRel(<, Nat)
  BY <1>1, NatLessThanWellFounded, WFMin
<1>3. \A y \in T : x <= y
  <2> TAKE y \in T
  <2>1. <<y, x>> \in Nat \X Nat /\ ~(y < x)
    BY <1>1, <1>2 DEF OpToRel
  <2> QED
    BY <2>1
<1>4. PICK m \in S : s[m] = x
  BY <1>2
<1> QED
  BY <1>3, <1>4

(* The tail of a chain is an item nobody has gone unused longer than.      *)
LEMMA TailIsOldest ==
  ASSUME NEW l \in ListType, NEW L \in SUBSET Item, NEW s \in [Item -> Nat],
         NEW c \in Nat, L # {}, Chain(l, L, s, c)
  PROVE  l.tail \in L /\ \A j \in L : s[l.tail] <= s[j]
<1>1. PICK m \in L : \A j \in L : s[m] <= s[j]
  BY OldestExists
<1>2. l.next[m] = Nil
  BY <1>1 DEF Chain, Linked, RecencyOrdered
<1> QED
  BY <1>1, <1>2 DEF Chain, EndsMatch

(* An item that is both ends of a chain is all of it.  The item that comes *)
(* last among the others would have to be followed by this one.            *)
LEMMA OnlyItem ==
  ASSUME NEW l \in ListType, NEW L \in SUBSET Item, NEW s \in [Item -> Nat],
         NEW c \in Nat, Chain(l, L, s, c), l.head \in L, l.head = l.tail
  PROVE  L = {l.head}
<1> SUFFICES ASSUME L \ {l.head} # {}
             PROVE  FALSE
  OBVIOUS
<1>1. PICK m \in L \ {l.head} : \A j \in L \ {l.head} : s[m] <= s[j]
  BY OldestExists
<1>2. l.next[m] # Nil /\ l.next[m] \in L /\ s[l.next[m]] < s[m] /\ l.prev[l.next[m]] = m
  BY <1>1 DEF Chain, EndsMatch, Linked, RecencyOrdered
<1>3. l.next[m] = l.head
  BY <1>1, <1>2
<1> QED
  BY <1>2, <1>3, NilAssumption DEF Chain, EndsMatch

(* Putting an item that is not in the list at its head, and giving it a    *)
(* newer stamp than any, makes a chain of one item more.                   *)
LEMMA AddHeadChain ==
  ASSUME NEW l \in ListType, NEW L \in SUBSET Item, NEW s \in [Item -> Nat],
         NEW c \in Nat, NEW it \in Item \ L, Chain(l, L, s, c)
  PROVE  /\ ~addHeadPanics(l)
         /\ addHead(l, it) \in ListType
         /\ Chain(addHead(l, it), L \cup {it}, [s EXCEPT ![it] = c + 1], c + 1)
<1> DEFINE m == addHead(l, it)
           t == [s EXCEPT ![it] = c + 1]
           M == L \cup {it}
<1>1. ~addHeadPanics(l)
  BY DEF addHeadPanics, Chain, EndsMatch
<1>2. m \in ListType
  BY NilAssumption DEF addHead, ListType, Pointer, Assign, Chain, EndsMatch
<1>3. EndsMatch(m, M)
  BY NilAssumption DEF addHead, ListType, Pointer, Assign, Chain, EndsMatch, Linked
<1>4. Linked(m, M)
  BY NilAssumption DEF addHead, ListType, Pointer, Assign, Chain, EndsMatch, Linked
<1>5. RecencyOrdered(m, M, t, c + 1)
  BY NilAssumption DEF addHead, ListType, Pointer, Assign, Chain, EndsMatch, Linked,
                       RecencyOrdered
<1> QED
  BY <1>1, <1>2, <1>3, <1>4, <1>5 DEF Chain

(* Promoting an item of the list keeps the same items chained.             *)
LEMMA MoveToHeadChain ==
  ASSUME NEW l \in ListType, NEW L \in SUBSET Item, NEW s \in [Item -> Nat],
         NEW c \in Nat, NEW it \in L, Chain(l, L, s, c)
  PROVE  /\ ~moveToHeadPanics(l, it)
         /\ moveToHead(l, it) \in ListType
         /\ Chain(moveToHead(l, it), L, [s EXCEPT ![it] = c + 1], c + 1)
<1> DEFINE m == moveToHead(l, it)
           t == [s EXCEPT ![it] = c + 1]
<1>1. ~moveToHeadPanics(l, it)
  BY DEF moveToHeadPanics, Chain, EndsMatch
<1>2. CASE l.head = it
  <2>1. m = l
    BY <1>2 DEF moveToHead
  <2>2. RecencyOrdered(l, L, t, c + 1)
    BY <1>2, NilAssumption DEF Chain, EndsMatch, Linked, RecencyOrdered, ListType, Pointer
  <2> QED
    BY <1>1, <2>1, <2>2 DEF Chain
<1>3. CASE l.head # it
  <2>1. m \in ListType
    BY <1>3, NilAssumption DEF moveToHead, ListType, Pointer, Assign, Chain, EndsMatch
  <2>2. EndsMatch(m, L)
    BY <1>3, NilAssumption
       DEF moveToHead, ListType, Pointer, Assign, Chain, EndsMatch, Linked
  <2>3. Linked(m, L)
    BY <1>3, NilAssumption
       DEF moveToHead, ListType, Pointer, Assign, Chain, EndsMatch, Linked
  <2>4. RecencyOrdered(m, L, t, c + 1)
    BY <1>3, NilAssumption
       DEF moveToHead, ListType, Pointer, Assign, Chain, EndsMatch, Linked, RecencyOrdered
  <2> QED
    BY <1>1, <2>1, <2>2, <2>3, <2>4 DEF Chain
<1> QED
  BY <1>2, <1>3

(* Taking an item out of the list leaves the others chained.               *)
LEMMA RemoveChain ==
  ASSUME NEW l \in ListType, NEW L \in SUBSET Item, NEW s \in [Item -> Nat],
         NEW c \in Nat, NEW it \in L, Chain(l, L, s, c)
  PROVE  /\ remove(l, it) \in ListType
         /\ Chain(remove(l, it), L \ {it}, s, c)
<1> DEFINE m == remove(l, it)
<1>1. m \in ListType
  BY NilAssumption DEF remove, ListType, Pointer, Assign, Chain, EndsMatch
<1>2. EndsMatch(m, L \ {it})
  BY OnlyItem, NilAssumption DEF remove, ListType, Pointer, Assign, Chain, EndsMatch, Linked
<1>3. Linked(m, L \ {it})
  BY NilAssumption DEF remove, ListType, Pointer, Assign, Chain, EndsMatch, Linked
<1>4. RecencyOrdered(m, L \ {it}, s, c)
  BY NilAssumption DEF remove, ListType, Pointer, Assign, Chain, EndsMatch, Linked,
                       RecencyOrdered
<1> QED
  BY <1>1, <1>2, <1>3, <1>4 DEF Chain

(* removeTail takes the last item out of a list that is not empty.         *)
LEMMA RemoveTailChain ==
  ASSUME NEW l \in ListType, NEW L \in SUBSET Item, NEW s \in [Item -> Nat],
         NEW c \in Nat, L # {}, Chain(l, L, s, c)
  PROVE  /\ ~removeTailPanics(l)
         /\ l.tail \in L
         /\ removeTail(l) \in ListType
         /\ Chain(removeTail(l), L \ {l.tail}, s, c)
<1> DEFINE m == removeTail(l)
<1>1. ~removeTailPanics(l) /\ l.tail \in L
  BY DEF removeTailPanics, Chain, EndsMatch
<1>2. m \in ListType
  BY <1>1, NilAssumption DEF removeTail, ListType, Pointer, Assign
<1>3. EndsMatch(m, L \ {l.tail})
  BY <1>1, OnlyItem, NilAssumption
     DEF removeTail, ListType, Pointer, Assign, Chain, EndsMatch, Linked
<1>4. Linked(m, L \ {l.tail})
  BY <1>1, NilAssumption
     DEF removeTail, ListType, Pointer, Assign, Chain, EndsMatch, Linked
<1>5. RecencyOrdered(m, L \ {l.tail}, s, c)
  BY <1>1, NilAssumption
     DEF removeTail, ListType, Pointer, Assign, Chain, EndsMatch, Linked, RecencyOrdered
<1> QED
  BY <1>1, <1>2, <1>3, <1>4, <1>5 DEF Chain

-----------------------------------------------------------------------------
(* Two keys never share an item, and an indexed item carries its own key.  *)
LEMMA IndexInjective ==
  ASSUME CacheInv
  PROVE  /\ Live \in SUBSET Item /\ Present \in SUBSET Key
         /\ \A j, k \in Present : index[j] = index[k] => j = k
         /\ \A i \in Live : content[i].key \in Present /\ index[content[i].key] = i
BY DEF CacheInv, CacheTypeOK, Pointer, Present, Live, WellFormed, IndexMatches

LEMMA InitInv == Init => CacheInv
<1> SUFFICES ASSUME Init PROVE CacheInv
  OBVIOUS
<1>1. Present = {} /\ Live = {}
  BY DEF Init, Present, Live
<1>2. CacheTypeOK
  BY DEF Init, CacheTypeOK, NewList, Pointer
<1>3. WellFormed
  BY <1>1 DEF Init, WellFormed, IndexMatches, Chain, EndsMatch, Linked, RecencyOrdered, NewList
<1>4. Bounded
  BY <1>1, FS_EmptySet, SizeAssumption DEF Bounded
<1> QED
  BY <1>2, <1>3, <1>4 DEF Init, CacheInv, NoPanic

(* Storing under a key that is present.                                    *)
LEMMA UpdateInv ==
  ASSUME CacheInv, NEW k \in Key, NEW v \in Value, Update(k, v)
  PROVE  CacheInv'
<1> DEFINE it == index[k]
<1>1. Live \in SUBSET Item /\ it \in Live
  BY IndexInjective DEF Update, Live
<1>2. list \in ListType /\ stamp \in [Item -> Nat] /\ clock \in Nat /\ Chain(list, Live, stamp, clock)
  BY DEF CacheInv, CacheTypeOK, ListType, WellFormed
<1>3. /\ ~moveToHeadPanics(list, it)
      /\ moveToHead(list, it) \in ListType
      /\ Chain(moveToHead(list, it), Live, [stamp EXCEPT ![it] = clock + 1], clock + 1)
  BY <1>1, <1>2, MoveToHeadChain
<1>4. /\ list' = moveToHead(list, it)
      /\ stamp' = [stamp EXCEPT ![it] = clock + 1]
      /\ clock' = clock + 1
      /\ content' = [content EXCEPT ![it].value = v]
      /\ UNCHANGED <<index, panicked>>
  BY <1>3 DEF Update, Promoted
<1>5. Present' = Present /\ Live' = Live
  BY <1>4 DEF Present, Live
<1>6. CacheTypeOK'
  BY <1>1, <1>2, <1>3, <1>4 DEF CacheInv, CacheTypeOK, ListType
<1>7. IndexMatches'
  BY <1>1, <1>4, <1>5 DEF CacheInv, CacheTypeOK, WellFormed, IndexMatches, Live
<1>8. Chain(list, Live, stamp, clock)'
  BY <1>3, <1>4, <1>5
<1> QED
  BY <1>4, <1>5, <1>6, <1>7, <1>8 DEF CacheInv, WellFormed, NoPanic, Bounded

(* What a full cache is about to give up, and what that leaves.            *)
LEMMA Victim ==
  ASSUME CacheInv, Cardinality(Present) = Size
  PROVE  LET it == list.tail
             old == content[it].key
         IN  /\ it \in Live /\ old \in Present /\ index[old] = it
             /\ \A j \in Present : stamp[it] <= stamp[index[j]]
<1>1. Present # {}
  BY SizeAssumption, FS_EmptySet
<1>2. Live # {}
  BY <1>1 DEF Live
<1>3. list \in ListType /\ stamp \in [Item -> Nat] /\ clock \in Nat /\ Chain(list, Live, stamp, clock)
  BY DEF CacheInv, CacheTypeOK, ListType, WellFormed
<1>4. list.tail \in Live /\ \A j \in Live : stamp[list.tail] <= stamp[j]
  BY <1>2, <1>3, TailIsOldest, IndexInjective
<1> QED
  BY <1>4, IndexInjective DEF Live

(* Storing under a new key in a full cache.                                *)
LEMMA EvictStep ==
  ASSUME CacheInv, NEW k \in Key, NEW v \in Value, Evict(k, v)
  PROVE  /\ CacheInv'
         /\ index' = [index EXCEPT ![content[list.tail].key] = Nil, ![k] = list.tail]
         /\ content' = [content EXCEPT ![list.tail] = [key |-> k, value |-> v]]
         /\ stamp' = [stamp EXCEPT ![list.tail] = clock + 1]
         /\ clock' = clock + 1
<1> DEFINE it == list.tail
           old == content[it].key
           shorter == removeTail(list)
<1>1. /\ it \in Live /\ old \in Present /\ index[old] = it
      /\ k \notin Present /\ Live \in SUBSET Item /\ Present \in SUBSET Key
  BY Victim, IndexInjective DEF Evict, Full
<1>2. list \in ListType /\ stamp \in [Item -> Nat] /\ clock \in Nat /\ Chain(list, Live, stamp, clock)
  BY DEF CacheInv, CacheTypeOK, ListType, WellFormed
<1>3. /\ ~removeTailPanics(list)
      /\ shorter \in ListType
      /\ Chain(shorter, Live \ {it}, stamp, clock)
  BY <1>1, <1>2, RemoveTailChain
<1>4. /\ ~addHeadPanics(shorter)
      /\ addHead(shorter, it) \in ListType
      /\ Chain(addHead(shorter, it), (Live \ {it}) \cup {it},
               [stamp EXCEPT ![it] = clock + 1], clock + 1)
  BY <1>1, <1>2, <1>3, AddHeadChain
<1>5. /\ index' = [index EXCEPT ![old] = Nil, ![k] = it]
      /\ content' = [content EXCEPT ![it] = [key |-> k, value |-> v]]
      /\ list' = addHead(shorter, it)
      /\ stamp' = [stamp EXCEPT ![it] = clock + 1]
      /\ clock' = clock + 1
      /\ UNCHANGED panicked
  BY <1>3, <1>4 DEF Evict, Promoted
<1>6. \A j \in Key : index'[j] = IF j = k THEN it ELSE IF j = old THEN Nil ELSE index[j]
  BY <1>1, <1>5 DEF CacheInv, CacheTypeOK, Present
<1>7. Present' = (Present \ {old}) \cup {k}
  BY <1>1, <1>6, NilAssumption DEF Present
<1>8. Live' = (Live \ {it}) \cup {it}
  <2>1. \A j \in Present' : index'[j] \in Live
    BY <1>1, <1>6, <1>7 DEF Live
  <2>2. \A i \in Live : i # it => \E j \in Present' : index'[j] = i
    BY <1>1, <1>6, <1>7 DEF Live
  <2>3. k \in Present' /\ index'[k] = it
    BY <1>6, <1>7
  <2> QED
    BY <1>1, <2>1, <2>2, <2>3 DEF Live
<1>9. CacheTypeOK'
  BY <1>1, <1>2, <1>4, <1>5, <1>6 DEF CacheInv, CacheTypeOK, ListType, Pointer
<1>10. IndexMatches'
  BY <1>1, <1>5, <1>6, <1>7, IndexInjective
     DEF CacheInv, CacheTypeOK, WellFormed, IndexMatches
<1>11. Chain(list, Live, stamp, clock)'
  BY <1>4, <1>5, <1>8
<1>12. Bounded'
  <2>1. IsFiniteSet(Present) /\ Cardinality(Present) = Size
    BY DEF Evict, Full, CacheInv, Bounded
  <2>2. IsFiniteSet(Present \ {old}) /\ Cardinality(Present \ {old}) = Size - 1
    BY <2>1, <1>1, FS_RemoveElement
  <2>3. IsFiniteSet(Present') /\ Cardinality(Present') = Size - 1 + 1
    BY <2>2, <1>1, <1>7, FS_AddElement
  <2> QED
    BY <2>3, SizeAssumption DEF Bounded
<1> QED
  BY <1>5, <1>9, <1>10, <1>11, <1>12 DEF CacheInv, WellFormed, NoPanic

(* Storing under a new key with room left.                                 *)
LEMMA InsertStep ==
  ASSUME CacheInv, NEW k \in Key, NEW v \in Value, NEW used, Insert(k, v, used)
  PROVE  /\ CacheInv'
         /\ Cardinality(Present) < Size
         /\ \E it \in Item \ Live :
              /\ index' = [index EXCEPT ![k] = it]
              /\ content' = [content EXCEPT ![it] = [key |-> k, value |-> v]]
              /\ stamp' = [stamp EXCEPT ![it] = clock + 1]
              /\ clock' = clock + 1
<1>1. k \notin Present /\ Live \in SUBSET Item /\ Present \in SUBSET Key
  BY IndexInjective DEF Insert
<1>2. list \in ListType /\ stamp \in [Item -> Nat] /\ clock \in Nat /\ Chain(list, Live, stamp, clock)
  BY DEF CacheInv, CacheTypeOK, ListType, WellFormed
<1>3. PICK it \in Item \ Live :
        IF addHeadPanics(list) THEN Panic
        ELSE /\ index' = [index EXCEPT ![k] = it]
             /\ content' = [content EXCEPT ![it] = [key |-> k, value |-> v]]
             /\ list' = addHead(list, it)
             /\ Promoted(it)
             /\ UNCHANGED panicked
  BY DEF Insert
<1>4. /\ ~addHeadPanics(list)
      /\ addHead(list, it) \in ListType
      /\ Chain(addHead(list, it), Live \cup {it}, [stamp EXCEPT ![it] = clock + 1], clock + 1)
  BY <1>1, <1>2, AddHeadChain
<1>5. /\ index' = [index EXCEPT ![k] = it]
      /\ content' = [content EXCEPT ![it] = [key |-> k, value |-> v]]
      /\ list' = addHead(list, it)
      /\ stamp' = [stamp EXCEPT ![it] = clock + 1]
      /\ clock' = clock + 1
      /\ UNCHANGED panicked
  BY <1>3, <1>4 DEF Promoted
<1>6. \A j \in Key : index'[j] = IF j = k THEN it ELSE index[j]
  BY <1>5 DEF CacheInv, CacheTypeOK
<1>7. Present' = Present \cup {k}
  BY <1>1, <1>6, NilAssumption DEF Present
<1>8. Live' = Live \cup {it}
  <2>1. \A j \in Present' : index'[j] \in Live \cup {it}
    BY <1>1, <1>6, <1>7 DEF Live
  <2>2. \A i \in Live : \E j \in Present' : index'[j] = i
    BY <1>1, <1>6, <1>7 DEF Live
  <2>3. k \in Present' /\ index'[k] = it
    BY <1>6, <1>7
  <2> QED
    BY <2>1, <2>2, <2>3 DEF Live
<1>9. CacheTypeOK'
  BY <1>1, <1>2, <1>4, <1>5, <1>6 DEF CacheInv, CacheTypeOK, ListType, Pointer
<1>10. IndexMatches'
  BY <1>1, <1>5, <1>6, <1>7, IndexInjective
     DEF CacheInv, CacheTypeOK, WellFormed, IndexMatches, Live
<1>11. Chain(list, Live, stamp, clock)'
  BY <1>4, <1>5, <1>8
<1>12. Cardinality(Present) < Size /\ Bounded'
  <2>1. IsFiniteSet(Present) /\ Cardinality(Present) <= Size /\ Cardinality(Present) # Size
    BY DEF Insert, Full, CacheInv, Bounded
  <2>2. Cardinality(Present) \in Nat
    BY <2>1, FS_CardinalityType
  <2>3. IsFiniteSet(Present') /\ Cardinality(Present') = Cardinality(Present) + 1
    BY <2>1, <1>1, <1>7, FS_AddElement
  <2> QED
    BY <2>1, <2>2, <2>3, SizeAssumption DEF Bounded
<1> QED
  BY <1>5, <1>9, <1>10, <1>11, <1>12 DEF CacheInv, WellFormed, NoPanic

(* A lookup that hits.                                                     *)
LEMMA PromoteStep ==
  ASSUME CacheInv, NEW k \in Present, findItem(k)
  PROVE  /\ CacheInv'
         /\ stamp' = [stamp EXCEPT ![index[k]] = clock + 1]
         /\ clock' = clock + 1
         /\ UNCHANGED <<index, content>>
<1> DEFINE it == index[k]
<1>1. Live \in SUBSET Item /\ it \in Live
  BY IndexInjective DEF Live
<1>2. list \in ListType /\ stamp \in [Item -> Nat] /\ clock \in Nat /\ Chain(list, Live, stamp, clock)
  BY DEF CacheInv, CacheTypeOK, ListType, WellFormed
<1>3. /\ ~moveToHeadPanics(list, it)
      /\ moveToHead(list, it) \in ListType
      /\ Chain(moveToHead(list, it), Live, [stamp EXCEPT ![it] = clock + 1], clock + 1)
  BY <1>1, <1>2, MoveToHeadChain
<1>4. /\ list' = moveToHead(list, it)
      /\ stamp' = [stamp EXCEPT ![it] = clock + 1]
      /\ clock' = clock + 1
      /\ UNCHANGED <<index, content, panicked>>
  BY <1>3 DEF findItem, Promoted
<1>5. Present' = Present /\ Live' = Live
  BY <1>4 DEF Present, Live
<1>6. CacheTypeOK'
  BY <1>1, <1>2, <1>3, <1>4 DEF CacheInv, CacheTypeOK, ListType
<1>7. IndexMatches'
  BY <1>4, <1>5 DEF CacheInv, WellFormed, IndexMatches
<1>8. Chain(list, Live, stamp, clock)'
  BY <1>3, <1>4, <1>5
<1> QED
  BY <1>4, <1>5, <1>6, <1>7, <1>8 DEF CacheInv, WellFormed, NoPanic, Bounded

(* A call that finds nothing to do, and stuttering.                        *)
LEMMA UnchangedInv ==
  ASSUME CacheInv, UNCHANGED <<index, content, list, panicked, stamp, clock>>
  PROVE  CacheInv'
<1>1. Present' = Present
  BY DEF Present
<1>2. Live' = Live
  BY <1>1 DEF Live
<1>3. CacheTypeOK' /\ IndexMatches' /\ NoPanic' /\ Bounded'
  BY <1>1 DEF CacheInv, CacheTypeOK, WellFormed, IndexMatches, NoPanic, Bounded
<1>4. Chain(list, Live, stamp, clock)'
  BY <1>2 DEF CacheInv, WellFormed
<1> QED
  BY <1>3, <1>4 DEF CacheInv, WellFormed

LEMMA RemoveInv ==
  ASSUME CacheInv, NEW k \in Key, Remove(k)
  PROVE  CacheInv'
<1> USE DEF cache, history
<1>1. CASE k \notin Present
  <2>1. UNCHANGED <<index, content, list, panicked, stamp, clock>>
    BY <1>1 DEF Remove
  <2> QED
    BY <2>1, UnchangedInv
<1>2. CASE k \in Present
  <2> DEFINE it == index[k]
  <2>1. Live \in SUBSET Item /\ Present \in SUBSET Key /\ it \in Live
    BY <1>2, IndexInjective DEF Live
  <2>2. list \in ListType /\ stamp \in [Item -> Nat] /\ clock \in Nat /\ Chain(list, Live, stamp, clock)
    BY DEF CacheInv, CacheTypeOK, ListType, WellFormed
  <2>3. remove(list, it) \in ListType /\ Chain(remove(list, it), Live \ {it}, stamp, clock)
    BY <2>1, <2>2, RemoveChain
  <2>4. /\ list' = remove(list, it)
        /\ index' = [index EXCEPT ![k] = Nil]
        /\ UNCHANGED <<content, panicked, stamp, clock>>
    BY <1>2 DEF Remove
  <2>5. \A j \in Key : index'[j] = IF j = k THEN Nil ELSE index[j]
    BY <2>4 DEF CacheInv, CacheTypeOK
  <2>6. Present' = Present \ {k}
    BY <2>1, <2>5 DEF Present
  <2>7. Live' = Live \ {it}
    <3>1. \A j \in Present' : index'[j] \in Live \ {it}
      BY <1>2, <2>1, <2>5, <2>6, IndexInjective DEF Live
    <3>2. \A i \in Live \ {it} : \E j \in Present' : index'[j] = i
      BY <2>1, <2>5, <2>6 DEF Live
    <3> QED
      BY <3>1, <3>2 DEF Live
  <2>8. CacheTypeOK'
    BY <2>2, <2>3, <2>4, <2>5 DEF CacheInv, CacheTypeOK, ListType, Pointer
  <2>9. IndexMatches'
    BY <2>1, <2>4, <2>5, <2>6 DEF CacheInv, WellFormed, IndexMatches
  <2>10. Chain(list, Live, stamp, clock)'
    BY <2>3, <2>4, <2>7
  <2>11. Bounded'
    BY <2>6, FS_Subset, FS_CardinalityType, SizeAssumption DEF CacheInv, Bounded
  <2> QED
    BY <2>4, <2>8, <2>9, <2>10, <2>11 DEF CacheInv, WellFormed, NoPanic
<1> QED
  BY <1>1, <1>2

LEMMA SetItemInv ==
  ASSUME CacheInv, NEW k \in Key, NEW v \in Value, NEW used, setItem(k, v, used)
  PROVE  CacheInv'
BY UpdateInv, EvictStep, InsertStep DEF setItem

LEMMA FindItemInv ==
  ASSUME CacheInv, NEW k \in Key, findItem(k)
  PROVE  CacheInv'
<1>1. CASE k \in Present
  BY <1>1, PromoteStep
<1>2. CASE k \notin Present
  BY <1>2, UnchangedInv DEF findItem, cache, history
<1> QED
  BY <1>1, <1>2

LEMMA NextInv == CacheInv /\ [Next]_vars => CacheInv'
BY SetItemInv, FindItemInv, RemoveInv, UnchangedInv DEF Next, Set, Find, vars

(* In every reachable state of a cache of any positive size over any keys, *)
(* the list is well formed, the size respected and nothing has panicked.   *)
THEOREM CacheInvariant == Spec => []CacheInv
BY InitInv, NextInv, PTL DEF Spec

(* No sequence of Set, Get, Find and Remove calls dereferences a nil       *)
(* pointer in the list code.                                               *)
THEOREM NeverPanics == Spec => []NoPanic
BY CacheInvariant, PTL DEF CacheInv

(* The chain of the list is exactly the index, in order of last use.       *)
THEOREM AlwaysWellFormed == Spec => []WellFormed
BY CacheInvariant, PTL DEF CacheInv

(* The cache never outgrows its size.                                      *)
THEOREM AlwaysBounded == Spec => []Bounded
BY CacheInvariant, PTL DEF CacheInv

(* Every variable keeps its type, a call's result included.                *)
THEOREM TypeCorrect == Spec => []TypeOK
<1>1. Init => TypeOK
  BY InitInv DEF CacheInv, TypeOK, Init, NoCall
<1>2. CacheInv /\ TypeOK /\ [Next]_vars => TypeOK'
  <2> SUFFICES ASSUME CacheInv, TypeOK, [Next]_vars PROVE TypeOK'
    OBVIOUS
  <2>1. CacheTypeOK'
    BY NextInv DEF CacheInv
  <2>2. \A k \in Present : content[index[k]].value \in Value \cup {Zero}
    BY DEF CacheInv, CacheTypeOK, Present, Pointer
  <2>3. CASE UNCHANGED vars
    BY <2>1, <2>3 DEF vars, TypeOK
  <2>4. ASSUME NEW k \in Key, NEW v \in Value, Set(k, v) PROVE TypeOK'
    BY <2>1, <2>4 DEF Set, Return, TypeOK
  <2>5. ASSUME NEW k \in Key, Find(k) PROVE TypeOK'
    BY <2>1, <2>5 DEF Find, findItemOk, Return, TypeOK
  <2>6. ASSUME NEW k \in Key, Remove(k) PROVE TypeOK'
    BY <2>1, <2>2, <2>6 DEF Remove, Return, TypeOK
  <2> QED
    BY <2>3, <2>4, <2>5, <2>6 DEF Next
<1> QED
  BY <1>1, <1>2, CacheInvariant, PTL DEF Spec

-----------------------------------------------------------------------------
(* The keys the abstract cache holds are those the index holds.            *)
LEMMA CachedIsPresent == CacheInv => Abs!Cached = Present
BY NilAssumption DEF CacheInv, CacheTypeOK, Pointer, Abs!Cached, absStored, Present

(* What the refinement mapping shows of the other keys after item `it`     *)
(* became the item of key k: items are not shared, so nothing new.         *)
LEMMA MappedStep ==
  ASSUME CacheInv, CacheInv', NEW k \in Key, NEW it \in Item, index'[k] = it,
         \A i \in Item : i # it => content'[i] = content[i] /\ stamp'[i] = stamp[i]
  PROVE  \A j \in Key : j # k =>
           /\ index'[j] = index[j] =>
                absStored'[j] = absStored[j] /\ absUsed'[j] = absUsed[j]
           /\ index'[j] = Nil => absStored'[j] = Nil /\ absUsed'[j] = 0
<1> TAKE j \in Key
<1> HAVE j # k
<1>1. CASE index'[j] = Nil
  BY <1>1 DEF absStored, absUsed
<1>2. CASE index'[j] # Nil
  <2>1. j \in Present' /\ k \in Present'
    BY <1>2, NilAssumption DEF Present
  <2>2. content'[index'[j]].key = j /\ content'[index'[k]].key = k
    BY <2>1 DEF CacheInv, WellFormed, IndexMatches
  <2>3. index'[j] \in Item /\ index'[j] # it
    BY <1>2, <2>2 DEF CacheInv, CacheTypeOK, Pointer
  <2> QED
    BY <1>2, <2>3 DEF absStored, absUsed
<1> QED
  BY <1>1, <1>2

(* Cardinality means the same in the instance.                             *)
LEMMA SameCardinality == \A S : Abs!Cardinality(S) = Cardinality(S)
BY DEF Abs!Cardinality, Cardinality

(* The mapped variables are functions on the keys, before and after.       *)
LEMMA MappedFunctions ==
  /\ absStored = [j \in Key |-> absStored[j]] /\ absStored' = [j \in Key |-> absStored'[j]]
  /\ absUsed = [j \in Key |-> absUsed[j]] /\ absUsed' = [j \in Key |-> absUsed'[j]]
BY DEF absStored, absUsed

LEMMA AbsInit == Init => Abs!Init
BY DEF Init, Abs!Init, absStored, absUsed

LEMMA AbsTouch ==
  ASSUME CacheInv, NEW k \in Present, findItem(k)
  PROVE  Abs!Touch(k)
<1> DEFINE it == index[k]
<1>1. /\ CacheInv'
      /\ stamp' = [stamp EXCEPT ![it] = clock + 1]
      /\ clock' = clock + 1
      /\ UNCHANGED <<index, content>>
  BY PromoteStep
<1>2. k \in Key /\ it \in Item
  BY IndexInjective DEF Live
<1>3. stamp \in [Item -> Nat]
  BY DEF CacheInv, CacheTypeOK
<1>4. absStored' = absStored
  BY <1>1 DEF absStored
<1>5. \A j \in Key : j # k => absUsed'[j] = absUsed[j]
  BY <1>1, <1>2, <1>3, MappedStep
<1>6. absUsed'[k] = clock + 1
  BY <1>1, <1>2, <1>3, NilAssumption DEF absUsed
<1>7. absUsed' = [absUsed EXCEPT ![k] = clock + 1]
  BY <1>5, <1>6, MappedFunctions
<1> QED
  BY <1>1, <1>4, <1>7, CachedIsPresent DEF Abs!Touch, Abs!Stamp

LEMMA AbsOverwrite ==
  ASSUME CacheInv, NEW k \in Key, NEW v \in Value, Update(k, v)
  PROVE  Abs!Overwrite(k, v)
<1> DEFINE it == index[k]
<1>1. k \in Present /\ it \in Item /\ CacheInv'
  BY IndexInjective, UpdateInv DEF Update, Live
<1>2. list \in ListType /\ stamp \in [Item -> Nat] /\ clock \in Nat /\ Chain(list, Live, stamp, clock)
  BY DEF CacheInv, CacheTypeOK, ListType, WellFormed
<1>3. ~moveToHeadPanics(list, it)
  BY <1>1, <1>2, MoveToHeadChain, IndexInjective DEF Live
<1>4. /\ index' = index
      /\ content' = [content EXCEPT ![it].value = v]
      /\ stamp' = [stamp EXCEPT ![it] = clock + 1]
      /\ clock' = clock + 1
  BY <1>3 DEF Update, Promoted
<1>5. /\ content'[it].value = v
      /\ stamp'[it] = clock + 1
      /\ \A i \in Item : i # it => content'[i] = content[i] /\ stamp'[i] = stamp[i]
      /\ index'[k] = it
  BY <1>1, <1>2, <1>4 DEF CacheInv, CacheTypeOK
<1>6. \A j \in Key : j # k => absStored'[j] = absStored[j] /\ absUsed'[j] = absUsed[j]
  BY <1>1, <1>4, <1>5, MappedStep
<1>7. absStored'[k] = v /\ absUsed'[k] = clock + 1
  BY <1>1, <1>5, NilAssumption DEF absStored, absUsed
<1>8. absStored' = [absStored EXCEPT ![k] = v] /\ absUsed' = [absUsed EXCEPT ![k] = clock + 1]
  BY <1>6, <1>7, MappedFunctions
<1> QED
  BY <1>1, <1>4, <1>8, CachedIsPresent DEF Abs!Overwrite, Abs!Stamp

LEMMA AbsReplace ==
  ASSUME CacheInv, NEW k \in Key, NEW v \in Value, Evict(k, v)
  PROVE  \E old \in Key : Abs!Replace(old, k, v)
<1> DEFINE it == list.tail
           old == content[it].key
<1>1. /\ it \in Live /\ old \in Present /\ index[old] = it /\ k \notin Present
      /\ \A j \in Present : stamp[it] <= stamp[index[j]]
      /\ Cardinality(Present) = Size
  BY Victim DEF Evict, Full
<1>2. it \in Item /\ old \in Key /\ k # old
  BY <1>1, IndexInjective
<1>3. /\ CacheInv'
      /\ index' = [index EXCEPT ![old] = Nil, ![k] = it]
      /\ content' = [content EXCEPT ![it] = [key |-> k, value |-> v]]
      /\ stamp' = [stamp EXCEPT ![it] = clock + 1]
      /\ clock' = clock + 1
  BY EvictStep
<1>4. /\ content'[it].value = v
      /\ stamp'[it] = clock + 1
      /\ \A i \in Item : i # it => content'[i] = content[i] /\ stamp'[i] = stamp[i]
      /\ \A j \in Key : index'[j] = IF j = k THEN it ELSE IF j = old THEN Nil ELSE index[j]
  BY <1>2, <1>3 DEF CacheInv, CacheTypeOK
<1>5. index'[k] = it /\ index'[old] = Nil
  BY <1>2, <1>4
<1>6. /\ \A j \in Key : j # k /\ j # old => absStored'[j] = absStored[j] /\ absUsed'[j] = absUsed[j]
      /\ absStored'[old] = Nil /\ absUsed'[old] = 0
  BY <1>2, <1>3, <1>4, <1>5, MappedStep
<1>7. absStored'[k] = v /\ absUsed'[k] = clock + 1
  BY <1>2, <1>4, <1>5, NilAssumption DEF absStored, absUsed
<1>8. absStored' = [absStored EXCEPT ![old] = Nil, ![k] = v]
  BY <1>2, <1>6, <1>7, MappedFunctions
<1>9. absUsed' = [[absUsed EXCEPT ![old] = 0] EXCEPT ![k] = clock + 1]
  BY <1>2, <1>6, <1>7, MappedFunctions
<1>10. Abs!Oldest(old)
  BY <1>1, <1>2, CachedIsPresent DEF Abs!Oldest, absUsed, Present
<1>11. Abs!Replace(old, k, v)
  BY <1>1, <1>2, <1>3, <1>8, <1>9, <1>10, CachedIsPresent, SameCardinality DEF Abs!Replace, Abs!Stamp
<1> QED
  BY <1>2, <1>11

LEMMA AbsAdd ==
  ASSUME CacheInv, NEW k \in Key, NEW v \in Value, NEW used, Insert(k, v, used)
  PROVE  Abs!Add(k, v)
<1>1. CacheInv' /\ Cardinality(Present) < Size /\ k \notin Present
  BY InsertStep DEF Insert
<1>2. PICK it \in Item \ Live :
        /\ index' = [index EXCEPT ![k] = it]
        /\ content' = [content EXCEPT ![it] = [key |-> k, value |-> v]]
        /\ stamp' = [stamp EXCEPT ![it] = clock + 1]
        /\ clock' = clock + 1
  BY InsertStep
<1>3. /\ content'[it].value = v
      /\ stamp'[it] = clock + 1
      /\ \A i \in Item : i # it => content'[i] = content[i] /\ stamp'[i] = stamp[i]
      /\ \A j \in Key : index'[j] = IF j = k THEN it ELSE index[j]
  BY <1>2 DEF CacheInv, CacheTypeOK
<1>4. \A j \in Key : j # k => absStored'[j] = absStored[j] /\ absUsed'[j] = absUsed[j]
  <2> index'[k] = it
    BY <1>3
  <2> QED
    BY <1>1, <1>3, MappedStep
<1>5. absStored'[k] = v /\ absUsed'[k] = clock + 1
  BY <1>3, NilAssumption DEF absStored, absUsed
<1>6. absStored' = [absStored EXCEPT ![k] = v] /\ absUsed' = [absUsed EXCEPT ![k] = clock + 1]
  BY <1>4, <1>5, MappedFunctions
<1> QED
  BY <1>1, <1>2, <1>6, CachedIsPresent, SameCardinality DEF Abs!Add, Abs!Stamp

LEMMA AbsRemove ==
  ASSUME CacheInv, NEW k \in Key, Remove(k)
  PROVE  Abs!Drop(k) \/ UNCHANGED Abs!vars
<1>1. CASE k \in Present
  <2>1. /\ index' = [index EXCEPT ![k] = Nil]
        /\ UNCHANGED <<content, stamp, clock>>
    BY <1>1 DEF Remove, history
  <2>2. absStored' = [absStored EXCEPT ![k] = Nil] /\ absUsed' = [absUsed EXCEPT ![k] = 0]
    BY <2>1 DEF CacheInv, CacheTypeOK, absStored, absUsed
  <2> QED
    BY <1>1, <2>1, <2>2, CachedIsPresent DEF Abs!Drop
<1>2. CASE k \notin Present
  BY <1>2 DEF Remove, cache, history, Abs!vars, absStored, absUsed
<1> QED
  BY <1>1, <1>2

(* The doubly linked cache implements the abstract LRU cache: each call is *)
(* a step of it or changes nothing, so only a least recently used key is   *)
(* ever thrown out, and only when a new key needs its place.               *)
THEOREM Implements == Spec => ImplementsLRU
<1>1. CacheInv /\ [Next]_vars => [Abs!Next]_(Abs!vars)
  <2> SUFFICES ASSUME CacheInv, [Next]_vars PROVE [Abs!Next]_(Abs!vars)
    OBVIOUS
  <2>1. CASE UNCHANGED vars
    BY <2>1 DEF vars, Abs!vars, absStored, absUsed
  <2>2. ASSUME NEW k \in Key, NEW v \in Value, Set(k, v) PROVE Abs!Next
    BY <2>2, AbsOverwrite, AbsReplace, AbsAdd DEF Set, setItem, Abs!Next
  <2>3. ASSUME NEW k \in Key, Find(k) PROVE Abs!Next \/ UNCHANGED Abs!vars
    <3>1. CASE k \in Present
      BY <2>3, <3>1, AbsTouch DEF Find, Abs!Next
    <3>2. CASE k \notin Present
      BY <2>3, <3>2 DEF Find, findItem, cache, history, Abs!vars, absStored, absUsed
    <3> QED
      BY <3>1, <3>2
  <2>4. ASSUME NEW k \in Key, Remove(k) PROVE Abs!Next \/ UNCHANGED Abs!vars
    BY <2>4, AbsRemove DEF Abs!Next
  <2> QED
    BY <2>1, <2>2, <2>3, <2>4 DEF Next
<1> QED
  BY <1>1, AbsInit, CacheInvariant, PTL DEF Spec, ImplementsLRU, Abs!Spec

-----------------------------------------------------------------------------
(***************************************************************************)
(* Lockable.  What a goroutine that is after a key may rely on.            *)
(***************************************************************************)
UserType == [at : {"away", "entered", "waits", "holds"}, key : Key \cup {Nil},
             item : Item \cup {Nil}, box : Box \cup {Nil}]

(* Where it is, what it has found there, and what its key leads to now.    *)
(* A key that left the cache may be back only if somebody else is after it.*)
UserInv(g) ==
  user[g] # Away =>
    /\ user[g].at \in {"entered", "waits", "holds"} /\ user[g].key \in Key /\ user[g].item \in Item
    /\ content[user[g].item].value \in boxes
    /\ user[g].at # "entered" => user[g].box \in boxes
    /\ user[g].key \notin lost => user[g].key \in Present /\ index[user[g].key] = user[g].item
    /\ user[g].at # "entered" /\ user[g].key \notin lost => madeFor[user[g].box] = user[g].key
    /\ user[g].key \in Present \ crowded =>
         /\ index[user[g].key] = user[g].item
         /\ user[g].at # "entered" => user[g].box = content[user[g].item].value
         /\ user[g].at = "holds" => user[g].box \in locked
    /\ user[g].at = "holds" => user[g].box \in strays \/ madeFor[user[g].box] = user[g].key

LockTypeOK ==
  /\ boxes \subseteq Box /\ locked \subseteq boxes /\ strays \subseteq boxes
  /\ madeFor \in [Box -> Key \cup {Nil}]
  /\ user \in [Locker -> UserType]

(* A key's box was made for it. *)
BoxesFiled == \A k \in Present : content[index[k]].value \in boxes /\ madeFor[content[index[k]].value] = k

(* Two that are after one key are known to be.                             *)
CrowdsKnown == \A g, h \in Locker : g # h /\ user[g] # Away /\ user[h] # Away /\ user[g].key = user[h].key
                                      => user[g].key \in crowded

LocksHeld == \A b \in locked : \/ \E g \in Locker : user[g].at = "holds" /\ user[g].box = b
                               \/ b \in abandoned \cup strays
                               \/ madeFor[b] \in crowded \cup lost
StraysExplained == \A b \in strays : lost \ {madeFor[b]} # {}

LockInv ==
  /\ CacheInv /\ LockTypeOK /\ BoxesFiled /\ CrowdsKnown /\ LocksHeld /\ StraysExplained
  /\ fatal => crowded # {}
  /\ \A g \in Locker : UserInv(g)

LEMMA LockInitInv == LockInit => LockInv
<1> SUFFICES ASSUME LockInit PROVE LockInv
  OBVIOUS
<1>1. CacheInv
  BY InitInv DEF LockInit
<1>2. LockTypeOK
  BY DEF LockInit, LockTypeOK, UserType, Away
<1>3. BoxesFiled /\ CrowdsKnown /\ LocksHeld /\ StraysExplained /\ \A g \in Locker : UserInv(g)
  BY DEF LockInit, Init, Present, BoxesFiled, CrowdsKnown, LocksHeld, StraysExplained, UserInv
<1> QED
  BY <1>1, <1>2, <1>3 DEF LockInit, LockInv

(* Where setItem puts a value, whichever of its ways it takes.             *)
LEMMA SetItemIs ==
  ASSUME CacheInv, NEW k \in Key, NEW v \in Value, NEW used, setItem(k, v, used)
  PROVE  \E it \in Item :
           /\ index'[k] = it /\ (k \in Present => index[k] = it)
           /\ content'[it].value = v
           /\ \A i \in Item \ {it} : content'[i] = content[i]
           /\ \A j \in Key \ {k} : index'[j] = Nil \/ (index'[j] = index[j] /\ index[j] # it)
<1> USE DEF CacheTypeOK, Pointer
<1>1. CASE Update(k, v)
  <2>1. index[k] \in Item /\ k \in Present /\ \A j \in Present : index[j] = index[k] => j = k
    BY <1>1, IndexInjective DEF Update, Live, Present
  <2>2. ~moveToHeadPanics(list, index[k])
    <3>1. list \in ListType /\ stamp \in [Item -> Nat] /\ clock \in Nat /\ Chain(list, Live, stamp, clock)
      BY DEF CacheInv, CacheTypeOK, ListType, WellFormed
    <3> QED
      BY <2>1, <3>1, IndexInjective, MoveToHeadChain DEF Live
  <2>3. index' = index /\ content' = [content EXCEPT ![index[k]].value = v]
    BY <1>1, <2>2 DEF Update
  <2>4. \A j \in Key \ {k} : index[j] = Nil \/ index[j] # index[k]
    BY <2>1 DEF Present
  <2> QED
    BY <2>1, <2>3, <2>4 DEF CacheInv
<1>2. CASE Evict(k, v)
  <2> DEFINE it == list.tail
             old == content[it].key
  <2>1. it \in Item /\ old \in Present /\ index[old] = it /\ k \notin Present
        /\ \A j \in Present : index[j] = it => j = old
    BY <1>2, Victim, IndexInjective DEF Evict, Full
  <2>2. index' = [index EXCEPT ![old] = Nil, ![k] = it] /\ content' = [content EXCEPT ![it] = [key |-> k, value |-> v]]
    BY <1>2, EvictStep
  <2>3. \A j \in Key \ {k} : index'[j] = IF j = old THEN Nil ELSE index[j]
    BY <2>1, <2>2 DEF CacheInv
  <2>4. index'[k] = it
    BY <2>2 DEF CacheInv
  <2>5. \A j \in Key \ {k} : index'[j] = Nil \/ (index'[j] = index[j] /\ index[j] # it)
    BY <2>1, <2>3 DEF Present
  <2> QED
    BY <2>1, <2>2, <2>4, <2>5 DEF CacheInv
<1>3. CASE Insert(k, v, used)
  <2>1. PICK it \in Item \ Live : /\ index' = [index EXCEPT ![k] = it]
                                  /\ content' = [content EXCEPT ![it] = [key |-> k, value |-> v]]
    BY <1>3, InsertStep
  <2>2. \A j \in Key \ {k} : index'[j] = index[j] /\ index[j] # it
    BY <2>1, NilAssumption DEF CacheInv, Live, Present
  <2> QED
    BY <1>3, <2>1, <2>2 DEF CacheInv, Insert
<1> QED
  BY <1>1, <1>2, <1>3 DEF setItem


(* A step that leaves a goroutine alone and adds to what is known.         *)
LEMMA UserKept ==
  ASSUME LockInv, NEW h \in Locker, user'[h] = user[h],
         boxes \subseteq boxes', crowded \subseteq crowded', strays \subseteq strays',
         \A b \in boxes : madeFor'[b] = madeFor[b],
         lost \subseteq lost',
         user[h] # Away =>
           /\ content'[user[h].item].value \in boxes'
           /\ user[h].key \in Present /\ user[h].key \notin lost' => index'[user[h].key] = index[user[h].key]
           /\ user[h].key \in Present' \ crowded' =>
                /\ user[h].key \in Present /\ index'[user[h].key] = index[user[h].key]
                /\ content'[user[h].item].value = content[user[h].item].value
                /\ user[h].box \in locked => user[h].box \in locked'
  PROVE  UserInv(h)'
<1>1. UserInv(h)
  BY DEF LockInv
<1> SUFFICES ASSUME user[h] # Away
             PROVE  UserInv(h)'
  BY DEF UserInv, Away
<1>2. PICK u : u = user[h]
  OBVIOUS
<1>3. /\ u.at \in {"entered", "waits", "holds"} /\ u.key \in Key /\ u.item \in Item
      /\ content'[u.item].value \in boxes'
      /\ u.at # "entered" => u.box \in boxes /\ u.box \in boxes' /\ madeFor'[u.box] = madeFor[u.box]
  BY <1>1, <1>2 DEF UserInv
<1>4. u.key \notin lost' => u.key \in Present' /\ index'[u.key] = u.item
  <2>1. u.key \notin lost' => u.key \in Present /\ index[u.key] = u.item /\ index'[u.key] = index[u.key]
    BY <1>1, <1>2 DEF UserInv
  <2> QED
    BY <1>3, <2>1 DEF Present
<1>5. u.at # "entered" /\ u.key \notin lost' => madeFor'[u.box] = u.key
  BY <1>1, <1>2, <1>3 DEF UserInv
<1>6. u.key \in Present' \ crowded' =>
        /\ index'[u.key] = u.item
        /\ u.at # "entered" => u.box = content'[u.item].value
        /\ u.at = "holds" => u.box \in locked'
  BY <1>1, <1>2 DEF UserInv
<1>7. u.at = "holds" => u.box \in strays' \/ madeFor'[u.box] = u.key
  BY <1>1, <1>2, <1>3 DEF UserInv
<1> QED
  BY <1>2, <1>3, <1>4, <1>5, <1>6, <1>7 DEF UserInv

LEMMA UserTypes ==
  ASSUME LockInv, NEW g \in Locker
  PROVE  /\ user[g] \in UserType /\ user \in [Locker -> UserType]
         /\ UserInv(g)
         /\ boxes \subseteq Box /\ locked \subseteq boxes /\ strays \subseteq boxes
         /\ madeFor \in [Box -> Key \cup {Nil}]
BY DEF LockInv, LockTypeOK

LEMMA LookupInv ==
  ASSUME LockInv, NEW g \in Locker, NEW k \in Key, user[g] = Away, LookupAndSet(g, k)
  PROVE  LockInv'
<1>1. PICK b \in Box \ boxes :
        /\ setItem(k, b, {user[h].item : h \in Locker})
        /\ boxes' = boxes \cup {b}
        /\ madeFor' = [madeFor EXCEPT ![b] = k]
  BY DEF LookupAndSet, findItemOk
<1>2. /\ user' = [user EXCEPT ![g] = [at |-> "entered", key |-> k, item |-> index'[k], box |-> Nil]]
      /\ crowded' = IF After(k) # {} THEN crowded \cup {k} ELSE crowded
      /\ lost' = lost \cup Dropped
      /\ UNCHANGED <<locked, lockLeaked, fatal, strays, abandoned>>
  BY DEF LookupAndSet
<1>3. CacheInv /\ b \in Value
  BY DEF LockInv, Box
<1>4. CacheInv'
  BY <1>1, <1>3, SetItemInv
<1>5. PICK it \in Item :
           /\ index'[k] = it /\ (k \in Present => index[k] = it)
           /\ content'[it].value = b
           /\ \A i \in Item \ {it} : content'[i] = content[i]
           /\ \A j \in Key \ {k} : index'[j] = Nil \/ (index'[j] = index[j] /\ index[j] # it)
  BY <1>1, <1>3, SetItemIs
<1>6. /\ user \in [Locker -> UserType] /\ boxes \subseteq Box /\ locked \subseteq boxes /\ strays \subseteq boxes
      /\ madeFor \in [Box -> Key \cup {Nil}]
  BY UserTypes
<1>7. PICK u : u = [at |-> "entered", key |-> k, item |-> it, box |-> Nil]
  OBVIOUS
<1>8. u \in UserType /\ user' = [user EXCEPT ![g] = u] /\ u.at = "entered" /\ u.key = k /\ u.item = it
  BY <1>2, <1>5, <1>7 DEF UserType
<1>9. LockTypeOK'
  <2>1. madeFor' \in [Box -> Key \cup {Nil}] /\ user' \in [Locker -> UserType]
    BY <1>1, <1>6, <1>8
  <2> QED
    BY <1>1, <1>2, <1>6, <2>1 DEF LockTypeOK, Box, UserType
<1>10. \A c \in boxes : madeFor'[c] = madeFor[c]
  BY <1>1, <1>6
<1>11. madeFor'[b] = k /\ b \in boxes'
  BY <1>1, <1>6
<1>12. \A j \in Present' \ {k} : j \in Present /\ index'[j] = index[j] /\ index[j] \in Item /\ index[j] # it
                                 /\ content'[index'[j]] = content[index[j]]
  BY <1>3, <1>5 DEF Present, CacheInv, CacheTypeOK, Pointer
<1>13. BoxesFiled'
  <2> SUFFICES ASSUME NEW j \in Present'
               PROVE  content'[index'[j]].value \in boxes' /\ madeFor'[content'[index'[j]].value] = j
    BY DEF BoxesFiled
  <2>1. CASE j = k
    BY <1>5, <1>11, <2>1
  <2>2. CASE j # k
    <3>1. content'[index'[j]] = content[index[j]] /\ j \in Present
      BY <1>12, <2>2
    <3>2. content[index[j]].value \in boxes /\ madeFor[content[index[j]].value] = j
      BY <3>1 DEF LockInv, BoxesFiled
    <3> QED
      BY <1>1, <1>10, <3>1, <3>2
  <2> QED
    BY <2>1, <2>2
<1>14. \A h \in Locker \ {g} : user'[h] = user[h] /\ (user[h].key = k => k \in crowded')
  BY <1>2, <1>6, <1>8 DEF After
<1>15. user'[g] = u
  BY <1>6, <1>8
<1>16. crowded \subseteq crowded' /\ lost \subseteq lost'
  BY <1>2
<1>17. CrowdsKnown'
  <2>1. \A h, i \in Locker \ {g} : h # i /\ user[h] # Away /\ user[i] # Away /\ user[h].key = user[i].key
                                   => user[h].key \in crowded
    BY DEF LockInv, CrowdsKnown
  <2> QED
    BY <1>8, <1>14, <1>15, <1>16, <2>1 DEF CrowdsKnown, Away
<1>18. ASSUME NEW h \in Locker PROVE UserInv(h)'
  <2>1. CASE h = g
    <3>1. k \in Present'
      BY <1>5, NilAssumption DEF Present
    <3>2. content'[it].value \in boxes'
      BY <1>5, <1>11
    <3> QED
      BY <1>5, <1>8, <1>15, <2>1, <3>1, <3>2 DEF UserInv
  <2>2. CASE h # g /\ user[h] = Away
    BY <1>14, <2>2 DEF UserInv, Away
  <2>3. CASE h # g /\ user[h] # Away
    <3>1. UserInv(h) /\ user'[h] = user[h]
      BY <1>14, <2>3 DEF LockInv
    <3>2. user[h].item \in Item /\ user[h].key \in Key /\ content[user[h].item].value \in boxes
      BY <2>3, <3>1 DEF UserInv
    <3>3. content'[user[h].item].value \in boxes'
      BY <1>1, <1>5, <1>11, <3>2
    <3>4. user[h].key \in Present /\ user[h].key \notin lost' => index'[user[h].key] = index[user[h].key]
      <4>1. CASE user[h].key = k
        BY <1>5, <4>1
      <4>2. CASE user[h].key # k
        <5>1. user[h].key \in Present /\ index'[user[h].key] = Nil => user[h].key \in Dropped
          BY DEF Dropped, After
        <5> QED
          BY <1>2, <1>5, <3>2, <4>2, <5>1
      <4> QED
        BY <4>1, <4>2
    <3>5. user[h].key \in Present' \ crowded' =>
                /\ user[h].key \in Present /\ index'[user[h].key] = index[user[h].key]
                /\ content'[user[h].item].value = content[user[h].item].value
      <4> SUFFICES ASSUME user[h].key \in Present' \ crowded'
                   PROVE  /\ user[h].key \in Present /\ index'[user[h].key] = index[user[h].key]
                          /\ content'[user[h].item].value = content[user[h].item].value
        OBVIOUS
      <4>1. user[h].key # k
        BY <1>14, <2>3
      <4>2. /\ user[h].key \in Present /\ index'[user[h].key] = index[user[h].key]
            /\ index[user[h].key] # it
        BY <1>12, <4>1
      <4>3. index[user[h].key] = user[h].item
        BY <1>16, <2>3, <3>1, <4>2 DEF UserInv
      <4> QED
        BY <1>5, <3>2, <4>2, <4>3
    <3> QED
      BY <1>1, <1>2, <1>10, <1>16, <3>1, <3>3, <3>4, <3>5, UserKept
  <2> QED
    BY <2>1, <2>2, <2>3
<1>19. LocksHeld'
  <2> SUFFICES ASSUME NEW c \in locked
               PROVE  \/ \E h \in Locker : user'[h].at = "holds" /\ user'[h].box = c
                      \/ c \in abandoned \cup strays
                      \/ madeFor'[c] \in crowded' \cup lost'
    BY <1>2 DEF LocksHeld
  <2>1. CASE \E h \in Locker : user[h].at = "holds" /\ user[h].box = c
    <3>1. PICK h \in Locker : user[h].at = "holds" /\ user[h].box = c
      BY <2>1
    <3>2. h # g
      BY <3>1 DEF Away
    <3> QED
      BY <1>14, <3>1, <3>2
  <2>2. CASE c \in abandoned \cup strays \/ madeFor[c] \in crowded \cup lost
    BY <1>6, <1>10, <1>16, <2>2
  <2> QED
    BY <2>1, <2>2 DEF LockInv, LocksHeld
<1>20. StraysExplained'
  BY <1>2, <1>6, <1>10, <1>16 DEF LockInv, StraysExplained
<1>21. fatal' => crowded' # {}
  BY <1>2, <1>16 DEF LockInv
<1> QED
  BY <1>4, <1>9, <1>13, <1>17, <1>18, <1>19, <1>20, <1>21 DEF LockInv


(* Nothing but the order of the list changes in the cache.                 *)
LEMMA SameIndex ==
  ASSUME LockInv, index' = index, content' = content
  PROVE  Present' = Present /\ (boxes \subseteq boxes' /\ madeFor' = madeFor => BoxesFiled')
BY DEF LockInv, Present, BoxesFiled

LEMMA LockableRemoveInv ==
  ASSUME LockInv, NEW k \in Key, LockableRemove(k)
  PROVE  LockInv'
<1>1. /\ Remove(k) /\ lost' = lost \cup Dropped
      /\ UNCHANGED <<boxes, locked, lockLeaked, fatal, user, madeFor, crowded, strays, abandoned>>
  BY DEF LockableRemove, lockables
<1>2. CacheInv /\ CacheInv'
  BY <1>1, RemoveInv DEF LockInv
<1>3. content' = content /\ index' = [index EXCEPT ![k] = Nil]
  BY <1>1, <1>2 DEF Remove, CacheInv, CacheTypeOK, Present, cache
<1>4. \A j \in Key : index'[j] = IF j = k THEN Nil ELSE index[j]
  BY <1>2, <1>3 DEF CacheInv, CacheTypeOK
<1>5. Present' = Present \ {k}
  BY <1>4 DEF Present
<1>6. BoxesFiled'
  BY <1>1, <1>3, <1>4, <1>5 DEF LockInv, BoxesFiled, Present
<1>7. ASSUME NEW h \in Locker PROVE UserInv(h)'
  <2>1. CASE user[h] = Away
    BY <1>1, <2>1 DEF UserInv, Away
  <2>2. CASE user[h] # Away
    <3>1. user[h].key \in Key /\ content[user[h].item].value \in boxes
      BY <2>2 DEF LockInv, UserInv
    <3>2. user[h].key \in Present /\ user[h].key \notin lost' => index'[user[h].key] = index[user[h].key]
      <4>1. user[h].key \in Present /\ index'[user[h].key] = Nil => user[h].key \in Dropped
        BY DEF Dropped, After
      <4> QED
        BY <1>1, <1>4, <3>1, <4>1
    <3>3. user[h].key \in Present' => user[h].key \in Present /\ index'[user[h].key] = index[user[h].key]
      BY <1>4, <1>5, <3>1
    <3> QED
      BY <1>1, <1>3, <3>1, <3>2, <3>3, UserKept
  <2> QED
    BY <2>1, <2>2
<1>8. LockTypeOK' /\ CrowdsKnown' /\ LocksHeld' /\ StraysExplained' /\ (fatal' => crowded' # {})
  BY <1>1 DEF LockInv, LockTypeOK, CrowdsKnown, LocksHeld, StraysExplained, UserType, Box
<1> QED
  BY <1>2, <1>6, <1>7, <1>8 DEF LockInv

LEMMA ReadValueInv ==
  ASSUME LockInv, NEW g \in Locker, ReadValue(g)
  PROVE  LockInv'
<1>1. PICK b : b = content[user[g].item].value
  OBVIOUS
<1>2. PICK w : w = user[g]
  OBVIOUS
<1>3. PICK u : u = [w EXCEPT !.at = "waits", !.box = b]
  OBVIOUS
<1>4. /\ user' = [user EXCEPT ![g] = u] /\ w.at = "entered"
      /\ UNCHANGED <<index, content, list, panicked, stamp, clock>>
      /\ UNCHANGED <<boxes, locked, lockLeaked, fatal, madeFor, crowded, lost, strays, abandoned>>
  BY <1>1, <1>2, <1>3 DEF ReadValue, UnchangedCache, vars, why
<1>5. /\ user \in [Locker -> UserType] /\ boxes \subseteq Box /\ w \in UserType /\ UserInv(g) /\ w # Away
  BY <1>2, <1>4, UserTypes DEF Away
<1>6. b \in boxes
  BY <1>1, <1>2, <1>5 DEF UserInv
<1>7. u \in UserType /\ u.at = "waits" /\ u.box = b /\ u.key = w.key /\ u.item = w.item
  BY <1>3, <1>5, <1>6 DEF UserType
<1>8. CacheInv'
  BY <1>4, UnchangedInv DEF LockInv
<1>9. Present' = Present /\ BoxesFiled'
  BY <1>4, SameIndex
<1>10. LockTypeOK'
  BY <1>4, <1>5, <1>7 DEF LockInv, LockTypeOK, UserType, Box
<1>11. user'[g] = u /\ \A h \in Locker \ {g} : user'[h] = user[h]
  BY <1>4, <1>5
<1>12. UserInv(g)'
  <2>1. w.key \notin lost => w.key \in Present /\ index[w.key] = w.item /\ madeFor[b] = w.key
    BY <1>1, <1>2, <1>5 DEF UserInv, LockInv, BoxesFiled
  <2>2. w.key \in Present \ crowded => index[w.key] = w.item
    BY <1>2, <1>5 DEF UserInv
  <2>3. w.key \in Key /\ w.item \in Item /\ b = content[w.item].value
    BY <1>1, <1>2, <1>5 DEF UserInv
  <2> QED
    BY <1>4, <1>6, <1>7, <1>9, <1>11, <2>1, <2>2, <2>3 DEF UserInv
<1>13. ASSUME NEW h \in Locker \ {g} PROVE UserInv(h)'
  <2>1. user[h] # Away => content[user[h].item].value \in boxes
    BY DEF LockInv, UserInv
  <2> QED
    BY <1>4, <1>9, <1>11, <2>1, UserKept
<1>14. CrowdsKnown'
  BY <1>2, <1>4, <1>5, <1>7, <1>11 DEF LockInv, CrowdsKnown
<1>15. LocksHeld' /\ StraysExplained' /\ (fatal' => crowded' # {})
  <2>1. \A h \in Locker : user[h].at = "holds" => user'[h] = user[h]
    BY <1>2, <1>4, <1>11
  <2> QED
    BY <1>4, <2>1 DEF LockInv, LocksHeld, StraysExplained
<1> QED
  BY <1>8, <1>9, <1>10, <1>12, <1>13, <1>14, <1>15 DEF LockInv

LEMMA TakeLockInv ==
  ASSUME LockInv, NEW g \in Locker, TakeLock(g)
  PROVE  LockInv'
<1>1. PICK w : w = user[g]
  OBVIOUS
<1>2. PICK b : b = w.box
  OBVIOUS
<1>3. PICK u : u = [w EXCEPT !.at = "holds"]
  OBVIOUS
<1>4. /\ user' = [user EXCEPT ![g] = u] /\ w.at = "waits"
      /\ locked' = locked \cup {b} /\ strays' = IF madeFor[b] = w.key THEN strays ELSE strays \cup {b}
      /\ UNCHANGED <<index, content, list, panicked, stamp, clock>>
      /\ UNCHANGED <<boxes, lockLeaked, fatal, madeFor, crowded, lost, abandoned>>
  BY <1>1, <1>2, <1>3 DEF TakeLock, UnchangedCache, vars
<1>5. /\ user \in [Locker -> UserType] /\ boxes \subseteq Box /\ w \in UserType /\ UserInv(g) /\ w # Away
      /\ locked \subseteq boxes /\ strays \subseteq boxes
  BY <1>1, <1>4, UserTypes DEF Away
<1>6. b \in boxes
  BY <1>1, <1>2, <1>4, <1>5 DEF UserInv
<1>7. u \in UserType /\ u.at = "holds" /\ u.box = b /\ u.key = w.key /\ u.item = w.item
  BY <1>2, <1>3, <1>5 DEF UserType
<1>8. CacheInv'
  BY <1>4, UnchangedInv DEF LockInv
<1>9. Present' = Present /\ BoxesFiled'
  BY <1>4, SameIndex
<1>10. LockTypeOK'
  BY <1>4, <1>5, <1>6, <1>7 DEF LockInv, LockTypeOK, UserType, Box
<1>11. user'[g] = u /\ \A h \in Locker \ {g} : user'[h] = user[h]
  BY <1>4, <1>5
<1>12. UserInv(g)'
  <2>1. /\ w.key \notin lost => w.key \in Present /\ index[w.key] = w.item /\ madeFor[b] = w.key
        /\ w.key \in Present \ crowded => index[w.key] = w.item /\ b = content[w.item].value
        /\ w.key \in Key /\ w.item \in Item /\ content[w.item].value \in boxes
    BY <1>1, <1>2, <1>4, <1>5 DEF UserInv
  <2> QED
    BY <1>4, <1>6, <1>7, <1>9, <1>11, <2>1 DEF UserInv
<1>13. ASSUME NEW h \in Locker \ {g} PROVE UserInv(h)'
  <2>1. user[h] # Away => content[user[h].item].value \in boxes
    BY DEF LockInv, UserInv
  <2> QED
    BY <1>4, <1>9, <1>11, <2>1, UserKept
<1>14. CrowdsKnown'
  BY <1>1, <1>4, <1>5, <1>7, <1>11 DEF LockInv, CrowdsKnown
<1>15. LocksHeld'
  <2> SUFFICES ASSUME NEW c \in locked'
               PROVE  \/ \E h \in Locker : user'[h].at = "holds" /\ user'[h].box = c
                      \/ c \in abandoned \cup strays'
                      \/ madeFor[c] \in crowded \cup lost
    BY <1>4 DEF LocksHeld
  <2>1. CASE c = b
    BY <1>7, <1>11, <2>1
  <2>2. CASE c \in locked
    <3>1. CASE \E h \in Locker : user[h].at = "holds" /\ user[h].box = c
      <4>1. PICK h \in Locker : user[h].at = "holds" /\ user[h].box = c
        BY <3>1
      <4>2. user'[h] = user[h]
        BY <1>1, <1>4, <1>11, <4>1
      <4> QED
        BY <4>1, <4>2
    <3>2. CASE c \in abandoned \cup strays \/ madeFor[c] \in crowded \cup lost
      BY <1>4, <3>2
    <3> QED
      BY <2>2, <3>1, <3>2 DEF LockInv, LocksHeld
  <2> QED
    BY <1>4, <2>1, <2>2
<1>16. StraysExplained'
  <2>1. madeFor[b] # w.key => lost \ {madeFor[b]} # {}
    BY <1>1, <1>2, <1>4, <1>5 DEF UserInv
  <2> QED
    BY <1>4, <2>1 DEF LockInv, StraysExplained
<1>17. fatal' => crowded' # {}
  BY <1>4 DEF LockInv
<1> QED
  BY <1>8, <1>9, <1>10, <1>12, <1>13, <1>14, <1>15, <1>16, <1>17 DEF LockInv


(* A user leaves, and with it at most one mutex is given up.               *)
LEMMA LeaveInv ==
  ASSUME LockInv, NEW g \in Locker, user[g].at = "holds", user' = [user EXCEPT ![g] = Away],
         CacheInv', UNCHANGED <<index, content, boxes, madeFor, crowded, lost, strays>>,
         locked' \subseteq locked, abandoned \subseteq abandoned', fatal' => crowded # {},
         user[g].box \in locked' => \/ user[g].box \in abandoned' \cup strays
                                    \/ madeFor[user[g].box] \in crowded \cup lost,
         \A h \in Locker \ {g} : user[h].key \in Present \ crowded /\ user[h].at = "holds"
                                   => user[h].box \in locked'
  PROVE  LockInv'
<1>1. /\ user \in [Locker -> UserType] /\ boxes \subseteq Box
      /\ locked \subseteq boxes /\ strays \subseteq boxes
  BY UserTypes
<1>2. user'[g] = Away /\ \A h \in Locker \ {g} : user'[h] = user[h]
  BY <1>1
<1>3. Present' = Present /\ BoxesFiled'
  BY SameIndex
<1>4. LockTypeOK'
  <2>1. Away \in UserType
    BY DEF Away, UserType
  <2>2. user' \in [Locker -> UserType]
    BY <1>1, <2>1
  <2> QED
    BY <1>1, <2>2 DEF LockInv, LockTypeOK, UserType, Box
<1>5. ASSUME NEW h \in Locker PROVE UserInv(h)'
  <2>1. CASE h = g \/ user[h] = Away
    BY <1>2, <2>1 DEF UserInv, Away
  <2>2. CASE h # g /\ user[h] # Away
    <3>1. UserInv(h) /\ user'[h] = user[h]
      BY <1>2, <2>2 DEF LockInv
    <3> QED
      BY <1>3, <2>2, <3>1 DEF UserInv, Away
  <2> QED
    BY <2>1, <2>2
<1>6. CrowdsKnown'
  BY <1>2 DEF LockInv, CrowdsKnown, Away
<1>7. LocksHeld'
  <2> SUFFICES ASSUME NEW c \in locked'
               PROVE  \/ \E h \in Locker : user'[h].at = "holds" /\ user'[h].box = c
                      \/ c \in abandoned' \cup strays
                      \/ madeFor[c] \in crowded \cup lost
    BY DEF LocksHeld
  <2>1. CASE c = user[g].box
    BY <2>1
  <2>2. CASE c # user[g].box
    BY <1>2, <2>2 DEF LockInv, LocksHeld
  <2> QED
    BY <2>1, <2>2
<1>8. StraysExplained' /\ (fatal' => crowded' # {})
  BY DEF LockInv, StraysExplained
<1> QED
  BY <1>3, <1>4, <1>5, <1>6, <1>7, <1>8 DEF LockInv

(* What the key of the user alone after it leads to.                       *)
LEMMA HolderIs ==
  ASSUME LockInv, NEW g \in Locker, user[g].at = "holds"
  PROVE  /\ user[g] # Away /\ user[g].key \in Key
         /\ user[g].key \in Present \ crowded =>
              content[index[user[g].key]].value = user[g].box /\ user[g].box \in locked
         /\ user[g].box \in strays \/ madeFor[user[g].box] = user[g].key
         /\ user[g].key \notin lost => user[g].key \in Present
<1>1. user[g] # Away
  BY DEF Away
<1>2. UserInv(g)
  BY DEF LockInv
<1> QED
  BY <1>1, <1>2 DEF UserInv

LEMMA UnlockInv ==
  ASSUME LockInv, NEW g \in Locker, Unlock(g)
  PROVE  LockInv'
<1>1. PICK k : k = user[g].key
  OBVIOUS
<1>2. PICK b : b = content[index[k]].value
  OBVIOUS
<1>3. /\ user[g].at = "holds" /\ user' = [user EXCEPT ![g] = Away]
      /\ IF k \in Present THEN locked' = locked \ {b} /\ fatal' = (b \notin locked)
         ELSE UNCHANGED <<locked, fatal>>
      /\ UNCHANGED <<index, content, list, panicked, stamp, clock>>
      /\ UNCHANGED <<boxes, lockLeaked, madeFor, crowded, lost, strays, abandoned>>
  BY <1>1, <1>2 DEF Unlock, UnchangedCache, vars, why
<1>4. CacheInv'
  BY <1>3, UnchangedInv DEF LockInv
<1>5. fatal' => crowded # {}
  <2>1. k \in Present \ crowded => b \in locked
    BY <1>1, <1>2, <1>3, HolderIs
  <2> QED
    BY <1>3, <2>1 DEF LockInv
<1>6. user[g].box \in locked' => \/ user[g].box \in strays
                                 \/ madeFor[user[g].box] \in crowded \cup lost
  <2>1. user[g].box \in strays \/ madeFor[user[g].box] = k
    BY <1>1, <1>3, HolderIs
  <2>2. k \notin crowded \cup lost => k \in Present /\ b = user[g].box
    BY <1>1, <1>2, <1>3, HolderIs
  <2> QED
    BY <1>3, <2>1, <2>2
<1>7. ASSUME NEW h \in Locker \ {g}, user[h].key \in Present \ crowded, user[h].at = "holds"
      PROVE  user[h].box \in locked'
  <2>1. content[index[user[h].key]].value = user[h].box /\ user[h].box \in locked /\ user[h] # Away
    BY <1>7, HolderIs
  <2>2. user[h].key # k
    BY <1>1, <1>3, <1>7, <2>1, HolderIs DEF LockInv, CrowdsKnown
  <2>3. k \in Present => b # user[h].box
    BY <1>2, <1>7, <2>1, <2>2 DEF LockInv, BoxesFiled
  <2> QED
    BY <1>3, <2>1, <2>3
<1> QED
  BY <1>3, <1>4, <1>5, <1>6, <1>7, LeaveInv

LEMMA SaveAndUnlockInv ==
  ASSUME LockInv, NEW g \in Locker, SaveAndUnlock(g)
  PROVE  LockInv'
<1>1. /\ user[g].at = "holds" /\ findItem(user[g].key)
      /\ UNCHANGED <<boxes, lockLeaked, madeFor, crowded, lost, strays, locked, fatal>>
      /\ \/ UNCHANGED <<user, abandoned>>
         \/ user' = [user EXCEPT ![g] = Away] /\ abandoned' = abandoned \cup {user[g].box}
  BY DEF SaveAndUnlock, findItemOk
<1>2. CacheInv' /\ index' = index /\ content' = content
  <2>1. CacheInv /\ user[g].key \in Key
    BY <1>1, HolderIs DEF LockInv
  <2>2. CASE user[g].key \in Present
    BY <1>1, <2>1, <2>2, PromoteStep
  <2>3. CASE user[g].key \notin Present
    BY <1>1, <2>1, <2>3, FindItemInv DEF findItem, cache
  <2> QED
    BY <2>2, <2>3
<1>3. CASE UNCHANGED <<user, abandoned>>
  <2>1. Present' = Present /\ BoxesFiled'
    BY <1>1, <1>2, SameIndex
  <2>2. LockTypeOK' /\ CrowdsKnown' /\ LocksHeld' /\ StraysExplained' /\ (fatal' => crowded' # {})
    BY <1>1, <1>3 DEF LockInv, LockTypeOK, CrowdsKnown, LocksHeld, StraysExplained, UserType, Box
  <2>3. \A h \in Locker : UserInv(h)'
    BY <1>1, <1>2, <1>3, <2>1 DEF LockInv, UserInv, Away
  <2> QED
    BY <1>2, <2>1, <2>2, <2>3 DEF LockInv
<1>4. CASE user' = [user EXCEPT ![g] = Away] /\ abandoned' = abandoned \cup {user[g].box}
  <2>1. ASSUME NEW h \in Locker \ {g}, user[h].key \in Present \ crowded, user[h].at = "holds"
        PROVE  user[h].box \in locked'
    BY <1>1, <2>1, HolderIs
  <2>2. fatal' => crowded # {}
    BY <1>1 DEF LockInv
  <2> QED
    BY <1>1, <1>2, <1>4, <2>1, <2>2, LeaveInv
<1> QED
  BY <1>1, <1>3, <1>4

LEMMA LockKept ==
  ASSUME LockInv, UNCHANGED <<index, content, list, panicked, stamp, clock>>,
         UNCHANGED <<boxes, locked, fatal, user, madeFor, crowded, lost, strays, abandoned>>
  PROVE  LockInv'
<1>1. CacheInv'
  BY UnchangedInv DEF LockInv
<1>2. Present' = Present /\ BoxesFiled'
  BY SameIndex
<1>3. LockTypeOK' /\ CrowdsKnown' /\ LocksHeld' /\ StraysExplained' /\ (fatal' => crowded' # {})
  BY DEF LockInv, LockTypeOK, CrowdsKnown, LocksHeld, StraysExplained, UserType, Box
<1>4. \A h \in Locker : UserInv(h)'
  BY <1>2 DEF LockInv, UserInv, Away
<1> QED
  BY <1>1, <1>2, <1>3, <1>4 DEF LockInv

LEMMA LockNextInv ==
  ASSUME LockInv, [LockNext]_lockVars
  PROVE  LockInv'
<1>1. ASSUME NEW g \in Locker, NEW k \in Key, GetAndLock(g, k) \/ PutAndLock(g, k) PROVE LockInv'
  <2>1. CASE user[g] = Away /\ LookupAndSet(g, k)
    BY <2>1, LookupInv
  <2>2. CASE LoaderFails(g, k)
    BY <2>2, LockKept DEF LoaderFails, UnchangedCache, vars, why
  <2> QED
    BY <1>1, <2>1, <2>2 DEF GetAndLock, PutAndLock
<1>2. CASE UNCHANGED lockVars
  BY <1>2, LockKept DEF lockVars, vars, lockables, why
<1> QED
  BY <1>1, <1>2, ReadValueInv, TakeLockInv, UnlockInv, SaveAndUnlockInv, LockableRemoveInv DEF LockNext

(* Lockable.  However its calls interleave, and whatever leaves the cache  *)
(* meanwhile: who is after a key knows where it leads, who shares it is    *)
(* known, and a box is filed under the key it was made for only.           *)
THEOREM LockableIsWellFormed == LockSpec => []LockInv
BY LockInitInv, LockNextInv, PTL DEF LockSpec

(* One user at a time of a key that stays has the mutex that Unlock finds, *)
(* and every mutex that stays locked, and every fatal Unlock, is explained *)
(* (cache/lockableLRU.go).                                                 *)
THEOREM LocksAreKept == LockSpec => []LocksKept
<1>1. LockInv => LocksKept
  <2> SUFFICES ASSUME LockInv PROVE LocksKept
    OBVIOUS
  <2>1. AloneIsExclusive
    BY HolderIs DEF AloneIsExclusive
  <2>2. LocksExplained
    BY DEF LockInv, LocksHeld, StraysExplained, LocksExplained
  <2> QED
    BY <2>1, <2>2 DEF LocksKept
<1> QED
  BY <1>1, LockableIsWellFormed, PTL
=============================================================================
