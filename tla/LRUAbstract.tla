---------------------------- MODULE LRUAbstract ----------------------------
(***************************************************************************)
(* What an LRU cache promises, without a list: a map of at most Size keys  *)
(* that remembers when each was last used and, to make room, gives up one  *)
(* that no other key has gone unused longer than.                          *)
(***************************************************************************)
EXTENDS Integers, FiniteSets

CONSTANTS Key, Value, Absent, Size

VARIABLES stored,     \* the value of each key, Absent when not cached
          used,       \* when each cached key was last used
          now

vars == <<stored, used, now>>

Cached == {k \in Key : stored[k] # Absent}

Init == /\ stored = [k \in Key |-> Absent]
        /\ used = [k \in Key |-> 0]
        /\ now = 0

Stamp(u, k) == /\ now' = now + 1
               /\ used' = [u EXCEPT ![k] = now + 1]

Touch(k) == /\ k \in Cached
            /\ Stamp(used, k)
            /\ UNCHANGED stored

Overwrite(k, v) == /\ k \in Cached
                   /\ stored' = [stored EXCEPT ![k] = v]
                   /\ Stamp(used, k)

Add(k, v) == /\ k \notin Cached
             /\ Cardinality(Cached) < Size
             /\ stored' = [stored EXCEPT ![k] = v]
             /\ Stamp(used, k)

Oldest(k) == k \in Cached /\ \A j \in Cached : used[k] <= used[j]

Replace(old, k, v) == /\ k \notin Cached
                      /\ Cardinality(Cached) = Size
                      /\ Oldest(old)
                      /\ stored' = [stored EXCEPT ![old] = Absent, ![k] = v]
                      /\ Stamp([used EXCEPT ![old] = 0], k)

Drop(k) == /\ k \in Cached
           /\ stored' = [stored EXCEPT ![k] = Absent]
           /\ used' = [used EXCEPT ![k] = 0]
           /\ UNCHANGED now

Next == \E k \in Key :
          \/ Touch(k)
          \/ Drop(k)
          \/ \E v \in Value : \/ Overwrite(k, v)
                              \/ Add(k, v)
                              \/ \E old \in Key : Replace(old, k, v)

Spec == Init /\ [][Next]_vars
=============================================================================
