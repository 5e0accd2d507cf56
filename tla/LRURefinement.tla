--------------------------- MODULE LRURefinement ---------------------------
(* The pointer-level cache implements the abstract one: the value and the  *)
(* age of a key are those of the item the index gives it.                  *)
EXTENDS LRU

absStored == [k \in Key |-> IF index[k] = Nil THEN Nil
                            ELSE content[index[k]].value]
absUsed == [k \in Key |-> IF index[k] = Nil THEN 0 ELSE stamp[index[k]]]

Abs == INSTANCE LRUAbstract WITH Absent <- Nil, stored <- absStored,
                                 used <- absUsed, now <- clock

(* Every call of the code is a step of the abstract cache, or changes      *)
(* nothing: in particular what a Set throws out of a full cache is a least *)
(* recently used key, and nothing else ever leaves it unasked.             *)
ImplementsLRU == Abs!Spec
=============================================================================
