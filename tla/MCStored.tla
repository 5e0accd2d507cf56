------------------------------ MODULE MCStored ------------------------------
(* What is generated for stored data, in one run: `part` is the one that   *)
(* moves, and the others stay as they begin.                               *)
EXTENDS DictCache, EntityStore
CONSTANTS w1, w2, w3, q1, q2, v1, v2

VARIABLE part

AllSettings == SettingType

\* All new, one that exists or is the next of the sequence, two of which one exists.
SomeBatches == {<<0, 0>>, <<2, 0>>, <<2, 1>>}

\* Workers, which stand for clients too, are alike, and so are values.
Symmetry == Permutations(Client) \cup Permutations(Val)

\* Qualifiers are alike; the collection begins with an item, or with two of one qualifier.
dictNames == db[1] = q1 /\ db[2] # q2
dictPins == db = [i \in Id |-> None]
entityPins == setting = [method |-> "update", field |-> TRUE, scope |-> "none"]

StoredInit ==
  /\ part \in {"cache", "shared", "entity"}
  /\ part = "entity" \/ (part # "entity" /\ entityPins)
  /\ Init /\ (IF part \in {"cache", "shared"} THEN dictNames ELSE dictPins)
  /\ EntityInit /\ (part # "entity" => writes = 1)

\* Two workers call everything; or they Change items that the third Sets.
Calls(w) ==
  pc[w] = "idle" /\ pc'[w] # "idle" =>
    IF part = "cache" THEN w # w3 ELSE op'[w] = IF w = w3 THEN "Set" ELSE "Change"

CacheStep ==
  /\ part \in {"cache", "shared"} /\ Next /\ (\A w \in Worker : Calls(w))
  /\ UNCHANGED <<part, entityVars>>
EntityStep == part = "entity" /\ EntityNext /\ UNCHANGED <<part, vars>>

StoredNext == CacheStep \/ EntityStep

storedVars == <<part, vars, entityVars>>

StoredSpec == StoredInit /\ [][StoredNext]_storedVars
=============================================================================
