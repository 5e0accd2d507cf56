----------------------------- MODULE DictProofs -----------------------------
(***************************************************************************)
(* What holds of every generated dictionary.  Of its seeding, for all      *)
(* releases, any number of items and of runs of the ensurer: a taken id is *)
(* given only for the reasons listed, the values are there after every run *)
(* but for those it lost, and with real deletion the cache is the          *)
(* collection but for failed insertions.  Of its cache, for any number of  *)
(* goroutines and failing calls: it agrees with the collection but for     *)
(* what failed calls were about and mutations have written into, a call    *)
(* that misses an item or panics does so after a failure or a Delete, and  *)
(* what is broken stays broken.                                            *)
(***************************************************************************)
EXTENDS DictCache, DictSeed, FiniteSetTheorems, WellFoundedInduction, TLAPS

LEMMA MaxOf ==
  ASSUME NEW S \in SUBSET ItemId, S # {}
  PROVE  Max(S) \in S /\ \A y \in S : y <= Max(S)
<1> DEFINE T == {MaxId - x : x \in S}
<1>0. MaxId \in Nat /\ ItemId \subseteq Nat /\ \A x \in S : x <= MaxId /\ x \in Nat
  BY SeedAssumption DEF ItemId
<1>1. T \subseteq Nat /\ T # {}
  <2>1. \A x \in S : MaxId - x \in Nat
    BY <1>0
  <2>2. PICK x \in S : TRUE
    OBVIOUS
  <2>3. MaxId - x \in T
    OBVIOUS
  <2> QED
    BY <2>1, <2>3
<1>2. PICK t \in T : \A y \in T : <<y, t>> \notin OpToRel(<, Nat)
  BY <1>1, NatLessThanWellFounded, WFMin
<1>3. PICK m \in S : t = MaxId - m
  BY <1>2
<1>4. \A y \in S : y <= m
  <2> SUFFICES ASSUME NEW y \in S, ~(y <= m) PROVE FALSE
    OBVIOUS
  <2>1. MaxId - y \in T /\ MaxId - y \in Nat /\ t \in Nat /\ MaxId - y < t
    BY <1>0, <1>3, <1>1
  <2> QED
    BY <1>2, <2>1 DEF OpToRel
<1>5. \A y \in S : m >= y
  BY <1>0, <1>4
<1>6. Max(S) \in S /\ \A y \in S : Max(S) >= y
  BY <1>5 DEF Max
<1> QED
  BY <1>0, <1>6

LEMMA ReleaseType == \A r \in Releases : r \in SUBSET ItemId /\ r # {} /\ Max(r) \in ItemId
BY SeedAssumption, MaxOf

LEMMA TypeInit == SeedInit => SeedTypeOK
<1> SUFFICES ASSUME SeedInit PROVE SeedTypeOK
  OBVIOUS
<1>1. kind \in KindNames /\ deletion \in DeletionNames /\ values \in Releases
  BY SeedAssumption DEF SeedInit
<1>2. docs \in [ItemId -> {"none", "live", "gone"}]
  BY DEF SeedInit
<1>3. run \in [Run -> RunType] /\ ask \in [Creator -> [id : {0} \cup ItemId, early : BOOLEAN]]
  BY DEF SeedInit, NoRun, NoAsk, RunType
<1>4. outcome \in [out : Outcomes \cup {"none"}, early : BOOLEAN]
  BY DEF SeedInit
<1> QED
  BY <1>1, <1>2, <1>3, <1>4 DEF SeedInit, SeedTypeOK

(* What a New does to the documents and the cache, whoever calls it.       *)
LEMMA CreateType ==
  ASSUME SeedTypeOK, cached # NoCache, NEW i \in ItemId, NEW out \in Outcomes, Create(i, out)
  PROVE  /\ docs' \in [ItemId -> {"none", "live", "gone"}]
         /\ cached' \in SUBSET ItemId /\ cached' # NoCache /\ unsure' \subseteq ItemId
<1>1. docs' \in [ItemId -> {"none", "live", "gone"}]
  BY DEF Create, InsertAll, SeedTypeOK
<1>2. cached' \in SUBSET ItemId /\ unsure' \subseteq ItemId
  BY DEF Create, SeedTypeOK
<1> QED
  BY <1>1, <1>2, NoCacheAssumption

LEMMA SetCurrentType ==
  ASSUME SeedTypeOK, NEW v \in Nat, SetCurrent(v)
  PROVE  current' \in Nat /\ saved' \in Nat /\ trouble' \subseteq TroubleNames
BY DEF SetCurrent, SeedTypeOK, TroubleNames

LEMMA TypeNext == SeedTypeOK /\ [SeedNext]_seedVars => SeedTypeOK'
<1> SUFFICES ASSUME SeedTypeOK, [SeedNext]_seedVars PROVE SeedTypeOK'
  OBVIOUS
<1>0. /\ values \in SUBSET ItemId /\ Max(values) \in Nat /\ Max(values) + 1 \in Nat
      /\ Live \in SUBSET ItemId /\ ItemId \subseteq Nat
  BY ReleaseType DEF ItemId, Live, SeedTypeOK
<1>1. ASSUME NEW ids \in SUBSET ItemId, Flush(ids) PROVE SeedTypeOK'
  <2>1. current' \in Nat /\ saved' \in Nat /\ trouble' \subseteq TroubleNames
    BY <1>0, <1>1, SetCurrentType DEF Flush
  <2> QED
    BY <1>0, <1>1, <2>1 DEF Flush, InsertAll, dictionary, SeedTypeOK
<1>2. ASSUME NEW ids \in SUBSET ItemId, FlushCut(ids) PROVE SeedTypeOK'
  <2>1. ask' \in [Creator -> [id : {0} \cup ItemId, early : BOOLEAN]]
    BY <1>2 DEF FlushCut, NoAsk
  <2>2. docs' \in [ItemId -> {"none", "live", "gone"}]
    BY <1>2 DEF FlushCut, InsertAll, SeedTypeOK
  <2> QED
    BY <1>2, <2>1, <2>2 DEF FlushCut, dictionary, SeedTypeOK, TroubleNames
<1>3. CASE LoadOnly
  BY <1>0, <1>3 DEF LoadOnly, dictionary, sequence, SeedTypeOK
<1>4. ASSUME NEW r \in Run, LoadThenEnsure(r) PROVE SeedTypeOK'
  <2>1. run' \in [Run -> RunType]
    BY <1>0, <1>4 DEF LoadThenEnsure, SeedTypeOK, NoRun, RunType
  <2> QED
    BY <1>0, <1>4, <2>1 DEF LoadThenEnsure, dictionary, sequence, SeedTypeOK
<1>5. ASSUME NEW r \in Run, NEW v \in ItemId, Look(r, v) PROVE SeedTypeOK'
  <2>1. run' \in [Run -> RunType]
    <3>1. run[r] \in RunType /\ run \in [Run -> RunType] /\ run[r].left \ {v} \in SUBSET ItemId
      BY DEF SeedTypeOK, RunType
    <3>2. (IF v \in cached THEN 0 ELSE v) \in {0} \cup ItemId
      OBVIOUS
    <3> HIDE DEF RunType
    <3>3. \A left \in SUBSET ItemId, at \in {0} \cup ItemId :
            [run[r] EXCEPT !.left = left, !.at = at] \in RunType
      BY <3>1 DEF RunType
    <3>4. run' = [run EXCEPT ![r] = [run[r] EXCEPT !.left = run[r].left \ {v}, !.at = IF v \in cached THEN 0 ELSE v]]
      BY <1>5, <3>1 DEF Look
    <3> QED
      BY <3>1, <3>2, <3>3, <3>4
  <2> QED
    BY <1>5, <2>1 DEF Look, dictionary, sequence, SeedTypeOK
<1>6. ASSUME NEW r \in Run, CreateValue(r) PROVE SeedTypeOK'
  <2>1. run[r].at \in ItemId /\ run[r] \in RunType
    BY <1>6 DEF CreateValue, SeedTypeOK, RunType
  <2>2. PICK out \in Outcomes : Create(run[r].at, out)
    BY <1>6 DEF CreateValue
  <2>3. /\ docs' \in [ItemId -> {"none", "live", "gone"}]
        /\ cached' \in SUBSET ItemId /\ unsure' \subseteq ItemId
    BY <1>6, <2>1, <2>2, CreateType DEF CreateValue
  <2>4. run' \in [Run -> RunType]
    BY <1>6, <2>1 DEF CreateValue, SeedTypeOK, RunType
  <2>5. ask' \in [Creator -> [id : {0} \cup ItemId, early : BOOLEAN]]
    <3>1. \A c \in Creator : [ask[c] EXCEPT !.early = (ask[c].id # 0)] \in [id : {0} \cup ItemId, early : BOOLEAN]
      BY DEF SeedTypeOK
    <3> QED
      BY <1>6, <3>1 DEF CreateValue
  <2> QED
    BY <1>6, <2>3, <2>4, <2>5 DEF CreateValue, dictionary, sequence, SeedTypeOK
<1>7. ASSUME NEW r \in Run, Finish(r) PROVE SeedTypeOK'
  <2>1. run' \in [Run -> RunType]
    BY <1>7 DEF Finish, SeedTypeOK, NoRun, RunType
  <2>2. current' \in Nat /\ saved' \in Nat /\ trouble' \subseteq TroubleNames
    <3>1. CASE run[r].need
      BY <1>0, <1>7, <3>1, SetCurrentType DEF Finish
    <3>2. CASE ~run[r].need
      BY <1>7, <3>2 DEF Finish, sequence, SeedTypeOK
    <3> QED
      BY <3>1, <3>2
  <2> QED
    BY <1>7, <2>1, <2>2 DEF Finish, dictionary, SeedTypeOK
<1>8. ASSUME NEW c \in Creator, TakeId(c) PROVE SeedTypeOK'
  <2>1. current \in ItemId /\ current + 1 \in Nat
    BY <1>0, <1>8 DEF TakeId
  <2>2. ask' \in [Creator -> [id : {0} \cup ItemId, early : BOOLEAN]]
    <3>1. [id |-> current, early |-> \E r \in Run : run[r].need] \in [id : {0} \cup ItemId, early : BOOLEAN]
      BY <2>1
    <3> QED
      BY <1>8, <3>1 DEF TakeId, SeedTypeOK
  <2>3. current' \in Nat /\ saved' \in Nat
    BY <1>8, <2>1 DEF TakeId, sequence, SeedTypeOK
  <2>4. trouble' \subseteq TroubleNames
    BY <1>8 DEF TakeId, SeedTypeOK, TroubleNames
  <2> QED
    BY <1>8, <2>2, <2>3, <2>4 DEF TakeId, dictionary, SeedTypeOK
<1>9. ASSUME NEW c \in Creator, CreateItem(c) PROVE SeedTypeOK'
  <2>1. ask[c].id \in ItemId /\ ask[c].early \in BOOLEAN
    BY <1>9 DEF CreateItem, SeedTypeOK
  <2>2. PICK out \in Outcomes :
          Create(ask[c].id, out) /\ outcome' = [out |-> out, early |-> ask[c].early]
    BY <1>9 DEF CreateItem
  <2>3. /\ docs' \in [ItemId -> {"none", "live", "gone"}]
        /\ cached' \in SUBSET ItemId /\ unsure' \subseteq ItemId
    BY <1>9, <2>1, <2>2, CreateType DEF CreateItem
  <2>4. ask' \in [Creator -> [id : {0} \cup ItemId, early : BOOLEAN]]
    BY <1>9 DEF CreateItem, SeedTypeOK, NoAsk
  <2>5. outcome' \in [out : Outcomes \cup {"none"}, early : BOOLEAN]
    BY <2>1, <2>2
  <2> QED
    BY <1>9, <2>3, <2>4, <2>5 DEF CreateItem, dictionary, sequence, SeedTypeOK
<1>10. ASSUME NEW i \in ItemId, CreateGiven(i) PROVE SeedTypeOK'
  <2>1. PICK out \in Outcomes : Create(i, out)
    BY <1>10 DEF CreateGiven
  <2>2. /\ docs' \in [ItemId -> {"none", "live", "gone"}]
        /\ cached' \in SUBSET ItemId /\ unsure' \subseteq ItemId
    BY <1>10, <2>1, CreateType DEF CreateGiven
  <2> QED
    BY <1>10, <2>2 DEF CreateGiven, dictionary, sequence, SeedTypeOK, TroubleNames
<1>11. ASSUME NEW i \in ItemId, DeleteItem(i) PROVE SeedTypeOK'
  <2>1. docs' \in [ItemId -> {"none", "live", "gone"}]
    BY <1>11 DEF DeleteItem, SeedTypeOK
  <2>2. run' \in [Run -> RunType]
    BY <1>0, <1>11 DEF DeleteItem, SeedTypeOK, RunType
  <2> QED
    BY <1>11, <2>1, <2>2 DEF DeleteItem, dictionary, sequence, SeedTypeOK
<1>12. ASSUME NEW vs \in Releases, RestartWith(vs) PROVE SeedTypeOK'
  <2>1. run' \in [Run -> RunType] /\ ask' \in [Creator -> [id : {0} \cup ItemId, early : BOOLEAN]]
    BY <1>12 DEF RestartWith, NoRun, NoAsk, RunType
  <2>2. trouble' \subseteq TroubleNames
    BY <1>12 DEF RestartWith, SeedTypeOK, TroubleNames
  <2> QED
    BY <1>12, <2>1, <2>2 DEF RestartWith, SeedTypeOK
<1>13. CASE UNCHANGED seedVars
  BY <1>13 DEF seedVars, SeedTypeOK
<1> QED
  BY <1>1, <1>2, <1>3, <1>4, <1>5, <1>6, <1>7, <1>8, <1>9, <1>10, <1>11, <1>12, <1>13 DEF SeedNext

(* Types hold; the sequence is never set below 0. *)
THEOREM TypeCorrect == SeedSpec => []SeedTypeOK
<1> QED
  BY TypeInit, TypeNext, PTL DEF SeedSpec

-----------------------------------------------------------------------------
(* What the steps have in common.                                          *)
Untroubled == kind = "ensurer" /\ trouble = {}

LEMMA TroubleStays ==
  ASSUME SeedTypeOK, [SeedNext]_seedVars
  PROVE  kind' = kind /\ deletion' = deletion /\ trouble \subseteq trouble'
<1>1. \A v : SetCurrent(v) => trouble \subseteq trouble'
  BY DEF SetCurrent
<1>2. \A ids : Flush(ids) \/ FlushCut(ids) => kind' = kind /\ deletion' = deletion /\ trouble \subseteq trouble'
  BY <1>1 DEF Flush, FlushCut, dictionary
<1>3. \A r : Finish(r) => kind' = kind /\ deletion' = deletion /\ trouble \subseteq trouble'
  BY <1>1 DEF Finish, dictionary
<1>4. \A r : LoadThenEnsure(r) \/ CreateValue(r) => kind' = kind /\ deletion' = deletion /\ trouble' = trouble
  BY DEF LoadThenEnsure, CreateValue, dictionary
<1>5. \A r, v : Look(r, v) => kind' = kind /\ deletion' = deletion /\ trouble' = trouble
  BY DEF Look, dictionary
<1>6. \A c : TakeId(c) \/ CreateItem(c) => kind' = kind /\ deletion' = deletion /\ trouble \subseteq trouble'
  BY DEF TakeId, CreateItem, dictionary
<1>7. \A i : CreateGiven(i) \/ DeleteItem(i) => kind' = kind /\ deletion' = deletion /\ trouble \subseteq trouble'
  BY DEF CreateGiven, DeleteItem, dictionary
<1>8. \A vs : RestartWith(vs) => kind' = kind /\ deletion' = deletion /\ trouble \subseteq trouble'
  BY DEF RestartWith
<1>9. LoadOnly \/ UNCHANGED seedVars => kind' = kind /\ deletion' = deletion /\ trouble' = trouble
  BY DEF LoadOnly, seedVars, dictionary
<1> QED
  BY <1>2, <1>3, <1>4, <1>5, <1>6, <1>7, <1>8, <1>9 DEF SeedNext

(* A New changes one document and one place of the cache.                  *)
LEMMA CreateChanges ==
  ASSUME SeedTypeOK, cached # NoCache, NEW i \in ItemId, NEW out \in Outcomes, Create(i, out)
  PROVE  /\ \A j \in ItemId : docs[j] # "none" => docs'[j] = docs[j]
         /\ \A j \in ItemId : docs'[j] # docs[j] => j = i /\ docs'[j] = "live"
         /\ \A j \in cached' : j \in cached \/ (j = i /\ docs'[i] = "live")
         /\ cached \subseteq cached'
         /\ docs[i] = "none" /\ i \notin cached => out \notin {"duplicate", "error"}
         /\ i \notin unsure' => (unsure' = unsure /\ (docs'[i] = "live" <=> i \in cached')) \/ UNCHANGED <<docs, cached, unsure>>
         /\ unsure \subseteq unsure'
<1>1. CASE UNCHANGED <<docs, cached, unsure>> /\ out \in {"duplicate", "error"}
  BY <1>1 DEF Create, SeedTypeOK
<1>2. CASE /\ i \notin cached /\ docs[i] = "none" /\ out = "ok"
           /\ InsertAll({i}) /\ cached' = cached \cup {i} /\ UNCHANGED unsure
  BY <1>2 DEF InsertAll, SeedTypeOK
<1>3. CASE /\ i \notin cached /\ docs[i] = "none" /\ out = "failed"
           /\ UNCHANGED docs \/ InsertAll({i})
           /\ unsure' = unsure \cup {i} /\ UNCHANGED cached
  BY <1>3 DEF InsertAll, SeedTypeOK
<1> QED
  BY <1>1, <1>2, <1>3 DEF Create

-----------------------------------------------------------------------------
(* A run of the ensurer looks after the values of its release, and has yet *)
(* to look at those that are neither there nor lost; what an ensured       *)
(* dictionary has cached has a document.                                   *)
Ensuring ==
  \A r \in Run : /\ run[r].left \subseteq values /\ run[r].at \in {0} \cup values
                 /\ run[r].need \/ run[r].at # 0 \/ run[r].left # {} => run[r].on
                 /\ run[r].on => /\ kind = "ensurer"
                                 /\ \A i \in values : \/ i \in run[r].left \/ i = run[r].at
                                                      \/ docs[i] # "none" \/ i \in run[r].lost
CachedThere == kind = "ensurer" /\ cached # NoCache => \A i \in cached : docs[i] # "none"

LEMMA EnsuringNext ==
  ASSUME SeedTypeOK, Ensuring, CachedThere, [SeedNext]_seedVars
  PROVE  Ensuring' /\ CachedThere'
<1>0. /\ values \in SUBSET ItemId /\ Live \in SUBSET ItemId /\ 0 \notin ItemId
      /\ docs \in [ItemId -> {"none", "live", "gone"}] /\ run \in [Run -> RunType]
  BY ReleaseType DEF ItemId, Live, SeedTypeOK
\* Steps that leave the runs alone and let no document go.
<1>a. ASSUME UNCHANGED <<kind, values, run>>, \A i \in ItemId : docs[i] # "none" => docs'[i] # "none"
      PROVE  Ensuring'
  BY <1>0, <1>a DEF Ensuring
<1>1. ASSUME NEW ids \in SUBSET ItemId, Flush(ids) \/ FlushCut(ids) PROVE Ensuring' /\ CachedThere'
  <2>1. UNCHANGED <<kind, values, run>> /\ kind = "initer"
    BY <1>1 DEF Flush, FlushCut, dictionary
  <2>2. \A i \in ItemId : docs[i] # "none" => docs'[i] # "none"
    BY <1>0, <1>1 DEF Flush, FlushCut, InsertAll
  <2> QED
    BY <1>a, <2>1, <2>2 DEF CachedThere
<1>2. CASE LoadOnly
  BY <1>0, <1>2, <1>a DEF LoadOnly, dictionary, CachedThere
<1>3. ASSUME NEW r \in Run, LoadThenEnsure(r) PROVE Ensuring' /\ CachedThere'
  <2>1. CachedThere'
    BY <1>3 DEF LoadThenEnsure, CachedThere, Live
  <2>2. ASSUME NEW s \in Run, s # r PROVE run'[s] = run[s]
    BY <1>0, <1>3, <2>2 DEF LoadThenEnsure
  <2>3. run'[r].left = values /\ run'[r].at = 0 /\ run'[r].on
    BY <1>0, <1>3 DEF LoadThenEnsure, NoRun
  <2>4. UNCHANGED <<kind, values, docs>> /\ kind = "ensurer"
    BY <1>3 DEF LoadThenEnsure, dictionary
  <2> QED
    BY <2>1, <2>2, <2>3, <2>4 DEF Ensuring
<1>4. ASSUME NEW r \in Run, NEW v \in ItemId, Look(r, v) PROVE Ensuring' /\ CachedThere'
  <2>1. UNCHANGED <<kind, values, docs, cached>>
    BY <1>4 DEF Look, dictionary
  <2>2. ASSUME NEW s \in Run, s # r PROVE run'[s] = run[s]
    BY <1>0, <1>4, <2>2 DEF Look
  <2>3. /\ run'[r].left = run[r].left \ {v} /\ run'[r].at = (IF v \in cached THEN 0 ELSE v)
        /\ run'[r].on = run[r].on /\ run'[r].lost = run[r].lost /\ run'[r].need = run[r].need
        /\ v \in run[r].left /\ run[r].at = 0 /\ cached # NoCache
    BY <1>0, <1>4 DEF Look, RunType
  <2>4. run[r].on /\ v \in cached => docs[v] # "none"
    BY <2>3 DEF CachedThere, Ensuring
  <2>5. run'[r].left \subseteq values /\ run'[r].at \in {0} \cup values
    BY <2>3 DEF Ensuring
  <2>7. run'[r].on
    BY <2>3 DEF Ensuring
  <2>6. run'[r].on => /\ kind = "ensurer"
                      /\ \A i \in values : \/ i \in run'[r].left \/ i = run'[r].at
                                           \/ docs[i] # "none" \/ i \in run'[r].lost
    BY <1>0, <2>3, <2>4 DEF Ensuring
  <2> QED
    BY <2>1, <2>2, <2>5, <2>6, <2>7 DEF Ensuring, CachedThere
<1>5. ASSUME NEW r \in Run, CreateValue(r) PROVE Ensuring' /\ CachedThere'
  <2> DEFINE at == run[r].at
  <2>1. at \in ItemId /\ cached # NoCache
    BY <1>0, <1>5 DEF CreateValue, RunType
  <2>2. PICK out \in Outcomes : Create(at, out)
    BY <1>5 DEF CreateValue
  <2>3. /\ \A j \in ItemId : docs[j] # "none" => docs'[j] # "none"
        /\ \A j \in cached' : j \in cached \/ docs'[j] # "none"
    BY <2>1, <2>2, CreateChanges
  <2>4. UNCHANGED <<kind, values>>
    BY <1>5 DEF CreateValue, dictionary
  <2>5. CachedThere'
    BY <2>1, <2>3, <2>4 DEF CachedThere, SeedTypeOK
  <2>6. ASSUME NEW s \in Run, s # r PROVE run'[s] = run[s]
    BY <1>0, <1>5, <2>6 DEF CreateValue
  <2>a. run[r].on
    BY <1>5 DEF CreateValue, Ensuring
  <2>7. /\ run'[r].left = run[r].left /\ run'[r].at = 0 /\ run'[r].on = run[r].on
        /\ run'[r].lost = IF docs'[at] = "none" THEN run[r].lost \cup {at} ELSE run[r].lost
    BY <1>0, <1>5 DEF CreateValue, RunType
  <2>8. \A s \in Run : run'[s].left \subseteq values /\ run'[s].at \in {0} \cup values
    BY <2>6, <2>7 DEF Ensuring
  <2>9. ASSUME NEW s \in Run, run'[s].on
        PROVE  /\ kind = "ensurer"
               /\ \A i \in values : \/ i \in run'[s].left \/ i = run'[s].at
                                    \/ docs'[i] # "none" \/ i \in run'[s].lost
    BY <1>0, <2>3, <2>6, <2>7, <2>9 DEF Ensuring
  <2> QED
    BY <2>4, <2>5, <2>6, <2>7, <2>8, <2>9, <2>a DEF Ensuring
<1>6. ASSUME NEW r \in Run, Finish(r) PROVE Ensuring' /\ CachedThere'
  <2>1. UNCHANGED <<kind, values, docs, cached>>
    BY <1>6 DEF Finish, dictionary
  <2>2. ASSUME NEW s \in Run, s # r PROVE run'[s] = run[s]
    BY <1>0, <1>6, <2>2 DEF Finish
  <2>3. run'[r].left = {} /\ run'[r].at = 0 /\ ~run'[r].on /\ ~run'[r].need
    BY <1>0, <1>6 DEF Finish, NoRun
  <2> QED
    BY <2>1, <2>2, <2>3 DEF Ensuring, CachedThere
<1>7. ASSUME NEW c \in Creator, TakeId(c) PROVE Ensuring' /\ CachedThere'
  BY <1>7, <1>a DEF TakeId, dictionary, CachedThere
<1>8. ASSUME NEW c \in Creator, NEW i \in ItemId, (CreateItem(c) /\ i = ask[c].id) \/ CreateGiven(i)
      PROVE Ensuring' /\ CachedThere'
  <2>1. UNCHANGED <<kind, values, run>> /\ cached # NoCache
    BY <1>8 DEF CreateItem, CreateGiven, dictionary
  <2>2. PICK out \in Outcomes : Create(i, out)
    BY <1>8 DEF CreateItem, CreateGiven
  <2>3. /\ \A j \in ItemId : docs[j] # "none" => docs'[j] # "none"
        /\ \A j \in cached' : j \in cached \/ docs'[j] # "none"
    BY <2>1, <2>2, CreateChanges
  <2> QED
    BY <1>a, <2>1, <2>3 DEF CachedThere, SeedTypeOK
<1>9. ASSUME NEW i \in ItemId, DeleteItem(i) PROVE Ensuring' /\ CachedThere'
  <2>1. UNCHANGED <<kind, values>> /\ cached' = NoCache
    BY <1>9 DEF DeleteItem, dictionary
  <2>2. \A j \in ItemId : j # i => docs'[j] = docs[j]
    BY <1>0, <1>9 DEF DeleteItem
  <2>3. \A s \in Run : /\ run'[s].left = run[s].left /\ run'[s].at = run[s].at /\ run'[s].on = run[s].on /\ run'[s].need = run[s].need
                       /\ run[s].lost \subseteq run'[s].lost
                       /\ run[s].on /\ i \in values => i \in run'[s].lost
    BY <1>0, <1>9 DEF DeleteItem, RunType
  <2>4. ASSUME NEW s \in Run, run'[s].on, NEW j \in values
        PROVE  \/ j \in run'[s].left \/ j = run'[s].at \/ docs'[j] # "none" \/ j \in run'[s].lost
    BY <1>0, <2>2, <2>3, <2>4 DEF Ensuring
  <2> QED
    BY <2>1, <2>3, <2>4 DEF Ensuring, CachedThere
<1>10. ASSUME NEW vs \in Releases, RestartWith(vs) PROVE Ensuring' /\ CachedThere'
  BY <1>10 DEF RestartWith, NoRun, Ensuring, CachedThere
<1>11. CASE UNCHANGED seedVars
  BY <1>11, <1>a DEF seedVars, CachedThere
<1>12. ASSUME NEW c \in Creator, CreateItem(c) PROVE ask[c].id \in ItemId
  BY <1>12 DEF CreateItem, SeedTypeOK
<1>13. ASSUME NEW i \in ItemId, CreateGiven(i) PROVE Ensuring' /\ CachedThere'
  <2>1. UNCHANGED <<kind, values, run>> /\ cached # NoCache
    BY <1>13 DEF CreateGiven, dictionary
  <2>2. PICK out \in Outcomes : Create(i, out)
    BY <1>13 DEF CreateGiven
  <2>3. /\ \A j \in ItemId : docs[j] # "none" => docs'[j] # "none"
        /\ \A j \in cached' : j \in cached \/ docs'[j] # "none"
    BY <2>1, <2>2, CreateChanges
  <2> QED
    BY <1>a, <2>1, <2>3 DEF CachedThere, SeedTypeOK
<1> QED
  BY <1>1, <1>2, <1>3, <1>4, <1>5, <1>6, <1>7, <1>8, <1>9, <1>10, <1>11, <1>12, <1>13 DEF SeedNext

(* When the ensurer is through, each value is there, or its document is    *)
(* marked as deleted, unless the error of its New was dropped or it was    *)
(* deleted meanwhile (the ensurer of gen/dictionaries_generator.go),       *)
(* whatever releases, deletions, failures and crashes came before and      *)
(* whoever came between its steps.                                         *)
THEOREM EnsuredAlwaysPresent == SeedSpec => []EnsuredArePresent
<1>1. SeedInit => Ensuring /\ CachedThere
  BY DEF SeedInit, NoRun, Ensuring, CachedThere
<1>2. SeedTypeOK /\ Ensuring => EnsuredArePresent
  <2> SUFFICES ASSUME SeedTypeOK, Ensuring, NEW r \in Run, NEW i \in values,
                      run[r].on, run[r].left = {}, run[r].at = 0
               PROVE  docs[i] # "none" \/ i \in run[r].lost
    BY DEF EnsuredArePresent
  <2>1. i # 0
    BY ReleaseType DEF SeedTypeOK, ItemId
  <2> QED
    BY <2>1 DEF Ensuring
<1> QED
  BY <1>1, <1>2, EnsuringNext, TypeCorrect, PTL DEF SeedSpec

-----------------------------------------------------------------------------
(* What makes an id free.  Until something goes wrong, every id ever used  *)
(* is behind the sequence as it is saved, or is a value of a run that has  *)
(* not yet set it; and what a caller has taken is its own, and free unless *)
(* it is early.                                                            *)
Used(i) == docs[i] # "none" \/ (cached # NoCache /\ i \in cached)
Unset == \E r \in Run : run[r].need
Behind ==
  /\ saved <= current
  /\ \A i \in ItemId : Used(i) => i < saved \/ (Unset /\ i \in values)
TakenAreFree ==
  /\ \A c \in Creator : ask[c].id < saved /\ (ask[c].id = 0 \/ ask[c].early \/ ~Used(ask[c].id))
  /\ \A c, d \in Creator : c # d /\ ask[c].id # 0 => ask[c].id # ask[d].id
Told == outcome.out \in {"duplicate", "error"} => outcome.early
Orderly == Untroubled => saved \in Nat \ {0} /\ Behind /\ TakenAreFree /\ Told

LEMMA OrderlyNext ==
  ASSUME SeedTypeOK, SeedTypeOK', Ensuring, Orderly, [SeedNext]_seedVars
  PROVE  Orderly'
<1> SUFFICES ASSUME Untroubled' PROVE (saved \in Nat \ {0} /\ Behind /\ TakenAreFree /\ Told)'
  BY DEF Orderly
<1>0. Untroubled
  BY TroubleStays DEF Untroubled
<1> USE <1>0
<1>a. /\ saved \in Nat \ {0} /\ Behind /\ TakenAreFree /\ Told
      /\ ItemId \subseteq Nat \ {0} /\ current \in Nat /\ saved <= current
      /\ values \in SUBSET ItemId /\ Live \in SUBSET ItemId
      /\ kind = "ensurer" /\ trouble' = {} /\ trouble = {}
  BY ReleaseType DEF Orderly, ItemId, Live, SeedTypeOK, Behind, Untroubled
<1>b. Max(values) \in Nat /\ \A v \in values : v <= Max(values)
  BY ReleaseType, MaxOf, SeedAssumption, <1>a DEF SeedTypeOK
<1>d. \A c \in Creator : ask[c].id \in {0} \cup ItemId /\ ask[c].id \in Nat
  <2>1. \A c \in Creator : ask[c] \in [id : {0} \cup ItemId, early : BOOLEAN]
    BY DEF SeedTypeOK
  <2>2. \A c \in Creator : ask[c].id \in {0} \cup ItemId
    BY <2>1
  <2>3. ItemId \subseteq Nat
    BY <1>a
  <2>4. 0 \in Nat
    OBVIOUS
  <2>5. {0} \cup ItemId \subseteq Nat
    BY <2>3, <2>4
  <2> QED
    BY ONLY <2>2, <2>5
\* Steps that use no new id and leave the sequence and the callers alone.
<1>c. ASSUME UNCHANGED <<current, saved, values, ask, outcome>>,
             \A i \in ItemId : Used(i)' => Used(i), Unset => Unset'
      PROVE  (saved \in Nat \ {0} /\ Behind /\ TakenAreFree /\ Told)'
  <2>1. Behind'
    BY <1>a, <1>c DEF Behind
  <2>2. TakenAreFree'
    <3>1. \A c \in Creator : ask'[c].id < saved' /\ (ask'[c].id = 0 \/ ask'[c].early \/ ~Used(ask[c].id)')
      BY <1>a, <1>c DEF TakenAreFree, SeedTypeOK
    <3> QED
      BY <1>a, <1>c, <3>1 DEF TakenAreFree, Used
  <2> QED
    BY <1>a, <1>c, <2>1, <2>2 DEF Told
<1>1. ASSUME NEW ids \in SUBSET ItemId, Flush(ids) \/ FlushCut(ids) PROVE FALSE
  BY <1>1, <1>a DEF Flush, FlushCut
<1>2. ~LoadOnly
  BY <1>a DEF LoadOnly
<1>3. ASSUME NEW r \in Run, LoadThenEnsure(r) PROVE (saved \in Nat \ {0} /\ Behind /\ TakenAreFree /\ Told)'
  <2>1. \A i \in ItemId : Used(i)' => Used(i)
    BY <1>3 DEF LoadThenEnsure, Used, Live
  <2>2. Unset => Unset'
    BY <1>3 DEF LoadThenEnsure, Unset, SeedTypeOK, RunType, Ensuring
  <2> QED
    BY <1>3, <1>c, <2>1, <2>2 DEF LoadThenEnsure, dictionary, sequence
<1>4. ASSUME NEW r \in Run, NEW v \in ItemId, Look(r, v) PROVE (saved \in Nat \ {0} /\ Behind /\ TakenAreFree /\ Told)'
  <2>1. \A i \in ItemId : Used(i)' => Used(i)
    BY <1>4 DEF Look, Used
  <2>2. Unset => Unset'
    BY <1>4 DEF Look, Unset, SeedTypeOK, RunType
  <2> QED
    BY <1>4, <1>c, <2>1, <2>2 DEF Look, dictionary, sequence
<1>5. ASSUME NEW r \in Run, CreateValue(r) PROVE (saved \in Nat \ {0} /\ Behind /\ TakenAreFree /\ Told)'
  <2> DEFINE i == run[r].at
  <2>1. i \in ItemId
    BY <1>5 DEF CreateValue, SeedTypeOK, RunType
  <2>2. PICK out \in Outcomes : Create(i, out)
    BY <1>5 DEF CreateValue
  <2>3. \A j \in ItemId : Used(j)' => Used(j) \/ j = i
    <3>1. cached # NoCache
      BY <1>5 DEF CreateValue
    <3> QED
      BY <2>1, <2>2, <3>1, CreateChanges DEF Used
  <2>4. Unset'
    BY <1>5 DEF CreateValue, Unset, SeedTypeOK, RunType
  <2>5. UNCHANGED <<current, saved, values, outcome>>
    BY <1>5 DEF CreateValue, dictionary, sequence
  <2>a. i \in values
    BY <1>5 DEF CreateValue, Ensuring
  <2>6. Behind'
    BY <1>a, <2>3, <2>4, <2>5, <2>a DEF Behind
  <2>7. ask' = [c \in Creator |-> [ask[c] EXCEPT !.early = ask[c].id # 0]]
    BY <1>5 DEF CreateValue
  <2>8. \A c \in Creator : ask'[c].id = ask[c].id /\ (ask[c].id # 0 => ask'[c].early)
    BY <2>7 DEF SeedTypeOK
  <2>9. TakenAreFree'
    BY <1>a, <2>5, <2>8 DEF TakenAreFree
  <2> QED
    BY <1>a, <2>5, <2>6, <2>9 DEF Told
<1>6. ASSUME NEW r \in Run, Finish(r) PROVE (saved \in Nat \ {0} /\ Behind /\ TakenAreFree /\ Told)'
  <2>1. UNCHANGED <<values, docs, cached, ask, outcome>> /\ run' = [run EXCEPT ![r] = NoRun]
    BY <1>6 DEF Finish, dictionary
  <2>2. \A i \in ItemId : Used(i)' = Used(i)
    BY <2>1 DEF Used
  <2>3. CASE run[r].need
    <3>1. current' = Max(values) + 1 /\ saved' = Max(values) + 1 /\ ~(Max(values) + 1 < current)
      BY <1>6, <1>a, <2>3 DEF Finish, SetCurrent
    <3>2. saved <= saved'
      BY <1>a, <1>b, <3>1
    <3>3. \A i \in ItemId : Used(i)' => i < saved'
      BY <1>a, <1>b, <2>2, <3>1, <3>2 DEF Behind
    <3>4. Behind'
      BY <1>a, <1>b, <3>1, <3>3 DEF Behind
    <3>5. TakenAreFree'
      <4> QED
        BY <1>a, <1>b, <1>d, <2>1, <2>2, <3>1, <3>2 DEF TakenAreFree, SeedTypeOK
    <3> QED
      BY <1>b, <1>a, <2>1, <3>1, <3>4, <3>5 DEF Told
  <2>4. CASE ~run[r].need
    <3>1. UNCHANGED <<current, saved>>
      BY <1>6, <2>4 DEF Finish, sequence
    <3>2. Unset => Unset'
      BY <2>1, <2>4 DEF Unset, SeedTypeOK
    <3> QED
      BY <1>c, <2>1, <2>2, <3>1, <3>2
  <2> QED
    BY <2>3, <2>4
<1>7. ASSUME NEW c \in Creator, TakeId(c) PROVE (saved \in Nat \ {0} /\ Behind /\ TakenAreFree /\ Told)'
  <2>1. /\ UNCHANGED <<values, docs, cached, run, outcome>> /\ ask[c].id = 0
        /\ current \in ItemId /\ current + 1 \in Nat /\ saved \in Nat
    BY <1>7, <1>a DEF TakeId, dictionary, SeedTypeOK
  <2>2. (\A i \in ItemId : Used(i)' = Used(i)) /\ Unset' = Unset
    BY <2>1 DEF Used, Unset
  <2>3. CASE /\ ask' = [ask EXCEPT ![c] = [id |-> current, early |-> \E r \in Run : run[r].need]]
             /\ current' = current + 1 /\ saved' = current + 1
    <3>1. Behind'
      BY <1>a, <2>1, <2>2, <2>3 DEF Behind
    <3>2. Unset \/ ~Used(current)
      BY <1>a, <2>1 DEF Behind
    <3>3. ask'[c].id = current /\ ask'[c].early = Unset
      BY <2>3 DEF SeedTypeOK, Unset
    <3>4. \A d \in Creator : d # c => ask'[d] = ask[d]
      BY <2>3 DEF SeedTypeOK
    <3>5. \A d \in Creator : ask[d].id \in {0} \cup ItemId /\ ask[d].id < saved /\ ask[d].id < current
      BY <1>a, <1>d DEF TakenAreFree
    <3>6. \A d \in Creator : ask'[d].id < saved'
      BY <1>a, <1>d, <2>1, <2>3, <3>3, <3>4, <3>5
    <3>7. \A d \in Creator : ask'[d].id = 0 \/ ask'[d].early \/ ~Used(ask[d].id)'
      <4>1. ask'[c].early \/ ~Used(ask[c].id)'
        BY <2>1, <3>2, <3>3 DEF Used
      <4>2. ASSUME NEW d \in Creator, d # c PROVE ask'[d].id = 0 \/ ask'[d].early \/ ~Used(ask[d].id)'
        BY <1>a, <2>1, <3>4, <4>2 DEF Used, TakenAreFree
      <4> QED
        BY <4>1, <4>2
    <3>8. \A d, e \in Creator : d # e /\ ask'[d].id # 0 => ask'[d].id # ask'[e].id
      BY <1>a, <2>1, <3>3, <3>4, <3>5 DEF TakenAreFree
    <3>9. TakenAreFree'
      BY <3>6, <3>7, <3>8 DEF TakenAreFree, Used
    <3> QED
      BY <1>a, <2>1, <2>3, <3>1, <3>9 DEF Told
  <2>4. CASE UNCHANGED ask /\ current' = current + 1 /\ saved' \in {saved, current + 1}
    <3>1. Behind'
      BY <1>a, <2>1, <2>2, <2>4 DEF Behind
    <3>2. saved <= saved' /\ saved' \in Nat \ {0}
      BY <1>a, <2>1, <2>4
    <3>3. \A d \in Creator : ask[d].id \in Nat
      BY <1>d
    <3>4. TakenAreFree'
      BY <1>a, <2>1, <2>4, <3>2, <3>3 DEF TakenAreFree, Used
    <3> QED
      BY <1>a, <2>1, <3>1, <3>2, <3>4 DEF Told
  <2> QED
    BY <1>7, <1>a, <2>3, <2>4 DEF TakeId
<1>8. ASSUME NEW c \in Creator, CreateItem(c) PROVE (saved \in Nat \ {0} /\ Behind /\ TakenAreFree /\ Told)'
  <2> DEFINE i == ask[c].id
  <2>1. i \in ItemId /\ i # 0 /\ cached # NoCache
    BY <1>8 DEF CreateItem, SeedTypeOK
  <2>2. PICK out \in Outcomes :
          Create(i, out) /\ outcome' = [out |-> out, early |-> ask[c].early]
    BY <1>8 DEF CreateItem
  <2>3. \A j \in ItemId : Used(j)' => Used(j) \/ j = i
    BY <2>1, <2>2, CreateChanges DEF Used
  <2>4. UNCHANGED <<current, saved, values, run>> /\ ask' = [ask EXCEPT ![c] = NoAsk]
    BY <1>8 DEF CreateItem, dictionary, sequence
  <2>5. i < saved
    BY <1>a DEF TakenAreFree
  <2>6. Behind'
    BY <1>a, <2>3, <2>4, <2>5 DEF Behind, Unset
  <2>7. /\ ask'[c].id = 0 /\ \A d \in Creator : d # c => ask'[d] = ask[d] /\ ask[d].id # i
        /\ \A d \in Creator : ask[d].id \in {0} \cup ItemId
    BY <1>a, <2>1, <2>4 DEF SeedTypeOK, NoAsk, TakenAreFree
  <2>8. \A d \in Creator : ask'[d].id < saved'
    BY <1>a, <2>4, <2>7 DEF TakenAreFree
  <2>9. ASSUME NEW d \in Creator PROVE ask'[d].id = 0 \/ ask'[d].early \/ ~Used(ask[d].id)'
    <3>1. CASE d = c
      BY <2>7, <3>1
    <3>2. CASE d # c /\ ask[d].id # 0 /\ ~ask[d].early
      <4>1. ~Used(ask[d].id) /\ ask[d].id \in ItemId /\ ask[d].id # i
        BY <1>a, <2>7, <3>2 DEF TakenAreFree
      <4>2. ~Used(ask[d].id)' /\ ask'[d] = ask[d]
        BY <2>3, <2>7, <3>2, <4>1 DEF Used
      <4> QED
        BY <4>2 DEF Used
    <3> QED
      BY <2>7, <3>1, <3>2
  <2>10. \A d, e \in Creator : d # e /\ ask'[d].id # 0 => ask'[d].id # ask'[e].id
    BY <1>a, <2>7 DEF TakenAreFree
  <2>11. TakenAreFree'
    BY <2>8, <2>9, <2>10 DEF TakenAreFree, Used
  <2>12. Told'
    <3>1. ask[c].early \/ ~Used(i)
      BY <1>a, <2>1 DEF TakenAreFree
    <3>2. ~Used(i) => out \notin {"duplicate", "error"}
      BY <2>1, <2>2, CreateChanges DEF Used
    <3> QED
      BY <2>2, <3>1, <3>2 DEF Told
  <2> QED
    BY <1>a, <2>4, <2>6, <2>11, <2>12
<1>9. ASSUME NEW i \in ItemId, CreateGiven(i) PROVE FALSE
  BY <1>9, <1>a DEF CreateGiven
<1>10. ASSUME NEW i \in ItemId, DeleteItem(i) PROVE (saved \in Nat \ {0} /\ Behind /\ TakenAreFree /\ Told)'
  <2>1. UNCHANGED <<current, saved, values, ask, outcome>> /\ cached' = NoCache
    BY <1>10 DEF DeleteItem, dictionary, sequence
  <2>2. \A j \in ItemId : Used(j)' => Used(j)
    BY <1>10, <2>1 DEF DeleteItem, Used, SeedTypeOK
  <2>3. \A r \in Run : run'[r].need = run[r].need
    BY <1>10 DEF DeleteItem, SeedTypeOK, RunType
  <2> QED
    BY <1>c, <2>1, <2>2, <2>3 DEF Unset
<1>11. ASSUME NEW vs \in Releases, RestartWith(vs) PROVE (saved \in Nat \ {0} /\ Behind /\ TakenAreFree /\ Told)'
  <2>1. /\ ~Unset /\ UNCHANGED <<saved, docs, outcome>> /\ cached' = NoCache /\ current' = saved
        /\ ask' = [c \in Creator |-> NoAsk]
    BY <1>11, <1>a DEF RestartWith, Unset
  <2>2. \A j \in ItemId : Used(j)' => Used(j)
    BY <2>1 DEF Used
  <2>3. Behind'
    BY <1>a, <2>1, <2>2 DEF Behind
  <2>4. TakenAreFree'
    BY <1>a, <2>1 DEF TakenAreFree, NoAsk
  <2> QED
    BY <1>a, <2>1, <2>3, <2>4 DEF Told
<1>12. CASE UNCHANGED seedVars
  BY <1>12, <1>c DEF seedVars, Used, Unset
<1> QED
  BY <1>1, <1>2, <1>3, <1>4, <1>5, <1>6, <1>7, <1>8, <1>9, <1>10, <1>11, <1>12 DEF SeedNext

(* An ensured dictionary gives a new item a taken id only when its         *)
(* sequence was moved back or failed, a seeding was cut short, somebody    *)
(* chose an id, or the ensurer had not yet set the sequence (the code      *)
(* after the load in generateDictCacheLoader), whatever else fails.        *)
THEOREM TakenIdsExplained == SeedSpec => []TakenIdExplained
<1>1. SeedInit => Orderly
  BY DEF SeedInit, Orderly, Behind, TakenAreFree, Told, Used, NoAsk
<1>2. SeedTypeOK /\ Orderly => TakenIdExplained
  BY DEF Orderly, Untroubled, Told, TakenIdExplained
<1>3. SeedInit => Ensuring /\ CachedThere
  BY DEF SeedInit, NoRun, Ensuring, CachedThere
<1> QED
  BY <1>1, <1>2, <1>3, OrderlyNext, EnsuringNext, TypeCorrect, PTL DEF SeedSpec

-----------------------------------------------------------------------------
(* With real deletion no document is only marked, and the cache differs    *)
(* from the collection by items whose insertion has failed.                *)
Exact ==
  deletion = "delete" =>
    /\ \A i \in ItemId : docs[i] # "gone"
    /\ cached # NoCache => \A i \in ItemId : i \in unsure \/ (i \in cached <=> docs[i] = "live")

LEMMA ExactCreate ==
  ASSUME SeedTypeOK, Exact, deletion' = deletion, deletion = "delete",
         cached # NoCache, NEW i \in ItemId, NEW out \in Outcomes, Create(i, out)
  PROVE  Exact'
<1>1. ~UNCHANGED <<docs, cached, unsure>> => \A j \in ItemId : j # i =>
         docs'[j] = docs[j] /\ (j \in cached' <=> j \in cached)
  BY DEF Create, InsertAll, SeedTypeOK
<1>2. /\ \A j \in ItemId : docs'[j] # "gone"
      /\ unsure \subseteq unsure'
      /\ i \in unsure' \/ (docs'[i] = "live" <=> i \in cached') \/ UNCHANGED <<docs, cached, unsure>>
  BY CreateChanges DEF Exact, SeedTypeOK
<1> QED
  BY <1>1, <1>2 DEF Exact

LEMMA ExactNext == SeedTypeOK /\ Exact /\ [SeedNext]_seedVars => Exact'
<1> SUFFICES ASSUME SeedTypeOK, Exact, [SeedNext]_seedVars, deletion' = "delete" PROVE Exact'
  BY DEF Exact
<1>0. deletion = "delete" /\ deletion' = deletion
  BY TroubleStays
<1>a. values \in SUBSET ItemId /\ docs \in [ItemId -> {"none", "live", "gone"}]
  BY ReleaseType DEF SeedTypeOK
<1>1. ASSUME NEW ids \in SUBSET ItemId, Flush(ids) PROVE Exact'
  <2>1. \A i \in ItemId : docs[i] = "none"
    BY <1>0, <1>1, <1>a DEF Flush, Live, Exact
  <2> QED
    BY <1>0, <1>1, <1>a, <2>1 DEF Flush, InsertAll, Exact
<1>2. ASSUME NEW ids \in SUBSET ItemId, FlushCut(ids) PROVE Exact'
  BY <1>0, <1>2, <1>a DEF FlushCut, InsertAll, Exact
<1>3. ASSUME LoadOnly \/ \E r \in Run : LoadThenEnsure(r) PROVE Exact'
  BY <1>0, <1>3, <1>a DEF LoadOnly, LoadThenEnsure, Live, Exact
<1>4. ASSUME \/ \E r \in Run, v \in ItemId : Look(r, v)
             \/ \E r \in Run : Finish(r)
             \/ \E c \in Creator : TakeId(c)
             \/ UNCHANGED seedVars
      PROVE Exact'
  <2>1. UNCHANGED <<docs, cached, unsure>>
    BY <1>4 DEF Look, Finish, TakeId, seedVars
  <2> QED
    BY <1>0, <2>1 DEF Exact
<1>5. ASSUME NEW r \in Run, CreateValue(r) PROVE Exact'
  BY <1>0, <1>5, ExactCreate DEF CreateValue, SeedTypeOK, RunType
<1>6. ASSUME NEW c \in Creator, CreateItem(c) PROVE Exact'
  BY <1>0, <1>6, ExactCreate DEF CreateItem, SeedTypeOK
<1>7. ASSUME NEW i \in ItemId, CreateGiven(i) PROVE Exact'
  BY <1>0, <1>7, ExactCreate DEF CreateGiven
<1>8. ASSUME NEW i \in ItemId, DeleteItem(i) PROVE Exact'
  BY <1>0, <1>8, <1>a DEF DeleteItem, Exact
<1>9. ASSUME NEW vs \in Releases, RestartWith(vs) PROVE Exact'
  BY <1>0, <1>9 DEF RestartWith, Exact
<1> QED
  BY <1>1, <1>2, <1>3, <1>4, <1>5, <1>6, <1>7, <1>8, <1>9 DEF SeedNext

(* With real deletion the cache and the collection differ only by items    *)
(* whose insertion has failed, applied or not, since the cache was loaded  *)
(* (FDBFlushDict and the ensurer drop such errors).                        *)
THEOREM CacheExact == SeedSpec => []CacheIsCollection
<1>1. SeedInit => Exact
  BY DEF SeedInit, Exact
<1>2. Exact => CacheIsCollection
  BY DEF Exact, CacheIsCollection
<1> QED
  BY <1>1, <1>2, ExactNext, TypeCorrect, PTL DEF SeedSpec

-----------------------------------------------------------------------------
(* From here on the cache itself, for any number of goroutines.            *)
LEMMA ListedOnce ==
  ASSUME NEW S, IsFiniteSet(S)
  PROVE  /\ SetToSeq(S) \in Seq(S)
         /\ \A j, k \in 1..Len(SetToSeq(S)) : SetToSeq(S)[j] = SetToSeq(S)[k] => j = k
         /\ \A x \in S : \E k \in 1..Len(SetToSeq(S)) : SetToSeq(S)[k] = x
<1> DEFINE n == Cardinality(S)
           f == SetToSeq(S)
<1>1. n \in Nat /\ Bijection(1..n, S) # {}
  BY FS_CardinalityType DEF ExistsBijection
<1>2. PICK g : g \in Bijection(1..n, S)
  BY <1>1
<1>3. g \in [1..n -> S] /\ IsInjective(g)
  BY <1>2 DEF Bijection, Injection
<1>4. f \in [1..n -> S] /\ IsInjective(f)
  BY <1>3 DEF SetToSeq
<1>5. f \in Seq(S) /\ Len(f) = n
  BY <1>1, <1>4
<1>6. f \in Injection(1..n, S)
  BY <1>4 DEF Injection
<1>7. f \in Surjection(1..n, S)
  <2>1. IsFiniteSet(1..n) /\ Cardinality(1..n) = n
    BY <1>1, FS_Interval
  <2> QED
    BY <1>6, <2>1, FS_Injection
<1> QED
  BY <1>4, <1>5, <1>7 DEF IsInjective, Surjection

ItemType == [id : Id, qual : Qual]
Documents == {Item(i, db[i]) : i \in {i \in Id : Stored(i) # None}}

(* What a load lists: each document that is not marked, once.              *)
LEMMA ListedIsStored ==
  ASSUME TypeOK, NEW items, items = SetToSeq(Documents)
  PROVE  /\ items \in Seq(ItemType)
         /\ \A j, k \in 1..Len(items) : items[j].id = items[k].id => j = k
         /\ \A k \in 1..Len(items) : items[k].qual = Stored(items[k].id)
         /\ \A i \in Id : Stored(i) # None => \E k \in 1..Len(items) : items[k].id = i
<1> DEFINE Kept == {i \in Id : Stored(i) # None}
           h == [i \in Kept |-> Item(i, db[i])]
<1>1. \A i \in Id : Stored(i) # None => db[i] \in Qual /\ Stored(i) = db[i]
  BY NoneAssumption DEF TypeOK, Stored
<1>2. IsFiniteSet(Documents)
  <2>1. IsFiniteSet(Kept)
    BY FS_Subset, IdAssumption
  <2>2. h \in Surjection(Kept, Documents)
    BY DEF Surjection, Documents
  <2> QED
    BY <2>1, <2>2, FS_Surjection
<1>3. \A d \in Documents : d \in ItemType /\ d.qual = Stored(d.id) /\ d = Item(d.id, d.qual)
  BY <1>1 DEF Documents, Item, ItemType
<1>4. /\ items \in Seq(Documents)
      /\ \A j, k \in 1..Len(items) : items[j] = items[k] => j = k
      /\ \A x \in Documents : \E k \in 1..Len(items) : items[k] = x
  BY <1>2, ListedOnce
<1>5. \A k \in 1..Len(items) : items[k] \in Documents
  BY <1>4
<1>6. \A j, k \in 1..Len(items) : items[j].id = items[k].id => items[j] = items[k]
  BY <1>3, <1>5
<1>7. items \in Seq(ItemType)
  BY <1>3, <1>4, <1>5
<1>8. \A i \in Id : Stored(i) # None => Item(i, db[i]) \in Documents
  BY DEF Documents
<1>9. \A i \in Id : Item(i, db[i]).id = i
  BY DEF Item
<1> QED
  BY <1>3, <1>4, <1>5, <1>6, <1>7, <1>8, <1>9

-----------------------------------------------------------------------------
(* How slice and indexes go together: no slice, no index by id; an index   *)
(* by id, then one by qualifier that points into the slice.                *)
Shape ==
  /\ cache = None => idx = None
  /\ idx # None => qualIdx # None /\ \A q \in Qual : qualIdx[q] \subseteq 1..Len(cache)

(* Who comes to operate without an index does so behind a Delete or a List *)
(* that failed.                                                            *)
Excuse == idx = None /\ (cache # None \/ \E w \in Worker : pc[w] = "act") => undone

(* Who has an object is busy with a Change; those that share one, in the   *)
(* cache or not, work on the same item, and one in the cache is found.     *)
HeldOK ==
  /\ \A w \in Worker : held[w] # None => pc[w] # "idle" /\ op[w] = "Change"
  /\ \A w \in Worker : held[w] # None /\ held[w] # {} => w \in held[w]
  /\ \A v, w \in Worker : held[v] = held[w] /\ held[w] # None /\ held[w] # {} => id[v] = id[w]
  /\ HeldAreCached

(* The nil value is none of the things a cache can be.                     *)
LEMMA NotNone ==
  /\ \A s \in Seq(ItemType) : s # None
  /\ \A f \in [Id -> Nat] : f # None
  /\ \A f \in [Qual -> SUBSET Nat] : f # None
  /\ \A workers \in SUBSET Worker : workers # None
BY NoneAssumption DEF ItemType

LEMMA ItemAt ==
  ASSUME NEW s \in Seq(ItemType), NEW k \in 1..Len(s)
  PROVE  s[k] \in ItemType /\ s[k].id \in Id /\ s[k].qual \in Qual
<1>1. s[k] \in ItemType
  OBVIOUS
<1> QED
  BY <1>1 DEF ItemType

(* What a load leaves.                                                     *)
LEMMA LoadedRight ==
  ASSUME TypeOK, Loaded(TRUE), db' = db
  PROVE  /\ cache' \in Seq(ItemType) /\ idx' \in [Id -> Nat] /\ qualIdx' \in [Qual -> SUBSET Nat]
         /\ Shape' /\ IndexAgrees' /\ DriftsOnlyWhereFailed' /\ QualifierStaleOnlyWhereSet'
<1> DEFINE items == SetToSeq(Documents)
<1>1. /\ cache' = items
      /\ idx' = [i \in Id |-> PositionOf(items, i)]
      /\ qualIdx' = [q \in Qual |-> Positions(items, q)]
  BY DEF Loaded, Documents
<1>2. /\ items \in Seq(ItemType)
      /\ \A j, k \in 1..Len(items) : items[j].id = items[k].id => j = k
      /\ \A k \in 1..Len(items) : items[k].qual = Stored(items[k].id)
      /\ \A i \in Id : Stored(i) # None => \E k \in 1..Len(items) : items[k].id = i
  BY ListedIsStored
<1> HIDE DEF items
<1>i. \A k \in 1..Len(items) : items[k].id \in Id
  BY <1>2, ItemAt
<1>3. \A i \in Id : \A k \in 1..Len(items) : items[k].id = i => PositionOf(items, i) = k
  <2> SUFFICES ASSUME NEW i \in Id, NEW k \in 1..Len(items), items[k].id = i
               PROVE  PositionOf(items, i) = k
    OBVIOUS
  <2>1. {j \in 1..Len(items) : items[j].id = i} = {k}
    BY <1>2
  <2> QED
    BY <2>1 DEF PositionOf
<1>4. \A i \in Id : (\A k \in 1..Len(items) : items[k].id # i) => PositionOf(items, i) = 0
  BY DEF PositionOf
<1>5. \A i \in Id : \/ PositionOf(items, i) = 0 /\ \A k \in 1..Len(items) : items[k].id # i
                    \/ PositionOf(items, i) \in 1..Len(items) /\ items[PositionOf(items, i)].id = i
  BY <1>3, <1>4
<1>6. Len(items) \in Nat
  BY <1>2
<1>7. cache' \in Seq(ItemType) /\ idx' \in [Id -> Nat] /\ qualIdx' \in [Qual -> SUBSET Nat]
  BY <1>1, <1>2, <1>5, <1>6 DEF Positions
<1>8. cache' # None /\ idx' # None /\ qualIdx' # None
  BY <1>7, NotNone
<1>9. Shape'
  BY <1>1, <1>8 DEF Shape, Positions
<1>10. IndexAgrees'
  <2>1. \A i \in Id : idx'[i] # 0 => idx'[i] \in 1..Len(cache') /\ cache'[idx'[i]].id = i
    BY <1>1, <1>5
  <2>2. \A k \in 1..Len(cache') : idx'[cache'[k].id] = k
    BY <1>1, <1>3, <1>i
  <2> QED
    BY <2>1, <2>2 DEF IndexAgrees
<1>11. DriftsOnlyWhereFailed'
  <2> SUFFICES ASSUME NEW i \in Id PROVE Cached(i)' = Stored(i)'
    BY Zenon DEF DriftsOnlyWhereFailed
  <2>1. Stored(i)' = Stored(i)
    BY DEF Stored
  <2>2. CASE PositionOf(items, i) = 0
    BY <1>1, <1>2, <1>5, <2>1, <2>2 DEF Cached
  <2>3. CASE PositionOf(items, i) # 0
    BY <1>1, <1>2, <1>5, <2>1, <2>3 DEF Cached
  <2> QED
    BY <2>2, <2>3
<1>12. QualifierStaleOnlyWhereSet'
  BY <1>1 DEF QualifierStaleOnlyWhereSet, Positions
<1> QED
  BY <1>7, <1>9, <1>10, <1>11, <1>12

Agreement == Shape /\ IndexAgrees /\ DriftsOnlyWhereFailed /\ QualifierStaleOnlyWhereSet
StoreTypeOK ==
  /\ db \in [Id -> Qual \cup {None, Gone}]
  /\ cache = None \/ cache \in Seq(ItemType)
  /\ idx = None \/ idx \in [Id -> Nat]
  /\ qualIdx = None \/ qualIdx \in [Qual -> SUBSET Nat]
  /\ failed \subseteq Id /\ spoiled \subseteq Id /\ moved \subseteq Id /\ undone \in BOOLEAN

(* A step that takes a Change from its item says what it leaves behind.    *)
Persists ==
  idx' # None => /\ spoiled \subseteq spoiled'
                 /\ \A i \in Id : Changing(i) => Changing(i)' \/ i \in spoiled'

(* The steps that do not touch the cache or the collection.                *)
CacheKept == UNCHANGED <<db, caches, failed, moved, undone>>

LEMMA DriftKept ==
  ASSUME DriftsOnlyWhereFailed, Persists, UNCHANGED <<cache, idx, db>>, failed \subseteq failed'
  PROVE  DriftsOnlyWhereFailed'
<1> SUFFICES ASSUME cache # None, idx # None, NEW i \in Id
             PROVE  /\ Cached(i) = None /\ Stored(i) # None => i \in failed'
                    /\ Cached(i) # None /\ Stored(i) = None => i \in failed'
                    /\ Cached(i) # Stored(i) => i \in failed' \cup spoiled' \/ Changing(i)'
  <2>1. \A i \in Id : Cached(i)' = Cached(i) /\ Stored(i)' = Stored(i)
    BY DEF Cached, Stored
  <2> QED
    BY <2>1 DEF DriftsOnlyWhereFailed
<1>1. /\ Cached(i) = None /\ Stored(i) # None => i \in failed
      /\ Cached(i) # None /\ Stored(i) = None => i \in failed
      /\ Cached(i) # Stored(i) => i \in failed \cup spoiled \/ Changing(i)
  BY DEF DriftsOnlyWhereFailed
<1>2. Changing(i) => Changing(i)' \/ i \in spoiled'
  BY DEF Persists
<1> QED
  BY <1>1, <1>2 DEF Persists

LEMMA AgreementKept ==
  ASSUME Agreement, StoreTypeOK, CacheKept, Persists, spoiled' \subseteq Id
  PROVE  Agreement' /\ StoreTypeOK'
<1>1. UNCHANGED <<db, cache, idx, qualIdx, failed, moved, undone>>
  BY DEF CacheKept, caches
<1>2. DriftsOnlyWhereFailed'
  BY <1>1, DriftKept DEF Agreement
<1>3. Broken' <=> Broken
  BY <1>1 DEF Broken
<1>4. DriftsOnlyWhereFailed' /\ Shape' /\ StoreTypeOK'
  BY <1>1, <1>2 DEF Agreement, Shape, StoreTypeOK
<1>5. IndexAgrees' /\ QualifierStaleOnlyWhereSet'
  BY <1>1, <1>3 DEF Agreement, IndexAgrees, QualifierStaleOnlyWhereSet
<1> QED
  BY <1>4, <1>5 DEF Agreement

LEMMA StoreType == TypeOK => StoreTypeOK
BY DEF TypeOK, StoreTypeOK, ItemType

(* No index by id: nothing is said of the cache.                           *)
LEMMA AgreementWithout ==
  ASSUME idx' = None
  PROVE  Agreement'
BY DEF Agreement, Shape, IndexAgrees, DriftsOnlyWhereFailed, QualifierStaleOnlyWhereSet, Broken

LEMMA LoadAgrees ==
  ASSUME TypeOK, Agreement, NEW w \in Worker, Load(w), NotLoaded => Persists
  PROVE  Agreement' /\ StoreTypeOK'
<1>1. CASE NotLoaded /\ (UNCHANGED undone \/ undone' = TRUE)
  <2>1. (Agreement' /\ StoreTypeOK') \/ (CacheKept /\ UNCHANGED spoiled)
    <3>1. UNCHANGED <<db, caches, failed, spoiled, moved>>
      BY <1>1 DEF NotLoaded, Load
    <3>2. CASE UNCHANGED undone
      BY <3>1, <3>2 DEF CacheKept
    <3>3. CASE undone' = TRUE
      <4>1. UNCHANGED <<db, cache, idx, qualIdx, failed, spoiled, moved>>
        BY <3>1 DEF caches
      <4>2. DriftsOnlyWhereFailed'
        BY <1>1, <4>1, DriftKept DEF Agreement
      <4>3. Broken' <=> Broken
        BY <4>1 DEF Broken
      <4>4. DriftsOnlyWhereFailed' /\ Shape' /\ StoreTypeOK'
        BY <4>1, <4>2, <3>3, StoreType DEF Agreement, Shape, StoreTypeOK
      <4>5. IndexAgrees' /\ QualifierStaleOnlyWhereSet'
        BY <4>1, <4>3 DEF Agreement, IndexAgrees, QualifierStaleOnlyWhereSet
      <4> QED
        BY <4>4, <4>5 DEF Agreement
    <3> QED
      BY <1>1, <3>2, <3>3
  <2> QED
    BY <1>1, <2>1, StoreType, AgreementKept DEF StoreTypeOK
<1>2. CASE Loaded(TRUE)
  <2>1. db' = db
    BY DEF Load
  <2>2. failed' = {} /\ spoiled' = {} /\ moved' = {} /\ undone' = FALSE
    BY <1>2 DEF Loaded
  <2>3. /\ cache' \in Seq(ItemType) /\ idx' \in [Id -> Nat] /\ qualIdx' \in [Qual -> SUBSET Nat]
        /\ Shape' /\ IndexAgrees' /\ DriftsOnlyWhereFailed' /\ QualifierStaleOnlyWhereSet'
    BY <1>2, <2>1, LoadedRight
  <2> QED
    BY <2>1, <2>2, <2>3 DEF StoreTypeOK, Agreement, TypeOK
<1> QED
  BY <1>1, <1>2 DEF Load

(* Where an item that was found is.                                        *)
LEMMA FoundAt ==
  ASSUME TypeOK, Agreement, NEW w \in Worker, Found(w)
  PROVE  /\ cache \in Seq(ItemType) /\ cache # None
         /\ idx \in [Id -> Nat] /\ qualIdx \in [Qual -> SUBSET Nat]
         /\ id[w] \in Id /\ qual[w] \in Qual
         /\ idx[id[w]] \in 1..Len(cache) /\ cache[idx[id[w]]].id = id[w]
         /\ Cached(id[w]) # None
<1>1. /\ cache \in Seq(ItemType) /\ cache # None
      /\ idx \in [Id -> Nat] /\ qualIdx \in [Qual -> SUBSET Nat]
      /\ id[w] \in Id /\ qual[w] \in Qual
  BY DEF Found, Agreement, Shape, TypeOK, ItemType
<1>2. idx[id[w]] \in 1..Len(cache) /\ cache[idx[id[w]]].id = id[w]
  BY <1>1 DEF Found, Agreement, IndexAgrees
<1>3. cache[idx[id[w]]].qual \in Qual
  BY <1>1, <1>2, ItemAt
<1> QED
  BY <1>1, <1>2, <1>3, NoneAssumption DEF Cached, Found

LEMMA SetAgrees ==
  ASSUME TypeOK, Agreement, HeldOK, NEW w \in Worker, Set(w),
         \A j \in Id : (j # id[w] \/ ~Found(w)) /\ Changing(j) =>
            Changing(j)' \/ j \in spoiled' \/ idx' = None
  PROVE  Agreement' /\ StoreTypeOK'
<1>1. CASE ~Found(w)
  <2>1. CacheKept /\ UNCHANGED spoiled /\ Persists
    BY <1>1 DEF Set, CacheKept, caches, Persists
  <2> QED
    BY <2>1, StoreType, AgreementKept DEF StoreTypeOK
<1>2. CASE Found(w)
  <2>f. /\ cache \in Seq(ItemType) /\ cache # None
        /\ idx \in [Id -> Nat] /\ qualIdx \in [Qual -> SUBSET Nat]
        /\ id[w] \in Id /\ qual[w] \in Qual
        /\ idx[id[w]] \in 1..Len(cache) /\ cache[idx[id[w]]].id = id[w]
        /\ Cached(id[w]) # None
    BY <1>2, FoundAt
  <2>v. Value(w) \in Qual
    BY <2>f, ItemAt DEF Value
  <2>d. PICK n \in 1..Len(cache), i \in Id, q \in Qual :
          n = idx[id[w]] /\ i = id[w] /\ q = Value(w)
    BY <2>f, <2>v
  <2>s. /\ cache' = [cache EXCEPT ![n] = Item(i, q)]
        /\ moved' = moved \cup {i} /\ UNCHANGED <<idx, qualIdx, undone>>
        /\ \/ db' = Replaced(w) /\ failed' = failed /\ spoiled' = spoiled \ {i}
           \/ db' \in {db, Replaced(w)} /\ failed' = failed \cup {i} /\ spoiled' = spoiled
    BY <1>2, <2>d DEF Set, Failed
  <2>r. Replaced(w) = IF db[i] = None THEN db ELSE [db EXCEPT ![i] = q]
    BY <2>d DEF Replaced
  <2>c. \A j \in Id : j # i /\ Changing(j) => Changing(j)' \/ j \in spoiled'
    BY <1>2, <2>d, <2>s DEF Found
  <2>1. /\ cache' \in Seq(ItemType) /\ Len(cache') = Len(cache) /\ Len(cache) \in Nat
        /\ cache'[n] = Item(i, q) /\ \A k \in 1..Len(cache) : k # n => cache'[k] = cache[k]
    BY <2>f, <2>s DEF Item, ItemType
  <2>2. Item(i, q).id = i /\ Item(i, q).qual = q
    BY DEF Item
  <2>3. \A k \in 1..Len(cache) : cache'[k].id = cache[k].id /\ (k # n => cache'[k].qual = cache[k].qual)
    BY <2>d, <2>f, <2>1, <2>2
  <2>4. cache' # None
    BY <2>1, NotNone
  <2>5. StoreTypeOK'
    <3>1. db' \in [Id -> Qual \cup {None, Gone}]
      BY <2>s, <2>r DEF TypeOK
    <3>2. failed' \subseteq Id /\ spoiled' \subseteq Id /\ moved' \subseteq Id /\ undone' \in BOOLEAN
      BY <2>s DEF TypeOK
    <3> QED
      BY <2>s, <2>1, <2>f, <3>1, <3>2 DEF StoreTypeOK
  <2>6. Shape'
    BY <2>s, <2>1, <2>4 DEF Agreement, Shape
  <2>7. IndexAgrees'
    BY <2>s, <2>1, <2>3, <2>f DEF Agreement, IndexAgrees
  <2>8. \A j \in Id : idx[j] # 0 => idx[j] \in 1..Len(cache) /\ cache[idx[j]].id = j
    BY <1>2, <2>f DEF Agreement, IndexAgrees, Found
  <2>9. \A j \in Id : j # i => Cached(j)' = Cached(j) /\ Stored(j)' = Stored(j)
    BY <2>s, <2>r, <2>d, <2>3, <2>8 DEF Cached, Stored, TypeOK
  <2>a. Cached(i)' = q /\ q # None
    BY <2>s, <2>d, <2>1, <2>2, <1>2, NoneAssumption DEF Cached, Found
  <2>10. i \in failed' \/ Stored(i)' = q
    <3>1. CASE i \in failed'
      BY <3>1
    <3>2. CASE i \notin failed'
      <4>1. db' = Replaced(w) /\ failed' = failed
        BY <2>s, <3>2
      <4>2. CASE db[i] = None
        <5>1. Stored(i) = None
          BY <4>2, NoneAssumption DEF Stored
        <5>2. i \in failed
          BY <5>1, <2>f, <2>d, <1>2 DEF Agreement, DriftsOnlyWhereFailed, Found
        <5> QED
          BY <5>2, <4>1
      <4>3. CASE db[i] # None
        <5>1. db'[i] = q
          BY <4>1, <4>3, <2>r DEF TypeOK
        <5> QED
          BY <5>1 DEF Stored
      <4> QED
        BY <4>2, <4>3
    <3> QED
      BY <3>1, <3>2
  <2>11. DriftsOnlyWhereFailed'
    <3>1. failed \subseteq failed' /\ idx # None /\ \A j \in Id : j # i /\ j \in spoiled => j \in spoiled'
      BY <2>s, <1>2 DEF Found
    <3>2. \A j \in Id : /\ Cached(j) = None /\ Stored(j) # None => j \in failed
                        /\ Cached(j) # None /\ Stored(j) = None => j \in failed
                        /\ Cached(j) # Stored(j) => j \in failed \cup spoiled \/ Changing(j)
      BY <3>1, <2>f DEF Agreement, DriftsOnlyWhereFailed
    <3> QED
      BY <3>1, <3>2, <2>9, <2>10, <2>a, <2>c DEF DriftsOnlyWhereFailed
  <2>12. QualifierStaleOnlyWhereSet'
    <3>1. ~Broken /\ idx # None
      BY <1>2 DEF Broken, Found
    <3>2. \A k \in 1..Len(cache) : cache[k].id \notin moved => \A p \in Qual : k \in qualIdx[p] <=> cache[k].qual = p
      BY <3>1, <2>f DEF Agreement, QualifierStaleOnlyWhereSet
    <3>3. \A k \in 1..Len(cache) : cache'[k].id \notin moved' => k # n /\ cache[k].id \notin moved
      BY <2>s, <2>3, <2>f, <2>d
    <3> QED
      BY <3>2, <3>3, <2>1, <2>3, <2>s DEF QualifierStaleOnlyWhereSet
  <2> QED
    BY <2>5, <2>6, <2>7, <2>11, <2>12 DEF Agreement
<1> QED
  BY <1>1, <1>2

(* The parser writes into the cached item, or into one that only the       *)
(* callers have.                                                           *)
LEMMA ParseAgrees ==
  ASSUME TypeOK, Agreement, HeldOK, NEW w \in Worker, ParseInput(w), Persists
  PROVE  Agreement' /\ StoreTypeOK'
<1>s. spoiled' \subseteq Id
  BY DEF ParseInput, GiveUp, TypeOK
<1>1. CASE UNCHANGED <<cache, moved>>
  BY <1>1, <1>s, StoreType, AgreementKept DEF ParseInput, CacheKept, caches
<1>2. CASE InCache(w) /\ Written(w)
  <2>0. Found(w)
    BY <1>2 DEF HeldOK, HeldAreCached
  <2>f. /\ cache \in Seq(ItemType) /\ cache # None
        /\ idx \in [Id -> Nat] /\ qualIdx \in [Qual -> SUBSET Nat]
        /\ id[w] \in Id /\ qual[w] \in Qual
        /\ idx[id[w]] \in 1..Len(cache) /\ cache[idx[id[w]]].id = id[w]
        /\ Cached(id[w]) # None
    BY <2>0, FoundAt
  <2>d. PICK n \in 1..Len(cache), i \in Id, q \in Qual :
          n = idx[id[w]] /\ i = id[w] /\ q = qual[w]
    BY <2>f
  <2>s. /\ cache' = [cache EXCEPT ![n] = Item(i, q)]
        /\ moved' = moved \cup {i} /\ UNCHANGED <<db, idx, qualIdx, failed, undone>>
    BY <1>2, <2>d DEF ParseInput, Written
  <2>c. \/ i \in spoiled' \/ Changing(i)'
        \/ UNCHANGED cache /\ UNCHANGED moved
    <3>1. CASE Goto(w, "ensure") /\ UNCHANGED held
      <4>1. held'[w] = {} /\ pc'[w] = "ensure" /\ id'[w] = i
        BY <1>2, <2>d, <3>1 DEF ParseInput, Goto, InCache, TypeOK
      <4> QED
        BY <4>1 DEF Changing, InCache
    <3>2. CASE GiveUp(w, TRUE)
      BY <1>2, <2>d, <3>2 DEF GiveUp
    <3>3. CASE UNCHANGED <<cache, moved>>
      BY <3>3
    <3> QED
      BY <3>1, <3>2, <3>3 DEF ParseInput
  <2>1. /\ cache' \in Seq(ItemType) /\ Len(cache') = Len(cache) /\ Len(cache) \in Nat
        /\ cache'[n] = Item(i, q) /\ \A k \in 1..Len(cache) : k # n => cache'[k] = cache[k]
    BY <2>f, <2>s DEF Item, ItemType
  <2>2. Item(i, q).id = i /\ Item(i, q).qual = q
    BY DEF Item
  <2>3. \A k \in 1..Len(cache) : cache'[k].id = cache[k].id /\ (k # n => cache'[k].qual = cache[k].qual)
    BY <2>d, <2>f, <2>1, <2>2
  <2>4. cache' # None
    BY <2>1, NotNone
  <2>5. StoreTypeOK'
    BY <1>s, <2>s, <2>1, <2>f DEF StoreTypeOK, TypeOK
  <2>6. Shape'
    BY <2>s, <2>1, <2>4 DEF Agreement, Shape
  <2>7. IndexAgrees'
    BY <2>s, <2>1, <2>3, <2>f DEF Agreement, IndexAgrees
  <2>8. \A j \in Id : idx[j] # 0 => idx[j] \in 1..Len(cache) /\ cache[idx[j]].id = j
    BY <2>0, <2>f DEF Agreement, IndexAgrees, Found
  <2>9. \A j \in Id : (j # i => Cached(j)' = Cached(j)) /\ Stored(j)' = Stored(j)
    BY <2>s, <2>d, <2>3, <2>8 DEF Cached, Stored, TypeOK
  <2>a. Cached(i)' = q /\ q # None
    BY <2>s, <2>d, <2>1, <2>2, <2>0, NoneAssumption DEF Cached, Found
  <2>11. DriftsOnlyWhereFailed'
    <3>1. idx # None
      BY <2>0 DEF Found
    <3>2. \A j \in Id : /\ Cached(j) = None /\ Stored(j) # None => j \in failed
                        /\ Cached(j) # None /\ Stored(j) = None => j \in failed
                        /\ Cached(j) # Stored(j) => j \in failed \cup spoiled \/ Changing(j)
      BY <3>1, <2>f DEF Agreement, DriftsOnlyWhereFailed
    <3>3. \A j \in Id : j \in spoiled \/ Changing(j) => j \in spoiled' \/ Changing(j)'
      BY <2>s, <3>1 DEF Persists
    <3>4. Cached(i) # None
      BY <2>f, <2>d
    <3>5. CASE i \in spoiled' \/ Changing(i)'
      BY <3>2, <3>3, <3>4, <3>5, <2>9, <2>a, <2>s DEF DriftsOnlyWhereFailed
    <3>6. CASE UNCHANGED cache
      BY <3>6, <2>s, DriftKept DEF Agreement
    <3> QED
      BY <2>c, <3>5, <3>6
  <2>12. QualifierStaleOnlyWhereSet'
    <3>1. ~Broken /\ idx # None
      BY <2>0 DEF Broken, Found
    <3>2. \A k \in 1..Len(cache) : cache[k].id \notin moved => \A p \in Qual : k \in qualIdx[p] <=> cache[k].qual = p
      BY <3>1, <2>f DEF Agreement, QualifierStaleOnlyWhereSet
    <3>3. \A k \in 1..Len(cache) : cache'[k].id \notin moved' => k # n /\ cache[k].id \notin moved
      BY <2>s, <2>3, <2>f, <2>d
    <3> QED
      BY <3>2, <3>3, <2>1, <2>3, <2>s DEF QualifierStaleOnlyWhereSet
  <2> QED
    BY <2>5, <2>6, <2>7, <2>11, <2>12 DEF Agreement
<1> QED
  BY <1>1, <1>2 DEF ParseInput, Written

(* A call that failed for an item: whatever it did to its document, it is  *)
(* remembered.                                                             *)
LEMMA BlamedAgrees ==
  ASSUME TypeOK, Agreement, NEW i \in Id, NEW d \in Qual \cup {None, Gone},
         UNCHANGED <<cache, idx, qualIdx, spoiled, moved, undone>>, Persists,
         failed' = failed \cup {i}, db' = [db EXCEPT ![i] = d] \/ db' = db
  PROVE  Agreement' /\ StoreTypeOK'
<1>1. StoreTypeOK'
  BY DEF StoreTypeOK, TypeOK, ItemType
<1>2. \A j \in Id : Cached(j)' = Cached(j) /\ (j # i => Stored(j)' = Stored(j))
  BY DEF Cached, Stored, TypeOK
<1>3. Broken' <=> Broken
  BY DEF Broken
<1>4. DriftsOnlyWhereFailed' /\ Shape'
  <2>1. idx # None => \A j \in Id : Changing(j) => Changing(j)' \/ j \in spoiled
    BY DEF Persists
  <2>2. \A j \in Id : j # i => (j \in failed' <=> j \in failed)
    OBVIOUS
  <2>3. DriftsOnlyWhereFailed'
    BY <1>2, <2>1, <2>2 DEF Agreement, DriftsOnlyWhereFailed
  <2> QED
    BY <2>3 DEF Agreement, Shape
<1>5. IndexAgrees' /\ QualifierStaleOnlyWhereSet'
  BY <1>3 DEF Agreement, IndexAgrees, QualifierStaleOnlyWhereSet
<1> QED
  BY <1>1, <1>4, <1>5 DEF Agreement

LEMMA RememberAgrees ==
  ASSUME TypeOK, Agreement, NEW w \in Worker, ~Found(w), db[id[w]] = None, db' = Inserted(w),
         Remember(w), UNCHANGED <<failed, spoiled, moved, undone>>, Persists
  PROVE  Agreement' /\ StoreTypeOK'
<1> DEFINE items == IF cache = None THEN <<>> ELSE cache
           n == Len(items) + 1
<1>d. PICK i \in Id, q \in Qual : i = id[w] /\ q = qual[w]
  BY DEF TypeOK
<1>i. items \in Seq(ItemType) /\ Len(items) \in Nat /\ n \in Nat
  BY DEF TypeOK, ItemType
<1>q. Item(i, q) \in ItemType /\ Item(i, q).id = i /\ Item(i, q).qual = q
  BY DEF Item, ItemType
<1>1. cache' = Append(items, Item(i, q))
  BY <1>d DEF Remember
<1>2. /\ cache' \in Seq(ItemType) /\ Len(cache') = n /\ cache'[n] = Item(i, q)
      /\ \A k \in 1..Len(items) : cache'[k] = items[k]
  BY <1>1, <1>i, <1>q
<1>3. cache' # None
  BY <1>2, NotNone
<1>4. db' = [db EXCEPT ![i] = q] /\ db \in [Id -> Qual \cup {None, Gone}]
  BY <1>d DEF Inserted, TypeOK
<1>5. qualIdx' = qualIdx \/ (qualIdx # None /\ qualIdx' = [qualIdx EXCEPT ![q] = @ \cup {n}])
  BY <1>d DEF Remember, Indexed, Agreement, Shape
<1>6. idx' = idx \/ (idx # None /\ idx' = [idx EXCEPT ![i] = n])
  BY <1>d DEF Remember
<1>7. StoreTypeOK'
  BY <1>2, <1>4, <1>5, <1>6, <1>i DEF StoreTypeOK, TypeOK
<1>8. CASE idx = None
  <2>1. idx' = None
    BY <1>8 DEF Remember
  <2> QED
    BY <2>1, <1>7, AgreementWithout
<1>9. CASE idx # None
  <2>1. cache # None /\ items = cache /\ qualIdx # None
    BY <1>9 DEF Agreement, Shape
  <2>2. idx' = [idx EXCEPT ![i] = n] /\ qualIdx' = [qualIdx EXCEPT ![q] = @ \cup {n}]
    BY <1>9, <1>d DEF Remember, Indexed
  <2>3. idx \in [Id -> Nat] /\ qualIdx \in [Qual -> SUBSET Nat] /\ cache \in Seq(ItemType)
    BY <1>9, <2>1 DEF TypeOK, ItemType
  <2>4. \A j \in Id : idx[j] # 0 => idx[j] \in 1..Len(cache) /\ cache[idx[j]].id = j
    BY <1>9, <2>1 DEF Agreement, IndexAgrees
  <2>5. \A k \in 1..Len(cache) : idx[cache[k].id] = k /\ cache[k].id \in Id
    BY <1>9, <2>1, <2>3, ItemAt DEF Agreement, IndexAgrees
  <2>6. idx[i] = 0
    BY <1>9, <1>d DEF Found
  <2> HIDE DEF items, n
  <2>7. n = Len(cache) + 1 /\ Len(cache) \in Nat /\ Len(cache') = n
        /\ \A k \in 1..Len(cache) : cache'[k] = cache[k]
    BY <1>i, <1>2, <2>1 DEF n
  <2>8. idx' # None /\ qualIdx' # None
    <3>1. idx' \in [Id -> Nat] /\ qualIdx' \in [Qual -> SUBSET Nat]
      BY <2>2, <2>3, <1>i
    <3> QED
      BY <3>1, NotNone
  <2>9. \A p \in Qual : qualIdx[p] \subseteq 1..Len(cache)
    BY <1>9 DEF Agreement, Shape
  <2>10. Shape'
    <3>1. \A p \in Qual : qualIdx'[p] \subseteq qualIdx[p] \cup {n}
      BY <2>2, <2>3
    <3>2. 1..Len(cache) \cup {n} \subseteq 1..Len(cache')
      BY <2>7
    <3> QED
      BY <1>3, <2>8, <2>9, <3>1, <3>2 DEF Shape
  <2>11. IndexAgrees'
    <3>1. \A j \in Id : idx'[j] # 0 => idx'[j] \in 1..Len(cache') /\ cache'[idx'[j]].id = j
      BY <2>2, <2>3, <2>4, <2>7, <1>2, <1>q
    <3>2. ASSUME NEW k \in 1..Len(cache') PROVE idx'[cache'[k].id] = k
      <4>1. CASE k = n
        BY <4>1, <1>2, <1>q, <2>2, <2>3
      <4>2. CASE k # n
        <5>1. k \in 1..Len(cache)
          BY <4>2, <2>7
        <5>2. cache[k].id # i
          BY <5>1, <2>5, <2>6
        <5> QED
          BY <5>1, <5>2, <2>2, <2>3, <2>5, <2>7
      <4> QED
        BY <4>1, <4>2
    <3> QED
      BY <3>1, <3>2 DEF IndexAgrees
  <2>12. DriftsOnlyWhereFailed'
    <3>1. Cached(i)' = q /\ Stored(i)' = q
      BY <1>2, <1>4, <1>q, <1>i, <2>2, <2>3, <2>7 DEF Cached, Stored
    <3>2. \A j \in Id : j # i => Cached(j)' = Cached(j) /\ Stored(j)' = Stored(j)
      BY <1>4, <2>2, <2>3, <2>4, <2>7 DEF Cached, Stored
    <3>3. \A j \in Id : /\ Cached(j) = None /\ Stored(j) # None => j \in failed
                        /\ Cached(j) # None /\ Stored(j) = None => j \in failed
                        /\ Cached(j) # Stored(j) => j \in failed \cup spoiled \/ Changing(j)
      BY <1>9, <2>1 DEF Agreement, DriftsOnlyWhereFailed
    <3>4. \A j \in Id : Changing(j) => Changing(j)' \/ j \in spoiled
      BY <2>8 DEF Persists
    <3>5. q # None
      BY NoneAssumption
    <3> QED
      BY <3>1, <3>2, <3>3, <3>4, <3>5 DEF DriftsOnlyWhereFailed
  <2>13. QualifierStaleOnlyWhereSet'
    <3>1. \A k \in 1..Len(cache) : cache[k].id \notin moved => \A p \in Qual : k \in qualIdx[p] <=> cache[k].qual = p
      BY <1>9, <2>1 DEF Agreement, QualifierStaleOnlyWhereSet, Broken
    <3>2. \A p \in Qual : n \in qualIdx'[p] <=> p = q
      BY <2>2, <2>3, <2>7, <2>9
    <3>3. \A p \in Qual : \A k \in 1..Len(cache) : k \in qualIdx'[p] <=> k \in qualIdx[p]
      BY <2>2, <2>3, <2>7
    <3>4. ASSUME NEW k \in 1..Len(cache'), cache'[k].id \notin moved', NEW p \in Qual
          PROVE  k \in qualIdx'[p] <=> cache'[k].qual = p
      <4>1. CASE k = n
        BY <4>1, <3>2, <1>2, <1>q
      <4>2. CASE k # n
        BY <4>2, <3>1, <3>3, <3>4, <2>7
      <4> QED
        BY <4>1, <4>2
    <3> QED
      BY <3>4 DEF QualifierStaleOnlyWhereSet
  <2> QED
    BY <1>7, <2>10, <2>11, <2>12, <2>13 DEF Agreement
<1> QED
  BY <1>8, <1>9

LEMMA NewAgrees ==
  ASSUME TypeOK, Agreement, NEW w \in Worker, New(w), Persists
  PROVE  Agreement' /\ StoreTypeOK'
<1>i. id[w] \in Id /\ qual[w] \in Qual
  BY DEF TypeOK
<1>1. CASE UNCHANGED <<db, caches, failed>>
  BY <1>1, StoreType, AgreementKept DEF New, CacheKept, StoreTypeOK
<1>2. CASE (db' = Inserted(w) \/ UNCHANGED db) /\ UNCHANGED caches /\ Failed(w)
  BY <1>i, <1>2, BlamedAgrees DEF New, Failed, Inserted, caches
<1>3. CASE ~Found(w) /\ db[id[w]] = None /\ db' = Inserted(w) /\ Remember(w) /\ UNCHANGED failed
  BY <1>3, RememberAgrees DEF New
<1> QED
  BY <1>1, <1>2, <1>3 DEF New

LEMMA DeleteAgrees ==
  ASSUME TypeOK, Agreement, NEW w \in Worker, Delete(w), Persists
  PROVE  Agreement' /\ StoreTypeOK'
<1>i. id[w] \in Id
  BY DEF TypeOK
<1>r. Removed(w) = db \/ \E d \in {Gone, None} : Removed(w) = [db EXCEPT ![id[w]] = d]
  BY DEF Removed
<1>n. idx' = None /\ StoreTypeOK' => Agreement' /\ StoreTypeOK'
  BY AgreementWithout
<1>1. CASE ~Found(w)
  <2>1. CacheKept /\ spoiled' = spoiled
    BY <1>1 DEF Delete, CacheKept, caches
  <2>2. StoreTypeOK'
    BY <2>1, StoreType DEF CacheKept, caches, StoreTypeOK
  <2> QED
    BY <1>n, <2>1, <2>2, StoreType, AgreementKept DEF StoreTypeOK
<1>2. CASE db' = Removed(w) /\ cache' = None /\ idx' = None /\ undone' = TRUE /\ UNCHANGED failed
  <2>1. StoreTypeOK'
    BY <1>2, <1>i, <1>r DEF Delete, StoreTypeOK, TypeOK
  <2> QED
    BY <1>2, <2>1, AgreementWithout
<1>3. CASE (db' = Removed(w) \/ UNCHANGED db) /\ UNCHANGED <<cache, idx, undone>> /\ Failed(w)
  <2>1. UNCHANGED <<cache, idx, qualIdx, spoiled, moved, undone>> /\ failed' = failed \cup {id[w]}
    BY <1>3 DEF Delete, Failed
  <2>2. PICK d \in {Gone, None} : db' = [db EXCEPT ![id[w]] = d] \/ db' = db
    BY <1>3, <1>r
  <2>3. StoreTypeOK'
    BY <1>i, <2>1, <2>2, StoreType DEF StoreTypeOK
  <2> QED
    BY <1>n, <1>i, <2>1, <2>2, <2>3, BlamedAgrees
<1> QED
  BY <1>1, <1>2, <1>3 DEF Delete, Emptied

-----------------------------------------------------------------------------
(* A Change in the cached item goes on, or what it leaves is remembered,   *)
(* but when its item is set or the cache is dropped.                       *)
LEMMA ChangesPersist ==
  ASSUME TypeOK, HeldOK, NEW w \in Worker, NEW i \in Id, Changing(i),
         \/ Step(w) /\ ~(Set(w) /\ Found(w) /\ id[w] = i)
         \/ \E o \in Ops, j \in Id, q \in Qual : Call(w, o, j, q)
  PROVE  Changing(i)' \/ i \in spoiled' \/ idx' = None
<1> PICK v \in Worker : held[v] = {} /\ id[v] = i /\ pc[v] # "parse"
  BY DEF Changing, InCache
<1>0. /\ held[v] # None /\ pc[v] # "idle" /\ op[v] = "Change" /\ Found(v)
      /\ held \in [Worker -> {None} \cup (SUBSET Worker)] /\ id \in [Worker -> Id]
      /\ pc \in [Worker -> {"idle", "ensure", "load", "act", "parse"}]
  BY NotNone DEF HeldOK, HeldAreCached, InCache, TypeOK
<1>g. held'[v] = {} /\ id'[v] = i /\ pc'[v] # "parse" => Changing(i)'
  BY DEF Changing, InCache
<1>2. ASSUME NEW o \in Ops, NEW j \in Id, NEW q \in Qual, Call(w, o, j, q)
      PROVE  Changing(i)'
  <2>1. w # v
    BY <1>0, <1>2 DEF Call
  <2> QED
    BY <1>0, <1>2, <1>g, <2>1 DEF Call, Goto
<1>4. CASE EnsureCache(w) \/ Load(w) \/ GetAll(w) \/ New(w)
  <2>1. UNCHANGED <<held, id>>
    BY <1>4 DEF EnsureCache, Load, GetAll, New
  <2>2. \E l \in {"load", "act", "idle"} : Goto(w, l)
    <3>1. CASE EnsureCache(w) \/ Load(w)
      BY <3>1 DEF EnsureCache, Load
    <3>2. CASE GetAll(w)
      BY <3>2 DEF GetAll, Return
    <3>3. CASE New(w)
      BY <3>3 DEF New, Remember, Return
    <3> QED
      BY <1>4, <3>1, <3>2, <3>3
  <2> QED
    BY <1>0, <1>g, <2>1, <2>2 DEF Goto
<1>5. CASE Get(w)
  <2>1. CASE w # v
    <3>1. held'[v] = held[v] /\ pc'[v] = pc[v] /\ id' = id
      <4>1. (UNCHANGED held \/ Drop(w) \/ held' = [held EXCEPT ![w] = {}]) /\ id' = id
        BY <1>5 DEF Get
      <4>2. \E l \in {"idle", "parse", "ensure"} : Goto(w, l)
        BY <1>5 DEF Get, Return
      <4> QED
        BY <1>0, <2>1, <4>1, <4>2 DEF Drop, Goto
    <3> QED
      BY <1>g, <3>1
  <2>2. CASE w = v
    <3>1. UNCHANGED <<held, id>> /\ (Goto(w, "idle") \/ Goto(w, "ensure"))
      BY <1>0, <1>5, <2>2 DEF Get, Return
    <3> QED
      BY <1>0, <1>g, <2>2, <3>1 DEF Goto
  <2> QED
    BY <2>1, <2>2
<1>6. CASE ParseInput(w)
  <2>1. w # v /\ id' = id
    BY <1>6 DEF ParseInput
  <2>2. (UNCHANGED held \/ Drop(w)) /\ (Goto(w, "ensure") \/ Goto(w, "idle"))
    BY <1>6 DEF ParseInput, Return, GiveUp
  <2> QED
    BY <1>0, <1>g, <2>1, <2>2 DEF Drop, Goto
<1>7. CASE Refuse(w)
  <2>1. Drop(w) /\ Goto(w, "idle") /\ id' = id
    BY <1>7 DEF Refuse, Return, GiveUp
  <2>2. CASE w = v
    BY <1>7, <2>2 DEF Refuse, GiveUp, InCache
  <2>3. CASE w # v
    BY <1>0, <1>g, <2>1, <2>3 DEF Drop, Goto
  <2> QED
    BY <2>2, <2>3
<1>8. CASE Set(w) /\ ~(Found(w) /\ id[w] = i)
  <2>1. w # v
    BY <1>0, <1>8
  <2>2. Goto(w, "idle") /\ id' = id
    BY <1>8 DEF Set, Return
  <2>3. held'[v] = held[v]
    <3>1. CASE Drop(w)
      BY <1>0, <2>1, <3>1 DEF Drop
    <3>2. CASE Found(w) /\ ~InCache(w) /\ Exchanged(w)
      <4>1. v \notin Sharing(id[w]) /\ held[v] # held[w]
        BY <1>8, <3>2 DEF Sharing, InCache
      <4> QED
        BY <3>2, <2>1, <4>1 DEF Exchanged
    <3> QED
      BY <1>8, <3>1, <3>2 DEF Set, Exchanged
  <2> QED
    BY <1>0, <1>g, <2>1, <2>2, <2>3 DEF Goto
<1>9. CASE Delete(w)
  <2>1. (UNCHANGED held \/ idx' = None) /\ Goto(w, "idle") /\ id' = id
    BY <1>9 DEF Delete, Emptied, Return
  <2> QED
    BY <1>0, <1>g, <2>1 DEF Goto
<1> QED
  BY <1>2, <1>4, <1>5, <1>6, <1>7, <1>8, <1>9 DEF Step

LEMMA StepPersists ==
  ASSUME TypeOK, HeldOK, NEW w \in Worker,
         \/ Step(w) /\ ~(Set(w) /\ Found(w)) /\ ~(Load(w) /\ ~NotLoaded)
         \/ \E o \in Ops, j \in Id, q \in Qual : Call(w, o, j, q)
  PROVE  Persists /\ spoiled' \subseteq Id
<1>1. spoiled \subseteq spoiled' /\ spoiled' \subseteq Id
  <2>1. CASE Step(w)
    <3>1. UNCHANGED spoiled \/ spoiled' = spoiled \cup {id[w]}
      <4>1. CASE ParseInput(w) \/ Refuse(w)
        BY <4>1 DEF ParseInput, Refuse, GiveUp
      <4>2. CASE EnsureCache(w) \/ Load(w) \/ Get(w) \/ GetAll(w)
        <5>1. CASE Load(w)
          <6>1. NotLoaded
            BY <5>1 DEF Call, Load
          <6> QED
            BY <6>1 DEF NotLoaded
        <5>2. CASE EnsureCache(w) \/ Get(w) \/ GetAll(w)
          BY <5>2 DEF EnsureCache, Get, GetAll
        <5> QED
          BY <4>2, <5>1, <5>2
      <4>3. CASE New(w) \/ Delete(w) \/ Set(w)
        <5>1. CASE New(w) \/ Delete(w)
          BY <5>1 DEF New, Delete
        <5>2. CASE Set(w)
          <6>1. ~Found(w)
            BY <5>2 DEF Call, Set
          <6> QED
            BY <5>2, <6>1 DEF Set
        <5> QED
          BY <4>3, <5>1, <5>2
      <4> QED
        BY <2>1, <4>1, <4>2, <4>3 DEF Step
    <3> QED
      BY <3>1 DEF TypeOK
  <2>2. ASSUME NEW o \in Ops, NEW j \in Id, NEW q \in Qual, Call(w, o, j, q)
        PROVE  spoiled \subseteq spoiled' /\ spoiled' \subseteq Id
    BY <2>2 DEF Call, TypeOK
  <2> QED
    BY <2>1, <2>2
<1>2. \A i \in Id : Changing(i) => Changing(i)' \/ i \in spoiled' \/ idx' = None
  BY ChangesPersist
<1> QED
  BY <1>1, <1>2 DEF Persists

LEMMA AgreementStep ==
  ASSUME TypeOK, Agreement, HeldOK, [Next]_vars
  PROVE  Agreement' /\ StoreTypeOK'
<1>k. CacheKept /\ spoiled' \subseteq Id /\ Persists => Agreement' /\ StoreTypeOK'
  <2> SUFFICES ASSUME CacheKept, spoiled' \subseteq Id, Persists
               PROVE  Agreement' /\ StoreTypeOK'
    OBVIOUS
  <2> QED
    BY StoreType, AgreementKept
<1>1. CASE UNCHANGED vars
  <2>1. CacheKept /\ UNCHANGED <<spoiled, held, id, pc>>
    BY <1>1 DEF vars, CacheKept
  <2>2. Persists
    BY <2>1 DEF Persists, Changing, InCache
  <2> QED
    BY <1>k, <2>1, <2>2 DEF TypeOK
<1>2. ASSUME NEW w \in Worker, NEW o \in Ops, NEW i \in Id, NEW q \in Qual, Call(w, o, i, q)
      PROVE  Agreement' /\ StoreTypeOK'
  <2>1. CacheKept
    BY <1>2 DEF Call, CacheKept
  <2> QED
    BY <1>2, <1>k, <2>1, StepPersists
<1>3. CASE Crash
  <2>1. StoreTypeOK'
    BY <1>3 DEF Crash, StoreTypeOK, TypeOK
  <2> QED
    BY <1>3, <2>1, AgreementWithout DEF Crash
<1>4. ASSUME NEW w \in Worker, EnsureCache(w) \/ Get(w) \/ GetAll(w) \/ Refuse(w)
      PROVE  Agreement' /\ StoreTypeOK'
  <2>1. CacheKept
    BY <1>4 DEF EnsureCache, Get, GetAll, Refuse, CacheKept
  <2>2. pc[w] # "load" /\ ~(Set(w) /\ Found(w))
    <3>1. CASE EnsureCache(w) \/ Refuse(w)
      BY <3>1 DEF EnsureCache, Refuse, Set
    <3>2. CASE GetAll(w)
      BY <3>2 DEF GetAll, Act, Set
    <3>3. CASE Get(w)
      BY <3>3 DEF Get, Set
    <3> QED
      BY <1>4, <3>1, <3>2, <3>3
  <2> QED
    BY <1>4, <1>k, <2>1, <2>2, StepPersists DEF Step, Load
<1>5. ASSUME NEW w \in Worker, Load(w) PROVE Agreement' /\ StoreTypeOK'
  <2>1. ~Set(w)
    BY <1>5 DEF Load, Set
  <2>2. NotLoaded => Persists
    BY <1>5, <2>1, StepPersists DEF Step
  <2> QED
    BY <1>5, <2>2, LoadAgrees
<1>6. ASSUME NEW w \in Worker, Set(w) PROVE Agreement' /\ StoreTypeOK'
  <2>1. \A j \in Id : (j # id[w] \/ ~Found(w)) /\ Changing(j) =>
        Changing(j)' \/ j \in spoiled' \/ idx' = None
    BY <1>6, ChangesPersist DEF Step
  <2>2. idx' = idx
    BY <1>6 DEF Set
  <2> QED
    BY <1>6, <2>1, <2>2, SetAgrees
<1>7. ASSUME NEW w \in Worker, New(w) PROVE Agreement' /\ StoreTypeOK'
  <2>1. ~Set(w) /\ ~Load(w)
    BY <1>7 DEF New, Act, Set, Load
  <2> QED
    BY <1>7, <2>1, StepPersists, NewAgrees DEF Step
<1>8. ASSUME NEW w \in Worker, Delete(w) PROVE Agreement' /\ StoreTypeOK'
  <2>1. ~Set(w) /\ ~Load(w)
    BY <1>8 DEF Delete, Act, Set, Load
  <2> QED
    BY <1>8, <2>1, StepPersists, DeleteAgrees DEF Step
<1>9. ASSUME NEW w \in Worker, ParseInput(w) PROVE Agreement' /\ StoreTypeOK'
  <2>1. ~Set(w) /\ ~Load(w)
    BY <1>9 DEF ParseInput, Set, Load
  <2> QED
    BY <1>9, <2>1, StepPersists, ParseAgrees DEF Step
<1> QED
  BY <1>1, <1>2, <1>3, <1>4, <1>5, <1>6, <1>7, <1>8, <1>9 DEF Next, Step

-----------------------------------------------------------------------------
(* Where the callers are.                                                  *)
CallerTypeOK ==
  /\ pc \in [Worker -> {"idle", "ensure", "load", "act", "parse"}]
  /\ op \in [Worker -> OpKinds] /\ id \in [Worker -> Id] /\ qual \in [Worker -> Qual]
  /\ held \in [Worker -> {None} \cup (SUBSET Worker)]
  /\ checked \in [Worker -> BOOLEAN] /\ calls \in 0..MaxCalls

LEMMA CallerType ==
  ASSUME TypeOK, Agreement, HeldOK, [Next]_vars
  PROVE  CallerTypeOK'
<1> USE DEF TypeOK
<1>q. \A v \in Worker : InCache(v) => cache[idx[id[v]]].qual \in Qual
  BY FoundAt, ItemAt DEF HeldOK, HeldAreCached
<1>s. \A i : Sharing(i) \in SUBSET Worker
  BY DEF Sharing
<1>g. \A w \in Worker : Drop(w) => held' \in [Worker -> {None} \cup (SUBSET Worker)]
  BY DEF Drop
<1>1. CASE UNCHANGED vars
  BY <1>1 DEF vars, CallerTypeOK
<1>2. ASSUME NEW w \in Worker, NEW o \in Ops, NEW i \in Id, NEW q \in Qual, Call(w, o, i, q)
      PROVE  CallerTypeOK'
  BY <1>2, KindAssumption, BoundAssumption DEF Call, Goto, CallerTypeOK
<1>3. CASE Crash
  BY <1>3 DEF Crash, CallerTypeOK
<1>4. ASSUME NEW w \in Worker, Step(w) PROVE CallerTypeOK'
  <2>0. UNCHANGED <<op, id, calls>>
    BY <1>4 DEF Step, EnsureCache, Load, ParseInput, Refuse, Get, GetAll, Set, New, Delete
  <2>1. pc' \in [Worker -> {"idle", "ensure", "load", "act", "parse"}]
    <3>1. PICK l \in {"idle", "ensure", "load", "act", "parse"} : Goto(w, l)
      <4>1. CASE EnsureCache(w) \/ Load(w)
        BY <4>1 DEF EnsureCache, Load
      <4>2. CASE Get(w) \/ ParseInput(w) \/ Refuse(w)
        BY <4>2 DEF Get, ParseInput, Refuse, Return
      <4>3. CASE GetAll(w) \/ Set(w) \/ Delete(w)
        BY <4>3 DEF GetAll, Set, Delete, Return
      <4>4. CASE New(w)
        BY <4>4 DEF New, Remember, Return
      <4> QED
        BY <1>4, <4>1, <4>2, <4>3, <4>4 DEF Step
    <3> QED
      BY <3>1 DEF Goto
  <2>2. checked' \in [Worker -> BOOLEAN]
    <3>1. UNCHANGED checked \/ checked' = [checked EXCEPT ![w] = TRUE]
      BY <1>4 DEF Step, EnsureCache, Load, ParseInput, Refuse, Get, GetAll, Set, New, Delete
    <3> QED
      BY <3>1
  <2>3. held' \in [Worker -> {None} \cup (SUBSET Worker)]
    <3>1. CASE Get(w) \/ ParseInput(w) \/ Refuse(w)
      <4>1. UNCHANGED held \/ Drop(w) \/ held' = [held EXCEPT ![w] = {}]
        BY <3>1 DEF Get, ParseInput, Refuse, GiveUp
      <4> QED
        BY <1>g, <4>1
    <3>2. CASE EnsureCache(w) \/ Load(w) \/ GetAll(w) \/ New(w)
      BY <3>2 DEF EnsureCache, Load, GetAll, New
    <3>3. CASE Set(w)
      <4>1. CASE Drop(w)
        BY <1>g, <4>1
      <4>2. CASE Exchanged(w) /\ ~InCache(w)
        <5>1. held' = [v \in Worker |->
                         CASE v = w -> None
                           [] v # w /\ v \in Sharing(id[w]) -> Sharing(id[w])
                           [] v # w /\ held[w] # None /\ held[v] = held[w] -> {}
                           [] OTHER -> held[v]]
          BY <4>2 DEF Exchanged
        <5>2. \A v \in Worker : held'[v] = None \/ held'[v] = Sharing(id[w]) \/ held'[v] = {} \/ held'[v] = held[v]
          BY <5>1
        <5> QED
          BY <1>s, <5>1, <5>2
      <4> QED
        BY <3>3, <4>1, <4>2 DEF Set, Exchanged
    <3>4. CASE Delete(w)
      <4>1. UNCHANGED held \/ held' = [v \in Worker |-> IF InCache(v) THEN Sharing(id[v]) ELSE held[v]]
        BY <3>4 DEF Delete, Emptied
      <4>2. \A v \in Worker : (IF InCache(v) THEN Sharing(id[v]) ELSE held[v]) \in {None} \cup (SUBSET Worker)
        BY <1>s
      <4> QED
        BY <4>1, <4>2
    <3> QED
      BY <1>4, <3>1, <3>2, <3>3, <3>4 DEF Step
  <2>4. qual' \in [Worker -> Qual]
    <3>1. CASE EnsureCache(w) \/ Load(w) \/ Get(w) \/ GetAll(w) \/ New(w) \/ Refuse(w)
      BY <3>1 DEF EnsureCache, Load, Get, GetAll, New, Refuse
    <3>2. CASE ParseInput(w)
      <4>1. UNCHANGED qual \/ qual' = [v \in Worker |-> IF held[v] = held[w] /\ pc[v] # "parse" THEN qual[w] ELSE qual[v]]
        BY <3>2 DEF ParseInput, Written
      <4> QED
        BY <4>1
    <3>3. CASE Set(w)
      <4>1. \/ UNCHANGED qual
            \/ qual' = [v \in Worker |-> IF v \in Sharing(id[w]) /\ pc[v] # "parse" THEN cache[idx[id[w]]].qual ELSE qual[v]]
        BY <3>3 DEF Set, Exchanged
      <4>2. \A v \in Sharing(id[w]) : v \in Worker /\ InCache(v) /\ id[v] = id[w]
        BY DEF Sharing, InCache
      <4> QED
        BY <1>q, <4>1, <4>2
    <3>4. CASE Delete(w)
      <4>1. \/ UNCHANGED qual
            \/ qual' = [v \in Worker |-> IF InCache(v) /\ pc[v] # "parse" THEN cache[idx[id[v]]].qual ELSE qual[v]]
        BY <3>4 DEF Delete, Emptied
      <4> QED
        BY <1>q, <4>1
    <3> QED
      BY <1>4, <3>1, <3>2, <3>3, <3>4 DEF Step
  <2> QED
    BY <2>0, <2>1, <2>2, <2>3, <2>4 DEF CallerTypeOK
<1> QED
  BY <1>1, <1>2, <1>3, <1>4 DEF Next

LEMMA AgreementNext ==
  ASSUME TypeOK, Agreement, HeldOK, [Next]_vars
  PROVE  Agreement' /\ TypeOK'
<1>1. Agreement' /\ StoreTypeOK'
  BY AgreementStep
<1> QED
  BY <1>1, CallerType DEF CallerTypeOK, StoreTypeOK, TypeOK, ItemType

(* Who has an object, and which.                                           *)
LEMMA HeldKept ==
  ASSUME HeldOK, UNCHANGED <<id, op, pc, held>>, \A w \in Worker : InCache(w) /\ Found(w) => Found(w)'
  PROVE  HeldOK'
<1>1. HeldAreCached'
  BY DEF HeldOK, HeldAreCached, InCache
<1> QED
  BY <1>1 DEF HeldOK

LEMMA HeldNext ==
  ASSUME TypeOK, Agreement, HeldOK, [Next]_vars
  PROVE  HeldOK'
<1>0. /\ held \in [Worker -> {None} \cup (SUBSET Worker)] /\ id \in [Worker -> Id]
      /\ pc \in [Worker -> {"idle", "ensure", "load", "act", "parse"}] /\ op \in [Worker -> OpKinds]
      /\ None # {}
  BY NotNone DEF TypeOK
<1>h. /\ \A w \in Worker : held[w] # None => pc[w] # "idle" /\ op[w] = "Change"
      /\ \A w \in Worker : held[w] # None /\ held[w] # {} => w \in held[w]
      /\ \A v, w \in Worker : held[v] = held[w] /\ held[w] # None /\ held[w] # {} => id[v] = id[w]
      /\ \A w \in Worker : held[w] = {} => Found(w)
  BY DEF HeldOK, HeldAreCached, InCache
\* One worker moves, and keeps its object, drops it or takes the cached one.
<1>m. ASSUME NEW w \in Worker, NEW l \in {"idle", "ensure", "load", "act", "parse"}, Goto(w, l),
             UNCHANGED <<id, op>>,
             \/ UNCHANGED held /\ (held[w] = None \/ l # "idle")
             \/ Drop(w)
             \/ held' = [held EXCEPT ![w] = {}] /\ l # "idle" /\ op[w] = "Change" /\ Found(w),
             \A v \in Worker : held'[v] = {} /\ Found(v) => Found(v)'
      PROVE  HeldOK'
  <2>1. \A v \in Worker : v # w => held'[v] = held[v] /\ pc'[v] = pc[v]
    BY <1>0, <1>m DEF Drop, Goto
  <2>2. pc'[w] = l /\ ((held'[w] = held[w] /\ (held[w] = None \/ l # "idle")) \/ held'[w] = None
                         \/ (held'[w] = {} /\ l # "idle" /\ op[w] = "Change" /\ Found(w)))
    BY <1>0, <1>m DEF Drop, Goto
  <2>3. \A v \in Worker : held'[v] # None => pc'[v] # "idle" /\ op'[v] = "Change"
    BY <1>h, <1>m, <2>1, <2>2
  <2>4. \A v \in Worker : held'[v] # None /\ held'[v] # {} => held'[v] = held[v]
    BY <2>1, <2>2
  <2>5. \A v \in Worker : held'[v] = {} => Found(v)'
    <3> SUFFICES ASSUME NEW v \in Worker, held'[v] = {} PROVE Found(v)'
      OBVIOUS
    <3>1. Found(v)
      BY <1>0, <1>h, <2>1, <2>2
    <3> QED
      BY <1>m, <3>1
  <2> QED
    BY <1>h, <1>m, <2>3, <2>4, <2>5 DEF HeldOK, HeldAreCached, InCache
<1>c. UNCHANGED caches => \A v \in Worker : UNCHANGED id => (Found(v) <=> Found(v)')
  BY DEF caches, Found
<1>1. CASE UNCHANGED vars
  BY <1>1, HeldKept DEF vars, caches, Found
<1>2. ASSUME NEW w \in Worker, NEW o \in Ops, NEW i \in Id, NEW q \in Qual, Call(w, o, i, q)
      PROVE  HeldOK'
  <2>1. held[w] = None
    BY <1>h, <1>2 DEF Call
  <2>2. UNCHANGED <<held, caches>> /\ \A v \in Worker : v # w => id'[v] = id[v] /\ op'[v] = op[v] /\ pc'[v] = pc[v]
    BY <1>0, <1>2 DEF Call, Goto
  <2>3. \A v \in Worker : v # w /\ Found(v) => Found(v)'
    BY <2>2 DEF Found, caches
  <2> QED
    BY <1>0, <1>h, <2>1, <2>2, <2>3 DEF HeldOK, HeldAreCached, InCache
<1>3. CASE Crash
  BY <1>0, <1>3 DEF Crash, HeldOK, HeldAreCached, InCache
<1>4. ASSUME NEW w \in Worker, EnsureCache(w) PROVE HeldOK'
  <2>1. PICK l \in {"load", "act"} : Goto(w, l)
    BY <1>4 DEF EnsureCache
  <2> QED
    BY <1>4, <1>c, <1>m, <2>1 DEF EnsureCache
<1>5. ASSUME NEW w \in Worker, Load(w) PROVE HeldOK'
  <2>1. \A v \in Worker : held'[v] = {} /\ Found(v) => Found(v)'
    <3>1. CASE NotLoaded
      BY <1>5, <1>c, <3>1 DEF NotLoaded, Load
    <3>2. CASE cache = None
      BY <3>2 DEF Agreement, Shape, Found
    <3> QED
      BY <1>5, <3>1, <3>2 DEF Load
  <2> QED
    BY <1>5, <1>m, <2>1 DEF Load
<1>6. ASSUME NEW w \in Worker, Get(w) PROVE HeldOK'
  <2>1. UNCHANGED <<id, op>> /\ \A v \in Worker : Found(v) <=> Found(v)'
    BY <1>6, <1>c DEF Get
  <2>2. CASE Return(w, "not found") /\ Drop(w)
    BY <1>m, <2>1, <2>2 DEF Return
  <2>3. CASE op[w] = "Get" /\ Return(w, "ok") /\ UNCHANGED held
    BY <1>h, <1>m, <2>1, <2>3 DEF Return
  <2>4. CASE Found(w) /\ op[w] = "Change" /\ held' = [held EXCEPT ![w] = {}] /\ Goto(w, "parse")
    BY <1>m, <2>1, <2>4
  <2>5. CASE Goto(w, "ensure") /\ UNCHANGED held
    BY <1>m, <2>1, <2>5
  <2> QED
    BY <1>6, <2>2, <2>3, <2>4, <2>5 DEF Get
<1>7. ASSUME NEW w \in Worker, ParseInput(w) \/ Refuse(w) PROVE HeldOK'
  <2>1. UNCHANGED <<id, idx>> /\ UNCHANGED op
    BY <1>7 DEF ParseInput, Refuse, caches
  <2>2. \A v \in Worker : Found(v) => Found(v)'
    BY <2>1 DEF Found
  <2>3. (Goto(w, "ensure") /\ UNCHANGED held) \/ (Goto(w, "idle") /\ Drop(w))
    BY <1>7 DEF ParseInput, Refuse, Return, GiveUp
  <2> QED
    BY <1>m, <2>1, <2>2, <2>3
<1>8. ASSUME NEW w \in Worker, GetAll(w) PROVE HeldOK'
  <2>1. held[w] = None
    BY <1>h, <1>8 DEF GetAll, Act
  <2> QED
    BY <1>8, <1>c, <1>m, <2>1 DEF GetAll, Return
<1>9. ASSUME NEW w \in Worker, New(w) PROVE HeldOK'
  <2>1. held[w] = None
    BY <1>h, <1>9 DEF New, Act
  <2>2. Goto(w, "idle")
    BY <1>9 DEF New, Remember, Return
  <2>3. \A v \in Worker : Found(v) => Found(v)'
    <3>1. CASE UNCHANGED caches
      BY <1>9, <1>c, <3>1 DEF New
    <3>2. CASE Remember(w)
      <4> SUFFICES ASSUME NEW v \in Worker, Found(v) PROVE Found(v)'
        OBVIOUS
      <4>1. idx # None /\ idx \in [Id -> Nat] /\ cache \in Seq(ItemType) /\ cache # None
        BY DEF Found, TypeOK, Agreement, Shape, ItemType
      <4>2. idx' = [idx EXCEPT ![id[w]] = Len(cache) + 1] /\ Len(cache) \in Nat /\ id' = id
        BY <1>9, <3>2, <4>1 DEF Remember, New
      <4>3. idx' \in [Id -> Nat]
        <5>1. Len(cache) + 1 \in Nat
          BY <4>2
        <5>2. PICK n \in Nat : idx' = [idx EXCEPT ![id[w]] = n]
          BY <4>2, <5>1
        <5> QED
          BY <4>1, <5>2
      <4>4. idx' # None
        BY <4>3, NotNone
      <4> QED
        BY <1>0, <4>1, <4>2, <4>4 DEF Found
    <3> QED
      BY <1>9, <3>1, <3>2 DEF New
  <2> QED
    BY <1>9, <1>m, <2>1, <2>2, <2>3 DEF New
<1>10. ASSUME NEW w \in Worker, Set(w) PROVE HeldOK'
  <2>1. UNCHANGED <<id, idx>> /\ UNCHANGED op /\ Goto(w, "idle")
    BY <1>10 DEF Set, Return
  <2>2. \A v \in Worker : Found(v) <=> Found(v)'
    BY <2>1 DEF Found
  <2>3. CASE Drop(w)
    BY <1>m, <2>1, <2>2, <2>3
  <2>4. CASE Found(w) /\ ~InCache(w) /\ Exchanged(w)
    <3> DEFINE S == Sharing(id[w])
    <3>1. held' = [v \in Worker |->
                      CASE v = w -> None
                        [] v # w /\ v \in S -> S
                        [] v # w /\ held[w] # None /\ held[v] = held[w] -> {}
                        [] OTHER -> held[v]]
      BY <2>4 DEF Exchanged
    <3>s. \A v \in Worker : v \in S <=> held[v] = {} /\ id[v] = id[w]
      BY DEF Sharing
    <3>w. held[w] # {}
      BY <2>4 DEF InCache
    <3>2. /\ held'[w] = None
          /\ \A v \in Worker : v # w /\ v \in S => held'[v] = S
          /\ \A v \in Worker : v # w /\ v \notin S /\ held[w] # None /\ held[v] = held[w] => held'[v] = {}
          /\ \A v \in Worker : v # w /\ v \notin S /\ ~(held[w] # None /\ held[v] = held[w]) => held'[v] = held[v]
      BY <3>1, <3>s, <3>w
    <3> HIDE DEF S
    <3>3. \A v \in Worker : held'[v] # None => v # w /\ held[v] # None
      BY <1>0, <3>2, <3>s
    <3>4. \A v \in Worker : held'[v] # None => pc'[v] # "idle" /\ op'[v] = "Change"
      BY <1>0, <1>h, <2>1, <3>3 DEF Goto
    <3>5. \A v \in Worker : held'[v] = {} => Found(v)
      <4> SUFFICES ASSUME NEW v \in Worker, held'[v] = {} PROVE Found(v)
        OBVIOUS
      <4>1. v # w /\ v \notin S
        BY <1>0, <3>2
      <4>2. CASE held[w] # None /\ held[v] = held[w]
        <5>1. id[v] = id[w]
          BY <1>h, <3>w, <4>2
        <5> QED
          BY <2>4, <5>1 DEF Found
      <4>3. CASE ~(held[w] # None /\ held[v] = held[w])
        BY <1>h, <3>2, <4>1, <4>3
      <4> QED
        BY <4>2, <4>3
    <3>6. \A v \in Worker : held'[v] # None /\ held'[v] # {} =>
             (v \in S /\ held'[v] = S) \/ (v \notin S /\ held'[v] = held[v])
      BY <3>2
    <3>7. \A v \in Worker : held'[v] # None /\ held'[v] # {} => v \in held'[v]
      BY <1>h, <3>6
    <3>8. ASSUME NEW u \in Worker, NEW v \in Worker,
                 held'[u] = held'[v], held'[v] # None, held'[v] # {}
          PROVE  id[u] = id[v]
      <4>1. u \in held'[u] /\ v \in held'[v]
        BY <3>7, <3>8
      <4>2. CASE u \in S /\ v \in S
        BY <3>s, <4>2
      <4>3. CASE u \notin S /\ v \notin S
        BY <1>h, <3>6, <3>8, <4>3
      <4>4. CASE u \in S /\ v \notin S
        BY <3>6, <3>8, <4>1, <4>4
      <4>5. CASE u \notin S /\ v \in S
        BY <3>6, <3>8, <4>1, <4>5
      <4> QED
        BY <4>2, <4>3, <4>4, <4>5
    <3> QED
      BY <2>1, <2>2, <3>4, <3>5, <3>7, <3>8 DEF HeldOK, HeldAreCached, InCache
  <2> QED
    BY <1>10, <2>3, <2>4 DEF Set, Exchanged
<1>11. ASSUME NEW w \in Worker, Delete(w) PROVE HeldOK'
  <2>0. held[w] = None /\ UNCHANGED <<id, op>> /\ Goto(w, "idle")
    BY <1>h, <1>11 DEF Delete, Act, Return
  <2>1. CASE UNCHANGED <<held, idx>>
    <3>1. \A v \in Worker : Found(v) => Found(v)'
      BY <2>0, <2>1 DEF Found
    <3> QED
      BY <1>m, <2>0, <2>1, <3>1
  <2>2. CASE Emptied
    <3>0. held' = [v \in Worker |-> IF held[v] = {} THEN Sharing(id[v]) ELSE held[v]]
      BY <2>2 DEF Emptied, InCache
    <3>1. \A v \in Worker : \/ (held[v] = {} /\ held'[v] = Sharing(id[v]))
                            \/ (held[v] # {} /\ held'[v] = held[v])
      BY <3>0
    <3>2. \A v \in Worker : held[v] = {} => v \in Sharing(id[v])
      BY DEF Sharing
    <3>3. \A v \in Worker : held'[v] # {} /\ (held'[v] # None => v \in held'[v] /\ held[v] # None)
      BY <1>0, <1>h, <3>1, <3>2
    <3>4. \A v \in Worker : held'[v] # None => pc'[v] # "idle" /\ op'[v] = "Change"
      BY <1>0, <1>h, <2>0, <3>1, <3>3 DEF Goto
    <3>5. ASSUME NEW u \in Worker, NEW v \in Worker, held'[u] = held'[v], held'[v] # None
          PROVE  id[u] = id[v]
      <4>1. u \in held'[v] /\ v \in held'[u]
        BY <3>3, <3>5
      <4>2. CASE held[u] = {}
        BY <3>1, <4>1, <4>2 DEF Sharing
      <4>3. CASE held[v] = {}
        BY <3>1, <4>1, <4>3 DEF Sharing
      <4>4. CASE held[u] # {} /\ held[v] # {}
        BY <1>h, <3>1, <3>5, <4>4
      <4> QED
        BY <4>2, <4>3, <4>4
    <3> QED
      BY <2>0, <3>3, <3>4, <3>5 DEF HeldOK, HeldAreCached, InCache
  <2> QED
    BY <1>11, <2>1, <2>2 DEF Delete
<1> QED
  BY <1>1, <1>2, <1>3, <1>4, <1>5, <1>6, <1>7, <1>8, <1>9, <1>10, <1>11 DEF Next, Step

LEMMA ExcuseNext ==
  ASSUME TypeOK, Agreement, HeldOK, Excuse, [Next]_vars
  PROVE  Excuse'
<1> SUFFICES ASSUME idx' = None, cache' # None \/ \E w \in Worker : pc'[w] = "act"
             PROVE  undone'
  BY DEF Excuse
<1> USE DEF TypeOK
<1>1. CASE UNCHANGED vars
  BY <1>1 DEF vars, caches, Excuse
<1>2. ASSUME NEW w \in Worker, NEW o \in Ops, NEW i \in Id, NEW q \in Qual, Call(w, o, i, q)
      PROVE  undone'
  BY <1>2 DEF Call, Goto, caches, Excuse
<1>3. CASE Crash
  BY <1>3 DEF Crash
<1>4. ASSUME NEW w \in Worker, Step(w) PROVE undone'
  <2>1. CASE EnsureCache(w)
    BY <2>1 DEF EnsureCache, Goto, caches, Excuse
  <2>2. CASE Load(w)
    <3>1. CASE Loaded(TRUE)
      <4>1. db' = db
        BY <2>2 DEF Load
      <4>2. idx' \in [Id -> Nat]
        BY <3>1, <4>1, LoadedRight
      <4> QED
        BY <4>2, NotNone
    <3>2. CASE undone' = TRUE
      BY <3>2
    <3>3. CASE cache # None /\ NotLoaded /\ UNCHANGED undone
      BY <3>3 DEF NotLoaded, caches, Excuse
    <3> QED
      BY <2>2, <3>1, <3>2, <3>3 DEF Load
  <2>3. CASE Get(w)
    <3>1. pc[w] = "act" /\ UNCHANGED <<caches, undone>>
      BY <2>3 DEF Get
    <3> QED
      BY <3>1 DEF Excuse, caches
  <2>4. CASE GetAll(w)
    BY <2>4 DEF GetAll, Act, Return, Goto, caches, Excuse
  <2>5. CASE Set(w)
    <3>1. pc[w] = "act" /\ UNCHANGED <<idx, undone>>
      BY <2>5 DEF Set
    <3> QED
      BY <3>1 DEF Excuse
  <2>8. CASE ParseInput(w)
    <3>1. UNCHANGED <<idx, undone>> /\ (cache' = cache \/ idx # None)
      BY <2>8 DEF ParseInput, Written, HeldOK, HeldAreCached, Found
    <3>2. \A v \in Worker : pc'[v] = "act" => pc[v] = "act"
      BY <2>8 DEF ParseInput, Return, Goto
    <3> QED
      BY <3>1, <3>2 DEF Excuse
  <2>9. CASE Refuse(w)
    BY <2>9 DEF Refuse, Return, Goto, caches, Excuse
  <2>6. CASE New(w)
    <3>1. pc[w] = "act" /\ UNCHANGED undone
      BY <2>6 DEF New, Act
    <3>2. CASE idx = None
      BY <3>1, <3>2 DEF Excuse
    <3>3. CASE idx # None
      <4>1. cache \in Seq(ItemType) /\ Len(cache) + 1 \in Nat
        BY <3>3 DEF Agreement, Shape, ItemType
      <4>2. idx' = idx \/ idx' = [idx EXCEPT ![id[w]] = Len(cache) + 1]
        BY <2>6, <3>3, <4>1, NotNone DEF New, Remember, caches
      <4>3. idx' \in [Id -> Nat]
        BY <3>3, <4>1, <4>2
      <4> QED
        BY <4>3, NotNone
    <3> QED
      BY <3>2, <3>3
  <2>7. CASE Delete(w)
    <3>1. pc[w] = "act" /\ (undone' = TRUE \/ UNCHANGED <<idx, undone>>)
      BY <2>7, Zenon DEF Delete, Act
    <3> QED
      BY <3>1 DEF Excuse
  <2> QED
    BY <1>4, <2>1, <2>2, <2>3, <2>4, <2>5, <2>6, <2>7, <2>8, <2>9 DEF Step
<1> QED
  BY <1>1, <1>2, <1>3, <1>4 DEF Next

LEMMA CacheInit == Init => TypeOK /\ Agreement /\ HeldOK /\ Excuse
<1> SUFFICES ASSUME Init PROVE TypeOK /\ Agreement /\ HeldOK /\ Excuse
  OBVIOUS
<1>1. id \in [Worker -> Id] /\ qual \in [Worker -> Qual]
  BY IdAssumption DEF Init
<1>2. op \in [Worker -> OpKinds] /\ calls \in 0..MaxCalls /\ db \in [Id -> Qual \cup {None, Gone}]
  BY BoundAssumption DEF Init, OpKinds
<1>3. TypeOK
  BY <1>1, <1>2 DEF Init, TypeOK
<1>4. Agreement /\ Excuse
  BY DEF Init, Agreement, Shape, IndexAgrees, DriftsOnlyWhereFailed, QualifierStaleOnlyWhereSet, Broken, Excuse
<1>5. HeldOK
  BY NotNone DEF Init, HeldOK, HeldAreCached, InCache
<1> QED
  BY <1>3, <1>4, <1>5

AgreementInv == TypeOK /\ Agreement /\ HeldOK /\ Excuse

LEMMA CacheInvariant == Spec => []AgreementInv
<1>1. Init => AgreementInv
  BY CacheInit DEF AgreementInv
<1>2. AgreementInv /\ [Next]_vars => AgreementInv'
  BY AgreementNext, HeldNext, ExcuseNext DEF AgreementInv
<1> QED
  BY <1>1, <1>2, PTL DEF Spec

(* With any number of goroutines, items and failing calls: the slice, the  *)
(* indexes and the collection agree but for the items a failed call was    *)
(* about or an unfinished or given up mutation has written into, and the   *)
(* index by qualifier but for the items that were set or written into      *)
(* (gen/dictionaries_generator.go, with what happens between the look of   *)
(* EnsureCache and the lock of the operation, and with the pointers that   *)
(* gen/gql_generator.go parses input into).                                *)
THEOREM CacheAlwaysAgrees == Spec => []CacheAgrees
<1>1. AgreementInv => CacheAgrees
  BY DEF AgreementInv, Agreement, HeldOK, CacheAgrees
<1> QED
  BY <1>1, CacheInvariant, PTL

-----------------------------------------------------------------------------
(* What is not found in a cache with its index is not stored, or is one a  *)
(* failed call was about.                                                  *)
LEMMA MissExcused ==
  ASSUME AgreementInv, NEW w \in Worker, pc[w] = "act", ~Found(w), Stored(id[w]) # None
  PROVE  undone \/ id[w] \in failed
<1>1. id[w] \in Id
  BY DEF AgreementInv, TypeOK
<1>2. CASE idx = None
  BY <1>2 DEF AgreementInv, Excuse
<1>3. CASE idx # None
  <2>1. cache # None /\ Cached(id[w]) = None
    BY <1>3 DEF AgreementInv, Agreement, Shape, Found, Cached
  <2> QED
    BY <1>1, <1>3, <2>1 DEF AgreementInv, Agreement, DriftsOnlyWhereFailed
<1> QED
  BY <1>2, <1>3

LEMMA GetAllExcused ==
  ASSUME AgreementInv, NEW w \in Worker, GetAll(w), ret'.out = "panic"
  PROVE  undone
<1>1. pc[w] = "act" /\ qual[w] \in Qual
  BY DEF GetAll, Act, AgreementInv, TypeOK
<1>2. CASE idx = None
  BY <1>1, <1>2 DEF AgreementInv, Excuse
<1>3. CASE idx # None
  <2>1. cache # None /\ qualIdx # None /\ qualIdx[qual[w]] \subseteq 1..Len(cache)
    BY <1>1, <1>3 DEF AgreementInv, Agreement, Shape
  <2>2. \A k \in qualIdx[qual[w]] : k <= Len(cache)
    <3>1. Len(cache) \in Nat
      BY <2>1 DEF AgreementInv, TypeOK
    <3> QED
      BY <2>1, <3>1
  <2>3. ret'.out = "ok"
    BY <2>1, <2>2 DEF GetAll, Return
  <2> QED
    BY <2>3
<1> QED
  BY <1>2, <1>3

LEMMA MissesNext ==
  ASSUME AgreementInv, MissesExplained, [Next]_vars
  PROVE  MissesExplained'
<1>1. CASE UNCHANGED ret
  BY <1>1 DEF MissesExplained, NotFoundExplained, PanicExplained
<1>2. ASSUME NEW w \in Worker, Get(w) \/ GetAll(w) \/ Set(w) \/ New(w) \/ Delete(w), ret' # ret
      PROVE  MissesExplained'
  <2>1. pc[w] = "act"
    BY <1>2 DEF Get, GetAll, Set, New, Delete, Act
  <2>2. PICK out \in {"ok", "error", "duplicate", "not found", "panic"} :
          /\ ret' = [out |-> out, there |-> Stored(id[w]) # None, excused |-> undone \/ id[w] \in failed]
          /\ out = "not found" => ~Found(w)
          /\ out = "panic" => GetAll(w) \/ idx = None
    <3>1. CASE Get(w)
      BY <1>2, <3>1, Zenon DEF Get, Return
    <3>2. CASE GetAll(w)
      BY <1>2, <3>2 DEF GetAll, Return
    <3>3. CASE Set(w)
      BY <1>2, <3>3, Zenon DEF Set, Return
    <3>4. CASE New(w)
      BY <1>2, <3>4, Zenon DEF New, Remember, Return
    <3>5. CASE Delete(w)
      BY <1>2, <3>5, Zenon DEF Delete, Return
    <3> QED
      BY <1>2, <3>1, <3>2, <3>3, <3>4, <3>5
  <2>3. /\ ret'.out = out /\ (ret'.there <=> Stored(id[w]) # None)
        /\ (ret'.excused <=> undone \/ id[w] \in failed)
    BY <2>2
  <2>4. NotFoundExplained'
    BY <2>1, <2>2, <2>3, MissExcused DEF NotFoundExplained
  <2>5. PanicExplained'
    <3>1. out = "panic" => undone
      BY <2>1, <2>2, <2>3, GetAllExcused DEF AgreementInv, Excuse
    <3> QED
      BY <2>3, <3>1 DEF PanicExplained
  <2> QED
    BY <2>4, <2>5 DEF MissesExplained
<1>3. CASE UNCHANGED vars
  BY <1>1, <1>3 DEF vars
<1>4. CASE Crash
  BY <1>1, <1>4 DEF Crash
<1>5. ASSUME NEW w \in Worker, NEW o \in Ops, NEW i \in Id, NEW q \in Qual, Call(w, o, i, q)
      PROVE  MissesExplained'
  BY <1>1, <1>5 DEF Call
<1>6. ASSUME NEW w \in Worker, EnsureCache(w) \/ Load(w) PROVE MissesExplained'
  BY <1>1, <1>6 DEF EnsureCache, Load
<1>7. ASSUME NEW w \in Worker, ParseInput(w) \/ Refuse(w) PROVE MissesExplained'
  <2>1. UNCHANGED ret \/ Return(w, "error")
    BY <1>7 DEF ParseInput, Refuse
  <2>2. CASE Return(w, "error")
    <3>1. ret'.out = "error"
      BY <2>2 DEF Return
    <3> QED
      BY <3>1 DEF MissesExplained, NotFoundExplained, PanicExplained
  <2> QED
    BY <1>1, <2>1, <2>2
<1> QED
  BY <1>1, <1>2, <1>3, <1>4, <1>5, <1>6, <1>7 DEF Next, Step

(* Whatever goroutines do between each other's steps: an item that is in   *)
(* the collection is not found, and an operation panics, only after a call *)
(* that failed or behind a Delete that dropped the cache.                  *)
THEOREM MissesAlwaysExplained == Spec => []MissesExplained
<1>1. Init => MissesExplained
  BY DEF Init, MissesExplained, NotFoundExplained, PanicExplained
<1>2. AgreementInv /\ MissesExplained /\ [Next]_vars => MissesExplained'
  BY MissesNext
<1> QED
  BY <1>1, <1>2, CacheInvariant, PTL DEF Spec

-----------------------------------------------------------------------------
LEMMA BrokenStep ==
  ASSUME AgreementInv, Broken, ~Crash, [Next]_vars
  PROVE  /\ Broken'
         /\ \A w \in Worker : pc[w] = "act" /\ pc'[w] = "idle" /\ op[w] \in {"Get", "Set", "Change", "Delete"}
                               => ret'.out = "not found"
<1> DEFINE Finished(w) == pc[w] = "act" /\ pc'[w] = "idle" /\ op[w] \in {"Get", "Set", "Change", "Delete"}
                            => ret'.out = "not found"
<1>0. cache # None /\ idx = None /\ \A w \in Worker : ~Found(w)
  BY DEF Broken, Found
<1>p. pc \in [Worker -> {"idle", "ensure", "load", "act", "parse"}]
  BY DEF AgreementInv, TypeOK
<1>1. CASE UNCHANGED vars
  BY <1>0, <1>1 DEF vars, caches, Broken
<1>2. ASSUME NEW v \in Worker, NEW o \in Ops, NEW i \in Id, NEW q \in Qual, Call(v, o, i, q)
      PROVE  Broken' /\ \A w \in Worker : Finished(w)
  BY <1>0, <1>2, <1>p DEF Call, Goto, caches, Broken
<1>3. ASSUME NEW v \in Worker, Step(v)
      PROVE  Broken' /\ \A w \in Worker : Finished(w)
  <2>1. CASE EnsureCache(v) \/ Load(v)
    <3>1. UNCHANGED caches /\ pc[v] # "act"
      BY <1>0, <2>1 DEF EnsureCache, Load, NotLoaded
    <3>2. \A w \in Worker : w # v => pc'[w] = pc[w]
      BY <2>1, <1>p DEF EnsureCache, Load, Goto
    <3> QED
      BY <1>0, <3>1, <3>2 DEF caches, Broken
  <2>4. CASE ParseInput(v) \/ Refuse(v)
    <3>1. UNCHANGED <<cache, idx>> /\ pc[v] # "act"
      BY <1>0, <2>4 DEF ParseInput, Written, Refuse, caches, AgreementInv, HeldOK, HeldAreCached
    <3>2. \A w \in Worker : w # v => pc'[w] = pc[w]
      BY <2>4, <1>p DEF ParseInput, Refuse, Return, Goto
    <3> QED
      BY <1>0, <3>1, <3>2 DEF Broken
  <2>2. CASE Get(v) \/ Set(v) \/ Delete(v)
    <3>1. Return(v, "not found")
      BY <1>0, <2>2, Zenon DEF Get, Set, Delete
    <3>2. UNCHANGED <<cache, idx>>
      BY <1>0, <2>2 DEF Get, Set, Delete, caches
    <3>3. ret'.out = "not found"
      BY <3>1 DEF Return
    <3> QED
      BY <1>0, <3>2, <3>3 DEF Broken
  <2>3. CASE GetAll(v) \/ New(v)
    <3>1. op[v] \in {"GetAll", "New"} /\ \A w \in Worker : w # v => pc'[w] = pc[w]
      <4>1. CASE GetAll(v)
        BY <4>1, <1>p DEF GetAll, Act, Return, Goto
      <4>2. CASE New(v)
        BY <4>2, <1>p DEF New, Act, Remember, Return, Goto
      <4> QED
        BY <2>3, <4>1, <4>2
    <3>2. Broken'
      <4>1. CASE UNCHANGED caches
        BY <1>0, <4>1 DEF caches, Broken
      <4>2. CASE Remember(v)
        <5>1. cache \in Seq(ItemType) /\ id[v] \in Id /\ qual[v] \in Qual
          BY <1>0 DEF AgreementInv, TypeOK, ItemType
        <5>2. Item(id[v], qual[v]) \in ItemType
          BY <5>1 DEF Item, ItemType
        <5>3. cache' = Append(cache, Item(id[v], qual[v])) /\ idx' = None
          BY <1>0, <4>2 DEF Remember
        <5>4. cache' \in Seq(ItemType)
          BY <5>1, <5>2, <5>3
        <5> QED
          BY <5>3, <5>4, NotNone DEF Broken
      <4> QED
        BY <2>3, <4>1, <4>2 DEF GetAll, New
    <3>3. \A w \in Worker : Finished(w)
      BY <3>1
    <3> QED
      BY <3>2, <3>3
  <2> QED
    BY <1>3, <2>1, <2>2, <2>3, <2>4 DEF Step
<1> QED
  BY <1>1, <1>2, <1>3 DEF Next

(* A dictionary that New has broken stays so in this process, whatever its *)
(* goroutines do: it finds nothing, sets nothing and deletes nothing.      *)
THEOREM BrokenForEver == Spec => BrokenIsFinal
<1>1. AgreementInv /\ [Next]_vars =>
        [Broken /\ ~Crash =>
           /\ Broken'
           /\ \A w \in Worker : pc[w] = "act" /\ pc'[w] = "idle" /\ op[w] \in {"Get", "Set", "Change", "Delete"}
                               => ret'.out = "not found"]_vars
  BY BrokenStep
<1> QED
  BY <1>1, CacheInvariant, PTL DEF Spec, BrokenIsFinal
=============================================================================
