------------------------------ MODULE DictSeed ------------------------------
(***************************************************************************)
(* How a generated dictionary with automatic ids gets the items its release*)
(* brings along, and what that does to the sequence of its ids: the getter *)
(* code run for an empty collection (gen/dictionaries_generator.go and     *)
(* FDBFlushDict of gen/mongo_generator.go), or the ensurer run after every *)
(* load.                                                                   *)
(*                                                                         *)
(* The getter code runs under the dictionary's mutex.  The ensurer runs    *)
(* after the mutex is given up, on Get and New like any other caller, and  *)
(* drops their errors: others come between its steps, and a Delete of      *)
(* theirs starts it again.  A run is one execution of it, whoever does it. *)
(* Get, New and Delete find the cache in place here, and are one step each *)
(* but for New's number; what happens inside of them is DictCache.         *)
(*                                                                         *)
(* The sequence is MongoSequence, whose race is one way to fail here.      *)
(***************************************************************************)
EXTENDS Integers, FiniteSetsExt

CONSTANTS MaxId,     \* bound on ids
          Kinds,     \* which of the two a dictionary has: see KindNames
          Releases,  \* the sets of ids a release may bring along
          Deletions, \* how a dictionary may delete: see DeletionNames
          Run,       \* executions of the ensurer there may be at a time
          Creator,    \* others who create items
          SeedFaults,\* what may go wrong: see SeedFaultNames
          NoCache    \* a nil cache

ItemId == 1..MaxId
KindNames == {"initer", "ensurer"}
DeletionNames == {"delete", "mark"}
SeedFaultNames == {"insert", "insertReply", "sequence", "crash"}

ASSUME SeedAssumption ==
  /\ Kinds \subseteq KindNames /\ SeedFaults \subseteq SeedFaultNames /\ Deletions \subseteq DeletionNames
  /\ MaxId \in Nat /\ \A r \in Releases : r # {} /\ r \subseteq ItemId /\ IsFiniteSet(r)
ASSUME NoCacheAssumption == \A ids \in SUBSET ItemId : NoCache # ids

VARIABLES
  kind, deletion, values, \* of the dictionary: which code it has, the ids the code lists
  docs,     \* the collection: "none", "live" or "gone", by id
  current,  \* the current value of the sequence, in memory
  saved,    \* and in the database
  cached,   \* the ids in the cache
  run,      \* of each run of the ensurer: see NoRun
  ask,      \* of each caller: the id its New has taken, 0 for none, see TakeId
  outcome,   \* what the last New of a caller returned
  unsure,   \* the ids an insertion failed for since the cache was loaded, applied or not
  trouble   \* what has gone wrong: see TroubleNames

seedVars == <<kind, deletion, values, docs, current, saved, cached, run, ask, outcome, unsure, trouble>>

Live == {i \in ItemId : docs[i] = "live"}

(* A run: is there one; the values not looked at yet; the one found to be  *)
(* missing, or 0; was there any; the values not created or deleted again.  *)
NoRun == [on |-> FALSE, left |-> {}, at |-> 0, need |-> FALSE, lost |-> {}]
NoAsk == [id |-> 0, early |-> FALSE]

(* The sequence was set to less than it was; it was not set after items    *)
(* came in; a call of it failed, or its race repeated a number; a caller   *)
(* has brought its own id.                                                 *)
TroubleNames == {"back", "cut", "sequence", "given"}

SeedInit ==
  /\ kind \in Kinds /\ deletion \in Deletions /\ values \in Releases
  /\ docs = [i \in ItemId |-> "none"] /\ current = 1 /\ saved = 1
  /\ cached = NoCache
  /\ run = [r \in Run |-> NoRun] /\ ask = [c \in Creator |-> NoAsk]
  /\ outcome = [out |-> "none", early |-> FALSE]
  /\ unsure = {} /\ trouble = {}

dictionary == <<kind, deletion, values>>
sequence == <<current, saved>>

-----------------------------------------------------------------------------
(* The largest id becomes the current value.  Errors are dropped; a call   *)
(* that fails, or races with a Next, changes what is in memory, what is    *)
(* saved, both or neither.                                                 *)
SetCurrent(v) ==
  \/ current' = v /\ saved' = v /\ trouble' = trouble \cup (IF v < current THEN {"back"} ELSE {})
  \/ /\ "sequence" \in SeedFaults
     /\ current' \in {current, v} /\ saved' \in {saved, v}
     /\ trouble' = trouble \cup {"sequence"}

(* A document of the id, live or gone, makes InsertOne fail, which nobody  *)
(* looks at.                                                               *)
InsertAll(ids) == docs' = [i \in ItemId |-> IF i \in ids /\ docs[i] = "none" THEN "live" ELSE docs[i]]

(* An empty collection: all the items are inserted, as far as that goes,   *)
(* and cached, and the sequence is set to the largest id.                  *)
Flush(inserted) ==
  /\ kind = "initer" /\ cached = NoCache /\ Live = {}
  /\ inserted \subseteq values /\ (inserted # values => "insert" \in SeedFaults)
  /\ InsertAll(inserted) /\ cached' = values /\ unsure' = values \ inserted
  /\ SetCurrent(Max(values))
  /\ UNCHANGED <<dictionary, run, ask, outcome>>

(* The process stops before the sequence is set, some items in.            *)
FlushCut(inserted) ==
  /\ kind = "initer" /\ cached = NoCache /\ Live = {}
  /\ "crash" \in SeedFaults /\ inserted \subseteq values /\ inserted # {}
  /\ InsertAll(inserted) /\ trouble' = trouble \cup {"cut"}
  /\ current' = saved /\ ask' = [c \in Creator |-> NoAsk]
  /\ UNCHANGED <<dictionary, saved, cached, run, outcome, unsure>>

LoadOnly ==
  /\ kind = "initer" /\ cached = NoCache /\ Live # {}
  /\ cached' = Live /\ unsure' = {}
  /\ UNCHANGED <<dictionary, docs, sequence, run, ask, outcome, trouble>>

-----------------------------------------------------------------------------
(* An ensured dictionary is loaded, the mutex is free again, and the       *)
(* ensurer begins.                                                         *)
LoadThenEnsure(r) ==
  /\ kind = "ensurer" /\ cached = NoCache /\ ~run[r].on
  /\ cached' = Live /\ unsure' = {}
  /\ run' = [run EXCEPT ![r] = [NoRun EXCEPT !.on = TRUE, !.left = values]]
  /\ UNCHANGED <<dictionary, docs, sequence, ask, outcome, trouble>>

(* Mutation: the ensurer is content with the first value it finds. *)
LookOnce(r, v) ==
  /\ v \in run[r].left /\ run[r].at = 0 /\ cached # NoCache
  /\ run' = IF v \in cached THEN [run EXCEPT ![r].left = {}]
            ELSE [run EXCEPT ![r].left = @ \ {v}, ![r].at = v]
  /\ UNCHANGED <<dictionary, docs, sequence, cached, ask, outcome, unsure, trouble>>

(* Get of the next value: it is found, or has to be created.               *)
Look(r, v) ==
  /\ v \in run[r].left /\ run[r].at = 0 /\ cached # NoCache
  /\ run' = [run EXCEPT ![r].left = @ \ {v}, ![r].at = IF v \in cached THEN 0 ELSE v]
  /\ UNCHANGED <<dictionary, docs, sequence, cached, ask, outcome, unsure, trouble>>

(* New of the id, which is put in the cache if the insertion succeeds.     *)
Create(i, out) ==
  \/ i \in cached /\ out = "duplicate" /\ UNCHANGED <<docs, cached, unsure>>
  \/ i \notin cached /\ docs[i] # "none" /\ out = "error" /\ UNCHANGED <<docs, cached, unsure>>
  \/ /\ i \notin cached /\ docs[i] = "none" /\ out = "ok"
     /\ InsertAll({i}) /\ cached' = cached \cup {i} /\ UNCHANGED unsure
  \/ /\ i \notin cached /\ docs[i] = "none" /\ out = "failed"
     /\ \/ "insert" \in SeedFaults /\ UNCHANGED docs
        \/ "insertReply" \in SeedFaults /\ InsertAll({i})
     /\ unsure' = unsure \cup {i} /\ UNCHANGED cached

Outcomes == {"duplicate", "error", "ok", "failed"}

(* Creating a value, whose error is dropped, makes numbers that callers    *)
(* have taken, and take until the sequence is set, early.                  *)
CreateValue(r) ==
  /\ run[r].at # 0 /\ cached # NoCache
  /\ \E out \in Outcomes : Create(run[r].at, out)
  /\ run' = [run EXCEPT ![r].at = 0, ![r].need = TRUE,
                        ![r].lost = IF docs'[run[r].at] = "none" THEN @ \cup {run[r].at} ELSE @]
  /\ ask' = [c \in Creator |-> [ask[c] EXCEPT !.early = ask[c].id # 0]]
  /\ UNCHANGED <<dictionary, sequence, outcome, trouble>>

(* Mutation: the sequence is set to the largest value, not past it. *)
FinishAtLargest(r) ==
  /\ run[r].on /\ run[r].left = {} /\ run[r].at = 0
  /\ IF run[r].need THEN SetCurrent(Max(values)) ELSE UNCHANGED <<sequence, trouble>>
  /\ run' = [run EXCEPT ![r] = NoRun]
  /\ UNCHANGED <<dictionary, docs, cached, ask, outcome, unsure>>

(* If there was any value to create, the sequence is set past the largest, *)
(* missing or not.                                                         *)
Finish(r) ==
  /\ run[r].on /\ run[r].left = {} /\ run[r].at = 0
  /\ IF run[r].need THEN SetCurrent(Max(values) + 1) ELSE UNCHANGED <<sequence, trouble>>
  /\ run' = [run EXCEPT ![r] = NoRun]
  /\ UNCHANGED <<dictionary, docs, cached, ask, outcome, unsure>>

-----------------------------------------------------------------------------
(* New of an item without id takes a number before it looks at the cache.  *)
(* A number that was taken, or waited, while an ensurer has created values *)
(* and not yet set the sequence is early.  A Next that fails uses its      *)
(* number up, in memory or in the database too; its race repeats it.       *)
TakeId(c) ==
  /\ ask[c].id = 0 /\ current \in ItemId
  /\ LET taken == ask' = [ask EXCEPT ![c] = [id |-> current, early |-> \E r \in Run : run[r].need]]
     IN  \/ taken /\ current' = current + 1 /\ saved' = current + 1 /\ UNCHANGED trouble
         \/ /\ "sequence" \in SeedFaults /\ taken
            /\ UNCHANGED sequence /\ trouble' = trouble \cup {"sequence"}
         \/ /\ "sequence" \in SeedFaults /\ UNCHANGED <<ask, trouble>>
            /\ current' = current + 1 /\ saved' \in {saved, current + 1}
  /\ UNCHANGED <<dictionary, docs, cached, run, outcome, unsure>>

CreateItem(c) ==
  /\ ask[c].id # 0 /\ cached # NoCache
  /\ \E out \in Outcomes :
       Create(ask[c].id, out) /\ outcome' = [out |-> out, early |-> ask[c].early]
  /\ ask' = [ask EXCEPT ![c] = NoAsk]
  /\ UNCHANGED <<dictionary, sequence, run, trouble>>

(* New of an item with an id.                                              *)
CreateGiven(i) ==
  /\ cached # NoCache
  /\ \E out \in Outcomes : Create(i, out)
  /\ trouble' = trouble \cup {"given"}
  /\ UNCHANGED <<dictionary, sequence, run, ask, outcome>>

DeleteItem(i) ==
  /\ cached # NoCache /\ i \in cached
  /\ docs' = IF docs[i] = "none" THEN docs
             ELSE [docs EXCEPT ![i] = IF deletion = "mark" THEN "gone" ELSE "none"]
  /\ cached' = NoCache
  /\ run' = [r \in Run |-> IF run[r].on THEN [run[r] EXCEPT !.lost = @ \cup ({i} \cap values)] ELSE run[r]]
  /\ UNCHANGED <<dictionary, sequence, ask, outcome, unsure, trouble>>

(* A restart, perhaps of a release that lists other values; in the middle  *)
(* of something it is a crash.                                             *)
RestartWith(vs) ==
  /\ \/ "crash" \in SeedFaults
     \/ (\A r \in Run : ~run[r].on) /\ (\A c \in Creator : ask[c].id = 0)
  /\ values' = vs /\ current' = saved
  /\ cached' = NoCache /\ run' = [r \in Run |-> NoRun] /\ ask' = [c \in Creator |-> NoAsk]
  /\ trouble' = trouble \cup (IF \E r \in Run : run[r].need THEN {"cut"} ELSE {})
  /\ UNCHANGED <<kind, deletion, docs, saved, outcome, unsure>>

SeedNext == \/ \E ids \in SUBSET ItemId : Flush(ids) \/ FlushCut(ids)
            \/ LoadOnly
            \/ \E r \in Run : \/ LoadThenEnsure(r) \/ CreateValue(r) \/ Finish(r)
                              \/ \E v \in ItemId : Look(r, v)
            \/ \E c \in Creator : TakeId(c) \/ CreateItem(c)
            \/ \E i \in ItemId : CreateGiven(i) \/ DeleteItem(i)
            \/ \E vs \in Releases : RestartWith(vs)

SeedSpec == SeedInit /\ [][SeedNext]_seedVars

-----------------------------------------------------------------------------
RunType == [on : BOOLEAN, left : SUBSET ItemId, at : {0} \cup ItemId, need : BOOLEAN, lost : SUBSET ItemId]

SeedTypeOK ==
  /\ kind \in KindNames /\ deletion \in DeletionNames /\ values \in Releases
  /\ docs \in [ItemId -> {"none", "live", "gone"}]
  /\ current \in Nat /\ saved \in Nat
  /\ cached = NoCache \/ cached \in SUBSET ItemId
  /\ run \in [Run -> RunType]
  /\ ask \in [Creator -> [id : {0} \cup ItemId, early : BOOLEAN]]
  /\ outcome \in [out : Outcomes \cup {"none"}, early : BOOLEAN]
  /\ unsure \subseteq ItemId /\ trouble \subseteq TroubleNames

(* With deletions that are real, the cache is the collection but for items *)
(* whose insertion has failed, applied or not.                             *)
CacheIsCollection ==
  cached # NoCache /\ deletion = "delete" => \A i \in ItemId \ unsure : i \in cached <=> docs[i] = "live"

(* When the ensurer is through, each value is there, or its document is    *)
(* marked as deleted, unless the error of its New was dropped or it was    *)
(* deleted while the ensurer ran.                                          *)
EnsuredArePresent ==
  \A r \in Run : run[r].on /\ run[r].left = {} /\ run[r].at = 0 =>
    \A i \in values : docs[i] # "none" \/ i \in run[r].lost

(* An ensured dictionary gives a new item an id that is taken only when    *)
(* its sequence was moved back, seeding was cut short, a call of the       *)
(* sequence has failed or repeated a number, somebody else chose an id, or *)
(* the ensurer had not yet set the sequence.                               *)
TakenIdExplained ==
  kind = "ensurer" /\ outcome.out \in {"duplicate", "error"} => trouble # {} \/ outcome.early
=============================================================================
