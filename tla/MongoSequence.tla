--------------------------- MODULE MongoSequence ---------------------------
(***************************************************************************)
(* One named sequence kept in MongoDB (mongo/sequence.go).  Each process   *)
(* has at most one Sequence object for the name, which caches the current  *)
(* value; the document {_id: name, current: n} is shared by all of them.   *)
(* Next, Current and SetCurrent hold no lock: each is a chain of steps, cut*)
(* where another goroutine can come between (memory shared by goroutines)  *)
(* or where the database is called.                                        *)
(*                                                                         *)
(* The database is external: a call either fails, and then it may or may   *)
(* not have been applied, or is applied and answered.  A crash loses a     *)
(* write that was not applied.                                             *)
(***************************************************************************)
EXTENDS Integers, FiniteSets

CONSTANTS Caller,     \* goroutines
          ProcOf,     \* the process each runs in
          Ops,        \* the operations they call
          Values,     \* the arguments of SetCurrent
          Faults,     \* what may go wrong: see FaultKinds
          MaxInt32,   \* the largest value MongoDB gives back as an int32
          MaxCalls,   \* bound on the number of calls in a behaviour
          None        \* no object, no document

OpKinds == {"Next", "Current", "SetCurrent"}
FaultKinds == {"find", "insert", "insertReply", "update", "updateReply", "crash"}
Proc == {ProcOf[c] : c \in Caller}

ASSUME CallerAssumption == ProcOf \in [Caller -> Proc] /\ None \notin Caller \cup Int
ASSUME KindAssumption == Ops \subseteq OpKinds /\ Faults \subseteq FaultKinds
ASSUME BoundAssumption == MaxCalls \in Nat /\ MaxInt32 \in Nat /\ Values \subseteq Int

VARIABLES
  sequences,  \* msp.sequences: the object each process uses, None if not made
  curr,       \* Sequence.curr of each object; an object is named by its maker
  doc,        \* the current field of the document, None if there is none
  pc, op, mine,  \* of each caller: its place, its operation, its *Sequence
  local,      \* of each caller: the value it holds in a local variable
  wire,       \* of each caller: what its database call carries
  calls,      \* how many calls were started
  ret,        \* the last call that ended; its value is None if it panicked
  given,      \* every number Next returned
  lastNext,   \* the last of them, None before the first
  twice       \* Next returned a number it had returned before

history == <<ret, given, lastNext, twice>>
vars == <<sequences, curr, doc, pc, op, mine, local, wire, calls,
          ret, given, lastNext, twice>>

Unset == -1

Init ==
  /\ sequences = [p \in Proc |-> None]
  /\ curr = [c \in Caller |-> Unset]
  /\ doc = None
  /\ pc = [c \in Caller |-> "idle"]
  /\ op = [c \in Caller |-> "Next"]
  /\ mine = [c \in Caller |-> None]
  /\ local = [c \in Caller |-> 0]
  /\ wire = [c \in Caller |-> None]
  /\ calls = 0
  /\ ret = [op |-> "none", ok |-> TRUE, value |-> 0]
  /\ given = {} /\ lastNext = None /\ twice = FALSE

Goto(c, l) == pc' = [pc EXCEPT ![c] = l]
At(c, l) == pc[c] = l

(* The call of c returns value v, or -1 and an error.                      *)
Return(c, ok, v) ==
  /\ Goto(c, "idle")
  /\ ret' = [op |-> op[c], ok |-> ok, value |-> v]
  /\ IF op[c] = "Next" /\ ok
     THEN /\ given' = given \cup {v}
          /\ lastNext' = v
          /\ twice' = (twice \/ v \in given)
     ELSE UNCHANGED <<given, lastNext, twice>>

Fail(c) == Return(c, FALSE, -1)

(* A process stops and starts again: its objects are gone, its callers idle*)
(* and their calls forgotten.                                              *)
Restart(p) ==
  /\ sequences' = [sequences EXCEPT ![p] = None]
  /\ pc' = [c \in Caller |-> IF ProcOf[c] = p THEN "idle" ELSE pc[c]]

(* The call of c panics and has no answer.  The panic is recovered further *)
(* up, as GraphQL does for its resolvers, or ends the process.             *)
Panic(c) ==
  /\ ret' = [op |-> op[c], ok |-> FALSE, value |-> None]
  /\ \/ Goto(c, "idle") /\ UNCHANGED sequences
     \/ Restart(ProcOf[c])
  /\ UNCHANGED <<given, lastNext, twice>>

-----------------------------------------------------------------------------
(* provider.Sequence(name): a look under the read lock, then, when nothing *)
(* was there, another under the write lock.                                *)

Call(c, o, v) ==
  /\ At(c, "idle") /\ calls < MaxCalls
  /\ calls' = calls + 1
  /\ op' = [op EXCEPT ![c] = o]
  /\ local' = [local EXCEPT ![c] = v]
  /\ Goto(c, "lookup")
  /\ UNCHANGED <<sequences, curr, doc, mine, wire, history>>

Use(c, s) == /\ mine' = [mine EXCEPT ![c] = s]
             /\ Goto(c, "check")
             /\ UNCHANGED <<op, local>>

lookForSequence(c) ==
  LET s == sequences[ProcOf[c]]
  IN  /\ At(c, "lookup")
      /\ \/ s # None /\ Use(c, s)
         \/ s = None /\ Goto(c, "create") /\ UNCHANGED <<op, mine, local>>
      /\ UNCHANGED <<sequences, curr, doc, wire, calls, history>>

(* Mutation: no second look under the write lock. *)
createWithoutLook(c) ==
  /\ At(c, "create")
  /\ sequences' = [sequences EXCEPT ![ProcOf[c]] = c]
  /\ curr' = [curr EXCEPT ![c] = Unset]
  /\ Use(c, c)
  /\ UNCHANGED <<doc, wire, calls, history>>

createSequence(c) ==
  LET s == sequences[ProcOf[c]]
  IN  /\ At(c, "create")
      /\ \/ s # None /\ Use(c, s) /\ UNCHANGED <<sequences, curr>>
         \/ /\ s = None
            /\ sequences' = [sequences EXCEPT ![ProcOf[c]] = c]
            /\ curr' = [curr EXCEPT ![c] = Unset]
            /\ Use(c, c)
      /\ UNCHANGED <<doc, wire, calls, history>>

-----------------------------------------------------------------------------
(* load: FindOne, and InsertOne when there is no document.                 *)

AfterLoad(c) == Goto(c, CASE op[c] = "Next" -> "read"
                          [] op[c] = "Current" -> "current"
                          [] op[c] = "SetCurrent" -> "assign")

Check(c) ==
  /\ At(c, "check")
  /\ IF curr[mine[c]] = Unset THEN Goto(c, "find") ELSE AfterLoad(c)
  /\ UNCHANGED <<sequences, curr, doc, op, mine, local, wire, calls, history>>

(* Mutation: a failed FindOne is tried again. *)
FindRetries(c) ==
  /\ At(c, "find")
  /\ \/ "find" \in Faults /\ wire' = [wire EXCEPT ![c] = None] /\ Goto(c, "check")
     \/ wire' = [wire EXCEPT ![c] = doc] /\ Goto(c, "found")
  /\ UNCHANGED <<sequences, curr, doc, op, mine, local, calls, history>>

Find(c) ==
  /\ At(c, "find")
  /\ \/ "find" \in Faults /\ Fail(c) /\ UNCHANGED wire
     \/ wire' = [wire EXCEPT ![c] = doc] /\ Goto(c, "found") /\ UNCHANGED history
  /\ UNCHANGED <<sequences, curr, doc, op, mine, local, calls>>

(* FindOne's answer.  No document: the sequence starts at 1, and is        *)
(* inserted.  MongoDB gives a wider value back as an int64, and the        *)
(* assertion to int32 panics, where "return -1 on error" is promised.      *)
Found(c) ==
  /\ At(c, "found")
  /\ \/ /\ wire[c] = None
        /\ curr' = [curr EXCEPT ![mine[c]] = 1]
        /\ wire' = [wire EXCEPT ![c] = 1]
        /\ Goto(c, "insert")
        /\ UNCHANGED <<sequences, history>>
     \/ /\ wire[c] # None /\ wire[c] <= MaxInt32
        /\ curr' = [curr EXCEPT ![mine[c]] = IF wire[c] = Unset THEN 1 ELSE wire[c]]
        /\ AfterLoad(c)
        /\ UNCHANGED <<sequences, wire, history>>
     \/ /\ wire[c] # None /\ wire[c] > MaxInt32
        /\ Panic(c)
        /\ UNCHANGED <<curr, wire>>
  /\ UNCHANGED <<doc, op, mine, local, calls>>

(* A second document of the name is a duplicate key.  The object keeps its *)
(* curr of 1 when the insertion fails.                                     *)
Insert(c) ==
  /\ At(c, "insert")
  /\ \/ doc = None /\ doc' = wire[c] /\ AfterLoad(c) /\ UNCHANGED history
     \/ "insertReply" \in Faults /\ doc = None /\ doc' = wire[c] /\ Fail(c)
     \/ (doc # None \/ "insert" \in Faults) /\ Fail(c) /\ UNCHANGED doc
  /\ UNCHANGED <<sequences, curr, op, mine, local, wire, calls>>

-----------------------------------------------------------------------------
(* Next: curr := s.curr; s.curr++; save. *)

Read(c) ==
  /\ At(c, "read")
  /\ local' = [local EXCEPT ![c] = curr[mine[c]]]
  /\ Goto(c, "bump")
  /\ UNCHANGED <<sequences, curr, doc, op, mine, wire, calls, history>>

(* The build may keep the value just read or read s.curr once more.        *)
Bump(c) ==
  /\ At(c, "bump")
  /\ \E base \in {local[c], curr[mine[c]]} : curr' = [curr EXCEPT ![mine[c]] = base + 1]
  /\ Goto(c, "save")
  /\ UNCHANGED <<sequences, doc, op, mine, local, wire, calls, history>>

Assign(c) ==
  /\ At(c, "assign")
  /\ curr' = [curr EXCEPT ![mine[c]] = local[c]]
  /\ Goto(c, "save")
  /\ UNCHANGED <<sequences, doc, op, mine, local, wire, calls, history>>

Current(c) ==
  /\ At(c, "current")
  /\ Return(c, TRUE, curr[mine[c]])
  /\ UNCHANGED <<sequences, curr, doc, op, mine, local, wire, calls>>

Result(c) == IF op[c] = "Next" THEN local[c] ELSE curr[mine[c]]

(* Mutation: what is saved is the number given, not the next one. *)
SaveGiven(c) ==
  /\ At(c, "save")
  /\ wire' = [wire EXCEPT ![c] = local[c]]
  /\ Goto(c, "update")
  /\ UNCHANGED <<sequences, curr, doc, op, mine, local, calls, history>>

(* save: the request takes s.curr as it is now, ...                        *)
Save(c) ==
  /\ At(c, "save")
  /\ wire' = [wire EXCEPT ![c] = curr[mine[c]]]
  /\ Goto(c, "update")
  /\ UNCHANGED <<sequences, curr, doc, op, mine, local, calls, history>>

(* ... and UpdateOne, without upsert, finds nothing to set and no error    *)
(* when there is no document.                                              *)
Stored(c) == IF doc = None THEN None ELSE wire[c]

Update(c) ==
  /\ At(c, "update")
  /\ \/ doc' = Stored(c) /\ Return(c, TRUE, Result(c))
     \/ "updateReply" \in Faults /\ doc' = Stored(c) /\ Fail(c)
     \/ "update" \in Faults /\ doc' = doc /\ Fail(c)
  /\ UNCHANGED <<sequences, curr, op, mine, local, wire, calls>>

-----------------------------------------------------------------------------
(* A process that has its sequence is restarted. *)
Crash(p) ==
  /\ "crash" \in Faults
  /\ sequences[p] # None
  /\ Restart(p)
  /\ UNCHANGED <<curr, doc, op, mine, local, wire, calls, history>>

Step(c) == \/ lookForSequence(c) \/ createSequence(c)
           \/ Check(c) \/ Find(c) \/ Found(c) \/ Insert(c)
           \/ Read(c) \/ Bump(c) \/ Assign(c) \/ Current(c) \/ Save(c) \/ Update(c)

Next == \/ \E c \in Caller : \/ Step(c)
                             \/ \E o \in Ops, v \in Values : Call(c, o, v)
        \/ \E p \in Proc : Crash(p)

Spec == Init /\ [][Next]_vars

(* A goroutine that can run is run, and the driver answers or times out.   *)
FairSpec == Spec /\ \A c \in Caller : WF_vars(Step(c))

-----------------------------------------------------------------------------
Places == {"idle", "lookup", "create", "check", "find", "found", "insert",
           "read", "bump", "assign", "current", "save", "update"}

StateTypeOK ==
  /\ sequences \in [Proc -> Caller \cup {None}]
  /\ curr \in [Caller -> Int]
  /\ doc \in Int \cup {None}
  /\ pc \in [Caller -> Places]
  /\ op \in [Caller -> OpKinds]
  /\ mine \in [Caller -> Caller \cup {None}]
  /\ \A c \in Caller : mine[c] = None => pc[c] \in {"idle", "lookup", "create"}
  /\ local \in [Caller -> Int]
  /\ wire \in [Caller -> Int \cup {None}]
  /\ calls \in 0..MaxCalls

HistoryTypeOK ==
  /\ ret \in [op : OpKinds \cup {"none"}, ok : BOOLEAN, value : Int \cup {None}]
  /\ given \in SUBSET Int
  /\ lastNext \in Int \cup {None}
  /\ twice \in BOOLEAN

TypeOK == StateTypeOK /\ HistoryTypeOK

(* "Sequence allows to create sequential numbers" (mongo/sequence.go:21):  *)
(* Next never returns a number twice, whatever was restarted in between.   *)
NoNumberTwice == ~twice

(* What makes that true across restarts: the document, which is all a new  *)
(* process knows, is past every number given out.                          *)
DocAhead == \A v \in given : doc # None /\ v < doc

(* Successive numbers increase, and so does the document.                  *)
Increasing == [][/\ lastNext' # lastNext /\ lastNext # None => lastNext' > lastNext
                 /\ doc # None => doc' >= doc]_vars

(* Callers of one process that are past the lookup share one object: the   *)
(* second look under the write lock is what keeps createSequence from      *)
(* making two, with two cached values.                                     *)
OneObject ==
  \A c, d \in Caller :
    /\ ProcOf[c] = ProcOf[d]
    /\ {pc[c], pc[d]} \cap {"idle", "lookup", "create"} = {}
    => mine[c] = mine[d]

(* Inductive for one caller that never calls SetCurrent and whose          *)
(* InsertOne is never lost: the cached value is never behind the document, *)
(* and in the middle of Next it is one past the number to be given.        *)
CallerInv(c) ==
  /\ op[c] # "SetCurrent" /\ pc[c] # "assign"
  /\ pc[c] \notin {"idle", "lookup", "create"} => mine[c] = c /\ sequences[ProcOf[c]] = c
  /\ sequences[ProcOf[c]] # None /\ curr[c] # Unset =>
       curr[c] >= 1 /\ (doc # None => curr[c] >= doc)
  /\ sequences[ProcOf[c]] # None /\ doc = None /\ pc[c] # "insert" => curr[c] = Unset
  /\ pc[c] \in {"find", "found"} => curr[c] = Unset
  /\ pc[c] = "found" => wire[c] = doc
  /\ pc[c] = "insert" => doc = None /\ curr[c] = 1 /\ wire[c] = 1
  /\ pc[c] \in {"read", "bump", "save", "update", "current"} => doc # None /\ curr[c] # Unset
  /\ pc[c] = "bump" => local[c] = curr[c]
  /\ pc[c] \in {"save", "update"} => curr[c] = local[c] + 1 /\ local[c] >= doc
  /\ pc[c] = "update" => wire[c] = curr[c]
  /\ pc[c] \in {"read", "bump", "save", "update"} => op[c] = "Next"
  /\ pc[c] = "current" => op[c] = "Current"

NumbersInv ==
  /\ NoNumberTwice /\ DocAhead
  /\ lastNext # None => lastNext \in given
  /\ doc # None => doc >= 1

SerialInv == TypeOK /\ NumbersInv /\ \A c \in Caller : CallerInv(c)

(* No caller waits for another, and no lock is held when a database call   *)
(* fails or load panics: each call ends, and keeps no other from ending.   *)
EveryCallEnds == \A c \in Caller : pc[c] # "idle" ~> pc[c] = "idle"
=============================================================================
