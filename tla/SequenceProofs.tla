-------------------------- MODULE SequenceProofs ---------------------------
(***************************************************************************)
(* A sequence used by one caller at a time never gives a number twice,     *)
(* over any number of calls, restarts, failed reads, failed writes and     *)
(* lost answers, provided its document is not lost at birth (InsertOne     *)
(* failing without effect: a restart then gives the same numbers again)    *)
(* and nobody moves it with SetCurrent.  The run of SeqRace shows what     *)
(* happens without "one caller at a time".  With any number of callers a   *)
(* process has one object per sequence.                                    *)
(*                                                                         *)
(* The server of a distributed sequence is one caller of its Mongo         *)
(* sequence, so that what is shown of a single caller holds of it; from    *)
(* there, for any number of clients, calls, restarts, panics and late, lost*)
(* or unpublished replies, no number reaches two calls, and each is in one *)
(* place: received, on its way, or lost before its reply was published.    *)
(***************************************************************************)
EXTENDS NatsSequence, TLAPS


Serial == \E c : Caller = {c}
NoSetCurrent == "SetCurrent" \notin Ops
InsertKept == "insert" \notin Faults

LEMMA ProcType == ASSUME NEW c \in Caller PROVE ProcOf[c] \in Proc
BY DEF Proc

LEMMA TypeInit == Init => TypeOK
<1> SUFFICES ASSUME Init PROVE TypeOK
  OBVIOUS
<1>1. StateTypeOK
  BY CallerAssumption, BoundAssumption DEF Init, StateTypeOK, OpKinds, Places, Unset
<1>2. ret \in [op : OpKinds \cup {"none"}, ok : BOOLEAN, value : Int \cup {None}]
  BY DEF Init
<1>3. given \in SUBSET Int /\ lastNext \in Int \cup {None} /\ twice \in BOOLEAN
  BY DEF Init
<1> QED
  BY <1>1, <1>2, <1>3 DEF TypeOK, HistoryTypeOK

(* What a return leaves in the history, and where it leaves the caller.    *)
LEMMA ReturnType ==
  ASSUME TypeOK, NEW c \in Caller, NEW ok \in BOOLEAN, NEW v \in Int, Return(c, ok, v)
  PROVE  HistoryTypeOK' /\ pc' = [pc EXCEPT ![c] = "idle"]
<1>1. ret' \in [op : OpKinds \cup {"none"}, ok : BOOLEAN, value : Int \cup {None}]
  BY DEF Return, TypeOK, StateTypeOK, HistoryTypeOK
<1>2. given' \in SUBSET Int /\ lastNext' \in Int \cup {None}
  BY DEF Return, TypeOK, HistoryTypeOK
<1>3. twice' \in BOOLEAN
  BY DEF Return, TypeOK, HistoryTypeOK
<1> QED
  BY <1>1, <1>2, <1>3 DEF HistoryTypeOK, Return, Goto

LEMMA FailType ==
  ASSUME TypeOK, NEW c \in Caller, Fail(c)
  PROVE  HistoryTypeOK' /\ pc' = [pc EXCEPT ![c] = "idle"]
<1> FALSE \in BOOLEAN /\ -1 \in Int
  OBVIOUS
<1> QED
  BY ReturnType DEF Fail

(* A restart leaves every caller where it may be, and so does a panic.     *)
LEMMA RestartType ==
  ASSUME TypeOK, NEW p \in Proc, Restart(p)
  PROVE  /\ sequences' \in [Proc -> Caller \cup {None}]
         /\ pc' \in [Caller -> Places]
         /\ \A c \in Caller : pc'[c] = "idle" \/ pc'[c] = pc[c]
         /\ \A c \in Caller : ProcOf[c] = p => pc'[c] = "idle"
BY DEF Restart, TypeOK, StateTypeOK, Places

LEMMA PanicType ==
  ASSUME TypeOK, NEW c \in Caller, Panic(c)
  PROVE  /\ HistoryTypeOK' /\ sequences' \in [Proc -> Caller \cup {None}]
         /\ pc' \in [Caller -> Places] /\ pc'[c] = "idle"
         /\ \A d \in Caller : pc'[d] = "idle" \/ pc'[d] = pc[d]
<1>1. ret' \in [op : OpKinds \cup {"none"}, ok : BOOLEAN, value : Int \cup {None}]
  BY DEF Panic, TypeOK, StateTypeOK
<1>2. given' \in SUBSET Int /\ lastNext' \in Int \cup {None} /\ twice' \in BOOLEAN
  BY DEF Panic, TypeOK, HistoryTypeOK
<1>3. CASE Goto(c, "idle") /\ UNCHANGED sequences
  BY <1>1, <1>2, <1>3 DEF HistoryTypeOK, Goto, TypeOK, StateTypeOK, Places
<1>4. CASE Restart(ProcOf[c])
  BY <1>1, <1>2, <1>4, RestartType, ProcType DEF HistoryTypeOK
<1> QED
  BY <1>3, <1>4 DEF Panic

LEMMA TypeNext == TypeOK /\ [Next]_vars => TypeOK'
<1> SUFFICES ASSUME TypeOK, [Next]_vars PROVE TypeOK'
  OBVIOUS
<1>h. UNCHANGED history => HistoryTypeOK'
  BY DEF history, TypeOK, HistoryTypeOK
<1> USE CallerAssumption, KindAssumption, BoundAssumption, ProcType
    DEF StateTypeOK, OpKinds, Places, Unset, At, Goto
<1>1. CASE UNCHANGED vars
  BY <1>1, <1>h DEF vars, TypeOK, history
<1>2. ASSUME NEW c \in Caller, NEW o \in Ops, NEW v \in Values, Call(c, o, v) PROVE TypeOK'
  BY <1>2, <1>h DEF Call, TypeOK
<1>3. ASSUME NEW c \in Caller, lookForSequence(c) PROVE TypeOK'
  BY <1>3, <1>h DEF lookForSequence, Use, TypeOK
<1>4. ASSUME NEW c \in Caller, createSequence(c) PROVE TypeOK'
  BY <1>4, <1>h DEF createSequence, Use, TypeOK
<1>5. ASSUME NEW c \in Caller, Check(c) PROVE TypeOK'
  BY <1>5, <1>h DEF Check, AfterLoad, TypeOK
<1>6. ASSUME NEW c \in Caller, Find(c) PROVE TypeOK'
  <2>1. HistoryTypeOK'
    BY <1>6, <1>h, FailType, ReturnType DEF Find, TypeOK
  <2>2. StateTypeOK'
    BY <1>6, FailType, ReturnType DEF Find, TypeOK
  <2> QED
    BY <2>1, <2>2 DEF TypeOK
<1>7. ASSUME NEW c \in Caller, Found(c) PROVE TypeOK'
  <2>1. CASE wire[c] = None
    BY <1>7, <1>h, <2>1 DEF Found, TypeOK
  <2>2. CASE wire[c] # None /\ wire[c] <= MaxInt32
    BY <1>7, <1>h, <2>2 DEF Found, AfterLoad, TypeOK
  <2>3. CASE wire[c] # None /\ wire[c] > MaxInt32
    BY <1>7, <2>3, PanicType DEF Found, TypeOK
  <2> QED
    BY <1>7, <2>1, <2>2, <2>3 DEF Found
<1>8. ASSUME NEW c \in Caller, Insert(c) PROVE TypeOK'
  <2>1. HistoryTypeOK'
    BY <1>8, <1>h, FailType, ReturnType DEF Insert, AfterLoad, TypeOK
  <2>2. StateTypeOK'
    BY <1>8, FailType, ReturnType DEF Insert, AfterLoad, TypeOK
  <2> QED
    BY <2>1, <2>2 DEF TypeOK
<1>9. ASSUME NEW c \in Caller, Read(c) PROVE TypeOK'
  BY <1>9, <1>h DEF Read, TypeOK
<1>10. ASSUME NEW c \in Caller, Bump(c) PROVE TypeOK'
  BY <1>10, <1>h DEF Bump, TypeOK
<1>11. ASSUME NEW c \in Caller, Assign(c) PROVE TypeOK'
  BY <1>11, <1>h DEF Assign, TypeOK
<1>12. ASSUME NEW c \in Caller, Current(c) PROVE TypeOK'
  <2>1. HistoryTypeOK'
    BY <1>12, <1>h, FailType, ReturnType DEF Current, TypeOK
  <2>2. StateTypeOK'
    BY <1>12, FailType, ReturnType DEF Current, TypeOK
  <2> QED
    BY <2>1, <2>2 DEF TypeOK
<1>13. ASSUME NEW c \in Caller, Save(c) PROVE TypeOK'
  BY <1>13, <1>h DEF Save, TypeOK
<1>14. ASSUME NEW c \in Caller, Update(c) PROVE TypeOK'
  <2>1. HistoryTypeOK'
    BY <1>14, <1>h, FailType, ReturnType DEF Update, Result, TypeOK
  <2>2. StateTypeOK'
    <3>1. wire[c] \in Int \cup {None} /\ Result(c) \in Int
      BY <1>14 DEF Update, Result, TypeOK
    <3>2. doc' \in Int \cup {None}
      BY <1>14, <3>1 DEF Update, Stored, TypeOK
    <3>4. pc' = [pc EXCEPT ![c] = "idle"]
      BY <1>14, <3>1, FailType, ReturnType DEF Update
    <3>3. UNCHANGED <<sequences, curr, op, mine, local, wire, calls>>
      BY <1>14 DEF Update
    <3> QED
      BY <3>2, <3>3, <3>4 DEF TypeOK
  <2> QED
    BY <2>1, <2>2 DEF TypeOK
<1>15. ASSUME NEW p \in Proc, Crash(p) PROVE TypeOK'
  BY <1>15, <1>h, RestartType DEF Crash, TypeOK
<1> QED
  BY <1>1, <1>2, <1>3, <1>4, <1>5, <1>6, <1>7, <1>8, <1>9, <1>10, <1>11, <1>12, <1>13, <1>14, <1>15 DEF Next, Step

(* Types are kept whatever goroutines, processes and failures there are; in*)
(* particular no step is taken through a nil *Sequence.                    *)
THEOREM TypeCorrect == Spec => []TypeOK
BY TypeInit, TypeNext, PTL DEF Spec

-----------------------------------------------------------------------------
LEMMA SerialInit == ASSUME NoSetCurrent PROVE Init => SerialInv
<1>1. Init => NumbersInv
  BY DEF Init, NumbersInv, NoNumberTwice, DocAhead
<1>2. Init => \A c \in Caller : CallerInv(c)
  BY CallerAssumption DEF Init, CallerInv, Proc
<1> QED
  BY <1>1, <1>2, TypeInit DEF SerialInv

(* A return that gives no number out leaves the numbers as they were.      *)
LEMMA NothingGiven ==
  ASSUME NumbersInv, NEW c, NEW ok, NEW v, Return(c, ok, v), op[c] # "Next" \/ ~ok,
         doc' = doc \/ (doc' # None /\ (doc # None => doc' >= doc) /\ doc' >= 1 /\ doc' \in Int),
         given \in SUBSET Int, doc \in Int \cup {None}
  PROVE  NumbersInv'
<1>1. given' = given /\ lastNext' = lastNext /\ twice' = twice
  BY DEF Return
<1> QED
  BY <1>1, CallerAssumption DEF NumbersInv, NoNumberTwice, DocAhead

(* Neither does a step that is not a return.                               *)
LEMMA NumbersUnchanged == NumbersInv /\ UNCHANGED <<doc, history>> => NumbersInv'
BY DEF NumbersInv, NoNumberTwice, DocAhead, history

(* Where a call goes once the sequence is loaded.                          *)
LEMMA AfterLoadGoes ==
  ASSUME NEW c, op[c] \in {"Next", "Current"}, AfterLoad(c)
  PROVE  \/ op[c] = "Next" /\ pc' = [pc EXCEPT ![c] = "read"]
         \/ op[c] = "Current" /\ pc' = [pc EXCEPT ![c] = "current"]
BY DEF AfterLoad, Goto

LEMMA ReturnGoes ==
  ASSUME NEW c, NEW ok, NEW v, Return(c, ok, v)
  PROVE  pc' = [pc EXCEPT ![c] = "idle"]
BY DEF Return, Goto

LEMMA FailGoes == ASSUME NEW c, Fail(c) PROVE pc' = [pc EXCEPT ![c] = "idle"]
BY DEF Fail, Return, Goto

(* Every step of the one caller keeps the invariant.                       *)
LEMMA SerialNext ==
  ASSUME Serial, NoSetCurrent, InsertKept, SerialInv, [Next]_vars
  PROVE  SerialInv'
<1> PICK me : Caller = {me}
  BY DEF Serial
<1> DEFINE p == ProcOf[me]
<1> SUFFICES NumbersInv' /\ CallerInv(me)'
  BY TypeNext DEF SerialInv
<1>1. Proc = {p} /\ me \in Caller /\ p \in Proc
  BY DEF Proc
<1>o. op[me] \in {"Next", "Current"}
  BY <1>1 DEF SerialInv, CallerInv, TypeOK, StateTypeOK, OpKinds
<1>t. StateTypeOK /\ given \in SUBSET Int /\ NumbersInv /\ CallerInv(me) /\ TypeOK
  BY <1>1 DEF SerialInv, TypeOK, HistoryTypeOK
<1> USE CallerAssumption, KindAssumption, BoundAssumption, <1>1, <1>t DEF StateTypeOK, Unset, At, Goto
<1>2. CASE UNCHANGED vars
  BY <1>2, NumbersUnchanged DEF vars, CallerInv, history
<1>3. ASSUME NEW o \in Ops, NEW v \in Values, Call(me, o, v) PROVE NumbersInv' /\ CallerInv(me)'
  <2>1. CallerInv(me)'
    BY <1>3 DEF Call, NoSetCurrent, OpKinds, CallerInv
  <2>2. NumbersInv'
    BY <1>3, NumbersUnchanged DEF Call
  <2> QED
    BY <2>1, <2>2
<1>4. CASE lookForSequence(me)
  <2>1. CallerInv(me)'
    BY <1>4 DEF lookForSequence, Use, CallerInv
  <2>2. NumbersInv'
    BY <1>4, NumbersUnchanged DEF lookForSequence
  <2> QED
    BY <2>1, <2>2
<1>5. CASE createSequence(me)
  <2>1. CallerInv(me)'
    BY <1>5 DEF createSequence, Use, CallerInv
  <2>2. NumbersInv'
    BY <1>5, NumbersUnchanged DEF createSequence
  <2> QED
    BY <2>1, <2>2
<1>6. CASE Check(me)
  <2>1. CallerInv(me)'
    BY <1>6, <1>o, AfterLoadGoes DEF Check, CallerInv
  <2>2. NumbersInv'
    BY <1>6, NumbersUnchanged DEF Check
  <2> QED
    BY <2>1, <2>2
<1>7. CASE Find(me)
  <2>1. CallerInv(me)'
    BY <1>7, FailGoes DEF Find, CallerInv
  <2>2. NumbersInv'
    BY <1>7, NothingGiven, NumbersUnchanged DEF Find, Fail
  <2> QED
    BY <2>1, <2>2
<1>8. CASE Found(me)
  <2>1. CallerInv(me)'
    <3>1. wire[me] = doc /\ curr[me] = Unset /\ mine[me] = me /\ sequences[p] = me
      BY <1>8 DEF Found, CallerInv
    <3>2. CASE wire[me] = None
      BY <1>8, <3>1, <3>2 DEF Found, CallerInv
    <3>3. CASE wire[me] # None /\ wire[me] <= MaxInt32
      <4>1. curr'[me] = wire[me] /\ wire[me] \in Int /\ wire[me] >= 1
        BY <1>8, <3>1, <3>3 DEF Found, NumbersInv
      <4>2. \/ op[me] = "Next" /\ pc' = [pc EXCEPT ![me] = "read"]
            \/ op[me] = "Current" /\ pc' = [pc EXCEPT ![me] = "current"]
        BY <1>8, <1>o, <3>3, AfterLoadGoes DEF Found
      <4>3. UNCHANGED <<sequences, doc, op, mine, local, wire>>
        BY <1>8, <3>3 DEF Found
      <4> QED
        BY <1>o, <3>1, <4>1, <4>2, <4>3 DEF CallerInv
    <3>4. CASE wire[me] # None /\ wire[me] > MaxInt32
      <4>1. pc'[me] = "idle" /\ (sequences' = sequences \/ sequences'[p] = None)
        BY <1>8, <3>4 DEF Found, Panic, Restart
      <4>2. UNCHANGED <<curr, doc, op, mine, local, wire>>
        BY <1>8, <3>4 DEF Found
      <4> QED
        BY <3>1, <4>1, <4>2 DEF CallerInv
    <3> QED
      BY <1>8, <3>2, <3>3, <3>4 DEF Found
  <2>2. NumbersInv'
    <3>1. doc' = doc /\ given' = given /\ lastNext' = lastNext /\ twice' = twice
      BY <1>8 DEF Found, Panic, history
    <3> QED
      BY <3>1 DEF NumbersInv, NoNumberTwice, DocAhead
  <2> QED
    BY <2>1, <2>2
<1>9. CASE Insert(me)
  <2>1. /\ doc = None /\ wire[me] = 1 /\ curr[me] = 1 /\ mine[me] = me /\ sequences[p] = me
        /\ doc' = 1
        /\ UNCHANGED <<sequences, curr, op, mine, local, wire>>
    BY <1>9 DEF Insert, CallerInv, InsertKept
  <2>2. \/ op[me] = "Next" /\ pc' = [pc EXCEPT ![me] = "read"]
        \/ op[me] = "Current" /\ pc' = [pc EXCEPT ![me] = "current"]
        \/ pc' = [pc EXCEPT ![me] = "idle"]
    BY <1>9, <1>o, AfterLoadGoes, FailGoes DEF Insert
  <2>3. CallerInv(me)'
    BY <1>o, <2>1, <2>2 DEF CallerInv
  <2>4. given' = given /\ lastNext' = lastNext /\ twice' = twice
    BY <1>9 DEF Insert, Fail, Return, history
  <2>5. given = {}
    BY <2>1 DEF NumbersInv, DocAhead
  <2>6. NumbersInv'
    BY <2>1, <2>4, <2>5 DEF NumbersInv, NoNumberTwice, DocAhead
  <2> QED
    BY <2>3, <2>6
<1>10. CASE Read(me)
  <2>1. CallerInv(me)'
    BY <1>10 DEF Read, CallerInv
  <2>2. NumbersInv'
    BY <1>10, NumbersUnchanged DEF Read
  <2> QED
    BY <2>1, <2>2
<1>11. CASE Bump(me)
  <2>1. CallerInv(me)'
    BY <1>11 DEF Bump, CallerInv
  <2>2. NumbersInv'
    BY <1>11, NumbersUnchanged DEF Bump
  <2> QED
    BY <2>1, <2>2
<1>12. CASE Assign(me)
  <2>1. CallerInv(me)'
    BY <1>12 DEF Assign, CallerInv
  <2>2. NumbersInv'
    BY <1>12, NumbersUnchanged DEF Assign
  <2> QED
    BY <2>1, <2>2
<1>13. CASE Current(me)
  <2>1. CallerInv(me)'
    BY <1>13, ReturnGoes DEF Current, CallerInv
  <2>2. NumbersInv'
    <3>1. op[me] # "Next" /\ doc' = doc /\ Return(me, TRUE, curr[mine[me]])
      BY <1>13, <1>o DEF Current, CallerInv
    <3> QED
      BY <3>1, NothingGiven
  <2> QED
    BY <2>1, <2>2
<1>14. CASE Save(me)
  <2>1. CallerInv(me)'
    BY <1>14 DEF Save, CallerInv
  <2>2. NumbersInv'
    BY <1>14, NumbersUnchanged DEF Save
  <2> QED
    BY <2>1, <2>2
<1>15. CASE Update(me)
  <2>1. CallerInv(me)'
    <3>1. /\ pc[me] = "update" /\ mine[me] = me /\ sequences[p] = me
          /\ op[me] = "Next" /\ doc # None /\ doc \in Int /\ local[me] >= doc
          /\ wire[me] = curr[me] /\ curr[me] = local[me] + 1 /\ curr[me] >= 1
          /\ UNCHANGED <<sequences, curr, op, mine, local, wire>>
      BY <1>15 DEF Update, CallerInv
    <3>2. pc' = [pc EXCEPT ![me] = "idle"]
      BY <1>15, ReturnGoes, FailGoes DEF Update
    <3>3. doc' = doc \/ doc' = curr[me]
      BY <1>15, <3>1 DEF Update, Stored
    <3> QED
      BY <3>1, <3>2, <3>3 DEF CallerInv
  <2>2. /\ op[me] = "Next" /\ doc # None /\ doc \in Int
        /\ wire[me] = local[me] + 1 /\ local[me] >= doc /\ Stored(me) = wire[me]
        /\ Result(me) = local[me] /\ local[me] \in Int
    BY <1>15 DEF Update, Stored, Result, CallerInv
  <2>3. CASE Fail(me)
    <3>1. doc' = doc \/ doc' = local[me] + 1
      BY <1>15, <2>2 DEF Update
    <3>2. doc >= 1
      BY <2>2 DEF NumbersInv
    <3>3. given' = given /\ lastNext' = lastNext /\ twice' = twice
      BY <2>3 DEF Fail, Return
    <3>4. doc' \in Int /\ doc' >= doc /\ doc' # None
      BY <2>2, <3>1
    <3>5. NumbersInv'
      BY <2>2, <3>2, <3>3, <3>4 DEF NumbersInv, NoNumberTwice, DocAhead
    <3> QED
      BY <2>1, <3>5
  <2>4. CASE doc' = Stored(me) /\ Return(me, TRUE, Result(me))
    <3>1. /\ given' = given \cup {local[me]} /\ lastNext' = local[me]
          /\ twice' = (twice \/ local[me] \in given)
      BY <2>2, <2>4 DEF Return
    <3>2. local[me] \notin given
      BY <2>2 DEF NumbersInv, DocAhead
    <3>3. ~twice'
      BY <3>1, <3>2 DEF NumbersInv, NoNumberTwice
    <3>4. \A v \in given' : v < doc'
      BY <2>2, <2>4, <3>1 DEF NumbersInv, DocAhead
    <3>5. doc' # None /\ doc' >= 1
      BY <2>2, <2>4 DEF NumbersInv
    <3> QED
      BY <2>1, <3>1, <3>3, <3>4, <3>5 DEF NumbersInv, NoNumberTwice, DocAhead
  <2> QED
    BY <1>15, <2>3, <2>4 DEF Update
<1>16. CASE Crash(p)
  <2>1. CallerInv(me)'
    BY <1>16 DEF Crash, Restart, CallerInv
  <2>2. NumbersInv'
    BY <1>16, NumbersUnchanged DEF Crash
  <2> QED
    BY <2>1, <2>2
<1> QED
  BY <1>2, <1>3, <1>4, <1>5, <1>6, <1>7, <1>8, <1>9, <1>10, <1>11, <1>12, <1>13, <1>14, <1>15, <1>16 DEF Next, Step

-----------------------------------------------------------------------------
(* The invariant holds in every reachable state: the document is always    *)
(* ahead of the numbers given out, the cached value never behind it.       *)
THEOREM SerialInvariant ==
  ASSUME Serial, NoSetCurrent, InsertKept
  PROVE  Spec => []SerialInv
<1>1. Init => SerialInv
  BY SerialInit
<1>2. SerialInv /\ [Next]_vars => SerialInv'
  BY SerialNext
<1> QED
  BY <1>1, <1>2, PTL DEF Spec

(* One caller at a time, however often it is restarted and whatever reads, *)
(* writes and answers fail, is never given a number twice.                 *)
THEOREM SerialNeverRepeats ==
  ASSUME Serial, NoSetCurrent, InsertKept
  PROVE  Spec => []NoNumberTwice
<1>1. SerialInv => NoNumberTwice
  BY DEF SerialInv, NumbersInv
<1> QED
  BY <1>1, SerialInvariant, PTL

(* What a restarted process reads is past every number given out.          *)
THEOREM SerialDocAhead ==
  ASSUME Serial, NoSetCurrent, InsertKept
  PROVE  Spec => []DocAhead
<1>1. SerialInv => DocAhead
  BY DEF SerialInv, NumbersInv
<1> QED
  BY <1>1, SerialInvariant, PTL

-----------------------------------------------------------------------------
(* Callers past the lookup use the object that is filed for their process. *)
Past(c) == pc[c] \notin {"idle", "lookup", "create"}
Filed == \A c \in Caller : Past(c) => mine[c] = sequences[ProcOf[c]] /\ mine[c] # None

LEMMA FiledNext == TypeOK /\ Filed /\ [Next]_vars => Filed'
<1> SUFFICES ASSUME TypeOK, Filed, [Next]_vars PROVE Filed'
  OBVIOUS
<1>0. /\ pc \in [Caller -> Places] /\ mine \in [Caller -> Caller \cup {None}]
      /\ sequences \in [Proc -> Caller \cup {None}] /\ None \notin Caller
  BY CallerAssumption DEF TypeOK, StateTypeOK
<1>1. CASE UNCHANGED <<sequences, mine, pc>>
  BY <1>1 DEF Filed, Past
<1>2. ASSUME NEW c \in Caller, NEW l, Goto(c, l), UNCHANGED <<sequences, mine>>,
             Past(c) \/ l \in {"idle", "lookup", "create"}
      PROVE  Filed'
  BY <1>0, <1>2 DEF Goto, Filed, Past
<1>3. ASSUME NEW c \in Caller, NEW o \in Ops, NEW v \in Values, Call(c, o, v) PROVE Filed'
  BY <1>2, <1>3 DEF Call
<1>4. ASSUME NEW c \in Caller, lookForSequence(c) PROVE Filed'
  <2>1. CASE sequences[ProcOf[c]] # None /\ Use(c, sequences[ProcOf[c]])
    BY <1>0, <1>4, <2>1 DEF lookForSequence, Use, Goto, Filed, Past
  <2>2. CASE Goto(c, "create") /\ UNCHANGED <<sequences, mine>>
    BY <1>2, <2>2
  <2> QED
    BY <1>4, <2>1, <2>2 DEF lookForSequence
<1>5. ASSUME NEW c \in Caller, createSequence(c) PROVE Filed'
  <2>1. CASE sequences[ProcOf[c]] # None /\ Use(c, sequences[ProcOf[c]]) /\ UNCHANGED sequences
    BY <1>0, <2>1 DEF Use, Goto, Filed, Past
  <2>2. CASE /\ sequences[ProcOf[c]] = None
             /\ sequences' = [sequences EXCEPT ![ProcOf[c]] = c] /\ Use(c, c)
    <3>1. \A d \in Caller \ {c} : Past(d) => ProcOf[d] # ProcOf[c]
      BY <2>2 DEF Filed
    <3>2. /\ sequences'[ProcOf[c]] = c /\ mine'[c] = c /\ mine'[c] # None
      BY <1>0, <2>2, ProcType DEF Use
    <3>3. ASSUME NEW d \in Caller \ {c}, Past(d)' PROVE mine'[d] = sequences'[ProcOf[d]] /\ mine'[d] # None
      <4>1. Past(d) /\ mine'[d] = mine[d]
        BY <1>0, <2>2, <3>3 DEF Use, Goto, Past
      <4>2. sequences'[ProcOf[d]] = sequences[ProcOf[d]]
        BY <1>0, <2>2, <3>1, <4>1, ProcType
      <4> QED
        BY <4>1, <4>2 DEF Filed
    <3> QED
      BY <3>2, <3>3 DEF Filed
  <2> QED
    BY <1>5, <2>1, <2>2 DEF createSequence
<1>r. ASSUME NEW p \in Proc, Restart(p), UNCHANGED mine PROVE Filed'
  BY <1>0, <1>r, ProcType DEF Restart, Filed, Past
<1>6. ASSUME NEW c \in Caller,
             \/ Check(c) \/ Find(c) \/ Insert(c) \/ Read(c) \/ Bump(c) \/ Assign(c)
             \/ Current(c) \/ Save(c) \/ Update(c)
      PROVE  Filed'
  <2>1. Past(c) /\ UNCHANGED <<sequences, mine>>
    BY <1>6 DEF Check, Find, Insert, Read, Bump, Assign, Current, Save, Update, At, Past
  <2>2. \E l : Goto(c, l)
    BY <1>6 DEF Check, Find, Insert, Read, Bump, Assign, Current, Save, Update, AfterLoad,
                Fail, Return
  <2> QED
    BY <1>2, <2>1, <2>2
<1>7. ASSUME NEW c \in Caller, Found(c) PROVE Filed'
  <2>1. Past(c) /\ UNCHANGED mine
    BY <1>7 DEF Found, At, Past
  <2>2. CASE \E l : Goto(c, l) /\ UNCHANGED sequences
    BY <1>2, <2>1, <2>2
  <2>3. CASE Restart(ProcOf[c])
    BY <1>r, <2>1, <2>3, ProcType
  <2> QED
    BY <1>7, <2>2, <2>3 DEF Found, AfterLoad, Panic
<1>8. ASSUME NEW p \in Proc, Crash(p) PROVE Filed'
  BY <1>r, <1>8 DEF Crash
<1> QED
  BY <1>1, <1>3, <1>4, <1>5, <1>6, <1>7, <1>8 DEF Next, Step, vars

(* However many goroutines ask at once, those of a process that are past   *)
(* the lookup share one object (createSequence's look under the lock).     *)
THEOREM AlwaysOneObject == Spec => []OneObject
<1>1. Init => Filed
  BY DEF Init, Filed, Past
<1>2. TypeOK /\ Filed /\ [Next]_vars => Filed'
  BY FiledNext
<1>3. Filed => OneObject
  <2> SUFFICES ASSUME Filed, NEW c \in Caller, NEW d \in Caller, ProcOf[c] = ProcOf[d],
                      {pc[c], pc[d]} \cap {"idle", "lookup", "create"} = {}
               PROVE  mine[c] = mine[d]
    BY DEF OneObject
  <2>1. Past(c) /\ Past(d)
    BY DEF Past
  <2> QED
    BY <2>1 DEF Filed
<1> QED
  BY <1>1, <1>2, <1>3, TypeCorrect, PTL DEF Spec

-----------------------------------------------------------------------------
(***************************************************************************)
(* The sequence that is served over NATS.                                  *)
(***************************************************************************)
Requests == [client : Remote, op : Ops, call : Nat]

RequestsOK ==
  /\ requests \subseteq Requests
  /\ serving # None => serving \in Requests
  /\ remote \in [Remote -> [at : {"idle", "waiting"}, op : OpKinds, call : Nat]]

LEMMA RequestsInit == NatsInit => RequestsOK
<1> SUFFICES ASSUME NatsInit PROVE RequestsOK
  OBVIOUS
<1>1. [at |-> "idle", op |-> "Next", call |-> 0]
        \in [at : {"idle", "waiting"}, op : OpKinds, call : Nat]
  BY DEF OpKinds
<1> QED
  BY <1>1 DEF NatsInit, RequestsOK

LEMMA RequestsNext == RequestsOK /\ [NatsNext]_allVars => RequestsOK'
<1> SUFFICES ASSUME RequestsOK, [NatsNext]_allVars PROVE RequestsOK'
  OBVIOUS
<1> USE DEF RequestsOK
<1>1. CASE UNCHANGED allVars
  BY <1>1 DEF allVars, vars, natsVars
<1>2. ASSUME NEW k \in Remote, Timeout(k) PROVE RequestsOK'
  BY <1>2 DEF Timeout, vars
<1>3. ASSUME NEW k \in Remote, NEW o \in Ops, RequestSync(k, o) PROVE RequestsOK'
  <2>1. remote[k].call \in Nat /\ remote[k].call + 1 \in Nat
    OBVIOUS
  <2>2. [client |-> k, op |-> o, call |-> remote[k].call + 1] \in Requests
    BY <2>1 DEF Requests
  <2>3. o \in OpKinds
    BY KindAssumption
  <2>4. remote' \in [Remote -> [at : {"idle", "waiting"}, op : OpKinds, call : Nat]]
    BY <1>3, <2>1, <2>3 DEF RequestSync
  <2> QED
    BY <1>3, <2>2, <2>4 DEF RequestSync, vars
<1>4. ASSUME NEW q \in requests, Serve(q) PROVE RequestsOK'
  BY <1>4 DEF Serve
<1>5. ASSUME NEW r \in replies, Deliver(r) PROVE RequestsOK'
  BY <1>5 DEF Deliver, vars
<1>6. CASE ServerStep
  BY <1>6 DEF ServerStep
<1>7. CASE ServerCrash
  BY <1>7 DEF ServerCrash
<1>8. CASE Publish
  BY <1>8 DEF Publish, vars
<1> QED
  BY <1>1, <1>2, <1>3, <1>4, <1>5, <1>6, <1>7, <1>8 DEF NatsNext

LEMMA ServerProcess == Server \in Caller /\ ProcOf[Server] \in Proc
BY ServerAssumption, CallerAssumption, ProcType

LEMMA StepOfSequence == RequestsOK /\ [NatsNext]_allVars => [Next]_vars
<1> SUFFICES ASSUME RequestsOK, [NatsNext]_allVars PROVE [Next]_vars
  OBVIOUS
<1>1. CASE UNCHANGED vars
  BY <1>1
<1>2. CASE UNCHANGED allVars
  BY <1>2 DEF allVars
<1>3. ASSUME NEW k \in Remote, Timeout(k) \/ \E o \in Ops : RequestSync(k, o) PROVE [Next]_vars
  BY <1>3 DEF Timeout, RequestSync
<1>4. ASSUME NEW q \in requests, Serve(q) PROVE [Next]_vars
  <2>1. q.op \in Ops
    BY DEF RequestsOK, Requests
  <2> QED
    BY <1>4, <2>1, ServerProcess, ServerAssumption DEF Serve, Next
<1>5. ASSUME NEW r \in replies, Deliver(r) PROVE [Next]_vars
  BY <1>5 DEF Deliver
<1>6. CASE ServerStep
  BY <1>6, ServerProcess DEF ServerStep, Next
<1>7. CASE ServerCrash
  BY <1>7, ServerProcess DEF ServerCrash, Next
<1>8. CASE Publish
  BY <1>8 DEF Publish
<1> QED
  BY <1>2, <1>3, <1>4, <1>5, <1>6, <1>7, <1>8 DEF NatsNext

(* With its clients and their messages hidden, the server's sequence is a  *)
(* Mongo sequence that has one caller (ProcessNatsRequest).                *)
THEOREM ServerIsACaller == NatsSpec => Spec
<1>1. NatsInit => Init
  BY DEF NatsInit
<1>2. NatsInit => RequestsOK
  BY RequestsInit
<1>3. RequestsOK /\ [NatsNext]_allVars => RequestsOK'
  BY RequestsNext
<1>4. RequestsOK /\ [NatsNext]_allVars => [Next]_vars
  BY StepOfSequence
<1> QED
  BY <1>1, <1>2, <1>3, <1>4, PTL DEF NatsSpec, Spec

-----------------------------------------------------------------------------
(* The numbers: a positive one was given out exactly when it is in one of  *)
(* four places, and in no reply but one.                                   *)
ForNext == {r \in replies : r.request.op = "Next" /\ r.value # None}
Replies == [request : Requests, value : Int \cup {None}]
Held(v) == v \in Carried(answer)

Placed(v) ==
  /\ v \in given => v \in received \/ v \in lost \/ InReply(v) \/ Held(v)
  /\ v \in received => v \in given /\ v \notin lost /\ ~InReply(v) /\ ~Held(v)
  /\ v \in lost => v \in given /\ ~InReply(v) /\ ~Held(v)
  /\ InReply(v) => v \in given /\ ~Held(v)
  /\ Held(v) => v \in given

NatsTypes ==
  /\ serving # None => serving.op = op[Server] /\ answer = None
  /\ answer \in Replies \cup {None}
  /\ replies \subseteq Replies
  /\ received \subseteq Int

NatsNumbers ==
  /\ NatsTypes
  /\ \A v \in given : v \in Int /\ v > 0
  /\ \A v \in Int : v > 0 => Placed(v)
  /\ \A r, s \in ForNext : r.value = s.value /\ r.value > 0 => r = s
  /\ again = FALSE

LEMMA NatsNumbersInit == NatsInit => NatsNumbers
BY DEF NatsInit, Init, NatsNumbers, NatsTypes, ForNext, Placed, InReply, Held, Carried

(* What Carried and InReply say of a number.                               *)
LEMMA HeldIs ==
  ASSUME NEW v \in Int
  PROVE  Held(v) <=> answer # None /\ answer.request.op = "Next" /\ answer.value = v
BY CallerAssumption DEF Held, Carried

LEMMA HeldIsNext ==
  ASSUME NEW v \in Int
  PROVE  Held(v)' <=> answer' # None /\ answer'.request.op = "Next" /\ answer'.value = v
BY CallerAssumption DEF Held, Carried

LEMMA StepKeepsOp == ASSUME Step(Server) PROVE op' = op
BY DEF Step, lookForSequence, createSequence, Use, Check, Find, Found, Insert, Read, Bump,
       Assign, Current, Save, Update

(* A step of the server answers with an error, with a number it has not    *)
(* given, or to another operation than Next; or it does not answer yet.    *)
LEMMA StepAnswers ==
  ASSUME TypeOK, SerialInv, SerialInv', Step(Server)
  PROVE  \/ pc'[Server] # "idle" /\ given' = given
         \/ /\ pc'[Server] = "idle" /\ given' = given
            /\ op[Server] = "Next" => ret'.value \in {-1, None}
         \/ /\ pc'[Server] = "idle" /\ op[Server] = "Next"
            /\ given' = given \cup {ret'.value} /\ ret'.value \notin given
            /\ ret'.value \in Int /\ ret'.value > 0
<1> DEFINE c == Server
<1>0. c \in Caller /\ pc \in [Caller -> Places]
  BY ServerProcess DEF TypeOK, StateTypeOK
<1>1. ASSUME UNCHANGED history PROVE given' = given
  BY <1>1 DEF history
<1>2. ASSUME Fail(c)
      PROVE  pc'[c] = "idle" /\ given' = given /\ ret'.value = -1
  BY <1>0, <1>2 DEF Fail, Return, Goto
<1>3. CASE lookForSequence(c) \/ createSequence(c) \/ Check(c) \/ Read(c) \/ Bump(c) \/ Assign(c) \/ Save(c)
  <2>1. UNCHANGED history
    BY <1>3 DEF lookForSequence, createSequence, Check, Read, Bump, Assign, Save
  <2>2. pc'[c] # "idle"
    BY <1>0, <1>3 DEF lookForSequence, createSequence, Use, Check, AfterLoad, Read, Bump, Assign, Save,
                      Goto, TypeOK, StateTypeOK, OpKinds
  <2> QED
    BY <1>1, <2>1, <2>2
<1>4. CASE Find(c)
  <2>1. CASE Fail(c)
    BY <1>2, <2>1
  <2>2. CASE Goto(c, "found") /\ UNCHANGED history
    BY <1>0, <1>1, <2>2 DEF Goto
  <2> QED
    BY <1>4, <2>1, <2>2 DEF Find
<1>p. ASSUME Panic(c)
      PROVE  pc'[c] = "idle" /\ given' = given /\ ret'.value = None
  BY <1>0, <1>p DEF Panic, Goto, Restart
<1>5. CASE Found(c) \/ Insert(c)
  <2>1. CASE Fail(c)
    BY <1>2, <2>1
  <2>3. CASE Panic(c)
    BY <1>p, <2>3
  <2>2. CASE (Goto(c, "insert") \/ AfterLoad(c)) /\ UNCHANGED history
    <3>1. pc'[c] # "idle"
      BY <1>0, <2>2 DEF Goto, AfterLoad, TypeOK, StateTypeOK, OpKinds
    <3> QED
      BY <1>1, <2>2, <3>1
  <2> QED
    BY <1>5, <2>1, <2>2, <2>3 DEF Found, Insert
<1>6. CASE Current(c)
  <2>1. op[c] = "Current"
    BY <1>0, <1>6 DEF Current, At, SerialInv, CallerInv
  <2>2. pc'[c] = "idle" /\ given' = given
    BY <1>0, <1>6, <2>1 DEF Current, Return, Goto
  <2> QED
    BY <2>1, <2>2
<1>7. CASE Update(c)
  <2>1. CASE Fail(c)
    BY <1>2, <2>1
  <2>2. CASE Return(c, TRUE, Result(c))
    <3>1. op[c] = "Next"
      BY <1>0, <1>7 DEF Update, At, SerialInv, CallerInv
    <3>2. /\ pc'[c] = "idle" /\ ret'.value = Result(c) /\ given' = given \cup {Result(c)}
          /\ twice' = (twice \/ Result(c) \in given)
      BY <1>0, <2>2, <3>1 DEF Return, Goto
    <3>3. ~twice'
      BY DEF SerialInv, NumbersInv, NoNumberTwice
    <3>4. local[c] \in Int /\ doc \in Int /\ local[c] >= doc /\ doc >= 1
      BY <1>0, <1>7, CallerAssumption
         DEF Update, At, SerialInv, CallerInv, NumbersInv, TypeOK, StateTypeOK
    <3>5. Result(c) = local[c]
      BY <3>1 DEF Result
    <3>6. Result(c) \notin given
      BY <3>2, <3>3
    <3>7. ret'.value \in Int /\ ret'.value > 0
      BY <3>2, <3>4, <3>5
    <3> QED
      BY <3>1, <3>2, <3>6, <3>7
  <2> QED
    BY <1>7, <2>1, <2>2 DEF Update
<1> QED
  BY <1>3, <1>4, <1>5, <1>6, <1>7 DEF Step

(* A step that leaves the numbers and their places alone.                  *)
LEMMA PlacesUnchanged ==
  ASSUME NatsNumbers, NatsTypes', UNCHANGED <<given, received, replies, lost, again>>,
         \A v \in Int : v > 0 => (Held(v)' <=> Held(v))
  PROVE  NatsNumbers'
<1>1. \A v \in Int : v > 0 => Placed(v)'
  BY DEF NatsNumbers, Placed, InReply
<1> QED
  BY <1>1 DEF NatsNumbers, ForNext

LEMMA ServeKeeps ==
  ASSUME NatsNumbers, RequestsOK, TypeOK, NEW q \in requests, Serve(q)
  PROVE  NatsNumbers'
<1>0. q \in Requests /\ op \in [Caller -> OpKinds] /\ UNCHANGED <<replies, received, again, lost>>
  BY DEF Serve, RequestsOK, TypeOK, StateTypeOK
<1>1. CASE serving' = q /\ Call(Server, q.op, 0) /\ UNCHANGED answer
  <2>1. given' = given /\ op'[Server] = q.op /\ answer' = None /\ answer = None
    BY <1>0, <1>1, ServerProcess DEF Serve, Call, history
  <2>2. NatsTypes'
    BY <1>0, <1>1, <2>1 DEF NatsNumbers, NatsTypes
  <2>3. \A v \in Int : v > 0 => (Held(v)' <=> Held(v))
    BY <2>1, HeldIs, HeldIsNext
  <2> QED
    BY <1>0, <2>1, <2>2, <2>3, PlacesUnchanged
<1>2. CASE /\ answer' = Reply(q, IF topic = "dotted" THEN 0 ELSE None)
           /\ UNCHANGED <<vars, serving>>
  <2>1. given' = given /\ op' = op /\ answer = None /\ serving = None
    BY <1>2 DEF Serve, vars
  <2>2. answer'.value \in {0, None} /\ answer' \in Replies
    BY <1>0, <1>2 DEF Reply, Replies
  <2>3. NatsTypes'
    BY <1>0, <1>2, <2>1, <2>2 DEF NatsNumbers, NatsTypes
  <2>4. \A v \in Int : v > 0 => (Held(v)' <=> Held(v))
    BY <2>1, <2>2, HeldIs, HeldIsNext, CallerAssumption
  <2> QED
    BY <1>0, <2>1, <2>3, <2>4, PlacesUnchanged
<1> QED
  BY <1>1, <1>2 DEF Serve

LEMMA ServerStepKeeps ==
  ASSUME NatsNumbers, RequestsOK, TypeOK, TypeOK', SerialInv, SerialInv', ServerStep
  PROVE  NatsNumbers'
<1>1. /\ serving # None /\ serving \in Requests /\ serving.op = op[Server] /\ answer = None
      /\ op' = op /\ Step(Server) /\ UNCHANGED <<replies, received, again, lost>>
  BY StepKeepsOp DEF ServerStep, RequestsOK, NatsNumbers, NatsTypes
<1>2. \A v \in Int : ~Held(v)
  BY <1>1, HeldIs
<1>3. ASSUME given' = given, NatsTypes', \A v \in Int : v > 0 => ~Held(v)' PROVE NatsNumbers'
  BY <1>1, <1>2, <1>3, PlacesUnchanged
<1>4. CASE serving' = serving /\ answer' = answer /\ pc'[Server] # "idle"
  <2>1. given' = given
    BY <1>4, StepAnswers, <1>1
  <2>2. NatsTypes'
    BY <1>1, <1>4 DEF NatsNumbers, NatsTypes
  <2> QED
    BY <1>1, <1>3, <1>4, <2>1, <2>2, HeldIsNext
<1>5. CASE pc'[Server] = "idle" /\ ret'.value = None /\ serving' = None /\ answer' = answer
  <2>1. given' = given
    BY <1>1, <1>5, StepAnswers, CallerAssumption
  <2>2. NatsTypes'
    BY <1>1, <1>5 DEF NatsNumbers, NatsTypes
  <2> QED
    BY <1>1, <1>3, <1>5, <2>1, <2>2, HeldIsNext
<1>6. CASE /\ pc'[Server] = "idle" /\ ret'.value # None /\ serving' = None
           /\ answer' = Reply(serving, ret'.value)
  <2>1. ret'.value \in Int
    BY <1>6 DEF TypeOK, HistoryTypeOK
  <2>2. /\ answer' \in Replies /\ answer'.value = ret'.value /\ answer'.request.op = op[Server]
        /\ NatsTypes'
    BY <1>1, <1>6, <2>1 DEF Reply, Replies, NatsNumbers, NatsTypes
  <2>3. CASE given' = given /\ (op[Server] = "Next" => ret'.value \in {-1, None})
    <3>1. \A v \in Int : v > 0 => ~Held(v)'
      BY <1>6, <2>2, <2>3, HeldIsNext
    <3> QED
      BY <1>3, <2>2, <2>3, <3>1
  <2>4. CASE /\ op[Server] = "Next" /\ given' = given \cup {ret'.value}
             /\ ret'.value \notin given /\ ret'.value > 0
    <3> PICK n \in Int : n = ret'.value
      BY <2>1
    <3>1. answer' # None
      BY <2>2, NoneAssumption DEF Replies, Requests
    <3>2. \A v \in Int : Held(v)' <=> v = n
      BY <2>2, <2>4, <3>1, HeldIsNext
    <3>3. \A v \in Int : v > 0 => Placed(v)'
      <4> SUFFICES ASSUME NEW v \in Int, v > 0 PROVE Placed(v)'
        OBVIOUS
      <4>1. Placed(v)
        BY DEF NatsNumbers
      <4>2. InReply(v)' <=> InReply(v)
        BY <1>1 DEF InReply
      <4>3. CASE v = n
        <5>1. v \notin given /\ v \in given' /\ Held(v)'
          BY <2>4, <3>2, <4>3
        <5> QED
          BY <1>1, <4>1, <4>2, <5>1 DEF Placed
      <4>4. CASE v # n
        <5>1. ~Held(v)' /\ ~Held(v) /\ (v \in given' <=> v \in given)
          BY <1>2, <2>4, <3>2, <4>4
        <5> QED
          BY <1>1, <4>1, <4>2, <5>1 DEF Placed
      <4> QED
        BY <4>3, <4>4
    <3>4. \A v \in given' : v \in Int /\ v > 0
      BY <2>1, <2>4 DEF NatsNumbers
    <3> QED
      BY <1>1, <2>2, <3>3, <3>4 DEF NatsNumbers, ForNext
  <2> QED
    BY <1>1, <1>6, <2>3, <2>4, StepAnswers
<1> QED
  BY <1>4, <1>5, <1>6 DEF ServerStep

(* The number in hand becomes lost, if there is one.                       *)
LEMMA DroppedKeeps ==
  ASSUME NatsNumbers, NatsTypes', answer' = None, lost' = lost \cup Carried(answer),
         UNCHANGED <<given, received, replies, again>>
  PROVE  NatsNumbers'
<1>1. \A v \in Int : v > 0 => Placed(v)'
  <2> SUFFICES ASSUME NEW v \in Int, v > 0 PROVE Placed(v)'
    OBVIOUS
  <2>1. Placed(v) /\ ~Held(v)' /\ (InReply(v)' <=> InReply(v))
    BY HeldIsNext DEF NatsNumbers, InReply
  <2>2. v \in lost' <=> v \in lost \/ Held(v)
    BY DEF Held
  <2> QED
    BY <2>1, <2>2 DEF Placed
<1> QED
  BY <1>1 DEF NatsNumbers, ForNext

LEMMA PublishKeeps == ASSUME NatsNumbers, Publish PROVE NatsNumbers'
<1>1. /\ answer \in Replies /\ answer' = None /\ serving' = serving /\ op' = op
      /\ UNCHANGED <<given, received, again>>
  BY DEF Publish, vars, NatsNumbers, NatsTypes
<1>2. CASE replies' = replies \cup {answer} /\ UNCHANGED lost
  <2>1. NatsTypes'
    BY <1>1, <1>2 DEF NatsNumbers, NatsTypes
  <2>2. \A v \in Int : v > 0 => Placed(v)'
    <3> SUFFICES ASSUME NEW v \in Int, v > 0 PROVE Placed(v)'
      OBVIOUS
    <3>1. Placed(v) /\ ~Held(v)'
      BY <1>1, HeldIsNext DEF NatsNumbers
    <3>2. InReply(v)' <=> InReply(v) \/ Held(v)
      BY <1>2, HeldIs DEF InReply, Publish
    <3> QED
      BY <1>1, <1>2, <3>1, <3>2 DEF Placed
  <2>3. \A r \in ForNext : r.value \in Int /\ InReply(r.value)
    BY DEF ForNext, InReply, NatsNumbers, NatsTypes, Replies
  <2>4. ForNext' \subseteq ForNext \cup {answer}
    BY <1>2 DEF ForNext
  <2>5. answer \in ForNext' => answer.value \in Int /\ Held(answer.value)
    BY <1>1, <1>2, HeldIs DEF ForNext, Replies, Publish
  <2>6. ASSUME NEW r \in ForNext, answer \in ForNext', r.value > 0 PROVE r.value # answer.value
    BY <2>3, <2>5, <2>6 DEF NatsNumbers, Placed
  <2>7. \A r, s \in ForNext' : r.value = s.value /\ r.value > 0 => r = s
    BY <2>4, <2>6 DEF NatsNumbers
  <2> QED
    BY <1>1, <2>1, <2>2, <2>7 DEF NatsNumbers
<1>3. CASE lost' = lost \cup Carried(answer) /\ UNCHANGED replies
  <2>1. NatsTypes'
    BY <1>1, <1>3 DEF NatsNumbers, NatsTypes
  <2> QED
    BY <1>1, <1>3, <2>1, DroppedKeeps
<1> QED
  BY <1>2, <1>3 DEF Publish

LEMMA DeliverKeeps ==
  ASSUME NatsNumbers, NEW r \in replies, Deliver(r)
  PROVE  NatsNumbers'
<1>1. /\ replies' = replies \ {r} /\ UNCHANGED <<given, serving, answer, op, lost>>
      /\ r \in ForNext => /\ received' = received \cup {r.value}
                          /\ again' = (again \/ (r.value \in received /\ r.value > 0))
      /\ r \notin ForNext => received' = received /\ again' = again
  BY DEF Deliver, vars, ForNext
<1>2. r.value \in Int \cup {None} /\ (r \in ForNext => r.value \in Int /\ InReply(r.value))
  BY DEF NatsNumbers, NatsTypes, Replies, ForNext, InReply
<1>3. NatsTypes'
  BY <1>1, <1>2 DEF NatsNumbers, NatsTypes
<1>4. again' = FALSE
  BY <1>1, <1>2 DEF NatsNumbers, Placed
<1>5. \A v \in Int : v > 0 => Placed(v)'
  <2> SUFFICES ASSUME NEW v \in Int, v > 0 PROVE Placed(v)'
    OBVIOUS
  <2>1. Placed(v) /\ (Held(v)' <=> Held(v))
    BY <1>1, HeldIs, HeldIsNext DEF NatsNumbers
  <2>2. CASE r \in ForNext /\ r.value = v
    <3>1. InReply(v) /\ v \in received' /\ r.value > 0
      BY <1>1, <1>2, <2>2
    <3>2. ~InReply(v)'
      <4> SUFFICES ASSUME NEW s \in replies', s.request.op = "Next", s.value = v PROVE FALSE
        BY DEF InReply
      <4>1. s \in ForNext /\ s # r
        BY <1>1, CallerAssumption DEF ForNext
      <4> QED
        BY <2>2, <3>1, <4>1 DEF NatsNumbers
    <3> QED
      BY <1>1, <2>1, <3>1, <3>2 DEF Placed
  <2>3. CASE ~(r \in ForNext /\ r.value = v)
    <3>1. v \in received' <=> v \in received
      BY <1>1, <2>3
    <3>2. InReply(v)' <=> InReply(v)
      BY <1>1, <2>3, CallerAssumption DEF InReply, ForNext
    <3> QED
      BY <1>1, <2>1, <3>1, <3>2 DEF Placed
  <2> QED
    BY <2>2, <2>3
<1>6. \A s, t \in ForNext' : s.value = t.value /\ s.value > 0 => s = t
  BY <1>1 DEF NatsNumbers, ForNext
<1> QED
  BY <1>1, <1>3, <1>4, <1>5, <1>6 DEF NatsNumbers

LEMMA NatsNumbersNext ==
  ASSUME NatsNumbers, RequestsOK, TypeOK, TypeOK', SerialInv, SerialInv', [NatsNext]_allVars
  PROVE  NatsNumbers'
<1>1. ASSUME UNCHANGED <<vars, serving, answer, replies, received, again, lost>> PROVE NatsNumbers'
  <2>1. NatsTypes' /\ UNCHANGED <<given, received, replies, lost, again, answer>>
    BY <1>1 DEF vars, NatsNumbers, NatsTypes
  <2>2. \A v \in Int : v > 0 => (Held(v)' <=> Held(v))
    BY <2>1, HeldIs, HeldIsNext
  <2> QED
    BY <2>1, <2>2, PlacesUnchanged
<1>2. CASE UNCHANGED allVars
  BY <1>1, <1>2 DEF allVars, natsVars
<1>3. ASSUME NEW k \in Remote, Timeout(k) \/ \E o \in Ops : RequestSync(k, o) PROVE NatsNumbers'
  BY <1>1, <1>3 DEF Timeout, RequestSync
<1>4. ASSUME NEW q \in requests, Serve(q) PROVE NatsNumbers'
  BY <1>4, ServeKeeps
<1>5. ASSUME NEW r \in replies, Deliver(r) PROVE NatsNumbers'
  BY <1>5, DeliverKeeps
<1>6. CASE ServerStep
  BY <1>6, ServerStepKeeps
<1>7. CASE Publish
  BY <1>7, PublishKeeps
<1>8. CASE ServerCrash
  <2>1. /\ answer' = None /\ serving' = None /\ op' = op /\ lost' = lost \cup Carried(answer)
        /\ UNCHANGED <<given, received, replies, again>>
    BY <1>8 DEF ServerCrash, Crash, history
  <2>2. NatsTypes'
    BY <2>1 DEF NatsNumbers, NatsTypes
  <2> QED
    BY <2>1, <2>2, DroppedKeeps
<1> QED
  BY <1>2, <1>3, <1>4, <1>5, <1>6, <1>7, <1>8 DEF NatsNext

(* Whatever is delayed, lost, timed out, restarted or not published, no    *)
(* number reaches two calls of Next, and one that was given out is in one  *)
(* place (commandForSequence, ProcessNatsRequest and what publishes its    *)
(* answer).                                                                *)
THEOREM NumbersReachOneCall ==
  ASSUME NoSetCurrent, InsertKept
  PROVE  NatsSpec => []NumbersKept
<1>1. Serial
  BY ServerAssumption DEF Serial
<1>2. NatsSpec => []SerialInv
  BY <1>1, SerialInvariant, ServerIsACaller, PTL
<1>3. NatsSpec => []TypeOK
  BY TypeCorrect, ServerIsACaller, PTL
<1>4. NatsInit => RequestsOK /\ NatsNumbers
  BY RequestsInit, NatsNumbersInit
<1>5. RequestsOK /\ [NatsNext]_allVars => RequestsOK'
  BY RequestsNext
<1>6. /\ NatsNumbers /\ RequestsOK /\ TypeOK /\ TypeOK' /\ SerialInv /\ SerialInv'
      /\ [NatsNext]_allVars
      => NatsNumbers'
  BY NatsNumbersNext
<1>7. NatsNumbers => NumbersKept
  BY DEF NatsNumbers, NumbersKept, ClientsNeverShare, NumberHasOnePlace, Placed, Held
<1> QED
  BY <1>2, <1>3, <1>4, <1>5, <1>6, <1>7, PTL DEF NatsSpec
=============================================================================
