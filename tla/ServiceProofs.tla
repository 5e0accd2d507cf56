--------------------------- MODULE ServiceProofs ---------------------------
(***************************************************************************)
(* Services that keep a little state among many goroutines, for any number *)
(* of them: JobsExplained of Cron, in two parts that do not touch, the     *)
(* list of jobs with their identifiers and what runs make of a job;        *)
(* OldProgramExplained of Scripting; StartsRight of EngineStart; and, for  *)
(* any number of processes, resources, starts and failing calls, and any   *)
(* way the parents are declared, ResourcesExplained of Resources; and, for *)
(* any providers, priorities and callbacks, ConfigExplained of Config;     *)
(* and, for any dates and steps, NothingSkipped of DateIterator.           *)
(***************************************************************************)
EXTENDS Cron, Scripting, EngineStart, Resources, Config, DateIterator,
        FiniteSetTheorems, WellFoundedInduction, TLAPS

Filled == {i \in Ids : jobs[i] # NoRun}

(* The list has no gaps, holds jobs under their identifiers, and nobody    *)
(* who waits for the lock with a number can overwrite a job that met no    *)
(* other when it was added.                                                *)
ListInv ==
  /\ \A i \in Ids : jobs[i] # NoRun <=> i < JobsLen
  /\ \A i \in Ids : jobs[i] # NoRun => adding[jobs[i]] = "added" /\ id[jobs[i]] = i
  /\ \A j \in Job : adding[j] = "numbered" => id[j] <= JobsLen
  /\ \A j \in Job : adding[j] = "numbered" /\ j \notin raced =>
       \A k \in Job \ {j} : adding[k] # "numbered"
  /\ \A j, k \in Job : adding[j] = "added" /\ j \notin raced /\ adding[k] = "numbered" => id[j] # id[k]
  /\ ListedUnderItsId

(* A job whose runs never overlapped has one at most, and the count that   *)
(* run has read is the job's still.                                        *)
RunInv ==
  /\ \A r \in Run : run[r].at \in {"command", "counting"} => run[r].job \in Job
  /\ \A j \in Job \ overlaps : \A r, s \in Active(j) : r = s
  /\ \A j \in Job \ overlaps : \A r \in Active(j) :
       run[r].at = "counting" => run[r].count = runCount[j]
  /\ JobTellsTheTruth

(* A canceller that is at work has a job.                                  *)
CancelInv == \A c \in Canceller : cancel[c] # Idle => cancel[c].job \in Job

CronInv == CronTypeOK /\ ListInv /\ RunInv /\ CancelInv

-----------------------------------------------------------------------------
LEMMA IdsFinite == Cardinality(Job) \in Nat /\ Ids \subseteq Nat /\ IsFiniteSet(Ids)
<1>1. Cardinality(Job) \in Nat
  BY JobAssumption, FS_CardinalityType
<1>2. IsFiniteSet(Ids)
  BY <1>1, FS_Interval DEF Ids
<1> QED
  BY <1>1, <1>2 DEF Ids

LEMMA FilledFinite == IsFiniteSet(Filled) /\ JobsLen = Cardinality(Filled) /\ JobsLen \in Nat
<1>1. Filled \in SUBSET Ids
  BY DEF Filled
<1>2. IsFiniteSet(Filled)
  BY <1>1, IdsFinite, FS_Subset
<1> QED
  BY <1>2, FS_CardinalityType DEF Filled, JobsLen

(* A job that is not added yet leaves a number for itself.                 *)
LEMMA NumberThere ==
  ASSUME CronTypeOK, ListInv, NEW j \in Job, adding[j] # "added"
  PROVE  JobsLen \in Ids
<1> DEFINE f == [i \in Filled |-> jobs[i]]
           Others == Job \ {j}
<1>1. \A i \in Filled : jobs[i] \in Others /\ id[jobs[i]] = i
  BY DEF Filled, CronTypeOK, ListInv
<1>2. f \in [Filled -> Others]
  BY <1>1
<1>3. \A a, b \in Filled : f[a] = f[b] => a = b
  BY <1>1
<1>4. f \in Injection(Filled, Others)
  BY <1>2, <1>3 DEF Injection, IsInjective
<1>5. IsFiniteSet(Others) /\ Cardinality(Others) = Cardinality(Job) - 1
  BY JobAssumption, FS_RemoveElement
<1>6. Cardinality(Filled) <= Cardinality(Others)
  BY <1>4, <1>5, FS_Injection
<1> QED
  BY <1>5, <1>6, FilledFinite, IdsFinite DEF Ids

LEMMA CronInvInit == CronInit => CronInv
<1> SUFFICES ASSUME CronInit PROVE CronInv
  OBVIOUS
<1>1. NotRun \in [at : {"new", "command", "counting", "done"}, job : Job \cup {NoRun}, count : Nat]
  BY DEF NotRun
<1>2. Idle \in [job : Job \cup {NoRun}, saw : Run \cup {NoRun}]
  BY DEF Idle
<1>3. Job # {} => 0 \in Ids
  <2> SUFFICES ASSUME Job # {} PROVE 0 \in Ids
    OBVIOUS
  <2>1. Cardinality(Job) # 0
    BY JobAssumption, FS_EmptySet
  <2> QED
    BY <2>1, IdsFinite DEF Ids
<1>4. CronTypeOK
  BY <1>1, <1>2, <1>3 DEF CronInit, CronTypeOK
<1>5. Filled = {}
  BY DEF CronInit, Filled
<1>6. JobsLen = 0
  BY <1>5, FilledFinite, FS_EmptySet
<1>7. ListInv
  BY <1>6, IdsFinite DEF CronInit, ListInv, ListedUnderItsId
<1>8. \A r \in Run : run[r].at = "new"
  BY DEF CronInit, NotRun
<1>9. \A j \in Job : Active(j) = {}
  BY <1>8 DEF Active
<1>10. RunInv
  BY <1>8, <1>9 DEF CronInit, RunInv, JobTellsTheTruth
<1> QED
  BY <1>4, <1>7, <1>10 DEF CronInv, CancelInv, CronInit

LEMMA CronTypeNext ==
  ASSUME CronTypeOK, ListInv, RunInv, CancelInv, [CronNext]_cronVars
  PROVE  CronTypeOK'
<1> USE DEF CronTypeOK
<1>1. CASE UNCHANGED cronVars
  BY <1>1 DEF cronVars
<1>2. ASSUME NEW j \in Job, NumberJob(j) PROVE CronTypeOK'
  <2>1. JobsLen \in Ids
    BY <1>2, NumberThere DEF NumberJob
  <2>2. raced' \subseteq Job
    BY <1>2 DEF NumberJob
  <2> QED
    BY <1>2, <2>1, <2>2 DEF NumberJob
<1>3. ASSUME NEW j \in Job, FileJob(j) PROVE CronTypeOK'
  BY <1>3 DEF FileJob
<1>4. ASSUME NEW r \in Run, NEW j \in Job, BeginRun(r, j) PROVE CronTypeOK'
  BY <1>4 DEF BeginRun
<1>5. ASSUME NEW r \in Run, run[r].job \in Job,
             ReturnFromCommand(r) \/ PanicInCommand(r) \/ EndRun(r)
      PROVE  CronTypeOK'
  <2>1. CASE ReturnFromCommand(r)
    BY <1>5, <2>1 DEF ReturnFromCommand
  <2>2. CASE PanicInCommand(r)
    BY <1>5, <2>2 DEF PanicInCommand
  <2>3. CASE EndRun(r)
    BY <1>5, <2>3 DEF EndRun
  <2> QED
    BY <1>5, <2>1, <2>2, <2>3
<1>6. ASSUME NEW c \in Canceller, NEW j \in Job, TestCancel(c, j) PROVE CronTypeOK'
  BY <1>6 DEF TestCancel
<1>7. ASSUME NEW c \in Canceller, CallCancel(c) PROVE CronTypeOK'
  <2>1. cancel'= [cancel EXCEPT ![c] = Idle] /\ Idle \in [job : Job \cup {NoRun}, saw : Run \cup {NoRun}]
    BY <1>7 DEF CallCancel, Idle
  <2>2. cancelled' \subseteq Run /\ nilCall' \in BOOLEAN
    <3>1. PICK f \in {cancel[c].saw, cancelFn[cancel[c].job]} :
             IF f = NoRun THEN nilCall' = TRUE /\ UNCHANGED cancelled
             ELSE cancelled' = cancelled \cup {f} /\ UNCHANGED nilCall
      BY <1>7 DEF CallCancel
    <3>2. cancel[c].job \in Job /\ cancel[c].saw \in Run \cup {NoRun}
      BY <1>7 DEF CallCancel, CancelInv
    <3>3. f \in Run \cup {NoRun}
      BY <3>2
    <3>4. CASE f = NoRun
      BY <3>1, <3>4
    <3>5. CASE f # NoRun
      BY <3>1, <3>3, <3>5
    <3> QED
      BY <3>4, <3>5
  <2> QED
    BY <1>7, <2>1, <2>2 DEF CallCancel
<1>8. \A r \in Run : ReturnFromCommand(r) \/ PanicInCommand(r) \/ EndRun(r) => run[r].job \in Job
  BY DEF RunInv, ReturnFromCommand, PanicInCommand, EndRun
<1> QED
  BY <1>1, <1>2, <1>3, <1>4, <1>5, <1>6, <1>7, <1>8 DEF CronNext

-----------------------------------------------------------------------------
LEMMA NumberKeepsList ==
  ASSUME CronTypeOK, ListInv, NEW j \in Job, NumberJob(j)
  PROVE  ListInv'
<1> DEFINE others == {k \in Job \ {j} : adding[k] = "numbered"}
<1>1. /\ adding[j] = "new" /\ jobs' = jobs
      /\ adding' = [adding EXCEPT ![j] = "numbered"] /\ id' = [id EXCEPT ![j] = JobsLen]
      /\ raced' = raced \cup others \cup (IF others # {} THEN {j} ELSE {})
  BY DEF NumberJob
<1>2. JobsLen' = JobsLen
  BY <1>1 DEF JobsLen
<1>3. /\ adding'[j] = "numbered" /\ id'[j] = JobsLen
      /\ \A k \in Job \ {j} : adding'[k] = adding[k] /\ id'[k] = id[k]
  BY <1>1 DEF CronTypeOK
<1>4. JobsLen \in Nat
  BY FilledFinite
<1>5. \A i \in Ids : jobs[i] # NoRun => jobs[i] \in Job \ {j}
  BY <1>1 DEF CronTypeOK, ListInv
<1>6. \A i \in Ids : jobs'[i] # NoRun => adding'[jobs'[i]] = "added" /\ id'[jobs'[i]] = i
  BY <1>1, <1>3, <1>5 DEF ListInv
<1>7. \A k \in Job : adding'[k] = "numbered" => id'[k] <= JobsLen
  BY <1>3, <1>4 DEF ListInv
<1>8. \A k \in Job : adding'[k] = "numbered" /\ k \notin raced' =>
        \A l \in Job \ {k} : adding'[l] # "numbered"
  BY <1>1, <1>3
<1>9. \A k \in Job : adding'[k] = "added" /\ k \notin raced' =>
        k # j /\ adding[k] = "added" /\ k \notin raced /\ jobs[id[k]] = k /\ id[k] < JobsLen
  <2> SUFFICES ASSUME NEW k \in Job, adding'[k] = "added", k \notin raced'
               PROVE  k # j /\ adding[k] = "added" /\ k \notin raced /\ jobs[id[k]] = k /\ id[k] < JobsLen
    OBVIOUS
  <2>1. k # j /\ adding[k] = "added" /\ k \notin raced
    BY <1>1, <1>3
  <2>2. jobs[id[k]] = k
    BY <2>1 DEF ListInv, ListedUnderItsId
  <2>3. id[k] \in Ids /\ jobs[id[k]] # NoRun
    BY <2>2, NoRunAssumption DEF CronTypeOK
  <2> QED
    BY <2>1, <2>2, <2>3 DEF ListInv
<1>10. \A k, l \in Job : adding'[k] = "added" /\ k \notin raced' /\ adding'[l] = "numbered" => id'[k] # id'[l]
  <2> SUFFICES ASSUME NEW k \in Job, NEW l \in Job, adding'[k] = "added", k \notin raced',
                      adding'[l] = "numbered"
               PROVE  id'[k] # id'[l]
    OBVIOUS
  <2>1. k # j /\ adding[k] = "added" /\ k \notin raced /\ id[k] < JobsLen /\ id'[k] = id[k]
    BY <1>3, <1>9
  <2>2. id[k] \in Int
    <3>1. id[k] \in Ids
      BY DEF CronTypeOK
    <3>2. id[k] \in Nat
      BY <3>1, IdsFinite
    <3> QED
      BY <3>2
  <2>3. CASE l = j
    BY <1>3, <1>4, <2>1, <2>2, <2>3
  <2>4. CASE l # j
    BY <1>3, <2>1, <2>4 DEF ListInv
  <2> QED
    BY <2>3, <2>4
<1>11. ListedUnderItsId'
  BY <1>1, <1>3, <1>9 DEF ListedUnderItsId
<1>12. \A i \in Ids : jobs'[i] # NoRun <=> i < JobsLen'
  BY <1>1, <1>2 DEF ListInv
<1> QED
  BY <1>2, <1>6, <1>7, <1>8, <1>10, <1>11, <1>12 DEF ListInv

LEMMA FileKeepsList ==
  ASSUME CronTypeOK, ListInv, NEW j \in Job, FileJob(j)
  PROVE  ListInv'
<1> DEFINE n == id[j]
<1>1. /\ adding[j] = "numbered" /\ jobs' = [jobs EXCEPT ![n] = j]
      /\ adding' = [adding EXCEPT ![j] = "added"] /\ id' = id /\ raced' = raced
  BY DEF FileJob
<1>2. n \in Ids /\ n \in Nat /\ n <= JobsLen /\ JobsLen \in Nat
  BY <1>1, IdsFinite, FilledFinite DEF CronTypeOK, ListInv
<1>3. /\ jobs'[n] = j /\ \A i \in Ids \ {n} : jobs'[i] = jobs[i]
      /\ adding'[j] = "added" /\ \A k \in Job \ {j} : adding'[k] = adding[k]
  BY <1>1, <1>2 DEF CronTypeOK
<1>4. j # NoRun
  BY NoRunAssumption
<1>5. Filled' = Filled \cup {n}
  BY <1>2, <1>3, <1>4 DEF Filled
<1>6. JobsLen' = Cardinality(Filled') /\ JobsLen = Cardinality(Filled) /\ IsFiniteSet(Filled)
  BY FilledFinite DEF Filled, JobsLen
<1>7. n \in Filled <=> n < JobsLen
  BY <1>2 DEF Filled, ListInv
<1>8. JobsLen' = IF n < JobsLen THEN JobsLen ELSE JobsLen + 1
  BY <1>5, <1>6, <1>7, FS_AddElement
<1>9. \A i \in Ids : jobs'[i] # NoRun <=> i < JobsLen'
  <2> SUFFICES ASSUME NEW i \in Ids PROVE jobs'[i] # NoRun <=> i < JobsLen'
    OBVIOUS
  <2>1. i \in Nat /\ (jobs[i] # NoRun <=> i < JobsLen)
    BY IdsFinite DEF ListInv
  <2>2. CASE i = n
    BY <1>2, <1>3, <1>4, <1>8, <2>2
  <2>3. CASE i # n
    BY <1>2, <1>3, <1>8, <2>1, <2>3
  <2> QED
    BY <2>2, <2>3
<1>10. \A i \in Ids : jobs'[i] # NoRun => adding'[jobs'[i]] = "added" /\ id'[jobs'[i]] = i
  <2> SUFFICES ASSUME NEW i \in Ids, jobs'[i] # NoRun
               PROVE  adding'[jobs'[i]] = "added" /\ id'[jobs'[i]] = i
    OBVIOUS
  <2>1. CASE i = n
    BY <1>1, <1>3, <2>1
  <2>2. CASE i # n
    <3>1. jobs'[i] = jobs[i] /\ jobs[i] \in Job /\ adding[jobs[i]] = "added" /\ id[jobs[i]] = i
      BY <1>3, <2>2 DEF CronTypeOK, ListInv
    <3> QED
      BY <1>1, <1>3, <3>1
  <2> QED
    BY <2>1, <2>2
<1>11. \A k \in Job : adding'[k] = "numbered" => id'[k] <= JobsLen'
  <2> SUFFICES ASSUME NEW k \in Job, adding'[k] = "numbered" PROVE id[k] <= JobsLen'
    BY <1>1
  <2>1. adding[k] = "numbered" /\ id[k] <= JobsLen /\ id[k] \in Nat
    BY <1>3, IdsFinite DEF CronTypeOK, ListInv
  <2> QED
    BY <1>2, <1>8, <2>1
<1>12. \A k \in Job : adding'[k] = "numbered" /\ k \notin raced' =>
         \A l \in Job \ {k} : adding'[l] # "numbered"
  BY <1>1, <1>3 DEF ListInv
<1>13. \A k, l \in Job : adding'[k] = "added" /\ k \notin raced' /\ adding'[l] = "numbered" => id'[k] # id'[l]
  <2> SUFFICES ASSUME NEW k \in Job, NEW l \in Job, adding'[k] = "added", k \notin raced,
                      adding'[l] = "numbered"
               PROVE  id[k] # id[l]
    BY <1>1
  <2>1. l # j /\ adding[l] = "numbered"
    BY <1>3
  <2>2. CASE k = j
    BY <1>1, <2>1, <2>2 DEF ListInv
  <2>3. CASE k # j
    BY <1>3, <2>1, <2>3 DEF ListInv
  <2> QED
    BY <2>2, <2>3
<1>14. ASSUME NEW k \in Job, adding'[k] = "added", k \notin raced' PROVE jobs'[id'[k]] = k
  <2>1. CASE k = j
    BY <1>1, <1>3, <2>1
  <2>2. CASE k # j
    <3>1. adding[k] = "added" /\ k \notin raced
      BY <1>1, <1>3, <1>14, <2>2
    <3>2. jobs[id[k]] = k /\ id[k] # n /\ id[k] \in Ids
      BY <1>1, <3>1 DEF ListInv, ListedUnderItsId, CronTypeOK
    <3> QED
      BY <1>1, <1>3, <3>2
  <2> QED
    BY <2>1, <2>2
<1>15. ListedUnderItsId'
  BY <1>14 DEF ListedUnderItsId
<1> QED
  BY <1>9, <1>10, <1>11, <1>12, <1>13, <1>15 DEF ListInv

LEMMA ListNext ==
  ASSUME CronTypeOK, ListInv, [CronNext]_cronVars
  PROVE  ListInv'
<1>1. ASSUME UNCHANGED <<jobs, adding, id, raced>> PROVE ListInv'
  BY <1>1 DEF ListInv, ListedUnderItsId, JobsLen
<1>2. CASE UNCHANGED cronVars
  BY <1>1, <1>2 DEF cronVars
<1>3. ASSUME NEW j \in Job, NumberJob(j) \/ FileJob(j) PROVE ListInv'
  BY <1>3, NumberKeepsList, FileKeepsList
<1>4. ASSUME NEW r \in Run, NEW j \in Job, BeginRun(r, j) PROVE ListInv'
  BY <1>1, <1>4 DEF BeginRun
<1>5. ASSUME NEW r \in Run, ReturnFromCommand(r) \/ PanicInCommand(r) \/ EndRun(r) PROVE ListInv'
  BY <1>1, <1>5 DEF ReturnFromCommand, PanicInCommand, EndRun
<1>6. ASSUME NEW c \in Canceller, NEW j \in Job, TestCancel(c, j) PROVE ListInv'
  BY <1>1, <1>6 DEF TestCancel
<1>7. ASSUME NEW c \in Canceller, CallCancel(c) PROVE ListInv'
  BY <1>1, <1>7 DEF CallCancel
<1> QED
  BY <1>2, <1>3, <1>4, <1>5, <1>6, <1>7 DEF CronNext

-----------------------------------------------------------------------------
LEMMA BeginKeepsRuns ==
  ASSUME CronTypeOK, RunInv, NEW r \in Run, NEW j \in Job, BeginRun(r, j)
  PROVE  RunInv'
<1>1. /\ run[r].at = "new"
      /\ run' = [run EXCEPT ![r] = [at |-> "command", job |-> j, count |-> 0]]
      /\ cancelFn' = [cancelFn EXCEPT ![j] = r]
      /\ overlaps' = (IF Active(j) # {} THEN overlaps \cup {j} ELSE overlaps)
      /\ UNCHANGED <<runCount, ended, panics>>
  BY DEF BeginRun, NotRun
<1>2. /\ run'[r] = [at |-> "command", job |-> j, count |-> 0] /\ cancelFn'[j] = r
      /\ \A s \in Run \ {r} : run'[s] = run[s]
      /\ \A k \in Job \ {j} : cancelFn'[k] = cancelFn[k]
  BY <1>1 DEF CronTypeOK
<1>3. Active(j)' = Active(j) \cup {r} /\ \A k \in Job \ {j} : Active(k)' = Active(k)
  BY <1>1, <1>2 DEF Active
<1>4. j \notin overlaps' => Active(j) = {}
  BY <1>1
<1>5. \A s \in Run : run'[s].at \in {"command", "counting"} => run'[s].job \in Job
  BY <1>2 DEF RunInv
<1>6. ASSUME NEW k \in Job \ overlaps'
      PROVE  /\ \A s, t \in Active(k)' : s = t
             /\ \A s \in Active(k)' : run'[s].at = "counting" => run'[s].count = runCount'[k]
             /\ runCount'[k] = ended'[k]
             /\ IF Active(k)' # {} THEN cancelFn'[k] \in Active(k)'
                ELSE cancelFn'[k] # NoRun => k \in panics'
  <2>0. k \notin overlaps /\ k \in Job
    BY <1>1, <1>6
  <2>1. CASE k = j
    <3>1. Active(k)' = {r}
      BY <1>3, <1>4, <1>6, <2>1
    <3> QED
      BY <1>1, <1>2, <2>0, <2>1, <3>1 DEF RunInv, JobTellsTheTruth
  <2>2. CASE k # j
    <3>1. Active(k)' = Active(k) /\ r \notin Active(k) /\ cancelFn'[k] = cancelFn[k]
      BY <1>1, <1>2, <1>3, <2>2 DEF Active
    <3>2. \A s \in Active(k) : run'[s] = run[s]
      BY <1>2, <3>1 DEF Active
    <3> QED
      BY <1>1, <2>0, <3>1, <3>2 DEF RunInv, JobTellsTheTruth
  <2> QED
    BY <2>1, <2>2
<1>7. JobTellsTheTruth'
  BY <1>6 DEF JobTellsTheTruth
<1> QED
  BY <1>5, <1>6, <1>7 DEF RunInv

(* The end of a run, by a panic or not.                                    *)
LEMMA LastRunEnds ==
  ASSUME CronTypeOK, RunInv, NEW r \in Run, run[r].at \in {"command", "counting"},
         NEW new, new.at = "done", run' = [run EXCEPT ![r] = new], overlaps' = overlaps
  PROVE  /\ \A s \in Run : run'[s].at \in {"command", "counting"} => run'[s].job \in Job
         /\ r \in Active(run[r].job)
         /\ \A k \in Job : Active(k)' = Active(k) \ {r}
         /\ \A k \in Job \ {run[r].job} : r \notin Active(k)
         /\ \A s \in Run \ {r} : run'[s] = run[s]
<1>1. run'[r] = new /\ \A s \in Run \ {r} : run'[s] = run[s]
  BY DEF CronTypeOK
<1> QED
  BY <1>1 DEF RunInv, Active

LEMMA EndKeepsRuns ==
  ASSUME CronTypeOK, RunInv, NEW r \in Run, PanicInCommand(r) \/ EndRun(r)
  PROVE  RunInv'
<1> DEFINE j == run[r].job
           new == [run[r] EXCEPT !.at = "done"]
<1>1. /\ run[r].at \in {"command", "counting"} /\ j \in Job
      /\ run' = [run EXCEPT ![r] = new] /\ overlaps' = overlaps
  BY DEF RunInv, PanicInCommand, EndRun
<1>2. new.at = "done"
  BY DEF CronTypeOK
<1> HIDE DEF new
<1>3. /\ \A s \in Run : run'[s].at \in {"command", "counting"} => run'[s].job \in Job
      /\ r \in Active(j)
      /\ \A k \in Job : Active(k)' = Active(k) \ {r}
      /\ \A k \in Job \ {j} : r \notin Active(k)
      /\ \A s \in Run \ {r} : run'[s] = run[s]
  BY <1>1, <1>2, LastRunEnds
<1>4. \/ /\ cancelFn' = cancelFn /\ runCount' = runCount /\ ended' = ended /\ panics' = panics \cup {j}
      \/ /\ cancelFn' = [cancelFn EXCEPT ![j] = NoRun] /\ panics' = panics
         /\ runCount' = [runCount EXCEPT ![j] = run[r].count + 1]
         /\ ended' = [ended EXCEPT ![j] = @ + 1]
         /\ run[r].at = "counting"
  BY DEF PanicInCommand, EndRun
<1>5. ASSUME NEW k \in Job \ overlaps'
      PROVE  /\ \A s, t \in Active(k)' : s = t
             /\ \A s \in Active(k)' : run'[s].at = "counting" => run'[s].count = runCount'[k]
             /\ runCount'[k] = ended'[k]
             /\ IF Active(k)' # {} THEN cancelFn'[k] \in Active(k)'
                ELSE cancelFn'[k] # NoRun => k \in panics'
  <2>0. k \in Job /\ k \notin overlaps
    BY <1>1, <1>5
  <2>1. CASE k = j
    <3>1. Active(k)' = {}
      BY <1>3, <2>0, <2>1 DEF RunInv
    <3>2. runCount[k] = ended[k] /\ (run[r].at = "counting" => run[r].count = runCount[k])
      BY <1>3, <2>0, <2>1 DEF RunInv, JobTellsTheTruth
    <3>3. runCount'[k] = ended'[k] /\ (cancelFn'[k] # NoRun => k \in panics')
      BY <1>4, <2>0, <2>1, <3>2 DEF CronTypeOK
    <3> QED
      BY <3>1, <3>3
  <2>2. CASE k # j
    <3>1. Active(k)' = Active(k) /\ \A s \in Active(k) : run'[s] = run[s]
      BY <1>3, <2>0, <2>2 DEF Active
    <3>2. cancelFn'[k] = cancelFn[k] /\ runCount'[k] = runCount[k] /\ ended'[k] = ended[k]
          /\ (k \in panics => k \in panics')
      BY <1>4, <2>0, <2>2 DEF CronTypeOK
    <3> QED
      BY <2>0, <3>1, <3>2 DEF RunInv, JobTellsTheTruth
  <2> QED
    BY <2>1, <2>2
<1>6. JobTellsTheTruth'
  BY <1>5 DEF JobTellsTheTruth
<1> QED
  BY <1>3, <1>5, <1>6 DEF RunInv

LEMMA ReturnKeepsRuns ==
  ASSUME CronTypeOK, RunInv, NEW r \in Run, ReturnFromCommand(r)
  PROVE  RunInv'
<1> DEFINE j == run[r].job
<1>1. /\ run[r].at = "command" /\ j \in Job
      /\ run' = [run EXCEPT ![r] = [at |-> "counting", job |-> j, count |-> runCount[j]]]
      /\ UNCHANGED <<cancelFn, runCount, ended, overlaps, panics>>
  BY DEF RunInv, ReturnFromCommand
<1>2. /\ run'[r].at = "counting" /\ run'[r].job = j /\ run'[r].count = runCount[j]
      /\ \A s \in Run \ {r} : run'[s] = run[s]
  BY <1>1 DEF CronTypeOK
<1>3. \A k \in Job : Active(k)' = Active(k)
  BY <1>1, <1>2 DEF Active
<1>4. \A s \in Run : run'[s].at \in {"command", "counting"} => run'[s].job \in Job
  BY <1>1, <1>2 DEF RunInv
<1>5. \A k \in Job \ overlaps : \A s \in Active(k) :
        run'[s].at = "counting" => run'[s].count = runCount[k]
  <2> SUFFICES ASSUME NEW k \in Job \ overlaps, NEW s \in Active(k), run'[s].at = "counting"
               PROVE  run'[s].count = runCount[k]
    OBVIOUS
  <2>1. CASE s = r
    BY <1>2, <2>1 DEF Active
  <2>2. CASE s # r
    BY <1>2, <2>2 DEF Active, RunInv
  <2> QED
    BY <2>1, <2>2
<1>6. JobTellsTheTruth'
  BY <1>1, <1>3 DEF RunInv, JobTellsTheTruth
<1> QED
  BY <1>1, <1>3, <1>4, <1>5, <1>6 DEF RunInv

LEMMA RunNext ==
  ASSUME CronTypeOK, RunInv, [CronNext]_cronVars
  PROVE  RunInv'
<1>1. ASSUME UNCHANGED <<run, cancelFn, runCount, ended, overlaps, panics>> PROVE RunInv'
  BY <1>1 DEF RunInv, JobTellsTheTruth, Active
<1>2. CASE UNCHANGED cronVars
  BY <1>1, <1>2 DEF cronVars
<1>3. ASSUME NEW j \in Job, NumberJob(j) \/ FileJob(j) PROVE RunInv'
  BY <1>1, <1>3 DEF NumberJob, FileJob
<1>4. ASSUME NEW r \in Run, NEW j \in Job, BeginRun(r, j) PROVE RunInv'
  BY <1>4, BeginKeepsRuns
<1>5. ASSUME NEW r \in Run, ReturnFromCommand(r) \/ PanicInCommand(r) \/ EndRun(r) PROVE RunInv'
  BY <1>5, ReturnKeepsRuns, EndKeepsRuns
<1>6. ASSUME NEW c \in Canceller, NEW j \in Job, TestCancel(c, j) PROVE RunInv'
  BY <1>1, <1>6 DEF TestCancel
<1>7. ASSUME NEW c \in Canceller, CallCancel(c) PROVE RunInv'
  BY <1>1, <1>7 DEF CallCancel
<1> QED
  BY <1>2, <1>3, <1>4, <1>5, <1>6, <1>7 DEF CronNext

LEMMA CancelNext ==
  ASSUME CronTypeOK, CancelInv, [CronNext]_cronVars
  PROVE  CancelInv'
<1>1. ASSUME UNCHANGED cancel PROVE CancelInv'
  BY <1>1 DEF CancelInv, Idle
<1>2. CASE UNCHANGED cronVars
  BY <1>1, <1>2 DEF cronVars
<1>3. ASSUME NEW j \in Job, NumberJob(j) \/ FileJob(j) PROVE CancelInv'
  BY <1>1, <1>3 DEF NumberJob, FileJob
<1>4. ASSUME NEW r \in Run, NEW j \in Job, BeginRun(r, j) PROVE CancelInv'
  BY <1>1, <1>4 DEF BeginRun
<1>5. ASSUME NEW r \in Run, ReturnFromCommand(r) \/ PanicInCommand(r) \/ EndRun(r) PROVE CancelInv'
  BY <1>1, <1>5 DEF ReturnFromCommand, PanicInCommand, EndRun
<1>6. ASSUME NEW c \in Canceller, NEW j \in Job, TestCancel(c, j) PROVE CancelInv'
  BY <1>6 DEF TestCancel, CancelInv, CronTypeOK, Idle
<1>7. ASSUME NEW c \in Canceller, CallCancel(c) PROVE CancelInv'
  BY <1>7 DEF CallCancel, CancelInv, CronTypeOK, Idle
<1> QED
  BY <1>2, <1>3, <1>4, <1>5, <1>6, <1>7 DEF CronNext

(* For any number of jobs, runs and cancellers: a job that met no other    *)
(* when it was added is found under its identifier, and a job whose runs   *)
(* do not overlap tells the truth of itself (AddNamedFunc, Run, Cancel).   *)
THEOREM JobsAlwaysExplained == CronSpec => []JobsExplained
<1>1. CronInit => CronInv
  BY CronInvInit
<1>2. CronInv /\ [CronNext]_cronVars => CronInv'
  BY CronTypeNext, ListNext, RunNext, CancelNext DEF CronInv
<1>3. CronInv => JobsExplained
  BY DEF CronInv, ListInv, RunInv, JobsExplained
<1> QED
  BY <1>1, <1>2, <1>3, PTL DEF CronSpec

-----------------------------------------------------------------------------
RequestRecord == [at : {"new", "stat", "program", "FileNotFound", "CompilationError", "result",
                        "RuntimeError", "nothing"},
                  seen : Nat, known : Nat, program : Nat]

ScriptTypeOK ==
  /\ file \in [content : Nat, time : Nat]
  /\ lastModified \in Nat /\ byteCode \in Nat /\ edits \in Nat
  /\ request \in [Request -> RequestRecord]

(* Contents are numbered as they are made and never older than their time, *)
(* so the program is as new as the time that is kept with it, unless the   *)
(* file of that time was read or compiled in vain.                         *)
ScriptInv ==
  /\ ScriptTypeOK
  /\ file.content \in {Absent, edits} /\ file.time <= edits
  /\ \A r \in Request : request[r].seen <= edits /\ request[r].known <= edits
  /\ lastModified <= byteCode \/ lastModified \in failed
  /\ OldProgramExplained

LEMMA ScriptInvInit == ScriptInit => ScriptInv
<1> SUFFICES ASSUME ScriptInit PROVE ScriptInv
  OBVIOUS
<1>1. Fresh \in RequestRecord /\ Fresh.at = "new" /\ Fresh.seen = 0 /\ Fresh.known = 0
  BY DEF Fresh, RequestRecord, Absent
<1>2. ScriptTypeOK
  BY <1>1 DEF ScriptInit, ScriptTypeOK, Absent
<1>3. OldProgramExplained
  BY <1>1 DEF ScriptInit, OldProgramExplained
<1> QED
  BY <1>1, <1>2, <1>3 DEF ScriptInit, ScriptInv, Absent

(* What a request says stays true when nothing but the file changes.       *)
LEMMA FileChanges ==
  ASSUME ScriptInv, UNCHANGED <<lastModified, byteCode, request, failed>>,
         file' \in [content : Nat, time : Nat], edits' \in Nat, edits <= edits',
         file'.content \in {Absent, edits'}, file'.time <= edits'
  PROVE  ScriptInv'
<1>1. ScriptTypeOK'
  BY DEF ScriptInv, ScriptTypeOK
<1>2. \A r \in Request : request'[r].seen <= edits' /\ request'[r].known <= edits'
  <2> SUFFICES ASSUME NEW r \in Request
               PROVE  request[r].seen <= edits' /\ request[r].known <= edits'
    OBVIOUS
  <2>1. request[r] \in RequestRecord /\ edits \in Nat
    BY DEF ScriptInv, ScriptTypeOK
  <2>2. request[r].seen \in Nat /\ request[r].known \in Nat
    BY <2>1 DEF RequestRecord
  <2> QED
    BY <2>1, <2>2 DEF ScriptInv
<1>3. OldProgramExplained'
  BY DEF ScriptInv, OldProgramExplained
<1> QED
  BY <1>1, <1>2, <1>3 DEF ScriptInv

(* A step of one request: what it says from now on, and what is kept.      *)
LEMMA RequestMoves ==
  ASSUME ScriptInv, NEW r \in Request, NEW new \in RequestRecord,
         request' = [request EXCEPT ![r] = new], file' = file, edits' = edits,
         failed \subseteq failed', lastModified' \in Nat, byteCode' \in Nat,
         lastModified' <= byteCode' \/ lastModified' \in failed',
         new.seen <= edits, new.known <= edits,
         new.at \in {"program", "result", "RuntimeError", "nothing"} =>
           \/ new.program >= new.known
           \/ \E t \in failed' : t >= new.seen
           \/ new.known # new.seen
  PROVE  ScriptInv'
<1>1. request'[r] = new /\ \A s \in Request \ {r} : request'[s] = request[s]
  BY DEF ScriptInv, ScriptTypeOK
<1>2. ScriptTypeOK'
  BY DEF ScriptInv, ScriptTypeOK
<1>3. \A s \in Request : request'[s].seen <= edits' /\ request'[s].known <= edits'
  BY <1>1 DEF ScriptInv
<1>4. ASSUME NEW s \in Request, request'[s].at \in {"program", "result", "RuntimeError", "nothing"}
      PROVE  \/ request'[s].program >= request'[s].known
             \/ \E t \in failed' : t >= request'[s].seen
             \/ request'[s].known # request'[s].seen
  <2>1. CASE s = r
    BY <1>1, <1>4, <2>1
  <2>2. CASE s # r
    BY <1>1, <1>4, <2>2 DEF ScriptInv, OldProgramExplained
  <2> QED
    BY <2>1, <2>2
<1>5. OldProgramExplained'
  BY <1>4 DEF OldProgramExplained
<1> QED
  BY <1>2, <1>3, <1>5 DEF ScriptInv

LEMMA GetScriptKeeps ==
  ASSUME ScriptInv, NEW r \in Request, getScript(r)
  PROVE  ScriptInv'
<1> DEFINE me == request[r]
           Go(at, program) == [at |-> at, seen |-> me.seen, known |-> me.known, program |-> program]
<1>1. /\ me \in RequestRecord /\ me.seen <= edits /\ me.known <= edits
      /\ file' = file /\ edits' = edits
      /\ edits \in Nat /\ byteCode \in Nat /\ lastModified \in Nat /\ file.content \in Nat
  BY DEF ScriptInv, ScriptTypeOK, getScript
<1>2. /\ me.seen \in Nat /\ me.known \in Nat
      /\ \A p \in Nat : \A a \in {"program", "CompilationError"} : Go(a, p) \in RequestRecord
  BY <1>1 DEF RequestRecord
<1>4. CASE lastModified < me.seen /\ Compiles
  <2>1. /\ lastModified' = me.seen /\ byteCode' = file.content /\ failed' = failed
        /\ request' = [request EXCEPT ![r] = Go("program", file.content)]
    BY <1>1, <1>4 DEF getScript, RequestRecord, ScriptInv, ScriptTypeOK
  <2>2. file.content = edits
    BY <1>4 DEF Compiles, ScriptInv
  <2>3. Go("program", file.content) \in RequestRecord
    BY <1>1, <1>2
  <2> QED
    BY <1>1, <1>2, <2>1, <2>2, <2>3, RequestMoves
<1>5. CASE lastModified < me.seen /\ ~Compiles
  <2>1. PICK a \in {"program", "CompilationError"} :
             request' = [request EXCEPT ![r] = Go(a, byteCode)]
    BY <1>1, <1>5 DEF getScript, RequestRecord, ScriptInv, ScriptTypeOK
  <2>2. lastModified' = me.seen /\ byteCode' = byteCode /\ failed' = failed \cup {me.seen}
    BY <1>5 DEF getScript
  <2>3. Go(a, byteCode) \in RequestRecord
    BY <1>1, <1>2
  <2>4. \E t \in failed' : t >= me.seen
    BY <1>2, <2>2
  <2> QED
    BY <1>1, <1>2, <2>1, <2>2, <2>3, <2>4, RequestMoves
<1>6. CASE ~(lastModified < me.seen)
  <2>1. /\ lastModified' = lastModified /\ byteCode' = byteCode /\ failed' = failed
        /\ request' = [request EXCEPT ![r] = Go("program", byteCode)]
    BY <1>1, <1>6 DEF getScript, RequestRecord, ScriptInv, ScriptTypeOK
  <2>2. lastModified <= byteCode \/ lastModified \in failed
    BY DEF ScriptInv
  <2>3. \/ byteCode >= me.known
        \/ \E t \in failed : t >= me.seen
        \/ me.known # me.seen
    BY <1>1, <1>2, <1>6, <2>2
  <2>4. Go("program", byteCode) \in RequestRecord
    BY <1>1, <1>2
  <2> QED
    BY <1>1, <1>2, <2>1, <2>2, <2>3, <2>4, RequestMoves
<1> QED
  BY <1>4, <1>5, <1>6

LEMMA ScriptInvNext == ScriptInv /\ [ScriptNext]_scriptVars => ScriptInv'
<1> SUFFICES ASSUME ScriptInv, [ScriptNext]_scriptVars PROVE ScriptInv'
  OBVIOUS
<1>0. /\ file.content \in Nat /\ file.time \in Nat /\ edits \in Nat
      /\ file = [content |-> file.content, time |-> file.time]
  BY DEF ScriptInv, ScriptTypeOK
<1>1. CASE UNCHANGED scriptVars
  BY <1>1 DEF scriptVars, ScriptInv, ScriptTypeOK, OldProgramExplained
<1>2. CASE Edit
  <2>1. PICK t \in {file.time, edits + 1} : file' = [content |-> edits + 1, time |-> t]
    BY <1>2 DEF Edit
  <2>2. t \in Nat /\ t <= edits + 1 /\ edits' = edits + 1
        /\ UNCHANGED <<lastModified, byteCode, request, failed>>
    BY <1>0, <1>2, <2>1 DEF Edit, ScriptInv
  <2> QED
    BY <1>0, <2>1, <2>2, FileChanges
<1>3. CASE Delete
  <2>1. file' = [content |-> Absent, time |-> file.time] /\ edits' = edits
        /\ UNCHANGED <<lastModified, byteCode, request, failed>>
    BY <1>0, <1>3 DEF Delete
  <2>2. file.time <= edits
    BY DEF ScriptInv
  <2> QED
    BY <1>0, <2>1, <2>2, FileChanges DEF Absent
<1>4. ASSUME NEW r \in Request, Stat(r) PROVE ScriptInv'
  <2> DEFINE missing == [at |-> "FileNotFound", seen |-> 0, known |-> 0, program |-> 0]
             saw == [at |-> "stat", seen |-> file.time, known |-> file.content, program |-> 0]
  <2>1. [Fresh EXCEPT !.at = "FileNotFound"] = missing
    BY DEF Fresh, Absent
  <2>2. PICK new \in {missing, saw} : request' = [request EXCEPT ![r] = new]
    BY <1>4, <2>1 DEF Stat, Absent
  <2>3. missing \in RequestRecord /\ saw \in RequestRecord
    BY <1>0 DEF RequestRecord
  <2>4. file.content <= edits /\ file.time <= edits
    BY <1>0 DEF ScriptInv, Absent
  <2>5. UNCHANGED <<file, edits, failed, lastModified, byteCode>>
    BY <1>4 DEF Stat
  <2>6. /\ new \in RequestRecord /\ new.seen <= edits /\ new.known <= edits
        /\ new.at \notin {"program", "result", "RuntimeError", "nothing"}
    BY <1>0, <2>3, <2>4
  <2> HIDE DEF missing, saw
  <2>7. lastModified' \in Nat /\ byteCode' \in Nat
        /\ (lastModified' <= byteCode' \/ lastModified' \in failed')
    BY <2>5 DEF ScriptInv, ScriptTypeOK
  <2> QED
    BY <2>2, <2>5, <2>6, <2>7, RequestMoves
<1>5. ASSUME NEW r \in Request, getScript(r) PROVE ScriptInv'
  BY <1>5, GetScriptKeeps
<1>6. ASSUME NEW r \in Request, RunProgram(r) PROVE ScriptInv'
  <2> DEFINE me == request[r]
  <2>1. /\ me \in RequestRecord /\ me.at = "program" /\ me.seen <= edits /\ me.known <= edits
        /\ UNCHANGED <<file, edits, failed, lastModified, byteCode>>
    BY <1>6 DEF RunProgram, ScriptInv, ScriptTypeOK
  <2>2. PICK out \in {"nothing", "result", "RuntimeError"} : request' = [request EXCEPT ![r].at = out]
    BY <1>6 DEF RunProgram
  <2> DEFINE new == [at |-> out, seen |-> me.seen, known |-> me.known, program |-> me.program]
  <2>n. new \in RequestRecord /\ new = [me EXCEPT !.at = out]
    BY <2>1 DEF RequestRecord
  <2>3. new \in RequestRecord /\ request' = [request EXCEPT ![r] = new]
    BY <2>n, <2>2 DEF ScriptInv, ScriptTypeOK
  <2>4. \/ me.program >= me.known
        \/ \E t \in failed : t >= me.seen
        \/ me.known # me.seen
    BY <2>1 DEF ScriptInv, OldProgramExplained
  <2>5. lastModified' \in Nat /\ byteCode' \in Nat
        /\ (lastModified' <= byteCode' \/ lastModified' \in failed')
    BY <2>1 DEF ScriptInv, ScriptTypeOK
  <2> QED
    BY <2>1, <2>3, <2>4, <2>5, RequestMoves
<1> QED
  BY <1>1, <1>2, <1>3, <1>4, <1>5, <1>6 DEF ScriptNext

(* For any number of requests and edits: a request runs no program older   *)
(* than the file it saw, but after a file as new was read or compiled in   *)
(* vain, or was changed twice within a tick (getScript).                   *)
THEOREM OldProgramsExplained == ScriptSpec => []OldProgramExplained
<1>1. ScriptInit => ScriptInv
  BY ScriptInvInit
<1>2. ScriptInv /\ [ScriptNext]_scriptVars => ScriptInv'
  BY ScriptInvNext
<1>3. ScriptInv => OldProgramExplained
  BY DEF ScriptInv
<1> QED
  BY <1>1, <1>2, <1>3, PTL DEF ScriptSpec

-----------------------------------------------------------------------------
(* Engine.Start: what each of its loops leaves, in any order.              *)
Phases == {"PrepareServices", "PrepareEngines", "StartServices", "StartEngines", "running", "failed"}

StartTypeOK ==
  /\ phase \in Phases
  /\ types \in [described : SUBSET Engines, served : SUBSET Engines]
  /\ prepares \in Nat

(* A loop has done its work on what it need not visit any more.            *)
LoopsInv ==
  /\ phase = "PrepareServices" => /\ todo \subseteq Services /\ ready = Services \ todo
                                  /\ types.described = {}
  /\ phase \notin {"PrepareServices", "failed"} => ready = Services
  /\ phase = "PrepareEngines" => todo \subseteq Engines /\ types.described = Engines \ todo
  /\ phase \in {"StartServices", "StartEngines", "running"} => types.described = Engines
  /\ phase = "StartServices" => todo \subseteq Services /\ ("gql" \in Services \ todo => types.served = Engines)
  /\ phase \in {"StartEngines", "running"} => ("gql" \in Services => types.served = Engines)
  /\ \A s \in ready : HoldsSequence(s) => seqReady

(* Until the mongo service is prepared again its one client is the only    *)
(* one that ever was; nobody asks it for a database before that.           *)
ClientInv ==
  /\ prepares = 0 => ~db /\ client = NoClient
  /\ prepares <= 1 => clients = IF client = NoClient THEN {} ELSE {client}
  /\ "mongo" \in ready => prepares # 0
  /\ \A o \in Opener : opener[o].at = "missed" => prepares # 0

LEMMA StartTypeNext == StartTypeOK /\ [StartNext]_startVars => StartTypeOK'
<1> SUFFICES ASSUME StartTypeOK, [StartNext]_startVars PROVE StartTypeOK'
  OBVIOUS
<1> USE DEF StartTypeOK, Phases
<1>1. CASE UNCHANGED startVars
  BY <1>1 DEF startVars
<1>2. ASSUME NEW s \in Services, StepPrepareService(s) PROVE StartTypeOK'
  <2>1. PICK ok \in BOOLEAN : Prepare(s, ok) /\ phase' \in Phases
    BY <1>2 DEF StepPrepareService, Leave, Fail
  <2>2. prepares' \in Nat
    <3>m. PrepareMongo => prepares' \in Nat
      BY DEF PrepareMongo
    <3>1. CASE s = "mongo"
      BY <2>1, <3>1, <3>m DEF Prepare, HoldsSequence
    <3>2. CASE s # "mongo" /\ HoldsSequence(s)
      BY <2>1, <3>2, <3>m DEF Prepare, PrepareSequence, mongoVars
    <3>3. CASE s # "mongo" /\ ~HoldsSequence(s)
      BY <2>1, <3>3 DEF Prepare, mongoVars
    <3> QED
      BY <3>1, <3>2, <3>3
  <2>3. types' \in [described : SUBSET Engines, served : SUBSET Engines]
    BY <1>2 DEF StepPrepareService
  <2> QED
    BY <2>1, <2>2, <2>3
<1>3. ASSUME NEW s \in Services, StepStartService(s) PROVE StartTypeOK'
  BY <1>3 DEF StepStartService, Leave, Fail, mongoVars
<1>4. ASSUME NEW e \in Engines, StepPrepareEngine(e) PROVE StartTypeOK'
  BY <1>4 DEF StepPrepareEngine, Leave, Fail, mongoVars
<1>5. ASSUME NEW e \in Engines, StepStartEngine(e) PROVE StartTypeOK'
  BY <1>5 DEF StepStartEngine, Leave, Fail, mongoVars
<1>6. ASSUME NEW o \in Opener, NEW a \in Alias \cup {"default"}, GetMongo(o, a) PROVE StartTypeOK'
  BY <1>6 DEF GetMongo, mongoVars
<1>7. ASSUME NEW o \in Opener, RegisterNewDB(o) PROVE StartTypeOK'
  BY <1>7 DEF RegisterNewDB
<1> QED
  BY <1>1, <1>2, <1>3, <1>4, <1>5, <1>6, <1>7 DEF StartNext

LEMMA LoopsNext == StartTypeOK /\ LoopsInv /\ [StartNext]_startVars => LoopsInv'
<1> SUFFICES ASSUME StartTypeOK, LoopsInv, [StartNext]_startVars PROVE LoopsInv'
  OBVIOUS
<1>1. CASE UNCHANGED <<phase, todo, ready, seqReady, types>>
  BY <1>1 DEF LoopsInv
<1>2. ASSUME NEW s \in Services, StepPrepareService(s) PROVE LoopsInv'
  <2>1. PICK ok \in BOOLEAN :
          /\ Prepare(s, ok)
          /\ IF ok THEN Leave(s, "PrepareEngines", Engines) ELSE Fail
          /\ ready' = IF ok THEN ready \cup {s} ELSE ready
    BY <1>2 DEF StepPrepareService
  <2>2. types'.described = {} /\ phase = "PrepareServices" /\ s \in todo
    BY <1>2 DEF StepPrepareService, StartTypeOK, LoopsInv
  <2>3. \A r \in ready' : HoldsSequence(r) => seqReady'
    <3>1. ok /\ HoldsSequence(s) => seqReady'
      BY <2>1 DEF Prepare, HoldsSequence
    <3>2. seqReady => seqReady'
      BY <2>1 DEF Prepare, PrepareSequence
    <3> QED
      BY <2>1, <3>1, <3>2 DEF LoopsInv
  <2> QED
    BY <2>1, <2>2, <2>3 DEF LoopsInv, Leave, Fail
<1>3. ASSUME NEW s \in Services, StepStartService(s) PROVE LoopsInv'
  <2>1. types'.described = types.described /\ (s = "gql" => types'.served = types.described)
        /\ (s # "gql" => types' = types)
    BY <1>3 DEF StepStartService, StartTypeOK
  <2>2. phase = "StartServices" /\ s \in todo /\ UNCHANGED <<ready, seqReady>>
        /\ (Fail \/ Leave(s, "StartEngines", Engines))
    BY <1>3 DEF StepStartService
  <2> QED
    BY <2>1, <2>2 DEF LoopsInv, Leave, Fail
<1>4. ASSUME NEW e \in Engines, StepPrepareEngine(e) PROVE LoopsInv'
  <2>1. phase = "PrepareEngines" /\ e \in todo /\ UNCHANGED <<ready, seqReady>>
    BY <1>4 DEF StepPrepareEngine
  <2>2. \/ Fail /\ UNCHANGED types
        \/ /\ Leave(e, "StartServices", Services)
           /\ types'.described = types.described \cup {e}
    BY <1>4 DEF StepPrepareEngine, StartTypeOK
  <2> QED
    BY <2>1, <2>2 DEF LoopsInv, Leave, Fail
<1>5. ASSUME NEW e \in Engines, StepStartEngine(e) PROVE LoopsInv'
  BY <1>5 DEF StepStartEngine, Leave, Fail, LoopsInv
<1>6. ASSUME NEW o \in Opener, NEW a \in Alias \cup {"default"}, GetMongo(o, a) PROVE LoopsInv'
  BY <1>1, <1>6 DEF GetMongo
<1>7. ASSUME NEW o \in Opener, RegisterNewDB(o) PROVE LoopsInv'
  BY <1>1, <1>7 DEF RegisterNewDB
<1>8. CASE UNCHANGED startVars
  BY <1>1, <1>8 DEF startVars
<1> QED
  BY <1>2, <1>3, <1>4, <1>5, <1>6, <1>7, <1>8 DEF StartNext

LEMMA ClientRegistered ==
  ASSUME StartTypeOK, ClientInv, NEW alias, NEW al,
         registerNewDB(alias, al, client), prepares <= 1
  PROVE  clients' = IF client' = NoClient THEN {} ELSE {client'}
BY ClientAssumption DEF registerNewDB, ClientInv, NoClient

(* The first call of Prepare finds no client, so it makes the only one.    *)
LEMMA ClientPrepared ==
  ASSUME StartTypeOK, ClientInv, PrepareMongo
  PROVE  prepares' # 0 /\ (prepares' <= 1 => clients' = IF client' = NoClient THEN {} ELSE {client'})
<1>1. prepares' = prepares + 1 /\ prepares \in Nat
  BY DEF PrepareMongo, StartTypeOK
<1>2. CASE prepares = 0
  <2>1. registerNewDB("default", {}, client)
    BY <1>2 DEF PrepareMongo, ClientInv
  <2> QED
    BY <1>1, <1>2, <2>1, ClientRegistered
<1>3. CASE prepares # 0
  BY <1>1, <1>3
<1> QED
  BY <1>2, <1>3

LEMMA ClientNext == StartTypeOK /\ LoopsInv /\ ClientInv /\ [StartNext]_startVars => ClientInv'
<1> SUFFICES ASSUME StartTypeOK, LoopsInv, ClientInv, [StartNext]_startVars PROVE ClientInv'
  OBVIOUS
<1>1. CASE UNCHANGED <<mongoVars, ready, opener>>
  BY <1>1 DEF ClientInv, mongoVars
<1>2. ASSUME NEW s \in Services, StepPrepareService(s) PROVE ClientInv'
  <2>1. PICK ok \in BOOLEAN : Prepare(s, ok) /\ ready' = IF ok THEN ready \cup {s} ELSE ready
    BY <1>2 DEF StepPrepareService
  <2>2. UNCHANGED opener
    BY <1>2 DEF StepPrepareService
  <2>3. CASE PrepareMongo
    BY <2>2, <2>3, ClientPrepared DEF ClientInv
  <2>4. CASE ~PrepareMongo
    <3>1. s # "mongo" /\ UNCHANGED mongoVars
      BY <2>1, <2>4 DEF Prepare, PrepareSequence, HoldsSequence
    <3> QED
      BY <2>1, <2>2, <3>1 DEF ClientInv, mongoVars
  <2> QED
    BY <2>3, <2>4
<1>3. ASSUME NEW s \in Services, StepStartService(s) PROVE ClientInv'
  BY <1>1, <1>3 DEF StepStartService
<1>4. ASSUME NEW e \in Engines, StepPrepareEngine(e) \/ StepStartEngine(e) PROVE ClientInv'
  BY <1>1, <1>4 DEF StepPrepareEngine, StepStartEngine
<1>5. ASSUME NEW o \in Opener, NEW a \in Alias \cup {"default"}, GetMongo(o, a) PROVE ClientInv'
  <2>1. UNCHANGED mongoVars /\ UNCHANGED ready
    BY <1>5 DEF GetMongo
  <2>2. "mongo" \in ready
    BY <1>5 DEF GetMongo, LoopsInv
  <2> QED
    BY <2>1, <2>2 DEF ClientInv, mongoVars
<1>6. ASSUME NEW o \in Opener, RegisterNewDB(o) PROVE ClientInv'
  <2>1. UNCHANGED <<db, ready, prepares>> /\ prepares # 0
    BY <1>6 DEF RegisterNewDB, ClientInv
  <2>2. registerNewDB(opener[o].alias, aliases, client)
    BY <1>6 DEF RegisterNewDB
  <2> QED
    BY <2>1, <2>2, ClientRegistered DEF ClientInv
<1>7. CASE UNCHANGED startVars
  BY <1>1, <1>7 DEF startVars, mongoVars
<1> QED
  BY <1>2, <1>3, <1>4, <1>5, <1>6, <1>7 DEF StartNext

(* For any services in any order, any sub-engines and any goroutines that  *)
(* open databases: one client unless the mongo service was prepared twice, *)
(* and an engine that runs is complete (Engine.Start, Service.Prepare).    *)
THEOREM StartsAlwaysRight == StartSpec => []StartsRight
<1> DEFINE Inv == StartTypeOK /\ LoopsInv /\ ClientInv
<1>1. StartInit => Inv
  <2> SUFFICES ASSUME StartInit PROVE Inv
    OBVIOUS
  <2>1. StartTypeOK
    BY DEF StartInit, StartTypeOK, Phases
  <2>2. LoopsInv
    BY DEF StartInit, LoopsInv
  <2>3. ClientInv
    BY DEF StartInit, ClientInv
  <2> QED
    BY <2>1, <2>2, <2>3
<1>2. Inv /\ [StartNext]_startVars => Inv'
  BY StartTypeNext, LoopsNext, ClientNext
<1>3. Inv => StartsRight
  <2> SUFFICES ASSUME Inv PROVE StartsRight
    OBVIOUS
  <2>1. RunningIsComplete
    BY DEF RunningIsComplete, LoopsInv
  <2>2. OneClientUnlessPreparedTwice
    <3>1. CASE prepares <= 1
      <4>1. clients = {} \/ clients = {client}
        BY <3>1 DEF ClientInv
      <4>2. Cardinality({}) = 0 /\ Cardinality({client}) = 1
        BY FS_EmptySet, FS_Singleton
      <4>3. Cardinality(clients) \in {0, 1}
        BY <4>1, <4>2
      <4> QED
        BY <4>3 DEF OneClientUnlessPreparedTwice
    <3>2. CASE prepares > 1
      BY <3>2 DEF OneClientUnlessPreparedTwice
    <3> QED
      BY <3>1, <3>2 DEF StartTypeOK
  <2> QED
    BY <2>1, <2>2 DEF StartsRight
<1> QED
  BY <1>1, <1>2, <1>3, PTL DEF StartSpec

-----------------------------------------------------------------------------
Keys == ResourceKey \cup {OwnPackage}
Owned == \E k \in ResourceKey : parent[k] = OwnPackage

StartRecord == [pc : {"not started", "find", "create", "started", "failed"},
                todo : Seq(Keys), excused : BOOLEAN]

ResourcesTypeOK ==
  /\ parent \in [ResourceKey -> ResourceKey \cup {OwnPackage, OtherPackage}]
  /\ registry \subseteq Keys \cup {OtherPackage, Root}
  /\ initing \in [Starter -> StartRecord]

(* The last key a start is done with; the list it has still to look at is  *)
(* the keys that follow.                                                   *)
Behind(s) == Resources - Len(initing[s].todo)

(* A start under way goes through the keys one by one, and what is behind  *)
(* it is there.                                                            *)
Walks(s) ==
  /\ \A i \in 1..Len(initing[s].todo) : initing[s].todo[i] = Behind(s) + i
  /\ \A k \in ResourceKey : k <= Behind(s) => k \in registry
  /\ Owned /\ Behind(s) >= 0 => OwnPackage \in registry
  /\ Behind(s) < 0 => Owned

(* What a start that ended, or is to create, knows.                        *)
Knows(s) ==
  LET k == Head(initing[s].todo)
  IN  /\ initing[s].pc = "started" => initing[s].todo = <<>>
      /\ initing[s].pc \in {"find", "create", "failed"} => initing[s].todo # <<>>
      /\ initing[s].pc = "create" /\ ~initing[s].excused => k \notin registry
      /\ initing[s].pc = "failed" /\ ~initing[s].excused =>
           k \in ResourceKey /\ (parent[k] >= k \/ parent[k] = OtherPackage)

ResourcesInv ==
  /\ ResourcesTypeOK
  /\ Root \in registry
  /\ \A s \in Starter : initing[s].pc # "not started" => Walks(s)
  /\ \A s \in Starter : Knows(s)

-----------------------------------------------------------------------------
LEMMA OrderFacts ==
  ASSUME ResourcesTypeOK
  PROVE  /\ InOrder \in Seq(Keys) /\ InOrder # <<>>
         /\ Owned => /\ Len(InOrder) = Resources + 1
                     /\ \A i \in 1..Len(InOrder) : InOrder[i] = i - 1
         /\ ~Owned => /\ Len(InOrder) = Resources
                      /\ \A i \in 1..Len(InOrder) : InOrder[i] = i
<1> DEFINE keys == [k \in ResourceKey |-> k]
<1>0. Resources \in Nat /\ Resources > 0
  BY ParentsAssumption
<1>1. keys \in Seq(Keys) /\ Len(keys) = Resources /\ \A i \in 1..Resources : keys[i] = i
  BY <1>0 DEF ResourceKey, Keys
<1>2. OwnPackage \in Keys
  BY DEF Keys
<1>3. CASE Owned
  <2>1. InOrder = <<OwnPackage>> \o keys
    BY <1>3 DEF InOrder, Owned
  <2>2. <<OwnPackage>> \in Seq(Keys) /\ Len(<<OwnPackage>>) = 1
    BY <1>2
  <2> HIDE DEF keys
  <2>3. InOrder \in Seq(Keys) /\ Len(InOrder) = Resources + 1
    BY <1>0, <1>1, <2>1, <2>2
  <2>4. \A i \in 1..Len(InOrder) : InOrder[i] = i - 1
    BY <1>0, <1>1, <2>1, <2>2, <2>3 DEF OwnPackage
  <2> QED
    BY <1>0, <1>3, <2>3, <2>4
<1>4. CASE ~Owned
  <2>1. InOrder = <<>> \o keys
    BY <1>4 DEF InOrder, Owned
  <2> HIDE DEF keys
  <2>2. InOrder = keys
    BY <1>1, <2>1
  <2> QED
    BY <1>0, <1>1, <1>4, <2>2
<1> QED
  BY <1>3, <1>4

(* What others do takes nothing from a start: the registry grows, and a    *)
(* key that is made in the meantime excuses it.                            *)
LEMMA OthersKeep ==
  ASSUME ResourcesInv, NEW s \in Starter,
         registry \subseteq registry', parent' = parent,
         initing'[s].pc = initing[s].pc, initing'[s].todo = initing[s].todo,
         initing[s].excused => initing'[s].excused,
         initing[s].pc = "create" /\ ~initing'[s].excused => Head(initing[s].todo) \notin registry'
  PROVE  (initing'[s].pc # "not started" => Walks(s)') /\ Knows(s)'
<1>1. Behind(s)' = Behind(s) /\ Owned' = Owned
  BY DEF Behind, Owned
<1>2. initing'[s].pc # "not started" => Walks(s)'
  BY <1>1 DEF ResourcesInv, Walks
<1>3. Knows(s)'
  BY DEF ResourcesInv, Knows
<1> QED
  BY <1>2, <1>3

(* A start that stays where it is in its list.                             *)
LEMMA StaysThere ==
  ASSUME ResourcesInv, NEW s \in Starter, initing[s].pc \in {"find", "create"},
         registry \subseteq registry', parent' = parent,
         initing'[s].todo = initing[s].todo
  PROVE  Walks(s)'
<1>1. Behind(s)' = Behind(s) /\ Owned' = Owned
  BY DEF Behind, Owned
<1>2. Walks(s)
  BY DEF ResourcesInv
<1> QED
  BY <1>1, <1>2 DEF Walks

(* The key at hand.                                                        *)
LEMMA KeyAtHand ==
  ASSUME ResourcesInv, NEW s \in Starter, initing[s].pc \in {"find", "create"}
  PROVE  /\ initing[s].todo \in Seq(Keys) /\ initing[s].todo # <<>>
         /\ Head(initing[s].todo) \in Keys
         /\ Head(initing[s].todo) = Behind(s) + 1 /\ Behind(s) \in Int
         /\ Walks(s)
<1>1. initing[s].todo \in Seq(Keys) /\ initing[s].todo # <<>> /\ Walks(s)
  BY DEF ResourcesInv, ResourcesTypeOK, StartRecord, Knows
<1>2. Len(initing[s].todo) \in Nat /\ Len(initing[s].todo) > 0
  BY <1>1
<1>3. Head(initing[s].todo) \in Keys /\ Head(initing[s].todo) = initing[s].todo[1]
  BY <1>1
<1>4. Head(initing[s].todo) = Behind(s) + 1
  BY <1>1, <1>2, <1>3 DEF Walks
<1>5. Behind(s) \in Int
  BY <1>2, ParentsAssumption DEF Behind
<1> QED
  BY <1>1, <1>3, <1>4, <1>5

(* A start goes on to the next key when the one at hand is there.          *)
LEMMA GoesOn ==
  ASSUME ResourcesInv, NEW s \in Starter, initing[s].pc \in {"find", "create"},
         registry \subseteq registry', parent' = parent, Head(initing[s].todo) \in registry',
         initing'[s] = NextKey(s)
  PROVE  NextKey(s) \in StartRecord /\ Walks(s)' /\ Knows(s)'
<1> DEFINE queue == initing[s].todo
           rest == Tail(queue)
<1>1. /\ queue \in Seq(Keys) /\ queue # <<>> /\ Walks(s)
      /\ Head(queue) \in Keys /\ Head(queue) = Behind(s) + 1 /\ Behind(s) \in Int
  BY KeyAtHand
<1>2. rest \in Seq(Keys) /\ Len(rest) = Len(queue) - 1 /\ Len(queue) \in Nat
      /\ \A i \in 1..Len(rest) : rest[i] = queue[i + 1]
  BY <1>1
<1>3. initing'[s] = [pc |-> IF rest = <<>> THEN "started" ELSE "find",
                     todo |-> rest, excused |-> initing[s].excused]
  BY DEF NextKey
<1>4. initing[s].excused \in BOOLEAN
  BY DEF ResourcesInv, ResourcesTypeOK, StartRecord
<1>5. NextKey(s) \in StartRecord
  BY <1>2, <1>3, <1>4 DEF StartRecord
<1>6. Knows(s)'
  BY <1>3 DEF Knows
<1>7. initing'[s].todo = rest
  BY <1>3
<1> HIDE DEF rest
<1>8. Behind(s)' = Behind(s) + 1 /\ Owned' = Owned
  BY <1>1, <1>2, <1>7, ParentsAssumption DEF Behind, Owned
<1>9. \A i \in 1..Len(rest) : rest[i] = Behind(s) + 1 + i
  <2> SUFFICES ASSUME NEW i \in 1..Len(rest) PROVE rest[i] = Behind(s) + 1 + i
    OBVIOUS
  <2>1. i + 1 \in 1..Len(queue) /\ i \in Int
    BY <1>2
  <2>2. queue[i + 1] = Behind(s) + (i + 1)
    BY <1>1, <2>1 DEF Walks
  <2> QED
    BY <1>1, <1>2, <2>1, <2>2
<1>10. \A k \in ResourceKey : k <= Behind(s) + 1 => k \in registry'
  BY <1>1, ParentsAssumption DEF Walks, ResourceKey
<1>11. Owned /\ Behind(s) + 1 >= 0 => OwnPackage \in registry'
  BY <1>1 DEF Walks, OwnPackage
<1>12. Behind(s) + 1 < 0 => Owned
  BY <1>1 DEF Walks
<1>13. Walks(s)'
  BY <1>7, <1>8, <1>9, <1>10, <1>11, <1>12 DEF Walks
<1> QED
  BY <1>5, <1>6, <1>13

-----------------------------------------------------------------------------
LEMMA ResourcesInvInit == ResourcesInit => ResourcesInv
<1> SUFFICES ASSUME ResourcesInit PROVE ResourcesInv
  OBVIOUS
<1>1. AtFirst \in StartRecord
  BY DEF AtFirst, StartRecord
<1>2. ResourcesTypeOK
  BY <1>1, ParentsAssumption DEF ResourcesInit, ResourcesTypeOK
<1>3. Root \in registry
  BY DEF ResourcesInit
<1>4. ASSUME NEW s \in Starter
      PROVE  initing[s].pc = "not started" /\ Knows(s)
  BY DEF ResourcesInit, AtFirst, Knows
<1> QED
  BY <1>2, <1>3, <1>4 DEF ResourcesInv

LEMMA StartKeeps ==
  ASSUME ResourcesInv, NEW s \in Starter, InitResources(s)
  PROVE  ResourcesInv'
<1> DEFINE new == [pc |-> "find", todo |-> InOrder, excused |-> FALSE]
<1>0. ResourcesTypeOK
  BY DEF ResourcesInv
<1>1. new \in StartRecord
  BY <1>0, OrderFacts DEF StartRecord
<1>2. initing' = [initing EXCEPT ![s] = new] /\ parent' = parent /\ registry' = registry
  BY DEF InitResources, Proceeds
<1>3. ResourcesTypeOK'
  BY <1>0, <1>1, <1>2 DEF ResourcesTypeOK
<1>4. initing'[s] = new /\ initing'[s].todo = InOrder
  BY <1>0, <1>2 DEF ResourcesTypeOK
<1>5. Owned' = Owned
  BY <1>2 DEF Owned
<1>6. /\ Owned => Behind(s)' = -1
      /\ ~Owned => Behind(s)' = 0
  BY <1>0, <1>4, OrderFacts, ParentsAssumption DEF Behind
<1>7. \A i \in 1..Len(InOrder) : InOrder[i] = Behind(s)' + i
  <2> SUFFICES ASSUME NEW i \in 1..Len(InOrder) PROVE InOrder[i] = Behind(s)' + i
    OBVIOUS
  <2>1. Len(InOrder) \in Nat /\ i \in Int
    BY <1>0, OrderFacts
  <2>2. CASE Owned
    <3>1. InOrder[i] = i - 1
      BY <1>0, <2>2, OrderFacts
    <3> QED
      BY <1>6, <2>1, <2>2, <3>1
  <2>3. CASE ~Owned
    <3>1. InOrder[i] = i
      BY <1>0, <2>3, OrderFacts
    <3> QED
      BY <1>6, <2>1, <2>3, <3>1
  <2> QED
    BY <2>2, <2>3
<1>8. \A k \in ResourceKey : ~(k <= Behind(s)')
  BY <1>6, ParentsAssumption DEF ResourceKey
<1>9. Walks(s)'
  BY <1>4, <1>5, <1>6, <1>7, <1>8 DEF Walks
<1>10. Knows(s)'
  BY <1>0, <1>4, OrderFacts DEF Knows
<1>11. ASSUME NEW u \in Starter, u # s
       PROVE  (initing'[u].pc # "not started" => Walks(u)') /\ Knows(u)'
  <2>1. initing'[u] = initing[u]
    BY <1>0, <1>2, <1>11 DEF ResourcesTypeOK
  <2>2. initing[u].pc = "create" /\ ~initing[u].excused => Head(initing[u].todo) \notin registry
    BY DEF ResourcesInv, Knows
  <2> QED
    BY <1>2, <2>1, <2>2, OthersKeep
<1>12. Root \in registry'
  BY <1>2 DEF ResourcesInv
<1> QED
  BY <1>3, <1>9, <1>10, <1>11, <1>12 DEF ResourcesInv

LEMMA FindKeeps ==
  ASSUME ResourcesInv, NEW s \in Starter, FindResource(s)
  PROVE  ResourcesInv'
<1>0. ResourcesTypeOK /\ initing[s].pc = "find"
  BY DEF ResourcesInv, FindResource
<1>1. parent' = parent /\ registry' = registry
  BY DEF FindResource
<1>2. initing[s] \in StartRecord
  BY <1>0 DEF ResourcesTypeOK
<1>3. PICK new : initing' = [initing EXCEPT ![s] = new]
                 /\ \/ Head(initing[s].todo) \in registry /\ new = NextKey(s)
                    \/ Head(initing[s].todo) \notin registry /\ new = ToCreate(s)
                    \/ new = CallFails(ToCreate(s))
  BY DEF FindResource, Proceeds
<1>4. initing'[s] = new
  BY <1>0, <1>3 DEF ResourcesTypeOK
<1>5. new \in StartRecord /\ Walks(s)' /\ Knows(s)'
  <2>1. CASE Head(initing[s].todo) \in registry /\ new = NextKey(s)
    BY <1>0, <1>1, <1>4, <2>1, GoesOn
  <2>2. CASE Head(initing[s].todo) \notin registry /\ new = ToCreate(s)
    <3>1. new = [pc |-> "create", todo |-> initing[s].todo, excused |-> initing[s].excused]
      BY <1>2, <2>2 DEF ToCreate, StartRecord
    <3>2. new \in StartRecord
      BY <1>2, <3>1 DEF StartRecord
    <3>3. Walks(s)'
      BY <1>0, <1>1, <1>4, <3>1, StaysThere
    <3>4. Knows(s)'
      BY <1>0, <1>1, <1>4, <2>2, <3>1, KeyAtHand DEF Knows
    <3> QED
      BY <3>2, <3>3, <3>4
  <2>3. CASE new = CallFails(ToCreate(s))
    <3>1. new = [pc |-> "create", todo |-> initing[s].todo, excused |-> TRUE]
      BY <1>2, <2>3 DEF ToCreate, CallFails, StartRecord
    <3>2. new \in StartRecord
      BY <1>2, <3>1 DEF StartRecord
    <3>3. Walks(s)'
      BY <1>0, <1>1, <1>4, <3>1, StaysThere
    <3>4. Knows(s)'
      BY <1>0, <1>1, <1>4, <3>1, KeyAtHand DEF Knows
    <3> QED
      BY <3>2, <3>3, <3>4
  <2> QED
    BY <1>3, <2>1, <2>2, <2>3
<1>6. ResourcesTypeOK'
  BY <1>0, <1>1, <1>3, <1>5 DEF ResourcesTypeOK
<1>7. ASSUME NEW u \in Starter, u # s
      PROVE  (initing'[u].pc # "not started" => Walks(u)') /\ Knows(u)'
  <2>1. initing'[u] = initing[u]
    BY <1>0, <1>3, <1>7 DEF ResourcesTypeOK
  <2>2. initing[u].pc = "create" /\ ~initing[u].excused => Head(initing[u].todo) \notin registry
    BY DEF ResourcesInv, Knows
  <2> QED
    BY <1>1, <2>1, <2>2, OthersKeep
<1>8. Root \in registry'
  BY <1>1 DEF ResourcesInv
<1> QED
  BY <1>5, <1>6, <1>7, <1>8 DEF ResourcesInv

(* A creation that is refused, with no failing call to explain it, is of a *)
(* resource that is declared before its parent.                            *)
LEMMA RefusedOnlyBeforeParent ==
  ASSUME ResourcesInv, NEW s \in Starter, initing[s].pc = "create", ~initing[s].excused,
         Head(initing[s].todo) \in registry \/ ParentOf(Head(initing[s].todo)) \notin registry
  PROVE  LET k == Head(initing[s].todo)
         IN  k \in ResourceKey /\ (parent[k] >= k \/ parent[k] = OtherPackage)
<1> DEFINE k == Head(initing[s].todo)
<1>1. k \in Keys /\ k = Behind(s) + 1 /\ Behind(s) \in Int /\ Walks(s)
  BY KeyAtHand
<1>2. k \notin registry /\ Root \in registry /\ ParentOf(k) \notin registry
  BY DEF ResourcesInv, Knows
<1> HIDE DEF k
<1>3. k # OwnPackage
  BY <1>2 DEF ParentOf
<1>4. k \in ResourceKey /\ parent[k] \notin registry
  BY <1>1, <1>2, <1>3 DEF Keys, ParentOf
<1>5. parent[k] \in ResourceKey \cup {OwnPackage, OtherPackage}
  BY <1>4 DEF ResourcesInv, ResourcesTypeOK
<1>6. Behind(s) >= 0 /\ k \in Nat
  BY <1>1, <1>4, ParentsAssumption DEF ResourceKey
<1>7. parent[k] # OwnPackage
  <2> SUFFICES ASSUME parent[k] = OwnPackage PROVE FALSE
    OBVIOUS
  <2>1. Owned
    BY <1>4 DEF Owned
  <2> QED
    BY <1>1, <1>4, <1>6, <2>1 DEF Walks
<1>8. CASE parent[k] \in ResourceKey
  <2>1. ~(parent[k] <= Behind(s))
    BY <1>1, <1>4, <1>8 DEF Walks
  <2>2. parent[k] \in Int
    BY <1>8, ParentsAssumption DEF ResourceKey
  <2> QED
    BY <1>1, <1>4, <2>1, <2>2 DEF k
<1> QED
  BY <1>4, <1>5, <1>7, <1>8 DEF k

(* What a call of CreateResource makes of the registry and of its start.   *)
Refused(s, new) ==
  /\ Head(initing[s].todo) \in registry \/ ParentOf(Head(initing[s].todo)) \notin registry
  /\ new = StartFails(s) /\ registry' = registry
Created(s, new) ==
  /\ registry' = registry \cup {Head(initing[s].todo)}
  /\ new = NextKey(s) \/ new = CallFails(StartFails(s))
Lost(s, new) == new = CallFails(StartFails(s)) /\ registry' = registry

LEMMA CreateKeeps ==
  ASSUME ResourcesInv, NEW s \in Starter, CreateResource(s)
  PROVE  ResourcesInv'
<1> DEFINE k == Head(initing[s].todo)
<1>0. ResourcesTypeOK /\ initing[s].pc = "create" /\ parent' = parent
  BY DEF ResourcesInv, CreateResource
<1>1. initing[s] \in StartRecord /\ initing[s].todo # <<>>
  BY <1>0 DEF ResourcesTypeOK, ResourcesInv, Knows
<1>2. k \in Keys
  BY <1>0, KeyAtHand
<1>3. PICK new :
         /\ initing'[s] = new
         /\ \/ initing' = [initing EXCEPT ![s] = new] /\ (Refused(s, new) \/ Lost(s, new))
            \/ initing' = [Excusing(k) EXCEPT ![s] = new] /\ Created(s, new)
  <2>1. s \in DOMAIN initing /\ s \in DOMAIN Excusing(k)
    BY <1>0 DEF ResourcesTypeOK, Excusing
  <2> QED
    BY <2>1 DEF CreateResource, Proceeds, Refused, Lost, Created
<1>4. registry \subseteq registry' /\ registry' \subseteq Keys \cup {OtherPackage, Root}
  BY <1>0, <1>2, <1>3 DEF Refused, Lost, Created, ResourcesTypeOK
<1>5. new \in StartRecord /\ Walks(s)' /\ Knows(s)'
  <2>1. CASE Refused(s, new)
    <3>1. new = [pc |-> "failed", todo |-> initing[s].todo, excused |-> initing[s].excused]
      BY <1>1, <2>1 DEF Refused, StartFails, StartRecord
    <3>2. new \in StartRecord
      BY <1>1, <3>1 DEF StartRecord
    <3>3. Walks(s)'
      BY <1>0, <1>3, <1>4, <3>1, StaysThere
    <3>4. ~initing[s].excused => k \in ResourceKey /\ (parent[k] >= k \/ parent[k] = OtherPackage)
      BY <1>0, <2>1, RefusedOnlyBeforeParent DEF Refused
    <3>5. Knows(s)'
      BY <1>0, <1>1, <1>3, <3>1, <3>4 DEF Knows
    <3> QED
      BY <3>2, <3>3, <3>5
  <2>2. CASE new = CallFails(StartFails(s))
    <3>1. new = [pc |-> "failed", todo |-> initing[s].todo, excused |-> TRUE]
      BY <1>1, <2>2 DEF StartFails, CallFails, StartRecord
    <3>2. new \in StartRecord
      BY <1>1, <3>1 DEF StartRecord
    <3>3. Walks(s)'
      BY <1>0, <1>3, <1>4, <3>1, StaysThere
    <3>4. Knows(s)'
      BY <1>1, <1>3, <3>1 DEF Knows
    <3> QED
      BY <3>2, <3>3, <3>4
  <2>3. CASE new = NextKey(s) /\ registry' = registry \cup {k}
    BY <1>0, <1>3, <1>4, <2>3, GoesOn
  <2> QED
    BY <1>3, <2>1, <2>2, <2>3 DEF Lost, Created
<1>6. Excusing(k) \in [Starter -> StartRecord]
  <2>1. ASSUME NEW u \in Starter PROVE CallFails(initing[u]) \in StartRecord /\ initing[u] \in StartRecord
    BY <1>0 DEF CallFails, ResourcesTypeOK, StartRecord
  <2> QED
    BY <2>1 DEF Excusing
<1>7. ResourcesTypeOK'
  <2>1. initing' \in [Starter -> StartRecord]
    BY <1>0, <1>3, <1>5, <1>6 DEF ResourcesTypeOK
  <2> QED
    BY <1>0, <1>4, <2>1 DEF ResourcesTypeOK
<1>8. ASSUME NEW u \in Starter, u # s
      PROVE  (initing'[u].pc # "not started" => Walks(u)') /\ Knows(u)'
  <2>0. initing[u] \in StartRecord
    BY <1>0 DEF ResourcesTypeOK
  <2>1. initing[u].pc = "create" /\ ~initing[u].excused => Head(initing[u].todo) \notin registry
    BY DEF ResourcesInv, Knows
  <2>2. CASE initing'[u] = initing[u] /\ registry' = registry
    BY <1>0, <2>1, <2>2, OthersKeep
  <2>3. CASE /\ registry' = registry \cup {k}
             /\ initing'[u] = Excusing(k)[u]
    <3>1. CASE initing[u].pc = "create" /\ Head(initing[u].todo) = k
      <4>1. initing'[u] = [pc |-> initing[u].pc, todo |-> initing[u].todo, excused |-> TRUE]
        BY <2>0, <2>3, <3>1 DEF Excusing, CallFails, StartRecord
      <4>2. /\ initing'[u].pc = initing[u].pc /\ initing'[u].todo = initing[u].todo
            /\ initing'[u].excused
        BY <4>1
      <4> QED
        BY <1>0, <1>4, <4>2, OthersKeep
    <3>2. CASE ~(initing[u].pc = "create" /\ Head(initing[u].todo) = k)
      <4>1. initing'[u] = initing[u]
        BY <2>3, <3>2 DEF Excusing
      <4> QED
        BY <1>0, <1>4, <2>1, <2>3, <3>2, <4>1, OthersKeep
    <3> QED
      BY <3>1, <3>2
  <2>4. \/ initing'[u] = initing[u] /\ registry' = registry
        \/ registry' = registry \cup {k} /\ initing'[u] = Excusing(k)[u]
    BY <1>0, <1>3, <1>6, <1>8 DEF ResourcesTypeOK, Refused, Lost, Created
  <2> QED
    BY <2>2, <2>3, <2>4
<1>9. Root \in registry'
  BY <1>4 DEF ResourcesInv
<1> QED
  BY <1>5, <1>7, <1>8, <1>9 DEF ResourcesInv

LEMMA ElsewhereKeeps == ResourcesInv /\ RegisterElsewhere => ResourcesInv'
<1> SUFFICES ASSUME ResourcesInv, RegisterElsewhere PROVE ResourcesInv'
  OBVIOUS
<1>1. parent' = parent /\ initing' = initing /\ registry' = registry \cup {OtherPackage}
  BY DEF RegisterElsewhere
<1>2. ResourcesTypeOK'
  BY <1>1 DEF ResourcesInv, ResourcesTypeOK
<1>3. ASSUME NEW u \in Starter
      PROVE  (initing'[u].pc # "not started" => Walks(u)') /\ Knows(u)'
  <2>1. initing[u].pc = "create" => Head(initing[u].todo) # OtherPackage
    BY KeyAtHand, ParentsAssumption DEF Keys, ResourceKey, OwnPackage, OtherPackage
  <2>2. initing[u].pc = "create" /\ ~initing[u].excused => Head(initing[u].todo) \notin registry'
    BY <1>1, <2>1 DEF ResourcesInv, Knows
  <2> QED
    BY <1>1, <2>2, OthersKeep
<1> QED
  BY <1>1, <1>2, <1>3 DEF ResourcesInv

LEMMA ResourcesInvNext == ResourcesInv /\ [ResourcesNext]_resourceVars => ResourcesInv'
<1> SUFFICES ASSUME ResourcesInv, [ResourcesNext]_resourceVars PROVE ResourcesInv'
  OBVIOUS
<1>1. CASE UNCHANGED resourceVars
  BY <1>1 DEF resourceVars, ResourcesInv, ResourcesTypeOK, Walks, Knows, Behind, Owned
<1>2. ASSUME NEW s \in Starter, InitResources(s) \/ FindResource(s) \/ CreateResource(s)
      PROVE  ResourcesInv'
  BY <1>2, StartKeeps, FindKeeps, CreateKeeps
<1>3. CASE RegisterElsewhere
  BY <1>3, ElsewhereKeeps
<1> QED
  BY <1>1, <1>2, <1>3 DEF ResourcesNext

LEMMA ResourcesInvExplains == ResourcesInv => ResourcesExplained
<1> SUFFICES ASSUME ResourcesInv, NEW s \in Starter
             PROVE  /\ initing[s].pc = "started" => ResourceKey \subseteq registry
                    /\ initing[s].pc = "failed" /\ ~initing[s].excused =>
                         LET k == Head(initing[s].todo)
                         IN  k \in ResourceKey /\ (parent[k] >= k \/ parent[k] = OtherPackage)
  BY DEF ResourcesExplained
<1>1. ASSUME initing[s].pc = "started" PROVE ResourceKey \subseteq registry
  <2>1. initing[s].todo = <<>> /\ Walks(s)
    BY <1>1 DEF ResourcesInv, Knows
  <2>2. Behind(s) = Resources
    BY <2>1, ParentsAssumption DEF Behind
  <2>3. \A k \in ResourceKey : k <= Resources
    BY ParentsAssumption DEF ResourceKey
  <2> QED
    BY <2>1, <2>2, <2>3 DEF Walks
<1>2. initing[s].pc = "failed" /\ ~initing[s].excused =>
        LET k == Head(initing[s].todo)
        IN  k \in ResourceKey /\ (parent[k] >= k \/ parent[k] = OtherPackage)
  BY DEF ResourcesInv, Knows
<1> QED
  BY <1>1, <1>2

(* For any number of starts at once: one that ends well has every resource *)
(* there, and one that fails is explained (initResources).                 *)
THEOREM StartsExplained == ResourcesSpec => []ResourcesExplained
<1>1. ResourcesInit => ResourcesInv
  BY ResourcesInvInit
<1>2. ResourcesInv /\ [ResourcesNext]_resourceVars => ResourcesInv'
  BY ResourcesInvNext
<1>3. ResourcesInv => ResourcesExplained
  BY ResourcesInvExplains
<1> QED
  BY <1>1, <1>2, <1>3, PTL DEF ResourcesSpec

-----------------------------------------------------------------------------
(***************************************************************************)
(* Config.  The chain holds what was registered, in the order of ranks.    *)
(***************************************************************************)
ChainInv ==
  /\ chain \in Seq(Links) /\ registered \in Seq(Links) /\ stored \in [Provider -> Setting \cup {Unset}]
  /\ \A i, k \in 1..Len(registered) : registered[i].provider = registered[k].provider => i = k
  /\ \A i \in 1..Len(registered) : \E k \in 1..Len(chain) : chain[k] = registered[i]
  /\ \A k \in 1..Len(chain) : \E i \in 1..Len(registered) : chain[k] = registered[i]
  /\ \A k, l \in 1..Len(chain), i, j \in 1..Len(registered) :
       k < l /\ chain[k] = registered[i] /\ chain[l] = registered[j] => Outranks(i, j)

(* A callback of a change's list has heard of it once when its turn is     *)
(* over, and not before; a change that is not told yet has no list.        *)
HeardOnce(c, n) == \E k \in 1..Len(told[c]) : \A l \in 1..Len(told[c]) : told[c][l] = n <=> l = k
NotHeard(c, n) == \A l \in 1..Len(told[c]) : told[c][l] # n

Telling == [list : Seq(Callback), next : Nat]

ToldInv ==
  /\ callbacks \in Seq(Callback) /\ told \in [Callback -> Seq(Nat)]
  /\ notifying \in Seq(Telling)
  /\ \A i, k \in 1..Len(callbacks) : callbacks[i] = callbacks[k] => i = k
  /\ \A n \in Nat \ (1..Len(notifying)) : \A c \in Callback : NotHeard(c, n)
  /\ \A n \in 1..Len(notifying) :
       /\ notifying[n].next = 0 => \A c \in Callback : NotHeard(c, n)
       /\ \A i, k \in 1..Len(notifying[n].list) : notifying[n].list[i] = notifying[n].list[k] => i = k
       /\ notifying[n].next > 0 =>
            \A i \in 1..Len(notifying[n].list) :
              IF i < notifying[n].next THEN HeardOnce(notifying[n].list[i], n)
              ELSE NotHeard(notifying[n].list[i], n)

LEMMA LeastExists ==
  ASSUME NEW S \in SUBSET Nat, S # {}
  PROVE  \E i \in S : \A k \in S : i <= k
<1>1. PICK i \in S : \A k \in S : <<k, i>> \notin OpToRel(<, Nat)
  BY NatLessThanWellFounded, WFMin
<1>2. ASSUME NEW k \in S PROVE i <= k
  <2>1. <<k, i>> \in Nat \X Nat /\ ~(k < i)
    BY <1>1 DEF OpToRel
  <2> QED
    BY <2>1
<1> QED
  BY <1>2

LEMMA LinkPlaceIs ==
  ASSUME chain \in Seq(Links), NEW n \in Priority
  PROVE  /\ LinkPlace(n) \in 1..(Len(chain) + 1)
         /\ \A k \in 1..(LinkPlace(n) - 1) : chain[k].priority > n
         /\ LinkPlace(n) <= Len(chain) => chain[LinkPlace(n)].priority <= n
<1>1. Len(chain) \in Nat /\ n \in Int
  BY PriorityAssumption
<1>2. ASSUME NEW k \in 1..Len(chain) PROVE chain[k].priority \in Int
  <2>1. chain[k] \in Links
    OBVIOUS
  <2> QED
    BY <2>1, PriorityAssumption DEF Links
<1>3. PICK S : S = {i \in 1..(Len(chain) + 1) : i <= Len(chain) => chain[i].priority <= n}
  OBVIOUS
<1>4. S \in SUBSET Nat /\ Len(chain) + 1 \in S
  BY <1>1, <1>3
<1>5. PICK i \in S : \A k \in S : i <= k
  BY <1>4, LeastExists
<1>6. i \in 1..(Len(chain) + 1) /\ (i <= Len(chain) => chain[i].priority <= n)
  BY <1>3
<1>7. ASSUME NEW k \in 1..(i - 1) PROVE chain[k].priority > n
  <2>1. k \notin S /\ k \in 1..Len(chain)
    BY <1>1, <1>5, <1>6
  <2> QED
    BY <1>1, <1>2, <1>3, <2>1
<1> QED
  BY <1>6, <1>7 DEF LinkPlace

LEMMA ChainRegisters ==
  ASSUME ChainInv, NEW p \in Provider, NEW n \in Priority, RegisterConfigProvider(p, n)
  PROVE  ChainInv'
<1>1. PICK L, m, b, link : L = Len(chain) /\ m = Len(registered) /\ b = LinkPlace(n)
                           /\ link = [provider |-> p, priority |-> n]
  OBVIOUS
<1>2. chain \in Seq(Links) /\ registered \in Seq(Links) /\ L \in Nat /\ m \in Nat
  BY <1>1 DEF ChainInv
<1>3. link \in Links /\ link.provider = p /\ link.priority = n /\ n \in Int
  BY <1>1, PriorityAssumption DEF Links
<1>4. /\ b \in 1..(L + 1) /\ \A k \in 1..(b - 1) : chain[k].priority > n
      /\ b <= L => chain[b].priority <= n
  BY <1>1, <1>2, LinkPlaceIs
<1>5. /\ chain' = [i \in 1..(L + 1) |-> IF i < b THEN chain[i] ELSE IF i = b THEN link ELSE chain[i - 1]]
      /\ registered' = Append(registered, link) /\ stored' = stored
      /\ \A i \in 1..m : registered[i].provider # p
  BY <1>1, <1>3 DEF RegisterConfigProvider, Place
<1>6. \A i \in 1..L : chain[i] \in Links
  BY <1>1, <1>2
<1>7. \A i \in 1..(L + 1) : (IF i < b THEN chain[i] ELSE IF i = b THEN link ELSE chain[i - 1]) \in Links
  BY <1>2, <1>3, <1>4, <1>6
<1>8. chain' \in [1..(L + 1) -> Links]
  BY <1>5, <1>7
<1>9. chain' \in Seq(Links) /\ Len(chain') = L + 1
  BY <1>2, <1>8
<1>10. /\ \A k \in 1..(b - 1) : chain'[k] = chain[k]
       /\ chain'[b] = link
       /\ \A k \in (b + 1)..(L + 1) : chain'[k] = chain[k - 1]
  BY <1>2, <1>4, <1>5
<1>11. /\ registered' \in Seq(Links) /\ Len(registered') = m + 1 /\ registered'[m + 1] = link
       /\ \A i \in 1..m : registered'[i] = registered[i]
  BY <1>1, <1>2, <1>3, <1>5
<1>12. ASSUME NEW i \in 1..(m + 1), NEW k \in 1..(m + 1), registered'[i].provider = registered'[k].provider
       PROVE  i = k
  <2>1. \A j, l \in 1..m : registered[j].provider = registered[l].provider => j = l
    BY <1>1 DEF ChainInv
  <2> QED
    BY <1>2, <1>3, <1>5, <1>11, <1>12, <2>1
<1>13. \A k \in 1..L : chain[k] # link
  BY <1>1, <1>3, <1>5 DEF ChainInv
<1>14. ASSUME NEW i \in 1..(m + 1) PROVE \E k \in 1..(L + 1) : chain'[k] = registered'[i]
  <2>1. CASE i = m + 1
    BY <1>4, <1>10, <1>11, <2>1
  <2>2. CASE i # m + 1
    <3>0. i \in 1..Len(registered)
      BY <1>1, <1>2, <2>2
    <3>1. PICK k \in 1..L : chain[k] = registered[i]
      BY <1>1, <3>0 DEF ChainInv
    <3>2. CASE k < b
      BY <1>2, <1>4, <1>10, <1>11, <2>2, <3>1, <3>2
    <3>3. CASE k >= b
      <4>1. k + 1 \in (b + 1)..(L + 1) /\ (k + 1) - 1 = k
        BY <1>2, <1>4, <3>3
      <4>2. chain'[k + 1] = chain[k]
        BY <1>10, <4>1
      <4> QED
        BY <1>2, <1>4, <1>11, <2>2, <3>1, <4>1, <4>2
    <3> QED
      BY <1>2, <1>4, <3>2, <3>3
  <2> QED
    BY <2>1, <2>2
<1>15. ASSUME NEW k \in 1..(L + 1)
       PROVE  \/ k = b /\ chain'[k] = link
              \/ k < b /\ k \in 1..L /\ chain'[k] = chain[k]
              \/ k > b /\ k - 1 \in 1..L /\ chain'[k] = chain[k - 1]
  BY <1>2, <1>4, <1>10
<1>16. ASSUME NEW k \in 1..(L + 1) PROVE \E i \in 1..(m + 1) : chain'[k] = registered'[i]
  <2>1. CASE k = b
    BY <1>2, <1>10, <1>11, <2>1
  <2>2. CASE k # b
    <3>1. PICK o \in 1..L : chain'[k] = chain[o]
      BY <1>15, <2>2
    <3>2. PICK i \in 1..m : chain[o] = registered[i]
      BY <1>1, <3>1 DEF ChainInv
    <3> QED
      BY <1>2, <1>11, <3>1, <3>2
  <2> QED
    BY <2>1, <2>2
<1>17. ASSUME NEW i \in 1..(m + 1), NEW k \in 1..(L + 1), chain'[k] = registered'[i]
       PROVE  IF k = b THEN i = m + 1 ELSE i \in 1..m /\ registered'[i] = registered[i]
  <2>1. CASE k = b
    <3>1. i \in 1..m => registered'[i].provider # p
      BY <1>5, <1>11
    <3>2. registered'[i] = link
      BY <1>10, <1>17, <2>1
    <3> QED
      BY <1>2, <1>3, <2>1, <3>1, <3>2
  <2>2. CASE k # b
    BY <1>2, <1>11, <1>13, <1>15, <1>17, <2>2
  <2> QED
    BY <2>1, <2>2
<1>18. ASSUME NEW i \in 1..m, NEW j \in 1..m, Outranks(i, j) PROVE Outranks(i, j)'
  BY <1>11, <1>18 DEF Outranks
<1>19. \A k \in 1..L : k >= b => chain[k].priority <= n
  <2> SUFFICES ASSUME NEW k \in 1..L, k >= b PROVE chain[k].priority <= n
    OBVIOUS
  <2>1. b \in 1..L /\ chain[b].priority <= n
    BY <1>2, <1>4
  <2>2. CASE k = b
    BY <2>1, <2>2
  <2>3. CASE k # b
    <3>1. PICK i \in 1..m, j \in 1..m : chain[b] = registered[i] /\ chain[k] = registered[j]
      BY <1>1, <2>1 DEF ChainInv
    <3>2. b < k
      BY <1>2, <2>1, <2>3
    <3>3. Outranks(i, j)
      BY <1>1, <2>1, <3>1, <3>2 DEF ChainInv
    <3>4. chain[b].priority \in Int /\ chain[k].priority \in Int
      BY <1>6, <2>1, PriorityAssumption DEF Links
    <3> QED
      BY <1>3, <2>1, <3>1, <3>3, <3>4 DEF Outranks
  <2> QED
    BY <2>2, <2>3
<1>20. ASSUME NEW k \in 1..(L + 1), NEW l \in 1..(L + 1), NEW i \in 1..(m + 1), NEW j \in 1..(m + 1),
              k < l, chain'[k] = registered'[i], chain'[l] = registered'[j]
       PROVE  Outranks(i, j)'
  <2>1. CASE l = b
    <3>1. j = m + 1 /\ registered'[j] = link /\ i \in 1..m
      BY <1>2, <1>4, <1>11, <1>17, <1>20, <2>1
    <3>2. k \in 1..(b - 1)
      BY <1>2, <1>4, <1>20, <2>1
    <3>3. chain'[k] = chain[k] /\ chain[k].priority > n
      BY <1>4, <1>10, <3>2
    <3>4. registered'[i].priority > n
      BY <1>20, <3>3
    <3> QED
      BY <1>3, <3>1, <3>4 DEF Outranks
  <2>2. CASE k = b
    <3>1. i = m + 1 /\ registered'[i] = link /\ j \in 1..m
      BY <1>2, <1>4, <1>11, <1>17, <1>20, <2>2
    <3>2. l - 1 \in 1..L /\ l - 1 >= b /\ chain'[l] = chain[l - 1]
      BY <1>2, <1>4, <1>10, <1>20, <2>2
    <3>3. registered'[j].priority <= n /\ registered'[j].priority \in Int
      BY <1>6, <1>19, <1>20, <3>2, PriorityAssumption DEF Links
    <3> QED
      BY <1>2, <1>3, <3>1, <3>3 DEF Outranks
  <2>3. CASE k # b /\ l # b
    <3>1. i \in 1..m /\ registered'[i] = registered[i] /\ j \in 1..m /\ registered'[j] = registered[j]
      BY <1>17, <1>20, <2>3
    <3>2. PICK o \in 1..L, q \in 1..L : chain'[k] = chain[o] /\ chain'[l] = chain[q] /\ o < q
      BY <1>2, <1>4, <1>15, <1>20, <2>3
    <3>3. Outranks(i, j)
      BY <1>1, <1>20, <3>1, <3>2 DEF ChainInv
    <3> QED
      BY <1>18, <3>1, <3>3
  <2> QED
    BY <2>1, <2>2, <2>3
<1>21. chain' \in Seq(Links) /\ registered' \in Seq(Links)
       /\ stored' \in [Provider -> Setting \cup {Unset}]
       /\ Len(chain') = L + 1 /\ Len(registered') = m + 1
  BY <1>5, <1>9, <1>11 DEF ChainInv
<1> QED
  BY <1>12, <1>14, <1>16, <1>20, <1>21 DEF ChainInv

LEMMA ChainNext ==
  ASSUME ChainInv, [ConfigNext]_configVars
  PROVE  ChainInv'
<1>1. ASSUME UNCHANGED <<chain, registered>>, stored' \in [Provider -> Setting \cup {Unset}] PROVE ChainInv'
  <2>1. \A i, j : Outranks(i, j)' <=> Outranks(i, j)
    BY <1>1 DEF Outranks
  <2>2. PICK L, m : L = Len(chain) /\ m = Len(registered)
    OBVIOUS
  <2>3. L = Len(chain') /\ m = Len(registered')
    BY <1>1, <2>2
  <2>4. \A k, l \in 1..L, i, j \in 1..m :
          k < l /\ chain[k] = registered[i] /\ chain[l] = registered[j] => Outranks(i, j)
    BY <2>2 DEF ChainInv
  <2>5. \A k, l \in 1..L, i, j \in 1..m :
          k < l /\ chain'[k] = registered'[i] /\ chain'[l] = registered'[j] => Outranks(i, j)'
    BY <1>1, <2>1, <2>4
  <2> QED
    BY <1>1, <2>3, <2>5 DEF ChainInv
<1>2. stored \in [Provider -> Setting \cup {Unset}]
  BY DEF ChainInv
<1>3. ASSUME NEW v \in Setting, SetConfValue(v) PROVE ChainInv'
  <2>1. UNCHANGED <<chain, registered>> /\ stored' \in [Provider -> Setting \cup {Unset}]
    BY <1>2, <1>3 DEF SetConfValue
  <2> QED
    BY <1>1, <2>1
<1> QED
  BY <1>1, <1>2, <1>3, ChainRegisters
     DEF ConfigNext, configVars, RegisterConfigChangeCallback, NotifyConfigChanged, BeginTelling, TellNext

(* The first link that gives a value is the registration that outranks     *)
(* the others that do.                                                     *)
LEMMA FirstOutranks ==
  ASSUME ChainInv
  PROVE  HighestWins
<1> DEFINE G == {i \in 1..Len(chain) : stored[chain[i].provider] # Unset}
           H == {i \in 1..Len(registered) : stored[registered[i].provider] # Unset}
<1>1. Len(chain) \in Nat /\ Len(registered) \in Nat
  BY DEF ChainInv
<1>2. ASSUME NEW i \in Int, NEW k \in Int, registered[i].priority \in Int, registered[k].priority \in Int,
             Outranks(i, k)
      PROVE  ~Outranks(k, i)
  BY <1>2 DEF Outranks
<1>3. \A i \in 1..Len(registered) : registered[i].priority \in Int
  <2> SUFFICES ASSUME NEW i \in 1..Len(registered) PROVE registered[i].priority \in Int
    OBVIOUS
  <2>1. registered[i] \in Links
    BY DEF ChainInv
  <2> QED
    BY <2>1, PriorityAssumption DEF Links
<1>4. CASE G = {}
  <2>1. H = {}
    <3> SUFFICES ASSUME NEW i \in H PROVE FALSE
      OBVIOUS
    <3>1. PICK k \in 1..Len(chain) : chain[k] = registered[i]
      BY DEF ChainInv
    <3>2. k \in G
      BY <3>1
    <3> QED
      BY <1>4, <3>2
  <2> QED
    BY <1>4, <2>1 DEF HighestWins, ConfValue
<1>5. CASE G # {}
  <2>1. PICK f \in G : \A k \in G : f <= k
    <3>1. G \in SUBSET Nat
      BY <1>1
    <3> QED
      BY <1>5, <3>1, LeastExists
  <2>2. (CHOOSE i \in G : \A k \in G : i <= k) = f
    <3>1. \A i \in G : (\A k \in G : i <= k) => i = f
      BY <1>1, <2>1
    <3> QED
      BY <2>1, <3>1
  <2>3. PICK j \in 1..Len(registered) : chain[f] = registered[j]
    BY DEF ChainInv
  <2>4. j \in H
    BY <2>3
  <2>5. ASSUME NEW k \in H \ {j} PROVE Outranks(j, k)
    <3>1. PICK l \in 1..Len(chain) : chain[l] = registered[k]
      BY DEF ChainInv
    <3>2. l \in G
      BY <3>1
    <3>3. l # f
      <4>1. registered[k] # registered[j]
        BY DEF ChainInv
      <4> QED
        BY <2>3, <3>1, <4>1
    <3>4. f < l
      BY <1>1, <2>1, <3>2, <3>3
    <3> QED
      BY <2>3, <3>1, <3>4 DEF ChainInv
  <2>6. ASSUME NEW i \in H, \A k \in H \ {i} : Outranks(i, k) PROVE i = j
    BY <1>2, <1>3, <2>4, <2>5, <2>6
  <2>7. (CHOOSE i \in H : \A k \in H \ {i} : Outranks(i, k)) = j
    BY <2>4, <2>5, <2>6
  <2>8. H # {}
    BY <2>4
  <2>9. ConfValue = stored[chain[f].provider]
    BY <1>5, <2>2 DEF ConfValue
  <2> HIDE DEF H
  <2>10. (IF H = {} THEN Unset
         ELSE stored[registered[CHOOSE i \in H : \A k \in H \ {i} : Outranks(i, k)].provider])
           = stored[registered[j].provider]
    BY <2>7, <2>8
  <2> QED
    BY <2>3, <2>9, <2>10 DEF HighestWins, H
<1> QED
  BY <1>4, <1>5

LEMMA ChainInit == ConfigInit => ChainInv
<1> SUFFICES ASSUME ConfigInit PROVE ChainInv
  OBVIOUS
<1>1. <<>> \in Seq(Links) /\ Len(<<>>) = 0
  OBVIOUS
<1> QED
  BY <1>1 DEF ConfigInit, ChainInv

-----------------------------------------------------------------------------
LEMMA ToldTypes ==
  ASSUME ToldInv, NEW n \in 1..Len(notifying)
  PROVE  /\ notifying[n] \in Telling
         /\ notifying[n].list \in Seq(Callback) /\ notifying[n].next \in Nat
         /\ Len(notifying) \in Nat /\ n \in Nat
<1>1. notifying \in Seq(Telling)
  BY DEF ToldInv
<1>2. notifying[n] \in Telling
  BY <1>1
<1> QED
  BY <1>1, <1>2 DEF Telling

(* What a callback has heard, when it hears of n. *)
LEMMA Hears ==
  ASSUME ToldInv, NEW b \in Callback, NEW n \in Nat, told' = [told EXCEPT ![b] = Append(@, n)]
  PROVE  /\ told' \in [Callback -> Seq(Nat)]
         /\ NotHeard(b, n) => HeardOnce(b, n)'
         /\ \A c \in Callback, m \in Nat : c # b \/ m # n =>
              (NotHeard(c, m) => NotHeard(c, m)') /\ (HeardOnce(c, m) => HeardOnce(c, m)')
<1>1. told[b] \in Seq(Nat) /\ told'[b] = Append(told[b], n) /\ \A c \in Callback \ {b} : told'[c] = told[c]
  BY DEF ToldInv
<1>2. PICK s, t, k : s = told[b] /\ t = told'[b] /\ k = Len(told[b])
  OBVIOUS
<1>3. /\ s \in Seq(Nat) /\ t \in Seq(Nat) /\ k \in Nat /\ Len(s) = k /\ Len(t) = k + 1
      /\ t[k + 1] = n /\ \A l \in 1..k : t[l] = s[l]
  BY <1>1, <1>2
<1>4. told' \in [Callback -> Seq(Nat)]
  BY <1>1, <1>2, <1>3 DEF ToldInv
<1>5. ASSUME NotHeard(b, n) PROVE HeardOnce(b, n)'
  <2>1. \A l \in 1..k : s[l] # n
    BY <1>2, <1>5 DEF NotHeard
  <2>2. \A l \in 1..(k + 1) : t[l] = n <=> l = k + 1
    BY <1>3, <2>1
  <2>3. k + 1 \in 1..Len(t)
    BY <1>3
  <2> QED
    BY <1>2, <1>3, <2>2, <2>3 DEF HeardOnce
<1>6. ASSUME NEW c \in Callback, NEW m \in Nat, c # b \/ m # n, NotHeard(c, m) PROVE NotHeard(c, m)'
  <2>1. CASE c # b
    BY <1>1, <1>6, <2>1 DEF NotHeard
  <2>2. CASE c = b
    <3>1. \A l \in 1..k : s[l] # m
      BY <1>2, <1>6, <2>2 DEF NotHeard
    <3>2. \A l \in 1..(k + 1) : t[l] # m
      BY <1>3, <1>6, <2>2, <3>1
    <3> QED
      BY <1>2, <1>3, <2>2, <3>2 DEF NotHeard
  <2> QED
    BY <2>1, <2>2
<1>7. ASSUME NEW c \in Callback, NEW m \in Nat, c # b \/ m # n, HeardOnce(c, m) PROVE HeardOnce(c, m)'
  <2>1. CASE c # b
    BY <1>1, <1>7, <2>1 DEF HeardOnce
  <2>2. CASE c = b
    <3>1. PICK o \in 1..k : \A l \in 1..k : s[l] = m <=> l = o
      BY <1>2, <1>7, <2>2 DEF HeardOnce
    <3>2. \A l \in 1..(k + 1) : t[l] = m <=> l = o
      BY <1>3, <1>7, <2>2, <3>1
    <3>3. o \in 1..Len(t)
      BY <1>3, <3>1
    <3>4. \E d \in 1..Len(t) : \A l \in 1..Len(t) : t[l] = m <=> l = d
      BY <1>3, <3>2, <3>3
    <3>5. t = told'[c]
      BY <1>2, <2>2
    <3> QED
      BY <3>4, <3>5 DEF HeardOnce
  <2> QED
    BY <2>1, <2>2
<1> QED
  BY <1>4, <1>5, <1>6, <1>7

LEMMA ToldCallback ==
  ASSUME ToldInv, NEW c \in Callback, RegisterConfigChangeCallback(c)
  PROVE  ToldInv'
<1>1. PICK s, k, t : s = callbacks /\ k = Len(callbacks) /\ t = callbacks'
  OBVIOUS
<1>2. /\ s \in Seq(Callback) /\ k \in Nat /\ Len(s) = k /\ t = Append(s, c) /\ \A i \in 1..k : s[i] # c
      /\ \A i, l \in 1..k : s[i] = s[l] => i = l
  <2>1. s \in Seq(Callback) /\ \A i, l \in 1..k : s[i] = s[l] => i = l
    BY <1>1 DEF ToldInv
  <2>2. t = Append(s, c) /\ \A i \in 1..k : s[i] # c
    BY <1>1 DEF RegisterConfigChangeCallback
  <2> QED
    BY <1>1, <2>1, <2>2
<1>3. t \in Seq(Callback) /\ Len(t) = k + 1 /\ t[k + 1] = c /\ \A i \in 1..k : t[i] = s[i]
  BY <1>2
<1>4. \A i, l \in 1..(k + 1) : t[i] = t[l] => i = l
  BY <1>2, <1>3
<1>5. UNCHANGED <<told, notifying>>
  BY DEF RegisterConfigChangeCallback
<1>6. \A d, n : (NotHeard(d, n)' <=> NotHeard(d, n)) /\ (HeardOnce(d, n)' <=> HeardOnce(d, n))
  BY <1>5 DEF NotHeard, HeardOnce
<1>7. callbacks' \in Seq(Callback) /\ \A i, l \in 1..Len(callbacks') : callbacks'[i] = callbacks'[l] => i = l
  BY <1>1, <1>3, <1>4
<1> QED
  BY <1>5, <1>6, <1>7 DEF ToldInv

LEMMA ToldNotify ==
  ASSUME ToldInv, NotifyConfigChanged
  PROVE  ToldInv'
<1>1. PICK s, k, e, t : s = notifying /\ k = Len(notifying) /\ e = [list |-> <<>>, next |-> 0] /\ t = notifying'
  OBVIOUS
<1>2. /\ s \in Seq(Telling) /\ k \in Nat /\ Len(s) = k /\ t = Append(s, e)
      /\ e \in Telling /\ e.list = <<>> /\ e.next = 0
  <2>1. s \in Seq(Telling) /\ k \in Nat /\ Len(s) = k /\ t = Append(s, e)
    BY <1>1 DEF ToldInv, NotifyConfigChanged
  <2>2. <<>> \in Seq(Callback)
    OBVIOUS
  <2>3. e \in Telling /\ e.list = <<>> /\ e.next = 0
    BY <1>1, <2>2 DEF Telling
  <2> QED
    BY <2>1, <2>3
<1>3. /\ t \in Seq(Telling) /\ Len(t) = k + 1 /\ t[k + 1] = e
      /\ \A i \in 1..k : t[i] = s[i]
  BY <1>2
<1>4. UNCHANGED <<told, callbacks>>
  BY DEF NotifyConfigChanged
<1>5. \A c \in Callback, n \in Nat : (NotHeard(c, n)' <=> NotHeard(c, n)) /\ (HeardOnce(c, n)' <=> HeardOnce(c, n))
  BY <1>4 DEF NotHeard, HeardOnce
<1>6. \A n \in Nat \ (1..k) : \A c \in Callback : NotHeard(c, n)
  BY <1>1 DEF ToldInv
<1>7. \A n \in Nat \ (1..(k + 1)) : \A c \in Callback : NotHeard(c, n)'
  BY <1>2, <1>5, <1>6
<1>8. ASSUME NEW n \in 1..(k + 1)
      PROVE  /\ t[n].next = 0 => \A c \in Callback : NotHeard(c, n)'
             /\ \A i, l \in 1..Len(t[n].list) : t[n].list[i] = t[n].list[l] => i = l
             /\ t[n].next > 0 =>
                  \A i \in 1..Len(t[n].list) :
                    IF i < t[n].next THEN HeardOnce(t[n].list[i], n)' ELSE NotHeard(t[n].list[i], n)'
  <2>1. CASE n = k + 1
    <3>1. t[n].next = 0 /\ t[n].list = <<>> /\ Len(<<>>) = 0
      BY <1>2, <1>3, <2>1
    <3>2. n \in Nat \ (1..k)
      BY <1>2, <2>1
    <3> QED
      BY <1>5, <1>6, <3>1, <3>2
  <2>2. CASE n # k + 1
    <3>1. n \in 1..Len(notifying) /\ t[n] = notifying[n] /\ n \in Nat
      BY <1>1, <1>2, <1>3, <2>2
    <3>2. \A i \in 1..Len(t[n].list) : t[n].list[i] \in Callback
      BY <3>1, ToldTypes
    <3> QED
      BY <1>5, <3>1, <3>2 DEF ToldInv
  <2> QED
    BY <2>1, <2>2
<1>9. Len(notifying') = k + 1 /\ notifying' = t
  BY <1>1, <1>3
<1> QED
  BY <1>3, <1>4, <1>7, <1>8, <1>9 DEF ToldInv

LEMMA ToldBegin ==
  ASSUME ToldInv, NEW n \in 1..Len(notifying), BeginTelling(n)
  PROVE  ToldInv'
<1>1. PICK s, e : s = notifying /\ e = [list |-> callbacks, next |-> 1]
  OBVIOUS
<1>2. /\ s \in Seq(Telling) /\ callbacks \in Seq(Callback)
      /\ e \in Telling /\ e.list = callbacks /\ e.next = 1
  <2>1. s \in Seq(Telling) /\ callbacks \in Seq(Callback)
    BY <1>1 DEF ToldInv
  <2>2. e \in Telling /\ e.list = callbacks /\ e.next = 1
    BY <1>1, <2>1 DEF Telling
  <2> QED
    BY <2>1, <2>2
<1>3. /\ notifying' = [s EXCEPT ![n] = e] /\ s[n].next = 0 /\ n \in 1..Len(s)
      /\ UNCHANGED <<told, callbacks>>
  BY <1>1 DEF BeginTelling
<1>t. PICK t : t = notifying'
  OBVIOUS
<1>4. /\ t \in Seq(Telling) /\ Len(t) = Len(s)
      /\ t[n] = e /\ \A m \in 1..Len(s) : m # n => t[m] = s[m]
  BY <1>2, <1>3, <1>t
<1>5. \A d, m : (NotHeard(d, m)' <=> NotHeard(d, m)) /\ (HeardOnce(d, m)' <=> HeardOnce(d, m))
  BY <1>3 DEF NotHeard, HeardOnce
<1>6. \A c \in Callback : NotHeard(c, n)
  BY <1>1, <1>3 DEF ToldInv
<1>7. \A i \in 1..Len(callbacks) : callbacks[i] \in Callback /\ ~(i < 1)
  BY <1>2
<1>8. ASSUME NEW m \in 1..Len(t)
      PROVE  /\ t[m].next = 0 => \A c \in Callback : NotHeard(c, m)
             /\ \A i, k \in 1..Len(t[m].list) : t[m].list[i] = t[m].list[k] => i = k
             /\ t[m].next > 0 =>
                  \A i \in 1..Len(t[m].list) :
                    IF i < t[m].next THEN HeardOnce(t[m].list[i], m)
                    ELSE NotHeard(t[m].list[i], m)
  <2>1. CASE m = n
    <3>1. t[m] = e /\ t[m].list = callbacks /\ t[m].next = 1
      BY <1>2, <1>4, <2>1
    <3>2. \A i, k \in 1..Len(callbacks) : callbacks[i] = callbacks[k] => i = k
      BY DEF ToldInv
    <3> QED
      BY <1>6, <1>7, <2>1, <3>1, <3>2
  <2>2. CASE m # n
    <3>1. t[m] = notifying[m] /\ m \in 1..Len(notifying)
      BY <1>1, <1>4, <2>2
    <3> QED
      BY <3>1 DEF ToldInv
  <2> QED
    BY <2>1, <2>2
<1>9. \A m \in Nat \ (1..Len(t)) : \A c \in Callback : NotHeard(c, m)
  BY <1>1, <1>4 DEF ToldInv
<1>10. /\ callbacks' \in Seq(Callback) /\ told' \in [Callback -> Seq(Nat)]
       /\ \A i, k \in 1..Len(callbacks') : callbacks'[i] = callbacks'[k] => i = k
  BY <1>3 DEF ToldInv
<1> QED
  BY <1>t, <1>4, <1>5, <1>8, <1>9, <1>10 DEF ToldInv

LEMMA ToldTell ==
  ASSUME ToldInv, NEW n \in 1..Len(notifying), TellNext(n)
  PROVE  ToldInv'
<1>1. PICK me, j : me = notifying[n] /\ j = notifying[n].next
  OBVIOUS
<1>2. /\ me \in Telling /\ me.list \in Seq(Callback) /\ me.next = j /\ j \in Nat
      /\ Len(notifying) \in Nat /\ n \in Nat
  BY <1>1, ToldTypes
<1>3. j \in 1..Len(me.list) /\ me.list[j] \in Callback
  BY <1>1, <1>2 DEF TellNext
<1>4. PICK b : b = me.list[j]
  OBVIOUS
<1>5. told' = [told EXCEPT ![b] = Append(@, n)] /\ UNCHANGED callbacks
  BY <1>1, <1>4 DEF TellNext
<1>6. PICK e : e = [me EXCEPT !.next = j + 1]
  OBVIOUS
<1>7. e \in Telling /\ e.list = me.list /\ e.next = j + 1
  BY <1>2, <1>6 DEF Telling
<1>8. notifying \in Seq(Telling)
  BY DEF ToldInv
<1>9. notifying' = [notifying EXCEPT ![n] = e]
  BY <1>1, <1>6, <1>8 DEF TellNext
<1>t. PICK t : t = notifying'
  OBVIOUS
<1>10. /\ t \in Seq(Telling) /\ Len(t) = Len(notifying)
       /\ t[n] = e /\ \A m \in 1..Len(notifying) : m # n => t[m] = notifying[m]
  BY <1>7, <1>8, <1>9, <1>t
<1>11. /\ \A i, k \in 1..Len(me.list) : me.list[i] = me.list[k] => i = k
       /\ \A i \in 1..Len(me.list) : IF i < j THEN HeardOnce(me.list[i], n) ELSE NotHeard(me.list[i], n)
  <2>1. me.next > 0
    BY <1>2, <1>3
  <2> QED
    BY <1>1, <1>2, <2>1 DEF ToldInv
<1>12. b \in Callback /\ NotHeard(b, n)
  BY <1>2, <1>3, <1>4, <1>11
<1>13. /\ told' \in [Callback -> Seq(Nat)] /\ HeardOnce(b, n)'
       /\ \A c \in Callback, m \in Nat : c # b \/ m # n =>
            (NotHeard(c, m) => NotHeard(c, m)') /\ (HeardOnce(c, m) => HeardOnce(c, m)')
  BY <1>2, <1>5, <1>12, Hears
<1>14. \A m \in Nat \ (1..Len(notifying)) : \A c \in Callback : NotHeard(c, m)'
  BY <1>13 DEF ToldInv
<1>15. ASSUME NEW m \in 1..Len(t)
       PROVE  /\ t[m].next = 0 => \A c \in Callback : NotHeard(c, m)'
              /\ \A i, k \in 1..Len(t[m].list) : t[m].list[i] = t[m].list[k] => i = k
              /\ t[m].next > 0 =>
                   \A i \in 1..Len(t[m].list) :
                     IF i < t[m].next THEN HeardOnce(t[m].list[i], m)'
                     ELSE NotHeard(t[m].list[i], m)'
  <2>1. CASE m = n
    <3>1. t[m].list = me.list /\ t[m].next = j + 1 /\ j + 1 # 0
      BY <1>2, <1>7, <1>10, <2>1
    <3>2. ASSUME NEW i \in 1..Len(me.list)
          PROVE  IF i < j + 1 THEN HeardOnce(me.list[i], n)' ELSE NotHeard(me.list[i], n)'
      <4>1. me.list[i] \in Callback /\ i \in Nat
        BY <1>2
      <4>2. CASE i = j
        BY <1>2, <1>4, <1>13, <4>2
      <4>3. CASE i # j
        <5>1. me.list[i] # b
          BY <1>3, <1>4, <1>11, <4>3
        <5>2. i < j + 1 <=> i < j
          BY <1>2, <4>1, <4>3
        <5> QED
          BY <1>2, <1>11, <1>13, <4>1, <5>1, <5>2
      <4> QED
        BY <4>2, <4>3
    <3> QED
      BY <1>11, <2>1, <3>1, <3>2
  <2>2. CASE m # n
    <3>1. t[m] = notifying[m] /\ m \in 1..Len(notifying) /\ m \in Nat
      BY <1>2, <1>10, <2>2
    <3>2. \A i \in 1..Len(notifying[m].list) : notifying[m].list[i] \in Callback
      BY <3>1, ToldTypes
    <3> QED
      BY <1>13, <2>2, <3>1, <3>2 DEF ToldInv
  <2> QED
    BY <2>1, <2>2
<1> QED
  BY <1>5, <1>10, <1>13, <1>14, <1>15, <1>t DEF ToldInv

LEMMA ToldNext ==
  ASSUME ToldInv, [ConfigNext]_configVars
  PROVE  ToldInv'
<1>1. CASE UNCHANGED <<callbacks, told, notifying>>
  <2>1. \A d, m : (NotHeard(d, m)' <=> NotHeard(d, m)) /\ (HeardOnce(d, m)' <=> HeardOnce(d, m))
    BY <1>1 DEF NotHeard, HeardOnce
  <2> QED
    BY <1>1, <2>1 DEF ToldInv
<1> QED
  BY <1>1, ToldCallback, ToldNotify, ToldBegin, ToldTell
     DEF ConfigNext, configVars, RegisterConfigProvider, SetConfValue

LEMMA ToldInit == ConfigInit => ToldInv
<1> SUFFICES ASSUME ConfigInit PROVE ToldInv
  OBVIOUS
<1>1. <<>> \in Seq(Callback) /\ <<>> \in Seq(Nat) /\ <<>> \in Seq(Telling) /\ Len(<<>>) = 0
  OBVIOUS
<1>2. told \in [Callback -> Seq(Nat)] /\ \A c \in Callback : told[c] = <<>>
  BY <1>1 DEF ConfigInit
<1>3. \A c \in Callback, n \in Nat : NotHeard(c, n)
  BY <1>1, <1>2 DEF NotHeard
<1> QED
  BY <1>1, <1>2, <1>3 DEF ConfigInit, ToldInv

LEMMA OnceIsOne ==
  ASSUME NEW c \in Callback, NEW n \in Nat, HeardOnce(c, n)
  PROVE  Heard(c, n) = 1
<1>1. PICK k \in 1..Len(told[c]) : \A l \in 1..Len(told[c]) : told[c][l] = n <=> l = k
  BY DEF HeardOnce
<1>2. {l \in 1..Len(told[c]) : told[c][l] = n} = {k}
  BY <1>1
<1> QED
  BY <1>2, FS_Singleton DEF Heard

(* Links are asked in the order of their priorities, the later of equal    *)
(* ones first, whatever the order of registrations (config.go 149-183).    *)
THEOREM ChainIsRanked == ConfigSpec => []ChainInv
BY ChainInit, ChainNext, PTL DEF ConfigSpec

(* Of a configuration's chain: the value that ranks first is the one that  *)
(* is given, and a change reaches each callback of its list once, whoever  *)
(* panics and whoever registers meanwhile (config.go 149-213).             *)
THEOREM ConfigAlwaysExplained == ConfigSpec => []ConfigExplained
<1>1. ToldInv => EveryoneTold
  <2> SUFFICES ASSUME ToldInv, NEW n \in 1..Len(notifying), notifying[n].next > 0, Done(n),
                      NEW i \in 1..Len(notifying[n].list)
               PROVE  Heard(notifying[n].list[i], n) = 1
    BY DEF EveryoneTold
  <2>1. /\ notifying[n].list \in Seq(Callback) /\ notifying[n].next \in Nat /\ n \in Nat
        /\ notifying[n].list[i] \in Callback
    BY ToldTypes
  <2>2. i < notifying[n].next
    BY <2>1 DEF Done
  <2>3. HeardOnce(notifying[n].list[i], n)
    BY <2>2 DEF ToldInv
  <2> QED
    BY <2>1, <2>3, OnceIsOne
<1>2. ChainInv => HighestWins
  BY FirstOutranks
<1>3. ConfigSpec => []ToldInv
  BY ToldInit, ToldNext, PTL DEF ConfigSpec
<1> QED
  BY <1>1, <1>2, <1>3, ChainIsRanked, PTL DEF ConfigExplained

-----------------------------------------------------------------------------
(* The calendar: a year has 365 or 366 days, 400 of them 146097. *)
LEMMA YearsGrow ==
  ASSUME NEW y \in Int, NEW z \in Int, y < z
  PROVE  BeforeYear(y + 1) <= BeforeYear(z)
BY SMTT(60) DEF BeforeYear

LEMMA YearIsLong ==
  ASSUME NEW y \in Int
  PROVE  /\ BeforeYear(y) \in Int
         /\ BeforeYear(y + 1) = BeforeYear(y) + 365 + IF Leap(y) THEN 1 ELSE 0
BY SMTT(60) DEF BeforeYear, Leap

LEMMA YearsAreMean ==
  ASSUME NEW y \in Int
  PROVE  /\ 400 * BeforeYear(y) <= 146097 * (y - 1) + 400
         /\ 146097 * (y - 1) - 700 <= 400 * BeforeYear(y)
<1>1. PICK n \in Int : n = y - 1
  OBVIOUS
<1>2. /\ 4 * (n \div 4) <= n /\ n <= 4 * (n \div 4) + 3 /\ n \div 4 \in Int
      /\ 100 * (n \div 100) <= n /\ n <= 100 * (n \div 100) + 99 /\ n \div 100 \in Int
      /\ 400 * (n \div 400) <= n /\ n <= 400 * (n \div 400) + 399 /\ n \div 400 \in Int
  OBVIOUS
<1>3. BeforeYear(y) = 365 * n + (n \div 4) - (n \div 100) + (n \div 400)
  BY <1>1 DEF BeforeYear
<1> QED
  BY <1>1, <1>2, <1>3

LEMMA YearOfDay ==
  ASSUME NEW t \in Int
  PROVE  Year(t) \in Int /\ BeforeYear(Year(t)) <= t /\ t < BeforeYear(Year(t) + 1)
<1>1. PICK z \in Int : z = MeanYear(t) /\ 146097 * z <= 400 * t /\ 400 * t < 146097 * (z + 1)
  BY SMTT(30) DEF MeanYear
<1>2. BeforeYear(z) \in Int /\ BeforeYear(z + 1) \in Int /\ BeforeYear(z + 2) \in Int /\ BeforeYear(z + 3) \in Int
  BY YearIsLong
<1>3. BeforeYear(z) <= t
  BY <1>1, <1>2, YearsAreMean
<1>4. t < BeforeYear(z + 3)
  <2>1. 146097 * (z + 3 - 1) - 700 <= 400 * BeforeYear(z + 3)
    BY YearsAreMean
  <2> QED
    BY <1>1, <1>2, <2>1
<1>5. z + 1 + 1 = z + 2 /\ z + 2 + 1 = z + 3
  OBVIOUS
<1>6. \E y \in z .. (z + 2) : BeforeYear(y) <= t /\ t < BeforeYear(y + 1)
  <2>1. CASE t < BeforeYear(z + 1)
    BY <1>3, <2>1
  <2>2. CASE BeforeYear(z + 1) <= t /\ t < BeforeYear(z + 2)
    BY <1>5, <2>2
  <2>3. CASE BeforeYear(z + 2) <= t
    BY <1>4, <1>5, <2>3
  <2> QED
    BY <1>2, <2>1, <2>2, <2>3
<1>7. Year(t) \in z .. (z + 2) /\ BeforeYear(Year(t)) <= t /\ t < BeforeYear(Year(t) + 1)
  BY <1>1, <1>6 DEF Year
<1> QED
  BY <1>7

LEMMA YearIsUnique ==
  ASSUME NEW t \in Int, NEW y \in Int, BeforeYear(y) <= t, t < BeforeYear(y + 1)
  PROVE  Year(t) = y
<1>1. PICK z \in Int : z = Year(t) /\ BeforeYear(z) <= t /\ t < BeforeYear(z + 1)
  BY YearOfDay
<1>2. /\ BeforeYear(y) \in Int /\ BeforeYear(z) \in Int
      /\ BeforeYear(y + 1) \in Int /\ BeforeYear(z + 1) \in Int
  BY YearIsLong
<1>3. ~(y < z)
  BY <1>1, <1>2, YearsGrow
<1>4. ~(z < y)
  BY <1>1, <1>2, YearsGrow
<1> QED
  BY <1>1, <1>3, <1>4

(* Months begin where the table says, the thirteenth with the next year,   *)
(* and none is shorter than 28 days.                                       *)
LEMMA MonthBegins ==
  ASSUME NEW y \in Int, NEW m \in 1..12, NEW d \in Int
  PROVE  Date(y, m, d) = BeforeYear(y) + BeforeMonth(y, m) + d - 1
<1>1. y + ((m - 1) \div 12) = y /\ ((m - 1) % 12) + 1 = m
  OBVIOUS
<1> QED
  BY <1>1 DEF Date

LEMMA NextYearBegins ==
  ASSUME NEW y \in Int, NEW d \in Int
  PROVE  Date(y, 13, d) = BeforeYear(y + 1) + BeforeMonth(y + 1, 1) + d - 1
<1>1. y + ((13 - 1) \div 12) = y + 1 /\ ((13 - 1) % 12) + 1 = 1
  OBVIOUS
<1> QED
  BY <1>1 DEF Date

LEMMA MonthTable ==
  ASSUME NEW y \in Int
  PROVE  /\ \A m \in 1..12 : BeforeMonth(y, m) \in 0..335
         /\ BeforeMonth(y, 1) = 0
         /\ \A m \in 1..11 : BeforeMonth(y, m + 1) >= BeforeMonth(y, m) + 28
         /\ BeforeMonth(y, 12) + 31 = 365 + IF Leap(y) THEN 1 ELSE 0
BY SMTT(60) DEF BeforeMonth

LEMMA MonthsRise ==
  ASSUME NEW y \in Int, NEW m \in 1..12, NEW n \in 1..12, m <= n
  PROVE  BeforeMonth(y, m) <= BeforeMonth(y, n)
BY SMTT(60) DEF BeforeMonth

LEMMA MonthsAreLong ==
  ASSUME NEW y \in Int, NEW m \in 1..12
  PROVE  /\ Date(y, m, 1) \in Int /\ Date(y, m + 1, 1) \in Int
         /\ BeforeYear(y) <= Date(y, m, 1)
         /\ Date(y, m, 1) + 28 <= Date(y, m + 1, 1)
         /\ Date(y, m + 1, 1) <= BeforeYear(y + 1)
         /\ Date(y, 1, 1) = BeforeYear(y)
         /\ Date(y, 13, 1) = BeforeYear(y + 1)
<1>1. /\ BeforeYear(y) \in Int /\ BeforeYear(y + 1) \in Int
      /\ BeforeYear(y + 1) = BeforeYear(y) + BeforeMonth(y, 12) + 31
  <2>1. /\ BeforeYear(y) \in Int
        /\ BeforeYear(y + 1) = BeforeYear(y) + 365 + IF Leap(y) THEN 1 ELSE 0
    BY YearIsLong
  <2>2. BeforeYear(y + 1) \in Int
    BY YearIsLong
  <2>3. BeforeMonth(y, 12) + 31 = 365 + IF Leap(y) THEN 1 ELSE 0
    BY MonthTable
  <2>4. BeforeMonth(y, 12) \in 0..335
    BY MonthTable
  <2>5. CASE Leap(y)
    BY <2>1, <2>2, <2>3, <2>4, <2>5
  <2>6. CASE ~Leap(y)
    BY <2>1, <2>2, <2>3, <2>4, <2>6
  <2> QED
    BY <2>5, <2>6
<1>2. /\ BeforeMonth(y, m) \in 0..335
      /\ Date(y, m, 1) = BeforeYear(y) + BeforeMonth(y, m)
      /\ Date(y, 1, 1) = BeforeYear(y)
  <2>1. BeforeMonth(y, m) \in 0..335 /\ BeforeMonth(y, 1) = 0
    BY MonthTable
  <2>2. Date(y, m, 1) = BeforeYear(y) + BeforeMonth(y, m) + 1 - 1
    BY MonthBegins
  <2>3. Date(y, 1, 1) = BeforeYear(y) + BeforeMonth(y, 1) + 1 - 1
    BY MonthBegins
  <2> QED
    BY <1>1, <2>1, <2>2, <2>3
<1>3. Date(y, 13, 1) = BeforeYear(y + 1)
  <2>1. BeforeMonth(y + 1, 1) = 0 /\ Date(y, 13, 1) = BeforeYear(y + 1) + BeforeMonth(y + 1, 1) + 1 - 1
    BY MonthTable, NextYearBegins
  <2> QED
    BY <1>1, <2>1
<1>4. CASE m = 12
  <2>1. m + 1 = 13 /\ BeforeMonth(y, m) \in 0..335
    BY <1>4, MonthTable
  <2> QED
    BY <1>1, <1>2, <1>3, <1>4, <2>1
<1>5. CASE m # 12
  <2>1. m \in 1..11 /\ m + 1 \in 1..12
    BY <1>5
  <2>2. /\ BeforeMonth(y, m) \in 0..335 /\ BeforeMonth(y, m + 1) \in 0..335
        /\ BeforeMonth(y, m + 1) >= BeforeMonth(y, m) + 28
    BY <2>1, MonthTable
  <2>3. BeforeMonth(y, m + 1) <= BeforeMonth(y, 12)
    BY <2>1, MonthsRise
  <2>4. Date(y, m + 1, 1) = BeforeYear(y) + BeforeMonth(y, m + 1)
    <3>1. Date(y, m + 1, 1) = BeforeYear(y) + BeforeMonth(y, m + 1) + 1 - 1
      BY <2>1, MonthBegins
    <3> QED
      BY <1>1, <2>2, <3>1
  <2>5. BeforeMonth(y, 12) \in 0..335
    BY MonthTable
  <2>6. PICK a \in Int, b \in Int, p \in Int, q \in Int, r \in Int :
          /\ a = BeforeYear(y) /\ b = BeforeYear(y + 1)
          /\ p = BeforeMonth(y, m) /\ q = BeforeMonth(y, m + 1) /\ r = BeforeMonth(y, 12)
    <3>1. /\ BeforeYear(y) \in Int /\ BeforeYear(y + 1) \in Int
          /\ BeforeMonth(y, m) \in Int /\ BeforeMonth(y, m + 1) \in Int /\ BeforeMonth(y, 12) \in Int
      BY <1>1, <2>2, <2>5
    <3> QED
      BY <3>1, Zenon
  <2>7. /\ p >= 0 /\ q >= p + 28 /\ q <= r /\ b = a + r + 31
        /\ Date(y, m, 1) = a + p /\ Date(y, m + 1, 1) = a + q
    <3>1. p >= 0 /\ q >= p + 28
      BY <2>2, <2>6
    <3>2. q <= r
      BY <2>3, <2>6
    <3>3. b = a + r + 31
      BY <1>1, <2>6
    <3> QED
      BY <1>2, <2>4, <2>6, <3>1, <3>2, <3>3
  <2>8. /\ Date(y, m, 1) \in Int /\ Date(y, m + 1, 1) \in Int
        /\ a <= Date(y, m, 1) /\ Date(y, m, 1) + 28 <= Date(y, m + 1, 1)
        /\ Date(y, m + 1, 1) <= b
    BY <2>7
  <2> QED
    BY <1>2, <1>3, <2>6, <2>8
<1> QED
  BY <1>4, <1>5

LEMMA DatesRise ==
  ASSUME NEW y \in Int, NEW m \in 1..12, NEW n \in 1..12, m < n
  PROVE  Date(y, m + 1, 1) <= Date(y, n, 1)
<1>1. PICK k \in 1..12 : k = m + 1 /\ k <= n
  OBVIOUS
<1>2. Date(y, k, 1) = BeforeYear(y) + BeforeMonth(y, k) + 1 - 1
  BY MonthBegins
<1>3. Date(y, n, 1) = BeforeYear(y) + BeforeMonth(y, n) + 1 - 1
  BY MonthBegins
<1>4. BeforeMonth(y, k) \in Int /\ BeforeMonth(y, n) \in Int /\ BeforeYear(y) \in Int
  <2>1. BeforeYear(y) \in Int
    BY YearIsLong
  <2>2. BeforeMonth(y, k) \in 0..335 /\ BeforeMonth(y, n) \in 0..335
    BY MonthTable
  <2> QED
    BY <2>1, <2>2
<1>5. BeforeMonth(y, k) <= BeforeMonth(y, n)
  BY <1>1, MonthsRise
<1> QED
  BY <1>1, <1>2, <1>3, <1>4, <1>5

LEMMA MonthOfDay ==
  ASSUME NEW t \in Int
  PROVE  /\ Month(t) \in 1..12
         /\ Date(Year(t), Month(t), 1) <= t
         /\ t < Date(Year(t), Month(t) + 1, 1)
<1>1. PICK y \in Int : y = Year(t) /\ BeforeYear(y) <= t /\ t < BeforeYear(y + 1)
  BY YearOfDay
<1>2. \E m \in 1..12 : Date(y, m, 1) <= t /\ t < Date(y, m + 1, 1)
  <2> DEFINE D(m) == Date(y, m, 1)
  <2>1. \A m \in 1..13 : D(m) \in Int
    <3>1. \A m \in 1..12 : D(m) \in Int /\ D(m + 1) \in Int
      BY MonthsAreLong
    <3> QED
      BY <3>1
  <2>2. D(1) <= t /\ t < D(13)
    BY <1>1, MonthsAreLong
  <2>3. \/ D(1) <= t /\ t < D(2)
        \/ D(2) <= t /\ t < D(3)
        \/ D(3) <= t /\ t < D(4)
        \/ D(4) <= t /\ t < D(5)
        \/ D(5) <= t /\ t < D(6)
        \/ D(6) <= t /\ t < D(7)
        \/ D(7) <= t /\ t < D(8)
        \/ D(8) <= t /\ t < D(9)
        \/ D(9) <= t /\ t < D(10)
        \/ D(10) <= t /\ t < D(11)
        \/ D(11) <= t /\ t < D(12)
        \/ D(12) <= t /\ t < D(13)
    <3> HIDE DEF D
    <3> QED
      BY <2>1, <2>2
  <2>4. \E m \in 1..12 : D(m) <= t /\ t < D(m + 1)
    <3> HIDE DEF D
    <3> QED
      BY <2>3
  <2> QED
    BY <2>4
<1> QED
  BY <1>1, <1>2 DEF Month

LEMMA MonthIsUnique ==
  ASSUME NEW t \in Int, NEW y \in Int, NEW m \in 1..12,
         Date(y, m, 1) <= t, t < Date(y, m + 1, 1)
  PROVE  Year(t) = y /\ Month(t) = m /\ Day(t) = t - Date(y, m, 1) + 1
<1>1. BeforeYear(y) <= t /\ t < BeforeYear(y + 1)
  <2>1. BeforeYear(y) \in Int /\ BeforeYear(y + 1) \in Int
    BY YearIsLong
  <2>2. /\ Date(y, m, 1) \in Int /\ Date(y, m + 1, 1) \in Int
        /\ BeforeYear(y) <= Date(y, m, 1) /\ Date(y, m + 1, 1) <= BeforeYear(y + 1)
    BY MonthsAreLong
  <2> QED
    BY <2>1, <2>2
<1>2. Year(t) = y
  BY <1>1, YearIsUnique
<1>3. PICK n \in 1..12 : n = Month(t) /\ Date(y, n, 1) <= t /\ t < Date(y, n + 1, 1)
  BY <1>2, MonthOfDay
<1>4. ~(m < n)
  <2>1. SUFFICES ASSUME m < n
                 PROVE  Date(y, m + 1, 1) <= Date(y, n, 1)
    <3>1. Date(y, m + 1, 1) \in Int /\ Date(y, n, 1) \in Int
      BY MonthsAreLong
    <3> QED
      BY <1>3, <2>1, <3>1
  <2> QED
    BY <2>1, DatesRise
<1>5. ~(n < m)
  <2>1. SUFFICES ASSUME n < m
                 PROVE  Date(y, n + 1, 1) <= Date(y, m, 1)
    <3>1. Date(y, n + 1, 1) \in Int /\ Date(y, m, 1) \in Int
      BY MonthsAreLong
    <3> QED
      BY <1>3, <2>1, <3>1
  <2> QED
    BY <2>1, DatesRise
<1>6. Month(t) = m
  BY <1>3, <1>4, <1>5
<1> QED
  BY <1>2, <1>6 DEF Day

(* A day later, and a month later from one of the first 28 days. *)
LEMMA DayLater ==
  ASSUME NEW t \in Int
  PROVE  AddDate(t, <<0, 0, 1>>) = t + 1
<1>0. PICK y \in Int, m \in 1..12 : y = Year(t) /\ m = Month(t)
  BY YearOfDay, MonthOfDay
<1>1. PICK d : y = Year(t) /\ m = Month(t) /\ d = Day(t)
  BY <1>0
<1>2. Date(y, m, 1) \in Int
  BY MonthsAreLong
<1>3. d \in Int /\ d = t - Date(y, m, 1) + 1
  BY <1>1, <1>2 DEF Day
<1>4. /\ Date(y, m, 1) = BeforeYear(y) + BeforeMonth(y, m) + 1 - 1
      /\ Date(y, m, d + 1) = BeforeYear(y) + BeforeMonth(y, m) + (d + 1) - 1
  BY <1>3, MonthBegins
<1>5. BeforeYear(y) \in Int /\ BeforeMonth(y, m) \in Int
  <2>1. BeforeYear(y) \in Int
    BY YearIsLong
  <2>2. BeforeMonth(y, m) \in 0..335
    BY MonthTable
  <2> QED
    BY <2>1, <2>2
<1>6. AddDate(t, <<0, 0, 1>>) = Date(y + 0, m + 0, d + 1)
  BY <1>1 DEF AddDate
<1>7. y + 0 = y /\ m + 0 = m
  OBVIOUS
<1> QED
  BY <1>3, <1>4, <1>5, <1>6, <1>7

LEMMA MonthLater ==
  ASSUME NEW t \in Int, Day(t) <= 28
  PROVE  /\ Months(AddDate(t, <<0, 1, 0>>)) = Months(t) + 1
         /\ Day(AddDate(t, <<0, 1, 0>>)) = Day(t)
<1>0. PICK y \in Int, m \in 1..12 : y = Year(t) /\ m = Month(t)
  BY YearOfDay, MonthOfDay
<1>1. PICK d : y = Year(t) /\ m = Month(t) /\ d = Day(t)
  BY <1>0
<1>2. Date(y, m, 1) \in Int /\ Date(y, m, 1) <= t
  BY <1>1, MonthOfDay, MonthsAreLong
<1>3. d \in 1..28
  <2>1. d = t - Date(y, m, 1) + 1
    BY <1>1 DEF Day
  <2> QED
    BY <1>1, <1>2, <2>1
<1>4. PICK u : u = AddDate(t, <<0, 1, 0>>)
  OBVIOUS
<1>5. u = Date(y, m + 1, d)
  <2>1. u = Date(y + 0, m + 1, d + 0)
    BY <1>1, <1>4 DEF AddDate
  <2>2. y + 0 = y /\ d + 0 = d
    BY <1>3
  <2> QED
    BY <2>1, <2>2
<1>6. PICK x \in Int, k \in 1..12 : /\ \A n \in Int : Date(y, m + 1, n) = Date(x, k, n)
                                    /\ 12 * x + k = 12 * y + m + 1
  <2>1. CASE m = 12
    <3>2. \A n \in Int : Date(y, m + 1, n) = Date(y + 1, 1, n)
      <4>1. SUFFICES ASSUME NEW n \in Int
                     PROVE  Date(y, 13, n) = Date(y + 1, 1, n)
        BY <2>1
      <4>2. Date(y, 13, n) = BeforeYear(y + 1) + BeforeMonth(y + 1, 1) + n - 1
        BY NextYearBegins
      <4>3. Date(y + 1, 1, n) = BeforeYear(y + 1) + BeforeMonth(y + 1, 1) + n - 1
        BY MonthBegins
      <4> QED
        BY <4>2, <4>3
    <3>3. y + 1 \in Int /\ 1 \in 1..12 /\ 12 * (y + 1) + 1 = 12 * y + m + 1
      BY <2>1
    <3> QED
      BY <3>2, <3>3
  <2>2. CASE m # 12
    <3>1. m + 1 \in 1..12 /\ 12 * y + (m + 1) = 12 * y + m + 1
      BY <2>2
    <3> QED
      BY <3>1
  <2> QED
    BY <2>1, <2>2
<1>7. u = Date(x, k, 1) + d - 1
  <2>1. u = BeforeYear(x) + BeforeMonth(x, k) + d - 1
    BY <1>3, <1>5, <1>6, MonthBegins
  <2>2. Date(x, k, 1) = BeforeYear(x) + BeforeMonth(x, k) + 1 - 1
    BY MonthBegins
  <2>3. BeforeYear(x) \in Int
    BY YearIsLong
  <2>4. BeforeMonth(x, k) \in 0..335
    BY MonthTable
  <2> QED
    BY <1>3, <2>1, <2>2, <2>3, <2>4
<1>8. /\ Date(x, k, 1) \in Int /\ Date(x, k + 1, 1) \in Int
      /\ Date(x, k, 1) + 28 <= Date(x, k + 1, 1)
  BY MonthsAreLong
<1>9. u \in Int /\ Date(x, k, 1) <= u /\ u < Date(x, k + 1, 1)
  BY <1>3, <1>7, <1>8
<1>10. Year(u) = x /\ Month(u) = k /\ Day(u) = u - Date(x, k, 1) + 1
  BY <1>9, MonthIsUnique
<1>11. Day(u) = d
  BY <1>3, <1>7, <1>8, <1>10
<1>12. Months(u) = Months(t) + 1
  BY <1>1, <1>6, <1>10 DEF Months
<1> QED
  BY <1>1, <1>4, <1>11, <1>12

LEMMA DatesAreNumbers ==
  ASSUME NEW t \in Int, NEW s \in Int \X Int \X Int
  PROVE  AddDate(t, s) \in Int
<1>0. PICK y \in Int, m \in 1..12 : y = Year(t) /\ m = Month(t)
  BY YearOfDay, MonthOfDay
<1>1. PICK d : y = Year(t) /\ m = Month(t) /\ d = Day(t)
  BY <1>0
<1>2. d \in Int
  <2>1. Date(y, m, 1) \in Int
    BY MonthsAreLong
  <2> QED
    BY <1>1, <2>1 DEF Day
<1>3. PICK a \in Int, b \in Int, c \in Int : a = y + s[1] /\ b = m + s[2] /\ c = d + s[3]
  BY <1>2
<1>4. PICK x \in Int, k \in 1..12 : x = a + ((b - 1) \div 12) /\ k = ((b - 1) % 12) + 1
  OBVIOUS
<1>5. AddDate(t, s) = BeforeYear(x) + BeforeMonth(x, k) + c - 1
  BY <1>1, <1>3, <1>4 DEF AddDate, Date
<1>6. BeforeYear(x) \in Int
  BY YearIsLong
<1>7. BeforeMonth(x, k) \in 0..335
  BY MonthTable
<1> QED
  BY <1>5, <1>6, <1>7

(* Times and steps stay numbers, whichever dates, durations and date steps *)
(* are given.                                                              *)
DateTypeOK ==
  /\ current \in Int /\ start \in Int /\ end \in Int
  /\ step \in Int /\ dateStep \in Int \X Int \X Int

LEMMA DatesStayNumbers == DateSpec => []DateTypeOK
<1>1. DateInit => DateTypeOK
  BY DEF DateInit, DateTypeOK, NoSteps
<1>2. ASSUME DateTypeOK, [DateNext]_dateVars
      PROVE  DateTypeOK'
  <2>1. CASE UNCHANGED dateVars
    BY <1>2, <2>1 DEF DateTypeOK, dateVars
  <2>2. ASSUME NEW f \in From, NEW t \in To, Start(f, t) \/ StartString(f, t)
        PROVE  DateTypeOK'
    BY <1>2, <2>2, DatesAssumption DEF DateTypeOK, Start, StartString
  <2>3. ASSUME NEW d \in Durations, SetStep(d)
        PROVE  DateTypeOK'
    BY <1>2, <2>3, DatesAssumption DEF DateTypeOK, SetStep
  <2>4. ASSUME NEW s \in DateSteps, SetDateStep(s)
        PROVE  DateTypeOK'
    BY <1>2, <2>4, DatesAssumption DEF DateTypeOK, SetDateStep
  <2>5. CASE NextDate
    <3>1. AddDate(current, dateStep) \in Int
      BY <1>2, DatesAreNumbers DEF DateTypeOK
    <3>2. current' \in Int
      BY <1>2, <2>5, <3>1 DEF DateTypeOK, NextDate
    <3>3. dateStep' \in Int \X Int \X Int
      BY <1>2, <2>5 DEF DateTypeOK, NextDate
    <3> QED
      BY <1>2, <2>5, <3>2, <3>3 DEF DateTypeOK, NextDate
  <2> QED
    BY <1>2, <2>1, <2>2, <2>3, <2>4, <2>5 DEF DateNext
<1> QED
  BY <1>1, <1>2, PTL DEF DateSpec

(* An iteration by days reaches every day, one by months every month, for  *)
(* any dates: DateIterator.Next adds to the current date by the calendar.  *)
THEOREM NothingIsSkipped == DateSpec => NothingSkipped
<1>1. ASSUME DateTypeOK, NextDate, current > 0
      PROVE  /\ step = 0 /\ dateStep = <<0, 0, 1>> => current' = current + 1
             /\ step = 0 /\ dateStep = <<0, 1, 0>> /\ Day(current) <= 28 =>
                  /\ Months(current') = Months(current) + 1
                  /\ Day(current') = Day(current)
  <2>1. current \in Int /\ ~IsZero(current)
    BY <1>1 DEF DateTypeOK, IsZero
  <2>2. step = 0 => current' = AddDate(current, dateStep)
    BY <1>1, <2>1 DEF NextDate
  <2>3. step = 0 /\ dateStep = <<0, 0, 1>> => current' = current + 1
    BY <2>1, <2>2, DayLater
  <2>4. ASSUME step = 0, dateStep = <<0, 1, 0>>, Day(current) <= 28
        PROVE  Months(current') = Months(current) + 1 /\ Day(current') = Day(current)
    <3>1. current' = AddDate(current, <<0, 1, 0>>)
      BY <2>2, <2>4
    <3> QED
      BY <2>1, <2>4, <3>1, MonthLater
  <2> QED
    BY <2>3, <2>4
<1>2. DateTypeOK /\ [DateNext]_dateVars => [NextDate /\ current > 0 =>
       /\ step = 0 /\ dateStep = <<0, 0, 1>> => current' = current + 1
       /\ step = 0 /\ dateStep = <<0, 1, 0>> /\ Day(current) <= 28 =>
            /\ Months(current') = Months(current) + 1
            /\ Day(current') = Day(current)]_dateVars
  BY <1>1
<1> QED
  BY <1>2, DatesStayNumbers, PTL DEF DateSpec, NothingSkipped
=============================================================================

