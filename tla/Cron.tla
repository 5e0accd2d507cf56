-------------------------------- MODULE Cron --------------------------------
(***************************************************************************)
(* CRONService (cronservice.go) over robfig/cron, which starts every run   *)
(* of a job in a goroutine of its own, whether or not the last one ended.  *)
(*                                                                         *)
(* A job is added in two steps: its identifier is the length of the map,   *)
(* read without the lock, and the map is written under it.  A run is cut   *)
(* where another run, or a Cancel, can come between.  `raced`, `overlaps`, *)
(* `panics` and `ended` are history: adds that met another add, jobs with  *)
(* two runs at once, jobs a run of which panicked, runs that ended.        *)
(***************************************************************************)
EXTENDS Integers, FiniteSets

CONSTANTS Job,         \* addresses of Job structures, one per call of AddNamedFunc
          Run,         \* goroutines the cron library starts
          Canceller,   \* goroutines that call Cancel
          NoRun        \* nil

ASSUME NoRunAssumption == NoRun \notin Run \cup Job
ASSUME JobAssumption == IsFiniteSet(Job)

VARIABLES jobs,        \* cs.jobs: the job filed under each identifier
          adding,      \* each job: "new", "numbered", "added"
          id,          \* job.ID
          scheduled,   \* jobs the cron library accepted
          cancelFn,    \* j.cancelFn: the run whose context it cancels
          runCount,    \* j.RunCount
          lastError,   \* j.LastError is set
          run,         \* each run: where it is, its job, the count it read
          cancelled,   \* runs whose context was cancelled
          cancel,      \* each canceller: the job it tested, and what it saw
          nilCall,     \* a nil cancelFn was called
          raced, overlaps, panics, ended

cronVars == <<jobs, adding, id, scheduled, cancelFn, runCount, lastError, run,
              cancelled, cancel, nilCall, raced, overlaps, panics, ended>>

NotRun == [at |-> "new", job |-> NoRun, count |-> 0]
Idle == [job |-> NoRun, saw |-> NoRun]
Ids == 0 .. Cardinality(Job) - 1

CronInit ==
  /\ jobs = [i \in Ids |-> NoRun]
  /\ adding = [j \in Job |-> "new"]
  /\ id = [j \in Job |-> 0]
  /\ scheduled = {} /\ lastError = {} /\ cancelled = {}
  /\ cancelFn = [j \in Job |-> NoRun]
  /\ runCount = [j \in Job |-> 0]
  /\ run = [r \in Run |-> NotRun]
  /\ cancel = [c \in Canceller |-> Idle]
  /\ nilCall = FALSE
  /\ raced = {} /\ overlaps = {} /\ panics = {}
  /\ ended = [j \in Job |-> 0]

-----------------------------------------------------------------------------
Listed == {jobs[i] : i \in Ids} \ {NoRun}
JobsLen == Cardinality({i \in Ids : jobs[i] # NoRun})

(* AddNamedFunc up to the lock: ID: JobID(len(cs.jobs)). *)
NumberJob(j) ==
  /\ adding[j] = "new"
  /\ adding' = [adding EXCEPT ![j] = "numbered"]
  /\ id' = [id EXCEPT ![j] = JobsLen]
  /\ LET others == {k \in Job \ {j} : adding[k] = "numbered"}
     IN  raced' = raced \cup others \cup (IF others # {} THEN {j} ELSE {})
  /\ UNCHANGED <<jobs, scheduled, cancelFn, runCount, lastError, run, cancelled,
                 cancel, nilCall, overlaps, panics, ended>>

(* The rest, under jobsLock.  AddJob refuses a wrong schedule: the job     *)
(* stays in the map all the same.                                          *)
FileJob(j) ==
  /\ adding[j] = "numbered"
  /\ adding' = [adding EXCEPT ![j] = "added"]
  /\ jobs' = [jobs EXCEPT ![id[j]] = j]
  /\ \/ scheduled' = scheduled \cup {j} /\ UNCHANGED lastError
     \/ lastError' = lastError \cup {j} /\ UNCHANGED scheduled
  /\ UNCHANGED <<id, cancelFn, runCount, run, cancelled, cancel, nilCall,
                 raced, overlaps, panics, ended>>

-----------------------------------------------------------------------------
Active(j) == {r \in Run : run[r].job = j /\ run[r].at \in {"command", "counting"}}

(* Run up to the command: ctx, j.cancelFn = context.WithCancel(ctx). *)
BeginRun(r, j) ==
  /\ run[r] = NotRun /\ j \in scheduled
  /\ run' = [run EXCEPT ![r] = [at |-> "command", job |-> j, count |-> 0]]
  /\ cancelFn' = [cancelFn EXCEPT ![j] = r]
  /\ overlaps' = IF Active(j) # {} THEN overlaps \cup {j} ELSE overlaps
  /\ UNCHANGED <<jobs, adding, id, scheduled, runCount, lastError, cancelled,
                 cancel, nilCall, raced, panics, ended>>

(* The command returns, with or without an error; j.RunCount is read. *)
ReturnFromCommand(r) ==
  LET j == run[r].job
  IN  /\ run[r].at = "command"
      /\ lastError' \in {lastError, lastError \cup {j}}
      /\ run' = [run EXCEPT ![r] = [at |-> "counting", job |-> j, count |-> runCount[j]]]
      /\ UNCHANGED <<jobs, adding, id, scheduled, cancelFn, runCount, cancelled,
                     cancel, nilCall, raced, overlaps, panics, ended>>

(* The command panics: recover() keeps the error and nothing else happens. *)
PanicInCommand(r) ==
  LET j == run[r].job
  IN  /\ run[r].at = "command"
      /\ lastError' = lastError \cup {j}
      /\ run' = [run EXCEPT ![r].at = "done"]
      /\ panics' = panics \cup {j}
      /\ UNCHANGED <<jobs, adding, id, scheduled, cancelFn, runCount, cancelled,
                     cancel, nilCall, raced, overlaps, ended>>

(* Mutation: a run that was cancelled leaves cancelFn behind. *)
EndRunKeepsCancelled(r) ==
  LET j == run[r].job
  IN  /\ run[r].at = "counting"
      /\ runCount' = [runCount EXCEPT ![j] = run[r].count + 1]
      /\ cancelFn' = IF r \in cancelled THEN cancelFn
                     ELSE [cancelFn EXCEPT ![j] = NoRun]
      /\ run' = [run EXCEPT ![r].at = "done"]
      /\ ended' = [ended EXCEPT ![j] = @ + 1]
      /\ UNCHANGED <<jobs, adding, id, scheduled, lastError, cancelled, cancel,
                     nilCall, raced, overlaps, panics>>

(* The end of Run: the count is written, cancelFn becomes nil. *)
EndRun(r) ==
  LET j == run[r].job
  IN  /\ run[r].at = "counting"
      /\ runCount' = [runCount EXCEPT ![j] = run[r].count + 1]
      /\ cancelFn' = [cancelFn EXCEPT ![j] = NoRun]
      /\ run' = [run EXCEPT ![r].at = "done"]
      /\ ended' = [ended EXCEPT ![j] = @ + 1]
      /\ UNCHANGED <<jobs, adding, id, scheduled, lastError, cancelled, cancel,
                     nilCall, raced, overlaps, panics>>

-----------------------------------------------------------------------------
(* Cancel, for a job that ListJobs returned: the test of cancelFn, *)
TestCancel(c, j) ==
  /\ cancel[c] = Idle /\ j \in Listed
  /\ cancelFn[j] # NoRun
  /\ cancel' = [cancel EXCEPT ![c] = [job |-> j, saw |-> cancelFn[j]]]
  /\ UNCHANGED <<jobs, adding, id, scheduled, cancelFn, runCount, lastError, run,
                 cancelled, nilCall, raced, overlaps, panics, ended>>

(* and its call: of what the test saw, or of what a second read finds.     *)
(* The two are unsynchronised, and a build may do either.                  *)
CallCancel(c) ==
  /\ cancel[c] # Idle
  /\ \E f \in {cancel[c].saw, cancelFn[cancel[c].job]} :
       IF f = NoRun THEN nilCall' = TRUE /\ UNCHANGED cancelled
       ELSE cancelled' = cancelled \cup {f} /\ UNCHANGED nilCall
  /\ cancel' = [cancel EXCEPT ![c] = Idle]
  /\ UNCHANGED <<jobs, adding, id, scheduled, cancelFn, runCount, lastError, run,
                 raced, overlaps, panics, ended>>

CronNext ==
  \/ \E j \in Job : NumberJob(j) \/ FileJob(j)
  \/ \E r \in Run, j \in Job : BeginRun(r, j)
  \/ \E r \in Run : ReturnFromCommand(r) \/ PanicInCommand(r) \/ EndRun(r)
  \/ \E c \in Canceller, j \in Job : TestCancel(c, j)
  \/ \E c \in Canceller : CallCancel(c)

CronSpec == CronInit /\ [][CronNext]_cronVars

-----------------------------------------------------------------------------
(* Jobs and their list agree: every job whose AddNamedFunc returned is     *)
(* listed under the identifier its caller got, an error or not, unless     *)
(* that call met another one.                                              *)
ListedUnderItsId ==
  \A j \in Job : adding[j] = "added" /\ j \notin raced => jobs[id[j]] = j

(* What the job tells of itself is true while its runs do not overlap:     *)
(* IsRunning (cancelFn) is a run in progress, which Cancel would stop, or  *)
(* what a panic left; the count is of the runs that ended.                 *)
JobTellsTheTruth ==
  \A j \in Job \ overlaps :
    /\ runCount[j] = ended[j]
    /\ IF Active(j) # {} THEN cancelFn[j] \in Active(j)
       ELSE cancelFn[j] # NoRun => j \in panics

CronTypeOK ==
  /\ jobs \in [Ids -> Job \cup {NoRun}]
  /\ adding \in [Job -> {"new", "numbered", "added"}]
  /\ id \in [Job -> Ids]
  /\ cancelFn \in [Job -> Run \cup {NoRun}]
  /\ runCount \in [Job -> Nat] /\ ended \in [Job -> Nat]
  /\ run \in [Run -> [at : {"new", "command", "counting", "done"},
                      job : Job \cup {NoRun}, count : Nat]]
  /\ cancel \in [Canceller -> [job : Job \cup {NoRun}, saw : Run \cup {NoRun}]]
  /\ cancelled \subseteq Run
  /\ scheduled \subseteq Job /\ lastError \subseteq Job
  /\ raced \subseteq Job /\ overlaps \subseteq Job /\ panics \subseteq Job
  /\ nilCall \in BOOLEAN

(* What the service says of its jobs: all of these.                        *)
JobsExplained == CronTypeOK /\ ListedUnderItsId /\ JobTellsTheTruth
=============================================================================
