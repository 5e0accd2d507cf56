---------------------------- MODULE NatsSequence ----------------------------
(***************************************************************************)
(* NatsSequenceProvider (sequnce_distributed.go): clients ask for numbers  *)
(* by request and reply, a server answers them from the Mongo sequences of *)
(* its process.  The server's subscription handles one request at a time,  *)
(* in a goroutine that is the one Caller of MongoSequence, and publishes   *)
(* what the handler returned when it has returned.                         *)
(*                                                                         *)
(* NATS and natshelper are external: publishing a reply may fail, messages *)
(* overtake one another, and one that is lost is one that is never taken.  *)
(* A client stops waiting when its time is over, and a reply that comes    *)
(* later stays where it is.                                                *)
(***************************************************************************)
EXTENDS MongoSequence

CONSTANTS Remote,      \* client goroutines
          Server,      \* the caller that handles requests
          Topics,      \* what the topic may look like: see TopicKinds
          WireFaults   \* {"publish"} if publishing a reply may fail

\* The handler's parts[1] is to be "sequence", parts[2] the name, parts[3] the
\* command.  "whole": natshelper puts one part in front and the name has no dot;
\* "dotted": the name has one, and the command is looked for in its second half;
\* "bare": nothing is put in front.
TopicKinds == {"whole", "dotted", "bare"}

\* Next and Current take no argument: 0 stands for none.
ASSUME ServerAssumption == Caller = {Server} /\ 0 \in Values
ASSUME NoneAssumption ==
  None \notin [request : [client : Remote, op : Ops, call : Nat], value : Int \cup {None}]
ASSUME TopicAssumption == Topics \subseteq TopicKinds /\ WireFaults \subseteq {"publish"}

VARIABLES topic,       \* the kind of the sequence's topic, which nothing changes
          requests,    \* requests on the way: the client, its operation, the call's number
          serving,     \* the request ProcessNatsRequest works on, None between
          answer,      \* what it returned, until that is published, None between
          replies,     \* replies on the way: the request, the number, None for empty
          remote,      \* each client's call: its place, its operation and number
          received,    \* history: numbers that a Next of a client returned as such
          again,       \* a client received a positive number some client had received
          lost         \* history: numbers whose reply was never published

natsVars == <<topic, requests, serving, answer, replies, remote, received, again, lost>>
allVars == <<vars, natsVars>>

NatsInit ==
  /\ Init
  /\ topic \in Topics
  /\ requests = {} /\ replies = {} /\ serving = None /\ answer = None
  /\ remote = [k \in Remote |-> [at |-> "idle", op |-> "Next", call |-> 0]]
  /\ received = {} /\ again = FALSE /\ lost = {}

Waiting(q) == remote[q.client].at = "waiting" /\ remote[q.client].call = q.call

Reply(q, v) == [request |-> q, value |-> v]

(* The numbers that go with an answer that is dropped. *)
Carried(a) == IF a # None /\ a.request.op = "Next" /\ a.value # None THEN {a.value} ELSE {}

-----------------------------------------------------------------------------
(* commandForSequence: RequestSync. *)
RequestSync(k, o) ==
  /\ remote[k].at = "idle"
  /\ calls + Cardinality(requests) < MaxCalls /\ remote[k].call < MaxCalls
  /\ remote' = [remote EXCEPT ![k] = [at |-> "waiting", op |-> o, call |-> @.call + 1]]
  /\ requests' = requests \cup {[client |-> k, op |-> o, call |-> remote[k].call + 1]}
  /\ UNCHANGED <<vars, topic, serving, answer, replies, received, again, lost>>

(* It returns an error after the timeout. *)
Timeout(k) ==
  /\ remote[k].at = "waiting"
  /\ remote' = [remote EXCEPT ![k].at = "idle"]
  /\ UNCHANGED <<vars, topic, requests, serving, answer, replies, received, again, lost>>

(* ProcessNatsRequest begins: it calls Next or Current of the sequence.    *)
(* With a dot in the name the command is none of the two, the number stays *)
(* 0; a topic that does not have "sequence" where it is looked for is      *)
(* answered with nothing.                                                  *)
Serve(q) ==
  /\ q \in requests /\ serving = None /\ answer = None
  /\ requests' = requests \ {q}
  /\ \/ /\ topic = "whole"
        /\ serving' = q
        /\ Call(Server, q.op, 0)
        /\ UNCHANGED answer
     \/ /\ topic # "whole"
        /\ answer' = Reply(q, IF topic = "dotted" THEN 0 ELSE None)
        /\ UNCHANGED <<vars, serving>>
  /\ UNCHANGED <<topic, replies, remote, received, again, lost>>

(* Mutation: a call that failed is answered with the number it had read. *)
ServerAnswersAnyway ==
  /\ serving # None
  /\ Step(Server)
  /\ \/ pc'[Server] # "idle" /\ UNCHANGED <<serving, answer>>
     \/ /\ pc'[Server] = "idle"
        /\ serving' = None
        /\ answer' = Reply(serving, local[Server])
  /\ UNCHANGED <<topic, requests, replies, remote, received, again, lost>>

(* The error of Next or Current is not looked at: the handler returns the  *)
(* number that came with it.  A panic ends the handler, and the process if *)
(* natshelper does not recover it.                                         *)
ServerStep ==
  /\ serving # None
  /\ Step(Server)
  /\ \/ pc'[Server] # "idle" /\ UNCHANGED <<serving, answer>>
     \/ /\ pc'[Server] = "idle" /\ ret'.value # None
        /\ serving' = None
        /\ answer' = Reply(serving, ret'.value)
     \/ /\ pc'[Server] = "idle" /\ ret'.value = None
        /\ serving' = None
        /\ UNCHANGED answer
  /\ UNCHANGED <<topic, requests, replies, remote, received, again, lost>>

(* What the handler returned goes out, or not. *)
Publish ==
  /\ answer # None
  /\ answer' = None
  /\ \/ replies' = replies \cup {answer} /\ UNCHANGED lost
     \/ /\ "publish" \in WireFaults
        /\ lost' = lost \cup Carried(answer)
        /\ UNCHANGED replies
  /\ UNCHANGED <<vars, topic, requests, serving, remote, received, again>>

(* The server's process restarts: what it was handling gets no reply, nor  *)
(* does what it had handled and not published.                             *)
ServerCrash ==
  /\ Crash(ProcOf[Server])
  /\ serving' = None /\ answer' = None
  /\ lost' = lost \cup Carried(answer)
  /\ UNCHANGED <<topic, requests, replies, remote, received, again>>

(* A reply reaches its client, which still waits.  An empty one is no      *)
(* number, and an error.                                                   *)
Deliver(r) ==
  /\ r \in replies /\ Waiting(r.request)
  /\ replies' = replies \ {r}
  /\ remote' = [remote EXCEPT ![r.request.client].at = "idle"]
  /\ IF r.request.op = "Next" /\ r.value # None
     THEN /\ received' = received \cup {r.value}
          /\ again' = (again \/ (r.value \in received /\ r.value > 0))
     ELSE UNCHANGED <<received, again>>
  /\ UNCHANGED <<vars, topic, requests, serving, answer, lost>>

NatsNext ==
  \/ \E k \in Remote : Timeout(k) \/ \E o \in Ops : RequestSync(k, o)
  \/ \E q \in requests : Serve(q)
  \/ \E r \in replies : Deliver(r)
  \/ ServerStep \/ Publish \/ ServerCrash

NatsSpec == NatsInit /\ [][NatsNext]_allVars

-----------------------------------------------------------------------------
(* No two calls of Next, of any clients, bring the same number, whatever   *)
(* is lost, late or restarted.  The exceptions are the -1 of a call that   *)
(* failed and the 0 of a dotted name, which clients take for numbers.      *)
ClientsNeverShare == ~again

(* A number the sequence gave out is in one place: returned by the handler *)
(* and not yet published, in a reply, received, or lost to a restart or a  *)
(* failure between the handler's return and the publishing of its reply.   *)
\* The clients see a gap for each number that is lost or whose reply is late.
InReply(v) == \E r \in replies : r.request.op = "Next" /\ r.value = v

NumberHasOnePlace ==
  \A v \in given :
    /\ v \in received \cup lost \/ InReply(v) \/ v \in Carried(answer)
    /\ v \in received => v \notin lost \cup Carried(answer) /\ ~InReply(v)
    /\ v \in lost => v \notin Carried(answer) /\ ~InReply(v)
    /\ v \in Carried(answer) => ~InReply(v)

(* A number goes to one call, and none is given to anything else.          *)
NumbersKept == ClientsNeverShare /\ NumberHasOnePlace
=============================================================================
