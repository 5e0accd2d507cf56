---------------------------- MODULE EngineStart ----------------------------
(***************************************************************************)
(* Engine.Start (engine.go) with the services of the repository, and the   *)
(* connections of the mongo service (mongo/service.go) that they and       *)
(* requests open.                                                          *)
(*                                                                         *)
(* Services and sub-engines are kept in maps, so each of Start's loops     *)
(* visits its own in any order.  What matters of a service is whether it   *)
(* is ready: the mongo service has a database, the sequences have one, the *)
(* GraphQL engine has a descriptor, cron has a scheduler, nats is          *)
(* connected.  The first error ends Start; nothing is undone.              *)
(***************************************************************************)
EXTENDS Integers, FiniteSets

CONSTANTS Services,     \* the registered services
          Engines,      \* sub-engines; they are external
          Client,       \* *mongo.Client values that createClient may make
          Opener,       \* goroutines that call GetMongo once the engine runs
          Alias,        \* aliases of databases besides "default"
          Faulty,       \* services and sub-engines whose environment may fail
          Wrapped       \* the NatsSequenceProvider was given the SequenceProvider

Known == {"mongo", "sequence", "gql", "cron", "nats", "natsSequence", "scripting", "sql"}
ASSUME ServicesAssumption == Services \subseteq Known /\ Wrapped \in BOOLEAN

VARIABLES phase,        \* the loop Start is in
          todo,         \* what it has not visited
          ready,        \* services that could be used
          seqReady,     \* SequenceProvider.db is set
          db,           \* Service.db of the mongo service is set
          aliases,      \* its aliases: those with a database
          client,       \* its connections: one address, so one client or none
          clients,      \* clients ever connected
          types,        \* sub-engines whose types are in the descriptor, in the schema
          opener,       \* each opener: where it is, its alias
          prepares      \* history: calls of the mongo service's Prepare

startVars == <<phase, todo, ready, seqReady, db, aliases, client, clients, types,
               opener, prepares>>

mongoVars == <<db, aliases, client, clients, prepares>>
NoClient == 0
ASSUME ClientAssumption == NoClient \notin Client

StartInit ==
  /\ phase = "PrepareServices" /\ todo = Services
  /\ ready = {} /\ seqReady = FALSE
  /\ db = FALSE /\ aliases = {} /\ client = NoClient /\ clients = {}
  /\ types = [described |-> {}, served |-> {}]
  /\ opener = [o \in Opener |-> [at |-> "new", alias |-> "default"]]
  /\ prepares = 0

-----------------------------------------------------------------------------
(* Mutation: a client is connected for every alias. *)
registerNewDBAlways(alias, al, cl) ==
  /\ aliases' = al \cup {alias}
  /\ \E c \in Client \ clients : client' = c /\ clients' = clients \cup {c}

(* registerNewDB, under the guard: the client of the address is used when  *)
(* there is one; configuration, connection or listing may fail.            *)
registerNewDB(alias, al, cl) ==
  \/ /\ aliases' = al \cup {alias}
     /\ IF cl # NoClient THEN client' = cl /\ UNCHANGED clients
        ELSE \E c \in Client \ clients : client' = c /\ clients' = clients \cup {c}
  \/ /\ aliases' = al
     /\ \/ client' = cl /\ UNCHANGED clients
        \/ /\ cl = NoClient   \* connected, then the databases cannot be listed
           /\ \E c \in Client \ clients : client' = c /\ clients' = clients \cup {c}

(* Service.Prepare of mongo: both maps are made anew, every time; the      *)
(* default database is opened unless there is one.                         *)
PrepareMongo ==
  /\ prepares' = prepares + 1
  /\ IF db THEN /\ aliases' = {} /\ client' = NoClient
                /\ UNCHANGED <<db, clients>>
     ELSE /\ registerNewDB("default", {}, NoClient)
          /\ db' = ("default" \in aliases')

(* SequenceProvider.Prepare, which does it once, prepares the mongo        *)
(* service it finds, when that has no database yet.                        *)
PrepareSequence ==
  IF seqReady \/ "mongo" \notin Services THEN UNCHANGED <<seqReady, mongoVars>>
  ELSE /\ IF db THEN UNCHANGED mongoVars ELSE PrepareMongo
       /\ seqReady' = db'

(* The services that prepare and start the SequenceProvider: itself, and   *)
(* the NatsSequenceProvider that wraps it.                                 *)
HoldsSequence(s) == s = "sequence" \/ (s = "natsSequence" /\ Wrapped)

(* What a service's Prepare does, and whether it returned no error.        *)
Prepare(s, ok) ==
  CASE s = "mongo" -> PrepareMongo /\ ok = db' /\ UNCHANGED seqReady
    [] HoldsSequence(s) -> PrepareSequence /\ ok = seqReady'
    [] OTHER -> ok = TRUE /\ UNCHANGED <<mongoVars, seqReady>>

(* What its Start finds: the sequences check their database; the nats      *)
(* sequences want the nats service's server, and panic where there is no   *)
(* service of that name, which ends Start like an error; the others have   *)
(* nothing to fail on, or, like nats and sql, connect and keep the error.  *)
Starts(s) ==
  /\ HoldsSequence(s) => seqReady
  /\ s = "natsSequence" => "nats" \in Services

-----------------------------------------------------------------------------
Fail == phase' = "failed" /\ todo' = {}

Leave(x, next, rest) ==
  IF todo = {x} THEN phase' = next /\ todo' = rest
  ELSE phase' = phase /\ todo' = todo \ {x}

StepPrepareService(s) ==
  /\ phase = "PrepareServices" /\ s \in todo
  /\ \E ok \in BOOLEAN :
       /\ Prepare(s, ok)
       /\ IF ok THEN Leave(s, "PrepareEngines", Engines) ELSE Fail
       /\ ready' = IF ok THEN ready \cup {s} ELSE ready
  /\ types' = IF s = "gql" THEN [types EXCEPT !.described = {}] ELSE types
  /\ UNCHANGED opener

(* A sub-engine's Prepare: it registers types, adds jobs, asks for         *)
(* sequences; it needs the services it uses to be there.                   *)
StepPrepareEngine(e) ==
  /\ phase = "PrepareEngines" /\ e \in todo
  /\ \/ /\ e \in Faulty /\ Fail /\ UNCHANGED types
     \/ /\ Leave(e, "StartServices", Services)
        /\ types' = [types EXCEPT !.described = @ \cup {e}]
  /\ UNCHANGED <<ready, seqReady, mongoVars, opener>>

(* GQLEngine.Start builds the schema of what is described. *)
StepStartService(s) ==
  /\ phase = "StartServices" /\ s \in todo
  /\ IF Starts(s) /\ s \notin Faulty THEN Leave(s, "StartEngines", Engines)
     ELSE \/ Fail
          \/ Starts(s) /\ Leave(s, "StartEngines", Engines)
  /\ types' = IF s = "gql" THEN [types EXCEPT !.served = types.described] ELSE types
  /\ UNCHANGED <<ready, seqReady, mongoVars, opener>>

StepStartEngine(e) ==
  /\ phase = "StartEngines" /\ e \in todo
  /\ \/ e \in Faulty /\ Fail
     \/ Leave(e, "running", {})
  /\ UNCHANGED <<ready, seqReady, mongoVars, types, opener>>

-----------------------------------------------------------------------------
(* getMongoDB, up to the end of the read lock, *)
GetMongo(o, a) ==
  /\ phase = "running" /\ "mongo" \in Services
  /\ opener[o].at = "new"
  /\ opener' = [opener EXCEPT ![o] =
                 [at |-> IF a \in aliases THEN "done" ELSE "missed", alias |-> a]]
  /\ UNCHANGED <<phase, todo, ready, seqReady, mongoVars, types>>

(* and registerNewDB, which does not look again. *)
RegisterNewDB(o) ==
  /\ opener[o].at = "missed"
  /\ registerNewDB(opener[o].alias, aliases, client)
  /\ opener' = [opener EXCEPT ![o].at = "done"]
  /\ UNCHANGED <<phase, todo, ready, seqReady, db, prepares, types>>

StartNext ==
  \/ \E s \in Services : StepPrepareService(s) \/ StepStartService(s)
  \/ \E e \in Engines : StepPrepareEngine(e) \/ StepStartEngine(e)
  \/ \E o \in Opener, a \in Alias \cup {"default"} : GetMongo(o, a)
  \/ \E o \in Opener : RegisterNewDB(o)

StartSpec == StartInit /\ [][StartNext]_startVars

-----------------------------------------------------------------------------
(* One client per address ("got new connection for alias" is for a new     *)
(* address only), unless the mongo service was prepared twice, once by the *)
(* sequences' Prepare and once by the engine.                              *)
OneClientUnlessPreparedTwice == Cardinality(clients) > 1 => prepares > 1

(* An engine that runs has every service ready, a database for the         *)
(* sequences, and the types of every sub-engine in its schema, in whatever *)
(* order its maps were walked.                                             *)
RunningIsComplete ==
  phase = "running" =>
    /\ ready = Services
    /\ \A s \in Services : HoldsSequence(s) => seqReady
    /\ "gql" \in Services => types.served = Engines

(* What a start leaves: both of these.                                     *)
StartsRight == OneClientUnlessPreparedTwice /\ RunningIsComplete
=============================================================================
