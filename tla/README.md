# vivard in TLA+

A verification project for vivard: the runtime library (`*.go` at the root,
`cache/`, `mongo/`, `sql/`, `sqlx/`, `scripting/`, `notification/nats/`), the
code that its generator (`gen/`) writes into an application, and the part of the
generator that decides what is written.

## 1. The system

vivard is two programs. The **generator** reads entity descriptions, runs a
pipeline of plugins over them (options, features, generators, hooks) and writes
Go, GraphQL and client code. The **runtime** is the library the generated code
is linked with: an `Engine` that starts services, a GraphQL front end, a cron
service, sequences for identifiers, configuration providers, notifications,
database connections and a cache package.

| part | state it keeps | operations | what must be right | modules |
|---|---|---|---|---|
| LRU cache (`cache/lru.go`) | index, doubly linked list, size; one mutex | Set, Get, Find, Remove | list and index agree, the victim is a least recently used key, no nil dereference | `LRU`, `LRUAbstract`, `LRURefinement` |
| Lockable cache (`cache/lockableLRU.go`) | an LRU whose values carry a mutex; loader, saver | GetAndLock, PutAndLock, Unlock, SaveAndUnlock | one holder per key, no unlock of what is not locked | `Lockable` |
| Mongo sequences (`mongo/sequence.go`) | per process a map of sequences with a cached value each; one document per sequence | Sequence, Next, Current, SetCurrent | no number given twice, the document never behind what was given | `MongoSequence` |
| NATS sequences (`sequnce_distributed.go`) | a server over Mongo sequences; clients | Next, Current by request and reply | no number reaches two calls; one that is lost was never published | `NatsSequence` |
| GraphQL engine, statistics (`gqlengine.go`, `gql_statistics.go`) | statistics map, channel, counters, a mutex | HTTP handler, switching, processor, queries | handlers end, entries are counted once | `GQLStatistics` |
| GraphQL schema (`gqlengine.go`, `gen/gql_generator.go`) | descriptor: types, their generators | AddType, generators, generate | what an operation mentions is there, in any order | `GQLSchema` |
| Engine, connections (`engine.go`, `mongo/service.go`) | services, sub-engines; databases by alias | Prepare, Start, GetMongo | all is prepared before anything starts, in any order; one client per address | `EngineStart` |
| Cron (`cronservice.go`) | jobs, a cancel function per job | AddNamedFunc, Run, Cancel, ListJobs | identifiers are unique, a job tells the truth of its runs | `Cron` |
| Configuration (`config.go`) | providers by priority, callbacks | register, value, setValue, notify | the highest priority wins, everyone hears | `Config` |
| Scripting (`scripting/`) | compiled script, its modification time | Process, getScript | a request runs the script that is there, or says why not | `Scripting` |
| Dates (`dateiterator.go`) | current, start, end, steps | Start, Next, SetStep | every date once | `DateIterator` |
| Generated dictionaries (`gen/dictionaries_generator.go`) | cached items, indexes, a mutex; the collection | EnsureCache, Get, List, Set, New, Delete, seeding | cache and collection agree, ids are unique | `DictCache`, `DictSeed` |
| Generated entities (`gen/no_cache.go`, `gen/mongo_generator.go`, `gen/gql_generator.go`), versions, history | the collection | Get, Set, New, bulk, Delete | no silent loss, history once per change | `EntityStore` |
| Entity methods: access, hooks, times, validation (`gen/no_cache.go`, `gen/resource.go`, `gen/validator.go`) | none of their own | the fragments around each main action | what is stored was validated, answers tell what was done | `EntityMethods` |
| Resource registration (`gen/resource.go`) | ids of resources; the manager outside | initResources | a started engine knows all its resources | `Resources` |
| Configuration entities | one object, a document per field | Get, Load, Set, Save, the provider, the mutation | the object and the documents agree | `ConfigEntity` |
| Generated queries (`gen/mongo_generator.go`) | none | Find, Lookup | what is asked for is found, nothing else | `Queries` |
| Children (`gen/mongo_generator.go`, `gen/code_generator.go`) | a collection with a foreign key | ListFK, RemoveFK, ReplaceFK | a parent's children are those of one input | `Children` |
| Generator pipeline (`gen/generator.go`, `gen/package.go`, `gen/object_ref.go`) | project, packages, links between entities | the stages of Generate, WriteToFiles | the outcome does not depend on the order of maps; failures are reported | `GeneratorPipeline`, `MetaBlocks` |
| Annotations (`gen/parser.go`) | tags, shared by a line of types | GetFullAnnotations | the nearest declaration wins | `Annotations` |
| JS client (`gen/js/gql_client.go`) | none | queries, instances | a query selects what its type needs | `JSQueries` |

Parts without a model are listed in section 7.

They interact by direct calls (generated code -> engine -> sequence provider,
dictionary -> sequence provider), by messages (NATS sequence client and
server), by a channel (GraphQL handlers -> statistics processor) and through
shared state behind mutexes (caches, dictionaries, statistics, sequence maps).

What is hard to test in it:

* **Concurrency.** Sequences read and write their cached value without a lock;
  a dictionary releases its mutex between filling the cache and using it, runs its
  ensurer without it, and hands out pointers that a mutation writes through; the
  statistics processor and the handlers race with the switch; the lockable cache
  gives up the cache's mutex before it takes the item's; runs of a job overlap;
  two requests change one entity, one configuration, one parent's children.
* **Failure.** A call of the database fails, or is applied and its answer lost,
  half way through a sequence's save, a dictionary's change or its seeding (which
  drops the error), a replacement of children, a configuration of several
  documents. A handler has taken a number and its reply is not published.
* **Restart, several processes, time.** Sequences cache their value in every
  process; replies come after their timeout; engines of two processes register
  the same resources.
* **Order.** Go walks maps in any order: services, sub-engines, packages, types
  of a schema. Annotations and meta blocks depend on who asked first.
* **Boundaries.** A full cache, an empty list, a full channel, int32, the zero
  time, a month without a 31st.

## 2. Plan and state

In the order written; P: with proofs.

| | modules | state |
|---|---|---|
| 1 | `LRU` (P), `LRUAbstract`, `LRURefinement` | all operations; the refinement proved |
| 2 | `MongoSequence` (P) | all but reads of lists; races and the end of calls model-checked |
| 3 | `GQLStatistics` (P) | switching, counting and snapshots proved; liveness model-checked |
| 4 | `DictCache`, `DictSeed` (P, one for both) | cache under failing calls and goroutines, and seeding: both proved |
| 5 | `EntityStore` (P) | proved |
| 6 | `Lockable` (P, with `LRU`), which extends `LRU` | proved |
| 7 | `Cron`, `Scripting`, `EngineStart`, `Resources`, `Config`, `DateIterator` (P, one for all) | proved |
| 8 | `EntityMethods`, `ConfigEntity` (P, one for both) | proved |
| 9 | `NatsSequence` (P, with `MongoSequence`), which extends `MongoSequence` | the refinement and numbers proved |
| 10 | `GeneratorPipeline`, `MetaBlocks`, `Queries`, `Annotations` (P, one for all), `GQLSchema` (P, with `GQLStatistics`) | proved |
| 11 | `Children` (P, with `EntityStore`) | proved |
| 12 | `JSQueries` (P, with `GQLSchema`) | proved |

What would come next: options, features and their providers in the pipeline.

## 3. Modules

### LRU, LRUAbstract, LRURefinement

`cache/lru.go` has one mutex, taken for the whole of every exported operation,
so an operation is one action: `Set` (its cases `Update`, `Evict` and `Insert`
are setItem's), `Find` (which is also `Get`), `Remove`. Inside it everything
is kept at the level of pointers: `list` is head, tail, and the next and prev
of each item, and `addHead`, `removeTail`, `moveToHead` and `remove` are the
functions of the same names. `panicked` becomes true where the code would go
through a nil pointer. `findItem`'s shadowed `ok` is in the model: every lookup
reports a miss, yet still moves its item to the head.

`stamp` and `clock` are not in the code. They say when an item was last used,
which is what the order of the list has to mean; `LRURefinement` maps index,
content and stamps to `LRUAbstract`, a cache without a list that gives up a key
no other has gone unused longer than.

### Lockable

Extends `LRU`: the values stored are boxes with a mutex. What happens under the
cache's mutex is one step; the wait for the item's mutex is another, and reads
the box of the list's item, which may have changed. `LocksKept` has two parts.
`AloneIsExclusive`: while one goroutine is after a key that stays in the cache,
the mutex it holds is the one its Unlock will find. `LocksExplained`: the fatal
"unlock of unlocked mutex" needs two goroutines after one key, and a mutex that
stays locked without a user comes from a key that was crowded or left the cache
in use, from a SaveAndUnlock that was told ErrNotFound, or from an item that was
recycled under its user. The leak of the cache's own mutex after a loader's
error is in the model (`lockLeaked`).

### MongoSequence

`mongo/sequence.go`: the provider's map of sequences (`sequences`, by process),
the cached value of each object (`curr`), the document (`doc`) and a place per
goroutine. `Next`, `Current` and `SetCurrent` take no lock, so each is cut
where another goroutine can come between: the look under the read lock and the
second one under the write lock, the test of `curr`, the call of FindOne and the
use of its answer, the read, the increment and the save of `curr`. Find, insert
and update may fail; the last two also after they were applied (`insertReply`,
`updateReply`). `Crash` restarts a process. Numbers past `MaxInt32` come back
from the driver as another type, which the code's assertion does not survive:
`Panic`, after which the caller goes on, where something above recovers, or its
process restarts. `EveryCallEnds` says that a call of Next, Current or SetCurrent
ends, in an answer or a panic, whatever fails; it does not say that a panic is
the right end (section 6).

### NatsSequence

Extends `MongoSequence` with one caller, the subscription's goroutine
(`Caller = {Server}`). Clients send requests and wait; messages overtake one
another and may stay for ever; a client's timeout makes a later reply useless.
`Serve` begins the handler, whose guard on the topic is in `topic`: a name with a
dot in it is answered 0, a topic that has nothing before "sequence" with nothing.
`ServerStep` runs Next to its end and leaves what the handler returns in
`answer`; its error is not looked at, so that a failure is answered with -1, and
a panic with nothing. `Publish`, a step of its own, sends the answer or fails, and
`ServerCrash` may come before it: then the number is in `lost`. `NatsNext` is
`Next` of the sequence with the server's moves, plus steps that leave the sequence
alone. `NumbersKept` has two parts. `ClientsNeverShare`: no two calls of clients
are given one number, but for the -1 and the 0 of calls that failed.
`NumberHasOnePlace`: a number given out is with the handler, in one reply,
received, or lost, and in one of these only. The clients see a gap for each
number that is lost, or whose reply comes too late.

### GQLStatistics

`gqlengine.go` and `gql_statistics.go`: administrators that set the options
(`Ask`, then the steps under the mutex), HTTP handlers (`Begin`, `Evaluate`,
`Check`, `Send`, `End`), and processors, one for every time collecting was
switched on, since each call of the switch starts a goroutine. Channels are
numbered, and a processor reads the field anew in each turn of its loop, as the
code does. A request is given its queryStatistics when it begins (`Begin`), if
collecting is on or slow requests are logged (`logLonger`); one that began without
and meets a switching on before its check sends an entry of the empty text
(`crossed`, `strayed`). `CountedOnce` is `NothingLost` and `StraysExplained`: such
an entry has no other origin. The store into a nil map is `createStatistics` with
no map: the panic is recovered, the processor goes on, and the mutex stays
`Leaked`.

### DictCache and DictSeed

The functions generated for a dictionary: `DictCache` is the cached slice, its
index by id and by qualifier, and the mutex. An operation is two or three
steps, since ensureCache gives the mutex up before the operation takes it; what
happens under one lock is one step. Every call of the collection may fail,
applied or not. `failed`, `moved` and `undone` are not in the code: they
remember why a cache may differ, so that the properties say *only* there. The
index by qualifier is a set of positions; the order of positions in its slices
is left out.

Get hands out a pointer into the cache. `Change` is the Set mutation of GraphQL,
which parses its input into the object it was handed, without the mutex
(`ParseInput`), and then calls Set, or gives up after an error of the input, of a
check or of a hook (`Refuse`), when what it wrote stays in the cache. `held` is
the object it works on: the cached one, or one that the cache has dropped since,
alone or with others. `spoiled` remembers the items it was given up on.
`CacheAgrees` allows the cache to differ from the collection in the items of
running and abandoned mutations, as in those of failed calls, and nowhere else.

`DictSeed` is how the collection and the sequence get their first content: the
initer of an empty dictionary or the ensurer of the values a release lists, over
several releases, with a crash between any two steps. The initer runs under the
mutex, so it is one step, but any of its insertions may fail unnoticed (`Flush`).
The ensurer runs after the mutex is given up: a run of it is the Get of one value
after another (`Look`), the New of one that is missing (`CreateValue`, whose error
is dropped) and the setting of the sequence (`Finish`), and other runs, creators,
deletions and restarts come between. The calls of the sequence fail, or race,
unnoticed (`SetCurrent`, `TakeId`). `trouble`, `unsure`, `lost` in a run and
`early` in a call are not in the code; they say what went wrong for whom.

### EntityStore and EntityMethods

`EntityStore` is what is generated for an entity that has a GraphQL interface. A
request goes through the parser of its input (`LoadForSet`, `Parse`), the
engine's method (`SetGet`, `NextVersion`, or the identifier's Next) and the
collection (`Save`, `Insert`, `RemoveDoc`); each is one call of the database or
of a sequence and the only point another request can come between. Bulk
mutations keep a queue of objects and stop at the first error. A sequence of
identifiers or versions may give a number it has given before, which is what two
calls of Next at once do (`seq_race`); `idTwice` and `verTwice` remember which, and
a failed Next's -1. The options work
inside these: the version is taken and compared in Set, the change detector's
bit is set by the setter and read by the history's save hook, a Delete that
marks calls Set and drops its results. `given`, `stamp`, `rev` in documents,
`base`, `seen` in objects and `warned`, `got`, `from`, `dropped` in calls are
not in the code; they say who has seen what.

`EntityMethods` has the same methods from the other side: a body is the sequence
of statements that no_cache.go and the plugins' fragments make for a declaration
(`checked`, `hooked`, `auto`, how the reference is declared), and a step runs one
of them. `ReferencesExplained`: a document refers to an item of the dictionary, or
to one deleted since it was validated, unless the field is inherited.
`AccessExplained`: who changed a document had passed every check its method needs,
which for Set and Delete includes the right to read. `RepliesExplained`: "ok"
means that every object took effect; an error, that those before did, those after
did not, and the one in question only where a call's answer was lost or the hook
that runs after it refused.

### ConfigEntity

A `config` entity is one object behind an attribute and a document for each of
its fields. Objects are in `heap`, since they are written into where they are:
the mutation parses its input into the object everybody reads. `ConfigKept`:
at rest, when no operations overlapped, object and documents agree but for
fields whose update failed or that were assigned before an error; "ok" speaks of
the last field only; the nil dereference comes only after a failed update.

### Lifecycle and small services

`EngineStart`: the loops of `Engine.Start` over maps, in any order, with what
Prepare and Start of the library's services do to each other (the sequences
prepare the mongo service when they come first, and so does the NATS provider with
the sequences it wraps (`Wrapped`); it panics in Start when there is no NATS
service, which ends the start like an error; the mongo service makes its maps anew
each time), and GetMongo, which misses under the read lock and registers
without looking again. `Cron`, `Config`, `Scripting` and `Resources` are cut
where their code gives up a lock or calls out; their history variables (`raced`,
`overlaps`, `panics`, `failed`, `told`, `excused`) are what the `...Explained`
properties speak of. `DateIterator` computes with days since 0001-01-01, whose
value is Go's zero time; months are carried over as package time does.

### Generator

`GeneratorPipeline` walks the stages over a map of packages. What a stage does
to an entity is what other entities ask of it: descendants, ids, foreign keys,
find types, relations. The walk meets the internal package, which a reference
adds while it is on, or does not. In `Annotations` a type is made when its base
is ready, one annotation and one tag at a time: which types, and in which order,
is up to who asks, and the order of an entity's annotations is that of a Go map.
`MetaBlocks`, `Annotations`, `GQLSchema`,
`JSQueries` and `Queries` are algorithms over inputs: the input is chosen at the
start, the steps are the code's loop or the order it leaves open, and the
property compares the result with a definition that has no order
(`NearestWins`, `FiledWhereWritten`, `SchemaExplained`, `QueriesExplained`,
`QueriesAnswered`). In `Queries` a searched word becomes a regular expression as
it is: `Matched` says what an expression matches, `Prefix` and `Infix` what was
meant, `Regular` which words are expressions at all and `Verbatim` which stand for
themselves; `Refused` is what MongoDB does not take, an irregular expression or
the empty list that a map without an entry becomes. In `GQLSchema` a mention of
a type without a generator panics, and the library may refuse the schema it is
handed (`Serve`). `Children` is the code generated for one-to-many fields,
under two users and lost calls.

### How they fit together

`NatsSequence` and `Lockable` extend the modules they are built on, so the run
and the proofs of the composition include the lower part as it is. `DictSeed`
and `EntityStore` see a sequence as `MongoSequence` is to many callers: numbers
rise (what `SerialNeverRepeats` proves of one caller) unless a call fails or the
race that `seq_race` shows repeats one. `DictCache` leaves ids and releases to
`DictSeed`, and `DictSeed` leaves to `DictCache` what happens inside Get, New and
Delete. `EntityMethods` leaves versions
and history to `EntityStore`, which leaves access and validation to it.

`MCServices`, `MCStored`, `MCNumbers` and `MCGenerator` put parts that share no
state into one run: `part` picks the one that moves, the others stay as they
begin. Where a part has many initial states the ones that do not move are pinned
to one of them (`...Pins` and the conjuncts `part # ... =>` of the Init), which
only leaves out copies. Such a run checks each part as a run of its own would.

## 4. Runs

`tlc -config <cfg> <module>`. The large ones take two to three minutes with two
workers, the others less.

| run | bounds | what it shows |
|---|---|---|
| `lru` (`LRU.cfg`, `MCLRU`) | 3 items, 4 keys, 2 values, 5 uses | `NoPanic`, `WellFormed`, `ImplementsLRU`: list and index agree, nothing is dereferenced that is nil, the victim is a least recently used key |
| `lru_get` (`LRUGet.cfg`) | 2 items, 3 keys | **violated**, `GetReturnsStored`: a stored value is not found (`cache/lru.go:75`) |
| `numbers` (`Numbers.cfg`) | *server*: 1 server, 2 clients, 3 calls, every kind of topic, every failure but a lost insertion, unpublished replies, int32 ends at 2, restarts, timeouts. *seed*: 3 ids, 3 releases, both kinds and deletions, 2 runs of the ensurer, a creator, dropped errors, crashes | `NoNumberTwice`, `NumbersKept`: no number reaches two calls, and one that was given out is with the handler, in a reply, received, or lost before its reply was published; `TakenIdExplained`, `EnsuredArePresent`: a taken id and an absent value have their reasons |
| `seq_shared` (`SeqShared.cfg`) | 2 goroutines, 3 calls, all failures, restarts, int32 ends at 2; fair | `OneObject`, `EveryCallEnds`: callers of a process share one object, and their calls end, in an answer or a panic |
| `seq_race` (`SeqRace.cfg`) | 2 goroutines, 3 calls, no failure | **violated**, `NoNumberTwice`: one number given twice (`mongo/sequence.go:126`) |
| `stats` (`Stats.cfg`) | 2 handlers, 2 administrators, capacity 1, on twice, 2 requests, slow requests logged or not | `KeepsServing`, `CountedOnce`, `SnapshotsAddUp`: an open channel has a processor, the mutex is lost only when collecting is off, nothing is lost or counted twice before the first switching off, and entries of the empty text come only from requests that met a switching on |
| `stats_live` (`StatsLive.cfg`) | the same, 1 administrator; fair | `EveryRequestEnds`, `EveryEntryCounted` unless collecting is switched off |
| `stats_switch` (`StatsSwitch.cfg`) | the same, 1 request; fair | **violated**, `EverySwitchAnswered` (`gql_statistics.go:120`) |
| `stored` (`Stored.cfg`) | *cache*: 2 goroutines, 2 ids, 2 qualifiers, 3 calls, any failure, restarts. *shared*: the same with 2 Set mutations of cached objects and a third goroutine that Sets. *entity*: 2 users, 2 requests, 3 ids, 2 values, 1 failure or repeated number, every declaration, bulks of two | `CacheAgrees`, `MissesExplained`, `BrokenIsFinal`; `HistoryConsistent`, `StoredAsAnswered`, `OverwritesExplained`, `VersionsExplained`: what is missed, lost or turned back is so only after a failed call, a mutation given up, a dropped cache, a number given twice, or a write its loser had not seen |
| `dict_delete` (`DictDelete.cfg`) | 2 goroutines, 1 qualifier, no failure | **violated**, `NotFoundMeansAbsent` (`gen/dictionaries_generator.go:1118`) |
| `services` (`Services.cfg`) | nine parts: 2 lockers on a cache of one, 2 keys; 2 jobs, 3 runs, a canceller; 3 providers of 2 priorities, 2 callbacks, 2 changes; 3 requests, 3 edits of a script; 5 services of which one wraps another, 2 sub-engines, 2 openers; dates from the zero time, January and December to the next March; 2 callers of a configuration of 2 fields, 1 failure; 2 callers of a method, 4 declarations, 1 failure; 2 processes, 2 resources with any parents, 3 starts, 1 failure | `LocksKept`, `JobsExplained`, `ConfigExplained` (`HighestWins`, `EveryoneTold`), `OldProgramExplained`, `StartsRight`, `NothingSkipped`, `ConfigKept`, `MethodsExplained`, `ResourcesExplained` |
| `generator` (`Generator.cfg`) | seven parts: 2000 projects of 3 entities in 2 packages, every order; queries of up to 3 parameters, with and without entries in a map, of words that are and are not regular expressions, over every document of 2 fields; 2 users, 2 parents, 5 children, 3 replacements, 1 lost call; declarations of 2 annotations by 4 types, every order; meta blocks of 6 lines; schemas of 3 types, every order; 30000 sets of 3 types of a client | `FailuresExplained`, `LinksExplained`, `WrittenIsComplete`; `QueriesAnswered`; `ChildrenOfOneInput`; `NearestWins`; `FiledWhereWritten`; `SchemaExplained`; `QueriesExplained` |

Why these are enough. Three items are the fewest with a head, a middle and a
tail, and four keys make a full cache give one up; a lockable cache of one gives
up a locked key at once. Races of sequences, dictionaries, entities and
configurations take two goroutines, and two or three calls hold a setup, a
disturbance and its victim. Two handlers fill a channel of one place twice over,
and to switch on twice is what leaves an old processor beside a new one. An
entity's conflicts take one write between another's read and write; the second
identifier is there for bulks, the third for identifiers that users choose ahead
of the sequence. Three runs of two jobs overlap on one job while the other has
one. Three releases let values go and come back, and two runs of the ensurer meet a
creator; in that run only one insertion is unsure at a time, and after trouble,
which excuses everything, only one run goes on (`SeedBound`). One number given
twice is one of the failures `MaxFaults` counts. Of six words one is the empty one,
one an anchor, one no expression, and three share letters. Entities in two
packages, one of them with two, give every order a link can be met in within and
across packages; three types are the shortest circle that is not a pair, and the
shortest line with a middle. What is proved (section 5) does not depend on a bound.

The bounds on behaviours are `MaxClock`, `MaxCalls`, `MaxOn`, `MaxRequests`,
`MaxFaults`, `SeedBound`, `MaxId`, `MaxEntityId`, `MaxChanges`, `MaxEdits`,
`MaxOperations`, `MaxFailures`, `MaxMethodCalls`, `MaxMethodFaults`, `MaxStarts`,
`MaxResourceFaults`, `MaxChild`, `MaxReplacements`, `MaxLostCalls`, `MaxParams`,
`MaxLines` and `Cap`. `CHECK_DEADLOCK FALSE` stands where a behaviour ends when
its bounded calls are made, and in the statistics also because a lost mutex really
stops the administrators.

Symmetry is used over keys, values and items of the LRU cache, over handlers and
administrators in `stats`, over users and values in `stored`, over runs of the
ensurer in `numbers`, and never with
a liveness property. The qualifiers of `stored` are alike too; instead of
permuting them `dictNames` calls the one the collection begins with `q1`.

### Fairness

`MongoSequence`: weak fairness of each goroutine's steps, which is what Go's
scheduler gives a goroutine that can run, and a driver that answers or times
out. `GQLStatistics`: the same for administrators, handlers and processors, with
strong fairness of a processor's receive, since `select` chooses at random
among the channels that are ready and ticks cannot starve entries for ever.
Users and administrators are never obliged to ask for anything, and no fairness
is assumed of crashes and failures. The other runs check safety only.

## 5. Proofs

Checked by `tlapm` for every value of the constants that meets the assumptions
named in the modules.

* **`LRUProofs`.** `CacheInv` (types, `WellFormed`, no panic, `Bounded`) is
  inductive. `Bounded` belongs to it: that a full cache has exactly `Size` keys,
  hence a tail to recycle, is what eviction needs. The lemmas say what
  each list function does to a chain. `Implements`: the pointer-level cache
  implements `LRUAbstract`; the tail of a chain ordered by `stamp` is a least
  recently used item. Assumes a positive size (`SizeAssumption`) and a
  `Nil` that is neither an item nor a value. A new item is any unused one; with
  too few items an insertion is not enabled, which safety does not mind.
  `LocksAreKept` is of the lockable cache above it, for any goroutines and keys:
  `LockInv` adds to the cache's invariant what a goroutine after a key finds at
  each place of its call, and which of the excuses of `LocksExplained` stands
  when it does not find it.
* **`SequenceProofs`.** For any number of goroutines and processes: `TypeCorrect`;
  `AlwaysOneObject`, from what the two looks under the locks know of the map. For
  one caller at a time, no SetCurrent and no lost insertion, which each theorem
  states: `SerialInvariant`, `SerialNeverRepeats`, `SerialDocAhead`. `SerialInv`
  adds to `NoNumberTwice` and `DocAhead` how the cached value, the caller's local
  one and the document stand to each other at every place of the program; without
  it a restart in the middle of a call could not be excluded. `ServerIsACaller`:
  `NatsSpec` implements the `Spec` of `MongoSequence` it extends, with the server
  as its one caller; steps of clients and the publishing of an answer stutter.
  `NumbersReachOneCall` builds on it and on `SerialInvariant`: a number is taken
  in one step and its reply published in another, between which the process may
  stop, and at each of these places the number is in one place (`NatsNumbers`),
  because the request it answers is no longer on the way. Assumes
  `ServerAssumption`; the theorem's own hypotheses are those of the serial case.
* **`GraphQLProofs`.** Of the statistics, for any number of goroutines and of
  switchings: `Invariance` of `Inv` = types, `SwitchInv` (how switch, map, channel
  and mutex go together between an administrator's steps) and `ProcessorInv`
  (which processors exist and where they listen), and from it `ServingKept`.
  `CountInv` is what holds until collecting is first switched off: there is one
  channel and one processor, which is at a known place with a known entry, so
  that the accepted, the queued, the held and the counted entries balance.
  `EntriesAreCountedOnce` adds `StrayInv`: the empty text is with a handler only
  when its request began untimed and met a switching on, and on the channel, with
  a processor or in the map only when one was sent, which needs that slow requests
  are not logged. Its one hypothesis is that no query is the empty text; without
  it `NothingIsLost` still holds.
  `SnapshotsPartition` is about sums over a history of any length. A sum
  is a recursive function here, and a fact of it is proved by the least length for
  which it fails, so no induction over operators is needed. Its first
  form said "shorter than the current length"; the proof showed that an
  administrator who raises the length of a full history makes that false, and
  `SnapshotsAddUp` now speaks of all lengths that can be set.
  Of the schema, `SchemaIsExplained`, for any number of types: `FramesInv` (the
  calls on the stack are a path in the input), `LoopsInv` (each loop has left what
  it passed), `CircleInv` (a type that is in a circle of values is never made), and
  a pigeonhole argument that a stack deeper than there are types holds a circle.
  Of the client, `QueriesAreExplained`, for any types: `SelectionInv` says of each
  call that what it selected so far is of its type and that every field it passed
  has been treated (`Treated`: selected, or replaced by an id further on), and that
  the next call is for the field it passed last; a returning call turns what is
  treated into what is owed. The same pigeonhole bounds its stack. A field that is
  skipped and declared a title made the first form of the invariant fail: it has
  no name and is asked for as "id".
* **`DictProofs`.** Of seeding, for any releases, ids, runs of the ensurer and
  creators, and both kinds of dictionary: `TakenIdsExplained` from `Orderly`
  (until something goes wrong, every id in use is behind the sequence or a value
  of a run that has yet to set it, and an id that a creator has taken is its own
  and free, or early); `EnsuredAlwaysPresent` from `Ensuring` (each value of a run
  is still to be looked at, in hand, there, or lost for a dropped error or a
  deletion); `CacheExact`, which excepts the ids whose insertion failed. Of the
  cache, for any number of goroutines, ids, failing calls and mutations of cached
  objects: `CacheAlwaysAgrees`, `MissesAlwaysExplained` and `BrokenForEver`.
  `AgreementInv` is inductive: types, the agreement of slice, indexes and
  collection but for what failed or is being written into, who holds which cached
  object (`HeldOK`), and why a goroutine past its EnsureCache may meet no cache
  (`Excuse`). Assumes finitely many ids, as a load builds the slice from them.
* **`EntityStoreProofs`.** For any clients, values, identifiers, requests, faults
  and declarations, in three layers. `StoreInv` says what an object in memory may
  look like at each place of a request: its history never repeats, and ends with
  its value unless the value is nil or the bit is set (`Recordable`); one that was
  loaded at the document's last write has the document's history and mark
  (`UpToDate`); what Set has found stays (`Stays`). From it
  `HistoryAlwaysConsistent` and `OverwritesAlwaysExplained`. `FreshInv`: an
  identifier of the sequence that waits in a request is no other's, nor a stored
  document's unless its user gave it, or the sequence has given it twice; with it
  `AlwaysStoredAsAnswered`.
  `VersionInv`: every version that somebody has read (`Reads`), is about to store
  (`Pends`) or that Delete started from (`DeleteReads`) stands for one stamp, and
  with versions of the type for one document, unless it was given twice or is the
  -1 of a failed Next; from it `VersionsAlwaysExplained`.
  Assumes that nil, an input's absence and `NoDoc` are no values and no documents.
  `ChildrenAlwaysOfOneInput`: between the two calls of a lone replacement the
  parent has no children (`Tidy`), for any users, parents and inputs.
* **`GeneratedProofs`.** `MethodsAreExplained`, for any callers, documents and
  declarations. A body is a sequence of statements, and `MethodsInv` is about what
  is left of it: its main action is `Ahead`, with every check it needs passed or
  still before it and the validation last, or it is `Behind`, and was granted; the
  counts of a bulk go with that (`Fits`), and so does the reply (`Answered`).
  `ConfigIsKept`: `ConfigInv` says where a call may be whatever else is
  under way (`CallFits`), that the first load has no company (`StartsAlone`), and,
  until operations overlap, what each place of a call knows of the object and the
  documents (`Quiet`).
* **`ServiceProofs`.** `JobsAlwaysExplained`: `ListInv` (the list has no gaps, and
  a number read before another job's is that job's alone) and `RunInv`, for any
  jobs, runs and cancellers. `OldProgramsExplained`. `StartsAlwaysRight`:
  `LoopsInv` says what each loop of Start leaves, in whatever order it visits its
  map, and `ClientInv` that before the second Prepare there is one client.
  `StartsExplained`: `Walks` relates the keys a start has left to what the
  registry holds, for any number of processes and resources.
  `ConfigAlwaysExplained`: `ChainInv` (the list of providers is sorted by
  priority, each in it once) and `ToldInv` (who has heard of a change, and who is
  still to). `NothingIsSkipped`, for any dates and steps: the lemmas say where a
  day number falls in years, months and days, over the leap years, and that a
  month later on the calendar is the next month on the same day, up to the 28th.
  `DatesAssumption` says that dates and steps are integers.
* **`GeneratorProofs`.** Of the pipeline, for any packages and entities and every
  order of the walks: `PipelineInv` says which stages a package has passed wherever
  the walk is (`PassedInv`), what has been emitted and reported (`OutputInv`,
  `CursorInv`), that the entities which wait in the first loop are exactly those
  their ancestors do not list (`DescendantInv`), and which links and ids exist
  (`IdInv`). From it `FailuresAreExplained`, `WrittenIsAlwaysComplete`,
  `LinksAreExplained`. Assumes that no type is derived from itself
  (`BasesAssumption`), which the parser's lookups would never return from.
  `QueriesAreAnswered`: `QueryInv` says that the filter made so far accepts
  what the parameters asked so far accept (`AskedInv`, `FilterInv`), but for
  not-exists and for words that do not stand for themselves. Assumes that a word of
  `Verbatim`, read as a regular expression, matches exactly what it is a prefix or
  a part of (`VerbatimAssumption`), which is what the name means.
  `TagsAreFiled`: `MetaInv` gives the parser's state as the last lines of each kind,
  with the tags it still holds and those it has filed among the lines read.
  `NearestAlwaysWins`, for any types and lists of tags: all types of a line share
  the annotation of the first that declares it (`FirstIn`, `MapInv`); its tags are
  its own and those of types that were appended (`TagInv`), each with its own value
  until then (`ValueInv`); and the value of the tag that is read is of one who
  wrote it, with no later writer further down the line (`CurrentInv`). The lemmas
  are about lines: of two types of one, one is derived from the other, and only one
  type is the first to declare an annotation.
  Assumes that no type is derived from itself (`LineageAssumption`).

Each assumption on constants is named and TLC evaluates it: most say
that a value that stands for "none" is not one of the values, or that a set of
inputs is finite or has the shape the parser gives it.

Model-checked only: everything under fairness (`EveryCallEnds`,
`EveryRequestEnds`, `EveryEntryCounted`), which is out of the prover's reach; and
the four violations, each a counterexample. Every safety property of a passing
run is stated by a theorem.

## 6. Where the code and its documents part

1. `cache/lru.go:75`: every lookup of a cached key is a miss (`lru_get`); the
   test in `cache/lru_test.go:57` asks for the value.
2. `mongo/sequence.go:126`: two goroutines get one number (`seq_race`).
3. `gql_statistics.go:120`: switching off under load can lock the statistics
   mutex for ever (`stats_switch`).
4. `gen/dictionaries_generator.go:1118`: after a Delete a concurrent call does
   not find an item that is there (`dict_delete`).

Two more contradict a comment without a run of their own. In the models they are
a case of an action, and the properties leave them open rather than call them
right:

5. `mongo/sequence.go:187`: the assertion to int32 panics for a document that
   outgrew 2^31 - 1, in Next, in Current and in SetCurrent (`Panic` in
   `MongoSequence`). The comments say "return -1 on error" (line 117) and
   "SetCurrent sets current value of Sequence to value" (line 147); it is reached in
   `seq_shared` and `numbers`, where `MaxInt32` is 2. `EveryCallEnds` counts the
   panic as an end, no more.
6. `gen/version.go:17-18` and `43-45` name three behaviours for a version that does
   not match: a warning in the log, an error ("err") and nothing. The code that is
   generated logs, whichever is asked for (`warned` in `VersionsExplained`).

What the models have besides, each an exception named in a property or a case of
an action:

* **Sequences.** An insertion of a document that is lost gives the same numbers
  after a restart. The NATS server does not look at Next's error, and clients
  take -1 for a number; for a name with a dot they are given 0
  (`sequnce_distributed.go:129`). A number is lost when its reply is not
  published. The initer sets the sequence to the largest id instead of past it, so
  that the first New fails.
* **Dictionaries.** The Set mutation writes into the cached object before anything
  is checked and without the mutex (`gen/gql_generator.go:1336`), so that a refused
  input stays in the cache. The ensurer drops the errors of New
  (`gen/dictionaries_generator.go:674`) and of the sequence
  (`gen/sequence_id_generator.go:134`), the initer those of InsertOne
  (`gen/mongo_generator.go:215`): a listed value may be missing, in the collection
  or in the cache. New takes its number before it looks, and one taken before the
  ensurer has set the sequence is a value's.
* **Entities.** Identifiers and versions come from a sequence that may repeat a
  number. A failed Next stores the version -1. A Delete that marks ignores the
  failure of its own Set. Set and Delete call Get first, so they need the right to
  read. New takes its id before any check. The changed hook's error is answered
  though the change is stored, and Delete's is not looked at. References of the
  base type are not validated.
* **Configuration entities.** Save returns the error of its last document only;
  Set assigns before it saves; the wrapper makes a failed Set's nil the engine's
  configuration; the mutation parses into the shared object.
* **Services.** A job's identifier is the length of the map, read without the
  lock; overlapping runs clear each other's cancel function. A script that cannot
  be read after Stat is no error, and the old program runs. A loader's error
  leaves the lockable cache's mutex locked. An iteration that starts at the zero
  time never leaves it. A resource whose parent's key sorts later fails every
  start, and so does the slower of two starts at once. The NATS sequences panic in
  Start when there is no NATS service (`sequnce_distributed.go:100`), and prepare the
  mongo service once more.
* **Queries.** The user's word goes into $regex as it is
  (`gen/mongo_generator.go:957`, `1225`): "a.b" finds "axb", "a+b" misses itself, and
  "(" is refused. A map that is not nil and has no entry becomes an empty $and
  (line 1126), which MongoDB refuses. not-exists is generated as exists.
* **Children.** They are replaced before the parent is saved; ReplaceFK of an
  empty list deletes and then fails; deleting a parent leaves them.
* **Generator.** generateEngine's error is discarded (`gen/generator.go:626`); the
  internal package may miss beforePrepare and never has postParsed; a foreign
  key is filed under ID (`gen/package.go:537`), where a find type finds it; the id
  of a many-to-many field is nil for a target whose turn comes later; with two
  field lines in a meta block the first one's
  tags land on the second; eight tags switch nine operations
  (`gen/gql_generator.go`); types with values of each other in a circle overflow
  the stack when the engine starts; in the client a nested selection before an
  id that is not full is dropped, and a skipped field that is declared a title is
  asked for as "id" (`gen/js/gql_client.go`).

## 7. What is not modelled

* **Within modelled parts.** Durations and times of statistics and runs; the
  statistics query; lookups of dictionaries by other fields, enum getters and the
  generic configuration dictionary; singletons; hooks in JavaScript; bodies of
  users' hooks beyond what `EntityMethods` lets them do; conversions of
  configuration values; several sequences behind one NATS server; of the pipeline,
  options, features and their providers, and the text that is emitted; names and
  arguments of GraphQL operations; of generated queries, sorting and parameters of
  embedded types with several fields.
* **External.** MongoDB, NATS, the cron library, the JavaScript engine, the
  resource manager and the GraphQL library, modelled from how the code uses them.
* **Not modelled at all.** The SQL and NATS connection services (calls of
  drivers), the Vue generator and the rest of the JS one, logging, the command
  line, resource descriptions, utilities and the IDE plugin: they emit text or
  keep no state that changes.
* **Outside the models' inputs.** A cache of size 0 panics on its first Set; the
  modules assume a positive one. Two processes over one dictionary each keep their
  own cache, which the code does not document. GetAll without a qualifier hands
  out the cache's slice, which its caller reads without the mutex; the model reads
  it within one step. The grammar and values of tags are taken as parsed. A
  second generator registered under one name panics (`gqlengine.go:340`); the names
  of types and operations are taken to be distinct, as entities are in a project.
  Words are compared with case; the two searches that ignore it are left out.
