--------------------------- MODULE GQLStatistics ---------------------------
(***************************************************************************)
(* Collecting of query statistics (gqlengine.go, gql_statistics.go).  HTTP *)
(* handlers send one entry per request over a channel to a processor       *)
(* goroutine; administrators switch the collecting on and off and set the  *)
(* length of the history.  Switching on makes a new map and a new channel  *)
(* and starts a processor; switching off drops the map and closes the      *)
(* channel.  Handlers read the switch and the channel without the mutex.   *)
(*                                                                         *)
(* An entry is the query it is about; of a statistic only the number of    *)
(* queries counted is kept.  Channels are numbered in the order they are   *)
(* made, and so are the maps and the processors made with them.            *)
(***************************************************************************)
EXTENDS Integers, SequencesExt

CONSTANTS Handler,      \* goroutines that serve HTTP requests
          Admin,        \* goroutines that serve the options mutation
          Query,        \* the texts of the queries
          NoQuery,      \* the empty text
          Cap,          \* the capacity of a channel
          Switches,     \* the switch positions the mutation is given
          Counts,       \* the history lengths it is given
          DefaultCount, \* the length set by SetOptions
          LogLonger,    \* what LogRequestsLongerThan > 0 may be
          MaxOn,        \* bound on how often collecting is switched on
          MaxRequests,  \* bound on the number of requests in a behaviour
          None,         \* no map, no statistic, nobody
          Leaked        \* holds the mutex for ever: see createStatistics

Entry == Query \cup {NoQuery}
Channel == 1..MaxOn
Processor == Channel

ASSUME CapAssumption == Cap \in Nat \ {0}
ASSUME OptionAssumption ==
  Switches \subseteq BOOLEAN /\ Counts \subseteq Int /\ DefaultCount \in Int /\ LogLonger \subseteq BOOLEAN
ASSUME BoundAssumption == MaxOn \in Nat /\ MaxRequests \in Nat

Statistic == [overall : Int, current : Int, history : Seq(Int)]

ASSUME NameAssumption ==
  /\ None # Leaked /\ {None, Leaked} \cap Admin = {}
  /\ None \notin Statistic \cup [Entry -> Statistic \cup {None}]

VARIABLES
  collect,    \* collectStatistics
  statistics, \* by query, None for a nil map
  channel,    \* statisticsChannel, 0 for a nil channel
  buf,        \* what each channel holds
  closed,     \* the channels that are closed
  mux,        \* statisticsMux: who holds it for writing
  count,      \* options.StatisticsSnapshotsCount
  apc, want,  \* of each administrator: place, the position to switch to
  hpc, entry, target, \* of each handler: place, its queryStatistics, the channel it sends on
  ppc, on, got,       \* of each processor: place, channel it waits on, entry it has
  owner, seen,        \* of each processor: the map its *statistics is of, a count it read
  requests,   \* how many requests were started
  accepted,   \* by entry, how many were put on a channel
  logLonger,  \* LogRequestsLongerThan > 0, which is set before the engine starts
  crossed,    \* history: handlers whose request began without its queryStatistics,
              \* and during which collecting was switched on
  strayed     \* history: there was such a request

switch == <<collect, statistics, channel, closed, mux>>
admins == <<apc, want, count>>
handlers == <<hpc, entry, target, requests>>
processors == <<ppc, on, got, owner, seen>>
timing == <<logLonger, crossed, strayed>>
vars == <<switch, admins, handlers, processors, buf, accepted, timing>>

Zero == [overall |-> 0, current |-> 0, history |-> <<>>]

Init ==
  /\ collect = FALSE /\ statistics = None /\ channel = 0
  /\ buf = [c \in Channel |-> <<>>] /\ closed = {}
  /\ mux = None /\ count = DefaultCount
  /\ apc = [a \in Admin |-> "idle"] /\ want = [a \in Admin |-> FALSE]
  /\ hpc = [h \in Handler |-> "idle"] /\ entry = [h \in Handler |-> NoQuery]
  /\ target = [h \in Handler |-> 0]
  /\ ppc = [p \in Processor |-> "none"] /\ on = [p \in Processor |-> 0]
  /\ got = [p \in Processor |-> NoQuery] /\ owner = [p \in Processor |-> 0]
  /\ seen = [p \in Processor |-> 0]
  /\ requests = 0 /\ accepted = [e \in Entry |-> 0]
  /\ logLonger \in LogLonger /\ crossed = {} /\ strayed = FALSE

AGoto(a, l) == apc' = [apc EXCEPT ![a] = l]
HGoto(h, l) == hpc' = [hpc EXCEPT ![h] = l]
PGoto(p, l) == ppc' = [ppc EXCEPT ![p] = l]

-----------------------------------------------------------------------------
(* The options mutation and CollectStatistics.  The mutation looks at the  *)
(* switch without the mutex, CollectStatistics again with it.              *)

SetCount(n) ==
  /\ count' = n
  /\ UNCHANGED <<switch, apc, want, handlers, processors, buf, accepted, timing>>

Ask(a, w) ==
  /\ apc[a] = "idle" /\ w # collect /\ (w => channel < MaxOn)
  /\ want' = [want EXCEPT ![a] = w]
  /\ AGoto(a, "lock")
  /\ UNCHANGED <<switch, count, handlers, processors, buf, accepted, timing>>

\* Requests under way that have no queryStatistics.
Untimed == {h \in Handler : hpc[h] = "do" /\ entry[h] = NoQuery}

(* With the mutex: the switch is set first, and handlers can see it before *)
(* the rest, which is Open or Close.                                       *)
Switch(a) ==
  /\ apc[a] = "lock" /\ mux = None
  /\ \/ /\ want[a] # collect
        /\ want[a] => channel < MaxOn
        /\ mux' = a
        /\ collect' = want[a]
        /\ AGoto(a, IF want[a] THEN "open" ELSE "close")
        /\ crossed' = crossed \cup (IF want[a] THEN Untimed ELSE {})
        /\ strayed' = (crossed' # {} \/ strayed)
     \/ want[a] = collect /\ AGoto(a, "idle") /\ UNCHANGED <<mux, collect, crossed, strayed>>
  /\ UNCHANGED <<statistics, channel, closed, want, count, handlers, processors, buf, accepted,
                 logLonger>>

(* Mutation: the processor is only started the first time. *)
OpenStartsOnce(a) ==
  /\ apc[a] = "open"
  /\ statistics' = [e \in Entry |-> None]
  /\ channel' = channel + 1
  /\ ppc' = [ppc EXCEPT ![channel'] = IF channel = 0 THEN "select" ELSE "none"]
  /\ mux' = None
  /\ AGoto(a, "idle")
  /\ UNCHANGED <<collect, closed, want, count, handlers, on, got, owner, seen, buf, accepted,
                 timing>>

Open(a) ==
  /\ apc[a] = "open"
  /\ statistics' = [e \in Entry |-> None]
  /\ channel' = channel + 1
  /\ ppc' = [ppc EXCEPT ![channel'] = "select"]
  /\ mux' = None
  /\ AGoto(a, "idle")
  /\ UNCHANGED <<collect, closed, want, count, handlers, on, got, owner, seen, buf, accepted,
                 timing>>

(* Mutation: the channel is left open. *)
CloseKeepsChannel(a) ==
  /\ apc[a] = "close"
  /\ statistics' = None
  /\ mux' = None
  /\ AGoto(a, "idle")
  /\ UNCHANGED <<collect, channel, closed, want, count, handlers, processors, buf, accepted,
                 timing>>

Close(a) ==
  /\ apc[a] = "close"
  /\ statistics' = None
  /\ closed' = closed \cup {channel}
  /\ mux' = None
  /\ AGoto(a, "idle")
  /\ UNCHANGED <<collect, channel, want, count, handlers, processors, buf, accepted, timing>>

-----------------------------------------------------------------------------
(* The HTTP handler.  The switch is read before and after graphql.Do.  A   *)
(* request that is not timed keeps the queryStatistics it was declared     *)
(* with, of the empty text.                                                *)

(* Mutation: requests are timed only for the log. *)
BeginForLog(h, q) ==
  /\ hpc[h] = "idle" /\ requests < MaxRequests
  /\ requests' = requests + 1
  /\ entry' = [entry EXCEPT ![h] = IF logLonger THEN q ELSE NoQuery]
  /\ crossed' = crossed \ {h}
  /\ HGoto(h, "do")
  /\ UNCHANGED <<switch, admins, target, processors, buf, accepted, logLonger, strayed>>

Begin(h, q) ==
  /\ hpc[h] = "idle" /\ requests < MaxRequests
  /\ requests' = requests + 1
  /\ entry' = [entry EXCEPT ![h] = IF collect \/ logLonger THEN q ELSE NoQuery]
  /\ crossed' = crossed \ {h}
  /\ HGoto(h, "do")
  /\ UNCHANGED <<switch, admins, target, processors, buf, accepted, logLonger, strayed>>

End(h) ==
  /\ hpc[h] = "do"
  /\ HGoto(h, IF collect THEN "check" ELSE "idle")
  /\ UNCHANGED <<switch, admins, entry, target, requests, processors, buf, accepted, timing>>

Room(c) == c # 0 /\ Len(buf[c]) < Cap

Check(h) ==
  /\ hpc[h] = "check"
  /\ HGoto(h, IF Room(channel) THEN "evaluate" ELSE "idle")
  /\ UNCHANGED <<switch, admins, entry, target, requests, processors, buf, accepted, timing>>

Evaluate(h) ==
  /\ hpc[h] = "evaluate"
  /\ target' = [target EXCEPT ![h] = channel]
  /\ HGoto(h, "send")
  /\ UNCHANGED <<switch, admins, entry, requests, processors, buf, accepted, timing>>

(* Sending waits for room; sending on a closed channel panics, which ends  *)
(* the request (net/http recovers).                                        *)
Send(h) ==
  LET c == target[h]
  IN  /\ hpc[h] = "send"
      /\ \/ c \in closed /\ UNCHANGED <<buf, accepted>>
         \/ /\ c \notin closed /\ Room(c)
            /\ buf' = [buf EXCEPT ![c] = Append(@, entry[h])]
            /\ accepted' = [accepted EXCEPT ![entry[h]] = @ + 1]
      /\ HGoto(h, "idle")
      /\ UNCHANGED <<switch, admins, entry, target, requests, processors, timing>>

-----------------------------------------------------------------------------
(* The processor.  Each turn of its loop reads the channel field again.    *)

Listen(p) ==
  /\ ppc[p] = "select"
  /\ on' = [on EXCEPT ![p] = channel]
  /\ PGoto(p, "wait")
  /\ UNCHANGED <<switch, admins, handlers, got, owner, seen, buf, accepted, timing>>

Receive(p) ==
  LET c == on[p]
  IN  /\ ppc[p] = "wait"
      /\ \/ /\ buf[c] # <<>>
            /\ got' = [got EXCEPT ![p] = Head(buf[c])]
            /\ buf' = [buf EXCEPT ![c] = Tail(@)]
            /\ PGoto(p, "lookup")
         \/ /\ buf[c] = <<>> /\ c \in closed
            /\ PGoto(p, "gone")
            /\ UNCHANGED <<got, buf>>
      /\ UNCHANGED <<switch, admins, handlers, on, owner, seen, accepted, timing>>

(* The minute tick, when the snapshot step has passed.                     *)
Tick(p) ==
  /\ ppc[p] = "wait"
  /\ PGoto(p, "shift")
  /\ UNCHANGED <<switch, admins, handlers, on, got, owner, seen, buf, accepted, timing>>

(* Mutation: the counter is not reset with the snapshot. *)
ShiftedKeeping(st) ==
  LET h == <<st.current>> \o st.history
  IN  [st EXCEPT !.history = IF Len(h) > count THEN Front(h) ELSE h]

Shifted(st) ==
  LET h == <<st.current>> \o st.history
  IN  [overall |-> st.overall, current |-> 0,
       history |-> IF Len(h) > count THEN Front(h) ELSE h]

(* Mutation: the processor ends after a tick. *)
ShiftReturns(p) ==
  /\ ppc[p] = "shift" /\ mux = None
  /\ statistics' = IF statistics = None THEN None
                   ELSE [e \in Entry |-> IF statistics[e] = None THEN None
                                         ELSE Shifted(statistics[e])]
  /\ PGoto(p, "gone")
  /\ UNCHANGED <<collect, channel, closed, mux, admins, handlers, on, got, owner, seen,
                 buf, accepted, timing>>

(* doShiftStatistics, under the read lock. *)
Shift(p) ==
  /\ ppc[p] = "shift" /\ mux = None
  /\ statistics' = IF statistics = None THEN None
                   ELSE [e \in Entry |-> IF statistics[e] = None THEN None
                                         ELSE Shifted(statistics[e])]
  /\ PGoto(p, "select")
  /\ UNCHANGED <<collect, channel, closed, mux, admins, handlers, on, got, owner, seen,
                 buf, accepted, timing>>

(* doProcessQueryStatistics: looking under the read lock, a nil map being  *)
(* as good as an empty one, ...                                            *)
Known(e) == statistics # None /\ statistics[e] # None

(* Mutation: the first entry of a query only makes its statistic. *)
createOnly(p) ==
  /\ ppc[p] = "create" /\ mux = None
  /\ \/ statistics = None /\ mux' = Leaked /\ PGoto(p, "select") /\ UNCHANGED <<statistics, owner>>
     \/ /\ statistics # None
        /\ owner' = [owner EXCEPT ![p] = channel]
        /\ statistics' = IF Known(got[p]) THEN statistics
                         ELSE [statistics EXCEPT ![got[p]] = Zero]
        /\ PGoto(p, IF Known(got[p]) THEN "overall" ELSE "select")
        /\ UNCHANGED mux
  /\ UNCHANGED <<collect, channel, closed, admins, handlers, on, got, seen, buf, accepted, timing>>

lookForStatistics(p) ==
  /\ ppc[p] = "lookup" /\ mux = None
  /\ IF Known(got[p])
     THEN owner' = [owner EXCEPT ![p] = channel] /\ PGoto(p, "overall")
     ELSE UNCHANGED owner /\ PGoto(p, "create")
  /\ UNCHANGED <<switch, admins, handlers, on, got, seen, buf, accepted, timing>>

(* ... then, if nothing was there, again under the write lock.  Storing in *)
(* a nil map panics: recoverer keeps the processor alive, and the mutex,   *)
(* which no deferred call unlocks, stays locked.                           *)
createStatistics(p) ==
  /\ ppc[p] = "create" /\ mux = None
  /\ \/ statistics = None /\ mux' = Leaked /\ PGoto(p, "select") /\ UNCHANGED <<statistics, owner>>
     \/ /\ statistics # None
        /\ owner' = [owner EXCEPT ![p] = channel]
        /\ statistics' = IF Known(got[p]) THEN statistics
                         ELSE [statistics EXCEPT ![got[p]] = Zero]
        /\ PGoto(p, "overall")
        /\ UNCHANGED mux
  /\ UNCHANGED <<collect, channel, closed, admins, handlers, on, got, seen, buf, accepted, timing>>

(* update, of overall and then of current, without the mutex: the count is *)
(* read and then written.  A statistic of a map dropped since is garbage.  *)
Attached(p) == statistics # None /\ owner[p] = channel

ReadCount(p) ==
  /\ ppc[p] \in {"overall", "current"}
  /\ seen' = [seen EXCEPT ![p] = IF ~Attached(p) THEN 0
                                 ELSE IF ppc[p] = "overall" THEN statistics[got[p]].overall
                                 ELSE statistics[got[p]].current]
  /\ PGoto(p, IF ppc[p] = "overall" THEN "overall+" ELSE "current+")
  /\ UNCHANGED <<switch, admins, handlers, on, got, owner, buf, accepted, timing>>

WriteCount(p) ==
  /\ ppc[p] \in {"overall+", "current+"}
  /\ statistics' = IF ~Attached(p) THEN statistics
                   ELSE IF ppc[p] = "overall+"
                        THEN [statistics EXCEPT ![got[p]].overall = seen[p] + 1]
                        ELSE [statistics EXCEPT ![got[p]].current = seen[p] + 1]
  /\ PGoto(p, IF ppc[p] = "overall+" THEN "current" ELSE "select")
  /\ UNCHANGED <<collect, channel, closed, mux, admins, handlers, on, got, owner, seen,
                 buf, accepted, timing>>

-----------------------------------------------------------------------------
AdminStep(a) == Switch(a) \/ Open(a) \/ Close(a)

HandlerStep(h) == End(h) \/ Check(h) \/ Evaluate(h) \/ Send(h)

ProcessorStep(p) ==
  \/ Listen(p) \/ Receive(p) \/ Shift(p)
  \/ lookForStatistics(p) \/ createStatistics(p) \/ ReadCount(p) \/ WriteCount(p)

Next == \/ \E a \in Admin : AdminStep(a) \/ \E w \in Switches : Ask(a, w)
        \/ \E n \in Counts : SetCount(n)
        \/ \E h \in Handler : HandlerStep(h) \/ \E q \in Query : Begin(h, q)
        \/ \E p \in Processor : ProcessorStep(p) \/ Tick(p)

Spec == Init /\ [][Next]_vars

(* A goroutine that can run is run.  A processor that receives and ticks   *)
(* for ever takes both: select chooses fairly among what is ready.         *)
FairSpec ==
  /\ Spec
  /\ \A a \in Admin : WF_vars(AdminStep(a))
  /\ \A h \in Handler : WF_vars(HandlerStep(h))
  /\ \A p \in Processor : WF_vars(ProcessorStep(p)) /\ SF_vars(Receive(p))

-----------------------------------------------------------------------------
SwitchTypeOK ==
  /\ collect \in BOOLEAN
  /\ statistics \in {None} \cup [Entry -> Statistic \cup {None}]
  /\ channel \in 0..MaxOn
  /\ closed \subseteq Channel
  /\ mux \in Admin \cup {None, Leaked}
  /\ count \in Int
  /\ apc \in [Admin -> {"idle", "lock", "open", "close"}]
  /\ want \in [Admin -> BOOLEAN]

ChannelTypeOK ==
  /\ buf \in [Channel -> Seq(Entry)]
  /\ \A c \in Channel : Len(buf[c]) <= Cap
  /\ accepted \in [Entry -> Int]
  /\ requests \in 0..MaxRequests

HandlerTypeOK ==
  /\ hpc \in [Handler -> {"idle", "do", "check", "evaluate", "send"}]
  /\ entry \in [Handler -> Entry]
  /\ target \in [Handler -> 0..MaxOn]
  /\ \A h \in Handler : /\ hpc[h] = "evaluate" => channel # 0
                        /\ hpc[h] = "send" => target[h] # 0

ProcessorTypeOK ==
  /\ ppc \in [Processor -> {"none", "select", "wait", "shift", "lookup", "create", "overall",
                            "overall+", "current", "current+", "gone"}]
  /\ on \in [Processor -> 0..MaxOn]
  /\ got \in [Processor -> Entry]
  /\ owner \in [Processor -> 0..MaxOn]
  /\ seen \in [Processor -> Int]

TimingTypeOK == logLonger \in BOOLEAN /\ crossed \subseteq Handler /\ strayed \in BOOLEAN

TypeOK == TimingTypeOK /\ SwitchTypeOK /\ ChannelTypeOK /\ HandlerTypeOK /\ ProcessorTypeOK

(* A channel that is not closed always has its processor: one that waits   *)
(* on it, or that will turn to it when it has done what it is doing.       *)
Collecting == channel # 0 /\ channel \notin closed
Serves(p) == ppc[p] \notin {"none", "gone"} /\ (ppc[p] = "wait" => on[p] = channel)
Served == Collecting => \E p \in Processor : Serves(p)

(* The mutex can be lost only while collecting is off, so that no handler  *)
(* is ever left waiting on a channel nobody will empty.                    *)
LostOnlyWhenOff == mux = Leaked => ~collect /\ statistics = None /\ ~Collecting

(* Nobody who sends waits in vain: both of these.                          *)
KeepsServing == Served /\ LostOnlyWhenOff

(* Inductive: how the switch, the map, the channel and the mutex go        *)
(* together while no administrator is between two of its steps.            *)
SwitchInv ==
  /\ \A a \in Admin : apc[a] \in {"open", "close"} <=> mux = a
  /\ \A a \in Admin : apc[a] = "open" => collect /\ ~Collecting /\ channel < MaxOn
  /\ \A a \in Admin : apc[a] = "close" => ~collect /\ Collecting
  /\ mux \in {None, Leaked} => (collect <=> Collecting)
  /\ Collecting <=> statistics # None
  /\ mux = Leaked => ~collect
  /\ \A c \in closed : c <= channel

(* The map that a processor counts in, if it is still in use, has the       *)
(* statistic; the processor made with the channel outlives the channel.    *)
ProcessorInv ==
  /\ \A p \in Processor :
       ppc[p] \in {"overall", "overall+", "current", "current+"} /\ Attached(p) => Known(got[p])
  /\ \A p \in Processor : ppc[p] # "none" <=> p <= channel
  /\ \A p \in Processor : owner[p] <= channel
  /\ \A p \in Processor : ppc[p] = "wait" => p <= on[p] /\ on[p] <= channel
  /\ Collecting => ppc[channel] # "gone"

Inv == TypeOK /\ SwitchInv /\ ProcessorInv

(* An entry of the empty text, which nobody asked, is sent only for a      *)
(* request that began while collecting was off and slow requests were not  *)
(* logged, and that was under way when collecting was switched on; with the*)
(* log of slow requests there is none.                                     *)
StraysExplained ==
  /\ \A h \in Handler : hpc[h] \in {"check", "evaluate", "send"} /\ entry[h] = NoQuery =>
                         h \in crossed
  /\ Known(NoQuery) => strayed
  /\ strayed => ~logLonger

Sums(s) == LET up[n \in 0..Len(s)] == IF n = 0 THEN 0 ELSE up[n - 1] + s[n] IN up
Sum(s) == Sums(s)[Len(s)]
Having(e, places) == Cardinality({p \in Processor : got[p] = e /\ ppc[p] \in places})
Queued(e) == IF channel = 0 THEN 0
             ELSE Cardinality({i \in 1..Len(buf[channel]) : buf[channel][i] = e})
Counted(e) == IF Known(e) THEN statistics[e].overall ELSE 0

(* Until collecting is first switched off: no entry is lost or counted     *)
(* twice on the way from the handlers to the map, ...                      *)
NothingLost ==
  closed = {} => \A e \in Entry :
    accepted[e] = Queued(e) + Having(e, {"lookup", "create", "overall", "overall+"}) + Counted(e)

(* (and what nobody asked is there only for a stray), ...                  *)
CountedOnce == NothingLost /\ StraysExplained

(* ... and the snapshots of the history partition the overall count, but   *)
(* for those that left it when it was full: not before it was as long as   *)
(* one of the lengths it can be given.                                     *)
SnapshotsAddUp ==
  closed = {} => \A e \in Entry : Known(e) =>
    LET s == statistics[e]
        rest == s.overall - s.current - Sum(s.history) - Having(e, {"current", "current+"})
        short == \A n \in Counts \cup {DefaultCount} : Len(s.history) < n
    IN  rest >= 0 /\ (short => rest = 0)

(* Every request ends, whatever is switched meanwhile.                     *)
EveryRequestEnds == \A h \in Handler : hpc[h] # "idle" ~> hpc[h] = "idle"

(* Unless collecting is switched off, every entry put on the channel is    *)
(* counted in the end.                                                     *)
EveryEntryCounted ==
  \A e \in Entry : \A n \in 1..MaxRequests :
    accepted[e] >= n ~> Counted(e) >= n \/ closed # {}

(* "set or get options" (gql_statistics.go:451): the mutation answers.     *)
EverySwitchAnswered == \A a \in Admin : apc[a] = "lock" ~> apc[a] = "idle"
=============================================================================
