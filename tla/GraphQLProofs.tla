--------------------------- MODULE GraphQLProofs ---------------------------
(***************************************************************************)
(* For any number of handlers, administrators, queries and switches: an    *)
(* open channel has a processor, and the mutex is lost only while          *)
(* collecting is off.  Both follow from the inductive invariant Inv.       *)
(* Until collecting is first switched off every entry is counted once, and *)
(* the snapshots add up (CountInv); only a request that was not timed and  *)
(* met a switching on counts for the empty text (StrayInv).                *)
(*                                                                         *)
(* For any types of a project: each is made once for the schema, and what  *)
(* the generators and their callers do ends well unless the types are of   *)
(* each other in a circle or a query breaks a rule (SchemaInv).  And for   *)
(* any types of a client: its queries select what the schema answers and   *)
(* its types promise (SelectionInv).                                       *)
(***************************************************************************)
EXTENDS GQLStatistics, GQLSchema, JSQueries, FiniteSetTheorems, FunctionTheorems,
        WellFoundedInduction, TLAPS

LEMMA ChannelType == Channel = Processor /\ \A c \in 0..MaxOn : c # 0 => c \in Channel
BY BoundAssumption DEF Channel, Processor

LEMMA ZeroType == Zero \in Statistic
BY DEF Zero, Statistic

LEMMA ShiftedType == ASSUME NEW st \in Statistic, count \in Int PROVE Shifted(st) \in Statistic
<1> DEFINE h == <<st.current>> \o st.history
<1>1. h \in Seq(Int) /\ Len(h) >= 1
  BY DEF Statistic
<1>2. Front(h) \in Seq(Int)
  <2>1. \A i \in 1..(Len(h) - 1) : h[i] \in Int
    BY <1>1
  <2> HIDE DEF h
  <2> QED
    BY <1>1, <2>1 DEF Front
<1>3. (IF Len(h) > count THEN Front(h) ELSE h) \in Seq(Int)
  BY <1>1, <1>2
<1>4. Shifted(st) = [overall |-> st.overall, current |-> 0,
                     history |-> IF Len(h) > count THEN Front(h) ELSE h]
  BY DEF Shifted, Statistic
<1> HIDE DEF h
<1>5. st.overall \in Int
  BY DEF Statistic
<1> QED
  BY <1>3, <1>4, <1>5 DEF Statistic

(* What the steps that touch the map make of it: the map stays a map, and  *)
(* a query that has a statistic keeps it.                                  *)
KeepsMap ==
  /\ statistics' \in {None} \cup [Entry -> Statistic \cup {None}]
  /\ statistics' = None <=> statistics = None
  /\ \A e \in Entry : Known(e) => Known(e)'

LEMMA SameMap == SwitchTypeOK /\ UNCHANGED statistics => KeepsMap
BY DEF SwitchTypeOK, KeepsMap, Known

LEMMA NoneMap ==
  /\ None \notin Statistic
  /\ \A f \in [Entry -> Statistic \cup {None}] : f # None
BY NameAssumption

LEMMA ShiftMap == ASSUME Inv, NEW p \in Processor, Shift(p) PROVE KeepsMap
<1> USE DEF Inv, TypeOK, SwitchTypeOK
<1>1. CASE statistics = None
  BY <1>1 DEF Shift, KeepsMap, Known
<1>2. CASE statistics # None
  <2> DEFINE f == [e \in Entry |-> IF statistics[e] = None THEN None ELSE Shifted(statistics[e])]
  <2>1. \A e \in Entry : statistics[e] # None => Shifted(statistics[e]) \in Statistic
    BY <1>2, ShiftedType
  <2>2. f \in [Entry -> Statistic \cup {None}]
    BY <2>1
  <2>3. statistics' = f
    BY <1>2 DEF Shift
  <2>4. \A e \in Entry : statistics[e] # None => f[e] # None
    BY <2>1, NoneMap
  <2> HIDE DEF f
  <2> QED
    BY <1>2, <2>2, <2>3, <2>4, NoneMap DEF KeepsMap, Known
<1> QED
  BY <1>1, <1>2

LEMMA CreateMap ==
  ASSUME Inv, NEW p \in Processor, createStatistics(p)
  PROVE  KeepsMap /\ (statistics # None => Known(got[p])')
<1> USE DEF Inv, TypeOK, SwitchTypeOK
<1>0. got[p] \in Entry
  BY DEF ProcessorTypeOK
<1>1. CASE statistics' = statistics
  <2>1. statistics # None => statistics[got[p]] # None
    <3>1. ASSUME statistics # None, statistics[got[p]] = None PROVE FALSE
      <4>1. statistics' = [statistics EXCEPT ![got[p]] = Zero]
        BY <3>1 DEF createStatistics, Known
      <4>2. statistics'[got[p]] = Zero
        BY <4>1, <3>1, <1>0
      <4> QED
        BY <4>2, <3>1, <1>1, ZeroType, NoneMap
    <3> QED
      BY <3>1
  <2> QED
    BY <1>1, <2>1, SameMap DEF Known, KeepsMap, createStatistics
<1>2. CASE statistics # None /\ statistics' = [statistics EXCEPT ![got[p]] = Zero]
  <2>1. statistics' \in [Entry -> Statistic \cup {None}]
    BY <1>2, ZeroType, <1>0
  <2>2. \A e \in Entry : statistics'[e] = IF e = got[p] THEN Zero ELSE statistics[e]
    BY <1>2, <1>0
  <2>3. Known(got[p])'
    BY <2>1, <2>2, <1>0, NoneMap, ZeroType DEF Known, createStatistics
  <2> QED
    BY <1>2, <2>1, <2>2, <2>3, NoneMap, ZeroType DEF KeepsMap, Known
<1> QED
  BY <1>1, <1>2 DEF createStatistics

LEMMA WriteMap == ASSUME Inv, NEW p \in Processor, WriteCount(p) PROVE KeepsMap
<1> USE DEF Inv, TypeOK, SwitchTypeOK
<1>0. got[p] \in Entry /\ seen[p] + 1 \in Int
  BY DEF ProcessorTypeOK
<1>1. CASE ~Attached(p)
  BY <1>1, SameMap DEF WriteCount
<1>2. CASE Attached(p)
  <2>1. statistics \in [Entry -> Statistic \cup {None}] /\ statistics[got[p]] \in Statistic
    BY <1>2, <1>0 DEF Attached, ProcessorInv, Known, WriteCount
  <2> DEFINE s == statistics[got[p]]
             t == IF ppc[p] = "overall+" THEN [s EXCEPT !.overall = seen[p] + 1]
                                         ELSE [s EXCEPT !.current = seen[p] + 1]
  <2>2. statistics' = [statistics EXCEPT ![got[p]] = t]
    BY <1>2 DEF WriteCount
  <2>3. t \in Statistic
    BY <2>1, <1>0 DEF Statistic
  <2> HIDE DEF s, t
  <2>4. statistics' \in [Entry -> Statistic \cup {None}]
    BY <2>1, <2>2, <2>3, <1>0
  <2>5. \A e \in Entry : statistics'[e] = IF e = got[p] THEN t ELSE statistics[e]
    BY <2>1, <2>2, <1>0
  <2> QED
    BY <2>1, <2>3, <2>4, <2>5, NoneMap DEF KeepsMap, Known
<1> QED
  BY <1>1, <1>2

-----------------------------------------------------------------------------
(* The types, one group of variables at a time. *)

(* Every step that is not about the map leaves it alone.                   *)
LEMMA MapNext == Inv /\ Next /\ ~(\E a \in Admin : Open(a) \/ Close(a)) => KeepsMap
<1> SUFFICES ASSUME Inv, Next, ~(\E a \in Admin : Open(a) \/ Close(a)) PROVE KeepsMap
  OBVIOUS
<1>1. CASE \E p \in Processor : Shift(p)
  BY <1>1, ShiftMap
<1>2. CASE \E p \in Processor : createStatistics(p)
  BY <1>2, CreateMap
<1>3. CASE \E p \in Processor : WriteCount(p)
  BY <1>3, WriteMap
<1>4. CASE UNCHANGED statistics
  BY <1>4, SameMap DEF Inv, TypeOK
<1> QED
  BY <1>1, <1>2, <1>3, <1>4
  DEF Next, AdminStep, HandlerStep, ProcessorStep, Switch, Ask, SetCount, Begin, End, Check,
      Evaluate, Send, Listen, Receive, Tick, lookForStatistics, ReadCount, switch

LEMMA SwitchType == Inv /\ Next => SwitchTypeOK'
<1> SUFFICES ASSUME Inv, Next PROVE SwitchTypeOK'
  OBVIOUS
<1> USE DEF Inv, TypeOK, SwitchTypeOK, AGoto
<1>m. ~(\E a \in Admin : Open(a) \/ Close(a)) =>
         statistics' \in {None} \cup [Entry -> Statistic \cup {None}]
  BY MapNext DEF KeepsMap
<1>1. ASSUME NEW a \in Admin, Switch(a) PROVE SwitchTypeOK'
  BY <1>1 DEF Switch
<1>2. ASSUME NEW a \in Admin, Open(a) PROVE SwitchTypeOK'
  <2>1. channel' \in 0..MaxOn
    BY <1>2, BoundAssumption DEF Open, SwitchInv
  <2>2. statistics' \in [Entry -> Statistic \cup {None}]
    BY <1>2 DEF Open
  <2> QED
    BY <1>2, <2>1, <2>2 DEF Open
<1>3. ASSUME NEW a \in Admin, Close(a) PROVE SwitchTypeOK'
  <2>1. channel \in Channel
    BY <1>3, ChannelType DEF Close, SwitchInv, Collecting
  <2> QED
    BY <1>3, <2>1 DEF Close
<1>4. ASSUME NEW a \in Admin, NEW w \in Switches, Ask(a, w) PROVE SwitchTypeOK'
  BY <1>4, OptionAssumption DEF Ask, switch
<1>5. ASSUME NEW n \in Counts, SetCount(n) PROVE SwitchTypeOK'
  BY <1>5, OptionAssumption DEF SetCount, switch
<1>6. ASSUME NEW p \in Processor, createStatistics(p) PROVE SwitchTypeOK'
  <2>1. statistics' \in {None} \cup [Entry -> Statistic \cup {None}]
    BY <1>6, CreateMap DEF KeepsMap
  <2> QED
    BY <1>6, <2>1 DEF createStatistics, admins
<1>7. ASSUME NEW p \in Processor, Shift(p) \/ WriteCount(p) PROVE SwitchTypeOK'
  <2>1. statistics' \in {None} \cup [Entry -> Statistic \cup {None}]
    BY <1>7, ShiftMap, WriteMap DEF KeepsMap
  <2> QED
    BY <1>7, <2>1 DEF Shift, WriteCount, admins
<1>8. CASE UNCHANGED <<switch, admins>>
  BY <1>8 DEF switch, admins
<1> QED
  BY <1>1, <1>2, <1>3, <1>4, <1>5, <1>6, <1>7, <1>8
  DEF Next, AdminStep, HandlerStep, ProcessorStep, Begin, End, Check, Evaluate, Send,
      Listen, Receive, Tick, lookForStatistics, ReadCount

LEMMA ChannelsType == Inv /\ Next => ChannelTypeOK'
<1> SUFFICES ASSUME Inv, Next PROVE ChannelTypeOK'
  OBVIOUS
<1> USE DEF Inv, TypeOK, ChannelTypeOK
<1>1. ASSUME NEW h \in Handler, Send(h) PROVE ChannelTypeOK'
  <2>0. target[h] \in Channel /\ entry[h] \in Entry
    BY <1>1, ChannelType DEF Send, HandlerTypeOK
  <2>1. CASE UNCHANGED <<buf, accepted>>
    BY <1>1, <2>1 DEF Send, handlers
  <2>2. CASE /\ Room(target[h])
             /\ buf' = [buf EXCEPT ![target[h]] = Append(@, entry[h])]
             /\ accepted' = [accepted EXCEPT ![entry[h]] = @ + 1]
    <3>1. accepted' \in [Entry -> Int]
      BY <2>0, <2>2
    <3>2. Append(buf[target[h]], entry[h]) \in Seq(Entry) /\
          Len(Append(buf[target[h]], entry[h])) <= Cap
      BY <2>0, <2>2, CapAssumption DEF Room
    <3> QED
      BY <1>1, <2>0, <2>2, <3>1, <3>2 DEF Send, handlers
  <2> QED
    BY <1>1, <2>1, <2>2 DEF Send
<1>2. ASSUME NEW p \in Processor, Receive(p) PROVE ChannelTypeOK'
  <2>0. on[p] \in Channel
    <3>1. on[p] # 0
      BY <1>2 DEF Receive, ProcessorInv, Processor, Channel, ProcessorTypeOK
    <3> QED
      BY <3>1, ChannelType DEF ProcessorTypeOK
  <2>1. CASE UNCHANGED buf
    BY <1>2, <2>1 DEF Receive, handlers
  <2>2. CASE buf[on[p]] # <<>> /\ buf' = [buf EXCEPT ![on[p]] = Tail(@)]
    <3>1. Tail(buf[on[p]]) \in Seq(Entry) /\ Len(Tail(buf[on[p]])) <= Cap
      BY <2>0, <2>2, CapAssumption
    <3> QED
      BY <1>2, <2>0, <2>2, <3>1 DEF Receive, handlers
  <2> QED
    BY <1>2, <2>1, <2>2 DEF Receive
<1>3. ASSUME NEW h \in Handler, NEW q \in Query, Begin(h, q) PROVE ChannelTypeOK'
  BY <1>3, BoundAssumption DEF Begin
<1>4. CASE UNCHANGED <<buf, accepted, requests>>
  BY <1>4
<1> QED
  BY <1>1, <1>2, <1>3, <1>4
  DEF Next, AdminStep, HandlerStep, ProcessorStep, Switch, Open, Close, Ask, SetCount, End,
      Check, Evaluate, Listen, Tick, Shift, lookForStatistics, createStatistics, ReadCount,
      WriteCount, handlers

(* The channel field is never set back to nil. *)
LEMMA ChannelStays == Inv /\ Next => channel' >= channel /\ channel' \in Nat /\ channel \in Nat
<1> SUFFICES ASSUME Inv, Next PROVE channel' >= channel /\ channel' \in Nat /\ channel \in Nat
  OBVIOUS
<1>0. channel \in Nat
  BY BoundAssumption DEF Inv, TypeOK, SwitchTypeOK
<1>1. CASE UNCHANGED channel
  BY <1>0, <1>1
<1>2. CASE channel' = channel + 1
  BY <1>0, <1>2
<1> QED
  BY <1>1, <1>2
  DEF Next, AdminStep, HandlerStep, ProcessorStep, Switch, Open, Close, Ask, SetCount, Begin,
      End, Check, Evaluate, Send, Listen, Receive, Tick, Shift, lookForStatistics,
      createStatistics, ReadCount, WriteCount, switch

LEMMA HandlerType == Inv /\ Next => HandlerTypeOK'
<1> SUFFICES ASSUME Inv, Next PROVE HandlerTypeOK'
  OBVIOUS
<1> USE DEF Inv, TypeOK, HandlerTypeOK, HGoto
<1>c. channel # 0 => channel' # 0
  BY ChannelStays
<1>1. ASSUME NEW h \in Handler, NEW q \in Query, Begin(h, q) PROVE HandlerTypeOK'
  BY <1>1, <1>c DEF Begin, Entry
<1>2. ASSUME NEW h \in Handler, HandlerStep(h) PROVE HandlerTypeOK'
  <2>1. CASE End(h)
    BY <2>1, <1>c DEF End
  <2>2. CASE Check(h)
    BY <2>2, <1>c DEF Check, Room, switch
  <2>3. CASE Evaluate(h)
    BY <2>3, <1>c DEF Evaluate, SwitchTypeOK
  <2>4. CASE Send(h)
    BY <2>4, <1>c DEF Send
  <2> QED
    BY <1>2, <2>1, <2>2, <2>3, <2>4 DEF HandlerStep
<1>3. CASE UNCHANGED handlers
  BY <1>3, <1>c DEF handlers
<1> QED
  BY <1>1, <1>2, <1>3
  DEF Next, AdminStep, ProcessorStep, Switch, Open, Close, Ask, SetCount, Listen, Receive,
      Tick, Shift, lookForStatistics, createStatistics, ReadCount, WriteCount

LEMMA ProcessorType == Inv /\ Next => ProcessorTypeOK'
<1> SUFFICES ASSUME Inv, Next PROVE ProcessorTypeOK'
  OBVIOUS
<1> USE DEF Inv, TypeOK, ProcessorTypeOK, PGoto
<1>1. ASSUME NEW a \in Admin, Open(a) PROVE ProcessorTypeOK'
  BY <1>1 DEF Open
<1>2. ASSUME NEW p \in Processor, ProcessorStep(p) \/ Tick(p) PROVE ProcessorTypeOK'
  <2>1. CASE Listen(p)
    BY <2>1 DEF Listen, SwitchTypeOK
  <2>2. CASE Receive(p)
    <3>1. buf[on[p]] # <<>> => Head(buf[on[p]]) \in Entry
      <4>1. on[p] \in Channel
        BY <2>2, ChannelType DEF Receive, ProcessorInv, Processor, Channel
      <4> QED
        BY <4>1 DEF ChannelTypeOK
    <3> QED
      BY <2>2, <3>1 DEF Receive
  <2>3. CASE Shift(p) \/ Tick(p)
    BY <2>3 DEF Shift, Tick
  <2>4. CASE lookForStatistics(p)
    BY <2>4 DEF lookForStatistics, SwitchTypeOK
  <2>5. CASE createStatistics(p)
    BY <2>5 DEF createStatistics, SwitchTypeOK
  <2>6. CASE ReadCount(p)
    <3>1. Attached(p) => statistics[got[p]] \in Statistic
      BY <2>6 DEF ReadCount, Attached, ProcessorInv, Known, SwitchTypeOK
    <3>2. seen' \in [Processor -> Int]
      BY <2>6, <3>1 DEF ReadCount, Statistic
    <3> QED
      BY <2>6, <3>2 DEF ReadCount
  <2>7. CASE WriteCount(p)
    BY <2>7 DEF WriteCount
  <2> QED
    BY <1>2, <2>1, <2>2, <2>3, <2>4, <2>5, <2>6, <2>7 DEF ProcessorStep
<1>3. CASE UNCHANGED processors
  BY <1>3 DEF processors
<1> QED
  BY <1>1, <1>2, <1>3
  DEF Next, AdminStep, HandlerStep, Switch, Close, Ask, SetCount, Begin, End, Check,
      Evaluate, Send

LEMMA TimingType == Inv /\ Next => TimingTypeOK'
<1> SUFFICES ASSUME Inv, Next PROVE TimingTypeOK'
  OBVIOUS
<1> USE DEF Inv, TypeOK, TimingTypeOK
<1>1. ASSUME NEW a \in Admin, Switch(a) PROVE TimingTypeOK'
  <2>1. logLonger' \in BOOLEAN /\ crossed' \subseteq Handler
    BY <1>1 DEF Switch, Untimed
  <2>2. strayed' \in BOOLEAN
    BY <1>1 DEF Switch
  <2> QED
    BY <2>1, <2>2
<1>2. ASSUME NEW h \in Handler, NEW q \in Query, Begin(h, q) PROVE TimingTypeOK'
  BY <1>2 DEF Begin
<1>3. CASE UNCHANGED timing
  BY <1>3 DEF timing
<1> QED
  BY <1>1, <1>2, <1>3
  DEF Next, AdminStep, HandlerStep, ProcessorStep, Open, Close, Ask, SetCount, End, Check,
      Evaluate, Send, Listen, Receive, Tick, Shift, lookForStatistics, createStatistics,
      ReadCount, WriteCount

-----------------------------------------------------------------------------
(* The switch, the map, the channel and the mutex go together. *)

LEMMA SwitchStep == Inv /\ Next => SwitchInv'
<1> SUFFICES ASSUME Inv, Next PROVE SwitchInv'
  OBVIOUS
<1> USE NameAssumption DEF Inv, TypeOK, SwitchTypeOK, SwitchInv, Collecting
<1>0. channel \in Nat
  BY BoundAssumption
<1>1. ASSUME NEW a \in Admin, Switch(a) PROVE SwitchInv'
  BY <1>1 DEF Switch, AGoto
<1>2. ASSUME NEW a \in Admin, Open(a) PROVE SwitchInv'
  <2>1. statistics' # None
    BY <1>2, NoneMap DEF Open
  <2>2. channel' = channel + 1 /\ closed' = closed /\ channel' \notin closed
    BY <1>2, <1>0 DEF Open, Channel
  <2>3. mux = a /\ mux' = None /\ apc' = [apc EXCEPT ![a] = "idle"] /\ collect' = collect
    BY <1>2 DEF Open, AGoto
  <2>4. \A c \in closed' : c <= channel'
    BY <2>2, <1>0 DEF Channel
  <2> QED
    BY <1>0, <1>2, <2>1, <2>2, <2>3, <2>4 DEF Open
<1>3. ASSUME NEW a \in Admin, Close(a) PROVE SwitchInv'
  BY <1>0, <1>3 DEF Close, AGoto
<1>4. ASSUME NEW a \in Admin, NEW w \in Switches, Ask(a, w) PROVE SwitchInv'
  BY <1>4 DEF Ask, AGoto, switch
<1>5. ASSUME NEW p \in Processor, createStatistics(p) PROVE SwitchInv'
  <2>1. statistics' = None <=> statistics = None
    BY <1>5, CreateMap DEF KeepsMap
  <2> QED
    BY <1>5, <2>1 DEF createStatistics, admins
<1>6. ASSUME NEW p \in Processor, Shift(p) \/ WriteCount(p) PROVE SwitchInv'
  <2>1. statistics' = None <=> statistics = None
    BY <1>6, ShiftMap, WriteMap DEF KeepsMap
  <2> QED
    BY <1>6, <2>1 DEF Shift, WriteCount, admins
<1>7. CASE UNCHANGED <<switch, apc>>
  BY <1>7 DEF switch
<1> QED
  BY <1>1, <1>2, <1>3, <1>4, <1>5, <1>6, <1>7
  DEF Next, AdminStep, HandlerStep, ProcessorStep, SetCount, Begin, End, Check, Evaluate,
      Send, Listen, Receive, Tick, lookForStatistics, ReadCount, admins

(* A step of one processor, in which the map keeps what it has.            *)
LEMMA OneMoves ==
  ASSUME Inv, KeepsMap, UNCHANGED <<channel, closed>>, NEW p \in Processor,
         \A r \in Processor : r # p => /\ ppc'[r] = ppc[r] /\ on'[r] = on[r]
                                       /\ got'[r] = got[r] /\ owner'[r] = owner[r],
         ppc[p] # "none", ppc'[p] \notin {"none", "gone"},
         owner'[p] <= channel,
         ppc'[p] = "wait" => p <= on'[p] /\ on'[p] <= channel,
         ppc'[p] \in {"overall", "overall+", "current", "current+"} /\ Attached(p)' => Known(got[p])',
         got'[p] = got[p]
  PROVE  ProcessorInv'
<1> USE DEF Inv, TypeOK, ProcessorTypeOK, ProcessorInv
<1>1. \A r \in Processor :
        ppc'[r] \in {"overall", "overall+", "current", "current+"} /\ Attached(r)' => Known(got[r])'
  <2> SUFFICES ASSUME NEW r \in Processor, r # p, Attached(r)',
                      ppc'[r] \in {"overall", "overall+", "current", "current+"}
               PROVE  Known(got[r])'
    OBVIOUS
  <2>1. Attached(r)
    BY DEF Attached, KeepsMap
  <2>2. Known(got[r]) /\ got[r] \in Entry
    BY <2>1
  <2> QED
    BY <2>2 DEF KeepsMap, Known
<1>2. \A r \in Processor : (ppc'[r] # "none" <=> r <= channel') /\ owner'[r] <= channel'
  OBVIOUS
<1>3. \A r \in Processor : ppc'[r] = "wait" => r <= on'[r] /\ on'[r] <= channel'
  OBVIOUS
<1>4. Collecting' => ppc'[channel'] # "gone"
  <2>1. Collecting => channel \in Processor
    BY BoundAssumption DEF Collecting, SwitchTypeOK, Processor, Channel
  <2> QED
    BY <2>1 DEF Collecting
<1> QED
  BY <1>1, <1>2, <1>3, <1>4

LEMMA ProcessorMove == Inv /\ Next => ProcessorInv'
<1> SUFFICES ASSUME Inv, Next PROVE ProcessorInv'
  OBVIOUS
<1> USE DEF Inv, TypeOK, SwitchTypeOK, ProcessorTypeOK, ProcessorInv, PGoto, Collecting
<1>0. channel \in Nat /\ Processor \subseteq Nat
  BY BoundAssumption DEF Processor, Channel
<1>1. ASSUME NEW a \in Admin, Open(a) PROVE ProcessorInv'
  <2>1. channel' = channel + 1 /\ channel' \in Processor /\ closed' = closed
    BY <1>0, <1>1, BoundAssumption DEF Open, SwitchInv, Processor, Channel
  <2>2. ppc' = [ppc EXCEPT ![channel'] = "select"] /\ UNCHANGED <<on, got, owner>>
    BY <1>1 DEF Open
  <2>3. \A p \in Processor : owner[p] # channel'
    BY <1>0, <2>1
  <2>4. \A p \in Processor : ~Attached(p)'
    BY <2>2, <2>3 DEF Attached
  <2>5. \A p \in Processor : ppc'[p] # "none" <=> p <= channel'
    BY <1>0, <2>1, <2>2
  <2>6. \A p \in Processor : owner'[p] <= channel'
    BY <1>0, <2>1, <2>2
  <2>7. \A p \in Processor : ppc'[p] = "wait" => p <= on'[p] /\ on'[p] <= channel'
    BY <1>0, <2>1, <2>2
  <2>8. ppc'[channel'] = "select"
    BY <2>1, <2>2
  <2> QED
    BY <2>4, <2>5, <2>6, <2>7, <2>8
<1>2. ASSUME NEW a \in Admin, Close(a) PROVE ProcessorInv'
  BY <1>2 DEF Close, processors, Attached
<1>3. ASSUME UNCHANGED <<channel, closed>>, KeepsMap, UNCHANGED processors PROVE ProcessorInv'
  BY <1>3 DEF KeepsMap, processors, Attached
<1>4. ASSUME NEW p \in Processor, Listen(p) \/ Tick(p) PROVE ProcessorInv'
  <2>1. KeepsMap
    BY <1>4, SameMap DEF Listen, Tick, switch
  <2>2. ppc'[p] \in {"wait", "shift"} /\ (ppc'[p] = "wait" => on'[p] = channel)
    BY <1>4 DEF Listen, Tick
  <2>3. p <= channel /\ owner'[p] <= channel /\ ppc[p] # "none"
    BY <1>4 DEF Listen, Tick
  <2>4. \A r \in Processor : r # p => ppc'[r] = ppc[r] /\ on'[r] = on[r]
    BY <1>4 DEF Listen, Tick
  <2> QED
    BY <1>0, <1>4, <2>1, <2>2, <2>3, <2>4, OneMoves DEF Listen, Tick, switch
<1>5. ASSUME NEW p \in Processor, Receive(p) PROVE ProcessorInv'
  <2>1. UNCHANGED <<channel, closed, statistics, on, owner>>
    BY <1>5 DEF Receive, switch
  <2>2. ppc' = [ppc EXCEPT ![p] = "lookup"] \/ ppc' = [ppc EXCEPT ![p] = "gone"]
    BY <1>5 DEF Receive
  <2>3. \A r \in Processor : r # p => got'[r] = got[r]
    BY <1>5 DEF Receive
  <2>4. Collecting' => ppc'[channel'] # "gone"
    <3>1. ASSUME Collecting, p = channel, ppc' = [ppc EXCEPT ![p] = "gone"] PROVE FALSE
      <4>1. on[p] = channel
        BY <1>0, <1>5, <3>1 DEF Receive
      <4>2. on[p] \in closed
        <5>1. ppc'[p] = "gone"
          BY <3>1
        <5> QED
          BY <5>1, <1>5 DEF Receive
      <4> QED
        BY <4>1, <4>2, <3>1
    <3>2. Collecting => channel \in Processor
      BY BoundAssumption DEF Processor, Channel
    <3> QED
      BY <3>1, <3>2, <2>1, <2>2
  <2>5. \A r \in Processor : ppc'[r] \in {"overall", "overall+", "current", "current+"} =>
                                r # p /\ ppc'[r] = ppc[r]
    BY <2>2
  <2>6. \A r \in Processor :
          ppc'[r] \in {"overall", "overall+", "current", "current+"} /\ Attached(r)' =>
             Known(got[r])'
    BY <2>1, <2>3, <2>5 DEF Attached, Known
  <2>7. \A r \in Processor : (ppc'[r] = "none" <=> ppc[r] = "none") /\ (ppc'[r] = "wait" => ppc[r] = "wait")
    BY <2>2, <1>5 DEF Receive
  <2> QED
    BY <2>1, <2>4, <2>6, <2>7
<1>6. ASSUME NEW p \in Processor, lookForStatistics(p) PROVE ProcessorInv'
  <2>1. KeepsMap
    BY <1>6, SameMap DEF lookForStatistics, switch
  <2>2. ppc'[p] = "overall" => Known(got[p])'
    BY <1>6 DEF lookForStatistics, Known, switch
  <2>3. ppc'[p] \in {"overall", "create"} /\ ppc[p] # "none" /\ owner'[p] <= channel
    BY <1>0, <1>6 DEF lookForStatistics
  <2>4. \A r \in Processor : r # p => ppc'[r] = ppc[r] /\ owner'[r] = owner[r]
    BY <1>6 DEF lookForStatistics
  <2> QED
    BY <1>6, <2>1, <2>2, <2>3, <2>4, OneMoves DEF lookForStatistics, switch
<1>7. ASSUME NEW p \in Processor, createStatistics(p) PROVE ProcessorInv'
  <2>1. KeepsMap /\ (statistics # None => Known(got[p])')
    BY <1>7, CreateMap
  <2>2. ppc'[p] = "overall" => statistics # None
    BY <1>7 DEF createStatistics
  <2>3. ppc'[p] \in {"overall", "select"} /\ ppc[p] # "none" /\ owner'[p] <= channel
    BY <1>0, <1>7 DEF createStatistics
  <2>4. \A r \in Processor : r # p => ppc'[r] = ppc[r] /\ owner'[r] = owner[r]
    BY <1>7 DEF createStatistics
  <2> QED
    BY <1>7, <2>1, <2>2, <2>3, <2>4, OneMoves DEF createStatistics
<1>8. ASSUME NEW p \in Processor, Shift(p) \/ WriteCount(p) PROVE ProcessorInv'
  <2>1. KeepsMap
    BY <1>8, ShiftMap, WriteMap
  <2>2. ppc[p] # "none" /\ ppc'[p] \in {"select", "current"} /\ owner'[p] <= channel
    BY <1>8 DEF Shift, WriteCount
  <2>3. ppc'[p] = "current" /\ Attached(p)' => Known(got[p])'
    <3>1. ASSUME ppc'[p] = "current", Attached(p)' PROVE Known(got[p])'
      <4>1. ppc[p] = "overall+" /\ UNCHANGED <<channel, got, owner>>
        BY <1>8, <3>1 DEF Shift, WriteCount
      <4>2. Attached(p)
        BY <2>1, <3>1, <4>1 DEF Attached, KeepsMap
      <4> QED
        BY <2>1, <4>1, <4>2 DEF KeepsMap, Known
    <3> QED
      BY <3>1
  <2>4. \A r \in Processor : r # p => ppc'[r] = ppc[r]
    BY <1>8 DEF Shift, WriteCount
  <2> QED
    BY <1>8, <2>1, <2>2, <2>3, <2>4, OneMoves DEF Shift, WriteCount
<1>9. ASSUME NEW p \in Processor, ReadCount(p) PROVE ProcessorInv'
  BY <1>9 DEF ReadCount, Attached, Known, switch
<1>10. \/ \E a \in Admin : Open(a) \/ Close(a)
       \/ \E p \in Processor : ProcessorStep(p) \/ Tick(p)
       \/ UNCHANGED <<channel, closed>> /\ UNCHANGED statistics /\ UNCHANGED processors
  BY DEF Next, AdminStep, HandlerStep, Switch, Ask, SetCount, Begin, End, Check, Evaluate,
         Send, switch
<1> QED
  BY <1>1, <1>2, <1>3, <1>4, <1>5, <1>6, <1>7, <1>8, <1>9, <1>10, SameMap DEF ProcessorStep

-----------------------------------------------------------------------------
LEMMA InvInit == Init => Inv
<1> SUFFICES ASSUME Init PROVE Inv
  OBVIOUS
<1> USE NameAssumption, OptionAssumption, BoundAssumption, CapAssumption
<1>0. 0 \in 0..MaxOn /\ NoQuery \in Entry
  BY DEF Entry
<1>6. TimingTypeOK
  BY DEF Init, TimingTypeOK
<1>1. SwitchTypeOK /\ HandlerTypeOK
  BY <1>0 DEF Init, SwitchTypeOK, HandlerTypeOK
<1>5. ProcessorTypeOK
  BY <1>0 DEF Init, ProcessorTypeOK
<1>2. ChannelTypeOK
  BY DEF Init, ChannelTypeOK
<1>3. SwitchInv
  BY DEF Init, SwitchInv, Collecting
<1>4. ProcessorInv
  BY DEF Init, ProcessorInv, Collecting, Processor, Channel
<1> QED
  BY <1>1, <1>2, <1>3, <1>4, <1>5, <1>6 DEF Inv, TypeOK

LEMMA InvNext == Inv /\ [Next]_vars => Inv'
<1> SUFFICES ASSUME Inv, [Next]_vars PROVE Inv'
  OBVIOUS
<1>1. CASE Next
  BY <1>1, TimingType, SwitchType, ChannelsType, HandlerType, ProcessorType, SwitchStep, ProcessorMove
  DEF Inv, TypeOK
<1>2. CASE UNCHANGED vars
  BY <1>2
  DEF Inv, TypeOK, TimingTypeOK, SwitchTypeOK, ChannelTypeOK, HandlerTypeOK, ProcessorTypeOK,
      SwitchInv, ProcessorInv, Collecting, Attached, Known, vars, switch, admins, handlers,
      processors, timing
<1> QED
  BY <1>1, <1>2

(* The inductive invariant: types, the switch with what it switches, and   *)
(* the processors with their channels (CollectStatistics and               *)
(* statisticsProcessor).                                                   *)
THEOREM Invariance == Spec => []Inv
<1> QED
  BY InvInit, InvNext, PTL DEF Spec

(* Types hold, whatever number of goroutines: no channel holds more than   *)
(* its capacity and no handler sends on a nil channel                      *)
(* (collectQueryStatistics), which would block it for ever.                *)
THEOREM TypeCorrect == Spec => []TypeOK
<1>1. Inv => TypeOK
  BY DEF Inv
<1> QED
  BY <1>1, Invariance, PTL

(* A channel that is open always has a processor that serves it, however   *)
(* quickly collecting was switched off and on (statisticsProcessor, which  *)
(* reads the channel field again every turn).                              *)
THEOREM AlwaysServed == Spec => []Served
<1>1. Inv => Served
  <2> SUFFICES ASSUME Inv, Collecting PROVE \E p \in Processor : Serves(p)
    BY DEF Served
  <2>1. channel \in Processor /\ channel \in Nat
    BY BoundAssumption DEF Inv, TypeOK, SwitchTypeOK, Collecting, Processor, Channel
  <2>2. ppc[channel] # "none" /\ ppc[channel] # "gone"
    BY <2>1 DEF Inv, ProcessorInv
  <2>3. ppc[channel] = "wait" => on[channel] = channel
    BY <2>1, BoundAssumption DEF Inv, TypeOK, ProcessorTypeOK, ProcessorInv
  <2> QED
    BY <2>1, <2>2, <2>3 DEF Serves
<1> QED
  BY <1>1, Invariance, PTL

(* The panic of a store into the nil map (doProcessQueryStatistics) locks  *)
(* the mutex for ever only when collecting is off, so that nobody is left  *)
(* to send to a processor that cannot go on.                               *)
THEOREM MutexLostOnlyWhenOff == Spec => []LostOnlyWhenOff
<1>1. Inv => LostOnlyWhenOff
  BY DEF Inv, SwitchInv, LostOnlyWhenOff
<1> QED
  BY <1>1, Invariance, PTL

(* Switching collecting on and off, in whatever order and however often,   *)
(* leaves no open channel without a processor that can go on: what         *)
(* collectQueryStatistics sends is taken.                                  *)
THEOREM ServingKept == Spec => []KeepsServing
<1> QED
  BY AlwaysServed, MutexLostOnlyWhenOff, PTL DEF KeepsServing
-----------------------------------------------------------------------------
(* Sums of sequences. *)

LEMMA Least ==
  ASSUME NEW T \in SUBSET Nat, T # {}
  PROVE  \E m \in T : \A n \in T : m <= n
<1>1. PICK m \in T : \A n \in T : ~(<<n, m>> \in OpToRel(<, Nat))
  BY NatLessThanWellFounded, WFMin
<1>2. \A n \in T : ~(n < m)
  BY <1>1 DEF OpToRel
<1> QED
  BY <1>2

(* Induction, by the least prefix that has no sums.                        *)
LEMMA SumsExist ==
  ASSUME NEW s \in Seq(Int), NEW n \in 0..Len(s)
  PROVE  \E g \in [0..n -> Int] : g[0] = 0 /\ \A i \in 1..n : g[i] = g[i - 1] + s[i]
<1> DEFINE P(m) == \E g \in [0..m -> Int] : g[0] = 0 /\ \A i \in 1..m : g[i] = g[i - 1] + s[i]
           Bad == {m \in 0..Len(s) : ~P(m)}
<1>1. Bad = {}
  <2> SUFFICES ASSUME Bad # {} PROVE FALSE
    OBVIOUS
  <2>1. Bad \in SUBSET Nat
    OBVIOUS
  <2>2. PICK m \in Bad : \A k \in Bad : m <= k
    <3> HIDE DEF Bad
    <3> QED
      BY <2>1, Least
  <2>3. m # 0
    <3>1. P(0)
      <4> DEFINE z == [i \in 0..0 |-> 0]
      <4>1. z \in [0..0 -> Int] /\ z[0] = 0
        OBVIOUS
      <4>2. \A i \in 1..0 : z[i] = z[i - 1] + s[i]
        OBVIOUS
      <4> HIDE DEF z
      <4> QED
        BY <4>1, <4>2
    <3> QED
      BY <3>1
  <2>4. m \in Nat /\ m - 1 \in 0..Len(s) /\ m \in 1..Len(s) /\ s[m] \in Int
    BY <2>3
  <2>5. P(m - 1)
    <3>1. m - 1 \notin Bad
      <4>1. ~(m <= m - 1)
        BY <2>4
      <4> HIDE DEF Bad
      <4> QED
        BY <2>2, <4>1
    <3> HIDE DEF P
    <3> QED
      BY <2>4, <3>1
  <2>6. PICK g \in [0..(m - 1) -> Int] : g[0] = 0 /\ \A i \in 1..(m - 1) : g[i] = g[i - 1] + s[i]
    BY <2>5
  <2> DEFINE h == [i \in 0..m |-> IF i = m THEN g[m - 1] + s[m] ELSE g[i]]
  <2>7. h \in [0..m -> Int] /\ h[0] = 0 /\ \A i \in 1..m : h[i] = h[i - 1] + s[i]
    BY <2>4, <2>6
  <2>8. P(m)
    BY <2>7
  <2> QED
    BY <2>2, <2>8
<1> QED
  BY <1>1

(* A recursive function is its definition once there is one that is.      *)
LEMMA SumsAre ==
  ASSUME NEW s \in Seq(Int)
  PROVE  /\ Sums(s) \in [0..Len(s) -> Int] /\ Sums(s)[0] = 0
         /\ \A i \in 1..Len(s) : Sums(s)[i] = Sums(s)[i - 1] + s[i]
<1> DEFINE R(g) == g = [i \in 0..Len(s) |-> IF i = 0 THEN 0 ELSE g[i - 1] + s[i]]
<1>1. PICK g \in [0..Len(s) -> Int] : g[0] = 0 /\ \A i \in 1..Len(s) : g[i] = g[i - 1] + s[i]
  BY SumsExist
<1>2. R(g)
  BY <1>1
<1>3. R(Sums(s))
  <2>1. Sums(s) = CHOOSE h : R(h)
    BY Zenon DEF Sums
  <2> HIDE DEF R
  <2> QED
    BY <1>2, <2>1, Zenon
<1>4. ASSUME NEW f, R(f)
      PROVE  /\ f[0] = 0 /\ \A i \in 1..Len(s) : f[i] = f[i - 1] + s[i]
             /\ f = [i \in 0..Len(s) |-> f[i]]
  BY <1>4
<1>5. \A i \in 1..Len(s) : Sums(s)[i] = Sums(s)[i - 1] + s[i]
  BY <1>3, <1>4
<1>6. Sums(s)[0] = 0
  BY <1>3, <1>4
<1>7. Sums(s) = [i \in 0..Len(s) |-> Sums(s)[i]]
  BY <1>3, <1>4
<1>8. \A n \in 0..Len(s) : Sums(s)[n] = g[n]
  <2> DEFINE Bad == {n \in 0..Len(s) : Sums(s)[n] # g[n]}
  <2> SUFFICES ASSUME Bad # {} PROVE FALSE
    OBVIOUS
  <2>1. PICK m \in Bad : \A k \in Bad : m <= k
    <3>1. Bad \in SUBSET Nat
      OBVIOUS
    <3> HIDE DEF Bad
    <3> QED
      BY <3>1, Least
  <2>2. m # 0 /\ m \in 0..Len(s)
    BY <1>1, <1>6
  <2>3. m - 1 \in 0..Len(s) /\ m - 1 \notin Bad
    BY <2>1, <2>2
  <2>4. Sums(s)[m - 1] = g[m - 1]
    BY <2>3
  <2>5. Sums(s)[m] = g[m]
    BY <1>1, <1>5, <2>2, <2>4
  <2> QED
    BY <2>5
<1>9. Sums(s) = g
  <2> HIDE DEF R
  <2>1. g = [i \in 0..Len(s) |-> g[i]]
    BY <1>1
  <2> QED
    BY <2>1, <1>7, <1>8
<1> QED
  BY <1>1, <1>9

(* The sums of a part of a sequence differ from those of the whole by what *)
(* is before it.                                                           *)
LEMMA SumsOfPart ==
  ASSUME NEW s \in Seq(Int), NEW t \in Seq(Int), NEW k \in Nat, k + Len(s) <= Len(t),
         \A i \in 1..Len(s) : t[i + k] = s[i], NEW n \in 0..Len(s)
  PROVE  Sums(t)[n + k] = Sums(t)[k] + Sums(s)[n]
<1>1. PICK f \in [0..Len(t) -> Int] :
        f = Sums(t) /\ f[0] = 0 /\ \A i \in 1..Len(t) : f[i] = f[i - 1] + t[i]
  BY SumsAre
<1>2. PICK g \in [0..Len(s) -> Int] :
        g = Sums(s) /\ g[0] = 0 /\ \A i \in 1..Len(s) : g[i] = g[i - 1] + s[i]
  BY SumsAre
<1> DEFINE Bad == {m \in 0..Len(s) : f[m + k] # f[k] + g[m]}
<1>3. Bad = {}
  <2> SUFFICES ASSUME Bad # {} PROVE FALSE
    OBVIOUS
  <2>1. PICK m \in Bad : \A j \in Bad : m <= j
    <3>1. Bad \in SUBSET Nat
      OBVIOUS
    <3> HIDE DEF Bad
    <3> QED
      BY <3>1, Least
  <2>2. m \in 0..Len(s) /\ f[m + k] # f[k] + g[m]
    OBVIOUS
  <2>3. f[k] \in Int
    <3>1. Len(s) \in Nat /\ Len(t) \in Nat
      OBVIOUS
    <3>2. k \in 0..Len(t)
      BY <3>1
    <3> QED
      BY <1>1, <3>2
  <2>4. m # 0
    BY <1>2, <2>2, <2>3
  <2>5. m - 1 \in 0..Len(s) /\ m \in 1..Len(s) /\ ~(m <= m - 1)
    BY <2>2, <2>4
  <2>6. m - 1 \notin Bad
    <3> HIDE DEF Bad
    <3> QED
      BY <2>1, <2>5
  <2>7. f[(m - 1) + k] = f[k] + g[m - 1]
    BY <2>5, <2>6
  <2>8. g[m] = g[m - 1] + s[m]
    BY <1>2, <2>5
  <2>9. m + k \in 1..Len(t) /\ (m + k) - 1 = (m - 1) + k
    BY <2>5
  <2>10. f[m + k] = f[(m - 1) + k] + t[m + k]
    BY <1>1, <2>9
  <2>11. t[m + k] = s[m]
    BY <2>5
  <2>12. s[m] \in Int
    BY <2>5
  <2>13. g[m - 1] \in Int
    BY <1>2, <2>5
  <2> QED
    BY <2>2, <2>3, <2>7, <2>8, <2>10, <2>11, <2>12, <2>13
<1> QED
  BY <1>1, <1>2, <1>3

LEMMA SumType == ASSUME NEW s \in Seq(Int) PROVE Sum(s) \in Int
BY SumsAre DEF Sum

LEMMA SumOfNone == Sum(<<>>) = 0
<1>1. <<>> \in Seq(Int) /\ Len(<<>>) = 0
  OBVIOUS
<1> QED
  BY <1>1, SumsAre DEF Sum

LEMMA SumOfPushed ==
  ASSUME NEW s \in Seq(Int), NEW x \in Int
  PROVE  Sum(<<x>> \o s) = x + Sum(s)
<1> DEFINE t == <<x>> \o s
<1>1. t \in Seq(Int) /\ Len(t) = Len(s) + 1 /\ t[1] = x /\ \A i \in 1..Len(s) : t[i + 1] = s[i]
  OBVIOUS
<1> HIDE DEF t
<1>2. Sums(t)[Len(s) + 1] = Sums(t)[1] + Sums(s)[Len(s)]
  BY <1>1, SumsOfPart
<1>3. PICK f \in [0..Len(t) -> Int] :
        f = Sums(t) /\ f[0] = 0 /\ \A i \in 1..Len(t) : f[i] = f[i - 1] + t[i]
  BY <1>1, SumsAre
<1>4. f[1] = x
  <2>1. 1 \in 1..Len(t)
    BY <1>1
  <2>2. f[1] = f[1 - 1] + t[1]
    BY <1>3, <2>1
  <2> QED
    BY <1>1, <1>3, <2>2
<1> QED
  BY <1>1, <1>2, <1>3, <1>4 DEF Sum, t

LEMMA FrontIs ==
  ASSUME NEW t \in Seq(Int), Len(t) > 0
  PROVE  /\ Front(t) \in Seq(Int) /\ Len(Front(t)) = Len(t) - 1
         /\ \A i \in 1..(Len(t) - 1) : Front(t)[i] = t[i]
<1>1. Len(t) \in Nat /\ \A i \in 1..(Len(t) - 1) : t[i] \in Int
  OBVIOUS
<1>2. SubSeq(t, 1, Len(t) - 1) \in Seq(Int)
  BY <1>1
<1>3. Len(SubSeq(t, 1, Len(t) - 1)) = Len(t) - 1
  <2>1. Len(t) - 1 \in Nat
    BY <1>1
  <2>2. PICK n \in Nat : n = Len(t) - 1
    BY <2>1
  <2>3. Len(SubSeq(t, 1, n)) = n
    BY <1>1, <2>2
  <2> QED
    BY <2>2, <2>3
<1>4. \A i \in 1..(Len(t) - 1) : SubSeq(t, 1, Len(t) - 1)[i] = t[i]
  BY <1>1
<1> QED
  BY <1>2, <1>3, <1>4 DEF Front

LEMMA SumOfFront ==
  ASSUME NEW t \in Seq(Int), Len(t) > 0
  PROVE  Sum(t) = Sum(Front(t)) + t[Len(t)]
<1> DEFINE s == Front(t)
<1>1. s \in Seq(Int) /\ Len(s) = Len(t) - 1 /\ \A i \in 1..Len(s) : t[i + 0] = s[i]
  BY FrontIs
<1> HIDE DEF s
<1>2. Sums(t)[Len(s) + 0] = Sums(t)[0] + Sums(s)[Len(s)]
  <2>1. Len(s) \in 0..Len(s) /\ 0 + Len(s) <= Len(t)
    BY <1>1
  <2> QED
    BY <1>1, <2>1, SumsOfPart
<1>3. PICK f \in [0..Len(t) -> Int] :
        f = Sums(t) /\ f[0] = 0 /\ \A i \in 1..Len(t) : f[i] = f[i - 1] + t[i]
  BY SumsAre
<1>4. f[Len(t)] = f[Len(t) - 1] + t[Len(t)]
  BY <1>3
<1>5. PICK n \in Int : n = Sums(s)[Len(s)]
  <2>1. Len(s) \in 0..Len(s)
    BY <1>1
  <2> QED
    BY <1>1, <2>1, SumsAre
<1>6. Sum(t) = f[Len(t)] /\ Sum(s) = n /\ f[Len(t) - 1] = n
  BY <1>1, <1>2, <1>3, <1>5 DEF Sum
<1> QED
  BY <1>4, <1>6 DEF s

-----------------------------------------------------------------------------
(* How often an entry is in a queue, and with the processors. *)

Occ(b, e) == Cardinality({i \in 1..Len(b) : b[i] = e})

LEMMA OccOfNone == \A e : Occ(<<>>, e) = 0
<1>1. \A e : {i \in 1..Len(<<>>) : <<>>[i] = e} = {}
  OBVIOUS
<1> QED
  BY <1>1, FS_EmptySet DEF Occ

LEMMA OccFinite ==
  ASSUME NEW S, NEW b \in Seq(S), NEW e
  PROVE  IsFiniteSet({i \in 1..Len(b) : b[i] = e}) /\ Occ(b, e) \in Nat
<1>1. IsFiniteSet(1..Len(b))
  BY FS_Interval
<1>2. {i \in 1..Len(b) : b[i] = e} \subseteq 1..Len(b)
  OBVIOUS
<1>3. IsFiniteSet({i \in 1..Len(b) : b[i] = e})
  BY <1>1, <1>2, FS_Subset
<1> QED
  BY <1>3, FS_CardinalityType DEF Occ

LEMMA OccType == ASSUME NEW S, NEW b \in Seq(S), NEW e PROVE Occ(b, e) \in Int
<1>1. Occ(b, e) \in Nat
  BY OccFinite, Zenon
<1> QED
  BY <1>1

LEMMA OccOfAppended ==
  ASSUME NEW S, NEW b \in Seq(S), NEW x \in S, NEW e
  PROVE  Occ(Append(b, x), e) = Occ(b, e) + (IF x = e THEN 1 ELSE 0)
<1> DEFINE c == Append(b, x)
           T == {i \in 1..Len(b) : b[i] = e}
           n == Len(b) + 1
<1>1. Len(c) = n /\ c[n] = x /\ \A i \in 1..Len(b) : c[i] = b[i]
  OBVIOUS
<1>2. IsFiniteSet(T) /\ n \notin T /\ Cardinality(T) \in Nat
  <2>1. IsFiniteSet(T) /\ Cardinality(T) \in Nat
    BY OccFinite DEF Occ
  <2>2. n \notin T
    OBVIOUS
  <2> QED
    BY <2>1, <2>2
<1>3. 1..n = (1..Len(b)) \cup {n}
  OBVIOUS
<1>4. {i \in 1..Len(c) : c[i] = e} = IF x = e THEN T \cup {n} ELSE T
  <2> HIDE DEF c
  <2> QED
    BY <1>1, <1>3
<1>5. Cardinality(T \cup {n}) = Cardinality(T) + 1
  BY <1>2, FS_AddElement
<1> HIDE DEF T, c
<1>6. Occ(c, e) = IF x = e THEN Cardinality(T) + 1 ELSE Cardinality(T)
  BY <1>4, <1>5 DEF Occ
<1>7. Occ(b, e) = Cardinality(T)
  BY DEF Occ, T
<1> QED
  BY <1>2, <1>6, <1>7 DEF c

LEMMA OccOfTaken ==
  ASSUME NEW S, NEW b \in Seq(S), b # <<>>, NEW e
  PROVE  Occ(b, e) = Occ(Tail(b), e) + (IF Head(b) = e THEN 1 ELSE 0)
<1> DEFINE c == Tail(b)
           T == {i \in 1..Len(c) : c[i] = e}
           U == {i \in 2..Len(b) : b[i] = e}
<1>1. c \in Seq(S) /\ Len(c) = Len(b) - 1 /\ Len(b) >= 1 /\ \A i \in 1..Len(c) : c[i] = b[i + 1]
  OBVIOUS
<1> HIDE DEF c
<1>2. IsFiniteSet(T) /\ Cardinality(T) \in Nat
  BY <1>1, OccFinite DEF Occ
<1>3. IsFiniteSet(U) /\ Cardinality(U) = Cardinality(T)
  <2> DEFINE f == [i \in T |-> i + 1]
  <2>1. f \in [T -> U]
    <3>1. \A i \in T : i + 1 \in U
      BY <1>1
    <3> HIDE DEF T, U
    <3> QED
      BY <3>1
  <2>2. \A j \in U : \E i \in T : f[i] = j
    <3>1. ASSUME NEW j \in U
          PROVE  j - 1 \in T /\ f[j - 1] = j
      <4>1. j - 1 \in 1..Len(c)
        BY <1>1
      <4>2. j - 1 \in T /\ (j - 1) + 1 = j
        BY <1>1, <4>1
      <4> HIDE DEF T, U
      <4> QED
        BY <4>2
    <3> HIDE DEF f
    <3> QED
      BY <3>1
  <2>3. \A i, j \in T : f[i] = f[j] => i = j
    BY <1>1
  <2>4. f \in Bijection(T, U)
    <3> HIDE DEF f, T, U
    <3> QED
      BY <2>1, <2>2, <2>3, Fun_IsBij
  <2> HIDE DEF T, U, f
  <2> QED
    BY <1>2, <2>4, FS_Bijection, Fun_ExistsBij DEF ExistsBijection
<1>4. 1 \notin U /\ {i \in 1..Len(b) : b[i] = e} = IF b[1] = e THEN U \cup {1} ELSE U
  BY <1>1
<1>5. Cardinality(U \cup {1}) = Cardinality(U) + 1
  BY <1>3, <1>4, FS_AddElement
<1> HIDE DEF T, U
<1>6. Occ(b, e) = IF b[1] = e THEN Cardinality(U) + 1 ELSE Cardinality(U)
  BY <1>4, <1>5 DEF Occ
<1>7. Occ(c, e) = Cardinality(T) /\ Head(b) = b[1]
  BY DEF Occ, T
<1> QED
  BY <1>2, <1>3, <1>6, <1>7 DEF c

Had(S, g, pc, e, places) == Cardinality({p \in S : g[p] = e /\ pc[p] \in places})

(* While there is only the first channel, there is only the first processor.*)
LEMMA HadByFirst ==
  ASSUME NEW S \in SUBSET Nat, NEW c \in 0..1, c = 1 => 1 \in S, 0 \notin S,
         NEW pc, NEW g, NEW places, NEW e, "none" \notin places,
         \A p \in S : pc[p] # "none" <=> p <= c
  PROVE  Had(S, g, pc, e, places) = IF c = 1 /\ g[1] = e /\ pc[1] \in places THEN 1 ELSE 0
<1>1. {p \in S : g[p] = e /\ pc[p] \in places}
        = IF c = 1 /\ g[1] = e /\ pc[1] \in places THEN {1} ELSE {}
  <2>1. \A p \in S : pc[p] \in places => p = 1 /\ c = 1
    OBVIOUS
  <2> QED
    BY <2>1
<1> QED
  BY <1>1, FS_EmptySet, FS_Singleton DEF Had

-----------------------------------------------------------------------------
(* Until collecting is first switched off. *)

Counting == {"overall", "overall+", "current", "current+"}
Coming == {"lookup", "create", "overall", "overall+"}
At(e, places) == IF channel = 1 /\ got[1] = e /\ ppc[1] \in places THEN 1 ELSE 0
Rest(s) == s.overall - s.current - Sum(s.history)

(* Nothing is on a channel that is not made, or goes to one.  While the    *)
(* first channel is open, its processor counts in its map, and has read    *)
(* the count that is there.                                                *)
BehindInv ==
  /\ \A c \in Channel : c > channel => buf[c] = <<>>
  /\ \A h \in Handler : target[h] <= channel
FirstInv ==
  /\ channel \in 0..1
  /\ channel = 1 =>
       /\ ppc[1] \in Counting => owner[1] = 1
       /\ ppc[1] = "overall+" => seen[1] = statistics[got[1]].overall
       /\ ppc[1] = "current+" => seen[1] = statistics[got[1]].current

(* Where the entries are that were put on the channel, and what the        *)
(* snapshots hold of those counted.                                        *)
TallyInv ==
  \A e \in Entry :
    accepted[e] = (IF channel = 1 THEN Occ(buf[1], e) ELSE 0) + At(e, Coming) + Counted(e)
SnapshotInv ==
  \A e \in Entry : Known(e) =>
    LET s == statistics[e]
        rest == Rest(s) - At(e, {"current", "current+"})
    IN  /\ s.current >= 0 /\ \A i \in 1..Len(s.history) : s.history[i] >= 0
        /\ rest >= 0
        /\ (\A n \in Counts \cup {DefaultCount} : Len(s.history) < n) => rest = 0

CountInv ==
  /\ BehindInv /\ count \in Counts \cup {DefaultCount}
  /\ closed = {} => FirstInv /\ TallyInv /\ SnapshotInv

(* What the first phase is like. *)
LEMMA FirstPhase ==
  ASSUME Inv, CountInv, closed = {}
  PROVE  /\ channel \in 0..1 /\ (channel = 0 => statistics = None) /\ Processor \subseteq Nat
         /\ \A p \in Processor : ppc[p] # "none" => p = 1 /\ channel = 1
         /\ channel = 1 =>
              /\ 1 \in Processor /\ ppc[1] \notin {"none", "gone"} /\ got[1] \in Entry
              /\ statistics \in [Entry -> Statistic \cup {None}] /\ statistics # None
              /\ ppc[1] = "wait" => on[1] = 1
              /\ ppc[1] \in Counting => Attached(1) /\ Known(got[1])
<1> USE DEF Inv, TypeOK, SwitchTypeOK, ProcessorTypeOK
<1>1. channel \in 0..1 /\ Processor = 1..MaxOn /\ MaxOn \in Nat /\ channel \in 0..MaxOn
  BY BoundAssumption DEF CountInv, FirstInv, Processor, Channel
<1>2. Collecting <=> channel = 1
  BY <1>1 DEF Collecting
<1>3. statistics # None <=> channel = 1
  BY <1>2 DEF SwitchInv
<1>4. \A p \in Processor : ppc[p] # "none" => p = 1 /\ channel = 1
  BY <1>1 DEF ProcessorInv
<1>5. ASSUME channel = 1
      PROVE  /\ 1 \in Processor /\ ppc[1] \notin {"none", "gone"} /\ got[1] \in Entry
             /\ statistics \in [Entry -> Statistic \cup {None}] /\ statistics # None
             /\ ppc[1] = "wait" => on[1] = 1
             /\ ppc[1] \in Counting => Attached(1) /\ Known(got[1])
  <2>1. 1 \in Processor
    BY <1>1, <1>5
  <2>2. ppc[1] # "none" /\ ppc[1] # "gone"
    BY <1>2, <1>5, <2>1 DEF ProcessorInv
  <2>3. ppc[1] = "wait" => on[1] = 1
    BY <1>1, <1>5, <2>1 DEF ProcessorInv
  <2>4. ppc[1] \in Counting => owner[1] = 1
    BY <1>5 DEF CountInv, FirstInv
  <2>5. ppc[1] \in Counting => Attached(1)
    BY <1>3, <1>5, <2>4 DEF Attached
  <2>6. ppc[1] \in Counting => Known(got[1])
    BY <2>1, <2>5 DEF ProcessorInv, Counting
  <2> QED
    BY <1>3, <1>5, <2>1, <2>2, <2>3, <2>5, <2>6
<1> QED
  BY <1>1, <1>3, <1>4, <1>5

(* The properties, in these terms. *)
LEMMA CountAddsUp == Inv /\ CountInv => NothingLost /\ SnapshotsAddUp
<1> SUFFICES ASSUME Inv, CountInv, closed = {}, NEW e \in Entry
             PROVE  /\ accepted[e] = Queued(e) + Having(e, Coming) + Counted(e)
                    /\ Known(e) =>
                         LET s == statistics[e]
                             rest == s.overall - s.current - Sum(s.history) - Having(e, {"current", "current+"})
                             short == \A n \in Counts \cup {DefaultCount} : Len(s.history) < n
                         IN  rest >= 0 /\ (short => rest = 0)
  BY DEF NothingLost, SnapshotsAddUp, Coming
<1>1. /\ channel \in 0..1 /\ (channel = 1 => 1 \in Processor) /\ Processor \in SUBSET Nat
      /\ 0 \notin Processor /\ \A p \in Processor : ppc[p] # "none" <=> p <= channel
  BY FirstPhase, BoundAssumption DEF Inv, ProcessorInv, Processor, Channel
<1>2. ASSUME NEW places, "none" \notin places
      PROVE  Having(e, places) = At(e, places)
  <2>1. Having(e, places) = IF channel = 1 /\ got[1] = e /\ ppc[1] \in places THEN 1 ELSE 0
    <3> HIDE DEF Inv, CountInv
    <3>1. Having(e, places) = Had(Processor, got, ppc, e, places)
      BY DEF Having, Had
    <3> QED
      BY <1>1, <1>2, <3>1, HadByFirst
  <2> QED
    BY <2>1 DEF At
<1>3. Having(e, Coming) = At(e, Coming)
  BY <1>2 DEF Coming
<1>4. Having(e, {"current", "current+"}) = At(e, {"current", "current+"})
  BY <1>2
<1>5. Queued(e) = IF channel = 1 THEN Occ(buf[1], e) ELSE 0
  <2>1. CASE channel = 1
    BY <2>1 DEF Queued, Occ
  <2>2. CASE channel = 0
    BY <2>2 DEF Queued
  <2> QED
    BY <1>1, <2>1, <2>2
<1>6. accepted[e] = Queued(e) + Having(e, Coming) + Counted(e)
  BY <1>3, <1>5 DEF CountInv, TallyInv
<1> QED
  BY <1>4, <1>6 DEF CountInv, SnapshotInv, Rest

(* Steps that leave channels, map and counting alone. *)
LEMMA CountStays ==
  ASSUME CountInv, UNCHANGED <<channel, closed, buf, accepted, statistics, got, owner, seen>>,
         count' \in Counts \cup {DefaultCount}, \A h \in Handler : target'[h] <= channel,
         channel = 1 /\ closed = {} =>
           /\ ppc'[1] \in Coming <=> ppc[1] \in Coming
           /\ ppc'[1] \in {"current", "current+"} <=> ppc[1] \in {"current", "current+"}
           /\ ppc'[1] \in Counting => ppc[1] \in Counting
           /\ ppc'[1] \in {"overall+", "current+"} => ppc'[1] = ppc[1]
  PROVE  CountInv'
<1>1. BehindInv'
  BY DEF CountInv, BehindInv
<1>2. \A e : Known(e)' = Known(e) /\ Counted(e)' = Counted(e)
  BY DEF Known, Counted
<1>3. ASSUME closed = {}
      PROVE  FirstInv'
  BY <1>3 DEF CountInv, FirstInv
<1>4. ASSUME closed = {}, NEW e
      PROVE  At(e, Coming)' = At(e, Coming) /\ At(e, {"current", "current+"})' = At(e, {"current", "current+"})
  BY <1>4 DEF At, Coming
<1>5. ASSUME closed = {}
      PROVE  TallyInv'
  BY <1>2, <1>4, <1>5 DEF CountInv, TallyInv
<1>6. ASSUME closed = {}
      PROVE  SnapshotInv'
  BY <1>2, <1>4, <1>6 DEF CountInv, SnapshotInv
<1> QED
  BY <1>1, <1>3, <1>5, <1>6 DEF CountInv

LEMMA OpenCounts ==
  ASSUME Inv, CountInv, NEW a \in Admin, Open(a)
  PROVE  CountInv'
<1> USE DEF Inv, TypeOK, SwitchTypeOK, ProcessorTypeOK
<1>1. /\ channel \in Nat /\ channel' = channel + 1 /\ channel' \in Processor
      /\ statistics' = [e \in Entry |-> None] /\ ppc' = [ppc EXCEPT ![channel'] = "select"]
      /\ UNCHANGED <<closed, count, target, got, owner, seen, buf, accepted>>
  BY BoundAssumption DEF Open, SwitchInv, Processor, Channel, handlers
<1>2. BehindInv'
  BY <1>1, BoundAssumption DEF CountInv, BehindInv, Channel, HandlerTypeOK
<1>3. ASSUME closed = {}
      PROVE  FirstInv' /\ TallyInv' /\ SnapshotInv'
  <2>1. channel = 0 /\ statistics = None
    <3>1. ~Collecting
      BY DEF Open, SwitchInv
    <3> QED
      BY <1>3, <3>1, FirstPhase DEF Collecting
  <2>2. channel' = 1 /\ ppc'[1] = "select"
    BY <1>1, <2>1
  <2>3. buf'[1] = <<>>
    BY <1>1, <2>1 DEF CountInv, BehindInv, Processor
  <2>4. \A e \in Entry : accepted[e] = 0
    BY <1>3, <2>1 DEF CountInv, TallyInv, At, Counted, Known
  <2>5. \A e \in Entry : ~Known(e)'
    BY <1>1 DEF Known
  <2>6. \A e \in Entry : Counted(e)' = 0 /\ At(e, Coming)' = 0
    BY <2>2, <2>5 DEF Counted, At, Coming
  <2>7. FirstInv'
    BY <2>2 DEF FirstInv, Counting
  <2>8. TallyInv'
    BY <1>1, <2>2, <2>3, <2>4, <2>6, OccOfNone DEF TallyInv
  <2>9. SnapshotInv'
    BY <2>5 DEF SnapshotInv
  <2> QED
    BY <2>7, <2>8, <2>9
<1> QED
  BY <1>1, <1>2, <1>3 DEF CountInv

LEMMA SendCounts ==
  ASSUME Inv, CountInv, NEW h \in Handler, Send(h)
  PROVE  CountInv'
<1> USE DEF Inv, TypeOK, SwitchTypeOK, ChannelTypeOK, HandlerTypeOK
<1>1. /\ UNCHANGED <<channel, closed, statistics, count, target, got, owner, seen, ppc>>
  BY DEF Send, switch, admins, processors
<1>2. PICK c : c = target[h] /\ c \in Channel /\ c <= channel /\ c \in Nat /\ channel \in Nat
  BY BoundAssumption DEF Send, CountInv, BehindInv, Channel
<1>3. CASE c \in closed /\ UNCHANGED <<buf, accepted>>
  BY <1>1, <1>3, CountStays DEF CountInv, BehindInv
<1>4. CASE /\ c \notin closed /\ buf' = [buf EXCEPT ![c] = Append(@, entry[h])]
           /\ accepted' = [accepted EXCEPT ![entry[h]] = @ + 1]
  <2>1. BehindInv'
    BY <1>1, <1>2, <1>4 DEF CountInv, BehindInv
  <2>2. ASSUME closed = {}
        PROVE  FirstInv' /\ TallyInv' /\ SnapshotInv'
    <3>1. channel = 1 /\ c = 1
      BY <1>2, <2>2 DEF CountInv, FirstInv, Channel
    <3>2. buf'[1] = Append(buf[1], entry[h]) /\ buf[1] \in Seq(Entry) /\ entry[h] \in Entry
      BY <1>2, <1>4, <3>1
    <3>3. \A e \in Entry : Occ(buf'[1], e) = Occ(buf[1], e) + IF entry[h] = e THEN 1 ELSE 0
      BY <3>2, OccOfAppended
    <3>4. \A e \in Entry : accepted'[e] = accepted[e] + IF entry[h] = e THEN 1 ELSE 0
      BY <1>4, <3>2
    <3>5. \A e : /\ Known(e)' = Known(e) /\ Counted(e)' = Counted(e)
                 /\ \A places : At(e, places)' = At(e, places)
      BY <1>1 DEF Known, Counted, At
    <3>6. FirstInv'
      BY <1>1, <2>2 DEF CountInv, FirstInv
    <3>7. ASSUME NEW e \in Entry
          PROVE  accepted'[e] = Occ(buf'[1], e) + At(e, Coming)' + Counted(e)'
      <4>1. accepted[e] = Occ(buf[1], e) + At(e, Coming) + Counted(e)
        BY <2>2, <3>1 DEF CountInv, TallyInv
      <4>2. Occ(buf[1], e) \in Int /\ At(e, Coming) \in Int
        BY <3>2, OccType DEF At
      <4>3. Counted(e) \in Int
        BY DEF Counted, Known, Statistic
      <4> QED
        BY <3>3, <3>4, <3>5, <4>1, <4>2, <4>3
    <3>8. TallyInv'
      BY <1>1, <3>1, <3>7 DEF TallyInv
    <3>9. SnapshotInv'
      BY <1>1, <2>2, <3>5 DEF CountInv, SnapshotInv
    <3> QED
      BY <3>6, <3>8, <3>9
  <2> QED
    BY <1>1, <2>1, <2>2 DEF CountInv
<1> QED
  BY <1>2, <1>3, <1>4 DEF Send

LEMMA ReceiveCounts ==
  ASSUME Inv, CountInv, NEW p \in Processor, Receive(p)
  PROVE  CountInv'
<1> USE DEF Inv, TypeOK, SwitchTypeOK, ChannelTypeOK, ProcessorTypeOK
<1>1. /\ UNCHANGED <<channel, closed, statistics, count, target, owner, seen, accepted>>
      /\ ppc[p] = "wait"
  BY DEF Receive, switch, admins, handlers
<1>2. BehindInv'
  <2>1. UNCHANGED buf \/ (buf[on[p]] # <<>> /\ buf' = [buf EXCEPT ![on[p]] = Tail(@)])
    BY DEF Receive
  <2>2. on[p] <= channel /\ p <= on[p]
    BY <1>1 DEF ProcessorInv
  <2>3. \A c \in Channel : c > channel => c # on[p]
    BY <2>2, BoundAssumption DEF Channel, Processor
  <2>4. \A c \in Channel : c > channel => buf'[c] = buf[c]
    BY <2>1, <2>3
  <2> QED
    BY <1>1, <2>4 DEF CountInv, BehindInv
<1>3. ASSUME closed = {}
      PROVE  FirstInv' /\ TallyInv' /\ SnapshotInv'
  <2>1. channel = 1 /\ p = 1 /\ on[1] = 1
    BY <1>1, <1>3, FirstPhase
  <2>2. /\ buf[1] # <<>> /\ got' = [got EXCEPT ![1] = Head(buf[1])]
        /\ buf' = [buf EXCEPT ![1] = Tail(@)] /\ ppc' = [ppc EXCEPT ![1] = "lookup"]
    BY <1>3, <2>1 DEF Receive, PGoto
  <2>3. 1 \in Channel /\ buf[1] \in Seq(Entry)
    BY <2>1 DEF Processor
  <2>4. buf'[1] = Tail(buf[1]) /\ ppc'[1] = "lookup" /\ got'[1] = Head(buf[1]) /\ ppc[1] = "wait"
    BY <1>1, <2>1, <2>2, <2>3
  <2>5. \A e \in Entry : Occ(buf[1], e) = Occ(buf'[1], e) + IF got'[1] = e THEN 1 ELSE 0
    BY <2>2, <2>3, <2>4, OccOfTaken
  <2>6. \A e : Known(e)' = Known(e) /\ Counted(e)' = Counted(e)
    BY <1>1 DEF Known, Counted
  <2>7. \A e : /\ At(e, Coming) = 0 /\ At(e, Coming)' = IF got'[1] = e THEN 1 ELSE 0
               /\ At(e, {"current", "current+"}) = 0 /\ At(e, {"current", "current+"})' = 0
    BY <1>1, <2>1, <2>4 DEF At, Coming
  <2>8. FirstInv'
    BY <1>1, <2>1, <2>4 DEF FirstInv, Counting
  <2>9. TallyInv'
    <3>1. ASSUME NEW e \in Entry
          PROVE  accepted'[e] = Occ(buf'[1], e) + At(e, Coming)' + Counted(e)'
      <4>1. accepted[e] = Occ(buf[1], e) + At(e, Coming) + Counted(e)
        BY <1>3, <2>1 DEF CountInv, TallyInv
      <4>2. buf'[1] \in Seq(Entry)
        BY <2>2, <2>3, <2>4
      <4>3. Occ(buf'[1], e) \in Int
        BY <4>2, OccType
      <4>4. Counted(e) \in Int
        BY DEF Counted, Known, Statistic
      <4>5. Occ(buf[1], e) = Occ(buf'[1], e) + At(e, Coming)' /\ At(e, Coming) = 0
        BY <2>5, <2>7
      <4>6. At(e, Coming)' \in Int
        BY <2>7
      <4> HIDE DEF Inv
      <4> QED
        BY <1>1, <2>6, <4>1, <4>3, <4>4, <4>5, <4>6
    <3> QED
      BY <1>1, <2>1, <3>1 DEF TallyInv
  <2>10. SnapshotInv'
    BY <1>1, <1>3, <2>6, <2>7 DEF CountInv, SnapshotInv
  <2> QED
    BY <2>8, <2>9, <2>10
<1> QED
  BY <1>1, <1>2, <1>3 DEF CountInv

LEMMA ShiftCounts ==
  ASSUME Inv, CountInv, NEW p \in Processor, Shift(p)
  PROVE  CountInv'
<1> USE DEF Inv, TypeOK, SwitchTypeOK, ProcessorTypeOK
<1>1. /\ UNCHANGED <<channel, closed, count, target, owner, seen, got, buf, accepted>>
      /\ ppc[p] = "shift"
  BY DEF Shift, admins, handlers
<1>2. BehindInv'
  BY <1>1 DEF CountInv, BehindInv
<1>3. ASSUME closed = {}
      PROVE  FirstInv' /\ TallyInv' /\ SnapshotInv'
  <2>1. /\ channel = 1 /\ p = 1 /\ statistics # None
        /\ statistics \in [Entry -> Statistic \cup {None}]
    BY <1>1, <1>3, FirstPhase
  <2>2. ppc[1] = "shift" /\ ppc'[1] = "select"
    BY <1>1, <2>1 DEF Shift, PGoto
  <2>3. statistics' = [e \in Entry |-> IF statistics[e] = None THEN None ELSE Shifted(statistics[e])]
    BY <2>1 DEF Shift
  <2>4. ASSUME NEW e \in Entry, statistics[e] # None
        PROVE  /\ statistics'[e] = Shifted(statistics[e]) /\ statistics'[e] \in Statistic
               /\ statistics'[e].overall = statistics[e].overall
    <3>1. statistics[e] \in Statistic
      BY <2>1, <2>4
    <3>2. Shifted(statistics[e]) \in Statistic
      BY <3>1, ShiftedType
    <3>3. Shifted(statistics[e]).overall = statistics[e].overall
      BY DEF Shifted
    <3> QED
      BY <2>3, <2>4, <3>2, <3>3
  <2>5. \A e \in Entry : statistics[e] = None => statistics'[e] = None
    BY <2>3
  <2>6. statistics' # None
    <3>1. statistics' \in [Entry -> Statistic \cup {None}]
      BY <2>3, <2>4
    <3> QED
      BY <3>1, NoneMap
  <2>7. \A e \in Entry : (Known(e)' <=> Known(e)) /\ Counted(e)' = Counted(e)
    BY <2>1, <2>4, <2>5, <2>6, NoneMap DEF Known, Counted
  <2>8. \A e : /\ At(e, Coming) = 0 /\ At(e, Coming)' = 0
               /\ At(e, {"current", "current+"}) = 0 /\ At(e, {"current", "current+"})' = 0
    BY <1>1, <2>2 DEF At, Coming
  <2>9. FirstInv'
    BY <1>1, <2>1, <2>2 DEF FirstInv, Counting
  <2>10. TallyInv'
    BY <1>1, <1>3, <2>1, <2>7, <2>8 DEF CountInv, TallyInv
  <2>11. ASSUME NEW e \in Entry, Known(e)
         PROVE  LET s == statistics'[e]
                IN  /\ s.current >= 0 /\ \A i \in 1..Len(s.history) : s.history[i] >= 0
                    /\ Rest(s) >= 0
                    /\ (\A n \in Counts \cup {DefaultCount} : Len(s.history) < n) => Rest(s) = 0
    <3> DEFINE s == statistics[e]
               h == <<s.current>> \o s.history
               t == IF Len(h) > count THEN Front(h) ELSE h
    <3>1. s \in Statistic /\ statistics'[e] = Shifted(s)
      BY <2>1, <2>4, <2>11 DEF Known
    <3>2. /\ s.current >= 0 /\ \A i \in 1..Len(s.history) : s.history[i] >= 0
          /\ Rest(s) >= 0
          /\ (\A n \in Counts \cup {DefaultCount} : Len(s.history) < n) => Rest(s) = 0
      <4>1. Rest(s) \in Int
        BY <3>1, SumType DEF Rest, Statistic
      <4> HIDE DEF s
      <4>2. At(e, {"current", "current+"}) = 0
        BY <2>8
      <4>3. Rest(s) - 0 = Rest(s)
        BY <4>1
      <4> QED
        BY <1>3, <2>11, <4>2, <4>3 DEF CountInv, SnapshotInv, s
    <3>3. s.current \in Int /\ s.overall \in Int /\ s.history \in Seq(Int)
      BY <3>1 DEF Statistic
    <3>4. Shifted(s) = [overall |-> s.overall, current |-> 0, history |-> t]
      BY DEF Shifted
    <3>5. Shifted(s).current = 0 /\ Shifted(s).overall = s.overall /\ Shifted(s).history = t
      BY <3>4
    <3> HIDE DEF s
    <3>6. h \in Seq(Int) /\ Len(h) = Len(s.history) + 1 /\ Sum(h) = s.current + Sum(s.history)
      BY <3>3, SumOfPushed
    <3>7. \A i \in 1..Len(h) : h[i] >= 0
      BY <3>2, <3>3
    <3> HIDE DEF h
    <3>8. Sum(s.history) \in Int /\ Rest(s) = s.overall - s.current - Sum(s.history)
      BY <3>3, SumType DEF Rest
    <3>9. Rest(Shifted(s)) = s.overall - Sum(t)
      <4>1. Sum(t) \in Int
        <5>1. t \in Seq(Int)
          BY <3>4, <3>5, <2>4, <2>11 DEF Known, Statistic, s
        <5> QED
          BY <5>1, SumType
      <4> QED
        BY <3>3, <3>5, <4>1 DEF Rest
    <3>10. CASE Len(h) > count
      <4>1. t = Front(h) /\ Len(h) > 0
        BY <3>3, <3>6, <3>10
      <4>2. Sum(h) = Sum(t) + h[Len(h)] /\ h[Len(h)] >= 0 /\ h[Len(h)] \in Int
        BY <3>6, <3>7, <4>1, SumOfFront
      <4>3. /\ t \in Seq(Int) /\ Sum(t) \in Int /\ Len(t) = Len(h) - 1
            /\ \A i \in 1..Len(t) : t[i] = h[i]
        BY <3>6, <4>1, FrontIs, SumType
      <4>4. Rest(Shifted(s)) >= 0
        <5> HIDE DEF t
        <5>1. PICK l \in Int : l >= 0 /\ s.current + Sum(s.history) = Sum(t) + l
          BY <3>6, <4>2
        <5>2. s.overall - s.current - Sum(s.history) >= 0
          BY <3>2, <3>8
        <5> QED
          BY <3>3, <3>8, <3>9, <4>3, <5>1, <5>2
      <4>5. \A i \in 1..Len(t) : t[i] >= 0
        <5> HIDE DEF t
        <5>1. Len(h) \in Nat
          BY <3>6
        <5> QED
          BY <3>7, <4>3, <5>1
      <4>6. ~(\A n \in Counts \cup {DefaultCount} : Len(t) < n)
        <5>1. count \in Counts \cup {DefaultCount} /\ count \in Int
          BY DEF CountInv
        <5>2. ~(Len(t) < count)
          BY <3>10, <3>6, <4>3, <5>1
        <5> QED
          BY <5>1, <5>2
      <4> HIDE DEF t
      <4> QED
        BY <3>1, <3>5, <4>4, <4>5, <4>6
    <3>11. CASE ~(Len(h) > count)
      <4>1. t = h
        BY <3>11
      <4>2. Rest(Shifted(s)) = Rest(s)
        BY <3>3, <3>6, <3>8, <3>9, <4>1
      <4>3. (\A n \in Counts \cup {DefaultCount} : Len(t) < n)
              => \A n \in Counts \cup {DefaultCount} : Len(s.history) < n
        <5>1. Counts \cup {DefaultCount} \subseteq Int
          BY OptionAssumption
        <5>2. Len(s.history) \in Int /\ Len(t) = Len(s.history) + 1
          BY <3>3, <3>6, <4>1
        <5> HIDE DEF t
        <5> QED
          BY <5>1, <5>2
      <4>4. \A i \in 1..Len(t) : t[i] >= 0
        BY <3>7, <4>1
      <4> HIDE DEF t
      <4> QED
        BY <3>1, <3>2, <3>5, <4>2, <4>3, <4>4
    <3> QED
      BY <3>10, <3>11
  <2>12. SnapshotInv'
    <3> HIDE DEF Inv
    <3>2. ASSUME NEW e \in Entry, Known(e)'
          PROVE  LET s == statistics'[e]
                     rest == Rest(s) - At(e, {"current", "current+"})'
                 IN  /\ s.current >= 0 /\ \A i \in 1..Len(s.history) : s.history[i] >= 0
                     /\ rest >= 0
                     /\ (\A n \in Counts \cup {DefaultCount} : Len(s.history) < n) => rest = 0
      <4>1. Known(e) /\ At(e, {"current", "current+"})' = 0
        BY <2>7, <2>8, <3>2
      <4>2. Rest(statistics'[e]) \in Int
        <5>1. statistics'[e] \in Statistic
          BY <2>4, <4>1 DEF Known
        <5> QED
          BY <5>1, SumType DEF Rest, Statistic
      <4> QED
        BY <2>11, <4>1, <4>2
    <3> QED
      BY <3>2 DEF SnapshotInv
  <2> QED
    BY <2>9, <2>10, <2>12
<1> QED
  BY <1>1, <1>2, <1>3 DEF CountInv

(* A statistic that is made has counted nothing. *)
LEMMA CreateCounts ==
  ASSUME Inv, CountInv, NEW p \in Processor, createStatistics(p)
  PROVE  CountInv'
<1> USE DEF Inv, TypeOK, SwitchTypeOK, ProcessorTypeOK
<1>1. /\ UNCHANGED <<channel, closed, count, target, seen, got, buf, accepted>>
      /\ ppc[p] = "create"
  BY DEF createStatistics, admins, handlers
<1>2. BehindInv'
  BY <1>1 DEF CountInv, BehindInv
<1>3. ASSUME closed = {}
      PROVE  FirstInv' /\ TallyInv' /\ SnapshotInv'
  <2>1. /\ channel = 1 /\ p = 1 /\ statistics # None /\ 1 \in Processor /\ got[1] \in Entry
        /\ statistics \in [Entry -> Statistic \cup {None}]
    BY <1>1, <1>3, FirstPhase
  <2>2. ppc[1] = "create" /\ ppc'[1] = "overall" /\ owner'[1] = 1
    BY <1>1, <2>1 DEF createStatistics, PGoto
  <2>3. statistics' = IF Known(got[1]) THEN statistics ELSE [statistics EXCEPT ![got[1]] = Zero]
    BY <2>1 DEF createStatistics
  <2>4. /\ statistics' \in [Entry -> Statistic \cup {None}] /\ statistics' # None
        /\ \A e \in Entry : e # got[1] => statistics'[e] = statistics[e]
        /\ statistics[got[1]] # None => statistics'[got[1]] = statistics[got[1]]
        /\ statistics[got[1]] = None => statistics'[got[1]] = Zero
    <3>1. CASE Known(got[1])
      BY <2>1, <2>3, <3>1 DEF Known
    <3>2. CASE ~Known(got[1])
      <4>1. statistics' = [statistics EXCEPT ![got[1]] = Zero] /\ statistics[got[1]] = None
        BY <2>1, <2>3, <3>2 DEF Known
      <4>2. statistics' \in [Entry -> Statistic \cup {None}]
        BY <2>1, <4>1, ZeroType
      <4> QED
        BY <2>1, <4>1, <4>2, NoneMap
    <3> QED
      BY <3>1, <3>2
  <2>5. \A e \in Entry : statistics[e] # None => statistics'[e] = statistics[e]
    BY <2>1, <2>4
  <2>6. \A e \in Entry : statistics[e] = None => statistics'[e] \in {None, Zero}
    BY <2>1, <2>4
  <2>7. \A e \in Entry : Counted(e)' = Counted(e)
    <3>1. Zero.overall = 0
      BY DEF Zero
    <3> QED
      BY <2>1, <2>4, <2>5, <2>6, <3>1 DEF Counted, Known
  <2>8. \A e : /\ At(e, Coming)' = At(e, Coming)
               /\ At(e, {"current", "current+"}) = 0 /\ At(e, {"current", "current+"})' = 0
    BY <1>1, <2>2 DEF At, Coming
  <2>9. FirstInv'
    BY <1>1, <2>1, <2>2 DEF FirstInv
  <2>10. TallyInv'
    BY <1>1, <1>3, <2>7, <2>8 DEF CountInv, TallyInv
  <2>11. SnapshotInv'
    <3>1. ASSUME NEW e \in Entry, statistics'[e] # None
          PROVE  LET s == statistics'[e]
                     rest == Rest(s) - At(e, {"current", "current+"})'
                 IN  /\ s.current >= 0 /\ \A i \in 1..Len(s.history) : s.history[i] >= 0
                     /\ rest >= 0
                     /\ (\A n \in Counts \cup {DefaultCount} : Len(s.history) < n) => rest = 0
      <4>1. CASE statistics[e] # None
        <5>1. statistics'[e] = statistics[e] /\ Known(e)
          BY <2>1, <2>5, <4>1 DEF Known
        <5> QED
          BY <1>3, <2>8, <5>1 DEF CountInv, SnapshotInv
      <4>2. CASE statistics[e] = None
        <5>1. statistics'[e] = Zero
          BY <2>6, <3>1, <4>2
        <5>2. Zero.current = 0 /\ Zero.history = <<>> /\ Rest(Zero) = 0
          BY SumOfNone DEF Zero, Rest
        <5> QED
          BY <2>8, <5>1, <5>2
      <4> QED
        BY <4>1, <4>2
    <3>2. \A e : Known(e)' => statistics'[e] # None
      BY DEF Known
    <3> QED
      BY <1>1, <3>1, <3>2 DEF SnapshotInv
  <2> QED
    BY <2>9, <2>10, <2>11
<1> QED
  BY <1>1, <1>2, <1>3 DEF CountInv

LEMMA ReadCounts ==
  ASSUME Inv, CountInv, NEW p \in Processor, ReadCount(p)
  PROVE  CountInv'
<1> USE DEF Inv, TypeOK, SwitchTypeOK, ProcessorTypeOK
<1>1. /\ UNCHANGED <<channel, closed, count, target, statistics, owner, got, buf, accepted>>
      /\ ppc[p] \in {"overall", "current"}
  BY DEF ReadCount, admins, handlers, switch
<1>2. BehindInv'
  BY <1>1 DEF CountInv, BehindInv
<1>3. ASSUME closed = {}
      PROVE  FirstInv' /\ TallyInv' /\ SnapshotInv'
  <2>1. channel = 1 /\ p = 1 /\ 1 \in Processor /\ Attached(1)
    <3>1. channel = 1 /\ p = 1
      BY <1>1, <1>3, FirstPhase
    <3> QED
      BY <1>1, <1>3, <3>1, FirstPhase DEF Counting
  <2>2. ppc'[1] = IF ppc[1] = "overall" THEN "overall+" ELSE "current+"
    BY <2>1 DEF ReadCount, PGoto
  <2>3. /\ ppc[1] = "overall" => seen'[1] = statistics[got[1]].overall
        /\ ppc[1] = "current" => seen'[1] = statistics[got[1]].current
    BY <2>1 DEF ReadCount
  <2>4. FirstInv'
    BY <1>1, <1>3, <2>1, <2>2, <2>3 DEF CountInv, FirstInv, Counting
  <2>5. \A e : /\ Known(e)' = Known(e) /\ Counted(e)' = Counted(e)
               /\ At(e, Coming)' = At(e, Coming)
               /\ At(e, {"current", "current+"})' = At(e, {"current", "current+"})
    BY <1>1, <2>1, <2>2 DEF Known, Counted, At, Coming
  <2> QED
    BY <1>1, <1>3, <2>4, <2>5 DEF CountInv, TallyInv, SnapshotInv
<1> QED
  BY <1>1, <1>2, <1>3 DEF CountInv

LEMMA RaisedType ==
  ASSUME NEW s \in Statistic, NEW n \in Int
  PROVE  /\ [s EXCEPT !.overall = n] \in Statistic /\ [s EXCEPT !.overall = n].overall = n
         /\ [s EXCEPT !.overall = n].current = s.current /\ [s EXCEPT !.overall = n].history = s.history
         /\ [s EXCEPT !.current = n] \in Statistic /\ [s EXCEPT !.current = n].current = n
         /\ [s EXCEPT !.current = n].overall = s.overall /\ [s EXCEPT !.current = n].history = s.history
BY DEF Statistic

LEMMA WriteCounts ==
  ASSUME Inv, CountInv, NEW p \in Processor, WriteCount(p)
  PROVE  CountInv'
<1> USE DEF Inv, TypeOK, SwitchTypeOK, ProcessorTypeOK
<1>1. /\ UNCHANGED <<channel, closed, count, target, owner, seen, got, buf, accepted>>
      /\ ppc[p] \in {"overall+", "current+"}
  BY DEF WriteCount, admins, handlers
<1>2. BehindInv'
  BY <1>1 DEF CountInv, BehindInv
<1>3. ASSUME closed = {}
      PROVE  FirstInv' /\ TallyInv' /\ SnapshotInv'
  <2>0. channel = 1 /\ p = 1
    BY <1>1, <1>3, FirstPhase
  <2>1. /\ 1 \in Processor /\ Attached(1) /\ Known(got[1]) /\ got[1] \in Entry
        /\ statistics \in [Entry -> Statistic \cup {None}]
    BY <1>1, <1>3, <2>0, FirstPhase DEF Counting
  <2>2. PICK g \in Entry : g = got[1] /\ statistics[g] \in Statistic
    BY <2>1 DEF Known
  <2>3. PICK s \in Statistic : s = statistics[g]
    BY <2>2
  <2>4. ppc[1] \in {"overall+", "current+"} /\ ppc'[1] = IF ppc[1] = "overall+" THEN "current" ELSE "select"
    BY <1>1, <2>0, <2>1 DEF WriteCount, PGoto
  <2>5. s.overall \in Int /\ s.current \in Int /\ s.history \in Seq(Int) /\ Sum(s.history) \in Int
    BY SumType DEF Statistic
  <2>6. PICK t \in Statistic :
          /\ statistics' = [statistics EXCEPT ![g] = t]
          /\ t.history = s.history
          /\ t.overall = s.overall + (IF ppc[1] = "overall+" THEN 1 ELSE 0)
          /\ t.current = s.current + (IF ppc[1] = "overall+" THEN 0 ELSE 1)
    <3>1. CASE ppc[1] = "overall+"
      <4>1. seen[1] = s.overall
        BY <1>3, <2>0, <2>2, <2>3, <3>1 DEF CountInv, FirstInv
      <4>2. statistics' = [statistics EXCEPT ![g] = [s EXCEPT !.overall = s.overall + 1]]
        BY <2>0, <2>1, <2>2, <2>3, <3>1, <4>1 DEF WriteCount
      <4> DEFINE t == [s EXCEPT !.overall = s.overall + 1]
      <4>3. t \in Statistic /\ t.history = s.history /\ t.overall = s.overall + 1 /\ t.current = s.current
        <5>1. PICK n \in Int : n = s.overall + 1
          BY <2>5
        <5>2. t = [s EXCEPT !.overall = n]
          BY <5>1
        <5> HIDE DEF t
        <5> QED
          BY <5>1, <5>2, RaisedType
      <4> HIDE DEF t
      <4>4. statistics' = [statistics EXCEPT ![g] = t]
        BY <4>2 DEF t
      <4>5. /\ t.overall = s.overall + (IF ppc[1] = "overall+" THEN 1 ELSE 0)
            /\ t.current = s.current + (IF ppc[1] = "overall+" THEN 0 ELSE 1)
        BY <2>5, <3>1, <4>3
      <4> QED
        BY <4>3, <4>4, <4>5
    <3>2. CASE ppc[1] = "current+"
      <4>1. seen[1] = s.current
        BY <1>3, <2>0, <2>2, <2>3, <3>2 DEF CountInv, FirstInv
      <4>2. statistics' = [statistics EXCEPT ![g] = [s EXCEPT !.current = s.current + 1]]
        BY <2>0, <2>1, <2>2, <2>3, <3>2, <4>1 DEF WriteCount
      <4> DEFINE t == [s EXCEPT !.current = s.current + 1]
      <4>3. t \in Statistic /\ t.history = s.history /\ t.overall = s.overall /\ t.current = s.current + 1
        <5>1. PICK n \in Int : n = s.current + 1
          BY <2>5
        <5>2. t = [s EXCEPT !.current = n]
          BY <5>1
        <5> HIDE DEF t
        <5> QED
          BY <5>1, <5>2, RaisedType
      <4> HIDE DEF t
      <4>4. statistics' = [statistics EXCEPT ![g] = t]
        BY <4>2 DEF t
      <4>5. /\ t.overall = s.overall + (IF ppc[1] = "overall+" THEN 1 ELSE 0)
            /\ t.current = s.current + (IF ppc[1] = "overall+" THEN 0 ELSE 1)
        BY <2>5, <3>2, <4>3
      <4> QED
        BY <4>3, <4>4, <4>5
    <3> QED
      BY <2>4, <3>1, <3>2
  <2>7. statistics' \in [Entry -> Statistic \cup {None}]
    BY <2>1, <2>6
  <2>8. statistics' # None /\ \A e \in Entry : statistics'[e] = IF e = g THEN t ELSE statistics[e]
    BY <2>1, <2>6, <2>7, NoneMap
  <2>9. FirstInv'
    BY <1>1, <1>3, <2>0, <2>4 DEF CountInv, FirstInv, Counting
  <2>10. ASSUME NEW e \in Entry
         PROVE  /\ e # g => /\ Known(e)' = Known(e) /\ Counted(e)' = Counted(e)
                            /\ At(e, Coming)' = At(e, Coming)
                            /\ At(e, {"current", "current+"})' = At(e, {"current", "current+"})
                /\ e = g => /\ Counted(e)' = t.overall /\ Counted(e) = s.overall /\ Known(e)
                            /\ At(e, Coming) = IF ppc[1] = "overall+" THEN 1 ELSE 0
                            /\ At(e, Coming)' = 0
                            /\ At(e, {"current", "current+"}) = IF ppc[1] = "overall+" THEN 0 ELSE 1
                            /\ At(e, {"current", "current+"})' = IF ppc[1] = "overall+" THEN 1 ELSE 0
    <3>1. statistics # None
      BY <2>1, NoneMap
    <3>2. ASSUME e # g
          PROVE  Known(e)' = Known(e) /\ Counted(e)' = Counted(e)
      BY <2>8, <3>1, <3>2 DEF Known, Counted
    <3>3. ASSUME e = g
          PROVE  Counted(e)' = t.overall /\ Counted(e) = s.overall /\ Known(e)
      BY <2>2, <2>3, <2>8, <3>1, <3>3, NoneMap DEF Known, Counted
    <3>4. ASSUME e # g, NEW places
          PROVE  At(e, places)' = At(e, places)
      BY <1>1, <2>2, <3>4 DEF At
    <3>5. ASSUME e = g
          PROVE  /\ At(e, Coming) = IF ppc[1] = "overall+" THEN 1 ELSE 0
                 /\ At(e, Coming)' = 0
                 /\ At(e, {"current", "current+"}) = IF ppc[1] = "overall+" THEN 0 ELSE 1
                 /\ At(e, {"current", "current+"})' = IF ppc[1] = "overall+" THEN 1 ELSE 0
      BY <1>1, <2>0, <2>2, <2>4, <3>5 DEF At, Coming
    <3> QED
      BY <3>2, <3>3, <3>4, <3>5
  <2>11. TallyInv'
    <3>1. ASSUME NEW e \in Entry
          PROVE  accepted'[e] = Occ(buf'[1], e) + At(e, Coming)' + Counted(e)'
      <4>1. accepted[e] = Occ(buf[1], e) + At(e, Coming) + Counted(e)
        BY <1>3, <2>0 DEF CountInv, TallyInv
      <4>2. Occ(buf[1], e) \in Int
        BY <2>1, OccType DEF ChannelTypeOK, Processor
      <4>3. CASE e # g
        BY <1>1, <2>10, <4>1, <4>3
      <4>4. CASE e = g
        <5>1. At(e, Coming) + Counted(e) = At(e, Coming)' + Counted(e)'
          BY <2>5, <2>6, <2>10, <4>4
        <5>2. At(e, Coming) \in Int /\ Counted(e) \in Int /\ At(e, Coming)' \in Int /\ Counted(e)' \in Int
          BY <2>5, <2>6, <2>10, <4>4
        <5> QED
          BY <1>1, <4>1, <4>2, <5>1, <5>2
      <4> QED
        BY <4>3, <4>4
    <3> QED
      BY <1>1, <2>0, <3>1 DEF TallyInv
  <2>12. SnapshotInv'
    <3>1. ASSUME NEW e \in Entry, Known(e)'
          PROVE  LET u == statistics'[e]
                     rest == Rest(u) - At(e, {"current", "current+"})'
                 IN  /\ u.current >= 0 /\ \A i \in 1..Len(u.history) : u.history[i] >= 0
                     /\ rest >= 0
                     /\ (\A n \in Counts \cup {DefaultCount} : Len(u.history) < n) => rest = 0
      <4>1. CASE e # g
        BY <1>3, <2>8, <2>10, <3>1, <4>1 DEF CountInv, SnapshotInv
      <4>2. CASE e = g
        <5>1. /\ s.current >= 0 /\ \A i \in 1..Len(s.history) : s.history[i] >= 0
              /\ Rest(s) - At(e, {"current", "current+"}) >= 0
              /\ (\A n \in Counts \cup {DefaultCount} : Len(s.history) < n)
                   => Rest(s) - At(e, {"current", "current+"}) = 0
          BY <1>3, <2>3, <2>10, <4>2 DEF CountInv, SnapshotInv
        <5>2. Rest(s) - At(e, {"current", "current+"}) = Rest(t) - At(e, {"current", "current+"})'
          BY <2>5, <2>6, <2>10, <4>2 DEF Rest
        <5>3. t.current >= 0 /\ statistics'[e] = t
          BY <2>5, <2>6, <2>8, <4>2, <5>1
        <5> QED
          BY <2>6, <5>1, <5>2, <5>3
      <4> QED
        BY <4>1, <4>2
    <3> QED
      BY <1>1, <3>1 DEF SnapshotInv
  <2> QED
    BY <2>9, <2>11, <2>12
<1> QED
  BY <1>1, <1>2, <1>3 DEF CountInv

LEMMA LookCounts ==
  ASSUME Inv, CountInv, NEW p \in Processor, lookForStatistics(p)
  PROVE  CountInv'
<1> USE DEF Inv, TypeOK, SwitchTypeOK, ProcessorTypeOK
<1>1. /\ UNCHANGED <<channel, closed, count, target, statistics, seen, got, buf, accepted>>
      /\ ppc[p] = "lookup"
  BY DEF lookForStatistics, admins, handlers, switch
<1>2. BehindInv'
  BY <1>1 DEF CountInv, BehindInv
<1>3. ASSUME closed = {}
      PROVE  FirstInv' /\ TallyInv' /\ SnapshotInv'
  <2>1. channel = 1 /\ p = 1 /\ 1 \in Processor
    BY <1>1, <1>3, FirstPhase
  <2>2. ppc'[1] \in {"overall", "create"} /\ (ppc'[1] = "overall" => owner'[1] = 1)
    BY <2>1 DEF lookForStatistics, PGoto
  <2>3. FirstInv'
    BY <1>1, <2>1, <2>2 DEF FirstInv, Counting
  <2>4. \A e : /\ Known(e)' = Known(e) /\ Counted(e)' = Counted(e)
               /\ At(e, Coming)' = At(e, Coming)
               /\ At(e, {"current", "current+"})' = At(e, {"current", "current+"})
    BY <1>1, <2>1, <2>2 DEF Known, Counted, At, Coming
  <2> QED
    BY <1>1, <1>3, <2>3, <2>4 DEF CountInv, TallyInv, SnapshotInv
<1> QED
  BY <1>1, <1>2, <1>3 DEF CountInv

LEMMA CountInit == Init => CountInv
<1> SUFFICES ASSUME Init PROVE CountInv
  OBVIOUS
<1>1. channel = 0 /\ statistics = None
  BY DEF Init
<1>2. BehindInv
  BY DEF Init, BehindInv
<1>3. FirstInv
  BY <1>1 DEF FirstInv
<1>4. TallyInv
  BY <1>1 DEF Init, TallyInv, At, Counted, Known
<1>5. SnapshotInv
  BY <1>1 DEF SnapshotInv, Known
<1> QED
  BY <1>2, <1>3, <1>4, <1>5 DEF Init, CountInv

LEMMA CountNext == Inv /\ CountInv /\ [Next]_vars => CountInv'
<1> SUFFICES ASSUME Inv, CountInv, [Next]_vars PROVE CountInv'
  OBVIOUS
<1>0. count \in Counts \cup {DefaultCount} /\ \A h \in Handler : target[h] <= channel
  BY DEF CountInv, BehindInv
<1>1. ASSUME UNCHANGED vars PROVE CountInv'
  BY <1>0, <1>1, CountStays DEF vars, switch, admins, handlers, processors
<1>2. ASSUME NEW a \in Admin, Switch(a) PROVE CountInv'
  BY <1>0, <1>2, CountStays DEF Switch, handlers, processors
<1>3. ASSUME NEW a \in Admin, NEW w \in Switches, Ask(a, w) PROVE CountInv'
  BY <1>0, <1>3, CountStays DEF Ask, switch, handlers, processors
<1>4. ASSUME NEW n \in Counts, SetCount(n) PROVE CountInv'
  BY <1>0, <1>4, CountStays DEF SetCount, switch, handlers, processors
<1>5. ASSUME NEW h \in Handler, NEW q \in Query, Begin(h, q) PROVE CountInv'
  BY <1>0, <1>5, CountStays DEF Begin, switch, admins, processors
<1>6. ASSUME NEW h \in Handler, End(h) \/ Check(h) PROVE CountInv'
  BY <1>0, <1>6, CountStays DEF End, Check, switch, admins, processors
<1>7. ASSUME NEW h \in Handler, Evaluate(h) PROVE CountInv'
  <2>1. /\ UNCHANGED <<channel, closed, buf, accepted, statistics, got, owner, seen, ppc, count>>
        /\ target' = [target EXCEPT ![h] = channel]
    BY <1>7 DEF Evaluate, switch, admins, processors
  <2>2. \A g \in Handler : target'[g] <= channel
    <3>1. channel \in Nat /\ target \in [Handler -> 0..MaxOn]
      BY BoundAssumption DEF Inv, TypeOK, SwitchTypeOK, HandlerTypeOK
    <3> QED
      BY <1>0, <2>1, <3>1
  <2> QED
    BY <1>0, <2>1, <2>2, CountStays
<1>8. ASSUME NEW p \in Processor, Listen(p) \/ Tick(p) \/ lookForStatistics(p) PROVE CountInv'
  <2>1. /\ UNCHANGED <<channel, closed, buf, accepted, statistics, got, seen, count, target>>
    BY <1>8 DEF Listen, Tick, lookForStatistics, switch, admins, handlers
  <2>2. CASE UNCHANGED owner /\ ~lookForStatistics(p)
    <3>1. ppc' = [ppc EXCEPT ![p] = "wait"] \/ ppc' = [ppc EXCEPT ![p] = "shift"]
      BY <1>8, <2>2 DEF Listen, Tick, PGoto
    <3>2. ppc[p] \in {"select", "wait"}
      BY <1>8, <2>2 DEF Listen, Tick
    <3>3. \A r \in Processor : ppc'[r] = ppc[r] \/ (ppc[r] \in {"select", "wait"} /\ ppc'[r] \in {"wait", "shift"})
      BY <3>1, <3>2 DEF Inv, TypeOK, ProcessorTypeOK
    <3>4. channel = 1 => 1 \in Processor
      BY BoundAssumption DEF Inv, TypeOK, SwitchTypeOK, Processor, Channel
    <3> QED
      BY <1>0, <2>1, <2>2, <3>3, <3>4, CountStays DEF Coming, Counting
  <2>3. CASE lookForStatistics(p)
    BY <2>3, LookCounts
  <2> QED
    BY <1>8, <2>2, <2>3 DEF Listen, Tick
<1>9. ASSUME NEW a \in Admin, Close(a) PROVE CountInv'
  <2>1. closed' # {} /\ UNCHANGED <<channel, buf, target, count>>
    BY <1>9 DEF Close, handlers
  <2> QED
    BY <1>0, <2>1 DEF CountInv, BehindInv
<1> QED
  BY <1>1, <1>2, <1>3, <1>4, <1>5, <1>6, <1>7, <1>8, <1>9, OpenCounts, SendCounts, ReceiveCounts,
     ShiftCounts, CreateCounts, ReadCounts, WriteCounts
  DEF Next, AdminStep, HandlerStep, ProcessorStep

LEMMA CountInductive == Spec => []CountInv
BY CountInit, CountNext, Invariance, PTL DEF Spec

-----------------------------------------------------------------------------
(* Entries of the empty text: who sends them, and where they can be.       *)

StrayersInv ==
  /\ \A h \in Handler : hpc[h] \in {"check", "evaluate", "send"} /\ entry[h] = NoQuery =>
                         h \in crossed
  /\ \A h \in Handler : hpc[h] = "do" /\ entry[h] = NoQuery /\ collect => h \in crossed
  /\ logLonger => \A h \in Handler : hpc[h] # "idle" => entry[h] # NoQuery
  /\ crossed # {} => strayed
  /\ strayed => ~logLonger

Busy == {"lookup", "create"} \cup Counting

NoStrayInv ==
  /\ buf \in [Channel -> Seq(Query)]
  /\ \A p \in Processor : ppc[p] \in Busy => got[p] \in Query
  /\ ~Known(NoQuery)

StrayInv == StrayersInv /\ (~strayed => NoStrayInv)

LEMMA StrayInit == Init => StrayInv
BY DEF Init, StrayInv, StrayersInv, NoStrayInv, Busy, Counting, Known

(* Switching on crosses the requests that are not timed.                   *)
LEMMA SwitchCrosses ==
  ASSUME Inv, StrayersInv, NEW a \in Admin, Switch(a)
  PROVE  StrayersInv'
<1>1. CASE UNCHANGED <<collect, crossed, strayed>>
  BY <1>1 DEF Switch, StrayersInv, handlers
<1>2. CASE /\ collect' = want[a] /\ want[a] # collect
           /\ crossed' = crossed \cup (IF want[a] THEN Untimed ELSE {})
           /\ strayed' = (crossed' # {} \/ strayed)
  <2>1. UNCHANGED <<hpc, entry, logLonger>>
    BY DEF Switch, handlers
  <2>2. want[a] \in BOOLEAN /\ collect \in BOOLEAN
    BY DEF Inv, TypeOK, SwitchTypeOK
  <2>3. (strayed' <=> crossed' # {} \/ strayed) /\ (collect' <=> want[a])
    BY <1>2
  <2>4. crossed \subseteq crossed' /\ (want[a] => Untimed \subseteq crossed')
    BY <1>2
  <2>5. crossed' # {} => crossed # {} \/ Untimed # {}
    BY <1>2
  <2>6. Untimed # {} => ~logLonger
    BY DEF Untimed, StrayersInv
  <2>7. strayed' => ~logLonger
    BY <2>3, <2>5, <2>6 DEF StrayersInv
  <2>8. \A h \in Handler : hpc[h] = "do" /\ entry[h] = NoQuery /\ collect' => h \in crossed'
    BY <2>3, <2>4 DEF Untimed
  <2>9. \A h \in Handler : hpc[h] \in {"check", "evaluate", "send"} /\ entry[h] = NoQuery =>
                            h \in crossed'
    BY <2>4 DEF StrayersInv
  <2>10. crossed' # {} => strayed'
    BY <2>3
  <2>11. logLonger => \A h \in Handler : hpc[h] # "idle" => entry[h] # NoQuery
    BY DEF StrayersInv
  <2> QED
    BY <2>1, <2>7, <2>8, <2>9, <2>10, <2>11 DEF StrayersInv
<1> QED
  BY <1>1, <1>2 DEF Switch

LEMMA StrayersNext ==
  ASSUME NoQuery \notin Query, Inv, StrayersInv, [Next]_vars
  PROVE  StrayersInv'
<1>0. hpc \in [Handler -> {"idle", "do", "check", "evaluate", "send"}] /\ entry \in [Handler -> Entry]
  BY DEF Inv, TypeOK, HandlerTypeOK
<1>1. ASSUME NEW a \in Admin, Switch(a) PROVE StrayersInv'
  BY <1>1, SwitchCrosses
<1>2. ASSUME NEW h \in Handler, NEW q \in Query, Begin(h, q) PROVE StrayersInv'
  <2>1. /\ entry' = [entry EXCEPT ![h] = IF collect \/ logLonger THEN q ELSE NoQuery]
        /\ hpc' = [hpc EXCEPT ![h] = "do"] /\ crossed' = crossed \ {h}
        /\ UNCHANGED <<collect, logLonger, strayed>>
    BY <1>2 DEF Begin, HGoto, switch
  <2>2. \A g \in Handler : g # h => hpc'[g] = hpc[g] /\ entry'[g] = entry[g] /\
                                    (g \in crossed => g \in crossed')
    BY <1>0, <2>1
  <2>3. hpc'[h] = "do" /\ (collect \/ logLonger => entry'[h] # NoQuery)
    BY <1>0, <2>1
  <2>4. \A g \in Handler : hpc'[g] \in {"check", "evaluate", "send"} /\ entry'[g] = NoQuery =>
                            g \in crossed'
    BY <2>2, <2>3 DEF StrayersInv
  <2>5. \A g \in Handler : hpc'[g] = "do" /\ entry'[g] = NoQuery /\ collect => g \in crossed'
    BY <2>2, <2>3 DEF StrayersInv
  <2>6. logLonger => \A g \in Handler : hpc'[g] # "idle" => entry'[g] # NoQuery
    BY <2>2, <2>3 DEF StrayersInv
  <2>7. (crossed' # {} => strayed) /\ (strayed => ~logLonger)
    BY <2>1 DEF StrayersInv
  <2> QED
    BY <2>1, <2>4, <2>5, <2>6, <2>7 DEF StrayersInv
<1>3. ASSUME NEW h \in Handler, HandlerStep(h) PROVE StrayersInv'
  <2>1. UNCHANGED <<collect, entry, timing>>
    BY <1>3 DEF HandlerStep, End, Check, Evaluate, Send, switch
  <2>2. \A g \in Handler : g # h => hpc'[g] = hpc[g]
    BY <1>0, <1>3 DEF HandlerStep, End, Check, Evaluate, Send, HGoto
  <2>3. hpc[h] # "idle" /\ hpc'[h] # "do"
    BY <1>0, <1>3 DEF HandlerStep, End, Check, Evaluate, Send, HGoto
  <2>4. hpc'[h] # "idle" => collect \/ hpc[h] \in {"check", "evaluate", "send"}
    BY <1>0, <1>3 DEF HandlerStep, End, Check, Evaluate, Send, HGoto
  <2>5. hpc'[h] # "idle" /\ entry[h] = NoQuery => h \in crossed
    BY <1>0, <2>3, <2>4 DEF StrayersInv
  <2> QED
    BY <2>1, <2>2, <2>3, <2>5 DEF StrayersInv, timing
<1>4. ASSUME NEW a \in Admin, Open(a) \/ Close(a) \/ \E w \in Switches : Ask(a, w)
      PROVE  StrayersInv'
  BY <1>4 DEF Open, Close, Ask, StrayersInv, handlers, timing, switch
<1>5. ASSUME NEW n \in Counts, SetCount(n) PROVE StrayersInv'
  BY <1>5 DEF SetCount, StrayersInv, handlers, timing, switch
<1>6. ASSUME NEW p \in Processor, ProcessorStep(p) \/ Tick(p) PROVE StrayersInv'
  BY <1>6
  DEF ProcessorStep, Listen, Receive, Tick, Shift, lookForStatistics, createStatistics,
      ReadCount, WriteCount, StrayersInv, handlers, timing, switch
<1>7. CASE UNCHANGED vars
  BY <1>7 DEF vars, StrayersInv, handlers, timing, switch
<1> QED
  BY <1>1, <1>2, <1>3, <1>4, <1>5, <1>6, <1>7 DEF Next, AdminStep

LEMMA StrayedStays == Inv /\ [Next]_vars => (strayed => strayed')
<1> SUFFICES ASSUME Inv, [Next]_vars, strayed PROVE strayed'
  OBVIOUS
<1>1. ASSUME NEW a \in Admin, Switch(a) PROVE strayed'
  BY <1>1 DEF Switch
<1>2. CASE UNCHANGED strayed
  BY <1>2
<1> QED
  BY <1>1, <1>2
  DEF Next, AdminStep, HandlerStep, ProcessorStep, Open, Close, Ask, SetCount, Begin, End, Check,
      Evaluate, Send, Listen, Receive, Tick, Shift, lookForStatistics, createStatistics,
      ReadCount, WriteCount, timing, vars

LEMMA NoStrayStays ==
  ASSUME NoStrayInv, UNCHANGED <<statistics, buf, got>>,
         \A p \in Processor : ppc'[p] \in Busy => ppc[p] \in Busy
  PROVE  NoStrayInv'
BY DEF NoStrayInv, Known

LEMMA NoStrayNext ==
  ASSUME NoQuery \notin Query, Inv, StrayersInv, ~strayed, NoStrayInv, [Next]_vars
  PROVE  NoStrayInv'
<1>0. /\ hpc \in [Handler -> {"idle", "do", "check", "evaluate", "send"}] /\ entry \in [Handler -> Entry]
      /\ ppc \in [Processor -> {"none", "select", "wait", "shift", "lookup", "create", "overall",
                                "overall+", "current", "current+", "gone"}]
      /\ got \in [Processor -> Entry] /\ buf \in [Channel -> Seq(Query)]
      /\ channel \in 0..MaxOn
  BY DEF Inv, TypeOK, SwitchTypeOK, HandlerTypeOK, ProcessorTypeOK, NoStrayInv
<1>1. ASSUME UNCHANGED vars PROVE NoStrayInv'
  BY <1>1, NoStrayStays DEF vars, switch, admins, handlers, processors
<1>2. ASSUME NEW a \in Admin, Switch(a) \/ \E w \in Switches : Ask(a, w) PROVE NoStrayInv'
  BY <1>2, NoStrayStays DEF Switch, Ask, handlers, processors, switch
<1>3. ASSUME NEW a \in Admin, Open(a) PROVE NoStrayInv'
  <2>1. ppc' = [ppc EXCEPT ![channel'] = "select"] /\ statistics' = [e \in Entry |-> None]
    BY <1>3 DEF Open
  <2>2. ~Known(NoQuery)'
    BY <2>1 DEF Known, Entry
  <2>3. \A p \in Processor : ppc'[p] \in Busy => ppc[p] \in Busy
    BY <1>0, <2>1 DEF Busy, Counting
  <2> QED
    BY <1>3, <2>2, <2>3 DEF Open, NoStrayInv, handlers
<1>4. ASSUME NEW a \in Admin, Close(a) PROVE NoStrayInv'
  BY <1>4 DEF Close, NoStrayInv, Known, handlers, processors
<1>5. ASSUME NEW n \in Counts, SetCount(n) PROVE NoStrayInv'
  BY <1>5, NoStrayStays DEF SetCount, switch, handlers, processors
<1>6. ASSUME NEW h \in Handler, NEW q \in Query, Begin(h, q) PROVE NoStrayInv'
  BY <1>6, NoStrayStays DEF Begin, switch, processors
<1>7. ASSUME NEW h \in Handler, End(h) \/ Check(h) \/ Evaluate(h) PROVE NoStrayInv'
  BY <1>7, NoStrayStays DEF End, Check, Evaluate, switch, processors
<1>8. ASSUME NEW h \in Handler, Send(h) PROVE NoStrayInv'
  <2>1. UNCHANGED <<statistics, got, ppc>>
    BY <1>8 DEF Send, switch, processors
  <2>2. entry[h] \in Query
    BY <1>0, <1>8 DEF Send, StrayersInv, Entry
  <2>3. \/ buf' = buf
        \/ target[h] \in Channel /\ buf' = [buf EXCEPT ![target[h]] = Append(@, entry[h])]
    BY <1>8, ChannelType DEF Send, Inv, TypeOK, HandlerTypeOK
  <2>4. buf' \in [Channel -> Seq(Query)]
    <3>1. ASSUME target[h] \in Channel
          PROVE  Append(buf[target[h]], entry[h]) \in Seq(Query)
      BY <1>0, <2>2, <3>1
    <3> QED
      BY <1>0, <2>3, <3>1
  <2> QED
    BY <2>1, <2>4 DEF NoStrayInv, Known
<1>9. ASSUME NEW p \in Processor, Receive(p) PROVE NoStrayInv'
  <2>1. UNCHANGED <<statistics>>
    BY <1>9 DEF Receive, switch, handlers
  <2>2. \/ /\ on[p] \in Channel /\ buf[on[p]] # <<>> /\ got' = [got EXCEPT ![p] = Head(buf[on[p]])]
           /\ buf' = [buf EXCEPT ![on[p]] = Tail(@)] /\ ppc' = [ppc EXCEPT ![p] = "lookup"]
        \/ ppc' = [ppc EXCEPT ![p] = "gone"] /\ UNCHANGED <<got, buf>>
    <3>1. on[p] \in Channel
      BY <1>9, BoundAssumption DEF Receive, Inv, TypeOK, ProcessorTypeOK, ProcessorInv, SwitchTypeOK, Channel, Processor
    <3> QED
      BY <1>9, <3>1 DEF Receive, PGoto
  <2>3. CASE ppc' = [ppc EXCEPT ![p] = "gone"] /\ UNCHANGED <<got, buf>>
    BY <1>0, <2>1, <2>3, NoStrayStays DEF Busy, Counting
  <2>4. CASE /\ on[p] \in Channel /\ buf[on[p]] # <<>> /\ got' = [got EXCEPT ![p] = Head(buf[on[p]])]
             /\ buf' = [buf EXCEPT ![on[p]] = Tail(@)] /\ ppc' = [ppc EXCEPT ![p] = "lookup"]
    <3>1. buf[on[p]] \in Seq(Query)
      BY <1>0, <2>4
    <3>2. Head(buf[on[p]]) \in Query /\ Tail(buf[on[p]]) \in Seq(Query)
      BY <2>4, <3>1
    <3>3. buf' \in [Channel -> Seq(Query)]
      BY <1>0, <2>4, <3>2
    <3>4. \A r \in Processor : ppc'[r] \in Busy => got'[r] \in Query
      BY <1>0, <2>4, <3>2 DEF NoStrayInv
    <3> QED
      BY <2>1, <3>3, <3>4 DEF NoStrayInv, Known
  <2> QED
    BY <2>2, <2>3, <2>4
<1>10. ASSUME NEW p \in Processor, Listen(p) \/ Tick(p) \/ lookForStatistics(p) \/ ReadCount(p)
       PROVE  NoStrayInv'
  <2>1. UNCHANGED <<statistics, buf, got>>
    BY <1>10 DEF Listen, Tick, lookForStatistics, ReadCount, switch, handlers
  <2>2. \A r \in Processor : ppc'[r] \in Busy => ppc[r] \in Busy
    BY <1>0, <1>10 DEF Listen, Tick, lookForStatistics, ReadCount, PGoto, Busy, Counting
  <2> QED
    BY <2>1, <2>2, NoStrayStays
<1>11. ASSUME NEW p \in Processor, Shift(p) \/ createStatistics(p) \/ WriteCount(p)
       PROVE  NoStrayInv'
  <2>1. UNCHANGED <<buf, got>>
    BY <1>11 DEF Shift, createStatistics, WriteCount, handlers
  <2>2. \A r \in Processor : ppc'[r] \in Busy => ppc[r] \in Busy
    BY <1>0, <1>11 DEF Shift, createStatistics, WriteCount, PGoto, Busy, Counting
  <2>3. createStatistics(p) \/ WriteCount(p) => got[p] # NoQuery
    BY DEF createStatistics, WriteCount, NoStrayInv, Busy, Counting
  <2>4. ~Known(NoQuery)'
    <3>1. statistics # None => statistics \in [Entry -> Statistic \cup {None}] /\ statistics[NoQuery] = None
      BY DEF Inv, TypeOK, SwitchTypeOK, NoStrayInv, Known
    <3>2. statistics' = None \/ statistics'[NoQuery] = None
      <4>1. CASE Shift(p)
        BY <3>1, <4>1 DEF Shift, Entry
      <4>2. CASE createStatistics(p)
        <5>1. \/ statistics' = statistics
              \/ statistics # None /\ statistics' = [statistics EXCEPT ![got[p]] = Zero]
          BY <4>2 DEF createStatistics
        <5>2. NoQuery \in Entry /\ got[p] # NoQuery
          BY <2>3, <4>2 DEF Entry
        <5> QED
          BY <3>1, <5>1, <5>2
      <4>3. CASE WriteCount(p)
        BY <1>0, <2>3, <3>1, <4>3 DEF WriteCount, Attached
      <4> QED
        BY <1>11, <4>1, <4>2, <4>3
    <3> QED
      BY <3>2 DEF Known
  <2> QED
    BY <2>1, <2>2, <2>4 DEF NoStrayInv
<1> QED
  BY <1>1, <1>2, <1>3, <1>4, <1>5, <1>6, <1>7, <1>8, <1>9, <1>10, <1>11
  DEF Next, AdminStep, HandlerStep, ProcessorStep

LEMMA StrayNext == NoQuery \notin Query /\ Inv /\ StrayInv /\ [Next]_vars => StrayInv'
<1> SUFFICES ASSUME NoQuery \notin Query, Inv, StrayInv, [Next]_vars PROVE StrayInv'
  OBVIOUS
<1>1. StrayersInv'
  BY StrayersNext DEF StrayInv
<1>2. ASSUME ~strayed' PROVE NoStrayInv'
  BY <1>2, StrayedStays, NoStrayNext DEF StrayInv
<1> QED
  BY <1>1, <1>2 DEF StrayInv

(* Until collecting is first switched off, every entry put on the channel  *)
(* is on it, with the processor or counted, and none twice, whatever       *)
(* handlers and administrators do (statisticsProcessor).  No query being   *)
(* the empty text, the empty text is sent only for a request that began    *)
(* without its queryStatistics and met a switching on (ServeHTTP), never   *)
(* with the log of slow requests, and is counted only if there was one.    *)
THEOREM EntriesAreCountedOnce ==
  ASSUME NoQuery \notin Query
  PROVE  Spec => []CountedOnce
<1>1. Inv /\ StrayInv /\ [Next]_vars => StrayInv'
  BY StrayNext
<1>2. Inv /\ CountInv /\ StrayInv => CountedOnce
  BY CountAddsUp DEF StrayInv, StrayersInv, NoStrayInv, StraysExplained, CountedOnce
<1> QED
  BY <1>1, <1>2, StrayInit, Invariance, CountInductive, PTL DEF Spec

(* Entries are counted once even if a query is the empty text.             *)
THEOREM NothingIsLost == Spec => []NothingLost
BY CountAddsUp, Invariance, CountInductive, PTL

(* Until then, too: the history and the current snapshot hold what is counted in   *)
(* all (doShiftStatistics), but for snapshots that left a full history.    *)
THEOREM SnapshotsPartition == Spec => []SnapshotsAddUp
BY CountAddsUp, Invariance, CountInductive, PTL

-----------------------------------------------------------------------------
(* The schema: GQLSchema.                                                  *)

(* What is kept under a name, and what a generator may ask for. *)
Names == {"type", "input"} \X (Types \cup {"map"})
Asked == {"type", "input"} \X (Types \cup {"map", NoOne})
FrameSet == [for : Names \cup {<<>>}, rest : SUBSET Asked]

(* Something generated mentions a type that is not. *)
Blamed ==
  \/ \E f \in schema.fields : f.target \in Ignored
  \/ \E e \in Types \ Ignored : schema.find[e] \in Ignored
  \/ \E m \in schema.methods : (m.takes \cup m.gives) \cap Ignored # {}

Circular == \E types \in SUBSET (Types \ Ignored) : types # {} /\ Circle(types)

SchemaTypeOK ==
  /\ schema \in Schemas
  /\ phase \in {"types", "queries", "served", "refused", "panicked", "overflow"}
  /\ stack \in Seq(FrameSet)
  /\ made \in [Names -> Nat]

(* A generator that is being called is of a type that is not yet made, and *)
(* has asked for types that are made since, and for the one whose          *)
(* generator it waits for.                                                 *)
FrameFits(i) ==
  /\ stack[i].for = <<>> => i = 1
  /\ \A t \in stack[i].rest : Registered(t) \/ Blamed
  /\ stack[i].for # <<>> =>
       /\ Registered(stack[i].for) /\ made[stack[i].for] = 0
       /\ stack[i].rest \subseteq AsksFor(stack[i].for)
       /\ \A u \in AsksFor(stack[i].for) \ stack[i].rest :
            \/ u \in Names /\ made[u] > 0
            \/ i < Len(stack) /\ stack[i + 1].for = u
       /\ i < Len(stack) => stack[i + 1].for \in AsksFor(stack[i].for)
FramesInv == \A i \in 1..Len(stack) : FrameFits(i)

(* What generate has not reached, and what it has. *)
LoopsInv ==
  /\ phase = "types" =>
       /\ pending \subseteq Types \ Ignored
       /\ \A e \in Types \ Ignored :
            \/ e \in pending \/ made[<<"type", e>>] > 0
            \/ stack # <<>> /\ stack[1].for = <<"type", e>>
  /\ phase = "queries" =>
       \A op \in pending : op \in SUBSET Asked /\ \A t \in op : Registered(t) \/ Blamed
  /\ phase \in {"queries", "served", "refused"} => \A e \in Types \ Ignored : made[<<"type", e>>] > 0

(* A type whose values are in a circle is never made. *)
CircleInv ==
  \A types \in SUBSET (Types \ Ignored) :
    Circle(types) => \A e \in types : made[<<"type", e>>] = 0

OutcomeInv == (phase = "overflow" => Circular) /\ (phase = "panicked" => Blamed)

SchemaInv == SchemaTypeOK /\ FramesInv /\ LoopsInv /\ CircleInv /\ OutcomeInv /\ MadeOnce

-----------------------------------------------------------------------------
LEMMA NamesAreNotEmpty == \A t \in Asked : t # <<>>
BY DEF Asked

LEMMA NamesAreAsked == Names \subseteq Asked /\ \A e \in Types : <<"type", e>> \in Names
BY DEF Names, Asked

LEMMA RegisteredIsName ==
  ASSUME NEW t \in Asked, Registered(t)
  PROVE  t \in Names
BY TypesAssumption DEF Asked, Names, Registered

LEMMA Extended ==
  ASSUME NEW S, NEW b \in Seq(S), NEW x \in S
  PROVE  /\ (b \o <<x>>) \in Seq(S) /\ Len(b \o <<x>>) = Len(b) + 1
         /\ (b \o <<x>>)[Len(b) + 1] = x
         /\ \A i \in 1..Len(b) : (b \o <<x>>)[i] = b[i]
OBVIOUS

(* What a type's generator asks for: names under which types are kept, of  *)
(* types its fields are of.                                                *)
LEMMA SchemaParts ==
  ASSUME schema \in Schemas
  PROVE  /\ \A f \in schema.fields : f.owner \in Types /\ f.target \in Types /\ f.how \in {"one", "list", "id"}
         /\ \A e \in Types : schema.find[e] \in Types \cup {NoOne}
         /\ \A m \in schema.methods : m.owner \in Types /\ m.takes \subseteq Types /\ m.gives \subseteq Types
<1>1. schema \in SchemaShape
  BY SchemasAssumption
<1>2. schema.fields \subseteq Mentions /\ schema.find \in [Types -> Types \cup {NoOne}]
  BY <1>1 DEF SchemaShape
<1>3. schema.methods \subseteq [owner : Types, takes : SUBSET Types, gives : SUBSET Types]
  BY <1>1 DEF SchemaShape
<1>4. \A f \in schema.fields : f.owner \in Types /\ f.target \in Types /\ f.how \in {"one", "list", "id"}
  BY <1>2 DEF Mentions
<1> QED
  BY <1>2, <1>3, <1>4

LEMMA NamedIsAsked ==
  ASSUME NEW kind \in {"type", "input"}, NEW e \in Types
  PROVE  /\ Named(kind, e) \in Asked
         /\ Registered(Named(kind, e)) <=> e \notin Ignored
         /\ e \notin Ignored => Named(kind, e) = <<kind, e>>
<1>1. CASE Level(e) = "ignore"
  BY <1>1, TypesAssumption DEF Named, Asked, Registered, Ignored
<1>2. CASE Level(e) # "ignore"
  BY <1>2, TypesAssumption DEF Named, Asked, Registered, Ignored
<1> QED
  BY <1>1, <1>2

LEMMA MentionedParts ==
  ASSUME schema \in Schemas, NEW kind \in {"type", "input"}, NEW e, NEW t \in Mentioned(kind, e)
  PROVE  \/ t = <<kind, "map">>
         \/ \E f \in FieldsOf(e) : /\ ~((f.how = "id" \/ IdOnly(f)) /\ HasId(f.target))
                                   /\ t = Named(kind, f.target)
BY DEF Mentioned

LEMMA MentionedIsAsked ==
  ASSUME schema \in Schemas, NEW kind \in {"type", "input"}, NEW e, NEW t \in Mentioned(kind, e)
  PROVE  t \in Asked /\ (Registered(t) \/ Blamed)
<1>1. CASE t = <<kind, "map">>
  BY <1>1 DEF Asked, Registered
<1>2. CASE t # <<kind, "map">>
  <2>1. PICK f \in FieldsOf(e) : t = Named(kind, f.target)
    BY <1>2, MentionedParts
  <2>2. f \in schema.fields
    BY DEF FieldsOf
  <2>3. f.target \in Types
    BY <2>2, SchemaParts
  <2>4. t \in Asked /\ (Registered(t) <=> f.target \notin Ignored)
    BY <2>1, <2>3, NamedIsAsked
  <2>5. f.target \in Ignored => Blamed
    BY <2>2 DEF Blamed
  <2> QED
    BY <2>4, <2>5
<1> QED
  BY <1>1, <1>2

LEMMA AsksAreAsked ==
  ASSUME schema \in Schemas, NEW n \in Names, NEW t \in AsksFor(n)
  PROVE  /\ t \in Asked /\ (Registered(t) \/ Blamed)
         /\ n[2] # "map" /\ n[1] \in {"type", "input"} /\ t \in Mentioned(n[1], n[2])
<1>1. n[2] # "map" /\ n[1] \in {"type", "input"}
  BY DEF AsksFor, Names
<1>2. t \in Mentioned(n[1], n[2])
  BY <1>1 DEF AsksFor, TypeGenerator, InputGenerator
<1> QED
  BY <1>1, <1>2, MentionedIsAsked

LEMMA OperationsAreAsked ==
  ASSUME schema \in Schemas, NEW e \in Types, NEW op \in OperationsOf(e)
  PROVE  op \in SUBSET Asked /\ \A t \in op : Registered(t) \/ Blamed
<1>1. \/ op \in {LookupQuery(e), ListQuery(e), SetOrCreate(e), ConfigQuery(e), ConfigSetMutation(e)} /\ Level(e) = "all"
      \/ op = FindQuery(e) /\ Level(e) = "all" /\ schema.find[e] # NoOne
      \/ \E m \in schema.methods : op = MethodMutation(m)
  BY DEF OperationsOf
<1>2. CASE /\ Level(e) = "all"
           /\ op \in {LookupQuery(e), ListQuery(e), SetOrCreate(e), ConfigQuery(e), ConfigSetMutation(e)}
  <2>1. op \subseteq {<<"type", e>>, <<"input", e>>}
    BY <1>2 DEF LookupQuery, ListQuery, SetOrCreate, ConfigQuery, ConfigSetMutation
  <2>2. \A t \in {<<"type", e>>, <<"input", e>>} : t \in Asked /\ Registered(t)
    BY <1>2, TypesAssumption DEF Asked, Registered
  <2> QED
    BY <2>1, <2>2
<1>3. CASE op = FindQuery(e) /\ Level(e) = "all" /\ schema.find[e] # NoOne
  <2>1. schema.find[e] \in Types
    BY <1>3, SchemaParts
  <2>2. PICK g \in Types : g = schema.find[e]
    BY <2>1
  <2>3. op = {<<"type", e>>, <<"input", g>>}
    BY <1>3, <2>2 DEF FindQuery
  <2>4. <<"type", e>> \in Asked /\ Registered(<<"type", e>>)
    BY <1>3, TypesAssumption DEF Asked, Registered
  <2>5. <<"input", g>> \in Asked /\ (Registered(<<"input", g>>) \/ g \in Ignored)
    BY TypesAssumption DEF Asked, Registered, Ignored
  <2>6. g \in Ignored => Blamed
    BY <1>3, <2>2 DEF Blamed, Ignored
  <2> QED
    BY <2>3, <2>4, <2>5, <2>6
<1>4. CASE \E m \in schema.methods : op = MethodMutation(m)
  <2>1. PICK m \in schema.methods : op = MethodMutation(m)
    BY <1>4
  <2>2. m.takes \subseteq Types /\ m.gives \subseteq Types
    BY SchemaParts
  <2>3. ASSUME NEW t \in op
        PROVE  t \in Asked /\ (Registered(t) \/ Blamed)
    <3>1. PICK kind \in {"type", "input"}, x \in m.takes \cup m.gives : t = Named(kind, x)
      BY <2>1, <2>3 DEF MethodMutation
    <3>2. t \in Asked /\ (Registered(t) <=> x \notin Ignored)
      BY <2>2, <3>1, NamedIsAsked
    <3>3. x \in Ignored => Blamed
      BY <3>1 DEF Blamed
    <3> QED
      BY <3>2, <3>3
  <2> QED
    BY <2>3
<1> QED
  BY <1>1, <1>2, <1>3, <1>4

(* What is said of a schema stays while the schema does. *)
LEMMA SchemaStays ==
  ASSUME UNCHANGED schema
  PROVE  /\ Blamed' = Blamed /\ Circular' = Circular /\ Ignored' = Ignored
         /\ \A t : Registered(t)' = Registered(t) /\ AsksFor(t)' = AsksFor(t)
         /\ \A types : Circle(types)' = Circle(types)
<1>1. Bases' = Bases
  BY Zenon DEF Bases
<1>2. \A e : Level(e)' = Level(e) /\ HasId(e)' = HasId(e) /\ FieldsOf(e)' = FieldsOf(e)
  BY <1>1 DEF Level, HasId, FieldsOf
<1>3. Ignored' = Ignored
  BY <1>2 DEF Ignored
<1>4. \A f : IdOnly(f)' = IdOnly(f) /\ OfItsOwn(f)' = OfItsOwn(f)
  BY <1>1, <1>2 DEF IdOnly, OfItsOwn
<1>5. \A kind, e : Named(kind, e)' = Named(kind, e)
  BY <1>2 DEF Named
<1>6. \A kind, e : Mentioned(kind, e)' = Mentioned(kind, e)
  BY <1>1, <1>2, <1>4, <1>5 DEF Mentioned
<1>7. \A t : Registered(t)' = Registered(t) /\ AsksFor(t)' = AsksFor(t)
  BY <1>2, <1>6 DEF Registered, AsksFor, TypeGenerator, InputGenerator
<1>8. \A types : Circle(types)' = Circle(types)
  BY <1>2, <1>4 DEF Circle
<1>9. Blamed' = Blamed
  BY <1>3 DEF Blamed
<1>10. Circular' = Circular
  BY <1>3, <1>8 DEF Circular
<1> QED
  BY <1>3, <1>7, <1>8, <1>9, <1>10

LEMMA FrameFitsNext ==
  ASSUME UNCHANGED schema, NEW i, NEW f, f = stack'[i],
         f.for = <<>> => i = 1,
         \A t \in f.rest : Registered(t) \/ Blamed,
         f.for # <<>> =>
           /\ Registered(f.for) /\ made'[f.for] = 0
           /\ f.rest \subseteq AsksFor(f.for)
           /\ \A u \in AsksFor(f.for) \ f.rest :
                \/ u \in Names /\ made'[u] > 0
                \/ i < Len(stack') /\ stack'[i + 1].for = u
           /\ i < Len(stack') => stack'[i + 1].for \in AsksFor(f.for)
  PROVE  FrameFits(i)'
<1>1. \A t : Registered(t)' = Registered(t) /\ AsksFor(t)' = AsksFor(t)
  BY SchemaStays
<1>2. Blamed' = Blamed
  BY SchemaStays
<1> QED
  BY <1>1, <1>2 DEF FrameFits

(* What the loops have done is not undone while they go on. *)
LEMMA LoopsGoOn ==
  ASSUME LoopsInv, UNCHANGED <<schema, phase, pending>>,
         \A e \in Types : made'[<<"type", e>>] > 0 \/ ~(made[<<"type", e>>] > 0),
         stack = <<>> \/ (stack' # <<>> /\ stack'[1].for = stack[1].for)
           \/ stack[1].for = <<>> \/ made'[stack[1].for] > 0
  PROVE  LoopsInv'
<1>1. Ignored' = Ignored /\ Blamed' = Blamed
  BY SchemaStays
<1>2. \A t : Registered(t)' = Registered(t)
  BY SchemaStays
<1>3. phase' = "types" =>
       /\ pending' \subseteq Types \ Ignored
       /\ \A e \in Types \ Ignored :
            \/ e \in pending' \/ made'[<<"type", e>>] > 0
            \/ stack' # <<>> /\ stack'[1].for = <<"type", e>>
  <2> SUFFICES ASSUME phase = "types"
               PROVE  /\ pending \subseteq Types \ Ignored
                      /\ \A e \in Types \ Ignored :
                           \/ e \in pending \/ made'[<<"type", e>>] > 0
                           \/ stack' # <<>> /\ stack'[1].for = <<"type", e>>
    OBVIOUS
  <2>1. \A e \in Types : <<"type", e>> # <<>>
    BY NamesAreNotEmpty, NamesAreAsked
  <2> QED
    BY <2>1 DEF LoopsInv
<1>4. phase' = "queries" =>
        \A op \in pending' : op \in SUBSET Asked /\ \A t \in op : Registered(t) \/ Blamed
  BY DEF LoopsInv
<1>5. phase' \in {"queries", "served", "refused"} => \A e \in Types \ Ignored : made'[<<"type", e>>] > 0
  BY DEF LoopsInv
<1> QED
  BY <1>1, <1>2, <1>3, <1>4, <1>5 DEF LoopsInv

-----------------------------------------------------------------------------
(* A call of a generator begins with all it has to ask for; one that is    *)
(* answered asks for one type less.                                        *)
LEMMA SchemaBegins == SchemaInit => SchemaInv
<1> SUFFICES ASSUME SchemaInit PROVE SchemaInv
  OBVIOUS
<1>1. SchemaTypeOK
  BY DEF SchemaInit, SchemaStart, SchemaTypeOK, Names
<1>2. FramesInv
  BY DEF SchemaInit, SchemaStart, FramesInv
<1>3. LoopsInv
  BY DEF SchemaInit, SchemaStart, LoopsInv, Ignored
<1>4. CircleInv /\ MadeOnce /\ OutcomeInv
  <2>1. made = [t \in Names |-> 0] /\ phase = "types"
    BY DEF SchemaInit, SchemaStart, Names
  <2> QED
    BY <2>1, NamesAreAsked DEF CircleInv, MadeOnce, OutcomeInv
<1> QED
  BY <1>1, <1>2, <1>3, <1>4 DEF SchemaInv

(* The first call of an empty stack. *)
LEMMA FirstFits ==
  ASSUME SchemaInv, UNCHANGED <<schema, made>>, NEW f \in FrameSet, stack' = <<f>>,
         \A t \in f.rest : Registered(t) \/ Blamed,
         f.for # <<>> => Registered(f.for) /\ made[f.for] = 0 /\ f.rest = AsksFor(f.for)
  PROVE  FramesInv'
<1>1. stack' \in Seq(FrameSet) /\ Len(stack') = 1 /\ stack'[1] = f
  OBVIOUS
<1>2. ASSUME NEW i \in 1..Len(stack')
      PROVE  FrameFits(i)'
  <2>1. i = 1 /\ stack'[i] = f
    BY <1>1
  <2> QED
    BY <1>1, <2>1, SchemaStays DEF FrameFits
<1> QED
  BY <1>2 DEF FramesInv

LEMMA TypeIsNext ==
  ASSUME SchemaInv, NEW e \in Types, NextType(e)
  PROVE  SchemaInv'
<1> USE DEF SchemaInv
<1> DEFINE t == <<"type", e>>
           f == Frame(t, TypeGenerator(e))
<1>1. phase = "types" /\ stack = <<>> /\ e \in pending /\ pending' = pending \ {e}
  BY DEF NextType
<1>2. UNCHANGED <<schema, phase, made>>
  BY DEF NextType
<1>3. e \in Types \ Ignored
  BY <1>1 DEF LoopsInv
<1>4. t \in Names /\ Registered(t) /\ AsksFor(t) = TypeGenerator(e)
  BY <1>3, TypesAssumption DEF Names, Registered, AsksFor, Ignored
<1>5. \/ stack' = <<>> /\ made[t] > 0
      \/ stack' = <<f>> /\ made[t] = 0
  BY <1>4 DEF NextType, SchemaTypeOK
<1>6. f \in FrameSet /\ f.for = t /\ f.rest = AsksFor(t)
  <2>1. AsksFor(t) \subseteq Asked
    BY <1>4, AsksAreAsked DEF SchemaTypeOK
  <2> HIDE DEF t
  <2> QED
    BY <1>4, <2>1 DEF Frame, FrameSet
<1>7. SchemaTypeOK'
  <2>1. stack' \in Seq(FrameSet)
    <3>1. f \in FrameSet
      BY <1>6
    <3> HIDE DEF f, t
    <3>2. <<f>> \in Seq(FrameSet) /\ <<>> \in Seq(FrameSet)
      BY <3>1
    <3> QED
      BY <1>5, <3>2
  <2> QED
    BY <1>2, <2>1 DEF SchemaTypeOK
<1>8. FramesInv'
  <2>1. CASE stack' = <<>>
    BY <2>1 DEF FramesInv
  <2>2. CASE stack' = <<f>> /\ made[t] = 0
    <3>1. \A u \in f.rest : Registered(u) \/ Blamed
      BY <1>4, <1>6, AsksAreAsked DEF SchemaTypeOK
    <3> HIDE DEF f, t
    <3> QED
      BY <1>2, <1>4, <1>6, <2>2, <3>1, FirstFits
  <2> QED
    BY <1>5, <2>1, <2>2
<1>9. LoopsInv'
  <2>1. pending' \subseteq Types \ Ignored
    BY <1>1 DEF LoopsInv
  <2>2. ASSUME NEW x \in Types \ Ignored
        PROVE  \/ x \in pending' \/ made'[<<"type", x>>] > 0
               \/ stack' # <<>> /\ stack'[1].for = <<"type", x>>
    <3>1. CASE x = e
      <4>1. stack' = <<f>> => stack' # <<>> /\ stack'[1].for = <<"type", x>>
        BY <1>6, <3>1
      <4> QED
        BY <1>2, <1>5, <3>1, <4>1
    <3>2. CASE x # e
      BY <1>1, <1>2, <3>2 DEF LoopsInv
    <3> QED
      BY <3>1, <3>2
  <2> QED
    BY <1>1, <1>2, <2>1, <2>2, SchemaStays DEF LoopsInv
<1>10. CircleInv' /\ OutcomeInv' /\ MadeOnce'
  BY <1>2, SchemaStays DEF CircleInv, OutcomeInv, MadeOnce
<1> QED
  BY <1>7, <1>8, <1>9, <1>10

LEMMA OperationIsNext ==
  ASSUME SchemaInv, NEW op \in pending, NextOperation(op)
  PROVE  SchemaInv'
<1> USE DEF SchemaInv
<1>1. phase = "queries" /\ pending' = pending \ {op} /\ UNCHANGED <<schema, phase, made>>
  BY DEF NextOperation
<1>2. op \in SUBSET Asked /\ \A t \in op : Registered(t) \/ Blamed
  BY <1>1 DEF LoopsInv
<1>3. PICK f \in FrameSet : f = Frame(<<>>, op) /\ f.for = <<>> /\ f.rest = op
  <2>1. Frame(<<>>, op) \in FrameSet /\ Frame(<<>>, op).for = <<>> /\ Frame(<<>>, op).rest = op
    BY <1>2 DEF Frame, FrameSet
  <2> QED
    BY <2>1
<1>4. stack' = <<f>>
  BY <1>3 DEF NextOperation
<1>5. SchemaTypeOK'
  BY <1>1, <1>3, <1>4 DEF SchemaTypeOK
<1>6. FramesInv'
  BY <1>1, <1>2, <1>3, <1>4, FirstFits
<1>7. LoopsInv'
  BY <1>1, SchemaStays DEF LoopsInv
<1>8. CircleInv' /\ OutcomeInv' /\ MadeOnce'
  BY <1>1, SchemaStays DEF CircleInv, OutcomeInv, MadeOnce
<1> QED
  BY <1>5, <1>6, <1>7, <1>8

LEMMA QueriesStart == SchemaInv /\ StartQueries => SchemaInv'
<1> SUFFICES ASSUME SchemaInv, StartQueries PROVE SchemaInv'
  OBVIOUS
<1> USE DEF SchemaInv
<1>1. /\ phase = "types" /\ stack = <<>> /\ pending = {} /\ phase' = "queries"
      /\ pending' = UNION {OperationsOf(e) : e \in Types} /\ UNCHANGED <<schema, stack, made>>
  BY DEF StartQueries
<1>2. SchemaTypeOK'
  BY <1>1 DEF SchemaTypeOK
<1>3. FramesInv'
  BY <1>1 DEF FramesInv
<1>4. LoopsInv'
  <2>1. \A op \in pending' : op \in SUBSET Asked /\ \A t \in op : Registered(t) \/ Blamed
    BY <1>1, OperationsAreAsked DEF SchemaTypeOK
  <2>2. \A e \in Types \ Ignored : made[<<"type", e>>] > 0
    BY <1>1 DEF LoopsInv
  <2> QED
    BY <1>1, <2>1, <2>2, SchemaStays DEF LoopsInv
<1>5. CircleInv' /\ OutcomeInv' /\ MadeOnce'
  BY <1>1, SchemaStays DEF CircleInv, OutcomeInv, MadeOnce
<1> QED
  BY <1>2, <1>3, <1>4, <1>5

LEMMA ServingStarts == SchemaInv /\ Serve => SchemaInv'
<1> SUFFICES ASSUME SchemaInv, Serve PROVE SchemaInv'
  OBVIOUS
<1> USE DEF SchemaInv
<1>1. phase = "queries" /\ phase' \in {"served", "refused"} /\ UNCHANGED <<schema, stack, pending, made>>
  BY DEF Serve
<1>2. SchemaTypeOK'
  BY <1>1 DEF SchemaTypeOK
<1>3. FramesInv'
  BY <1>1, SchemaStays DEF FramesInv, FrameFits
<1>4. LoopsInv'
  BY <1>1, SchemaStays DEF LoopsInv
<1>5. CircleInv' /\ OutcomeInv' /\ MadeOnce'
  BY <1>1, SchemaStays DEF CircleInv, OutcomeInv, MadeOnce
<1> QED
  BY <1>2, <1>3, <1>4, <1>5

(* The list a generator goes on with when it has its answer. *)
LEMMA TopAnswered ==
  ASSUME NEW t, stack \in Seq(FrameSet), stack # <<>>
  PROVE  \E n \in Nat, y \in Seq(FrameSet) :
           /\ n = Len(stack) /\ n >= 1 /\ Top = stack[n]
           /\ y = Below \o <<[Top EXCEPT !.rest = @ \ {t}]>> /\ Len(y) = n
           /\ \A i \in 1..n : y[i].for = stack[i].for /\ (i # n => y[i].rest = stack[i].rest)
           /\ y[n].rest = stack[n].rest \ {t}
<1>1. PICK n \in Nat : n = Len(stack) /\ n >= 1
  OBVIOUS
<1>2. Top = stack[n] /\ Top \in FrameSet
  BY <1>1 DEF Top
<1>3. PICK x : x = [Top EXCEPT !.rest = @ \ {t}]
  OBVIOUS
<1>4. x \in FrameSet /\ x.for = Top.for /\ x.rest = Top.rest \ {t}
  BY <1>2, <1>3 DEF FrameSet
<1>5. PICK b : b = Below
  OBVIOUS
<1>6. b \in Seq(FrameSet) /\ Len(b) = n - 1 /\ \A i \in 1..(n - 1) : b[i] = stack[i]
  BY <1>1, <1>5 DEF Below
<1>7. x \in FrameSet /\ b \in Seq(FrameSet) /\ n = Len(b) + 1
  BY <1>1, <1>4, <1>6
<1>8. PICK y \in Seq(FrameSet) : /\ y = b \o <<x>> /\ Len(y) = n /\ y[n] = x
                                 /\ \A i \in 1..(n - 1) : y[i] = b[i]
  <2>1. /\ (b \o <<x>>) \in Seq(FrameSet) /\ Len(b \o <<x>>) = Len(b) + 1
        /\ (b \o <<x>>)[Len(b) + 1] = x
        /\ \A i \in 1..Len(b) : (b \o <<x>>)[i] = b[i]
    BY <1>7, Extended
  <2>2. Len(b) = n - 1
    BY <1>6
  <2> QED
    BY <1>7, <2>1, <2>2
<1>9. y = Below \o <<[Top EXCEPT !.rest = @ \ {t}]>>
  BY <1>3, <1>5, <1>8
<1>10. \A i \in 1..(n - 1) : y[i] = stack[i]
  BY <1>6, <1>8
<1>11. ASSUME NEW i \in 1..n
       PROVE  y[i].for = stack[i].for /\ (i # n => y[i].rest = stack[i].rest)
  <2>1. CASE i = n
    BY <1>2, <1>4, <1>8, <2>1
  <2>2. CASE i # n
    <3>1. i \in 1..(n - 1)
      BY <1>1, <2>2
    <3> QED
      BY <1>10, <2>2, <3>1
  <2> QED
    BY <2>1, <2>2
<1>12. y[n].rest = stack[n].rest \ {t}
  BY <1>2, <1>4, <1>8
<1> QED
  BY <1>1, <1>2, <1>8, <1>9, <1>11, <1>12, Zenon

LEMMA TypeIsKnown ==
  ASSUME SchemaInv, NEW t \in Asked, GetType(t), Registered(t), made[t] > 0
  PROVE  SchemaInv'
<1> USE DEF SchemaInv
<1>1. /\ phase \in {"types", "queries"} /\ stack # <<>> /\ t \in Top.rest
      /\ stack' = Below \o <<[Top EXCEPT !.rest = @ \ {t}]>>
      /\ UNCHANGED <<schema, phase, pending, made>>
  BY DEF GetType
<1>0. stack \in Seq(FrameSet)
  BY DEF SchemaTypeOK
<1>n. PICK n \in Nat, y \in Seq(FrameSet) :
        /\ n = Len(stack) /\ n >= 1 /\ Top = stack[n]
        /\ y = Below \o <<[Top EXCEPT !.rest = @ \ {t}]>> /\ Len(y) = n
        /\ \A i \in 1..n : y[i].for = stack[i].for /\ (i # n => y[i].rest = stack[i].rest)
        /\ y[n].rest = stack[n].rest \ {t}
  BY <1>0, <1>1, TopAnswered
<1>2. n = Len(stack) /\ n >= 1
  BY <1>n
<1>3. /\ stack' \in Seq(FrameSet) /\ Len(stack') = n
      /\ \A i \in 1..n : stack'[i].for = stack[i].for
      /\ \A i \in 1..n : i # n => stack'[i].rest = stack[i].rest
      /\ stack'[n].rest = stack[n].rest \ {t}
  <2>1. stack' = y
    BY <1>1, <1>n
  <2> QED
    BY <1>n, <2>1
<1>4. t \in Names
  BY RegisteredIsName
<1>9. SchemaTypeOK'
  BY <1>1, <1>3 DEF SchemaTypeOK
<1>5. ASSUME NEW i \in 1..n
      PROVE  FrameFits(i)'
  <2>1. FrameFits(i)
    BY <1>2 DEF FramesInv
  <2>2. /\ stack'[i].for = stack[i].for /\ stack'[i].rest \subseteq stack[i].rest
        /\ \A u \in stack[i].rest : u \notin stack'[i].rest => u = t
    BY <1>3
  <2>3. i < Len(stack) => i < Len(stack') /\ stack'[i + 1].for = stack[i + 1].for
    BY <1>2, <1>3
  <2>4. /\ stack'[i].for = <<>> => i = 1
        /\ \A u \in stack'[i].rest : Registered(u) \/ Blamed
    BY <2>1, <2>2 DEF FrameFits
  <2>5. ASSUME stack[i].for # <<>>
        PROVE  /\ Registered(stack'[i].for) /\ made'[stack'[i].for] = 0
               /\ stack'[i].rest \subseteq AsksFor(stack'[i].for)
               /\ \A u \in AsksFor(stack'[i].for) \ stack'[i].rest :
                    \/ u \in Names /\ made'[u] > 0
                    \/ i < Len(stack') /\ stack'[i + 1].for = u
               /\ i < Len(stack') => stack'[i + 1].for \in AsksFor(stack'[i].for)
    <3>1. /\ Registered(stack[i].for) /\ made[stack[i].for] = 0
          /\ stack[i].rest \subseteq AsksFor(stack[i].for)
      BY <2>1, <2>5 DEF FrameFits
    <3>2. ASSUME NEW u \in AsksFor(stack[i].for) \ stack'[i].rest
          PROVE  \/ u \in Names /\ made[u] > 0
                 \/ i < Len(stack') /\ stack'[i + 1].for = u
      <4>1. CASE u \in stack[i].rest
        BY <1>4, <2>2, <3>2, <4>1
      <4>2. CASE u \notin stack[i].rest
        BY <2>1, <2>3, <2>5, <3>2, <4>2 DEF FrameFits
      <4> QED
        BY <4>1, <4>2
    <3>3. i < Len(stack') => stack'[i + 1].for \in AsksFor(stack[i].for)
      BY <1>2, <1>3, <2>1, <2>3, <2>5 DEF FrameFits
    <3> QED
      BY <1>1, <2>2, <3>1, <3>2, <3>3
  <2> QED
    BY <1>1, <2>2, <2>4, <2>5, FrameFitsNext
<1>6. FramesInv'
  BY <1>3, <1>5 DEF FramesInv
<1>7. LoopsInv'
  <2>1. stack' # <<>> /\ stack'[1].for = stack[1].for
    BY <1>2, <1>3
  <2> QED
    BY <1>1, <2>1, LoopsGoOn
<1>8. CircleInv' /\ OutcomeInv' /\ MadeOnce'
  BY <1>1, SchemaStays DEF CircleInv, OutcomeInv, MadeOnce
<1> QED
  BY <1>6, <1>7, <1>8, <1>9

LEMMA TypeIsMissing ==
  ASSUME SchemaInv, NEW t, GetType(t), ~Registered(t)
  PROVE  SchemaInv'
<1> USE DEF SchemaInv
<1>1. /\ phase \in {"types", "queries"} /\ stack # <<>> /\ t \in Top.rest
      /\ phase' = "panicked" /\ UNCHANGED <<schema, stack, pending, made>>
  BY DEF GetType
<1>2. Blamed
  <2>1. FrameFits(Len(stack)) /\ Top = stack[Len(stack)]
    BY <1>1 DEF FramesInv, SchemaTypeOK, Top
  <2> QED
    BY <1>1, <2>1 DEF FrameFits
<1>3. SchemaTypeOK'
  BY <1>1 DEF SchemaTypeOK
<1>4. FramesInv'
  BY <1>1, SchemaStays DEF FramesInv, FrameFits
<1>5. LoopsInv' /\ CircleInv' /\ OutcomeInv' /\ MadeOnce'
  BY <1>1, <1>2, SchemaStays DEF LoopsInv, CircleInv, OutcomeInv, MadeOnce
<1> QED
  BY <1>3, <1>4, <1>5

LEMMA TypeIsMade ==
  ASSUME SchemaInv, NEW t \in Asked, GetType(t), Registered(t), ~(made[t] > 0), Len(stack) # Deep
  PROVE  SchemaInv'
<1> USE DEF SchemaInv
<1>1. /\ phase \in {"types", "queries"} /\ stack # <<>> /\ t \in Top.rest
      /\ stack' = Append(Below \o <<[Top EXCEPT !.rest = @ \ {t}]>>, Frame(t, AsksFor(t)))
      /\ UNCHANGED <<schema, phase, pending, made>>
  BY DEF GetType
<1>0. stack \in Seq(FrameSet)
  BY DEF SchemaTypeOK
<1>5. PICK n \in Nat, r \in Seq(FrameSet) :
        /\ n = Len(stack) /\ n >= 1 /\ Top = stack[n]
        /\ r = Below \o <<[Top EXCEPT !.rest = @ \ {t}]>> /\ Len(r) = n
        /\ \A i \in 1..n : r[i].for = stack[i].for /\ (i # n => r[i].rest = stack[i].rest)
        /\ r[n].rest = stack[n].rest \ {t}
  BY <1>0, <1>1, TopAnswered
<1>2. n = Len(stack) /\ n >= 1
  BY <1>5
<1>g. \A i \in 1..n : r[i].for = stack[i].for
  BY <1>5
<1>3. t \in Names /\ t # <<>> /\ made[t] = 0
  BY RegisteredIsName, NamesAreNotEmpty DEF SchemaTypeOK
<1>4. PICK f \in FrameSet : f = Frame(t, AsksFor(t)) /\ f.for = t /\ f.rest = AsksFor(t)
  <2>1. AsksFor(t) \subseteq Asked
    BY <1>3, AsksAreAsked DEF SchemaTypeOK
  <2>2. Frame(t, AsksFor(t)) \in FrameSet /\ Frame(t, AsksFor(t)).for = t /\ Frame(t, AsksFor(t)).rest = AsksFor(t)
    BY <1>3, <2>1 DEF Frame, FrameSet
  <2> QED
    BY <2>2
<1>6. /\ stack' \in Seq(FrameSet) /\ Len(stack') = n + 1 /\ stack'[n + 1] = f
      /\ \A i \in 1..n : stack'[i] = r[i]
  <2>1. stack' = Append(r, f)
    BY <1>1, <1>4, <1>5
  <2>2. r \in Seq(FrameSet) /\ Len(r) = n
    BY <1>5
  <2> QED
    BY <2>1, <2>2
<1>7. SchemaTypeOK'
  BY <1>1, <1>6 DEF SchemaTypeOK
<1>8. ASSUME NEW i \in 1..n
      PROVE  FrameFits(i)'
  <2>1. FrameFits(i)
    BY <1>2 DEF FramesInv
  <2>2. /\ stack'[i].for = stack[i].for /\ stack'[i].rest \subseteq stack[i].rest
        /\ \A u \in stack[i].rest : u \notin stack'[i].rest => u = t /\ i = n
    BY <1>5, <1>6
  <2>3. i < Len(stack') /\ stack'[i + 1].for = IF i = n THEN t ELSE stack[i + 1].for
    <3>1. CASE i = n
      BY <1>4, <1>6, <3>1
    <3>2. CASE i # n
      <4>1. i + 1 \in 1..n
        BY <3>2
      <4> QED
        BY <1>g, <1>6, <3>2, <4>1
    <3> QED
      BY <3>1, <3>2
  <2>4. /\ stack'[i].for = <<>> => i = 1
        /\ \A u \in stack'[i].rest : Registered(u) \/ Blamed
    BY <2>1, <2>2 DEF FrameFits
  <2>5. i = n => t \in stack[i].rest
    BY <1>1, <1>2 DEF Top
  <2>6. ASSUME stack[i].for # <<>>
        PROVE  /\ Registered(stack'[i].for) /\ made'[stack'[i].for] = 0
               /\ stack'[i].rest \subseteq AsksFor(stack'[i].for)
               /\ \A u \in AsksFor(stack'[i].for) \ stack'[i].rest :
                    \/ u \in Names /\ made'[u] > 0
                    \/ i < Len(stack') /\ stack'[i + 1].for = u
               /\ i < Len(stack') => stack'[i + 1].for \in AsksFor(stack'[i].for)
    <3>1. /\ Registered(stack[i].for) /\ made[stack[i].for] = 0
          /\ stack[i].rest \subseteq AsksFor(stack[i].for)
      BY <2>1, <2>6 DEF FrameFits
    <3>2. ASSUME NEW u \in AsksFor(stack[i].for) \ stack'[i].rest
          PROVE  \/ u \in Names /\ made[u] > 0
                 \/ i < Len(stack') /\ stack'[i + 1].for = u
      <4>1. CASE u \in stack[i].rest
        BY <2>2, <2>3, <3>2, <4>1
      <4>2. CASE u \notin stack[i].rest
        <5>1. \/ u \in Names /\ made[u] > 0
              \/ i < n /\ stack[i + 1].for = u
          BY <1>2, <2>1, <2>6, <3>2, <4>2 DEF FrameFits
        <5> QED
          BY <2>3, <5>1
      <4> QED
        BY <4>1, <4>2
    <3>3. stack'[i + 1].for \in AsksFor(stack[i].for)
      <4>1. CASE i = n
        BY <2>3, <2>5, <3>1, <4>1
      <4>2. CASE i # n
        <5>1. i < Len(stack)
          BY <1>2, <4>2
        <5>2. stack[i + 1].for \in AsksFor(stack[i].for)
          BY <2>1, <2>6, <5>1 DEF FrameFits
        <5> QED
          BY <2>3, <4>2, <5>2
      <4> QED
        BY <4>1, <4>2
    <3> QED
      BY <1>1, <2>2, <3>1, <3>2, <3>3
  <2> QED
    BY <1>1, <2>2, <2>4, <2>6, FrameFitsNext
<1>9. FrameFits(n + 1)'
  <2>1. stack'[n + 1].for = t /\ stack'[n + 1].rest = AsksFor(t) /\ ~(n + 1 < Len(stack'))
    BY <1>4, <1>6
  <2>2. \A u \in AsksFor(t) : Registered(u) \/ Blamed
    BY <1>3, AsksAreAsked DEF SchemaTypeOK
  <2> QED
    BY <1>1, <1>3, <2>1, <2>2, FrameFitsNext
<1>10. FramesInv'
  <2>1. \A i \in 1..Len(stack') : i \in 1..n \/ i = n + 1
    BY <1>6
  <2> QED
    BY <1>8, <1>9, <2>1 DEF FramesInv
<1>11. LoopsInv'
  <2>1. stack' # <<>> /\ stack'[1].for = stack[1].for
    BY <1>2, <1>g, <1>6
  <2> QED
    BY <1>1, <2>1, LoopsGoOn
<1>12. CircleInv' /\ OutcomeInv' /\ MadeOnce'
  BY <1>1, SchemaStays DEF CircleInv, OutcomeInv, MadeOnce
<1> QED
  BY <1>7, <1>10, <1>11, <1>12

(* What a type of a circle asks for, and what a type that is asked for is  *)
(* a value of.                                                             *)
LEMMA CircleAsks ==
  ASSUME schema \in Schemas, NEW types \in SUBSET (Types \ Ignored), Circle(types), NEW x \in types
  PROVE  \E y \in types : <<"type", y>> \in AsksFor(<<"type", x>>)
<1>1. PICK f \in FieldsOf(x) : f.target \in types /\ ~OfItsOwn(f) /\ ~(f.how = "id" /\ HasId(f.target))
  BY DEF Circle
<1>2. ~((f.how = "id" \/ IdOnly(f)) /\ HasId(f.target))
  BY <1>1 DEF IdOnly, OfItsOwn, FieldsOf
<1>3. Named("type", f.target) = <<"type", f.target>>
  BY <1>1, NamedIsAsked
<1>4. <<"type", f.target>> \in Mentioned("type", x)
  BY <1>1, <1>2, <1>3 DEF Mentioned
<1>5. x # "map"
  BY TypesAssumption
<1>6. AsksFor(<<"type", x>>) = Mentioned("type", x)
  BY <1>5 DEF AsksFor, TypeGenerator
<1> QED
  BY <1>1, <1>4, <1>6

LEMMA AskedForIsAField ==
  ASSUME schema \in Schemas, NEW n \in Names, NEW u \in AsksFor(n), u[2] \in Types, Registered(u)
  PROVE  \E f \in FieldsOf(n[2]) : /\ f.target = u[2]
                                   /\ ~OfItsOwn(f) /\ ~(f.how = "id" /\ HasId(f.target))
<1>1. n[1] \in {"type", "input"} /\ u \in Mentioned(n[1], n[2])
  BY AsksAreAsked
<1>2. u # <<n[1], "map">>
  BY TypesAssumption
<1>3. PICK f \in FieldsOf(n[2]) : /\ ~((f.how = "id" \/ IdOnly(f)) /\ HasId(f.target))
                                  /\ u = Named(n[1], f.target)
  BY <1>1, <1>2, MentionedParts
<1>4. f \in schema.fields
  BY DEF FieldsOf
<1>5. f.target \in Types
  BY <1>4, SchemaParts
<1>6. f.target \notin Ignored /\ u = <<n[1], f.target>>
  BY <1>1, <1>3, <1>5, NamedIsAsked
<1>7. f.target = u[2]
  BY <1>6
<1>8. ~OfItsOwn(f)
  BY <1>3, <1>4, <1>5, <1>6 DEF OfItsOwn, IdOnly, FieldsOf, Ignored
<1> QED
  BY <1>3, <1>7, <1>8

LEMMA GeneratorReturns == SchemaInv /\ Return => SchemaInv'
<1> SUFFICES ASSUME SchemaInv, Return PROVE SchemaInv'
  OBVIOUS
<1> USE DEF SchemaInv
<1>1. /\ phase \in {"types", "queries"} /\ stack # <<>> /\ Top.rest = {} /\ stack' = Below
      /\ made' = IF Top.for = <<>> THEN made ELSE [made EXCEPT ![Top.for] = @ + 1]
      /\ UNCHANGED <<schema, phase, pending>>
  BY DEF Return
<1>0. stack \in Seq(FrameSet)
  BY DEF SchemaTypeOK
<1>2. PICK n \in Nat : n = Len(stack) /\ n >= 1
  BY <1>0, <1>1
<1>3. /\ stack' \in Seq(FrameSet) /\ Len(stack') = n - 1
      /\ \A i \in 1..(n - 1) : stack'[i] = stack[i]
  BY <1>0, <1>1, <1>2 DEF Below
<1>4. PICK k : k = Top.for /\ k = stack[n].for /\ stack[n].rest = {}
  BY <1>1, <1>2 DEF Top
<1>5. FrameFits(n)
  BY <1>2 DEF FramesInv
<1>6. CASE k = <<>>
  <2>1. n = 1 /\ made' = made
    BY <1>1, <1>4, <1>5, <1>6 DEF FrameFits
  <2>2. Len(stack') = 0
    BY <1>3, <2>1
  <2>3. SchemaTypeOK'
    BY <1>1, <1>3, <2>1 DEF SchemaTypeOK
  <2>6. FramesInv'
    <3>1. 1..Len(stack') = {}
      BY <2>2
    <3> QED
      BY <3>1 DEF FramesInv
  <2>4. LoopsInv'
    BY <1>1, <1>4, <1>6, <2>1, LoopsGoOn
  <2>5. CircleInv' /\ OutcomeInv' /\ MadeOnce'
    BY <1>1, <2>1, SchemaStays DEF CircleInv, OutcomeInv, MadeOnce
  <2> QED
    BY <2>3, <2>4, <2>5, <2>6
<1>7. CASE k # <<>>
  <2>1. k \in Names
    <3>1. stack[n] \in FrameSet
      BY <1>0, <1>2
    <3> QED
      BY <1>4, <1>7, <3>1 DEF FrameSet
  <2>2. made[k] = 0 /\ \A u \in AsksFor(k) : u \in Names /\ made[u] > 0
    BY <1>2, <1>4, <1>5, <1>7 DEF FrameFits
  <2>3. made \in [Names -> Nat] /\ made' = [made EXCEPT ![k] = @ + 1]
    BY <1>1, <1>4, <1>7 DEF SchemaTypeOK
  <2>4. \A u \in Names : made'[u] = IF u = k THEN 1 ELSE made[u]
    BY <2>1, <2>2, <2>3
  <2>5. SchemaTypeOK'
    BY <1>1, <1>3, <2>1, <2>3 DEF SchemaTypeOK
  <2>6. ASSUME NEW i \in 1..(n - 1)
        PROVE  FrameFits(i)'
    <3>1. FrameFits(i) /\ FrameFits(i + 1) /\ stack[i] \in FrameSet /\ stack[i + 1] \in FrameSet
      BY <1>0, <1>2 DEF FramesInv
    <3>2. stack'[i] = stack[i] /\ (i < n - 1 => stack'[i + 1] = stack[i + 1])
      BY <1>3
    <3>3. stack[i].for = <<>> => i = 1
      BY <3>1 DEF FrameFits
    <3>4. \A t \in stack[i].rest : Registered(t) \/ Blamed
      BY <3>1 DEF FrameFits
    <3>5. ASSUME stack[i].for # <<>>
          PROVE  /\ Registered(stack[i].for) /\ made'[stack[i].for] = 0
                 /\ stack[i].rest \subseteq AsksFor(stack[i].for)
                 /\ \A u \in AsksFor(stack[i].for) \ stack[i].rest :
                      \/ u \in Names /\ made'[u] > 0
                      \/ i < Len(stack') /\ stack'[i + 1].for = u
                 /\ i < Len(stack') => stack'[i + 1].for \in AsksFor(stack[i].for)
      <4>1. /\ Registered(stack[i].for) /\ made[stack[i].for] = 0
            /\ stack[i].rest \subseteq AsksFor(stack[i].for)
            /\ stack[i + 1].for \in AsksFor(stack[i].for)
        BY <1>2, <3>1, <3>5 DEF FrameFits
      <4>2. stack[i].for \in Names
        BY <3>1, <3>5 DEF FrameSet
      <4>3. stack[i].for # k
        <5>1. SUFFICES ASSUME stack[i].for = k PROVE FALSE
          OBVIOUS
        <5>2. made[stack[i + 1].for] > 0 /\ stack[i + 1].for \in Names
          BY <2>2, <4>1, <5>1
        <5>3. stack[i + 1].for # <<>>
          BY <5>2, NamesAreAsked, NamesAreNotEmpty
        <5>4. made[stack[i + 1].for] = 0
          BY <3>1, <5>3 DEF FrameFits
        <5> QED
          BY <5>2, <5>4
      <4>4. made'[stack[i].for] = 0
        BY <2>4, <4>1, <4>2, <4>3
      <4>5. ASSUME NEW u \in AsksFor(stack[i].for) \ stack[i].rest
            PROVE  \/ u \in Names /\ made'[u] > 0
                   \/ i < Len(stack') /\ stack'[i + 1].for = u
        <5>1. \/ u \in Names /\ made[u] > 0
              \/ stack[i + 1].for = u
          BY <3>1, <3>5, <4>5 DEF FrameFits
        <5>2. CASE u \in Names /\ made[u] > 0
          BY <2>4, <5>2
        <5>3. CASE stack[i + 1].for = u /\ i = n - 1
          <6>1. u = k
            BY <1>4, <5>3
          <6> QED
            BY <2>1, <2>4, <6>1
        <5>4. CASE stack[i + 1].for = u /\ i # n - 1
          <6>1. i < n - 1
            BY <5>4
          <6> QED
            BY <1>3, <3>2, <5>4, <6>1
        <5> QED
          BY <5>1, <5>2, <5>3, <5>4
      <4>6. i < Len(stack') => stack'[i + 1].for \in AsksFor(stack[i].for)
        BY <1>3, <3>2, <4>1
      <4> QED
        BY <4>1, <4>4, <4>5, <4>6
    <3> QED
      BY <1>1, <3>2, <3>3, <3>4, <3>5, FrameFitsNext
  <2>7. FramesInv'
    BY <1>3, <2>6 DEF FramesInv
  <2>8. LoopsInv'
    <3>1. ASSUME NEW e \in Types
          PROVE  made'[<<"type", e>>] > 0 \/ ~(made[<<"type", e>>] > 0)
      <4>1. <<"type", e>> \in Names
        BY NamesAreAsked
      <4> QED
        BY <2>4, <4>1
    <3>2. (stack' # <<>> /\ stack'[1].for = stack[1].for) \/ made'[stack[1].for] > 0
      <4>1. CASE n = 1
        BY <1>4, <2>1, <2>4, <4>1
      <4>2. CASE n # 1
        <5>1. 1 \in 1..(n - 1)
          BY <1>2, <4>2
        <5> QED
          BY <1>3, <5>1
      <4> QED
        BY <4>1, <4>2
    <3> QED
      BY <1>1, <3>1, <3>2, LoopsGoOn
  <2>9. CircleInv'
    <3>1. ASSUME NEW types \in SUBSET (Types \ Ignored), Circle(types), NEW e \in types
          PROVE  made'[<<"type", e>>] = 0
      <4>1. made[<<"type", e>>] = 0 /\ <<"type", e>> \in Names
        BY <3>1, NamesAreAsked DEF CircleInv
      <4>2. PICK y \in types : <<"type", y>> \in AsksFor(<<"type", e>>)
        BY <3>1, CircleAsks DEF SchemaTypeOK
      <4>3. made[<<"type", y>>] = 0
        BY <3>1 DEF CircleInv
      <4>4. <<"type", e>> # k
        BY <2>2, <4>2, <4>3
      <4> QED
        BY <2>4, <4>1, <4>4
    <3> QED
      BY <1>1, <3>1, SchemaStays DEF CircleInv
  <2>10. MadeOnce'
    BY <2>3, <2>4 DEF MadeOnce
  <2>11. OutcomeInv'
    BY <1>1, SchemaStays DEF OutcomeInv
  <2> QED
    BY <2>5, <2>7, <2>8, <2>9, <2>10, <2>11
<1> QED
  BY <1>6, <1>7

(* More generators one in the other than there are types to make are a     *)
(* circle: two of them are of one type.                                    *)
LEMMA DeepIsCircular ==
  ASSUME SchemaInv, stack # <<>>, Len(stack) = Deep, NEW t \in Top.rest
  PROVE  Circular
<1>1. PICK c \in Nat : c = Cardinality(Types)
  BY TypesAssumption, FS_CardinalityType
<1>2. PICK n \in Nat : n = Len(stack) /\ n = 2 * c + 2
  BY <1>1 DEF Deep
<1>3. stack \in Seq(FrameSet) /\ schema \in Schemas /\ Top = stack[n]
  BY <1>2 DEF SchemaInv, SchemaTypeOK, Top
<1>4. ASSUME NEW i \in 2..n
      PROVE  /\ stack[i].for \in Names /\ Registered(stack[i].for)
             /\ stack[i].for[2] \in Types \ Ignored
             /\ i < n => stack[i + 1].for \in AsksFor(stack[i].for)
  <2>1. FrameFits(i) /\ stack[i] \in FrameSet
    BY <1>2, <1>3 DEF SchemaInv, FramesInv
  <2>2. stack[i].for # <<>>
    BY <2>1 DEF FrameFits
  <2>3. stack[i].for \in Names /\ Registered(stack[i].for)
    BY <2>1, <2>2 DEF FrameFits, FrameSet
  <2>4. i < n => stack[i + 1].for \in AsksFor(stack[i].for)
    BY <1>2, <2>1, <2>2 DEF FrameFits
  <2>5. i = n => t \in AsksFor(stack[i].for)
    BY <1>3, <2>1, <2>2 DEF FrameFits
  <2>6. PICK u : u \in AsksFor(stack[i].for)
    BY <2>4, <2>5
  <2>7. stack[i].for[2] # "map"
    BY <1>3, <2>3, <2>6, AsksAreAsked
  <2>8. stack[i].for[2] \in Types
    BY <2>3, <2>7 DEF Names
  <2>9. stack[i].for[2] \notin Ignored
    BY <2>3, <2>7 DEF Registered, Ignored
  <2> QED
    BY <2>3, <2>4, <2>8, <2>9
<1>5. PICK q \in [2..n -> Types] : \A i \in 2..n : q[i] = stack[i].for[2]
  <2>1. [i \in 2..n |-> stack[i].for[2]] \in [2..n -> Types]
    BY <1>4
  <2> QED
    BY <2>1
<1>6. PICK a, b \in 2..n : a # b /\ q[a] = q[b]
  <2>1. IsFiniteSet(2..n) /\ Cardinality(2..n) = n - 1
    BY <1>2, FS_Interval
  <2>2. Cardinality(Types) < Cardinality(2..n)
    BY <1>1, <1>2, <2>1
  <2> QED
    BY <2>1, <2>2, TypesAssumption, FS_PigeonHole
<1>7. PICK x, y \in 2..n : x < y /\ q[x] = q[y]
  <2>1. CASE a < b
    BY <1>6, <2>1
  <2>2. CASE b < a
    BY <1>6, <2>2
  <2> QED
    BY <1>6, <2>1, <2>2
<1> DEFINE types == {q[i] : i \in x..(y - 1)}
<1>8. types \in SUBSET (Types \ Ignored) /\ types # {}
  <2>1. \A i \in x..(y - 1) : i \in 2..n
    BY <1>7
  <2>2. q[x] \in types
    BY <1>7
  <2> QED
    BY <1>4, <1>5, <2>1, <2>2
<1>9. Circle(types)
  <2>1. ASSUME NEW i \in x..(y - 1)
        PROVE  \E f \in FieldsOf(q[i]) :
                 f.target \in types /\ ~OfItsOwn(f) /\ ~(f.how = "id" /\ HasId(f.target))
    <3>1. i \in 2..n /\ i + 1 \in 2..n /\ i < n
      BY <1>2, <1>7
    <3>2. /\ stack[i].for \in Names /\ stack[i + 1].for \in AsksFor(stack[i].for)
          /\ Registered(stack[i + 1].for) /\ stack[i + 1].for[2] \in Types
      BY <1>4, <3>1
    <3>3. PICK f \in FieldsOf(stack[i].for[2]) :
            /\ f.target = stack[i + 1].for[2]
            /\ ~OfItsOwn(f) /\ ~(f.how = "id" /\ HasId(f.target))
      BY <1>3, <3>2, AskedForIsAField
    <3>4. q[i + 1] \in types
      <4>1. CASE i = y - 1
        <5>1. q[i + 1] = q[x] /\ x \in x..(y - 1)
          BY <1>7, <4>1
        <5> QED
          BY <5>1
      <4>2. CASE i # y - 1
        <5>1. i + 1 \in x..(y - 1)
          BY <4>2
        <5> QED
          BY <5>1
      <4> QED
        BY <4>1, <4>2
    <3>5. f.target = q[i + 1] /\ f \in FieldsOf(q[i])
      BY <1>5, <3>1, <3>3
    <3> QED
      BY <3>3, <3>4, <3>5
  <2> QED
    BY <2>1 DEF Circle
<1> QED
  BY <1>8, <1>9 DEF Circular

LEMMA CallsAreTooDeep ==
  ASSUME SchemaInv, NEW t, GetType(t), Registered(t), ~(made[t] > 0), Len(stack) = Deep
  PROVE  SchemaInv'
<1> USE DEF SchemaInv
<1>1. /\ phase \in {"types", "queries"} /\ stack # <<>> /\ t \in Top.rest
      /\ phase' = "overflow" /\ UNCHANGED <<schema, stack, pending, made>>
  BY DEF GetType
<1>2. Circular
  <2> HIDE DEF SchemaInv
  <2> QED
    BY <1>1, DeepIsCircular
<1>3. SchemaTypeOK'
  BY <1>1 DEF SchemaTypeOK
<1>4. FramesInv'
  BY <1>1, SchemaStays DEF FramesInv, FrameFits
<1>5. LoopsInv' /\ CircleInv' /\ OutcomeInv' /\ MadeOnce'
  BY <1>1, <1>2, SchemaStays DEF LoopsInv, CircleInv, OutcomeInv, MadeOnce
<1> QED
  BY <1>3, <1>4, <1>5

LEMMA SchemaGoesOn == SchemaInv /\ [SchemaNext]_schemaVars => SchemaInv'
<1>1. ASSUME SchemaInv, UNCHANGED schemaVars
      PROVE  SchemaInv'
  <2> USE <1>1 DEF schemaVars, SchemaInv
  <2>1. SchemaTypeOK'
    BY DEF SchemaTypeOK
  <2>2. FramesInv'
    BY SchemaStays DEF FramesInv, FrameFits
  <2>3. LoopsInv'
    BY SchemaStays DEF LoopsInv
  <2>4. CircleInv' /\ OutcomeInv' /\ MadeOnce'
    BY SchemaStays DEF CircleInv, OutcomeInv, MadeOnce
  <2> QED
    BY <2>1, <2>2, <2>3, <2>4
<1>2. ASSUME SchemaInv, NEW e \in Types, NextType(e)
      PROVE  SchemaInv'
  BY <1>2, TypeIsNext
<1>3. ASSUME SchemaInv, NEW op \in pending, NextOperation(op)
      PROVE  SchemaInv'
  BY <1>3, OperationIsNext
<1>4. ASSUME SchemaInv, NEW t \in Asked, GetType(t)
      PROVE  SchemaInv'
  <2>1. CASE Registered(t) /\ made[t] > 0
    BY <1>4, <2>1, TypeIsKnown
  <2>2. CASE ~Registered(t)
    BY <1>4, <2>2, TypeIsMissing
  <2>3. CASE Registered(t) /\ ~(made[t] > 0) /\ Len(stack) = Deep
    BY <1>4, <2>3, CallsAreTooDeep
  <2>4. CASE Registered(t) /\ ~(made[t] > 0) /\ Len(stack) # Deep
    BY <1>4, <2>4, TypeIsMade
  <2> QED
    BY <2>1, <2>2, <2>3, <2>4
<1>5. ASSUME SchemaInv, StartQueries \/ Return \/ Serve
      PROVE  SchemaInv'
  BY <1>5, QueriesStart, GeneratorReturns, ServingStarts
<1> QED
  BY <1>1, <1>2, <1>3, <1>4, <1>5 DEF SchemaNext, Asked

LEMMA SchemaInductive == SchemaSpec => []SchemaInv
BY SchemaBegins, SchemaGoesOn, PTL DEF SchemaSpec

LEMMA SchemaAddsUp == SchemaInv => SchemaExplained
<1> SUFFICES ASSUME SchemaInv PROVE SchemaExplained
  OBVIOUS
<1>1. phase = "overflow" => Circular
  BY DEF SchemaInv, OutcomeInv
<1>2. phase = "panicked" => Blamed
  BY DEF SchemaInv, OutcomeInv
<1>3. phase \in {"served", "refused"} => ~Circular
  <2> SUFFICES ASSUME phase \in {"served", "refused"}, Circular PROVE FALSE
    OBVIOUS
  <2>1. PICK types \in SUBSET (Types \ Ignored) : types # {} /\ Circle(types)
    BY DEF Circular
  <2>2. PICK e \in types : TRUE
    BY <2>1
  <2>3. made[<<"type", e>>] = 0
    BY <2>1, <2>2 DEF SchemaInv, CircleInv
  <2>4. made[<<"type", e>>] > 0
    BY <2>2 DEF SchemaInv, LoopsInv
  <2> QED
    BY <2>3, <2>4
<1>4. StartsUnlessCircular
  BY <1>1, <1>2, <1>3 DEF StartsUnlessCircular, Circular, Blamed
<1> QED
  BY <1>4 DEF SchemaInv, SchemaExplained

(* However the types of a project are made of each other: each is made once*)
(* for the schema; what they and their operations are made of is complete, *)
(* and handed to the library, only if no types have values of each other   *)
(* in a circle, and the stack overflows only if some have; the engine      *)
(* panics only for a mention of a type that has none (generate, and the    *)
(* generators it calls).                                                   *)
THEOREM SchemaIsExplained == SchemaSpec => []SchemaExplained
BY SchemaInductive, SchemaAddsUp, PTL

(***************************************************************************)
(* The queries of a client.  What a call has selected so far fits its type,*)
(* every field it passed has been treated (Treated), and it is the caller  *)
(* of the next for the field that it passed last.                          *)
(***************************************************************************)
EmbedCall(T) ==
  [field : FieldShape \cup [of : ClientTypes], rest : Seq(FieldShape), id : SUBSET T, title : SUBSET T]

CallFields(c) == client.fields[c.field.of]
Passed(c) == Len(CallFields(c)) - Len(c.rest)

(* What is left of a type is the end of its fields.                        *)
RestFits(c) ==
  /\ c.field.of \in ClientTypes
  /\ Len(c.rest) <= Len(CallFields(c))
  /\ \A i \in 1..Len(c.rest) : c.rest[i] = CallFields(c)[Passed(c) + i]

(* d is called for the field of c that was passed last.                    *)
Enters(f) == IsNamed(f) /\ HasTypeOfItsOwn(f) /\ IF task = "instance" THEN Initialised(f) ELSE ~Immediate(f)
CalledBy(d, c) == Passed(c) > 0 /\ d.field = CallFields(c)[Passed(c)] /\ Enters(d.field)

(* One item of a selection, of a type, in full or not; and what became of  *)
(* a field that was passed.                                                *)
ItemFits(t, full, item) ==
  \E f \in FieldsIn(t) :
    \/ IsNamed(f) /\ item[1] = f.name /\ Braced(f, item[2])
    \/ ~IsNamed(f) /\ (f.id \/ f.title) /\ ~full /\ item = <<"id", {}>>

OfConfig == client.kind[client.file] = "config"
InFull(c, outer) == outer \/ Full(c.field)
IsIn(f, items) == \E item \in items : item[1] = f.name
IdAfter(t, full, i) ==
  \E j \in 1..Len(client.fields[t]) :
    i < j /\ client.fields[t][j].id /\ ~full /\ ~client.fields[t][j].force

Wanted(f, outer, full) ==
  IF Complex(f) THEN ~outer /\ ~(HasTypeOfItsOwn(f) /\ OfConfig) ELSE f.id \/ full \/ f.force
Titled(t, f, full) == ~Complex(f) /\ IsTitle(t, f) /\ ~f.id /\ ~full /\ ~f.force
Worthy(t, f, outer) == ~OfConfig /\ ~outer /\ (Complex(f) \/ f.id \/ IsTitle(t, f))

Treated(c, outer, i) ==
  LET f == CallFields(c)[i]
      t == c.field.of
      full == InFull(c, outer)
  IN  IsNamed(f) =>
        /\ Wanted(f, outer, full) => IsIn(f, c.id) \/ IdAfter(t, full, i)
        /\ Titled(t, f, full) => IsIn(f, c.title)
        /\ Worthy(t, f, outer) => c.id \cup c.title # {}

(* The call d, the outermost or not, waits for the field it passed last or *)
(* for none.                                                               *)
CallFits(c, outer, waits) ==
  /\ \A item \in c.id \cup c.title : ItemFits(c.field.of, InFull(c, outer), item)
  /\ \A i \in 1..Len(CallFields(c)) : i <= Passed(c) /\ ~(waits /\ i = Passed(c)) => Treated(c, outer, i)

CallsFit(s) ==
  /\ \E T : s \in Seq(EmbedCall(T))
  /\ \A k \in 1..Len(s) : RestFits(s[k])
  /\ \A k \in 1..Len(s) : k < Len(s) => CalledBy(s[k + 1], s[k])
  /\ task # "instance" => \A k \in 1..Len(s) : CallFits(s[k], k = 1, k < Len(s))

SelectionInv == client \in Clients /\ CallsFit(calls) /\ QueriesExplained

-----------------------------------------------------------------------------
LEMMA ClientIs ==
  ASSUME client \in Clients
  PROVE  /\ client.file \in ClientTypes /\ client.gives \in ClientTypes \cup {Number, "nothing"}
         /\ \A t \in ClientTypes : client.fields[t] \in Seq(FieldShape)
         /\ client.kind \in [ClientTypes -> {"stored", "dictionary", "config"}]
BY ClientsAssumption DEF ClientShape

LEMMA FieldIs ==
  ASSUME NEW f \in FieldShape
  PROVE  /\ f.of \in ClientTypes \cup {Text, Number, "map"}
         /\ HasTypeOfItsOwn(f) => Complex(f)
         /\ f.id \in BOOLEAN /\ f.title \in BOOLEAN /\ f.force \in BOOLEAN /\ f.embedded \in BOOLEAN
         /\ f.skipped \in BOOLEAN /\ f.list \in BOOLEAN /\ f.byId \in BOOLEAN /\ f.notNull \in BOOLEAN
BY ClientTypesAssumption DEF FieldShape, HasTypeOfItsOwn, Complex

LEMMA ShapesGrow ==
  ASSUME NEW T, NEW U, T \subseteq U, NEW s \in Seq(EmbedCall(T))
  PROVE  s \in Seq(EmbedCall(U))
<1>1. EmbedCall(T) \subseteq EmbedCall(U)
  BY DEF EmbedCall
<1> QED
  BY <1>1

(* The client and the task are the same: so is what they say.              *)
LEMMA CallsStayFit ==
  ASSUME client' = client, task' = task, NEW s, CallsFit(s)
  PROVE  CallsFit(s)'
<1>1. ASSUME NEW c PROVE CallFields(c)' = CallFields(c) /\ Passed(c)' = Passed(c)
  BY DEF CallFields, Passed
<1>2. ASSUME NEW c, RestFits(c) PROVE RestFits(c)'
  BY <1>1, <1>2 DEF RestFits
<1>3. ASSUME NEW f PROVE Enters(f)' = Enters(f)
  BY DEF Enters, Immediate, LeftOut, Initialised, NeedInit, MadeByItsType
<1>4. ASSUME NEW c, NEW d, CalledBy(d, c) PROVE CalledBy(d, c)'
  BY <1>1, <1>3, <1>4 DEF CalledBy
<1>5. ASSUME NEW t, NEW f PROVE IsTitle(t, f)' = IsTitle(t, f) /\ FieldsIn(t)' = FieldsIn(t)
  BY DEF IsTitle, FieldsIn
<1>6. ASSUME NEW t, NEW full, NEW item, ItemFits(t, full, item) PROVE ItemFits(t, full, item)'
  BY <1>5, <1>6 DEF ItemFits, Braced
<1>7. ASSUME NEW c, NEW outer, NEW i, Treated(c, outer, i) PROVE Treated(c, outer, i)'
  BY <1>1, <1>5, <1>7 DEF Treated, Wanted, Titled, Worthy, OfConfig, IdAfter
<1>8. ASSUME NEW c, NEW outer, NEW waits, CallFits(c, outer, waits) PROVE CallFits(c, outer, waits)'
  BY <1>1, <1>6, <1>7, <1>8 DEF CallFits
<1> QED
  BY <1>2, <1>4, <1>8 DEF CallsFit

(* The call with one field more passed, and more selected.                 *)
LEMMA NextOfRest ==
  ASSUME client \in Clients, NEW T, NEW c \in EmbedCall(T), RestFits(c), c.rest # <<>>
  PROVE  /\ Len(c.rest) > 0 /\ Tail(c.rest) \in Seq(FieldShape) /\ Len(Tail(c.rest)) = Len(c.rest) - 1
         /\ Head(c.rest) \in FieldShape
         /\ Passed(c) \in Nat /\ Passed(c) + 1 \in 1..Len(CallFields(c))
         /\ CallFields(c) \in Seq(FieldShape)
         /\ Head(c.rest) = CallFields(c)[Passed(c) + 1]
         /\ Head(c.rest) \in FieldsIn(c.field.of)
<1>1. c.rest \in Seq(FieldShape) /\ CallFields(c) \in Seq(FieldShape)
  BY ClientIs DEF EmbedCall, RestFits, CallFields
<1>2. Len(c.rest) > 0 /\ Tail(c.rest) \in Seq(FieldShape) /\ Len(Tail(c.rest)) = Len(c.rest) - 1
  BY <1>1
<1>3. Passed(c) \in Nat /\ Passed(c) + 1 \in 1..Len(CallFields(c))
  BY <1>1, <1>2 DEF Passed, RestFits
<1>4. Head(c.rest) = CallFields(c)[Passed(c) + 1]
  BY <1>1, <1>2 DEF RestFits
<1>5. CallFields(c)[Passed(c) + 1] \in FieldsIn(c.field.of)
  BY <1>1, <1>3 DEF FieldsIn, CallFields
<1> QED
  BY <1>1, <1>2, <1>3, <1>4, <1>5

LEMMA RestOfNext ==
  ASSUME client \in Clients, NEW T, NEW c \in EmbedCall(T), RestFits(c), c.rest # <<>>,
         NEW d, d.field = c.field, d.rest = Tail(c.rest)
  PROVE  RestFits(d) /\ Passed(d) = Passed(c) + 1 /\ CallFields(d) = CallFields(c)
<1>1. CallFields(d) = CallFields(c)
  BY DEF CallFields
<1>2. /\ Len(c.rest) > 0 /\ Tail(c.rest) \in Seq(FieldShape) /\ Len(Tail(c.rest)) = Len(c.rest) - 1
      /\ Passed(c) \in Nat /\ CallFields(c) \in Seq(FieldShape) /\ c.rest \in Seq(FieldShape)
  <2>1. c.rest \in Seq(FieldShape)
    BY DEF EmbedCall
  <2> QED
    BY <2>1, NextOfRest
<1>3. Passed(d) = Passed(c) + 1
  <2> DEFINE n == Len(CallFields(c))
             m == Len(c.rest)
  <2>1. n \in Nat /\ m \in Nat
    BY <1>2
  <2>2. Passed(c) = n - m /\ Passed(d) = n - (m - 1)
    BY <1>1, <1>2 DEF Passed
  <2> HIDE DEF n, m
  <2> QED
    BY <2>1, <2>2
<1>4. ASSUME NEW i \in 1..Len(d.rest)
      PROVE  d.rest[i] = CallFields(d)[Passed(d) + i]
  <2>1. i + 1 \in 1..Len(c.rest) /\ d.rest[i] = c.rest[i + 1]
    BY <1>2
  <2>2. c.rest[i + 1] = CallFields(c)[Passed(c) + (i + 1)]
    BY <2>1 DEF RestFits
  <2> QED
    BY <1>1, <1>2, <1>3, <2>1, <2>2
<1>5. c.field.of \in ClientTypes /\ Len(d.rest) <= Len(CallFields(d))
  BY <1>1, <1>2 DEF RestFits
<1> QED
  BY <1>1, <1>3, <1>4, <1>5 DEF RestFits

LEMMA TreatedStays ==
  ASSUME NEW c, NEW d, NEW outer, NEW i, Treated(c, outer, i),
         d.field = c.field, c.id \subseteq d.id, c.title \subseteq d.title
  PROVE  Treated(d, outer, i)
<1>1. CallFields(d) = CallFields(c) /\ InFull(d, outer) = InFull(c, outer)
  BY DEF CallFields, InFull
<1>2. ASSUME NEW f, IsIn(f, c.id) PROVE IsIn(f, d.id)
  BY <1>2 DEF IsIn
<1>3. ASSUME NEW f, IsIn(f, c.title) PROVE IsIn(f, d.title)
  BY <1>3 DEF IsIn
<1> QED
  BY <1>1, <1>2, <1>3 DEF Treated

(* More is selected, and the next field has been seen to.                  *)
LEMMA CallGoesOn ==
  ASSUME client \in Clients, NEW T, NEW c \in EmbedCall(T), RestFits(c), c.rest # <<>>,
         NEW outer, CallFits(c, outer, FALSE), NEW waits \in BOOLEAN,
         NEW d, d.field = c.field, d.rest = Tail(c.rest), c.id \subseteq d.id, c.title \subseteq d.title,
         \A item \in d.id \cup d.title : item \in c.id \cup c.title \/ ItemFits(c.field.of, InFull(c, outer), item),
         waits \/ Treated(d, outer, Passed(c) + 1)
  PROVE  CallFits(d, outer, waits)
<1>1. RestFits(d) /\ Passed(d) = Passed(c) + 1 /\ CallFields(d) = CallFields(c) /\ Passed(c) \in Nat
  BY RestOfNext, NextOfRest
<1>2. InFull(d, outer) = InFull(c, outer)
  BY DEF InFull
<1>3. ASSUME NEW item \in d.id \cup d.title
      PROVE  ItemFits(d.field.of, InFull(d, outer), item)
  BY <1>2, <1>3 DEF CallFits
<1>4. ASSUME NEW i \in 1..Len(CallFields(d)), i <= Passed(d) /\ ~(waits /\ i = Passed(d))
      PROVE  Treated(d, outer, i)
  <2>1. CASE i <= Passed(c)
    <3>1. Treated(c, outer, i)
      BY <1>1, <2>1 DEF CallFits
    <3> QED
      BY <3>1, TreatedStays
  <2>2. CASE i = Passed(c) + 1
    BY <1>1, <1>4, <2>2
  <2> QED
    BY <1>1, <1>4, <2>1, <2>2
<1> QED
  BY <1>3, <1>4 DEF CallFits

LEMMA PlainFits ==
  ASSUME client \in Clients, NEW t, NEW f \in FieldsIn(t), NEW full,
         IF IsNamed(f) THEN ~HasTypeOfItsOwn(f) \/ f.byId ELSE (f.id \/ f.title) /\ ~full
  PROVE  ItemFits(t, full, Plain(f))
<1>1. CASE IsNamed(f)
  BY <1>1 DEF ItemFits, Plain, Braced
<1>2. CASE ~IsNamed(f)
  BY <1>2 DEF ItemFits, Plain
<1> QED
  BY <1>1, <1>2

LEMMA PlainIsIn ==
  ASSUME NEW f, IsNamed(f), NEW items, Plain(f) \in items
  PROVE  IsIn(f, items)
BY DEF IsIn, Plain

(* A call and the same call with more selected, one field further.         *)
Later(c, id, title) == [field |-> c.field, rest |-> Tail(c.rest), id |-> id, title |-> title]

LEMMA FieldsChange ==
  ASSUME NEW a, NEW b, NEW i, NEW t, NEW e, e = [field |-> a, rest |-> b, id |-> i, title |-> t], NEW x
  PROVE  /\ e.field = a /\ e.rest = b /\ e.id = i /\ e.title = t
         /\ [e EXCEPT !.id = x] = [field |-> a, rest |-> b, id |-> x, title |-> t]
         /\ [e EXCEPT !.title = x] = [field |-> a, rest |-> b, id |-> i, title |-> x]
         /\ [e EXCEPT !.rest = Tail(@)] = [field |-> a, rest |-> Tail(b), id |-> i, title |-> t]
<1>1. [e EXCEPT !.id = x] = [field |-> a, rest |-> b, id |-> x, title |-> t]
  OBVIOUS
<1>2. [e EXCEPT !.title = x] = [field |-> a, rest |-> b, id |-> i, title |-> x]
  OBVIOUS
<1>3. [e EXCEPT !.rest = Tail(@)] = [field |-> a, rest |-> Tail(b), id |-> i, title |-> t]
  <2>1. PICK y : y = Tail(b)
    OBVIOUS
  <2>2. [e EXCEPT !.rest = y] = [field |-> a, rest |-> y, id |-> i, title |-> t] /\ e.rest = b
    OBVIOUS
  <2> QED
    BY <2>1, <2>2
<1>4. e.field = a /\ e.rest = b /\ e.id = i /\ e.title = t
  OBVIOUS
<1> QED
  BY <1>1, <1>2, <1>3, <1>4

LEMMA LaterIs ==
  ASSUME NEW T, NEW c \in EmbedCall(T), NEW e, e = [c EXCEPT !.rest = Tail(@)], NEW x
  PROVE  /\ e = Later(c, c.id, c.title) /\ e.id = c.id /\ e.title = c.title
         /\ [e EXCEPT !.id = x] = Later(c, x, c.title)
         /\ [e EXCEPT !.title = x] = Later(c, c.id, x)
         /\ [c EXCEPT !.rest = Tail(@), !.id = x] = Later(c, x, c.title)
<1>1. PICK a, r, b, i, t : a = c.field /\ r = c.rest /\ b = Tail(r) /\ i = c.id /\ t = c.title
  OBVIOUS
<1>2. c = [field |-> a, rest |-> r, id |-> i, title |-> t]
  BY <1>1 DEF EmbedCall
<1>3. ASSUME NEW y, NEW z
      PROVE  Later(c, y, z) = [field |-> a, rest |-> b, id |-> y, title |-> z]
  BY <1>1 DEF Later
<1>4. e = [field |-> a, rest |-> b, id |-> i, title |-> t]
  BY <1>1, <1>2, FieldsChange
<1>5. /\ e = Later(c, i, t) /\ e.id = i /\ e.title = t
      /\ [e EXCEPT !.id = x] = Later(c, x, t)
      /\ [e EXCEPT !.title = x] = Later(c, i, x)
  <2>1. e.id = i /\ e.title = t
    BY <1>4, FieldsChange
  <2>2. [e EXCEPT !.id = x] = [field |-> a, rest |-> b, id |-> x, title |-> t]
    BY ONLY <1>4, FieldsChange
  <2>3. [e EXCEPT !.title = x] = [field |-> a, rest |-> b, id |-> i, title |-> x]
    BY ONLY <1>4, FieldsChange
  <2> QED
    BY <1>3, <1>4, <2>1, <2>2, <2>3
<1>6. [c EXCEPT !.rest = Tail(@), !.id = x] = [[c EXCEPT !.rest = Tail(@)] EXCEPT !.id = x]
  BY Zenon
<1> QED
  BY <1>1, <1>5, <1>6

LEMMA LaterTitled ==
  ASSUME NEW T, NEW c \in EmbedCall(T), NEW e, e = [c EXCEPT !.rest = Tail(@)], NEW x
  PROVE  [e EXCEPT !.title = x] = Later(c, c.id, x)
BY LaterIs, Zenon

LEMMA LaterParts ==
  ASSUME NEW c, NEW id, NEW title
  PROVE  /\ Later(c, id, title).field = c.field /\ Later(c, id, title).rest = Tail(c.rest)
         /\ Later(c, id, title).id = id /\ Later(c, id, title).title = title
BY DEF Later

LEMMA LaterFits ==
  ASSUME client \in Clients, NEW T, NEW c \in EmbedCall(T), RestFits(c), c.rest # <<>>, NEW id, NEW title
  PROVE  Later(c, id, title) \in EmbedCall(T \cup id \cup title)
<1>1. Tail(c.rest) \in Seq(FieldShape) /\ c.field \in FieldShape \cup [of : ClientTypes]
  BY NextOfRest DEF EmbedCall
<1> QED
  BY <1>1 DEF Later, EmbedCall

(* What a simple field of an embedded type adds to the selections.         *)
LEMMA SimpleFits ==
  ASSUME client \in Clients, NEW T, NEW c \in EmbedCall(T), c = Innermost, RestFits(c), c.rest # <<>>,
         CallFits(c, FALSE, FALSE), NEW f, f = Head(c.rest), ~Complex(f) \/ ~IsNamed(f)
  PROVE  \E id, title : /\ Simple(f) = Later(c, id, title)
                        /\ CallFits(Later(c, id, title), FALSE, FALSE)
<1> DEFINE named == IF IsNamed(f) THEN {Plain(f)} ELSE {}
<1>0. PICK t, full, k : t = c.field.of /\ full = Full(c.field) /\ k = Passed(c) + 1
  OBVIOUS
<1>1. /\ f \in FieldShape /\ f \in FieldsIn(t) /\ f = CallFields(c)[k] /\ k \in 1..Len(CallFields(c))
      /\ Passed(c) \in Nat /\ CallFields(c) \in Seq(FieldShape)
  BY <1>0, NextOfRest
<1>2. InFull(c, FALSE) = full /\ full \in BOOLEAN
  BY <1>0 DEF InFull, Full
<1>3. IsNamed(f) => ~Complex(f) /\ ~HasTypeOfItsOwn(f) /\ IsIn(f, {Plain(f)})
  BY <1>1, FieldIs, PlainIsIn
<1>4. ASSUME NEW d, d.field = c.field PROVE InFull(d, FALSE) = full /\ CallFields(d) = CallFields(c)
  BY <1>0, <1>4 DEF InFull, Full, CallFields
<1>5. CASE full \/ f.force
  <2>1. PICK x, y, d : x = c.id \cup named /\ y = c.title /\ d = Later(c, x, y)
    OBVIOUS
  <2>2. /\ d.field = c.field /\ d.rest = Tail(c.rest) /\ d.id = x /\ d.title = y
        /\ InFull(d, FALSE) = full /\ CallFields(d) = CallFields(c)
    <3>1. d.field = c.field /\ d.rest = Tail(c.rest) /\ d.id = x /\ d.title = y
      BY <2>1, LaterParts
    <3> QED
      BY <1>4, <3>1
  <2>3. d = [[c EXCEPT !.rest = Tail(@)] EXCEPT !.id = @ \cup named]
    <3>1. PICK e : e = [c EXCEPT !.rest = Tail(@)]
      OBVIOUS
    <3>2. [e EXCEPT !.id = x] = Later(c, x, c.title) /\ e.id = c.id
      BY <3>1, LaterIs
    <3> QED
      BY <2>1, <3>1, <3>2
  <2>4. Simple(f) = d
    BY <1>0, <1>5, <2>3 DEF Simple
  <2>5. \A item \in d.id \cup d.title : item \in c.id \cup c.title \/ ItemFits(t, InFull(c, FALSE), item)
    <3>1. IsNamed(f) => ItemFits(t, full, Plain(f))
      BY <1>0, <1>1, <1>3, PlainFits
    <3> QED
      BY <1>0, <1>1, <1>2, <2>1, <2>2, <3>1
  <2>6. Treated(d, FALSE, k)
    <3>1. IsNamed(f) => IsIn(f, d.id) /\ d.id # {}
      BY <1>0, <1>1, <1>2, <2>1, <2>2, PlainIsIn
    <3> QED
      BY <1>0, <1>1, <2>1, <2>2, <1>5, <3>1 DEF Treated, Titled
  <2>7. CallFits(d, FALSE, FALSE)
    BY <1>0, <1>1, <1>2, <2>1, <2>2, <2>5, <2>6, CallGoesOn
  <2> QED
    BY <2>1, <2>4, <2>7
<1>6. CASE ~(full \/ f.force) /\ f.id
  <2>1. PICK x, y, d : x = {Plain(f)} /\ y = c.title /\ d = Later(c, x, y)
    OBVIOUS
  <2>2. /\ d.field = c.field /\ d.rest = Tail(c.rest) /\ d.id = x /\ d.title = y
        /\ InFull(d, FALSE) = full /\ CallFields(d) = CallFields(c)
    <3>1. d.field = c.field /\ d.rest = Tail(c.rest) /\ d.id = x /\ d.title = y
      BY <2>1, LaterParts
    <3> QED
      BY <1>4, <3>1
  <2>3. d = [[c EXCEPT !.rest = Tail(@)] EXCEPT !.id = {Plain(f)}]
    <3>1. PICK e : e = [c EXCEPT !.rest = Tail(@)]
      OBVIOUS
    <3>2. [e EXCEPT !.id = x] = Later(c, x, c.title) /\ e.id = c.id
      BY <3>1, LaterIs
    <3> QED
      BY <2>1, <3>1, <3>2
  <2>4. Simple(f) = d
    BY <1>0, <1>6, <2>3 DEF Simple
  <2>5. ItemFits(t, full, Plain(f))
    BY <1>0, <1>1, <1>3, <1>6, PlainFits
  <2>6. RestFits(d) /\ Passed(d) = k
    BY <1>0, <1>1, <1>2, <2>1, <2>2, RestOfNext
  <2>7. ASSUME NEW item \in d.id \cup d.title
        PROVE  ItemFits(d.field.of, InFull(d, FALSE), item)
    BY <1>0, <1>1, <1>2, <2>1, <2>2, <2>5, <2>7 DEF CallFits
  <2>8. ASSUME NEW i \in 1..Len(CallFields(d)), i <= k
        PROVE  Treated(d, FALSE, i)
    <3>1. d.id # {}
      BY <2>1, <2>2
    <3>2. CASE i < k
      <4>1. Treated(c, FALSE, i)
        <5>1. i \in 1..Len(CallFields(c)) /\ i <= Passed(c)
          BY <1>0, <1>1, <2>8, <2>1, <2>2, <3>2
        <5> QED
          BY <5>1 DEF CallFits
      <4>2. IdAfter(t, full, i)
        BY <1>0, <1>1, <1>6, <3>2 DEF IdAfter, CallFields
      <4> QED
        BY <1>0, <1>1, <1>2, <2>1, <2>2, <3>1, <4>1, <4>2 DEF Treated
    <3>3. CASE i = k
      <4>1. IsNamed(f) => IsIn(f, d.id)
        BY <1>3, <2>1, <2>2
      <4> QED
        BY <1>0, <1>1, <2>1, <2>2, <1>6, <3>1, <3>3, <4>1 DEF Treated, Titled
    <3>4. i \in Int /\ k \in Int
      BY <1>0, <1>1, <2>1, <2>2
    <3>5. i < k \/ i = k
      BY <2>8, <3>4
    <3> QED
      BY <3>2, <3>3, <3>5
  <2>9. CallFits(d, FALSE, FALSE)
    BY <2>6, <2>7, <2>8 DEF CallFits
  <2> QED
    BY <2>1, <2>4, <2>9
<1>7. CASE ~(full \/ f.force) /\ ~f.id /\ IsTitle(t, f)
  <2>1. PICK x, y, d : x = c.id /\ y = c.title \cup {Plain(f)} /\ d = Later(c, x, y)
    OBVIOUS
  <2>2. /\ d.field = c.field /\ d.rest = Tail(c.rest) /\ d.id = x /\ d.title = y
        /\ InFull(d, FALSE) = full /\ CallFields(d) = CallFields(c)
    <3>1. d.field = c.field /\ d.rest = Tail(c.rest) /\ d.id = x /\ d.title = y
      BY <2>1, LaterParts
    <3> QED
      BY <1>4, <3>1
  <2>3. d = [[c EXCEPT !.rest = Tail(@)] EXCEPT !.title = @ \cup {Plain(f)}]
    <3>1. PICK e : e = [c EXCEPT !.rest = Tail(@)]
      OBVIOUS
    <3>2. e.title = c.title
      BY <3>1, LaterIs
    <3>3. [e EXCEPT !.title = y] = Later(c, c.id, y)
      BY <3>1, LaterTitled
    <3> QED
      BY <2>1, <3>1, <3>2, <3>3
  <2>4. Simple(f) = d
    BY <1>0, <1>7, <2>3 DEF Simple
  <2>5. ~IsNamed(f) => f.title
    BY <1>7 DEF IsTitle
  <2>6. ItemFits(t, full, Plain(f))
    BY <1>0, <1>1, <1>3, <1>7, <2>5, PlainFits
  <2>7. Treated(d, FALSE, k)
    <3>1. IsNamed(f) => IsIn(f, d.title)
      BY <1>0, <1>1, <1>2, <2>1, <2>2, PlainIsIn
    <3>2. d.title # {}
      BY <2>1, <2>2
    <3> QED
      BY <1>0, <1>1, <1>3, <2>1, <2>2, <1>7, <3>1, <3>2 DEF Treated, Wanted
  <2>8. CallFits(d, FALSE, FALSE)
    BY <1>0, <1>1, <1>2, <2>1, <2>2, <2>6, <2>7, CallGoesOn
  <2> QED
    BY <2>1, <2>4, <2>8
<1>8. CASE ~(full \/ f.force) /\ ~f.id /\ ~IsTitle(t, f)
  <2>1. PICK x, y, d : x = c.id /\ y = c.title /\ d = Later(c, x, y)
    OBVIOUS
  <2>2. /\ d.field = c.field /\ d.rest = Tail(c.rest) /\ d.id = x /\ d.title = y
        /\ InFull(d, FALSE) = full /\ CallFields(d) = CallFields(c)
    <3>1. d.field = c.field /\ d.rest = Tail(c.rest) /\ d.id = x /\ d.title = y
      BY <2>1, LaterParts
    <3> QED
      BY <1>4, <3>1
  <2>3. Simple(f) = d
    BY <1>0, <1>8, <2>1, LaterIs DEF Simple
  <2>4. Treated(d, FALSE, k)
    BY <1>0, <1>1, <1>3, <2>1, <2>2, <1>8 DEF Treated, Wanted, Titled, Worthy
  <2>5. CallFits(d, FALSE, FALSE)
    BY <1>0, <1>1, <1>2, <2>1, <2>2, <2>4, CallGoesOn
  <2> QED
    BY <2>1, <2>3, <2>5
<1> QED
  BY <1>5, <1>6, <1>7, <1>8

-----------------------------------------------------------------------------
LEMMA InnermostIs ==
  ASSUME SelectionInv, calls # <<>>
  PROVE  \E T, n : /\ n \in Nat \ {0} /\ n = Len(calls) /\ calls \in Seq(EmbedCall(T))
                   /\ Innermost = calls[n] /\ Innermost \in EmbedCall(T) /\ RestFits(Innermost)
                   /\ Callers \in Seq(EmbedCall(T)) /\ Len(Callers) = n - 1
                   /\ \A k \in 1..(n - 1) : Callers[k] = calls[k]
<1>1. PICK T : calls \in Seq(EmbedCall(T))
  BY DEF SelectionInv, CallsFit
<1>2. PICK n \in Nat \ {0} : n = Len(calls)
  BY <1>1
<1>3. Innermost = calls[n] /\ Innermost \in EmbedCall(T)
  BY <1>1, <1>2 DEF Innermost
<1>4. RestFits(Innermost)
  BY <1>2, <1>3 DEF SelectionInv, CallsFit
<1>5. /\ Callers \in Seq(EmbedCall(T)) /\ Len(Callers) = n - 1
      /\ \A k \in 1..(n - 1) : Callers[k] = calls[k]
  BY <1>1, <1>2 DEF Callers
<1> QED
  BY <1>1, <1>2, <1>3, <1>4, <1>5

LEMMA InnermostFits ==
  ASSUME SelectionInv, calls # <<>>, task # "instance"
  PROVE  CallFits(Innermost, Len(calls) = 1, FALSE)
<1>1. PICK n \in Nat \ {0} : n = Len(calls) /\ Innermost = calls[n]
  BY InnermostIs
<1>2. CallFits(calls[n], n = 1, n < Len(calls))
  BY <1>1 DEF SelectionInv, CallsFit
<1>3. (n < Len(calls)) = FALSE
  BY <1>1
<1> QED
  BY <1>1, <1>2, <1>3

(* What was fit of the other calls stays so, under any innermost one.      *)
LEMMA CallersFit ==
  ASSUME SelectionInv, calls # <<>>, NEW n \in 1..Len(calls), NEW s, NEW m \in Nat, Len(s) = m, n <= m,
         \A k \in 1..(n - 1) : s[k] = calls[k], s[n].field = calls[n].field,
         NEW k \in 1..(n - 1)
  PROVE  /\ RestFits(s[k]) /\ CalledBy(s[k + 1], s[k])
         /\ task # "instance" => CallFits(s[k], k = 1, k < Len(s))
<1>0. Len(calls) \in Nat
  BY InnermostIs
<1>1. k \in 1..Len(calls) /\ k < Len(calls) /\ (k < Len(s)) = TRUE /\ (k < Len(calls)) = TRUE
  BY <1>0
<1>2. RestFits(calls[k]) /\ CalledBy(calls[k + 1], calls[k])
  BY <1>1 DEF SelectionInv, CallsFit
<1>3. task # "instance" => CallFits(calls[k], k = 1, k < Len(calls))
  BY <1>1 DEF SelectionInv, CallsFit
<1>4. s[k + 1].field = calls[k + 1].field /\ s[k] = calls[k]
  <2>1. CASE k + 1 \in 1..(n - 1)
    BY <2>1
  <2>2. CASE k + 1 = n
    BY <2>2
  <2> QED
    BY <2>1, <2>2
<1>5. CalledBy(s[k + 1], s[k])
  BY <1>2, <1>4 DEF CalledBy
<1> QED
  BY <1>1, <1>2, <1>3, <1>4, <1>5

(* The sequence of calls with the innermost one further on.                *)
LEMMA GoesOn ==
  ASSUME SelectionInv, calls # <<>>, Innermost.rest # <<>>, NEW id, NEW title,
         NEW s, s = Append(Callers, Later(Innermost, id, title)),
         task # "instance" => CallFits(Later(Innermost, id, title), Len(calls) = 1, FALSE)
  PROVE  CallsFit(s)
<1>1. PICK T, n : /\ n \in Nat \ {0} /\ n = Len(calls) /\ calls \in Seq(EmbedCall(T))
                  /\ Innermost = calls[n] /\ Innermost \in EmbedCall(T) /\ RestFits(Innermost)
                  /\ Callers \in Seq(EmbedCall(T)) /\ Len(Callers) = n - 1
                  /\ \A k \in 1..(n - 1) : Callers[k] = calls[k]
  BY InnermostIs
<1>2. PICK c, d, U : c = Innermost /\ d = Later(c, id, title) /\ U = T \cup id \cup title
  OBVIOUS
<1>3. client \in Clients
  BY DEF SelectionInv
<1>4. d \in EmbedCall(U) /\ d.field = c.field /\ d.rest = Tail(c.rest)
  BY <1>1, <1>2, <1>3, LaterFits, LaterParts
<1>5. RestFits(d)
  BY <1>1, <1>2, <1>3, <1>4, RestOfNext
<1>6. Callers \in Seq(EmbedCall(U))
  BY <1>1, <1>2, ShapesGrow
<1>7. /\ s \in Seq(EmbedCall(U)) /\ Len(s) = n /\ s[n] = d
      /\ \A k \in 1..(n - 1) : s[k] = calls[k]
  BY <1>1, <1>2, <1>4, <1>6
<1>8. ASSUME NEW k \in 1..Len(s)
      PROVE  /\ RestFits(s[k])
             /\ k < Len(s) => CalledBy(s[k + 1], s[k])
             /\ task # "instance" => CallFits(s[k], k = 1, k < Len(s))
  <2>1. CASE k \in 1..(n - 1)
    <3>1. s[n].field = calls[n].field /\ k < Len(s)
      BY <1>1, <1>2, <1>4, <1>7, <2>1
    <3>2. PICK m \in Nat : Len(s) = m /\ n <= m /\ n \in 1..Len(calls)
      BY <1>1, <1>7
    <3> QED
      BY <1>1, <1>7, <2>1, <3>1, <3>2, CallersFit
  <2>2. CASE k = n
    <3>1. (k < Len(s)) = FALSE /\ (k = 1) = (Len(calls) = 1)
      BY <1>1, <1>7, <2>2
    <3> QED
      BY <1>2, <1>5, <1>7, <2>2, <3>1
  <2> QED
    BY <1>1, <1>7, <1>8, <2>1, <2>2
<1> QED
  BY <1>7, <1>8 DEF CallsFit

(* The sequence of calls with one call more, for the field just passed.    *)
LEMMA GoesIn ==
  ASSUME SelectionInv, calls # <<>>, Innermost.rest # <<>>, NEW id, NEW title,
         NEW f, f = Head(Innermost.rest), Enters(f),
         NEW s, s = Callers \o <<Later(Innermost, id, title), Call(f)>>,
         task # "instance" => CallFits(Later(Innermost, id, title), Len(calls) = 1, TRUE)
  PROVE  CallsFit(s)
<1>1. PICK T, n : /\ n \in Nat \ {0} /\ n = Len(calls) /\ calls \in Seq(EmbedCall(T))
                  /\ Innermost = calls[n] /\ Innermost \in EmbedCall(T) /\ RestFits(Innermost)
                  /\ Callers \in Seq(EmbedCall(T)) /\ Len(Callers) = n - 1
                  /\ \A k \in 1..(n - 1) : Callers[k] = calls[k]
  BY InnermostIs
<1>2. PICK c, d, e, U : c = Innermost /\ d = Later(c, id, title) /\ e = Call(f) /\ U = T \cup id \cup title
  OBVIOUS
<1>3. client \in Clients
  BY DEF SelectionInv
<1>4. d \in EmbedCall(U) /\ d.field = c.field /\ d.rest = Tail(c.rest)
  <2>1. d \in EmbedCall(U)
    BY <1>1, <1>2, <1>3, LaterFits
  <2>2. d.field = c.field /\ d.rest = Tail(c.rest)
    BY <1>2, LaterParts
  <2> QED
    BY <2>1, <2>2
<1>5. RestFits(d) /\ Passed(d) = Passed(c) + 1 /\ CallFields(d) = CallFields(c)
  BY <1>1, <1>2, <1>3, <1>4, RestOfNext
<1>6. f \in FieldShape /\ f = CallFields(c)[Passed(c) + 1] /\ Passed(c) \in Nat
  BY <1>1, <1>2, <1>3, NextOfRest
<1>7. /\ e.field = f /\ e.rest = client.fields[f.of] /\ e.id = {} /\ e.title = {}
      /\ f.of \in ClientTypes /\ e.rest \in Seq(FieldShape) /\ e \in EmbedCall(U)
  <2>1. f.of \in ClientTypes
    BY DEF Enters, HasTypeOfItsOwn
  <2>2. client.fields[f.of] \in Seq(FieldShape)
    BY <1>3, <2>1, ClientIs
  <2> QED
    BY <1>2, <1>6, <2>1, <2>2 DEF Call, EmbedCall
<1>8. RestFits(e) /\ Passed(e) = 0
  <2>1. CallFields(e) = e.rest
    BY <1>7 DEF CallFields
  <2>2. Passed(e) = 0
    BY <1>7, <2>1 DEF Passed
  <2> QED
    BY <1>7, <2>1, <2>2 DEF RestFits
<1>9. CallFits(e, FALSE, FALSE)
  <2>1. ASSUME NEW i \in 1..Len(CallFields(e)) PROVE ~(i <= Passed(e))
    BY <1>8
  <2> QED
    BY <1>7, <2>1 DEF CallFits
<1>10. CalledBy(e, d)
  BY <1>5, <1>6, <1>7 DEF CalledBy
<1>11. Callers \in Seq(EmbedCall(U))
  BY <1>1, <1>2, ShapesGrow
<1>12. /\ s \in Seq(EmbedCall(U)) /\ Len(s) = n + 1 /\ s[n] = d /\ s[n + 1] = e
       /\ \A k \in 1..(n - 1) : s[k] = calls[k]
  <2>1. PICK p, q : p = Callers /\ q = <<d, e>> /\ s = p \o q
    BY <1>2
  <2>2. q \in Seq(EmbedCall(U)) /\ Len(q) = 2 /\ q[1] = d /\ q[2] = e
    BY <1>4, <1>7, <2>1
  <2>3. p \in Seq(EmbedCall(U)) /\ Len(p) = n - 1
    BY <1>1, <1>11, <2>1
  <2>4. s \in Seq(EmbedCall(U)) /\ Len(s) = n + 1
    <3>1. PICK S : S = EmbedCall(U)
      OBVIOUS
    <3>2. p \in Seq(S) /\ q \in Seq(S)
      BY <2>2, <2>3, <3>1
    <3>3. p \o q \in Seq(S) /\ Len(p \o q) = Len(p) + Len(q)
      BY ONLY <3>2
    <3>4. Len(s) = n + 1
      BY <1>1, <2>1, <2>2, <2>3, <3>3
    <3> QED
      BY <2>1, <3>1, <3>3, <3>4
  <2>5. s[n] = q[1] /\ s[n + 1] = q[2]
    BY <1>1, <2>1, <2>2, <2>3
  <2>6. \A k \in 1..(n - 1) : s[k] = p[k]
    BY <1>1, <2>1, <2>2, <2>3
  <2> QED
    BY <1>1, <2>1, <2>2, <2>4, <2>5, <2>6
<1>13. ASSUME NEW k \in 1..Len(s)
       PROVE  /\ RestFits(s[k])
              /\ k < Len(s) => CalledBy(s[k + 1], s[k])
              /\ task # "instance" => CallFits(s[k], k = 1, k < Len(s))
  <2>1. CASE k \in 1..(n - 1)
    <3>1. s[n].field = calls[n].field /\ k < Len(s)
      BY <1>1, <1>2, <1>4, <1>12, <2>1
    <3>2. PICK m \in Nat : Len(s) = m /\ n <= m /\ n \in 1..Len(calls)
      BY <1>1, <1>12
    <3> QED
      BY <1>1, <1>12, <2>1, <3>1, <3>2, CallersFit
  <2>2. CASE k = n
    <3>1. (k < Len(s)) = TRUE /\ (k = 1) = (Len(calls) = 1)
      BY <1>1, <1>12, <2>2
    <3> QED
      BY <1>2, <1>5, <1>10, <1>12, <2>2, <3>1
  <2>3. CASE k = n + 1
    <3>1. (k < Len(s)) = FALSE /\ (k = 1) = FALSE
      BY <1>1, <1>12, <2>3
    <3> QED
      BY <1>8, <1>9, <1>12, <2>3, <3>1
  <2> QED
    BY <1>1, <1>12, <1>13, <2>1, <2>2, <2>3
<1> QED
  BY <1>12, <1>13 DEF CallsFit

-----------------------------------------------------------------------------
(* A finished selection, and all of them.                                  *)
SelectionFits(q) ==
  /\ \A item \in q.items : ItemFits(q.of, q.full, item)
  /\ \A f \in Owed(q) : IsIn(f, q.items)

LEMMA SelectionsAre == SelectionsFit <=> \A q \in queries : SelectionFits(q)
BY DEF SelectionsFit, SelectionFits, ItemFits, IsIn

LEMMA SelectionStays ==
  ASSUME client' = client, NEW q, SelectionFits(q)
  PROVE  SelectionFits(q)'
<1>1. ASSUME NEW t, NEW f PROVE IsTitle(t, f)' = IsTitle(t, f) /\ FieldsIn(t)' = FieldsIn(t)
  BY DEF IsTitle, FieldsIn
<1>2. ASSUME NEW t, NEW full, NEW item, ItemFits(t, full, item) PROVE ItemFits(t, full, item)'
  BY <1>1, <1>2 DEF ItemFits, Braced
<1>3. ASSUME NEW f PROVE Replaced(q, f)' = Replaced(q, f)
  BY DEF Replaced
<1>4. Owed(q)' = Owed(q)
  BY <1>1, <1>3 DEF Owed
<1> QED
  BY <1>2, <1>4 DEF SelectionFits

LEMMA SelectionsStay ==
  ASSUME client' = client, SelectionsFit, \A q \in queries' : q \in queries \/ SelectionFits(q)
  PROVE  SelectionsFit'
<1>1. ASSUME NEW q \in queries' PROVE SelectionFits(q)
  BY <1>1, SelectionsAre
<1>2. ASSUME NEW q \in queries' PROVE SelectionFits(q)'
  BY <1>1, <1>2, SelectionStays
<1> QED
  BY <1>2 DEF SelectionsFit, SelectionFits, ItemFits, IsIn

LEMMA RoundStays ==
  ASSUME client' = client, task' = task, Round
  PROVE  Round'
<1>1. PICK types \in SUBSET ClientTypes :
        types # {} /\ \A t \in types : \E f \in FieldsIn(t) : Follows(f, types)
  BY DEF Round
<1>2. ASSUME NEW f, Follows(f, types) PROVE Follows(f, types)'
  BY <1>2 DEF Follows, Immediate, LeftOut, Initialised, NeedInit, MadeByItsType
<1>3. ASSUME NEW t \in types PROVE \E f \in FieldsIn(t)' : Follows(f, types)'
  BY <1>1, <1>2, <1>3 DEF FieldsIn
<1> QED
  BY <1>1, <1>3 DEF Round

(* More calls than there are types: two are for one type.                  *)
LEMMA DeepIsRound ==
  ASSUME SelectionInv, calls # <<>>, TooDeep
  PROVE  Round
<1>1. PICK n \in Nat \ {0} : n = Len(calls)
  BY InnermostIs
<1>2. PICK c \in Nat : c = Cardinality(ClientTypes) /\ n > c
  BY <1>1, ClientTypesAssumption, FS_CardinalityType DEF TooDeep
<1>3. PICK q \in [1..n -> ClientTypes] : \A k \in 1..n : q[k] = calls[k].field.of
  <2>1. ASSUME NEW k \in 1..n PROVE calls[k].field.of \in ClientTypes
    <3>1. RestFits(calls[k])
      BY <1>1 DEF SelectionInv, CallsFit
    <3> QED
      BY <3>1 DEF RestFits
  <2>2. [k \in 1..n |-> calls[k].field.of] \in [1..n -> ClientTypes]
    BY <2>1
  <2> QED
    BY <2>2
<1>4. PICK a, b \in 1..n : a # b /\ q[a] = q[b]
  <2>1. IsFiniteSet(1..n) /\ Cardinality(1..n) = n
    <3>1. 1 \in Int /\ n \in Int /\ ~(1 > n)
      BY <1>1
    <3>2. IsFiniteSet(1..n) /\ Cardinality(1..n) = n - 1 + 1
      BY <3>1, FS_Interval
    <3> QED
      BY <3>1, <3>2
  <2>2. Cardinality(ClientTypes) < Cardinality(1..n)
    BY <1>2, <2>1
  <2> QED
    BY <2>1, <2>2, ClientTypesAssumption, FS_PigeonHole
<1>5. PICK x, y \in 1..n : x < y /\ q[x] = q[y]
  <2>1. CASE a < b
    BY <1>4, <2>1
  <2>2. CASE b < a
    BY <1>4, <2>2
  <2> QED
    BY <1>4, <2>1, <2>2
<1> DEFINE types == {q[k] : k \in x..(y - 1)}
<1>6. types \in SUBSET ClientTypes /\ types # {}
  <2>1. \A k \in x..(y - 1) : k \in 1..n
    BY <1>5
  <2>2. q[x] \in types
    BY <1>5
  <2> QED
    BY <1>3, <2>1, <2>2
<1>7. ASSUME NEW k \in x..(y - 1)
      PROVE  \E f \in FieldsIn(q[k]) : Follows(f, types)
  <2>1. k \in 1..n /\ k + 1 \in 1..n /\ k < n
    BY <1>1, <1>5
  <2>2. CalledBy(calls[k + 1], calls[k]) /\ RestFits(calls[k])
    BY <1>1, <2>1 DEF SelectionInv, CallsFit
  <2>3. PICK f : f = calls[k + 1].field
    OBVIOUS
  <2>4. f \in FieldsIn(q[k]) /\ Enters(f) /\ f.of = q[k + 1]
    <3>1. PICK T : calls \in Seq(EmbedCall(T))
      BY DEF SelectionInv, CallsFit
    <3>2. calls[k].rest \in Seq(FieldShape) /\ CallFields(calls[k]) \in Seq(FieldShape)
      <4>1. calls[k] \in EmbedCall(T)
        BY <1>1, <2>1, <3>1
      <4>2. calls[k].field.of \in ClientTypes /\ client \in Clients
        BY <2>2 DEF RestFits, SelectionInv
      <4> QED
        BY <4>1, <4>2, ClientIs DEF EmbedCall, CallFields
    <3>3. Passed(calls[k]) \in 1..Len(CallFields(calls[k])) /\ f = CallFields(calls[k])[Passed(calls[k])]
      <4>1. PICK u, v : u = Len(CallFields(calls[k])) /\ v = Len(calls[k].rest)
        OBVIOUS
      <4>2. u \in Nat /\ v \in Nat
        BY <3>2, <4>1
      <4>3. Passed(calls[k]) = u - v /\ Passed(calls[k]) > 0
        BY <2>2, <4>1 DEF CalledBy, Passed
      <4>4. PICK w : w = Passed(calls[k])
        OBVIOUS
      <4>5. w \in 1..u
        BY ONLY <4>2, <4>3, <4>4
      <4>6. f = CallFields(calls[k])[Passed(calls[k])]
        BY <2>2, <2>3 DEF CalledBy
      <4> QED
        BY <4>1, <4>4, <4>5, <4>6
    <3>4. f \in FieldsIn(q[k])
      BY <1>3, <2>1, <3>2, <3>3 DEF FieldsIn, CallFields
    <3> QED
      BY <1>3, <2>1, <2>2, <2>3, <3>4 DEF CalledBy
  <2>5. q[k + 1] \in types
    <3>1. CASE k = y - 1
      <4>1. q[k + 1] = q[x] /\ x \in x..(y - 1)
        BY <1>5, <3>1
      <4> QED
        BY <4>1
    <3>2. CASE k # y - 1
      <4>1. k + 1 \in x..(y - 1)
        BY <3>2
      <4> QED
        BY <4>1
    <3> QED
      BY <3>1, <3>2
  <2>6. Follows(f, types)
    BY <2>4, <2>5 DEF Follows, Enters
  <2> QED
    BY <2>4, <2>6
<1> QED
  BY <1>6, <1>7 DEF Round

-----------------------------------------------------------------------------
(* The actions.                                                            *)
LEMMA InnermostGoesOn ==
  ASSUME SelectionInv, calls # <<>>, Innermost.rest # <<>>, NEW id, NEW title,
         calls' = Append(Callers, Later(Innermost, id, title)),
         task # "instance" => CallFits(Later(Innermost, id, title), Len(calls) = 1, FALSE),
         written' = written, UNCHANGED <<client, task, queries>>
  PROVE  SelectionInv'
<1>1. PICK s : s = calls'
  OBVIOUS
<1>2. CallsFit(s)
  BY <1>1, GoesOn
<1>3. CallsFit(s)'
  BY <1>2, CallsStayFit
<1>4. CallsFit(calls)'
  BY <1>1, <1>3 DEF CallsFit
<1>5. SelectionsFit'
  BY SelectionsStay DEF SelectionInv, QueriesExplained
<1>6. EndsUnlessRound'
  BY RoundStays DEF SelectionInv, QueriesExplained, EndsUnlessRound
<1> QED
  BY <1>4, <1>5, <1>6 DEF SelectionInv, QueriesExplained

LEMMA InnermostGoesIn ==
  ASSUME SelectionInv, calls # <<>>, Innermost.rest # <<>>, NEW id, NEW title,
         NEW f, f = Head(Innermost.rest), Enters(f),
         task # "instance" => CallFits(Later(Innermost, id, title), Len(calls) = 1, TRUE),
         Recurse(Later(Innermost, id, title), f), UNCHANGED <<client, task, queries>>
  PROVE  SelectionInv'
<1>1. SelectionsFit'
  BY SelectionsStay DEF SelectionInv, QueriesExplained
<1>2. CASE TooDeep
  <2>1. calls' = calls
    BY <1>2 DEF Recurse
  <2>2. Round'
    BY <1>2, DeepIsRound, RoundStays
  <2>3. CallsFit(calls)'
    <3>1. PICK s : s = calls
      OBVIOUS
    <3>2. CallsFit(s)'
      BY <3>1, CallsStayFit DEF SelectionInv
    <3> QED
      BY <2>1, <3>1, <3>2 DEF CallsFit
  <2>4. written' = "overflow"
    BY <1>2 DEF Recurse
  <2> QED
    BY <1>1, <2>2, <2>3, <2>4 DEF SelectionInv, QueriesExplained, EndsUnlessRound
<1>3. CASE ~TooDeep
  <2>1. PICK s : s = calls'
    OBVIOUS
  <2>2. s = Callers \o <<Later(Innermost, id, title), Call(f)>> /\ written' = written
    BY <1>3, <2>1 DEF Recurse
  <2>3. CallsFit(s)
    BY <2>2, GoesIn
  <2>4. CallsFit(s)'
    BY <2>3, CallsStayFit
  <2>5. CallsFit(calls)'
    BY <2>1, <2>4 DEF CallsFit
  <2>6. EndsUnlessRound'
    BY <2>2, RoundStays DEF SelectionInv, QueriesExplained, EndsUnlessRound
  <2> QED
    BY <1>1, <2>5, <2>6 DEF SelectionInv, QueriesExplained
<1> QED
  BY <1>2, <1>3

LEMMA CollectIs ==
  ASSUME SelectionInv, calls # <<>>, NEW items
  PROVE  Collect(items) = Later(Innermost, Innermost.id \cup items, Innermost.title)
<1>1. PICK T : Innermost \in EmbedCall(T)
  BY InnermostIs
<1>2. PICK c, x, e : c = Innermost /\ x = c.id \cup items /\ e = [c EXCEPT !.rest = Tail(@)]
  OBVIOUS
<1>3. [c EXCEPT !.rest = Tail(@), !.id = x] = Later(c, x, c.title)
  BY <1>1, <1>2, LaterIs
<1> QED
  BY <1>2, <1>3 DEF Collect

(* No call, or one that has only begun.                                    *)
LEMMA NoCallFits == ASSUME calls' = <<>> PROVE CallsFit(calls)'
<1>1. <<>> \in Seq(EmbedCall({})')
  OBVIOUS
<1> QED
  BY <1>1 DEF CallsFit, EmbedCall

LEMMA OuterFits ==
  ASSUME client \in Clients, client' = client, NEW e \in ClientTypes, calls' = <<Outer(e)>>
  PROVE  CallsFit(calls)'
<1>1. PICK c : c = Outer(e)
  OBVIOUS
<1>2. /\ c.field = [of |-> e] /\ c.field.of = e /\ c.rest = client.fields[e] /\ c.id = {} /\ c.title = {}
      /\ c.rest \in Seq(FieldShape) /\ c \in EmbedCall({})
  <2>1. client.fields[e] \in Seq(FieldShape)
    BY ClientIs
  <2> QED
    BY <1>1, <2>1 DEF Outer, EmbedCall
<1>3. calls' = <<c>> /\ Len(calls') = 1 /\ calls'[1] = c
  BY <1>1
<1>4. RestFits(c)' /\ Passed(c)' = 0
  <2>1. CallFields(c)' = c.rest
    BY <1>2 DEF CallFields
  <2>2. Passed(c)' = 0
    BY <1>2, <2>1 DEF Passed
  <2> QED
    BY <1>2, <2>1, <2>2 DEF RestFits
<1>5. CallFits(c, TRUE, FALSE)'
  <2>1. ASSUME NEW i \in 1..Len(CallFields(c)') PROVE ~(i <= Passed(c)')
    BY <1>4
  <2> QED
    BY <1>2, <2>1 DEF CallFits
<1>6. calls' \in Seq(EmbedCall({}))
  BY <1>2, <1>3
<1>7. (1 = 1) = TRUE /\ (1 < Len(calls')) = FALSE
  BY <1>3
<1>8. ASSUME NEW k, k \in 1..Len(calls')
      PROVE  /\ RestFits(calls[k])'
             /\ ~(k < Len(calls'))
             /\ CallFits(calls[k], k = 1, k < Len(calls))'
  <2>1. k = 1 /\ calls'[k] = c /\ (k = 1) = TRUE /\ (k < Len(calls')) = FALSE
    BY <1>3, <1>8
  <2>2. RestFits(calls[k])'
    BY <1>4, <2>1
  <2>3. CallFits(calls[k], k = 1, k < Len(calls))'
    BY <1>5, <2>1
  <2> QED
    BY <2>1, <2>2, <2>3
<1>9. (\E T : calls \in Seq(EmbedCall(T)))'
  BY <1>6 DEF EmbedCall
<1> QED
  BY <1>8, <1>9 DEF CallsFit

(* What a call that looks at its next field may collect.                   *)
LEMMA OnlyIdGrows ==
  ASSUME SelectionInv, calls # <<>>, Innermost.rest # <<>>, task # "instance",
         NEW outer, outer = (Len(calls) = 1), NEW items, NEW waits \in BOOLEAN,
         \A item \in items : ItemFits(Innermost.field.of, InFull(Innermost, outer), item),
         NEW d, d = Later(Innermost, Innermost.id \cup items, Innermost.title),
         waits \/ Treated(d, outer, Passed(Innermost) + 1)
  PROVE  CallFits(d, outer, waits)
<1>1. PICK T, c : c = Innermost /\ c \in EmbedCall(T) /\ RestFits(c)
  BY InnermostIs
<1>2. client \in Clients
  BY DEF SelectionInv
<1>3. CallFits(c, outer, FALSE)
  BY <1>1, InnermostFits
<1>4. d.field = c.field /\ d.rest = Tail(c.rest) /\ d.id = c.id \cup items /\ d.title = c.title
  <2>1. PICK id, title : id = c.id \cup items /\ title = c.title
    OBVIOUS
  <2>2. d = Later(c, id, title)
    BY <1>1, <2>1
  <2> QED
    BY <2>1, <2>2, LaterParts
<1>5. \A item \in d.id \cup d.title : item \in c.id \cup c.title \/ ItemFits(c.field.of, InFull(c, outer), item)
  BY <1>1, <1>4
<1>6. waits \/ Treated(d, outer, Passed(c) + 1)
  BY <1>1
<1>7. c.rest # <<>> /\ c.id \subseteq d.id /\ c.title \subseteq d.title
  BY <1>1, <1>4
<1> QED
  BY <1>1, <1>2, <1>3, <1>4, <1>5, <1>6, <1>7, CallGoesOn

(* The next field of the innermost call.                                   *)
LEMMA HeadIs ==
  ASSUME SelectionInv, calls # <<>>, Innermost.rest # <<>>, NEW id, NEW title
  PROVE  /\ Head1 \in FieldShape /\ Head1 \in FieldsIn(Innermost.field.of)
         /\ CallFields(Later(Innermost, id, title))[Passed(Innermost) + 1] = Head1
<1>1. PICK T, c : c = Innermost /\ c \in EmbedCall(T) /\ RestFits(c)
  BY InnermostIs
<1>2. client \in Clients
  BY DEF SelectionInv
<1>3. /\ Head(c.rest) \in FieldShape /\ Head(c.rest) \in FieldsIn(c.field.of)
      /\ Head(c.rest) = CallFields(c)[Passed(c) + 1]
  BY <1>1, <1>2, NextOfRest
<1>4. CallFields(Later(c, id, title)) = CallFields(c)
  BY LaterParts DEF CallFields
<1> QED
  BY <1>1, <1>3, <1>4 DEF Head1

LEMMA AnswerFits ==
  ASSUME NEW t, NEW f \in FieldsIn(t), IsNamed(f), Immediate(f), NEW full, NEW item \in Answer(f)
  PROVE  ItemFits(t, full, item)
<1>1. CASE f.of = "map"
  <2>1. item = <<f.name, {<<"key", {}>>, <<"val", {}>>}>>
    BY <1>1 DEF Answer, KeysAndValues
  <2>2. item[1] = f.name /\ item[2] # {}
    BY <2>1
  <2> QED
    BY <2>2 DEF ItemFits, Braced
<1>2. CASE f.of # "map" /\ ~(HasTypeOfItsOwn(f) /\ LeftOut(f))
  <2>1. item = Plain(f) /\ (~HasTypeOfItsOwn(f) \/ f.byId)
    BY <1>2 DEF Answer, Immediate
  <2> QED
    BY <2>1 DEF ItemFits, Braced, Plain
<1> QED
  BY <1>1, <1>2 DEF Answer

LEMMA AnswerTreats ==
  ASSUME NEW d, NEW outer, NEW i, NEW f, f = CallFields(d)[i], IsNamed(f), Complex(f), Immediate(f), Answer(f) \subseteq d.id
  PROVE  Treated(d, outer, i)
<1>1. CASE HasTypeOfItsOwn(f) /\ OfConfig
  BY <1>1 DEF Treated, Wanted, Titled, Worthy
<1>2. CASE ~(HasTypeOfItsOwn(f) /\ OfConfig)
  <2>1. KeysAndValues(f) \in d.id \/ Plain(f) \in d.id
    BY <1>2 DEF Answer, LeftOut, OfConfig
  <2>2. IsIn(f, d.id)
    BY <2>1 DEF IsIn, KeysAndValues, Plain
  <2>3. d.id # {}
    BY <2>1
  <2> QED
    BY <2>2, <2>3 DEF Treated, Titled
<1> QED
  BY <1>1, <1>2

-----------------------------------------------------------------------------
(* A step that begins or ends a query.                                     *)
LEMMA QueryBegins ==
  ASSUME SelectionInv, client' = client, queries' = {}, written' \notin {"overflow", "panicked"}, CallsFit(calls)'
  PROVE  SelectionInv'
<1>1. SelectionsFit'
  BY DEF SelectionsFit
<1>2. EndsUnlessRound'
  BY DEF EndsUnlessRound
<1> QED
  BY <1>1, <1>2 DEF SelectionInv, QueriesExplained

LEMMA ImportsFit == ASSUME SelectionInv, Imports PROVE SelectionInv'
<1>1. /\ UNCHANGED <<client, task, calls, queries>>
      /\ written' = IF NoTypeToImport THEN "panicked" ELSE "ready"
  BY DEF Imports
<1>2. CallsFit(calls)'
  <2>1. PICK s : s = calls
    OBVIOUS
  <2>2. CallsFit(s)'
    BY <1>1, <2>1, CallsStayFit DEF SelectionInv
  <2> QED
    BY <1>1, <2>1, <2>2 DEF CallsFit
<1>3. SelectionsFit'
  BY <1>1, SelectionsStay DEF SelectionInv, QueriesExplained
<1>4. EndsUnlessRound'
  BY <1>1 DEF EndsUnlessRound, NoTypeToImport
<1> QED
  BY <1>1, <1>2, <1>3, <1>4 DEF SelectionInv, QueriesExplained

LEMMA GenerateQueryFits ==
  ASSUME SelectionInv, NEW op, GenerateQuery(op)
  PROVE  SelectionInv'
<1>1. /\ calls' = <<Outer(client.file)>> /\ queries' = {} /\ client' = client
      /\ written' = "ready" /\ client \in Clients
  BY DEF GenerateQuery, SelectionInv
<1>2. CallsFit(calls)'
  BY <1>1, ClientIs, OuterFits
<1> QED
  BY <1>1, <1>2, QueryBegins

LEMMA ProcessMethodsFit == ASSUME SelectionInv, ProcessMethods PROVE SelectionInv'
<1>1. queries' = {} /\ client' = client /\ written' \notin {"overflow", "panicked"} /\ client \in Clients
  BY DEF ProcessMethods, SelectionInv
<1>2. calls' = <<>> \/ (client.gives \in ClientTypes /\ calls' = <<Outer(client.gives)>>)
  BY DEF ProcessMethods
<1>3. CallsFit(calls)'
  BY <1>1, <1>2, NoCallFits, OuterFits
<1> QED
  BY <1>1, <1>3, QueryBegins

LEMMA NewInstanceFits ==
  ASSUME SelectionInv, NEW e \in ClientTypes, NewInstance(e)
  PROVE  SelectionInv'
<1>1. /\ calls' = <<Outer(e)>> /\ queries' = {} /\ client' = client
      /\ written' = "ready" /\ client \in Clients
  BY DEF NewInstance, SelectionInv
<1>2. CallsFit(calls)'
  BY <1>1, OuterFits
<1> QED
  BY <1>1, <1>2, QueryBegins

-----------------------------------------------------------------------------
(* The innermost call collects items, for a field without a type to look into. *)
LEMMA CollectsItems ==
  ASSUME SelectionInv, InQuery, Innermost.rest # <<>>, NEW items,
         NEW outer, outer = (Len(calls) = 1),
         \A item \in items : ItemFits(Innermost.field.of, InFull(Innermost, outer), item),
         NEW d, d = Later(Innermost, Innermost.id \cup items, Innermost.title),
         Treated(d, outer, Passed(Innermost) + 1),
         ReplaceInnermost(Collect(items)), written' = written, UNCHANGED <<client, task, queries>>
  PROVE  SelectionInv'
<1>1. calls # <<>> /\ task # "instance"
  BY DEF InQuery
<1>2. CallFits(d, outer, FALSE)
  BY <1>1, OnlyIdGrows
<1>3. calls' = Append(Callers, d)
  BY <1>1, CollectIs DEF ReplaceInnermost
<1>4. PICK id, title : d = Later(Innermost, id, title)
  OBVIOUS
<1> QED
  BY <1>1, <1>2, <1>3, <1>4, InnermostGoesOn

(* It looks into the type of the field. *)
LEMMA LooksInto ==
  ASSUME SelectionInv, InQuery, Innermost.rest # <<>>,
         IsNamed(Head1), ~Immediate(Head1), Recurse(Collect({}), Head1), UNCHANGED <<client, task, queries>>
  PROVE  SelectionInv'
<1>1. calls # <<>> /\ task # "instance"
  BY DEF InQuery
<1>2. PICK d, outer : d = Later(Innermost, Innermost.id \cup {}, Innermost.title) /\ outer = (Len(calls) = 1)
  OBVIOUS
<1>3. CallFits(d, outer, TRUE)
  BY <1>1, <1>2, OnlyIdGrows
<1>4. Recurse(d, Head1)
  BY <1>1, <1>2, CollectIs
<1>5. Enters(Head1)
  BY <1>1 DEF Enters, Immediate
<1>6. PICK id, title : d = Later(Innermost, id, title)
  BY <1>2
<1>7. PICK f : f = Head(Innermost.rest) /\ f = Head1
  BY DEF Head1
<1>8. CallFits(Later(Innermost, id, title), Len(calls) = 1, TRUE)
  BY <1>2, <1>3, <1>6
<1>9. Recurse(Later(Innermost, id, title), f) /\ Enters(f)
  BY <1>4, <1>5, <1>6, <1>7
<1> QED
  BY <1>1, <1>7, <1>8, <1>9, InnermostGoesIn

LEMMA SelectFieldFits == ASSUME SelectionInv, SelectField PROVE SelectionInv'
<1>1. /\ InQuery /\ Innermost.rest # <<>> /\ (Len(calls) = 1) = TRUE
      /\ UNCHANGED <<client, task, queries>> /\ calls # <<>>
  BY DEF SelectField, InQuery
<1>2. PICK outer, f, t : outer = TRUE /\ f = Head1 /\ t = Innermost.field.of
  OBVIOUS
<1>3. f \in FieldShape /\ f \in FieldsIn(t)
  BY <1>1, <1>2, HeadIs
<1>4. InFull(Innermost, outer) = TRUE
  BY <1>2 DEF InFull
<1>5. ASSUME NEW items, ReplaceInnermost(Collect(items)), written' = written,
             \A item \in items : ItemFits(t, TRUE, item),
             IsNamed(f) /\ ~Complex(f) => IsIn(f, items)
      PROVE  SelectionInv'
  <2>1. PICK d : d = Later(Innermost, Innermost.id \cup items, Innermost.title)
    OBVIOUS
  <2>2. CallFields(d)[Passed(Innermost) + 1] = f
    BY <1>1, <1>2, <2>1, HeadIs
  <2>3. d.id = Innermost.id \cup items
    BY <2>1, LaterParts
  <2>4. IsNamed(f) /\ ~Complex(f) => IsIn(f, d.id)
    BY <1>5, <2>3 DEF IsIn
  <2>5. Treated(d, TRUE, Passed(Innermost) + 1)
    BY <2>2, <2>4 DEF Treated, Wanted, Titled, Worthy, InFull
  <2> QED
    BY <1>1, <1>2, <1>4, <1>5, <2>1, <2>5, CollectsItems
<1>6. CASE ~IsNamed(f)
  <2>1. PICK items : items = {}
    OBVIOUS
  <2>2. ReplaceInnermost(Collect(items)) /\ written' = written
    BY <1>2, <1>6, <2>1 DEF SelectField
  <2>3. \A item \in items : ItemFits(t, TRUE, item)
    BY <2>1
  <2>4. IsNamed(f) /\ ~Complex(f) => IsIn(f, items)
    BY <1>6
  <2> QED
    BY <1>5, <2>2, <2>3, <2>4
<1>7. CASE IsNamed(f) /\ ~Complex(f)
  <2>1. PICK items : items = {Plain(f)}
    OBVIOUS
  <2>2. ReplaceInnermost(Collect(items)) /\ written' = written
    BY <1>2, <1>7, <2>1 DEF SelectField
  <2>3. ItemFits(t, TRUE, Plain(f)) /\ IsIn(f, items)
    BY <1>3, <1>7, <2>1, FieldIs, PlainFits, PlainIsIn DEF SelectionInv
  <2>4. \A item \in items : ItemFits(t, TRUE, item)
    BY <2>1, <2>3
  <2> QED
    BY <1>5, <2>2, <2>3, <2>4
<1>8. CASE IsNamed(f) /\ Complex(f) /\ ~Visited(f)
  <2>1. ReplaceInnermost(Collect(NotVisited(f))) /\ written' = written
    BY <1>2, <1>8 DEF SelectField
  <2>2. ASSUME NEW item \in NotVisited(f) PROVE ItemFits(t, TRUE, item)
    <3>1. item = Plain(f) /\ (~HasTypeOfItsOwn(f) \/ f.byId)
      BY <2>2 DEF NotVisited
    <3> QED
      BY <1>3, <1>8, <3>1, PlainFits DEF SelectionInv
  <2> QED
    BY <1>5, <1>8, <2>1, <2>2
<1>9. CASE IsNamed(f) /\ Complex(f) /\ Visited(f) /\ Immediate(f)
  <2>1. ReplaceInnermost(Collect(Answer(f))) /\ written' = written
    BY <1>2, <1>9 DEF SelectField
  <2>2. \A item \in Answer(f) : ItemFits(t, TRUE, item)
    BY <1>3, <1>9, AnswerFits
  <2> QED
    BY <1>5, <1>9, <2>1, <2>2
<1>10. CASE IsNamed(f) /\ Complex(f) /\ Visited(f) /\ ~Immediate(f)
  <2>1. Recurse(Collect({}), Head1)
    BY <1>2, <1>10 DEF SelectField
  <2> QED
    BY <1>1, <1>2, <1>10, <2>1, LooksInto
<1> QED
  BY <1>6, <1>7, <1>8, <1>9, <1>10

LEMMA EmbedFieldFits == ASSUME SelectionInv, EmbedField PROVE SelectionInv'
<1>1. /\ InQuery /\ Innermost.rest # <<>> /\ (Len(calls) = 1) = FALSE
      /\ UNCHANGED <<client, task, queries>> /\ calls # <<>> /\ task # "instance" /\ client \in Clients
  BY InnermostIs DEF EmbedField, InQuery, SelectionInv
<1>2. PICK f, t : f = Head1 /\ t = Innermost.field.of
  OBVIOUS
<1>3. f \in FieldShape /\ f \in FieldsIn(t)
  BY <1>1, <1>2, HeadIs
<1>4. CASE ~Complex(f) \/ ~IsNamed(f)
  <2>1. calls' = Append(Callers, Simple(f)) /\ written' = written
    BY <1>2, <1>4 DEF EmbedField, ReplaceInnermost
  <2>2. PICK T, c : c = Innermost /\ c \in EmbedCall(T) /\ RestFits(c)
    BY <1>1, InnermostIs
  <2>3. CallFits(c, FALSE, FALSE)
    BY <1>1, <2>2, InnermostFits
  <2>4. c.rest # <<>> /\ f = Head(c.rest)
    BY <1>1, <1>2, <2>2 DEF Head1
  <2>5. PICK id, title : Simple(f) = Later(c, id, title) /\ CallFits(Later(c, id, title), FALSE, FALSE)
    BY <1>1, <1>4, <2>2, <2>3, <2>4, SimpleFits
  <2>6. Simple(f) = Later(Innermost, id, title) /\ CallFits(Later(Innermost, id, title), Len(calls) = 1, FALSE)
    BY <1>1, <2>2, <2>5
  <2> QED
    BY <1>1, <2>1, <2>6, InnermostGoesOn
<1>5. CASE Complex(f) /\ IsNamed(f) /\ Immediate(f)
  <2>1. ReplaceInnermost(Collect(Answer(f))) /\ written' = written
    BY <1>2, <1>5 DEF EmbedField
  <2>2. PICK d, items, outer : /\ items = Answer(f) /\ outer = FALSE
                               /\ d = Later(Innermost, Innermost.id \cup items, Innermost.title)
    OBVIOUS
  <2>3. \A item \in items : ItemFits(t, InFull(Innermost, outer), item)
    BY <1>3, <1>5, <2>2, AnswerFits
  <2>4. items \subseteq d.id
    BY <2>2, LaterParts
  <2>5. CallFields(d)[Passed(Innermost) + 1] = f
    BY <1>1, <1>2, <2>2, HeadIs
  <2>6. Treated(d, outer, Passed(Innermost) + 1)
    BY <1>5, <2>2, <2>4, <2>5, AnswerTreats
  <2> QED
    BY <1>1, <1>2, <2>1, <2>2, <2>3, <2>6, CollectsItems
<1>6. CASE Complex(f) /\ IsNamed(f) /\ ~Immediate(f)
  <2>1. Recurse(Collect({}), Head1)
    BY <1>2, <1>6 DEF EmbedField
  <2> QED
    BY <1>1, <1>2, <1>6, <2>1, LooksInto
<1> QED
  BY <1>4, <1>5, <1>6

LEMMA EmptyValFits == ASSUME SelectionInv, EmptyVal PROVE SelectionInv'
<1>1. /\ task = "instance" /\ calls # <<>> /\ Innermost.rest # <<>>
      /\ UNCHANGED <<client, task, queries>>
  BY DEF EmptyVal
<1>2. ASSUME NEW items
      PROVE  \E id, title : Collect(items) = Later(Innermost, id, title)
  BY <1>1, CollectIs
<1>3. CASE Initialised(Head1)
  <2>1. PICK items : items = {Plain(Head1)}
    OBVIOUS
  <2>2. Recurse(Collect(items), Head1)
    BY <1>3, <2>1 DEF EmptyVal
  <2>3. PICK id, title : Collect(items) = Later(Innermost, id, title)
    BY <1>2
  <2>4. Enters(Head1)
    BY <1>1, <1>3 DEF Enters, Initialised, NeedInit, MadeByItsType
  <2> QED
    BY <1>1, <2>2, <2>3, <2>4, InnermostGoesIn DEF Head1
<1>4. CASE ~Initialised(Head1)
  <2>1. PICK items : items = IF NeedInit(Head1) THEN {Plain(Head1)} ELSE {}
    OBVIOUS
  <2>2. calls' = Append(Callers, Collect(items)) /\ written' = written
    BY <1>4, <2>1 DEF EmptyVal, ReplaceInnermost
  <2>3. PICK id, title : Collect(items) = Later(Innermost, id, title)
    BY <1>2
  <2> QED
    BY <1>1, <2>2, <2>3, InnermostGoesOn
<1> QED
  BY <1>3, <1>4

LEMMA ReturnInstanceFits == ASSUME SelectionInv, ReturnInstance PROVE SelectionInv'
<1>1. /\ task = "instance" /\ calls # <<>> /\ calls' = Callers
      /\ UNCHANGED <<client, task, queries, written>>
  BY DEF ReturnInstance
<1>2. PICK T, n : /\ n \in Nat \ {0} /\ n = Len(calls) /\ Callers \in Seq(EmbedCall(T)) /\ Len(Callers) = n - 1
                  /\ \A k \in 1..(n - 1) : Callers[k] = calls[k]
  BY <1>1, InnermostIs
<1>3. PICK s : s = Callers
  OBVIOUS
<1>4. ASSUME NEW k \in 1..Len(s)
      PROVE  RestFits(s[k]) /\ (k < Len(s) => CalledBy(s[k + 1], s[k]))
  <2>1. k \in 1..Len(calls) /\ s[k] = calls[k] /\ k < Len(calls)
    BY <1>2, <1>3
  <2>2. RestFits(calls[k]) /\ CalledBy(calls[k + 1], calls[k])
    BY <2>1 DEF SelectionInv, CallsFit
  <2>3. k < Len(s) => s[k + 1] = calls[k + 1]
    BY <1>2, <1>3
  <2> QED
    BY <2>1, <2>2, <2>3
<1>5. CallsFit(s)
  BY <1>1, <1>2, <1>3, <1>4 DEF CallsFit
<1>6. CallsFit(s)'
  BY <1>1, <1>5, CallsStayFit
<1>7. CallsFit(calls)'
  BY <1>1, <1>3, <1>6 DEF CallsFit
<1>8. SelectionsFit'
  BY <1>1, SelectionsStay DEF SelectionInv, QueriesExplained
<1>9. EndsUnlessRound'
  BY <1>1, RoundStays DEF SelectionInv, QueriesExplained, EndsUnlessRound
<1> QED
  BY <1>1, <1>7, <1>8, <1>9 DEF SelectionInv, QueriesExplained

-----------------------------------------------------------------------------
(* A call without a field left has treated all of them: it fits as a       *)
(* selection.                                                              *)
LEMMA AllAreTreated ==
  ASSUME client \in Clients, NEW T, NEW c \in EmbedCall(T), RestFits(c), c.rest = <<>>,
         NEW outer, CallFits(c, outer, FALSE), NEW f \in FieldsIn(c.field.of)
  PROVE  \E i \in 1..Len(CallFields(c)) : f = CallFields(c)[i] /\ Treated(c, outer, i)
<1>1. CallFields(c) \in Seq(FieldShape) /\ FieldsIn(c.field.of) = {CallFields(c)[i] : i \in DOMAIN CallFields(c)}
  BY ClientIs DEF RestFits, CallFields, FieldsIn
<1>2. PICK i \in 1..Len(CallFields(c)) : f = CallFields(c)[i]
  BY <1>1
<1>3. Passed(c) = Len(CallFields(c))
  BY <1>1 DEF Passed
<1>4. Treated(c, outer, i)
  BY <1>3 DEF CallFits
<1> QED
  BY <1>2, <1>4

LEMMA QueryFits ==
  ASSUME client \in Clients, NEW T, NEW c \in EmbedCall(T), RestFits(c), c.rest = <<>>,
         NEW outer \in BOOLEAN, CallFits(c, outer, FALSE),
         NEW q, q.of = c.field.of, q.full = InFull(c, outer), q.items = c.id \cup c.title, q.outer = outer
  PROVE  SelectionFits(q)
<1>1. PICK t, full : t = c.field.of /\ full = InFull(c, outer)
  OBVIOUS
<1>2. ASSUME NEW item \in q.items PROVE ItemFits(q.of, q.full, item)
  BY <1>2 DEF CallFits
<1>3. ASSUME NEW f \in Owed(q) PROVE IsIn(f, q.items)
  <2>1. f \in FieldsIn(t) /\ IsNamed(f)
    BY <1>1, <1>3 DEF Owed
  <2>2. PICK i \in 1..Len(CallFields(c)) : f = CallFields(c)[i] /\ Treated(c, outer, i)
    BY <1>1, <2>1, AllAreTreated
  <2>3. \/ Wanted(f, outer, full) /\ ~Replaced(q, f)
        \/ Titled(t, f, full)
    BY <1>1, <1>3 DEF Owed, Wanted, Titled, Collected, OfConfig
  <2>4. CASE Titled(t, f, full)
    <3>1. IsIn(f, c.title)
      BY <1>1, <2>1, <2>2, <2>4 DEF Treated
    <3> QED
      BY <3>1 DEF IsIn
  <2>5. CASE Wanted(f, outer, full) /\ ~Replaced(q, f)
    <3>1. IsIn(f, c.id) \/ IdAfter(t, full, i)
      BY <1>1, <2>1, <2>2, <2>5 DEF Treated
    <3>2. client.fields[t] = CallFields(c) /\ CallFields(c) \in Seq(FieldShape)
      BY <1>1, ClientIs DEF CallFields, RestFits
    <3>3. IdAfter(t, full, i) => Replaced(q, f)
      BY <1>1, <2>2, <3>2 DEF IdAfter, Replaced, Collected
    <3>4. IsIn(f, c.id)
      BY <2>5, <3>1, <3>3
    <3> QED
      BY <3>4 DEF IsIn
  <2> QED
    BY <2>3, <2>4, <2>5
<1> QED
  BY <1>2, <1>3 DEF SelectionFits

LEMMA WriteQueryFits == ASSUME SelectionInv, WriteQuery PROVE SelectionInv'
<1>1. /\ calls # <<>> /\ task # "instance" /\ (Len(calls) = 1) = TRUE /\ Innermost.rest = <<>>
      /\ calls' = <<>> /\ UNCHANGED <<client, written, task>> /\ written = "ready" /\ client \in Clients
  BY DEF WriteQuery, InQuery, SelectionInv
<1>2. PICK T, c : c = Innermost /\ c \in EmbedCall(T) /\ RestFits(c)
  BY <1>1, InnermostIs
<1>3. PICK outer : outer = TRUE
  OBVIOUS
<1>4. CallFits(c, outer, FALSE)
  BY <1>1, <1>2, <1>3, InnermostFits
<1>5. PICK q : /\ q = [of |-> c.field.of, full |-> TRUE, items |-> Selected, outer |-> TRUE]
               /\ queries' = queries \cup {q}
  BY <1>2 DEF WriteQuery
<1>6. q.of = c.field.of /\ q.full = InFull(c, outer) /\ q.items = c.id \cup c.title /\ q.outer = outer
  BY <1>2, <1>3, <1>5 DEF Selected, InFull
<1>7. SelectionFits(q)
  BY <1>1, <1>2, <1>3, <1>4, <1>6, QueryFits
<1>8. SelectionsFit'
  BY <1>1, <1>5, <1>7, SelectionsStay DEF SelectionInv, QueriesExplained
<1>9. CallsFit(calls)'
  BY <1>1, NoCallFits
<1>10. EndsUnlessRound'
  BY <1>1 DEF EndsUnlessRound
<1> QED
  BY <1>1, <1>8, <1>9, <1>10 DEF SelectionInv, QueriesExplained

(* What a call returns to its caller, which waited for it.                 *)
LEMMA ReturnFits ==
  ASSUME client \in Clients, NEW T, NEW c \in EmbedCall(T), RestFits(c), c.rest = <<>>, CallFits(c, FALSE, FALSE),
         NEW e \in EmbedCall(T), RestFits(e), NEW outer, CallFits(e, outer, TRUE), CalledBy(c, e),
         task # "instance",
         NEW selected, selected = c.id \cup c.title,
         NEW items, items = (IF selected = {} /\ OfConfig THEN {} ELSE {<<c.field.name, selected>>}),
         NEW d, d.field = e.field, d.rest = e.rest, d.id = e.id \cup items, d.title = e.title
  PROVE  CallFits(d, outer, FALSE)
<1>1. PICK f, t, k : f = c.field /\ t = e.field.of /\ k = Passed(e)
  OBVIOUS
<1>2. /\ k > 0 /\ f = CallFields(e)[k] /\ IsNamed(f) /\ HasTypeOfItsOwn(f) /\ ~Immediate(f)
      /\ CallFields(e) \in Seq(FieldShape) /\ t \in ClientTypes /\ k \in 1..Len(CallFields(e)) /\ e.rest \in Seq(FieldShape)
  <2>1. k > 0 /\ f = CallFields(e)[k] /\ IsNamed(f) /\ HasTypeOfItsOwn(f) /\ ~Immediate(f)
    BY <1>1 DEF CalledBy, Enters
  <2>2. CallFields(e) \in Seq(FieldShape) /\ t \in ClientTypes /\ e.rest \in Seq(FieldShape)
    BY <1>1, ClientIs DEF CallFields, RestFits, EmbedCall
  <2>3. k \in 1..Len(CallFields(e))
    BY <1>1, <2>1, <2>2 DEF Passed
  <2> QED
    BY <2>1, <2>2, <2>3
<1>3. f \in FieldsIn(t) /\ f \in FieldShape
  BY <1>1, <1>2 DEF FieldsIn, CallFields
<1>4. Complex(f)
  BY <1>2, <1>3, FieldIs
<1>5. InFull(d, outer) = InFull(e, outer) /\ CallFields(d) = CallFields(e) /\ Passed(d) = k
  BY <1>1 DEF InFull, CallFields, Passed
<1>6. ~(selected = {} /\ OfConfig) => Braced(f, selected)
  <2>1. SUFFICES ASSUME selected = {}, ~OfConfig, NEW g \in FieldsIn(f.of), IsNamed(g)
                 PROVE  ~Complex(g) /\ ~g.id /\ ~IsTitle(f.of, g)
    BY DEF Braced
  <2>2. PICK i \in 1..Len(CallFields(c)) : g = CallFields(c)[i] /\ Treated(c, FALSE, i)
    BY <1>1, <2>1, AllAreTreated
  <2>3. ~Worthy(f.of, g, FALSE)
    BY <1>1, <2>1, <2>2 DEF Treated
  <2> QED
    BY <2>1, <2>3 DEF Worthy
<1>7. ASSUME NEW item \in d.id \cup d.title
      PROVE  ItemFits(t, InFull(d, outer), item)
  <2>1. CASE item \in e.id \cup e.title
    BY <1>1, <1>5, <2>1 DEF CallFits
  <2>2. CASE item \in items
    <3>1. item = <<f.name, selected>> /\ ~(selected = {} /\ OfConfig)
      BY <1>1, <2>2
    <3>2. item[1] = f.name /\ item[2] = selected
      BY <3>1
    <3> QED
      BY <1>2, <1>3, <1>6, <3>1, <3>2 DEF ItemFits
  <2> QED
    BY <1>7, <2>1, <2>2
<1>8. Treated(d, outer, k)
  <2>1. CASE OfConfig
    BY <1>2, <1>4, <1>5, <2>1 DEF Treated, Wanted, Titled, Worthy
  <2>2. CASE ~OfConfig
    <3>1. <<f.name, selected>> \in d.id
      BY <1>1, <2>2
    <3>2. IsIn(f, d.id) /\ d.id # {}
      BY <3>1 DEF IsIn
    <3> QED
      BY <1>2, <1>4, <1>5, <3>2 DEF Treated, Titled
  <2> QED
    BY <2>1, <2>2
<1>9. ASSUME NEW i \in 1..Len(CallFields(d)), i <= Passed(d)
      PROVE  Treated(d, outer, i)
  <2>1. CASE i = k
    BY <1>8, <2>1
  <2>2. CASE i # k
    <3>1. Treated(e, outer, i)
      BY <1>1, <1>5, <1>9, <2>2 DEF CallFits
    <3> QED
      BY <3>1, TreatedStays
  <2> QED
    BY <2>1, <2>2
<1> QED
  BY <1>1, <1>7, <1>9 DEF CallFits

More(e, x) == [e EXCEPT !.id = x]

LEMMA WithMore ==
  ASSUME NEW T, NEW e \in EmbedCall(T), NEW U, T \subseteq U, NEW x \in SUBSET U, NEW d, d = More(e, x)
  PROVE  d.field = e.field /\ d.rest = e.rest /\ d.id = x /\ d.title = e.title /\ d \in EmbedCall(U)
<1>1. PICK a, r, i, t : a = e.field /\ r = e.rest /\ i = e.id /\ t = e.title
  OBVIOUS
<1>2. e = [field |-> a, rest |-> r, id |-> i, title |-> t]
  BY <1>1 DEF EmbedCall
<1>3. [e EXCEPT !.id = x] = [field |-> a, rest |-> r, id |-> x, title |-> t]
  BY ONLY <1>2
<1>4. d = [field |-> a, rest |-> r, id |-> x, title |-> t]
  BY <1>3 DEF More
<1>5. d.field = a /\ d.rest = r /\ d.id = x /\ d.title = t
  BY ONLY <1>4
<1>6. a \in FieldShape \cup [of : ClientTypes] /\ r \in Seq(FieldShape) /\ t \in SUBSET U
  BY <1>1 DEF EmbedCall
<1>7. d \in EmbedCall(U)
  BY <1>4, <1>6 DEF EmbedCall
<1> QED
  BY <1>1, <1>5, <1>7

LEMMA CloseBracesFits == ASSUME SelectionInv, CloseBraces PROVE SelectionInv'
<1>1. /\ calls # <<>> /\ task # "instance" /\ Len(calls) > 1 /\ Innermost.rest = <<>>
      /\ UNCHANGED <<client, written, task>> /\ client \in Clients /\ written = "ready"
  BY DEF CloseBraces, InQuery, SelectionInv
<1>2. PICK T, n : /\ n \in Nat \ {0} /\ n = Len(calls) /\ calls \in Seq(EmbedCall(T))
                  /\ Innermost = calls[n] /\ Innermost \in EmbedCall(T) /\ RestFits(Innermost)
  BY <1>1, InnermostIs
<1>3. PICK c, e, m : c = calls[n] /\ e = calls[m] /\ m = n - 1
  OBVIOUS
<1>4. /\ m \in Nat \ {0} /\ c = Innermost /\ c \in EmbedCall(T) /\ e \in EmbedCall(T) /\ c.rest = <<>>
      /\ m \in 1..Len(calls) /\ m < Len(calls) /\ m + 1 = n
  BY <1>1, <1>2, <1>3
<1>5. RestFits(c) /\ RestFits(e) /\ CalledBy(c, e)
  BY <1>2, <1>3, <1>4 DEF SelectionInv, CallsFit
<1>6. CallFits(c, FALSE, FALSE)
  <2>1. (Len(calls) = 1) = FALSE
    BY <1>1, <1>2
  <2> QED
    BY <1>1, <1>4, <2>1, InnermostFits
<1>7. CallFits(e, m = 1, TRUE)
  <2>1. CallFits(calls[m], m = 1, m < Len(calls))
    BY <1>1, <1>4 DEF SelectionInv, CallsFit
  <2>2. (m < Len(calls)) = TRUE
    BY <1>4
  <2> QED
    BY <1>3, <2>1, <2>2
<1>8. PICK selected, items, x, d, q :
        /\ selected = c.id \cup c.title
        /\ items = (IF selected = {} /\ OfConfig THEN {} ELSE {<<c.field.name, selected>>})
        /\ x = e.id \cup items /\ d = [e EXCEPT !.id = x]
        /\ q = [of |-> c.field.of, full |-> Full(c.field), items |-> selected, outer |-> FALSE]
        /\ calls' = Append(SubSeq(calls, 1, n - 2), d)
        /\ queries' = queries \cup {q}
  BY <1>2, <1>3, <1>4 DEF CloseBraces, Selected, OfConfig
<1>9. PICK U : U = T \cup items
  OBVIOUS
<1>10. d.field = e.field /\ d.rest = e.rest /\ d.id = e.id \cup items /\ d.title = e.title /\ d \in EmbedCall(U)
  <2>1. d = More(e, x)
    BY <1>8 DEF More
  <2>2. x = e.id \cup items
    BY <1>8
  <2>3. e \in EmbedCall(T) /\ T \subseteq U /\ x \in SUBSET U
    BY <1>4, <1>9, <2>2 DEF EmbedCall
  <2> QED
    BY <2>1, <2>2, <2>3, WithMore
<1>11. PICK outer : outer = (m = 1)
  OBVIOUS
<1>12. CallFits(d, outer, FALSE)
  <2>1. selected = c.id \cup c.title
    BY <1>8
  <2>2. items = (IF selected = {} /\ OfConfig THEN {} ELSE {<<c.field.name, selected>>})
    BY <1>8
  <2>3. CallFits(e, outer, TRUE)
    BY <1>7, <1>11
  <2>4. d.field = e.field /\ d.rest = e.rest /\ d.id = e.id \cup items /\ d.title = e.title
    BY <1>10
  <2>5. client \in Clients /\ task # "instance" /\ c \in EmbedCall(T) /\ e \in EmbedCall(T) /\ c.rest = <<>>
    BY <1>1, <1>4
  <2> QED
    BY ONLY <1>5, <1>6, <2>1, <2>2, <2>3, <2>4, <2>5, ReturnFits
<1>13. RestFits(d)
  BY <1>5, <1>10 DEF RestFits, CallFields, Passed
<1>14. PICK s : s = calls'
  OBVIOUS
<1>15. /\ s \in Seq(EmbedCall(U)) /\ Len(s) = m /\ s[m] = d
       /\ \A k \in 1..(m - 1) : s[k] = calls[k]
  <2>1. calls \in Seq(EmbedCall(U))
    BY <1>2, <1>9, ShapesGrow
  <2>2. PICK b : b = SubSeq(calls, 1, n - 2)
    OBVIOUS
  <2>3. b \in Seq(EmbedCall(U)) /\ Len(b) = m - 1 /\ \A k \in 1..(m - 1) : b[k] = calls[k]
    BY <1>2, <1>3, <1>4, <2>1, <2>2
  <2>4. s = Append(b, d)
    BY <1>8, <1>14, <2>2
  <2> QED
    BY <1>4, <1>10, <2>3, <2>4
<1>16. ASSUME NEW k \in 1..Len(s)
       PROVE  /\ RestFits(s[k])
              /\ k < Len(s) => CalledBy(s[k + 1], s[k])
              /\ task # "instance" => CallFits(s[k], k = 1, k < Len(s))
  <2>1. CASE k \in 1..(m - 1)
    <3>1. s[m].field = calls[m].field
      BY <1>3, <1>10, <1>15
    <3>2. PICK p \in Nat : Len(s) = p /\ m <= p
      BY <1>4, <1>15
    <3> QED
      BY <1>1, <1>4, <1>15, <2>1, <3>1, <3>2, CallersFit
  <2>2. CASE k = m
    <3>1. (k < Len(s)) = FALSE /\ (k = 1) = outer
      BY <1>4, <1>11, <1>15, <2>2
    <3> QED
      BY <1>12, <1>13, <1>15, <2>2, <3>1
  <2> QED
    BY <1>4, <1>15, <1>16, <2>1, <2>2
<1>17. CallsFit(s)
  BY <1>15, <1>16 DEF CallsFit
<1>18. CallsFit(calls)'
  <2>1. CallsFit(s)'
    BY <1>1, <1>17, CallsStayFit
  <2> QED
    BY <1>14, <2>1 DEF CallsFit
<1>19. SelectionFits(q)
  <2>1. PICK inner : inner = FALSE
    OBVIOUS
  <2>2. q.of = c.field.of /\ q.full = InFull(c, inner) /\ q.items = c.id \cup c.title /\ q.outer = inner
    BY <1>8, <2>1 DEF InFull, Full
  <2> QED
    BY <1>1, <1>4, <1>5, <1>6, <2>1, <2>2, QueryFits
<1>20. SelectionsFit'
  BY <1>1, <1>8, <1>19, SelectionsStay DEF SelectionInv, QueriesExplained
<1>21. EndsUnlessRound'
  BY <1>1 DEF EndsUnlessRound
<1> QED
  BY <1>1, <1>18, <1>20, <1>21 DEF SelectionInv, QueriesExplained

-----------------------------------------------------------------------------
(* Every selection of every query is one the server can answer, with what  *)
(* the client's type promises, and writing it ends unless types are of one *)
(* another in a circle.                                                    *)
THEOREM QueriesAreExplained == ClientSpec => []QueriesExplained
<1>1. ASSUME ClientInit PROVE SelectionInv
  <2>1. client \in Clients /\ written = "begun" /\ calls = <<>> /\ queries = {}
    BY <1>1 DEF ClientInit, ClientStart
  <2>2. CallsFit(calls)
    <3>1. <<>> \in Seq(EmbedCall({}))
      OBVIOUS
    <3> QED
      BY <2>1, <3>1 DEF CallsFit
  <2> QED
    BY <2>1, <2>2 DEF SelectionInv, QueriesExplained, SelectionsFit, EndsUnlessRound
<1>2. ASSUME SelectionInv, [ClientNext]_clientVars PROVE SelectionInv'
  <2>1. CASE UNCHANGED clientVars
    <3>1. UNCHANGED <<client, task, calls, queries, written>>
      BY <2>1 DEF clientVars
    <3>2. CallsFit(calls)'
      <4>1. PICK s : s = calls
        OBVIOUS
      <4>2. CallsFit(s)'
        BY <1>2, <3>1, <4>1, CallsStayFit DEF SelectionInv
      <4> QED
        BY <3>1, <4>1, <4>2 DEF CallsFit
    <3>3. SelectionsFit'
      BY <1>2, <3>1, SelectionsStay DEF SelectionInv, QueriesExplained
    <3>4. EndsUnlessRound'
      BY <1>2, <3>1, RoundStays DEF SelectionInv, QueriesExplained, EndsUnlessRound
    <3> QED
      BY <1>2, <3>1, <3>2, <3>3, <3>4 DEF SelectionInv, QueriesExplained
  <2>2. CASE ClientNext
    BY <1>2, <2>2, ImportsFit, ProcessMethodsFit, SelectFieldFits, EmbedFieldFits, CloseBracesFits,
       WriteQueryFits, GenerateQueryFits, NewInstanceFits, EmptyValFits, ReturnInstanceFits DEF ClientNext
  <2> QED
    BY <1>2, <2>1, <2>2
<1>3. SelectionInv => QueriesExplained
  BY DEF SelectionInv
<1> QED
  BY <1>1, <1>2, <1>3, PTL DEF ClientSpec
=============================================================================
