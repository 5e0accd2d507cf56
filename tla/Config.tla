------------------------------- MODULE Config -------------------------------
(***************************************************************************)
(* configWrapper (config.go): a chain of providers by priority, and the    *)
(* callbacks told of changes.  One key is enough: values of different keys *)
(* do not meet.  The chain is a sequence; providers are registered and     *)
(* values set one call at a time, as applications do while they start.     *)
(*                                                                         *)
(* A change is told by a goroutine of its own, which takes the callbacks   *)
(* as they are when it begins to walk them.  `registered` and `told` are history:   *)
(* registrations in their order, and the changes each callback heard of.   *)
(***************************************************************************)
EXTENDS Integers, Sequences, FiniteSets

CONSTANTS Provider,      \* external ConfigProviders
          Priority,      \* the priorities they are registered with
          ReadOnly,      \* providers like ViperConfig, whose SetConfigValue fails
          Setting,       \* values of the key
          Unset,         \* nil
          Callback,
          MaxChanges     \* bound on the calls of NotifyConfigChanged

ASSUME PriorityAssumption == Priority \subseteq Int

VARIABLES chain,         \* cw.providers: the provider and priority of each link
          stored,        \* the value each provider gives
          callbacks,     \* cw.callbacks
          notifying,     \* each change that is being told: its callbacks, the next one
          registered,    \* the links in the order of their registration
          told

configVars == <<chain, stored, callbacks, notifying, registered, told>>

Links == [provider : Provider, priority : Priority]

ConfigInit ==
  /\ chain = <<>> /\ registered = <<>>
  /\ stored \in {f \in [Provider -> Setting \cup {Unset}] :
                   \A p \in Provider : f[p] # Unset => p \in ReadOnly}
  /\ callbacks = <<>> /\ notifying = <<>>
  /\ told = [c \in Callback |-> <<>>]

-----------------------------------------------------------------------------
(* The loop of registerConfigProvider: past every link of a higher         *)
(* priority, to the first of another.                                      *)
LinkPlace(n) == CHOOSE i \in 1..(Len(chain) + 1) :
               /\ \A k \in 1..(i - 1) : chain[k].priority > n
               /\ i <= Len(chain) => chain[i].priority <= n

Place(link) ==
  [i \in 1..(Len(chain) + 1) |->
     IF i < LinkPlace(link.priority) THEN chain[i]
     ELSE IF i = LinkPlace(link.priority) THEN link ELSE chain[i - 1]]

RegisterConfigProvider(p, n) ==
  LET link == [provider |-> p, priority |-> n]
  IN  /\ \A i \in 1..Len(registered) : registered[i].provider # p
      /\ chain' = Place(link)
      /\ registered' = Append(registered, link)
      /\ UNCHANGED <<stored, callbacks, notifying, told>>

RegisterConfigChangeCallback(c) ==
  /\ \A i \in 1..Len(callbacks) : callbacks[i] # c
  /\ callbacks' = Append(callbacks, c)
  /\ UNCHANGED <<chain, stored, notifying, registered, told>>

(* ConfValue: the first link that gives a value. *)
ConfValue ==
  LET giving == {i \in 1..Len(chain) : stored[chain[i].provider] # Unset}
  IN  IF giving = {} THEN Unset
      ELSE stored[chain[CHOOSE i \in giving : \A k \in giving : i <= k].provider]

(* setValue: every provider of the chain is asked; ErrValueIgnored when    *)
(* all of them refuse.                                                     *)
Writable == {p \in Provider \ ReadOnly : \E i \in 1..Len(chain) : chain[i].provider = p}

SetConfValue(v) ==
  /\ stored' = [p \in Provider |-> IF p \in Writable THEN v ELSE stored[p]]
  /\ UNCHANGED <<chain, callbacks, notifying, registered, told>>

(* NotifyConfigChanged: go func() ... *)
NotifyConfigChanged ==
  /\ Len(notifying) < MaxChanges
  /\ notifying' = Append(notifying, [list |-> <<>>, next |-> 0])
  /\ UNCHANGED <<chain, stored, callbacks, registered, told>>

(* Its goroutine takes the list ("range cw.callbacks"), *)
BeginTelling(n) ==
  /\ notifying[n].next = 0
  /\ notifying' = [notifying EXCEPT ![n] = [list |-> callbacks, next |-> 1]]
  /\ UNCHANGED <<chain, stored, callbacks, registered, told>>

(* Mutation: a callback that panics ends the goroutine's loop. *)
TellUntilPanic(n) ==
  LET me == notifying[n]
  IN  /\ me.next \in 1..Len(me.list)
      /\ \/ /\ told' = [told EXCEPT ![me.list[me.next]] = Append(@, n)]
            /\ notifying' = [notifying EXCEPT ![n].next = @ + 1]
         \/ /\ told' = [told EXCEPT ![me.list[me.next]] = Append(@, n)]
            /\ notifying' = [notifying EXCEPT ![n].next = Len(me.list) + 1]
      /\ UNCHANGED <<chain, stored, callbacks, registered>>

(* and calls one after another; one that panics is told all the same, and  *)
(* the next is called.                                                     *)
TellNext(n) ==
  LET me == notifying[n]
  IN  /\ me.next \in 1..Len(me.list)
      /\ told' = [told EXCEPT ![me.list[me.next]] = Append(@, n)]
      /\ notifying' = [notifying EXCEPT ![n].next = @ + 1]
      /\ UNCHANGED <<chain, stored, callbacks, registered>>

ConfigNext ==
  \/ \E p \in Provider, n \in Priority : RegisterConfigProvider(p, n)
  \/ \E c \in Callback : RegisterConfigChangeCallback(c)
  \/ \E v \in Setting : SetConfValue(v)
  \/ NotifyConfigChanged
  \/ \E n \in 1..Len(notifying) : BeginTelling(n) \/ TellNext(n)

ConfigSpec == ConfigInit /\ [][ConfigNext]_configVars

-----------------------------------------------------------------------------
(* Of two registrations, the one whose value is asked for first: a higher  *)
(* priority, or the later of two equal ones.                               *)
Outranks(i, k) ==
  \/ registered[i].priority > registered[k].priority
  \/ registered[i].priority = registered[k].priority /\ i > k

(* ConfValue gives the value of the highest-ranking provider that has one, *)
(* whatever the order of registrations; so a value that was set is hidden  *)
(* only by one that outranks every provider that took it.                  *)
HighestWins ==
  LET giving == {i \in 1..Len(registered) : stored[registered[i].provider] # Unset}
  IN  ConfValue = IF giving = {} THEN Unset
                  ELSE stored[registered[CHOOSE i \in giving :
                         \A k \in giving \ {i} : Outranks(i, k)].provider]

Done(n) == notifying[n].next > Len(notifying[n].list)
Heard(c, n) == Cardinality({k \in 1..Len(told[c]) : told[c][k] = n})

(* A change reaches every callback of the list it was begun with, each     *)
(* once, a panic of one notwithstanding.                                   *)
EveryoneTold ==
  \A n \in 1..Len(notifying) : notifying[n].next > 0 /\ Done(n) =>
    \A i \in 1..Len(notifying[n].list) : Heard(notifying[n].list[i], n) = 1

(* What the chain promises: the value that ranks first, and that nobody    *)
(* who was there when a change was told of misses it.                      *)
ConfigExplained == HighestWins /\ EveryoneTold
=============================================================================
