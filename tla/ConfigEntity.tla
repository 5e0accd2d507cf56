---------------------------- MODULE ConfigEntity ----------------------------
(***************************************************************************)
(* A `config` entity: what the dictionaries generator and the Mongo        *)
(* generator write for it (gen/dictionaries_generator.go 774-1045,         *)
(* gen/mongo_generator.go 1440-1600) and the mutation the GraphQL          *)
(* generator writes (gen/gql_generator.go 1876).                           *)
(*                                                                         *)
(* The engine's attribute points at the one object; each field of it is a  *)
(* document.  Nothing is locked, and an object is written into where it    *)
(* is, so `heap` holds the objects and `attribute` is an address.          *)
(***************************************************************************)
EXTENDS Integers, Sequences, FiniteSets

CONSTANTS Fields,          \* how many fields; they are saved in their order
          FieldValue,
          Default,         \* what Init gives a field, and a field without a document
          Caller,          \* goroutines
          MaxOperations,   \* bounds
          MaxFailures

ASSUME ConfigEntityAssumption ==
  /\ Fields \in Nat \ {0} /\ Default \notin FieldValue
  /\ MaxOperations \in Nat /\ MaxFailures \in Nat

VARIABLES document,    \* the collection: a value or Default
          heap, attribute,
          provider,    \* "unset", "registered", "absent"
          running,     \* what each client does
          operations, failures,
          unsaved,     \* history: fields assigned or sent to be saved, that may not be stored
          overlapped,  \* history: two operations were under way at once
          reply        \* history: the last answer to an operation that sets

configEntityVars == <<document, heap, attribute, provider, running, operations,
                      failures, unsaved, overlapped, reply>>

NoConfig == 0
Field == 1..Fields
Resting == [at |-> "rest", for |-> "", object |-> NoConfig, input |-> <<>>, next |-> 0, failed |-> FALSE]
Inputs == UNION {[S -> FieldValue \cup {"wrong"}] : S \in (SUBSET Field) \ {{}}}

Put(c, at) == [running EXCEPT ![c].at = at]
Finish(c) == [running EXCEPT ![c] = Resting]

ConfigEntityInit ==
  /\ document \in [Field -> FieldValue \cup {Default}]
  /\ heap = <<>> /\ attribute = NoConfig /\ provider = "unset"
  /\ running = [c \in Caller |-> Resting]
  /\ operations = 0 /\ failures = 0
  /\ unsaved = {} /\ overlapped = FALSE /\ reply = "none"

-----------------------------------------------------------------------------
FailCall == failures < MaxFailures /\ failures' = failures + 1

(* Begin: the engine's own call of Get when it is initialized comes first. *)
Begin(c, for, input) ==
  /\ running[c] = Resting
  /\ IF provider = "unset" THEN for = "start" /\ \A d \in Caller : running[d] = Resting
     ELSE for # "start" /\ operations < MaxOperations
  /\ for \in {"ConfValue", "SetConfValue"} => provider = "registered"
  /\ operations' = IF for = "start" THEN operations ELSE operations + 1
  /\ running' = [running EXCEPT ![c] =
       [Resting EXCEPT !.for = for, !.input = input,
          !.at = IF for \in {"ConfValue", "SetConfValue"} THEN "wrapper" ELSE "get"]]
  /\ overlapped' = (overlapped \/ \E d \in Caller : running[d] # Resting)
  /\ UNCHANGED <<document, heap, attribute, provider, failures, unsaved, reply>>

(* Get: is there an object? *)
GetCached(c) ==
  /\ running[c].at = "get"
  /\ running' = Put(c, IF attribute = NoConfig THEN "load" ELSE "return")
  /\ UNCHANGED <<document, heap, attribute, provider, operations, failures, unsaved, overlapped, reply>>

(* Load: a new object with what the documents say.  Or the find fails: the *)
(* engine starts without a provider then.                                  *)
LoadConfig(c) ==
  /\ running[c].at = "load"
  /\ \/ /\ heap' = Append(heap, document)
        /\ running' = [running EXCEPT ![c].at = "assign", ![c].object = Len(heap) + 1]
        /\ UNCHANGED <<provider, failures, reply>>
     \/ /\ FailCall /\ running' = Finish(c)
        /\ provider' = IF running[c].for = "start" THEN "absent" ELSE provider
        /\ reply' = IF running[c].for = "mutate" THEN "error" ELSE reply
        /\ UNCHANGED heap
  /\ UNCHANGED <<document, attribute, operations, unsaved, overlapped>>

AssignLoaded(c) ==
  /\ running[c].at = "assign"
  /\ attribute' = running[c].object
  /\ unsaved' = {}
  /\ running' = Put(c, "return")
  /\ UNCHANGED <<document, heap, provider, operations, failures, overlapped, reply>>

(* Get returns the attribute as it is now; the engine asks whether it is   *)
(* nil, a query is answered, a mutation goes on with its input.            *)
GetReturns(c) ==
  /\ running[c].at = "return"
  /\ provider' = IF running[c].for # "start" THEN provider
                 ELSE IF attribute = NoConfig THEN "absent" ELSE "registered"
  /\ running' = IF running[c].for = "mutate"
                THEN [running EXCEPT ![c].at = "parse", ![c].object = attribute]
                ELSE Finish(c)
  /\ UNCHANGED <<document, heap, attribute, operations, failures, unsaved, overlapped, reply>>

(* The input parser assigns field after field of the object that everyone  *)
(* has, until one of them is wrong.  Of no object it makes a new one.      *)
Wrong(input) == {f \in DOMAIN input : input[f] = "wrong"}
Before(input, f) == {g \in DOMAIN input : \A w \in Wrong(input) : g < w} \cap {f}

ParseInput(c) ==
  LET input == running[c].input
      new == running[c].object = NoConfig
      object == IF new THEN [f \in Field |-> Default] ELSE heap[running[c].object]
      parsed == [f \in Field |-> IF Before(input, f) # {} THEN input[f] ELSE object[f]]
      assigned == {f \in DOMAIN input : Before(input, f) # {}}
      address == IF new THEN Len(heap) + 1 ELSE running[c].object
  IN  /\ running[c].at = "parse"
      /\ heap' = IF new THEN Append(heap, parsed) ELSE [heap EXCEPT ![address] = parsed]
      /\ unsaved' = IF new THEN unsaved ELSE unsaved \cup assigned
      /\ IF Wrong(input) # {} THEN running' = Finish(c) /\ reply' = "error"
         ELSE /\ running' = [running EXCEPT ![c].at = "set", ![c].object = address]
              /\ UNCHANGED reply
      /\ UNCHANGED <<document, attribute, provider, operations, failures, overlapped>>

(* Set: the object is the engine's before it is saved. *)
SetConfig(c) ==
  /\ running[c].at = "set"
  /\ attribute' = running[c].object
  /\ running' = [running EXCEPT ![c].at = "save", ![c].next = 1, ![c].failed = FALSE]
  /\ UNCHANGED <<document, heap, provider, operations, failures, unsaved, overlapped, reply>>

(* Mutation: an error of one field is no reason to save the others, but    *)
(* the error of the first is kept instead of the last.                     *)
KeepFirst(me, failed) == [me EXCEPT !.next = @ + 1, !.failed = IF me.next = 1 THEN failed ELSE @]

(* The error of one field is that of the next. *)
Replace(me, failed) == [me EXCEPT !.next = @ + 1, !.failed = failed]

(* Save: one update after another, each of the value the field has by now. *)
SaveField(c) ==
  LET me == running[c]
      stored == [document EXCEPT ![me.next] = heap[me.object][me.next]]
  IN  /\ me.at = "save" /\ me.object # NoConfig /\ me.next <= Fields
      /\ \/ /\ document' = stored
            /\ unsaved' = unsaved \ {me.next}
            /\ running' = [running EXCEPT ![c] = Replace(me, FALSE)]
            /\ UNCHANGED failures
         \/ /\ FailCall
            /\ document' \in {document, stored}
            /\ unsaved' = unsaved \cup {me.next}
            /\ running' = [running EXCEPT ![c] = Replace(me, TRUE)]
      /\ UNCHANGED <<heap, attribute, provider, operations, overlapped, reply>>

(* Set tells of the change and returns, whatever Save says. *)
SetReturns(c) ==
  LET me == running[c]
  IN  /\ me.at = "save" /\ me.next > Fields
      /\ IF me.for = "mutate" THEN /\ running' = Finish(c)
                                   /\ reply' = IF me.failed THEN "error" ELSE "ok"
         ELSE running' = Put(c, "assignBack") /\ UNCHANGED reply
      /\ UNCHANGED <<document, heap, attribute, provider, operations, failures, unsaved, overlapped>>

-----------------------------------------------------------------------------
Dereference(c) ==
  /\ running' = [running EXCEPT ![c].at = "panic"]
  /\ UNCHANGED <<document, heap, attribute, provider, operations, failures, unsaved, overlapped, reply>>

(* GetConfigValue and SetConfigValue of the entity: a key that is no field *)
(* is nobody's, which is no error; a value of another type is one.         *)
GetConfigValue(c) ==
  IF attribute = NoConfig THEN Dereference(c)
  ELSE /\ running' = Finish(c)
       /\ UNCHANGED <<document, heap, attribute, provider, operations, failures, unsaved, overlapped, reply>>

SetConfigValue(c, f, v) ==
  IF attribute = NoConfig THEN Dereference(c)
  ELSE IF v = "wrong"
  THEN /\ running' = Finish(c) /\ reply' = "error"
       /\ UNCHANGED <<document, heap, attribute, provider, operations, failures, unsaved, overlapped>>
  ELSE /\ heap' = [heap EXCEPT ![attribute][f] = v]
       /\ unsaved' = unsaved \cup {f}
       /\ running' = Put(c, "again")
       /\ UNCHANGED <<document, attribute, provider, operations, failures, overlapped, reply>>

(* Those of the wrapper call the methods of what the attribute is; a value *)
(* that was set is then saved by Set, of what the attribute is then.       *)
WrapperGetConfigValue(c) ==
  running[c].at = "wrapper" /\ running[c].for = "ConfValue" /\ GetConfigValue(c)

WrapperSetConfigValue(c) ==
  /\ running[c].at = "wrapper" /\ running[c].for = "SetConfValue"
  /\ \E f \in DOMAIN running[c].input : SetConfigValue(c, f, running[c].input[f])

WrapperSet(c) ==
  /\ running[c].at = "again"
  /\ running' = [running EXCEPT ![c].at = "set", ![c].object = attribute]
  /\ UNCHANGED <<document, heap, attribute, provider, operations, failures, unsaved, overlapped, reply>>

SaveNil(c) == running[c].at = "save" /\ running[c].object = NoConfig /\ Dereference(c)

(* The result of Set becomes the attribute: nil, when Save failed. *)
AssignBack(c) ==
  /\ running[c].at = "assignBack"
  /\ attribute' = IF running[c].failed THEN NoConfig ELSE running[c].object
  /\ reply' = IF running[c].failed THEN "error" ELSE "ok"
  /\ running' = Finish(c)
  /\ UNCHANGED <<document, heap, provider, operations, failures, unsaved, overlapped>>

ConfigEntityNext ==
  \E c \in Caller :
    \/ \E for \in {"start", "query", "ConfValue"} : Begin(c, for, <<>>)
    \/ \E input \in Inputs :
         \/ Begin(c, "mutate", input)
         \/ Cardinality(DOMAIN input) = 1 /\ Begin(c, "SetConfValue", input)
    \/ GetCached(c) \/ LoadConfig(c) \/ AssignLoaded(c) \/ GetReturns(c) \/ ParseInput(c)
    \/ SetConfig(c) \/ SaveField(c) \/ SetReturns(c) \/ SaveNil(c)
    \/ WrapperGetConfigValue(c) \/ WrapperSetConfigValue(c) \/ WrapperSet(c) \/ AssignBack(c)

ConfigEntitySpec == ConfigEntityInit /\ [][ConfigEntityNext]_configEntityVars

-----------------------------------------------------------------------------
AtRest == \A c \in Caller : running[c] = Resting

(* The engine's object and the documents agree, but for fields whose       *)
(* update failed, or that an input assigned before it turned out wrong, or *)
(* where operations overlapped.  "ok" says that the last field is stored,  *)
(* and nothing of the others.  And a configuration that is asked for       *)
(* through the engine only panics after an update failed.                  *)
ConfigKept ==
  /\ AtRest /\ ~overlapped /\ attribute # NoConfig =>
       \A f \in Field : heap[attribute][f] = document[f] \/ f \in unsaved
  /\ AtRest /\ ~overlapped /\ reply = "ok" => Fields \notin unsaved
  /\ (\E c \in Caller : running[c].at = "panic") => failures > 0
=============================================================================
