--------------------------- MODULE EntityMethods ---------------------------
(***************************************************************************)
(* The bodies of an entity's methods, as the generator puts them together: *)
(* gen/no_cache.go writes Get, New, Set and Delete and leaves points in    *)
(* them; at each point the plugins add their fragments, here the checks of *)
(* access (gen/resource.go), the times (gen/code_generator.go) and the     *)
(* validation (gen/validator.go).  A body is a sequence of statements that *)
(* either go on or return an error; those of two callers interleave.       *)
(***************************************************************************)
EXTENDS Integers, Sequences

CONSTANTS Actor,          \* those who call the engine's methods
          Reference,      \* items a dictionary has at first
          Unknown,        \* one that it never had
          NoReference,    \* the empty value of the field that refers to an item
          NoThing,        \* no document
          Declarations,   \* how the entity is declared: see DeclarationType
          BulkInputs,     \* sequences of objects for the bulk methods
          MaxId,          \* bounds on a behaviour
          MaxMethodCalls, MaxMethodFaults

DeclarationType ==
  [auto      : BOOLEAN,      \* identifiers are generated where they are empty
   checked   : BOOLEAN,      \* $resource(checkAccess)
   hooked    : BOOLEAN,      \* the hooks change, changed and delete
   reference : {"required", "nullable", "inherited"}] \* the field that refers

ASSUME DeclarationAssumption == Declarations \subseteq DeclarationType

VARIABLES declared, documents, items, lastId, act, methodCalls, methodFaults

methodVars == <<declared, documents, items, lastId, act, methodCalls, methodFaults>>

Referred == Reference \cup {Unknown, NoReference}
DocId == 1..MaxId
Empty == 0 \* of an identifier
Thing == [id : DocId \cup {Empty}, ref : Referred]
Nothing == [id |-> Empty, ref |-> NoReference]

ASSUME MethodsBoundAssumption == MaxId \in Nat \ {0} /\ MaxMethodCalls \in Nat /\ MaxMethodFaults \in Nat
ASSUME BulkAssumption == \A os \in BulkInputs : os \in Seq(Thing) /\ os # <<>>

-----------------------------------------------------------------------------
(* What each method asks the checker for, before the hooks.                *)
Access == [Get |-> "mayRead", Set |-> "mayWrite", New |-> "mayCreate", Delete |-> "mayDelete"]
Checks(m) == IF declared.checked THEN <<Access[m]>> ELSE <<>>

(* The user's hooks.  Delete does not look at the error of its last one.   *)
Hooks(m) ==
  IF ~declared.hooked THEN <<>>
  ELSE IF m = "Delete" THEN <<"deleteHook", "changeHook">> ELSE <<"changeHook">>
HooksAfter(m) ==
  IF ~declared.hooked THEN <<>>
  ELSE IF m = "Delete" THEN <<"uncheckedHook">> ELSE <<"changedHook">>

(* The entity's own fields that refer to dictionaries are validated, not   *)
(* those of its base.                                                      *)
Validated(m) == m \in {"New", "Set"} /\ declared.reference # "inherited"

(* New sets the times of creation and modification, Set the latter.        *)
Times(m) == IF m \in {"New", "Set"} THEN <<"times">> ELSE <<>>

(* An identifier that is not generated must be given.                      *)
Identify(m) == IF m = "New" /\ ~declared.auto THEN <<"identified">> ELSE <<>>

Validate(m) == IF Validated(m) THEN <<"valid">> ELSE <<>>

(* What the plugins put at the two points before the main action.          *)
Enter(m) == Checks(m)
EnterAfterHooks(m) == Times(m) \o Identify(m) \o Validate(m)

GetBody == Enter("Get") \o EnterAfterHooks("Get") \o <<"load">>

(* Mutation: the fragments of validation are put in before the hooks. *)
SetBodyValidatesFirst ==
  GetBody \o <<"found">> \o Enter("Set") \o EnterAfterHooks("Set") \o Hooks("Set")
    \o <<"save">> \o HooksAfter("Set")

SetBody ==
  GetBody \o <<"found">> \o Enter("Set") \o Hooks("Set") \o EnterAfterHooks("Set")
    \o <<"save">> \o HooksAfter("Set")

NewBody ==
  (IF declared.auto THEN <<"generate">> ELSE <<>>)
    \o Enter("New") \o Hooks("New") \o EnterAfterHooks("New") \o <<"create">> \o HooksAfter("New")

DeleteBody ==
  GetBody \o <<"found">> \o Enter("Delete") \o Hooks("Delete") \o EnterAfterHooks("Delete")
    \o <<"remove">> \o HooksAfter("Delete")

Body(m) == [Get |-> GetBody, Set |-> SetBody, New |-> NewBody, Delete |-> DeleteBody][m]

(* What a call does with one object: SetBulk makes those without an        *)
(* identifier, if it can be generated.                                     *)
Method(op, o) ==
  CASE op = "NewBulk" -> "New"
    [] op = "SetBulk" -> IF declared.auto /\ o.id = Empty THEN "New" ELSE "Set"
    [] OTHER          -> op

-----------------------------------------------------------------------------
(* A call: what it still has to do with obj and with the objects of todo;  *)
(* loaded, whether Get has found a document.  Not in the code: passed, the *)
(* statements it has behind it for obj; wrote, whether obj has taken       *)
(* effect; asked, done, made and missed count its objects, those answered, *)
(* those that took effect and those that were gone when they were saved.   *)
Uncalled == [op |-> "none", method |-> "Get", body |-> <<>>, obj |-> Nothing, todo |-> <<>>,
            loaded |-> FALSE, passed |-> {}, wrote |-> FALSE,
            asked |-> 0, done |-> 0, made |-> 0, missed |-> 0, reply |-> "none"]

MethodsInit ==
  /\ declared \in Declarations
  /\ items = Reference
  /\ \E r \in Reference : documents = [i \in DocId |-> IF i = 1 THEN r ELSE NoThing]
  /\ lastId = 1
  /\ act = [a \in Actor |-> Uncalled]
  /\ methodCalls = 0 /\ methodFaults = 0

There(i) == i \in DocId /\ documents[i] # NoThing

TakeUp(c, o) ==
  LET m == Method(c.op, o)
  IN  [c EXCEPT !.method = m, !.body = Body(m), !.obj = o, !.loaded = FALSE, !.passed = {}, !.wrote = FALSE]

(* The call's next statement is st.                                        *)
At(a, st) == act[a].body # <<>> /\ Head(act[a].body) = st

(* The last statement is followed by the next object, or by the reply.     *)
GoOn(c) ==
  LET rest == [c EXCEPT !.body = Tail(@), !.passed = @ \cup {Head(c.body)}]
      next == [rest EXCEPT !.done = @ + 1]
  IN  IF rest.body # <<>> THEN rest
      ELSE IF c.todo = <<>> THEN [next EXCEPT !.reply = "ok"]
      ELSE TakeUp([next EXCEPT !.todo = Tail(@)], Head(c.todo))

(* AddCheckError: return, with whatever the results hold.                  *)
Returns(c) == [c EXCEPT !.reply = "error", !.todo = <<>>]

Turns(a, c) == act' = [act EXCEPT ![a] = c]
Goes(a) == Turns(a, GoOn(act[a]))
Errs(a) == Turns(a, Returns(act[a]))

Free(a) == act[a].reply # "none" \/ act[a].op = "none"
Runs(a, st) == ~Free(a) /\ At(a, st) /\ UNCHANGED <<declared, methodCalls>>
NoFault == UNCHANGED methodFaults
Fails(a) == methodFaults < MaxMethodFaults /\ methodFaults' = methodFaults + 1 /\ Errs(a)

-----------------------------------------------------------------------------
Call(a, op, objects) ==
  /\ Free(a) /\ methodCalls < MaxMethodCalls
  /\ methodCalls' = methodCalls + 1
  /\ Turns(a, TakeUp([Uncalled EXCEPT !.op = op, !.asked = Len(objects), !.todo = Tail(objects)],
                     Head(objects)))
  /\ UNCHANGED <<declared, documents, items, lastId, methodFaults>>

(* The caller has the access, or it is forbidden.                          *)
Check(a) ==
  /\ \E m \in DOMAIN Access : Runs(a, Access[m])
  /\ Goes(a) \/ Errs(a)
  /\ NoFault /\ UNCHANGED <<documents, items, lastId>>

Load(a) ==
  /\ Runs(a, "load")
  /\ \/ /\ NoFault
        /\ Turns(a, GoOn([act[a] EXCEPT !.loaded = There(act[a].obj.id)]))
     \/ Fails(a)
  /\ UNCHANGED <<documents, items, lastId>>

Found(a) ==
  /\ Runs(a, "found")
  /\ IF act[a].loaded THEN Goes(a) ELSE Errs(a)
  /\ NoFault /\ UNCHANGED <<documents, items, lastId>>

(* An empty identifier is filled in before anything is checked.            *)
Generate(a) ==
  /\ Runs(a, "generate")
  /\ IF act[a].obj.id # Empty THEN Goes(a) /\ NoFault /\ UNCHANGED lastId
     ELSE \/ /\ lastId < MaxId /\ lastId' = lastId + 1
             /\ Turns(a, GoOn([act[a] EXCEPT !.obj.id = lastId + 1]))
             /\ NoFault
          \/ Fails(a) /\ UNCHANGED lastId
  /\ UNCHANGED <<documents, items>>

(* A user's hook refuses, or changes the object as it likes: the new value *)
(* of New and Set.                                                         *)
ChangeHook(a) ==
  /\ Runs(a, "changeHook")
  /\ \/ Errs(a)
     \/ \E r \in Referred :
          /\ act[a].method = "Delete" => r = act[a].obj.ref
          /\ Turns(a, GoOn([act[a] EXCEPT !.obj.ref = r]))
  /\ NoFault /\ UNCHANGED <<documents, items, lastId>>

OtherHook(a) ==
  /\ Runs(a, "deleteHook") \/ Runs(a, "changedHook")
  /\ Goes(a) \/ Errs(a)
  /\ NoFault /\ UNCHANGED <<documents, items, lastId>>

Plain(a) ==
  /\ Runs(a, "times") \/ Runs(a, "uncheckedHook")
  /\ Goes(a)
  /\ NoFault /\ UNCHANGED <<documents, items, lastId>>

Identified(a) ==
  /\ Runs(a, "identified")
  /\ IF act[a].obj.id # Empty THEN Goes(a) ELSE Errs(a)
  /\ NoFault /\ UNCHANGED <<documents, items, lastId>>

(* The generated validator: Get of the item, whose error is not looked at; *)
(* nil is an invalid value.                                                *)
Valid(a) ==
  LET r == act[a].obj.ref
  IN  /\ Runs(a, "valid")
      /\ \/ /\ NoFault
            /\ IF r \in items \/ (r = NoReference /\ declared.reference = "nullable")
                 THEN Goes(a) ELSE Errs(a)
         \/ Fails(a)
      /\ UNCHANGED <<documents, items, lastId>>

(* The main action: the call of the database, applied or not, its answer   *)
(* lost or not.                                                            *)
Effect(a, i, r, takes) ==
  LET c == IF takes THEN [act[a] EXCEPT !.wrote = TRUE, !.made = @ + 1]
           ELSE [act[a] EXCEPT !.missed = @ + 1]
  IN  /\ documents' = IF takes THEN [documents EXCEPT ![i] = r] ELSE documents
      /\ \/ NoFault /\ Turns(a, GoOn(c))
         \/ methodFaults < MaxMethodFaults /\ methodFaults' = methodFaults + 1 /\ Turns(a, Returns(c))

Create(a) ==
  LET o == act[a].obj
  IN  /\ Runs(a, "create")
      /\ \/ ~There(o.id) /\ Effect(a, o.id, o.ref, TRUE)
         \/ There(o.id) /\ Errs(a) /\ NoFault /\ UNCHANGED documents
         \/ Fails(a) /\ UNCHANGED documents
      /\ UNCHANGED <<items, lastId>>

SaveThing(a) ==
  LET o == act[a].obj
  IN  /\ Runs(a, "save")
      /\ \/ Effect(a, o.id, o.ref, There(o.id))
         \/ Fails(a) /\ UNCHANGED documents
      /\ UNCHANGED <<items, lastId>>

RemoveThing(a) ==
  LET o == act[a].obj
  IN  /\ Runs(a, "remove")
      /\ \/ Effect(a, o.id, NoThing, There(o.id))
         \/ Fails(a) /\ UNCHANGED documents
      /\ UNCHANGED <<items, lastId>>

(* An item of the dictionary is deleted: nobody asks who refers to it.     *)
DeleteItem(r) ==
  /\ r \in items /\ items' = items \ {r}
  /\ UNCHANGED <<declared, documents, lastId, act, methodCalls, methodFaults>>

MethodsNext ==
  \/ \E a \in Actor :
       \/ \E i \in DocId : Call(a, "Get", <<[id |-> i, ref |-> NoReference]>>)
                           \/ Call(a, "Delete", <<[id |-> i, ref |-> NoReference]>>)
       \/ \E o \in Thing : Call(a, "New", <<o>>) \/ Call(a, "Set", <<o>>)
       \/ \E os \in BulkInputs : Call(a, "NewBulk", os) \/ Call(a, "SetBulk", os)
       \/ Check(a) \/ Load(a) \/ Found(a) \/ Generate(a) \/ ChangeHook(a) \/ OtherHook(a) \/ Plain(a)
       \/ Identified(a) \/ Valid(a) \/ Create(a) \/ SaveThing(a) \/ RemoveThing(a)
  \/ \E r \in Reference : DeleteItem(r)

MethodsSpec == MethodsInit /\ [][MethodsNext]_methodVars

-----------------------------------------------------------------------------
(* A document refers to an item of the dictionary, or to one deleted since *)
(* it was validated, whatever the hooks make of the objects; the empty     *)
(* value only where it may be null.  Inherited fields are not validated.   *)
ReferencesExplained ==
  declared.reference # "inherited" =>
    \A i \in DocId : There(i) =>
      \/ documents[i] \in Reference
      \/ documents[i] = NoReference /\ declared.reference = "nullable"

(* The accesses whoever has changed a document must have been granted.     *)
Needed == [Get |-> {}, New |-> {"mayCreate"}, Set |-> {"mayRead", "mayWrite"},
           Delete |-> {"mayRead", "mayDelete"}]

AccessExplained ==
  declared.checked => \A a \in Actor : act[a].wrote => Needed[act[a].method] \subseteq act[a].passed

(* An answer means what it says: "ok", that every object took effect or    *)
(* was gone when it was saved; an error, that those before the one it is   *)
(* about did and those after it did not, and that this one did not unless  *)
(* the database's answer was lost or the hook called after it refused.     *)
RepliesExplained ==
  \A a \in Actor :
    LET c == act[a]
    IN  /\ c.reply = "ok" /\ c.op # "Get" => c.done = c.asked /\ c.made + c.missed = c.done
        /\ c.reply = "error" => /\ c.done < c.asked
                                /\ c.made + c.missed \in {c.done, c.done + 1}
                                /\ c.wrote => Head(c.body) \in {"create", "save", "remove", "changedHook"}

(* A method's fragments keep what they are for, whatever calls overlap:    *)
(* no change without the accesses, no reference to what never was, no      *)
(* answer that hides an effect (no_cache.go, resource.go, validator.go).   *)
MethodsExplained == ReferencesExplained /\ AccessExplained /\ RepliesExplained
=============================================================================
