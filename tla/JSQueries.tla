----------------------------- MODULE JSQueries -----------------------------
(***************************************************************************)
(* The TypeScript client of the generated API: the queries that            *)
(* GQLCLientGenerator writes for the operations and methods of a type, and *)
(* the functions that make an empty instance of it (gen/js/gql_client.go). *)
(*                                                                         *)
(* What a query selects of a field with a type of its own is collected by  *)
(* getQueryForEmbeddedType, which calls itself.  A selection is a string   *)
(* in the code and a set of items here: a name, with what is in its braces.*)
(***************************************************************************)
EXTENDS Integers, Sequences, FiniteSets

CONSTANTS ClientTypes, Clients,     \* Clients are inputs, see ClientShape
          Text, Number    \* simple values; a number or an enum

FieldShape == [name : STRING, of : ClientTypes \cup {Text, Number, "map"}, list : BOOLEAN,
               id : BOOLEAN, title : BOOLEAN, skipped : BOOLEAN,
               embedded : BOOLEAN, notNull : BOOLEAN, byId : BOOLEAN, force : BOOLEAN]

(* `gives` is what the methods of the one type of the file return, with as *)
(* many brackets as `brackets`; "nothing" is no type at all.               *)
ClientShape ==
  [fields : [ClientTypes -> Seq(FieldShape)], kind : [ClientTypes -> {"stored", "dictionary", "config"}],
   file : ClientTypes, gives : ClientTypes \cup {Number, "nothing"}, brackets : 0..2]

ASSUME ClientsAssumption == Clients \subseteq ClientShape

(* A project has finitely many types, and what is simple is none of them.  *)
ASSUME ClientTypesAssumption ==
  IsFiniteSet(ClientTypes) /\ {Text, Number, "map", "nothing"} \cap ClientTypes = {}

VARIABLES client,
          written,  \* "begun", "ready"; then "failed", "panicked", "overflow"
          task,     \* the operation being written, or "instance"
          calls,    \* calls of getQueryForEmbeddedType, or of instances' functions
          queries   \* selections that are finished

clientVars == <<client, written, task, calls, queries>>

-----------------------------------------------------------------------------
IsNamed(f) == ~f.skipped
HasTypeOfItsOwn(f) == f.of \in ClientTypes
Complex(f) == f.list \/ f.of \notin {Text, Number}
FieldsIn(t) == {client.fields[t][i] : i \in DOMAIN client.fields[t]}

(* Prepare: the titles are those declared, and the first text if no field  *)
(* with a name is one of them.                                             *)
IsTitle(t, f) ==
  LET fs == client.fields[t]
      texts == {i \in DOMAIN fs : IsNamed(fs[i]) /\ fs[i].of = Text /\ ~fs[i].list}
  IN  \/ f.title
      \/ /\ ~\E g \in FieldsIn(t) : IsNamed(g) /\ g.title
         /\ \E i \in texts : fs[i] = f /\ \A j \in texts : i <= j

(* A skipped field has no name, and is asked for as "id" where it is asked for. *)
Plain(f) == <<IF IsNamed(f) THEN f.name ELSE "id", {}>>
KeysAndValues(f) == <<f.name, {<<"key", {}>>, <<"val", {}>>}>>

(* The dictionaries of a configuration are not selected. *)
LeftOut(f) == client.kind[client.file] = "config" /\ client.kind[f.of] = "dictionary"

(* What getQueryForEmbeddedType answers without a look at the type. *)
Immediate(f) == ~HasTypeOfItsOwn(f) \/ LeftOut(f) \/ f.byId
Answer(f) ==
  IF f.of = "map" THEN {KeysAndValues(f)}
  ELSE IF HasTypeOfItsOwn(f) /\ LeftOut(f) THEN {} ELSE {Plain(f)}

(* generateQueriesFile: lists are for get, find takes those of ids and of  *)
(* primitive values, the others none.                                      *)
Visited(f) == ~f.list \/ task \in {"get", "method"} \/ f.force
NotVisited(f) ==
  IF task = "find" /\ (f.byId \/ ~HasTypeOfItsOwn(f)) THEN {Plain(f)} ELSE {}

(* getQueryForEmbeddedType: everything of an embedded value.               *)
Full(f) == f.embedded \/ f.force

Call(f) == [field |-> f, rest |-> client.fields[f.of], id |-> {}, title |-> {}]
Outer(e) == [field |-> [of |-> e], rest |-> client.fields[e], id |-> {}, title |-> {}]
Innermost == calls[Len(calls)]
Head1 == Head(Innermost.rest)
Callers == SubSeq(calls, 1, Len(calls) - 1)
InQuery == written = "ready" /\ calls # <<>> /\ task # "instance"
ReplaceInnermost(c) == calls' = Append(Callers, c)

ClientStart == written = "begun" /\ task = "none" /\ calls = <<>> /\ queries = {}

ClientInit == client \in Clients /\ ClientStart

(* getTypeForImport looks into the type without asking whether there is one. *)
NoTypeToImport == client.gives = "nothing"

(* Generate, what it does before the queries: the imports are looked for   *)
(* in what methods return, which may be nothing.                           *)
Imports ==
  /\ written = "begun"
  /\ written' = IF NoTypeToImport THEN "panicked" ELSE "ready"
  /\ UNCHANGED <<client, task, calls, queries>>

(* generateQueriesFile: one operation.  Delete selects nothing.            *)
GenerateQuery(op) ==
  /\ written = "ready" /\ calls = <<>> /\ op # task
  /\ client.kind[client.file] = "config" => op \in {"get", "set"}
  /\ task' = op /\ calls' = <<Outer(client.file)>> /\ queries' = {}
  /\ UNCHANGED <<client, written>>

(* processMethods: what comes of a list in a list has no name.             *)
ProcessMethods ==
  /\ written = "ready" /\ calls = <<>> /\ task # "method" /\ queries' = {}
  /\ IF client.brackets = 2 THEN written' = "failed" /\ UNCHANGED <<task, calls>>
     ELSE /\ task' = "method" /\ UNCHANGED written
          /\ calls' = IF client.gives \in ClientTypes THEN <<Outer(client.gives)>> ELSE <<>>
  /\ UNCHANGED client

(* The types of one another in one call may be as many as there are.       *)
TooDeep == Len(calls) > Cardinality(ClientTypes)
Recurse(c, f) ==
  IF TooDeep THEN written' = "overflow" /\ UNCHANGED calls
  ELSE calls' = Callers \o <<c, Call(f)>> /\ UNCHANGED written

Collect(items) == [Innermost EXCEPT !.rest = Tail(@), !.id = @ \cup items]

(* A field of the type that the query is about. *)
SelectField ==
  /\ InQuery /\ Len(calls) = 1 /\ Innermost.rest # <<>>
  /\ IF ~IsNamed(Head1) THEN ReplaceInnermost(Collect({})) /\ UNCHANGED written
     ELSE IF ~Complex(Head1) THEN ReplaceInnermost(Collect({Plain(Head1)})) /\ UNCHANGED written
     ELSE IF ~Visited(Head1) THEN ReplaceInnermost(Collect(NotVisited(Head1))) /\ UNCHANGED written
     ELSE IF Immediate(Head1) THEN ReplaceInnermost(Collect(Answer(Head1))) /\ UNCHANGED written
     ELSE Recurse(Collect({}), Head1)
  /\ UNCHANGED <<client, task, queries>>

(* Mutation: the id joins the nested selections, and a title replaces them.*)
SimpleTitleReplaces(f) ==
  LET c == [Innermost EXCEPT !.rest = Tail(@)]
      named == IF IsNamed(f) THEN {Plain(f)} ELSE {}
  IN  IF Full(Innermost.field) \/ f.force \/ f.id THEN [c EXCEPT !.id = @ \cup named]
      ELSE IF IsTitle(Innermost.field.of, f) THEN [c EXCEPT !.id = {Plain(f)}]
      ELSE c

(* A simple field of an embedded type.  The id takes the place of what was *)
(* selected before it.                                                     *)
Simple(f) ==
  LET c == [Innermost EXCEPT !.rest = Tail(@)]
      named == IF IsNamed(f) THEN {Plain(f)} ELSE {}
  IN  IF Full(Innermost.field) \/ f.force THEN [c EXCEPT !.id = @ \cup named]
      ELSE IF f.id THEN [c EXCEPT !.id = {Plain(f)}]
      ELSE IF IsTitle(Innermost.field.of, f) THEN [c EXCEPT !.title = @ \cup {Plain(f)}]
      ELSE c

(* getQueryForEmbeddedType, the next field of the type. *)
EmbedField ==
  /\ InQuery /\ Len(calls) > 1 /\ Innermost.rest # <<>>
  /\ IF ~Complex(Head1) \/ ~IsNamed(Head1) THEN ReplaceInnermost(Simple(Head1)) /\ UNCHANGED written
     ELSE IF Immediate(Head1) THEN ReplaceInnermost(Collect(Answer(Head1))) /\ UNCHANGED written
     ELSE Recurse(Collect({}), Head1)
  /\ UNCHANGED <<client, task, queries>>

Selected == Innermost.id \cup Innermost.title

(* getQueryForEmbeddedType returns: the field, with braces unless nothing  *)
(* was selected; in a configuration it is not selected then.               *)
CloseBraces ==
  /\ InQuery /\ Len(calls) > 1 /\ Innermost.rest = <<>>
  /\ LET f == Innermost.field
         config == client.kind[client.file] = "config"
         item == IF Selected = {} /\ config THEN {} ELSE {<<f.name, Selected>>}
         caller == calls[Len(calls) - 1]
     IN  /\ calls' = Append(SubSeq(calls, 1, Len(calls) - 2), [caller EXCEPT !.id = @ \cup item])
         /\ queries' = queries \cup {[of |-> f.of, full |-> Full(f), items |-> Selected, outer |-> FALSE]}
  /\ UNCHANGED <<client, written, task>>

(* The query is written. *)
WriteQuery ==
  /\ InQuery /\ Len(calls) = 1 /\ Innermost.rest = <<>>
  /\ queries' = queries \cup {[of |-> Innermost.field.of, full |-> TRUE, items |-> Selected, outer |-> TRUE]}
  /\ calls' = <<>>
  /\ UNCHANGED <<client, written, task>>

-----------------------------------------------------------------------------
(* What New...Instance writes for a field, of getFuncsMap: whether at all, *)
(* and whether by the function of another type.                            *)
NeedInit(f) == IsNamed(f) /\ (f.notNull \/ f.embedded)
MadeByItsType(f) == HasTypeOfItsOwn(f) /\ ~f.list /\ f.notNull
Initialised(f) == NeedInit(f) /\ MadeByItsType(f) /\ (f.embedded \/ ~f.byId)

(* A client calls the function. *)
NewInstance(e) ==
  /\ written = "ready" /\ calls = <<>> /\ task # "instance"
  /\ task' = "instance" /\ calls' = <<Outer(e)>> /\ queries' = {}
  /\ UNCHANGED <<client, written>>

EmptyVal ==
  /\ written = "ready" /\ task = "instance" /\ calls # <<>> /\ Innermost.rest # <<>>
  /\ IF Initialised(Head1) THEN Recurse(Collect({Plain(Head1)}), Head1)
     ELSE /\ ReplaceInnermost(Collect(IF NeedInit(Head1) THEN {Plain(Head1)} ELSE {}))
          /\ UNCHANGED written
  /\ UNCHANGED <<client, task, queries>>

ReturnInstance ==
  /\ written = "ready" /\ task = "instance" /\ calls # <<>> /\ Innermost.rest = <<>>
  /\ calls' = Callers
  /\ UNCHANGED <<client, written, task, queries>>

ClientNext ==
  \/ Imports \/ ProcessMethods \/ SelectField \/ EmbedField \/ CloseBraces \/ WriteQuery
  \/ \E op \in {"get", "list", "find", "set"} : GenerateQuery(op)
  \/ \E e \in ClientTypes : NewInstance(e)
  \/ EmptyVal \/ ReturnInstance

ClientSpec == ClientInit /\ [][ClientNext]_clientVars

-----------------------------------------------------------------------------
(* What is collected before an id that is not collected is replaced by it. *)
Collected(q, f) == q.full \/ f.force
Replaced(q, f) ==
  \E i, j \in DOMAIN client.fields[q.of] :
    LET g == client.fields[q.of][j]
    IN  i < j /\ client.fields[q.of][i] = f /\ g.id /\ ~Collected(q, g)

(* What a query selects of a type: everything simple of an embedded value, *)
(* the id and the titles of another, and the types of its fields.          *)
Owed(q) ==
  {f \in FieldsIn(q.of) : IsNamed(f) /\
     IF Complex(f) THEN ~q.outer /\ ~(HasTypeOfItsOwn(f) /\ client.kind[client.file] = "config") /\ ~Replaced(q, f)
     ELSE \/ (f.id \/ Collected(q, f)) /\ ~Replaced(q, f)
          \/ IsTitle(q.of, f) /\ ~f.id /\ ~Collected(q, f)}

(* An object has braces unless its type has nothing to select. *)
Braced(f, selected) ==
  selected = {} /\ HasTypeOfItsOwn(f) /\ ~f.byId =>
    \A g \in FieldsIn(f.of) : IsNamed(g) => ~Complex(g) /\ ~g.id /\ ~IsTitle(f.of, g)

(* Every selection is one the server can answer and the client's type      *)
(* promises.  It selects what there is, with braces where they belong, and *)
(* a skipped field only as "id", for an id or a title; nothing is missing  *)
(* but what comes before the id.                                           *)
SelectionsFit ==
  \A q \in queries :
    /\ \A item \in q.items : \E f \in FieldsIn(q.of) :
         \/ IsNamed(f) /\ item[1] = f.name /\ Braced(f, item[2])
         \/ ~IsNamed(f) /\ (f.id \/ f.title) /\ ~q.full /\ item = <<"id", {}>>
    /\ \A f \in Owed(q) : \E item \in q.items : item[1] = f.name

(* Types that are followed from one to another, in a circle.               *)
Follows(f, types) ==
  /\ f.of \in types /\ IsNamed(f)
  /\ IF task = "instance" THEN Initialised(f) ELSE ~Immediate(f)
Round == \E types \in SUBSET ClientTypes :
           types # {} /\ \A t \in types : \E f \in FieldsIn(t) : Follows(f, types)

(* Generation ends, and so does the function of an instance, unless types  *)
(* are of one another in a circle; and it only panics for a method that    *)
(* returns nothing.                                                        *)
EndsUnlessRound ==
  /\ written = "overflow" => Round
  /\ written = "panicked" => client.gives = "nothing"

QueriesExplained == SelectionsFit /\ EndsUnlessRound
=============================================================================
