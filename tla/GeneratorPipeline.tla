------------------------- MODULE GeneratorPipeline -------------------------
(***************************************************************************)
(* Project.Generate and WriteToFiles (gen/generator.go) over the packages  *)
(* of a project (gen/package.go): stages that walk a map of packages, in   *)
(* an order that Go chooses, each time anew.  A package of its own for     *)
(* references (gen/object_ref.go) may join the map while it is walked, and *)
(* then is met by the walk or not.                                         *)
(*                                                                         *)
(* Before anything is generated, beforePrepare links the entities of all   *)
(* packages: descendants, automatic ids, foreign keys, ids of references,  *)
(* parameters of queries.  An entity here is what these steps ask of it.   *)
(***************************************************************************)
EXTENDS Integers, Sequences, FiniteSets

CONSTANTS Projects,     \* the projects to generate, see ProjectShape
          Package,      \* packages of the input
          Internal,     \* the package of references, vivrintnl
          Entities,     \* the entities of each package, in the order of its files
          None

Entity == UNION {{Entities[p][i] : i \in 1..Len(Entities[p])} : p \in Package}
Stages == <<"postParsed", "beforePrepare", "prepare", "processMetas", "generate", "write">>

Relations == [owner : Entity, field : {1, 2}, target : Entity, many : BOOLEAN]

(* `id` tells how an entity gets its id field: one named ID, one of        *)
(* another name, none as embeddable types have, or the one checkType makes.*)
(* `declared` are relations whose target has the foreign key in the input, *)
(* `faulty` the stages in which a plugin finds an error in a package.      *)
ProjectShape ==
  [id : [Entity -> {"named", "own", "none", "auto"}], autoOption : BOOLEAN,
   base : [Entity -> Entity \cup {None}], extendable : SUBSET Entity,
   relations : SUBSET Relations, declared : SUBSET Relations,
   find : [Entity -> Entity \cup {None}], objectRefs : SUBSET Entity,
   engineless : SUBSET Package, refers : SUBSET Package,
   faulty : SUBSET ({"postParsed", "beforePrepare", "prepare", "processMetas", "generate"}
                      \X (Package \cup {Internal}))]

ASSUME ProjectsAssumption == Projects \subseteq ProjectShape

(* No type is derived from itself, in however many steps. *)
ASSUME BasesAssumption ==
  \A p \in Projects, S \in (SUBSET Entity) \ {{}} : \E e \in S : p.base[e] \notin S

ASSUME PackagesAssumption ==
  /\ Internal \notin Package /\ None \notin Entity \cup Package \cup {Internal}
  /\ \A p \in Package : Entities[p] \in Seq(Entity)
  /\ \A p, q \in Package : \A i \in 1..Len(Entities[p]), k \in 1..Len(Entities[q]) :
       Entities[p][i] = Entities[q][k] => p = q /\ i = k

VARIABLES project,
          packages,    \* keys of p.packages
          stage,       \* index in Stages
          outcome,     \* "running", and how it ended: "done", "failed", "panicked"
          todo,        \* packages this walk will still meet
          cursor,      \* the package in beforePrepare, the loop it is in, entities left
          passed,      \* the stages each package went through
          hasId,       \* entities with an id field among their Fields
          index,       \* what FieldsIndex["ID"] is: "nothing", "id" or "foreignKey"
          foreign,     \* how many foreign keys to an owner an entity was given
          manyId,      \* FCManyToManyIDField of each relation
          findParam,   \* FAPIFindParamType: whose queries an entity is asked by
          searched,    \* what the parameter ID of a find type looks for
          descendants, \* FCDescendants
          engine,      \* each package's Engine: "nil", "new", "prepared", "file"
          disk         \* what WriteToFiles wrote: packages' sources, engines

links == <<hasId, index, foreign, manyId, findParam, searched, descendants>>
pipelineVars == <<project, packages, stage, outcome, todo, cursor, passed, links, engine, disk>>

NoCursor == [at |-> None, loop |-> 0, rest |-> <<>>]

PipelineStart ==
  /\ packages = Package /\ todo = Package
  /\ stage = 1 /\ outcome = "running" /\ cursor = NoCursor
  /\ passed = [p \in Package \cup {Internal} |-> {}]
  /\ hasId = {e \in Entity : project.id[e] \in {"named", "own"}}
  /\ index = [e \in Entity |-> IF project.id[e] = "named" THEN "id" ELSE "nothing"]
  /\ foreign = [e \in Entity |-> [o \in Entity |-> 0]]
  /\ manyId = [r \in project.relations |-> "unset"]
  /\ findParam = [e \in Entity |-> None]
  /\ searched = [e \in Entity |-> "unset"]
  /\ descendants = [e \in Entity |-> <<>>]
  /\ engine = [p \in Package \cup {Internal} |-> "nil"]
  /\ disk = {}

PipelineInit == project \in Projects /\ PipelineStart

-----------------------------------------------------------------------------
In(s) == outcome = "running" /\ Stages[stage] = s /\ cursor = NoCursor

Stop(how) == outcome' = how /\ todo' = {} /\ cursor' = NoCursor /\ UNCHANGED stage

(* The walk goes on to another package, or the next one begins. *)
Leave(p, present) ==
  /\ cursor' = NoCursor
  /\ passed' = [passed EXCEPT ![p] = @ \cup {Stages[stage]}]
  /\ IF todo = {p}
     THEN IF stage = Len(Stages) THEN outcome' = "done" /\ todo' = {} /\ UNCHANGED stage
          ELSE stage' = stage + 1 /\ todo' = present /\ UNCHANGED outcome
     ELSE todo' = todo \ {p} /\ UNCHANGED <<stage, outcome>>

Faulty(p) == <<Stages[stage], p>> \in project.faulty

(* postParsed and processMetas: what they change is a package's own. *)
PostParsed(p) ==
  /\ In("postParsed") /\ p \in todo
  /\ IF Faulty(p) THEN Stop("failed") /\ UNCHANGED passed ELSE Leave(p, packages)
  /\ UNCHANGED <<project, packages, links, engine, disk>>

ProcessMetas(p) ==
  /\ In("processMetas") /\ p \in todo
  /\ IF Faulty(p) THEN Stop("failed") /\ UNCHANGED passed ELSE Leave(p, packages)
  /\ UNCHANGED <<project, packages, links, engine, disk>>

-----------------------------------------------------------------------------
(* beforePrepare is two loops over the entities of a package.  The package *)
(* of references has one entity, which has nothing to link.                *)
EntitiesOf(p) == IF p = Internal THEN <<>> ELSE Entities[p]

EnterPackage(p) ==
  /\ In("beforePrepare") /\ p \in todo
  /\ IF Faulty(p) THEN Stop("failed")
     ELSE cursor' = [at |-> p, loop |-> 1, rest |-> EntitiesOf(p)] /\ UNCHANGED <<stage, outcome, todo>>
  /\ UNCHANGED <<project, packages, passed, links, engine, disk>>

(* The base of a type, the base's, and so on: the least set of them; and   *)
(* the one of the line that has no base.                                   *)
Ancestors[e \in Entity] ==
  {a \in Entity : \A S \in SUBSET Entity :
     (\A x \in S \cup {e} : project.base[x] \in S \cup {None}) => a \in S}
Root[e \in Entity] == CHOOSE r \in {e} \cup Ancestors[e] : project.base[r] = None

(* Mutation: only the base type itself learns of a descendant. *)
AddDescendantToBase(e) ==
  descendants' = [b \in Entity |-> IF b = project.base[e] THEN Append(descendants[b], e)
                                   ELSE descendants[b]]

AddDescendant(e) ==
  descendants' = [b \in Entity |-> IF b \in Ancestors[e] THEN Append(descendants[b], e)
                                   ELSE descendants[b]]

(* Annotations of the entity and its fields are checked; an object-ref     *)
(* makes the internal package, with an engine, once.                       *)
CheckAnnotations(e) ==
  IF e \in project.objectRefs /\ Internal \notin packages
  THEN /\ packages' = packages \cup {Internal}
       /\ engine' = [engine EXCEPT ![Internal] = "new"]
       /\ todo' \in {todo, todo \cup {Internal}}
  ELSE UNCHANGED <<packages, engine, todo>>

FirstLoop ==
  LET e == Head(cursor.rest)
      b == project.base[e]
  IN  /\ cursor.loop = 1 /\ cursor.rest # <<>>
      /\ IF b # None /\ b \notin project.extendable
         THEN Stop("failed") /\ UNCHANGED <<packages, engine, descendants>>
         ELSE /\ AddDescendant(e)
              /\ CheckAnnotations(e)
              /\ cursor' = [cursor EXCEPT !.rest = Tail(@)]
              /\ UNCHANGED <<stage, outcome>>
      /\ UNCHANGED <<project, passed, hasId, index, foreign, manyId, findParam, searched, disk>>

BetweenLoops ==
  /\ cursor.loop = 1 /\ cursor.rest = <<>>
  /\ cursor' = [cursor EXCEPT !.loop = 2, !.rest = EntitiesOf(cursor.at)]
  /\ UNCHANGED <<project, packages, stage, outcome, todo, passed, links, engine, disk>>

(* GetIdField: of a derived type the base's. *)
IdField(e, ids) == Root[e] \in ids

(* Mutation: a derived type is given an id of its own when its base has    *)
(* none yet.                                                               *)
CheckTypeOfDerived(e) ==
  IF IdField(e, hasId) \/ project.id[e] # "auto"
  THEN [ok |-> TRUE, ids |-> hasId, index |-> index]
  ELSE [ok |-> project.autoOption /\ index[e] = "nothing" /\ project.base[e] = None,
        ids |-> hasId \cup {e}, index |-> [index EXCEPT ![e] = "id"]]

(* checkType: a stored type without an id is given one named ID. *)
CheckType(e) ==
  IF IdField(e, hasId) \/ project.id[e] # "auto" \/ project.base[e] # None
  THEN [ok |-> TRUE, ids |-> hasId, index |-> index]
  ELSE [ok |-> project.autoOption /\ index[e] = "nothing",
        ids |-> hasId \cup {e}, index |-> [index EXCEPT ![e] = "id"]]

OneToMany(e) == {r \in project.relations : r.owner = e /\ ~r.many}
Made(e, t) == {r \in OneToMany(e) \ project.declared : r.target = t}

(* A foreign key that is made goes into the target's FieldsIndex under ID, *)
(* not under its name.                                                     *)
Indexed(e, before) ==
  [t \in Entity |-> IF Made(e, t) # {} THEN "foreignKey" ELSE before[t]]

ManyIds(e, ids) ==
  [r \in project.relations |->
     IF r.owner = e /\ r.many THEN IF IdField(r.target, ids) THEN "known" ELSE "nil"
     ELSE manyId[r]]

(* GetField("ID"): of the type, then of its base types. *)
NamedId(t, idx) ==
  IF idx[t] # "nothing" THEN idx[t]
  ELSE IF \E a \in Ancestors[t] : idx[a] # "nothing"
  THEN idx[CHOOSE a \in Ancestors[t] :
             /\ idx[a] # "nothing"
             /\ \A c \in Ancestors[t] : idx[c] # "nothing" => c = a \/ c \in Ancestors[a]]
  ELSE "nothing"

(* The second loop: checkType, checkTypeRelations, which dereferences the  *)
(* owner's id field, and processStandardTypeAnnotations, where the first   *)
(* type that names another in its find annotation becomes its parameter.   *)
SecondLoop ==
  LET e == Head(cursor.rest)
      checked == CheckType(e)
      idx == Indexed(e, checked.index)
      t == project.find[e]
      asks == t # None /\ findParam[t] = None
      found == NamedId(t, idx)
  IN  /\ cursor.loop = 2 /\ cursor.rest # <<>>
      /\ IF ~checked.ok THEN Stop("failed") /\ UNCHANGED links
         ELSE IF OneToMany(e) # {} /\ ~IdField(e, checked.ids)
         THEN Stop("panicked") /\ UNCHANGED links
         ELSE IF asks /\ found = "nothing" THEN Stop("failed") /\ UNCHANGED links
         ELSE /\ hasId' = checked.ids
              /\ index' = idx
              /\ foreign' = [x \in Entity |->
                   [foreign[x] EXCEPT ![e] = @ + Cardinality(Made(e, x))]]
              /\ manyId' = ManyIds(e, checked.ids)
              /\ findParam' = IF asks THEN [findParam EXCEPT ![t] = e] ELSE findParam
              /\ searched' = IF asks THEN [searched EXCEPT ![e] = found] ELSE searched
              /\ cursor' = [cursor EXCEPT !.rest = Tail(@)]
              /\ UNCHANGED <<stage, outcome, todo, descendants>>
      /\ UNCHANGED <<project, packages, passed, engine, disk>>

LeaveBeforePrepare ==
  /\ cursor.loop = 2 /\ cursor.rest = <<>>
  /\ Leave(cursor.at, packages)
  /\ UNCHANGED <<project, packages, links, engine, disk>>

-----------------------------------------------------------------------------
(* prepare: a new engine, then every plugin in the order of registration. *)
Prepare(p) ==
  /\ In("prepare") /\ p \in todo
  /\ IF Faulty(p) THEN /\ Stop("failed") /\ UNCHANGED passed
                       /\ engine' = [engine EXCEPT ![p] = "new"]
     ELSE Leave(p, packages) /\ engine' = [engine EXCEPT ![p] = "prepared"]
  /\ UNCHANGED <<project, packages, links, disk>>

(* Mutation: errors that plugins add to the project are not looked at. *)
GenerateAnyway(p) ==
  /\ In("generate") /\ p \in todo
  /\ Leave(p, packages)
  /\ engine' = IF p \in project.engineless THEN engine ELSE [engine EXCEPT ![p] = "file"]
  /\ UNCHANGED <<project, packages, links, disk>>

(* Every file, every plugin; then generateEngine, whose error, of an       *)
(* engineless package that refers to others, is not looked at.             *)
GeneratePackage(p) ==
  /\ In("generate") /\ p \in todo
  /\ IF Faulty(p) THEN Stop("failed") /\ UNCHANGED <<passed, engine>>
     ELSE /\ Leave(p, packages)
          /\ engine' = IF p \in project.engineless THEN engine
                       ELSE [engine EXCEPT ![p] = "file"]
  /\ UNCHANGED <<project, packages, links, disk>>

(* WriteToFiles, which runs when Generate returned no error; a file that   *)
(* cannot be saved ends it and leaves the others.                          *)
Write(p) ==
  /\ In("write") /\ p \in todo
  /\ LET written == {<<p, "sources">>}
           \cup IF p \in project.engineless THEN {} ELSE {<<p, "engine">>}
     IN  \/ Leave(p, packages) /\ disk' = disk \cup written
         \/ /\ Stop("failed") /\ UNCHANGED passed
            /\ disk' \in {disk, disk \cup {<<p, "sources">>}}
  /\ UNCHANGED <<project, packages, links, engine>>

PipelineNext ==
  \/ \E p \in Package \cup {Internal} :
       PostParsed(p) \/ EnterPackage(p) \/ Prepare(p) \/ ProcessMetas(p) \/ GeneratePackage(p) \/ Write(p)
  \/ FirstLoop \/ BetweenLoops \/ SecondLoop \/ LeaveBeforePrepare

PipelineSpec == PipelineInit /\ [][PipelineNext]_pipelineVars

-----------------------------------------------------------------------------
(* An automatic id and a foreign key that is made meet under the name ID. *)
Contested(e) == \E r \in project.relations \ project.declared : r.target = e /\ ~r.many

(* A project is refused only for what is wrong in it: a plugin's error, a  *)
(* missing id without the option, a base that is not extendable, a find    *)
(* type for something without a field ID.  The order of packages decides   *)
(* only where an automatic id is involved: whether it finds its name       *)
(* taken, a find type looks for it too early, or a derived type's          *)
(* relations dereference the id its base does not have yet.                *)
FailuresExplained ==
  /\ outcome = "failed" /\ disk = {} =>
       \/ project.faulty # {}
       \/ "generate" \in UNION {passed[p] : p \in packages}
       \/ \E e \in Entity : project.id[e] = "auto" /\ project.base[e] = None
                              /\ (~project.autoOption \/ Contested(e))
       \/ \E e \in Entity : project.base[e] \notin project.extendable \cup {None}
       \/ \E e \in Entity : project.find[e] # None
                              /\ project.id[Root[project.find[e]]] # "named"
  /\ outcome = "panicked" =>
       \E e \in Entity : /\ OneToMany(e) # {}
                         /\ \/ project.id[Root[e]] = "none"
                            \/ project.id[Root[e]] = "auto" /\ Root[e] # e

(* A field ID of the input is what a find type finds under that name, and  *)
(* a reference knows its target's id field, except where a foreign key was *)
(* filed under ID, or the target's id is automatic or missing.             *)
IdsExplained ==
  /\ \A e \in Entity : searched[e] = "foreignKey" =>
       \E t \in {project.find[e]} \cup Ancestors[project.find[e]] : Contested(t)
  /\ \A r \in project.relations :
       manyId[r] = "nil" => project.id[Root[r.target]] \in {"auto", "none"}

(* Once entities are linked, in whatever order, every type knows each of   *)
(* its descendants, of all levels and packages, once.                      *)
DescendantsOnce ==
  stage > 2 =>
    \A b, e \in Entity :
      Cardinality({i \in 1..Len(descendants[b]) : descendants[b][i] = e})
        = IF b \in Ancestors[e] THEN 1 ELSE 0

(* Nothing is written for a project in which a plugin found an error, and  *)
(* nothing of a package that any stage has left out, but for the first two *)
(* stages of the package of references.  After a run that reports success  *)
(* only engineless packages have no engine.                                *)
WrittenIsComplete ==
  /\ disk # {} =>
       /\ \A p \in packages :
            {"prepare", "processMetas", "generate"} \subseteq passed[p]
            /\ (p # Internal => {"postParsed", "beforePrepare"} \subseteq passed[p])
       /\ \A f \in project.faulty : f[2] = Internal
  /\ outcome = "done" =>
       \A p \in packages \ project.engineless : <<p, "engine">> \in disk /\ engine[p] = "file"

(* What the stages leave for one another, whatever the order: both.        *)
LinksExplained == IdsExplained /\ DescendantsOnce
=============================================================================
