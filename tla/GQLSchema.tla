----------------------------- MODULE GQLSchema -----------------------------
(***************************************************************************)
(* How the GraphQL schema of the generated types is made: the features     *)
(* that GQLGenerator.Prepare gives them and the generators it writes       *)
(* (gen/gql_generator.go), and GQLEngine.generate, which calls these when  *)
(* the engine starts (gqlengine.go).                                       *)
(*                                                                         *)
(* A generator asks the descriptor for the types it mentions, and the      *)
(* descriptor calls their generators when it has none yet.  A type is      *)
(* known only when its generator returns, so types that mention each other *)
(* never are.  Maps of strings are left to two types of the library.       *)
(* Two types of one name, which panic when they are added, are not         *)
(* modelled: a type is its name here.                                      *)
(***************************************************************************)
EXTENDS Integers, Sequences, FiniteSets

CONSTANTS Types, NoOne,
          Schemas         \* inputs, see SchemaShape

Operations == <<"get", "set", "create", "list", "lookup", "delete", "find",
                "bulkCreate", "bulkSet">>

(* The tags that switch them are one fewer: find is switched by the tag of *)
(* bulkCreate, that by the tag of bulkSet, and bulkSet by none.            *)
TagOf == <<"get", "set", "create", "list", "lookup", "delete", "bulkCreate", "bulkSet", "">>

Mentions == [owner : Types, target : Types, how : {"one", "list", "id"}]

(* `kind` is a type's modifier; `skip` are types annotated so, `tags` those*)
(* of operations, `maps` types with a map among their fields, `find` the   *)
(* type of the parameter of a find, `methods` what methods take or return. *)
SchemaShape ==
  [kind : [Types -> {"stored", "dictionary", "embeddable", "external", "config"}],
   base : [Types -> Types \cup {NoOne}], readonly : SUBSET Types, bulk : SUBSET Types,
   skip : SUBSET Types, tags : SUBSET (Types \X {TagOf[i] : i \in 1..8}),
   fields : SUBSET Mentions, maps : SUBSET Types, find : [Types -> Types \cup {NoOne}],
   methods : SUBSET [owner : Types, takes : SUBSET Types, gives : SUBSET Types]]

ASSUME TypesAssumption ==
  IsFiniteSet(Types) /\ NoOne \notin Types /\ "map" \notin Types /\ NoOne # "map"

ASSUME SchemasAssumption == Schemas \subseteq SchemaShape

VARIABLES schema,
          phase,     \* "types", "queries", "served", "refused", "panicked", "overflow"
          pending,      \* entities, then operations, that generate has not reached
          stack,     \* generators being called: what for, types left to ask for
          made       \* how many types were made under each name

schemaVars == <<schema, phase, pending, stack, made>>

-----------------------------------------------------------------------------
Bases[e \in Types] ==
  IF schema.base[e] = NoOne THEN {} ELSE {schema.base[e]} \cup Bases[schema.base[e]]
HasId(e) == \A a \in {e} \cup Bases[e] :
              schema.base[a] = NoOne => schema.kind[a] \in {"stored", "dictionary"}

(* Prepare: what of a type is generated. *)
Level(e) ==
  IF e \in schema.skip \/ schema.kind[e] = "external" THEN "ignore"
  ELSE IF schema.kind[e] = "embeddable" THEN "types" ELSE "all"

(* Prepare: a tag of an operation switches it off, whatever its value; the *)
(* name an operation could have is not used.                               *)
Offered(e, i) ==
  <<e, TagOf[i]>> \notin schema.tags /\ (Operations[i] = "list" => schema.kind[e] = "dictionary")

FieldsOf(e) == {f \in schema.fields : f.owner \in {e} \cup Bases[e]}

(* Mutation: only a type's own field is looked at. *)
IdOnlyOwn(f) == f.how = "one" /\ HasId(f.target) /\ f.owner = f.target

(* Prepare: a field of the very type, in it or in a type it is inherited   *)
(* by, has the id only, in all of them.                                    *)
IdOnly(f) ==
  /\ f.how = "one" /\ HasId(f.target)
  /\ Level(f.target) # "ignore" /\ f \in FieldsOf(f.target)

(* A type without a name of its own, as an ignored one, is looked up by an *)
(* empty name.                                                             *)
Named(kind, e) == IF Level(e) = "ignore" THEN <<kind, NoOne>> ELSE <<kind, e>>

(* getGQLType: a field mentions the type it is of, a map the library's.    *)
Mentioned(kind, e) ==
  {Named(kind, f.target) : f \in {g \in FieldsOf(e) :
      ~((g.how = "id" \/ IdOnly(g)) /\ HasId(g.target))}}
    \cup IF ({e} \cup Bases[e]) \cap schema.maps = {} THEN {} ELSE {<<kind, "map">>}

(* generateGQLTypes and generateInputTypeGenerator. *)
TypeGenerator(e) == Mentioned("type", e)
InputGenerator(e) == Mentioned("input", e)

Registered(t) == t[2] = "map" \/ (t[2] # NoOne /\ Level(t[2]) # "ignore")

AsksFor(t) ==
  IF t[2] = "map" THEN {} ELSE IF t[1] = "type" THEN TypeGenerator(t[2]) ELSE InputGenerator(t[2])

(* The generators of the operations of a type, each by what it asks for.   *)
SetOrCreate(e) == {<<"type", e>>, <<"input", e>>}
LookupQuery(e) == {<<"type", e>>}
ListQuery(e) == {<<"type", e>>}
FindQuery(e) == {<<"type", e>>, <<"input", schema.find[e]>>}
MethodMutation(m) == {Named("input", x) : x \in m.takes} \cup {Named("type", x) : x \in m.gives}
ConfigQuery(e) == {<<"type", e>>}
ConfigSetMutation(e) == {<<"type", e>>, <<"input", e>>}

(* Generate: the operations of a type with an id, and of a configuration.  *)
(* Those that ask for the same are not told apart.                         *)
OperationsOf(e) ==
  LET all == Level(e) = "all" /\ HasId(e)
      writable == all /\ e \notin schema.readonly
      config == Level(e) = "all" /\ schema.kind[e] = "config"
      On(names) == \E i \in DOMAIN Operations : Operations[i] \in names /\ Offered(e, i)
      Asks(on, what) == IF on THEN {what} ELSE {}
  IN  Asks(all /\ On({"get", "lookup"}), LookupQuery(e))
        \cup Asks(all /\ On({"list"}), ListQuery(e))
        \cup Asks(all /\ On({"find"}) /\ schema.find[e] # NoOne, FindQuery(e))
        \cup Asks(writable /\ On({"set", "create"}), SetOrCreate(e))
        \cup Asks(writable /\ e \in schema.bulk /\ On({"bulkCreate", "bulkSet"}), SetOrCreate(e))
        \cup Asks(config /\ On({"get"}), ConfigQuery(e))
        \cup Asks(config /\ On({"set"}), ConfigSetMutation(e))
        \cup {MethodMutation(m) : m \in {n \in schema.methods : n.owner = e /\ Level(e) # "ignore"}}

-----------------------------------------------------------------------------
SchemaStart ==
  /\ phase = "types" /\ stack = <<>>
  /\ pending = {e \in Types : Level(e) # "ignore"}
  /\ made = [t \in {"type", "input"} \X (Types \cup {"map"}) |-> 0]

SchemaInit == schema \in Schemas /\ SchemaStart

Top == stack[Len(stack)]
Below == SubSeq(stack, 1, Len(stack) - 1)
Frame(t, asks) == [for |-> t, rest |-> asks]

(* generate, its loop over the types' generators, in an order of Go's. *)
NextType(e) ==
  /\ phase = "types" /\ stack = <<>> /\ e \in pending
  /\ pending' = pending \ {e}
  /\ stack' = IF made[<<"type", e>>] > 0 THEN <<>> ELSE <<Frame(<<"type", e>>, TypeGenerator(e))>>
  /\ UNCHANGED <<schema, phase, made>>

StartQueries ==
  /\ phase = "types" /\ stack = <<>> /\ pending = {}
  /\ phase' = "queries"
  /\ pending' = UNION {OperationsOf(e) : e \in Types}
  /\ UNCHANGED <<schema, stack, made>>

(* Its loops over queries and mutations. *)
NextOperation(op) ==
  /\ phase = "queries" /\ stack = <<>> /\ op \in pending
  /\ pending' = pending \ {op}
  /\ stack' = <<Frame(<<>>, op)>>
  /\ UNCHANGED <<schema, phase, made>>

Deep == 2 * Cardinality(Types) + 2   \* more than an acyclic input needs

(* GetType and GetInputType, called by the generator on top. *)
GetType(t) ==
  LET rest == Below \o <<[Top EXCEPT !.rest = @ \ {t}]>>
  IN  /\ phase \in {"types", "queries"} /\ stack # <<>> /\ t \in Top.rest
      /\ IF Registered(t) /\ made[t] > 0 THEN stack' = rest /\ UNCHANGED phase
         ELSE IF ~Registered(t) THEN phase' = "panicked" /\ UNCHANGED stack
         ELSE IF Len(stack) = Deep THEN phase' = "overflow" /\ UNCHANGED stack
         ELSE stack' = Append(rest, Frame(t, AsksFor(t))) /\ UNCHANGED phase
      /\ UNCHANGED <<schema, pending, made>>

(* A generator returns, and what it made is kept under its name. *)
Return ==
  /\ phase \in {"types", "queries"} /\ stack # <<>> /\ Top.rest = {}
  /\ stack' = Below
  /\ made' = IF Top.for = <<>> THEN made ELSE [made EXCEPT ![Top.for] = @ + 1]
  /\ UNCHANGED <<schema, phase, pending>>

(* The library may refuse what was made, as it does when there are no      *)
(* queries; the engine's start fails with its error.                       *)
Serve ==
  /\ phase = "queries" /\ stack = <<>> /\ pending = {}
  /\ phase' \in {"served", "refused"}
  /\ UNCHANGED <<schema, pending, stack, made>>

SchemaNext ==
  \/ \E e \in Types : NextType(e)
  \/ \E op \in pending : NextOperation(op)
  \/ \E t \in {"type", "input"} \X (Types \cup {"map", NoOne}) : GetType(t)
  \/ StartQueries \/ Return \/ Serve

SchemaSpec == SchemaInit /\ [][SchemaNext]_schemaVars

-----------------------------------------------------------------------------
(* Every type is made once, however many ask for it: two of one name would *)
(* be refused by the schema.                                               *)
MadeOnce == \A t \in DOMAIN made : made[t] <= 1

(* A field with the value of a type with an id, of the type that has it or *)
(* of one that inherits it: it is by id.                                   *)
OfItsOwn(f) ==
  /\ f.how = "one" /\ HasId(f.target)
  /\ f.owner \in {f.target} \cup Bases[f.target]

(* Types with values of each other, in a circle. *)
Circle(types) ==
  \A x \in types : \E f \in FieldsOf(x) :
    f.target \in types /\ ~OfItsOwn(f) /\ ~(f.how = "id" /\ HasId(f.target))

Ignored == {e \in Types : Level(e) = "ignore"}

(* The types and the operations are all made only if no types have values  *)
(* of each other in a circle; the stack overflows only if some have, and   *)
(* the engine panics only when something generated mentions a type that is *)
(* not.                                                                    *)
StartsUnlessCircular ==
  LET circular == \E types \in SUBSET (Types \ Ignored) : types # {} /\ Circle(types)
  IN  /\ phase = "overflow" => circular
      /\ phase \in {"served", "refused"} => ~circular
      /\ phase = "panicked" =>
           \/ \E f \in schema.fields : f.target \in Ignored
           \/ \E e \in Types \ Ignored : schema.find[e] \in Ignored
           \/ \E m \in schema.methods : (m.takes \cup m.gives) \cap Ignored # {}

(* The types of an engine that starts: both.                               *)
SchemaExplained == MadeOnce /\ StartsUnlessCircular
=============================================================================
