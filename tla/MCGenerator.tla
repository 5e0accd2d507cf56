---------------------------- MODULE MCGenerator ----------------------------
(* The parts of the generator, and of what it generates for stored types,  *)
(* in one run: `part` is the one that moves, and the others stay as they   *)
(* begin, with one input each.                                             *)
EXTENDS GeneratorPipeline, Queries, Children, Annotations, MetaBlocks, GQLSchema, JSQueries, TLC

CONSTANTS ea, eb, ec, p1, p2, fa, fb, root, middle, leaf, other

VARIABLE part

E3(x, y, z) == ea :> x @@ eb :> y @@ ec :> z

(* Two packages; ids, base types, relations and find types that meet.      *)
TheEntities == p1 :> <<ea, eb>> @@ p2 :> <<ec>>
Rel(o, f, t, m) == [owner |-> o, field |-> f, target |-> t, many |-> m]
TheProjects ==
  {[id |-> i, autoOption |-> x[1], base |-> bs, extendable |-> x[2], relations |-> r,
    declared |-> d, find |-> f, objectRefs |-> x[3], engineless |-> x[4], faulty |-> x[5],
    refers |-> x[4]] :
    i \in {E3("auto", "named", "auto"), E3("named", "auto", "own"), E3("auto", "own", "named"),
           E3("named", "none", "auto"), E3("auto", "auto", "auto")},
    bs \in {E3(None, None, None), E3(None, ea, None), E3(None, None, ea), E3(None, ec, None),
            E3(None, ea, eb)},
    r \in {{}, {Rel(ea, 1, ec, FALSE)}, {Rel(ec, 1, ea, FALSE)},
           {Rel(ec, 1, eb, TRUE), Rel(eb, 1, ec, FALSE)},
           {Rel(ea, 1, ea, FALSE), Rel(ec, 2, ea, TRUE)}},
    d \in {{}, {Rel(ea, 1, ec, FALSE), Rel(eb, 1, ec, FALSE)}},
    f \in {E3(None, None, None), E3(None, ea, None), E3(ec, ec, None), E3(None, None, eb)},
    x \in {<<TRUE, {ea, eb, ec}, {}, {}, {}>>, <<TRUE, {ea, eb, ec}, {ea}, {p1}, {}>>,
           <<TRUE, {ea}, {ec}, {}, {<<"generate", p2>>}>>,
           <<FALSE, {ea, ec}, {eb, ec}, {}, {<<"prepare", Internal>>}>>}}

(* Words 1 to 6 are the empty one, "$", "(", "a", "ab" and "ba"; "^$"      *)
(* matches the empty one only and "$" every word; "(" is not regular.      *)
Literal == 1..6 \ {2, 3}
WordPrefixes == {<<w, 1>> : w \in 1..6} \cup {<<w, w>> : w \in 2..6} \cup {<<5, 4>>}
WordInfixes == WordPrefixes \cup {<<6, 4>>}
Literally(pairs) == {x \in pairs : x[2] \in Literal}
WordMatches == [op \in {"starts-with", "contains"} |->
                  IF op = "contains" THEN Literally(WordInfixes) \cup {<<w, 2>> : w \in 1..6}
                  ELSE Literally(WordPrefixes) \cup {<<1, 2>>}]
P(fields, ops, type, values, yes) ==
  [field : fields, op : ops, type : type, filled : {TRUE}, values : values, yes : yes]
TheParams ==
  P({fa}, Comparisons, {"one"}, {{4}, {5}}, {TRUE})
    \cup P({fa}, {"starts-with", "contains"}, {"one"}, {{2}, {3}}, {TRUE})
    \cup P({fa}, {"is-null", "is-not-null", "exists", "not-exists"}, {"one"}, {{}}, BOOLEAN)
    \cup P({fb}, {"eq", "gt"}, {"one"}, {{4}}, {TRUE})
    \cup P({fa}, {"eq"}, {"array", "map", "embedded"}, {{4}}, {TRUE})
    \cup P({fa}, {"eq"}, {"array"}, {{4, 6}}, {TRUE})
    \cup P({fb}, {"eq"}, {"map"}, {{}, {4}}, {TRUE})
    \cup P({Deleted}, {"ignore", "exists"}, {"one"}, {{}}, BOOLEAN)
    \cup [field : {fa}, op : {"eq"}, type : {"one", "array"}, filled : {FALSE}, values : {{}}, yes : {TRUE}]
    \cup [field : {Deleted}, op : {"ignore"}, type : {"one"}, filled : {FALSE}, values : {{}}, yes : {TRUE}]
TheTags == SUBSET {<<fa, "startsWith", 4>>, <<fa, "contains", 4>>, <<fb, "contains", 4>>,
                   <<fb, "eq", 4>>, <<fa, "ne", 5>>, <<fb, "ne", 6>>}

(* A mutation's children: none, new ones, one that exists and a new one.   *)
Lists == {<<>>, <<0>>, <<0, 0>>, <<0, 1>>, <<2>>}

(* A line of three types, and one more derived from the first; <<0>> where *)
(* a type does not have the annotation.                                    *)
TheBase == root :> NoType @@ middle :> root @@ leaf :> middle @@ other :> root
Given(d) == [a \in {x \in DOMAIN d : d[x] # <<0>>} |-> d[a]]
TheDeclarations ==
  {Given((<<root, "a">> :> w @@ <<middle, "a">> :> x @@ <<leaf, "a">> :> y @@ <<other, "a">> :> z)
           @@ (<<root, "b">> :> u @@ <<leaf, "b">> :> v)) :
     w, x, y, z \in {<<0>>, <<>>, <<1>>, <<2>>, <<1, 2>>}, u \in {<<0>>, <<1>>}, v \in {<<0>>, <<1, 1>>}}

TheLines == [kind : {"$"}, annotation : {"a"}, specifier : {""}]
              \cup [kind : {"$"}, annotation : {"b"}, specifier : {"s"}]
              \cup [kind : {":"}, specifier : {"t"}]
              \cup [kind : {"."}, field : {"f", "g", "base"}] \cup {[kind |-> "tags"]}

F(o, t, h) == [owner |-> o, target |-> t, how |-> h]
Mention3 == {s \in SUBSET {F(ea, ea, "one"), F(ea, eb, "one"), F(eb, ea, "id"), F(eb, ec, "list"),
                           F(ec, ea, "one"), F(ea, ec, "id")} : Cardinality(s) <= 3}
TheSchemas ==
  {[kind |-> k, base |-> bs, readonly |-> x[1], bulk |-> x[2], skip |-> x[3], tags |-> x[4],
    fields |-> fs, maps |-> x[5], find |-> x[6], methods |-> x[7]] :
    k \in {E3("stored", "dictionary", "embeddable"), E3("stored", "stored", "stored"),
           E3("stored", "external", "config")},
    bs \in {E3(NoOne, NoOne, NoOne), E3(NoOne, ea, NoOne)},
    fs \in Mention3,
    x \in {<<{}, {ea}, {}, {}, {ec}, E3(ec, NoOne, NoOne), {}>>,
           <<{ea}, {}, {}, {<<ea, "bulkCreate">>}, {}, E3(eb, NoOne, NoOne),
             {[owner |-> ea, takes |-> {eb, ec}, gives |-> {ec}]}>>,
           <<{}, {eb}, {ec}, {<<ea, "get">>, <<eb, "list">>}, {ea}, E3(NoOne, ea, eb),
             {[owner |-> ec, takes |-> {ec}, gives |-> {}]}>>}}

(* Types of the client: one of the file, one it is of, and one of both.    *)
Fld(n, of, marks) ==
  [name |-> n, of |-> of, list |-> "list" \in marks, id |-> "id" \in marks,
   title |-> "title" \in marks, skipped |-> "skipped" \in marks,
   embedded |-> "embedded" \in marks, notNull |-> "notNull" \in marks,
   byId |-> "byId" \in marks, force |-> "force" \in marks]
SomeText == Fld("x", Text, {})
SomeNumber == Fld("n", Number, {})
AnId == Fld("id", Number, {"id", "notNull"})
Ids == {<<>>, <<AnId>>, <<Fld("id", Text, {"id", "skipped"})>>}
Texts == {<<>>, <<SomeText>>, <<Fld("x", Text, {"force", "notNull"}), Fld("y", Number, {"title"})>>}
OneOf(t) ==
  {<<Fld("o", t, m)>> : m \in {{}, {"list"}, {"embedded", "notNull"}, {"byId"}, {"list", "force"}, {"notNull"}}}
    \cup {<<Fld("l", Number, {"list"}), Fld("m", "map", {"notNull"})>>}
Arranged(i, x, o) == {i \o x \o o, o \o x \o i}
TheClients ==
  {[fields |-> E3(<<AnId>> \o fs, gs, hs), kind |-> k, file |-> ea, gives |-> g[1], brackets |-> g[2]] :
    fs \in OneOf(eb), gs \in UNION {Arranged(i, x, o) : i \in Ids, x \in Texts, o \in OneOf(ec)},
    hs \in {<<>>, <<SomeNumber>>, <<SomeText>>, <<AnId, SomeText>>, <<SomeNumber, AnId, SomeText>>,
            <<Fld("t", Text, {"title", "skipped"}), SomeText>>, <<SomeText, Fld("o", ea, {}), AnId>>, <<Fld("p", eb, {"embedded", "notNull"})>>},
    k \in {E3("stored", "stored", "stored"), E3("config", "stored", "dictionary")},
    g \in {<<"nothing", 0>>, <<eb, 1>>, <<eb, 2>>}}

AClient == CHOOSE c \in Clients : TRUE
ASchema == CHOOSE s \in Schemas : TRUE
AProject == CHOOSE p \in Projects : TRUE

GeneratorInit ==
  /\ part \in {"pipeline", "queries", "children", "annotations", "meta", "schema", "client"}
  /\ ChildrenInit /\ MetaInit
  /\ part = "queries" \/ (part # "queries" /\ derived = FALSE)
  /\ QueriesInit /\ AnnotationsInit
  /\ part # "annotations" => DOMAIN declared = {}
  /\ schema \in IF part = "schema" THEN Schemas ELSE {ASchema}
  /\ project \in IF part = "pipeline" THEN Projects ELSE {AProject}
  /\ client \in IF part = "client" THEN Clients ELSE {AClient}
  /\ SchemaStart /\ PipelineStart /\ ClientStart

PipelineStep ==
  /\ part = "pipeline" /\ PipelineNext
  /\ UNCHANGED <<part, queryVars, childVars, annotationVars, metaVars, schemaVars, clientVars>>
QueriesStep ==
  /\ part = "queries" /\ QueriesNext
  /\ UNCHANGED <<part, pipelineVars, childVars, annotationVars, metaVars, schemaVars, clientVars>>
ChildrenStep ==
  /\ part = "children" /\ ChildrenNext
  /\ UNCHANGED <<part, pipelineVars, queryVars, annotationVars, metaVars, schemaVars, clientVars>>
AnnotationsStep ==
  /\ part = "annotations" /\ AnnotationsNext
  /\ UNCHANGED <<part, pipelineVars, queryVars, childVars, metaVars, schemaVars, clientVars>>
MetaStep ==
  /\ part = "meta" /\ MetaNext
  /\ UNCHANGED <<part, pipelineVars, queryVars, childVars, annotationVars, schemaVars, clientVars>>
SchemaStep ==
  /\ part = "schema" /\ SchemaNext
  /\ UNCHANGED <<part, pipelineVars, queryVars, childVars, annotationVars, metaVars, clientVars>>
ClientStep ==
  /\ part = "client" /\ ClientNext
  /\ UNCHANGED <<part, pipelineVars, queryVars, childVars, annotationVars, metaVars, schemaVars>>

GeneratorNext == PipelineStep \/ QueriesStep \/ ChildrenStep \/ AnnotationsStep \/ MetaStep \/ SchemaStep \/ ClientStep

generatorVars == <<part, pipelineVars, queryVars, childVars, annotationVars, metaVars, schemaVars, clientVars>>

GeneratorSpec == GeneratorInit /\ [][GeneratorNext]_generatorVars
=============================================================================
