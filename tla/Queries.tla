------------------------------ MODULE Queries ------------------------------
(***************************************************************************)
(* The Find and Lookup functions that gen/mongo_generator.go generates:    *)
(* a filter is built from the parameters of a find type, one after         *)
(* another, in the order of its fields, or from lookup annotations, and    *)
(* MongoDB, which is external, returns the documents that satisfy it.      *)
(*                                                                         *)
(* AddParam is a parameter's turn in the loop of generateFindFunc together *)
(* with the statements generated for it, run on a query in which it is     *)
(* filled or not.  What the loop knows is in `registered`, and what the    *)
(* generated function has is in `q` and `and`.  A word that is searched    *)
(* for becomes a regular expression as it is; the variants of the two      *)
(* searches that ignore case are left out.                                 *)
(***************************************************************************)
EXTENDS Integers, Sequences, FiniteSets

CONSTANTS Field,        \* fields of the searched type, in MongoDB's names
          Deleted,      \* the field _deleted_
          Kind,         \* V_Type
          Word,         \* values, as positive integers in the order of strings
          Prefix,       \* the pairs of a word and a prefix of it
          Infix,        \* the pairs of a word and a part of it
          Matched,      \* of "starts-with" and "contains": the pairs of a word and a regular
                        \* expression that matches it, at its beginning or anywhere
          Regular,      \* the words that are regular expressions
          Verbatim,     \* those that stand for themselves
          Params,       \* the parameters a find type may have, see ParamShape
          MaxParams,    \* bound on their number
          LookupTags    \* the annotations of a lookup: sets of <<field, tag, word>>

Missing == 0
Comparisons == {"eq", "ne", "gt", "gte", "lt", "lte", "starts-with", "contains"}
Flags == {"is-null", "is-not-null", "exists", "not-exists", "ignore"}

(* `type` is how the parameter is declared: one value, an array, a map,    *)
(* with one entry at most, or an embedded type, with one field here.       *)
ParamShape == [field : Field \cup {Deleted}, op : Comparisons \cup Flags,
               type : {"one", "array", "map", "embedded"},
               filled : BOOLEAN, values : SUBSET Word, yes : BOOLEAN]

(* A filled embedded parameter has the one value of its field, and a map   *)
(* that of its entry, or none: it is filled if it is not nil.  _deleted_   *)
(* is a field of the document, never the key of a map.                     *)
ASSUME ParamsAssumption ==
  /\ Params \subseteq ParamShape /\ Word \subseteq Nat \ {Missing}
  /\ \A p \in Params :
       /\ p.filled /\ p.type = "embedded" => \E w \in Word : p.values = {w}
       /\ p.filled /\ p.type = "map" => p.values = {} \/ \E w \in Word : p.values = {w}
       /\ p.field = Deleted => p.type # "map"

ASSUME VerbatimAssumption ==
  /\ Verbatim \subseteq Regular
  /\ \A x \in Matched["starts-with"] \cup Prefix :
       x[2] \in Verbatim => x \in Matched["starts-with"] /\ x \in Prefix
  /\ \A x \in Matched["contains"] \cup Infix :
       x[2] \in Verbatim => x \in Matched["contains"] /\ x \in Infix

ASSUME FieldsAssumption == Deleted \notin Field /\ Kind \notin Field \cup {Deleted}

ASSUME TagsAssumption ==
  \A tags \in LookupTags :
    IsFiniteSet(tags) /\ tags \subseteq Field \X {"startsWith", "contains", "eq", "ne"} \X Word

VARIABLES derived,      \* the searched type has a base type
          asked,        \* history: the parameters so far
          registered,   \* possiblyFilledFields
          q,            \* the filter: what is asked of each field
          and,          \* q["$and"] or q["$or"]: no list, or one of fields and conditions
          answered      \* "no", "find", "lookup", "findRefused", "lookupRefused"

queryVars == <<derived, asked, registered, q, and, answered>>

(* A condition is a value, or a document of operators and their arguments. *)
NoCondition == [document |-> FALSE, ops |-> {}]
IsValue(v) == [document |-> FALSE, ops |-> {<<"$eq", v>>}]
Operators(s) == [document |-> TRUE, ops |-> s]

NotDeleted == Operators({<<"$exists", FALSE>>})

QueriesInit ==
  /\ derived \in BOOLEAN
  /\ asked = <<>> /\ registered = {} /\ and = {} /\ answered = "no"
  /\ q = [f \in Field \cup {Deleted, Kind} |-> NoCondition]

-----------------------------------------------------------------------------
Value(p) == CHOOSE v \in p.values : TRUE

(* The operator a comparison is translated to, and its argument.  For      *)
(* exists and not-exists it is the same.                                   *)
Translated(p) ==
  CASE p.op = "eq" -> <<"$eq", Value(p)>>
    [] p.op = "ne" -> <<"$ne", Value(p)>>
    [] p.op = "gt" -> <<"$gt", Value(p)>>
    [] p.op = "gte" -> <<"$gte", Value(p)>>
    [] p.op = "lt" -> <<"$lt", Value(p)>>
    [] p.op = "lte" -> <<"$lte", Value(p)>>
    [] p.op \in {"starts-with", "contains"} -> <<"$regex", <<p.op, Value(p)>>>>
    [] p.op \in {"is-null", "is-not-null"} ->
         <<IF p.yes = (p.op = "is-null") THEN "$eq" ELSE "$ne", Missing>>
    [] p.op \in {"exists", "not-exists"} -> <<"$exists", p.yes>>

(* Mutation: a condition that is there is always replaced. *)
WithOneReplacing(p, old) ==
  IF p.op = "eq" THEN IsValue(Value(p)) ELSE Operators({Translated(p)})

(* One value: an earlier parameter of the field may have left a document   *)
(* of operators, to which this one is added; otherwise it takes the place  *)
(* of whatever is there.                                                   *)
WithOne(p, old) ==
  LET t == Translated(p)
      kept == IF old.document THEN {o \in old.ops : o[1] # t[1]} ELSE {}
  IN  IF p.field \in registered THEN Operators(kept \cup {t})
      ELSE IF p.op = "eq" THEN IsValue(Value(p))
      ELSE Operators({t})

DeletedFound == \E i \in 1..Len(asked) : asked[i].field = Deleted

(* What a parameter does to the filter.  An _deleted_ parameter that is    *)
(* not filled, or says FALSE to "ignore", hides deleted documents.         *)
Filter(p) ==
  IF ~p.filled
  THEN /\ q' = IF p.field = Deleted THEN [q EXCEPT ![Deleted] = NotDeleted] ELSE q
       /\ UNCHANGED and
  ELSE CASE p.type = "map" ->
              and' = {{<<p.field, IsValue(v)>> : v \in p.values}} /\ UNCHANGED q
         [] p.type = "array" ->
              q' = [q EXCEPT ![p.field] = Operators({<<"$in", p.values>>})] /\ UNCHANGED and
         [] p.type = "embedded" ->
              q' = [q EXCEPT ![p.field] = IsValue(Value(p))] /\ UNCHANGED and
         [] p.type = "one" /\ p.op = "ignore" ->
              /\ q' = IF p.yes THEN q ELSE [q EXCEPT ![Deleted] = NotDeleted]
              /\ UNCHANGED and
         [] p.type = "one" /\ p.op # "ignore" ->
              q' = [q EXCEPT ![p.field] = WithOne(p, @)] /\ UNCHANGED and

(* "ignore" of another field is an error, a second exists of a field does  *)
(* not compile; a find type has at most one parameter for _deleted_.       *)
Allowed(p) ==
  /\ p.op = "ignore" => p.field = Deleted
  /\ p.field = Deleted => ~DeletedFound
  /\ p.op \in {"exists", "not-exists"} => p.field \notin registered

AddParam(p) ==
  /\ answered = "no" /\ Len(asked) < MaxParams
  /\ Allowed(p)
  /\ Filter(p)
  /\ asked' = Append(asked, p)
  /\ registered' = IF p.type = "one" THEN registered \cup {p.field} ELSE registered
  /\ UNCHANGED <<derived, answered>>

(* addDescendantsToQuery: the type and its descendants. *)
OfKind(filter) ==
  IF derived THEN [filter EXCEPT ![Kind] = Operators({<<"$in", {1}>>})] ELSE filter

(* What MongoDB does not take: an empty list, an irregular expression.     *)
Irregular(c) == \E o \in c.ops : o[1] = "$regex" /\ o[2][2] \notin Regular
Refused(filter, lists) ==
  {} \in lists \/ (\E f \in DOMAIN filter : Irregular(filter[f])) \/ \E c \in UNION lists : Irregular(c[2])

(* The end of the query generator, and Find. *)
Find ==
  /\ answered = "no"
  /\ q' = OfKind(IF DeletedFound THEN q ELSE [q EXCEPT ![Deleted] = NotDeleted])
  /\ answered' = IF Refused(q', and) THEN "findRefused" ELSE "find"
  /\ UNCHANGED <<derived, asked, registered, and>>

-----------------------------------------------------------------------------
SearchTags == {"startsWith", "contains"}
Regex(tag, w) ==
  Operators({<<"$regex", <<IF tag = "startsWith" THEN "starts-with" ELSE "contains", w>>>>})

Fixed(tag, w) == IF tag = "eq" THEN IsValue(w) ELSE Operators({<<"$ne", w>>})

(* Lookup by a word, for a type with lookup tags.  Of the search tags of a *)
(* field the last one stays, as of the fixed ones; one search field is     *)
(* asked directly, several in an "$or"; fixed conditions come last.        *)
(* Without any tag the text is taken for a filter of the client's own,     *)
(* which is left out.                                                      *)
Lookup(w, tags) ==
  LET search == {t \in tags : t[2] \in SearchTags}
      fixed == tags \ search
      fields(s) == {t[1] : t \in s}
  IN  /\ answered = "no" /\ asked = <<>> /\ tags # {}
      /\ \E last \in [fields(search) -> SearchTags], rule \in [fields(fixed) -> fixed] :
           /\ \A f \in fields(search) : \E t \in search : t[1] = f /\ t[2] = last[f]
           /\ \A f \in fields(fixed) : rule[f][1] = f
           /\ q' = OfKind([f \in DOMAIN q |->
                     IF f \in fields(fixed) THEN Fixed(rule[f][2], rule[f][3])
                     ELSE IF f = Deleted THEN NotDeleted
                     ELSE IF f \in fields(search) /\ Cardinality(fields(search)) = 1
                     THEN Regex(last[f], w)
                     ELSE NoCondition])
           /\ and' = IF Cardinality(fields(search)) < 2 THEN {}
                     ELSE {{<<f, Regex(last[f], w)>> : f \in fields(search)}}
           /\ answered' = IF Refused(q', and') THEN "lookupRefused" ELSE "lookup"
      /\ asked' = <<[word |-> w, tags |-> tags]>>
      /\ UNCHANGED <<derived, registered>>

QueriesNext ==
  \/ \E p \in Params : AddParam(p)
  \/ Find
  \/ \E w \in Word, tags \in LookupTags : Lookup(w, tags)

QueriesSpec == QueriesInit /\ [][QueriesNext]_queryVars

-----------------------------------------------------------------------------
(* Documents, and how MongoDB reads a condition. *)
Document == [Field -> Word \cup {Missing}] \X BOOLEAN \X {1, 2}

Meets(o, v) ==
  CASE o[1] = "$eq" -> v = o[2]
    [] o[1] = "$ne" -> v # o[2]
    [] o[1] = "$gt" -> v # Missing /\ v > o[2]
    [] o[1] = "$gte" -> v # Missing /\ v >= o[2]
    [] o[1] = "$lt" -> v # Missing /\ v < o[2]
    [] o[1] = "$lte" -> v # Missing /\ v <= o[2]
    [] o[1] = "$in" -> v \in o[2]
    [] o[1] = "$regex" -> <<v, o[2][2]>> \in Matched[o[2][1]]
    [] o[1] = "$exists" -> (v # Missing) = o[2]

Satisfies(d, condition, v) == \A o \in condition.ops : Meets(o, v)

DeletedOf(d) == IF d[2] THEN 1 ELSE Missing

MeetsAll(d) ==
  /\ \A f \in Field : Satisfies(d, q[f], d[1][f])
  /\ Satisfies(d, q[Deleted], DeletedOf(d))
  /\ Satisfies(d, q[Kind], d[3])

Found ==
  {d \in Document :
     /\ MeetsAll(d)
     /\ \A list \in and :
          IF answered = "find" THEN \A c \in list : Satisfies(d, c[2], d[1][c[1]])
          ELSE \E c \in list : Satisfies(d, c[2], d[1][c[1]])}

-----------------------------------------------------------------------------
(* What a filled parameter asks of its field's value. *)
Asks(p, v) ==
  IF p.type = "map" THEN \A w \in p.values : v = w
  ELSE IF p.type # "one" THEN v \in p.values
  ELSE CASE p.op = "eq" -> v = Value(p)
         [] p.op = "ne" -> v # Value(p)
         [] p.op = "gt" -> v # Missing /\ v > Value(p)
         [] p.op = "gte" -> v # Missing /\ v >= Value(p)
         [] p.op = "lt" -> v # Missing /\ v < Value(p)
         [] p.op = "lte" -> v # Missing /\ v <= Value(p)
         [] p.op = "starts-with" -> <<v, Value(p)>> \in Prefix
         [] p.op = "contains" -> <<v, Value(p)>> \in Infix
         [] p.op = "is-null" -> (v = Missing) = p.yes
         [] p.op = "is-not-null" -> (v # Missing) = p.yes
         [] p.op = "exists" -> (v # Missing) = p.yes
         [] p.op = "not-exists" -> (v = Missing) = p.yes
         [] p.op = "ignore" -> p.yes \/ v = Missing

Filled == {i \in 1..Len(asked) : asked[i].filled}
OfParam(d, p) == IF p.field = Deleted THEN DeletedOf(d) ELSE d[1][p.field]

(* The documents of the type that meet every filled parameter; deleted     *)
(* ones only when a parameter is about deletion.                           *)
Wanted ==
  {d \in Document :
     /\ \A i \in Filled : Asks(asked[i], OfParam(d, asked[i]))
     /\ d[2] => \E i \in Filled : asked[i].field = Deleted
     /\ derived => d[3] = 1}

(* Two filled parameters of one field of which the later may take the      *)
(* earlier one's place.                                                    *)
Replaces(k, i) ==
  LET one(n) == asked[n].type = "one"
  IN  /\ i < k
      /\ \/ asked[i].type = "map" /\ asked[k].type = "map"
         \/ /\ asked[i].field = asked[k].field
            /\ \/ ~one(i) \/ ~one(k)
               \/ asked[i].op = "eq"
               \/ one(i) /\ one(k) /\ Translated(asked[i])[1] = Translated(asked[k])[1]

Searches(p) == p.type = "one" /\ p.op \in {"starts-with", "contains"}

(* Parameters that ask for something else than they say: not-exists, which *)
(* is generated as exists, and a word that is read as a regular expression.*)
Misread(p) == p.op = "not-exists" \/ (Searches(p) /\ Value(p) \notin Verbatim)
SomeMisread == \E i \in Filled : Misread(asked[i])

(* Find returns what is asked, unless a parameter may have taken another's *)
(* place, or is misread.                                                   *)
FindsWhatIsAsked ==
  answered = "find" /\ ~SomeMisread /\ (\A i, k \in Filled : ~Replaces(k, i)) =>
    Found = Wanted

(* Nothing that is asked is missed even when parameters take each other's  *)
(* place: a lost condition only widens the answer.                         *)
NothingMissed == answered = "find" /\ ~SomeMisread => Wanted \subseteq Found

(* Find is refused only if it has a map without an entry, or searches for  *)
(* what is no regular expression; and Lookup only in the latter case.      *)
RefusalExplained ==
  /\ answered = "findRefused" =>
       \E i \in Filled : \/ asked[i].type = "map" /\ asked[i].values = {}
                         \/ Searches(asked[i]) /\ Value(asked[i]) \notin Regular
  /\ answered = "lookupRefused" => asked[1].word \notin Regular

(* Lookup returns the documents with the word in a search field and every  *)
(* fixed condition, and no deleted ones, unless some field has two tags or *)
(* the word is read as a regular expression.                               *)
LookupFinds ==
  answered = "lookup" /\ asked[1].word \in Verbatim =>
    LET tags == asked[1].tags
        search == {t \in tags : t[2] \in SearchTags}
    IN  (\A s, t \in tags : s[1] = t[1] => s = t) =>
          Found = {d \in Document :
                     /\ ~d[2] /\ (derived => d[3] = 1)
                     /\ search # {} =>
                          \E t \in search : <<d[1][t[1]], asked[1].word>>
                                              \in IF t[2] = "contains" THEN Infix ELSE Prefix
                     /\ \A t \in tags \ search : (d[1][t[1]] = t[3]) = (t[2] = "eq")}

(* What the generated queries answer: all of these.                        *)
QueriesAnswered == FindsWhatIsAsked /\ NothingMissed /\ RefusalExplained /\ LookupFinds
=============================================================================
