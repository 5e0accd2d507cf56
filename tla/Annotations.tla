----------------------------- MODULE Annotations -----------------------------
(***************************************************************************)
(* Annotations of a project's types (gen/parser.go).                       *)
(*                                                                         *)
(* An entity maps names of annotations to annotations; an annotation is a  *)
(* list of tags, and each of the three is an object that others may refer  *)
(* to.  GetFullAnnotations of a derived type makes a map of its own, with  *)
(* the base's annotations in it, not with copies, and appends to these.    *)
(* An annotation is named here by the entity and the name it was declared  *)
(* with, a tag by its annotation and its key: of tags that an annotation   *)
(* gives the same key, only the first is ever read.                        *)
(***************************************************************************)
EXTENDS Integers, Sequences, FiniteSets, SequencesExt

CONSTANTS Type, Base,        \* Base[e] is a type, or NoType
          NoType,
          Name, Key,           \* annotations' names, tags' keys
          Declarations         \* what the input may have: lists of keys, by <<entity, name>>

(* No type is derived from itself, by any way: it would be a part of it. *)
ASSUME LineageAssumption ==
  /\ NoType \notin Type /\ Base \in [Type -> Type \cup {NoType}]
  /\ \A S \in SUBSET Type : S # {} => \E e \in S : Base[e] \notin S

ASSUME DeclarationsAssumption ==
  \A d \in Declarations : DOMAIN d \subseteq Type \X Name /\ \A a \in DOMAIN d : d[a] \in Seq(Key)

VARIABLES declared,    \* the annotations of the input; the value of a tag is its entity
          tagsOf,      \* the list of tags of each annotation
          value,       \* the value of each tag
          full,        \* FullAnnotations of the types that have them
          making,      \* the type whose FullAnnotations are being made, or NoType
          left,        \* its annotations that are not appended yet
          incoming     \* tags of one that are not appended yet

annotationVars == <<declared, tagsOf, value, full, making, left, incoming>>

AnnotationsInit ==
  /\ declared \in Declarations
  /\ tagsOf = [a \in DOMAIN declared |->
       [i \in DOMAIN declared[a] |-> <<a[1], a[2], declared[a][i]>>]]
  /\ value = [t \in Type \X Name \X Key |-> t[1]]
  /\ full = [e \in {} |-> <<>>]
  /\ making = NoType /\ left = {} /\ incoming = <<>>

-----------------------------------------------------------------------------
(* A type, its base, the base of that. *)
Line == [e \in Type |->
  {d \in Type : \A S \in SUBSET Type :
     e \in S /\ (\A x \in S : Base[x] # NoType => Base[x] \in S) => d \in S}]
Derived(e) == Base[e] # NoType

NamesOf(e) == {n \in Name : <<e, n>> \in DOMAIN declared}
Own(e) == [n \in NamesOf(e) |-> <<e, n>>]

(* GetFullAnnotations: those of a type without base are its own. *)
Annotations(e) == IF Derived(e) THEN full[e] ELSE Own(e)
Ready(e) == Derived(e) => e \in DOMAIN full

With(f, x, y) == [z \in DOMAIN f \cup {x} |-> IF z = x THEN y ELSE f[z]]

(* GetTag: the first with the key. *)
Position(ts, k) ==
  IF \E i \in DOMAIN ts : ts[i][3] = k
  THEN CHOOSE i \in DOMAIN ts : ts[i][3] = k /\ \A j \in 1..(i - 1) : ts[j][3] # k
  ELSE 0

(* Annotation.Append, one tag: its value replaces that of the annotation's *)
(* tag, in place, or the tag itself joins the annotation.                  *)
Join(a, t) == tagsOf' = [tagsOf EXCEPT ![a] = Append(@, t)] /\ UNCHANGED value
Overwrite(i, a, t) == value' = [value EXCEPT ![tagsOf[a][i]] = value[t]] /\ UNCHANGED tagsOf

(* Mutation: the tag joins without a look for its key. *)
JoinAlways(a, t) == Join(a, t)
Merge(a, t) ==
  LET i == Position(tagsOf[a], t[3])
  IN  IF i = 0 THEN Join(a, t) ELSE Overwrite(i, a, t)

-----------------------------------------------------------------------------
(* GetFullAnnotations: a type that is asked for its annotations, or that   *)
(* one is derived from which is, gets a map when its base has its own: the *)
(* map has the base's annotations.                                         *)
MakeFull(e) ==
  /\ making = NoType /\ ~Ready(e) /\ Ready(Base[e])
  /\ full' = With(full, e, Annotations(Base[e]))
  /\ making' = e /\ left' = NamesOf(e)
  /\ UNCHANGED <<declared, tagsOf, value, incoming>>

(* Annotations.Append: in any order of their names, the type's annotations *)
(* join the map, or are appended to what is there.                         *)
AppendAnnotation(n) ==
  /\ making # NoType /\ incoming = <<>> /\ n \in left
  /\ left' = left \ {n}
  /\ IF n \in DOMAIN full[making] THEN incoming' = tagsOf[<<making, n>>] /\ UNCHANGED full
     ELSE full' = With(full, making, With(full[making], n, <<making, n>>)) /\ UNCHANGED incoming
  /\ UNCHANGED <<declared, tagsOf, value, making>>

AppendTag ==
  /\ incoming # <<>> /\ incoming' = Tail(incoming)
  /\ Merge(full[making][Head(incoming)[2]], Head(incoming))
  /\ UNCHANGED <<declared, full, making, left>>

(* All of the type's annotations are appended. *)
IsMade ==
  /\ making # NoType /\ left = {} /\ incoming = <<>>
  /\ making' = NoType
  /\ UNCHANGED <<declared, tagsOf, value, full, left, incoming>>

AnnotationsNext ==
  \/ AppendTag \/ IsMade
  \/ \E e \in Type : MakeFull(e)
  \/ \E n \in Name : AppendAnnotation(n)

AnnotationsSpec == AnnotationsInit /\ [][AnnotationsNext]_annotationVars

-----------------------------------------------------------------------------
Has(e, n, k) == <<e, n>> \in DOMAIN declared /\ k \in Range(declared[<<e, n>>])

(* GetAnnotation of e and the value of a tag of it. *)
Seen(e, n, k) ==
  LET map == Annotations(e)
      i == Position(tagsOf[map[n]], k)
  IN  IF n \notin DOMAIN map \/ i = 0 THEN NoType ELSE value[tagsOf[map[n]][i]]

(* A type sees the tag of the nearest of its ancestors that has one, or    *)
(* its own, unless a type outside its line, which has the annotation from  *)
(* an ancestor in common, has the same tag and was asked for its           *)
(* annotations: that one wrote into what they share.                       *)
NearestWins ==
  \A e \in Type, n \in Name, k \in Key : Ready(e) /\ e # making =>
    LET outside == {d \in DOMAIN full \ Line[e] :
                      Has(d, n, k) /\ \E x \in Line[d] \cap Line[e] : n \in NamesOf(x)}
        near == {d \in Line[e] : Has(d, n, k)}
    IN  outside = {} =>
          IF near = {} THEN Seen(e, n, k) = NoType
          ELSE Seen(e, n, k) \in near /\ near \subseteq Line[Seen(e, n, k)]
=============================================================================
