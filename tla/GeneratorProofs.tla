-------------------------- MODULE GeneratorProofs --------------------------
(***************************************************************************)
(* The generator, for any project, and what it generates for queries: the  *)
(* stages over packages and entities; the filters of Find and Lookup, for  *)
(* any parameters, tags and documents; meta blocks of any length; and the  *)
(* annotations that types derived from one another share.                  *)
(***************************************************************************)
EXTENDS GeneratorPipeline, Queries, MetaBlocks, Annotations, FiniteSetTheorems,
        WellFoundedInduction, TLAPS

(***************************************************************************)
(* The generator.  What the stages have done so far, whatever the order.   *)
(***************************************************************************)
StageNames == {"postParsed", "beforePrepare", "prepare", "processMetas", "generate", "write"}
AllPackages == Package \cup {Internal}
Cursors == [at : AllPackages \cup {None}, loop : {0, 1, 2}, rest : Seq(Entity)]

ControlOK ==
  /\ project \in Projects /\ packages \in {Package, AllPackages}
  /\ stage \in 1..6 /\ todo \subseteq packages /\ cursor \in Cursors
  /\ outcome \in {"running", "done", "failed", "panicked"}
  /\ passed \in [AllPackages -> SUBSET StageNames]

LinksOK ==
  /\ hasId \subseteq Entity /\ index \in [Entity -> {"nothing", "id", "foreignKey"}]
  /\ manyId = [r \in project.relations |-> manyId[r]] /\ searched = [e \in Entity |-> searched[e]]

PipelineTypeOK ==
  /\ ControlOK /\ LinksOK
  /\ descendants \in [Entity -> Seq(Entity)]
  /\ engine \in [AllPackages -> {"nil", "new", "prepared", "file"}]

(* The package in beforePrepare, and how much of it a loop has left.       *)
RestOf(all, rest) ==
  /\ Len(rest) <= Len(all)
  /\ \A i \in 1..Len(rest) : rest[i] = all[Len(all) - Len(rest) + i]

CursorInv ==
  cursor # NoCursor =>
    /\ outcome = "running" /\ stage = 2 /\ cursor.at \in todo /\ cursor.loop # 0
    /\ <<"beforePrepare", cursor.at>> \notin project.faulty
    /\ RestOf(EntitiesOf(cursor.at), cursor.rest)

(* A package that a walk has left behind has passed its stage, but the     *)
(* package of references the first two; what is passed met no error.       *)
LeftBehind(p, i) == i < stage \/ (i = stage /\ p \notin todo /\ outcome \in {"running", "done"})

PassedInv ==
  /\ \A p \in packages, i \in 1..6 : LeftBehind(p, i) => Stages[i] \in passed[p] \/ (p = Internal /\ i <= 2)
  /\ \A p \in AllPackages, i \in 1..6 :
       Stages[i] \in passed[p] => i <= stage /\ <<Stages[i], p>> \notin project.faulty

OutputInv ==
  /\ \A p \in AllPackages \ project.engineless :
       /\ "generate" \in passed[p] => engine[p] = "file"
       /\ "write" \in passed[p] => <<p, "engine">> \in disk
  /\ disk # {} => stage = 6
  /\ outcome = "done" => stage = 6 /\ todo = {}
  /\ stage = 1 => packages = Package

IdInv ==
  /\ \A e \in Entity : /\ project.id[e] \in {"named", "own"} => e \in hasId
                       /\ index[e] = "nothing" => project.id[e] # "named"
                       /\ index[e] = "id" => e \in hasId
                       /\ index[e] = "foreignKey" => Contested(e)
  /\ IdsExplained

(* The entities the first loop is still to meet; every other one is known  *)
(* to its ancestors, once.                                                 *)
Waits(p, i) ==
  \/ stage = 1
  \/ stage = 2 /\ p \in todo /\ cursor.at # p
  \/ cursor.at = p /\ cursor.loop = 1 /\ i > Len(Entities[p]) - Len(cursor.rest)
Waiting == {e \in Entity : \E p \in Package : \E i \in 1..Len(Entities[p]) : e = Entities[p][i] /\ Waits(p, i)}

Listed(b, e) == \E k \in 1..Len(descendants[b]) :
                  \A i \in 1..Len(descendants[b]) : descendants[b][i] = e <=> i = k
Unlisted(b, e) == \A i \in 1..Len(descendants[b]) : descendants[b][i] # e

DescendantInv ==
  stage > 2 \/ outcome = "running" =>
    \A b, e \in Entity : IF e \notin Waiting /\ b \in Ancestors[e] THEN Listed(b, e) ELSE Unlisted(b, e)

ControlInv == ControlOK /\ CursorInv /\ PassedInv

PipelineInv ==
  PipelineTypeOK /\ CursorInv /\ PassedInv /\ OutputInv /\ IdInv /\ DescendantInv /\ FailuresExplained

LEMMA StagesAre ==
  /\ Stages[1] = "postParsed" /\ Stages[2] = "beforePrepare" /\ Stages[3] = "prepare"
  /\ Stages[4] = "processMetas" /\ Stages[5] = "generate" /\ Stages[6] = "write"
  /\ Len(Stages) = 6
BY DEF Stages

LEMMA StagesDiffer ==
  ASSUME NEW i \in 1..6
  PROVE  Stages[i] \in StageNames /\ \A k \in 1..6 : Stages[i] = Stages[k] => i = k
BY StagesAre DEF StageNames

-----------------------------------------------------------------------------
(* The line of a type's bases.                                             *)
LEMMA BaseIs ==
  ASSUME project \in Projects
  PROVE  /\ None \notin Entity /\ \A e \in Entity : project.base[e] \in Entity \cup {None}
         /\ \A S \in SUBSET Entity : S # {} => \E e \in S : project.base[e] \notin S
<1>1. project \in ProjectShape
  BY ProjectsAssumption
<1>2. PICK b : b = project.base
  OBVIOUS
<1>3. b \in [Entity -> Entity \cup {None}]
  BY <1>1, <1>2 DEF ProjectShape
<1>4. \A S \in (SUBSET Entity) \ {{}} : \E e \in S : b[e] \notin S
  BY <1>2, BasesAssumption
<1> QED
  BY <1>2, <1>3, <1>4, PackagesAssumption

LEMMA AncestorsAre ==
  ASSUME project \in Projects, NEW e \in Entity
  PROVE  /\ Ancestors[e] \subseteq Entity
         /\ project.base[e] = None => Ancestors[e] = {}
         /\ project.base[e] # None => project.base[e] \in Ancestors[e]
         /\ \A a \in Ancestors[e] : project.base[a] # None => project.base[a] \in Ancestors[e]
<1>1. PICK b : b = project.base
  OBVIOUS
<1>2. None \notin Entity /\ \A x \in Entity : b[x] \in Entity \cup {None}
  BY <1>1, BaseIs
<1>3. Ancestors[e] = {a \in Entity : \A S \in SUBSET Entity : (\A x \in S \cup {e} : b[x] \in S \cup {None}) => a \in S}
  BY <1>1 DEF Ancestors
<1>4. ASSUME b[e] = None PROVE Ancestors[e] = {}
  <2>2. PICK Z \in SUBSET Entity : Z = {}
    OBVIOUS
  <2>3. \A x \in Z \cup {e} : b[x] \in Z \cup {None}
    BY <1>4, <2>2
  <2>4. ASSUME NEW a \in Ancestors[e] PROVE FALSE
    <3>1. (\A x \in Z \cup {e} : b[x] \in Z \cup {None}) => a \in Z
      BY <1>3
    <3> QED
      BY <2>2, <2>3, <3>1
  <2> QED
    BY <2>4
<1>5. ASSUME b[e] # None PROVE b[e] \in Ancestors[e]
  <2>1. b[e] \in Entity
    BY <1>2, <1>5
  <2>2. ASSUME NEW S \in SUBSET Entity, \A x \in S \cup {e} : b[x] \in S \cup {None} PROVE b[e] \in S
    BY <1>5, <2>2
  <2> QED
    BY <1>3, <2>1, <2>2
<1>6. ASSUME NEW a \in Ancestors[e], b[a] # None PROVE b[a] \in Ancestors[e]
  <2>1. a \in Entity /\ b[a] \in Entity
    BY <1>2, <1>3, <1>6
  <2>2. ASSUME NEW S \in SUBSET Entity, \A x \in S \cup {e} : b[x] \in S \cup {None} PROVE b[a] \in S
    <3>1. a \in S
      BY <1>3, <2>2
    <3> QED
      BY <1>6, <2>2, <3>1
  <2> QED
    BY <1>3, <2>1, <2>2
<1> QED
  BY <1>1, <1>3, <1>4, <1>5, <1>6

LEMMA AncestorsOfBase ==
  ASSUME project \in Projects, NEW e \in Entity, project.base[e] # None
  PROVE  Ancestors[e] \subseteq {project.base[e]} \cup Ancestors[project.base[e]]
<1>1. PICK b : b = project.base
  OBVIOUS
<1>2. b[e] \in Entity
  BY <1>1, BaseIs
<1>3. PICK T : T = {b[e]} \cup Ancestors[b[e]]
  OBVIOUS
<1>4. T \in SUBSET Entity
  BY <1>1, <1>2, <1>3, AncestorsAre
<1>5. ASSUME NEW x \in T \cup {e} PROVE b[x] \in T \cup {None}
  <2>1. CASE x = e
    BY <1>3, <2>1
  <2>2. CASE x = b[e]
    BY <1>1, <1>2, <1>3, <2>2, AncestorsAre
  <2>3. CASE x \in Ancestors[b[e]]
    BY <1>1, <1>2, <1>3, <2>3, AncestorsAre
  <2> QED
    BY <1>3, <1>5, <2>1, <2>2, <2>3
<1>6. Ancestors[e] = {a \in Entity : \A S \in SUBSET Entity : (\A x \in S \cup {e} : b[x] \in S \cup {None}) => a \in S}
  BY <1>1 DEF Ancestors
<1>7. \A a \in Ancestors[e] : a \in T
  BY <1>4, <1>5, <1>6
<1> QED
  BY <1>1, <1>3, <1>7

LEMMA RootIs ==
  ASSUME project \in Projects, NEW e \in Entity
  PROVE  /\ Root[e] \in Entity /\ Root[e] \in {e} \cup Ancestors[e] /\ project.base[Root[e]] = None
         /\ project.base[e] = None => Root[e] = e
<1>1. PICK b, S : b = project.base /\ S = {e} \cup Ancestors[e]
  OBVIOUS
<1>2. S \in SUBSET Entity /\ S # {}
  BY <1>1, AncestorsAre
<1>3. PICK r \in S : b[r] \notin S
  BY <1>1, <1>2, BaseIs
<1>4. b[r] = None
  BY <1>1, <1>3, AncestorsAre
<1>5. Root[e] = CHOOSE x \in S : b[x] = None
  BY <1>1 DEF Root
<1>6. Root[e] \in S /\ b[Root[e]] = None
  BY <1>3, <1>4, <1>5
<1>7. b[e] = None => S = {e}
  BY <1>1, AncestorsAre
<1> QED
  BY <1>1, <1>2, <1>6, <1>7

(* Of some types of a line, the nearest has all others for ancestors.      *)
LEMMA NearestIs ==
  ASSUME project \in Projects, NEW t \in Entity, NEW S \in SUBSET Ancestors[t], S # {}
  PROVE  \E a \in S : \A c \in S : c = a \/ c \in Ancestors[a]
<1>1. PICK b, U : b = project.base /\ U = {x \in {t} \cup Ancestors[t] : S \subseteq Ancestors[x]}
  OBVIOUS
<1>2. U \in SUBSET Entity /\ t \in U
  BY <1>1, AncestorsAre
<1>3. PICK u \in U : b[u] \notin U
  <2>1. U # {}
    BY <1>2
  <2> QED
    BY <1>1, <1>2, <2>1, BaseIs
<1>4. u \in Entity /\ u \in {t} \cup Ancestors[t] /\ S \subseteq Ancestors[u]
  BY <1>1, <1>2
<1>5. b[u] # None
  BY <1>1, <1>4, AncestorsAre
<1>6. b[u] \in Entity /\ b[u] \in Ancestors[t] /\ S \subseteq {b[u]} \cup Ancestors[b[u]]
  <2>1. b[u] \in Entity
    BY <1>1, <1>4, <1>5, BaseIs
  <2>2. b[u] \in Ancestors[t]
    BY <1>1, <1>4, <1>5, AncestorsAre
  <2> QED
    BY <1>1, <1>4, <1>5, <2>1, <2>2, AncestorsOfBase
<1>7. b[u] \in S
  BY <1>1, <1>3, <1>6
<1> QED
  BY <1>6, <1>7

LEMMA NamedIdIs ==
  ASSUME project \in Projects, NEW t \in Entity, NEW idx \in [Entity -> {"nothing", "id", "foreignKey"}]
  PROVE  /\ NamedId(t, idx) = "foreignKey" => \E x \in {t} \cup Ancestors[t] : idx[x] = "foreignKey"
         /\ NamedId(t, idx) = "nothing" => \A x \in {t} \cup Ancestors[t] : idx[x] = "nothing"
<1>1. CASE idx[t] # "nothing"
  BY <1>1 DEF NamedId
<1>2. CASE idx[t] = "nothing" /\ \A a \in Ancestors[t] : idx[a] = "nothing"
  BY <1>2 DEF NamedId
<1>3. CASE idx[t] = "nothing" /\ \E a \in Ancestors[t] : idx[a] # "nothing"
  <2>1. PICK S : S = {a \in Ancestors[t] : idx[a] # "nothing"}
    OBVIOUS
  <2>2. S \in SUBSET Ancestors[t] /\ S # {}
    BY <1>3, <2>1
  <2>3. PICK a \in S : \A c \in S : c = a \/ c \in Ancestors[a]
    BY <2>2, NearestIs
  <2>4. a \in Ancestors[t] /\ idx[a] # "nothing"
        /\ \A c \in Ancestors[t] : idx[c] # "nothing" => c = a \/ c \in Ancestors[a]
    BY <2>1, <2>3
  <2>5. PICK n : n = CHOOSE x \in Ancestors[t] :
                       /\ idx[x] # "nothing"
                       /\ \A c \in Ancestors[t] : idx[c] # "nothing" => c = x \/ c \in Ancestors[x]
    OBVIOUS
  <2>6. n \in Ancestors[t] /\ idx[n] # "nothing"
    BY <2>4, <2>5
  <2>7. NamedId(t, idx) = idx[n]
    BY <1>3, <2>5 DEF NamedId
  <2> QED
    BY <2>6, <2>7
<1> QED
  BY <1>1, <1>2, <1>3

-----------------------------------------------------------------------------
LEMMA NoCursorIs ==
  NoCursor \in Cursors /\ NoCursor.at = None /\ NoCursor.loop = 0 /\ NoCursor.rest = <<>>
<1>1. <<>> \in Seq(Entity)
  OBVIOUS
<1> QED
  BY <1>1 DEF NoCursor, Cursors

LEMMA InIs ==
  ASSUME stage \in 1..6
  PROVE  /\ In("postParsed") => stage = 1
         /\ In("beforePrepare") => stage = 2
         /\ In("prepare") => stage = 3
         /\ In("processMetas") => stage = 4
         /\ In("generate") => stage = 5
         /\ In("write") => stage = 6
BY StagesAre DEF In

LEMMA WaitingSame ==
  ASSUME DescendantInv, UNCHANGED <<project, descendants>>, Waiting' = Waiting,
         stage > 2 \/ outcome = "running"
  PROVE  DescendantInv'
<1>1. Ancestors' = Ancestors
  BY DEF Ancestors
<1>2. \A b, e \in Entity : (Listed(b, e)' <=> Listed(b, e)) /\ (Unlisted(b, e)' <=> Unlisted(b, e))
  BY DEF Listed, Unlisted
<1>3. \A b, e \in Entity : IF e \notin Waiting /\ b \in Ancestors[e] THEN Listed(b, e) ELSE Unlisted(b, e)
  BY DEF DescendantInv
<1>4. ASSUME NEW b \in Entity, NEW e \in Entity
      PROVE  IF e \notin Waiting' /\ b \in Ancestors'[e] THEN Listed(b, e)' ELSE Unlisted(b, e)'
  BY <1>1, <1>2, <1>3
<1> QED
  BY <1>4 DEF DescendantInv

(* A package that enters or is left, a stop: nothing more happens after    *)
(* one, and what waited for the first loop waits or is out of account.     *)
LEMMA StopKeeps ==
  ASSUME PipelineInv, NEW how \in {"failed", "panicked"}, Stop(how),
         UNCHANGED <<project, packages, passed, descendants>>
  PROVE  ControlInv' /\ DescendantInv'
<1> USE DEF PipelineInv, PipelineTypeOK
<1>1. ControlOK' /\ CursorInv'
  BY NoCursorIs DEF Stop, ControlOK, CursorInv
<1>2. PassedInv'
  BY DEF Stop, PassedInv, LeftBehind
<1>3. DescendantInv'
  <2>1. CASE stage <= 2
    BY <2>1 DEF Stop, DescendantInv, ControlOK
  <2>2. CASE stage > 2
    <3>1. cursor = NoCursor
      BY <2>2 DEF CursorInv
    <3>2. \A p \in Package : None # p
      BY PackagesAssumption
    <3>3. \A p \in Package : \A i \in 1..Len(Entities[p]) : ~Waits(p, i) /\ ~Waits(p, i)'
      BY <2>2, <3>1, <3>2, NoCursorIs DEF Waits, Stop
    <3>4. Waiting = {} /\ Waiting' = {}
      BY <3>3 DEF Waiting
    <3>5. DescendantInv /\ Waiting' = Waiting /\ UNCHANGED <<project, descendants>>
      BY <3>4
    <3> QED
      BY <2>2, <3>5, WaitingSame
  <2> QED
    BY <2>1, <2>2 DEF ControlOK
<1> QED
  BY <1>1, <1>2, <1>3 DEF ControlInv

LEMMA LeaveKeeps ==
  ASSUME PipelineInv, NEW p \in todo, outcome = "running", Leave(p, packages),
         <<Stages[stage], p>> \notin project.faulty,
         stage = 2 => cursor.at = p /\ cursor.loop = 2,
         UNCHANGED <<project, packages, descendants>>
  PROVE  /\ ControlInv' /\ DescendantInv' /\ FailuresExplained'
         /\ passed' = [passed EXCEPT ![p] = @ \cup {Stages[stage]}]
         /\ stage' = stage \/ stage' = stage + 1
         /\ stage = 6 => stage' = 6
         /\ outcome' = "done" => stage' = 6 /\ todo' = {}
<1> USE DEF PipelineInv, PipelineTypeOK
<1>1. /\ cursor' = NoCursor /\ outcome' \in {"running", "done"}
      /\ passed' = [passed EXCEPT ![p] = @ \cup {Stages[stage]}]
  BY DEF Leave
<1>2. \/ todo = {p} /\ stage = 6 /\ outcome' = "done" /\ todo' = {} /\ stage' = stage
      \/ todo = {p} /\ stage < 6 /\ stage' = stage + 1 /\ todo' = packages /\ outcome' = "running"
      \/ todo # {p} /\ todo' = todo \ {p} /\ stage' = stage /\ outcome' = "running"
  BY StagesAre DEF Leave, ControlOK
<1>3. p \in packages /\ p \in AllPackages
  BY DEF ControlOK, AllPackages
<1>4. passed \in [AllPackages -> SUBSET StageNames] /\ stage \in 1..6 /\ Stages[stage] \in StageNames
  BY StagesDiffer DEF ControlOK
<1>5. ControlOK' /\ CursorInv'
  <2>1. passed' \in [AllPackages -> SUBSET StageNames]
    BY <1>1, <1>3, <1>4
  <2>2. stage' \in 1..6 /\ todo' \subseteq packages
    BY <1>2, <1>4 DEF ControlOK
  <2> QED
    BY <1>1, <2>1, <2>2, NoCursorIs DEF ControlOK, CursorInv
<1>6. PassedInv'
  <2>1. ASSUME NEW z \in packages, NEW i \in 1..6, LeftBehind(z, i)'
        PROVE  Stages[i] \in passed'[z] \/ (z = Internal /\ i <= 2)
    <3>1. z \in AllPackages /\ passed[z] \subseteq passed'[z]
      BY <1>1, <1>3, <1>4 DEF ControlOK, AllPackages
    <3>2. CASE LeftBehind(z, i)
      BY <3>1, <3>2 DEF PassedInv
    <3>3. CASE ~LeftBehind(z, i)
      <4>1. i = stage
        BY <1>2, <1>4, <2>1, <3>3 DEF LeftBehind
      <4>2. z = p
        BY <1>2, <1>4, <2>1, <3>3 DEF LeftBehind
      <4> QED
        BY <1>1, <1>3, <1>4, <4>1, <4>2
    <3> QED
      BY <3>2, <3>3
  <2>2. ASSUME NEW z \in AllPackages, NEW i \in 1..6, Stages[i] \in passed'[z]
        PROVE  i <= stage' /\ <<Stages[i], z>> \notin project.faulty
    <3>1. CASE Stages[i] \in passed[z]
      <4>1. i <= stage /\ <<Stages[i], z>> \notin project.faulty
        BY <3>1 DEF PassedInv
      <4> QED
        BY <1>2, <1>4, <4>1
    <3>2. CASE Stages[i] \notin passed[z]
      <4>1. z = p /\ Stages[i] = Stages[stage]
        BY <1>1, <1>3, <1>4, <2>2, <3>2
      <4>2. i = stage
        BY <1>4, <4>1, StagesDiffer
      <4> QED
        BY <1>2, <1>4, <4>1, <4>2
    <3> QED
      BY <3>1, <3>2
  <2> QED
    BY <2>1, <2>2 DEF PassedInv
<1>7. DescendantInv'
  <2>1. \A z \in Package : None # z /\ z \in packages
    BY PackagesAssumption DEF ControlOK, AllPackages
  <2>2. stage # 2 => cursor = NoCursor
    BY DEF CursorInv
  <2>3. ASSUME NEW z \in Package, NEW i \in 1..Len(Entities[z]) PROVE Waits(z, i)' <=> Waits(z, i)
    <3>3. stage' \in 1..6 /\ cursor'.at = None /\ cursor'.loop = 0
      BY <1>1, <1>5, NoCursorIs DEF ControlOK
    <3>4. Waits(z, i)' <=> stage' = 1 \/ (stage' = 2 /\ z \in todo')
      BY <2>1, <3>3 DEF Waits
    <3>1. CASE stage = 2
      <4>1. Waits(z, i) <=> z \in todo /\ z # p
        <5>1. cursor.at = p /\ cursor.loop = 2
          BY <3>1
        <5>2. cursor.loop # 1
          BY <5>1
        <5> QED
          BY <3>1, <5>1, <5>2 DEF Waits
      <4>2. CASE stage' = 2
        BY <1>2, <2>1, <3>1, <3>4, <4>1, <4>2
      <4>3. CASE stage' # 2
        <5>1. todo = {p} /\ stage' # 1
          BY <1>2, <3>1, <4>3
        <5> QED
          BY <3>4, <4>1, <4>3, <5>1
      <4> QED
        BY <4>2, <4>3
    <3>2. CASE stage # 2
      <4>1. Waits(z, i) <=> stage = 1
        BY <2>1, <2>2, <3>2, NoCursorIs DEF Waits
      <4> QED
        BY <1>2, <1>4, <2>1, <3>2, <3>4, <4>1
    <3> QED
      BY <3>1, <3>2
  <2>4. Waiting' = Waiting
    BY <2>3 DEF Waiting
  <2>5. DescendantInv /\ UNCHANGED <<project, descendants>>
    OBVIOUS
  <2> QED
    BY <2>4, <2>5, WaitingSame
<1>8. FailuresExplained'
  BY <1>1 DEF FailuresExplained
<1> QED
  BY <1>1, <1>2, <1>5, <1>6, <1>7, <1>8 DEF ControlInv

LEMMA LinksKept ==
  ASSUME IdInv, LinksOK, UNCHANGED <<project, hasId, index, manyId, searched>>
  PROVE  IdInv' /\ LinksOK'
<1>1. Ancestors' = Ancestors /\ Root' = Root
  BY DEF Ancestors, Root
<1>2. \A e : Contested(e)' <=> Contested(e)
  BY DEF Contested
<1>3. IdsExplained'
  BY <1>1, <1>2 DEF IdInv, IdsExplained
<1> QED
  BY <1>2, <1>3 DEF IdInv, LinksOK

LEMMA StopOutput ==
  ASSUME OutputInv, NEW how \in {"failed", "panicked"}, Stop(how),
         UNCHANGED <<project, packages, passed, engine, disk>>
  PROVE  OutputInv'
BY DEF OutputInv, Stop

(* A package that left a stage before generate.                            *)
LEMMA LeaveOutput ==
  ASSUME OutputInv, ControlOK, NEW p \in AllPackages, stage < 5,
         passed' = [passed EXCEPT ![p] = @ \cup {Stages[stage]}],
         stage' = stage \/ stage' = stage + 1,
         outcome' = "done" => stage' = 6 /\ todo' = {},
         UNCHANGED <<project, packages, disk>>,
         \A z \in AllPackages : "generate" \notin passed[z] \/ engine'[z] = engine[z]
  PROVE  OutputInv'
<1>1. Stages[stage] # "generate" /\ Stages[stage] # "write" /\ stage \in 1..6
  BY StagesAre DEF ControlOK
<1>2. passed \in [AllPackages -> SUBSET StageNames]
  BY DEF ControlOK
<1>3. ASSUME NEW z \in AllPackages \ project.engineless
      PROVE  /\ "generate" \in passed'[z] => engine'[z] = "file"
             /\ "write" \in passed'[z] => <<z, "engine">> \in disk
  <2>1. passed'[z] \subseteq passed[z] \cup {Stages[stage]}
    BY <1>2
  <2>2. "generate" \in passed'[z] => "generate" \in passed[z]
    BY <1>1, <2>1
  <2>3. "write" \in passed'[z] => "write" \in passed[z]
    BY <1>1, <2>1
  <2>4. /\ "generate" \in passed[z] => engine[z] = "file"
        /\ "write" \in passed[z] => <<z, "engine">> \in disk
    BY DEF OutputInv
  <2> QED
    BY <2>2, <2>3, <2>4
<1>4. disk = {}
  BY <1>1 DEF OutputInv
<1>5. stage' = 1 => packages = Package
  BY <1>1 DEF OutputInv
<1> QED
  BY <1>3, <1>4, <1>5 DEF OutputInv

LEMMA PipelineStarts ==
  ASSUME PipelineInit
  PROVE  PipelineInv
<1> USE DEF PipelineInit, PipelineStart
<1>1. ControlOK
  BY NoCursorIs DEF ControlOK, AllPackages
<1>2. LinksOK
  <2>1. hasId \subseteq Entity
    OBVIOUS
  <2>2. index \in [Entity -> {"nothing", "id", "foreignKey"}]
    OBVIOUS
  <2> QED
    BY <2>1, <2>2 DEF LinksOK
<1>3. PipelineTypeOK
  <2>1. <<>> \in Seq(Entity)
    OBVIOUS
  <2>2. descendants \in [Entity -> Seq(Entity)]
    BY <2>1
  <2>3. engine \in [AllPackages -> {"nil", "new", "prepared", "file"}]
    BY DEF AllPackages
  <2> QED
    BY <1>1, <1>2, <2>2, <2>3 DEF PipelineTypeOK
<1>4. CursorInv /\ PassedInv /\ OutputInv
  <2>1. \A p \in AllPackages : passed[p] = {}
    BY DEF AllPackages
  <2>2. \A p \in packages, i \in 1..6 : ~LeftBehind(p, i)
    BY DEF LeftBehind
  <2> QED
    BY <2>1, <2>2 DEF CursorInv, PassedInv, OutputInv
<1>5. IdInv
  <2>1. ASSUME NEW e \in Entity
        PROVE  /\ project.id[e] \in {"named", "own"} => e \in hasId
               /\ index[e] = "nothing" => project.id[e] # "named"
               /\ index[e] = "id" => e \in hasId
               /\ index[e] = "foreignKey" => Contested(e)
    OBVIOUS
  <2>2. IdsExplained
    BY DEF IdsExplained
  <2> QED
    BY <2>1, <2>2 DEF IdInv
<1>6. DescendantInv
  <2>1. ASSUME NEW e \in Entity PROVE e \in Waiting
    <3>1. PICK p \in Package : e \in {Entities[p][i] : i \in 1..Len(Entities[p])}
      BY DEF Entity
    <3>2. PICK i \in 1..Len(Entities[p]) : e = Entities[p][i]
      BY <3>1
    <3>3. Waits(p, i)
      BY DEF Waits
    <3> QED
      BY <3>2, <3>3 DEF Waiting
  <2>2. \A b, e \in Entity : Unlisted(b, e)
    <3>1. Len(<<>>) = 0
      OBVIOUS
    <3> QED
      BY <3>1 DEF Unlisted
  <2> QED
    BY <2>1, <2>2 DEF DescendantInv
<1>7. FailuresExplained
  BY DEF FailuresExplained
<1> QED
  BY <1>3, <1>4, <1>5, <1>6, <1>7 DEF PipelineInv

LEMMA NotYet ==
  ASSUME PassedInv, ControlOK
  PROVE  \A z \in AllPackages : /\ "generate" \in passed[z] => stage >= 5
                                /\ "write" \in passed[z] => stage >= 6
<1>1. \A z \in AllPackages, i \in 1..6 : Stages[i] \in passed[z] => i <= stage
  BY DEF PassedInv
<1>2. \A z \in AllPackages : /\ Stages[5] \in passed[z] => 5 <= stage
                             /\ Stages[6] \in passed[z] => 6 <= stage
  BY <1>1
<1> QED
  BY <1>2, StagesAre DEF ControlOK

(* The stages that change a package of their own.                          *)
LEMMA OwnStages ==
  ASSUME PipelineInv, NEW p \in AllPackages,
         PostParsed(p) \/ ProcessMetas(p) \/ Prepare(p) \/ GeneratePackage(p)
  PROVE  PipelineInv'
<1> USE DEF PipelineInv, PipelineTypeOK
<1>1. /\ In("postParsed") \/ In("processMetas") \/ In("prepare") \/ In("generate")
      /\ p \in todo /\ UNCHANGED <<project, packages, links, disk>>
  BY DEF PostParsed, ProcessMetas, Prepare, GeneratePackage
<1>2. stage \in 1..6 /\ stage \notin {2, 6} /\ outcome = "running"
  BY <1>1, InIs DEF ControlOK, In
<1>3. LinksOK' /\ IdInv' /\ UNCHANGED <<project, packages, descendants, disk>>
  BY <1>1, LinksKept DEF links
<1>4. descendants' \in [Entity -> Seq(Entity)]
  BY <1>3
<1>5. CASE Faulty(p)
  <2>1. Stop("failed") /\ UNCHANGED passed
    BY <1>5 DEF PostParsed, ProcessMetas, Prepare, GeneratePackage
  <2>2. ControlInv' /\ DescendantInv'
    BY <1>3, <2>1, StopKeeps
  <2>3. engine' = engine \/ (stage = 3 /\ engine' = [engine EXCEPT ![p] = "new"])
    BY <1>2, <1>5, InIs DEF PostParsed, ProcessMetas, Prepare, GeneratePackage
  <2>4. engine' \in [AllPackages -> {"nil", "new", "prepared", "file"}]
    BY <2>3
  <2>5. OutputInv'
    <3>1. \A z \in AllPackages : "generate" \notin passed[z] \/ engine'[z] = engine[z]
      <4>1. stage = 3 => \A z \in AllPackages : "generate" \notin passed[z]
        BY NotYet
      <4> QED
        BY <2>3, <4>1
    <3> QED
      BY <1>3, <2>1, <3>1 DEF OutputInv, Stop
  <2>6. FailuresExplained'
    <3>1. outcome' = "failed" /\ project.faulty # {} /\ project' = project
      BY <1>3, <1>5, <2>1 DEF Stop, Faulty
    <3> QED
      BY <3>1 DEF FailuresExplained
  <2> QED
    BY <1>3, <1>4, <2>2, <2>4, <2>5, <2>6 DEF ControlInv
<1>6. CASE ~Faulty(p)
  <2>1. Leave(p, packages)
    BY <1>6 DEF PostParsed, ProcessMetas, Prepare, GeneratePackage
  <2>2. <<Stages[stage], p>> \notin project.faulty
    BY <1>6 DEF Faulty
  <2>3. /\ ControlInv' /\ DescendantInv' /\ FailuresExplained'
        /\ passed' = [passed EXCEPT ![p] = @ \cup {Stages[stage]}]
        /\ stage' = stage \/ stage' = stage + 1
        /\ outcome' = "done" => stage' = 6 /\ todo' = {}
    BY <1>1, <1>2, <1>3, <2>1, <2>2, LeaveKeeps
  <2>4. \/ engine' = engine /\ (stage = 5 => p \in project.engineless)
        \/ stage = 3 /\ engine' = [engine EXCEPT ![p] = "prepared"]
        \/ stage = 5 /\ engine' = [engine EXCEPT ![p] = "file"]
    BY <1>2, <1>6, InIs DEF PostParsed, ProcessMetas, Prepare, GeneratePackage
  <2>5. engine' \in [AllPackages -> {"nil", "new", "prepared", "file"}]
    BY <2>4
  <2>6. OutputInv'
    <3>1. CASE stage < 5
      <4>1. \A z \in AllPackages : "generate" \notin passed[z]
        BY <1>2, <3>1, NotYet
      <4> QED
        BY <1>3, <2>3, <3>1, <4>1, LeaveOutput
    <3>2. CASE stage = 5
      <4>1. passed \in [AllPackages -> SUBSET StageNames] /\ Stages[stage] = "generate"
        BY <3>2, StagesAre DEF ControlOK
      <4>2. \A z \in AllPackages : "write" \notin passed[z]
        BY <3>2, NotYet
      <4>3. ASSUME NEW z \in AllPackages \ project.engineless
            PROVE  "write" \notin passed'[z] /\ ("generate" \in passed'[z] => engine'[z] = "file")
        <5>1. CASE z = p
          BY <2>3, <2>4, <3>2, <4>1, <4>2, <5>1
        <5>2. CASE z # p
          <6>1. passed'[z] = passed[z] /\ engine'[z] = engine[z]
            BY <2>3, <2>4, <4>1, <5>2
          <6> QED
            BY <4>2, <6>1 DEF OutputInv
        <5> QED
          BY <5>1, <5>2
      <4>4. disk' = {} /\ stage' # 1
        BY <1>3, <2>3, <3>2 DEF OutputInv
      <4> QED
        BY <1>3, <2>3, <4>3, <4>4 DEF OutputInv
    <3> QED
      BY <1>2, <3>1, <3>2
  <2> QED
    BY <1>3, <1>4, <2>3, <2>5, <2>6 DEF ControlInv
<1> QED
  BY <1>5, <1>6

(* What a package in beforePrepare goes through.                           *)
LEMMA CursorIs ==
  ASSUME PipelineInv, cursor.loop # 0
  PROVE  /\ outcome = "running" /\ stage = 2 /\ cursor.at \in todo /\ cursor \in Cursors
         /\ cursor.at \in AllPackages /\ cursor.at \in packages
         /\ <<"beforePrepare", cursor.at>> \notin project.faulty
         /\ RestOf(EntitiesOf(cursor.at), cursor.rest)
         /\ cursor.rest \in Seq(Entity) /\ cursor.loop \in {1, 2}
<1>1. cursor # NoCursor
  BY NoCursorIs
<1>2. CursorInv /\ ControlOK
  BY DEF PipelineInv, PipelineTypeOK
<1>3. cursor.rest \in Seq(Entity) /\ cursor.loop \in {1, 2}
  BY <1>2 DEF ControlOK, Cursors
<1> QED
  BY <1>1, <1>2, <1>3 DEF CursorInv, ControlOK, AllPackages

(* A step within beforePrepare that goes on with a package.                *)
LEMMA CursorMoves ==
  ASSUME PipelineInv, outcome = "running", stage = 2, NEW p \in todo,
         <<"beforePrepare", p>> \notin project.faulty,
         NEW n \in {1, 2}, NEW rest \in Seq(Entity), RestOf(EntitiesOf(p), rest),
         cursor' = [at |-> p, loop |-> n, rest |-> rest],
         todo' = todo \/ todo' = todo \cup {Internal},
         packages' = packages \/ packages' = AllPackages,
         Internal \in todo' => Internal \in todo \/ Internal \in packages',
         UNCHANGED <<project, stage, outcome, passed, disk>>,
         \A z \in AllPackages : "generate" \notin passed[z] \/ engine'[z] = engine[z]
  PROVE  ControlInv' /\ OutputInv' /\ FailuresExplained'
<1> USE DEF PipelineInv, PipelineTypeOK
<1>1. p \in AllPackages /\ packages \subseteq packages' /\ packages' \in {Package, AllPackages}
  BY DEF ControlOK, AllPackages
<1>2. cursor' \in Cursors /\ cursor'.at = p /\ cursor'.loop = n /\ cursor'.rest = rest
  BY <1>1 DEF Cursors
<1>3. todo' \subseteq packages'
  BY <1>1 DEF ControlOK, AllPackages
<1>4. ControlOK'
  BY <1>1, <1>2, <1>3 DEF ControlOK
<1>5. CursorInv'
  <2>1. EntitiesOf(p)' = EntitiesOf(p)
    BY DEF EntitiesOf
  <2> QED
    BY <1>2, <2>1 DEF CursorInv, RestOf, EntitiesOf
<1>6. PassedInv'
  <2>1. ASSUME NEW z \in packages', NEW i \in 1..6, LeftBehind(z, i)'
        PROVE  Stages[i] \in passed'[z] \/ (z = Internal /\ i <= 2)
    <3>1. LeftBehind(z, i) /\ i <= 2
      BY <2>1 DEF LeftBehind
    <3>2. z \in packages \/ z = Internal
      BY <1>1 DEF ControlOK, AllPackages
    <3> QED
      BY <3>1, <3>2 DEF PassedInv
  <2>2. \A z \in AllPackages, i \in 1..6 :
          Stages[i] \in passed'[z] => i <= stage' /\ <<Stages[i], z>> \notin project'.faulty
    BY DEF PassedInv
  <2> QED
    BY <2>1, <2>2 DEF PassedInv
<1>7. OutputInv'
  BY DEF OutputInv
<1>8. FailuresExplained'
  BY DEF FailuresExplained
<1> QED
  BY <1>4, <1>5, <1>6, <1>7, <1>8 DEF ControlInv

LEMMA EnterKeeps ==
  ASSUME PipelineInv, NEW p \in AllPackages, EnterPackage(p)
  PROVE  PipelineInv'
<1> USE DEF PipelineInv, PipelineTypeOK
<1>1. stage = 2 /\ outcome = "running" /\ p \in todo /\ cursor = NoCursor
  BY InIs DEF EnterPackage, ControlOK, In
<1>2. UNCHANGED <<project, packages, passed, hasId, index, manyId, searched, descendants, engine, disk>>
  BY DEF EnterPackage, links
<1>3. LinksOK' /\ IdInv' /\ descendants' \in [Entity -> Seq(Entity)]
      /\ engine' \in [AllPackages -> {"nil", "new", "prepared", "file"}]
  BY <1>2, LinksKept
<1>4. CASE Faulty(p)
  <2>1. Stop("failed")
    BY <1>4 DEF EnterPackage
  <2>2. ControlInv' /\ DescendantInv'
    BY <1>2, <2>1, StopKeeps
  <2>3. OutputInv'
    BY <1>2, <2>1, StopOutput
  <2>4. FailuresExplained'
    <3>1. outcome' = "failed" /\ project.faulty # {} /\ project' = project
      BY <1>2, <1>4, <2>1 DEF Stop, Faulty
    <3> QED
      BY <3>1 DEF FailuresExplained
  <2> QED
    BY <1>3, <2>2, <2>3, <2>4 DEF ControlInv
<1>5. CASE ~Faulty(p)
  <2>1. cursor' = [at |-> p, loop |-> 1, rest |-> EntitiesOf(p)] /\ UNCHANGED <<stage, outcome, todo>>
    BY <1>5 DEF EnterPackage
  <2>2. <<"beforePrepare", p>> \notin project.faulty
    BY <1>1, <1>5, StagesAre DEF Faulty
  <2>3. EntitiesOf(p) \in Seq(Entity)
    BY PackagesAssumption DEF EntitiesOf, AllPackages
  <2>4. RestOf(EntitiesOf(p), EntitiesOf(p))
    BY <2>3 DEF RestOf
  <2>5. ControlInv' /\ OutputInv' /\ FailuresExplained'
    BY <1>1, <1>2, <2>1, <2>2, <2>3, <2>4, CursorMoves
  <2>6. DescendantInv'
    <3>1. ASSUME NEW z \in Package, NEW i \in 1..Len(Entities[z]) PROVE Waits(z, i)' <=> Waits(z, i)
      <4>1. None # z /\ z # Internal
        BY PackagesAssumption
      <4>2. Waits(z, i) <=> z \in todo
        BY <1>1, <4>1, NoCursorIs DEF Waits
      <4>3. cursor'.at = p /\ cursor'.loop = 1 /\ cursor'.rest = EntitiesOf(p)
        BY <2>1
      <4>4. CASE z = p
        <5>1. cursor'.rest = Entities[z] /\ Len(Entities[z]) \in Nat
          BY <4>1, <4>3, <4>4, PackagesAssumption DEF EntitiesOf
        <5>2. Len(Entities[z]) - Len(cursor'.rest) = 0 /\ i > 0
          BY <5>1
        <5>3. Waits(z, i)'
          BY <4>3, <4>4, <5>2 DEF Waits
        <5> QED
          BY <1>1, <4>2, <4>4, <5>3
      <4>5. CASE z # p
        BY <1>1, <2>1, <4>2, <4>3, <4>5 DEF Waits
      <4> QED
        BY <4>4, <4>5
    <3>2. Waiting' = Waiting
      BY <3>1 DEF Waiting
    <3>3. DescendantInv /\ UNCHANGED <<project, descendants>>
      BY <1>2
    <3> QED
      BY <1>1, <3>2, <3>3, WaitingSame
  <2> QED
    BY <1>3, <2>5, <2>6 DEF ControlInv
<1> QED
  BY <1>4, <1>5

LEMMA BetweenKeeps ==
  ASSUME PipelineInv, BetweenLoops
  PROVE  PipelineInv'
<1> USE DEF PipelineInv, PipelineTypeOK
<1>1. /\ cursor.loop = 1 /\ cursor.rest = <<>>
      /\ UNCHANGED <<project, packages, stage, outcome, todo, passed, hasId, index, manyId,
                     searched, descendants, engine, disk>>
  BY DEF BetweenLoops, links
<1>2. PICK p : p = cursor.at
  OBVIOUS
<1>3. cursor' = [at |-> p, loop |-> 2, rest |-> EntitiesOf(p)]
  <2>1. cursor \in Cursors
    BY <1>1, CursorIs
  <2> QED
    BY <1>2, <2>1 DEF BetweenLoops, Cursors
<1>4. /\ outcome = "running" /\ stage = 2 /\ p \in todo /\ p \in AllPackages
      /\ <<"beforePrepare", p>> \notin project.faulty
  BY <1>1, <1>2, CursorIs
<1>5. EntitiesOf(p) \in Seq(Entity)
  BY <1>4, PackagesAssumption DEF EntitiesOf, AllPackages
<1>6. RestOf(EntitiesOf(p), EntitiesOf(p))
  BY <1>5 DEF RestOf
<1>7. ControlInv' /\ OutputInv' /\ FailuresExplained'
  BY <1>1, <1>3, <1>4, <1>5, <1>6, CursorMoves
<1>8. DescendantInv'
  <2>1. ASSUME NEW z \in Package, NEW i \in 1..Len(Entities[z]) PROVE Waits(z, i)' <=> Waits(z, i)
    <3>1. Waits(z, i)' <=> z \in todo /\ z # p
      BY <1>1, <1>3, <1>4 DEF Waits
    <3>2. Len(cursor.rest) = 0 /\ Len(Entities[z]) \in Nat
      BY <1>1, PackagesAssumption
    <3>3. Waits(z, i) <=> z \in todo /\ z # p
      BY <1>2, <1>4, <3>2 DEF Waits
    <3> QED
      BY <3>1, <3>3
  <2>2. Waiting' = Waiting
    BY <2>1 DEF Waiting
  <2>3. DescendantInv /\ UNCHANGED <<project, descendants>>
    BY <1>1
  <2> QED
    BY <1>4, <2>2, <2>3, WaitingSame
<1> QED
  BY <1>1, <1>7, <1>8, LinksKept DEF ControlInv

LEMMA LeaveBeforePrepareKeeps ==
  ASSUME PipelineInv, LeaveBeforePrepare
  PROVE  PipelineInv'
<1> USE DEF PipelineInv, PipelineTypeOK
<1>1. cursor.loop = 2 /\ cursor.rest = <<>> /\ Leave(cursor.at, packages)
  BY DEF LeaveBeforePrepare
<1>2. UNCHANGED <<project, packages, hasId, index, manyId, searched, descendants, engine, disk>>
  BY DEF LeaveBeforePrepare, links
<1>3. PICK p : p = cursor.at
  OBVIOUS
<1>4. /\ outcome = "running" /\ stage = 2 /\ p \in todo /\ p \in AllPackages
      /\ <<Stages[stage], p>> \notin project.faulty
  BY <1>1, <1>3, CursorIs, StagesAre
<1>5. /\ ControlInv' /\ DescendantInv' /\ FailuresExplained'
      /\ passed' = [passed EXCEPT ![p] = @ \cup {Stages[stage]}]
      /\ stage' = stage \/ stage' = stage + 1
      /\ outcome' = "done" => stage' = 6 /\ todo' = {}
  BY <1>1, <1>2, <1>3, <1>4, LeaveKeeps
<1>6. OutputInv'
  <2>1. \A z \in AllPackages : "generate" \notin passed[z] \/ engine'[z] = engine[z]
    BY <1>2
  <2>2. stage < 5 /\ UNCHANGED <<project, packages, disk>> /\ OutputInv /\ ControlOK
    BY <1>2, <1>4
  <2> QED
    BY <1>4, <1>5, <2>1, <2>2, LeaveOutput
<1> QED
  BY <1>2, <1>5, <1>6, LinksKept DEF ControlInv

LEMMA WriteKeeps ==
  ASSUME PipelineInv, NEW p \in AllPackages, Write(p)
  PROVE  PipelineInv'
<1> USE DEF PipelineInv, PipelineTypeOK
<1>1. stage = 6 /\ outcome = "running" /\ p \in todo
  BY InIs DEF Write, ControlOK, In
<1>2. UNCHANGED <<project, packages, hasId, index, manyId, searched, descendants, engine>>
  BY DEF Write, links
<1>3. CASE Leave(p, packages) /\ disk' = disk \cup {<<p, "sources">>}
                \cup IF p \in project.engineless THEN {} ELSE {<<p, "engine">>}
  <2>1. <<Stages[stage], p>> \notin project.faulty
    <3>1. project \in ProjectShape
      BY ProjectsAssumption DEF ControlOK
    <3> QED
      BY <1>1, <3>1, StagesAre DEF ProjectShape
  <2>2. /\ ControlInv' /\ DescendantInv' /\ FailuresExplained'
        /\ passed' = [passed EXCEPT ![p] = @ \cup {Stages[stage]}]
        /\ stage' = 6
        /\ outcome' = "done" => stage' = 6 /\ todo' = {}
    BY <1>1, <1>2, <1>3, <2>1, LeaveKeeps
  <2>3. OutputInv'
    <3>1. passed \in [AllPackages -> SUBSET StageNames] /\ Stages[stage] = "write"
      BY <1>1, StagesAre DEF ControlOK
    <3>2. ASSUME NEW z \in AllPackages \ project.engineless
          PROVE  /\ "generate" \in passed'[z] => engine'[z] = "file"
                 /\ "write" \in passed'[z] => <<z, "engine">> \in disk'
      <4>1. "generate" \in passed'[z] => "generate" \in passed[z]
        BY <2>2, <3>1
      <4>2. "write" \in passed'[z] => "write" \in passed[z] \/ z = p
        BY <2>2, <3>1
      <4>3. z = p => <<z, "engine">> \in disk'
        BY <1>3
      <4>4. /\ "generate" \in passed[z] => engine[z] = "file"
            /\ "write" \in passed[z] => <<z, "engine">> \in disk
        BY DEF OutputInv
      <4> QED
        BY <1>2, <1>3, <4>1, <4>2, <4>3, <4>4
    <3> QED
      BY <1>2, <2>2, <3>2 DEF OutputInv
  <2> QED
    BY <1>2, <2>2, <2>3, LinksKept DEF ControlInv
<1>4. CASE Stop("failed") /\ UNCHANGED passed /\ disk' \in {disk, disk \cup {<<p, "sources">>}}
  <2>1. ControlInv' /\ DescendantInv'
    BY <1>2, <1>4, StopKeeps
  <2>2. OutputInv'
    <3>1. disk \subseteq disk' /\ stage' = 6 /\ outcome' = "failed"
      BY <1>1, <1>4 DEF Stop
    <3> QED
      BY <1>2, <1>4, <3>1 DEF OutputInv
  <2>3. FailuresExplained'
    <3>1. p \in packages /\ LeftBehind(p, 5)
      BY <1>1 DEF LeftBehind, ControlOK
    <3>2. Stages[5] \in passed[p]
      BY <3>1 DEF PassedInv
    <3>3. "generate" \in passed'[p] /\ p \in packages' /\ outcome' = "failed"
      BY <1>2, <1>4, <3>1, <3>2, StagesAre DEF Stop
    <3> QED
      BY <3>3 DEF FailuresExplained
  <2> QED
    BY <1>2, <2>1, <2>2, <2>3, LinksKept DEF ControlInv
<1> QED
  BY <1>3, <1>4 DEF Write

-----------------------------------------------------------------------------
(* The first loop.                                                         *)
LEMMA AppendLists ==
  ASSUME NEW s \in Seq(Entity), NEW e \in Entity
  PROVE  /\ Len(Append(s, e)) = Len(s) + 1 /\ Append(s, e)[Len(s) + 1] = e
         /\ \A i \in 1..Len(s) : Append(s, e)[i] = s[i]
  OBVIOUS

LEMMA AddDescendantLists ==
  ASSUME descendants \in [Entity -> Seq(Entity)], NEW e \in Entity, AddDescendant(e),
         \A b \in Entity : Unlisted(b, e)
  PROVE  /\ descendants' \in [Entity -> Seq(Entity)]
         /\ \A b \in Entity : IF b \in Ancestors[e] THEN Listed(b, e)' ELSE Unlisted(b, e)'
         /\ \A b, x \in Entity : x # e => /\ Listed(b, x) => Listed(b, x)'
                                          /\ Unlisted(b, x) => Unlisted(b, x)'
<1>1. PICK d : d = descendants'
  OBVIOUS
<1>2. \A b \in Entity : IF b \in Ancestors[e] THEN d[b] = Append(descendants[b], e)
                                              ELSE d[b] = descendants[b]
  BY <1>1 DEF AddDescendant
<1>3. d \in [Entity -> Seq(Entity)]
  BY <1>1 DEF AddDescendant
<1>4. ASSUME NEW b \in Entity
      PROVE  /\ IF b \in Ancestors[e] THEN Listed(b, e)' ELSE Unlisted(b, e)'
             /\ \A x \in Entity : x # e => /\ Listed(b, x) => Listed(b, x)'
                                           /\ Unlisted(b, x) => Unlisted(b, x)'
  <2>1. PICK s \in Seq(Entity) : s = descendants[b]
    OBVIOUS
  <2>2. Len(s) \in Nat /\ \A i \in 1..Len(s) : s[i] # e
    BY <2>1 DEF Unlisted
  <2>3. CASE b \in Ancestors[e]
    <3>1. PICK t, n : t = d[b] /\ n = Len(s)
      OBVIOUS
    <3>7. t = Append(s, e)
      BY <1>2, <2>1, <2>3, <3>1
    <3>8. /\ Len(t) = Len(s) + 1 /\ t[Len(s) + 1] = e
          /\ \A i \in 1..Len(s) : t[i] = s[i]
      BY <3>7, AppendLists
    <3>2. n \in Nat /\ Len(t) = n + 1 /\ t[n + 1] = e /\ \A i \in 1..n : t[i] = s[i] /\ s[i] # e
      BY <2>2, <3>1, <3>8
    <3>6. \A i \in 1..Len(t) : i \in 1..n \/ i = n + 1
      BY <3>2
    <3>3. Listed(b, e)'
      <4>1. n + 1 \in 1..Len(t) /\ \A i \in 1..Len(t) : t[i] = e <=> i = n + 1
        BY <3>2, <3>6
      <4> QED
        BY <1>1, <3>1, <4>1 DEF Listed
    <3>4. ASSUME NEW x \in Entity, x # e, Listed(b, x) PROVE Listed(b, x)'
      <4>1. PICK k \in 1..n : \A i \in 1..n : s[i] = x <=> i = k
        BY <2>1, <3>1, <3>4 DEF Listed
      <4>2. k \in 1..Len(t) /\ k # n + 1
        BY <3>2, <4>1
      <4>3. \A i \in 1..Len(t) : t[i] = x <=> i = k
        BY <3>2, <3>4, <3>6, <4>1, <4>2
      <4> QED
        BY <1>1, <3>1, <4>2, <4>3 DEF Listed
    <3>5. ASSUME NEW x \in Entity, x # e, Unlisted(b, x) PROVE Unlisted(b, x)'
      <4>1. \A i \in 1..n : s[i] # x
        BY <2>1, <3>1, <3>5 DEF Unlisted
      <4>2. \A i \in 1..Len(t) : t[i] # x
        BY <3>2, <3>5, <3>6, <4>1
      <4> QED
        BY <1>1, <3>1, <4>2 DEF Unlisted
    <3> QED
      BY <2>3, <3>3, <3>4, <3>5
  <2>4. CASE b \notin Ancestors[e]
    <3>1. descendants'[b] = descendants[b]
      BY <1>1, <1>2, <2>4
    <3> QED
      BY <2>4, <3>1 DEF Listed, Unlisted
  <2> QED
    BY <2>3, <2>4
<1> QED
  BY <1>1, <1>3, <1>4

LEMMA RestOfTail ==
  ASSUME NEW p \in AllPackages, NEW rest \in Seq(Entity), rest # <<>>, RestOf(EntitiesOf(p), rest)
  PROVE  Tail(rest) \in Seq(Entity) /\ RestOf(EntitiesOf(p), Tail(rest))
<1>0. EntitiesOf(p) \in Seq(Entity)
  BY PackagesAssumption DEF EntitiesOf, AllPackages
<1>1. PICK all \in Seq(Entity) : all = EntitiesOf(p)
  BY <1>0
<1>2. PICK n, m : n = Len(all) /\ m = Len(rest)
  OBVIOUS
<1>3. n \in Nat /\ m \in Nat /\ m > 0 /\ m <= n /\ \A i \in 1..m : rest[i] = all[n - m + i]
  BY <1>1, <1>2 DEF RestOf
<1>4. /\ Tail(rest) \in Seq(Entity) /\ Len(Tail(rest)) = m - 1
      /\ \A i \in 1..(m - 1) : Tail(rest)[i] = rest[i + 1]
  BY <1>2, <1>3
<1>5. ASSUME NEW i \in 1..(m - 1) PROVE Tail(rest)[i] = all[n - (m - 1) + i]
  <2>1. Tail(rest)[i] = rest[i + 1] /\ i + 1 \in 1..m
    BY <1>3, <1>4
  <2>2. rest[i + 1] = all[n - m + (i + 1)]
    BY <1>3, <2>1
  <2>3. n - m + (i + 1) = n - (m - 1) + i
    BY <1>3
  <2> QED
    BY <2>1, <2>2, <2>3
<1> QED
  BY <1>1, <1>2, <1>3, <1>4, <1>5 DEF RestOf

LEMMA FirstLoopKeeps ==
  ASSUME PipelineInv, FirstLoop
  PROVE  PipelineInv'
<1> USE DEF PipelineInv, PipelineTypeOK
<1>1. /\ cursor.loop = 1 /\ cursor.rest # <<>>
      /\ UNCHANGED <<project, passed, hasId, index, manyId, searched, disk>>
  BY DEF FirstLoop
<1>2. PICK p, rest, e : p = cursor.at /\ rest = cursor.rest /\ e = Head(cursor.rest)
  OBVIOUS
<1>3. /\ outcome = "running" /\ stage = 2 /\ p \in todo /\ p \in AllPackages
      /\ <<"beforePrepare", p>> \notin project.faulty
      /\ RestOf(EntitiesOf(p), rest) /\ rest \in Seq(Entity) /\ rest # <<>>
  BY <1>1, <1>2, CursorIs
<1>4. e \in Entity /\ e = rest[1] /\ Len(rest) \in Nat /\ Len(rest) > 0
  BY <1>2, <1>3
<1>5. p \in Package
  <2>1. CASE p = Internal
    <3>1. Len(EntitiesOf(p)) = 0
      BY <2>1 DEF EntitiesOf
    <3> QED
      BY <1>3, <1>4, <3>1 DEF RestOf
  <2> QED
    BY <1>3, <2>1 DEF AllPackages
<1>6. PICK j : j = Len(Entities[p]) - Len(rest) + 1
  OBVIOUS
<1>7. /\ EntitiesOf(p) = Entities[p] /\ Entities[p] \in Seq(Entity)
      /\ j \in 1..Len(Entities[p]) /\ e = Entities[p][j]
  <2>1. EntitiesOf(p) = Entities[p] /\ Entities[p] \in Seq(Entity)
    BY <1>5, PackagesAssumption DEF EntitiesOf
  <2>2. Len(Entities[p]) \in Nat /\ Len(rest) <= Len(Entities[p])
        /\ \A i \in 1..Len(rest) : rest[i] = Entities[p][Len(Entities[p]) - Len(rest) + i]
    BY <1>3, <2>1 DEF RestOf
  <2>3. rest[1] = Entities[p][Len(Entities[p]) - Len(rest) + 1]
    BY <1>4, <2>2
  <2> QED
    BY <1>4, <1>6, <2>1, <2>2, <2>3
<1>9. LinksOK' /\ IdInv'
  BY <1>1, LinksKept
<1>10. CASE project.base[e] \notin project.extendable \cup {None}
  <2>1. Stop("failed") /\ UNCHANGED <<packages, engine, descendants>>
    BY <1>2, <1>10 DEF FirstLoop
  <2>2. ControlInv' /\ DescendantInv'
    BY <1>1, <2>1, StopKeeps
  <2>3. OutputInv'
    BY <1>1, <2>1, StopOutput
  <2>4. FailuresExplained'
    <3>1. outcome' = "failed"
      BY <2>1 DEF Stop
    <3> QED
      BY <1>1, <1>4, <1>10, <3>1 DEF FailuresExplained
  <2> QED
    BY <1>9, <2>1, <2>2, <2>3, <2>4 DEF ControlInv
<1>11. CASE project.base[e] \in project.extendable \cup {None}
  <2>1. AddDescendant(e) /\ CheckAnnotations(e) /\ UNCHANGED <<stage, outcome>>
    BY <1>2, <1>11 DEF FirstLoop
  <2>2. cursor' = [at |-> p, loop |-> 1, rest |-> Tail(rest)]
    <3>1. cursor \in Cursors /\ cursor' = [cursor EXCEPT !.rest = Tail(@)]
      BY <1>1, <1>2, <1>11, CursorIs DEF FirstLoop
    <3> QED
      BY <1>1, <1>2, <3>1 DEF Cursors
  <2>3. Tail(rest) \in Seq(Entity) /\ Len(Tail(rest)) = Len(rest) - 1
    BY <1>3, <1>4
  <2>4. RestOf(EntitiesOf(p), Tail(rest))
    BY <1>3, <1>7, RestOfTail
  <2>5. /\ todo' = todo \/ todo' = todo \cup {Internal}
        /\ packages' = packages \/ packages' = AllPackages
        /\ Internal \in todo' => Internal \in todo \/ Internal \in packages'
        /\ engine' = engine \/ engine' = [engine EXCEPT ![Internal] = "new"]
    BY <2>1 DEF CheckAnnotations, ControlOK, AllPackages
  <2>6. engine' \in [AllPackages -> {"nil", "new", "prepared", "file"}]
    BY <2>5
  <2>7. \A z \in AllPackages : "generate" \notin passed[z]
    BY <1>3, NotYet
  <2>8. ControlInv' /\ OutputInv' /\ FailuresExplained'
    BY <1>1, <1>3, <2>1, <2>2, <2>3, <2>4, <2>5, <2>7, CursorMoves
  <2>9. \A z \in Package : \A i \in 1..Len(Entities[z]) : Waits(z, i)' <=> Waits(z, i) /\ ~(z = p /\ i = j)
    <3>1. ASSUME NEW z \in Package, NEW i \in 1..Len(Entities[z])
          PROVE  Waits(z, i)' <=> Waits(z, i) /\ ~(z = p /\ i = j)
      <4>1. z \in todo' <=> z \in todo
        BY <2>5, PackagesAssumption
      <4>2. CASE z = p
        <5>1. Waits(z, i) <=> i > Len(Entities[p]) - Len(rest)
          BY <1>1, <1>2, <1>3, <4>2 DEF Waits
        <5>2. Waits(z, i)' <=> i > Len(Entities[p]) - Len(Tail(rest))
          BY <1>3, <2>1, <2>2, <4>2 DEF Waits
        <5>3. Len(Entities[p]) \in Nat /\ i \in 1..Len(Entities[p])
          BY <1>7, <4>2
        <5>4. Len(Entities[p]) - Len(rest) = j - 1 /\ j \in Int
          BY <1>4, <1>6, <1>7
        <5>5. Len(Entities[p]) - Len(Tail(rest)) = j
          BY <1>4, <1>6, <1>7, <2>3
        <5>6. (Waits(z, i)' <=> i > j) /\ (Waits(z, i) <=> i > j - 1)
          BY <5>1, <5>2, <5>4, <5>5
        <5>7. i > j <=> i > j - 1 /\ i # j
          BY <5>3, <5>4
        <5> QED
          BY <4>2, <5>6, <5>7
      <4>3. CASE z # p
        <5>3. cursor.at # z /\ cursor'.at # z
          BY <1>2, <2>2, <4>3
        <5>4. stage = 2 /\ stage' = 2 /\ stage # 1 /\ stage' # 1
          BY <1>3, <2>1
        <5>1. Waits(z, i) <=> z \in todo
          BY <5>3, <5>4, Zenon DEF Waits
        <5>2. Waits(z, i)' <=> z \in todo'
          BY <5>3, <5>4, Zenon DEF Waits
        <5> QED
          BY <4>1, <4>3, <5>1, <5>2
      <4> QED
        BY <4>2, <4>3
    <3> QED
      BY <3>1
  <2>10. e \in Waiting
    <3>1. j > Len(Entities[p]) - Len(rest)
      BY <1>4, <1>6, <1>7
    <3>2. Waits(p, j)
      BY <1>1, <1>2, <3>1 DEF Waits
    <3> QED
      BY <1>4, <1>5, <1>7, <3>2 DEF Waiting
  <2>11. \A x \in Entity : x \in Waiting' <=> x \in Waiting /\ x # e
    <3>1. \A z \in Package : \A i \in 1..Len(Entities[z]) : Entities[z][i] = e <=> z = p /\ i = j
      BY <1>5, <1>7, PackagesAssumption
    <3> QED
      BY <2>9, <3>1 DEF Waiting
  <2>12. \A b, x \in Entity : IF x \notin Waiting /\ b \in Ancestors[x] THEN Listed(b, x) ELSE Unlisted(b, x)
    BY <1>3 DEF DescendantInv
  <2>13. \A b \in Entity : Unlisted(b, e)
    BY <1>4, <2>10, <2>12
  <2>14. /\ descendants' \in [Entity -> Seq(Entity)]
         /\ \A b \in Entity : IF b \in Ancestors[e] THEN Listed(b, e)' ELSE Unlisted(b, e)'
         /\ \A b, x \in Entity : x # e => /\ Listed(b, x) => Listed(b, x)'
                                          /\ Unlisted(b, x) => Unlisted(b, x)'
    BY <1>4, <2>1, <2>13, AddDescendantLists
  <2>15. DescendantInv'
    <3>1. Ancestors' = Ancestors
      BY <1>1 DEF Ancestors
    <3>2. ASSUME NEW b \in Entity, NEW x \in Entity
          PROVE  IF x \notin Waiting' /\ b \in Ancestors[x] THEN Listed(b, x)' ELSE Unlisted(b, x)'
      <4>1. CASE x = e
        BY <2>11, <2>14, <4>1
      <4>2. CASE x # e
        BY <2>11, <2>12, <2>14, <4>2
      <4> QED
        BY <4>1, <4>2
    <3> QED
      BY <3>1, <3>2 DEF DescendantInv
  <2> QED
    BY <1>9, <2>6, <2>8, <2>14, <2>15 DEF ControlInv
<1> QED
  BY <1>10, <1>11

-----------------------------------------------------------------------------
(* The second loop.                                                        *)
LEMMA ProjectIs ==
  ASSUME project \in Projects
  PROVE  /\ project.id \in [Entity -> {"named", "own", "none", "auto"}]
         /\ project.find \in [Entity -> Entity \cup {None}]
         /\ project.relations \subseteq Relations
         /\ \A r \in project.relations : r.owner \in Entity /\ r.target \in Entity
<1>1. project \in ProjectShape
  BY ProjectsAssumption
<1>2. project.relations \subseteq Relations
  BY <1>1 DEF ProjectShape
<1> QED
  BY <1>1, <1>2 DEF ProjectShape, Relations

LEMMA CheckTypeIs ==
  ASSUME project \in Projects, LinksOK, IdInv, NEW e \in Entity
  PROVE  /\ hasId \subseteq CheckType(e).ids /\ CheckType(e).ids \subseteq Entity
         /\ CheckType(e).index \in [Entity -> {"nothing", "id", "foreignKey"}]
         /\ \A x \in Entity : /\ CheckType(e).index[x] = "nothing" => index[x] = "nothing"
                              /\ CheckType(e).index[x] = "id" => x \in CheckType(e).ids
                              /\ CheckType(e).index[x] = "foreignKey" => index[x] = "foreignKey"
         /\ ~CheckType(e).ok => /\ project.id[e] = "auto" /\ project.base[e] = None
                                /\ ~project.autoOption \/ Contested(e)
         /\ project.id[e] = "auto" /\ project.base[e] = None => e \in CheckType(e).ids
<1>1. hasId \subseteq Entity /\ index \in [Entity -> {"nothing", "id", "foreignKey"}]
  BY DEF LinksOK
<1>2. \A x \in Entity : /\ index[x] = "id" => x \in hasId
                        /\ index[x] = "foreignKey" => Contested(x)
  BY DEF IdInv
<1>3. project.base[e] = None => Root[e] = e
  BY RootIs
<1>4. CASE IdField(e, hasId) \/ project.id[e] # "auto" \/ project.base[e] # None
  <2>1. CheckType(e) = [ok |-> TRUE, ids |-> hasId, index |-> index]
    BY <1>4 DEF CheckType
  <2> QED
    BY <1>1, <1>2, <1>3, <1>4, <2>1 DEF IdField
<1>5. CASE ~(IdField(e, hasId) \/ project.id[e] # "auto" \/ project.base[e] # None)
  <2>1. /\ CheckType(e).ok = (project.autoOption /\ index[e] = "nothing")
        /\ CheckType(e).ids = hasId \cup {e}
        /\ CheckType(e).index = [index EXCEPT ![e] = "id"]
    BY <1>5 DEF CheckType
  <2>2. e \notin hasId
    BY <1>3, <1>5 DEF IdField
  <2>3. index[e] # "nothing" => Contested(e)
    BY <1>1, <1>2, <2>2
  <2>4. \A x \in Entity : /\ x = e => [index EXCEPT ![e] = "id"][x] = "id"
                          /\ x # e => [index EXCEPT ![e] = "id"][x] = index[x]
    BY <1>1
  <2>5. [index EXCEPT ![e] = "id"] \in [Entity -> {"nothing", "id", "foreignKey"}]
    BY <1>1
  <2>6. ~CheckType(e).ok => ~project.autoOption \/ index[e] # "nothing"
    BY <2>1
  <2> QED
    BY <1>1, <1>2, <1>5, <2>1, <2>3, <2>4, <2>5, <2>6
<1> QED
  BY <1>4, <1>5

LEMMA SecondLoopKeeps ==
  ASSUME PipelineInv, SecondLoop
  PROVE  PipelineInv'
<1> USE DEF PipelineInv, PipelineTypeOK
<1>1. /\ cursor.loop = 2 /\ cursor.rest # <<>>
      /\ UNCHANGED <<project, packages, passed, engine, disk>>
  BY DEF SecondLoop
<1>2. PICK p, rest, e : p = cursor.at /\ rest = cursor.rest /\ e = Head(cursor.rest)
  OBVIOUS
<1>3. /\ outcome = "running" /\ stage = 2 /\ p \in todo /\ p \in AllPackages
      /\ <<"beforePrepare", p>> \notin project.faulty
      /\ RestOf(EntitiesOf(p), rest) /\ rest \in Seq(Entity) /\ rest # <<>>
  BY <1>1, <1>2, CursorIs
<1>4. e \in Entity
  BY <1>2, <1>3
<1>5. PICK ids, ind, idx, t : /\ ids = CheckType(e).ids /\ ind = CheckType(e).index
                              /\ idx = Indexed(e, ind) /\ t = project.find[e]
  OBVIOUS
<1>6. project \in Projects
  BY DEF ControlOK
<1>7. /\ hasId \subseteq ids /\ ids \subseteq Entity
      /\ ind \in [Entity -> {"nothing", "id", "foreignKey"}]
      /\ \A x \in Entity : /\ ind[x] = "nothing" => index[x] = "nothing"
                           /\ ind[x] = "id" => x \in ids
                           /\ ind[x] = "foreignKey" => index[x] = "foreignKey"
      /\ ~CheckType(e).ok => /\ project.id[e] = "auto" /\ project.base[e] = None
                             /\ ~project.autoOption \/ Contested(e)
      /\ project.id[e] = "auto" /\ project.base[e] = None => e \in ids
  BY <1>4, <1>5, <1>6, CheckTypeIs
<1>8. \A x \in Entity : idx[x] = IF Made(e, x) # {} THEN "foreignKey" ELSE ind[x]
  BY <1>5 DEF Indexed
<1>9. idx \in [Entity -> {"nothing", "id", "foreignKey"}]
  BY <1>5, <1>7 DEF Indexed
<1>10. \A x \in Entity : Made(e, x) # {} => Contested(x)
  BY DEF Made, OneToMany, Contested
<1>11. \A x \in Entity : /\ project.id[x] \in {"named", "own"} => x \in hasId
                         /\ index[x] = "nothing" => project.id[x] # "named"
                         /\ index[x] = "id" => x \in hasId
                         /\ index[x] = "foreignKey" => Contested(x)
  BY DEF IdInv
<1>12. \A x \in Entity : /\ idx[x] = "nothing" => project.id[x] # "named"
                         /\ idx[x] = "id" => x \in ids
                         /\ idx[x] = "foreignKey" => Contested(x)
  <2>1. ASSUME NEW x \in Entity
        PROVE  /\ idx[x] = "nothing" => project.id[x] # "named"
               /\ idx[x] = "id" => x \in ids
               /\ idx[x] = "foreignKey" => Contested(x)
    <3>1. CASE Made(e, x) # {}
      BY <1>8, <1>10, <3>1
    <3>2. CASE Made(e, x) = {}
      <4>1. idx[x] = ind[x]
        BY <1>8, <3>2
      <4> QED
        BY <1>7, <1>11, <4>1
    <3> QED
      BY <3>1, <3>2
  <2> QED
    BY <2>1
<1>13. \A x \in Entity : Root[x] \in Entity
  BY <1>6, RootIs
<1>14. t \in Entity \cup {None}
  BY <1>4, <1>5, <1>6, ProjectIs
<1>15. ASSUME NEW how \in {"failed", "panicked"}, Stop(how), UNCHANGED links, FailuresExplained'
       PROVE  PipelineInv'
  <2>1. UNCHANGED <<hasId, index, manyId, searched, descendants>>
    BY <1>15 DEF links
  <2>2. ControlInv' /\ DescendantInv'
    BY <1>1, <1>15, <2>1, StopKeeps
  <2>3. OutputInv'
    BY <1>1, <1>15, StopOutput
  <2> QED
    BY <1>1, <1>15, <2>1, <2>2, <2>3, LinksKept DEF ControlInv
<1>16. Root' = Root
  BY <1>1 DEF Root, Ancestors
<1>17. CASE ~CheckType(e).ok
  <2>1. Stop("failed") /\ UNCHANGED links
    BY <1>2, <1>17 DEF SecondLoop
  <2>2. FailuresExplained'
    <3>1. Contested(e)' <=> Contested(e)
      BY <1>1 DEF Contested
    <3>2. outcome' = "failed"
      BY <2>1 DEF Stop
    <3> QED
      BY <1>1, <1>4, <1>7, <1>17, <3>1, <3>2 DEF FailuresExplained
  <2> QED
    BY <1>15, <2>1, <2>2
<1>18. CASE CheckType(e).ok /\ OneToMany(e) # {} /\ ~IdField(e, ids)
  <2>1. Stop("panicked") /\ UNCHANGED links
    BY <1>2, <1>5, <1>18 DEF SecondLoop
  <2>2. Root[e] \notin ids
    BY <1>18 DEF IdField
  <2>3. project.id[Root[e]] \in {"none", "auto"}
    BY <1>4, <1>6, <1>7, <1>11, <1>13, <2>2, ProjectIs
  <2>4. Root[e] = e => project.base[e] = None
    BY <1>4, <1>6, RootIs
  <2>5. project.id[Root[e]] = "none" \/ (project.id[Root[e]] = "auto" /\ Root[e] # e)
    BY <1>7, <2>2, <2>3, <2>4
  <2>6. FailuresExplained'
    <3>1. outcome' = "panicked" /\ OneToMany(e)' = OneToMany(e)
      BY <1>1, <2>1 DEF Stop, OneToMany
    <3> QED
      BY <1>1, <1>4, <1>16, <1>18, <2>5, <3>1 DEF FailuresExplained
  <2> QED
    BY <1>15, <2>1, <2>6
<1>19. PICK asks : asks = (t # None /\ findParam[t] = None)
  OBVIOUS
<1>20. CASE /\ CheckType(e).ok /\ ~(OneToMany(e) # {} /\ ~IdField(e, ids))
            /\ asks /\ NamedId(t, idx) = "nothing"
  <2>1. Stop("failed") /\ UNCHANGED links
    BY <1>2, <1>5, <1>19, <1>20 DEF SecondLoop
  <2>2. t \in Entity /\ t # None
    BY <1>14, <1>19, <1>20
  <2>3. Root[t] \in Entity /\ idx[Root[t]] = "nothing"
    <3>1. \A x \in {t} \cup Ancestors[t] : idx[x] = "nothing"
      BY <1>6, <1>9, <1>20, <2>2, NamedIdIs
    <3> QED
      BY <1>6, <2>2, <3>1, RootIs
  <2>4. project.id[Root[t]] # "named"
    BY <1>12, <2>3
  <2>5. FailuresExplained'
    <3>1. outcome' = "failed"
      BY <2>1 DEF Stop
    <3> QED
      BY <1>1, <1>4, <1>5, <1>16, <2>2, <2>4, <3>1 DEF FailuresExplained
  <2> QED
    BY <1>15, <2>1, <2>5
<1>21. CASE /\ CheckType(e).ok /\ ~(OneToMany(e) # {} /\ ~IdField(e, ids))
            /\ ~(asks /\ NamedId(t, idx) = "nothing")
  <2>1. /\ hasId' = ids /\ index' = idx /\ manyId' = ManyIds(e, ids)
        /\ searched' = IF asks THEN [searched EXCEPT ![e] = NamedId(t, idx)] ELSE searched
        /\ cursor' = [cursor EXCEPT !.rest = Tail(@)]
        /\ UNCHANGED <<stage, outcome, todo, descendants>>
    BY <1>2, <1>5, <1>19, <1>21 DEF SecondLoop
  <2>2. cursor' = [at |-> p, loop |-> 2, rest |-> Tail(rest)]
    <3>1. cursor \in Cursors
      BY <1>1, CursorIs
    <3> QED
      BY <1>1, <1>2, <2>1, <3>1 DEF Cursors
  <2>3. Tail(rest) \in Seq(Entity) /\ RestOf(EntitiesOf(p), Tail(rest))
    BY <1>3, <1>6, RestOfTail
  <2>4. ControlInv' /\ OutputInv' /\ FailuresExplained'
    BY <1>1, <1>3, <2>1, <2>2, <2>3, CursorMoves
  <2>5. LinksOK'
    <3>1. manyId' = [r \in project'.relations |-> manyId'[r]]
      BY <1>1, <2>1 DEF ManyIds
    <3>2. searched' = [x \in Entity |-> searched'[x]]
      BY <2>1 DEF LinksOK
    <3> QED
      BY <1>7, <1>9, <2>1, <3>1, <3>2 DEF LinksOK
  <2>6. \A x : Contested(x)' <=> Contested(x)
    BY <1>1 DEF Contested
  <2>7. Ancestors' = Ancestors
    BY <1>1 DEF Ancestors
  <2>8. ASSUME NEW x \in Entity, searched'[x] = "foreignKey"
        PROVE  \E u \in {project.find[x]} \cup Ancestors[project.find[x]] : Contested(u)
    <3>1. CASE searched[x] = "foreignKey"
      BY <3>1 DEF IdInv, IdsExplained
    <3>2. CASE searched[x] # "foreignKey"
      <4>1. asks /\ x = e /\ NamedId(t, idx) = "foreignKey"
        BY <1>4, <2>1, <2>8, <3>2 DEF LinksOK
      <4>2. t \in Entity
        BY <1>14, <1>19, <4>1
      <4>3. PICK u \in {t} \cup Ancestors[t] : idx[u] = "foreignKey"
        BY <1>6, <1>9, <4>1, <4>2, NamedIdIs
      <4>4. u \in Entity
        BY <1>6, <4>2, AncestorsAre
      <4> QED
        BY <1>5, <1>12, <4>1, <4>3, <4>4
    <3> QED
      BY <3>1, <3>2
  <2>9. ASSUME NEW r \in project.relations, manyId'[r] = "nil"
        PROVE  project.id[Root[r.target]] \in {"auto", "none"}
    <3>1. CASE manyId[r] = "nil"
      BY <3>1 DEF IdInv, IdsExplained
    <3>2. CASE manyId[r] # "nil"
      <4>1. ~IdField(r.target, ids)
        BY <2>1, <2>9, <3>2 DEF ManyIds
      <4>2. r.target \in Entity
        BY <1>6, ProjectIs
      <4> QED
        BY <1>6, <1>7, <1>11, <1>13, <4>1, <4>2, ProjectIs DEF IdField
    <3> QED
      BY <3>1, <3>2
  <2>10. IdsExplained'
    BY <1>1, <1>16, <2>6, <2>7, <2>8, <2>9 DEF IdsExplained
  <2>11. IdInv'
    BY <1>1, <1>7, <1>11, <1>12, <2>1, <2>6, <2>10 DEF IdInv
  <2>12. DescendantInv'
    <3>1. \A z \in Package : \A i \in 1..Len(Entities[z]) : Waits(z, i)' <=> Waits(z, i)
      BY <1>1, <1>2, <1>3, <2>1, <2>2 DEF Waits
    <3>2. Waiting' = Waiting
      BY <3>1 DEF Waiting
    <3> QED
      BY <1>1, <1>3, <2>1, <3>2, WaitingSame
  <2> QED
    BY <1>1, <2>1, <2>4, <2>5, <2>11, <2>12 DEF ControlInv
<1> QED
  BY <1>17, <1>18, <1>20, <1>21

-----------------------------------------------------------------------------
(* Whatever the packages, their entities and the order in which the walks  *)
(* meet them, the stages leave for one another what the invariant says.    *)
THEOREM PipelineIsWellFormed == PipelineSpec => []PipelineInv
<1>1. PipelineInit => PipelineInv
  BY PipelineStarts
<1>2. PipelineInv /\ [PipelineNext]_pipelineVars => PipelineInv'
  <2> SUFFICES ASSUME PipelineInv, [PipelineNext]_pipelineVars PROVE PipelineInv'
    OBVIOUS
  <2>1. ASSUME NEW p \in Package \cup {Internal},
               PostParsed(p) \/ EnterPackage(p) \/ Prepare(p) \/ ProcessMetas(p) \/ GeneratePackage(p) \/ Write(p)
        PROVE  PipelineInv'
    BY <2>1, OwnStages, EnterKeeps, WriteKeeps DEF AllPackages
  <2>2. CASE FirstLoop
    BY <2>2, FirstLoopKeeps
  <2>3. CASE BetweenLoops
    BY <2>3, BetweenKeeps
  <2>4. CASE SecondLoop
    BY <2>4, SecondLoopKeeps
  <2>5. CASE LeaveBeforePrepare
    BY <2>5, LeaveBeforePrepareKeeps
  <2>6. CASE UNCHANGED pipelineVars
    <3>1. UNCHANGED <<project, packages, stage, outcome, todo, cursor, passed, hasId, index, manyId,
                      searched, descendants, engine, disk>>
      BY <2>6 DEF pipelineVars, links
    <3>2. LinksOK' /\ IdInv'
      BY <3>1, LinksKept DEF PipelineInv, PipelineTypeOK
    <3>3. Ancestors' = Ancestors /\ Root' = Root
      BY <3>1 DEF Ancestors, Root
    <3>4. ControlOK' /\ CursorInv' /\ PassedInv' /\ OutputInv'
      BY <3>1 DEF PipelineInv, PipelineTypeOK, ControlOK, CursorInv, PassedInv, OutputInv, LeftBehind,
                  EntitiesOf
    <3>5. DescendantInv'
      <4>1. Waiting' = Waiting
        BY <3>1 DEF Waiting, Waits
      <4>2. CASE stage > 2 \/ outcome = "running"
        BY <3>1, <4>1, <4>2, WaitingSame DEF PipelineInv
      <4>3. CASE ~(stage > 2 \/ outcome = "running")
        BY <3>1, <4>3 DEF DescendantInv
      <4> QED
        BY <4>2, <4>3
    <3>6. FailuresExplained'
      BY <3>1, <3>3 DEF PipelineInv, FailuresExplained, Contested, OneToMany
    <3> QED
      BY <3>1, <3>2, <3>4, <3>5, <3>6 DEF PipelineInv, PipelineTypeOK
  <2> QED
    BY <2>1, <2>2, <2>3, <2>4, <2>5, <2>6 DEF PipelineNext
<1> QED
  BY <1>1, <1>2, PTL DEF PipelineSpec

(* Project.Generate refuses a project, or dereferences an id that is not   *)
(* there, only for what is wrong in the project or where an automatic id   *)
(* is involved.                                                            *)
THEOREM FailuresAreExplained == PipelineSpec => []FailuresExplained
<1>1. PipelineInv => FailuresExplained
  BY DEF PipelineInv
<1> QED
  BY <1>1, PipelineIsWellFormed, PTL

(* WriteToFiles writes nothing of a project in which a plugin found an     *)
(* error, and nothing of a package a stage has left out, although the      *)
(* package of references joins the map while it is walked.                 *)
THEOREM WrittenIsAlwaysComplete == PipelineSpec => []WrittenIsComplete
<1>1. ASSUME PipelineInv PROVE WrittenIsComplete
  <2> USE <1>1 DEF PipelineInv, PipelineTypeOK
  <2>1. packages \subseteq AllPackages /\ Package \subseteq packages /\ Internal \notin Package
    BY PackagesAssumption DEF ControlOK, AllPackages
  <2>2. ASSUME disk # {}, NEW p \in packages, NEW i \in 1..5
        PROVE  Stages[i] \in passed[p] \/ (p = Internal /\ i <= 2)
    <3>1. LeftBehind(p, i)
      BY <2>2 DEF LeftBehind, OutputInv
    <3> QED
      BY <3>1 DEF PassedInv
  <2>3. ASSUME disk # {}, NEW p \in packages
        PROVE  /\ {"prepare", "processMetas", "generate"} \subseteq passed[p]
               /\ p # Internal => {"postParsed", "beforePrepare"} \subseteq passed[p]
    <3>1. Stages[3] \in passed[p] /\ Stages[4] \in passed[p] /\ Stages[5] \in passed[p]
      BY <2>2, <2>3
    <3>2. p # Internal => Stages[1] \in passed[p] /\ Stages[2] \in passed[p]
      BY <2>2, <2>3
    <3> QED
      BY <3>1, <3>2, StagesAre
  <2>4. ASSUME disk # {}, NEW f \in project.faulty PROVE f[2] = Internal
    <3>1. f \in {"postParsed", "beforePrepare", "prepare", "processMetas", "generate"} \X AllPackages
      BY ProjectsAssumption DEF ControlOK, ProjectShape, AllPackages
    <3>2. PICK s \in {"postParsed", "beforePrepare", "prepare", "processMetas", "generate"}, z \in AllPackages :
            f = <<s, z>>
      BY <3>1
    <3>3. PICK i \in 1..5 : s = Stages[i]
      BY <3>2, StagesAre
    <3>4. CASE z \in Package
      <4>1. Stages[i] \in passed[z]
        BY <2>1, <2>2, <2>4, <3>4
      <4>2. <<Stages[i], z>> \notin project.faulty
        <5>1. \A k \in 1..6 : Stages[k] \in passed[z] => <<Stages[k], z>> \notin project.faulty
          BY <3>2 DEF PassedInv
        <5>2. i \in 1..6
          OBVIOUS
        <5> QED
          BY <4>1, <5>1, <5>2
      <4> QED
        BY <2>4, <3>2, <3>3, <4>2
    <3> QED
      BY <3>2, <3>4 DEF AllPackages
  <2>5. ASSUME outcome = "done", NEW p \in packages \ project.engineless
        PROVE  <<p, "engine">> \in disk /\ engine[p] = "file"
    <3>1. LeftBehind(p, 5) /\ LeftBehind(p, 6) /\ p \in AllPackages
      BY <2>1, <2>5 DEF LeftBehind, OutputInv
    <3>2. Stages[5] \in passed[p] /\ Stages[6] \in passed[p]
      BY <2>5, <3>1 DEF PassedInv
    <3> QED
      BY <2>5, <3>1, <3>2, StagesAre DEF OutputInv
  <2> QED
    BY <2>3, <2>4, <2>5 DEF WrittenIsComplete
<1> QED
  BY <1>1, PipelineIsWellFormed, PTL

(* beforePrepare: what a find type or a reference knows as its target's id *)
(* is that, with the exceptions named; every type knows each of its        *)
(* descendants once, in whatever order packages and files came.            *)
THEOREM LinksAreExplained == PipelineSpec => []LinksExplained
<1>1. ASSUME PipelineInv PROVE LinksExplained
  <2> USE <1>1 DEF PipelineInv, PipelineTypeOK
  <2>1. IdsExplained
    BY DEF IdInv
  <2>2. ASSUME stage > 2, NEW b \in Entity, NEW e \in Entity
        PROVE  Cardinality({i \in 1..Len(descendants[b]) : descendants[b][i] = e})
                 = IF b \in Ancestors[e] THEN 1 ELSE 0
    <3>1. cursor.at = None
      <4>1. cursor = NoCursor
        BY <2>2 DEF CursorInv
      <4> QED
        BY <4>1, NoCursorIs
    <3>2. \A z \in Package : \A i \in 1..Len(Entities[z]) : ~Waits(z, i)
      <4>1. stage # 1 /\ stage # 2 /\ \A z \in Package : cursor.at # z
        BY <2>2, <3>1, PackagesAssumption
      <4> QED
        BY <4>1, Zenon DEF Waits
    <3>3. e \notin Waiting
      BY <3>2 DEF Waiting
    <3>4. PICK I : I = {i \in 1..Len(descendants[b]) : descendants[b][i] = e}
      OBVIOUS
    <3>5. CASE b \in Ancestors[e]
      <4>1. Listed(b, e)
        BY <2>2, <3>3, <3>5 DEF DescendantInv
      <4>2. PICK k \in 1..Len(descendants[b]) :
              \A i \in 1..Len(descendants[b]) : descendants[b][i] = e <=> i = k
        BY <4>1 DEF Listed
      <4>3. I = {k}
        BY <3>4, <4>2
      <4> QED
        BY <3>4, <3>5, <4>3, FS_Singleton
    <3>6. CASE b \notin Ancestors[e]
      <4>1. Unlisted(b, e)
        BY <2>2, <3>3, <3>6 DEF DescendantInv
      <4>2. I = {}
        BY <3>4, <4>1 DEF Unlisted
      <4> QED
        BY <3>4, <3>6, <4>2, FS_EmptySet
    <3> QED
      BY <3>5, <3>6
  <2> QED
    BY <2>1, <2>2 DEF LinksExplained, DescendantsOnce
<1> QED
  BY <1>1, PipelineIsWellFormed, PTL

-----------------------------------------------------------------------------
(***************************************************************************)
(* Generated queries.  While a filter is built, each condition of it       *)
(* stands for a filled parameter, and each filled parameter whose place no *)
(* other took has its condition in it (FilterInv).  A condition is met by  *)
(* the values its parameter asks for, so the two directions are that       *)
(* nothing is missed and that nothing else is found.                       *)
(***************************************************************************)
Condition(p) ==
  IF p.type = "array" THEN <<"$in", p.values>>
  ELSE IF p.type = "embedded" THEN <<"$eq", Value(p)>>
  ELSE IF p.op = "ignore" THEN <<"$exists", FALSE>>
  ELSE Translated(p)

(* A parameter that leaves a document of operators where it is alone.      *)
Joins(p) == p.type = "one" /\ p.op \notin {"eq", "ignore"}
Silent(p) == p.type = "one" /\ p.op = "ignore" /\ p.yes

Entries(p) == {<<p.field, IsValue(v)>> : v \in p.values}

Present(p) ==
  IF p.type = "map" THEN Entries(p) \in and
  ELSE Silent(p) \/ (Condition(p) \in q[p.field].ops /\ (Joins(p) => q[p.field].document))

AskedInv ==
  /\ asked \in Seq(Params)
  /\ \A i \in 1..Len(asked) : /\ asked[i].type = "one" => asked[i].field \in registered
                              /\ asked[i].op = "ignore" => asked[i].field = Deleted
  /\ \A i, k \in 1..Len(asked) : asked[i].field = Deleted /\ asked[k].field = Deleted => i = k

(* Where a condition comes from.                                           *)
StandsFor(f, o) ==
  \/ \E i \in Filled : /\ asked[i].field = f /\ asked[i].type # "map" /\ ~Silent(asked[i])
                       /\ o = Condition(asked[i])
  \/ /\ f = Deleted /\ o = <<"$exists", FALSE>>
     /\ \A i \in Filled : asked[i].field # Deleted

FilterInv ==
  /\ q = [f \in Field \cup {Deleted, Kind} |-> q[f]]
  /\ \A f \in Field \cup {Deleted} : \A o \in q[f].ops : StandsFor(f, o)
  /\ \A a \in and : \E i \in Filled : asked[i].type = "map" /\ a = Entries(asked[i])
  /\ \A i \in Filled : (\A k \in Filled : ~Replaces(k, i)) => Present(asked[i])
  /\ q[Kind] = NoCondition
  /\ ~DeletedFound => q[Deleted] = NoCondition
  /\ DeletedFound /\ (\A i \in Filled : asked[i].field # Deleted) =>
       <<"$exists", FALSE>> \in q[Deleted].ops

QueryInv ==
  /\ answered = "no" => AskedInv /\ FilterInv /\ (asked = <<>> => and = {})
  /\ QueriesAnswered

LEMMA ParamIs ==
  ASSUME NEW p \in Params
  PROVE  /\ p.field \in Field \cup {Deleted} /\ p.field # Kind
         /\ p.op \in Comparisons \cup Flags /\ p.type \in {"one", "array", "map", "embedded"}
         /\ p.filled \in BOOLEAN /\ p.yes \in BOOLEAN
         /\ p.field = Deleted => p.type # "map"
         /\ p.filled /\ p.type = "embedded" => p.values = {Value(p)}
<1>1. p \in ParamShape
  BY ParamsAssumption
<1>2. p.filled /\ p.type = "embedded" => \E w : p.values = {w}
  BY ParamsAssumption
<1>3. p.field = Deleted => p.type # "map"
  BY ParamsAssumption
<1>4. ASSUME NEW w, p.values = {w} PROVE Value(p) = w
  BY <1>4 DEF Value
<1> QED
  BY <1>1, <1>2, <1>3, <1>4, FieldsAssumption DEF ParamShape

(* A condition is met by the values its parameter asks for.                *)
LEMMA ConditionMeans ==
  ASSUME NEW p \in Params, p.filled, ~Misread(p), p.type # "map", ~Silent(p), NEW v
  PROVE  Asks(p, v) <=> Meets(Condition(p), v)
<1>1. CASE p.type = "array"
  BY <1>1 DEF Condition, Asks, Meets
<1>2. CASE p.type = "embedded"
  <2>1. p.values = {Value(p)}
    BY <1>2, ParamIs
  <2> QED
    BY <1>2, <2>1 DEF Condition, Asks, Meets
<1>3. CASE p.type = "one" /\ p.op = "ignore"
  BY <1>3, ParamIs DEF Condition, Asks, Meets, Silent
<1>4. CASE p.type = "one" /\ p.op \in {"eq", "ne", "gt", "gte", "lt", "lte"}
  BY <1>4 DEF Condition, Asks, Meets, Translated
<1>5. CASE p.type = "one" /\ p.op \in {"starts-with", "contains"}
  <2>1. PICK w : w = Value(p) /\ w \in Verbatim
    BY <1>5 DEF Misread, Searches
  <2>2. PICK x : x = <<v, w>>
    OBVIOUS
  <2>a. x[2] = w
    BY <2>2
  <2>3. /\ x \in Matched["starts-with"] <=> x \in Prefix
        /\ x \in Matched["contains"] <=> x \in Infix
    BY <2>1, <2>a, VerbatimAssumption
  <2>4. Condition(p) = <<"$regex", <<p.op, w>>>>
    BY <1>5, <2>1 DEF Condition, Translated
  <2>5. Meets(Condition(p), v) <=> x \in Matched[p.op]
    BY <2>2, <2>4 DEF Meets
  <2>6. Asks(p, v) <=> IF p.op = "starts-with" THEN x \in Prefix ELSE x \in Infix
    BY <1>5, <2>1, <2>2 DEF Asks
  <2> QED
    BY <1>5, <2>3, <2>5, <2>6
<1>6. CASE p.type = "one" /\ p.op \in {"is-null", "is-not-null", "exists"}
  BY <1>6, ParamIs DEF Condition, Asks, Meets, Translated
<1> QED
  BY <1>1, <1>2, <1>3, <1>4, <1>5, <1>6, ParamIs DEF Comparisons, Flags, Misread

(* What a parameter's turn makes of the filter.                            *)
LEMMA FilterIs ==
  ASSUME FilterInv, NEW p \in Params, p.op = "ignore" => p.field = Deleted, Filter(p)
  PROVE  /\ q' = [f \in Field \cup {Deleted, Kind} |-> q'[f]]
         /\ \A f \in Field \cup {Deleted, Kind} : f # p.field => q'[f] = q[f]
         /\ p.filled /\ p.type # "map" /\ ~Silent(p) =>
              /\ Condition(p) \in q'[p.field].ops
              /\ q'[p.field].ops \subseteq q[p.field].ops \cup {Condition(p)}
              /\ Joins(p) => q'[p.field].document
         /\ (p.filled /\ (p.type = "map" \/ Silent(p))) \/ (~p.filled /\ p.field # Deleted) => q' = q
         /\ ~p.filled /\ p.field = Deleted => q'[Deleted] = NotDeleted
         /\ and' = IF p.filled /\ p.type = "map" THEN {Entries(p)} ELSE and
         /\ p.filled /\ p.type = "one" /\ p.op # "ignore" /\ p.field \in registered /\ q[p.field].document =>
              /\ q'[p.field].document
              /\ \A o \in q[p.field].ops : o[1] # Translated(p)[1] => o \in q'[p.field].ops
<1>1. PICK D : D = Field \cup {Deleted, Kind}
  OBVIOUS
<1>2. q = [f \in D |-> q[f]] /\ p.field \in D /\ Deleted \in D
  BY <1>1, ParamIs DEF FilterInv
<1>3. /\ p.op \in Comparisons \cup Flags /\ p.type \in {"one", "array", "map", "embedded"}
      /\ p.filled \in BOOLEAN /\ p.yes \in BOOLEAN
  BY ParamIs
<1>4. CASE ~p.filled
  BY <1>1, <1>2, <1>4 DEF Filter, Silent
<1>5. CASE p.filled /\ p.type = "map"
  BY <1>1, <1>2, <1>5 DEF Filter, Silent, Entries
<1>6. CASE p.filled /\ p.type = "array"
  <2>1. and' = and /\ q' = [q EXCEPT ![p.field] = Operators({<<"$in", p.values>>})]
    BY <1>6 DEF Filter
  <2> QED
    BY <1>1, <1>2, <1>6, <2>1 DEF Silent, Condition, Joins, Operators
<1>7. CASE p.filled /\ p.type = "embedded"
  <2>1. and' = and /\ q' = [q EXCEPT ![p.field] = IsValue(Value(p))]
    BY <1>7 DEF Filter
  <2> QED
    BY <1>1, <1>2, <1>7, <2>1 DEF Silent, Condition, Joins, IsValue
<1>8. CASE p.filled /\ p.type = "one" /\ p.op = "ignore"
  <2>1. and' = and /\ q' = IF p.yes THEN q ELSE [q EXCEPT ![Deleted] = NotDeleted]
    BY <1>8 DEF Filter
  <2> QED
    BY <1>1, <1>2, <1>3, <1>8, <2>1 DEF Silent, Condition, Joins, NotDeleted, Operators
<1>9. CASE p.filled /\ p.type = "one" /\ p.op # "ignore"
  <2>1. and' = and /\ q' = [q EXCEPT ![p.field] = WithOne(p, @)]
    BY <1>9 DEF Filter
  <2>2. PICK w : w = WithOne(p, q[p.field])
    OBVIOUS
  <2>3. q' = [q EXCEPT ![p.field] = w]
    BY <2>1, <2>2
  <2>4. Condition(p) = Translated(p) /\ ~Silent(p)
    BY <1>9 DEF Condition, Silent
  <2>5. p.op = "eq" => Translated(p) = <<"$eq", Value(p)>>
    BY DEF Translated
  <2>6. /\ Translated(p) \in w.ops /\ w.ops \subseteq q[p.field].ops \cup {Translated(p)}
        /\ Joins(p) => w.document
        /\ p.field \in registered /\ q[p.field].document =>
             w.document /\ \A o \in q[p.field].ops : o[1] # Translated(p)[1] => o \in w.ops
    BY <1>9, <2>2, <2>5 DEF WithOne, Operators, IsValue, Joins
  <2> QED
    BY <1>1, <1>2, <1>9, <2>1, <2>3, <2>4, <2>6
<1> QED
  BY <1>3, <1>4, <1>5, <1>6, <1>7, <1>8, <1>9

LEMMA AddParamKeeps ==
  ASSUME QueryInv, NEW p \in Params, AddParam(p)
  PROVE  QueryInv'
<1>1. /\ answered = "no" /\ answered' = "no" /\ AskedInv /\ FilterInv
      /\ Filter(p) /\ Allowed(p) /\ asked' = Append(asked, p)
      /\ registered' = IF p.type = "one" THEN registered \cup {p.field} ELSE registered
  BY DEF AddParam, QueryInv
<1>2. PICK s, n, t : s = asked /\ n = Len(asked) + 1 /\ t = asked'
  OBVIOUS
<1>3. /\ s \in Seq(Params) /\ n \in Nat /\ n = Len(s) + 1 /\ t \in Seq(Params) /\ Len(t) = n
      /\ t[n] = p /\ \A i \in 1..Len(s) : t[i] = s[i]
  BY <1>1, <1>2 DEF AskedInv
<1>4. \A i \in 1..n : i \in 1..Len(s) \/ i = n
  BY <1>3
<1>5. \A i \in 1..Len(s) : i \in 1..n /\ i # n /\ i < n
  BY <1>3
<1>6. PICK F, E : F = Filled /\ E = Filled'
  OBVIOUS
<1>7. /\ \A i \in F : i \in 1..Len(s) /\ s[i] \in Params /\ s[i].filled
      /\ \A i \in 1..Len(s) : i \in E <=> i \in F
      /\ n \in E <=> p.filled
      /\ \A i \in E : i \in F \/ (i = n /\ p.filled)
      /\ \A i \in F : i \in E /\ t[i] = s[i]
  BY <1>2, <1>3, <1>4, <1>5, <1>6 DEF Filled
<1>8. /\ p.op = "ignore" => p.field = Deleted
      /\ p.field = Deleted => \A i \in 1..Len(s) : s[i].field # Deleted
  BY <1>1, <1>2 DEF Allowed, DeletedFound
<1>9. AskedInv'
  <2>1. \A i \in 1..Len(s) : /\ s[i].type = "one" => s[i].field \in registered
                             /\ s[i].op = "ignore" => s[i].field = Deleted
    BY <1>1, <1>2 DEF AskedInv
  <2>2. \A i, k \in 1..Len(s) : s[i].field = Deleted /\ s[k].field = Deleted => i = k
    BY <1>1, <1>2 DEF AskedInv
  <2>3. \A i \in 1..n : /\ t[i].type = "one" => t[i].field \in registered'
                        /\ t[i].op = "ignore" => t[i].field = Deleted
    BY <1>1, <1>3, <1>4, <1>8, <2>1
  <2>4. ASSUME NEW i \in 1..n, NEW k \in 1..n, t[i].field = Deleted, t[k].field = Deleted PROVE i = k
    BY <1>3, <1>4, <1>8, <2>2, <2>4
  <2> QED
    BY <1>2, <1>3, <2>3, <2>4 DEF AskedInv
<1>10. PICK a, b, c, d : a = q /\ b = q' /\ c = and /\ d = and'
  OBVIOUS
<1>11. /\ b = [f \in Field \cup {Deleted, Kind} |-> b[f]]
       /\ \A f \in Field \cup {Deleted, Kind} : f # p.field => b[f] = a[f]
       /\ p.filled /\ p.type # "map" /\ ~Silent(p) =>
            /\ Condition(p) \in b[p.field].ops
            /\ b[p.field].ops \subseteq a[p.field].ops \cup {Condition(p)}
            /\ Joins(p) => b[p.field].document
       /\ (p.filled /\ (p.type = "map" \/ Silent(p))) \/ (~p.filled /\ p.field # Deleted) => b = a
       /\ ~p.filled /\ p.field = Deleted => b[Deleted] = NotDeleted
       /\ d = IF p.filled /\ p.type = "map" THEN {Entries(p)} ELSE c
       /\ p.filled /\ p.type = "one" /\ p.op # "ignore" /\ p.field \in registered /\ a[p.field].document =>
            /\ b[p.field].document
            /\ \A o \in a[p.field].ops : o[1] # Translated(p)[1] => o \in b[p.field].ops
  BY <1>1, <1>8, <1>10, FilterIs
<1>12. /\ p.field \in Field \cup {Deleted} /\ p.field # Kind /\ p.field \in Field \cup {Deleted, Kind}
       /\ p.filled \in BOOLEAN /\ (p.field = Deleted => p.type # "map")
  BY ParamIs
<1>a. NotDeleted.ops = {<<"$exists", FALSE>>}
  BY DEF NotDeleted, Operators
<1>13. ASSUME NEW f \in Field \cup {Deleted}, NEW o \in b[f].ops PROVE StandsFor(f, o)'
  <2>1. CASE o \in a[f].ops
    <3>1. StandsFor(f, o)
      BY <1>1, <1>10, <2>1 DEF FilterInv
    <3>2. CASE \E i \in F : s[i].field = f /\ s[i].type # "map" /\ ~Silent(s[i]) /\ o = Condition(s[i])
      <4>1. \E i \in E : t[i].field = f /\ t[i].type # "map" /\ ~Silent(t[i]) /\ o = Condition(t[i])
        BY <1>7, <3>2
      <4> QED
        BY <1>2, <1>6, <4>1 DEF StandsFor, Silent, Condition, Value, Translated
    <3>3. CASE f = Deleted /\ o = <<"$exists", FALSE>> /\ \A i \in F : s[i].field # Deleted
      <4>1. p.field # Deleted
        <5>1. a[Deleted] = NoCondition \/ \E i \in 1..Len(s) : s[i].field = Deleted
          BY <1>1, <1>2, <1>10 DEF FilterInv, DeletedFound
        <5>2. a[Deleted] # NoCondition
          BY <2>1, <3>3 DEF NoCondition
        <5> QED
          BY <1>8, <5>1, <5>2
      <4>2. \A i \in E : t[i].field # Deleted
        BY <1>3, <1>7, <3>3, <4>1
      <4> QED
        BY <1>2, <1>6, <3>3, <4>2 DEF StandsFor
    <3> QED
      BY <1>2, <1>6, <3>1, <3>2, <3>3 DEF StandsFor
  <2>2. CASE o \notin a[f].ops
    <3>1. f = p.field
      BY <1>11, <2>2
    <3>2. CASE p.filled /\ p.type # "map" /\ ~Silent(p)
      <4>1. n \in E /\ t[n] = p /\ o = Condition(p)
        BY <1>3, <1>7, <1>11, <2>2, <3>1, <3>2
      <4>2. \E i \in E : t[i].field = f /\ t[i].type # "map" /\ ~Silent(t[i]) /\ o = Condition(t[i])
        BY <3>1, <3>2, <4>1
      <4> QED
        BY <1>2, <1>6, <4>2 DEF StandsFor, Silent, Condition, Value, Translated
    <3>3. CASE ~p.filled /\ p.field = Deleted
      <4>1. o = <<"$exists", FALSE>>
        <5>1. b[f] = NotDeleted
          BY <1>11, <3>1, <3>3
        <5> QED
          BY <1>a, <5>1
      <4>2. \A i \in E : t[i].field # Deleted
        BY <1>7, <1>8, <3>3
      <4> QED
        BY <1>2, <1>6, <3>1, <3>3, <4>1, <4>2 DEF StandsFor
    <3> QED
      BY <1>11, <1>12, <2>2, <3>2, <3>3
  <2> QED
    BY <2>1, <2>2
<1>14. \A e \in d : \E i \in E : t[i].type = "map" /\ e = Entries(t[i])
  <2>1. \A e \in c : \E i \in F : s[i].type = "map" /\ e = Entries(s[i])
    BY <1>1, <1>2, <1>6, <1>10 DEF FilterInv
  <2> QED
    BY <1>3, <1>7, <1>11, <2>1
<1>15. ASSUME NEW i \in E, \A k \in E : ~Replaces(k, i)' PROVE Present(t[i])'
  <2>1. CASE i = n
    <3>1. t[i] = p /\ p.filled
      BY <1>3, <1>7, <2>1
    <3>2. Present(p)' <=>
            IF p.type = "map" THEN Entries(p) \in d
            ELSE Silent(p) \/ (Condition(p) \in b[p.field].ops /\ (Joins(p) => b[p.field].document))
      <4>1. /\ Silent(p)' = Silent(p) /\ Condition(p)' = Condition(p) /\ Joins(p)' = Joins(p)
            /\ Entries(p)' = Entries(p)
        BY DEF Silent, Condition, Joins, Value, Translated, Entries, IsValue
      <4> QED
        BY <1>10, <4>1 DEF Present
    <3>3. p.type = "map" => Entries(p) \in d
      BY <1>11, <3>1
    <3> QED
      BY <1>11, <1>12, <3>1, <3>2, <3>3
  <2>2. CASE i \in F
    <3>1. PICK r \in Params : r = s[i]
      BY <1>7, <2>2
    <3>2. t[i] = r /\ r.filled /\ i \in 1..Len(s)
      BY <1>7, <2>2, <3>1
    <3>3. \A k \in F : ~Replaces(k, i)
      <4>1. ASSUME NEW k \in F PROVE Replaces(k, i)' <=> Replaces(k, i)
        <5>1. t[k] = s[k] /\ t[i] = s[i]
          BY <1>7, <2>2
        <5> QED
          BY <1>2, <5>1 DEF Replaces, Translated, Value
      <4> QED
        BY <1>7, <1>15, <4>1
    <3>4. IF r.type = "map" THEN Entries(r) \in c
          ELSE Silent(r) \/ (Condition(r) \in a[r.field].ops /\ (Joins(r) => a[r.field].document))
      BY <1>1, <1>2, <1>6, <1>10, <2>2, <3>1, <3>3 DEF FilterInv, Present
    <3>5. p.filled =>
            /\ ~(r.type = "map" /\ p.type = "map")
            /\ r.field = p.field => /\ r.type = "one" /\ p.type = "one" /\ r.op # "eq"
                                    /\ Translated(r)[1] # Translated(p)[1]
      <4>1. p.filled => ~Replaces(n, i)'
        BY <1>7, <1>15
      <4>2. i < n /\ t[n] = p /\ t[i] = r
        BY <1>3, <1>5, <3>2
      <4>3. Replaces(n, i)' <=>
              /\ i < n
              /\ \/ t[i].type = "map" /\ t[n].type = "map"
                 \/ /\ t[i].field = t[n].field
                    /\ \/ t[i].type # "one" \/ t[n].type # "one"
                       \/ t[i].op = "eq"
                       \/ /\ t[i].type = "one" /\ t[n].type = "one"
                          /\ Translated(t[i])[1] = Translated(t[n])[1]
        <5>1. Translated(t[i])' = Translated(t[i]) /\ Translated(t[n])' = Translated(t[n])
          BY DEF Translated, Value
        <5> QED
          BY <1>2, <5>1, Zenon DEF Replaces
      <4> QED
        BY <4>1, <4>2, <4>3
    <3>6. r.type = "one" => r.field \in registered
      BY <1>1, <1>2, <3>1, <3>2 DEF AskedInv
    <3>7. r.field = Deleted => p.field # Deleted
      BY <1>8, <3>1, <3>2
    <3>8. r.op = "ignore" => r.field = Deleted
      BY <1>1, <1>2, <3>1, <3>2 DEF AskedInv
    <3>9. r.field \in Field \cup {Deleted, Kind}
      BY ParamIs
    <3>10. IF r.type = "map" THEN Entries(r) \in d
           ELSE Silent(r) \/ (Condition(r) \in b[r.field].ops /\ (Joins(r) => b[r.field].document))
      <4>1. CASE r.type = "map"
        BY <1>11, <3>4, <3>5, <4>1
      <4>2. CASE r.type # "map" /\ (r.field # p.field \/ b = a)
        BY <1>11, <3>4, <3>9, <4>2
      <4>3. CASE r.type # "map" /\ r.field = p.field /\ b # a
        <5>1. p.filled /\ p.type # "map" /\ ~Silent(p) /\ p.field # Deleted
          BY <1>11, <1>12, <3>7, <4>3
        <5>2. r.type = "one" /\ p.type = "one" /\ r.op # "eq" /\ Translated(r)[1] # Translated(p)[1]
          BY <3>5, <4>3, <5>1
        <5>3. r.op # "ignore" /\ p.op # "ignore" /\ p.field \in registered
          BY <1>8, <3>6, <3>8, <4>3, <5>1, <5>2
        <5>4. Condition(r) = Translated(r) /\ Joins(r) /\ ~Silent(r)
          BY <5>2, <5>3 DEF Condition, Joins, Silent
        <5>5. Condition(r) \in a[p.field].ops /\ a[p.field].document
          BY <3>4, <4>3, <5>4
        <5> QED
          BY <1>11, <4>3, <5>1, <5>2, <5>3, <5>4, <5>5
      <4> QED
        BY <4>1, <4>2, <4>3
    <3>11. Present(t[i])' <=>
             IF t[i].type = "map" THEN Entries(t[i]) \in d
             ELSE \/ Silent(t[i])
                  \/ /\ Condition(t[i]) \in b[t[i].field].ops
                     /\ Joins(t[i]) => b[t[i].field].document
      <4>1. /\ t[i]' = t[i] /\ Value(t[i])' = Value(t[i]) /\ Silent(t[i])' = Silent(t[i])
            /\ Condition(t[i])' = Condition(t[i]) /\ Joins(t[i])' = Joins(t[i])
            /\ Entries(t[i])' = Entries(t[i])
        BY DEF Silent, Condition, Joins, Value, Translated, Entries, IsValue
      <4> QED
        BY <1>10, <4>1 DEF Present
    <3> QED
      BY <3>2, <3>10, <3>11
  <2> QED
    BY <1>7, <2>1, <2>2
<1>16. b[Kind] = NoCondition
  BY <1>1, <1>10, <1>11, <1>12 DEF FilterInv
<1>17. ~DeletedFound' => b[Deleted] = NoCondition
  <2>1. ASSUME ~DeletedFound' PROVE p.field # Deleted /\ ~DeletedFound
    <3>1. \A i \in 1..n : t[i].field # Deleted
      BY <1>2, <1>3, <2>1 DEF DeletedFound
    <3>2. n \in 1..n
      BY <1>3
    <3> QED
      BY <1>2, <1>3, <1>5, <3>1, <3>2 DEF DeletedFound
  <2> QED
    BY <1>1, <1>10, <1>11, <2>1 DEF FilterInv
<1>18. DeletedFound' /\ (\A i \in E : t[i].field # Deleted) => <<"$exists", FALSE>> \in b[Deleted].ops
  <2>1. ASSUME DeletedFound', \A i \in E : t[i].field # Deleted PROVE <<"$exists", FALSE>> \in b[Deleted].ops
    <3>1. CASE p.field = Deleted
      <4>1. ~p.filled
        BY <1>3, <1>7, <2>1, <3>1
      <4>2. b[Deleted] = NotDeleted
        BY <1>11, <3>1, <4>1
      <4> QED
        BY <1>a, <4>2
    <3>2. CASE p.field # Deleted
      <4>1. PICK i \in 1..n : t[i].field = Deleted
        BY <1>2, <1>3, <2>1 DEF DeletedFound
      <4>2. DeletedFound
        BY <1>2, <1>3, <1>4, <3>2, <4>1 DEF DeletedFound
      <4>3. \A k \in F : s[k].field # Deleted
        BY <1>7, <2>1
      <4> QED
        BY <1>1, <1>2, <1>6, <1>10, <1>11, <3>2, <4>2, <4>3 DEF FilterInv
    <3> QED
      BY <3>1, <3>2
  <2> QED
    BY <2>1
<1>19. FilterInv'
  <2>1. \A i \in E : Entries(t[i])' = Entries(t[i])
    BY DEF Entries, IsValue
  <2> QED
    BY <1>2, <1>6, <1>10, <1>11, <1>13, <1>14, <1>15, <1>16, <1>17, <1>18, <2>1 DEF FilterInv
<1>20. asked' # <<>>
  BY <1>2, <1>3
<1> QED
  BY <1>1, <1>9, <1>19, <1>20 DEF QueryInv, QueriesAnswered, FindsWhatIsAsked, NothingMissed, RefusalExplained,
       LookupFinds

LEMMA NotExistsMeans ==
  ASSUME NEW d, d[2] \in BOOLEAN
  PROVE  Meets(<<"$exists", FALSE>>, DeletedOf(d)) <=> ~d[2]
<1>1. CASE d[2]
  <2>1. DeletedOf(d) = 1 /\ 1 # Missing
    BY <1>1 DEF DeletedOf, Missing
  <2>2. ~Meets(<<"$exists", FALSE>>, 1)
    BY <2>1 DEF Meets
  <2> QED
    BY <1>1, <2>1, <2>2
<1>2. CASE ~d[2]
  BY <1>2 DEF Meets, DeletedOf
<1> QED
  BY <1>1, <1>2

(* A condition that is a value.                                            *)
LEMMA ValueMeans ==
  ASSUME NEW d, NEW w, NEW v
  PROVE  Satisfies(d, IsValue(w), v) <=> v = w
<1>1. IsValue(w).ops = {<<"$eq", w>>}
  BY DEF IsValue
<1>2. Meets(<<"$eq", w>>, v) <=> v = w
  BY DEF Meets
<1> QED
  BY <1>1, <1>2 DEF Satisfies

(* Find adds no search of its own.                                         *)
LEMMA FindConditions ==
  ASSUME FilterInv, Find, NEW f \in DOMAIN q', NEW o \in q'[f].ops, o[1] = "$regex"
  PROVE  f \in Field \cup {Deleted} /\ o \in q[f].ops
<1>1. PICK b, D : b = q' /\ D = Field \cup {Deleted, Kind}
  OBVIOUS
<1>2. q = [g \in D |-> q[g]] /\ q[Kind] = NoCondition /\ Kind # Deleted
  BY <1>1, FieldsAssumption DEF FilterInv
<1>3. PICK z : z = IF DeletedFound THEN q ELSE [q EXCEPT ![Deleted] = NotDeleted]
  OBVIOUS
<1>4. b = IF derived THEN [z EXCEPT ![Kind] = Operators({<<"$in", {1}>>})] ELSE z
  BY <1>1, <1>3 DEF Find, OfKind
<1>5. f \in D /\ DOMAIN z = D /\ DOMAIN b = D
  BY <1>1, <1>2, <1>3, <1>4
<1>6. b[f] = q[f] \/ b[f] = NotDeleted \/ b[f] = Operators({<<"$in", {1}>>})
  BY <1>1, <1>2, <1>3, <1>4, <1>5
<1>7. o \notin NotDeleted.ops /\ o \notin Operators({<<"$in", {1}>>}).ops
  <2>1. NotDeleted.ops = {<<"$exists", FALSE>>}
    BY DEF NotDeleted, Operators
  <2>2. Operators({<<"$in", {1}>>}).ops = {<<"$in", {1}>>}
    BY DEF Operators
  <2>3. o # <<"$exists", FALSE>> /\ o # <<"$in", {1}>>
    <3>1. \A x : <<"$exists", x>>[1] = "$exists" /\ <<"$in", x>>[1] = "$in"
      OBVIOUS
    <3> QED
      BY <3>1
  <2> QED
    BY <2>1, <2>2, <2>3
<1>8. b[f] = q[f]
  BY <1>1, <1>6, <1>7
<1>9. f # Kind
  BY <1>1, <1>2, <1>8 DEF NoCondition
<1> QED
  BY <1>1, <1>5, <1>8, <1>9

(* The documents found after Find, in terms of the filter before it.       *)
LEMMA FindReads ==
  ASSUME FilterInv, Find, answered' = "find", NEW d \in Document
  PROVE  d \in Found' <=>
           /\ \A f \in Field : \A o \in q[f].ops : Meets(o, d[1][f])
           /\ IF DeletedFound THEN \A o \in q[Deleted].ops : Meets(o, DeletedOf(d)) ELSE ~d[2]
           /\ derived => d[3] = 1
           /\ \A a \in and : \A c \in a : Satisfies(d, c[2], d[1][c[1]])
<1>1. PICK b, D : b = q' /\ D = Field \cup {Deleted, Kind}
  OBVIOUS
<1>2. /\ q = [f \in D |-> q[f]] /\ q[Kind] = NoCondition
      /\ Deleted \in D /\ Kind \in D /\ Kind # Deleted
      /\ \A f \in Field : f \in D /\ f # Deleted /\ f # Kind
  BY <1>1, FieldsAssumption DEF FilterInv
<1>3. PICK z : z = IF DeletedFound THEN q ELSE [q EXCEPT ![Deleted] = NotDeleted]
  OBVIOUS
<1>4. /\ \A f \in Field : z[f] = q[f]
      /\ z[Deleted] = IF DeletedFound THEN q[Deleted] ELSE NotDeleted
      /\ z[Kind] = NoCondition /\ z = [f \in D |-> z[f]]
  BY <1>2, <1>3
<1>5. b = IF derived THEN [z EXCEPT ![Kind] = Operators({<<"$in", {1}>>})] ELSE z
  BY <1>1, <1>3 DEF Find, OfKind
<1>6. /\ \A f \in Field : b[f] = q[f]
      /\ b[Deleted] = IF DeletedFound THEN q[Deleted] ELSE NotDeleted
      /\ b[Kind] = IF derived THEN Operators({<<"$in", {1}>>}) ELSE NoCondition
  BY <1>2, <1>4, <1>5
<1>7. and' = and
  BY DEF Find
<1>8. MeetsAll(d)' <=>
        /\ \A f \in Field : \A o \in b[f].ops : Meets(o, d[1][f])
        /\ \A o \in b[Deleted].ops : Meets(o, DeletedOf(d))
        /\ \A o \in b[Kind].ops : Meets(o, d[3])
  BY <1>1 DEF MeetsAll, Satisfies, Meets, DeletedOf
<1>9. d[2] \in BOOLEAN
  BY DEF Document
<1>10. Meets(<<"$exists", FALSE>>, DeletedOf(d)) <=> ~d[2]
  BY <1>9, NotExistsMeans
<1>11. NotDeleted.ops = {<<"$exists", FALSE>>}
  BY DEF NotDeleted, Operators
<1>12. (\A o \in b[Kind].ops : Meets(o, d[3])) <=> (derived => d[3] = 1)
  <2>1. NoCondition.ops = {} /\ Operators({<<"$in", {1}>>}).ops = {<<"$in", {1}>>}
    BY DEF NoCondition, Operators
  <2>2. Meets(<<"$in", {1}>>, d[3]) <=> d[3] = 1
    BY DEF Meets
  <2> QED
    BY <1>6, <2>1, <2>2
<1>13. (\A o \in b[Deleted].ops : Meets(o, DeletedOf(d))) <=>
         IF DeletedFound THEN \A o \in q[Deleted].ops : Meets(o, DeletedOf(d)) ELSE ~d[2]
  BY <1>6, <1>10, <1>11
<1>14. d \in Found' <=> MeetsAll(d)' /\ \A a \in and : \A c \in a : Satisfies(d, c[2], d[1][c[1]])
  BY <1>7 DEF Found, Satisfies, Meets
<1> QED
  BY <1>6, <1>8, <1>12, <1>13, <1>14

LEMMA FindKeeps ==
  ASSUME QueryInv, Find
  PROVE  QueryInv'
<1>1. AskedInv /\ FilterInv /\ answered' \in {"find", "findRefused"} /\ asked' = asked /\ and' = and /\ derived' = derived
  BY DEF Find, QueryInv
<1>2. ASSUME NEW d \in Document
      PROVE  /\ d[1] \in [Field -> Word \cup {Missing}] /\ d[2] \in BOOLEAN
  BY DEF Document
<1>3. ASSUME NEW i \in Filled
      PROVE  /\ i \in 1..Len(asked) /\ asked[i] \in Params /\ asked[i].filled
             /\ asked[i].field \in Field \cup {Deleted}
             /\ asked[i].field = Deleted => asked[i].type # "map" /\ DeletedFound
  <2>1. i \in 1..Len(asked) /\ asked[i] \in Params /\ asked[i].filled
    BY <1>1 DEF Filled, AskedInv
  <2> QED
    BY <2>1, ParamIs DEF DeletedFound
<1>4. \A d : d \in Wanted' <=> d \in Wanted
  BY <1>1 DEF Wanted, Filled, Asks, OfParam, DeletedOf, Value
<1>5. Filled' = Filled
  BY <1>1 DEF Filled
<1>6. SomeMisread' <=> \E i \in Filled : Misread(asked[i])
  BY <1>1, <1>5 DEF SomeMisread, Misread, Searches, Value
<1>7. ASSUME answered' = "find", NEW d \in Document, ~SomeMisread', d \in Wanted
      PROVE  d \in Found'
  <2>1. \A i \in Filled : ~Misread(asked[i]) /\ Asks(asked[i], OfParam(d, asked[i]))
    BY <1>6, <1>7 DEF Wanted
  <2>2. /\ d[2] => \E i \in Filled : asked[i].field = Deleted
        /\ derived => d[3] = 1
    BY <1>7 DEF Wanted
  <2>3. ASSUME NEW i \in Filled, asked[i].type # "map", ~Silent(asked[i])
        PROVE  Meets(Condition(asked[i]), OfParam(d, asked[i]))
    BY <1>3, <2>1, <2>3, ConditionMeans
  <2>4. ASSUME NEW f \in Field, NEW o \in q[f].ops
        PROVE  Meets(o, d[1][f])
    <3>1. StandsFor(f, o) /\ f # Deleted
      BY <1>1, FieldsAssumption DEF FilterInv
    <3>2. PICK i \in Filled : /\ asked[i].field = f /\ asked[i].type # "map" /\ ~Silent(asked[i])
                              /\ o = Condition(asked[i])
      BY <3>1 DEF StandsFor
    <3>3. OfParam(d, asked[i]) = d[1][f]
      BY <3>1, <3>2 DEF OfParam
    <3> QED
      BY <2>3, <3>2, <3>3
  <2>5. ASSUME DeletedFound, NEW o \in q[Deleted].ops
        PROVE  Meets(o, DeletedOf(d))
    <3>1. StandsFor(Deleted, o)
      BY <1>1 DEF FilterInv
    <3>2. CASE \E i \in Filled : /\ asked[i].field = Deleted /\ asked[i].type # "map" /\ ~Silent(asked[i])
                                 /\ o = Condition(asked[i])
      <4>1. PICK i \in Filled : /\ asked[i].field = Deleted /\ asked[i].type # "map" /\ ~Silent(asked[i])
                                /\ o = Condition(asked[i])
        BY <3>2
      <4>2. OfParam(d, asked[i]) = DeletedOf(d)
        BY <4>1 DEF OfParam
      <4> QED
        BY <2>3, <4>1, <4>2
    <3>3. CASE o = <<"$exists", FALSE>> /\ \A i \in Filled : asked[i].field # Deleted
      <4>1. ~d[2]
        BY <2>2, <3>3
      <4> QED
        BY <3>3, <4>1 DEF Meets, DeletedOf
    <3> QED
      BY <3>1, <3>2, <3>3 DEF StandsFor
  <2>6. ~DeletedFound => ~d[2]
    BY <1>3, <2>2
  <2>7. ASSUME NEW a \in and, NEW c \in a PROVE Satisfies(d, c[2], d[1][c[1]])
    <3>1. PICK i \in Filled : asked[i].type = "map" /\ a = Entries(asked[i])
      BY <1>1 DEF FilterInv
    <3>2. PICK v \in asked[i].values : c = <<asked[i].field, IsValue(v)>>
      BY <2>7, <3>1 DEF Entries
    <3>3. asked[i].field # Deleted /\ OfParam(d, asked[i]) = d[1][asked[i].field]
      BY <1>3, <3>1 DEF OfParam
    <3>4. d[1][asked[i].field] = v
      BY <1>3, <2>1, <3>1, <3>3 DEF Asks
    <3> QED
      BY <3>2, <3>4, ValueMeans
  <2> QED
    BY <1>1, <1>7, <2>2, <2>4, <2>5, <2>6, <2>7, FindReads
<1>8. ASSUME answered' = "find", NEW d \in Document, ~SomeMisread', \A i, k \in Filled : ~Replaces(k, i), d \in Found'
      PROVE  d \in Wanted
  <2>1. /\ \A f \in Field : \A o \in q[f].ops : Meets(o, d[1][f])
        /\ IF DeletedFound THEN \A o \in q[Deleted].ops : Meets(o, DeletedOf(d)) ELSE ~d[2]
        /\ derived => d[3] = 1
        /\ \A a \in and : \A c \in a : Satisfies(d, c[2], d[1][c[1]])
    BY <1>1, <1>8, FindReads
  <2>2. ASSUME NEW i \in Filled PROVE Asks(asked[i], OfParam(d, asked[i]))
    <3>1. Present(asked[i])
      BY <1>1, <1>8 DEF FilterInv
    <3>2. CASE asked[i].type = "map"
      <4>1. OfParam(d, asked[i]) = d[1][asked[i].field]
        BY <1>3, <3>2 DEF OfParam
      <4>2. Entries(asked[i]) \in and
        BY <3>1, <3>2 DEF Present
      <4>3. ASSUME NEW v \in asked[i].values PROVE d[1][asked[i].field] = v
        <5>1. PICK f, k : f = asked[i].field /\ k = IsValue(v)
          OBVIOUS
        <5>2. <<f, k>> \in Entries(asked[i])
          BY <5>1 DEF Entries
        <5>3. Satisfies(d, k, d[1][f])
          BY <2>1, <4>2, <5>2
        <5> QED
          BY <5>1, <5>3, ValueMeans
      <4> QED
        BY <1>3, <3>2, <4>1, <4>3 DEF Asks
    <3>3. CASE Silent(asked[i])
      BY <3>3 DEF Silent, Asks
    <3>4. CASE asked[i].type # "map" /\ ~Silent(asked[i])
      <4>1. Condition(asked[i]) \in q[asked[i].field].ops
        BY <3>1, <3>4 DEF Present
      <4>2. Meets(Condition(asked[i]), OfParam(d, asked[i]))
        BY <1>3, <2>1, <4>1 DEF OfParam
      <4>3. ~Misread(asked[i])
        BY <1>6, <1>8
      <4> QED
        BY <1>3, <3>4, <4>2, <4>3, ConditionMeans
    <3> QED
      BY <3>2, <3>3, <3>4
  <2>3. ASSUME d[2], \A i \in Filled : asked[i].field # Deleted PROVE FALSE
    <3>1. DeletedFound
      BY <2>1, <2>3
    <3>2. <<"$exists", FALSE>> \in q[Deleted].ops
      BY <1>1, <2>3, <3>1 DEF FilterInv
    <3>3. Meets(<<"$exists", FALSE>>, DeletedOf(d))
      BY <2>1, <3>1, <3>2
    <3> QED
      BY <1>2, <2>3, <3>3, NotExistsMeans
  <2> QED
    BY <2>1, <2>2, <2>3 DEF Wanted
<1>9. \A i, k \in Filled : Replaces(k, i)' <=> Replaces(k, i)
  BY <1>1 DEF Replaces, Translated, Value
<1>10. \A d \in Found' : d \in Document
  BY <1>1 DEF Found
<1>11. \A d \in Wanted : d \in Document
  BY DEF Wanted
<1>12. NothingMissed'
  BY <1>4, <1>7, <1>11 DEF NothingMissed
<1>13. FindsWhatIsAsked'
  <2>1. ASSUME answered' = "find", ~SomeMisread', \A i, k \in Filled : ~Replaces(k, i)
        PROVE  Found' = Wanted'
    BY <1>4, <1>7, <1>8, <1>10, <1>11, <2>1
  <2> QED
    BY <1>5, <1>9, <2>1 DEF FindsWhatIsAsked
<1>14. ASSUME answered' = "findRefused"
       PROVE  \E i \in Filled : \/ asked[i].type = "map" /\ asked[i].values = {}
                                \/ Searches(asked[i]) /\ Value(asked[i]) \notin Regular
  <2>1. Refused(q', and)
    BY <1>14 DEF Find
  <2>2. CASE {} \in and
    <3>1. PICK i \in Filled : asked[i].type = "map" /\ Entries(asked[i]) = {}
      BY <1>1, <2>2 DEF FilterInv
    <3>2. asked[i].values = {}
      BY <3>1 DEF Entries
    <3> QED
      BY <3>1, <3>2
  <2>3. CASE \E f \in DOMAIN q' : Irregular(q'[f])
    <3>1. PICK f \in DOMAIN q' : Irregular(q'[f])
      BY <2>3
    <3>2. PICK o \in q'[f].ops : o[1] = "$regex" /\ o[2][2] \notin Regular
      BY <3>1 DEF Irregular
    <3>3. f \in Field \cup {Deleted} /\ o \in q[f].ops
      BY <1>1, <3>2, FindConditions
    <3>4. StandsFor(f, o)
      BY <1>1, <3>3 DEF FilterInv
    <3>a. o # <<"$exists", FALSE>>
      <4>1. \A x : <<"$exists", x>>[1] = "$exists"
        OBVIOUS
      <4> QED
        BY <3>2, <4>1
    <3>5. PICK i \in Filled : asked[i].type # "map" /\ o = Condition(asked[i])
      BY <3>4, <3>a DEF StandsFor
    <3>6. PICK r \in Params : r = asked[i]
      BY <1>3
    <3>7. Searches(r) /\ o = <<"$regex", <<r.op, Value(r)>>>>
      BY <3>2, <3>5, <3>6, ParamIs DEF Condition, Translated, Searches, Comparisons, Flags
    <3> QED
      BY <3>2, <3>6, <3>7
  <2>4. CASE \E c \in UNION and : Irregular(c[2])
    <3>1. PICK c \in UNION and : Irregular(c[2])
      BY <2>4
    <3>2. PICK i \in Filled : c \in Entries(asked[i])
      BY <1>1 DEF FilterInv
    <3>3. PICK v : c = <<asked[i].field, IsValue(v)>>
      BY <3>2 DEF Entries
    <3> QED
      BY <3>1, <3>3 DEF Irregular, IsValue
  <2> QED
    BY <2>1, <2>2, <2>3, <2>4 DEF Refused
<1>15. RefusalExplained'
  BY <1>1, <1>5, <1>14 DEF RefusalExplained, Searches, Value
<1> QED
  BY <1>1, <1>12, <1>13, <1>15 DEF QueryInv, QueriesAnswered, LookupFinds

(* What the two kinds of lookup conditions ask of a value.                 *)
LEMMA TagsMean ==
  ASSUME NEW v, NEW w, NEW tag
  PROVE  /\ tag \in SearchTags /\ w \in Verbatim =>
              ((\A o \in Regex(tag, w).ops : Meets(o, v))
                 <=> <<v, w>> \in IF tag = "contains" THEN Infix ELSE Prefix)
         /\ tag \in {"eq", "ne"} =>
              ((\A o \in Fixed(tag, w).ops : Meets(o, v)) <=> (v = w <=> tag = "eq"))
<1>0. PICK x : x = <<v, w>>
  OBVIOUS
<1>a. x[2] = w
  BY <1>0
<1>1. CASE tag = "startsWith"
  <2>1. Regex(tag, w).ops = {<<"$regex", <<"starts-with", w>>>>}
    BY <1>1 DEF Regex, Operators
  <2>2. Meets(<<"$regex", <<"starts-with", w>>>>, v) <=> x \in Matched["starts-with"]
    BY <1>0 DEF Meets
  <2>3. w \in Verbatim => (x \in Matched["starts-with"] <=> x \in Prefix)
    BY <1>a, VerbatimAssumption
  <2> QED
    BY <1>0, <1>1, <2>1, <2>2, <2>3
<1>2. CASE tag = "contains"
  <2>1. Regex(tag, w).ops = {<<"$regex", <<"contains", w>>>>}
    BY <1>2 DEF Regex, Operators
  <2>2. Meets(<<"$regex", <<"contains", w>>>>, v) <=> x \in Matched["contains"]
    BY <1>0 DEF Meets
  <2>3. w \in Verbatim => (x \in Matched["contains"] <=> x \in Infix)
    BY <1>a, VerbatimAssumption
  <2> QED
    BY <1>0, <1>2, <2>1, <2>2, <2>3
<1>3. CASE tag = "eq"
  <2>1. Fixed(tag, w).ops = {<<"$eq", w>>}
    BY <1>3 DEF Fixed, IsValue
  <2>2. Meets(<<"$eq", w>>, v) <=> v = w
    BY DEF Meets
  <2> QED
    BY <1>3, <2>1, <2>2 DEF SearchTags
<1>4. CASE tag = "ne"
  <2>1. Fixed(tag, w).ops = {<<"$ne", w>>}
    BY <1>4 DEF Fixed, Operators
  <2>2. Meets(<<"$ne", w>>, v) <=> v # w
    BY DEF Meets
  <2> QED
    BY <1>4, <2>1, <2>2 DEF SearchTags
<1> QED
  BY <1>1, <1>2, <1>3, <1>4 DEF SearchTags

LEMMA LookupKeeps ==
  ASSUME QueryInv, NEW w \in Word, NEW tags \in LookupTags, Lookup(w, tags)
  PROVE  QueryInv'
<1>1. /\ answered' \in {"lookup", "lookupRefused"} /\ derived' = derived
      /\ asked' = <<[word |-> w, tags |-> tags]>>
      /\ FilterInv
  BY DEF Lookup, QueryInv
<1>2. asked'[1].tags = tags /\ asked'[1].word = w
  BY <1>1
<1> DEFINE S == {t \in tags : t[2] \in SearchTags}
           X == tags \ S
           G == {t[1] : t \in S}
           H == {t[1] : t \in X}
<1>3. S = {t \in tags : t[2] \in SearchTags} /\ X = tags \ S
  OBVIOUS
<1>4. G = {t[1] : t \in S} /\ H = {t[1] : t \in X}
  OBVIOUS
<1>5. PICK last \in [G -> SearchTags], rule \in [H -> X] :
        /\ \A f \in G : \E t \in S : t[1] = f /\ t[2] = last[f]
        /\ \A f \in H : rule[f][1] = f
        /\ q' = OfKind([f \in DOMAIN q |->
                  IF f \in H THEN Fixed(rule[f][2], rule[f][3])
                  ELSE IF f = Deleted THEN NotDeleted
                  ELSE IF f \in G /\ Cardinality(G) = 1 THEN Regex(last[f], w)
                  ELSE NoCondition])
        /\ and' = IF Cardinality(G) < 2 THEN {} ELSE {{<<f, Regex(last[f], w)>> : f \in G}}
        /\ answered' = IF Refused(q', and') THEN "lookupRefused" ELSE "lookup"
  BY DEF Lookup
<1> HIDE DEF S, X, G, H
<1>6. /\ \A t \in tags : t[1] \in Field /\ t[2] \in {"startsWith", "contains", "eq", "ne"}
      /\ IsFiniteSet(tags)
  BY TagsAssumption
<1>7. /\ \A t \in S : t \in tags /\ t[1] \in G /\ t[2] \in SearchTags
      /\ \A t \in X : t \in tags /\ t[1] \in H /\ t[2] \in {"eq", "ne"}
      /\ \A t \in tags : t \in S \/ t \in X
      /\ \A f \in G : f \in Field /\ \E t \in S : t[1] = f
      /\ \A f \in H : f \in Field /\ \E t \in X : t[1] = f
  BY <1>3, <1>4, <1>6 DEF SearchTags
<1>8. IsFiniteSet(G) /\ Cardinality(G) \in Nat /\ (Cardinality(G) = 0 <=> G = {})
  <2>1. IsFiniteSet(S)
    BY <1>3, <1>6, FS_Subset
  <2>2. PICK h : h = [t \in S |-> t[1]]
    OBVIOUS
  <2>3. h \in Surjection(S, G)
    BY <1>4, <2>2 DEF Surjection
  <2> QED
    BY <2>1, <2>3, FS_Surjection, FS_EmptySet, FS_CardinalityType
<1>9. Cardinality(G) = 1 => \E g : G = {g}
  BY <1>8, FS_Singleton
<1>10. PICK D, z, b : /\ D = Field \cup {Deleted, Kind} /\ b = q'
                      /\ z = [f \in DOMAIN q |->
                                IF f \in H THEN Fixed(rule[f][2], rule[f][3])
                                ELSE IF f = Deleted THEN NotDeleted
                                ELSE IF f \in G /\ Cardinality(G) = 1 THEN Regex(last[f], w)
                                ELSE NoCondition]
  OBVIOUS
<1>11. /\ DOMAIN q = D /\ Deleted \in D /\ Kind \in D /\ Kind # Deleted
       /\ \A f \in Field : f \in D /\ f # Deleted /\ f # Kind
       /\ Deleted \notin G \cup H /\ Kind \notin G \cup H
  BY <1>1, <1>7, <1>10, FieldsAssumption DEF FilterInv
<1>12. /\ \A f \in Field : z[f] = IF f \in H THEN Fixed(rule[f][2], rule[f][3])
                                  ELSE IF f \in G /\ Cardinality(G) = 1 THEN Regex(last[f], w)
                                  ELSE NoCondition
       /\ z[Deleted] = NotDeleted /\ z[Kind] = NoCondition /\ DOMAIN z = D
  BY <1>10, <1>11
<1>13. b = IF derived THEN [z EXCEPT ![Kind] = Operators({<<"$in", {1}>>})] ELSE z
  BY <1>5, <1>10 DEF OfKind
<1>14. /\ \A f \in Field : b[f] = z[f]
       /\ b[Deleted] = NotDeleted
       /\ b[Kind] = IF derived THEN Operators({<<"$in", {1}>>}) ELSE NoCondition
  BY <1>11, <1>12, <1>13
<1>15. ASSUME NEW d \in Document
       PROVE  MeetsAll(d)' <=> /\ \A f \in Field : \A o \in b[f].ops : Meets(o, d[1][f])
                               /\ ~d[2] /\ (derived => d[3] = 1)
  <2>1. MeetsAll(d)' <=>
          /\ \A f \in Field : \A o \in b[f].ops : Meets(o, d[1][f])
          /\ \A o \in b[Deleted].ops : Meets(o, DeletedOf(d))
          /\ \A o \in b[Kind].ops : Meets(o, d[3])
    BY <1>10 DEF MeetsAll, Satisfies, Meets, DeletedOf
  <2>2. (\A o \in b[Kind].ops : Meets(o, d[3])) <=> (derived => d[3] = 1)
    <3>1. NoCondition.ops = {} /\ Operators({<<"$in", {1}>>}).ops = {<<"$in", {1}>>}
      BY DEF NoCondition, Operators
    <3>2. Meets(<<"$in", {1}>>, d[3]) <=> d[3] = 1
      BY DEF Meets
    <3> QED
      BY <1>14, <3>1, <3>2
  <2>3. NotDeleted.ops = {<<"$exists", FALSE>>} /\ d[2] \in BOOLEAN
    BY DEF NotDeleted, Operators, Document
  <2> QED
    BY <1>14, <2>1, <2>2, <2>3, NotExistsMeans
<1>16. ASSUME NEW d \in Document
       PROVE  d \in Found' <=> /\ MeetsAll(d)'
                               /\ \A a \in and' : \E c \in a : Satisfies(d, c[2], d[1][c[1]])
  BY <1>1 DEF Found, Satisfies, Meets
<1>17. ASSUME w \in Verbatim, \A s, t \in tags : s[1] = t[1] => s = t, NEW d \in Document
       PROVE  d \in Found' <=>
                /\ ~d[2] /\ (derived => d[3] = 1)
                /\ S # {} => \E t \in S : <<d[1][t[1]], w>> \in IF t[2] = "contains" THEN Infix ELSE Prefix
                /\ \A t \in X : d[1][t[1]] = t[3] <=> t[2] = "eq"
  <2> DEFINE Hit(t) == <<d[1][t[1]], w>> \in IF t[2] = "contains" THEN Infix ELSE Prefix
             Fits(t) == d[1][t[1]] = t[3] <=> t[2] = "eq"
             Asked(f) == \A o \in b[f].ops : Meets(o, d[1][f])
  <2>1. /\ \A t \in S : last[t[1]] = t[2]
        /\ \A t \in X : rule[t[1]] = t
        /\ \A t \in S : t[1] \notin H
        /\ \A t \in X : t[1] \notin G
    BY <1>3, <1>5, <1>7, <1>17
  <2>2. ASSUME NEW t \in X PROVE Asked(t[1]) <=> Fits(t)
    <3>1. b[t[1]] = Fixed(t[2], t[3])
      BY <1>6, <1>7, <1>12, <1>14, <2>1
    <3>2. (\A o \in Fixed(t[2], t[3]).ops : Meets(o, d[1][t[1]])) <=>
            (d[1][t[1]] = t[3] <=> t[2] = "eq")
      <4>1. PICK v, x, g : v = d[1][t[1]] /\ x = t[3] /\ g = t[2]
        OBVIOUS
      <4>2. g \in {"eq", "ne"}
        BY <1>7, <4>1
      <4>3. (\A o \in Fixed(g, x).ops : Meets(o, v)) <=> (v = x <=> g = "eq")
        BY <4>2, TagsMean
      <4> QED
        BY <4>1, <4>3
    <3> QED
      BY <3>1, <3>2
  <2>3. ASSUME NEW t \in S, Cardinality(G) = 1 PROVE Asked(t[1]) <=> Hit(t)
    <3>1. b[t[1]] = Regex(t[2], w)
      BY <1>6, <1>7, <1>12, <1>14, <2>1, <2>3
    <3> QED
      BY <1>7, <1>17, <3>1, TagsMean
  <2>4. ASSUME NEW f \in Field, f \notin H, f \notin G \/ Cardinality(G) # 1 PROVE Asked(f)
    BY <1>12, <1>14, <2>4 DEF NoCondition
  <2>5. (\A f \in Field : Asked(f)) <=>
          (\A t \in X : Fits(t)) /\ (Cardinality(G) = 1 => \A t \in S : Hit(t))
    <3>1. ASSUME \A f \in Field : Asked(f), NEW t \in X PROVE Fits(t)
      BY <1>6, <1>7, <2>2, <3>1
    <3>2. ASSUME \A f \in Field : Asked(f), Cardinality(G) = 1, NEW t \in S PROVE Hit(t)
      BY <1>6, <1>7, <2>3, <3>2
    <3>3. ASSUME \A t \in X : Fits(t), Cardinality(G) = 1 => \A t \in S : Hit(t), NEW f \in Field
          PROVE  Asked(f)
      <4>1. CASE f \in H
        <5>1. PICK t \in X : t[1] = f
          BY <1>7, <4>1
        <5> QED
          BY <2>2, <3>3, <5>1
      <4>2. CASE f \in G /\ Cardinality(G) = 1
        <5>1. PICK t \in S : t[1] = f
          BY <1>7, <4>2
        <5> QED
          BY <2>3, <3>3, <4>2, <5>1
      <4> QED
        BY <2>4, <4>1, <4>2
    <3> QED
      BY <3>1, <3>2, <3>3
  <2>6. CASE Cardinality(G) = 0
    <3>1. S = {} /\ and' = {}
      BY <1>5, <1>7, <1>8, <2>6
    <3> QED
      BY <1>15, <1>16, <2>5, <2>6, <3>1
  <2>7. CASE Cardinality(G) = 1
    <3>1. PICK g : G = {g}
      BY <1>9, <2>7
    <3>2. and' = {}
      BY <1>5, <2>7
    <3>3. S # {} /\ \A s, t \in S : s = t
      BY <1>7, <1>17, <3>1
    <3>4. (\A t \in S : Hit(t)) <=> (S # {} => \E t \in S : Hit(t))
      BY <3>3
    <3> QED
      BY <1>15, <1>16, <2>5, <2>7, <3>2, <3>4
  <2>8. CASE Cardinality(G) \notin {0, 1}
    <3>0. PICK a : a = {<<f, Regex(last[f], w)>> : f \in G}
      OBVIOUS
    <3>1. and' = {a}
      BY <1>5, <1>8, <2>8, <3>0
    <3>2. G # {} /\ S # {}
      BY <1>7, <1>8, <2>8
    <3>3. ASSUME NEW t \in S
          PROVE  Satisfies(d, Regex(t[2], w), d[1][t[1]]) <=> Hit(t)
      BY <1>7, <1>17, TagsMean DEF Satisfies
    <3>4. \A t \in S : <<t[1], Regex(t[2], w)>> \in a
      BY <1>7, <2>1, <3>0
    <3>5. \A c \in a : \E t \in S : c = <<t[1], Regex(t[2], w)>>
      BY <1>7, <2>1, <3>0
    <3>6. (\E c \in a : Satisfies(d, c[2], d[1][c[1]])) <=> \E t \in S : Hit(t)
      <4> DEFINE Ok(c) == Satisfies(d, c[2], d[1][c[1]])
                 Asking(t) == <<t[1], Regex(t[2], w)>>
      <4>1. ASSUME NEW t \in S PROVE Ok(Asking(t)) <=> Hit(t)
        BY <3>3
      <4>2. (\A t \in S : Asking(t) \in a) /\ \A c \in a : \E t \in S : c = Asking(t)
        BY <3>4, <3>5
      <4> HIDE DEF Ok, Hit, Asking
      <4>3. (\E c \in a : Ok(c)) <=> \E t \in S : Hit(t)
        BY <4>1, <4>2
      <4> QED
        BY <4>3 DEF Ok, Hit
    <3>7. (\A l \in and' : \E c \in l : Satisfies(d, c[2], d[1][c[1]])) <=> \E t \in S : Hit(t)
      BY <3>1, <3>6
    <3> QED
      BY <1>15, <1>16, <2>5, <2>8, <3>2, <3>7
  <2> QED
    BY <2>6, <2>7, <2>8
<1>18. LookupFinds'
  <2>1. ASSUME w \in Verbatim, \A s, t \in tags : s[1] = t[1] => s = t
        PROVE  Found' = {d \in Document :
                           /\ ~d[2] /\ (derived => d[3] = 1)
                           /\ S # {} => \E t \in S : <<d[1][t[1]], w>>
                                                      \in IF t[2] = "contains" THEN Infix ELSE Prefix
                           /\ \A t \in X : (d[1][t[1]] = t[3]) = (t[2] = "eq")}
    <3>1. \A d \in Found' : d \in Document
      BY <1>1 DEF Found
    <3> QED
      BY <1>17, <2>1, <3>1
  <2> QED
    BY <1>1, <1>2, <1>3, <2>1 DEF LookupFinds
<1>19. ASSUME answered' = "lookupRefused" PROVE w \notin Regular
  <2>1. Refused(b, and')
    BY <1>5, <1>10, <1>19
  <2>2. \A tag, x : Regex(tag, x).ops = {<<"$regex", <<IF tag = "startsWith" THEN "starts-with" ELSE "contains", x>>>>}
    BY DEF Regex, Operators
  <2>3. \A tag : Irregular(Regex(tag, w)) => w \notin Regular
    BY <2>2 DEF Irregular
  <2>4. {} \notin and'
    <3>1. PICK l : l = {<<f, Regex(last[f], w)>> : f \in G}
      OBVIOUS
    <3>2. and' = {} \/ (and' = {l} /\ G # {})
      BY <1>5, <1>8, <3>1
    <3>3. G # {} => l # {}
      BY <3>1
    <3> QED
      BY <3>2, <3>3
  <2>5. \A c \in UNION and' : \E tag : c[2] = Regex(tag, w)
    BY <1>5
  <2>6. \A f \in D : ~Irregular(b[f]) \/ \E tag : b[f] = Regex(tag, w)
    <3>1. /\ ~Irregular(NotDeleted) /\ ~Irregular(NoCondition) /\ ~Irregular(Operators({<<"$in", {1}>>}))
          /\ \A tag, x : ~Irregular(Fixed(tag, x))
      <4>1. \A x : /\ <<"$exists", x>>[1] = "$exists" /\ <<"$in", x>>[1] = "$in"
                   /\ <<"$eq", x>>[1] = "$eq" /\ <<"$ne", x>>[1] = "$ne"
        OBVIOUS
      <4>2. /\ NotDeleted.ops = {<<"$exists", FALSE>>} /\ NoCondition.ops = {}
            /\ Operators({<<"$in", {1}>>}).ops = {<<"$in", {1}>>}
        BY DEF NotDeleted, NoCondition, Operators
      <4>3. \A tag, x : Fixed(tag, x).ops = {<<"$eq", x>>} \/ Fixed(tag, x).ops = {<<"$ne", x>>}
        BY DEF Fixed, IsValue, Operators
      <4>4. \A k : Irregular(k) => \E o \in k.ops : o[1] = "$regex"
        BY DEF Irregular
      <4>5. ~Irregular(NotDeleted) /\ ~Irregular(NoCondition) /\ ~Irregular(Operators({<<"$in", {1}>>}))
        BY <4>1, <4>2, <4>4
      <4>6. ASSUME NEW tag, NEW x PROVE ~Irregular(Fixed(tag, x))
        <5>1. \A o \in Fixed(tag, x).ops : o = <<"$eq", x>> \/ o = <<"$ne", x>>
          BY <4>3
        <5> QED
          BY <4>1, <4>4, <5>1
      <4> QED
        BY <4>5, <4>6
    <3>2. \A f \in D : f \in Field \/ f = Deleted \/ f = Kind
      BY <1>10
    <3> QED
      BY <1>12, <1>14, <3>1, <3>2
  <2>7. DOMAIN b = D
    BY <1>12, <1>13
  <2> QED
    BY <2>1, <2>3, <2>4, <2>5, <2>6, <2>7 DEF Refused
<1>20. RefusalExplained'
  BY <1>1, <1>2, <1>19 DEF RefusalExplained
<1> QED
  BY <1>1, <1>18, <1>20 DEF QueryInv, QueriesAnswered, FindsWhatIsAsked, NothingMissed

LEMMA QueriesStart == QueriesInit => QueryInv
<1> SUFFICES ASSUME QueriesInit PROVE QueryInv
  OBVIOUS
<1>1. Len(asked) = 0 /\ asked \in Seq(Params) /\ 1..Len(asked) = {}
  BY DEF QueriesInit
<1>2. Filled = {} /\ ~DeletedFound
  BY <1>1 DEF Filled, DeletedFound
<1>3. AskedInv
  BY <1>1 DEF AskedInv
<1>4. \A f \in Field \cup {Deleted, Kind} : q[f] = NoCondition
  BY DEF QueriesInit
<1>5. FilterInv
  BY <1>2, <1>4 DEF QueriesInit, FilterInv, NoCondition
<1> QED
  BY <1>3, <1>5 DEF QueriesInit, QueryInv, QueriesAnswered, FindsWhatIsAsked, NothingMissed,
     RefusalExplained, LookupFinds

LEMMA QueriesStep == QueryInv /\ [QueriesNext]_queryVars => QueryInv'
<1> SUFFICES ASSUME QueryInv, [QueriesNext]_queryVars PROVE QueryInv'
  OBVIOUS
<1>1. ASSUME NEW p \in Params, AddParam(p) PROVE QueryInv'
  BY <1>1, AddParamKeeps
<1>2. CASE Find
  BY <1>2, FindKeeps
<1>3. ASSUME NEW w \in Word, NEW tags \in LookupTags, Lookup(w, tags) PROVE QueryInv'
  BY <1>3, LookupKeeps
<1>4. CASE UNCHANGED queryVars
  <2>1. /\ derived' = derived /\ asked' = asked /\ registered' = registered
        /\ q' = q /\ and' = and /\ answered' = answered
    BY <1>4 DEF queryVars
  <2>2. AskedInv' <=> AskedInv
    BY <2>1 DEF AskedInv
  <2>3. Filled' = Filled /\ (DeletedFound' <=> DeletedFound)
    BY <2>1 DEF Filled, DeletedFound
  <2>4. \A i, k : Replaces(k, i)' <=> Replaces(k, i)
    BY <2>1 DEF Replaces, Translated, Value
  <2>5. \A i \in Filled : Present(asked[i])' <=> Present(asked[i])
    BY <2>1 DEF Present, Silent, Condition, Joins, Translated, Value, Entries, IsValue
  <2>6. \A f, o : StandsFor(f, o)' <=> StandsFor(f, o)
    BY <2>1, <2>3 DEF StandsFor, Silent, Condition, Translated, Value
  <2>7. FilterInv' <=> FilterInv
    BY <2>1, <2>3, <2>4, <2>5, <2>6 DEF FilterInv, Entries, IsValue
  <2>8. Found' = Found
    BY <2>1 DEF Found, MeetsAll, Satisfies, Meets, DeletedOf
  <2>9. Wanted' = Wanted /\ (SomeMisread' <=> SomeMisread)
    BY <2>1, <2>3 DEF Wanted, Asks, OfParam, DeletedOf, Value, SomeMisread, Misread, Searches
  <2>10. QueriesAnswered' <=> QueriesAnswered
    <3>1. FindsWhatIsAsked' <=> FindsWhatIsAsked
      BY <2>1, <2>3, <2>4, <2>8, <2>9, Zenon DEF FindsWhatIsAsked
    <3>2. NothingMissed' <=> NothingMissed
      BY <2>1, <2>8, <2>9 DEF NothingMissed
    <3>3. LookupFinds' <=> LookupFinds
      BY <2>1, <2>8 DEF LookupFinds
    <3>4. RefusalExplained' <=> RefusalExplained
      BY <2>1, <2>3 DEF RefusalExplained, Searches, Value
    <3> QED
      BY <3>1, <3>2, <3>3, <3>4 DEF QueriesAnswered
  <2> QED
    BY <2>1, <2>2, <2>7, <2>10 DEF QueryInv
<1> QED
  BY <1>1, <1>2, <1>3, <1>4 DEF QueriesNext

(* Find returns what its filled parameters ask, or more where one may have *)
(* taken another's place, and Lookup what its tags ask, unless a search is *)
(* for a regular expression or a map is empty.                             *)
THEOREM QueriesAreAnswered == QueriesSpec => []QueriesAnswered
<1>1. QueryInv => QueriesAnswered
  BY DEF QueryInv
<1> QED
  BY <1>1, QueriesStart, QueriesStep, PTL DEF QueriesSpec

-----------------------------------------------------------------------------
(***************************************************************************)
(* The parser holds what the last lines of each kind of a block say, and   *)
(* the tags it holds are those no annotation or field came after.          *)
(***************************************************************************)
Kinds == {"$", ":", ".", "tags"}
Maybe == Names \cup {NoName}
ParserType == [annotation : Maybe, specifier : Maybe, field : Maybe, tags : Seq(Nat)]
EntryType == [field : Maybe, annotation : Maybe, specifier : Maybe, line : Nat]

(* Line j is the last one of some kinds before line i, if there is one in  *)
(* any prefix of the block.                                                *)
IsLast(b, K, i, j) ==
  /\ j \in 1..(i - 1) /\ b[j].kind \in K
  /\ \A o \in 1..(i - 1) : b[o].kind \in K => o <= j

NoneOf(b, K, i) == \A j \in 1..(i - 1) : b[j].kind \notin K

LastsIn(b) ==
  \A K \in SUBSET Kinds : \A i \in 1..(Len(b) + 1) :
    NoneOf(b, K, i) \/ \E j \in 1..(i - 1) : IsLast(b, K, i, j)

LastIn(b, K, i) ==
  LET s == {j \in 1..(i - 1) : b[j].kind \in K}
  IN  IF s = {} THEN 0 ELSE CHOOSE j \in s : \A o \in s : o <= j

Said(b, j) == b[j].kind \in {":", "$"} /\ b[j].specifier # NoName

ParserIs(b, p) ==
  LET n == Len(b) + 1
      at == LastIn(b, {"$"}, n)
      under == LastIn(b, {"."}, n)
      specifier == LastIn(b, {":", "$"}, n)
  IN  /\ p \in ParserType
      /\ p.annotation = IF at = 0 THEN NoName ELSE b[at].annotation
      /\ p.field = IF under = 0 THEN NoName ELSE b[under].field
      /\ (\A j \in 1..(at - 1) : ~Said(b, j)) =>
           p.specifier = IF specifier = 0 THEN NoName ELSE b[specifier].specifier
      /\ (\E j \in 1..Len(b) : b[j].kind = "tags") => at > 0

(* Tags that the parser holds: no annotation and no field came after them. *)
Held(b, i) ==
  /\ i \in 1..Len(b) /\ b[i].kind = "tags"
  /\ \A j \in (i + 1)..Len(b) : b[j].kind \notin {"$", "."}

HeldIn(b, t) ==
  /\ \A k \in 1..Len(t) : Held(b, t[k])
  /\ \A i \in 1..Len(b) : Held(b, i) => \E k \in 1..Len(t) : t[k] = i
  /\ \A k, m \in 1..Len(t) : t[k] = t[m] => k = m

FiledIn(b, f) ==
  /\ f \in Seq(EntryType)
  /\ \A k \in 1..Len(f) : f[k].line \in 1..Len(b) /\ ~Held(b, f[k].line)
  /\ \A k, m \in 1..Len(f) : f[k].line = f[m].line => k = m

MetaInv ==
  /\ block \in Seq(Lines)
  /\ reading = "on" => /\ LastsIn(block) /\ ParserIs(block, parser)
                       /\ HeldIn(block, parser.tags) /\ FiledIn(block, filed)
  /\ FiledWhereWritten

-----------------------------------------------------------------------------
LEMMA LineIs ==
  ASSUME NEW l \in Lines
  PROVE  /\ l.kind \in Kinds
         /\ l.kind = "$" => l.annotation \in Maybe /\ l.annotation # NoName /\ l.specifier \in Maybe
         /\ l.kind = ":" => l.specifier \in Maybe
         /\ l.kind = "." => l.field \in Maybe /\ l.field # NoName
<1>1. l \in LineShape
  BY LinesAssumption
<1>2. CASE l \in [kind : {"$"}, annotation : Names, specifier : Maybe]
  BY <1>2 DEF Names, Maybe, Kinds
<1>3. CASE l \in [kind : {":"}, specifier : Names]
  BY <1>3 DEF Names, Maybe, Kinds
<1>4. CASE l \in [kind : {"."}, field : Names]
  BY <1>4 DEF Names, Maybe, Kinds
<1>5. CASE l = [kind |-> "tags"]
  BY <1>5 DEF Kinds
<1> QED
  BY <1>1, <1>2, <1>3, <1>4, <1>5 DEF LineShape, Maybe

LEMMA LastInIs ==
  ASSUME NEW b, Len(b) \in Nat, LastsIn(b), NEW K \in SUBSET Kinds, NEW i \in 1..(Len(b) + 1)
  PROVE  \/ NoneOf(b, K, i) /\ LastIn(b, K, i) = 0
         \/ IsLast(b, K, i, LastIn(b, K, i))
<1>1. PICK s : s = {j \in 1..(i - 1) : b[j].kind \in K}
  OBVIOUS
<1>2. LastIn(b, K, i) = IF s = {} THEN 0 ELSE CHOOSE j \in s : \A o \in s : o <= j
  BY <1>1 DEF LastIn
<1>3. CASE NoneOf(b, K, i)
  <2>1. s = {}
    BY <1>1, <1>3 DEF NoneOf
  <2> QED
    BY <1>2, <1>3, <2>1
<1>4. CASE ~NoneOf(b, K, i)
  <2>1. PICK j \in 1..(i - 1) : IsLast(b, K, i, j)
    BY <1>4 DEF LastsIn
  <2>2. j \in s /\ \A o \in s : o <= j
    BY <1>1, <2>1 DEF IsLast
  <2>3. LastIn(b, K, i) \in s /\ \A o \in s : o <= LastIn(b, K, i)
    BY <1>2, <2>2
  <2> QED
    BY <1>1, <2>3 DEF IsLast
<1> QED
  BY <1>3, <1>4

(* A line more: it is the last of its kind, and nothing else changes.      *)
LEMMA Grown ==
  ASSUME NEW b \in Seq(Lines), NEW l \in Lines, NEW c, c = Append(b, l)
  PROVE  /\ c \in Seq(Lines) /\ Len(b) \in Nat /\ Len(c) = Len(b) + 1 /\ c[Len(b) + 1] = l
         /\ \A j \in 1..Len(b) : c[j] = b[j] /\ j \in 1..Len(c)
         /\ \A j \in 1..Len(c) : j \in 1..Len(b) \/ j = Len(b) + 1
OBVIOUS

LEMMA LastsGrow ==
  ASSUME NEW b \in Seq(Lines), NEW l \in Lines, NEW c, c = Append(b, l), LastsIn(b)
  PROVE  LastsIn(c)
<1>1. /\ Len(b) \in Nat /\ Len(c) = Len(b) + 1 /\ c[Len(b) + 1] = l
      /\ \A j \in 1..Len(b) : c[j] = b[j]
  BY Grown
<1>2. SUFFICES ASSUME NEW K \in SUBSET Kinds, NEW i \in 1..(Len(c) + 1)
               PROVE  NoneOf(c, K, i) \/ \E j \in 1..(i - 1) : IsLast(c, K, i, j)
  BY DEF LastsIn
<1>3. CASE i \in 1..(Len(b) + 1)
  <2>1. \A j \in 1..(i - 1) : c[j] = b[j]
    BY <1>1, <1>3
  <2>2. NoneOf(b, K, i) \/ \E j \in 1..(i - 1) : IsLast(b, K, i, j)
    BY <1>3 DEF LastsIn
  <2> QED
    BY <2>1, <2>2 DEF NoneOf, IsLast
<1>4. CASE i = Len(b) + 2
  <2>1. /\ \A j \in 1..(i - 1) : j \in 1..((Len(b) + 1) - 1) \/ j = Len(b) + 1
        /\ \A j \in 1..((Len(b) + 1) - 1) : j \in 1..(i - 1) /\ c[j] = b[j]
        /\ Len(b) + 1 \in 1..(i - 1) /\ Len(b) + 1 \in 1..(Len(b) + 1)
    BY <1>1, <1>4
  <2>2. CASE l.kind \in K
    <3>1. IsLast(c, K, i, Len(b) + 1)
      BY <1>1, <1>4, <2>2 DEF IsLast
    <3> QED
      BY <2>1, <3>1
  <2>3. CASE l.kind \notin K
    <3>1. NoneOf(b, K, Len(b) + 1) \/ \E j \in 1..((Len(b) + 1) - 1) : IsLast(b, K, Len(b) + 1, j)
      BY <2>1 DEF LastsIn
    <3>2. CASE NoneOf(b, K, Len(b) + 1)
      BY <1>1, <2>1, <2>3, <3>2 DEF NoneOf
    <3>3. ASSUME NEW j \in 1..((Len(b) + 1) - 1), IsLast(b, K, Len(b) + 1, j)
          PROVE  IsLast(c, K, i, j)
      BY <1>1, <2>1, <2>3, <3>3 DEF IsLast
    <3> QED
      BY <2>1, <3>1, <3>2, <3>3
  <2> QED
    BY <2>2, <2>3
<1> QED
  BY <1>1, <1>3, <1>4

LEMMA LastGrows ==
  ASSUME NEW b \in Seq(Lines), NEW l \in Lines, NEW c, c = Append(b, l), LastsIn(b),
         NEW K \in SUBSET Kinds
  PROVE  /\ l.kind \in K => LastIn(c, K, Len(b) + 2) = Len(b) + 1
         /\ l.kind \notin K => LastIn(c, K, Len(b) + 2) = LastIn(b, K, Len(b) + 1)
<1>1. /\ Len(b) \in Nat /\ Len(c) = Len(b) + 1 /\ c[Len(b) + 1] = l
      /\ \A j \in 1..Len(b) : c[j] = b[j]
  BY Grown
<1>2. LastsIn(c)
  BY LastsGrow
<1>3. PICK n, x, y : n = Len(b) /\ x = LastIn(c, K, Len(b) + 2) /\ y = LastIn(b, K, Len(b) + 1)
  OBVIOUS
<1>4. (NoneOf(c, K, n + 2) /\ x = 0) \/ IsLast(c, K, n + 2, x)
  <2>1. Len(c) \in Nat /\ Len(b) + 2 \in 1..(Len(c) + 1)
    BY <1>1
  <2> QED
    BY <1>2, <1>3, <2>1, LastInIs
<1>5. (NoneOf(b, K, n + 1) /\ y = 0) \/ IsLast(b, K, n + 1, y)
  BY <1>1, <1>3, LastInIs
<1>6. /\ n \in Nat /\ c[n + 1] = l /\ n + 1 \in 1..((n + 2) - 1)
      /\ \A j \in 1..((n + 2) - 1) : j \in 1..((n + 1) - 1) \/ j = n + 1
      /\ \A j \in 1..((n + 1) - 1) : j \in 1..((n + 2) - 1) /\ c[j] = b[j]
  BY <1>1, <1>3
<1>7. CASE l.kind \in K
  <2>1. ~NoneOf(c, K, n + 2)
    BY <1>6, <1>7 DEF NoneOf
  <2>2. IsLast(c, K, n + 2, x)
    BY <1>4, <2>1
  <2>3. x \in 1..((n + 2) - 1) /\ n + 1 <= x
    BY <1>6, <1>7, <2>2 DEF IsLast
  <2>4. x = n + 1
    BY <1>6, <2>3
  <2> QED
    BY <1>3, <1>7, <2>4
<1>8. CASE l.kind \notin K
  <2>1. CASE NoneOf(b, K, n + 1)
    BY <1>3, <1>4, <1>5, <1>6, <1>8, <2>1 DEF NoneOf, IsLast
  <2>2. CASE IsLast(b, K, n + 1, y)
    <3>1. IsLast(c, K, n + 2, x)
      BY <1>4, <1>6, <2>2 DEF NoneOf, IsLast
    <3>2. x \in 1..((n + 1) - 1) /\ b[x].kind \in K /\ y \in 1..((n + 1) - 1) /\ c[y].kind \in K
      BY <1>6, <1>8, <2>2, <3>1 DEF IsLast
    <3>3. x <= y /\ y <= x
      BY <1>6, <2>2, <3>1, <3>2 DEF IsLast
    <3> QED
      BY <1>3, <1>6, <1>8, <3>2, <3>3
  <2> QED
    BY <1>5, <2>1, <2>2
<1> QED
  BY <1>7, <1>8

(* What the parser holds after a line.                                     *)
Takes(l, p, r) ==
  /\ r \in ParserType
  /\ r.annotation = IF l.kind = "$" THEN l.annotation ELSE p.annotation
  /\ r.field = IF l.kind = "." THEN l.field ELSE p.field
  /\ r.specifier = IF l.kind = ":" \/ (l.kind = "$" /\ l.specifier # NoName)
                   THEN l.specifier ELSE p.specifier
  /\ l.kind = "tags" => p.annotation # NoName

LEMMA ParserGrows ==
  ASSUME NEW b \in Seq(Lines), NEW l \in Lines, NEW c, c = Append(b, l), LastsIn(b),
         NEW p, ParserIs(b, p), NEW r, Takes(l, p, r)
  PROVE  ParserIs(c, r)
<1>1. /\ Len(b) \in Nat /\ Len(c) = Len(b) + 1 /\ c[Len(b) + 1] = l
      /\ \A j \in 1..Len(b) : c[j] = b[j]
  BY Grown
<1>2. PICK n : n = Len(b)
  OBVIOUS
<1>3. PICK at, under, sp, at2, under2, sp2 :
        /\ at = LastIn(b, {"$"}, n + 1) /\ at2 = LastIn(c, {"$"}, n + 2)
        /\ under = LastIn(b, {"."}, n + 1) /\ under2 = LastIn(c, {"."}, n + 2)
        /\ sp = LastIn(b, {":", "$"}, n + 1) /\ sp2 = LastIn(c, {":", "$"}, n + 2)
  OBVIOUS
<1>4. {"$"} \in SUBSET Kinds /\ {"."} \in SUBSET Kinds /\ {":", "$"} \in SUBSET Kinds
  BY DEF Kinds
<1>5. /\ at2 = IF l.kind = "$" THEN n + 1 ELSE at
      /\ under2 = IF l.kind = "." THEN n + 1 ELSE under
      /\ sp2 = IF l.kind \in {":", "$"} THEN n + 1 ELSE sp
  <2>1. ASSUME NEW K \in SUBSET Kinds
        PROVE  /\ l.kind \in K => LastIn(c, K, Len(b) + 2) = Len(b) + 1
               /\ l.kind \notin K => LastIn(c, K, Len(b) + 2) = LastIn(b, K, Len(b) + 1)
    BY <2>1, LastGrows
  <2>2. \A K \in SUBSET Kinds :
          /\ l.kind \in K => LastIn(c, K, n + 2) = n + 1
          /\ l.kind \notin K => LastIn(c, K, n + 2) = LastIn(b, K, n + 1)
    BY <1>2, <2>1
  <2>3. LastIn(c, {"$"}, n + 2) = IF l.kind \in {"$"} THEN n + 1 ELSE LastIn(b, {"$"}, n + 1)
    BY <1>4, <2>2
  <2>4. LastIn(c, {"."}, n + 2) = IF l.kind \in {"."} THEN n + 1 ELSE LastIn(b, {"."}, n + 1)
    BY <1>4, <2>2
  <2>5. LastIn(c, {":", "$"}, n + 2) = IF l.kind \in {":", "$"} THEN n + 1 ELSE LastIn(b, {":", "$"}, n + 1)
    BY <1>4, <2>2
  <2> QED
    BY <1>3, <2>3, <2>4, <2>5
<1>6. /\ (at = 0 /\ NoneOf(b, {"$"}, n + 1)) \/ IsLast(b, {"$"}, n + 1, at)
      /\ (under = 0 /\ NoneOf(b, {"."}, n + 1)) \/ IsLast(b, {"."}, n + 1, under)
      /\ (sp = 0 /\ NoneOf(b, {":", "$"}, n + 1)) \/ IsLast(b, {":", "$"}, n + 1, sp)
  BY <1>1, <1>2, <1>3, <1>4, LastInIs
<1>7. /\ n \in Nat /\ c[n + 1] = l /\ n + 1 # 0 /\ n + 1 > 0
      /\ \A j \in 1..n : c[j] = b[j] /\ j # 0 /\ j # n + 1 /\ j \in Nat /\ j > 0
      /\ \A j \in 1..(n + 1) : j \in 1..n \/ j = n + 1
  BY <1>1, <1>2
<1>8. /\ at = 0 \/ at \in 1..n
      /\ under = 0 \/ under \in 1..n
      /\ sp = 0 \/ sp \in 1..n
  BY <1>6, <1>7 DEF IsLast
<1>9. /\ p.annotation = IF at = 0 THEN NoName ELSE b[at].annotation
      /\ p.field = IF under = 0 THEN NoName ELSE b[under].field
      /\ (\A j \in 1..(at - 1) : ~Said(b, j)) =>
           p.specifier = IF sp = 0 THEN NoName ELSE b[sp].specifier
      /\ (\E j \in 1..n : b[j].kind = "tags") => at > 0
  BY <1>2, <1>3 DEF ParserIs
<1>10. /\ l.kind \in Kinds
       /\ l.kind = "$" => l.annotation # NoName
       /\ l.kind = "." => l.field # NoName
  BY LineIs
<1>11. r.annotation = IF at2 = 0 THEN NoName ELSE c[at2].annotation
  BY <1>5, <1>7, <1>8, <1>9 DEF Takes
<1>12. r.field = IF under2 = 0 THEN NoName ELSE c[under2].field
  BY <1>5, <1>7, <1>8, <1>9 DEF Takes
<1>13. ASSUME \A j \in 1..(at2 - 1) : ~Said(c, j)
       PROVE  r.specifier = IF sp2 = 0 THEN NoName ELSE c[sp2].specifier
  <2>1. at2 >= at /\ at2 \in Int /\ at \in Int
    <3>1. at \in Nat /\ at <= n
      BY <1>7, <1>8
    <3> QED
      BY <1>5, <1>7, <3>1
  <2>a. \A j \in 1..(at - 1) : j \in 1..n
    BY <1>7, <1>8
  <2>2. \A j \in 1..(at - 1) : j \in 1..(at2 - 1) /\ c[j] = b[j]
    <3>1. \A j \in 1..(at - 1) : j \in 1..(at2 - 1)
      BY <2>1
    <3> QED
      BY <1>7, <2>a, <3>1
  <2>3. \A j \in 1..(at - 1) : ~Said(b, j)
    BY <1>13, <2>2 DEF Said
  <2>4. p.specifier = IF sp = 0 THEN NoName ELSE b[sp].specifier
    BY <1>9, <2>3
  <2>5. CASE l.kind = "$"
    <3>1. at2 = n + 1 /\ sp2 = n + 1 /\ \A j \in 1..n : j \in 1..(at2 - 1)
      BY <1>5, <1>7, <2>5
    <3>2. sp # 0 => b[sp].specifier = NoName
      <4>1. CASE sp # 0
        <5>1. sp \in 1..n /\ b[sp].kind \in {":", "$"} /\ c[sp] = b[sp]
          BY <1>6, <1>7, <1>8, <4>1 DEF IsLast
        <5> QED
          BY <1>13, <3>1, <5>1 DEF Said
      <4> QED
        BY <4>1
    <3> QED
      BY <1>7, <2>4, <2>5, <3>1, <3>2 DEF Takes
  <2>6. CASE l.kind = ":"
    BY <1>5, <1>7, <2>6 DEF Takes
  <2>7. CASE l.kind \in {".", "tags"}
    BY <1>5, <1>7, <1>8, <2>4, <2>7 DEF Takes
  <2> QED
    BY <1>10, <2>5, <2>6, <2>7 DEF Kinds
<1>14. ASSUME \E j \in 1..(n + 1) : c[j].kind = "tags"
       PROVE  at2 > 0
  <2>1. CASE l.kind = "tags"
    <3>1. at # 0
      BY <1>9, <2>1 DEF Takes
    <3> QED
      BY <1>5, <1>8, <2>1, <3>1
  <2>2. CASE l.kind # "tags"
    <3>1. PICK j \in 1..(n + 1) : c[j].kind = "tags"
      BY <1>14
    <3>2. j \in 1..n /\ b[j].kind = "tags"
      BY <1>7, <2>2, <3>1
    <3>3. at > 0
      BY <1>9, <3>2
    <3> QED
      BY <1>5, <1>7, <1>8, <3>3
  <2> QED
    BY <2>1, <2>2
<1>15. Len(c) = n + 1 /\ Len(c) + 1 = n + 2
  BY <1>1, <1>2
<1>16. r \in ParserType
  BY DEF Takes
<1> QED
  BY <1>3, <1>11, <1>12, <1>13, <1>14, <1>15, <1>16 DEF ParserIs

(* What is filed: an entry for each tag that is held, after those before.  *)
LEMMA FiledIs ==
  ASSUME NEW p \in ParserType, filed \in Seq(EntryType)
  PROVE  /\ Filed(p) \in Seq(EntryType)
         /\ p.field = NoName => Filed(p) = filed
         /\ p.field # NoName =>
              /\ Len(Filed(p)) = Len(filed) + Len(p.tags)
              /\ \A k \in 1..Len(filed) : Filed(p)[k] = filed[k]
              /\ \A k \in 1..Len(p.tags) :
                   Filed(p)[Len(filed) + k] =
                     [field |-> p.field, annotation |-> p.annotation,
                      specifier |-> p.specifier, line |-> p.tags[k]]
<1>1. /\ p.tags \in Seq(Nat) /\ p.field \in Maybe /\ p.annotation \in Maybe /\ p.specifier \in Maybe
  BY DEF ParserType
<1>2. PICK f, a, s, t : f = p.field /\ a = p.annotation /\ s = p.specifier /\ t = p.tags
  OBVIOUS
<1>3. t \in Seq(Nat) /\ f \in Maybe /\ a \in Maybe /\ s \in Maybe
  BY <1>1, <1>2
<1>4. CASE f = NoName
  <2>1. PICK g : g = [i \in DOMAIN <<>> |->
                        [field |-> f, annotation |-> a, specifier |-> s, line |-> t[i]]]
    OBVIOUS
  <2>2. g = <<>>
    BY <2>1
  <2>3. Filed(p) = filed \o g
    BY <1>2, <1>4, <2>1 DEF Filed
  <2>4. filed \o <<>> = filed
    OBVIOUS
  <2> QED
    BY <1>2, <1>4, <2>2, <2>3, <2>4
<1>5. CASE f # NoName
  <2>1. PICK g : g = [i \in DOMAIN t |->
                        [field |-> f, annotation |-> a, specifier |-> s, line |-> t[i]]]
    OBVIOUS
  <2>2. Filed(p) = filed \o g
    BY <1>2, <1>5, <2>1 DEF Filed
  <2>3. DOMAIN t = 1..Len(t) /\ Len(t) \in Nat /\ \A i \in 1..Len(t) : t[i] \in Nat
    BY <1>3
  <2>4. \A i \in 1..Len(t) :
          [field |-> f, annotation |-> a, specifier |-> s, line |-> t[i]] \in EntryType
    BY <1>3, <2>3 DEF EntryType
  <2>5. g \in Seq(EntryType) /\ Len(g) = Len(t)
    BY <2>1, <2>3, <2>4
  <2>6. \A i \in 1..Len(t) :
          g[i] = [field |-> f, annotation |-> a, specifier |-> s, line |-> t[i]]
    BY <2>1, <2>3
  <2>7. /\ filed \o g \in Seq(EntryType) /\ Len(filed \o g) = Len(filed) + Len(g)
        /\ \A k \in 1..Len(filed) : (filed \o g)[k] = filed[k]
        /\ \A k \in 1..Len(g) : (filed \o g)[Len(filed) + k] = g[k]
    BY <2>5
  <2> QED
    BY <1>2, <1>5, <2>2, <2>5, <2>6, <2>7
<1> QED
  BY <1>4, <1>5

(* The tags held after a line.                                             *)
LEMMA HeldGrows ==
  ASSUME NEW b \in Seq(Lines), NEW l \in Lines, NEW c, c = Append(b, l),
         NEW t \in Seq(Nat), HeldIn(b, t), NEW u \in Seq(Nat),
         u = IF l.kind \in {"$", "."} THEN <<>>
             ELSE IF l.kind = "tags" THEN Append(t, Len(b) + 1) ELSE t
  PROVE  HeldIn(c, u)
<1>1. /\ Len(b) \in Nat /\ Len(c) = Len(b) + 1 /\ c[Len(b) + 1] = l
      /\ \A j \in 1..Len(b) : c[j] = b[j]
  BY Grown
<1>2. PICK n : n = Len(b)
  OBVIOUS
<1>3. /\ n \in Nat /\ Len(b) = n /\ Len(c) = n + 1 /\ c[n + 1] = l /\ n + 1 \in 1..(n + 1)
      /\ \A j \in 1..n : c[j] = b[j] /\ j # n + 1 /\ j \in 1..(n + 1) /\ n + 1 \in (j + 1)..(n + 1)
      /\ \A j \in 1..(n + 1) : j \in 1..n \/ j = n + 1
      /\ (n + 1 + 1)..(n + 1) = {}
  BY <1>1, <1>2
<1>4. \A i \in 1..n : Held(c, i) <=> Held(b, i) /\ l.kind \notin {"$", "."}
  <2>1. SUFFICES ASSUME NEW i \in 1..n
                 PROVE  Held(c, i) <=> Held(b, i) /\ l.kind \notin {"$", "."}
    OBVIOUS
  <2>2. /\ \A j \in (i + 1)..n : j \in (i + 1)..(n + 1) /\ c[j] = b[j]
        /\ \A j \in (i + 1)..(n + 1) : j \in (i + 1)..n \/ j = n + 1
    BY <1>3
  <2>3. c[i] = b[i] /\ i \in 1..(n + 1) /\ n + 1 \in (i + 1)..(n + 1)
    BY <1>3
  <2> QED
    BY <1>3, <2>2, <2>3 DEF Held
<1>5. Held(c, n + 1) <=> l.kind = "tags"
  BY <1>3 DEF Held
<1>6. \A i : Held(c, i) => i \in 1..(n + 1)
  BY <1>3 DEF Held
<1>7. /\ \A k \in 1..Len(t) : Held(b, t[k]) /\ t[k] \in 1..n
      /\ \A i \in 1..n : Held(b, i) => \E k \in 1..Len(t) : t[k] = i
      /\ \A k, m \in 1..Len(t) : t[k] = t[m] => k = m
  BY <1>3 DEF HeldIn, Held
<1>8. CASE l.kind \in {"$", "."}
  <2>1. u = <<>> /\ Len(u) = 0 /\ 1..Len(u) = {}
    BY <1>8
  <2>2. \A i \in 1..(n + 1) : ~Held(c, i)
    BY <1>3, <1>4, <1>5, <1>8
  <2> QED
    BY <1>3, <2>1, <2>2 DEF HeldIn
<1>9. CASE l.kind = "tags"
  <2>1. u = Append(t, n + 1)
    BY <1>2, <1>9
  <2>2. PICK m : m = Len(t)
    OBVIOUS
  <2>3. /\ m \in Nat /\ Len(u) = m + 1 /\ u[m + 1] = n + 1 /\ m + 1 \in 1..(m + 1)
        /\ \A k \in 1..m : u[k] = t[k] /\ k \in 1..(m + 1)
        /\ \A k \in 1..(m + 1) : k \in 1..m \/ k = m + 1
    BY <1>3, <2>1, <2>2
  <2>4. \A k \in 1..(m + 1) : Held(c, u[k])
    BY <1>4, <1>5, <1>7, <1>9, <2>2, <2>3
  <2>5. \A i \in 1..(n + 1) : Held(c, i) => \E k \in 1..(m + 1) : u[k] = i
    <3>1. ASSUME NEW i \in 1..n, Held(c, i) PROVE \E k \in 1..(m + 1) : u[k] = i
      <4>1. PICK k \in 1..m : t[k] = i
        BY <1>4, <1>7, <2>2, <3>1
      <4> QED
        BY <2>3, <4>1
    <3> QED
      BY <1>3, <2>3, <3>1
  <2>6. \A k, h \in 1..(m + 1) : u[k] = u[h] => k = h
    BY <1>3, <1>7, <2>2, <2>3
  <2> QED
    BY <1>3, <2>3, <2>4, <2>5, <2>6 DEF HeldIn
<1>10. CASE l.kind \notin {"$", ".", "tags"}
  <2>1. u = t
    BY <1>10
  <2>2. \A i \in 1..(n + 1) : Held(c, i) => i \in 1..n /\ Held(b, i)
    BY <1>3, <1>4, <1>5, <1>10
  <2>3. \A k \in 1..Len(t) : Held(c, t[k])
    BY <1>4, <1>7, <1>10
  <2>4. \A i \in 1..(n + 1) : Held(c, i) => \E k \in 1..Len(t) : t[k] = i
    BY <1>7, <2>2
  <2> QED
    BY <1>3, <1>7, <2>1, <2>3, <2>4 DEF HeldIn
<1> QED
  BY <1>8, <1>9, <1>10

(* What is held is filed once, after what was filed before.                *)
LEMMA FiledOnce ==
  ASSUME NEW b, NEW t, NEW f, NEW g,
         Len(b) \in Nat, HeldIn(b, t), FiledIn(b, f), Len(t) \in Nat,
         Len(g) = Len(f) + Len(t),
         \A k \in 1..Len(f) : g[k] = f[k],
         \A k \in 1..Len(t) : g[Len(f) + k].line = t[k]
  PROVE  /\ \A k \in 1..Len(g) : g[k].line \in 1..Len(b)
         /\ \A k, h \in 1..Len(g) : g[k].line = g[h].line => k = h
<1>1. PICK n, m, x : n = Len(b) /\ m = Len(f) /\ x = Len(t)
  OBVIOUS
<1>2. /\ n \in Nat /\ m \in Nat /\ x \in Nat /\ Len(g) = m + x
      /\ \A k \in 1..m : g[k] = f[k]
      /\ \A k \in 1..x : g[m + k].line = t[k]
  BY <1>1 DEF FiledIn
<1>3. /\ \A k \in 1..m : f[k].line \in 1..n /\ ~Held(b, f[k].line)
      /\ \A k, h \in 1..m : f[k].line = f[h].line => k = h
      /\ \A k \in 1..x : Held(b, t[k]) /\ t[k] \in 1..n
      /\ \A k, h \in 1..x : t[k] = t[h] => k = h
  BY <1>1 DEF FiledIn, HeldIn, Held
<1>4. \A k \in 1..(m + x) : k \in 1..m \/ (k - m \in 1..x /\ k = m + (k - m) /\ k \notin 1..m)
  BY <1>2
<1>5. \A k \in 1..(m + x) : k \notin 1..m => g[k].line = t[k - m]
  BY <1>2, <1>4
<1>6. \A k \in 1..(m + x) : g[k].line \in 1..n
  BY <1>2, <1>3, <1>4, <1>5
<1>7. ASSUME NEW k \in 1..(m + x), NEW h \in 1..(m + x), g[k].line = g[h].line
      PROVE  k = h
  <2>1. CASE k \in 1..m /\ h \in 1..m
    BY <1>2, <1>3, <1>7, <2>1
  <2>a. \A j \in 1..m : ~Held(b, g[j].line)
    BY <1>2, <1>3
  <2>b. \A j \in 1..(m + x) : j \notin 1..m => Held(b, g[j].line)
    BY <1>3, <1>4, <1>5
  <2>2. CASE k \in 1..m /\ h \notin 1..m
    BY <1>7, <2>2, <2>a, <2>b
  <2>3. CASE k \notin 1..m /\ h \in 1..m
    BY <1>7, <2>3, <2>a, <2>b
  <2>4. CASE k \notin 1..m /\ h \notin 1..m
    <3>1. k - m \in 1..x /\ h - m \in 1..x /\ t[k - m] = t[h - m]
      BY <1>4, <1>5, <1>7, <2>4
    <3>2. k - m = h - m
      BY <1>3, <3>1
    <3> QED
      BY <1>2, <3>2
  <2> QED
    BY <2>1, <2>2, <2>3, <2>4
<1> QED
  BY <1>1, <1>2, <1>6, <1>7

(* What was filed stays so, and what is held when an annotation or a field *)
(* comes is filed with it.                                                 *)
LEMMA FiledGrows ==
  ASSUME NEW b \in Seq(Lines), NEW l \in Lines, NEW c, c = Append(b, l), NEW t, HeldIn(b, t),
         NEW f, FiledIn(b, f), NEW g \in Seq(EntryType), Len(t) \in Nat,
         \/ g = f
         \/ /\ l.kind \in {"$", "."} /\ Len(g) = Len(f) + Len(t)
            /\ \A k \in 1..Len(f) : g[k] = f[k]
            /\ \A k \in 1..Len(t) : g[Len(f) + k].line = t[k]
  PROVE  FiledIn(c, g)
<1>1. /\ Len(b) \in Nat /\ Len(c) = Len(b) + 1 /\ c[Len(b) + 1] = l
      /\ \A j \in 1..Len(b) : c[j] = b[j] /\ j \in 1..Len(c)
  BY Grown
<1>2. PICK n : n = Len(b)
  OBVIOUS
<1>3. n \in Nat /\ \A j \in 1..n : c[j] = b[j] /\ j \in 1..Len(c)
  BY <1>1, <1>2
<1>4. \A i \in 1..n : Held(c, i) => Held(b, i) /\ l.kind \notin {"$", "."}
  <2>1. SUFFICES ASSUME NEW i \in 1..n, Held(c, i)
                 PROVE  Held(b, i) /\ l.kind \notin {"$", "."}
    OBVIOUS
  <2>2. /\ \A j \in (i + 1)..n : j \in (i + 1)..Len(c) /\ c[j] = b[j]
        /\ n + 1 \in (i + 1)..Len(c)
    BY <1>1, <1>2, <1>3
  <2> QED
    BY <1>1, <1>2, <1>3, <2>1, <2>2 DEF Held
<1>5. CASE g = f
  BY <1>2, <1>3, <1>4, <1>5 DEF FiledIn
<1>6. CASE g # f
  <2>1. /\ \A k \in 1..Len(g) : g[k].line \in 1..n
        /\ \A k, h \in 1..Len(g) : g[k].line = g[h].line => k = h
    BY <1>1, <1>2, <1>6, FiledOnce
  <2>2. l.kind \in {"$", "."}
    BY <1>6
  <2>3. \A k \in 1..Len(g) : ~Held(c, g[k].line)
    BY <1>4, <2>1, <2>2
  <2> QED
    BY <1>3, <2>1, <2>3 DEF FiledIn
<1> QED
  BY <1>5, <1>6

LEMMA FlushKeeps ==
  ASSUME MetaInv, reading = "on", NEW l \in Lines, l.kind \in {"$", "."}, block' = Append(block, l),
         NEW p \in ParserType, p.tags = parser.tags, Takes(l, parser, [p EXCEPT !.tags = <<>>]),
         Flush(p)
  PROVE  MetaInv'
<1>1. /\ block \in Seq(Lines) /\ LastsIn(block) /\ ParserIs(block, parser)
      /\ HeldIn(block, parser.tags) /\ FiledIn(block, filed) /\ filed \in Seq(EntryType)
  BY DEF MetaInv, FiledIn
<1>2. parser.tags \in Seq(Nat) /\ Len(parser.tags) \in Nat
  BY <1>1 DEF ParserIs, ParserType
<1>3. block' \in Seq(Lines)
  BY <1>1, Grown
<1>4. CASE p.field \notin OwnField \cup {NoName}
  BY <1>3, <1>4 DEF Flush, MetaInv, FiledWhereWritten
<1>5. CASE p.field \in OwnField \cup {NoName}
  <2>1. filed' = Filed(p) /\ parser' = [p EXCEPT !.tags = <<>>] /\ reading' = "on"
    BY <1>5 DEF Flush
  <2>2. ParserIs(block', parser')
    BY <1>1, <2>1, ParserGrows
  <2>3. parser'.tags = <<>> /\ <<>> \in Seq(Nat)
    BY <2>1 DEF ParserType
  <2>4. HeldIn(block', <<>>)
    BY <1>1, <1>2, <2>3, HeldGrows
  <2>5. /\ Filed(p) \in Seq(EntryType)
        /\ p.field = NoName => Filed(p) = filed
        /\ p.field # NoName =>
             /\ Len(Filed(p)) = Len(filed) + Len(p.tags)
             /\ \A k \in 1..Len(filed) : Filed(p)[k] = filed[k]
             /\ \A k \in 1..Len(p.tags) : Filed(p)[Len(filed) + k].line = p.tags[k]
    <3>1. /\ Filed(p) \in Seq(EntryType)
          /\ p.field = NoName => Filed(p) = filed
          /\ p.field # NoName =>
               /\ Len(Filed(p)) = Len(filed) + Len(p.tags)
               /\ \A k \in 1..Len(filed) : Filed(p)[k] = filed[k]
               /\ \A k \in 1..Len(p.tags) :
                    Filed(p)[Len(filed) + k] =
                      [field |-> p.field, annotation |-> p.annotation,
                       specifier |-> p.specifier, line |-> p.tags[k]]
      BY <1>1, FiledIs
    <3>2. ASSUME p.field # NoName, NEW k \in 1..Len(p.tags)
          PROVE  Filed(p)[Len(filed) + k].line = p.tags[k]
      <4>1. Filed(p)[Len(filed) + k] = [field |-> p.field, annotation |-> p.annotation,
                                        specifier |-> p.specifier, line |-> p.tags[k]]
        BY <3>1, <3>2
      <4> QED
        BY <4>1
    <3> QED
      BY <3>1, <3>2
  <2>6. FiledIn(block', filed')
    BY <1>1, <1>2, <2>1, <2>5, FiledGrows
  <2>7. LastsIn(block')
    BY <1>1, LastsGrow
  <2> QED
    BY <1>3, <2>1, <2>2, <2>3, <2>4, <2>6, <2>7 DEF MetaInv, FiledWhereWritten
<1> QED
  BY <1>4, <1>5

LEMMA LineKeeps ==
  ASSUME MetaInv, NEW l \in Lines, ReadLine(l)
  PROVE  MetaInv'
<1>1. /\ reading = "on" /\ block' = Append(block, l)
      /\ block \in Seq(Lines) /\ LastsIn(block) /\ ParserIs(block, parser)
      /\ HeldIn(block, parser.tags) /\ FiledIn(block, filed) /\ filed \in Seq(EntryType)
  BY DEF MetaInv, FiledIn, ReadLine
<1>2. parser \in ParserType /\ parser.tags \in Seq(Nat) /\ Len(parser.tags) \in Nat
  BY <1>1 DEF ParserIs, ParserType
<1>3. block' \in Seq(Lines) /\ Len(block) \in Nat /\ LastsIn(block')
  BY <1>1, Grown, LastsGrow
<1>4. /\ l.kind \in Kinds
      /\ l.kind = "$" => l.annotation \in Maybe /\ l.specifier \in Maybe
      /\ l.kind = ":" => l.specifier \in Maybe
      /\ l.kind = "." => l.field \in Maybe
  BY LineIs
<1>5. CASE ReadAnnotation(l)
  <2>1. PICK p : p = [parser EXCEPT !.annotation = l.annotation,
                                    !.specifier = IF l.specifier = NoName THEN @ ELSE l.specifier]
    OBVIOUS
  <2>2. Flush(p) /\ l.kind = "$"
    BY <1>5, <2>1 DEF ReadAnnotation
  <2>3. p \in ParserType /\ p.tags = parser.tags
    BY <1>2, <1>4, <2>1, <2>2 DEF ParserType
  <2>4. Takes(l, parser, [p EXCEPT !.tags = <<>>])
    <3>1. PICK r : r = [p EXCEPT !.tags = <<>>]
      OBVIOUS
    <3>2. <<>> \in Seq(Nat)
      OBVIOUS
    <3>3. /\ r \in ParserType /\ r.annotation = p.annotation /\ r.field = p.field
          /\ r.specifier = p.specifier
      BY <2>3, <3>1, <3>2 DEF ParserType
    <3> QED
      BY <1>2, <1>4, <2>1, <2>2, <3>1, <3>3 DEF ParserType, Takes
  <2> QED
    BY <1>1, <2>2, <2>3, <2>4, FlushKeeps
<1>6. CASE ReadField(l)
  <2>1. PICK p : p = [parser EXCEPT !.field = l.field]
    OBVIOUS
  <2>2. Flush(p) /\ l.kind = "."
    BY <1>6, <2>1 DEF ReadField
  <2>3. p \in ParserType /\ p.tags = parser.tags
    BY <1>2, <1>4, <2>1, <2>2 DEF ParserType
  <2>4. Takes(l, parser, [p EXCEPT !.tags = <<>>])
    <3>1. PICK r : r = [p EXCEPT !.tags = <<>>]
      OBVIOUS
    <3>2. <<>> \in Seq(Nat)
      OBVIOUS
    <3>3. /\ r \in ParserType /\ r.annotation = p.annotation /\ r.field = p.field
          /\ r.specifier = p.specifier
      BY <2>3, <3>1, <3>2 DEF ParserType
    <3> QED
      BY <1>2, <1>4, <2>1, <2>2, <3>1, <3>3 DEF ParserType, Takes
  <2> QED
    BY <1>1, <2>2, <2>3, <2>4, FlushKeeps
<1>7. CASE ReadSpecifier(l)
  <2>1. /\ l.kind = ":" /\ parser' = [parser EXCEPT !.specifier = l.specifier]
        /\ filed' = filed /\ reading' = reading
    BY <1>7 DEF ReadSpecifier
  <2>2. parser' \in ParserType /\ parser'.tags = parser.tags
    BY <1>2, <1>4, <2>1 DEF ParserType
  <2>3. Takes(l, parser, parser')
    BY <1>2, <2>1, <2>2 DEF ParserType, Takes
  <2>4. ParserIs(block', parser')
    BY <1>1, <2>3, ParserGrows
  <2>5. HeldIn(block', parser.tags)
    BY <1>1, <1>2, <2>1, HeldGrows
  <2>6. FiledIn(block', filed)
    BY <1>1, <1>2, FiledGrows
  <2> QED
    BY <1>1, <1>3, <2>1, <2>2, <2>4, <2>5, <2>6 DEF MetaInv, FiledWhereWritten
<1>8. CASE ReadTags(l)
  <2>1. l.kind = "tags" /\ filed' = filed
    BY <1>8 DEF ReadTags
  <2>2. CASE parser.annotation # NoName
    <3>1. parser' = [parser EXCEPT !.tags = Append(@, Len(block) + 1)] /\ reading' = "on"
      BY <1>1, <1>8, <2>2 DEF ReadTags
    <3>2. Append(parser.tags, Len(block) + 1) \in Seq(Nat)
      BY <1>2, <1>3
    <3>3. parser' \in ParserType /\ parser'.tags = Append(parser.tags, Len(block) + 1)
      BY <1>2, <3>1, <3>2 DEF ParserType
    <3>4. Takes(l, parser, parser')
      BY <1>2, <2>1, <2>2, <3>1, <3>3 DEF ParserType, Takes
    <3>5. ParserIs(block', parser')
      BY <1>1, <3>4, ParserGrows
    <3>6. HeldIn(block', parser'.tags)
      BY <1>1, <1>2, <2>1, <3>2, <3>3, HeldGrows
    <3>7. FiledIn(block', filed)
      BY <1>1, <1>2, FiledGrows
    <3> QED
      BY <1>3, <2>1, <3>1, <3>5, <3>6, <3>7 DEF MetaInv, FiledWhereWritten
  <2>3. CASE parser.annotation = NoName
    <3>1. reading' \in {"not annotations", "failed"}
      BY <1>8, <2>3 DEF ReadTags
    <3> QED
      BY <1>3, <3>1 DEF MetaInv, FiledWhereWritten
  <2> QED
    BY <2>2, <2>3
<1> QED
  BY <1>5, <1>6, <1>7, <1>8 DEF ReadLine

(* Among lines that are none of some kinds the last one stays.             *)
LEMMA LastStays ==
  ASSUME NEW b, Len(b) \in Nat, LastsIn(b), NEW K \in SUBSET Kinds, NEW i \in 1..Len(b),
         \A j \in i..Len(b) : b[j].kind \notin K
  PROVE  LastIn(b, K, i) = LastIn(b, K, Len(b) + 1)
<1>1. PICK n, x, y : n = Len(b) /\ x = LastIn(b, K, i) /\ y = LastIn(b, K, n + 1)
  OBVIOUS
<1>2. /\ n \in Nat /\ i \in 1..n /\ i \in 1..(n + 1) /\ n + 1 \in 1..(n + 1)
      /\ \A j \in 1..((n + 1) - 1) : j \in 1..(i - 1) \/ j \in i..n
      /\ \A j \in 1..(i - 1) : j \in 1..((n + 1) - 1)
  BY <1>1
<1>3. (NoneOf(b, K, i) /\ x = 0) \/ IsLast(b, K, i, x)
  BY <1>1, <1>2, LastInIs
<1>4. (NoneOf(b, K, n + 1) /\ y = 0) \/ IsLast(b, K, n + 1, y)
  BY <1>1, <1>2, LastInIs
<1>5. \A j \in 1..((n + 1) - 1) : b[j].kind \in K => j \in 1..(i - 1)
  BY <1>1, <1>2
<1>6. CASE NoneOf(b, K, i)
  <2>1. NoneOf(b, K, n + 1)
    BY <1>5, <1>6 DEF NoneOf
  <2> QED
    BY <1>1, <1>3, <1>4, <1>6, <2>1 DEF NoneOf, IsLast
<1>7. CASE IsLast(b, K, i, x)
  <2>1. IsLast(b, K, n + 1, y)
    BY <1>2, <1>4, <1>7 DEF NoneOf, IsLast
  <2>2. x <= y /\ y <= x
    BY <1>2, <1>5, <1>7, <2>1 DEF IsLast
  <2>3. x \in Int /\ y \in Int
    BY <1>2, <1>7, <2>1 DEF IsLast
  <2> QED
    BY <1>1, <2>2, <2>3
<1> QED
  BY <1>3, <1>6, <1>7

(* At the end of the block, where everything held is filed.                *)
LEMMA EndKeeps ==
  ASSUME MetaInv, EndBlock
  PROVE  MetaInv'
<1>1. /\ reading = "on" /\ reading' = "done" /\ block' = block /\ filed' = Filed(parser)
      /\ block \in Seq(Lines) /\ LastsIn(block) /\ ParserIs(block, parser)
      /\ HeldIn(block, parser.tags) /\ FiledIn(block, filed) /\ filed \in Seq(EntryType)
  BY DEF MetaInv, FiledIn, EndBlock
<1>2. /\ parser \in ParserType /\ parser.tags \in Seq(Nat) /\ Len(parser.tags) \in Nat
      /\ Len(block) \in Nat /\ Len(filed) \in Nat /\ DOMAIN block = 1..Len(block)
  BY <1>1 DEF ParserIs, ParserType
<1>3. PICK b, n, p, f, g : b = block /\ n = Len(block) /\ p = parser /\ f = filed /\ g = filed'
  OBVIOUS
<1>4. /\ g \in Seq(EntryType)
      /\ p.field = NoName => g = f
      /\ p.field # NoName =>
           /\ Len(g) = Len(f) + Len(p.tags)
           /\ \A k \in 1..Len(f) : g[k] = f[k]
           /\ \A k \in 1..Len(p.tags) :
                g[Len(f) + k] = [field |-> p.field, annotation |-> p.annotation,
                                 specifier |-> p.specifier, line |-> p.tags[k]]
  BY <1>1, <1>2, <1>3, FiledIs
<1>5. DOMAIN g = 1..Len(g) /\ Len(g) \in Nat
  BY <1>4
<1>6. \A k, h \in 1..Len(g) : g[k].line = g[h].line => k = h
  <2>1. CASE p.field = NoName
    BY <1>1, <1>3, <1>4, <2>1 DEF FiledIn
  <2>2. CASE p.field # NoName
    <3>1. PICK t : t = p.tags
      OBVIOUS
    <3>2. Len(g) = Len(f) + Len(t) /\ \A k \in 1..Len(f) : g[k] = f[k]
      BY <1>4, <2>2, <3>1
    <3>3. ASSUME NEW k \in 1..Len(t) PROVE g[Len(f) + k].line = t[k]
      <4>1. g[Len(f) + k] = [field |-> p.field, annotation |-> p.annotation,
                             specifier |-> p.specifier, line |-> t[k]]
        BY <1>4, <2>2, <3>1, <3>3
      <4> QED
        BY <4>1
    <3>4. Len(b) \in Nat /\ HeldIn(b, t) /\ FiledIn(b, f) /\ Len(t) \in Nat
      BY <1>1, <1>2, <1>3, <3>1
    <3>5. f \in Seq(EntryType) /\ g \in Seq(EntryType) /\ Len(f) \in Nat /\ Len(g) \in Nat
      BY <1>1, <1>3, <1>4
    <3>6. \A k \in 1..Len(t) : g[Len(f) + k].line = t[k]
      BY <3>3
    <3>7. PICK x, y, m : x = Len(f) /\ y = Len(t) /\ m = Len(b)
      OBVIOUS
    <3>8. /\ Len(g) = x + y /\ m \in Nat /\ y \in Nat
          /\ \A k \in 1..x : g[k] = f[k]
          /\ \A k \in 1..y : g[x + k].line = t[k]
      BY <3>2, <3>4, <3>6, <3>7
    <3> QED
      BY <3>4, <3>7, <3>8, FiledOnce
  <2> QED
    BY <2>1, <2>2
<1>7. /\ {"$"} \in SUBSET Kinds /\ {"."} \in SUBSET Kinds /\ {":", "$"} \in SUBSET Kinds
  BY DEF Kinds
<1>8. PICK at, under, sp : /\ at = LastIn(b, {"$"}, n + 1) /\ under = LastIn(b, {"."}, n + 1)
                           /\ sp = LastIn(b, {":", "$"}, n + 1)
  OBVIOUS
<1>9. /\ p.annotation = IF at = 0 THEN NoName ELSE b[at].annotation
      /\ p.field = IF under = 0 THEN NoName ELSE b[under].field
      /\ (\A j \in 1..(at - 1) : ~Said(b, j)) =>
           p.specifier = IF sp = 0 THEN NoName ELSE b[sp].specifier
      /\ (\E j \in 1..n : b[j].kind = "tags") => at > 0
  BY <1>1, <1>3, <1>8 DEF ParserIs
<1>10. /\ (at = 0 /\ NoneOf(b, {"$"}, n + 1)) \/ IsLast(b, {"$"}, n + 1, at)
       /\ (under = 0 /\ NoneOf(b, {"."}, n + 1)) \/ IsLast(b, {"."}, n + 1, under)
       /\ (sp = 0 /\ NoneOf(b, {":", "$"}, n + 1)) \/ IsLast(b, {":", "$"}, n + 1, sp)
  <2>1. n + 1 \in 1..(Len(b) + 1) /\ Len(b) \in Nat /\ LastsIn(b)
    BY <1>1, <1>2, <1>3
  <2> QED
    BY <1>7, <1>8, <2>1, LastInIs
<1>11. under # 0 => p.field # NoName
  <2>1. CASE under # 0
    <3>1. under \in 1..n /\ b[under].kind = "."
      BY <1>2, <1>3, <1>10, <2>1 DEF IsLast
    <3>2. b[under] \in Lines
      BY <1>1, <1>3, <3>1
    <3> QED
      BY <1>9, <2>1, <3>1, <3>2, LineIs
  <2> QED
    BY <2>1
<1>12. at > 0 => sp # 0
  <2>1. CASE at > 0
    <3>1. at \in 1..((n + 1) - 1) /\ b[at].kind = "$"
      BY <1>10, <2>1 DEF IsLast
    <3>2. ~NoneOf(b, {":", "$"}, n + 1)
      BY <3>1 DEF NoneOf
    <3> QED
      BY <1>2, <1>3, <1>10, <3>2 DEF IsLast
  <2> QED
    BY <2>1
<1>13. /\ \A i : LastOf({"$"}, i)' = LastIn(b, {"$"}, i)
       /\ \A i : LastOf({"."}, i)' = LastIn(b, {"."}, i)
       /\ \A i : LastOf({":", "$"}, i)' = LastIn(b, {":", "$"}, i)
  BY <1>1, <1>3 DEF LastOf, LastIn
<1>14. ASSUME NEW i \in 1..n, b[i].kind = "tags", \A j \in (i + 1)..n : b[j].kind = "tags"
       PROVE  /\ Held(b, i)
              /\ LastIn(b, {"$"}, i) = at /\ LastIn(b, {"."}, i) = under
              /\ LastIn(b, {":", "$"}, i) = sp
  <2>1. \A j \in i..n : b[j].kind = "tags"
    <3>1. \A j \in i..n : j = i \/ j \in (i + 1)..n
      BY <1>2, <1>3
    <3> QED
      BY <1>14, <3>1
  <2>2. Len(b) = n /\ Len(b) \in Nat /\ LastsIn(b)
    BY <1>1, <1>2, <1>3
  <2>3. ASSUME NEW K \in SUBSET Kinds, "tags" \notin K PROVE LastIn(b, K, i) = LastIn(b, K, n + 1)
    BY <2>1, <2>2, <2>3, LastStays
  <2>4. Held(b, i)
    BY <1>14, <2>2 DEF Held
  <2> QED
    BY <1>7, <1>8, <2>3, <2>4
<1>15. ASSUME NEW i \in 1..n, b[i].kind = "tags", \A j \in (i + 1)..n : b[j].kind = "tags"
       PROVE  /\ under = 0 => \A k \in 1..Len(g) : g[k].line # i
              /\ under > 0 /\ (\A j \in 1..(at - 1) : ~Said(b, j)) =>
                   \E k \in 1..Len(g) :
                     g[k] = [field |-> b[under].field, annotation |-> b[at].annotation,
                             specifier |-> b[sp].specifier, line |-> i]
  <2>1. Held(b, i) /\ at > 0
    BY <1>9, <1>14, <1>15
  <2>2. ASSUME under = 0, NEW k \in 1..Len(g) PROVE g[k].line # i
    <3>1. g = f
      BY <1>4, <1>9, <2>2
    <3> QED
      BY <1>1, <1>3, <2>1, <2>2, <3>1 DEF FiledIn
  <2>3. ASSUME under > 0, \A j \in 1..(at - 1) : ~Said(b, j)
        PROVE  \E k \in 1..Len(g) :
                 g[k] = [field |-> b[under].field, annotation |-> b[at].annotation,
                         specifier |-> b[sp].specifier, line |-> i]
    <3>1. p.field = b[under].field /\ p.field # NoName
      BY <1>9, <1>11, <2>3
    <3>2. p.annotation = b[at].annotation /\ p.specifier = b[sp].specifier
      BY <1>9, <1>12, <2>1, <2>3
    <3>3. PICK k \in 1..Len(p.tags) : p.tags[k] = i
      BY <1>1, <1>3, <1>15, <2>1 DEF HeldIn
    <3>4. Len(g) = Len(f) + Len(p.tags)
      BY <1>4, <3>1
    <3>5. Len(f) + k \in 1..Len(g)
      BY <1>2, <1>3, <3>3, <3>4
    <3>6. g[Len(f) + k] = [field |-> b[under].field, annotation |-> b[at].annotation,
                           specifier |-> b[sp].specifier, line |-> i]
      BY <1>4, <3>1, <3>2, <3>3
    <3> QED
      BY <3>5, <3>6
  <2> QED
    BY <2>2, <2>3
<1>16. FiledWhereWritten'
  <2> DEFINE Written(i, last, under2, specifier) ==
               LET entries == {k \in DOMAIN g : g[k].line = i}
                   later == \E j \in (i + 1)..Len(b) : b[j].kind # "tags"
                   leftOver == \E j \in 1..(last - 1) :
                                 b[j].kind \in {":", "$"} /\ b[j].specifier # NoName
               IN  /\ \A k, m \in entries : k = m
                   /\ ~later /\ under2 = 0 => entries = {}
                   /\ ~later /\ under2 > 0 /\ ~leftOver =>
                        \E k \in entries :
                          g[k] = [field |-> b[under2].field, annotation |-> b[last].annotation,
                                  specifier |-> b[specifier].specifier, line |-> i]
  <2>3. FiledWhereWritten' <=>
          \A i \in {j \in DOMAIN b : b[j].kind = "tags"} :
            Written(i, LastOf({"$"}, i)', LastOf({"."}, i)', LastOf({":", "$"}, i)')
    BY <1>1, <1>3 DEF FiledWhereWritten
  <2> HIDE DEF Written
  <2> SUFFICES ASSUME NEW i \in 1..n, b[i].kind = "tags"
               PROVE  Written(i, LastIn(b, {"$"}, i), LastIn(b, {"."}, i), LastIn(b, {":", "$"}, i))
    BY <1>2, <1>3, <1>13, <2>3
  <2>1. CASE \A j \in (i + 1)..n : b[j].kind = "tags"
    <3>1. /\ LastIn(b, {"$"}, i) = at /\ LastIn(b, {"."}, i) = under
          /\ LastIn(b, {":", "$"}, i) = sp
      BY <1>14, <2>1
    <3>2. /\ under = 0 => \A k \in 1..Len(g) : g[k].line # i
          /\ under > 0 /\ (\A j \in 1..(at - 1) : ~Said(b, j)) =>
               \E k \in 1..Len(g) :
                 g[k] = [field |-> b[under].field, annotation |-> b[at].annotation,
                         specifier |-> b[sp].specifier, line |-> i]
      BY <1>15, <2>1
    <3>3. Len(b) = n
      BY <1>3
    <3> QED
      BY <1>5, <1>6, <3>1, <3>2, <3>3 DEF Written, Said
  <2>2. CASE \E j \in (i + 1)..n : b[j].kind # "tags"
    <3>1. Len(b) = n
      BY <1>3
    <3> QED
      BY <1>5, <1>6, <2>2, <3>1 DEF Written
  <2> QED
    BY <2>1, <2>2
<1> QED
  BY <1>1, <1>16 DEF MetaInv

LEMMA MetaStart == MetaInit => MetaInv
<1> SUFFICES ASSUME MetaInit PROVE MetaInv
  OBVIOUS
<1>1. /\ block = <<>> /\ Len(block) = 0 /\ block \in Seq(Lines) /\ filed = <<>> /\ Len(filed) = 0
      /\ filed \in Seq(EntryType) /\ reading = "on" /\ parser = AtStart
  BY DEF MetaInit
<1>2. parser.tags = <<>> /\ Len(parser.tags) = 0 /\ <<>> \in Seq(Nat)
  BY <1>1 DEF AtStart
<1>3. \A i \in 1..(Len(block) + 1) : i = 1 /\ 1..(i - 1) = {}
  BY <1>1
<1>4. LastsIn(block)
  BY <1>3 DEF LastsIn, NoneOf
<1>5. \A K : LastIn(block, K, Len(block) + 1) = 0
  <2>1. SUFFICES ASSUME NEW K PROVE LastIn(block, K, Len(block) + 1) = 0
    OBVIOUS
  <2>2. PICK s : s = {j \in 1..((Len(block) + 1) - 1) : block[j].kind \in K}
    OBVIOUS
  <2>3. s = {}
    BY <1>1, <2>2
  <2>4. LastIn(block, K, Len(block) + 1) = IF s = {} THEN 0 ELSE CHOOSE j \in s : \A o \in s : o <= j
    BY <2>2 DEF LastIn
  <2> QED
    BY <2>3, <2>4
<1>6. parser \in ParserType
  <2>1. NoName \in Maybe
    BY DEF Maybe
  <2> QED
    BY <1>1, <1>2, <2>1 DEF AtStart, ParserType
<1>7. ParserIs(block, parser)
  BY <1>1, <1>5, <1>6 DEF ParserIs, AtStart
<1>8. HeldIn(block, parser.tags) /\ FiledIn(block, filed)
  BY <1>1, <1>2 DEF HeldIn, FiledIn
<1> QED
  BY <1>1, <1>4, <1>7, <1>8 DEF MetaInv, FiledWhereWritten

LEMMA MetaStep == MetaInv /\ [MetaNext]_metaVars => MetaInv'
<1> SUFFICES ASSUME MetaInv, [MetaNext]_metaVars PROVE MetaInv'
  OBVIOUS
<1>1. ASSUME NEW l \in Lines, ReadLine(l) PROVE MetaInv'
  BY <1>1, LineKeeps
<1>2. CASE EndBlock
  BY <1>2, EndKeeps
<1>3. CASE UNCHANGED metaVars
  <2>1. block' = block /\ parser' = parser /\ filed' = filed /\ reading' = reading
    BY <1>3 DEF metaVars
  <2>3. FiledWhereWritten' <=> FiledWhereWritten
    BY <2>1 DEF FiledWhereWritten, LastOf
  <2> QED
    BY <2>1, <2>3 DEF MetaInv
<1> QED
  BY <1>1, <1>2, <1>3 DEF MetaNext

(* Tags of a block are filed once, under what the lines before them say.   *)
THEOREM TagsAreFiled == MetaSpec => []FiledWhereWritten
<1>1. MetaInv => FiledWhereWritten
  BY DEF MetaInv
<1> QED
  BY <1>1, MetaStart, MetaStep, PTL DEF MetaSpec

(***************************************************************************)
(* Annotations that types share.  D is the input throughout.               *)
(***************************************************************************)
TagNames == Type \X Name \X Key
NamesIn(D, e) == {n \in Name : <<e, n>> \in DOMAIN D}
GivesIn(D, e, n, k) == <<e, n>> \in DOMAIN D /\ k \in Range(D[<<e, n>>])

(* The first of a line to declare the annotation: the others append to it. *)
FirstIn(D, x, n) ==
  /\ x \in Type /\ n \in NamesIn(D, x)
  /\ \A y \in Line[x] : n \in NamesIn(D, y) => y = x

AnnotationsTypeOK ==
  /\ declared \in Declarations /\ tagsOf \in [DOMAIN declared -> Seq(TagNames)]
  /\ value \in [TagNames -> Type]
  /\ DOMAIN full \subseteq Type /\ making \in DOMAIN full \cup {NoType} /\ left \subseteq Name
  /\ incoming \in Seq(TagNames)
  /\ making = NoType => left = {} /\ incoming = <<>>
  /\ \A n \in left : n \in NamesIn(declared, making)

(* Types are made in the order of their line.                              *)
Finished(d) == Derived(d) => d \in DOMAIN full /\ d # making
LineInv == \A d \in DOMAIN full : Derived(d) /\ \A y \in Line[d] : y = d \/ Finished(y)

(* A map has what the line declares, from the first that does.             *)
Appending(d, n) == d \in DOMAIN full /\ ~(d = making /\ n \in left)
Open(d, n) == d = making /\ n \in left
MapInv ==
  \A d \in DOMAIN full :
    /\ \A n \in DOMAIN full[d] :
         /\ n \in Name
         /\ \E x \in Line[d] : FirstIn(declared, x, n) /\ full[d][n] = <<x, n>>
         /\ \E y \in Line[d] : n \in NamesIn(declared, y) /\ ~Open(y, n)
    /\ \A y \in Line[d] : \A n \in NamesIn(declared, y) : ~Open(y, n) => n \in DOMAIN full[d]

(* An annotation's tags are its own, or, of a first one, of those of its   *)
(* line that were appended.                                                *)
OwnOrAppended(a, t) ==
  t[1] = a[1] \/ (FirstIn(declared, a[1], a[2]) /\ a[1] \in Line[t[1]] /\ Appending(t[1], a[2]))
TagInv ==
  \A a \in DOMAIN declared :
    /\ \A i \in 1..Len(tagsOf[a]) :
         /\ tagsOf[a][i][2] = a[2] /\ GivesIn(declared, tagsOf[a][i][1], a[2], tagsOf[a][i][3])
         /\ OwnOrAppended(a, tagsOf[a][i])
    /\ \A k \in Key : GivesIn(declared, a[1], a[2], k) =>
         \E i \in 1..Len(tagsOf[a]) : tagsOf[a][i] = <<a[1], a[2], k>>

(* What is left to append is the type's own, with its own value.           *)
RestInv ==
  \A j \in 1..Len(incoming) :
    LET n == incoming[j][2]
    IN  /\ incoming[j][1] = making /\ n \in DOMAIN full[making] /\ n \notin left
        /\ GivesIn(declared, making, n, incoming[j][3]) /\ ~FirstIn(declared, making, n)
        /\ value[incoming[j]] = making

(* Nobody wrote to a tag that was not appended, unless to a first one's.   *)
ValueInv ==
  \A t \in TagNames :
    FirstIn(declared, t[1], t[2]) \/ Appending(t[1], t[2]) \/ value[t] = t[1]

(* The value of the tag that is read is of one who wrote, and nobody wrote *)
(* who is further down the line.                                           *)
MayWrite(d, x, n, k) ==
  GivesIn(declared, d, n, k) /\ x \in Line[d] /\ (d = x \/ Appending(d, n))
HasWritten(d, x, n, k) ==
  /\ GivesIn(declared, d, n, k) /\ x \in Line[d]
  /\ d = x \/ (Appending(d, n) /\ \A j \in 1..Len(incoming) : incoming[j] # <<d, n, k>>)
FirstAt(ts, k, i) == i \in 1..Len(ts) /\ ts[i][3] = k /\ \A j \in 1..(i - 1) : ts[j][3] # k
Latest(v, x, n, k) ==
  /\ MayWrite(v, x, n, k)
  /\ \A d \in Type : HasWritten(d, x, n, k) /\ v \in Line[d] => v = d
CurrentInv ==
  \A x \in Type, n \in Name, k \in Key : FirstIn(declared, x, n) =>
    LET ts == tagsOf[<<x, n>>]
    IN  /\ (\A i \in 1..Len(ts) : ts[i][3] # k) => \A d \in Type : ~HasWritten(d, x, n, k)
        /\ \A i \in 1..Len(ts), v \in Type :
              FirstAt(ts, k, i) /\ v = value[ts[i]] => Latest(v, x, n, k)

AnnotationsInv ==
  /\ AnnotationsTypeOK /\ LineInv /\ MapInv /\ TagInv /\ RestInv /\ ValueInv /\ CurrentInv

LEMMA BaseType == \A e \in Type : Base[e] \in Type \cup {NoType}
BY LineageAssumption

LEMMA LineStep ==
  ASSUME NEW e \in Type
  PROVE  /\ Line[e] \subseteq Type /\ e \in Line[e]
         /\ \A x \in Line[e] : Base[x] # NoType => Base[x] \in Line[e]
BY BaseType DEF Line

(* What holds of a type, and of the base of whatever it holds of, holds of *)
(* its line.                                                               *)
LEMMA LineLeast ==
  ASSUME NEW e \in Type, NEW S \in SUBSET Type, e \in S,
         \A x \in S : Base[x] # NoType => Base[x] \in S
  PROVE  Line[e] \subseteq S
BY DEF Line

LEMMA LineOf ==
  ASSUME NEW e \in Type
  PROVE  \A x : x \in Line[e] <=> x = e \/ (Base[e] # NoType /\ x \in Line[Base[e]])
<1>1. CASE Base[e] = NoType
  <2> PICK S : S = {e} OBVIOUS
  <2>1. Line[e] \subseteq S BY <1>1, LineLeast
  <2> QED BY <2>1, <1>1, LineStep
<1>2. CASE Base[e] # NoType
  <2>1. PICK b \in Type : b = Base[e] BY <1>2, BaseType
  <2>2. PICK S \in SUBSET Type : S = {e} \cup Line[b] BY LineStep
  <2>3. \A x \in S : Base[x] # NoType => Base[x] \in S BY <2>1, <2>2, LineStep
  <2>4. Line[e] \subseteq S BY <2>3, <2>2, LineLeast
  <2>5. b \in Line[e] BY <1>2, <2>1, LineStep
  <2>6. Line[b] \subseteq Line[e]
    <3> PICK T \in SUBSET Type : T = Line[e] BY LineStep
    <3>1. \A x \in T : Base[x] # NoType => Base[x] \in T BY LineStep
    <3>2. b \in T BY <2>5
    <3> QED BY <3>1, <3>2, LineLeast
  <2> QED BY <1>2, <2>1, <2>2, <2>4, <2>6, LineStep
<1> QED BY <1>1, <1>2

LEMMA LineWithin ==
  ASSUME NEW e \in Type, NEW d \in Line[e]
  PROVE  d \in Type /\ Line[d] \subseteq Line[e]
<1>1. d \in Type BY LineStep
<1> PICK T \in SUBSET Type : T = Line[e] BY LineStep
<1>2. \A x \in T : Base[x] # NoType => Base[x] \in T BY LineStep
<1>3. d \in T OBVIOUS
<1> QED BY <1>1, <1>2, <1>3, LineLeast

(* Of two types in one line, one is in the line of the other.              *)
LEMMA LineChain ==
  ASSUME NEW e \in Type, NEW x \in Line[e], NEW y \in Line[e]
  PROVE  x \in Line[y] \/ y \in Line[x]
<1> DEFINE Ordered(z) == \A u, v \in Line[z] : u \in Line[v] \/ v \in Line[u]
<1> SUFFICES \A z \in Type : Ordered(z) OBVIOUS
<1> SUFFICES ASSUME \E z \in Type : ~Ordered(z) PROVE FALSE OBVIOUS
<1> PICK S \in SUBSET Type : S = {z \in Type : ~Ordered(z)} OBVIOUS
<1>1. S # {} OBVIOUS
<1>2. PICK z \in S : Base[z] \notin S BY <1>1, LineageAssumption
<1>3. PICK u, v \in Line[z] : u \notin Line[v] /\ v \notin Line[u] BY <1>2
<1>4. z \in Type OBVIOUS
<1>5. u \in Type /\ v \in Type BY <1>4, LineStep
<1>6. u # z /\ v # z BY <1>3, <1>4
<1>7. Base[z] # NoType BY <1>4, <1>6, LineOf
<1>8. u \in Line[Base[z]] /\ v \in Line[Base[z]] BY <1>4, <1>6, <1>7, LineOf
<1>9. Base[z] \in Type BY <1>4, <1>7, BaseType
<1>10. Ordered(Base[z]) BY <1>9, <1>2
<1> QED BY <1>10, <1>8, <1>3

LEMMA LineOnce ==
  ASSUME NEW x \in Type, NEW y \in Line[x], x \in Line[y]
  PROVE  x = y
<1> SUFFICES ASSUME x # y PROVE FALSE OBVIOUS
<1> PICK S \in SUBSET Type : S = {z \in Type : z \in Line[x] /\ x \in Line[z]} OBVIOUS
<1>1. x \in S BY LineStep
<1>2. PICK z \in S : Base[z] \notin S BY <1>1, LineageAssumption
<1>3. z \in Type /\ z \in Line[x] /\ x \in Line[z] OBVIOUS
<1>4. ASSUME Base[z] # NoType, x \in Line[Base[z]] PROVE FALSE
  <2>1. Base[z] \in Type BY <1>3, <1>4, BaseType
  <2>2. Base[z] \in Line[x] BY <1>3, <1>4, LineStep
  <2> QED BY <2>1, <2>2, <1>4, <1>2
<1>5. x = z BY <1>3, <1>4, LineOf
<1>6. Base[x] # NoType /\ y \in Line[Base[x]] BY <1>5, LineOf
<1>7. Base[x] \in Type BY <1>6, BaseType
<1>8. Line[y] \subseteq Line[Base[x]] BY <1>6, <1>7, LineWithin
<1> QED BY <1>8, <1>6, <1>5, <1>4

(* If a line declares an annotation, one of it does so first, and only one.*)
LEMMA FirstInLine ==
  ASSUME NEW D, NEW e \in Type, NEW n, NEW d \in Line[e], n \in NamesIn(D, d)
  PROVE  \E x \in Line[e] : FirstIn(D, x, n)
<1> PICK S \in SUBSET Type : S = {z \in Line[e] : \E y \in Line[z] : n \in NamesIn(D, y)} BY LineStep
<1>0. d \in Type BY LineStep
<1>1. d \in S BY <1>0, LineStep
<1>2. PICK z \in S : Base[z] \notin S BY <1>1, LineageAssumption
<1>3. z \in Type /\ z \in Line[e] BY LineStep
<1>4. ASSUME Base[z] # NoType, NEW y \in Line[Base[z]], n \in NamesIn(D, y) PROVE FALSE
  <2>1. Base[z] \in Line[e] BY <1>3, <1>4, LineStep
  <2> QED BY <2>1, <1>4, <1>2
<1>5. \A y \in Line[z] : n \in NamesIn(D, y) => y = z BY <1>3, <1>4, LineOf
<1>6. n \in NamesIn(D, z) BY <1>2, <1>5
<1> QED BY <1>3, <1>5, <1>6 DEF FirstIn

LEMMA FirstOnce ==
  ASSUME NEW D, NEW e \in Type, NEW n, NEW x \in Line[e], NEW y \in Line[e],
         FirstIn(D, x, n), FirstIn(D, y, n)
  PROVE  x = y
BY LineChain DEF FirstIn

(* The first index with a key.                                             *)
LEMMA FirstExists ==
  ASSUME NEW ts \in Seq(TagNames), NEW k, \E i \in 1..Len(ts) : ts[i][3] = k
  PROVE  \E i \in 1..Len(ts) : FirstAt(ts, k, i)
<1> PICK S : S = {i \in 1..Len(ts) : ts[i][3] = k} OBVIOUS
<1>1. S \subseteq Nat /\ S # {} OBVIOUS
<1>2. PICK i \in S : \A j \in S : <<j, i>> \notin OpToRel(<, Nat)
  BY <1>1, NatLessThanWellFounded, WFMin
<1>3. \A j \in 1..(i - 1) : ts[j][3] # k
  <2> SUFFICES ASSUME NEW j \in 1..(i - 1), ts[j][3] = k PROVE FALSE OBVIOUS
  <2>1. j \in S /\ j \in Nat /\ i \in Nat /\ j < i BY <1>1
  <2> QED BY <2>1, <1>2 DEF OpToRel
<1> QED BY <1>3 DEF FirstAt

LEMMA PositionOf ==
  ASSUME NEW ts \in Seq(TagNames), NEW k
  PROVE  /\ (\E i \in 1..Len(ts) : ts[i][3] = k) => FirstAt(ts, k, Position(ts, k))
         /\ (\A i \in 1..Len(ts) : ts[i][3] # k) => Position(ts, k) = 0
<1>1. DOMAIN ts = 1..Len(ts) OBVIOUS
<1>2. ASSUME \E i \in 1..Len(ts) : ts[i][3] = k PROVE FirstAt(ts, k, Position(ts, k))
  <2>1. \E i \in 1..Len(ts) : FirstAt(ts, k, i) BY <1>2, FirstExists
  <2>2. \E i \in DOMAIN ts : ts[i][3] = k /\ \A j \in 1..(i - 1) : ts[j][3] # k
    BY <2>1, <1>1 DEF FirstAt
  <2>3. Position(ts, k) = CHOOSE i \in DOMAIN ts : ts[i][3] = k /\ \A j \in 1..(i - 1) : ts[j][3] # k
    BY <1>1, <1>2 DEF Position
  <2>4. PICK i : i = CHOOSE h \in DOMAIN ts : ts[h][3] = k /\ \A j \in 1..(h - 1) : ts[j][3] # k OBVIOUS
  <2>5. i \in DOMAIN ts /\ ts[i][3] = k /\ \A j \in 1..(i - 1) : ts[j][3] # k BY ONLY <2>2, <2>4, Zenon
  <2> QED BY <2>3, <2>4, <2>5, <1>1 DEF FirstAt
<1>3. ASSUME \A i \in 1..Len(ts) : ts[i][3] # k PROVE Position(ts, k) = 0
  BY <1>1, <1>3 DEF Position
<1> QED BY <1>2, <1>3

LEMMA DeclaredType ==
  ASSUME AnnotationsTypeOK
  PROVE  /\ DOMAIN declared \subseteq Type \X Name
         /\ \A a \in DOMAIN declared : declared[a] \in Seq(Key)
BY DeclarationsAssumption DEF AnnotationsTypeOK

LEMMA AnnotationsInitInv == AnnotationsInit => AnnotationsInv
<1> SUFFICES ASSUME AnnotationsInit PROVE AnnotationsInv OBVIOUS
<1> USE DEF AnnotationsInit
<1>1. DOMAIN declared \subseteq Type \X Name /\ \A a \in DOMAIN declared : declared[a] \in Seq(Key)
  BY DeclarationsAssumption
<1>2. DOMAIN full = {} OBVIOUS
<1>3. \A a \in DOMAIN declared :
        /\ tagsOf[a] \in Seq(TagNames) /\ Len(tagsOf[a]) = Len(declared[a])
        /\ \A i \in 1..Len(declared[a]) : tagsOf[a][i] = <<a[1], a[2], declared[a][i]>>
  <2> SUFFICES ASSUME NEW a \in DOMAIN declared
               PROVE  /\ tagsOf[a] \in Seq(TagNames) /\ Len(tagsOf[a]) = Len(declared[a])
                      /\ \A i \in 1..Len(declared[a]) : tagsOf[a][i] = <<a[1], a[2], declared[a][i]>>
    OBVIOUS
  <2>1. declared[a] \in Seq(Key) /\ a[1] \in Type /\ a[2] \in Name BY <1>1
  <2>2. tagsOf[a] = [i \in 1..Len(declared[a]) |-> <<a[1], a[2], declared[a][i]>>] BY <2>1
  <2>3. Len(declared[a]) \in Nat BY <2>1
  <2>4. \A i \in 1..Len(declared[a]) : <<a[1], a[2], declared[a][i]>> \in TagNames BY <2>1 DEF TagNames
  <2> QED BY <2>2, <2>3, <2>4
<1>4. AnnotationsTypeOK
  <2>1. tagsOf \in [DOMAIN declared -> Seq(TagNames)] BY <1>3
  <2>2. value \in [TagNames -> Type] BY DEF TagNames
  <2> QED BY <2>1, <2>2, <1>2 DEF AnnotationsTypeOK
<1>5. LineInv /\ MapInv /\ RestInv BY <1>2 DEF LineInv, MapInv, RestInv
<1>6. ValueInv BY DEF ValueInv, TagNames
<1>7. TagInv
  <2> SUFFICES ASSUME NEW a \in DOMAIN declared
      PROVE  /\ \A i \in 1..Len(tagsOf[a]) :
                  /\ tagsOf[a][i][2] = a[2] /\ GivesIn(declared, tagsOf[a][i][1], a[2], tagsOf[a][i][3])
                  /\ OwnOrAppended(a, tagsOf[a][i])
             /\ \A k \in Key : GivesIn(declared, a[1], a[2], k) =>
                  \E i \in 1..Len(tagsOf[a]) : tagsOf[a][i] = <<a[1], a[2], k>>
    BY DEF TagInv
  <2>1. PICK e \in Type, n \in Name : a = <<e, n>> BY <1>1
  <2>2. PICK ks \in Seq(Key) : ks = declared[a] BY <1>1
  <2>3. \A k : k \in Range(ks) <=> \E i \in 1..Len(ks) : k = ks[i] BY DEF Range
  <2>4. a[1] = e /\ a[2] = n BY <2>1
  <2>5. \A k : GivesIn(declared, e, n, k) <=> k \in Range(ks) BY <2>1, <2>2 DEF GivesIn
  <2>6. PICK ts : ts = tagsOf[a] OBVIOUS
  <2>7. Len(ts) = Len(ks) /\ \A i \in 1..Len(ks) : ts[i] = <<e, n, ks[i]>>
    BY <1>3, <2>2, <2>4, <2>6
  <2>8. ASSUME NEW i \in 1..Len(ts)
        PROVE  ts[i][1] = e /\ ts[i][2] = n /\ GivesIn(declared, ts[i][1], n, ts[i][3])
    <3>1. PICK k : k = ks[i] OBVIOUS
    <3>2. ts[i] = <<e, n, k>> BY <2>7, <3>1
    <3>3. GivesIn(declared, e, n, k) BY <2>3, <2>5, <2>7, <3>1
    <3>4. ts[i][1] = e /\ ts[i][2] = n /\ ts[i][3] = k BY <3>2
    <3> QED BY <3>3, <3>4
  <2>9. ASSUME NEW k \in Key, GivesIn(declared, e, n, k) PROVE \E i \in 1..Len(ts) : ts[i] = <<e, n, k>>
    BY <2>3, <2>5, <2>7, <2>9
  <2>10. \A i \in 1..Len(ts) : OwnOrAppended(a, ts[i]) BY <2>4, <2>8 DEF OwnOrAppended
  <2>11. \A i \in 1..Len(ts) : ts[i][1] = e /\ ts[i][2] = n /\ GivesIn(declared, ts[i][1], n, ts[i][3])
    BY <2>8
  <2>12. \A k \in Key : GivesIn(declared, e, n, k) => \E i \in 1..Len(ts) : ts[i] = <<e, n, k>>
    BY <2>9
  <2> QED BY ONLY <2>4, <2>6, <2>10, <2>11, <2>12
<1>8. CurrentInv
  <2> SUFFICES ASSUME NEW x \in Type, NEW n \in Name, NEW k \in Key, FirstIn(declared, x, n)
      PROVE  /\ (\A i \in 1..Len(tagsOf[<<x, n>>]) : tagsOf[<<x, n>>][i][3] # k) =>
                  \A d \in Type : ~HasWritten(d, x, n, k)
             /\ \A i \in 1..Len(tagsOf[<<x, n>>]), v \in Type :
                  FirstAt(tagsOf[<<x, n>>], k, i) /\ v = value[tagsOf[<<x, n>>][i]] => Latest(v, x, n, k)
    BY DEF CurrentInv
  <2>1. <<x, n>> \in DOMAIN declared BY DEF FirstIn, NamesIn
  <2>2. \A d \in Type : HasWritten(d, x, n, k) => d = x /\ GivesIn(declared, x, n, k)
    BY <1>2 DEF HasWritten, Appending
  <2>3. PICK a \in DOMAIN declared : a = <<x, n>> BY <2>1
  <2>4. a[1] = x /\ a[2] = n BY <2>3
  <2>5. GivesIn(declared, x, n, k) => \E i \in 1..Len(tagsOf[a]) : tagsOf[a][i] = <<x, n, k>>
    BY <1>7, <2>4 DEF TagInv
  <2>6. \A i \in 1..Len(tagsOf[a]) : tagsOf[a][i][1] = x /\ tagsOf[a][i][2] = n /\ tagsOf[a][i] \in TagNames
                                  /\ GivesIn(declared, x, n, tagsOf[a][i][3])
    <3> SUFFICES ASSUME NEW i \in 1..Len(tagsOf[a])
        PROVE  tagsOf[a][i][1] = x /\ tagsOf[a][i][2] = n /\ tagsOf[a][i] \in TagNames
                 /\ GivesIn(declared, x, n, tagsOf[a][i][3])
      OBVIOUS
    <3>1. PICK k1 : k1 = declared[a][i] OBVIOUS
    <3>2. Len(tagsOf[a]) = Len(declared[a]) /\ tagsOf[a] \in Seq(TagNames) BY <1>3
    <3>3. tagsOf[a][i] = <<a[1], a[2], k1>> BY <1>3, <3>1, <3>2
    <3>4. tagsOf[a][i] \in TagNames
      <4>1. PICK ts \in Seq(TagNames) : ts = tagsOf[a] BY <3>2
      <4>2. i \in 1..Len(ts) BY <4>1
      <4> HIDE DEF AnnotationsInit
      <4>3. ts[i] \in TagNames BY <4>2
      <4> QED BY <4>1, <4>3
    <3>5. GivesIn(declared, tagsOf[a][i][1], n, tagsOf[a][i][3]) BY <1>7, <2>4 DEF TagInv
    <3> QED BY <3>3, <3>4, <3>5, <2>4
  <2>7. (\A i \in 1..Len(tagsOf[a]) : tagsOf[a][i][3] # k) => \A d \in Type : ~HasWritten(d, x, n, k)
    <3>1. \A i \in 1..Len(tagsOf[a]) : tagsOf[a][i] = <<x, n, k>> => tagsOf[a][i][3] = k OBVIOUS
    <3> QED BY <2>2, <2>5, <3>1
  <2>8. ASSUME NEW i \in 1..Len(tagsOf[a]), FirstAt(tagsOf[a], k, i), NEW v \in Type, v = value[tagsOf[a][i]]
        PROVE  Latest(v, x, n, k)
    <3>1. PICK t \in TagNames : t = tagsOf[a][i] BY <2>6
    <3>2. t[1] = x /\ t[3] = k BY <3>1, <2>6, <2>8 DEF FirstAt
    <3>3. GivesIn(declared, x, n, k) BY <3>1, <3>2, <2>6
    <3>4. value[t] = x BY <3>2 DEF TagNames
    <3>5. MayWrite(x, x, n, k) BY <3>3, LineStep DEF MayWrite
    <3>6. Latest(x, x, n, k) BY <3>5, <2>2 DEF Latest
    <3> QED BY <3>1, <3>4, <3>6, <2>8
  <2> QED BY <2>3, <2>7, <2>8
<1> QED BY <1>4, <1>5, <1>6, <1>7, <1>8 DEF AnnotationsInv

(* What is appended stays so; whoever has written may have, or had before. *)
LEMMA TagKept ==
  ASSUME TagInv, UNCHANGED <<declared, tagsOf>>, AnnotationsTypeOK,
         \A d \in Type, n \in Name : Appending(d, n) => Appending(d, n)'
  PROVE  TagInv'
<1> SUFFICES ASSUME NEW a \in DOMAIN declared, NEW i \in 1..Len(tagsOf[a])
             PROVE  OwnOrAppended(a, tagsOf[a][i]) => OwnOrAppended(a, tagsOf[a][i])'
  BY DEF TagInv
<1>1. tagsOf[a][i] \in TagNames BY DEF AnnotationsTypeOK
<1>2. a[2] \in Name BY DeclaredType
<1> QED BY <1>1, <1>2 DEF OwnOrAppended, TagNames

LEMMA ValueKept ==
  ASSUME ValueInv, UNCHANGED <<declared, value>>,
         \A d \in Type, n \in Name : Appending(d, n) => Appending(d, n)'
  PROVE  ValueInv'
BY DEF ValueInv, TagNames

LEMMA CurrentKept ==
  ASSUME AnnotationsTypeOK, CurrentInv, UNCHANGED <<declared, tagsOf, value>>,
         \A d \in Type, n \in Name : Appending(d, n) => Appending(d, n)',
         \A d, x \in Type, n \in Name, k \in Key :
           FirstIn(declared, x, n) /\ HasWritten(d, x, n, k)' => HasWritten(d, x, n, k)
  PROVE  CurrentInv'
<1> SUFFICES ASSUME NEW x \in Type, NEW n \in Name, NEW k \in Key, FirstIn(declared, x, n)
    PROVE  /\ (\A i \in 1..Len(tagsOf[<<x, n>>]) : tagsOf[<<x, n>>][i][3] # k) =>
                \A d \in Type : ~HasWritten(d, x, n, k)'
           /\ \A i \in 1..Len(tagsOf[<<x, n>>]), v \in Type :
                FirstAt(tagsOf[<<x, n>>], k, i) /\ v = value[tagsOf[<<x, n>>][i]] => Latest(v, x, n, k)'
  BY DEF CurrentInv
<1>1. \A d \in Type : HasWritten(d, x, n, k)' => HasWritten(d, x, n, k) OBVIOUS
<1>2. (\A i \in 1..Len(tagsOf[<<x, n>>]) : tagsOf[<<x, n>>][i][3] # k) =>
                \A d \in Type : ~HasWritten(d, x, n, k)
  BY DEF CurrentInv
<1>3. ASSUME NEW i \in 1..Len(tagsOf[<<x, n>>]), FirstAt(tagsOf[<<x, n>>], k, i),
             NEW v \in Type, v = value[tagsOf[<<x, n>>][i]]
      PROVE  Latest(v, x, n, k)'
  <2>1. Latest(v, x, n, k) BY <1>3 DEF CurrentInv
  <2>2. MayWrite(v, x, n, k)' BY <2>1 DEF Latest, MayWrite
  <2>3. \A d \in Type : HasWritten(d, x, n, k)' /\ v \in Line[d] => v = d BY <2>1, <1>1 DEF Latest
  <2> QED BY <2>2, <2>3 DEF Latest
<1> QED BY <1>1, <1>2, <1>3

LEMMA IsMadeInv == ASSUME AnnotationsInv, IsMade PROVE AnnotationsInv'
<1> USE DEF IsMade
<1>0. AnnotationsTypeOK /\ LineInv BY DEF AnnotationsInv
<1>1. AnnotationsTypeOK' BY <1>0 DEF AnnotationsTypeOK
<1>a. NoType \notin DOMAIN full BY <1>0, LineageAssumption DEF AnnotationsTypeOK
<1>2. LineInv'
  <2>1. \A y \in Type : Finished(y) => Finished(y)' BY <1>a DEF Finished
  <2>2. DOMAIN full \subseteq Type BY <1>0 DEF AnnotationsTypeOK
  <2> QED BY <1>0, <2>1, <2>2, LineStep DEF LineInv
<1>3. MapInv' BY DEF AnnotationsInv, MapInv, Open
<1>4. \A d \in Type, n \in Name : Appending(d, n)' <=> Appending(d, n) BY DEF Appending
<1>5. TagInv' BY <1>0, <1>4, TagKept DEF AnnotationsInv
<1>6. ValueInv' BY <1>4, ValueKept DEF AnnotationsInv
<1>7. RestInv' BY DEF AnnotationsInv, RestInv
<1>8. CurrentInv'
  <2>1. \A d, x \in Type, n \in Name, k \in Key : HasWritten(d, x, n, k)' => HasWritten(d, x, n, k)
    BY DEF HasWritten, Appending
  <2> QED BY <1>0, <1>4, <2>1, CurrentKept DEF AnnotationsInv
<1> QED BY <1>1, <1>2, <1>3, <1>5, <1>6, <1>7, <1>8 DEF AnnotationsInv

(* A type gets the map of its base, whose line is finished.                *)
LEMMA MakeFullInv == ASSUME AnnotationsInv, NEW e \in Type, MakeFull(e) PROVE AnnotationsInv'
<1>0. AnnotationsTypeOK /\ LineInv /\ MapInv BY DEF AnnotationsInv
<1>1. making = NoType /\ left = {} /\ incoming = <<>> /\ DOMAIN full \subseteq Type
  BY <1>0 DEF MakeFull, AnnotationsTypeOK
<1>2. /\ ~Ready(e) /\ Ready(Base[e])
      /\ full' = With(full, e, Annotations(Base[e]))
      /\ making' = e /\ left' = NamesOf(e)
  BY DEF MakeFull
<1>3. UNCHANGED <<declared, tagsOf, value, incoming>> BY DEF MakeFull
<1>4. Derived(e) /\ e \notin DOMAIN full BY <1>2 DEF Ready
<1>5. PICK b \in Type : b = Base[e] BY <1>4, BaseType DEF Derived
<1>6. PICK m : m = Annotations(b) OBVIOUS
<1>7. DOMAIN full' = DOMAIN full \cup {e} /\ full'[e] = m /\ \A d \in DOMAIN full : full'[d] = full[d]
  BY <1>2, <1>4, <1>5, <1>6 DEF With
<1>8. \A x : x \in Line[e] <=> x = e \/ x \in Line[b] BY <1>4, <1>5, LineOf DEF Derived
<1>9. \A y \in Line[b] : Finished(y)
  <2>1. CASE Derived(b)
    BY <2>1, <1>0, <1>1, <1>2, <1>5, LineageAssumption DEF Ready, LineInv, Finished
  <2>2. CASE ~Derived(b)
    BY <2>2, LineOf DEF Derived, Finished
  <2> QED BY <2>1, <2>2
<1>10. \A y : Finished(y) /\ Derived(y) => y \in DOMAIN full /\ y # e BY <1>4 DEF Finished
<1>11. \A y : Finished(y) => Finished(y)' BY <1>2, <1>4, <1>7 DEF Finished
<1>12. \A y \in Type, n \in Name : ~Open(y, n) BY <1>1 DEF Open
<1>13. NamesOf(e) = NamesIn(declared, e) BY DEF NamesOf, NamesIn
<1>14. AnnotationsTypeOK'
  <2>1. making' \in DOMAIN full' /\ DOMAIN full' \subseteq Type /\ making' # NoType
    BY <1>0, <1>2, <1>4, <1>7, LineageAssumption DEF AnnotationsTypeOK
  <2>2. left' \subseteq Name /\ \A n \in left' : n \in NamesIn(declared', making')
    BY <1>2, <1>3, <1>13 DEF NamesIn
  <2>3. tagsOf' \in [DOMAIN declared' -> Seq(TagNames)] /\ declared' \in Declarations
    BY <1>0, <1>3 DEF AnnotationsTypeOK
  <2>4. value' \in [TagNames -> Type] /\ incoming' \in Seq(TagNames)
    BY <1>0, <1>3 DEF AnnotationsTypeOK
  <2> QED BY <2>1, <2>2, <2>3, <2>4 DEF AnnotationsTypeOK
<1>15. LineInv'
  <2>1. \A d \in DOMAIN full : Derived(d) /\ \A y \in Line[d] : y = d \/ Finished(y)' BY <1>0, <1>11 DEF LineInv
  <2>2. Derived(e) /\ \A y \in Line[e] : y = e \/ Finished(y)' BY <1>4, <1>8, <1>9, <1>11
  <2> QED BY <2>1, <2>2, <1>7 DEF LineInv
<1>16. MapInv'
  <2>1. ASSUME NEW d \in DOMAIN full
        PROVE  /\ \A n \in DOMAIN full[d] :
                    /\ n \in Name
                    /\ \E x \in Line[d] : FirstIn(declared, x, n) /\ full[d][n] = <<x, n>>
                    /\ \E y \in Line[d] : n \in NamesIn(declared, y) /\ ~Open(y, n)'
               /\ \A y \in Line[d] : \A n \in NamesIn(declared, y) : ~Open(y, n)' => n \in DOMAIN full[d]
    <3>1. \A y \in Line[d] : y # e BY <1>0, <1>4 DEF LineInv, Finished
    <3>2. \A y \in Line[d] : \A n : ~Open(y, n)' BY <3>1, <1>2 DEF Open
    <3>3. d \in Type /\ Line[d] \subseteq Type BY <1>1, LineStep
    <3> QED BY <1>0, <1>12, <3>2, <3>3 DEF MapInv, NamesIn
  <2>2. /\ \A n \in DOMAIN m :
             /\ n \in Name
             /\ \E x \in Line[b] : FirstIn(declared, x, n) /\ m[n] = <<x, n>>
             /\ \E y \in Line[b] : n \in NamesIn(declared, y)
        /\ \A y \in Line[b] : \A n \in NamesIn(declared, y) : n \in DOMAIN m
    <3>1. CASE Derived(b)
      <4>1. b \in DOMAIN full /\ m = full[b] BY <3>1, <1>2, <1>5, <1>6 DEF Ready, Annotations
      <4>2. Line[b] \subseteq Type BY LineStep
      <4> QED BY <4>1, <4>2, <1>0, <1>12 DEF MapInv, NamesIn
    <3>2. CASE ~Derived(b)
      <4>1. m = [n \in NamesIn(declared, b) |-> <<b, n>>]
        BY <3>2, <1>6 DEF Annotations, Own, NamesOf, NamesIn
      <4>2. \A y : y \in Line[b] <=> y = b BY <3>2, LineOf DEF Derived
      <4>3. \A n \in NamesIn(declared, b) : FirstIn(declared, b, n) BY <4>2 DEF FirstIn
      <4>4. NamesIn(declared, b) \subseteq Name BY DEF NamesIn
      <4> QED BY <4>1, <4>2, <4>3, <4>4
    <3> QED BY <3>1, <3>2
  <2>3. /\ \A n \in DOMAIN m :
             /\ n \in Name
             /\ \E x \in Line[e] : FirstIn(declared, x, n) /\ m[n] = <<x, n>>
             /\ \E y \in Line[e] : n \in NamesIn(declared, y) /\ ~Open(y, n)'
        /\ \A y \in Line[e] : \A n \in NamesIn(declared, y) : ~Open(y, n)' => n \in DOMAIN m
    <3>1. \A y \in Line[b] : y # e BY <1>4, <1>9 DEF Finished
    <3>2. \A y \in Line[b] : \A n : ~Open(y, n)' BY <3>1, <1>2 DEF Open
    <3>3. \A n \in NamesIn(declared, e) : Open(e, n)' BY <1>2, <1>13 DEF Open
    <3> QED BY <2>2, <3>2, <3>3, <1>8
  <2> QED BY <2>1, <2>3, <1>3, <1>7 DEF MapInv
<1>17. \A d \in Type, n \in Name : Appending(d, n) => Appending(d, n)'
  BY <1>2, <1>4, <1>7 DEF Appending
<1>18. TagInv' BY <1>0, <1>3, <1>17, TagKept DEF AnnotationsInv
<1>19. ValueInv' BY <1>3, <1>17, ValueKept DEF AnnotationsInv
<1>20. RestInv' BY <1>1, <1>3 DEF RestInv
<1>21. CurrentInv'
  <2>1. ASSUME NEW d \in Type, NEW x \in Type, NEW n \in Name, NEW k \in Key, HasWritten(d, x, n, k)'
        PROVE  HasWritten(d, x, n, k)
    <3>1. GivesIn(declared, d, n, k) => n \in NamesIn(declared, d) BY DEF GivesIn, NamesIn
    <3>2. Appending(d, n)' /\ GivesIn(declared, d, n, k) => d \in DOMAIN full
      BY <3>1, <1>2, <1>7, <1>13 DEF Appending
    <3>3. d \in DOMAIN full => Appending(d, n) BY <1>1 DEF Appending
    <3> QED BY <2>1, <3>2, <3>3, <1>1, <1>3 DEF HasWritten
  <2> QED BY <1>0, <1>3, <1>17, <2>1, CurrentKept DEF AnnotationsInv
<1> QED BY <1>14, <1>15, <1>16, <1>18, <1>19, <1>20, <1>21 DEF AnnotationsInv

(* An annotation whose name its line has not declared before joins the map;*)
(* of another, the tags are to be appended.                                *)
LEMMA AppendAnnotationInv ==
  ASSUME AnnotationsInv, NEW n0 \in Name, AppendAnnotation(n0)
  PROVE  AnnotationsInv'
<1>0. AnnotationsTypeOK /\ LineInv /\ MapInv /\ TagInv /\ ValueInv BY DEF AnnotationsInv
<1>1. PICK m \in DOMAIN full : m = making BY <1>0 DEF AppendAnnotation, AnnotationsTypeOK
<1>2. m \in Type /\ m # NoType BY <1>0, <1>1 DEF AnnotationsTypeOK, AppendAnnotation
<1>3. incoming = <<>> /\ n0 \in left /\ left' = left \ {n0} BY DEF AppendAnnotation
<1>4. n0 \in NamesIn(declared, m) BY <1>0, <1>1, <1>3 DEF AnnotationsTypeOK
<1>5. UNCHANGED <<declared, tagsOf, value, making>> BY DEF AppendAnnotation
<1>6. \A y : Open(y, n0) <=> y = m BY <1>1, <1>3 DEF Open
<1>7. \A d \in DOMAIN full : \A y \in Line[d] : y = m => d = m
  BY <1>0, <1>1, <1>2 DEF LineInv, Finished
<1>8. CASE n0 \in DOMAIN full[m]
  <2>1. incoming' = tagsOf[<<m, n0>>] /\ full' = full BY <1>1, <1>8 DEF AppendAnnotation
  <2>2. PICK a \in DOMAIN declared : a = <<m, n0>> BY <1>4 DEF NamesIn
  <2>3. a[1] = m /\ a[2] = n0 BY <2>2
  <2>4. PICK ts \in Seq(TagNames) : ts = tagsOf[a] BY <1>0 DEF AnnotationsTypeOK
  <2>5. ~FirstIn(declared, m, n0)
    <3>1. PICK y \in Line[m] : n0 \in NamesIn(declared, y) /\ ~Open(y, n0) BY <1>0, <1>8 DEF MapInv
    <3> QED BY <3>1, <1>6 DEF FirstIn
  <2>6. AnnotationsTypeOK'
    <3>1. incoming' \in Seq(TagNames) BY <2>1, <2>2, <2>4
    <3> QED BY <1>0, <1>1, <1>2, <1>3, <1>5, <2>1, <3>1 DEF AnnotationsTypeOK
  <2>7. LineInv' BY <1>0, <1>5, <2>1 DEF LineInv, Finished
  <2>8. MapInv'
    <3>1. \A y, n : ~Open(y, n) => ~Open(y, n)' BY <1>3, <1>5 DEF Open
    <3>2. \A y, n : ~Open(y, n)' => ~Open(y, n) \/ (y = m /\ n = n0) BY <1>1, <1>3, <1>5 DEF Open
    <3>3. \A d \in DOMAIN full : \A y \in Line[d] : \A n \in NamesIn(declared, y) :
            ~Open(y, n)' => n \in DOMAIN full[d]
      BY <1>0, <1>7, <1>8, <3>2 DEF MapInv
    <3>4. \A d \in DOMAIN full : \A n \in DOMAIN full[d] :
            /\ n \in Name
            /\ \E x \in Line[d] : FirstIn(declared, x, n) /\ full[d][n] = <<x, n>>
            /\ \E y \in Line[d] : n \in NamesIn(declared, y) /\ ~Open(y, n)'
      BY <1>0, <3>1 DEF MapInv
    <3> QED BY <3>3, <3>4, <1>5, <2>1 DEF MapInv
  <2>9. \A d \in Type, n \in Name : Appending(d, n) => Appending(d, n)'
    BY <1>3, <1>5, <2>1 DEF Appending
  <2>10. TagInv' /\ ValueInv' BY <1>0, <1>5, <2>9, TagKept, ValueKept
  <2>11. \A i \in 1..Len(ts) : ts[i][1] = m /\ ts[i][2] = n0 /\ GivesIn(declared, m, n0, ts[i][3])
                               /\ value[ts[i]] = m
    <3> SUFFICES ASSUME NEW i \in 1..Len(ts)
        PROVE  ts[i][1] = m /\ ts[i][2] = n0 /\ GivesIn(declared, m, n0, ts[i][3]) /\ value[ts[i]] = m
      OBVIOUS
    <3>1. PICK t \in TagNames : t = ts[i] OBVIOUS
    <3>2. t[2] = n0 /\ GivesIn(declared, t[1], n0, t[3]) /\ OwnOrAppended(a, t)
      BY <1>0, <2>3, <2>4, <3>1 DEF TagInv
    <3>3. t[1] = m BY <2>3, <2>5, <3>2 DEF OwnOrAppended
    <3>4. ~Appending(m, n0) BY <1>1, <1>3 DEF Appending
    <3>5. value[t] = t[1] BY <1>0, <2>5, <3>2, <3>3, <3>4 DEF ValueInv
    <3> QED BY <3>1, <3>2, <3>3, <3>5
  <2>12. RestInv'
    <3>1. incoming' = ts /\ n0 \notin left' BY <1>3, <2>1, <2>2, <2>4
    <3> QED BY <3>1, <2>11, <2>5, <1>1, <1>5, <1>8, <2>1 DEF RestInv
  <2>13. CurrentInv'
    <3>1. ASSUME NEW d \in Type, NEW x \in Type, NEW n \in Name, NEW k \in Key, HasWritten(d, x, n, k)'
          PROVE  HasWritten(d, x, n, k)
      <4>1. CASE d = m /\ n = n0 /\ d # x
        <5>1. GivesIn(declared, m, n0, k) BY <3>1, <4>1, <1>5 DEF HasWritten
        <5>2. PICK i \in 1..Len(ts) : ts[i] = <<m, n0, k>> BY <5>1, <1>0, <2>3, <2>4 DEF TagInv
        <5>3. \A j \in 1..Len(ts) : ts[j] # <<m, n0, k>>
          BY <3>1, <4>1, <2>1, <2>2, <2>4 DEF HasWritten
        <5> QED BY <5>2, <5>3
      <4>2. CASE ~(d = m /\ n = n0)
        <5>1. Appending(d, n)' => Appending(d, n) BY <4>2, <1>1, <1>3, <1>5, <2>1 DEF Appending
        <5> QED BY <5>1, <3>1, <1>3, <1>5 DEF HasWritten
      <4>3. CASE d = x
        BY <4>3, <3>1, <1>5 DEF HasWritten
      <4> QED BY <4>1, <4>2, <4>3
    <3> QED BY <1>0, <1>5, <2>9, <3>1, CurrentKept DEF AnnotationsInv
  <2> QED BY <2>6, <2>7, <2>8, <2>10, <2>12, <2>13 DEF AnnotationsInv
<1>9. CASE n0 \notin DOMAIN full[m]
  <2>1. full' = With(full, m, With(full[m], n0, <<m, n0>>)) /\ incoming' = incoming
    BY <1>1, <1>9 DEF AppendAnnotation
  <2>2. PICK g : g = With(full[m], n0, <<m, n0>>) OBVIOUS
  <2>3. DOMAIN g = DOMAIN full[m] \cup {n0} /\ g[n0] = <<m, n0>> /\ \A n \in DOMAIN full[m] : g[n] = full[m][n]
    BY <1>9, <2>2 DEF With
  <2>4. DOMAIN full' = DOMAIN full /\ full'[m] = g /\ \A d \in DOMAIN full : d # m => full'[d] = full[d]
    BY <2>1, <2>2 DEF With
  <2>5. FirstIn(declared, m, n0)
    <3>1. \A y \in Line[m] : n0 \in NamesIn(declared, y) => y = m BY <1>0, <1>6, <1>9 DEF MapInv
    <3> QED BY <3>1, <1>2, <1>4 DEF FirstIn
  <2>6. AnnotationsTypeOK'
    BY <1>0, <1>1, <1>2, <1>3, <1>5, <2>1, <2>4 DEF AnnotationsTypeOK
  <2>7. LineInv' BY <1>0, <1>5, <2>4 DEF LineInv, Finished
  <2>8. MapInv'
    <3>1. \A y, n : ~Open(y, n) => ~Open(y, n)' BY <1>3, <1>5 DEF Open
    <3>2. \A y, n : ~Open(y, n)' => ~Open(y, n) \/ (y = m /\ n = n0) BY <1>1, <1>3, <1>5 DEF Open
    <3>3. \A d \in DOMAIN full : \A y \in Line[d] : \A n \in NamesIn(declared, y) :
            ~Open(y, n)' => n \in DOMAIN full'[d]
      BY <1>0, <1>7, <2>3, <2>4, <3>2 DEF MapInv
    <3>4. ASSUME NEW d \in DOMAIN full, NEW n \in DOMAIN full'[d]
          PROVE  /\ n \in Name
                 /\ \E x \in Line[d] : FirstIn(declared, x, n) /\ full'[d][n] = <<x, n>>
                 /\ \E y \in Line[d] : n \in NamesIn(declared, y) /\ ~Open(y, n)'
      <4>1. CASE n \in DOMAIN full[d]
        <5>1. full'[d][n] = full[d][n] BY <4>1, <2>3, <2>4
        <5> QED BY <5>1, <4>1, <1>0, <3>1 DEF MapInv
      <4>2. CASE n \notin DOMAIN full[d]
        <5>1. d = m /\ n = n0 BY <4>2, <2>3, <2>4
        <5>2. m \in Line[m] BY <1>2, LineStep
        <5>3. ~Open(m, n0)' BY <1>3 DEF Open
        <5> QED BY <5>1, <5>2, <5>3, <2>3, <2>4, <2>5, <1>4
      <4> QED BY <4>1, <4>2
    <3>5. \A d \in DOMAIN full : \A n \in DOMAIN full'[d] :
            /\ n \in Name
            /\ \E x \in Line[d] : FirstIn(declared, x, n) /\ full'[d][n] = <<x, n>>
            /\ \E y \in Line[d] : n \in NamesIn(declared, y) /\ ~Open(y, n)'
      BY <3>4
    <3> QED BY <3>3, <3>5, <1>5, <2>4 DEF MapInv
  <2>9. \A d \in Type, n \in Name : Appending(d, n) => Appending(d, n)'
    BY <1>3, <1>5, <2>4 DEF Appending
  <2>10. TagInv' /\ ValueInv' BY <1>0, <1>5, <2>9, TagKept, ValueKept
  <2>11. RestInv' BY <1>3, <2>1 DEF RestInv
  <2>12. CurrentInv'
    <3>1. ASSUME NEW d \in Type, NEW x \in Type, NEW n \in Name, NEW k \in Key,
                 FirstIn(declared, x, n), HasWritten(d, x, n, k)'
          PROVE  HasWritten(d, x, n, k)
      <4>1. CASE d = m /\ n = n0
        <5>1. x \in Line[m] /\ m \in Line[m] BY <3>1, <4>1, <1>2, LineStep DEF HasWritten
        <5>2. x = m BY <5>1, <1>2, <2>5, <3>1, <4>1, FirstOnce
        <5> QED BY <5>2, <4>1, <3>1, <1>5 DEF HasWritten
      <4>2. CASE ~(d = m /\ n = n0)
        <5>1. Appending(d, n)' => Appending(d, n) BY <4>2, <1>1, <1>3, <1>5, <2>4 DEF Appending
        <5> QED BY <5>1, <3>1, <1>3, <1>5 DEF HasWritten
      <4> QED BY <4>1, <4>2
    <3> QED BY <1>0, <1>5, <2>9, <3>1, CurrentKept DEF AnnotationsInv
  <2> QED BY <2>6, <2>7, <2>8, <2>10, <2>11, <2>12 DEF AnnotationsInv
<1> QED BY <1>8, <1>9

(* Who has its tag in a first annotation is of a line with it.             *)
LEMMA TagsOfOne ==
  ASSUME NEW x \in Type, NEW y \in Type, NEW n, FirstIn(declared, x, n), FirstIn(declared, y, n),
         NEW t \in TagNames, OwnOrAppended(<<x, n>>, t), OwnOrAppended(<<y, n>>, t)
  PROVE  x = y
<1>1. t[1] \in Type BY DEF TagNames
<1>2. x \in Line[t[1]] /\ y \in Line[t[1]] BY <1>1, LineStep DEF OwnOrAppended
<1> QED BY <1>1, <1>2, FirstOnce

(* The type writes to the tag of the first of its line, or adds its own.   *)
LEMMA AppendTagInv == ASSUME AnnotationsInv, AppendTag PROVE AnnotationsInv'
<1>0. AnnotationsTypeOK /\ LineInv /\ MapInv /\ TagInv /\ RestInv /\ ValueInv /\ CurrentInv
  BY DEF AnnotationsInv
<1>1. incoming # <<>> /\ incoming' = Tail(incoming) /\ UNCHANGED <<declared, full, making, left>>
  BY DEF AppendTag
<1>2. PICK t \in TagNames : t = Head(incoming) /\ t = incoming[1] /\ 1 \in 1..Len(incoming)
  BY <1>0, <1>1 DEF AnnotationsTypeOK
<1>3. PICK m \in DOMAIN full : m = making /\ m \in Type BY <1>0, <1>1 DEF AnnotationsTypeOK
<1>4. PICK n0 \in Name, k0 \in Key : t = <<m, n0, k0>> /\ t[2] = n0 /\ t[3] = k0
  BY <1>0, <1>2, <1>3 DEF RestInv, TagNames
<1>5. /\ n0 \in DOMAIN full[m] /\ n0 \notin left
      /\ GivesIn(declared, m, n0, k0) /\ ~FirstIn(declared, m, n0) /\ value[t] = m
  BY <1>0, <1>2, <1>3, <1>4 DEF RestInv
<1>6. PICK x0 \in Line[m] : FirstIn(declared, x0, n0) /\ full[m][n0] = <<x0, n0>>
  BY <1>0, <1>5 DEF MapInv
<1>7. PICK a \in DOMAIN declared : a = <<x0, n0>> BY <1>6 DEF FirstIn, NamesIn
<1>8. a[1] = x0 /\ a[2] = n0 /\ x0 \in Type /\ x0 # m /\ full[making][t[2]] = a
  BY <1>3, <1>4, <1>5, <1>6, <1>7 DEF FirstIn
<1>9. PICK ts \in Seq(TagNames) : ts = tagsOf[a] BY <1>0 DEF AnnotationsTypeOK
<1>10. incoming' \in Seq(TagNames) /\ Len(incoming') = Len(incoming) - 1
       /\ \A j \in 1..Len(incoming') : incoming'[j] = incoming[j + 1] /\ j + 1 \in 1..Len(incoming)
  BY <1>0, <1>1 DEF AnnotationsTypeOK
<1>11. \A j \in 1..Len(incoming) : incoming[j] = t \/ \E i \in 1..Len(incoming') : incoming'[i] = incoming[j]
  <2> SUFFICES ASSUME NEW j \in 1..Len(incoming), j # 1 PROVE \E i \in 1..Len(incoming') : incoming'[i] = incoming[j]
    BY <1>2
  <2>1. j - 1 \in 1..Len(incoming') /\ j = (j - 1) + 1 BY <1>0, <1>10 DEF AnnotationsTypeOK
  <2> QED BY <2>1, <1>10
<1>12. Appending(m, n0) BY <1>3, <1>5 DEF Appending
<1>13. \A d \in Type, n \in Name : Appending(d, n)' <=> Appending(d, n) BY <1>1 DEF Appending
<1>14. LineInv' BY <1>0, <1>1 DEF LineInv, Finished
<1>15. MapInv' BY <1>0, <1>1 DEF MapInv, Open
<1>16. ASSUME NEW d \in Type, NEW x \in Type, NEW n \in Name, NEW k \in Key, FirstIn(declared, x, n),
              HasWritten(d, x, n, k)', ~(x = x0 /\ n = n0 /\ k = k0)
       PROVE  HasWritten(d, x, n, k)
  <2>1. CASE d = x
    BY <2>1, <1>1, <1>16 DEF HasWritten
  <2>2. CASE d # x
    <3>1. GivesIn(declared, d, n, k) /\ x \in Line[d] /\ Appending(d, n)
          /\ \A j \in 1..Len(incoming') : incoming'[j] # <<d, n, k>>
      BY <2>2, <1>1, <1>13, <1>16 DEF HasWritten
    <3>2. <<d, n, k>> # t
      <4> SUFFICES ASSUME <<d, n, k>> = t PROVE FALSE OBVIOUS
      <4>1. d = m /\ n = n0 /\ k = k0 BY <1>4
      <4>2. x = x0 BY <4>1, <3>1, <1>3, <1>6, <1>16, FirstOnce
      <4> QED BY <4>1, <4>2, <1>16
    <3>3. \A j \in 1..Len(incoming) : incoming[j] # <<d, n, k>> BY <3>1, <3>2, <1>11
    <3> QED BY <3>1, <3>3 DEF HasWritten
  <2> QED BY <2>1, <2>2
<1>17. ASSUME NEW v \in Type, NEW x \in Type, NEW n \in Name, NEW k \in Key, FirstIn(declared, x, n),
              Latest(v, x, n, k), ~(x = x0 /\ n = n0 /\ k = k0)
       PROVE  Latest(v, x, n, k)'
  <2>1. MayWrite(v, x, n, k)' BY <1>1, <1>13, <1>17 DEF Latest, MayWrite
  <2>2. \A d \in Type : HasWritten(d, x, n, k)' => HasWritten(d, x, n, k) BY <1>16, <1>17
  <2> QED BY <2>1, <2>2, <1>17 DEF Latest
<1>18. Latest(m, x0, n0, k0)'
  <2>1. MayWrite(m, x0, n0, k0)' BY <1>1, <1>3, <1>5, <1>6, <1>12, <1>13 DEF MayWrite
  <2>2. ASSUME NEW d \in Type, HasWritten(d, x0, n0, k0)', m \in Line[d] PROVE m = d
    <3>1. CASE d = x0
      BY <3>1, <2>2, <1>3, <1>6, <1>8, LineOnce
    <3>2. CASE d # x0
      <4>1. d \in DOMAIN full BY <3>2, <2>2, <1>1 DEF HasWritten, Appending
      <4>2. m = d \/ Finished(m) BY <4>1, <2>2, <1>0 DEF LineInv
      <4>3. ~Finished(m) BY <1>0, <1>3 DEF Finished, LineInv
      <4> QED BY <4>2, <4>3
    <3> QED BY <3>1, <3>2
  <2> QED BY <2>1, <2>2 DEF Latest
<1>19. CASE Position(ts, k0) = 0
  <2>1. tagsOf' = [tagsOf EXCEPT ![a] = Append(ts, t)] /\ value' = value
    BY <1>2, <1>4, <1>8, <1>9, <1>19 DEF AppendTag, Merge, Join, Overwrite
  <2>2. \A i \in 1..Len(ts) : ts[i][3] # k0
    <3> SUFFICES ASSUME \E i \in 1..Len(ts) : ts[i][3] = k0 PROVE FALSE OBVIOUS
    <3>1. FirstAt(ts, k0, Position(ts, k0)) BY PositionOf
    <3> QED BY <3>1, <1>19 DEF FirstAt
  <2>a. Append(ts, t) \in Seq(TagNames) OBVIOUS
  <2>3. PICK us \in Seq(TagNames) : us = Append(ts, t) BY <2>a
  <2>4. Len(us) = Len(ts) + 1 /\ us[Len(us)] = t /\ \A i \in 1..Len(ts) : us[i] = ts[i] /\ i \in 1..Len(us)
    BY <2>3
  <2>5. \A i \in 1..Len(us) : i \in 1..Len(ts) \/ i = Len(us) BY <2>4
  <2>6. tagsOf'[a] = us /\ \A b \in DOMAIN declared : b # a => tagsOf'[b] = tagsOf[b]
    BY <1>0, <2>1, <2>3 DEF AnnotationsTypeOK
  <2>7. AnnotationsTypeOK'
    <3>1. tagsOf' \in [DOMAIN declared -> Seq(TagNames)] BY <1>0, <2>1, <2>3 DEF AnnotationsTypeOK
    <3> QED BY <1>0, <1>1, <1>3, <1>10, <2>1, <3>1, LineageAssumption DEF AnnotationsTypeOK
  <2>8. TagInv'
    <3>1. ASSUME NEW b \in DOMAIN declared, NEW i \in 1..Len(tagsOf'[b])
          PROVE  \E v : /\ v = tagsOf'[b][i] /\ v[2] = b[2] /\ GivesIn(declared, v[1], b[2], v[3])
                        /\ OwnOrAppended(b, v)'
      <4>1. CASE b = a /\ i = Len(us)
        <5>1. tagsOf'[b][i] = t /\ t[1] = m BY <4>1, <1>4, <2>4, <2>6
        <5>2. OwnOrAppended(a, t)' BY <5>1, <1>1, <1>6, <1>8, <1>12, <1>13, <1>3 DEF OwnOrAppended
        <5> QED BY <5>1, <5>2, <4>1, <1>4, <1>5, <1>8
      <4>2. CASE ~(b = a /\ i = Len(us))
        <5>1. i \in 1..Len(tagsOf[b]) /\ tagsOf'[b][i] = tagsOf[b][i]
          BY <4>2, <2>4, <2>5, <2>6, <1>9
        <5>2. PICK u \in TagNames : u = tagsOf[b][i] BY <5>1, <1>0 DEF AnnotationsTypeOK
        <5>3. u[2] = b[2] /\ GivesIn(declared, u[1], b[2], u[3]) /\ OwnOrAppended(b, u)
          BY <5>1, <5>2, <1>0 DEF TagInv
        <5>4. u[1] \in Type /\ b[2] \in Name BY <5>3 DEF TagNames
        <5>5. OwnOrAppended(b, u)' BY <5>3, <5>4, <1>1, <1>13 DEF OwnOrAppended
        <5> QED BY <5>1, <5>2, <5>3, <5>5
      <4> QED BY <4>1, <4>2
    <3>2. ASSUME NEW b \in DOMAIN declared, NEW k \in Key, GivesIn(declared, b[1], b[2], k)
          PROVE  \E i \in 1..Len(tagsOf'[b]) : tagsOf'[b][i] = <<b[1], b[2], k>>
      <4>1. PICK i \in 1..Len(tagsOf[b]) : tagsOf[b][i] = <<b[1], b[2], k>> BY <3>2, <1>0 DEF TagInv
      <4>2. i \in 1..Len(tagsOf'[b]) /\ tagsOf'[b][i] = tagsOf[b][i] BY <2>4, <2>6, <1>9
      <4> QED BY <4>1, <4>2
    <3>3. ASSUME NEW b \in DOMAIN declared, NEW i \in 1..Len(tagsOf'[b])
          PROVE  /\ tagsOf'[b][i][2] = b[2] /\ GivesIn(declared', tagsOf'[b][i][1], b[2], tagsOf'[b][i][3])
                 /\ OwnOrAppended(b, tagsOf[b][i])'
      BY <3>1, <1>1 DEF OwnOrAppended
    <3> QED BY <3>2, <3>3, <1>1 DEF TagInv
  <2>9. RestInv' BY <1>0, <1>1, <1>10, <2>1 DEF RestInv
  <2>10. ValueInv' BY <1>0, <1>1, <1>13, <2>1, ValueKept
  <2>11. CurrentInv'
    <3> SUFFICES ASSUME NEW x \in Type, NEW n \in Name, NEW k \in Key, FirstIn(declared, x, n)
        PROVE  /\ (\A i \in 1..Len(tagsOf'[<<x, n>>]) : tagsOf'[<<x, n>>][i][3] # k) =>
                    \A d \in Type : ~HasWritten(d, x, n, k)'
               /\ \A i \in 1..Len(tagsOf'[<<x, n>>]), v \in Type :
                    FirstAt(tagsOf'[<<x, n>>], k, i) /\ v = value[tagsOf'[<<x, n>>][i]] => Latest(v, x, n, k)'
      BY <1>1, <2>1 DEF CurrentInv
    <3>1. PICK b \in DOMAIN declared : b = <<x, n>> BY DEF FirstIn, NamesIn
    <3>2. PICK ws \in Seq(TagNames) : ws = tagsOf[b] BY <1>0 DEF AnnotationsTypeOK
    <3>3. /\ (\A i \in 1..Len(ws) : ws[i][3] # k) => \A d \in Type : ~HasWritten(d, x, n, k)
          /\ \A i \in 1..Len(ws), v \in Type : FirstAt(ws, k, i) /\ v = value[ws[i]] => Latest(v, x, n, k)
      BY <1>0, <3>1, <3>2 DEF CurrentInv
    <3>4. CASE x = x0 /\ n = n0 /\ k = k0
      <4>1. b = a BY <3>1, <3>4, <1>7
      <4>2. Len(us) \in 1..Len(us) /\ us[Len(us)][3] = k BY <2>4, <3>4, <1>4
      <4>3. \A i \in 1..Len(us) : FirstAt(us, k, i) => us[i] = t
        BY <2>2, <2>4, <2>5, <3>4 DEF FirstAt
      <4>4. \A i \in 1..Len(us), v \in Type : FirstAt(us, k, i) /\ v = value[us[i]] => Latest(v, x, n, k)'
        BY <4>3, <1>5, <1>18, <3>4
      <4>5. (\A i \in 1..Len(us) : us[i][3] # k) => \A d \in Type : ~HasWritten(d, x, n, k)' BY <4>2
      <4> QED BY <4>1, <4>4, <4>5, <2>6, <3>1
    <3>5. CASE ~(x = x0 /\ n = n0 /\ k = k0)
      <4>1. PICK vs : vs = tagsOf'[b] OBVIOUS
      <4>2. \A i \in 1..Len(ws) : vs[i] = ws[i] /\ i \in 1..Len(vs)
        BY <4>1, <2>4, <2>6, <1>9, <3>2
      <4>3. \A i \in 1..Len(vs) : i \in 1..Len(ws) \/ (vs[i] = t /\ b = a)
        BY <4>1, <2>4, <2>5, <2>6, <1>9, <3>2
      <4>4. b = a => k # k0 BY <3>1, <3>5, <1>7
      <4>5. \A i \in 1..Len(vs) : vs[i][3] = k => i \in 1..Len(ws) BY <4>3, <4>4, <1>4
      <4>6. (\A i \in 1..Len(vs) : vs[i][3] # k) => \A i \in 1..Len(ws) : ws[i][3] # k BY <4>2
      <4>7. (\A i \in 1..Len(vs) : vs[i][3] # k) => \A d \in Type : ~HasWritten(d, x, n, k)'
        BY <4>6, <3>3, <3>5, <1>16
      <4>8. ASSUME NEW i \in 1..Len(vs), FirstAt(vs, k, i), NEW v \in Type, v = value[vs[i]]
            PROVE  Latest(v, x, n, k)'
        <5>1. i \in 1..Len(ws) BY <4>5, <4>8 DEF FirstAt
        <5>2. \A j \in 1..(i - 1) : j \in 1..Len(ws) BY <5>1
        <5>3. FirstAt(ws, k, i) BY <5>1, <5>2, <4>2, <4>8 DEF FirstAt
        <5>4. v = value[ws[i]] BY <5>1, <4>2, <4>8
        <5>5. Latest(v, x, n, k) BY <5>1, <5>3, <5>4, <3>3
        <5> QED BY <5>5, <3>5, <1>17
      <4>9. \A i \in 1..Len(vs), v \in Type : FirstAt(vs, k, i) /\ v = value[vs[i]] => Latest(v, x, n, k)'
        BY <4>8
      <4> QED BY <4>1, <4>7, <4>9, <3>1
    <3> QED BY <3>4, <3>5
  <2> QED BY <1>14, <1>15, <2>7, <2>8, <2>9, <2>10, <2>11 DEF AnnotationsInv
<1>20. CASE Position(ts, k0) # 0
  <2>1. PICK i0 : i0 = Position(ts, k0) OBVIOUS
  <2>2. i0 \in 1..Len(ts) /\ FirstAt(ts, k0, i0)
    <3>1. \E i \in 1..Len(ts) : ts[i][3] = k0 BY <1>20, PositionOf
    <3>2. FirstAt(ts, k0, i0) BY <2>1, <3>1, PositionOf
    <3> QED BY <3>2 DEF FirstAt
  <2>3. PICK w \in TagNames : w = ts[i0] BY <2>2
  <2>4. value' = [value EXCEPT ![w] = m] /\ tagsOf' = tagsOf
    BY <1>2, <1>4, <1>5, <1>8, <1>9, <1>20, <2>1, <2>3 DEF AppendTag, Merge, Join, Overwrite
  <2>5. value'[w] = m /\ \A u \in TagNames : u # w => value'[u] = value[u]
    BY <1>0, <2>4 DEF AnnotationsTypeOK
  <2>6. AnnotationsTypeOK'
    <3>1. value' \in [TagNames -> Type] BY <1>0, <1>3, <2>4 DEF AnnotationsTypeOK
    <3> QED BY <1>0, <1>1, <1>3, <1>10, <2>4, <3>1, LineageAssumption DEF AnnotationsTypeOK
  <2>7. TagInv' BY <1>0, <1>1, <1>13, <2>4, TagKept
  <2>8. RestInv'
    <3>1. \A j \in 1..Len(incoming) : incoming[j] \in TagNames /\ value'[incoming[j]] = m
      BY <1>0, <1>3, <2>5 DEF RestInv, AnnotationsTypeOK
    <3> QED BY <1>0, <1>1, <1>3, <1>10, <3>1 DEF RestInv
  <2>9. ValueInv'
    <3>1. w[2] = n0 /\ OwnOrAppended(a, w) BY <1>0, <1>8, <1>9, <2>2, <2>3 DEF TagInv
    <3>2. FirstIn(declared, w[1], w[2]) \/ Appending(w[1], w[2])
      BY <3>1, <1>6, <1>8 DEF OwnOrAppended
    <3>3. ASSUME NEW u \in TagNames
          PROVE  FirstIn(declared, u[1], u[2]) \/ Appending(u[1], u[2])' \/ value'[u] = u[1]
      <4>1. u[1] \in Type /\ u[2] \in Name BY DEF TagNames
      <4>2. CASE u = w
        BY <4>1, <4>2, <3>2, <1>13
      <4>3. CASE u # w
        BY <4>1, <4>3, <2>5, <1>0, <1>13 DEF ValueInv
      <4> QED BY <4>2, <4>3
    <3> QED BY <3>3, <1>1 DEF ValueInv
  <2>10. CurrentInv'
    <3> SUFFICES ASSUME NEW x \in Type, NEW n \in Name, NEW k \in Key, FirstIn(declared, x, n)
        PROVE  /\ (\A i \in 1..Len(tagsOf[<<x, n>>]) : tagsOf[<<x, n>>][i][3] # k) =>
                    \A d \in Type : ~HasWritten(d, x, n, k)'
               /\ \A i \in 1..Len(tagsOf[<<x, n>>]), v \in Type :
                    FirstAt(tagsOf[<<x, n>>], k, i) /\ v = value'[tagsOf[<<x, n>>][i]] => Latest(v, x, n, k)'
      BY <1>1, <2>4 DEF CurrentInv
    <3>1. PICK b \in DOMAIN declared : b = <<x, n>> BY DEF FirstIn, NamesIn
    <3>2. PICK ws \in Seq(TagNames) : ws = tagsOf[b] BY <1>0 DEF AnnotationsTypeOK
    <3>3. /\ (\A i \in 1..Len(ws) : ws[i][3] # k) => \A d \in Type : ~HasWritten(d, x, n, k)
          /\ \A i \in 1..Len(ws), v \in Type : FirstAt(ws, k, i) /\ v = value[ws[i]] => Latest(v, x, n, k)
      BY <1>0, <3>1, <3>2 DEF CurrentInv
    <3>4. CASE x = x0 /\ n = n0 /\ k = k0
      <4>1. b = a /\ ws = ts BY <3>1, <3>2, <3>4, <1>7, <1>9
      <4>2. \A i \in 1..Len(ws) : FirstAt(ws, k, i) => i = i0 BY <4>1, <2>2, <3>4 DEF FirstAt
      <4>3. value'[ts[i0]] = m BY <2>3, <2>5
      <4>4. \A i \in 1..Len(ws), v \in Type : FirstAt(ws, k, i) /\ v = value'[ws[i]] => Latest(v, x, n, k)'
        BY <4>1, <4>2, <4>3, <1>18, <3>4
      <4>5. ws[i0][3] = k /\ i0 \in 1..Len(ws) BY <4>1, <2>2, <3>4 DEF FirstAt
      <4> QED BY <4>4, <4>5, <3>1, <3>2
    <3>5. CASE ~(x = x0 /\ n = n0 /\ k = k0)
      <4>1. (\A i \in 1..Len(ws) : ws[i][3] # k) => \A d \in Type : ~HasWritten(d, x, n, k)'
        BY <3>3, <3>5, <1>16
      <4>2. ASSUME NEW i \in 1..Len(ws), FirstAt(ws, k, i), NEW v \in Type, v = value'[ws[i]]
            PROVE  Latest(v, x, n, k)'
        <5>1. PICK u \in TagNames : u = ws[i] OBVIOUS
        <5>2. u # w
          <6> SUFFICES ASSUME u = w PROVE FALSE OBVIOUS
          <6>1. u[2] = n /\ OwnOrAppended(<<x, n>>, u) BY <5>1, <3>1, <3>2, <1>0 DEF TagInv
          <6>2. w[2] = n0 /\ OwnOrAppended(<<x0, n0>>, w) BY <2>2, <2>3, <1>0, <1>7, <1>9 DEF TagInv
          <6>3. n = n0 BY <6>1, <6>2
          <6>4. x = x0 BY <6>1, <6>2, <6>3, <1>6, <1>8, TagsOfOne
          <6>5. u[3] = k /\ w[3] = k0 BY <5>1, <4>2, <2>2, <2>3 DEF FirstAt
          <6> QED BY <6>3, <6>4, <6>5, <3>5
        <5>3. v = value[u] BY <5>1, <5>2, <4>2, <2>5
        <5>4. Latest(v, x, n, k) BY <5>1, <5>3, <4>2, <3>3
        <5> QED BY <5>4, <3>5, <1>17
      <4>3. \A i \in 1..Len(ws), v \in Type : FirstAt(ws, k, i) /\ v = value'[ws[i]] => Latest(v, x, n, k)'
        BY <4>2
      <4> QED BY <4>1, <4>3, <3>1, <3>2
    <3> QED BY <3>4, <3>5
  <2> QED BY <1>14, <1>15, <2>6, <2>7, <2>8, <2>9, <2>10 DEF AnnotationsInv
<1> QED BY <1>19, <1>20

LEMMA AnnotationsInvNext == AnnotationsInv /\ [AnnotationsNext]_annotationVars => AnnotationsInv'
<1> SUFFICES ASSUME AnnotationsInv, [AnnotationsNext]_annotationVars PROVE AnnotationsInv' OBVIOUS
<1>1. CASE \E e \in Type : MakeFull(e) BY <1>1, MakeFullInv
<1>2. CASE AppendTag BY <1>2, AppendTagInv
<1>3. CASE IsMade BY <1>3, IsMadeInv
<1>4. CASE \E n \in Name : AppendAnnotation(n) BY <1>4, AppendAnnotationInv
<1>5. CASE UNCHANGED annotationVars
  <2> USE <1>5 DEF annotationVars
  <2>1. AnnotationsTypeOK' /\ LineInv' /\ MapInv'
    BY DEF AnnotationsInv, AnnotationsTypeOK, LineInv, Finished, MapInv, Open
  <2>2. \A d \in Type, n \in Name : Appending(d, n)' <=> Appending(d, n) BY DEF Appending
  <2>3. \A d, x \in Type, n \in Name, k \in Key : HasWritten(d, x, n, k)' => HasWritten(d, x, n, k)
    BY DEF HasWritten, Appending
  <2>4. TagInv' /\ ValueInv' /\ CurrentInv'
    BY <2>2, <2>3, TagKept, ValueKept, CurrentKept DEF AnnotationsInv
  <2>5. RestInv' BY DEF AnnotationsInv, RestInv
  <2> QED BY <2>1, <2>4, <2>5 DEF AnnotationsInv
<1> QED BY <1>1, <1>2, <1>3, <1>4, <1>5 DEF AnnotationsNext

LEMMA NearestFollows == AnnotationsInv => NearestWins
<1> SUFFICES ASSUME AnnotationsInv, NEW e \in Type, NEW n \in Name, NEW k \in Key, Ready(e), e # making,
                    {d \in DOMAIN full \ Line[e] :
                       Has(d, n, k) /\ \E x \in Line[d] \cap Line[e] : n \in NamesOf(x)} = {}
    PROVE  LET near == {d \in Line[e] : Has(d, n, k)}
           IN  IF near = {} THEN Seen(e, n, k) = NoType
               ELSE Seen(e, n, k) \in near /\ near \subseteq Line[Seen(e, n, k)]
  BY DEF NearestWins
<1>0. AnnotationsTypeOK /\ LineInv /\ MapInv /\ CurrentInv BY DEF AnnotationsInv
<1>1. Finished(e) BY DEF Ready, Finished
<1>2. \A y \in Line[e] : Finished(y) /\ y \in Type
  <2>1. CASE Derived(e)
    BY <2>1, <1>0, <1>1, LineStep DEF LineInv, Ready
  <2>2. CASE ~Derived(e)
    BY <2>2, <1>1, LineOf DEF Derived
  <2> QED BY <2>1, <2>2
<1>3. \A y \in Line[e], o \in Name : ~Open(y, o)
  <2> SUFFICES ASSUME NEW y \in Line[e], NEW o \in Name, y = making, o \in left PROVE FALSE BY DEF Open
  <2>1. y \in DOMAIN full /\ Derived(y)
    BY <1>0, <1>2, LineageAssumption DEF AnnotationsTypeOK, LineInv
  <2> QED BY <2>1, <1>2 DEF Finished
<1>4. \A d : Has(d, n, k) <=> GivesIn(declared, d, n, k) BY DEF Has, GivesIn
<1>5. \A d : GivesIn(declared, d, n, k) => n \in NamesIn(declared, d) BY DEF GivesIn, NamesIn
<1>6. \A d : NamesOf(d) = NamesIn(declared, d) BY DEF NamesOf, NamesIn
<1>7. PICK map : map = Annotations(e) OBVIOUS
<1>8. /\ n \in DOMAIN map => \E x \in Line[e] : FirstIn(declared, x, n) /\ map[n] = <<x, n>>
      /\ (\E y \in Line[e] : n \in NamesIn(declared, y)) => n \in DOMAIN map
  <2>1. CASE Derived(e)
    <3>1. e \in Line[e] BY <1>1, LineStep
    <3>2. e \in DOMAIN full /\ map = full[e] BY <2>1, <3>1, <1>2, <1>7 DEF Finished, Annotations
    <3> QED BY <3>2, <1>0, <1>3 DEF MapInv
  <2>2. CASE ~Derived(e)
    <3>1. map = [o \in NamesIn(declared, e) |-> <<e, o>>]
      BY <2>2, <1>7 DEF Annotations, Own, NamesOf, NamesIn
    <3>2. \A y : y \in Line[e] <=> y = e BY <2>2, <1>1, LineOf DEF Derived
    <3>3. n \in NamesIn(declared, e) => FirstIn(declared, e, n) BY <3>2, <1>1 DEF FirstIn
    <3> QED BY <3>1, <3>2, <3>3
  <2> QED BY <2>1, <2>2
<1>9. CASE n \notin DOMAIN map
  <2>1. Seen(e, n, k) = NoType BY <1>7, <1>9 DEF Seen
  <2>2. \A d \in Line[e] : ~Has(d, n, k) BY <1>4, <1>5, <1>8, <1>9
  <2> QED BY <2>1, <2>2
<1>10. CASE n \in DOMAIN map
  <2>1. PICK x \in Line[e] : FirstIn(declared, x, n) /\ map[n] = <<x, n>> BY <1>8, <1>10
  <2>2. x \in Type BY <1>2
  <2>3. PICK a \in DOMAIN declared : a = <<x, n>> BY <2>1 DEF FirstIn, NamesIn
  <2>4. PICK ts \in Seq(TagNames) : ts = tagsOf[a] BY <1>0 DEF AnnotationsTypeOK
  <2>5. /\ (\A i \in 1..Len(ts) : ts[i][3] # k) => \A d \in Type : ~HasWritten(d, x, n, k)
        /\ \A i \in 1..Len(ts), v \in Type : FirstAt(ts, k, i) /\ v = value[ts[i]] => Latest(v, x, n, k)
    BY <1>0, <2>1, <2>2, <2>3, <2>4 DEF CurrentInv
  <2>6. ASSUME NEW d \in Line[e], Has(d, n, k) PROVE HasWritten(d, x, n, k)
    <3>1. GivesIn(declared, d, n, k) /\ n \in NamesIn(declared, d) BY <2>6, <1>4, <1>5
    <3>2. x \in Line[d]
      <4>1. CASE d \in Line[x]
        <5>1. d = x BY <4>1, <3>1, <2>1 DEF FirstIn
        <5> QED BY <5>1, <2>2, LineStep
      <4> QED BY <4>1, <1>1, LineChain
    <3>3. CASE d = x
      BY <3>1, <3>2, <3>3 DEF HasWritten
    <3>4. CASE d # x
      <4>1. Derived(d) BY <3>2, <3>4, <1>2, LineOf DEF Derived
      <4>2. d \in DOMAIN full /\ d # making BY <4>1, <1>2 DEF Finished
      <4>3. \A j \in 1..Len(incoming) : incoming[j] # <<d, n, k>>
        <5> SUFFICES ASSUME NEW j \in 1..Len(incoming), incoming[j] = <<d, n, k>> PROVE FALSE OBVIOUS
        <5>1. incoming[j][1] = making BY DEF AnnotationsInv, RestInv
        <5>2. incoming[j][1] = d OBVIOUS
        <5> QED BY <5>1, <5>2, <4>2
      <4> QED BY <3>1, <3>2, <4>2, <4>3 DEF HasWritten, Appending
    <3> QED BY <3>3, <3>4
  <2>7. PICK i : i = Position(ts, k) OBVIOUS
  <2>8. Seen(e, n, k) = IF i = 0 THEN NoType ELSE value[ts[i]]
    BY <2>1, <2>3, <2>4, <2>7, <1>7, <1>10 DEF Seen
  <2>9. CASE \E j \in 1..Len(ts) : ts[j][3] = k
    <3>1. FirstAt(ts, k, i) BY <2>7, <2>9, PositionOf
    <3>2. i \in 1..Len(ts) /\ FirstAt(ts, k, i) BY <3>1 DEF FirstAt
    <3>3. ts[i] \in TagNames /\ i # 0 BY <3>2
    <3>4. PICK v \in Type : v = value[ts[i]] BY <3>3, <1>0 DEF AnnotationsTypeOK
    <3>5. Seen(e, n, k) = v BY <3>3, <3>4, <2>8
    <3>6. Latest(v, x, n, k) BY <3>2, <3>4, <2>5
    <3>7. GivesIn(declared, v, n, k) /\ x \in Line[v] /\ (v = x \/ v \in DOMAIN full)
      BY <3>6 DEF Latest, MayWrite, Appending
    <3>8. v \in Line[e]
      <4> SUFFICES ASSUME v \notin Line[e] PROVE FALSE OBVIOUS
      <4>1. v \in DOMAIN full BY <3>7
      <4>2. x \in Line[v] \cap Line[e] /\ n \in NamesOf(x) BY <3>7, <2>1, <1>6 DEF FirstIn
      <4>3. Has(v, n, k) BY <3>7, <1>4
      <4> QED BY <4>1, <4>2, <4>3
    <3>9. ASSUME NEW d \in Line[e], Has(d, n, k) PROVE d \in Line[v]
      <4>1. HasWritten(d, x, n, k) /\ d \in Type BY <3>9, <2>6, <1>2
      <4>2. v \in Line[d] => v = d BY <4>1, <3>6 DEF Latest
      <4>3. v \in Line[d] \/ d \in Line[v] BY <3>8, <1>1, LineChain
      <4>4. v \in Line[v] BY LineStep
      <4> QED BY <4>2, <4>3, <4>4
    <3>10. Has(v, n, k) BY <3>7, <1>4
    <3> QED BY <3>5, <3>8, <3>9, <3>10
  <2>10. CASE \A j \in 1..Len(ts) : ts[j][3] # k
    <3>1. i = 0 BY <2>7, <2>10, PositionOf
    <3>2. \A d \in Line[e] : ~Has(d, n, k) BY <2>5, <2>6, <2>10, <1>2
    <3> QED BY <3>1, <3>2, <2>8
  <2> QED BY <2>9, <2>10
<1> QED BY <1>9, <1>10

(* Whatever types and lines there are, and whoever asks in whatever order: *)
(* a type sees the tag of the nearest of its line that gives one, unless a *)
(* type outside its line wrote into what they share.                       *)
THEOREM NearestAlwaysWins == AnnotationsSpec => []NearestWins
<1>1. AnnotationsInit => AnnotationsInv BY AnnotationsInitInv
<1>2. AnnotationsInv /\ [AnnotationsNext]_annotationVars => AnnotationsInv' BY AnnotationsInvNext
<1>3. AnnotationsInv => NearestWins BY NearestFollows
<1> QED BY <1>1, <1>2, <1>3, PTL DEF AnnotationsSpec
=============================================================================
