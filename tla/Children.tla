------------------------------ MODULE Children ------------------------------
(***************************************************************************)
(* One-to-many fields kept in a collection of their own: ListFK, RemoveFK  *)
(* and ReplaceFK (gen/mongo_generator.go), the accessors of the field      *)
(* (gen/code_generator.go), and the input parser of the parent             *)
(* (gen/gql_generator.go), which replaces the children of a parent before  *)
(* the parent is saved.                                                    *)
(*                                                                         *)
(* A child is its identifier and its foreign key.  Requests of the clients *)
(* are cut at every call of the database; a call may fail, applied or not. *)
(* `last`, `mixed` and `cut` are history: the children of the replacement  *)
(* of a parent that ended last, parents for which two replacements met,    *)
(* and parents for which one was not carried through.                      *)
(***************************************************************************)
EXTENDS Integers, Sequences, FiniteSets

CONSTANTS User,        \* clients, with one request each at a time
          Parent,      \* identifiers of parents; the first of them exists
          ChildLists,  \* inputs: children by identifier, 0 for none given
          MaxChild, MaxReplacements, MaxLostCalls   \* bounds on a behaviour

NoParent == 0
ASSUME ParentAssumption == Parent \subseteq Nat \ {NoParent}

Child == 1..MaxChild
ASSUME ChildAssumption == MaxChild \in Nat /\ ChildLists \subseteq Seq(Child \cup {0})

VARIABLES parents,     \* the collection of parents
          owner,       \* the collection of children: each one's foreign key
          childSeq,    \* the last number of their sequence
          job,         \* each client's request
          last, mixed, cut,
          replacements, lostCalls

childVars == <<parents, owner, childSeq, job, last, mixed, cut, replacements, lostCalls>>

AtRest == [pc |-> "none", parent |-> NoParent, new |-> FALSE, input |-> <<>>, items |-> <<>>]

ChildrenInit ==
  /\ parents = {CHOOSE p \in Parent : \A o \in Parent : p <= o}
  /\ owner = [i \in Child |-> NoParent]
  /\ childSeq = 0 /\ replacements = 0 /\ lostCalls = 0
  /\ job = [u \in User |-> AtRest]
  /\ last = [p \in Parent |-> {}]
  /\ mixed = {} /\ cut = {}

(* ListFK. *)
ListFK(p) == {i \in Child : owner[i] = p}

-----------------------------------------------------------------------------
(* A Set of a parent that was loaded, or a Create, which has its id. *)
BeginMutation(u, p, input) ==
  /\ job[u] = AtRest /\ replacements < MaxReplacements
  /\ p \notin parents => \A v \in User : job[v].parent # p
  /\ job' = [job EXCEPT ![u] = [pc |-> "parse", parent |-> p, new |-> p \notin parents,
                                input |-> input, items |-> <<>>]]
  /\ replacements' = replacements + 1
  /\ UNCHANGED <<parents, owner, childSeq, last, mixed, cut, lostCalls>>

(* The parser of a child: a new object takes the next number, and the      *)
(* identifier of the input when there is one.                              *)
ParseChild(u) ==
  LET me == job[u]
      given == Head(me.input)
  IN  /\ me.pc = "parse" /\ me.input # <<>>
      /\ childSeq < MaxChild
      /\ childSeq' = childSeq + 1
      /\ job' = [job EXCEPT ![u] =
           [pc |-> "parse", parent |-> me.parent, new |-> me.new, input |-> Tail(me.input),
            items |-> Append(me.items, IF given = 0 THEN childSeq + 1 ELSE given)]]
      /\ UNCHANGED <<parents, owner, last, mixed, cut, replacements, lostCalls>>

(* The accessor calls ReplaceFK: *)
Replacing(p) == {u \in User : job[u].parent = p /\ job[u].pc = "insert"}

Ends(u) == job' = [job EXCEPT ![u] = AtRest]
LoseCall == lostCalls < MaxLostCalls /\ lostCalls' = lostCalls + 1

(* Mutation: DeleteOne in the place of DeleteMany. *)
RemoveFKOne(u) ==
  LET me == job[u]
  IN  /\ me.pc = "parse" /\ me.input = <<>>
      /\ IF ListFK(me.parent) = {} THEN UNCHANGED owner
         ELSE \E one \in ListFK(me.parent) : owner' = [owner EXCEPT ![one] = NoParent]
      /\ mixed' = IF Replacing(me.parent) # {} THEN mixed \cup {me.parent}
                  ELSE mixed \ {me.parent}
      /\ cut' = cut \ {me.parent}
      /\ job' = [job EXCEPT ![u].pc = "insert"] /\ UNCHANGED lostCalls
      /\ UNCHANGED <<parents, childSeq, last, replacements>>

(* RemoveFK deletes every document of the parent, *)
RemoveFK(u) ==
  LET me == job[u]
  IN  /\ me.pc = "parse" /\ me.input = <<>>
      /\ \/ /\ owner' = [i \in Child |-> IF owner[i] = me.parent THEN NoParent ELSE owner[i]]
            /\ mixed' = IF Replacing(me.parent) # {} THEN mixed \cup {me.parent}
                        ELSE mixed \ {me.parent}
            /\ \/ /\ job' = [job EXCEPT ![u].pc = "insert"] /\ UNCHANGED lostCalls
                  /\ cut' = cut \ {me.parent}
               \/ Ends(u) /\ LoseCall /\ cut' = cut \cup {me.parent}
         \/ Ends(u) /\ LoseCall /\ UNCHANGED <<owner, mixed, cut>>
      /\ UNCHANGED <<parents, childSeq, last, replacements>>

(* and InsertMany, in order, stops at the first identifier that is taken;  *)
(* it refuses an empty list.                                               *)
Free(items, i) == owner[items[i]] = NoParent /\ \A k \in 1..(i - 1) : items[k] # items[i]
Inserted(items) ==
  LET stop == {i \in 1..Len(items) : ~Free(items, i)}
  IN  {items[i] : i \in {k \in 1..Len(items) : \A s \in stop : k < s}}

InsertMany(u) ==
  LET me == job[u]
      done == Inserted(me.items)
      whole == Cardinality(done) = Len(me.items)
  IN  /\ me.pc = "insert"
      /\ \/ /\ owner' = [i \in Child |-> IF i \in done THEN me.parent ELSE owner[i]]
            /\ last' = [last EXCEPT ![me.parent] = {me.items[i] : i \in 1..Len(me.items)}]
            /\ cut' = IF whole THEN cut ELSE cut \cup {me.parent}
            /\ \/ whole /\ me.items # <<>>
                  /\ job' = [job EXCEPT ![u].pc = "save"] /\ UNCHANGED lostCalls
               \/ (~whole \/ me.items = <<>>) /\ Ends(u) /\ UNCHANGED lostCalls
               \/ Ends(u) /\ LoseCall
         \/ /\ Ends(u) /\ LoseCall /\ cut' = cut \cup {me.parent}
            /\ UNCHANGED <<owner, last>>
      /\ UNCHANGED <<parents, childSeq, mixed, replacements>>

(* The parent is saved, or created; it may fail, and its children stay. *)
SaveParent(u) ==
  LET me == job[u]
  IN  /\ me.pc = "save"
      /\ \/ parents' = (IF me.new THEN parents \cup {me.parent} ELSE parents) /\ UNCHANGED lostCalls
         \/ UNCHANGED parents /\ LoseCall
      /\ Ends(u)
      /\ UNCHANGED <<owner, childSeq, last, mixed, cut, replacements>>

(* Delete of a parent leaves its children, and requests for it go on. *)
DeleteParent(p) ==
  /\ p \in parents /\ replacements < MaxReplacements
  /\ parents' = parents \ {p} /\ replacements' = replacements + 1
  /\ UNCHANGED <<owner, childSeq, job, last, mixed, cut, lostCalls>>

ChildrenNext ==
  \/ \E u \in User, p \in Parent, input \in ChildLists : BeginMutation(u, p, input)
  \/ \E u \in User : ParseChild(u) \/ RemoveFK(u) \/ InsertMany(u) \/ SaveParent(u)
  \/ \E p \in Parent : DeleteParent(p)

ChildrenSpec == ChildrenInit /\ [][ChildrenNext]_childVars

-----------------------------------------------------------------------------
(* ListFK gives the children of one input, all of them, the one that was   *)
(* replaced last, unless two replacements met, one was cut short after its *)
(* RemoveFK, or one is between its two calls.                              *)
ChildrenOfOneInput ==
  \A p \in Parent \ (mixed \cup cut) :
    Replacing(p) = {} => ListFK(p) = last[p]
=============================================================================
