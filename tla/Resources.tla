----------------------------- MODULE Resources -----------------------------
(***************************************************************************)
(* How a package's engine registers its resources when it starts           *)
(* (gen/resource.go, initResources): it looks for each, in the order of    *)
(* the keys, and creates what it does not find under its parent.  The      *)
(* manager is a service outside, shared by the engines of all processes,   *)
(* and a start that failed may be tried again.                             *)
(***************************************************************************)
EXTENDS Integers, Sequences

CONSTANTS Starter,    \* processes whose engine starts
          Resources,  \* the number of entities that are resources
          Parents,    \* the ways their parents may be declared, by the order of the keys
          MaxStarts, MaxResourceFaults \* bounds on a behaviour

ResourceKey == 1..Resources
OwnPackage == 0    \* the package's resource, the parent of those that declare none
OtherPackage == -1 \* a resource somebody else registers, or not
Root == -2         \* the parent of packages: there from the beginning

ASSUME ParentsAssumption ==
  Resources \in Nat \ {0} /\ Parents \subseteq [ResourceKey -> ResourceKey \cup {OwnPackage, OtherPackage}]

VARIABLES parent, registry, initing, starts, resourceFaults

resourceVars == <<parent, registry, initing, starts, resourceFaults>>

ParentOf(k) == IF k = OwnPackage THEN Root ELSE parent[k]

(* Mutation: the package's resource is left to whoever needs it. *)
KeysOnly == [k \in ResourceKey |-> k]

(* The package's resource comes first, if it is anybody's parent.          *)
InOrder ==
  (IF \E k \in ResourceKey : parent[k] = OwnPackage THEN <<OwnPackage>> ELSE <<>>)
  \o [k \in ResourceKey |-> k]

(* A start: the keys it has still to look at.  Not in the code: excused, a *)
(* call has failed, or found what another start had made since it looked.  *)
AtFirst == [pc |-> "not started", todo |-> <<>>, excused |-> FALSE]

ResourcesInit ==
  /\ parent \in Parents
  /\ registry = {Root}
  /\ initing = [s \in Starter |-> AtFirst]
  /\ starts = 0 /\ resourceFaults = 0

-----------------------------------------------------------------------------
Proceeds(s, r) == initing' = [initing EXCEPT ![s] = r]
ToCreate(s) == [initing[s] EXCEPT !.pc = "create"]
StartFails(s) == [initing[s] EXCEPT !.pc = "failed"]
CallFails(r) == [r EXCEPT !.excused = TRUE]

ResourceFault == resourceFaults < MaxResourceFaults /\ resourceFaults' = resourceFaults + 1

NextKey(s) ==
  LET rest == Tail(initing[s].todo)
  IN  [pc |-> IF rest = <<>> THEN "started" ELSE "find", todo |-> rest, excused |-> initing[s].excused]

InitResources(s) ==
  /\ initing[s].pc \in {"not started", "started", "failed"}
  /\ starts < MaxStarts /\ starts' = starts + 1
  /\ Proceeds(s, [pc |-> "find", todo |-> InOrder, excused |-> FALSE])
  /\ UNCHANGED <<parent, registry, resourceFaults>>

(* Any error of FindResource is taken for a resource that is not there.    *)
FindResource(s) ==
  /\ initing[s].pc = "find"
  /\ \/ /\ Proceeds(s, IF Head(initing[s].todo) \in registry THEN NextKey(s) ELSE ToCreate(s))
        /\ UNCHANGED resourceFaults
     \/ ResourceFault /\ Proceeds(s, CallFails(ToCreate(s)))
  /\ UNCHANGED <<parent, registry, starts>>

(* What others may have been told was missing is there now.                *)
Excusing(k) ==
  [s \in Starter |-> IF initing[s].pc = "create" /\ Head(initing[s].todo) = k
                       THEN CallFails(initing[s]) ELSE initing[s]]

(* The manager refuses a key it has, and a parent it does not have.        *)
CreateResource(s) ==
  LET k == Head(initing[s].todo)
      makes(r) == registry' = registry \cup {k} /\ initing' = [Excusing(k) EXCEPT ![s] = r]
  IN  /\ initing[s].pc = "create"
      /\ \/ /\ k \in registry \/ ParentOf(k) \notin registry
            /\ Proceeds(s, StartFails(s))
            /\ UNCHANGED <<registry, resourceFaults>>
         \/ /\ k \notin registry /\ ParentOf(k) \in registry
            /\ \/ makes(NextKey(s)) /\ UNCHANGED resourceFaults
               \/ ResourceFault /\ makes(CallFails(StartFails(s)))
         \/ ResourceFault /\ Proceeds(s, CallFails(StartFails(s))) /\ UNCHANGED registry
      /\ UNCHANGED <<parent, starts>>

RegisterElsewhere ==
  /\ OtherPackage \notin registry
  /\ registry' = registry \cup {OtherPackage}
  /\ UNCHANGED <<parent, initing, starts, resourceFaults>>

ResourcesNext ==
  \/ \E s \in Starter : InitResources(s) \/ FindResource(s) \/ CreateResource(s)
  \/ RegisterElsewhere

ResourcesSpec == ResourcesInit /\ [][ResourcesNext]_resourceVars

-----------------------------------------------------------------------------
(* A start that ends well has found or made every resource, whatever other *)
(* starts did meanwhile or before; one that fails met a failing call or    *)
(* another start that was faster, or a resource whose parent comes after   *)
(* it in the order of the keys or from another package (gen/resource.go).  *)
ResourcesExplained ==
  \A s \in Starter :
    /\ initing[s].pc = "started" => ResourceKey \subseteq registry
    /\ initing[s].pc = "failed" /\ ~initing[s].excused =>
         LET k == Head(initing[s].todo)
         IN  k \in ResourceKey /\ (parent[k] >= k \/ parent[k] = OtherPackage)
=============================================================================
