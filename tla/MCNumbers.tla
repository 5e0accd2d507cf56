----------------------------- MODULE MCNumbers -----------------------------
(* What hands out numbers, in one run: the sequences behind a server, and  *)
(* the ids of a dictionary that is seeded.  `part` is the one that moves,  *)
(* and the other stays as it begins.                                       *)
EXTENDS NatsSequence, DictSeed, TLC

CONSTANTS s1, p1, k1, k2, r1, r2

VARIABLE part

OneServer == s1 :> p1

\* A first release, and two that list less.
ThreeReleases == {{1, 2}, {1}, {2}}

\* Runs of the ensurer are alike.
Symmetry == Permutations(Run)

seedPins == kind = "initer" /\ deletion = "mark" /\ values = {1}

NumbersInit ==
  /\ part \in {"server", "seed"}
  /\ NatsInit /\ (part # "server" => topic = "whole")
  /\ SeedInit /\ (part # "seed" => seedPins)

\* One failing insertion at a time; and after trouble none, and one run.
SeedBound ==
  IF trouble' = {} THEN Cardinality(unsure') <= 1
  ELSE unsure' = {} /\ \A r, s \in Run : run'[r].on /\ run'[s].on => r = s

ServerPart == part = "server" /\ NatsNext /\ UNCHANGED <<part, seedVars>>
SeedStep == part = "seed" /\ SeedNext /\ SeedBound /\ UNCHANGED <<part, allVars>>

NumbersNext == ServerPart \/ SeedStep

numbersVars == <<part, allVars, seedVars>>

NumbersSpec == NumbersInit /\ [][NumbersNext]_numbersVars
=============================================================================
