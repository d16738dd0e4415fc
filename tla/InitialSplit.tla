---------------------------- MODULE InitialSplit ----------------------------
(***************************************************************************)
(* The initial cubes of a problem (go-master/master/main.go): starting     *)
(* from the empty cube, Rounds rounds (6 in the code), each of which       *)
(* replaces every cube by the two halves SplitCubeSmart makes of it.  The  *)
(* loop runs over the current cubes and appends to newCubes; the index of  *)
(* the range loop is k.                                                    *)
(***************************************************************************)
EXTENDS Cubes

CONSTANTS
    NumVars,      \* CNFData.NumVars
    Formulas,     \* the formulas a file may hold
    Rounds        \* rounds of splitting

\* The formulas are well formed, over the variables of the header.
ASSUME SplitAssumption ==
    /\ NumVars \in Nat
    /\ Rounds \in Nat
    /\ Formulas \subseteq Seq(Seq(Literals(NumVars)))
    /\ \A F \in Formulas : IsFiniteSet(Occurrences(F))

VARIABLES clauses, round, k, initialCubes, newCubes

vars == <<clauses, round, k, initialCubes, newCubes>>

Init ==
    /\ clauses \in Formulas
    /\ round = 0
    /\ k = 1
    /\ initialCubes = << {} >>
    /\ newCubes = <<>>

SplitNext ==
    /\ round < Rounds
    /\ k <= Len(initialCubes)
    /\ LET splits == SplitCubeSmart(initialCubes[k], clauses)
       IN  newCubes' = Append(Append(newCubes, splits[1]), splits[2])
    /\ k' = k + 1
    /\ UNCHANGED <<clauses, round, initialCubes>>

EndRound ==
    /\ round < Rounds
    /\ k > Len(initialCubes)
    /\ initialCubes' = newCubes
    /\ newCubes' = <<>>
    /\ k' = 1
    /\ round' = round + 1
    /\ UNCHANGED clauses

Next == SplitNext \/ EndRound

Spec == Init /\ [][Next]_vars

-----------------------------------------------------------------------------
(***************************************************************************)
(* Type invariant.                                                         *)
(***************************************************************************)
TypeOK ==
    /\ clauses \in Formulas
    /\ round \in 0..Rounds
    /\ k \in 1..(Len(initialCubes) + 1)
    /\ initialCubes \in Seq(SUBSET Literals(NumVars + Rounds))
    /\ newCubes \in Seq(SUBSET Literals(NumVars + Rounds))

\* The file's formula mentions enough variables for every round to find one.
EnoughVars == Cardinality(FormulaVars(clauses)) >= Rounds

ModelsIn(c) == Models(NumVars, clauses, c)

\* The cubes of the round that are still to be split.
Left == {i \in DOMAIN initialCubes : i >= k}

Partition ==
    /\ \A a \in ModelsIn({}) :
          \/ \E i \in Left : a \in ModelsIn(initialCubes[i])
          \/ \E j \in DOMAIN newCubes : a \in ModelsIn(newCubes[j])
    /\ \A i, j \in Left :
          i # j => ModelsIn(initialCubes[i]) \cap ModelsIn(initialCubes[j]) = {}
    /\ \A i, j \in DOMAIN newCubes :
          i # j => ModelsIn(newCubes[i]) \cap ModelsIn(newCubes[j]) = {}
    /\ \A i \in Left, j \in DOMAIN newCubes :
          ModelsIn(initialCubes[i]) \cap ModelsIn(newCubes[j]) = {}

(***************************************************************************)
(* In the middle of a round as at its end, the cubes already split and the *)
(* cubes still to be split partition the models of the formula, so that    *)
(* Solve starts from cubes whose counts add up to the model count.         *)
(***************************************************************************)
AlwaysPartition == EnoughVars => Partition

(***************************************************************************)
(* Each round commits one more variable in every cube, whether it finds a  *)
(* free variable in the formula or has to fall back on a new one, and any  *)
(* two cubes of a round contradict each other.  While the formula has      *)
(* enough variables only these are committed, so that ganak never sees a   *)
(* literal beyond the variables its header announces.                      *)
(***************************************************************************)
CubesFixRound ==
    /\ \A i \in DOMAIN initialCubes :
          /\ Cardinality(VarsOf(initialCubes[i])) = round
          /\ Cardinality(initialCubes[i]) = round
          /\ EnoughVars => VarsOf(initialCubes[i]) \subseteq FormulaVars(clauses)
    /\ \A i, j \in DOMAIN initialCubes :
          i # j => \E l \in initialCubes[i] : -l \in initialCubes[j]
=============================================================================
