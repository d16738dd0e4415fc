------------------------------- MODULE Cubes -------------------------------
(***************************************************************************)
(* Cubes, and the branching rule of the master                             *)
(* (go-master/master/task_manager.go).                                     *)
(*                                                                         *)
(* A literal is a nonzero integer, as in a DIMACS file: v stands for "v is *)
(* true", -v for "v is false".  A clause is a sequence of literals and a   *)
(* formula a sequence of clauses, as ParseCNF leaves them in               *)
(* CNFData.Clauses.  A cube is a []int32 in the code; only its literals    *)
(* matter to the branching rule and to the model counter, so it is a set   *)
(* here.                                                                   *)
(*                                                                         *)
(* Nothing here is RECURSIVE, so that the proofs can use the module.       *)
(***************************************************************************)
EXTENDS Integers, Sequences, FiniteSets

Var(l) == IF l < 0 THEN -l ELSE l

Literals(numVars) == {l \in (-numVars)..numVars : l # 0}

\* inCube: the variables a cube has already committed.
VarsOf(cube) == {Var(l) : l \in cube}

-----------------------------------------------------------------------------
(***************************************************************************)
(* The branching rule.                                                     *)
(***************************************************************************)

\* The places of the formula at which a literal stands: <<clause, index>>.
Occurrences(clauses) ==
    UNION {{i} \X DOMAIN clauses[i] : i \in DOMAIN clauses}

\* freq: how often each variable appears across all clauses.
Freq(clauses, v) ==
    Cardinality({o \in Occurrences(clauses) : Var(clauses[o[1]][o[2]]) = v})

FormulaVars(clauses) == {Var(clauses[o[1]][o[2]]) : o \in Occurrences(clauses)}

\* The variables the rule may branch on: in the formula and not in the cube.
FreeVars(cube, clauses) == FormulaVars(clauses) \ VarsOf(cube)

\* u is passed over when v is in the race: rarer, or as frequent and smaller.
NotBetter(u, v, clauses) ==
    \/ Freq(clauses, u) < Freq(clauses, v)
    \/ Freq(clauses, u) = Freq(clauses, v) /\ u <= v

BestVar(cube, clauses) ==
    CHOOSE v \in FreeVars(cube, clauses) :
        \A u \in FreeVars(cube, clauses) : NotBetter(u, v, clauses)

MaxVar(cube) ==
    IF cube = {} THEN 0
    ELSE CHOOSE v \in VarsOf(cube) : \A u \in VarsOf(cube) : u <= v

\* Mutants: no guard against a cube without free variables, so that 0 is
\* appended; and a best variable sought among those of the cube as well.
SplitVarZero(cube, clauses) ==
    IF FreeVars(cube, clauses) # {} THEN BestVar(cube, clauses) ELSE 0

SplitVarInCube(cube, clauses) ==
    IF FreeVars(cube, clauses) # {} THEN BestVar({}, clauses) ELSE MaxVar(cube) + 1

\* The variable a cube is split on: the most frequent free variable, and when
\* no variable of the formula is free the one after the largest in the cube.
SplitVar(cube, clauses) ==
    IF FreeVars(cube, clauses) # {} THEN BestVar(cube, clauses)
                                    ELSE MaxVar(cube) + 1

\* Mutant: the halves share the array of the cube, and the second append wins.
SplitAliased(cube, clauses) ==
    << cube \cup {-SplitVar(cube, clauses)}, cube \cup {-SplitVar(cube, clauses)} >>

SplitCubeSmart(cube, clauses) ==
    << cube \cup {SplitVar(cube, clauses)}, cube \cup {-SplitVar(cube, clauses)} >>

-----------------------------------------------------------------------------
(***************************************************************************)
(* The models of a cube: what ganak counts when it is given the formula    *)
(* with the cube's literals appended as unit clauses (worker.py, _solve).  *)
(* An assignment is the set of the variables it makes true.                *)
(***************************************************************************)
Holds(a, l) == IF l > 0 THEN l \in a ELSE -l \notin a

Models(numVars, clauses, cube) ==
    {a \in SUBSET (1..numVars) :
        /\ \A i \in DOMAIN clauses :
              \E j \in DOMAIN clauses[i] : Holds(a, clauses[i][j])
        /\ \A l \in cube : Holds(a, l)}

=============================================================================
