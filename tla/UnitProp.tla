------------------------------ MODULE UnitProp ------------------------------
(***************************************************************************)
(* What unit propagation computes: the literals that a set of literals     *)
(* forces through the clauses of a formula.  The cube generator rests on   *)
(* it: its propagator is bipe's reducer::Propagator, whose watched         *)
(* literals are in the module Propagator.                                  *)
(*                                                                         *)
(* The closure is the least closed set of literals around the given ones.  *)
(* Defined so, and not by repeated steps, it needs no recursion.           *)
(***************************************************************************)
EXTENDS Cubes

\* A clause whose literals but one are false forces the remaining one; when
\* they are all false it forces each of them, and the set is inconsistent.
Closed(clauses, S) ==
    \A i \in DOMAIN clauses : \A j \in DOMAIN clauses[i] :
        (\A k \in DOMAIN clauses[i] \ {j} : -clauses[i][k] \in S)
            => clauses[i][j] \in S

\* The literals on the trail when propagate() has run to its end.
Closure(numVars, clauses, lits) ==
    {l \in Literals(numVars) :
        \A S \in SUBSET Literals(numVars) :
            lits \subseteq S /\ Closed(clauses, S) => l \in S}

Consistent(S) == \A l \in S : -l \notin S

\* Unit propagation refutes the formula before anything is decided
\* (m_isUnsat after the constructor).
Refuted(numVars, clauses) ==
    \/ \E i \in DOMAIN clauses : clauses[i] = <<>>
    \/ ~Consistent(Closure(numVars, clauses, {}))

=============================================================================
