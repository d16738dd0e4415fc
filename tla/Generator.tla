----------------------------- MODULE Generator -----------------------------
(***************************************************************************)
(* What generate() computes, without threads, queues or a counter: the     *)
(* cubes are satisfiable, and a cube gives way, in one indivisible step,   *)
(* to those of its halves that have a model, each with all that unit       *)
(* propagation adds.  CubePool implements it.                              *)
(***************************************************************************)
EXTENDS UnitProp

CONSTANT NumVars

VARIABLES
    formula,
    live        \* the cubes, as sets of literals

vars == <<formula, live>>

Satisfiable(cubes) == {c \in cubes : Models(NumVars, formula, c) # {}}

Propagate(lits) == Closure(NumVars, formula, lits)

Init == live = Satisfiable({Propagate({})})

Split(c, v) ==
    /\ live' = (live \ {c})
               \cup Satisfiable({Propagate(c \cup {v}), Propagate(c \cup {-v})})
    /\ UNCHANGED formula

\* One cube is split at a time, on a variable it leaves open.
Next == \E c \in live \ live' : \E v \in (1..NumVars) \ VarsOf(c) : Split(c, v)

Spec == Init /\ [][Next]_vars
=============================================================================
