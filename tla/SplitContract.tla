--------------------------- MODULE SplitContract ---------------------------
(***************************************************************************)
(* What the cube generator relies on when it splits a cube: createCubes()  *)
(* is one indivisible step that takes a cube out of the queue and puts in  *)
(* the closures, under unit propagation, of its two halves, those without  *)
(* a contradiction; and at the start the queue holds what the formula      *)
(* forces.  CubePool has these steps as InitQueue, ExpandLeaf and          *)
(* ExpandSplit; Propagator implements them, with a trail, implication      *)
(* lists and watched literals.                                             *)
(***************************************************************************)
EXTENDS UnitProp

CONSTANT NumVars

VARIABLES
    formula,
    loaded,     \* the constructor and initQueue have run
    queue       \* the cubes to split, as sets of literals

vars == <<formula, loaded, queue>>

Propagate(lits) == Closure(NumVars, formula, lits)

\* The halves that unit propagation does not refute.
Branches(c, v) ==
    {b \in {Propagate(c \cup {v}), Propagate(c \cup {-v})} : Consistent(b)}

Init == loaded = FALSE /\ queue = {}

Load ==
    /\ ~loaded
    /\ loaded' = TRUE
    /\ queue' = IF Refuted(NumVars, formula) THEN {} ELSE {Propagate({})}
    /\ UNCHANGED formula

Leaf(c) ==
    /\ VarsOf(c) = 1..NumVars
    /\ queue' = queue \ {c}
    /\ UNCHANGED <<formula, loaded>>

Split(c, v) ==
    /\ queue' = (queue \ {c}) \cup Branches(c, v)
    /\ UNCHANGED <<formula, loaded>>

\* One cube leaves the queue at a time.
Next ==
    \/ Load
    \/ \E c \in queue \ queue' : Leaf(c) \/ \E v \in (1..NumVars) \ VarsOf(c) : Split(c, v)

Spec == Init /\ [][Next]_vars
=============================================================================
