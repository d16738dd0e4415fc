------------------------------ MODULE Counting ------------------------------
(***************************************************************************)
(* What divide-and-conquer counting promises, without queue, checkbook or  *)
(* goroutines.  The models of the formula (Universe) lie in pieces.  A     *)
(* piece is counted, or dropped when ganak prints no count for it, or cut  *)
(* in two, each in one indivisible step and never twice; and the total is  *)
(* logged once, at some time.  Master implements it.                       *)
(***************************************************************************)
EXTENDS Integers, FiniteSets

CONSTANT Universe

VARIABLES
    open,       \* the pieces nobody has counted or dropped, none of them empty
    total,      \* totalCount
    logged      \* the count in the result log, -1 before there is one

vars == <<open, total, logged>>

IsPartition(pieces) ==
    /\ UNION pieces = Universe
    /\ \A S, T \in pieces : S # T => S \cap T = {}
    /\ {} \notin pieces

Init == IsPartition(open) /\ total = 0 /\ logged = -1

Count(S) ==
    /\ open' = open \ {S}
    /\ total' = total + Cardinality(S)
    /\ UNCHANGED logged

Drop(S) == open' = open \ {S} /\ UNCHANGED <<total, logged>>

\* A half may be empty, and is then no piece.
Halve(S, A) ==
    /\ open' = ((open \ {S}) \cup {A, S \ A}) \ {{}}
    /\ UNCHANGED <<total, logged>>

Log == logged = -1 /\ logged' = total /\ UNCHANGED <<open, total>>

Next ==
    \/ \E S \in open : Count(S) \/ Drop(S) \/ \E A \in SUBSET S : Halve(S, A)
    \/ Log

Spec == Init /\ [][Next]_vars
=============================================================================
