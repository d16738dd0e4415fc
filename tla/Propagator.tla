----------------------------- MODULE Propagator -----------------------------
(***************************************************************************)
(* The propagator that the cube generator drives: bipe's                   *)
(* reducer::Propagator, with implication lists for the binary clauses and  *)
(* two watched literals, its first two, for each longer one.  The driver   *)
(* is createCubes() (CubeGeneratorCLI.cpp), which refills the propagator   *)
(* with the literals of a cube, branches on a variable both ways and takes *)
(* the trail for the two halves; the cubes it may take up are those it     *)
(* made, in any order.                                                     *)
(*                                                                         *)
(* A step is one iteration of a loop of propagate().  The list that a loop *)
(* compacts in place is split into the part already kept and the part      *)
(* still to be read.                                                       *)
(*                                                                         *)
(* A clause is what parseDIMACS() of cube_cli has read: a literal may      *)
(* stand in it several times, also next to its negation.                   *)
(***************************************************************************)
EXTENDS UnitProp, SequencesExt

CONSTANTS
    NumVars,      \* m_nbVar
    Formulas,     \* the formulas the constructor may be given
    MaxCubes      \* bound: cubes taken up by createCubes

ASSUME PropagatorAssumption ==
    /\ NumVars \in Nat
    /\ MaxCubes \in Nat
    /\ Formulas \subseteq Seq(Seq(Literals(NumVars)))

VARIABLES
    clauses,      \* the formula
    next,         \* the clause the constructor adds next
    stored,       \* m_data: the literals of each clause longer than two
    implied,      \* m_binListRefs: what each literal implies
    watches,      \* m_watchList: the clauses that watch each literal
    trail,        \* m_trail
    trailPos,     \* m_trailPos: how much of the trail is propagated
    trailLimUnit, \* m_trailLimUnit
    isUnsat,      \* m_isUnsat
    pc,           \* where the caller and propagate() are
    caller,       \* where propagate() returns to
    result,       \* what it returned
    todo,         \* the rest of the list it reads
    kept,         \* the watches it has kept
    cubes,        \* the cubes createCubes has made
    cube,         \* the cube it splits
    base,         \* sizeTrail
    branch,       \* the variable it branches on
    taken         \* cubes taken up so far

database == <<clauses, next, stored, implied>>
driver == <<cubes, cube, base, branch, taken>>
vars == <<database, watches, trail, trailPos, trailLimUnit, isUnsat, pc, caller,
          result, todo, kept, driver>>

\* value(l): the assignment is what the trail says.
IsTrue(l) == l \in Range(trail)
IsFalse(l) == -l \in Range(trail)
IsUndef(l) == ~IsTrue(l) /\ ~IsFalse(l)

\* What is left of s when only the positions P are kept.
Keep(s, P) ==
    LET nth(n) == CHOOSE p \in P : Cardinality({q \in P : q <= p}) = n
    IN  [n \in 1..Cardinality(P) |-> s[nth(n)]]

Swap(s, i, j) == [s EXCEPT ![i] = s[j], ![j] = s[i]]

Init ==
    /\ clauses \in Formulas
    /\ next = 1
    /\ stored = [i \in DOMAIN clauses |-> <<>>]
    /\ implied = [l \in Literals(NumVars) |-> <<>>]
    /\ watches = [l \in Literals(NumVars) |-> <<>>]
    /\ trail = <<>>
    /\ trailPos = 0
    /\ trailLimUnit = 0
    /\ isUnsat = FALSE
    /\ pc = "load"
    /\ caller = "load"
    /\ result = TRUE
    /\ todo = <<>>
    /\ kept = <<>>
    /\ cubes = {}
    /\ cube = <<>>
    /\ base = 0
    /\ branch = 0
    /\ taken = 0

-----------------------------------------------------------------------------
(***************************************************************************)
(* The constructor: addClause() for one clause after the other.            *)
(***************************************************************************)

\* What is left of a clause when its false literals are removed.
Reduced(c) == Keep(c, {i \in DOMAIN c : IsUndef(c[i])})

Adding ==
    /\ pc = "load" /\ next <= Len(clauses) /\ ~isUnsat
    /\ next' = next + 1

\* Already satisfied.
AddSatisfied ==
    /\ Adding
    /\ \E i \in DOMAIN clauses[next] : IsTrue(clauses[next][i])
    /\ UNCHANGED <<clauses, stored, implied, watches, trail, trailPos,
                   trailLimUnit, isUnsat, pc, caller, result, todo, kept, driver>>

Live(c) == \A i \in DOMAIN c : ~IsTrue(c[i])

\* Mutant: the empty clause is skipped.
AddEmptySkipped ==
    /\ Adding
    /\ Live(clauses[next]) /\ Reduced(clauses[next]) = <<>>
    /\ UNCHANGED <<clauses, stored, implied, watches, trail, trailPos,
                   trailLimUnit, isUnsat, pc, caller, result, todo, kept, driver>>

AddEmpty ==
    /\ Adding
    /\ Live(clauses[next]) /\ Reduced(clauses[next]) = <<>>
    /\ isUnsat' = TRUE
    /\ UNCHANGED <<clauses, stored, implied, watches, trail, trailPos,
                   trailLimUnit, pc, caller, result, todo, kept, driver>>

AddUnit ==
    /\ Adding
    /\ Live(clauses[next]) /\ Len(Reduced(clauses[next])) = 1
    /\ trail' = Append(trail, Reduced(clauses[next])[1])
    /\ pc' = "take"
    /\ caller' = "unit"
    /\ UNCHANGED <<clauses, stored, implied, watches, trailPos, trailLimUnit,
                   isUnsat, result, todo, kept, driver>>

\* Mutant: the result of propagate() is dropped.
AddedUnitUnchecked ==
    /\ pc = "unit"
    /\ pc' = "load"
    /\ UNCHANGED <<database, watches, trail, trailPos, trailLimUnit, isUnsat,
                   caller, result, todo, kept, driver>>

\* The end of addClause for a unit clause: m_isUnsat = !propagate().
AddedUnit ==
    /\ pc = "unit"
    /\ isUnsat' = ~result
    /\ pc' = "load"
    /\ UNCHANGED <<database, watches, trail, trailPos, trailLimUnit, caller,
                   result, todo, kept, driver>>

AddBinary ==
    /\ Adding
    /\ Live(clauses[next]) /\ Len(Reduced(clauses[next])) = 2
    /\ LET a == Reduced(clauses[next])[1]
           b == Reduced(clauses[next])[2]
           once == [implied EXCEPT ![-a] = Append(@, b)]
       IN  implied' = [once EXCEPT ![-b] = Append(@, a)]
    /\ UNCHANGED <<clauses, stored, watches, trail, trailPos, trailLimUnit,
                   isUnsat, pc, caller, result, todo, kept, driver>>

\* A longer clause, and attachClause: it watches its first two literals.
AddLong ==
    /\ Adding
    /\ Live(clauses[next]) /\ Len(Reduced(clauses[next])) > 2
    /\ stored' = [stored EXCEPT ![next] = Reduced(clauses[next])]
    /\ LET c == Reduced(clauses[next])
           once == [watches EXCEPT ![c[1]] = Append(@, next)]
       IN  watches' = [once EXCEPT ![c[2]] = Append(@, next)]
    /\ UNCHANGED <<clauses, implied, trail, trailPos, trailLimUnit, isUnsat,
                   pc, caller, result, todo, kept, driver>>

\* initQueue: the trail is the first cube.  With a refuted formula createCubes
\* aborts on it (ExpandAborts of CubePool), so there is none to take up.
Loaded ==
    /\ pc = "load" /\ (next > Len(clauses) \/ isUnsat)
    /\ trailLimUnit' = IF isUnsat THEN trailLimUnit ELSE Len(trail)
    /\ cubes' = IF isUnsat THEN {} ELSE {trail}
    /\ pc' = "idle"
    /\ UNCHANGED <<database, watches, trail, trailPos, isUnsat, caller, result,
                   todo, kept, cube, base, branch, taken>>

-----------------------------------------------------------------------------
(***************************************************************************)
(* propagate().                                                            *)
(***************************************************************************)
Lit == trail[trailPos]

Return(r) == result' = r /\ pc' = caller

Propagated ==
    /\ pc = "take" /\ trailPos = Len(trail)
    /\ Return(TRUE)
    /\ UNCHANGED <<database, watches, trail, trailPos, trailLimUnit, isUnsat,
                   caller, todo, kept, driver>>

TakeLit ==
    /\ pc = "take" /\ trailPos < Len(trail)
    /\ trailPos' = trailPos + 1
    /\ todo' = implied[trail[trailPos + 1]]
    /\ pc' = "imply"
    /\ UNCHANGED <<database, watches, trail, trailLimUnit, isUnsat, caller,
                   result, kept, driver>>

Imply ==
    /\ pc = "imply" /\ todo # <<>>
    /\ todo' = Tail(todo)
    /\ trail' = IF IsUndef(Head(todo)) THEN Append(trail, Head(todo)) ELSE trail
    /\ IF IsFalse(Head(todo)) THEN Return(FALSE) ELSE UNCHANGED <<result, pc>>
    /\ UNCHANGED <<database, watches, trailPos, trailLimUnit, isUnsat, caller,
                   kept, driver>>

StartWatches ==
    /\ pc = "imply" /\ todo = <<>>
    /\ todo' = watches[-Lit]
    /\ kept' = <<>>
    /\ pc' = "watch"
    /\ UNCHANGED <<database, watches, trail, trailPos, trailLimUnit, isUnsat,
                   caller, result, driver>>

\* The clause with its false watch in front.
Turned(c) == IF c[2] = -Lit THEN Swap(c, 1, 2) ELSE c

\* The first literal behind the watches that is not false, 0 if there is none.
NewWatch(c) ==
    LET open == {i \in 3..Len(c) : ~IsFalse(c[i])}
    IN  IF open = {} THEN 0 ELSE CHOOSE i \in open : \A j \in open : i <= j

\* The clause is satisfied, or becomes so: the watch stays.
KeepWatch ==
    /\ pc = "watch" /\ todo # <<>>
    /\ LET c == Turned(stored[Head(todo)])
           p == NewWatch(c)
       IN  /\ \/ IsTrue(c[2]) /\ UNCHANGED trail
              \/ ~IsTrue(c[2]) /\ p # 0 /\ IsTrue(c[p]) /\ UNCHANGED trail
              \/ IsUndef(c[2]) /\ p = 0 /\ trail' = Append(trail, c[2])
           /\ stored' = [stored EXCEPT ![Head(todo)] = c]
    /\ kept' = Append(kept, Head(todo))
    /\ todo' = Tail(todo)
    /\ UNCHANGED <<clauses, next, implied, watches, trailPos, trailLimUnit,
                   isUnsat, pc, caller, result, driver>>

MoveWatch ==
    /\ pc = "watch" /\ todo # <<>>
    /\ LET c == Turned(stored[Head(todo)])
           p == NewWatch(c)
       IN  /\ ~IsTrue(c[2]) /\ p # 0 /\ IsUndef(c[p])
           /\ stored' = [stored EXCEPT ![Head(todo)] = Swap(c, 1, p)]
           /\ watches' = [watches EXCEPT ![c[p]] = Append(@, Head(todo))]
    /\ todo' = Tail(todo)
    /\ UNCHANGED <<clauses, next, implied, trail, trailPos, trailLimUnit, isUnsat,
                   pc, caller, result, kept, driver>>

\* Mutant: the rest of the list is cut off.
ConflictCut ==
    /\ pc = "watch" /\ todo # <<>>
    /\ LET c == Turned(stored[Head(todo)])
       IN  /\ NewWatch(c) = 0 /\ IsFalse(c[2])
           /\ stored' = [stored EXCEPT ![Head(todo)] = c]
    /\ watches' = [watches EXCEPT ![-Lit] = Append(kept, Head(todo))]
    /\ Return(FALSE)
    /\ UNCHANGED <<clauses, next, implied, trail, trailPos, trailLimUnit, isUnsat,
                   caller, todo, kept, driver>>

\* Every literal is false: the rest of the list is kept as it is.
Conflict ==
    /\ pc = "watch" /\ todo # <<>>
    /\ LET c == Turned(stored[Head(todo)])
       IN  /\ NewWatch(c) = 0 /\ IsFalse(c[2])
           /\ stored' = [stored EXCEPT ![Head(todo)] = c]
    /\ watches' = [watches EXCEPT ![-Lit] = kept \o todo]
    /\ Return(FALSE)
    /\ UNCHANGED <<clauses, next, implied, trail, trailPos, trailLimUnit, isUnsat,
                   caller, todo, kept, driver>>

EndWatches ==
    /\ pc = "watch" /\ todo = <<>>
    /\ watches' = [watches EXCEPT ![-Lit] = kept]
    /\ pc' = "take"
    /\ UNCHANGED <<database, trail, trailPos, trailLimUnit, isUnsat, caller,
                   result, todo, kept, driver>>

-----------------------------------------------------------------------------
(***************************************************************************)
(* createCubes().                                                          *)
(***************************************************************************)

\* restart(), and the literals of the cube that are not set yet.
Refill(c) ==
    LET units == SubSeq(trail, 1, trailLimUnit)
    IN  units \o Keep(c, {i \in DOMAIN c : {c[i], -c[i]} \cap Range(units) = {}})

Fill ==
    /\ pc = "idle" /\ taken < MaxCubes
    /\ \E c \in cubes :
          /\ cube' = c
          /\ cubes' = cubes \ {c}
          /\ trail' = Refill(c)
    /\ trailPos' = trailLimUnit
    /\ taken' = taken + 1
    /\ pc' = "take"
    /\ caller' = "filled"
    /\ UNCHANGED <<database, watches, trailLimUnit, isUnsat, result, todo, kept,
                   base, branch>>

Free == {v \in 1..NumVars : v \notin {Var(cube[i]) : i \in DOMAIN cube}}

\* uncheckedEnqueue(makeLitTrue(v)).
BranchTrue ==
    /\ pc = "filled" /\ result /\ Len(trail) = Len(cube)
    /\ \E v \in Free :
          /\ branch' = v
          /\ trail' = Append(trail, v)
    /\ base' = Len(trail)
    /\ pc' = "take"
    /\ caller' = "true"
    /\ UNCHANGED <<database, watches, trailPos, trailLimUnit, isUnsat, result,
                   todo, kept, cubes, cube, taken>>

\* A leaf is done, it is not split again.
Leaf ==
    /\ pc = "filled" /\ result /\ Len(trail) = Len(cube)
    /\ Free = {}
    /\ pc' = "idle"
    /\ UNCHANGED <<database, watches, trail, trailPos, trailLimUnit, isUnsat,
                   caller, result, todo, kept, driver>>

\* Mutant: the new literal counts as propagated.
BranchFalseSkipped ==
    /\ pc = "true"
    /\ cubes' = IF result THEN cubes \cup {trail} ELSE cubes
    /\ trail' = Append(SubSeq(trail, 1, base), -branch)
    /\ trailPos' = base + 1
    /\ pc' = "take"
    /\ caller' = "false"
    /\ UNCHANGED <<database, watches, trailLimUnit, isUnsat, result, todo, kept,
                   cube, base, branch, taken>>

\* The half is taken, cancelUntilPos(sizeTrail), and the other one tried.
BranchFalse ==
    /\ pc = "true"
    /\ cubes' = IF result THEN cubes \cup {trail} ELSE cubes
    /\ trail' = Append(SubSeq(trail, 1, base), -branch)
    /\ trailPos' = base
    /\ pc' = "take"
    /\ caller' = "false"
    /\ UNCHANGED <<database, watches, trailLimUnit, isUnsat, result, todo, kept,
                   cube, base, branch, taken>>

\* Mutant: the half keeps the decisions only.
EndSplitBare ==
    /\ pc = "false"
    /\ cubes' = IF result THEN cubes \cup {SubSeq(trail, 1, base + 1)} ELSE cubes
    /\ pc' = "idle"
    /\ UNCHANGED <<database, watches, trail, trailPos, trailLimUnit, isUnsat,
                   caller, result, todo, kept, cube, base, branch, taken>>

EndSplit ==
    /\ pc = "false"
    /\ cubes' = IF result THEN cubes \cup {trail} ELSE cubes
    /\ pc' = "idle"
    /\ UNCHANGED <<database, watches, trail, trailPos, trailLimUnit, isUnsat,
                   caller, result, todo, kept, cube, base, branch, taken>>

Next ==
    \/ AddSatisfied \/ AddEmpty \/ AddUnit \/ AddedUnit \/ AddBinary \/ AddLong
    \/ Loaded
    \/ Propagated \/ TakeLit \/ Imply \/ StartWatches
    \/ KeepWatch \/ MoveWatch \/ Conflict \/ EndWatches
    \/ Fill \/ BranchTrue \/ Leaf \/ BranchFalse \/ EndSplit

Spec == Init /\ [][Next]_vars

-----------------------------------------------------------------------------
\* Type invariant.
TypeOK ==
    /\ clauses \in Formulas
    /\ next \in 1..(Len(clauses) + 1)
    /\ \A i \in DOMAIN clauses : Range(stored[i]) \subseteq Range(clauses[i])
    /\ \A l \in Literals(NumVars) :
          /\ Range(implied[l]) \subseteq Literals(NumVars)
          /\ Range(watches[l]) \subseteq DOMAIN clauses
    /\ Range(trail) \subseteq Literals(NumVars)
    /\ trailLimUnit <= Len(trail) /\ trailPos \in trailLimUnit..Len(trail)
    /\ pc \in {"true", "false"} => base < Len(trail)
    /\ isUnsat \in BOOLEAN /\ result \in BOOLEAN
    /\ pc \in {"load", "unit", "idle", "take", "imply", "watch", "filled", "true", "false"}
    /\ taken \in 0..MaxCubes

\* The assertion of uncheckedEnqueue: no variable is put on the trail twice.
EnqueuedOnce ==
    \A i, j \in DOMAIN trail : Var(trail[i]) = Var(trail[j]) => i = j

\* Whenever propagate() is not running, after a conflict and a cancellation
\* too, every long clause stands in the list of a literal as often as the
\* literal is among its first two, which is twice when the clause repeats it:
\* no watch is lost or doubled.
WatchesFirstTwo ==
    pc # "watch" =>
        \A i \in DOMAIN clauses : \A l \in Literals(NumVars) :
            Cardinality({k \in DOMAIN watches[l] : watches[l][k] = i})
              = Cardinality({k \in {1, 2} : stored[i] # <<>> /\ stored[i][k] = l})

\* The literals the caller of propagate() has decided.
Decided ==
    CASE pc = "filled" -> Range(cube)
      [] pc = "true"   -> Range(cube) \cup {branch}
      [] pc = "false"  -> Range(cube) \cup {-branch}
      [] OTHER         -> {}

\* propagate() computes unit propagation: the watched literals, left where
\* conflicts and cancellations have put them, miss no implication and no
\* conflict.
PropagatesAll ==
    pc \in {"filled", "true", "false"} =>
        LET C == Closure(NumVars, clauses, Decided)
        IN  IF result THEN Range(trail) = C ELSE ~Consistent(C)

\* The assertions of createCubes: a cube taken from the queue propagates
\* without a conflict to exactly its own literals.
CubeRefills == pc = "filled" => result /\ Len(trail) = Len(cube)

\* No assertion on the way of a split fails, neither in uncheckedEnqueue nor
\* in createCubes.
AssertionsHold == EnqueuedOnce /\ CubeRefills

\* The constructor refutes exactly the formulas that unit propagation refutes.
LoadedRefuted == pc = "idle" => (isUnsat <=> Refuted(NumVars, clauses))

-----------------------------------------------------------------------------
Busy == pc \in {"take", "imply", "watch"}

\* What the caller of propagate() is at.
Phase == IF Busy THEN caller ELSE pc

Loading == Phase \in {"load", "unit"}
Cubing == Phase \in {"filled", "true", "false"}

\* The cubes to split.  While one is being split it stands for its halves.
Queue ==
    LET made == {Range(c) : c \in cubes}
    IN  IF Cubing THEN {S \in made : ~(Range(cube) \subseteq S)} \cup {Range(cube)} ELSE made

Contract == INSTANCE SplitContract WITH formula <- clauses, loaded <- ~Loading, queue <- Queue

\* The propagator and its driver do what CubePool takes createCubes() to do:
\* restarts, cancellations and conflicts do not show, and every cube gives way
\* to its halves in one step.
SplitsAsPromised == Contract!Spec

=============================================================================
