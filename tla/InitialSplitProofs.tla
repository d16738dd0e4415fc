------------------------- MODULE InitialSplitProofs -------------------------
(***************************************************************************)
(* For every formula with enough variables and every number of rounds, the *)
(* loop of main.go makes cubes that partition the models of the formula.   *)
(***************************************************************************)
EXTENDS InitialSplit, CubesProofs

\* The cube commits m variables, all of them variables of the formula.
Commits(c, m) ==
    /\ VarsOf(c) \subseteq FormulaVars(clauses)
    /\ IsFiniteSet(VarsOf(c))
    /\ Cardinality(VarsOf(c)) = m

Shape ==
    /\ round \in 0..Rounds
    /\ k \in 1..(Len(initialCubes) + 1)
    /\ initialCubes \in Seq(SUBSET Literals(NumVars))
    /\ newCubes \in Seq(SUBSET Literals(NumVars))
    /\ \A i \in DOMAIN initialCubes : Commits(initialCubes[i], round)
    /\ \A j \in DOMAIN newCubes : Commits(newCubes[j], round + 1)

IInv == clauses \in Formulas /\ (EnoughVars => Shape /\ Partition)

-----------------------------------------------------------------------------
\* A cube that commits fewer variables than the formula has leaves one free.
LEMMA OneIsFree ==
    ASSUME SplitAssumption, clauses \in Formulas, EnoughVars,
           NEW c, NEW m \in Nat, m < Rounds, Commits(c, m)
    PROVE  FreeVars(c, clauses) # {}
<1>1. SUFFICES ASSUME FormulaVars(clauses) \subseteq VarsOf(c) PROVE FALSE
    BY DEF FreeVars
<1>2. FormulaVars(clauses) = VarsOf(c)
    BY <1>1 DEF Commits
<1> QED
    BY <1>2 DEF Commits, EnoughVars, SplitAssumption

\* The two halves of a cube commit one variable more than the cube.
LEMMA HalvesCommit ==
    ASSUME SplitAssumption, clauses \in Formulas, EnoughVars,
           NEW c \in SUBSET Literals(NumVars), NEW m \in Nat, m < Rounds, Commits(c, m)
    PROVE  /\ Commits(SplitCubeSmart(c, clauses)[1], m + 1)
           /\ Commits(SplitCubeSmart(c, clauses)[2], m + 1)
<1> DEFINE v == SplitVar(c, clauses)
<1>1. /\ NumVars \in Nat
      /\ clauses \in Seq(Seq(Literals(NumVars)))
      /\ IsFiniteSet(Occurrences(clauses))
    BY DEF SplitAssumption
<1>2. FreeVars(c, clauses) # {}
    BY OneIsFree
<1>3. v \in FreeVars(c, clauses) /\ v \in 1..NumVars
    BY <1>1, <1>2, SplitVarIsFree
<1> HIDE DEF v
<1>4. Var(v) = v /\ Var(-v) = v
    BY <1>1, <1>3 DEF Var
<1>5. VarsOf(c \cup {v}) = VarsOf(c) \cup {v}
    BY <1>4 DEF VarsOf
<1>6. VarsOf(c \cup {-v}) = VarsOf(c) \cup {v}
    BY <1>4 DEF VarsOf
<1>7. v \in FormulaVars(clauses) /\ v \notin VarsOf(c)
    BY <1>3 DEF FreeVars
<1>8. /\ IsFiniteSet(VarsOf(c) \cup {v})
      /\ Cardinality(VarsOf(c) \cup {v}) = m + 1
    BY <1>7, FS_AddElement DEF Commits
<1>9. Commits(c \cup {v}, m + 1) /\ Commits(c \cup {-v}, m + 1)
    BY <1>5, <1>6, <1>7, <1>8 DEF Commits
<1> QED
    BY <1>9 DEF SplitCubeSmart, v

\* The empty cube is a partition of one cube.
LEMMA InitIInv == SplitAssumption /\ Init => IInv
<1> SUFFICES ASSUME SplitAssumption, Init PROVE Shape /\ Partition
    BY DEF IInv, Init
<1> USE DEF Init
<1>1. VarsOf({}) = {} /\ IsFiniteSet({}) /\ Cardinality({}) = 0
    BY FS_EmptySet DEF VarsOf
<1>2. initialCubes \in Seq(SUBSET Literals(NumVars)) /\ newCubes \in Seq(SUBSET Literals(NumVars))
    OBVIOUS
<1>3. DOMAIN initialCubes = {1} /\ initialCubes[1] = {} /\ DOMAIN newCubes = {} /\ Len(initialCubes) = 1
    OBVIOUS
<1>4. Shape
    <2>1. Commits(initialCubes[1], round)
        BY <1>1, <1>3 DEF Commits
    <2>2. round \in 0..Rounds /\ k \in 1..(Len(initialCubes) + 1)
        BY <1>3 DEF SplitAssumption
    <2> QED
        BY <1>2, <1>3, <2>1, <2>2 DEF Shape
<1>5. Left = {1}
    BY <1>3 DEF Left
<1>6. Partition
    BY <1>3, <1>5 DEF Partition
<1> QED
    BY <1>4, <1>6

LEMMA NextIInv == SplitAssumption /\ IInv /\ [Next]_vars => IInv'
<1> SUFFICES ASSUME SplitAssumption, IInv, [Next]_vars PROVE IInv'
    OBVIOUS
<1>0. clauses' = clauses /\ clauses \in Formulas
    BY DEF Next, SplitNext, EndRound, vars, IInv
<1>1. EnoughVars' <=> EnoughVars
    BY <1>0 DEF EnoughVars
<1>2. SUFFICES ASSUME EnoughVars PROVE Shape' /\ Partition'
    BY <1>0, <1>1 DEF IInv
<1>3. Shape /\ Partition
    BY <1>2 DEF IInv
<1>4. CASE SplitNext
    <2> DEFINE c == initialCubes[k]
               a1 == SplitCubeSmart(c, clauses)[1]
               a2 == SplitCubeSmart(c, clauses)[2]
               n == Len(newCubes)
    <2>1. /\ NumVars \in Nat
          /\ clauses \in Seq(Seq(Literals(NumVars)))
          /\ IsFiniteSet(Occurrences(clauses))
          /\ Rounds \in Nat
        BY <1>0 DEF SplitAssumption
    <2>2. /\ k \in DOMAIN initialCubes
          /\ round \in Nat /\ round < Rounds
          /\ Commits(c, round)
          /\ c \in SUBSET Literals(NumVars)
        BY <1>3, <1>4, <2>1 DEF SplitNext, Shape
    <2>3. /\ Commits(a1, round + 1)
          /\ Commits(a2, round + 1)
        BY <1>0, <1>2, <2>2, HalvesCommit
    <2>4. /\ a1 \in SUBSET Literals(NumVars)
          /\ a2 \in SUBSET Literals(NumVars)
          /\ ModelsIn(c) = ModelsIn(a1) \cup ModelsIn(a2)
          /\ ModelsIn(a1) \cap ModelsIn(a2) = {}
        <3>1. FreeVars(c, clauses) # {}
            BY <1>0, <1>2, <2>2, OneIsFree
        <3>2. /\ SplitCubeSmart(c, clauses) \in Seq(SUBSET Literals(NumVars))
              /\ Len(SplitCubeSmart(c, clauses)) = 2
              /\ Models(NumVars, clauses, c) = Models(NumVars, clauses, a1)
                                                  \cup Models(NumVars, clauses, a2)
              /\ Models(NumVars, clauses, a1) \cap Models(NumVars, clauses, a2) = {}
            BY <2>1, <2>2, <3>1, SplitPartitions
        <3> QED
            BY <3>2 DEF ModelsIn
    <2> HIDE DEF a1, a2, c
    <2>5. /\ newCubes' = Append(Append(newCubes, a1), a2)
          /\ k' = k + 1 /\ round' = round /\ initialCubes' = initialCubes
        BY <1>4 DEF SplitNext, a1, a2, c
    <2>6. /\ n \in Nat
          /\ DOMAIN newCubes = 1..n
          /\ DOMAIN (newCubes') = 1..(n + 2)
          /\ newCubes' \in Seq(SUBSET Literals(NumVars))
          /\ newCubes'[n + 1] = a1 /\ newCubes'[n + 2] = a2
          /\ \A j \in 1..n : newCubes'[j] = newCubes[j]
        BY <1>3, <2>4, <2>5 DEF Shape
    <2> HIDE DEF n
    <2>7. Shape'
        <3>1. \A j \in 1..n : Commits(newCubes[j], round + 1)
            BY <1>3, <2>6 DEF Shape
        <3>2. ASSUME NEW j \in 1..(n + 2) PROVE Commits(newCubes'[j], round + 1)
            <4>1. CASE j \in 1..n
                BY <2>6, <3>1, <4>1
            <4>2. CASE j = n + 1
                BY <2>3, <2>6, <4>2
            <4>3. CASE j = n + 2
                BY <2>3, <2>6, <4>3
            <4> QED
                BY <2>6, <4>1, <4>2, <4>3
        <3>3. \A j \in DOMAIN (newCubes') : Commits(newCubes[j], round + 1)'
            BY <1>0, <2>5, <2>6, <3>2 DEF Commits
        <3>4. \A i \in DOMAIN (initialCubes') : Commits(initialCubes[i], round)'
            BY <1>0, <1>3, <2>5 DEF Shape, Commits
        <3>5. k' \in 1..(Len(initialCubes') + 1)
            BY <1>3, <2>2, <2>5 DEF Shape
        <3> QED
            BY <1>3, <2>5, <2>6, <3>3, <3>4, <3>5 DEF Shape
    <2>8. Partition'
        <3> DEFINE MM(e) == Models(NumVars, clauses, e)
        <3>1. /\ Left' = Left \ {k}
              /\ k \in Left
            BY <1>3, <2>2, <2>5 DEF Left, Shape
        <3>2. /\ MM(c) = MM(a1) \cup MM(a2)
              /\ MM(a1) \cap MM(a2) = {}
            BY <2>4 DEF ModelsIn
        <3>3. /\ \A a \in MM({}) : \/ \E i \in Left : a \in MM(initialCubes[i])
                                  \/ \E j \in 1..n : a \in MM(newCubes[j])
              /\ \A i, j \in Left : i # j => MM(initialCubes[i]) \cap MM(initialCubes[j]) = {}
              /\ \A i, j \in 1..n : i # j => MM(newCubes[i]) \cap MM(newCubes[j]) = {}
              /\ \A i \in Left, j \in 1..n : MM(initialCubes[i]) \cap MM(newCubes[j]) = {}
            BY <1>3, <2>6 DEF Partition, ModelsIn
        <3>4. /\ MM(newCubes'[n + 1]) = MM(a1)
              /\ MM(newCubes'[n + 2]) = MM(a2)
              /\ \A j \in 1..n : MM(newCubes'[j]) = MM(newCubes[j])
            BY <2>6
        <3>5. /\ n + 1 \in 1..(n + 2) /\ n + 2 \in 1..(n + 2) /\ n + 1 # n + 2
              /\ \A j \in 1..(n + 2) : j \in 1..n \/ j = n + 1 \/ j = n + 2
              /\ \A j \in 1..n : j \in 1..(n + 2) /\ j # n + 1 /\ j # n + 2
            BY <2>6
        <3>6. MM(initialCubes[k]) = MM(a1) \cup MM(a2)
            BY <3>2 DEF c
        <3> HIDE DEF MM
        <3>7. \A a \in MM({}) : \/ \E i \in Left' : a \in MM(initialCubes[i])
                                \/ \E j \in 1..(n + 2) : a \in MM(newCubes'[j])
            BY <3>1, <3>3, <3>4, <3>5, <3>6
        <3>8. \A i, j \in Left' : i # j => MM(initialCubes[i]) \cap MM(initialCubes[j]) = {}
            BY <3>1, <3>3
        <3>9. \A i \in Left', j \in 1..(n + 2) : MM(initialCubes[i]) \cap MM(newCubes'[j]) = {}
            <4>1. \A i \in Left' : i \in Left /\ i # k
                BY <3>1
            <4>2. \A i \in Left' : /\ MM(initialCubes[i]) \cap MM(a1) = {}
                                  /\ MM(initialCubes[i]) \cap MM(a2) = {}
                BY <3>1, <3>3, <3>6, <4>1
            <4> QED
                BY <3>3, <3>4, <3>5, <4>1, <4>2
        <3>10. \A i, j \in 1..(n + 2) : i # j => MM(newCubes'[i]) \cap MM(newCubes'[j]) = {}
            <4>1. \A i \in 1..n : MM(newCubes[i]) \cap MM(a1) = {} /\ MM(newCubes[i]) \cap MM(a2) = {}
                BY <3>1, <3>3, <3>6
            <4>2. \A i, j \in 1..n : i # j => MM(newCubes'[i]) \cap MM(newCubes'[j]) = {}
                BY <3>3, <3>4
            <4>3. \A i \in 1..n : /\ MM(newCubes'[i]) \cap MM(newCubes'[n + 1]) = {}
                                  /\ MM(newCubes'[i]) \cap MM(newCubes'[n + 2]) = {}
                BY <3>4, <4>1
            <4>4. MM(newCubes'[n + 1]) \cap MM(newCubes'[n + 2]) = {}
                BY <3>2, <3>4
            <4>5. \A S, T : S \cap T = {} => T \cap S = {}
                OBVIOUS
            <4> QED
                BY <3>5, <4>2, <4>3, <4>4, <4>5
        <3> QED
            BY <1>0, <2>5, <2>6, <3>7, <3>8, <3>9, <3>10 DEF Partition, ModelsIn, MM
    <2> QED
        BY <2>7, <2>8
<1>5. CASE EndRound
    <2>1. /\ initialCubes' = newCubes /\ newCubes' = <<>>
          /\ k' = 1 /\ round' = round + 1 /\ round < Rounds
          /\ k > Len(initialCubes)
        BY <1>5 DEF EndRound
    <2>2. DOMAIN (newCubes') = {} /\ newCubes' \in Seq(SUBSET Literals(NumVars))
        BY <2>1
    <2>3. Shape'
        <3>1. round' \in 0..Rounds
            BY <1>3, <2>1 DEF Shape, SplitAssumption
        <3>2. k' \in 1..(Len(initialCubes') + 1)
            BY <1>3, <2>1 DEF Shape
        <3>3. \A i \in DOMAIN (initialCubes') : Commits(initialCubes[i], round)'
            BY <1>0, <1>3, <2>1 DEF Shape, Commits
        <3> QED
            BY <1>3, <2>1, <2>2, <3>1, <3>2, <3>3 DEF Shape
    <2>4. Left = {} /\ Left' = DOMAIN newCubes
        <3>1. /\ DOMAIN initialCubes = 1..Len(initialCubes)
              /\ DOMAIN newCubes = 1..Len(newCubes)
              /\ Len(initialCubes) \in Nat /\ Len(newCubes) \in Nat /\ k \in Nat
            BY <1>3 DEF Shape
        <3>2. Left = {}
            BY <2>1, <3>1 DEF Left
        <3>3. Left' = {i \in DOMAIN newCubes : i >= 1}
            BY <2>1 DEF Left
        <3> QED
            BY <3>1, <3>2, <3>3
    <2>5. Partition'
        BY <1>0, <1>3, <2>1, <2>2, <2>4 DEF Partition, ModelsIn
    <2> QED
        BY <2>3, <2>5
<1>6. CASE UNCHANGED vars
    <2>1. Shape'
        BY <1>3, <1>6 DEF Shape, Commits, vars
    <2>2. Partition'
        BY <1>3, <1>6 DEF Partition, Left, ModelsIn, vars
    <2> QED
        BY <2>1, <2>2
<1> QED
    BY <1>4, <1>5, <1>6 DEF Next

(***************************************************************************)
(* Solve is always started on a partition of the models: at every moment   *)
(* of main's loop each model is in exactly one of the cubes, provided the  *)
(* formula mentions at least as many variables as there are rounds.        *)
(***************************************************************************)
THEOREM InitialCubesPartition == Spec => []AlwaysPartition
<1>1. IInv => AlwaysPartition
    BY DEF IInv, AlwaysPartition
<1> QED
    BY <1>1, InitIInv, NextIInv, SplitAssumption, PTL DEF Spec

-----------------------------------------------------------------------------
(***************************************************************************)
(* What the rounds do to any formula, also to one with too few variables.  *)
(***************************************************************************)
\* The cube has m literals of m different variables, the largest of which is
\* at most m beyond the variables of the header.
Fixes(c, m) ==
    /\ c \subseteq Literals(NumVars + m)
    /\ IsFiniteSet(c) /\ Cardinality(c) = m
    /\ IsFiniteSet(VarsOf(c)) /\ Cardinality(VarsOf(c)) = m

\* The two cubes contradict each other.
Clash(c, d) == \E l \in c : -l \in d

Counters ==
    /\ clauses \in Formulas
    /\ round \in 0..Rounds
    /\ k \in 1..(Len(initialCubes) + 1)
    /\ initialCubes \in Seq(SUBSET Literals(NumVars + Rounds))
    /\ newCubes \in Seq(SUBSET Literals(NumVars + Rounds))

Depth ==
    /\ \A i \in DOMAIN initialCubes : Fixes(initialCubes[i], round)
    /\ \A j \in DOMAIN newCubes : Fixes(newCubes[j], round + 1)

Clashes ==
    /\ \A i, j \in DOMAIN initialCubes : i # j => Clash(initialCubes[i], initialCubes[j])
    /\ \A i, j \in DOMAIN newCubes : i # j => Clash(newCubes[i], newCubes[j])
    /\ \A i \in Left, j \in DOMAIN newCubes : Clash(initialCubes[i], newCubes[j])

RInv == Counters /\ Depth /\ Clashes

\* Contradicting is symmetric, and stays when a literal is added.
LEMMA ClashFacts ==
    ASSUME NEW c \in SUBSET Int, NEW d \in SUBSET Int, Clash(c, d), NEW e, c \subseteq e
    PROVE  Clash(d, c) /\ Clash(e, d) /\ Clash(d, e)
<1>1. PICK l \in c : -l \in d
    BY DEF Clash
<1>2. -(-l) = l
    BY <1>1
<1> QED
    BY <1>1, <1>2 DEF Clash

\* The halves of a cube fix one variable more and contradict each other.
LEMMA HalvesFix ==
    ASSUME SplitAssumption, clauses \in Formulas, NEW c, NEW m \in Nat, Fixes(c, m)
    PROVE  LET s == SplitCubeSmart(c, clauses)
           IN  /\ Fixes(s[1], m + 1) /\ Fixes(s[2], m + 1)
               /\ Clash(s[1], s[2])
               /\ c \subseteq s[1] /\ c \subseteq s[2]
<1> DEFINE v == SplitVar(c, clauses)
           b == NumVars + m
<1>1. /\ NumVars \in Nat
      /\ clauses \in Seq(Seq(Literals(NumVars)))
      /\ IsFiniteSet(Occurrences(clauses))
      /\ b \in Nat /\ NumVars <= b
    BY DEF SplitAssumption
<1>2. c \in SUBSET Literals(b)
    BY DEF Fixes
<1>3. v \in 1..(b + 1) /\ v \notin VarsOf(c)
    <2> HIDE DEF b
    <2> QED
        BY <1>1, <1>2, SplitVarIsNew
<1> HIDE DEF v
<1>4. Var(v) = v /\ Var(-v) = v /\ -(-v) = v /\ v # -v
    BY <1>1, <1>3 DEF Var
<1>5. v \notin c /\ -v \notin c
    BY <1>3, <1>4 DEF VarsOf
<1>6. ASSUME NEW x \in {v, -v} PROVE Fixes(c \cup {x}, m + 1)
    <2>1. x \notin c /\ Var(x) = v
        BY <1>4, <1>5
    <2>2. IsFiniteSet(c \cup {x}) /\ Cardinality(c \cup {x}) = m + 1
        BY <2>1, FS_AddElement DEF Fixes
    <2>3. VarsOf(c \cup {x}) = VarsOf(c) \cup {v}
        BY <2>1 DEF VarsOf
    <2>4. IsFiniteSet(VarsOf(c) \cup {v}) /\ Cardinality(VarsOf(c) \cup {v}) = m + 1
        BY <1>3, FS_AddElement DEF Fixes
    <2>5. c \cup {x} \subseteq Literals(NumVars + (m + 1))
        BY <1>1, <1>2, <1>3 DEF Literals
    <2> QED
        BY <2>2, <2>3, <2>4, <2>5 DEF Fixes
<1>7. Clash(c \cup {v}, c \cup {-v})
    BY DEF Clash
<1> QED
    BY <1>6, <1>7 DEF SplitCubeSmart, v

\* The empty cube fixes nothing.
LEMMA InitRInv == SplitAssumption /\ Init => RInv
<1> SUFFICES ASSUME SplitAssumption, Init PROVE RInv
    OBVIOUS
<1>1. VarsOf({}) = {} /\ IsFiniteSet({}) /\ Cardinality({}) = 0
    BY FS_EmptySet DEF VarsOf
<1>2. DOMAIN initialCubes = {1} /\ initialCubes[1] = {} /\ Len(initialCubes) = 1
    BY DEF Init
<1>3. DOMAIN newCubes = {}
    BY DEF Init
<1>4. Counters
    BY <1>2 DEF Counters, Init, SplitAssumption
<1>5. Depth
    BY <1>1, <1>2, <1>3 DEF Depth, Fixes, Init
<1>6. Clashes
    BY <1>2, <1>3 DEF Clashes
<1> QED
    BY <1>4, <1>5, <1>6 DEF RInv

\* A step of the loop appends the halves of cube k, which inherit the
\* contradictions of cube k; the end of a round makes them the cubes.
LEMMA NextRInv == SplitAssumption /\ RInv /\ [Next]_vars => RInv'
<1> SUFFICES ASSUME SplitAssumption, RInv, [Next]_vars PROVE RInv'
    OBVIOUS
<1>0. /\ NumVars \in Nat /\ Rounds \in Nat /\ round \in Nat
      /\ DOMAIN initialCubes = 1..Len(initialCubes) /\ Len(initialCubes) \in Nat
      /\ DOMAIN newCubes = 1..Len(newCubes) /\ Len(newCubes) \in Nat
      /\ k \in Nat
    BY DEF SplitAssumption, RInv, Counters
<1>4. CASE SplitNext
    <2> DEFINE c == initialCubes[k]
               a1 == SplitCubeSmart(c, clauses)[1]
               a2 == SplitCubeSmart(c, clauses)[2]
               n == Len(newCubes)
    <2>1. /\ k \in DOMAIN initialCubes /\ round < Rounds /\ clauses \in Formulas
          /\ Fixes(c, round)
        BY <1>0, <1>4 DEF SplitNext, RInv, Counters, Depth
    <2>2. /\ Fixes(a1, round + 1) /\ Fixes(a2, round + 1) /\ Clash(a1, a2)
          /\ c \subseteq a1 /\ c \subseteq a2
        <3> HIDE DEF c
        <3> QED
            BY <1>0, <2>1, HalvesFix
    <2> HIDE DEF a1, a2
    <2>3. /\ newCubes' = Append(Append(newCubes, a1), a2)
          /\ k' = k + 1 /\ round' = round /\ initialCubes' = initialCubes
          /\ clauses' = clauses
        BY <1>4 DEF SplitNext, a1, a2
    <2>4. a1 \in SUBSET Literals(NumVars + Rounds) /\ a2 \in SUBSET Literals(NumVars + Rounds)
        BY <1>0, <2>1, <2>2 DEF Fixes, Literals
    <2>5. /\ n \in Nat
          /\ DOMAIN newCubes = 1..n
          /\ DOMAIN (newCubes') = 1..(n + 2)
          /\ newCubes' \in Seq(SUBSET Literals(NumVars + Rounds))
          /\ newCubes'[n + 1] = a1 /\ newCubes'[n + 2] = a2
          /\ \A j \in 1..n : newCubes'[j] = newCubes[j]
        BY <2>3, <2>4 DEF RInv, Counters
    <2> HIDE DEF n, c
    <2>6. /\ n + 1 \in 1..(n + 2) /\ n + 2 \in 1..(n + 2) /\ n + 1 # n + 2
          /\ \A j \in 1..(n + 2) : j \in 1..n \/ j = n + 1 \/ j = n + 2
          /\ \A j \in 1..n : j \in 1..(n + 2) /\ j # n + 1 /\ j # n + 2
        BY <2>5
    <2>7. Counters'
        BY <1>0, <2>1, <2>3, <2>5 DEF RInv, Counters
    <2>8. Depth'
        <3>1. \A j \in 1..n : Fixes(newCubes[j], round + 1)
            BY <2>5 DEF RInv, Depth
        <3>2. \A j \in 1..(n + 2) : Fixes(newCubes'[j], round + 1)
            BY <2>2, <2>5, <2>6, <3>1
        <3>3. \A j \in DOMAIN (newCubes') : Fixes(newCubes[j], round + 1)'
            BY <2>3, <2>5, <3>2 DEF Fixes
        <3>4. \A i \in DOMAIN (initialCubes') : Fixes(initialCubes[i], round)'
            BY <2>3 DEF RInv, Depth, Fixes
        <3> QED
            BY <3>3, <3>4 DEF Depth
    <2>9. Clashes'
        <3>1. Left' = Left \ {k} /\ k \in Left /\ Left \subseteq DOMAIN initialCubes
            BY <1>0, <2>1, <2>3 DEF Left
        <3>2. /\ \A i \in DOMAIN initialCubes : initialCubes[i] \in SUBSET Int
              /\ \A j \in 1..n : newCubes[j] \in SUBSET Int
              /\ c \in SUBSET Int /\ a1 \in SUBSET Int /\ a2 \in SUBSET Int
            BY <2>1, <2>4, <2>5 DEF RInv, Counters, Literals, c
        <3>3. /\ \A i, j \in DOMAIN initialCubes : i # j => Clash(initialCubes[i], initialCubes[j])
              /\ \A i, j \in 1..n : i # j => Clash(newCubes[i], newCubes[j])
              /\ \A i \in Left, j \in 1..n : Clash(initialCubes[i], newCubes[j])
            BY <2>5 DEF RInv, Clashes
        <3>4. ASSUME NEW d \in SUBSET Int, Clash(c, d)
              PROVE  Clash(a1, d) /\ Clash(d, a1) /\ Clash(a2, d) /\ Clash(d, a2)
            BY <2>2, <3>2, <3>4, ClashFacts
        <3>5. \A i \in Left' : Clash(initialCubes[i], a1) /\ Clash(initialCubes[i], a2)
            <4>1. \A i \in Left' : i \in DOMAIN initialCubes /\ i # k
                BY <3>1
            <4>2. \A i \in Left' : Clash(c, initialCubes[i]) /\ initialCubes[i] \in SUBSET Int
                BY <2>1, <3>2, <3>3, <4>1 DEF c
            <4> QED
                BY <3>4, <4>2
        <3>6. \A j \in 1..n : /\ Clash(newCubes[j], a1) /\ Clash(newCubes[j], a2)
                              /\ Clash(a1, newCubes[j]) /\ Clash(a2, newCubes[j])
            BY <3>1, <3>2, <3>3, <3>4 DEF c
        <3>7. Clash(a2, a1)
            BY <2>2, <3>2, ClashFacts
        <3>8. \A i, j \in 1..(n + 2) : i # j => Clash(newCubes'[i], newCubes'[j])
            BY <2>2, <2>5, <2>6, <3>3, <3>6, <3>7
        <3>9. \A i \in Left', j \in 1..(n + 2) : Clash(initialCubes[i], newCubes'[j])
            BY <2>5, <2>6, <3>1, <3>3, <3>5
        <3> QED
            BY <2>3, <2>5, <3>3, <3>8, <3>9 DEF Clashes
    <2> QED
        BY <2>7, <2>8, <2>9 DEF RInv
<1>5. CASE EndRound
    <2>1. /\ initialCubes' = newCubes /\ newCubes' = <<>>
          /\ k' = 1 /\ round' = round + 1 /\ round < Rounds /\ clauses' = clauses
        BY <1>5 DEF EndRound
    <2>2. DOMAIN (newCubes') = {}
        BY <2>1
    <2>3. Counters'
        BY <1>0, <2>1 DEF RInv, Counters
    <2>4. Depth'
        BY <2>1, <2>2 DEF RInv, Depth, Fixes
    <2>5. Clashes'
        BY <2>1, <2>2 DEF RInv, Clashes
    <2> QED
        BY <2>3, <2>4, <2>5 DEF RInv
<1>6. CASE UNCHANGED vars
    BY <1>6 DEF vars, RInv, Counters, Depth, Fixes, Clashes, Left
<1> QED
    BY <1>4, <1>5, <1>6 DEF Next

\* The invariant of the rounds holds throughout.
LEMMA RInvHolds == Spec => []RInv
BY InitRInv, NextRInv, SplitAssumption, PTL DEF Spec

(***************************************************************************)
(* The cubes and the indices of main's loop keep their types.  A fallback  *)
(* variable goes at most one beyond the header in each round.              *)
(***************************************************************************)
THEOREM TypeCorrect == Spec => []TypeOK
<1>1. RInv => TypeOK
    BY DEF RInv, Counters, TypeOK
<1> QED
    BY <1>1, RInvHolds, PTL

(***************************************************************************)
(* After each round every cube has one literal more, of a new variable,    *)
(* and any two cubes contradict each other, for every formula; and when    *)
(* the formula has enough variables only these are committed.              *)
(***************************************************************************)
THEOREM RoundsFixVariables == Spec => []CubesFixRound
<1>1. SplitAssumption /\ IInv /\ RInv => CubesFixRound
    BY DEF IInv, Shape, Commits, RInv, Depth, Fixes, Clashes, Clash, CubesFixRound
<1>2. Spec => []IInv
    BY InitIInv, NextIInv, SplitAssumption, PTL DEF Spec
<1> QED
    BY <1>1, <1>2, RInvHolds, SplitAssumption, PTL
=============================================================================
