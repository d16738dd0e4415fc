-------------------------- MODULE PropagatorProofs --------------------------
(***************************************************************************)
(* The propagator is right for every formula: its lists stay in order, it  *)
(* enqueues nothing twice, and what it puts on the trail is the closure of *)
(* what its caller decided.                                                *)
(*                                                                         *)
(* Three inductive invariants, each resting on those before it: Shape, how *)
(* trail, cubes and watch lists hang together; Sound, that every literal   *)
(* on the trail follows; Complete, that the literals already propagated    *)
(* have nothing left to force, also when the trail is cut back.            *)
(***************************************************************************)
EXTENDS Propagator, CubesProofs, SequenceTheorems

Lits == Literals(NumVars)

Halving == Phase \in {"true", "false"}

Returned == pc \in {"unit", "filled", "true", "false"}

\* No variable stands twice in s.
Distinct(s) == \A i, j \in DOMAIN s : Var(s[i]) = Var(s[j]) => i = j

\* s takes literals of the clause c, each from a position of its own, and the
\* literals at the other positions are false when those in S are true.
Drawn(s, c, S) ==
    \E f \in [DOMAIN s -> DOMAIN c] :
        /\ \A m, n \in DOMAIN s : f[m] = f[n] => m = n
        /\ \A n \in DOMAIN s : s[n] = c[f[n]]
        /\ \A k \in DOMAIN c : (\E n \in DOMAIN s : f[n] = k) \/ -c[k] \in S

\* The first n elements of s and t are the same.
Agree(s, t, n) == n <= Len(s) /\ n <= Len(t) /\ \A i \in 1..n : s[i] = t[i]

\* A cube starts with the literals the formula forces.
Based(c) == c \in Seq(Lits) /\ Distinct(c) /\ Agree(c, trail, trailLimUnit)

-----------------------------------------------------------------------------
(***************************************************************************)
(* Shape.                                                                  *)
(***************************************************************************)
DatabaseType ==
    /\ clauses \in Formulas
    /\ next \in 1..(Len(clauses) + 1)
    /\ stored \in [DOMAIN clauses -> Seq(Lits)]
    /\ implied \in [Lits -> Seq(Lits)]
    /\ watches \in [Lits -> Seq(DOMAIN clauses)]

TrailType ==
    /\ trail \in Seq(Lits)
    /\ trailPos \in Nat /\ trailLimUnit \in Nat
    /\ trailLimUnit <= trailPos /\ trailPos <= Len(trail)
    /\ Distinct(trail)

FlagType ==
    /\ isUnsat \in BOOLEAN /\ result \in BOOLEAN
    /\ pc \in {"load", "unit", "idle", "take", "imply", "watch", "filled", "true", "false"}
    /\ caller \in {"load", "unit", "filled", "true", "false"}
    /\ Busy => caller # "load"
    /\ taken \in 0..MaxCubes

Flow ==
    /\ Loading => trailLimUnit = 0 /\ cubes = {}
    /\ isUnsat => pc \in {"load", "idle"} /\ cubes = {}
    /\ ~Loading /\ ~isUnsat => next = Len(clauses) + 1
    /\ pc = "imply" => todo \in Seq(Lits)
    /\ pc = "watch" => todo \in Seq(DOMAIN clauses) /\ kept \in Seq(DOMAIN clauses)
    /\ pc \in {"imply", "watch"} => trailLimUnit < trailPos
    /\ pc = "load" /\ ~isUnsat => trailPos = Len(trail)
    /\ Returned /\ result => trailPos = Len(trail)

DriverShape ==
    /\ \A c \in cubes : Based(c)
    /\ base \in Nat
    /\ Cubing => Based(cube) /\ Agree(cube, trail, Len(cube))
    /\ Halving =>
          /\ base = Len(cube) /\ base < Len(trail)
          /\ branch \in Free
          /\ base <= trailPos
          /\ trail[base + 1] = IF Phase = "true" THEN branch ELSE -branch
          /\ pc \in {"imply", "watch"} => base < trailPos

\* Only the clauses already added are stored, what is stored of a clause are
\* some of its literals.
StoredShape ==
    \A i \in DOMAIN clauses : stored[i] # <<>> =>
        /\ i < next
        /\ Len(stored[i]) >= 3
        /\ Drawn(stored[i], clauses[i], Lits)

\* How often e stands in the list s.
Occ(s, e) == Cardinality({k \in DOMAIN s : s[k] = e})

One(b) == IF b THEN 1 ELSE 0

\* How many of the two watches of clause i are on l.
WatchCount(i, l) ==
    IF stored[i] = <<>> THEN 0 ELSE One(stored[i][1] = l) + One(stored[i][2] = l)

Watching(l) == {i \in DOMAIN clauses : stored[i] # <<>> /\ l \in {stored[i][1], stored[i][2]}}

\* A clause is in the list of l as often as it watches l.  The list that is
\* being compacted is in two pieces.
WatchLists ==
    \A l \in Lits : \A i \in DOMAIN clauses :
        WatchCount(i, l) = IF pc = "watch" /\ l = -Lit THEN Occ(kept, i) + Occ(todo, i)
                                                 ELSE Occ(watches[l], i)

Shape == /\ DatabaseType /\ TrailType /\ FlagType /\ Flow /\ DriverShape
         /\ StoredShape /\ WatchLists

-----------------------------------------------------------------------------
(***************************************************************************)
(* Sound.                                                                  *)
(***************************************************************************)
Cl(A) == Closure(NumVars, clauses, A)

\* What the trail rests on.
Given ==
    CASE Phase = "filled" -> Range(cube)
      [] Phase = "true"   -> Range(cube) \cup {branch}
      [] Phase = "false"  -> Range(cube) \cup {-branch}
      [] OTHER            -> {}

\* What the trail holds follows.
TrailFollows == Phase # "idle" => Range(trail) \subseteq Cl(Given)

\* So does what a literal implies.
ImpliedFollows ==
    /\ \A l \in Lits : Range(implied[l]) \subseteq Cl({l})
    /\ pc = "imply" => Range(todo) \subseteq Cl({Lit})

\* What is not stored of a long clause is false in every case.
StoredFollows ==
    \A i \in DOMAIN clauses : stored[i] # <<>> => Drawn(stored[i], clauses[i], Cl({}))

\* A conflict is one.
ConflictFollows ==
    /\ Returned /\ ~result => ~Consistent(Cl(Given))
    /\ isUnsat => Refuted(NumVars, clauses)

Sound == TrailFollows /\ ImpliedFollows /\ StoredFollows /\ ConflictFollows

-----------------------------------------------------------------------------
(***************************************************************************)
(* Complete.                                                               *)
(***************************************************************************)
\* The first n elements of a sequence.
Upto(s, n) == {s[q] : q \in 1..n}

UnitLits == IF Loading THEN Range(trail) ELSE Upto(trail, trailLimUnit)

Placed(i) ==
    \/ \E j \in DOMAIN clauses[i] : clauses[i][j] \in UnitLits
    \/ \E a, b \in Lits :
          /\ Drawn(<<a, b>>, clauses[i], Lits)
          /\ b \in Range(implied[-a]) /\ a \in Range(implied[-b])
    \/ stored[i] # <<>>

\* A clause that was added is satisfied by the units, or two of its literals
\* imply each other when false, or it is stored.
ClausesPlaced == ~isUnsat => \A i \in DOMAIN clauses : i < next => Placed(i)

\* Nothing that l forces is missing from T.
Settled(l, T) ==
    /\ Range(implied[l]) \subseteq T
    /\ \A i \in Watching(-l) : Range(stored[i]) \cap T # {}

\* The units and the cube stay settled when the trail is cut back to them.
UnitsSettled == \A l \in Upto(trail, trailLimUnit) : Settled(l, Upto(trail, trailLimUnit))

CubeSettled == Halving => \A l \in Range(cube) : Settled(l, Range(cube))

\* How much of the trail has been propagated to the end.
Ready == IF pc \in {"imply", "watch"} THEN trailPos - 1 ELSE trailPos

Sane == Phase # "idle" /\ ~isUnsat /\ (Returned => result)

TrailSettled == Sane => \A l \in Upto(trail, Ready) : Settled(l, Range(trail))

\* The literal being propagated.
LitSettled ==
    /\ pc = "imply" => Range(implied[Lit]) \subseteq Range(trail) \cup Range(todo)
    /\ pc = "watch" =>
          /\ Range(implied[Lit]) \subseteq Range(trail)
          /\ \A i \in Range(kept) : Range(stored[i]) \cap Range(trail) # {}

CubesClosed ==
    /\ \A c \in cubes : Closed(clauses, Range(c))
    /\ Cubing => Closed(clauses, Range(cube))

Complete == /\ ClausesPlaced /\ UnitsSettled /\ CubeSettled /\ TrailSettled
            /\ LitSettled /\ CubesClosed

-----------------------------------------------------------------------------
(***************************************************************************)
(* Literals.                                                               *)
(***************************************************************************)
\* A literal, its negation and its variable.
LEMMA LitFacts ==
    ASSUME NEW l \in Lits
    PROVE  /\ l \in Int /\ l # 0 /\ -l \in Lits /\ -(-l) = l /\ -l # l
           /\ Var(l) \in 1..NumVars /\ Var(-l) = Var(l)
           /\ \A m \in Lits : Var(l) = Var(m) <=> l = m \/ l = -m
<1>1. NumVars \in Nat
    BY PropagatorAssumption
<1>2. l \in Int /\ -NumVars <= l /\ l <= NumVars /\ l # 0
    BY <1>1 DEF Lits, Literals
<1>3. -l \in Lits
    BY <1>1, <1>2 DEF Lits, Literals
<1>4. ASSUME NEW m \in Lits
      PROVE  Var(l) = Var(m) <=> l = m \/ l = -m
    <2>1. m \in Int /\ m # 0
        BY <1>1 DEF Lits, Literals
    <2> QED
        BY <1>2, <2>1 DEF Var
<1> QED
    BY <1>1, <1>2, <1>3, <1>4 DEF Var

\* The clauses of a formula.
LEMMA ClauseFacts ==
    ASSUME NEW F \in Formulas
    PROVE  /\ F \in Seq(Seq(Lits)) /\ Len(F) \in Nat /\ DOMAIN F = 1..Len(F)
           /\ \A i \in DOMAIN F : F[i] \in Seq(Lits)
<1>1. F \in Seq(Seq(Lits))
    BY PropagatorAssumption DEF Lits
<1>2. \A i \in DOMAIN F : F[i] \in Seq(Lits)
    BY <1>1
<1> QED
    BY <1>1, <1>2

-----------------------------------------------------------------------------
(***************************************************************************)
(* Sequences.                                                              *)
(***************************************************************************)
LEMMA AppendFacts ==
    ASSUME NEW S, NEW s \in Seq(S), NEW e \in S
    PROVE  /\ Append(s, e) \in Seq(S) /\ Len(Append(s, e)) = Len(s) + 1
           /\ DOMAIN Append(s, e) = 1..(Len(s) + 1)
           /\ Len(s) \in Nat /\ DOMAIN s = 1..Len(s)
           /\ Append(s, e)[Len(s) + 1] = e
           /\ \A i \in 1..Len(s) : Append(s, e)[i] = s[i]
           /\ Range(Append(s, e)) = Range(s) \cup {e}
<1>1. /\ Append(s, e) \in Seq(S) /\ Len(Append(s, e)) = Len(s) + 1
      /\ Append(s, e)[Len(s) + 1] = e
      /\ \A i \in 1..Len(s) : Append(s, e)[i] = s[i]
    OBVIOUS
<1>2. DOMAIN Append(s, e) = 1..(Len(s) + 1) /\ Len(s) \in Nat /\ DOMAIN s = 1..Len(s)
    OBVIOUS
<1>3. Range(Append(s, e)) = Range(s) \cup {e}
    <2>1. 1..(Len(s) + 1) = 1..Len(s) \cup {Len(s) + 1}
        BY <1>2
    <2> QED
        BY <1>1, <1>2, <2>1 DEF Range
<1> QED
    BY <1>1, <1>2, <1>3

LEMMA HeadTailFacts ==
    ASSUME NEW S, NEW s \in Seq(S), s # <<>>
    PROVE  /\ Head(s) \in S /\ Tail(s) \in Seq(S)
           /\ Range(s) = {Head(s)} \cup Range(Tail(s))
<1>1. Len(s) \in Nat /\ Len(s) # 0 /\ DOMAIN s = 1..Len(s) /\ Head(s) = s[1]
    OBVIOUS
<1>2. /\ Tail(s) \in Seq(S) /\ DOMAIN Tail(s) = 1..(Len(s) - 1)
      /\ \A i \in 1..(Len(s) - 1) : Tail(s)[i] = s[i + 1]
    OBVIOUS
<1>3. Head(s) \in S
    BY <1>1
<1>4. Range(s) \subseteq {Head(s)} \cup Range(Tail(s))
    <2>1. ASSUME NEW i \in DOMAIN s
          PROVE  s[i] \in {Head(s)} \cup Range(Tail(s))
        <3>1. CASE i = 1
            BY <1>1, <3>1
        <3>2. CASE i # 1
            <4>1. i - 1 \in 1..(Len(s) - 1) /\ (i - 1) + 1 = i
                BY <1>1, <3>2
            <4>2. i - 1 \in DOMAIN Tail(s) /\ Tail(s)[i - 1] = s[i]
                BY <1>2, <4>1
            <4> QED
                BY <4>2 DEF Range
        <3> QED
            BY <3>1, <3>2
    <2> QED
        BY <2>1, Zenon DEF Range
<1>5. {Head(s)} \cup Range(Tail(s)) \subseteq Range(s)
    <2>1. \A i \in 1..(Len(s) - 1) : i + 1 \in 1..Len(s)
        BY <1>1
    <2> QED
        BY <1>1, <1>2, <2>1 DEF Range
<1> QED
    BY <1>2, <1>3, <1>4, <1>5

LEMMA ConcatFacts ==
    ASSUME NEW S, NEW s \in Seq(S), NEW t \in Seq(S)
    PROVE  /\ s \o t \in Seq(S)
           /\ Range(s \o t) = Range(s) \cup Range(t)
<1>1. /\ s \o t \in Seq(S) /\ Len(s) \in Nat /\ Len(t) \in Nat
      /\ DOMAIN s = 1..Len(s) /\ DOMAIN t = 1..Len(t)
      /\ DOMAIN (s \o t) = 1..(Len(s) + Len(t))
    OBVIOUS
<1>2. \A i \in 1..(Len(s) + Len(t)) :
          (s \o t)[i] = IF i <= Len(s) THEN s[i] ELSE t[i - Len(s)]
    OBVIOUS
<1>3. \A i \in 1..(Len(s) + Len(t)) :
          \/ i \in 1..Len(s)
          \/ ~(i <= Len(s)) /\ i - Len(s) \in 1..Len(t)
    BY <1>1
<1>4. \A i \in 1..Len(s) : i \in 1..(Len(s) + Len(t)) /\ i <= Len(s)
    BY <1>1
<1>5. \A i \in 1..Len(t) : /\ i + Len(s) \in 1..(Len(s) + Len(t))
                           /\ ~(i + Len(s) <= Len(s)) /\ (i + Len(s)) - Len(s) = i
    BY <1>1
<1>6. Range(s \o t) \subseteq Range(s) \cup Range(t)
    BY <1>1, <1>2, <1>3 DEF Range
<1>7. Range(s) \cup Range(t) \subseteq Range(s \o t)
    <2>1. \A i \in 1..Len(s) : (s \o t)[i] = s[i]
        BY <1>2, <1>4
    <2>2. \A i \in 1..Len(t) : (s \o t)[i + Len(s)] = t[i]
        BY <1>2, <1>5
    <2>3. Range(s) \subseteq Range(s \o t)
        BY <1>1, <1>4, <2>1, Zenon DEF Range
    <2>4. \A i \in DOMAIN t : t[i] \in Range(s \o t)
        BY <1>1, <1>5, <2>2 DEF Range
    <2> QED
        BY <2>3, <2>4, Zenon DEF Range
<1> QED
    BY <1>1, <1>6, <1>7

\* A list and the elements it holds.
LEMMA OccFacts ==
    ASSUME NEW S, NEW s \in Seq(S), NEW e
    PROVE  /\ Occ(s, e) \in Nat
           /\ Occ(s, e) = 0 <=> e \notin Range(s)
           /\ IsFiniteSet({k \in DOMAIN s : s[k] = e})
<1> DEFINE A == {k \in DOMAIN s : s[k] = e}
<1>1. IsFiniteSet(DOMAIN s)
    <2>1. DOMAIN s = 1..Len(s) /\ Len(s) \in Nat
        OBVIOUS
    <2> QED
        BY <2>1, FS_Interval
<1>2. IsFiniteSet(A)
    <2>1. A \in SUBSET DOMAIN s
        OBVIOUS
    <2> QED
        BY <1>1, <2>1, FS_Subset
<1>3. A = {} <=> e \notin Range(s)
    BY DEF Range
<1> HIDE DEF A
<1>4. Cardinality(A) \in Nat /\ (Cardinality(A) = 0 <=> A = {})
    BY <1>2, FS_CardinalityType, FS_EmptySet
<1> QED
    BY <1>2, <1>3, <1>4 DEF Occ, A

LEMMA OccEmpty == \A e : Occ(<<>>, e) = 0
<1>1. Range(<<>>) = {} /\ <<>> \in Seq(Int)
    BY DEF Range
<1> QED
    BY <1>1, OccFacts

LEMMA OccSingle ==
    ASSUME NEW x, NEW e
    PROVE  Occ(<<x>>, e) = One(x = e)
<1>1. {k \in DOMAIN <<x>> : <<x>>[k] = e} = IF x = e THEN {1} ELSE {}
    OBVIOUS
<1> QED
    BY <1>1, FS_Singleton, FS_EmptySet DEF Occ, One

\* The occurrences in s \o t are those in s and those in t.
LEMMA OccConcat ==
    ASSUME NEW S, NEW s \in Seq(S), NEW t \in Seq(S), NEW e
    PROVE  Occ(s \o t, e) = Occ(s, e) + Occ(t, e)
<1> DEFINE n == Len(s)
           u == s \o t
           A == {k \in DOMAIN s : s[k] = e}
           B == {k \in DOMAIN t : t[k] = e}
           C == {k \in DOMAIN u : u[k] = e}
           f == [k \in B |-> k + n]
           D == {k + n : k \in B}
<1>1. /\ n \in Nat /\ Len(t) \in Nat
      /\ DOMAIN s = 1..n /\ DOMAIN t = 1..Len(t) /\ DOMAIN u = 1..(n + Len(t))
    OBVIOUS
<1>2. \A i \in 1..(n + Len(t)) : u[i] = IF i <= n THEN s[i] ELSE t[i - n]
    OBVIOUS
<1>3. IsFiniteSet(A) /\ IsFiniteSet(B)
    BY OccFacts
<1> HIDE DEF n, u
<1>4. B \subseteq Nat /\ \A k \in B : k \in 1..Len(t)
    BY <1>1
<1>5. ExistsBijection(B, D)
    <2>1. f \in [B -> D] /\ \A k \in B : f[k] = k + n
        OBVIOUS
    <2>2. \A k, m \in B : k + n = m + n => k = m
        BY <1>1, <1>4
    <2>3. f \in Bijection(B, D)
        <3>1. \A k, m \in B : f[k] = f[m] => k = m
            BY <2>1, <2>2
        <3>2. \A d \in D : \E k \in B : f[k] = d
            BY <2>1
        <3> HIDE DEF f, B, D
        <3> QED
            BY <2>1, <3>1, <3>2 DEF Bijection, Injection, Surjection, IsInjective
    <2> QED
        BY <2>3 DEF ExistsBijection
<1>6. IsFiniteSet(D) /\ Cardinality(D) = Cardinality(B)
    BY <1>3, <1>5, FS_Bijection
<1>7. C \subseteq A \cup D
    <2> SUFFICES ASSUME NEW k \in C
                 PROVE  k \in A \cup D
        OBVIOUS
    <2>1. k \in 1..(n + Len(t)) /\ u[k] = e
        BY <1>1
    <2>2. CASE k <= n
        <3>1. k \in 1..n /\ s[k] = e
            BY <1>1, <1>2, <2>1, <2>2
        <3> QED
            BY <1>1, <3>1
    <2>3. CASE ~(k <= n)
        <3>1. k - n \in 1..Len(t) /\ t[k - n] = e /\ (k - n) + n = k
            BY <1>1, <1>2, <2>1, <2>3
        <3>2. k - n \in B
            BY <1>1, <3>1
        <3> QED
            BY <3>1, <3>2
    <2> QED
        BY <2>2, <2>3
<1>8. A \subseteq C
    <2>1. \A k \in 1..n : k \in 1..(n + Len(t)) /\ k <= n
        BY <1>1
    <2> QED
        BY <1>1, <1>2, <2>1
<1>9. D \subseteq C
    <2>1. \A k \in 1..Len(t) : k + n \in 1..(n + Len(t)) /\ ~(k + n <= n) /\ (k + n) - n = k
        BY <1>1
    <2>2. ASSUME NEW k \in B
          PROVE  k + n \in C
        BY <1>1, <1>2, <2>1
    <2> QED
        BY <2>2
<1>10. A \cap D = {}
    <2>1. \A k \in A : k <= n
        BY <1>1
    <2>2. \A k \in 1..Len(t) : ~(k + n <= n)
        BY <1>1
    <2>3. \A d \in D : ~(d <= n)
        BY <1>4, <2>2
    <2> QED
        BY <2>1, <2>3
<1>11. C = A \cup D
    BY <1>7, <1>8, <1>9
<1> HIDE DEF A, B, C, D
<1>12. Cardinality(A \cup D) = Cardinality(A) + Cardinality(D) - Cardinality({})
    BY <1>3, <1>6, <1>10, FS_Union
<1>13. /\ Cardinality(A) \in Nat /\ Cardinality(D) \in Nat /\ Cardinality({}) = 0
    BY <1>3, <1>6, FS_CardinalityType, FS_EmptySet
<1>14. Cardinality(C) = Cardinality(A) + Cardinality(B)
    BY <1>6, <1>11, <1>12, <1>13
<1> QED
    BY <1>14 DEF Occ, A, B, C, u

LEMMA OccAppend ==
    ASSUME NEW S, NEW s \in Seq(S), NEW x \in S, NEW e
    PROVE  Occ(Append(s, x), e) = Occ(s, e) + One(x = e)
<1>1. Append(s, x) = s \o <<x>> /\ <<x>> \in Seq(S)
    BY AppendIsConcat
<1>2. Occ(s \o <<x>>, e) = Occ(s, e) + Occ(<<x>>, e)
    BY <1>1, OccConcat
<1>3. Occ(<<x>>, e) = One(x = e)
    BY OccSingle
<1> QED
    BY <1>1, <1>2, <1>3

LEMMA OccHeadTail ==
    ASSUME NEW S, NEW s \in Seq(S), s # <<>>, NEW e
    PROVE  Occ(s, e) = One(Head(s) = e) + Occ(Tail(s), e)
<1>1. /\ Head(s) \in S /\ <<Head(s)>> \in Seq(S) /\ Tail(s) \in Seq(S)
      /\ s = <<Head(s)>> \o Tail(s)
    OBVIOUS
<1>2. Occ(<<Head(s)>> \o Tail(s), e) = Occ(<<Head(s)>>, e) + Occ(Tail(s), e)
    BY <1>1, OccConcat
<1>3. Occ(<<Head(s)>>, e) = One(Head(s) = e)
    BY OccSingle
<1> QED
    BY <1>1, <1>2, <1>3

-----------------------------------------------------------------------------
(***************************************************************************)
(* Keep.                                                                   *)
(***************************************************************************)
\* How many positions of P lie at or before p.
Rank(P, p) == Cardinality({q \in P : q <= p})

LEMMA RankFacts ==
    ASSUME NEW n \in Nat, NEW P \in SUBSET (1..n)
    PROVE  /\ IsFiniteSet(P) /\ Cardinality(P) \in Nat
           /\ \A p \in P : Rank(P, p) \in 1..Cardinality(P)
           /\ \A p, q \in P : Rank(P, p) = Rank(P, q) => p = q
<1>1. IsFiniteSet(P) /\ Cardinality(P) \in Nat
    <2>1. IsFiniteSet(1..n)
        BY FS_Interval
    <2> QED
        BY <2>1, FS_Subset, FS_CardinalityType
<1> DEFINE B(p) == {q \in P : q <= p}
<1>2. ASSUME NEW p \in P
      PROVE  /\ IsFiniteSet(B(p)) /\ Cardinality(B(p)) \in Nat
             /\ Cardinality(B(p)) <= Cardinality(P)
    BY <1>1, FS_Subset, FS_CardinalityType
<1>3. ASSUME NEW p \in P, NEW q \in P, p < q
      PROVE  Cardinality(B(p)) < Cardinality(B(q))
    <2>0. q <= q /\ \A x \in P : x <= p => x <= q /\ x # q
        BY <1>3
    <2>1. B(p) \subseteq B(q) \ {q} /\ q \in B(q)
        BY <2>0
    <2>2. IsFiniteSet(B(q)) /\ Cardinality(B(q)) \in Nat
        BY <1>2
    <2>3. IsFiniteSet(B(q) \ {q}) /\ Cardinality(B(q) \ {q}) = Cardinality(B(q)) - 1
        BY <2>1, <2>2, FS_RemoveElement
    <2>4. Cardinality(B(p)) <= Cardinality(B(q) \ {q})
        BY <2>1, <2>3, FS_Subset
    <2>5. Cardinality(B(p)) \in Nat
        BY <1>2
    <2> DEFINE a == Cardinality(B(p))
               b == Cardinality(B(q))
    <2> HIDE DEF a, b
    <2>6. a \in Nat /\ b \in Nat /\ a <= b - 1
        BY <2>2, <2>3, <2>4, <2>5 DEF a, b
    <2>7. a < b
        BY <2>6
    <2> QED
        BY <2>7 DEF a, b
<1>4. ASSUME NEW p \in P
      PROVE  Cardinality(B(p)) # 0
    <2>1. p \in B(p)
        OBVIOUS
    <2>2. IsFiniteSet(B(p))
        BY <1>2
    <2> QED
        BY <2>1, <2>2, FS_EmptySet
<1>5. \A p \in P : Rank(P, p) = Cardinality(B(p))
    BY DEF Rank
<1> HIDE DEF B
<1>6. \A p \in P : Rank(P, p) \in 1..Cardinality(P)
    BY <1>1, <1>2, <1>4, <1>5
<1>7. \A p, q \in P : p < q \/ q < p \/ p = q
    OBVIOUS
<1>8. \A p, q \in P : Rank(P, p) = Rank(P, q) => p = q
    <2> SUFFICES ASSUME NEW p \in P, NEW q \in P, Rank(P, p) = Rank(P, q), p # q
                 PROVE  FALSE
        OBVIOUS
    <2>1. Cardinality(B(p)) = Cardinality(B(q)) /\ Cardinality(B(p)) \in Nat
        BY <1>2, <1>5
    <2> QED
        BY <1>3, <1>7, <2>1
<1> QED
    BY <1>1, <1>6, <1>8

\* Keep takes the chosen positions, each once.
LEMMA KeepPositions ==
    ASSUME NEW S, NEW s \in Seq(S), NEW P \in SUBSET DOMAIN s
    PROVE  /\ Cardinality(P) \in Nat
           /\ Keep(s, P) \in Seq(S) /\ Len(Keep(s, P)) = Cardinality(P)
           /\ \E f \in [1..Cardinality(P) -> P] :
                 /\ \A n \in 1..Cardinality(P) : Keep(s, P)[n] = s[f[n]]
                 /\ \A m, n \in 1..Cardinality(P) : f[m] = f[n] => m = n
                 /\ \A p \in P : \E n \in 1..Cardinality(P) : f[n] = p
<1> DEFINE C == Cardinality(P)
           nth(n) == CHOOSE p \in P : Cardinality({q \in P : q <= p}) = n
           f == [n \in 1..C |-> nth(n)]
           r == [p \in P |-> Rank(P, p)]
<1>1. /\ IsFiniteSet(P) /\ C \in Nat
      /\ \A p \in P : Rank(P, p) \in 1..C
      /\ \A p, q \in P : Rank(P, p) = Rank(P, q) => p = q
    <2>1. DOMAIN s = 1..Len(s) /\ Len(s) \in Nat
        OBVIOUS
    <2> QED
        BY <2>1, RankFacts
<1> HIDE DEF C
<1>2. IsFiniteSet(1..C) /\ Cardinality(1..C) = C
    BY <1>1, FS_Interval
<1>3. r \in Injection(P, 1..C)
    BY <1>1 DEF Injection, IsInjective
<1>4. r \in Surjection(P, 1..C)
    BY <1>2, <1>3, FS_Injection DEF C
<1>5. \A n \in 1..C : \E p \in P : Rank(P, p) = n
    BY <1>4 DEF Surjection
<1>6. \A n \in 1..C : nth(n) \in P /\ Rank(P, nth(n)) = n
    BY <1>5 DEF Rank
<1> HIDE DEF nth
<1>7. \A p \in P : nth(Rank(P, p)) = p
    BY <1>1, <1>6
<1>8. f \in [1..C -> P]
    BY <1>6
<1>9. Keep(s, P) = [n \in 1..C |-> s[nth(n)]]
    BY DEF Keep, C, nth
<1>10. \A n \in 1..C : s[nth(n)] \in S
    BY <1>6
<1>11. Keep(s, P) \in Seq(S) /\ Len(Keep(s, P)) = C
    <2>1. Keep(s, P) \in [1..C -> S]
        BY <1>9, <1>10
    <2> QED
        BY <1>1, <2>1
<1>12. \A n \in 1..C : Keep(s, P)[n] = s[f[n]]
    BY <1>9
<1>13. \A m, n \in 1..C : f[m] = f[n] => m = n
    BY <1>6
<1>14. \A p \in P : \E n \in 1..C : f[n] = p
    BY <1>1, <1>7
<1> HIDE DEF f
<1> QED
    BY <1>1, <1>8, <1>11, <1>12, <1>13, <1>14 DEF C

LEMMA KeepFacts ==
    ASSUME NEW S, NEW s \in Seq(S), NEW P \in SUBSET DOMAIN s
    PROVE  /\ Keep(s, P) \in Seq(S)
           /\ Range(Keep(s, P)) = {s[p] : p \in P}
           /\ \A T : (\A k \in DOMAIN s \ P : -s[k] \in T) => Drawn(Keep(s, P), s, T)
<1> DEFINE k == Keep(s, P)
           C == Cardinality(P)
<1>1. C \in Nat /\ k \in Seq(S) /\ Len(k) = C
    BY KeepPositions
<1>2. PICK f \in [1..C -> P] :
          /\ \A n \in 1..C : k[n] = s[f[n]]
          /\ \A m, n \in 1..C : f[m] = f[n] => m = n
          /\ \A p \in P : \E n \in 1..C : f[n] = p
    BY KeepPositions
<1>3. DOMAIN k = 1..C
    BY <1>1
<1> HIDE DEF k, C
<1>4. Range(k) = {s[p] : p \in P}
    BY <1>2, <1>3 DEF Range
<1>5. ASSUME NEW T, \A m \in DOMAIN s \ P : -s[m] \in T
      PROVE  Drawn(k, s, T)
    <2>1. f \in [DOMAIN k -> DOMAIN s]
        BY <1>2, <1>3
    <2>2. \A m \in DOMAIN s : (\E n \in DOMAIN k : f[n] = m) \/ -s[m] \in T
        BY <1>2, <1>3, <1>5
    <2>3. \A m, n \in DOMAIN k : f[m] = f[n] => m = n
        BY <1>2, <1>3
    <2>4. \A n \in DOMAIN k : k[n] = s[f[n]]
        BY <1>2, <1>3
    <2> QED
        BY <2>1, <2>2, <2>3, <2>4, Zenon DEF Drawn
<1> QED
    BY <1>1, <1>4, <1>5 DEF k

\* Keeping what lies behind position u.
LEMMA KeepSuffix ==
    ASSUME NEW S, NEW s \in Seq(S), NEW u \in Nat, u <= Len(s)
    PROVE  /\ Keep(s, (u + 1)..Len(s)) \in Seq(S)
           /\ Len(Keep(s, (u + 1)..Len(s))) = Len(s) - u
           /\ \A n \in 1..(Len(s) - u) : Keep(s, (u + 1)..Len(s))[n] = s[n + u]
<1> DEFINE L == Len(s)
           P == (u + 1)..L
           nth(n) == CHOOSE p \in P : Cardinality({q \in P : q <= p}) = n
<1>1. L \in Nat /\ u <= L /\ DOMAIN s = 1..L
    OBVIOUS
<1> HIDE DEF L
<1>2. Cardinality(P) = L - u
    <2>1. Cardinality(P) = IF u + 1 > L THEN 0 ELSE L - (u + 1) + 1
        BY <1>1, FS_Interval
    <2> DEFINE C == Cardinality(P)
    <2> HIDE DEF C
    <2>2. C = L - u
        BY <1>1, <2>1 DEF C
    <2> QED
        BY <2>2 DEF C
<1>3. \A p \in P : Cardinality({q \in P : q <= p}) = p - u
    <2> TAKE p \in P
    <2>1. {q \in P : q <= p} = (u + 1)..p /\ p \in Int /\ p > u
        BY <1>1
    <2>2. Cardinality((u + 1)..p) = p - u
        BY <2>1, FS_Interval
    <2> QED
        BY <2>1, <2>2
<1>4. \A n \in 1..(L - u) : n + u \in P /\ (n + u) - u = n /\ \A p \in P : p - u = n => p = n + u
    BY <1>1
<1>5. ASSUME NEW n \in 1..(L - u)
      PROVE  nth(n) = n + u
    BY <1>3, <1>4
<1>6. Keep(s, P) = [n \in 1..(L - u) |-> s[nth(n)]]
    BY <1>2 DEF Keep
<1> HIDE DEF nth
<1>7. \A n \in 1..(L - u) : Keep(s, P)[n] = s[n + u]
    BY <1>5, <1>6
<1>8. P \in SUBSET DOMAIN s
    BY <1>1
<1> HIDE DEF P
<1>9. Keep(s, P) \in Seq(S) /\ Len(Keep(s, P)) = L - u
    BY <1>2, <1>8, KeepPositions
<1> QED
    BY <1>7, <1>9 DEF L, P

LEMMA AgreeRefl ==
    ASSUME NEW S, NEW s \in Seq(S), NEW n \in Nat, n <= Len(s)
    PROVE  Agree(s, s, n)
BY DEF Agree

LEMMA AgreeTrans ==
    ASSUME NEW s, NEW t, NEW v, NEW n, Agree(s, t, n), Agree(t, v, n)
    PROVE  Agree(s, v, n) /\ Agree(t, s, n)
BY DEF Agree

LEMMA AgreeLess ==
    ASSUME NEW S, NEW s \in Seq(S), NEW t \in Seq(S), NEW m \in Nat, NEW n \in Nat,
           m <= n, Agree(s, t, n)
    PROVE  Agree(s, t, m)
BY DEF Agree

LEMMA AgreeAppend ==
    ASSUME NEW S, NEW s \in Seq(S), NEW t \in Seq(S), NEW e \in S, NEW n \in Nat,
           Agree(s, t, n)
    PROVE  Agree(s, Append(t, e), n)
<1>1. n <= Len(s) /\ n <= Len(t) /\ \A i \in 1..n : s[i] = t[i]
    BY DEF Agree
<1>2. \A i \in 1..n : Append(t, e)[i] = t[i]
    BY <1>1
<1>3. n <= Len(Append(t, e))
    BY <1>1
<1> QED
    BY <1>1, <1>2, <1>3 DEF Agree

\* Refilling with a cube that starts with the units gives the cube.
LEMMA RefillIsCube ==
    ASSUME trail \in Seq(Lits), trailLimUnit \in Nat, trailLimUnit <= Len(trail),
           NEW c, Based(c)
    PROVE  Refill(c) = c
<1> DEFINE units == SubSeq(trail, 1, trailLimUnit)
           u == trailLimUnit
           P == {i \in DOMAIN c : {c[i], -c[i]} \cap Range(units) = {}}
<1>1. /\ c \in Seq(Lits) /\ Distinct(c) /\ Len(c) \in Nat /\ DOMAIN c = 1..Len(c)
      /\ u \in Nat /\ u <= Len(c) /\ \A i \in 1..u : c[i] = trail[i]
    BY DEF Based, Agree
<1>2. /\ units \in Seq(Lits) /\ Len(units) = u /\ DOMAIN units = 1..u
      /\ \A i \in 1..u : units[i] = trail[i]
    OBVIOUS
<1> HIDE DEF units, u
<1>3. Range(units) = {c[i] : i \in 1..u}
    BY <1>1, <1>2 DEF Range
<1>4. ASSUME NEW i \in 1..Len(c)
      PROVE  {c[i], -c[i]} \cap Range(units) = {} <=> u < i
    <2>1. c[i] \in Lits
        BY <1>1
    <2>2. CASE u < i
        <3>1. ASSUME NEW j \in 1..u, c[j] = c[i] \/ c[j] = -c[i]
              PROVE  FALSE
            <4>1. j \in 1..Len(c) /\ j # i
                BY <1>1, <2>2
            <4>2. Var(c[j]) = Var(c[i])
                BY <2>1, <3>1, LitFacts
            <4> QED
                BY <1>1, <4>1, <4>2 DEF Distinct
        <3> QED
            BY <1>3, <2>2, <3>1
    <2>3. CASE ~(u < i)
        <3>1. i \in 1..u
            BY <1>1, <2>3
        <3> QED
            BY <1>3, <2>3, <3>1
    <2> QED
        BY <2>2, <2>3
<1>5. P = (u + 1)..Len(c)
    <2>1. \A i \in 1..Len(c) : i \in P <=> u < i
        BY <1>1, <1>4
    <2>2. \A i \in 1..Len(c) : u < i <=> i \in (u + 1)..Len(c)
        BY <1>1
    <2>3. (u + 1)..Len(c) \subseteq 1..Len(c) /\ P \subseteq 1..Len(c)
        BY <1>1
    <2> HIDE DEF P
    <2> QED
        BY <2>1, <2>2, <2>3
<1> DEFINE k == Keep(c, (u + 1)..Len(c))
<1>6. k \in Seq(Lits) /\ Len(k) = Len(c) - u /\ \A n \in 1..(Len(c) - u) : k[n] = c[n + u]
    BY <1>1, KeepSuffix
<1> HIDE DEF k
<1>7. units \o k \in Seq(Lits) /\ Len(units \o k) = Len(c)
    <2>1. units \o k \in Seq(Lits) /\ Len(units \o k) = Len(units) + Len(k)
        BY <1>2, <1>6
    <2>2. u + (Len(c) - u) = Len(c)
        BY <1>1
    <2> QED
        BY <1>2, <1>6, <2>1, <2>2
<1>8. ASSUME NEW i \in 1..Len(c)
      PROVE  (units \o k)[i] = c[i]
    <2>1. (units \o k)[i] = IF i <= Len(units) THEN units[i] ELSE k[i - Len(units)]
        BY <1>1, <1>2, <1>6
    <2>2. CASE i <= u
        BY <1>1, <1>2, <2>1, <2>2
    <2>3. CASE ~(i <= u)
        <3>1. i - u \in 1..(Len(c) - u) /\ (i - u) + u = i
            BY <1>1, <2>3
        <3> QED
            BY <1>2, <1>6, <2>1, <2>3, <3>1
    <2> QED
        BY <2>2, <2>3
<1>9. units \o k = c
    BY <1>1, <1>7, <1>8, SeqEqual
<1> QED
    BY <1>5, <1>9 DEF Refill, units, k, u

LEMMA DistinctAppend ==
    ASSUME NEW s \in Seq(Lits), Distinct(s), NEW l \in Lits,
           l \notin Range(s), -l \notin Range(s)
    PROVE  Distinct(Append(s, l))
<1> DEFINE t == Append(s, l)
           n == Len(s)
<1>1. /\ n \in Nat /\ DOMAIN s = 1..n /\ DOMAIN t = 1..(n + 1) /\ t[n + 1] = l
      /\ \A i \in 1..n : t[i] = s[i]
    BY AppendFacts
<1> HIDE DEF t, n
<1>2. ASSUME NEW i \in 1..n
      PROVE  Var(s[i]) # Var(l)
    <2>1. s[i] \in Lits /\ s[i] \in Range(s)
        BY <1>1 DEF Range
    <2> QED
        BY <2>1, LitFacts
<1>3. \A i \in 1..(n + 1) : i = n + 1 \/ i \in 1..n
    BY <1>1
<1>4. ASSUME NEW i \in DOMAIN t, NEW j \in DOMAIN t, Var(t[i]) = Var(t[j])
      PROVE  i = j
    <2>1. CASE i \in 1..n /\ j \in 1..n
        BY <1>1, <1>4, <2>1 DEF Distinct
    <2> QED
        BY <1>1, <1>2, <1>3, <1>4, <2>1
<1> QED
    BY <1>4 DEF t, Distinct

\* Cutting a sequence back to its first n elements.
LEMMA CutFacts ==
    ASSUME NEW s \in Seq(Lits), NEW n \in Nat, n <= Len(s)
    PROVE  /\ SubSeq(s, 1, n) \in Seq(Lits) /\ Len(SubSeq(s, 1, n)) = n
           /\ Agree(SubSeq(s, 1, n), s, n) /\ Agree(s, SubSeq(s, 1, n), n)
           /\ Range(SubSeq(s, 1, n)) = {s[i] : i \in 1..n}
           /\ Distinct(s) => Distinct(SubSeq(s, 1, n))
<1> DEFINE t == SubSeq(s, 1, n)
<1>1. t \in Seq(Lits) /\ Len(t) = n /\ \A i \in 1..n : t[i] = s[i]
    OBVIOUS
<1>2. DOMAIN t = 1..n /\ 1..n \subseteq DOMAIN s /\ n <= n
    BY <1>1
<1> HIDE DEF t
<1>3. Range(t) = {s[i] : i \in 1..n}
    BY <1>1, <1>2 DEF Range
<1>4. Agree(t, s, n) /\ Agree(s, t, n)
    BY <1>1, <1>2 DEF Agree
<1>5. Distinct(s) => Distinct(t)
    BY <1>1, <1>2 DEF Distinct
<1> QED
    BY <1>1, <1>3, <1>4, <1>5 DEF t

LEMMA SwapFacts ==
    ASSUME NEW c \in Seq(Lits), NEW i \in DOMAIN c, NEW j \in DOMAIN c
    PROVE  /\ Swap(c, i, j) \in Seq(Lits) /\ Len(Swap(c, i, j)) = Len(c)
           /\ Swap(c, i, j)[i] = c[j] /\ Swap(c, i, j)[j] = c[i]
           /\ \A k \in DOMAIN c : k # i /\ k # j => Swap(c, i, j)[k] = c[k]
           /\ Range(Swap(c, i, j)) = Range(c)
<1> DEFINE t == Swap(c, i, j)
<1>1. /\ DOMAIN t = DOMAIN c /\ t[i] = c[j] /\ t[j] = c[i]
      /\ \A k \in DOMAIN c : k # i /\ k # j => t[k] = c[k]
    BY DEF Swap
<1>2. t \in Seq(Lits) /\ Len(t) = Len(c)
    <2>1. c[i] \in Lits /\ c[j] \in Lits
        OBVIOUS
    <2> QED
        BY <2>1 DEF Swap
<1> HIDE DEF t
<1>3. \A k \in DOMAIN c : \E m \in DOMAIN c : t[k] = c[m]
    BY <1>1
<1>4. \A k \in DOMAIN c : \E m \in DOMAIN c : c[k] = t[m]
    BY <1>1
<1>5. Range(t) = Range(c)
    <2>1. ASSUME NEW k \in DOMAIN t
          PROVE  t[k] \in Range(c)
        BY <1>1, <1>3 DEF Range
    <2>2. ASSUME NEW k \in DOMAIN c
          PROVE  c[k] \in Range(t)
        BY <1>1, <1>4 DEF Range
    <2> QED
        BY <2>1, <2>2, Zenon DEF Range
<1> QED
    BY <1>1, <1>2, <1>5 DEF t

-----------------------------------------------------------------------------
(***************************************************************************)
(* Literals drawn from a clause.                                           *)
(***************************************************************************)
LEMMA DrawnRange ==
    ASSUME NEW s, NEW c, NEW S, Drawn(s, c, S)
    PROVE  Range(s) \subseteq Range(c)
BY DEF Drawn, Range

LEMMA DrawnMore ==
    ASSUME NEW s, NEW c, NEW S, NEW T, Drawn(s, c, S), S \subseteq T
    PROVE  Drawn(s, c, T)
<1>1. PICK f \in [DOMAIN s -> DOMAIN c] :
          /\ \A m, n \in DOMAIN s : f[m] = f[n] => m = n
          /\ \A n \in DOMAIN s : s[n] = c[f[n]]
          /\ \A k \in DOMAIN c : (\E n \in DOMAIN s : f[n] = k) \/ -c[k] \in S
    BY DEF Drawn
<1>2. \A k \in DOMAIN c : (\E n \in DOMAIN s : f[n] = k) \/ -c[k] \in T
    BY <1>1
<1> QED
    BY <1>1, <1>2 DEF Drawn

\* Their order does not matter.
LEMMA DrawnSwap ==
    ASSUME NEW s \in Seq(Lits), NEW i \in DOMAIN s, NEW j \in DOMAIN s,
           NEW c, NEW S, Drawn(s, c, S)
    PROVE  Drawn(Swap(s, i, j), c, S)
<1> DEFINE t == Swap(s, i, j)
<1>1. PICK f \in [DOMAIN s -> DOMAIN c] :
          /\ \A m, n \in DOMAIN s : f[m] = f[n] => m = n
          /\ \A n \in DOMAIN s : s[n] = c[f[n]]
          /\ \A k \in DOMAIN c : (\E n \in DOMAIN s : f[n] = k) \/ -c[k] \in S
    BY DEF Drawn
<1> DEFINE g == [n \in DOMAIN s |-> IF n = i THEN f[j] ELSE IF n = j THEN f[i] ELSE f[n]]
<1>2. /\ DOMAIN t = DOMAIN s /\ t[i] = s[j] /\ t[j] = s[i]
      /\ \A k \in DOMAIN s : k # i /\ k # j => t[k] = s[k]
    BY DEF Swap
<1>3. /\ g \in [DOMAIN s -> DOMAIN c] /\ g[i] = f[j] /\ g[j] = f[i]
      /\ \A k \in DOMAIN s : k # i /\ k # j => g[k] = f[k]
    OBVIOUS
<1> HIDE DEF t, g
<1>4. \A m, n \in DOMAIN s : g[m] = g[n] => m = n
    <2> SUFFICES ASSUME NEW m \in DOMAIN s, NEW n \in DOMAIN s, g[m] = g[n]
                 PROVE  m = n
        OBVIOUS
    <2>1. CASE m = i
        <3>1. f[j] = g[n]
            BY <1>3, <2>1
        <3>2. CASE n = i
            BY <2>1, <3>2
        <3>3. CASE n = j
            <4>1. f[j] = f[i]
                BY <1>3, <3>1, <3>3
            <4>2. j = i
                BY <1>1, <4>1
            <4> QED
                BY <2>1, <3>3, <4>2
        <3>4. CASE n # i /\ n # j
            <4>1. f[j] = f[n]
                BY <1>3, <3>1, <3>4
            <4>2. j = n
                BY <1>1, <4>1
            <4> QED
                BY <3>4, <4>2
        <3> QED
            BY <3>2, <3>3, <3>4
    <2>2. CASE m = j
        <3>1. f[i] = g[n]
            BY <1>3, <2>2
        <3>2. n = i \/ n = j \/ f[n] = g[n]
            BY <1>3
        <3> QED
            BY <1>1, <1>3, <2>2, <3>1, <3>2
    <2>3. CASE m # i /\ m # j
        BY <1>1, <1>3, <2>3
    <2> QED
        BY <2>1, <2>2, <2>3
<1>5. \A n \in DOMAIN s : t[n] = c[g[n]]
    BY <1>1, <1>2, <1>3
<1>6. ASSUME NEW k \in DOMAIN c
      PROVE  (\E n \in DOMAIN s : g[n] = k) \/ -c[k] \in S
    <2>1. CASE -c[k] \in S
        BY <2>1
    <2>2. CASE \E n \in DOMAIN s : f[n] = k
        <3>1. PICK n \in DOMAIN s : f[n] = k
            BY <2>2
        <3>2. CASE n = i
            BY <1>3, <3>1, <3>2
        <3>3. CASE n = j
            BY <1>3, <3>1, <3>3
        <3>4. CASE n # i /\ n # j
            BY <1>3, <3>1, <3>4
        <3> QED
            BY <3>2, <3>3, <3>4
    <2> QED
        BY <1>1, <2>1, <2>2
<1>7. Drawn(t, c, S)
    <2>1. DOMAIN t = DOMAIN s /\ g \in [DOMAIN t -> DOMAIN c]
        BY <1>2, <1>3
    <2> QED
        BY <1>4, <1>5, <1>6, <2>1 DEF Drawn
<1> QED
    BY <1>7 DEF t

\* When all of them but one are false, so is the clause but for that literal.
LEMMA DrawnUnit ==
    ASSUME NEW s, NEW c, NEW S, Drawn(s, c, S), NEW n \in DOMAIN s,
           \A m \in DOMAIN s \ {n} : -s[m] \in S
    PROVE  \E j \in DOMAIN c : /\ c[j] = s[n]
                              /\ \A k \in DOMAIN c \ {j} : -c[k] \in S
<1>1. PICK f \in [DOMAIN s -> DOMAIN c] :
          /\ \A m, k \in DOMAIN s : f[m] = f[k] => m = k
          /\ \A m \in DOMAIN s : s[m] = c[f[m]]
          /\ \A k \in DOMAIN c : (\E m \in DOMAIN s : f[m] = k) \/ -c[k] \in S
    BY DEF Drawn
<1>2. f[n] \in DOMAIN c /\ c[f[n]] = s[n]
    BY <1>1
<1>3. ASSUME NEW k \in DOMAIN c \ {f[n]}
      PROVE  -c[k] \in S
    BY <1>1
<1> QED
    BY <1>2, <1>3

\* When all of the clause but position j is false in T, so are all of them but
\* one, and a true one is the literal at j.
LEMMA DrawnLeft ==
    ASSUME NEW s, NEW c, NEW S, Drawn(s, c, S), NEW T, Consistent(T),
           NEW j \in DOMAIN c, \A k \in DOMAIN c \ {j} : -c[k] \in T
    PROVE  /\ \A m, n \in DOMAIN s : m # n => -s[m] \in T \/ -s[n] \in T
           /\ \A n \in DOMAIN s : s[n] \in T => c[j] \in T
<1>1. PICK f \in [DOMAIN s -> DOMAIN c] :
          /\ \A m, n \in DOMAIN s : f[m] = f[n] => m = n
          /\ \A n \in DOMAIN s : s[n] = c[f[n]]
    BY DEF Drawn
<1>2. \A n \in DOMAIN s : f[n] # j => -s[n] \in T
    BY <1>1
<1>3. \A n \in DOMAIN s : s[n] \in T => c[j] \in T
    BY <1>1, <1>2 DEF Consistent
<1> QED
    BY <1>1, <1>2, <1>3

-----------------------------------------------------------------------------
(***************************************************************************)
(* What the parts of the propagator are in a state of the right shape.     *)
(***************************************************************************)
LEMMA NextCases ==
    ASSUME [Next]_vars
    PROVE  \/ AddSatisfied \/ AddEmpty \/ AddUnit \/ AddedUnit \/ AddBinary \/ AddLong
           \/ Loaded
           \/ Propagated \/ TakeLit \/ Imply \/ StartWatches
           \/ KeepWatch \/ MoveWatch \/ Conflict \/ EndWatches
           \/ Fill \/ BranchTrue \/ Leaf \/ BranchFalse \/ EndSplit
           \/ UNCHANGED vars
BY DEF Next

LEMMA ReducedFacts ==
    ASSUME DatabaseType, Adding
    PROVE  LET c == clauses[next]
               r == Reduced(c)
           IN  /\ next \in DOMAIN clauses /\ c \in Seq(Lits)
               /\ r \in Seq(Lits) /\ Len(r) \in Nat /\ DOMAIN r = 1..Len(r)
               /\ Range(r) \subseteq Range(c)
               /\ Live(c) => Drawn(r, c, Range(trail))
               /\ \A j \in DOMAIN c : IsUndef(c[j]) => c[j] \in Range(r)
               /\ \A j \in DOMAIN r : IsUndef(r[j]) /\ r[j] \in Lits
<1> DEFINE c == clauses[next]
           r == Reduced(c)
           P == {i \in DOMAIN c : IsUndef(c[i])}
<1>1. next \in DOMAIN clauses
    BY ClauseFacts DEF DatabaseType, Adding
<1>2. c \in Seq(Lits)
    BY <1>1, ClauseFacts DEF DatabaseType
<1> HIDE DEF c
<1>3. r = Keep(c, P)
    BY DEF Reduced
<1>4. P \in SUBSET DOMAIN c
    OBVIOUS
<1> HIDE DEF r, P
<1>5. /\ r \in Seq(Lits) /\ Range(r) = {c[p] : p \in P}
      /\ \A T : (\A k \in DOMAIN c \ P : -c[k] \in T) => Drawn(r, c, T)
    BY <1>2, <1>3, <1>4, KeepFacts
<1>6. \A j \in DOMAIN r : r[j] \in Range(r) /\ r[j] \in Lits
    BY <1>5 DEF Range
<1>7. Range(r) \subseteq Range(c)
    BY <1>4, <1>5 DEF Range
<1>8. \A p \in DOMAIN c : p \in P <=> IsUndef(c[p])
    BY DEF P
<1>9. \A j \in DOMAIN r : IsUndef(r[j])
    BY <1>4, <1>5, <1>6, <1>8
<1>10. \A j \in DOMAIN c : IsUndef(c[j]) => c[j] \in Range(r)
    BY <1>5, <1>8
<1>11. Len(r) \in Nat /\ DOMAIN r = 1..Len(r)
    BY <1>5
<1>12. ASSUME Live(c)
       PROVE  Drawn(r, c, Range(trail))
    <2>1. \A k \in DOMAIN c \ P : -c[k] \in Range(trail)
        BY <1>8, <1>12 DEF Live, IsUndef, IsTrue, IsFalse
    <2> QED
        BY <1>5, <2>1
<1> QED
    BY <1>1, <1>2, <1>5, <1>6, <1>7, <1>9, <1>10, <1>11, <1>12 DEF c, r

LEMMA WatchCountFacts ==
    ASSUME NEW i \in DOMAIN clauses, NEW l
    PROVE  WatchCount(i, l) \in Nat /\ (WatchCount(i, l) = 0 <=> i \notin Watching(l))
BY DEF WatchCount, One, Watching

\* The clauses in the list of a literal are those that watch it.
LEMMA WatchRanges ==
    ASSUME DatabaseType, Flow, WatchLists, NEW l \in Lits
    PROVE  IF pc = "watch" /\ l = -Lit THEN Range(kept) \cup Range(todo) = Watching(l)
                                       ELSE Range(watches[l]) = Watching(l)
<1>1. Watching(l) \subseteq DOMAIN clauses
    BY DEF Watching
<1>2. CASE pc = "watch" /\ l = -Lit
    <2>1. kept \in Seq(DOMAIN clauses) /\ todo \in Seq(DOMAIN clauses)
        BY <1>2 DEF Flow
    <2>2. Range(kept) \subseteq DOMAIN clauses /\ Range(todo) \subseteq DOMAIN clauses
        BY <2>1 DEF Range
    <2>3. ASSUME NEW i \in DOMAIN clauses
          PROVE  i \in Range(kept) \cup Range(todo) <=> i \in Watching(l)
        <3>1. WatchCount(i, l) = Occ(kept, i) + Occ(todo, i)
            BY <1>2 DEF WatchLists
        <3>2. /\ Occ(kept, i) \in Nat /\ (Occ(kept, i) = 0 <=> i \notin Range(kept))
              /\ Occ(todo, i) \in Nat /\ (Occ(todo, i) = 0 <=> i \notin Range(todo))
            BY <2>1, OccFacts
        <3>3. WatchCount(i, l) \in Nat /\ (WatchCount(i, l) = 0 <=> i \notin Watching(l))
            BY WatchCountFacts
        <3> QED
            BY <3>1, <3>2, <3>3
    <2> QED
        BY <1>1, <1>2, <2>2, <2>3
<1>3. CASE ~(pc = "watch" /\ l = -Lit)
    <2>1. watches[l] \in Seq(DOMAIN clauses)
        BY DEF DatabaseType
    <2>2. Range(watches[l]) \subseteq DOMAIN clauses
        BY <2>1 DEF Range
    <2>3. ASSUME NEW i \in DOMAIN clauses
          PROVE  i \in Range(watches[l]) <=> i \in Watching(l)
        <3>1. WatchCount(i, l) = Occ(watches[l], i)
            BY <1>3 DEF WatchLists
        <3>2. Occ(watches[l], i) = 0 <=> i \notin Range(watches[l])
            BY <2>1, OccFacts
        <3>3. WatchCount(i, l) = 0 <=> i \notin Watching(l)
            BY WatchCountFacts
        <3> QED
            BY <3>1, <3>2, <3>3
    <2> QED
        BY <1>1, <1>3, <2>2, <2>3
<1> QED
    BY <1>2, <1>3

\* The literal being propagated.
LEMMA LitOnTrail ==
    ASSUME TrailType, Flow, pc \in {"imply", "watch"}
    PROVE  Lit \in Lits /\ -Lit \in Lits /\ Lit \in Range(trail) /\ trailPos \in DOMAIN trail
<1>1. trailPos \in 1..Len(trail) /\ DOMAIN trail = 1..Len(trail)
    BY DEF TrailType, Flow
<1>2. Lit \in Lits /\ Lit \in Range(trail)
    BY <1>1 DEF TrailType, Lit, Range
<1> QED
    BY <1>1, <1>2, LitFacts

\* A clause whose watch has become false, turned so that it is the first.
LEMMA TurnedFacts ==
    ASSUME DatabaseType, TrailType, Flow, StoredShape, WatchLists,
           pc = "watch", todo # <<>>
    PROVE  LET h == Head(todo)
               c == Turned(stored[h])
           IN  /\ h \in Range(todo) /\ h \in DOMAIN clauses /\ h \in Watching(-Lit)
               /\ stored[h] # <<>> /\ stored[h] \in Seq(Lits)
               /\ c \in Seq(Lits) /\ Len(c) = Len(stored[h]) /\ Len(c) >= 3
               /\ Range(c) = Range(stored[h])
               /\ \A d, S : Drawn(stored[h], d, S) => Drawn(c, d, S)
               /\ c[1] = -Lit
               /\ \/ c[1] = stored[h][1] /\ c[2] = stored[h][2]
                  \/ c[1] = stored[h][2] /\ c[2] = stored[h][1]
               /\ DOMAIN c = 1..Len(c) /\ Len(c) \in Nat
               /\ \A i \in DOMAIN c : c[i] \in Lits
<1> DEFINE h == Head(todo)
           s == stored[h]
           c == Turned(s)
<1>1. todo \in Seq(DOMAIN clauses)
    BY DEF Flow
<1>2. h \in DOMAIN clauses /\ h \in Range(todo)
    BY <1>1, HeadTailFacts
<1>3. -Lit \in Lits
    BY LitOnTrail
<1>4. h \in Watching(-Lit)
    BY <1>2, <1>3, WatchRanges
<1> HIDE DEF h
<1>5. s # <<>> /\ (s[1] = -Lit \/ s[2] = -Lit)
    BY <1>4 DEF Watching
<1>6. s \in Seq(Lits) /\ Len(s) >= 3
    BY <1>2, <1>5 DEF DatabaseType, StoredShape
<1> HIDE DEF s
<1>7. 1 \in DOMAIN s /\ 2 \in DOMAIN s
    BY <1>6
<1>8. /\ c \in Seq(Lits) /\ Len(c) = Len(s) /\ Range(c) = Range(s) /\ c[1] = -Lit
      /\ (c[1] = s[1] /\ c[2] = s[2]) \/ (c[1] = s[2] /\ c[2] = s[1])
      /\ \A d, S : Drawn(s, d, S) => Drawn(c, d, S)
    <2>1. CASE s[2] = -Lit
        <3>1. c = Swap(s, 1, 2)
            BY <2>1 DEF Turned
        <3> HIDE DEF c
        <3> QED
            BY <1>6, <1>7, <2>1, <3>1, SwapFacts, DrawnSwap
    <2>2. CASE s[2] # -Lit
        <3>1. c = s
            BY <2>2 DEF Turned
        <3> QED
            BY <1>5, <1>6, <2>2, <3>1
    <2> QED
        BY <2>1, <2>2
<1> HIDE DEF c
<1>9. DOMAIN c = 1..Len(c) /\ Len(c) \in Nat /\ \A i \in DOMAIN c : c[i] \in Lits
    BY <1>8
<1>10. Len(c) >= 3
    BY <1>6, <1>8
<1> QED
    BY <1>2, <1>4, <1>5, <1>6, <1>8, <1>9, <1>10 DEF c, s, h

LEMMA NewWatchFacts ==
    ASSUME NEW c \in Seq(Lits)
    PROVE  /\ NewWatch(c) \in Nat
           /\ NewWatch(c) = 0 => \A i \in 3..Len(c) : IsFalse(c[i])
           /\ NewWatch(c) # 0 => NewWatch(c) \in 3..Len(c) /\ ~IsFalse(c[NewWatch(c)])
<1> DEFINE open == {i \in 3..Len(c) : ~IsFalse(c[i])}
<1>1. CASE open = {}
    BY <1>1 DEF NewWatch
<1>2. CASE open # {}
    <2>1. open \subseteq Nat
        OBVIOUS
    <2>2. \E i \in open : \A j \in open : i <= j
        BY <1>2, <2>1, LeastNumber
    <2>3. NewWatch(c) = CHOOSE i \in open : \A j \in open : i <= j
        BY <1>2 DEF NewWatch
    <2>4. NewWatch(c) \in open
        BY <2>2, <2>3
    <2>5. NewWatch(c) \in 3..Len(c) /\ ~IsFalse(c[NewWatch(c)])
        BY <2>4
    <2> QED
        BY <2>5
<1> QED
    BY <1>1, <1>2

\* uncheckedEnqueue of a literal that has no value.
LEMMA EnqueueFacts ==
    ASSUME TrailType, NEW l \in Lits, IsUndef(l), trail' = Append(trail, l)
    PROVE  /\ trail' \in Seq(Lits) /\ Distinct(trail') /\ Len(trail') = Len(trail) + 1
           /\ Len(trail) \in Nat /\ DOMAIN trail = 1..Len(trail)
           /\ \A i \in DOMAIN trail : trail'[i] = trail[i]
           /\ Range(trail') = Range(trail) \cup {l}
           /\ trail'[Len(trail) + 1] = l
           /\ \A c \in Seq(Lits), n \in Nat : Agree(c, trail, n) => Agree(c, trail', n)
<1>1. trail \in Seq(Lits) /\ Distinct(trail) /\ l \notin Range(trail) /\ -l \notin Range(trail)
    BY DEF TrailType, IsUndef, IsTrue, IsFalse
<1>2. Distinct(trail')
    BY <1>1, DistinctAppend
<1>3. \A c \in Seq(Lits), n \in Nat : Agree(c, trail, n) => Agree(c, trail', n)
    BY <1>1, AgreeAppend
<1> QED
    BY <1>1, <1>2, <1>3, AppendFacts

-----------------------------------------------------------------------------
(***************************************************************************)
(* Shape is inductive.                                                     *)
(***************************************************************************)
\* The trail grows by literals without a value only.
LEMMA TrailGrows ==
    ASSUME Shape, AddUnit \/ Imply \/ KeepWatch \/ BranchTrue
    PROVE  UNCHANGED trail \/ \E l \in Lits : IsUndef(l) /\ trail' = Append(trail, l)
<1>0. DatabaseType /\ TrailType /\ FlagType /\ Flow /\ DriverShape /\ StoredShape /\ WatchLists
    BY DEF Shape
<1>1. CASE AddUnit
    <2>1. Adding
        BY <1>1 DEF AddUnit
    <2>2. 1 \in DOMAIN Reduced(clauses[next])
        BY <1>0, <1>1, <2>1, ReducedFacts DEF AddUnit
    <2> QED
        BY <1>0, <1>1, <2>1, <2>2, ReducedFacts DEF AddUnit
<1>2. CASE Imply
    <2>1. Head(todo) \in Lits
        BY <1>0, <1>2, HeadTailFacts DEF Imply, Flow
    <2> QED
        BY <1>2, <2>1 DEF Imply
<1>3. CASE KeepWatch
    <2> DEFINE c == Turned(stored[Head(todo)])
    <2>1. c[2] \in Lits
        <3>1. pc = "watch" /\ todo # <<>>
            BY <1>3 DEF KeepWatch
        <3>2. 2 \in DOMAIN c
            BY <1>0, <3>1, TurnedFacts
        <3> QED
            BY <1>0, <3>1, <3>2, TurnedFacts
    <2>2. UNCHANGED trail \/ (IsUndef(c[2]) /\ trail' = Append(trail, c[2]))
        BY <1>3 DEF KeepWatch
    <2> QED
        BY <2>1, <2>2
<1>4. CASE BranchTrue
    <2>1. PICK v \in Free : trail' = Append(trail, v)
        BY <1>4 DEF BranchTrue
    <2>2. Cubing /\ Len(trail) = Len(cube) /\ ~Busy
        BY <1>4 DEF BranchTrue, Cubing, Phase, Busy
    <2>3. /\ cube \in Seq(Lits) /\ \A i \in 1..Len(cube) : cube[i] = trail[i]
          /\ trail \in Seq(Lits)
        BY <1>0, <2>2 DEF DriverShape, Based, Agree, TrailType
    <2>4. v \in 1..NumVars /\ \A i \in DOMAIN cube : v # Var(cube[i])
        BY DEF Free
    <2>5. v \in Lits /\ Var(v) = v
        BY <2>4, PropagatorAssumption DEF Lits, Literals, Var
    <2>6. ASSUME NEW i \in DOMAIN trail
          PROVE  trail[i] # v /\ trail[i] # -v
        <3>1. i \in DOMAIN cube /\ cube[i] = trail[i] /\ trail[i] \in Lits
            BY <2>2, <2>3
        <3>2. Var(trail[i]) # v
            BY <2>4, <3>1
        <3> QED
            BY <2>5, <3>1, <3>2, LitFacts
    <2>7. IsUndef(v)
        BY <2>6, Zenon DEF IsUndef, IsTrue, IsFalse, Range
    <2> QED
        BY <2>1, <2>5, <2>7
<1> QED
    BY <1>1, <1>2, <1>3, <1>4

LEMMA DatabaseStep == Shape /\ [Next]_vars => DatabaseType'
<1> SUFFICES ASSUME Shape, [Next]_vars
             PROVE  DatabaseType'
    OBVIOUS
<1>0. DatabaseType /\ TrailType /\ FlagType /\ Flow /\ DriverShape /\ StoredShape /\ WatchLists
    BY DEF Shape
<1>1. UNCHANGED <<database, watches>> => DatabaseType'
    BY <1>0 DEF DatabaseType, database
<1>2. ASSUME Adding
      PROVE  next' \in 1..(Len(clauses) + 1)
    BY <1>0, <1>2, ClauseFacts DEF DatabaseType, Adding
<1>3. CASE AddSatisfied \/ AddEmpty \/ AddUnit
    BY <1>0, <1>2, <1>3 DEF DatabaseType, AddSatisfied, AddEmpty, AddUnit
<1>4. CASE AddBinary
    <2> DEFINE r == Reduced(clauses[next])
               a == r[1]
               b == r[2]
               once == [implied EXCEPT ![-a] = Append(@, b)]
    <2>1. Adding /\ Len(r) = 2
        BY <1>4 DEF AddBinary
    <2>2. 1 \in DOMAIN r /\ 2 \in DOMAIN r
        BY <1>0, <2>1, ReducedFacts
    <2>3. a \in Lits /\ b \in Lits /\ -a \in Lits /\ -b \in Lits
        BY <1>0, <2>1, <2>2, ReducedFacts, LitFacts
    <2>4. implied' = [once EXCEPT ![-b] = Append(@, a)]
        BY <1>4 DEF AddBinary
    <2> HIDE DEF a, b
    <2>5. once \in [Lits -> Seq(Lits)]
        BY <1>0, <2>3 DEF DatabaseType
    <2> HIDE DEF once
    <2>6. implied' \in [Lits -> Seq(Lits)]
        BY <2>3, <2>4, <2>5
    <2> QED
        BY <1>0, <1>2, <1>4, <2>1, <2>6 DEF DatabaseType, AddBinary
<1>5. CASE AddLong
    <2> DEFINE r == Reduced(clauses[next])
               a == r[1]
               b == r[2]
               once == [watches EXCEPT ![a] = Append(@, next)]
    <2>1. Adding /\ Len(r) > 2
        BY <1>5 DEF AddLong
    <2>2. 1 \in DOMAIN r /\ 2 \in DOMAIN r /\ next \in DOMAIN clauses /\ r \in Seq(Lits)
        BY <1>0, <2>1, ReducedFacts
    <2>3. a \in Lits /\ b \in Lits
        BY <1>0, <2>1, <2>2, ReducedFacts
    <2>4. watches' = [once EXCEPT ![b] = Append(@, next)] /\ stored' = [stored EXCEPT ![next] = r]
        BY <1>5 DEF AddLong
    <2> HIDE DEF a, b, r
    <2>5. once \in [Lits -> Seq(DOMAIN clauses)]
        BY <1>0, <2>2, <2>3 DEF DatabaseType
    <2> HIDE DEF once
    <2>6. watches' \in [Lits -> Seq(DOMAIN clauses)]
        BY <2>2, <2>3, <2>4, <2>5
    <2>7. stored' \in [DOMAIN clauses -> Seq(Lits)]
        BY <1>0, <2>2, <2>4 DEF DatabaseType
    <2> QED
        BY <1>0, <1>2, <1>5, <2>1, <2>6, <2>7 DEF DatabaseType, AddLong
<1> DEFINE h == Head(todo)
           c == Turned(stored[h])
<1>6. ASSUME pc = "watch", todo # <<>>
      PROVE  h \in DOMAIN clauses /\ c \in Seq(Lits) /\ DOMAIN c = 1..Len(c) /\ Len(c) >= 3
             /\ \A i \in DOMAIN c : c[i] \in Lits
    BY <1>0, <1>6, TurnedFacts
<1>7. CASE KeepWatch
    <2>1. pc = "watch" /\ todo # <<>> /\ stored' = [stored EXCEPT ![h] = c]
        BY <1>7 DEF KeepWatch
    <2>2. UNCHANGED <<clauses, next, implied, watches>>
        BY <1>7 DEF KeepWatch
    <2> HIDE DEF h, c
    <2> QED
        BY <1>0, <1>6, <2>1, <2>2 DEF DatabaseType
<1>8. CASE MoveWatch
    <2> DEFINE p == NewWatch(c)
    <2>1. /\ pc = "watch" /\ todo # <<>> /\ stored' = [stored EXCEPT ![h] = Swap(c, 1, p)]
          /\ watches' = [watches EXCEPT ![c[p]] = Append(@, h)] /\ p # 0
          /\ UNCHANGED <<clauses, next, implied>>
        BY <1>8 DEF MoveWatch
    <2>2. p \in 3..Len(c)
        BY <1>6, <2>1, NewWatchFacts
    <2> HIDE DEF h, c, p
    <2>3. 1 \in DOMAIN c /\ p \in DOMAIN c /\ c \in Seq(Lits)
        BY <1>6, <2>1, <2>2
    <2>4. Swap(c, 1, p) \in Seq(Lits)
        BY <2>3, SwapFacts
    <2>5. stored' \in [DOMAIN clauses -> Seq(Lits)]
        BY <1>0, <1>6, <2>1, <2>4 DEF DatabaseType
    <2>6. watches' \in [Lits -> Seq(DOMAIN clauses)]
        BY <1>0, <1>6, <2>1, <2>3 DEF DatabaseType
    <2> QED
        BY <1>0, <2>1, <2>5, <2>6 DEF DatabaseType
<1>9. CASE Conflict
    <2>1. /\ pc = "watch" /\ todo # <<>> /\ stored' = [stored EXCEPT ![h] = c]
          /\ watches' = [watches EXCEPT ![-Lit] = kept \o todo]
          /\ UNCHANGED <<clauses, next, implied>>
        BY <1>9 DEF Conflict
    <2>2. kept \o todo \in Seq(DOMAIN clauses) /\ -Lit \in Lits
        BY <1>0, <2>1, ConcatFacts, LitOnTrail DEF Flow
    <2> HIDE DEF h, c
    <2> QED
        BY <1>0, <1>6, <2>1, <2>2 DEF DatabaseType
<1>10. CASE EndWatches
    <2>1. /\ pc = "watch" /\ watches' = [watches EXCEPT ![-Lit] = kept]
          /\ UNCHANGED <<clauses, next, implied, stored>>
        BY <1>10 DEF EndWatches, database
    <2>2. kept \in Seq(DOMAIN clauses) /\ -Lit \in Lits
        BY <1>0, <2>1, LitOnTrail DEF Flow
    <2> QED
        BY <1>0, <2>1, <2>2 DEF DatabaseType
<1> QED
    <2>1. CASE AddedUnit \/ Loaded \/ Propagated \/ TakeLit \/ Imply \/ StartWatches
        BY <1>1, <2>1 DEF AddedUnit, Loaded, Propagated, TakeLit, Imply, StartWatches
    <2>2. CASE Fill \/ BranchTrue \/ Leaf \/ BranchFalse \/ EndSplit \/ UNCHANGED vars
        BY <1>1, <2>2 DEF Fill, BranchTrue, Leaf, BranchFalse, EndSplit, vars
    <2> QED
        BY <1>3, <1>4, <1>5, <1>7, <1>8, <1>9, <1>10, <2>1, <2>2, NextCases

LEMMA TrailStep == Shape /\ [Next]_vars => TrailType'
<1> SUFFICES ASSUME Shape, [Next]_vars
             PROVE  TrailType'
    OBVIOUS
<1>0. DatabaseType /\ TrailType /\ FlagType /\ Flow /\ DriverShape /\ StoredShape /\ WatchLists
    BY DEF Shape
<1>1. UNCHANGED <<trail, trailPos, trailLimUnit>> => TrailType'
    BY <1>0 DEF TrailType, Distinct
<1>2. CASE AddUnit \/ Imply \/ KeepWatch \/ BranchTrue
    <2>1. UNCHANGED <<trailPos, trailLimUnit>>
        BY <1>2 DEF AddUnit, Imply, KeepWatch, BranchTrue
    <2>2. CASE UNCHANGED trail
        BY <1>1, <2>1, <2>2
    <2>3. CASE trail' # trail
        <3>1. PICK l \in Lits : IsUndef(l) /\ trail' = Append(trail, l)
            BY <1>2, <2>3, TrailGrows
        <3>2. /\ trail' \in Seq(Lits) /\ Distinct(trail') /\ Len(trail') = Len(trail) + 1
              /\ Len(trail) \in Nat
            BY <1>0, <3>1, EnqueueFacts
        <3> QED
            BY <1>0, <2>1, <3>2 DEF TrailType
    <2> QED
        BY <2>2, <2>3
<1>3. CASE Loaded
    <2>1. trailLimUnit' \in Nat /\ trailLimUnit' <= trailPos
        BY <1>0, <1>3 DEF Loaded, TrailType, Flow
    <2> QED
        BY <1>0, <1>3, <2>1 DEF Loaded, TrailType, Distinct
<1>4. CASE TakeLit
    <2>1. trailPos' \in Nat /\ trailLimUnit <= trailPos' /\ trailPos' <= Len(trail)
        BY <1>0, <1>4 DEF TakeLit, TrailType
    <2> QED
        BY <1>0, <1>4, <2>1 DEF TakeLit, TrailType, Distinct
<1>5. CASE Fill
    <2>1. PICK c \in cubes : trail' = Refill(c)
        BY <1>5 DEF Fill
    <2>2. Based(c)
        BY <1>0 DEF DriverShape
    <2>3. trail' = c
        BY <1>0, <2>1, <2>2, RefillIsCube DEF TrailType
    <2>4. trail' \in Seq(Lits) /\ Distinct(trail') /\ trailLimUnit <= Len(trail')
        BY <2>2, <2>3 DEF Based, Agree
    <2> QED
        BY <1>0, <1>5, <2>4 DEF Fill, TrailType
<1>6. CASE BranchFalse
    <2> DEFINE t == SubSeq(trail, 1, base)
    <2>1. Halving /\ Cubing
        BY <1>6 DEF BranchFalse, Halving, Cubing, Phase, Busy
    <2>2. /\ base \in Nat /\ base < Len(trail) /\ base = Len(cube) /\ branch \in Free
          /\ cube \in Seq(Lits) /\ Agree(cube, trail, base)
          /\ trailLimUnit <= base
        BY <1>0, <2>1 DEF DriverShape, Based, Agree
    <2>3. /\ t \in Seq(Lits) /\ Len(t) = base /\ Distinct(t)
          /\ Range(t) = {trail[i] : i \in 1..base}
        BY <1>0, <2>2, CutFacts DEF TrailType
    <2>4. /\ branch \in Lits /\ -branch \in Lits /\ Var(branch) = branch
          /\ \A i \in DOMAIN cube : branch # Var(cube[i])
        <3>1. branch \in 1..NumVars /\ \A i \in DOMAIN cube : branch # Var(cube[i])
            BY <2>2 DEF Free
        <3>2. branch \in Lits /\ Var(branch) = branch
            BY <3>1, PropagatorAssumption DEF Lits, Literals, Var
        <3> QED
            BY <3>1, <3>2, LitFacts
    <2>5. ASSUME NEW i \in 1..base
          PROVE  trail[i] # branch /\ trail[i] # -branch
        <3>1. cube[i] = trail[i] /\ i \in DOMAIN cube /\ cube[i] \in Lits
            BY <2>2 DEF Agree
        <3> QED
            BY <2>4, <3>1, LitFacts
    <2>6. -branch \notin Range(t) /\ -(-branch) \notin Range(t)
        BY <2>3, <2>4, <2>5, LitFacts
    <2> HIDE DEF t
    <2>7. trail' = Append(t, -branch) /\ trailPos' = base /\ UNCHANGED trailLimUnit
        BY <1>6 DEF BranchFalse, t
    <2>8. trail' \in Seq(Lits) /\ Len(trail') = base + 1
        BY <2>3, <2>4, <2>7, AppendFacts
    <2>9. Distinct(trail')
        BY <2>3, <2>4, <2>6, <2>7, DistinctAppend
    <2> QED
        BY <1>0, <2>2, <2>7, <2>8, <2>9 DEF TrailType
<1> QED
    <2>1. CASE AddSatisfied \/ AddEmpty \/ AddedUnit \/ AddBinary \/ AddLong
        BY <1>1, <2>1 DEF AddSatisfied, AddEmpty, AddedUnit, AddBinary, AddLong
    <2>2. CASE Propagated \/ StartWatches \/ MoveWatch \/ Conflict \/ EndWatches
        BY <1>1, <2>2 DEF Propagated, StartWatches, MoveWatch, Conflict, EndWatches
    <2>3. CASE Leaf \/ EndSplit \/ UNCHANGED vars
        BY <1>1, <2>3 DEF Leaf, EndSplit, vars
    <2> QED
        BY <1>2, <1>3, <1>4, <1>5, <1>6, <2>1, <2>2, <2>3, NextCases

LEMMA FlagStep == Shape /\ [Next]_vars => FlagType'
<1> SUFFICES ASSUME Shape, [Next]_vars
             PROVE  FlagType'
    OBVIOUS
<1>0. FlagType
    BY DEF Shape
<1>1. CASE AddSatisfied \/ AddEmpty \/ AddUnit \/ AddedUnit \/ AddBinary \/ AddLong \/ Loaded
    BY <1>0, <1>1 DEF FlagType, Busy, driver, AddSatisfied, AddEmpty, AddUnit, AddedUnit,
                      AddBinary, AddLong, Loaded
<1>2. CASE Propagated \/ TakeLit \/ StartWatches \/ EndWatches
    BY <1>0, <1>2 DEF FlagType, Busy, driver, Propagated, TakeLit, StartWatches,
                      EndWatches, Return
<1>3. CASE Imply \/ KeepWatch \/ MoveWatch \/ Conflict
    <2>1. /\ UNCHANGED <<isUnsat, caller, taken>> /\ pc \in {"imply", "watch"}
          /\ \/ UNCHANGED <<result, pc>>
             \/ result' = FALSE /\ pc' = caller
        BY <1>3 DEF Imply, KeepWatch, MoveWatch, Conflict, driver, Return
    <2> QED
        BY <1>0, <2>1 DEF FlagType, Busy
<1>4. CASE Fill
    <2>1. taken' \in 0..MaxCubes
        BY <1>0, <1>4, PropagatorAssumption DEF FlagType, Fill
    <2> QED
        BY <1>0, <1>4, <2>1 DEF FlagType, Busy, Fill
<1>5. CASE BranchTrue \/ Leaf \/ BranchFalse \/ EndSplit
    BY <1>0, <1>5 DEF FlagType, Busy, driver, BranchTrue, Leaf, BranchFalse, EndSplit
<1>6. CASE UNCHANGED vars
    BY <1>0, <1>6 DEF FlagType, Busy, driver, vars
<1> QED
    BY <1>1, <1>2, <1>3, <1>4, <1>5, <1>6, NextCases

LEMMA FlowStep == Shape /\ [Next]_vars => Flow'
<1> SUFFICES ASSUME Shape, [Next]_vars
             PROVE  Flow'
    OBVIOUS
<1>0. DatabaseType /\ TrailType /\ FlagType /\ Flow /\ DriverShape /\ StoredShape /\ WatchLists
    BY DEF Shape
<1>1. CASE AddSatisfied \/ AddEmpty \/ AddUnit \/ AddedUnit \/ AddBinary \/ AddLong
    <2>1. /\ pc \in {"load", "unit"} /\ pc' \in {"load", "take"} /\ (pc' = "take" => caller' = "unit")
          /\ UNCHANGED <<trailPos, trailLimUnit, cubes, todo, kept>>
        BY <1>1 DEF Adding, driver, AddSatisfied, AddEmpty, AddUnit, AddedUnit, AddBinary, AddLong
    <2>2. /\ Loading /\ Loading' /\ ~Returned'
          /\ pc' # "imply" /\ pc' # "watch" /\ trailLimUnit = 0 /\ cubes = {}
        BY <1>0, <2>1 DEF Flow, Phase, Busy, Loading, Returned
    <2>3. pc' = "load" /\ ~isUnsat' => trailPos = Len(trail) /\ UNCHANGED trail
        BY <1>0, <1>1 DEF Flow, FlagType, Returned, Adding, AddSatisfied, AddEmpty, AddUnit,
            AddedUnit, AddBinary, AddLong
    <2>4. isUnsat' => pc' = "load"
        BY <1>0, <1>1 DEF Flow, FlagType, Adding, AddSatisfied, AddEmpty, AddUnit,
            AddedUnit, AddBinary, AddLong
    <2> QED
        BY <2>1, <2>2, <2>3, <2>4 DEF Flow
<1>2. CASE Loaded
    <2>1. ~isUnsat => next = Len(clauses) + 1
        BY <1>0, <1>2, ClauseFacts DEF Loaded, DatabaseType
    <2> QED
        BY <1>0, <1>2, <2>1 DEF Flow, Phase, Busy, Loading, Returned, database, Loaded
<1>3. CASE Propagated
    BY <1>0, <1>3 DEF Flow, FlagType, Phase, Busy, Loading, Returned, driver, database,
            Propagated, Return
<1>4. CASE TakeLit
    <2>1. trailPos + 1 \in DOMAIN trail /\ trailLimUnit < trailPos + 1
        BY <1>0, <1>4 DEF TakeLit, TrailType
    <2>2. trail[trailPos + 1] \in Lits
        BY <1>0, <2>1 DEF TrailType
    <2>3. todo' \in Seq(Lits)
        BY <1>0, <1>4, <2>2 DEF TakeLit, DatabaseType
    <2> QED
        BY <1>0, <1>4, <2>1, <2>3 DEF Flow, FlagType, Phase, Busy, Loading, Returned, driver,
            database, TakeLit
<1>5. CASE Imply
    <2>1. Tail(todo) \in Seq(Lits)
        BY <1>0, <1>5, HeadTailFacts DEF Imply, Flow
    <2> QED
        BY <1>0, <1>5, <2>1 DEF Flow, FlagType, Phase, Busy, Loading, Returned, driver,
            database, Imply, Return
<1>6. CASE StartWatches
    <2>1. todo' \in Seq(DOMAIN clauses) /\ kept' \in Seq(DOMAIN clauses)
        BY <1>0, <1>6, LitOnTrail DEF StartWatches, DatabaseType
    <2> QED
        BY <1>0, <1>6, <2>1 DEF Flow, FlagType, Phase, Busy, Loading, Returned, driver,
            database, StartWatches
<1>7. CASE KeepWatch \/ MoveWatch
    <2>1. /\ pc = "watch" /\ todo # <<>>
          /\ kept' = kept \/ kept' = Append(kept, Head(todo))
          /\ todo' = Tail(todo)
          /\ UNCHANGED <<clauses, next, trailPos, trailLimUnit, isUnsat, pc, caller, cubes>>
        BY <1>7 DEF KeepWatch, MoveWatch, driver
    <2>2. Head(todo) \in DOMAIN clauses /\ todo' \in Seq(DOMAIN clauses)
        BY <1>0, <2>1, HeadTailFacts DEF Flow
    <2>3. kept' \in Seq(DOMAIN clauses)
        <3>1. kept \in Seq(DOMAIN clauses)
            BY <1>0, <2>1 DEF Flow
        <3>2. Append(kept, Head(todo)) \in Seq(DOMAIN clauses)
            BY <2>2, <3>1, AppendFacts
        <3> QED
            BY <2>1, <3>1, <3>2
    <2> QED
        BY <1>0, <2>1, <2>2, <2>3 DEF Flow, Phase, Busy, Loading, Returned
<1>8. CASE Conflict \/ EndWatches
    BY <1>0, <1>8 DEF Flow, FlagType, Phase, Busy, Loading, Returned, driver, database,
            Conflict, EndWatches, Return
<1>9. CASE Fill \/ BranchTrue \/ Leaf \/ BranchFalse \/ EndSplit
    BY <1>0, <1>9 DEF Flow, FlagType, Phase, Busy, Loading, Returned, driver, database,
            Fill, BranchTrue, Leaf, BranchFalse, EndSplit
<1>10. CASE UNCHANGED vars
    BY <1>0, <1>10 DEF Flow, Phase, Busy, Loading, Returned, driver, database, vars
<1> QED
    BY <1>1, <1>2, <1>3, <1>4, <1>5, <1>6, <1>7, <1>8, <1>9, <1>10, NextCases

\* A step of propagate(), or its return: the trail grows at its end at most.
LEMMA DriverGrows ==
    ASSUME TrailType, DriverShape, FlagType, UNCHANGED <<driver, trailLimUnit>>,
           Phase' = Phase,
           UNCHANGED trail \/ \E l \in Lits : IsUndef(l) /\ trail' = Append(trail, l),
           Halving => base <= trailPos' /\ (pc' \in {"imply", "watch"} => base < trailPos')
    PROVE  DriverShape'
<1>1. ASSUME NEW c \in Seq(Lits), NEW n \in Nat, Agree(c, trail, n)
      PROVE  Agree(c, trail', n)
    BY <1>1, EnqueueFacts
<1>2. Len(trail) \in Nat /\ Len(trail') \in Nat /\ Len(trail) <= Len(trail')
    <2>1. Len(trail) \in Nat
        BY DEF TrailType
    <2>2. Len(trail') = Len(trail) \/ Len(trail') = Len(trail) + 1
        BY EnqueueFacts
    <2> QED
        BY <2>1, <2>2
<1>3. \A i \in DOMAIN trail : trail'[i] = trail[i]
    BY EnqueueFacts
<1>4. ASSUME NEW c, Based(c)
      PROVE  Based(c)'
    <2>1. c \in Seq(Lits) /\ Distinct(c) /\ Agree(c, trail, trailLimUnit) /\ trailLimUnit \in Nat
        BY <1>4 DEF Based, TrailType
    <2>2. Agree(c, trail', trailLimUnit)
        BY <1>1, <2>1
    <2> QED
        BY <2>1, <2>2 DEF Based
<1>5. /\ UNCHANGED <<cubes, cube, base, branch>>
      /\ Cubing' = Cubing /\ Halving' = Halving /\ Free' = Free
    BY DEF driver, Cubing, Halving, Free
<1>6. (\A c \in cubes' : Based(c)') /\ base' \in Nat
    BY <1>4, <1>5 DEF DriverShape
<1>7. ASSUME Cubing
      PROVE  Based(cube)' /\ Agree(cube, trail, Len(cube))'
    <2>1. Based(cube) /\ Agree(cube, trail, Len(cube)) /\ cube \in Seq(Lits) /\ Len(cube) \in Nat
        BY <1>7 DEF DriverShape, Based
    <2>2. Agree(cube, trail', Len(cube))
        BY <1>1, <2>1
    <2>3. \A c : Based(c) => Based(c)'
        BY <1>4
    <2>4. Based(cube)'
        BY <1>5, <2>1, <2>3 DEF Based
    <2> QED
        BY <1>5, <2>2, <2>4
<1>8. ASSUME Halving
      PROVE  /\ base' = Len(cube') /\ base' < Len(trail') /\ branch' \in Free'
             /\ base' <= trailPos'
             /\ trail'[base' + 1] = IF Phase' = "true" THEN branch' ELSE -branch'
             /\ pc' \in {"imply", "watch"} => base' < trailPos'
    <2>1. /\ base = Len(cube) /\ base < Len(trail) /\ branch \in Free /\ base \in Nat
          /\ trail[base + 1] = IF Phase = "true" THEN branch ELSE -branch
        BY <1>8 DEF DriverShape
    <2>2. base + 1 \in DOMAIN trail
        BY <2>1 DEF TrailType
    <2>3. base < Len(trail')
        BY <1>2, <2>1
    <2> QED
        BY <1>3, <1>5, <1>8, <2>1, <2>2, <2>3
<1> QED
    BY <1>5, <1>6, <1>7, <1>8 DEF DriverShape

LEMMA DriverStep == Shape /\ [Next]_vars => DriverShape'
<1> SUFFICES ASSUME Shape, [Next]_vars
             PROVE  DriverShape'
    OBVIOUS
<1>0. DatabaseType /\ TrailType /\ FlagType /\ Flow /\ DriverShape /\ StoredShape /\ WatchLists
    BY DEF Shape
<1>1. CASE AddSatisfied \/ AddEmpty \/ AddUnit \/ AddedUnit \/ AddBinary \/ AddLong
    <2>1. /\ pc \in {"load", "unit"} /\ pc' \in {"load", "take"} /\ (pc' = "take" => caller' = "unit")
          /\ UNCHANGED <<cubes, base>>
        BY <1>1 DEF Adding, driver, AddSatisfied, AddEmpty, AddUnit, AddedUnit, AddBinary, AddLong
    <2>2. cubes = {} /\ ~Cubing' /\ ~Halving'
        BY <1>0, <2>1 DEF Flow, Phase, Busy, Loading, Cubing, Halving
    <2> QED
        BY <1>0, <2>1, <2>2 DEF DriverShape
<1>2. CASE Loaded
    <2>1. ~Cubing' /\ ~Halving' /\ base' \in Nat
        BY <1>0, <1>2 DEF Loaded, Phase, Busy, Cubing, Halving, DriverShape
    <2>2. ASSUME NEW c \in cubes'
          PROVE  Based(c)'
        <3>1. c = trail /\ trail' = trail /\ trailLimUnit' = Len(trail)
            BY <1>2 DEF Loaded
        <3>2. trail \in Seq(Lits) /\ Distinct(trail) /\ Len(trail) \in Nat /\ Len(trail) <= Len(trail)
            BY <1>0 DEF TrailType
        <3>3. Agree(trail, trail, Len(trail))
            BY <3>2, AgreeRefl
        <3>4. c \in Seq(Lits) /\ Distinct(c) /\ Agree(c, trail', trailLimUnit')
            BY <3>1, <3>2, <3>3
        <3> QED
            BY <3>4 DEF Based
    <2> QED
        BY <2>1, <2>2 DEF DriverShape
<1>3. CASE Propagated \/ TakeLit \/ StartWatches \/ MoveWatch \/ Conflict \/ EndWatches
    <2>1. UNCHANGED <<driver, trailLimUnit, trail, caller>> /\ Busy
        BY <1>3 DEF Propagated, TakeLit, StartWatches, MoveWatch, Conflict, EndWatches, Busy
    <2>2. pc' = caller \/ pc' \in {"take", "imply", "watch"}
        BY <1>3 DEF Propagated, TakeLit, StartWatches, MoveWatch, Conflict, EndWatches, Return
    <2>3. Phase' = Phase
        BY <1>0, <2>1, <2>2 DEF Phase, Busy, FlagType
    <2>4. ASSUME Halving
          PROVE  base <= trailPos' /\ (pc' \in {"imply", "watch"} => base < trailPos')
        <3>1. /\ base \in Nat /\ base <= trailPos /\ trailPos \in Nat
              /\ (pc \in {"imply", "watch"} => base < trailPos)
            BY <1>0, <2>4 DEF DriverShape, TrailType
        <3>2. trailPos' = trailPos \/ trailPos' = trailPos + 1
            BY <1>3 DEF Propagated, TakeLit, StartWatches, MoveWatch, Conflict, EndWatches
        <3>3. pc' \in {"imply", "watch"} => pc \in {"imply", "watch"} \/ trailPos' = trailPos + 1
            BY <1>0, <1>3 DEF Propagated, TakeLit, StartWatches, MoveWatch, Conflict, EndWatches,
                Return, FlagType
        <3> QED
            BY <3>1, <3>2, <3>3
    <2> QED
        BY <1>0, <2>1, <2>3, <2>4, DriverGrows
<1>4. CASE Imply \/ KeepWatch
    <2>1. UNCHANGED <<driver, trailLimUnit, trailPos, caller>> /\ Busy /\ pc \in {"imply", "watch"}
        BY <1>4 DEF Imply, KeepWatch, Busy
    <2>2. pc' = caller \/ pc' = pc
        BY <1>4 DEF Imply, KeepWatch, Return
    <2>3. Phase' = Phase
        BY <1>0, <2>1, <2>2 DEF Phase, Busy, FlagType
    <2>4. Halving => base <= trailPos' /\ (pc' \in {"imply", "watch"} => base < trailPos')
        BY <1>0, <2>1 DEF DriverShape
    <2>5. UNCHANGED trail \/ \E l \in Lits : IsUndef(l) /\ trail' = Append(trail, l)
        BY <1>4, TrailGrows
    <2> QED
        BY <1>0, <2>1, <2>3, <2>4, <2>5, DriverGrows
<1>5. CASE Fill
    <2>1. PICK c \in cubes : cube' = c /\ cubes' = cubes \ {c} /\ trail' = Refill(c)
        BY <1>5 DEF Fill
    <2>2. trail' = c /\ Based(c)
        BY <1>0, <2>1, RefillIsCube DEF TrailType, DriverShape
    <2>3. UNCHANGED <<trailLimUnit, base>> /\ Phase' = "filled"
        BY <1>5 DEF Fill, Phase, Busy
    <2>4. Cubing' /\ ~Halving'
        BY <2>3 DEF Cubing, Halving
    <2>5. trailLimUnit \in Nat /\ c \in Seq(Lits) /\ Agree(c, trail, trailLimUnit)
        BY <1>0, <2>2 DEF TrailType, Based
    <2>6. ASSUME NEW d, Based(d)
          PROVE  Based(d)'
        <3>1. d \in Seq(Lits) /\ Distinct(d) /\ Agree(d, trail, trailLimUnit)
            BY <2>6 DEF Based
        <3>2. Agree(trail, c, trailLimUnit)
            BY <2>5 DEF Agree
        <3>3. Agree(d, trail', trailLimUnit')
            BY <2>2, <2>3, <3>1, <3>2, AgreeTrans
        <3> QED
            BY <3>1, <3>3 DEF Based
    <2>7. Based(cube)'
        <3>1. c \in Seq(Lits) /\ Distinct(c) /\ Agree(c, trail', trailLimUnit')
            BY <2>2, <2>6 DEF Based
        <3> QED
            BY <2>1, <3>1 DEF Based
    <2>8. Agree(cube, trail, Len(cube))'
        <3>1. Len(c) \in Nat /\ Len(c) <= Len(c)
            BY <2>5
        <3>2. Agree(c, c, Len(c))
            BY <2>5, <3>1, AgreeRefl
        <3> QED
            BY <2>1, <2>2, <3>2
    <2>9. \A d \in cubes' : Based(d)'
        BY <1>0, <2>1, <2>6 DEF DriverShape
    <2> QED
        BY <1>0, <2>3, <2>4, <2>7, <2>8, <2>9 DEF DriverShape
<1>6. CASE BranchTrue
    <2>1. PICK v \in Free : branch' = v /\ trail' = Append(trail, v)
        BY <1>6 DEF BranchTrue
    <2>2. /\ UNCHANGED <<trailPos, trailLimUnit, cubes, cube>> /\ base' = Len(trail)
          /\ pc = "filled" /\ result /\ Len(trail) = Len(cube) /\ pc' = "take" /\ caller' = "true"
        BY <1>6 DEF BranchTrue
    <2>3. Cubing /\ Cubing' /\ Halving' /\ Phase' = "true"
        BY <2>2 DEF Cubing, Halving, Phase, Busy
    <2>4. trailPos = Len(trail) /\ Len(trail) \in Nat /\ trailLimUnit \in Nat /\ trail \in Seq(Lits)
        BY <1>0, <2>2 DEF Flow, Returned, TrailType
    <2>5. trail' # trail
        <3>1. Len(Append(trail, v)) = Len(trail) + 1
            BY <2>4
        <3> QED
            BY <2>1, <2>4, <3>1
    <2>6. v \in Lits /\ IsUndef(v)
        <3>1. PICK l \in Lits : IsUndef(l) /\ trail' = Append(trail, l)
            BY <1>6, <2>5, TrailGrows
        <3>2. v \in Lits
            BY PropagatorAssumption DEF Free, Lits, Literals
        <3>3. v = l
            <4>1. Append(trail, v)[Len(trail) + 1] = v
                BY <2>4, <3>2, AppendFacts
            <4>2. Append(trail, l)[Len(trail) + 1] = l
                BY <2>4, AppendFacts
            <4> QED
                BY <2>1, <3>1, <4>1, <4>2
        <3> QED
            BY <3>1, <3>3
    <2>7. /\ Len(trail') = Len(trail) + 1 /\ trail'[Len(trail) + 1] = v
          /\ \A c \in Seq(Lits), n \in Nat : Agree(c, trail, n) => Agree(c, trail', n)
        BY <1>0, <2>1, <2>6, EnqueueFacts
    <2>8. ASSUME NEW d, Based(d)
          PROVE  Based(d)'
        BY <2>2, <2>4, <2>7, <2>8 DEF Based
    <2>9. Based(cube) /\ Agree(cube, trail, Len(cube)) /\ cube \in Seq(Lits) /\ Len(cube) \in Nat
        BY <1>0, <2>3 DEF DriverShape, Based
    <2>10. Based(cube)' /\ Agree(cube, trail, Len(cube))'
        <3>1. Agree(cube, trail', Len(cube)) /\ Agree(cube, trail', trailLimUnit)
            BY <2>4, <2>7, <2>9 DEF Based
        <3> QED
            BY <2>2, <2>9, <3>1 DEF Based
    <2>11. \A c \in cubes' : Based(c)'
        BY <1>0, <2>2, <2>8 DEF DriverShape
    <2>12. v \in Free'
        BY <2>2 DEF Free
    <2>13. base' < Len(trail') /\ base' <= trailPos' /\ base' \in Nat
        BY <2>2, <2>4, <2>7
    <2> QED
        BY <2>1, <2>2, <2>3, <2>7, <2>10, <2>11, <2>12, <2>13 DEF DriverShape
<1>7. CASE BranchFalse
    <2> DEFINE t == SubSeq(trail, 1, base)
    <2>1. /\ pc = "true" /\ pc' = "take" /\ caller' = "false" /\ trailPos' = base
          /\ trail' = Append(t, -branch) /\ UNCHANGED <<trailLimUnit, cube, base, branch>>
          /\ cubes' \subseteq cubes \cup {trail}
        BY <1>7 DEF BranchFalse
    <2>2. Halving /\ Cubing /\ Halving' /\ Cubing' /\ Phase' = "false"
        BY <2>1 DEF Halving, Cubing, Phase, Busy
    <2>3. /\ base \in Nat /\ base < Len(trail) /\ base = Len(cube) /\ branch \in Free
          /\ cube \in Seq(Lits) /\ Based(cube) /\ Agree(cube, trail, base)
          /\ trailLimUnit <= base /\ trailLimUnit \in Nat
        BY <1>0, <2>2 DEF DriverShape, Based, Agree, TrailType
    <2>4. -branch \in Lits /\ trail \in Seq(Lits) /\ Distinct(trail)
        <3>1. branch \in Lits
            BY <2>3, PropagatorAssumption DEF Free, Lits, Literals
        <3> QED
            BY <1>0, <3>1, LitFacts DEF TrailType
    <2>5. t \in Seq(Lits) /\ Len(t) = base /\ Agree(trail, t, base)
        BY <2>3, <2>4, CutFacts
    <2> HIDE DEF t
    <2>6. /\ trail' \in Seq(Lits) /\ Len(trail') = base + 1 /\ trail'[base + 1] = -branch
        BY <2>1, <2>4, <2>5, AppendFacts
    <2>7. Agree(trail, trail', base)
        BY <2>1, <2>3, <2>4, <2>5, AgreeAppend
    <2>8. Agree(trail, trail', trailLimUnit)
        BY <2>3, <2>4, <2>6, <2>7, AgreeLess
    <2>9. ASSUME NEW d, Based(d)
          PROVE  Based(d)'
        <3>1. d \in Seq(Lits) /\ Distinct(d) /\ Agree(d, trail, trailLimUnit)
            BY <2>9 DEF Based
        <3>2. Agree(d, trail', trailLimUnit')
            BY <2>1, <2>8, <3>1, AgreeTrans
        <3> QED
            BY <3>1, <3>2 DEF Based
    <2>10. Based(trail)
        <3>1. Agree(trail, trail, trailLimUnit)
            BY <1>0, AgreeRefl DEF TrailType
        <3> QED
            BY <2>4, <3>1 DEF Based
    <2>11. \A c \in cubes' : Based(c)'
        <3> SUFFICES ASSUME NEW c \in cubes'
                     PROVE  Based(c)'
            OBVIOUS
        <3>1. Based(c)
            BY <1>0, <2>1, <2>10 DEF DriverShape
        <3> QED
            BY <2>9, <3>1
    <2>12. Based(cube)' /\ Agree(cube, trail, Len(cube))'
        <3>1. Agree(cube, trail', base) /\ Agree(cube, trail', trailLimUnit)
            BY <2>3, <2>7, <2>8, AgreeTrans DEF Based
        <3> QED
            BY <2>1, <2>3, <3>1 DEF Based
    <2>13. branch' \in Free'
        BY <2>1, <2>3 DEF Free
    <2>14. base' < Len(trail') /\ base' <= trailPos'
        BY <2>1, <2>3, <2>6
    <2> QED
        BY <2>1, <2>2, <2>3, <2>6, <2>11, <2>12, <2>13, <2>14 DEF DriverShape
<1>8. CASE Leaf \/ EndSplit
    <2>1. /\ UNCHANGED <<trail, trailLimUnit, base>> /\ cubes' \subseteq cubes \cup {trail}
          /\ pc' = "idle"
        BY <1>8 DEF Leaf, EndSplit, driver
    <2>2. ~Cubing' /\ ~Halving'
        BY <2>1 DEF Cubing, Halving, Phase, Busy
    <2>3. Based(trail)
        <3>1. Agree(trail, trail, trailLimUnit)
            BY <1>0, AgreeRefl DEF TrailType
        <3> QED
            BY <1>0, <3>1 DEF Based, TrailType
    <2>4. \A c \in cubes' : Based(c)
        BY <1>0, <2>1, <2>3 DEF DriverShape
    <2> QED
        BY <1>0, <2>1, <2>2, <2>4 DEF DriverShape, Based
<1>9. CASE UNCHANGED vars
    <2>1. UNCHANGED <<driver, trailLimUnit, trail, trailPos, pc>> /\ Phase' = Phase
        BY <1>9 DEF vars, Phase, Busy
    <2>2. Halving => base <= trailPos' /\ (pc' \in {"imply", "watch"} => base < trailPos')
        BY <1>0, <2>1 DEF DriverShape
    <2> QED
        BY <1>0, <2>1, <2>2, DriverGrows
<1> QED
    BY <1>1, <1>2, <1>3, <1>4, <1>5, <1>6, <1>7, <1>8, <1>9, NextCases

\* Turning a clause leaves its literals and its watches as they are.
LEMMA TurnFacts ==
    ASSUME DatabaseType, TrailType, Flow, StoredShape, WatchLists,
           pc = "watch", todo # <<>>, UNCHANGED clauses,
           stored' = [stored EXCEPT ![Head(todo)] = Turned(stored[Head(todo)])]
    PROVE  /\ \A i \in DOMAIN clauses :
                 /\ stored'[i] # <<>> <=> stored[i] # <<>>
                 /\ Range(stored'[i]) = Range(stored[i])
                 /\ \A d, S : Drawn(stored[i], d, S) => Drawn(stored'[i], d, S)
                 /\ Len(stored'[i]) = Len(stored[i])
                 /\ \A l : WatchCount(i, l)' = WatchCount(i, l)
           /\ \A l : Watching(l)' = Watching(l)
<1> DEFINE h == Head(todo)
           c == Turned(stored[h])
<1>1. /\ h \in DOMAIN clauses /\ stored[h] # <<>> /\ c \in Seq(Lits)
      /\ Len(c) = Len(stored[h]) /\ Len(c) >= 3 /\ Range(c) = Range(stored[h])
      /\ \A d, S : Drawn(stored[h], d, S) => Drawn(c, d, S)
      /\ \/ c[1] = stored[h][1] /\ c[2] = stored[h][2]
         \/ c[1] = stored[h][2] /\ c[2] = stored[h][1]
    BY TurnedFacts
<1>2. c # <<>>
    BY <1>1
<1>3. DOMAIN stored = DOMAIN clauses
    BY DEF DatabaseType
<1>4. stored'[h] = c /\ \A i \in DOMAIN clauses : i # h => stored'[i] = stored[i]
    BY <1>1, <1>3
<1> HIDE DEF h, c
<1>5. \A i \in DOMAIN clauses :
          /\ stored'[i] # <<>> <=> stored[i] # <<>>
          /\ Range(stored'[i]) = Range(stored[i])
          /\ \A d, S : Drawn(stored[i], d, S) => Drawn(stored'[i], d, S)
          /\ Len(stored'[i]) = Len(stored[i])
    BY <1>1, <1>2, <1>4
<1>6. \A i \in DOMAIN clauses :
          \/ stored'[i][1] = stored[i][1] /\ stored'[i][2] = stored[i][2]
          \/ stored'[i][1] = stored[i][2] /\ stored'[i][2] = stored[i][1]
    BY <1>1, <1>4
<1>7. ASSUME NEW l
      PROVE  Watching(l)' = Watching(l)
    <2>1. \A i \in DOMAIN clauses :
              (stored'[i] # <<>> /\ l \in {stored'[i][1], stored'[i][2]})
                <=> (stored[i] # <<>> /\ l \in {stored[i][1], stored[i][2]})
        BY <1>5, <1>6
    <2> QED
        BY <2>1, Zenon DEF Watching
<1>8. ASSUME NEW i \in DOMAIN clauses, NEW l
      PROVE  WatchCount(i, l)' = WatchCount(i, l)
    <2>1. stored'[i] # <<>> <=> stored[i] # <<>>
        BY <1>5
    <2> QED
        BY <1>6, <2>1 DEF WatchCount, One
<1> QED
    BY <1>5, <1>7, <1>8

\* Moving a watch takes it from the literal that has become false to one
\* without a value and leaves the literals as they are.
LEMMA MoveFacts ==
    ASSUME DatabaseType, TrailType, Flow, StoredShape, WatchLists, MoveWatch
    PROVE  LET h == Head(todo)
               c == Turned(stored[h])
               x == c[NewWatch(c)]
           IN  /\ h \in DOMAIN clauses /\ h \in Range(todo)
               /\ pc = "watch" /\ todo # <<>>
               /\ x \in Lits /\ IsUndef(x) /\ x # -Lit
               /\ \A i \in DOMAIN clauses :
                     /\ stored'[i] # <<>> <=> stored[i] # <<>>
                     /\ Range(stored'[i]) = Range(stored[i])
                     /\ \A d, S : Drawn(stored[i], d, S) => Drawn(stored'[i], d, S)
                     /\ Len(stored'[i]) = Len(stored[i])
                     /\ \A l : WatchCount(i, l)' = WatchCount(i, l)
                           - One(i = h /\ l = -Lit) + One(i = h /\ l = x)
               /\ \A l : l # x => Watching(l)' \subseteq Watching(l)
<1> DEFINE h == Head(todo)
           s == stored[h]
           c == Turned(s)
           p == NewWatch(c)
           d == Swap(c, 1, p)
<1>1. /\ pc = "watch" /\ todo # <<>> /\ p # 0 /\ IsUndef(c[p])
      /\ stored' = [stored EXCEPT ![h] = d] /\ UNCHANGED clauses
    BY DEF MoveWatch
<1>2. /\ h \in DOMAIN clauses /\ h \in Range(todo) /\ s # <<>> /\ c \in Seq(Lits)
      /\ Len(c) = Len(s) /\ Len(c) >= 3 /\ Range(c) = Range(s)
      /\ \A e, S : Drawn(s, e, S) => Drawn(c, e, S)
      /\ c[1] = -Lit
      /\ (c[1] = s[1] /\ c[2] = s[2]) \/ (c[1] = s[2] /\ c[2] = s[1])
      /\ DOMAIN c = 1..Len(c) /\ Len(c) \in Nat
      /\ \A i \in DOMAIN c : c[i] \in Lits
    BY <1>1, TurnedFacts
<1>3. p \in 3..Len(c)
    BY <1>1, <1>2, NewWatchFacts
<1>4. DOMAIN stored = DOMAIN clauses
    BY DEF DatabaseType
<1> HIDE DEF h, s, c, p
<1>5. 1 \in DOMAIN c /\ 2 \in DOMAIN c /\ p \in DOMAIN c /\ p # 1 /\ p # 2
    BY <1>2, <1>3
<1>6. /\ d \in Seq(Lits) /\ Len(d) = Len(c) /\ Range(d) = Range(c)
      /\ d[1] = c[p] /\ d[2] = c[2]
    <2> HIDE DEF d
    <2>1. d = Swap(c, 1, p)
        BY DEF d
    <2>2. /\ Swap(c, 1, p) \in Seq(Lits) /\ Len(Swap(c, 1, p)) = Len(c)
          /\ Swap(c, 1, p)[1] = c[p] /\ Range(Swap(c, 1, p)) = Range(c)
          /\ \A k \in DOMAIN c : k # 1 /\ k # p => Swap(c, 1, p)[k] = c[k]
        BY <1>2, <1>5, SwapFacts
    <2>3. Swap(c, 1, p)[2] = c[2]
        BY <1>5, <2>2
    <2> QED
        BY <2>1, <2>2, <2>3
<1>7. \A e, S : Drawn(s, e, S) => Drawn(d, e, S)
    BY <1>2, <1>5, DrawnSwap
<1>8. d # <<>>
    BY <1>2, <1>6
<1> HIDE DEF d
<1>9. stored'[h] = d /\ \A i \in DOMAIN clauses : i # h => stored'[i] = stored[i]
    BY <1>1, <1>2, <1>4 DEF s
<1>10. c[p] \in Lits /\ c[p] # -Lit
    <2>1. Lit \in Lits /\ Lit \in Range(trail) /\ -(-Lit) = Lit
        BY <1>1, LitOnTrail, LitFacts
    <2>2. c[p] = -Lit => IsFalse(c[p])
        BY <2>1 DEF IsFalse
    <2> QED
        BY <1>1, <1>2, <1>5, <2>2 DEF IsUndef
<1>11. \A i \in DOMAIN clauses :
           /\ stored'[i] # <<>> <=> stored[i] # <<>>
           /\ Range(stored'[i]) = Range(stored[i])
           /\ \A e, S : Drawn(stored[i], e, S) => Drawn(stored'[i], e, S)
           /\ Len(stored'[i]) = Len(stored[i])
    BY <1>2, <1>6, <1>7, <1>8, <1>9 DEF s
<1>12. ASSUME NEW i \in DOMAIN clauses, NEW l
       PROVE  WatchCount(i, l)' = WatchCount(i, l) - One(i = h /\ l = c[1]) + One(i = h /\ l = c[p])
    <2>1. CASE i # h
        BY <1>9, <2>1 DEF WatchCount, One
    <2>2. CASE i = h
        <3>1. WatchCount(i, l)' = One(c[p] = l) + One(c[2] = l)
            BY <1>6, <1>8, <1>9, <2>2 DEF WatchCount
        <3>2. WatchCount(i, l) = One(c[1] = l) + One(c[2] = l)
            BY <1>2, <2>2 DEF WatchCount, One, s
        <3> QED
            BY <2>2, <3>1, <3>2 DEF One
    <2> QED
        BY <2>1, <2>2
<1>13. ASSUME NEW l, l # c[p]
       PROVE  Watching(l)' \subseteq Watching(l)
    <2> SUFFICES ASSUME NEW i \in DOMAIN clauses, stored'[i] # <<>>,
                        l \in {stored'[i][1], stored'[i][2]}
                 PROVE  stored[i] # <<>> /\ l \in {stored[i][1], stored[i][2]}
        BY <1>1 DEF Watching
    <2>1. CASE i # h
        BY <1>9, <2>1
    <2>2. CASE i = h
        <3>1. l = c[2]
            BY <1>6, <1>9, <1>13, <2>2
        <3> QED
            BY <1>2, <2>2, <3>1 DEF s
    <2> QED
        BY <2>1, <2>2
<1>14. c[1] = -Lit
    BY <1>2
<1> QED
    BY <1>1, <1>2, <1>10, <1>11, <1>12, <1>13, <1>14 DEF h, s, c, p

\* Adding a long clause.
LEMMA AddLongFacts ==
    ASSUME Shape, AddLong
    PROVE  LET r == Reduced(clauses[next])
           IN  /\ next \in DOMAIN clauses /\ stored[next] = <<>>
               /\ r \in Seq(Lits) /\ Len(r) >= 3
               /\ Drawn(r, clauses[next], Range(trail))
               /\ r[1] \in Lits /\ r[2] \in Lits
               /\ IsUndef(r[1]) /\ IsUndef(r[2])
               /\ stored'[next] = r
               /\ \A i \in DOMAIN clauses : i # next => stored'[i] = stored[i]
               /\ \A i \in DOMAIN clauses : \A l :
                     WatchCount(i, l)' = WatchCount(i, l)
                         + One(i = next /\ l = r[1]) + One(i = next /\ l = r[2])
               /\ \A l : l \notin {r[1], r[2]} => Watching(l)' \subseteq Watching(l)
               /\ \A l : next \notin Watching(l)
<1> DEFINE r == Reduced(clauses[next])
           k == next
<1>0. DatabaseType /\ StoredShape
    BY DEF Shape
<1>1. /\ Adding /\ Live(clauses[k]) /\ Len(r) > 2 /\ stored' = [stored EXCEPT ![k] = r]
      /\ UNCHANGED clauses
    BY DEF AddLong
<1>2. /\ k \in DOMAIN clauses /\ r \in Seq(Lits) /\ DOMAIN r = 1..Len(r)
      /\ Len(r) \in Nat /\ Drawn(r, clauses[k], Range(trail))
      /\ \A j \in DOMAIN r : IsUndef(r[j]) /\ r[j] \in Lits
    BY <1>0, <1>1, ReducedFacts
<1>3. stored[k] = <<>>
    <2>1. k \in Int
        BY <1>0 DEF DatabaseType
    <2> QED
        BY <1>0, <1>2, <2>1 DEF StoredShape
<1> HIDE DEF r, k
<1>4. 1 \in DOMAIN r /\ 2 \in DOMAIN r /\ Len(r) >= 3
    BY <1>1, <1>2
<1>5. r[1] \in Lits /\ r[2] \in Lits /\ IsUndef(r[1]) /\ IsUndef(r[2])
    BY <1>2, <1>4
<1>6. stored'[k] = r /\ \A i \in DOMAIN clauses : i # k => stored'[i] = stored[i]
    BY <1>0, <1>1, <1>2 DEF DatabaseType
<1>7. r # <<>>
    BY <1>2, <1>4
<1>8. \A l : k \notin Watching(l)
    BY <1>3 DEF Watching
<1>9. ASSUME NEW i \in DOMAIN clauses, NEW l
      PROVE  WatchCount(i, l)' = WatchCount(i, l)
                 + One(i = k /\ l = r[1]) + One(i = k /\ l = r[2])
    <2>1. CASE i # k
        BY <1>6, <2>1 DEF WatchCount, One
    <2>2. CASE i = k
        BY <1>3, <1>6, <1>7, <2>2 DEF WatchCount, One
    <2> QED
        BY <2>1, <2>2
<1>10. ASSUME NEW l, l \notin {r[1], r[2]}
       PROVE  Watching(l)' \subseteq Watching(l)
    <2>1. \A i \in DOMAIN clauses : i # k => (i \in Watching(l)' <=> i \in Watching(l))
        BY <1>1, <1>6 DEF Watching
    <2>2. k \notin Watching(l)' /\ Watching(l)' \subseteq DOMAIN clauses
        BY <1>1, <1>6, <1>10 DEF Watching
    <2> QED
        BY <2>1, <2>2
<1> QED
    BY <1>2, <1>3, <1>4, <1>5, <1>6, <1>8, <1>9, <1>10 DEF r, k

LEMMA StoredStep == Shape /\ [Next]_vars => StoredShape'
<1> SUFFICES ASSUME Shape, [Next]_vars
             PROVE  StoredShape'
    OBVIOUS
<1>0. DatabaseType /\ TrailType /\ FlagType /\ Flow /\ DriverShape /\ StoredShape /\ WatchLists
    BY DEF Shape
<1>1. UNCHANGED clauses
    BY NextCases DEF AddSatisfied, AddEmpty, AddUnit, AddedUnit, AddBinary, AddLong, Loaded,
        Propagated, TakeLit, Imply, StartWatches, KeepWatch, MoveWatch, Conflict, EndWatches,
        Fill, BranchTrue, Leaf, BranchFalse, EndSplit, vars, database
<1>2. next \in Nat /\ next' \in Nat /\ next <= next'
    <2>1. next' = next \/ next' = next + 1
        BY NextCases DEF Adding, AddSatisfied, AddEmpty, AddUnit, AddedUnit, AddBinary, AddLong,
            Loaded, Propagated, TakeLit, Imply, StartWatches, KeepWatch, MoveWatch, Conflict,
            EndWatches, Fill, BranchTrue, Leaf, BranchFalse, EndSplit, vars, database
    <2> QED
        BY <1>0, <2>1 DEF DatabaseType
<1>3. DOMAIN clauses \subseteq Nat
    BY <1>0, ClauseFacts DEF DatabaseType
<1>4. ASSUME \A i \in DOMAIN clauses :
                 /\ stored'[i] # <<>> <=> stored[i] # <<>>
                 /\ \A d, S : Drawn(stored[i], d, S) => Drawn(stored'[i], d, S)
                 /\ Len(stored'[i]) = Len(stored[i])
      PROVE  StoredShape'
    <2> SUFFICES ASSUME NEW i \in DOMAIN clauses, stored'[i] # <<>>
                 PROVE  /\ i < next' /\ Len(stored'[i]) >= 3
                        /\ Drawn(stored'[i], clauses[i], Lits)
        BY <1>1 DEF StoredShape
    <2>1. i < next /\ Len(stored[i]) >= 3 /\ Drawn(stored[i], clauses[i], Lits)
        BY <1>0, <1>4 DEF StoredShape
    <2>2. i < next'
        BY <1>2, <1>3, <2>1
    <2> QED
        BY <1>4, <2>1, <2>2
<1>5. UNCHANGED stored => StoredShape'
    BY <1>4
<1>6. CASE AddLong
    <2> SUFFICES ASSUME NEW i \in DOMAIN clauses, stored'[i] # <<>>
                 PROVE  /\ i < next' /\ Len(stored'[i]) >= 3
                        /\ Drawn(stored'[i], clauses[i], Lits)
        BY <1>1 DEF StoredShape
    <2>1. CASE i = next
        <3>1. next < next'
            BY <1>0, <1>6 DEF DatabaseType, AddLong, Adding
        <3>2. /\ stored'[next] = Reduced(clauses[next]) /\ Len(Reduced(clauses[next])) >= 3
              /\ Drawn(Reduced(clauses[next]), clauses[next], Range(trail))
            BY <1>6, AddLongFacts
        <3>3. Range(trail) \subseteq Lits
            BY <1>0 DEF TrailType, Range
        <3>4. Drawn(Reduced(clauses[next]), clauses[next], Lits)
            BY <3>2, <3>3, DrawnMore
        <3> QED
            BY <2>1, <3>1, <3>2, <3>4
    <2>2. CASE i # next
        <3>1. stored'[i] = stored[i]
            BY <1>6, <2>2, AddLongFacts
        <3>2. i < next /\ Len(stored[i]) >= 3 /\ Drawn(stored[i], clauses[i], Lits)
            BY <1>0, <3>1 DEF StoredShape
        <3>3. i < next'
            BY <1>2, <1>3, <3>2
        <3> QED
            BY <3>1, <3>2, <3>3
    <2> QED
        BY <2>1, <2>2
<1>7. CASE KeepWatch \/ Conflict
    <2>1. /\ pc = "watch" /\ todo # <<>>
          /\ stored' = [stored EXCEPT ![Head(todo)] = Turned(stored[Head(todo)])]
        BY <1>7 DEF KeepWatch, Conflict
    <2> QED
        BY <1>0, <1>1, <1>4, <2>1, TurnFacts
<1>8. CASE MoveWatch
    BY <1>0, <1>4, <1>8, MoveFacts
<1> QED
    <2>1. CASE AddSatisfied \/ AddEmpty \/ AddUnit \/ AddedUnit \/ AddBinary \/ Loaded
        BY <1>5, <2>1 DEF AddSatisfied, AddEmpty, AddUnit, AddedUnit, AddBinary, Loaded, database
    <2>2. CASE Propagated \/ TakeLit \/ Imply \/ StartWatches \/ EndWatches
        BY <1>5, <2>2 DEF Propagated, TakeLit, Imply, StartWatches, EndWatches, database
    <2>3. CASE Fill \/ BranchTrue \/ Leaf \/ BranchFalse \/ EndSplit \/ UNCHANGED vars
        BY <1>5, <2>3 DEF Fill, BranchTrue, Leaf, BranchFalse, EndSplit, vars, database
    <2> QED
        BY <1>6, <1>7, <1>8, <2>1, <2>2, <2>3, NextCases

LEMMA WatchStep == Shape /\ [Next]_vars => WatchLists'
<1> SUFFICES ASSUME Shape, [Next]_vars
             PROVE  WatchLists'
    OBVIOUS
<1>0. DatabaseType /\ TrailType /\ FlagType /\ Flow /\ DriverShape /\ StoredShape /\ WatchLists
    BY DEF Shape
<1>1. ASSUME UNCHANGED stored
      PROVE  \A i, l : WatchCount(i, l)' = WatchCount(i, l)
    BY <1>1 DEF WatchCount
<1>2. ASSUME pc # "watch", pc' # "watch", UNCHANGED <<clauses, stored, watches>>
      PROVE  WatchLists'
    BY <1>0, <1>1, <1>2 DEF WatchLists
<1>3. \A l \in Lits : watches[l] \in Seq(DOMAIN clauses) /\ DOMAIN watches = Lits
    BY <1>0 DEF DatabaseType
<1>4. CASE AddLong
    <2> DEFINE a == Reduced(clauses[next])[1]
               b == Reduced(clauses[next])[2]
               once == [watches EXCEPT ![a] = Append(@, next)]
    <2>1. /\ pc = "load" /\ pc' = "load" /\ watches' = [once EXCEPT ![b] = Append(@, next)]
          /\ UNCHANGED clauses
        BY <1>4 DEF AddLong, Adding
    <2>2. /\ next \in DOMAIN clauses /\ a \in Lits /\ b \in Lits
          /\ \A i \in DOMAIN clauses : \A l :
                WatchCount(i, l)' = WatchCount(i, l)
                    + One(i = next /\ l = a) + One(i = next /\ l = b)
        BY <1>4, AddLongFacts
    <2> HIDE DEF a, b
    <2> SUFFICES ASSUME NEW l \in Lits, NEW i \in DOMAIN clauses
                 PROVE  WatchCount(i, l)' = Occ(watches'[l], i)
        BY <2>1 DEF WatchLists
    <2>3. WatchCount(i, l) = Occ(watches[l], i)
        BY <1>0, <2>1 DEF WatchLists
    <2>4. /\ once[l] \in Seq(DOMAIN clauses)
          /\ once[l] = IF l = a THEN Append(watches[l], next) ELSE watches[l]
        <3>1. once[l] = IF l = a THEN Append(watches[l], next) ELSE watches[l]
            BY <1>3
        <3>2. Append(watches[l], next) \in Seq(DOMAIN clauses)
            BY <1>3, <2>2, AppendProperties
        <3> QED
            BY <1>3, <3>1, <3>2
    <2>5. watches'[l] = IF l = b THEN Append(once[l], next) ELSE once[l]
        BY <1>3, <2>1, <2>2
    <2>6. Occ(once[l], i) = Occ(watches[l], i) + One(i = next /\ l = a)
        <3>1. Occ(Append(watches[l], next), i) = Occ(watches[l], i) + One(next = i)
            BY <1>3, <2>2, OccAppend
        <3>2. Occ(watches[l], i) \in Nat
            BY <1>3, OccFacts
        <3> QED
            BY <2>4, <3>1, <3>2 DEF One
    <2>7. Occ(watches'[l], i) = Occ(once[l], i) + One(i = next /\ l = b)
        <3> HIDE DEF once
        <3>1. Occ(Append(once[l], next), i) = Occ(once[l], i) + One(next = i)
            BY <2>2, <2>4, OccAppend
        <3>2. Occ(once[l], i) \in Nat
            BY <2>4, OccFacts
        <3> QED
            BY <2>5, <3>1, <3>2 DEF One
    <2> QED
        BY <2>2, <2>3, <2>6, <2>7
<1>5. CASE StartWatches
    <2>1. /\ pc = "imply" /\ pc' = "watch" /\ todo' = watches[-Lit] /\ kept' = <<>>
          /\ UNCHANGED <<clauses, stored, watches>> /\ Lit' = Lit
        BY <1>5 DEF StartWatches, database, Lit
    <2> SUFFICES ASSUME NEW l \in Lits, NEW i \in DOMAIN clauses
                 PROVE  WatchCount(i, l)' = IF l = -Lit THEN Occ(kept', i) + Occ(todo', i)
                                                       ELSE Occ(watches'[l], i)
        BY <2>1 DEF WatchLists
    <2>2. WatchCount(i, l)' = Occ(watches[l], i)
        BY <1>0, <1>1, <2>1 DEF WatchLists
    <2>3. Occ(kept', i) = 0
        BY <2>1, OccEmpty
    <2>4. Occ(watches[l], i) \in Nat
        BY <1>3, OccFacts
    <2> QED
        BY <2>1, <2>2, <2>3, <2>4
<1> DEFINE h == Head(todo)
           L == -Lit
<1>6. ASSUME pc = "watch"
      PROVE  /\ L \in Lits /\ kept \in Seq(DOMAIN clauses) /\ todo \in Seq(DOMAIN clauses)
             /\ \A i : Occ(kept, i) \in Nat /\ Occ(todo, i) \in Nat
             /\ \A i \in DOMAIN clauses : WatchCount(i, L) = Occ(kept, i) + Occ(todo, i)
             /\ \A l \in Lits : \A i \in DOMAIN clauses :
                   l # L => WatchCount(i, l) = Occ(watches[l], i)
    <2>1. L \in Lits
        BY <1>0, <1>6, LitOnTrail
    <2>2. kept \in Seq(DOMAIN clauses) /\ todo \in Seq(DOMAIN clauses)
        BY <1>0, <1>6 DEF Flow
    <2>3. \A i : Occ(kept, i) \in Nat /\ Occ(todo, i) \in Nat
        BY <2>2, OccFacts
    <2> QED
        BY <1>0, <1>6, <2>1, <2>2, <2>3 DEF WatchLists
<1>7. ASSUME pc = "watch", todo # <<>>
      PROVE  /\ h \in DOMAIN clauses /\ Tail(todo) \in Seq(DOMAIN clauses)
             /\ \A i : Occ(Tail(todo), i) \in Nat /\ Occ(todo, i) = One(h = i) + Occ(Tail(todo), i)
             /\ \A i : Occ(Append(kept, h), i) = Occ(kept, i) + One(h = i)
    <2>1. h \in DOMAIN clauses /\ Tail(todo) \in Seq(DOMAIN clauses)
        BY <1>6, <1>7, HeadTailFacts
    <2>2. \A i : Occ(Tail(todo), i) \in Nat
        BY <2>1, OccFacts
    <2>3. \A i : Occ(todo, i) = One(h = i) + Occ(Tail(todo), i)
        BY <1>6, <1>7, OccHeadTail
    <2>4. \A i : Occ(Append(kept, h), i) = Occ(kept, i) + One(h = i)
        BY <1>6, <1>7, <2>1, OccAppend
    <2> QED
        BY <2>1, <2>2, <2>3, <2>4
<1>8. CASE KeepWatch
    <2>1. /\ pc = "watch" /\ pc' = "watch" /\ todo # <<>> /\ UNCHANGED <<clauses, watches>>
          /\ kept' = Append(kept, h) /\ todo' = Tail(todo)
          /\ stored' = [stored EXCEPT ![h] = Turned(stored[h])]
        BY <1>8 DEF KeepWatch
    <2>2. Lit' = Lit
        <3>1. trail'[trailPos'] = trail[trailPos]
            <4>1. UNCHANGED trail \/ \E l \in Lits : IsUndef(l) /\ trail' = Append(trail, l)
                BY <1>8, TrailGrows
            <4>2. UNCHANGED trailPos /\ trailPos \in DOMAIN trail
                BY <1>0, <1>8, LitOnTrail DEF KeepWatch
            <4> QED
                BY <1>0, <4>1, <4>2, EnqueueFacts
        <3> QED
            BY <3>1 DEF Lit
    <2>3. \A i \in DOMAIN clauses : \A l : WatchCount(i, l)' = WatchCount(i, l)
        BY <1>0, <2>1, TurnFacts
    <2> SUFFICES ASSUME NEW l \in Lits, NEW i \in DOMAIN clauses
                 PROVE  WatchCount(i, l)' = IF l = L THEN Occ(kept', i) + Occ(todo', i)
                                                    ELSE Occ(watches'[l], i)
        BY <2>1, <2>2 DEF WatchLists
    <2> HIDE DEF h, L
    <2>4. Occ(kept', i) + Occ(todo', i) = Occ(kept, i) + Occ(todo, i)
        <3>1. Occ(kept, i) \in Nat /\ Occ(Tail(todo), i) \in Nat /\ One(h = i) \in Nat
            BY <1>6, <1>7, <2>1 DEF One
        <3>2. Occ(kept', i) = Occ(kept, i) + One(h = i)
            BY <1>7, <2>1
        <3>3. Occ(todo, i) = One(h = i) + Occ(todo', i)
            BY <1>7, <2>1
        <3> QED
            BY <2>1, <3>1, <3>2, <3>3
    <2> QED
        BY <1>6, <2>1, <2>3, <2>4
<1>9. CASE MoveWatch
    <2> DEFINE c == Turned(stored[h])
               x == c[NewWatch(c)]
    <2>1. /\ pc = "watch" /\ pc' = "watch" /\ todo # <<>>
          /\ UNCHANGED <<clauses, kept, trail, trailPos>> /\ todo' = Tail(todo)
          /\ watches' = [watches EXCEPT ![x] = Append(@, h)]
        BY <1>9 DEF MoveWatch
    <2>2. Lit' = Lit
        BY <2>1 DEF Lit
    <2>3. /\ x \in Lits /\ x # L
          /\ \A i \in DOMAIN clauses : \A l :
                WatchCount(i, l)' = WatchCount(i, l) - One(i = h /\ l = L) + One(i = h /\ l = x)
        BY <1>0, <1>9, MoveFacts
    <2> SUFFICES ASSUME NEW l \in Lits, NEW i \in DOMAIN clauses
                 PROVE  WatchCount(i, l)' = IF l = L THEN Occ(kept', i) + Occ(todo', i)
                                                    ELSE Occ(watches'[l], i)
        BY <2>1, <2>2 DEF WatchLists
    <2> HIDE DEF h, L, x
    <2>4. CASE l = L
        <3>1. WatchCount(i, l)' = WatchCount(i, L) - One(h = i)
            BY <2>3, <2>4, WatchCountFacts DEF One
        <3> QED
            <4>1. Occ(kept, i) \in Nat /\ Occ(Tail(todo), i) \in Nat /\ One(h = i) \in Nat
                BY <1>6, <1>7, <2>1 DEF One
            <4>2. WatchCount(i, L) = Occ(kept, i) + Occ(todo, i)
                BY <1>6, <2>1
            <4>3. Occ(todo, i) = One(h = i) + Occ(todo', i)
                BY <1>7, <2>1
            <4> QED
                BY <2>1, <2>4, <3>1, <4>1, <4>2, <4>3
    <2>5. CASE l # L
        <3>1. WatchCount(i, l) = Occ(watches[l], i) /\ Occ(watches[l], i) \in Nat
            BY <1>3, <1>6, <2>1, <2>5, OccFacts
        <3>2. watches'[l] = IF l = x THEN Append(watches[l], h) ELSE watches[l]
            BY <1>3, <2>1, <2>3
        <3>3. Occ(Append(watches[l], h), i) = Occ(watches[l], i) + One(h = i)
            BY <1>3, <1>7, <2>1, OccAppend
        <3> QED
            BY <2>3, <2>5, <3>1, <3>2, <3>3 DEF One
    <2> QED
        BY <2>4, <2>5
<1>10. ASSUME pc = "watch", pc' # "watch", UNCHANGED clauses,
              watches' = [watches EXCEPT ![L] = kept \o todo],
              \A i \in DOMAIN clauses : \A l : WatchCount(i, l)' = WatchCount(i, l)
       PROVE  WatchLists'
    <2> SUFFICES ASSUME NEW l \in Lits, NEW i \in DOMAIN clauses
                 PROVE  WatchCount(i, l)' = Occ(watches'[l], i)
        BY <1>10 DEF WatchLists
    <2>1. Occ(kept \o todo, i) = Occ(kept, i) + Occ(todo, i)
        BY <1>6, <1>10, OccConcat
    <2>2. watches'[l] = IF l = L THEN kept \o todo ELSE watches[l]
        BY <1>3, <1>6, <1>10
    <2> HIDE DEF L
    <2> QED
        BY <1>6, <1>10, <2>1, <2>2
<1>11. CASE Conflict
    <2>1. /\ pc = "watch" /\ pc' = caller /\ todo # <<>> /\ UNCHANGED clauses
          /\ watches' = [watches EXCEPT ![L] = kept \o todo]
          /\ stored' = [stored EXCEPT ![h] = Turned(stored[h])]
        BY <1>11 DEF Conflict, Return
    <2>2. \A i \in DOMAIN clauses : \A l : WatchCount(i, l)' = WatchCount(i, l)
        BY <1>0, <2>1, TurnFacts
    <2>3. pc' # "watch"
        BY <1>0, <2>1 DEF FlagType
    <2> QED
        BY <1>10, <2>1, <2>2, <2>3
<1>12. CASE EndWatches
    <2>1. /\ pc = "watch" /\ pc' = "take" /\ todo = <<>> /\ UNCHANGED <<clauses, stored>>
          /\ watches' = [watches EXCEPT ![L] = kept]
        BY <1>12 DEF EndWatches, database
    <2>2. kept \o todo = kept
        BY <1>6, <2>1, ConcatEmptySeq
    <2> QED
        BY <1>1, <1>10, <2>1, <2>2
<1>13. CASE UNCHANGED vars
    <2>1. UNCHANGED <<clauses, stored, watches, pc, todo, kept, trail, trailPos>>
        BY <1>13 DEF vars, database
    <2> QED
        BY <1>0, <1>1, <2>1 DEF WatchLists, Lit
<1> QED
    <2>1. CASE AddSatisfied \/ AddEmpty \/ AddUnit \/ AddedUnit \/ AddBinary \/ Loaded
        BY <1>2, <2>1 DEF Adding, AddSatisfied, AddEmpty, AddUnit, AddedUnit, AddBinary, Loaded, database
    <2>2. CASE Propagated \/ TakeLit \/ Imply
        BY <1>0, <1>2, <2>2 DEF Propagated, TakeLit, Imply, Return, database, FlagType
    <2>3. CASE Fill \/ BranchTrue \/ Leaf \/ BranchFalse \/ EndSplit
        BY <1>2, <2>3 DEF Fill, BranchTrue, Leaf, BranchFalse, EndSplit, database
    <2> QED
        BY <1>4, <1>5, <1>8, <1>9, <1>11, <1>12, <1>13, <2>1, <2>2, <2>3, NextCases

LEMMA InitShape == Init => Shape
<1> SUFFICES ASSUME Init
             PROVE  Shape
    OBVIOUS
<1>1. clauses \in Formulas /\ Len(clauses) \in Nat
    BY ClauseFacts DEF Init
<1>2. DatabaseType
    BY <1>1 DEF DatabaseType, Init, Lits
<1>3. TrailType
    BY DEF TrailType, Init, Distinct
<1>4. FlagType
    <2>1. 0 \in 0..MaxCubes
        BY PropagatorAssumption
    <2> QED
        BY <2>1 DEF FlagType, Init, Busy
<1>5. Flow
    BY DEF Flow, Init, Loading, Phase, Busy, Returned
<1>6. DriverShape
    BY DEF DriverShape, Init, Cubing, Halving, Phase, Busy
<1>7. StoredShape
    BY DEF StoredShape, Init
<1>8. \A l \in Lits : \A i \in DOMAIN clauses : watches[l] = <<>> /\ WatchCount(i, l) = 0
    BY DEF WatchCount, Init, Lits
<1>9. WatchLists
    BY <1>8, OccEmpty DEF WatchLists, Init
<1> QED
    BY <1>2, <1>3, <1>4, <1>5, <1>6, <1>7, <1>9 DEF Shape

LEMMA ShapeStep == Shape /\ [Next]_vars => Shape'
BY DatabaseStep, TrailStep, FlagStep, FlowStep, DriverStep, StoredStep, WatchStep DEF Shape

LEMMA ShapeHolds == Spec => []Shape
BY InitShape, ShapeStep, PTL DEF Spec

(***************************************************************************)
(* The type invariant: positions stay within the trail, lists hold what    *)
(* they should, and a branch lies on the trail behind its cube.            *)
(***************************************************************************)
THEOREM TypeCorrect == Spec => []TypeOK
<1>1. ASSUME Shape
      PROVE  TypeOK
    <2>0. DatabaseType /\ TrailType /\ FlagType /\ DriverShape /\ StoredShape
        BY <1>1 DEF Shape
    <2>1. ASSUME NEW i \in DOMAIN clauses
          PROVE  Range(stored[i]) \subseteq Range(clauses[i])
        <3>1. CASE stored[i] = <<>>
            BY <3>1 DEF Range
        <3>2. CASE stored[i] # <<>>
            BY <2>0, <3>2, DrawnRange DEF StoredShape
        <3> QED
            BY <3>1, <3>2
    <2>2. ASSUME NEW l \in Literals(NumVars)
          PROVE  /\ Range(implied[l]) \subseteq Literals(NumVars)
                 /\ Range(watches[l]) \subseteq DOMAIN clauses
        <3>1. implied[l] \in Seq(Literals(NumVars)) /\ watches[l] \in Seq(DOMAIN clauses)
            BY <2>0 DEF DatabaseType, Lits
        <3> QED
            BY <3>1 DEF Range
    <2>3. Range(trail) \subseteq Literals(NumVars)
        BY <2>0 DEF TrailType, Range, Lits
    <2>4. trailLimUnit <= Len(trail) /\ trailPos \in trailLimUnit..Len(trail)
        BY <2>0 DEF TrailType
    <2>5. pc \in {"true", "false"} => base < Len(trail)
        BY <2>0 DEF DriverShape, Halving, Phase, Busy
    <2> QED
        BY <2>0, <2>1, <2>2, <2>3, <2>4, <2>5 DEF TypeOK, DatabaseType, FlagType
<1> QED
    BY <1>1, ShapeHolds, PTL

(***************************************************************************)
(* No variable is ever put on the trail twice: the assertion in            *)
(* uncheckedEnqueue cannot fail, whatever the order in which cubes are     *)
(* taken up and halves are cancelled.                                      *)
(***************************************************************************)
THEOREM NeverEnqueuedTwice == Spec => []EnqueuedOnce
<1>1. Shape => EnqueuedOnce
    BY DEF Shape, TrailType, Distinct, EnqueuedOnce
<1> QED
    BY <1>1, ShapeHolds, PTL

(***************************************************************************)
(* The watch lists of propagate() lose no watch and hold none too many,    *)
(* whatever literals a clause repeats.                                     *)
(***************************************************************************)
THEOREM WatchesKept == Spec => []WatchesFirstTwo
<1>1. ASSUME NEW i \in DOMAIN clauses, NEW l
      PROVE  Cardinality({k \in {1, 2} : stored[i] # <<>> /\ stored[i][k] = l}) = WatchCount(i, l)
    <2> DEFINE A == {k \in {1, 2} : stored[i] # <<>> /\ stored[i][k] = l}
    <2>1. \A k : k \in A <=> k \in {1, 2} /\ stored[i] # <<>> /\ stored[i][k] = l
        OBVIOUS
    <2>2. Cardinality({}) = 0 /\ Cardinality({1}) = 1 /\ Cardinality({2}) = 1
        BY FS_EmptySet, FS_Singleton
    <2>3. Cardinality({1, 2}) = 2
        <3>1. IsFiniteSet({1}) /\ {1, 2} = {1} \cup {2} /\ 2 \notin {1}
            BY FS_Singleton
        <3>2. Cardinality({1} \cup {2}) = Cardinality({1}) + 1
            BY <3>1, FS_AddElement
        <3> QED
            BY <2>2, <3>1, <3>2
    <2>4. CASE stored[i] = <<>>
        <3>1. A = {}
            BY <2>4
        <3> QED
            BY <2>2, <2>4, <3>1 DEF WatchCount
    <2>5. CASE stored[i] # <<>>
        <3>1. A = IF stored[i][1] = l
                  THEN IF stored[i][2] = l THEN {1, 2} ELSE {1}
                  ELSE IF stored[i][2] = l THEN {2} ELSE {}
            <4> HIDE DEF A
            <4>1. CASE stored[i][1] = l /\ stored[i][2] = l
                BY <2>1, <2>5, <4>1
            <4>2. CASE stored[i][1] = l /\ stored[i][2] # l
                BY <2>1, <2>5, <4>2
            <4>3. CASE stored[i][1] # l /\ stored[i][2] = l
                BY <2>1, <2>5, <4>3
            <4>4. CASE stored[i][1] # l /\ stored[i][2] # l
                BY <2>1, <2>5, <4>4
            <4> QED
                BY <4>1, <4>2, <4>3, <4>4
        <3>2. WatchCount(i, l) = One(stored[i][1] = l) + One(stored[i][2] = l)
            BY <2>5 DEF WatchCount
        <3> HIDE DEF A
        <3>3. Cardinality(A) = One(stored[i][1] = l) + One(stored[i][2] = l)
            BY <2>2, <2>3, <3>1 DEF One
        <3> QED
            BY <3>2, <3>3 DEF A
    <2> QED
        BY <2>4, <2>5
<1>2. ASSUME Shape, pc # "watch", NEW i \in DOMAIN clauses, NEW l \in Literals(NumVars)
      PROVE  Cardinality({k \in DOMAIN watches[l] : watches[l][k] = i})
               = Cardinality({k \in {1, 2} : stored[i] # <<>> /\ stored[i][k] = l})
    <2>1. Occ(watches[l], i) = WatchCount(i, l)
        BY <1>2 DEF Shape, WatchLists, Lits
    <2> QED
        BY <1>1, <2>1 DEF Occ
<1>3. Shape => WatchesFirstTwo
    BY <1>2 DEF WatchesFirstTwo
<1> QED
    BY <1>3, ShapeHolds, PTL

-----------------------------------------------------------------------------
(***************************************************************************)
(* Sound is inductive.                                                     *)
(***************************************************************************)
LEMMA GivenFacts ==
    ASSUME Shape
    PROVE  /\ Given \in SUBSET Lits
           /\ Phase = "filled" => Given = Range(cube)
           /\ Phase = "true" => Given = Range(cube) \cup {branch}
           /\ Phase = "false" => Given = Range(cube) \cup {-branch}
           /\ ~Cubing => Given = {}
           /\ Cubing => Range(cube) \subseteq Given /\ Range(cube) \subseteq Lits
           /\ Halving => branch \in Lits /\ -branch \in Lits
<1>1. /\ Phase = "filled" => Given = Range(cube)
      /\ Phase = "true" => Given = Range(cube) \cup {branch}
      /\ Phase = "false" => Given = Range(cube) \cup {-branch}
      /\ ~Cubing => Given = {}
    BY DEF Given, Cubing
<1>2. Cubing => Range(cube) \subseteq Lits
    <2>1. Cubing => cube \in Seq(Lits)
        BY DEF Shape, DriverShape, Based
    <2> QED
        BY <2>1 DEF Range
<1>3. ASSUME Halving
      PROVE  branch \in Lits /\ -branch \in Lits
    <2>1. branch \in 1..NumVars
        BY <1>3 DEF Shape, DriverShape, Free
    <2>2. branch \in Lits
        BY <2>1, PropagatorAssumption DEF Lits, Literals
    <2> QED
        BY <2>2, LitFacts
<1> QED
    BY <1>1, <1>2, <1>3 DEF Cubing, Halving

LEMMA ClFacts ==
    ASSUME clauses \in Formulas, NEW A \in SUBSET Lits
    PROVE  /\ A \subseteq Cl(A) /\ Cl(A) \in SUBSET Lits /\ Closed(clauses, Cl(A))
           /\ \A l \in Cl(A) : Cl({l}) \subseteq Cl(A)
           /\ Cl({}) \subseteq Cl(A)
           /\ \A S \in SUBSET Lits : A \subseteq S /\ Closed(clauses, S) => Cl(A) \subseteq S
<1>1. NumVars \in Nat /\ clauses \in Seq(Seq(Literals(NumVars))) /\ A \in SUBSET Literals(NumVars)
    BY PropagatorAssumption, ClauseFacts DEF Lits
<1>2. A \subseteq Cl(A) /\ Cl(A) \in SUBSET Lits /\ Closed(clauses, Cl(A))
    BY <1>1, ClosureType, ClosureClosed DEF Cl, Lits
<1>3. ASSUME NEW B, NEW S \in SUBSET Lits, B \subseteq S, Closed(clauses, S)
      PROVE  Cl(B) \subseteq S
    BY <1>1, <1>3, ClosureLeast DEF Cl, Lits
<1>4. ASSUME NEW l \in Cl(A)
      PROVE  Cl({l}) \subseteq Cl(A)
    BY <1>2, <1>3
<1>5. Cl({}) \subseteq Cl(A)
    BY <1>2, <1>3
<1> QED
    BY <1>2, <1>3, <1>4, <1>5

\* A clause whose other literals are false forces the one left.
LEMMA Forced ==
    ASSUME NEW S, Closed(clauses, S), NEW i \in DOMAIN clauses,
           NEW s, Drawn(s, clauses[i], S), NEW n \in DOMAIN s,
           \A m \in DOMAIN s \ {n} : -s[m] \in S
    PROVE  s[n] \in S
<1>1. PICK j \in DOMAIN clauses[i] :
          /\ clauses[i][j] = s[n]
          /\ \A k \in DOMAIN clauses[i] \ {j} : -clauses[i][k] \in S
    BY DrawnUnit
<1> QED
    BY <1>1 DEF Closed

\* A clause that is false is a contradiction.
LEMMA Contradiction ==
    ASSUME clauses \in Formulas, NEW S, Closed(clauses, S),
           NEW i \in DOMAIN clauses, clauses[i] # <<>>,
           \A k \in DOMAIN clauses[i] : -clauses[i][k] \in S
    PROVE  ~Consistent(S)
<1>1. 1 \in DOMAIN clauses[i]
    <2>1. clauses[i] \in Seq(Lits)
        BY ClauseFacts
    <2> QED
        BY <2>1
<1>2. clauses[i][1] \in S
    BY <1>1 DEF Closed
<1> QED
    BY <1>1, <1>2 DEF Consistent

\* The literals of a clause that Reduced() drops, when none is true.
LEMMA DroppedFalse ==
    ASSUME Shape, Adding, Live(clauses[next]), NEW j \in DOMAIN clauses[next],
           clauses[next][j] \notin Range(Reduced(clauses[next]))
    PROVE  -clauses[next][j] \in Range(trail)
<1>1. DatabaseType
    BY DEF Shape
<1>2. ~IsUndef(clauses[next][j])
    BY <1>1, ReducedFacts
<1>3. ~IsTrue(clauses[next][j])
    BY DEF Live
<1> QED
    BY <1>2, <1>3 DEF IsUndef, IsTrue, IsFalse

\* A step of propagate() leaves its caller and what was decided alone.
LEMMA BusyStep ==
    ASSUME FlagType,
           Propagated \/ TakeLit \/ Imply \/ StartWatches
             \/ KeepWatch \/ MoveWatch \/ Conflict \/ EndWatches
    PROVE  /\ UNCHANGED <<clauses, next, implied, driver, caller, trailLimUnit, isUnsat>>
           /\ UNCHANGED <<cubes, cube, base, branch>>
           /\ Phase' = Phase /\ Given' = Given /\ Busy
           /\ Halving' = Halving /\ Cubing' = Cubing /\ Loading' = Loading
           /\ Phase \in {"unit", "filled", "true", "false"}
<1>1. /\ UNCHANGED <<clauses, next, implied, driver, caller, trailLimUnit, isUnsat>> /\ Busy
      /\ pc' = caller \/ pc' \in {"take", "imply", "watch"}
    BY DEF Propagated, TakeLit, Imply, StartWatches, KeepWatch, MoveWatch, Conflict,
           EndWatches, Return, Busy, database
<1>2. UNCHANGED <<cubes, cube, base, branch>>
    BY <1>1 DEF driver
<1>3. Phase' = Phase /\ Phase \in {"unit", "filled", "true", "false"}
    BY <1>1 DEF Phase, Busy, FlagType
<1>4. Given' = Given
    BY <1>2, <1>3 DEF Given
<1> QED
    BY <1>1, <1>2, <1>3, <1>4 DEF Halving, Cubing, Loading

\* A watched clause that is false but perhaps for its other watch.
LEMMA WatchForces ==
    ASSUME Shape, Sound, pc = "watch", todo # <<>>,
           NewWatch(Turned(stored[Head(todo)])) = 0
    PROVE  Turned(stored[Head(todo)])[2] \in Cl(Given)
<1> DEFINE h == Head(todo)
           c == Turned(stored[h])
<1>0. DatabaseType /\ TrailType /\ FlagType /\ Flow /\ DriverShape /\ StoredShape /\ WatchLists
    BY DEF Shape
<1>1. /\ h \in DOMAIN clauses /\ stored[h] # <<>> /\ c \in Seq(Lits) /\ Len(c) >= 3
      /\ c[1] = -Lit /\ DOMAIN c = 1..Len(c) /\ Len(c) \in Nat
      /\ \A d, S : Drawn(stored[h], d, S) => Drawn(c, d, S)
    BY <1>0, TurnedFacts
<1>2. \A m \in 3..Len(c) : IsFalse(c[m])
    BY <1>1, NewWatchFacts
<1>3. Lit \in Lits /\ Lit \in Range(trail)
    BY <1>0, LitOnTrail
<1>4. clauses \in Formulas /\ Given \in SUBSET Lits
    BY <1>0, GivenFacts DEF DatabaseType
<1>5. Range(trail) \subseteq Cl(Given)
    <2>1. Phase # "idle"
        BY <1>0 DEF FlagType, Phase, Busy
    <2> QED
        BY <2>1 DEF Sound, TrailFollows
<1>6. Cl({}) \subseteq Cl(Given) /\ Closed(clauses, Cl(Given))
    BY <1>4, ClFacts
<1>7. Drawn(stored[h], clauses[h], Cl({}))
    BY <1>1 DEF Sound, StoredFollows
<1> HIDE DEF h, c
<1>8. Drawn(c, clauses[h], Cl(Given))
    BY <1>1, <1>6, <1>7, DrawnMore
<1>9. ASSUME NEW m \in DOMAIN c \ {2}
      PROVE  -c[m] \in Cl(Given)
    <2>1. CASE m = 1
        <3>1. -(-Lit) = Lit
            BY <1>3, LitFacts
        <3> QED
            BY <1>1, <1>3, <1>5, <2>1, <3>1
    <2>2. CASE m # 1
        <3>1. m \in 3..Len(c)
            BY <1>1, <2>2
        <3> QED
            BY <1>2, <1>5, <3>1 DEF IsFalse
    <2> QED
        BY <2>1, <2>2
<1>10. 2 \in DOMAIN c
    BY <1>1
<1>11. c[2] \in Cl(Given)
    BY <1>1, <1>6, <1>8, <1>9, <1>10, Forced
<1> QED
    BY <1>11 DEF h, c

LEMMA TrailFollowsStep == Shape /\ Shape' /\ Sound /\ [Next]_vars => TrailFollows'
<1> SUFFICES ASSUME Shape, Shape', Sound, [Next]_vars, Phase' # "idle"
             PROVE  Range(trail') \subseteq Cl(Given)'
    BY DEF TrailFollows
<1>0. DatabaseType /\ TrailType /\ FlagType /\ Flow /\ DriverShape /\ StoredShape /\ WatchLists
    BY DEF Shape
<1>1. clauses \in Formulas /\ Given \in SUBSET Lits
    BY <1>0, GivenFacts DEF DatabaseType
<1>2. Phase # "idle" => Range(trail) \subseteq Cl(Given)
    BY DEF Sound, TrailFollows
<1>3. ASSUME Phase # "idle", Given' = Given, UNCHANGED <<clauses, trail>>
      PROVE  Range(trail') \subseteq Cl(Given)'
    BY <1>2, <1>3 DEF Cl
<1>4. ASSUME Phase # "idle", Given' = Given, UNCHANGED clauses,
             NEW l \in Lits, trail' = Append(trail, l), l \in Cl(Given)
      PROVE  Range(trail') \subseteq Cl(Given)'
    <2>1. Range(trail') = Range(trail) \cup {l}
        BY <1>0, <1>4, AppendFacts DEF TrailType
    <2> QED
        BY <1>2, <1>4, <2>1 DEF Cl
<1>5. CASE AddSatisfied \/ AddEmpty \/ AddedUnit \/ AddBinary \/ AddLong
    <2>1. pc \in {"load", "unit"} /\ pc' = "load" /\ UNCHANGED <<clauses, trail>>
        BY <1>5 DEF Adding, AddSatisfied, AddEmpty, AddedUnit, AddBinary, AddLong, database
    <2>2. Phase # "idle" /\ ~Cubing /\ ~Cubing'
        BY <2>1 DEF Phase, Busy, Cubing
    <2>3. Given = {} /\ Given' = {}
        BY <2>2 DEF Given, Cubing
    <2> QED
        BY <1>3, <2>1, <2>2, <2>3
<1>6. CASE AddUnit
    <2> DEFINE c == clauses[next]
               r == Reduced(c)
    <2>1. /\ Adding /\ Live(c) /\ Len(r) = 1 /\ trail' = Append(trail, r[1])
          /\ pc = "load" /\ pc' = "take" /\ caller' = "unit" /\ UNCHANGED clauses
        BY <1>6 DEF AddUnit, Adding
    <2>2. Phase # "idle" /\ ~Cubing /\ ~Cubing'
        BY <2>1 DEF Phase, Busy, Cubing
    <2>3. Given = {} /\ Given' = {}
        BY <2>2 DEF Given, Cubing
    <2>4. /\ next \in DOMAIN clauses /\ r \in Seq(Lits) /\ DOMAIN r = 1..Len(r)
          /\ Drawn(r, c, Range(trail))
        BY <1>0, <2>1, ReducedFacts
    <2>5. 1 \in DOMAIN r /\ r[1] \in Lits /\ DOMAIN r \ {1} = {}
        <3> HIDE DEF r
        <3>1. DOMAIN r = {1}
            BY <2>1, <2>4
        <3>2. r[1] \in Lits
            BY <2>4, <3>1, ElementOfSeq
        <3> QED
            BY <3>1, <3>2
    <2>6. Drawn(r, clauses[next], Cl(Given)) /\ Closed(clauses, Cl(Given))
        BY <1>1, <1>2, <2>2, <2>4, ClFacts, DrawnMore
    <2>7. r[1] \in Cl(Given)
        <3> HIDE DEF r
        <3> QED
            BY <2>4, <2>5, <2>6, Forced
    <2> QED
        BY <1>4, <2>1, <2>2, <2>3, <2>5, <2>7
<1>7. CASE Propagated \/ TakeLit \/ StartWatches \/ MoveWatch \/ Conflict \/ EndWatches
    <2>1. UNCHANGED trail
        BY <1>7 DEF Propagated, TakeLit, StartWatches, MoveWatch, Conflict, EndWatches
    <2>2. UNCHANGED clauses /\ Phase # "idle" /\ Given' = Given
        BY <1>0, <1>7, BusyStep
    <2> QED
        BY <1>3, <2>1, <2>2
<1>8. CASE Imply
    <2>1. UNCHANGED clauses /\ Phase # "idle" /\ Given' = Given
        BY <1>0, <1>8, BusyStep
    <2>2. /\ pc = "imply" /\ todo # <<>>
          /\ trail' = trail \/ trail' = Append(trail, Head(todo))
        BY <1>8 DEF Imply
    <2>3. Lit \in Range(trail)
        BY <1>0, <2>2, LitOnTrail
    <2>4. Head(todo) \in Range(todo) /\ Head(todo) \in Lits
        BY <1>0, <2>2, HeadTailFacts DEF Flow
    <2>5. Head(todo) \in Cl({Lit})
        BY <2>2, <2>4 DEF Sound, ImpliedFollows
    <2>6. Head(todo) \in Cl(Given)
        BY <1>1, <1>2, <2>1, <2>3, <2>5, ClFacts
    <2> QED
        BY <1>3, <1>4, <2>1, <2>2, <2>4, <2>6
<1>9. CASE KeepWatch
    <2> DEFINE c == Turned(stored[Head(todo)])
    <2>1. UNCHANGED clauses /\ Phase # "idle" /\ Given' = Given
        BY <1>0, <1>9, BusyStep
    <2>2. /\ pc = "watch" /\ todo # <<>>
          /\ trail' = trail \/ (NewWatch(c) = 0 /\ trail' = Append(trail, c[2]))
        BY <1>9 DEF KeepWatch
    <2>3. ASSUME NewWatch(c) = 0
          PROVE  c[2] \in Cl(Given) /\ c[2] \in Lits
        <3>1. c[2] \in Cl(Given)
            BY <2>2, <2>3, WatchForces
        <3> QED
            BY <1>1, <3>1, ClFacts
    <2> HIDE DEF c
    <2> QED
        BY <1>3, <1>4, <2>1, <2>2, <2>3
<1>10. CASE Fill
    <2>1. PICK d \in cubes : cube' = d /\ trail' = Refill(d)
        BY <1>10 DEF Fill
    <2>2. trail' = d
        BY <1>0, <2>1, RefillIsCube DEF TrailType, DriverShape
    <2>3. Phase' = "filled"
        BY <1>10 DEF Fill, Phase, Busy
    <2>4. Given' = Range(trail')
        BY <2>1, <2>2, <2>3 DEF Given
    <2>5. Given' \in SUBSET Lits /\ clauses' \in Formulas
        <3>1. clauses' = clauses
            BY <1>10 DEF Fill, database
        <3>2. trail' \in Seq(Lits)
            BY DEF Shape, TrailType
        <3> QED
            BY <1>1, <2>4, <3>1, <3>2 DEF Range
    <2>6. Given' \subseteq Closure(NumVars, clauses', Given')
        BY <2>5, ClosureType, PropagatorAssumption DEF Lits
    <2> QED
        BY <2>4, <2>6 DEF Cl
<1>11. CASE BranchTrue \/ BranchFalse
    <2>1. Range(trail') \subseteq Given'
        <3>1. Phase' = "true" \/ Phase' = "false"
            BY <1>11 DEF BranchTrue, BranchFalse, Phase, Busy
        <3>2. Halving' /\ Cubing'
            BY <3>1 DEF Halving, Cubing
        <3>3. /\ base' = Len(cube') /\ base' \in Nat /\ cube' \in Seq(Lits)
              /\ Agree(cube', trail', base') /\ trail' \in Seq(Lits)
              /\ trail'[base' + 1] = IF Phase' = "true" THEN branch' ELSE -branch'
            BY <3>2 DEF Shape, DriverShape, Based, TrailType
        <3>4. Len(trail') = base' + 1
            <4>1. CASE BranchTrue
                <5>1. PICK v \in Free : trail' = Append(trail, v)
                    BY <4>1 DEF BranchTrue
                <5>2. Len(trail') = Len(trail) + 1
                    <6>1. v \in Lits
                        BY PropagatorAssumption DEF Free, Lits, Literals
                    <6> QED
                        BY <1>0, <5>1, <6>1, AppendFacts DEF TrailType
                <5> QED
                    BY <4>1, <5>2 DEF BranchTrue
            <4>2. CASE BranchFalse
                <5>1. Halving
                    BY <4>2 DEF BranchFalse, Halving, Phase, Busy
                <5>2. base \in Nat /\ base < Len(trail) /\ -branch \in Lits
                    BY <1>0, <5>1, GivenFacts DEF DriverShape
                <5>3. SubSeq(trail, 1, base) \in Seq(Lits) /\ Len(SubSeq(trail, 1, base)) = base
                    BY <1>0, <5>2, CutFacts DEF TrailType
                <5>4. trail' = Append(SubSeq(trail, 1, base), -branch) /\ base' = base
                    BY <4>2 DEF BranchFalse
                <5> QED
                    BY <5>2, <5>3, <5>4, AppendFacts
            <4> QED
                BY <1>11, <4>1, <4>2
        <3>5. ASSUME NEW i \in DOMAIN trail'
              PROVE  trail'[i] \in Given'
            <4>1. i \in 1..(base' + 1)
                BY <3>3, <3>4
            <4>2. CASE i = base' + 1
                BY <3>1, <3>3, <4>2 DEF Given
            <4>3. CASE i # base' + 1
                <5>1. i \in 1..base' /\ i \in DOMAIN cube'
                    BY <3>3, <4>1, <4>3
                <5>2. trail'[i] = cube'[i]
                    BY <3>3, <5>1 DEF Agree
                <5>3. trail'[i] \in Range(cube')
                    BY <5>1, <5>2 DEF Range
                <5> QED
                    BY <3>1, <5>3 DEF Given
            <4> QED
                BY <4>2, <4>3
        <3> QED
            BY <3>5, Zenon DEF Range
    <2>2. clauses' = clauses
        BY <1>11 DEF BranchTrue, BranchFalse, database
    <2>3. Given' \in SUBSET Lits
        <3>1. Phase' = "true" \/ Phase' = "false"
            BY <1>11 DEF BranchTrue, BranchFalse, Phase, Busy
        <3>2. cube' \in Seq(Lits) /\ branch' \in 1..NumVars
            BY <3>1 DEF Shape, DriverShape, Based, Cubing, Halving, Free
        <3>3. branch' \in Lits
            BY <3>2, PropagatorAssumption DEF Lits, Literals
        <3>4. -branch' \in Lits /\ Range(cube') \subseteq Lits
            BY <3>2, <3>3, LitFacts DEF Range
        <3> QED
            BY <3>1, <3>3, <3>4 DEF Given
    <2>4. Given' \subseteq Closure(NumVars, clauses', Given')
        BY <2>3, ClosureType, PropagatorAssumption DEF Lits
    <2> QED
        BY <2>1, <2>4 DEF Cl
<1>12. CASE Loaded \/ Leaf \/ EndSplit
    BY <1>12 DEF Loaded, Leaf, EndSplit, Phase, Busy
<1>13. CASE UNCHANGED vars
    <2>1. /\ Phase' = Phase /\ UNCHANGED <<clauses, trail, cube, branch>>
        BY <1>13 DEF vars, Phase, Busy, database, driver
    <2>2. Given' = Given
        BY <2>1 DEF Given
    <2> QED
        BY <1>3, <2>1, <2>2
<1> QED
    BY <1>5, <1>6, <1>7, <1>8, <1>9, <1>10, <1>11, <1>12, <1>13, NextCases

\* The clauses are never changed.
LEMMA SameClauses == [Next]_vars => UNCHANGED clauses
BY NextCases DEF AddSatisfied, AddEmpty, AddUnit, AddedUnit, AddBinary, AddLong, Loaded,
    Propagated, TakeLit, Imply, StartWatches, KeepWatch, MoveWatch, Conflict, EndWatches,
    Fill, BranchTrue, Leaf, BranchFalse, EndSplit, vars, database

\* Adding a binary clause.
LEMMA AddBinaryFacts ==
    ASSUME Shape, AddBinary
    PROVE  LET c == clauses[next]
               a == Reduced(c)[1]
               b == Reduced(c)[2]
           IN  /\ Adding /\ Live(c) /\ next \in DOMAIN clauses
               /\ a \in Lits /\ b \in Lits /\ Drawn(<<a, b>>, c, Range(trail))
               /\ IsUndef(a) /\ IsUndef(b)
               /\ \A l \in Lits : Range(implied'[l]) = Range(implied[l])
                        \cup (IF l = -a THEN {b} ELSE {}) \cup (IF l = -b THEN {a} ELSE {})
<1> DEFINE c == clauses[next]
           r == Reduced(c)
           a == r[1]
           b == r[2]
           once == [implied EXCEPT ![-a] = Append(@, b)]
<1>0. DatabaseType
    BY DEF Shape
<1>1. Adding /\ Live(c) /\ Len(r) = 2 /\ implied' = [once EXCEPT ![-b] = Append(@, a)]
    BY DEF AddBinary
<1>2. /\ next \in DOMAIN clauses /\ r \in Seq(Lits) /\ DOMAIN r = 1..Len(r)
      /\ Drawn(r, c, Range(trail)) /\ \A j \in DOMAIN r : IsUndef(r[j]) /\ r[j] \in Lits
    BY <1>0, <1>1, ReducedFacts
<1> HIDE DEF r, c
<1>3. 1 \in DOMAIN r /\ 2 \in DOMAIN r
    BY <1>1, <1>2
<1>4. a \in Lits /\ b \in Lits /\ IsUndef(a) /\ IsUndef(b)
    BY <1>2, <1>3
<1>5. r = <<a, b>>
    BY <1>1, <1>2
<1>6. -a \in Lits /\ -b \in Lits
    BY <1>4, LitFacts
<1> HIDE DEF a, b
<1>7. \A l \in Lits : implied[l] \in Seq(Lits)
    BY <1>0 DEF DatabaseType
<1>8. ASSUME NEW l \in Lits
      PROVE  Range(implied'[l]) = Range(implied[l])
                 \cup (IF l = -a THEN {b} ELSE {}) \cup (IF l = -b THEN {a} ELSE {})
    <2> DEFINE x == -a
               y == -b
    <2>1. x \in Lits /\ y \in Lits /\ DOMAIN implied = Lits
        BY <1>0, <1>6 DEF DatabaseType
    <2>2. once = [implied EXCEPT ![x] = Append(@, b)] /\ implied' = [once EXCEPT ![y] = Append(@, a)]
        BY <1>1
    <2> HIDE DEF x, y, once
    <2>3. once[l] = IF l = x THEN Append(implied[l], b) ELSE implied[l]
        BY <2>1, <2>2
    <2>4. implied'[l] = IF l = y THEN Append(once[l], a) ELSE once[l]
        BY <2>1, <2>2
    <2>5. /\ Append(implied[l], b) \in Seq(Lits)
          /\ Range(Append(implied[l], b)) = Range(implied[l]) \cup {b}
        BY <1>4, <1>7, AppendFacts
    <2>6. /\ once[l] \in Seq(Lits)
          /\ Range(once[l]) = Range(implied[l]) \cup (IF l = x THEN {b} ELSE {})
        BY <1>7, <2>3, <2>5
    <2>7. Range(Append(once[l], a)) = Range(once[l]) \cup {a}
        BY <1>4, <2>6, AppendFacts
    <2>8. Range(implied'[l]) = Range(implied[l])
              \cup (IF l = x THEN {b} ELSE {}) \cup (IF l = y THEN {a} ELSE {})
        BY <2>4, <2>6, <2>7
    <2> QED
        BY <2>8 DEF x, y
<1> QED
    BY <1>1, <1>2, <1>4, <1>5, <1>8 DEF a, b, r, c

LEMMA ImpliedFollowsStep == Shape /\ Sound /\ [Next]_vars => ImpliedFollows'
<1> SUFFICES ASSUME Shape, Sound, [Next]_vars
             PROVE  ImpliedFollows'
    OBVIOUS
<1>0. DatabaseType /\ TrailType /\ FlagType /\ Flow /\ DriverShape /\ StoredShape /\ WatchLists
    BY DEF Shape
<1>1. clauses \in Formulas /\ UNCHANGED clauses
    BY <1>0, SameClauses DEF DatabaseType
<1>2. \A A : Cl(A)' = Cl(A)
    BY <1>1 DEF Cl
<1>3. \A l \in Lits : Range(implied[l]) \subseteq Cl({l})
    BY DEF Sound, ImpliedFollows
<1>4. UNCHANGED implied /\ pc' # "imply" => ImpliedFollows'
    BY <1>2, <1>3 DEF ImpliedFollows
<1>5. CASE AddBinary
    <2> DEFINE c == clauses[next]
               a == Reduced(c)[1]
               b == Reduced(c)[2]
    <2>1. /\ next \in DOMAIN clauses /\ a \in Lits /\ b \in Lits
          /\ Drawn(<<a, b>>, clauses[next], Range(trail))
          /\ \A l \in Lits : Range(implied'[l]) = Range(implied[l])
                \cup (IF l = -a THEN {b} ELSE {}) \cup (IF l = -b THEN {a} ELSE {})
        BY <1>5, AddBinaryFacts
    <2>2. pc = "load" /\ pc' = "load"
        BY <1>5 DEF AddBinary, Adding
    <2>3. Range(trail) \subseteq Cl({})
        <3>1. Phase # "idle" /\ ~Cubing
            BY <2>2 DEF Phase, Busy, Cubing
        <3> QED
            BY <3>1, GivenFacts DEF Sound, TrailFollows
    <2> HIDE DEF a, b
    <2>4. ASSUME NEW x \in Lits
          PROVE  /\ -x \in Cl({-x}) /\ Closed(clauses, Cl({-x}))
                 /\ Drawn(<<a, b>>, clauses[next], Cl({-x}))
        <3>1. {-x} \in SUBSET Lits
            BY LitFacts
        <3>2. -x \in Cl({-x}) /\ Cl({}) \subseteq Cl({-x}) /\ Closed(clauses, Cl({-x}))
            BY <1>1, <3>1, ClFacts
        <3> QED
            BY <2>1, <2>3, <3>2, DrawnMore
    <2> DEFINE s == <<a, b>>
    <2>5. DOMAIN s = {1, 2} /\ s[1] = a /\ s[2] = b
        OBVIOUS
    <2>6. b \in Cl({-a}) /\ a \in Cl({-b})
        <3> HIDE DEF s
        <3>1. Drawn(s, clauses[next], Cl({-a})) /\ Drawn(s, clauses[next], Cl({-b}))
            BY <2>1, <2>4 DEF s
        <3>2. b \in Cl({-a})
            <4>1. \A m \in DOMAIN s \ {2} : -s[m] \in Cl({-a})
                BY <2>1, <2>4, <2>5
            <4>2. s[2] \in Cl({-a})
                BY <2>1, <2>4, <2>5, <3>1, <4>1, Forced
            <4> QED
                BY <2>5, <4>2
        <3>3. a \in Cl({-b})
            <4>1. \A m \in DOMAIN s \ {1} : -s[m] \in Cl({-b})
                BY <2>1, <2>4, <2>5
            <4>2. s[1] \in Cl({-b})
                BY <2>1, <2>4, <2>5, <3>1, <4>1, Forced
            <4> QED
                BY <2>5, <4>2
        <3> QED
            BY <3>2, <3>3
    <2>7. \A l \in Lits : Range(implied'[l]) \subseteq Cl({l})
        BY <1>3, <2>1, <2>6
    <2> QED
        BY <1>2, <2>2, <2>7 DEF ImpliedFollows
<1>6. CASE TakeLit
    <2>1. /\ UNCHANGED <<implied, trail>> /\ trailPos' = trailPos + 1
          /\ todo' = implied[trail[trailPos + 1]] /\ trailPos + 1 \in DOMAIN trail
        BY <1>0, <1>6 DEF TakeLit, database, TrailType
    <2>2. Lit' = trail[trailPos + 1] /\ trail[trailPos + 1] \in Lits
        BY <1>0, <2>1 DEF Lit, TrailType
    <2>3. Range(todo') \subseteq Cl({Lit})'
        BY <1>2, <1>3, <2>1, <2>2
    <2> QED
        BY <1>2, <1>3, <2>1, <2>3 DEF ImpliedFollows
<1>7. CASE Imply
    <2>1. pc = "imply" /\ todo # <<>> /\ todo' = Tail(todo) /\ UNCHANGED <<implied, trailPos>>
        BY <1>7 DEF Imply, database
    <2>2. Range(todo') \subseteq Range(todo)
        BY <1>0, <2>1, HeadTailFacts DEF Flow
    <2>3. Lit' = Lit
        <3>1. UNCHANGED trail \/ \E l \in Lits : IsUndef(l) /\ trail' = Append(trail, l)
            BY <1>7, TrailGrows
        <3>2. trailPos \in DOMAIN trail
            BY <1>0, <2>1, LitOnTrail
        <3>3. trail'[trailPos] = trail[trailPos]
            BY <1>0, <3>1, <3>2, EnqueueFacts
        <3> QED
            BY <2>1, <3>3 DEF Lit
    <2>4. Range(todo') \subseteq Cl({Lit})'
        <3>1. Range(todo) \subseteq Cl({Lit})
            BY <2>1 DEF Sound, ImpliedFollows
        <3> QED
            BY <1>1, <2>2, <2>3, <3>1 DEF Cl
    <2> QED
        BY <1>2, <1>3, <2>1, <2>4 DEF ImpliedFollows
<1>8. CASE UNCHANGED vars
    <2>1. UNCHANGED <<implied, pc, todo>> /\ Lit' = Lit
        BY <1>8 DEF vars, database, Lit
    <2>2. pc = "imply" => Range(todo') \subseteq Cl({Lit})'
        BY <1>1, <2>1 DEF Sound, ImpliedFollows, Cl
    <2> QED
        BY <1>2, <1>3, <2>1, <2>2 DEF ImpliedFollows
<1> QED
    <2>1. CASE AddSatisfied \/ AddEmpty \/ AddUnit \/ AddedUnit \/ AddLong \/ Loaded
        BY <1>4, <2>1 DEF AddSatisfied, AddEmpty, AddUnit, AddedUnit, AddLong, Loaded, Adding, database
    <2>2. CASE Propagated \/ StartWatches \/ KeepWatch \/ MoveWatch \/ Conflict \/ EndWatches
        BY <1>0, <1>4, <2>2 DEF Propagated, StartWatches, KeepWatch, MoveWatch, Conflict,
            EndWatches, Return, FlagType, database
    <2>3. CASE Fill \/ BranchTrue \/ Leaf \/ BranchFalse \/ EndSplit
        BY <1>4, <2>3 DEF Fill, BranchTrue, Leaf, BranchFalse, EndSplit, database
    <2> QED
        BY <1>5, <1>6, <1>7, <1>8, <2>1, <2>2, <2>3, NextCases

\* Which clauses are stored, and with which literals, changes only when one
\* is added.
LEMMA StoredKept ==
    ASSUME Shape, [Next]_vars, ~AddLong
    PROVE  \A i \in DOMAIN clauses :
               /\ stored'[i] # <<>> <=> stored[i] # <<>>
               /\ Range(stored'[i]) = Range(stored[i])
               /\ \A d, S : Drawn(stored[i], d, S) => Drawn(stored'[i], d, S)
<1>0. DatabaseType /\ TrailType /\ FlagType /\ Flow /\ DriverShape /\ StoredShape /\ WatchLists
    BY DEF Shape
<1>1. CASE UNCHANGED stored
    BY <1>1
<1>2. CASE KeepWatch \/ Conflict
    <2>1. /\ pc = "watch" /\ todo # <<>> /\ UNCHANGED clauses
          /\ stored' = [stored EXCEPT ![Head(todo)] = Turned(stored[Head(todo)])]
        BY <1>2 DEF KeepWatch, Conflict
    <2> QED
        BY <1>0, <2>1, TurnFacts
<1>3. CASE MoveWatch
    BY <1>0, <1>3, MoveFacts
<1> QED
    <2>1. CASE AddSatisfied \/ AddEmpty \/ AddUnit \/ AddedUnit \/ AddBinary \/ Loaded
        BY <1>1, <2>1 DEF AddSatisfied, AddEmpty, AddUnit, AddedUnit, AddBinary, Loaded, database
    <2>2. CASE Propagated \/ TakeLit \/ Imply \/ StartWatches \/ EndWatches
        BY <1>1, <2>2 DEF Propagated, TakeLit, Imply, StartWatches, EndWatches, database
    <2>3. CASE Fill \/ BranchTrue \/ Leaf \/ BranchFalse \/ EndSplit \/ UNCHANGED vars
        BY <1>1, <2>3 DEF Fill, BranchTrue, Leaf, BranchFalse, EndSplit, vars, database
    <2> QED
        BY <1>2, <1>3, <2>1, <2>2, <2>3, NextCases

LEMMA StoredFollowsStep == Shape /\ Sound /\ [Next]_vars => StoredFollows'
<1> SUFFICES ASSUME Shape, Sound, [Next]_vars
             PROVE  StoredFollows'
    OBVIOUS
<1>1. UNCHANGED clauses
    BY SameClauses
<1>2. Cl({})' = Cl({})
    BY <1>1 DEF Cl
<1>3. StoredFollows
    BY DEF Sound
<1>4. CASE ~AddLong
    <2>1. \A i \in DOMAIN clauses :
              /\ stored'[i] # <<>> <=> stored[i] # <<>>
              /\ \A d, S : Drawn(stored[i], d, S) => Drawn(stored'[i], d, S)
        BY <1>4, StoredKept
    <2> QED
        BY <1>1, <1>2, <1>3, <2>1 DEF StoredFollows
<1>5. CASE AddLong
    <2> SUFFICES ASSUME NEW i \in DOMAIN clauses, stored'[i] # <<>>
                 PROVE  Drawn(stored'[i], clauses[i], Cl({}))
        BY <1>1, <1>2 DEF StoredFollows
    <2>1. CASE i = next
        <3>1. Adding /\ Live(clauses[next]) /\ pc = "load"
            BY <1>5 DEF AddLong, Adding
        <3>2. /\ stored'[i] = Reduced(clauses[next])
              /\ Drawn(Reduced(clauses[next]), clauses[next], Range(trail))
            BY <1>5, <2>1, AddLongFacts
        <3>3. Range(trail) \subseteq Cl({})
            <4>1. Phase # "idle" /\ ~Cubing
                BY <3>1 DEF Phase, Busy, Cubing
            <4> QED
                BY <4>1, GivenFacts DEF Sound, TrailFollows
        <3> QED
            BY <2>1, <3>2, <3>3, DrawnMore
    <2>2. CASE i # next
        <3>1. stored'[i] = stored[i]
            BY <1>5, <2>2, AddLongFacts
        <3> QED
            BY <1>3, <3>1 DEF StoredFollows
    <2> QED
        BY <2>1, <2>2
<1> QED
    BY <1>4, <1>5

LEMMA ConflictFollowsStep == Shape /\ Sound /\ [Next]_vars => ConflictFollows'
<1> SUFFICES ASSUME Shape, Sound, [Next]_vars
             PROVE  ConflictFollows'
    OBVIOUS
<1>0. DatabaseType /\ TrailType /\ FlagType /\ Flow /\ DriverShape /\ StoredShape /\ WatchLists
    BY DEF Shape
<1>1. clauses \in Formulas /\ UNCHANGED clauses /\ Given \in SUBSET Lits
    BY <1>0, SameClauses, GivenFacts DEF DatabaseType
<1>2. /\ Returned /\ ~result => ~Consistent(Cl(Given))
      /\ isUnsat => Refuted(NumVars, clauses)
    BY DEF Sound, ConflictFollows
<1>3. UNCHANGED isUnsat /\ (Returned' => result') => ConflictFollows'
    BY <1>1, <1>2 DEF ConflictFollows
<1>4. CASE AddEmpty
    <2> DEFINE c == clauses[next]
    <2>1. Adding /\ Live(c) /\ Reduced(c) = <<>> /\ pc = "load" /\ pc' = "load"
        BY <1>4 DEF AddEmpty, Adding
    <2>2. ~Returned' /\ Phase # "idle" /\ ~Cubing
        BY <2>1 DEF Returned, Phase, Busy, Cubing
    <2>3. Range(trail) \subseteq Cl({})
        BY <2>2, GivenFacts DEF Sound, TrailFollows
    <2>4. next \in DOMAIN clauses
        BY <1>0, <2>1, ReducedFacts
    <2>5. \A k \in DOMAIN c : -c[k] \in Cl({})
        <3>1. Range(Reduced(c)) = {}
            BY <2>1 DEF Range
        <3> QED
            BY <2>1, <2>3, <3>1, DroppedFalse
    <2>6. Refuted(NumVars, clauses)
        <3>1. CASE c = <<>>
            BY <2>4, <3>1 DEF Refuted
        <3>2. CASE c # <<>>
            <4>1. Closed(clauses, Cl({}))
                BY <1>1, ClFacts
            <4>2. ~Consistent(Cl({}))
                BY <1>1, <2>4, <2>5, <3>2, <4>1, Contradiction
            <4> QED
                BY <4>2 DEF Refuted, Cl
        <3> QED
            BY <3>1, <3>2
    <2> QED
        BY <1>1, <2>2, <2>6 DEF ConflictFollows
<1>5. CASE AddedUnit
    <2>1. pc = "unit" /\ pc' = "load" /\ isUnsat' = ~result
        BY <1>5 DEF AddedUnit
    <2>2. Returned /\ ~Returned' /\ ~Cubing
        BY <2>1 DEF Returned, Phase, Busy, Cubing
    <2>3. Given = {}
        BY <2>2, GivenFacts
    <2>4. isUnsat' => Refuted(NumVars, clauses)
        BY <1>2, <2>1, <2>2, <2>3 DEF Refuted, Cl
    <2> QED
        BY <1>1, <2>2, <2>4 DEF ConflictFollows
<1>6. ASSUME UNCHANGED isUnsat, Given' = Given, ~Consistent(Cl(Given))
      PROVE  ConflictFollows'
    BY <1>1, <1>2, <1>6 DEF ConflictFollows, Cl
<1>7. CASE Imply
    <2>1. UNCHANGED isUnsat /\ Given' = Given /\ Phase # "idle"
        BY <1>0, <1>7, BusyStep
    <2>2. pc = "imply" /\ todo # <<>>
        BY <1>7 DEF Imply
    <2>3. CASE IsFalse(Head(todo))
        <3>1. Range(trail) \subseteq Cl(Given)
            BY <2>1 DEF Sound, TrailFollows
        <3>2. Lit \in Range(trail)
            BY <1>0, <2>2, LitOnTrail
        <3>3. Head(todo) \in Range(todo)
            BY <1>0, <2>2, HeadTailFacts DEF Flow
        <3>4. Head(todo) \in Cl({Lit})
            BY <2>2, <3>3 DEF Sound, ImpliedFollows
        <3>5. Head(todo) \in Cl(Given)
            BY <1>1, <3>1, <3>2, <3>4, ClFacts
        <3>6. -Head(todo) \in Cl(Given)
            BY <2>3, <3>1 DEF IsFalse
        <3> QED
            BY <1>6, <2>1, <3>5, <3>6 DEF Consistent
    <2>4. CASE ~IsFalse(Head(todo))
        <3>1. pc' = "imply"
            BY <1>7, <2>4 DEF Imply
        <3> QED
            BY <1>3, <2>1, <3>1 DEF Returned
    <2> QED
        BY <2>3, <2>4
<1>8. CASE Conflict
    <2> DEFINE h == Head(todo)
               c == Turned(stored[h])
    <2>1. UNCHANGED isUnsat /\ Given' = Given /\ Phase # "idle"
        BY <1>0, <1>8, BusyStep
    <2>2. pc = "watch" /\ todo # <<>> /\ NewWatch(c) = 0 /\ IsFalse(c[2])
        BY <1>8 DEF Conflict
    <2>3. c[2] \in Cl(Given)
        BY <2>2, WatchForces
    <2>4. -c[2] \in Cl(Given)
        BY <2>1, <2>2 DEF Sound, TrailFollows, IsFalse
    <2> HIDE DEF c
    <2> QED
        BY <1>6, <2>1, <2>3, <2>4 DEF Consistent
<1>9. CASE UNCHANGED vars
    <2>1. UNCHANGED <<isUnsat, pc, result, caller, cube, branch>>
        BY <1>9 DEF vars, driver
    <2>2. Given' = Given /\ Returned' = Returned
        BY <2>1 DEF Given, Phase, Busy, Returned
    <2> QED
        BY <1>2, <1>3, <1>6, <2>1, <2>2
<1> QED
    <2>1. CASE AddSatisfied \/ AddUnit \/ AddBinary \/ AddLong \/ Loaded
        BY <1>3, <2>1 DEF AddSatisfied, AddUnit, AddBinary, AddLong, Loaded, Adding, Returned
    <2>2. CASE Propagated \/ TakeLit \/ StartWatches \/ KeepWatch \/ MoveWatch \/ EndWatches
        BY <1>3, <2>2 DEF Propagated, TakeLit, StartWatches, KeepWatch, MoveWatch, EndWatches,
            Return, Returned
    <2>3. CASE Fill \/ BranchTrue \/ Leaf \/ BranchFalse \/ EndSplit
        BY <1>3, <2>3 DEF Fill, BranchTrue, Leaf, BranchFalse, EndSplit, Returned
    <2> QED
        BY <1>4, <1>5, <1>7, <1>8, <1>9, <2>1, <2>2, <2>3, NextCases

LEMMA InitSound == Init => Sound
<1> SUFFICES ASSUME Init
             PROVE  Sound
    OBVIOUS
<1>1. Range(<<>>) = {}
    BY DEF Range
<1>2. TrailFollows
    BY <1>1 DEF Init, TrailFollows
<1>3. ImpliedFollows
    BY <1>1 DEF Init, ImpliedFollows, Lits
<1>4. StoredFollows
    BY DEF Init, StoredFollows
<1>5. ConflictFollows
    BY DEF Init, ConflictFollows, Returned
<1> QED
    BY <1>2, <1>3, <1>4, <1>5 DEF Sound

LEMMA SoundHolds == Spec => []Sound
<1>1. Shape /\ Shape' /\ Sound /\ [Next]_vars => Sound'
    BY TrailFollowsStep, ImpliedFollowsStep, StoredFollowsStep, ConflictFollowsStep DEF Sound
<1> QED
    BY <1>1, InitSound, ShapeHolds, PTL DEF Spec

-----------------------------------------------------------------------------
(***************************************************************************)
(* Complete is inductive.                                                  *)
(***************************************************************************)
\* A literal that is true has no new implications and no new watches on its
\* negation: clauses and watches go to literals without a value.
LEMMA OnTrailKept ==
    ASSUME Shape, [Next]_vars, NEW l \in Range(trail)
    PROVE  /\ Range(implied'[l]) = Range(implied[l])
           /\ Watching(-l)' \subseteq Watching(-l)
           /\ \A i \in Watching(-l) : Range(stored'[i]) = Range(stored[i])
<1>0. DatabaseType /\ TrailType /\ FlagType /\ Flow /\ DriverShape /\ StoredShape /\ WatchLists
    BY DEF Shape
<1>1. l \in Lits /\ -l \in Lits /\ -(-l) = l
    <2>1. l \in Lits
        BY <1>0 DEF TrailType, Range
    <2> QED
        BY <2>1, LitFacts
<1>2. ASSUME NEW x \in Lits, IsUndef(x)
      PROVE  l # x /\ -l # x /\ l # -x
    BY <1>1, <1>2, LitFacts DEF IsUndef, IsTrue, IsFalse
<1>3. UNCHANGED clauses
    BY SameClauses
<1>4. \A x : Watching(x) \subseteq DOMAIN clauses
    BY DEF Watching
<1>5. Range(implied'[l]) = Range(implied[l])
    <2>1. CASE AddBinary
        <3> DEFINE a == Reduced(clauses[next])[1]
                   b == Reduced(clauses[next])[2]
        <3>1. /\ a \in Lits /\ b \in Lits /\ IsUndef(a) /\ IsUndef(b)
              /\ Range(implied'[l]) = Range(implied[l])
                    \cup (IF l = -a THEN {b} ELSE {}) \cup (IF l = -b THEN {a} ELSE {})
            BY <1>1, <2>1, AddBinaryFacts
        <3> HIDE DEF a, b
        <3> QED
            BY <1>2, <3>1
    <2>2. CASE AddSatisfied \/ AddEmpty \/ AddUnit \/ AddedUnit \/ AddLong \/ Loaded
        BY <2>2 DEF AddSatisfied, AddEmpty, AddUnit, AddedUnit, AddLong, Loaded, database
    <2>3. CASE Propagated \/ TakeLit \/ Imply \/ StartWatches \/ KeepWatch \/ MoveWatch
                 \/ Conflict \/ EndWatches
        BY <1>0, <2>3, BusyStep
    <2>4. CASE Fill \/ BranchTrue \/ Leaf \/ BranchFalse \/ EndSplit \/ UNCHANGED vars
        BY <2>4 DEF Fill, BranchTrue, Leaf, BranchFalse, EndSplit, vars, database
    <2> QED
        BY <2>1, <2>2, <2>3, <2>4, NextCases
<1>6. Watching(-l)' \subseteq Watching(-l)
    <2> SUFFICES ASSUME NEW m, m = -l
                 PROVE  Watching(m)' \subseteq Watching(m)
        OBVIOUS
    <2>1. UNCHANGED stored => Watching(m)' \subseteq Watching(m)
        BY <1>3 DEF Watching
    <2>2. CASE AddLong
        <3> DEFINE r == Reduced(clauses[next])
        <3>1. /\ r[1] \in Lits /\ r[2] \in Lits /\ IsUndef(r[1]) /\ IsUndef(r[2])
              /\ m \notin {r[1], r[2]} => Watching(m)' \subseteq Watching(m)
            BY <2>2, AddLongFacts
        <3> HIDE DEF r
        <3> QED
            BY <1>2, <3>1
    <2>3. CASE KeepWatch \/ Conflict
        <3>1. /\ pc = "watch" /\ todo # <<>>
              /\ stored' = [stored EXCEPT ![Head(todo)] = Turned(stored[Head(todo)])]
            BY <2>3 DEF KeepWatch, Conflict
        <3> QED
            BY <1>0, <1>3, <3>1, TurnFacts
    <2>4. CASE MoveWatch
        <3> DEFINE h == Head(todo)
                   c == Turned(stored[h])
                   x == c[NewWatch(c)]
        <3>1. /\ x \in Lits /\ IsUndef(x)
              /\ m # x => Watching(m)' \subseteq Watching(m)
            BY <1>0, <2>4, MoveFacts
        <3> HIDE DEF h, c, x
        <3> QED
            BY <1>2, <3>1
    <2>5. CASE AddSatisfied \/ AddEmpty \/ AddUnit \/ AddedUnit \/ AddBinary \/ Loaded
        BY <2>1, <2>5 DEF AddSatisfied, AddEmpty, AddUnit, AddedUnit, AddBinary, Loaded, database
    <2>6. CASE Propagated \/ TakeLit \/ Imply \/ StartWatches \/ EndWatches
        BY <2>1, <2>6 DEF Propagated, TakeLit, Imply, StartWatches, EndWatches, database
    <2>7. CASE Fill \/ BranchTrue \/ Leaf \/ BranchFalse \/ EndSplit \/ UNCHANGED vars
        BY <2>1, <2>7 DEF Fill, BranchTrue, Leaf, BranchFalse, EndSplit, vars, database
    <2> QED
        BY <2>2, <2>3, <2>4, <2>5, <2>6, <2>7, NextCases
<1>7. ASSUME NEW i \in Watching(-l)
      PROVE  Range(stored'[i]) = Range(stored[i])
    <2>1. i \in DOMAIN clauses
        BY <1>4
    <2>2. CASE AddLong
        BY <2>1, <2>2, AddLongFacts
    <2>3. CASE ~AddLong
        BY <2>1, <2>3, StoredKept
    <2> QED
        BY <2>2, <2>3
<1> QED
    BY <1>5, <1>6, <1>7

\* So what it has forced stays settled.
LEMMA SettledKept ==
    ASSUME Shape, [Next]_vars, NEW l \in Range(trail), NEW T, NEW U, Settled(l, T), T \subseteq U
    PROVE  /\ Range(implied'[l]) \subseteq U
           /\ \A i \in Watching(-l)' : Range(stored'[i]) \cap U # {}
<1>1. /\ Range(implied'[l]) = Range(implied[l])
      /\ Watching(-l)' \subseteq Watching(-l)
      /\ \A i \in Watching(-l) : Range(stored'[i]) = Range(stored[i])
    BY OnTrailKept
<1>2. /\ Range(implied[l]) \subseteq T
      /\ \A i \in Watching(-l) : Range(stored[i]) \cap T # {}
    BY DEF Settled
<1> QED
    BY <1>1, <1>2

LEMMA UptoFacts ==
    ASSUME NEW s \in Seq(Lits)
    PROVE  /\ Upto(s, Len(s)) = Range(s)
           /\ \A n \in 0..Len(s) : Upto(s, n) \subseteq Range(s)
           /\ \A n \in Nat : Upto(s, n + 1) = Upto(s, n) \cup {s[n + 1]}
           /\ \A t, n : Agree(s, t, n) => Upto(s, n) = Upto(t, n)
<1>1. DOMAIN s = 1..Len(s) /\ Len(s) \in Nat
    OBVIOUS
<1>2. Upto(s, Len(s)) = Range(s)
    BY <1>1 DEF Upto, Range
<1>3. ASSUME NEW n \in 0..Len(s)
      PROVE  Upto(s, n) \subseteq Range(s)
    <2>1. 1..n \subseteq DOMAIN s
        BY <1>1
    <2> QED
        BY <2>1 DEF Upto, Range
<1>4. ASSUME NEW n \in Nat
      PROVE  Upto(s, n + 1) = Upto(s, n) \cup {s[n + 1]}
    <2>1. 1..(n + 1) = (1..n) \cup {n + 1}
        OBVIOUS
    <2> QED
        BY <2>1 DEF Upto
<1>5. \A t, n : Agree(s, t, n) => Upto(s, n) = Upto(t, n)
    BY DEF Agree, Upto
<1> QED
    BY <1>2, <1>3, <1>4, <1>5

\* The cube is where the trail is cut back to.
LEMMA CubeOnTrail ==
    ASSUME Shape, Cubing
    PROVE  /\ Upto(trail, Len(cube)) = Range(cube) /\ Range(cube) \subseteq Range(trail)
           /\ Len(cube) \in 0..Len(trail)
           /\ Len(trail) = Len(cube) => Range(trail) = Range(cube)
<1>1. cube \in Seq(Lits) /\ Agree(cube, trail, Len(cube)) /\ trail \in Seq(Lits)
    BY DEF Shape, DriverShape, Based, TrailType
<1>2. Len(cube) \in 0..Len(trail)
    BY <1>1 DEF Agree
<1>3. Upto(trail, Len(cube)) = Range(cube)
    BY <1>1, UptoFacts
<1> QED
    BY <1>1, <1>2, <1>3, UptoFacts

\* Without a conflict the whole trail is settled when propagate() is not running.
LEMMA AllSettled ==
    ASSUME Shape, TrailSettled, Sane, ~Busy
    PROVE  trailPos = Len(trail) /\ \A l \in Range(trail) : Settled(l, Range(trail))
<1>0. FlagType /\ TrailType /\ Flow
    BY DEF Shape
<1>1. pc = "load" \/ Returned
    BY <1>0 DEF Sane, Phase, Busy, Returned, FlagType
<1>2. trailPos = Len(trail)
    BY <1>0, <1>1 DEF Sane, Flow
<1>3. Ready = Len(trail)
    BY <1>1, <1>2 DEF Ready, Returned
<1>4. Upto(trail, Ready) = Range(trail)
    BY <1>0, <1>3, UptoFacts DEF TrailType
<1> QED
    BY <1>2, <1>4 DEF TrailSettled

\* The units stay where they are.
LEMMA UnitsKept ==
    ASSUME Shape, Shape', [Next]_vars, ~Loaded
    PROVE  /\ UNCHANGED trailLimUnit
           /\ Upto(trail', trailLimUnit) = Upto(trail, trailLimUnit)
           /\ Upto(trail, trailLimUnit) \subseteq Range(trail)
           /\ Upto(trail, trailLimUnit) \subseteq Range(trail')
<1>0. DatabaseType /\ TrailType /\ FlagType /\ Flow /\ DriverShape /\ StoredShape /\ WatchLists
    BY DEF Shape
<1>1. UNCHANGED trailLimUnit
    BY NextCases DEF AddSatisfied, AddEmpty, AddUnit, AddedUnit, AddBinary, AddLong,
        Propagated, TakeLit, Imply, StartWatches, KeepWatch, MoveWatch, Conflict, EndWatches,
        Fill, BranchTrue, Leaf, BranchFalse, EndSplit, vars, database
<1>2. /\ trail \in Seq(Lits) /\ trail' \in Seq(Lits) /\ trailLimUnit \in Nat
      /\ trailLimUnit <= Len(trail) /\ trailLimUnit <= Len(trail')
    BY <1>0, <1>1 DEF Shape, TrailType
<1>3. Agree(trail, trail, trailLimUnit)
    BY <1>2, AgreeRefl
<1>4. Agree(trail, trail', trailLimUnit)
    <2>1. CASE UNCHANGED trail
        BY <1>3, <2>1
    <2>2. CASE AddUnit \/ Imply \/ KeepWatch \/ BranchTrue
        <3>1. UNCHANGED trail \/ \E l \in Lits : IsUndef(l) /\ trail' = Append(trail, l)
            BY <2>2, TrailGrows
        <3> QED
            BY <1>0, <1>2, <1>3, <3>1, EnqueueFacts
    <2>3. CASE Fill
        <3>1. PICK c \in cubes : trail' = Refill(c)
            BY <2>3 DEF Fill
        <3>2. trail' = c /\ Based(c)
            BY <1>0, <3>1, RefillIsCube DEF TrailType, DriverShape
        <3> QED
            BY <3>2 DEF Based, Agree
    <2>4. CASE BranchFalse
        <3>1. pc' = "take" /\ caller' = "false" /\ UNCHANGED cube /\ pc = "true"
            BY <2>4 DEF BranchFalse
        <3>2. Cubing /\ Cubing'
            BY <3>1 DEF Cubing, Phase, Busy
        <3>3. Agree(cube, trail, trailLimUnit) /\ Agree(cube', trail', trailLimUnit')
            BY <3>2 DEF Shape, DriverShape, Based
        <3> QED
            BY <1>1, <3>1, <3>3 DEF Agree
    <2>5. CASE AddSatisfied \/ AddEmpty \/ AddedUnit \/ AddBinary \/ AddLong
        BY <2>1, <2>5 DEF AddSatisfied, AddEmpty, AddedUnit, AddBinary, AddLong
    <2>6. CASE Propagated \/ TakeLit \/ StartWatches \/ MoveWatch \/ Conflict \/ EndWatches
        BY <2>1, <2>6 DEF Propagated, TakeLit, StartWatches, MoveWatch, Conflict, EndWatches
    <2>7. CASE Leaf \/ EndSplit \/ UNCHANGED vars
        BY <2>1, <2>7 DEF Leaf, EndSplit, vars
    <2> QED
        BY <2>2, <2>3, <2>4, <2>5, <2>6, <2>7, NextCases
<1>5. Upto(trail', trailLimUnit) = Upto(trail, trailLimUnit)
    BY <1>2, <1>4, UptoFacts
<1>6. trailLimUnit \in 0..Len(trail) /\ trailLimUnit \in 0..Len(trail')
    BY <1>2
<1> QED
    BY <1>1, <1>2, <1>5, <1>6, UptoFacts

LEMMA UnitsSettledStep == Shape /\ Shape' /\ Complete /\ [Next]_vars => UnitsSettled'
<1> SUFFICES ASSUME Shape, Shape', Complete, [Next]_vars,
                    NEW l \in Upto(trail, trailLimUnit)'
             PROVE  Settled(l, Upto(trail, trailLimUnit))'
    BY DEF UnitsSettled
<1> DEFINE T == Upto(trail, trailLimUnit)
           U == Upto(trail', trailLimUnit')
<1>1. CASE ~Loaded
    <2>1. T = U /\ T \subseteq Range(trail)
        BY <1>1, UnitsKept
    <2>2. l \in Range(trail) /\ Settled(l, T)
        BY <2>1 DEF Complete, UnitsSettled
    <2> HIDE DEF T, U
    <2>3. /\ Range(implied'[l]) \subseteq U
          /\ \A i \in Watching(-l)' : Range(stored'[i]) \cap U # {}
        BY <2>1, <2>2, SettledKept
    <2> QED
        BY <2>3 DEF Settled, U
<1>2. CASE Loaded
    <2>1. /\ UNCHANGED <<trail, database>> /\ pc = "load"
          /\ trailLimUnit' = IF isUnsat THEN trailLimUnit ELSE Len(trail)
        BY <1>2 DEF Loaded
    <2>2. trail \in Seq(Lits) /\ trailLimUnit \in 0..Len(trail)
        BY DEF Shape, TrailType
    <2>3. CASE isUnsat
        <3>1. T = U /\ T \subseteq Range(trail)
            BY <2>1, <2>2, <2>3, UptoFacts
        <3>2. l \in Range(trail) /\ Settled(l, T)
            BY <3>1 DEF Complete, UnitsSettled
        <3> HIDE DEF T, U
        <3>3. /\ Range(implied'[l]) \subseteq U
              /\ \A i \in Watching(-l)' : Range(stored'[i]) \cap U # {}
            BY <3>1, <3>2, SettledKept
        <3> QED
            BY <3>3 DEF Settled, U
    <2>4. CASE ~isUnsat
        <3>1. U = Range(trail)
            BY <2>1, <2>2, <2>4, UptoFacts
        <3>2. Sane /\ ~Busy
            BY <2>1, <2>4 DEF Sane, Phase, Busy, Returned
        <3>3. l \in Range(trail) /\ Settled(l, Range(trail))
            BY <3>1, <3>2, AllSettled DEF Complete
        <3> HIDE DEF T, U
        <3>4. /\ Range(implied'[l]) \subseteq U
              /\ \A i \in Watching(-l)' : Range(stored'[i]) \cap U # {}
            BY <3>1, <3>3, SettledKept
        <3> QED
            BY <3>4 DEF Settled, U
    <2> QED
        BY <2>3, <2>4
<1> QED
    BY <1>1, <1>2

LEMMA CubeSettledStep == Shape /\ Complete /\ [Next]_vars => CubeSettled'
<1> SUFFICES ASSUME Shape, Complete, [Next]_vars, Halving',
                    NEW l \in Range(cube')
             PROVE  Settled(l, Range(cube))'
    BY DEF CubeSettled
<1>0. FlagType /\ TrailType
    BY DEF Shape
<1>1. ASSUME UNCHANGED cube, l \in Range(trail), Settled(l, Range(cube))
      PROVE  Settled(l, Range(cube))'
    <2> DEFINE U == Range(cube)
    <2> HIDE DEF U
    <2>1. /\ Range(implied'[l]) \subseteq U
          /\ \A i \in Watching(-l)' : Range(stored'[i]) \cap U # {}
        BY <1>1, SettledKept DEF U
    <2> QED
        BY <1>1, <2>1 DEF Settled, U
<1>2. ASSUME UNCHANGED cube, Halving
      PROVE  Settled(l, Range(cube))'
    <2>1. Cubing
        BY <1>2 DEF Halving, Cubing
    <2>2. l \in Range(cube) /\ Range(cube) \subseteq Range(trail)
        BY <1>2, <2>1, CubeOnTrail
    <2> QED
        BY <1>1, <1>2, <2>2 DEF Complete, CubeSettled
<1>3. CASE BranchTrue
    <2>1. pc = "filled" /\ result /\ Len(trail) = Len(cube) /\ UNCHANGED <<cube, isUnsat>>
        BY <1>3 DEF BranchTrue
    <2>2. Cubing /\ ~Busy /\ ~isUnsat
        BY <2>1 DEF Cubing, Phase, Busy, Shape, Flow
    <2>3. Sane
        BY <2>1, <2>2 DEF Sane, Phase, Busy
    <2>4. Range(trail) = Range(cube)
        BY <2>1, <2>2, CubeOnTrail
    <2>5. Settled(l, Range(trail))
        BY <2>1, <2>2, <2>3, <2>4, AllSettled DEF Complete
    <2> QED
        BY <1>1, <2>1, <2>4, <2>5
<1>4. CASE BranchFalse
    BY <1>2, <1>4 DEF BranchFalse, Halving, Phase, Busy
<1>5. CASE Propagated \/ TakeLit \/ Imply \/ StartWatches \/ KeepWatch \/ MoveWatch
             \/ Conflict \/ EndWatches
    BY <1>0, <1>2, <1>5, BusyStep
<1>6. CASE UNCHANGED vars
    BY <1>2, <1>6 DEF vars, driver, Halving, Phase, Busy
<1>7. CASE AddSatisfied \/ AddEmpty \/ AddUnit \/ AddedUnit \/ AddBinary \/ AddLong \/ Loaded
    <2>1. pc' \in {"load", "idle"} \/ (pc' = "take" /\ caller' = "unit")
        BY <1>7 DEF AddSatisfied, AddEmpty, AddUnit, AddedUnit, AddBinary, AddLong, Loaded, Adding
    <2> QED
        BY <2>1 DEF Halving, Phase, Busy
<1>8. CASE Fill \/ Leaf \/ EndSplit
    BY <1>8 DEF Fill, Leaf, EndSplit, Halving, Phase, Busy
<1> QED
    BY <1>3, <1>4, <1>5, <1>6, <1>7, <1>8, NextCases

LEMMA ReadyFacts ==
    ASSUME Shape
    PROVE  /\ Ready \in 0..Len(trail) /\ Upto(trail, Ready) \subseteq Range(trail)
           /\ pc \in {"imply", "watch"} => trailPos = Ready + 1 /\ Ready \in Nat
<1>1. Ready \in 0..Len(trail) /\ (pc \in {"imply", "watch"} => trailPos = Ready + 1 /\ Ready \in Nat)
    BY DEF Shape, TrailType, Flow, Ready
<1> QED
    BY <1>1, UptoFacts DEF Shape, TrailType

\* The trail before and after a step that enqueues at most.
LEMMA GrownFacts ==
    ASSUME Shape, AddUnit \/ Imply \/ KeepWatch \/ BranchTrue
    PROVE  /\ Range(trail) \subseteq Range(trail')
           /\ \A n \in 0..Len(trail) : Upto(trail', n) = Upto(trail, n)
           /\ \A n \in DOMAIN trail : trail'[n] = trail[n]
<1>0. TrailType
    BY DEF Shape
<1>1. UNCHANGED trail \/ \E l \in Lits : IsUndef(l) /\ trail' = Append(trail, l)
    BY TrailGrows
<1>2. Range(trail) \subseteq Range(trail') /\ \A n \in DOMAIN trail : trail'[n] = trail[n]
    BY <1>0, <1>1, EnqueueFacts
<1>3. \A n \in 0..Len(trail) : 1..n \subseteq DOMAIN trail
    BY <1>0 DEF TrailType
<1>4. \A n \in 0..Len(trail) : Upto(trail', n) = Upto(trail, n)
    BY <1>2, <1>3 DEF Upto
<1> QED
    BY <1>2, <1>4

LEMMA TrailSettledStep == Shape /\ Shape' /\ Complete /\ [Next]_vars => TrailSettled'
<1> SUFFICES ASSUME Shape, Shape', Complete, [Next]_vars, Sane',
                    NEW l \in Upto(trail', Ready')
             PROVE  Settled(l, Range(trail))'
    BY DEF TrailSettled
<1>0. DatabaseType /\ TrailType /\ FlagType /\ Flow /\ DriverShape /\ StoredShape /\ WatchLists
    BY DEF Shape
<1>1. ASSUME l \in Range(trail), NEW T, Settled(l, T), T \subseteq Range(trail')
      PROVE  Settled(l, Range(trail))'
    <2>1. /\ Range(implied'[l]) \subseteq Range(trail')
          /\ \A i \in Watching(-l)' : Range(stored'[i]) \cap Range(trail') # {}
        BY <1>1, SettledKept
    <2> QED
        BY <2>1 DEF Settled
<1>2. ASSUME Sane, Range(trail) \subseteq Range(trail'), l \in Upto(trail, Ready)
      PROVE  Settled(l, Range(trail))'
    <2>1. l \in Range(trail) /\ Settled(l, Range(trail))
        BY <1>2, ReadyFacts DEF Complete, TrailSettled
    <2> QED
        BY <1>1, <1>2, <2>1
<1>3. CASE AddSatisfied \/ AddEmpty \/ AddBinary \/ AddLong
    <2>1. pc = "load" /\ UNCHANGED <<pc, trail, trailPos>> /\ ~isUnsat
        BY <1>3 DEF AddSatisfied, AddEmpty, AddBinary, AddLong, Adding
    <2>2. Sane /\ Ready' = Ready
        BY <2>1 DEF Sane, Phase, Busy, Returned, Ready
    <2> QED
        BY <1>2, <2>1, <2>2
<1>4. CASE AddUnit
    <2>1. pc = "load" /\ pc' = "take" /\ UNCHANGED trailPos /\ ~isUnsat
        BY <1>4 DEF AddUnit, Adding
    <2>2. Sane /\ Ready' = Ready
        BY <2>1 DEF Sane, Phase, Busy, Returned, Ready
    <2> QED
        BY <1>2, <1>4, <2>2, ReadyFacts, GrownFacts
<1>5. CASE AddedUnit
    <2>1. pc = "unit" /\ pc' = "load" /\ UNCHANGED <<trail, trailPos>> /\ isUnsat' = ~result
        BY <1>5 DEF AddedUnit
    <2>2. result /\ ~isUnsat
        BY <1>0, <2>1 DEF Sane, Flow
    <2>3. Sane /\ Ready' = Ready
        BY <2>1, <2>2 DEF Sane, Phase, Busy, Ready
    <2> QED
        BY <1>2, <2>1, <2>3
<1>6. ASSUME Busy
      PROVE  Sane
    BY <1>0, <1>6 DEF Sane, Busy, Phase, FlagType, Flow, Returned
<1>7. CASE Propagated \/ TakeLit \/ StartWatches \/ MoveWatch
    <2>1. UNCHANGED trail /\ Busy
        BY <1>7 DEF Propagated, TakeLit, StartWatches, MoveWatch, Busy
    <2>2. Ready' = Ready
        <3>1. CASE Propagated
            BY <1>0, <3>1 DEF Propagated, Return, Ready, FlagType
        <3>2. CASE TakeLit
            BY <1>0, <3>2 DEF TakeLit, Ready, TrailType
        <3>3. CASE StartWatches \/ MoveWatch
            BY <3>3 DEF StartWatches, MoveWatch, Ready
        <3> QED
            BY <1>7, <3>1, <3>2, <3>3
    <2> QED
        BY <1>2, <1>6, <2>1, <2>2
<1>8. CASE Imply \/ KeepWatch
    <2>1. Busy /\ UNCHANGED trailPos /\ pc \in {"imply", "watch"}
        BY <1>8 DEF Imply, KeepWatch, Busy
    <2>2. pc' \in {"imply", "watch"}
        <3>1. pc' = pc \/ (pc' = caller /\ result' = FALSE)
            BY <1>8 DEF Imply, KeepWatch, Return
        <3> QED
            BY <1>0, <2>1, <3>1 DEF FlagType, Sane, Returned, Busy
    <2>3. Ready' = Ready
        BY <2>1, <2>2 DEF Ready
    <2> QED
        BY <1>2, <1>6, <1>8, <2>1, <2>3, ReadyFacts, GrownFacts
<1>9. CASE Conflict
    <2>1. pc = "watch" /\ pc' = caller /\ result' = FALSE
        BY <1>9 DEF Conflict, Return
    <2> QED
        BY <1>0, <2>1 DEF Sane, Returned, FlagType, Busy
<1>10. CASE EndWatches
    <2>1. /\ pc = "watch" /\ todo = <<>> /\ pc' = "take" /\ UNCHANGED <<trail, trailPos, stored>>
          /\ Busy
        BY <1>10 DEF EndWatches, database, Busy
    <2>2. Ready' = Ready + 1 /\ Ready \in Nat /\ trailPos = Ready + 1
        <3>1. trailPos = Ready + 1 /\ Ready \in Nat
            BY <2>1, ReadyFacts
        <3> QED
            BY <2>1, <3>1 DEF Ready
    <2>3. l \in Upto(trail, Ready) \/ l = Lit
        BY <1>0, <2>1, <2>2, UptoFacts DEF TrailType, Lit
    <2>4. CASE l \in Upto(trail, Ready)
        BY <1>2, <1>6, <2>1, <2>4
    <2>5. CASE l = Lit
        <3>1. l \in Range(trail) /\ -l \in Lits
            BY <1>0, <2>1, <2>5, LitOnTrail
        <3>2. Watching(-l) = Range(kept)
            <4>1. Range(todo) = {}
                BY <2>1 DEF Range
            <4> QED
                BY <1>0, <2>1, <2>5, <3>1, <4>1, WatchRanges
        <3>3. Settled(l, Range(trail))
            BY <2>1, <2>5, <3>2 DEF Complete, LitSettled, Settled
        <3> QED
            BY <1>1, <2>1, <3>1, <3>3
    <2> QED
        BY <2>3, <2>4, <2>5
<1>11. CASE Fill
    <2>1. Ready' = trailLimUnit /\ ~Loaded
        BY <1>11 DEF Fill, Ready, Loaded
    <2>2. /\ l \in Upto(trail, trailLimUnit) /\ Upto(trail, trailLimUnit) \subseteq Range(trail)
          /\ Upto(trail, trailLimUnit) \subseteq Range(trail')
        BY <2>1, UnitsKept
    <2>3. Settled(l, Upto(trail, trailLimUnit))
        BY <2>2 DEF Complete, UnitsSettled
    <2> QED
        BY <1>1, <2>2, <2>3
<1>12. CASE BranchTrue
    <2>1. pc = "filled" /\ pc' = "take" /\ UNCHANGED trailPos /\ result /\ UNCHANGED isUnsat
        BY <1>12 DEF BranchTrue
    <2>2. Sane /\ Ready' = Ready
        BY <2>1 DEF Sane, Phase, Busy, Returned, Ready
    <2> QED
        BY <1>2, <1>12, <2>2, ReadyFacts, GrownFacts
<1>13. CASE BranchFalse
    <2>1. pc = "true" /\ pc' = "take" /\ caller' = "false" /\ trailPos' = base /\ UNCHANGED cube
        BY <1>13 DEF BranchFalse
    <2>2. Halving /\ Cubing /\ Cubing' /\ Ready' = base
        BY <2>1 DEF Halving, Cubing, Phase, Busy, Ready
    <2>3. base = Len(cube)
        BY <1>0, <2>2 DEF DriverShape
    <2>4. Range(cube) \subseteq Range(trail)
        BY <2>2, CubeOnTrail
    <2>5. Agree(cube, trail', Len(cube)) /\ cube \in Seq(Lits) /\ trail' \in Seq(Lits)
        BY <2>1, <2>2 DEF Shape, DriverShape, Based, TrailType
    <2>6. Upto(trail', base) = Range(cube) /\ Range(cube) \subseteq Range(trail')
        <3>1. Len(cube) \in 0..Len(trail')
            BY <2>5 DEF Agree
        <3>2. Upto(cube, Len(cube)) = Upto(trail', Len(cube)) /\ Upto(cube, Len(cube)) = Range(cube)
            BY <2>5, UptoFacts
        <3> QED
            BY <2>3, <2>5, <3>1, <3>2, UptoFacts
    <2>7. Settled(l, Range(cube))
        BY <2>2, <2>6 DEF Complete, CubeSettled
    <2> QED
        BY <1>1, <2>2, <2>4, <2>6, <2>7
<1>14. CASE Loaded \/ Leaf \/ EndSplit
    BY <1>14 DEF Loaded, Leaf, EndSplit, Sane, Phase, Busy
<1>15. CASE UNCHANGED vars
    <2>1. UNCHANGED <<pc, caller, result, isUnsat, trail, trailPos>>
        BY <1>15 DEF vars
    <2>2. Sane /\ Ready' = Ready
        BY <2>1 DEF Sane, Phase, Busy, Returned, Ready
    <2> QED
        BY <1>2, <2>1, <2>2
<1> QED
    BY <1>3, <1>4, <1>5, <1>7, <1>8, <1>9, <1>10, <1>11, <1>12, <1>13, <1>14, <1>15, NextCases

LEMMA LitSettledStep == Shape /\ Complete /\ [Next]_vars => LitSettled'
<1> SUFFICES ASSUME Shape, Complete, [Next]_vars
             PROVE  LitSettled'
    OBVIOUS
<1>0. DatabaseType /\ TrailType /\ FlagType /\ Flow /\ DriverShape /\ StoredShape /\ WatchLists
    BY DEF Shape
<1>1. LitSettled
    BY DEF Complete
<1>2. pc' \notin {"imply", "watch"} => LitSettled'
    BY DEF LitSettled
<1>3. CASE TakeLit
    <2>1. /\ pc' = "imply" /\ trailPos' = trailPos + 1 /\ todo' = implied[trail[trailPos + 1]]
          /\ UNCHANGED <<trail, implied>>
        BY <1>3 DEF TakeLit, database
    <2> QED
        BY <2>1 DEF LitSettled, Lit
<1>4. CASE Imply
    <2>1. /\ pc = "imply" /\ todo # <<>> /\ todo' = Tail(todo) /\ UNCHANGED <<implied, trailPos>>
          /\ pc' = "imply" \/ pc' = caller
        BY <1>4 DEF Imply, Return, database
    <2>2. Range(trail) \subseteq Range(trail') /\ Lit' = Lit
        BY <1>0, <1>4, <2>1, GrownFacts, LitOnTrail DEF Lit
    <2>3. Head(todo) \in Lits /\ Range(todo) = {Head(todo)} \cup Range(todo')
        BY <1>0, <2>1, HeadTailFacts DEF Flow
    <2>4. CASE IsFalse(Head(todo))
        <3>1. pc' = caller
            BY <1>4, <2>4 DEF Imply, Return
        <3> QED
            BY <1>0, <1>2, <3>1 DEF FlagType
    <2>5. CASE ~IsFalse(Head(todo))
        <3>1. Head(todo) \in Range(trail')
            <4>1. CASE IsTrue(Head(todo))
                BY <2>2, <4>1 DEF IsTrue
            <4>2. CASE IsUndef(Head(todo))
                <5>1. trail' = Append(trail, Head(todo))
                    BY <1>4, <4>2 DEF Imply
                <5> QED
                    BY <1>0, <2>3, <4>2, <5>1, EnqueueFacts
            <4> QED
                BY <2>5, <4>1, <4>2 DEF IsUndef
        <3>2. Range(implied[Lit]) \subseteq Range(trail) \cup Range(todo)
            BY <1>1, <2>1 DEF LitSettled
        <3>3. pc' = "imply"
            BY <1>4, <2>5 DEF Imply
        <3>4. Range(implied[Lit]) \subseteq Range(trail') \cup Range(todo')
            BY <2>2, <2>3, <3>1, <3>2
        <3> QED
            BY <2>1, <2>2, <3>3, <3>4 DEF LitSettled
    <2> QED
        BY <2>4, <2>5
<1>5. CASE StartWatches
    <2>1. /\ pc = "imply" /\ pc' = "watch" /\ todo = <<>> /\ kept' = <<>>
          /\ UNCHANGED <<implied, trail>> /\ Lit' = Lit
        BY <1>5 DEF StartWatches, database, Lit
    <2>2. Range(todo) = {} /\ Range(kept') = {}
        BY <2>1 DEF Range
    <2>3. Range(implied[Lit]) \subseteq Range(trail)
        BY <1>1, <2>1, <2>2 DEF LitSettled
    <2> QED
        BY <2>1, <2>2, <2>3 DEF LitSettled
<1>6. CASE KeepWatch
    <2> DEFINE h == Head(todo)
               c == Turned(stored[h])
               p == NewWatch(c)
    <2>1. /\ pc = "watch" /\ pc' = "watch" /\ todo # <<>> /\ UNCHANGED <<implied, trailPos, clauses>>
          /\ kept' = Append(kept, h) /\ stored' = [stored EXCEPT ![h] = c]
        BY <1>6 DEF KeepWatch
    <2>2. Range(trail) \subseteq Range(trail') /\ Lit' = Lit
        BY <1>0, <1>6, <2>1, GrownFacts, LitOnTrail DEF Lit
    <2>3. Range(implied'[Lit']) \subseteq Range(trail')
        BY <1>1, <2>1, <2>2 DEF LitSettled
    <2>4. /\ h \in DOMAIN clauses /\ c \in Seq(Lits) /\ Range(c) = Range(stored[h])
          /\ DOMAIN c = 1..Len(c) /\ Len(c) >= 3 /\ Len(c) \in Nat
          /\ \A i \in DOMAIN c : c[i] \in Lits
        BY <1>0, <2>1, TurnedFacts
    <2>5. \A i \in DOMAIN clauses : Range(stored'[i]) = Range(stored[i])
        BY <1>0, <2>1, TurnFacts
    <2>6. 2 \in DOMAIN c
        BY <2>4
    <2>7. Range(stored[h]) \cap Range(trail') # {}
        <3>1. \/ IsTrue(c[2])
              \/ p # 0 /\ IsTrue(c[p])
              \/ IsUndef(c[2]) /\ trail' = Append(trail, c[2])
            BY <1>6 DEF KeepWatch
        <3>2. p # 0 => p \in DOMAIN c
            <4>1. p # 0 => p \in 3..Len(c)
                BY <2>4, NewWatchFacts
            <4> HIDE DEF p, c
            <4> QED
                BY <2>4, <4>1
        <3> HIDE DEF p, c
        <3>3. CASE IsTrue(c[2])
            BY <2>2, <2>4, <2>6, <3>3 DEF IsTrue, Range
        <3>4. CASE p # 0 /\ IsTrue(c[p])
            <4>1. c[p] \in Range(c)
                BY <3>2, <3>4 DEF Range
            <4> QED
                BY <2>2, <2>4, <3>4, <4>1 DEF IsTrue
        <3>5. CASE IsUndef(c[2]) /\ trail' = Append(trail, c[2])
            <4>1. c[2] \in Range(trail')
                BY <1>0, <2>4, <2>6, <3>5, EnqueueFacts
            <4>2. c[2] \in Range(c)
                BY <2>6 DEF Range
            <4> QED
                BY <2>4, <4>1, <4>2
        <3> QED
            BY <3>1, <3>3, <3>4, <3>5
    <2>8. Range(kept') = Range(kept) \cup {h} /\ Range(kept) \subseteq DOMAIN clauses
        <3>1. kept \in Seq(DOMAIN clauses)
            BY <1>0, <2>1 DEF Flow
        <3>2. Range(kept) \subseteq DOMAIN clauses
            BY <3>1 DEF Range
        <3> QED
            BY <2>1, <2>4, <3>1, <3>2, AppendFacts
    <2>9. \A i \in Range(kept') : Range(stored'[i]) \cap Range(trail') # {}
        <3>1. \A i \in Range(kept) : Range(stored[i]) \cap Range(trail) # {}
            BY <1>1, <2>1 DEF LitSettled
        <3> HIDE DEF h
        <3> QED
            BY <2>2, <2>4, <2>5, <2>7, <2>8, <3>1
    <2> QED
        BY <2>1, <2>3, <2>9 DEF LitSettled
<1>7. CASE MoveWatch
    <2>1. /\ pc = "watch" /\ pc' = "watch" /\ UNCHANGED <<implied, trailPos, trail, kept, clauses>>
        BY <1>7 DEF MoveWatch
    <2>2. Lit' = Lit
        BY <2>1 DEF Lit
    <2>3. \A i \in DOMAIN clauses : Range(stored'[i]) = Range(stored[i])
        BY <1>0, <1>7, MoveFacts
    <2>4. Range(kept) \subseteq DOMAIN clauses
        BY <1>0, <2>1 DEF Flow, Range
    <2> QED
        BY <1>1, <2>1, <2>2, <2>3, <2>4 DEF LitSettled
<1>8. CASE UNCHANGED vars
    <2>1. UNCHANGED <<implied, stored, trail, trailPos, pc, todo, kept>>
        BY <1>8 DEF vars, database
    <2> QED
        BY <1>1, <2>1 DEF LitSettled, Lit
<1> QED
    <2>1. CASE AddSatisfied \/ AddEmpty \/ AddUnit \/ AddedUnit \/ AddBinary \/ AddLong \/ Loaded
        BY <1>2, <2>1 DEF AddSatisfied, AddEmpty, AddUnit, AddedUnit, AddBinary, AddLong, Loaded, Adding
    <2>2. CASE Propagated \/ Conflict \/ EndWatches
        BY <1>0, <1>2, <2>2 DEF Propagated, Conflict, EndWatches, Return, FlagType
    <2>3. CASE Fill \/ BranchTrue \/ Leaf \/ BranchFalse \/ EndSplit
        BY <1>2, <2>3 DEF Fill, BranchTrue, Leaf, BranchFalse, EndSplit
    <2> QED
        BY <1>3, <1>4, <1>5, <1>6, <1>7, <1>8, <2>1, <2>2, <2>3, NextCases

\* A set of literals that misses nothing its members force is closed, once
\* every clause has been added.
LEMMA SettledClosed ==
    ASSUME Shape, NEW T \in SUBSET Lits, Consistent(T), UnitLits \subseteq T,
           \A l \in T : Settled(l, T),
           \A i \in DOMAIN clauses : Placed(i)
    PROVE  Closed(clauses, T)
<1>0. DatabaseType /\ StoredShape /\ clauses \in Formulas
    BY DEF Shape, DatabaseType
<1> SUFFICES ASSUME NEW i \in DOMAIN clauses, NEW j \in DOMAIN clauses[i],
                    \A k \in DOMAIN clauses[i] \ {j} : -clauses[i][k] \in T
             PROVE  clauses[i][j] \in T
    BY DEF Closed
<1> DEFINE c == clauses[i]
<1>1. ASSUME NEW s, NEW S, Drawn(s, c, S)
      PROVE  /\ \A m, n \in DOMAIN s : m # n => -s[m] \in T \/ -s[n] \in T
             /\ \A n \in DOMAIN s : s[n] \in T => c[j] \in T
    BY <1>1, DrawnLeft
<1>2. CASE \E k \in DOMAIN c : c[k] \in UnitLits
    <2>1. PICK k \in DOMAIN c : c[k] \in T
        BY <1>2
    <2>2. k # j => -c[k] \in T
        OBVIOUS
    <2> QED
        BY <2>1, <2>2 DEF Consistent
<1> HIDE DEF c
<1>3. ASSUME NEW a \in Lits, NEW b \in Lits, Drawn(<<a, b>>, c, Lits),
             b \in Range(implied[-a]), a \in Range(implied[-b])
      PROVE  c[j] \in T
    <2> DEFINE s == <<a, b>>
    <2>1. DOMAIN s = {1, 2} /\ s[1] = a /\ s[2] = b
        OBVIOUS
    <2>2. Drawn(s, c, Lits)
        BY <1>3
    <2> HIDE DEF s
    <2>3. -a \in T \/ -b \in T
        BY <1>1, <2>1, <2>2
    <2>4. b \in T \/ a \in T
        BY <1>3, <2>3 DEF Settled
    <2> QED
        BY <1>1, <2>1, <2>2, <2>4
<1>4. CASE stored[i] # <<>>
    <2> DEFINE s == stored[i]
    <2>1. s \in Seq(Lits) /\ Len(s) >= 3 /\ Drawn(s, c, Lits)
        BY <1>0, <1>4 DEF DatabaseType, StoredShape, c
    <2>2. i \in Watching(s[1]) /\ i \in Watching(s[2])
        BY <1>4 DEF Watching
    <2> HIDE DEF s
    <2>3. 1 \in DOMAIN s /\ 2 \in DOMAIN s
        BY <2>1
    <2>4. PICK n \in {1, 2} : -s[n] \in T
        BY <1>1, <2>1, <2>3
    <2>5. s[n] \in Lits
        BY <2>1, <2>3, <2>4, ElementOfSeq
    <2>6. -(-s[n]) = s[n]
        BY <2>5, LitFacts
    <2>7. Range(s) \cap T # {}
        <3> DEFINE l == -s[n]
        <3>1. l \in T /\ i \in Watching(-l)
            BY <2>2, <2>4, <2>6
        <3> HIDE DEF l
        <3> QED
            BY <3>1 DEF Settled, s
    <2>8. PICK m \in DOMAIN s : s[m] \in T
        BY <2>7 DEF Range
    <2> QED
        BY <1>1, <2>1, <2>8 DEF c
<1>5. Placed(i)
    OBVIOUS
<1> QED
    BY <1>2, <1>3, <1>4, <1>5 DEF Placed, c

\* The trail holds no contradiction.
LEMMA TrailConsistent ==
    ASSUME NEW s \in Seq(Lits), Distinct(s), NEW T \in SUBSET Range(s)
    PROVE  T \in SUBSET Lits /\ Consistent(T)
<1>1. Range(s) \subseteq Lits
    BY DEF Range
<1>2. ASSUME NEW l \in Range(s), -l \in Range(s)
      PROVE  FALSE
    <2>1. PICK p \in DOMAIN s : s[p] = l
        BY DEF Range
    <2>2. PICK q \in DOMAIN s : s[q] = -l
        BY <1>2 DEF Range
    <2>3. Var(-l) = Var(l) /\ -l # l
        BY <1>1, LitFacts
    <2> QED
        BY <2>1, <2>2, <2>3 DEF Distinct
<1> QED
    BY <1>1, <1>2 DEF Consistent

\* propagate() that returns TRUE has closed the trail.
LEMMA TrailClosed ==
    ASSUME Shape, ClausesPlaced, TrailSettled, Sane, ~Busy, next = Len(clauses) + 1
    PROVE  Closed(clauses, Range(trail))
<1>0. DatabaseType /\ TrailType
    BY DEF Shape
<1> DEFINE T == Range(trail)
<1>1. T \in SUBSET Lits /\ Consistent(T)
    BY <1>0, TrailConsistent DEF TrailType
<1>2. UnitLits \subseteq T
    <2>1. trailLimUnit \in 0..Len(trail)
        BY <1>0 DEF TrailType
    <2> QED
        BY <1>0, <2>1, UptoFacts DEF UnitLits, TrailType
<1>3. \A l \in T : Settled(l, T)
    BY AllSettled
<1>4. \A i \in DOMAIN clauses : Placed(i)
    <2>1. \A i \in DOMAIN clauses : i < next
        BY <1>0, ClauseFacts DEF DatabaseType
    <2> QED
        BY <2>1 DEF ClausesPlaced, Sane
<1> HIDE DEF T
<1>5. Closed(clauses, T)
    BY <1>1, <1>2, <1>3, <1>4, SettledClosed
<1> QED
    BY <1>5 DEF T

\* The units are never taken back.
LEMMA UnitLitsGrow ==
    ASSUME Shape, Shape', [Next]_vars, ~isUnsat
    PROVE  UnitLits \subseteq UnitLits'
<1>0. TrailType /\ FlagType /\ Flow /\ trail \in Seq(Lits)
    BY DEF Shape, TrailType
<1>1. ASSUME Loading, Loading', Range(trail) \subseteq Range(trail')
      PROVE  UnitLits \subseteq UnitLits'
    BY <1>1 DEF UnitLits
<1>2. ASSUME ~Loading, ~Loading', ~Loaded
      PROVE  UnitLits \subseteq UnitLits'
    BY <1>2, UnitsKept DEF UnitLits
<1>3. CASE AddSatisfied \/ AddEmpty \/ AddedUnit \/ AddBinary \/ AddLong
    <2>1. UNCHANGED trail /\ pc \in {"load", "unit"} /\ pc' = "load"
        BY <1>3 DEF AddSatisfied, AddEmpty, AddedUnit, AddBinary, AddLong, Adding
    <2> QED
        BY <1>1, <2>1 DEF Loading, Phase, Busy
<1>4. CASE AddUnit
    <2>1. Range(trail) \subseteq Range(trail')
        BY <1>4, GrownFacts
    <2>2. pc = "load" /\ pc' = "take" /\ caller' = "unit"
        BY <1>4 DEF AddUnit, Adding
    <2> QED
        BY <1>1, <2>1, <2>2 DEF Loading, Phase, Busy
<1>5. CASE Loaded
    <2>1. pc = "load" /\ pc' = "idle" /\ UNCHANGED trail /\ trailLimUnit' = Len(trail)
        BY <1>5 DEF Loaded
    <2>2. Loading /\ ~Loading'
        BY <2>1 DEF Loading, Phase, Busy
    <2>3. Upto(trail, Len(trail)) = Range(trail)
        BY <1>0, UptoFacts
    <2> QED
        BY <2>1, <2>2, <2>3 DEF UnitLits
<1>6. CASE Propagated \/ TakeLit \/ Imply \/ StartWatches \/ KeepWatch \/ MoveWatch
             \/ Conflict \/ EndWatches
    <2>1. Loading' = Loading /\ Busy
        BY <1>0, <1>6, BusyStep
    <2>2. Range(trail) \subseteq Range(trail')
        <3>1. CASE Imply \/ KeepWatch
            BY <3>1, GrownFacts
        <3>2. CASE UNCHANGED trail
            BY <3>2
        <3> QED
            BY <1>6, <3>1, <3>2 DEF Propagated, TakeLit, StartWatches, MoveWatch, Conflict, EndWatches
    <2>3. ~Loaded
        BY <2>1 DEF Loaded, Busy
    <2> QED
        BY <1>1, <1>2, <2>1, <2>2, <2>3
<1>7. CASE Fill \/ BranchTrue \/ Leaf \/ BranchFalse \/ EndSplit
    <2>1. /\ pc \in {"idle", "filled", "true", "false"}
          /\ pc' = "idle" \/ (pc' = "take" /\ caller' \in {"filled", "true", "false"})
        BY <1>7 DEF Fill, BranchTrue, Leaf, BranchFalse, EndSplit
    <2>2. ~Loading /\ ~Loading' /\ ~Loaded
        BY <2>1 DEF Loading, Phase, Busy, Loaded
    <2> QED
        BY <1>2, <2>2
<1>8. CASE UNCHANGED vars
    BY <1>8 DEF vars, UnitLits, Loading, Phase, Busy
<1> QED
    BY <1>3, <1>4, <1>5, <1>6, <1>7, <1>8, NextCases

\* A clause stays where it was placed.
LEMMA PlacedKept ==
    ASSUME Shape, Shape', [Next]_vars, ~isUnsat, NEW i \in DOMAIN clauses, Placed(i)
    PROVE  Placed(i)'
<1>0. DatabaseType /\ FlagType
    BY DEF Shape
<1>1. UNCHANGED clauses /\ UnitLits \subseteq UnitLits'
    BY SameClauses, UnitLitsGrow
<1>2. ASSUME NEW l \in Lits
      PROVE  Range(implied[l]) \subseteq Range(implied'[l])
    <2>1. CASE AddBinary
        BY <2>1, AddBinaryFacts
    <2>2. CASE AddSatisfied \/ AddEmpty \/ AddUnit \/ AddedUnit \/ AddLong \/ Loaded
        BY <2>2 DEF AddSatisfied, AddEmpty, AddUnit, AddedUnit, AddLong, Loaded, database
    <2>3. CASE Propagated \/ TakeLit \/ Imply \/ StartWatches \/ KeepWatch \/ MoveWatch
                 \/ Conflict \/ EndWatches
        BY <1>0, <2>3, BusyStep
    <2>4. CASE Fill \/ BranchTrue \/ Leaf \/ BranchFalse \/ EndSplit \/ UNCHANGED vars
        BY <2>4 DEF Fill, BranchTrue, Leaf, BranchFalse, EndSplit, vars, database
    <2> QED
        BY <2>1, <2>2, <2>3, <2>4, NextCases
<1>3. stored[i] # <<>> => stored'[i] # <<>>
    <2>1. CASE AddLong
        BY <2>1, AddLongFacts
    <2>2. CASE ~AddLong
        BY <2>2, StoredKept
    <2> QED
        BY <2>1, <2>2
<1>4. CASE \E j \in DOMAIN clauses[i] : clauses[i][j] \in UnitLits
    BY <1>1, <1>4 DEF Placed
<1>5. ASSUME NEW a \in Lits, NEW b \in Lits, Drawn(<<a, b>>, clauses[i], Lits),
             b \in Range(implied[-a]), a \in Range(implied[-b])
      PROVE  Placed(i)'
    <2>1. -a \in Lits /\ -b \in Lits
        BY LitFacts
    <2>2. b \in Range(implied'[-a]) /\ a \in Range(implied'[-b])
        BY <1>2, <1>5, <2>1
    <2> QED
        BY <1>1, <1>5, <2>2 DEF Placed
<1>6. CASE stored[i] # <<>>
    BY <1>3, <1>6 DEF Placed
<1> QED
    BY <1>4, <1>5, <1>6 DEF Placed

LEMMA ClausesPlacedStep == Shape /\ Shape' /\ Complete /\ [Next]_vars => ClausesPlaced'
<1> SUFFICES ASSUME Shape, Shape', Complete, [Next]_vars, ~isUnsat',
                    NEW i \in DOMAIN clauses, i < next'
             PROVE  Placed(i)'
    BY SameClauses DEF ClausesPlaced
<1>0. DatabaseType /\ FlagType /\ Flow /\ TrailType
    BY DEF Shape
<1>1. UNCHANGED clauses
    BY SameClauses
<1>2. ~isUnsat
    <2>1. isUnsat => pc \in {"load", "idle"} /\ isUnsat \in BOOLEAN /\ isUnsat' \in BOOLEAN
        BY <1>0 DEF Flow, FlagType, Shape
    <2>2. CASE AddSatisfied \/ AddEmpty \/ AddUnit \/ AddedUnit \/ AddBinary \/ AddLong \/ Loaded
        BY <2>1, <2>2 DEF AddSatisfied, AddEmpty, AddUnit, AddedUnit, AddBinary, AddLong, Loaded
    <2>3. CASE Propagated \/ TakeLit \/ Imply \/ StartWatches \/ KeepWatch \/ MoveWatch
                 \/ Conflict \/ EndWatches
        BY <1>0, <2>3, BusyStep
    <2>4. CASE Fill \/ BranchTrue \/ Leaf \/ BranchFalse \/ EndSplit \/ UNCHANGED vars
        BY <2>4 DEF Fill, BranchTrue, Leaf, BranchFalse, EndSplit, vars
    <2> QED
        BY <2>2, <2>3, <2>4, NextCases
<1>3. CASE i < next
    BY <1>2, <1>3, PlacedKept DEF Complete, ClausesPlaced
<1>4. UNCHANGED next => i < next
    OBVIOUS
<1> DEFINE c == clauses[next]
           r == Reduced(c)
<1>5. Adding /\ i >= next => i = next
    <2>1. Len(clauses) \in Nat /\ DOMAIN clauses = 1..Len(clauses)
        BY <1>0, ClauseFacts DEF DatabaseType
    <2>2. i \in Nat /\ next \in Nat
        BY <1>0, <2>1 DEF DatabaseType
    <2> QED
        BY <2>2 DEF Adding
<1>6. ASSUME Adding, pc' \in {"load", "unit"} \/ (pc' = "take" /\ caller' = "unit")
      PROVE  UnitLits' = Range(trail')
    BY <1>6 DEF UnitLits, Loading, Phase, Busy
<1>7. CASE i = next /\ AddSatisfied
    <2>1. Adding /\ UNCHANGED <<trail, pc>> /\ \E j \in DOMAIN c : IsTrue(c[j])
        BY <1>7 DEF AddSatisfied
    <2>2. UnitLits' = Range(trail)
        BY <1>6, <2>1 DEF Adding
    <2> QED
        BY <1>1, <1>7, <2>1, <2>2 DEF Placed, IsTrue
<1>8. CASE i = next /\ AddUnit
    <2>1. Adding /\ Len(r) = 1 /\ trail' = Append(trail, r[1]) /\ pc' = "take" /\ caller' = "unit"
        BY <1>8 DEF AddUnit
    <2>2. r \in Seq(Lits) /\ DOMAIN r = 1..Len(r) /\ Range(r) \subseteq Range(c)
        BY <1>0, <2>1, ReducedFacts
    <2> HIDE DEF r
    <2>3. 1 \in DOMAIN r
        BY <2>1, <2>2
    <2>4. r[1] \in Lits /\ r[1] \in Range(c)
        <3>1. r[1] \in Lits /\ r[1] \in Range(r)
            BY <2>2, <2>3 DEF Range
        <3> QED
            BY <2>2, <3>1
    <2>5. r[1] \in Range(trail')
        BY <1>0, <2>1, <2>4, AppendFacts DEF TrailType
    <2>6. UnitLits' = Range(trail')
        BY <1>6, <2>1
    <2>7. PICK j \in DOMAIN c : c[j] = r[1]
        BY <2>4 DEF Range
    <2> QED
        BY <1>1, <1>8, <2>5, <2>6, <2>7 DEF Placed
<1>9. CASE i = next /\ AddBinary
    <2> DEFINE a == r[1]
               b == r[2]
    <2>1. /\ a \in Lits /\ b \in Lits /\ Drawn(<<a, b>>, c, Range(trail))
          /\ \A l \in Lits : Range(implied'[l]) = Range(implied[l])
                   \cup (IF l = -a THEN {b} ELSE {}) \cup (IF l = -b THEN {a} ELSE {})
        BY <1>9, AddBinaryFacts
    <2>2. Range(trail) \subseteq Lits
        BY <1>0 DEF TrailType, Range
    <2> HIDE DEF a, b, r
    <2>3. -a \in Lits /\ -b \in Lits
        BY <2>1, LitFacts
    <2>4. b \in Range(implied'[-a]) /\ a \in Range(implied'[-b])
        BY <2>1, <2>3
    <2>5. Drawn(<<a, b>>, c, Lits)
        BY <2>1, <2>2, DrawnMore
    <2> QED
        BY <1>1, <1>9, <2>1, <2>4, <2>5 DEF Placed
<1>10. CASE i = next /\ AddLong
    <2>1. stored'[next] = r /\ r \in Seq(Lits) /\ Len(r) >= 3
        BY <1>10, AddLongFacts
    <2> HIDE DEF r
    <2>2. r # <<>>
        BY <2>1
    <2> QED
        BY <1>10, <2>1, <2>2 DEF Placed
<1>11. CASE AddEmpty
    BY <1>11 DEF AddEmpty
<1> HIDE DEF c, r
<1>12. CASE AddSatisfied \/ AddUnit \/ AddBinary \/ AddLong
    <2>1. Adding
        BY <1>12 DEF AddSatisfied, AddUnit, AddBinary, AddLong
    <2>2. i < next \/ i = next
        BY <1>0, <1>5, <2>1, ClauseFacts DEF DatabaseType
    <2> QED
        BY <1>3, <1>7, <1>8, <1>9, <1>10, <1>12, <2>2
<1>13. CASE AddedUnit \/ Loaded
    BY <1>3, <1>4, <1>13 DEF AddedUnit, Loaded, database
<1>14. CASE Propagated \/ TakeLit \/ Imply \/ StartWatches \/ KeepWatch \/ MoveWatch
              \/ Conflict \/ EndWatches
    BY <1>0, <1>3, <1>4, <1>14, BusyStep
<1>15. CASE Fill \/ BranchTrue \/ Leaf \/ BranchFalse \/ EndSplit \/ UNCHANGED vars
    BY <1>3, <1>4, <1>15 DEF Fill, BranchTrue, Leaf, BranchFalse, EndSplit, vars, database
<1> QED
    BY <1>11, <1>12, <1>13, <1>14, <1>15, NextCases

LEMMA CubesClosedStep == Shape /\ Complete /\ [Next]_vars => CubesClosed'
<1> SUFFICES ASSUME Shape, Complete, [Next]_vars
             PROVE  CubesClosed'
    OBVIOUS
<1>0. DatabaseType /\ FlagType /\ Flow /\ TrailType /\ CubesClosed
    BY DEF Shape, Complete
<1>1. UNCHANGED clauses
    BY SameClauses
<1>2. ASSUME UNCHANGED <<cubes, cube>>, Cubing' => Cubing
      PROVE  CubesClosed'
    BY <1>0, <1>1, <1>2 DEF CubesClosed
<1>3. ASSUME pc \in {"true", "false"}, result
      PROVE  Closed(clauses, Range(trail))
    <2>1. ~Loading /\ ~Busy /\ Phase # "idle"
        BY <1>3 DEF Loading, Phase, Busy
    <2>2. ~isUnsat
        BY <1>0, <1>3 DEF Flow
    <2>3. next = Len(clauses) + 1
        BY <1>0, <2>1, <2>2 DEF Flow
    <2>4. Sane
        BY <1>3, <2>1, <2>2 DEF Sane
    <2> QED
        BY <2>1, <2>3, <2>4, TrailClosed DEF Complete
<1>4. CASE Loaded
    <2>1. pc = "load" /\ (next > Len(clauses) \/ isUnsat) /\ pc' = "idle"
          /\ cubes' = IF isUnsat THEN {} ELSE {trail}
        BY <1>4 DEF Loaded
    <2>2. ~Cubing'
        BY <2>1 DEF Cubing, Phase, Busy
    <2>3. ASSUME ~isUnsat
          PROVE  Closed(clauses, Range(trail))
        <3>1. next = Len(clauses) + 1
            BY <1>0, <2>1, <2>3, ClauseFacts DEF DatabaseType
        <3>2. Sane /\ ~Busy
            BY <2>1, <2>3 DEF Sane, Phase, Busy, Returned
        <3> QED
            BY <3>1, <3>2, TrailClosed DEF Complete
    <2> QED
        BY <1>1, <2>1, <2>2, <2>3 DEF CubesClosed
<1>5. CASE Fill
    <2>1. cube' \in cubes /\ cubes' \subseteq cubes
        BY <1>5 DEF Fill
    <2> QED
        BY <1>0, <1>1, <2>1 DEF CubesClosed
<1>6. CASE BranchTrue \/ Leaf
    BY <1>2, <1>6 DEF BranchTrue, Leaf, driver, Cubing, Phase, Busy
<1>7. CASE BranchFalse \/ EndSplit
    <2>1. /\ pc \in {"true", "false"} /\ UNCHANGED cube
          /\ cubes' = IF result THEN cubes \cup {trail} ELSE cubes
        BY <1>7 DEF BranchFalse, EndSplit
    <2>2. Cubing
        BY <2>1 DEF Cubing, Phase, Busy
    <2> QED
        BY <1>0, <1>1, <1>3, <2>1, <2>2 DEF CubesClosed
<1>8. CASE Propagated \/ TakeLit \/ Imply \/ StartWatches \/ KeepWatch \/ MoveWatch
             \/ Conflict \/ EndWatches
    BY <1>0, <1>2, <1>8, BusyStep
<1>9. CASE AddSatisfied \/ AddEmpty \/ AddUnit \/ AddedUnit \/ AddBinary \/ AddLong
    <2>1. /\ UNCHANGED driver
          /\ pc' = "load" \/ (pc' = "take" /\ caller' = "unit")
        BY <1>9 DEF AddSatisfied, AddEmpty, AddUnit, AddedUnit, AddBinary, AddLong, Adding
    <2> QED
        BY <1>2, <2>1 DEF driver, Cubing, Phase, Busy
<1>10. CASE UNCHANGED vars
    BY <1>2, <1>10 DEF vars, driver, Cubing, Phase, Busy
<1> QED
    BY <1>4, <1>5, <1>6, <1>7, <1>8, <1>9, <1>10, NextCases

LEMMA InitComplete == Init => Complete
<1> SUFFICES ASSUME Init
             PROVE  Complete
    OBVIOUS
<1>1. pc = "load" /\ Phase = "load"
    BY DEF Init, Phase, Busy
<1>2. Upto(trail, 0) = {} /\ trailPos = 0 /\ trailLimUnit = 0 /\ next = 1
    BY DEF Init, Upto
<1>3. ClausesPlaced
    <2>1. \A i \in DOMAIN clauses : ~(i < next)
        BY <1>2, ClauseFacts DEF Init
    <2> QED
        BY <2>1 DEF ClausesPlaced
<1>4. UnitsSettled
    BY <1>2 DEF UnitsSettled
<1>5. CubeSettled
    BY <1>1 DEF CubeSettled, Halving
<1>6. TrailSettled
    BY <1>1, <1>2 DEF TrailSettled, Ready
<1>7. LitSettled
    BY <1>1 DEF LitSettled
<1>8. CubesClosed
    BY <1>1 DEF Init, CubesClosed, Cubing
<1> QED
    BY <1>3, <1>4, <1>5, <1>6, <1>7, <1>8 DEF Complete

LEMMA CompleteHolds == Spec => []Complete
<1>1. Shape /\ Shape' /\ Complete /\ [Next]_vars => Complete'
    BY ClausesPlacedStep, UnitsSettledStep, CubeSettledStep, TrailSettledStep, LitSettledStep,
       CubesClosedStep DEF Complete
<1> QED
    BY <1>1, InitComplete, ShapeHolds, PTL DEF Spec

-----------------------------------------------------------------------------
(***************************************************************************)
(* The theorems.                                                           *)
(***************************************************************************)
\* What the caller decided is what the trail rests on.
LEMMA ReturnedFacts ==
    ASSUME Shape, pc \in {"filled", "true", "false"}
    PROVE  /\ Decided = Given /\ Cubing /\ ~Busy /\ ~isUnsat /\ next = Len(clauses) + 1
           /\ Phase # "idle" /\ Returned /\ (result => Sane)
           /\ Given \in SUBSET Lits /\ clauses \in Formulas
<1>1. Cubing /\ ~Busy /\ Phase = pc /\ Returned /\ ~Loading
    BY DEF Cubing, Busy, Phase, Returned, Loading
<1>2. Decided = Given
    BY <1>1 DEF Decided, Given
<1>3. ~isUnsat
    BY DEF Shape, Flow
<1>4. next = Len(clauses) + 1
    BY <1>1, <1>3 DEF Shape, Flow
<1>5. result => Sane
    BY <1>1, <1>3 DEF Sane
<1> QED
    BY <1>1, <1>2, <1>3, <1>4, <1>5, GivenFacts DEF Shape, DatabaseType

\* What was decided is on the trail.
LEMMA GivenOnTrail ==
    ASSUME Shape, Cubing
    PROVE  Given \subseteq Range(trail)
<1>1. Range(cube) \subseteq Range(trail)
    BY CubeOnTrail
<1>2. ASSUME Halving
      PROVE  (IF Phase = "true" THEN branch ELSE -branch) \in Range(trail)
    <2>1. /\ base \in Nat /\ base < Len(trail) /\ trail \in Seq(Lits)
          /\ trail[base + 1] = IF Phase = "true" THEN branch ELSE -branch
        BY <1>2 DEF Shape, DriverShape, TrailType
    <2>2. base + 1 \in DOMAIN trail
        BY <2>1
    <2> QED
        BY <2>1, <2>2 DEF Range
<1> QED
    BY <1>1, <1>2, GivenFacts DEF Cubing, Halving

\* What propagate() has done when it returns.
LEMMA TrailIsClosure ==
    ASSUME Shape, Sound, Complete, pc \in {"filled", "true", "false"}
    PROVE  IF result THEN Range(trail) = Cl(Given) ELSE ~Consistent(Cl(Given))
<1>1. /\ Cubing /\ ~Busy /\ next = Len(clauses) + 1 /\ Phase # "idle" /\ Returned
      /\ (result => Sane) /\ Given \in SUBSET Lits /\ clauses \in Formulas
    BY ReturnedFacts
<1>2. CASE ~result
    BY <1>1, <1>2 DEF Sound, ConflictFollows
<1>3. CASE result
    <2>1. Range(trail) \subseteq Cl(Given)
        BY <1>1 DEF Sound, TrailFollows
    <2>2. Closed(clauses, Range(trail))
        BY <1>1, <1>3, TrailClosed DEF Complete
    <2>3. Given \subseteq Range(trail) /\ Range(trail) \in SUBSET Lits
        BY <1>1, GivenOnTrail, TrailConsistent DEF Shape, TrailType
    <2>4. Cl(Given) \subseteq Range(trail)
        BY <1>1, <2>2, <2>3, ClFacts
    <2>5. Range(trail) = Cl(Given)
        BY <2>1, <2>4
    <2> QED
        BY <1>3, <2>5
<1> QED
    BY <1>2, <1>3

(***************************************************************************)
(* propagate() computes unit propagation, for every formula and every      *)
(* order in which cubes are taken up, refilled and split: when it returns  *)
(* TRUE the trail is the closure of what createCubes() decided, neither a  *)
(* literal more nor one less, and when it returns FALSE that closure has a *)
(* contradiction.                                                          *)
(***************************************************************************)
THEOREM PropagationIsExact == Spec => []PropagatesAll
<1>1. Shape /\ Sound /\ Complete => PropagatesAll
    BY TrailIsClosure, ReturnedFacts DEF PropagatesAll, Cl
<1> QED
    BY <1>1, ShapeHolds, SoundHolds, CompleteHolds, PTL

(***************************************************************************)
(* The two assertions of createCubes() on a cube taken from the queue hold *)
(* for every formula: it propagates without a conflict, to as many         *)
(* literals as it has.                                                     *)
(***************************************************************************)
THEOREM CubesRefill == Spec => []CubeRefills
<1>1. ASSUME Shape, Sound, Complete
      PROVE  CubeRefills
    <2> SUFFICES ASSUME pc = "filled"
                 PROVE  result /\ Len(trail) = Len(cube)
        BY DEF CubeRefills
    <2>1. Cubing /\ Phase = "filled" /\ Returned /\ clauses \in Formulas
        BY <1>1, ReturnedFacts DEF Phase, Busy
    <2>2. Given = Range(cube)
        BY <1>1, <2>1, GivenFacts
    <2>3. cube \in Seq(Lits) /\ Distinct(cube) /\ Agree(cube, trail, Len(cube))
        BY <1>1, <2>1 DEF Shape, DriverShape, Based
    <2>4. Range(cube) \in SUBSET Lits /\ Consistent(Range(cube))
        BY <2>3, TrailConsistent
    <2>5. Closed(clauses, Range(cube))
        BY <1>1, <2>1 DEF Complete, CubesClosed
    <2>6. Cl(Given) \subseteq Range(cube)
        BY <2>1, <2>2, <2>4, <2>5, ClFacts
    <2>7. Consistent(Cl(Given))
        BY <2>4, <2>6 DEF Consistent
    <2>8. result
        BY <1>1, <2>1, <2>7 DEF Sound, ConflictFollows, Shape, FlagType
    <2>9. Range(trail) \subseteq Range(cube)
        BY <1>1, <2>1, <2>6 DEF Sound, TrailFollows
    <2>10. trail \in Seq(Lits) /\ Distinct(trail)
        BY <1>1 DEF Shape, TrailType
    <2>11. Len(cube) \in 0..Len(trail)
        BY <1>1, <2>1, CubeOnTrail
    <2>12. ASSUME Len(cube) < Len(trail)
           PROVE  FALSE
        <3> DEFINE n == Len(trail)
        <3>1. n \in DOMAIN trail /\ n > Len(cube) /\ DOMAIN cube = 1..Len(cube)
            BY <2>3, <2>10, <2>12
        <3>2. trail[n] \in Range(cube)
            BY <2>9, <3>1 DEF Range
        <3>3. PICK q \in DOMAIN cube : cube[q] = trail[n]
            BY <3>2 DEF Range
        <3>4. q \in DOMAIN trail /\ trail[q] = trail[n] /\ q < n
            BY <2>3, <2>10, <2>11, <3>1, <3>3 DEF Agree
        <3> QED
            BY <2>10, <3>1, <3>4 DEF Distinct
    <2> QED
        BY <2>8, <2>11, <2>12
<1> QED
    BY <1>1, ShapeHolds, SoundHolds, CompleteHolds, PTL

(***************************************************************************)
(* The assertions of uncheckedEnqueue and createCubes never fail, for      *)
(* every formula and in whatever order cubes are taken up.                 *)
(***************************************************************************)
THEOREM AssertionsNeverFail == Spec => []AssertionsHold
<1>1. EnqueuedOnce /\ CubeRefills => AssertionsHold
    BY DEF AssertionsHold
<1> QED
    BY <1>1, NeverEnqueuedTwice, CubesRefill, PTL

(***************************************************************************)
(* The constructor sets m_isUnsat exactly when the formula has an empty    *)
(* clause or unit propagation of its unit clauses ends in a contradiction. *)
(***************************************************************************)
THEOREM ConstructorRefutes == Spec => []LoadedRefuted
<1>1. ASSUME Shape, Sound, Complete
      PROVE  LoadedRefuted
    <2> SUFFICES ASSUME pc = "idle"
                 PROVE  isUnsat <=> Refuted(NumVars, clauses)
        BY DEF LoadedRefuted
    <2>0. DatabaseType /\ TrailType /\ clauses \in Formulas
        BY <1>1 DEF Shape, DatabaseType
    <2>1. isUnsat => Refuted(NumVars, clauses)
        BY <1>1 DEF Sound, ConflictFollows
    <2>2. ASSUME ~isUnsat
          PROVE  ~Refuted(NumVars, clauses)
        <3> DEFINE T == Upto(trail, trailLimUnit)
        <3>1. ~Loading /\ next = Len(clauses) + 1
            BY <1>1, <2>2 DEF Loading, Phase, Busy, Shape, Flow
        <3>2. \A i \in DOMAIN clauses : Placed(i)
            <4>1. \A i \in DOMAIN clauses : i < next
                BY <2>0, <3>1, ClauseFacts
            <4> QED
                BY <1>1, <2>2, <4>1 DEF Complete, ClausesPlaced
        <3>3. UnitLits = T
            BY <3>1 DEF UnitLits
        <3>4. T \in SUBSET Lits /\ Consistent(T)
            <4>1. trailLimUnit \in 0..Len(trail)
                BY <2>0 DEF TrailType
            <4>2. T \subseteq Range(trail)
                BY <2>0, <4>1, UptoFacts DEF TrailType
            <4> QED
                BY <2>0, <4>2, TrailConsistent DEF TrailType
        <3>5. \A l \in T : Settled(l, T)
            BY <1>1 DEF Complete, UnitsSettled
        <3> HIDE DEF T
        <3>6. Closed(clauses, T)
            BY <1>1, <3>2, <3>3, <3>4, <3>5, SettledClosed
        <3>7. Cl({}) \subseteq T
            BY <2>0, <3>4, <3>6, ClFacts
        <3>8. Consistent(Cl({}))
            BY <3>4, <3>7 DEF Consistent
        <3>9. ASSUME NEW i \in DOMAIN clauses, clauses[i] = <<>>
              PROVE  FALSE
            <4>1. Placed(i)
                BY <3>2
            <4>2. DOMAIN clauses[i] = {} /\ Range(clauses[i]) = {}
                BY <3>9 DEF Range
            <4>3. stored[i] # <<>>
                <5>1. ASSUME NEW a \in Lits, NEW b \in Lits, Drawn(<<a, b>>, clauses[i], Lits)
                      PROVE  FALSE
                    <6>1. 1 \in DOMAIN <<a, b>>
                        OBVIOUS
                    <6>2. Range(<<a, b>>) \subseteq Range(clauses[i])
                        BY <5>1, DrawnRange
                    <6> QED
                        BY <4>2, <6>1, <6>2 DEF Range
                <5> QED
                    BY <4>1, <4>2, <5>1 DEF Placed
            <4>4. stored[i] \in Seq(Lits) /\ Len(stored[i]) >= 3 /\ Range(stored[i]) \subseteq {}
                <5>1. Drawn(stored[i], clauses[i], Lits)
                    BY <1>1, <4>3 DEF Shape, StoredShape
                <5>2. Range(stored[i]) \subseteq {}
                    BY <4>2, <5>1, DrawnRange
                <5> QED
                    BY <1>1, <2>0, <4>3, <5>2 DEF DatabaseType, Shape, StoredShape
            <4>5. 1 \in DOMAIN stored[i]
                BY <4>4
            <4> QED
                BY <4>4, <4>5 DEF Range
        <3> QED
            BY <3>8, <3>9 DEF Refuted, Cl
    <2> QED
        BY <1>1, <2>1, <2>2 DEF Shape, FlagType
<1> QED
    BY <1>1, ShapeHolds, SoundHolds, CompleteHolds, PTL

-----------------------------------------------------------------------------
(***************************************************************************)
(* The cubes, and the contract of createCubes().                           *)
(***************************************************************************)
\* No model satisfies the literals of both.
Clash(A, B) == \E l \in A : -l \in B

FirstHalf == Cl(Range(cube) \cup {branch})

\* The cubes clash pairwise and with the one being split, but for its first
\* half, which is there unless unit propagation has refuted it.
Apart ==
    /\ \A c, d \in cubes : c # d => Clash(Range(c), Range(d))
    /\ Phase \in {"filled", "true"} => \A c \in cubes : Clash(Range(c), Range(cube))
    /\ Phase = "false" =>
          /\ \A c \in cubes : Clash(Range(c), Range(cube)) \/ Range(c) = FirstHalf
          /\ Consistent(FirstHalf) => \E c \in cubes : Range(c) = FirstHalf

\* A clash is mutual, and stays when literals are added.
LEMMA ClashFacts ==
    ASSUME NEW A \in SUBSET Lits, NEW B \in SUBSET Lits, Clash(A, B)
    PROVE  /\ Clash(B, A)
           /\ \A S : B \subseteq S => Clash(A, S)
           /\ \A S : A \subseteq S => Clash(S, B)
           /\ Consistent(A) => ~(B \subseteq A)
<1>1. PICK l \in A : -l \in B
    BY DEF Clash
<1>2. -(-l) = l
    BY LitFacts
<1>3. Clash(B, A)
    BY <1>1, <1>2 DEF Clash
<1>4. Consistent(A) => ~(B \subseteq A)
    BY <1>1 DEF Consistent
<1> QED
    BY <1>1, <1>3, <1>4 DEF Clash

\* A cube is a consistent set of literals.
LEMMA CubeFacts ==
    ASSUME Shape
    PROVE  /\ \A c \in cubes : Range(c) \in SUBSET Lits /\ Consistent(Range(c))
           /\ Cubing => Range(cube) \in SUBSET Lits /\ Consistent(Range(cube))
           /\ Range(trail) \in SUBSET Lits /\ Consistent(Range(trail))
BY TrailConsistent DEF Shape, DriverShape, Based, TrailType

\* What the half of a cube adds, and what propagate() says of it.
LEMMA HalfFacts ==
    ASSUME Shape, Sound, Complete, pc \in {"true", "false"},
           NEW l, l = IF pc = "true" THEN branch ELSE -branch
    PROVE  /\ Range(cube) \subseteq Range(trail) /\ l \in Range(trail)
           /\ result => Range(trail) = Cl(Range(cube) \cup {l})
           /\ result <=> Consistent(Cl(Range(cube) \cup {l}))
<1>1. Cubing /\ Given = Range(cube) \cup {l}
    <2>1. Phase = pc /\ Cubing
        BY DEF Phase, Busy, Cubing
    <2> QED
        BY <2>1, GivenFacts
<1>2. Given \subseteq Range(trail)
    BY <1>1, GivenOnTrail
<1>3. IF result THEN Range(trail) = Cl(Given) ELSE ~Consistent(Cl(Given))
    BY TrailIsClosure
<1>4. Consistent(Range(trail))
    BY CubeFacts
<1> QED
    BY <1>1, <1>2, <1>3, <1>4

\* The cubes stay apart.
LEMMA ApartStep == Shape /\ Sound /\ Complete /\ Apart /\ [Next]_vars => Apart'
<1> SUFFICES ASSUME Shape, Sound, Complete, Apart, [Next]_vars
             PROVE  Apart'
    OBVIOUS
<1>1. FlagType /\ Flow
    BY DEF Shape
<1>2. \A c, d \in cubes : c # d => Clash(Range(c), Range(d))
    BY DEF Apart
<1>3. CASE AddSatisfied \/ AddEmpty \/ AddUnit \/ AddedUnit \/ AddBinary \/ AddLong
    <2>1. Loading /\ cubes' = cubes /\ Phase' \in {"load", "unit"}
        BY <1>3 DEF AddSatisfied, AddEmpty, AddUnit, AddedUnit, AddBinary, AddLong, Adding,
                    Loading, Phase, Busy, driver
    <2> QED
        BY <1>1, <2>1 DEF Flow, Apart
<1>4. CASE Loaded
    <2>1. Phase' = "idle" /\ (cubes' = {} \/ cubes' = {trail})
        BY <1>4 DEF Loaded, Phase, Busy
    <2> QED
        BY <2>1 DEF Apart
<1>5. CASE \/ Propagated \/ TakeLit \/ Imply \/ StartWatches
           \/ KeepWatch \/ MoveWatch \/ Conflict \/ EndWatches
    <2>1. UNCHANGED <<clauses, cubes, cube, branch, Phase>>
        BY <1>1, <1>5, BusyStep
    <2> QED
        BY <2>1 DEF Apart, FirstHalf, Cl
<1>6. CASE Fill
    <2>1. PICK c \in cubes : cube' = c /\ cubes' = cubes \ {c}
        BY <1>6 DEF Fill
    <2>2. Phase' = "filled"
        BY <1>6 DEF Fill, Phase, Busy
    <2>3. /\ \A d \in cubes' : Clash(Range(d), Range(cube'))
          /\ \A d, e \in cubes' : d # e => Clash(Range(d), Range(e))
        BY <1>2, <2>1
    <2> QED
        BY <2>2, <2>3 DEF Apart
<1>7. CASE BranchTrue
    <2>1. Phase = "filled" /\ Phase' = "true" /\ UNCHANGED <<cubes, cube>>
        BY <1>7 DEF BranchTrue, Phase, Busy
    <2>2. \A c \in cubes : Clash(Range(c), Range(cube))
        BY <2>1 DEF Apart
    <2> QED
        BY <1>2, <2>1, <2>2 DEF Apart
<1>8. CASE Leaf
    <2>1. Phase' = "idle" /\ UNCHANGED cubes
        BY <1>8 DEF Leaf, Phase, Busy, driver
    <2> QED
        BY <1>2, <2>1 DEF Apart
<1>9. CASE BranchFalse
    <2>1. /\ pc = "true" /\ Phase = "true" /\ Phase' = "false" /\ UNCHANGED <<cube, branch, clauses>>
          /\ cubes' = IF result THEN cubes \cup {trail} ELSE cubes
          /\ result \in BOOLEAN /\ Cubing
        BY <1>1, <1>9 DEF BranchFalse, Phase, Busy, database, FlagType, Cubing
    <2>2. /\ Range(cube) \subseteq Range(trail)
          /\ result => Range(trail) = FirstHalf
          /\ result <=> Consistent(FirstHalf)
        BY <2>1, HalfFacts DEF FirstHalf
    <2>3. \A c \in cubes : Clash(Range(c), Range(cube))
        BY <2>1 DEF Apart
    <2>4. \A c \in cubes : Clash(Range(c), Range(trail)) /\ Clash(Range(trail), Range(c))
        <3> SUFFICES ASSUME NEW c \in cubes
                     PROVE  Clash(Range(c), Range(trail)) /\ Clash(Range(trail), Range(c))
            OBVIOUS
        <3>1. /\ Range(c) \in SUBSET Lits /\ Range(cube) \in SUBSET Lits
              /\ Range(trail) \in SUBSET Lits
            BY <2>1, CubeFacts
        <3>2. Clash(Range(c), Range(trail))
            BY <2>2, <2>3, <3>1, ClashFacts
        <3> QED
            BY <3>1, <3>2, ClashFacts
    <2>5. \A c, d \in cubes' : c # d => Clash(Range(c), Range(d))
        BY <1>2, <2>1, <2>4
    <2>6. FirstHalf' = FirstHalf
        BY <2>1 DEF FirstHalf, Cl
    <2>7. \A c \in cubes' : Clash(Range(c), Range(cube)) \/ Range(c) = FirstHalf
        BY <2>1, <2>2, <2>3
    <2>8. Consistent(FirstHalf) => \E c \in cubes' : Range(c) = FirstHalf
        BY <2>1, <2>2
    <2> QED
        BY <2>1, <2>5, <2>6, <2>7, <2>8 DEF Apart
<1>10. CASE EndSplit
    <2>1. /\ pc = "false" /\ Phase = "false" /\ Phase' = "idle"
          /\ cubes' = IF result THEN cubes \cup {trail} ELSE cubes
          /\ result \in BOOLEAN /\ Cubing /\ Halving
        BY <1>1, <1>10 DEF EndSplit, Phase, Busy, FlagType, Cubing, Halving
    <2>2. Range(cube) \subseteq Range(trail) /\ -branch \in Range(trail)
        BY <2>1, HalfFacts
    <2>3. \A c \in cubes : Clash(Range(c), Range(trail)) /\ Clash(Range(trail), Range(c))
        <3> SUFFICES ASSUME NEW c \in cubes
                     PROVE  Clash(Range(c), Range(trail)) /\ Clash(Range(trail), Range(c))
            OBVIOUS
        <3>1. /\ Range(c) \in SUBSET Lits /\ Range(cube) \in SUBSET Lits
              /\ Range(trail) \in SUBSET Lits
            BY <2>1, CubeFacts
        <3>2. CASE Clash(Range(c), Range(cube))
            BY <2>2, <3>1, <3>2, ClashFacts
        <3>3. CASE Range(c) = FirstHalf
            <4>1. branch \in FirstHalf
                <5>1. Range(cube) \cup {branch} \in SUBSET Lits /\ clauses \in Formulas
                    BY <2>1, <3>1, GivenFacts DEF Shape, DatabaseType
                <5> QED
                    BY <5>1, ClFacts DEF FirstHalf
            <4>2. Clash(Range(c), Range(trail))
                BY <2>2, <3>3, <4>1 DEF Clash
            <4> QED
                BY <3>1, <4>2, ClashFacts
        <3> QED
            BY <2>1, <3>2, <3>3 DEF Apart
    <2>4. \A c, d \in cubes' : c # d => Clash(Range(c), Range(d))
        BY <1>2, <2>1, <2>3
    <2> QED
        BY <2>1, <2>4 DEF Apart
<1>11. CASE UNCHANGED vars
    BY <1>11 DEF vars, driver, database, Apart, FirstHalf, Cl, Phase, Busy
<1> QED
    BY <1>3, <1>4, <1>5, <1>6, <1>7, <1>8, <1>9, <1>10, <1>11, NextCases

LEMMA ApartHolds == Spec => []Apart
<1>1. Init => Apart
    BY DEF Init, Apart, Phase, Busy
<1> QED
    BY <1>1, ApartStep, ShapeHolds, SoundHolds, CompleteHolds, PTL DEF Spec

\* The operators of the contract are those of UnitProp.
LEMMA ContractOperators ==
    /\ \A A : Contract!Propagate(A) = Cl(A)
    /\ \A S : Contract!Consistent(S) <=> Consistent(S)
    /\ Contract!Refuted(NumVars, clauses) <=> Refuted(NumVars, clauses)
    /\ \A S : Contract!VarsOf(S) = VarsOf(S)
<1>1. \A S : Contract!Closed(clauses, S) <=> Closed(clauses, S)
    BY DEF Contract!Closed, Closed
<1>2. Contract!Literals(NumVars) = Literals(NumVars)
    BY DEF Contract!Literals, Literals
<1>3. \A A : Contract!Closure(NumVars, clauses, A) = Closure(NumVars, clauses, A)
    BY <1>1, <1>2 DEF Contract!Closure, Closure
<1>4. \A S : Contract!Consistent(S) <=> Consistent(S)
    BY DEF Contract!Consistent, Consistent
<1>5. Contract!Refuted(NumVars, clauses) <=> Refuted(NumVars, clauses)
    BY <1>3, <1>4 DEF Contract!Refuted, Refuted
<1>6. \A l : Contract!Var(l) = Var(l)
    BY DEF Contract!Var, Var
<1>7. \A S : Contract!VarsOf(S) = VarsOf(S)
    BY <1>6 DEF Contract!VarsOf, VarsOf
<1> QED
    BY <1>3, <1>4, <1>5, <1>7 DEF Contract!Propagate, Cl

\* A step that changes neither the cubes nor what their splitting is at.
LEMMA ContractStutters ==
    ASSUME Queue' = Queue, Loading' = Loading, UNCHANGED clauses
    PROVE  UNCHANGED Contract!vars
BY DEF Contract!vars

\* Outside a split the queue is all the cubes, and within one the cubes that
\* do not hold the one being split, and that one.
LEMMA QueueFacts ==
    ASSUME NEW CONSTANT S
    PROVE  /\ ~Cubing => (S \in Queue <=> \E c \in cubes : S = Range(c))
           /\ Cubing => (S \in Queue <=>
                 S = Range(cube) \/ \E c \in cubes : S = Range(c) /\ ~(Range(cube) \subseteq Range(c)))
BY DEF Queue

LEMMA QueueFactsNext ==
    ASSUME NEW CONSTANT S
    PROVE  /\ ~Cubing' => (S \in Queue' <=> \E c \in cubes' : S = Range(c))
           /\ Cubing' => (S \in Queue' <=>
                 \/ S = Range(cube')
                 \/ \E c \in cubes' : S = Range(c) /\ ~(Range(cube') \subseteq Range(c)))
BY DEF Queue

\* A cube that clashes with another does not hold it.
LEMMA ClashingCubes ==
    ASSUME Shape, NEW c \in cubes, NEW B \in SUBSET Lits, Clash(Range(c), B)
    PROVE  ~(B \subseteq Range(c))
BY CubeFacts, ClashFacts

\* The variables of a cube are those createCubes() does not branch on.
LEMMA FreeFacts ==
    ASSUME Shape, Cubing
    PROVE  Free = (1..NumVars) \ VarsOf(Range(cube)) /\ VarsOf(Range(cube)) \subseteq 1..NumVars
<1>1. VarsOf(Range(cube)) = {Var(cube[i]) : i \in DOMAIN cube}
    BY DEF VarsOf, Range
<1>2. Free = (1..NumVars) \ VarsOf(Range(cube))
    BY <1>1 DEF Free
<1>3. \A l \in Lits : Var(l) \in 1..NumVars
    BY PropagatorAssumption DEF Lits, Literals, Var
<1>4. VarsOf(Range(cube)) \subseteq 1..NumVars
    BY <1>3, CubeFacts DEF VarsOf
<1> QED
    BY <1>2, <1>4

\* initQueue starts from the closure of nothing, unless it is contradictory.
LEMMA LoadedRefines ==
    ASSUME Shape, Sound, Complete, LoadedRefuted', Loaded
    PROVE  Contract!Load
<1>1. /\ pc = "load" /\ pc' = "idle" /\ (next > Len(clauses) \/ isUnsat)
      /\ cubes' = IF isUnsat THEN {} ELSE {trail}
      /\ UNCHANGED <<clauses, isUnsat>>
    BY DEF Loaded, database
<1>2. /\ Phase = "load" /\ Loading /\ ~Loading' /\ ~Cubing' /\ ~Busy
      /\ isUnsat \in BOOLEAN /\ clauses \in Formulas /\ DatabaseType /\ TrailType
    BY <1>1 DEF Phase, Busy, Loading, Cubing, Shape, FlagType, DatabaseType
<1>3. isUnsat <=> Refuted(NumVars, clauses)
    BY <1>1, <1>2 DEF LoadedRefuted
<1>4. ASSUME ~isUnsat
      PROVE  Range(trail) = Cl({})
    <2>1. Sane /\ next = Len(clauses) + 1
        <3>1. next > Len(clauses) /\ next \in 1..(Len(clauses) + 1) /\ Len(clauses) \in Nat
            BY <1>1, <1>2, <1>4, ClauseFacts DEF DatabaseType
        <3> QED
            BY <1>1, <1>2, <1>4, <3>1 DEF Sane, Returned
    <2>2. Closed(clauses, Range(trail))
        BY <1>2, <2>1, TrailClosed DEF Complete
    <2>3. Range(trail) \in SUBSET Lits
        BY CubeFacts
    <2>4. Cl({}) \subseteq Range(trail)
        BY <1>2, <2>2, <2>3, ClFacts
    <2>5. Given = {}
        BY <1>2 DEF Given
    <2>6. Range(trail) \subseteq Cl({})
        BY <1>2, <2>5 DEF Sound, TrailFollows
    <2> QED
        BY <2>4, <2>6
<1>5. Queue' = IF Refuted(NumVars, clauses) THEN {} ELSE {Cl({})}
    <2>1. ASSUME NEW CONSTANT S
          PROVE  S \in Queue' <=> ~isUnsat /\ S = Range(trail)
        BY <1>1, <1>2, QueueFactsNext
    <2> QED
        BY <1>2, <1>3, <1>4, <2>1
<1> QED
    BY <1>1, <1>2, <1>5, ContractOperators DEF Contract!Load

\* Taking up a cube and trying its first half do not show.
LEMMA SplitInvisible ==
    ASSUME Shape, Sound, Complete, Apart, Fill \/ BranchTrue \/ BranchFalse
    PROVE  UNCHANGED Contract!vars
<1>1. CASE Fill
    <2>1. PICK c \in cubes : cube' = c /\ cubes' = cubes \ {c}
        BY <1>1 DEF Fill
    <2>2. ~Cubing /\ Cubing' /\ Loading' = Loading /\ UNCHANGED clauses
        BY <1>1 DEF Fill, Cubing, Loading, Phase, Busy, database
    <2>3. ASSUME NEW d \in cubes, d # c
          PROVE  ~(Range(c) \subseteq Range(d))
        <3>1. Clash(Range(d), Range(c))
            BY <2>3 DEF Apart
        <3> QED
            BY <3>1, CubeFacts, ClashingCubes
    <2>4. ASSUME NEW CONSTANT S
          PROVE  S \in Queue' <=> S \in Queue
        <3>1. S \in Queue <=> \E d \in cubes : S = Range(d)
            BY <2>2, QueueFacts
        <3>2. S \in Queue' <=> \/ S = Range(c)
                               \/ \E d \in cubes \ {c} : S = Range(d) /\ ~(Range(c) \subseteq Range(d))
            BY <2>1, <2>2, QueueFactsNext
        <3> QED
            BY <2>3, <3>1, <3>2
    <2> QED
        BY <2>2, <2>4, ContractStutters
<1>2. CASE BranchTrue
    <2>1. Cubing /\ Cubing' /\ Loading' = Loading /\ UNCHANGED <<clauses, cubes, cube>>
        BY <1>2 DEF BranchTrue, Cubing, Loading, Phase, Busy, database
    <2>2. Queue' = Queue
        BY <2>1 DEF Queue
    <2> QED
        BY <2>1, <2>2, ContractStutters
<1>3. CASE BranchFalse
    <2>1. /\ Cubing /\ Cubing' /\ Loading' = Loading /\ UNCHANGED <<clauses, cube>>
          /\ cubes' = IF result THEN cubes \cup {trail} ELSE cubes
        BY <1>3 DEF BranchFalse, Cubing, Loading, Phase, Busy, database
    <2>2. Range(cube) \subseteq Range(trail)
        BY <2>1, CubeOnTrail
    <2>3. ASSUME NEW CONSTANT S
          PROVE  S \in Queue' <=> S \in Queue
        BY <2>1, <2>2, QueueFacts, QueueFactsNext
    <2> QED
        BY <2>1, <2>3, ContractStutters
<1> QED
    BY <1>1, <1>2, <1>3

\* A leaf leaves the queue and nothing takes its place.
LEMMA LeafRefines ==
    ASSUME Shape, Apart, Leaf
    PROVE  Contract!Next
<1> DEFINE C == Range(cube)
<1>1. /\ Phase = "filled" /\ Cubing /\ ~Cubing' /\ Loading' = Loading
      /\ Free = {} /\ UNCHANGED <<clauses, cubes>>
    BY DEF Leaf, Phase, Busy, Cubing, Loading, database, driver
<1>2. \A c \in cubes : ~(C \subseteq Range(c))
    BY <1>1, CubeFacts, ClashingCubes DEF Apart
<1>3. ASSUME NEW CONSTANT S
      PROVE  /\ S \in Queue <=> S = C \/ \E c \in cubes : S = Range(c)
             /\ S \in Queue' <=> \E c \in cubes : S = Range(c)
    BY <1>1, <1>2, QueueFacts, QueueFactsNext
<1>4. C \notin Queue' /\ C \in Queue
    BY <1>2, <1>3
<1>5. Queue' = Queue \ {C}
    BY <1>2, <1>3
<1>6. VarsOf(C) = 1..NumVars
    BY <1>1, FreeFacts
<1> HIDE DEF C
<1>7. Contract!Leaf(C)
    BY <1>1, <1>5, <1>6, ContractOperators DEF Contract!Leaf
<1> QED
    BY <1>4, <1>7 DEF Contract!Next

\* The end of a split puts both halves in the place of the cube.
LEMMA EndSplitRefines ==
    ASSUME Shape, Sound, Complete, Apart, EndSplit
    PROVE  Contract!Next
<1> DEFINE C == Range(cube)
           H == Cl(C \cup {branch})
           G == Cl(C \cup {-branch})
<1>1. /\ pc = "false" /\ Phase = "false" /\ Cubing /\ Halving /\ ~Cubing' /\ Loading' = Loading
      /\ UNCHANGED clauses
      /\ cubes' = IF result THEN cubes \cup {trail} ELSE cubes
    BY DEF EndSplit, Phase, Busy, Cubing, Halving, Loading, database
<1>2. /\ C \subseteq Range(trail) /\ -branch \in Range(trail)
      /\ result => Range(trail) = G
      /\ result <=> Consistent(G)
    BY <1>1, HalfFacts
<1>3. /\ \A c \in cubes : Clash(Range(c), C) \/ Range(c) = H
      /\ Consistent(H) => \E c \in cubes : Range(c) = H
    BY <1>1 DEF Apart, FirstHalf
<1>4. /\ C \in SUBSET Lits /\ C \cup {branch} \in SUBSET Lits /\ clauses \in Formulas
      /\ branch \in 1..NumVars /\ branch \notin C /\ -branch \notin C
      /\ branch \in (1..NumVars) \ VarsOf(C)
    <2>1. C \in SUBSET Lits /\ branch \in Lits
        BY <1>1, CubeFacts, GivenFacts
    <2>2. branch \in (1..NumVars) \ VarsOf(C)
        BY <1>1, FreeFacts DEF Shape, DriverShape
    <2>3. Var(branch) = branch /\ Var(-branch) = branch
        BY <2>2 DEF Var
    <2>4. branch \notin C /\ -branch \notin C
        BY <2>2, <2>3 DEF VarsOf
    <2> QED
        BY <2>1, <2>2, <2>4 DEF Shape, DatabaseType
<1>5. C \subseteq H /\ branch \in H
    BY <1>4, ClFacts
<1>6. \A c \in cubes : Clash(Range(c), C) => ~(C \subseteq Range(c))
    BY <1>4, ClashingCubes
<1>7. \A c \in cubes : Range(c) = H => Consistent(H)
    BY CubeFacts
<1> HIDE DEF C, H, G
<1>8. ASSUME NEW CONSTANT S
      PROVE  S \in Queue <=> S = C \/ \E c \in cubes : S = Range(c) /\ Clash(S, C)
    <2>1. S \in Queue <=> S = C \/ \E c \in cubes : S = Range(c) /\ ~(C \subseteq Range(c))
        BY <1>1, QueueFacts DEF C
    <2> QED
        BY <1>3, <1>5, <1>6, <2>1
<1>9. ASSUME NEW CONSTANT S
      PROVE  S \in Queue' <=> \/ \E c \in cubes : S = Range(c) /\ Clash(S, C)
                              \/ S = H /\ Consistent(H)
                              \/ S = G /\ Consistent(G)
    <2>1. S \in Queue' <=> (\E c \in cubes : S = Range(c)) \/ (result /\ S = Range(trail))
        BY <1>1, QueueFactsNext
    <2>2. (\E c \in cubes : S = Range(c)) <=>
              (\E c \in cubes : S = Range(c) /\ Clash(S, C)) \/ (S = H /\ Consistent(H))
        BY <1>3, <1>7
    <2>3. (result /\ S = Range(trail)) <=> (S = G /\ Consistent(G))
        BY <1>2
    <2> QED
        BY <2>1, <2>2, <2>3
<1>10. \A c \in cubes : Clash(Range(c), C) => Range(c) # C
    BY <1>6
<1>11. C # H /\ (Consistent(G) => C # G)
    BY <1>2, <1>4, <1>5
<1>12. C \in Queue /\ C \notin Queue'
    BY <1>8, <1>9, <1>10, <1>11
<1>13. ASSUME NEW CONSTANT S
       PROVE  S \in Contract!Branches(C, branch) <=>
                  (S = H /\ Consistent(H)) \/ (S = G /\ Consistent(G))
    BY ContractOperators DEF Contract!Branches, H, G
<1>14. Queue' = (Queue \ {C}) \cup Contract!Branches(C, branch)
    BY <1>8, <1>9, <1>10, <1>13
<1>15. Contract!Split(C, branch)
    BY <1>1, <1>14 DEF Contract!Split
<1>16. branch \in (1..NumVars) \ Contract!VarsOf(C)
    BY <1>4, ContractOperators
<1> QED
    BY <1>12, <1>15, <1>16 DEF Contract!Next

\* Every step of the propagator and its driver is a step of the contract, or
\* invisible to it.
LEMMA NextContract ==
    ASSUME Shape, Sound, Complete, Apart, LoadedRefuted', [Next]_vars
    PROVE  [Contract!Next]_(Contract!vars)
<1>1. FlagType /\ Flow
    BY DEF Shape
<1>2. CASE AddSatisfied \/ AddEmpty \/ AddUnit \/ AddedUnit \/ AddBinary \/ AddLong
    <2>1. Loading /\ Loading' /\ ~Cubing /\ ~Cubing' /\ UNCHANGED <<cubes, clauses>>
        BY <1>2 DEF AddSatisfied, AddEmpty, AddUnit, AddedUnit, AddBinary, AddLong, Adding,
                    Loading, Cubing, Phase, Busy, driver, database
    <2>2. Queue' = Queue
        BY <2>1 DEF Queue
    <2> QED
        BY <2>1, <2>2, ContractStutters
<1>3. CASE Loaded
    BY <1>3, LoadedRefines DEF Contract!Next
<1>4. CASE \/ Propagated \/ TakeLit \/ Imply \/ StartWatches
           \/ KeepWatch \/ MoveWatch \/ Conflict \/ EndWatches
    <2>1. Loading' = Loading /\ Cubing' = Cubing /\ UNCHANGED <<cubes, cube, clauses>>
        BY <1>1, <1>4, BusyStep
    <2>2. Queue' = Queue
        BY <2>1 DEF Queue
    <2> QED
        BY <2>1, <2>2, ContractStutters
<1>5. CASE Fill \/ BranchTrue \/ BranchFalse
    BY <1>5, SplitInvisible
<1>6. CASE Leaf
    BY <1>6, LeafRefines
<1>7. CASE EndSplit
    BY <1>7, EndSplitRefines
<1>8. CASE UNCHANGED vars
    <2>1. Loading' = Loading /\ Cubing' = Cubing /\ UNCHANGED <<cubes, cube, clauses>>
        BY <1>8 DEF vars, driver, database, Loading, Cubing, Phase, Busy
    <2>2. Queue' = Queue
        BY <2>1 DEF Queue
    <2> QED
        BY <2>1, <2>2, ContractStutters
<1> QED
    BY <1>2, <1>3, <1>4, <1>5, <1>6, <1>7, <1>8, NextCases

(***************************************************************************)
(* The propagator and createCubes() implement SplitContract for every      *)
(* formula: whatever watches, conflicts and cancellations lie between, the *)
(* queue starts as the closure of nothing, and a cube gives way to the     *)
(* closures of its two halves that have no contradiction.  That is what    *)
(* CubePool takes createCubes() to do.                                     *)
(***************************************************************************)
THEOREM SplitImplementsContract == Spec => SplitsAsPromised
<1>1. Init => Contract!Init
    BY DEF Init, Contract!Init, Queue, Cubing, Loading, Phase, Busy
<1>2. Shape /\ Sound /\ Complete /\ Apart /\ LoadedRefuted' /\ [Next]_vars
          => [Contract!Next]_(Contract!vars)
    BY NextContract
<1> QED
    BY <1>1, <1>2, ShapeHolds, SoundHolds, CompleteHolds, ApartHolds, ConstructorRefutes, PTL
    DEF Spec, SplitsAsPromised, Contract!Spec

(***************************************************************************)
(* The cubes createCubes() makes never overlap: no assignment satisfies    *)
(* the literals of two of them, for every formula and in every order in    *)
(* which cubes are taken up.  So the counts of their models can be added.  *)
(***************************************************************************)
THEOREM CubesNeverOverlap ==
    Spec => [](\A c, d \in cubes : c # d =>
                  Models(NumVars, clauses, Range(c)) \cap Models(NumVars, clauses, Range(d)) = {})
<1>1. ASSUME Shape, Apart, NEW c \in cubes, NEW d \in cubes, c # d,
             NEW a \in Models(NumVars, clauses, Range(c)), a \in Models(NumVars, clauses, Range(d))
      PROVE  FALSE
    <2>1. PICK l \in Range(c) : -l \in Range(d)
        BY <1>1 DEF Apart, Clash
    <2>2. Holds(a, l) /\ Holds(a, -l)
        BY <1>1, <2>1 DEF Models
    <2>3. l \in Int /\ l # 0
        BY <1>1, CubeFacts, PropagatorAssumption DEF Lits, Literals
    <2> QED
        BY <2>2, <2>3 DEF Holds
<1>2. Shape /\ Apart => \A c, d \in cubes : c # d =>
          Models(NumVars, clauses, Range(c)) \cap Models(NumVars, clauses, Range(d)) = {}
    BY <1>1
<1> QED
    BY <1>2, ShapeHolds, ApartHolds, PTL

=============================================================================
