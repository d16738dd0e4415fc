---------------------------- MODULE CubesProofs ----------------------------
(***************************************************************************)
(* What the branching rule and unit propagation guarantee, for every       *)
(* formula and every cube, and how to count what is spread over a family.  *)
(***************************************************************************)
EXTENDS UnitProp, FiniteSetTheorems, WellFoundedInduction, TLAPS

\* The variable of a literal is one of the variables of the header.
LEMMA VarType ==
    ASSUME NEW n \in Nat, NEW l \in Literals(n)
    PROVE  Var(l) \in 1..n
<1>1. l \in Int /\ -n <= l /\ l <= n /\ l # 0
    BY DEF Literals
<1> QED
    BY <1>1 DEF Var

(***************************************************************************)
(* The variables of the formula that the rule may branch on are variables  *)
(* of the file's header.                                                   *)
(***************************************************************************)
LEMMA FormulaVarsType ==
    ASSUME NEW n \in Nat, NEW F \in Seq(Seq(Literals(n)))
    PROVE  FormulaVars(F) \subseteq 1..n
<1> SUFFICES ASSUME NEW o \in Occurrences(F)
             PROVE  Var(F[o[1]][o[2]]) \in 1..n
    BY DEF FormulaVars
<1>1. PICK i \in DOMAIN F : o \in {i} \X DOMAIN F[i]
    BY DEF Occurrences
<1>2. o[1] \in DOMAIN F /\ o[2] \in DOMAIN F[o[1]]
    BY <1>1
<1>3. F[o[1]] \in Seq(Literals(n))
    BY <1>2
<1>4. F[o[1]][o[2]] \in Literals(n)
    BY <1>2, <1>3
<1> QED
    BY <1>4, VarType

\* How often a variable occurs is a natural number, at most the number of
\* literals of the formula.
LEMMA FreqType ==
    ASSUME NEW F, IsFiniteSet(Occurrences(F)), NEW v
    PROVE  /\ Freq(F, v) \in Nat
           /\ Cardinality(Occurrences(F)) \in Nat
           /\ Freq(F, v) <= Cardinality(Occurrences(F))
<1> DEFINE S == {o \in Occurrences(F) : Var(F[o[1]][o[2]]) = v}
<1>1. S \in SUBSET Occurrences(F)
    OBVIOUS
<1>2. IsFiniteSet(S) /\ Cardinality(S) <= Cardinality(Occurrences(F))
    BY <1>1, FS_Subset
<1> QED
    BY <1>2, FS_CardinalityType DEF Freq

\* Every nonempty set of natural numbers has a least element.
LEMMA LeastNumber ==
    ASSUME NEW T, T \subseteq Nat, T # {}
    PROVE  \E x \in T : \A y \in T : x <= y
<1>1. PICK x \in T : \A y \in T : ~(<<y, x>> \in OpToRel(<, Nat))
    BY NatLessThanWellFounded, WFMin
<1>2. \A y \in T : ~(y < x)
    BY <1>1 DEF OpToRel
<1> QED
    BY <1>2

(***************************************************************************)
(* When a variable of the formula is free, SplitCubeSmart branches on one: *)
(* the loop over freq finds a best variable and the fallback is not used.  *)
(***************************************************************************)
THEOREM SplitVarIsFree ==
    ASSUME NEW n \in Nat, NEW F \in Seq(Seq(Literals(n))),
           IsFiniteSet(Occurrences(F)),
           NEW c, FreeVars(c, F) # {}
    PROVE  /\ SplitVar(c, F) \in FreeVars(c, F)
           /\ SplitVar(c, F) \in 1..n
           /\ \A u \in FreeVars(c, F) : NotBetter(u, SplitVar(c, F), F)
<1>0. FreeVars(c, F) \subseteq 1..n
    BY FormulaVarsType DEF FreeVars
<1> DEFINE K == Cardinality(Occurrences(F))
           T == {(K - Freq(F, v)) * (n + 1) + (n - v) : v \in FreeVars(c, F)}
<1>1. K \in Nat /\ \A v \in FreeVars(c, F) : Freq(F, v) \in Nat /\ Freq(F, v) <= K
    BY FreqType
<1> HIDE DEF K
<1>2. \A k \in Nat, m \in Nat : k * (n + 1) + m \in Nat
    OBVIOUS
<1>3. ASSUME NEW v \in FreeVars(c, F)
      PROVE  (K - Freq(F, v)) * (n + 1) + (n - v) \in Nat
    <2>1. K - Freq(F, v) \in Nat /\ n - v \in Nat
        BY <1>0, <1>1
    <2> QED
        BY <2>1, <1>2
<1>4. PICK x \in T : \A y \in T : x <= y
    <2>1. T \subseteq Nat /\ T # {}
        BY <1>3
    <2> QED
        BY <2>1, LeastNumber
<1>5. PICK v \in FreeVars(c, F) : x = (K - Freq(F, v)) * (n + 1) + (n - v)
    BY <1>4
<1>6. ASSUME NEW u \in FreeVars(c, F)
      PROVE  NotBetter(u, v, F)
    <2>1. (K - Freq(F, v)) * (n + 1) + (n - v) <= (K - Freq(F, u)) * (n + 1) + (n - u)
        BY <1>4, <1>5
    <2> DEFINE fu == Freq(F, u)
               fv == Freq(F, v)
    <2>2. fu \in Nat /\ fv \in Nat /\ u \in 1..n /\ v \in 1..n
        BY <1>0, <1>1
    <2> HIDE DEF fu, fv
    <2>3. CASE fu > fv
        <3>1. fu >= fv + 1
            BY <2>2, <2>3
        <3> DEFINE d == fu - fv
        <3>2. d \in Nat /\ d >= 1 /\ K - fu = (K - fv) - d
            BY <2>2, <3>1, <1>1
        <3>3. \A a \in Int, e \in Int : (a - e) * (n + 1) = a * (n + 1) - e * (n + 1)
            OBVIOUS
        <3>4. (K - fu) * (n + 1) = (K - fv) * (n + 1) - d * (n + 1)
            BY <3>2, <3>3, <2>2, <1>1
        <3>5. \A e \in Nat : e >= 1 => e * (n + 1) >= n + 1
            OBVIOUS
        <3>6. d * (n + 1) >= n + 1
            BY <3>2, <3>5
        <3> DEFINE A == (K - fv) * (n + 1)
                   B == (K - fu) * (n + 1)
                   D == d * (n + 1)
        <3>7. A \in Int /\ B \in Int /\ D \in Int
            BY <3>2, <2>2, <1>1
        <3>8. B = A - D /\ D >= n + 1 /\ A + (n - v) <= B + (n - u)
            BY <3>4, <3>6, <2>1 DEF fu, fv
        <3> HIDE DEF A, B, D
        <3> QED
            BY <3>7, <3>8, <2>2
    <2>4. CASE fu = fv
        BY <2>1, <2>2, <2>4, <1>1 DEF NotBetter, fu, fv
    <2>5. CASE fu < fv
        BY <2>5 DEF NotBetter, fu, fv
    <2> QED
        BY <2>2, <2>3, <2>4, <2>5
<1>7. /\ BestVar(c, F) \in FreeVars(c, F)
      /\ \A u \in FreeVars(c, F) : NotBetter(u, BestVar(c, F), F)
    BY <1>6 DEF BestVar
<1> QED
    BY <1>0, <1>7 DEF SplitVar

\* The largest variable of a cube, whose literals are bounded by b.
LEMMA MaxVarIsLargest ==
    ASSUME NEW b \in Nat, NEW c \in SUBSET Literals(b)
    PROVE  /\ VarsOf(c) \subseteq 1..b
           /\ MaxVar(c) \in 0..b
           /\ \A u \in VarsOf(c) : u <= MaxVar(c)
<1>1. VarsOf(c) \subseteq 1..b
    BY VarType DEF VarsOf
<1>2. CASE c = {}
    BY <1>2 DEF MaxVar, VarsOf
<1>3. CASE c # {}
    <2> DEFINE T == {b - v : v \in VarsOf(c)}
    <2>1. T \subseteq Nat /\ T # {}
        BY <1>1, <1>3 DEF VarsOf
    <2>2. PICK x \in T : \A y \in T : x <= y
        BY <2>1, LeastNumber
    <2>3. PICK v \in VarsOf(c) : x = b - v
        BY <2>2
    <2>4. ASSUME NEW u \in VarsOf(c) PROVE u <= v
        <3>1. b - v <= b - u
            BY <2>2, <2>3
        <3> QED
            BY <1>1, <3>1
    <2>5. MaxVar(c) \in VarsOf(c) /\ \A u \in VarsOf(c) : u <= MaxVar(c)
        BY <1>3, <2>4 DEF MaxVar
    <2> QED
        BY <1>1, <2>5
<1> QED
    BY <1>1, <1>2, <1>3

(***************************************************************************)
(* SplitCubeSmart branches on a variable that the cube has not committed,  *)
(* also when every variable of the formula is committed and it falls back  *)
(* on the number after the largest one.                                    *)
(***************************************************************************)
THEOREM SplitVarIsNew ==
    ASSUME NEW n \in Nat, NEW F \in Seq(Seq(Literals(n))), IsFiniteSet(Occurrences(F)),
           NEW b \in Nat, n <= b, NEW c \in SUBSET Literals(b)
    PROVE  /\ SplitVar(c, F) \in 1..(b + 1)
           /\ SplitVar(c, F) \notin VarsOf(c)
<1>1. CASE FreeVars(c, F) # {}
    <2>1. SplitVar(c, F) \in FreeVars(c, F) /\ SplitVar(c, F) \in 1..n
        BY <1>1, SplitVarIsFree
    <2> QED
        BY <2>1 DEF FreeVars
<1>2. CASE FreeVars(c, F) = {}
    <2>1. SplitVar(c, F) = MaxVar(c) + 1
        BY <1>2 DEF SplitVar
    <2>2. MaxVar(c) \in 0..b /\ \A u \in VarsOf(c) : u \in 1..b /\ u <= MaxVar(c)
        BY MaxVarIsLargest
    <2> QED
        BY <2>1, <2>2
<1> QED
    BY <1>1, <1>2

(***************************************************************************)
(* The two cubes SplitCubeSmart returns partition the models of the cube   *)
(* it is given: each model is in exactly one of them.                      *)
(***************************************************************************)
THEOREM SplitPartitions ==
    ASSUME NEW n \in Nat, NEW F \in Seq(Seq(Literals(n))),
           IsFiniteSet(Occurrences(F)),
           NEW c \in SUBSET Literals(n), FreeVars(c, F) # {}
    PROVE  /\ SplitCubeSmart(c, F) \in Seq(SUBSET Literals(n))
           /\ Len(SplitCubeSmart(c, F)) = 2
           /\ Models(n, F, c) = Models(n, F, SplitCubeSmart(c, F)[1])
                                  \cup Models(n, F, SplitCubeSmart(c, F)[2])
           /\ Models(n, F, SplitCubeSmart(c, F)[1])
                  \cap Models(n, F, SplitCubeSmart(c, F)[2]) = {}
<1> DEFINE v == SplitVar(c, F)
<1>1. v \in 1..n
    BY SplitVarIsFree
<1> HIDE DEF v
<1>2. SplitCubeSmart(c, F) = << c \cup {v}, c \cup {-v} >>
    BY DEF SplitCubeSmart, v
<1>3. v \in Literals(n) /\ -v \in Literals(n)
    BY <1>1 DEF Literals
<1>4. c \cup {v} \in SUBSET Literals(n) /\ c \cup {-v} \in SUBSET Literals(n)
    BY <1>3
<1>5. ASSUME NEW a
      PROVE  /\ a \in Models(n, F, c \cup {v}) <=> a \in Models(n, F, c) /\ v \in a
             /\ a \in Models(n, F, c \cup {-v}) <=> a \in Models(n, F, c) /\ v \notin a
    <2>1. Holds(a, v) <=> v \in a
        BY <1>1 DEF Holds
    <2>2. Holds(a, -v) <=> v \notin a
        BY <1>1 DEF Holds
    <2>3. ASSUME NEW l PROVE (\A k \in c \cup {l} : Holds(a, k)) <=>
                               (\A k \in c : Holds(a, k)) /\ Holds(a, l)
        OBVIOUS
    <2> QED
        BY <2>1, <2>2, <2>3 DEF Models
<1>6. Models(n, F, c) = Models(n, F, c \cup {v}) \cup Models(n, F, c \cup {-v})
    BY <1>5
<1>7. Models(n, F, c \cup {v}) \cap Models(n, F, c \cup {-v}) = {}
    BY <1>5
<1>8. << c \cup {v}, c \cup {-v} >> \in Seq(SUBSET Literals(n))
    BY <1>4
<1>9. /\ << c \cup {v}, c \cup {-v} >>[1] = c \cup {v}
      /\ << c \cup {v}, c \cup {-v} >>[2] = c \cup {-v}
      /\ Len(<< c \cup {v}, c \cup {-v} >>) = 2
    OBVIOUS
<1> QED
    BY <1>2, <1>6, <1>7, <1>8, <1>9, Zenon

(***************************************************************************)
(* There are finitely many models, so ganak's answer is a natural number.  *)
(***************************************************************************)
LEMMA ModelsFinite ==
    ASSUME NEW n \in Nat, NEW F, NEW c
    PROVE  /\ IsFiniteSet(Models(n, F, c))
           /\ Cardinality(Models(n, F, c)) \in Nat
           /\ Models(n, F, c) \subseteq Models(n, F, {})
<1>1. IsFiniteSet(1..n)
    BY FS_Interval
<1>2. IsFiniteSet(SUBSET (1..n))
    BY <1>1, FS_SUBSET
<1>3. Models(n, F, c) \in SUBSET (SUBSET (1..n))
    BY DEF Models
<1>4. IsFiniteSet(Models(n, F, c))
    BY <1>2, <1>3, FS_Subset
<1>5. Models(n, F, c) \subseteq Models(n, F, {})
    BY DEF Models
<1> QED
    BY <1>4, <1>5, FS_CardinalityType

-----------------------------------------------------------------------------
(***************************************************************************)
(* Counting what is spread over a family of sets: the entries of a book,   *)
(* the cubes in the hands of several handlers.                             *)
(***************************************************************************)
\* The members of the sets of a family, each with the index of its set.
Tagged(P, f) == UNION {{p} \X f[p] : p \in P}

\* Each set of the family is finite.
FiniteFamily(P, f) == \A p \in P : IsFiniteSet(f[p])

\* A family of finite sets over a finite set of indices is finite.
LEMMA TaggedFinite ==
    ASSUME NEW P, IsFiniteSet(P), NEW f, FiniteFamily(P, f)
    PROVE  IsFiniteSet(Tagged(P, f)) /\ Cardinality(Tagged(P, f)) \in Nat
<1> DEFINE part == [p \in P |-> {p} \X f[p]]
           Parts == {{p} \X f[p] : p \in P}
<1>1. part \in Surjection(P, Parts)
    BY DEF Surjection
<1>2. IsFiniteSet(Parts)
    <2> HIDE DEF part, Parts
    <2> QED
        BY <1>1, FS_Surjection
<1>3. ASSUME NEW T \in Parts PROVE IsFiniteSet(T)
    <2>1. PICK p \in P : T = {p} \X f[p]
        BY <1>3
    <2>2. IsFiniteSet({p}) /\ IsFiniteSet(f[p])
        BY FS_Singleton DEF FiniteFamily
    <2> QED
        BY <2>1, <2>2, FS_Product
<1>4. IsFiniteSet(UNION Parts)
    <2> HIDE DEF Parts
    <2> QED
        BY <1>2, <1>3, FS_UNION
<1>5. IsFiniteSet(Tagged(P, f))
    BY <1>4 DEF Tagged
<1> QED
    BY <1>5, FS_CardinalityType

\* An empty family, and one of empty sets.
LEMMA TaggedEmpty ==
    ASSUME NEW P, NEW f, \A p \in P : f[p] = {}
    PROVE  Tagged(P, f) = {} /\ Cardinality(Tagged(P, f)) = 0
<1>1. Tagged(P, f) = {}
    BY DEF Tagged
<1> QED
    BY <1>1, FS_EmptySet

\* Families with the same sets.
LEMMA TaggedSame ==
    ASSUME NEW P, NEW f, NEW g, \A p \in P : g[p] = f[p]
    PROVE  Tagged(P, g) = Tagged(P, f)
<1>1. \A x : x \in Tagged(P, g) <=> \E p \in P : x \in {p} \X g[p]
    BY DEF Tagged
<1>2. \A x : x \in Tagged(P, f) <=> \E p \in P : x \in {p} \X f[p]
    BY DEF Tagged
<1>3. \A p \in P : {p} \X g[p] = {p} \X f[p]
    OBVIOUS
<1> QED
    BY <1>1, <1>2, <1>3

\* One set more.
LEMMA TaggedAdd ==
    ASSUME NEW P, IsFiniteSet(P), NEW f, FiniteFamily(P, f), NEW p, p \notin P,
           NEW g, IsFiniteSet(g[p]), \A q \in P : g[q] = f[q]
    PROVE  Cardinality(Tagged(P \cup {p}, g)) = Cardinality(Tagged(P, f)) + Cardinality(g[p])
<1>1. Tagged(P \cup {p}, g) = Tagged(P, f) \cup ({p} \X g[p])
    <2>1. Tagged(P \cup {p}, g) = Tagged(P, g) \cup ({p} \X g[p])
        BY DEF Tagged
    <2> QED
        BY <2>1, TaggedSame
<1>2. Tagged(P, f) \cap ({p} \X g[p]) = {}
    BY DEF Tagged
<1>3. IsFiniteSet(Tagged(P, f)) /\ Cardinality(Tagged(P, f)) \in Nat
    BY TaggedFinite
<1>4. IsFiniteSet({p}) /\ Cardinality({p}) = 1
    BY FS_Singleton
<1>5. /\ IsFiniteSet({p} \X g[p])
      /\ Cardinality({p} \X g[p]) = 1 * Cardinality(g[p])
    BY <1>4, FS_Product
<1>6. Cardinality(g[p]) \in Nat
    BY FS_CardinalityType
<1>7. Cardinality({p} \X g[p]) = Cardinality(g[p])
    BY <1>5, <1>6
<1>8. Cardinality(Tagged(P, f) \cup ({p} \X g[p]))
        = Cardinality(Tagged(P, f)) + Cardinality({p} \X g[p])
            - Cardinality(Tagged(P, f) \cap ({p} \X g[p]))
    BY <1>3, <1>5, FS_Union
<1>9. Cardinality(Tagged(P, f) \cap ({p} \X g[p])) = 0
    BY <1>2, FS_EmptySet
<1> DEFINE a == Cardinality(Tagged(P, f))
           b == Cardinality(g[p])
           c == Cardinality(Tagged(P \cup {p}, g))
<1>10. c = a + b - 0 /\ a \in Nat /\ b \in Nat
    BY <1>1, <1>3, <1>6, <1>7, <1>8, <1>9, Zenon
<1> HIDE DEF a, b, c
<1>11. c = a + b
    BY <1>10
<1> QED
    BY <1>11 DEF a, b, c

\* One set less.
LEMMA TaggedRemove ==
    ASSUME NEW P, IsFiniteSet(P), NEW f, FiniteFamily(P, f), NEW p \in P,
           NEW g, \A q \in P \ {p} : g[q] = f[q]
    PROVE  Cardinality(Tagged(P \ {p}, g)) = Cardinality(Tagged(P, f)) - Cardinality(f[p])
<1> DEFINE Q == P \ {p}
<1>1. IsFiniteSet(Q) /\ p \notin Q /\ Q \cup {p} = P
    BY FS_RemoveElement
<1>2. FiniteFamily(Q, g) /\ IsFiniteSet(f[p]) /\ \A q \in Q : f[q] = g[q]
    BY DEF FiniteFamily
<1> HIDE DEF Q
<1>3. Cardinality(Tagged(Q \cup {p}, f)) = Cardinality(Tagged(Q, g)) + Cardinality(f[p])
    BY <1>1, <1>2, TaggedAdd
<1>4. Cardinality(Tagged(Q, g)) \in Nat /\ Cardinality(f[p]) \in Nat
    BY <1>1, <1>2, TaggedFinite, FS_CardinalityType
<1> DEFINE a == Cardinality(Tagged(P, f))
           b == Cardinality(f[p])
           c == Cardinality(Tagged(Q, g))
<1>5. a = c + b /\ c \in Nat /\ b \in Nat
    BY <1>1, <1>3, <1>4, Zenon
<1> HIDE DEF a, b, c
<1>6. c = a - b
    BY <1>5
<1> QED
    BY <1>6 DEF a, b, c, Q

\* Another set in place of one.
LEMMA TaggedReplace ==
    ASSUME NEW P, IsFiniteSet(P), NEW f, FiniteFamily(P, f), NEW p \in P,
           NEW g, IsFiniteSet(g[p]), \A q \in P \ {p} : g[q] = f[q]
    PROVE  Cardinality(Tagged(P, g))
             = Cardinality(Tagged(P, f)) - Cardinality(f[p]) + Cardinality(g[p])
<1> DEFINE Q == P \ {p}
<1>1. IsFiniteSet(Q) /\ p \notin Q /\ Q \cup {p} = P
    BY FS_RemoveElement
<1>2. FiniteFamily(Q, f) /\ \A q \in Q : g[q] = f[q]
    BY DEF FiniteFamily
<1>3. Cardinality(Tagged(Q, f)) = Cardinality(Tagged(P, f)) - Cardinality(f[p])
    BY TaggedRemove
<1> HIDE DEF Q
<1>4. Cardinality(Tagged(Q \cup {p}, g)) = Cardinality(Tagged(Q, f)) + Cardinality(g[p])
    BY <1>1, <1>2, TaggedAdd
<1> QED
    BY <1>1, <1>3, <1>4

\* When no member is in two sets, there are as many tagged members as
\* members of the union.
LEMMA TaggedDisjoint ==
    ASSUME NEW P, IsFiniteSet(P), NEW f, FiniteFamily(P, f),
           \A p, q \in P : p # q => f[p] \cap f[q] = {}
    PROVE  Cardinality(Tagged(P, f)) = Cardinality(UNION {f[p] : p \in P})
<1> DEFINE U == UNION {f[p] : p \in P}
           untag == [x \in Tagged(P, f) |-> x[2]]
<1>1. \A x \in Tagged(P, f) : x[1] \in P /\ x[2] \in f[x[1]] /\ x = <<x[1], x[2]>>
    BY DEF Tagged
<1>2. \A p \in P : \A m \in f[p] : <<p, m>> \in Tagged(P, f)
    BY DEF Tagged
<1>3. untag \in [Tagged(P, f) -> U]
    BY <1>1
<1>4. \A x, y \in Tagged(P, f) : untag[x] = untag[y] => x = y
    BY <1>1
<1>5. \A m \in U : \E x \in Tagged(P, f) : untag[x] = m
    <2> SUFFICES ASSUME NEW m \in U PROVE \E x \in Tagged(P, f) : untag[x] = m
        OBVIOUS
    <2>1. PICK p \in P : m \in f[p]
        OBVIOUS
    <2>2. <<p, m>> \in Tagged(P, f) /\ untag[<<p, m>>] = m
        BY <1>2, <2>1
    <2> QED
        BY <2>2
<1> HIDE DEF untag, U
<1>6. untag \in Bijection(Tagged(P, f), U)
    <2>1. untag \in Injection(Tagged(P, f), U)
        BY <1>3, <1>4 DEF Injection, IsInjective
    <2>2. untag \in Surjection(Tagged(P, f), U)
        BY <1>3, <1>5 DEF Surjection
    <2> QED
        BY <2>1, <2>2 DEF Bijection
<1>7. ExistsBijection(Tagged(P, f), U)
    BY <1>6 DEF ExistsBijection
<1>8. IsFiniteSet(Tagged(P, f))
    BY TaggedFinite
<1>9. Cardinality(U) = Cardinality(Tagged(P, f))
    BY <1>7, <1>8, FS_Bijection
<1> QED
    BY <1>9 DEF U

(***************************************************************************)
(* The positions of a family of sequences.                                 *)
(***************************************************************************)
Slots(P, f) == Tagged(P, [p \in P |-> DOMAIN f[p]])

\* f has a sequence for each member of P.
SeqFamily(P, f) == \A p \in P : Len(f[p]) \in Nat /\ DOMAIN f[p] = 1..Len(f[p])

\* The positions of a sequence are finite in number.
LEMMA SlotsFamily ==
    ASSUME NEW P, NEW f, SeqFamily(P, f)
    PROVE  /\ FiniteFamily(P, [p \in P |-> DOMAIN f[p]])
           /\ \A p \in P : IsFiniteSet(DOMAIN f[p]) /\ Cardinality(DOMAIN f[p]) = Len(f[p])
<1>1. ASSUME NEW p \in P
      PROVE  IsFiniteSet(DOMAIN f[p]) /\ Cardinality(DOMAIN f[p]) = Len(f[p])
    <2>1. Len(f[p]) \in Nat /\ DOMAIN f[p] = 1..Len(f[p])
        BY DEF SeqFamily
    <2> DEFINE n == Len(f[p])
    <2>2. /\ IsFiniteSet(1..n)
          /\ Cardinality(1..n) = IF 1 > n THEN 0 ELSE n - 1 + 1
        <3> HIDE DEF n
        <3> QED
            BY <2>1, FS_Interval DEF n
    <2>3. Cardinality(1..n) = n
        <3> HIDE DEF n
        <3> QED
            BY <2>1, <2>2 DEF n
    <2> QED
        BY <2>1, <2>2, <2>3, Zenon
<1> QED
    BY <1>1 DEF FiniteFamily

\* A finite family of sequences has finitely many positions.
LEMMA SlotsFinite ==
    ASSUME NEW P, IsFiniteSet(P), NEW f, SeqFamily(P, f)
    PROVE  IsFiniteSet(Slots(P, f)) /\ Cardinality(Slots(P, f)) \in Nat
BY SlotsFamily, TaggedFinite DEF Slots

\* Replacing one sequence changes the number of positions by the change of
\* its length.
LEMMA SlotsReplace ==
    ASSUME NEW P, IsFiniteSet(P), NEW f, SeqFamily(P, f), NEW g, SeqFamily(P, g),
           NEW p \in P, \A q \in P : q # p => g[q] = f[q]
    PROVE  Cardinality(Slots(P, g)) = Cardinality(Slots(P, f)) - Len(f[p]) + Len(g[p])
<1> DEFINE F == [q \in P |-> DOMAIN f[q]]
           G == [q \in P |-> DOMAIN g[q]]
<1>1. FiniteFamily(P, F) /\ Cardinality(F[p]) = Len(f[p])
    BY SlotsFamily
<1>2. IsFiniteSet(G[p]) /\ Cardinality(G[p]) = Len(g[p])
    BY SlotsFamily
<1>3. \A q \in P \ {p} : G[q] = F[q]
    OBVIOUS
<1> HIDE DEF F, G
<1>4. Cardinality(Tagged(P, G)) = Cardinality(Tagged(P, F)) - Cardinality(F[p]) + Cardinality(G[p])
    BY <1>1, <1>2, <1>3, TaggedReplace
<1> QED
    BY <1>1, <1>2, <1>4 DEF Slots, F, G

-----------------------------------------------------------------------------
(***************************************************************************)
(* Unit propagation, for every formula and every set of literals.          *)
(***************************************************************************)
\* The negation of a literal is a literal, and an assignment satisfies exactly
\* one of the two.
LEMMA Negation ==
    ASSUME NEW n \in Nat, NEW l \in Literals(n), NEW a
    PROVE  /\ -l \in Literals(n)
           /\ -(-l) = l
           /\ Holds(a, -l) <=> ~Holds(a, l)
<1>1. l \in Int /\ -n <= l /\ l <= n /\ l # 0
    BY DEF Literals
<1>2. -l \in Literals(n) /\ -(-l) = l
    BY <1>1 DEF Literals
<1>3. CASE l > 0
  <2>1. ~(-l > 0)
      BY <1>1, <1>3
  <2>2. Holds(a, -l) <=> -(-l) \notin a
      BY <2>1 DEF Holds
  <2>3. Holds(a, l) <=> l \in a
      BY <1>3 DEF Holds
  <2> QED
      BY <1>2, <2>2, <2>3
<1>4. CASE l < 0
  <2>1. -l > 0 /\ ~(l > 0)
      BY <1>1, <1>4
  <2>2. Holds(a, -l) <=> -l \in a
      BY <2>1 DEF Holds
  <2>3. Holds(a, l) <=> -l \notin a
      BY <2>1 DEF Holds
  <2> QED
      BY <1>2, <2>2, <2>3
<1> QED
    BY <1>1, <1>2, <1>3, <1>4

\* The literals of a clause are literals.
LEMMA ClauseLiteral ==
    ASSUME NEW n \in Nat, NEW F \in Seq(Seq(Literals(n))),
           NEW i \in DOMAIN F, NEW j \in DOMAIN F[i]
    PROVE  F[i][j] \in Literals(n)
<1>1. F[i] \in Seq(Literals(n))
    OBVIOUS
<1> QED
    BY <1>1

\* The literals a model satisfies are closed under unit propagation.
LEMMA ModelClosed ==
    ASSUME NEW n \in Nat, NEW F \in Seq(Seq(Literals(n))),
           NEW a \in Models(n, F, {})
    PROVE  Closed(F, {l \in Literals(n) : Holds(a, l)})
<1> DEFINE S == {l \in Literals(n) : Holds(a, l)}
<1> SUFFICES ASSUME NEW i \in DOMAIN F, NEW j \in DOMAIN F[i],
                    \A k \in DOMAIN F[i] \ {j} : -F[i][k] \in S
             PROVE  F[i][j] \in S
    BY DEF Closed
<1>1. PICK m \in DOMAIN F[i] : Holds(a, F[i][m])
    BY DEF Models
<1>2. F[i][m] \in Literals(n) /\ F[i][j] \in Literals(n)
    BY ClauseLiteral
<1>3. ~Holds(a, -F[i][m])
    BY <1>1, <1>2, Negation
<1>4. m = j
    BY <1>3
<1> QED
    BY <1>1, <1>2, <1>4

\* Propagation adds to the literals and stops at literals of the header.
LEMMA ClosureType ==
    ASSUME NEW n \in Nat, NEW F, NEW L \in SUBSET Literals(n)
    PROVE  L \subseteq Closure(n, F, L) /\ Closure(n, F, L) \in SUBSET Literals(n)
BY DEF Closure

\* What propagation reaches is closed.
LEMMA ClosureClosed ==
    ASSUME NEW n \in Nat, NEW F \in Seq(Seq(Literals(n))),
           NEW L \in SUBSET Literals(n)
    PROVE  Closed(F, Closure(n, F, L))
<1> DEFINE C == Closure(n, F, L)
<1> SUFFICES ASSUME NEW i \in DOMAIN F, NEW j \in DOMAIN F[i],
                    \A k \in DOMAIN F[i] \ {j} : -F[i][k] \in C
             PROVE  F[i][j] \in C
    BY DEF Closed
<1>1. F[i][j] \in Literals(n)
    BY ClauseLiteral
<1>2. ASSUME NEW S \in SUBSET Literals(n), L \subseteq S, Closed(F, S)
      PROVE  F[i][j] \in S
    <2>1. \A k \in DOMAIN F[i] \ {j} : -F[i][k] \in S
        BY <1>2 DEF Closure
    <2> QED
        BY <1>2, <2>1 DEF Closed
<1> QED
    BY <1>1, <1>2 DEF Closure

\* It is the least closed set around the literals given.
LEMMA ClosureLeast ==
    ASSUME NEW n \in Nat, NEW F, NEW L, NEW S \in SUBSET Literals(n),
           L \subseteq S, Closed(F, S)
    PROVE  Closure(n, F, L) \subseteq S
BY DEF Closure

\* Propagation reaches a fixed point: nothing more follows from its result.
LEMMA ClosureIdempotent ==
    ASSUME NEW n \in Nat, NEW F \in Seq(Seq(Literals(n))),
           NEW L \in SUBSET Literals(n)
    PROVE  Closure(n, F, Closure(n, F, L)) = Closure(n, F, L)
<1> DEFINE C == Closure(n, F, L)
<1>1. C \in SUBSET Literals(n) /\ Closed(F, C)
    BY ClosureType, ClosureClosed
<1>2. C \subseteq Closure(n, F, C)
    BY <1>1, ClosureType
<1> HIDE DEF C
<1>3. Closure(n, F, C) \subseteq C
    BY <1>1, ClosureLeast
<1> QED
    BY <1>2, <1>3 DEF C

(***************************************************************************)
(* Propagation keeps the models: those of a cube and of its closure are    *)
(* the same.  (propagate() in both generators.)                            *)
(***************************************************************************)
THEOREM ClosureModels ==
    ASSUME NEW n \in Nat, NEW F \in Seq(Seq(Literals(n))),
           NEW L \in SUBSET Literals(n)
    PROVE  Models(n, F, Closure(n, F, L)) = Models(n, F, L)
<1>1. ASSUME NEW a \in Models(n, F, L)
      PROVE  a \in Models(n, F, Closure(n, F, L))
  <2> DEFINE S == {l \in Literals(n) : Holds(a, l)}
  <2>1. a \in Models(n, F, {})
      BY DEF Models
  <2>2. Closed(F, S)
      BY <2>1, ModelClosed
  <2>3. L \subseteq S
      BY DEF Models
  <2>4. Closure(n, F, L) \subseteq S
      BY <2>2, <2>3 DEF Closure
  <2> QED
      BY <2>1, <2>4 DEF Models
<1>2. Models(n, F, Closure(n, F, L)) \subseteq Models(n, F, L)
    BY ClosureType DEF Models
<1> QED
    BY <1>1, <1>2

(***************************************************************************)
(* Pruning is sound: a set of literals with a contradiction has no model.  *)
(***************************************************************************)
LEMMA InconsistentNoModel ==
    ASSUME NEW n \in Nat, NEW F, NEW L \in SUBSET Literals(n), ~Consistent(L)
    PROVE  Models(n, F, L) = {}
<1>1. PICK l \in L : -l \in L
    BY DEF Consistent
<1>2. l \in Literals(n)
    OBVIOUS
<1>3. ASSUME NEW a \in Models(n, F, L)
      PROVE  FALSE
  <2>1. Holds(a, l) /\ Holds(a, -l)
      BY <1>1 DEF Models
  <2> QED
      BY <1>2, <2>1, Negation
<1> QED
    BY <1>3

\* A cube's models are shared out between the two values of a variable.
LEMMA SplitModels ==
    ASSUME NEW n \in Nat, NEW F, NEW L \in SUBSET Literals(n), NEW v \in 1..n,
           NEW a \in Models(n, F, L)
    PROVE  \/ a \in Models(n, F, L \cup {v}) /\ a \notin Models(n, F, L \cup {-v})
           \/ a \notin Models(n, F, L \cup {v}) /\ a \in Models(n, F, L \cup {-v})
<1>1. v \in Literals(n)
    BY DEF Literals
<1>2. Holds(a, -v) <=> ~Holds(a, v)
    BY <1>1, Negation
<1> QED
    BY <1>2 DEF Models

=============================================================================
