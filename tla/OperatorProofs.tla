--------------------------- MODULE OperatorProofs ---------------------------
(***************************************************************************)
(* Facts the theorems about several components rest on: extrema of sets of *)
(* numbers, sums over finite sets, and what each operation of a vector     *)
(* does to its elements.                                                   *)
(***************************************************************************)
EXTENDS VectorOps, FiniteSetsExt, FiniteSetTheorems, SequenceTheorems,
        WellFoundedInduction, TLAPS

(***************************************************************************)
(* A set of naturals has a least element and, if bounded, a greatest one.  *)
(***************************************************************************)
LEMMA LeastNat ==
  ASSUME NEW T \in SUBSET Nat, T # {}
  PROVE  \E x \in T : \A y \in T : x <= y
<1> DEFINE R == {p \in Nat \X Nat : p[1] < p[2]}
<1>1. IsWellFoundedOn(R, Nat)
  BY NatLessThanWellFounded, Zenon DEF OpToRel
<1>2. PICK x \in T : \A y \in T : ~(<<y, x>> \in R)
  <2> HIDE DEF R
  <2> QED BY <1>1, WFMin, Zenon
<1>3. ASSUME NEW y \in T PROVE x <= y
  <2>1. <<y, x>> \in Nat \X Nat /\ <<y, x>>[1] = y /\ <<y, x>>[2] = x
    OBVIOUS
  <2>2. ~(y < x)
    BY <1>2, <2>1
  <2> QED BY <2>2
<1> QED BY <1>3

LEMMA GreatestNat ==
  ASSUME NEW T \in SUBSET Nat, T # {}, NEW m \in Nat, \A x \in T : x <= m
  PROVE  \E x \in T : \A y \in T : y <= x
<1> DEFINE U == {m - x : x \in T}
<1>1. U \in SUBSET Nat /\ U # {}
  <2>1. \A x \in T : m - x \in Nat
    OBVIOUS
  <2> QED BY <2>1
<1>2. PICK u \in U : \A v \in U : u <= v
  BY <1>1, LeastNat
<1>3. PICK x \in T : u = m - x
  OBVIOUS
<1>4. ASSUME NEW y \in T PROVE y <= x
  <2>1. u <= m - y
    BY <1>2
  <2> QED BY <1>3, <2>1
<1> QED BY <1>4
-----------------------------------------------------------------------------
(***************************************************************************)
(* Sums over finite sets.  SumFunctionOnSet takes the elements away one by *)
(* one, in the order CHOOSE gives; the lemmas below say that it yields an  *)
(* integer and that any element may be taken away first.                   *)
(***************************************************************************)
Picked(s) == CHOOSE x \in s : TRUE

SumStep(f, g, s) == IF s = {} THEN 0 ELSE f[Picked(s)] + g[s \ {Picked(s)}]

Summed(f, g, S) == g = [s \in SUBSET S |-> SumStep(f, g, s)]

(***************************************************************************)
(* The subsets of a finite set with at most n elements.                    *)
(***************************************************************************)
UpTo(S, n) == {s \in SUBSET S : Cardinality(s) <= n}

LEMMA SubsetFact ==
  ASSUME NEW S, IsFiniteSet(S), NEW s \in SUBSET S
  PROVE  /\ IsFiniteSet(s) /\ Cardinality(s) \in Nat
         /\ Cardinality(s) <= Cardinality(S)
         /\ Cardinality(s) = 0 <=> s = {}
         /\ \A x \in s : Cardinality(s \ {x}) = Cardinality(s) - 1
         /\ s # {} => Picked(s) \in s
<1>1. IsFiniteSet(s) /\ Cardinality(s) <= Cardinality(S) /\ Cardinality(s) \in Nat
  BY FS_Subset, FS_CardinalityType
<1>2. Cardinality(s) = 0 <=> s = {}
  BY <1>1, FS_EmptySet
<1>3. \A x \in s : Cardinality(s \ {x}) = Cardinality(s) - 1
  BY <1>1, FS_RemoveElement
<1> QED BY <1>1, <1>2, <1>3 DEF Picked

LEMMA SumExists ==
  ASSUME NEW S, IsFiniteSet(S), NEW f \in [S -> Int]
  PROVE  \E g \in [SUBSET S -> Int] : Summed(f, g, S)
<1> DEFINE OK(g, n) == /\ g \in [UpTo(S, n) -> Int]
                       /\ \A s \in UpTo(S, n) : g[s] = SumStep(f, g, s)
           N == Cardinality(S)
           T == {n \in 0 .. N : \A g : ~OK(g, n)}
<1>0. N \in Nat
  BY FS_CardinalityType
<1>1. T = {}
  <2> SUFFICES ASSUME T # {} PROVE FALSE
    OBVIOUS
  <2>1. PICK n \in T : \A m \in T : n <= m
    <3>1. T \in SUBSET Nat
      BY <1>0
    <3> HIDE DEF T
    <3> QED BY <3>1, LeastNat
  <2>2. CASE n = 0
    <3>1. \A s \in UpTo(S, 0) : s = {}
      BY SubsetFact DEF UpTo
    <3>2. OK([s \in UpTo(S, 0) |-> 0], 0)
      BY <3>1 DEF SumStep
    <3> QED BY <2>1, <2>2, <3>2
  <2>3. CASE n # 0
    <3>1. n \in Nat /\ n - 1 \in 0 .. N /\ n - 1 \notin T
      BY <1>0, <2>1, <2>3
    <3>2. PICK g : OK(g, n - 1)
      BY <3>1
    <3> DEFINE h == [s \in UpTo(S, n) |-> IF s \in UpTo(S, n - 1) THEN g[s] ELSE SumStep(f, g, s)]
    <3>3. ASSUME NEW s \in UpTo(S, n), s # {}
          PROVE  /\ Picked(s) \in S /\ s \ {Picked(s)} \in UpTo(S, n - 1)
                 /\ s \ {Picked(s)} \in UpTo(S, n)
      BY <3>1, <3>3, SubsetFact DEF UpTo
    <3>4. ASSUME NEW s \in UpTo(S, n) PROVE h[s] = SumStep(f, g, s) /\ h[s] \in Int
      <4>1. CASE s \in UpTo(S, n - 1)
        BY <3>2, <4>1
      <4>2. CASE s \notin UpTo(S, n - 1)
        <5>1. CASE s = {}
          BY <4>2, <5>1 DEF SumStep
        <5>2. CASE s # {}
          BY <3>2, <3>3, <4>2, <5>2 DEF SumStep
        <5> QED BY <5>1, <5>2
      <4> QED BY <4>1, <4>2
    <3>5. ASSUME NEW s \in UpTo(S, n) PROVE SumStep(f, h, s) = SumStep(f, g, s)
      BY <3>3 DEF SumStep
    <3>6. OK(h, n)
      BY <3>4, <3>5
    <3> QED BY <2>1, <3>6
  <2> QED BY <2>2, <2>3
<1>2. PICK g : OK(g, N)
  BY <1>0, <1>1
<1>3. UpTo(S, N) = SUBSET S
  BY SubsetFact DEF UpTo
<1>4. g \in [SUBSET S -> Int] /\ Summed(f, g, S)
  BY <1>2, <1>3 DEF Summed
<1> QED BY <1>4

(***************************************************************************)
(* The recursion has one solution, also when it starts from a smaller set. *)
(***************************************************************************)
LEMMA SumUnique ==
  ASSUME NEW S, IsFiniteSet(S), NEW R \in SUBSET S, NEW f, NEW g, NEW h,
         Summed(f, g, S), Summed(f, h, R)
  PROVE  \A s \in SUBSET R : h[s] = g[s]
<1> DEFINE T == {Cardinality(s) : s \in {r \in SUBSET R : h[r] # g[r]}}
<1> SUFFICES ASSUME NEW r \in SUBSET R, h[r] # g[r] PROVE FALSE
  OBVIOUS
<1>1. T \in SUBSET Nat /\ T # {}
  BY SubsetFact
<1>2. PICK n \in T : \A m \in T : n <= m
  <2> HIDE DEF T
  <2> QED BY <1>1, LeastNat
<1>3. PICK s \in SUBSET R : h[s] # g[s] /\ n = Cardinality(s)
  OBVIOUS
<1>4. h[s] = SumStep(f, h, s) /\ g[s] = SumStep(f, g, s)
  BY DEF Summed
<1>5. s # {}
  BY <1>3, <1>4 DEF SumStep
<1>6. /\ s \ {Picked(s)} \in SUBSET R
      /\ Cardinality(s \ {Picked(s)}) \in Nat
      /\ Cardinality(s \ {Picked(s)}) < Cardinality(s) /\ Cardinality(s) \in Nat
  BY <1>5, SubsetFact
<1>7. h[s \ {Picked(s)}] = g[s \ {Picked(s)}]
  BY <1>2, <1>3, <1>6
<1> QED BY <1>3, <1>4, <1>7 DEF SumStep

SumTable(f, g, S) ==
  /\ g \in [SUBSET S -> Int] /\ Summed(f, g, S)
  /\ \A s \in SUBSET S : SumFunctionOnSet(f, s) = g[s]

LEMMA SumSolves ==
  ASSUME NEW S, IsFiniteSet(S), NEW f \in [S -> Int]
  PROVE  \E g : SumTable(f, g, S)
<1>1. PICK g \in [SUBSET S -> Int] : Summed(f, g, S)
  BY SumExists
<1>2. ASSUME NEW s \in SUBSET S PROVE SumFunctionOnSet(f, s) = g[s]
  <2> DEFINE h == CHOOSE h : Summed(f, h, s)
  <2>1. SumFunctionOnSet(f, s) = h[s]
    BY DEF SumFunctionOnSet, FoldFunctionOnSet, MapThenFoldSet, Summed, SumStep, Picked
  <2>2. Summed(f, h, s)
    <3>1. IsFiniteSet(s)
      BY SubsetFact
    <3>2. [x \in s |-> f[x]] \in [s -> Int]
      OBVIOUS
    <3>3. PICK k \in [SUBSET s -> Int] : Summed([x \in s |-> f[x]], k, s)
      BY <3>1, <3>2, SumExists
    <3>4. \A r \in SUBSET s : r # {} => Picked(r) \in s
      BY DEF Picked
    <3>5. Summed(f, k, s)
      BY <3>3, <3>4 DEF Summed, SumStep
    <3> QED BY <3>5
  <2> HIDE DEF h
  <2>3. \A r \in SUBSET s : h[r] = g[r]
    BY <1>1, <2>2, SumUnique
  <2> QED BY <2>1, <2>3
<1> QED BY <1>1, <1>2 DEF SumTable

(***************************************************************************)
(* Any element may be taken away first.                                    *)
(***************************************************************************)
LEMMA SumFact ==
  ASSUME NEW S, IsFiniteSet(S), NEW f \in [S -> Int]
  PROVE  /\ \A s \in SUBSET S : SumFunctionOnSet(f, s) \in Int
         /\ SumFunctionOnSet(f, {}) = 0
         /\ \A s \in SUBSET S : \A x \in s :
              SumFunctionOnSet(f, s) = f[x] + SumFunctionOnSet(f, s \ {x})
<1>1. PICK g : SumTable(f, g, S)
  BY SumSolves
<1>2. /\ g[{}] = 0
      /\ \A s \in SUBSET S : s # {} => g[s] = f[Picked(s)] + g[s \ {Picked(s)}]
  BY <1>1 DEF SumTable, Summed, SumStep
<1> DEFINE Bad == {s \in SUBSET S : \E x \in s : g[s] # f[x] + g[s \ {x}]}
           T == {Cardinality(s) : s \in Bad}
<1>3. Bad = {}
  <2> SUFFICES ASSUME NEW b \in Bad PROVE FALSE
    OBVIOUS
  <2>1. T \in SUBSET Nat /\ T # {}
    <3>1. \A s \in Bad : s \in SUBSET S
      OBVIOUS
    <3> HIDE DEF Bad
    <3>2. \A s \in Bad : Cardinality(s) \in Nat
      BY <3>1, SubsetFact
    <3> QED BY <3>2
  <2>2. PICK n \in T : \A m \in T : n <= m
    <3> HIDE DEF T
    <3> QED BY <2>1, LeastNat
  <2>3. PICK s \in Bad : n = Cardinality(s)
    OBVIOUS
  <2>4. PICK x \in s : g[s] # f[x] + g[s \ {x}]
    BY <2>3
  <2> DEFINE y == Picked(s)
             r == (s \ {x}) \ {y}
  <2>5. y \in s /\ g[s] = f[y] + g[s \ {y}]
    BY <1>2, <2>4, SubsetFact
  <2>6. x # y
    BY <2>4, <2>5
  <2>7. ASSUME NEW z \in s PROVE s \ {z} \notin Bad
    <3>1. /\ Cardinality(s \ {z}) \in Nat /\ Cardinality(s) \in Nat
          /\ Cardinality(s \ {z}) < Cardinality(s)
      BY SubsetFact
    <3>2. Cardinality(s \ {z}) \notin T
      BY <2>2, <2>3, <3>1
    <3> QED BY <3>2
  <2>8. g[s \ {y}] = f[x] + g[(s \ {y}) \ {x}]
    BY <2>5, <2>6, <2>7
  <2>9. g[s \ {x}] = f[y] + g[r]
    BY <2>5, <2>6, <2>7
  <2>10. (s \ {y}) \ {x} = r
    OBVIOUS
  <2>11. /\ f[x] \in Int /\ f[y] \in Int /\ g[r] \in Int
    BY <1>1, <2>5 DEF SumTable
  <2>12. g[s] = f[y] + (f[x] + g[r])
    BY <2>5, <2>8, <2>10
  <2>13. f[x] + g[s \ {x}] = f[x] + (f[y] + g[r])
    BY <2>9
  <2>14. \A i, j, k \in Int : i + (j + k) = j + (i + k)
    OBVIOUS
  <2>15. g[s] = f[x] + g[s \ {x}]
    BY <2>11, <2>12, <2>13, <2>14, Zenon
  <2> QED BY <2>4, <2>15
<1>4. \A s \in SUBSET S : \A x \in s : g[s] = f[x] + g[s \ {x}]
  BY <1>3
<1>5. \A s \in SUBSET S : \A x \in s : s \ {x} \in SUBSET S
  OBVIOUS
<1> QED BY <1>1, <1>2, <1>4, <1>5 DEF SumTable

LEMMA SumRemove ==
  ASSUME NEW S, IsFiniteSet(S), NEW f \in [S -> Int], NEW s \in SUBSET S, NEW x \in s
  PROVE  SumFunctionOnSet(f, s) = f[x] + SumFunctionOnSet(f, s \ {x})
BY SumFact

(***************************************************************************)
(* Functions that agree on a set have the same sum over it, and one whose  *)
(* value changes at one element has a sum that changes by as much.         *)
(***************************************************************************)
LEMMA SumAgree ==
  ASSUME NEW S, IsFiniteSet(S), NEW f \in [S -> Int], NEW g \in [S -> Int],
         NEW R \in SUBSET S, \A x \in R : f[x] = g[x]
  PROVE  SumFunctionOnSet(f, R) = SumFunctionOnSet(g, R)
<1>1. PICK F : SumTable(f, F, S)
  BY SumSolves
<1>2. PICK G : SumTable(g, G, S)
  BY SumSolves
<1> DEFINE H == [s \in SUBSET R |-> F[s]]
<1>3. \A s \in SUBSET R : s # {} => Picked(s) \in R
  BY DEF Picked
<1>4. Summed(g, H, R)
  BY <1>1, <1>3 DEF SumTable, Summed, SumStep
<1> HIDE DEF H
<1>5. Summed(g, G, S)
  BY <1>2 DEF SumTable
<1>6. \A r \in SUBSET R : H[r] = G[r]
  BY <1>4, <1>5, SumUnique
<1> QED BY <1>1, <1>2, <1>6 DEF H, SumTable

LEMMA SumChange ==
  ASSUME NEW S, IsFiniteSet(S), NEW f \in [S -> Int], NEW g \in [S -> Int],
         NEW x \in S, \A y \in S \ {x} : f[y] = g[y]
  PROVE  SumFunctionOnSet(g, S) = SumFunctionOnSet(f, S) + g[x] - f[x]
<1>1. SumFunctionOnSet(f, S \ {x}) = SumFunctionOnSet(g, S \ {x})
  BY SumAgree
<1>2. /\ SumFunctionOnSet(f, S) = f[x] + SumFunctionOnSet(f, S \ {x})
      /\ SumFunctionOnSet(g, S) = g[x] + SumFunctionOnSet(g, S \ {x})
      /\ SumFunctionOnSet(f, S \ {x}) \in Int
  BY SumFact
<1> QED BY <1>1, <1>2

(***************************************************************************)
(* A function that is zero everywhere, or everywhere but at one element.   *)
(***************************************************************************)
LEMMA SumZero ==
  ASSUME NEW S, IsFiniteSet(S), NEW f \in [S -> Int], \A y \in S : f[y] = 0
  PROVE  SumFunctionOnSet(f, S) = 0
<1>1. PICK F : SumTable(f, F, S)
  BY SumSolves
<1> DEFINE Z == [s \in SUBSET S |-> 0]
<1>2. \A s \in SUBSET S : s # {} => Picked(s) \in S /\ s \ {Picked(s)} \in SUBSET S
  BY DEF Picked
<1>3. Summed(f, Z, S)
  BY <1>2 DEF Summed, SumStep
<1> HIDE DEF Z
<1>4. Summed(f, F, S) /\ S \in SUBSET S
  BY <1>1 DEF SumTable
<1>5. \A r \in SUBSET S : Z[r] = F[r]
  BY <1>3, <1>4, SumUnique
<1> QED BY <1>1, <1>5 DEF Z, SumTable

LEMMA SumSingle ==
  ASSUME NEW S, IsFiniteSet(S), NEW f \in [S -> Int], NEW x \in S,
         \A y \in S \ {x} : f[y] = 0
  PROVE  SumFunctionOnSet(f, S) = f[x]
<1> DEFINE z == [y \in S |-> 0]
<1>1. SumFunctionOnSet(z, S) = 0
  BY SumZero
<1>2. SumFunctionOnSet(f, S) = SumFunctionOnSet(z, S) + f[x] - z[x]
  BY SumChange
<1> QED BY <1>1, <1>2

LEMMA SumPair ==
  ASSUME NEW S, IsFiniteSet(S), NEW f \in [S -> Int], NEW I \in SUBSET S,
         NEW x, NEW y, x # y, I \subseteq {x, y}
  PROVE  SumFunctionOnSet(f, I) =
           (IF x \in I THEN f[x] ELSE 0) + (IF y \in I THEN f[y] ELSE 0)
<1>1. SumFunctionOnSet(f, {}) = 0
  BY SumFact
<1>2. ASSUME NEW z \in I, I = {z} PROVE SumFunctionOnSet(f, I) = f[z]
  <2>1. SumFunctionOnSet(f, I) = f[z] + SumFunctionOnSet(f, I \ {z}) /\ f[z] \in Int
    BY SumRemove
  <2>2. I \ {z} = {}
    BY <1>2
  <2>3. SumFunctionOnSet(f, I) = f[z] + 0
    BY <1>1, <2>1, <2>2, Zenon
  <2> QED BY <2>1, <2>3
<1>3. CASE I = {}
  BY <1>1, <1>3
<1>4. CASE x \in I /\ y \notin I
  <2>1. I = {x} /\ f[x] \in Int
    BY <1>4
  <2> QED BY <1>2, <1>4, <2>1
<1>5. CASE x \notin I /\ y \in I
  <2>1. I = {y} /\ f[y] \in Int
    BY <1>5
  <2> QED BY <1>2, <1>5, <2>1
<1>6. CASE x \in I /\ y \in I
  <2>1. I \ {x} = {y} /\ y \in S /\ {y} \ {y} = {}
    BY <1>6
  <2>2. SumFunctionOnSet(f, I) = f[x] + SumFunctionOnSet(f, {y})
    BY <1>6, <2>1, SumRemove
  <2>3. SumFunctionOnSet(f, {y}) = f[y] + SumFunctionOnSet(f, {})
    <3>1. {y} \in SUBSET S /\ y \in {y}
      BY <2>1
    <3> QED BY <2>1, <3>1, SumRemove
  <2>4. f[x] \in Int /\ f[y] \in Int
    BY <1>6
  <2> QED BY <1>1, <1>6, <2>2, <2>3, <2>4
<1> QED BY <1>3, <1>4, <1>5, <1>6
-----------------------------------------------------------------------------
(***************************************************************************)
(* A struct of the right fields, with its slots well formed.               *)
(***************************************************************************)
IsStruct(v) == v = [slot |-> v.slot, logLen |-> v.logLen, allocLen |-> v.allocLen]

WellFormed(v, E) == IsStruct(v) /\ IsVector(v, E)

LEMMA NewFact ==
  ASSUME NEW E, NEW a \in Nat
  PROVE  WellFormed(VectorNew(a), E) /\ VectorNew(a).logLen = 0
<1> DEFINE n == IF a = 0 THEN 1 ELSE a
           s == [p \in 0 .. n - 1 |-> Junk]
           v == [slot |-> s, logLen |-> 0, allocLen |-> n]
<1>1. n \in Nat \ {0}
  OBVIOUS
<1>2. VectorNew(a) = v
  BY DEF VectorNew
<1> HIDE DEF n
<1>3. s \in [0 .. n - 1 -> E \cup {Junk}]
  OBVIOUS
<1> HIDE DEF s
<1>4. v.slot = s /\ v.logLen = 0 /\ v.allocLen = n
  OBVIOUS
<1>5. IsVector(v, E)
  BY <1>1, <1>3, <1>4 DEF IsVector, Position
<1> QED BY <1>2, <1>4, <1>5 DEF WellFormed, IsStruct

LEMMA ElementFact ==
  ASSUME NEW E, NEW v, WellFormed(v, E)
  PROVE  /\ v.logLen \in Nat /\ v.allocLen \in Nat \ {0} /\ v.logLen <= v.allocLen
         /\ DOMAIN v.slot = 0 .. v.allocLen - 1
         /\ \A p \in 0 .. v.allocLen - 1 : v.slot[p] \in E \cup {Junk}
         /\ \A p \in 0 .. v.logLen - 1 : v.slot[p] \in E
BY DEF WellFormed, IsVector, Position

(***************************************************************************)
(* realloc makes room and keeps what the slots in use hold.                *)
(***************************************************************************)
LEMMA GrownFact ==
  ASSUME NEW E, NEW v, WellFormed(v, E)
  PROVE  /\ WellFormed(Grown(v), E)
         /\ Grown(v).logLen = v.logLen /\ v.logLen < Grown(v).allocLen
         /\ \A p \in 0 .. v.logLen - 1 : Grown(v).slot[p] = v.slot[p]
<1> DEFINE n == v.logLen
           m == v.allocLen
           big == 2 * (m + 1)
           s == [p \in 0 .. big - 1 |-> IF p < m THEN v.slot[p] ELSE Junk]
           w == [slot |-> s, logLen |-> n, allocLen |-> big]
<1>1. /\ n \in Nat /\ m \in Nat \ {0} /\ n <= m
      /\ \A p \in 0 .. m - 1 : v.slot[p] \in E \cup {Junk}
      /\ \A p \in 0 .. n - 1 : v.slot[p] \in E
  BY ElementFact
<1>2. CASE n # m
  <2>1. Grown(v) = v
    BY <1>2 DEF Grown
  <2> QED BY <1>1, <1>2, <2>1
<1>3. CASE n = m
  <2>1. Grown(v) = [v EXCEPT !.allocLen = big, !.slot = s]
    BY <1>3 DEF Grown
  <2>2. Grown(v) = w
    BY <2>1 DEF WellFormed, IsStruct
  <2>3. big \in Nat \ {0} /\ n < big /\ m < big
    BY <1>1
  <2>4. s \in [0 .. big - 1 -> E \cup {Junk}]
    BY <1>1
  <2>5. \A p \in 0 .. n - 1 : s[p] = v.slot[p]
    BY <1>1, <1>3, <2>3
  <2> HIDE DEF s, big, n
  <2>6. w.slot = s /\ w.logLen = n /\ w.allocLen = big
    OBVIOUS
  <2>7. n \in 0 .. big
    BY <1>1, <2>3
  <2>8. IsVector(w, E)
    BY <1>1, <2>3, <2>4, <2>5, <2>6, <2>7 DEF IsVector, Position
  <2> QED BY <2>2, <2>3, <2>5, <2>6, <2>8 DEF WellFormed, IsStruct, n
<1> QED BY <1>2, <1>3

LEMMA AppendFact ==
  ASSUME NEW E, NEW v, WellFormed(v, E), NEW e \in E
  PROVE  /\ WellFormed(VectorAppend(v, e), E)
         /\ VectorAppend(v, e).logLen = v.logLen + 1
         /\ \A q \in 0 .. v.logLen :
              VectorAppend(v, e).slot[q] = IF q = v.logLen THEN e ELSE v.slot[q]
<1> DEFINE w == Grown(v)
           n == v.logLen
           s == [w.slot EXCEPT ![n] = e]
           m == w.allocLen
           x == [slot |-> s, logLen |-> n + 1, allocLen |-> m]
<1>1. /\ WellFormed(w, E) /\ w.logLen = n /\ n < m
      /\ \A p \in 0 .. n - 1 : w.slot[p] = v.slot[p]
  BY GrownFact
<1>2. n \in Nat /\ m \in Nat \ {0} /\ w.slot \in [0 .. m - 1 -> E \cup {Junk}]
  BY <1>1 DEF WellFormed, IsVector
<1>3. VectorAppend(v, e) = x
  <2>1. VectorAppend(v, e) = [w EXCEPT !.slot[w.logLen] = e, !.logLen = @ + 1]
    BY DEF VectorAppend
  <2> HIDE DEF w
  <2> QED BY <1>1, <2>1 DEF WellFormed, IsStruct
<1>4. \A p \in 0 .. n - 1 : v.slot[p] \in E
  BY ElementFact
<1> HIDE DEF w, n
<1>5. n \in 0 .. m - 1 /\ n + 1 \in 0 .. m
  BY <1>1, <1>2
<1>6. s \in [0 .. m - 1 -> E \cup {Junk}]
  BY <1>2, <1>5
<1>7. \A q \in 0 .. n : s[q] = IF q = n THEN e ELSE v.slot[q]
  <2>1. \A q \in 0 .. n : q \in 0 .. m - 1 /\ (q # n => q \in 0 .. n - 1)
    BY <1>2, <1>5
  <2> QED BY <1>1, <1>2, <2>1
<1>8. \A q \in 0 .. (n + 1) - 1 : q \in 0 .. n /\ s[q] \in E
  <2>1. \A q \in 0 .. (n + 1) - 1 : q \in 0 .. n /\ (q # n => q \in 0 .. n - 1)
    BY <1>2
  <2> QED BY <1>4, <1>7, <2>1
<1> HIDE DEF s, m
<1>9. x.slot = s /\ x.logLen = n + 1 /\ x.allocLen = m
  OBVIOUS
<1>10. IsVector(x, E)
  BY <1>2, <1>5, <1>6, <1>8, <1>9 DEF IsVector, Position
<1> QED BY <1>3, <1>7, <1>9, <1>10 DEF WellFormed, IsStruct, n

LEMMA ReplaceFact ==
  ASSUME NEW E, NEW v, WellFormed(v, E), NEW e \in E, NEW p \in Position(v)
  PROVE  /\ WellFormed(VectorReplace(v, e, p), E)
         /\ VectorReplace(v, e, p).logLen = v.logLen
         /\ \A q \in 0 .. v.logLen - 1 :
              VectorReplace(v, e, p).slot[q] = IF q = p THEN e ELSE v.slot[q]
<1> DEFINE n == v.logLen
           m == v.allocLen
           s == [v.slot EXCEPT ![p] = e]
           x == [slot |-> s, logLen |-> n, allocLen |-> m]
<1>1. /\ n \in Nat /\ m \in Nat \ {0} /\ n <= m /\ p \in 0 .. n - 1 /\ n \in 0 .. m
      /\ v.slot \in [0 .. m - 1 -> E \cup {Junk}]
      /\ \A q \in 0 .. n - 1 : v.slot[q] \in E
  BY DEF WellFormed, IsVector, Position
<1>2. VectorReplace(v, e, p) = x
  BY DEF VectorReplace, WellFormed, IsStruct
<1> HIDE DEF n, m
<1>3. 0 .. n - 1 \subseteq 0 .. m - 1
  BY <1>1
<1>4. s \in [0 .. m - 1 -> E \cup {Junk}]
  BY <1>1, <1>3
<1>5. \A q \in 0 .. n - 1 : s[q] = IF q = p THEN e ELSE v.slot[q]
  BY <1>1, <1>3
<1> HIDE DEF s
<1>6. x.slot = s /\ x.logLen = n /\ x.allocLen = m
  OBVIOUS
<1>7. IsVector(x, E)
  BY <1>1, <1>4, <1>5, <1>6 DEF IsVector, Position
<1> QED BY <1>2, <1>5, <1>6, <1>7 DEF WellFormed, IsStruct, n

(***************************************************************************)
(* memmove makes room for one element, or closes the gap one left.         *)
(***************************************************************************)
LEMMA InsertFact ==
  ASSUME NEW E, NEW v, WellFormed(v, E), NEW e \in E, NEW p \in 0 .. v.logLen
  PROVE  /\ WellFormed(VectorInsert(v, e, p), E)
         /\ VectorInsert(v, e, p).logLen = v.logLen + 1
         /\ \A q \in 0 .. v.logLen :
              VectorInsert(v, e, p).slot[q] =
                IF q = p THEN e ELSE IF q < p THEN v.slot[q] ELSE v.slot[q - 1]
<1> DEFINE w == Grown(v)
           n == v.logLen
           m == w.allocLen
           t == MemMove(w.slot, p + 1, p, n - p)
           s == [t EXCEPT ![p] = e]
           x == [slot |-> s, logLen |-> n + 1, allocLen |-> m]
<1>0. n \in Nat /\ p \in 0 .. n /\ \A q \in 0 .. n - 1 : v.slot[q] \in E
  BY ElementFact
<1>1. CASE p = n
  <2>1. VectorInsert(v, e, p) = VectorAppend(v, e)
    BY <1>1 DEF VectorInsert
  <2>2. \A q \in 0 .. n : q # n => q < n
    BY <1>0
  <2> QED BY <1>1, <2>1, <2>2, AppendFact
<1>2. CASE p # n
  <2>1. /\ WellFormed(w, E) /\ w.logLen = n /\ n < m
        /\ \A q \in 0 .. n - 1 : w.slot[q] = v.slot[q]
    BY GrownFact
  <2>2. /\ m \in Nat \ {0} /\ w.slot \in [0 .. m - 1 -> E \cup {Junk}]
        /\ DOMAIN w.slot = 0 .. m - 1
    BY <2>1 DEF WellFormed, IsVector
  <2>3. VectorInsert(v, e, p) = x
    <3>1. VectorInsert(v, e, p) =
            [w EXCEPT !.slot = [MemMove(w.slot, p + 1, p, w.logLen - p) EXCEPT ![p] = e],
                      !.logLen = w.logLen + 1]
      BY <1>2 DEF VectorInsert
    <3> HIDE DEF w
    <3> QED BY <2>1, <3>1 DEF WellFormed, IsStruct
  <2> HIDE DEF w, n
  <2>4. t = [q \in 0 .. m - 1 |-> IF q \in p + 1 .. n THEN w.slot[q - 1] ELSE w.slot[q]]
    <3>1. p + 1 + (n - p) - 1 = n
      BY <1>0
    <3>2. \A q \in 0 .. m - 1 : q \in p + 1 .. n => p + (q - (p + 1)) = q - 1
      BY <1>0, <2>2
    <3> HIDE DEF m
    <3> QED BY <2>2, <3>1, <3>2 DEF MemMove
  <2>5. \A q \in 0 .. n : /\ q \in 0 .. m - 1
                          /\ q # n => q \in 0 .. n - 1
                          /\ q \in p + 1 .. n <=> ~(q <= p)
                          /\ q > p => q - 1 \in 0 .. n - 1
    BY <1>0, <2>1, <2>2
  <2>6. \A q \in 0 .. m - 1 : q \in p + 1 .. n => q - 1 \in 0 .. m - 1
    BY <1>0, <2>2
  <2>7. t \in [0 .. m - 1 -> E \cup {Junk}]
    <3> HIDE DEF m
    <3> QED BY <2>2, <2>4, <2>6
  <2>8. \A q \in 0 .. n : t[q] = IF q <= p THEN w.slot[q] ELSE w.slot[q - 1]
    <3> HIDE DEF m, t
    <3> QED BY <2>4, <2>5
  <2>9. p \in 0 .. m - 1
    BY <1>0, <2>5
  <2>10. s \in [0 .. m - 1 -> E \cup {Junk}]
    <3> HIDE DEF m, t
    <3> QED BY <2>7, <2>9
  <2>11. ASSUME NEW q \in 0 .. n
         PROVE  s[q] = IF q = p THEN e ELSE IF q < p THEN v.slot[q] ELSE v.slot[q - 1]
    <3> HIDE DEF t, m
    <3>1. q = p => s[q] = e
      BY <2>7, <2>9
    <3>2. q # p => s[q] = t[q]
      BY <2>5, <2>7, <2>9
    <3>3. CASE q < p
      <4>1. q <= p /\ q \in 0 .. n - 1
        BY <1>0, <3>3
      <4> HIDE DEF s
      <4> QED BY <2>1, <2>8, <3>2, <3>3, <4>1
    <3>4. CASE q > p
      <4>1. ~(q <= p) /\ q - 1 \in 0 .. n - 1 /\ q # p
        BY <1>0, <2>5, <3>4
      <4> HIDE DEF s
      <4> QED BY <2>1, <2>8, <3>2, <3>4, <4>1
    <3> QED BY <1>0, <3>1, <3>3, <3>4
  <2>12. \A q \in 0 .. (n + 1) - 1 : q \in 0 .. n /\ s[q] \in E
    <3>1. \A q \in 0 .. (n + 1) - 1 : q \in 0 .. n
      BY <1>0
    <3>2. \A q \in 0 .. n : (q < p => q \in 0 .. n - 1)
      BY <1>0
    <3> HIDE DEF s
    <3> QED BY <1>0, <2>5, <2>11, <3>1, <3>2
  <2> HIDE DEF s, m
  <2>13. x.slot = s /\ x.logLen = n + 1 /\ x.allocLen = m
    OBVIOUS
  <2>14. n + 1 \in 0 .. m
    BY <1>0, <2>1, <2>2
  <2>15. IsVector(x, E)
    BY <2>2, <2>10, <2>12, <2>13, <2>14 DEF IsVector, Position
  <2> QED BY <2>3, <2>11, <2>13, <2>15 DEF WellFormed, IsStruct, n
<1> QED BY <1>1, <1>2

LEMMA DeleteFact ==
  ASSUME NEW E, NEW v, WellFormed(v, E), NEW p \in Position(v)
  PROVE  /\ WellFormed(VectorDelete(v, p), E)
         /\ VectorDelete(v, p).logLen = v.logLen - 1
         /\ \A q \in 0 .. v.logLen - 2 :
              VectorDelete(v, p).slot[q] = IF q < p THEN v.slot[q] ELSE v.slot[q + 1]
<1> DEFINE n == v.logLen
           m == v.allocLen
           t == MemMove(v.slot, p, p + 1, n - p - 1)
           s == IF p = n - 1 THEN v.slot ELSE t
           x == [slot |-> s, logLen |-> n - 1, allocLen |-> m]
<1>1. /\ n \in Nat /\ m \in Nat \ {0} /\ n <= m /\ p \in 0 .. n - 1
      /\ v.slot \in [0 .. m - 1 -> E \cup {Junk}] /\ DOMAIN v.slot = 0 .. m - 1
      /\ \A q \in 0 .. n - 1 : v.slot[q] \in E
  BY DEF WellFormed, IsVector, Position
<1>2. VectorDelete(v, p) = x
  <2>1. VectorDelete(v, p) = [v EXCEPT !.slot = s, !.logLen = n - 1]
    BY DEF VectorDelete
  <2> HIDE DEF s
  <2> QED BY <2>1 DEF WellFormed, IsStruct
<1> HIDE DEF n, m
<1>3. t = [q \in 0 .. m - 1 |-> IF q \in p .. n - 2 THEN v.slot[q + 1] ELSE v.slot[q]]
  <2>1. p + (n - p - 1) - 1 = n - 2
    BY <1>1
  <2>2. \A q \in 0 .. m - 1 : q \in p .. n - 2 => p + 1 + (q - p) = q + 1
    BY <1>1
  <2> QED BY <1>1, <2>1, <2>2 DEF MemMove
<1>4. \A q \in 0 .. n - 2 : /\ q \in 0 .. m - 1 /\ q \in 0 .. n - 1 /\ q + 1 \in 0 .. n - 1
                            /\ q \in p .. n - 2 <=> ~(q < p)
  BY <1>1
<1>5. \A q \in 0 .. m - 1 : q \in p .. n - 2 => q + 1 \in 0 .. m - 1
  BY <1>1
<1>6. t \in [0 .. m - 1 -> E \cup {Junk}]
  BY <1>1, <1>3, <1>5
<1>7. \A q \in 0 .. n - 2 : t[q] = IF q < p THEN v.slot[q] ELSE v.slot[q + 1]
  <2> HIDE DEF t
  <2> QED BY <1>3, <1>4
<1>8. s \in [0 .. m - 1 -> E \cup {Junk}]
  <2> HIDE DEF t
  <2> QED BY <1>1, <1>6
<1>9. \A q \in 0 .. n - 2 : s[q] = IF q < p THEN v.slot[q] ELSE v.slot[q + 1]
  <2>1. p = n - 1 => \A q \in 0 .. n - 2 : q < p
    BY <1>1
  <2> HIDE DEF t
  <2> QED BY <1>7, <2>1
<1>10. \A q \in 0 .. (n - 1) - 1 : q \in 0 .. n - 2 /\ s[q] \in E
  <2>1. \A q \in 0 .. (n - 1) - 1 : q \in 0 .. n - 2
    BY <1>1
  <2> HIDE DEF s
  <2> QED BY <1>1, <1>4, <1>9, <2>1
<1> HIDE DEF s
<1>11. x.slot = s /\ x.logLen = n - 1 /\ x.allocLen = m
  OBVIOUS
<1>12. n - 1 \in 0 .. m
  BY <1>1
<1>13. IsVector(x, E)
  BY <1>1, <1>8, <1>10, <1>11, <1>12 DEF IsVector, Position
<1> QED BY <1>2, <1>9, <1>11, <1>13 DEF WellFormed, IsStruct, n

(***************************************************************************)
(* A sorted vector has the same elements, moved by a permutation of the    *)
(* positions.                                                              *)
(***************************************************************************)
Permutation(S) == {f \in [S -> S] : /\ \A p, q \in S : f[p] = f[q] => p = q
                                    /\ \A p \in S : \E q \in S : f[q] = p}

LEMMA SortFact ==
  ASSUME NEW E, NEW v, WellFormed(v, E), NEW lessEq, NEW w \in VectorSorts(v, lessEq)
  PROVE  /\ WellFormed(w, E) /\ w.logLen = v.logLen
         /\ \E f \in Permutation(Position(v)) :
              \A p \in Position(v) : w.slot[p] = v.slot[f[p]]
         /\ \A p, q \in Position(v) : p < q => <<w.slot[p], w.slot[q]>> \in lessEq
<1> DEFINE P == Position(v)
           n == v.logLen
           m == v.allocLen
<1>1. /\ n \in Nat /\ m \in Nat \ {0} /\ n \in 0 .. m /\ P = 0 .. n - 1 /\ n <= m
      /\ v.slot \in [0 .. m - 1 -> E \cup {Junk}] /\ DOMAIN v.slot = 0 .. m - 1
      /\ \A q \in P : v.slot[q] \in E
  BY DEF WellFormed, IsVector, Position
<1>2. PICK f \in [P -> P] :
        /\ w = [v EXCEPT !.slot = [p \in DOMAIN v.slot |-> IF p \in P THEN v.slot[f[p]] ELSE v.slot[p]]]
        /\ \A p, q \in P : p # q => f[p] # f[q]
        /\ \A p, q \in P : p < q => <<v.slot[f[p]], v.slot[f[q]]>> \in lessEq
  BY DEF VectorSorts
<1>3. f \in Permutation(P)
  <2>1. f \in Injection(P, P)
    BY <1>2 DEF Injection, IsInjective
  <2>2. IsFiniteSet(P)
    <3>1. 0 \in Int /\ n - 1 \in Int
      BY <1>1
    <3>2. IsFiniteSet(0 .. n - 1)
      BY <3>1, FS_Interval
    <3> QED BY <1>1, <3>2
  <2>3. f \in Surjection(P, P)
    BY <2>1, <2>2, FS_Injection
  <2>4. \A p \in P : \E q \in P : f[q] = p
    BY <2>3 DEF Surjection
  <2> QED BY <1>2, <2>4 DEF Permutation
<1> DEFINE s == [p \in 0 .. m - 1 |-> IF p \in P THEN v.slot[f[p]] ELSE v.slot[p]]
           x == [slot |-> s, logLen |-> n, allocLen |-> m]
<1>4. w = x
  BY <1>1, <1>2 DEF WellFormed, IsStruct
<1> HIDE DEF P, n, m
<1>5. P \subseteq 0 .. m - 1
  BY <1>1
<1>6. s \in [0 .. m - 1 -> E \cup {Junk}]
  BY <1>1, <1>2, <1>5
<1>7. \A p \in P : s[p] = v.slot[f[p]] /\ s[p] \in E
  BY <1>1, <1>2, <1>5
<1> HIDE DEF s
<1>8. x.slot = s /\ x.logLen = n /\ x.allocLen = m
  OBVIOUS
<1>9. IsVector(x, E)
  BY <1>1, <1>6, <1>7, <1>8 DEF IsVector, Position
<1>10. WellFormed(w, E) /\ w.logLen = v.logLen
  BY <1>4, <1>8, <1>9 DEF WellFormed, IsStruct, n
<1>11. \A p \in P : w.slot[p] = v.slot[f[p]]
  BY <1>4, <1>7, <1>8
<1>12. \A p, q \in P : p < q => <<w.slot[p], w.slot[q]>> \in lessEq
  BY <1>2, <1>11
<1> QED BY <1>3, <1>10, <1>11, <1>12 DEF P

(***************************************************************************)
(* A search finds the first match, if there is one.                        *)
(***************************************************************************)
LEMMA SearchFact ==
  ASSUME NEW E, NEW v, WellFormed(v, E), NEW M
  PROVE  \/ /\ VectorSearch(v, M, 0) = -1
            /\ \A p \in Position(v) : v.slot[p] \notin M
         \/ /\ VectorSearch(v, M, 0) \in Position(v)
            /\ v.slot[VectorSearch(v, M, 0)] \in M
            /\ \A p \in Position(v) : v.slot[p] \in M => VectorSearch(v, M, 0) <= p
<1> DEFINE found == {p \in 0 .. v.logLen - 1 : v.slot[p] \in M}
<1>1. VectorSearch(v, M, 0) =
        IF found = {} THEN -1 ELSE CHOOSE p \in found : \A q \in found : p <= q
  BY DEF VectorSearch
<1>2. CASE found = {}
  BY <1>1, <1>2 DEF Position
<1>3. CASE found # {}
  <2>1. found \subseteq Nat
    OBVIOUS
  <2> HIDE DEF found
  <2>2. \E p \in found : \A q \in found : p <= q
    BY <1>3, <2>1, LeastNat
  <2>3. /\ VectorSearch(v, M, 0) \in found
        /\ \A q \in found : VectorSearch(v, M, 0) <= q
    BY <1>1, <1>3, <2>2
  <2> QED BY <2>3 DEF found, Position
<1> QED BY <1>2, <1>3
-----------------------------------------------------------------------------
(***************************************************************************)
(* A vector read as a sequence.                                            *)
(***************************************************************************)
LEMMA ContentsFact ==
  ASSUME NEW E, NEW v, WellFormed(v, E)
  PROVE  /\ Contents(v) \in Seq(E) /\ Len(Contents(v)) = v.logLen
         /\ \A i \in 1 .. v.logLen : Contents(v)[i] = v.slot[i - 1]
<1> DEFINE n == v.logLen
<1>1. n \in Nat /\ \A i \in 1 .. n : v.slot[i - 1] \in E
  <2>1. n \in Nat /\ \A q \in 0 .. n - 1 : v.slot[q] \in E
    BY ElementFact
  <2>2. \A i \in 1 .. n : i - 1 \in 0 .. n - 1
    BY <2>1
  <2> QED BY <2>1, <2>2
<1>2. Contents(v) = [i \in 1 .. n |-> v.slot[i - 1]]
  BY DEF Contents
<1> HIDE DEF n
<1>3. Contents(v) \in Seq(E)
  BY <1>1, <1>2
<1>4. Len(Contents(v)) = n
  BY <1>1, <1>2, <1>3
<1> QED BY <1>2, <1>3, <1>4 DEF n

LEMMA InsertSeq ==
  ASSUME NEW E, NEW s \in Seq(E), NEW e \in E, NEW p \in 1 .. Len(s) + 1,
         NEW t \in Seq(E), Len(t) = Len(s) + 1,
         \A i \in 1 .. Len(s) + 1 :
           t[i] = IF i = p THEN e ELSE IF i < p THEN s[i] ELSE s[i - 1]
  PROVE  t = SubSeq(s, 1, p - 1) \o << e >> \o SubSeq(s, p, Len(s))
<1> DEFINE n == Len(s)
           a == SubSeq(s, 1, p - 1)
           b == SubSeq(s, p, n)
           m == << e >>
<1>1. n \in Nat /\ \A i \in 1 .. n : s[i] \in E
  OBVIOUS
<1>2. a \in Seq(E) /\ Len(a) = p - 1 /\ \A i \in 1 .. p - 1 : a[i] = s[i]
  <2>1. \A i \in 1 .. p - 1 : s[i] \in E
    BY <1>1
  <2> HIDE DEF n
  <2> QED BY <1>1, <2>1, SubSeqProperties
<1>3. b \in Seq(E) /\ Len(b) = n + 1 - p /\ \A i \in 1 .. n + 1 - p : b[i] = s[p + i - 1]
  <2>1. \A i \in p .. n : s[i] \in E
    BY <1>1
  <2>2. p \in Int /\ n \in Int /\ n - p + 1 = n + 1 - p
    BY <1>1
  <2>3. /\ b \in Seq(E) /\ Len(b) = IF p <= n THEN n - p + 1 ELSE 0
        /\ \A i \in 1 .. n - p + 1 : b[i] = s[p + i - 1]
    <3> HIDE DEF n
    <3> QED BY <2>1, <2>2, SubSeqProperties
  <2> HIDE DEF b
  <2>4. Len(b) = n + 1 - p
    BY <1>1, <2>3
  <2> QED BY <2>2, <2>3, <2>4
<1>4. m \in Seq(E) /\ Len(m) = 1 /\ m[1] = e
  OBVIOUS
<1> HIDE DEF n, a, b, m
<1> DEFINE c == a \o m
<1>5. c \in Seq(E) /\ Len(c) = p /\ \A i \in 1 .. p : c[i] = IF i <= p - 1 THEN a[i] ELSE m[i - (p - 1)]
  <2>1. /\ c \in Seq(E) /\ Len(c) = Len(a) + Len(m)
        /\ \A i \in 1 .. Len(a) + Len(m) : c[i] = IF i <= Len(a) THEN a[i] ELSE m[i - Len(a)]
    BY <1>2, <1>4, ConcatProperties
  <2> HIDE DEF c
  <2>2. Len(a) + Len(m) = p
    BY <1>2, <1>4
  <2> QED BY <1>2, <2>1, <2>2
<1> HIDE DEF c
<1> DEFINE d == c \o b
<1>6. /\ d \in Seq(E) /\ Len(d) = n + 1
      /\ \A i \in 1 .. n + 1 : d[i] = IF i <= p THEN c[i] ELSE b[i - p]
  <2>1. /\ d \in Seq(E) /\ Len(d) = Len(c) + Len(b)
        /\ \A i \in 1 .. Len(c) + Len(b) : d[i] = IF i <= Len(c) THEN c[i] ELSE b[i - Len(c)]
    BY <1>3, <1>5, ConcatProperties
  <2> HIDE DEF d
  <2>2. Len(c) + Len(b) = n + 1
    BY <1>1, <1>3, <1>5
  <2> QED BY <1>5, <2>1, <2>2
<1> HIDE DEF d
<1>7. ASSUME NEW i \in 1 .. n + 1 PROVE t[i] = d[i]
  <2>1. CASE i < p
    <3>1. i \in 1 .. p - 1 /\ i \in 1 .. p /\ i <= p /\ i <= p - 1 /\ i # p
      BY <1>1, <2>1
    <3> QED BY <1>2, <1>5, <1>6, <1>7, <2>1, <3>1 DEF n
  <2>2. CASE i = p
    <3>1. i \in 1 .. p /\ i <= p /\ ~(i <= p - 1) /\ i - (p - 1) = 1
      BY <1>1, <2>2
    <3> QED BY <1>4, <1>5, <1>6, <1>7, <2>2, <3>1 DEF n
  <2>3. CASE i > p
    <3>1. /\ i # p /\ ~(i < p) /\ ~(i <= p) /\ i - p \in 1 .. n + 1 - p
          /\ p + (i - p) - 1 = i - 1
      BY <1>1, <2>3
    <3>2. d[i] = b[i - p] /\ b[i - p] = s[p + (i - p) - 1]
      BY <1>3, <1>6, <1>7, <3>1
    <3> QED BY <1>7, <3>1, <3>2 DEF n
  <2> QED BY <1>1, <2>1, <2>2, <2>3
<1>8. t = d
  BY <1>6, <1>7, SeqEqual DEF n
<1> QED BY <1>8 DEF d, c, m, a, b, n

LEMMA DeleteSeq ==
  ASSUME NEW E, NEW s \in Seq(E), NEW p \in 1 .. Len(s),
         NEW t \in Seq(E), Len(t) = Len(s) - 1,
         \A i \in 1 .. Len(s) - 1 : t[i] = IF i < p THEN s[i] ELSE s[i + 1]
  PROVE  t = SubSeq(s, 1, p - 1) \o SubSeq(s, p + 1, Len(s))
<1> DEFINE n == Len(s)
           a == SubSeq(s, 1, p - 1)
           b == SubSeq(s, p + 1, n)
<1>1. n \in Nat /\ \A i \in 1 .. n : s[i] \in E
  OBVIOUS
<1>2. a \in Seq(E) /\ Len(a) = p - 1 /\ \A i \in 1 .. p - 1 : a[i] = s[i]
  <2>1. \A i \in 1 .. p - 1 : s[i] \in E
    BY <1>1
  <2> HIDE DEF n
  <2> QED BY <1>1, <2>1, SubSeqProperties
<1>3. b \in Seq(E) /\ Len(b) = n - p /\ \A i \in 1 .. n - p : b[i] = s[p + i]
  <2>1. \A i \in p + 1 .. n : s[i] \in E
    BY <1>1
  <2>2. p + 1 \in Int /\ n \in Int /\ n - (p + 1) + 1 = n - p
    BY <1>1
  <2>3. /\ b \in Seq(E) /\ Len(b) = IF p + 1 <= n THEN n - (p + 1) + 1 ELSE 0
        /\ \A i \in 1 .. n - (p + 1) + 1 : b[i] = s[(p + 1) + i - 1]
    <3> HIDE DEF n
    <3> QED BY <2>1, <2>2, SubSeqProperties
  <2> HIDE DEF b
  <2>4. Len(b) = n - p
    BY <1>1, <2>2, <2>3
  <2>5. \A i \in 1 .. n - p : (p + 1) + i - 1 = p + i
    BY <1>1
  <2> QED BY <2>2, <2>3, <2>4, <2>5
<1> HIDE DEF n, a, b
<1> DEFINE d == a \o b
<1>4. /\ d \in Seq(E) /\ Len(d) = n - 1
      /\ \A i \in 1 .. n - 1 : d[i] = IF i <= p - 1 THEN a[i] ELSE b[i - (p - 1)]
  <2>1. /\ d \in Seq(E) /\ Len(d) = Len(a) + Len(b)
        /\ \A i \in 1 .. Len(a) + Len(b) : d[i] = IF i <= Len(a) THEN a[i] ELSE b[i - Len(a)]
    BY <1>2, <1>3, ConcatProperties
  <2> HIDE DEF d
  <2>2. Len(a) + Len(b) = n - 1
    BY <1>1, <1>2, <1>3
  <2> QED BY <1>2, <2>1, <2>2
<1> HIDE DEF d
<1>5. ASSUME NEW i \in 1 .. n - 1 PROVE t[i] = d[i]
  <2>1. CASE i < p
    <3>1. i \in 1 .. p - 1 /\ i <= p - 1
      BY <1>1, <2>1
    <3> QED BY <1>2, <1>4, <1>5, <2>1, <3>1 DEF n
  <2>2. CASE ~(i < p)
    <3>1. ~(i <= p - 1) /\ i - (p - 1) \in 1 .. n - p /\ p + (i - (p - 1)) = i + 1
      BY <1>1, <2>2
    <3>2. d[i] = b[i - (p - 1)] /\ b[i - (p - 1)] = s[p + (i - (p - 1))]
      BY <1>3, <1>4, <1>5, <3>1
    <3> QED BY <1>5, <2>2, <3>1, <3>2 DEF n
  <2> QED BY <2>1, <2>2
<1>6. t = d
  BY <1>4, <1>5, SeqEqual DEF n
<1> QED BY <1>6 DEF d, a, b, n
=============================================================================
