-------------------------- MODULE VectorMemProofs ---------------------------
(***************************************************************************)
(* Theorems about VectorMem for any keys, number of elements and initial   *)
(* allocation: type correctness, who frees an element, and that the block  *)
(* of slots implements a sequence.                                         *)
(***************************************************************************)
EXTENDS VectorMem, OperatorProofs

(***************************************************************************)
(* The inductive invariant: an element in the vector was made and is at    *)
(* one position, and exactly those that have left it have been freed.      *)
(***************************************************************************)
Held(id) == live /\ \E p \in Position(vec) : vec.slot[p].id = id

MemShape ==
  /\ WellFormed(vec, Elem)
  /\ live \in BOOLEAN /\ made \in 0 .. MaxElements
  /\ freed \in [1 .. MaxElements -> Nat]

OnePlaceEach ==
  live => /\ \A p \in Position(vec) : vec.slot[p].id \in 1 .. made
          /\ \A p, q \in Position(vec) : vec.slot[p].id = vec.slot[q].id => p = q

FreedWhenLeft ==
  \A id \in 1 .. MaxElements : freed[id] = IF id \in 1 .. made /\ ~Held(id) THEN 1 ELSE 0

MemInv == MemShape /\ OnePlaceEach /\ FreedWhenLeft
-----------------------------------------------------------------------------
(***************************************************************************)
(* What an operation of the vector does to who owns what: the elements     *)
(* move by f, the ones at the positions in gone leave, and a new one comes *)
(* to the position in fresh.                                               *)
(***************************************************************************)
Moves(w, f, gone, fresh) ==
  /\ gone \subseteq Position(vec) /\ fresh \subseteq Position(w)
  /\ \A p, q \in fresh : p = q
  /\ \A p, q \in gone : p = q
  /\ f \in [Position(w) \ fresh -> Position(vec) \ gone]
  /\ \A p, q \in Position(w) \ fresh : f[p] = f[q] => p = q
  /\ \A p \in Position(vec) \ gone : \E q \in Position(w) \ fresh : f[q] = p
  /\ \A q \in Position(w) \ fresh : w.slot[q] = vec.slot[f[q]]
  /\ \A q \in fresh : w.slot[q].id = made + 1

LEMMA MovesKeep ==
  ASSUME MemInv, live, NEW f, NEW gone, NEW fresh, Moves(vec', f, gone, fresh),
         live' = live, MemShape',
         fresh = {} => made' = made,
         fresh # {} => made' = made + 1,
         gone = {} => freed' = freed,
         \A g \in gone : freed' = [freed EXCEPT ![vec.slot[g].id] = @ + 1]
  PROVE  OnePlaceEach' /\ FreedWhenLeft'
<1> DEFINE P == Position(vec)
           Q == Position(vec')
           At(p) == vec.slot[p].id
           To(q) == vec'.slot[q].id
<1>1. /\ gone \subseteq P /\ fresh \subseteq Q
      /\ \A p, q \in fresh : p = q
      /\ \A p, q \in gone : p = q
      /\ f \in [Q \ fresh -> P \ gone]
      /\ \A p, q \in Q \ fresh : f[p] = f[q] => p = q
      /\ \A p \in P \ gone : \E q \in Q \ fresh : f[q] = p
      /\ \A q \in Q \ fresh : To(q) = At(f[q])
      /\ \A q \in fresh : To(q) = made + 1
  BY DEF Moves
<1>2. /\ \A p \in P : At(p) \in 1 .. made
      /\ \A p, q \in P : At(p) = At(q) => p = q
      /\ made \in Nat /\ made' \in Nat /\ MaxElements \in Nat /\ made' <= MaxElements
  BY VectorAssumption DEF MemInv, MemShape, OnePlaceEach
<1>3. \A i : Held(i) <=> \E p \in P : At(p) = i
  BY DEF Held
<1>4. \A i : Held(i)' <=> \E q \in Q : To(q) = i
  BY DEF Held
<1> HIDE DEF P, Q, At, To
<1>5. made' = IF fresh = {} THEN made ELSE made + 1
  OBVIOUS
<1>6. \A q \in Q : To(q) \in 1 .. made'
  <2>1. \A q \in Q \ fresh : To(q) \in 1 .. made
    BY <1>1, <1>2
  <2>2. \A q \in fresh : To(q) = made + 1 /\ made' = made + 1
    BY <1>1, <1>5
  <2> QED BY <1>2, <1>5, <2>1, <2>2
<1>7. ASSUME NEW p \in Q, NEW q \in Q, To(p) = To(q) PROVE p = q
  <2>1. CASE p \in fresh
    <3>1. q \in fresh
      BY <1>1, <1>2, <1>7, <2>1
    <3> QED BY <1>1, <2>1, <3>1
  <2>2. CASE q \in fresh
    <3>1. p \in fresh
      BY <1>1, <1>2, <1>7, <2>2
    <3> QED BY <1>1, <2>2, <3>1
  <2>3. CASE p \notin fresh /\ q \notin fresh
    BY <1>1, <1>2, <1>7, <2>3
  <2> QED BY <2>1, <2>2, <2>3
<1>8. OnePlaceEach'
  BY <1>6, <1>7 DEF OnePlaceEach, Q, To
<1>9. ASSUME NEW id \in 1 .. MaxElements
      PROVE  freed'[id] = IF id \in 1 .. made' /\ ~Held(id)' THEN 1 ELSE 0
  <2>1. freed[id] = IF id \in 1 .. made /\ ~Held(id) THEN 1 ELSE 0
    BY <1>9 DEF MemInv, FreedWhenLeft
  <2>2. freed \in [1 .. MaxElements -> Nat]
    BY DEF MemInv, MemShape
  <2>3. CASE \E q \in fresh : To(q) = id
    <3>1. id = made + 1 /\ made' = made + 1 /\ Held(id)'
      BY <1>1, <1>4, <1>5, <2>3
    <3>2. \A g \in gone : At(g) # id
      BY <1>1, <1>2, <3>1
    <3>3. freed'[id] = freed[id]
      BY <1>9, <2>2, <3>2 DEF At
    <3> QED BY <1>2, <2>1, <3>1, <3>3
  <2>4. CASE \E g \in gone : At(g) = id
    <3>1. PICK g \in gone : At(g) = id
      BY <2>4
    <3>2. Held(id) /\ id \in 1 .. made
      BY <1>1, <1>2, <1>3, <3>1
    <3>3. freed'[id] = freed[id] + 1
      BY <1>9, <2>2, <3>1 DEF At
    <3>4. ~Held(id)'
      <4>1. \A q \in Q \ fresh : To(q) # id
        BY <1>1, <1>2, <3>1
      <4>2. \A q \in fresh : To(q) # id
        BY <1>1, <1>2, <3>2
      <4> QED BY <1>4, <4>1, <4>2
    <3>5. id \in 1 .. made'
      BY <1>2, <1>5, <3>2
    <3> QED BY <2>1, <3>2, <3>3, <3>4, <3>5
  <2>5. CASE (\A q \in fresh : To(q) # id) /\ (\A g \in gone : At(g) # id)
    <3>1. Held(id)' <=> Held(id)
      BY <1>1, <1>3, <1>4, <2>5
    <3>2. freed'[id] = freed[id]
      BY <1>9, <2>2, <2>5 DEF At
    <3>3. id \in 1 .. made' <=> id \in 1 .. made
      <4>1. CASE fresh = {}
        BY <1>5, <4>1
      <4>2. CASE fresh # {}
        <5>1. id # made + 1 /\ made' = made + 1
          BY <1>1, <1>5, <2>5, <4>2
        <5> QED BY <1>2, <5>1
      <4> QED BY <4>1, <4>2
    <3> QED BY <2>1, <3>1, <3>2, <3>3
  <2> QED BY <2>3, <2>4, <2>5
<1> QED BY <1>8, <1>9 DEF FreedWhenLeft
-----------------------------------------------------------------------------
(***************************************************************************)
(* The operations, one by one.                                             *)
(***************************************************************************)
Ordered == IF live THEN Contents(vec) ELSE << >>   \* what seq stands for

LEMMA MakeFact ==
  ASSUME MemInv, made < MaxElements, NEW k \in Key
  PROVE  Make(k) \in Elem /\ Make(k).id = made + 1 /\ made + 1 \in 0 .. MaxElements
<1>1. made \in Nat /\ MaxElements \in Nat
  BY VectorAssumption DEF MemInv, MemShape
<1>2. made + 1 \in 1 .. MaxElements
  BY <1>1
<1> QED BY <1>1, <1>2 DEF Make, Elem

LEMMA VecFact ==
  ASSUME MemInv
  PROVE  /\ vec.logLen \in Nat /\ Position(vec) = 0 .. vec.logLen - 1
         /\ WellFormed(vec, Elem) /\ made \in Nat
         /\ Contents(vec) \in Seq(Elem) /\ Len(Contents(vec)) = vec.logLen
         /\ \A i \in 1 .. vec.logLen : Contents(vec)[i] = vec.slot[i - 1]
<1>1. WellFormed(vec, Elem)
  BY DEF MemInv, MemShape
<1>2. vec.logLen \in Nat /\ made \in Nat
  BY <1>1, ElementFact DEF MemInv, MemShape
<1> QED BY <1>1, <1>2, ContentsFact DEF Position

LEMMA FreeingFact ==
  ASSUME MemInv, NEW p \in Position(vec), Freeing(vec.slot[p])
  PROVE  /\ freed' = [freed EXCEPT ![vec.slot[p].id] = @ + 1]
         /\ freed' \in [1 .. MaxElements -> Nat]
<1> DEFINE id == vec.slot[p].id
<1>1. vec.slot[p] \in Elem
  BY DEF MemInv, MemShape, WellFormed, IsVector
<1>2. id \in 1 .. MaxElements
  BY <1>1 DEF Elem
<1>3. freed \in [1 .. MaxElements -> Nat]
  BY DEF MemInv, MemShape
<1>4. freed' = [freed EXCEPT ![id] = @ + 1]
  BY DEF Freeing
<1> HIDE DEF id
<1>5. freed' \in [1 .. MaxElements -> Nat]
  BY <1>2, <1>3, <1>4
<1> QED BY <1>4, <1>5 DEF id

(***************************************************************************)
(* An insertion, at the end or before an element.                          *)
(***************************************************************************)
LEMMA InsertKeeps ==
  ASSUME MemInv, NEW k \in Key, NEW p \in 0 .. vec.logLen, CanMake,
         vec'.logLen = vec.logLen + 1, WellFormed(vec', Elem),
         \A q \in 0 .. vec.logLen :
           vec'.slot[q] = IF q = p THEN Make(k) ELSE IF q < p THEN vec.slot[q] ELSE vec.slot[q - 1],
         made' = made + 1, UNCHANGED <<live, freed>>
  PROVE  MemInv' /\ Sequence!Insert(k, p + 1)
<1> DEFINE n == vec.logLen
           e == Make(k)
           f == [q \in (0 .. n) \ {p} |-> IF q < p THEN q ELSE q - 1]
<1>1. /\ n \in Nat /\ Position(vec) = 0 .. n - 1 /\ Position(vec') = 0 .. n
      /\ live /\ made < MaxElements /\ p \in 0 .. n
  <2>1. n \in Nat /\ Position(vec) = 0 .. n - 1 /\ vec'.logLen - 1 = n
    BY VecFact
  <2> QED BY <2>1 DEF CanMake, Position
<1>2. e \in Elem /\ e.id = made + 1 /\ made + 1 \in 0 .. MaxElements
  BY <1>1, MakeFact
<1>3. MemShape'
  BY <1>2 DEF MemInv, MemShape
<1>4. Moves(vec', f, {}, {p})
  <2> HIDE DEF n
  <2>1. f \in [(0 .. n) \ {p} -> 0 .. n - 1]
    BY <1>1
  <2>2. \A q, r \in (0 .. n) \ {p} : f[q] = f[r] => q = r
    BY <1>1
  <2>3. \A r \in 0 .. n - 1 : \E q \in (0 .. n) \ {p} : f[q] = r
    <3> SUFFICES ASSUME NEW r \in 0 .. n - 1 PROVE \E q \in (0 .. n) \ {p} : f[q] = r
      OBVIOUS
    <3>1. CASE r < p
      <4>1. r \in (0 .. n) \ {p} /\ f[r] = r
        BY <1>1, <3>1
      <4> QED BY <4>1
    <3>2. CASE ~(r < p)
      <4>1. r + 1 \in (0 .. n) \ {p} /\ f[r + 1] = r
        BY <1>1, <3>2
      <4> QED BY <4>1
    <3> QED BY <3>1, <3>2
  <2>4. \A q \in (0 .. n) \ {p} : vec'.slot[q] = vec.slot[f[q]]
    BY <1>1 DEF n
  <2>5. vec'.slot[p].id = made + 1
    BY <1>2 DEF n
  <2> HIDE DEF f
  <2> QED BY <1>1, <2>1, <2>2, <2>3, <2>4, <2>5 DEF Moves
<1>5. OnePlaceEach' /\ FreedWhenLeft'
  <2> HIDE DEF f
  <2> DEFINE gone == {}
             fresh == {p}
  <2>1. \A g \in gone : freed' = [freed EXCEPT ![vec.slot[g].id] = @ + 1]
    OBVIOUS
  <2>2. fresh # {} /\ live' = live /\ freed' = freed
    OBVIOUS
  <2>3. Moves(vec', f, gone, fresh)
    BY <1>4
  <2> HIDE DEF gone, fresh
  <2> QED BY <1>1, <1>3, <2>1, <2>2, <2>3, MovesKeep
<1>6. Ordered' = SubSeq(Ordered, 1, (p + 1) - 1) \o << e >> \o SubSeq(Ordered, p + 1, Len(Ordered))
  <2> DEFINE s == Contents(vec)
             t == Contents(vec')
  <2>1. s \in Seq(Elem) /\ Len(s) = n /\ \A i \in 1 .. n : s[i] = vec.slot[i - 1]
    BY VecFact
  <2>2. t \in Seq(Elem) /\ Len(t) = n + 1 /\ \A i \in 1 .. n + 1 : t[i] = vec'.slot[i - 1]
    BY ContentsFact
  <2> HIDE DEF s, t
  <2>3. ASSUME NEW i \in 1 .. n + 1
        PROVE  t[i] = IF i = p + 1 THEN e ELSE IF i < p + 1 THEN s[i] ELSE s[i - 1]
    <3>1. i - 1 \in 0 .. n /\ (i - 1 < p <=> i < p + 1) /\ (i - 1 = p <=> i = p + 1)
      BY <1>1, <2>3
    <3>2. t[i] = IF i - 1 = p THEN e ELSE IF i - 1 < p THEN vec.slot[i - 1] ELSE vec.slot[i - 1 - 1]
      BY <2>2, <2>3, <3>1 DEF n
    <3>3. i < p + 1 => i \in 1 .. n
      BY <1>1, <2>3
    <3>4. i # p + 1 /\ ~(i < p + 1) => i - 1 \in 1 .. n
      BY <1>1, <2>3
    <3>5. i - 1 - 1 = (i - 1) - 1
      OBVIOUS
    <3> HIDE DEF n, e
    <3>6. CASE i < p + 1
      BY <2>1, <3>1, <3>2, <3>3, <3>6
    <3>7. CASE i = p + 1
      BY <3>1, <3>2, <3>7
    <3>8. CASE i # p + 1 /\ ~(i < p + 1)
      BY <2>1, <3>1, <3>2, <3>4, <3>5, <3>8
    <3> QED BY <3>6, <3>7, <3>8
  <2>4. p + 1 \in 1 .. Len(s) + 1
    BY <1>1, <2>1
  <2>5. t = SubSeq(s, 1, (p + 1) - 1) \o << e >> \o SubSeq(s, p + 1, Len(s))
    <3> HIDE DEF n, e
    <3> QED BY <1>2, <2>1, <2>2, <2>3, <2>4, InsertSeq
  <2> QED BY <1>1, <2>5 DEF Ordered, s, t
<1>7. Sequence!Insert(k, p + 1)
  BY <1>1, <1>6 DEF Sequence!Insert, Sequence!New, Make, Ordered
<1> QED BY <1>3, <1>5, <1>7 DEF MemInv

LEMMA AppendStep ==
  ASSUME MemInv, NEW k \in Key, AppendNew(k)
  PROVE  MemInv' /\ Sequence!Insert(k, vec.logLen + 1)
<1>1. made < MaxElements /\ CanMake
  BY DEF AppendNew, CanMake
<1>2. Make(k) \in Elem /\ WellFormed(vec, Elem) /\ vec.logLen \in 0 .. vec.logLen
  BY <1>1, MakeFact, VecFact
<1>3. vec' = VectorAppend(vec, Make(k))
  BY DEF AppendNew
<1>4. /\ WellFormed(vec', Elem) /\ vec'.logLen = vec.logLen + 1
      /\ \A q \in 0 .. vec.logLen : vec'.slot[q] = IF q = vec.logLen THEN Make(k) ELSE vec.slot[q]
  BY <1>2, <1>3, AppendFact
<1>5. \A q \in 0 .. vec.logLen : q # vec.logLen => q < vec.logLen
  BY VecFact
<1>6. made' = made + 1 /\ UNCHANGED <<live, freed>>
  BY DEF AppendNew
<1> QED BY <1>1, <1>2, <1>4, <1>5, <1>6, InsertKeeps

LEMMA InsertStep ==
  ASSUME MemInv, NEW k \in Key, NEW p \in 0 .. vec.logLen, Insert(k, p)
  PROVE  MemInv' /\ Sequence!Insert(k, p + 1)
<1>1. made < MaxElements /\ CanMake
  BY DEF Insert, CanMake
<1>2. Make(k) \in Elem /\ WellFormed(vec, Elem)
  BY <1>1, MakeFact, VecFact
<1>3. vec' = VectorInsert(vec, Make(k), p) /\ made' = made + 1 /\ UNCHANGED <<live, freed>>
  BY DEF Insert
<1>4. /\ WellFormed(vec', Elem) /\ vec'.logLen = vec.logLen + 1
      /\ \A q \in 0 .. vec.logLen :
           vec'.slot[q] =
             IF q = p THEN Make(k) ELSE IF q < p THEN vec.slot[q] ELSE vec.slot[q - 1]
  BY <1>2, <1>3, InsertFact
<1> QED BY <1>1, <1>3, <1>4, InsertKeeps

LEMMA ReplaceStep ==
  ASSUME MemInv, NEW k \in Key, NEW p \in Position(vec), Replace(k, p)
  PROVE  MemInv' /\ Sequence!Replace(k, p + 1)
<1> DEFINE n == vec.logLen
           e == Make(k)
           f == [q \in (0 .. n - 1) \ {p} |-> q]
<1>1. /\ n \in Nat /\ p \in 0 .. n - 1 /\ Position(vec) = 0 .. n - 1
      /\ live /\ live' = live /\ made < MaxElements /\ made' = made + 1
      /\ WellFormed(vec, Elem) /\ vec' = VectorReplace(vec, e, p)
  BY VecFact DEF Replace, CanMake
<1>2. e \in Elem /\ e.id = made + 1 /\ made + 1 \in 0 .. MaxElements
  BY <1>1, MakeFact
<1>3. /\ WellFormed(vec', Elem) /\ vec'.logLen = n
      /\ \A q \in 0 .. n - 1 : vec'.slot[q] = IF q = p THEN e ELSE vec.slot[q]
  BY <1>1, <1>2, ReplaceFact
<1>4. /\ freed' = [freed EXCEPT ![vec.slot[p].id] = @ + 1]
      /\ freed' \in [1 .. MaxElements -> Nat]
  BY FreeingFact DEF Replace
<1>5. MemShape'
  BY <1>1, <1>2, <1>3, <1>4 DEF MemInv, MemShape
<1>6. Position(vec') = 0 .. n - 1
  BY <1>3 DEF Position
<1>7. Moves(vec', f, {p}, {p})
  <2> HIDE DEF n, e
  <2> QED BY <1>1, <1>2, <1>3, <1>6 DEF Moves
<1>8. OnePlaceEach' /\ FreedWhenLeft'
  <2> DEFINE gone == {p}
             fresh == {p}
  <2>1. \A g \in gone : freed' = [freed EXCEPT ![vec.slot[g].id] = @ + 1]
    BY <1>4
  <2>2. fresh # {} /\ gone # {} /\ Moves(vec', f, gone, fresh)
    BY <1>7
  <2> HIDE DEF gone, fresh, f
  <2> QED BY <1>1, <1>5, <2>1, <2>2, MovesKeep
<1>9. Ordered' = [Ordered EXCEPT ![p + 1] = e] /\ Ordered[p + 1] = vec.slot[p]
  <2> DEFINE s == Contents(vec)
             t == Contents(vec')
  <2>1. s \in Seq(Elem) /\ Len(s) = n /\ \A i \in 1 .. n : s[i] = vec.slot[i - 1]
    BY VecFact
  <2>2. t \in Seq(Elem) /\ Len(t) = n /\ \A i \in 1 .. n : t[i] = vec'.slot[i - 1]
    BY <1>3, ContentsFact
  <2>3. Ordered = s /\ Ordered' = t
    BY <1>1 DEF Ordered
  <2> HIDE DEF s, t, n, e
  <2> DEFINE r == [s EXCEPT ![p + 1] = e]
  <2>4. p + 1 \in 1 .. Len(s) /\ (p + 1) - 1 = p
    BY <1>1, <2>1
  <2>5. /\ r \in Seq(Elem) /\ Len(r) = n
        /\ \A i \in 1 .. n : r[i] = IF i = p + 1 THEN e ELSE s[i]
    BY <1>2, <2>1, <2>4, ExceptSeq
  <2> HIDE DEF r
  <2>6. ASSUME NEW i \in 1 .. n PROVE t[i] = r[i]
    <3>1. i - 1 \in 0 .. n - 1 /\ (i - 1 = p <=> i = p + 1)
      BY <1>1, <2>6
    <3>2. t[i] = IF i - 1 = p THEN e ELSE vec.slot[i - 1]
      BY <1>3, <2>2, <3>1
    <3> QED BY <2>1, <2>5, <3>1, <3>2
  <2>7. t = r
    BY <2>2, <2>5, <2>6, SeqEqual
  <2>8. s[p + 1] = vec.slot[p]
    BY <2>1, <2>4
  <2> QED BY <2>3, <2>7, <2>8 DEF r
<1>10. Sequence!Replace(k, p + 1)
  BY <1>1, <1>4, <1>9 DEF Sequence!Replace, Sequence!New, Make, Ordered
<1> QED BY <1>5, <1>8, <1>10 DEF MemInv

LEMMA DeleteStep ==
  ASSUME MemInv, NEW p \in Position(vec), Delete(p)
  PROVE  MemInv' /\ Sequence!Delete(p + 1)
<1> DEFINE n == vec.logLen
           f == [q \in (0 .. n - 2) \ {} |-> IF q < p THEN q ELSE q + 1]
<1>1. /\ n \in Nat /\ p \in 0 .. n - 1 /\ Position(vec) = 0 .. n - 1
      /\ live /\ live' = live /\ made' = made
      /\ WellFormed(vec, Elem) /\ vec' = VectorDelete(vec, p)
  BY VecFact DEF Delete
<1>2. /\ WellFormed(vec', Elem) /\ vec'.logLen = n - 1
      /\ \A q \in 0 .. n - 2 : vec'.slot[q] = IF q < p THEN vec.slot[q] ELSE vec.slot[q + 1]
  BY <1>1, DeleteFact
<1>3. /\ freed' = [freed EXCEPT ![vec.slot[p].id] = @ + 1]
      /\ freed' \in [1 .. MaxElements -> Nat]
  BY FreeingFact DEF Delete
<1>4. MemShape'
  BY <1>1, <1>2, <1>3 DEF MemInv, MemShape
<1>5. Position(vec') = 0 .. n - 2
  <2>1. (n - 1) - 1 = n - 2
    BY <1>1
  <2> QED BY <1>2, <2>1 DEF Position
<1>6. Moves(vec', f, {p}, {})
  <2> HIDE DEF n
  <2>1. f \in [(0 .. n - 2) \ {} -> (0 .. n - 1) \ {p}]
    BY <1>1
  <2>2. \A q, r \in (0 .. n - 2) \ {} : f[q] = f[r] => q = r
    BY <1>1
  <2>3. ASSUME NEW r \in (0 .. n - 1) \ {p} PROVE \E q \in (0 .. n - 2) \ {} : f[q] = r
    <3>1. CASE r < p
      <4>1. r \in (0 .. n - 2) \ {} /\ f[r] = r
        BY <1>1, <3>1
      <4> QED BY <4>1
    <3>2. CASE ~(r < p)
      <4>1. r - 1 \in (0 .. n - 2) \ {} /\ f[r - 1] = r
        BY <1>1, <3>2
      <4> QED BY <4>1
    <3> QED BY <3>1, <3>2
  <2>4. \A q \in (0 .. n - 2) \ {} : vec'.slot[q] = vec.slot[f[q]]
    BY <1>1, <1>2
  <2> HIDE DEF f
  <2> QED BY <1>1, <1>5, <2>1, <2>2, <2>3, <2>4 DEF Moves
<1>7. OnePlaceEach' /\ FreedWhenLeft'
  <2> DEFINE gone == {p}
             fresh == {}
  <2>1. \A g \in gone : freed' = [freed EXCEPT ![vec.slot[g].id] = @ + 1]
    BY <1>3
  <2>2. fresh = {} /\ gone # {} /\ Moves(vec', f, gone, fresh)
    BY <1>6
  <2> HIDE DEF gone, fresh, f
  <2> QED BY <1>1, <1>4, <2>1, <2>2, MovesKeep
<1>8. /\ Ordered' = SubSeq(Ordered, 1, (p + 1) - 1) \o SubSeq(Ordered, (p + 1) + 1, Len(Ordered))
      /\ Ordered[p + 1] = vec.slot[p]
  <2> DEFINE s == Contents(vec)
             t == Contents(vec')
  <2>1. s \in Seq(Elem) /\ Len(s) = n /\ \A i \in 1 .. n : s[i] = vec.slot[i - 1]
    BY VecFact
  <2>2. t \in Seq(Elem) /\ Len(t) = n - 1 /\ \A i \in 1 .. n - 1 : t[i] = vec'.slot[i - 1]
    BY <1>2, ContentsFact
  <2>3. Ordered = s /\ Ordered' = t
    BY <1>1 DEF Ordered
  <2> HIDE DEF s, t, n
  <2>4. p + 1 \in 1 .. Len(s) /\ (p + 1) - 1 = p
    BY <1>1, <2>1
  <2>5. ASSUME NEW i \in 1 .. n - 1 PROVE t[i] = IF i < p + 1 THEN s[i] ELSE s[i + 1]
    <3>1. /\ i - 1 \in 0 .. n - 2 /\ (i - 1 < p <=> i < p + 1)
          /\ i \in 1 .. n /\ i + 1 \in 1 .. n /\ i - 1 + 1 = (i + 1) - 1
      BY <1>1, <2>5
    <3>2. t[i] = IF i - 1 < p THEN vec.slot[i - 1] ELSE vec.slot[i - 1 + 1]
      BY <1>2, <2>2, <3>1
    <3> QED BY <2>1, <3>1, <3>2
  <2>6. t = SubSeq(s, 1, (p + 1) - 1) \o SubSeq(s, (p + 1) + 1, Len(s))
    BY <2>1, <2>2, <2>4, <2>5, DeleteSeq
  <2>7. s[p + 1] = vec.slot[p]
    BY <2>1, <2>4
  <2> QED BY <2>3, <2>6, <2>7
<1>9. Sequence!Delete(p + 1)
  BY <1>1, <1>3, <1>8 DEF Sequence!Delete, Ordered
<1> QED BY <1>4, <1>7, <1>9 DEF MemInv

LEMMA SortStep ==
  ASSUME MemInv, Sort
  PROVE  MemInv' /\ Sequence!Sort
<1> DEFINE n == vec.logLen
           lessEq == {de \in Elem \X Elem : de[1].key <= de[2].key}
<1>1. /\ n \in Nat /\ Position(vec) = 0 .. n - 1
      /\ live /\ live' = live /\ made' = made /\ freed' = freed
      /\ WellFormed(vec, Elem) /\ vec' \in VectorSorts(vec, lessEq)
  BY VecFact DEF Sort
<1>2. /\ WellFormed(vec', Elem) /\ vec'.logLen = n
      /\ \E g \in Permutation(Position(vec)) :
           \A q \in Position(vec) : vec'.slot[q] = vec.slot[g[q]]
      /\ \A p, q \in Position(vec) : p < q => <<vec'.slot[p], vec'.slot[q]>> \in lessEq
  <2> HIDE DEF lessEq
  <2> QED BY <1>1, SortFact
<1>3. PICK f \in Permutation(0 .. n - 1) : \A q \in 0 .. n - 1 : vec'.slot[q] = vec.slot[f[q]]
  BY <1>1, <1>2
<1>4. /\ f \in [0 .. n - 1 -> 0 .. n - 1]
      /\ \A p, q \in 0 .. n - 1 : f[p] = f[q] => p = q
      /\ \A p \in 0 .. n - 1 : \E q \in 0 .. n - 1 : f[q] = p
  BY <1>3 DEF Permutation
<1>5. \A p, q \in 0 .. n - 1 : p < q => vec'.slot[p].key <= vec'.slot[q].key
  BY <1>1, <1>2
<1>6. Position(vec') = 0 .. n - 1
  BY <1>2 DEF Position
<1>7. MemShape'
  BY <1>1, <1>2 DEF MemInv, MemShape
<1>8. OnePlaceEach' /\ FreedWhenLeft'
  <2> DEFINE gone == {}
             fresh == {}
  <2>1. gone = {} /\ fresh = {} /\ \A g \in gone : freed' = [freed EXCEPT ![vec.slot[g].id] = @ + 1]
    OBVIOUS
  <2>2. Moves(vec', f, gone, fresh)
    <3>1. (0 .. n - 1) \ gone = 0 .. n - 1 /\ (0 .. n - 1) \ fresh = 0 .. n - 1
      OBVIOUS
    <3> HIDE DEF n, gone, fresh
    <3> QED BY <1>1, <1>3, <1>4, <1>6, <2>1, <3>1 DEF Moves
  <2> HIDE DEF gone, fresh
  <2> QED BY <1>1, <1>7, <2>1, <2>2, MovesKeep
<1>9. Sequence!Sort
  <2> DEFINE s == Contents(vec)
             t == Contents(vec')
  <2>1. s \in Seq(Elem) /\ Len(s) = n /\ \A i \in 1 .. n : s[i] = vec.slot[i - 1]
    BY VecFact
  <2>2. t \in Seq(Elem) /\ Len(t) = n /\ \A i \in 1 .. n : t[i] = vec'.slot[i - 1]
    BY <1>2, ContentsFact
  <2>3. Ordered = s /\ Ordered' = t
    BY <1>1 DEF Ordered
  <2> HIDE DEF s, t, n
  <2>4. DOMAIN s = 1 .. n /\ DOMAIN t = 1 .. n
    BY <2>1, <2>2
  <2>5. ASSUME NEW i \in 1 .. n PROVE \E j \in 1 .. n : t[i] = s[j]
    <3> DEFINE p == f[i - 1]
    <3>1. i - 1 \in 0 .. n - 1
      BY <1>1, <2>5
    <3>2. p \in 0 .. n - 1 /\ t[i] = vec.slot[p]
      BY <1>3, <1>4, <2>2, <2>5, <3>1
    <3> HIDE DEF p
    <3>3. p + 1 \in 1 .. n /\ (p + 1) - 1 = p
      BY <1>1, <3>2
    <3>4. s[p + 1] = vec.slot[p]
      BY <2>1, <3>3
    <3> QED BY <3>2, <3>3, <3>4
  <2>6. ASSUME NEW j \in 1 .. n PROVE \E i \in 1 .. n : t[i] = s[j]
    <3>1. j - 1 \in 0 .. n - 1
      BY <1>1, <2>6
    <3>2. PICK q \in 0 .. n - 1 : f[q] = j - 1
      BY <1>4, <3>1
    <3>3. q + 1 \in 1 .. n /\ (q + 1) - 1 = q
      BY <1>1
    <3>4. t[q + 1] = vec.slot[j - 1]
      BY <1>3, <2>2, <3>2, <3>3
    <3> QED BY <2>1, <3>3, <3>4
  <2>7. {t[i] : i \in DOMAIN t} = {s[i] : i \in DOMAIN s}
    <3> DEFINE I == 1 .. n
    <3>1. (\A i \in I : \E j \in I : t[i] = s[j]) /\ (\A j \in I : \E i \in I : t[i] = s[j])
      BY <2>5, <2>6
    <3>2. DOMAIN t = I /\ DOMAIN s = I
      BY <2>4
    <3> HIDE DEF I
    <3>3. {t[i] : i \in I} \subseteq {s[i] : i \in I}
      BY <3>1
    <3>4. {s[i] : i \in I} \subseteq {t[i] : i \in I}
      BY <3>1
    <3> QED BY <3>2, <3>3, <3>4
  <2>8. ASSUME NEW i \in 1 .. n, NEW j \in 1 .. n, i < j PROVE t[i].key <= t[j].key
    <3>1. i - 1 \in 0 .. n - 1 /\ j - 1 \in 0 .. n - 1 /\ i - 1 < j - 1
      BY <1>1, <2>8
    <3> QED BY <1>5, <2>2, <3>1
  <2>9. /\ Len(Ordered') = Len(Ordered)
        /\ {Ordered'[i] : i \in DOMAIN Ordered'} = {Ordered[i] : i \in DOMAIN Ordered}
        /\ \A i, j \in DOMAIN Ordered' : i < j => Ordered'[i].key <= Ordered'[j].key
    BY <2>1, <2>2, <2>3, <2>4, <2>7, <2>8
  <2> QED BY <1>1, <2>9 DEF Sequence!Sort, Ordered
<1> QED BY <1>7, <1>8, <1>9 DEF MemInv

LEMMA DisposeStep ==
  ASSUME MemInv, Dispose
  PROVE  MemInv' /\ Sequence!Dispose
<1> DEFINE s == Contents(vec)
<1>1. /\ live /\ ~live' /\ vec' = vec /\ made' = made
      /\ DOMAIN freed = 1 .. MaxElements
      /\ freed' = [id \in 1 .. MaxElements |->
                     IF \E p \in Position(vec) : vec.slot[p].id = id
                     THEN freed[id] + 1 ELSE freed[id]]
      /\ \A id \in 1 .. MaxElements : freed[id] \in Nat
  BY DEF Dispose, MemInv, MemShape
<1>2. MemShape'
  <2>1. freed' \in [1 .. MaxElements -> Nat]
    BY <1>1
  <2>2. WellFormed(vec', Elem) /\ made' \in 0 .. MaxElements
    BY <1>1 DEF MemInv, MemShape
  <2>3. live' \in BOOLEAN
    BY DEF Dispose
  <2> QED BY <2>1, <2>2, <2>3 DEF MemShape
<1>3. OnePlaceEach'
  BY <1>1 DEF OnePlaceEach
<1>4. ASSUME NEW id \in 1 .. MaxElements
      PROVE  freed'[id] = IF id \in 1 .. made' /\ ~Held(id)' THEN 1 ELSE 0
  <2>1. freed[id] = IF id \in 1 .. made /\ ~Held(id) THEN 1 ELSE 0
    BY <1>4 DEF MemInv, FreedWhenLeft
  <2>2. Held(id) => id \in 1 .. made
    BY DEF Held, MemInv, OnePlaceEach
  <2>3. freed'[id] = IF Held(id) THEN freed[id] + 1 ELSE freed[id]
    BY <1>1, <1>4 DEF Held
  <2>4. ~Held(id)'
    BY <1>1 DEF Held
  <2> QED BY <1>1, <2>1, <2>2, <2>3, <2>4
<1>5. ASSUME NEW id
      PROVE  (\E i \in DOMAIN s : s[i].id = id) <=> (\E p \in Position(vec) : vec.slot[p].id = id)
  <2> DEFINE n == vec.logLen
  <2>1. /\ n \in Nat /\ Position(vec) = 0 .. n - 1 /\ DOMAIN s = 1 .. n
        /\ \A i \in 1 .. n : s[i] = vec.slot[i - 1]
    BY VecFact
  <2> HIDE DEF n, s
  <2>2. \A i \in 1 .. n : i - 1 \in 0 .. n - 1
    BY <2>1
  <2>3. \A p \in 0 .. n - 1 : p + 1 \in 1 .. n /\ (p + 1) - 1 = p
    BY <2>1
  <2>4. \A p \in 0 .. n - 1 : p + 1 \in 1 .. n /\ s[p + 1] = vec.slot[p]
    BY <2>1, <2>3
  <2>5. ASSUME NEW i \in 1 .. n, s[i].id = id
        PROVE  \E p \in 0 .. n - 1 : vec.slot[p].id = id
    <3>1. i - 1 \in 0 .. n - 1 /\ vec.slot[i - 1].id = id
      BY <2>1, <2>2, <2>5
    <3> QED BY <3>1
  <2>6. ASSUME NEW p \in 0 .. n - 1, vec.slot[p].id = id
        PROVE  \E i \in 1 .. n : s[i].id = id
    <3>1. p + 1 \in 1 .. n /\ s[p + 1].id = id
      BY <2>4, <2>6
    <3> QED BY <3>1
  <2> QED BY <2>1, <2>5, <2>6
<1>6. Ordered = s /\ Ordered' = << >>
  BY <1>1 DEF Ordered
<1> HIDE DEF s
<1>7. /\ freed' = [id \in DOMAIN freed |->
                    IF \E i \in DOMAIN Ordered : Ordered[i].id = id THEN freed[id] + 1 ELSE freed[id]]
      /\ Ordered' = << >> /\ made' = made
  BY <1>1, <1>5, <1>6
<1>8. Sequence!Dispose
  BY <1>7 DEF Sequence!Dispose, Ordered
<1> QED BY <1>2, <1>3, <1>4, <1>8 DEF MemInv, FreedWhenLeft

LEMMA InitMem == Init => MemInv /\ Sequence!Init
<1> SUFFICES ASSUME Init PROVE MemInv /\ Sequence!Init
  OBVIOUS
<1>1. WellFormed(vec, Elem) /\ vec.logLen = 0
  BY NewFact, VectorAssumption DEF Init
<1>2. MemShape
  BY <1>1, VectorAssumption DEF Init, MemShape
<1>3. Position(vec) = {}
  BY <1>1 DEF Position
<1>4. OnePlaceEach /\ FreedWhenLeft
  <2>1. made = 0 /\ \A id \in 1 .. MaxElements : freed[id] = 0 /\ id \notin 1 .. 0
    BY DEF Init
  <2> QED BY <1>3, <2>1 DEF OnePlaceEach, FreedWhenLeft
<1>5. (IF live THEN Contents(vec) ELSE << >>) = << >>
  <2>1. Contents(vec) \in Seq(Elem) /\ Len(Contents(vec)) = 0
    BY <1>1, ContentsFact
  <2>2. Contents(vec) = << >>
    BY <2>1, EmptySeq
  <2> QED BY <2>2
<1>6. Sequence!Init
  BY <1>5 DEF Sequence!Init, Init
<1> QED BY <1>2, <1>4, <1>6 DEF MemInv

(***************************************************************************)
(* Every step keeps the invariant and is a step of the sequence.           *)
(***************************************************************************)
LEMMA StepMem == MemInv /\ [Next]_vars => MemInv' /\ [Sequence!Next]_(Sequence!vars)
<1> SUFFICES ASSUME MemInv, [Next]_vars PROVE MemInv' /\ [Sequence!Next]_(Sequence!vars)
  OBVIOUS
<1> DEFINE n == vec.logLen
<1>1. /\ n \in Nat /\ Position(vec) = 0 .. n - 1
      /\ live => Len(Ordered) = n /\ Ordered = Contents(vec)
  BY VecFact DEF Ordered
<1>2. ASSUME NEW k \in Key, NEW p \in 0 .. n, live, Sequence!Insert(k, p + 1)
      PROVE  Sequence!Next
  <2>1. p + 1 \in 1 .. Len(Ordered) + 1
    BY <1>1, <1>2
  <2> QED BY <1>2, <2>1 DEF Sequence!Next, Ordered
<1>3. ASSUME NEW p \in 0 .. n - 1, live PROVE p + 1 \in 1 .. Len(Ordered)
  BY <1>1, <1>3
<1>4. CASE \E k \in Key : AppendNew(k)
  <2>1. PICK k \in Key : AppendNew(k)
    BY <1>4
  <2>2. live /\ n \in 0 .. n
    BY <1>1, <2>1 DEF AppendNew, CanMake
  <2> QED BY <1>2, <2>1, <2>2, AppendStep
<1>5. CASE \E k \in Key, p \in 0 .. n : Insert(k, p)
  <2>1. PICK k \in Key, p \in 0 .. n : Insert(k, p)
    BY <1>5
  <2>2. live
    BY <2>1 DEF Insert, CanMake
  <2> QED BY <1>2, <2>1, <2>2, InsertStep
<1>6. CASE \E k \in Key, p \in Position(vec) : Replace(k, p)
  <2>1. PICK k \in Key, p \in Position(vec) : Replace(k, p)
    BY <1>6
  <2>2. MemInv' /\ Sequence!Replace(k, p + 1) /\ p + 1 \in 1 .. Len(Ordered)
    BY <1>1, <1>3, <2>1, ReplaceStep DEF Replace, CanMake
  <2> QED BY <2>2 DEF Sequence!Next, Ordered
<1>7. CASE \E p \in Position(vec) : Delete(p)
  <2>1. PICK p \in Position(vec) : Delete(p)
    BY <1>7
  <2>2. MemInv' /\ Sequence!Delete(p + 1) /\ p + 1 \in 1 .. Len(Ordered)
    BY <1>1, <1>3, <2>1, DeleteStep DEF Delete
  <2> QED BY <2>2 DEF Sequence!Next, Ordered
<1>8. CASE Sort
  BY <1>8, SortStep DEF Sequence!Next
<1>9. CASE Dispose
  BY <1>9, DisposeStep DEF Sequence!Next
<1>10. CASE UNCHANGED vars
  <2> USE <1>10 DEF vars
  <2>1. MemInv'
    BY DEF MemInv, MemShape, OnePlaceEach, FreedWhenLeft, Held
  <2>2. UNCHANGED Sequence!vars
    BY DEF Sequence!vars
  <2> QED BY <2>1, <2>2
<1> QED BY <1>4, <1>5, <1>6, <1>7, <1>8, <1>9, <1>10 DEF Next, Terminating
-----------------------------------------------------------------------------
(***************************************************************************)
(* The invariant of the vector and its client is inductive.                *)
(***************************************************************************)
THEOREM MemInvariance == Spec => []MemInv
<1>1. Init => MemInv
  BY InitMem
<1>2. MemInv /\ [Next]_vars => MemInv'
  BY StepMem
<1> QED BY <1>1, <1>2, PTL DEF Spec

(***************************************************************************)
(* The block always has room for the elements in use, and these were made. *)
(***************************************************************************)
THEOREM VectorTypeCorrect == Spec => []TypeOK
<1>1. MemInv => TypeOK
  BY DEF MemInv, MemShape, WellFormed, TypeOK
<1> QED BY <1>1, MemInvariance, PTL

(***************************************************************************)
(* Through any inserting, replacing, deleting and sorting every element is *)
(* freed once, when it leaves the vector.                                  *)
(***************************************************************************)
THEOREM FreesOnce == Spec => []FreedOnce
<1>1. MemInv => FreedOnce
  <2> SUFFICES ASSUME MemInv, NEW id \in 1 .. made
               PROVE  IF Holds(id) = {} THEN freed[id] = 1
                      ELSE freed[id] = 0 /\ \A p, q \in Holds(id) : p = q
    BY DEF FreedOnce
  <2>1. id \in 1 .. MaxElements
    BY VectorAssumption DEF MemInv, MemShape
  <2>2. freed[id] = IF ~Held(id) THEN 1 ELSE 0
    BY <2>1 DEF MemInv, FreedWhenLeft
  <2>3. Holds(id) = {} <=> ~Held(id)
    BY DEF Holds, Held
  <2>4. \A p, q \in Holds(id) : p = q
    BY DEF Holds, MemInv, OnePlaceEach
  <2> QED BY <2>2, <2>3, <2>4
<1> QED BY <1>1, MemInvariance, PTL

(***************************************************************************)
(* The block, grown by realloc and shifted by memmove, implements the      *)
(* sequence that vector.h promises.                                        *)
(***************************************************************************)
THEOREM VectorImplementsSequence == Spec => Refinement
<1>1. Init => Sequence!Init
  BY InitMem
<1>2. MemInv /\ [Next]_vars => [Sequence!Next]_(Sequence!vars)
  BY StepMem
<1> QED BY <1>1, <1>2, MemInvariance, PTL DEF Spec, Refinement, Sequence!Spec
=============================================================================
