--------------------------- MODULE HashSetProofs ---------------------------
(***************************************************************************)
(* Theorems about HashSet for any keys, comparison, hash function that     *)
(* respects it and number of buckets: what is held and what was freed, what *)
(* a look-up finds, and that the buckets implement a keyed set.            *)
(***************************************************************************)
EXTENDS HashSet, OperatorProofs, FunctionTheorems

(***************************************************************************)
(* The inductive invariant: a bucket holds, each at one position, the      *)
(* elements of its hash code after which no equal one was entered, and all *)
(* others have been freed.                                                 *)
(***************************************************************************)
Entered(i) == [key |-> entered[i], id |-> i]

Last(i) == \A j \in DOMAIN entered : j > i => <<entered[i], entered[j]>> \notin Same

Lasts == {i \in DOMAIN entered : Last(i)}

SetShape ==
  /\ buckets = [b \in Bucket |-> buckets[b]]
  /\ \A b \in Bucket : WellFormed(buckets[b], Elem)
  /\ entered \in Seq(Key) /\ Len(entered) <= MaxElements
  /\ disposed \in BOOLEAN

BucketsHold ==
  \A b \in Bucket :
    /\ Members(b) = {Entered(i) : i \in {j \in Lasts : Hash[entered[j]] = b}}
    /\ \A p, q \in Position(buckets[b]) : buckets[b].slot[p] = buckets[b].slot[q] => p = q

OthersFreed ==
  freed = {Entered(i) : i \in {j \in DOMAIN entered : disposed \/ j \notin Lasts}}

Counts == ~disposed => logLen = Cardinality(Lasts)

SetInv == SetShape /\ BucketsHold /\ OthersFreed /\ Counts
-----------------------------------------------------------------------------
(***************************************************************************)
(* What was entered, and that the last of some equal keys is a last one.   *)
(***************************************************************************)
LEMMA EnteredFact ==
  ASSUME SetShape
  PROVE  /\ Len(entered) \in Nat /\ DOMAIN entered = 1 .. Len(entered)
         /\ \A i \in DOMAIN entered :
              entered[i] \in Key /\ Entered(i) \in Elem /\ Hash[entered[i]] \in Bucket
         /\ Lasts \subseteq DOMAIN entered
<1>1. /\ entered \in Seq(Key) /\ Len(entered) <= MaxElements /\ MaxElements \in Nat
      /\ Hash \in [Key -> Bucket]
  BY HashSetAssumption DEF SetShape
<1>2. Len(entered) \in Nat /\ DOMAIN entered = 1 .. Len(entered)
  BY <1>1
<1>3. ASSUME NEW i \in DOMAIN entered
      PROVE  entered[i] \in Key /\ Entered(i) \in Elem /\ Hash[entered[i]] \in Bucket
  <2>1. entered[i] \in Key /\ i \in 1 .. MaxElements
    BY <1>1, <1>2, <1>3
  <2> QED BY <1>1, <2>1 DEF Entered, Elem
<1> QED BY <1>2, <1>3 DEF Lasts

LEMMA SameFact ==
  ASSUME NEW a, NEW b, <<a, b>> \in Same
  PROVE  /\ a \in Key /\ b \in Key /\ Hash[a] = Hash[b] /\ <<b, a>> \in Same
         /\ \A c : <<b, c>> \in Same => <<a, c>> \in Same
         /\ \A c : <<a, c>> \in Same => <<b, c>> \in Same
<1>1. a \in Key /\ b \in Key
  BY HashSetAssumption
<1>2. \A s \in Same : Hash[s[1]] = Hash[s[2]] /\ <<s[2], s[1]>> \in Same
  BY HashSetAssumption DEF HashStable, SameEquivalence
<1>3. Hash[a] = Hash[b] /\ <<b, a>> \in Same
  BY <1>2
<1>4. \A s, t \in Same : s[2] = t[1] => <<s[1], t[2]>> \in Same
  BY HashSetAssumption DEF SameEquivalence
<1>5. ASSUME NEW c, <<b, c>> \in Same PROVE <<a, c>> \in Same
  BY <1>4, <1>5
<1>6. ASSUME NEW c, <<a, c>> \in Same PROVE <<b, c>> \in Same
  BY <1>3, <1>4, <1>6
<1> QED BY <1>1, <1>3, <1>5, <1>6

LEMMA LastEqual ==
  ASSUME SetShape, NEW i \in DOMAIN entered
  PROVE  \E j \in Lasts : j >= i /\ <<entered[i], entered[j]>> \in Same
<1> DEFINE n == Len(entered)
           Eq(j) == <<entered[i], entered[j]>> \in Same
           T == {d \in 0 .. n : \E j \in 1 .. n : d = n - j /\ Eq(j)}
<1>1. n \in Nat /\ DOMAIN entered = 1 .. n /\ \A j \in 1 .. n : entered[j] \in Key
  BY EnteredFact
<1>2. Eq(i)
  BY <1>1, HashSetAssumption DEF SameEquivalence
<1> HIDE DEF n, Eq
<1>3. n - i \in T
  BY <1>1, <1>2
<1>4. T \subseteq Nat /\ T # {}
  BY <1>1, <1>3
<1>5. PICK d \in T : \A c \in T : d <= c
  <2> HIDE DEF T
  <2> QED BY <1>4, LeastNat
<1>6. PICK j \in 1 .. n : d = n - j /\ Eq(j)
  BY <1>5
<1>7. \A c \in 1 .. n : Eq(c) => c <= j
  <2> SUFFICES ASSUME NEW c \in 1 .. n, Eq(c) PROVE c <= j
    OBVIOUS
  <2>1. n - c \in T
    BY <1>1
  <2> HIDE DEF T
  <2>2. d <= n - c
    BY <1>5, <2>1
  <2> QED BY <1>1, <1>6, <2>2
<1>8. j >= i
  BY <1>1, <1>2, <1>7
<1>9. Last(j)
  <2> SUFFICES ASSUME NEW c \in 1 .. n, c > j PROVE <<entered[j], entered[c]>> \notin Same
    BY <1>1 DEF Last
  <2>1. ~Eq(c)
    BY <1>1, <1>7
  <2>2. \A x : <<entered[j], x>> \in Same => <<entered[i], x>> \in Same
    BY <1>6, SameFact DEF Eq
  <2> QED BY <2>1, <2>2 DEF Eq
<1> QED BY <1>1, <1>6, <1>8, <1>9 DEF Lasts, Eq

LEMMA LastUnique ==
  ASSUME SetShape, NEW i \in Lasts, NEW j \in Lasts, <<entered[i], entered[j]>> \in Same
  PROVE  i = j
<1>1. <<entered[j], entered[i]>> \in Same
  BY SameFact
<1>2. i \in DOMAIN entered /\ j \in DOMAIN entered /\ Last(i) /\ Last(j)
  BY DEF Lasts
<1>3. ~(j > i) /\ ~(i > j)
  BY <1>1, <1>2 DEF Last
<1>4. i \in Int /\ j \in Int
  BY <1>2, EnteredFact
<1> QED BY <1>3, <1>4
-----------------------------------------------------------------------------
(***************************************************************************)
(* What HashSetEnter and HashSetLookup find in the bucket of a key: the    *)
(* last element equal to it, if there is one.                              *)
(***************************************************************************)
LEMMA SearchLast ==
  ASSUME SetShape, BucketsHold, NEW k \in Key
  PROVE  \/ /\ Search(k) = -1
            /\ \A i \in DOMAIN entered : <<k, entered[i]>> \notin Same
         \/ /\ Search(k) \in Position(buckets[Hash[k]])
            /\ \E i \in Lasts : /\ <<k, entered[i]>> \in Same
                                /\ buckets[Hash[k]].slot[Search(k)] = Entered(i)
<1> DEFINE b == Hash[k]
           v == buckets[b]
<1>1. b \in Bucket
  BY HashSetAssumption
<1>2. WellFormed(v, Elem)
  BY <1>1 DEF SetShape
<1>3. \A p \in Position(v) : \E i \in Lasts : v.slot[p] = Entered(i)
  <2>1. \A p \in Position(v) : v.slot[p] \in Members(b)
    BY DEF Members
  <2>2. Members(b) = {Entered(i) : i \in {j \in Lasts : Hash[entered[j]] = b}}
    BY <1>1 DEF BucketsHold
  <2> QED BY <2>1, <2>2
<1>4. ASSUME NEW i \in Lasts, Hash[entered[i]] = b
      PROVE  \E p \in Position(v) : v.slot[p] = Entered(i)
  <2>1. Entered(i) \in Members(b)
    BY <1>1, <1>4 DEF BucketsHold
  <2> QED BY <2>1 DEF Members
<1>5. /\ Search(k) = VectorSearch(v, EqualTo(k), 0)
      /\ \A i \in DOMAIN entered : Entered(i) \in EqualTo(k) <=> <<k, entered[i]>> \in Same
  BY EnteredFact DEF Search, EqualTo, Entered
<1> HIDE DEF v
<1>6. CASE /\ VectorSearch(v, EqualTo(k), 0) = -1
           /\ \A p \in Position(v) : v.slot[p] \notin EqualTo(k)
  <2>1. ASSUME NEW i \in DOMAIN entered, <<k, entered[i]>> \in Same PROVE FALSE
    <3>1. PICK j \in Lasts : j >= i /\ <<entered[i], entered[j]>> \in Same
      BY LastEqual
    <3>2. <<k, entered[j]>> \in Same
      BY <2>1, <3>1, SameFact
    <3>3. Hash[entered[j]] = b
      BY <3>2, SameFact
    <3>4. PICK p \in Position(v) : v.slot[p] = Entered(j)
      BY <1>4, <3>3
    <3>5. j \in DOMAIN entered
      BY DEF Lasts
    <3> QED BY <1>5, <1>6, <3>2, <3>4, <3>5
  <2> QED BY <1>5, <1>6, <2>1
<1>7. CASE /\ VectorSearch(v, EqualTo(k), 0) \in Position(v)
           /\ v.slot[VectorSearch(v, EqualTo(k), 0)] \in EqualTo(k)
  <2>1. PICK i \in Lasts : v.slot[Search(k)] = Entered(i)
    BY <1>3, <1>5, <1>7
  <2>2. i \in DOMAIN entered
    BY DEF Lasts
  <2> QED BY <1>5, <1>7, <2>1, <2>2 DEF v
<1> QED BY <1>2, <1>6, <1>7, SearchFact
-----------------------------------------------------------------------------
(***************************************************************************)
(* Entering k: the last elements are those that were and are not equal to  *)
(* k, and the new one.                                                     *)
(***************************************************************************)
Gone(k) == {i \in Lasts : <<k, entered[i]>> \in Same}

New(k) == [key |-> k, id |-> Len(entered) + 1]

LEMMA EnterLasts ==
  ASSUME SetShape, NEW k \in Key, Enter(k), NEW m, m = Len(entered) + 1
  PROVE  /\ Len(entered') = m /\ entered' \in Seq(Key)
         /\ Len(entered') <= MaxElements /\ New(k) \in Elem
         /\ DOMAIN entered' = DOMAIN entered \cup {m}
         /\ m \notin DOMAIN entered
         /\ \A i \in DOMAIN entered : entered'[i] = entered[i] /\ Entered(i)' = Entered(i)
         /\ entered'[m] = k /\ Entered(m)' = New(k)
         /\ Lasts' = (Lasts \ Gone(k)) \cup {m}
<1> DEFINE n == Len(entered)
<1>1. /\ entered' = Append(entered, k) /\ entered \in Seq(Key) /\ n < MaxElements
      /\ MaxElements \in Nat
  BY HashSetAssumption DEF Enter, SetShape
<1>2. n \in Nat /\ m = n + 1 /\ DOMAIN entered = 1 .. n /\ \A i \in 1 .. n : entered[i] \in Key
  BY EnteredFact
<1>3. /\ Len(entered') = m /\ entered' \in Seq(Key) /\ DOMAIN entered' = 1 .. m
      /\ entered'[m] = k /\ \A i \in 1 .. n : entered'[i] = entered[i]
  BY <1>1, <1>2
<1> HIDE DEF n
<1>4. DOMAIN entered' = DOMAIN entered \cup {m} /\ m \notin DOMAIN entered
  BY <1>2, <1>3
<1>5. New(k) \in Elem /\ m <= MaxElements
  <2>1. m \in 1 .. MaxElements
    BY <1>1, <1>2
  <2> QED BY <1>1, <1>2, <2>1 DEF New, Elem, n
<1>6. ASSUME NEW i \in 1 .. n PROVE Last(i)' <=> Last(i) /\ <<k, entered[i]>> \notin Same
  <2>1. <<k, entered[i]>> \in Same <=> <<entered[i], k>> \in Same
    BY SameFact
  <2>2. Last(i)' <=> \A j \in 1 .. m : j > i => <<entered'[i], entered'[j]>> \notin Same
    BY <1>3 DEF Last
  <2>3. Last(i) <=> \A j \in 1 .. n : j > i => <<entered[i], entered[j]>> \notin Same
    BY <1>2 DEF Last
  <2>4. m > i /\ m \in 1 .. m /\ \A j \in 1 .. m : j \in 1 .. n \/ j = m
    BY <1>2
  <2>5. \A j \in 1 .. n : j \in 1 .. m
    BY <1>2
  <2> QED BY <1>3, <2>1, <2>2, <2>3, <2>4, <2>5
<1>7. Last(m)'
  <2>1. \A j \in 1 .. m : ~(j > m)
    BY <1>2
  <2> QED BY <1>3, <2>1 DEF Last
<1>8. Lasts' = (Lasts \ Gone(k)) \cup {m}
  <2>1. \A i : i \in Lasts' <=> i \in 1 .. m /\ Last(i)'
    BY <1>3 DEF Lasts
  <2>2. \A i : i \in Lasts <=> i \in 1 .. n /\ Last(i)
    BY <1>2 DEF Lasts
  <2>3. \A i : i \in Gone(k) <=> i \in Lasts /\ <<k, entered[i]>> \in Same
    BY DEF Gone
  <2>4. \A i : i \in 1 .. m <=> i \in 1 .. n \/ i = m
    BY <1>2
  <2>5. ASSUME NEW i PROVE i \in Lasts' <=> i \in Lasts \ Gone(k) \/ i = m
    BY <1>6, <1>7, <2>1, <2>2, <2>3, <2>4
  <2>6. Lasts' \subseteq (Lasts \ Gone(k)) \cup {m}
    BY <2>5
  <2>7. (Lasts \ Gone(k)) \cup {m} \subseteq Lasts'
    BY <2>5
  <2> QED BY <2>6, <2>7
<1> QED BY <1>2, <1>3, <1>4, <1>5, <1>8 DEF Entered, New, n

LEMMA GoneOne ==
  ASSUME SetShape, NEW k \in Key, NEW i \in Gone(k)
  PROVE  Gone(k) = {i}
<1>1. ASSUME NEW j \in Gone(k) PROVE j = i
  <2>1. <<k, entered[i]>> \in Same /\ <<k, entered[j]>> \in Same /\ i \in Lasts /\ j \in Lasts
    BY DEF Gone
  <2>2. <<entered[i], entered[j]>> \in Same
    BY <2>1, SameFact
  <2> QED BY <2>1, <2>2, LastUnique
<1> QED BY <1>1
-----------------------------------------------------------------------------
(***************************************************************************)
(* The buckets when k is entered: the element equal to it, if any, gives   *)
(* its slot to the new one and is freed.                                   *)
(***************************************************************************)
LEMMA EnterBuckets ==
  ASSUME SetShape, BucketsHold, NEW k \in Key, Enter(k)
  PROVE  /\ buckets' = [b \in Bucket |-> buckets'[b]]
         /\ \A b \in Bucket : WellFormed(buckets'[b], Elem)
         /\ \A b \in Bucket :
              Members(b)' = IF b = Hash[k]
                            THEN (Members(b) \ {Entered(i) : i \in Gone(k)}) \cup {New(k)}
                            ELSE Members(b)
         /\ \A b \in Bucket : \A p, q \in Position(buckets'[b]) :
              buckets'[b].slot[p] = buckets'[b].slot[q] => p = q
         /\ freed' = freed \cup {Entered(i) : i \in Gone(k)}
         /\ logLen' = IF Gone(k) = {} THEN logLen + 1 ELSE logLen
<1> DEFINE h == Hash[k]
           v == buckets[h]
           w == buckets'[h]
           e == New(k)
           n == v.logLen
           p == Search(k)
           lost == {Entered(i) : i \in Gone(k)}
<1>1. h \in Bucket
  BY HashSetAssumption
<1>2. WellFormed(v, Elem) /\ buckets = [b \in Bucket |-> buckets[b]]
  BY <1>1 DEF SetShape
<1>3. n \in Nat /\ Position(v) = 0 .. n - 1 /\ Position(w) = 0 .. w.logLen - 1
  BY <1>2, ElementFact DEF Position
<1>4. e \in Elem
  BY EnterLasts
<1>5. \A q \in Position(v) : v.slot[q] # e
  <2>1. \A q \in Position(v) : v.slot[q] \in Members(h)
    BY DEF Members
  <2>2. \A x \in Members(h) : \E i \in Lasts : x = Entered(i)
    BY <1>1 DEF BucketsHold
  <2>3. \A i \in Lasts : i \in DOMAIN entered /\ Entered(i).id = i
    BY DEF Lasts, Entered
  <2>4. e.id \notin DOMAIN entered
    BY EnterLasts DEF New
  <2> QED BY <2>1, <2>2, <2>3, <2>4
<1>6. \A q, r \in Position(v) : v.slot[q] = v.slot[r] => q = r
  BY <1>1 DEF BucketsHold
<1>7. Members(h) = {v.slot[q] : q \in Position(v)} /\ Members(h)' = {w.slot[q] : q \in Position(w)}
  BY DEF Members
<1>8. ASSUME NEW x, buckets' = [buckets EXCEPT ![h] = x]
      PROVE  /\ w = x /\ buckets' = [b \in Bucket |-> buckets'[b]]
             /\ \A b \in Bucket \ {h} : buckets'[b] = buckets[b] /\ Members(b)' = Members(b)
  <2>1. w = x /\ buckets' = [b \in Bucket |-> buckets'[b]]
    BY <1>1, <1>2, <1>8
  <2>2. \A b \in Bucket \ {h} : buckets'[b] = buckets[b]
    BY <1>1, <1>2, <1>8
  <2> QED BY <2>1, <2>2 DEF Members
<1>9. ASSUME NEW x, buckets' = [buckets EXCEPT ![h] = x], WellFormed(w, Elem),
             Members(h)' = (Members(h) \ lost) \cup {e},
             \A q, r \in Position(w) : w.slot[q] = w.slot[r] => q = r
      PROVE  /\ buckets' = [b \in Bucket |-> buckets'[b]]
             /\ \A b \in Bucket : WellFormed(buckets'[b], Elem)
             /\ \A b \in Bucket :
                  Members(b)' = IF b = h THEN (Members(b) \ lost) \cup {e} ELSE Members(b)
             /\ \A b \in Bucket : \A q, r \in Position(buckets'[b]) :
                  buckets'[b].slot[q] = buckets'[b].slot[r] => q = r
  <2>1. /\ buckets' = [b \in Bucket |-> buckets'[b]]
        /\ \A b \in Bucket \ {h} : buckets'[b] = buckets[b] /\ Members(b)' = Members(b)
    BY <1>8, <1>9
  <2>2. \A b \in Bucket \ {h} :
          /\ WellFormed(buckets[b], Elem)
          /\ \A q, r \in Position(buckets[b]) : buckets[b].slot[q] = buckets[b].slot[r] => q = r
    BY DEF SetShape, BucketsHold
  <2> HIDE DEF h, e, lost
  <2>3. \A b \in Bucket : b = h \/ b \in Bucket \ {h}
    OBVIOUS
  <2>4. \A b \in Bucket : WellFormed(buckets'[b], Elem)
    BY <1>9, <2>1, <2>2, <2>3
  <2>5. \A b \in Bucket :
          Members(b)' = IF b = h THEN (Members(b) \ lost) \cup {e} ELSE Members(b)
    BY <1>9, <2>1, <2>3
  <2>6. \A b \in Bucket : \A q, r \in Position(buckets'[b]) :
          buckets'[b].slot[q] = buckets'[b].slot[r] => q = r
    BY <1>9, <2>1, <2>2, <2>3
  <2> QED BY <2>1, <2>4, <2>5, <2>6
<1>10. CASE p = -1
  <2>1. Gone(k) = {}
    <3>1. -1 \notin Position(v)
      BY <1>3
    <3>2. \A i \in DOMAIN entered : <<k, entered[i]>> \notin Same
      BY <1>10, <3>1, SearchLast
    <3> QED BY <3>2 DEF Gone, Lasts
  <2>2. /\ buckets' = [buckets EXCEPT ![h] = VectorAppend(@, e)]
        /\ logLen' = logLen + 1 /\ freed' = freed
    BY <1>10 DEF Enter, New
  <2>3. buckets' = [buckets EXCEPT ![h] = VectorAppend(v, e)]
    BY <1>1, <1>2, <2>2
  <2>4. w = VectorAppend(v, e)
    BY <1>8, <2>3
  <2>5. /\ WellFormed(w, Elem) /\ w.logLen = n + 1
        /\ \A q \in 0 .. n : w.slot[q] = IF q = n THEN e ELSE v.slot[q]
    <3> HIDE DEF w, v, e
    <3> QED BY <1>2, <1>4, <2>4, AppendFact
  <2>6. Position(w) = 0 .. n
    BY <1>3, <2>5
  <2>7. \A q \in 0 .. n : q \in Position(v) \/ q = n
    BY <1>3
  <2>8. n \in 0 .. n /\ \A q \in Position(v) : q \in 0 .. n /\ q # n
    BY <1>3
  <2> HIDE DEF w, v, e, n, h
  <2>9. \A q, r \in Position(w) : w.slot[q] = w.slot[r] => q = r
    BY <1>5, <1>6, <2>5, <2>6, <2>7
  <2>10. Members(h)' = Members(h) \cup {e}
    <3> DEFINE P == Position(v)
               Q == Position(w)
    <3>1. \A q \in Q : (q \in P /\ w.slot[q] = v.slot[q]) \/ w.slot[q] = e
      BY <2>5, <2>6, <2>7
    <3>2. n \in Q /\ w.slot[n] = e /\ \A q \in P : q \in Q /\ w.slot[q] = v.slot[q]
      BY <2>5, <2>6, <2>8
    <3> HIDE DEF P, Q
    <3>3. {w.slot[q] : q \in Q} \subseteq {v.slot[q] : q \in P} \cup {e}
      BY <3>1
    <3>4. {v.slot[q] : q \in P} \cup {e} \subseteq {w.slot[q] : q \in Q}
      BY <3>2
    <3> QED BY <1>7, <3>3, <3>4 DEF P, Q
  <2>11. lost = {} /\ Members(h)' = (Members(h) \ lost) \cup {e} /\ freed' = freed \cup lost
    BY <2>1, <2>2, <2>10
  <2> HIDE DEF lost
  <2> QED BY <1>9, <2>1, <2>2, <2>3, <2>5, <2>9, <2>11 DEF h, e, lost, w
<1>11. CASE p # -1
  <2>1. PICK i \in Lasts : <<k, entered[i]>> \in Same /\ v.slot[p] = Entered(i)
    BY <1>11, SearchLast
  <2>2. p \in Position(v)
    BY <1>11, SearchLast
  <2>3. Gone(k) = {i}
    BY <2>1, GoneOne DEF Gone
  <2>4. /\ buckets' = [buckets EXCEPT ![h] = VectorReplace(@, e, p)]
        /\ logLen' = logLen /\ freed' = freed \cup {v.slot[p]}
    BY <1>11 DEF Enter, New
  <2>5. buckets' = [buckets EXCEPT ![h] = VectorReplace(v, e, p)]
    BY <1>1, <1>2, <2>4
  <2>6. w = VectorReplace(v, e, p)
    BY <1>8, <2>5
  <2>7. lost = {v.slot[p]}
    BY <2>1, <2>3
  <2> HIDE DEF w, v, e, p, lost
  <2>8. /\ WellFormed(w, Elem) /\ w.logLen = n
        /\ \A q \in 0 .. n - 1 : w.slot[q] = IF q = p THEN e ELSE v.slot[q]
    BY <1>2, <1>4, <2>2, <2>6, ReplaceFact
  <2>9. Position(w) = Position(v) /\ \A q \in Position(v) : w.slot[q] = IF q = p THEN e ELSE v.slot[q]
    BY <1>3, <2>8
  <2> HIDE DEF n, h
  <2>10. \A q, r \in Position(w) : w.slot[q] = w.slot[r] => q = r
    BY <1>5, <1>6, <2>9
  <2>11. Members(h)' = (Members(h) \ lost) \cup {e}
    <3> DEFINE P == Position(v)
    <3>1. \A q \in P : w.slot[q] = e \/ (w.slot[q] = v.slot[q] /\ v.slot[q] # v.slot[p])
      BY <1>6, <2>2, <2>9
    <3>2. w.slot[p] = e /\ p \in P /\ \A q \in P : v.slot[q] = v.slot[p] \/ w.slot[q] = v.slot[q]
      BY <2>2, <2>9
    <3> HIDE DEF P
    <3>3. {w.slot[q] : q \in P} \subseteq ({v.slot[q] : q \in P} \ {v.slot[p]}) \cup {e}
      BY <3>1
    <3>4. ({v.slot[q] : q \in P} \ {v.slot[p]}) \cup {e} \subseteq {w.slot[q] : q \in P}
      BY <3>2
    <3> QED BY <1>7, <2>7, <2>9, <3>3, <3>4 DEF P
  <2>12. freed' = freed \cup lost /\ Gone(k) # {}
    BY <2>3, <2>4, <2>7
  <2> QED BY <1>9, <2>4, <2>5, <2>8, <2>10, <2>11, <2>12 DEF h, e, lost, w
<1> QED BY <1>10, <1>11
-----------------------------------------------------------------------------
(***************************************************************************)
(* What the set holds, and how the operations keep it.                     *)
(***************************************************************************)
LEMMA MembersFact ==
  ASSUME SetShape, BucketsHold
  PROVE  members = IF disposed THEN {} ELSE {Entered(i) : i \in Lasts}
<1> DEFINE all == UNION {Members(b) : b \in Bucket}
           L == Lasts
<1>1. \A i \in L : Hash[entered[i]] \in Bucket
  BY EnteredFact DEF Lasts
<1>2. \A b \in Bucket : Members(b) = {Entered(i) : i \in {j \in L : Hash[entered[j]] = b}}
  BY DEF BucketsHold
<1> HIDE DEF L
<1>3. all \subseteq {Entered(i) : i \in L}
  <2> SUFFICES ASSUME NEW x \in all PROVE x \in {Entered(i) : i \in L}
    OBVIOUS
  <2>1. PICK b \in Bucket : x \in Members(b)
    OBVIOUS
  <2> QED BY <1>2, <2>1
<1>4. {Entered(i) : i \in L} \subseteq all
  <2> SUFFICES ASSUME NEW i \in L PROVE Entered(i) \in all
    OBVIOUS
  <2>1. Entered(i) \in Members(Hash[entered[i]])
    BY <1>1, <1>2
  <2> QED BY <1>1, <2>1
<1> QED BY <1>3, <1>4 DEF members, L

LEMMA MembersNext ==
  (SetShape /\ BucketsHold => members = IF disposed THEN {} ELSE {Entered(i) : i \in Lasts})'
<1>1. SetShape /\ BucketsHold => members = IF disposed THEN {} ELSE {Entered(i) : i \in Lasts}
  BY MembersFact
<1> QED BY <1>1, PTL

LEMMA EnterHolds ==
  ASSUME SetShape, BucketsHold, NEW k \in Key, Enter(k)
  PROVE  SetShape' /\ BucketsHold'
<1> DEFINE h == Hash[k]
<1>1. PICK m : m = Len(entered) + 1
  OBVIOUS
<1>2. /\ Len(entered') = m /\ entered' \in Seq(Key)
      /\ Len(entered') <= MaxElements
      /\ m \notin DOMAIN entered
      /\ \A i \in DOMAIN entered : entered'[i] = entered[i] /\ Entered(i)' = Entered(i)
      /\ entered'[m] = k /\ Entered(m)' = New(k)
      /\ Lasts' = (Lasts \ Gone(k)) \cup {m}
  BY <1>1, EnterLasts
<1>3. /\ buckets' = [b \in Bucket |-> buckets'[b]]
      /\ \A b \in Bucket : WellFormed(buckets'[b], Elem)
      /\ \A b \in Bucket :
           Members(b)' = IF b = h
                         THEN (Members(b) \ {Entered(i) : i \in Gone(k)}) \cup {New(k)}
                         ELSE Members(b)
      /\ \A b \in Bucket : \A p, q \in Position(buckets'[b]) :
           buckets'[b].slot[p] = buckets'[b].slot[q] => p = q
  BY EnterBuckets
<1>4. SetShape'
  BY <1>2, <1>3 DEF SetShape, Enter
<1>5. /\ \A i \in Gone(k) : i \in Lasts /\ Hash[entered[i]] = h
      /\ \A i \in Lasts : i \in DOMAIN entered /\ Entered(i).id = i
  BY SameFact DEF Gone, Lasts, Entered
<1>6. ASSUME NEW b \in Bucket
      PROVE  Members(b)' = {Entered(i)' : i \in {j \in Lasts' : Hash[entered'[j]] = b}}
  <2> DEFINE I == {j \in Lasts : Hash[entered[j]] = b}
             J == {j \in Lasts' : Hash[entered'[j]] = b}
             G == Gone(k)
             e == New(k)
             old == {Entered(i) : i \in I}
             lost == {Entered(i) : i \in G}
             new == {Entered(i)' : i \in J}
  <2>1. Members(b) = old
    BY DEF BucketsHold
  <2>2. \A i \in I : i \in DOMAIN entered /\ Entered(i)' = Entered(i) /\ Entered(i).id = i
    BY <1>2, <1>5
  <2>3. \A i \in G : i \in DOMAIN entered /\ Entered(i).id = i
    BY <1>5
  <2>4. CASE b = h
    <3>1. \A i : i \in J <=> (i \in I /\ i \notin G) \/ i = m
      BY <1>2, <1>5, <2>4
    <3> HIDE DEF I, J, G, e
    <3>2. new \subseteq (old \ lost) \cup {e}
      <4> SUFFICES ASSUME NEW i \in J PROVE Entered(i)' \in (old \ lost) \cup {e}
        OBVIOUS
      <4>1. CASE i = m
        BY <1>2, <4>1 DEF e
      <4>2. CASE i \in I /\ i \notin G
        BY <2>2, <2>3, <4>2
      <4> QED BY <3>1, <4>1, <4>2
    <3>3. (old \ lost) \cup {e} \subseteq new
      <4>1. e \in new
        <5>1. Entered(m)' = e /\ m \in J
          BY <1>2, <3>1 DEF e
        <5> QED BY <5>1
      <4>2. ASSUME NEW i \in I, Entered(i) \notin lost PROVE Entered(i) \in new
        <5>1. i \notin G
          BY <4>2
        <5>2. i \in J
          BY <3>1, <4>2, <5>1
        <5> QED BY <2>2, <5>2
      <4> QED BY <4>1, <4>2
    <3> HIDE DEF new, old, lost
    <3>4. Members(b)' = (old \ lost) \cup {e}
      BY <1>3, <2>1, <2>4 DEF lost, e, G
    <3>5. Members(b)' = new
      BY <3>2, <3>3, <3>4
    <3> QED BY <3>5 DEF new, J
  <2>5. CASE b # h
    <3>1. \A i : i \in J <=> i \in I
      BY <1>2, <1>5, <2>5
    <3> HIDE DEF I, J
    <3>2. new \subseteq old
      BY <2>2, <3>1
    <3>3. old \subseteq new
      BY <2>2, <3>1
    <3>4. Members(b)' = new
      BY <1>3, <2>1, <2>5, <3>2, <3>3
    <3> QED BY <3>4 DEF J
  <2> QED BY <2>4, <2>5
<1>7. BucketsHold'
  BY <1>3, <1>6 DEF BucketsHold
<1> QED BY <1>4, <1>7

LEMMA EnterFrees ==
  ASSUME SetInv, NEW k \in Key, Enter(k)
  PROVE  OthersFreed' /\ Counts'
<1>1. PICK m : m = Len(entered) + 1
  OBVIOUS
<1>2. /\ Len(entered') = m
      /\ DOMAIN entered' = DOMAIN entered \cup {m}
      /\ m \notin DOMAIN entered
      /\ \A i \in DOMAIN entered : Entered(i)' = Entered(i)
      /\ Lasts' = (Lasts \ Gone(k)) \cup {m}
  BY <1>1, EnterLasts DEF SetInv
<1>3. /\ freed' = freed \cup {Entered(i) : i \in Gone(k)}
      /\ logLen' = IF Gone(k) = {} THEN logLen + 1 ELSE logLen
  BY EnterBuckets DEF SetInv
<1>4. Gone(k) \subseteq Lasts /\ Lasts \subseteq DOMAIN entered
  BY DEF Gone, Lasts
<1>5. ~disposed /\ ~disposed'
  BY DEF Enter, SetInv, SetShape
<1> DEFINE D == DOMAIN entered
           G == Gone(k)
           L == Lasts
           I == {j \in DOMAIN entered : disposed \/ j \notin Lasts}
           J == {j \in DOMAIN entered' : disposed' \/ j \notin Lasts'}
<1>6. OthersFreed'
  <2>1. freed = {Entered(i) : i \in I}
    BY DEF SetInv, OthersFreed
  <2>2. \A j : j \in J <=> j \in I \/ j \in G
    BY <1>2, <1>4, <1>5
  <2>3. \A j \in J : Entered(j)' = Entered(j)
    BY <1>2, <1>4, <2>2
  <2> HIDE DEF I, J, G
  <2>4. {Entered(j)' : j \in J} \subseteq {Entered(i) : i \in I} \cup {Entered(i) : i \in G}
    BY <2>2, <2>3
  <2>5. {Entered(i) : i \in I} \cup {Entered(i) : i \in G} \subseteq {Entered(j)' : j \in J}
    BY <2>2, <2>3
  <2>6. freed' = {Entered(j)' : j \in J}
    BY <1>3, <2>1, <2>4, <2>5 DEF G
  <2> QED BY <2>6 DEF OthersFreed, J
<1>7. Counts'
  <2>1. D = 1 .. Len(entered) /\ Len(entered) \in Nat
    BY EnteredFact DEF SetInv
  <2>2. IsFiniteSet(L)
    <3>1. IsFiniteSet(D)
      BY <2>1, FS_Interval
    <3> HIDE DEF D
    <3> QED BY <1>4, <3>1, FS_Subset DEF D
  <2>3. logLen = Cardinality(L) /\ Cardinality(L) \in Nat
    BY <1>5, <2>2, FS_CardinalityType DEF SetInv, Counts
  <2>4. CASE G = {}
    <3>1. Lasts' = L \cup {m} /\ m \notin L
      BY <1>2, <1>4, <2>4
    <3> HIDE DEF L
    <3>2. Cardinality(Lasts') = logLen + 1
      BY <2>2, <2>3, <3>1, FS_AddElement
    <3> QED BY <1>3, <2>4, <3>2 DEF Counts
  <2>5. CASE G # {}
    <3>1. PICK i \in G : TRUE
      BY <2>5
    <3>2. G = {i} /\ i \in L
      BY <1>4, GoneOne DEF SetInv
    <3> DEFINE R == L \ {i}
    <3>3. Lasts' = R \cup {m} /\ m \notin R
      BY <1>2, <1>4, <3>2
    <3> HIDE DEF L
    <3>4. IsFiniteSet(R) /\ Cardinality(R) = logLen - 1
      BY <2>2, <2>3, <3>2, FS_RemoveElement
    <3> HIDE DEF R
    <3>5. Cardinality(Lasts') = (logLen - 1) + 1
      BY <3>3, <3>4, FS_AddElement
    <3> QED BY <1>3, <2>3, <2>5, <3>5 DEF Counts
  <2> QED BY <2>4, <2>5
<1> QED BY <1>6, <1>7

LEMMA DisposeKeeps ==
  ASSUME SetInv, Dispose
  PROVE  SetInv'
<1> DEFINE D == DOMAIN entered
           L == Lasts
           I == {j \in D : disposed \/ j \notin L}
           J == {j \in D : disposed' \/ j \notin L}
<1>1. /\ ~disposed /\ disposed' /\ buckets' = buckets /\ entered' = entered
      /\ freed' = freed \cup members
  BY DEF Dispose
<1>2. SetShape' /\ BucketsHold'
  <2>1. SetShape'
    BY <1>1 DEF Dispose, SetInv, SetShape
  <2>2. Lasts' = Lasts
    BY <1>1 DEF Lasts, Last
  <2>3. BucketsHold'
    BY <1>1, <2>2 DEF SetInv, BucketsHold, Members, Entered
  <2> QED BY <2>1, <2>3
<1>3. members = {Entered(i) : i \in L} /\ freed = {Entered(i) : i \in I}
  BY <1>1, MembersFact DEF SetInv, OthersFreed
<1>4. \A j : j \in J <=> j \in I \/ j \in L
  BY <1>1 DEF Lasts
<1>5. freed' = {Entered(i) : i \in J}
  <2> HIDE DEF I, J, L
  <2>1. {Entered(j) : j \in J} \subseteq {Entered(i) : i \in I} \cup {Entered(i) : i \in L}
    BY <1>4
  <2>2. {Entered(i) : i \in I} \cup {Entered(i) : i \in L} \subseteq {Entered(j) : j \in J}
    BY <1>4
  <2> QED BY <1>1, <1>3, <2>1, <2>2
<1>6. OthersFreed' /\ Counts'
  BY <1>1, <1>5 DEF OthersFreed, Counts, Lasts, Last, Entered
<1> QED BY <1>2, <1>6 DEF SetInv

LEMMA InitHolds == Init => SetInv /\ KeyedSet!Init
<1> SUFFICES ASSUME Init PROVE SetInv /\ KeyedSet!Init
  OBVIOUS
<1>1. /\ \A b \in Bucket : WellFormed(buckets[b], Elem) /\ buckets[b].logLen = 0
      /\ buckets = [b \in Bucket |-> buckets[b]]
  <2>1. WellFormed(VectorNew(0), Elem) /\ VectorNew(0).logLen = 0
    BY NewFact
  <2>2. buckets = [b \in Bucket |-> VectorNew(0)]
    BY DEF Init, HashSetNew
  <2> QED BY <2>1, <2>2
<1>2. SetShape
  <2>1. entered = << >> /\ disposed = FALSE /\ MaxElements \in Nat
    BY HashSetAssumption DEF Init
  <2>2. entered \in Seq(Key) /\ Len(entered) <= MaxElements
    BY <2>1
  <2> QED BY <1>1, <2>1, <2>2 DEF SetShape
<1>3. Lasts = {} /\ DOMAIN entered = {}
  BY DEF Init, Lasts
<1>4. BucketsHold
  <2>1. \A b \in Bucket : Position(buckets[b]) = {}
    BY <1>1 DEF Position
  <2>2. \A b \in Bucket : Members(b) = {}
    BY <2>1 DEF Members
  <2> QED BY <1>3, <2>1, <2>2 DEF BucketsHold
<1>5. OthersFreed /\ Counts
  BY <1>3, FS_EmptySet DEF Init, OthersFreed, Counts
<1>6. members = {}
  BY <1>2, <1>3, <1>4, MembersFact
<1> QED BY <1>2, <1>4, <1>5, <1>6 DEF SetInv, KeyedSet!Init, Init

(***************************************************************************)
(* Every step keeps the invariant and is a step of the keyed set.          *)
(***************************************************************************)
LEMMA EnterStep ==
  ASSUME SetInv, NEW k \in Key, Enter(k)
  PROVE  SetInv' /\ KeyedSet!Enter(k)
<1>1. SetShape /\ BucketsHold /\ SetInv'
  BY EnterHolds, EnterFrees DEF SetInv
<1>2. PICK m : m = Len(entered) + 1
  OBVIOUS
<1> DEFINE L == Lasts
           G == Gone(k)
           M == (L \ G) \cup {m}
           stay == {e \in members : <<k, e.key>> \notin Same}
<1>3. /\ \A i \in DOMAIN entered : Entered(i)' = Entered(i)
      /\ Entered(m)' = New(k) /\ Lasts' = M
  BY <1>1, <1>2, EnterLasts
<1>4. ~disposed /\ ~disposed'
  BY DEF Enter, SetInv, SetShape
<1>5. members = {Entered(i) : i \in L}
  BY <1>1, <1>4, MembersFact
<1>6. members' = {Entered(i)' : i \in Lasts'}
  <2>1. SetShape' /\ BucketsHold'
    BY <1>1 DEF SetInv
  <2> QED BY <1>4, <2>1, MembersNext
<1>7. members' = {Entered(i)' : i \in M}
  BY <1>3, <1>6
<1>8. /\ \A i \in L : i \in DOMAIN entered
      /\ \A i \in L : i \in G <=> <<k, Entered(i).key>> \in Same
  BY DEF Lasts, Gone, Entered
<1> HIDE DEF L, G
<1>9. members' \subseteq stay \cup {New(k)}
  <2>1. ASSUME NEW i \in L \ G PROVE Entered(i)' \in stay
    <3>1. Entered(i)' = Entered(i) /\ <<k, Entered(i).key>> \notin Same
      BY <1>3, <1>8
    <3> QED BY <1>5, <3>1
  <2> HIDE DEF stay
  <2> QED BY <1>3, <1>7, <2>1
<1>10. stay \cup {New(k)} \subseteq members'
  <2>1. ASSUME NEW e \in stay PROVE e \in members'
    <3>1. PICK i \in L : e = Entered(i) /\ <<k, Entered(i).key>> \notin Same
      BY <1>5
    <3>2. i \in M /\ Entered(i)' = e
      BY <1>3, <1>8, <3>1
    <3> QED BY <1>7, <3>2
  <2>2. New(k) \in members'
    BY <1>3, <1>7
  <2> QED BY <2>1, <2>2
<1>11. members' = stay \cup {New(k)}
  BY <1>9, <1>10
<1>12. KeyedSet!Enter(k)
  BY <1>11 DEF KeyedSet!Enter, Enter, New
<1> QED BY <1>1, <1>12

LEMMA SetStep == SetInv /\ [Next]_vars => SetInv' /\ [KeyedSet!Next]_(KeyedSet!vars)
<1> SUFFICES ASSUME SetInv, [Next]_vars PROVE SetInv' /\ [KeyedSet!Next]_(KeyedSet!vars)
  OBVIOUS
<1>1. CASE \E k \in Key : Enter(k)
  BY <1>1, EnterStep DEF KeyedSet!Next
<1>2. CASE Dispose
  <2>1. SetInv'
    BY <1>2, DisposeKeeps
  <2>2. members' = {}
    BY <1>2 DEF Dispose, members
  <2> QED BY <1>2, <2>1, <2>2 DEF Dispose, KeyedSet!Next, KeyedSet!Dispose
<1>3. CASE UNCHANGED vars
  <2> USE <1>3 DEF vars
  <2>1. Lasts' = Lasts
    BY DEF Lasts, Last
  <2>2. SetInv'
    BY <2>1 DEF SetInv, SetShape, BucketsHold, OthersFreed, Counts, Members, Entered
  <2>3. members' = members
    BY DEF members, Members
  <2> QED BY <2>2, <2>3 DEF KeyedSet!vars
<1> QED BY <1>1, <1>2, <1>3 DEF Next, Terminating
-----------------------------------------------------------------------------
(***************************************************************************)
(* The buckets hold the last elements entered, and all others are freed.   *)
(***************************************************************************)
THEOREM SetInvariance == Spec => []SetInv
<1>1. Init => SetInv
  BY InitHolds
<1>2. SetInv /\ [Next]_vars => SetInv'
  BY SetStep
<1> QED BY <1>1, <1>2, PTL DEF Spec

(***************************************************************************)
(* HashSetCount is the number of elements held; an element is freed when   *)
(* an equal one takes its place, or with the set, and never while held.    *)
(***************************************************************************)
THEOREM CountIsRight == Spec => []CountsMembers
<1>1. SetInv => CountsMembers
  <2> SUFFICES ASSUME SetInv PROVE CountsMembers
    OBVIOUS
  <2> DEFINE D == DOMAIN entered
             L == Lasts
             I == {j \in D : disposed \/ j \notin L}
             H == IF disposed THEN {} ELSE L
  <2>1. SetShape /\ BucketsHold /\ freed = {Entered(i) : i \in I}
    BY DEF SetInv, OthersFreed
  <2>2. members = {Entered(i) : i \in H} /\ (~disposed => members = {Entered(i) : i \in L})
    BY <2>1, MembersFact
  <2>3. \A i : i \in D <=> i \in H \/ i \in I
    BY DEF Lasts
  <2>4. \A i : ~(i \in H /\ i \in I)
    OBVIOUS
  <2>5. \A i : Entered(i).id = i /\ Entered(i).key = entered[i]
    BY DEF Entered
  <2>6. members \cap freed = {}
    <3> HIDE DEF H, I
    <3> QED BY <2>1, <2>2, <2>4, <2>5
  <2>7. {e.id : e \in members \cup freed} = D
    <3> HIDE DEF H, I, D
    <3>1. {e.id : e \in members \cup freed} \subseteq D
      BY <2>1, <2>2, <2>3, <2>5
    <3>2. ASSUME NEW i \in D PROVE i \in {e.id : e \in members \cup freed}
      <4>1. Entered(i) \in members \cup freed
        BY <2>1, <2>2, <2>3, <3>2
      <4> QED BY <2>5, <4>1
    <3> QED BY <3>1, <3>2
  <2>8. ~disposed => logLen = Cardinality(members)
    <3> SUFFICES ASSUME ~disposed PROVE logLen = Cardinality(members)
      OBVIOUS
    <3> DEFINE f == [i \in L |-> Entered(i)]
    <3>1. D = 1 .. Len(entered) /\ Len(entered) \in Nat /\ L \subseteq D
      BY <2>1, EnteredFact
    <3>2. IsFiniteSet(L)
      <4>1. IsFiniteSet(D)
        BY <3>1, FS_Interval
      <4> HIDE DEF D
      <4> QED BY <3>1, <4>1, FS_Subset
    <3>3. f \in Bijection(L, members)
      <4> HIDE DEF L
      <4>1. f \in [L -> members]
        BY <2>2
      <4>2. \A i, j \in L : f[i] = f[j] => i = j
        BY <2>5
      <4>3. \A e \in members : \E i \in L : f[i] = e
        BY <2>2
      <4> QED BY <4>1, <4>2, <4>3, Fun_IsBij
    <3>4. Cardinality(members) = Cardinality(L)
      BY <3>2, <3>3, FS_Bijection DEF ExistsBijection
    <3> QED BY <3>4 DEF SetInv, Counts
  <2>9. ~disposed => \A e \in freed : \E m \in members : m.id > e.id /\ <<m.key, e.key>> \in Same
    <3> SUFFICES ASSUME ~disposed, NEW e \in freed
                 PROVE  \E m \in members : m.id > e.id /\ <<m.key, e.key>> \in Same
      OBVIOUS
    <3>1. PICK i \in D : i \notin L /\ e = Entered(i)
      BY <2>1
    <3>2. PICK j \in L : j >= i /\ <<entered[i], entered[j]>> \in Same
      BY <2>1, <3>1, LastEqual
    <3>3. i \in Int /\ j \in Int
      BY <2>1, EnteredFact
    <3>4. j > i
      BY <3>1, <3>2, <3>3
    <3>5. <<entered[j], entered[i]>> \in Same
      BY <3>2, SameFact
    <3> QED BY <2>2, <2>5, <3>1, <3>4, <3>5
  <2> QED BY <2>6, <2>7, <2>8, <2>9 DEF CountsMembers
<1> QED BY <1>1, SetInvariance, PTL

(***************************************************************************)
(* HashSetLookup finds the last element entered that equals the key.       *)
(***************************************************************************)
THEOREM LookupsRight == Spec => []LookupFindsLast
<1>1. SetInv => LookupFindsLast
  <2> SUFFICES ASSUME SetInv, NEW k \in Key
               PROVE  LET equal == {i \in DOMAIN entered : <<k, entered[i]>> \in Same}
                      IN  {e.id : e \in Lookup(k)} = {i \in equal : \A j \in equal : j <= i}
    BY DEF LookupFindsLast
  <2> DEFINE equal == {i \in DOMAIN entered : <<k, entered[i]>> \in Same}
             v == buckets[Hash[k]]
             greatest == {i \in equal : \A j \in equal : j <= i}
  <2>1. SetShape /\ BucketsHold /\ DOMAIN entered = 1 .. Len(entered) /\ Len(entered) \in Nat
    BY EnteredFact DEF SetInv
  <2>2. CASE Search(k) = -1 /\ \A i \in DOMAIN entered : <<k, entered[i]>> \notin Same
    BY <2>2 DEF Lookup
  <2>3. CASE /\ Search(k) \in Position(v)
             /\ \E i \in Lasts : <<k, entered[i]>> \in Same /\ v.slot[Search(k)] = Entered(i)
    <3>1. PICK i \in Lasts : <<k, entered[i]>> \in Same /\ v.slot[Search(k)] = Entered(i)
      BY <2>3
    <3>2. Search(k) # -1
      BY <2>3 DEF Position
    <3>3. Lookup(k) = {Entered(i)}
      BY <3>1, <3>2 DEF Lookup
    <3>4. {e.id : e \in Lookup(k)} = {i}
      BY <3>3 DEF Entered
    <3>5. i \in equal /\ \A j \in equal : j <= i
      <4>1. i \in equal /\ Last(i)
        BY <3>1 DEF Lasts
      <4>2. \A j \in equal : <<entered[i], entered[j]>> \in Same
        BY <3>1, SameFact, ZenonT(30)
      <4>3. \A j \in equal : ~(j > i)
        BY <4>1, <4>2 DEF Last
      <4>4. i \in Int /\ \A j \in equal : j \in Int
        BY <2>1, <4>1
      <4>5. \A j \in equal : j <= i
        BY <4>3, <4>4
      <4> QED BY <4>1, <4>5
    <3>6. equal \subseteq Int
      BY <2>1
    <3> HIDE DEF equal
    <3>7. greatest = {i}
      <4>1. i \in greatest
        BY <3>5
      <4>2. ASSUME NEW j \in greatest PROVE j = i
        <5>1. j \in equal /\ i <= j /\ j <= i
          BY <3>5, <4>2
        <5> QED BY <3>5, <3>6, <5>1
      <4> QED BY <4>1, <4>2
    <3> QED BY <3>4, <3>7 DEF equal
  <2> QED BY <2>1, <2>2, <2>3, SearchLast
<1> QED BY <1>1, SetInvariance, PTL

(***************************************************************************)
(* The buckets implement the set of unequal elements hashset.h promises.   *)
(***************************************************************************)
THEOREM BucketsImplementSet == Spec => Refinement
<1>1. Init => KeyedSet!Init
  BY InitHolds
<1>2. SetInv /\ [Next]_vars => [KeyedSet!Next]_(KeyedSet!vars)
  BY SetStep
<1> QED BY <1>1, <1>2, SetInvariance, PTL DEF Spec, Refinement, KeyedSet!Spec
=============================================================================
