--------------------------- MODULE ThesaurusProofs ---------------------------
(***************************************************************************)
(* Theorems about Thesaurus for any files, hash function, sizes and input: *)
(* who frees a string, and that the replies are what the file says.  What  *)
(* is known of the hash set is taken from HashSetProofs.                   *)
(***************************************************************************)
EXTENDS Thesaurus, OperatorProofs

set == INSTANCE HashSetProofs WITH Same <- StringCompare

(***************************************************************************)
(* The n-th entry as the hash set sees it, and the entries it holds: those *)
(* whose word is not entered again later.                                  *)
(***************************************************************************)
Element(n) == [key |-> entered[n], id |-> n]

Latest == {n \in DOMAIN entered : \A m \in DOMAIN entered : m > n => entered[m] # entered[n]}

Gone == {n \in DOMAIN entered : disposed \/ n \notin Latest}

HeldInv == set!SetInv

LEMMA SetAssumption ==
  /\ NumBuckets \in Nat \ {0} /\ MaxElements \in Nat
  /\ Hash \in [Key -> set!Bucket]
  /\ StringCompare \subseteq Key \X Key /\ set!SameEquivalence
  /\ set!HashStable
BY ThesaurusAssumption DEF set!Bucket, set!SameEquivalence, set!HashStable, StringCompare

LEMMA HeldInit == thesaurus!Init => HeldInv
<1>1. thesaurus!Init => set!Init
  BY DEF thesaurus!Init, thesaurus!HashSetNew, thesaurus!Bucket, thesaurus!VectorNew,
         set!Init, set!HashSetNew, set!Bucket, set!VectorNew
<1> QED BY <1>1, SetAssumption, set!InitHolds DEF set!InitHolds, HeldInv

LEMMA HeldEnter ==
  ASSUME HeldInv, NEW k \in Key, thesaurus!Enter(k)
  PROVE  HeldInv'
<1>1. set!Enter(k)
  BY DEF thesaurus!Enter, thesaurus!Search, thesaurus!EqualTo, thesaurus!Elem,
         thesaurus!VectorSearch, thesaurus!VectorAppend, thesaurus!VectorReplace,
         thesaurus!Grown, set!Enter, set!Search, set!EqualTo, set!Elem, set!VectorSearch,
         set!VectorAppend, set!VectorReplace, set!Grown
<1> QED BY <1>1, SetAssumption, set!EnterStep DEF set!EnterStep, HeldInv

LEMMA HeldDispose ==
  ASSUME HeldInv, thesaurus!Dispose
  PROVE  HeldInv'
<1>1. set!Dispose
  BY DEF thesaurus!Dispose, thesaurus!members, thesaurus!Members, thesaurus!Bucket,
         thesaurus!Position, set!Dispose, set!members, set!Members, set!Bucket, set!Position
<1> QED BY <1>1, SetAssumption, set!DisposeKeeps DEF set!DisposeKeeps, HeldInv

LEMMA HeldKept ==
  ASSUME HeldInv, UNCHANGED setVars
  PROVE  HeldInv'
<1>1. UNCHANGED set!vars
  BY DEF setVars, set!vars
<1> QED BY <1>1, SetAssumption, set!SetStep DEF set!SetStep, HeldInv

LEMMA HeldFact ==
  ASSUME HeldInv
  PROVE  /\ entered \in Seq(Key) /\ disposed \in BOOLEAN
         /\ thesaurus!members = IF disposed THEN {} ELSE {Element(n) : n \in Latest}
         /\ freed = {Element(n) : n \in Gone}
<1>1. set!SetShape /\ set!BucketsHold /\ set!OthersFreed
  BY DEF HeldInv, set!SetInv
<1>2. entered \in Seq(Key) /\ disposed \in BOOLEAN
  BY <1>1 DEF set!SetShape
<1>3. set!Lasts = Latest
  <2>1. \A m, n \in DOMAIN entered :
          <<entered[m], entered[n]>> \in StringCompare <=> entered[m] = entered[n]
    BY <1>2 DEF StringCompare
  <2> QED BY <2>1 DEF set!Lasts, set!Last, Latest
<1>4. thesaurus!members = set!members
  BY DEF thesaurus!members, thesaurus!Members, thesaurus!Bucket, thesaurus!Position,
         set!members, set!Members, set!Bucket, set!Position
<1>5. set!members = IF disposed THEN {} ELSE {set!Entered(n) : n \in set!Lasts}
  BY <1>1, SetAssumption, set!MembersFact DEF set!MembersFact
<1>6. \A n : set!Entered(n) = Element(n)
  BY DEF set!Entered, Element
<1> QED BY <1>1, <1>2, <1>3, <1>4, <1>5, <1>6 DEF set!OthersFreed, Gone

LEMMA FreedFact == HeldInv => freed = {Element(n) : n \in Gone}
BY HeldFact

LEMMA FreedNext == (HeldInv => freed = {Element(n) : n \in Gone})'
BY FreedFact, PTL

LEMMA FoundFact ==
  ASSUME HeldInv, NEW k \in Key
  PROVE  \/ thesaurus!Lookup(k) = {} /\ \A n \in DOMAIN entered : entered[n] # k
         \/ \E n \in Latest : entered[n] = k /\ thesaurus!Lookup(k) = {Element(n)}
<1>1. set!SetShape /\ set!BucketsHold
  BY DEF HeldInv, set!SetInv
<1>2. entered \in Seq(Key) /\ set!Lasts = Latest
  <2>1. entered \in Seq(Key)
    BY HeldFact
  <2>2. \A m, n \in DOMAIN entered :
          <<entered[m], entered[n]>> \in StringCompare <=> entered[m] = entered[n]
    BY <2>1 DEF StringCompare
  <2> QED BY <2>1, <2>2 DEF set!Lasts, set!Last, Latest
<1>3. \A n \in DOMAIN entered : <<k, entered[n]>> \in StringCompare <=> entered[n] = k
  BY <1>2 DEF StringCompare
<1>4. \A n : set!Entered(n) = Element(n)
  BY DEF set!Entered, Element
<1> DEFINE v == buckets[Hash[k]]
<1>5. thesaurus!Lookup(k) = {v.slot[p] : p \in {set!Search(k)} \ {-1}}
  BY DEF thesaurus!Lookup, thesaurus!Search, thesaurus!EqualTo, thesaurus!Elem,
         thesaurus!VectorSearch, set!Search, set!EqualTo, set!Elem, set!VectorSearch
<1>6. \/ /\ set!Search(k) = -1
         /\ \A n \in DOMAIN entered : <<k, entered[n]>> \notin StringCompare
      \/ /\ set!Search(k) \in set!Position(v)
         /\ \E n \in set!Lasts : /\ <<k, entered[n]>> \in StringCompare
                                 /\ v.slot[set!Search(k)] = set!Entered(n)
  BY <1>1, SetAssumption, set!SearchLast DEF set!SearchLast
<1>7. CASE set!Search(k) = -1 /\ \A n \in DOMAIN entered : <<k, entered[n]>> \notin StringCompare
  BY <1>3, <1>5, <1>7
<1>8. CASE /\ set!Search(k) \in set!Position(v)
           /\ \E n \in set!Lasts : /\ <<k, entered[n]>> \in StringCompare
                                   /\ v.slot[set!Search(k)] = set!Entered(n)
  <2>1. PICK n \in Latest : <<k, entered[n]>> \in StringCompare /\ v.slot[set!Search(k)] = Element(n)
    BY <1>2, <1>4, <1>8
  <2>2. set!Search(k) # -1
    BY <1>8 DEF set!Position
  <2>3. thesaurus!Lookup(k) = {Element(n)}
    BY <1>5, <2>1, <2>2
  <2>4. entered[n] = k
    BY <1>3, <2>1 DEF Latest
  <2> QED BY <2>1, <2>3, <2>4
<1> QED BY <1>6, <1>7, <1>8
-----------------------------------------------------------------------------
(***************************************************************************)
(* The tokenizer: the end of a token is the next delimiter, the end of the *)
(* text or that of the buffer, whichever comes first.                      *)
(***************************************************************************)
LEMMA MinFact ==
  ASSUME NEW T \in SUBSET Nat, T # {}
  PROVE  Min(T) \in T /\ \A n \in T : Min(T) <= n
BY LeastNat DEF Min

IsTokenizer(s) ==
  /\ s = [text |-> s.text, pos |-> s.pos, buffer |-> s.buffer]
  /\ s.text \in Seq(Character) /\ s.pos \in 0 .. Len(s.text)
  /\ s.buffer \in Seq(Character)

Plain(text, i) == text[i] \notin Delimiters

LEMMA NextStopFact ==
  ASSUME NEW s, IsTokenizer(s)
  PROVE  /\ NextStop(s, Delimiters) \in s.pos .. Len(s.text)
         /\ \A i \in s.pos + 1 .. NextStop(s, Delimiters) : Plain(s.text, i)
         /\ \/ NextStop(s, Delimiters) = Len(s.text)
            \/ ~Plain(s.text, NextStop(s, Delimiters) + 1)
<1> DEFINE n == Len(s.text)
           T == {n} \cup {i \in s.pos .. n - 1 : s.text[i + 1] \in Delimiters}
           m == Min(T)
<1>1. n \in Nat /\ s.pos \in 0 .. n
  BY DEF IsTokenizer
<1> HIDE DEF n
<1>2. T \in SUBSET Nat /\ T # {} /\ \A i \in T : i \in s.pos .. n
  BY <1>1
<1>3. m \in T /\ \A i \in T : m <= i
  <2> HIDE DEF T
  <2> QED BY <1>2, MinFact
<1>4. m \in s.pos .. n /\ (m = n \/ s.text[m + 1] \in Delimiters)
  BY <1>2, <1>3
<1>5. ASSUME NEW i \in s.pos + 1 .. m PROVE s.text[i] \notin Delimiters
  <2>1. i - 1 \in s.pos .. n - 1 /\ i - 1 < m /\ (i - 1) + 1 = i
    BY <1>1, <1>4
  <2>2. i - 1 \notin T
    <3> HIDE DEF T
    <3>1. m \in Int /\ i - 1 \in Int /\ i - 1 < m
      BY <1>4, <2>1
    <3> HIDE DEF m
    <3> QED BY <1>3, <3>1
  <2> QED BY <2>1, <2>2
<1>6. NextStop(s, Delimiters) = m
  BY DEF NextStop, n
<1> QED BY <1>4, <1>5, <1>6 DEF Plain, n

LEMMA TokenFact ==
  ASSUME NEW s, IsTokenizer(s), NEW next, next = STNextToken(s, Delimiters, FALSE)
  PROVE  \/ s.pos = Len(s.text) /\ ~next.ok /\ next.st = s
         \/ /\ s.pos < Len(s.text) /\ next.ok /\ IsTokenizer(next.st)
            /\ next.st.text = s.text /\ next.st.pos \in s.pos + 1 .. Len(s.text)
            /\ next.st.buffer = SubSeq(s.text, s.pos + 1, next.st.pos)
            /\ \/ ~Plain(s.text, s.pos + 1) /\ next.st.pos = s.pos + 1
               \/ /\ \A i \in s.pos + 1 .. next.st.pos : Plain(s.text, i)
                  /\ next.st.pos - s.pos <= BufferLength - 1
                  /\ \/ next.st.pos = Len(s.text)
                     \/ ~Plain(s.text, next.st.pos + 1)
                     \/ next.st.pos - s.pos = BufferLength - 1
<1> DEFINE n == Len(s.text)
           end == EndOfToken(s, Delimiters)
           stop == NextStop(s, Delimiters)
<1>0. n \in Nat /\ s.pos \in 0 .. n /\ BufferLength \in Nat /\ BufferLength >= 2
  BY TokenizerAssumption DEF IsTokenizer
<1>1. CASE s.pos = n
  BY <1>1 DEF STNextToken, AtEnd
<1>2. CASE s.pos # n
  <2>1. /\ next = [ok |-> TRUE, st |-> [s EXCEPT !.pos = end,
                                                 !.buffer = SubSeq(s.text, s.pos + 1, end)]]
    BY <1>2 DEF STNextToken, AtEnd
  <2>2. /\ next.ok /\ next.st.text = s.text /\ next.st.pos = end
        /\ next.st.buffer = SubSeq(s.text, s.pos + 1, end)
        /\ next.st = [text |-> s.text, pos |-> end, buffer |-> SubSeq(s.text, s.pos + 1, end)]
    <3> HIDE DEF end
    <3>1. PICK text, pos, buffer : s = [text |-> text, pos |-> pos, buffer |-> buffer]
      BY DEF IsTokenizer
    <3>2. s.text = text
      BY <3>1
    <3>3. next.ok /\ next.st = [s EXCEPT !.pos = end, !.buffer = SubSeq(s.text, s.pos + 1, end)]
      <4>1. PICK x : x = [s EXCEPT !.pos = end, !.buffer = SubSeq(s.text, s.pos + 1, end)]
        OBVIOUS
      <4>2. next = [ok |-> TRUE, st |-> x]
        BY <2>1, <4>1
      <4>3. \A y : y = [ok |-> TRUE, st |-> x] => y.ok = TRUE /\ y.st = x
        OBVIOUS
      <4>4. next.ok = TRUE /\ next.st = x
        BY <4>2, <4>3
      <4> QED BY <4>1, <4>4
    <3>4. next.st = [text |-> text, pos |-> end, buffer |-> SubSeq(s.text, s.pos + 1, end)]
      BY <3>1, <3>3
    <3> QED BY <3>2, <3>3, <3>4
  <2>5. end \in s.pos + 1 .. n => SubSeq(s.text, s.pos + 1, end) \in Seq(Character)
    <3>1. s.text \in Seq(Character) /\ n = Len(s.text)
      BY DEF IsTokenizer
    <3> HIDE DEF end, n
    <3> QED BY <1>0, <3>1
  <2>3. CASE ~Plain(s.text, s.pos + 1)
    <3>1. end = s.pos + 1
      BY <2>3 DEF EndOfToken, Plain
    <3> HIDE DEF end
    <3>2. s.pos < n /\ end \in s.pos + 1 .. n /\ end \in 0 .. n
      BY <1>0, <1>2, <3>1
    <3>3. IsTokenizer(next.st)
      BY <2>2, <2>5, <3>2 DEF IsTokenizer
    <3> QED BY <2>2, <2>3, <3>1, <3>2, <3>3
  <2>4. CASE Plain(s.text, s.pos + 1)
    <3>1. end = Min({stop, s.pos + BufferLength - 1})
      BY <2>4 DEF EndOfToken, Plain
    <3>2. /\ stop \in s.pos .. n
          /\ \A i \in s.pos + 1 .. stop : Plain(s.text, i)
          /\ stop = n \/ ~Plain(s.text, stop + 1)
      BY NextStopFact
    <3> HIDE DEF stop
    <3>3. stop # s.pos
      BY <1>2, <2>4, <3>2
    <3>4. /\ end \in {stop, s.pos + BufferLength - 1}
          /\ end <= stop /\ end <= s.pos + BufferLength - 1
      <4> DEFINE T == {stop, s.pos + BufferLength - 1}
      <4>1. T \in SUBSET Nat /\ T # {} /\ stop \in T /\ s.pos + BufferLength - 1 \in T
        BY <1>0, <3>2
      <4> HIDE DEF T, end
      <4>2. Min(T) \in T /\ \A i \in T : Min(T) <= i
        BY <4>1, MinFact
      <4> QED BY <3>1, <4>1, <4>2 DEF T
    <3> HIDE DEF end
    <3>5. end \in s.pos + 1 .. n /\ \A i \in s.pos + 1 .. end : i \in s.pos + 1 .. stop
      BY <1>0, <3>2, <3>3, <3>4
    <3>6. IsTokenizer(next.st)
      <4>1. end \in 0 .. n
        BY <1>0, <3>5
      <4> QED BY <2>2, <2>5, <3>5, <4>1 DEF IsTokenizer
    <3>7. /\ \A i \in s.pos + 1 .. end : Plain(s.text, i)
          /\ end - s.pos <= BufferLength - 1
          /\ end = n \/ ~Plain(s.text, end + 1) \/ end - s.pos = BufferLength - 1
      BY <1>0, <3>2, <3>4, <3>5
    <3>8. s.pos < n
      BY <1>0, <1>2
    <3> QED BY <2>2, <3>5, <3>6, <3>7, <3>8
  <2> QED BY <2>3, <2>4
<1> QED BY <1>1, <1>2

(***************************************************************************)
(* Every token may be a word.                                              *)
(***************************************************************************)
LEMMA TokenKey ==
  ASSUME NEW s, IsTokenizer(s), s.pos < Len(s.text)
  PROVE  STNextToken(s, Delimiters, FALSE).st.buffer \in Key
<1> DEFINE end == STNextToken(s, Delimiters, FALSE).st.pos
           token == STNextToken(s, Delimiters, FALSE).st.buffer
<1> SUFFICES token \in Key
  OBVIOUS
<1>1. /\ end \in s.pos + 1 .. Len(s.text) /\ token = SubSeq(s.text, s.pos + 1, end)
      /\ \/ ~Plain(s.text, s.pos + 1) /\ end = s.pos + 1
         \/ /\ \A i \in s.pos + 1 .. end : Plain(s.text, i)
            /\ end - s.pos <= BufferLength - 1
  <2>1. s.pos # Len(s.text)
    BY DEF IsTokenizer
  <2>2. PICK next : next = STNextToken(s, Delimiters, FALSE)
    OBVIOUS
  <2> QED BY <2>1, <2>2, TokenFact
<1>2. s.text \in Seq(Character) /\ Len(s.text) \in Nat /\ s.pos \in Nat
  BY DEF IsTokenizer
<1>0. /\ \A c \in Delimiters : <<c>> \in Key
      /\ \A m \in 1 .. BufferLength - 1 : [1 .. m -> Character \ Delimiters] \subseteq Key
  BY ThesaurusAssumption
<1> HIDE DEF end, token
<1> DEFINE n == end - s.pos
<1>3. /\ n \in Nat \ {0} /\ token = [i \in 1 .. n |-> s.text[s.pos + i]]
      /\ \A i \in 1 .. n : s.pos + i \in s.pos + 1 .. end /\ s.text[s.pos + i] \in Character
  <2>1. end \in Nat /\ n \in Nat \ {0} /\ end <= Len(s.text)
    BY <1>1, <1>2
  <2>2. \A i \in 1 .. n : /\ s.pos + i \in s.pos + 1 .. end
                          /\ s.pos + i \in 1 .. Len(s.text)
    BY <1>2, <2>1
  <2>3. PICK text, m : text = s.text /\ m = s.pos + 1
    OBVIOUS
  <2>4. /\ token \in Seq(Character) /\ Len(token) = n
        /\ \A i \in 1 .. n : token[i] = text[m + i - 1]
    <3>1. text \in Seq(Character) /\ m \in 1 .. Len(text) /\ end \in m .. Len(text)
      BY <1>1, <1>2, <2>1, <2>3
    <3>2. token = SubSeq(text, m, end)
      BY <1>1, <2>3
    <3>3. n = end - m + 1
      BY <1>2, <2>1, <2>3
    <3> HIDE DEF n
    <3> QED BY <3>1, <3>2, <3>3
  <2>5. \A i \in 1 .. n : m + i - 1 = s.pos + i
    BY <1>2, <2>1, <2>3
  <2>6. token = [i \in 1 .. n |-> token[i]]
    <3> HIDE DEF n
    <3> QED BY <2>4
  <2>7. \A i \in 1 .. n : s.text[s.pos + i] \in Character
    <3> HIDE DEF n
    <3> QED BY <1>2, <2>2
  <2> HIDE DEF n
  <2> QED BY <2>1, <2>2, <2>3, <2>4, <2>5, <2>6, <2>7
<1>4. CASE ~Plain(s.text, s.pos + 1) /\ end = s.pos + 1
  <2>1. n = 1 /\ s.text[s.pos + 1] \in Delimiters
    BY <1>2, <1>4 DEF Plain
  <2> HIDE DEF n
  <2>2. token = << s.text[s.pos + 1] >>
    BY <1>3, <2>1
  <2> QED BY <1>0, <2>1, <2>2
<1>5. CASE (\A i \in s.pos + 1 .. end : Plain(s.text, i)) /\ end - s.pos <= BufferLength - 1
  <2>1. n \in 1 .. BufferLength - 1
    BY <1>3, <1>5, TokenizerAssumption
  <2>2. token \in [1 .. n -> Character \ Delimiters]
    <3> HIDE DEF n
    <3> QED BY <1>3, <1>5 DEF Plain
  <2> HIDE DEF n
  <2> QED BY <1>0, <2>1, <2>2
<1> QED BY <1>1, <1>4, <1>5
-----------------------------------------------------------------------------
(***************************************************************************)
(* Where FlattenSeq puts the elements of the sequences it joins: at[i] is  *)
(* the length of the first i sequences.                                    *)
(***************************************************************************)
LEMMA Monotone ==
  ASSUME NEW N \in Nat, NEW at \in [0 .. N -> Nat], \A i \in 1 .. N : at[i - 1] <= at[i]
  PROVE  \A i, j \in 0 .. N : i <= j => at[i] <= at[j]
<1> SUFFICES ASSUME NEW i \in 0 .. N PROVE \A j \in 0 .. N : i <= j => at[i] <= at[j]
  OBVIOUS
<1> DEFINE T == {j \in i .. N : at[j] < at[i]}
<1>1. T = {}
  <2> SUFFICES ASSUME T # {} PROVE FALSE
    OBVIOUS
  <2>1. PICK j \in T : \A m \in T : j <= m
    <3>1. T \in SUBSET Nat
      OBVIOUS
    <3> HIDE DEF T
    <3> QED BY <3>1, LeastNat
  <2>2. j # i /\ j \in 1 .. N /\ j - 1 \in i .. N /\ j - 1 \in 0 .. N /\ j - 1 < j
    BY <2>1
  <2>3. j - 1 \notin T
    <3> HIDE DEF T
    <3> QED BY <2>1, <2>2
  <2>4. at[j - 1] \in Nat /\ at[j] \in Nat /\ at[i] \in Nat /\ at[j - 1] <= at[j]
    BY <2>2
  <2> QED BY <2>1, <2>2, <2>3, <2>4
<1>2. \A j \in 0 .. N : i <= j => j \in i .. N /\ at[j] \in Nat
  OBVIOUS
<1>3. ASSUME NEW j \in i .. N, ~(at[i] <= at[j]) PROVE FALSE
  <2>1. at[j] \in Nat /\ at[i] \in Nat
    OBVIOUS
  <2>2. j \in T
    BY <1>3, <2>1
  <2> QED BY <1>1, <2>2
<1> QED BY <1>2, <1>3

Laid(ss, at, flat) ==
  /\ at \in [0 .. Len(ss) -> Nat] /\ at[0] = 0
  /\ \A i \in 1 .. Len(ss) : at[i] = at[i - 1] + Len(ss[i])
  /\ Len(flat) = at[Len(ss)]
  /\ \A i \in 1 .. Len(ss) : \A k \in 1 .. Len(ss[i]) : flat[at[i - 1] + k] = ss[i][k]

LEMMA FlattenFact ==
  ASSUME NEW S, NEW ss \in Seq(Seq(S))
  PROVE  FlattenSeq(ss) \in Seq(S) /\ \E at : Laid(ss, at, FlattenSeq(ss))
<1> DEFINE N == Len(ss)
           Flat(f, n) == /\ f \in [1 .. n -> Seq(S)] /\ f[1] = ss[1]
                         /\ \A i \in 2 .. n : f[i] = f[i - 1] \o ss[i]
<1>0. N \in Nat /\ \A i \in 1 .. N : ss[i] \in Seq(S) /\ Len(ss[i]) \in Nat
  OBVIOUS
<1>1. CASE N = 0
  <2>1. FlattenSeq(ss) = ss /\ ss = << >>
    BY <1>1 DEF FlattenSeq
  <2>2. Laid(ss, [i \in 0 .. 0 |-> 0], << >>)
    BY <1>1, <2>1 DEF Laid
  <2> QED BY <2>1, <2>2
<1>2. CASE N # 0
  <2>1. \E f : Flat(f, N)
    <3> HIDE DEF Flat
    <3> DEFINE T == {n \in 1 .. N : \A f : ~Flat(f, n)}
    <3> SUFFICES ASSUME T # {} PROVE FALSE
      <4>1. N \in 1 .. N
        BY <1>0, <1>2
      <4> HIDE DEF N
      <4> QED BY <4>1
    <3>1. PICK n \in T : \A m \in T : n <= m
      <4>1. T \in SUBSET Nat
        <5>1. 1 .. N \in SUBSET Nat
          OBVIOUS
        <5> HIDE DEF N
        <5> QED BY <5>1
      <4> HIDE DEF T
      <4> QED BY <4>1, LeastNat
    <3>2. CASE n = 1
      <4>1. Flat([i \in 1 .. 1 |-> ss[1]], 1)
        BY <1>0, <1>2 DEF Flat
      <4>2. \A f2 : ~Flat(f2, n)
        BY <3>1
      <4> QED BY <3>2, <4>1, <4>2
    <3>3. CASE n # 1
      <4>1. n \in 2 .. N /\ n - 1 \in 1 .. N /\ n - 1 < n
        BY <1>0, <3>1, <3>3
      <4>2. n - 1 \notin T
        <5> HIDE DEF T
        <5> QED BY <3>1, <4>1
      <4>3. PICK f : Flat(f, n - 1)
        <5> HIDE DEF N
        <5> QED BY <4>1, <4>2
      <4>0. /\ f \in [1 .. n - 1 -> Seq(S)] /\ f[1] = ss[1]
            /\ \A i \in 2 .. n - 1 : f[i] = f[i - 1] \o ss[i]
        BY <4>3 DEF Flat
      <4> DEFINE g == [i \in 1 .. n |-> IF i = n THEN f[n - 1] \o ss[n] ELSE f[i]]
      <4>4. f[n - 1] \in Seq(S) /\ f[n - 1] \o ss[n] \in Seq(S)
        <5>1. n - 1 \in 1 .. n - 1 /\ ss[n] \in Seq(S)
          BY <1>0, <4>1
        <5>2. f[n - 1] \in Seq(S)
          BY <4>0, <5>1
        <5> QED BY <5>1, <5>2
      <4>5. g \in [1 .. n -> Seq(S)] /\ g[1] = ss[1]
        <5>1. \A i \in 1 .. n : i # n => i \in 1 .. n - 1
          BY <4>1
        <5>2. 1 \in 1 .. n /\ 1 # n
          BY <4>1
        <5> HIDE DEF N
        <5> QED BY <4>0, <4>4, <5>1, <5>2
      <4>6. ASSUME NEW i \in 2 .. n PROVE g[i] = g[i - 1] \o ss[i]
        <5>1. i \in 1 .. n /\ i - 1 \in 1 .. n /\ i - 1 # n
          BY <4>1
        <5>2. g[i - 1] = f[i - 1]
          BY <5>1
        <5>3. CASE i = n
          <6>1. g[i] = f[n - 1] \o ss[n]
            BY <5>1, <5>3
          <6> QED BY <5>2, <5>3, <6>1
        <5>4. CASE i # n
          <6>1. i \in 2 .. n - 1 /\ g[i] = f[i]
            BY <4>1, <5>1, <5>4
          <6> HIDE DEF g
          <6> QED BY <4>0, <5>2, <6>1
        <5> QED BY <5>3, <5>4
      <4>7. Flat(g, n)
        <5> HIDE DEF g
        <5> QED BY <4>5, <4>6 DEF Flat
      <4>8. \A f2 : ~Flat(f2, n)
        BY <3>1
      <4> QED BY <4>7, <4>8
    <3> QED BY <3>2, <3>3
  <2>2. PICK f : Flat(f, N)
    BY <2>1
  <2> DEFINE r == CHOOSE f2 : f2 = [i \in 1 .. N |-> IF i = 1 THEN ss[i] ELSE f2[i - 1] \o ss[i]]
  <2>3. f = [i \in 1 .. N |-> IF i = 1 THEN ss[i] ELSE f[i - 1] \o ss[i]]
    <3>1. f = [i \in 1 .. N |-> f[i]]
      <4> HIDE DEF N
      <4> QED BY <2>2
    <3>2. \A i \in 1 .. N : f[i] = IF i = 1 THEN ss[i] ELSE f[i - 1] \o ss[i]
      <4>1. \A i \in 1 .. N : i # 1 => i \in 2 .. N
        BY <1>0
      <4> HIDE DEF N
      <4> QED BY <2>2, <4>1
    <3> HIDE DEF N
    <3> QED BY <3>1, <3>2
  <2>4. r = [i \in 1 .. N |-> IF i = 1 THEN ss[i] ELSE r[i - 1] \o ss[i]]
    <3> HIDE DEF N, Flat
    <3> QED BY <2>3, Zenon
  <2>5. FlattenSeq(ss) = r[N]
    BY <1>2, Zenon DEF FlattenSeq
  <2> HIDE DEF r
  <2>6. /\ DOMAIN r = 1 .. N /\ r[1] = ss[1]
        /\ \A i \in 2 .. N : r[i] = r[i - 1] \o ss[i]
    <3>1. /\ 1 \in 1 .. N
          /\ \A i \in 2 .. N : i \in 1 .. N /\ i # 1
      BY <1>0, <1>2
    <3> HIDE DEF N
    <3>2. DOMAIN r = 1 .. N
      BY <2>4
    <3>3. \A i \in 1 .. N : r[i] = IF i = 1 THEN ss[i] ELSE r[i - 1] \o ss[i]
      BY <2>4, Zenon
    <3> QED BY <3>1, <3>2, <3>3
  <2>7. \A i \in 1 .. N : r[i] \in Seq(S)
    <3> DEFINE T == {i \in 1 .. N : r[i] \notin Seq(S)}
    <3> SUFFICES ASSUME T # {} PROVE FALSE
      OBVIOUS
    <3>1. PICK i \in T : \A m \in T : i <= m
      <4>1. T \in SUBSET Nat
        OBVIOUS
      <4> HIDE DEF T
      <4> QED BY <4>1, LeastNat
    <3>2. i # 1
      BY <1>0, <2>6, <3>1
    <3>3. i \in 2 .. N /\ i - 1 \in 1 .. N /\ i - 1 < i
      BY <1>0, <3>1, <3>2
    <3>4. i - 1 \notin T
      <4> HIDE DEF T
      <4> QED BY <3>1, <3>3
    <3>5. r[i - 1] \o ss[i] \in Seq(S)
      BY <1>0, <3>3, <3>4
    <3> QED BY <2>6, <3>1, <3>3, <3>5
  <2> DEFINE at == [i \in 0 .. N |-> IF i = 0 THEN 0 ELSE Len(r[i])]
  <2>8. at \in [0 .. N -> Nat] /\ at[0] = 0 /\ \A i \in 1 .. N : at[i] = Len(r[i])
    BY <1>0, <2>7
  <2> HIDE DEF at
  <2>9. \A i \in 1 .. N : at[i] = at[i - 1] + Len(ss[i])
    <3> SUFFICES ASSUME NEW i \in 1 .. N PROVE at[i] = at[i - 1] + Len(ss[i])
      OBVIOUS
    <3>1. CASE i = 1
      BY <1>0, <2>6, <2>8, <3>1
    <3>2. CASE i # 1
      <4>1. i \in 2 .. N /\ i - 1 \in 1 .. N
        BY <1>0, <3>2
      <4>2. r[i] = r[i - 1] \o ss[i] /\ r[i - 1] \in Seq(S) /\ ss[i] \in Seq(S)
        BY <1>0, <2>6, <2>7, <4>1
      <4>3. Len(r[i]) = Len(r[i - 1]) + Len(ss[i])
        BY <4>2
      <4> QED BY <2>8, <4>1, <4>3
    <3> QED BY <3>1, <3>2
  <2>10. \A i, j \in 0 .. N : i <= j => at[i] <= at[j]
    <3>1. \A i \in 1 .. N : at[i - 1] <= at[i]
      <4> SUFFICES ASSUME NEW i \in 1 .. N PROVE at[i - 1] <= at[i]
        OBVIOUS
      <4>1. i - 1 \in 0 .. N /\ Len(ss[i]) \in Nat
        BY <1>0
      <4>2. at[i - 1] \in Nat
        <5> HIDE DEF N
        <5> QED BY <2>8, <4>1
      <4> QED BY <2>9, <4>1, <4>2
    <3> QED BY <1>0, <2>8, <3>1, Monotone
  <2>11. \A j \in 1 .. N : \A i \in 1 .. j : \A k \in 1 .. Len(ss[i]) :
           r[j][at[i - 1] + k] = ss[i][k]
    <3> DEFINE T == {j \in 1 .. N : \E i \in 1 .. j : \E k \in 1 .. Len(ss[i]) :
                       r[j][at[i - 1] + k] # ss[i][k]}
    <3> SUFFICES ASSUME T # {} PROVE FALSE
      OBVIOUS
    <3>1. PICK j \in T : \A m \in T : j <= m
      <4>1. T \in SUBSET Nat
        OBVIOUS
      <4> HIDE DEF T
      <4> QED BY <4>1, LeastNat
    <3> HIDE DEF T
    <3>2. PICK i \in 1 .. j : \E k \in 1 .. Len(ss[i]) : r[j][at[i - 1] + k] # ss[i][k]
      BY <3>1 DEF T
    <3>3. PICK k \in 1 .. Len(ss[i]) : r[j][at[i - 1] + k] # ss[i][k]
      BY <3>2
    <3>4. /\ j \in 1 .. N /\ i \in 1 .. N /\ i - 1 \in 0 .. N /\ j - 1 \in 0 .. N
          /\ ss[i] \in Seq(S) /\ ss[j] \in Seq(S) /\ Len(ss[i]) \in Nat /\ k \in 1 .. Len(ss[i])
      <4>1. j \in 1 .. N
        BY <3>1 DEF T
      <4>2. i \in 1 .. N /\ i - 1 \in 0 .. N /\ j - 1 \in 0 .. N
        BY <1>0, <4>1
      <4> HIDE DEF N
      <4> QED BY <1>0, <3>3, <4>1, <4>2
    <3>5. at[i - 1] \in Nat /\ at[j - 1] \in Nat
      <4> HIDE DEF N
      <4> QED BY <2>8, <3>4
    <3>6. CASE j = 1
      <4>1. i = 1
        BY <3>6
      <4>2. r[j][at[i - 1] + k] = ss[i][k]
        <5>1. at[i - 1] = 0
          BY <2>8, <4>1
        <5> HIDE DEF N
        <5> QED BY <2>6, <3>4, <3>6, <4>1, <5>1
      <4> QED BY <3>3, <4>2
    <3>7. CASE j # 1
      <4>1. j \in 2 .. N /\ j - 1 \in 1 .. N /\ j - 1 < j
        BY <1>0, <3>4, <3>7
      <4>2. /\ r[j] = r[j - 1] \o ss[j] /\ r[j - 1] \in Seq(S) /\ Len(r[j - 1]) = at[j - 1]
        <5> HIDE DEF N
        <5> QED BY <2>6, <2>7, <2>8, <4>1
      <4>3. CASE i = j
        <5>1. r[j][at[j - 1] + k] = ss[j][k]
          <6>1. PICK s, t, x, l : s = r[j - 1] /\ t = ss[j] /\ x = Len(s) /\ l = Len(t)
            OBVIOUS
          <6>2. /\ s \in Seq(S) /\ t \in Seq(S) /\ r[j] = s \o t /\ x = at[j - 1]
                /\ k \in 1 .. l /\ x \in Nat /\ l \in Nat
            BY <3>4, <4>2, <4>3, <6>1
          <6>3. /\ x + k \in 1 .. x + l /\ ~(x + k <= x) /\ (x + k) - x = k
            BY <6>2
          <6>5. \A n \in 1 .. Len(s) + Len(t) : (s \o t)[n] = IF n <= Len(s) THEN s[n] ELSE t[n - Len(s)]
            BY <6>2, ConcatProperties
          <6>4. (s \o t)[x + k] = t[k]
            <7>1. (s \o t)[x + k] = IF x + k <= x THEN s[x + k] ELSE t[(x + k) - x]
              BY <6>1, <6>3, <6>5
            <7> QED BY <6>3, <7>1, Zenon
          <6> QED BY <6>1, <6>2, <6>4
        <5> QED BY <3>3, <4>3, <5>1
      <4>4. CASE i # j
        <5>1. i \in 1 .. j - 1 /\ i <= j - 1 /\ i \in 0 .. N
          BY <3>4, <4>1, <4>4
        <5>2. at[i] <= at[j - 1] /\ at[i] = at[i - 1] + Len(ss[i])
          <6> HIDE DEF N
          <6> QED BY <2>9, <2>10, <3>4, <5>1
        <5>3. at[i - 1] + k \in 1 .. Len(r[j - 1])
          <6>1. PICK x, y, z, l : x = at[i - 1] /\ y = at[j - 1] /\ z = at[i] /\ l = Len(ss[i])
            OBVIOUS
          <6>2. z <= y /\ z = x + l /\ x \in Nat /\ y \in Nat /\ l \in Nat /\ k \in 1 .. l
            BY <3>4, <3>5, <5>2, <6>1
          <6>3. x + k \in 1 .. y
            BY <6>2
          <6> QED BY <4>2, <6>1, <6>3
        <5>4. r[j][at[i - 1] + k] = r[j - 1][at[i - 1] + k]
          <6>1. PICK s : s = r[j - 1]
            OBVIOUS
          <6>2. s \in Seq(S) /\ r[j] = s \o ss[j] /\ at[i - 1] + k \in 1 .. Len(s)
            BY <4>2, <5>3, <6>1
          <6>3. r[j][at[i - 1] + k] = s[at[i - 1] + k]
            BY <3>4, <6>2, ConcatProperties
          <6> QED BY <6>1, <6>3
        <5>5. j - 1 \notin T
          BY <3>1, <3>4, <4>1
        <5>6. r[j - 1][at[i - 1] + k] = ss[i][k]
          BY <3>4, <4>1, <5>1, <5>5 DEF T
        <5> QED BY <3>3, <5>4, <5>6
      <4> QED BY <4>3, <4>4
    <3> QED BY <3>6, <3>7
  <2>12. N \in 1 .. N /\ N \in 0 .. N
    BY <1>0, <1>2
  <2>13. Laid(ss, at, r[N])
    BY <1>0, <2>8, <2>9, <2>11, <2>12 DEF Laid
  <2> QED BY <2>5, <2>7, <2>12, <2>13
<1> QED BY <1>1, <1>2

(***************************************************************************)
(* Where Joined puts the strings: the i-th begins after at[i] characters,  *)
(* and the character before it, if it is not the first, is the separator.  *)
(***************************************************************************)
Joint(ss, separator, at, text) ==
  /\ at \in [1 .. Len(ss) -> Nat]
  /\ ss = << >> => text = << >>
  /\ ss # << >> => at[1] = 0 /\ Len(text) = at[Len(ss)] + Len(ss[Len(ss)])
  /\ \A i \in 1 .. Len(ss) : i # 1 => /\ at[i] = at[i - 1] + Len(ss[i - 1]) + 1
                                      /\ text[at[i]] = separator
  /\ \A i \in 1 .. Len(ss) : /\ at[i] + Len(ss[i]) <= Len(text)
                             /\ \A k \in 1 .. Len(ss[i]) : text[at[i] + k] = ss[i][k]

LEMMA JoinedFact ==
  ASSUME NEW S, NEW ss \in Seq(Seq(S)), NEW separator \in S
  PROVE  /\ Joined(ss, separator) \in Seq(S)
         /\ \E at : Joint(ss, separator, at, Joined(ss, separator))
<1> DEFINE N == Len(ss)
           piece == [i \in 1 .. N |-> IF i = 1 THEN ss[i] ELSE <<separator>> \o ss[i]]
           text == Joined(ss, separator)
<1>0. N \in Nat /\ \A i \in 1 .. N : ss[i] \in Seq(S) /\ Len(ss[i]) \in Nat
  OBVIOUS
<1>1. <<separator>> \in Seq(S) /\ Len(<<separator>>) = 1 /\ <<separator>>[1] = separator
  OBVIOUS
<1>2. \A i \in 1 .. N : i # 1 =>
        /\ piece[i] \in Seq(S) /\ Len(piece[i]) = Len(ss[i]) + 1 /\ piece[i][1] = separator
        /\ \A k \in 1 .. Len(ss[i]) : piece[i][k + 1] = ss[i][k]
  <2> SUFFICES ASSUME NEW i \in 1 .. N, i # 1
               PROVE  /\ piece[i] \in Seq(S) /\ Len(piece[i]) = Len(ss[i]) + 1
                      /\ piece[i][1] = separator
                      /\ \A k \in 1 .. Len(ss[i]) : piece[i][k + 1] = ss[i][k]
    OBVIOUS
  <2>1. PICK s : s = ss[i]
    OBVIOUS
  <2>2. s \in Seq(S) /\ Len(s) \in Nat /\ piece[i] = <<separator>> \o s
    BY <1>0, <2>1
  <2> HIDE DEF piece, N
  <2>3. /\ <<separator>> \o s \in Seq(S) /\ Len(<<separator>> \o s) = 1 + Len(s)
        /\ \A k \in 1 .. 1 + Len(s) : (<<separator>> \o s)[k] =
             IF k <= 1 THEN <<separator>>[k] ELSE s[k - 1]
    BY <1>1, <2>2, ConcatProperties
  <2>4. (<<separator>> \o s)[1] = separator
    BY <1>1, <2>2, <2>3
  <2>5. \A k \in 1 .. Len(s) : (<<separator>> \o s)[k + 1] = s[k]
    <3>1. \A k \in 1 .. Len(s) : k + 1 \in 1 .. 1 + Len(s) /\ ~(k + 1 <= 1) /\ (k + 1) - 1 = k
      BY <2>2
    <3> QED BY <2>3, <3>1
  <2> QED BY <2>1, <2>2, <2>3, <2>4, <2>5
<1>3. 1 \in 1 .. N => piece[1] = ss[1]
  OBVIOUS
<1>4. piece \in Seq(Seq(S)) /\ Len(piece) = N
  <2>1. \A i \in 1 .. N : piece[i] \in Seq(S)
    <3> HIDE DEF piece, N
    <3> QED BY <1>0, <1>2, <1>3
  <2>2. piece = [i \in 1 .. N |-> piece[i]]
    OBVIOUS
  <2>3. piece \in [1 .. N -> Seq(S)]
    <3> HIDE DEF piece, N
    <3> QED BY <2>1, <2>2
  <2> HIDE DEF piece, N
  <2> QED BY <1>0, <2>3
<1>5. text = FlattenSeq(piece)
  BY DEF Joined
<1> HIDE DEF text, piece
<1>6. text \in Seq(S)
  BY <1>4, <1>5, FlattenFact
<1>7. PICK b : Laid(piece, b, text)
  BY <1>4, <1>5, FlattenFact
<1> DEFINE at == [i \in 1 .. N |-> IF i = 1 THEN 0 ELSE b[i - 1] + 1]
<1>8. /\ b \in [0 .. N -> Nat] /\ b[0] = 0 /\ Len(text) = b[N]
      /\ \A i \in 1 .. N : b[i] = b[i - 1] + Len(piece[i])
      /\ \A i \in 1 .. N : \A k \in 1 .. Len(piece[i]) : text[b[i - 1] + k] = piece[i][k]
  BY <1>4, <1>7 DEF Laid
<1>9. ASSUME NEW i \in 1 .. N
      PROVE  /\ at[i] \in Nat /\ b[i] = at[i] + Len(ss[i])
             /\ i = 1 => at[i] = 0
             /\ i # 1 => at[i] = b[i - 1] + 1 /\ text[at[i]] = separator
             /\ \A k \in 1 .. Len(ss[i]) : text[at[i] + k] = ss[i][k]
  <2>1. i - 1 \in 0 .. N /\ Len(ss[i]) \in Nat
    BY <1>0
  <2>2. b[i - 1] \in Nat
    <3> HIDE DEF N
    <3> QED BY <1>8, <2>1
  <2>3. b[i] = b[i - 1] + Len(piece[i])
    BY <1>8
  <2>4. CASE i = 1
    <3>1. at[i] = 0 /\ b[i - 1] = 0 /\ piece[i] = ss[i]
      BY <1>3, <1>8, <2>4
    <3>2. \A k \in 1 .. Len(ss[i]) : text[k] = ss[i][k]
      BY <1>8, <3>1
    <3> HIDE DEF at, N
    <3> QED BY <2>1, <2>3, <2>4, <3>1, <3>2
  <2>5. CASE i # 1
    <3>1. at[i] = b[i - 1] + 1
      BY <2>5
    <3>2. /\ Len(piece[i]) = Len(ss[i]) + 1 /\ piece[i][1] = separator
          /\ \A k \in 1 .. Len(ss[i]) : piece[i][k + 1] = ss[i][k]
      BY <1>2, <2>5
    <3> HIDE DEF at
    <3>0. PICK x, y, l, m : x = b[i - 1] /\ y = b[i] /\ l = Len(ss[i]) /\ m = Len(piece[i])
      OBVIOUS
    <3>6. x \in Nat /\ l \in Nat /\ m = l + 1 /\ y = x + m /\ at[i] = x + 1
      BY <2>1, <2>2, <2>3, <3>0, <3>1, <3>2
    <3>3. b[i] = at[i] + Len(ss[i])
      <4>1. y = (x + 1) + l
        BY <3>6
      <4> QED BY <3>0, <3>6, <4>1
    <3>4. text[at[i]] = separator
      <4>1. 1 \in 1 .. Len(piece[i])
        BY <2>1, <3>2
      <4> QED BY <1>8, <3>1, <3>2, <4>1
    <3>5. ASSUME NEW k \in 1 .. Len(ss[i]) PROVE text[at[i] + k] = ss[i][k]
      <4>1. k + 1 \in 1 .. Len(piece[i]) /\ b[i - 1] + (k + 1) = at[i] + k
        <5>1. k \in 1 .. l
          BY <3>0
        <5>2. k + 1 \in 1 .. m /\ x + (k + 1) = (x + 1) + k
          BY <3>6, <5>1
        <5> QED BY <3>0, <3>6, <5>2
      <4>2. text[b[i - 1] + (k + 1)] = piece[i][k + 1]
        BY <1>8, <4>1
      <4> QED BY <3>2, <4>1, <4>2
    <3> QED BY <2>2, <2>5, <3>1, <3>3, <3>4, <3>5
  <2> QED BY <2>4, <2>5
<1>10. DOMAIN at = 1 .. N
  OBVIOUS
<1>11. at \in [1 .. N -> Nat]
  <2>1. at = [i \in 1 .. N |-> at[i]]
    OBVIOUS
  <2> HIDE DEF at, N
  <2> QED BY <1>9, <2>1
<1> HIDE DEF at
<1>12. \A i, j \in 0 .. N : i <= j => b[i] <= b[j]
  <2>1. ASSUME NEW i \in 1 .. N PROVE b[i - 1] <= b[i]
    <3>1. i - 1 \in 0 .. N /\ Len(piece[i]) \in Nat
      BY <1>4
    <3>2. b[i - 1] \in Nat /\ b[i] = b[i - 1] + Len(piece[i])
      <4> HIDE DEF N
      <4> QED BY <1>8, <3>1
    <3> QED BY <3>1, <3>2
  <2> HIDE DEF N
  <2> QED BY <1>0, <1>8, <2>1, Monotone
<1>13. ASSUME NEW i \in 1 .. N PROVE at[i] + Len(ss[i]) <= Len(text)
  <2>1. i \in 0 .. N /\ N \in 0 .. N /\ i <= N
    BY <1>0
  <2> HIDE DEF N
  <2> QED BY <1>8, <1>9, <1>12, <2>1
<1>14. ASSUME NEW i \in 1 .. N, i # 1 PROVE at[i] = at[i - 1] + Len(ss[i - 1]) + 1
  <2>1. i - 1 \in 1 .. N
    BY <1>0, <1>14
  <2>2. at[i] = b[i - 1] + 1 /\ b[i - 1] = at[i - 1] + Len(ss[i - 1])
    BY <1>9, <1>14, <2>1
  <2> QED BY <2>2
<1>15. ss = << >> => text = << >>
  <2> SUFFICES ASSUME ss = << >> PROVE text = << >>
    OBVIOUS
  <2>1. N = 0
    OBVIOUS
  <2>2. Len(text) = 0
    BY <1>8, <2>1
  <2> QED BY <1>6, <2>2
<1>16. ss # << >> => at[1] = 0 /\ Len(text) = at[N] + Len(ss[N])
  <2> SUFFICES ASSUME ss # << >> PROVE at[1] = 0 /\ Len(text) = at[N] + Len(ss[N])
    OBVIOUS
  <2>1. 1 \in 1 .. N /\ N \in 1 .. N
    OBVIOUS
  <2> HIDE DEF N
  <2> QED BY <1>8, <1>9, <2>1
<1>17. Joint(ss, separator, at, text)
  BY <1>9, <1>11, <1>13, <1>14, <1>15, <1>16 DEF Joint
<1> QED BY <1>6, <1>17 DEF text

LEMMA TextType ==
  ASSUME NEW ls \in Seq(Seq(Seq(Character)))
  PROVE  TextOf(ls) \in Seq(Character)
<1> DEFINE strings == [i \in 1 .. Len(ls) |-> Joined(ls[i], Comma)]
<1>1. Comma \in Character /\ NewLine \in Character
  BY ThesaurusAssumption DEF Delimiters
<1>2. \A i \in 1 .. Len(ls) : Joined(ls[i], Comma) \in Seq(Character)
  BY <1>1, JoinedFact
<1>3. strings \in Seq(Seq(Character))
  BY <1>2
<1> HIDE DEF strings
<1>4. Joined(strings, NewLine) \in Seq(Character)
  BY <1>1, <1>3, JoinedFact
<1> QED BY <1>4 DEF TextOf, strings
-----------------------------------------------------------------------------
(***************************************************************************)
(* The strings an entry owns: its word and its synonyms.                   *)
(***************************************************************************)
Owned(e) == {e.word} \cup {e.synonyms.slot[p] : p \in Position(e.synonyms)}

Building == pc \in {"comma", "synonym", "enter"}

Address == 1 .. Len(heap)

Cell == [string : Seq(Character), frees : Nat]

Sound(e, A) ==
  /\ e = [word |-> e.word, synonyms |-> e.synonyms]
  /\ e.word \in A /\ WellFormed(e.synonyms, A)

HeapShape ==
  /\ IsTokenizer(st)
  /\ heap \in Seq(Cell)
  /\ (\E S : entry \in Seq(S)) /\ Len(entry) = Len(entered)
  /\ disposed <=> pc = "done"
  /\ Building => heap[current.word].string \in Key

EntriesSound ==
  /\ \A n \in DOMAIN entry : Sound(entry[n], Address)
  /\ Building => Sound(current, Address)

EntriesApart ==
  /\ \A m, n \in DOMAIN entry : m # n => Owned(entry[m]) \cap Owned(entry[n]) = {}
  /\ Building => \A n \in DOMAIN entry : Owned(entry[n]) \cap Owned(current) = {}

AllOwned ==
  \A a \in Address : \/ \E n \in DOMAIN entry : a \in Owned(entry[n])
                     \/ Building /\ a \in Owned(current)

FreesCounted == \A a \in Address : heap[a].frees = IF \E n \in Gone : a \in Owned(entry[n]) THEN 1 ELSE 0

OwnInv == HeldInv /\ HeapShape /\ EntriesSound /\ EntriesApart /\ AllOwned /\ FreesCounted

LEMMA OwnedFact ==
  ASSUME NEW A, NEW e, Sound(e, A)
  PROVE  /\ Owned(e) \subseteq A
         /\ \A B : A \subseteq B => Sound(e, B)
<1>1. /\ e.word \in A /\ WellFormed(e.synonyms, A)
      /\ e = [word |-> e.word, synonyms |-> e.synonyms]
  BY DEF Sound
<1>2. Owned(e) \subseteq A
  BY <1>1 DEF Owned, WellFormed, IsVector
<1>3. ASSUME NEW B, A \subseteq B PROVE Sound(e, B)
  <2>1. WellFormed(e.synonyms, B)
    <3>1. PICK v : v = e.synonyms
      OBVIOUS
    <3>2. IsStruct(v) /\ IsVector(v, A)
      BY <1>1, <3>1 DEF WellFormed
    <3>3. IsVector(v, B)
      BY <1>3, <3>2 DEF IsVector
    <3> QED BY <3>1, <3>2, <3>3 DEF WellFormed
  <2> QED BY <1>1, <1>3, <2>1 DEF Sound
<1> QED BY <1>2, <1>3

(***************************************************************************)
(* Each string of the elements freed is freed once, since no two entries   *)
(* share one: elems holds one element for each index in D.                 *)
(***************************************************************************)
Apart(ents, elems, D) ==
  /\ \A e \in elems : e.id \in D
  /\ \A n \in D : \E e \in elems : e.id = n
  /\ \A e, f \in elems : e.id = f.id => e = f
  /\ \A m, n \in D : m # n => Owned(ents[m]) \cap Owned(ents[n]) = {}

LEMMA Freeing ==
  ASSUME NEW hp \in Seq(Cell), NEW ents, NEW elems, NEW D, Apart(ents, elems, D)
  PROVE  /\ ThesEntryFree(hp, ents, elems) \in Seq(Cell)
         /\ Len(ThesEntryFree(hp, ents, elems)) = Len(hp)
         /\ \A a \in 1 .. Len(hp) :
              /\ ThesEntryFree(hp, ents, elems)[a].string = hp[a].string
              /\ ThesEntryFree(hp, ents, elems)[a].frees =
                   hp[a].frees + IF \E n \in D : a \in Owned(ents[n]) THEN 1 ELSE 0
<1> DEFINE L == Len(hp)
           F(a) == {e \in elems : a \in Owned(ents[e.id])}
           r == [a \in 1 .. L |-> [hp[a] EXCEPT !.frees = @ + Cardinality(F(a))]]
<1>0. /\ \A e \in elems : e.id \in D
      /\ \A n \in D : \E e \in elems : e.id = n
      /\ \A e, f \in elems : e.id = f.id => e = f
      /\ \A m, n \in D : m # n => Owned(ents[m]) \cap Owned(ents[n]) = {}
  BY DEF Apart
<1>1. ThesEntryFree(hp, ents, elems) = r
  BY DEF ThesEntryFree, Owned
<1>2. ASSUME NEW a \in 1 .. L
      PROVE  Cardinality(F(a)) = IF \E n \in D : a \in Owned(ents[n]) THEN 1 ELSE 0
  <2>1. CASE \E n \in D : a \in Owned(ents[n])
    <3>1. PICK n \in D : a \in Owned(ents[n])
      BY <2>1
    <3>2. PICK e \in elems : e.id = n
      BY <1>0, <3>1
    <3>3. ASSUME NEW f \in F(a) PROVE f = e
      <4>1. f.id \in D /\ a \in Owned(ents[f.id])
        BY <1>0
      <4>2. f.id = n
        BY <1>0, <3>1, <4>1
      <4> QED BY <1>0, <3>2, <4>2
    <3>4. F(a) = {e}
      BY <3>1, <3>2, <3>3
    <3> QED BY <2>1, <3>4, FS_Singleton
  <2>2. CASE ~\E n \in D : a \in Owned(ents[n])
    <3>1. F(a) = {}
      BY <1>0, <2>2
    <3> QED BY <2>2, <3>1, FS_EmptySet
  <2> QED BY <2>1, <2>2
<1> HIDE DEF F
<1>3. ASSUME NEW a \in 1 .. L
      PROVE  /\ r[a] \in Cell /\ r[a].string = hp[a].string
             /\ r[a].frees = hp[a].frees + Cardinality(F(a))
  <2>1. hp[a] \in Cell /\ Cardinality(F(a)) \in Nat
    BY <1>2
  <2>2. PICK string \in Seq(Character), frees \in Nat : hp[a] = [string |-> string, frees |-> frees]
    BY <2>1 DEF Cell
  <2>3. r[a] = [string |-> string, frees |-> frees + Cardinality(F(a))]
    BY <2>2
  <2> QED BY <2>1, <2>2, <2>3 DEF Cell
<1>4. L \in Nat /\ DOMAIN r = 1 .. L /\ r = [a \in 1 .. L |-> r[a]]
  OBVIOUS
<1>5. r \in Seq(Cell) /\ Len(r) = L
  <2> HIDE DEF r, L
  <2> QED BY <1>3, <1>4
<1> HIDE DEF r
<1> QED BY <1>1, <1>2, <1>3, <1>5

LEMMA OwnInit == Init => OwnInv
<1> SUFFICES ASSUME Init PROVE OwnInv
  OBVIOUS
<1>1. HeldInv
  BY HeldInit DEF Init
<1>2. PICK end \in {<< >>, <<NewLine>>} : st = STNew(TextOf(lines) \o end)
  BY DEF Init
<1>3. entered = << >> /\ ~disposed /\ entry = << >> /\ heap = << >> /\ pc = "open"
  BY DEF Init, thesaurus!Init
<1>4. IsTokenizer(st)
  <2>1. lines \in Seq(Seq(Seq(Character)))
    <3>1. lines \in Source
      BY DEF Init
    <3>2. Source \subseteq Seq(Seq(Seq(Character)) \ {<< >>})
      BY ThesaurusAssumption
    <3> QED BY <3>1, <3>2
  <2>2. TextOf(lines) \o end \in Seq(Character)
    <3>1. end \in Seq(Character)
      <4>1. NewLine \in Character
        BY ThesaurusAssumption DEF Delimiters
      <4>2. << >> \in Seq(Character) /\ <<NewLine>> \in Seq(Character)
        BY <4>1
      <4>3. end = << >> \/ end = <<NewLine>>
        OBVIOUS
      <4> QED BY <4>2, <4>3
    <3> QED BY <2>1, <3>1, TextType
  <2> QED BY <1>2, <2>2 DEF IsTokenizer, STNew
<1>5. ~Building
  BY <1>3 DEF Building
<1>6. HeapShape
  BY <1>3, <1>4, <1>5 DEF HeapShape
<1> QED BY <1>1, <1>3, <1>5, <1>6
        DEF OwnInv, EntriesSound, EntriesApart, AllOwned, FreesCounted, Address

(***************************************************************************)
(* A step that neither allocates nor frees.                                *)
(***************************************************************************)
LEMMA OwnKept ==
  ASSUME OwnInv, UNCHANGED <<setVars, heap, entry, current>>, IsTokenizer(st)',
         pc' = "done" <=> pc = "done", Building' <=> Building
  PROVE  OwnInv'
<1>1. HeldInv'
  BY HeldKept DEF OwnInv
<1>2. UNCHANGED <<entered, disposed, Latest, Gone, Address>>
  BY DEF setVars, Latest, Gone, Address
<1>3. HeapShape'
  BY <1>2 DEF OwnInv, HeapShape
<1>4. EntriesSound'
  BY <1>2 DEF OwnInv, EntriesSound
<1>5. EntriesApart'
  BY DEF OwnInv, EntriesApart
<1>6. AllOwned' /\ FreesCounted'
  BY <1>2 DEF OwnInv, AllOwned, FreesCounted
<1> QED BY <1>1, <1>3, <1>4, <1>5, <1>6 DEF OwnInv

(***************************************************************************)
(* strdup appends a string that has not been freed; those allocated before *)
(* stay as they are.                                                       *)
(***************************************************************************)
LEMMA AllocatedFact ==
  ASSUME heap \in Seq(Cell), NEW s \in Seq(Character), heap' = Allocated(s)
  PROVE  /\ heap' \in Seq(Cell) /\ Len(heap) \in Nat /\ Len(heap') = Len(heap) + 1
         /\ Address \subseteq Address' /\ NewAddress \in Address' /\ NewAddress \notin Address
         /\ Address' = Address \cup {NewAddress}
         /\ \A a \in Address : heap'[a] = heap[a]
         /\ heap'[NewAddress].string = s /\ heap'[NewAddress].frees = 0
<1> DEFINE c == [string |-> s, frees |-> 0]
<1>1. c \in Cell /\ c.string = s /\ c.frees = 0
  BY DEF Cell
<1>2. heap' = Append(heap, c)
  BY DEF Allocated
<1> HIDE DEF c
<1>3. /\ heap' \in Seq(Cell) /\ Len(heap) \in Nat /\ Len(heap') = Len(heap) + 1
      /\ \A a \in 1 .. Len(heap) : heap'[a] = heap[a]
      /\ heap'[Len(heap) + 1] = c
  BY <1>1, <1>2
<1> QED BY <1>1, <1>3 DEF Address, NewAddress

LEMMA OwnReadWord ==
  ASSUME OwnInv, ReadWord
  PROVE  OwnInv'
<1>0. HeldInv /\ HeapShape /\ EntriesSound /\ EntriesApart /\ AllOwned /\ FreesCounted
  BY DEF OwnInv
<1>1. HeldInv' /\ UNCHANGED <<entered, disposed, Latest, Gone>>
  BY <1>0, HeldKept DEF ReadWord, setVars, Latest, Gone
<1>2. /\ pc = "word" /\ pc' = "comma" /\ entry' = entry /\ ~Building /\ Building'
      /\ current' = [word |-> NewAddress, synonyms |-> VectorNew(InitialAllocation)]
  BY DEF ReadWord, Building
<1>3. IsTokenizer(st)' /\ st'.buffer \in Seq(Character) /\ st'.buffer \in Key
  <2>1. IsTokenizer(st) /\ NextToken.ok /\ st' = NextToken.st
    BY <1>0 DEF HeapShape, ReadWord
  <2>2. st.pos < Len(st.text) /\ IsTokenizer(NextToken.st)
    <3>1. PICK next : next = NextToken
      OBVIOUS
    <3> QED BY <2>1, <3>1, TokenFact DEF NextToken
  <2>3. IsTokenizer(st')
    BY <2>1, <2>2
  <2>4. st'.buffer \in Key
    BY <2>1, <2>2, TokenKey DEF NextToken
  <2> QED BY <2>3, <2>4 DEF IsTokenizer
<1>4. /\ heap' \in Seq(Cell) /\ Len(heap) \in Nat /\ Len(heap') = Len(heap) + 1
      /\ Address \subseteq Address' /\ NewAddress \in Address' /\ NewAddress \notin Address
      /\ Address' = Address \cup {NewAddress}
      /\ \A a \in Address : heap'[a] = heap[a]
      /\ heap'[NewAddress].string = st'.buffer /\ heap'[NewAddress].frees = 0
  <2>1. heap \in Seq(Cell) /\ heap' = Allocated(st'.buffer)
    BY <1>0 DEF HeapShape, ReadWord
  <2> QED BY <1>3, <2>1, AllocatedFact
<1>5. Sound(current', Address') /\ Owned(current') = {NewAddress}
  <2>1. PICK v : v = VectorNew(InitialAllocation)
    OBVIOUS
  <2>2. InitialAllocation \in Nat
    BY ThesaurusAssumption
  <2>3. WellFormed(v, Address') /\ v.logLen = 0
    BY <2>1, <2>2, NewFact
  <2>4. current' = [word |-> NewAddress, synonyms |-> v]
    BY <1>2, <2>1
  <2>5. current'.word = NewAddress /\ current'.synonyms = v
    BY <2>4
  <2>6. Position(v) = {}
    BY <2>3 DEF Position
  <2> QED BY <1>4, <2>3, <2>4, <2>5, <2>6 DEF Sound, Owned
<1>6. \A n \in DOMAIN entry : /\ Sound(entry[n], Address) /\ Sound(entry[n], Address')
                              /\ Owned(entry[n]) \subseteq Address
  BY <1>0, <1>4, OwnedFact DEF EntriesSound
<1>7. HeapShape'
  <2>1. current'.word = NewAddress
    BY <1>2
  <2> QED BY <1>0, <1>1, <1>2, <1>3, <1>4, <2>1 DEF HeapShape
<1>8. EntriesSound'
  BY <1>2, <1>5, <1>6 DEF EntriesSound
<1>9. EntriesApart'
  BY <1>0, <1>2, <1>4, <1>5, <1>6 DEF EntriesApart
<1>10. AllOwned'
  BY <1>0, <1>2, <1>4, <1>5 DEF AllOwned
<1>11. FreesCounted'
  <2>2. \A n \in Gone : NewAddress \notin Owned(entry[n])
    <3>1. \A n \in Gone : n \in DOMAIN entry
      <4>1. entered \in Seq(Key) /\ Len(entry) = Len(entered) /\ \E S : entry \in Seq(S)
        BY <1>0, HeldFact DEF HeapShape
      <4> QED BY <4>1 DEF Gone
    <3> QED BY <1>4, <1>6, <3>1
  <2> QED BY <1>0, <1>1, <1>2, <1>4, <2>2 DEF FreesCounted
<1> QED BY <1>1, <1>7, <1>8, <1>9, <1>10, <1>11 DEF OwnInv

LEMMA OwnReadSynonym ==
  ASSUME OwnInv, ReadSynonym
  PROVE  OwnInv'
<1>0. HeldInv /\ HeapShape /\ EntriesSound /\ EntriesApart /\ AllOwned /\ FreesCounted
  BY DEF OwnInv
<1>1. HeldInv' /\ UNCHANGED <<entered, disposed, Latest, Gone>>
  BY <1>0, HeldKept DEF ReadSynonym, setVars, Latest, Gone
<1>2. /\ pc = "synonym" /\ pc' = "comma" /\ entry' = entry /\ Building /\ Building'
      /\ current' = [current EXCEPT !.synonyms = VectorAppend(@, NewAddress)]
  BY DEF ReadSynonym, Building
<1>3. IsTokenizer(st)' /\ st'.buffer \in Seq(Character)
  <2>1. IsTokenizer(st) /\ st' = NextToken.st
    BY <1>0 DEF HeapShape, ReadSynonym
  <2>2. IsTokenizer(NextToken.st)
    <3>1. PICK next : next = NextToken
      OBVIOUS
    <3> QED BY <2>1, <3>1, TokenFact DEF NextToken
  <2>3. IsTokenizer(st')
    BY <2>1, <2>2
  <2> QED BY <2>3 DEF IsTokenizer
<1>4. /\ heap' \in Seq(Cell) /\ Len(heap) \in Nat /\ Len(heap') = Len(heap) + 1
      /\ Address \subseteq Address' /\ NewAddress \in Address' /\ NewAddress \notin Address
      /\ Address' = Address \cup {NewAddress}
      /\ \A a \in Address : heap'[a] = heap[a]
      /\ heap'[NewAddress].string = st'.buffer /\ heap'[NewAddress].frees = 0
  <2>1. heap \in Seq(Cell) /\ heap' = Allocated(st'.buffer)
    BY <1>0 DEF HeapShape, ReadSynonym
  <2> QED BY <1>3, <2>1, AllocatedFact
<1>5. /\ Sound(current', Address') /\ Owned(current') = Owned(current) \cup {NewAddress}
      /\ current'.word = current.word /\ current.word \in Address
  <2>1. PICK v, w, x : v = current.synonyms /\ w = current.word /\ x = VectorAppend(v, NewAddress)
    OBVIOUS
  <2>2. Sound(current, Address) /\ Sound(current, Address')
    BY <1>0, <1>2, <1>4, OwnedFact DEF EntriesSound
  <2>3. /\ current = [word |-> w, synonyms |-> v] /\ w \in Address
        /\ WellFormed(v, Address')
    BY <2>1, <2>2 DEF Sound
  <2>4. /\ WellFormed(x, Address') /\ x.logLen = v.logLen + 1 /\ v.logLen \in Nat
        /\ \A q \in 0 .. v.logLen : x.slot[q] = IF q = v.logLen THEN NewAddress ELSE v.slot[q]
    BY <1>4, <2>1, <2>3, AppendFact, ElementFact
  <2>5. current' = [word |-> w, synonyms |-> x]
    BY <1>2, <2>1, <2>3
  <2>6. current'.word = w /\ current'.synonyms = x
    BY <2>5
  <2>7. Position(x) = Position(v) \cup {v.logLen} /\ Position(x) = 0 .. v.logLen
        /\ v.logLen \notin Position(v)
    BY <2>4 DEF Position
  <2>8. {x.slot[p] : p \in Position(x)} = {v.slot[p] : p \in Position(v)} \cup {NewAddress}
    <3>1. x.slot[v.logLen] = NewAddress /\ \A q \in Position(v) : x.slot[q] = v.slot[q]
      BY <2>4, <2>7
    <3> QED BY <2>7, <3>1
  <2>9. Owned(current') = {w} \cup {x.slot[p] : p \in Position(x)}
    BY <2>6 DEF Owned
  <2>10. Owned(current) = {w} \cup {v.slot[p] : p \in Position(v)}
    BY <2>1 DEF Owned
  <2>11. Sound(current', Address')
    BY <1>4, <2>3, <2>4, <2>5, <2>6 DEF Sound
  <2> QED BY <2>1, <2>3, <2>6, <2>8, <2>9, <2>10, <2>11
<1>6. /\ \A n \in DOMAIN entry : /\ Sound(entry[n], Address) /\ Sound(entry[n], Address')
                                 /\ Owned(entry[n]) \subseteq Address
      /\ Owned(current) \subseteq Address
  BY <1>0, <1>2, <1>4, OwnedFact DEF EntriesSound
<1>7. HeapShape'
  BY <1>0, <1>1, <1>2, <1>3, <1>4, <1>5 DEF HeapShape
<1>8. EntriesSound'
  BY <1>2, <1>5, <1>6 DEF EntriesSound
<1>9. EntriesApart'
  BY <1>0, <1>2, <1>4, <1>5, <1>6 DEF EntriesApart
<1>10. AllOwned'
  BY <1>0, <1>2, <1>4, <1>5 DEF AllOwned
<1>11. FreesCounted'
  <2>1. \A n \in Gone : NewAddress \notin Owned(entry[n])
    <3>1. \A n \in Gone : n \in DOMAIN entry
      <4>1. entered \in Seq(Key) /\ Len(entry) = Len(entered) /\ \E S : entry \in Seq(S)
        BY <1>0, HeldFact DEF HeapShape
      <4> QED BY <4>1 DEF Gone
    <3> QED BY <1>4, <1>6, <3>1
  <2> QED BY <1>0, <1>1, <1>2, <1>4, <2>1 DEF FreesCounted
<1> QED BY <1>1, <1>7, <1>8, <1>9, <1>10, <1>11 DEF OwnInv

(***************************************************************************)
(* Entering a word frees the entry it replaces, if any, and disposing of   *)
(* the hash set all it holds: in either case those that are gone now and   *)
(* were not before.                                                        *)
(***************************************************************************)
LEMMA OwnFreed ==
  ASSUME OwnInv, HeldInv', \A n \in DOMAIN entered : Element(n)' = Element(n),
         DOMAIN entered \subseteq DOMAIN entered', DOMAIN entry = DOMAIN entered,
         \A n \in Gone : n \in Gone',
         \A n \in DOMAIN entry : entry'[n] = entry[n],
         \A m, n \in DOMAIN entered' : m # n => Owned(entry'[m]) \cap Owned(entry'[n]) = {},
         heap' = ThesEntryFree(heap, entry', freed' \ freed)
  PROVE  /\ heap' \in Seq(Cell) /\ Len(heap') = Len(heap)
         /\ \A a \in Address : heap'[a].string = heap[a].string
         /\ \A a \in Address :
              heap'[a].frees = IF \E n \in Gone' : a \in Owned(entry'[n]) THEN 1 ELSE 0
<1> DEFINE D == Gone' \ Gone
           E(n) == [key |-> entered'[n], id |-> n]
           elems == freed' \ freed
<1>1. freed = {Element(n) : n \in Gone} /\ entered \in Seq(Key)
  BY HeldFact DEF OwnInv
<1>2. freed' = {Element(n)' : n \in Gone'}
  BY FreedNext
<1>3. \A n : Element(n)' = E(n)
  BY DEF Element
<1>4. freed' = {E(n) : n \in Gone'}
  BY <1>2, <1>3
<1>5. \A n \in Gone : Element(n) = E(n)
  BY <1>3 DEF Gone
<1>6. freed = {E(n) : n \in Gone}
  BY <1>1, <1>5
<1>7. \A n : E(n).id = n
  OBVIOUS
<1> HIDE DEF E
<1>8. elems = {E(n) : n \in D}
  <2>1. \A m, n : E(m) = E(n) => m = n
    BY <1>7
  <2> QED BY <1>4, <1>6, <2>1
<1>9. \A n \in D : n \in DOMAIN entered'
  BY DEF Gone
<1>10. heap \in Seq(Cell)
  BY DEF OwnInv, HeapShape
<1> HIDE DEF elems
<1>11. /\ \A e \in elems : e.id \in D
       /\ \A n \in D : \E e \in elems : e.id = n
       /\ \A e, f \in elems : e.id = f.id => e = f
  <2> HIDE DEF D
  <2>1. \A e \in elems : \E n \in D : e = E(n)
    BY <1>8
  <2>2. \A n \in D : E(n) \in elems
    BY <1>8
  <2>3. \A e \in elems : e.id \in D /\ e = E(e.id)
    BY <1>7, <2>1
  <2> QED BY <1>7, <2>2, <2>3
<1>12. \A m, n \in D : m # n => Owned(entry'[m]) \cap Owned(entry'[n]) = {}
  BY <1>9
<1>13. heap' = ThesEntryFree(heap, entry', elems)
  BY DEF elems
<1> HIDE DEF D
<1>14. /\ heap' \in Seq(Cell) /\ Len(heap') = Len(heap)
       /\ \A a \in Address : heap'[a].string = heap[a].string
       /\ \A a \in Address :
            heap'[a].frees = heap[a].frees + IF \E n \in D : a \in Owned(entry'[n]) THEN 1 ELSE 0
  <2>1. PICK ents : ents = entry'
    OBVIOUS
  <2>2. \A m, n \in D : m # n => Owned(ents[m]) \cap Owned(ents[n]) = {}
    BY <1>12, <2>1
  <2>3. heap' = ThesEntryFree(heap, ents, elems)
    BY <1>13, <2>1
  <2>4. /\ heap' \in Seq(Cell) /\ Len(heap') = Len(heap)
        /\ \A a \in 1 .. Len(heap) :
             /\ heap'[a].string = heap[a].string
             /\ heap'[a].frees = heap[a].frees + IF \E n \in D : a \in Owned(ents[n]) THEN 1 ELSE 0
    <3> DEFINE hp == ThesEntryFree(heap, ents, elems)
    <3>1. /\ hp \in Seq(Cell) /\ Len(hp) = Len(heap)
          /\ \A a \in 1 .. Len(heap) :
               /\ hp[a].string = heap[a].string
               /\ hp[a].frees = heap[a].frees + IF \E n \in D : a \in Owned(ents[n]) THEN 1 ELSE 0
      <4>1. Apart(ents, elems, D)
        BY <1>11, <2>2 DEF Apart
      <4> QED BY <1>10, <4>1, Freeing
    <3> HIDE DEF hp
    <3> QED BY <2>3, <3>1 DEF hp
  <2> QED BY <2>1, <2>4 DEF Address
<1>15. ASSUME NEW a \in Address
       PROVE  heap'[a].frees = IF \E n \in Gone' : a \in Owned(entry'[n]) THEN 1 ELSE 0
  <2>1. heap[a].frees = IF \E n \in Gone : a \in Owned(entry[n]) THEN 1 ELSE 0
    BY DEF OwnInv, FreesCounted
  <2>2. \A n \in Gone : n \in Gone' /\ n \notin D /\ n \in DOMAIN entered' /\ entry'[n] = entry[n]
    BY DEF Gone, D
  <2>3. \A n \in Gone' : n \in Gone \/ n \in D
    BY DEF D
  <2>4. CASE \E n \in Gone : a \in Owned(entry[n])
    <3>1. PICK n \in Gone : a \in Owned(entry[n])
      BY <2>4
    <3>2. \A m \in D : a \notin Owned(entry'[m])
      BY <1>9, <2>2, <3>1
    <3>3. ~\E m \in D : a \in Owned(entry'[m])
      BY <3>2
    <3>4. \E m \in Gone' : a \in Owned(entry'[m])
      BY <2>2, <3>1
    <3>5. heap[a].frees = 1
      BY <2>1, <2>4
    <3>6. heap'[a].frees = heap[a].frees + 0
      BY <1>14, <3>3
    <3>7. heap'[a].frees = 1
      BY <3>5, <3>6
    <3> QED BY <3>4, <3>7
  <2>5. CASE ~\E n \in Gone : a \in Owned(entry[n])
    <3>1. (\E n \in D : a \in Owned(entry'[n])) <=> (\E n \in Gone' : a \in Owned(entry'[n]))
      <4>1. \A n \in D : n \in Gone'
        BY DEF D
      <4> QED BY <2>2, <2>3, <2>5, <4>1
    <3>2. heap[a].frees = 0
      BY <2>1, <2>5
    <3>3. heap'[a].frees = heap[a].frees + IF \E n \in Gone' : a \in Owned(entry'[n]) THEN 1 ELSE 0
      <4>1. heap'[a].frees = heap[a].frees + IF \E n \in D : a \in Owned(entry'[n]) THEN 1 ELSE 0
        BY <1>14
      <4>2. CASE \E n \in D : a \in Owned(entry'[n])
        BY <3>1, <4>1, <4>2
      <4>3. CASE ~\E n \in D : a \in Owned(entry'[n])
        BY <3>1, <4>1, <4>3
      <4> QED BY <4>2, <4>3
    <3>4. CASE \E n \in Gone' : a \in Owned(entry'[n])
      <4>1. heap'[a].frees = heap[a].frees + 1
        BY <3>3, <3>4
      <4>2. heap'[a].frees = 1
        BY <3>2, <4>1
      <4> QED BY <3>4, <4>2
    <3>5. CASE ~\E n \in Gone' : a \in Owned(entry'[n])
      <4>1. heap'[a].frees = heap[a].frees + 0
        BY <3>3, <3>5
      <4>2. heap'[a].frees = 0
        BY <3>2, <4>1
      <4> QED BY <3>5, <4>2
    <3> QED BY <3>4, <3>5
  <2> QED BY <2>4, <2>5
<1> QED BY <1>14, <1>15

LEMMA OwnEnter ==
  ASSUME OwnInv, EnterEntry
  PROVE  OwnInv'
<1> DEFINE k == heap[current.word].string
           N == Len(entered)
<1>0. HeldInv /\ HeapShape /\ EntriesSound /\ EntriesApart /\ AllOwned /\ FreesCounted
  BY DEF OwnInv
<1>1. /\ pc = "enter" /\ pc' = "word" /\ Building /\ ~Building' /\ st' = st /\ current' = current
      /\ entry' = Append(entry, current) /\ thesaurus!Enter(k)
      /\ heap' = ThesEntryFree(heap, entry', freed' \ freed)
  BY DEF EnterEntry, Building
<1>2. entered' = Append(entered, k) /\ disposed' = disposed /\ ~disposed
  BY <1>1 DEF thesaurus!Enter
<1>3. k \in Key /\ entered \in Seq(Key) /\ Len(entry) = N /\ (\E S : entry \in Seq(S)) /\ IsTokenizer(st)
  BY <1>0, <1>1, HeldFact DEF HeapShape
<1>4. HeldInv'
  BY <1>0, <1>1, <1>3, HeldEnter
<1> HIDE DEF k
<1>5. /\ N \in Nat /\ DOMAIN entered = 1 .. N /\ DOMAIN entered' = 1 .. N + 1
      /\ entered' \in Seq(Key) /\ Len(entered') = N + 1
      /\ \A n \in 1 .. N : entered'[n] = entered[n]
      /\ entered'[N + 1] = k
  BY <1>2, <1>3
<1>6. /\ DOMAIN entry = 1 .. N /\ DOMAIN entry' = 1 .. N + 1 /\ (\E S : entry' \in Seq(S))
      /\ Len(entry') = N + 1
      /\ \A n \in 1 .. N : entry'[n] = entry[n]
      /\ entry'[N + 1] = current
  <2>1. PICK S : entry \in Seq(S)
    BY <1>3
  <2>2. entry \in Seq(S \cup {current})
    BY <2>1
  <2>3. PICK R : R = S \cup {current}
    OBVIOUS
  <2>4. entry \in Seq(R) /\ current \in R
    BY <2>2, <2>3
  <2> QED BY <1>1, <1>3, <2>4
<1> HIDE DEF N
<1>7. ASSUME NEW n \in Gone PROVE n \in Gone'
  <2>1. n \in 1 .. N /\ \E m \in 1 .. N : m > n /\ entered[m] = entered[n]
    BY <1>2, <1>5 DEF Gone, Latest
  <2>2. PICK m \in 1 .. N : m > n /\ entered[m] = entered[n]
    BY <2>1
  <2>3. n \in DOMAIN entered' /\ m \in DOMAIN entered' /\ entered'[m] = entered'[n]
    BY <1>5, <2>1, <2>2
  <2>4. n \notin Latest'
    BY <2>2, <2>3 DEF Latest
  <2> QED BY <2>3, <2>4 DEF Gone
<1>8. /\ \A n \in 1 .. N : Sound(entry[n], Address) /\ Owned(entry[n]) \subseteq Address
      /\ Sound(current, Address) /\ Owned(current) \subseteq Address
  BY <1>0, <1>1, <1>6, OwnedFact DEF EntriesSound
<1>9. \A m, n \in 1 .. N + 1 : m # n => Owned(entry'[m]) \cap Owned(entry'[n]) = {}
  <2>1. \A n \in 1 .. N + 1 : n \in 1 .. N \/ n = N + 1
    BY <1>5
  <2>2. \A m, n \in 1 .. N : m # n => Owned(entry'[m]) \cap Owned(entry'[n]) = {}
    BY <1>0, <1>6 DEF EntriesApart
  <2>3. \A n \in 1 .. N : Owned(entry'[n]) \cap Owned(entry'[N + 1]) = {}
    BY <1>0, <1>1, <1>6 DEF EntriesApart
  <2> QED BY <2>1, <2>2, <2>3
<1>10. /\ heap' \in Seq(Cell) /\ Len(heap') = Len(heap)
       /\ \A a \in Address :
            heap'[a].frees = IF \E n \in Gone' : a \in Owned(entry'[n]) THEN 1 ELSE 0
  <2>1. \A n \in DOMAIN entered : Element(n)' = Element(n)
    BY <1>5 DEF Element
  <2>2. DOMAIN entered \subseteq DOMAIN entered' /\ DOMAIN entry = DOMAIN entered
    BY <1>5, <1>6
  <2>3. \A m, n \in DOMAIN entered' : m # n => Owned(entry'[m]) \cap Owned(entry'[n]) = {}
    BY <1>5, <1>9
  <2>4. \A n \in DOMAIN entry : entry'[n] = entry[n]
    BY <1>6
  <2> QED BY <1>1, <1>4, <1>7, <2>1, <2>2, <2>3, <2>4, OwnFreed
<1>11. Address' = Address
  BY <1>10 DEF Address
<1>12. HeapShape'
  <2>1. IsTokenizer(st)'
    BY <1>1, <1>3
  <2>2. pc' # "done" /\ ~disposed'
    BY <1>1, <1>2
  <2> QED BY <1>1, <1>5, <1>6, <1>10, <2>1, <2>2 DEF HeapShape
<1>13. EntriesSound'
  <2>1. \A n \in 1 .. N + 1 : n \in 1 .. N \/ n = N + 1
    BY <1>5
  <2>2. \A n \in 1 .. N + 1 : Sound(entry'[n], Address)
    BY <1>6, <1>8, <2>1
  <2> QED BY <1>1, <1>6, <1>11, <2>2 DEF EntriesSound
<1>14. EntriesApart'
  BY <1>1, <1>6, <1>9 DEF EntriesApart
<1>15. AllOwned'
  <2> SUFFICES ASSUME NEW a \in Address PROVE \E n \in 1 .. N + 1 : a \in Owned(entry'[n])
    BY <1>6, <1>11 DEF AllOwned
  <2>1. (\E n \in 1 .. N : a \in Owned(entry[n])) \/ a \in Owned(current)
    BY <1>0, <1>6 DEF AllOwned
  <2>2. \A n \in 1 .. N : n \in 1 .. N + 1
    BY <1>5
  <2>3. N + 1 \in 1 .. N + 1
    BY <1>5
  <2> QED BY <1>6, <2>1, <2>2, <2>3
<1>16. FreesCounted'
  BY <1>10, <1>11 DEF FreesCounted
<1> QED BY <1>4, <1>12, <1>13, <1>14, <1>15, <1>16 DEF OwnInv

LEMMA OwnAnswer ==
  ASSUME OwnInv, pc = "query", NEW word, Answer(word), UNCHANGED <<st, current, entry>>
  PROVE  OwnInv'
<1>0. HeldInv /\ HeapShape /\ EntriesSound /\ EntriesApart /\ AllOwned /\ FreesCounted
  BY DEF OwnInv
<1>1. CASE word # << >>
  <2>1. UNCHANGED <<setVars, heap>> /\ Reply(word)
    BY <1>1 DEF Answer
  <2>2. pc' = pc \/ pc' = "aborted"
    BY <2>1 DEF Reply
  <2>3. IsTokenizer(st)'
    BY <1>0 DEF HeapShape
  <2> QED BY <2>1, <2>2, <2>3, OwnKept DEF Building
<1>2. CASE word = << >>
  <2>1. thesaurus!Dispose /\ heap' = ThesEntryFree(heap, entry', freed' \ freed) /\ pc' = "done"
    BY <1>2 DEF Answer
  <2>2. HeldInv' /\ entered' = entered /\ disposed'
    BY <1>0, <2>1, HeldDispose DEF thesaurus!Dispose
  <2>3. entered \in Seq(Key) /\ (\E S : entry \in Seq(S)) /\ Len(entry) = Len(entered)
        /\ DOMAIN entry = DOMAIN entered
    BY <1>0, HeldFact DEF HeapShape
  <2>4. ~Building /\ ~Building'
    BY <2>1 DEF Building
  <2>5. /\ heap' \in Seq(Cell) /\ Len(heap') = Len(heap)
        /\ \A a \in Address :
             heap'[a].frees = IF \E n \in Gone' : a \in Owned(entry'[n]) THEN 1 ELSE 0
    <3>1. \A n \in DOMAIN entered : Element(n)' = Element(n)
      BY <2>2 DEF Element
    <3>2. \A n \in Gone : n \in Gone'
      BY <2>2 DEF Gone
    <3>3. \A m, n \in DOMAIN entered' : m # n => Owned(entry'[m]) \cap Owned(entry'[n]) = {}
      BY <1>0, <2>2, <2>3 DEF EntriesApart
    <3>4. DOMAIN entered \subseteq DOMAIN entered' /\ \A n \in DOMAIN entry : entry'[n] = entry[n]
      BY <2>2
    <3> QED BY <2>1, <2>2, <2>3, <3>1, <3>2, <3>3, <3>4, OwnFreed
  <2>6. Address' = Address
    BY <2>5 DEF Address
  <2>7. HeapShape'
    <3>1. IsTokenizer(st)'
      BY <1>0 DEF HeapShape
    <3> QED BY <2>1, <2>2, <2>3, <2>4, <2>5, <3>1 DEF HeapShape
  <2>8. EntriesSound' /\ EntriesApart' /\ AllOwned'
    BY <1>0, <2>4, <2>6 DEF EntriesSound, EntriesApart, AllOwned
  <2>9. FreesCounted'
    BY <2>5, <2>6 DEF FreesCounted
  <2> QED BY <2>2, <2>7, <2>8, <2>9 DEF OwnInv
<1> QED BY <1>1, <1>2

LEMMA OwnNext ==
  ASSUME OwnInv, [Next]_vars
  PROVE  OwnInv'
<1>0. IsTokenizer(st)
  BY DEF OwnInv, HeapShape
<1>1. CASE UNCHANGED vars
  <2>1. UNCHANGED <<setVars, heap, entry, current, st, pc>>
    BY <1>1 DEF vars, setVars
  <2>2. IsTokenizer(st)'
    BY <1>0, <2>1
  <2> QED BY <2>1, <2>2, OwnKept DEF Building
<1>2. CASE OpenFile
  <2>1. /\ UNCHANGED <<setVars, heap, entry, current>> /\ st' = st
        /\ pc = "open" /\ pc' \in {"word", "exit"}
    BY <1>2 DEF OpenFile
  <2>2. IsTokenizer(st)'
    BY <1>0, <2>1
  <2> QED BY <2>1, <2>2, OwnKept DEF Building
<1>3. CASE EndOfFile
  <2>1. /\ UNCHANGED <<setVars, heap, entry, current>> /\ st' = st
        /\ pc = "word" /\ pc' = "query"
    BY <1>3 DEF EndOfFile
  <2>2. IsTokenizer(st)'
    BY <1>0, <2>1
  <2> QED BY <2>1, <2>2, OwnKept DEF Building
<1>4. CASE ReadComma
  <2>1. /\ UNCHANGED <<setVars, heap, entry, current>> /\ st' = NextToken.st
        /\ pc = "comma" /\ pc' \in {"synonym", "enter"}
    BY <1>4 DEF ReadComma
  <2>2. IsTokenizer(NextToken.st)
    <3>1. PICK next : next = NextToken
      OBVIOUS
    <3> QED BY <1>0, <3>1, TokenFact DEF NextToken
  <2>3. IsTokenizer(st')
    BY <2>1, <2>2
  <2> QED BY <2>1, <2>3, OwnKept DEF Building
<1>5. CASE ReadWord
  BY <1>5, OwnReadWord
<1>6. CASE ReadSynonym
  BY <1>6, OwnReadSynonym
<1>7. CASE EnterEntry
  BY <1>7, OwnEnter
<1>8. CASE \E line \in Typed : Query(line)
  <2>1. PICK line \in Typed : Query(line)
    BY <1>8
  <2> QED BY <2>1, OwnAnswer DEF Query
<1>9. CASE QueryAtEnd
  BY <1>9, OwnAnswer DEF QueryAtEnd
<1> QED BY <1>1, <1>2, <1>3, <1>4, <1>5, <1>6, <1>7, <1>8, <1>9 DEF Next

(***************************************************************************)
(* Every string strdup returned is freed once at most, none while an entry *)
(* that the thesaurus holds owns it, and every one when it is disposed of. *)
(***************************************************************************)
LEMMA OwnFrees == OwnInv => StringsFreedOnce
<1> SUFFICES ASSUME OwnInv PROVE StringsFreedOnce
  OBVIOUS
<1>0. HeldInv /\ HeapShape /\ EntriesApart /\ AllOwned /\ FreesCounted
  BY DEF OwnInv
<1>1. \A a \in Address : heap[a].frees = IF \E n \in Gone : a \in Owned(entry[n]) THEN 1 ELSE 0
  BY <1>0 DEF FreesCounted
<1>2. DOMAIN entry = DOMAIN entered
  <2>1. entered \in Seq(Key) /\ (\E S : entry \in Seq(S)) /\ Len(entry) = Len(entered)
    BY <1>0, HeldFact DEF HeapShape
  <2> QED BY <2>1
<1>3. \A a \in Address : heap[a].frees = 0 \/ heap[a].frees = 1
  BY <1>1
<1>4. ASSUME NEW e \in thesaurus!members, NEW a \in Strings(e) PROVE heap[a].frees = 0
  <2>1. ~disposed /\ \E n \in Latest : e = Element(n)
    BY <1>0, HeldFact
  <2>2. PICK n \in Latest : e = Element(n)
    BY <2>1
  <2>3. e.id = n
    BY <2>2 DEF Element
  <2>4. a \in Owned(entry[n])
    BY <2>3 DEF Strings, Owned
  <2>5. n \in DOMAIN entry
    BY <1>2 DEF Latest
  <2>6. \A m \in Gone : m # n /\ m \in DOMAIN entry
    BY <1>2, <2>1 DEF Gone
  <2>7. a \in Address
    BY <2>4, <2>5, OwnedFact DEF OwnInv, EntriesSound
  <2>8. ~\E m \in Gone : a \in Owned(entry[m])
    BY <1>0, <2>4, <2>5, <2>6 DEF EntriesApart
  <2> QED BY <1>1, <2>7, <2>8
<1>5. ASSUME pc = "done", NEW a \in Address PROVE heap[a].frees = 1
  <2>1. disposed /\ ~Building
    BY <1>0, <1>5 DEF HeapShape, Building
  <2>2. PICK n \in DOMAIN entry : a \in Owned(entry[n])
    BY <1>0, <2>1 DEF AllOwned
  <2>3. n \in Gone
    BY <1>2, <2>1 DEF Gone
  <2> QED BY <1>1, <2>2, <2>3
<1>6. \A a \in Address : heap[a].frees <= 1
  BY <1>3
<1> QED BY <1>4, <1>5, <1>6 DEF StringsFreedOnce, Address

(***************************************************************************)
(* StringsFreedOnce holds of every behaviour: whatever the file, the sizes *)
(* and the hash function, no string is freed twice or too early, and none  *)
(* is left when the program has disposed of the thesaurus.                 *)
(***************************************************************************)
THEOREM StringsFreed == Spec => []StringsFreedOnce
<1>1. Init => OwnInv
  BY OwnInit
<1>2. OwnInv /\ [Next]_vars => OwnInv'
  BY OwnNext
<1>3. OwnInv => StringsFreedOnce
  BY OwnFrees
<1> QED BY <1>1, <1>2, <1>3, PTL DEF Spec
-----------------------------------------------------------------------------
(***************************************************************************)
(* Where the strings of a file are in its text: the j-th string of the     *)
(* i-th line begins after at[i][j] characters.                             *)
(***************************************************************************)
Places(ls, text, at) ==
  \A i \in 1 .. Len(ls) : \A j \in 1 .. Len(ls[i]) :
    LET end == at[i][j] + Len(ls[i][j])
    IN  /\ at[i][j] \in Nat /\ end <= Len(text)
        /\ \A k \in 1 .. Len(ls[i][j]) : text[at[i][j] + k] = ls[i][j][k]
        /\ j # Len(ls[i]) => at[i][j + 1] = end + 1 /\ text[end + 1] = Comma
        /\ j = Len(ls[i]) /\ i # Len(ls) => at[i + 1][1] = end + 1 /\ text[end + 1] = NewLine
        /\ j = Len(ls[i]) /\ i = Len(ls) =>
             Len(text) = end \/ (Len(text) = end + 1 /\ text[end + 1] = NewLine)
        /\ i = 1 /\ j = 1 => at[i][j] = 0


JointFrom(ss, separator, at, text, i) ==
  /\ at[i] \in Nat /\ Len(ss[i]) \in Nat /\ Len(text) \in Nat
  /\ at[i] + Len(ss[i]) <= Len(text)
  /\ \A k \in 1 .. Len(ss[i]) : text[at[i] + k] = ss[i][k]
  /\ i # Len(ss) => /\ i + 1 \in 1 .. Len(ss) /\ at[i + 1] = at[i] + Len(ss[i]) + 1
                    /\ at[i + 1] \in 1 .. Len(text) /\ text[at[i + 1]] = separator
  /\ i = Len(ss) => Len(text) = at[i] + Len(ss[i])
  /\ i = 1 => at[i] = 0

LEMMA JointAt ==
  ASSUME NEW S, NEW ss \in Seq(Seq(S)), NEW separator, NEW text \in Seq(S), NEW at,
         Joint(ss, separator, at, text), NEW i \in 1 .. Len(ss)
  PROVE  JointFrom(ss, separator, at, text, i)
<1>0. Len(ss) \in Nat /\ Len(text) \in Nat /\ \A m \in 1 .. Len(ss) : Len(ss[m]) \in Nat
  OBVIOUS
<1>1. at \in [1 .. Len(ss) -> Nat] /\ ss # << >>
  BY DEF Joint
<1>2. \A m \in 1 .. Len(ss) : at[m] \in Nat
  BY <1>1
<1>3. at[i] + Len(ss[i]) <= Len(text) /\ \A k \in 1 .. Len(ss[i]) : text[at[i] + k] = ss[i][k]
  BY DEF Joint
<1>4. (i = Len(ss) => Len(text) = at[i] + Len(ss[i])) /\ (i = 1 => at[i] = 0)
  BY <1>1 DEF Joint
<1>5. ASSUME i # Len(ss)
      PROVE  /\ i + 1 \in 1 .. Len(ss) /\ at[i + 1] = at[i] + Len(ss[i]) + 1
             /\ at[i + 1] \in 1 .. Len(text) /\ text[at[i + 1]] = separator
  <2>1. i + 1 \in 1 .. Len(ss) /\ i + 1 # 1 /\ (i + 1) - 1 = i
    BY <1>0, <1>5
  <2>2. at[i + 1] = at[i] + Len(ss[i]) + 1 /\ text[at[i + 1]] = separator
    BY <2>1 DEF Joint
  <2>3. at[i + 1] + Len(ss[i + 1]) <= Len(text)
    BY <2>1 DEF Joint
  <2>4. PICK x, y, l, m, t : /\ x = at[i] /\ y = at[i + 1] /\ l = Len(ss[i])
                             /\ m = Len(ss[i + 1]) /\ t = Len(text)
    OBVIOUS
  <2>5. /\ x \in Nat /\ y \in Nat /\ l \in Nat /\ m \in Nat /\ t \in Nat
        /\ y = x + l + 1 /\ y + m <= t
    BY <1>0, <1>2, <2>1, <2>2, <2>3, <2>4
  <2>6. y \in 1 .. t
    BY <2>5
  <2> QED BY <2>1, <2>2, <2>4, <2>6
<1> QED BY <1>0, <1>2, <1>3, <1>4, <1>5 DEF JointFrom

LEMMA PlacesFact ==
  ASSUME NEW ls \in Seq(Seq(Seq(Character)) \ {<< >>}), ls # << >>,
         NEW end \in {<< >>, <<NewLine>>}
  PROVE  \E at : Places(ls, TextOf(ls) \o end, at)
<1> DEFINE n == Len(ls)
           strings == [i \in 1 .. n |-> Joined(ls[i], Comma)]
           rest == TextOf(ls)
           text == rest \o end
           inner == [i \in 1 .. n |-> CHOOSE a : Joint(ls[i], Comma, a, strings[i])]
<1>0. /\ Comma \in Character /\ NewLine \in Character /\ n \in Nat
      /\ \A i \in 1 .. n : ls[i] \in Seq(Seq(Character)) /\ ls[i] # << >>
  BY ThesaurusAssumption DEF Delimiters
<1>1. \A i \in 1 .. n : /\ strings[i] \in Seq(Character)
                        /\ Joint(ls[i], Comma, inner[i], strings[i])
  <2> SUFFICES ASSUME NEW i \in 1 .. n
               PROVE  /\ strings[i] \in Seq(Character)
                      /\ Joint(ls[i], Comma, inner[i], strings[i])
    OBVIOUS
  <2>1. /\ Joined(ls[i], Comma) \in Seq(Character)
        /\ \E a : Joint(ls[i], Comma, a, Joined(ls[i], Comma))
    BY <1>0, JoinedFact
  <2>2. strings[i] = Joined(ls[i], Comma)
    OBVIOUS
  <2>3. inner[i] = CHOOSE a : Joint(ls[i], Comma, a, strings[i])
    OBVIOUS
  <2> HIDE DEF inner, strings
  <2> QED BY <2>1, <2>2, <2>3
<1>2. strings \in Seq(Seq(Character)) /\ Len(strings) = n
  <2>1. strings \in [1 .. n -> Seq(Character)]
    BY <1>1
  <2> HIDE DEF strings, n
  <2> QED BY <1>0, <2>1
<1>3. rest = Joined(strings, NewLine)
  BY DEF TextOf
<1> HIDE DEF inner, strings, rest
<1>4. rest \in Seq(Character) /\ \E b : Joint(strings, NewLine, b, rest)
  BY <1>0, <1>2, <1>3, JoinedFact
<1>5. PICK b : Joint(strings, NewLine, b, rest)
  BY <1>4
<1>6. /\ Len(rest) \in Nat /\ Len(text) \in Nat
      /\ \A k \in 1 .. Len(rest) : text[k] = rest[k]
      /\ Len(text) = Len(rest) \/ (Len(text) = Len(rest) + 1 /\ text[Len(rest) + 1] = NewLine)
  <2>1. CASE end = << >>
    BY <1>4, <2>1
  <2>2. CASE end = <<NewLine>>
    <3>1. <<NewLine>> \in Seq(Character) /\ Len(<<NewLine>>) = 1 /\ <<NewLine>>[1] = NewLine
      BY <1>0
    <3> QED BY <1>4, <2>2, <3>1
  <2> QED BY <2>1, <2>2
<1> HIDE DEF text, n
<1> DEFINE at == [i \in 1 .. n |-> [j \in 1 .. Len(ls[i]) |-> b[i] + inner[i][j]]]
<1>7. \A i \in 1 .. n : \A j \in 1 .. Len(ls[i]) : at[i][j] = b[i] + inner[i][j]
  OBVIOUS
<1> HIDE DEF at
<1>8. ASSUME NEW i \in 1 .. n
      PROVE  /\ b[i] \in Nat /\ Len(strings[i]) \in Nat /\ b[i] + Len(strings[i]) <= Len(rest)
             /\ \A k \in 1 .. Len(strings[i]) : text[b[i] + k] = strings[i][k]
             /\ i # n => /\ i + 1 \in 1 .. n /\ b[i + 1] = b[i] + Len(strings[i]) + 1
                         /\ text[b[i + 1]] = NewLine
             /\ i = n => Len(rest) = b[i] + Len(strings[i])
             /\ i = 1 => b[i] = 0
  <2>1. /\ b[i] \in Nat /\ Len(strings[i]) \in Nat /\ b[i] + Len(strings[i]) <= Len(rest)
        /\ \A k \in 1 .. Len(strings[i]) : rest[b[i] + k] = strings[i][k]
        /\ i # n => /\ i + 1 \in 1 .. n /\ b[i + 1] = b[i] + Len(strings[i]) + 1
                    /\ b[i + 1] \in 1 .. Len(rest) /\ rest[b[i + 1]] = NewLine
        /\ i = n => Len(rest) = b[i] + Len(strings[i])
        /\ i = 1 => b[i] = 0
    <3>1. JointFrom(strings, NewLine, b, rest, i)
      BY <1>2, <1>4, <1>5, JointAt
    <3> QED BY <1>2, <3>1 DEF JointFrom
  <2>2. \A k \in 1 .. Len(strings[i]) : b[i] + k \in 1 .. Len(rest)
    <3>1. PICK x, l, r : x = b[i] /\ l = Len(strings[i]) /\ r = Len(rest)
      OBVIOUS
    <3>2. x \in Nat /\ l \in Nat /\ r \in Nat /\ x + l <= r
      BY <1>6, <2>1, <3>1
    <3>3. \A k \in 1 .. l : x + k \in 1 .. r
      BY <3>2
    <3> QED BY <3>1, <3>3
  <2> QED BY <1>6, <2>1, <2>2
<1>9. ASSUME NEW i \in 1 .. n, NEW j \in 1 .. Len(ls[i])
      PROVE  /\ inner[i][j] \in Nat /\ Len(ls[i][j]) \in Nat
             /\ inner[i][j] + Len(ls[i][j]) <= Len(strings[i])
             /\ \A k \in 1 .. Len(ls[i][j]) : strings[i][inner[i][j] + k] = ls[i][j][k]
             /\ j # Len(ls[i]) => /\ j + 1 \in 1 .. Len(ls[i])
                                  /\ inner[i][j + 1] = inner[i][j] + Len(ls[i][j]) + 1
                                  /\ inner[i][j + 1] \in 1 .. Len(strings[i])
                                  /\ strings[i][inner[i][j + 1]] = Comma
             /\ j = Len(ls[i]) => Len(strings[i]) = inner[i][j] + Len(ls[i][j])
             /\ j = 1 => inner[i][j] = 0
  <2>1. PICK a, t, s : a = inner[i] /\ t = ls[i] /\ s = strings[i]
    OBVIOUS
  <2>2. Joint(t, Comma, a, s) /\ t \in Seq(Seq(Character)) /\ s \in Seq(Character)
    BY <1>0, <1>1, <2>1
  <2>3. j \in 1 .. Len(t)
    BY <2>1
  <2>4. /\ a[j] \in Nat /\ Len(t[j]) \in Nat /\ a[j] + Len(t[j]) <= Len(s)
        /\ \A k \in 1 .. Len(t[j]) : s[a[j] + k] = t[j][k]
        /\ j # Len(t) => /\ j + 1 \in 1 .. Len(t) /\ a[j + 1] = a[j] + Len(t[j]) + 1
                         /\ a[j + 1] \in 1 .. Len(s) /\ s[a[j + 1]] = Comma
        /\ j = Len(t) => Len(s) = a[j] + Len(t[j])
        /\ j = 1 => a[j] = 0
    <3>1. JointFrom(t, Comma, a, s, j)
      BY <2>2, <2>3, JointAt
    <3> QED BY <3>1 DEF JointFrom
  <2> QED BY <2>1, <2>4
<1>10. ASSUME NEW i \in 1 .. n, NEW j \in 1 .. Len(ls[i])
       PROVE  LET e == at[i][j] + Len(ls[i][j])
              IN  /\ at[i][j] \in Nat /\ e <= Len(text)
                  /\ \A k \in 1 .. Len(ls[i][j]) : text[at[i][j] + k] = ls[i][j][k]
                  /\ j # Len(ls[i]) => at[i][j + 1] = e + 1 /\ text[e + 1] = Comma
                  /\ j = Len(ls[i]) /\ i # n => at[i + 1][1] = e + 1 /\ text[e + 1] = NewLine
                  /\ j = Len(ls[i]) /\ i = n =>
                       Len(text) = e \/ (Len(text) = e + 1 /\ text[e + 1] = NewLine)
                  /\ i = 1 /\ j = 1 => at[i][j] = 0
  <2>1. PICK x, y, l, m, r, z : /\ x = b[i] /\ y = inner[i][j] /\ l = Len(ls[i][j])
                                /\ m = Len(strings[i]) /\ r = Len(rest) /\ z = Len(text)
    OBVIOUS
  <2>2. /\ x \in Nat /\ y \in Nat /\ l \in Nat /\ m \in Nat /\ r \in Nat /\ z \in Nat
        /\ y + l <= m /\ x + m <= r /\ r <= z /\ at[i][j] = x + y
    <3>1. /\ x \in Nat /\ m \in Nat /\ x + m <= r /\ r \in Nat /\ z \in Nat
      BY <1>6, <1>8, <2>1
    <3>2. y \in Nat /\ l \in Nat /\ y + l <= m
      BY <1>9, <2>1
    <3>3. at[i][j] = x + y
      BY <1>7, <2>1
    <3>4. z = r \/ z = r + 1
      BY <1>6, <2>1
    <3> QED BY <3>1, <3>2, <3>3, <3>4
  <2>3. x + y \in Nat /\ (x + y) + l <= z
    BY <2>2
  <2>4. \A k \in 1 .. l : text[(x + y) + k] = ls[i][j][k]
    <3> SUFFICES ASSUME NEW k \in 1 .. l PROVE text[(x + y) + k] = ls[i][j][k]
      OBVIOUS
    <3>1. y + k \in 1 .. m /\ x + (y + k) = (x + y) + k
      BY <2>2
    <3>2. text[x + (y + k)] = strings[i][y + k]
      BY <1>8, <2>1, <3>1
    <3>3. strings[i][y + k] = ls[i][j][k]
      BY <1>9, <2>1
    <3> QED BY <3>1, <3>2, <3>3
  <2>5. j # Len(ls[i]) => at[i][j + 1] = (x + y) + l + 1 /\ text[(x + y) + l + 1] = Comma
    <3> SUFFICES ASSUME j # Len(ls[i])
                 PROVE  at[i][j + 1] = (x + y) + l + 1 /\ text[(x + y) + l + 1] = Comma
      OBVIOUS
    <3>1. /\ j + 1 \in 1 .. Len(ls[i]) /\ inner[i][j + 1] = y + l + 1
          /\ inner[i][j + 1] \in 1 .. m /\ strings[i][inner[i][j + 1]] = Comma
      BY <1>9, <2>1
    <3>2. at[i][j + 1] = x + inner[i][j + 1]
      BY <1>7, <2>1, <3>1
    <3>3. x + (y + l + 1) = (x + y) + l + 1
      BY <2>2
    <3>4. text[x + inner[i][j + 1]] = Comma
      BY <1>8, <2>1, <3>1
    <3> QED BY <3>1, <3>2, <3>3, <3>4
  <2>6. j = Len(ls[i]) /\ i # n =>
          at[i + 1][1] = (x + y) + l + 1 /\ text[(x + y) + l + 1] = NewLine
    <3> SUFFICES ASSUME j = Len(ls[i]), i # n
                 PROVE  at[i + 1][1] = (x + y) + l + 1 /\ text[(x + y) + l + 1] = NewLine
      OBVIOUS
    <3>1. m = y + l
      BY <1>9, <2>1
    <3>2. i + 1 \in 1 .. n /\ b[i + 1] = x + m + 1 /\ text[b[i + 1]] = NewLine
      BY <1>8, <2>1
    <3>3. 1 \in 1 .. Len(ls[i + 1])
      BY <1>0, <3>2
    <3>4. at[i + 1][1] = b[i + 1] + 0
      <4>1. inner[i + 1][1] = 0
        BY <1>9, <3>2, <3>3
      <4>2. at[i + 1][1] = b[i + 1] + inner[i + 1][1]
        BY <1>7, <3>2, <3>3
      <4> QED BY <4>1, <4>2
    <3>5. x + m + 1 = (x + y) + l + 1 /\ (x + y) + l + 1 = ((x + y) + l + 1) + 0
      BY <2>2, <3>1
    <3> QED BY <3>2, <3>4, <3>5
  <2>7. j = Len(ls[i]) /\ i = n =>
          z = (x + y) + l \/ (z = (x + y) + l + 1 /\ text[(x + y) + l + 1] = NewLine)
    <3> SUFFICES ASSUME j = Len(ls[i]), i = n
                 PROVE  z = (x + y) + l \/ (z = (x + y) + l + 1 /\ text[(x + y) + l + 1] = NewLine)
      OBVIOUS
    <3>1. m = y + l /\ r = x + m
      BY <1>8, <1>9, <2>1
    <3>2. r = (x + y) + l
      BY <2>2, <3>1
    <3> QED BY <1>6, <2>1, <3>2
  <2>8. i = 1 /\ j = 1 => x + y = 0
    BY <1>8, <1>9, <2>1
  <2> QED BY <2>1, <2>2, <2>3, <2>4, <2>5, <2>6, <2>7, <2>8
<1>11. Places(ls, text, at)
  BY <1>10 DEF Places, n
<1> QED BY <1>11 DEF text, rest

LEMMA DelimiterToken ==
  ASSUME NEW s, IsTokenizer(s), s.pos < Len(s.text), ~Plain(s.text, s.pos + 1),
         NEW next, next = STNextToken(s, Delimiters, FALSE)
  PROVE  /\ next.ok /\ next.st.text = s.text /\ next.st.pos = s.pos + 1
         /\ next.st.buffer[1] = s.text[s.pos + 1]
<1>0. s.text \in Seq(Character) /\ Len(s.text) \in Nat /\ s.pos \in Nat
  BY DEF IsTokenizer
<1>1. s.pos # Len(s.text) /\ s.pos + 1 \in 1 .. Len(s.text)
  BY <1>0
<1>2. /\ next.ok /\ next.st.text = s.text
      /\ next.st.buffer = SubSeq(s.text, s.pos + 1, next.st.pos)
      /\ next.st.pos \in s.pos + 1 .. Len(s.text)
      /\ \/ next.st.pos = s.pos + 1
         \/ \A i \in s.pos + 1 .. next.st.pos : Plain(s.text, i)
  BY <1>1, TokenFact
<1>3. s.pos + 1 \in s.pos + 1 .. next.st.pos
  <2>1. PICK m, e, n : m = s.pos /\ e = next.st.pos /\ n = Len(s.text)
    OBVIOUS
  <2>2. m \in Nat /\ n \in Nat /\ e \in m + 1 .. n
    BY <1>0, <1>2, <2>1
  <2>3. m + 1 \in m + 1 .. e
    BY <2>2
  <2> QED BY <2>1, <2>3
<1>4. next.st.pos = s.pos + 1
  BY <1>2, <1>3
<1>5. SubSeq(s.text, s.pos + 1, s.pos + 1)[1] = s.text[s.pos + 1]
  <2>1. PICK t, m : t = s.text /\ m = s.pos + 1
    OBVIOUS
  <2>2. t \in Seq(Character) /\ m \in 1 .. Len(t)
    BY <1>0, <1>1, <2>1
  <2>3. SubSeq(t, m, m)[1] = t[m]
    BY <2>2
  <2> QED BY <2>1, <2>3
<1> QED BY <1>2, <1>4, <1>5

(***************************************************************************)
(* The string comes next, and a delimiter or the end of the file after it. *)
(***************************************************************************)
ComesNext(s, str) ==
  /\ s.pos + Len(str) <= Len(s.text)
  /\ \A k \in 1 .. Len(str) : s.text[s.pos + k] = str[k]
  /\ s.pos + Len(str) = Len(s.text) \/ ~Plain(s.text, s.pos + Len(str) + 1)

LEMMA StringToken ==
  ASSUME NEW s, IsTokenizer(s), NEW str \in Seq(Character), IsString(str), ComesNext(s, str),
         NEW next, next = STNextToken(s, Delimiters, FALSE)
  PROVE  /\ next.ok /\ next.st.text = s.text /\ next.st.pos = s.pos + Len(str)
         /\ next.st.buffer = str
<1> DEFINE p == s.pos
           q == next.st.pos
           n == Len(s.text)
           l == Len(str)
           text == s.text
<1>0. /\ text \in Seq(Character) /\ n \in Nat /\ p \in 0 .. n /\ l \in Nat /\ l >= 1
      /\ l <= BufferLength - 1 /\ BufferLength \in Nat /\ p + l <= n
      /\ \A k \in 1 .. l : str[k] \notin Delimiters
  BY TokenizerAssumption DEF IsTokenizer, IsString, ComesNext
<1>1. p # n /\ p + 1 \in 1 .. n
  BY <1>0
<1>2. ASSUME NEW i \in p + 1 .. p + l PROVE Plain(text, i)
  <2>1. i - p \in 1 .. l /\ p + (i - p) = i
    BY <1>0
  <2>2. text[p + (i - p)] = str[i - p]
    BY <2>1 DEF ComesNext
  <2> QED BY <1>0, <2>1, <2>2 DEF Plain
<1>3. Plain(text, p + 1)
  <2>1. p + 1 \in p + 1 .. p + l
    BY <1>0
  <2> QED BY <1>2, <2>1
<1>4. /\ next.ok /\ next.st.text = text
      /\ next.st.buffer = SubSeq(text, p + 1, q) /\ q \in p + 1 .. n
      /\ \A i \in p + 1 .. q : Plain(text, i)
      /\ q - p <= BufferLength - 1
      /\ q = n \/ ~Plain(text, q + 1) \/ q - p = BufferLength - 1
  BY <1>1, <1>3, TokenFact
<1>5. p + l = n \/ ~Plain(text, p + l + 1)
  BY DEF ComesNext
<1>10. n = Len(text)
  OBVIOUS
<1> HIDE DEF p, q, n, l, text
<1>6. q <= p + l
  <2> SUFFICES ASSUME q > p + l PROVE FALSE
    BY <1>0, <1>4
  <2>1. p + l + 1 \in p + 1 .. q /\ p + l # n
    BY <1>0, <1>4
  <2> QED BY <1>4, <1>5, <2>1
<1>7. q >= p + l
  <2> SUFFICES ASSUME q < p + l PROVE FALSE
    BY <1>0, <1>4
  <2>1. q # n /\ q + 1 \in p + 1 .. p + l /\ q - p # BufferLength - 1
    BY <1>0, <1>4
  <2> QED BY <1>2, <1>4, <2>1
<1>8. q = p + l
  <2>1. q \in Int /\ p \in Int /\ l \in Int
    BY <1>0, <1>4
  <2> QED BY <1>6, <1>7, <2>1
<1>9. SubSeq(text, p + 1, p + l) = str
  <2>1. p + 1 \in 1 .. n /\ p + l \in p + 1 .. n
    BY <1>0
  <2>2. /\ SubSeq(text, p + 1, p + l) \in Seq(Character) /\ Len(SubSeq(text, p + 1, p + l)) = l
        /\ \A k \in 1 .. l : SubSeq(text, p + 1, p + l)[k] = text[(p + 1) + k - 1]
    <3>1. PICK e, m : e = p + l /\ m = p + 1
      OBVIOUS
    <3>2. m \in 1 .. Len(text) /\ e \in m .. Len(text) /\ text \in Seq(Character)
      BY <1>0, <1>10, <2>1, <3>1
    <3>3. e - m + 1 = l
      BY <1>0, <3>1
    <3>4. /\ SubSeq(text, m, e) \in Seq(Character) /\ Len(SubSeq(text, m, e)) = e - m + 1
          /\ \A k \in 1 .. e - m + 1 : SubSeq(text, m, e)[k] = text[m + k - 1]
      BY <3>2
    <3> QED BY <3>1, <3>3, <3>4
  <2>3. \A k \in 1 .. l : text[(p + 1) + k - 1] = str[k]
    <3>1. \A k \in 1 .. l : (p + 1) + k - 1 = p + k
      BY <1>0
    <3>2. \A k \in 1 .. l : text[p + k] = str[k]
      BY DEF text, p, l, ComesNext
    <3> QED BY <3>1, <3>2
  <2>4. \A x, y \in Seq(Character) : (Len(x) = Len(y) /\ \A k \in 1 .. Len(x) : x[k] = y[k]) => x = y
    OBVIOUS
  <2> HIDE DEF IsString
  <2> QED BY <2>2, <2>3, <2>4 DEF l
<1> QED BY <1>4, <1>8, <1>9 DEF p, q, n, l, text
-----------------------------------------------------------------------------
(***************************************************************************)
(* An entry keeps the beginning of a line, or all of it.                   *)
(***************************************************************************)
Keeps(hp, line, e) ==
  /\ e.synonyms.logLen + 1 <= Len(line)
  /\ hp[e.word].string = line[1]
  /\ \A p \in Position(e.synonyms) : hp[e.synonyms.slot[p]].string = line[p + 2]

KeepsAll(hp, line, e) == Keeps(hp, line, e) /\ e.synonyms.logLen + 1 = Len(line)

(***************************************************************************)
(* Where the i-th line begins in the text.                                 *)
(***************************************************************************)
LineStart(at, i) == IF i <= Len(lines) THEN at[i][1] ELSE Len(st.text)

(***************************************************************************)
(* How far the file has been read: the lines before the i-th are entered,  *)
(* and the entry being built keeps the first j strings of the i-th.        *)
(***************************************************************************)
Line == Len(entry) + 1

Kept == current.synonyms.logLen + 1

ReadTo(at) ==
  /\ pc \in {"open", "word", "exit"} => Line <= Len(lines) + 1 /\ st.pos = LineStart(at, Line)
  /\ pc = "comma" => /\ Line <= Len(lines) /\ Keeps(heap, lines[Line], current)
                     /\ st.pos = at[Line][Kept] + Len(lines[Line][Kept])
  /\ pc = "synonym" => /\ Line <= Len(lines) /\ Keeps(heap, lines[Line], current)
                       /\ Kept # Len(lines[Line]) /\ st.pos = at[Line][Kept + 1]
  /\ pc = "enter" => /\ Line <= Len(lines) /\ KeepsAll(heap, lines[Line], current)
                     /\ st.pos = LineStart(at, Line + 1)
  /\ pc \in {"query", "aborted", "done"} => Line = Len(lines) + 1

LinesEntered ==
  \A n \in DOMAIN entry : /\ n \in DOMAIN lines /\ KeepsAll(heap, lines[n], entry[n])
                          /\ entered[n] = lines[n][1]

FileRead == WellFormedFile => LinesEntered /\ \E at : Places(lines, st.text, at) /\ ReadTo(at)

Answering ==
  /\ lines \in Source
  /\ \E t \in Typed : \E n \in 0 .. Len(t) : response = SubSeq(t, 1, n)
  /\ pc \notin {"query", "aborted", "done"} => answer = NoReply
  /\ pc \in {"open", "exit", "word", "comma", "synonym", "enter", "query", "aborted", "done"}
  /\ AnswersFaithful

ReadInv == OwnInv /\ FileRead /\ Answering

LEMMA KeepsFact ==
  ASSUME NEW A, NEW e, Sound(e, A), NEW hp, NEW hq, NEW line,
         \A a \in A : hq[a].string = hp[a].string
  PROVE  /\ Keeps(hp, line, e) => Keeps(hq, line, e)
         /\ KeepsAll(hp, line, e) => KeepsAll(hq, line, e)
<1>1. e.word \in A /\ \A p \in Position(e.synonyms) : e.synonyms.slot[p] \in A
  BY DEF Sound, WellFormed, IsVector
<1> QED BY <1>1 DEF Keeps, KeepsAll

LEMMA StringsStay ==
  ASSUME NEW hp \in Seq(Cell), NEW ents, NEW elems
  PROVE  \A a \in 1 .. Len(hp) : ThesEntryFree(hp, ents, elems)[a].string = hp[a].string
<1> SUFFICES ASSUME NEW a \in 1 .. Len(hp)
             PROVE  ThesEntryFree(hp, ents, elems)[a].string = hp[a].string
  OBVIOUS
<1> DEFINE c == Cardinality({e \in elems : a \in {ents[e.id].word} \cup
                  {ents[e.id].synonyms.slot[p] : p \in Position(ents[e.id].synonyms)}})
<1>1. ThesEntryFree(hp, ents, elems)[a] = [hp[a] EXCEPT !.frees = @ + c]
  BY DEF ThesEntryFree
<1> HIDE DEF c
<1>2. PICK string \in Seq(Character), frees \in Nat : hp[a] = [string |-> string, frees |-> frees]
  <2>1. hp[a] \in Cell
    OBVIOUS
  <2> QED BY <2>1 DEF Cell
<1>3. ThesEntryFree(hp, ents, elems)[a] = [string |-> string, frees |-> frees + c]
  BY <1>1, <1>2
<1> QED BY <1>2, <1>3

LEMMA FileShape ==
  ASSUME lines \in Source
  PROVE  /\ lines \in Seq(Seq(Seq(Character)) \ {<< >>}) /\ Len(lines) \in Nat
         /\ DOMAIN lines = 1 .. Len(lines)
         /\ \A i \in 1 .. Len(lines) :
              /\ lines[i] \in Seq(Seq(Character)) /\ Len(lines[i]) \in Nat \ {0}
              /\ \A j \in 1 .. Len(lines[i]) : /\ lines[i][j] \in Seq(Character)
                                               /\ Len(lines[i][j]) \in Nat
<1>1. lines \in Seq(Seq(Seq(Character)) \ {<< >>})
  BY ThesaurusAssumption
<1>2. Len(lines) \in Nat /\ DOMAIN lines = 1 .. Len(lines)
      /\ \A i \in 1 .. Len(lines) : lines[i] \in Seq(Seq(Character)) /\ lines[i] # << >>
  BY <1>1
<1>3. ASSUME NEW line \in Seq(Seq(Character)), line # << >>
      PROVE  /\ Len(line) \in Nat \ {0}
             /\ \A j \in 1 .. Len(line) : line[j] \in Seq(Character) /\ Len(line[j]) \in Nat
  BY <1>3
<1> QED BY <1>1, <1>2, <1>3

(***************************************************************************)
(* A string of a well-formed file is a token.                              *)
(***************************************************************************)
LEMMA StringRead ==
  ASSUME IsTokenizer(st), WellFormedFile, lines \in Source, NEW at, Places(lines, st.text, at),
         NEW i \in 1 .. Len(lines), NEW j \in 1 .. Len(lines[i]), st.pos = at[i][j]
  PROVE  /\ NextToken.ok /\ NextToken.st.text = st.text /\ NextToken.st.buffer = lines[i][j]
         /\ NextToken.st.pos = at[i][j] + Len(lines[i][j])
<1> DEFINE str == lines[i][j]
           end == at[i][j] + Len(str)
<1>1. str \in Seq(Character) /\ Len(str) \in Nat
  BY FileShape
<1>2. IsString(str)
  BY DEF WellFormedFile
<1>3. /\ end <= Len(st.text) /\ \A k \in 1 .. Len(str) : st.text[at[i][j] + k] = str[k]
      /\ j # Len(lines[i]) => st.text[end + 1] = Comma
      /\ j = Len(lines[i]) /\ i # Len(lines) => st.text[end + 1] = NewLine
      /\ j = Len(lines[i]) /\ i = Len(lines) =>
           Len(st.text) = end \/ st.text[end + 1] = NewLine
  BY DEF Places
<1>4. end = Len(st.text) \/ ~Plain(st.text, end + 1)
  <2> HIDE DEF end
  <2> QED BY <1>3 DEF Plain, Delimiters
<1>5. PICK s, x : s = st /\ x = str
  OBVIOUS
<1>6. IsTokenizer(s) /\ x \in Seq(Character) /\ IsString(x) /\ ComesNext(s, x)
  BY <1>1, <1>2, <1>3, <1>4, <1>5 DEF ComesNext
<1>7. PICK next : next = STNextToken(s, Delimiters, FALSE)
  OBVIOUS
<1>8. next.ok /\ next.st.text = s.text /\ next.st.pos = s.pos + Len(x) /\ next.st.buffer = x
  BY <1>6, <1>7, StringToken
<1>9. next = NextToken
  BY <1>5, <1>7 DEF NextToken
<1> QED BY <1>5, <1>8, <1>9

LEMMA ReadInit == Init => ReadInv
<1> SUFFICES ASSUME Init PROVE ReadInv
  OBVIOUS
<1>1. OwnInv
  BY OwnInit
<1>2. lines \in Source /\ entry = << >> /\ pc = "open" /\ answer = NoReply /\ response \in Typed
  BY DEF Init
<1>3. PICK end \in {<< >>, <<NewLine>>} : st = STNew(TextOf(lines) \o end)
  BY DEF Init
<1>4. ASSUME WellFormedFile
      PROVE  \E at : Places(lines, st.text, at) /\ ReadTo(at)
  <2>1. lines # << >> /\ lines \in Seq(Seq(Seq(Character)) \ {<< >>})
    BY <1>2, <1>4, FileShape DEF WellFormedFile
  <2>2. st.text = TextOf(lines) \o end /\ st.pos = 0
    BY <1>3 DEF STNew
  <2>3. PICK at : Places(lines, st.text, at)
    BY <2>1, <2>2, PlacesFact
  <2>4. 1 \in 1 .. Len(lines) /\ 1 \in 1 .. Len(lines[1])
    <3>1. Len(lines) \in Nat /\ Len(lines) # 0
      BY <2>1
    <3>2. 1 \in 1 .. Len(lines)
      BY <3>1
    <3> QED BY <1>2, <3>2, FileShape
  <2>5. at[1][1] = 0
    BY <2>3, <2>4 DEF Places
  <2>6. Line = 1 /\ LineStart(at, Line) = 0 /\ 1 <= Len(lines) + 1
    BY <1>2, <2>4, <2>5 DEF Line, LineStart
  <2> QED BY <1>2, <2>2, <2>3, <2>6 DEF ReadTo
<1>5. FileRead
  BY <1>2, <1>4 DEF FileRead, LinesEntered
<1>6. \E t \in Typed : \E n \in 0 .. Len(t) : response = SubSeq(t, 1, n)
  <2>1. PICK t : t = response
    OBVIOUS
  <2>2. t \in Seq(Character) /\ t \in Typed
    BY <1>2, <2>1, ThesaurusAssumption
  <2>3. Len(t) \in 0 .. Len(t) /\ SubSeq(t, 1, Len(t)) = t
    BY <2>2
  <2> QED BY <2>1, <2>2, <2>3
<1>7. Answering
  BY <1>2, <1>6 DEF Answering, AnswersFaithful
<1> QED BY <1>1, <1>5, <1>7 DEF ReadInv
-----------------------------------------------------------------------------
(***************************************************************************)
(* What the invariant says at a step, of a file that is well-formed: used  *)
(* by the lemmas on the steps that read it.                                *)
(***************************************************************************)
LEMMA ReadFact ==
  ASSUME ReadInv
  PROVE  /\ IsTokenizer(st) /\ heap \in Seq(Cell) /\ lines \in Source
         /\ \A n \in DOMAIN entry : Sound(entry[n], Address)
         /\ Building => Sound(current, Address)
         /\ entered \in Seq(Key) /\ Len(entry) = Len(entered) /\ Line \in Nat
         /\ DOMAIN entry = 1 .. Len(entry) /\ DOMAIN entered = 1 .. Len(entry) /\ Len(entry) \in Nat
<1>1. HeldInv /\ HeapShape /\ EntriesSound
  BY DEF ReadInv, OwnInv
<1>2. entered \in Seq(Key) /\ Len(entry) = Len(entered) /\ \E S : entry \in Seq(S)
  BY <1>1, HeldFact DEF HeapShape
<1> QED BY <1>1, <1>2 DEF ReadInv, HeapShape, EntriesSound, Line, Answering

(***************************************************************************)
(* A step that enters nothing keeps what has been entered.                 *)
(***************************************************************************)
LEMMA EnteredStays ==
  ASSUME ReadInv, WellFormedFile, UNCHANGED <<lines, entry, entered>>,
         \A a \in Address : heap'[a].string = heap[a].string
  PROVE  LinesEntered'
<1>1. LinesEntered
  BY DEF ReadInv, FileRead
<1>2. \A n \in DOMAIN entry : /\ n \in DOMAIN lines /\ KeepsAll(heap', lines[n], entry[n])
                              /\ entered[n] = lines[n][1]
  <2> SUFFICES ASSUME NEW n \in DOMAIN entry
               PROVE  /\ n \in DOMAIN lines /\ KeepsAll(heap', lines[n], entry[n])
                      /\ entered[n] = lines[n][1]
    OBVIOUS
  <2>1. /\ n \in DOMAIN lines /\ KeepsAll(heap, lines[n], entry[n])
        /\ entered[n] = lines[n][1]
    BY <1>1 DEF LinesEntered
  <2>2. Sound(entry[n], Address)
    BY ReadFact
  <2>3. PICK hq : hq = heap'
    OBVIOUS
  <2>4. KeepsAll(hq, lines[n], entry[n])
    BY <2>1, <2>2, <2>3, KeepsFact
  <2> QED BY <2>1, <2>3, <2>4
<1> QED BY <1>2 DEF LinesEntered

LEMMA TokenFound ==
  ASSUME IsTokenizer(st)
  PROVE  IF st.pos = Len(st.text) THEN ~NextToken.ok /\ NextToken.st = st
         ELSE NextToken.ok /\ st.pos < Len(st.text)
<1>1. PICK next : next = NextToken
  OBVIOUS
<1>2. \/ st.pos = Len(st.text) /\ ~next.ok /\ next.st = st
      \/ st.pos < Len(st.text) /\ next.ok
  BY <1>1, TokenFact DEF NextToken
<1>3. Len(st.text) \in Nat /\ st.pos \in Nat
  BY DEF IsTokenizer
<1>4. CASE st.pos = Len(st.text)
  BY <1>1, <1>2, <1>3, <1>4
<1>5. CASE st.pos # Len(st.text)
  BY <1>1, <1>2, <1>5
<1> QED BY <1>4, <1>5

LEMMA FileReadWord ==
  ASSUME ReadInv, ReadWord
  PROVE  FileRead'
<1> SUFFICES ASSUME WellFormedFile
             PROVE  LinesEntered' /\ \E at : Places(lines, st'.text, at) /\ ReadTo(at)'
  BY DEF FileRead, WellFormedFile, ReadWord
<1>1. /\ pc = "word" /\ pc' = "comma" /\ NextToken.ok /\ st' = NextToken.st
      /\ current' = [word |-> NewAddress, synonyms |-> VectorNew(InitialAllocation)]
      /\ heap' = Allocated(st'.buffer) /\ UNCHANGED <<lines, entry, entered>>
  BY DEF ReadWord, setVars
<1>2. /\ IsTokenizer(st) /\ heap \in Seq(Cell) /\ lines \in Source /\ Line \in Nat
      /\ Len(entry) \in Nat
  BY ReadFact
<1>3. PICK at : Places(lines, st.text, at) /\ ReadTo(at)
  BY DEF ReadInv, FileRead
<1> DEFINE i == Line
<1>4. /\ i <= Len(lines) + 1 /\ st.pos = LineStart(at, i)
  BY <1>1, <1>3 DEF ReadTo
<1>5. st.pos # Len(st.text)
  BY <1>1, <1>2, TokenFound
<1>6. i \in 1 .. Len(lines) /\ 1 \in 1 .. Len(lines[i]) /\ st.pos = at[i][1]
  <2>1. i <= Len(lines)
    BY <1>4, <1>5 DEF LineStart
  <2>2. i \in 1 .. Len(lines)
    BY <1>2, <2>1, FileShape DEF Line
  <2>3. 1 \in 1 .. Len(lines[i])
    BY <1>2, <2>2, FileShape
  <2> QED BY <1>4, <2>1, <2>2, <2>3 DEF LineStart
<1> HIDE DEF i
<1>7. /\ st'.text = st.text /\ st'.buffer = lines[i][1] /\ st'.pos = at[i][1] + Len(lines[i][1])
  BY <1>1, <1>2, <1>3, <1>6, StringRead
<1>8. /\ \A a \in Address : heap'[a] = heap[a]
      /\ heap'[NewAddress].string = lines[i][1]
  <2>1. lines[i][1] \in Seq(Character)
    BY <1>2, <1>6, FileShape
  <2>2. PICK s : s = lines[i][1]
    OBVIOUS
  <2>3. s \in Seq(Character) /\ heap' = Allocated(s)
    BY <1>1, <1>7, <2>1, <2>2
  <2> QED BY <1>2, <2>2, <2>3, AllocatedFact
<1>9. /\ current'.word = NewAddress /\ current'.synonyms.logLen = 0
  <2>1. InitialAllocation \in Nat
    BY ThesaurusAssumption
  <2>2. VectorNew(InitialAllocation).logLen = 0
    BY <2>1, NewFact
  <2> QED BY <1>1, <2>2
<1>10. Keeps(heap', lines[i], current') /\ Kept' = 1
  <2>1. PICK e : e = current'
    OBVIOUS
  <2>2. e.word = NewAddress /\ e.synonyms.logLen = 0
    BY <1>9, <2>1
  <2>3. Position(e.synonyms) = {} /\ e.synonyms.logLen + 1 <= Len(lines[i])
    BY <1>6, <2>2 DEF Position
  <2>4. Keeps(heap', lines[i], e)
    BY <1>8, <2>2, <2>3 DEF Keeps
  <2> QED BY <1>9, <2>1, <2>4 DEF Kept
<1>11. Line' = i
  BY <1>1 DEF Line, i
<1>12. ReadTo(at)'
  BY <1>1, <1>6, <1>7, <1>10, <1>11 DEF ReadTo
<1>13. LinesEntered'
  BY <1>1, <1>8, EnteredStays
<1> QED BY <1>3, <1>7, <1>12, <1>13

LEMMA FileEnd ==
  ASSUME ReadInv, EndOfFile
  PROVE  FileRead'
<1> SUFFICES ASSUME WellFormedFile
             PROVE  LinesEntered' /\ \E at : Places(lines, st'.text, at) /\ ReadTo(at)'
  BY DEF FileRead, WellFormedFile, EndOfFile
<1>1. /\ pc = "word" /\ pc' = "query" /\ ~NextToken.ok
      /\ UNCHANGED <<st, heap, lines, entry, entered, current>>
  BY DEF EndOfFile, setVars
<1>2. IsTokenizer(st) /\ lines \in Source /\ Line \in Nat /\ Line = Len(entry) + 1 /\ Len(entry) \in Nat
  BY ReadFact DEF Line
<1>3. PICK at : Places(lines, st.text, at) /\ ReadTo(at)
  BY DEF ReadInv, FileRead
<1>4. /\ Line <= Len(lines) + 1 /\ st.pos = LineStart(at, Line)
  BY <1>1, <1>3 DEF ReadTo
<1>5. st.pos = Len(st.text)
  BY <1>1, <1>2, TokenFound
<1>6. Line = Len(lines) + 1
  <2> SUFFICES ASSUME Line # Len(lines) + 1 PROVE FALSE
    OBVIOUS
  <2>1. Line \in 1 .. Len(lines)
    BY <1>2, <1>4, FileShape
  <2>2. 1 \in 1 .. Len(lines[Line])
    BY <1>2, <2>1, FileShape
  <2>3. /\ at[Line][1] \in Nat /\ at[Line][1] + Len(lines[Line][1]) <= Len(st.text)
        /\ Len(lines[Line][1]) \in 1 .. BufferLength - 1
    BY <1>3, <2>1, <2>2 DEF Places, WellFormedFile, IsString
  <2>4. Len(st.text) = at[Line][1]
    BY <1>4, <1>5, <2>1 DEF LineStart
  <2>5. PICK x, y : x = at[Line][1] /\ y = Len(lines[Line][1])
    OBVIOUS
  <2>6. x \in Nat /\ y \in 1 .. BufferLength - 1 /\ x + y <= x
    BY <2>3, <2>4, <2>5
  <2> QED BY <2>6, TokenizerAssumption
<1>7. ReadTo(at)'
  BY <1>1, <1>6 DEF ReadTo, Line
<1>8. LinesEntered'
  BY <1>1, EnteredStays
<1> QED BY <1>1, <1>3, <1>7, <1>8

LEMMA FileReadComma ==
  ASSUME ReadInv, ReadComma
  PROVE  FileRead'
<1> SUFFICES ASSUME WellFormedFile
             PROVE  LinesEntered' /\ \E at : Places(lines, st'.text, at) /\ ReadTo(at)'
  BY DEF FileRead, WellFormedFile, ReadComma
<1>1. /\ pc = "comma" /\ st' = NextToken.st
      /\ pc' = IF NextToken.ok /\ st'.buffer[1] = Comma THEN "synonym" ELSE "enter"
      /\ UNCHANGED <<heap, lines, entry, entered, current>>
  BY DEF ReadComma, setVars
<1>2. /\ IsTokenizer(st) /\ lines \in Source /\ Line \in Nat \ {0} /\ Building
      /\ Sound(current, Address)
  BY <1>1, ReadFact DEF Line, Building
<1>3. PICK at : Places(lines, st.text, at) /\ ReadTo(at)
  BY DEF ReadInv, FileRead
<1>0. PICK i, j : i = Line /\ j = Kept
  OBVIOUS
<1> DEFINE end == at[i][j] + Len(lines[i][j])
<1>4. i <= Len(lines) /\ Keeps(heap, lines[i], current) /\ st.pos = end
  BY <1>0, <1>1, <1>3 DEF ReadTo
<1>5. i \in 1 .. Len(lines) /\ j \in 1 .. Len(lines[i])
  <2>1. i \in 1 .. Len(lines)
    BY <1>0, <1>2, <1>4, FileShape
  <2>2. j <= Len(lines[i])
    BY <1>0, <1>4 DEF Keeps, Kept
  <2>3. current.synonyms.logLen \in Nat
    BY <1>2, ElementFact DEF Sound
  <2>4. Len(lines[i]) \in Nat
    BY <1>2, <2>1, FileShape
  <2>5. PICK x, y : x = current.synonyms.logLen /\ y = Len(lines[i])
    OBVIOUS
  <2>6. x + 1 \in 1 .. y
    BY <1>0, <2>2, <2>3, <2>4, <2>5 DEF Kept
  <2> QED BY <1>0, <2>1, <2>5, <2>6 DEF Kept
<1>6. /\ end <= Len(st.text)
      /\ j # Len(lines[i]) => at[i][j + 1] = end + 1 /\ st.text[end + 1] = Comma
      /\ j = Len(lines[i]) /\ i # Len(lines) =>
           at[i + 1][1] = end + 1 /\ st.text[end + 1] = NewLine
      /\ j = Len(lines[i]) /\ i = Len(lines) =>
           Len(st.text) = end \/ (Len(st.text) = end + 1 /\ st.text[end + 1] = NewLine)
  BY <1>3, <1>5 DEF Places
<1>7. Line' = i /\ Kept' = j
  BY <1>0, <1>1 DEF Line, Kept
<1>8. LinesEntered'
  BY <1>1, EnteredStays
<1>14. Len(lines) \in Nat
  BY <1>2, FileShape
<1> HIDE DEF end
<1>9. Comma # NewLine
  BY DEF Comma, NewLine
<1>10. ASSUME st.pos # Len(st.text), st.text[end + 1] \in Delimiters
       PROVE  /\ NextToken.ok /\ st'.text = st.text /\ st'.pos = end + 1
              /\ st'.buffer[1] = st.text[end + 1]
  <2>1. PICK s : s = st
    OBVIOUS
  <2>2. PICK next : next = STNextToken(s, Delimiters, FALSE)
    OBVIOUS
  <2>3. IsTokenizer(s) /\ s.pos < Len(s.text) /\ ~Plain(s.text, s.pos + 1)
    BY <1>2, <1>4, <1>10, <2>1, TokenFound DEF Plain
  <2>4. /\ next.ok /\ next.st.text = s.text /\ next.st.pos = s.pos + 1
        /\ next.st.buffer[1] = s.text[s.pos + 1]
    BY <2>2, <2>3, DelimiterToken
  <2>5. next = NextToken
    BY <2>1, <2>2 DEF NextToken
  <2> QED BY <1>1, <1>4, <2>1, <2>4, <2>5
<1>11. CASE j # Len(lines[i])
  <2>1. at[i][j + 1] = end + 1 /\ st.text[end + 1] = Comma
    BY <1>6, <1>11
  <2>2. st.pos # Len(st.text)
    <3>1. j + 1 \in 1 .. Len(lines[i])
      BY <1>2, <1>5, <1>11, FileShape
    <3>2. at[i][j + 1] + Len(lines[i][j + 1]) <= Len(st.text) /\ at[i][j + 1] \in Nat
      BY <1>3, <1>5, <3>1 DEF Places
    <3>3. Len(lines[i][j + 1]) \in Nat /\ Len(st.text) \in Nat /\ st.pos \in Nat
      BY <1>2, <1>5, <3>1, FileShape DEF IsTokenizer
    <3>4. PICK x, y, z : x = Len(lines[i][j + 1]) /\ y = Len(st.text) /\ z = st.pos
      OBVIOUS
    <3>5. x \in Nat /\ y \in Nat /\ z \in Nat /\ (z + 1) + x <= y
      BY <1>4, <2>1, <3>2, <3>3, <3>4
    <3>6. z # y
      BY <3>5
    <3> QED BY <3>4, <3>6
  <2>3. pc' = "synonym" /\ st'.text = st.text /\ st'.pos = at[i][j + 1]
    BY <1>1, <1>10, <2>1, <2>2 DEF Delimiters
  <2>4. ReadTo(at)'
    BY <1>1, <1>4, <1>7, <1>11, <2>3 DEF ReadTo
  <2> QED BY <1>3, <1>8, <2>3, <2>4
<1>12. CASE j = Len(lines[i]) /\ i # Len(lines)
  <2>1. at[i + 1][1] = end + 1 /\ st.text[end + 1] = NewLine
    BY <1>6, <1>12
  <2>2. i + 1 \in 1 .. Len(lines) /\ 1 \in 1 .. Len(lines[i + 1])
    <3>1. i + 1 \in 1 .. Len(lines)
      BY <1>5, <1>12, <1>14
    <3> QED BY <1>2, <3>1, FileShape
  <2>3. st.pos # Len(st.text)
    <3>1. at[i + 1][1] + Len(lines[i + 1][1]) <= Len(st.text) /\ at[i + 1][1] \in Nat
      BY <1>3, <2>2 DEF Places
    <3>2. Len(lines[i + 1][1]) \in Nat /\ Len(st.text) \in Nat /\ st.pos \in Nat
      BY <1>2, <2>2, FileShape DEF IsTokenizer
    <3>3. PICK x, y, z : x = Len(lines[i + 1][1]) /\ y = Len(st.text) /\ z = st.pos
      OBVIOUS
    <3>4. x \in Nat /\ y \in Nat /\ z \in Nat /\ (z + 1) + x <= y
      BY <1>4, <2>1, <3>1, <3>2, <3>3
    <3>5. z # y
      BY <3>4
    <3> QED BY <3>3, <3>5
  <2>4. pc' = "enter" /\ st'.text = st.text /\ st'.pos = at[i + 1][1]
    BY <1>1, <1>9, <1>10, <2>1, <2>3 DEF Delimiters
  <2>5. LineStart(at, i + 1)' = at[i + 1][1]
    BY <1>1, <2>2 DEF LineStart
  <2>6. KeepsAll(heap, lines[i], current)
    BY <1>0, <1>4, <1>12 DEF KeepsAll, Kept
  <2>7. ReadTo(at)'
    BY <1>1, <1>4, <1>7, <2>4, <2>5, <2>6 DEF ReadTo
  <2> QED BY <1>3, <1>8, <2>4, <2>7
<1>13. CASE j = Len(lines[i]) /\ i = Len(lines)
  <2>1. Len(st.text) = end \/ (Len(st.text) = end + 1 /\ st.text[end + 1] = NewLine)
    BY <1>6, <1>13
  <2>2. pc' = "enter" /\ st'.text = st.text /\ st'.pos = Len(st.text)
    <3>1. CASE st.pos = Len(st.text)
      <4>1. ~NextToken.ok /\ NextToken.st = st
        BY <1>2, <3>1, TokenFound
      <4> QED BY <1>1, <3>1, <4>1
    <3>2. CASE st.pos # Len(st.text)
      <4>1. Len(st.text) = end + 1 /\ st.text[end + 1] = NewLine
        BY <1>4, <2>1, <3>2
      <4> QED BY <1>1, <1>9, <1>10, <3>2, <4>1 DEF Delimiters
    <3> QED BY <3>1, <3>2
  <2>3. LineStart(at, i + 1)' = Len(st'.text)
    <3>1. ~(i + 1 <= Len(lines))
      BY <1>5, <1>13, <1>14
    <3> QED BY <1>1, <3>1 DEF LineStart
  <2>4. KeepsAll(heap, lines[i], current)
    BY <1>0, <1>4, <1>13 DEF KeepsAll, Kept
  <2>5. ReadTo(at)'
    BY <1>1, <1>4, <1>7, <2>2, <2>3, <2>4 DEF ReadTo
  <2> QED BY <1>3, <1>8, <2>2, <2>5
<1> QED BY <1>11, <1>12, <1>13

LEMMA FileReadSynonym ==
  ASSUME ReadInv, ReadSynonym
  PROVE  FileRead'
<1> SUFFICES ASSUME WellFormedFile
             PROVE  LinesEntered' /\ \E at : Places(lines, st'.text, at) /\ ReadTo(at)'
  BY DEF FileRead, WellFormedFile, ReadSynonym
<1>1. /\ pc = "synonym" /\ pc' = "comma" /\ st' = NextToken.st
      /\ current' = [current EXCEPT !.synonyms = VectorAppend(@, NewAddress)]
      /\ heap' = Allocated(st'.buffer) /\ UNCHANGED <<lines, entry, entered>>
  BY DEF ReadSynonym, setVars
<1>2. /\ IsTokenizer(st) /\ heap \in Seq(Cell) /\ lines \in Source /\ Line \in Nat \ {0}
      /\ Building /\ Sound(current, Address)
  BY <1>1, ReadFact DEF Line, Building
<1>3. PICK at : Places(lines, st.text, at) /\ ReadTo(at)
  BY DEF ReadInv, FileRead
<1> DEFINE i == Line
           j == Kept
<1>4. /\ i <= Len(lines) /\ Keeps(heap, lines[i], current) /\ j # Len(lines[i])
      /\ st.pos = at[i][j + 1]
  BY <1>1, <1>3 DEF ReadTo
<1>5. i \in 1 .. Len(lines) /\ j + 1 \in 1 .. Len(lines[i])
      /\ current.synonyms.logLen \in Nat /\ j = current.synonyms.logLen + 1
  <2>1. i \in 1 .. Len(lines)
    BY <1>2, <1>4, FileShape
  <2>2. j <= Len(lines[i])
    BY <1>4 DEF Keeps, Kept
  <2>3. current.synonyms.logLen \in Nat
    BY <1>2, ElementFact DEF Sound
  <2>4. Len(lines[i]) \in Nat
    BY <1>2, <2>1, FileShape
  <2>5. PICK x, y : x = current.synonyms.logLen /\ y = Len(lines[i])
    OBVIOUS
  <2>6. (x + 1) + 1 \in 1 .. y
    BY <1>4, <2>2, <2>3, <2>4, <2>5 DEF Kept
  <2> QED BY <2>1, <2>3, <2>5, <2>6 DEF Kept
<1> HIDE DEF i, j
<1>6. /\ st'.text = st.text /\ st'.buffer = lines[i][j + 1]
      /\ st'.pos = at[i][j + 1] + Len(lines[i][j + 1])
  BY <1>1, <1>2, <1>3, <1>4, <1>5, StringRead
<1>7. /\ \A a \in Address : heap'[a] = heap[a]
      /\ heap'[NewAddress].string = lines[i][j + 1]
      /\ Address \subseteq Address' /\ NewAddress \in Address'
  <2>1. PICK s : s = lines[i][j + 1]
    OBVIOUS
  <2>2. s \in Seq(Character) /\ heap' = Allocated(s)
    BY <1>1, <1>2, <1>5, <1>6, <2>1, FileShape
  <2> QED BY <1>2, <2>1, <2>2, AllocatedFact
<1>8. PICK v, w, x : v = current.synonyms /\ w = current.word /\ x = VectorAppend(v, NewAddress)
  OBVIOUS
<1>9. current = [word |-> w, synonyms |-> v] /\ WellFormed(v, Address') /\ v.logLen \in Nat
  <2>1. Sound(current, Address')
    BY <1>2, <1>7, OwnedFact
  <2> QED BY <1>5, <1>8, <2>1 DEF Sound
<1>10. /\ x.logLen = v.logLen + 1
       /\ \A q \in 0 .. v.logLen : x.slot[q] = IF q = v.logLen THEN NewAddress ELSE v.slot[q]
  BY <1>7, <1>8, <1>9, AppendFact
<1>11. current'.word = w /\ current'.synonyms = x
  <2>1. current' = [word |-> w, synonyms |-> x]
    BY <1>1, <1>8, <1>9
  <2> QED BY <2>1
<1>12. Keeps(heap', lines[i], current')
  <2>1. Keeps(heap', lines[i], current)
    <3>1. \A a \in Address : heap'[a].string = heap[a].string
      BY <1>7
    <3>2. PICK hq, e : hq = heap' /\ e = current
      OBVIOUS
    <3>3. Sound(e, Address) /\ Keeps(heap, lines[i], e) /\ \A a \in Address : hq[a].string = heap[a].string
      BY <1>2, <1>4, <3>1, <3>2 DEF i
    <3>4. Keeps(hq, lines[i], e)
      BY <3>3, KeepsFact
    <3> QED BY <3>2, <3>4
  <2>2. /\ heap'[w].string = lines[i][1]
        /\ \A p \in 0 .. v.logLen - 1 : heap'[v.slot[p]].string = lines[i][p + 2]
    BY <1>8, <2>1 DEF Keeps, Position
  <2>3. \A p \in 0 .. v.logLen : p # v.logLen => p \in 0 .. v.logLen - 1
    BY <1>9
  <2>4. j + 1 = v.logLen + 2 /\ (v.logLen + 1) - 1 = v.logLen
    BY <1>5, <1>8, <1>9
  <2>5. ASSUME NEW p \in 0 .. v.logLen PROVE heap'[x.slot[p]].string = lines[i][p + 2]
    <3>1. CASE p = v.logLen
      BY <1>7, <1>10, <2>4, <3>1
    <3>2. CASE p # v.logLen
      BY <1>10, <2>2, <2>3, <3>2
    <3> QED BY <3>1, <3>2
  <2>6. (v.logLen + 1) + 1 <= Len(lines[i])
    BY <1>5, <1>8, <1>9
  <2>7. Position(x) = 0 .. v.logLen
    BY <1>10, <2>4 DEF Position
  <2>8. PICK e : e = current'
    OBVIOUS
  <2>9. e.word = w /\ e.synonyms = x
    BY <1>11, <2>8
  <2>10. Keeps(heap', lines[i], e)
    BY <1>10, <2>2, <2>5, <2>6, <2>7, <2>9 DEF Keeps
  <2> QED BY <2>8, <2>10
<1>13. Line' = i /\ Kept' = j + 1
  <2>1. Line' = i
    BY <1>1 DEF Line, i
  <2>2. Kept' = x.logLen + 1
    BY <1>11 DEF Kept
  <2> QED BY <1>5, <1>8, <1>10, <2>1, <2>2
<1>14. ReadTo(at)'
  BY <1>1, <1>4, <1>6, <1>12, <1>13 DEF ReadTo
<1>15. LinesEntered'
  BY <1>1, <1>7, EnteredStays
<1> QED BY <1>3, <1>6, <1>14, <1>15

LEMMA FileEnter ==
  ASSUME ReadInv, EnterEntry
  PROVE  FileRead'
<1> SUFFICES ASSUME WellFormedFile
             PROVE  LinesEntered' /\ \E at : Places(lines, st'.text, at) /\ ReadTo(at)'
  BY DEF FileRead, WellFormedFile, EnterEntry
<1>1. /\ pc = "enter" /\ pc' = "word" /\ UNCHANGED <<lines, st, current>>
      /\ entry' = Append(entry, current)
      /\ entered' = Append(entered, heap[current.word].string)
      /\ heap' = ThesEntryFree(heap, entry', freed' \ freed)
  BY DEF EnterEntry, thesaurus!Enter
<1>2. /\ IsTokenizer(st) /\ heap \in Seq(Cell) /\ lines \in Source /\ Building
      /\ Sound(current, Address) /\ \A n \in DOMAIN entry : Sound(entry[n], Address)
  BY <1>1, ReadFact DEF Building
<1>3. PICK at : Places(lines, st.text, at) /\ ReadTo(at)
  BY DEF ReadInv, FileRead
<1>4. PICK N : N = Len(entry)
  OBVIOUS
<1>5. /\ N \in Nat /\ DOMAIN entry = 1 .. N /\ DOMAIN entered = 1 .. N
      /\ entered \in Seq(Key) /\ Len(entered) = N /\ Line = N + 1 /\ \E S : entry \in Seq(S)
  BY <1>4, ReadFact DEF Line, ReadInv, OwnInv, HeapShape
<1>6. PICK k : k = heap[current.word].string
  OBVIOUS
<1>7. k \in Key
  BY <1>2, <1>6 DEF ReadInv, OwnInv, HeapShape
<1>8. /\ Len(entry') = N + 1 /\ DOMAIN entry' = 1 .. N + 1
      /\ \A n \in 1 .. N : entry'[n] = entry[n]
      /\ entry'[N + 1] = current
  <2>1. PICK S : entry \in Seq(S)
    BY <1>5
  <2>2. PICK R : R = S \cup {current}
    OBVIOUS
  <2>3. entry \in Seq(R) /\ current \in R
    BY <2>1, <2>2
  <2> QED BY <1>1, <1>4, <2>3
<1>9. (\A n \in 1 .. N : entered'[n] = entered[n]) /\ entered'[N + 1] = k
  BY <1>1, <1>5, <1>6, <1>7
<1>10. \A a \in Address : heap'[a].string = heap[a].string
  BY <1>1, <1>2, StringsStay DEF Address
<1>11. /\ N + 1 <= Len(lines) /\ KeepsAll(heap, lines[N + 1], current)
       /\ st.pos = LineStart(at, (N + 1) + 1)
  BY <1>1, <1>3, <1>5 DEF ReadTo
<1>12. k = lines[N + 1][1]
  BY <1>6, <1>11 DEF KeepsAll, Keeps
<1>13. LinesEntered'
  <2>1. ASSUME NEW n \in 1 .. N + 1
        PROVE  /\ n \in DOMAIN lines /\ KeepsAll(heap', lines[n], entry'[n])
               /\ entered'[n] = lines[n][1]
    <3>1. PICK hq, e : hq = heap' /\ e = entry'[n]
      OBVIOUS
    <3>2. CASE n = N + 1
      <4>1. e = current /\ Sound(e, Address) /\ KeepsAll(heap, lines[n], e)
        BY <1>2, <1>8, <1>11, <3>1, <3>2
      <4>2. KeepsAll(hq, lines[n], e)
        BY <1>10, <3>1, <4>1, KeepsFact
      <4>3. n \in DOMAIN lines
        BY <1>2, <1>5, <1>11, <3>2, FileShape
      <4> QED BY <1>9, <1>12, <3>1, <3>2, <4>2, <4>3
    <3>3. CASE n # N + 1
      <4>1. n \in 1 .. N
        BY <1>5, <3>3
      <4>2. /\ e = entry[n] /\ Sound(e, Address) /\ KeepsAll(heap, lines[n], e)
            /\ n \in DOMAIN lines /\ entered[n] = lines[n][1]
        BY <1>2, <1>5, <1>8, <3>1, <4>1 DEF ReadInv, FileRead, LinesEntered
      <4>3. KeepsAll(hq, lines[n], e)
        BY <1>10, <3>1, <4>2, KeepsFact
      <4> QED BY <1>9, <3>1, <4>1, <4>2, <4>3
    <3> QED BY <3>2, <3>3
  <2> QED BY <1>1, <1>8, <2>1 DEF LinesEntered
<1>14. ReadTo(at)'
  <2>1. Line' = (N + 1) + 1
    BY <1>8 DEF Line
  <2>2. LineStart(at, Line)' = LineStart(at, (N + 1) + 1)
    BY <1>1, <2>1 DEF LineStart
  <2>3. (N + 1) + 1 <= Len(lines) + 1
    <3>1. PICK n : n = Len(lines)
      OBVIOUS
    <3>2. n \in Nat /\ N + 1 <= n
      BY <1>2, <1>11, <3>1, FileShape
    <3> QED BY <1>5, <3>1, <3>2
  <2> QED BY <1>1, <1>11, <2>1, <2>2, <2>3 DEF ReadTo
<1> QED BY <1>1, <1>3, <1>13, <1>14

(***************************************************************************)
(* A step that reads nothing of the file.                                  *)
(***************************************************************************)
LEMMA FileKept ==
  ASSUME ReadInv, UNCHANGED <<lines, st, entry, entered, current>>,
         \A a \in Address : heap'[a].string = heap[a].string,
         \/ pc' = pc /\ heap' = heap
         \/ pc = "open" /\ pc' \in {"word", "exit"}
         \/ pc = "query" /\ pc' \in {"query", "aborted", "done"}
  PROVE  FileRead'
<1> SUFFICES ASSUME WellFormedFile
             PROVE  LinesEntered' /\ \E at : Places(lines, st'.text, at) /\ ReadTo(at)'
  BY DEF FileRead, WellFormedFile
<1>1. PICK at : Places(lines, st.text, at) /\ ReadTo(at)
  BY DEF ReadInv, FileRead
<1>2. Line' = Line /\ Kept' = Kept
  BY DEF Line, Kept
<1>3. \A i : LineStart(at, i)' = LineStart(at, i)
  BY DEF LineStart
<1>4. LineStart(at, Line)' = LineStart(at, Line)
  BY <1>2 DEF LineStart
<1>5. ReadTo(at)'
  <2>1. CASE pc' = pc /\ heap' = heap
    <3>1. LineStart(at, Line + 1)' = LineStart(at, Line + 1)
      BY <1>2 DEF LineStart
    <3> QED BY <1>1, <1>2, <1>4, <2>1, <3>1 DEF ReadTo
  <2>2. CASE pc = "open" /\ pc' \in {"word", "exit"}
    BY <1>1, <1>2, <1>4, <2>2 DEF ReadTo
  <2>3. CASE pc = "query" /\ pc' \in {"query", "aborted", "done"}
    BY <1>1, <1>2, <2>3 DEF ReadTo
  <2> QED BY <2>1, <2>2, <2>3
<1>6. LinesEntered'
  BY EnteredStays
<1> QED BY <1>1, <1>5, <1>6
-----------------------------------------------------------------------------
LEMMA MeaningFact ==
  ASSUME lines \in Source, NEW word
  PROVE  /\ (\A n \in 1 .. Len(lines) : lines[n][1] # word) => Meaning(word) = {}
         /\ \A n \in 1 .. Len(lines) :
              (lines[n][1] = word /\ \A m \in 1 .. Len(lines) : m > n => lines[m][1] # word)
              => Meaning(word) = {{lines[n][j] : j \in 2 .. Len(lines[n])}}
<1> DEFINE defining == {i \in 1 .. Len(lines) : lines[i][1] = word}
           last == CHOOSE i \in defining : \A j \in defining : j <= i
<1>0. Len(lines) \in Nat
  BY FileShape
<1>1. Meaning(word) = IF defining = {} THEN {} ELSE {{lines[last][j] : j \in 2 .. Len(lines[last])}}
  BY DEF Meaning
<1>2. ASSUME \A n \in 1 .. Len(lines) : lines[n][1] # word PROVE Meaning(word) = {}
  <2>1. defining = {}
    BY <1>2
  <2> QED BY <1>1, <2>1
<1>3. ASSUME NEW n \in 1 .. Len(lines), lines[n][1] = word,
             \A m \in 1 .. Len(lines) : m > n => lines[m][1] # word
      PROVE  Meaning(word) = {{lines[n][j] : j \in 2 .. Len(lines[n])}}
  <2>1. n \in defining /\ \A m \in defining : m <= n /\ m \in Nat
    BY <1>0, <1>3
  <2> HIDE DEF defining
  <2>2. last \in defining /\ \A m \in defining : m <= last
    BY <2>1
  <2>3. last = n
    <3>1. n \in Nat
      OBVIOUS
    <3>2. last <= n /\ n <= last /\ last \in Nat
      BY <2>1, <2>2
    <3> HIDE DEF last
    <3> QED BY <3>1, <3>2
  <2>4. defining # {}
    BY <2>1
  <2> HIDE DEF last
  <2> QED BY <1>1, <2>3, <2>4
<1> QED BY <1>2, <1>3

(***************************************************************************)
(* QueryThesaurus answers with what the last line of the word lists.       *)
(***************************************************************************)
LEMMA ReplyFaithful ==
  ASSUME ReadInv, pc = "query", NEW word \in Key, Reply(word), UNCHANGED lines
  PROVE  AnswersFaithful'
<1>1. Meaning(answer.word)' = Meaning(answer'.word) /\ (WellFormedFile' <=> WellFormedFile)
  BY DEF Meaning, WellFormedFile
<1> SUFFICES ASSUME WellFormedFile
             PROVE  CASE pc' = "aborted" -> Meaning(answer'.word) = {{}}
                      [] pc' # "aborted" /\ answer'.reply = {} -> Meaning(answer'.word) = {}
                      [] OTHER -> \E synonyms \in Meaning(answer'.word) : answer'.reply \subseteq synonyms
  BY <1>1 DEF AnswersFaithful
<1>2. lines \in Source /\ \A n \in DOMAIN entry : Sound(entry[n], Address)
  BY ReadFact
<1>3. /\ DOMAIN entered = 1 .. Len(lines) /\ DOMAIN entry = 1 .. Len(lines)
      /\ \A n \in 1 .. Len(lines) : KeepsAll(heap, lines[n], entry[n]) /\ entered[n] = lines[n][1]
  <2>1. PICK at : ReadTo(at)
    BY DEF ReadInv, FileRead
  <2>2. Len(entry) + 1 = Len(lines) + 1
    BY <2>1 DEF ReadTo, Line
  <2>3. Len(entry) \in Nat /\ Len(lines) \in Nat
    BY <1>2, ReadFact, FileShape
  <2>4. Len(entry) = Len(lines)
    BY <2>2, <2>3
  <2> QED BY <2>4, ReadFact DEF ReadInv, FileRead, LinesEntered
<1>4. HeldInv
  BY DEF ReadInv, OwnInv
<1>5. CASE thesaurus!Lookup(word) = {} /\ \A n \in DOMAIN entered : entered[n] # word
  <2>1. answer' = [word |-> word, reply |-> {}] /\ pc' = pc
    BY <1>5 DEF Reply
  <2>2. answer'.word = word /\ answer'.reply = {} /\ pc' # "aborted"
    BY <2>1
  <2>3. Meaning(word) = {}
    BY <1>2, <1>3, <1>5, MeaningFact
  <2> QED BY <2>2, <2>3
<1>6. CASE \E n \in Latest : entered[n] = word /\ thesaurus!Lookup(word) = {Element(n)}
  <2>1. PICK n \in Latest : entered[n] = word /\ thesaurus!Lookup(word) = {Element(n)}
    BY <1>6
  <2>2. n \in 1 .. Len(lines) /\ \A m \in 1 .. Len(lines) : m > n => lines[m][1] # lines[n][1]
    BY <1>3 DEF Latest
  <2>3. lines[n][1] = word /\ KeepsAll(heap, lines[n], entry[n])
    BY <1>3, <2>1, <2>2
  <2>4. Meaning(word) = {{lines[n][j] : j \in 2 .. Len(lines[n])}}
    BY <1>2, <2>2, <2>3, MeaningFact
  <2>5. PICK v : v = entry[n].synonyms
    OBVIOUS
  <2>6. PICK e \in thesaurus!Lookup(word) : \E p \in Chosen(entry[e.id].synonyms) :
          IF p < entry[e.id].synonyms.logLen
          THEN /\ answer' = [word |-> word,
                             reply |-> {heap[entry[e.id].synonyms.slot[p]].string}]
               /\ UNCHANGED pc
          ELSE answer' = [word |-> word, reply |-> {}] /\ pc' = "aborted"
    BY <2>1 DEF Reply
  <2>7. e.id = n
    BY <2>1, <2>6 DEF Element
  <2>8. PICK p \in Chosen(v) :
          IF p < v.logLen
          THEN answer' = [word |-> word, reply |-> {heap[v.slot[p]].string}] /\ pc' = pc
          ELSE answer' = [word |-> word, reply |-> {}] /\ pc' = "aborted"
    BY <2>5, <2>6, <2>7
  <2>9. /\ v.logLen \in Nat /\ v.logLen + 1 = Len(lines[n])
        /\ \A q \in 0 .. v.logLen - 1 : heap[v.slot[q]].string = lines[n][q + 2]
    BY <1>2, <1>3, <2>2, <2>3, <2>5, ElementFact DEF Sound, KeepsAll, Keeps, Position
  <2>10. CASE p < v.logLen
    <3>1. answer' = [word |-> word, reply |-> {heap[v.slot[p]].string}] /\ pc' = "query"
      BY <2>8, <2>10
    <3>2. answer'.word = word /\ answer'.reply = {heap[v.slot[p]].string}
      BY <3>1
    <3>3. p \in 0 .. v.logLen - 1
      BY <2>8, <2>9, <2>10 DEF Chosen
    <3>4. p + 2 \in 2 .. Len(lines[n])
      BY <2>9, <3>3
    <3>5. heap[v.slot[p]].string = lines[n][p + 2]
      BY <2>9, <3>3
    <3>6. answer'.reply \subseteq {lines[n][j] : j \in 2 .. Len(lines[n])} /\ answer'.reply # {}
      BY <3>2, <3>4, <3>5
    <3> QED BY <2>4, <3>1, <3>2, <3>6
  <2>11. CASE ~(p < v.logLen)
    <3>1. answer' = [word |-> word, reply |-> {}] /\ pc' = "aborted"
      BY <2>8, <2>11
    <3>2. answer'.word = word
      BY <3>1
    <3>3. v.logLen = 0
      BY <2>8, <2>9, <2>11 DEF Chosen
    <3>4. Len(lines[n]) = 1
      BY <2>9, <3>3
    <3>5. 2 .. Len(lines[n]) = {}
      BY <3>4
    <3> QED BY <2>4, <3>1, <3>2, <3>5
  <2> QED BY <2>10, <2>11
<1> QED BY <1>4, <1>5, <1>6, FoundFact

(***************************************************************************)
(* What is looked up is a beginning of a typed line, all of it while the   *)
(* user types; reading the file replies nothing.                           *)
(***************************************************************************)
AfterFile == {"query", "aborted", "done"}

LEMMA AnsweringReads ==
  ASSUME ReadInv, UNCHANGED <<lines, response, answer>>, pc \notin AfterFile,
         pc' \in {"open", "exit", "word", "comma", "synonym", "enter", "query"}
  PROVE  Answering'
<1>1. answer = NoReply
  BY DEF ReadInv, Answering, AfterFile
<1>2. answer' = NoReply
  BY <1>1
<1>3. AnswersFaithful'
  BY <1>2 DEF AnswersFaithful, NoReply
<1> QED BY <1>2, <1>3 DEF ReadInv, Answering, NoReply

LEMMA FaithfulStays ==
  ASSUME AnswersFaithful, UNCHANGED <<lines, answer>>,
         (pc = "aborted") <=> (pc' = "aborted")
  PROVE  AnswersFaithful'
<1>1. Meaning(answer.word)' = Meaning(answer.word) /\ (WellFormedFile' <=> WellFormedFile)
  BY DEF Meaning, WellFormedFile
<1> QED BY <1>1 DEF AnswersFaithful

LEMMA QueryReads ==
  ASSUME ReadInv, pc = "query", UNCHANGED <<lines, st, current, entry>>,
         NEW t \in Typed, NEW n \in 0 .. Len(t), NEW word, word = SubSeq(t, 1, n),
         response' = word, Answer(word)
  PROVE  FileRead' /\ Answering'
<1>1. AnswersFaithful /\ lines \in Source /\ heap \in Seq(Cell)
  BY ReadFact DEF ReadInv, Answering
<1>2. CASE word = << >>
  <2>1. /\ entered' = entered /\ pc' = "done" /\ answer' = answer
        /\ heap' = ThesEntryFree(heap, entry, freed' \ freed)
    BY <1>2 DEF Answer, thesaurus!Dispose
  <2>2. \A a \in Address : heap'[a].string = heap[a].string
    BY <1>1, <2>1, StringsStay DEF Address
  <2>3. FileRead'
    BY <2>1, <2>2, FileKept
  <2>4. AnswersFaithful'
    BY <1>1, <2>1, FaithfulStays
  <2> QED BY <1>1, <2>1, <2>3, <2>4 DEF Answering
<1>3. CASE word # << >>
  <2>1. Reply(word) /\ entered' = entered /\ heap' = heap
    BY <1>3 DEF Answer, setVars
  <2>2. pc' \in {"query", "aborted"}
    BY <2>1 DEF Reply
  <2>3. word \in Key
    <3>1. t \in Seq(Character \ {NewLine})
      BY ThesaurusAssumption
    <3>2. n # 0
      BY <1>3, <3>1
    <3>3. n \in 1 .. Len(t)
      BY <3>1, <3>2
    <3> QED BY <3>3, ThesaurusAssumption
  <2>4. FileRead'
    BY <2>1, <2>2, FileKept
  <2>5. AnswersFaithful'
    BY <2>1, <2>3, ReplyFaithful
  <2> QED BY <1>1, <2>2, <2>4, <2>5 DEF Answering
<1> QED BY <1>2, <1>3

LEMMA ReadNext ==
  ASSUME ReadInv, [Next]_vars
  PROVE  ReadInv'
<1>0. OwnInv'
  BY OwnNext DEF ReadInv
<1>1. CASE UNCHANGED vars
  <2>1. /\ UNCHANGED <<lines, st, entry, entered, current>> /\ pc' = pc /\ heap' = heap
        /\ UNCHANGED <<response, answer>>
    BY <1>1 DEF vars, setVars
  <2>2. FileRead'
    BY <2>1, FileKept
  <2>3. AnswersFaithful'
    BY <2>1, FaithfulStays DEF ReadInv, Answering
  <2>4. Answering'
    BY <2>1, <2>3 DEF ReadInv, Answering
  <2> QED BY <1>0, <2>2, <2>4 DEF ReadInv
<1>2. CASE OpenFile
  <2>1. /\ UNCHANGED <<lines, st, entry, entered, current>> /\ heap' = heap
        /\ pc = "open" /\ pc' \in {"word", "exit"} /\ UNCHANGED <<response, answer>>
    BY <1>2 DEF OpenFile, setVars
  <2>2. FileRead'
    BY <2>1, FileKept
  <2>3. Answering'
    BY <2>1, AnsweringReads DEF AfterFile
  <2> QED BY <1>0, <2>2, <2>3 DEF ReadInv
<1>3. CASE EndOfFile
  <2>1. Answering'
    BY <1>3, AnsweringReads DEF EndOfFile, AfterFile
  <2> QED BY <1>0, <1>3, <2>1, FileEnd DEF ReadInv
<1>4. CASE ReadComma
  <2>1. Answering'
    BY <1>4, AnsweringReads DEF ReadComma, AfterFile
  <2> QED BY <1>0, <1>4, <2>1, FileReadComma DEF ReadInv
<1>5. CASE ReadWord
  <2>1. Answering'
    BY <1>5, AnsweringReads DEF ReadWord, AfterFile
  <2> QED BY <1>0, <1>5, <2>1, FileReadWord DEF ReadInv
<1>6. CASE ReadSynonym
  <2>1. Answering'
    BY <1>6, AnsweringReads DEF ReadSynonym, AfterFile
  <2> QED BY <1>0, <1>6, <2>1, FileReadSynonym DEF ReadInv
<1>7. CASE EnterEntry
  <2>1. Answering'
    BY <1>7, AnsweringReads DEF EnterEntry, AfterFile
  <2> QED BY <1>0, <1>7, <2>1, FileEnter DEF ReadInv
<1>8. CASE \E line \in Typed : Query(line)
  <2>1. PICK t \in Typed : Query(t)
    BY <1>8
  <2>2. t = SubSeq(t, 1, Len(t)) /\ Len(t) \in 0 .. Len(t)
    <3>1. t \in Seq(Character \ {NewLine})
      BY ThesaurusAssumption
    <3> QED BY <3>1
  <2>3. pc = "query" /\ UNCHANGED <<lines, st, current, entry>> /\ response' = t /\ Answer(t)
    BY <2>1 DEF Query
  <2>4. FileRead' /\ Answering'
    BY <2>2, <2>3, QueryReads
  <2> QED BY <1>0, <2>4 DEF ReadInv
<1>9. CASE QueryAtEnd
  <2>1. PICK word : word = ResponseAtEnd(response)
    OBVIOUS
  <2>2. /\ pc = "query" /\ UNCHANGED <<lines, st, current, entry>>
        /\ response' = word /\ Answer(word)
    BY <1>9, <2>1 DEF QueryAtEnd
  <2>3. PICK t \in Typed : \E n \in 0 .. Len(t) : response = SubSeq(t, 1, n)
    BY DEF ReadInv, Answering
  <2>4. t \in Seq(Character \ {NewLine}) /\ Len(t) \in Nat
    BY ThesaurusAssumption
  <2>5. PICK n \in 0 .. Len(t) : response = SubSeq(t, 1, n)
    BY <2>3
  <2>6. \E k \in 0 .. Len(t) : word = SubSeq(t, 1, k)
    <3>1. PICK r : r = response
      OBVIOUS
    <3>2. r \in Seq(Character) /\ Len(r) = n /\ \A i \in 1 .. n : r[i] = t[i]
      BY <2>4, <2>5, <3>1
    <3>3. CASE n = 0
      <4>1. r = << >>
        BY <3>2, <3>3
      <4>2. word = SubSeq(t, 1, n)
        BY <2>1, <2>5, <3>1, <4>1 DEF ResponseAtEnd
      <4> QED BY <4>2
    <3>4. CASE n # 0
      <4>1. r # << >> /\ word = SubSeq(r, 1, n - 1)
        BY <2>1, <3>1, <3>2, <3>4 DEF ResponseAtEnd, Front
      <4>2. n - 1 \in 0 .. Len(t)
        BY <2>4, <3>4
      <4>3. SubSeq(r, 1, n - 1) = SubSeq(t, 1, n - 1)
        BY <2>4, <3>2, <3>4
      <4> QED BY <4>1, <4>2, <4>3
    <3> QED BY <3>3, <3>4
  <2>7. PICK k \in 0 .. Len(t) : word = SubSeq(t, 1, k)
    BY <2>6
  <2>8. FileRead' /\ Answering'
    BY <2>2, <2>7, QueryReads
  <2> QED BY <1>0, <2>8 DEF ReadInv
<1> QED BY <1>1, <1>2, <1>3, <1>4, <1>5, <1>6, <1>7, <1>8, <1>9 DEF Next

(***************************************************************************)
(* AnswersFaithful holds of every behaviour: whatever the file, the sizes  *)
(* and the hash function, a reply is a synonym that the last line of the   *)
(* word lists.                                                             *)
(***************************************************************************)
THEOREM RepliesFaithful == Spec => []AnswersFaithful
<1>1. Init => ReadInv
  BY ReadInit
<1>2. ReadInv /\ [Next]_vars => ReadInv'
  BY ReadNext
<1>3. ReadInv => AnswersFaithful
  BY DEF ReadInv, Answering
<1> QED BY <1>1, <1>2, <1>3, PTL DEF Spec
=============================================================================
