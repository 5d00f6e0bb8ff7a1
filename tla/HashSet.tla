------------------------------ MODULE HashSet -------------------------------
(***************************************************************************)
(* The hash set of src/ass3 (hashset.c): an array of vectors, its buckets. *)
(* Elements are compared with cmpfn, given here as the relation Same of    *)
(* their keys, and only with those of the bucket hashfn sends them to.     *)
(***************************************************************************)
EXTENDS VectorOps, FiniteSets

CONSTANTS Key,          \* what hashfn and cmpfn see of an element
          Same,         \* the pairs of keys cmpfn calls equal
          Hash,         \* Hash[k]: the bucket hashfn sends key k to
          NumBuckets,   \* numBuckets
          MaxElements   \* elements the client enters

Bucket == 0 .. NumBuckets - 1

Elem == [key : Key, id : 1 .. MaxElements]

(***************************************************************************)
(* hashset.h asks that equal elements have the same hash code, and cmpfn   *)
(* is to be an ordering's comparison.                                      *)
(***************************************************************************)
HashStable == \A s \in Same : Hash[s[1]] = Hash[s[2]]

SameEquivalence ==
  /\ \A k \in Key : <<k, k>> \in Same
  /\ \A s \in Same : <<s[2], s[1]>> \in Same
  /\ \A s, t \in Same : s[2] = t[1] => <<s[1], t[2]>> \in Same

ASSUME HashSetAssumption ==
  /\ NumBuckets \in Nat \ {0} /\ MaxElements \in Nat
  /\ Hash \in [Key -> Bucket]
  /\ Same \subseteq Key \X Key /\ SameEquivalence
  /\ HashStable

VARIABLES buckets,   \* h->buckets
          logLen,    \* h->logLen
          entered,   \* history: the keys entered; the n-th has identity n
          freed,     \* the elements freefn was called on
          disposed   \* HashSetDispose has been called

vars == <<buckets, logLen, entered, freed, disposed>>

HashSetNew == [b \in Bucket |-> VectorNew(0)]

Init ==
  /\ buckets = HashSetNew
  /\ logLen = 0
  /\ entered = << >>
  /\ freed = {}
  /\ disposed = FALSE

EqualTo(k) == {e \in Elem : <<k, e.key>> \in Same}

SearchFromSecond(k) ==   \* mutant: the search leaves out the first element
  VectorSearch(buckets[Hash[k]], EqualTo(k), IF buckets[Hash[k]].logLen = 0 THEN 0 ELSE 1)

Search(k) == VectorSearch(buckets[Hash[k]], EqualTo(k), 0)

EnterCountingAll(k) ==   \* mutant: replacing counts as entering
  LET b == Hash[k]
      e == [key |-> k, id |-> Len(entered) + 1]
      p == Search(k)
  IN  /\ ~disposed /\ Len(entered) < MaxElements
      /\ entered' = Append(entered, k)
      /\ IF p = -1
         THEN /\ buckets' = [buckets EXCEPT ![b] = VectorAppend(@, e)]
              /\ logLen' = logLen + 1
              /\ UNCHANGED freed
         ELSE /\ buckets' = [buckets EXCEPT ![b] = VectorReplace(@, e, p)]
              /\ freed' = freed \cup {buckets[b].slot[p]}
              /\ logLen' = logLen + 1
      /\ UNCHANGED disposed

Enter(k) ==
  LET b == Hash[k]
      e == [key |-> k, id |-> Len(entered) + 1]
      p == Search(k)
  IN  /\ ~disposed /\ Len(entered) < MaxElements
      /\ entered' = Append(entered, k)
      /\ IF p = -1
         THEN /\ buckets' = [buckets EXCEPT ![b] = VectorAppend(@, e)]
              /\ logLen' = logLen + 1
              /\ UNCHANGED freed
         ELSE /\ buckets' = [buckets EXCEPT ![b] = VectorReplace(@, e, p)]
              /\ freed' = freed \cup {buckets[b].slot[p]}
              /\ UNCHANGED logLen
      /\ UNCHANGED disposed

(***************************************************************************)
(* HashSetLookup: the element found, if any, as a set of at most one.      *)
(***************************************************************************)
Lookup(k) == {buckets[Hash[k]].slot[p] : p \in {Search(k)} \ {-1}}

Members(b) == {buckets[b].slot[p] : p \in Position(buckets[b])}

members == IF disposed THEN {} ELSE UNION {Members(b) : b \in Bucket}

(***************************************************************************)
(* HashSetDispose: each bucket calls freefn on the elements it holds.      *)
(***************************************************************************)
Dispose ==
  /\ ~disposed
  /\ freed' = freed \cup members
  /\ disposed' = TRUE
  /\ UNCHANGED <<buckets, logLen, entered>>

Terminating == disposed /\ UNCHANGED vars

Next == (\E k \in Key : Enter(k)) \/ Dispose \/ Terminating

Spec == Init /\ [][Next]_vars
-----------------------------------------------------------------------------
(***************************************************************************)
(* HashSetCount is the number of elements held; every other one entered    *)
(* has been freed, each after an equal one was entered later, and after    *)
(* HashSetDispose every one has.                                           *)
(***************************************************************************)
CountsMembers ==
  /\ members \cap freed = {}
  /\ {e.id : e \in members \cup freed} = DOMAIN entered
  /\ ~disposed => logLen = Cardinality(members)
  /\ ~disposed => \A e \in freed : \E m \in members : m.id > e.id /\ <<m.key, e.key>> \in Same

(***************************************************************************)
(* Whatever has been entered, HashSetLookup finds the last element entered *)
(* that is equal to the one asked for, and nothing if there is none.       *)
(***************************************************************************)
LookupFindsLast ==
  ~disposed => \A k \in Key :
    LET equal == {i \in DOMAIN entered : <<k, entered[i]>> \in Same}
    IN  {e.id : e \in Lookup(k)} = {i \in equal : \A j \in equal : j <= i}

(***************************************************************************)
(* With a hash function that respects cmpfn the hash set implements the    *)
(* set hashset.h describes: it never holds two equal elements.             *)
(***************************************************************************)
KeyedSet == INSTANCE KeyedSetSpec

Refinement == KeyedSet!Spec
=============================================================================
