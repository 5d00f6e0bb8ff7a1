---------------------------- MODULE SequenceSpec ----------------------------
(***************************************************************************)
(* What vector.h promises: a sequence of elements, and a free function     *)
(* called on each element that leaves it.                                  *)
(***************************************************************************)
EXTENDS Integers, Sequences

CONSTANTS Key, MaxElements

VARIABLES seq,    \* the elements, in order
          made,   \* elements made so far; the n-th has identity n
          freed   \* how often the free function was called on each element

vars == <<seq, made, freed>>

Elem == [key : Key, id : 1 .. MaxElements]

Init ==
  /\ seq = << >>
  /\ made = 0
  /\ freed = [id \in 1 .. MaxElements |-> 0]

New(k) == [key |-> k, id |-> made + 1]

Insert(k, p) ==
  /\ made < MaxElements
  /\ seq' = SubSeq(seq, 1, p - 1) \o << New(k) >> \o SubSeq(seq, p, Len(seq))
  /\ made' = made + 1
  /\ UNCHANGED freed

Replace(k, p) ==
  /\ made < MaxElements
  /\ freed' = [freed EXCEPT ![seq[p].id] = @ + 1]
  /\ seq' = [seq EXCEPT ![p] = New(k)]
  /\ made' = made + 1

Delete(p) ==
  /\ freed' = [freed EXCEPT ![seq[p].id] = @ + 1]
  /\ seq' = SubSeq(seq, 1, p - 1) \o SubSeq(seq, p + 1, Len(seq))
  /\ UNCHANGED made

Sort ==
  /\ Len(seq') = Len(seq)
  /\ {seq'[i] : i \in DOMAIN seq'} = {seq[i] : i \in DOMAIN seq}
  /\ \A i, j \in DOMAIN seq' : i < j => seq'[i].key <= seq'[j].key
  /\ UNCHANGED <<made, freed>>

Dispose ==
  /\ freed' = [id \in DOMAIN freed |->
                 IF \E i \in DOMAIN seq : seq[i].id = id THEN freed[id] + 1 ELSE freed[id]]
  /\ seq' = << >>
  /\ UNCHANGED made

Next ==
  \/ \E k \in Key, p \in 1 .. Len(seq) + 1 : Insert(k, p)
  \/ \E k \in Key, p \in 1 .. Len(seq) : Replace(k, p)
  \/ \E p \in 1 .. Len(seq) : Delete(p)
  \/ Sort
  \/ Dispose

Spec == Init /\ [][Next]_vars
=============================================================================
