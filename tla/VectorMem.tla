----------------------------- MODULE VectorMem ------------------------------
(***************************************************************************)
(* A client of one vector (src/ass3, vector.c) whose elements own memory:  *)
(* it keeps to the positions vector.h allows, makes each element once and  *)
(* leaves freeing it to the vector.                                        *)
(***************************************************************************)
EXTENDS VectorOps

CONSTANTS Key,                 \* what the comparator tells apart
          MaxElements,         \* elements the client makes
          InitialAllocation    \* initialAllocation of VectorNew

ASSUME VectorAssumption ==
  Key \subseteq Int /\ MaxElements \in Nat /\ InitialAllocation \in Nat

VARIABLES vec,       \* the struct
          live,      \* VectorDispose has not been called
          made,      \* elements made so far; the n-th has identity n
          freed      \* how often freefn was called on each element

vars == <<vec, live, made, freed>>

Elem == [key : Key, id : 1 .. MaxElements]

Init ==
  /\ vec = VectorNew(InitialAllocation)
  /\ live = TRUE
  /\ made = 0
  /\ freed = [id \in 1 .. MaxElements |-> 0]

Make(k) == [key |-> k, id |-> made + 1]

CanMake == live /\ made < MaxElements

Freeing(e) == freed' = [freed EXCEPT ![e.id] = @ + 1]

AppendNew(k) ==
  /\ CanMake
  /\ vec' = VectorAppend(vec, Make(k))
  /\ made' = made + 1
  /\ UNCHANGED <<live, freed>>

Insert(k, p) ==
  /\ CanMake
  /\ vec' = VectorInsert(vec, Make(k), p)
  /\ made' = made + 1
  /\ UNCHANGED <<live, freed>>

Replace(k, p) ==
  /\ CanMake
  /\ Freeing(vec.slot[p])
  /\ vec' = VectorReplace(vec, Make(k), p)
  /\ made' = made + 1
  /\ UNCHANGED live

DeleteThenFree(p) ==   \* mutant: freefn is called after the elements moved
  /\ live
  /\ vec' = VectorDelete(vec, p)
  /\ Freeing(vec'.slot[p])
  /\ UNCHANGED <<live, made>>

Delete(p) ==
  /\ live
  /\ Freeing(vec.slot[p])
  /\ vec' = VectorDelete(vec, p)
  /\ UNCHANGED <<live, made>>

Sort ==
  /\ live
  /\ vec' \in VectorSorts(vec, {de \in Elem \X Elem : de[1].key <= de[2].key})
  /\ UNCHANGED <<live, made, freed>>

Dispose ==
  /\ live
  /\ live' = FALSE
  /\ freed' = [id \in DOMAIN freed |->
                 IF \E p \in Position(vec) : vec.slot[p].id = id
                 THEN freed[id] + 1 ELSE freed[id]]
  /\ UNCHANGED <<vec, made>>

Terminating == ~live /\ UNCHANGED vars

Next ==
  \/ \E k \in Key : AppendNew(k)
  \/ \E k \in Key, p \in 0 .. vec.logLen : Insert(k, p)
  \/ \E k \in Key, p \in Position(vec) : Replace(k, p)
  \/ \E p \in Position(vec) : Delete(p)
  \/ Sort
  \/ Dispose
  \/ Terminating

Spec == Init /\ [][Next]_vars
-----------------------------------------------------------------------------
(***************************************************************************)
(* Type invariant.                                                         *)
(***************************************************************************)
TypeOK ==
  /\ IsVector(vec, Elem)
  /\ live \in BOOLEAN
  /\ made \in 0 .. MaxElements
  /\ freed \in [1 .. MaxElements -> Nat]

(***************************************************************************)
(* Ownership: an element is in the vector, at one position and not freed,  *)
(* or has left it and been freed, once; after VectorDispose nothing the    *)
(* client made is left unfreed.                                            *)
(***************************************************************************)
Holds(id) == {p \in Position(vec) : live /\ vec.slot[p].id = id}

FreedOnce ==
  \A id \in 1 .. made :
    IF Holds(id) = {} THEN freed[id] = 1
    ELSE freed[id] = 0 /\ \A p, q \in Holds(id) : p = q

(***************************************************************************)
(* The block of slots, grown by realloc and shifted by memmove, implements *)
(* the sequence vector.h describes.                                        *)
(***************************************************************************)
Sequence == INSTANCE SequenceSpec WITH
              seq <- IF live THEN Contents(vec) ELSE << >>

Refinement == Sequence!Spec
=============================================================================
