----------------------------- MODULE VectorOps ------------------------------
(***************************************************************************)
(* The generic vector of src/ass3 (vector.c) as operators on its struct: a *)
(* block of allocLen slots, of which the first logLen are in use.  What an *)
(* unused slot holds is junk, or what an element left behind.              *)
(***************************************************************************)
EXTENDS Integers, Sequences

CONSTANT Junk   \* what malloc and realloc leave in a slot

Position(v) == 0 .. v.logLen - 1

Contents(v) == [i \in 1 .. v.logLen |-> v.slot[i - 1]]

IsVector(v, Elem) ==
  /\ v.allocLen \in Nat \ {0} /\ v.logLen \in 0 .. v.allocLen
  /\ v.slot \in [0 .. v.allocLen - 1 -> Elem \cup {Junk}]
  /\ \A p \in Position(v) : v.slot[p] \in Elem

VectorNew(initialAllocation) ==
  LET allocLen == IF initialAllocation = 0 THEN 1 ELSE initialAllocation
  IN  [slot |-> [p \in 0 .. allocLen - 1 |-> Junk], logLen |-> 0,
       allocLen |-> allocLen]

(***************************************************************************)
(* realloc, when every slot is in use: the slots keep what they hold.      *)
(***************************************************************************)
GrownOffByOne(v) ==   \* mutant: grows one append too late
  LET allocLen == 2 * (v.allocLen + 1)
  IN  IF v.logLen <= v.allocLen THEN v
      ELSE [v EXCEPT !.allocLen = allocLen,
                     !.slot = [p \in 0 .. allocLen - 1 |->
                                 IF p < v.allocLen THEN v.slot[p] ELSE Junk]]

Grown(v) ==
  LET allocLen == 2 * (v.allocLen + 1)
  IN  IF v.logLen # v.allocLen THEN v
      ELSE [v EXCEPT !.allocLen = allocLen,
                     !.slot = [p \in 0 .. allocLen - 1 |->
                                 IF p < v.allocLen THEN v.slot[p] ELSE Junk]]

(***************************************************************************)
(* memmove of n slots, which may overlap.                                  *)
(***************************************************************************)
CopyUpwards(slot, target, source, n) ==   \* mutant: memcpy, lowest slot first
  [p \in DOMAIN slot |->
     IF p \in target .. target + n - 1
     THEN slot[IF target > source THEN source + ((p - target) % (target - source))
                                  ELSE source + (p - target)]
     ELSE slot[p]]

MemMove(slot, target, source, n) ==
  [p \in DOMAIN slot |->
     IF p \in target .. target + n - 1 THEN slot[source + (p - target)] ELSE slot[p]]

VectorAppend(v, e) ==
  LET w == Grown(v)
  IN  [w EXCEPT !.slot[w.logLen] = e, !.logLen = @ + 1]

VectorInsert(v, e, p) ==
  LET w == Grown(v)
  IN  IF p = v.logLen THEN VectorAppend(v, e)
      ELSE [w EXCEPT !.slot = [MemMove(@, p + 1, p, w.logLen - p) EXCEPT ![p] = e],
                     !.logLen = @ + 1]

VectorReplace(v, e, p) == [v EXCEPT !.slot[p] = e]

VectorDelete(v, p) ==
  [v EXCEPT !.slot = IF p = v.logLen - 1 THEN @
                     ELSE MemMove(@, p, p + 1, v.logLen - p - 1),
            !.logLen = @ - 1]

(***************************************************************************)
(* qsort: the elements in an order in which none comes after a greater     *)
(* one, lessEq being the pairs for which compare is not positive.          *)
(***************************************************************************)
VectorSorts(v, lessEq) ==
  {[v EXCEPT !.slot = [p \in DOMAIN @ |-> IF p \in Position(v) THEN @[f[p]] ELSE @[p]]] :
     f \in {g \in [Position(v) -> Position(v)] :
              /\ \A p, q \in Position(v) : p # q => g[p] # g[q]
              /\ \A p, q \in Position(v) :
                   p < q => <<v.slot[g[p]], v.slot[g[q]]>> \in lessEq}}

(***************************************************************************)
(* VectorSearch of a vector that is not sorted: the position of the first  *)
(* of the elements that match from startIndex on, or -1.                   *)
(***************************************************************************)
VectorSearch(v, matching, startIndex) ==
  LET found == {p \in startIndex .. v.logLen - 1 : v.slot[p] \in matching}
  IN  IF found = {} THEN -1 ELSE CHOOSE p \in found : \A q \in found : p <= q
=============================================================================
