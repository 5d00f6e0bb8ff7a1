---------------------------- MODULE KeyedSetSpec ----------------------------
(***************************************************************************)
(* What hashset.h promises: a set with at most one element of each class   *)
(* of equal elements, the last one entered.                                *)
(***************************************************************************)
EXTENDS Integers, Sequences

CONSTANTS Key, Same, MaxElements

VARIABLES members,   \* the elements in the set
          entered,   \* the keys entered so far; the n-th has identity n
          disposed   \* the set has been disposed of

vars == <<members, entered, disposed>>

Init == members = {} /\ entered = << >> /\ disposed = FALSE

Enter(k) ==
  /\ ~disposed /\ Len(entered) < MaxElements
  /\ members' = {e \in members : <<k, e.key>> \notin Same}
                  \cup {[key |-> k, id |-> Len(entered) + 1]}
  /\ entered' = Append(entered, k)
  /\ UNCHANGED disposed

Dispose ==
  /\ ~disposed
  /\ members' = {}
  /\ disposed' = TRUE
  /\ UNCHANGED entered

Next == (\E k \in Key : Enter(k)) \/ Dispose

Spec == Init /\ [][Next]_vars
=============================================================================
