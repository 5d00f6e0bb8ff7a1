----------------------------- MODULE MCHashSet ------------------------------
(***************************************************************************)
(* Five keys in two buckets: 1, 2 and 3 fall into one and 4 and 5 into the *)
(* other; 1 and 2, and 4 and 5, are equal.                                 *)
(***************************************************************************)
EXTENDS HashSet

MCHash == [k \in Key |-> IF k <= 3 THEN 0 ELSE 1]

MCSame == {<<k, k>> : k \in Key} \cup {<<1, 2>>, <<2, 1>>, <<4, 5>>, <<5, 4>>}
=============================================================================
