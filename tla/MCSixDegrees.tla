---------------------------- MODULE MCSixDegrees ----------------------------
(***************************************************************************)
(* Every database of films with two players, of which one may have three.  *)
(***************************************************************************)
EXTENDS SixDegrees, FiniteSets, TLC

MCDatabases ==
  {d \in [Film -> {c \in SUBSET Player : Cardinality(c) \in {2, 3}}] :
     Cardinality({f \in Film : Cardinality(d[f]) = 3}) <= 1}

MCSymmetry == Permutations(Player) \cup Permutations(Film)
=============================================================================
