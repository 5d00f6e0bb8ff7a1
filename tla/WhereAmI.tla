------------------------------ MODULE WhereAmI ------------------------------
(***************************************************************************)
(* The list functions of src/ass7 (where-am-i.scm).  A list is a sequence, *)
(* a point a pair of integers, a circle the pair of its radius and centre. *)
(* A rated point carries the square of its distance product: roots keep    *)
(* the order, and only the order of the ratings is used.                   *)
(***************************************************************************)
EXTENDS Integers, Sequences

prefix_of_list(ls, k) == SubSeq(ls, 1, IF k < Len(ls) THEN k ELSE Len(ls))

compare_points(p1, p2) == p1[1] < p2[1]

(***************************************************************************)
(* The elements less than the pivot, and the others, as they stood.        *)
(***************************************************************************)
partition(pivot, ls) ==
  LET Less(p) == compare_points(p, pivot)
      NotLess(p) == ~compare_points(p, pivot)
  IN  <<SelectSeq(ls, Less), SelectSeq(ls, NotLess)>>

RECURSIVE quicksortDroppingEqual(_), quicksort(_)

quicksortDroppingEqual(ls) ==   \* mutant: what equals the pivot is lost
  IF Len(ls) <= 1 THEN ls
  ELSE LET split == partition(Head(ls), Tail(ls))
           More(p) == compare_points(Head(ls), p)
       IN  quicksortDroppingEqual(split[1]) \o <<Head(ls)>>
             \o quicksortDroppingEqual(SelectSeq(split[2], More))

quicksort(ls) ==
  IF Len(ls) <= 1 THEN ls
  ELSE LET split == partition(Head(ls), Tail(ls))
       IN  quicksort(split[1]) \o <<Head(ls)>> \o quicksort(split[2])

removeFirst(elem, ls) ==   \* mutant: only the first of equal elements is left out
  LET at == {i \in 1 .. Len(ls) : ls[i] = elem}
      first == CHOOSE i \in at : \A j \in at : i <= j
  IN  IF at = {} THEN ls ELSE SubSeq(ls, 1, first - 1) \o SubSeq(ls, first + 1, Len(ls))

remove(elem, ls) ==
  LET Differs(e) == e # elem
  IN  SelectSeq(ls, Differs)

RECURSIVE Concat(_)

Concat(lists) == IF lists = << >> THEN << >> ELSE Head(lists) \o Concat(Tail(lists))

RECURSIVE all_guesses(_, _)

all_guesses(distances, stars) ==
  IF distances = << >> \/ stars = << >> THEN << << >> >>
  ELSE Concat([i \in 1 .. Len(stars) |->
                 LET rest == all_guesses(Tail(distances), remove(stars[i], stars))
                 IN  [j \in 1 .. Len(rest) |->
                        << <<Head(distances), stars[i]>> >> \o rest[j]]])

(***************************************************************************)
(* The pairs of circles that intersection-points calls intersect with, in  *)
(* order.  intersect gives two points for each and is not defined for two  *)
(* circles with the same centre.                                           *)
(***************************************************************************)
RECURSIVE Intersected(_)

Intersected(circles) ==
  IF circles = << >> THEN << >>
  ELSE [i \in 1 .. Len(circles) - 1 |-> <<Head(circles), circles[i + 1]>>]
         \o Intersected(Tail(circles))

SquaredDist(p, q) == (p[1] - q[1]) * (p[1] - q[1]) + (p[2] - q[2]) * (p[2] - q[2])

RECURSIVE Product(_)

Product(factors) == IF factors = << >> THEN 1 ELSE Head(factors) * Product(Tail(factors))

(***************************************************************************)
(* distance-product: a point equal to the given one is a factor of one.    *)
(***************************************************************************)
distance_product(p, points) ==
  IF points = << >> THEN 0
  ELSE Product([i \in 1 .. Len(points) |->
                  IF p = points[i] THEN 1 ELSE SquaredDist(p, points[i])])

rate_points(points) ==
  [i \in 1 .. Len(points) |-> <<distance_product(points[i], points), points[i]>>]

sort_points(rated) == quicksort(rated)

clumped_points(points) ==
  LET sorted == sort_points(rate_points(points))
  IN  prefix_of_list([i \in 1 .. Len(sorted) |-> sorted[i][2]], Len(points) \div 2)

(***************************************************************************)
(* best-estimate averages the clumped half of two points for each pair of  *)
(* circles; average divides by the length of what it is given.             *)
(***************************************************************************)
Averaged(circles) == (2 * Len(Intersected(circles))) \div 2
=============================================================================
