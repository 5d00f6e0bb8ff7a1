------------------------------ MODULE Alignment ------------------------------
(***************************************************************************)
(* The alignment of two DNA strands in src/ass8 (align.py): the memoized   *)
(* recursion optimal, which passes its dictionary along, the starter       *)
(* code's findOptimalAlignment, and main's score strings with the test of  *)
(* them.  A strand is a sequence of bases.                                 *)
(***************************************************************************)
EXTENDS Integers, Sequences

CONSTANTS Gap,         \* ' '
          Separator    \* "|", which is not a base

Triple(score, al1, al2) == [score |-> score, al1 |-> al1, al2 |-> al2]

Gaps(n) == [i \in 1 .. n |-> Gap]

(***************************************************************************)
(* The only alignment there is when one of the strands is empty.           *)
(***************************************************************************)
UnpairedOnOneSide(s1, s2) ==   \* mutant: the gaps stand in the same strand in both cases
  IF s1 = << >> THEN Triple(-2 * Len(s2), Gaps(Len(s2)), s2)
                ELSE Triple(-2 * Len(s1), Gaps(Len(s1)), s1)

Unpaired(s1, s2) ==
  IF s1 = << >> THEN Triple(-2 * Len(s2), Gaps(Len(s2)), s2)
                ELSE Triple(-2 * Len(s1), s1, Gaps(Len(s1)))

Extended(best, base1, base2, points) ==
  Triple(best.score + points, <<base1>> \o best.al1, <<base2>> \o best.al2)

(***************************************************************************)
(* Both alternatives with a gap are compared with the one without.         *)
(***************************************************************************)
Chosen(with, withGap1, withGap2) ==
  IF withGap2.score > with.score THEN withGap2
  ELSE IF withGap1.score > with.score THEN withGap1 ELSE with

KeyWithoutSeparator(s1, s2) == s1 \o s2   \* mutant: the strands run into one another

toSearch(s1, s2) == s1 \o <<Separator>> \o s2

RECURSIVE optimal(_, _, _)

optimal(s1, s2, saved) ==
  IF toSearch(s1, s2) \in DOMAIN saved
  THEN [best |-> saved[toSearch(s1, s2)], saved |-> saved]
  ELSE IF s1 = << >> \/ s2 = << >>
  THEN [best |-> Unpaired(s1, s2), saved |-> saved]
  ELSE LET with == optimal(Tail(s1), Tail(s2), saved)
           paired(points) == Extended(with.best, Head(s1), Head(s2), points)
           gap1 == optimal(s1, Tail(s2), with.saved)
           gap2 == optimal(Tail(s1), s2, gap1.saved)
           best == Chosen(paired(-1), Extended(gap1.best, Gap, Head(s2), -2),
                                      Extended(gap2.best, Head(s1), Gap, -2))
       IN  IF Head(s1) = Head(s2)
           THEN [best |-> paired(1), saved |-> with.saved]
           ELSE [best |-> best,
                 saved |-> [k \in DOMAIN gap2.saved \cup {toSearch(s1, s2)} |->
                              IF k = toSearch(s1, s2) THEN best ELSE gap2.saved[k]]]

BestOfAlignedAndGap2(aligned, gap1, gap2) ==   \* mutant: a gap in the first strand is not tried
  IF gap2 - 2 > aligned THEN gap2 - 2 ELSE aligned

BestOf(aligned, gap1, gap2) ==
  LET best == IF gap1 - 2 > aligned THEN gap1 - 2 ELSE aligned
  IN  IF gap2 - 2 > best THEN gap2 - 2 ELSE best

RECURSIVE findOptimalAlignment(_, _)

findOptimalAlignment(s1, s2) ==
  IF s1 = << >> \/ s2 = << >> THEN -2 * (Len(s1) + Len(s2))
  ELSE LET bestWith == findOptimalAlignment(Tail(s1), Tail(s2))
       IN  IF Head(s1) = Head(s2) THEN bestWith + 1
           ELSE BestOf(bestWith - 1, findOptimalAlignment(s1, Tail(s2)),
                                     findOptimalAlignment(Tail(s1), s2))

(***************************************************************************)
(* main's two strings of scores, column by column, and the test of them.   *)
(***************************************************************************)
Plus(b1, b2) == IF b1 # Gap /\ b1 = b2 THEN 1 ELSE 0

Minus(b1, b2) == IF Gap \in {b1, b2} THEN 2 ELSE IF b1 = b2 THEN 0 ELSE 1

plusScore(al1, al2) == [i \in 1 .. Len(al1) |-> Plus(al1[i], al2[i])]

minusScore(al1, al2) == [i \in 1 .. Len(al1) |-> Minus(al1[i], al2[i])]

RECURSIVE testSumScore(_)

testSumScore(scores) ==
  IF scores = << >> THEN 0 ELSE Head(scores) + testSumScore(Tail(scores))

testValidateEach(b1, b2, plus, minus) ==
  CASE Gap \in {b1, b2} -> plus = 0 /\ minus = 2
    [] Gap \notin {b1, b2} /\ b1 = b2 -> plus = 1 /\ minus = 0
    [] OTHER -> plus = 0 /\ minus = 1

testStrands(score, plus, minus, al1, al2) ==
  /\ {Len(plus), Len(minus), Len(al2)} = {Len(al1)} /\ Len(plus) # 0
  /\ testSumScore(plus) - testSumScore(minus) = score
  /\ \A i \in 1 .. Len(plus) : testValidateEach(al1[i], al2[i], plus[i], minus[i])
-----------------------------------------------------------------------------
(***************************************************************************)
(* The scores of all the alignments of two strands, for reference.         *)
(***************************************************************************)
RECURSIVE AllScores(_, _)

AllScores(s1, s2) ==
  IF s1 = << >> /\ s2 = << >> THEN {0}
  ELSE (IF s1 # << >> THEN {n - 2 : n \in AllScores(Tail(s1), s2)} ELSE {})
       \cup (IF s2 # << >> THEN {n - 2 : n \in AllScores(s1, Tail(s2))} ELSE {})
       \cup (IF s1 # << >> /\ s2 # << >>
             THEN {n + (IF Head(s1) = Head(s2) THEN 1 ELSE -1) :
                     n \in AllScores(Tail(s1), Tail(s2))}
             ELSE {})
=============================================================================
