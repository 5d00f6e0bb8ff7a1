SPECIFICATION Spec
CONSTANTS
  Player = {p1, p2, p3, p4, p5}
  Film = {f1, f2, f3, f4}
  Databases <- MCDatabases
  MaxLength = 3
SYMMETRY MCSymmetry
INVARIANTS TypeOK AnswerShortest NotFoundOnlyIfFar BreadthFirst ReverseLeadsBack
