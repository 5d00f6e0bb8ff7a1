-------------------------- MODULE SixDegreesProofs --------------------------
(***************************************************************************)
(* Theorems about SixDegrees for any players, films, database and length   *)
(* at which the search gives up: the path printed is a shortest one, none  *)
(* is found only if there is none that short, and a path can be reversed.  *)
(***************************************************************************)
EXTENDS SixDegrees, SequenceTheorems, WellFoundedInduction, TLAPS

(***************************************************************************)
(* The inductive invariant.  Players of the queued paths still have their  *)
(* films to be looked at; so has the last player of the current path.      *)
(***************************************************************************)
Searching == pc \in {"queue", "movies", "cast"}

Expanding == pc \in {"movies", "cast"}

Seen == visitedPlayers \cup {source}

Length(i) == Len(bfsQ[i].links)

Depth == IF pc = "queue" THEN Length(1) ELSE Len(currPath.links)

Resting ==
  ~Searching => bfsQ = << >> /\ visitedMovies = {} /\ visitedPlayers = {}

AnswerInv ==
  /\ Searching \/ pc = "target" => answer.kind = "nothing"
  /\ AnswerShortest /\ NotFoundOnlyIfFar

QueueInv ==
  /\ \A i \in DOMAIN bfsQ : /\ IsShortest(bfsQ[i]) /\ GetLastPlayer(bfsQ[i]) \in Seen
                            /\ Depth <= Length(i) /\ Length(i) <= Depth + 1
  /\ \A i, j \in DOMAIN bfsQ :
       i < j => /\ Length(i) <= Length(j)
                /\ GetLastPlayer(bfsQ[i]) # GetLastPlayer(bfsQ[j])

CurrentInv ==
  Expanding =>
    /\ IsShortest(currPath) /\ Len(currPath.links) < MaxLength
    /\ movies \subseteq GetCredits(GetLastPlayer(currPath))
    /\ GetCredits(GetLastPlayer(currPath)) \subseteq
         visitedMovies \cup movies \cup (IF pc = "cast" THEN {movie} ELSE {})
    /\ pc = "cast" => /\ movie \in GetCredits(GetLastPlayer(currPath))
                      /\ cast \subseteq db[movie] /\ db[movie] \subseteq Seen \cup cast

Looked(player) == \A f \in Film : player \in db[f] => f \in visitedMovies

SeenInv ==
  Searching =>
    /\ target \notin Seen
    /\ \A f \in visitedMovies : db[f] \subseteq Seen
    /\ \A player \in Seen :
         \/ \E i \in DOMAIN bfsQ : player = GetLastPlayer(bfsQ[i])
         \/ Expanding /\ player = GetLastPlayer(currPath)
         \/ Looked(player)
    /\ Expanding \/ bfsQ # << >> => Within[Depth] \subseteq Seen

SearchInv == TypeOK /\ Resting /\ AnswerInv /\ QueueInv /\ CurrentInv /\ SeenInv
-----------------------------------------------------------------------------
(***************************************************************************)
(* Least elements, and the recursion that defines Within.                  *)
(***************************************************************************)
LEMMA LeastNumber ==
  ASSUME NEW T, T \subseteq Nat, T # {}
  PROVE  \E p \in T : \A q \in T : p <= q
<1> DEFINE R == {ss \in Nat \X Nat : ss[1] < ss[2]}
<1>1. IsWellFoundedOn(R, Nat)
  BY NatLessThanWellFounded, Zenon DEF OpToRel
<1>2. PICK p \in T : \A q \in T : ~ (<<q, p>> \in R)
  <2> HIDE DEF R
  <2> QED BY <1>1, WFMin, Zenon
<1>3. \A q \in T : ~ (q < p)
  BY <1>2
<1>4. \A q \in T : p <= q
  BY <1>3
<1> QED BY <1>4

Nearer(S) == S \cup UNION {db[f] : f \in {g \in Film : db[g] \cap S # {}}}

ReachesTo(r, n) ==
  r = [k \in 0 .. n |-> IF k = 0 THEN {source} ELSE Nearer(r[k - 1])]

LEMMA ReachExists ==
  ASSUME NEW n \in Nat
  PROVE  \E r : ReachesTo(r, n)
<1> DEFINE T == {k \in Nat : ~\E r : ReachesTo(r, k)}
<1>1. SUFFICES ASSUME T # {} PROVE FALSE
  OBVIOUS
<1>2. PICK m \in T : \A k \in T : m <= k
  <2>1. T \subseteq Nat
    OBVIOUS
  <2> HIDE DEF T
  <2> QED BY <1>1, <2>1, LeastNumber
<1>3. m # 0
  <2> DEFINE r == [k \in 0 .. 0 |-> {source}]
  <2>1. r = [k \in 0 .. 0 |-> IF k = 0 THEN {source} ELSE Nearer(r[k - 1])]
    OBVIOUS
  <2>2. ReachesTo(r, 0)
    BY <2>1 DEF ReachesTo
  <2> QED BY <2>2
<1>4. m \in Nat /\ m - 1 \in Nat
  BY <1>3
<1>5. m - 1 \notin T
  BY <1>2, <1>4
<1>6. PICK r : ReachesTo(r, m - 1)
  BY <1>4, <1>5
<1> DEFINE s == [k \in 0 .. m |-> IF k = m THEN Nearer(r[m - 1]) ELSE r[k]]
<1>7. \A k \in 0 .. m - 1 : r[k] = IF k = 0 THEN {source} ELSE Nearer(r[k - 1])
  BY <1>6 DEF ReachesTo
<1>8. ASSUME NEW k \in 0 .. m
      PROVE  s[k] = IF k = 0 THEN {source} ELSE Nearer(s[k - 1])
  <2>1. CASE k = m
    <3>1. k - 1 \in 0 .. m /\ k - 1 # m
      BY <1>3, <1>4, <2>1
    <3> QED BY <1>3, <2>1, <3>1
  <2>2. CASE k # m
    <3>1. k \in 0 .. m - 1 /\ (k # 0 => k - 1 \in 0 .. m /\ k - 1 # m)
      BY <1>4, <2>2
    <3>2. s[k] = r[k] /\ (k # 0 => s[k - 1] = r[k - 1])
      BY <2>2, <3>1
    <3> HIDE DEF s
    <3> QED BY <1>7, <3>1, <3>2
  <2> QED BY <2>1, <2>2
<1>9. ReachesTo(s, m)
  <2>1. s = [k \in 0 .. m |-> s[k]]
    OBVIOUS
  <2> HIDE DEF s
  <2> QED BY <1>8, <2>1 DEF ReachesTo
<1> QED BY <1>2, <1>9

LEMMA WithinFact ==
  /\ Within[0] = {source}
  /\ \A n \in 1 .. MaxLength : Within[n] = Nearer(Within[n - 1])
<1>1. Within = CHOOSE r : ReachesTo(r, MaxLength)
  BY DEF Within, ReachesTo, Nearer
<1>2. ReachesTo(Within, MaxLength)
  BY <1>1, ReachExists, SixDegreesAssumption
<1>3. \A k \in 0 .. MaxLength :
        Within[k] = IF k = 0 THEN {source} ELSE Nearer(Within[k - 1])
  BY <1>2 DEF ReachesTo
<1>4. 0 \in 0 .. MaxLength /\ \A k \in 1 .. MaxLength : k \in 0 .. MaxLength /\ k # 0
  BY SixDegreesAssumption
<1> QED BY <1>3, <1>4
-----------------------------------------------------------------------------
(***************************************************************************)
(* Paths: their fields, the path of one player and one connection more.    *)
(***************************************************************************)
Link == [movie : Film, player : Player]

LEMMA PathFact ==
  ASSUME NEW p \in Path
  PROVE  /\ p = [startPlayer |-> p.startPlayer, links |-> p.links]
         /\ p.startPlayer \in Player \cup {None}
         /\ p.links \in Seq(Link) /\ Len(p.links) \in Nat
         /\ DOMAIN p.links = 1 .. Len(p.links)
         /\ \A i \in 1 .. Len(p.links) :
              /\ p.links[i] = [movie |-> p.links[i].movie, player |-> p.links[i].player]
              /\ p.links[i].movie \in Film /\ p.links[i].player \in Player
         /\ GetLastPlayer(p) \in Player \cup {None}
<1>1. /\ p = [startPlayer |-> p.startPlayer, links |-> p.links]
      /\ p.startPlayer \in Player \cup {None} /\ p.links \in Seq(Link)
  BY DEF Path, Link
<1> DEFINE s == p.links
<1>2. /\ Len(s) \in Nat /\ DOMAIN s = 1 .. Len(s)
      /\ \A i \in 1 .. Len(s) : s[i] \in Link
  <2> HIDE DEF s
  <2>1. s \in Seq(Link)
    BY <1>1 DEF s
  <2> QED BY <2>1
<1>3. \A i \in 1 .. Len(s) : /\ s[i] = [movie |-> s[i].movie, player |-> s[i].player]
                             /\ s[i].movie \in Film /\ s[i].player \in Player
  BY <1>2 DEF Link
<1>4. GetLastPlayer(p) \in Player \cup {None}
  <2>1. CASE s = << >>
    BY <1>1, <2>1 DEF GetLastPlayer
  <2>2. CASE s # << >>
    <3>1. Len(s) \in 1 .. Len(s)
      <4>1. Len(s) # 0
        BY <1>1, <2>2, EmptySeq
      <4> QED BY <1>2, <4>1
    <3> QED BY <1>3, <2>2, <3>1 DEF GetLastPlayer
  <2> QED BY <2>1, <2>2
<1> QED BY <1>1, <1>2, <1>3, <1>4

LEMMA NewPathFact ==
  ASSUME NEW player \in Player \cup {None}
  PROVE  /\ NewPath(player) \in Path /\ Len(NewPath(player).links) = 0
         /\ GetLastPlayer(NewPath(player)) = player
         /\ NewPath(player).startPlayer = player
BY DEF NewPath, Path, GetLastPlayer

LEMMA ConnectionFact ==
  ASSUME NEW p \in Path, NEW film \in Film, NEW player \in Player,
         NEW copy, copy = AddConnection(p, film, player)
  PROVE  /\ copy \in Path /\ copy.startPlayer = p.startPlayer
         /\ Len(copy.links) = Len(p.links) + 1
         /\ \A i \in 1 .. Len(p.links) : copy.links[i] = p.links[i]
         /\ copy.links[Len(p.links) + 1].movie = film
         /\ copy.links[Len(p.links) + 1].player = player
         /\ GetLastPlayer(copy) = player
<1> DEFINE l == [movie |-> film, player |-> player]
           s == p.links
           t == Append(s, l)
           q == [startPlayer |-> p.startPlayer, links |-> t]
<1>1. copy = q
  <2>1. p = [startPlayer |-> p.startPlayer, links |-> p.links]
    BY PathFact
  <2>2. AddConnection(p, film, player) = [p EXCEPT !.links = t]
    BY DEF AddConnection
  <2> HIDE DEF t
  <2>3. [p EXCEPT !.links = t] = q
    BY <2>1
  <2> QED BY <2>2, <2>3
<1>2. s \in Seq(Link) /\ l \in Link /\ Len(s) \in Nat /\ p.startPlayer \in Player \cup {None}
  BY PathFact DEF Link
<1>3. l.player = player /\ l.movie = film
  OBVIOUS
<1> HIDE DEF l, s
<1>4. /\ t \in Seq(Link) /\ Len(t) = Len(s) + 1 /\ t[Len(s) + 1] = l
      /\ \A i \in 1 .. Len(s) : t[i] = s[i]
  BY <1>2
<1> HIDE DEF t
<1>5. q \in Path
  BY <1>2, <1>4 DEF Path, Link
<1>6. q.startPlayer = p.startPlayer /\ q.links = t
  OBVIOUS
<1>7. t # << >>
  BY <1>2, <1>4
<1> HIDE DEF q
<1>8. GetLastPlayer(q) = player
  BY <1>3, <1>4, <1>6, <1>7 DEF GetLastPlayer
<1>9. q.links[Len(s) + 1] = l
  BY <1>4, <1>6
<1> QED BY <1>1, <1>3, <1>4, <1>5, <1>6, <1>8, <1>9 DEF s

(***************************************************************************)
(* A connection added to a path that connects two players.                 *)
(***************************************************************************)
At(p, i) == IF i = 0 THEN p.startPlayer ELSE p.links[i].player

FilmAt(p, i) == p.links[i].movie

LEMMA ConnectsFact ==
  ASSUME NEW p \in Path, NEW a, NEW b
  PROVE  Connects(p, a, b) <=>
           /\ At(p, 0) = a /\ At(p, Len(p.links)) = b
           /\ \A i \in 1 .. Len(p.links) : {At(p, i - 1), At(p, i)} \subseteq db[p.links[i].movie]
<1>1. DOMAIN p.links = 1 .. Len(p.links)
  BY PathFact
<1> QED BY <1>1 DEF Connects, At

LEMMA LastAt ==
  ASSUME NEW p \in Path
  PROVE  GetLastPlayer(p) = At(p, Len(p.links))
<1>1. p.links = << >> <=> Len(p.links) = 0
  BY PathFact, EmptySeq
<1> QED BY <1>1 DEF GetLastPlayer, At

LEMMA ExtendPath ==
  ASSUME NEW p \in Path, NEW film \in Film, NEW player \in Player, NEW a,
         Connects(p, a, GetLastPlayer(p)),
         GetLastPlayer(p) \in db[film], player \in db[film],
         NEW q, q = AddConnection(p, film, player)
  PROVE  Connects(q, a, player)
<1> DEFINE n == Len(p.links)
<1>1. /\ q.startPlayer = p.startPlayer /\ Len(q.links) = n + 1
      /\ \A i \in 1 .. n : q.links[i] = p.links[i]
      /\ q.links[n + 1].movie = film /\ q.links[n + 1].player = player
  BY ConnectionFact
<1>2. n \in Nat /\ q \in Path
  BY PathFact, ConnectionFact
<1>3. /\ At(p, 0) = a /\ At(p, n) = GetLastPlayer(p)
      /\ \A i \in 1 .. n : {At(p, i - 1), At(p, i)} \subseteq db[p.links[i].movie]
  BY ConnectsFact
<1> HIDE DEF n
<1>4. \A i \in 0 .. n : At(q, i) = At(p, i)
  BY <1>1, <1>2 DEF At
<1>5. At(q, n + 1) = player
  BY <1>1, <1>2 DEF At
<1>6. ASSUME NEW i \in 1 .. n + 1
      PROVE  {At(q, i - 1), At(q, i)} \subseteq db[q.links[i].movie]
  <2>1. CASE i = n + 1
    <3>1. i - 1 = n /\ n \in 0 .. n
      BY <1>2, <2>1
    <3>2. At(q, i - 1) = GetLastPlayer(p)
      BY <1>3, <1>4, <3>1
    <3> QED BY <1>1, <1>5, <2>1, <3>2
  <2>2. CASE i # n + 1
    <3>1. i \in 1 .. n /\ i - 1 \in 0 .. n /\ i \in 0 .. n
      BY <1>2, <2>2
    <3> QED BY <1>1, <1>3, <1>4, <3>1
  <2> QED BY <2>1, <2>2
<1>7. At(q, 0) = a
  BY <1>2, <1>3, <1>4
<1> QED BY <1>1, <1>2, <1>5, <1>6, <1>7, ConnectsFact

(***************************************************************************)
(* Reversing: the n-th player from the start becomes the n-th from the     *)
(* end, and reversing twice changes nothing.                               *)
(***************************************************************************)
LEMMA ReverseFact ==
  ASSUME NEW p \in Path
  PROVE  /\ Reverse(p).startPlayer = At(p, Len(p.links))
         /\ Len(Reverse(p).links) = Len(p.links)
         /\ \A i \in 1 .. Len(p.links) :
              Reverse(p).links[i] = [movie |-> p.links[Len(p.links) + 1 - i].movie,
                                     player |-> At(p, Len(p.links) - i)]
         /\ \A i \in 1 .. Len(p.links) :
              FilmAt(Reverse(p), i) = FilmAt(p, Len(p.links) + 1 - i)
         /\ Reverse(p) = [startPlayer |-> Reverse(p).startPlayer, links |-> Reverse(p).links]
         /\ DOMAIN Reverse(p).links = 1 .. Len(p.links)
         /\ Reverse(p).links = [i \in 1 .. Len(p.links) |-> Reverse(p).links[i]]
         /\ \A i \in 0 .. Len(p.links) : At(Reverse(p), i) = At(p, Len(p.links) - i)
<1> DEFINE n == Len(p.links)
           L(i) == [movie |-> p.links[n + 1 - i].movie,
                    player |-> IF i = n THEN p.startPlayer ELSE p.links[n - i].player]
           s == [i \in 1 .. n |-> L(i)]
           q == [startPlayer |-> GetLastPlayer(p), links |-> s]
<1>1. Reverse(p) = q
  BY DEF Reverse
<1>2. n \in Nat
  BY PathFact
<1> HIDE DEF n, L
<1>3. Len(s) = n /\ DOMAIN s = 1 .. n /\ \A i \in 1 .. n : s[i] = L(i)
  BY <1>2
<1>4. \A i \in 1 .. n : L(i) = [movie |-> p.links[n + 1 - i].movie, player |-> At(p, n - i)]
  <2>1. \A i \in 1 .. n : i = n <=> n - i = 0
    BY <1>2
  <2> QED BY <2>1 DEF L, At
<1>5. GetLastPlayer(p) = At(p, n)
  BY LastAt DEF n
<1>6. s = [i \in 1 .. n |-> s[i]]
  OBVIOUS
<1> HIDE DEF s
<1>7. /\ q.startPlayer = At(p, n) /\ q.links = s
      /\ q = [startPlayer |-> q.startPlayer, links |-> q.links]
  BY <1>5
<1>8. ASSUME NEW i \in 0 .. n PROVE At(q, i) = At(p, n - i)
  <2>1. CASE i = 0
    BY <1>2, <1>7, <2>1 DEF At
  <2>2. CASE i # 0
    <3>1. i \in 1 .. n
      BY <1>2, <2>2
    <3>2. q.links[i].player = At(p, n - i)
      BY <1>3, <1>4, <1>7, <3>1
    <3>3. At(q, i) = q.links[i].player
      BY <2>2 DEF At
    <3> QED BY <3>2, <3>3
  <2> QED BY <2>1, <2>2
<1>9. \A i \in 1 .. n : FilmAt(q, i) = FilmAt(p, n + 1 - i)
  <2>1. \A i \in 1 .. n : L(i).movie = p.links[n + 1 - i].movie
    BY DEF L
  <2> QED BY <1>3, <1>7, <2>1 DEF FilmAt
<1> HIDE DEF q
<1> QED BY <1>1, <1>3, <1>4, <1>6, <1>7, <1>8, <1>9 DEF n

LEMMA ReverseConnects ==
  ASSUME NEW p \in Path, NEW a, NEW b, Connects(p, a, b)
  PROVE  Connects(Reverse(p), b, a) /\ Reverse(Reverse(p)) = p
<1> DEFINE n == Len(p.links)
           q == Reverse(p)
<1>1. /\ n \in Nat /\ q.startPlayer = At(p, n) /\ Len(q.links) = n /\ DOMAIN q.links = 1 .. n
      /\ \A i \in 1 .. n :
           q.links[i] = [movie |-> p.links[n + 1 - i].movie, player |-> At(p, n - i)]
      /\ \A i \in 0 .. n : At(q, i) = At(p, n - i)
  BY PathFact, ReverseFact
<1>2. /\ At(p, 0) = a /\ At(p, n) = b
      /\ \A i \in 1 .. n : {At(p, i - 1), At(p, i)} \subseteq db[p.links[i].movie]
  BY ConnectsFact
<1>3. /\ \A i \in 1 .. n : p.links[i].movie \in Film /\ p.links[i].player \in Player
      /\ p.startPlayer \in Player \cup {None}
      /\ p.links = [i \in 1 .. n |-> p.links[i]]
  <2> DEFINE l == p.links
  <2>1. l \in Seq(Link) /\ n = Len(l)
    BY PathFact
  <2>2. l = [i \in 1 .. n |-> l[i]]
    <3> HIDE DEF l, n
    <3> QED BY <2>1
  <2>3. /\ \A i \in 1 .. n : p.links[i].movie \in Film /\ p.links[i].player \in Player
        /\ p.startPlayer \in Player \cup {None}
    BY PathFact
  <2> QED BY <2>2, <2>3
<1> HIDE DEF n, q
<1>13. \A i \in 1 .. n : FilmAt(q, i) = FilmAt(p, n + 1 - i)
  BY ReverseFact DEF FilmAt, n, q
<1>4. At(q, 0) = b /\ At(q, n) = a
  <2>1. n - 0 = n /\ n - n = 0 /\ 0 \in 0 .. n /\ n \in 0 .. n
    BY <1>1
  <2> QED BY <1>1, <1>2, <2>1
<1>5. ASSUME NEW i \in 1 .. n
      PROVE  {At(q, i - 1), At(q, i)} \subseteq db[q.links[i].movie]
  <2> DEFINE j == n + 1 - i
  <2>1. /\ j \in 1 .. n /\ i - 1 \in 0 .. n /\ i \in 0 .. n
        /\ n - (i - 1) = j /\ n - i = j - 1
    BY <1>1
  <2>2. At(q, i - 1) = At(p, j) /\ At(q, i) = At(p, j - 1)
    BY <1>1, <2>1
  <2>3. FilmAt(q, i) = FilmAt(p, j)
    <3> QED BY <1>13
  <2>4. {At(p, j - 1), At(p, j)} \subseteq db[FilmAt(p, j)]
    <3> HIDE DEF j
    <3> QED BY <1>2, <2>1 DEF FilmAt
  <2> HIDE DEF j
  <2>5. {At(q, i - 1), At(q, i)} \subseteq db[FilmAt(q, i)]
    BY <2>2, <2>3, <2>4
  <2> QED BY <2>5 DEF FilmAt
<1>6. Connects(q, b, a)
  BY <1>1, <1>4, <1>5 DEF Connects, At
<1> DEFINE s == [i \in 1 .. n |->
                   [movie |-> q.links[n + 1 - i].movie,
                    player |-> IF i = n THEN q.startPlayer ELSE q.links[n - i].player]]
<1>7. GetLastPlayer(q) = At(q, n)
  <2>1. q.links = << >> <=> n = 0
    BY <1>1, EmptySeq
  <2> QED BY <1>1, <2>1 DEF GetLastPlayer, At
<1>8. Reverse(q) = [startPlayer |-> At(q, n), links |-> s]
  BY <1>1, <1>7 DEF Reverse
<1>9. s = p.links
  <2> SUFFICES ASSUME NEW i \in 1 .. n PROVE s[i] = p.links[i]
    BY <1>3
  <2> DEFINE j == n + 1 - i
  <2>1. j \in 1 .. n /\ n + 1 - j = i /\ n - i \in 0 .. n /\ n - (n - i) = i
    BY <1>1
  <2>2. q.links[j].movie = p.links[i].movie
    <3>1. FilmAt(q, j) = FilmAt(p, i)
      <4> HIDE DEF j
      <4> QED BY <1>13, <2>1
    <3> QED BY <3>1 DEF FilmAt
  <2>3. (IF i = n THEN q.startPlayer ELSE q.links[n - i].player) = p.links[i].player
    <3>1. n - i = 0 <=> i = n
      BY <1>1
    <3>2. At(q, n - i) = At(p, i)
      BY <1>1, <2>1
    <3>3. At(p, i) = p.links[i].player
      BY <1>1 DEF At
    <3> QED BY <3>1, <3>2, <3>3 DEF At
  <2>4. p.links[i] = [movie |-> p.links[i].movie, player |-> p.links[i].player]
    BY PathFact DEF n
  <2> QED BY <2>2, <2>3, <2>4
<1>10. At(q, n) = p.startPlayer /\ p = [startPlayer |-> p.startPlayer, links |-> p.links]
  BY <1>2, <1>4, PathFact DEF At
<1>11. Reverse(q) = p
  <2> HIDE DEF s
  <2> QED BY <1>8, <1>9, <1>10
<1> QED BY <1>6, <1>11 DEF q
-----------------------------------------------------------------------------
(***************************************************************************)
(* The players within a number of films of the source depend on nothing    *)
(* but the database and the source; and how they grow.                     *)
(***************************************************************************)
ReachOf(d, s, m) ==
  CHOOSE r : r = [k \in 0 .. m |->
                    IF k = 0 THEN {s}
                    ELSE r[k - 1] \cup
                         UNION {d[f] : f \in {g \in Film : d[g] \cap r[k - 1] # {}}}]

LEMMA SameWithin ==
  ASSUME UNCHANGED <<db, source>>
  PROVE  /\ Within' = Within
         /\ \A p : IsShortest(p)' <=> IsShortest(p)
         /\ \A p, a, b : Connects(p, a, b)' <=> Connects(p, a, b)
<1>1. Within = ReachOf(db, source, MaxLength)
  BY DEF Within, ReachOf
<1>2. Within' = ReachOf(db', source', MaxLength)
  BY DEF Within, ReachOf
<1>3. Within' = Within
  BY <1>1, <1>2
<1>4. \A p, a, b : Connects(p, a, b)' <=> Connects(p, a, b)
  BY DEF Connects
<1>5. \A p : IsShortest(p)' <=> IsShortest(p)
  BY <1>3, <1>4 DEF IsShortest
<1> QED BY <1>3, <1>4, <1>5

LEMMA NextLevel ==
  ASSUME NEW n \in Nat, n + 1 <= MaxLength, NEW S, Within[n] \subseteq S,
         \A player \in Within[n] : \A f \in Film : player \in db[f] => db[f] \subseteq S
  PROVE  Within[n + 1] \subseteq S
<1>1. n + 1 \in 1 .. MaxLength /\ (n + 1) - 1 = n
  BY SixDegreesAssumption
<1>2. Within[n + 1] = Nearer(Within[n])
  BY <1>1, WithinFact
<1> QED BY <1>2 DEF Nearer

LEMMA AllLevels ==
  ASSUME NEW S, source \in S,
         \A player \in S : \A f \in Film : player \in db[f] => db[f] \subseteq S
  PROVE  \A n \in 0 .. MaxLength : Within[n] \subseteq S
<1> DEFINE T == {n \in 0 .. MaxLength : ~(Within[n] \subseteq S)}
<1>1. SUFFICES ASSUME T # {} PROVE FALSE
  OBVIOUS
<1>2. PICK m \in T : \A n \in T : m <= n
  <2>1. T \subseteq Nat
    BY SixDegreesAssumption
  <2> HIDE DEF T
  <2> QED BY <1>1, <2>1, LeastNumber
<1>3. m # 0
  BY WithinFact
<1>4. m - 1 \in Nat /\ m - 1 \in 0 .. MaxLength /\ (m - 1) + 1 = m /\ m <= MaxLength
  BY <1>3, SixDegreesAssumption
<1>5. m - 1 \notin T
  BY <1>2, <1>4
<1>6. Within[m - 1] \subseteq S
  BY <1>4, <1>5
<1>7. Within[(m - 1) + 1] \subseteq S
  <2> DEFINE n == m - 1
  <2> HIDE DEF n
  <2>1. n \in Nat /\ n + 1 <= MaxLength /\ Within[n] \subseteq S
    BY <1>4, <1>6 DEF n
  <2> QED BY <2>1, NextLevel DEF n
<1> QED BY <1>4, <1>7
-----------------------------------------------------------------------------
(***************************************************************************)
(* What the types say of the queue, the current path and the answer.       *)
(***************************************************************************)
LEMMA TypeFact ==
  ASSUME TypeOK
  PROVE  /\ db \in [Film -> SUBSET Player]
         /\ Len(bfsQ) \in Nat /\ DOMAIN bfsQ = 1 .. Len(bfsQ)
         /\ \A i \in 1 .. Len(bfsQ) :
              bfsQ[i] \in Path /\ Length(i) \in Nat /\ Length(i) <= MaxLength
         /\ bfsQ = << >> <=> Len(bfsQ) = 0
         /\ currPath \in Path /\ Len(currPath.links) \in Nat
         /\ answer.path \in Path /\ Len(answer.path.links) <= MaxLength
<1>1. bfsQ \in Seq(Path) /\ db \in [Film -> SUBSET Player] /\ currPath \in Path /\ answer.path \in Path
  BY DEF TypeOK
<1>2. Len(bfsQ) \in Nat /\ DOMAIN bfsQ = 1 .. Len(bfsQ) /\ \A i \in 1 .. Len(bfsQ) : bfsQ[i] \in Path
  BY <1>1
<1>3. bfsQ = << >> <=> Len(bfsQ) = 0
  BY <1>1, EmptySeq
<1>4. \A p \in {bfsQ[i] : i \in DOMAIN bfsQ} \cup {answer.path} : Len(p.links) <= MaxLength
  BY DEF TypeOK
<1>5. \A p \in Path : Len(p.links) \in Nat
  BY PathFact
<1> QED BY <1>1, <1>2, <1>3, <1>4, <1>5 DEF Length

LEMMA SeqDomain ==
  ASSUME NEW S, NEW s \in Seq(S)
  PROVE  DOMAIN s = 1 .. Len(s) /\ Len(s) \in Nat /\ \A i \in 1 .. Len(s) : s[i] \in S
OBVIOUS

LEMMA NoneQueued ==
  ASSUME NEW S, NEW s \in Seq(S), Len(s) = 0
  PROVE  DOMAIN s = {}
OBVIOUS

LEMMA SaysFact ==
  ASSUME NEW word \in {"nothing", "goodOne", "notFound"}, NEW a, a = Says(word)
  PROVE  /\ a \in [kind : {"nothing", "goodOne", "notFound", "path"}, path : Path]
         /\ a.kind = word /\ Len(a.path.links) <= MaxLength
<1> DEFINE p == NewPath(None)
<1>1. p \in Path /\ Len(p.links) = 0 /\ MaxLength \in Nat
  BY NewPathFact, SixDegreesAssumption
<1>2. a = [kind |-> word, path |-> p]
  BY DEF Says
<1> HIDE DEF p
<1> QED BY <1>1, <1>2

(***************************************************************************)
(* The search prints its answer, and its containers are disposed of.       *)
(***************************************************************************)
LEMMA PrintKeeps ==
  ASSUME SearchInv, NEW a, PrintAnswer(a), UNCHANGED <<db, source, target>>,
         a \in [kind : {"nothing", "goodOne", "notFound", "path"}, path : Path],
         Len(a.path.links) <= MaxLength,
         a.kind = "path" => IsShortest(a.path) /\ Connects(a.path, source, target),
         a.kind = "notFound" => target \notin Within[MaxLength]
  PROVE  SearchInv'
<1>1. /\ answer' = a /\ pc' = "source" /\ bfsQ' = << >>
      /\ visitedMovies' = {} /\ visitedPlayers' = {}
      /\ currPath' = NewPath(None) /\ movies' = {} /\ movie' = None /\ cast' = {}
  BY DEF PrintAnswer
<1>8. bfsQ' \in Seq(Path) /\ DOMAIN bfsQ' = {}
  <2>1. bfsQ' \in Seq(Path) /\ Len(bfsQ') = 0
    BY <1>1, EmptySeq
  <2>2. DOMAIN bfsQ' = {}
    BY <2>1, NoneQueued
  <2> QED BY <2>1, <2>2
<1>2. TypeOK'
  <2>1. NewPath(None) \in Path
    BY NewPathFact
  <2>2. bfsQ' \in Seq(Path) /\ DOMAIN bfsQ' = {}
    BY <1>8
  <2>3. \A p \in {bfsQ'[i] : i \in DOMAIN bfsQ'} \cup {answer'.path} : Len(p.links) <= MaxLength
    BY <1>1, <2>2
  <2> QED BY <1>1, <2>1, <2>2, <2>3 DEF TypeOK, SearchInv
<1>3. ~Searching' /\ ~Expanding'
  BY <1>1 DEF Searching, Expanding
<1>4. Resting'
  BY <1>1 DEF Resting
<1>5. AnswerInv'
  BY <1>1, <1>3, SameWithin DEF AnswerInv, AnswerShortest, NotFoundOnlyIfFar
<1>6. QueueInv'
  BY <1>8 DEF QueueInv
<1>7. CurrentInv' /\ SeenInv'
  BY <1>3 DEF CurrentInv, SeenInv
<1> QED BY <1>2, <1>4, <1>5, <1>6, <1>7 DEF SearchInv
-----------------------------------------------------------------------------
(***************************************************************************)
(* The prompts.                                                            *)
(***************************************************************************)
LEMMA PromptKeeps ==
  ASSUME SearchInv, NEW player, (player \in Player /\ PromptSource(player)) \/ Quit
  PROVE  SearchInv'
<1>1. /\ UNCHANGED <<db, locals>> /\ ~Searching /\ pc' \in {"target", "quit"}
      /\ \/ /\ answer' = Says("nothing") /\ player \in Player /\ source' = player
            /\ target' = None /\ pc' = "target"
         \/ answer' = answer /\ source' = source /\ target' = target /\ pc' = "quit"
  BY DEF PromptSource, Quit, Searching
<1>2. bfsQ = << >> /\ visitedMovies = {} /\ visitedPlayers = {}
  BY <1>1 DEF SearchInv, Resting
<1>3. DOMAIN bfsQ' = {}
  <2>1. bfsQ \in Seq(Path) /\ Len(bfsQ) = 0
    BY <1>2, EmptySeq
  <2>2. bfsQ' = bfsQ
    BY <1>1 DEF locals
  <2> QED BY <2>1, <2>2, NoneQueued
<1>4. ASSUME answer' = Says("nothing")
      PROVE  /\ answer'.kind = "nothing" /\ Len(answer'.path.links) <= MaxLength
             /\ answer' \in [kind : {"nothing", "goodOne", "notFound", "path"}, path : Path]
  BY <1>4, SaysFact
<1>5. TypeOK'
  <2>1. answer' = answer \/ answer' = Says("nothing")
    BY <1>1
  <2>2. answer' \in [kind : {"nothing", "goodOne", "notFound", "path"}, path : Path]
    BY <1>4, <2>1 DEF SearchInv, TypeOK
  <2>3. Len(answer'.path.links) <= MaxLength
    BY <1>4, <2>1, TypeFact DEF SearchInv
  <2>4. \A p \in {bfsQ'[i] : i \in DOMAIN bfsQ'} \cup {answer'.path} : Len(p.links) <= MaxLength
    BY <1>3, <2>3
  <2>5. source' \in Player \cup {None} /\ target' \in Player \cup {None}
    BY <1>1 DEF SearchInv, TypeOK
  <2>6. /\ db' \in [Film -> SUBSET Player] /\ bfsQ' \in Seq(Path)
        /\ visitedMovies' \subseteq Film /\ visitedPlayers' \subseteq Player
        /\ currPath' \in Path
        /\ movies' \subseteq Film /\ movie' \in Film \cup {None} /\ cast' \subseteq Player
    BY <1>1 DEF SearchInv, TypeOK, locals
  <2> QED BY <1>1, <2>2, <2>4, <2>5, <2>6 DEF TypeOK
<1>6. ~Searching' /\ ~Expanding'
  BY <1>1 DEF Searching, Expanding
<1>7. Resting' /\ QueueInv' /\ CurrentInv' /\ SeenInv'
  BY <1>1, <1>2, <1>3, <1>6 DEF Resting, QueueInv, CurrentInv, SeenInv, locals
<1>8. AnswerInv'
  <2>1. CASE answer' = Says("nothing")
    BY <1>4, <2>1 DEF AnswerInv, AnswerShortest, NotFoundOnlyIfFar
  <2>2. CASE answer' = answer /\ source' = source /\ target' = target /\ pc' = "quit"
    <3>1. AnswerShortest /\ NotFoundOnlyIfFar
      BY DEF SearchInv, AnswerInv
    <3>2. AnswerShortest' /\ NotFoundOnlyIfFar'
      BY <1>1, <2>2, <3>1, SameWithin DEF AnswerShortest, NotFoundOnlyIfFar
    <3> QED BY <1>6, <2>2, <3>2 DEF AnswerInv
  <2> QED BY <1>1, <2>1, <2>2
<1> QED BY <1>5, <1>7, <1>8 DEF SearchInv

LEMMA PromptTargetKeeps ==
  ASSUME SearchInv, NEW player \in Player, PromptTarget(player)
  PROVE  SearchInv'
<1>1. /\ pc = "target" /\ target' = player /\ UNCHANGED <<db, source>>
      /\ UNCHANGED <<visitedMovies, visitedPlayers, currPath, movies, movie, cast>>
      /\ ~Searching
  BY DEF PromptTarget, Searching
<1>2. bfsQ = << >> /\ visitedMovies = {} /\ visitedPlayers = {} /\ answer.kind = "nothing"
  BY <1>1 DEF SearchInv, Resting, AnswerInv
<1>3. /\ db' \in [Film -> SUBSET Player]
      /\ source' \in Player \cup {None} /\ target' \in Player \cup {None}
      /\ visitedMovies' \subseteq Film /\ visitedPlayers' \subseteq Player
      /\ currPath' \in Path
      /\ movies' \subseteq Film /\ movie' \in Film \cup {None} /\ cast' \subseteq Player
  BY <1>1 DEF SearchInv, TypeOK
<1>4. CASE player = source
  <2>1. pc' = "source" /\ answer' = Says("goodOne") /\ bfsQ' = bfsQ
    BY <1>4 DEF PromptTarget
  <2>2. bfsQ' \in Seq(Path) /\ DOMAIN bfsQ' = {}
    <3>1. bfsQ \in Seq(Path) /\ Len(bfsQ) = 0
      BY <1>2, EmptySeq
    <3> QED BY <2>1, <3>1, NoneQueued
  <2>3. /\ answer' \in [kind : {"nothing", "goodOne", "notFound", "path"}, path : Path]
        /\ Len(answer'.path.links) <= MaxLength /\ answer'.kind = "goodOne"
    BY <2>1, SaysFact
  <2>4. \A p \in {bfsQ'[i] : i \in DOMAIN bfsQ'} \cup {answer'.path} : Len(p.links) <= MaxLength
    BY <2>2, <2>3
  <2>5. TypeOK'
    BY <1>3, <2>1, <2>2, <2>3, <2>4 DEF TypeOK
  <2>6. ~Searching' /\ ~Expanding'
    BY <2>1 DEF Searching, Expanding
  <2>7. AnswerInv'
    BY <2>1, <2>3, <2>6 DEF AnswerInv, AnswerShortest, NotFoundOnlyIfFar
  <2> QED BY <1>1, <1>2, <2>1, <2>2, <2>5, <2>6, <2>7
          DEF SearchInv, Resting, QueueInv, CurrentInv, SeenInv
<1>5. CASE player # source
  <2> DEFINE p == NewPath(source)
  <2>1. pc' = "queue" /\ answer' = answer /\ bfsQ' = << p >>
    BY <1>5 DEF PromptTarget
  <2>2. p \in Path /\ Len(p.links) = 0 /\ GetLastPlayer(p) = source /\ p.startPlayer = source
    BY <1>1, <1>3, NewPathFact
  <2>3. IsShortest(p)
    <3>1. At(p, 0) = source
      BY <2>2 DEF At
    <3>2. Connects(p, source, source)
      <4> HIDE DEF p
      <4>1. \A i \in 1 .. Len(p.links) : FALSE
        BY <2>2
      <4> QED BY <2>2, <3>1, <4>1, ConnectsFact
    <3> QED BY <2>2, <3>2 DEF IsShortest
  <2> HIDE DEF p
  <2>4. bfsQ' \in Seq(Path) /\ DOMAIN bfsQ' = {1} /\ bfsQ'[1] = p
    BY <2>1, <2>2
  <2>5. Len(answer'.path.links) <= MaxLength
    BY <2>1, TypeFact DEF SearchInv
  <2>6. \A q \in {bfsQ'[i] : i \in DOMAIN bfsQ'} \cup {answer'.path} : Len(q.links) <= MaxLength
    BY <2>2, <2>4, <2>5, SixDegreesAssumption
  <2>7. TypeOK'
    BY <1>3, <2>1, <2>4, <2>6 DEF SearchInv, TypeOK
  <2>8. Searching' /\ ~Expanding'
    BY <2>1 DEF Searching, Expanding
  <2>10. Depth' = 0 /\ Seen' = {source}
    BY <1>1, <1>2, <2>1, <2>2, <2>4 DEF Depth, Length, Seen
  <2>11. QueueInv'
    <3>1. /\ IsShortest(bfsQ[1])'
          /\ Length(1)' = 0 /\ GetLastPlayer(bfsQ'[1]) = source
      <4>1. \A q : IsShortest(q)' <=> IsShortest(q)
        BY <1>1, SameWithin
      <4> QED BY <2>2, <2>3, <2>4, <4>1 DEF Length
    <3> QED BY <2>4, <2>10, <3>1 DEF QueueInv
  <2>12. SeenInv'
    <3>1. Within'[0] = {source}
      BY <1>1, SameWithin, WithinFact
    <3>2. target' \notin Seen' /\ visitedMovies' = {}
      BY <1>1, <1>2, <1>5, <2>10
    <3>3. \A y \in Seen' : \E i \in DOMAIN bfsQ' : y = GetLastPlayer(bfsQ'[i])
      BY <2>2, <2>4, <2>10
    <3> QED BY <2>10, <3>1, <3>2, <3>3 DEF SeenInv
  <2>13. AnswerInv' /\ Resting' /\ CurrentInv'
    BY <1>2, <2>1, <2>8 DEF AnswerInv, AnswerShortest, NotFoundOnlyIfFar, Resting, CurrentInv
  <2> QED BY <2>7, <2>11, <2>12, <2>13 DEF SearchInv
<1> QED BY <1>4, <1>5
-----------------------------------------------------------------------------
(***************************************************************************)
(* The search gives up: every player as near as the head of the queue has  *)
(* been seen, and without a queue every player that can be reached.        *)
(***************************************************************************)
LEMMA NotFoundKeeps ==
  ASSUME SearchInv, NotFound
  PROVE  SearchInv'
<1>1. /\ pc = "queue" /\ PrintAnswer(Says("notFound")) /\ UNCHANGED <<db, source, target>>
      /\ bfsQ # << >> => TooLong(Head(bfsQ))
  BY DEF NotFound
<1>2. Searching /\ ~Expanding
  BY <1>1 DEF Searching, Expanding
<1>3. /\ target \notin Seen
      /\ \A f \in visitedMovies : db[f] \subseteq Seen
      /\ \A player \in Seen :
           (\E i \in DOMAIN bfsQ : player = GetLastPlayer(bfsQ[i])) \/ Looked(player)
      /\ bfsQ # << >> => Within[Depth] \subseteq Seen
  BY <1>2 DEF SearchInv, SeenInv
<1>4. MaxLength \in Nat /\ MaxLength \in 0 .. MaxLength
  BY SixDegreesAssumption
<1>5. Within[MaxLength] \subseteq Seen
  <2>1. CASE bfsQ = << >>
    <3>1. DOMAIN bfsQ = {}
      <4>1. bfsQ \in Seq(Path) /\ Len(bfsQ) = 0
        BY <2>1, EmptySeq
      <4> QED BY <4>1, NoneQueued
    <3>2. \A player \in Seen : \A f \in Film : player \in db[f] => db[f] \subseteq Seen
      BY <1>3, <3>1 DEF Looked
    <3>3. source \in Seen
      BY DEF Seen
    <3> HIDE DEF Seen
    <3> QED BY <1>4, <3>2, <3>3, AllLevels
  <2>2. CASE bfsQ # << >>
    <3>1. bfsQ \in Seq(Path) /\ Len(bfsQ) \in Nat /\ Len(bfsQ) # 0
      BY <2>2, TypeFact DEF SearchInv, TypeOK
    <3>2. 1 \in 1 .. Len(bfsQ) /\ Head(bfsQ) = bfsQ[1]
      BY <3>1
    <3>3. Depth <= MaxLength /\ Depth \in Nat /\ Depth = Length(1)
      BY <1>1, <3>2, TypeFact DEF SearchInv, Depth
    <3>4. Len(bfsQ[1].links) >= MaxLength
      BY <1>1, <2>2, <3>2 DEF TooLong
    <3>5. Depth = MaxLength
      BY <1>4, <3>3, <3>4 DEF Length
    <3> QED BY <1>3, <2>2, <3>5
  <2> QED BY <2>1, <2>2
<1>6. target \notin Within[MaxLength]
  BY <1>3, <1>5
<1> DEFINE a == Says("notFound")
<1>7. /\ a \in [kind : {"nothing", "goodOne", "notFound", "path"}, path : Path]
      /\ a.kind = "notFound" /\ Len(a.path.links) <= MaxLength /\ PrintAnswer(a)
  BY <1>1, SaysFact
<1> HIDE DEF a
<1> QED BY <1>1, <1>6, <1>7, PrintKeeps

(***************************************************************************)
(* The head of the queue is taken.                                         *)
(***************************************************************************)
LEMMA PopKeeps ==
  ASSUME SearchInv, PopPath
  PROVE  SearchInv'
<1> DEFINE n == Len(bfsQ)
           q == Tail(bfsQ)
<1>1. /\ pc = "queue" /\ bfsQ # << >> /\ ~TooLong(Head(bfsQ))
      /\ currPath' = Head(bfsQ) /\ bfsQ' = q
      /\ movies' = GetCredits(GetLastPlayer(currPath'))
      /\ pc' = "movies"
      /\ UNCHANGED <<db, source, target, visitedMovies, visitedPlayers, movie, cast, answer>>
  BY DEF PopPath
<1>2. Searching /\ ~Expanding /\ Searching' /\ Expanding'
  BY <1>1 DEF Searching, Expanding
<1>3. /\ bfsQ \in Seq(Path) /\ n \in Nat /\ n # 0 /\ DOMAIN bfsQ = 1 .. n
      /\ \A i \in 1 .. n : bfsQ[i] \in Path /\ Length(i) \in Nat /\ Length(i) <= MaxLength
  BY <1>1, TypeFact DEF SearchInv, TypeOK
<1>4. Head(bfsQ) = bfsQ[1] /\ 1 \in 1 .. n
  BY <1>3
<1>5. /\ q \in Seq(Path) /\ Len(q) = n - 1 /\ DOMAIN q = 1 .. n - 1
      /\ \A i \in 1 .. n - 1 : q[i] = bfsQ[i + 1] /\ i + 1 \in 1 .. n
  BY <1>1, <1>3
<1> HIDE DEF n, q
<1>6. currPath' \in Path /\ currPath' = bfsQ[1]
  BY <1>1, <1>3, <1>4
<1>7. /\ \A i \in 1 .. n : /\ IsShortest(bfsQ[i]) /\ GetLastPlayer(bfsQ[i]) \in Seen
                           /\ Depth <= Length(i) /\ Length(i) <= Depth + 1
      /\ \A i, j \in 1 .. n :
           i < j => /\ Length(i) <= Length(j)
                    /\ GetLastPlayer(bfsQ[i]) # GetLastPlayer(bfsQ[j])
  BY <1>3 DEF SearchInv, QueueInv
<1>8. Depth' = Depth /\ Depth = Length(1) /\ Seen' = Seen
  BY <1>1, <1>6 DEF Depth, Length, Seen
<1>9. \A i \in 1 .. n - 1 : Length(i)' = Length(i + 1)
  BY <1>1, <1>5 DEF Length
<1>10. TypeOK'
  <2>1. movies' \subseteq Film
    BY <1>1 DEF GetCredits
  <2>2. Len(answer.path.links) <= MaxLength /\ \A i \in 1 .. n : Len(bfsQ[i].links) <= MaxLength
    BY <1>3, TypeFact DEF SearchInv, Length
  <2>3. \A p \in {bfsQ'[i] : i \in DOMAIN bfsQ'} \cup {answer'.path} : Len(p.links) <= MaxLength
    BY <1>1, <1>5, <2>2
  <2>4. /\ db' \in [Film -> SUBSET Player] /\ answer' = answer
        /\ source' \in Player \cup {None} /\ target' \in Player \cup {None}
        /\ visitedMovies' \subseteq Film /\ visitedPlayers' \subseteq Player
        /\ movie' \in Film \cup {None} /\ cast' \subseteq Player
    BY <1>1 DEF SearchInv, TypeOK
  <2>5. answer \in [kind : {"nothing", "goodOne", "notFound", "path"}, path : Path]
    BY DEF SearchInv, TypeOK
  <2> QED BY <1>1, <1>5, <1>6, <2>1, <2>3, <2>4, <2>5 DEF TypeOK
<1>11. AnswerInv'
  <2>1. answer.kind = "nothing"
    BY <1>2 DEF SearchInv, AnswerInv
  <2> QED BY <1>1, <2>1 DEF AnswerInv, AnswerShortest, NotFoundOnlyIfFar
<1>12. \A p : IsShortest(p)' <=> IsShortest(p)
  BY <1>1, SameWithin
<1>13. QueueInv'
  <2>1. ASSUME NEW i \in 1 .. n - 1
        PROVE  /\ IsShortest(q[i]) /\ GetLastPlayer(q[i]) \in Seen
               /\ Depth <= Length(i + 1) /\ Length(i + 1) <= Depth + 1
    BY <1>5, <1>7
  <2>2. ASSUME NEW i \in 1 .. n - 1, NEW j \in 1 .. n - 1, i < j
        PROVE  /\ Length(i + 1) <= Length(j + 1)
               /\ GetLastPlayer(q[i]) # GetLastPlayer(q[j])
    <3>1. i + 1 < j + 1
      BY <2>2
    <3> QED BY <1>5, <1>7, <2>2, <3>1
  <2>3. \A i \in 1 .. n - 1 : IsShortest(bfsQ[i])'
    BY <1>1, <1>12, <2>1
  <2>4. DOMAIN bfsQ' = 1 .. n - 1 /\ bfsQ' = q
    BY <1>1, <1>5
  <2>5. \A i \in DOMAIN bfsQ' : /\ IsShortest(bfsQ[i])' /\ GetLastPlayer(bfsQ'[i]) \in Seen'
                                /\ Depth' <= Length(i)' /\ Length(i)' <= Depth' + 1
    BY <1>8, <1>9, <2>1, <2>3, <2>4
  <2>6. \A i, j \in DOMAIN bfsQ' :
          i < j => /\ Length(i)' <= Length(j)'
                   /\ GetLastPlayer(bfsQ'[i]) # GetLastPlayer(bfsQ'[j])
    BY <1>9, <2>2, <2>4
  <2> QED BY <2>5, <2>6 DEF QueueInv
<1>14. CurrentInv'
  <2>1. IsShortest(currPath)'
    BY <1>4, <1>6, <1>7, <1>12
  <2>2. Len(currPath'.links) < MaxLength
    <3>1. Len(bfsQ[1].links) \in Nat /\ MaxLength \in Nat
      BY <1>3, <1>4, SixDegreesAssumption DEF Length
    <3> QED BY <1>1, <1>4, <3>1 DEF TooLong
  <2>3. movies' = GetCredits(GetLastPlayer(currPath))' /\ pc' # "cast"
    BY <1>1 DEF GetCredits
  <2> QED BY <2>1, <2>2, <2>3 DEF CurrentInv
<1>15. SeenInv'
  <2>1. /\ target \notin Seen
        /\ \A f \in visitedMovies : db[f] \subseteq Seen
        /\ \A y \in Seen : (\E i \in 1 .. n : y = GetLastPlayer(bfsQ[i])) \/ Looked(y)
        /\ Within[Depth] \subseteq Seen
    BY <1>1, <1>2, <1>3 DEF SearchInv, SeenInv
  <2>2. ASSUME NEW i \in 1 .. n
        PROVE  \/ \E j \in DOMAIN bfsQ' : GetLastPlayer(bfsQ[i]) = GetLastPlayer(bfsQ'[j])
               \/ GetLastPlayer(bfsQ[i]) = GetLastPlayer(currPath')
    <3>1. CASE i = 1
      BY <1>6, <3>1
    <3>2. CASE i # 1
      <4>1. i - 1 \in 1 .. n - 1 /\ (i - 1) + 1 = i
        BY <1>3, <3>2
      <4>2. i - 1 \in DOMAIN bfsQ' /\ bfsQ'[i - 1] = bfsQ[i]
        BY <1>1, <1>5, <4>1
      <4> QED BY <4>2
    <3> QED BY <3>1, <3>2
  <2>3. \A y : Looked(y)' <=> Looked(y)
    BY <1>1 DEF Looked
  <2>4. Within' = Within
    BY <1>1, SameWithin
  <2>5. \A y \in Seen' :
          \/ \E i \in DOMAIN bfsQ' : y = GetLastPlayer(bfsQ'[i])
          \/ Expanding' /\ y = GetLastPlayer(currPath')
          \/ Looked(y)'
    BY <1>2, <1>8, <2>1, <2>2, <2>3
  <2>6. \A f \in visitedMovies' : db'[f] \subseteq Seen'
    BY <1>1, <1>8, <2>1
  <2> QED BY <1>1, <1>8, <2>1, <2>4, <2>5, <2>6 DEF SeenInv
<1>16. Resting'
  BY <1>2 DEF Resting
<1> QED BY <1>10, <1>11, <1>13, <1>14, <1>15, <1>16 DEF SearchInv

(***************************************************************************)
(* Steps that leave the queue and the players seen as they are.            *)
(***************************************************************************)
LEMMA QueueKept ==
  ASSUME SearchInv, Searching, UNCHANGED <<db, source, target, bfsQ, visitedPlayers, answer>>,
         Searching',
         movies' \subseteq Film, movie' \in Film \cup {None}, cast' \subseteq Player,
         visitedMovies' \subseteq Film, currPath' \in Path,
         bfsQ # << >> => Depth <= Depth' /\ Depth' <= Length(1),
         Depth \in Nat, Depth' \in Nat
  PROVE  TypeOK' /\ Resting' /\ AnswerInv' /\ QueueInv'
<1> DEFINE n == Len(bfsQ)
<1>1. TypeOK'
  <2>1. pc' \in {"source", "target", "queue", "movies", "cast", "quit"}
    BY DEF Searching
  <2> QED BY <2>1 DEF SearchInv, TypeOK
<1>2. Resting'
  BY DEF Resting
<1>3. AnswerInv'
  BY DEF SearchInv, AnswerInv, AnswerShortest, NotFoundOnlyIfFar
<1>4. /\ n \in Nat /\ DOMAIN bfsQ = 1 .. n /\ (bfsQ = << >> <=> n = 0)
      /\ \A i \in 1 .. n : Length(i) \in Nat
  BY TypeFact DEF SearchInv
<1>5. /\ \A i \in 1 .. n : /\ IsShortest(bfsQ[i]) /\ GetLastPlayer(bfsQ[i]) \in Seen
                           /\ Depth <= Length(i) /\ Length(i) <= Depth + 1
      /\ \A i, j \in 1 .. n :
           i < j => /\ Length(i) <= Length(j)
                    /\ GetLastPlayer(bfsQ[i]) # GetLastPlayer(bfsQ[j])
  BY <1>4 DEF SearchInv, QueueInv
<1>6. /\ \A p : IsShortest(p)' <=> IsShortest(p)
      /\ Seen' = Seen /\ \A i : Length(i)' = Length(i)
  BY SameWithin DEF Seen, Length
<1> HIDE DEF n
<1>7. ASSUME NEW i \in 1 .. n PROVE Depth' <= Length(i) /\ Length(i) <= Depth' + 1
  <2>1. Depth <= Depth' /\ Depth' <= Length(1) /\ 1 \in 1 .. n
    BY <1>4, <1>7
  <2>2. Length(1) <= Length(i) /\ Length(i) <= Depth + 1 /\ Length(1) \in Nat /\ Length(i) \in Nat
    BY <1>4, <1>5, <1>7, <2>1
  <2> QED BY <2>1, <2>2
<1>8. QueueInv'
  <2>1. \A i \in 1 .. n : /\ IsShortest(bfsQ[i])' /\ GetLastPlayer(bfsQ'[i]) \in Seen'
                          /\ Depth' <= Length(i)' /\ Length(i)' <= Depth' + 1
    BY <1>5, <1>6, <1>7
  <2>2. \A i, j \in 1 .. n :
          i < j => /\ Length(i)' <= Length(j)'
                   /\ GetLastPlayer(bfsQ'[i]) # GetLastPlayer(bfsQ'[j])
    BY <1>5, <1>6
  <2>3. DOMAIN bfsQ' = 1 .. n
    BY <1>4
  <2> QED BY <2>1, <2>2, <2>3 DEF QueueInv
<1> QED BY <1>1, <1>2, <1>3, <1>8

(***************************************************************************)
(* What holds between taking a path and having looked at its films.        *)
(***************************************************************************)
LEMMA ExpandingFact ==
  ASSUME SearchInv, Expanding
  PROVE  /\ Searching /\ Depth = Len(currPath.links) /\ Depth \in Nat
         /\ currPath \in Path /\ db \in [Film -> SUBSET Player]
         /\ bfsQ # << >> => Depth <= Length(1)
         /\ IsShortest(currPath) /\ Len(currPath.links) < MaxLength
         /\ movies \subseteq GetCredits(GetLastPlayer(currPath))
         /\ GetCredits(GetLastPlayer(currPath)) \subseteq
              visitedMovies \cup movies \cup (IF pc = "cast" THEN {movie} ELSE {})
         /\ pc = "cast" => /\ movie \in GetCredits(GetLastPlayer(currPath))
                           /\ cast \subseteq db[movie] /\ db[movie] \subseteq Seen \cup cast
         /\ target \notin Seen
         /\ \A f \in visitedMovies : db[f] \subseteq Seen
         /\ \A player \in Seen :
              \/ \E i \in DOMAIN bfsQ : player = GetLastPlayer(bfsQ[i])
              \/ player = GetLastPlayer(currPath)
              \/ Looked(player)
         /\ Within[Depth] \subseteq Seen
         /\ movies \subseteq Film /\ movie \in Film \cup {None} /\ cast \subseteq Player
         /\ visitedMovies \subseteq Film /\ visitedPlayers \subseteq Player
<1>1. Searching /\ Depth = Len(currPath.links)
  BY DEF Expanding, Searching, Depth
<1>2. currPath \in Path /\ Len(currPath.links) \in Nat /\ db \in [Film -> SUBSET Player]
  BY TypeFact DEF SearchInv
<1>3. ASSUME bfsQ # << >> PROVE Depth <= Length(1)
  <2>1. Len(bfsQ) \in Nat /\ Len(bfsQ) # 0 /\ DOMAIN bfsQ = 1 .. Len(bfsQ)
    BY <1>3, TypeFact DEF SearchInv
  <2>2. 1 \in DOMAIN bfsQ
    BY <2>1
  <2> QED BY <2>2 DEF SearchInv, QueueInv
<1>4. CurrentInv /\ SeenInv
  BY DEF SearchInv
<1>5. /\ movies \subseteq Film /\ movie \in Film \cup {None} /\ cast \subseteq Player
      /\ visitedMovies \subseteq Film /\ visitedPlayers \subseteq Player
  BY DEF SearchInv, TypeOK
<1>6. /\ IsShortest(currPath) /\ Len(currPath.links) < MaxLength
      /\ movies \subseteq GetCredits(GetLastPlayer(currPath))
      /\ GetCredits(GetLastPlayer(currPath)) \subseteq
           visitedMovies \cup movies \cup (IF pc = "cast" THEN {movie} ELSE {})
      /\ pc = "cast" => /\ movie \in GetCredits(GetLastPlayer(currPath))
                        /\ cast \subseteq db[movie] /\ db[movie] \subseteq Seen \cup cast
  BY <1>4 DEF CurrentInv
<1>7. /\ target \notin Seen
      /\ \A f \in visitedMovies : db[f] \subseteq Seen
      /\ \A player \in Seen :
           \/ \E i \in DOMAIN bfsQ : player = GetLastPlayer(bfsQ[i])
           \/ player = GetLastPlayer(currPath)
           \/ Looked(player)
      /\ Within[Depth] \subseteq Seen
  BY <1>1, <1>4 DEF SeenInv
<1> QED BY <1>1, <1>2, <1>3, <1>5, <1>6, <1>7

LEMMA CreditsFact ==
  ASSUME NEW player, NEW f
  PROVE  f \in GetCredits(player) <=> f \in Film /\ player \in db[f]
BY DEF GetCredits

LEMMA NextMovieKeeps ==
  ASSUME SearchInv, NEW f \in Film, NextMovie(f)
  PROVE  SearchInv'
<1> DEFINE x == GetLastPlayer(currPath)
<1>1. /\ pc = "movies" /\ f \in movies /\ movies' = movies \ {f}
      /\ IF f \in visitedMovies THEN pc' = pc /\ movie' = movie /\ cast' = cast
         ELSE movie' = f /\ cast' = db[f] /\ pc' = "cast"
      /\ UNCHANGED <<db, source, target, bfsQ, visitedMovies, visitedPlayers, currPath, answer>>
  BY DEF NextMovie, GetCast
<1>2. Expanding /\ Expanding' /\ Searching' /\ Depth' = Depth
  BY <1>1 DEF Expanding, Searching, Depth
<1>3. /\ Searching /\ Depth \in Nat /\ currPath \in Path /\ db \in [Film -> SUBSET Player]
      /\ bfsQ # << >> => Depth <= Length(1)
      /\ IsShortest(currPath) /\ Len(currPath.links) < MaxLength
      /\ movies \subseteq GetCredits(x)
      /\ GetCredits(x) \subseteq visitedMovies \cup movies
      /\ movies \subseteq Film /\ movie \in Film \cup {None} /\ cast \subseteq Player
      /\ visitedMovies \subseteq Film
  BY <1>1, <1>2, ExpandingFact
<1>4. db[f] \subseteq Player
  BY <1>3
<1>5. TypeOK' /\ Resting' /\ AnswerInv' /\ QueueInv'
  BY <1>1, <1>2, <1>3, <1>4, QueueKept
<1>6. Seen' = Seen /\ x' = x /\ GetCredits(x)' = GetCredits(x) /\ Within' = Within
      /\ IsShortest(currPath)'
  BY <1>1, <1>3, SameWithin DEF Seen, GetCredits
<1>7. CurrentInv'
  BY <1>1, <1>3, <1>6 DEF CurrentInv
<1>8. SeenInv'
  BY <1>1, <1>2, <1>6 DEF SearchInv, SeenInv, Looked, Searching
<1> QED BY <1>5, <1>7, <1>8 DEF SearchInv

LEMMA EndOfCastKeeps ==
  ASSUME SearchInv, EndOfCast
  PROVE  SearchInv'
<1> DEFINE x == GetLastPlayer(currPath)
<1>1. /\ pc = "cast" /\ cast = {} /\ visitedMovies' = visitedMovies \cup {movie}
      /\ movie' = None /\ pc' = "movies"
      /\ UNCHANGED <<db, source, target, bfsQ, visitedPlayers, currPath, movies, cast, answer>>
  BY DEF EndOfCast
<1>2. Expanding /\ Expanding' /\ Searching' /\ Depth' = Depth
  BY <1>1 DEF Expanding, Searching, Depth
<1>3. /\ Searching /\ Depth \in Nat /\ currPath \in Path /\ db \in [Film -> SUBSET Player]
      /\ bfsQ # << >> => Depth <= Length(1)
      /\ IsShortest(currPath) /\ Len(currPath.links) < MaxLength
      /\ movies \subseteq GetCredits(x)
      /\ GetCredits(x) \subseteq visitedMovies \cup movies \cup {movie}
      /\ movie \in GetCredits(x) /\ db[movie] \subseteq Seen \cup cast
      /\ movies \subseteq Film /\ cast \subseteq Player /\ visitedMovies \subseteq Film
  BY <1>1, <1>2, ExpandingFact
<1>4. movie \in Film
  BY <1>3, CreditsFact
<1>5. TypeOK' /\ Resting' /\ AnswerInv' /\ QueueInv'
  BY <1>1, <1>2, <1>3, <1>4, QueueKept
<1>6. Seen' = Seen /\ x' = x /\ GetCredits(x)' = GetCredits(x) /\ Within' = Within
      /\ IsShortest(currPath)'
  BY <1>1, <1>3, SameWithin DEF Seen, GetCredits
<1>7. CurrentInv'
  BY <1>1, <1>3, <1>6 DEF CurrentInv
<1>8. SeenInv'
  <2>1. \A y : Looked(y) => Looked(y)'
    BY <1>1 DEF Looked
  <2>2. db[movie] \subseteq Seen
    BY <1>1, <1>3
  <2>3. \A f \in visitedMovies' : db'[f] \subseteq Seen'
    BY <1>1, <1>2, <1>6, <2>2, ExpandingFact
  <2>4. \A y \in Seen' :
          \/ \E i \in DOMAIN bfsQ' : y = GetLastPlayer(bfsQ'[i])
          \/ Expanding' /\ y = GetLastPlayer(currPath')
          \/ Looked(y)'
    BY <1>1, <1>2, <1>6, <2>1, ExpandingFact
  <2>5. target' \notin Seen' /\ Within'[Depth'] \subseteq Seen'
    BY <1>1, <1>2, <1>6, ExpandingFact
  <2> QED BY <2>3, <2>4, <2>5 DEF SeenInv
<1> QED BY <1>5, <1>7, <1>8 DEF SearchInv

(***************************************************************************)
(* The last player of the current path has been looked at; if that was the *)
(* last one of its distance, all those of the next distance have been seen. *)
(***************************************************************************)
LEMMA EndOfMoviesKeeps ==
  ASSUME SearchInv, EndOfMovies
  PROVE  SearchInv'
<1> DEFINE x == GetLastPlayer(currPath)
           n == Len(bfsQ)
           d == Len(currPath.links)
<1>1. /\ pc = "movies" /\ movies = {} /\ currPath' = NewPath(None) /\ pc' = "queue"
      /\ UNCHANGED <<db, source, target, bfsQ, visitedMovies, visitedPlayers, movies, movie,
                     cast, answer>>
  BY DEF EndOfMovies
<1>2. Expanding /\ ~Expanding' /\ Searching' /\ Depth' = Length(1)
  BY <1>1 DEF Expanding, Searching, Depth, Length
<1>3. /\ Searching /\ Depth = d /\ d \in Nat /\ currPath \in Path /\ db \in [Film -> SUBSET Player]
      /\ bfsQ # << >> => Depth <= Length(1)
      /\ IsShortest(currPath) /\ d < MaxLength
      /\ GetCredits(x) \subseteq visitedMovies
      /\ movies \subseteq Film /\ movie \in Film \cup {None} /\ cast \subseteq Player
      /\ visitedMovies \subseteq Film
      /\ target \notin Seen /\ Within[d] \subseteq Seen
      /\ \A f \in visitedMovies : db[f] \subseteq Seen
      /\ \A y \in Seen : \/ \E i \in DOMAIN bfsQ : y = GetLastPlayer(bfsQ[i])
                         \/ y = x
                         \/ Looked(y)
  BY <1>1, <1>2, ExpandingFact
<1>4. Looked(x)
  BY <1>3, CreditsFact DEF Looked
<1>5. /\ n \in Nat /\ DOMAIN bfsQ = 1 .. n /\ (bfsQ = << >> <=> n = 0)
      /\ \A i \in 1 .. n : bfsQ[i] \in Path /\ Length(i) \in Nat /\ Length(i) <= MaxLength
      /\ \A i \in 1 .. n : IsShortest(bfsQ[i]) /\ Depth <= Length(i) /\ Length(i) <= Depth + 1
      /\ \A i, j \in 1 .. n : i < j => Length(i) <= Length(j)
  BY TypeFact DEF SearchInv, QueueInv
<1>6. NewPath(None) \in Path
  BY NewPathFact
<1>7. Seen' = Seen /\ Within' = Within /\ \A y : Looked(y)' <=> Looked(y)
  BY <1>1, SameWithin DEF Seen, Looked
<1> HIDE DEF n, d, x
<1>8. CurrentInv'
  BY <1>2 DEF CurrentInv
<1>9. ASSUME bfsQ # << >>
      PROVE  Within[Length(1)] \subseteq Seen /\ Length(1) \in Nat
  <2>1. 1 \in 1 .. n
    BY <1>5, <1>9
  <2>2. Length(1) \in Nat /\ d <= Length(1) /\ Length(1) <= d + 1 /\ Length(1) <= MaxLength
    BY <1>3, <1>5, <2>1
  <2>3. CASE Length(1) = d
    BY <1>3, <2>2, <2>3
  <2>4. CASE Length(1) = d + 1
    <3>1. ASSUME NEW i \in 1 .. n PROVE GetLastPlayer(bfsQ[i]) \notin Within[d]
      <4>1. Length(i) = d + 1
        <5>1. Length(1) <= Length(i)
          BY <1>5, <2>1, <2>2
        <5> QED BY <1>3, <1>5, <2>4, <5>1
      <4>2. Len(bfsQ[i].links) > 0 /\ Len(bfsQ[i].links) - 1 = d
        BY <1>3, <4>1 DEF Length
      <4> QED BY <1>5, <4>2 DEF IsShortest
    <3>2. \A y \in Within[d] : Looked(y)
      BY <1>3, <1>4, <1>5, <3>1
    <3>3. \A y \in Within[d] : \A f \in Film : y \in db[f] => db[f] \subseteq Seen
      BY <1>3, <3>2 DEF Looked
    <3>4. d \in Nat /\ d + 1 <= MaxLength /\ Within[d] \subseteq Seen
      BY <1>3, <2>2, <2>4
    <3> HIDE DEF Seen
    <3>5. Within[d + 1] \subseteq Seen
      BY <3>3, <3>4, NextLevel
    <3> QED BY <2>2, <2>4, <3>5
  <2> QED BY <1>3, <2>2, <2>3, <2>4
<1>10. SeenInv'
  <2>1. target' \notin Seen' /\ \A f \in visitedMovies' : db'[f] \subseteq Seen'
    BY <1>1, <1>3, <1>7
  <2>2. \A y \in Seen' : (\E i \in DOMAIN bfsQ' : y = GetLastPlayer(bfsQ'[i])) \/ Looked(y)'
    BY <1>1, <1>3, <1>4, <1>7
  <2>3. bfsQ' # << >> => Within'[Depth'] \subseteq Seen'
    BY <1>1, <1>2, <1>7, <1>9
  <2> QED BY <1>2, <2>1, <2>2, <2>3 DEF SeenInv
<1>11. TypeOK' /\ Resting' /\ AnswerInv' /\ QueueInv'
  <2>1. CASE bfsQ # << >>
    BY <1>1, <1>2, <1>3, <1>6, <1>9, <2>1, QueueKept
  <2>2. CASE bfsQ = << >>
    <3>1. DOMAIN bfsQ' = {} /\ bfsQ' = bfsQ
      BY <1>1, <1>5, <2>2
    <3>2. QueueInv'
      BY <3>1 DEF QueueInv
    <3>3. TypeOK'
      BY <1>1, <1>6 DEF SearchInv, TypeOK
    <3>4. AnswerInv'
      BY <1>1, <1>3 DEF SearchInv, AnswerInv, AnswerShortest, NotFoundOnlyIfFar
    <3> QED BY <1>2, <3>2, <3>3, <3>4 DEF Resting
  <2> QED BY <2>1, <2>2
<1> QED BY <1>8, <1>10, <1>11 DEF SearchInv

(***************************************************************************)
(* A player of the film: the target, whose path is printed; a new player,  *)
(* whose path is queued; or one who was seen.                              *)
(***************************************************************************)
LEMMA CopyFact ==
  ASSUME SearchInv, pc = "cast", NEW player \in cast, IsNew(player),
         NEW copy, copy = AddConnection(currPath, movie, player)
  PROVE  /\ copy \in Path /\ IsShortest(copy) /\ Connects(copy, source, player)
         /\ GetLastPlayer(copy) = player /\ player \in Player /\ player \notin Seen
         /\ Len(copy.links) = Depth + 1 /\ Depth + 1 <= MaxLength
<1> DEFINE x == GetLastPlayer(currPath)
           d == Len(currPath.links)
<1>1. Expanding
  BY DEF Expanding
<1>2. /\ Depth = d /\ d \in Nat /\ currPath \in Path /\ d < MaxLength
      /\ IsShortest(currPath)
      /\ movie \in GetCredits(x) /\ cast \subseteq db[movie] /\ cast \subseteq Player
      /\ Within[d] \subseteq Seen
  BY <1>1, ExpandingFact
<1>3. movie \in Film /\ x \in db[movie] /\ player \in db[movie] /\ player \in Player
  BY <1>2, CreditsFact
<1>4. player \notin Seen
  BY DEF IsNew, Seen
<1>5. copy \in Path /\ Len(copy.links) = d + 1 /\ GetLastPlayer(copy) = player
  BY <1>2, <1>3, ConnectionFact
<1>6. Connects(currPath, source, x)
  BY <1>2 DEF IsShortest
<1>7. Connects(copy, source, player)
  BY <1>2, <1>3, <1>6, ExtendPath
<1>8. player \notin Within[d]
  BY <1>2, <1>4
<1> HIDE DEF d
<1>9. IsShortest(copy)
  <2>1. Len(copy.links) > 0 /\ Len(copy.links) - 1 = d
    BY <1>2, <1>5
  <2> QED BY <1>5, <1>7, <1>8, <2>1 DEF IsShortest
<1>10. d + 1 <= MaxLength
  BY <1>2, SixDegreesAssumption
<1> QED BY <1>2, <1>3, <1>4, <1>5, <1>7, <1>9, <1>10

LEMMA TargetKeeps ==
  ASSUME SearchInv, NEW player \in cast, NextPlayer(player), IsNew(player), player = target
  PROVE  SearchInv'
<1> DEFINE copy == AddConnection(currPath, movie, player)
           a == [kind |-> "path", path |-> copy]
<1>1. pc = "cast" /\ PrintAnswer(a) /\ UNCHANGED <<db, source, target>>
  BY DEF NextPlayer
<1> HIDE DEF copy
<1>2. /\ copy \in Path /\ IsShortest(copy) /\ Connects(copy, source, target)
      /\ Len(copy.links) <= MaxLength
  BY <1>1, CopyFact DEF copy
<1>3. /\ a \in [kind : {"nothing", "goodOne", "notFound", "path"}, path : Path]
      /\ a.path = copy /\ a.kind # "notFound"
  BY <1>2
<1> HIDE DEF a
<1> QED BY <1>1, <1>2, <1>3, PrintKeeps

LEMMA SeenPlayerKeeps ==
  ASSUME SearchInv, NEW player \in cast, NextPlayer(player), ~IsNew(player)
  PROVE  SearchInv'
<1> DEFINE x == GetLastPlayer(currPath)
<1>1. /\ pc = "cast" /\ cast' = cast \ {player}
      /\ UNCHANGED <<db, source, target, bfsQ, visitedPlayers, pc, visitedMovies, currPath,
                     movies, movie, answer>>
  BY DEF NextPlayer
<1>2. Expanding /\ Expanding' /\ Searching' /\ Depth' = Depth
  BY <1>1 DEF Expanding, Searching, Depth
<1>3. /\ Searching /\ Depth \in Nat /\ currPath \in Path
      /\ bfsQ # << >> => Depth <= Length(1)
      /\ IsShortest(currPath) /\ Len(currPath.links) < MaxLength
      /\ movies \subseteq GetCredits(x)
      /\ GetCredits(x) \subseteq visitedMovies \cup movies \cup {movie}
      /\ movie \in GetCredits(x) /\ cast \subseteq db[movie] /\ db[movie] \subseteq Seen \cup cast
      /\ movies \subseteq Film /\ movie \in Film \cup {None} /\ cast \subseteq Player
      /\ visitedMovies \subseteq Film
  BY <1>1, <1>2, ExpandingFact
<1>4. player \in Seen
  <2>1. source \in Player \cup {None} /\ (player = source \/ player \in visitedPlayers)
    BY DEF IsNew, SearchInv, TypeOK
  <2> QED BY <2>1 DEF Seen
<1>5. TypeOK' /\ Resting' /\ AnswerInv' /\ QueueInv'
  BY <1>1, <1>2, <1>3, QueueKept
<1>6. Seen' = Seen /\ x' = x /\ GetCredits(x)' = GetCredits(x) /\ Within' = Within
      /\ IsShortest(currPath)'
  BY <1>1, <1>3, SameWithin DEF Seen, GetCredits
<1>7. CurrentInv'
  BY <1>1, <1>3, <1>4, <1>6 DEF CurrentInv
<1>8. SeenInv'
  BY <1>1, <1>2, <1>6 DEF SearchInv, SeenInv, Looked, Searching
<1> QED BY <1>5, <1>7, <1>8 DEF SearchInv

LEMMA NewPlayerKeeps ==
  ASSUME SearchInv, NEW player \in cast, NextPlayer(player), IsNew(player), player # target
  PROVE  SearchInv'
<1> DEFINE x == GetLastPlayer(currPath)
           n == Len(bfsQ)
           copy == AddConnection(currPath, movie, player)
           q == Append(bfsQ, copy)
<1>1. /\ pc = "cast" /\ cast' = cast \ {player}
      /\ bfsQ' = q /\ visitedPlayers' = visitedPlayers \cup {player}
      /\ UNCHANGED <<db, source, target, pc, visitedMovies, currPath, movies, movie, answer>>
  BY DEF NextPlayer, Pushed
<1>2. /\ copy \in Path /\ IsShortest(copy) /\ GetLastPlayer(copy) = player
      /\ player \in Player /\ player \notin Seen
      /\ Len(copy.links) = Depth + 1 /\ Depth + 1 <= MaxLength
  <2> HIDE DEF copy
  <2> QED BY <1>1, CopyFact DEF copy
<1> HIDE DEF copy
<1>3. /\ bfsQ \in Seq(Path) /\ n \in Nat /\ DOMAIN bfsQ = 1 .. n
      /\ \A i \in 1 .. n : bfsQ[i] \in Path /\ Length(i) \in Nat /\ Length(i) <= MaxLength
  BY TypeFact DEF SearchInv, TypeOK
<1>4. /\ q \in Seq(Path) /\ DOMAIN q = 1 .. n + 1 /\ q[n + 1] = copy
      /\ \A i \in 1 .. n : q[i] = bfsQ[i]
  <2>1. bfsQ \in Seq(Path) /\ copy \in Path
    BY <1>2, <1>3
  <2> QED BY <2>1
<1>5. \A i \in 1 .. n + 1 : i \in 1 .. n \/ i = n + 1
  BY <1>3
<1>6. \A i \in 1 .. n : i # n + 1
  BY <1>3
<1> HIDE DEF n, q
<1>7. Expanding /\ Expanding' /\ Searching /\ Searching' /\ Depth' = Depth
  BY <1>1 DEF Expanding, Searching, Depth
<1>8. Seen' = Seen \cup {player}
  BY <1>1 DEF Seen
<1>9. /\ Within' = Within /\ \A p : IsShortest(p)' <=> IsShortest(p)
  BY <1>1, SameWithin
<1>10. TypeOK'
  <2>1. visitedPlayers' \subseteq Player /\ cast' \subseteq Player
    BY <1>1, <1>2 DEF SearchInv, TypeOK
  <2>2. Len(answer.path.links) <= MaxLength
    BY TypeFact DEF SearchInv
  <2>3. \A i \in 1 .. n + 1 : Len(q[i].links) <= MaxLength
    BY <1>2, <1>3, <1>4, <1>5 DEF Length
  <2>4. \A p \in {bfsQ'[i] : i \in DOMAIN bfsQ'} \cup {answer'.path} : Len(p.links) <= MaxLength
    BY <1>1, <1>4, <2>2, <2>3
  <2>5. answer' \in [kind : {"nothing", "goodOne", "notFound", "path"}, path : Path]
    BY <1>1 DEF SearchInv, TypeOK
  <2>6. /\ db' \in [Film -> SUBSET Player] /\ currPath' \in Path
        /\ source' \in Player \cup {None} /\ target' \in Player \cup {None}
        /\ visitedMovies' \subseteq Film /\ movies' \subseteq Film /\ movie' \in Film \cup {None}
    BY <1>1 DEF SearchInv, TypeOK
  <2> QED BY <1>1, <1>4, <2>1, <2>4, <2>5, <2>6 DEF TypeOK
<1>11. Resting'
  BY <1>7 DEF Resting
<1>12. AnswerInv'
  <2>1. answer.kind = "nothing"
    BY <1>7 DEF SearchInv, AnswerInv
  <2> QED BY <1>1, <2>1 DEF AnswerInv, AnswerShortest, NotFoundOnlyIfFar
<1>13. QueueInv'
  <2>1. /\ \A i \in 1 .. n : /\ IsShortest(bfsQ[i]) /\ GetLastPlayer(bfsQ[i]) \in Seen
                             /\ Depth <= Length(i) /\ Length(i) <= Depth + 1
        /\ \A i, j \in 1 .. n :
             i < j => /\ Length(i) <= Length(j)
                      /\ GetLastPlayer(bfsQ[i]) # GetLastPlayer(bfsQ[j])
    BY <1>3 DEF SearchInv, QueueInv
  <2>2. /\ \A i \in 1 .. n : Length(i)' = Length(i)
        /\ \A i : i = n + 1 => Length(i)' = Depth + 1
    BY <1>1, <1>2, <1>4 DEF Length
  <2>3. \A i \in 1 .. n + 1 : IsShortest(q[i]) /\ GetLastPlayer(q[i]) \in Seen \cup {player}
    BY <1>2, <1>4, <1>5, <2>1
  <2>4. \A i \in 1 .. n + 1 : IsShortest(bfsQ[i])'
    BY <1>1, <1>9, <2>3
  <2>5. Depth \in Nat
    BY <1>7, ExpandingFact
  <2>6. \A i \in 1 .. n + 1 : Depth <= Length(i)' /\ Length(i)' <= Depth + 1
    BY <1>5, <2>1, <2>2, <2>5
  <2>7. ASSUME NEW i \in 1 .. n + 1, NEW j \in 1 .. n + 1, i < j
        PROVE  Length(i)' <= Length(j)' /\ GetLastPlayer(q[i]) # GetLastPlayer(q[j])
    <3>1. i \in 1 .. n
      BY <1>3, <2>7
    <3>2. CASE j \in 1 .. n
      <4>1. /\ Length(i) <= Length(j) /\ GetLastPlayer(bfsQ[i]) # GetLastPlayer(bfsQ[j])
            /\ q[i] = bfsQ[i] /\ q[j] = bfsQ[j]
        BY <1>4, <2>1, <2>7, <3>1, <3>2
      <4> QED BY <2>2, <3>1, <3>2, <4>1
    <3>3. CASE j = n + 1
      <4>1. /\ Length(i) <= Depth + 1 /\ GetLastPlayer(q[i]) \in Seen
            /\ GetLastPlayer(q[j]) = player
        BY <1>2, <1>4, <2>1, <3>1, <3>3
      <4> QED BY <1>2, <2>2, <3>1, <3>3, <4>1
    <3> QED BY <1>5, <3>2, <3>3
  <2>8. DOMAIN bfsQ' = 1 .. n + 1 /\ bfsQ' = q
    BY <1>1, <1>4
  <2>9. \A i \in DOMAIN bfsQ' : /\ IsShortest(bfsQ[i])' /\ GetLastPlayer(bfsQ'[i]) \in Seen'
                                /\ Depth' <= Length(i)' /\ Length(i)' <= Depth' + 1
    BY <1>7, <1>8, <2>3, <2>4, <2>6, <2>8
  <2>10. \A i, j \in DOMAIN bfsQ' :
           i < j => /\ Length(i)' <= Length(j)'
                    /\ GetLastPlayer(bfsQ'[i]) # GetLastPlayer(bfsQ'[j])
    BY <2>7, <2>8
  <2> QED BY <2>9, <2>10 DEF QueueInv
<1>14. CurrentInv'
  <2>1. /\ IsShortest(currPath) /\ Len(currPath.links) < MaxLength
        /\ movies \subseteq GetCredits(x)
        /\ GetCredits(x) \subseteq visitedMovies \cup movies \cup {movie}
        /\ movie \in GetCredits(x) /\ cast \subseteq db[movie] /\ db[movie] \subseteq Seen \cup cast
    BY <1>1, <1>7, ExpandingFact
  <2>2. x' = x /\ GetCredits(x)' = GetCredits(x) /\ IsShortest(currPath)'
    BY <1>1, <1>9, <2>1 DEF GetCredits
  <2>3. cast' \subseteq db'[movie'] /\ db'[movie'] \subseteq Seen' \cup cast'
    BY <1>1, <1>8, <2>1
  <2> QED BY <1>1, <2>1, <2>2, <2>3 DEF CurrentInv
<1>15. SeenInv'
  <2>1. /\ target \notin Seen
        /\ \A f \in visitedMovies : db[f] \subseteq Seen
        /\ \A y \in Seen :
             (\E i \in 1 .. n : y = GetLastPlayer(bfsQ[i])) \/ y = x \/ Looked(y)
        /\ Within[Depth] \subseteq Seen
    BY <1>3, <1>7, ExpandingFact
  <2>2. x' = x /\ \A y : Looked(y)' <=> Looked(y)
    BY <1>1 DEF Looked
  <2>3. /\ \A i \in 1 .. n : i \in DOMAIN bfsQ' /\ bfsQ'[i] = bfsQ[i]
        /\ n + 1 \in DOMAIN bfsQ' /\ GetLastPlayer(bfsQ'[n + 1]) = player
    BY <1>1, <1>2, <1>3, <1>4
  <2> HIDE DEF x
  <2>4. \A y \in Seen \cup {player} :
          (\E i \in DOMAIN bfsQ' : y = GetLastPlayer(bfsQ'[i])) \/ y = x \/ Looked(y)
    BY <2>1, <2>3
  <2>5. \A y \in Seen' :
          \/ \E i \in DOMAIN bfsQ' : y = GetLastPlayer(bfsQ'[i])
          \/ Expanding' /\ y = GetLastPlayer(currPath')
          \/ Looked(y)'
    BY <1>7, <1>8, <2>2, <2>4 DEF x
  <2>6. target' \notin Seen' /\ \A f \in visitedMovies' : db'[f] \subseteq Seen'
    BY <1>1, <1>8, <2>1
  <2>7. Within'[Depth'] \subseteq Seen'
    BY <1>7, <1>8, <1>9, <2>1
  <2> QED BY <2>5, <2>6, <2>7 DEF SeenInv
<1> QED BY <1>10, <1>11, <1>12, <1>13, <1>14, <1>15 DEF SearchInv
-----------------------------------------------------------------------------
(***************************************************************************)
(* The initial states and the steps.                                       *)
(***************************************************************************)
LEMMA SearchInit == Init => SearchInv
<1> SUFFICES ASSUME Init PROVE SearchInv
  OBVIOUS
<1>1. /\ db \in Databases /\ pc = "source" /\ source = None /\ target = None
      /\ bfsQ = << >> /\ visitedMovies = {} /\ visitedPlayers = {}
      /\ currPath = NewPath(None) /\ movies = {} /\ movie = None /\ cast = {}
      /\ answer = Says("nothing")
  BY DEF Init
<1>2. bfsQ \in Seq(Path) /\ DOMAIN bfsQ = {}
  <2>1. bfsQ \in Seq(Path) /\ Len(bfsQ) = 0
    BY <1>1, EmptySeq
  <2> QED BY <2>1, NoneQueued
<1>3. /\ answer \in [kind : {"nothing", "goodOne", "notFound", "path"}, path : Path]
      /\ answer.kind = "nothing" /\ Len(answer.path.links) <= MaxLength
  BY <1>1, SaysFact
<1>4. NewPath(None) \in Path
  BY NewPathFact
<1>5. \A p \in {bfsQ[i] : i \in DOMAIN bfsQ} \cup {answer.path} : Len(p.links) <= MaxLength
  BY <1>2, <1>3
<1>6. TypeOK
  BY <1>1, <1>2, <1>3, <1>4, <1>5, SixDegreesAssumption DEF TypeOK
<1>7. ~Searching /\ ~Expanding
  BY <1>1 DEF Searching, Expanding
<1>8. Resting /\ AnswerInv /\ QueueInv /\ CurrentInv /\ SeenInv
  BY <1>1, <1>2, <1>3, <1>7
     DEF Resting, AnswerInv, AnswerShortest, NotFoundOnlyIfFar, QueueInv, CurrentInv, SeenInv
<1> QED BY <1>6, <1>8 DEF SearchInv

LEMMA SearchUnchanged == SearchInv /\ UNCHANGED vars => SearchInv'
<1> SUFFICES ASSUME SearchInv, UNCHANGED vars PROVE SearchInv'
  OBVIOUS
<1>1. UNCHANGED <<db, pc, source, target, bfsQ, visitedMovies, visitedPlayers, currPath,
                  movies, movie, cast, answer>>
  BY DEF vars, locals
<1>2. TypeOK'
  BY <1>1 DEF SearchInv, TypeOK
<1>3. /\ Within' = Within
      /\ \A p : IsShortest(p)' <=> IsShortest(p)
      /\ \A p, a, b : Connects(p, a, b)' <=> Connects(p, a, b)
  BY <1>1, SameWithin
<1>4. Resting' /\ AnswerInv'
  BY <1>1, <1>3 DEF SearchInv, Resting, AnswerInv, AnswerShortest, NotFoundOnlyIfFar, Searching
<1>5. Seen' = Seen /\ Depth' = Depth /\ Searching' = Searching /\ Expanding' = Expanding
      /\ \A i : Length(i)' = Length(i)
  BY <1>1 DEF Seen, Depth, Length, Searching, Expanding
<1>6. QueueInv'
  BY <1>1, <1>3, <1>5 DEF SearchInv, QueueInv
<1>7. CurrentInv'
  BY <1>1, <1>3, <1>5 DEF SearchInv, CurrentInv, GetCredits
<1>8. SeenInv'
  BY <1>1, <1>3, <1>5 DEF SearchInv, SeenInv, Looked
<1> QED BY <1>2, <1>4, <1>6, <1>7, <1>8 DEF SearchInv

LEMMA SearchStep == SearchInv /\ [Next]_vars => SearchInv'
<1> SUFFICES ASSUME SearchInv, [Next]_vars PROVE SearchInv'
  OBVIOUS
<1>1. ASSUME NEW p \in Player, PromptSource(p) PROVE SearchInv'
  BY <1>1, PromptKeeps
<1>2. ASSUME NEW p \in Player, PromptTarget(p) PROVE SearchInv'
  BY <1>2, PromptTargetKeeps
<1>3. CASE Quit
  BY <1>3, PromptKeeps
<1>4. CASE NotFound
  BY <1>4, NotFoundKeeps
<1>5. CASE PopPath
  BY <1>5, PopKeeps
<1>6. ASSUME NEW f \in Film, NextMovie(f) PROVE SearchInv'
  BY <1>6, NextMovieKeeps
<1>7. CASE EndOfMovies
  BY <1>7, EndOfMoviesKeeps
<1>8. ASSUME NEW p \in Player, NextPlayer(p) PROVE SearchInv'
  <2>1. p \in cast
    BY <1>8 DEF NextPlayer
  <2>2. CASE ~IsNew(p)
    BY <1>8, <2>1, <2>2, SeenPlayerKeeps
  <2>3. CASE IsNew(p) /\ p = target
    BY <1>8, <2>1, <2>3, TargetKeeps
  <2>4. CASE IsNew(p) /\ p # target
    BY <1>8, <2>1, <2>4, NewPlayerKeeps
  <2> QED BY <2>2, <2>3, <2>4
<1>9. CASE EndOfCast
  BY <1>9, EndOfCastKeeps
<1>10. CASE Terminating \/ UNCHANGED vars
  BY <1>10, SearchUnchanged DEF Terminating
<1> QED BY <1>1, <1>2, <1>3, <1>4, <1>5, <1>6, <1>7, <1>8, <1>9, <1>10 DEF Next
-----------------------------------------------------------------------------
(***************************************************************************)
(* What the invariant says of the queue: it holds shortest paths in the    *)
(* order of their lengths, and everybody nearer was queued.                *)
(***************************************************************************)
LEMMA SearchBreadthFirst == SearchInv => BreadthFirst
<1> SUFFICES ASSUME SearchInv PROVE BreadthFirst
  OBVIOUS
<1> DEFINE n == Len(bfsQ)
<1>1. /\ n \in Nat /\ DOMAIN bfsQ = 1 .. n /\ (bfsQ = << >> <=> n = 0)
      /\ \A i \in 1 .. n : Length(i) \in Nat
  BY TypeFact DEF SearchInv
<1>2. /\ \A i \in 1 .. n : IsShortest(bfsQ[i]) /\ Depth <= Length(i) /\ Length(i) <= Depth + 1
      /\ \A i, j \in 1 .. n :
           i < j => /\ Length(i) <= Length(j)
                    /\ GetLastPlayer(bfsQ[i]) # GetLastPlayer(bfsQ[j])
  BY <1>1 DEF SearchInv, QueueInv
<1>3. ASSUME bfsQ # << >> PROVE Length(n) <= Length(1) + 1
  <2> HIDE DEF n
  <2>1. n \in 1 .. n /\ 1 \in 1 .. n
    BY <1>1, <1>3
  <2>2. Depth \in Nat
    <3>1. pc # "queue" => currPath \in Path /\ Len(currPath.links) \in Nat
      BY TypeFact DEF SearchInv
    <3> QED BY <1>1, <2>1, <3>1 DEF Depth
  <2> QED BY <1>1, <1>2, <2>1, <2>2
<1>4. ASSUME pc = "queue", bfsQ # << >>
      PROVE  Within[Length(1)] \subseteq visitedPlayers \cup {source}
  BY <1>4 DEF SearchInv, SeenInv, Searching, Depth, Seen
<1> QED BY <1>1, <1>2, <1>3, <1>4 DEF BreadthFirst, Length

LEMMA SearchReverses == SearchInv => ReverseLeadsBack
<1> SUFFICES ASSUME SearchInv, answer.kind = "path"
             PROVE  /\ Connects(Reverse(answer.path), target, source)
                    /\ Reverse(Reverse(answer.path)) = answer.path
  BY DEF ReverseLeadsBack
<1>1. answer.path \in Path
  BY TypeFact DEF SearchInv
<1>2. Connects(answer.path, source, target)
  BY DEF SearchInv, AnswerInv, AnswerShortest
<1> QED BY <1>1, <1>2, ReverseConnects
-----------------------------------------------------------------------------
(***************************************************************************)
(* The inductive invariant holds of every state of the game.               *)
(***************************************************************************)
THEOREM SearchInvariance == Spec => []SearchInv
BY SearchInit, SearchStep, PTL DEF Spec

(***************************************************************************)
(* The values main and generateShortestPath work with have their types,    *)
(* and no path they hold is longer than the search may make one.           *)
(***************************************************************************)
THEOREM SearchTypeCorrect == Spec => []TypeOK
<1>1. SearchInv => TypeOK
  BY DEF SearchInv
<1> QED BY <1>1, SearchInvariance, PTL

(***************************************************************************)
(* generateShortestPath: the path printed connects the two players, and no *)
(* path with fewer films does, however the files list films and casts.     *)
(***************************************************************************)
THEOREM AnswersShortest == Spec => []AnswerShortest
<1>1. SearchInv => AnswerShortest
  BY DEF SearchInv, AnswerInv
<1> QED BY <1>1, SearchInvariance, PTL

(***************************************************************************)
(* generateShortestPath: it says that there is no path only if no path of  *)
(* at most MaxLength films connects the two players.                       *)
(***************************************************************************)
THEOREM NoAnswerMeansFar == Spec => []NotFoundOnlyIfFar
<1>1. SearchInv => NotFoundOnlyIfFar
  BY DEF SearchInv, AnswerInv
<1> QED BY <1>1, SearchInvariance, PTL

(***************************************************************************)
(* The loop invariant of the search: bfsQ holds shortest paths to          *)
(* different players, shorter ones first.                                  *)
(***************************************************************************)
THEOREM QueueBreadthFirst == Spec => []BreadthFirst
BY SearchBreadthFirst, SearchInvariance, PTL

(***************************************************************************)
(* path::reverse: the reverse of a printed path leads from the target to   *)
(* the source through the same films, and its reverse is the path.         *)
(***************************************************************************)
THEOREM ReversesLeadBack == Spec => []ReverseLeadsBack
BY SearchReverses, SearchInvariance, PTL
=============================================================================
