----------------------------- MODULE SixDegrees -----------------------------
(***************************************************************************)
(* The six-degrees game of src/ass2: it asks for two players and searches  *)
(* the movie database, breadth first, for a chain of films that connects   *)
(* them.                                                                   *)
(***************************************************************************)
EXTENDS Integers, Sequences

CONSTANTS Player, Film,
          Databases,      \* the casts a database may have
          MaxLength       \* the length at which the search gives up, 5

ASSUME SixDegreesAssumption ==
  Databases \subseteq [Film -> SUBSET Player] /\ MaxLength \in Nat

VARIABLES db,              \* the movie file: the cast of each film
          pc,              \* the prompt, or the loop of generateShortestPath
          source, target,  \* player1 and player2
          bfsQ, visitedMovies, visitedPlayers,
          currPath,
          movies,          \* films of its last player still to be looked at
          movie,           \* movies[i], and
          cast,            \* its players still to be looked at
          answer           \* what was printed last

locals == <<bfsQ, visitedMovies, visitedPlayers, currPath, movies, movie, cast>>

vars == <<db, pc, source, target, locals, answer>>

None == "none"
-----------------------------------------------------------------------------
(***************************************************************************)
(* The class path: a player and the connections added to it.               *)
(***************************************************************************)
NewPath(player) == [startPlayer |-> player, links |-> << >>]

AddConnection(p, film, player) ==
  [p EXCEPT !.links = Append(@, [movie |-> film, player |-> player])]

GetLastPlayer(p) ==
  IF p.links = << >> THEN p.startPlayer ELSE p.links[Len(p.links)].player

ReverseDroppingStart(p) ==   \* mutant: the loop alone, without the last link
  LET n == Len(p.links)
  IN  [startPlayer |-> GetLastPlayer(p),
       links |-> [i \in 1 .. n - 1 |-> [movie |-> p.links[n + 1 - i].movie,
                                        player |-> p.links[n - i].player]]]

Reverse(p) ==
  LET n == Len(p.links)
  IN  [startPlayer |-> GetLastPlayer(p),
       links |-> [i \in 1 .. n |->
                    [movie |-> p.links[n + 1 - i].movie,
                     player |-> IF i = n THEN p.startPlayer
                                ELSE p.links[n - i].player]]]

(***************************************************************************)
(* getCredits and getCast; the order in which the files list films and     *)
(* players is left open.                                                   *)
(***************************************************************************)
GetCredits(player) == {f \in Film : player \in db[f]}

GetCast(f) == db[f]
-----------------------------------------------------------------------------
Says(kind) == [kind |-> kind, path |-> NewPath(None)]

Init ==
  /\ db \in Databases
  /\ pc = "source"
  /\ source = None /\ target = None
  /\ bfsQ = << >> /\ visitedMovies = {} /\ visitedPlayers = {}
  /\ currPath = NewPath(None) /\ movies = {} /\ movie = None /\ cast = {}
  /\ answer = Says("nothing")

(***************************************************************************)
(* main: promptForActor returns a player of the database, or nothing when  *)
(* the user is done.                                                       *)
(***************************************************************************)
PromptSource(player) ==
  /\ pc = "source"
  /\ source' = player /\ target' = None /\ answer' = Says("nothing")
  /\ pc' = "target"
  /\ UNCHANGED <<db, locals>>

PromptTarget(player) ==
  /\ pc = "target"
  /\ target' = player
  /\ IF player = source
     THEN pc' = "source" /\ answer' = Says("goodOne") /\ UNCHANGED bfsQ
     ELSE pc' = "queue" /\ bfsQ' = <<NewPath(source)>> /\ UNCHANGED answer
  /\ UNCHANGED <<db, source, visitedMovies, visitedPlayers, currPath, movies, movie,
                 cast>>

Quit ==
  /\ pc \in {"source", "target"}
  /\ pc' = "quit"
  /\ UNCHANGED <<db, source, target, locals, answer>>

(***************************************************************************)
(* generateShortestPath prints its answer and returns.                     *)
(***************************************************************************)
PrintAnswer(a) ==
  /\ answer' = a
  /\ pc' = "source"
  /\ bfsQ' = << >> /\ visitedMovies' = {} /\ visitedPlayers' = {}
  /\ currPath' = NewPath(None) /\ movies' = {} /\ movie' = None /\ cast' = {}

TooLongOneLater(p) == Len(p.links) > MaxLength   \* mutant

TooLongOneEarlier(p) == Len(p.links) + 1 >= MaxLength   \* mutant

TooLong(p) == Len(p.links) >= MaxLength

NotFound ==
  /\ pc = "queue"
  /\ bfsQ # << >> => TooLong(Head(bfsQ))
  /\ PrintAnswer(Says("notFound"))
  /\ UNCHANGED <<db, source, target>>

PopPath ==
  /\ pc = "queue" /\ bfsQ # << >> /\ ~TooLong(Head(bfsQ))
  /\ currPath' = Head(bfsQ)
  /\ bfsQ' = Tail(bfsQ)
  /\ movies' = GetCredits(GetLastPlayer(currPath'))
  /\ pc' = "movies"
  /\ UNCHANGED <<db, source, target, visitedMovies, visitedPlayers, movie, cast, answer>>

(***************************************************************************)
(* The loop over the last player's films.                                  *)
(***************************************************************************)
NextMovie(f) ==
  /\ pc = "movies" /\ f \in movies
  /\ movies' = movies \ {f}
  /\ IF f \in visitedMovies THEN UNCHANGED <<pc, movie, cast>>
     ELSE movie' = f /\ cast' = GetCast(f) /\ pc' = "cast"
  /\ UNCHANGED <<db, source, target, bfsQ, visitedMovies, visitedPlayers, currPath,
                 answer>>

EndOfMovies ==
  /\ pc = "movies" /\ movies = {}
  /\ currPath' = NewPath(None)
  /\ pc' = "queue"
  /\ UNCHANGED <<db, source, target, bfsQ, visitedMovies, visitedPlayers, movies, movie,
                 cast, answer>>

(***************************************************************************)
(* The loop over the film's players.                                       *)
(***************************************************************************)
PushedInFront(q, p) == <<p>> \o q   \* mutant: a stack

Pushed(q, p) == Append(q, p)

IsNewOrSource(player) == player \notin visitedPlayers   \* mutant: no test of player1

IsNew(player) == player # source /\ player \notin visitedPlayers

NextPlayer(player) ==
  LET copy == AddConnection(currPath, movie, player)
  IN  /\ pc = "cast" /\ player \in cast
      /\ IF IsNew(player) /\ player = target THEN PrintAnswer([kind |-> "path", path |-> copy])
         ELSE /\ cast' = cast \ {player}
              /\ IF IsNew(player)
                 THEN /\ bfsQ' = Pushed(bfsQ, copy)
                      /\ visitedPlayers' = visitedPlayers \cup {player}
                 ELSE UNCHANGED <<bfsQ, visitedPlayers>>
              /\ UNCHANGED <<pc, visitedMovies, currPath, movies, movie, answer>>
      /\ UNCHANGED <<db, source, target>>

EndOfCast ==
  /\ pc = "cast" /\ cast = {}
  /\ visitedMovies' = visitedMovies \cup {movie}
  /\ movie' = None
  /\ pc' = "movies"
  /\ UNCHANGED <<db, source, target, bfsQ, visitedPlayers, currPath, movies, cast,
                 answer>>

Terminating == pc = "quit" /\ UNCHANGED vars

Next ==
  \/ \E p \in Player : PromptSource(p) \/ PromptTarget(p)
  \/ Quit
  \/ NotFound \/ PopPath
  \/ (\E f \in Film : NextMovie(f)) \/ EndOfMovies
  \/ (\E p \in Player : NextPlayer(p)) \/ EndOfCast
  \/ Terminating

Spec == Init /\ [][Next]_vars
-----------------------------------------------------------------------------
Path == [startPlayer : Player \cup {None}, links : Seq([movie : Film, player : Player])]

(***************************************************************************)
(* Type invariant; no path is longer than the length the search stops at.  *)
(***************************************************************************)
TypeOK ==
  /\ db \in [Film -> SUBSET Player]
  /\ pc \in {"source", "target", "queue", "movies", "cast", "quit"}
  /\ source \in Player \cup {None} /\ target \in Player \cup {None}
  /\ bfsQ \in Seq(Path)
  /\ visitedMovies \subseteq Film /\ visitedPlayers \subseteq Player
  /\ currPath \in Path
  /\ movies \subseteq Film /\ movie \in Film \cup {None} /\ cast \subseteq Player
  /\ answer \in [kind : {"nothing", "goodOne", "notFound", "path"}, path : Path]
  /\ \A p \in {bfsQ[i] : i \in DOMAIN bfsQ} \cup {answer.path} : Len(p.links) <= MaxLength

(***************************************************************************)
(* The players that at most n films connect with the source.               *)
(***************************************************************************)
Within ==
  LET reach[n \in 0 .. MaxLength] ==
        IF n = 0 THEN {source}
        ELSE reach[n - 1] \cup UNION {db[f] : f \in {g \in Film : db[g] \cap reach[n - 1] # {}}}
  IN  reach

Connects(p, from, to) ==
  LET at(i) == IF i = 0 THEN p.startPlayer ELSE p.links[i].player
  IN  /\ at(0) = from /\ at(Len(p.links)) = to
      /\ \A i \in DOMAIN p.links : {at(i - 1), at(i)} \subseteq db[p.links[i].movie]

IsShortest(p) ==
  LET n == Len(p.links)
  IN  Connects(p, source, GetLastPlayer(p)) /\ (n > 0 => GetLastPlayer(p) \notin Within[n - 1])

(***************************************************************************)
(* A path that is printed connects the two players and no shorter one      *)
(* does, in whatever order the files list films and casts.                 *)
(***************************************************************************)
AnswerShortest ==
  answer.kind = "path" => /\ IsShortest(answer.path)
                          /\ Connects(answer.path, source, target)

(***************************************************************************)
(* "No path" is printed only if MaxLength films do not connect the two.    *)
(***************************************************************************)
NotFoundOnlyIfFar == answer.kind = "notFound" => target \notin Within[MaxLength]

(***************************************************************************)
(* The search's loop invariant: the queue holds shortest paths to          *)
(* different players in the order of their lengths, which differ by one at *)
(* most, and every player nearer than the head, or as near, was queued.    *)
(***************************************************************************)
BreadthFirst ==
  LET len(i) == Len(bfsQ[i].links)
  IN  /\ \A i \in DOMAIN bfsQ : IsShortest(bfsQ[i])
      /\ \A i, j \in DOMAIN bfsQ :
           i < j => /\ len(i) <= len(j)
                    /\ GetLastPlayer(bfsQ[i]) # GetLastPlayer(bfsQ[j])
      /\ bfsQ # << >> => len(Len(bfsQ)) <= len(1) + 1
      /\ pc = "queue" /\ bfsQ # << >> =>
           Within[len(1)] \subseteq visitedPlayers \cup {source}

(***************************************************************************)
(* path.h: the reverse of a path leads back through the same films.        *)
(***************************************************************************)
ReverseLeadsBack ==
  answer.kind = "path" => /\ Connects(Reverse(answer.path), target, source)
                          /\ Reverse(Reverse(answer.path)) = answer.path
=============================================================================
