---------------------------- MODULE ListPrograms ----------------------------
(***************************************************************************)
(* The programs of the repository that work on lists and keep little or no *)
(* state: a behaviour runs one of them, and a step is one call of its      *)
(* functions or one round of its loop.                                     *)
(***************************************************************************)
EXTENDS Alignment, WhereAmI, Grammar, Tokenizer, FiniteSets

CONSTANTS Strand,      \* align: what generateRandomDNAStrand may return
          MaxRounds,   \* align: how often the user asks for an alignment
          PointList,   \* where-am-i: the lists of points
          Distances,   \* where-am-i: the lists of distances
          Stars,       \* where-am-i: the lists of stars
          File,        \* rsg: the grammar files
          Text,        \* tokenizer: the texts of its file
          Delimiters,  \* tokenizer: the characters of st->delimiters
          Colon, Blank,
          FeedsFile    \* tokenizer: the files of feeds, by their lines

ASSUME ListProgramsAssumption ==
  /\ MaxRounds \in Nat /\ MaxDepth \in Nat
  /\ \A s \in Strand : s # << >> /\ \A i \in 1 .. Len(s) : s[i] \notin {Gap, Separator}
  /\ \A f \in File : \A i \in 1 .. Len(f) : f[i].lines # << >>

(***************************************************************************)
(* "Each line of the specified feeds file looks like this: <feed name>:    *)
(* <URL of remore xml document>" (rss-news-search.c:294).                  *)
(***************************************************************************)
ASSUME FeedsFileAssumption ==
  /\ {Colon, Blank} \cap Delimiters = {} /\ Colon # Blank
  /\ \A f \in FeedsFile : \A i \in 1 .. Len(f) :
       /\ \A j \in 1 .. Len(f[i].name) : f[i].name[j] # Colon
       /\ Len(f[i].url) \in 1 .. BufferLength - 1 /\ f[i].url[1] \notin {Colon, Blank}
       /\ \A j \in 1 .. Len(f[i].url) : f[i].url[j] \notin Delimiters
       /\ f[i].blanks \in Nat
       /\ \A j \in 1 .. Len(f[i].end) : f[i].end[j] \in Delimiters
       /\ i < Len(f) => f[i].end # << >>

VARIABLES program,   \* the program that runs
          call,      \* its last call: the function, its arguments, its result
          memo,      \* align: main's memo
          rounds,    \* align: the alignments made
          grammar,   \* rsg: main's grammar
          printed,   \* rsg: the versions printed
          status     \* rsg: what the program returns, or "running"

vars == <<program, call, memo, rounds, grammar, printed, status>>

Idle == [fn |-> "none"]

Init ==
  /\ program \in {"align", "where-am-i", "rsg", "tokenizer"}
  /\ call = Idle
  /\ memo = << >>
  /\ rounds = 0
  /\ grammar \in (IF program = "rsg" THEN {readGrammar(f) : f \in File} ELSE {<< >>})
  /\ printed = << >>
  /\ status = "running"

Calls(name) ==
  /\ program = name /\ call = Idle
  /\ UNCHANGED program

(***************************************************************************)
(* A round of align's main: two strands and their alignment, which adds to *)
(* the memo that the later rounds use.                                     *)
(***************************************************************************)
Align(s1, s2) ==
  /\ Calls("align")
  /\ rounds < MaxRounds
  /\ LET r == optimal(s1, s2, memo)
     IN  /\ call' = [fn |-> "optimal", s1 |-> s1, s2 |-> s2, best |-> r.best]
         /\ memo' = r.saved
  /\ rounds' = rounds + 1
  /\ UNCHANGED <<grammar, printed, status>>

Clump(points) ==
  /\ Calls("where-am-i")
  /\ call' = [fn |-> "clumped-points", points |-> points, clumped |-> clumped_points(points)]
  /\ UNCHANGED <<memo, rounds, grammar, printed, status>>

Guess(distances, stars) ==
  /\ Calls("where-am-i")
  /\ call' = [fn |-> "all-guesses", distances |-> distances, stars |-> stars,
              guesses |-> all_guesses(distances, stars)]
  /\ UNCHANGED <<memo, rounds, grammar, printed, status>>

(***************************************************************************)
(* The loop of rsg's main: a version is printed unless its expansion met   *)
(* an undefined nonterminal, which ends the program at once.               *)
(***************************************************************************)
PrintVersion ==
  /\ Calls("rsg")
  /\ status = "running" /\ Len(printed) < 3
  /\ \E out \in Version(grammar) :
       IF out.exit_code = 1
       THEN printed' = Append(printed, out.curr) /\ UNCHANGED status
       ELSE status' = "EXIT_FAILURE" /\ UNCHANGED printed
  /\ UNCHANGED <<call, memo, rounds, grammar>>

ExitProgram ==
  /\ Calls("rsg")
  /\ status = "running" /\ Len(printed) = 3
  /\ status' = "EXIT_SUCCESS"
  /\ UNCHANGED <<call, memo, rounds, grammar, printed>>

(***************************************************************************)
(* The tokens the calls of STNextToken return up to the end of the file:   *)
(* of the thesaurus with their delimiters, which TokenizeAndBuildThesaurus *)
(* makes its entries from (module Thesaurus), and of the news search's     *)
(* welcome text without, which Welcome prints.                             *)
(***************************************************************************)
RECURSIVE TokensFrom(_, _)

TokensFrom(st, discard) ==
  LET next == STNextToken(st, Delimiters, discard)
  IN  IF next.ok THEN <<next.st.buffer>> \o TokensFrom(next.st, discard) ELSE << >>

ThesaurusTokens(text) ==
  /\ Calls("tokenizer")
  /\ call' = [fn |-> "TokenizeAndBuildThesaurus", text |-> text,
              tokens |-> TokensFrom(STNew(text), FALSE)]
  /\ UNCHANGED <<memo, rounds, grammar, printed, status>>

Welcome(text) ==
  /\ Calls("tokenizer")
  /\ call' = [fn |-> "Welcome", text |-> text, printed |-> TokensFrom(STNew(text), TRUE)]
  /\ UNCHANGED <<memo, rounds, grammar, printed, status>>

(***************************************************************************)
(* The URLs BuildIndices hands to ProcessFeed: what follows the first      *)
(* colon of a line, and blanks or colons after it, up to the line's end.   *)
(***************************************************************************)
AfterName(st) == STSkipOver(st, {Colon, Blank})

RECURSIVE FeedsFrom(_)

FeedsFrom(st) ==
  LET name == STSkipUntil(st, {Colon})
      line == STNextToken(AfterName(name), Delimiters, TRUE)
  IN  IF StoppedAt(name) = EOF THEN << >> ELSE <<line.st.buffer>> \o FeedsFrom(line.st)

FeedLine(line) ==
  line.name \o <<Colon>> \o [i \in 1 .. line.blanks |-> Blank] \o line.url \o line.end

BuildIndices(file) ==
  /\ Calls("tokenizer")
  /\ call' = [fn |-> "BuildIndices", file |-> file,
              feeds |-> FeedsFrom(STNew(Concat([i \in 1 .. Len(file) |-> FeedLine(file[i])])))]
  /\ UNCHANGED <<memo, rounds, grammar, printed, status>>

Return ==
  /\ call # Idle
  /\ call' = Idle
  /\ UNCHANGED <<program, memo, rounds, grammar, printed, status>>

Next ==
  \/ \E s1, s2 \in Strand : Align(s1, s2)
  \/ \E points \in PointList : Clump(points)
  \/ \E distances \in Distances, stars \in Stars : Guess(distances, stars)
  \/ PrintVersion
  \/ ExitProgram
  \/ \E text \in Text : ThesaurusTokens(text)
  \/ \E text \in Text : Welcome(text)
  \/ \E file \in FeedsFile : BuildIndices(file)
  \/ Return

Spec == Init /\ [][Next]_vars
-----------------------------------------------------------------------------
Made(fn) == call.fn = fn

(***************************************************************************)
(* align's own test accepts every alignment: the two rows are the strands  *)
(* with gaps put in, and the score is what the columns add up to.          *)
(***************************************************************************)
WithoutGaps(row) ==
  LET IsBase(b) == b # Gap
  IN  SelectSeq(row, IsBase)

AlignmentScored ==
  Made("optimal") =>
    /\ WithoutGaps(call.best.al1) = call.s1 /\ WithoutGaps(call.best.al2) = call.s2
    /\ testStrands(call.best.score, plusScore(call.best.al1, call.best.al2),
                   minusScore(call.best.al1, call.best.al2),
                   call.best.al1, call.best.al2)

(***************************************************************************)
(* The dictionary main keeps over all rounds never changes an answer: it   *)
(* is what the recursion gives with an empty one.                          *)
(***************************************************************************)
MemoSound == Made("optimal") => call.best = optimal(call.s1, call.s2, << >>).best

(***************************************************************************)
(* The starter code's score is the best of all alignments, although with   *)
(* equal leading bases it makes no other recursive call (align.py:172).    *)
(***************************************************************************)
StarterOptimal ==
  Made("optimal") => findOptimalAlignment(call.s1, call.s2) = Max(AllScores(call.s1, call.s2))

(***************************************************************************)
(* The memoized recursion "is almost the same as the starter code"         *)
(* (align.py:94): its score is the starter code's.  The code violates it.  *)
(***************************************************************************)
OptimalScore ==
  Made("optimal") => call.best.score = findOptimalAlignment(call.s1, call.s2)

(***************************************************************************)
(* clumped-points returns half of the points, each as often as it is       *)
(* given, those closest to the others: none left out is rated lower.       *)
(***************************************************************************)
Count(p, points) == Cardinality({i \in 1 .. Len(points) : points[i] = p})

Rating(p, points) == distance_product(p, points)

Clumped ==
  Made("clumped-points") =>
    LET points == call.points
        kept == call.clumped
        given == {points[i] : i \in 1 .. Len(points)}
        LeftOut(p) == Count(p, kept) < Count(p, points)
    IN  /\ Len(kept) = Len(points) \div 2
        /\ \A i \in 1 .. Len(kept) : Count(kept[i], kept) <= Count(kept[i], points)
        /\ \A i \in 1 .. Len(kept) : \A p \in given :
             LeftOut(p) => Rating(kept[i], points) <= Rating(p, points)

(***************************************************************************)
(* all-guesses pairs the first distances with different stars in every     *)
(* possible way, and where-am-i can go on with each guess: intersect never *)
(* meets two circles with one centre and, from two distances and two       *)
(* different stars on, average never divides by zero.                      *)
(***************************************************************************)
GuessesComplete ==
  Made("all-guesses") =>
    LET stars == {call.stars[i] : i \in 1 .. Len(call.stars)}
        n == Min({Len(call.distances), Cardinality(stars)})
        guesses == {call.guesses[i] : i \in 1 .. Len(call.guesses)}
        SameCentre(pair) == pair[1][2] = pair[2][2]
    IN  /\ guesses = {[i \in 1 .. n |-> <<call.distances[i], f[i]>>] :
                        f \in {g \in [1 .. n -> stars] :
                                 \A i, j \in 1 .. n : i # j => g[i] # g[j]}}
        /\ \A g \in guesses :
             /\ \A i \in 1 .. Len(Intersected(g)) : ~SameCentre(Intersected(g)[i])
             /\ Averaged(g) > 0 <=> n >= 2

(***************************************************************************)
(* A version is printed only if it is a sentence of the grammar: one that  *)
(* an undefined nonterminal has left a hole in never is.                   *)
(***************************************************************************)
PrintedDerivable ==
  \A i \in 1 .. Len(printed) : printed[i] \in Sentences(grammar, 2 * MaxDepth)

(***************************************************************************)
(* A token is a delimiter or a stretch without one, which goes on in the   *)
(* next token only if it filled the buffer.                                *)
(***************************************************************************)
IsDelimiter(token) == token[1] \in Delimiters

IsWord(token) == ~IsDelimiter(token)

Tokens(tokens) ==
  \A i \in 1 .. Len(tokens) :
    IF IsDelimiter(tokens[i]) THEN Len(tokens[i]) = 1
    ELSE /\ Len(tokens[i]) < BufferLength
         /\ \A j \in 1 .. Len(tokens[i]) : tokens[i][j] \notin Delimiters
         /\ (i < Len(tokens) /\ IsWord(tokens[i + 1])) => Len(tokens[i]) = BufferLength - 1

(***************************************************************************)
(* Reading a file to its end gives every character of it once, in order.   *)
(* Discarding the delimiters, as the welcome text does, gives the other    *)
(* tokens.  And every line of a feeds file has its URL processed, once and *)
(* in the file's order, whatever its name and though the URL has colons    *)
(* itself, with or without empty lines and a newline at the end.           *)
(***************************************************************************)
TokensFaithful ==
  /\ Made("TokenizeAndBuildThesaurus") =>
       Concat(call.tokens) = call.text /\ Tokens(call.tokens)
  /\ Made("Welcome") =>
       call.printed = SelectSeq(TokensFrom(STNew(call.text), FALSE), IsWord)
  /\ Made("BuildIndices") => call.feeds = [i \in 1 .. Len(call.file) |-> call.file[i].url]
=============================================================================
