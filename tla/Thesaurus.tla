------------------------------ MODULE Thesaurus ------------------------------
(***************************************************************************)
(* The thesaurus of src/ass3 (thesaurus-lookup.c): a file read through the *)
(* stream tokenizer into a hash set of entries, each a word and a vector   *)
(* of synonyms, all strings owned by the entries; then the user's queries. *)
(* A string is a sequence of characters.                                   *)
(***************************************************************************)
EXTENDS Tokenizer, VectorOps, SequencesExt

CONSTANTS Character,          \* of a file, and of what a user types
          Key,                \* the strings that may be words
          Hash,               \* StringHash, which does not see a letter's case
          NumBuckets,         \* kApproximateWordCount
          InitialAllocation,  \* of a vector of synonyms
          MaxElements,        \* lines of a file
          Source,             \* files: sequences of lines, each of a word and synonyms
          Typed,              \* what a user may type on a line
          MaxTyped            \* lines a user types before the input ends

Comma == ","
NewLine == "NL"
Delimiters == {Comma, NewLine}

(***************************************************************************)
(* Any token may be a word, and any beginning of what is typed looked up.  *)
(***************************************************************************)
ASSUME ThesaurusAssumption ==
  /\ NumBuckets \in Nat \ {0} /\ MaxElements \in Nat
  /\ InitialAllocation \in Nat /\ MaxTyped \in Nat
  /\ Hash \in [Key -> 0 .. NumBuckets - 1]
  /\ Delimiters \subseteq Character
  /\ Source \subseteq Seq(Seq(Seq(Character)) \ {<< >>})
  /\ Typed \subseteq Seq(Character \ {NewLine})
  /\ \A c \in Delimiters : <<c>> \in Key
  /\ \A n \in 1 .. BufferLength - 1 : [1 .. n -> Character \ Delimiters] \subseteq Key
  /\ \A t \in Typed : \A n \in 1 .. Len(t) : SubSeq(t, 1, n) \in Key

VARIABLES buckets, logLen, entered, freed, disposed,   \* the hash set
          lines,      \* the lines of the file
          st,         \* the tokenizer
          current,    \* the entry being built
          entry,      \* the n-th entry entered: where its word and synonyms are
          heap,       \* each strdup: the string, and how often it was freed
          pc,
          typed,      \* lines read from the user
          response,   \* QueryThesaurus' buffer
          answer      \* the last query and the reply, if any

vars == <<buckets, logLen, entered, freed, disposed, lines, st, current, entry, heap, pc,
          typed, response, answer>>

setVars == <<buckets, logLen, entered, freed, disposed>>

StringCompare == {<<k, k>> : k \in Key}

thesaurus == INSTANCE HashSet WITH Same <- StringCompare

NoReply == [word |-> << >>, reply |-> {}]

(***************************************************************************)
(* The file's text; its last line may lack the newline.                    *)
(***************************************************************************)
Joined(strings, separator) ==
  FlattenSeq([i \in 1 .. Len(strings) |->
                IF i = 1 THEN strings[i] ELSE <<separator>> \o strings[i]])

TextOf(ls) == Joined([i \in 1 .. Len(ls) |-> Joined(ls[i], Comma)], NewLine)

(***************************************************************************)
(* The response is not initialized: it may hold any string at first.       *)
(***************************************************************************)
Init ==
  /\ thesaurus!Init
  /\ lines \in Source
  /\ \E end \in {<< >>, <<NewLine>>} : st = STNew(TextOf(lines) \o end)
  /\ entry = << >> /\ heap = << >>
  /\ current = [word |-> 0, synonyms |-> VectorNew(InitialAllocation)]
  /\ pc = "open"
  /\ typed = 0
  /\ response \in Typed
  /\ answer = NoReply

(***************************************************************************)
(* ReadThesaurus: fopen may fail, which ends the program.                  *)
(***************************************************************************)
OpenFile ==
  /\ pc = "open"
  /\ pc' \in {"word", "exit"}
  /\ UNCHANGED <<setVars, lines, st, current, entry, heap, typed, response, answer>>

NextToken == STNextToken(st, Delimiters, FALSE)

(***************************************************************************)
(* strdup of what the buffer holds, at the next address.                   *)
(***************************************************************************)
Allocated(buffer) == Append(heap, [string |-> buffer, frees |-> 0])

NewAddress == Len(heap) + 1

(***************************************************************************)
(* TokenizeAndBuildThesaurus: any token may be a word; the line goes on as *)
(* long as a comma follows, and a comma is followed by a synonym, whatever *)
(* it is.  The result of reading the synonym is not looked at: at the end  *)
(* of the file the buffer still holds the comma.                           *)
(***************************************************************************)
ReadWord ==
  /\ pc = "word"
  /\ NextToken.ok
  /\ st' = NextToken.st
  /\ heap' = Allocated(st'.buffer)
  /\ current' = [word |-> NewAddress, synonyms |-> VectorNew(InitialAllocation)]
  /\ pc' = "comma"
  /\ UNCHANGED <<setVars, lines, entry, typed, response, answer>>

EndOfFile ==
  /\ pc = "word"
  /\ ~NextToken.ok
  /\ pc' = "query"
  /\ UNCHANGED <<setVars, lines, st, current, entry, heap, typed, response, answer>>

ReadComma ==
  /\ pc = "comma"
  /\ st' = NextToken.st
  /\ pc' = IF NextToken.ok /\ st'.buffer[1] = Comma THEN "synonym" ELSE "enter"
  /\ UNCHANGED <<setVars, lines, current, entry, heap, typed, response, answer>>

ReadSynonym ==
  /\ pc = "synonym"
  /\ st' = NextToken.st
  /\ heap' = Allocated(st'.buffer)
  /\ current' = [current EXCEPT !.synonyms = VectorAppend(@, NewAddress)]
  /\ pc' = "comma"
  /\ UNCHANGED <<setVars, lines, entry, typed, response, answer>>

(***************************************************************************)
(* freefn on a set of entries: the word and, with VectorDispose, each of   *)
(* the synonyms are freed.                                                 *)
(***************************************************************************)
ThesEntryFreeWord(hp, ents, elems) ==   \* mutant: the vector of synonyms is forgotten
  [a \in 1 .. Len(hp) |->
     [hp[a] EXCEPT !.frees = @ + Cardinality({e \in elems : ents[e.id].word = a})]]

ThesEntryFree(hp, ents, elems) ==
  LET Owned(e) == {ents[e.id].word} \cup
                  {ents[e.id].synonyms.slot[p] : p \in Position(ents[e.id].synonyms)}
  IN  [a \in 1 .. Len(hp) |->
         [hp[a] EXCEPT !.frees = @ + Cardinality({e \in elems : a \in Owned(e)})]]

(***************************************************************************)
(* The entry is copied into the set; one with the same word, if any, is    *)
(* freed.                                                                  *)
(***************************************************************************)
EnterEntry ==
  /\ pc = "enter"
  /\ entry' = Append(entry, current)
  /\ thesaurus!Enter(heap[current.word].string)
  /\ heap' = ThesEntryFree(heap, entry', freed' \ freed)
  /\ pc' = "word"
  /\ UNCHANGED <<lines, st, current, typed, response, answer>>

(***************************************************************************)
(* The response, looked up: RandomInteger(0, -1) is 0, which VectorNth     *)
(* asserts against.                                                        *)
(***************************************************************************)
Chosen(synonyms) ==
  IF synonyms.logLen = 0 THEN {0} ELSE 0 .. synonyms.logLen - 1

Reply(word) ==
  LET found == thesaurus!Lookup(word)
  IN  IF found = {}
      THEN answer' = [word |-> word, reply |-> {}] /\ UNCHANGED pc
      ELSE \E e \in found : \E p \in Chosen(entry[e.id].synonyms) :
             IF p < entry[e.id].synonyms.logLen
             THEN /\ answer' = [word |-> word,
                                reply |-> {heap[entry[e.id].synonyms.slot[p]].string}]
                  /\ UNCHANGED pc
             ELSE /\ answer' = [word |-> word, reply |-> {}]
                  /\ pc' = "aborted"

(***************************************************************************)
(* An empty response ends the queries, and main disposes of the hash set.  *)
(***************************************************************************)
Answer(word) ==
  IF word = << >>
  THEN /\ thesaurus!Dispose
       /\ heap' = ThesEntryFree(heap, entry, freed' \ freed)
       /\ pc' = "done"
       /\ UNCHANGED answer
  ELSE /\ Reply(word)
       /\ UNCHANGED <<setVars, heap>>

Query(line) ==
  /\ pc = "query" /\ typed < MaxTyped
  /\ typed' = typed + 1
  /\ response' = line
  /\ Answer(line)
  /\ UNCHANGED <<lines, st, current, entry>>

(***************************************************************************)
(* At the end of the input fgets leaves the response as it was, and its    *)
(* last character is cut off as if it were the newline.                    *)
(***************************************************************************)
ResponseAtEndKept(r) == r   \* mutant: nothing is cut off at the end of the input

ResponseAtEnd(r) == IF r = << >> THEN r ELSE Front(r)

QueryAtEnd ==
  /\ pc = "query"
  /\ typed' = MaxTyped
  /\ response' = ResponseAtEnd(response)
  /\ Answer(response')
  /\ UNCHANGED <<lines, st, current, entry>>

Next ==
  \/ OpenFile
  \/ ReadWord
  \/ ReadComma
  \/ ReadSynonym
  \/ EnterEntry
  \/ EndOfFile
  \/ \E line \in Typed : Query(line)
  \/ QueryAtEnd

Spec == Init /\ [][Next]_vars

FairSpec == Spec /\ WF_vars(Next)
-----------------------------------------------------------------------------
(***************************************************************************)
(* A file as the comment of TokenizeAndBuildThesaurus describes it, with   *)
(* no string longer than the tokenizer's buffer takes.                     *)
(***************************************************************************)
IsString(s) ==
  Len(s) \in 1 .. BufferLength - 1 /\ \A k \in 1 .. Len(s) : s[k] \notin Delimiters

WellFormedFile ==
  lines # << >> /\ \A i \in 1 .. Len(lines) : \A j \in 1 .. Len(lines[i]) :
                     IsString(lines[i][j])

(***************************************************************************)
(* What the file says of a word: the synonyms of its last line, if any.    *)
(***************************************************************************)
Meaning(word) ==
  LET defining == {i \in 1 .. Len(lines) : lines[i][1] = word}
      last == CHOOSE i \in defining : \A j \in defining : j <= i
  IN  IF defining = {} THEN {} ELSE {{lines[last][j] : j \in 2 .. Len(lines[last])}}

(***************************************************************************)
(* Through the tokenizer, the hash set and the vectors, a query is         *)
(* answered with a synonym that the last line of its word lists, though    *)
(* the hash code does not tell upper from lower case; the program aborts   *)
(* only for a word that has no synonyms, and apologizes only if there is   *)
(* no such word.                                                           *)
(***************************************************************************)
AnswersFaithful ==
  (WellFormedFile /\ answer # NoReply) =>
    CASE pc = "aborted" -> Meaning(answer.word) = {{}}
      [] pc # "aborted" /\ answer.reply = {} -> Meaning(answer.word) = {}
      [] OTHER -> \E synonyms \in Meaning(answer.word) : answer.reply \subseteq synonyms

(***************************************************************************)
(* Whatever the file, no string is freed twice, none that an entry of the  *)
(* thesaurus owns is freed before it is disposed of, and in the end every  *)
(* one has been.                                                           *)
(***************************************************************************)
Strings(e) ==
  {entry[e.id].word} \cup {entry[e.id].synonyms.slot[p] : p \in Position(entry[e.id].synonyms)}

StringsFreedOnce ==
  /\ \A a \in 1 .. Len(heap) : heap[a].frees <= 1
  /\ \A e \in thesaurus!members : \A a \in Strings(e) : heap[a].frees = 0
  /\ pc = "done" => \A a \in 1 .. Len(heap) : heap[a].frees = 1

(***************************************************************************)
(* A user who stops typing ends the program: every further round of the    *)
(* query loop shortens the response.                                       *)
(***************************************************************************)
QueriesEnd == <>(pc \in {"done", "aborted", "exit"})
=============================================================================
