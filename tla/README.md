# TLA+ verification of the cs107-assignments programs

The repository holds the programming assignments of one course: independent
programs in C, C++, Scheme and Python, under `src/ass1` to `src/ass8`. This
directory models their own logic in TLA+, checks it with TLC and proves the
central facts with TLAPS. Its core is the program with the most to get wrong,
the multi-threaded bank simulator of `ass6`; around it stand the generic
containers, the tokenizer and the thesaurus of `ass3`, the news search of
`ass4`, the six-degrees search of `ass2`, and the programs that only compute on
lists and strings (`ass1`, `ass7`, `ass8`).

## 1. Inventory

| Part | State it keeps | Operations | Interaction | What is hard |
|---|---|---|---|---|
| **bank** `ass6/code/teller.c, account.c, branch.c, bank.c` | a balance per account and per branch, a semaphore for each and one for the bank | deposit, withdraw, transfer, branch and bank enquiry | worker threads share all of it | interleavings, lock order, deadlock, a check of the funds before the adjustment, an enquiry that reads branches one after the other |
| **driver** `ass6/code/bankdriver.c, action.c, report.c` | per-worker command counters, shared random streams, the report with its logs, the barrier's counter and semaphores | draw a command, do it, log it, meet at the barrier, report, compare with a sequential run | calls the tellers; workers meet at the barrier | barrier reset and release order, unprotected random streams, full logs, termination |
| **vector** `ass3/vector.c` | a block, its allocated and logical lengths | append, insert, replace, delete, sort, search, dispose | calls the client's free and compare functions | growth boundary, overlapping moves, who frees an element and when |
| **hash set** `ass3/hashset.c` | an array of vectors, a count | enter, lookup, count, map, dispose | built on the vector; calls the client's hash function | replacing equal elements, counting |
| **tokenizer** `ass3/streamtokenizer.c` | a position in a file, the client's buffer | next token, skip over, skip until | used by the thesaurus and, as a library, by the news search | delimiters put back, full buffers, end of file |
| **thesaurus** `ass3/thesaurus-lookup.c` | a hash set of words with vectors of synonyms, all strings on the heap | read the file, answer queries | tokenizer, hash set, vectors | order of tokens, repeated words, who frees a string, end of input |
| **news search** `ass4/rss-news-search.c` | sets of stop words and articles, an index from words to articles | read stop words, follow feeds, read items, scan articles, answer queries | pointers from the index into the article set, library containers | pointers kept across reallocation, a comparison that disagrees with the hash function, tags in any order, redirections, end of input |
| **six degrees** `ass2/*.cc` | a queue of paths, visited players and films | credits, cast, breadth-first search | reads an immutable database | is the path shortest, is the bound on its length right |
| **sentence generator** `ass1/*.cc` | a grammar, a sentence and a flag passed by reference | read, expand, print three versions | none | a failure met deep in an expansion, termination |
| **where am I** `ass7/where-am-i.scm` | none: pure functions | partition, quicksort, prefix, guesses, distances | none | equal elements, undefined cases of the geometry |
| **alignment** `ass8/align.py` | a memo table kept over all rounds | optimal alignment of two strands, test of it | none | memoized recursion, comparison of alternatives |
| **allocator** `ass5` | only the assignment's text is in the repository | | | |

What makes each part correct:

* *bank*: no lost update; the branches stay the sum of their accounts; no
  account is overdrawn; commands appear atomic; nobody waits for ever.
* *driver*: a report is taken while every worker stands still; every
  interleaving ends with the balances and reports of the sequential run; every
  worker finishes.
* *vector*, *hash set*: they implement the sequence and the set their headers
  describe, and each element is freed exactly once.
* *tokenizer*: no character is lost, none is read twice.
* *thesaurus*: a query is answered as the file says, each string is freed once,
  and a user who stops typing ends the program.
* *news search*: an item is read as its tags say, the index counts the words of
  the articles it lists, its pointers point at them, the answers rank them, and
  the program ends.
* *six degrees*: the path found is a shortest one.
* *sentence generator*: what is printed is a sentence of the grammar.
* *where am I*: the clumped points are the closest half of the points; every
  guess is one the geometry is defined for.
* *alignment*: the rows are the strands with gaps, the score is theirs, the memo
  changes no answer, and the score is the best there is (it is not: finding 3).

`PROJECT.json` lists the hazards at their lines with the properties that cover
them; those with a note and no property say in it why nothing covers them.

## 2. Modules

| Module | Models | Built on |
|---|---|---|
| `BankData` | accounts, branches, commands and their effect on the balances | |
| `BankAtomic` | what the bank promises: a teller command is one step, a bank enquiry excludes transfers while it reads | `BankData` |
| `BankTeller` | tellers, accounts, branches and the bank: each `sem_wait`, `sem_post`, load and store is a step | `BankData`; implements `BankAtomic` |
| `BankDriver` | `MyWorker`'s loop, the generator, the report log, the barrier, the final comparison | `BankData` |
| `SequenceSpec` | what `vector.h` promises | |
| `VectorOps` | the vector's struct and its operations | |
| `VectorMem` | a client of one vector of elements that own memory | `VectorOps`; implements `SequenceSpec` |
| `KeyedSetSpec` | what `hashset.h` promises | |
| `HashSet` | the hash set, its buckets being vectors | `VectorOps`; implements `KeyedSetSpec` |
| `Tokenizer` | the stream tokenizer, as functions on a position and a buffer | |
| `Thesaurus` | the thesaurus program: reading, queries, end of input, disposal | `Tokenizer`, `VectorOps`, an instance of `HashSet` |
| `NewsIndex` | stop words, feeds and their items, articles, the word index and the queries of the news search | |
| `SixDegrees` | the prompts, the search and the class `path` of six degrees | |
| `Alignment` | `optimal`, the starter's `findOptimalAlignment`, `testStrands`; all alignments for reference | |
| `WhereAmI` | the Scheme list functions | |
| `Grammar` | reading a grammar and expanding it; derivations for reference | |
| `ListPrograms` | main's loop of each list program and clients of the functions, one call a step | `Alignment`, `WhereAmI`, `Grammar`, `Tokenizer` |
| `MC...` | instances for TLC | |
| `OperatorProofs` | lemmas about sums, least and greatest elements and the vector's operations | `BankData`, `VectorOps`, `TLAPS` |
| `BankTellerProofs`, `BankDriverProofs`, `VectorMemProofs`, `HashSetProofs`, `NewsIndexProofs`, `SixDegreesProofs` | theorems about the modules of those names | `OperatorProofs` where they need it, `TLAPS` |
| `ThesaurusProofs` | theorems about `Thesaurus` | `OperatorProofs`, an instance of `HashSetProofs` |

### From code to model: the bank

A worker of `BankTeller` is a thread in `MyWorker`. `pc[w]` is its place in the
teller's code, `cmd[w]` the command it carries out, `sems[w]` the semaphores it
still has to wait for or to post, in program order, `adj[w]` the call of
`Account_Adjust` it is in and `reg[w]` the balance it has loaded. `held` is a
history variable that no guard reads. A step is one `sem_wait`, one `sem_post`
or one access of a balance that other threads can see: the source's `Y` macro
yields at the same places. Account numbers are pairs of branch and index, with
the projections and the order of the packed number. A command that fails
returns a nonnegative error code, so the worker's loop goes on after it.

Every transfer takes the bank's semaphore first. This serializes transfers
and makes the order of the semaphores below it redundant for transfers alone;
the model keeps that order all the same, and `LockOrder` states it, because
deposits, withdrawals and enquiries take the lower semaphores without the
bank's.

`BankAtomic` is deliberately weaker than a linearizable bank. While a bank
enquiry reads its branches one by one, deposits and withdrawals may take effect
between two reads, so its result need not be the bank's total at any one
instant; only transfers and other enquiries are kept out. The refinement
mapping lets a teller command take effect at its first store to an account: a
transfer that has not yet reached its destination still owes the amount, and
`accounts` adds it.

### From code to model: the driver

In `BankDriver` a teller command is a single step, which the refinement above
justifies, and everything else is fine-grained: drawing from a stream, the
semaphore around `Report_Transfer`, reading and storing its counter, the
barrier's counter loaded and stored under `finish_check`, the report, the reset
and the release of each other worker. `SequentialRun` is `TestBank`'s reference
run, and `CompareSucceeds` is `Bank_Compare` at the end. What command a seed
yields is the constant `Drawn`.

`DriverAssumption` states what `main` and its tests guarantee: 1, 2, 4, 8 or 16
workers of at most 16, and a multiple of 64 commands. With fewer than four
commands per worker `cmdsPerReportPerWorker` would be zero. The report due when
no command is left is never taken, because the generator looks for the end
first. Accounts that must fail start below zero and are given nothing, as in
the driver's failure tests, so that a failure does not depend on the order.

### From code to model: vector and hash set

A vector is a record of its slots, its logical and its allocated length. `Junk`
stands for what `malloc` leaves in a slot. `realloc` and `memmove` are external
and modelled by what the C standard says of them. Elements carry an identity,
so that `freed` counts how often the client's free function saw each. The
client keeps to the positions `vector.h` allows. `HashSet` assumes what
`hashset.h` asks of its client: equal elements have equal hash codes.

### From code to model: the news search

`pc` names the function that runs; a step is a line of the feeds file, an
answer of a server, a tag of a feed, the end of an item, the entry of an
article, one word of it or one query. `Answer` is what each server or file has:
the words of an article, the tags of a feed. `title` and `target` are the
buffers `ProcessSingleNewsItem` empties and its tags fill, in whatever order
they come; `ItemsRead` compares them with the part of the feed that the item
covers. Words, titles and URLs are names; of a URL the code sees, besides
equality, its hash code and what precedes its first slash, because
`articleCompare` compares no further when the titles agree; of a word, what
remains when its last character is cut off (`Shorter`), because that is what
happens to the last query when the input has ended and `fgets` leaves the
buffer as it was. The containers come with the assignment as a library and are
external: a bucket is a block of elements, and appending to a bucket that has
elements may move the block. A pointer remembers the block it was taken in;
reading through an old one finds junk, which may be any article.

### From code to model: tokenizer and thesaurus

A tokenizer is the text of its file, how much of it has been read, and the
client's buffer; `STNextToken` and the skips are functions on it. `Thesaurus` is
a real composition: it reads its file token by token, keeps its entries in the
instance `thesaurus` of `HashSet`, and the synonyms of each in a vector of
`VectorOps`. `heap` is the result of each `strdup` and how often it was freed:
`ThesEntryFree` frees an entry's word and its synonyms wherever the hash set
frees an element, when a word comes again as well as at the end. `StringHash`
takes no notice of upper and lower case, so `Hash` gives words the same code
that `strcmp` tells apart. The file is any sequence of the instance's lines,
with or without a last newline, and includes some that `TokenizeAndBuildThesaurus`
is not written for: `StringsFreedOnce` is checked for those too, `AnswersFaithful`
only for the files its comment describes. `response` is not initialized and may
hold anything when the input is empty; `fopen` may fail. A query for a word
without synonyms ends in `VectorNth`'s assertion; `AnswersFaithful` says that
nothing else does.

### From code to model: the list programs

`ListPrograms` holds programs that never run together: `program` says which
one a behaviour is about. What they compute is in operators of `Alignment`,
`WhereAmI`, `Grammar` and `Tokenizer`, in the recursion of the source where
they recurse; a step is one call with its arguments and its result in `call`,
or one turn of a main loop: `Align` keeps `main`'s memo from one round to the
next, `PrintVersion` prints a version or ends `rsg` with a failure. The
tokenizer's clients are those of the repository: the calls in
`TokenizeAndBuildThesaurus` keep the delimiters, `Welcome` discards them, and
`BuildIndices` skips to the colon of each line of the feeds file and over what
follows it. The feeds file has the lines the comment describes; a line without
a URL would have the next line taken for it, and at the end of the file the
last feed processed again. A random choice of productions becomes the set of all its outcomes, of expansions nested
at most `MaxDepth` deep. The Scheme program's points are pairs of integers, and
a rating is the square of the distance product, which orders the points as the
product does. The geometry is left out except for where it is undefined: two
circles with the same centre in `intersect`, and no points in `average`. These
modules declare `RECURSIVE` operators; no module with a theorem reaches them.

### From code to model: six degrees

`pc` is `main`'s prompt or one of the three nested loops of
`generateShortestPath`; a step is one iteration. The database is a constant of
each behaviour, chosen from `Databases`, and is the cast of each film; `imdb.cc`
finds credits and casts in binary files whose layout and binary searches are
abstracted. The order in which films and players are listed there is left open,
so every order is checked. `Within` is the reference: the players that at most
n films connect with the source. `path::reverse` is called by nothing in the
repository; it is applied to the answers.

## 3. What TLC checks

| Run | Instance | Shows |
|---|---|---|
| `bank_teller` | 3 workers, one command each, 2 branches of 2 accounts, 10 commands, an account at -1, no funds flow in or out | `TypeOK`, `NoDataRace`, `LockOrder`, `NoDeadlock`, `BranchConsistent`, `NoOverdraft`, `FixedBankBalance` |
| `bank_atomic` | 2 workers, 2 commands each, 2 branches of 1 account | `Refinement` (of `BankAtomic`), `AllFinish` |
| `bank_driver` | 3 workers, 6 streams, 24 commands, 2 stored reports of at most 3 entries | `TypeOK`, `NoSeedRace`, `ReportQuiescent`, `CompareSucceeds`, `AllFinish` |
| `vector_mem` | 5 elements of 2 kinds, initial allocation 1 | `TypeOK`, `FreedOnce`, `Refinement` (of `SequenceSpec`) |
| `hash_set` | 5 keys, some equal, in 2 buckets, 5 entries | `CountsMembers`, `LookupFindsLast`, `Refinement` (of `KeyedSetSpec`) |
| `thesaurus` | files of 3 lines from 6, a buffer of 2 characters, 2 buckets, 2 lines typed | `AnswersFaithful`, `StringsFreedOnce`, `QueriesEnd` |
| `news_index` | 9 URLs in buckets of their own, 6 words, 3 lines of feeds, 2 queries, 2 articles listed | `TypeOK`, `IndexFaithful`, `AnswersRank`, `ItemsRead`, `ProgramEnds` |
| `six_degrees` | every database of 5 players and 4 films with two players each, of which one film may have three; a limit of 3 | `TypeOK`, `AnswerShortest`, `NotFoundOnlyIfFar`, `BreadthFirst`, `ReverseLeadsBack` |
| `list_programs` | strands of up to 4 bases in 2 rounds, lists of up to 5 points, 3 distances and 4 stars, 3 grammars, texts of up to 6 characters with a buffer of 3, feeds files of up to 2 lines | `AlignmentScored`, `MemoSound`, `StarterOptimal`, `Clumped`, `GuessesComplete`, `PrintedDerivable`, `TokensFaithful` |
| `bank_read` | 2 workers, 1 branch of 2 accounts | finding 1: `BranchValidAtRead` is violated |
| `news_pointers` | as `news_index`, with one bucket for all URLs | finding 2: `PointersValid` is violated |
| `align_optimal` | strands of 3 and 4 bases, one round | finding 3: `OptimalScore` is violated |

Why the bounds are enough: the bank's workload has transfers both ways within
a branch, to the same account and both ways across branches, each kind of
enquiry, and amounts of which a second withdrawal fails; three workers are the
least that can block one another in a ring, and two with two commands each meet
again after a full round. The driver's run passes four periods, of which one
fills its log, one overflows, and two have no report left; with three workers
and six streams each worker uses more than one stream, and the last worker to
arrive at the barrier may be the first, the middle or the last of the release
loop. A vector of one slot grows to 4 and then to 10, and five elements cross
the first growth by append as well as by insertion. The lines of the thesaurus have no synonym, one, and
more than its vector holds at first, so the vector grows; words collide, come
again, and differ in case only; a synonym is empty, a word is longer than the
buffer. The news index meets an article twice under one URL, under a
redirection, and in a file; items have their tags in both orders, lack a link,
a title or an end tag, or have one closed at once; one word occurs in more
articles than an answer lists and one in none. The limit of the search, 5 in
the code, is 3, so that four films can be one too many; a search that took the
last path of its queue first would find a longer chain within it. The list
programs get every input up to their bounds: strands whose second round meets
the memo of the first, points at equal distances and on top of one another,
stars given twice, texts in which a token fills the buffer, ends it exactly and
overruns it. Symmetry is used only where
workers, or players and films, are interchangeable and no liveness is checked.

Fairness in the bank is weak fairness of each worker's step: the operating
system goes on scheduling every runnable thread. It is enough because a
semaphore that a worker waits for is contended only finitely often, as every
worker has finitely many commands; nothing is assumed about the order in which
waiters are served. The thesaurus and the news search have a single thread, and
`WF_vars(Next)` says that it goes on as long as it can. Their users need not
type anything: at every prompt the input may be at its end, and that
`QueriesEnd` and `ProgramEnds` hold is due to the response that is shortened in
each further turn. `ProgramEnds` also needs that no redirection leads back to
itself, which the code does not guard against; the instance has none that does.

Deadlock is checked wherever a program should go on; the thesaurus, the news
search and the list programs stop, or are asked a bounded number of questions,
and are checked without it.

### Findings

1. A comment in `Branch_Balance` (branch.c:88) says the branch's balance should
   equal the sum of its accounts there. A transfer within the branch does not
   take the branch's semaphore and may be half done. No money is lost:
   `BranchConsistent` states what does hold at every step, and `Refinement`
   that enquiries still return what an atomic bank would.
2. The index keeps pointers into the buckets of the article set
   (rss-news-search.c:604), which an insertion into the same bucket may move;
   `vector.h` warns of it. `LastArticlesValid` (section 4) says how far they can
   be trusted all the same: each leads to a place its bucket has, those to the
   last article of a bucket are valid, and so is the one a scan is using. With a hash function
   that separates the URLs no bucket moves, and `IndexFaithful` and `AnswersRank`
   are checked for that case; 1009 buckets make it likely for a few articles and
   never certain.
3. `optimal` (align.py:144) compares its third alternative with the score of
   the first, not with the best so far, and so may replace a better alignment
   by a worse one, although its comment promises the starter code's result. Its
   alignments are still valid ones (`AlignmentScored`), and the starter's
   recursion is optimal (`StarterOptimal`).

Seen while modelling, with no run of their own, because the code says so in
one place:

* The assignment of `ass6` asks that a transfer from A to B take none of the
  locks of one from C to D; `Teller_DoTransfer` (teller.c:117) always takes the
  bank's semaphore.
* The assignment of `ass4` asks never to index an article twice; `ScanArticle`
  (rss-news-search.c:602) scans an article whenever a feed lists it, and
  `IndexFaithful` counts its words once for every scan.
* The comment on `TokenizeAndBuildThesaurus` (thesaurus-lookup.c:104) says that
  a word without synonyms is dealt with. It is read correctly, but a query for
  it fails `VectorNth`'s assertion (line 211).
* `VectorDelete` (vector.c:70) does not assert that the position is in the
  vector, as `vector.h` says it does.
* The comment on `quicksort` (where-am-i.scm:161) says it sorts from high to
  low; it sorts from low to high, which is what `clumped-points` needs.
* The assignment of `ass2` lets the search go on while the head of the queue is
  of length 5 or less; the code (six-degrees.cc:52) stops there, so a chain of
  six films is not found.

## 4. What TLAPS proves

The theorems hold for every value of the constants that the module's assumption
allows: any number of workers, branches and accounts, any workload, any keys and
hash function, any database, any feeds and documents. `PROJECT.json` lists them
with the properties of section 3 that they state.

| Module | Theorems | Assumes of the constants |
|---|---|---|
| `BankTellerProofs` | `TypeCorrect`, `DataRaceFreedom`, `LocksOrdered`, `DeadlockFreedom`, `OverdraftFreedom`, `BranchesConsistent`, `BankBalanceFixed`, `BankImplementsAtomic` | `SizeAssumption`, `InitialAssumption`, `WorkerAssumption`: sizes, balances and workload have their types |
| `BankDriverProofs` | `DriverTypeCorrect`, `SeedsRaceFree`, `ReportsQuiescent`, and, with a condition on the workload, `ComparisonSucceeds`, `SettledFailuresFixed`, `SettledComparisonSucceeds` | `DriverAssumption`: the numbers of workers, streams and commands divide one another as `main` and its tests see to |
| `VectorMemProofs` | `VectorTypeCorrect`, `FreesOnce`, `VectorImplementsSequence` | `VectorAssumption` |
| `HashSetProofs` | `CountIsRight`, `LookupsRight`, `BucketsImplementSet` | `HashSetAssumption`: what `hashset.h` asks of the client |
| `ThesaurusProofs` | `StringsFreed`, `RepliesFaithful` | `ThesaurusAssumption`: strings, files and what is typed have their types, and every token may be a word |
| `NewsIndexProofs` | `NewsTypeCorrect`, `LastArticlesValid`, `ItemsRight`, and with a hash function that separates the URLs `IndexRight`, `AnswersRight` | `NewsAssumption`: what servers, files and tables hold has its type |
| `SixDegreesProofs` | `SearchTypeCorrect`, `AnswersShortest`, `NoAnswerMeansFar`, `QueueBreadthFirst`, `ReversesLeadBack` | `SixDegreesAssumption` |

`OperatorProofs` has the lemmas on sums of balances, on least and greatest
elements and on the operations of a vector that the others cite. None of the
properties is inductive; each rests on an invariant that is, which TLC checked on
the runs' instances before it was proved.

* *Bank.* `IInv` adds to the types `SemaphoreInv` (a semaphore is 0 exactly when
  one worker holds it, and no two hold the same one) and, for each worker,
  `LocalInv`: what it holds and what it still has to wait for or to post, at each
  place in the code. Data-race freedom and the lock order follow; for deadlock
  freedom, take the greatest semaphore, in the order `Before`, that somebody
  waits for: its holder cannot be waiting for a greater one. `BalanceInv` adds
  what a worker's register says of the balance it was loaded from, and that the
  funds of a withdrawal have been seen; only so is a store known to lose no
  update. Where no command moves funds in or out, `FlowInv` adds,
  for a bank enquiry, that what it has read and what it has still to read make
  up the bank, as far as no transfer can interfere. `MapInv` says, for any
  commands, where each of them stands with respect to `BankAtomic`. The
  refinement is proved step by step: every step of a worker is one of the
  command it stands for, or a stutter.
* *Driver.* `DriverInv` has five parts: the shape of the data, who draws from
  which streams, who is in `Report_Transfer`, which workers `numToFinish` has
  counted (`BarrierInv`), and that all workers report after the same number of
  commands (`RoundInv`). A worker that has been let go may come back to the
  barrier while the last one still lets others go; `CountedSet` leaves out those
  that are pending, without which the barrier's counter says nothing.
  `ComparisonSucceeds` adds `CompareInv`, which says of every state that there is
  an account of how it came about: how many commands of each stream have been
  done, each worker's latest command, and how many of its log entries are still
  to be stored. The balances are then the initial ones and what those commands
  change, in whatever order (`BankFollows`); round r draws from period r only
  (`RoundOf`); a period's log holds the right number of each kind of entry,
  unless it has overflowed, and the reports that were made are the totals at
  their barriers (`ReportsFollow`). The sequential run satisfies the same
  conditions (`RunHolds`), command by command, by induction over a recursive
  function on numbers; at the end both have done everything, so `Bank_Compare`
  finds the same balances and, by `LogCompare`, logs and reports it takes for
  equal.

  The theorem needs that whether a command fails does not depend on the order:
  `FailuresFixed`, of a set of commands, says that whatever part of a period is
  done, the next command of a stream is refused just if it is in the set. The
  code neither ensures nor checks this. Of two withdrawals that the account could
  not both cover, each run would refuse the one it meets later, and the
  comparison might fail although no worker did anything wrong. `FundsSettled` is
  enough for it: an account starts with all that the run takes from it, or below
  zero and is given nothing, as `Account_Init` and `Action_GetNext` have it when
  failures are tested; `MCDrawn` is such a workload, which TLC verifies. What the
  tests draw is random. In tests 3 and 7 an account starts with several times
  what is likely to be taken from it. In tests 1, 2, 4, 5 and 6 the commands take
  about as much from an account as it started with, or more, and give it as
  much and more; for those the condition is the weaker `FailuresFixed`, which
  such balances are likely, but not certain, to meet.
* *Vector.* `MemInv`: an element in the vector was made and is at one position,
  and exactly those that have left it have been freed, once. Each operation is
  seen as a map from the new positions to the old ones, be it an append that
  grows the block or a shift by `memmove`.
* *Hash set.* `SetInv`: a bucket holds, each at one position, the elements of its
  hash code after which no equal one was entered, and all others were freed.
  Symmetry and transitivity of `Same`, and `HashStable`, are used where an
  element takes an equal one's place.
* *Thesaurus.* The invariant of the hash set comes from `HashSetProofs`, as an
  instance. `OwnInv` adds that every address `strdup` returned belongs to one
  entry or to the one being built, that no two own the same, and that a string
  has been freed exactly if its owner has left the set. `ReadInv` says how
  far the file has been read: `Places` gives every string of the file a place in
  the text, `ReadTo` the tokenizer's place among them, and what has been entered
  keeps the strings of its line (`LinesEntered`). That the next token is the next
  string of the file (`StringToken`) follows from where its next delimiter is,
  and where the strings are from the lengths of those before (`PlacesFact`),
  which is an induction over the file, done by taking the least counterexample.
* *News search.* `NewsInv` says that every pointer lies in the bucket it was taken
  from, whatever the hash function. `LastArticlesValid` needs no more than that:
  a bucket moves only when an article is appended to it, which comes to stand
  behind every pointer taken before, and no step but the entry of an article
  changes a bucket. `Separates`, the hypothesis of the two theorems on what the
  index counts, says that no two URLs have the same hash code; without it a
  pointer may dangle (finding 2), and what is counted through it is anyone's guess. `FaithInv`
  then relates the index to history: every word's entries belong to different
  URLs, and count what is due to them in the scans that are over and in the part
  already read of the one that is not. `ItemInv` follows the tags: the open item
  starts at the first item tag after the last end tag, and the title and the link
  are the last ones supplied since.
* *Six degrees.* `SearchInv`: the queue holds shortest paths to different players,
  ordered, with lengths that differ by one at most; a player that has been seen
  has a path in the queue, or its films are being looked at or have been; and all
  players nearer than the queue's head have been seen. `Within` is a recursive
  function on numbers, of which the proof needs only the recursion itself and
  that it grows.

Only model-checked:

* liveness (`AllFinish`, `QueriesEnd`, `ProgramEnds`), which is out of the
  prover's reach;
* the list programs, whose operators are recursive as their source is.

## 5. What is not modelled

* Printing, argument parsing, timing and logging; the supplied binaries and
  libraries; `ass5`, whose code is not in the repository.
* `debug.c` and the `Y` macro's delays: interleaving at every step subsumes
  them.
* The test programs `vectortest.c`, `hashsettest.c` and `imdb-test.cc`, which
  call the containers and the database with fixed arguments and print; the
  models' clients issue the same calls in every order.
* Of the vector, `bsearch` on a sorted one and the overflow of the byte counts
  passed to `realloc`.
* Of the news search, the characters of words, tags and URLs, the tags and
  escape characters within an article, which the supplied library reads, and the
  release of memory when the program has ended. An item's description is read
  but never used.
* Of six degrees, the layout and the binary searches of the two data files, and
  `path::undoConnection`, which nothing calls.
* Of the sentence generator, files that do not parse and expansions nested
  deeper than the bound; whether a random expansion ends is a matter of
  probabilities.
* Of where am I, the geometry of `intersect` and `average-point` beyond the
  question of when they are undefined; they compute with real numbers.

## 6. Plan

Every safety property and refinement of the bank, the driver, the containers,
the thesaurus, the news search and six degrees that a run checks is a theorem.
What is left are the functions of the list programs, which would have to be
written without recursive operators to be reasoned about, and a bound on the
probability that a test of the bank draws commands that do not satisfy
`FailuresFixed`.
