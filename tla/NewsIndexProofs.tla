-------------------------- MODULE NewsIndexProofs ---------------------------
(***************************************************************************)
(* Theorems about NewsIndex for any feeds, files, redirections, documents  *)
(* and queries: every pointer of the index lies in the article set and     *)
(* dangles only once an article was entered behind its own, and when the   *)
(* hash function separates the URLs the index counts the words of the      *)
(* documents and the answers rank them.                                    *)
(***************************************************************************)
EXTENDS NewsIndex, FiniteSetTheorems, FunctionTheorems, SequenceTheorems,
        WellFoundedInduction, TLAPS

(***************************************************************************)
(* Every pointer was taken to an element that its bucket still has,        *)
(* wherever its block is now; a document is being read from its URL.       *)
(***************************************************************************)
Placed(p) == p.bucket \in Bucket /\ p.pos \in 1 .. Len(articles[p.bucket].elems)

PlaceInv ==
  /\ \A w \in Word : \A i \in DOMAIN index[w] : Placed(index[w][i].artPointer)
  /\ pc = "scan" => Placed(currentArticle) /\ Answer[target].code = "ok"
  /\ pc \in {"feed", "article", "scan"} => target \in Url
  /\ pc # "start" => stopWords = StopWord

NewsInv == TypeOK /\ PlaceInv

(***************************************************************************)
(* A hash function that gives no two URLs the same code.  A bucket then    *)
(* has one article at most and never moves.                                *)
(***************************************************************************)
Separates == \A u, v \in Url : Hash[u] = Hash[v] => u = v

OneEach ==
  /\ \A b \in Bucket :
       /\ articles[b].block = 0
       /\ \A i \in 1 .. Len(articles[b].elems) :
            i = 1 /\ Hash[articles[b].elems[i].url] = b
  /\ \A w \in Word : \A i \in DOMAIN index[w] : index[w][i].artPointer.block = 0
  /\ pc = "scan" => currentArticle.block = 0 /\ currentArticle.bucket = Hash[target]

(***************************************************************************)
(* How often word w is due in the entry of URL u: in the scans that are    *)
(* over and in what has been read in the one that is not.                  *)
(***************************************************************************)
Indexed(w) == w \in WellFormed /\ w \notin StopWord

Count(w, doc, n) == Cardinality({i \in 1 .. n : doc[i] = w})

ReadSoFar(w, u) ==
  IF pc = "scan" /\ u = target /\ Indexed(w)
  THEN Count(w, Answer[u].words, Len(Answer[u].words) - Len(words)) ELSE 0

Due(w, u) == scans[u] * Occurrences(w, u) + ReadSoFar(w, u)

BucketAt(w, i) == index[w][i].artPointer.bucket

CountInv ==
  \A w \in Word :
    /\ \A i, j \in DOMAIN index[w] : BucketAt(w, i) = BucketAt(w, j) => i = j
    /\ \A i \in DOMAIN index[w], u \in Url :
         BucketAt(w, i) = Hash[u] =>
           Due(w, u) # 0 /\ index[w][i].numOccurances = Due(w, u)
    /\ \A u \in Url : Due(w, u) # 0 => \E i \in DOMAIN index[w] : BucketAt(w, i) = Hash[u]

ScanInv ==
  pc = "scan" =>
    LET doc == Answer[target].words
    IN  /\ Len(words) <= Len(doc)
        /\ \A i \in 1 .. Len(words) : words[i] = doc[Len(doc) - Len(words) + i]

AnswerInv ==
  /\ response.kind = "notAsked" \/ pc \in {"query", "done"}
  /\ AnswersRank

FaithInv == NewsInv /\ OneEach /\ CountInv /\ ScanInv /\ AnswerInv
-----------------------------------------------------------------------------
(***************************************************************************)
(* Least elements and sequences.                                           *)
(***************************************************************************)
LEMMA MinFact ==
  ASSUME NEW T, T \subseteq Nat, T # {}
  PROVE  Min(T) \in T /\ \A q \in T : Min(T) <= q
<1> DEFINE R == {ss \in Nat \X Nat : ss[1] < ss[2]}
<1>1. IsWellFoundedOn(R, Nat)
  BY NatLessThanWellFounded, Zenon DEF OpToRel
<1>2. PICK p \in T : \A q \in T : ~ (<<q, p>> \in R)
  <2> HIDE DEF R
  <2> QED BY <1>1, WFMin, Zenon
<1>3. \A q \in T : ~ (q < p)
  BY <1>2
<1>4. \A q \in T : p <= q
  BY <1>3
<1>5. \E x \in T : \A q \in T : x <= q
  BY <1>4
<1> QED BY <1>5 DEF Min

LEMMA SeqFact ==
  ASSUME NEW S, NEW s \in Seq(S)
  PROVE  /\ Len(s) \in Nat /\ DOMAIN s = 1 .. Len(s)
         /\ \A i \in 1 .. Len(s) : s[i] \in S
         /\ s = << >> <=> Len(s) = 0
BY EmptySeq

LEMMA TailFact ==
  ASSUME NEW S, NEW s \in Seq(S), s # << >>
  PROVE  /\ Tail(s) \in Seq(S) /\ Len(Tail(s)) = Len(s) - 1 /\ Len(s) > 0
         /\ Head(s) = s[1] /\ Head(s) \in S
         /\ \A i \in 1 .. Len(s) - 1 : Tail(s)[i] = s[i + 1]
<1>1. Len(s) # 0
  BY EmptySeq
<1> QED BY <1>1

(***************************************************************************)
(* What the servers answer, and the tags of a feed.                        *)
(***************************************************************************)
LEMMA AnswerFact ==
  ASSUME NEW u \in Url
  PROVE  /\ Answer[u].code \in {"ok", "moved", "failed"}
         /\ Answer[u].code = "ok" => Answer[u].words \in Seq(Word) /\ Answer[u].tags \in Seq(Tag)
         /\ Answer[u].code = "moved" => Answer[u].newUrl \in Url
<1> DEFINE a == Answer[u]
           Ws == Seq(Word)
           Ts == Seq(Tag)
<1>1. a \in [code : {"ok"}, words : Ws, tags : Ts]
              \cup [code : {"moved"}, newUrl : Url] \cup [code : {"failed"}]
  BY NewsAssumption DEF Response
<1> HIDE DEF a, Ws, Ts
<1>2. /\ a.code \in {"ok", "moved", "failed"}
      /\ a.code = "ok" => a.words \in Ws /\ a.tags \in Ts
      /\ a.code = "moved" => a.newUrl \in Url
  BY <1>1
<1> QED BY <1>2 DEF a, Ws, Ts

LEMMA TagFact ==
  ASSUME NEW tag \in Tag
  PROVE  /\ tag.name = "title" => tag.text \in Title \cup {Empty}
         /\ tag.name = "link" => tag.text \in Url \cup {Empty}
BY DEF Tag

(***************************************************************************)
(* The search for an article in a bucket, and in the articleInfos of a     *)
(* word.                                                                   *)
(***************************************************************************)
SamePosition(elems, a) == SelectInSeq(elems, LAMBDA e : SameArticle(a, e))

LEMMA SameFact ==
  ASSUME NEW elems, Len(elems) \in Nat, NEW a,
         NEW p, p = SamePosition(elems, a)
  PROVE  \/ p = 0 /\ \A i \in 1 .. Len(elems) : ~SameArticle(a, elems[i])
         \/ p \in 1 .. Len(elems) /\ SameArticle(a, elems[p])
<1> DEFINE T == {i \in 1 .. Len(elems) : SameArticle(a, elems[i])}
<1>1. p = IF T # {} THEN Min(T) ELSE 0
  BY DEF SelectInSeq, SamePosition
<1>2. CASE T = {}
  BY <1>1, <1>2
<1>3. CASE T # {}
  <2>1. T \subseteq Nat
    OBVIOUS
  <2>2. Min(T) \in T
    <3> HIDE DEF T
    <3> QED BY <1>3, <2>1, MinFact
  <2> QED BY <1>1, <1>3, <2>2
<1> QED BY <1>2, <1>3

LEMMA FoundFact ==
  ASSUME NEW infos, Len(infos) \in Nat, NEW url, NEW junk,
         NEW p, p = FoundArticle(infos, url, junk)
  PROVE  \/ p = 0 /\ \A i \in 1 .. Len(infos) : Read(infos[i].artPointer, junk).url # url
         \/ p \in 1 .. Len(infos) /\ Read(infos[p].artPointer, junk).url = url
<1> DEFINE T == {i \in 1 .. Len(infos) : Read(infos[i].artPointer, junk).url = url}
<1>1. p = IF T # {} THEN Min(T) ELSE 0
  BY DEF FoundArticle, SelectInSeq
<1>2. CASE T = {}
  BY <1>1, <1>2
<1>3. CASE T # {}
  <2>1. T \subseteq Nat
    OBVIOUS
  <2>2. Min(T) \in T
    <3> HIDE DEF T
    <3> QED BY <1>3, <2>1, MinFact
  <2> QED BY <1>1, <1>3, <2>2
<1> QED BY <1>2, <1>3

(***************************************************************************)
(* An article that is entered is in its bucket afterwards, where it can be *)
(* looked up; the bucket does not shrink.                                  *)
(***************************************************************************)
BucketOf == [block : Nat, elems : Seq(Article)]

LEMMA EnteredFact ==
  ASSUME NEW bucket \in BucketOf, NEW a \in Article, NEW moves \in BOOLEAN,
         NEW b, b = Entered(bucket, a, moves)
  PROVE  /\ b \in BucketOf /\ Len(b.elems) \in Nat /\ Len(bucket.elems) <= Len(b.elems)
         /\ b.block = bucket.block \/ Len(bucket.elems) < Len(b.elems)
         /\ \E i \in 1 .. Len(b.elems) : b.elems[i] = a
         /\ Len(bucket.elems) = 0 =>
              b.block = bucket.block /\ Len(b.elems) = 1 /\ b.elems[1] = a
         /\ Len(bucket.elems) = 1 /\ bucket.elems[1].url = a.url =>
              b.block = bucket.block /\ Len(b.elems) = 1 /\ b.elems[1] = a
<1> DEFINE s == bucket.elems
           k == bucket.block
<1>1. bucket = [block |-> k, elems |-> s] /\ k \in Nat /\ s \in Seq(Article)
  BY DEF BucketOf
<1>2. PICK p : p = SamePosition(s, a)
  OBVIOUS
<1>3. b = IF p # 0 THEN [bucket EXCEPT !.elems[p] = a]
          ELSE [block |-> IF moves /\ s # << >> THEN k + 1 ELSE k, elems |-> Append(s, a)]
  BY <1>2 DEF Entered, SamePosition
<1> HIDE DEF s, k
<1>4. /\ Len(s) \in Nat /\ DOMAIN s = 1 .. Len(s) /\ (s = << >> <=> Len(s) = 0)
  BY <1>1, SeqFact
<1>5. \/ p = 0 /\ \A i \in 1 .. Len(s) : ~SameArticle(a, s[i])
      \/ p \in 1 .. Len(s) /\ SameArticle(a, s[p])
  BY <1>2, <1>4, SameFact
<1>6. CASE p = 0
  <2> DEFINE t == Append(s, a)
             l == IF moves /\ s # << >> THEN k + 1 ELSE k
  <2>1. /\ t \in Seq(Article) /\ Len(t) = Len(s) + 1 /\ t[Len(s) + 1] = a
    BY <1>1
  <2>2. l \in Nat /\ (s = << >> => l = k)
    BY <1>1
  <2>3. b = [block |-> l, elems |-> t]
    BY <1>3, <1>6
  <2> HIDE DEF t, l
  <2>4. b.block = l /\ b.elems = t /\ b \in BucketOf
    BY <2>1, <2>2, <2>3 DEF BucketOf
  <2>5. Len(s) = 1 => s[1].url # a.url
    BY <1>4, <1>5, <1>6 DEF SameArticle
  <2>6. Len(s) + 1 \in 1 .. Len(t) /\ Len(s) <= Len(t)
    BY <1>4, <2>1
  <2>7. \E i \in 1 .. Len(t) : t[i] = a
    BY <2>1, <2>6
  <2>8. /\ Len(t) \in Nat /\ Len(s) < Len(t) /\ Len(s) <= Len(t) /\ ~(Len(s) = 1 /\ s[1].url = a.url)
        /\ Len(s) = 0 => l = k /\ Len(t) = 1 /\ t[1] = a
    BY <1>4, <2>1, <2>2, <2>5
  <2> QED BY <2>4, <2>7, <2>8 DEF s, k
<1>7. CASE p # 0
  <2> DEFINE t == [s EXCEPT ![p] = a]
  <2>1. p \in 1 .. Len(s)
    BY <1>5, <1>7
  <2>2. t \in Seq(Article) /\ Len(t) = Len(s) /\ t[p] = a
    BY <1>1, <1>4, <2>1
  <2>3. b = [block |-> k, elems |-> t]
    BY <1>1, <1>3, <1>7
  <2> HIDE DEF t
  <2>4. b.block = k /\ b.elems = t /\ b \in BucketOf
    BY <1>1, <2>2, <2>3 DEF BucketOf
  <2>5. Len(s) = 1 => p = 1
    BY <2>1
  <2> QED BY <1>4, <2>1, <2>2, <2>4, <2>5 DEF s, k
<1> QED BY <1>6, <1>7

LEMMA LookupFact ==
  ASSUME NEW set, NEW a, NEW elems, elems = set[Hash[a.url]].elems, Len(elems) \in Nat,
         \E i \in 1 .. Len(elems) : elems[i] = a,
         NEW p, p = Lookup(set, a)
  PROVE  /\ p = [bucket |-> Hash[a.url], block |-> set[Hash[a.url]].block, pos |-> p.pos]
         /\ p.bucket = Hash[a.url] /\ p.block = set[Hash[a.url]].block
         /\ p.pos \in 1 .. Len(elems)
<1>1. PICK q : q = SamePosition(elems, a)
  OBVIOUS
<1>2. p = [bucket |-> Hash[a.url], block |-> set[Hash[a.url]].block, pos |-> q]
  BY <1>1 DEF Lookup, SamePosition
<1>3. q \in 1 .. Len(elems)
  BY <1>1, SameFact DEF SameArticle
<1> QED BY <1>2, <1>3
-----------------------------------------------------------------------------
(***************************************************************************)
(* What the types say of the buckets, the index and the tags.              *)
(***************************************************************************)
LEMMA BucketFact ==
  ASSUME TypeOK, NEW b \in Bucket
  PROVE  /\ articles[b] \in BucketOf /\ articles[b].block \in Nat
         /\ articles[b].elems \in Seq(Article) /\ Len(articles[b].elems) \in Nat
         /\ \A i \in 1 .. Len(articles[b].elems) : articles[b].elems[i] \in Article
<1>1. articles[b] \in BucketOf
  BY DEF TypeOK, BucketOf
<1>2. articles[b].block \in Nat /\ articles[b].elems \in Seq(Article)
  BY <1>1 DEF BucketOf
<1> DEFINE s == articles[b].elems
<1>3. s \in Seq(Article)
  BY <1>2
<1> HIDE DEF s
<1>4. Len(s) \in Nat /\ \A i \in 1 .. Len(s) : s[i] \in Article
  BY <1>3, SeqFact
<1> QED BY <1>1, <1>2, <1>4 DEF s

LEMMA InfoFact ==
  ASSUME NEW infos \in Seq(ArticleInfo)
  PROVE  /\ Len(infos) \in Nat /\ DOMAIN infos = 1 .. Len(infos)
         /\ \A i \in 1 .. Len(infos) :
              /\ infos[i] = [artPointer |-> infos[i].artPointer,
                             numOccurances |-> infos[i].numOccurances]
              /\ infos[i] \in ArticleInfo
              /\ infos[i].numOccurances \in Nat /\ infos[i].artPointer \in Pointer
              /\ infos[i].artPointer.bucket \in Bucket
              /\ infos[i].artPointer.block \in Nat /\ infos[i].artPointer.pos \in Nat
<1>1. Len(infos) \in Nat /\ DOMAIN infos = 1 .. Len(infos) /\ \A i \in 1 .. Len(infos) : infos[i] \in ArticleInfo
  BY SeqFact
<1>2. \A x \in ArticleInfo :
        /\ x = [artPointer |-> x.artPointer, numOccurances |-> x.numOccurances]
        /\ x.numOccurances \in Nat /\ x.artPointer \in Pointer
  BY DEF ArticleInfo
<1>3. \A x \in Pointer : x.bucket \in Bucket /\ x.block \in Nat /\ x.pos \in Nat
  BY DEF Pointer
<1> QED BY <1>1, <1>2, <1>3

LEMMA TagsFact ==
  ASSUME TypeOK, tags # << >>
  PROVE  /\ Tail(tags) \in Seq(Tag) /\ Head(tags) \in Tag
         /\ Head(tags).name = "title" => Head(tags).text \in Title \cup {Empty}
         /\ Head(tags).name = "link" => Head(tags).text \in Url \cup {Empty}
<1>1. tags \in Seq(Tag)
  BY DEF TypeOK
<1>2. Tail(tags) \in Seq(Tag) /\ Head(tags) \in Tag
  BY <1>1, TailFact
<1> QED BY <1>2, TagFact

(***************************************************************************)
(* Reading through a pointer finds an article, be it junk.                 *)
(***************************************************************************)
LEMMA ReadFact ==
  ASSUME TypeOK, NEW p, Placed(p), NEW junk \in Article
  PROVE  Read(p, junk) \in Article
<1>1. p.bucket \in Bucket /\ p.pos \in 1 .. Len(articles[p.bucket].elems)
  BY DEF Placed
<1>2. articles[p.bucket].elems[p.pos] \in Article
  BY <1>1, BucketFact
<1> QED BY <1>2 DEF Read

(***************************************************************************)
(* The initial states.                                                     *)
(***************************************************************************)
LEMMA NewsInit == Init => NewsInv
<1> SUFFICES ASSUME Init PROVE NewsInv
  OBVIOUS
<1>1. /\ stopWords = {} /\ articles = [b \in Bucket |-> [block |-> 0, elems |-> << >>]]
      /\ index = [w \in Word |-> << >>]
      /\ pc = "start" /\ feedsRead = 0 /\ feed = << >> /\ tags = << >>
      /\ target = Empty /\ title = Empty /\ words = << >> /\ currentArticle = Null
      /\ scans = [u \in Url |-> 0] /\ queries = 0
      /\ response = [word |-> Empty, kind |-> "notAsked", list |-> << >>]
  BY DEF Init
<1>2. articles \in [Bucket -> [block : Nat, elems : Seq(Article)]]
  BY <1>1
<1>3. index \in [Word -> Seq(ArticleInfo)]
  BY <1>1
<1>4. currentArticle \in Pointer
  BY <1>1, NewsAssumption DEF Pointer, Null, Bucket
<1>5. scans \in [Url -> Nat] /\ feedsRead \in 0 .. MaxFeeds /\ queries \in 0 .. MaxQueries
  BY <1>1, NewsAssumption
<1>6. /\ response.word = Empty /\ response.list = << >>
      /\ response.list \in Seq([article : Article, numOccurances : Nat])
  BY <1>1
<1>7. Len(response.list) <= MaxResponses
  BY <1>6, NewsAssumption
<1>8. TypeOK
  BY <1>1, <1>2, <1>3, <1>4, <1>5, <1>6, <1>7 DEF TypeOK, PC
<1>9. \A w \in Word : DOMAIN index[w] = {}
  <2>1. \A w \in Word : index[w] \in Seq(ArticleInfo) /\ Len(index[w]) = 0
    BY <1>1
  <2>2. \A s \in Seq(ArticleInfo) : Len(s) = 0 => DOMAIN s = {}
    OBVIOUS
  <2> QED BY <2>1, <2>2
<1>10. PlaceInv
  BY <1>1, <1>9 DEF PlaceInv
<1> QED BY <1>8, <1>10 DEF NewsInv

(***************************************************************************)
(* Steps from function to function, which leave articles and index alone.  *)
(***************************************************************************)
LEMMA MoveKeeps ==
  ASSUME NewsInv, UNCHANGED <<articles, index, articleVars, queryVars>>,
         stopWords' = StopWord,
         pc' \in PC \ {"start", "scan"}, pc' \in {"feed", "article"} => target' \in Url,
         feedsRead' \in 0 .. MaxFeeds, feed' \in Seq(Tag), tags' \in Seq(Tag),
         target' \in Url \cup {Empty}, title' \in Title \cup {Empty}
  PROVE  NewsInv'
<1>1. UNCHANGED <<articles, index, words, currentArticle, scans, queries, response>>
  BY DEF articleVars, queryVars
<1>2. TypeOK'
  BY <1>1, NewsAssumption DEF NewsInv, TypeOK
<1>3. \A p : Placed(p)' <=> Placed(p)
  BY <1>1 DEF Placed
<1>4. PlaceInv'
  BY <1>1, <1>3 DEF NewsInv, PlaceInv
<1> QED BY <1>2, <1>4 DEF NewsInv

Moves ==
  \/ InitStopWords \/ (\E u \in FeedLine : NextFeed(u)) \/ EndOfFeeds \/ ProcessFeed
  \/ GetNextItemTag \/ ProcessSingleNewsItem \/ EndOfItem \/ EndOfItems
  \/ ParseArticleFailed \/ ParseArticleMoved \/ Quit

LEMMA MovesFact ==
  ASSUME NewsInv, Moves
  PROVE  /\ UNCHANGED <<articles, index, articleVars, queryVars>> /\ stopWords' = StopWord
         /\ pc # "scan" /\ pc' \in PC \ {"start", "scan"}
         /\ pc \in {"query", "done"} => pc' \in {"query", "done"}
         /\ pc' \in {"feed", "article"} => target' \in Url
         /\ feedsRead' \in 0 .. MaxFeeds /\ feed' \in Seq(Tag) /\ tags' \in Seq(Tag)
         /\ target' \in Url \cup {Empty} /\ title' \in Title \cup {Empty}
<1>1. /\ feedsRead \in 0 .. MaxFeeds /\ feed \in Seq(Tag) /\ tags \in Seq(Tag)
      /\ target \in Url \cup {Empty} /\ title \in Title \cup {Empty}
      /\ pc \in PC
      /\ pc # "start" => stopWords = StopWord
  BY DEF NewsInv, TypeOK, PlaceInv
<1>2. pc \in {"feed", "article", "scan"} => target \in Url
  BY DEF NewsInv, PlaceInv
<1>3. CASE InitStopWords
  BY <1>1, <1>3 DEF InitStopWords, feedVars, PC
<1>4. CASE \E u \in FeedLine : NextFeed(u)
  BY <1>1, <1>4, NewsAssumption DEF NextFeed, feedVars, indexVars, PC
<1>5. CASE EndOfFeeds \/ EndOfItems \/ Quit
  BY <1>1, <1>5 DEF EndOfFeeds, EndOfItems, Quit, feedVars, indexVars, PC
<1>6. CASE ProcessFeed
  <2>1. target \in Url
    BY <1>2, <1>6 DEF ProcessFeed
  <2>2. /\ Answer[target].code \in {"ok", "moved", "failed"}
        /\ Answer[target].code = "ok" => Answer[target].tags \in Seq(Tag)
        /\ Answer[target].code = "moved" => Answer[target].newUrl \in Url
    BY <2>1, AnswerFact
  <2>3. /\ pc = "feed" /\ UNCHANGED <<articles, index, stopWords, feedsRead, title, articleVars, queryVars>>
        /\ \/ feed' = Answer[target].tags /\ tags' = feed' /\ pc' = "items" /\ target' = target
              /\ Answer[target].code = "ok"
           \/ target' = Answer[target].newUrl /\ pc' = pc /\ feed' = feed /\ tags' = tags
              /\ Answer[target].code = "moved"
           \/ pc' = "feeds" /\ target' = target /\ feed' = feed /\ tags' = tags
    BY <1>6, <2>2 DEF ProcessFeed, feedVars, indexVars
  <2> QED BY <1>1, <2>1, <2>2, <2>3 DEF PC
<1>7. CASE GetNextItemTag
  <2>1. Tail(tags) \in Seq(Tag)
    BY <1>7, TagsFact DEF GetNextItemTag, NewsInv
  <2> QED BY <1>1, <1>7, <2>1 DEF GetNextItemTag, NoElementsYet, indexVars, PC
<1>8. CASE ProcessSingleNewsItem
  <2>1. /\ Tail(tags) \in Seq(Tag)
        /\ Head(tags).name = "title" => Head(tags).text \in Title \cup {Empty}
        /\ Head(tags).name = "link" => Head(tags).text \in Url \cup {Empty}
    BY <1>8, TagsFact DEF ProcessSingleNewsItem, NewsInv
  <2> QED BY <1>1, <1>8, <2>1 DEF ProcessSingleNewsItem, ExtractElement, indexVars, PC
<1>9. CASE EndOfItem
  <2>1. tags' \in Seq(Tag)
    BY <1>1, <1>9, TagsFact DEF EndOfItem, NewsInv
  <2> QED BY <1>1, <1>9, <2>1 DEF EndOfItem, indexVars, PC
<1>10. CASE ParseArticleFailed
  BY <1>1, <1>10 DEF ParseArticleFailed, feedVars, indexVars, PC
<1>11. CASE ParseArticleMoved
  <2>1. target \in Url /\ Answer[target].code = "moved"
    BY <1>2, <1>11 DEF ParseArticleMoved
  <2>2. Answer[target].newUrl \in Url
    BY <2>1, AnswerFact
  <2> QED BY <1>1, <1>11, <2>2 DEF ParseArticleMoved, feedVars, indexVars, PC
<1> QED BY <1>3, <1>4, <1>5, <1>6, <1>7, <1>8, <1>9, <1>10, <1>11 DEF Moves
-----------------------------------------------------------------------------
(***************************************************************************)
(* The article of the document at u is entered and looked up.              *)
(***************************************************************************)
LEMMA ScanArticleFact ==
  ASSUME TypeOK, NEW u \in Url, NEW t \in Title \cup {Empty}, ScanArticle(u, t),
         NEW h, h = Hash[u]
  PROVE  /\ h \in Bucket /\ articles' \in [Bucket -> BucketOf]
         /\ \A b \in Bucket : b # h => articles'[b] = articles[b]
         /\ Len(articles'[h].elems) \in Nat
         /\ Len(articles[h].elems) <= Len(articles'[h].elems)
         /\ \/ articles'[h].block = articles[h].block
            \/ Len(articles[h].elems) < Len(articles'[h].elems)
         /\ \/ Len(articles[h].elems) = 0
            \/ Len(articles[h].elems) = 1 /\ articles[h].elems[1].url = u
            => /\ articles'[h].block = articles[h].block
               /\ Len(articles'[h].elems) = 1 /\ articles'[h].elems[1].url = u
         /\ currentArticle' \in Pointer
         /\ currentArticle'.bucket = h /\ currentArticle'.block = articles'[h].block
         /\ currentArticle'.pos \in 1 .. Len(articles'[h].elems)
<1> DEFINE a == [url |-> u, title |-> t]
<1>1. h \in Bucket /\ articles \in [Bucket -> BucketOf]
  BY NewsAssumption DEF Bucket, TypeOK, BucketOf
<1>2. a \in Article /\ a.url = u
  BY DEF Article
<1>3. PICK moves \in BOOLEAN : articles' = [articles EXCEPT ![h] = Entered(@, a, moves)]
  BY DEF ScanArticle
<1>4. currentArticle' = Lookup(articles', a)
  BY DEF ScanArticle
<1> HIDE DEF a
<1> DEFINE o == articles[h]
<1>5. PICK b : b = Entered(o, a, moves)
  OBVIOUS
<1>6. o \in BucketOf
  BY <1>1
<1> HIDE DEF o
<1>7. /\ b \in BucketOf /\ Len(b.elems) \in Nat /\ Len(o.elems) <= Len(b.elems)
      /\ b.block = o.block \/ Len(o.elems) < Len(b.elems)
      /\ \E i \in 1 .. Len(b.elems) : b.elems[i] = a
      /\ Len(o.elems) = 0 => b.block = o.block /\ Len(b.elems) = 1 /\ b.elems[1] = a
      /\ Len(o.elems) = 1 /\ o.elems[1].url = a.url =>
           b.block = o.block /\ Len(b.elems) = 1 /\ b.elems[1] = a
  BY <1>2, <1>5, <1>6, EnteredFact
<1>8. articles' = [articles EXCEPT ![h] = b]
  BY <1>3, <1>5 DEF o
<1>9. /\ articles'[h] = b /\ articles' \in [Bucket -> BucketOf]
      /\ \A c \in Bucket : c # h => articles'[c] = articles[c]
  BY <1>1, <1>7, <1>8
<1> DEFINE p == currentArticle'
<1>10. /\ p = [bucket |-> h, block |-> articles'[h].block, pos |-> p.pos]
       /\ p.bucket = h /\ p.block = articles'[h].block /\ p.pos \in 1 .. Len(b.elems)
  <2>1. PICK elems : elems = articles'[Hash[a.url]].elems
    OBVIOUS
  <2>2. elems = b.elems /\ Hash[a.url] = h
    BY <1>2, <1>9, <2>1
  <2>3. Len(elems) \in Nat /\ \E i \in 1 .. Len(elems) : elems[i] = a
    BY <1>7, <2>2
  <2>4. PICK set : set = articles'
    OBVIOUS
  <2>5. elems = set[Hash[a.url]].elems /\ p = Lookup(set, a)
    BY <1>4, <2>1, <2>4
  <2> HIDE DEF p
  <2>6. /\ p = [bucket |-> Hash[a.url], block |-> set[Hash[a.url]].block, pos |-> p.pos]
        /\ p.bucket = Hash[a.url] /\ p.block = set[Hash[a.url]].block
        /\ p.pos \in 1 .. Len(elems)
    BY <2>3, <2>5, LookupFact
  <2> QED BY <2>2, <2>4, <2>6
<1> HIDE DEF p
<1>11. p \in Pointer
  <2>1. p.pos \in Nat /\ b.block \in Nat
    BY <1>7, <1>10 DEF BucketOf
  <2> QED BY <1>1, <1>9, <1>10, <2>1 DEF Pointer
<1> QED BY <1>1, <1>2, <1>7, <1>9, <1>10, <1>11 DEF o, p

(***************************************************************************)
(* Buckets that only grow keep every pointer in its bucket.                *)
(***************************************************************************)
LEMMA PlacedStays ==
  ASSUME TypeOK,
         \A b \in Bucket : /\ Len(articles'[b].elems) \in Nat
                           /\ Len(articles[b].elems) <= Len(articles'[b].elems),
         NEW p, Placed(p)
  PROVE  Placed(p)'
<1>1. p.bucket \in Bucket /\ p.pos \in 1 .. Len(articles[p.bucket].elems)
  BY DEF Placed
<1>2. Len(articles[p.bucket].elems) \in Nat
  BY <1>1, BucketFact
<1>3. p.pos \in 1 .. Len(articles'[p.bucket].elems)
  BY <1>1, <1>2
<1> QED BY <1>1, <1>3 DEF Placed

Starts == ProcessFeedFromFile \/ ParseArticle

(***************************************************************************)
(* Both ways to start with an article call ScanArticle for a document that *)
(* is there.                                                               *)
(***************************************************************************)
LEMMA StartsFact ==
  ASSUME NewsInv, Starts
  PROVE  /\ pc \in {"feed", "article"} /\ target \in Url /\ Answer[target].code = "ok"
         /\ \E t \in Title \cup {Empty} : ScanArticle(target, t) /\ title' = t
         /\ UNCHANGED <<feedsRead, feed, tags>> /\ target' = target
<1>1. pc \in {"feed", "article"} => target \in Url
  BY DEF NewsInv, PlaceInv
<1>2. CASE ProcessFeedFromFile
  <2>1. /\ pc = "feed" /\ target \in FileUrl /\ title' = FileTitle[target]
        /\ ScanArticle(target, title') /\ UNCHANGED <<feedsRead, feed, tags>>
    BY <1>2 DEF ProcessFeedFromFile, feedVars
  <2>2. FileTitle[target] \in Title /\ Answer[target].code = "ok"
    BY <2>1, NewsAssumption
  <2> QED BY <1>1, <2>1, <2>2 DEF ScanArticle
<1>3. CASE ParseArticle
  <2>1. /\ pc = "article" /\ Answer[target].code = "ok" /\ title' = title
        /\ ScanArticle(target, title) /\ UNCHANGED <<feedsRead, feed, tags>>
    BY <1>3 DEF ParseArticle, feedVars
  <2>2. title \in Title \cup {Empty}
    BY DEF NewsInv, TypeOK
  <2> QED BY <1>1, <2>1, <2>2 DEF ScanArticle
<1> QED BY <1>2, <1>3 DEF Starts

LEMMA StartKeeps ==
  ASSUME NewsInv, Starts
  PROVE  NewsInv'
<1> DEFINE h == Hash[target]
<1>1. PICK t \in Title \cup {Empty} : ScanArticle(target, t) /\ title' = t
  BY StartsFact
<1>2. /\ pc \in {"feed", "article"} /\ target \in Url /\ Answer[target].code = "ok"
      /\ UNCHANGED <<feedsRead, feed, tags>>
  BY StartsFact
<1>3. /\ words' = Answer[target].words /\ target' = target /\ pc' = "scan"
      /\ UNCHANGED <<stopWords, index, scans, queries, response>>
  BY <1>1 DEF ScanArticle, queryVars
<1>4. /\ h \in Bucket /\ articles' \in [Bucket -> BucketOf]
      /\ \A b \in Bucket : b # h => articles'[b] = articles[b]
      /\ Len(articles'[h].elems) \in Nat
      /\ Len(articles[h].elems) <= Len(articles'[h].elems)
      /\ currentArticle' \in Pointer /\ currentArticle'.bucket = h
      /\ currentArticle'.pos \in 1 .. Len(articles'[h].elems)
  BY <1>1, <1>2, ScanArticleFact DEF NewsInv
<1> HIDE DEF h
<1>5. TypeOK'
  <2>1. Answer[target].words \in Seq(Word)
    BY <1>2, AnswerFact
  <2> QED BY <1>1, <1>2, <1>3, <1>4, <2>1 DEF NewsInv, TypeOK, PC, BucketOf
<1>6. ASSUME NEW b \in Bucket
      PROVE  /\ Len(articles'[b].elems) \in Nat
             /\ Len(articles[b].elems) <= Len(articles'[b].elems)
  <2>1. CASE b = h
    BY <1>4, <2>1
  <2>2. CASE b # h
    <3>1. articles'[b] = articles[b] /\ Len(articles[b].elems) \in Nat
      BY <1>4, <2>2, BucketFact DEF NewsInv
    <3> QED BY <3>1
  <2> QED BY <2>1, <2>2
<1>7. \A p : Placed(p) => Placed(p)'
  BY <1>6, PlacedStays DEF NewsInv
<1>8. \A w \in Word : \A i \in DOMAIN index'[w] : Placed(index[w][i].artPointer)'
  <2>1. \A w \in Word : \A i \in DOMAIN index[w] : Placed(index[w][i].artPointer)
    BY DEF NewsInv, PlaceInv
  <2>2. index' = index
    BY <1>3
  <2> QED BY <1>7, <2>1, <2>2 DEF Placed
<1>9. Placed(currentArticle)'
  BY <1>4 DEF Placed
<1>10. stopWords' = StopWord
  BY <1>2, <1>3 DEF NewsInv, PlaceInv
<1> QED BY <1>2, <1>3, <1>5, <1>8, <1>9, <1>10 DEF NewsInv, PlaceInv
-----------------------------------------------------------------------------
(***************************************************************************)
(* A word is counted in the p-th of its articleInfos, or in a new one.     *)
(***************************************************************************)
LEMMA CountedFact ==
  ASSUME NEW infos \in Seq(ArticleInfo), currentArticle \in Pointer,
         NEW p, p = 0 \/ p \in 1 .. Len(infos), NEW new, new = Counted(infos, p)
  PROVE  /\ new \in Seq(ArticleInfo)
         /\ p = 0 => /\ Len(new) = Len(infos) + 1
                     /\ \A i \in 1 .. Len(infos) : new[i] = infos[i]
                     /\ new[Len(infos) + 1].artPointer = currentArticle
                     /\ new[Len(infos) + 1].numOccurances = 1
         /\ p # 0 => /\ Len(new) = Len(infos)
                     /\ \A i \in 1 .. Len(infos) :
                          /\ new[i].artPointer = infos[i].artPointer
                          /\ i # p => new[i].numOccurances = infos[i].numOccurances
                     /\ new[p].numOccurances = infos[p].numOccurances + 1
<1>1. /\ Len(infos) \in Nat /\ DOMAIN infos = 1 .. Len(infos)
      /\ \A i \in 1 .. Len(infos) :
           /\ infos[i] = [artPointer |-> infos[i].artPointer,
                          numOccurances |-> infos[i].numOccurances]
           /\ infos[i] \in ArticleInfo
           /\ infos[i].numOccurances \in Nat /\ infos[i].artPointer \in Pointer
  BY InfoFact
<1>2. CASE p = 0
  <2> DEFINE x == [artPointer |-> currentArticle, numOccurances |-> 1]
  <2>1. x \in ArticleInfo /\ x.artPointer = currentArticle /\ x.numOccurances = 1
    BY DEF ArticleInfo
  <2>2. new = Append(infos, x)
    BY <1>2 DEF Counted
  <2> HIDE DEF x
  <2>3. /\ new \in Seq(ArticleInfo) /\ Len(new) = Len(infos) + 1
        /\ \A i \in 1 .. Len(infos) : new[i] = infos[i]
        /\ new[Len(infos) + 1] = x
    BY <2>1, <2>2
  <2> QED BY <1>2, <2>1, <2>3
<1>3. CASE p # 0
  <2> DEFINE x == [artPointer |-> infos[p].artPointer,
                   numOccurances |-> infos[p].numOccurances + 1]
  <2>1. p \in 1 .. Len(infos)
    BY <1>3
  <2>2. x \in ArticleInfo
    BY <1>1, <2>1 DEF ArticleInfo
  <2>3. x = [infos[p] EXCEPT !.numOccurances = @ + 1]
    BY <1>1, <2>1
  <2>4. new = [infos EXCEPT ![p].numOccurances = @ + 1]
    BY <1>3 DEF Counted
  <2>5. new = [infos EXCEPT ![p] = x]
    BY <2>3, <2>4
  <2>6. x.artPointer = infos[p].artPointer /\ x.numOccurances = infos[p].numOccurances + 1
    OBVIOUS
  <2> HIDE DEF x
  <2>7. /\ new \in Seq(ArticleInfo) /\ Len(new) = Len(infos) /\ new[p] = x
        /\ \A i \in 1 .. Len(infos) : i # p => new[i] = infos[i]
    BY <1>1, <2>1, <2>2, <2>5
  <2> QED BY <1>3, <2>6, <2>7
<1> QED BY <1>2, <1>3

LEMMA ScanWordFact ==
  ASSUME NewsInv, ScanWord
  PROVE  /\ pc = "scan" /\ words # << >> /\ words' = Tail(words)
         /\ Head(words) \in Word /\ Tail(words) \in Seq(Word)
         /\ UNCHANGED <<stopWords, articles, pc, feedsRead, feed, tags, target, title,
                        currentArticle, scans, queries, response>>
         /\ \/ ~Indexed(Head(words)) /\ index' = index
            \/ /\ Indexed(Head(words))
               /\ \E junk \in Article :
                    index' = [index EXCEPT ![Head(words)] =
                                Counted(index[Head(words)],
                                        FoundArticle(index[Head(words)], target, junk))]
<1>1. stopWords = StopWord /\ words \in Seq(Word)
  BY DEF ScanWord, NewsInv, PlaceInv, TypeOK
<1>2. pc = "scan" /\ words # << >>
  BY DEF ScanWord
<1>3. Head(words) \in Word /\ Tail(words) \in Seq(Word)
  BY <1>1, <1>2, TailFact
<1> QED BY <1>1, <1>2, <1>3 DEF ScanWord, Indexed, feedVars, queryVars

LEMMA ScanWordKeeps ==
  ASSUME NewsInv, ScanWord
  PROVE  NewsInv'
<1> DEFINE w == Head(words)
<1>1. /\ pc = "scan" /\ words' = Tail(words) /\ w \in Word /\ Tail(words) \in Seq(Word)
      /\ UNCHANGED <<stopWords, articles, pc, feedsRead, feed, tags, target, title,
                     currentArticle, scans, queries, response>>
  BY ScanWordFact
<1>2. TypeOK /\ PlaceInv /\ currentArticle \in Pointer /\ Placed(currentArticle)
  BY <1>1 DEF NewsInv, TypeOK, PlaceInv
<1>3. \A p : Placed(p)' <=> Placed(p)
  BY <1>1 DEF Placed
<1>4. /\ index' \in [Word -> Seq(ArticleInfo)]
      /\ \A v \in Word : \A i \in DOMAIN index'[v] : Placed(index'[v][i].artPointer)
  <2>1. CASE index' = index
    BY <1>2, <2>1 DEF TypeOK, PlaceInv
  <2>2. CASE \E junk \in Article :
               index' = [index EXCEPT ![w] =
                           Counted(index[w], FoundArticle(index[w], target, junk))]
    <3>1. PICK junk \in Article :
            index' = [index EXCEPT ![w] =
                        Counted(index[w], FoundArticle(index[w], target, junk))]
      BY <2>2
    <3> DEFINE infos == index[w]
    <3>2. PICK p : p = FoundArticle(infos, target, junk)
      OBVIOUS
    <3>3. PICK new : new = Counted(infos, p)
      OBVIOUS
    <3>4. infos \in Seq(ArticleInfo)
      BY <1>1, <1>2 DEF TypeOK
    <3>5. index' = [index EXCEPT ![w] = new]
      BY <3>1, <3>2, <3>3
    <3>6. \A i \in DOMAIN infos : Placed(infos[i].artPointer)
      BY <1>1, <1>2 DEF PlaceInv
    <3> HIDE DEF infos
    <3>7. Len(infos) \in Nat /\ DOMAIN infos = 1 .. Len(infos)
      BY <3>4, InfoFact
    <3>8. p = 0 \/ p \in 1 .. Len(infos)
      BY <3>2, <3>7, FoundFact
    <3>9. /\ new \in Seq(ArticleInfo)
          /\ p = 0 => /\ Len(new) = Len(infos) + 1
                      /\ \A i \in 1 .. Len(infos) : new[i] = infos[i]
                      /\ new[Len(infos) + 1].artPointer = currentArticle
          /\ p # 0 => /\ Len(new) = Len(infos)
                      /\ \A i \in 1 .. Len(infos) : new[i].artPointer = infos[i].artPointer
      BY <1>2, <3>3, <3>4, <3>8, CountedFact
    <3>10. DOMAIN new = 1 .. Len(new)
      BY <3>9, InfoFact
    <3>11. \A i \in DOMAIN new : Placed(new[i].artPointer)
      <4>1. CASE p = 0
        <5>1. \A i \in 1 .. Len(new) : i \in 1 .. Len(infos) \/ i = Len(infos) + 1
          BY <3>7, <3>9, <4>1
        <5> QED BY <1>2, <3>6, <3>7, <3>9, <3>10, <4>1, <5>1
      <4>2. CASE p # 0
        BY <3>6, <3>7, <3>9, <3>10, <4>2
      <4> QED BY <4>1, <4>2
    <3>12. index \in [Word -> Seq(ArticleInfo)]
      BY <1>2 DEF TypeOK
    <3>13. index' \in [Word -> Seq(ArticleInfo)] /\ index'[w] = new
           /\ \A v \in Word : v # w => index'[v] = index[v]
      BY <1>1, <3>5, <3>9, <3>12
    <3>14. \A v \in Word : v # w => \A i \in DOMAIN index'[v] : Placed(index'[v][i].artPointer)
      BY <1>2, <3>13 DEF PlaceInv
    <3> QED BY <3>11, <3>13, <3>14
  <2> QED BY <2>1, <2>2, ScanWordFact
<1>5. TypeOK'
  BY <1>1, <1>2, <1>4 DEF TypeOK
<1>6. \A v \in Word : \A i \in DOMAIN index'[v] : Placed(index[v][i].artPointer)'
  BY <1>1, <1>4 DEF Placed
<1>7. PlaceInv'
  BY <1>1, <1>2, <1>3, <1>6 DEF PlaceInv
<1> QED BY <1>5, <1>7 DEF NewsInv

LEMMA EndOfArticleKeeps ==
  ASSUME NewsInv, EndOfArticle
  PROVE  NewsInv'
<1>1. /\ pc = "scan" /\ scans' = [scans EXCEPT ![target] = @ + 1] /\ currentArticle' = Null
      /\ pc' = "items"
      /\ UNCHANGED <<stopWords, articles, index, feedsRead, feed, tags, target, title, words,
                     queries, response>>
  BY DEF EndOfArticle, indexVars, feedVars, queryVars
<1>2. target \in Url /\ stopWords = StopWord
  BY <1>1 DEF NewsInv, PlaceInv
<1>3. scans' \in [Url -> Nat]
  BY <1>1, <1>2 DEF NewsInv, TypeOK
<1>4. Null \in Pointer
  BY NewsAssumption DEF Pointer, Null, Bucket
<1>5. TypeOK'
  BY <1>1, <1>3, <1>4 DEF NewsInv, TypeOK, PC
<1>6. \A p : Placed(p)' <=> Placed(p)
  BY <1>1 DEF Placed
<1>7. PlaceInv'
  BY <1>1, <1>2, <1>6 DEF NewsInv, PlaceInv
<1> QED BY <1>5, <1>7 DEF NewsInv
-----------------------------------------------------------------------------
(***************************************************************************)
(* Sorting permutes the articleInfos, the most frequent first.             *)
(***************************************************************************)
LEMMA PairsFact ==
  ASSUME NEW infos, NEW n \in Nat, NEW D, D = 1 .. n
  PROVE  /\ IsFiniteSet(D) /\ Cardinality(D) = n
         /\ Cardinality({<<i, infos[i]>> : i \in D}) = n
<1> DEFINE S == {<<i, infos[i]>> : i \in D}
           g == [i \in D |-> <<i, infos[i]>>]
<1>1. g \in Bijection(D, S)
  <2>1. g \in [D -> S]
    OBVIOUS
  <2>2. \A i, j \in D : g[i] = g[j] => i = j
    OBVIOUS
  <2>3. \A x \in S : \E i \in D : g[i] = x
    OBVIOUS
  <2> HIDE DEF g, S
  <2> QED BY <2>1, <2>2, <2>3, Fun_IsBij
<1>2. IsFiniteSet(D) /\ Cardinality(D) = n
  BY FS_Interval
<1> HIDE DEF g, S
<1>3. ExistsBijection(D, S)
  BY <1>1 DEF ExistsBijection
<1>4. Cardinality(S) = Cardinality(D)
  BY <1>2, <1>3, FS_Bijection
<1> QED BY <1>2, <1>4 DEF S

Permuted(new, infos, n) ==
  \E f \in [1 .. n -> 1 .. n] :
    /\ \A i, j \in 1 .. n : f[i] = f[j] => i = j
    /\ \A j \in 1 .. n : \E i \in 1 .. n : f[i] = j
    /\ \A i \in 1 .. n : new[i] = infos[f[i]]

Descending(new, n) ==
  \A i, j \in 1 .. n : i < j => new[i].numOccurances >= new[j].numOccurances

LEMMA SortsFact ==
  ASSUME NEW infos \in Seq(ArticleInfo), NEW n, n = Len(infos), NEW s \in Sorts(infos),
         NEW new, new = [i \in DOMAIN s |-> s[i][2]]
  PROVE  /\ new \in Seq(ArticleInfo) /\ Len(new) = n
         /\ Permuted(new, infos, n) /\ Descending(new, n)
<1>1. n \in Nat /\ DOMAIN infos = 1 .. n /\ \A i \in 1 .. n : infos[i] \in ArticleInfo
  BY InfoFact
<1> DEFINE D == 1 .. n
           S == {<<i, infos[i]>> : i \in DOMAIN infos}
<1>2. Cardinality(S) = n
  <2> HIDE DEF D
  <2>1. DOMAIN infos = D /\ n \in Nat /\ D = 1 .. n
    BY <1>1 DEF D
  <2> QED BY <2>1, PairsFact
<1>3. s \in SetToSeqs(S)
  BY DEF Sorts
<1>4. /\ s \in [D -> S] /\ \A i, j \in D : i # j => s[i] # s[j]
  BY <1>2, <1>3 DEF SetToSeqs
<1>5. \A i, j \in D : i < j => s[i][2].numOccurances >= s[j][2].numOccurances
  BY <1>1 DEF Sorts
<1> DEFINE f == [i \in D |-> s[i][1]]
<1>6. \A i \in D : s[i][1] \in D /\ s[i] = <<s[i][1], infos[s[i][1]]>>
  BY <1>1, <1>4
<1>7. f \in [D -> D] /\ \A i, j \in D : f[i] = f[j] => i = j
  <2>1. f \in [D -> D] /\ \A i \in D : f[i] = s[i][1]
    BY <1>6
  <2> HIDE DEF f, D, S
  <2>2. ASSUME NEW i \in D, NEW j \in D, f[i] = f[j] PROVE i = j
    <3>1. s[i] = s[j]
      BY <1>6, <2>1, <2>2
    <3> QED BY <1>4, <3>1
  <2> QED BY <2>1, <2>2
<1>8. \A i \in D : f[i] = s[i][1]
  OBVIOUS
<1>9. IsFiniteSet(D) /\ Cardinality(D) = n
  <2> HIDE DEF f, S, D
  <2>1. D = 1 .. n
    BY DEF D
  <2> QED BY <1>1, <2>1, PairsFact
<1> HIDE DEF f, D, S
<1>10. f \in Surjection(D, D)
  <2>1. f \in Injection(D, D)
    BY <1>7, Fun_IsInj
  <2> QED BY <1>9, <2>1, FS_Injection
<1>11. \A j \in D : \E i \in D : f[i] = j
  BY <1>10, Fun_IsSurj DEF Surjection
<1>12. new = [i \in D |-> s[i][2]]
  BY <1>4
<1>13. \A i \in D : new[i] = s[i][2] /\ new[i] = infos[f[i]]
  BY <1>6, <1>8, <1>12
<1>14. new \in Seq(ArticleInfo) /\ Len(new) = n
  <2>1. \A i \in D : new[i] \in ArticleInfo
    BY <1>1, <1>7, <1>13 DEF D
  <2>2. new \in [1 .. n -> ArticleInfo]
    BY <1>12, <1>13, <2>1 DEF D
  <2> QED BY <1>1, <2>2
<1>15. Permuted(new, infos, n)
  <2>1. /\ f \in [1 .. n -> 1 .. n]
        /\ \A i, j \in 1 .. n : f[i] = f[j] => i = j
        /\ \A j \in 1 .. n : \E i \in 1 .. n : f[i] = j
        /\ \A i \in 1 .. n : new[i] = infos[f[i]]
    BY <1>7, <1>11, <1>13 DEF D
  <2> QED BY <2>1, Zenon DEF Permuted
<1>16. Descending(new, n)
  BY <1>5, <1>13 DEF D, Descending
<1> QED BY <1>14, <1>15, <1>16

(***************************************************************************)
(* What is listed of the articleInfos of a word.                           *)
(***************************************************************************)
LEMMA ListedFact ==
  ASSUME NewsInv, NEW infos \in Seq(ArticleInfo), NEW junk \in Article,
         \A i \in 1 .. Len(infos) : Placed(infos[i].artPointer),
         NEW list, list = Listed(infos, junk)
  PROVE  /\ list \in Seq([article : Article, numOccurances : Nat])
         /\ Len(list) = (IF Len(infos) <= MaxResponses THEN Len(infos) ELSE MaxResponses)
         /\ DOMAIN list = 1 .. Len(list)
         /\ \A i \in 1 .. Len(list) :
              /\ i \in 1 .. Len(infos)
              /\ list[i].article = Read(infos[i].artPointer, junk)
              /\ list[i].numOccurances = infos[i].numOccurances
<1> DEFINE m == IF Len(infos) <= MaxResponses THEN Len(infos) ELSE MaxResponses
           R == [article : Article, numOccurances : Nat]
           at(i) == [article |-> Read(infos[i].artPointer, junk),
                     numOccurances |-> infos[i].numOccurances]
<1>1. Len(infos) \in Nat /\ \A i \in 1 .. Len(infos) : infos[i].numOccurances \in Nat
  BY InfoFact
<1>2. m \in Nat /\ \A i \in 1 .. m : i \in 1 .. Len(infos)
  BY <1>1, NewsAssumption
<1>3. list = [i \in 1 .. m |-> at(i)]
  BY DEF Listed
<1>4. \A i \in 1 .. m : /\ at(i) \in R
                        /\ at(i).article = Read(infos[i].artPointer, junk)
                        /\ at(i).numOccurances = infos[i].numOccurances
  BY <1>1, <1>2, ReadFact DEF NewsInv
<1> HIDE DEF m, at, R
<1>5. list \in [1 .. m -> R]
  BY <1>3, <1>4
<1>6. /\ list \in Seq(R)
      /\ Len(list) = m /\ DOMAIN list = 1 .. m
  BY <1>2, <1>5
<1> QED BY <1>2, <1>3, <1>4, <1>6 DEF m, R

(***************************************************************************)
(* The kinds of answers to a query.                                        *)
(***************************************************************************)
Refused(w, kind) ==
  /\ kind \in {"notAllowed", "tooCommon"}
  /\ response' = Says(w, kind, << >>) /\ index' = index

NotFound(w) ==
  /\ Indexed(w) /\ index[w] = << >>
  /\ response' = Says(w, "none", << >>) /\ index' = index

Found(w, new, junk) ==
  /\ Indexed(w) /\ index[w] # << >> /\ junk \in Article
  /\ \E s \in Sorts(index[w]) : new = [i \in DOMAIN s |-> s[i][2]]
  /\ index' = [index EXCEPT ![w] = new]
  /\ response' = Says(w, "found", Listed(new, junk))

LEMMA ResponseFact ==
  ASSUME NewsInv, pc = "query", NEW w \in Word, ProcessResponse(w)
  PROVE  \/ \E kind : Refused(w, kind)
         \/ NotFound(w)
         \/ \E new, junk : Found(w, new, junk)
<1>1. stopWords = StopWord /\ index \in [Word -> Seq(ArticleInfo)]
  BY DEF NewsInv, PlaceInv, TypeOK
<1>2. CASE w \notin WellFormed
  BY <1>2 DEF ProcessResponse, Refused
<1>3. CASE w \in WellFormed \cap stopWords
  BY <1>3 DEF ProcessResponse, Refused
<1>4. CASE w \in WellFormed \ stopWords /\ index[w] = << >>
  BY <1>1, <1>4 DEF ProcessResponse, NotFound, Indexed
<1>5. CASE w \in WellFormed \ stopWords /\ index[w] # << >>
  <2>1. PICK s \in Sorts(index[w]), junk \in Article :
          /\ index' = [index EXCEPT ![w] = [i \in DOMAIN s |-> s[i][2]]]
          /\ response' = Says(w, "found", Listed(index'[w], junk))
    BY <1>5 DEF ProcessResponse
  <2>2. PICK new : new = [i \in DOMAIN s |-> s[i][2]]
    OBVIOUS
  <2>3. index' = [index EXCEPT ![w] = new] /\ index'[w] = new
    BY <1>1, <2>1, <2>2
  <2>4. Found(w, new, junk)
    BY <1>1, <1>5, <2>1, <2>2, <2>3 DEF Found, Indexed
  <2> QED BY <2>4
<1> QED BY <1>2, <1>3, <1>4, <1>5

Asks == (\E w \in Word : Query(w)) \/ QueryAtEnd

LEMMA AsksFact ==
  ASSUME NewsInv, Asks
  PROVE  /\ pc = "query" /\ pc' \in {"query", "done"}
         /\ UNCHANGED <<stopWords, articles, feedsRead, feed, tags, target, title, words,
                        currentArticle, scans>>
         /\ queries' \in 0 .. MaxQueries
         /\ \/ UNCHANGED <<index, response>>
            \/ \E w \in Word : ProcessResponse(w)
<1>1. queries \in 0 .. MaxQueries /\ MaxQueries \in Nat /\ response.word \in Word \cup {Empty}
  BY NewsAssumption DEF NewsInv, TypeOK
<1>2. ASSUME NEW w \in Word, Query(w) PROVE queries' \in 0 .. MaxQueries
  BY <1>1, <1>2 DEF Query
<1>3. CASE \E w \in Word : Query(w)
  BY <1>2, <1>3 DEF Query, feedVars, articleVars
<1>4. CASE QueryAtEnd
  <2>1. PICK w \in ResponseAtEnd :
          IF w = Empty THEN pc' = "done" /\ UNCHANGED <<index, response>>
                       ELSE ProcessResponse(w) /\ UNCHANGED pc
    BY <1>4 DEF QueryAtEnd
  <2>2. w = Empty \/ w \in Word
    BY <1>1, NewsAssumption DEF ResponseAtEnd
  <2> QED BY <1>1, <1>4, <2>1, <2>2 DEF QueryAtEnd, feedVars, articleVars
<1> QED BY <1>3, <1>4 DEF Asks

LEMMA SaysFact ==
  ASSUME NEW w \in Word, NEW kind, NEW list, NEW r, r = Says(w, kind, list)
  PROVE  r.word = w /\ r.kind = kind /\ r.list = list
BY DEF Says

(***************************************************************************)
(* The articleInfos of a word before and after a query.                    *)
(***************************************************************************)
LEMMA NewInfosFact ==
  ASSUME NewsInv, NEW w \in Word, NEW new, NEW junk, Found(w, new, junk)
  PROVE  /\ new \in Seq(ArticleInfo) /\ Len(new) = Len(index[w])
         /\ DOMAIN new = 1 .. Len(new) /\ DOMAIN index[w] = 1 .. Len(new)
         /\ Len(new) \in Nat \ {0}
         /\ Permuted(new, index[w], Len(new)) /\ Descending(new, Len(new))
         /\ index' \in [Word -> Seq(ArticleInfo)] /\ index'[w] = new
         /\ \A v \in Word : v # w => index'[v] = index[v]
         /\ \A i \in 1 .. Len(new) : Placed(new[i].artPointer)
<1> DEFINE infos == index[w]
           n == Len(infos)
<1>1. index \in [Word -> Seq(ArticleInfo)] /\ \A i \in DOMAIN infos : Placed(infos[i].artPointer)
  BY DEF NewsInv, TypeOK, PlaceInv
<1>2. infos \in Seq(ArticleInfo) /\ infos # << >> /\ index' = [index EXCEPT ![w] = new]
  BY <1>1 DEF Found
<1>3. n \in Nat /\ DOMAIN infos = 1 .. n /\ n # 0
  <2> HIDE DEF infos
  <2> QED BY <1>2, SeqFact
<1>4. PICK s \in Sorts(infos) : new = [i \in DOMAIN s |-> s[i][2]]
  BY DEF Found
<1>5. /\ new \in Seq(ArticleInfo) /\ Len(new) = n
      /\ Permuted(new, infos, n) /\ Descending(new, n)
  <2> HIDE DEF infos
  <2> QED BY <1>2, <1>4, SortsFact
<1>6. DOMAIN new = 1 .. n
  BY <1>5, InfoFact
<1>7. \A i \in 1 .. n : Placed(new[i].artPointer)
  BY <1>1, <1>3, <1>5 DEF Permuted
<1>8. /\ index' \in [Word -> Seq(ArticleInfo)] /\ index'[w] = new
      /\ \A v \in Word : v # w => index'[v] = index[v]
  BY <1>1, <1>2, <1>5
<1> QED BY <1>3, <1>5, <1>6, <1>7, <1>8

LEMMA AsksKeeps ==
  ASSUME NewsInv, Asks
  PROVE  NewsInv'
<1>1. /\ pc = "query" /\ pc' \in {"query", "done"}
      /\ UNCHANGED <<stopWords, articles, feedsRead, feed, tags, target, title, words,
                     currentArticle, scans>>
      /\ queries' \in 0 .. MaxQueries
      /\ \/ UNCHANGED <<index, response>>
         \/ \E w \in Word : ProcessResponse(w)
  BY AsksFact
<1>2. TypeOK /\ PlaceInv
  BY DEF NewsInv
<1> DEFINE RespOK(r) ==
             /\ r.word \in Word \cup {Empty}
             /\ r.list \in Seq([article : Article, numOccurances : Nat])
             /\ Len(r.list) <= MaxResponses
           IndexOK(ix) ==
             /\ ix \in [Word -> Seq(ArticleInfo)]
             /\ \A v \in Word : \A i \in DOMAIN ix[v] : Placed(ix[v][i].artPointer)
<1>3. RespOK(response) /\ IndexOK(index)
  BY <1>2 DEF TypeOK, PlaceInv
<1>4. RespOK(response') /\ IndexOK(index')
  <2>1. CASE UNCHANGED <<index, response>>
    BY <1>3, <2>1
  <2>2. ASSUME NEW w \in Word, ProcessResponse(w) PROVE RespOK(response') /\ IndexOK(index')
    <3>1. ASSUME NEW kind, response' = Says(w, kind, << >>) PROVE RespOK(response')
      <4>1. response'.word = w /\ response'.list = << >>
        BY <3>1, SaysFact
      <4>2. Len(response'.list) <= MaxResponses
        BY <4>1, NewsAssumption
      <4>3. response'.list \in Seq([article : Article, numOccurances : Nat])
        BY <4>1
      <4> QED BY <4>1, <4>2, <4>3
    <3>2. CASE (\E kind : Refused(w, kind)) \/ NotFound(w)
      <4>1. index' = index /\ \E kind : response' = Says(w, kind, << >>)
        BY <3>2 DEF Refused, NotFound
      <4> QED BY <1>3, <3>1, <4>1
    <3>3. ASSUME NEW new, NEW junk, Found(w, new, junk)
          PROVE  RespOK(response') /\ IndexOK(index')
      <4>1. /\ new \in Seq(ArticleInfo) /\ DOMAIN new = 1 .. Len(new) /\ Len(new) \in Nat
            /\ index' \in [Word -> Seq(ArticleInfo)] /\ index'[w] = new
            /\ \A v \in Word : v # w => index'[v] = index[v]
            /\ \A i \in 1 .. Len(new) : Placed(new[i].artPointer)
        BY <3>3, NewInfosFact
      <4>2. IndexOK(index')
        BY <1>3, <4>1
      <4>3. PICK list : list = Listed(new, junk)
        OBVIOUS
      <4>4. junk \in Article /\ response' = Says(w, "found", list)
        BY <3>3, <4>3 DEF Found
      <4>5. /\ list \in Seq([article : Article, numOccurances : Nat])
            /\ Len(list) = (IF Len(new) <= MaxResponses THEN Len(new) ELSE MaxResponses)
        BY <4>1, <4>3, <4>4, ListedFact
      <4>6. response'.word = w /\ response'.list = list
        BY <4>4, SaysFact
      <4>7. Len(list) <= MaxResponses
        BY <4>1, <4>5, NewsAssumption
      <4> QED BY <4>2, <4>5, <4>6, <4>7
    <3> QED BY <1>1, <2>2, <3>2, <3>3, ResponseFact
  <2> QED BY <1>1, <2>1, <2>2
<1>5. TypeOK'
  BY <1>1, <1>2, <1>4 DEF TypeOK, PC
<1>6. \A p : Placed(p)' <=> Placed(p)
  BY <1>1 DEF Placed
<1>7. \A v \in Word : \A i \in DOMAIN index'[v] : Placed(index[v][i].artPointer)'
  BY <1>1, <1>4 DEF Placed
<1>8. PlaceInv'
  BY <1>1, <1>2, <1>7 DEF PlaceInv
<1> QED BY <1>5, <1>8 DEF NewsInv

LEMMA NextCases ==
  ASSUME Next
  PROVE  Moves \/ Starts \/ ScanWord \/ EndOfArticle \/ Asks
BY DEF Next, Moves, Starts, Asks

LEMMA NewsStep == NewsInv /\ [Next]_vars => NewsInv'
<1> SUFFICES ASSUME NewsInv, [Next]_vars PROVE NewsInv'
  OBVIOUS
<1>1. CASE Moves
  BY <1>1, MovesFact, MoveKeeps
<1>2. CASE Starts
  BY <1>2, StartKeeps
<1>3. CASE ScanWord
  BY <1>3, ScanWordKeeps
<1>4. CASE EndOfArticle
  BY <1>4, EndOfArticleKeeps
<1>5. CASE Asks
  BY <1>5, AsksKeeps
<1>6. CASE UNCHANGED vars
  <2>1. TypeOK' /\ \A p : Placed(p)' <=> Placed(p)
    BY <1>6 DEF vars, NewsInv, TypeOK, Placed
  <2> QED BY <1>6, <2>1 DEF vars, NewsInv, PlaceInv
<1> QED BY <1>1, <1>2, <1>3, <1>4, <1>5, <1>6, NextCases

(***************************************************************************)
(* Whatever the hash function: every pointer of the index lies in the      *)
(* bucket it was taken from.                                               *)
(***************************************************************************)
THEOREM NewsInvariance == Spec => []NewsInv
BY NewsInit, NewsStep, PTL DEF Spec

(***************************************************************************)
(* Types, and an answer lists at most MaxResponses articles.               *)
(***************************************************************************)
THEOREM NewsTypeCorrect == Spec => []TypeOK
<1>1. NewsInv => TypeOK
  BY DEF NewsInv
<1> QED BY <1>1, NewsInvariance, PTL
-----------------------------------------------------------------------------
(***************************************************************************)
(* How far HashSetLookup's pointer (rss-news-search.c:604) may be trusted, *)
(* whatever URLs share a bucket: it leads to a place its bucket still has, *)
(* it dangles only once another article was entered behind its own, never  *)
(* because its own was entered again or rescanned, and the one a scan puts *)
(* into the index is valid until the scan ends.                            *)
(***************************************************************************)
LastArticleValid ==
  /\ \A w \in Word : \A i \in DOMAIN index[w] :
       LET p == index[w][i].artPointer
           n == Len(articles[p.bucket].elems)
       IN  p.pos \in 1 .. n /\ (IsValid(p) \/ p.pos < n)
  /\ pc = "scan" => IsValid(currentArticle)

(***************************************************************************)
(* How far a pointer may be trusted.  A bucket moves only when an article  *)
(* is appended to it, which comes to stand behind every pointer taken      *)
(* before.                                                                 *)
(***************************************************************************)
Trusted(p) ==
  /\ p.pos \in 1 .. Len(articles[p.bucket].elems)
  /\ IsValid(p) \/ p.pos < Len(articles[p.bucket].elems)

LEMMA TrustDef ==
  LastArticleValid <=>
    /\ \A w \in Word : \A i \in DOMAIN index[w] : Trusted(index[w][i].artPointer)
    /\ pc = "scan" => IsValid(currentArticle)
BY DEF LastArticleValid, Trusted

LEMMA StartTrusts ==
  ASSUME NewsInv, Starts, NEW p, Placed(p), Trusted(p)
  PROVE  Trusted(p)'
<1> DEFINE h == Hash[target]
           b == p.bucket
<1>1. /\ \A c \in Bucket : c # h => articles'[c] = articles[c]
      /\ Len(articles'[h].elems) \in Nat
      /\ Len(articles[h].elems) <= Len(articles'[h].elems)
      /\ \/ articles'[h].block = articles[h].block
         \/ Len(articles[h].elems) < Len(articles'[h].elems)
  BY StartsFact, ScanArticleFact DEF NewsInv
<1> HIDE DEF h
<1>2. b \in Bucket /\ p.pos \in 1 .. Len(articles[b].elems)
  BY DEF Placed
<1>3. Len(articles[b].elems) \in Nat
  BY <1>2, BucketFact DEF NewsInv
<1>4. articles[b].block = p.block \/ p.pos < Len(articles[b].elems)
  BY DEF Trusted, IsValid
<1> HIDE DEF b
<1>5. /\ p.pos \in 1 .. Len(articles'[b].elems)
      /\ articles'[b].block = p.block \/ p.pos < Len(articles'[b].elems)
  <2>1. CASE b = h
    BY <1>1, <1>2, <1>3, <1>4, <2>1
  <2>2. CASE b # h
    BY <1>1, <1>2, <1>4, <2>2
  <2> QED BY <2>1, <2>2
<1> QED BY <1>1, <1>5 DEF Trusted, IsValid, b

(***************************************************************************)
(* No other step moves an article: there the index gets no pointer but the *)
(* running scan's.                                                         *)
(***************************************************************************)
OldPointers ==
  \A w \in Word : \A i \in DOMAIN index'[w] :
    \/ pc = "scan" /\ index'[w][i].artPointer = currentArticle
    \/ \E j \in DOMAIN index[w] : index'[w][i].artPointer = index[w][j].artPointer

LEMMA OldTrusted ==
  ASSUME NewsInv, LastArticleValid, articles' = articles, OldPointers,
         pc' = "scan" => pc = "scan" /\ currentArticle' = currentArticle
  PROVE  LastArticleValid'
<1>1. \A p : Trusted(p)' <=> Trusted(p)
  BY DEF Trusted, IsValid
<1>2. pc = "scan" => Trusted(currentArticle)
  BY DEF Trusted, NewsInv, PlaceInv, Placed, LastArticleValid
<1>3. \A w \in Word : \A i \in DOMAIN index[w] : Trusted(index[w][i].artPointer)
  BY TrustDef
<1>4. \A w \in Word : \A i \in DOMAIN index'[w] : Trusted(index'[w][i].artPointer)
  BY <1>2, <1>3 DEF OldPointers
<1> QED BY <1>1, <1>4 DEF LastArticleValid, Trusted, IsValid

LEMMA ScanWordPointers ==
  ASSUME NewsInv, ScanWord
  PROVE  OldPointers
<1> DEFINE w == Head(words)
           infos == index[w]
<1>1. /\ pc = "scan" /\ w \in Word
      /\ index \in [Word -> Seq(ArticleInfo)] /\ currentArticle \in Pointer
      /\ \/ index' = index
         \/ \E junk : index' = [index EXCEPT ![w] =
                                   Counted(infos, FoundArticle(infos, target, junk))]
  BY ScanWordFact DEF NewsInv, TypeOK
<1>2. infos \in Seq(ArticleInfo)
  BY <1>1
<1> HIDE DEF infos, w
<1>3. CASE index' = index
  BY <1>3 DEF OldPointers
<1>4. CASE \E junk : index' = [index EXCEPT ![w] =
                                 Counted(infos, FoundArticle(infos, target, junk))]
  <2>1. PICK junk, p, new :
          /\ p = FoundArticle(infos, target, junk) /\ new = Counted(infos, p)
          /\ index' = [index EXCEPT ![w] = new]
    BY <1>4
  <2>2. Len(infos) \in Nat /\ DOMAIN infos = 1 .. Len(infos)
    BY <1>2, InfoFact
  <2>3. p = 0 \/ p \in 1 .. Len(infos)
    BY <2>1, <2>2, FoundFact
  <2>4. /\ new \in Seq(ArticleInfo)
        /\ p = 0 => /\ Len(new) = Len(infos) + 1
                    /\ \A i \in 1 .. Len(infos) : new[i] = infos[i]
                    /\ new[Len(infos) + 1].artPointer = currentArticle
        /\ p # 0 => /\ Len(new) = Len(infos)
                    /\ \A i \in 1 .. Len(infos) : new[i].artPointer = infos[i].artPointer
    BY <1>1, <1>2, <2>1, <2>3, CountedFact
  <2>5. DOMAIN new = 1 .. Len(new)
    BY <2>4, InfoFact
  <2>6. ASSUME NEW i \in DOMAIN new
        PROVE  \/ new[i].artPointer = currentArticle
               \/ \E j \in DOMAIN infos : new[i].artPointer = infos[j].artPointer
    <3>1. i \in 1 .. Len(new)
      BY <2>5, <2>6
    <3>2. CASE p = 0
      <4>1. i \in 1 .. Len(infos) \/ i = Len(infos) + 1
        BY <2>2, <2>4, <3>1, <3>2
      <4> QED BY <2>2, <2>4, <3>2, <4>1
    <3>3. CASE p # 0
      <4>1. i \in 1 .. Len(infos)
        BY <2>4, <3>1, <3>3
      <4> QED BY <2>2, <2>4, <3>3, <4>1
    <3> QED BY <3>2, <3>3
  <2>7. index'[w] = new /\ \A v \in Word : v # w => index'[v] = index[v]
    BY <1>1, <2>1
  <2> QED BY <1>1, <2>6, <2>7 DEF OldPointers, infos
<1> QED BY <1>1, <1>3, <1>4

LEMMA AsksPointers ==
  ASSUME NewsInv, Asks
  PROVE  OldPointers
<1>1. CASE index' = index
  BY <1>1 DEF OldPointers
<1>2. ASSUME NEW w \in Word, NEW new, NEW junk, Found(w, new, junk)
      PROVE  OldPointers
  <2> DEFINE n == Len(new)
             infos == index[w]
  <2>1. /\ DOMAIN new = 1 .. n /\ DOMAIN infos = 1 .. n /\ Permuted(new, infos, n)
        /\ index'[w] = new /\ \A v \in Word : v # w => index'[v] = index[v]
    BY <1>2, NewInfosFact
  <2> HIDE DEF n, infos
  <2>2. PICK f \in [1 .. n -> 1 .. n] : \A i \in 1 .. n : new[i] = infos[f[i]]
    BY <2>1 DEF Permuted
  <2>3. \A i \in DOMAIN new : f[i] \in DOMAIN infos /\ new[i] = infos[f[i]]
    BY <2>1, <2>2
  <2>4. \A i \in DOMAIN index'[w] : \E j \in DOMAIN index[w] :
          index'[w][i].artPointer = index[w][j].artPointer
    BY <2>1, <2>3 DEF infos
  <2>5. ASSUME NEW v \in Word, v # w
        PROVE  \A i \in DOMAIN index'[v] : \E j \in DOMAIN index[v] :
                 index'[v][i].artPointer = index[v][j].artPointer
    BY <2>1, <2>5
  <2> QED BY <2>4, <2>5 DEF OldPointers
<1>3. ASSUME NEW w \in Word, ProcessResponse(w) PROVE OldPointers
  <2>1. CASE (\E kind : Refused(w, kind)) \/ NotFound(w)
    BY <1>1, <2>1 DEF Refused, NotFound
  <2> QED BY <1>2, <1>3, <2>1, AsksFact, ResponseFact
<1> QED BY <1>1, <1>3, AsksFact

LEMMA TrustStep == NewsInv /\ LastArticleValid /\ [Next]_vars => LastArticleValid'
<1> SUFFICES ASSUME NewsInv, LastArticleValid, [Next]_vars PROVE LastArticleValid'
  OBVIOUS
<1>1. index' = index => OldPointers
  BY DEF OldPointers
<1>2. CASE Moves
  BY <1>1, <1>2, MovesFact, OldTrusted
<1>3. CASE Starts
  <2>1. index' = index
    BY <1>3, StartsFact DEF ScanArticle
  <2>2. \A w \in Word : \A i \in DOMAIN index[w] :
          Placed(index[w][i].artPointer) /\ Trusted(index[w][i].artPointer)
    BY TrustDef DEF NewsInv, PlaceInv
  <2>3. \A p : Placed(p) /\ Trusted(p) => Trusted(p)'
    BY <1>3, StartTrusts
  <2>4. IsValid(currentArticle)'
    BY <1>3, StartsFact, ScanArticleFact DEF NewsInv, IsValid
  <2> QED BY <2>1, <2>2, <2>3, <2>4 DEF LastArticleValid, Trusted, IsValid
<1>4. CASE ScanWord
  BY <1>4, ScanWordFact, ScanWordPointers, OldTrusted
<1>5. CASE EndOfArticle
  BY <1>1, <1>5, OldTrusted DEF EndOfArticle, indexVars
<1>6. CASE Asks
  BY <1>6, AsksFact, AsksPointers, OldTrusted
<1>7. CASE UNCHANGED vars
  BY <1>1, <1>7, OldTrusted DEF vars
<1> QED BY <1>2, <1>3, <1>4, <1>5, <1>6, <1>7, NextCases

(***************************************************************************)
(* Whatever the hash function: a pointer of the index leads to a place its *)
(* bucket has, and dangles only once an article was entered behind its     *)
(* own; the running scan's pointer is valid.                               *)
(***************************************************************************)
THEOREM LastArticlesValid == Spec => []LastArticleValid
<1>1. Init => LastArticleValid
  <2> SUFFICES ASSUME Init PROVE LastArticleValid
    OBVIOUS
  <2>1. pc = "start" /\ index = [w \in Word |-> << >>]
    BY DEF Init
  <2>2. \A w \in Word : DOMAIN index[w] = {}
    <3>1. \A w \in Word : index[w] \in Seq(ArticleInfo) /\ Len(index[w]) = 0
      BY <2>1
    <3>2. \A s \in Seq(ArticleInfo) : Len(s) = 0 => DOMAIN s = {}
      OBVIOUS
    <3> QED BY <3>1, <3>2
  <2> QED BY <2>1, <2>2 DEF LastArticleValid
<1> QED BY <1>1, TrustStep, NewsInvariance, PTL DEF Spec
-----------------------------------------------------------------------------
(***************************************************************************)
(* With a hash function that separates the URLs, a pointer's bucket tells  *)
(* the URL of the article it points to.                                    *)
(***************************************************************************)
LEMMA PointerUrl ==
  ASSUME NewsInv, OneEach, Separates, NEW p, Placed(p), p.block = 0
  PROVE  /\ IsValid(p)
         /\ \E u \in Url : p.bucket = Hash[u]
         /\ \A u \in Url :
              articles[p.bucket].elems[p.pos].url = u <=> p.bucket = Hash[u]
         /\ \A junk : Read(p, junk) = articles[p.bucket].elems[p.pos]
<1> DEFINE a == articles[p.bucket].elems[p.pos]
<1>1. p.bucket \in Bucket /\ p.pos \in 1 .. Len(articles[p.bucket].elems)
  BY DEF Placed
<1>2. a \in Article /\ articles[p.bucket].block = 0 /\ Hash[a.url] = p.bucket
  BY <1>1, BucketFact DEF OneEach, NewsInv
<1>3. a.url \in Url
  BY <1>2 DEF Article
<1> HIDE DEF a
<1>4. \A u \in Url : a.url = u <=> p.bucket = Hash[u]
  BY <1>2, <1>3 DEF Separates
<1>5. IsValid(p)
  BY <1>2 DEF IsValid
<1>6. \A junk : Read(p, junk) = a
  BY <1>5 DEF Read, a
<1> QED BY <1>2, <1>3, <1>4, <1>5, <1>6 DEF a

LEMMA IndexFact ==
  ASSUME NewsInv, NEW w \in Word
  PROVE  /\ index[w] \in Seq(ArticleInfo) /\ Len(index[w]) \in Nat
         /\ DOMAIN index[w] = 1 .. Len(index[w])
         /\ \A i \in 1 .. Len(index[w]) :
              /\ index[w][i].numOccurances \in Nat
              /\ index[w][i].artPointer.bucket \in Bucket
              /\ Placed(index[w][i].artPointer)
<1>1. index[w] \in Seq(ArticleInfo) /\ \A i \in DOMAIN index[w] : Placed(index[w][i].artPointer)
  BY DEF NewsInv, TypeOK, PlaceInv
<1> DEFINE infos == index[w]
<1>2. infos \in Seq(ArticleInfo)
  BY <1>1
<1> HIDE DEF infos
<1>3. /\ Len(infos) \in Nat /\ DOMAIN infos = 1 .. Len(infos)
      /\ \A i \in 1 .. Len(infos) :
           infos[i].numOccurances \in Nat /\ infos[i].artPointer.bucket \in Bucket
  BY <1>2, InfoFact
<1> QED BY <1>1, <1>3 DEF infos

(***************************************************************************)
(* Counting the occurrences of a word in the beginning of a document.      *)
(***************************************************************************)
LEMMA CountFact ==
  ASSUME NEW w, NEW doc, NEW n \in Nat
  PROVE  /\ Count(w, doc, 0) = 0 /\ Count(w, doc, n) \in Nat
         /\ Count(w, doc, n + 1) = Count(w, doc, n) + (IF doc[n + 1] = w THEN 1 ELSE 0)
<1> DEFINE S == {i \in 1 .. n : doc[i] = w}
           T == {i \in 1 .. n + 1 : doc[i] = w}
<1>1. Count(w, doc, 0) = 0
  <2>1. {i \in 1 .. 0 : doc[i] = w} = {}
    OBVIOUS
  <2> QED BY <2>1, FS_EmptySet DEF Count
<1>2. IsFiniteSet(S)
  <2> DEFINE D == 1 .. n
  <2> HIDE DEF D
  <2>1. IsFiniteSet(D)
    BY PairsFact DEF D
  <2>2. S \in SUBSET D
    BY DEF D
  <2> HIDE DEF S
  <2> QED BY <2>1, <2>2, FS_Subset
<1>3. T = IF doc[n + 1] = w THEN S \cup {n + 1} ELSE S
  <2>1. \A i \in 1 .. n + 1 : i \in 1 .. n \/ i = n + 1
    OBVIOUS
  <2>2. \A i \in 1 .. n : i \in 1 .. n + 1
    OBVIOUS
  <2>3. n + 1 \in 1 .. n + 1
    OBVIOUS
  <2> QED BY <2>1, <2>2, <2>3
<1>4. n + 1 \notin S
  OBVIOUS
<1>5. Count(w, doc, n) = Cardinality(S) /\ Count(w, doc, n + 1) = Cardinality(T)
  BY DEF Count
<1> DEFINE m == n + 1
<1> HIDE DEF S, T, m
<1>6. Cardinality(S) \in Nat
  BY <1>2, FS_CardinalityType
<1>7. Cardinality(S \cup {m}) = Cardinality(S) + 1
  BY <1>2, <1>4, FS_AddElement DEF m
<1> QED BY <1>1, <1>3, <1>5, <1>6, <1>7 DEF m

LEMMA OccurrencesFact ==
  ASSUME NEW w \in Word, NEW u \in Url
  PROVE  /\ Occurrences(w, u) \in Nat
         /\ Answer[u].code = "ok" /\ Indexed(w) =>
              Occurrences(w, u) = Count(w, Answer[u].words, Len(Answer[u].words))
         /\ ~Indexed(w) => Occurrences(w, u) = 0
<1>1. CASE Answer[u].code = "ok" /\ Indexed(w)
  <2> DEFINE doc == Answer[u].words
  <2>1. doc \in Seq(Word)
    BY <1>1, AnswerFact
  <2>2. DOMAIN doc = 1 .. Len(doc) /\ Len(doc) \in Nat
    <3> HIDE DEF doc
    <3> QED BY <2>1, SeqFact
  <2>3. Occurrences(w, u) = Count(w, doc, Len(doc))
    BY <1>1, <2>2 DEF Occurrences, Count, Indexed
  <2> HIDE DEF doc
  <2>4. Count(w, doc, Len(doc)) \in Nat
    BY <2>2, CountFact
  <2> QED BY <1>1, <2>3, <2>4 DEF doc
<1>2. CASE ~(Answer[u].code = "ok" /\ Indexed(w))
  BY <1>2 DEF Occurrences, Indexed
<1> QED BY <1>1, <1>2

LEMMA DueFact ==
  ASSUME NewsInv, NEW w \in Word, NEW u \in Url
  PROVE  pc # "scan" => Due(w, u) = scans[u] * Occurrences(w, u) /\ Due(w, u) \in Nat
<1>1. scans[u] \in Nat /\ Occurrences(w, u) \in Nat
  BY OccurrencesFact DEF NewsInv, TypeOK
<1>2. scans[u] * Occurrences(w, u) \in Nat
  BY <1>1
<1> QED BY <1>2 DEF Due, ReadSoFar
-----------------------------------------------------------------------------
(***************************************************************************)
(* Steps that leave the index and the last answer alone.                   *)
(***************************************************************************)
LEMMA SameRank ==
  ASSUME UNCHANGED <<response, scans>>, AnswersRank
  PROVE  AnswersRank'
BY DEF AnswersRank

LEMMA SameCounts ==
  ASSUME CountInv, UNCHANGED index,
         \A w \in Word, u \in Url : Due(w, u)' = Due(w, u)
  PROVE  CountInv'
<1>1. \A w, i : BucketAt(w, i)' = BucketAt(w, i)
  BY DEF BucketAt
<1>2. ASSUME NEW w \in Word
      PROVE  /\ \A i, j \in DOMAIN index'[w] : BucketAt(w, i)' = BucketAt(w, j)' => i = j
             /\ \A i \in DOMAIN index'[w], u \in Url :
                  BucketAt(w, i)' = Hash[u] =>
                    Due(w, u)' # 0 /\ index'[w][i].numOccurances = Due(w, u)'
             /\ \A u \in Url :
                  Due(w, u)' # 0 => \E i \in DOMAIN index'[w] : BucketAt(w, i)' = Hash[u]
  BY <1>1 DEF CountInv
<1> QED BY <1>2 DEF CountInv

LEMMA MoveFaithful ==
  ASSUME FaithInv, Moves, NewsInv'
  PROVE  FaithInv'
<1>1. /\ UNCHANGED <<articles, index, words, currentArticle, scans, response>>
      /\ pc # "scan" /\ pc' # "scan"
      /\ pc \in {"query", "done"} => pc' \in {"query", "done"}
  BY MovesFact DEF FaithInv, articleVars, queryVars
<1>2. OneEach'
  BY <1>1 DEF FaithInv, OneEach
<1>3. \A w \in Word, u \in Url : Due(w, u)' = Due(w, u)
  BY <1>1 DEF Due, ReadSoFar
<1>4. CountInv'
  BY <1>1, <1>3, SameCounts DEF FaithInv
<1>5. ScanInv' /\ AnswerInv'
  BY <1>1, SameRank DEF FaithInv, ScanInv, AnswerInv
<1> QED BY <1>2, <1>4, <1>5 DEF FaithInv

(***************************************************************************)
(* The document at target starts to be scanned: nothing of it was read.    *)
(***************************************************************************)
LEMMA StartFaithful ==
  ASSUME FaithInv, Separates, Starts, NewsInv'
  PROVE  FaithInv'
<1> DEFINE h == Hash[target]
           doc == Answer[target].words
<1>1. PICK t \in Title \cup {Empty} : ScanArticle(target, t)
  BY StartsFact DEF FaithInv
<1>2. /\ pc \in {"feed", "article"} /\ target \in Url /\ Answer[target].code = "ok"
      /\ target' = target
  BY StartsFact DEF FaithInv
<1>3. words' = doc /\ pc' = "scan" /\ UNCHANGED <<index, scans, response>>
  BY <1>1 DEF ScanArticle, queryVars
<1>4. doc \in Seq(Word) /\ Len(doc) \in Nat
  <2>1. doc \in Seq(Word)
    BY <1>2, AnswerFact
  <2> HIDE DEF doc
  <2> QED BY <2>1, SeqFact
<1>5. /\ h \in Bucket
      /\ \A b \in Bucket : b # h => articles'[b] = articles[b]
      /\ \/ Len(articles[h].elems) = 0
         \/ Len(articles[h].elems) = 1 /\ articles[h].elems[1].url = target
         => /\ articles'[h].block = articles[h].block
            /\ Len(articles'[h].elems) = 1 /\ articles'[h].elems[1].url = target
      /\ currentArticle'.bucket = h /\ currentArticle'.block = articles'[h].block
  BY <1>1, <1>2, ScanArticleFact DEF FaithInv, NewsInv
<1>6. \/ Len(articles[h].elems) = 0
      \/ Len(articles[h].elems) = 1 /\ articles[h].elems[1].url = target
  <2> DEFINE s == articles[h].elems
  <2>1. Len(s) \in Nat /\ \A i \in 1 .. Len(s) : i = 1 /\ s[i] \in Article /\ Hash[s[i].url] = h
    BY <1>5, BucketFact DEF FaithInv, NewsInv, OneEach
  <2>2. CASE Len(s) = 0
    BY <2>2
  <2>3. CASE Len(s) # 0
    <3> HIDE DEF s
    <3>1. Len(s) \in 1 .. Len(s) /\ 1 \in 1 .. Len(s)
      BY <2>1, <2>3
    <3>2. Len(s) = 1 /\ s[1] \in Article /\ Hash[s[1].url] = h
      BY <2>1, <3>1
    <3>3. s[1].url \in Url
      BY <3>2 DEF Article
    <3> QED BY <1>2, <3>2, <3>3 DEF Separates, s
  <2> QED BY <2>2, <2>3
<1>7. OneEach'
  <2>1. ASSUME NEW b \in Bucket
        PROVE  /\ articles'[b].block = 0
               /\ \A i \in 1 .. Len(articles'[b].elems) :
                    i = 1 /\ Hash[articles'[b].elems[i].url] = b
    <3>1. CASE b = h
      <4>1. articles'[b].block = 0 /\ Len(articles'[b].elems) = 1
        BY <1>5, <1>6, <3>1 DEF FaithInv, OneEach
      <4>2. Hash[articles'[b].elems[1].url] = b
        BY <1>5, <1>6, <3>1
      <4>3. \A i \in 1 .. Len(articles'[b].elems) : i = 1
        BY <4>1
      <4> QED BY <4>1, <4>2, <4>3
    <3>2. CASE b # h
      BY <1>5, <3>2 DEF FaithInv, OneEach
    <3> QED BY <3>1, <3>2
  <2>2. currentArticle'.block = 0 /\ currentArticle'.bucket = Hash[target']
    BY <1>2, <1>5, <2>1
  <2> QED BY <1>3, <2>1, <2>2 DEF FaithInv, OneEach
<1> HIDE DEF h, doc
<1>8. ASSUME NEW w \in Word, NEW u \in Url PROVE Due(w, u)' = Due(w, u)
  <2>1. ReadSoFar(w, u) = 0
    BY <1>2 DEF ReadSoFar
  <2>2. ReadSoFar(w, u)' = 0
    <3>1. Len(doc) - Len(words') = 0 /\ Count(w, doc, 0) = 0
      BY <1>3, <1>4, CountFact
    <3> QED BY <1>2, <3>1 DEF ReadSoFar, doc
  <2> QED BY <1>3, <2>1, <2>2 DEF Due
<1>9. CountInv'
  BY <1>3, <1>8, SameCounts DEF FaithInv
<1>10. ScanInv'
  <2>1. \A i \in 1 .. Len(doc) : Len(doc) - Len(doc) + i = i
    BY <1>4
  <2> QED BY <1>2, <1>3, <1>4, <2>1 DEF ScanInv, doc
<1>11. AnswerInv'
  BY <1>2, <1>3, SameRank DEF FaithInv, AnswerInv
<1> QED BY <1>7, <1>9, <1>10, <1>11 DEF FaithInv

(***************************************************************************)
(* The document has been read to its end, which makes one scan more.       *)
(***************************************************************************)
LEMMA EndFaithful ==
  ASSUME FaithInv, EndOfArticle, NewsInv'
  PROVE  FaithInv'
<1>1. /\ pc = "scan" /\ words = << >> /\ scans' = [scans EXCEPT ![target] = @ + 1]
      /\ pc' = "items"
      /\ UNCHANGED <<articles, index, target, words, response>>
  BY DEF EndOfArticle, indexVars, queryVars
<1>2. /\ target \in Url /\ Answer[target].code = "ok" /\ scans \in [Url -> Nat]
      /\ response.kind = "notAsked"
  BY <1>1 DEF FaithInv, NewsInv, PlaceInv, TypeOK, AnswerInv
<1>3. OneEach'
  BY <1>1 DEF FaithInv, OneEach
<1>4. ASSUME NEW w \in Word, NEW u \in Url PROVE Due(w, u)' = Due(w, u)
  <2>1. ReadSoFar(w, u)' = 0
    BY <1>1 DEF ReadSoFar
  <2>2. scans[u] \in Nat /\ scans'[u] = scans[u] + (IF u = target THEN 1 ELSE 0)
    BY <1>1, <1>2
  <2>3. Occurrences(w, u) \in Nat
    BY OccurrencesFact
  <2>4. ReadSoFar(w, u) = IF u = target THEN Occurrences(w, u) ELSE 0
    <3>1. CASE u = target /\ Indexed(w)
      <4> DEFINE doc == Answer[u].words
      <4>1. Occurrences(w, u) = Count(w, doc, Len(doc))
        BY <1>2, <3>1, OccurrencesFact
      <4>2. Len(doc) \in Nat
        <5>1. doc \in Seq(Word)
          BY <1>2, <3>1, AnswerFact
        <5> HIDE DEF doc
        <5> QED BY <5>1, SeqFact
      <4>3. Len(doc) - Len(words) = Len(doc)
        <5> HIDE DEF doc
        <5>1. Len(words) = 0
          BY <1>1
        <5> QED BY <4>2, <5>1
      <4> QED BY <1>1, <3>1, <4>1, <4>3 DEF ReadSoFar
    <3>2. CASE ~(u = target /\ Indexed(w))
      BY <1>1, <3>2, OccurrencesFact DEF ReadSoFar
    <3> QED BY <3>1, <3>2
  <2> DEFINE o == Occurrences(w, u)
             k == scans[u]
  <2>5. k \in Nat /\ o \in Nat /\ scans'[u] = k + (IF u = target THEN 1 ELSE 0)
    BY <2>2, <2>3
  <2>6. Due(w, u) = k * o + (IF u = target THEN o ELSE 0)
    BY <2>4 DEF Due
  <2>7. Due(w, u)' = (k + (IF u = target THEN 1 ELSE 0)) * o + 0
    BY <2>1, <2>5 DEF Due
  <2> HIDE DEF o, k
  <2>8. (k + 1) * o = k * o + o
    BY <2>5
  <2> QED BY <2>5, <2>6, <2>7, <2>8
<1>5. CountInv'
  BY <1>1, <1>4, SameCounts DEF FaithInv
<1>6. ScanInv'
  BY <1>1 DEF ScanInv
<1>7. AnswerInv'
  BY <1>1, <1>2 DEF FaithInv, AnswerInv, AnswersRank
<1> QED BY <1>3, <1>5, <1>6, <1>7 DEF FaithInv
-----------------------------------------------------------------------------
(***************************************************************************)
(* A word is read: it is due once more in the entry of the document's URL. *)
(***************************************************************************)
LEMMA ScanDue ==
  ASSUME FaithInv, ScanWord, NEW w \in Word, NEW u \in Url
  PROVE  /\ Due(w, u) \in Nat
         /\ Due(w, u)' = IF u = target /\ Indexed(w) /\ w = Head(words)
                         THEN Due(w, u) + 1 ELSE Due(w, u)
<1> DEFINE doc == Answer[target].words
<1>1. /\ pc = "scan" /\ words # << >> /\ words' = Tail(words)
      /\ UNCHANGED <<pc, target, scans>>
  BY ScanWordFact DEF FaithInv
<1>2. /\ words \in Seq(Word) /\ target \in Url /\ Answer[target].code = "ok"
      /\ scans[u] \in Nat
  BY <1>1 DEF FaithInv, NewsInv, TypeOK, PlaceInv
<1>3. Len(words) > 0 /\ Len(Tail(words)) = Len(words) - 1 /\ Head(words) = words[1]
  BY <1>1, <1>2, TailFact
<1>4. Len(words) \in Nat
  BY <1>2
<1>5. doc \in Seq(Word)
  BY <1>2, AnswerFact
<1>6. /\ Len(words) <= Len(doc)
      /\ \A i \in 1 .. Len(words) : words[i] = doc[Len(doc) - Len(words) + i]
  BY <1>1 DEF FaithInv, ScanInv
<1> HIDE DEF doc
<1>7. Len(doc) \in Nat
  BY <1>5, SeqFact
<1> DEFINE n == Len(doc) - Len(words)
<1>8. n \in Nat /\ Len(doc) - Len(words') = n + 1 /\ doc[n + 1] = Head(words)
  BY <1>1, <1>3, <1>4, <1>6, <1>7
<1> HIDE DEF n
<1>9. /\ Count(w, doc, n) \in Nat
      /\ Count(w, doc, n + 1) = Count(w, doc, n) + (IF doc[n + 1] = w THEN 1 ELSE 0)
  <2>1. n \in Nat
    BY <1>8
  <2> QED BY <2>1, CountFact
<1>10. scans[u] * Occurrences(w, u) \in Nat
  BY <1>2, OccurrencesFact
<1> DEFINE k == scans[u] * Occurrences(w, u)
<1>11. ReadSoFar(w, u) = IF u = target /\ Indexed(w) THEN Count(w, doc, n) ELSE 0
  BY <1>1 DEF ReadSoFar, doc, n
<1>12. ReadSoFar(w, u)' = IF u = target /\ Indexed(w) THEN Count(w, doc, n + 1) ELSE 0
  BY <1>1, <1>8 DEF ReadSoFar, doc, Indexed
<1>13. Due(w, u) = k + ReadSoFar(w, u) /\ Due(w, u)' = k + ReadSoFar(w, u)'
  BY <1>1 DEF Due, Occurrences
<1> HIDE DEF k
<1>14. k \in Nat
  BY <1>10 DEF k
<1> QED BY <1>8, <1>9, <1>11, <1>12, <1>13, <1>14

LEMMA ScanLeft ==
  ASSUME FaithInv, ScanWord
  PROVE  ScanInv'
<1> DEFINE doc == Answer[target].words
<1>1. /\ pc = "scan" /\ words # << >> /\ words' = Tail(words)
      /\ UNCHANGED <<pc, target>>
  BY ScanWordFact DEF FaithInv
<1>2. words \in Seq(Word) /\ target \in Url /\ Answer[target].code = "ok"
  BY <1>1 DEF FaithInv, NewsInv, TypeOK, PlaceInv
<1>3. /\ Len(words) > 0 /\ Len(words') = Len(words) - 1
      /\ \A i \in 1 .. Len(words) - 1 : words'[i] = words[i + 1]
  BY <1>1, <1>2, TailFact
<1>4. Len(words) \in Nat
  BY <1>2
<1>5. doc \in Seq(Word)
  BY <1>2, AnswerFact
<1>6. /\ Len(words) <= Len(doc)
      /\ \A i \in 1 .. Len(words) : words[i] = doc[Len(doc) - Len(words) + i]
  BY <1>1 DEF FaithInv, ScanInv
<1> HIDE DEF doc
<1>7. Len(doc) \in Nat
  BY <1>5, SeqFact
<1>8. Len(words') <= Len(doc)
  BY <1>3, <1>4, <1>6, <1>7
<1>9. ASSUME NEW i \in 1 .. Len(words')
      PROVE  words'[i] = doc[Len(doc) - Len(words') + i]
  <2>1. i \in 1 .. Len(words) - 1 /\ i + 1 \in 1 .. Len(words)
    BY <1>3, <1>4
  <2>2. words'[i] = words[i + 1] /\ words[i + 1] = doc[Len(doc) - Len(words) + (i + 1)]
    BY <1>3, <1>6, <2>1
  <2>3. Len(doc) - Len(words') + i = Len(doc) - Len(words) + (i + 1)
    BY <1>3, <1>4, <1>7, <2>1
  <2> QED BY <2>2, <2>3
<1> QED BY <1>1, <1>8, <1>9 DEF ScanInv, doc

(***************************************************************************)
(* The entries of a word, and what one more occurrence makes of them.      *)
(***************************************************************************)
Entries(infos, due) ==
  /\ \A i, j \in DOMAIN infos :
       infos[i].artPointer.bucket = infos[j].artPointer.bucket => i = j
  /\ \A i \in DOMAIN infos, u \in Url :
       infos[i].artPointer.bucket = Hash[u] =>
         due[u] # 0 /\ infos[i].numOccurances = due[u]
  /\ \A u \in Url :
       due[u] # 0 => \E i \in DOMAIN infos : infos[i].artPointer.bucket = Hash[u]

LEMMA EntryCounted ==
  ASSUME Separates, NEW infos \in Seq(ArticleInfo), NEW due \in [Url -> Nat],
         Entries(infos, due), NEW t \in Url,
         currentArticle \in Pointer, currentArticle.bucket = Hash[t],
         NEW p,
         \/ p = 0 /\ \A i \in 1 .. Len(infos) : infos[i].artPointer.bucket # Hash[t]
         \/ p \in 1 .. Len(infos) /\ infos[p].artPointer.bucket = Hash[t],
         NEW new, new = Counted(infos, p)
  PROVE  Entries(new, [due EXCEPT ![t] = @ + 1])
<1> DEFINE n == Len(infos)
           after == [due EXCEPT ![t] = @ + 1]
<1>1. /\ n \in Nat /\ DOMAIN infos = 1 .. n
      /\ \A i \in 1 .. n : infos[i].numOccurances \in Nat
  BY InfoFact
<1>2. \A i, j \in 1 .. n :
        infos[i].artPointer.bucket = infos[j].artPointer.bucket => i = j
  BY <1>1 DEF Entries
<1>3. \A i \in 1 .. n, u \in Url :
        infos[i].artPointer.bucket = Hash[u] =>
          due[u] # 0 /\ infos[i].numOccurances = due[u]
  BY <1>1 DEF Entries
<1>4. \A u \in Url : due[u] # 0 => \E i \in 1 .. n : infos[i].artPointer.bucket = Hash[u]
  BY <1>1 DEF Entries
<1>5. /\ \A u \in Url : u # t => after[u] = due[u]
      /\ after[t] = due[t] + 1 /\ after[t] # 0 /\ due[t] \in Nat
  OBVIOUS
<1>6. \A u \in Url : Hash[u] = Hash[t] => u = t
  BY DEF Separates
<1>7. /\ new \in Seq(ArticleInfo)
      /\ p = 0 => /\ Len(new) = n + 1
                  /\ \A i \in 1 .. n : new[i] = infos[i]
                  /\ new[n + 1].artPointer = currentArticle
                  /\ new[n + 1].numOccurances = 1
      /\ p # 0 => /\ Len(new) = n
                  /\ \A i \in 1 .. n :
                       /\ new[i].artPointer = infos[i].artPointer
                       /\ i # p => new[i].numOccurances = infos[i].numOccurances
                  /\ new[p].numOccurances = infos[p].numOccurances + 1
  <2>1. p = 0 \/ p \in 1 .. Len(infos)
    OBVIOUS
  <2> QED BY <2>1, CountedFact, SMTT(30)
<1>8. DOMAIN new = 1 .. Len(new)
  BY <1>7, InfoFact
<1> HIDE DEF after, n
<1>9. CASE p = 0
  <2>1. /\ \A i \in 1 .. n : infos[i].artPointer.bucket # Hash[t]
        /\ Len(new) = n + 1 /\ DOMAIN new = 1 .. n + 1
        /\ \A i \in 1 .. n : new[i] = infos[i]
        /\ new[n + 1].artPointer.bucket = Hash[t] /\ new[n + 1].numOccurances = 1
    BY <1>1, <1>7, <1>8, <1>9 DEF n
  <2>2. \A i \in 1 .. n + 1 : i \in 1 .. n \/ i = n + 1
    BY <1>1
  <2>3. due[t] = 0
    BY <1>4, <2>1
  <2>4. \A i, j \in 1 .. n + 1 :
          new[i].artPointer.bucket = new[j].artPointer.bucket => i = j
    BY <1>2, <2>1, <2>2
  <2>5. ASSUME NEW i \in 1 .. n + 1, NEW u \in Url, new[i].artPointer.bucket = Hash[u]
        PROVE  after[u] # 0 /\ new[i].numOccurances = after[u]
    <3>1. CASE i \in 1 .. n
      <4>1. infos[i].artPointer.bucket = Hash[u] /\ u # t
        BY <2>1, <2>5, <3>1
      <4> QED BY <1>3, <1>5, <2>1, <3>1, <4>1
    <3>2. CASE i = n + 1
      <4>1. u = t
        BY <1>6, <2>1, <2>5, <3>2
      <4> QED BY <1>5, <2>1, <2>3, <3>2, <4>1
    <3> QED BY <2>2, <3>1, <3>2
  <2>6. ASSUME NEW u \in Url, after[u] # 0
        PROVE  \E i \in 1 .. n + 1 : new[i].artPointer.bucket = Hash[u]
    <3>1. n + 1 \in 1 .. n + 1 /\ \A i \in 1 .. n : i \in 1 .. n + 1
      BY <1>1
    <3>2. CASE u = t
      BY <2>1, <3>1, <3>2
    <3>3. CASE u # t
      <4>1. PICK i \in 1 .. n : infos[i].artPointer.bucket = Hash[u]
        BY <1>4, <1>5, <2>6, <3>3
      <4> QED BY <2>1, <3>1, <4>1
    <3> QED BY <3>2, <3>3
  <2> QED BY <2>1, <2>4, <2>5, <2>6 DEF Entries, after
<1>10. CASE p # 0
  <2>1. p \in 1 .. n /\ infos[p].artPointer.bucket = Hash[t]
    BY <1>10 DEF n
  <2>2. /\ DOMAIN new = 1 .. n
        /\ \A i \in 1 .. n :
             /\ new[i].artPointer = infos[i].artPointer
             /\ i # p => new[i].numOccurances = infos[i].numOccurances
        /\ new[p].numOccurances = infos[p].numOccurances + 1
    BY <1>7, <1>8, <1>10
  <2>3. \A i, j \in 1 .. n :
          new[i].artPointer.bucket = new[j].artPointer.bucket => i = j
    BY <1>2, <2>2
  <2>4. ASSUME NEW i \in 1 .. n, NEW u \in Url, new[i].artPointer.bucket = Hash[u]
        PROVE  after[u] # 0 /\ new[i].numOccurances = after[u]
    <3>1. infos[i].artPointer.bucket = Hash[u]
      BY <2>2, <2>4
    <3>2. CASE i = p
      <4>1. u = t
        BY <1>6, <2>1, <3>1, <3>2
      <4>2. infos[p].numOccurances = due[t]
        BY <1>3, <2>1
      <4> QED BY <1>5, <2>2, <3>2, <4>1, <4>2
    <3>3. CASE i # p
      <4>1. u # t
        BY <1>2, <2>1, <3>1, <3>3
      <4> QED BY <1>3, <1>5, <2>2, <3>1, <3>3, <4>1
    <3> QED BY <3>2, <3>3
  <2>5. ASSUME NEW u \in Url, after[u] # 0
        PROVE  \E i \in 1 .. n : new[i].artPointer.bucket = Hash[u]
    <3>1. CASE u = t
      BY <2>1, <2>2, <3>1
    <3>2. CASE u # t
      <4>1. PICK i \in 1 .. n : infos[i].artPointer.bucket = Hash[u]
        BY <1>4, <1>5, <2>5, <3>2
      <4> QED BY <2>2, <4>1
    <3> QED BY <3>1, <3>2
  <2> QED BY <2>2, <2>3, <2>4, <2>5 DEF Entries, after
<1> QED BY <1>9, <1>10

LEMMA ScanCounts ==
  ASSUME FaithInv, Separates, ScanWord
  PROVE  CountInv'
<1> DEFINE w0 == Head(words)
<1>1. /\ pc = "scan" /\ w0 \in Word
      /\ UNCHANGED <<articles, target, currentArticle>>
      /\ \/ ~Indexed(w0) /\ index' = index
         \/ /\ Indexed(w0)
            /\ \E junk \in Article :
                 index' = [index EXCEPT ![w0] =
                             Counted(index[w0], FoundArticle(index[w0], target, junk))]
  BY ScanWordFact DEF FaithInv
<1>2. /\ NewsInv /\ OneEach /\ target \in Url /\ currentArticle \in Pointer
      /\ currentArticle.bucket = Hash[target] /\ index \in [Word -> Seq(ArticleInfo)]
  BY <1>1 DEF FaithInv, NewsInv, TypeOK, PlaceInv, OneEach
<1>3. \A w \in Word, u \in Url :
        /\ Due(w, u) \in Nat
        /\ Due(w, u)' = IF u = target /\ Indexed(w) /\ w = w0 THEN Due(w, u) + 1 ELSE Due(w, u)
  BY ScanDue
<1> HIDE DEF w0
<1>4. CASE ~Indexed(w0)
  <2>1. \A w \in Word, u \in Url : Due(w, u)' = Due(w, u)
    BY <1>3, <1>4
  <2> QED BY <1>1, <1>4, <2>1, SameCounts DEF FaithInv
<1>5. CASE Indexed(w0)
  <2>1. PICK junk \in Article :
          index' = [index EXCEPT ![w0] =
                      Counted(index[w0], FoundArticle(index[w0], target, junk))]
    BY <1>1, <1>5
  <2> DEFINE infos == index[w0]
             due == [u \in Url |-> Due(w0, u)]
  <2>2. PICK p : p = FoundArticle(infos, target, junk)
    OBVIOUS
  <2>3. PICK new : new = Counted(infos, p)
    OBVIOUS
  <2>4. index'[w0] = new /\ \A w \in Word : w # w0 => index'[w] = index[w]
    BY <1>1, <1>2, <2>1, <2>2, <2>3
  <2>5. /\ infos \in Seq(ArticleInfo) /\ Len(infos) \in Nat
        /\ \A i \in 1 .. Len(infos) :
             Placed(infos[i].artPointer) /\ infos[i].artPointer.block = 0
    <3>1. /\ infos \in Seq(ArticleInfo) /\ Len(infos) \in Nat /\ DOMAIN infos = 1 .. Len(infos)
          /\ \A i \in 1 .. Len(infos) : Placed(infos[i].artPointer)
      BY <1>1, <1>2, IndexFact
    <3> QED BY <1>1, <1>2, <3>1 DEF OneEach
  <2>6. due \in [Url -> Nat] /\ Entries(infos, due)
    <3>1. due \in [Url -> Nat]
      BY <1>1, <1>3
    <3>2. CountInv
      BY DEF FaithInv
    <3> QED BY <1>1, <3>1, <3>2 DEF CountInv, BucketAt, Entries
  <2>7. \A i \in 1 .. Len(infos) :
          Read(infos[i].artPointer, junk).url = target <=>
            infos[i].artPointer.bucket = Hash[target]
    BY <1>2, <2>5, PointerUrl
  <2>8. \/ p = 0 /\ \A i \in 1 .. Len(infos) : Read(infos[i].artPointer, junk).url # target
        \/ p \in 1 .. Len(infos) /\ Read(infos[p].artPointer, junk).url = target
    BY <2>2, <2>5, FoundFact
  <2>9. \/ p = 0 /\ \A i \in 1 .. Len(infos) : infos[i].artPointer.bucket # Hash[target]
        \/ p \in 1 .. Len(infos) /\ infos[p].artPointer.bucket = Hash[target]
    BY <2>7, <2>8
  <2> DEFINE after == [due EXCEPT ![target] = @ + 1]
  <2>10. \A w \in Word, u \in Url : w = w0 => Due(w, u)' = after[u]
    BY <1>2, <1>3, <1>5
  <2> HIDE DEF infos, due, after
  <2>11. Entries(new, after)
    BY <1>2, <2>3, <2>5, <2>6, <2>9, EntryCounted DEF after
  <2>12. ASSUME NEW w \in Word
         PROVE  /\ \A i, j \in DOMAIN index'[w] : BucketAt(w, i)' = BucketAt(w, j)' => i = j
                /\ \A i \in DOMAIN index'[w], u \in Url :
                     BucketAt(w, i)' = Hash[u] =>
                       Due(w, u)' # 0 /\ index'[w][i].numOccurances = Due(w, u)'
                /\ \A u \in Url :
                     Due(w, u)' # 0 => \E i \in DOMAIN index'[w] : BucketAt(w, i)' = Hash[u]
    <3>1. CASE w = w0
      <4>1. \A i : BucketAt(w, i)' = new[i].artPointer.bucket
        BY <2>4, <3>1 DEF BucketAt
      <4>2. \A u \in Url : Due(w, u)' = after[u]
        BY <2>10, <3>1
      <4> QED BY <2>4, <2>11, <3>1, <4>1, <4>2 DEF Entries
    <3>2. CASE w # w0
      <4>1. index'[w] = index[w] /\ \A i : BucketAt(w, i)' = BucketAt(w, i)
        BY <2>4, <3>2 DEF BucketAt
      <4>2. \A u \in Url : Due(w, u)' = Due(w, u)
        BY <1>3, <3>2
      <4> QED BY <4>1, <4>2 DEF CountInv, FaithInv
    <3> QED BY <3>1, <3>2
  <2> QED BY <2>12 DEF CountInv
<1> QED BY <1>4, <1>5

LEMMA ScanWordFaithful ==
  ASSUME FaithInv, Separates, ScanWord, NewsInv'
  PROVE  FaithInv'
<1> DEFINE w0 == Head(words)
<1>1. /\ pc = "scan" /\ w0 \in Word
      /\ UNCHANGED <<articles, pc, target, currentArticle, scans, response>>
      /\ \/ ~Indexed(w0) /\ index' = index
         \/ /\ Indexed(w0)
            /\ \E junk \in Article :
                 index' = [index EXCEPT ![w0] =
                             Counted(index[w0], FoundArticle(index[w0], target, junk))]
  BY ScanWordFact DEF FaithInv
<1>2. /\ NewsInv /\ OneEach /\ currentArticle \in Pointer /\ currentArticle.block = 0
      /\ target \in Url /\ index \in [Word -> Seq(ArticleInfo)]
  BY <1>1 DEF FaithInv, NewsInv, TypeOK, OneEach, PlaceInv
<1> HIDE DEF w0
<1>3. \A w \in Word : \A i \in DOMAIN index'[w] : index'[w][i].artPointer.block = 0
  <2>1. CASE index' = index
    BY <1>2, <2>1 DEF OneEach
  <2>2. ASSUME NEW junk \in Article,
               index' = [index EXCEPT ![w0] =
                           Counted(index[w0], FoundArticle(index[w0], target, junk))]
        PROVE  \A w \in Word : \A i \in DOMAIN index'[w] : index'[w][i].artPointer.block = 0
    <3> DEFINE infos == index[w0]
    <3>1. PICK p : p = FoundArticle(infos, target, junk)
      OBVIOUS
    <3>2. PICK new : new = Counted(infos, p)
      OBVIOUS
    <3>3. index'[w0] = new /\ \A w \in Word : w # w0 => index'[w] = index[w]
      BY <1>1, <1>2, <2>2, <3>1, <3>2
    <3>4. /\ infos \in Seq(ArticleInfo) /\ Len(infos) \in Nat /\ DOMAIN infos = 1 .. Len(infos)
          /\ \A i \in 1 .. Len(infos) : infos[i].artPointer.block = 0
      <4>1. infos \in Seq(ArticleInfo) /\ Len(infos) \in Nat /\ DOMAIN infos = 1 .. Len(infos)
        BY <1>1, <1>2, IndexFact
      <4> QED BY <1>1, <1>2, <4>1 DEF OneEach
    <3> HIDE DEF infos
    <3>5. p = 0 \/ p \in 1 .. Len(infos)
      BY <3>1, <3>4, FoundFact
    <3>6. /\ new \in Seq(ArticleInfo)
          /\ p = 0 => /\ Len(new) = Len(infos) + 1
                      /\ \A i \in 1 .. Len(infos) : new[i] = infos[i]
                      /\ new[Len(infos) + 1].artPointer = currentArticle
          /\ p # 0 => /\ Len(new) = Len(infos)
                      /\ \A i \in 1 .. Len(infos) : new[i].artPointer = infos[i].artPointer
      BY <1>2, <3>2, <3>4, <3>5, CountedFact
    <3>7. DOMAIN new = 1 .. Len(new)
      BY <3>6, InfoFact
    <3>8. \A i \in 1 .. Len(new) : new[i].artPointer.block = 0
      <4>1. CASE p = 0
        <5>1. \A i \in 1 .. Len(new) : i \in 1 .. Len(infos) \/ i = Len(infos) + 1
          BY <3>4, <3>6, <4>1
        <5> QED BY <1>2, <3>4, <3>6, <4>1, <5>1
      <4>2. CASE p # 0
        BY <3>4, <3>6, <4>2
      <4> QED BY <4>1, <4>2
    <3>9. \A w \in Word : w # w0 =>
            \A i \in DOMAIN index'[w] : index'[w][i].artPointer.block = 0
      BY <1>2, <3>3 DEF OneEach
    <3> QED BY <3>3, <3>7, <3>8, <3>9
  <2> QED BY <1>1, <2>1, <2>2
<1>4. OneEach'
  BY <1>1, <1>2, <1>3 DEF OneEach
<1>5. AnswerInv'
  BY <1>1, SameRank DEF FaithInv, AnswerInv
<1> QED BY <1>4, <1>5, ScanCounts, ScanLeft DEF FaithInv
-----------------------------------------------------------------------------
(***************************************************************************)
(* Sorting keeps the entries; the first ones of a sorted sequence rank the *)
(* URLs by what is due to them.                                            *)
(***************************************************************************)
LEMMA EntriesPermuted ==
  ASSUME NEW infos, NEW n \in Nat, DOMAIN infos = 1 .. n, NEW due, Entries(infos, due),
         NEW new, DOMAIN new = 1 .. n, Permuted(new, infos, n)
  PROVE  Entries(new, due)
<1>1. PICK f \in [1 .. n -> 1 .. n] :
        /\ \A i, j \in 1 .. n : f[i] = f[j] => i = j
        /\ \A j \in 1 .. n : \E i \in 1 .. n : f[i] = j
        /\ \A i \in 1 .. n : new[i] = infos[f[i]]
  BY Zenon DEF Permuted
<1> DEFINE D == 1 .. n
<1>2. /\ f \in [D -> D] /\ DOMAIN infos = D /\ DOMAIN new = D
      /\ \A i, j \in D : f[i] = f[j] => i = j
      /\ \A j \in D : \E i \in D : f[i] = j
      /\ \A i \in D : f[i] \in D /\ new[i] = infos[f[i]]
  BY <1>1
<1> HIDE DEF D
<1>3. /\ \A i, j \in D : infos[i].artPointer.bucket = infos[j].artPointer.bucket => i = j
      /\ \A i \in D, u \in Url :
           infos[i].artPointer.bucket = Hash[u] =>
             due[u] # 0 /\ infos[i].numOccurances = due[u]
      /\ \A u \in Url : due[u] # 0 => \E i \in D : infos[i].artPointer.bucket = Hash[u]
  BY <1>2, Zenon DEF Entries
<1>4. ASSUME NEW i \in D, NEW j \in D,
             new[i].artPointer.bucket = new[j].artPointer.bucket
      PROVE  i = j
  <2>1. infos[f[i]].artPointer.bucket = infos[f[j]].artPointer.bucket
    BY <1>2, <1>4
  <2>2. f[i] = f[j]
    BY <1>2, <1>3, <2>1, ZenonT(30)
  <2> QED BY <1>2, <2>2
<1>5. ASSUME NEW i \in D, NEW u \in Url, new[i].artPointer.bucket = Hash[u]
      PROVE  due[u] # 0 /\ new[i].numOccurances = due[u]
  <2>1. f[i] \in D /\ new[i] = infos[f[i]]
    BY <1>2
  <2> QED BY <1>3, <1>5, <2>1
<1>6. ASSUME NEW u \in Url, due[u] # 0
      PROVE  \E i \in D : new[i].artPointer.bucket = Hash[u]
  <2>1. PICK j \in D : infos[j].artPointer.bucket = Hash[u]
    BY <1>3, <1>6
  <2>2. PICK i \in D : f[i] = j
    BY <1>2
  <2> QED BY <1>2, <2>1, <2>2, ZenonT(30)
<1> QED BY <1>2, <1>4, <1>5, <1>6, Zenon DEF Entries

Ranked(list, due, m) ==
  /\ m # 0
  /\ \A i \in 1 .. m : list[i].numOccurances = due[list[i].article.url]
  /\ \A i, j \in 1 .. m :
       i < j => /\ list[i].numOccurances >= list[j].numOccurances
                /\ list[i].article.url # list[j].article.url
  /\ \A u \in Url : (\A i \in 1 .. m : list[i].article.url # u) =>
       due[u] <= list[m].numOccurances /\ (m < MaxResponses => due[u] = 0)

LEMMA RankFact ==
  ASSUME Separates, NEW new \in Seq(ArticleInfo), NEW n, n = Len(new), n # 0,
         NEW due \in [Url -> Nat], Entries(new, due), Descending(new, n),
         NEW m, m = (IF n <= MaxResponses THEN n ELSE MaxResponses),
         NEW list, DOMAIN list = 1 .. m,
         \A i \in 1 .. m :
           /\ list[i].article.url \in Url
           /\ new[i].artPointer.bucket = Hash[list[i].article.url]
           /\ list[i].numOccurances = new[i].numOccurances
  PROVE  Ranked(list, due, m)
<1>1. /\ n \in Nat /\ DOMAIN new = 1 .. n /\ \A i \in 1 .. n : new[i].numOccurances \in Nat
  BY InfoFact
<1>2. /\ m \in Nat /\ m # 0 /\ m \in 1 .. n /\ m \in 1 .. m
      /\ \A i \in 1 .. m : i \in 1 .. n
      /\ m < MaxResponses => m = n
  BY <1>1, NewsAssumption
<1>3. ASSUME NEW i \in 1 .. m PROVE list[i].numOccurances = due[list[i].article.url]
  BY <1>1, <1>2 DEF Entries
<1>4. ASSUME NEW i \in 1 .. m, NEW j \in 1 .. m, i < j
      PROVE  /\ list[i].numOccurances >= list[j].numOccurances
             /\ list[i].article.url # list[j].article.url
  <2>1. i \in 1 .. n /\ j \in 1 .. n /\ i # j
    BY <1>2, <1>4
  <2>2. new[i].numOccurances >= new[j].numOccurances
    BY <1>4, <2>1 DEF Descending
  <2>3. new[i].artPointer.bucket # new[j].artPointer.bucket
    BY <1>1, <2>1 DEF Entries
  <2> QED BY <2>2, <2>3
<1>5. ASSUME NEW u \in Url, \A i \in 1 .. m : list[i].article.url # u
      PROVE  due[u] <= list[m].numOccurances /\ (m < MaxResponses => due[u] = 0)
  <2>1. list[m].numOccurances = new[m].numOccurances /\ new[m].numOccurances \in Nat
    BY <1>1, <1>2
  <2>2. CASE due[u] = 0
    BY <2>1, <2>2
  <2>3. CASE due[u] # 0
    <3>1. PICK k \in 1 .. n : new[k].artPointer.bucket = Hash[u]
      BY <1>1, <2>3 DEF Entries
    <3>2. k \notin 1 .. m
      <4>1. ASSUME k \in 1 .. m PROVE FALSE
        <5>1. Hash[list[k].article.url] = Hash[u] /\ list[k].article.url \in Url
          BY <3>1, <4>1
        <5>2. list[k].article.url = u
          BY <5>1 DEF Separates
        <5> QED BY <1>5, <4>1, <5>2
      <4> QED BY <4>1
    <3>3. m < k /\ m # n
      BY <1>1, <1>2, <3>2
    <3>4. new[m].numOccurances >= new[k].numOccurances
      BY <1>2, <3>3 DEF Descending
    <3>5. new[k].numOccurances = due[u] /\ due[u] \in Nat
      BY <1>1, <3>1 DEF Entries
    <3> QED BY <1>2, <2>1, <3>3, <3>4, <3>5
  <2> QED BY <2>2, <2>3
<1> QED BY <1>2, <1>3, <1>4, <1>5 DEF Ranked

(***************************************************************************)
(* Between two articles the entries of a word are those of the scans.      *)
(***************************************************************************)
LEMMA DueEntries ==
  ASSUME FaithInv, pc # "scan", NEW w \in Word,
         NEW due, due = [u \in Url |-> scans[u] * Occurrences(w, u)]
  PROVE  due \in [Url -> Nat] /\ Entries(index[w], due)
<1>1. \A u \in Url : Due(w, u) = due[u] /\ due[u] \in Nat
  BY DueFact DEF FaithInv
<1>2. CountInv
  BY DEF FaithInv
<1> QED BY <1>1, <1>2 DEF CountInv, BucketAt, Entries

LEMMA FoundEntries ==
  ASSUME FaithInv, Separates, pc # "scan", NEW w \in Word, NEW new, NEW junk,
         Found(w, new, junk),
         NEW due, due = [u \in Url |-> scans[u] * Occurrences(w, u)]
  PROVE  /\ Entries(new, due)
         /\ \A i \in 1 .. Len(new) : new[i].artPointer.block = 0
<1> DEFINE infos == index[w]
           n == Len(new)
<1>1. /\ n \in Nat /\ DOMAIN new = 1 .. n /\ DOMAIN infos = 1 .. n
      /\ Permuted(new, infos, n)
  BY NewInfosFact DEF FaithInv
<1>2. Entries(infos, due)
  BY DueEntries
<1>3. \A i \in 1 .. n : infos[i].artPointer.block = 0
  BY <1>1 DEF FaithInv, OneEach
<1> HIDE DEF infos, n
<1>4. Entries(new, due)
  BY <1>1, <1>2, EntriesPermuted
<1>5. \A i \in 1 .. n : new[i].artPointer.block = 0
  <2>1. PICK f \in [1 .. n -> 1 .. n] : \A i \in 1 .. n : new[i] = infos[f[i]]
    BY <1>1, Zenon DEF Permuted
  <2> QED BY <1>3, <2>1
<1> QED BY <1>4, <1>5 DEF n

LEMMA FoundRanks ==
  ASSUME FaithInv, Separates, pc # "scan", UNCHANGED scans,
         NEW w \in Word, NEW new, NEW junk, Found(w, new, junk)
  PROVE  AnswersRank'
<1> DEFINE due == [u \in Url |-> scans[u] * Occurrences(w, u)]
           n == Len(new)
           m == IF n <= MaxResponses THEN n ELSE MaxResponses
<1>1. due \in [Url -> Nat] /\ \A u \in Url : due[u] = scans[u] * Occurrences(w, u)
  BY DueEntries
<1>2. Entries(new, due) /\ \A i \in 1 .. Len(new) : new[i].artPointer.block = 0
  BY FoundEntries
<1>3. /\ new \in Seq(ArticleInfo) /\ n \in Nat \ {0} /\ Descending(new, n)
      /\ \A i \in 1 .. Len(new) : Placed(new[i].artPointer)
  BY NewInfosFact DEF FaithInv
<1>4. PICK list : list = Listed(new, junk)
  OBVIOUS
<1>5. junk \in Article /\ response' = Says(w, "found", list)
  BY <1>4 DEF Found
<1>6. response'.word = w /\ response'.kind = "found" /\ response'.list = list
  BY <1>5, SaysFact
<1>7. /\ list \in Seq([article : Article, numOccurances : Nat])
      /\ Len(list) = m /\ DOMAIN list = 1 .. m
      /\ \A i \in 1 .. m :
           /\ i \in 1 .. n
           /\ list[i].article = Read(new[i].artPointer, junk)
           /\ list[i].numOccurances = new[i].numOccurances
  <2>1. NewsInv
    BY DEF FaithInv
  <2>2. /\ list \in Seq([article : Article, numOccurances : Nat])
        /\ Len(list) = (IF Len(new) <= MaxResponses THEN Len(new) ELSE MaxResponses)
        /\ DOMAIN list = 1 .. Len(list)
        /\ \A i \in 1 .. Len(list) :
             /\ i \in 1 .. Len(new)
             /\ list[i].article = Read(new[i].artPointer, junk)
             /\ list[i].numOccurances = new[i].numOccurances
    <3>1. new \in Seq(ArticleInfo) /\ \A i \in 1 .. Len(new) : Placed(new[i].artPointer)
      BY <1>3
    <3>2. junk \in Article
      BY <1>5
    <3> QED BY <1>4, <2>1, <3>1, <3>2, ListedFact, ZenonT(60)
  <2>3. Len(list) = m
    BY <2>2
  <2> QED BY <2>2, <2>3
<1> HIDE DEF due, n, m
<1>8. \A i \in 1 .. m :
        /\ list[i].article.url \in Url
        /\ new[i].artPointer.bucket = Hash[list[i].article.url]
        /\ list[i].numOccurances = new[i].numOccurances
  <2>1. ASSUME NEW i \in 1 .. m
        PROVE  /\ list[i].article.url \in Url
               /\ new[i].artPointer.bucket = Hash[list[i].article.url]
    <3> DEFINE p == new[i].artPointer
    <3>1. Placed(p) /\ p.block = 0
      BY <1>2, <1>3, <1>7, <2>1 DEF n
    <3>2. list[i].article = Read(p, junk)
      BY <1>7, <2>1
    <3> HIDE DEF p
    <3>3. PICK u \in Url : p.bucket = Hash[u] /\ Read(p, junk).url = u
      BY <3>1, PointerUrl DEF FaithInv
    <3> QED BY <3>2, <3>3 DEF p
  <2> QED BY <1>7, <2>1
<1>9. Ranked(list, due, m)
  <2>1. m = (IF n <= MaxResponses THEN n ELSE MaxResponses)
    BY DEF m
  <2>2. n # 0 /\ n = Len(new)
    BY <1>3 DEF n
  <2>3. DOMAIN list = 1 .. m
    BY <1>7
  <2>4. new \in Seq(ArticleInfo) /\ Descending(new, n)
    BY <1>3
  <2>5. due \in [Url -> Nat] /\ Entries(new, due)
    BY <1>1, <1>2
  <2> QED BY <1>8, <2>1, <2>2, <2>3, <2>4, <2>5, RankFact
<1>10. list # << >>
  BY <1>7, <1>9 DEF Ranked
<1>11. \A u \in Url : scans'[u] * Occurrences(w, u) = due[u]
  BY <1>1
<1>12. \A i \in 1 .. m :
         scans'[list[i].article.url] * Occurrences(w, list[i].article.url)
           = due[list[i].article.url]
  BY <1>8, <1>11
<1> DEFINE urls == {list[i].article.url : i \in DOMAIN list}
<1>13. \A u \in Url \ urls : \A i \in 1 .. m : list[i].article.url # u
  BY <1>7
<1>14. /\ \A u \in Url \ urls : scans'[u] * Occurrences(w, u) <= list[Len(list)].numOccurances
       /\ Len(list) < MaxResponses =>
            \A u \in Url \ urls : scans'[u] * Occurrences(w, u) = 0
  <2> HIDE DEF urls
  <2> QED BY <1>7, <1>9, <1>11, <1>13 DEF Ranked
<1>15. \A i \in DOMAIN list :
         list[i].numOccurances =
           scans'[list[i].article.url] * Occurrences(w, list[i].article.url)
  BY <1>7, <1>9, <1>12 DEF Ranked
<1>16. \A i, j \in DOMAIN list :
         i < j => /\ list[i].numOccurances >= list[j].numOccurances
                  /\ list[i].article.url # list[j].article.url
  BY <1>7, <1>9 DEF Ranked
<1> QED BY <1>6, <1>10, <1>14, <1>15, <1>16 DEF AnswersRank

(***************************************************************************)
(* A query, or the end of the input taken for one.                         *)
(***************************************************************************)
LEMMA NotFoundRanks ==
  ASSUME FaithInv, pc # "scan", UNCHANGED scans, NEW w \in Word, NotFound(w)
  PROVE  AnswersRank'
<1> DEFINE due == [u \in Url |-> scans[u] * Occurrences(w, u)]
<1>1. /\ \A u \in Url : due[u] = scans[u] * Occurrences(w, u)
      /\ Entries(index[w], due)
  BY DueEntries
<1>2. index[w] = << >> /\ response' = Says(w, "none", << >>)
  BY DEF NotFound
<1>3. DOMAIN index[w] = {}
  BY <1>2
<1> HIDE DEF due
<1>4. \A u \in Url : due[u] = 0
  BY <1>1, <1>3 DEF Entries
<1>5. response'.word = w /\ response'.kind = "none"
  BY <1>2, SaysFact
<1> QED BY <1>1, <1>4, <1>5 DEF AnswersRank

LEMMA RefusedRanks ==
  ASSUME NEW w \in Word, NEW kind, Refused(w, kind)
  PROVE  AnswersRank'
<1>1. kind \in {"notAllowed", "tooCommon"} /\ response' = Says(w, kind, << >>)
  BY DEF Refused
<1>2. response'.kind = kind /\ response'.list = << >>
  BY <1>1, SaysFact
<1>3. response'.kind # "found" /\ response'.kind # "none"
  BY <1>1, <1>2
<1> QED BY <1>2, <1>3 DEF AnswersRank


LEMMA AsksFaithful ==
  ASSUME FaithInv, Separates, Asks, NewsInv'
  PROVE  FaithInv'
<1>1. /\ pc = "query" /\ pc' \in {"query", "done"}
      /\ UNCHANGED <<articles, target, words, currentArticle, scans>>
      /\ \/ UNCHANGED <<index, response>>
         \/ \E w \in Word : ProcessResponse(w)
  BY AsksFact DEF FaithInv
<1>2. pc # "scan" /\ pc' # "scan" /\ UNCHANGED scans
  BY <1>1
<1>3. \A w \in Word, u \in Url : Due(w, u)' = Due(w, u)
  BY <1>1 DEF Due, ReadSoFar
<1> DEFINE BlocksOK(ix) == \A w \in Word : \A i \in DOMAIN ix[w] : ix[w][i].artPointer.block = 0
<1>4. BlocksOK(index) /\ CountInv /\ AnswersRank
  BY DEF FaithInv, OneEach, AnswerInv
<1>5. BlocksOK(index') /\ CountInv' /\ AnswersRank'
  <2>1. CASE UNCHANGED index
    <3>1. CountInv' /\ BlocksOK(index')
      BY <1>3, <1>4, <2>1, SameCounts
    <3>2. CASE UNCHANGED response
      BY <1>2, <1>4, <3>1, <3>2, SameRank
    <3>3. ASSUME NEW w \in Word, NEW kind, Refused(w, kind) PROVE AnswersRank'
      BY <3>3, RefusedRanks
    <3>4. ASSUME NEW w \in Word, NotFound(w) PROVE AnswersRank'
      BY <1>2, <3>4, NotFoundRanks
    <3>5. ASSUME NEW w \in Word, NEW new, NEW junk, Found(w, new, junk) PROVE AnswersRank'
      BY <1>2, <3>5, FoundRanks
    <3>6. ASSUME NEW w \in Word, ProcessResponse(w) PROVE AnswersRank'
      BY <1>1, <3>3, <3>4, <3>5, <3>6, ResponseFact DEF FaithInv
    <3> QED BY <1>1, <3>1, <3>2, <3>6
  <2>2. ASSUME NEW w \in Word, NEW kind, Refused(w, kind) PROVE UNCHANGED index
    BY <2>2 DEF Refused
  <2>3. ASSUME NEW w \in Word, NotFound(w) PROVE UNCHANGED index
    BY <2>3 DEF NotFound
  <2>4. ASSUME NEW w \in Word, NEW new, NEW junk, Found(w, new, junk)
        PROVE  BlocksOK(index') /\ CountInv' /\ AnswersRank'
    <3>1. /\ DOMAIN new = 1 .. Len(new) /\ index'[w] = new
          /\ \A v \in Word : v # w => index'[v] = index[v]
      BY <2>4, NewInfosFact DEF FaithInv
    <3> DEFINE due == [u \in Url |-> scans[u] * Occurrences(w, u)]
    <3>2. Entries(new, due) /\ \A i \in 1 .. Len(new) : new[i].artPointer.block = 0
      BY <1>2, <2>4, FoundEntries
    <3>3. BlocksOK(index')
      BY <1>4, <3>1, <3>2
    <3>4. \A u \in Url : due[u] = Due(w, u)'
      BY <1>2, <1>3, DueFact DEF FaithInv
    <3> HIDE DEF due
    <3>5. ASSUME NEW v \in Word
          PROVE  /\ \A i, j \in DOMAIN index'[v] : BucketAt(v, i)' = BucketAt(v, j)' => i = j
                 /\ \A i \in DOMAIN index'[v], u \in Url :
                      BucketAt(v, i)' = Hash[u] =>
                        Due(v, u)' # 0 /\ index'[v][i].numOccurances = Due(v, u)'
                 /\ \A u \in Url :
                      Due(v, u)' # 0 => \E i \in DOMAIN index'[v] : BucketAt(v, i)' = Hash[u]
      <4>1. CASE v = w
        <5>1. \A i : BucketAt(v, i)' = new[i].artPointer.bucket
          BY <3>1, <4>1 DEF BucketAt
        <5>2. \A u \in Url : Due(v, u)' = due[u]
          BY <3>4, <4>1
        <5> QED BY <3>1, <3>2, <4>1, <5>1, <5>2 DEF Entries
      <4>2. CASE v # w
        <5>1. index'[v] = index[v] /\ \A i : BucketAt(v, i)' = BucketAt(v, i)
          BY <3>1, <4>2 DEF BucketAt
        <5>2. \A u \in Url : Due(v, u)' = Due(v, u)
          BY <1>3
        <5> QED BY <1>4, <5>1, <5>2 DEF CountInv
      <4> QED BY <4>1, <4>2
    <3>6. CountInv'
      BY <3>5 DEF CountInv
    <3>7. AnswersRank'
      BY <1>2, <2>4, FoundRanks
    <3> QED BY <3>3, <3>6, <3>7
  <2>5. ASSUME NEW w \in Word, ProcessResponse(w)
        PROVE  UNCHANGED index \/ (BlocksOK(index') /\ CountInv' /\ AnswersRank')
    BY <1>1, <2>2, <2>3, <2>4, <2>5, ResponseFact DEF FaithInv
  <2> QED BY <1>1, <2>1, <2>5
<1>6. OneEach'
  BY <1>1, <1>2, <1>5 DEF FaithInv, OneEach
<1>7. ScanInv'
  BY <1>2 DEF ScanInv
<1>8. AnswerInv'
  BY <1>1, <1>5 DEF AnswerInv
<1> QED BY <1>5, <1>6, <1>7, <1>8 DEF FaithInv
-----------------------------------------------------------------------------
(***************************************************************************)
(* FaithInv is inductive if the hash function separates the URLs.          *)
(***************************************************************************)
LEMMA FaithInit == Init => FaithInv
<1> SUFFICES ASSUME Init PROVE FaithInv
  OBVIOUS
<1>1. NewsInv
  BY NewsInit
<1>2. /\ \A b \in Bucket : articles[b] = [block |-> 0, elems |-> << >>]
      /\ \A w \in Word : index[w] = << >>
      /\ pc = "start" /\ response.kind = "notAsked" /\ response.list = << >>
      /\ \A u \in Url : scans[u] = 0
  BY DEF Init
<1>3. OneEach
  <2>1. \A b \in Bucket : articles[b].block = 0 /\ Len(articles[b].elems) = 0
    BY <1>2
  <2>2. \A b \in Bucket : \A i \in 1 .. Len(articles[b].elems) : FALSE
    BY <2>1
  <2> QED BY <1>2, <2>1, <2>2 DEF OneEach
<1>4. \A w \in Word, u \in Url : Due(w, u) = 0
  <2>1. ASSUME NEW w \in Word, NEW u \in Url PROVE Due(w, u) = 0
    <3>1. Occurrences(w, u) \in Nat /\ scans[u] = 0 /\ pc # "scan"
      BY <1>2, OccurrencesFact
    <3> QED BY <3>1 DEF Due, ReadSoFar
  <2> QED BY <2>1
<1>5. CountInv
  BY <1>2, <1>4 DEF CountInv
<1>6. ScanInv /\ AnswerInv
  BY <1>2 DEF ScanInv, AnswerInv, AnswersRank
<1> QED BY <1>1, <1>3, <1>5, <1>6 DEF FaithInv

LEMMA FaithStep ==
  ASSUME Separates, FaithInv, [Next]_vars
  PROVE  FaithInv'
<1>1. NewsInv'
  BY NewsStep DEF FaithInv
<1>2. CASE Moves
  BY <1>1, <1>2, MoveFaithful
<1>3. CASE Starts
  BY <1>1, <1>3, StartFaithful
<1>4. CASE ScanWord
  BY <1>1, <1>4, ScanWordFaithful
<1>5. CASE EndOfArticle
  BY <1>1, <1>5, EndFaithful
<1>6. CASE Asks
  BY <1>1, <1>6, AsksFaithful
<1>7. CASE UNCHANGED vars
  <2>1. UNCHANGED <<articles, index, pc, target, words, currentArticle, scans, response>>
    BY <1>7 DEF vars
  <2>2. \A w \in Word, u \in Url : Due(w, u)' = Due(w, u)
    BY <2>1 DEF Due, ReadSoFar
  <2>3. CountInv' /\ AnswersRank'
    BY <2>1, <2>2, SameCounts, SameRank DEF FaithInv, AnswerInv
  <2>4. OneEach' /\ ScanInv' /\ AnswerInv'
    BY <2>1, <2>3 DEF FaithInv, OneEach, ScanInv, AnswerInv
  <2> QED BY <1>1, <2>3, <2>4 DEF FaithInv
<1> QED BY <1>2, <1>3, <1>4, <1>5, <1>6, <1>7, NextCases

LEMMA FaithfulIndex ==
  ASSUME Separates, FaithInv
  PROVE  IndexFaithful
<1> SUFFICES ASSUME pc # "scan" PROVE IndexFaithful
  BY DEF IndexFaithful
<1>1. ASSUME NEW w \in Word, NEW i \in DOMAIN index[w]
      PROVE  /\ \A u \in Url : i \in InfosOf(w, u) <=> BucketAt(w, i) = Hash[u]
             /\ \E u \in Url : BucketAt(w, i) = Hash[u]
  <2> DEFINE p == index[w][i].artPointer
  <2>1. Placed(p) /\ p.block = 0 /\ NewsInv /\ OneEach
    BY <1>1, IndexFact DEF FaithInv, OneEach
  <2>2. /\ IsValid(p)
        /\ \E u \in Url : p.bucket = Hash[u]
        /\ \A u \in Url :
             articles[p.bucket].elems[p.pos].url = u <=> p.bucket = Hash[u]
    <3> HIDE DEF p
    <3> QED BY <2>1, PointerUrl
  <2> QED BY <1>1, <2>2 DEF InfosOf, BucketAt
<1>2. \A w \in Word, u \in Url : InfosOf(w, u) \subseteq DOMAIN index[w]
  BY DEF InfosOf
<1>3. ASSUME NEW w \in Word, NEW u \in Url
      PROVE  LET expected == scans[u] * Occurrences(w, u)
             IN  IF expected = 0 THEN InfosOf(w, u) = {}
                 ELSE /\ Cardinality(InfosOf(w, u)) = 1
                      /\ \A i \in InfosOf(w, u) : index[w][i].numOccurances = expected
  <2> DEFINE expected == scans[u] * Occurrences(w, u)
  <2>1. expected = Due(w, u)
    BY DueFact DEF FaithInv
  <2>2. /\ \A i, j \in DOMAIN index[w] : BucketAt(w, i) = BucketAt(w, j) => i = j
        /\ \A i \in DOMAIN index[w] :
             BucketAt(w, i) = Hash[u] =>
               expected # 0 /\ index[w][i].numOccurances = expected
        /\ expected # 0 => \E i \in DOMAIN index[w] : BucketAt(w, i) = Hash[u]
    BY <2>1 DEF FaithInv, CountInv
  <2> HIDE DEF expected
  <2>3. CASE expected = 0
    BY <1>1, <1>2, <2>2, <2>3 DEF expected
  <2>4. CASE expected # 0
    <3>1. PICK i \in DOMAIN index[w] : BucketAt(w, i) = Hash[u]
      BY <2>2, <2>4
    <3>2. InfosOf(w, u) = {i}
      BY <1>1, <1>2, <2>2, <3>1
    <3>3. Cardinality({i}) = 1
      BY FS_Singleton
    <3> QED BY <2>2, <2>4, <3>1, <3>2, <3>3 DEF expected
  <2> QED BY <2>3, <2>4
<1>4. ASSUME NEW w \in Word
      PROVE  DOMAIN index[w] = UNION {InfosOf(w, u) : u \in Url}
  <2>1. \A i \in DOMAIN index[w] : \E u \in Url : i \in InfosOf(w, u)
    BY <1>1
  <2> QED BY <1>2, <2>1
<1> QED BY <1>3, <1>4 DEF IndexFaithful

SepInv == Separates => FaithInv

LEMMA FaithInvariance == Spec => []SepInv
<1>1. Init => SepInv
  BY FaithInit DEF SepInv
<1>2. SepInv /\ [Next]_vars => SepInv'
  <2> SUFFICES ASSUME SepInv, [Next]_vars, Separates PROVE FaithInv'
    BY DEF SepInv, Separates
  <2> QED BY FaithStep DEF SepInv
<1> QED BY <1>1, <1>2, PTL DEF Spec

(***************************************************************************)
(* With a hash function that separates the URLs, whatever feeds, files and *)
(* redirections led to the articles: between two articles the index has    *)
(* one entry for each word and URL whose document was scanned and has the  *)
(* word, with the number of its occurrences, once for every scan.          *)
(***************************************************************************)
THEOREM IndexRight == Spec => [](Separates => IndexFaithful)
<1>1. SepInv => (Separates => IndexFaithful)
  BY FaithfulIndex DEF SepInv
<1> QED BY <1>1, FaithInvariance, PTL

(***************************************************************************)
(* And every answer lists the articles that have the word most often, in   *)
(* order and none twice.                                                   *)
(***************************************************************************)
THEOREM AnswersRight == Spec => [](Separates => AnswersRank)
<1>1. SepInv => (Separates => AnswersRank)
  BY DEF SepInv, FaithInv, AnswerInv
<1> QED BY <1>1, FaithInvariance, PTL
-----------------------------------------------------------------------------
(***************************************************************************)
(* The items of a feed.  The tags read are the beginning of the feed, up   *)
(* to number TagsRead.  Outside of an item every item read is over, unless *)
(* the feed is; within one, its tag is the first item tag after the last   *)
(* end tag, and the title and the link are the last ones supplied after it.*)
(***************************************************************************)
TagsRead == Len(feed) - Len(tags)

EndAfter(f, j, n) == \E e \in 1 .. n : f[e].name = "/item" /\ j < e

AllClosed(f, n) == \A j \in 1 .. n : f[j].name = "item" => EndAfter(f, j, n)

StartsAt(f, s, n) ==
  /\ s \in 1 .. n /\ f[s].name = "item"
  /\ \A e \in 1 .. n : f[e].name = "/item" => e < s
  /\ \A j \in 1 .. s - 1 : f[j].name = "item" => EndAfter(f, j, n)

Supplies(f, j, name) == f[j].name = name /\ ~f[j].closed

LastSupplied(f, text, name, s, n) ==
  \/ text = Empty /\ \A j \in s .. n : ~Supplies(f, j, name)
  \/ \E m \in s .. n :
       /\ Supplies(f, m, name) /\ text = f[m].text
       /\ \A j \in m + 1 .. n : ~Supplies(f, j, name)

SuffixInv ==
  Len(tags) <= Len(feed) /\ \A i \in 1 .. Len(tags) : tags[i] = feed[TagsRead + i]

WithinItem(f, n, t, link) ==
  \E s \in 1 .. n : /\ StartsAt(f, s, n)
                    /\ LastSupplied(f, t, "title", s, n)
                    /\ LastSupplied(f, link, "link", s, n)

ItemInv ==
  /\ NewsInv
  /\ SuffixInv
  /\ pc # "item" /\ tags # << >> => AllClosed(feed, TagsRead)
  /\ pc = "item" => WithinItem(feed, TagsRead, title, target)

LEMMA FeedFact ==
  ASSUME NewsInv, SuffixInv
  PROVE  /\ Len(feed) \in Nat /\ Len(tags) \in Nat /\ TagsRead \in 0 .. Len(feed)
         /\ TagsRead \in Nat
<1>1. feed \in Seq(Tag) /\ tags \in Seq(Tag)
  BY DEF NewsInv, TypeOK
<1>2. Len(feed) \in Nat /\ Len(tags) \in Nat
  BY <1>1, SeqFact
<1> QED BY <1>2 DEF SuffixInv, TagsRead

LEMMA PopFact ==
  ASSUME NewsInv, SuffixInv, tags # << >>, tags' = Tail(tags), feed' = feed
  PROVE  /\ SuffixInv' /\ TagsRead' = TagsRead + 1
         /\ Head(tags) = feed[TagsRead + 1]
<1>1. tags \in Seq(Tag)
  BY DEF NewsInv, TypeOK
<1>2. /\ Len(Tail(tags)) = Len(tags) - 1 /\ Len(tags) > 0 /\ Head(tags) = tags[1]
      /\ \A i \in 1 .. Len(tags) - 1 : Tail(tags)[i] = tags[i + 1]
  BY <1>1, TailFact
<1>3. Len(feed) \in Nat /\ Len(tags) \in Nat
  BY FeedFact
<1>4. TagsRead' = TagsRead + 1
  BY <1>2, <1>3 DEF TagsRead
<1>5. Head(tags) = feed[TagsRead + 1]
  <2>1. 1 \in 1 .. Len(tags)
    BY <1>2, <1>3
  <2> QED BY <1>2, <2>1 DEF SuffixInv
<1>6. ASSUME NEW i \in 1 .. Len(tags')
      PROVE  tags'[i] = feed'[TagsRead' + i]
  <2>1. i \in 1 .. Len(tags) - 1 /\ i + 1 \in 1 .. Len(tags)
    BY <1>2, <1>3
  <2>2. tags'[i] = feed[TagsRead + (i + 1)]
    BY <1>2, <2>1 DEF SuffixInv
  <2>3. TagsRead + (i + 1) = TagsRead' + i
    BY <1>3, <1>4, <2>1 DEF TagsRead
  <2> QED BY <2>2, <2>3
<1>7. Len(tags') <= Len(feed')
  BY <1>2, <1>3 DEF SuffixInv
<1> QED BY <1>4, <1>5, <1>6, <1>7 DEF SuffixInv

(***************************************************************************)
(* One more tag, outside of an item and within one.                        *)
(***************************************************************************)
LEMMA OutsideFact ==
  ASSUME NEW f, NEW n \in Nat, AllClosed(f, n)
  PROVE  /\ f[n + 1].name = "item" => StartsAt(f, n + 1, n + 1)
         /\ f[n + 1].name # "item" => AllClosed(f, n + 1)
<1>1. /\ n + 1 \in 1 .. n + 1 /\ n + 1 - 1 = n
      /\ \A i \in 1 .. n + 1 : i \in 1 .. n \/ i = n + 1
      /\ \A i \in 1 .. n : i \in 1 .. n + 1 /\ i < n + 1
  OBVIOUS
<1>2. \A j : EndAfter(f, j, n) => EndAfter(f, j, n + 1)
  BY <1>1 DEF EndAfter
<1>3. \A j \in 1 .. n : f[j].name = "item" => EndAfter(f, j, n + 1)
  BY <1>2 DEF AllClosed
<1>4. ASSUME f[n + 1].name = "item" PROVE StartsAt(f, n + 1, n + 1)
  <2>1. f[n + 1].name # "/item"
    BY <1>4
  <2> QED BY <1>1, <1>3, <1>4, <2>1 DEF StartsAt
<1>5. ASSUME f[n + 1].name # "item" PROVE AllClosed(f, n + 1)
  BY <1>1, <1>3, <1>5 DEF AllClosed
<1> QED BY <1>4, <1>5

LEMMA WithinFact ==
  ASSUME NEW f, NEW n \in Nat, NEW s, StartsAt(f, s, n)
  PROVE  /\ f[n + 1].name # "/item" => StartsAt(f, s, n + 1)
         /\ f[n + 1].name = "/item" => AllClosed(f, n + 1)
<1>1. /\ n + 1 \in 1 .. n + 1 /\ s \in 1 .. n /\ s \in 1 .. n + 1
      /\ \A i \in 1 .. n + 1 : i \in 1 .. n \/ i = n + 1
      /\ \A i \in 1 .. n : i \in 1 .. n + 1 /\ i < n + 1
  BY DEF StartsAt
<1>2. \A j : EndAfter(f, j, n) => EndAfter(f, j, n + 1)
  BY <1>1 DEF EndAfter
<1>3. ASSUME f[n + 1].name # "/item" PROVE StartsAt(f, s, n + 1)
  BY <1>1, <1>2, <1>3 DEF StartsAt
<1>4. ASSUME f[n + 1].name = "/item" PROVE AllClosed(f, n + 1)
  <2>1. f[n + 1].name # "item"
    BY <1>4
  <2>2. \A j \in 1 .. n : EndAfter(f, j, n + 1)
    BY <1>1, <1>4 DEF EndAfter
  <2> QED BY <1>1, <2>1, <2>2 DEF AllClosed
<1> QED BY <1>3, <1>4

LEMMA SuppliedFact ==
  ASSUME NEW f, NEW n \in Nat, NEW s \in 1 .. n, NEW text, NEW name,
         LastSupplied(f, text, name, s, n),
         NEW new,
         new = IF f[n + 1].name = name
               THEN IF f[n + 1].closed THEN text ELSE f[n + 1].text ELSE text
  PROVE  LastSupplied(f, new, name, s, n + 1)
<1>1. /\ n + 1 \in s .. n + 1
      /\ \A i \in s .. n : i \in s .. n + 1
      /\ \A k \in 1 .. n + 1 : \A i \in k .. n + 1 : i \in k .. n \/ i = n + 1
      /\ \A i \in n + 1 + 1 .. n + 1 : FALSE
      /\ \A m \in s .. n : m + 1 \in 1 .. n + 1
  OBVIOUS
<1>2. CASE Supplies(f, n + 1, name)
  <2>1. new = f[n + 1].text
    BY <1>2 DEF Supplies
  <2> QED BY <1>1, <1>2, <2>1 DEF LastSupplied
<1>3. CASE ~Supplies(f, n + 1, name)
  <2>1. new = text
    BY <1>3 DEF Supplies
  <2>2. CASE text = Empty /\ \A j \in s .. n : ~Supplies(f, j, name)
    <3>1. \A j \in s .. n + 1 : ~Supplies(f, j, name)
      BY <1>1, <1>3, <2>2
    <3> QED BY <2>1, <2>2, <3>1 DEF LastSupplied
  <2>3. ASSUME NEW m \in s .. n, Supplies(f, m, name), text = f[m].text,
               \A j \in m + 1 .. n : ~Supplies(f, j, name)
        PROVE  LastSupplied(f, new, name, s, n + 1)
    <3>1. \A j \in m + 1 .. n + 1 : ~Supplies(f, j, name)
      BY <1>1, <1>3, <2>3
    <3>2. m \in s .. n + 1
      BY <1>1
    <3> QED BY <2>1, <2>3, <3>1, <3>2 DEF LastSupplied
  <2> QED BY <2>2, <2>3 DEF LastSupplied
<1> QED BY <1>2, <1>3

(***************************************************************************)
(* The steps by what they do to the tags.                                  *)
(***************************************************************************)
LeavesTags ==
  UNCHANGED <<feed, tags>> /\ pc' # "item" /\ (pc # "item" \/ tags = << >>)

TakesFeed == tags' = feed' /\ pc' # "item"

TakesTag ==
  /\ tags # << >> /\ tags' = Tail(tags) /\ feed' = feed
  /\ LET tag == Head(tags)
     IN  \/ /\ pc = "items" /\ tag.name = "item" /\ pc' = "item"
            /\ title' = Empty /\ target' = Empty
         \/ /\ pc = "items" /\ tag.name # "item" /\ pc' = "items"
         \/ /\ pc = "item" /\ tag.name # "/item" /\ pc' = "item"
            /\ title' = IF tag.name = "title" THEN ExtractElement(tag, title) ELSE title
            /\ target' = IF tag.name = "link" THEN ExtractElement(tag, target) ELSE target
         \/ /\ pc = "item" /\ tag.name = "/item" /\ pc' # "item"

LEMMA TagCases ==
  ASSUME NewsInv, Next
  PROVE  LeavesTags \/ TakesFeed \/ TakesTag
<1>1. CASE InitStopWords \/ (\E u \in FeedLine : NextFeed(u)) \/ EndOfFeeds \/ EndOfItems \/ Quit
  BY <1>1 DEF InitStopWords, NextFeed, EndOfFeeds, EndOfItems, Quit, feedVars, LeavesTags
<1>2. CASE ParseArticleFailed \/ ParseArticleMoved
  BY <1>2 DEF ParseArticleFailed, ParseArticleMoved, feedVars, LeavesTags
<1>3. CASE ProcessFeed
  <2>1. /\ pc = "feed" /\ target \in Url
        /\ Answer[target].code \in {"ok", "moved", "failed"}
    BY <1>3, AnswerFact DEF ProcessFeed, NewsInv, PlaceInv
  <2> QED BY <1>3, <2>1 DEF ProcessFeed, feedVars, LeavesTags, TakesFeed
<1>4. CASE GetNextItemTag
  BY <1>4 DEF GetNextItemTag, NoElementsYet, TakesTag
<1>5. CASE ProcessSingleNewsItem
  BY <1>5 DEF ProcessSingleNewsItem, TakesTag
<1>6. CASE EndOfItem
  BY <1>6 DEF EndOfItem, TakesTag, LeavesTags
<1>7. CASE Starts
  <2>1. \E u, t : ScanArticle(u, t)
    BY <1>7 DEF Starts, ProcessFeedFromFile, ParseArticle
  <2>2. pc' = "scan" /\ UNCHANGED <<feed, tags>> /\ pc \in {"feed", "article"}
    BY <1>7, <2>1 DEF Starts, ProcessFeedFromFile, ParseArticle, ScanArticle, feedVars
  <2> QED BY <2>2 DEF LeavesTags
<1>8. CASE ScanWord
  BY <1>8, ScanWordFact DEF LeavesTags
<1>9. CASE EndOfArticle
  BY <1>9 DEF EndOfArticle, feedVars, LeavesTags
<1>10. CASE Asks
  BY <1>10, AsksFact DEF LeavesTags
<1> QED
  BY <1>1, <1>2, <1>3, <1>4, <1>5, <1>6, <1>7, <1>8, <1>9, <1>10 DEF Next, Starts, Asks

LEMMA ItemStep == ItemInv /\ [Next]_vars => ItemInv'
<1> SUFFICES ASSUME ItemInv, [Next]_vars PROVE ItemInv'
  OBVIOUS
<1>1. NewsInv /\ NewsInv' /\ SuffixInv
  BY NewsStep DEF ItemInv
<1>2. CASE UNCHANGED vars
  BY <1>1, <1>2 DEF ItemInv, SuffixInv, TagsRead, vars
<1>3. CASE LeavesTags
  <2>1. SuffixInv' /\ TagsRead' = TagsRead /\ feed' = feed /\ tags' = tags
    BY <1>1, <1>3 DEF LeavesTags, SuffixInv, TagsRead
  <2> QED BY <1>1, <1>3, <2>1 DEF ItemInv, LeavesTags
<1>4. CASE TakesFeed
  <2>1. Len(feed') \in Nat
    BY <1>1, SeqFact DEF NewsInv, TypeOK
  <2>2. TagsRead' = 0 /\ SuffixInv'
    BY <1>4, <2>1 DEF TakesFeed, TagsRead, SuffixInv
  <2>3. AllClosed(feed', TagsRead')
    BY <2>2 DEF AllClosed
  <2> QED BY <1>1, <1>4, <2>2, <2>3 DEF ItemInv, TakesFeed
<1>5. CASE TakesTag
  <2> DEFINE n == TagsRead
             tag == Head(tags)
  <2>1. /\ SuffixInv' /\ TagsRead' = n + 1 /\ n \in Nat /\ tag = feed[n + 1]
        /\ feed' = feed /\ tags # << >>
    BY <1>1, <1>5, PopFact, FeedFact DEF TakesTag
  <2> HIDE DEF n
  <2>2. CASE pc = "items"
    <3>1. AllClosed(feed, n)
      BY <2>1, <2>2 DEF ItemInv, n
    <3>2. /\ tag.name = "item" => StartsAt(feed, n + 1, n + 1)
          /\ tag.name # "item" => AllClosed(feed, n + 1)
      BY <2>1, <3>1, OutsideFact
    <3>3. CASE tag.name = "item"
      <4>1. pc' = "item" /\ title' = Empty /\ target' = Empty
        BY <1>5, <2>2, <3>3 DEF TakesTag
      <4>2. \A i \in n + 1 .. n + 1 : i = n + 1
        BY <2>1
      <4>3. \A name \in {"title", "link"} : ~Supplies(feed, n + 1, name)
        BY <2>1, <3>3 DEF Supplies
      <4>4. /\ LastSupplied(feed, Empty, "title", n + 1, n + 1)
            /\ LastSupplied(feed, Empty, "link", n + 1, n + 1)
        BY <4>2, <4>3 DEF LastSupplied
      <4>5. WithinItem(feed, n + 1, Empty, Empty)
        <5>1. n + 1 \in 1 .. n + 1
          BY <2>1
        <5> QED BY <3>2, <3>3, <4>4, <5>1 DEF WithinItem
      <4> QED BY <1>1, <2>1, <4>1, <4>5 DEF ItemInv
    <3>4. CASE tag.name # "item"
      <4>1. pc' = "items"
        BY <1>5, <2>2, <3>4 DEF TakesTag
      <4> QED BY <1>1, <2>1, <3>2, <3>4, <4>1 DEF ItemInv
    <3> QED BY <3>3, <3>4
  <2>3. CASE pc = "item"
    <3>1. PICK s \in 1 .. n : /\ StartsAt(feed, s, n)
                              /\ LastSupplied(feed, title, "title", s, n)
                              /\ LastSupplied(feed, target, "link", s, n)
      BY <2>3 DEF ItemInv, WithinItem, n
    <3>2. /\ tag.name # "/item" => StartsAt(feed, s, n + 1)
          /\ tag.name = "/item" => AllClosed(feed, n + 1)
      BY <2>1, <3>1, WithinFact
    <3>3. CASE tag.name # "/item"
      <4>1. /\ pc' = "item"
            /\ title' = IF tag.name = "title" THEN ExtractElement(tag, title) ELSE title
            /\ target' = IF tag.name = "link" THEN ExtractElement(tag, target) ELSE target
        BY <1>5, <2>3, <3>3 DEF TakesTag
      <4>2. /\ title' = IF feed[n + 1].name = "title"
                        THEN IF feed[n + 1].closed THEN title ELSE feed[n + 1].text
                        ELSE title
            /\ target' = IF feed[n + 1].name = "link"
                         THEN IF feed[n + 1].closed THEN target ELSE feed[n + 1].text
                         ELSE target
        BY <2>1, <4>1 DEF ExtractElement
      <4>3. LastSupplied(feed, title', "title", s, n + 1)
        BY <2>1, <3>1, <4>2, SuppliedFact
      <4>4. LastSupplied(feed, target', "link", s, n + 1)
        BY <2>1, <3>1, <4>2, SuppliedFact
      <4>5. s \in 1 .. n + 1
        BY <2>1
      <4>6. WithinItem(feed, n + 1, title', target')
        BY <3>2, <3>3, <4>3, <4>4, <4>5 DEF WithinItem
      <4> QED BY <1>1, <2>1, <4>1, <4>6 DEF ItemInv
    <3>4. CASE tag.name = "/item"
      <4>1. pc' # "item"
        BY <1>5, <2>3, <3>4 DEF TakesTag
      <4> QED BY <1>1, <2>1, <3>2, <3>4, <4>1 DEF ItemInv
    <3> QED BY <3>3, <3>4
  <2> QED BY <1>5, <2>2, <2>3 DEF TakesTag
<1> QED BY <1>1, <1>2, <1>3, <1>4, <1>5, TagCases

(***************************************************************************)
(* When an item ends, the article looked up for it has what it supplied.   *)
(***************************************************************************)
LastOf(read, s, name) ==
  SelectLastInSubSeq(read, s, Len(read), LAMBDA tag : tag.name = name /\ ~tag.closed)

LEMMA LastFact ==
  ASSUME NEW f, NEW read, NEW n \in Nat, NEW s \in 1 .. n,
         \A i \in 1 .. n : read[i] = f[i], Len(read) = n,
         NEW text, NEW name, LastSupplied(f, text, name, s, n),
         NEW p, p = LastOf(read, s, name)
  PROVE  \/ p = 0 /\ text = Empty
         \/ p # 0 /\ text = read[p].text
<1> DEFINE T == {i \in s .. n : read[i].name = name /\ ~read[i].closed}
<1>1. p = IF T # {} THEN Max(T) ELSE 0
  BY DEF LastOf, SelectLastInSubSeq
<1>2. /\ \A i \in s .. n : i \in 1 .. n /\ read[i] = f[i]
      /\ T = {i \in s .. n : Supplies(f, i, name)}
  BY DEF Supplies
<1>3. CASE text = Empty /\ \A j \in s .. n : ~Supplies(f, j, name)
  BY <1>1, <1>2, <1>3
<1>4. ASSUME NEW m \in s .. n, Supplies(f, m, name), text = f[m].text,
             \A j \in m + 1 .. n : ~Supplies(f, j, name)
      PROVE  p # 0 /\ text = read[p].text
  <2>1. m \in T
    BY <1>2, <1>4
  <2>2. \A i \in T : i \in Nat /\ m >= i
    <3>1. ASSUME NEW i \in T, ~(m >= i) PROVE FALSE
      <4>1. i \in m + 1 .. n
        BY <1>2, <3>1
      <4> QED BY <1>2, <1>4, <4>1
    <3> QED BY <3>1
  <2> HIDE DEF T
  <2>3. Max(T) = m
    <3>1. \E x \in T : \A y \in T : x >= y
      BY <2>1, <2>2
    <3>2. Max(T) \in T /\ \A y \in T : Max(T) >= y
      BY <3>1 DEF Max
    <3>3. m >= Max(T) /\ Max(T) >= m /\ Max(T) \in Nat /\ m \in Nat
      BY <2>1, <2>2, <3>2
    <3> QED BY <3>3
  <2> QED BY <1>1, <1>2, <1>4, <2>1, <2>3
<1> QED BY <1>3, <1>4 DEF LastSupplied

LEMMA StartFact ==
  ASSUME NEW f, NEW n \in Nat, NEW s, StartsAt(f, s, n), NEW i, StartsAt(f, i, n)
  PROVE  i = s
<1>1. s \in 1 .. n /\ i \in 1 .. n /\ f[s].name = "item" /\ f[i].name = "item"
  BY DEF StartsAt
<1>2. ASSUME s < i PROVE FALSE
  <2>1. s \in 1 .. i - 1
    BY <1>1, <1>2
  <2>2. EndAfter(f, s, n)
    BY <1>1, <2>1 DEF StartsAt
  <2> QED BY <1>1, <2>2 DEF StartsAt, EndAfter
<1>3. ASSUME i < s PROVE FALSE
  <2>1. i \in 1 .. s - 1
    BY <1>1, <1>3
  <2>2. EndAfter(f, i, n)
    BY <1>1, <2>1 DEF StartsAt
  <2> QED BY <1>1, <2>2 DEF StartsAt, EndAfter
<1> QED BY <1>1, <1>2, <1>3

LEMMA ItemActs == ItemInv /\ [Next]_vars => [ItemRead]_vars
<1> SUFFICES ASSUME ItemInv, Next, pc = "item", pc' = "article" PROVE ItemRead
  BY DEF ItemRead
<1>1. target' = target /\ title' = title /\ target # Empty
  <2>1. EndOfItem
    <3>1. ~Starts /\ ~ScanWord /\ ~EndOfArticle /\ ~Asks
      BY AsksFact DEF ItemInv, Starts, ProcessFeedFromFile, ParseArticle, ScanWord, EndOfArticle
    <3>2. Moves
      BY <3>1, NextCases
    <3> QED
      BY <3>2 DEF Moves, InitStopWords, NextFeed, EndOfFeeds, ProcessFeed, GetNextItemTag,
           ProcessSingleNewsItem, EndOfItems, ParseArticleFailed, ParseArticleMoved, Quit
  <2> QED BY <2>1 DEF EndOfItem
<1> DEFINE n == Len(feed) - Len(tags)
           read == SubSeq(feed, 1, n)
<1>2. /\ n \in Nat /\ n <= Len(feed) /\ Len(feed) \in Nat /\ n = TagsRead
      /\ feed \in Seq(Tag)
  <2>1. NewsInv /\ SuffixInv
    BY DEF ItemInv
  <2> QED BY <2>1, FeedFact DEF TagsRead, NewsInv, TypeOK
<1>3. PICK s \in 1 .. n : /\ StartsAt(feed, s, n)
                          /\ LastSupplied(feed, title, "title", s, n)
                          /\ LastSupplied(feed, target, "link", s, n)
  BY <1>2 DEF ItemInv, WithinItem
<1> HIDE DEF n
<1>4. /\ DOMAIN read = 1 .. n /\ Len(read) = n
      /\ \A i \in 1 .. n : read[i] = feed[i]
  BY <1>2
<1> HIDE DEF read
<1> DEFINE ends == {i \in DOMAIN read : read[i].name = "/item"}
           Is(i) == /\ read[i].name = "item"
                    /\ \A j \in ends : j < i
                    /\ \A j \in 1 .. i - 1 :
                         read[j].name = "item" => \E k \in ends : j < k
           start == CHOOSE i \in DOMAIN read : Is(i)
           last(name) == SelectLastInSubSeq(read, start, Len(read),
                           LAMBDA tag : tag.name = name /\ ~tag.closed)
<1>5. \A i \in 1 .. n : Is(i) <=> StartsAt(feed, i, n)
  <2>1. \A j : (\E k \in ends : j < k) <=> EndAfter(feed, j, n)
    BY <1>4 DEF EndAfter
  <2>2. \A i \in 1 .. n : \A j \in 1 .. i - 1 : j \in 1 .. n
    BY <1>2
  <2>3. \A i : (\A j \in ends : j < i) <=> \A e \in 1 .. n : feed[e].name = "/item" => e < i
    BY <1>4
  <2> HIDE DEF ends
  <2> QED BY <1>4, <2>1, <2>2, <2>3 DEF StartsAt
<1>6. start = s
  <2> HIDE DEF Is
  <2>1. \A i \in DOMAIN read : Is(i) <=> i = s
    BY <1>2, <1>3, <1>4, <1>5, StartFact
  <2> QED BY <1>3, <1>4, <2>1
<1> HIDE DEF start
<1>7. PICK p : p = last("link")
  OBVIOUS
<1>8. PICK q : q = last("title")
  OBVIOUS
<1>9. p # 0 /\ target = read[p].text
  <2>1. p = LastOf(read, s, "link")
    BY <1>6, <1>7 DEF LastOf
  <2> HIDE DEF Is, last, ends
  <2>2. \/ p = 0 /\ target = Empty
        \/ p # 0 /\ target = read[p].text
    BY <1>2, <1>3, <1>4, <2>1, LastFact
  <2> QED BY <1>1, <2>2
<1>10. title = IF q = 0 THEN Empty ELSE read[q].text
  <2>1. q = LastOf(read, s, "title")
    BY <1>6, <1>8 DEF LastOf
  <2> HIDE DEF Is, last, ends
  <2>2. \/ q = 0 /\ title = Empty
        \/ q # 0 /\ title = read[q].text
    BY <1>2, <1>3, <1>4, <2>1, LastFact
  <2> QED BY <2>2
<1> HIDE DEF last
<1>11. /\ last("link") # 0 /\ target' = read[last("link")].text
       /\ title' = IF last("title") = 0 THEN Empty ELSE read[last("title")].text
  BY <1>1, <1>7, <1>8, <1>9, <1>10
<1> QED BY <1>11 DEF ItemRead, last, start, ends, read, n

(***************************************************************************)
(* Whatever the order of an item's tags, and whether or not its end tag is *)
(* there: the article looked up for it has the title and the link that the *)
(* last such tags of this item supply.                                     *)
(***************************************************************************)
THEOREM ItemsRight == Spec => ItemsRead
<1>1. Init => ItemInv
  <2>1. ASSUME Init PROVE SuffixInv /\ pc # "item" /\ tags = << >>
    BY <2>1 DEF Init, SuffixInv
  <2> QED BY <2>1, NewsInit DEF ItemInv
<1>2. Spec => []ItemInv
  BY <1>1, ItemStep, PTL DEF Spec
<1> QED BY <1>2, ItemActs, PTL DEF Spec, ItemsRead
=============================================================================
