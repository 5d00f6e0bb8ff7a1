----------------------------- MODULE NewsIndex -----------------------------
(***************************************************************************)
(* The news search of src/ass4 (rss-news-search.c): it follows the feeds   *)
(* of a list, enters every article it reaches into a hash set, counts the  *)
(* article's words in an index that points into that set, and then answers *)
(* queries.                                                                *)
(***************************************************************************)
EXTENDS Integers, FiniteSets, SequencesExt

CONSTANTS Url, Title, Word,
          FileUrl,        \* URLs that start with file://
          Empty,          \* the empty string
          Answer,         \* what the server, or the file system, has at a URL
          FeedLine,       \* URLs a line of the feeds file may name
          FileTitle,      \* the title of a file's article: its name
          Prefix,         \* what precedes the first slash of a URL, or Empty
          StopWord,       \* the words of data/stop-words.txt
          WellFormed,     \* words WordIsWellFormed accepts
          Shorter,        \* a word without its last character
          NumBuckets,     \* kApproximateArticleCount
          Hash,           \* Hash[u]: hash code of URL u
          MaxFeeds,       \* lines of the feeds file
          MaxQueries,     \* queries of the user
          MaxResponses    \* articles listed in answer to a query, 10

(***************************************************************************)
(* The tags of a feed.  A title or a link has a text, unless the tag is    *)
(* closed at once by a slash; the end tag that follows a text is not one   *)
(* of them, since ExtractElement skips it.                                 *)
(***************************************************************************)
Tag == [name : {"item", "/item", "other"}]
         \cup [name : {"title"}, text : Title \cup {Empty}, closed : BOOLEAN]
         \cup [name : {"link"}, text : Url \cup {Empty}, closed : BOOLEAN]

(***************************************************************************)
(* A response code 200 comes with a document, which has words if it is     *)
(* read as an article and tags if it is read as a feed; 301 and 302 come   *)
(* with another URL; 0 and the others with nothing.                        *)
(***************************************************************************)
Response == [code : {"ok"}, words : Seq(Word), tags : Seq(Tag)]
              \cup [code : {"moved"}, newUrl : Url] \cup [code : {"failed"}]

ASSUME NewsAssumption ==
  /\ FileUrl \subseteq Url /\ Empty \notin Url \cup Title \cup Word /\ FeedLine \subseteq Url
  /\ StopWord \subseteq Word /\ WellFormed \subseteq Word
  /\ \A u \in Url : Answer[u] \in Response
  /\ \A u \in FileUrl : Answer[u].code = "ok"
  /\ FileTitle \in [FileUrl -> Title]
  /\ Shorter \in [Word -> Word \cup {Empty}]
  /\ NumBuckets \in Nat \ {0} /\ Hash \in [Url -> 0 .. NumBuckets - 1]
  /\ MaxFeeds \in Nat /\ MaxQueries \in Nat /\ MaxResponses \in Nat \ {0}

Bucket == 0 .. NumBuckets - 1

Article == [url : Url, title : Title \cup {Empty}]

VARIABLES stopWords,  \* the set of words too common to be indexed
          articles,   \* setOfArticles: the block and the elements of a bucket
          index,      \* mapOfWords: articleInfos of each word, empty if it has no pair
          pc,         \* which function runs
          feedsRead,  \* lines of the feeds file read
          feed,       \* history: the tags of the current feed
          tags,       \* those still to come
          target,     \* the URL to connect to, or connected to
          title,      \* articleTitle
          words,      \* words of the article still to be scanned
          currentArticle,  \* pointer into setOfArticles
          scans,      \* history: how often each URL's article has been scanned
          queries,    \* lines read from the user
          response    \* the last answer

vars == <<stopWords, articles, index, pc, feedsRead, feed, tags, target, title, words,
          currentArticle, scans, queries, response>>

indexVars == <<stopWords, articles, index>>

feedVars == <<feed, tags>>

articleVars == <<words, currentArticle, scans>>

queryVars == <<queries, response>>

Null == [bucket |-> 0, block |-> 0, pos |-> 0]

Init ==
  /\ stopWords = {}
  /\ articles = [b \in Bucket |-> [block |-> 0, elems |-> << >>]]
  /\ index = [w \in Word |-> << >>]
  /\ pc = "start"
  /\ feedsRead = 0
  /\ feed = << >> /\ tags = << >>
  /\ target = Empty /\ title = Empty
  /\ words = << >>
  /\ currentArticle = Null
  /\ scans = [u \in Url |-> 0]
  /\ queries = 0
  /\ response = [word |-> Empty, kind |-> "notAsked", list |-> << >>]
-----------------------------------------------------------------------------
(***************************************************************************)
(* articleCompare: equal URLs, or equal titles and URLs that agree up to   *)
(* and including their first slash.                                        *)
(***************************************************************************)
SameArticle(a, b) ==
  \/ a.url = b.url
  \/ a.title = b.title /\ Prefix[a.url] = Prefix[b.url] /\ Prefix[a.url] # Empty

(***************************************************************************)
(* A pointer is valid while the bucket has not been moved by realloc since *)
(* it was taken.  Through any other one the program reads freed memory:    *)
(* junk stands for what it finds there.                                    *)
(***************************************************************************)
IsValid(p) == articles[p.bucket].block = p.block

Read(p, junk) == IF IsValid(p) THEN articles[p.bucket].elems[p.pos] ELSE junk

(***************************************************************************)
(* HashSetEnter and HashSetLookup of the article set.  Appending to a      *)
(* bucket may move its elements, if it has any.                            *)
(***************************************************************************)
Entered(bucket, a, moves) ==
  LET p == SelectInSeq(bucket.elems, LAMBDA e : SameArticle(a, e))
  IN  IF p # 0 THEN [bucket EXCEPT !.elems[p] = a]
      ELSE [block |-> IF moves /\ bucket.elems # << >> THEN bucket.block + 1
                                                       ELSE bucket.block,
            elems |-> Append(bucket.elems, a)]

Lookup(set, a) ==
  LET b == Hash[a.url]
  IN  [bucket |-> b, block |-> set[b].block,
       pos |-> SelectInSeq(set[b].elems, LAMBDA e : SameArticle(a, e))]

(***************************************************************************)
(* ScanArticle up to its loop, for the document at URL u.                  *)
(***************************************************************************)
ScanArticle(u, t) ==
  LET a == [url |-> u, title |-> t]
  IN  /\ \E moves \in BOOLEAN :
           articles' = [articles EXCEPT ![Hash[u]] = Entered(@, a, moves)]
      /\ currentArticle' = Lookup(articles', a)
      /\ words' = Answer[u].words
      /\ target' = u
      /\ pc' = "scan"
      /\ UNCHANGED <<stopWords, index, scans, queryVars>>

(***************************************************************************)
(* main: the stop words are read before anything else.                     *)
(***************************************************************************)
InitStopWords ==
  /\ pc = "start"
  /\ stopWords' = StopWord
  /\ pc' = "feeds"
  /\ UNCHANGED <<articles, index, feedsRead, feedVars, target, title, articleVars,
                 queryVars>>

(***************************************************************************)
(* BuildIndices: a line of the feeds file names URL u.                     *)
(***************************************************************************)
NextFeed(u) ==
  /\ pc = "feeds" /\ feedsRead < MaxFeeds
  /\ feedsRead' = feedsRead + 1
  /\ target' = u
  /\ pc' = "feed"
  /\ UNCHANGED <<indexVars, feedVars, title, articleVars, queryVars>>

EndOfFeeds ==
  /\ pc = "feeds" /\ feedsRead = MaxFeeds
  /\ pc' = "query"
  /\ UNCHANGED <<indexVars, feedsRead, feedVars, target, title, articleVars, queryVars>>

(***************************************************************************)
(* ProcessFeed: a file is an article of its own; a document that moved is  *)
(* followed.                                                               *)
(***************************************************************************)
ProcessFeedFromFile ==
  /\ pc = "feed" /\ target \in FileUrl
  /\ title' = FileTitle[target]
  /\ ScanArticle(target, title')
  /\ UNCHANGED <<feedsRead, feedVars>>

ProcessFeed ==
  /\ pc = "feed" /\ target \notin FileUrl
  /\ CASE Answer[target].code = "ok" ->
            /\ feed' = Answer[target].tags
            /\ tags' = feed'
            /\ pc' = "items"
            /\ UNCHANGED target
       [] Answer[target].code = "moved" ->
            /\ target' = Answer[target].newUrl
            /\ UNCHANGED <<pc, feedVars>>
       [] Answer[target].code = "failed" ->
            /\ pc' = "feeds"
            /\ UNCHANGED <<target, feedVars>>
  /\ UNCHANGED <<indexVars, feedsRead, title, articleVars, queryVars>>

(***************************************************************************)
(* GetNextItemTag passes over the tags before an item; ProcessSingleNews-  *)
(* Item starts with an empty title and link.                               *)
(***************************************************************************)
NoLinkYet ==   \* mutant: the title is not emptied
  target' = Empty /\ UNCHANGED title

NoElementsYet == title' = Empty /\ target' = Empty

GetNextItemTag ==
  /\ pc = "items" /\ tags # << >>
  /\ tags' = Tail(tags)
  /\ IF Head(tags).name = "item" THEN NoElementsYet /\ pc' = "item"
                                 ELSE UNCHANGED <<pc, target, title>>
  /\ UNCHANGED <<indexVars, feedsRead, feed, articleVars, queryVars>>

(***************************************************************************)
(* PullAllNewsItems returns, and so does ProcessFeed.                      *)
(***************************************************************************)
EndOfItems ==
  /\ pc = "items" /\ tags = << >>
  /\ pc' = "feeds"
  /\ UNCHANGED <<indexVars, feedsRead, feedVars, target, title, articleVars, queryVars>>

(***************************************************************************)
(* A tag of an item.  A description is read as well, but nothing uses it.  *)
(***************************************************************************)
ExtractElement(tag, dataBuffer) == IF tag.closed THEN dataBuffer ELSE tag.text

ProcessSingleNewsItem ==
  LET tag == Head(tags)
  IN  /\ pc = "item" /\ tags # << >> /\ tag.name # "/item"
      /\ tags' = Tail(tags)
      /\ title' = IF tag.name = "title" THEN ExtractElement(tag, title) ELSE title
      /\ target' = IF tag.name = "link" THEN ExtractElement(tag, target) ELSE target
      /\ UNCHANGED <<indexVars, pc, feedsRead, feed, articleVars, queryVars>>

(***************************************************************************)
(* The item ends with its end tag or with the feed; without a link it is   *)
(* passed over.                                                            *)
(***************************************************************************)
EndOfItem ==
  /\ pc = "item"
  /\ \/ tags = << >> /\ UNCHANGED tags
     \/ tags # << >> /\ Head(tags).name = "/item" /\ tags' = Tail(tags)
  /\ pc' = IF target = Empty THEN "items" ELSE "article"
  /\ UNCHANGED <<indexVars, feedsRead, feed, target, title, articleVars, queryVars>>

(***************************************************************************)
(* ParseArticle, by the response code.                                     *)
(***************************************************************************)
ParseArticleFailed ==
  /\ pc = "article" /\ Answer[target].code = "failed"
  /\ pc' = "items"
  /\ UNCHANGED <<indexVars, feedsRead, feedVars, target, title, articleVars, queryVars>>

ParseArticleMovedAgain ==   \* mutant: the redirected call is made with the old URL
  /\ pc = "article" /\ Answer[target].code = "moved"
  /\ UNCHANGED vars

ParseArticleMoved ==
  /\ pc = "article" /\ Answer[target].code = "moved"
  /\ target' = Answer[target].newUrl
  /\ UNCHANGED <<indexVars, pc, feedsRead, feedVars, title, articleVars, queryVars>>

ParseArticle ==
  /\ pc = "article" /\ Answer[target].code = "ok"
  /\ ScanArticle(target, title)
  /\ UNCHANGED <<feedsRead, feedVars, title>>
-----------------------------------------------------------------------------
(***************************************************************************)
(* The loop of ScanArticle: a word that may be indexed is counted in the   *)
(* first of its articleInfos whose article has this article's URL, or in a *)
(* new one.                                                                *)
(***************************************************************************)
FoundArticleFromSecond(infos, url, junk) ==   \* mutant: VectorSearch starts at 1
  SelectInSubSeq(infos, 2, Len(infos), LAMBDA i : Read(i.artPointer, junk).url = url)

FoundArticle(infos, url, junk) ==
  SelectInSeq(infos, LAMBDA i : Read(i.artPointer, junk).url = url)

Counted(infos, p) ==
  IF p = 0 THEN Append(infos, [artPointer |-> currentArticle, numOccurances |-> 1])
  ELSE [infos EXCEPT ![p].numOccurances = @ + 1]

ScanWord ==
  LET w == Head(words)
  IN  /\ pc = "scan" /\ words # << >>
      /\ words' = Tail(words)
      /\ IF w \notin WellFormed \/ w \in stopWords THEN UNCHANGED index
         ELSE \E junk \in Article :
                index' = [index EXCEPT ![w] = Counted(@, FoundArticle(@, target, junk))]
      /\ UNCHANGED <<stopWords, articles, pc, feedsRead, feedVars, target, title,
                     currentArticle, scans, queryVars>>

(***************************************************************************)
(* ScanArticle returns: to the feed's next item, of which a file has none. *)
(***************************************************************************)
EndOfArticle ==
  /\ pc = "scan" /\ words = << >>
  /\ scans' = [scans EXCEPT ![target] = @ + 1]
  /\ currentArticle' = Null
  /\ pc' = "items"
  /\ UNCHANGED <<indexVars, feedsRead, feedVars, target, title, words, queryVars>>
-----------------------------------------------------------------------------
(***************************************************************************)
(* VectorSort with occuranceCompare: the orders qsort may leave.           *)
(***************************************************************************)
SortsAscending(infos) ==   \* mutant: occuranceCompare the other way round
  {s \in SetToSeqs({<<i, infos[i]>> : i \in DOMAIN infos}) :
     \A i, j \in DOMAIN infos :
       i < j => s[i][2].numOccurances <= s[j][2].numOccurances}

Sorts(infos) ==
  {s \in SetToSeqs({<<i, infos[i]>> : i \in DOMAIN infos}) :
     \A i, j \in DOMAIN infos :
       i < j => s[i][2].numOccurances >= s[j][2].numOccurances}

ListedOneMore(infos, junk) ==   \* mutant: the loop runs one article too far
  [i \in 1 .. IF Len(infos) <= MaxResponses THEN Len(infos) ELSE MaxResponses + 1 |->
     [article |-> Read(infos[i].artPointer, junk),
      numOccurances |-> infos[i].numOccurances]]

Listed(infos, junk) ==
  [i \in 1 .. IF Len(infos) <= MaxResponses THEN Len(infos) ELSE MaxResponses |->
     [article |-> Read(infos[i].artPointer, junk),
      numOccurances |-> infos[i].numOccurances]]

Says(w, kind, list) == [word |-> w, kind |-> kind, list |-> list]

(***************************************************************************)
(* ProcessResponse.                                                        *)
(***************************************************************************)
ProcessResponse(w) ==
  CASE w \notin WellFormed ->
         response' = Says(w, "notAllowed", << >>) /\ UNCHANGED index
    [] w \in WellFormed \cap stopWords ->
         response' = Says(w, "tooCommon", << >>) /\ UNCHANGED index
    [] w \in WellFormed \ stopWords /\ index[w] = << >> ->
         response' = Says(w, "none", << >>) /\ UNCHANGED index
    [] w \in WellFormed \ stopWords /\ index[w] # << >> ->
         \E s \in Sorts(index[w]), junk \in Article :
           /\ index' = [index EXCEPT ![w] = [i \in DOMAIN s |-> s[i][2]]]
           /\ response' = Says(w, "found", Listed(index'[w], junk))

(***************************************************************************)
(* QueryIndices: the user enters a word, or an empty line, which ends the  *)
(* program.                                                                *)
(***************************************************************************)
Query(w) ==
  /\ pc = "query" /\ queries < MaxQueries
  /\ queries' = queries + 1
  /\ ProcessResponse(w)
  /\ UNCHANGED <<stopWords, articles, pc, feedsRead, feedVars, target, title, articleVars>>

Quit ==
  /\ pc = "query" /\ queries < MaxQueries
  /\ pc' = "done"
  /\ UNCHANGED <<indexVars, feedsRead, feedVars, target, title, articleVars, queryVars>>

(***************************************************************************)
(* At the end of the input fgets leaves the response as it was, and its    *)
(* last character is cut off as if it were the newline; a response never   *)
(* read is not initialized.                                                *)
(***************************************************************************)
ResponseAtEnd ==
  IF response.word = Empty THEN Word \cup {Empty} ELSE {Shorter[response.word]}

QueryAtEnd ==
  /\ pc = "query"
  /\ queries' = MaxQueries
  /\ \E w \in ResponseAtEnd :
       IF w = Empty THEN pc' = "done" /\ UNCHANGED <<index, response>>
                    ELSE ProcessResponse(w) /\ UNCHANGED pc
  /\ UNCHANGED <<stopWords, articles, feedsRead, feedVars, target, title, articleVars>>

Next ==
  \/ InitStopWords
  \/ \E u \in FeedLine : NextFeed(u)
  \/ EndOfFeeds
  \/ ProcessFeedFromFile
  \/ ProcessFeed
  \/ GetNextItemTag
  \/ ProcessSingleNewsItem
  \/ EndOfItem
  \/ EndOfItems
  \/ ParseArticleFailed
  \/ ParseArticleMoved
  \/ ParseArticle
  \/ ScanWord
  \/ EndOfArticle
  \/ \E w \in Word : Query(w)
  \/ Quit
  \/ QueryAtEnd

Spec == Init /\ [][Next]_vars

FairSpec == Spec /\ WF_vars(Next)
-----------------------------------------------------------------------------
PC == {"start", "feeds", "feed", "items", "item", "article", "scan", "query", "done"}

Pointer == [bucket : Bucket, block : Nat, pos : Nat]

ArticleInfo == [artPointer : Pointer, numOccurances : Nat]

(***************************************************************************)
(* Type invariant; an answer lists at most MaxResponses articles.          *)
(***************************************************************************)
TypeOK ==
  /\ stopWords \subseteq Word
  /\ articles \in [Bucket -> [block : Nat, elems : Seq(Article)]]
  /\ index \in [Word -> Seq(ArticleInfo)]
  /\ pc \in PC
  /\ feedsRead \in 0 .. MaxFeeds
  /\ feed \in Seq(Tag) /\ tags \in Seq(Tag)
  /\ target \in Url \cup {Empty} /\ title \in Title \cup {Empty}
  /\ words \in Seq(Word)
  /\ currentArticle \in Pointer
  /\ scans \in [Url -> Nat]
  /\ queries \in 0 .. MaxQueries
  /\ response.word \in Word \cup {Empty}
  /\ response.list \in Seq([article : Article, numOccurances : Nat])
  /\ Len(response.list) <= MaxResponses

(***************************************************************************)
(* The articleInfos of word w that point to an article with URL u, and how *)
(* often the document at u has the word.                                   *)
(***************************************************************************)
InfosOf(w, u) ==
  {i \in DOMAIN index[w] :
     /\ IsValid(index[w][i].artPointer)
     /\ articles[index[w][i].artPointer.bucket].elems[index[w][i].artPointer.pos].url = u}

Occurrences(w, u) ==
  IF Answer[u].code # "ok" \/ w \notin WellFormed \/ w \in StopWord THEN 0
  ELSE Cardinality({i \in DOMAIN Answer[u].words : Answer[u].words[i] = w})

(***************************************************************************)
(* With a hash function that separates the URLs, whatever feeds, files and *)
(* redirections led to the articles: between two articles the index has    *)
(* one entry for each word and URL whose document was scanned and has the  *)
(* word, with the number of its occurrences, once for every scan, and no   *)
(* other.                                                                  *)
(***************************************************************************)
IndexFaithful ==
  pc # "scan" =>
    /\ \A w \in Word, u \in Url :
         LET expected == scans[u] * Occurrences(w, u)
         IN  IF expected = 0 THEN InfosOf(w, u) = {}
             ELSE /\ Cardinality(InfosOf(w, u)) = 1
                  /\ \A i \in InfosOf(w, u) : index[w][i].numOccurances = expected
    /\ \A w \in Word : DOMAIN index[w] = UNION {InfosOf(w, u) : u \in Url}

(***************************************************************************)
(* An answer lists articles that have the word, the most frequent first,   *)
(* none twice, and leaves out none that has it more often than one listed; *)
(* the word is refused only if it is a stop word or ill-formed, and not    *)
(* found only if no scanned article has it.                                *)
(***************************************************************************)
AnswersRank ==
  LET list == response.list
      count(u) == scans[u] * Occurrences(response.word, u)
      urls == {list[i].article.url : i \in DOMAIN list}
  IN  CASE response.kind = "found" ->
             /\ list # << >>
             /\ \A i \in DOMAIN list : list[i].numOccurances = count(list[i].article.url)
             /\ \A i, j \in DOMAIN list :
                  i < j => /\ list[i].numOccurances >= list[j].numOccurances
                           /\ list[i].article.url # list[j].article.url
             /\ \A u \in Url \ urls : count(u) <= list[Len(list)].numOccurances
             /\ Len(list) < MaxResponses => \A u \in Url \ urls : count(u) = 0
        [] response.kind = "none" -> \A u \in Url : count(u) = 0
        [] OTHER -> list = << >>

(***************************************************************************)
(* The index only points to where articles still are.  vector.h warns that *)
(* a pointer into a vector becomes invalid when an element is inserted.    *)
(***************************************************************************)
PointersValid ==
  \A w \in Word : \A i \in DOMAIN index[w] : IsValid(index[w][i].artPointer)

(***************************************************************************)
(* Whatever the order of an item's tags, and whether or not its end tag is *)
(* there: the article looked up for it has the title and the link that the *)
(* last such tags of this item supply, and the title is empty if the item  *)
(* supplies none.                                                          *)
(***************************************************************************)
ItemRead ==
  pc = "item" /\ pc' = "article" =>
    LET read == SubSeq(feed, 1, Len(feed) - Len(tags))
        ends == {i \in DOMAIN read : read[i].name = "/item"}
        start == CHOOSE i \in DOMAIN read :
                   /\ read[i].name = "item"
                   /\ \A j \in ends : j < i
                   /\ \A j \in 1 .. i - 1 :
                        read[j].name = "item" => \E k \in ends : j < k
        last(name) == SelectLastInSubSeq(read, start, Len(read),
                        LAMBDA tag : tag.name = name /\ ~tag.closed)
    IN  /\ last("link") # 0 /\ target' = read[last("link")].text
        /\ title' = IF last("title") = 0 THEN Empty ELSE read[last("title")].text

ItemsRead == [][ItemRead]_vars

(***************************************************************************)
(* If no redirections lead back to themselves, every feed is read to its   *)
(* end, and the program ends even if its user just stops typing.           *)
(***************************************************************************)
ProgramEnds == <>(pc = "done")
=============================================================================
