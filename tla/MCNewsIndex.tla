---------------------------- MODULE MCNewsIndex ----------------------------
(***************************************************************************)
(* Two feeds, one reached by a redirection, and a file; five articles, one *)
(* under two addresses and in both feeds, one that cannot be had, an item  *)
(* without a link, one without a title, titles and links in both orders, a *)
(* tag closed at once, and an end tag that is missing.  "x" occurs in more *)
(* articles than an answer lists.                                          *)
(***************************************************************************)
EXTENDS NewsIndex

MCTag(n) == << [name |-> n] >>

MCTitle(t) == << [name |-> "title", text |-> t, closed |-> FALSE] >>

MCLink(u) == << [name |-> "link", text |-> u, closed |-> FALSE] >>

MCClosed(n) == << [name |-> n, text |-> Empty, closed |-> TRUE] >>

MCItem(elements) == MCTag("item") \o elements \o MCTag("/item")

MCPage(ws) == [code |-> "ok", words |-> ws, tags |-> << >>]

MCFeed(ts) == [code |-> "ok", words |-> << >>, tags |-> ts]

MCMoved(u) == [code |-> "moved", newUrl |-> u]

MCAnswer ==
  [u \in Url |->
     CASE u = "feed1" -> MCFeed(MCTag("other") \o MCTitle("t3")
                                  \o MCItem(MCTitle("t1") \o MCLink("a"))
                                  \o MCItem(MCTitle("t2") \o MCClosed("link"))
                                  \o MCItem(MCLink("b") \o MCClosed("title"))
                                  \o MCItem(MCTitle("t3") \o MCLink("gone")))
       [] u = "feed2" -> MCFeed(MCItem(MCTitle("t3") \o MCTag("other") \o MCLink("oldA"))
                                  \o MCTag("item") \o MCTitle("t2") \o MCLink("b")
                                  \o MCTag("item") \o MCTitle("t1") \o MCLink("c"))
       [] u = "oldFeed" -> MCMoved("feed2")
       [] u = "oldA" -> MCMoved("a")
       [] u = "gone" -> [code |-> "failed"]
       [] u = "a" -> MCPage(<< "x", "y", "a", "x" >>)
       [] u = "b" -> MCPage(<< "y", "x" >>)
       [] u = "c" -> MCPage(<< "x", "4x", "x", "x" >>)
       [] u = "file" -> MCPage(<< "x", "y" >>)]

MCUrl == {"feed1", "feed2", "oldFeed", "oldA", "gone", "a", "b", "c", "file"}

MCFileTitle == [u \in FileUrl |-> "file"]

(***************************************************************************)
(* "yx" becomes "y", every other word is too short to become one of these. *)
(***************************************************************************)
MCShorter == [w \in Word |-> CASE w = "yx" -> "y" [] w = "4x" -> "4" [] OTHER -> Empty]

(***************************************************************************)
(* What comes before the first slash: http: everywhere but in the file's   *)
(* name.                                                                   *)
(***************************************************************************)
MCPrefix == [u \in Url |-> IF u = "file" THEN "data" ELSE "http:"]

(***************************************************************************)
(* A bucket for each URL, and one bucket for all.                          *)
(***************************************************************************)
MCSeparating == [u \in Url |-> CASE u = "feed1" -> 0 [] u = "feed2" -> 1
                                 [] u = "oldFeed" -> 2 [] u = "oldA" -> 3
                                 [] u = "gone" -> 4 [] u = "a" -> 5
                                 [] u = "b" -> 6 [] u = "c" -> 7 [] OTHER -> 8]

MCColliding == [u \in Url |-> 0]
=============================================================================
