--------------------------- MODULE MCListPrograms ---------------------------
(***************************************************************************)
(* Small inputs for each of the list programs.                             *)
(***************************************************************************)
EXTENDS ListPrograms

Sequences(S, from, to) == UNION {[1 .. n -> S] : n \in from .. to}

(***************************************************************************)
(* For the memo, every pair of short strands twice over; for the choice    *)
(* between the alternatives, longer ones with a third base.                *)
(***************************************************************************)
MCStrand == Sequences({"A", "T"}, 1, 3) \cup {<<"T", "A", "T", "A">>, <<"A", "T", "G", "A">>}

MCLongStrand == Sequences({"A", "T", "G"}, 3, 4)

(***************************************************************************)
(* Points on and off a line, some at equal distances.                      *)
(***************************************************************************)
MCPointList == Sequences({<<0, 0>>, <<1, 0>>, <<3, 0>>, <<1, 2>>}, 0, 5)

MCDistances == Sequences({2, 5}, 0, 3)

MCStars == Sequences({<<0, 0>>, <<4, 6>>, <<7, 4>>}, 0, 4)

Def(id, lines) == [nonterminal |-> id, lines |-> lines]

(***************************************************************************)
(* A recursive grammar, one with an undefined nonterminal that half of the *)
(* choices meet, and one that defines a nonterminal twice.                 *)
(***************************************************************************)
MCFile ==
  { << Def("<start>", << <<"<a>", "x", "<b>", ";">> >>),
       Def("<a>", << <<"y", ";">>, <<";", "rest", "of", "line">> >>),
       Def("<b>", << <<"<a>", "<b>", ";">>, <<"z", ";">> >>) >>,
    << Def("<start>", << <<"x", "<a>", ";">>, <<"<b>", ";">> >>),
       Def("<a>", << <<"y", "<oops>", "z", ";">>, <<"<b>", ";">> >>),
       Def("<b>", << <<"z", ";">> >>) >>,
    << Def("<a>", << <<"<start>", ";">> >>),
       Def("<start>", << <<"<a>", "<a>", ";">>, <<"x", ";">> >>),
       Def("<a>", << <<"y", ";">>, <<"z", ";">> >>) >> }

MCText == Sequences({"a", "b", ",", "!"}, 0, 6)

(***************************************************************************)
(* Lines with and without a name, empty lines before them, blanks, URLs    *)
(* with colons and one that fills the buffer.                              *)
(***************************************************************************)
MCFeedsFile ==
  LET Line(ends) == [name : {<< >>, <<"a">>, <<"!", "a", " ">>}, blanks : 0 .. 2,
                     url : {<<"a">>, <<"a", ":">>, <<"b", ":", "a">>}, end : ends]
  IN  {<< >>} \cup {<<l>> : l \in Line({<< >>, <<"!">>})}
        \cup {<<k, l>> : k \in Line({<<"!">>, <<",", "!">>}), l \in Line({<< >>, <<"!">>})}
=============================================================================
