---------------------------- MODULE MCThesaurus -----------------------------
(***************************************************************************)
(* Strings of the letters a and b, with a capital A that StringHash takes  *)
(* for an a.                                                               *)
(***************************************************************************)
EXTENDS Thesaurus

MCCharacter == {"a", "A", "b", Comma, NewLine}

MCString == UNION {[1 .. n -> {"a", "A", "b"}] : n \in 1 .. 2}

MCKey == MCString \cup {<<Comma>>, <<NewLine>>}

Lower(c) == IF c = "A" THEN "a" ELSE c

MCHash == [k \in MCKey |->
             IF [i \in 1 .. Len(k) |-> Lower(k[i])] \in {<<"a">>, <<"a", "b">>} THEN 0 ELSE 1]

a == <<"a">>
A == <<"A">>
ab == <<"a", "b">>
b == <<"b">>

(***************************************************************************)
(* Lines without synonyms, with one and with more than the vector holds at *)
(* first; the last two have an empty synonym, and a word longer than the   *)
(* buffer.                                                                 *)
(***************************************************************************)
MCLine == { <<a>>, <<a, b>>, <<A, ab>>, <<ab, a, b, A>>, <<a, ab, << >> >>,
            <<b, <<"b", "a", "b", "a", "b">>, a>> }

MCSource == UNION {[1 .. n -> MCLine] : n \in 1 .. 3}

MCTyped == {<< >>, a, A, ab}
=============================================================================
