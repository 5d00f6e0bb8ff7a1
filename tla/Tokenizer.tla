------------------------------ MODULE Tokenizer ------------------------------
(***************************************************************************)
(* The stream tokenizer of src/ass3 (streamtokenizer.c).  A tokenizer is   *)
(* the text of its file, how many characters have been read of it, and the *)
(* client's buffer: st.text, st.pos and st.buffer.                         *)
(***************************************************************************)
EXTENDS Integers, Sequences, FiniteSetsExt

CONSTANTS EOF,
          BufferLength   \* bufferLength, which counts the final null character

ASSUME TokenizerAssumption == BufferLength \in Nat /\ BufferLength >= 2

STNew(text) == [text |-> text, pos |-> 0, buffer |-> << >>]

AtEnd(st) == st.pos = Len(st.text)

(***************************************************************************)
(* The position before the first character from st.pos on that is in       *)
(* stopSet, or the end of the file.                                        *)
(***************************************************************************)
NextStop(st, stopSet) ==
  Min({Len(st.text)} \cup {i \in st.pos .. Len(st.text) - 1 : st.text[i + 1] \in stopSet})

Characters(st) == {st.text[i] : i \in 1 .. Len(st.text)}

STSkipUntil(st, skipUntilSet) == [st EXCEPT !.pos = NextStop(st, skipUntilSet)]

STSkipOver(st, skipSet) == [st EXCEPT !.pos = NextStop(st, Characters(st) \ skipSet)]

(***************************************************************************)
(* What STSkipUntil and STSkipOver return: the character they stopped at,  *)
(* which remains to be read, or EOF.                                       *)
(***************************************************************************)
StoppedAt(st) == IF AtEnd(st) THEN EOF ELSE st.text[st.pos + 1]

EndOfTokenLosingDelimiter(st, delimiters) ==   \* mutant: ungetc is left out
  LET stop == NextStop(st, delimiters)
  IN  IF st.text[st.pos + 1] \in delimiters THEN st.pos + 1
      ELSE IF stop - st.pos < BufferLength - 1 /\ stop < Len(st.text) THEN stop + 1
      ELSE Min({stop, st.pos + BufferLength - 1})

(***************************************************************************)
(* A delimiter is a token of its own; any other token goes on to the next  *)
(* delimiter, the end of the file or the end of the buffer.                *)
(***************************************************************************)
EndOfToken(st, delimiters) ==
  IF st.text[st.pos + 1] \in delimiters THEN st.pos + 1
  ELSE Min({NextStop(st, delimiters), st.pos + BufferLength - 1})

(***************************************************************************)
(* STNextToken: whether there is one, and the tokenizer afterwards.        *)
(***************************************************************************)
STNextToken(st, delimiters, discardDelimiters) ==
  LET from == IF discardDelimiters THEN STSkipOver(st, delimiters) ELSE st
      end == EndOfToken(from, delimiters)
  IN  IF AtEnd(from) THEN [ok |-> FALSE, st |-> from]
      ELSE [ok |-> TRUE,
            st |-> [from EXCEPT !.pos = end,
                                !.buffer = SubSeq(from.text, from.pos + 1, end)]]
=============================================================================
