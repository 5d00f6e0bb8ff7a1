------------------------------- MODULE Grammar -------------------------------
(***************************************************************************)
(* The sentence generator of src/ass1: a grammar file is read into a map   *)
(* from nonterminals to their possible expansions, and "<start>" expanded. *)
(* A token is a name; a definition in the file is its nonterminal with the *)
(* lines of its productions, each a sequence of tokens.                    *)
(***************************************************************************)
EXTENDS Integers, Sequences

CONSTANTS NonTerminal,   \* the tokens between '<' and '>'
          Start,         \* "<start>"
          Semicolon,     \* ";", which ends a production
          MaxDepth       \* calls of getExtensions within one another

(***************************************************************************)
(* A production is what stands before the semicolon; the rest of the line  *)
(* is discarded.                                                           *)
(***************************************************************************)
Production(line) ==
  LET ends == {i \in 1 .. Len(line) : line[i] = Semicolon}
  IN  SubSeq(line, 1, (CHOOSE i \in ends : \A j \in ends : i <= j) - 1)

(***************************************************************************)
(* A nonterminal that is defined again has its last definition only.       *)
(***************************************************************************)
readGrammar(file) ==
  LET defined == {file[i].nonterminal : i \in 1 .. Len(file)}
      last(id) == CHOOSE i \in 1 .. Len(file) :
                    /\ file[i].nonterminal = id
                    /\ \A j \in i + 1 .. Len(file) : file[j].nonterminal # id
  IN  [id \in defined |-> [i \in 1 .. Len(file[last(id)].lines) |->
                             Production(file[last(id)].lines[i])]]

RECURSIVE getExtensionsByValue(_, _, _, _), ExpandedByValue(_, _, _, _)

getExtensionsByValue(id, grammar, out, depth) ==   \* mutant: a nested failure is forgotten
  IF id \notin DOMAIN grammar THEN {[out EXCEPT !.exit_code = 0]}
  ELSE IF depth = 0 THEN {}
  ELSE {[o EXCEPT !.exit_code = out.exit_code] :
          o \in UNION {ExpandedByValue(grammar[id][i], grammar, out, depth) :
                         i \in 1 .. Len(grammar[id])}}

ExpandedByValue(phrases, grammar, out, depth) ==
  IF phrases = << >> THEN {out}
  ELSE LET after == IF Head(phrases) \in NonTerminal
                    THEN getExtensionsByValue(Head(phrases), grammar, out, depth - 1)
                    ELSE {[out EXCEPT !.curr = Append(@, Head(phrases))]}
       IN  UNION {ExpandedByValue(Tail(phrases), grammar, o, depth) : o \in after}

(***************************************************************************)
(* getExtensions: what curr and exit_code may be when the call returns,    *)
(* one for each choice of productions.  An undefined nonterminal clears    *)
(* exit_code, and the expansion goes on.  Choices that need more than      *)
(* depth nested calls are left out.                                        *)
(***************************************************************************)
RECURSIVE getExtensions(_, _, _, _), Expanded(_, _, _, _)

getExtensions(id, grammar, out, depth) ==
  IF id \notin DOMAIN grammar THEN {[out EXCEPT !.exit_code = 0]}
  ELSE IF depth = 0 THEN {}
  ELSE UNION {Expanded(grammar[id][i], grammar, out, depth) :
                i \in 1 .. Len(grammar[id])}

Expanded(phrases, grammar, out, depth) ==
  IF phrases = << >> THEN {out}
  ELSE LET after == IF Head(phrases) \in NonTerminal
                    THEN getExtensions(Head(phrases), grammar, out, depth - 1)
                    ELSE {[out EXCEPT !.curr = Append(@, Head(phrases))]}
       IN  UNION {Expanded(Tail(phrases), grammar, o, depth) : o \in after}

Version(grammar) ==
  getExtensions(Start, grammar, [curr |-> << >>, exit_code |-> 1], MaxDepth)
-----------------------------------------------------------------------------
(***************************************************************************)
(* The sentential forms that rewriting any one nonterminal leads to, and   *)
(* those reachable in n rewritings, for reference.                         *)
(***************************************************************************)
Rewritten(form, grammar) ==
  UNION {{SubSeq(form, 1, i - 1) \o grammar[form[i]][j] \o SubSeq(form, i + 1, Len(form)) :
            j \in 1 .. Len(grammar[form[i]])} :
         i \in {k \in 1 .. Len(form) : form[k] \in DOMAIN grammar}}

RECURSIVE Derived(_, _, _)

Derived(forms, grammar, n) ==
  IF n = 0 THEN forms
  ELSE Derived(forms \cup UNION {Rewritten(f, grammar) : f \in forms}, grammar, n - 1)

Sentences(grammar, n) ==
  {f \in Derived({<<Start>>}, grammar, n) :
     \A i \in 1 .. Len(f) : f[i] \notin NonTerminal}
=============================================================================
