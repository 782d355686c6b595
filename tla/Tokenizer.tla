----------------------------- MODULE Tokenizer -----------------------------
(***************************************************************************)
(* "C String/parseC.c": which characters of a C text each function of the  *)
(* tokenizer consumes, and where it loops.  What it prints is left out.    *)
(* Beside it runs a reference scanner, which says into what part of the    *)
(* text the characters consumed so far lead.                               *)
(***************************************************************************)
EXTENDS Integers, Sequences, FiniteSets

Operators == {"&", "|", "<", ">", "*", "+", "-", "="}
\* "a" and "1" stand for their kinds, ";" for a char that is a token of its own.
Alphabet == Operators \cup {"a", "1", ";", "\n", "/", "'", "\"", "\\"}
EOF == "EOF"

VARIABLES pc,     \* the function or loop it is in
          ch,     \* its parameter, where that is looked at again
          next,   \* what getchar() will return, or "" before it is typed
          text    \* history: the state of the reference scanner

vars == <<pc, ch, next, text>>

Init == pc = "main" /\ ch = "" /\ next = "" /\ text = "code"

-----------------------------------------------------------------------------
(* The reference scanner.  "odd" is a text parseC.c is not made for: a     *)
(* comment that is /*/ or ends with two stars, a character constant that   *)
(* is not one plain character, a quote or slash behind two operators.      *)

Opens(c) ==
    CASE c = "/" -> "slash" [] c = "'" -> "quote" [] c = "\"" -> "string"
      [] c \in Operators -> "operator" [] OTHER -> "code"

Within(c, star, slash, other) ==
    CASE c = "*" -> star [] c = "/" -> slash [] OTHER -> other

Scan(c) ==
    CASE text = "code" -> Opens(c)
      [] text = "operator" -> IF c \in Operators THEN "operators" ELSE Opens(c)
      [] text = "operators" -> CASE c \in Operators -> "operators"
                                 [] c \in {"/", "'", "\""} -> "odd"
                                 [] OTHER -> "code"
      [] text = "slash" -> IF c = "/" THEN "line" ELSE IF c = "*" THEN "block" ELSE Opens(c)
      [] text = "line" -> IF c = "\n" THEN "code" ELSE "line"
      [] text = "block" -> Within(c, "stars", "odd", "comment")
      [] text = "comment" -> Within(c, "star", "comment", "comment")
      [] text = "star" -> Within(c, "stars", "code", "comment")
      [] text = "stars" -> Within(c, "stars", "odd", "comment")
      [] text = "quote" -> IF c \in {"'", "\\"} THEN "odd" ELSE "plain"
      [] text = "plain" -> IF c = "'" THEN "code" ELSE "odd"
      [] text = "string" -> IF c = "\"" THEN "code" ELSE IF c = "\\" THEN "escape" ELSE "string"
      [] text = "escape" -> "string"
      [] text = "odd" -> "odd"

-----------------------------------------------------------------------------
\* The input comes one by one and may end anywhere.
Type ==
    /\ next = "" /\ next' \in Alphabet \cup {EOF}
    /\ UNCHANGED <<pc, ch, text>>

\* getchar(); the end of the input is there again at the next call.
Getchar ==
    /\ next # ""
    /\ IF next = EOF THEN UNCHANGED <<next, text>> ELSE next' = "" /\ text' = Scan(next)

\* peekc()
Peekc == next # "" /\ UNCHANGED <<next, text>>

\* (fault) getchar() is stored in a char that is never EOF
MainGoesOn ==
    /\ pc = "main" /\ Getchar
    /\ ch' = IF next \in Operators THEN next ELSE ""
    /\ pc' = CASE next = "/" -> "slash" [] next = "'" -> "quote" [] next = "\"" -> "string"
               [] next \in Operators -> "operator" [] next = "a" -> "word"
               [] next = "1" -> "number" [] OTHER -> "main"

\* main and parse
Main ==
    /\ pc = "main" /\ Getchar
    /\ ch' = IF next \in Operators THEN next ELSE ""
    /\ pc' = CASE next = EOF -> "done"
               [] next = "/" -> "slash" [] next = "'" -> "quote" [] next = "\"" -> "string"
               [] next \in Operators -> "operator" [] next = "a" -> "word"
               [] next = "1" -> "number" [] OTHER -> "main"

ParseNumber ==   \* '.' is not among the characters of the model
    /\ pc = "number"
    /\ IF next = "1" THEN Getchar /\ UNCHANGED pc ELSE Peekc /\ pc' = "main"
    /\ UNCHANGED ch

ParseWord ==
    /\ pc = "word"
    /\ IF next \in {"a", "1", "-"} THEN Getchar /\ UNCHANGED pc ELSE Peekc /\ pc' = "main"
    /\ UNCHANGED ch

\* parseOpeartor: no case but the last has a break, so that from the label of
\* the next character on every case is run, and each may consume another one.
Labels == <<"&", "|", "<", ">", "+", "-", "=">>
Consumes(c, label) ==
    \/ c = label /\ label # "="
    \/ label = "=" /\ c \in {"=", "+", "-", "*", "/"}
Swallowed(c, peeked) ==
    Cardinality({i \in 1..7 : Consumes(c, Labels[i]) /\ \E j \in 1..i : Labels[j] = peeked})

ParseOperator ==
    /\ pc = "operator" /\ Peekc
    /\ pc' = <<"main", "swallow", "swallow two">>[Swallowed(ch, next) + 1]
    /\ ch' = ""

Swallow ==
    /\ pc \in {"swallow", "swallow two"} /\ Getchar
    /\ pc' = IF pc = "swallow" THEN "main" ELSE "swallow"
    /\ UNCHANGED ch

ProcessComment ==
    /\ pc = "slash" /\ Peekc
    /\ pc' = CASE next = "/" -> "line" [] next = "*" -> "block" [] OTHER -> "main"
    /\ UNCHANGED ch

LineComment ==
    /\ pc = "line" /\ Getchar
    /\ pc' = IF next = "\n" THEN "main" ELSE "line"
    /\ UNCHANGED ch

\* (fault) the star alone ends the comment
EndAtStar ==
    /\ pc = "block" /\ Getchar
    /\ pc' = IF next = "*" THEN "main" ELSE "block"
    /\ UNCHANGED ch

\* end(), with the first star read by its first call ...
End ==
    /\ pc = "block" /\ Getchar
    /\ pc' = IF next = "*" THEN "block star" ELSE "block"
    /\ UNCHANGED ch

\* ... and whatever is behind a star taken together with it.
EndSlash ==
    /\ pc = "block star" /\ Getchar
    /\ pc' = IF next = "/" THEN "main" ELSE "block"
    /\ UNCHANGED ch

\* The case of the apostrophe: two characters, whatever they are.
Quote ==
    /\ pc \in {"quote", "quote end"} /\ Getchar
    /\ pc' = IF pc = "quote" THEN "quote end" ELSE "main"
    /\ UNCHANGED ch

ParseQuoteQuote ==
    /\ pc = "string" /\ Getchar
    /\ pc' = CASE next = "\"" -> "main" [] next = "\\" -> "escape" [] OTHER -> "string"
    /\ UNCHANGED ch

Escape ==
    /\ pc = "escape" /\ Getchar
    /\ pc' = "string"
    /\ UNCHANGED ch

Program == \/ Main \/ ParseNumber \/ ParseWord \/ ParseOperator \/ Swallow
           \/ ProcessComment \/ LineComment \/ End \/ EndSlash
           \/ Quote \/ ParseQuoteQuote \/ Escape

Next == Type \/ Program

\* The program runs; nobody has to type.
Spec == Init /\ [][Next]_vars /\ WF_vars(Program)

-----------------------------------------------------------------------------
TypeOK ==
    /\ pc \in {"main", "number", "word", "operator", "swallow", "swallow two", "slash",
               "line", "block", "block star", "quote", "quote end", "string", "escape", "done"}
    /\ ch \in Operators \cup {""} /\ next \in Alphabet \cup {EOF, ""}
    /\ text \in {"code", "operator", "operators", "slash", "line", "block", "comment",
                 "star", "stars", "quote", "plain", "string", "escape", "odd"}

\* Comments, strings and character constants begin and end for parseC.c where
\* they do in the text, although it reads comments in pairs and operators with
\* cases that fall through - as long as the text is none of the odd ones
\* (lines 30-83 and 91-146).
InStep ==
    text # "odd" =>
        CASE pc = "line" -> text \in {"slash", "line"}
          [] pc \in {"block", "block star"} ->
                 text \in {"slash", "block", "comment", "star", "stars"}
          [] pc \in {"string", "escape"} -> text \in {"string", "escape"}
          [] pc = "quote" -> text = "quote"
          [] pc = "quote end" -> text \in {"quote", "plain"}
          [] OTHER -> \/ text \in {"code", "operator", "operators", "slash"}
                      \/ next = EOF /\ text \in {"quote", "plain"}

\* A text that does not end within a comment or string is read to its end, and
\* the program ends (lines 62-157).  Nothing is claimed of one that does, be it
\* in a // comment that lacks its newline.
EndsUnlessOpen ==
    next = EOF /\ text \in {"code", "operator", "operators", "slash", "quote", "plain"}
        ~> pc = "done"
=============================================================================
