------------------------------ MODULE SqlText -------------------------------
(***************************************************************************)
(* The scanner behind placeholders and batches (src/sql.rs, SqlScanner).   *)
(* It walks over the text, steps over quoted strings, comments and         *)
(* dollar-quoted bodies, and stops at what is left: positional or named    *)
(* placeholders, or the semicolons that separate statements.  The texts    *)
(* are all the sequences of a few characters up to a length, for each use  *)
(* of the scanner; the property is about single characters, so nothing of  *)
(* them is abstracted away.  "n" is a newline, "1" a digit, "a" a letter.  *)
(***************************************************************************)
EXTENDS Naturals, Sequences, FiniteSets

CONSTANTS
  Texts,      \* [uses of the scanner -> set of texts]
  Expected    \* the numbers of parameters a caller passes

VARIABLES use, sql, index, quote, marks, used, status, params
vars == <<use, sql, index, quote, marks, used, status, params>>

\* index is the number of characters consumed.  With named placeholders the caller
\* passes one parameter, called "a".
Init ==
  /\ use \in DOMAIN Texts /\ sql \in Texts[use] /\ index = 0 /\ quote = FALSE /\ marks = {}
  /\ used = {} /\ status = "scanning"
  /\ params \in IF use = "positional" THEN Expected ELSE {0}

Char(i) == IF i \in 1..Len(sql) THEN sql[i] ELSE "end"
current_byte == Char(index + 1)
next_byte == Char(index + 2)
is_done == index >= Len(sql)
Least(S) == CHOOSE x \in S : \A y \in S : x <= y

Advance(n) == index' = index + n
Fail == status' = "error" /\ UNCHANGED <<index, quote, marks, used>>
Scanning == status = "scanning" /\ ~is_done /\ UNCHANGED <<use, sql, params>>

\* Inside a quoted string, after the character has been taken: a delimiter ends it unless
\* another one follows, and next_byte looks one character past the current one.
consume_quoted ==
  /\ Scanning /\ quote
  /\ IF current_byte = "'"
     THEN IF Char(index + 3) = "'"
          THEN Advance(2) /\ UNCHANGED quote
          ELSE Advance(1) /\ quote' = FALSE
     ELSE Advance(1) /\ UNCHANGED quote
  /\ UNCHANGED <<marks, used, status>>

Code == Scanning /\ ~quote

OpenQuote ==
  /\ Code /\ current_byte = "'"
  /\ quote' = TRUE /\ Advance(1) /\ UNCHANGED <<marks, used, status>>

AtLine == current_byte = "-" /\ next_byte = "-"

\* Up to the newline, or to the end.
consume_line_comment ==
  /\ Code /\ AtLine
  /\ index' = Least({i \in (index + 2)..Len(sql) : Char(i + 1) \in {"n", "end"}})
  /\ UNCHANGED <<quote, marks, used, status>>

AtBlock == current_byte = "/" /\ next_byte = "*"

Ends_overlapping == {i \in (index + 2)..Len(sql) : Char(i) = "*" /\ Char(i + 1) = "/"}

\* Where the closing star of the comment may be.
Ends == {i \in (index + 3)..Len(sql) : Char(i) = "*" /\ Char(i + 1) = "/"}

consume_block_comment ==
  /\ Code /\ AtBlock
  /\ IF Ends = {} THEN Fail
     ELSE index' = Least(Ends) + 1 /\ UNCHANGED <<quote, marks, used, status>>

AtDollar == current_byte = "$" /\ next_byte = "$"
Closers == {i \in (index + 3)..Len(sql) : Char(i) = "$" /\ Char(i + 1) = "$"}

dollar_quote_end ==
  /\ Code /\ AtDollar
  /\ IF Closers = {} THEN Fail
     ELSE index' = Least(Closers) + 1 /\ UNCHANGED <<quote, marks, used, status>>

Opaque == AtLine \/ AtBlock \/ AtDollar \/ current_byte = "'"
Plain == Code /\ ~Opaque

\* "?" and "$1" mark a parameter; the two forms do not mix, and the numbers count from 1.
DigitsEnd == Least({i \in (index + 2)..Len(sql) : Char(i + 1) # "1"})
NumberedHere == current_byte = "$" /\ next_byte = "1"

consume_positional_placeholder ==
  /\ Plain /\ use = "positional" /\ (current_byte = "?" \/ NumberedHere)
  /\ LET form == IF current_byte = "?" THEN "question" ELSE "dollar" IN
     IF \/ used \ {form} # {}
        \/ form = "dollar" /\ (DigitsEnd # index + 2 \/ marks # {})
     THEN Fail
     ELSE /\ marks' = marks \cup {index + 1} /\ used' = used \cup {form}
          /\ index' = IF form = "question" THEN index + 1 ELSE DigitsEnd
          /\ UNCHANGED <<quote, status>>

\* ":a", unless the colon is the second of a cast.
NamedHere_cast == current_byte = ":" /\ next_byte = "a"
NamedHere == current_byte = ":" /\ next_byte = "a" /\ Char(index) # ":"

NameEnd == Least({i \in (index + 2)..Len(sql) : Char(i + 1) \notin {"a", "1"}})

\* A positional placeholder is refused, and so is a name that has no value.
consume_named_placeholder ==
  /\ Plain /\ use = "named"
  /\ \/ (current_byte = "?" \/ NumberedHere) /\ Fail
     \/ /\ NamedHere
        /\ IF NameEnd # index + 2 THEN Fail
           ELSE /\ marks' = marks \cup {index + 1} /\ index' = NameEnd
                /\ UNCHANGED <<quote, used, status>>

\* split_sql_batch: a semicolon ends a statement.
SplitHere ==
  /\ Plain /\ use = "batch" /\ current_byte = ";"
  /\ marks' = marks \cup {index + 1} /\ Advance(1) /\ UNCHANGED <<quote, used, status>>

copy_current_char ==
  /\ Plain
  /\ ~(use = "positional" /\ (current_byte = "?" \/ NumberedHere))
  /\ ~(use = "named" /\ (current_byte = "?" \/ NumberedHere \/ NamedHere))
  /\ ~(use = "batch" /\ current_byte = ";")
  /\ Advance(1) /\ UNCHANGED <<quote, marks, used, status>>

\* The end: no quote may be open, and every parameter must have been used.
rewrite_ends ==
  /\ status = "scanning" /\ is_done
  /\ status' = CASE quote -> "error"
                 [] use = "positional" /\ Cardinality(marks) # params -> "error"
                 [] use = "named" /\ marks = {} -> "error"
                 [] OTHER -> "ok"
  /\ UNCHANGED <<use, sql, index, quote, marks, used, params>>

Next ==
  \/ consume_quoted \/ OpenQuote \/ consume_line_comment \/ consume_block_comment
  \/ dollar_quote_end \/ consume_positional_placeholder \/ consume_named_placeholder
  \/ SplitHere \/ copy_current_char \/ rewrite_ends

Spec == Init /\ [][Next]_vars

(***************************************************************************)
(* The reference: what each character is part of, character by character.  *)
(***************************************************************************)
Part[i \in 1..(Len(sql) + 1)] ==
  IF i = 1 THEN "code" ELSE
  LET m == Part[i - 1]  c == Char(i - 1)  d == Char(i) IN
  CASE m = "code" /\ c = "'" -> "string"
    [] m = "code" /\ c = "-" /\ d = "-" -> "line"
    [] m = "code" /\ c = "/" /\ d = "*" -> "star"
    [] m = "code" /\ c = "$" /\ d = "$" -> "dollar"
    [] m = "string" /\ c = "'" -> IF d = "'" THEN "doubled" ELSE "code"
    [] m = "doubled" -> "string"
    [] m = "line" /\ c = "n" -> "code"
    [] m = "star" -> "block"
    [] m = "block" /\ c = "*" /\ d = "/" -> "slash"
    [] m = "dollar" -> "body"
    [] m = "body" /\ c = "$" /\ d = "$" -> "undollar"
    [] m \in {"slash", "undollar"} -> "code"
    [] OTHER -> m

InCode(i, c) == Part[i] = "code" /\ Char(i) = c
Questions == {i \in 1..Len(sql) : InCode(i, "?")}
Numbered == {i \in 1..Len(sql) : InCode(i, "$") /\ Char(i + 1) = "1"}
Named == {i \in 1..Len(sql) : InCode(i, ":") /\ Char(i + 1) = "a" /\ Char(i - 1) # ":"}
Terminated == Part[Len(sql) + 1] \in {"code", "line"}

ShouldMark ==
  CASE use = "positional" -> Questions \cup Numbered
    [] use = "named" -> Named
    [] OTHER -> {i \in 1..Len(sql) : InCode(i, ";")}

ShouldAccept ==
  /\ Terminated
  /\ use = "positional" => /\ Cardinality(Questions \cup Numbered) = params
                           /\ Questions = {} \/ Numbered = {}
                           /\ Cardinality(Numbered) <= 1
                           /\ \A i \in Numbered : Char(i + 2) # "1"
  /\ use = "named" => /\ Questions \cup Numbered = {} /\ Named # {}
                      /\ \A i \in Named : Char(i + 2) \notin {"a", "1"}

(***************************************************************************)
(* Properties                                                              *)
(***************************************************************************)

\* The scanner accepts exactly the well-formed texts, and takes for placeholders, or for
\* the ends of statements, exactly the characters that are code: one inside a literal or
\* a comment is never mistaken for a parameter.
LiteralsOpaque ==
  status # "scanning" =>
    /\ (status = "ok") = ShouldAccept
    /\ status = "ok" => marks = ShouldMark
=============================================================================
