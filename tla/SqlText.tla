------------------------------- MODULE SqlText -------------------------------
(* The four scanners of SQL text in modules/sql_workspace.py.  Each walks the  *)
(* text with an index, the character there and the one or two after it, and    *)
(* keeps track of quotes, quoted identifiers and comments, so that a mark      *)
(* (a ";", a parenthesis, a comma, an "@") counts only where the server would  *)
(* read it as one.  The server's own reading is the automaton Lex, which sees  *)
(* one character at a time and never looks ahead.  The text is unbounded: only *)
(* the three characters a scanner can see are kept, and the text may end       *)
(* behind any of them.  The bodies of stored programs, and control or Unicode  *)
(* blanks behind "--", are not among the texts.                                *)
EXTENDS Naturals, Sequences

CONSTANT MaxNesting       \* bound: parentheses open at once in the text

ASSUME NestingAssumption == MaxNesting \in Nat \ {0}

Quotes == {"quote", "dquote"}
Characters == Quotes \cup {"a", "space", "newline", "-", "#", "/", "*", "tick", "backslash"}
Marks == [split     |-> {";"},
          variable  |-> {"@"},
          arguments |-> {"(", ")", ","},
          span      |-> {"(", ")"}]
Readers == DOMAIN Marks

VARIABLES reader,   \* which of the four functions runs
          ahead,    \* the text from index on, at most three characters of it
          scanner,  \* quote_char, in_backtick, in_line_comment, in_block_comment, escaped
          counts,   \* depth, the commas (or variables) counted, and whether it returned
          lexer     \* the server's reading of what was consumed
textVars == <<reader, ahead, scanner, counts, lexer>>

Char(k) == IF k <= Len(ahead) THEN ahead[k] ELSE "end"
Takes(n, mode, escaped) == [take |-> n, mode |-> mode, escaped |-> escaped]

-----------------------------------------------------------------------------
(* The scanner, written out four times in the file.                            *)

InComment ==
  CASE scanner.mode = "line"  -> Takes(1, IF Char(1) = "newline" THEN "plain" ELSE "line", FALSE)
    [] scanner.mode = "block" -> IF Char(1) = "*" /\ Char(2) = "/" THEN Takes(2, "plain", FALSE)
                                                               ELSE Takes(1, "block", FALSE)

\* Mutant of InQuotes: an escaped character leaves the escape flag set.
InQuotesStillEscaped ==
  IF scanner.mode \in Quotes /\ (scanner.escaped \/ Char(1) = "backslash")
  THEN Takes(1, scanner.mode, TRUE)
  ELSE IF Char(1) # scanner.mode THEN Takes(1, scanner.mode, FALSE)
  ELSE IF Char(2) = scanner.mode THEN Takes(2, scanner.mode, FALSE)
                                 ELSE Takes(1, "plain", FALSE)

\* A quote or a backtick is doubled inside its own kind; only quotes have escapes.
InQuotes ==
  IF scanner.mode \in Quotes /\ (scanner.escaped \/ Char(1) = "backslash")
  THEN Takes(1, scanner.mode, ~scanner.escaped)
  ELSE IF Char(1) # scanner.mode THEN Takes(1, scanner.mode, FALSE)
  ELSE IF Char(2) = scanner.mode THEN Takes(2, scanner.mode, FALSE)
                                 ELSE Takes(1, "plain", FALSE)

\* Mutant of InPlain: "/*" is consumed as one character, so "/*/" ends the comment.
InPlainOneByOne ==
  CASE Char(1) = "-" /\ Char(2) = "-" /\ Char(3) \in {"space", "newline", "end"} -> Takes(2, "line", FALSE)
    [] Char(1) = "#" -> Takes(1, "line", FALSE)
    [] Char(1) = "/" /\ Char(2) = "*" -> Takes(1, "block", FALSE)
    [] Char(1) \in Quotes \cup {"tick"} -> Takes(1, Char(1), FALSE)
    [] OTHER -> Takes(1, "plain", FALSE)

\* "--" begins a comment only before white space or the end of the text.
InPlain ==
  CASE Char(1) = "-" /\ Char(2) = "-" /\ Char(3) \in {"space", "newline", "end"} -> Takes(2, "line", FALSE)
    [] Char(1) = "#" -> Takes(1, "line", FALSE)
    [] Char(1) = "/" /\ Char(2) = "*" -> Takes(2, "block", FALSE)
    [] Char(1) \in Quotes \cup {"tick"} -> Takes(1, Char(1), FALSE)
    [] OTHER -> Takes(1, "plain", FALSE)

Token == CASE scanner.mode = "plain"             -> InPlain
           [] scanner.mode \in {"line", "block"} -> InComment
           [] OTHER                              -> InQuotes

-----------------------------------------------------------------------------
(* The server's lexer.                                                         *)

Outside == {"plain", "dash", "dashes", "slash"}
Inside == {"quote", "quote_escape", "dquote", "dquote_escape", "tick", "block", "block_star"}

LexOutside(s, c) ==
  CASE c \in Quotes \cup {"tick"}       -> c
    [] c = "#"                          -> "line"
    [] c = "-"                          -> IF s \in {"dash", "dashes"} THEN "dashes" ELSE "dash"
    [] c = "space" /\ s = "dashes"      -> "line"
    [] c = "/"                          -> "slash"
    [] c = "*" /\ s = "slash"           -> "block"
    [] OTHER                            -> "plain"
LexBlock(s, c) ==
  CASE c = "*"                          -> "block_star"
    [] c = "/" /\ s = "block_star"      -> "plain"
    [] OTHER                            -> "block"
LexState(s, c) ==
  CASE s \in Outside                    -> LexOutside(s, c)
    [] s = "line"                       -> IF c = "newline" THEN "plain" ELSE "line"
    [] s \in {"block", "block_star"}    -> LexBlock(s, c)
    [] s = "quote_escape"               -> "quote"
    [] s = "dquote_escape"              -> "dquote"
    [] s = "quote" /\ c = "backslash"   -> "quote_escape"
    [] s = "dquote" /\ c = "backslash"  -> "dquote_escape"
    [] OTHER                            -> IF c = s THEN "plain" ELSE s

\* The marks the server sees: nesting, and the commas outside all parentheses.  That a
\* ";" in the body of a stored program ends no statement, and that control characters
\* other than the line feed and Unicode blanks behind "--" have rules of their own, is
\* not in this lexer.
Lex(sv, c) ==
  LET seen == sv.state \in Outside IN
  [state   |-> LexState(sv.state, c),
   nesting |-> CASE seen /\ c = "(" -> sv.nesting + 1
                 [] seen /\ c = ")" -> sv.nesting - 1
                 [] OTHER -> sv.nesting,
   commas  |-> IF seen /\ c = "," /\ sv.nesting = 0 /\ sv.commas < 2 THEN sv.commas + 1 ELSE sv.commas]
ServerReads(n) == IF n = 1 THEN Lex(lexer, Char(1)) ELSE Lex(Lex(lexer, Char(1)), Char(2))
-----------------------------------------------------------------------------
UpTo3(S) == UNION {[1..n -> S] : n \in 0..3}

TextInit ==
  /\ reader \in Readers
  /\ ahead \in UpTo3(Characters \cup Marks[reader])
  /\ reader = "span" => Char(1) = "("
  /\ scanner = [mode |-> "plain", escaped |-> FALSE]
  /\ counts = [depth |-> 0, commas |-> 0, returned |-> FALSE]
  /\ lexer = [state |-> "plain", nesting |-> 0, commas |-> 0]

\* What follows is anything, or nothing once the text has shown its end.
Advance(n) ==
  LET rest == SubSeq(ahead, n + 1, Len(ahead))
      new  == IF Len(ahead) < 3 THEN {<<>>}
              ELSE UNION {[1..k -> Characters \cup Marks[reader]] : k \in 0..n}
  IN ahead' \in {rest \o s : s \in new}

\* One turn of the loop: the parentheses stay within the bound, and the text the
\* arguments are split from is what the span found, so it closes nothing it did not open.
Turn ==
  /\ ahead # <<>> /\ ~counts.returned
  /\ Char(1) = "(" => lexer.nesting < MaxNesting
  /\ reader = "arguments" /\ Char(1) = ")" /\ lexer.state \in Outside => lexer.nesting > 0
  /\ scanner' = [mode |-> Token.mode, escaped |-> Token.escaped]
  /\ Advance(Token.take)
  /\ lexer' = ServerReads(Token.take)
  /\ UNCHANGED reader

Reads(c) == scanner.mode = "plain" /\ Char(1) = c

SplitStatements == reader = "split" /\ Turn /\ UNCHANGED counts

\* The first "@name" found is taken for the output variable.
ExtractVariable ==
  /\ reader = "variable" /\ Turn
  /\ counts' = [counts EXCEPT !.returned = Reads("@") /\ Char(2) = "a"]

\* Mutant of SplitArguments: a comma counts at any depth.
SplitArgumentsAtAnyDepth ==
  /\ reader = "arguments" /\ Turn
  /\ counts' = CASE Reads("(") -> [counts EXCEPT !.depth = @ + 1]
                 [] Reads(")") -> [counts EXCEPT !.depth = IF @ = 0 THEN 0 ELSE @ - 1]
                 [] Reads(",") -> [counts EXCEPT !.commas = IF @ < 2 THEN @ + 1 ELSE @]
                 [] OTHER -> counts

\* Only the third argument is looked for, so the commas are counted up to two.
SplitArguments ==
  /\ reader = "arguments" /\ Turn
  /\ counts' = CASE Reads("(") -> [counts EXCEPT !.depth = @ + 1]
                 [] Reads(")") -> [counts EXCEPT !.depth = IF @ = 0 THEN 0 ELSE @ - 1]
                 [] Reads(",") /\ counts.depth = 0 ->
                      [counts EXCEPT !.commas = IF @ < 2 THEN @ + 1 ELSE @]
                 [] OTHER -> counts

FindSpan ==
  /\ reader = "span" /\ Turn
  /\ counts' = CASE Reads("(") -> [counts EXCEPT !.depth = @ + 1]
                 [] Reads(")") -> [depth |-> counts.depth - 1, commas |-> counts.commas,
                                   returned |-> counts.depth = 1]
                 [] OTHER -> counts

TextNext == SplitStatements \/ ExtractVariable \/ SplitArguments \/ FindSpan
TextSpec == TextInit /\ [][TextNext]_textVars
-----------------------------------------------------------------------------
\* A mark is taken for one exactly where the server reads one: no statement is cut
\* inside a quote or a comment and none is left joined to the next, and a text
\* that ends inside a quote, an identifier or a block comment is refused as such.
MarksAsServerReads ==
  ~counts.returned =>
    /\ Char(1) \in Marks[reader] => (scanner.mode = "plain" <=> lexer.state \in Outside)
    /\ ahead = <<>> => (scanner.mode \in Quotes \cup {"tick", "block"} <=> lexer.state \in Inside)

\* The span of the arguments of sys.nl_sql ends at the parenthesis that closes the
\* call, and the options are the third argument: depth and commas are the server's.
ArgumentsAsServerReads ==
  reader \in {"arguments", "span"} =>
    counts.depth = lexer.nesting /\ counts.commas = lexer.commas

\* The scanners of sql_workspace.py read a text of these characters as the server's
\* lexer does: a statement ends at each ";" that is neither quoted nor in a comment,
\* and a call has the arguments the server gives it.
ReadAsServerReads == MarksAsServerReads /\ ArgumentsAsServerReads
=============================================================================
