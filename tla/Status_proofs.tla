--------------------------- MODULE Status_proofs ---------------------------
(***************************************************************************)
(* Theorems about what the console makes of what it reads: the text of     *)
(* scripts (SqlText), the status of tables in HeatWave (HeatWaveStatus),   *)
(* the columns and rows of files to import (ImportColumns), and the        *)
(* listings of a bucket (ExternalLakehouse).                               *)
(***************************************************************************)
EXTENDS SqlText, HeatWaveStatus, ImportColumns, ExternalLakehouse,
        FiniteSetTheorems, SequenceTheorems, WellFoundedInduction, TLAPS

\* A set of numbers has a least one: the inductions below are on a size.
LEMMA LeastNat ==
  ASSUME NEW T, T \subseteq Nat, T # {}
  PROVE  \E m \in T : \A k \in T : m <= k
  <1> DEFINE R == OpToRel(<, Nat)
  <1>1. IsWellFoundedOn(R, Nat)
    BY NatLessThanWellFounded
  <1>2. \A x, y \in Nat : x < y => <<x, y>> \in R
    BY DEF OpToRel
  <1> HIDE DEF R
  <1>3. PICK x \in T : \A y \in T : ~(<<y, x>> \in R)
    BY <1>1, WFMin
  <1>4. \A y \in T : ~(y < x)
    BY <1>2, <1>3
  <1>5. \A y \in T : x <= y
    BY <1>4
  <1> QED  BY <1>5

-----------------------------------------------------------------------------
(* SqlText.  The scanner looks two characters ahead and the server never   *)
(* does, so they disagree about a character now and then: the invariant is *)
(* what the scanner knows of the characters ahead when the server has not  *)
(* made up its mind about those behind.                                    *)

White == {"space", "newline", "end"}
AnyChar == Characters \cup Marks[reader] \cup {"end"}

\* Outside quotes and comments: what came before begins nothing that is not seen.
PlainAgrees(state, c1, c2) ==
    /\ state \in Outside
    /\ state = "slash" => c1 # "*"
    /\ state \in {"dash", "dashes"} => ~(c1 = "-" /\ c2 \in White)
    /\ state = "dashes" => c1 \notin White

\* In quotes of a kind, and behind a backslash there.
QuoteAgrees(mode, escaped, state) ==
    CASE mode = "quote"  -> state = IF escaped THEN "quote_escape" ELSE "quote"
      [] mode = "dquote" -> state = IF escaped THEN "dquote_escape" ELSE "dquote"
      [] mode = "tick"   -> state = "tick" /\ ~escaped
      [] OTHER -> FALSE

Agrees(mode, escaped, state, c1, c2) ==
    CASE mode = "plain" -> ~escaped /\ PlainAgrees(state, c1, c2)
      [] mode = "line"  -> ~escaped /\ (state = "line" \/ (state = "dashes" /\ c1 \in White))
      [] mode = "block" -> ~escaped /\ (state = "block" \/ (state = "block_star" /\ c1 # "/"))
      [] OTHER          -> QuoteAgrees(mode, escaped, state)

Modes == {"plain", "line", "block", "tick"} \cup Quotes

CountsInv ==
    /\ counts \in [depth : Int, commas : Int, returned : BOOLEAN]
    /\ lexer.nesting \in Int /\ lexer.commas \in Int
    /\ ArgumentsAsServerReads

TextInv ==
    /\ reader \in Readers
    /\ ahead \in UpTo3(Characters \cup Marks[reader])
    /\ scanner \in [mode : Modes, escaped : BOOLEAN]
    /\ lexer = [state |-> lexer.state, nesting |-> lexer.nesting, commas |-> lexer.commas]
    /\ Agrees(scanner.mode, scanner.escaped, lexer.state, Char(1), Char(2))
    /\ CountsInv

LEMMA MarksAre ==
  /\ Readers = {"split", "variable", "arguments", "span"}
  /\ Marks["split"] = {";"} /\ Marks["variable"] = {"@"}
  /\ Marks["arguments"] = {"(", ")", ","} /\ Marks["span"] = {"(", ")"}
BY DEF Readers, Marks

LEMMA CharType ==
  ASSUME reader \in Readers, ahead \in UpTo3(Characters \cup Marks[reader])
  PROVE  /\ \A k \in 1..3 : Char(k) \in AnyChar
         /\ ahead # <<>> => Char(1) # "end"
         /\ ahead = <<>> => Char(1) = "end"
<1> DEFINE A == Characters \cup Marks[reader]
<1>0. "end" \notin A
  <2>1. "end" \notin Characters
    BY DEF Characters, Quotes
  <2>2. "end" \notin Marks[reader]
    <3>1. CASE reader = "split"
      BY <3>1 DEF Marks
    <3>2. CASE reader = "variable"
      BY <3>2 DEF Marks
    <3>3. CASE reader = "arguments"
      BY <3>3 DEF Marks
    <3>4. CASE reader = "span"
      BY <3>4 DEF Marks
    <3> QED BY <3>1, <3>2, <3>3, <3>4, MarksAre
  <2> QED BY <2>1, <2>2
<1>1. PICK n \in 0..3 : ahead \in [1..n -> A]
  BY DEF UpTo3
<1> HIDE DEF A
<1>2. Len(ahead) = n
  BY <1>1, LenProperties
<1>3. ahead \in Seq(A)
  BY <1>1
<1>4. \A k \in 1..3 : k <= n => ahead[k] \in A
  BY <1>1
<1>5. AnyChar = A \cup {"end"}
  BY DEF AnyChar, A
<1>6. n = 0 <=> ahead = <<>>
  BY <1>2, <1>3, EmptySeq
<1>7. QED
  BY <1>0, <1>2, <1>4, <1>5, <1>6 DEF Char

LEMMA CharAhead ==
  ASSUME reader \in Readers, ahead \in UpTo3(Characters \cup Marks[reader]),
         UNCHANGED reader, NEW n \in 1..2, Advance(n), n <= Len(ahead)
  PROVE  /\ ahead' \in UpTo3(Characters \cup Marks[reader])
         /\ \A k \in 1..2 : k + n <= 3 => Char(k)' = Char(k + n)
<1> DEFINE A == Characters \cup Marks[reader]
           rest == SubSeq(ahead, n + 1, Len(ahead))
<1>1. PICK m \in 0..3 : ahead \in [1..m -> A]
  BY DEF UpTo3
<1>2. PICK s : /\ ahead' = rest \o s
               /\ IF Len(ahead) < 3 THEN s = <<>> ELSE s \in UNION {[1..k -> A] : k \in 0..n}
  BY DEF Advance
<1>3. PICK l \in 0..2 : /\ s \in [1..l -> A]
                        /\ IF Len(ahead) < 3 THEN l = 0 ELSE l <= n
  <2>1. CASE Len(ahead) < 3
    <3>1. s \in [1..0 -> A]
      BY <1>2, <2>1
    <3> QED BY <3>1, <2>1
  <2>2. CASE ~(Len(ahead) < 3)
    <3>1. PICK k \in 0..n : s \in [1..k -> A]
      BY <1>2, <2>2
    <3>2. k \in 0..2 /\ k <= n
      OBVIOUS
    <3> QED BY <2>2, <3>1, <3>2
  <2> QED BY <2>1, <2>2
<1> HIDE DEF A
<1>4. Len(ahead) = m /\ ahead \in Seq(A) /\ n <= m
  BY <1>1, LenProperties
<1>5. s \in Seq(A) /\ Len(s) = l
  BY <1>3, LenProperties
<1>6. /\ rest \in Seq(A)
      /\ Len(rest) = m - n
      /\ \A i \in 1..(m - n) : rest[i] = ahead[n + i]
  BY <1>4, SubSeqProperties
<1> HIDE DEF rest
<1>7. /\ ahead' \in Seq(A)
      /\ Len(ahead') = m - n + l
      /\ \A i \in 1..(m - n + l) : ahead'[i] = IF i <= m - n THEN rest[i] ELSE s[i - (m - n)]
  BY <1>2, <1>4, <1>5, <1>6, ConcatProperties
<1>8. ahead' \in [1..(m - n + l) -> A] /\ m - n + l \in 0..3
  BY <1>3, <1>4, <1>7, LenProperties
<1>9. ahead' \in UpTo3(A)
  BY <1>8 DEF UpTo3
<1>10. \A k \in 1..2 : k + n <= 3 => Char(k)' = Char(k + n)
  BY <1>3, <1>4, <1>6, <1>7 DEF Char
<1> QED BY <1>9, <1>10 DEF A

-----------------------------------------------------------------------------

\* What a turn takes, and the server's reading of it.
LEMMA TurnAgrees ==
  ASSUME TextInv, Turn
  PROVE  /\ Token.take \in 1..2 /\ Token.take <= Len(ahead)
         /\ Token.mode \in Modes /\ Token.escaped \in BOOLEAN
         /\ \A c1, c2 : (Token.take = 1 => c1 = Char(2) /\ c2 = Char(3)) /\ (Token.take = 2 => c1 = Char(3))
               => Agrees(Token.mode, Token.escaped, ServerReads(Token.take).state, c1, c2)
<1>0. TextInv /\ Turn
  OBVIOUS
<1>1. /\ Char(1) \in AnyChar \ {"end"}
      /\ Char(2) \in AnyChar /\ Char(3) \in AnyChar
  BY <1>0, CharType DEF TextInv, Turn
<1>2. /\ 1 <= Len(ahead)
      /\ Char(2) # "end" => 2 <= Len(ahead)
  <2>1. PICK n \in 0..3 : ahead \in [1..n -> Characters \cup Marks[reader]]
    BY <1>0 DEF TextInv, UpTo3
  <2>2. ahead \in Seq(Characters \cup Marks[reader]) /\ Len(ahead) = n
    BY <2>1, LenProperties
  <2>3. ahead # <<>>
    BY <1>0 DEF Turn
  <2> QED BY <2>2, <2>3, EmptySeq DEF Char
<1> DEFINE a == Char(1)
           b == Char(2)
           c == Char(3)
           st == lexer.state
           mode == scanner.mode
           esc == scanner.escaped
<1>3. Agrees(mode, esc, st, a, b) /\ mode \in Modes /\ esc \in BOOLEAN
  BY <1>0 DEF TextInv
<1>4. /\ Lex(lexer, a).state = LexState(st, a)
      /\ Lex(Lex(lexer, a), b).state = LexState(LexState(st, a), b)
  BY DEF Lex
<1>5. /\ ServerReads(1).state = LexState(st, a)
      /\ ServerReads(2).state = LexState(LexState(st, a), b)
  BY <1>4 DEF ServerReads
<1>6. a # "end" /\ a \in AnyChar /\ b \in AnyChar /\ c \in AnyChar
  BY <1>1
<1>7. CASE mode = "plain"
  <2>1. Token = InPlain
    BY <1>7 DEF Token
  <2>2. PlainAgrees(st, a, b) /\ ~esc
    BY <1>3, <1>7 DEF Agrees
  <2>3. CASE a = "-" /\ b = "-" /\ c \in White
    <3>1. Token = Takes(2, "line", FALSE)
      BY <2>1, <2>3 DEF InPlain, White, Quotes
    <3>2. ServerReads(2).state = "dashes"
      BY <1>5, <2>2, <2>3 DEF PlainAgrees, LexState, LexOutside, Outside, Quotes
    <3> QED BY <1>2, <2>3, <3>1, <3>2 DEF Takes, Agrees, Modes
  <2>4. CASE a = "#"
    <3>1. Token = Takes(1, "line", FALSE)
      BY <2>1, <2>4 DEF InPlain, Quotes
    <3>2. ServerReads(1).state = "line"
      BY <1>5, <2>2, <2>4 DEF PlainAgrees, LexState, LexOutside, Outside, Quotes
    <3> QED BY <1>2, <3>1, <3>2 DEF Takes, Agrees, Modes
  <2>5. CASE a = "/" /\ b = "*"
    <3>1. Token = Takes(2, "block", FALSE)
      BY <2>1, <2>5 DEF InPlain, Quotes
    <3>2. ServerReads(2).state = "block"
      BY <1>5, <2>2, <2>5 DEF PlainAgrees, LexState, LexOutside, Outside, Quotes
    <3> QED BY <1>2, <2>5, <3>1, <3>2 DEF Takes, Agrees, Modes
  <2>6. CASE a \in Quotes \cup {"tick"}
    <3>1. Token = Takes(1, a, FALSE)
      BY <2>1, <2>6 DEF InPlain, Quotes
    <3>2. ServerReads(1).state = a
      BY <1>5, <2>2, <2>6 DEF PlainAgrees, LexState, LexOutside, Outside, Quotes
    <3> HIDE DEF a
    <3> QED BY <1>2, <2>6, <3>1, <3>2 DEF Takes, Agrees, QuoteAgrees, Modes, Quotes
  <2>7. CASE /\ ~(a = "-" /\ b = "-" /\ c \in White)
             /\ a # "#" /\ ~(a = "/" /\ b = "*") /\ a \notin Quotes \cup {"tick"}
    <3>1. Token = Takes(1, "plain", FALSE)
      BY <2>1, <2>7 DEF InPlain, White
    <3>2. PlainAgrees(LexState(st, a), b, c)
      <4> HIDE DEF a, b, c, st
      <4> QED BY <1>6, <2>2, <2>7 DEF PlainAgrees, LexState, LexOutside, Outside, White, Quotes
    <3> QED BY <1>2, <1>5, <3>1, <3>2 DEF Takes, Agrees, Modes
  <2> QED BY <2>3, <2>4, <2>5, <2>6, <2>7
<1>8. CASE mode = "line"
  <2>1. Token = InComment
    BY <1>8 DEF Token
  <2>2. Token = Takes(1, IF a = "newline" THEN "plain" ELSE "line", FALSE)
    BY <1>8, <2>1 DEF InComment
  <2>3. st = "line" \/ (st = "dashes" /\ a \in White)
    BY <1>3, <1>8 DEF Agrees
  <2>4. LexState(st, a) = IF a = "newline" THEN "plain" ELSE "line"
    <3> HIDE DEF a, st
    <3> QED BY <1>6, <2>3 DEF LexState, LexOutside, Outside, White, Quotes
  <2>5. CASE a = "newline"
    BY <1>2, <1>5, <2>2, <2>4, <2>5 DEF Takes, Agrees, PlainAgrees, Outside, Modes
  <2>6. CASE a # "newline"
    BY <1>2, <1>5, <2>2, <2>4, <2>6 DEF Takes, Agrees, Modes
  <2> QED BY <2>5, <2>6
<1>9. CASE mode = "block"
  <2>1. Token = InComment
    BY <1>9 DEF Token
  <2>2. st = "block" \/ (st = "block_star" /\ a # "/")
    BY <1>3, <1>9 DEF Agrees
  <2>3. CASE a = "*" /\ b = "/"
    <3>1. Token = Takes(2, "plain", FALSE)
      BY <1>9, <2>1, <2>3 DEF InComment
    <3>2. ServerReads(2).state = "plain"
      BY <1>5, <2>2, <2>3 DEF LexState, LexBlock, Outside
    <3> QED BY <1>2, <2>3, <3>1, <3>2 DEF Takes, Agrees, PlainAgrees, Outside, Modes
  <2>4. CASE ~(a = "*" /\ b = "/")
    <3>1. Token = Takes(1, "block", FALSE)
      BY <1>9, <2>1, <2>4 DEF InComment
    <3>2. LexState(st, a) = "block" \/ (LexState(st, a) = "block_star" /\ b # "/")
      <4> HIDE DEF a, b, st
      <4> QED BY <2>2, <2>4 DEF LexState, LexBlock, Outside
    <3> QED BY <1>2, <1>5, <3>1, <3>2 DEF Takes, Agrees, Modes
  <2> QED BY <2>3, <2>4
<1>10. CASE mode \in Quotes \cup {"tick"}
  <2>1. Token = InQuotes
    BY <1>10 DEF Token, Quotes
  <2>2. QuoteAgrees(mode, esc, st)
    BY <1>3, <1>10 DEF Agrees, Quotes
  <2> HIDE DEF st
  <2>3. CASE mode \in Quotes /\ esc
    <3>1. Token = Takes(1, mode, FALSE)
      BY <2>1, <2>3 DEF InQuotes
    <3>2. LexState(st, a) = mode
      BY <2>2, <2>3 DEF QuoteAgrees, LexState, Outside, Quotes
    <3> HIDE DEF mode
    <3> QED BY <1>2, <1>5, <2>3, <3>1, <3>2 DEF Takes, Agrees, QuoteAgrees, Quotes, Modes
  <2>4. CASE mode \in Quotes /\ ~esc /\ a = "backslash"
    <3>1. Token = Takes(1, mode, TRUE)
      BY <2>1, <2>4 DEF InQuotes
    <3>2. LexState(st, a) = IF mode = "quote" THEN "quote_escape" ELSE "dquote_escape"
      BY <2>2, <2>4 DEF QuoteAgrees, LexState, Outside, Quotes
    <3> HIDE DEF mode, a
    <3> QED BY <1>2, <1>5, <2>4, <3>1, <3>2 DEF Takes, Agrees, QuoteAgrees, Quotes, Modes
  <2>5. CASE ~(mode \in Quotes /\ (esc \/ a = "backslash"))
    <3>1. st = mode /\ ~esc
      BY <1>3, <1>10, <2>2, <2>5 DEF QuoteAgrees, Quotes
    <3>2. CASE a = mode /\ b = mode
      <4>1. Token = Takes(2, mode, FALSE)
        BY <2>1, <2>5, <3>2 DEF InQuotes
      <4>2. LexState(LexState(st, a), b) = mode
        <5> HIDE DEF mode, a, b
        <5> QED BY <1>10, <3>1, <3>2 DEF LexState, LexOutside, Outside, Quotes
      <4>3. b # "end"
        BY <1>10, <3>2 DEF Quotes
      <4> HIDE DEF mode
      <4> QED BY <1>2, <1>5, <1>10, <4>1, <4>2, <4>3 DEF Takes, Agrees, QuoteAgrees, Quotes, Modes
    <3>3. CASE a = mode /\ b # mode
      <4>1. Token = Takes(1, "plain", FALSE)
        BY <2>1, <2>5, <3>3 DEF InQuotes
      <4>2. LexState(st, a) = "plain"
        <5> HIDE DEF mode, a, b
        <5> QED BY <1>10, <3>1, <3>3 DEF LexState, Outside, Quotes
      <4> QED BY <1>2, <1>5, <4>1, <4>2 DEF Takes, Agrees, PlainAgrees, Outside, Modes
    <3>4. CASE a # mode
      <4>1. Token = Takes(1, mode, FALSE)
        BY <2>1, <2>5, <3>4 DEF InQuotes
      <4>2. LexState(st, a) = mode
        <5> HIDE DEF mode, a
        <5> QED BY <1>10, <2>5, <3>1, <3>4 DEF LexState, Outside, Quotes
      <4> HIDE DEF mode
      <4> QED BY <1>2, <1>5, <1>10, <4>1, <4>2 DEF Takes, Agrees, QuoteAgrees, Quotes, Modes
    <3> QED BY <3>2, <3>3, <3>4
  <2> QED BY <2>3, <2>4, <2>5
<1> QED BY <1>3, <1>7, <1>8, <1>9, <1>10 DEF Modes, Quotes

\* Outside the comments and quotes the scanner sees the marks that the server counts.
LEMMA OutsideAgrees ==
  ASSUME TextInv, Turn, Char(1) \in {"(", ")", ",", ";", "@"}
  PROVE  /\ scanner.mode = "plain" <=> lexer.state \in Outside
         /\ Token.take = 1
<1>1. scanner.mode \in Modes /\ Agrees(scanner.mode, scanner.escaped, lexer.state, Char(1), Char(2))
  BY DEF TextInv
<1>2. scanner.mode = "plain" <=> lexer.state \in Outside
  BY <1>1 DEF Agrees, PlainAgrees, QuoteAgrees, Modes, White, Outside, Quotes
<1>3. Token.take = 1
  <2>1. CASE scanner.mode = "plain"
    BY <2>1 DEF Token, InPlain, Takes, Quotes
  <2>2. CASE scanner.mode \in {"line", "block"}
    BY <2>2 DEF Token, InComment, Takes
  <2>3. CASE scanner.mode \in Quotes \cup {"tick"}
    BY <2>3 DEF Token, InQuotes, Takes, Quotes
  <2> QED BY <1>1, <2>1, <2>2, <2>3 DEF Modes
<1> QED BY <1>2, <1>3

\* No more than one mark is taken in a turn.
LEMMA TakesTwo ==
  ASSUME TextInv, Turn, Token.take = 2
  PROVE  /\ Char(1) \notin {"(", ")", ",", ";", "@"}
         /\ Char(2) \notin {"(", ")", ",", ";", "@"}
<1>1. scanner.mode \in Modes
  BY DEF TextInv
<1>2. CASE scanner.mode = "plain"
  <2>1. Token = InPlain
    BY <1>2 DEF Token
  <2>2. InPlain.take = 2 => \/ Char(1) = "-" /\ Char(2) = "-"
                            \/ Char(1) = "/" /\ Char(2) = "*"
    BY DEF InPlain, Takes, Quotes
  <2> QED BY <2>1, <2>2
<1>3. CASE scanner.mode \in {"line", "block"}
  <2>1. Token = InComment
    BY <1>3 DEF Token
  <2>2. InComment.take = 2 => Char(1) = "*" /\ Char(2) = "/"
    BY <1>3 DEF InComment, Takes
  <2> QED BY <2>1, <2>2
<1>4. CASE scanner.mode \in Quotes \cup {"tick"}
  <2>1. Token = InQuotes
    BY <1>4 DEF Token, Quotes
  <2>2. InQuotes.take = 2 => Char(1) = scanner.mode /\ Char(2) = scanner.mode
    BY DEF InQuotes, Takes
  <2> QED BY <1>4, <2>1, <2>2 DEF Quotes
<1> QED BY <1>1, <1>2, <1>3, <1>4 DEF Modes, Quotes

\* What the server counts in a turn, said with the scanner's mode.
LEMMA ServerCounts ==
  ASSUME TextInv, Turn
  PROVE  LET sv == ServerReads(Token.take) IN
         /\ sv = [state |-> sv.state, nesting |-> sv.nesting, commas |-> sv.commas]
         /\ sv.nesting = IF Reads("(") THEN lexer.nesting + 1
                         ELSE IF Reads(")") THEN lexer.nesting - 1 ELSE lexer.nesting
         /\ sv.commas = IF Reads(",") /\ lexer.nesting = 0 /\ lexer.commas < 2
                        THEN lexer.commas + 1 ELSE lexer.commas
<1>0. Token.take = 1 \/ Token.take = 2
  BY TurnAgrees
<1>1. CASE Token.take = 1
  <2>1. ServerReads(Token.take) = Lex(lexer, Char(1))
    BY <1>1 DEF ServerReads
  <2>2. Char(1) \in {"(", ")", ","} => (scanner.mode = "plain" <=> lexer.state \in Outside)
    BY OutsideAgrees
  <2>3. Lex(lexer, Char(1)).nesting = IF Reads("(") THEN lexer.nesting + 1
                         ELSE IF Reads(")") THEN lexer.nesting - 1 ELSE lexer.nesting
    BY <2>2 DEF Lex, Reads
  <2>4. Lex(lexer, Char(1)).commas = IF Reads(",") /\ lexer.nesting = 0 /\ lexer.commas < 2
                        THEN lexer.commas + 1 ELSE lexer.commas
    BY <2>2 DEF Lex, Reads
  <2>5. LET sv == Lex(lexer, Char(1)) IN sv = [state |-> sv.state, nesting |-> sv.nesting, commas |-> sv.commas]
    BY DEF Lex
  <2> QED BY <2>1, <2>3, <2>4, <2>5
<1>2. CASE Token.take = 2
  <2>1. ServerReads(Token.take) = Lex(Lex(lexer, Char(1)), Char(2))
    BY <1>2 DEF ServerReads
  <2>2. /\ Char(1) \notin {"(", ")", ","}
        /\ Char(2) \notin {"(", ")", ","}
    BY <1>2, TakesTwo
  <2>3. /\ Lex(lexer, Char(1)).nesting = lexer.nesting
        /\ Lex(lexer, Char(1)).commas = lexer.commas
    BY <2>2 DEF Lex
  <2>4. /\ Lex(Lex(lexer, Char(1)), Char(2)).nesting = Lex(lexer, Char(1)).nesting
        /\ Lex(Lex(lexer, Char(1)), Char(2)).commas = Lex(lexer, Char(1)).commas
    BY <2>2 DEF Lex
  <2>5. \A v, c : Lex(v, c) = [state |-> Lex(v, c).state, nesting |-> Lex(v, c).nesting, commas |-> Lex(v, c).commas]
    BY DEF Lex
  <2> QED BY <2>1, <2>2, <2>3, <2>4, <2>5 DEF Reads
<1> QED BY <1>0, <1>1, <1>2

\* The commas are not among the marks of the span.
LEMMA SpanCommas ==
  ASSUME TextInv, Turn, reader = "span"
  PROVE  ~Reads(",")
<1>1. Char(1) \in AnyChar /\ Char(1) # "end"
  BY CharType DEF TextInv, Turn
<1>2. AnyChar = Characters \cup {"(", ")", "end"}
  BY MarksAre DEF AnyChar
<1> QED BY <1>1, <1>2 DEF Reads, Characters, Quotes

LEMMA CountsStep ==
  ASSUME TextInv, TextNext
  PROVE  CountsInv'
<1>1. Turn /\ CountsInv /\ reader \in Readers
  BY DEF TextNext, SplitStatements, ExtractVariable, SplitArguments, FindSpan, TextInv
<1>2. lexer' = ServerReads(Token.take) /\ reader' = reader
  BY <1>1 DEF Turn
<1> DEFINE n == lexer.nesting
           c == lexer.commas
<1>3. /\ lexer'.nesting = IF Reads("(") THEN n + 1 ELSE IF Reads(")") THEN n - 1 ELSE n
      /\ lexer'.commas = IF Reads(",") /\ n = 0 /\ c < 2 THEN c + 1 ELSE c
  BY <1>1, <1>2, ServerCounts
<1>4. n \in Int /\ c \in Int
  BY <1>1 DEF CountsInv
<1>5. lexer'.nesting \in Int /\ lexer'.commas \in Int
  <2>1. lexer'.nesting \in {n, n + 1, n - 1} /\ lexer'.commas \in {c, c + 1}
    BY <1>3
  <2> QED BY <1>4, <2>1
<1>6. counts \in [depth : Int, commas : Int, returned : BOOLEAN]
  BY <1>1 DEF CountsInv
<1>7. CASE SplitStatements
  <2>1. reader = "split" /\ counts' = counts
    BY <1>7 DEF SplitStatements
  <2> QED BY <1>2, <1>5, <1>6, <2>1 DEF CountsInv, ArgumentsAsServerReads
<1>8. CASE ExtractVariable
  <2>1. reader = "variable" /\ counts' = [counts EXCEPT !.returned = Reads("@") /\ Char(2) = "a"]
    BY <1>8 DEF ExtractVariable
  <2>2. (Reads("@") /\ Char(2) = "a") \in BOOLEAN
    BY DEF Reads
  <2>3. counts' \in [depth : Int, commas : Int, returned : BOOLEAN]
    BY <1>6, <2>1, <2>2
  <2> QED BY <1>2, <1>5, <2>1, <2>3 DEF CountsInv, ArgumentsAsServerReads
<1>9. CASE SplitArguments
  <2>1. reader = "arguments"
    BY <1>9 DEF SplitArguments
  <2>2. counts.depth = n /\ counts.commas = c
    BY <1>1, <2>1 DEF CountsInv, ArgumentsAsServerReads
  <2>3. counts' = CASE Reads("(") -> [counts EXCEPT !.depth = @ + 1]
                    [] Reads(")") -> [counts EXCEPT !.depth = IF @ = 0 THEN 0 ELSE @ - 1]
                    [] Reads(",") /\ counts.depth = 0 ->
                         [counts EXCEPT !.commas = IF @ < 2 THEN @ + 1 ELSE @]
                    [] OTHER -> counts
    BY <1>9 DEF SplitArguments
  <2>4. Reads(")") => n > 0
    <3>1. Reads(")") => lexer.state \in Outside
      BY <1>1, OutsideAgrees DEF Reads
    <3> QED BY <1>1, <2>1, <3>1 DEF Turn, Reads
  <2>5. CASE Reads("(")
    <3>1. counts' = [counts EXCEPT !.depth = n + 1]
      BY <2>2, <2>3, <2>5 DEF Reads
    <3>2. counts' \in [depth : Int, commas : Int, returned : BOOLEAN] /\ counts'.depth = n + 1 /\ counts'.commas = c
      BY <1>4, <1>6, <2>2, <3>1
    <3>3. lexer'.nesting = n + 1 /\ lexer'.commas = c
      BY <1>3, <2>5 DEF Reads
    <3> QED BY <1>5, <3>2, <3>3 DEF CountsInv, ArgumentsAsServerReads
  <2>6. CASE Reads(")")
    <3>0. counts' = [counts EXCEPT !.depth = IF @ = 0 THEN 0 ELSE @ - 1]
      BY <2>3, <2>6 DEF Reads
    <3>1. counts' = [counts EXCEPT !.depth = n - 1]
      BY <1>4, <2>2, <2>4, <2>6, <3>0
    <3>2. counts' \in [depth : Int, commas : Int, returned : BOOLEAN] /\ counts'.depth = n - 1 /\ counts'.commas = c
      BY <1>4, <1>6, <2>2, <3>1
    <3>3. lexer'.nesting = n - 1 /\ lexer'.commas = c
      BY <1>3, <2>6 DEF Reads
    <3> QED BY <1>5, <3>2, <3>3 DEF CountsInv, ArgumentsAsServerReads
  <2>7. CASE Reads(",") /\ n = 0
    <3>1. counts' = [counts EXCEPT !.commas = IF c < 2 THEN c + 1 ELSE c]
      BY <2>2, <2>3, <2>7 DEF Reads
    <3>2. counts' \in [depth : Int, commas : Int, returned : BOOLEAN] /\ counts'.depth = n
          /\ counts'.commas = IF c < 2 THEN c + 1 ELSE c
      BY <1>4, <1>6, <2>2, <3>1
    <3>3. lexer'.nesting = n /\ lexer'.commas = IF c < 2 THEN c + 1 ELSE c
      BY <1>3, <2>7 DEF Reads
    <3> QED BY <1>5, <3>2, <3>3 DEF CountsInv, ArgumentsAsServerReads
  <2>8. CASE ~Reads("(") /\ ~Reads(")") /\ ~(Reads(",") /\ n = 0)
    <3>1. counts' = counts
      BY <2>2, <2>3, <2>8
    <3>2. lexer'.nesting = n /\ lexer'.commas = c
      BY <1>3, <2>8
    <3> QED BY <1>5, <1>6, <2>2, <3>1, <3>2 DEF CountsInv, ArgumentsAsServerReads
  <2> QED BY <2>5, <2>6, <2>7, <2>8
<1>10. CASE FindSpan
  <2>1. reader = "span" /\ ~Reads(",")
    BY <1>1, <1>10, SpanCommas DEF FindSpan
  <2>2. counts.depth = n /\ counts.commas = c
    BY <1>1, <2>1 DEF CountsInv, ArgumentsAsServerReads
  <2>3. counts' = CASE Reads("(") -> [counts EXCEPT !.depth = @ + 1]
                    [] Reads(")") -> [depth |-> counts.depth - 1, commas |-> counts.commas,
                                      returned |-> counts.depth = 1]
                    [] OTHER -> counts
    BY <1>10 DEF FindSpan
  <2>4. lexer'.commas = c
    BY <1>3, <2>1
  <2>5. CASE Reads("(")
    <3>1. counts' = [counts EXCEPT !.depth = n + 1]
      BY <2>2, <2>3, <2>5 DEF Reads
    <3>2. counts' \in [depth : Int, commas : Int, returned : BOOLEAN] /\ counts'.depth = n + 1 /\ counts'.commas = c
      BY <1>4, <1>6, <2>2, <3>1
    <3>3. lexer'.nesting = n + 1
      BY <1>3, <2>5
    <3> QED BY <1>5, <2>4, <3>2, <3>3 DEF CountsInv, ArgumentsAsServerReads
  <2>6. CASE Reads(")")
    <3>1. counts' = [depth |-> n - 1, commas |-> c, returned |-> n = 1]
      BY <2>2, <2>3, <2>6 DEF Reads
    <3>2. counts' \in [depth : Int, commas : Int, returned : BOOLEAN] /\ counts'.depth = n - 1 /\ counts'.commas = c
      BY <1>4, <1>6, <2>2, <3>1
    <3>3. lexer'.nesting = n - 1
      BY <1>3, <2>6 DEF Reads
    <3> QED BY <1>5, <2>4, <3>2, <3>3 DEF CountsInv, ArgumentsAsServerReads
  <2>7. CASE ~Reads("(") /\ ~Reads(")")
    <3>1. counts' = counts
      BY <2>3, <2>7
    <3>2. lexer'.nesting = n
      BY <1>3, <2>7
    <3> QED BY <1>5, <1>6, <2>2, <2>4, <3>1, <3>2 DEF CountsInv, ArgumentsAsServerReads
  <2> QED BY <2>5, <2>6, <2>7
<1> QED BY <1>7, <1>8, <1>9, <1>10 DEF TextNext

LEMMA TextStep ==
  ASSUME TextInv, TextNext
  PROVE  TextInv'
<1>1. Turn /\ reader \in Readers /\ ahead \in UpTo3(Characters \cup Marks[reader])
  BY DEF TextNext, SplitStatements, ExtractVariable, SplitArguments, FindSpan, TextInv
<1>2. /\ scanner' = [mode |-> Token.mode, escaped |-> Token.escaped]
      /\ Advance(Token.take)
      /\ lexer' = ServerReads(Token.take)
      /\ reader' = reader
  BY <1>1 DEF Turn
<1>3. /\ Token.take \in 1..2 /\ Token.take <= Len(ahead)
      /\ Token.mode \in Modes /\ Token.escaped \in BOOLEAN
  BY <1>1, TurnAgrees
<1>4. /\ ahead' \in UpTo3(Characters \cup Marks[reader])
      /\ \A k \in 1..2 : k + Token.take <= 3 => Char(k)' = Char(k + Token.take)
  BY <1>1, <1>2, <1>3, CharAhead
<1>5. /\ Token.take = 1 => Char(1)' = Char(2) /\ Char(2)' = Char(3)
      /\ Token.take = 2 => Char(1)' = Char(3)
  <2>1. Token.take = 1 => Char(1)' = Char(1 + 1) /\ Char(2)' = Char(2 + 1)
    BY <1>4
  <2>2. Token.take = 2 => Char(1)' = Char(1 + 2)
    BY <1>4
  <2> QED BY <2>1, <2>2
<1>6. Agrees(Token.mode, Token.escaped, ServerReads(Token.take).state, Char(1)', Char(2)')
  BY <1>1, <1>5, TurnAgrees
<1>7. Agrees(scanner'.mode, scanner'.escaped, lexer'.state, Char(1)', Char(2)')
  BY <1>2, <1>6
<1>8. scanner' \in [mode : Modes, escaped : BOOLEAN]
  BY <1>2, <1>3
<1>9. lexer' = [state |-> lexer'.state, nesting |-> lexer'.nesting, commas |-> lexer'.commas]
  BY <1>1, <1>2, ServerCounts
<1>10. CountsInv'
  BY CountsStep
<1> QED BY <1>1, <1>2, <1>4, <1>7, <1>8, <1>9, <1>10 DEF TextInv

LEMMA TextBegins ==
  ASSUME TextInit
  PROVE  TextInv
<1>1. CountsInv
  BY DEF TextInit, CountsInv, ArgumentsAsServerReads
<1>2. Agrees(scanner.mode, scanner.escaped, lexer.state, Char(1), Char(2))
  BY DEF TextInit, Agrees, PlainAgrees, Outside
<1> QED BY <1>1, <1>2 DEF TextInit, TextInv, Modes

\* While it runs, the scanner is outside quotes and comments where the server is.
LEMMA TextReads ==
  ASSUME TextInv
  PROVE  ReadAsServerReads
<1>1. scanner.mode \in Modes /\ Agrees(scanner.mode, scanner.escaped, lexer.state, Char(1), Char(2))
  BY DEF TextInv
<1>2. Char(1) \in Marks[reader] => (scanner.mode = "plain" <=> lexer.state \in Outside)
  <2>1. Marks[reader] \subseteq {";", "@", "(", ")", ","}
    <3>1. CASE reader = "split"
      BY <3>1, MarksAre
    <3>2. CASE reader = "variable"
      BY <3>2, MarksAre
    <3>3. CASE reader = "arguments"
      BY <3>3, MarksAre
    <3>4. CASE reader = "span"
      BY <3>4, MarksAre
    <3> QED BY <3>1, <3>2, <3>3, <3>4, MarksAre DEF TextInv
  <2>2. Char(1) \in {";", "@", "(", ")", ","} => Char(1) \notin White
    BY DEF White
  <2> QED BY <1>1, <2>1, <2>2 DEF Agrees, PlainAgrees, QuoteAgrees, Modes, White, Outside, Quotes
<1>3. scanner.mode \in Quotes \cup {"tick", "block"} <=> lexer.state \in Inside
  BY <1>1 DEF Agrees, PlainAgrees, QuoteAgrees, Modes, White, Outside, Inside, Quotes
<1>4. ArgumentsAsServerReads
  BY DEF TextInv, CountsInv
<1> QED BY <1>2, <1>3, <1>4 DEF ReadAsServerReads, MarksAsServerReads

\* The four scanners of sql_workspace.py read every text of the characters of SqlText,
\* however long and deeply nested, as the lexer there does: a statement ends and an
\* argument begins where the server ends and begins it, and none inside a quote or a
\* comment.  Bodies of stored programs are not among the texts: the splitter cuts them.
THEOREM TextReadAsServerReads ==
  TextSpec => []ReadAsServerReads
<1>1. TextInv /\ [TextNext]_textVars => TextInv'
  <2>1. ASSUME TextInv, UNCHANGED textVars PROVE TextInv'
    BY <2>1 DEF textVars, TextInv, CountsInv, ArgumentsAsServerReads, Char
  <2> QED BY <2>1, TextStep
<1> QED BY <1>1, TextBegins, TextReads, PTL DEF TextSpec

-----------------------------------------------------------------------------
(* HeatWaveStatus.  What a row says of the load is true of the moment it   *)
(* was read, so it stays true while the server goes on; a table has one    *)
(* row at most, so that the pages, which each find the row for themselves, *)
(* count the same tables.                                                  *)

LoadStates == {"loaded", "partial", "not_loaded"}
Present == {"avail", "stale"}

\* What was loaded has its entry, and a load never ends half way.
RowTrue(row) ==
    /\ row.table \in HTables
    /\ LoadState(row) \in LoadStates
    /\ LoadState(row) = "loaded" => row.was \in Present

HeatWaveInv ==
    /\ server \in Servers
    /\ configured \subseteq HTables /\ lakehouse \subseteq HTables
    /\ rpd \in [HTables -> RpdEntries]
    /\ \A row \in page.inventory : RowTrue(row)
    /\ \A row, other \in page.inventory : row.table = other.table => row = other
    /\ page.configured \subseteq {t \in HTables : SchemaOf[t] \notin SystemSchemas}
    /\ page.lakehouse \subseteq HTables
    /\ page = [inventory |-> page.inventory, configured |-> page.configured,
               lakehouse |-> page.lakehouse, errors |-> page.errors]

LEMMA EntryProgress ==
  ASSUME NEW e \in RpdEntries
  PROVE  e.progress \in Nat /\ e.progress <= 10000
<1>1. CASE e \in {Absent, Known}
  BY <1>1 DEF Absent, Known
<1>2. CASE e \in {Available, Stale}
  BY <1>2 DEF Available, Stale
<1>3. CASE e \in Loads
  <2>1. PICK p \in PartProgress : e = [state |-> "loading", progress |-> p]
    BY <1>3 DEF Loads
  <2>2. p \in 0 .. 9998
    BY HeatWaveAssumption
  <2> QED BY <2>1, <2>2
<1> QED BY <1>1, <1>2, <1>3 DEF RpdEntries

LEMMA RowsAreTrue ==
  ASSUME server \in Servers, rpd \in [HTables -> RpdEntries], 100 \notin PartProgress,
         NEW t \in HTables, rpd[t] # Absent
  PROVE  RowTrue(InventoryRow(t)) /\ InventoryRow(t).table = t
<1> DEFINE row == InventoryRow(t)
           e == rpd[t]
<1>1. /\ row.table = t /\ row.was = e.state
      /\ row.progress = IF ~(e # Known /\ "progress" \in server.columns) THEN None
                        ELSE IF server.unit = "percent" THEN e.progress ELSE e.progress \div 100
      /\ row.status = IF e # Known /\ "status" \in server.columns THEN Word(e.state) ELSE None
      /\ e = Known \/ e.state = "loading" => ~row.ended
  BY DEF InventoryRow
<1>2. e \in RpdEntries
  OBVIOUS
<1> HIDE DEF e, row
<1>3. e.progress \in Nat /\ e.progress <= 10000
  BY <1>2, EntryProgress
<1> DEFINE pct == Percent(row.progress)
           told == row.progress # None
<1>4. told => /\ pct \in Nat
              /\ row.progress = e.progress \/ row.progress = e.progress \div 100
              /\ server.unit # "percent" => row.progress = e.progress \div 100
              /\ server.unit = "percent" => row.progress = e.progress
  <2>0. \A p \in Nat : p \div 100 \in Nat
    OBVIOUS
  <2>1. e.progress \div 100 \in Nat
    BY <1>3, <2>0
  <2>2. told => /\ row.progress = e.progress \/ row.progress = e.progress \div 100
                /\ server.unit # "percent" => row.progress = e.progress \div 100
                /\ server.unit = "percent" => row.progress = e.progress
    BY <1>1
  <2>3. told => row.progress \in Nat
    BY <1>3, <2>1, <2>2
  <2>4. told => pct \in Nat
    BY <2>3 DEF Percent
  <2> QED BY <2>2, <2>4
<1>5. /\ told => LoadState(row) = IF pct >= 9999 THEN "loaded" ELSE IF pct > 0 THEN "partial" ELSE "not_loaded"
      /\ ~told => LoadState(row) = IF row.status = "loaded" \/ row.ended THEN "loaded" ELSE "partial"
  <2>1. ~told => LoadState(row) = IF row.status = "loaded" \/ row.ended THEN "loaded" ELSE "partial"
    BY DEF LoadState, SaysLoaded
  <2>2. told => LoadState(row) = IF pct >= 9999 THEN "loaded" ELSE IF pct > 0 THEN "partial" ELSE "not_loaded"
    BY DEF LoadState
  <2> QED BY <2>1, <2>2
<1>6. LoadState(row) \in LoadStates
  <2> HIDE DEF pct, told
  <2>1. CASE told
    BY <1>5, <2>1 DEF LoadStates
  <2>2. CASE ~told
    BY <1>5, <2>2 DEF LoadStates
  <2> QED BY <2>1, <2>2
<1>7. LoadState(row) = "loaded" => row.was \in Present
  <2>1. CASE e \in {Available, Stale}
    BY <1>1, <2>1 DEF Present, Available, Stale
  <2>2. CASE e = Known
    <3>1. ~told /\ row.status = None /\ ~row.ended
      BY <1>1, <2>2
    <3>2. row.status # "loaded"
      BY <3>1, HeatWaveAssumption
    <3> QED BY <1>5, <3>1, <3>2
  <2>3. CASE e \in Loads
    <3>1. PICK p \in PartProgress : e = [state |-> "loading", progress |-> p]
      BY <2>3 DEF Loads
    <3>2. p \in Nat /\ p <= 9998 /\ p # 100 /\ e.progress = p /\ e.state = "loading"
      <4>0. p \in 0 .. 9998
        BY HeatWaveAssumption
      <4>1. p \in Nat /\ p <= 9998
        BY <4>0
      <4>2. e.progress = p /\ e.state = "loading"
        BY <3>1
      <4> QED BY <4>1, <4>2
    <3>3. ~row.ended
      BY <1>1, <3>2
    <3>4. row.status # "loaded"
      <4>1. Word("loading") # "loaded"
        BY DEF Word
      <4>2. None # "loaded"
        BY HeatWaveAssumption
      <4> QED BY <1>1, <3>2, <4>1, <4>2
    <3>5. told => pct < 9999
      <4>1. CASE told /\ server.unit = "percent"
        <5>1. row.progress = p
          BY <1>4, <3>2, <4>1
        <5>2. Percent(p) < 9999
          BY <3>2 DEF Percent
        <5> QED BY <5>1, <5>2
      <4>2. CASE told /\ server.unit # "percent"
        <5>1. row.progress = p \div 100
          BY <1>4, <3>2, <4>2
        <5>2. p \div 100 \in Nat /\ p \div 100 <= 99
          BY <3>2
        <5>3. Percent(p \div 100) < 9999
          BY <5>2 DEF Percent
        <5> QED BY <5>1, <5>3
      <4> QED BY <4>1, <4>2
    <3> HIDE DEF pct, told
    <3>6. CASE told
      <4>1. ~(pct >= 9999)
        BY <1>4, <3>5, <3>6
      <4> QED BY <1>5, <3>6, <4>1
    <3>7. CASE ~told
      BY <1>5, <3>3, <3>4, <3>7
    <3> QED BY <3>6, <3>7
  <2>4. e \in {Available, Stale} \/ e = Absent \/ e = Known \/ e \in Loads
    BY <1>2 DEF RpdEntries
  <2>5. e # Absent
    BY DEF e
  <2> QED BY <2>1, <2>2, <2>3, <2>4, <2>5
<1>8. RowTrue(row) /\ row.table = t
  BY <1>1, <1>6, <1>7 DEF RowTrue
<1> QED BY <1>8 DEF row, e

LEMMA HeatWaveBegins ==
  ASSUME HeatWaveInit
  PROVE  HeatWaveInv
BY DEF HeatWaveInit, HeatWaveInv, NoPage

LEMMA HeatWaveStep ==
  ASSUME 100 \notin PartProgress, HeatWaveInv, [HeatWaveNext]_heatwaveVars
  PROVE  HeatWaveInv'
<1>1. CASE UNCHANGED heatwaveVars
  BY <1>1 DEF HeatWaveInv, heatwaveVars, RowTrue
<1>2. CASE ReadInventory
  <2>1. CASE page' = [NoPage EXCEPT !.errors = {"inventory"}]
    BY <1>2, <2>1 DEF HeatWaveInv, ReadInventory, NoPage
  <2>2. CASE page' = [NoPage EXCEPT !.inventory = {InventoryRow(t) : t \in {u \in HTables : rpd[u] # Absent}}]
    <3>1. \A row \in page'.inventory : \E t \in HTables : rpd[t] # Absent /\ row = InventoryRow(t)
      BY <2>2 DEF NoPage
    <3>2. \A t \in HTables : rpd[t] # Absent => RowTrue(InventoryRow(t)) /\ InventoryRow(t).table = t
      BY RowsAreTrue DEF HeatWaveInv
    <3>3. \A row \in page'.inventory : RowTrue(row)
      BY <3>1, <3>2
    <3>4. \A row, other \in page'.inventory : row.table = other.table => row = other
      BY <3>1, <3>2
    <3>5. /\ page'.configured = {} /\ page'.lakehouse = {}
          /\ page' = [inventory |-> page'.inventory, configured |-> page'.configured,
                      lakehouse |-> page'.lakehouse, errors |-> page'.errors]
      BY <2>2 DEF NoPage
    <3>6. \A row : RowTrue(row)' = RowTrue(row)
      BY DEF RowTrue
    <3> QED BY <1>2, <3>3, <3>4, <3>5 DEF HeatWaveInv, ReadInventory, RowTrue
  <2> QED BY <1>2, <2>1, <2>2 DEF ReadInventory
<1>3. CASE ReadConfigured
  <2>1. page'.configured = {t \in configured : SchemaOf[t] \notin SystemSchemas} \/ page'.configured = page.configured
    BY <1>3 DEF ReadConfigured, HeatWaveInv
  <2>2. /\ page'.inventory = page.inventory /\ page'.lakehouse = page.lakehouse
        /\ page' = [inventory |-> page'.inventory, configured |-> page'.configured,
                    lakehouse |-> page'.lakehouse, errors |-> page'.errors]
    BY <1>3 DEF ReadConfigured, HeatWaveInv
  <2> QED BY <1>3, <2>1, <2>2 DEF HeatWaveInv, ReadConfigured, RowTrue
<1>4. CASE ReadLakehouse
  <2>1. page'.lakehouse = lakehouse \/ page'.lakehouse = page.lakehouse
    BY <1>4 DEF ReadLakehouse, HeatWaveInv
  <2>2. /\ page'.inventory = page.inventory /\ page'.configured = page.configured
        /\ page' = [inventory |-> page'.inventory, configured |-> page'.configured,
                    lakehouse |-> page'.lakehouse, errors |-> page'.errors]
    BY <1>4 DEF ReadLakehouse, HeatWaveInv
  <2> QED BY <1>4, <2>1, <2>2 DEF HeatWaveInv, ReadLakehouse, RowTrue
<1>5. CASE NextPage
  BY <1>5 DEF NextPage, HeatWaveInv, NoPage, RowTrue
<1>6. ASSUME NEW t \in HTables, RpdChanges(t) PROVE HeatWaveInv'
  <2>1. PICK e : rpd' = [rpd EXCEPT ![t] = e] /\ e \in RpdEntries
    <3>1. PICK e \in CASE rpd[t] = Absent -> IF t \in configured THEN {Known} \cup Loads ELSE {}
                      [] rpd[t] = Known -> {Absent} \cup Loads
                      [] rpd[t] \in Loads -> {Absent, Known, Available} \cup Loads
                      [] rpd[t] = Available -> {Absent, Stale}
                      [] rpd[t] = Stale -> {Absent} :
                rpd' = [rpd EXCEPT ![t] = e]
      BY <1>6 DEF RpdChanges
    <3>2. rpd[t] \in RpdEntries
      BY DEF HeatWaveInv
    <3>3. /\ Absent.state = "absent" /\ Known.state = "known"
          /\ Available.state = "avail" /\ Stale.state = "stale"
          /\ \A l \in Loads : l.state = "loading"
      BY DEF Absent, Known, Available, Stale, Loads
    <3>4. e \in RpdEntries
      <4>1. CASE rpd[t] = Absent
        BY <3>1, <3>3, <4>1 DEF RpdEntries
      <4>2. CASE rpd[t] = Known
        BY <3>1, <3>3, <4>2 DEF RpdEntries
      <4>3. CASE rpd[t] \in Loads
        BY <3>1, <3>3, <4>3 DEF RpdEntries
      <4>4. CASE rpd[t] \in {Available, Stale}
        BY <3>1, <3>3, <4>4 DEF RpdEntries
      <4> QED BY <3>2, <4>1, <4>2, <4>3, <4>4 DEF RpdEntries
    <3> QED BY <3>1, <3>4
  <2>2. rpd' \in [HTables -> RpdEntries]
    BY <2>1 DEF HeatWaveInv
  <2> QED BY <1>6, <2>2 DEF HeatWaveInv, RpdChanges, RowTrue
<1>7. ASSUME NEW t \in HTables, Configure(t) PROVE HeatWaveInv'
  BY <1>7 DEF HeatWaveInv, Configure, RowTrue
<1> QED BY <1>1, <1>2, <1>3, <1>4, <1>5, <1>6, <1>7 DEF HeatWaveNext

\* What DashboardTotal computes: f is its function total.
Totalling(f, metric) ==
    f = [schemas \in SUBSET DashboardSchemas |->
            IF schemas = {} THEN 0
            ELSE DashboardRow(CHOOSE x \in schemas : TRUE)[metric]
                 + f[schemas \ {CHOOSE x \in schemas : TRUE}]]

\* The tables of R that are in one of the schemas.
OfSchemas(R, schemas) == {t \in R : SchemaOf[t] \in schemas}

LEMMA OneSchemaLess ==
  ASSUME NEW R, IsFiniteSet(R), NEW schemas, NEW x \in schemas
  PROVE  /\ IsFiniteSet(OfSchemas(R, schemas))
         /\ Cardinality(OfSchemas(R, schemas)) =
                Cardinality(In(x, R)) + Cardinality(OfSchemas(R, schemas \ {x}))
<1> DEFINE A == In(x, R)
           B == OfSchemas(R, schemas \ {x})
<1>1. A \subseteq R /\ B \subseteq R /\ A \cap B = {} /\ A \cup B = OfSchemas(R, schemas)
  BY DEF In, OfSchemas
<1> HIDE DEF A, B
<1>2. IsFiniteSet(A) /\ IsFiniteSet(B)
  BY <1>1, FS_Subset
<1>3. Cardinality(A \cap B) = 0
  BY <1>1, FS_EmptySet
<1>4. /\ IsFiniteSet(A \cup B)
      /\ Cardinality(A \cup B) = Cardinality(A) + Cardinality(B) - Cardinality(A \cap B)
  BY <1>2, FS_Union
<1>5. Cardinality(A) \in Nat /\ Cardinality(B) \in Nat
  BY <1>2, FS_CardinalityType
<1>6. /\ IsFiniteSet(OfSchemas(R, schemas))
      /\ Cardinality(OfSchemas(R, schemas)) = Cardinality(A) + Cardinality(B)
  <2>1. Cardinality(A \cup B) = Cardinality(A) + Cardinality(B)
    BY <1>3, <1>4, <1>5
  <2> QED BY <1>1, <1>4, <2>1
<1> QED BY <1>6 DEF A, B

\* A sum over the schemas of the tables in each is the number of tables in all.
LEMMA TotalCounts ==
  ASSUME NEW metric, NEW R, IsFiniteSet(R), IsFiniteSet(DashboardSchemas),
         \A x \in DashboardSchemas : DashboardRow(x)[metric] = Cardinality(In(x, R))
  PROVE  DashboardTotal(metric) = Cardinality(OfSchemas(R, DashboardSchemas))
<1> DEFINE D == DashboardSchemas
           g == CHOOSE f : f = [schemas \in SUBSET DashboardSchemas |->
                    IF schemas = {} THEN 0
                    ELSE DashboardRow(CHOOSE x \in schemas : TRUE)[metric]
                         + f[schemas \ {CHOOSE x \in schemas : TRUE}]]
           h == [schemas \in SUBSET D |-> Cardinality(OfSchemas(R, schemas))]
<1>1. DashboardTotal(metric) = g[D]
  BY DEF DashboardTotal
<1>2. \A schemas \in SUBSET D : schemas # {} =>
        /\ (CHOOSE x \in schemas : TRUE) \in schemas
        /\ schemas \ {CHOOSE x \in schemas : TRUE} \in SUBSET D
  OBVIOUS
<1>3. \A schemas \in SUBSET D :
        Cardinality(OfSchemas(R, schemas)) =
          IF schemas = {} THEN 0
          ELSE DashboardRow(CHOOSE x \in schemas : TRUE)[metric]
               + Cardinality(OfSchemas(R, schemas \ {CHOOSE x \in schemas : TRUE}))
  <2> SUFFICES ASSUME NEW schemas \in SUBSET D
               PROVE  Cardinality(OfSchemas(R, schemas)) =
                        IF schemas = {} THEN 0
                        ELSE DashboardRow(CHOOSE x \in schemas : TRUE)[metric]
                             + Cardinality(OfSchemas(R, schemas \ {CHOOSE x \in schemas : TRUE}))
    OBVIOUS
  <2>1. CASE schemas = {}
    <3>1. OfSchemas(R, schemas) = {}
      BY <2>1 DEF OfSchemas
    <3> QED BY <2>1, <3>1, FS_EmptySet
  <2>2. CASE schemas # {}
    <3> DEFINE x == CHOOSE y \in schemas : TRUE
    <3>1. x \in schemas
      BY <2>2
    <3> HIDE DEF x
    <3>2. Cardinality(OfSchemas(R, schemas)) =
            Cardinality(In(x, R)) + Cardinality(OfSchemas(R, schemas \ {x}))
      BY <3>1, OneSchemaLess
    <3>3. DashboardRow(x)[metric] = Cardinality(In(x, R))
      BY <3>1
    <3>4. Cardinality(OfSchemas(R, schemas)) = DashboardRow(x)[metric] + Cardinality(OfSchemas(R, schemas \ {x}))
      BY <3>2, <3>3
    <3> QED BY <2>2, <3>4 DEF x
  <2> QED BY <2>1, <2>2
<1>4. \A schemas \in SUBSET D :
        h[schemas] = IF schemas = {} THEN 0
                     ELSE DashboardRow(CHOOSE x \in schemas : TRUE)[metric]
                          + h[schemas \ {CHOOSE x \in schemas : TRUE}]
  <2> SUFFICES ASSUME NEW schemas \in SUBSET D
               PROVE  h[schemas] = IF schemas = {} THEN 0
                                   ELSE DashboardRow(CHOOSE x \in schemas : TRUE)[metric]
                                        + h[schemas \ {CHOOSE x \in schemas : TRUE}]
    OBVIOUS
  <2>1. schemas # {} => h[schemas \ {CHOOSE x \in schemas : TRUE}]
                          = Cardinality(OfSchemas(R, schemas \ {CHOOSE x \in schemas : TRUE}))
    BY <1>2
  <2>2. h[schemas] = Cardinality(OfSchemas(R, schemas))
    OBVIOUS
  <2> HIDE DEF h
  <2> QED BY <1>3, <2>1, <2>2
<1>5. h = [schemas \in SUBSET D |-> h[schemas]]
  OBVIOUS
<1>6. Totalling(h, metric)
  <2> HIDE DEF h
  <2> QED BY <1>4, <1>5 DEF Totalling
<1>7. Totalling(g, metric)
  BY <1>6 DEF Totalling
<1> HIDE DEF g, h
<1>8. \A schemas \in SUBSET D :
        g[schemas] = IF schemas = {} THEN 0
                     ELSE DashboardRow(CHOOSE x \in schemas : TRUE)[metric]
                          + g[schemas \ {CHOOSE x \in schemas : TRUE}]
  BY <1>7 DEF Totalling
<1> DEFINE T == {n \in Nat : \E schemas \in SUBSET D : Cardinality(schemas) = n /\ g[schemas] # h[schemas]}
<1>9. T = {}
  <2>1. SUFFICES ASSUME T # {} PROVE FALSE
    OBVIOUS
  <2>2. T \subseteq Nat
    OBVIOUS
  <2>3. PICK m \in T : \A k \in T : m <= k
    BY <2>1, <2>2, LeastNat
  <2>4. PICK schemas \in SUBSET D : Cardinality(schemas) = m /\ g[schemas] # h[schemas]
    OBVIOUS
  <2>5. \A n \in Nat, less \in SUBSET D : Cardinality(less) = n /\ n < m => g[less] = h[less]
    <3> SUFFICES ASSUME NEW n \in Nat, NEW less \in SUBSET D, Cardinality(less) = n, n < m, g[less] # h[less]
                 PROVE  FALSE
      OBVIOUS
    <3>1. n \in T
      OBVIOUS
    <3>2. m \in Nat /\ m <= n
      BY <2>3, <3>1
    <3> QED BY <3>2
  <2> DEFINE x == CHOOSE y \in schemas : TRUE
  <2>6. schemas # {}
    BY <1>4, <1>8, <2>4
  <2>7. x \in schemas /\ schemas \ {x} \in SUBSET D
    BY <2>6
  <2>8. g[schemas] = DashboardRow(x)[metric] + g[schemas \ {x}]
    BY <1>8, <2>6
  <2>9. h[schemas] = DashboardRow(x)[metric] + h[schemas \ {x}]
    BY <1>4, <2>6
  <2> HIDE DEF x, T
  <2>10. IsFiniteSet(schemas)
    BY FS_Subset
  <2>11. m \in Nat /\ Cardinality(schemas \ {x}) \in Nat /\ Cardinality(schemas \ {x}) < m
    <3>1. IsFiniteSet(schemas \ {x}) /\ Cardinality(schemas \ {x}) = Cardinality(schemas) - 1
      BY <2>7, <2>10, FS_RemoveElement
    <3>2. Cardinality(schemas) \in Nat /\ Cardinality(schemas \ {x}) \in Nat
      BY <2>10, <3>1, FS_CardinalityType
    <3> QED BY <2>4, <3>1, <3>2
  <2>12. g[schemas \ {x}] = h[schemas \ {x}]
    BY <2>5, <2>7, <2>11
  <2> QED BY <2>4, <2>8, <2>9, <2>12
<1>10. g[D] = h[D]
  <2>1. Cardinality(D) \in Nat
    BY FS_CardinalityType
  <2> QED BY <1>9, <2>1
<1> QED BY <1>1, <1>10 DEF h

\* The tables that the pages count, and those of them in a state.
Counted == page.configured \cup Tracked
CountedAs(metric) == {t \in Counted : metric \in {"heatwave", TableState(t)}}

\* What the pages look up for a table.
LEMMA LookedUp ==
  ASSUME HeatWaveInv
  PROVE  /\ Tracked \subseteq HTables /\ Counted \subseteq HTables
         /\ \A row \in page.inventory : RowFor(row.table) = row
         /\ \A t \in Tracked : RowFor(t) \in page.inventory /\ RowFor(t).table = t
         /\ \A t : TableState(t) \in LoadStates /\ DashboardState(t) = TableState(t)
<1>1. /\ \A row \in page.inventory : RowTrue(row)
      /\ \A row, other \in page.inventory : row.table = other.table => row = other
      /\ page.configured \subseteq HTables
  BY DEF HeatWaveInv
<1>2. Tracked \subseteq HTables
  BY <1>1 DEF Tracked, RowTrue
<1>3. \A t \in Tracked : RowFor(t) \in page.inventory /\ RowFor(t).table = t
  BY DEF Tracked, RowFor
<1>4. \A row \in page.inventory : RowFor(row.table) = row
  BY <1>1, <1>3 DEF Tracked
<1>5. \A t : TableState(t) \in LoadStates
  BY <1>1, <1>3 DEF TableState, RowTrue, LoadStates
<1>6. \A t : DashboardState(t) = TableState(t)
  BY DEF DashboardState, TableState, TrackedStates
<1> QED BY <1>1, <1>2, <1>3, <1>4, <1>5, <1>6 DEF Counted

Metrics == {"heatwave"} \cup LoadStates

\* A row of the dashboard counts what the management page counts.
LEMMA RowCounts ==
  ASSUME HeatWaveInv, NEW schema
  PROVE  /\ DashboardRow(schema) = ManagementRow(schema)
         /\ \A metric \in Metrics : DashboardRow(schema)[metric] = Cardinality(In(schema, CountedAs(metric)))
<1> DEFINE D == DashboardTables(schema)
           f == [t \in HTables |-> DashboardState(t)]
           g == [t \in HTables |-> TableState(t)]
<1>1. f = g
  BY LookedUp
<1>2. D = In(schema, page.configured) \cup In(schema, Tracked) /\ D \subseteq HTables
  BY LookedUp DEF DashboardTables, In, HeatWaveInv
<1>3. DashboardRow(schema) = Counts(D, f) /\ ManagementRow(schema) = Counts(In(schema, page.configured) \cup In(schema, Tracked), g)
  BY DEF DashboardRow, ManagementRow
<1>4. ASSUME NEW metric \in Metrics
      PROVE  DashboardRow(schema)[metric] = Cardinality(In(schema, CountedAs(metric)))
  <2>1. Counts(D, f)[metric] = Cardinality({t \in D : metric \in {"heatwave", f[t]}})
    BY DEF Counts, Metrics, LoadStates
  <2>2. \A t \in D : f[t] = TableState(t)
    BY <1>1, <1>2
  <2>3. {t \in D : metric \in {"heatwave", f[t]}} = In(schema, CountedAs(metric))
    <3> HIDE DEF f
    <3> QED BY <2>2 DEF CountedAs, In, DashboardTables, Counted
  <2> QED BY <1>3, <2>1, <2>3
<1> HIDE DEF D, f, g
<1> QED BY <1>1, <1>2, <1>3, <1>4

LEMMA SchemasFinite ==
  ASSUME HeatWaveInv
  PROVE  /\ IsFiniteSet(DashboardSchemas)
         /\ \A metric : CountedAs(metric) \subseteq Counted /\ IsFiniteSet(CountedAs(metric))
         /\ IsFiniteSet(Counted)
<1> DEFINE A == page.configured \cup page.lakehouse \cup Tracked
           S == {SchemaOf[t] : t \in A}
           f == [t \in A |-> SchemaOf[t]]
<1>1. A \subseteq HTables /\ Counted \subseteq HTables
  BY LookedUp DEF HeatWaveInv, Counted
<1>2. f \in Surjection(A, S)
  BY DEF Surjection
<1> HIDE DEF A, S, f
<1>3. IsFiniteSet(A) /\ IsFiniteSet(Counted)
  BY <1>1, HeatWaveAssumption, FS_Subset
<1>4. IsFiniteSet(S)
  BY <1>2, <1>3, FS_Surjection
<1>5. DashboardSchemas \in SUBSET S
  BY DEF DashboardSchemas, S, A
<1>6. IsFiniteSet(DashboardSchemas)
  BY <1>4, <1>5, FS_Subset
<1>7. \A metric : CountedAs(metric) \subseteq Counted
  BY DEF CountedAs
<1>8. \A metric : IsFiniteSet(CountedAs(metric))
  BY <1>3, <1>7, FS_Subset
<1> QED BY <1>3, <1>6, <1>7, <1>8

LEMMA Totals ==
  ASSUME HeatWaveInv, NEW metric \in Metrics
  PROVE  DashboardTotal(metric) = Cardinality(OfSchemas(CountedAs(metric), DashboardSchemas))
BY SchemasFinite, RowCounts, TotalCounts

\* The tables in the schemas of the dashboard are in one state each.
LEMMA TotalsAdd ==
  ASSUME HeatWaveInv
  PROVE  DashboardTotal("heatwave") = DashboardTotal("loaded") + DashboardTotal("partial") + DashboardTotal("not_loaded")
<1> DEFINE N(metric) == OfSchemas(CountedAs(metric), DashboardSchemas)
           L == N("loaded")
           P == N("partial")
           O == N("not_loaded")
<1>1. N("heatwave") = (L \cup P) \cup O /\ (L \cup P) \cap O = {} /\ L \cap P = {}
  <2>1. \A t : /\ TableState(t) \in {"loaded", "partial", "not_loaded"}
               /\ TableState(t) # "heatwave"
    BY LookedUp DEF LoadStates
  <2> QED BY <2>1 DEF OfSchemas, CountedAs
<1>2. \A metric : N(metric) \subseteq CountedAs(metric)
  BY DEF OfSchemas
<1>3. \A metric : IsFiniteSet(CountedAs(metric))
  BY SchemasFinite
<1>4. IsFiniteSet(L) /\ IsFiniteSet(P) /\ IsFiniteSet(O)
  <2>1. \A metric : IsFiniteSet(N(metric))
    <3> HIDE DEF N
    <3> QED BY <1>2, <1>3, FS_Subset
  <2> QED BY <2>1
<1>5. /\ DashboardTotal("heatwave") = Cardinality(N("heatwave")) /\ DashboardTotal("loaded") = Cardinality(L)
      /\ DashboardTotal("partial") = Cardinality(P) /\ DashboardTotal("not_loaded") = Cardinality(O)
  BY Totals DEF Metrics, LoadStates
<1> HIDE DEF L, P, O, N
<1>6. IsFiniteSet(L \cup P) /\ Cardinality(L \cup P) = Cardinality(L) + Cardinality(P) - Cardinality(L \cap P)
  BY <1>4, FS_Union
<1>7. Cardinality((L \cup P) \cup O) = Cardinality(L \cup P) + Cardinality(O) - Cardinality((L \cup P) \cap O)
  BY <1>4, <1>6, FS_Union
<1>8. Cardinality(L) \in Nat /\ Cardinality(P) \in Nat /\ Cardinality(O) \in Nat
  BY <1>4, FS_CardinalityType
<1>9. Cardinality(L \cap P) = 0 /\ Cardinality((L \cup P) \cap O) = 0
  BY <1>1, FS_EmptySet
<1>10. Cardinality(N("heatwave")) = Cardinality(L) + Cardinality(P) + Cardinality(O)
  <2>1. Cardinality(L \cup P) = Cardinality(L) + Cardinality(P)
    BY <1>6, <1>8, <1>9
  <2>2. Cardinality((L \cup P) \cup O) = Cardinality(L) + Cardinality(P) + Cardinality(O)
    BY <1>7, <1>8, <1>9, <2>1
  <2> QED BY <1>1, <2>2
<1> QED BY <1>5, <1>10

\* The table page lists a row for each table that the dashboard counts as loaded.
LEMMA LoadedRows ==
  ASSUME HeatWaveInv
  PROVE  Cardinality(InState("loaded")) = Cardinality(CountedAs("loaded"))
<1> DEFINE R == InState("loaded")
           L == CountedAs("loaded")
           f == [row \in R |-> row.table]
<1>1. \A row \in R : row \in page.inventory /\ LoadState(row) = "loaded" /\ row.table \in L
  <2>1. \A row \in R : row \in page.inventory /\ LoadState(row) = "loaded"
    BY DEF InState
  <2>2. \A row \in page.inventory : row.table \in Tracked /\ RowFor(row.table) = row
    BY LookedUp DEF Tracked
  <2>3. \A row \in R : row.table \in Counted /\ TableState(row.table) = "loaded"
    BY <2>1, <2>2 DEF TableState, Counted
  <2> QED BY <2>1, <2>3 DEF CountedAs
<1>2. f \in Injection(R, L)
  <2>1. f \in [R -> L]
    BY <1>1
  <2>2. \A row, other \in R : f[row] = f[other] => row = other
    BY <1>1 DEF HeatWaveInv
  <2> HIDE DEF f, R, L
  <2> QED BY <2>1, <2>2 DEF Injection, IsInjective
<1>3. f \in Surjection(R, L)
  <2>1. \A t \in L : t \in Tracked /\ LoadState(RowFor(t)) = "loaded"
    BY DEF CountedAs, TableState
  <2>2. \A t \in L : RowFor(t) \in R /\ f[RowFor(t)] = t
    BY <2>1, LookedUp DEF InState
  <2>3. f \in [R -> L]
    BY <1>1
  <2> HIDE DEF f, R, L
  <2> QED BY <2>2, <2>3 DEF Surjection
<1>4. IsFiniteSet(L)
  BY SchemasFinite
<1> HIDE DEF f, R, L
<1> QED BY <1>2, <1>3, <1>4, FS_Injection DEF R, L

\* What is not loaded, of the tables that are counted, is what the table page lists.
LEMMA RestIsListed ==
  ASSUME HeatWaveInv
  PROVE  CountedAs("heatwave") \ CountedAs("loaded") =
           NotLoadedConfigured \cup {row.table : row \in InState("partial") \cup InState("not_loaded")}
<1> DEFINE Rows == {row.table : row \in InState("partial") \cup InState("not_loaded")}
<1>1. \A t : t \in CountedAs("heatwave") \ CountedAs("loaded") <=> t \in Counted /\ TableState(t) # "loaded"
  BY DEF CountedAs
<1>2. \A t : t \in Rows <=> t \in Tracked /\ TableState(t) # "loaded"
  <2>1. ASSUME NEW t \in Rows PROVE t \in Tracked /\ TableState(t) # "loaded"
    <3>1. PICK row \in page.inventory : row.table = t /\ LoadState(row) # "loaded"
      BY DEF InState
    <3> QED BY <3>1, LookedUp DEF Tracked, TableState
  <2>2. ASSUME NEW t \in Tracked, TableState(t) # "loaded" PROVE t \in Rows
    <3>1. RowFor(t) \in page.inventory /\ RowFor(t).table = t
      BY LookedUp
    <3>2. LoadState(RowFor(t)) = TableState(t) /\ TableState(t) \in LoadStates
      BY LookedUp DEF TableState
    <3>3. RowFor(t) \in InState("partial") \cup InState("not_loaded")
      BY <2>2, <3>1, <3>2 DEF InState, LoadStates
    <3> QED BY <3>1, <3>3
  <2> QED BY <2>1, <2>2
<1>3. \A t : t \in NotLoadedConfigured <=> t \in page.configured /\ TableState(t) # "loaded"
  BY DEF NotLoadedConfigured
<1> HIDE DEF Rows
<1>4. CountedAs("heatwave") \ CountedAs("loaded") = NotLoadedConfigured \cup Rows
  BY <1>1, <1>2, <1>3 DEF Counted
<1> QED BY <1>4 DEF Rows

LEMMA ViewsTheSame ==
  ASSUME HeatWaveInv
  PROVE  ViewsAgree
<1>1. \A schema \in DashboardSchemas : DashboardRow(schema) = ManagementRow(schema)
  BY RowCounts
<1>2. ASSUME \A t \in Tracked : SchemaOf[t] \notin SystemSchemas
      PROVE  /\ DashboardTotal("loaded") = Cardinality(InState("loaded"))
             /\ DashboardTotal("heatwave") - DashboardTotal("loaded") =
                    Cardinality(NotLoadedConfigured \cup
                        {row.table : row \in InState("partial") \cup InState("not_loaded")})
  <2> DEFINE L == CountedAs("loaded")
             H == CountedAs("heatwave")
  <2>1. \A t \in Counted : SchemaOf[t] \in DashboardSchemas
    BY <1>2 DEF Counted, DashboardSchemas, HeatWaveInv
  <2>2. OfSchemas(L, DashboardSchemas) = L /\ OfSchemas(H, DashboardSchemas) = H
    BY <2>1 DEF OfSchemas, CountedAs
  <2>3. DashboardTotal("loaded") = Cardinality(L) /\ DashboardTotal("heatwave") = Cardinality(H)
    BY <2>2, Totals DEF Metrics, LoadStates
  <2>4. L \subseteq H /\ IsFiniteSet(L) /\ IsFiniteSet(H)
    BY SchemasFinite DEF CountedAs
  <2> HIDE DEF L, H
  <2>5. Cardinality(H \ L) = Cardinality(H) - Cardinality(H \cap L) /\ H \cap L = L
    BY <2>4, FS_Difference
  <2>6. H \ L = NotLoadedConfigured \cup {row.table : row \in InState("partial") \cup InState("not_loaded")}
    BY RestIsListed DEF H, L
  <2>7. Cardinality(InState("loaded")) = Cardinality(L)
    BY LoadedRows DEF L
  <2> QED BY <2>3, <2>5, <2>6, <2>7
<1> QED BY <1>1, <1>2, TotalsAdd DEF ViewsAgree

LEMMA NothingMissed ==
  ASSUME HeatWaveInv
  PROVE  NothingOverlooked
<1> SUFFICES ASSUME NEW t \in HTables,
                    \A row \in page.inventory : row.table = t => row.was \notin {"avail", "stale"}
             PROVE  TableState(t) # "loaded" /\ (t \notin Tracked \/ LoadState(RowFor(t)) # "loaded")
  BY DEF NothingOverlooked, NotLoadedConfigured, NeedAttention
<1>1. CASE t \in Tracked
  <2>1. RowFor(t) \in page.inventory /\ RowFor(t).table = t
    BY <1>1, LookedUp
  <2>2. LoadState(RowFor(t)) # "loaded"
    BY <2>1 DEF HeatWaveInv, RowTrue, Present
  <2> QED BY <1>1, <2>2 DEF TableState
<1>2. CASE t \notin Tracked
  BY <1>2 DEF TableState
<1> QED BY <1>1, <1>2

\* On every page, for any number of tables and schemas, whichever query fails and
\* however the server goes on between them: what is called loaded was, the
\* dashboard, the table page and the management page count the same tables, and
\* what HeatWave does not have is among what to look at.  The one server it is not
\* so for reports a table in loading at exactly one percent.
THEOREM StatusIsTruthful ==
  ASSUME 100 \notin PartProgress
  PROVE  HeatWaveSpec => []StatusTruthful
<1>1. HeatWaveInv => StatusTruthful
  <2>1. HeatWaveInv => LoadedIsAvailable
    BY DEF HeatWaveInv, LoadedIsAvailable, RowTrue, Present
  <2> QED BY <2>1, ViewsTheSame, NothingMissed DEF StatusTruthful
<1>2. HeatWaveInv /\ [HeatWaveNext]_heatwaveVars => HeatWaveInv'
  BY HeatWaveStep
<1> QED BY <1>1, <1>2, HeatWaveBegins, PTL DEF HeatWaveSpec

-----------------------------------------------------------------------------
(* ImportColumns.  Names and labels are given in turn, each different from *)
(* those before it: the function that gives them exists, a free name is    *)
(* found while there are more numerals than names, and it is none of       *)
(* theirs.                                                                 *)

Words == Seq(Alphabet)

\* What InTurn computes, as far as the first names.
Naming(f, bases, longest, first) ==
    f = [i \in first |-> FirstFree(bases[i], {Lower(f[j]) : j \in 1 .. i - 1}, longest[i])]

LEMMA NamingExists ==
  ASSUME NEW bases \in Seq(Words), NEW longest
  PROVE  \A n \in 0 .. Len(bases) : \E f : Naming(f, bases, longest, 1 .. n)
<1> DEFINE T == {n \in 0 .. Len(bases) : ~\E f : Naming(f, bases, longest, 1 .. n)}
<1>1. SUFFICES ASSUME T # {} PROVE FALSE
  OBVIOUS
<1>2. T \subseteq Nat /\ Len(bases) \in Nat
  OBVIOUS
<1>3. PICK m \in T : \A k \in T : m <= k
  BY <1>1, <1>2, LeastNat
<1>4. m \in 0 .. Len(bases) /\ ~\E f : Naming(f, bases, longest, 1 .. m)
  OBVIOUS
<1>5. CASE m = 0
  <2> DEFINE f == [i \in 1 .. 0 |-> <<>>]
  <2>1. f = [i \in 1 .. 0 |-> FirstFree(bases[i], {Lower(f[j]) : j \in 1 .. i - 1}, longest[i])]
    OBVIOUS
  <2>2. Naming(f, bases, longest, 1 .. m)
    BY <1>5, <2>1 DEF Naming
  <2> QED BY <1>4, <2>2
<1>6. CASE m # 0
  <2>1. m - 1 \in 0 .. Len(bases) /\ m - 1 \in Nat /\ m \in Nat
    BY <1>2, <1>4, <1>6
  <2>2. m - 1 \notin T
    BY <1>3, <2>1
  <2>3. PICK g : Naming(g, bases, longest, 1 .. m - 1)
    BY <2>1, <2>2
  <2> HIDE DEF T
  <2> DEFINE f == [i \in 1 .. m |->
                     IF i = m THEN FirstFree(bases[m], {Lower(g[j]) : j \in 1 .. m - 1}, longest[m])
                     ELSE g[i]]
  <2>4. \A i \in 1 .. m - 1 : f[i] = g[i]
    BY <2>1
  <2>5. \A i \in 1 .. m : {Lower(f[j]) : j \in 1 .. i - 1} = {Lower(g[j]) : j \in 1 .. i - 1}
    <3> HIDE DEF f
    <3>1. \A i \in 1 .. m : \A j \in 1 .. i - 1 : j \in 1 .. m - 1
      BY <2>1
    <3> QED BY <2>4, <3>1
  <2>6. \A i \in 1 .. m - 1 : g[i] = FirstFree(bases[i], {Lower(g[j]) : j \in 1 .. i - 1}, longest[i])
    BY <2>3 DEF Naming
  <2>7. f[m] = FirstFree(bases[m], {Lower(g[j]) : j \in 1 .. m - 1}, longest[m])
    BY <2>1, <1>6
  <2>8. f = [i \in 1 .. m |-> f[i]]
    OBVIOUS
  <2> HIDE DEF f
  <2>9. \A i \in 1 .. m : f[i] = FirstFree(bases[i], {Lower(f[j]) : j \in 1 .. i - 1}, longest[i])
    <3> SUFFICES ASSUME NEW i \in 1 .. m
                 PROVE  f[i] = FirstFree(bases[i], {Lower(f[j]) : j \in 1 .. i - 1}, longest[i])
      OBVIOUS
    <3>1. CASE i = m
      BY <2>5, <2>7, <3>1
    <3>2. CASE i # m
      <4>1. i \in 1 .. m - 1
        BY <2>1, <3>2
      <4> QED BY <2>4, <2>5, <2>6, <4>1
    <3> QED BY <3>1, <3>2
  <2>10. Naming(f, bases, longest, 1 .. m)
    BY <2>8, <2>9 DEF Naming
  <2> QED BY <1>4, <2>10
<1> QED BY <1>5, <1>6

\* InTurn satisfies its recursion.
LEMMA InTurnNames ==
  ASSUME NEW bases \in Seq(Words), NEW longest
  PROVE  /\ DOMAIN InTurn(bases, longest) = DOMAIN bases
         /\ InTurn(bases, longest) = [i \in DOMAIN bases |-> InTurn(bases, longest)[i]]
         /\ \A i \in DOMAIN bases : InTurn(bases, longest)[i] =
               FirstFree(bases[i], {Lower(InTurn(bases, longest)[j]) : j \in 1 .. i - 1}, longest[i])
<1> DEFINE N == CHOOSE f : f = [i \in DOMAIN bases |->
                     FirstFree(bases[i], {Lower(f[j]) : j \in 1 .. i - 1}, longest[i])]
<1>1. InTurn(bases, longest) = N
  BY DEF InTurn
<1>2. DOMAIN bases = 1 .. Len(bases) /\ Len(bases) \in 0 .. Len(bases)
  BY LenProperties
<1>3. \E f : Naming(f, bases, longest, DOMAIN bases)
  BY <1>2, NamingExists
<1>4. Naming(N, bases, longest, DOMAIN bases)
  BY <1>3 DEF Naming
<1> HIDE DEF N
<1>5. DOMAIN N = DOMAIN bases
  BY <1>4 DEF Naming
<1>6. \A i \in DOMAIN bases : N[i] = FirstFree(bases[i], {Lower(N[j]) : j \in 1 .. i - 1}, longest[i])
  BY <1>4 DEF Naming
<1>7. N = [i \in DOMAIN bases |-> N[i]]
  BY <1>4 DEF Naming
<1> QED BY <1>1, <1>5, <1>6, <1>7

\* Cut or not, a candidate is a word, no longer than it may be.
LEMMA CandidateWord ==
  ASSUME NEW base \in Words, NEW n \in DOMAIN Numeral, NEW longest \in Nat
  PROVE  /\ Candidate(base, n, longest) \in Words
         /\ Len(Candidate(base, n, longest)) <= longest
         /\ longest > 0 /\ base # <<>> => Candidate(base, n, longest) # <<>>
         /\ Len(base) < longest =>
               Candidate(base, n, longest) = IF n = 1 THEN base ELSE Append(base, Numeral[n])
<1>1. Numeral[n] \in Alphabet
  BY NameAssumption, LenProperties
<1> DEFINE c == IF n = 1 THEN base ELSE Append(base, Numeral[n])
<1>2. c \in Words /\ Len(c) \in {Len(base), Len(base) + 1} /\ (base # <<>> => Len(c) > 0)
  <2>1. Append(base, Numeral[n]) \in Words /\ Len(Append(base, Numeral[n])) = Len(base) + 1
    BY <1>1, AppendProperties DEF Words
  <2>2. Len(base) \in Nat /\ (base # <<>> => Len(base) > 0)
    BY EmptySeq, LenProperties DEF Words
  <2> QED BY <2>1, <2>2
<1>3. Candidate(base, n, longest) = IF Len(c) <= longest THEN c ELSE SubSeq(c, 1, longest)
  BY DEF Candidate, Shortened
<1>4. Len(c) \in Nat /\ Len(base) \in Nat
  BY <1>2, LenProperties DEF Words
<1> HIDE DEF c
<1>5. Len(c) > longest => /\ SubSeq(c, 1, longest) \in Words
                          /\ Len(SubSeq(c, 1, longest)) = longest
  <2>1. SUFFICES ASSUME Len(c) > longest
                 PROVE  SubSeq(c, 1, longest) \in Words /\ Len(SubSeq(c, 1, longest)) = longest
    OBVIOUS
  <2>2. \A i \in 1 .. longest : c[i] \in Alphabet
    BY <1>2, <1>4, <2>1 DEF Words
  <2>3. /\ SubSeq(c, 1, longest) \in Seq(Alphabet)
        /\ Len(SubSeq(c, 1, longest)) = IF 1 <= longest THEN longest - 1 + 1 ELSE 0
    BY <2>2, SubSeqProperties
  <2> QED BY <2>3 DEF Words
<1>6. Candidate(base, n, longest) \in Words /\ Len(Candidate(base, n, longest)) <= longest
  BY <1>2, <1>3, <1>4, <1>5
<1>7. longest > 0 /\ base # <<>> => Len(Candidate(base, n, longest)) > 0
  BY <1>2, <1>3, <1>4, <1>5
<1>8. longest > 0 /\ base # <<>> => Candidate(base, n, longest) # <<>>
  BY <1>6, <1>7, EmptySeq
<1>9. Len(base) < longest => Candidate(base, n, longest) = c
  BY <1>2, <1>3, <1>4
<1> QED BY <1>6, <1>8, <1>9 DEF c

\* A free name is a candidate that is not taken; there is none if all are taken.
LEMMA FreeName ==
  ASSUME NEW base \in Words, NEW taken, NEW longest \in Nat
  PROVE  \/ /\ FirstFree(base, taken, longest) = <<>>
            /\ \A n \in DOMAIN Numeral : Lower(Candidate(base, n, longest)) \in taken
         \/ /\ Lower(FirstFree(base, taken, longest)) \notin taken
            /\ \E n \in DOMAIN Numeral : FirstFree(base, taken, longest) = Candidate(base, n, longest)
<1> DEFINE free == {n \in DOMAIN Numeral : Lower(Candidate(base, n, longest)) \notin taken}
           first == CHOOSE n \in free : \A m \in free : n <= m
<1>1. FirstFree(base, taken, longest) = IF free = {} THEN <<>> ELSE Candidate(base, first, longest)
  BY DEF FirstFree
<1>2. free \subseteq Nat
  BY NameAssumption, LenProperties
<1>3. free # {} => \E n \in free : \A m \in free : n <= m
  BY <1>2, LeastNat
<1>4. free # {} => first \in free
  BY <1>3
<1> HIDE DEF first
<1>5. CASE free = {}
  BY <1>1, <1>5
<1>6. CASE free # {}
  BY <1>1, <1>4, <1>6
<1> QED BY <1>5, <1>6

\* Two candidates that are not cut are different in any letter case.
LEMMA CandidatesDiffer ==
  ASSUME NEW base \in Words, NEW longest \in Nat, Len(base) < longest,
         NEW n \in DOMAIN Numeral, NEW m \in DOMAIN Numeral, n < m
  PROVE  Lower(Candidate(base, n, longest)) # Lower(Candidate(base, m, longest))
<1>1. DOMAIN Numeral = 1 .. Len(Numeral) /\ \A k \in DOMAIN Numeral : Numeral[k] \in Alphabet
  BY NameAssumption, LenProperties
<1>2. Len(base) \in Nat /\ DOMAIN base = 1 .. Len(base)
  BY LenProperties DEF Words
<1>3. \A k \in DOMAIN Numeral :
          /\ Len(Append(base, Numeral[k])) = Len(base) + 1
          /\ DOMAIN Append(base, Numeral[k]) = 1 .. Len(base) + 1
          /\ Append(base, Numeral[k])[Len(base) + 1] = Numeral[k]
  <2> SUFFICES ASSUME NEW k \in DOMAIN Numeral
               PROVE  /\ Len(Append(base, Numeral[k])) = Len(base) + 1
                      /\ DOMAIN Append(base, Numeral[k]) = 1 .. Len(base) + 1
                      /\ Append(base, Numeral[k])[Len(base) + 1] = Numeral[k]
    OBVIOUS
  <2>1. Append(base, Numeral[k]) \in Seq(Alphabet)
    BY <1>1, AppendProperties DEF Words
  <2>2. /\ Len(Append(base, Numeral[k])) = Len(base) + 1
        /\ Append(base, Numeral[k])[Len(base) + 1] = Numeral[k]
    BY <1>1, AppendProperties DEF Words
  <2> QED BY <2>1, <2>2, LenProperties
<1>4. m # 1 /\ Candidate(base, m, longest) = Append(base, Numeral[m])
  BY <1>1, CandidateWord
<1>5. Candidate(base, n, longest) = IF n = 1 THEN base ELSE Append(base, Numeral[n])
  BY CandidateWord
<1>6. CASE n = 1
  <2>1. DOMAIN Lower(Candidate(base, n, longest)) = 1 .. Len(base)
    BY <1>2, <1>5, <1>6 DEF Lower
  <2>2. DOMAIN Lower(Candidate(base, m, longest)) = 1 .. Len(base) + 1
    BY <1>3, <1>4 DEF Lower
  <2>3. Len(base) + 1 \in 1 .. Len(base) + 1 /\ Len(base) + 1 \notin 1 .. Len(base)
    BY <1>2
  <2> QED BY <2>1, <2>2, <2>3
<1>7. CASE n # 1
  <2>1. \A k \in DOMAIN Numeral : Lower(Append(base, Numeral[k]))[Len(base) + 1] = Numeral[k]
    <3>1. Len(base) + 1 \in 1 .. Len(base) + 1
      BY <1>2
    <3>2. \A k \in DOMAIN Numeral : LowerCase[Numeral[k]] = Numeral[k]
      BY NameAssumption
    <3> QED BY <1>3, <3>1, <3>2 DEF Lower
  <2>2. Numeral[n] # Numeral[m]
    BY <1>1, NameAssumption DEF IsInjective
  <2> QED BY <1>4, <1>5, <1>7, <2>1, <2>2
<1> QED BY <1>6, <1>7

\* Fewer words than numerals do not take all candidates.
LEMMA EnoughNumerals ==
  ASSUME NEW base \in Words, NEW longest \in Nat, Len(base) < longest,
         NEW f, NEW k \in Nat, k < Len(Numeral)
  PROVE  \E n \in DOMAIN Numeral : Lower(Candidate(base, n, longest)) \notin {Lower(f[j]) : j \in 1 .. k}
<1>1. SUFFICES ASSUME \A n \in DOMAIN Numeral :
                          \E j \in 1 .. k : Lower(Candidate(base, n, longest)) = Lower(f[j])
               PROVE  FALSE
  OBVIOUS
<1>2. DOMAIN Numeral = 1 .. Len(Numeral) /\ Len(Numeral) \in Nat
  BY NameAssumption, LenProperties
<1> DEFINE of == [n \in DOMAIN Numeral |->
                    CHOOSE j \in 1 .. k : Lower(Candidate(base, n, longest)) = Lower(f[j])]
<1>3. \A n \in DOMAIN Numeral : of[n] \in 1 .. k /\ Lower(Candidate(base, n, longest)) = Lower(f[of[n]])
  BY <1>1
<1>4. of \in [1 .. Len(Numeral) -> 1 .. k]
  BY <1>2, <1>3
<1> HIDE DEF of
<1>5. IsFiniteSet(1 .. k) /\ Cardinality(1 .. k) = k
  BY k \in Int, 1 \in Int, FS_Interval
<1>6. IsFiniteSet(1 .. Len(Numeral)) /\ Cardinality(1 .. Len(Numeral)) = Len(Numeral)
  <2>1. Cardinality(1 .. Len(Numeral)) = IF 1 > Len(Numeral) THEN 0 ELSE Len(Numeral) - 1 + 1
    BY Len(Numeral) \in Int, 1 \in Int, <1>2, FS_Interval
  <2>2. IsFiniteSet(1 .. Len(Numeral))
    BY Len(Numeral) \in Int, 1 \in Int, <1>2, FS_Interval
  <2> QED BY <1>2, <2>1, <2>2
<1>7. PICK n, m \in 1 .. Len(Numeral) : n # m /\ of[n] = of[m]
  <2>1. Cardinality(1 .. k) < Cardinality(1 .. Len(Numeral))
    BY <1>5, <1>6
  <2> QED BY <1>4, <1>5, <1>6, <2>1, FS_PigeonHole
<1>8. Lower(Candidate(base, n, longest)) = Lower(Candidate(base, m, longest))
  BY <1>2, <1>3, <1>7
<1>9. CASE n < m
  BY <1>2, <1>8, <1>9, CandidatesDiffer
<1>10. CASE m < n
  BY <1>2, <1>8, <1>10, CandidatesDiffer
<1> QED BY <1>7, <1>9, <1>10

\* Names given in turn: of the length asked for, each different from the others,
\* and given wherever the base leaves room for a suffix.
LEMMA InTurnDistinct ==
  ASSUME NEW bases \in Seq(Words), NEW longest \in [DOMAIN bases -> Nat],
         Len(bases) <= Len(Numeral)
  PROVE  /\ InTurn(bases, longest) \in Seq(Words)
         /\ Len(InTurn(bases, longest)) = Len(bases)
         /\ \A i \in DOMAIN bases : Len(InTurn(bases, longest)[i]) <= longest[i]
         /\ \A i, j \in DOMAIN bases :
               i # j /\ InTurn(bases, longest)[i] # <<>> =>
                   InTurn(bases, longest)[i] # InTurn(bases, longest)[j]
         /\ \A i \in DOMAIN bases :
               bases[i] # <<>> /\ longest[i] > 0 /\ Len(bases[i]) < longest[i] =>
                   InTurn(bases, longest)[i] # <<>>
<1> DEFINE N == InTurn(bases, longest)
           before(i) == {Lower(N[j]) : j \in 1 .. i - 1}
<1>1. /\ DOMAIN bases = 1 .. Len(bases) /\ Len(bases) \in Nat
      /\ \A i \in DOMAIN bases : bases[i] \in Words
  BY LenProperties
<1>2. /\ DOMAIN N = DOMAIN bases
      /\ \A i \in DOMAIN bases : N[i] = FirstFree(bases[i], before(i), longest[i])
  BY InTurnNames
<1> HIDE DEF N
<1>3. \A i \in DOMAIN bases :
         \/ /\ N[i] = <<>>
            /\ \A n \in DOMAIN Numeral : Lower(Candidate(bases[i], n, longest[i])) \in before(i)
         \/ /\ Lower(N[i]) \notin before(i)
            /\ \E n \in DOMAIN Numeral : N[i] = Candidate(bases[i], n, longest[i])
  <2> SUFFICES ASSUME NEW i \in DOMAIN bases
               PROVE  \/ /\ N[i] = <<>>
                         /\ \A n \in DOMAIN Numeral : Lower(Candidate(bases[i], n, longest[i])) \in before(i)
                      \/ /\ Lower(N[i]) \notin before(i)
                         /\ \E n \in DOMAIN Numeral : N[i] = Candidate(bases[i], n, longest[i])
    OBVIOUS
  <2>1. bases[i] \in Words /\ longest[i] \in Nat
    BY <1>1
  <2> HIDE DEF before
  <2> QED BY <1>2, <2>1, FreeName
<1>4. \A i \in DOMAIN bases : N[i] \in Words /\ Len(N[i]) <= longest[i]
  <2> SUFFICES ASSUME NEW i \in DOMAIN bases
               PROVE  N[i] \in Words /\ Len(N[i]) <= longest[i]
    OBVIOUS
  <2>1. bases[i] \in Words /\ longest[i] \in Nat
    BY <1>1
  <2>2. CASE N[i] = <<>>
    <3>1. <<>> \in Seq(Alphabet) /\ Len(<<>>) = 0
      BY EmptySeq
    <3> QED BY <2>1, <2>2, <3>1 DEF Words
  <2>3. CASE N[i] # <<>>
    <3>1. PICK n \in DOMAIN Numeral : N[i] = Candidate(bases[i], n, longest[i])
      BY <1>3, <2>3
    <3> QED BY <2>1, <3>1, CandidateWord
  <2> QED BY <2>2, <2>3
<1>5. N \in Seq(Words) /\ Len(N) = Len(bases)
  <2>1. N \in [1 .. Len(bases) -> Words]
    <3>1. N = [i \in DOMAIN bases |-> N[i]]
      BY <1>1, <1>2, InTurnNames DEF N
    <3> QED BY <1>1, <1>4, <3>1
  <2> QED BY <1>1, <2>1
<1>6. ASSUME NEW i \in DOMAIN bases, NEW j \in DOMAIN bases, j < i, N[i] # <<>>
      PROVE  N[i] # N[j]
  <2>1. j \in 1 .. i - 1
    BY <1>1, <1>6
  <2>2. Lower(N[j]) \in before(i)
    BY <2>1
  <2>3. Lower(N[i]) \notin before(i)
    BY <1>3, <1>6
  <2> QED BY <2>2, <2>3
<1>7. \A i, j \in DOMAIN bases : i # j /\ N[i] # <<>> => N[i] # N[j]
  <2> SUFFICES ASSUME NEW i \in DOMAIN bases, NEW j \in DOMAIN bases, i # j, N[i] # <<>>, N[i] = N[j]
               PROVE  FALSE
    OBVIOUS
  <2>1. i < j \/ j < i
    BY <1>1
  <2> QED BY <1>6, <2>1
<1>8. ASSUME NEW i \in DOMAIN bases, bases[i] # <<>>, longest[i] > 0, Len(bases[i]) < longest[i]
      PROVE  N[i] # <<>>
  <2>1. bases[i] \in Words /\ longest[i] \in Nat
    BY <1>1
  <2>2. i - 1 \in Nat /\ i - 1 < Len(Numeral)
    <3>1. Len(Numeral) \in Nat
      BY NameAssumption, LenProperties
    <3> QED BY <1>1, <3>1
  <2>3. \E n \in DOMAIN Numeral : Lower(Candidate(bases[i], n, longest[i])) \notin before(i)
    BY <1>8, <2>1, <2>2, EnoughNumerals
  <2>4. PICK n \in DOMAIN Numeral : N[i] = Candidate(bases[i], n, longest[i])
    BY <1>3, <2>3
  <2> QED BY <1>8, <2>1, <2>4, CandidateWord
<1> QED BY <1>4, <1>5, <1>7, <1>8 DEF N

-----------------------------------------------------------------------------
\* What Filled computes, as far as the first rows.
Filling(f, file, first) ==
    f = [n \in first |->
            IF n = 0 THEN <<>>
            ELSE IF Skipped(file, n) THEN f[n - 1]
            ELSE Append(f[n - 1], file.rows[n])]

LEMMA FillingExists ==
  ASSUME NEW file \in Uploads
  PROVE  \A n \in 0 .. Len(file.rows) : \E f : Filling(f, file, 0 .. n)
<1> DEFINE T == {n \in 0 .. Len(file.rows) : ~\E f : Filling(f, file, 0 .. n)}
<1>1. SUFFICES ASSUME T # {} PROVE FALSE
  OBVIOUS
<1>2. T \subseteq Nat /\ Len(file.rows) \in Nat
  BY UploadAssumption, LenProperties
<1>3. PICK m \in T : \A k \in T : m <= k
  BY <1>1, <1>2, LeastNat
<1>4. m \in 0 .. Len(file.rows) /\ ~\E f : Filling(f, file, 0 .. m)
  OBVIOUS
<1>5. CASE m = 0
  <2> DEFINE f == [n \in 0 .. 0 |-> <<>>]
  <2>1. f = [n \in 0 .. 0 |-> IF n = 0 THEN <<>>
                              ELSE IF Skipped(file, n) THEN f[n - 1]
                              ELSE Append(f[n - 1], file.rows[n])]
    OBVIOUS
  <2>2. Filling(f, file, 0 .. m)
    BY <1>5, <2>1 DEF Filling
  <2> QED BY <1>4, <2>2
<1>6. CASE m # 0
  <2>1. m - 1 \in 0 .. Len(file.rows) /\ m - 1 \in Nat /\ m \in Nat
    BY <1>2, <1>4, <1>6
  <2>2. m - 1 \notin T
    BY <1>3, <2>1
  <2>3. PICK g : Filling(g, file, 0 .. m - 1)
    BY <2>1, <2>2
  <2> HIDE DEF T
  <2> DEFINE f == [n \in 0 .. m |->
                     IF n = m THEN (IF Skipped(file, m) THEN g[m - 1] ELSE Append(g[m - 1], file.rows[m]))
                     ELSE g[n]]
  <2>4. \A n \in 0 .. m - 1 : f[n] = g[n]
    BY <2>1
  <2>5. \A n \in 0 .. m - 1 :
            g[n] = IF n = 0 THEN <<>>
                   ELSE IF Skipped(file, n) THEN g[n - 1] ELSE Append(g[n - 1], file.rows[n])
    BY <2>3 DEF Filling
  <2>6. f[m] = IF Skipped(file, m) THEN f[m - 1] ELSE Append(f[m - 1], file.rows[m])
    BY <1>6, <2>1
  <2>7. f = [n \in 0 .. m |-> f[n]]
    OBVIOUS
  <2> HIDE DEF f
  <2>8. \A n \in 0 .. m :
            f[n] = IF n = 0 THEN <<>>
                   ELSE IF Skipped(file, n) THEN f[n - 1] ELSE Append(f[n - 1], file.rows[n])
    <3> SUFFICES ASSUME NEW n \in 0 .. m
                 PROVE  f[n] = IF n = 0 THEN <<>>
                               ELSE IF Skipped(file, n) THEN f[n - 1] ELSE Append(f[n - 1], file.rows[n])
      OBVIOUS
    <3>1. CASE n = m
      BY <1>6, <2>6, <3>1
    <3>2. CASE n # m
      <4>1. n \in 0 .. m - 1 /\ (n # 0 => n - 1 \in 0 .. m - 1)
        BY <2>1, <3>2
      <4> QED BY <2>4, <2>5, <4>1
    <3> QED BY <3>1, <3>2
  <2>9. Filling(f, file, 0 .. m)
    BY <2>7, <2>8 DEF Filling
  <2> QED BY <1>4, <2>9
<1> QED BY <1>5, <1>6

\* The rows kept of the first n lines of a file, and the line of each.
Kept(file, n, rows, line) ==
    /\ rows \in Seq(Seq(Cells))
    /\ line \in [DOMAIN rows -> 1 .. n]
    /\ \A r, q \in DOMAIN rows : r < q => line[r] < line[q]
    /\ \A l \in 1 .. n : (\E r \in DOMAIN rows : line[r] = l) <=> ~Skipped(file, l)
    /\ \A r \in DOMAIN rows : rows[r] = file.rows[line[r]]

LEMMA KeptOfNext ==
  ASSUME NEW file, NEW n \in Nat, NEW rows, NEW line, Kept(file, n, rows, line),
         file.rows[n + 1] \in Seq(Cells)
  PROVE  \E more : Kept(file, n + 1, IF Skipped(file, n + 1) THEN rows
                                     ELSE Append(rows, file.rows[n + 1]), more)
<1>1. rows \in Seq(Seq(Cells)) /\ DOMAIN rows = 1 .. Len(rows) /\ Len(rows) \in Nat
  BY LenProperties DEF Kept
<1>2. /\ line \in [DOMAIN rows -> 1 .. n]
      /\ \A r, q \in DOMAIN rows : r < q => line[r] < line[q]
      /\ \A l \in 1 .. n : (\E r \in DOMAIN rows : line[r] = l) <=> ~Skipped(file, l)
      /\ \A r \in DOMAIN rows : rows[r] = file.rows[line[r]]
  BY DEF Kept
<1>3. \A l \in 1 .. n + 1 : l \in 1 .. n \/ l = n + 1
  OBVIOUS
<1>4. 1 .. n \subseteq 1 .. n + 1 /\ n + 1 \notin 1 .. n
  OBVIOUS
<1>5. \A r \in DOMAIN rows : line[r] \in 1 .. n
  BY <1>2
<1>6. CASE Skipped(file, n + 1)
  <2>1. line \in [DOMAIN rows -> 1 .. n + 1]
    BY <1>2, <1>4
  <2>2. \A l \in 1 .. n + 1 : (\E r \in DOMAIN rows : line[r] = l) <=> ~Skipped(file, l)
    BY <1>2, <1>3, <1>4, <1>5, <1>6
  <2>3. Kept(file, n + 1, rows, line)
    BY <1>1, <1>2, <2>1, <2>2 DEF Kept
  <2> QED BY <1>6, <2>3
<1>7. CASE ~Skipped(file, n + 1)
  <2> DEFINE longer == Append(rows, file.rows[n + 1])
             more == [r \in 1 .. Len(rows) + 1 |-> IF r = Len(rows) + 1 THEN n + 1 ELSE line[r]]
  <2>1. /\ longer \in Seq(Seq(Cells)) /\ Len(longer) = Len(rows) + 1
        /\ \A r \in 1 .. Len(rows) : longer[r] = rows[r]
        /\ longer[Len(rows) + 1] = file.rows[n + 1]
    BY <1>1, AppendProperties
  <2> HIDE DEF longer
  <2>2. DOMAIN longer = 1 .. Len(rows) + 1
    BY <2>1, LenProperties
  <2>3. \A r \in DOMAIN longer : r \in DOMAIN rows \/ r = Len(rows) + 1
    BY <1>1, <2>2
  <2>4. DOMAIN rows \subseteq DOMAIN longer /\ Len(rows) + 1 \in DOMAIN longer
        /\ Len(rows) + 1 \notin DOMAIN rows
    BY <1>1, <2>2
  <2>5. /\ \A r \in DOMAIN rows : more[r] = line[r]
        /\ more[Len(rows) + 1] = n + 1
        /\ DOMAIN more = DOMAIN longer
    BY <1>1, <2>2
  <2>6. more = [r \in DOMAIN longer |-> more[r]]
    BY <2>2
  <2> HIDE DEF more
  <2>7. more \in [DOMAIN longer -> 1 .. n + 1]
    <3>1. n + 1 \in 1 .. n + 1
      OBVIOUS
    <3>2. \A r \in DOMAIN longer : more[r] \in 1 .. n + 1
      BY <1>4, <1>5, <2>3, <2>5, <3>1
    <3> QED BY <2>6, <3>2
  <2>8. \A r, q \in DOMAIN longer : r < q => more[r] < more[q]
    <3> SUFFICES ASSUME NEW r \in DOMAIN longer, NEW q \in DOMAIN longer, r < q
                 PROVE  more[r] < more[q]
      OBVIOUS
    <3>1. r \in DOMAIN rows
      BY <1>1, <2>2
    <3>2. CASE q \in DOMAIN rows
      BY <1>2, <2>5, <3>1, <3>2
    <3>3. CASE q = Len(rows) + 1
      BY <1>5, <2>5, <3>1, <3>3
    <3> QED BY <2>3, <3>2, <3>3
  <2>9. \A l \in 1 .. n + 1 : (\E r \in DOMAIN longer : more[r] = l) <=> ~Skipped(file, l)
    <3>1. ASSUME NEW l \in 1 .. n
          PROVE  (\E r \in DOMAIN longer : more[r] = l) <=> (\E r \in DOMAIN rows : line[r] = l)
      BY <1>4, <2>3, <2>4, <2>5
    <3>2. \E r \in DOMAIN longer : more[r] = n + 1
      BY <2>4, <2>5
    <3> QED BY <1>2, <1>3, <1>7, <3>1, <3>2
  <2>10. \A r \in DOMAIN longer : longer[r] = file.rows[more[r]]
    BY <1>1, <1>2, <2>1, <2>3, <2>5
  <2>11. Kept(file, n + 1, longer, more)
    BY <2>1, <2>7, <2>8, <2>9, <2>10 DEF Kept
  <2> QED BY <1>7, <2>11 DEF longer
<1> QED BY <1>6, <1>7

\* The rows of a grid are lines of the file, in their order, but for those skipped.
LEMMA FilledKeeps ==
  ASSUME NEW file \in Uploads
  PROVE  \E line : Kept(file, Len(file.rows), Filled(file), line)
<1>1. file.rows \in Seq(Seq(Cells)) /\ Len(file.rows) \in Nat /\ DOMAIN file.rows = 1 .. Len(file.rows)
  BY UploadAssumption, LenProperties
<1> DEFINE F == CHOOSE f : f = [n \in 0 .. Len(file.rows) |->
                                  IF n = 0 THEN <<>>
                                  ELSE IF Skipped(file, n) THEN f[n - 1]
                                  ELSE Append(f[n - 1], file.rows[n])]
<1>2. Filled(file) = F[Len(file.rows)]
  BY DEF Filled
<1>3. \E f : Filling(f, file, 0 .. Len(file.rows))
  BY <1>1, FillingExists
<1>4. Filling(F, file, 0 .. Len(file.rows))
  BY <1>3 DEF Filling
<1> HIDE DEF F
<1>5. \A n \in 0 .. Len(file.rows) :
          F[n] = IF n = 0 THEN <<>>
                 ELSE IF Skipped(file, n) THEN F[n - 1] ELSE Append(F[n - 1], file.rows[n])
  BY <1>4 DEF Filling
<1> DEFINE T == {n \in 0 .. Len(file.rows) : ~\E line : Kept(file, n, F[n], line)}
<1>6. T = {}
  <2>1. SUFFICES ASSUME T # {} PROVE FALSE
    OBVIOUS
  <2>6. T \subseteq Nat
    BY <1>1
  <2>2. PICK m \in T : \A k \in T : m <= k
    <3> HIDE DEF T
    <3> QED BY <2>1, <2>6, LeastNat
  <2>3. m \in 0 .. Len(file.rows) /\ ~\E line : Kept(file, m, F[m], line)
    OBVIOUS
  <2>4. CASE m = 0
    <3>1. F[m] = <<>>
      BY <1>5, <2>3, <2>4
    <3>2. <<>> \in Seq(Seq(Cells)) /\ DOMAIN <<>> = {} /\ 1 .. 0 = {}
      BY EmptySeq
    <3>3. <<>> \in [DOMAIN <<>> -> 1 .. 0]
      BY <3>2
    <3>4. Kept(file, 0, <<>>, <<>>)
      BY <3>2, <3>3 DEF Kept
    <3> QED BY <2>3, <2>4, <3>1, <3>4
  <2>5. CASE m # 0
    <3>1. m - 1 \in 0 .. Len(file.rows) /\ m - 1 \in Nat /\ m \in Nat /\ m \in DOMAIN file.rows /\ (m - 1) + 1 = m
      BY <1>1, <2>3, <2>5
    <3>2. m - 1 \notin T
      BY <2>2, <3>1
    <3>3. PICK line : Kept(file, m - 1, F[m - 1], line)
      BY <3>1, <3>2
    <3>4. file.rows[m] \in Seq(Cells)
      BY <1>1, <3>1
    <3> HIDE DEF T
    <3>5. \E more : Kept(file, m, IF Skipped(file, m) THEN F[m - 1]
                                  ELSE Append(F[m - 1], file.rows[m]), more)
      BY <3>1, <3>3, <3>4, KeptOfNext
    <3>6. F[m] = IF Skipped(file, m) THEN F[m - 1] ELSE Append(F[m - 1], file.rows[m])
      BY <1>5, <2>3, <2>5
    <3> QED BY <2>3, <3>5, <3>6
  <2> QED BY <2>4, <2>5
<1>7. Len(file.rows) \in 0 .. Len(file.rows)
  BY <1>1
<1> QED BY <1>2, <1>6, <1>7

-----------------------------------------------------------------------------
\* The rows that are kept are at most as wide as there are numerals, and a file of
\* JSON objects as its labels.
LEMMA FilledRows ==
  ASSUME NEW file \in Uploads
  PROVE  /\ Filled(file) \in Seq(Seq(Cells))
         /\ \A r \in DOMAIN Filled(file) : Len(Filled(file)[r]) \in Nat /\ Len(Filled(file)[r]) <= Len(Numeral)
<1>1. PICK line : Kept(file, Len(file.rows), Filled(file), line)
  BY FilledKeeps
<1>2. /\ Filled(file) \in Seq(Seq(Cells)) /\ line \in [DOMAIN Filled(file) -> 1 .. Len(file.rows)]
      /\ \A r \in DOMAIN Filled(file) : Filled(file)[r] = file.rows[line[r]]
  BY <1>1 DEF Kept
<1>3. /\ file.rows \in Seq(Seq(Cells)) /\ DOMAIN file.rows = 1 .. Len(file.rows)
      /\ \A r \in DOMAIN file.rows : Len(file.rows[r]) <= Len(Numeral)
  BY UploadAssumption, LenProperties
<1>4. \A r \in DOMAIN file.rows : Len(file.rows[r]) \in Nat
  BY <1>3
<1> QED BY <1>2, <1>3, <1>4

LEMMA WidthIs ==
  ASSUME NEW file \in Uploads
  PROVE  /\ Width(Filled(file)) \in Nat /\ Width(Filled(file)) <= Len(Numeral)
         /\ \A r \in DOMAIN Filled(file) : Len(Filled(file)[r]) <= Width(Filled(file))
<1> DEFINE rows == Filled(file)
           lengths == {0} \cup {Len(rows[r]) : r \in DOMAIN rows}
           T == {n \in Nat : \A r \in DOMAIN rows : Len(rows[r]) <= n}
<1>1. \A r \in DOMAIN rows : Len(rows[r]) \in Nat /\ Len(rows[r]) <= Len(Numeral)
  BY FilledRows
<1>2. Len(Numeral) \in Nat
  BY NameAssumption, LenProperties
<1> HIDE DEF rows
<1>3. T \subseteq Nat /\ Len(Numeral) \in T
  BY <1>1, <1>2
<1>4. PICK m \in T : \A k \in T : m <= k
  BY <1>3, LeastNat
<1>5. m \in Nat /\ m <= Len(Numeral) /\ \A r \in DOMAIN rows : Len(rows[r]) <= m
  BY <1>3, <1>4
<1>6. m \in lengths
  <2>1. CASE m = 0
    BY <2>1
  <2>2. CASE m # 0
    <3>4. m - 1 \in Nat /\ ~(m <= m - 1)
      BY <1>5, <2>2
    <3>1. m - 1 \in Nat /\ m - 1 \notin T
      <4> HIDE DEF T
      <4> QED BY <1>4, <3>4
    <3>2. PICK r \in DOMAIN rows : ~(Len(rows[r]) <= m - 1)
      BY <3>1
    <3>3. Len(rows[r]) = m
      BY <1>1, <1>5, <3>1, <3>2
    <3> QED BY <3>3
  <2> QED BY <2>1, <2>2
<1>7. Width(rows) = CHOOSE n \in lengths : \A r \in DOMAIN rows : Len(rows[r]) <= n
  BY DEF Width
<1>8. lengths \subseteq Nat /\ \A n \in lengths : n <= Len(Numeral)
  BY <1>1, <1>2
<1> HIDE DEF T, lengths
<1>9. Width(rows) \in lengths /\ \A r \in DOMAIN rows : Len(rows[r]) <= Width(rows)
  BY <1>5, <1>6, <1>7
<1> QED BY <1>8, <1>9 DEF rows

LEMMA GeneratedWord ==
  /\ \A i \in DOMAIN Numeral : Generated(i) \in Words /\ Len(Generated(i)) = 2 /\ Generated(i) # <<>>
  /\ \A i, j \in DOMAIN Numeral : i # j => Generated(i) # Generated(j)
<1>1. \A i \in DOMAIN Numeral : Numeral[i] \in Alphabet
  BY NameAssumption, LenProperties
<1>2. LetterOf["column"] \in Alphabet
  BY NameAssumption
<1>3. \A i, j \in DOMAIN Numeral : i # j => Numeral[i] # Numeral[j]
  BY NameAssumption DEF IsInjective
<1> QED BY <1>1, <1>2, <1>3 DEF Generated, Words

\* The labels a file has of its own: words, none empty, all different.
OwnLabels(file) ==
    IF ~file.csv THEN file.labels
    ELSE IF file.header THEN UniqueLabels(file.labels)
    ELSE [i \in DOMAIN file.labels |-> Generated(i)]

LEMMA OwnLabelsDiffer ==
  ASSUME NEW file \in Uploads
  PROVE  /\ OwnLabels(file) \in Seq(Words) /\ Len(OwnLabels(file)) = Len(file.labels)
         /\ \A i \in DOMAIN OwnLabels(file) : OwnLabels(file)[i] # <<>>
         /\ \A i, j \in DOMAIN OwnLabels(file) : i # j => OwnLabels(file)[i] # OwnLabels(file)[j]
<1>1. /\ file.labels \in Seq(Words) /\ Len(file.labels) <= Len(Numeral)
      /\ ~file.csv => IsInjective(file.labels) /\ <<>> \notin ToSet(file.labels)
  BY UploadAssumption DEF Words
<1>2. DOMAIN file.labels = 1 .. Len(file.labels) /\ Len(file.labels) \in Nat
      /\ DOMAIN Numeral = 1 .. Len(Numeral) /\ Len(Numeral) \in Nat
      /\ \A i \in DOMAIN file.labels : file.labels[i] \in Words
  BY <1>1, NameAssumption, LenProperties
<1>3. DOMAIN file.labels \subseteq DOMAIN Numeral
  BY <1>1, <1>2
<1>4. CASE ~file.csv
  <2>1. OwnLabels(file) = file.labels
    BY <1>4 DEF OwnLabels
  <2> QED BY <1>1, <1>4, <2>1 DEF IsInjective, ToSet
<1>5. CASE file.csv /\ file.header
  <2> DEFINE label == [i \in DOMAIN file.labels |-> IF file.labels[i] = <<>> THEN Generated(i) ELSE file.labels[i]]
             longest == [i \in DOMAIN file.labels |-> Len(label[i]) + 1]
  <2>1. OwnLabels(file) = InTurn(label, longest)
    BY <1>5 DEF OwnLabels, UniqueLabels
  <2>2. /\ DOMAIN label = DOMAIN file.labels
        /\ \A i \in DOMAIN label : label[i] \in Words /\ label[i] # <<>>
    BY <1>2, <1>3, GeneratedWord
  <2>3. label \in Seq(Words) /\ Len(label) = Len(file.labels)
    <3>1. label = [i \in 1 .. Len(file.labels) |-> label[i]]
      BY <1>2
    <3> HIDE DEF label
    <3>2. label \in [1 .. Len(file.labels) -> Words]
      BY <1>2, <2>2, <3>1
    <3> QED BY <1>2, <3>2
  <2>4. DOMAIN longest = DOMAIN label /\ \A i \in DOMAIN label : longest[i] = Len(label[i]) + 1
    BY <2>2
  <2>5. longest = [i \in DOMAIN label |-> longest[i]]
    BY <2>2
  <2> HIDE DEF label, longest
  <2>6. \A i \in DOMAIN label : Len(label[i]) \in Nat
    BY <2>2 DEF Words
  <2>7. \A i \in DOMAIN label : longest[i] \in Nat /\ longest[i] > 0 /\ Len(label[i]) < longest[i]
    BY <2>4, <2>6
  <2>8. longest \in [DOMAIN label -> Nat]
    BY <2>5, <2>7
  <2>9. Len(label) <= Len(Numeral)
    BY <1>1, <2>3
  <2> DEFINE N == InTurn(label, longest)
  <2>10. /\ N \in Seq(Words) /\ Len(N) = Len(label)
         /\ \A i, j \in DOMAIN label : i # j /\ N[i] # <<>> => N[i] # N[j]
         /\ \A i \in DOMAIN label : N[i] # <<>>
    BY <2>2, <2>3, <2>7, <2>8, <2>9, InTurnDistinct
  <2> HIDE DEF N
  <2>11. DOMAIN N = DOMAIN label
    BY <1>2, <2>2, <2>3, <2>10, LenProperties
  <2> QED BY <2>1, <2>3, <2>10, <2>11 DEF N
<1>6. CASE file.csv /\ ~file.header
  <2>1. OwnLabels(file) = [i \in DOMAIN file.labels |-> Generated(i)]
    BY <1>6 DEF OwnLabels
  <2>2. \A i \in DOMAIN file.labels : Generated(i) \in Words /\ Generated(i) # <<>>
    BY <1>3, GeneratedWord
  <2>3. OwnLabels(file) \in [1 .. Len(file.labels) -> Words]
    BY <1>2, <2>1, <2>2
  <2>4. OwnLabels(file) \in Seq(Words) /\ Len(OwnLabels(file)) = Len(file.labels)
    BY <1>2, <2>3
  <2>5. \A i, j \in DOMAIN file.labels : i # j => Generated(i) # Generated(j)
    BY <1>3, GeneratedWord
  <2> QED BY <2>1, <2>2, <2>4, <2>5
<1> QED BY <1>4, <1>5, <1>6

LEMMA HeadersAre ==
  ASSUME NEW file \in Uploads
  PROVE  /\ Headers(file) \in Seq(Words) /\ Len(Headers(file)) <= Len(Numeral)
         /\ Len(file.labels) <= Len(Headers(file))
         /\ \A i \in DOMAIN Headers(file) : Headers(file)[i] # <<>>
         /\ \A i, j \in DOMAIN Headers(file) :
               i # j /\ i <= Len(file.labels) /\ j <= Len(file.labels) => Headers(file)[i] # Headers(file)[j]
         /\ \A r \in DOMAIN Filled(file) : Len(Filled(file)[r]) <= Len(Headers(file))
<1> DEFINE first == OwnLabels(file)
           width == Width(Filled(file))
           extra == IF width > Len(first) THEN width - Len(first) ELSE 0
           added == [i \in 1 .. extra |-> Generated(Len(first) + i)]
<1>1. Headers(file) = first \o added
  BY DEF Headers, OwnLabels
<1>2. /\ first \in Seq(Words) /\ Len(first) = Len(file.labels) /\ Len(first) \in Nat
      /\ DOMAIN first = 1 .. Len(first)
      /\ \A i \in DOMAIN first : first[i] # <<>>
      /\ \A i, j \in DOMAIN first : i # j => first[i] # first[j]
  BY OwnLabelsDiffer, LenProperties
<1>3. Len(file.labels) <= Len(Numeral) /\ DOMAIN Numeral = 1 .. Len(Numeral) /\ Len(Numeral) \in Nat
  BY UploadAssumption, NameAssumption, LenProperties
<1>4. /\ width \in Nat /\ width <= Len(Numeral)
      /\ \A r \in DOMAIN Filled(file) : Len(Filled(file)[r]) <= width
      /\ \A r \in DOMAIN Filled(file) : Len(Filled(file)[r]) \in Nat
  BY WidthIs, FilledRows
<1> HIDE DEF first, width
<1>5. extra \in Nat /\ Len(first) + extra <= Len(Numeral) /\ width <= Len(first) + extra
  <2>1. Len(first) <= Len(Numeral)
    BY <1>2, <1>3
  <2>2. CASE width > Len(first)
    <3>1. extra = width - Len(first)
      BY <2>2
    <3> HIDE DEF extra
    <3> QED BY <1>2, <1>3, <1>4, <2>2, <3>1
  <2>3. CASE ~(width > Len(first))
    <3>1. extra = 0
      BY <2>3
    <3> HIDE DEF extra
    <3> QED BY <1>2, <1>3, <1>4, <2>1, <2>3, <3>1
  <2> QED BY <2>2, <2>3
<1> HIDE DEF extra
<1>6. \A i \in 1 .. extra : Len(first) + i \in DOMAIN Numeral
  BY <1>2, <1>3, <1>5
<1>7. \A i \in 1 .. extra : added[i] \in Words /\ added[i] # <<>>
  BY <1>6, GeneratedWord
<1>8. added \in [1 .. extra -> Words]
  BY <1>6, GeneratedWord
<1> HIDE DEF added
<1>9. added \in Seq(Words) /\ Len(added) = extra
  BY <1>5, <1>8
<1> DEFINE H == first \o added
<1>10. /\ H \in Seq(Words) /\ Len(H) = Len(first) + extra
       /\ \A i \in 1 .. Len(first) + extra : H[i] = IF i <= Len(first) THEN first[i] ELSE added[i - Len(first)]
  BY <1>2, <1>9, ConcatProperties
<1> HIDE DEF H
<1>11. DOMAIN H = 1 .. Len(first) + extra
  BY <1>10, LenProperties
<1>12. \A i \in DOMAIN H : i <= Len(first) => i \in DOMAIN first /\ H[i] = first[i]
  BY <1>2, <1>5, <1>10, <1>11
<1>13. \A i \in DOMAIN H : H[i] # <<>>
  <2> SUFFICES ASSUME NEW i \in DOMAIN H PROVE H[i] # <<>>
    OBVIOUS
  <2>1. CASE i <= Len(first)
    BY <1>2, <1>12, <2>1
  <2>2. CASE ~(i <= Len(first))
    <3>1. i - Len(first) \in 1 .. extra /\ H[i] = added[i - Len(first)]
      BY <1>2, <1>5, <1>10, <1>11, <2>2
    <3> QED BY <1>7, <3>1
  <2> QED BY <2>1, <2>2
<1>14. \A i, j \in DOMAIN H : i # j /\ i <= Len(file.labels) /\ j <= Len(file.labels) => H[i] # H[j]
  BY <1>2, <1>12
<1>15. Len(H) <= Len(Numeral) /\ Len(file.labels) <= Len(H)
  BY <1>2, <1>5, <1>10
<1>16. \A r \in DOMAIN Filled(file) : Len(Filled(file)[r]) <= Len(H)
  BY <1>2, <1>4, <1>5, <1>10
<1> QED BY <1>1, <1>10, <1>13, <1>14, <1>15, <1>16 DEF H

-----------------------------------------------------------------------------
\* The one header that a label of the grid stands for when a row is read.
LEMMA LastUnderIsOne ==
  ASSUME NEW file \in Uploads, NEW r, NEW label,
         NEW i \in LastUnder(file, r, label), NEW j \in LastUnder(file, r, label)
  PROVE  i = j
<1>1. DOMAIN Headers(file) = 1 .. Len(Headers(file)) /\ Len(Headers(file)) \in Nat
  BY HeadersAre, LenProperties
<1>2. i \in Nat /\ j \in Nat
  BY <1>1 DEF LastUnder, Labelled
<1>3. ~(j > i) /\ ~(i > j)
  BY DEF LastUnder
<1> QED BY <1>2, <1>3

LEMMA LinesHaveCells ==
  ASSUME NEW file \in Uploads, NEW r \in DOMAIN Filled(file), NEW label \in ToSet(Headers(file))
  PROVE  Line(file, r)[label] \in Cells
<1> DEFINE last == CHOOSE i \in LastUnder(file, r, label) : TRUE
<1>1. Line(file, r)[label] = IF \E i \in LastUnder(file, r, label) : i <= Len(Filled(file)[r])
                             THEN Filled(file)[r][last] ELSE "empty"
  BY DEF Line
<1>2. CASE \E i \in LastUnder(file, r, label) : i <= Len(Filled(file)[r])
  <2>1. PICK i \in LastUnder(file, r, label) : i <= Len(Filled(file)[r])
    BY <1>2
  <2>2. last \in LastUnder(file, r, label)
    BY <2>1
  <2> HIDE DEF last
  <2>3. last = i
    BY <2>1, <2>2, LastUnderIsOne
  <2>4. i \in DOMAIN Headers(file)
    BY DEF LastUnder, Labelled
  <2>5. Filled(file)[r] \in Seq(Cells) /\ Len(Filled(file)[r]) \in Nat
    BY FilledRows
  <2>6. i \in 1 .. Len(Filled(file)[r])
    <3>1. DOMAIN Headers(file) = 1 .. Len(Headers(file)) /\ Len(Headers(file)) \in Nat
      BY HeadersAre, LenProperties
    <3> QED BY <2>1, <2>4, <2>5, <3>1
  <2>7. Filled(file)[r][i] \in Cells
    BY <2>5, <2>6, ElementOfSeq
  <2> QED BY <1>1, <1>2, <2>3, <2>7
<1>3. CASE ~\E i \in LastUnder(file, r, label) : i <= Len(Filled(file)[r])
  BY <1>1, <1>3 DEF Cells
<1> QED BY <1>2, <1>3

\* Where no label comes twice, a row has its cells where the file has them.
LEMMA LinesKeepCells ==
  ASSUME NEW file \in Uploads, NEW r \in DOMAIN Filled(file),
         \A i, j \in DOMAIN Headers(file) : i # j => Headers(file)[i] # Headers(file)[j],
         NEW i \in DOMAIN Filled(file)[r]
  PROVE  i \in DOMAIN Headers(file) /\ Line(file, r)[Headers(file)[i]] = Filled(file)[r][i]
<1>1. DOMAIN Headers(file) = 1 .. Len(Headers(file)) /\ Len(Headers(file)) \in Nat
  BY HeadersAre, LenProperties
<1>2. Filled(file)[r] \in Seq(Cells) /\ Len(Filled(file)[r]) \in Nat /\ Len(Filled(file)[r]) <= Len(Headers(file))
  BY FilledRows, HeadersAre
<1>3. DOMAIN Filled(file)[r] = 1 .. Len(Filled(file)[r])
  BY <1>2, LenProperties
<1>4. i \in DOMAIN Headers(file) /\ i <= Len(Filled(file)[r])
  BY <1>1, <1>2, <1>3
<1>5. r \in 1 .. r
  <2>1. DOMAIN Filled(file) = 1 .. Len(Filled(file)) /\ Len(Filled(file)) \in Nat
    BY FilledRows, LenProperties
  <2> QED BY <2>1
<1>6. i \in Labelled(file, r)
  BY <1>4, <1>5 DEF Labelled
<1> DEFINE label == Headers(file)[i]
           last == CHOOSE k \in LastUnder(file, r, label) : TRUE
<1>7. i \in LastUnder(file, r, label)
  <2>1. \A j \in Labelled(file, r) : j > i => Headers(file)[j] # label
    <3> SUFFICES ASSUME NEW j \in Labelled(file, r), j > i PROVE Headers(file)[j] # label
      OBVIOUS
    <3>1. j \in DOMAIN Headers(file)
      BY DEF Labelled
    <3>2. j # i
      BY <1>1, <1>4, <3>1
    <3> QED BY <1>4, <3>1, <3>2
  <2> QED BY <1>6, <2>1 DEF LastUnder
<1>8. label \in ToSet(Headers(file))
  BY <1>4 DEF ToSet
<1> HIDE DEF label
<1>9. last \in LastUnder(file, r, label)
  BY <1>7
<1>10. last = i
  <2> HIDE DEF last
  <2> QED BY <1>7, <1>9, LastUnderIsOne
<1>11. Line(file, r)[label] = IF \E k \in LastUnder(file, r, label) : k <= Len(Filled(file)[r])
                              THEN Filled(file)[r][last] ELSE "empty"
  BY <1>8 DEF Line
<1> QED BY <1>4, <1>7, <1>10, <1>11 DEF label

\* A name of a label that is short enough is found.
LEMMA NamesFound ==
  ASSUME NEW headers \in Seq(Words), Len(headers) <= Len(Numeral),
         \A i \in DOMAIN headers : headers[i] # <<>>
  PROVE  /\ ImportNames(headers) \in Seq(Words) /\ Len(ImportNames(headers)) = Len(headers)
         /\ \A i \in DOMAIN headers : Len(ImportNames(headers)[i]) <= MaxName
         /\ \A i, j \in DOMAIN headers :
               i # j /\ ImportNames(headers)[i] # <<>> => ImportNames(headers)[i] # ImportNames(headers)[j]
         /\ \A i \in DOMAIN headers : ImportNames(headers)[i] = <<>> => Len(headers[i]) >= MaxName
<1> DEFINE bases == [i \in DOMAIN headers |-> Sanitized(headers[i])]
           longest == [i \in DOMAIN headers |-> MaxName]
<1>1. ImportNames(headers) = InTurn(bases, longest)
  BY DEF ImportNames
<1>2. /\ DOMAIN headers = 1 .. Len(headers) /\ Len(headers) \in Nat
      /\ \A i \in DOMAIN headers : headers[i] \in Words
      /\ MaxName \in Nat /\ MaxName > 0
  BY NameAssumption, LenProperties
<1>3. \A i \in DOMAIN headers :
          /\ Sanitized(headers[i]) \in Words
          /\ Len(headers[i]) < MaxName => Sanitized(headers[i]) # <<>> /\ Len(Sanitized(headers[i])) < MaxName
  <2> SUFFICES ASSUME NEW i \in DOMAIN headers
               PROVE  /\ Sanitized(headers[i]) \in Words
                      /\ Len(headers[i]) < MaxName =>
                            Sanitized(headers[i]) # <<>> /\ Len(Sanitized(headers[i])) < MaxName
    OBVIOUS
  <2> DEFINE label == headers[i]
             plain == [k \in DOMAIN label |-> Plain[label[k]]]
  <2>1. label \in Seq(Alphabet) /\ label # <<>>
    BY <1>2 DEF Words
  <2> HIDE DEF label
  <2>2. DOMAIN label = 1 .. Len(label) /\ Len(label) \in Nat /\ Len(label) > 0
        /\ \A k \in DOMAIN label : label[k] \in Alphabet
    BY <2>1, LenProperties, EmptySeq
  <2>3. plain \in [1 .. Len(label) -> Alphabet]
    BY <2>2, NameAssumption
  <2> HIDE DEF plain
  <2>4. plain \in Seq(Alphabet) /\ Len(plain) = Len(label)
    BY <2>2, <2>3
  <2>5. Sanitized(label) = IF Len(plain) <= MaxName THEN plain ELSE SubSeq(plain, 1, MaxName)
    BY DEF Sanitized, Shortened, plain
  <2>6. CASE Len(plain) <= MaxName
    <3>1. Sanitized(label) \in Words /\ Sanitized(label) # <<>>
      BY <2>2, <2>4, <2>5, <2>6 DEF Words
    <3> QED BY <2>4, <2>5, <2>6, <3>1 DEF label
  <2>7. CASE ~(Len(plain) <= MaxName)
    <3>1. \A k \in 1 .. MaxName : plain[k] \in Alphabet
      BY <1>2, <2>2, <2>3, <2>4, <2>7
    <3>2. SubSeq(plain, 1, MaxName) \in Seq(Alphabet)
      BY <1>2, <3>1, SubSeqProperties
    <3>3. ~(Len(label) < MaxName)
      BY <1>2, <2>2, <2>4, <2>7
    <3> QED BY <2>5, <2>7, <3>2, <3>3 DEF Words, label
  <2> QED BY <2>6, <2>7
<1>4. bases \in Seq(Words) /\ Len(bases) = Len(headers) /\ DOMAIN bases = DOMAIN headers
  <2>1. bases \in [1 .. Len(headers) -> Words]
    BY <1>2, <1>3
  <2>2. DOMAIN bases = DOMAIN headers
    OBVIOUS
  <2> HIDE DEF bases
  <2> QED BY <1>2, <2>1, <2>2
<1>5. \A i \in DOMAIN headers : bases[i] = Sanitized(headers[i]) /\ longest[i] = MaxName
  OBVIOUS
<1>6. longest \in [DOMAIN bases -> Nat]
  BY <1>2
<1> HIDE DEF bases, longest
<1>7. Len(bases) <= Len(Numeral)
  BY <1>4
<1> DEFINE N == InTurn(bases, longest)
<1>8. /\ N \in Seq(Words) /\ Len(N) = Len(bases)
      /\ \A i \in DOMAIN bases : Len(N[i]) <= longest[i]
      /\ \A i, j \in DOMAIN bases : i # j /\ N[i] # <<>> => N[i] # N[j]
      /\ \A i \in DOMAIN bases :
            bases[i] # <<>> /\ longest[i] > 0 /\ Len(bases[i]) < longest[i] => N[i] # <<>>
  BY <1>4, <1>6, <1>7, InTurnDistinct
<1> HIDE DEF N
<1>9. \A i \in DOMAIN headers : N[i] = <<>> => Len(headers[i]) >= MaxName
  <2> SUFFICES ASSUME NEW i \in DOMAIN headers, N[i] = <<>> PROVE Len(headers[i]) >= MaxName
    OBVIOUS
  <2>1. ~(Len(headers[i]) < MaxName)
    BY <1>2, <1>3, <1>4, <1>5, <1>8
  <2>2. Len(headers[i]) \in Nat
    BY <1>2 DEF Words
  <2> QED BY <1>2, <2>1, <2>2
<1>10. \A i \in DOMAIN headers : Len(N[i]) <= MaxName
  BY <1>4, <1>5, <1>8
<1> QED BY <1>1, <1>4, <1>8, <1>9, <1>10 DEF N

-----------------------------------------------------------------------------
\* What the upload is when its form is shown, sent and stored.
ColumnInv ==
    /\ sheet \in Uploads
    /\ grid = Nothing \/ grid = Parsed(sheet)
    /\ columns # Nothing =>
          /\ grid = Parsed(sheet)
          /\ columns.status \in {"defined", "refused", "valid"}
          /\ columns.names = [i \in DOMAIN ImportNames(grid.headers) |-> columns.names[i]]
          /\ columns.status = "defined" => columns.names = ImportNames(grid.headers)
          /\ columns.keys \subseteq DOMAIN columns.names
          /\ \A i \in DOMAIN columns.names :
                /\ i \in columns.keys => ~columns.nulls[i]
                /\ i \notin columns.edited => ~Retyped(i)
                /\ "empty" \in Column(grid.headers[i]) /\ i \notin columns.keys \cup columns.edited =>
                      columns.nulls[i]
          /\ columns.status = "defined" => columns.edited = {} /\ columns.keys = {}
          /\ columns.status = "valid" =>
                ~Refuses(columns) /\ (columns.keys # {} => columns.mode = "columns")
    /\ stored # Nothing => columns.status = "valid"
    /\ stored.status = "no_table" => NoTable(columns, stored.why) /\ stored.why \in TableErrors
    /\ stored.status = "rolled_back" =>
          ~AllAccepted \/ KeyMayRepeat \/ \E i \in DOMAIN grid.headers : Retyped(i)
    /\ stored.status = "stored" =>
          /\ AllAccepted
          /\ stored.rows = [r \in DOMAIN grid.rows |-> [i \in DOMAIN grid.headers |-> Value(r, i)]]

LEMMA ColumnInitially == ColumnInit => ColumnInv
<1>1. Nothing.status = "none"
  BY DEF Nothing
<1> QED BY <1>1 DEF ColumnInit, ColumnInv

LEMMA ParseStep == ColumnInv /\ Parse => ColumnInv'
<1> SUFFICES ASSUME ColumnInv, Parse PROVE ColumnInv'
  OBVIOUS
<1>1. /\ grid = Nothing /\ grid' = Parsed(sheet) /\ sheet' = sheet
      /\ columns' = columns /\ stored' = stored /\ sheet \in Uploads
  BY DEF Parse, ColumnInv
<1>2. Parsed(sheet).status = "parsed" /\ Nothing.status = "none"
  BY DEF Parsed, Nothing
<1>3. columns = Nothing
  BY <1>1, <1>2 DEF ColumnInv
<1>4. stored = Nothing
  BY <1>2, <1>3 DEF ColumnInv
<1> QED BY <1>1, <1>2, <1>3, <1>4 DEF ColumnInv

LEMMA DefineStep == ColumnInv /\ Define => ColumnInv'
<1> SUFFICES ASSUME ColumnInv, Define PROVE ColumnInv'
  OBVIOUS
<1> DEFINE names == ImportNames(grid.headers)
           types == [i \in DOMAIN names |-> InferredType(Column(grid.headers[i]))]
           nulls == [i \in DOMAIN names |-> "empty" \in Column(grid.headers[i]) \/ grid.rows = <<>>]
<1>1. /\ columns' = [status |-> "defined", names |-> names, types |-> types, nulls |-> nulls,
                     keys |-> {}, mode |-> "none", edited |-> {}]
      /\ grid = Parsed(sheet) /\ columns = Nothing
      /\ sheet' = sheet /\ grid' = grid /\ stored' = stored /\ sheet \in Uploads
  BY DEF Define, ColumnInv
<1>2. Nothing.status = "none"
  BY DEF Nothing
<1>3. stored = Nothing
  BY <1>1, <1>2 DEF ColumnInv
<1>4. \A i \in DOMAIN names : "empty" \in Column(grid.headers[i]) => nulls[i]
  OBVIOUS
<1>5. \A i \in DOMAIN names : types[i] = InferredType(Column(grid.headers[i]))
  OBVIOUS
<1>6. names = [i \in DOMAIN names |-> names[i]]
  <2>1. grid.headers = Headers(sheet)
    BY <1>1 DEF Parsed
  <2>2. names \in Seq(Words)
    BY <1>1, <2>1, HeadersAre, NamesFound
  <2> HIDE DEF names
  <2>3. names \in [1 .. Len(names) -> Words]
    BY <2>2, LenProperties
  <2> QED BY <2>3
<1> HIDE DEF names, nulls, types
<1>7. /\ columns'.status = "defined" /\ columns'.names = names /\ columns'.types = types
      /\ columns'.nulls = nulls /\ columns'.keys = {} /\ columns'.edited = {}
  BY <1>1
<1>8. \A i \in DOMAIN names : Column(grid.headers[i])' = Column(grid.headers[i])
  BY <1>1 DEF Column
<1>9. names = ImportNames(grid.headers)'
  BY <1>1 DEF names
<1>10. \A i \in DOMAIN columns'.names :
          /\ ~Retyped(i)'
          /\ "empty" \in Column(grid.headers[i])' => columns'.nulls[i]
  BY <1>4, <1>5, <1>7, <1>8 DEF Retyped
<1>11. (columns.names = [i \in DOMAIN ImportNames(grid.headers) |-> columns.names[i]])'
  BY <1>6, <1>7, <1>9
<1> QED BY <1>1, <1>2, <1>3, <1>7, <1>9, <1>10, <1>11 DEF ColumnInv

LEMMA SubmitFormStep ==
  ASSUME ColumnInv, NEW mode, NEW chosen \in SUBSET DOMAIN columns.names,
         NEW others, NEW names \in [DOMAIN columns.names -> others], NEW types, NEW nulls,
         SubmitForm(mode, names, types, nulls, chosen)
  PROVE  ColumnInv'
<1>1. /\ columns.status = "defined" /\ sheet' = sheet /\ grid' = grid /\ stored' = stored
      /\ chosen # {} => mode = "columns"
  BY DEF SubmitForm
<1>2. Nothing.status = "none"
  BY DEF Nothing
<1>3. columns # Nothing /\ stored = Nothing
  BY <1>1, <1>2 DEF ColumnInv
<1>4. /\ sheet \in Uploads /\ grid = Parsed(sheet)
      /\ columns.names = ImportNames(grid.headers)
      /\ columns.keys = {} /\ columns.edited = {}
      /\ \A i \in DOMAIN columns.names :
            /\ ~Retyped(i)
            /\ "empty" \in Column(grid.headers[i]) => columns.nulls[i]
  BY <1>1, <1>3 DEF ColumnInv
<1> DEFINE edited == {i \in DOMAIN names : types[i] # columns.types[i] \/ nulls[i] # columns.nulls[i]}
           left == [i \in DOMAIN names |-> i \notin chosen /\ nulls[i]]
           form(status) == [status |-> status, names |-> names, types |-> types, nulls |-> left,
                            keys |-> chosen, mode |-> mode, edited |-> edited]
<1>5. columns' = form(IF Refuses(form("valid")) THEN "refused" ELSE "valid")
  BY DEF SubmitForm
<1>6. DOMAIN names = DOMAIN columns.names
  OBVIOUS
<1>7. \A i \in DOMAIN names :
          /\ i \in chosen => ~left[i]
          /\ i \notin edited => types[i] = columns.types[i] /\ nulls[i] = columns.nulls[i]
          /\ i \notin chosen => (left[i] <=> nulls[i])
  <2>1. \A i \in DOMAIN names : left[i] <=> i \notin chosen /\ nulls[i]
    OBVIOUS
  <2>2. \A i \in DOMAIN names : i \notin edited => types[i] = columns.types[i] /\ nulls[i] = columns.nulls[i]
    OBVIOUS
  <2> HIDE DEF left, edited
  <2> QED BY <2>1, <2>2
<1>8. /\ columns'.names = names /\ columns'.types = types /\ columns'.nulls = left
      /\ columns'.keys = chosen /\ columns'.mode = mode /\ columns'.edited = edited
      /\ columns'.status = IF Refuses(form("valid")) THEN "refused" ELSE "valid"
  BY <1>5
<1>9. columns'.status = "valid" => columns' = form("valid") /\ ~Refuses(form("valid"))
  BY <1>5, <1>8
<1>10. columns'.status = "valid" => ~Refuses(columns)'
  <2> HIDE DEF form
  <2>1. SUFFICES ASSUME columns'.status = "valid" PROVE ~Refuses(columns')
    BY DEF Refuses
  <2> QED BY <1>9, <2>1
<1>11. columns'.status \in {"refused", "valid"}
  BY <1>8
<1> HIDE DEF left, form, edited
<1>12. \A i \in DOMAIN columns.names : Column(grid.headers[i])' = Column(grid.headers[i])
  BY <1>1 DEF Column
<1>13. \A i \in DOMAIN names : i \notin edited => ~Retyped(i)'
  BY <1>4, <1>6, <1>7, <1>8, <1>12 DEF Retyped
<1>14. \A i \in DOMAIN names : "empty" \in Column(grid.headers[i])' /\ i \notin chosen \cup edited => left[i]
  BY <1>4, <1>6, <1>7, <1>12
<1>15. ImportNames(grid.headers)' = ImportNames(grid.headers)
  BY <1>1
<1>16. (columns.names = [i \in DOMAIN ImportNames(grid.headers) |-> columns.names[i]])'
  <2>1. names = [i \in DOMAIN columns.names |-> names[i]]
    OBVIOUS
  <2> QED BY <1>4, <1>8, <1>15, <2>1
<1>17. \A i \in DOMAIN columns'.names :
          /\ i \in columns'.keys => ~columns'.nulls[i]
          /\ i \notin columns'.edited => ~Retyped(i)'
          /\ "empty" \in Column(grid.headers[i])' /\ i \notin columns'.keys \cup columns'.edited =>
                columns'.nulls[i]
  BY <1>7, <1>8, <1>13, <1>14
<1>18. columns'.keys \subseteq DOMAIN columns'.names /\ (columns'.keys # {} => columns'.mode = "columns")
  BY <1>1, <1>6, <1>8
<1> QED BY <1>1, <1>2, <1>3, <1>4, <1>10, <1>11, <1>16, <1>17, <1>18 DEF ColumnInv

LEMMA StoreStep == ColumnInv /\ Store => ColumnInv'
<1> SUFFICES ASSUME ColumnInv, Store PROVE ColumnInv'
  OBVIOUS
<1>1. /\ columns.status = "valid" /\ stored = Nothing
      /\ sheet' = sheet /\ grid' = grid /\ columns' = columns
  BY DEF Store
<1>2. \A label : Column(label)' = Column(label)
  BY <1>1 DEF Column
<1>3. \A i : Retyped(i)' <=> Retyped(i)
  BY <1>1, <1>2 DEF Retyped
<1>4. \A r, i : Value(r, i)' = Value(r, i)
  BY <1>1, <1>3 DEF Value
<1>5. \A r, i : Accepted(r, i)' <=> Accepted(r, i)
  BY <1>1, <1>3, <1>4 DEF Accepted
<1>6. (AllAccepted' <=> AllAccepted) /\ (KeyMayRepeat' <=> KeyMayRepeat)
  BY <1>1, <1>5 DEF AllAccepted, KeyMayRepeat
<1>7. /\ sheet' \in Uploads /\ grid' = Parsed(sheet)' /\ columns' # Nothing
      /\ columns'.status = "valid"
  BY <1>1 DEF ColumnInv, Nothing
<1> DEFINE FormInv ==
      /\ columns.status \in {"defined", "refused", "valid"}
      /\ columns.names = [i \in DOMAIN ImportNames(grid.headers) |-> columns.names[i]]
      /\ columns.status = "defined" => columns.names = ImportNames(grid.headers)
      /\ columns.keys \subseteq DOMAIN columns.names
      /\ \A i \in DOMAIN columns.names :
            /\ i \in columns.keys => ~columns.nulls[i]
            /\ i \notin columns.edited => ~Retyped(i)
            /\ "empty" \in Column(grid.headers[i]) /\ i \notin columns.keys \cup columns.edited =>
                  columns.nulls[i]
      /\ columns.status = "defined" => columns.edited = {} /\ columns.keys = {}
      /\ columns.status = "valid" =>
            ~Refuses(columns) /\ (columns.keys # {} => columns.mode = "columns")
<1>8. FormInv
  BY <1>1 DEF ColumnInv, Nothing
<1>9. FormInv'
  BY <1>1, <1>2, <1>3, <1>8 DEF Refuses
<1> HIDE DEF FormInv
<1>10. CASE \E why \in TableErrors :
               NoTable(columns, why) /\ stored' = [status |-> "no_table", why |-> why]
  <2>1. stored'.status = "no_table" /\ stored'.why \in TableErrors /\ NoTable(columns, stored'.why)
    BY <1>10
  <2>2. NoTable(columns, stored.why)'
    BY <1>1, <2>1 DEF NoTable
  <2> QED BY <1>7, <1>9, <2>1, <2>2 DEF ColumnInv, FormInv
<1> DEFINE rows == [r \in DOMAIN grid.rows |-> [i \in DOMAIN grid.headers |-> Value(r, i)]]
<1>11. CASE AllAccepted /\ stored' = [status |-> "stored", rows |-> rows]
  <2>1. stored'.status = "stored" /\ stored'.rows = rows
    BY <1>11
  <2>2. rows = [r \in DOMAIN grid.rows |-> [i \in DOMAIN grid.headers |-> Value(r, i)]]'
    BY <1>1, <1>4
  <2> HIDE DEF rows
  <2> QED BY <1>6, <1>7, <1>9, <1>11, <2>1, <2>2 DEF ColumnInv, FormInv
<1>12. CASE /\ ~AllAccepted \/ KeyMayRepeat \/ \E i \in DOMAIN grid.headers : Retyped(i)
            /\ stored' = [status |-> "rolled_back"]
  <2>1. stored'.status = "rolled_back"
    BY <1>12
  <2>2. (~AllAccepted \/ KeyMayRepeat \/ \E i \in DOMAIN grid.headers : Retyped(i))'
    BY <1>1, <1>3, <1>6, <1>12
  <2> QED BY <1>7, <1>9, <2>1, <2>2 DEF ColumnInv, FormInv
<1> QED BY <1>10, <1>11, <1>12 DEF Store

THEOREM ColumnsAreInv == ColumnSpec => []ColumnInv
<1>1. ColumnInv /\ UNCHANGED columnVars => ColumnInv'
  <2> SUFFICES ASSUME ColumnInv, UNCHANGED columnVars PROVE ColumnInv'
    OBVIOUS
  <2>1. sheet' = sheet /\ grid' = grid /\ columns' = columns /\ stored' = stored
    BY DEF columnVars
  <2>2. \A i : Retyped(i)' <=> Retyped(i)
    BY <2>1 DEF Retyped, Column
  <2>3. \A label : Column(label)' = Column(label)
    BY <2>1 DEF Column
  <2>4. \A r, i : Value(r, i)' = Value(r, i)
    BY <2>1, <2>2 DEF Value
  <2>5. \A r, i : Accepted(r, i)' <=> Accepted(r, i)
    BY <2>1, <2>2, <2>4 DEF Accepted
  <2>6. (AllAccepted' <=> AllAccepted) /\ (KeyMayRepeat' <=> KeyMayRepeat)
    BY <2>1, <2>5 DEF AllAccepted, KeyMayRepeat
  <2>7. NoTable(columns, stored.why)' <=> NoTable(columns, stored.why)
    BY <2>1 DEF NoTable
  <2>8. Refuses(columns)' <=> Refuses(columns)
    BY <2>1 DEF Refuses
  <2> QED BY <2>1, <2>2, <2>3, <2>4, <2>6, <2>7, <2>8 DEF ColumnInv
<1>2. ColumnInv /\ [ColumnNext]_columnVars => ColumnInv'
  <2>1. ASSUME ColumnInv,
               NEW mode \in {"none", "columns", "my_row_id"}, NEW chosen \in SUBSET DOMAIN columns.names,
               NEW names \in [DOMAIN columns.names -> FormNames \cup ToSet(columns.names)],
               NEW types \in [DOMAIN columns.names -> FormTypes \cup ToSet(columns.types)],
               NEW nulls \in [DOMAIN columns.names -> BOOLEAN], SubmitForm(mode, names, types, nulls, chosen)
        PROVE  ColumnInv'
    BY <2>1, SubmitFormStep
  <2> QED BY <1>1, <2>1, ParseStep, DefineStep, StoreStep DEF ColumnNext
<1> QED BY <1>2, ColumnInitially, PTL DEF ColumnSpec

-----------------------------------------------------------------------------
\* What is known of a grid and of its form.
LEMMA GridFacts ==
  ASSUME ColumnInv, grid # Nothing
  PROVE  /\ sheet \in Uploads
         /\ grid.headers = Headers(sheet) /\ DOMAIN grid.headers = 1 .. Len(grid.headers)
         /\ Len(grid.headers) \in Nat
         /\ DOMAIN grid.rows = DOMAIN Filled(sheet)
         /\ \A r \in DOMAIN grid.rows : grid.rows[r] = Line(sheet, r)
         /\ \A i \in DOMAIN grid.headers : Column(grid.headers[i]) \subseteq Cells
<1>1. sheet \in Uploads /\ grid = Parsed(sheet)
  BY DEF ColumnInv
<1>2. /\ grid.headers = Headers(sheet)
      /\ grid.rows = [r \in DOMAIN Filled(sheet) |-> Line(sheet, r)]
  BY <1>1 DEF Parsed
<1>3. DOMAIN grid.headers = 1 .. Len(grid.headers) /\ Len(grid.headers) \in Nat
  BY <1>1, <1>2, HeadersAre, LenProperties
<1>4. \A r \in DOMAIN grid.rows : r \in DOMAIN Filled(sheet) /\ grid.rows[r] = Line(sheet, r)
  BY <1>2
<1>5. \A i \in DOMAIN grid.headers : Column(grid.headers[i]) \subseteq Cells
  <2> SUFFICES ASSUME NEW i \in DOMAIN grid.headers, NEW r \in DOMAIN grid.rows
               PROVE  grid.rows[r][grid.headers[i]] \in Cells
    BY DEF Column
  <2>1. grid.headers[i] \in ToSet(Headers(sheet))
    BY <1>2 DEF ToSet
  <2> QED BY <1>1, <1>4, <2>1, LinesHaveCells
<1> QED BY <1>1, <1>2, <1>3, <1>4, <1>5

LEMMA FormFacts ==
  ASSUME ColumnInv, columns # Nothing
  PROVE  /\ grid # Nothing
         /\ DOMAIN columns.names = DOMAIN grid.headers
         /\ columns.names \in Seq({columns.names[i] : i \in DOMAIN grid.headers})
         /\ columns.status = "defined" =>
               /\ \A i \in DOMAIN grid.headers : Len(columns.names[i]) <= MaxName
               /\ \A i, j \in DOMAIN grid.headers :
                     i # j /\ columns.names[i] # <<>> => columns.names[i] # columns.names[j]
               /\ \A i \in DOMAIN grid.headers :
                     columns.names[i] = <<>> => Len(grid.headers[i]) >= MaxName
<1>1. Parsed(sheet).status = "parsed" /\ Nothing.status = "none"
  BY DEF Parsed, Nothing
<1>2. /\ grid # Nothing
      /\ columns.names = [i \in DOMAIN ImportNames(grid.headers) |-> columns.names[i]]
      /\ columns.status = "defined" => columns.names = ImportNames(grid.headers)
  BY <1>1 DEF ColumnInv
<1>3. grid.headers \in Seq(Words) /\ Len(grid.headers) <= Len(Numeral)
      /\ \A i \in DOMAIN grid.headers : grid.headers[i] # <<>>
  BY <1>2, GridFacts, HeadersAre
<1> DEFINE names == ImportNames(grid.headers)
<1>4. /\ names \in Seq(Words) /\ Len(names) = Len(grid.headers)
      /\ \A i \in DOMAIN grid.headers : Len(names[i]) <= MaxName
      /\ \A i, j \in DOMAIN grid.headers : i # j /\ names[i] # <<>> => names[i] # names[j]
      /\ \A i \in DOMAIN grid.headers : names[i] = <<>> => Len(grid.headers[i]) >= MaxName
  BY <1>3, NamesFound
<1>5. columns.names = [i \in DOMAIN names |-> columns.names[i]]
  BY <1>2
<1> HIDE DEF names
<1>6. DOMAIN names = DOMAIN grid.headers /\ DOMAIN grid.headers = 1 .. Len(grid.headers)
      /\ Len(grid.headers) \in Nat
  BY <1>3, <1>4, LenProperties
<1>7. columns.status = "defined" => columns.names = names
  BY <1>2 DEF names
<1> DEFINE given == {columns.names[i] : i \in DOMAIN grid.headers}
<1>8. columns.names \in Seq(given)
  <2>1. \A i \in 1 .. Len(grid.headers) : columns.names[i] \in given
    BY <1>6
  <2> HIDE DEF given
  <2>2. columns.names \in [1 .. Len(grid.headers) -> given]
    BY <1>5, <1>6, <2>1
  <2> QED BY <1>6, <2>2
<1>9. DOMAIN columns.names = DOMAIN grid.headers
  BY <1>5, <1>6
<1> QED BY <1>2, <1>4, <1>7, <1>8, <1>9

\* A value of a column, unless it is one of those that the inference does not look
\* at, is taken by a column of the type inferred from all of them.
LEMMA InferredTakes ==
  ASSUME NEW values \in SUBSET Cells, NEW cell \in values,
         values \cap Exact = {}, cell # "empty"
  PROVE  /\ Coerced(cell, InferredType(values)) = cell
         /\ Taken(cell, InferredType(values))
<1> DEFINE of == values \ {"empty"}
           type == InferredType(values)
<1>1. cell \in of /\ of # {} /\ of \subseteq Cells \ Exact /\ cell # "error" /\ cell # "null"
  BY DEF Cells, Texts, Values
<1>2. type = IF of = {} THEN "VARCHAR"
             ELSE IF of \subseteq {"document"} THEN "JSON"
             ELSE IF of \subseteq BoolLike THEN "TINYINT"
             ELSE IF of \subseteq IntLike THEN "BIGINT"
             ELSE IF of \subseteq FloatLike THEN "DOUBLE"
             ELSE IF of \subseteq DatetimeLike THEN "DATETIME"
             ELSE IF of \subseteq {"date"} THEN "DATE"
             ELSE IF "huge" \in of THEN "LONGTEXT"
             ELSE IF of \cap {"long", "wide"} # {} THEN "TEXT" ELSE "VARCHAR"
  BY DEF InferredType
<1> HIDE DEF of, type
<1>3. cell \notin Exact
  BY <1>1
<1>4. CASE of \subseteq {"document"}
  <2>1. type = "JSON" /\ cell = "document"
    BY <1>1, <1>2, <1>4
  <2> QED BY <2>1 DEF Coerced, Taken, Values, type
<1>5. CASE ~(of \subseteq {"document"}) /\ of \subseteq BoolLike
  <2>1. type = "TINYINT" /\ cell \in BoolLike
    BY <1>1, <1>2, <1>5
  <2> QED BY <1>1, <1>3, <2>1 DEF Coerced, Taken, BoolLike, Exact, type
<1>6. CASE ~(of \subseteq {"document"}) /\ ~(of \subseteq BoolLike) /\ of \subseteq IntLike
  <2>1. type = "BIGINT" /\ cell \in IntLike
    BY <1>1, <1>2, <1>6
  <2> QED BY <1>1, <1>3, <2>1 DEF Coerced, Taken, IntLike, Exact, type
<1>7. CASE /\ ~(of \subseteq {"document"}) /\ ~(of \subseteq BoolLike) /\ ~(of \subseteq IntLike)
           /\ of \subseteq FloatLike
  <2>1. type = "DOUBLE" /\ cell \in FloatLike
    BY <1>1, <1>2, <1>7
  <2> QED BY <1>1, <1>3, <2>1 DEF Coerced, Taken, FloatLike, Exact, type
<1>8. CASE /\ ~(of \subseteq {"document"}) /\ ~(of \subseteq BoolLike) /\ ~(of \subseteq IntLike)
           /\ ~(of \subseteq FloatLike) /\ of \subseteq DatetimeLike
  <2>1. type = "DATETIME" /\ cell \in DatetimeLike
    BY <1>1, <1>2, <1>8
  <2> QED BY <1>1, <1>3, <2>1 DEF Coerced, Taken, DatetimeLike, Exact, type
<1>9. CASE /\ ~(of \subseteq {"document"}) /\ ~(of \subseteq BoolLike) /\ ~(of \subseteq IntLike)
           /\ ~(of \subseteq FloatLike) /\ ~(of \subseteq DatetimeLike) /\ of \subseteq {"date"}
  <2>1. type = "DATE" /\ cell = "date"
    BY <1>1, <1>2, <1>9
  <2> QED BY <2>1 DEF Coerced, Taken, type
<1>10. CASE /\ ~(of \subseteq {"document"}) /\ ~(of \subseteq BoolLike) /\ ~(of \subseteq IntLike)
            /\ ~(of \subseteq FloatLike) /\ ~(of \subseteq DatetimeLike) /\ ~(of \subseteq {"date"})
  <2>1. type = IF "huge" \in of THEN "LONGTEXT"
               ELSE IF of \cap {"long", "wide"} # {} THEN "TEXT" ELSE "VARCHAR"
    BY <1>1, <1>2, <1>10
  <2>2. CASE "huge" \in of
    <3>1. type = "LONGTEXT"
      BY <2>1, <2>2
    <3> QED BY <1>1, <3>1 DEF Coerced, Taken, type
  <2>3. CASE "huge" \notin of /\ of \cap {"long", "wide"} # {}
    <3>1. type = "TEXT" /\ cell # "huge" /\ cell # "wide"
      BY <1>1, <1>3, <2>1, <2>3 DEF Exact
    <3> QED BY <1>1, <3>1 DEF Coerced, Taken, type
  <2>4. CASE "huge" \notin of /\ of \cap {"long", "wide"} = {}
    <3>1. type = "VARCHAR" /\ cell # "huge" /\ cell # "wide" /\ cell # "long"
      BY <1>1, <2>1, <2>4
    <3> QED BY <1>1, <3>1 DEF Coerced, Taken, type
  <2> QED BY <2>2, <2>3, <2>4
<1> QED BY <1>4, <1>5, <1>6, <1>7, <1>8, <1>9, <1>10

LEMMA InferenceFitsHolds == ColumnInv => InferenceFits
<1> SUFFICES ASSUME ColumnInv, stored.status = "rolled_back", ~KeyMayRepeat
             PROVE  \E i \in DOMAIN grid.headers :
                        \/ i \in columns.edited
                        \/ Column(grid.headers[i]) \cap Exact # {}
                        \/ i \in columns.keys /\ "empty" \in Column(grid.headers[i])
  BY DEF InferenceFits
<1>1. stored # Nothing /\ columns # Nothing
  BY DEF ColumnInv, Nothing
<1>2. /\ DOMAIN columns.names = DOMAIN grid.headers
      /\ \A i \in DOMAIN columns.names :
            /\ i \notin columns.edited => ~Retyped(i)
            /\ "empty" \in Column(grid.headers[i]) /\ i \notin columns.keys \cup columns.edited =>
                  columns.nulls[i]
  BY <1>1, FormFacts DEF ColumnInv
<1>3. CASE \E i \in DOMAIN grid.headers : Retyped(i)
  BY <1>2, <1>3
<1>4. CASE ~AllAccepted
  <2>1. PICK r \in DOMAIN grid.rows, i \in DOMAIN grid.headers : ~Accepted(r, i)
    BY <1>4 DEF AllAccepted
  <2> DEFINE values == Column(grid.headers[i])
             cell == grid.rows[r][grid.headers[i]]
             type == InferredType(values)
  <2>2. values \subseteq Cells /\ cell \in values
    BY <1>1, GridFacts, FormFacts DEF Column
  <2>3. SUFFICES ASSUME values \cap Exact = {}, i \notin columns.edited
                 PROVE  i \in columns.keys /\ "empty" \in values
    OBVIOUS
  <2>4. ~Retyped(i) /\ columns.types[i] = type
    BY <1>2, <2>3 DEF Retyped
  <2>5. "empty" \in values /\ i \notin columns.keys => columns.nulls[i]
    BY <1>2, <2>3
  <2> HIDE DEF values, cell, type
  <2>6. ~(Taken(Coerced(cell, type), type) /\ (Coerced(cell, type) = "null" => columns.nulls[i]))
    BY <2>1, <2>4 DEF Accepted, Value, cell
  <2>7. cell = "empty"
    <3>1. SUFFICES ASSUME cell # "empty" PROVE FALSE
      OBVIOUS
    <3>2. Coerced(cell, type) = cell /\ Taken(cell, type)
      BY <2>2, <2>3, <3>1, InferredTakes DEF type
    <3>3. cell # "null"
      BY <2>2 DEF Cells, Texts, Values
    <3> QED BY <2>6, <3>2, <3>3
  <2>8. Coerced(cell, type) = "null" /\ Taken("null", type)
    BY <2>7 DEF Coerced, Taken
  <2>9. ~columns.nulls[i]
    BY <2>6, <2>8
  <2> QED BY <2>2, <2>5, <2>7, <2>9
<1> QED BY <1>3, <1>4 DEF ColumnInv

LEMMA FormMakesTableHolds == ColumnInv => FormMakesTable
<1>a. ColumnInv /\ stored.status = "no_table" => columns.status = "valid" /\ stored.why \in TableErrors
  BY DEF ColumnInv, Nothing
<1> SUFFICES ASSUME ColumnInv, columns.status = "valid" PROVE FormMakesTable
  BY <1>a DEF FormMakesTable
<1> DEFINE names == columns.names
           Given == {columns.names[i] : i \in DOMAIN grid.headers}
<1>1. columns # Nothing
  BY DEF Nothing
<1>2. names \in Seq(Given) /\ DOMAIN names = 1 .. Len(names) /\ Len(names) \in Nat
  BY <1>1, FormFacts, LenProperties
<1>3. /\ ~Refuses(columns) /\ (columns.keys # {} => columns.mode = "columns")
      /\ columns.keys \subseteq DOMAIN names
      /\ \A i \in DOMAIN names : i \in columns.keys => ~columns.nulls[i]
  BY <1>1 DEF ColumnInv
<1>4. /\ \A i \in DOMAIN names : names[i] # <<>>
      /\ ~(Cardinality(ToSet(names)) < Len(names))
      /\ \A i \in columns.keys : KeyType(columns.types[i])
      /\ ~(columns.mode = "columns" /\ columns.keys = {})
      /\ ~(columns.mode = "my_row_id" /\ MyRowId \in ToSet(names))
  BY <1>3 DEF Refuses, Identifier
<1> HIDE DEF names, Given
<1>5. \A i, j \in DOMAIN names : names[i] = names[j] => i = j
  <2>1. ToSet(names) = {names[i] : i \in DOMAIN names}
    BY DEF ToSet
  <2>2. names \in [1 .. Len(names) -> Given]
    BY <1>2, LenProperties
  <2>3. names \in Surjection(1 .. Len(names), ToSet(names))
    BY <1>2, <2>1, <2>2 DEF Surjection
  <2>4. IsFiniteSet(1 .. Len(names)) /\ Cardinality(1 .. Len(names)) = IF 1 > Len(names) THEN 0 ELSE Len(names) - 1 + 1
    BY Len(names) \in Int, 1 \in Int, <1>2, FS_Interval
  <2>5. Cardinality(1 .. Len(names)) = Len(names)
    BY <1>2, <2>4
  <2>6. /\ IsFiniteSet(ToSet(names)) /\ Cardinality(ToSet(names)) <= Cardinality(1 .. Len(names))
        /\ Cardinality(ToSet(names)) = Cardinality(1 .. Len(names)) <=> names \in Injection(1 .. Len(names), ToSet(names))
    BY <2>3, <2>4, FS_Surjection
  <2>7. Cardinality(ToSet(names)) \in Nat
    BY <2>6, FS_CardinalityType
  <2>8. Cardinality(ToSet(names)) = Cardinality(1 .. Len(names))
    BY <1>2, <1>4, <2>5, <2>6, <2>7
  <2>9. names \in Injection(1 .. Len(names), ToSet(names))
    BY <2>6, <2>8
  <2> QED BY <1>2, <2>9 DEF Injection, IsInjective
<1>6. IsInjective(names \o (IF columns.mode = "my_row_id" THEN <<MyRowId>> ELSE <<>>))
  <2>1. CASE columns.mode # "my_row_id"
    <3>1. names \o <<>> = names
      BY <1>2, ConcatEmptySeq
    <3> QED BY <1>5, <2>1, <3>1 DEF IsInjective
  <2>2. CASE columns.mode = "my_row_id"
    <3> DEFINE X == Given \cup {MyRowId}
               all == names \o <<MyRowId>>
    <3>1. names \in Seq(X) /\ <<MyRowId>> \in Seq(X) /\ Len(<<MyRowId>>) = 1 /\ <<MyRowId>>[1] = MyRowId
      BY <1>2
    <3> HIDE DEF X
    <3>2. /\ all \in Seq(X) /\ Len(all) = Len(names) + 1
          /\ \A i \in 1 .. Len(names) + 1 : all[i] = IF i <= Len(names) THEN names[i] ELSE <<MyRowId>>[i - Len(names)]
      BY <3>1, ConcatProperties
    <3> HIDE DEF all
    <3>3. DOMAIN all = 1 .. Len(names) + 1
      BY <3>2, LenProperties
    <3>4. \A i \in DOMAIN all : \/ i \in DOMAIN names /\ all[i] = names[i]
                                \/ i = Len(names) + 1 /\ all[i] = MyRowId
      <4> SUFFICES ASSUME NEW i \in DOMAIN all
                   PROVE  \/ i \in DOMAIN names /\ all[i] = names[i]
                          \/ i = Len(names) + 1 /\ all[i] = MyRowId
        OBVIOUS
      <4>1. CASE i <= Len(names)
        BY <1>2, <3>2, <3>3, <4>1
      <4>2. CASE ~(i <= Len(names))
        <5>1. i = Len(names) + 1 /\ i - Len(names) = 1
          BY <1>2, <3>3, <4>2
        <5> QED BY <3>1, <3>2, <3>3, <4>2, <5>1
      <4> QED BY <4>1, <4>2
    <3>5. \A i \in DOMAIN names : names[i] # MyRowId
      BY <1>4, <2>2 DEF ToSet
    <3>6. \A i, j \in DOMAIN all : all[i] = all[j] => i = j
      BY <1>5, <3>4, <3>5
    <3> QED BY <2>2, <3>6 DEF IsInjective, all
  <2> QED BY <2>1, <2>2
<1>7. columns.mode = "columns" <=> columns.keys # {}
  BY <1>3, <1>4
<1>8. \A i \in columns.keys : KeyType(columns.types[i]) /\ ~columns.nulls[i]
  BY <1>3, <1>4
<1>9. ASSUME stored.status = "no_table"
      PROVE  stored.why \in {"long_name", "long_key", "long_row", "unknown_type"}
  <2>1. NoTable(columns, stored.why) /\ stored.why \in TableErrors
    BY <1>9 DEF ColumnInv
  <2>2. stored.why # "no_name"
    <3>1. SUFFICES ASSUME stored.why = "no_name" PROVE FALSE
      OBVIOUS
    <3>2. <<>> \in ToSet(names)
      BY <2>1, <3>1 DEF NoTable, names
    <3> QED BY <1>4, <3>2 DEF ToSet
  <2>3. stored.why # "same_name"
    BY <1>6, <2>1 DEF NoTable, names
  <2>4. stored.why # "bad_key"
    BY <1>8, <2>1 DEF NoTable
  <2> QED BY <2>1, <2>2, <2>3, <2>4 DEF TableErrors
<1> QED BY <1>7, <1>9 DEF FormMakesTable

LEMMA OnlyAddedLabelsCollideHolds == ColumnInv => OnlyAddedLabelsCollide
<1> SUFFICES ASSUME ColumnInv, grid # Nothing,
                    NEW i \in DOMAIN grid.headers, NEW j \in DOMAIN grid.headers,
                    i < j, grid.headers[i] = grid.headers[j], ~(j > Len(sheet.labels))
             PROVE  FALSE
  BY DEF OnlyAddedLabelsCollide
<1>1. /\ sheet \in Uploads /\ grid.headers = Headers(sheet)
      /\ DOMAIN grid.headers = 1 .. Len(grid.headers) /\ Len(grid.headers) \in Nat
  BY GridFacts
<1>2. Len(sheet.labels) \in Nat
  BY <1>1, UploadAssumption, LenProperties
<1>3. i # j /\ i <= Len(sheet.labels) /\ j <= Len(sheet.labels)
  BY <1>1, <1>2
<1> QED BY <1>1, <1>3, HeadersAre

LEMMA NamesDistinctHolds == ColumnInv => NamesDistinct
<1> SUFFICES ASSUME ColumnInv, columns.status = "defined" PROVE NamesDistinct
  BY DEF NamesDistinct
<1>1. columns # Nothing
  BY DEF Nothing
<1> QED BY <1>1, FormFacts DEF NamesDistinct

LEMMA CellsKeptHolds == ColumnInv => CellsKept
<1> SUFFICES ASSUME ColumnInv, stored.status = "stored", ~Grown PROVE CellsKept
  BY DEF CellsKept
<1>1. stored # Nothing /\ columns # Nothing
  BY DEF ColumnInv, Nothing
<1>2. grid # Nothing
  BY <1>1, FormFacts
<1>3. /\ sheet \in Uploads /\ grid.headers = Headers(sheet)
      /\ DOMAIN grid.rows = DOMAIN Filled(sheet)
      /\ \A r \in DOMAIN grid.rows : grid.rows[r] = Line(sheet, r)
  BY <1>2, GridFacts
<1>4. /\ \A r \in DOMAIN grid.rows, i \in DOMAIN grid.headers : Accepted(r, i)
      /\ stored.rows = [r \in DOMAIN grid.rows |-> [i \in DOMAIN grid.headers |-> Value(r, i)]]
  BY DEF ColumnInv, AllAccepted
<1>5. PICK line : Kept(sheet, Len(sheet.rows), Filled(sheet), line)
  BY <1>3, FilledKeeps
<1>6. /\ line \in [DOMAIN Filled(sheet) -> 1 .. Len(sheet.rows)]
      /\ \A r, q \in DOMAIN Filled(sheet) : r < q => line[r] < line[q]
      /\ \A l \in 1 .. Len(sheet.rows) :
            (\E r \in DOMAIN Filled(sheet) : line[r] = l) <=> ~Skipped(sheet, l)
      /\ \A r \in DOMAIN Filled(sheet) : Filled(sheet)[r] = sheet.rows[line[r]]
  BY <1>5 DEF Kept
<1>7. DOMAIN sheet.rows = 1 .. Len(sheet.rows)
  BY <1>3, UploadAssumption, LenProperties
<1>8. DOMAIN stored.rows = DOMAIN Filled(sheet)
  BY <1>3, <1>4
<1>9. \A i, j \in DOMAIN Headers(sheet) : i # j => Headers(sheet)[i] # Headers(sheet)[j]
  BY <1>3 DEF Grown
<1> DEFINE Becomes(cell, i) == CASE cell = "empty" -> "null"
                                 [] cell # "empty" /\ Retyped(i) -> "converted"
                                 [] OTHER -> cell
<1>10. ASSUME NEW r \in DOMAIN Filled(sheet), NEW i \in DOMAIN Filled(sheet)[r]
       PROVE  stored.rows[r][i] = Becomes(Filled(sheet)[r][i], i)
  <2> DEFINE cell == Filled(sheet)[r][i]
  <2>1. i \in DOMAIN grid.headers /\ Line(sheet, r)[grid.headers[i]] = cell
    BY <1>3, <1>9, <1>10, LinesKeepCells
  <2> HIDE DEF cell
  <2>2. stored.rows[r][i] = Value(r, i) /\ Accepted(r, i)
    BY <1>3, <1>4, <2>1
  <2>3. Value(r, i) = IF cell # "empty" /\ Retyped(i) THEN "converted" ELSE Coerced(cell, columns.types[i])
    BY <1>3, <2>1 DEF Value
  <2>4. ~Retyped(i) => Coerced(cell, columns.types[i]) # "error"
    BY <2>2, <2>3 DEF Accepted, Taken
  <2>5. ~Retyped(i) => Coerced(cell, columns.types[i]) = IF cell = "empty" THEN "null" ELSE cell
    BY <2>4 DEF Coerced
  <2>6. cell = "empty" => Coerced(cell, columns.types[i]) = "null"
    BY DEF Coerced
  <2> QED BY <2>2, <2>3, <2>5, <2>6 DEF cell
<1>11. \A r \in DOMAIN stored.rows : \A i \in DOMAIN sheet.rows[line[r]] :
           stored.rows[r][i] = Becomes(sheet.rows[line[r]][i], i)
  BY <1>6, <1>8, <1>10
<1>12. line \in [DOMAIN stored.rows -> DOMAIN sheet.rows]
  BY <1>6, <1>7, <1>8
<1>13. /\ \A r, q \in DOMAIN stored.rows : r < q => line[r] < line[q]
       /\ \A l \in DOMAIN sheet.rows : (\E r \in DOMAIN stored.rows : line[r] = l) <=> ~Skipped(sheet, l)
  BY <1>6, <1>7, <1>8
<1> QED BY <1>11, <1>12, <1>13 DEF CellsKept

\* From the labels of a file to its stored rows no two columns become one and no
\* cell moves to another column: the labels that _make_unique_labels makes, the
\* names of build_import_column_definitions and the values of run_mysql_import, for
\* any files and any limit on the length of a name.
THEOREM CellsStayInTheirColumns == ColumnSpec => []CellsInTheirColumns
<1>1. ColumnInv => CellsInTheirColumns
  BY OnlyAddedLabelsCollideHolds, NamesDistinctHolds, CellsKeptHolds DEF CellsInTheirColumns
<1> QED BY <1>1, ColumnsAreInv, PTL

\* What the inference and the form let through, the server takes, but for the reasons
\* listed: whatever the values of a file, infer_import_column_type gives a column a type
\* that _coerce_import_cell_value and the server accept for all of them, except for what
\* it does not look at; and whatever a user writes into the form, what
\* validate_mysql_import_request lets by is a table, except for sizes and unknown types.
THEOREM FormsFit == ColumnSpec => []FormFits
<1>1. ColumnInv => FormFits
  BY InferenceFitsHolds, FormMakesTableHolds DEF FormFits
<1> QED BY <1>1, ColumnsAreInv, PTL

-----------------------------------------------------------------------------
(* ExternalLakehouse.  Names, and what is under a folder.                  *)

Path == Seq(Parts)

LEMMA NamesArePaths ==
  /\ Base \in Path /\ Len(Names) \in Nat /\ DOMAIN Names = 1 .. Len(Names)
  /\ \A i \in DOMAIN Names : Names[i] \in Path /\ Names[i] # <<>> /\ Names[i] \in Objects
  /\ \A n \in Objects : n \in Path /\ n # <<>>
<1>1. Names \in Seq(Seq(Parts) \ {<<>>}) /\ Base \in Seq(Parts)
  BY LakehouseAssumption
<1>2. DOMAIN Names = 1 .. Len(Names) /\ Len(Names) \in Nat
  BY <1>1, LenProperties
<1>3. \A i \in DOMAIN Names : Names[i] \in Seq(Parts) \ {<<>>}
  BY <1>1, <1>2, ElementOfSeq
<1> QED BY <1>1, <1>2, <1>3 DEF Path, Objects

\* The first parts of a path.
LEMMA FirstParts ==
  ASSUME NEW n \in Path, NEW k \in Nat, k <= Len(n)
  PROVE  /\ SubSeq(n, 1, k) \in Path /\ Len(SubSeq(n, 1, k)) = k
         /\ \A i \in 1 .. k : SubSeq(n, 1, k)[i] = n[i]
<1>1. Len(n) \in Nat /\ \A i \in 1 .. Len(n) : n[i] \in Parts
  BY LenProperties, ElementOfSeq DEF Path
<1>2. \A i \in 1 .. k : n[i] \in Parts
  BY <1>1
<1>3. /\ SubSeq(n, 1, k) \in Seq(Parts)
      /\ Len(SubSeq(n, 1, k)) = IF 1 <= k THEN k - 1 + 1 ELSE 0
      /\ \A i \in 1 .. k - 1 + 1 : SubSeq(n, 1, k)[i] = n[1 + i - 1]
  BY 1 \in Int, k \in Int, <1>2, SubSeqProperties
<1>4. Len(SubSeq(n, 1, k)) = k
  BY <1>3
<1>5. \A i \in 1 .. k : SubSeq(n, 1, k)[i] = n[i]
  BY <1>3
<1> QED BY <1>3, <1>4, <1>5 DEF Path

LEMMA SamePath ==
  ASSUME NEW n \in Path, NEW m \in Path, Len(n) = Len(m), \A i \in 1 .. Len(n) : n[i] = m[i]
  PROVE  n = m
BY LenProperties DEF Path

\* A path is under another if that is where it starts, and not all of it.
LEMMA UnderIs ==
  ASSUME NEW n \in Path, NEW p \in Path
  PROVE  Under(n, p) <=> Len(p) < Len(n) /\ SubSeq(n, 1, Len(p)) = p
<1>1. Len(n) \in Nat /\ Len(p) \in Nat
  BY LenProperties DEF Path
<1>2. SubSeq(p, 1, Len(p)) = p
  <2>1. /\ SubSeq(p, 1, Len(p)) \in Path /\ Len(SubSeq(p, 1, Len(p))) = Len(p)
        /\ \A i \in 1 .. Len(p) : SubSeq(p, 1, Len(p))[i] = p[i]
    BY <1>1, FirstParts
  <2> QED BY <2>1, SamePath
<1>3. SubSeq(n, 1, Len(n)) = n
  <2>1. /\ SubSeq(n, 1, Len(n)) \in Path /\ Len(SubSeq(n, 1, Len(n))) = Len(n)
        /\ \A i \in 1 .. Len(n) : SubSeq(n, 1, Len(n))[i] = n[i]
    BY <1>1, FirstParts
  <2> QED BY <2>1, SamePath
<1>4. Under(n, p) <=> Len(p) <= Len(n) /\ p = SubSeq(n, 1, Len(p)) /\ p # n
  BY <1>2 DEF Under, IsStrictPrefix, IsPrefix
<1> QED BY <1>1, <1>3, <1>4

\* The entry under which a listing of p shows n.
LEMMA EntryIs ==
  ASSUME NEW n \in Path, NEW p \in Path, Under(n, p)
  PROVE  /\ Entry(n, p) \in Path /\ Len(Entry(n, p)) = Len(p) + 1
         /\ Deeper(n, p) => Under(n, Entry(n, p))
         /\ ~Deeper(n, p) => Len(n) = Len(p) + 1
<1>1. Len(n) \in Nat /\ Len(p) \in Nat /\ Len(p) < Len(n)
  BY LenProperties, UnderIs DEF Path
<1>2. /\ SubSeq(n, 1, Len(p) + 1) \in Path /\ Len(SubSeq(n, 1, Len(p) + 1)) = Len(p) + 1
  BY <1>1, FirstParts
<1>3. Deeper(n, p) => Under(n, Entry(n, p))
  BY <1>1, <1>2, UnderIs DEF Entry, Deeper
<1> QED BY <1>1, <1>2, <1>3 DEF Entry, Deeper

\* Two entries of a listing that start at the same name are one.
LEMMA FirstIs ==
  ASSUME NEW i \in DOMAIN Names, NEW c, Under(Names[i], c)
  PROVE  First(c) \in DOMAIN Names /\ Under(Names[First(c)], c)
<1> DEFINE T == {k \in DOMAIN Names : Under(Names[k], c)}
<1>1. T \subseteq Nat /\ T # {}
  BY NamesArePaths
<1>2. PICK m \in T : \A k \in T : m <= k
  BY <1>1, LeastNat
<1>3. \A j \in 1 .. m - 1 : ~Under(Names[j], c)
  <2> SUFFICES ASSUME NEW j \in 1 .. m - 1, Under(Names[j], c) PROVE FALSE
    OBVIOUS
  <2>1. m \in 1 .. Len(Names) /\ Len(Names) \in Nat
    BY NamesArePaths
  <2>2. j \in DOMAIN Names /\ ~(m <= j)
    BY <2>1, NamesArePaths
  <2>3. j \in T
    BY <2>2
  <2> HIDE DEF T
  <2> QED BY <1>2, <2>2, <2>3
<1> QED BY <1>2, <1>3 DEF First

LEMMA FirstDiffers ==
  ASSUME NEW c \in Path, NEW d \in Path, Len(c) = Len(d),
         NEW i \in DOMAIN Names, Under(Names[i], c), NEW j \in DOMAIN Names, Under(Names[j], d),
         First(c) = First(d)
  PROVE  c = d
<1>1. /\ First(c) \in DOMAIN Names /\ Under(Names[First(c)], c)
      /\ Under(Names[First(c)], d)
  BY FirstIs
<1>2. Names[First(c)] \in Path
  BY <1>1, NamesArePaths
<1> QED BY <1>1, <1>2, UnderIs

-----------------------------------------------------------------------------
\* A finite set is put in the order of a number that no two members share.
LEMMA AllThere ==
  ASSUME NEW S, IsFiniteSet(S), NEW s \in [1 .. Cardinality(S) -> S],
         \A i, j \in 1 .. Cardinality(S) : i < j => s[i] # s[j]
  PROVE  S = {s[i] : i \in 1 .. Cardinality(S)}
<1>1. Cardinality(S) \in Nat
  BY FS_CardinalityType
<1>2. s \in Injection(1 .. Cardinality(S), S)
  <2>1. \A i, j \in 1 .. Cardinality(S) : s[i] = s[j] => i = j
    BY <1>1
  <2> QED BY <2>1 DEF Injection, IsInjective
<1>3. IsFiniteSet(1 .. Cardinality(S)) /\ Cardinality(1 .. Cardinality(S)) = Cardinality(S)
  BY <1>1, FS_Interval
<1>4. s \in Surjection(1 .. Cardinality(S), S)
  BY <1>2, <1>3, FS_Injection
<1> QED BY <1>4 DEF Surjection

LEMMA OrderExists ==
  ASSUME NEW S, IsFiniteSet(S), NEW h \in [S -> Nat], \A c, d \in S : h[c] = h[d] => c = d
  PROVE  \E s \in [1 .. Cardinality(S) -> S] :
             \A i, j \in 1 .. Cardinality(S) : i < j => h[s[i]] < h[s[j]]
<1> DEFINE n == Cardinality(S)
           upTo(c) == {d \in S : h[d] <= h[c]}
           rank == [c \in S |-> Cardinality(upTo(c))]
<1>1. n \in Nat /\ \A c \in S : h[c] \in Nat
  BY FS_CardinalityType
<1>2. \A c \in S : /\ upTo(c) \subseteq S /\ c \in upTo(c) /\ IsFiniteSet(upTo(c))
                    /\ Cardinality(upTo(c)) \in 1 .. n
  <2> SUFFICES ASSUME NEW c \in S
               PROVE  /\ upTo(c) \subseteq S /\ c \in upTo(c) /\ IsFiniteSet(upTo(c))
                      /\ Cardinality(upTo(c)) \in 1 .. n
    OBVIOUS
  <2>1. upTo(c) \subseteq S /\ c \in upTo(c)
    BY <1>1
  <2>2. IsFiniteSet(upTo(c)) /\ Cardinality(upTo(c)) <= n
    BY <2>1, FS_Subset
  <2>3. Cardinality(upTo(c)) \in Nat /\ Cardinality(upTo(c)) # 0
    BY <2>1, <2>2, FS_CardinalityType, FS_EmptySet
  <2> QED BY <1>1, <2>1, <2>2, <2>3
<1>3. \A c, d \in S : h[c] < h[d] => Cardinality(upTo(c)) < Cardinality(upTo(d))
  <2> SUFFICES ASSUME NEW c \in S, NEW d \in S, h[c] < h[d]
               PROVE  Cardinality(upTo(c)) < Cardinality(upTo(d))
    OBVIOUS
  <2>1. upTo(c) \subseteq upTo(d) /\ d \in upTo(d) /\ d \notin upTo(c)
    BY <1>1
  <2>2. Cardinality(upTo(c)) <= Cardinality(upTo(d)) /\ Cardinality(upTo(c)) # Cardinality(upTo(d))
    BY <1>2, <2>1, FS_Subset
  <2>3. Cardinality(upTo(c)) \in Nat /\ Cardinality(upTo(d)) \in Nat
    BY <1>2, FS_CardinalityType
  <2> QED BY <2>2, <2>3
<1>4. /\ rank \in [S -> 1 .. n]
      /\ \A c, d \in S : h[c] < h[d] => rank[c] < rank[d]
  BY <1>2, <1>3
<1> HIDE DEF rank
<1>5. \A c, d \in S : rank[c] \in Nat /\ (rank[c] = rank[d] => c = d)
  <2>1. \A c, d \in S : h[c] < h[d] \/ h[d] < h[c] \/ c = d
    BY <1>1
  <2> QED BY <1>4, <2>1
<1>6. rank \in Injection(S, 1 .. n)
  BY <1>4, <1>5 DEF Injection, IsInjective
<1>7. IsFiniteSet(1 .. n) /\ Cardinality(1 .. n) = n
  BY <1>1, FS_Interval
<1>8. rank \in Surjection(S, 1 .. n)
  BY <1>6, <1>7, FS_Injection
<1> DEFINE s == [i \in 1 .. n |-> CHOOSE c \in S : rank[c] = i]
<1>9. \A i \in 1 .. n : s[i] \in S /\ rank[s[i]] = i
  <2>1. \A i \in 1 .. n : \E c \in S : rank[c] = i
    BY <1>8 DEF Surjection
  <2> QED BY <2>1
<1>10. s \in [1 .. n -> S]
  BY <1>9
<1> HIDE DEF s
<1>11. \A i, j \in 1 .. n : i < j => h[s[i]] < h[s[j]]
  <2> SUFFICES ASSUME NEW i \in 1 .. n, NEW j \in 1 .. n, i < j, ~(h[s[i]] < h[s[j]])
               PROVE  FALSE
    OBVIOUS
  <2>1. h[s[j]] < h[s[i]] \/ s[i] = s[j]
    BY <1>1, <1>9
  <2>2. rank[s[i]] = i /\ rank[s[j]] = j
    BY <1>9
  <2>3. ~(rank[s[j]] < rank[s[i]]) /\ s[i] # s[j]
    BY <1>1, <2>2
  <2> QED BY <1>4, <1>9, <2>1, <2>3
<1> QED BY <1>10, <1>11

\* What a page adds can be put in the order of the names.
LEMMA InOrderIs ==
  ASSUME NEW F, F \subseteq Path, IsFiniteSet(F), NEW len, \A f \in F : Len(f) = len,
         \A f \in F : \E i \in DOMAIN Names : Under(Names[i], f)
  PROVE  /\ InOrder(F) \in [1 .. Cardinality(F) -> F]
         /\ \A i, j \in 1 .. Cardinality(F) : i < j => InOrder(F)[i] # InOrder(F)[j]
<1> DEFINE h == [f \in F |-> First(f)]
<1>1. \A f \in F : First(f) \in Nat
  BY FirstIs, NamesArePaths
<1>2. h \in [F -> Nat]
  BY <1>1
<1>3. \A c, d \in F : h[c] = h[d] => c = d
  <2> SUFFICES ASSUME NEW c \in F, NEW d \in F, First(c) = First(d)  PROVE c = d
    OBVIOUS
  <2>1. PICK i \in DOMAIN Names : Under(Names[i], c)
    OBVIOUS
  <2>2. PICK j \in DOMAIN Names : Under(Names[j], d)
    OBVIOUS
  <2> QED BY <2>1, <2>2, FirstDiffers
<1> HIDE DEF h
<1>4. PICK s \in [1 .. Cardinality(F) -> F] :
          \A i, j \in 1 .. Cardinality(F) : i < j => h[s[i]] < h[s[j]]
  BY <1>2, <1>3, OrderExists
<1>5. \A i, j \in DOMAIN s : i < j => First(s[i]) < First(s[j])
  BY <1>4 DEF h
<1>6. /\ InOrder(F) \in [1 .. Cardinality(F) -> F]
      /\ \A i, j \in DOMAIN InOrder(F) : i < j => First(InOrder(F)[i]) < First(InOrder(F)[j])
  BY <1>5 DEF InOrder
<1>7. ASSUME NEW i \in 1 .. Cardinality(F), NEW j \in 1 .. Cardinality(F), i < j,
             InOrder(F)[i] = InOrder(F)[j]
      PROVE  FALSE
  <2>1. First(InOrder(F)[i]) < First(InOrder(F)[j]) /\ InOrder(F)[i] \in F
    BY <1>6, <1>7
  <2>2. First(InOrder(F)[i]) \in Nat
    BY <1>1, <2>1
  <2> QED BY <2>1, <2>2, <1>7
<1> QED BY <1>6, <1>7

-----------------------------------------------------------------------------
\* A page of a listing shows all that it passes, and the next starts after it.
LEMMA PageLists ==
  ASSUME bucket \subseteq Objects, NEW prefix \in Path, NEW start \in Nat,
         NEW listed, listed = PageOf(prefix, start)
  PROVE  /\ listed.next \in Nat /\ (listed.next # 0 => listed.next > start)
         /\ \A i \in DOMAIN Names :
               /\ Names[i] \in bucket /\ Under(Names[i], prefix) /\ i >= start
               /\ listed.next = 0 \/ i < listed.next
               => /\ Deeper(Names[i], prefix) => Entry(Names[i], prefix) \in listed.prefixes
                  /\ ~Deeper(Names[i], prefix) => Names[i] \in listed.objects
         /\ \A f \in listed.prefixes :
               \E i \in DOMAIN Names : Under(Names[i], prefix) /\ Deeper(Names[i], prefix)
                                       /\ f = Entry(Names[i], prefix)
         /\ IsFiniteSet(listed.prefixes)
<1> DEFINE rest == {i \in DOMAIN Names : i >= start /\ Names[i] \in bucket /\ Under(Names[i], prefix)}
           upTo(i) == {<<Entry(Names[j], prefix), Deeper(Names[j], prefix)>> : j \in {k \in rest : k <= i}}
           taken == {i \in rest : Cardinality(upTo(i)) <= Limit}
           next == IF taken = rest THEN 0 ELSE CHOOSE i \in rest \ taken : \A j \in rest \ taken : i <= j
<1>1. /\ listed.objects = {Names[i] : i \in {j \in taken : ~Deeper(Names[j], prefix)}}
      /\ listed.prefixes = {Entry(Names[i], prefix) : i \in {j \in taken : Deeper(Names[j], prefix)}}
      /\ listed.next = next
  BY DEF PageOf
<1>2. DOMAIN Names = 1 .. Len(Names) /\ Len(Names) \in Nat
  BY NamesArePaths
<1>3. rest \subseteq DOMAIN Names /\ taken \subseteq rest /\ \A i \in rest : i \in Nat /\ i >= start /\ i > 0
  BY <1>2
<1>4. \A i \in rest : (\A j \in rest : i <= j) => i \in taken
  <2> SUFFICES ASSUME NEW i \in rest, \A j \in rest : i <= j  PROVE Cardinality(upTo(i)) <= Limit
    OBVIOUS
  <2>1. \A k \in rest : k <= i => k = i
    BY <1>3
  <2>2. {k \in rest : k <= i} = {i}
    BY <2>1, <1>3
  <2>3. upTo(i) = {<<Entry(Names[i], prefix), Deeper(Names[i], prefix)>>}
    BY <2>2
  <2>4. Cardinality(upTo(i)) = 1
    BY <2>3, FS_Singleton
  <2> HIDE DEF upTo
  <2>5. Limit \in Nat /\ Limit # 0
    BY LakehouseAssumption
  <2> QED BY <2>4, <2>5
<1>5. \A i, j \in rest : i <= j /\ j \in taken => i \in taken
  <2> SUFFICES ASSUME NEW i \in rest, NEW j \in rest, i <= j, j \in taken
               PROVE  Cardinality(upTo(i)) <= Limit
    OBVIOUS
  <2>1. {k \in rest : k <= i} \subseteq {k \in rest : k <= j}
    BY <1>3
  <2>2. upTo(i) \subseteq upTo(j)
    BY <2>1
  <2> DEFINE below == {k \in rest : k <= j}
             entry == [k \in below |-> <<Entry(Names[k], prefix), Deeper(Names[k], prefix)>>]
  <2>3. IsFiniteSet(below)
    <3>1. IsFiniteSet(1 .. Len(Names))
      BY <1>2, FS_Interval
    <3> QED BY <3>1, <1>2, FS_Subset
  <2>4. entry \in Surjection(below, upTo(j))
    BY DEF Surjection
  <2>5. IsFiniteSet(upTo(j))
    BY <2>3, <2>4, FS_Surjection
  <2>6. Cardinality(upTo(i)) <= Cardinality(upTo(j)) /\ IsFiniteSet(upTo(i))
    BY <2>2, <2>5, FS_Subset
  <2>7. Cardinality(upTo(i)) \in Nat /\ Cardinality(upTo(j)) \in Nat
    BY <2>5, <2>6, FS_CardinalityType
  <2>8. Cardinality(upTo(j)) <= Limit /\ Limit \in Nat
    BY LakehouseAssumption
  <2> HIDE DEF upTo
  <2> QED BY <2>6, <2>7, <2>8
<1>6. IsFiniteSet(taken)
  <2>1. IsFiniteSet(1 .. Len(Names))
    BY <1>2, FS_Interval
  <2> QED BY <2>1, <1>2, FS_Subset
<1> HIDE DEF taken, rest
<1>7. taken = rest => next = 0
  OBVIOUS
<1>8. ASSUME taken # rest
      PROVE  /\ next \in rest \ taken /\ \A j \in rest \ taken : next <= j
             /\ next \in Nat /\ next > start
  <2>1. rest \ taken \subseteq Nat /\ rest \ taken # {}
    BY <1>3, <1>8
  <2>2. \E m \in rest \ taken : \A k \in rest \ taken : m <= k
    BY <2>1, LeastNat
  <2>3. next \in rest \ taken /\ \A j \in rest \ taken : next <= j
    BY <2>2, <1>8
  <2> HIDE DEF next
  <2>4. next # start
    BY <2>3, <1>3, <1>4
  <2> QED BY <2>3, <2>4, <1>3
<1>9. next \in Nat /\ (next # 0 => next > start)
  BY <1>7, <1>8
<1>10. \A i \in rest : next = 0 \/ i < next => i \in taken
  <2> SUFFICES ASSUME NEW i \in rest, next = 0 \/ i < next, i \notin taken  PROVE FALSE
    OBVIOUS
  <2>1. next \in Nat /\ next > start /\ next <= i
    BY <1>8
  <2> HIDE DEF next
  <2> QED BY <2>1, <1>3
<1>11. IsFiniteSet(listed.prefixes)
  <2> DEFINE deep == {j \in taken : Deeper(Names[j], prefix)}
             entry == [i \in deep |-> Entry(Names[i], prefix)]
  <2>1. IsFiniteSet(deep)
    BY <1>6, FS_Subset
  <2>2. entry \in Surjection(deep, listed.prefixes)
    BY <1>1 DEF Surjection
  <2> QED BY <2>1, <2>2, FS_Surjection
<1> HIDE DEF next
<1>12. \A f \in listed.prefixes :
               \E i \in DOMAIN Names : Under(Names[i], prefix) /\ Deeper(Names[i], prefix)
                                       /\ f = Entry(Names[i], prefix)
  BY <1>1, <1>3 DEF rest
<1>13. ASSUME NEW i \in DOMAIN Names, Names[i] \in bucket, Under(Names[i], prefix), i >= start,
              listed.next = 0 \/ i < listed.next
       PROVE  /\ Deeper(Names[i], prefix) => Entry(Names[i], prefix) \in listed.prefixes
              /\ ~Deeper(Names[i], prefix) => Names[i] \in listed.objects
  <2>1. i \in rest
    BY <1>13 DEF rest
  <2>2. i \in taken
    BY <2>1, <1>1, <1>10, <1>13
  <2> QED BY <2>2, <1>1
<1> QED BY <1>1, <1>9, <1>11, <1>12, <1>13

-----------------------------------------------------------------------------
\* The folders of a page are all added, or as many as there is room for.
LEMMA AddedIs ==
  ASSUME bucket \subseteq Objects, NEW prefix \in Path, NEW start \in Nat,
         NEW listed, listed = PageOf(prefix, start),
         view.folders \subseteq Path, IsFiniteSet(view.folders), Cardinality(view.folders) < MaxFolders
  PROVE  /\ Added(listed) \in Seq(listed.prefixes \ view.folders)
         /\ \A i, j \in DOMAIN Added(listed) : Added(listed)[i] = Added(listed)[j] => i = j
         /\ listed.prefixes \subseteq Path
         /\ IsFiniteSet(view.folders \cup ToSet(Added(listed)))
         /\ \/ listed.prefixes \subseteq view.folders \cup ToSet(Added(listed))
            \/ ~(Cardinality(view.folders \cup ToSet(Added(listed))) < MaxFolders)
<1> DEFINE F == listed.prefixes \ view.folders
           room == MaxFolders - Cardinality(view.folders)
           n == Cardinality(F)
           k == IF n < room THEN n ELSE room
           new == InOrder(F)
           added == SubSeq(new, 1, k)
<1>1. /\ IsFiniteSet(listed.prefixes)
      /\ \A f \in listed.prefixes :
             \E i \in DOMAIN Names : Under(Names[i], prefix) /\ Deeper(Names[i], prefix)
                                     /\ f = Entry(Names[i], prefix)
  BY PageLists
<1>2. \A f \in listed.prefixes : /\ f \in Path /\ Len(f) = Len(prefix) + 1
                               /\ \E i \in DOMAIN Names : Under(Names[i], f)
  BY <1>1, EntryIs, NamesArePaths
<1>3. IsFiniteSet(F) /\ n \in Nat
  BY <1>1, FS_Subset, FS_CardinalityType
<1>4. Cardinality(view.folders) \in Nat /\ MaxFolders \in Nat /\ room \in Nat /\ room > 0
  BY FS_CardinalityType, LakehouseAssumption
<1> DEFINE len == Len(prefix) + 1
<1>a. F \subseteq Path /\ \A f \in F : Len(f) = len /\ \E i \in DOMAIN Names : Under(Names[i], f)
  BY <1>2
<1> HIDE DEF F, len
<1>5. /\ new \in [1 .. n -> F] /\ \A i, j \in 1 .. n : i < j => new[i] # new[j]
  BY <1>a, <1>3, InOrderIs
<1>6. k \in Nat /\ k <= n /\ k <= room /\ (k < room => k = n)
  BY <1>3, <1>4
<1> HIDE DEF new, room, n, k
<1>7. DOMAIN new = 1 .. n /\ new \in Seq(F) /\ Len(new) = n
  <2>1. new \in Seq(F)
    BY <1>3, <1>5, IsASeq
  <2>2. Len(new) \in Nat /\ 1 .. Len(new) = 1 .. n
    BY <1>5, <2>1, LenProperties
  <2> QED BY <1>3, <1>5, <2>1, <2>2
<1>8. Added(listed) = added
  BY <1>7 DEF Added, k, room, new, n, F
<1>9. /\ added \in Seq(F) /\ Len(added) = k /\ DOMAIN added = 1 .. k
      /\ \A i \in 1 .. k : added[i] = new[i]
  <2>1. \A i \in 1 .. k : new[i] \in F
    BY <1>3, <1>5, <1>6
  <2>2. k \in Int /\ 1 \in Int
    BY <1>6
  <2>3. /\ added \in Seq(F) /\ Len(added) = IF 1 <= k THEN k - 1 + 1 ELSE 0
        /\ \A i \in 1 .. k - 1 + 1 : added[i] = new[1 + i - 1]
    BY <2>1, <2>2, SubSeqProperties
  <2>4. Len(added) = k /\ \A i \in 1 .. k : added[i] = new[i]
    BY <2>3, <1>6
  <2> QED BY <2>3, <2>4, LenProperties
<1>10. \A i, j \in 1 .. k : added[i] = added[j] => i = j
  <2> SUFFICES ASSUME NEW i \in 1 .. k, NEW j \in 1 .. k, new[i] = new[j], i # j PROVE FALSE
    BY <1>9
  <2>1. (i < j \/ j < i) /\ i \in 1 .. n /\ j \in 1 .. n
    BY <1>3, <1>6
  <2> QED BY <2>1, <1>5
<1>11. ToSet(added) = {added[i] : i \in 1 .. k} /\ ToSet(added) \subseteq F
  <2>1. \A i \in 1 .. k : added[i] \in F
    BY <1>9, <1>5, <1>6, <1>3
  <2> QED BY <2>1, <1>9 DEF ToSet
<1>12. IsFiniteSet(1 .. k) /\ Cardinality(1 .. k) = k
  <2>1. 1 \in Int /\ k \in Int
    BY <1>6
  <2>2. IsFiniteSet(1 .. k) /\ Cardinality(1 .. k) = IF 1 > k THEN 0 ELSE k - 1 + 1
    BY ONLY <2>1, FS_Interval
  <2>3. (IF 1 > k THEN 0 ELSE k - 1 + 1) = k
    BY ONLY <1>6
  <2> QED BY <2>2, <2>3
<1>13. IsFiniteSet(ToSet(added)) /\ Cardinality(ToSet(added)) = k
  <2> DEFINE g == [i \in 1 .. k |-> added[i]]
  <2>1. g \in Surjection(1 .. k, ToSet(added))
    BY <1>11 DEF Surjection
  <2>2. g \in [1 .. k -> ToSet(added)] /\ \A i, j \in 1 .. k : g[i] = g[j] => i = j
    BY <2>1, <1>10 DEF Surjection
  <2> HIDE DEF g
  <2>3. g \in Injection(1 .. k, ToSet(added))
    BY <2>2 DEF Injection, IsInjective
  <2> QED BY <2>1, <2>3, <1>12, FS_Surjection
<1>14. /\ IsFiniteSet(view.folders \cup ToSet(added))
       /\ Cardinality(view.folders \cup ToSet(added)) = Cardinality(view.folders) + k
  <2>1. view.folders \cap ToSet(added) = {}
    BY <1>11 DEF F
  <2>2. Cardinality(view.folders \cap ToSet(added)) = 0
    BY <2>1, FS_EmptySet
  <2>3. /\ IsFiniteSet(view.folders \cup ToSet(added))
        /\ Cardinality(view.folders \cup ToSet(added))
              = Cardinality(view.folders) + Cardinality(ToSet(added)) - Cardinality(view.folders \cap ToSet(added))
    BY <1>13, FS_Union
  <2> QED BY <2>2, <2>3, <1>13, <1>4, <1>6
<1>15. ASSUME k < room
       PROVE  listed.prefixes \subseteq view.folders \cup ToSet(added)
  <2>1. k = n
    BY <1>15, <1>6
  <2>2. \A i, j \in 1 .. Cardinality(F) : i < j => new[i] # new[j]
    BY <1>5 DEF n
  <2>3. new \in [1 .. Cardinality(F) -> F]
    BY <1>5 DEF n
  <2>4. F = {new[i] : i \in 1 .. Cardinality(F)}
    BY <1>3, <2>2, <2>3, AllThere
  <2>5. ToSet(added) = F
    BY <2>1, <2>4, <1>9, <1>11 DEF n
  <2> QED BY <2>5 DEF F
<1>16. ASSUME ~(k < room)
       PROVE  ~(Cardinality(view.folders \cup ToSet(added)) < MaxFolders)
  <2>1. k = room
    BY <1>16, <1>6, <1>4
  <2> QED BY <2>1, <1>14, <1>4 DEF room
<1>17. added \in Seq(listed.prefixes \ view.folders)
  BY <1>9 DEF F
<1>18. listed.prefixes \subseteq Path
  BY <1>2
<1>19. \A i, j \in DOMAIN added : added[i] = added[j] => i = j
  BY <1>9, <1>10
<1>20. \/ listed.prefixes \subseteq view.folders \cup ToSet(added)
       \/ ~(Cardinality(view.folders \cup ToSet(added)) < MaxFolders)
  BY <1>15, <1>16
<1> HIDE DEF added
<1> QED BY <1>8, <1>14, <1>17, <1>18, <1>19, <1>20

-----------------------------------------------------------------------------
(* The invariant of the listings, as a statement about values: v the view, *)
(* b the bucket, s what stayed in it.                                      *)

ViewFields == {"at", "tab", "folder", "made", "file", "touched", "upload", "folders", "foldersError",
               "files", "filesError", "pending", "start", "tokens", "pages"}

\* What s holds directly under f, and in folders in it, among the names before an index.
ChildrenIn(f, s, known) ==
    \A i \in DOMAIN Names : Names[i] \in s /\ Under(Names[i], f) /\ Deeper(Names[i], f) => Entry(Names[i], f) \in known
ChildrenBefore(below, f, s, known) ==
    \A i \in DOMAIN Names :
        i < below /\ Names[i] \in s /\ Under(Names[i], f) /\ Deeper(Names[i], f) => Entry(Names[i], f) \in known
FilesBefore(below, f, s, known) ==
    \A i \in DOMAIN Names :
        i < below /\ Names[i] \in s /\ Under(Names[i], f) /\ ~Deeper(Names[i], f) /\ Last(Names[i]) # "" =>
            Names[i] \in known

\* What an upload is about to make is among the names.
Uploading(v) ==
    /\ v.at \in {"make", "put", "head"} =>
          v.tab = "upload" /\ v.folders = {Base} /\ v.tokens = {} /\ v.start = 0
    /\ v.at = "make" => /\ Append(v.folder, v.made) \in Path
                        /\ Append(Append(v.folder, v.made), "") \in Objects
                        /\ Append(Append(v.folder, v.made), v.file) \in Objects
    /\ v.at = "put" => Append(v.folder, v.file) \in Objects

\* Of each folder that is not pending all children are known, of the first
\* pending one those that its pages passed; tokens are of pages passed.
Walking(v, s) ==
    /\ v.pending \in Seq(v.folders) /\ v.pending # <<>>
    /\ \A i, j \in DOMAIN v.pending : v.pending[i] = v.pending[j] => i = j
    /\ Cardinality(v.folders) < MaxFolders /\ v.start \in Nat
    /\ \A f \in v.folders : (\A i \in DOMAIN v.pending : v.pending[i] # f) => ChildrenIn(f, s, v.folders)
    /\ ChildrenBefore(v.start, v.pending[1], s, v.folders)
    /\ \A t \in v.tokens :
          /\ t[1] \in v.folders /\ t[2] \in Nat \ {0}
          /\ \A i \in DOMAIN v.pending : v.pending[i] = t[1] => i = 1 /\ t[2] <= v.start

FoldersWhole(v, s) ==
    v.foldersError = "none" /\ Cardinality(v.folders) < MaxFolders => \A f \in v.folders : ChildrenIn(f, s, v.folders)

ReadingFiles(v, s) ==
    /\ v.start \in Nat /\ \A k \in v.tokens : k \in Nat \ {0} /\ k <= v.start
    /\ FilesBefore(v.start, Target(v.folder), s, v.files)

FilesWhole(v, s) ==
    v.tab = "load" /\ v.filesError = "none" =>
        \A i \in DOMAIN Names :
            /\ Names[i] \in s /\ Under(Names[i], Target(v.folder)) /\ ~Deeper(Names[i], Target(v.folder))
            /\ Last(Names[i]) # ""
            => Names[i] \in v.files

Sound(v) ==
    /\ DOMAIN v = ViewFields
    /\ v.folders \subseteq Path /\ IsFiniteSet(v.folders) /\ Base \in v.folders
    /\ v.folder \in Path
    /\ "repeated" \notin {v.foldersError, v.filesError}

Walked(v, s) ==
    /\ v.at = "folders" => Walking(v, s)
    /\ v.at \in {"files", "answered"} => FoldersWhole(v, s)
    /\ v.at = "files" => ReadingFiles(v, s)
    /\ v.at = "answered" => FilesWhole(v, s)

LakeOf(v, b, s) == b \subseteq Objects /\ s \subseteq b /\ Sound(v) /\ Uploading(v) /\ Walked(v, s)

LakeInv == LakeOf(view, bucket, stayed)

-----------------------------------------------------------------------------
\* Folders are paths.
LEMMA FoldersArePaths ==
  ASSUME NEW f \in Folders  PROVE  f \in Path /\ Target(f) \in Path
<1>1. f \in Path
  <2>1. CASE f = <<>>
    BY <2>1 DEF Path
  <2>2. CASE f # <<>>
    <3>1. PICK n \in Objects : f \in {SubSeq(n, 1, k) : k \in 1 .. Len(n) - 1}
      BY <2>2 DEF Folders
    <3>2. PICK k \in 1 .. Len(n) - 1 : f = SubSeq(n, 1, k)
      BY <3>1
    <3>3. n \in Path /\ Len(n) \in Nat
      BY NamesArePaths, LenProperties DEF Path
    <3> QED BY <3>2, <3>3, FirstParts
  <2> QED BY <2>1, <2>2
<1> QED BY <1>1, NamesArePaths DEF Target

\* Where every folder's children are known, every folder under the base is.
LEMMA WholeIsComplete ==
  ASSUME NEW v, NEW s, s \subseteq Objects, Sound(v), \A f \in v.folders : ChildrenIn(f, s, v.folders)
  PROVE  {f \in Folders : IsPrefix(Base, f) /\ \E n \in s : Under(n, f)} \subseteq v.folders
<1> SUFFICES ASSUME NEW f \in Folders, IsPrefix(Base, f), NEW n \in s, Under(n, f)
             PROVE  f \in v.folders
  OBVIOUS
<1>1. f \in Path /\ n \in Path /\ Base \in Path
  BY FoldersArePaths, NamesArePaths
<1>2. Len(f) \in Nat /\ Len(n) \in Nat /\ Len(Base) \in Nat
  BY <1>1, LenProperties DEF Path
<1>3. Len(f) < Len(n) /\ SubSeq(n, 1, Len(f)) = f
  BY <1>1, UnderIs
<1>4. Len(Base) <= Len(f) /\ SubSeq(Base, 1, Len(Base)) = SubSeq(f, 1, Len(Base))
  BY DEF IsPrefix
<1>5. SubSeq(n, 1, Len(Base)) = Base
  <2>1. /\ \A i \in 1 .. Len(Base) : SubSeq(Base, 1, Len(Base))[i] = Base[i]
        /\ \A i \in 1 .. Len(Base) : SubSeq(f, 1, Len(Base))[i] = f[i]
    BY <1>1, <1>2, <1>4, FirstParts
  <2>2. \A i \in 1 .. Len(f) : f[i] = n[i]
    BY <1>1, <1>2, <1>3, FirstParts
  <2>3. /\ SubSeq(n, 1, Len(Base)) \in Path /\ Len(SubSeq(n, 1, Len(Base))) = Len(Base)
        /\ \A i \in 1 .. Len(Base) : SubSeq(n, 1, Len(Base))[i] = n[i]
    BY <1>1, <1>2, <1>3, <1>4, FirstParts
  <2>4. \A i \in 1 .. Len(Base) : SubSeq(n, 1, Len(Base))[i] = Base[i]
    BY <1>2, <1>4, <2>1, <2>2, <2>3
  <2> QED BY <1>1, <2>3, <2>4, SamePath
<1> DEFINE T == {k \in Len(Base) .. Len(f) : SubSeq(n, 1, k) \notin v.folders}
<1>6. T = {}
  <2> SUFFICES ASSUME T # {} PROVE FALSE
    OBVIOUS
  <2>1. T \subseteq Nat
    BY <1>2
  <2>2. PICK m \in T : \A k \in T : m <= k
    BY <2>1, LeastNat
  <2>3. m \in Nat /\ Len(Base) < m /\ m <= Len(f) /\ SubSeq(n, 1, m) \notin v.folders
    <3>1. m # Len(Base)
      BY <1>5 DEF Sound
    <3> QED BY <3>1, <1>2
  <2> DEFINE g == SubSeq(n, 1, m - 1)
  <2>4. m - 1 \in Nat /\ m - 1 \in Len(Base) .. Len(f) /\ ~(m <= m - 1)
    BY <1>2, <2>3
  <2>5. g \in v.folders
    <3>1. m - 1 \notin T
      BY <2>2, <2>4
    <3> QED BY <3>1, <2>4
  <2>6. g \in Path /\ Len(g) = m - 1
    BY <1>1, <1>2, <1>3, <2>3, <2>4, FirstParts
  <2> HIDE DEF g, T
  <2>7. Under(n, g)
    <3>1. SubSeq(n, 1, Len(g)) = g
      BY <2>6 DEF g
    <3>2. Len(g) < Len(n)
      BY <1>2, <1>3, <2>3, <2>6
    <3> QED BY <1>1, <2>6, <3>1, <3>2, UnderIs
  <2>8. Deeper(n, g) /\ Entry(n, g) = SubSeq(n, 1, m)
    <3>1. Len(g) + 1 = m /\ Len(n) > m
      BY <1>2, <1>3, <2>3, <2>6
    <3> QED BY <3>1 DEF Deeper, Entry
  <2>9. PICK i \in DOMAIN Names : n = Names[i]
    BY DEF Objects
  <2>10. Entry(n, g) \in v.folders
    BY <2>5, <2>7, <2>8, <2>9 DEF ChildrenIn
  <2> QED BY <2>3, <2>8, <2>10
<1>7. Len(f) \in Len(Base) .. Len(f)
  BY <1>2, <1>4
<1> QED BY <1>3, <1>6, <1>7

LEMMA NextIsDirect ==
  ASSUME NEW n, NEW p, Len(p) \in Nat, Len(n) = Len(p) + 1
  PROVE  ~Deeper(n, p)
BY DEF Deeper

\* The invariant is what the listings promise.
LEMMA LakeIsComplete == LakeInv => ListingsComplete
<1> SUFFICES ASSUME LakeInv PROVE ListingsComplete
  OBVIOUS
<1> USE DEF LakeInv, LakeOf
<1>1. FilesComplete
  <2> SUFFICES ASSUME view.at = "answered", view.tab = "load", view.filesError = "none", NEW n \in stayed,
                      Len(n) = Len(Target(view.folder)) + 1, Under(n, Target(view.folder)), Last(n) # ""
               PROVE  n \in view.files
    BY DEF FilesComplete
  <2>1. PICK i \in DOMAIN Names : n = Names[i]
    BY DEF Objects
  <2>2. Target(view.folder) \in Path
    BY NamesArePaths DEF Sound, Target
  <2>3. Len(Target(view.folder)) \in Nat
    BY <2>2, LenProperties DEF Path
  <2>4. ~Deeper(n, Target(view.folder))
    <3>1. Len(n) = Len(Target(view.folder)) + 1
      OBVIOUS
    <3> QED BY <2>3, <3>1, NextIsDirect
  <2>5. FilesWhole(view, stayed)
    BY DEF Walked
  <2> QED BY <2>1, <2>4, <2>5 DEF FilesWhole
<1>2. FoldersComplete
  <2> SUFFICES ASSUME view.at \in {"files", "answered"}, view.foldersError = "none",
                      Cardinality(view.folders) < MaxFolders
               PROVE  {f \in Folders : IsPrefix(Base, f) /\ \E n \in stayed : Under(n, f)} \subseteq view.folders
    BY DEF FoldersComplete
  <2>1. \A f \in view.folders : ChildrenIn(f, stayed, view.folders)
    BY DEF Walked, FoldersWhole
  <2>2. stayed \subseteq Objects
    OBVIOUS
  <2> HIDE DEF LakeInv, LakeOf
  <2>3. Sound(view)
    BY DEF LakeInv, LakeOf
  <2> QED BY <2>1, <2>2, <2>3, WholeIsComplete
<1>3. TokensTrusted
  BY DEF TokensTrusted, Sound
<1> QED BY <1>1, <1>2, <1>3 DEF ListingsComplete

-----------------------------------------------------------------------------
(* What serving a request makes of its view.                               *)

LEMMA AnsweredIs ==
  ASSUME NEW v, DOMAIN v = ViewFields
  PROVE  /\ DOMAIN Answered(v) = ViewFields /\ Answered(v).at = "answered" /\ Answered(v).tab = v.tab
         /\ Answered(v).folder = v.folder /\ Answered(v).folders = v.folders
         /\ Answered(v).foldersError = v.foldersError /\ Answered(v).files = v.files
         /\ Answered(v).filesError = v.filesError
         /\ Answered(v).start = 0 /\ Answered(v).tokens = {}
BY DEF Answered, ViewFields

LEMMA OutsideIs ==
  ASSUME NEW v, DOMAIN v = ViewFields, NEW w, w = [v EXCEPT !.filesError = "outside"]
  PROVE  /\ DOMAIN w = ViewFields /\ w.at = v.at /\ w.tab = v.tab
         /\ w.folder = v.folder /\ w.folders = v.folders
         /\ w.foldersError = v.foldersError /\ w.files = v.files /\ w.filesError = "outside"
BY DEF ViewFields

LEMMA FilesAtIs ==
  ASSUME NEW v, DOMAIN v = ViewFields, NEW w, w = [v EXCEPT !.at = "files"]
  PROVE  /\ DOMAIN w = ViewFields /\ w.at = "files" /\ w.tab = v.tab
         /\ w.folder = v.folder /\ w.folders = v.folders
         /\ w.foldersError = v.foldersError /\ w.files = v.files /\ w.filesError = v.filesError
         /\ w.start = v.start /\ w.tokens = v.tokens
BY DEF ViewFields

\* An answer that says no more than the view knew.
LEMMA AnswerHolds ==
  ASSUME NEW v, NEW b, NEW s, b \subseteq Objects, s \subseteq b, Sound(v), FoldersWhole(v, s),
         FilesWhole(v, s)
  PROVE  LakeOf(Answered(v), b, s)
<1> DEFINE w == Answered(v)
<1>1. DOMAIN v = ViewFields
  BY DEF Sound
<1>2. /\ DOMAIN w = ViewFields /\ w.at = "answered" /\ w.tab = v.tab
      /\ w.folder = v.folder /\ w.folders = v.folders
      /\ w.foldersError = v.foldersError /\ w.files = v.files /\ w.filesError = v.filesError
  BY <1>1, AnsweredIs
<1> HIDE DEF w
<1>3. Sound(w)
  BY <1>2 DEF Sound
<1>4. Uploading(w)
  BY <1>2 DEF Uploading
<1>5. Walked(w, s)
  BY <1>2 DEF Walked, FoldersWhole, FilesWhole
<1> QED BY <1>3, <1>4, <1>5 DEF LakeOf, w

\* The files are listed once the folders are.
LEMMA ListingFilesHolds ==
  ASSUME NEW v, NEW b, NEW s, b \subseteq Objects, s \subseteq b, Sound(v), FoldersWhole(v, s)
  PROVE  LakeOf(ListingFiles(v), b, s)
<1>1. DOMAIN v = ViewFields
  BY DEF Sound
<1>2. CASE v.tab = "upload"
  <2>1. FilesWhole(v, s)
    BY <1>2 DEF FilesWhole
  <2> QED BY <1>2, <2>1, AnswerHolds DEF ListingFiles
<1>3. CASE v.tab # "upload" /\ OutsideBase(v.folder)
  <2> DEFINE w == [v EXCEPT !.filesError = "outside"]
  <2>1. /\ DOMAIN w = ViewFields /\ w.at = v.at /\ w.tab = v.tab
        /\ w.folder = v.folder /\ w.folders = v.folders
        /\ w.foldersError = v.foldersError /\ w.files = v.files /\ w.filesError = "outside"
    BY <1>1, OutsideIs
  <2>2. ListingFiles(v) = Answered(w)
    BY <1>3 DEF ListingFiles
  <2> HIDE DEF w
  <2>3. Sound(w) /\ FoldersWhole(w, s) /\ FilesWhole(w, s)
    BY <2>1 DEF Sound, FoldersWhole, FilesWhole
  <2> QED BY <2>2, <2>3, AnswerHolds
<1>4. CASE v.tab # "upload" /\ ~OutsideBase(v.folder)
  <2> DEFINE a == Answered(v)
             w == [a EXCEPT !.at = "files"]
  <2>1. /\ DOMAIN a = ViewFields /\ a.at = "answered" /\ a.tab = v.tab
        /\ a.folder = v.folder /\ a.folders = v.folders
        /\ a.foldersError = v.foldersError /\ a.files = v.files /\ a.filesError = v.filesError
        /\ a.start = 0 /\ a.tokens = {}
    BY <1>1, AnsweredIs
  <2> HIDE DEF a
  <2>2. /\ DOMAIN w = ViewFields /\ w.at = "files" /\ w.tab = a.tab
        /\ w.folder = a.folder /\ w.folders = a.folders
        /\ w.foldersError = a.foldersError /\ w.files = a.files /\ w.filesError = a.filesError
        /\ w.start = a.start /\ w.tokens = a.tokens
    BY <2>1, FilesAtIs
  <2>3. ListingFiles(v) = w
    BY <1>4 DEF ListingFiles, a
  <2> HIDE DEF w
  <2>4. Sound(w) /\ Uploading(w)
    BY <2>1, <2>2 DEF Sound, Uploading
  <2>5. ReadingFiles(w, s)
    <3>1. w.start = 0 /\ w.tokens = {}
      BY <2>1, <2>2
    <3>2. \A i \in DOMAIN Names : ~(i < 0)
      BY NamesArePaths
    <3>3. FilesBefore(0, Target(w.folder), s, w.files)
      BY <3>2 DEF FilesBefore
    <3> QED BY <3>1, <3>3 DEF ReadingFiles
  <2>6. Walked(w, s)
    BY <2>1, <2>2, <2>5 DEF Walked, FoldersWhole
  <2> QED BY <2>3, <2>4, <2>6 DEF LakeOf
<1> QED BY <1>2, <1>3, <1>4

LEMMA ListingIs ==
  ASSUME NEW v, DOMAIN v = ViewFields
  PROVE  /\ DOMAIN Listing(v) = ViewFields /\ Listing(v).at = "folders"
         /\ Listing(v).folder = v.folder /\ Listing(v).folders = v.folders
         /\ Listing(v).foldersError = "none" /\ Listing(v).filesError = v.filesError
         /\ Listing(v).pending = <<Base>> /\ Listing(v).start = v.start /\ Listing(v).tokens = v.tokens
BY DEF Listing, ViewFields

\* The listing of the folders starts at the base.
LEMMA ListingHolds ==
  ASSUME NEW v, NEW b, NEW s, b \subseteq Objects, s \subseteq b, Sound(v),
         v.folders = {Base}, v.start = 0, v.tokens = {}
  PROVE  LakeOf(Listing(v), b, s)
<1> DEFINE w == Listing(v)
<1>1. /\ DOMAIN w = ViewFields /\ w.at = "folders" /\ w.folder = v.folder /\ w.folders = {Base}
      /\ w.foldersError = "none" /\ w.filesError = v.filesError
      /\ w.pending = <<Base>> /\ w.start = 0 /\ w.tokens = {}
  BY ListingIs DEF Sound
<1> HIDE DEF w
<1>2. Sound(w) /\ Uploading(w)
  BY <1>1 DEF Sound, Uploading
<1>3. Walking(w, s)
  <2>1. w.pending \in Seq(w.folders) /\ w.pending # <<>> /\ DOMAIN w.pending = {1} /\ w.pending[1] = Base
    BY <1>1
  <2>2. Cardinality(w.folders) = 1 /\ 1 < MaxFolders
    BY <1>1, FS_Singleton, LakehouseAssumption
  <2>3. ChildrenBefore(0, w.pending[1], s, w.folders)
    <3>1. \A i \in DOMAIN Names : ~(i < 0)
      BY NamesArePaths
    <3> QED BY <3>1 DEF ChildrenBefore
  <2> QED BY <1>1, <2>1, <2>2, <2>3 DEF Walking
<1> QED BY <1>1, <1>2, <1>3 DEF LakeOf, Walked, w

-----------------------------------------------------------------------------
(* Sequences of folders to walk.                                           *)

\* t is the queue q of members of A, followed by r.
QueuedAfter(t, q, r, A) ==
  /\ t \in Seq(A \cup ToSet(r)) /\ t # <<>> /\ t[1] = q[1]
  /\ \A i, j \in DOMAIN t : t[i] = t[j] => i = j
  /\ \A i \in DOMAIN t : (i \in DOMAIN q /\ t[i] = q[i]) \/ t[i] \in ToSet(r)
  /\ \A i \in DOMAIN q : \E j \in DOMAIN t : t[j] = q[i]
  /\ \A f \in ToSet(r) : \E j \in DOMAIN t : t[j] = f

LEMMA QueueOf ==
  ASSUME NEW A, NEW B, A \cap B = {}, NEW q \in Seq(A), q # <<>>, NEW r \in Seq(B),
         \A i, j \in DOMAIN q : q[i] = q[j] => i = j, \A i, j \in DOMAIN r : r[i] = r[j] => i = j
  PROVE  QueuedAfter(q \o r, q, r, A)
<1> DEFINE m == Len(q)
           n == Len(r)
           qr == q \o r
<1>1. /\ m \in Nat /\ n \in Nat /\ m > 0 /\ DOMAIN q = 1 .. m /\ DOMAIN r = 1 .. n
      /\ \A i \in 1 .. m : q[i] \in A
  <2>1. m \in Nat /\ n \in Nat /\ DOMAIN q = 1 .. m /\ DOMAIN r = 1 .. n
    BY LenProperties
  <2>2. m # 0
    BY EmptySeq
  <2> QED BY <2>1, <2>2, ElementOfSeq
<1>2. /\ r \in [1 .. n -> ToSet(r)] /\ ToSet(r) \subseteq B
      /\ \A f \in ToSet(r) : \E i \in 1 .. n : f = r[i]
  <2>1. \A i \in 1 .. n : r[i] \in B
    BY ElementOfSeq
  <2>2. r \in [1 .. n -> B]
    BY LenProperties
  <2> QED BY <1>1, <2>1, <2>2 DEF ToSet
<1>3. r \in Seq(A \cup ToSet(r)) /\ q \in Seq(A \cup ToSet(r))
  <2>1. r \in [1 .. n -> A \cup ToSet(r)]
    BY <1>2
  <2> QED BY <1>1, <2>1, IsASeq, SeqMonotonic
<1>4. /\ qr \in Seq(A \cup ToSet(r)) /\ Len(qr) = m + n
      /\ \A i \in 1 .. m + n : qr[i] = IF i <= m THEN q[i] ELSE r[i - m]
  BY <1>3, ConcatProperties
<1>5. DOMAIN qr = 1 .. m + n
  BY <1>4, LenProperties
<1> HIDE DEF qr, m, n
<1>6. \A i \in 1 .. m + n : /\ i <= m => i \in 1 .. m /\ qr[i] = q[i] /\ qr[i] \in A
                            /\ ~(i <= m) => i - m \in 1 .. n /\ qr[i] = r[i - m] /\ qr[i] \in ToSet(r)
  BY <1>1, <1>2, <1>4
<1>7. qr # <<>> /\ qr[1] = q[1]
  <2>1. 1 \in 1 .. m + n /\ 1 <= m
    BY <1>1
  <2>2. qr # <<>>
    <3>1. Len(qr) # 0
      BY <1>1, <1>4
    <3> QED BY <3>1
  <2> QED BY <2>1, <2>2, <1>6
<1>8. ASSUME NEW i \in 1 .. m + n, NEW j \in 1 .. m + n, qr[i] = qr[j]
      PROVE  i = j
  <2>1. CASE i <= m /\ j <= m
    BY <2>1, <1>1, <1>6, <1>8
  <2>2. CASE ~(i <= m) /\ ~(j <= m)
    <3>1. i - m = j - m
      BY <2>2, <1>1, <1>6, <1>8
    <3> QED BY <3>1, <1>1
  <2>3. CASE (i <= m /\ ~(j <= m)) \/ (~(i <= m) /\ j <= m)
    BY <2>3, <1>2, <1>6, <1>8
  <2> QED BY <2>1, <2>2, <2>3
<1>9. \A i \in 1 .. m + n : (i \in DOMAIN q /\ qr[i] = q[i]) \/ qr[i] \in ToSet(r)
  BY <1>1, <1>6
<1>10. \A i \in DOMAIN q : i \in DOMAIN qr /\ qr[i] = q[i]
  <2>1. \A i \in 1 .. m : i \in 1 .. m + n /\ i <= m
    BY <1>1
  <2> QED BY <2>1, <1>1, <1>5, <1>6
<1>11. \A i \in 1 .. n : m + i \in 1 .. m + n /\ qr[m + i] = r[i]
  <2> SUFFICES ASSUME NEW i \in 1 .. n  PROVE m + i \in 1 .. m + n /\ qr[m + i] = r[i]
    OBVIOUS
  <2>1. m + i \in 1 .. m + n /\ ~(m + i <= m) /\ m + i - m = i
    BY <1>1
  <2>2. \A j \in 1 .. m + n : ~(j <= m) => qr[j] = r[j - m]
    BY <1>6
  <2> QED BY <1>1, <2>1, <2>2
<1>12. \A f \in ToSet(r) : \E j \in DOMAIN qr : qr[j] = f
  BY <1>2, <1>5, <1>11
<1>13. QueuedAfter(qr, q, r, A)
  BY <1>4, <1>5, <1>7, <1>8, <1>9, <1>10, <1>12 DEF QueuedAfter
<1> QED BY <1>13 DEF qr

LEMMA TailOf ==
  ASSUME NEW S, NEW q \in Seq(S), q # <<>>, \A i, j \in DOMAIN q : q[i] = q[j] => i = j
  PROVE  /\ Tail(q) \in Seq(S)
         /\ \A i, j \in DOMAIN Tail(q) : Tail(q)[i] = Tail(q)[j] => i = j
         /\ \A i \in DOMAIN Tail(q) : \E j \in DOMAIN q : j # 1 /\ Tail(q)[i] = q[j]
         /\ \A i \in DOMAIN q : i # 1 => \E j \in DOMAIN Tail(q) : Tail(q)[j] = q[i]
<1> DEFINE t == Tail(q)
<1>1. /\ t \in Seq(S) /\ Len(t) = Len(q) - 1 /\ \A i \in 1 .. Len(t) : t[i] = q[i + 1]
  BY HeadTailProperties
<1>2. Len(q) \in Nat /\ DOMAIN q = 1 .. Len(q) /\ DOMAIN t = 1 .. Len(t) /\ Len(t) \in Nat
  BY <1>1, LenProperties
<1> HIDE DEF t
<1>3. \A i \in DOMAIN t : i + 1 \in DOMAIN q /\ i + 1 # 1 /\ t[i] = q[i + 1]
  BY <1>1, <1>2
<1>4. ASSUME NEW i \in DOMAIN t, NEW j \in DOMAIN t, t[i] = t[j]
      PROVE  i = j
  <2>1. i + 1 = j + 1
    BY <1>3, <1>4
  <2> QED BY <2>1, <1>2
<1>5. ASSUME NEW i \in DOMAIN q, i # 1
      PROVE  \E j \in DOMAIN t : t[j] = q[i]
  <2>1. i - 1 \in 1 .. Len(t) /\ i - 1 + 1 = i
    BY <1>1, <1>2, <1>5
  <2> QED BY <2>1, <1>1, <1>2
<1> QED BY <1>1, <1>3, <1>4, <1>5 DEF t

-----------------------------------------------------------------------------
(* The steps.                                                              *)

LEMMA IdleIs ==
  /\ DOMAIN Idle = ViewFields /\ Idle.at = "answered" /\ Idle.folders = {Base}
  /\ Idle.foldersError = "unlisted" /\ Idle.filesError = "none" /\ Idle.folder = <<>>
  /\ Idle.start = 0 /\ Idle.tokens = {} /\ Idle.tab = "load"
BY DEF Idle, ViewFields

LEMMA IdleHolds == Sound(Idle) /\ FoldersWhole(Idle, {}) /\ Uploading(Idle)
<1>1. IsFiniteSet({Base}) /\ {Base} \subseteq Path /\ Base \in Path
  BY FS_Singleton, NamesArePaths
<1>2. <<>> \in Path
  BY DEF Path
<1> QED BY IdleIs, <1>1, <1>2 DEF Sound, FoldersWhole, Uploading

LEMMA LakeInit == LakehouseInit => LakeInv
<1> SUFFICES ASSUME LakehouseInit PROVE LakeInv
  OBVIOUS
<1>1. bucket \subseteq Objects /\ view = Idle /\ stayed = {}
  BY DEF LakehouseInit
<1>2. FilesWhole(Idle, {})
  BY DEF FilesWhole
<1>3. Walked(Idle, {})
  BY IdleIs, IdleHolds, <1>2 DEF Walked
<1> QED BY <1>1, <1>3, IdleHolds DEF LakeInv, LakeOf

\* A request is sent from the page as it was.
LEMMA SentIs ==
  ASSUME NEW folder, NEW sent, sent = [Idle EXCEPT !.folder = folder]
  PROVE  /\ DOMAIN sent = ViewFields /\ sent.at = "answered" /\ sent.folders = {Base}
         /\ sent.foldersError = "unlisted" /\ sent.filesError = "none" /\ sent.folder = folder
         /\ sent.start = 0 /\ sent.tokens = {}
BY IdleIs DEF ViewFields

LEMMA OpenLoadHolds ==
  ASSUME LakeInv, NEW folder \in Folders, NEW populated \in BOOLEAN, OpenLoad(folder, populated)
  PROVE  LakeInv'
<1> DEFINE sent == [Idle EXCEPT !.folder = folder]
<1>1. /\ view' = (IF populated THEN Listing(sent) ELSE ListingFiles(sent))
      /\ bucket' = bucket /\ stayed' = bucket /\ bucket \subseteq Objects
  BY DEF OpenLoad, LakeInv, LakeOf
<1>2. /\ DOMAIN sent = ViewFields /\ sent.at = "answered" /\ sent.folders = {Base}
      /\ sent.foldersError = "unlisted" /\ sent.filesError = "none" /\ sent.folder = folder
      /\ sent.start = 0 /\ sent.tokens = {}
  BY SentIs
<1> HIDE DEF sent
<1>3. Sound(sent)
  BY <1>2, FoldersArePaths, IdleIs, IdleHolds DEF Sound
<1>4. FoldersWhole(sent, bucket)
  BY <1>2 DEF FoldersWhole
<1>5. LakeOf(Listing(sent), bucket, bucket)
  BY <1>1, <1>2, <1>3, ListingHolds
<1>6. LakeOf(ListingFiles(sent), bucket, bucket)
  BY <1>1, <1>3, <1>4, ListingFilesHolds
<1>7. LakeOf(view', bucket', stayed')
  BY <1>1, <1>5, <1>6
<1> QED BY <1>7 DEF LakeInv

\* A name is what its folder and its last part make.
LEMMA FrontAndLast ==
  ASSUME NEW n \in Path, n # <<>>
  PROVE  Front(n) \in Path /\ Append(Front(n), Last(n)) = n /\ Len(Front(n)) = Len(n) - 1
<1>1. Len(n) \in Nat /\ Len(n) # 0 /\ DOMAIN n = 1 .. Len(n)
  BY LenProperties, EmptySeq DEF Path
<1>2. Len(n) - 1 \in Nat
  BY <1>1
<1>3. /\ Front(n) \in Path /\ Len(Front(n)) = Len(n) - 1
      /\ \A i \in 1 .. Len(n) - 1 : Front(n)[i] = n[i]
  BY <1>1, <1>2, FirstParts DEF Front
<1>4. Last(n) \in Parts
  BY <1>1, ElementOfSeq DEF Last, Path
<1>5. /\ Append(Front(n), Last(n)) \in Path /\ Len(Append(Front(n), Last(n))) = Len(n) - 1 + 1
      /\ \A i \in 1 .. Len(n) - 1 : Append(Front(n), Last(n))[i] = n[i]
      /\ Append(Front(n), Last(n))[Len(n) - 1 + 1] = n[Len(n)]
  <2>1. Front(n) \in Seq(Parts)
    BY <1>3 DEF Path
  <2>2. /\ Append(Front(n), Last(n)) \in Seq(Parts)
        /\ Len(Append(Front(n), Last(n))) = Len(Front(n)) + 1
        /\ \A i \in 1 .. Len(Front(n)) : Append(Front(n), Last(n))[i] = Front(n)[i]
        /\ Append(Front(n), Last(n))[Len(Front(n)) + 1] = Last(n)
    BY <2>1, <1>4, AppendProperties
  <2> QED BY <1>3, <2>2 DEF Path, Last
<1>6. Len(Append(Front(n), Last(n))) = Len(n)
  BY <1>1, <1>5
<1>7. \A i \in 1 .. Len(n) : Append(Front(n), Last(n))[i] = n[i]
  <2>1. Len(n) - 1 + 1 = Len(n)
    BY <1>1
  <2>2. Append(Front(n), Last(n))[Len(n)] = n[Len(n)]
    BY <2>1, <1>5
  <2>3. \A i \in 1 .. Len(n) : i \in 1 .. Len(n) - 1 \/ i = Len(n)
    <3> DEFINE l == Len(n)
    <3>1. l \in Nat
      BY <1>1
    <3> HIDE DEF l
    <3>2. \A i \in 1 .. l : i \in 1 .. l - 1 \/ i = l
      BY <3>1
    <3> QED BY <3>2 DEF l
  <2> SUFFICES ASSUME NEW i \in 1 .. Len(n)  PROVE Append(Front(n), Last(n))[i] = n[i]
    OBVIOUS
  <2>4. CASE i = Len(n)
    BY <2>2, <2>4
  <2>5. CASE i \in 1 .. Len(n) - 1
    BY <1>5, <2>5
  <2> QED BY <2>3, <2>4, <2>5
<1> QED BY <1>3, <1>5, <1>6, <1>7, SamePath

LEMMA OpenUploadHolds ==
  ASSUME LakeInv, NEW folder \in Folders, NEW made, NEW file, OpenUpload(folder, made, file),
         made = "" => Append(Target(folder), file) \in Objects,
         made # "" => /\ Append(Target(folder), made) \in Path
                      /\ Append(Append(Target(folder), made), "") \in Objects
                      /\ Append(Append(Target(folder), made), file) \in Objects
  PROVE  LakeInv'
<1> DEFINE sent == [Idle EXCEPT !.tab = "upload", !.folder = folder, !.made = made, !.file = file]
           failed == [sent EXCEPT !.upload = "failed"]
           at == IF made = "" THEN "put" ELSE "make"
           put == [sent EXCEPT !.at = at, !.folder = Target(folder)]
<1>1. /\ view' = (IF OutsideBase(folder) THEN Listing(failed) ELSE put)
      /\ bucket' = bucket /\ stayed' = bucket /\ bucket \subseteq Objects
  BY DEF OpenUpload, LakeInv, LakeOf
<1>2. /\ DOMAIN sent = ViewFields /\ sent.at = "answered" /\ sent.folders = {Base}
      /\ sent.foldersError = "unlisted" /\ sent.filesError = "none" /\ sent.folder = folder
      /\ sent.start = 0 /\ sent.tokens = {} /\ sent.tab = "upload" /\ sent.made = made /\ sent.file = file
  BY IdleIs DEF ViewFields
<1> HIDE DEF sent
<1>3. /\ DOMAIN failed = ViewFields /\ failed.folders = sent.folders
      /\ failed.foldersError = sent.foldersError /\ failed.filesError = sent.filesError
      /\ failed.folder = sent.folder /\ failed.start = sent.start /\ failed.tokens = sent.tokens
  BY <1>2 DEF ViewFields
<1> HIDE DEF failed
<1>4. /\ DOMAIN put = ViewFields /\ put.at = at /\ put.folders = sent.folders
      /\ put.foldersError = sent.foldersError /\ put.filesError = sent.filesError /\ put.folder = Target(folder)
      /\ put.start = sent.start /\ put.tokens = sent.tokens /\ put.tab = sent.tab
      /\ put.made = sent.made /\ put.file = sent.file
  <2> HIDE DEF at
  <2> QED BY <1>2 DEF ViewFields
<1> HIDE DEF put
<1>5. Sound(failed) /\ Sound(put)
  BY <1>2, <1>3, <1>4, FoldersArePaths, IdleIs, IdleHolds DEF Sound
<1>6. LakeOf(Listing(failed), bucket, bucket)
  BY <1>1, <1>2, <1>3, <1>5, ListingHolds
<1>7. Uploading(put)
  BY <1>2, <1>4 DEF Uploading
<1>8. Walked(put, bucket)
  BY <1>4 DEF Walked
<1>9. LakeOf(put, bucket, bucket)
  BY <1>1, <1>5, <1>7, <1>8 DEF LakeOf
<1>10. LakeOf(view', bucket', stayed')
  BY <1>1, <1>6, <1>9
<1> QED BY <1>10 DEF LakeInv

LEMMA OpenUploadsHolds ==
  ASSUME LakeInv, NEW folder \in Folders, NEW name \in Objects, OpenUploads(folder, name)
  PROVE  LakeInv'
<1>1. name \in Path /\ name # <<>> /\ Len(name) \in Nat
  BY NamesArePaths, LenProperties DEF Path
<1>2. Front(name) \in Path /\ Append(Front(name), Last(name)) = name /\ Len(Front(name)) = Len(name) - 1
  BY <1>1, FrontAndLast
<1>3. CASE Target(folder) = Front(name) /\ OpenUpload(folder, "", Last(name))
  BY <1>2, <1>3, OpenUploadHolds
<1>4. CASE /\ Len(name) > 1 /\ Last(Front(name)) # "" /\ Append(Front(name), "") \in Objects
           /\ Target(folder) = Front(Front(name))
           /\ OpenUpload(folder, Last(Front(name)), Last(name))
  <2>1. Front(name) # <<>>
    <3> DEFINE l == Len(name)
    <3>a. Len(Front(name)) = l - 1 /\ l \in Nat /\ l > 1
      BY <1>1, <1>2, <1>4
    <3> HIDE DEF l
    <3>b. l - 1 > 0
      BY <3>a
    <3>1. Len(Front(name)) > 0
      BY <3>a, <3>b
    <3>2. ~(Len(<<>>) > 0)
      OBVIOUS
    <3> QED BY <3>1, <3>2
  <2>2. Append(Front(Front(name)), Last(Front(name))) = Front(name)
    BY <1>2, <2>1, FrontAndLast
  <2> QED BY <1>2, <1>4, <2>2, OpenUploadHolds
<1> QED BY <1>3, <1>4 DEF OpenUploads

LEMMA MakeFolderHolds ==
  ASSUME LakeInv, MakeFolder
  PROVE  LakeInv'
<1> DEFINE folder == Append(view.folder, view.made)
<1>1. /\ view.at = "make" /\ bucket' = bucket \cup {Append(folder, "")}
      /\ view' = [view EXCEPT !.at = "put", !.folder = folder] /\ stayed' = bucket'
  BY DEF MakeFolder
<1>2. /\ bucket \subseteq Objects /\ Sound(view) /\ view.tab = "upload" /\ view.folders = {Base}
      /\ view.tokens = {} /\ view.start = 0
      /\ folder \in Path /\ Append(folder, "") \in Objects /\ Append(folder, view.file) \in Objects
  BY <1>1 DEF LakeInv, LakeOf, Uploading
<1> HIDE DEF folder
<1>3. /\ DOMAIN view' = ViewFields /\ view'.at = "put" /\ view'.folders = view.folders
      /\ view'.foldersError = view.foldersError /\ view'.filesError = view.filesError /\ view'.folder = folder
      /\ view'.start = view.start /\ view'.tokens = view.tokens /\ view'.tab = view.tab
      /\ view'.made = view.made /\ view'.file = view.file
  <2>1. DOMAIN view = ViewFields
    BY <1>2 DEF Sound
  <2> QED BY <2>1, <1>1 DEF ViewFields
<1>4. Sound(view')
  BY <1>2, <1>3 DEF Sound
<1>5. Uploading(view') /\ Walked(view', stayed')
  BY <1>2, <1>3 DEF Uploading, Walked
<1> QED BY <1>1, <1>2, <1>4, <1>5 DEF LakeInv, LakeOf

LEMMA PutObjectHolds ==
  ASSUME LakeInv, PutObject
  PROVE  LakeInv'
<1> DEFINE name == Append(view.folder, view.file)
<1>1. /\ view.at = "put" /\ bucket' = bucket \cup {name}
      /\ view' = [view EXCEPT !.at = "head"] /\ stayed' = bucket'
  BY DEF PutObject
<1>2. /\ bucket \subseteq Objects /\ Sound(view) /\ view.tab = "upload" /\ view.folders = {Base}
      /\ view.tokens = {} /\ view.start = 0 /\ name \in Objects
  BY <1>1 DEF LakeInv, LakeOf, Uploading
<1>3. /\ DOMAIN view' = ViewFields /\ view'.at = "head" /\ view'.folders = view.folders
      /\ view'.foldersError = view.foldersError /\ view'.filesError = view.filesError
      /\ view'.folder = view.folder /\ view'.start = view.start /\ view'.tokens = view.tokens
      /\ view'.tab = view.tab
  BY <1>1, <1>2 DEF Sound, ViewFields
<1>4. Sound(view')
  BY <1>2, <1>3 DEF Sound
<1>5. Uploading(view') /\ Walked(view', stayed')
  BY <1>2, <1>3 DEF Uploading, Walked
<1> HIDE DEF name
<1> QED BY <1>1, <1>2, <1>4, <1>5 DEF LakeInv, LakeOf

\* However an upload ends, the folders are listed.
LEMMA UploadEnds ==
  ASSUME LakeInv, view.at \in {"make", "put", "head"}, NEW told, NEW s, s \subseteq bucket
  PROVE  LakeOf(Listing([view EXCEPT !.upload = told]), bucket, s)
<1> DEFINE w == [view EXCEPT !.upload = told]
<1>1. /\ bucket \subseteq Objects /\ Sound(view) /\ view.folders = {Base}
      /\ view.tokens = {} /\ view.start = 0
  BY DEF LakeInv, LakeOf, Uploading
<1>2. /\ DOMAIN w = ViewFields /\ w.folders = view.folders
      /\ w.foldersError = view.foldersError /\ w.filesError = view.filesError /\ w.folder = view.folder
      /\ w.start = view.start /\ w.tokens = view.tokens
  <2>1. DOMAIN view = ViewFields
    BY <1>1 DEF Sound
  <2> QED BY <2>1 DEF ViewFields
<1> HIDE DEF w
<1>3. Sound(w)
  BY <1>1, <1>2 DEF Sound
<1>4. LakeOf(Listing(w), bucket, s)
  BY <1>1, <1>2, <1>3, ListingHolds
<1> QED BY <1>4 DEF w

LEMMA HeadObjectHolds ==
  ASSUME LakeInv, HeadObject
  PROVE  LakeInv'
<1>1. PICK told \in {"ok", "failed"} : view' = Listing([view EXCEPT !.upload = told])
  BY DEF HeadObject
<1>2. view.at = "head" /\ bucket' = bucket /\ stayed' = bucket
  BY DEF HeadObject
<1>3. LakeOf(Listing([view EXCEPT !.upload = told]), bucket, bucket)
  BY <1>2, UploadEnds
<1>4. LakeOf(view', bucket', stayed')
  BY <1>1, <1>2, <1>3
<1> QED BY <1>4 DEF LakeInv

\* A listing of the folders that fails leaves the base to choose.
LEMMA FoldersFailHolds ==
  ASSUME LakeInv, NEW error, error # "none", error # "repeated", FoldersFail(error),
         bucket' = bucket, stayed' = stayed
  PROVE  LakeInv'
<1> DEFINE w == [view EXCEPT !.foldersError = error, !.folders = {Base}, !.pending = <<>>]
<1>1. /\ bucket \subseteq Objects /\ stayed \subseteq bucket /\ Sound(view) /\ view' = ListingFiles(w)
  BY DEF LakeInv, LakeOf, FoldersFail
<1>2. /\ DOMAIN w = ViewFields /\ w.folders = {Base} /\ w.foldersError = error
      /\ w.filesError = view.filesError /\ w.folder = view.folder
  BY <1>1 DEF Sound, ViewFields
<1> HIDE DEF w
<1>3. Sound(w) /\ FoldersWhole(w, stayed)
  BY <1>1, <1>2, NamesArePaths, FS_Singleton DEF Sound, FoldersWhole
<1>4. LakeOf(ListingFiles(w), bucket, stayed)
  BY <1>1, <1>3, ListingFilesHolds
<1>5. LakeOf(view', bucket', stayed')
  BY <1>1, <1>4
<1> QED BY <1>5 DEF LakeInv

\* The view while its folders are listed, as its pages change it.
LEMMA PassedIs ==
  ASSUME NEW v, DOMAIN v = ViewFields, NEW folders, NEW pending, NEW left, NEW next, NEW tokens, NEW pages
  PROVE  LET a == [v EXCEPT !.pages = pages, !.folders = folders, !.pending = pending]
             w == [a EXCEPT !.pending = left, !.start = next, !.tokens = tokens]
             e == [w EXCEPT !.pending = <<>>]
         IN /\ a.pending = pending /\ a.folders = folders /\ a.tokens = v.tokens
            /\ DOMAIN w = ViewFields /\ w.at = v.at /\ w.folders = folders /\ w.folder = v.folder
            /\ w.pending = left /\ w.start = next /\ w.tokens = tokens
            /\ w.foldersError = v.foldersError /\ w.filesError = v.filesError
            /\ DOMAIN e = ViewFields /\ e.folders = folders /\ e.folder = v.folder
            /\ e.foldersError = v.foldersError /\ e.filesError = v.filesError
BY DEF ViewFields

\* A page of the folders is added to what is known, and the walk goes on from there.
LEMMA FolderPageHolds ==
  ASSUME LakeInv, FolderPage
  PROVE  LakeInv'
<1> DEFINE prefix == Head(view.pending)
           listed == PageOf(prefix, view.start)
           added == Added(listed)
           folders == view.folders \cup ToSet(added)
           pending == view.pending \o added
           v == [view EXCEPT !.pages = @ + 1, !.folders = @ \cup ToSet(added), !.pending = @ \o added]
<1>1. /\ bucket \subseteq Objects /\ stayed \subseteq bucket /\ Sound(view) /\ view.at = "folders"
      /\ Walking(view, stayed) /\ bucket' = bucket /\ stayed' = stayed
  BY DEF LakeInv, LakeOf, Walked, FolderPage
<1>2. /\ view.pending \in Seq(view.folders) /\ view.pending # <<>>
      /\ \A i, j \in DOMAIN view.pending : view.pending[i] = view.pending[j] => i = j
      /\ view.start \in Nat /\ Cardinality(view.folders) < MaxFolders
      /\ view.folders \subseteq Path /\ IsFiniteSet(view.folders)
  BY <1>1 DEF Walking, Sound
<1>3. prefix = view.pending[1] /\ prefix \in view.folders /\ prefix \in Path /\ 1 \in DOMAIN view.pending
  <2>1. prefix \in view.folders
    BY <1>2, HeadTailProperties
  <2>2. Len(view.pending) \in Nat /\ Len(view.pending) # 0 /\ DOMAIN view.pending = 1 .. Len(view.pending)
    BY <1>2, LenProperties, EmptySeq
  <2>3. 1 \in DOMAIN view.pending
    BY <2>2
  <2> QED BY <1>2, <2>1, <2>3
<1> HIDE DEF prefix
<1>4. /\ listed.next \in Nat /\ (listed.next # 0 => listed.next > view.start)
      /\ \A i \in DOMAIN Names :
               /\ Names[i] \in bucket /\ Under(Names[i], prefix) /\ i >= view.start
               /\ listed.next = 0 \/ i < listed.next
               => /\ Deeper(Names[i], prefix) => Entry(Names[i], prefix) \in listed.prefixes
                  /\ ~Deeper(Names[i], prefix) => Names[i] \in listed.objects
  <2> HIDE DEF listed
  <2>1. listed = PageOf(prefix, view.start)
    BY DEF listed
  <2> QED BY <1>1, <1>2, <1>3, <2>1, PageLists
<1>5. /\ added \in Seq(listed.prefixes \ view.folders)
      /\ \A i, j \in DOMAIN added : added[i] = added[j] => i = j
      /\ listed.prefixes \subseteq Path /\ IsFiniteSet(folders)
      /\ listed.prefixes \subseteq folders \/ ~(Cardinality(folders) < MaxFolders)
  <2> HIDE DEF listed
  <2>1. listed = PageOf(prefix, view.start)
    BY DEF listed
  <2>2. /\ bucket \subseteq Objects /\ prefix \in Path /\ view.start \in Nat
        /\ view.folders \subseteq Path /\ IsFiniteSet(view.folders) /\ Cardinality(view.folders) < MaxFolders
    BY <1>1, <1>2, <1>3
  <2> QED BY ONLY <2>1, <2>2, AddedIs
<1> DEFINE next == listed.next
<1>6. CASE view.pages >= MaxPages
  <2>1. FoldersFail("page_limit")
    BY <1>6 DEF FolderPage
  <2> QED BY <1>1, <2>1, FoldersFailHolds
<1>7. ~(TokenKey(prefix, next) \in view.tokens)
  <2> SUFFICES ASSUME <<prefix, next>> \in view.tokens PROVE FALSE
    BY DEF TokenKey
  <2> DEFINE t == <<prefix, next>>
  <2>1. t \in view.tokens /\ t[1] = prefix /\ t[2] = next
    OBVIOUS
  <2> HIDE DEF t, next
  <2>2. /\ t[2] \in Nat \ {0}
        /\ \A i \in DOMAIN view.pending : view.pending[i] = t[1] => i = 1 /\ t[2] <= view.start
    BY <1>1, <2>1 DEF Walking
  <2>3. next # 0 /\ next \in Nat /\ next <= view.start
    BY <1>3, <2>1, <2>2
  <2>4. next > view.start
    BY <1>4, <2>3 DEF next
  <2> QED BY <1>2, <2>3, <2>4
<1>8. CASE ~(view.pages >= MaxPages)
  <2>1. view' = AfterPage(v, next)
    BY <1>7, <1>8 DEF FolderPage, prefix
  <2> DEFINE left == IF next # 0 THEN pending ELSE Tail(pending)
             tokens == IF next # 0 THEN view.tokens \cup {TokenKey(prefix, next)} ELSE view.tokens
             a == [view EXCEPT !.pages = view.pages + 1, !.folders = folders, !.pending = pending]
             w == [a EXCEPT !.pending = left, !.start = next, !.tokens = tokens]
             e == [w EXCEPT !.pending = <<>>]
  <2> HIDE DEF added, next
  <2>2. DOMAIN view = ViewFields
    BY <1>1 DEF Sound
  <2>3. /\ a.pending = pending /\ a.folders = folders /\ a.tokens = view.tokens
        /\ DOMAIN w = ViewFields /\ w.at = view.at /\ w.folders = folders /\ w.folder = view.folder
        /\ w.pending = left /\ w.start = next /\ w.tokens = tokens
        /\ w.foldersError = view.foldersError /\ w.filesError = view.filesError
        /\ DOMAIN e = ViewFields /\ e.folders = folders /\ e.folder = view.folder
        /\ e.foldersError = view.foldersError /\ e.filesError = view.filesError
    <3> HIDE DEF folders, pending, left, tokens
    <3> QED BY <2>2, PassedIs
  <2>4. v = a
    OBVIOUS
  \* What is to walk, and what is known.
  <2> DEFINE B == listed.prefixes \ view.folders
  <2>5. /\ view.folders \cap B = {} /\ added \in Seq(B)
    BY <1>5 DEF added
  <2>6. \A i, j \in DOMAIN added : added[i] = added[j] => i = j
    BY <1>5 DEF added
  <2>7. ToSet(added) \subseteq B
    <3> HIDE DEF B
    <3>1. \A i \in 1 .. Len(added) : added[i] \in B
      BY <2>5, ElementOfSeq
    <3> QED BY <2>5, <3>1, LenProperties DEF ToSet
  <2>8. /\ pending \in Seq(folders) /\ pending # <<>> /\ pending[1] = view.pending[1]
        /\ \A i, j \in DOMAIN pending : pending[i] = pending[j] => i = j
        /\ \A i \in DOMAIN pending :
              (i \in DOMAIN view.pending /\ pending[i] = view.pending[i]) \/ pending[i] \in ToSet(added)
        /\ \A i \in DOMAIN view.pending : \E j \in DOMAIN pending : pending[j] = view.pending[i]
        /\ \A f \in ToSet(added) : \E j \in DOMAIN pending : pending[j] = f
    <3>1. /\ view.pending \in Seq(view.folders) /\ view.pending # <<>>
          /\ \A i, j \in DOMAIN view.pending : view.pending[i] = view.pending[j] => i = j
      BY <1>2
    <3> HIDE DEF B
    <3>2. QueuedAfter(view.pending \o added, view.pending, added, view.folders)
      BY <2>5, <2>6, <3>1, QueueOf
    <3> QED BY <3>2 DEF QueuedAfter
  <2>9. folders \subseteq Path /\ IsFiniteSet(folders) /\ Base \in folders
    BY <1>1, <1>2, <1>5, <2>7 DEF Sound, added
  <2>10. prefix = pending[1] /\ 1 \in DOMAIN pending
    <3>1. Len(pending) \in Nat /\ Len(pending) # 0 /\ DOMAIN pending = 1 .. Len(pending)
      BY <2>8, LenProperties, EmptySeq
    <3> HIDE DEF pending
    <3>2. 1 \in DOMAIN pending
      BY <3>1
    <3> QED BY <3>2, <1>3, <2>8
  <2>11. ASSUME NEW f \in folders, \A i \in DOMAIN pending : pending[i] # f
         PROVE  ChildrenIn(f, stayed, folders)
    <3>1. f \in view.folders
      BY <2>8, <2>11
    <3>2. \A i \in DOMAIN view.pending : view.pending[i] # f
      BY <2>8, <2>11
    <3>3. ChildrenIn(f, stayed, view.folders)
      BY <1>1, <3>1, <3>2 DEF Walking
    <3> QED BY <3>3 DEF ChildrenIn
  <2>12. Sound(w) /\ Sound(e)
    <3> HIDE DEF w, e, folders
    <3> QED BY <1>1, <2>3, <2>9 DEF Sound
  <2>13. ASSUME Cardinality(folders) < MaxFolders, NEW i \in DOMAIN Names, next = 0 \/ i < next,
                Names[i] \in stayed, Under(Names[i], prefix), Deeper(Names[i], prefix)
         PROVE  Entry(Names[i], prefix) \in folders
    <3>1. CASE i < view.start
      <4>1. Entry(Names[i], prefix) \in view.folders
        BY <1>1, <1>3, <2>13, <3>1 DEF Walking, ChildrenBefore
      <4> QED BY <4>1
    <3>2. CASE ~(i < view.start)
      <4>1. i >= view.start
        BY <3>2, <1>2, NamesArePaths
      <4>2. Entry(Names[i], prefix) \in listed.prefixes
        BY <1>1, <1>4, <2>13, <4>1 DEF next
      <4>3. listed.prefixes \subseteq folders
        BY <1>5, <2>13 DEF added
      <4> QED BY <4>2, <4>3
    <3> QED BY <3>1, <3>2
  \* The listing ends.
  <2>14. ASSUME FoldersWhole(e, stayed), view' = ListingFiles(e)
         PROVE  LakeInv'
    <3> HIDE DEF e
    <3>1. LakeOf(ListingFiles(e), bucket, stayed)
      BY <1>1, <2>12, <2>14, ListingFilesHolds
    <3>2. LakeOf(view', bucket', stayed')
      BY <1>1, <2>14, <3>1
    <3> QED BY <3>2 DEF LakeInv
  \* The listing goes on.
  <2>15. ASSUME Walking(w, stayed), view' = w
         PROVE  LakeInv'
    <3> HIDE DEF w
    <3>1. Uploading(w) /\ Walked(w, stayed)
      BY <1>1, <2>3, <2>15 DEF Uploading, Walked
    <3>2. LakeOf(view', bucket', stayed')
      BY <1>1, <2>12, <2>15, <3>1 DEF LakeOf
    <3> QED BY <3>2 DEF LakeInv
  <2>16. view' = IF left = <<>> \/ Cardinality(folders) >= MaxFolders THEN ListingFiles(e) ELSE w
    <3>1. Head(pending) = prefix
      <4> HIDE DEF pending
      <4> QED BY <2>8, <2>10
    <3>2. AfterPage(a, next) = IF left = <<>> \/ Cardinality(folders) >= MaxFolders THEN ListingFiles(e) ELSE w
      <4> HIDE DEF pending, folders
      <4>1. a.pending = pending /\ a.folders = folders /\ a.tokens = view.tokens
        BY <2>3
      <4> HIDE DEF a
      <4>2. [a EXCEPT !.pending = left, !.start = next,
                      !.tokens = IF next # 0 THEN @ \cup {TokenKey(Head(a.pending), next)} ELSE @] = w
        BY <3>1, <4>1
      <4>3. w.folders = folders \/ TRUE
        OBVIOUS
      <4> QED BY <4>1, <4>2 DEF AfterPage
    <3> QED BY <2>1, <2>4, <3>2
  <2>17. Cardinality(folders) \in Nat /\ MaxFolders \in Nat
    BY <2>9, FS_CardinalityType, LakehouseAssumption
  <2>18. CASE ~(Cardinality(folders) < MaxFolders)
    <3>1. view' = ListingFiles(e)
      <4> HIDE DEF folders, left, e, w
      <4> QED BY <2>16, <2>17, <2>18
    <3>2. FoldersWhole(e, stayed)
      <4> HIDE DEF folders, e
      <4> QED BY <2>3, <2>18 DEF FoldersWhole
    <3> QED BY <2>14, <3>1, <3>2
  <2>19. CASE Cardinality(folders) < MaxFolders /\ next # 0
    <3>1. left = pending /\ tokens = view.tokens \cup {<<prefix, next>>}
      BY <2>19 DEF TokenKey
    <3>2. view' = w
      <4> HIDE DEF folders, w, e, left, pending
      <4> QED BY <2>8, <2>16, <2>17, <2>19, <3>1
    <3>3. ChildrenBefore(next, prefix, stayed, folders)
      BY <2>13, <2>19 DEF ChildrenBefore
    <3>4. ASSUME NEW t \in tokens
          PROVE  /\ t[1] \in folders /\ t[2] \in Nat \ {0}
                 /\ \A i \in DOMAIN pending : pending[i] = t[1] => i = 1 /\ t[2] <= next
      <4>1. CASE t = <<prefix, next>>
        <5>1. t[1] = prefix /\ t[2] = next
          BY <4>1
        <5>2. \A i \in DOMAIN pending : pending[i] = prefix => i = 1
          BY <2>8, <2>10
        <5>3. prefix \in folders /\ next \in Nat /\ next <= next
          BY <1>3, <1>4 DEF next
        <5> HIDE DEF folders, pending
        <5> QED BY <2>19, <5>1, <5>2, <5>3
      <4>2. CASE t \in view.tokens
        <5>1. /\ t[1] \in view.folders /\ t[2] \in Nat \ {0}
              /\ \A i \in DOMAIN view.pending : view.pending[i] = t[1] => i = 1 /\ t[2] <= view.start
          BY <1>1, <4>2 DEF Walking
        <5>2. next \in Nat /\ next > view.start
          BY <1>4, <2>19 DEF next
        <5>3. ASSUME NEW i \in DOMAIN pending, pending[i] = t[1]
              PROVE  i = 1 /\ t[2] <= next
          <6>1. i \in DOMAIN view.pending /\ pending[i] = view.pending[i]
            BY <2>7, <2>8, <5>1, <5>3
          <6>2. i = 1 /\ t[2] <= view.start
            BY <5>1, <5>3, <6>1
          <6> QED BY <1>2, <5>1, <5>2, <6>2
        <5> QED BY <5>1, <5>3
      <4> QED BY <3>1, <4>1, <4>2
    <3>5. Walking(w, stayed)
      <4> HIDE DEF w, folders, pending, left, tokens
      <4>1. w.pending = pending /\ w.folders = folders /\ w.start = next /\ w.tokens = tokens
        BY <2>3, <3>1
      <4>2. next \in Nat
        BY <1>4 DEF next
      <4>3. ChildrenBefore(next, pending[1], stayed, folders)
        BY <2>10, <3>3
      <4> QED BY <2>8, <2>11, <2>19, <3>4, <4>1, <4>2, <4>3 DEF Walking
    <3> QED BY <2>15, <3>2, <3>5
  <2>20. CASE Cardinality(folders) < MaxFolders /\ next = 0
    <3>1. left = Tail(pending) /\ tokens = view.tokens
      BY <2>20
    <3>2. /\ left \in Seq(folders)
          /\ \A i, j \in DOMAIN left : left[i] = left[j] => i = j
          /\ \A i \in DOMAIN left : \E j \in DOMAIN pending : j # 1 /\ left[i] = pending[j]
          /\ \A i \in DOMAIN pending : i # 1 => \E j \in DOMAIN left : left[j] = pending[i]
      <4> HIDE DEF pending, folders, left
      <4>1. /\ pending \in Seq(folders) /\ pending # <<>>
            /\ \A i, j \in DOMAIN pending : pending[i] = pending[j] => i = j
        BY <2>8
      <4> QED BY <4>1, <3>1, TailOf
    <3>3. ChildrenIn(prefix, stayed, folders)
      BY <2>13, <2>20 DEF ChildrenIn
    <3>4. ASSUME NEW f \in folders, \A i \in DOMAIN left : left[i] # f
          PROVE  ChildrenIn(f, stayed, folders)
      <4>1. CASE f = prefix
        BY <3>3, <4>1
      <4>2. CASE f # prefix
        <5>1. \A i \in DOMAIN pending : pending[i] # f
          <6> SUFFICES ASSUME NEW i \in DOMAIN pending, pending[i] = f PROVE FALSE
            OBVIOUS
          <6>1. i # 1
            BY <2>10, <4>2
          <6>2. \E j \in DOMAIN left : left[j] = pending[i]
            BY <3>2, <6>1
          <6> QED BY <3>4, <6>2
        <5> QED BY <2>11, <5>1
      <4> QED BY <4>1, <4>2
    <3>5. CASE left = <<>>
      <4>1. view' = ListingFiles(e)
        <5> HIDE DEF folders, left, e, w
        <5> QED BY <2>16, <3>5
      <4>2. DOMAIN left = {}
        <5> HIDE DEF left
        <5> QED BY <3>5
      <4>3. \A f \in folders : ChildrenIn(f, stayed, folders)
        BY <3>4, <4>2
      <4>4. FoldersWhole(e, stayed)
        <5> HIDE DEF folders, e
        <5> QED BY <2>3, <4>3 DEF FoldersWhole
      <4> QED BY <2>14, <4>1, <4>4
    <3>6. CASE left # <<>>
      <4>1. view' = w
        <5> HIDE DEF folders, w, e, left
        <5> QED BY <2>16, <2>17, <2>20, <3>6
      <4>2. \A i \in DOMAIN Names : ~(i < 0)
        BY NamesArePaths
      <4>3. ChildrenBefore(0, left[1], stayed, folders)
        BY <4>2 DEF ChildrenBefore
      <4>4. ASSUME NEW t \in tokens
            PROVE  /\ t[1] \in folders /\ t[2] \in Nat \ {0}
                   /\ \A i \in DOMAIN left : left[i] = t[1] => i = 1 /\ t[2] <= 0
        <5>1. /\ t[1] \in view.folders /\ t[2] \in Nat \ {0}
              /\ \A i \in DOMAIN view.pending : view.pending[i] = t[1] => i = 1 /\ t[2] <= view.start
          BY <1>1, <3>1 DEF Walking
        <5>2. ASSUME NEW i \in DOMAIN left, left[i] = t[1]
              PROVE  FALSE
          <6>1. PICK j \in DOMAIN pending : j # 1 /\ left[i] = pending[j]
            BY <3>2
          <6>2. j \in DOMAIN view.pending /\ pending[j] = view.pending[j]
            BY <2>7, <2>8, <5>1, <5>2, <6>1
          <6> QED BY <5>1, <5>2, <6>1, <6>2
        <5> QED BY <5>1, <5>2
      <4>5. Walking(w, stayed)
        <5> HIDE DEF w, folders, left, tokens
        <5>1. w.pending = left /\ w.folders = folders /\ w.start = 0 /\ w.tokens = tokens
          BY <2>3, <2>20
        <5> QED BY <2>20, <3>2, <3>4, <3>6, <4>3, <4>4, <5>1 DEF Walking
      <4> QED BY <2>15, <4>1, <4>5
    <3> QED BY <3>5, <3>6
  <2> QED BY <2>18, <2>19, <2>20
<1> QED BY <1>6, <1>8

-----------------------------------------------------------------------------
\* The listing of the files fails, and shows none.
LEMMA FilesFailHolds ==
  ASSUME LakeInv, view.at = "files", NEW error, error # "none", error # "repeated", FilesFail(error),
         bucket' = bucket, stayed' = stayed
  PROVE  LakeInv'
<1> DEFINE w == [view EXCEPT !.filesError = error, !.files = {}]
<1>1. /\ bucket \subseteq Objects /\ stayed \subseteq bucket /\ Sound(view) /\ FoldersWhole(view, stayed)
      /\ view' = Answered(w)
  BY DEF LakeInv, LakeOf, Walked, FilesFail
<1>2. /\ DOMAIN w = ViewFields /\ w.folders = view.folders /\ w.foldersError = view.foldersError
      /\ w.filesError = error /\ w.folder = view.folder
  BY <1>1 DEF Sound, ViewFields
<1> HIDE DEF w
<1>3. Sound(w) /\ FoldersWhole(w, stayed) /\ FilesWhole(w, stayed)
  BY <1>1, <1>2 DEF Sound, FoldersWhole, FilesWhole
<1>4. LakeOf(Answered(w), bucket, stayed)
  BY <1>1, <1>3, AnswerHolds
<1>5. LakeOf(view', bucket', stayed')
  BY <1>1, <1>4
<1> QED BY <1>5 DEF LakeInv

\* A page of the files, and perhaps the whole list with it.
LEMMA FilePageHolds ==
  ASSUME LakeInv, FilePage
  PROVE  LakeInv'
<1> DEFINE prefix == Target(view.folder)
           listed == PageOf(prefix, view.start)
           found == view.files \cup FilesOf(listed)
<1>1. /\ bucket \subseteq Objects /\ stayed \subseteq bucket /\ Sound(view) /\ view.at = "files"
      /\ ReadingFiles(view, stayed) /\ FoldersWhole(view, stayed) /\ bucket' = bucket /\ stayed' = stayed
  BY DEF LakeInv, LakeOf, Walked, FilePage
<1>2. /\ prefix \in Path /\ view.start \in Nat /\ \A k \in view.tokens : k \in Nat \ {0} /\ k <= view.start
      /\ FilesBefore(view.start, prefix, stayed, view.files) /\ DOMAIN view = ViewFields
  BY <1>1, NamesArePaths DEF ReadingFiles, Sound, Target
<1> HIDE DEF prefix
<1>3. /\ listed.next \in Nat /\ (listed.next # 0 => listed.next > view.start)
      /\ \A i \in DOMAIN Names :
               /\ Names[i] \in bucket /\ Under(Names[i], prefix) /\ i >= view.start
               /\ listed.next = 0 \/ i < listed.next
               => /\ Deeper(Names[i], prefix) => Entry(Names[i], prefix) \in listed.prefixes
                  /\ ~Deeper(Names[i], prefix) => Names[i] \in listed.objects
  <2> HIDE DEF listed
  <2>1. listed = PageOf(prefix, view.start)
    BY DEF listed
  <2>2. bucket \subseteq Objects /\ prefix \in Path /\ view.start \in Nat
    BY <1>1, <1>2
  <2> QED BY ONLY <2>1, <2>2, PageLists
<1> HIDE DEF listed
<1>4. ASSUME NEW i \in DOMAIN Names, listed.next = 0 \/ i < listed.next, Names[i] \in stayed,
             Under(Names[i], prefix), ~Deeper(Names[i], prefix), Last(Names[i]) # ""
      PROVE  Names[i] \in found
  <2>1. CASE i < view.start
    BY <1>2, <1>4, <2>1 DEF FilesBefore
  <2>2. CASE ~(i < view.start)
    <3>1. i >= view.start
      BY <2>2, <1>2, NamesArePaths
    <3>2. Names[i] \in listed.objects
      BY <1>1, <1>3, <1>4, <3>1
    <3> QED BY <1>4, <3>2 DEF FilesOf
  <2> QED BY <2>1, <2>2
<1>5. listed.next # 0 => listed.next \notin view.tokens
  <2> SUFFICES ASSUME listed.next # 0, listed.next \in view.tokens PROVE FALSE
    OBVIOUS
  <2>1. listed.next <= view.start /\ listed.next > view.start
    BY <1>2, <1>3
  <2> QED BY <1>2, <1>3, <2>1
<1>6. \/ \E error \in {"page_limit", "too_many", "truncated"} : FilesFail(error)
      \/ listed.next = 0 /\ view' = Answered([view EXCEPT !.files = found])
      \/ listed.next # 0 /\ view' = [view EXCEPT !.pages = @ + 1, !.files = found, !.start = listed.next,
                                               !.tokens = @ \cup {listed.next}]
  BY <1>5 DEF FilePage, listed, prefix
<1>7. CASE \E error \in {"page_limit", "too_many", "truncated"} : FilesFail(error)
  BY <1>1, <1>7, FilesFailHolds
<1>8. CASE listed.next = 0 /\ view' = Answered([view EXCEPT !.files = found])
  <2> DEFINE w == [view EXCEPT !.files = found]
  <2>1. /\ DOMAIN w = ViewFields /\ w.tab = view.tab /\ w.folders = view.folders
        /\ w.foldersError = view.foldersError /\ w.filesError = view.filesError /\ w.folder = view.folder
        /\ w.files = found
    <3> HIDE DEF found
    <3> QED BY <1>2 DEF ViewFields
  <2>2. view' = Answered(w)
    BY <1>8
  <2> HIDE DEF w, found
  <2>3. Sound(w) /\ FoldersWhole(w, stayed)
    BY <1>1, <2>1 DEF Sound, FoldersWhole
  <2>4. FilesWhole(w, stayed)
    BY <1>4, <1>8, <2>1 DEF FilesWhole, prefix
  <2>5. LakeOf(Answered(w), bucket, stayed)
    BY <1>1, <2>3, <2>4, AnswerHolds
  <2>6. LakeOf(view', bucket', stayed')
    BY <1>1, <2>2, <2>5
  <2> QED BY <2>6 DEF LakeInv
<1>9. CASE listed.next # 0 /\ view' = [view EXCEPT !.pages = @ + 1, !.files = found, !.start = listed.next,
                                                 !.tokens = @ \cup {listed.next}]
  <2>1. /\ DOMAIN view' = ViewFields /\ view'.at = view.at /\ view'.folders = view.folders
        /\ view'.foldersError = view.foldersError /\ view'.filesError = view.filesError
        /\ view'.folder = view.folder /\ view'.files = found /\ view'.start = listed.next
        /\ view'.tokens = view.tokens \cup {listed.next}
    <3> HIDE DEF found
    <3> QED BY <1>2, <1>9 DEF ViewFields
  <2> HIDE DEF found
  <2>2. Sound(view') /\ Uploading(view') /\ FoldersWhole(view', stayed)
    BY <1>1, <2>1 DEF Sound, Uploading, FoldersWhole
  <2>3. \A k \in view'.tokens : k \in Nat \ {0} /\ k <= listed.next
    <3> SUFFICES ASSUME NEW k \in view.tokens \cup {listed.next} PROVE k \in Nat \ {0} /\ k <= listed.next
      BY <2>1
    <3>1. CASE k = listed.next
      BY <1>3, <1>9, <3>1
    <3>2. CASE k \in view.tokens
      <4>1. k \in Nat \ {0} /\ k <= view.start /\ listed.next > view.start
        BY <1>2, <1>3, <1>9, <3>2
      <4> QED BY <1>2, <1>3, <4>1
    <3> QED BY <3>1, <3>2
  <2>4. FilesBefore(listed.next, prefix, stayed, found)
    BY <1>4 DEF FilesBefore
  <2>5. ReadingFiles(view', stayed)
    BY <1>3, <2>1, <2>3, <2>4 DEF ReadingFiles, prefix
  <2>6. LakeOf(view', bucket', stayed')
    BY <1>1, <2>1, <2>2, <2>5 DEF LakeOf, Walked
  <2> QED BY <2>6 DEF LakeInv
<1> QED BY <1>6, <1>7, <1>8, <1>9

LEMMA CallFailsHolds ==
  ASSUME LakeInv, CallFails
  PROVE  LakeInv'
<1>1. bucket' = bucket /\ stayed' = stayed /\ stayed \subseteq bucket
  BY DEF CallFails, LakeInv, LakeOf
<1>2. CASE view.at \in {"make", "put", "head"} /\ view' = Listing([view EXCEPT !.upload = "failed"])
  <2>1. LakeOf(Listing([view EXCEPT !.upload = "failed"]), bucket, stayed)
    BY <1>1, <1>2, UploadEnds
  <2>2. LakeOf(view', bucket', stayed')
    BY <1>1, <1>2, <2>1
  <2> QED BY <2>2 DEF LakeInv
<1>3. CASE view.at = "folders" /\ FoldersFail("call")
  BY <1>1, <1>3, FoldersFailHolds
<1>4. CASE view.at = "files" /\ FilesFail("call")
  BY <1>1, <1>4, FilesFailHolds
<1> QED BY <1>2, <1>3, <1>4 DEF CallFails

\* What others do to the bucket can only make fewer names stay.
LEMMA FewerStay ==
  ASSUME NEW v, NEW b, NEW s, LakeOf(v, b, s), v.at # "answered", NEW w, NEW c, NEW r,
         c \subseteq Objects, r \subseteq c, r \subseteq s, NEW touched, w = [v EXCEPT !.touched = touched]
  PROVE  LakeOf(w, c, r)
<1>1. Sound(v) /\ Uploading(v) /\ Walked(v, s) /\ DOMAIN v = ViewFields
  BY DEF LakeOf, Sound
<1>2. /\ DOMAIN w = ViewFields /\ w.at = v.at /\ w.tab = v.tab /\ w.folder = v.folder /\ w.made = v.made
      /\ w.file = v.file /\ w.folders = v.folders /\ w.foldersError = v.foldersError /\ w.files = v.files
      /\ w.filesError = v.filesError /\ w.pending = v.pending /\ w.start = v.start /\ w.tokens = v.tokens
  BY <1>1 DEF ViewFields
<1>3. Sound(w)
  BY <1>1, <1>2 DEF Sound
<1>4. Uploading(w)
  BY <1>1, <1>2 DEF Uploading
<1>5. \A f, known : ChildrenIn(f, s, known) => ChildrenIn(f, r, known)
  BY DEF ChildrenIn
<1>6. \A below, f, known : ChildrenBefore(below, f, s, known) => ChildrenBefore(below, f, r, known)
  BY DEF ChildrenBefore
<1>7. \A below, f, known : FilesBefore(below, f, s, known) => FilesBefore(below, f, r, known)
  BY DEF FilesBefore
<1>8. w.at = "folders" => Walking(w, r)
  BY <1>1, <1>2, <1>5, <1>6 DEF Walked, Walking
<1>9. w.at = "files" => FoldersWhole(w, r) /\ ReadingFiles(w, r)
  BY <1>1, <1>2, <1>5, <1>7 DEF Walked, FoldersWhole, ReadingFiles
<1> QED BY <1>2, <1>3, <1>4, <1>8, <1>9 DEF LakeOf, Walked

LEMMA OtherChangesHolds ==
  ASSUME LakeInv, NEW name \in Objects, OtherChanges(name)
  PROVE  LakeInv'
<1> DEFINE touched == view.touched \/ (view.at = "head" /\ name = Append(view.folder, view.file))
<1>1. /\ view.at # "answered" /\ view' = [view EXCEPT !.touched = touched]
      /\ \/ bucket' = bucket \cup {name} /\ stayed' = stayed
         \/ bucket' = bucket \ {name} /\ stayed' = stayed \ {name}
  BY DEF OtherChanges
<1>2. LakeOf(view, bucket, stayed) /\ bucket \subseteq Objects /\ stayed \subseteq bucket
  BY DEF LakeInv, LakeOf
<1>3. bucket' \subseteq Objects /\ stayed' \subseteq bucket' /\ stayed' \subseteq stayed
  BY <1>1, <1>2
<1> HIDE DEF touched
<1>4. LakeOf(view', bucket', stayed')
  BY <1>1, <1>2, <1>3, FewerStay
<1> QED BY <1>4 DEF LakeInv

LEMMA LakeStep == LakeInv /\ [LakehouseNext]_lakehouseVars => LakeInv'
<1> SUFFICES ASSUME LakeInv, [LakehouseNext]_lakehouseVars PROVE LakeInv'
  OBVIOUS
<1>1. CASE \E folder \in Folders : \E populated \in BOOLEAN : OpenLoad(folder, populated)
  BY <1>1, OpenLoadHolds
<1>2. CASE \E folder \in Folders : \E name \in Objects : OpenUploads(folder, name)
  BY <1>2, OpenUploadsHolds
<1>3. CASE \E name \in Objects : OtherChanges(name)
  BY <1>3, OtherChangesHolds
<1>4. CASE MakeFolder
  BY <1>4, MakeFolderHolds
<1>5. CASE PutObject
  BY <1>5, PutObjectHolds
<1>6. CASE HeadObject
  BY <1>6, HeadObjectHolds
<1>7. CASE FolderPage
  BY <1>7, FolderPageHolds
<1>8. CASE FilePage
  BY <1>8, FilePageHolds
<1>9. CASE CallFails
  BY <1>9, CallFailsHolds
<1>10. CASE UNCHANGED lakehouseVars
  <2>1. view' = view /\ bucket' = bucket /\ stayed' = stayed
    BY <1>10 DEF lakehouseVars
  <2>2. LakeOf(view', bucket', stayed')
    BY <2>1 DEF LakeInv
  <2> QED BY <2>2 DEF LakeInv
<1> QED BY <1>1, <1>2, <1>3, <1>4, <1>5, <1>6, <1>7, <1>8, <1>9, <1>10 DEF LakehouseNext

\* Unless it shows an error the list of files to load from is whole, the tree of
\* folders as well up to its limit, and no page token is taken for a repeated
\* one: heatwave_external_table_page with list_object_storage_folders and
\* list_object_storage_files, whatever others do to the bucket meanwhile.
THEOREM ListingsAreComplete == LakehouseSpec => []ListingsComplete
<1>1. LakehouseInit => LakeInv
  BY LakeInit
<1>2. LakeInv /\ [LakehouseNext]_lakehouseVars => LakeInv'
  BY LakeStep
<1>3. LakeInv => ListingsComplete
  BY LakeIsComplete
<1> QED BY <1>1, <1>2, <1>3, PTL DEF LakehouseSpec
=============================================================================
