------------------------------ MODULE CimaLexer ------------------------------
(***************************************************************************)
(* lexer.c: where the token that follows a position of a text begins and   *)
(* ends.  A text is a sequence of characters; a position is l->pos + 1.    *)
(* A token is what format_str sees of it: its kind, up to those that are   *)
(* treated alike, and the characters of its val, from .. to - 1.           *)
(***************************************************************************)
EXTENDS Integers, Sequences, FiniteSetsExt

LBrace == "{"
RBrace == "}"
Quote == "\""

\* isblank or iscntrl
Blank == {" ", "\n"}
Digits == {"1"}
NumberStarts == Digits \cup {"."}
Signs == {"+", "-"}
Exponents == {"e", "E"}

\* is_special_symb, is_binop_symb: what ends a name
Special == {"(", ")", "[", "]", LBrace, RBrace, ",", ".", ":", ";", Quote, "'"}
BinopSymbs == {"+", "-", "*", "/", "%", "^", "=", ">", "<"}

\* What may stand in a name: !, &, |, @, # and ~ too.
Named == {"a", "e", "E", "1", "!", "&", "|", "@", "#", "~", "\\", "$"}
Chars == Blank \cup Special \cup BinopSymbs \cup Named

TokenKinds == {"word",      \* a name, a keyword or a number
               "quoted",    \* a string or a character
               "op", "LBRACE", "RBRACE", "EOF"}

\* pos is where the lexer stands after the token, skipped what it passed before.
Token(k, from, to, pos) == [kind |-> k, from |-> from, to |-> to, pos |-> pos]

\* The positions of the characters in C, and the first position from p on that is
\* past the end or one of stops.
Where(s, C) == {i \in DOMAIN s : s[i] \in C}
Until(s, p, stops) ==
  IF p > Len(s) THEN p ELSE Min({q \in stops \cup {Len(s) + 1} : q >= p})

\* How many of the characters from position a to b are c.
Count(s, c, a, b) == Cardinality({i \in a..b : s[i] = c})

\* Where a loop ends that goes from position q to step[q], or stays there.
Settle(step, p) ==
  LET end[q \in DOMAIN step] == IF step[q] = q THEN q ELSE end[step[q]] IN end[p]

-----------------------------------------------------------------------------
(* Names, numbers, strings and characters *)

\* lexer_get_name
Name(s, p) ==
  LET q == Until(s, p, Where(s, Blank \cup Special \cup BinopSymbs))
  IN  Token("word", p, q, q)

\* Where the characters of a number end; a sign is one of them after an exponent.
NumberEnd(s, p) ==
  Until(s, p, {q \in p..Len(s) : \/ s[q] \notin Digits \cup Exponents \cup Signs \cup {"."}
                                 \/ s[q] \in Signs /\ s[q - 1] \notin Exponents})

\* lexer_get_number: a sign that ends the number is left for the next token.
Number(s, p) ==
  LET q == NumberEnd(s, p)
      to == IF s[q - 1] \in Signs THEN q - 1 ELSE q
  IN  Token("word", p, to, to)

\* The end of the braces that are opened at p, where every { behind that one has
\* had its }.  What stands behind the text is read, but the loop ends there
\* whatever it is.
Skips(s, p, q) == Count(s, LBrace, p + 1, q) - Count(s, RBrace, p, q - 1)
BraceEnd(s, p) == Until(s, p, {q \in p..Len(s) : s[q] = RBrace /\ Skips(s, p, q) = 0})

\* lexer_get_str, lexer_get_char: up to the closing quote.  A brace that is
\* escaped opens a field all the same.
QuoteEnd(s, p, quote) ==
  LET step == [q \in p..(Len(s) + 2) |->
        IF q > Len(s) \/ s[q] = quote THEN q
        ELSE LET c == IF s[q] = "\\" THEN q + 1 ELSE q
                 field == quote = Quote /\ c <= Len(s) /\ s[c] = LBrace
             IN  1 + (IF field THEN BraceEnd(s, c) ELSE c)]
  IN  Settle(step, p)

Quoted(s, p) ==
  LET q == QuoteEnd(s, p + 1, s[p]) IN Token("quoted", p + 1, q, q + 1)

\* Mutant: a character is taken past the end
LiteralTakes(s, p) ==
  CASE p > Len(s)                           -> Token("word", p, p + 1, p + 1)
    [] p <= Len(s) /\ s[p] \in NumberStarts -> Number(s, p)
    [] p <= Len(s) /\ s[p] \in {Quote, "'"} -> Quoted(s, p)
    [] OTHER                                -> Name(s, p)

\* get_lit_token.  Past the end it reads what is there and takes nothing of it.
Literal(s, p) ==
  CASE p > Len(s)                           -> Token("word", p, p, p)
    [] p <= Len(s) /\ s[p] \in NumberStarts -> Number(s, p)
    [] p <= Len(s) /\ s[p] \in {Quote, "'"} -> Quoted(s, p)
    [] OTHER                                -> Name(s, p)

-----------------------------------------------------------------------------
(* Operators, comments and lexer_next *)

\* get_plus_token .. get_or_token: the operators of two characters
Pairs == {<<c, c>> : c \in {"+", "-", "=", ".", "&", "|"}} \cup
         {<<c, "=">> : c \in {"!", ">", "<"}} \cup {<<"=", ">">>}
Pair(s, p) == p < Len(s) /\ <<s[p], s[p + 1]>> \in Pairs

\* Mutant: a special symbol that get_token does not know
WidthNoComma(s, p) ==
  CASE Pair(s, p) -> 2
    [] ~Pair(s, p) /\ s[p] \in (Special \ {Quote, "'", ","}) \cup BinopSymbs
                               \cup {"!", "&", "|", "@"} -> 1
    [] OTHER -> 0

\* The characters get_token and its siblings take at p, none if they know it not,
\* and those of them that the token counts: get_gt_token does not count its =.
Width(s, p) ==
  CASE Pair(s, p) /\ s[p] = "." /\ Pair(s, p + 1) -> 3
    [] Pair(s, p) /\ ~(s[p] = "." /\ Pair(s, p + 1)) -> 2
    [] ~Pair(s, p) /\ s[p] \in (Special \ {Quote, "'"}) \cup BinopSymbs
                               \cup {"!", "&", "|", "@"} -> 1
    [] OTHER -> 0
Counted(s, p) == IF s[p] = ">" THEN 1 ELSE Width(s, p)

Operator(s, p) ==
  Token(CASE s[p] = LBrace -> "LBRACE" [] s[p] = RBrace -> "RBRACE" [] OTHER -> "op",
        p, p + Counted(s, p), p + Width(s, p))

\* skip_comment, skip_multi_line_comment: where the comment at p ends.  One of
\* several lines ends with the first ~, whether a # follows or not.
CommentEnd(s, p) ==
  LET tilde == Until(s, p + 2, Where(s, {"~"}))
  IN  CASE p = Len(s) \/ s[p + 1] # "~" -> Until(s, p + 1, Where(s, {"\n"}))
        [] p < Len(s) /\ s[p + 1] = "~" ->
             IF tilde > Len(s) THEN tilde
             ELSE IF tilde < Len(s) /\ s[tilde + 1] = "#" THEN tilde + 2 ELSE tilde + 1

\* Where the comments end that follow each other from p on.
CommentsEnd(s, p) ==
  LET step == [q \in p..(Len(s) + 1) |->
                 IF q <= Len(s) /\ s[q] = "#" THEN CommentEnd(s, q) ELSE q]
  IN  Settle(step, p)

\* A token of no characters is looked for a second time where it ends, as a literal:
\* after a comment that is a string or character without characters.
OrLiteral(s, t) ==
  IF t.from = t.to /\ t.kind # "EOF" THEN Literal(s, t.pos) ELSE t

\* lexer_next: the token from p on, with what skip_whitespaces has skipped.
Next(s, p) ==
  LET next[q \in p..(Len(s) + 3)] ==
        LET b == Until(s, q, Where(s, Chars \ Blank))
            after == next[CommentsEnd(s, b)]
            skipped(t) == [tok |-> t, skipFrom |-> q, skipTo |-> b]
        IN  CASE b > Len(s) -> skipped(Token("EOF", b, b, b))
              [] b <= Len(s) /\ s[b] = "#" -> [after EXCEPT !.tok = OrLiteral(s, @)]
              [] OTHER -> skipped(OrLiteral(s, Operator(s, b)))
  IN  next[p]
=============================================================================
