------------------------------ MODULE CimaFormat ------------------------------
(***************************************************************************)
(* format_str of type.c: the text of print, println and format is put      *)
(* together from the tokens of the format string, read by the lexer of the *)
(* language, with values for what stands in braces.  What an expression in *)
(* braces takes is any balanced run of tokens (CimaParser's Balanced).     *)
(***************************************************************************)
EXTENDS CimaLexer, FiniteSets

CONSTANTS
  Vocabularies,  \* sets of characters; a format string is written with one of them
  MaxText,       \* bound: its characters
  MaxArgs        \* bound: va_args->count

ASSUME VocabulariesAssumption == Vocabularies \subseteq SUBSET Chars
ASSUME BoundsAssumption == MaxText \in Nat /\ MaxArgs \in Nat

VARIABLES
  text,    \* fmt_sv
  count,   \* va_args->count
  l,       \* the lexer: its current token and what it skipped before
  pc,      \* where format_str stands
  depth,   \* the braces open in the expression that is parsed
  brace,   \* where the braces of the current field begin
  used,    \* va_arg_pos
  out      \* sb: the pieces of the result

vars == <<text, count, l, pc, depth, brace, used, out>>

Ends == {"done", "error"}
Places == {"loop", "field", "expr"} \cup Ends

\* A piece of the result: what it is, and the position it comes from.
Char(i) == [what |-> "char", arg |-> 0, at |-> i]
Arg(n, i) == [what |-> "arg", arg |-> n, at |-> i]
Value(i) == [what |-> "value", arg |-> 0, at |-> i]

Pieces == [what : {"char", "arg", "value"}, arg : 0..MaxArgs, at : 1..(MaxText + 1)]
Positions == 1..(MaxText + 3)
TokensOfText == [kind : TokenKinds, from : Positions, to : Positions, pos : Positions]

TypeOK ==
  /\ text \in Seq(Chars) /\ Len(text) <= MaxText
  /\ count \in 0..MaxArgs /\ used \in 0..count
  /\ l \in [tok : TokensOfText, skipFrom : Positions, skipTo : Positions]
  /\ l.tok.from <= l.tok.to /\ l.tok.to <= l.tok.pos
  /\ pc \in Places
  /\ depth \in 0..MaxText /\ brace \in 0..MaxText
  /\ out \in Seq(Pieces)

-----------------------------------------------------------------------------
Kind == l.tok.kind

\* sb_unicode_append_sv
Copy(from, to) == [i \in 1..(to - from) |-> Char(from + i - 1)]
Skipped == Copy(l.skipFrom, l.skipTo)

\* lexer_next
Advance == l' = Next(text, l.tok.pos)

\* Mutant: what was skipped is appended behind the token
TakeTokenFirst ==
  /\ pc = "loop" /\ Kind \notin {"EOF", "LBRACE"}
  /\ out' = out \o Copy(l.tok.from, l.tok.to) \o Skipped
  /\ Advance
  /\ UNCHANGED <<text, count, pc, depth, brace, used>>

TakeToken ==
  /\ pc = "loop" /\ Kind \notin {"EOF", "LBRACE"}
  /\ out' = out \o Skipped \o Copy(l.tok.from, l.tok.to)
  /\ Advance
  /\ UNCHANGED <<text, count, pc, depth, brace, used>>

OpenField ==
  /\ pc = "loop" /\ Kind = "LBRACE"
  /\ out' = out \o Skipped
  /\ brace' = l.tok.from
  /\ Advance
  /\ pc' = "field"
  /\ UNCHANGED <<text, count, depth, used>>

\* append_error and a return; to_str, parse and execute_expr may fail too.
Fail ==
  /\ pc' = "error"
  /\ UNCHANGED <<text, count, l, depth, brace, used, out>>

\* Mutant: va_arg_pos is not compared with the count
FillFieldAny ==
  /\ pc = "field" /\ Kind = "RBRACE"
  /\ out' = Append(out, Arg(used + 1, brace))
  /\ used' = used + 1
  /\ Advance
  /\ pc' = "loop"
  /\ UNCHANGED <<text, count, depth, brace>>

\* An empty field takes the next argument.
FillField ==
  /\ pc = "field" /\ Kind = "RBRACE"
  /\ \/ Fail
     \/ /\ used < count
        /\ out' = Append(out, Arg(used + 1, brace))
        /\ used' = used + 1
        /\ Advance
        /\ pc' = "loop"
        /\ UNCHANGED <<text, count, depth, brace>>

\* parse takes a token of the expression, at least one.
ParseToken ==
  /\ pc = "expr" \/ (pc = "field" /\ Kind # "RBRACE")
  /\ Kind # "EOF" /\ (Kind = "RBRACE" => depth > 0)
  /\ depth' = CASE Kind = "LBRACE" -> depth + 1
                [] Kind = "RBRACE" -> depth - 1
                [] OTHER -> depth
  /\ Advance
  /\ pc' = "expr"
  /\ UNCHANGED <<text, count, brace, used, out>>

\* The expression is wrong, it fails, or no brace follows it.
FailExpr == pc \in {"field", "expr"} /\ Kind # "RBRACE" /\ Fail
FailValue == pc = "expr" /\ Kind = "RBRACE" /\ depth = 0 /\ Fail

FillExpr ==
  /\ pc = "expr" /\ depth = 0 /\ Kind = "RBRACE"
  /\ out' = Append(out, Value(brace))
  /\ Advance
  /\ pc' = "loop"
  /\ UNCHANGED <<text, count, depth, brace, used>>

\* Mutant: arguments that are left over are ignored
FinishEarly ==
  /\ pc = "loop" /\ Kind = "EOF"
  /\ out' = out \o Skipped /\ pc' = "done"
  /\ UNCHANGED <<text, count, l, depth, brace, used>>

Finish ==
  /\ pc = "loop" /\ Kind = "EOF"
  /\ \/ used # count /\ Fail
     \/ /\ used = count
        /\ out' = out \o Skipped /\ pc' = "done"
        /\ UNCHANGED <<text, count, l, depth, brace, used>>

-----------------------------------------------------------------------------
Texts(chars) == UNION {[1..n -> chars] : n \in 0..MaxText}

\* format_func has a string and an array, which may be empty, never NULL.
Init ==
  /\ text \in UNION {Texts(chars) : chars \in Vocabularies}
  /\ count \in 0..MaxArgs
  /\ l = Next(text, 1)
  /\ pc = "loop"
  /\ depth = 0 /\ brace = 0 /\ used = 0
  /\ out = <<>>

Step ==
  \/ TakeToken \/ OpenField \/ FillField \/ ParseToken \/ FailExpr \/ FailValue
  \/ FillExpr \/ Finish

Spec == Init /\ [][Step]_vars
-----------------------------------------------------------------------------
(* Properties *)

\* The braces open behind the first i characters of the text.
OpenBraces ==
  LET open[i \in 0..Len(text)] ==
        CASE i > 0 /\ text[i] = LBrace -> open[i - 1] + 1
          [] i > 0 /\ text[i] = RBrace -> IF open[i - 1] = 0 THEN 0 ELSE open[i - 1] - 1
          [] i > 0 /\ text[i] \notin {LBrace, RBrace} -> open[i - 1]
          [] OTHER -> 0
  IN  open

\* What the lexer does not yield as it stands: quotes, comments and >=.
Plain ==
  \A i \in DOMAIN text :
    /\ text[i] \notin {Quote, "'", "#"}
    /\ text[i] = ">" => i = Len(text) \/ text[i + 1] # "="

\* A format string without quotes, # and >= is rendered as it is: every character
\* outside braces once and in its place, white space included, and one value for
\* each pair of braces.  format_str, which has tokens and not characters.
TextKept ==
  pc = "done" /\ Plain =>
    /\ \A i, j \in DOMAIN out : i < j => out[i].at < out[j].at
    /\ {out[i].at : i \in DOMAIN out} = {i \in DOMAIN text : OpenBraces[i - 1] = 0}
    /\ \A i \in DOMAIN out : out[i].what = "char" <=> text[out[i].at] # LBrace

\* Whatever the text, format_str succeeds only if it has put every argument in
\* exactly once, in order: println("{}", a, b) is an error and never loses b.
ArgsOnce ==
  pc = "done" =>
    LET args == {i \in DOMAIN out : out[i].what = "arg"}
    IN  /\ {out[i].arg : i \in args} = 1..count
        /\ \A i, j \in args : i < j => out[i].arg < out[j].arg

\* The lexer reads a token from beyond the text only for a string that is never
\* closed: behind its last \, or behind a brace that nothing closes.
Tally(c, from) == Count(text, c, from, Len(text))
InBounds ==
  l.tok.to > Len(text) + 1 /\ l.tok.from < l.tok.to =>
    /\ l.tok.kind = "quoted"
    /\ \/ text[Len(text)] = "\\"
       \/ \E i \in DOMAIN text : text[i] = LBrace /\ Tally(LBrace, i) > Tally(RBrace, i)

\* Every token before the end moves the lexer on, so that format_str returns: no
\* character is one that no function of the lexer takes, although get_token and
\* is_special_symb list the special ones apart.
Advances ==
  [][pc' \notin Ends => l'.tok.kind = "EOF" \/ l'.tok.pos > l.tok.pos]_vars
===============================================================================
