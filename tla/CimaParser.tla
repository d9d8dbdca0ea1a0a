------------------------------ MODULE CimaParser ------------------------------
(***************************************************************************)
(* The recursive descent of parser.c, one parse_program of main, as a      *)
(* machine with an explicit stack: a frame is a C function that waits for  *)
(* one it has called.  lexer_next yields any token of the vocabulary or    *)
(* the end of the file: the machine reads every text at once.              *)
(*                                                                         *)
(* A node is abstracted to its kind and to how loosely the operators at    *)
(* its two ends bind; whether a literal is well-formed and whether two     *)
(* names are the same is chosen.                                           *)
(***************************************************************************)
EXTENDS Integers, Sequences

CONSTANTS
  Vocabularies,  \* sets of tokens; a program is written with one of them
  MaxStack       \* bound: calls in progress; the code has none but C's stack

\* is_binop, is_unop
BinOps == {"ASSIGN", "ANDAND", "OROR", "AND", "OR", "EQ", "NEQ", "GT", "LT",
           "GTEQ", "LTEQ", "PLUS", "MINUS", "STAR", "SLASH", "PERCENT", "CARET"}
UnOps == {"AND", "PLUSPLUS", "MINUSMINUS", "NOT", "PLUS", "MINUS"}

\* LIT is a number, a string, a character, true or false.
PrimStart == {"LIT", "NAME", "LPAREN", "LBRACK", "LBRACE", "KW_IF", "AT"}
PostfixOps == {"LPAREN", "LBRACK", "DOT", "AS"}
StmtStart == {"KW_LET", "KW_CONST", "KW_FOR", "KW_WHILE", "KW_FOREVER",
              "KW_CONTINUE", "KW_BREAK", "KW_RETURN"}
Openers == {"LPAREN", "LBRACK", "LBRACE"}
Tokens == BinOps \cup UnOps \cup PrimStart \cup
  PostfixOps \cup StmtStart \cup
  {"EOF", "RPAREN", "RBRACK", "RBRACE", "COMMA", "COLON", "SEMICOLON",
   "FAT_ARROW", "ELLIPSIS", "KW_FUNC", "KW_ELIF", "KW_ELSE", "KW_STATIC",
   "KW_STRUCT", "KW_ENUM"}

ASSUME VocabulariesAssumption == Vocabularies \subseteq SUBSET Tokens
ASSUME MaxStackAssumption == MaxStack \in Nat

\* The calls a C function of the parser waits for: of parse_expr, of parse, of
\* parse_block_expr, of parse_type, and of functions for a part of themselves.
ExprPoints == {"unop", "rhs", "paren", "elem", "index", "arg", "argval", "init",
               "initval", "ifcond", "retval", "patinit", "enumval", "letinit"}
StmtPoints == {"program", "node", "forinit", "forcond", "fornext", "whilecond",
               "funcbody"}
BlockPoints == {"ifbody", "else", "forbody"}
TypePoints == {"structtype", "casttype", "eltype", "pattype", "functype",
               "lettype"}
Points == ExprPoints \cup StmtPoints \cup BlockPoints \cup TypePoints \cup
          {"prefix", "param", "field", "member"}

Kinds == {"name", "expr", "jump", "let", "for", "func", "decl", "type", "va"}
Exprs == {"name", "expr"}

\* Where parser.c stands: before a call, at the head of a loop, or past a token
\* that decides what must follow.
Places == {"item", "stmt", "prefix", "postfix", "ops", "block", "type", "nodes",
           "elems", "args", "inits", "eltype", "initializer", "condition",
           "next", "retval", "params", "rettype", "body", "fields", "fieldconst",
           "field", "members", "memberval", "lettype", "letinit", "semicolons",
           "funcname", "funcparen", "structname", "structbrace", "enumname",
           "enumbrace", "letname", "patname", "patcolon", "membername", "initbrace",
           "ret", "fail"}
Ends == {"done",    \* parse_program has returned PERROR_NONE
         "error",   \* it has returned an error, which main prints
         "crash",   \* a NULL or uninitialised pointer was read through
         "deep"}    \* MaxStack is exceeded

Tight == 9          \* binds tighter than every operator

VARIABLES
  vocab,   \* the tokens this program is written with
  cur,     \* l->cur.kind
  pc,      \* what the innermost call does next
  stack,   \* the calls in progress, innermost last
  node,    \* the node returned last
  open,    \* the brackets that lexer_next has passed and none has closed
  took     \* the last step took a token that is not the end of the file

vars == <<vocab, cur, pc, stack, node, open, took>>

Nodes == [kind : Kinds, left : 0..Tight, right : 0..Tight]
Frames == [at : Points, min : 0..Tight, op : Tokens, left : 0..Tight,
           last : Kinds \cup {"none"}, n : 0..2]

TypeOK ==
  /\ vocab \in Vocabularies
  /\ cur \in Tokens
  /\ pc \in Places \cup Ends
  /\ stack \in Seq(Frames) /\ stack # <<>>
  /\ node \in Nodes
  /\ open \in Seq(Openers \cup {"bad"})
  /\ took \in BOOLEAN

-----------------------------------------------------------------------------
(* Precedence *)

Level(t) ==
  CASE t = "ASSIGN" -> 0
    [] t \in {"ANDAND", "OROR"} -> 1
    [] t \in {"AND", "OR"} -> 2
    [] t \in {"EQ", "NEQ", "GT", "LT", "GTEQ", "LTEQ"} -> 3
    [] t \in {"PLUS", "MINUS"} -> 4
    [] t \in {"STAR", "SLASH", "PERCENT"} -> 5
    [] OTHER -> 7                                        \* CARET
RightAssociative == {"ASSIGN", "CARET"}

UnaryLevel(t) == IF t = "AND" THEN 8 ELSE 6

\* get_precedence: what can be a binary operator is looked up as one.
Precedence(t) == IF t \in BinOps THEN Level(t) ELSE UnaryLevel(t)

\* Mutant: operators of one level group to the right
RhsMinSame(t) == Precedence(t)

\* parse_expr, parse_unary_expr: the min_prec of the operand to the right
RhsMin(t) == Precedence(t) + (IF t \in RightAssociative THEN 0 ELSE 1)
UnaryMin(t) == Precedence(t)

Lower(a, b) == IF a < b THEN a ELSE b

-----------------------------------------------------------------------------
(* The lexer and the stack *)

Frame(p) == [at |-> p, min |-> 0, op |-> "EOF", left |-> Tight,
             last |-> "none", n |-> 0]
ExprFrame(m) == [Frame("prefix") EXCEPT !.min = m]
Node(k) == [kind |-> k, left |-> Tight, right |-> Tight]
Plain == Node("expr")

Top == stack[Len(stack)]
Pop == SubSeq(stack, 1, Len(stack) - 1)
Push(p) == Append(stack, Frame(p))
Turn(p) == Append(Pop, Frame(p))
Goto(p) == Append(Pop, [Top EXCEPT !.at = p])
Count(n) == Append(Pop, [Top EXCEPT !.n = n])

At(l) == pc = l
Returned(p) == pc = "ret" /\ Top.at = p

Matching == [LPAREN |-> "RPAREN", LBRACK |-> "RBRACK", LBRACE |-> "RBRACE"]

\* The brackets that are open after token t.
Nest(o, t) ==
  CASE t \in Openers -> Append(o, t)
    [] t \in {"RPAREN", "RBRACK", "RBRACE"} ->
         IF /\ o # <<>> /\ o[Len(o)] \in Openers
            /\ Matching[o[Len(o)]] = t
         THEN SubSeq(o, 1, Len(o) - 1) ELSE <<"bad">>
    [] OTHER -> o

\* lexer_next; the end of the file is yielded for ever.
Consume ==
  /\ cur' \in IF cur = "EOF" THEN {"EOF"} ELSE vocab \cup {"EOF"}
  /\ open' = Nest(open, cur)
  /\ took' = (cur # "EOF")
  /\ UNCHANGED vocab
Keep == UNCHANGED <<vocab, cur, open>> /\ took' = FALSE

\* How a step goes on: at a place of the same call, or in one it calls.
Proceed(l, st) == pc' = l /\ stack' = st /\ node' = Plain
Yield(l, n) == pc' = l /\ node' = n /\ UNCHANGED stack
Expr(st, m) == Proceed("prefix", Append(st, ExprFrame(m)))

\* Mutant: a call without a frame drops the frame of its caller
AnswerPops(n) == pc' = "ret" /\ stack' = Pop /\ node' = n

\* A call returns n: one with a frame of its own, or one without.
Return(n) == pc' = "ret" /\ stack' = Pop /\ node' = n
Answer(n) == pc' = "ret" /\ stack' = stack /\ node' = n
Fail == Proceed("fail", stack) /\ Keep

\* What must follow at a place, and the place after it.
Expected ==
  [funcname    |-> <<"NAME", "funcparen">>,   funcparen   |-> <<"LPAREN", "params">>,
   structname  |-> <<"NAME", "structbrace">>, structbrace |-> <<"LBRACE", "fields">>,
   enumname    |-> <<"NAME", "enumbrace">>,   enumbrace   |-> <<"LBRACE", "members">>,
   letname     |-> <<"NAME", "lettype">>,     initbrace   |-> <<"LBRACE", "inits">>,
   patname     |-> <<"NAME", "patcolon">>,    patcolon    |-> <<"COLON", "type">>,
   membername  |-> <<"NAME", "postfix">>]

Expect ==
  /\ pc \in DOMAIN Expected
  /\ IF cur = Expected[pc][1] THEN Consume /\ Proceed(Expected[pc][2], stack)
                              ELSE Fail

\* A list is left at its closing token, which its end is not.
Closes(t, n) == cur = t /\ Consume /\ Return(n)
Unclosed == cur = "EOF" /\ Fail

\* `if (l->cur.kind == TOKEN_COMMA) lexer_next(l)` at the end of a loop
SkipComma == IF cur = "COMMA" THEN Consume ELSE Keep

-----------------------------------------------------------------------------
(* Expressions *)

\* parse_prefix_expr, parse_unary_expr, parse_prim_expr
Prefix ==
  /\ At("prefix")
  /\ \/ /\ cur \in UnOps /\ Consume
        /\ Expr(Append(stack, [Frame("unop") EXCEPT !.op = cur]), UnaryMin(cur))
     \/ cur = "LIT" /\ Consume /\ Yield("postfix", Plain)
     \/ cur = "LIT" /\ Fail
     \/ cur = "NAME" /\ Consume /\ Yield("postfix", Node("name"))
     \/ cur = "LPAREN" /\ Consume /\ Expr(Push("paren"), 0)
     \/ cur = "LBRACK" /\ Consume /\ Proceed("elems", Push("elem"))
     \/ cur = "LBRACE" /\ Keep /\ Proceed("block", stack)
     \/ cur = "KW_IF" /\ Consume /\ Expr(Push("ifcond"), 0)
     \/ cur = "AT" /\ Consume /\ Proceed("type", Push("structtype"))
     \/ cur \notin UnOps \cup PrimStart /\ Fail

UnopReturned ==
  /\ Returned("unop") /\ Keep
  /\ Return([kind |-> "expr", left |-> Tight,
             right |-> Lower(UnaryMin(Top.op), node.right)])

ParenReturned ==
  /\ Returned("paren")
  /\ \/ Closes("RPAREN", Node(node.kind))
     \/ cur # "RPAREN" /\ Fail

\* parse_arr_expr
Elems ==
  /\ At("elems")
  /\ \/ Closes("RBRACK", Plain)
     \/ Unclosed
     \/ cur \notin {"RBRACK", "EOF"} /\ Keep /\ Expr(stack, 0)

ElemReturned ==
  /\ Returned("elem")
  /\ \/ cur \in {"COMMA", "RBRACK"} /\ SkipComma /\ Proceed("elems", stack)
     \/ cur \notin {"COMMA", "RBRACK"} /\ Fail

\* Mutant: the operand of a unary operator is a primary without what follows it
PostfixLast ==
  /\ At("postfix")
  /\ \/ cur = "LPAREN" /\ Consume /\ Proceed("args", Push("arg"))
     \/ cur = "LBRACK" /\ Consume /\ Expr(Push("index"), 0)
     \/ cur = "AS" /\ Consume /\ Proceed("type", Push("casttype"))
     \/ /\ cur = "DOT" /\ stack[Len(stack) - 1].at # "unop"
        /\ Consume /\ Yield("membername", Plain)
     \/ /\ cur \notin PostfixOps \/ stack[Len(stack) - 1].at = "unop"
        /\ Keep /\ Yield("ops", node)

\* parse_postfix_expr, parse_member_access_expr
Postfix ==
  /\ At("postfix")
  /\ \/ cur = "LPAREN" /\ Consume /\ Proceed("args", Push("arg"))
     \/ cur = "LBRACK" /\ Consume /\ Expr(Push("index"), 0)
     \/ cur = "DOT" /\ Consume /\ Yield("membername", Plain)
     \/ cur = "AS" /\ Consume /\ Proceed("type", Push("casttype"))
     \/ cur \notin PostfixOps /\ Keep /\ Yield("ops", node)

PrefixReturned == Returned("prefix") /\ Keep /\ Yield("postfix", node)

\* Mutant: whatever follows an index is taken for its bracket
IndexUnchecked == Returned("index") /\ Consume /\ Return(Plain)

IndexReturned ==
  /\ Returned("index")
  /\ \/ Closes("RBRACK", Plain)
     \/ cur # "RBRACK" /\ Fail

CastReturned == Returned("casttype") /\ Keep /\ Return(Plain)

\* parse_args, parse_initializers: the same loop up to the bracket that ends it.
\* Two named ones may have the same name, which is found at the end.
List(closing) ==
  \/ Closes(closing, Plain)
  \/ cur = closing /\ Top.n = 2 /\ Fail
  \/ Unclosed
  \/ cur \notin {closing, "EOF"} /\ Keep /\ Expr(stack, 0)

Args == At("args") /\ List("RPAREN")
Inits == At("inits") /\ List("RBRACE")

\* An item of the list is a name that a colon and its value follow, or a value.
ItemOfList(value, loop) ==
  \/ cur = "COLON" /\ node.kind = "name" /\ Consume /\ Expr(Goto(value), 0)
  \/ cur = "COLON" /\ node.kind # "name" /\ Fail
  \/ cur # "COLON" /\ SkipComma /\ Proceed(loop, stack)
ValueOfItem(item, loop) ==
  /\ SkipComma
  /\ Proceed(loop, Append(Pop, [Frame(item) EXCEPT
                                  !.n = IF Top.n = 2 THEN 2 ELSE Top.n + 1]))

ArgReturned == Returned("arg") /\ ItemOfList("argval", "args")
ArgvalReturned == Returned("argval") /\ ValueOfItem("arg", "args")
InitReturned == Returned("init") /\ ItemOfList("initval", "inits")
InitvalReturned == Returned("initval") /\ ValueOfItem("init", "inits")

\* parse_struct_expr
StructtypeReturned ==
  Returned("structtype") /\ Keep /\ Proceed("initbrace", Turn("init"))

\* parse_expr: the loop over the operators that min_prec leaves to this call
Ops ==
  /\ At("ops")
  /\ \/ /\ cur \in BinOps /\ Precedence(cur) >= Top.min /\ Consume
        /\ Expr(Append(Pop, [Top EXCEPT !.at = "rhs", !.op = cur, !.left = node.left]),
                RhsMin(cur))
     \/ ~(cur \in BinOps /\ Precedence(cur) >= Top.min) /\ Keep /\ Return(node)

RhsReturned ==
  /\ Returned("rhs") /\ Keep
  /\ pc' = "ops"
  /\ stack' = Append(Pop, ExprFrame(Top.min))
  /\ node' = [kind |-> "expr", left |-> Lower(Top.left, Precedence(Top.op)),
              right |-> Lower(RhsMin(Top.op), node.right)]

-----------------------------------------------------------------------------
(* Blocks, branches, loops and jumps *)

\* parse_block_expr; ret_expr is the last node if nothing ended it.
Block ==
  /\ At("block")
  /\ \/ cur = "LBRACE" /\ Consume /\ Proceed("nodes", Push("node"))
     \/ cur # "LBRACE" /\ Fail

BlockNodes ==
  /\ At("nodes")
  /\ \/ Closes("RBRACE", Plain)
     \/ Unclosed
     \/ cur \notin {"RBRACE", "EOF"} /\ Keep /\ Proceed("stmt", stack)

\* Mutant: is_stmt forgets loops
NodeKept ==
  /\ Returned("node") /\ Keep
  /\ Proceed("semicolons",
       Append(Pop, [Top EXCEPT !.last =
                      IF cur = "SEMICOLON" \/ node.kind \in {"func", "let"}
                      THEN "none" ELSE node.kind]))

NodeReturned ==
  /\ Returned("node") /\ Keep
  /\ Proceed("semicolons",
       Append(Pop, [Top EXCEPT !.last =
                      IF cur = "SEMICOLON" \/ node.kind \in {"func", "let", "for"}
                      THEN "none" ELSE node.kind]))

\* skip(l, TOKEN_SEMICOLON) in parse_block_expr and in parse_item
Semicolons ==
  /\ At("semicolons")
  /\ \/ cur = "SEMICOLON" /\ Consume /\ Proceed("semicolons", stack)
     \/ /\ cur # "SEMICOLON" /\ Keep
        /\ Proceed(IF Top.at = "program" THEN "item" ELSE "nodes", stack)

\* parse_if_expr, parse_elif_expr, parse_else_expr
IfcondReturned == Returned("ifcond") /\ Keep /\ Proceed("block", Turn("ifbody"))
IfbodyReturned ==
  /\ Returned("ifbody")
  /\ \/ cur = "KW_ELIF" /\ Consume /\ Expr(Turn("ifcond"), 0)
     \/ cur = "KW_ELSE" /\ Consume /\ Proceed("block", Turn("else"))
     \/ cur \notin {"KW_ELIF", "KW_ELSE"} /\ Keep /\ Return(Plain)
ElseReturned == Returned("else") /\ Keep /\ Return(Plain)

\* parse_for_stmt: three parts, the first two ended by a semicolon.  The test
\* before the step is for a bracket, not for the brace of the body.
Initializer ==
  /\ At("initializer")
  /\ \/ cur = "SEMICOLON" /\ Consume /\ Proceed("condition", stack)
     \/ cur # "SEMICOLON" /\ Keep /\ Proceed("stmt", Turn("forinit"))
Condition ==
  /\ At("condition")
  /\ \/ cur = "SEMICOLON" /\ Consume /\ Proceed("next", stack)
     \/ cur # "SEMICOLON" /\ Keep /\ Proceed("stmt", Turn("forcond"))
ForNext ==
  /\ At("next") /\ Keep
  /\ IF cur = "LBRACK" THEN Proceed("block", Turn("forbody"))
                       ELSE Proceed("stmt", Turn("fornext"))

Semicolon(l) ==
  \/ cur = "SEMICOLON" /\ Consume /\ Proceed(l, stack)
  \/ cur # "SEMICOLON" /\ Fail
ForinitReturned == Returned("forinit") /\ Semicolon("condition")
ForcondReturned == Returned("forcond") /\ Semicolon("next")

\* parse_while_stmt joins parse_for_stmt before the body.
HeadReturned ==
  /\ pc = "ret" /\ Top.at \in {"fornext", "whilecond"} /\ Keep
  /\ Proceed("block", Turn("forbody"))
ForbodyReturned == Returned("forbody") /\ Keep /\ Return(Node("for"))

\* parse_return_signal
ReturnValue ==
  /\ At("retval") /\ Keep
  /\ IF cur \in PrimStart \cup UnOps THEN Expr(stack, 0) ELSE Return(Node("jump"))
RetvalReturned == Returned("retval") /\ Keep /\ Return(Node("jump"))

\* parse_let_stmt, for a constant too
LetType ==
  /\ At("lettype")
  /\ \/ cur = "COLON" /\ Consume /\ Proceed("type", Turn("lettype"))
     \/ cur # "COLON" /\ Keep /\ Proceed("letinit", stack)
LettypeReturned == Returned("lettype") /\ Keep /\ Proceed("letinit", stack)
LetInit ==
  /\ At("letinit")
  /\ \/ cur = "ASSIGN" /\ Consume /\ Expr(Turn("letinit"), 0)
     \/ cur # "ASSIGN" /\ Keep /\ Return(Node("let"))
LetinitReturned == Returned("letinit") /\ Keep /\ Return(Node("let"))

\* parse, parse_stmt
Stmt ==
  /\ At("stmt")
  /\ \/ /\ cur \in {"KW_LET", "KW_CONST"} /\ Consume
        /\ Proceed("letname", Push("letinit"))
     \/ cur = "KW_FOR" /\ Consume /\ Proceed("initializer", Push("forinit"))
     \/ cur = "KW_WHILE" /\ Consume /\ Proceed("stmt", Push("whilecond"))
     \/ cur = "KW_FOREVER" /\ Consume /\ Proceed("block", Push("forbody"))
     \/ cur \in {"KW_CONTINUE", "KW_BREAK"} /\ Consume /\ Answer(Node("jump"))
     \/ cur = "KW_RETURN" /\ Consume /\ Proceed("retval", Push("retval"))
     \/ cur \notin StmtStart /\ Keep /\ Expr(stack, 0)

-----------------------------------------------------------------------------
(* Types and patterns *)

\* parse_type: the type of a reference is the type it refers to.
Type ==
  /\ At("type")
  /\ \/ cur = "ELLIPSIS" /\ Consume /\ Answer(Node("va"))
     \/ cur = "NAME" /\ Consume /\ Answer(Node("type"))
     \/ cur = "LBRACK" /\ Consume /\ Proceed("eltype", Push("eltype"))
     \/ cur = "AND" /\ Consume /\ Proceed("type", stack)
     \/ cur \notin {"ELLIPSIS", "NAME", "LBRACK", "AND"} /\ Fail

\* parse_array_type
ElType ==
  /\ At("eltype")
  /\ \/ Closes("RBRACK", Node("type"))
     \/ cur # "RBRACK" /\ Keep /\ Proceed("type", stack)
EltypeReturned ==
  /\ Returned("eltype")
  /\ \/ Closes("RBRACK", Node("type"))
     \/ cur # "RBRACK" /\ Fail

\* parse_pattern, called by the loops over parameters and fields
PattypeReturned ==
  /\ Returned("pattype")
  /\ \/ /\ cur = "ASSIGN" /\ Consume
        /\ Expr(Append(Pop, [Frame("patinit") EXCEPT
                               !.n = IF node.kind = "va" THEN 1 ELSE 0]), 0)
     \/ cur # "ASSIGN" /\ Keep /\ Return(node)
PatinitReturned ==
  /\ Returned("patinit") /\ Keep
  /\ Return(Node(IF Top.n = 1 THEN "va" ELSE "type"))

-----------------------------------------------------------------------------
(* Functions, structs, enums and the program *)

\* parse_func_item, parse_patterns: nothing follows a variadic parameter.
Params ==
  /\ At("params")
  /\ \/ cur = "RPAREN" /\ Consume /\ Proceed("rettype", Turn("param"))
     \/ cur # "RPAREN" /\ (cur = "EOF" \/ Top.n = 1) /\ Fail
     \/ /\ cur \notin {"RPAREN", "EOF"} /\ Top.n = 0
        /\ IF cur = "KW_CONST" THEN Consume ELSE Keep
        /\ Proceed("patname", Push("pattype"))
ParamReturned ==
  /\ Returned("param") /\ SkipComma
  /\ Proceed("params", Count(IF node.kind = "va" THEN 1 ELSE 0))

ReturnType ==
  /\ At("rettype")
  /\ \/ cur = "COLON" /\ Consume /\ Proceed("type", Turn("functype"))
     \/ cur # "COLON" /\ Keep /\ Proceed("body", stack)
FunctypeReturned == Returned("functype") /\ Keep /\ Proceed("body", stack)

Body ==
  /\ At("body")
  /\ \/ cur = "FAT_ARROW" /\ Consume /\ Proceed("stmt", Turn("funcbody"))
     \/ cur = "LBRACE" /\ Keep /\ Proceed("block", Turn("funcbody"))
     \/ cur \notin {"FAT_ARROW", "LBRACE"} /\ Keep /\ Proceed("fail", Turn("funcbody"))
FuncbodyReturned == Returned("funcbody") /\ Keep /\ Return(Node("func"))

\* parse_struct_item
Fields ==
  /\ At("fields")
  /\ \/ Closes("RBRACE", Node("decl"))
     \/ Unclosed
     \/ /\ cur \notin {"RBRACE", "EOF"}
        /\ IF cur = "KW_STATIC" THEN Consume ELSE Keep
        /\ Proceed("fieldconst", stack)
FieldConst ==
  /\ At("fieldconst")
  /\ IF cur = "KW_CONST" THEN Consume ELSE Keep
  /\ Proceed("field", stack)
\* Mutant: what is no field and no function is passed over
FieldSkipped ==
  /\ At("field")
  /\ \/ cur = "NAME" /\ Keep /\ Proceed("patname", Push("pattype"))
     \/ cur = "KW_FUNC" /\ Consume /\ Proceed("funcname", Push("param"))
     \/ cur \notin {"NAME", "KW_FUNC"} /\ Keep /\ Proceed("fields", stack)

Field ==
  /\ At("field")
  /\ \/ cur = "NAME" /\ Keep /\ Proceed("patname", Push("pattype"))
     \/ cur = "KW_FUNC" /\ Consume /\ Proceed("funcname", Push("param"))
     \/ cur \notin {"NAME", "KW_FUNC"} /\ Fail
FieldReturned == Returned("field") /\ Keep /\ Proceed("fields", stack)

\* parse_enum_item: a comma is skipped only after a member that has a value.
Members ==
  /\ At("members")
  /\ \/ Top.n = 1 /\ Closes("RBRACE", Node("decl"))
     \/ Top.n = 0 /\ cur = "RBRACE" /\ Fail
     \/ /\ cur = "NAME" /\ Consume
        /\ Proceed("memberval", Count(1))
     \/ cur \notin {"RBRACE", "NAME"} /\ Fail
MemberValue ==
  /\ At("memberval")
  /\ \/ cur = "COLON" /\ Consume /\ Expr(Goto("enumval"), 0)
     \/ cur # "COLON" /\ Keep /\ Proceed("members", stack)
EnumvalReturned == Returned("enumval") /\ SkipComma /\ Proceed("members", Goto("member"))

\* parse_program, parse_item
Item ==
  /\ At("item")
  /\ \/ cur = "EOF" /\ Keep /\ Proceed("done", stack)
     \/ cur = "KW_FUNC" /\ Consume /\ Proceed("funcname", Push("param"))
     \/ cur = "KW_STRUCT" /\ Consume /\ Proceed("structname", Push("field"))
     \/ cur = "KW_ENUM" /\ Consume /\ Proceed("enumname", Push("member"))
     \/ cur \notin {"EOF", "KW_FUNC", "KW_STRUCT", "KW_ENUM"} /\ Keep
        /\ Proceed("stmt", stack)
ItemReturned == Returned("program") /\ Keep /\ Proceed("semicolons", stack)

\* An error goes through every call in progress to parse_program.  On its way
\* parse_func_item combines spans: of a type node that was never set, and of a
\* body that is NULL.
Unwind ==
  /\ At("fail") /\ Keep
  /\ \/ Top.at = "program" /\ Proceed("error", stack)
     \/ Top.at \notin {"program", "funcbody"} /\ Proceed("fail", Pop)
     \/ Top.at \in {"functype", "funcbody"} /\ Proceed("crash", stack)

TooDeep == pc \notin Ends /\ Keep /\ Proceed("deep", stack)

-----------------------------------------------------------------------------
Init ==
  /\ vocab \in Vocabularies
  /\ cur \in vocab \cup {"EOF"}
  /\ pc = "item"
  /\ stack = <<Frame("program")>>
  /\ node = Plain
  /\ open = <<>>
  /\ took = FALSE

Step ==
  \/ Expect
  \/ Prefix \/ UnopReturned \/ ParenReturned \/ Elems \/ ElemReturned
  \/ Postfix \/ PrefixReturned \/ IndexReturned \/ CastReturned
  \/ Args \/ ArgReturned \/ ArgvalReturned
  \/ StructtypeReturned \/ Inits \/ InitReturned \/ InitvalReturned
  \/ Ops \/ RhsReturned
  \/ Block \/ BlockNodes \/ NodeReturned \/ Semicolons
  \/ IfcondReturned \/ IfbodyReturned \/ ElseReturned
  \/ Initializer \/ ForinitReturned \/ Condition \/ ForcondReturned
  \/ ForNext \/ HeadReturned \/ ForbodyReturned
  \/ ReturnValue \/ RetvalReturned
  \/ LetType \/ LettypeReturned \/ LetInit \/ LetinitReturned \/ Stmt
  \/ Type \/ ElType \/ EltypeReturned \/ PattypeReturned \/ PatinitReturned
  \/ Params \/ ParamReturned \/ ReturnType \/ FunctypeReturned
  \/ Body \/ FuncbodyReturned
  \/ Fields \/ FieldConst \/ Field \/ FieldReturned
  \/ Members \/ MemberValue \/ EnumvalReturned
  \/ Item \/ ItemReturned \/ Unwind

Next == IF Len(stack) <= MaxStack THEN Step ELSE TooDeep

Spec == Init /\ [][Next]_vars /\ WF_vars(Next)

-----------------------------------------------------------------------------
(* Properties *)

\* The least level of an operator that may stand, unbracketed, at the left end
\* of the operand to the right of t.
Above(t) == IF t \in {"ASSIGN", "CARET"} THEN Level(t) ELSE Level(t) + 1

\* Operators group by their level, and within a level to the left, or to the
\* right for = and ^: no operand ends in an operator that should have taken the
\* next one, or begins with one that should have left it.  The operand of a
\* unary operator extends over the binary ones that bind as tightly as it, where
\* a + - or & counts as the binary operator of that name.  get_precedence and
\* the loop of parse_expr.
Grouped ==
  /\ pc = "ops" /\ cur \in BinOps /\ Level(cur) >= Top.min =>
       Level(cur) < node.right
  /\ pc = "ret" /\ Top.at = "rhs" => node.left >= Above(Top.op)
  /\ pc = "ret" /\ Top.at = "unop" =>
       node.left >= IF Top.op \in BinOps THEN Level(Top.op) ELSE 6

\* A call, an index, a member or a cast applies to what stands right before it,
\* never to the result of an operator: -a.b is -(a.b), &a[0] is &(a[0]).
PostfixFirst ==
  pc = "postfix" /\ cur \in PostfixOps => node.left = Tight /\ node.right = Tight

\* What CimaEval takes the programs of the parser to be: a statement reaches only
\* the places where CimaEval runs one (its StmtPoints and JumpPoints, and the
\* condition and step of a loop), a declaration only the program or a struct,
\* operands are expressions, and the value of a block is no let and no loop.
NodesFit ==
  /\ pc = "ret" =>
       CASE node.kind \in Exprs -> Top.at \notin TypePoints \cup {"param", "field"}
         [] node.kind \in {"let", "for", "jump"} -> Top.at \in StmtPoints
         [] node.kind = "decl" -> Top.at = "program"
         [] node.kind = "func" -> Top.at \in {"program", "field"}
         [] OTHER -> Top.at \in TypePoints \cup {"param", "field"}
  /\ \A i \in DOMAIN stack : stack[i].last \in Exprs \cup {"none", "jump"}

\* A program is accepted only if every bracket it opens is closed, in order, by
\* the bracket of its kind: no loop of the parser leaves by another token.
Balanced == pc = "done" => open = <<>>

\* parse_program returns, unless the text never ends: no loop of the parser goes
\* round without taking a token, and none goes on at the end of the file.
Terminates == <>(pc \in Ends) \/ []<>took

\* tests/02.cima:7 declares a function in the body of another one: a statement
\* that begins with func is parsed.
NestedFunc ==
  [][pc = "prefix" /\ cur = "KW_FUNC" /\ stack[Len(stack) - 1].at = "node"
     => pc' # "fail"]_vars
===============================================================================
