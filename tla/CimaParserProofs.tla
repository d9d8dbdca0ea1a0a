--------------------------- MODULE CimaParserProofs ---------------------------
(***************************************************************************)
(* Proofs about CimaParser, for every vocabulary and every depth of the    *)
(* stack.  IInv says which calls wait for which, what a call returns, and  *)
(* how loosely the node in hand may bind at each place.                    *)
(***************************************************************************)
EXTENDS CimaParser, SequenceTheorems, TLAPS

-----------------------------------------------------------------------------
(* The inductive invariant *)

\* The calls of parse_expr, and what it calls to get its operands.
ExprCalls == {"prefix", "rhs"}
Primaries == {"unop", "paren", "elem", "index", "arg", "argval", "casttype",
              "structtype", "init", "initval", "ifcond", "ifbody", "else", "node"}

\* The kinds of node the call at p returns, and those the call it waits for may.
Yields(p) ==
  CASE p \in ExprCalls \cup Primaries -> Exprs
    [] p \in {"forinit", "forcond", "fornext", "whilecond", "forbody"} -> {"for"}
    [] p \in {"lettype", "letinit"} -> {"let"}
    [] p = "retval" -> {"jump"}
    [] p \in {"eltype", "pattype", "patinit"} -> {"type", "va"}
    [] p \in {"param", "functype", "funcbody"} -> {"func"}
    [] p \in {"field", "member", "enumval"} -> {"decl"}
    [] OTHER -> {}
Takes(p) ==
  CASE p = "program" -> Exprs \cup {"let", "for", "jump", "func", "decl"}
    [] p \in StmtPoints \ {"program"} -> Exprs \cup {"let", "for", "jump"}
    [] p \in TypePoints \cup {"param"} -> {"type", "va"}
    [] p = "field" -> {"type", "va", "func"}
    [] p = "member" -> {}
    [] OTHER -> Exprs

\* The min_prec that the call waiting in f passed on.
OperandMin(f) == IF f.at = "rhs" THEN RhsMin(f.op) ELSE UnaryMin(f.op)

FrameOK(f) ==
  /\ f.last \in Exprs \cup {"none", "jump"}
  /\ f.at = "rhs" => f.op \in BinOps /\ Precedence(f.op) >= f.min /\ f.left >= f.min

\* f may wait for g.
Fits(f, g) ==
  /\ g.at # "program" /\ Yields(g.at) \subseteq Takes(f.at)
  /\ f.at = "prefix" => g.at \in Primaries
  /\ f.at \in {"rhs", "unop"} => g.at \in ExprCalls /\ g.min = OperandMin(f)

StackOK(s) ==
  /\ s \in Seq(Frames) /\ s # <<>>
  /\ s[1].at = "program"
  /\ \A i \in 1..Len(s) : FrameOK(s[i])
  /\ \A i \in 1..(Len(s) - 1) : Fits(s[i], s[i + 1])

\* What a call at place l waits for next.
PlaceOK(l, p) ==
  /\ l \in {"item", "done"} => p = "program"
  /\ l = "stmt" => p \in StmtPoints
  /\ l \in {"prefix", "postfix", "membername", "ops"} => p = "prefix"
  /\ l = "block" => p \in BlockPoints \cup {"prefix", "funcbody"}
  /\ l = "type" => p \in TypePoints
  /\ l = "nodes" => p = "node"
  /\ l = "elems" => p = "elem"
  /\ l = "args" => p = "arg"
  /\ l \in {"initbrace", "inits"} => p = "init"
  /\ l = "eltype" => p = "eltype"
  /\ l \in {"initializer", "condition"} => p = "forinit"
  /\ l = "next" => p \in {"forinit", "forcond"}
  /\ l = "retval" => p = "retval"
  /\ l \in {"funcname", "funcparen", "params", "rettype"} => p = "param"
  /\ l = "body" => p \in {"param", "functype"}
  /\ l \in {"structname", "structbrace", "fields", "fieldconst", "field"} => p = "field"
  /\ l \in {"enumname", "enumbrace", "members", "memberval"} => p = "member"
  /\ l \in {"letname", "lettype"} => p = "letinit"
  /\ l = "letinit" => p \in {"letinit", "lettype"}
  /\ l \in {"patname", "patcolon"} => p = "pattype"
  /\ l = "semicolons" => p \in {"program", "node"}

\* The next token, c, is no operator that binds tighter than the right end of n.
Ended(n, c) == c \in BinOps => Level(c) < n.right

\* A primary expression with what was applied to it so far.
Primary(n, c) ==
  /\ n.kind \in Exprs /\ n.left = Tight
  /\ c \in PostfixOps => n.right = Tight
  /\ Ended(n, c)

\* The node in hand at place l, with f the innermost call.
NodeOK(l, f, n, c) ==
  /\ l = "postfix" => Primary(n, c)
  /\ l = "ops" => /\ n.kind \in Exprs /\ n.left >= f.min
                  /\ c \notin PostfixOps /\ Ended(n, c)
  /\ l = "ret" =>
       /\ n.kind \in Takes(f.at)
       /\ f.at = "prefix" => Primary(n, c)
       /\ f.at \in {"rhs", "unop"} =>
            /\ n.left >= OperandMin(f)
            /\ c \notin PostfixOps /\ Ended(n, c)
            /\ c \in BinOps => Level(c) < OperandMin(f)

Good(l, s, n, c) ==
  /\ StackOK(s) /\ n \in Nodes /\ c \in Tokens /\ l \in Places \cup Ends
  /\ PlaceOK(l, s[Len(s)].at)
  /\ NodeOK(l, s[Len(s)], n, c)

IInv ==
  /\ vocab \in Vocabularies
  /\ open \in Seq(Openers \cup {"bad"})
  /\ took \in BOOLEAN
  /\ Good(pc, stack, node, cur)

-----------------------------------------------------------------------------
(* Levels, frames and nodes *)

\* The levels of get_precedence lie below Tight.
LEMMA Levels ==
  ASSUME NEW t
  PROVE  /\ Level(t) \in 0..7 /\ Precedence(t) \in 0..8 /\ UnaryMin(t) \in 0..8
         /\ RhsMin(t) \in 0..9
         /\ t \in BinOps => Precedence(t) = Level(t) /\ RhsMin(t) \in 0..8
  <1>1. Level(t) \in 0..7
    BY DEF Level
  <1>2. Precedence(t) \in 0..8
    BY <1>1 DEF Precedence, UnaryLevel
  <1>3. RhsMin(t) \in 0..9
    BY <1>2 DEF RhsMin
  <1>4. t \in BinOps => Precedence(t) = Level(t)
    BY DEF Precedence
  <1>5. t \in BinOps => RhsMin(t) \in 0..8
    BY <1>1, <1>4 DEF RhsMin
  <1> QED
    BY <1>1, <1>2, <1>3, <1>4, <1>5 DEF UnaryMin

LEMMA LowerOf ==
  ASSUME NEW a \in 0..Tight, NEW b \in 0..Tight
  PROVE  /\ Lower(a, b) \in 0..Tight
         /\ \A c \in Int : /\ c <= a /\ c <= b => c <= Lower(a, b)
                         /\ c < a /\ c < b => c < Lower(a, b)
  BY DEF Lower, Tight

\* A new frame waits for nothing an operator was seen for.
LEMMA NewFrame ==
  ASSUME NEW p \in Points
  PROVE  /\ Frame(p) \in Frames /\ Frame(p).at = p
         /\ p # "rhs" => FrameOK(Frame(p))
  BY DEF Frame, Frames, FrameOK, Tight, Tokens

LEMMA NewCount ==
  ASSUME NEW p \in Points \ {"rhs"}, NEW k \in 0..2
  PROVE  LET f == [Frame(p) EXCEPT !.n = k]
         IN  f \in Frames /\ f.at = p /\ FrameOK(f)
  BY NewFrame DEF Frames, FrameOK

LEMMA NewExpr ==
  ASSUME NEW m \in 0..Tight
  PROVE  /\ ExprFrame(m) \in Frames /\ FrameOK(ExprFrame(m))
         /\ ExprFrame(m).at = "prefix" /\ ExprFrame(m).min = m
  BY DEF ExprFrame, Frame, Frames, FrameOK, Tight, Tokens, Points

\* A node of its own binds at both ends tighter than any operator.
LEMMA NewNode ==
  ASSUME NEW k \in Kinds
  PROVE  /\ Node(k) \in Nodes /\ Node(k).kind = k
         /\ Node(k).left = Tight /\ Node(k).right = Tight
         /\ \A c : Ended(Node(k), c)
         /\ \A c : k \in Exprs => Primary(Node(k), c)
  <1>1. Node(k) \in Nodes /\ Node(k).kind = k /\ Node(k).left = Tight /\ Node(k).right = Tight
    BY DEF Node, Nodes, Tight
  <1>2. ASSUME NEW c PROVE Ended(Node(k), c)
    BY <1>1, Levels DEF Ended, Tight
  <1> QED
    BY <1>1, <1>2 DEF Primary

-----------------------------------------------------------------------------
(* What can happen to the stack *)

\* A call is made: f waits on top of s.
LEMMA PushStack ==
  ASSUME NEW s, StackOK(s), NEW f \in Frames, FrameOK(f), Fits(s[Len(s)], f)
  PROVE  /\ StackOK(Append(s, f)) /\ Len(Append(s, f)) = Len(s) + 1
         /\ Append(s, f)[Len(s) + 1] = f
  <1>1. s \in Seq(Frames) /\ Len(s) \in Nat /\ Len(s) > 0
    BY DEF StackOK
  <1> DEFINE t == Append(s, f)
  <1>2. /\ t \in Seq(Frames) /\ t # <<>> /\ Len(t) = Len(s) + 1 /\ t[Len(s) + 1] = f
        /\ \A i \in 1..Len(s) : t[i] = s[i]
    BY <1>1
  <1>3. t[1].at = "program"
    BY <1>1, <1>2 DEF StackOK
  <1>4. ASSUME NEW i \in 1..Len(t) PROVE FrameOK(t[i])
    BY <1>1, <1>2 DEF StackOK
  <1>5. ASSUME NEW i \in 1..(Len(t) - 1) PROVE Fits(t[i], t[i + 1])
    <2>1. CASE i = Len(s)
      BY <1>1, <1>2, <2>1
    <2>2. CASE i # Len(s)
      BY <1>1, <1>2, <2>2 DEF StackOK
    <2> QED
      BY <2>1, <2>2
  <1> QED
    BY <1>2, <1>3, <1>4, <1>5 DEF StackOK

\* The innermost call returns to the one that waits for it.
LEMMA PopStack ==
  ASSUME NEW s, StackOK(s), s[Len(s)].at # "program"
  PROVE  LET t == SubSeq(s, 1, Len(s) - 1)
         IN  /\ StackOK(t) /\ Len(t) = Len(s) - 1 /\ Len(t) > 0
             /\ t[Len(t)] \in Frames /\ Fits(t[Len(t)], s[Len(s)])
  <1> DEFINE t == SubSeq(s, 1, Len(s) - 1)
  <1>1. s \in Seq(Frames) /\ Len(s) \in Nat /\ Len(s) > 1
    BY DEF StackOK
  <1>2. /\ t \in Seq(Frames) /\ Len(t) = Len(s) - 1
        /\ \A i \in 1..Len(s) - 1 : t[i] = s[i]
    <2> DEFINE n == Len(s) - 1
    <2>1. n \in Int /\ n > 0 /\ \A i \in 1..n : i \in 1..Len(s)
      BY <1>1
    <2>2. \A i \in 1..n : s[i] \in Frames
      BY <1>1, <2>1, ElementOfSeq
    <2> HIDE DEF n
    <2>3. /\ SubSeq(s, 1, n) \in Seq(Frames)
          /\ Len(SubSeq(s, 1, n)) = IF 1 <= n THEN n - 1 + 1 ELSE 0
          /\ \A i \in 1..n - 1 + 1 : SubSeq(s, 1, n)[i] = s[1 + i - 1]
      BY <2>1, <2>2, SubSeqProperties
    <2>4. Len(SubSeq(s, 1, n)) = n /\ \A i \in 1..n : SubSeq(s, 1, n)[i] = s[i]
      BY <2>1, <2>3
    <2> QED
      BY <2>3, <2>4 DEF n
  <1> HIDE DEF t
  <1>3. \A i \in 1..Len(t) : FrameOK(t[i])
    BY <1>1, <1>2 DEF StackOK
  <1>4. \A i \in 1..(Len(t) - 1) : Fits(t[i], t[i + 1])
    BY <1>1, <1>2 DEF StackOK
  <1>5. t[1].at = "program"
    BY <1>1, <1>2 DEF StackOK
  <1>6. Fits(t[Len(t)], s[Len(s)])
    BY <1>1, <1>2 DEF StackOK
  <1>7. t[Len(t)] \in Frames
    BY <1>1, <1>2
  <1>8. Len(t) > 0 /\ t # <<>>
    BY <1>1, <1>2
  <1>9. StackOK(t)
    BY <1>2, <1>3, <1>4, <1>5, <1>8 DEF StackOK
  <1> QED
    BY <1>2, <1>6, <1>7, <1>8, <1>9 DEF t

\* The innermost call goes on to wait for something else.
Alike(f, g) ==
  /\ g.at # "program" /\ Yields(g.at) \subseteq Yields(f.at)
  /\ f.at \in Primaries => g.at \in Primaries
  /\ f.at \in ExprCalls => g.at \in ExprCalls /\ g.min = f.min

LEMMA TurnStack ==
  ASSUME NEW s, StackOK(s), s[Len(s)].at # "program",
         NEW f \in Frames, FrameOK(f), Alike(s[Len(s)], f)
  PROVE  LET t == Append(SubSeq(s, 1, Len(s) - 1), f)
         IN  StackOK(t) /\ Len(t) = Len(s) /\ t[Len(s)] = f
  <1> DEFINE q == SubSeq(s, 1, Len(s) - 1)
  <1>1. StackOK(q) /\ Len(q) = Len(s) - 1 /\ Len(q) > 0 /\ Fits(q[Len(q)], s[Len(s)])
    BY PopStack
  <1>2. Fits(q[Len(q)], f)
    BY <1>1 DEF Fits, Alike
  <1>3. StackOK(Append(q, f)) /\ Len(Append(q, f)) = Len(q) + 1 /\ Append(q, f)[Len(q) + 1] = f
    BY <1>1, <1>2, PushStack
  <1>4. Len(s) \in Nat
    BY DEF StackOK
  <1> QED
    BY <1>1, <1>3, <1>4

-----------------------------------------------------------------------------
(* What a step leaves *)

\* A step that is no return goes to a place where the node in hand is plain.
LEMMA ProceedGood ==
  ASSUME NEW s, StackOK(s), NEW l \in (Places \cup Ends) \ {"ops", "ret"},
         PlaceOK(l, s[Len(s)].at), NEW c \in Tokens
  PROVE  Good(l, s, Plain, c)
  <1>1. Plain \in Nodes /\ Primary(Plain, c)
    BY NewNode DEF Plain, Exprs, Kinds
  <1>2. NodeOK(l, s[Len(s)], Plain, c)
    BY <1>1 DEF NodeOK
  <1> QED
    BY <1>1, <1>2 DEF Good

\* parse_expr is called.
LEMMA ExprGood ==
  ASSUME NEW s, StackOK(s), NEW m \in 0..Tight, NEW c \in Tokens,
         Fits(s[Len(s)], ExprFrame(m))
  PROVE  Good("prefix", Append(s, ExprFrame(m)), Plain, c)
  <1> DEFINE t == Append(s, ExprFrame(m))
  <1>1. StackOK(t) /\ Len(t) = Len(s) + 1 /\ t[Len(s) + 1] = ExprFrame(m)
    BY NewExpr, PushStack
  <1>2. PlaceOK("prefix", t[Len(t)].at)
    BY <1>1, NewExpr DEF PlaceOK
  <1>3. "prefix" \in (Places \cup Ends) \ {"ops", "ret"}
    BY DEF Places, Ends
  <1> HIDE DEF t
  <1>4. Good("prefix", t, Plain, c)
    BY <1>1, <1>2, <1>3, ProceedGood
  <1> QED
    BY <1>4 DEF t

\* Whoever waits for a value of any kind, but for operators, may wait for parse_expr.
LEMMA ExprFits ==
  ASSUME NEW f, f.at \in (ExprPoints \cup StmtPoints) \ {"unop"}
  PROVE  \A m \in 0..Tight : f.at = "rhs" \/ Fits(f, ExprFrame(m))
  BY NewExpr DEF Fits, Takes, Yields, ExprPoints, StmtPoints, TypePoints, ExprCalls, Exprs

\* A call that has no operand of an operator to return returns n.
LEMMA ReturnGood ==
  ASSUME NEW s, StackOK(s), s[Len(s)].at \notin ExprCalls \cup {"program"},
         NEW k \in Kinds, k \in Yields(s[Len(s)].at), NEW c \in Tokens
  PROVE  Good("ret", SubSeq(s, 1, Len(s) - 1), Node(k), c)
  <1> DEFINE t == SubSeq(s, 1, Len(s) - 1)
  <1>1. StackOK(t) /\ Fits(t[Len(t)], s[Len(s)])
    BY PopStack
  <1> HIDE DEF t
  <1>2. k \in Takes(t[Len(t)].at) /\ t[Len(t)].at \notin {"rhs", "unop"}
    BY <1>1 DEF Fits
  <1>3. t[Len(t)].at = "prefix" => k \in Exprs
    BY <1>2 DEF Takes, StmtPoints, TypePoints
  <1>4. NodeOK("ret", t[Len(t)], Node(k), c)
    BY <1>2, <1>3, NewNode DEF NodeOK
  <1>5. "ret" \in Places /\ PlaceOK("ret", t[Len(t)].at)
    BY DEF Places, PlaceOK
  <1>6. Good("ret", t, Node(k), c)
    BY <1>1, <1>4, <1>5, NewNode DEF Good
  <1> QED
    BY <1>6 DEF t

\* A call without a frame returns to the innermost one.
LEMMA AnswerGood ==
  ASSUME NEW s, StackOK(s), NEW k \in Kinds, k \in Takes(s[Len(s)].at),
         s[Len(s)].at \in StmtPoints \cup TypePoints, NEW c \in Tokens
  PROVE  Good("ret", s, Node(k), c)
  <1>1. NodeOK("ret", s[Len(s)], Node(k), c)
    BY NewNode DEF NodeOK, StmtPoints, TypePoints
  <1> QED
    BY <1>1, NewNode DEF Good, Places, PlaceOK


\* The calls that p may make, other than of parse_expr, and those it may turn into.
MayCall(q, p) ==
  /\ p \in Points \ {"program", "rhs"} /\ q \notin {"rhs", "unop"}
  /\ Yields(p) \subseteq Takes(q)
  /\ q = "prefix" => p \in Primaries
MayTurn(q, p) ==
  /\ p \in Points \ {"program", "rhs"} /\ q \notin ExprCalls \cup {"program"}
  /\ Yields(p) \subseteq Yields(q)
  /\ q \in Primaries => p \in Primaries

\* What calls parse_expr for a whole expression.
Wholes == (ExprPoints \cup StmtPoints) \ {"unop", "rhs"}

\* A call at p is made, which stands at l or calls parse_expr.
LEMMA PushGood ==
  ASSUME NEW s, StackOK(s), NEW p, MayCall(s[Len(s)].at, p), NEW c \in Tokens
  PROVE  /\ StackOK(Append(s, Frame(p)))
         /\ \A l \in (Places \cup Ends) \ {"ops", "ret"} :
              PlaceOK(l, p) => Good(l, Append(s, Frame(p)), Plain, c)
         /\ p \in Wholes =>
              \A m \in 0..Tight :
                Good("prefix", Append(Append(s, Frame(p)), ExprFrame(m)), Plain, c)
  <1> DEFINE t == Append(s, Frame(p))
  <1>1. Fits(s[Len(s)], Frame(p))
    BY NewFrame DEF Fits, MayCall
  <1>2. StackOK(t) /\ Len(t) = Len(s) + 1 /\ t[Len(s) + 1] = Frame(p) /\ Frame(p).at = p
    BY <1>1, NewFrame, PushStack DEF MayCall
  <1> HIDE DEF t
  <1>3. ASSUME NEW l \in (Places \cup Ends) \ {"ops", "ret"}, PlaceOK(l, p)
        PROVE  Good(l, t, Plain, c)
    BY <1>2, <1>3, ProceedGood
  <1>4. ASSUME p \in Wholes, NEW m \in 0..Tight
        PROVE  Good("prefix", Append(t, ExprFrame(m)), Plain, c)
    BY <1>2, <1>4, ExprFits, ExprGood DEF Wholes
  <1> QED
    BY <1>2, <1>3, <1>4 DEF t

\* The innermost call turns to f, and stands at l or calls parse_expr.
LEMMA TurnGood ==
  ASSUME NEW s, StackOK(s), NEW f \in Frames, FrameOK(f), MayTurn(s[Len(s)].at, f.at),
         NEW c \in Tokens
  PROVE  LET t == Append(SubSeq(s, 1, Len(s) - 1), f)
         IN  /\ \A l \in (Places \cup Ends) \ {"ops", "ret"} :
                  PlaceOK(l, f.at) => Good(l, t, Plain, c)
             /\ f.at \in Wholes =>
                  \A m \in 0..Tight : Good("prefix", Append(t, ExprFrame(m)), Plain, c)
  <1> DEFINE t == Append(SubSeq(s, 1, Len(s) - 1), f)
  <1>1. Alike(s[Len(s)], f) /\ s[Len(s)].at # "program"
    BY DEF Alike, MayTurn
  <1>2. StackOK(t) /\ Len(t) = Len(s) /\ t[Len(s)] = f
    BY <1>1, TurnStack
  <1> HIDE DEF t
  <1>3. ASSUME NEW l \in (Places \cup Ends) \ {"ops", "ret"}, PlaceOK(l, f.at)
        PROVE  Good(l, t, Plain, c)
    BY <1>2, <1>3, ProceedGood
  <1>4. ASSUME f.at \in Wholes, NEW m \in 0..Tight
        PROVE  Good("prefix", Append(t, ExprFrame(m)), Plain, c)
    BY <1>2, <1>4, ExprFits, ExprGood DEF Wholes
  <1> QED
    BY <1>3, <1>4 DEF t

-----------------------------------------------------------------------------
(* Every step *)

\* lexer_next, and what it leaves alone.
LEMMA LexerStep ==
  ASSUME IInv, Consume \/ Keep
  PROVE  /\ vocab' \in Vocabularies /\ cur' \in Tokens
         /\ open' \in Seq(Openers \cup {"bad"}) /\ took' \in BOOLEAN
         /\ Keep => cur' = cur
  <1>1. cur \in Tokens /\ vocab \subseteq Tokens /\ "EOF" \in Tokens
    BY VocabulariesAssumption DEF IInv, Good, Tokens
  <1>2. Nest(open, cur) \in Seq(Openers \cup {"bad"})
    <2> DEFINE E == Openers \cup {"bad"}
    <2>1. open \in Seq(E) /\ Len(open) \in Nat
      BY DEF IInv
    <2>2. cur \in Openers => Append(open, cur) \in Seq(E)
      BY <2>1
    <2>3. open # <<>> => SubSeq(open, 1, Len(open) - 1) \in Seq(E)
      BY <2>1
    <2>4. <<"bad">> \in Seq(E)
      OBVIOUS
    <2> HIDE DEF E
    <2> QED
      BY <2>1, <2>2, <2>3, <2>4 DEF Nest, E
  <1>3. CASE Consume
    BY <1>1, <1>2, <1>3 DEF Consume, Keep, IInv
  <1>4. CASE Keep
    BY <1>1, <1>4 DEF Keep, IInv
  <1> QED
    BY <1>3, <1>4

\* What stands in hand when IInv holds.
LEMMA InHand ==
  ASSUME IInv
  PROVE  /\ StackOK(stack) /\ Top = stack[Len(stack)] /\ Top \in Frames /\ FrameOK(Top)
         /\ PlaceOK(pc, Top.at) /\ NodeOK(pc, Top, node, cur)
         /\ node \in Nodes /\ cur \in Tokens
  <1>1. StackOK(stack) /\ Len(stack) \in Nat /\ Len(stack) > 0
    BY DEF IInv, Good, StackOK
  <1> QED
    BY <1>1 DEF IInv, Good, StackOK, Top

\* Consume and Keep are all that is known of the lexer.
LEMMA Stays ==
  ASSUME IInv, Consume \/ Keep,
         cur' \in Tokens => Good(pc', stack', node', cur')
  PROVE  IInv'
  BY LexerStep DEF IInv

\* The places where the node in hand is plain.
Ordinary == (Places \cup Ends) \ {"ops", "ret"}

LEMMA GoesOn ==
  ASSUME IInv, Consume \/ Keep,
         NEW l \in Ordinary, PlaceOK(l, Top.at), Proceed(l, stack)
  PROVE  IInv'
  BY InHand, Stays, ProceedGood DEF Ordinary, Proceed

LEMMA Calls ==
  ASSUME IInv, Consume \/ Keep, NEW p, MayCall(Top.at, p),
         NEW l \in Ordinary, PlaceOK(l, p), Proceed(l, Push(p))
  PROVE  IInv'
  BY InHand, Stays, PushGood DEF Ordinary, Proceed, Push

LEMMA Turns ==
  ASSUME IInv, Consume \/ Keep, NEW f \in Frames, FrameOK(f), MayTurn(Top.at, f.at),
         NEW l \in Ordinary, PlaceOK(l, f.at), Proceed(l, Append(Pop, f))
  PROVE  IInv'
  BY InHand, Stays, TurnGood DEF Ordinary, Proceed, Pop

LEMMA CallsExpr ==
  ASSUME IInv, Consume \/ Keep, Top.at \in Wholes, Expr(stack, 0)
  PROVE  IInv'
  <1>1. Fits(Top, ExprFrame(0))
    BY ExprFits DEF Wholes, Tight
  <1> QED
    BY <1>1, InHand, Stays, ExprGood DEF Expr, Proceed, Tight

LEMMA CallsForExpr ==
  ASSUME IInv, Consume \/ Keep, NEW p \in Wholes, MayCall(Top.at, p), Expr(Push(p), 0)
  PROVE  IInv'
  BY InHand, Stays, PushGood DEF Expr, Proceed, Push, Tight

LEMMA TurnsToExpr ==
  ASSUME IInv, Consume \/ Keep, NEW f \in Frames, FrameOK(f), MayTurn(Top.at, f.at),
         f.at \in Wholes, Expr(Append(Pop, f), 0)
  PROVE  IInv'
  BY InHand, Stays, TurnGood DEF Expr, Proceed, Pop, Tight

\* As the two before, to a call that has counted up to k.
LEMMA TurnsCounting ==
  ASSUME IInv, Consume \/ Keep, NEW p, MayTurn(Top.at, p), NEW k \in 0..2
  PROVE  /\ \A l \in Ordinary :
              /\ PlaceOK(l, p)
              /\ Proceed(l, Append(Pop, [Frame(p) EXCEPT !.n = k]))
              => IInv'
         /\ p \in Wholes /\ Expr(Append(Pop, [Frame(p) EXCEPT !.n = k]), 0) => IInv'
  <1> DEFINE f == [Frame(p) EXCEPT !.n = k]
  <1>1. f \in Frames /\ f.at = p /\ FrameOK(f)
    BY NewCount DEF MayTurn
  <1> HIDE DEF f
  <1>2. ASSUME NEW l \in Ordinary, PlaceOK(l, p), Proceed(l, Append(Pop, f)) PROVE IInv'
    BY <1>1, <1>2, Turns
  <1>3. ASSUME p \in Wholes, Expr(Append(Pop, f), 0) PROVE IInv'
    BY <1>1, <1>3, TurnsToExpr
  <1> QED
    BY <1>2, <1>3 DEF f

LEMMA Returns ==
  ASSUME IInv, Consume \/ Keep, Top.at \notin ExprCalls \cup {"program"},
         NEW k \in Kinds, k \in Yields(Top.at), Return(Node(k))
  PROVE  IInv'
  BY InHand, Stays, ReturnGood DEF Return, Pop

LEMMA Answers ==
  ASSUME IInv, Consume \/ Keep, Top.at \in StmtPoints \cup TypePoints,
         NEW k \in Kinds, k \in Takes(Top.at), Answer(Node(k))
  PROVE  IInv'
  BY InHand, Stays, AnswerGood DEF Answer

\* The value of a named item has been parsed.
LEMMA ItemEnds ==
  ASSUME IInv, NEW p, MayTurn(Top.at, p), NEW l \in Ordinary, PlaceOK(l, p), ValueOfItem(p, l)
  PROVE  IInv'
  <1> DEFINE k == IF Top.n = 2 THEN 2 ELSE Top.n + 1
  <1>1. k \in 0..2
    BY InHand DEF Frames
  <1>2. Proceed(l, Append(Pop, [Frame(p) EXCEPT !.n = k])) /\ (Consume \/ Keep)
    BY DEF ValueOfItem, SkipComma
  <1> HIDE DEF k
  <1> QED
    BY <1>1, <1>2, TurnsCounting

\* The type of a parameter has been parsed; its initializer follows.
LEMMA PatternInit ==
  ASSUME IInv, MayTurn(Top.at, "patinit"), Consume,
         Expr(Append(Pop, [Frame("patinit") EXCEPT !.n = IF node.kind = "va" THEN 1 ELSE 0]), 0)
  PROVE  IInv'
  <1> DEFINE k == IF node.kind = "va" THEN 1 ELSE 0
  <1>1. k \in 0..2 /\ "patinit" \in Wholes
    BY DEF Wholes, ExprPoints
  <1>2. Expr(Append(Pop, [Frame("patinit") EXCEPT !.n = k]), 0)
    OBVIOUS
  <1> HIDE DEF k
  <1> QED
    BY <1>1, <1>2, TurnsCounting

\* The innermost call returns n.
LEMMA ReturnsNode ==
  ASSUME IInv, Keep, NEW n \in Nodes, Return(n),
         Top.at # "program", n.kind \in Yields(Top.at),
         Top.at \in Primaries => Primary(n, cur),
         Top.at \in ExprCalls => /\ n.left >= Top.min
                                 /\ cur \notin PostfixOps /\ Ended(n, cur)
                                 /\ cur \in BinOps => Level(cur) < Top.min
  PROVE  IInv'
  <1> DEFINE t == SubSeq(stack, 1, Len(stack) - 1)
             f == t[Len(t)]
  <1>1. StackOK(t) /\ Fits(f, Top)
    BY InHand, PopStack
  <1> HIDE DEF t, f
  <1>2. NodeOK("ret", f, n, cur)
    <2>1. n.kind \in Takes(f.at)
      BY <1>1 DEF Fits
    <2>2. f.at = "prefix" => Primary(n, cur)
      BY <1>1 DEF Fits
    <2>3. f.at \in {"rhs", "unop"} => Top.at \in ExprCalls /\ Top.min = OperandMin(f)
      BY <1>1 DEF Fits
    <2>4. ASSUME f.at \in {"rhs", "unop"}
          PROVE  /\ n.left >= OperandMin(f) /\ cur \notin PostfixOps /\ Ended(n, cur)
                 /\ cur \in BinOps => Level(cur) < OperandMin(f)
      BY <2>3, <2>4
    <2> QED
      BY <2>1, <2>2, <2>4, Zenon DEF NodeOK
  <1>3. Good("ret", t, n, cur)
    BY <1>1, <1>2, InHand DEF Good, PlaceOK, Places, f
  <1>4. pc' = "ret" /\ stack' = t /\ node' = n /\ cur' = cur
    BY DEF Return, Pop, t, Keep
  <1> QED
    BY <1>3, <1>4, Stays

\* parse_pattern returns the type it has got.
LEMMA PatternEnds ==
  ASSUME IInv, Keep, Returned("pattype"), Return(node)
  PROVE  IInv'
  <1>1. node \in Nodes /\ node.kind \in {"type", "va"} /\ Top.at = "pattype"
    BY InHand DEF Returned, NodeOK, Takes, TypePoints, StmtPoints
  <1>2. node.kind \in Yields("pattype") /\ "pattype" \notin Primaries \cup ExprCalls
    BY <1>1 DEF Yields, ExprCalls, Primaries
  <1> QED
    BY <1>1, <1>2, ReturnsNode

\* Any place fails.
LEMMA Fails ==
  ASSUME IInv, Fail
  PROVE  IInv'
  BY GoesOn DEF Fail, Ordinary, PlaceOK, Places

\* Brackets, arguments and initializers.
LEMMA ListSteps ==
  ASSUME IInv,
         ParenReturned \/ Elems \/ ElemReturned \/ IndexReturned
         \/ CastReturned \/ Args \/ ArgReturned \/ ArgvalReturned
         \/ StructtypeReturned \/ Inits \/ InitReturned
         \/ InitvalReturned
  PROVE  IInv'
  <1> USE InHand DEF At, Returned, Ordinary, PlaceOK, Places, Points,
      ExprPoints, StmtPoints, BlockPoints, TypePoints, ExprCalls, Primaries,
      Yields, Takes, Exprs, Kinds
  <1>1. CASE ParenReturned
    BY <1>1, Returns, Fails DEF ParenReturned, NodeOK, Closes
  <1>2. CASE Elems
    BY <1>2, CallsExpr, Returns, Fails DEF Elems, Closes, Unclosed, Wholes,
       Plain
  <1>3. CASE ElemReturned
    BY <1>3, GoesOn, Fails DEF ElemReturned, SkipComma
  <1>4. CASE IndexReturned
    BY <1>4, Returns, Fails DEF IndexReturned, Closes, Plain
  <1>5. CASE CastReturned
    BY <1>5, Returns DEF CastReturned, Plain
  <1>6. CASE Args
    BY <1>6, CallsExpr, Returns, Fails DEF Args, List, Closes, Unclosed,
       Wholes, Plain
  <1>7. CASE ArgReturned
    BY <1>7, TurnsToExpr, GoesOn, Fails DEF ArgReturned, ItemOfList,
       SkipComma, Goto, Wholes, MayTurn, Frames, FrameOK
  <1>8. CASE ArgvalReturned
    BY <1>8, ItemEnds DEF ArgvalReturned, MayTurn
  <1>9. CASE StructtypeReturned
    BY <1>9, Turns, NewFrame, SMTT(30) DEF StructtypeReturned, Turn, MayTurn
  <1>10. CASE Inits
    BY <1>10, CallsExpr, Returns, Fails DEF Inits, List, Closes, Unclosed,
       Wholes, Plain
  <1>11. CASE InitReturned
    BY <1>11, TurnsToExpr, GoesOn, Fails DEF InitReturned, ItemOfList,
       SkipComma, Goto, Wholes, MayTurn, Frames, FrameOK
  <1>12. CASE InitvalReturned
    BY <1>12, ItemEnds DEF InitvalReturned, MayTurn
  <1> QED
    BY <1>1, <1>2, <1>3, <1>4, <1>5, <1>6, <1>7, <1>8, <1>9,
       <1>10, <1>11, <1>12

\* Blocks and branches.
LEMMA BlockSteps ==
  ASSUME IInv,
         Block \/ BlockNodes \/ NodeReturned \/ Semicolons
         \/ IfcondReturned \/ IfbodyReturned \/ ElseReturned
  PROVE  IInv'
  <1> USE InHand DEF At, Returned, Ordinary, PlaceOK, Places, Points,
      ExprPoints, StmtPoints, BlockPoints, TypePoints, ExprCalls, Primaries,
      Yields, Takes, Exprs, Kinds
  <1>1. CASE Block
    BY <1>1, Calls, Fails DEF Block, MayCall
  <1>2. CASE BlockNodes
    BY <1>2, GoesOn, Returns, Fails DEF BlockNodes, Closes, Unclosed, Plain
  <1>3. CASE NodeReturned
    BY <1>3, Turns DEF NodeReturned, NodeOK, MayTurn, Frames, FrameOK
  <1>4. CASE Semicolons
    BY <1>4, GoesOn DEF Semicolons
  <1>5. CASE IfcondReturned
    BY <1>5, Turns, NewFrame, SMTT(30) DEF IfcondReturned, Turn, MayTurn
  <1>6. CASE IfbodyReturned
    BY <1>6, Turns, TurnsToExpr, Returns, NewFrame DEF IfbodyReturned,
       Turn, Wholes, Plain, MayTurn
  <1>7. CASE ElseReturned
    BY <1>7, Returns DEF ElseReturned, Plain
  <1> QED
    BY <1>1, <1>2, <1>3, <1>4, <1>5, <1>6, <1>7

\* Loops and jumps.
LEMMA LoopSteps ==
  ASSUME IInv,
         Initializer \/ ForinitReturned \/ Condition \/ ForcondReturned
         \/ ForNext \/ HeadReturned \/ ForbodyReturned \/ ReturnValue
         \/ RetvalReturned
  PROVE  IInv'
  <1> USE InHand DEF At, Returned, Ordinary, PlaceOK, Places, Points,
      ExprPoints, StmtPoints, BlockPoints, TypePoints, ExprCalls, Primaries,
      Yields, Takes, Exprs, Kinds
  <1>1. CASE Initializer
    BY <1>1, GoesOn, Turns, NewFrame DEF Initializer, Turn, MayTurn
  <1>2. CASE ForinitReturned
    BY <1>2, GoesOn, Fails DEF ForinitReturned, Semicolon
  <1>3. CASE Condition
    BY <1>3, GoesOn, Turns, NewFrame, SMTT(30) DEF Condition, Turn, MayTurn
  <1>4. CASE ForcondReturned
    BY <1>4, GoesOn, Fails DEF ForcondReturned, Semicolon
  <1>5. CASE ForNext
    BY <1>5, Turns, NewFrame, SMTT(30) DEF ForNext, Turn, MayTurn
  <1>6. CASE HeadReturned
    BY <1>6, Turns, NewFrame, SMTT(30) DEF HeadReturned, Turn, MayTurn
  <1>7. CASE ForbodyReturned
    BY <1>7, Returns DEF ForbodyReturned
  <1>8. CASE ReturnValue
    BY <1>8, CallsExpr, Returns DEF ReturnValue, Wholes
  <1>9. CASE RetvalReturned
    BY <1>9, Returns DEF RetvalReturned
  <1> QED
    BY <1>1, <1>2, <1>3, <1>4, <1>5, <1>6, <1>7, <1>8, <1>9

\* Declarations of variables, statements and types.
LEMMA StmtSteps ==
  ASSUME IInv,
         LetType \/ LettypeReturned \/ LetInit \/ LetinitReturned
         \/ Stmt \/ Type \/ ElType \/ EltypeReturned \/ PattypeReturned
         \/ PatinitReturned
  PROVE  IInv'
  <1> USE InHand DEF At, Returned, Ordinary, PlaceOK, Places, Points,
      ExprPoints, StmtPoints, BlockPoints, TypePoints, ExprCalls, Primaries,
      Yields, Takes, Exprs, Kinds
  <1>1. CASE LetType
    BY <1>1, GoesOn, Turns, NewFrame, SMTT(30) DEF LetType, Turn, MayTurn
  <1>2. CASE LettypeReturned
    BY <1>2, GoesOn DEF LettypeReturned
  <1>3. CASE LetInit
    BY <1>3, TurnsToExpr, Returns, NewFrame DEF LetInit, Turn, Wholes,
       MayTurn
  <1>4. CASE LetinitReturned
    BY <1>4, Returns DEF LetinitReturned
  <1>5. CASE Stmt
    BY <1>5, Calls, CallsExpr, Answers DEF Stmt, MayCall, Wholes
  <1>6. CASE Type
    BY <1>6, Calls, GoesOn, Answers, Fails DEF Type, MayCall
  <1>7. CASE ElType
    BY <1>7, GoesOn, Returns, Fails DEF ElType, Closes
  <1>8. CASE EltypeReturned
    BY <1>8, Returns, Fails DEF EltypeReturned, Closes
  <1>9. CASE PattypeReturned
    BY <1>9, PatternInit, PatternEnds DEF PattypeReturned, NodeOK, MayTurn
  <1>10. CASE PatinitReturned
    BY <1>10, Returns DEF PatinitReturned
  <1> QED
    BY <1>1, <1>2, <1>3, <1>4, <1>5, <1>6, <1>7, <1>8, <1>9,
       <1>10

\* Functions, structs, enums and the program.
LEMMA ItemSteps ==
  ASSUME IInv,
         Expect \/ Params \/ ParamReturned \/ ReturnType
         \/ FunctypeReturned \/ Body \/ FuncbodyReturned \/ Fields
         \/ FieldConst \/ Field \/ FieldReturned \/ Members
         \/ MemberValue \/ EnumvalReturned \/ Item \/ ItemReturned
  PROVE  IInv'
  <1> USE InHand DEF At, Returned, Ordinary, PlaceOK, Places, Points,
      ExprPoints, StmtPoints, BlockPoints, TypePoints, ExprCalls, Primaries,
      Yields, Takes, Exprs, Kinds
  <1>1. CASE Expect
    BY <1>1, GoesOn, Fails DEF Expect, Expected
  <1>2. CASE Params
    BY <1>2, Calls, Turns, NewFrame, Fails DEF Params, Turn, MayCall,
       MayTurn
  <1>3. CASE ParamReturned
    BY <1>3, Turns DEF ParamReturned, Count, SkipComma, MayTurn, Frames,
       FrameOK
  <1>4. CASE ReturnType
    BY <1>4, GoesOn, Turns, NewFrame, SMTT(30) DEF ReturnType, Turn, MayTurn
  <1>5. CASE FunctypeReturned
    BY <1>5, GoesOn DEF FunctypeReturned
  <1>6. CASE Body
    BY <1>6, Turns, NewFrame, SMTT(30) DEF Body, Turn, MayTurn
  <1>7. CASE FuncbodyReturned
    BY <1>7, Returns DEF FuncbodyReturned
  <1>8. CASE Fields
    BY <1>8, GoesOn, Returns, Fails DEF Fields, Closes, Unclosed
  <1>9. CASE FieldConst
    BY <1>9, GoesOn DEF FieldConst
  <1>10. CASE Field
    BY <1>10, Calls, Fails DEF Field, MayCall
  <1>11. CASE FieldReturned
    BY <1>11, GoesOn DEF FieldReturned
  <1>12. CASE Members
    BY <1>12, Returns, Turns, Fails DEF Members, Closes, Count, MayTurn,
       Frames, FrameOK
  <1>13. CASE MemberValue
    BY <1>13, GoesOn, TurnsToExpr DEF MemberValue, Goto, Wholes, MayTurn,
       Frames, FrameOK
  <1>14. CASE EnumvalReturned
    BY <1>14, Turns DEF EnumvalReturned, Goto, SkipComma, MayTurn, Frames,
       FrameOK
  <1>15. CASE Item
    BY <1>15, GoesOn, Calls DEF Item, MayCall, Ends
  <1>16. CASE ItemReturned
    BY <1>16, GoesOn DEF ItemReturned
  <1> QED
    BY <1>1, <1>2, <1>3, <1>4, <1>5, <1>6, <1>7, <1>8, <1>9,
       <1>10, <1>11, <1>12, <1>13, <1>14, <1>15, <1>16

\* A node that is no operand of its own kind goes on to postfix or ops.
LEMMA YieldGood ==
  ASSUME IInv, Consume \/ Keep, Top.at = "prefix", NEW n \in Nodes,
         NEW l \in {"postfix", "ops"}, NodeOK(l, Top, n, cur'), Yield(l, n)
  PROVE  IInv'
  BY InHand, Stays DEF Yield, Good, PlaceOK, Places

\* The operand of a unary operator is called for.
LEMMA UnopCalled ==
  ASSUME IInv, Consume, At("prefix"),
         Expr(Append(stack, [Frame("unop") EXCEPT !.op = cur]), UnaryMin(cur))
  PROVE  IInv'
  <1> DEFINE f == [Frame("unop") EXCEPT !.op = cur]
             m == UnaryMin(cur)
  <1>1. f \in Frames /\ f.at = "unop" /\ f.op = cur /\ FrameOK(f)
    BY InHand, NewFrame DEF Frames, FrameOK, Points, ExprPoints
  <1>2. m \in 0..Tight
    BY Levels DEF Tight
  <1>3. Fits(Top, f)
    BY <1>1, InHand DEF At, PlaceOK, Fits, Yields, Takes, Primaries, StmtPoints, TypePoints
  <1>4. Fits(f, ExprFrame(m))
    BY <1>1, <1>2, NewExpr DEF Fits, OperandMin, Yields, Takes, ExprCalls, Exprs,
                             StmtPoints, TypePoints
  <1> HIDE DEF f, m
  <1>5. StackOK(Append(stack, f)) /\ Append(stack, f)[Len(Append(stack, f))] = f
    BY <1>1, <1>3, InHand, PushStack
  <1>6. Expr(Append(stack, f), m)
    BY DEF f, m
  <1> QED
    BY <1>2, <1>4, <1>5, <1>6, Stays, ExprGood DEF Expr, Proceed

\* Operands and what is applied to them.
LEMMA PrimarySteps ==
  ASSUME IInv, Prefix \/ PrefixReturned \/ Postfix
  PROVE  IInv'
  <1> USE InHand DEF At, Returned, Ordinary, PlaceOK, Places
  <1>1. CASE Prefix
    <2>1. \A k \in Exprs : /\ Node(k) \in Nodes
                           /\ \A c : NodeOK("postfix", Top, Node(k), c)
      BY NewNode DEF Exprs, Kinds, NodeOK
    <2>2. CASE cur \in UnOps /\ Consume
               /\ Expr(Append(stack, [Frame("unop") EXCEPT !.op = cur]), UnaryMin(cur))
      BY <1>1, <2>2, UnopCalled DEF Prefix
    <2>3. CASE \/ cur = "LIT" /\ Consume /\ Yield("postfix", Plain)
               \/ cur = "NAME" /\ Consume /\ Yield("postfix", Node("name"))
      BY <1>1, <2>1, <2>3, YieldGood DEF Prefix, Plain, Exprs
    <2>4. CASE \/ cur = "LPAREN" /\ Consume /\ Expr(Push("paren"), 0)
               \/ cur = "KW_IF" /\ Consume /\ Expr(Push("ifcond"), 0)
      BY <1>1, <2>4, CallsForExpr DEF Prefix, Wholes, MayCall, Points, ExprPoints,
                                     StmtPoints, TypePoints, Primaries, Yields, Takes
    <2>5. CASE \/ cur = "LBRACK" /\ Consume /\ Proceed("elems", Push("elem"))
               \/ cur = "AT" /\ Consume /\ Proceed("type", Push("structtype"))
      BY <1>1, <2>5, Calls DEF Prefix, MayCall, Points, ExprPoints, StmtPoints,
                              TypePoints, Primaries, Yields, Takes
    <2>6. CASE cur = "LBRACE" /\ Keep /\ Proceed("block", stack)
      BY <1>1, <2>6, GoesOn DEF Prefix
    <2> QED
      BY <1>1, <2>2, <2>3, <2>4, <2>5, <2>6, Fails DEF Prefix
  <1>2. CASE PrefixReturned
    BY <1>2, YieldGood DEF PrefixReturned, NodeOK, Keep
  <1>3. CASE Postfix
    <2>1. Top.at = "prefix" /\ Primary(node, cur)
      BY <1>3 DEF Postfix, NodeOK
    <2>2. CASE \/ cur = "LPAREN" /\ Consume /\ Proceed("args", Push("arg"))
               \/ cur = "AS" /\ Consume /\ Proceed("type", Push("casttype"))
      BY <2>1, <2>2, Calls DEF MayCall, Points, ExprPoints, StmtPoints, TypePoints,
                              Primaries, Yields, Takes
    <2>3. CASE cur = "LBRACK" /\ Consume /\ Expr(Push("index"), 0)
      BY <2>1, <2>3, CallsForExpr DEF Wholes, MayCall, Points, ExprPoints,
                                     StmtPoints, TypePoints, Primaries, Yields, Takes
    <2>4. CASE cur = "DOT" /\ Consume /\ Yield("membername", Plain)
      BY <2>1, <2>4, GoesOn DEF Yield, Proceed
    <2>5. CASE cur \notin PostfixOps /\ Keep /\ Yield("ops", node)
      <3>1. Top.min \in 0..Tight
        BY DEF Frames
      <3>2. NodeOK("ops", Top, node, cur)
        BY <2>1, <2>5, <3>1 DEF NodeOK, Primary, Tight
      <3> QED
        BY <2>1, <2>5, <3>2, YieldGood DEF Keep
    <2> QED
      BY <1>3, <2>2, <2>3, <2>4, <2>5 DEF Postfix
  <1> QED
    BY <1>1, <1>2, <1>3

\* The operand of a unary operator has been parsed.
LEMMA UnopSteps ==
  ASSUME IInv, UnopReturned
  PROVE  IInv'
  <1> DEFINE m == UnaryMin(Top.op)
             n == [kind |-> "expr", left |-> Tight, right |-> Lower(m, node.right)]
  <1>1. /\ Top.at = "unop" /\ Keep /\ Return(n)
        /\ node.right \in 0..Tight /\ m \in 0..Tight
    BY InHand, Levels DEF UnopReturned, Returned, Nodes, Tight
  <1>2. cur \notin PostfixOps /\ Ended(node, cur) /\ (cur \in BinOps => Level(cur) < m)
    BY <1>1, InHand DEF UnopReturned, Returned, NodeOK, OperandMin
  <1> HIDE DEF m
  <1>3. n \in Nodes /\ Ended(n, cur)
    BY <1>1, <1>2, LowerOf, Levels DEF Nodes, Kinds, Ended, Tight
  <1>4. n.kind \in Yields("unop") /\ Primary(n, cur) /\ "unop" \notin ExprCalls
    BY <1>2, <1>3 DEF Yields, Primaries, ExprCalls, Exprs, Primary
  <1> HIDE DEF n
  <1> QED
    BY <1>1, <1>3, <1>4, ReturnsNode

\* The loop of parse_expr.
LEMMA OpsSteps ==
  ASSUME IInv, Ops
  PROVE  IInv'
  <1>1. /\ Top.at = "prefix" /\ node.kind \in Exprs /\ node.left >= Top.min
        /\ cur \notin PostfixOps /\ Ended(node, cur)
    BY InHand DEF Ops, At, PlaceOK, NodeOK
  <1>2. CASE cur \in BinOps /\ Precedence(cur) >= Top.min /\ Consume
             /\ Expr(Append(Pop, [Top EXCEPT !.at = "rhs", !.op = cur, !.left = node.left]),
                     RhsMin(cur))
    <2> DEFINE f == [Top EXCEPT !.at = "rhs", !.op = cur, !.left = node.left]
               t == Append(Pop, f)
               m == RhsMin(cur)
    <2>1. f \in Frames /\ f.at = "rhs" /\ f.op = cur /\ f.min = Top.min /\ FrameOK(f)
      BY <1>1, <1>2, InHand DEF Frames, Nodes, Points, ExprPoints, FrameOK
    <2>2. m \in 0..Tight
      BY Levels DEF Tight
    <2> HIDE DEF f, m
    <2>3. Alike(Top, f)
      BY <1>1, <2>1 DEF Alike, Yields, ExprCalls, Primaries
    <2>4. StackOK(t) /\ t[Len(t)] = f
      BY <1>1, <2>1, <2>3, InHand, TurnStack DEF Pop
    <2>5. Fits(f, ExprFrame(m))
      BY <2>1, <2>2, NewExpr DEF Fits, OperandMin, Yields, Takes, ExprCalls, Exprs,
                               StmtPoints, TypePoints, m
    <2>6. Expr(t, m)
      BY <1>2 DEF f, m
    <2> HIDE DEF t
    <2> QED
      BY <1>2, <2>2, <2>4, <2>5, <2>6, Stays, ExprGood DEF Expr, Proceed
  <1>3. CASE ~(cur \in BinOps /\ Precedence(cur) >= Top.min) /\ Keep /\ Return(node)
    <2>1. cur \in BinOps => Level(cur) < Top.min
      BY <1>3, InHand, Levels DEF Frames
    <2>2. node.kind \in Yields("prefix") /\ "prefix" \notin Primaries
      BY <1>1 DEF Yields, ExprCalls, Primaries
    <2> QED
      BY <1>1, <1>3, <2>1, <2>2, InHand, ReturnsNode
  <1> QED
    BY <1>2, <1>3 DEF Ops

\* The operand to the right has been parsed.
LEMMA RhsSteps ==
  ASSUME IInv, RhsReturned
  PROVE  IInv'
  <1> DEFINE a == Lower(Top.left, Precedence(Top.op))
             b == Lower(RhsMin(Top.op), node.right)
             n == [kind |-> "expr", left |-> a, right |-> b]
             f == ExprFrame(Top.min)
             t == Append(Pop, f)
  <1>1. /\ Top.at = "rhs" /\ Keep
        /\ Top.left \in 0..Tight /\ Top.min \in 0..Tight /\ node.right \in 0..Tight
        /\ Precedence(Top.op) \in 0..Tight /\ RhsMin(Top.op) \in 0..Tight
    BY InHand, Levels DEF RhsReturned, Returned, Frames, Nodes, Tight
  <1>2. Top.left >= Top.min /\ Precedence(Top.op) >= Top.min
    BY <1>1, InHand DEF FrameOK
  <1>3. /\ cur \notin PostfixOps /\ Ended(node, cur)
        /\ cur \in BinOps => Level(cur) < RhsMin(Top.op)
    BY <1>1, InHand DEF RhsReturned, Returned, NodeOK, OperandMin
  <1>4. a \in 0..Tight /\ a >= Top.min
    <2> HIDE DEF n, t
    <2> QED
      BY <1>1, <1>2 DEF Lower, Tight
  <1>5. b \in 0..Tight /\ (cur \in BinOps => Level(cur) < b)
    BY <1>1, <1>3 DEF Ended, Lower, Tight
  <1>6. /\ f \in Frames /\ FrameOK(f) /\ f.at = "prefix" /\ f.min = Top.min
        /\ Alike(Top, f)
    BY <1>1, NewExpr DEF Alike, Yields, ExprCalls, Primaries
  <1> HIDE DEF a, b, f
  <1>7. n \in Nodes /\ NodeOK("ops", f, n, cur)
    BY <1>3, <1>4, <1>5, <1>6 DEF Nodes, Kinds, NodeOK, Exprs, Ended
  <1>8. StackOK(t) /\ t[Len(t)] = f
    BY <1>1, <1>6, InHand, TurnStack DEF Pop
  <1>9. pc' = "ops" /\ stack' = t /\ node' = n /\ cur' = cur
    BY <1>1 DEF RhsReturned, Keep, a, b, f
  <1> HIDE DEF n, t
  <1>10. Good("ops", t, n, cur)
    BY <1>6, <1>7, <1>8, InHand DEF Good, PlaceOK, Places
  <1> QED
    BY <1>1, <1>9, <1>10, Stays

\* An error goes through the calls in progress.
LEMMA UnwindSteps ==
  ASSUME IInv, Unwind
  PROVE  IInv'
  <1>1. CASE Proceed("error", stack) \/ Proceed("crash", stack)
    BY <1>1, GoesOn DEF Unwind, Ordinary, PlaceOK, Ends
  <1>2. CASE Top.at # "program" /\ Proceed("fail", Pop)
    <2>1. StackOK(Pop)
      BY <1>2, InHand, PopStack DEF Pop
    <2>2. ASSUME NEW c \in Tokens PROVE Good("fail", Pop, Plain, c)
      BY <2>1, <2>2, ProceedGood DEF PlaceOK, Places
    <2> QED
      BY <1>2, <2>2, Stays DEF Unwind, Proceed
  <1> QED
    BY <1>1, <1>2 DEF Unwind

-----------------------------------------------------------------------------
(* The theorems *)

LEMMA InitGood == Init => IInv
  <1> SUFFICES ASSUME Init PROVE IInv
    OBVIOUS
  <1>1. cur \in Tokens /\ open \in Seq(Openers \cup {"bad"}) /\ took \in BOOLEAN
    <2>1. cur \in Tokens
      BY VocabulariesAssumption DEF Init, Tokens
    <2>2. open \in Seq(Openers \cup {"bad"})
      BY DEF Init
    <2>3. took \in BOOLEAN
      BY DEF Init
    <2> QED
      BY <2>1, <2>2, <2>3
  <1>2. StackOK(<<Frame("program")>>)
    BY NewFrame DEF StackOK, Points, StmtPoints
  <1>3. Good("item", <<Frame("program")>>, Plain, cur)
    <2>1. PlaceOK("item", Frame("program").at)
      BY NewFrame DEF PlaceOK, Points, StmtPoints
    <2> DEFINE s == <<Frame("program")>>
    <2>2. s[Len(s)] = Frame("program")
      OBVIOUS
    <2> HIDE DEF s
    <2>3. StackOK(s)
      BY <1>2 DEF s
    <2>4. Good("item", s, Plain, cur)
      BY <1>1, <2>1, <2>2, <2>3, ProceedGood DEF Places
    <2> QED
      BY <2>4 DEF s
  <1> QED
    BY <1>1, <1>3 DEF Init, IInv

LEMMA NextGood == IInv /\ [Next]_vars => IInv'
  <1> SUFFICES ASSUME IInv, [Next]_vars PROVE IInv'
    OBVIOUS
  <1>1. CASE Step
    BY <1>1, ListSteps, BlockSteps, LoopSteps, StmtSteps, ItemSteps, PrimarySteps,
       UnopSteps, OpsSteps, RhsSteps, UnwindSteps DEF Step
  <1>2. CASE TooDeep
    BY <1>2, GoesOn DEF TooDeep, Ordinary, PlaceOK, Ends
  <1>3. CASE UNCHANGED vars
    BY <1>3 DEF vars, IInv
  <1> QED
    BY <1>1, <1>2, <1>3 DEF Next

LEMMA Reached == Spec => []IInv
  BY InitGood, NextGood, PTL DEF Spec

\* Every variable keeps its type: what lexer_next yields, the calls of parser.c
\* in progress, and the node that one of them returned.
THEOREM Typing == Spec => []TypeOK
  <1>1. IInv => TypeOK
    BY DEF IInv, Good, StackOK, TypeOK
  <1> QED
    BY <1>1, Reached, PTL

\* get_precedence and the loop of parse_expr group the operators of every
\* program as Grouped says.
THEOREM OperatorsGroup == Spec => []Grouped
  <1>1. ASSUME IInv PROVE Grouped
    <2>1. pc = "ops" /\ cur \in BinOps => Level(cur) < node.right
      BY <1>1, InHand DEF NodeOK, Ended
    <2>2. pc = "ret" /\ Top.at = "rhs" => node.left >= Above(Top.op)
      <3> SUFFICES ASSUME pc = "ret", Top.at = "rhs" PROVE node.left >= Above(Top.op)
        OBVIOUS
      <3>1. node.left >= RhsMin(Top.op) /\ Top.op \in BinOps
        BY <1>1, InHand DEF NodeOK, OperandMin, FrameOK
      <3>2. RhsMin(Top.op) = Above(Top.op)
        BY <3>1, Levels DEF RhsMin, Above, RightAssociative
      <3> QED
        BY <3>1, <3>2
    <2>3. pc = "ret" /\ Top.at = "unop" =>
            node.left >= IF Top.op \in BinOps THEN Level(Top.op) ELSE 6
      <3> SUFFICES ASSUME pc = "ret", Top.at = "unop"
                   PROVE  node.left >= IF Top.op \in BinOps THEN Level(Top.op) ELSE 6
        OBVIOUS
      <3>1. node.left >= UnaryMin(Top.op) /\ node.left \in Int
        BY <1>1, InHand DEF NodeOK, OperandMin, Nodes
      <3>2. /\ Top.op \in BinOps => UnaryMin(Top.op) = Level(Top.op)
            /\ Top.op \notin BinOps => UnaryMin(Top.op) \in {6, 8}
        BY DEF UnaryMin, Precedence, UnaryLevel
      <3> QED
        BY <3>1, <3>2
    <2> QED
      BY <2>1, <2>2, <2>3 DEF Grouped
  <1> QED
    BY <1>1, Reached, PTL

\* What follows a primary expression is applied to it before any operator.
THEOREM PostfixApplies == Spec => []PostfixFirst
  <1>1. ASSUME IInv PROVE PostfixFirst
    BY <1>1, InHand DEF NodeOK, Primary, PostfixFirst
  <1> QED
    BY <1>1, Reached, PTL

\* The parser puts no node where CimaEval has no place for it.
THEOREM NodesPlaced == Spec => []NodesFit
  <1>1. ASSUME IInv PROVE NodesFit
    <2>1. pc = "ret" => node.kind \in Takes(Top.at) /\ node.kind \in Kinds
      BY <1>1, InHand DEF NodeOK, Nodes
    <2>2. \A i \in DOMAIN stack : stack[i].last \in Exprs \cup {"none", "jump"}
      BY <1>1, InHand DEF StackOK, FrameOK
    <2>3. ASSUME pc = "ret", NEW k, k = node.kind, NEW p, p = Top.at
          PROVE  CASE k \in Exprs -> p \notin TypePoints \cup {"param", "field"}
                   [] k \in {"let", "for", "jump"} -> p \in StmtPoints
                   [] k = "decl" -> p = "program"
                   [] k = "func" -> p \in {"program", "field"}
                   [] OTHER -> p \in TypePoints \cup {"param", "field"}
      <3>1. k \in Takes(p) /\ k \in Kinds
        BY <2>1, <2>3
      <3> HIDE <2>3
      <3> QED
        BY <3>1 DEF Takes, Kinds, Exprs, StmtPoints, TypePoints
    <2> QED
      BY <2>2, <2>3 DEF NodesFit
  <1> QED
    BY <1>1, Reached, PTL

-----------------------------------------------------------------------------
(* Brackets *)

\* The bracket that the call at p has opened when it waits for another, and the
\* one of the call at p when the parser stands at l, where p may not yet have
\* got to its bracket or have left it behind.
Bracket(p) ==
  CASE p \in {"paren", "arg", "argval", "param"} -> "LPAREN"
    [] p \in {"elem", "index", "eltype"} -> "LBRACK"
    [] p \in {"node", "init", "initval", "field", "member", "enumval"} -> "LBRACE"
    [] OTHER -> "none"
Outside == {"funcname", "funcparen", "rettype", "body", "structname", "structbrace",
            "enumname", "enumbrace", "initbrace"}
Own(l, p) == IF l \in Outside THEN "none" ELSE Bracket(p)

\* The brackets o, and b after them.
With(o, b) == IF b = "none" THEN o ELSE Append(o, b)

\* o are the brackets of the calls that wait for the innermost one of s, where
\* h[i] are those of the calls that wait for the i-th.
Around(s, o) ==
  \E h \in [1..Len(s) -> Seq(Openers)] :
    /\ h[1] = <<>> /\ h[Len(s)] = o
    /\ \A i \in 1..(Len(s) - 1) : h[i + 1] = With(h[i], Bracket(s[i].at))

\* The open brackets are those of the calls in progress, in their order.  Once
\* something is wrong they no longer matter.
Lost == {"fail", "error", "crash", "deep"}
Held(l, s, b) ==
  \E o \in Seq(Openers) : Around(s, o) /\ b = With(o, Own(l, s[Len(s)].at))
BInv == pc \notin Lost => Held(pc, stack, open)

\* The step takes the brackets from those with b at their end to those with c.
Passes(b, c) ==
  \/ c = b /\ Keep
  \/ c = b /\ cur \notin Openers \cup {"RPAREN", "RBRACK", "RBRACE"} /\ Consume
  \/ b = "none" /\ cur \in Openers /\ c = cur /\ Consume
  \/ b = "LPAREN" /\ cur = "RPAREN" /\ c = "none" /\ Consume
  \/ b = "LBRACK" /\ cur = "RBRACK" /\ c = "none" /\ Consume
  \/ b = "LBRACE" /\ cur = "RBRACE" /\ c = "none" /\ Consume

LEMMA Brackets ==
  ASSUME NEW l, NEW p
  PROVE  /\ Bracket(p) \in Openers \cup {"none"}
         /\ Own(l, p) \in Openers \cup {"none"}
  BY DEF Bracket, Own, Openers

LEMMA Withs ==
  ASSUME NEW o \in Seq(Openers), NEW b \in Openers \cup {"none"}
  PROVE  With(o, b) \in Seq(Openers)
  BY DEF With, Openers

\* lexer_next keeps count of the brackets.
LEMMA Passing ==
  ASSUME NEW o \in Seq(Openers), NEW b, NEW c, Passes(b, c), open = With(o, b)
  PROVE  open' = With(o, c)
  <1>1. CASE Keep /\ c = b
    BY <1>1 DEF Keep
  <1>2. CASE Consume /\ c = b /\ cur \notin Openers \cup {"RPAREN", "RBRACK", "RBRACE"}
    BY <1>2 DEF Consume, Nest
  <1>3. CASE Consume /\ b = "none" /\ cur \in Openers /\ c = cur
    BY <1>3 DEF Consume, Nest, With, Openers
  <1>4. ASSUME Consume, b \in Openers, c = "none", cur = Matching[b], cur \notin Openers,
               cur \in {"RPAREN", "RBRACK", "RBRACE"}
        PROVE  open' = With(o, c)
    <2>1. open = Append(o, b) /\ open # <<>> /\ Len(open) = Len(o) + 1 /\ open[Len(open)] = b
      BY <1>4, LenProperties, AppendProperties DEF With, Openers
    <2>2. SubSeq(open, 1, Len(open) - 1) = o
      BY <2>1, <1>4
    <2>3. open' = SubSeq(open, 1, Len(open) - 1)
      BY <1>4, <2>1 DEF Consume, Nest
    <2> QED
      BY <1>4, <2>2, <2>3 DEF With
  <1>5. /\ Matching["LPAREN"] = "RPAREN" /\ Matching["LBRACK"] = "RBRACK"
        /\ Matching["LBRACE"] = "RBRACE"
    BY DEF Matching
  <1> QED
    BY <1>1, <1>2, <1>3, <1>4, <1>5 DEF Passes, Openers

\* A call is made by one that has got its bracket.
LEMMA AroundPush ==
  ASSUME NEW s \in Seq(Frames), s # <<>>, NEW f \in Frames, NEW o \in Seq(Openers), Around(s, o)
  PROVE  Around(Append(s, f), With(o, Bracket(s[Len(s)].at)))
  <1> DEFINE t == Append(s, f)
             n == Len(s)
             e == With(o, Bracket(s[n].at))
  <1>1. s \in Seq(Frames) /\ n \in Nat /\ n > 0
    OBVIOUS
  <1>2. Len(t) = n + 1 /\ \A i \in 1..n : t[i] = s[i]
    BY <1>1
  <1>3. e \in Seq(Openers)
    BY Withs, Brackets
  <1>4. PICK h \in [1..n -> Seq(Openers)] :
          /\ h[1] = <<>> /\ h[n] = o
          /\ \A i \in 1..(n - 1) : h[i + 1] = With(h[i], Bracket(s[i].at))
    BY DEF Around
  <1> DEFINE g == [i \in 1..(n + 1) |-> IF i = n + 1 THEN e ELSE h[i]]
  <1> HIDE DEF t, n, e
  <1>5. g \in [1..(n + 1) -> Seq(Openers)] /\ g[n + 1] = e /\ \A i \in 1..n : g[i] = h[i]
    BY <1>1, <1>3, <1>4
  <1> HIDE DEF g
  <1>6. g[1] = <<>>
    BY <1>1, <1>4, <1>5
  <1>7. ASSUME NEW i \in 1..n PROVE g[i + 1] = With(g[i], Bracket(t[i].at))
    <2>1. CASE i = n
      BY <2>1, <1>1, <1>2, <1>4, <1>5 DEF e
    <2>2. CASE i # n
      <3>1. i \in 1..(n - 1) /\ i + 1 \in 1..n
        BY <2>2, <1>1
      <3>2. g[i] = h[i] /\ g[i + 1] = h[i + 1] /\ t[i] = s[i]
        BY <3>1, <1>2, <1>5
      <3>3. h[i + 1] = With(h[i], Bracket(s[i].at))
        BY <3>1, <1>4
      <3> QED
        BY <3>2, <3>3
    <2> QED
      BY <2>1, <2>2
  <1>8. Len(t) - 1 = n
    BY <1>1, <1>2
  <1>9. Around(t, e)
    BY <1>2, <1>5, <1>6, <1>7, <1>8 DEF Around
  <1> QED
    BY <1>9 DEF t, e, n

\* The innermost call returns.
LEMMA AroundPop ==
  ASSUME NEW s, StackOK(s), s[Len(s)].at # "program", NEW o \in Seq(Openers), Around(s, o)
  PROVE  LET t == SubSeq(s, 1, Len(s) - 1)
         IN  \E u \in Seq(Openers) : Around(t, u) /\ o = With(u, Bracket(t[Len(t)].at))
  <1> DEFINE t == SubSeq(s, 1, Len(s) - 1)
             n == Len(s)
  <1>1. s \in Seq(Frames) /\ n \in Nat /\ n > 1
    BY DEF StackOK
  <1>2. Len(t) = n - 1 /\ \A i \in 1..n - 1 : t[i] = s[i]
    BY <1>1
  <1>3. PICK h \in [1..n -> Seq(Openers)] :
          /\ h[1] = <<>> /\ h[n] = o
          /\ \A i \in 1..(n - 1) : h[i + 1] = With(h[i], Bracket(s[i].at))
    BY DEF Around
  <1> DEFINE g == [i \in 1..(n - 1) |-> h[i]]
             u == g[n - 1]
  <1> HIDE DEF t, n
  <1>4. g \in [1..(n - 1) -> Seq(Openers)] /\ \A i \in 1..(n - 1) : g[i] = h[i]
    BY <1>1, <1>3
  <1> HIDE DEF g
  <1>5. g[1] = <<>> /\ u \in Seq(Openers)
    BY <1>1, <1>3, <1>4
  <1>6. ASSUME NEW i \in 1..(Len(t) - 1) PROVE g[i + 1] = With(g[i], Bracket(t[i].at))
    <2>1. i \in 1..(n - 1) /\ i + 1 \in 1..(n - 1)
      BY <1>1, <1>2
    <2>2. g[i] = h[i] /\ g[i + 1] = h[i + 1] /\ t[i] = s[i]
      BY <2>1, <1>2, <1>4
    <2>3. h[i + 1] = With(h[i], Bracket(s[i].at))
      BY <2>1, <1>3
    <2> QED
      BY <2>2, <2>3
  <1>7. Around(t, u)
    BY <1>2, <1>4, <1>5, <1>6 DEF Around
  <1>8. o = With(u, Bracket(t[Len(t)].at))
    BY <1>1, <1>2, <1>3, <1>4
  <1> QED
    BY <1>5, <1>7, <1>8 DEF t, n

\* The innermost call goes on as another one.
LEMMA AroundTurn ==
  ASSUME NEW s, StackOK(s), s[Len(s)].at # "program", NEW f \in Frames,
         NEW o \in Seq(Openers), Around(s, o)
  PROVE  LET t == Append(SubSeq(s, 1, Len(s) - 1), f)
         IN  Around(t, o) /\ t[Len(t)] = f /\ Len(t) = Len(s)
  <1> DEFINE q == SubSeq(s, 1, Len(s) - 1)
             t == Append(q, f)
  <1>1. StackOK(q) /\ Len(q) = Len(s) - 1 /\ Len(s) \in Nat
    BY PopStack DEF StackOK
  <1>2. PICK u \in Seq(Openers) : Around(q, u) /\ o = With(u, Bracket(q[Len(q)].at))
    BY AroundPop
  <1>3. Around(t, o)
    BY <1>1, <1>2, AroundPush DEF StackOK
  <1>4. t[Len(t)] = f /\ Len(t) = Len(s)
    BY <1>1 DEF StackOK
  <1> QED
    BY <1>3, <1>4

\* What a step does to the stack decides what is left to prove of it.
LEMMA StaysHeld ==
  ASSUME IInv, BInv, pc \notin Lost, stack' = stack,
         Passes(Own(pc, Top.at), Own(pc', Top.at))
  PROVE  BInv'
  <1>1. PICK o \in Seq(Openers) : Around(stack, o) /\ open = With(o, Own(pc, Top.at))
    BY DEF BInv, Held, Top
  <1>2. open' = With(o, Own(pc', Top.at))
    BY <1>1, Passing
  <1> QED
    BY <1>1, <1>2 DEF BInv, Held, Top

LEMMA TurnsHeld ==
  ASSUME IInv, BInv, pc \notin Lost, Top.at # "program",
         NEW f \in Frames, NEW l, Passes(Own(pc, Top.at), Own(l, f.at))
  PROVE  LET t == Append(Pop, f)
         IN  Held(l, t, open') /\ t[Len(t)] = f
  <1> DEFINE t == Append(Pop, f)
  <1>1. PICK o \in Seq(Openers) : Around(stack, o) /\ open = With(o, Own(pc, Top.at))
    BY DEF BInv, Held, Top
  <1>2. open' = With(o, Own(l, f.at))
    BY <1>1, Passing
  <1>3. Around(t, o) /\ t[Len(t)] = f
    BY <1>1, InHand, AroundTurn DEF Pop
  <1> QED
    BY <1>1, <1>2, <1>3 DEF Held

LEMMA CallsHeld ==
  ASSUME IInv, BInv, pc \notin Lost \cup Outside,
         NEW f \in Frames, NEW l, Passes("none", Own(l, f.at))
  PROVE  Held(l, Append(stack, f), open')
  <1>1. PICK o \in Seq(Openers) : Around(stack, o) /\ open = With(o, Own(pc, Top.at))
    BY DEF BInv, Held, Top
  <1> DEFINE e == With(o, Bracket(Top.at))
             t == Append(stack, f)
  <1>2. Around(t, e) /\ e \in Seq(Openers)
    BY <1>1, InHand, AroundPush, Withs, Brackets DEF StackOK
  <1>3. open = With(e, "none")
    BY <1>1 DEF Own, With
  <1>4. t[Len(t)] = f
    BY InHand DEF StackOK
  <1> HIDE DEF e, t
  <1>5. open' = With(e, Own(l, f.at))
    BY <1>2, <1>3, Passing
  <1>6. Held(l, t, open')
    BY <1>2, <1>4, <1>5 DEF Held
  <1> QED
    BY <1>6 DEF t

LEMMA ReturnsHeld ==
  ASSUME IInv, BInv, pc \notin Lost, Top.at # "program",
         stack' = Pop, pc' = "ret", Passes(Own(pc, Top.at), "none")
  PROVE  BInv'
  <1>1. PICK o \in Seq(Openers) : Around(stack, o) /\ open = With(o, Own(pc, Top.at))
    BY DEF BInv, Held, Top
  <1>2. open' = With(o, "none")
    BY <1>1, Passing
  <1>3. PICK u \in Seq(Openers) : Around(Pop, u) /\ o = With(u, Bracket(Pop[Len(Pop)].at))
    BY <1>1, InHand, AroundPop DEF Pop
  <1>4. open' = With(u, Own("ret", Pop[Len(Pop)].at))
    BY <1>2, <1>3 DEF With, Own, Outside
  <1> QED
    BY <1>3, <1>4 DEF BInv, Held

\* parse_expr is called on top of a stack whose innermost call has its bracket.
LEMMA ExprHeld ==
  ASSUME NEW s \in Seq(Frames), s # <<>>, NEW b, Held("ret", s, b), NEW m \in 0..Tight
  PROVE  Held("prefix", Append(s, ExprFrame(m)), b)
  <1>1. PICK o \in Seq(Openers) : Around(s, o) /\ b = With(o, Own("ret", s[Len(s)].at))
    BY DEF Held
  <1> DEFINE e == With(o, Bracket(s[Len(s)].at))
             t == Append(s, ExprFrame(m))
  <1>2. Around(t, e) /\ e \in Seq(Openers)
    BY <1>1, NewExpr, AroundPush, Withs, Brackets
  <1>3. b = e
    BY <1>1 DEF Own, Outside
  <1>4. t[Len(t)].at = "prefix"
    BY NewExpr
  <1> HIDE DEF e, t
  <1>5. b = With(e, Own("prefix", "prefix"))
    BY <1>3 DEF With, Own, Bracket, Outside
  <1>6. Held("prefix", t, b)
    BY <1>2, <1>4, <1>5 DEF Held
  <1> QED
    BY <1>6 DEF t

\* The same, for the ways in which the actions say it.
LEMMA GoesOnHeld ==
  ASSUME IInv, BInv, pc \notin Lost, NEW l, Proceed(l, stack),
         Passes(Own(pc, Top.at), Own(l, Top.at))
  PROVE  BInv'
  BY StaysHeld DEF Proceed

LEMMA MovesHeld ==
  ASSUME IInv, BInv, pc \notin Lost, Top.at # "program",
         NEW f \in Frames, NEW l, Proceed(l, Append(Pop, f)),
         Passes(Own(pc, Top.at), Own(l, f.at))
  PROVE  BInv'
  BY TurnsHeld DEF Proceed, BInv

LEMMA PushesHeld ==
  ASSUME IInv, BInv, pc \notin Lost \cup Outside,
         NEW p \in Points, NEW l, Proceed(l, Push(p)), Passes("none", Own(l, p))
  PROVE  BInv'
  BY CallsHeld, NewFrame DEF Proceed, Push, BInv

LEMMA WholeHeld ==
  ASSUME IInv, BInv, pc \notin Lost, NEW m \in 0..Tight, Expr(stack, m),
         Passes(Own(pc, Top.at), Bracket(Top.at))
  PROVE  BInv'
  <1>1. PICK o \in Seq(Openers) : Around(stack, o) /\ open = With(o, Own(pc, Top.at))
    BY DEF BInv, Held, Top
  <1>2. Held("ret", stack, open')
    BY <1>1, Passing DEF Held, Top, Own, Outside
  <1>3. Held("prefix", Append(stack, ExprFrame(m)), open')
    BY <1>2, InHand, ExprHeld DEF StackOK
  <1> QED
    BY <1>3 DEF BInv, Expr, Proceed

LEMMA PushesExprHeld ==
  ASSUME IInv, BInv, pc \notin Lost \cup Outside, NEW m \in 0..Tight,
         NEW f \in Frames, Expr(Append(stack, f), m), Passes("none", Bracket(f.at))
  PROVE  BInv'
  <1>1. Held("ret", Append(stack, f), open')
    BY CallsHeld DEF Own, Outside
  <1>2. Append(stack, f) \in Seq(Frames) /\ Append(stack, f) # <<>>
    BY InHand DEF StackOK
  <1>3. Held("prefix", Append(Append(stack, f), ExprFrame(m)), open')
    BY <1>1, <1>2, ExprHeld
  <1> QED
    BY <1>3 DEF BInv, Expr, Proceed

LEMMA MovesExprHeld ==
  ASSUME IInv, BInv, pc \notin Lost, Top.at # "program", NEW m \in 0..Tight,
         NEW f \in Frames, Expr(Append(Pop, f), m), Passes(Own(pc, Top.at), Bracket(f.at))
  PROVE  BInv'
  <1>1. Held("ret", Append(Pop, f), open')
    BY TurnsHeld DEF Own, Outside
  <1>2. Append(Pop, f) \in Seq(Frames) /\ Append(Pop, f) # <<>>
    BY InHand, PopStack DEF Pop, StackOK
  <1>3. Held("prefix", Append(Append(Pop, f), ExprFrame(m)), open')
    BY <1>1, <1>2, ExprHeld
  <1> QED
    BY <1>3 DEF BInv, Expr, Proceed

LEMMA BackHeld ==
  ASSUME IInv, BInv, pc \notin Lost, Top.at # "program",
         NEW n, Return(n), Passes(Own(pc, Top.at), "none")
  PROVE  BInv'
  BY ReturnsHeld DEF Return

LEMMA AnswersHeld ==
  ASSUME IInv, BInv, pc \notin Lost, pc \notin Outside, NEW n, Answer(n),
         Passes(Bracket(Top.at), Bracket(Top.at))
  PROVE  BInv'
  <1>1. Passes(Own(pc, Top.at), Own(pc', Top.at))
    BY DEF Answer, Own, Outside
  <1> QED
    BY <1>1, StaysHeld DEF Answer

LEMMA FailsHeld ==
  ASSUME Fail
  PROVE  BInv'
  BY DEF Fail, Proceed, BInv, Lost

\* Brackets, arguments and initializers.
LEMMA ListHeld ==
  ASSUME IInv, BInv,
         ParenReturned \/ Elems \/ ElemReturned \/ IndexReturned
         \/ CastReturned \/ Args \/ ArgReturned \/ ArgvalReturned
         \/ StructtypeReturned \/ Inits \/ InitReturned
         \/ InitvalReturned
  PROVE  BInv'
  <1> USE InHand, FailsHeld DEF At, Returned, PlaceOK, Points, ExprPoints, StmtPoints,
      BlockPoints, TypePoints, Own, Outside, Bracket, Lost, Passes, Openers
  <1>1. CASE ParenReturned
    BY <1>1, BackHeld DEF ParenReturned, Closes
  <1>2. CASE Elems
    BY <1>2, WholeHeld, BackHeld DEF Elems, Closes, Unclosed, Tight
  <1>3. CASE ElemReturned
    BY <1>3, GoesOnHeld DEF ElemReturned, SkipComma
  <1>4. CASE IndexReturned
    BY <1>4, BackHeld DEF IndexReturned, Closes
  <1>5. CASE CastReturned
    BY <1>5, BackHeld DEF CastReturned
  <1>6. CASE Args
    BY <1>6, WholeHeld, BackHeld DEF Args, List, Closes, Unclosed, Tight
  <1>7. CASE ArgReturned
    BY <1>7, MovesExprHeld, GoesOnHeld DEF ArgReturned, ItemOfList,
       SkipComma, Goto, Frames, Tight
  <1>9. CASE StructtypeReturned
    BY <1>9, MovesHeld, NewFrame DEF StructtypeReturned, Turn
  <1>10. CASE Inits
    BY <1>10, WholeHeld, BackHeld DEF Inits, List, Closes, Unclosed, Tight
  <1>11. CASE InitReturned
    BY <1>11, MovesExprHeld, GoesOnHeld DEF InitReturned, ItemOfList,
       SkipComma, Goto, Frames, Tight
  <1>13. ASSUME NEW p \in Points \ {"rhs"}, NEW l, ValueOfItem(p, l), Top.at # "program",
                Own(l, p) = Own(pc, Top.at), pc \notin Lost
         PROVE  BInv'
    <2> DEFINE k == IF Top.n = 2 THEN 2 ELSE Top.n + 1
               f == [Frame(p) EXCEPT !.n = k]
    <2>1. k \in 0..2
      BY DEF Frames
    <2> HIDE DEF k
    <2>2. f \in Frames /\ f.at = p
      BY <1>13, <2>1, NewCount
    <2>3. Proceed(l, Append(Pop, f)) /\ SkipComma
      BY <1>13 DEF ValueOfItem, k
    <2> HIDE DEF f
    <2>4. Passes(Own(pc, Top.at), Own(l, f.at))
      BY <1>13, <2>2, <2>3 DEF SkipComma
    <2> QED
      BY <1>13, <2>2, <2>3, <2>4, MovesHeld
  <1>8. CASE ArgvalReturned
    BY <1>8, <1>13 DEF ArgvalReturned
  <1>12. CASE InitvalReturned
    BY <1>12, <1>13 DEF InitvalReturned
  <1> QED
    BY <1>1, <1>2, <1>3, <1>4, <1>5, <1>6, <1>7, <1>8, <1>9,
       <1>10, <1>11, <1>12

\* Blocks and branches.
LEMMA BlockHeld ==
  ASSUME IInv, BInv,
         Block \/ BlockNodes \/ NodeReturned \/ Semicolons
         \/ IfcondReturned \/ IfbodyReturned \/ ElseReturned
  PROVE  BInv'
  <1> USE InHand, FailsHeld DEF At, Returned, PlaceOK, Points, ExprPoints, StmtPoints,
      BlockPoints, TypePoints, Own, Outside, Bracket, Lost, Passes, Openers
  <1>1. CASE Block
    BY <1>1, PushesHeld DEF Block
  <1>2. CASE BlockNodes
    BY <1>2, GoesOnHeld, BackHeld DEF BlockNodes, Closes, Unclosed
  <1>3. CASE NodeReturned
    BY <1>3, MovesHeld DEF NodeReturned, NodeOK, Takes, Exprs, Frames, Kinds
  <1>4. CASE Semicolons
    BY <1>4, GoesOnHeld DEF Semicolons
  <1>5. CASE IfcondReturned
    BY <1>5, MovesHeld, NewFrame DEF IfcondReturned, Turn
  <1>6. CASE IfbodyReturned
    <2>1. /\ pc = "ret" /\ Top.at = "ifbody"
          /\ \/ cur = "KW_ELIF" /\ Consume /\ Expr(Append(Pop, Frame("ifcond")), 0)
             \/ cur = "KW_ELSE" /\ Consume /\ Proceed("block", Append(Pop, Frame("else")))
             \/ Keep /\ Return(Plain)
      BY <1>6 DEF IfbodyReturned, Turn
    <2>2. Frame("ifcond") \in Frames /\ Frame("ifcond").at = "ifcond"
      BY NewFrame
    <2>3. Frame("else") \in Frames /\ Frame("else").at = "else"
      BY NewFrame
    <2>4. CASE cur = "KW_ELIF" /\ Consume /\ Expr(Append(Pop, Frame("ifcond")), 0)
      BY <2>1, <2>2, <2>4, MovesExprHeld DEF Tight
    <2>5. CASE cur = "KW_ELSE" /\ Consume /\ Proceed("block", Append(Pop, Frame("else")))
      BY <2>1, <2>3, <2>5, MovesHeld
    <2> QED
      BY <2>1, <2>4, <2>5, BackHeld
  <1>7. CASE ElseReturned
    BY <1>7, BackHeld DEF ElseReturned
  <1> QED
    BY <1>1, <1>2, <1>3, <1>4, <1>5, <1>6, <1>7

\* Loops and jumps.
LEMMA LoopHeld ==
  ASSUME IInv, BInv,
         Initializer \/ ForinitReturned \/ Condition \/ ForcondReturned
         \/ ForNext \/ HeadReturned \/ ForbodyReturned \/ ReturnValue
         \/ RetvalReturned
  PROVE  BInv'
  <1> USE InHand, FailsHeld DEF At, Returned, PlaceOK, Points, ExprPoints, StmtPoints,
      BlockPoints, TypePoints, Own, Outside, Bracket, Lost, Passes, Openers
  <1>1. CASE Initializer
    BY <1>1, GoesOnHeld, MovesHeld, NewFrame DEF Initializer, Turn
  <1>2. CASE ForinitReturned
    BY <1>2, GoesOnHeld DEF ForinitReturned, Semicolon
  <1>3. CASE Condition
    BY <1>3, GoesOnHeld, MovesHeld, NewFrame DEF Condition, Turn
  <1>4. CASE ForcondReturned
    BY <1>4, GoesOnHeld DEF ForcondReturned, Semicolon
  <1>5. CASE ForNext
    BY <1>5, MovesHeld, NewFrame DEF ForNext, Turn
  <1>6. CASE HeadReturned
    BY <1>6, MovesHeld, NewFrame DEF HeadReturned, Turn
  <1>7. CASE ForbodyReturned
    BY <1>7, BackHeld DEF ForbodyReturned
  <1>8. CASE ReturnValue
    BY <1>8, WholeHeld, BackHeld DEF ReturnValue, Tight
  <1>9. CASE RetvalReturned
    BY <1>9, BackHeld DEF RetvalReturned
  <1> QED
    BY <1>1, <1>2, <1>3, <1>4, <1>5, <1>6, <1>7, <1>8, <1>9

\* Declarations of variables, statements and types.
LEMMA StmtHeld ==
  ASSUME IInv, BInv,
         LetType \/ LettypeReturned \/ LetInit \/ LetinitReturned
         \/ Stmt \/ Type \/ ElType \/ EltypeReturned \/ PattypeReturned
         \/ PatinitReturned
  PROVE  BInv'
  <1> USE InHand, FailsHeld DEF At, Returned, PlaceOK, Points, ExprPoints, StmtPoints,
      BlockPoints, TypePoints, Own, Outside, Bracket, Lost, Passes, Openers
  <1>1. CASE LetType
    BY <1>1, GoesOnHeld, MovesHeld, NewFrame DEF LetType, Turn
  <1>2. CASE LettypeReturned
    BY <1>2, GoesOnHeld DEF LettypeReturned
  <1>3. CASE LetInit
    BY <1>3, MovesExprHeld, BackHeld, NewFrame DEF LetInit, Turn, Tight
  <1>4. CASE LetinitReturned
    BY <1>4, BackHeld DEF LetinitReturned
  <1>5. CASE Stmt
    BY <1>5, PushesHeld, WholeHeld, AnswersHeld DEF Stmt, StmtStart, Tight
  <1>6. CASE Type
    BY <1>6, PushesHeld, GoesOnHeld, AnswersHeld DEF Type
  <1>7. CASE ElType
    BY <1>7, GoesOnHeld, BackHeld DEF ElType, Closes
  <1>8. CASE EltypeReturned
    BY <1>8, BackHeld DEF EltypeReturned, Closes
  <1>9. CASE PattypeReturned
    <2>1. \A k \in 0..2 : /\ [Frame("patinit") EXCEPT !.n = k] \in Frames
                          /\ [Frame("patinit") EXCEPT !.n = k].at = "patinit"
      <3>1. "patinit" \in Points \ {"rhs"}
        BY DEF Points
      <3> QED
        BY <3>1, NewCount
    <2> DEFINE f == [Frame("patinit") EXCEPT !.n = IF node.kind = "va" THEN 1 ELSE 0]
    <2>2. f \in Frames /\ f.at = "patinit"
      BY <2>1
    <2>3. /\ pc = "ret" /\ Top.at = "pattype"
          /\ \/ cur = "ASSIGN" /\ Consume /\ Expr(Append(Pop, f), 0)
             \/ Keep /\ Return(node)
      BY <1>9 DEF PattypeReturned
    <2> HIDE DEF f
    <2>4. CASE cur = "ASSIGN" /\ Consume /\ Expr(Append(Pop, f), 0)
      BY <2>2, <2>3, <2>4, MovesExprHeld DEF Tight
    <2>5. CASE Keep /\ Return(node)
      BY <2>3, <2>5, BackHeld
    <2> QED
      BY <2>3, <2>4, <2>5
  <1>10. CASE PatinitReturned
    BY <1>10, BackHeld DEF PatinitReturned
  <1> QED
    BY <1>1, <1>2, <1>3, <1>4, <1>5, <1>6, <1>7, <1>8, <1>9,
       <1>10

\* Functions, structs, enums and the program.
LEMMA ItemHeld ==
  ASSUME IInv, BInv,
         Expect \/ Params \/ ParamReturned \/ ReturnType
         \/ FunctypeReturned \/ Body \/ FuncbodyReturned \/ Fields
         \/ FieldConst \/ Field \/ FieldReturned \/ Members
         \/ MemberValue \/ EnumvalReturned \/ Item \/ ItemReturned
  PROVE  BInv'
  <1> USE InHand, FailsHeld DEF At, Returned, PlaceOK, Points, ExprPoints, StmtPoints,
      BlockPoints, TypePoints, Own, Outside, Bracket, Lost, Passes, Openers
  <1>1. CASE Expect
    BY <1>1, GoesOnHeld DEF Expect, Expected
  <1>2. CASE Params
    BY <1>2, PushesHeld, MovesHeld, NewFrame DEF Params, Turn
  <1>3. CASE ParamReturned
    BY <1>3, MovesHeld DEF ParamReturned, Count, SkipComma, Frames
  <1>4. CASE ReturnType
    BY <1>4, GoesOnHeld, MovesHeld, NewFrame DEF ReturnType, Turn
  <1>5. CASE FunctypeReturned
    BY <1>5, GoesOnHeld DEF FunctypeReturned
  <1>6. CASE Body
    BY <1>6, MovesHeld, NewFrame DEF Body, Turn
  <1>7. CASE FuncbodyReturned
    BY <1>7, BackHeld DEF FuncbodyReturned
  <1>8. CASE Fields
    BY <1>8, GoesOnHeld, BackHeld DEF Fields, Closes, Unclosed
  <1>9. CASE FieldConst
    BY <1>9, GoesOnHeld DEF FieldConst
  <1>10. CASE Field
    BY <1>10, PushesHeld DEF Field
  <1>11. CASE FieldReturned
    BY <1>11, GoesOnHeld DEF FieldReturned
  <1>12. CASE Members
    BY <1>12, BackHeld, MovesHeld DEF Members, Closes, Count, Frames
  <1>13. CASE MemberValue
    BY <1>13, GoesOnHeld, MovesExprHeld DEF MemberValue, Goto, Frames, Tight
  <1>14. CASE EnumvalReturned
    BY <1>14, MovesHeld DEF EnumvalReturned, Goto, SkipComma, Frames
  <1>15. CASE Item
    BY <1>15, GoesOnHeld, PushesHeld DEF Item
  <1>16. CASE ItemReturned
    BY <1>16, GoesOnHeld DEF ItemReturned
  <1> QED
    BY <1>1, <1>2, <1>3, <1>4, <1>5, <1>6, <1>7, <1>8, <1>9,
       <1>10, <1>11, <1>12, <1>13, <1>14, <1>15, <1>16

\* Expressions.
LEMMA ExprsHeld ==
  ASSUME IInv, BInv,
         Prefix \/ PrefixReturned \/ Postfix \/ UnopReturned \/ Ops \/ RhsReturned
  PROVE  BInv'
  <1> USE InHand, FailsHeld DEF At, Returned, PlaceOK, Points, ExprPoints, StmtPoints,
      BlockPoints, TypePoints, Own, Outside, Bracket, Lost, Passes, Openers
  <1>1. CASE Prefix
    <2>1. CASE cur \in UnOps /\ Consume
               /\ Expr(Append(stack, [Frame("unop") EXCEPT !.op = cur]), UnaryMin(cur))
      <3> DEFINE f == [Frame("unop") EXCEPT !.op = cur]
                 m == UnaryMin(cur)
      <3>1. f \in Frames /\ f.at = "unop"
        BY NewFrame DEF Frames
      <3>2. m \in 0..Tight /\ cur \notin Openers \cup {"RPAREN", "RBRACK", "RBRACE"}
        BY <2>1, Levels DEF Tight, UnOps
      <3>3. Expr(Append(stack, f), m)
        BY <2>1
      <3> HIDE DEF f, m
      <3> QED
        BY <1>1, <2>1, <3>1, <3>2, <3>3, PushesExprHeld DEF Prefix
    <2>2. CASE \/ cur = "LIT" /\ Consume /\ Yield("postfix", Plain)
               \/ cur = "NAME" /\ Consume /\ Yield("postfix", Node("name"))
      <3>1. /\ pc = "prefix" /\ Top.at = "prefix"
            /\ stack' = stack /\ pc' = "postfix" /\ Consume
        BY <1>1, <2>2 DEF Prefix, Yield
      <3>2. Passes(Own(pc, Top.at), Own(pc', Top.at))
        BY <2>2, <3>1
      <3> QED
        BY <3>1, <3>2, StaysHeld
    <2>3. CASE \/ cur = "LPAREN" /\ Consume /\ Expr(Push("paren"), 0)
               \/ cur = "KW_IF" /\ Consume /\ Expr(Push("ifcond"), 0)
      <3>1. ASSUME NEW p \in {"paren", "ifcond"}, Expr(Push(p), 0), Consume,
                   Passes("none", Bracket(p)), pc = "prefix"
            PROVE  BInv'
        <4>1. Frame(p) \in Frames /\ Frame(p).at = p
          BY NewFrame
        <4> QED
          BY <3>1, <4>1, PushesExprHeld DEF Push, Tight
      <3> QED
        BY <1>1, <2>3, <3>1 DEF Prefix
    <2>4. CASE \/ cur = "LBRACK" /\ Consume /\ Proceed("elems", Push("elem"))
               \/ cur = "AT" /\ Consume /\ Proceed("type", Push("structtype"))
      BY <1>1, <2>4, PushesHeld DEF Prefix
    <2>5. CASE cur = "LBRACE" /\ Keep /\ Proceed("block", stack)
      BY <1>1, <2>5, GoesOnHeld DEF Prefix
    <2> QED
      BY <1>1, <2>1, <2>2, <2>3, <2>4, <2>5 DEF Prefix
  <1>2. CASE PrefixReturned
    BY <1>2, StaysHeld DEF PrefixReturned, Yield
  <1>3. CASE Postfix
    <2>1. CASE cur = "LBRACK" /\ Consume /\ Expr(Push("index"), 0)
      BY <1>3, <2>1, PushesExprHeld, NewFrame DEF Postfix, Push, Tight
    <2>2. CASE \/ cur = "LPAREN" /\ Consume /\ Proceed("args", Push("arg"))
               \/ cur = "AS" /\ Consume /\ Proceed("type", Push("casttype"))
      <3>1. /\ pc = "postfix" /\ Top.at = "prefix" /\ Consume
            /\ \/ cur = "LPAREN" /\ Proceed("args", Push("arg"))
               \/ cur = "AS" /\ Proceed("type", Push("casttype"))
        BY <1>3, <2>2 DEF Postfix
      <3> QED
        BY <3>1, PushesHeld
    <2>3. CASE \/ cur = "DOT" /\ Consume /\ Yield("membername", Plain)
               \/ cur \notin PostfixOps /\ Keep /\ Yield("ops", node)
      BY <1>3, <2>3, StaysHeld DEF Postfix, Yield
    <2> QED
      BY <1>3, <2>1, <2>2, <2>3 DEF Postfix
  <1>4. CASE UnopReturned
    BY <1>4, BackHeld DEF UnopReturned
  <1>5. CASE Ops
    <2>1. CASE cur \in BinOps /\ Precedence(cur) >= Top.min /\ Consume
               /\ Expr(Append(Pop, [Top EXCEPT !.at = "rhs", !.op = cur, !.left = node.left]),
                       RhsMin(cur))
      <3> DEFINE f == [Top EXCEPT !.at = "rhs", !.op = cur, !.left = node.left]
                 m == RhsMin(cur)
      <3>1. f \in Frames /\ f.at = "rhs"
        BY DEF Frames, Nodes
      <3>2. m \in 0..Tight /\ cur \notin Openers \cup {"RPAREN", "RBRACK", "RBRACE"}
        BY <2>1, Levels DEF Tight, BinOps
      <3>3. Expr(Append(Pop, f), m)
        BY <2>1
      <3> HIDE DEF f, m
      <3> QED
        BY <1>5, <2>1, <3>1, <3>2, <3>3, MovesExprHeld DEF Ops
    <2>2. CASE Keep /\ Return(node)
      BY <1>5, <2>2, BackHeld DEF Ops
    <2> QED
      BY <1>5, <2>1, <2>2 DEF Ops
  <1>6. CASE RhsReturned
    <2>1. ExprFrame(Top.min) \in Frames /\ ExprFrame(Top.min).at = "prefix"
      BY NewExpr DEF Frames
    <2>2. Passes(Own(pc, Top.at), Own("ops", ExprFrame(Top.min).at))
      BY <1>6, <2>1 DEF RhsReturned
    <2>3. Held("ops", stack', open')
      BY <1>6, <2>1, <2>2, TurnsHeld DEF RhsReturned
    <2> QED
      BY <1>6, <2>3 DEF RhsReturned, BInv
  <1> QED
    BY <1>1, <1>2, <1>3, <1>4, <1>5, <1>6

LEMMA InitHeld == Init => BInv
  <1> SUFFICES ASSUME Init PROVE BInv
    OBVIOUS
  <1> DEFINE s == <<Frame("program")>>
  <1>1. Len(s) = 1 /\ s[1].at = "program"
    BY NewFrame DEF Points, StmtPoints
  <1> HIDE DEF s
  <1>2. Around(s, <<>>)
    <2> DEFINE h == [i \in 1..1 |-> <<>>]
    <2>1. h \in [1..1 -> Seq(Openers)] /\ h[1] = <<>>
      OBVIOUS
    <2> HIDE DEF h
    <2> QED
      BY <1>1, <2>1 DEF Around
  <1>3. <<>> = With(<<>>, Own("item", s[Len(s)].at))
    BY <1>1 DEF With, Own, Bracket, Outside
  <1>4. Held("item", s, <<>>)
    <2>1. <<>> \in Seq(Openers)
      OBVIOUS
    <2> QED
      BY <1>2, <1>3, <2>1 DEF Held
  <1> QED
    BY <1>4 DEF Init, BInv, s

LEMMA NextHeld == IInv /\ BInv /\ [Next]_vars => BInv'
  <1> SUFFICES ASSUME IInv, BInv, [Next]_vars PROVE BInv'
    OBVIOUS
  <1>1. CASE Unwind \/ TooDeep
    <2>1. pc' \in Lost
      BY <1>1 DEF Unwind, TooDeep, Proceed, Lost
    <2> QED
      BY <2>1 DEF BInv
  <1>2. CASE Step /\ ~Unwind
    BY <1>2, ListHeld, BlockHeld, LoopHeld, StmtHeld, ItemHeld, ExprsHeld DEF Step
  <1>3. CASE UNCHANGED vars
    BY <1>3 DEF vars, BInv
  <1> QED
    BY <1>1, <1>2, <1>3 DEF Next

\* A program is accepted only if every bracket it opens is closed, in order, by
\* the bracket of its kind: then no call but parse_program is in progress.
THEOREM BracketsClosed == Spec => []Balanced
  <1>1. ASSUME IInv, BInv, pc = "done" PROVE open = <<>>
    <2>1. StackOK(stack) /\ Top.at = "program" /\ pc \notin Lost
      BY <1>1, InHand DEF PlaceOK, Lost
    <2>2. stack \in Seq(Frames) /\ Len(stack) \in Nat /\ Len(stack) > 0
      BY <2>1 DEF StackOK
    <2>3. Len(stack) = 1
      <3> SUFFICES ASSUME Len(stack) # 1 PROVE FALSE
        OBVIOUS
      <3> DEFINE i == Len(stack) - 1
      <3>1. i \in 1..(Len(stack) - 1) /\ i + 1 = Len(stack)
        <4> DEFINE n == Len(stack)
        <4>1. n \in Nat /\ n > 0 /\ n # 1
          BY <2>2
        <4> HIDE DEF n
        <4>2. n - 1 \in 1..(n - 1) /\ n - 1 + 1 = n
          BY <4>1
        <4> QED
          BY <4>2 DEF n
      <3>2. Fits(stack[i], stack[i + 1])
        BY <2>1, <3>1 DEF StackOK
      <3> QED
        BY <2>1, <3>1, <3>2 DEF Fits, Top
    <2>4. PICK o \in Seq(Openers) : Around(stack, o) /\ open = With(o, Own(pc, Top.at))
      BY <1>1, <2>1 DEF BInv, Held, Top
    <2>5. o = <<>>
      BY <2>3, <2>4 DEF Around
    <2> QED
      BY <2>1, <2>4, <2>5, <1>1 DEF With, Own, Bracket, Outside
  <1>2. IInv /\ BInv => Balanced
    BY <1>1 DEF Balanced
  <1>3. Init => IInv /\ BInv
    BY InitGood, InitHeld
  <1>4. IInv /\ BInv /\ [Next]_vars => (IInv /\ BInv)'
    BY NextGood, NextHeld
  <1> QED
    BY <1>2, <1>3, <1>4, PTL DEF Spec
===============================================================================
