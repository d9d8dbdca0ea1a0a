------------------------------ MODULE CimaEval ------------------------------
(***************************************************************************)
(* The evaluator of cima (executor.c, exec_func of funcs.c) as an abstract *)
(* machine.  The C call stack is a sequence of frames, one for each        *)
(* activation of an execute_* function that waits for a sub-node; a node   *)
(* under execution is chosen here, by the action that executes it, so the  *)
(* machine runs every program the parser can build (and, because it        *)
(* chooses again at each visit, some the parser cannot: an                 *)
(* over-approximation that is sound for the properties below).  Values are *)
(* abstracted to what control depends on: a condition is true or false and *)
(* an operation may or may not raise a type, name or range error.          *)
(***************************************************************************)
EXTENDS Naturals, Sequences, FiniteSets

CONSTANTS
  MaxDepth,   \* max_recursion_depth (512 in the code)
  MaxStack,   \* bound: frames on the C stack
  MaxElif,    \* bound: elif branches of one if
  MaxBuiltIns,   \* bound: calls of built-in functions in one run
  Kinds       \* bound: the points a program of this instance may open

Signals == {"NONE", "CONTINUE", "BREAK", "RETURN"}

ErrorKinds == {"CONTINUE_OUTSIDE_LOOP", "BREAK_OUTSIDE_LOOP",
               "UNEXPECTED_CONTINUE", "UNEXPECTED_BREAK", "UNEXPECTED_RETURN",
               "RECURSION_LIMIT_EXCEEDED",
               "OTHER"}      \* type, name, bounds, argument, stdin, ... errors

\* Where an activation waits for the node it has just called execute on.
OperandPoints == {"lhs", "rhs", "rvalue", "operand", "incdec", "tgtarr",
                  "tgtidx", "tgtbase", "arr", "idx", "elem", "field", "base",
                  "cast", "retval", "let", "static", "enumval"}
NodesPoints == {"items", "program", "block"}
Points == OperandPoints \cup NodesPoints \cup
          {"blockret", "ifcond", "elifcond", "branch", "forinit", "forcond",
           "forbody", "fornext", "callee", "arg", "body", "format"}

\* The points whose node comes from parse() and so may be a statement; the
\* last node of a block may be a jump but not a let or a loop.
StmtPoints == {"program", "block", "forinit", "body"}
JumpPoints == StmtPoints \cup {"blockret", "forcond", "fornext", "format"}

ASSUME MaxDepthAssumption == MaxDepth \in Nat
ASSUME MaxStackAssumption == MaxStack \in Nat \ {0}
ASSUME MaxElifAssumption == MaxElif \in Nat
ASSUME MaxBuiltInsAssumption == MaxBuiltIns \in Nat
ASSUME KindsAssumption == Kinds \subseteq Points

VARIABLES
  stack,    \* the waiting activations, innermost last
  mode,     \* what the innermost activation does now
  sig,      \* EvalResult.sig of the last finished sub-node
  errors,   \* the kinds in ctx->errors
  depth,    \* recursion_depth
  maps,     \* name maps copied by blocks and calls, not yet freed
  builtins, \* calls of built-in functions so far (a history variable)
  io        \* the last step showed the user what a built-in function does

vars == <<stack, mode, sig, errors, depth, maps, builtins, io>>

Frames == [at : Points, left : 0..MaxElif, held : Signals]
Modes == {"eval",    \* executes the node at the top frame's point
          "next",    \* at the head of a node list
          "ret",     \* a sub-node has returned sig to the top frame
          "halt",    \* execute_program has returned
          "abort",   \* an assertion failed
          "undef"}   \* undefined behaviour

TypeOK ==
  /\ stack \in Seq(Frames)
  /\ mode \in Modes
  /\ sig \in Signals
  /\ errors \subseteq ErrorKinds
  /\ depth \in Nat
  /\ maps \in Nat
  /\ builtins \in 0..MaxBuiltIns
  /\ io \in BOOLEAN
  /\ mode \in {"eval", "next", "ret"} => stack # <<>>

Init ==
  /\ stack = << [at |-> "items", left |-> 0, held |-> "NONE"] >>
  /\ mode = "next"
  /\ sig = "NONE"
  /\ errors = {}
  /\ depth = 0
  /\ maps = 0
  /\ builtins = 0
  /\ io = FALSE

-----------------------------------------------------------------------------
(* The stack *)

Top == stack[Len(stack)]
Frame(p) == [at |-> p, left |-> 0, held |-> "NONE"]
Pop == SubSeq(stack, 1, Len(stack) - 1)
Goto(p) == [stack EXCEPT ![Len(stack)].at = p]
Hold(p, s) == [stack EXCEPT ![Len(stack)].at = p, ![Len(stack)].held = s]
Room(n) == Len(stack) + n <= MaxStack

Executing(p) == mode = "eval" /\ Top.at = p
Returned(p) == mode = "ret" /\ Top.at = p

(* Errors *)

\* get_signal_error
OutsideError(s) ==
  CASE s = "CONTINUE" -> {"CONTINUE_OUTSIDE_LOOP"}
    [] s = "BREAK"    -> {"BREAK_OUTSIDE_LOOP"}
    [] OTHER          -> {}

\* get_signal_error_unexpected
UnexpectedError(s) ==
  CASE s = "CONTINUE" -> {"UNEXPECTED_CONTINUE"}
    [] s = "BREAK"    -> {"UNEXPECTED_BREAK"}
    [] s = "RETURN"   -> {"UNEXPECTED_RETURN"}
    [] OTHER          -> {}

MayFail == {{}, {"OTHER"}}     \* the outcomes of an operation on values

(* Outcomes of a step: what the innermost activation does next. *)

Quiet == io' = FALSE /\ builtins' = builtins

\* The top activation returns; a node without an activation of its own does.
Return(s) == stack' = Pop /\ mode' = "ret" /\ sig' = s /\ Quiet
Answer(s) == stack' = stack /\ mode' = "ret" /\ sig' = s /\ Quiet
Eval(st) == stack' = st /\ mode' = "eval" /\ sig' = "NONE" /\ Quiet

\* Memory or a value that was never initialised is used: anything from a
\* trap to carrying on (the latter is an alternative where this is used).
Undefined == mode' = "undef" /\ Quiet /\ UNCHANGED <<stack, sig>>

-----------------------------------------------------------------------------
(* execute_nodes, execute_program, execute_block_expr *)

\* The next node of a list: the items first, then the statements.
NextNode ==
  /\ mode = "next"
  /\ Eval(stack)
  /\ UNCHANGED <<errors, depth, maps>>

ItemsDone ==
  /\ mode = "next" /\ Top.at = "items"
  /\ stack' = Goto("program")
  /\ Quiet /\ UNCHANGED <<mode, sig, errors, depth, maps>>

NodeReturned ==
  /\ mode = "ret" /\ Top.at \in NodesPoints
  /\ sig = "NONE" /\ errors = {}
  /\ mode' = "next"
  /\ Quiet /\ UNCHANGED <<stack, sig, errors, depth, maps>>

\* The top level ends: its nodes are run, or one signalled or failed.
ProgramEnds ==
  /\ \/ mode = "next" /\ Top.at = "program"
     \/ mode = "ret" /\ Top.at \in {"items", "program"}
                     /\ (sig # "NONE" \/ errors # {})
  /\ errors' = errors \cup OutsideError(sig)
  /\ stack' = Pop
  /\ mode' = "halt"
  /\ Quiet /\ UNCHANGED <<sig, depth, maps>>

\* The copy of the names a block starts with, and the block itself.
EnterBlock(st) ==
  /\ stack' = Append(st, Frame("block"))
  /\ mode' = "next"
  /\ sig' = "NONE"
  /\ maps' = maps + 1
  /\ Quiet

ExecBlock ==
  /\ mode = "eval" /\ Top.at # "items" /\ "block" \in Kinds /\ Room(1)
  /\ EnterBlock(stack)
  /\ UNCHANGED <<errors, depth>>

\* Mutant: the names are freed before the final expression and after it.
BlockDoneFreesTwice ==
  /\ mode = "next" /\ Top.at = "block"
  /\ \/ errors # {} /\ Return("NONE") /\ UNCHANGED maps
     \/ errors = {} /\ Return("NONE") /\ maps' = maps - 1
     \/ errors = {} /\ Eval(Goto("blockret")) /\ maps' = maps - 1
  /\ UNCHANGED <<errors, depth>>

\* The nodes of a block are run.  With an error recorded the block returns
\* at once and its copy is not freed; otherwise it is, after ret_expr.
BlockDone ==
  /\ mode = "next" /\ Top.at = "block"
  /\ \/ errors # {} /\ Return("NONE") /\ UNCHANGED maps
     \/ errors = {} /\ Return("NONE") /\ maps' = maps - 1
     \/ errors = {} /\ Eval(Goto("blockret")) /\ UNCHANGED maps
  /\ UNCHANGED <<errors, depth>>

\* Mutants: a jump out of a block does not free the names; or it ends there.
BlockStoppedLeaks ==
  /\ Returned("block")
  /\ sig # "NONE" \/ errors # {}
  /\ Return(sig)
  /\ UNCHANGED <<errors, depth, maps>>
BlockStoppedDropsSignal ==
  /\ Returned("block")
  /\ \/ sig # "NONE" /\ maps' = maps - 1
     \/ sig = "NONE" /\ errors # {} /\ UNCHANGED maps
  /\ Return("NONE")
  /\ UNCHANGED <<errors, depth>>

BlockStopped ==
  /\ Returned("block")
  /\ \/ sig # "NONE" /\ maps' = maps - 1
     \/ sig = "NONE" /\ errors # {} /\ UNCHANGED maps
  /\ Return(sig)
  /\ UNCHANGED <<errors, depth>>

BlockRetReturned ==
  /\ Returned("blockret")
  /\ Return(sig)
  /\ maps' = maps - 1
  /\ UNCHANGED <<errors, depth>>

-----------------------------------------------------------------------------
(* Leaves of the tree: literals, names, empty arrays, &name, a let without *)
(* an initializer; and the jumps.                                          *)

ExecLeaf ==
  /\ mode = "eval"
  /\ Answer("NONE")
  /\ \E e \in MayFail : errors' = errors \cup e
  /\ UNCHANGED <<depth, maps>>

ExecJump ==
  /\ mode = "eval" /\ Top.at \in JumpPoints
  /\ \E s \in Signals \ {"NONE"} : Answer(s)
  /\ UNCHANGED <<errors, depth, maps>>

\* for and while take any statement as condition and next, format_str any in
\* braces, and run it with execute_expr, which has no case for a let or loop.
ExecStmtAsExpr ==
  /\ mode = "eval" /\ Top.at \in {"forcond", "fornext", "format"}
  /\ mode' = "abort"
  /\ Quiet /\ UNCHANGED <<stack, sig, errors, depth, maps>>

-----------------------------------------------------------------------------
(* execute_if_expr: the if and its elifs, each a call of its own *)

\* The next elif, or else the else branch, or nothing.
NextBranch ==
  \/ /\ Top.left > 0
     /\ Eval([stack EXCEPT ![Len(stack)].at = "elifcond",
                           ![Len(stack)].left = @ - 1])
     /\ UNCHANGED maps
  \/ Top.left = 0 /\ EnterBlock(Goto("branch"))
  \/ Top.left = 0 /\ Return("NONE") /\ UNCHANGED maps

ExecIf ==
  /\ mode = "eval" /\ Top.at # "items" /\ "ifcond" \in Kinds /\ Room(2)
  /\ \E n \in 0..MaxElif :
       Eval(Append(stack, [at |-> "ifcond", left |-> n, held |-> "NONE"]))
  /\ UNCHANGED <<errors, depth, maps>>

\* The signal of the condition is not looked at: result.sig is tested, and
\* result is not the condition's.
IfCondReturned ==
  /\ Returned("ifcond")
  /\ \/ errors # {} /\ Return("NONE") /\ UNCHANGED <<errors, maps>>
     \/ /\ errors = {}
        /\ \/ errors' = {"OTHER"} /\ Return("NONE") /\ UNCHANGED maps
           \/ EnterBlock(Goto("branch")) /\ UNCHANGED errors
           \/ NextBranch /\ UNCHANGED errors
  /\ UNCHANGED depth

\* An elif that fails has not executed: the search for a branch goes on.
ElifCondReturned ==
  /\ Returned("elifcond")
  /\ \/ errors # {} /\ NextBranch /\ UNCHANGED errors
     \/ /\ errors = {}
        /\ \/ errors' = {"OTHER"} /\ NextBranch
           \/ EnterBlock(Goto("branch")) /\ UNCHANGED errors
           \/ NextBranch /\ UNCHANGED errors
  /\ UNCHANGED depth

BranchReturned ==
  /\ Returned("branch")
  /\ Return(sig)
  /\ UNCHANGED <<errors, depth, maps>>

-----------------------------------------------------------------------------
(* execute_loop_stmt: for, while and forever *)

\* The head of the while (true): without a condition, straight to the body.
\* held is the C variable result, which a false condition returns.
LoopHead(s) ==
  \/ Eval(Hold("forcond", s)) /\ UNCHANGED maps
  \/ EnterBlock(Hold("forbody", s))

ExecFor ==
  /\ mode = "eval" /\ Top.at \in StmtPoints /\ "forcond" \in Kinds /\ Room(2)
  /\ \/ Eval(Append(stack, Frame("forinit"))) /\ UNCHANGED maps
     \/ Eval(Append(stack, Frame("forcond"))) /\ UNCHANGED maps
     \/ EnterBlock(Append(stack, Frame("forbody")))
  /\ UNCHANGED <<errors, depth>>

ForInitReturned ==
  /\ Returned("forinit")
  /\ errors' = errors \cup OutsideError(sig)
  /\ IF errors' # {} THEN Return(sig) /\ UNCHANGED maps ELSE LoopHead(sig)
  /\ UNCHANGED depth

\* A condition may also fail to convert to a bool.
ForCondReturned ==
  /\ Returned("forcond")
  /\ IF errors \cup OutsideError(sig) # {}
       THEN errors' = errors \cup OutsideError(sig)
       ELSE errors' \in MayFail
  /\ \/ Return(Top.held) /\ UNCHANGED maps
     \/ errors' = {} /\ EnterBlock(Goto("forbody"))
  /\ UNCHANGED depth

\* Mutant: a return only ends the turn.
ForBodyGoesOn ==
  /\ Returned("forbody")
  /\ \/ errors # {} /\ Return(sig) /\ UNCHANGED maps
     \/ /\ errors = {}
        /\ IF sig = "BREAK" THEN Return("NONE") /\ UNCHANGED maps
           ELSE \/ Eval(Hold("fornext", sig)) /\ UNCHANGED maps
                \/ LoopHead("NONE")
  /\ UNCHANGED <<errors, depth>>

\* Mutant: the body's errors are not looked at.
ForBodyIgnoresErrors ==
  /\ Returned("forbody")
  /\ CASE sig = "BREAK"  -> Return("NONE") /\ UNCHANGED maps
       [] sig = "RETURN" -> Return("RETURN") /\ UNCHANGED maps
       [] OTHER -> \/ Eval(Hold("fornext", sig)) /\ UNCHANGED maps
                   \/ LoopHead("NONE")
  /\ UNCHANGED <<errors, depth>>

ForBodyReturned ==
  /\ Returned("forbody")
  /\ \/ errors # {} /\ Return(sig) /\ UNCHANGED maps
     \/ /\ errors = {}
        /\ CASE sig = "BREAK"  -> Return("NONE") /\ UNCHANGED maps
             [] sig = "RETURN" -> Return("RETURN") /\ UNCHANGED maps
             [] OTHER -> \/ Eval(Hold("fornext", sig)) /\ UNCHANGED maps
                         \/ LoopHead("NONE")
  /\ UNCHANGED <<errors, depth>>

ForNextReturned ==
  /\ Returned("fornext")
  /\ errors' = errors \cup OutsideError(sig)
  /\ IF errors' # {} THEN Return(Top.held) /\ UNCHANGED maps
                     ELSE LoopHead("NONE")
  /\ UNCHANGED depth

-----------------------------------------------------------------------------
(* execute_call_expr and exec_func *)

\* The body of exec_func behind the argument list.  The names are copied for
\* every call, but those of a built-in are never freed.  Most built-ins run at
\* once, and their own errors (closed stdin, bounds) come after their effect
\* began; recursion_depth, raised meanwhile, is back when they return.
CallBuiltIn ==
  /\ builtins < MaxBuiltIns
  /\ stack' = Pop /\ mode' = "ret" /\ sig' = "NONE"
  /\ \E e \in MayFail : errors' = errors \cup e
  /\ io' = TRUE
  /\ maps' = maps + 1 /\ builtins' = builtins + 1
  /\ UNCHANGED depth

\* format, print and println come to an expression in the format string, and
\* parse and run it in the names of their caller.
CallFormat ==
  /\ "format" \in Kinds /\ builtins < MaxBuiltIns
  /\ stack' = Goto("format") /\ mode' = "eval" /\ sig' = "NONE"
  /\ io' = FALSE
  /\ depth' = depth + 1
  /\ maps' = maps + 1 /\ builtins' = builtins + 1
  /\ UNCHANGED errors

CallCustom ==
  /\ Eval(Goto("body"))
  /\ depth' = depth + 1
  /\ maps' = maps + 1
  /\ UNCHANGED errors

\* unwrap_args: the next argument; after the last one, the call.
NextArg ==
  \/ "arg" \in Kinds /\ Eval(Goto("arg")) /\ UNCHANGED <<errors, depth, maps>>
  \/ CallBuiltIn
  \/ CallFormat
  \/ "body" \in Kinds /\ CallCustom

Fail(e) == errors' = errors \cup e /\ Return("NONE") /\ UNCHANGED <<depth, maps>>

\* The callee is a function: recursion limit, argument count, arguments.
CalleeReturned ==
  /\ Returned("callee")
  /\ IF errors # {} THEN Fail({})
     ELSE IF depth >= MaxDepth THEN Fail({"RECURSION_LIMIT_EXCEEDED"})
     ELSE Fail({"OTHER"}) \/ NextArg

\* The callee is not a function: the error is recorded, and exec_func runs
\* on its value, taken for a pointer to a Func.
CalleeNotAFunction ==
  /\ Returned("callee")
  /\ errors = {}
  /\ errors' = {"OTHER"} \cup
               IF depth < MaxDepth THEN {} ELSE {"RECURSION_LIMIT_EXCEEDED"}
  /\ \/ Return("NONE")
     \/ depth < MaxDepth /\ Undefined
  /\ UNCHANGED <<depth, maps>>

ArgReturned ==
  /\ Returned("arg")
  /\ IF errors \cup OutsideError(sig) # {} THEN Fail(OutsideError(sig))
     ELSE Fail({"OTHER"}) \/ NextArg

\* Mutant: a body that fails returns before the counter is restored.
BodyKeepsDepth ==
  /\ Returned("body")
  /\ \E e \in MayFail : errors' = errors \cup OutsideError(sig) \cup e
  /\ Return("NONE")
  /\ depth' = IF errors' = {} THEN depth - 1 ELSE depth
  /\ maps' = maps - 1

BodyReturned ==
  /\ Returned("body")
  /\ \E e \in MayFail : errors' = errors \cup OutsideError(sig) \cup e
  /\ Return("NONE")
  /\ depth' = depth - 1
  /\ maps' = maps - 1

\* Mutant: the text is printed without a look at the errors.
FormatIgnoresErrors ==
  /\ Returned("format")
  /\ errors' = errors \cup OutsideError(sig)
  /\ stack' = Pop /\ mode' = "ret" /\ sig' = "NONE"
  /\ io' = TRUE /\ depth' = depth - 1
  /\ UNCHANGED <<maps, builtins>>

\* format_str goes on to the next expression, fails (a value without a text,
\* an argument too many, a wrong format), or ends, and the text is printed.
FormatReturned ==
  /\ Returned("format")
  /\ IF errors \cup OutsideError(sig) # {}
       THEN /\ errors' = errors \cup OutsideError(sig)
            /\ Return("NONE") /\ depth' = depth - 1
       ELSE \/ errors' = {"OTHER"} /\ Return("NONE") /\ depth' = depth - 1
            \/ Eval(stack) /\ UNCHANGED <<errors, depth>>
            \/ /\ stack' = Pop /\ mode' = "ret" /\ sig' = "NONE"
               /\ io' = TRUE /\ depth' = depth - 1
               /\ UNCHANGED <<errors, builtins>>
  /\ UNCHANGED maps

-----------------------------------------------------------------------------
(* The handlers that wait for operands: Open(p) starts one with the node at *)
(* p; when a node returns, its signal is reported by the handler's policy,  *)
(* and without an error the handler fails, ends, or opens a further node.   *)

Open(p) ==
  /\ p \in Kinds /\ Room(1)
  /\ Eval(Append(stack, Frame(p)))
  /\ UNCHANGED <<errors, depth, maps>>

OperandReturned(reported, further) ==
  IF errors \cup reported # {} THEN Fail(reported)
  ELSE \/ Fail({})
       \/ Fail({"OTHER"})
       \/ \E p \in further : Eval(Goto(p)) /\ UNCHANGED <<errors, depth, maps>>

ExecExpr ==
  /\ mode = "eval" /\ Top.at # "items"
  /\ \E p \in {"lhs", "rvalue", "operand", "incdec", "arr", "elem", "field",
                "base", "cast", "callee"} : Open(p)

\* execute_binary_expr: and, or may stop after the left operand.
LhsReturned == Returned("lhs") /\ OperandReturned(UnexpectedError(sig), {"rhs"})
RhsReturned == Returned("rhs") /\ OperandReturned(UnexpectedError(sig), {})

\* The targets of assign that have operands of their own: a[i] and x.m.
Targets == {"tgtarr", "tgtbase"}

\* An assignment evaluates its right side, then its target.
RvalueReturned ==
  /\ Returned("rvalue")
  /\ OperandReturned(UnexpectedError(sig), Targets)

\* execute_unary_expr
OperandReady ==
  /\ Returned("operand")
  /\ OperandReturned(UnexpectedError(sig), {})

\* ++ and -- assign even when the operation itself has failed.
IncDecReturned ==
  /\ Returned("incdec")
  /\ \/ OperandReturned(UnexpectedError(sig), Targets)
     \/ /\ errors \cup UnexpectedError(sig) = {}
        /\ \E p \in Targets : Eval(Goto(p))
        /\ errors' = {"OTHER"}
        /\ UNCHANGED <<depth, maps>>

\* assign_arr_el does not look for errors after unwrap_index_expr, which
\* leaves arr_val and index unset when it returns early.
TargetIndexReturned ==
  /\ mode = "ret" /\ Top.at \in {"tgtarr", "tgtidx"}
  /\ \/ OperandReturned(OutsideError(sig),
                        IF Top.at = "tgtarr" THEN {"tgtidx"} ELSE {})
     \/ /\ \E e \in MayFail : errors' = errors \cup OutsideError(sig) \cup e
        /\ errors' # {}
        /\ Return("NONE") \/ Undefined
        /\ UNCHANGED <<depth, maps>>

TargetMemberReturned ==
  /\ Returned("tgtbase")
  /\ OperandReturned(UnexpectedError(sig), {})

\* execute_index_expr
ArrReturned == Returned("arr") /\ OperandReturned(OutsideError(sig), {"idx"})
IdxReturned == Returned("idx") /\ OperandReturned(OutsideError(sig), {})

\* execute_arr_expr
ElemReturned ==
  Returned("elem") /\ OperandReturned(OutsideError(sig), {"elem"})

\* execute_struct_expr
FieldReturned ==
  Returned("field") /\ OperandReturned(UnexpectedError(sig), {"field"})

\* get_member_from_node, for a member read and for &x.m
BaseReturned == Returned("base") /\ OperandReturned(UnexpectedError(sig), {})

\* execute_cast_expr looks at the errors, not at the signal.
CastReturned == Returned("cast") /\ OperandReturned({}, {})

\* register_var
ExecLet == mode = "eval" /\ Top.at \in StmtPoints /\ Open("let")
LetReturned == Returned("let") /\ OperandReturned(OutsideError(sig), {})

\* create_return_signal: whatever the operand did, the result is a return.
ExecReturn == mode = "eval" /\ Top.at \in JumpPoints /\ Open("retval")
RetvalReturned ==
  Returned("retval") /\ Return("RETURN") /\ UNCHANGED <<errors, depth, maps>>

\* register_struct runs the initializers of static fields, register_enum
\* those of the members.
ExecItem == Executing("items") /\ (Open("static") \/ Open("enumval"))
StaticReturned ==
  Returned("static") /\ OperandReturned(UnexpectedError(sig), {"static"})
EnumvalReturned == Returned("enumval") /\ OperandReturned({}, {"enumval"})

-----------------------------------------------------------------------------
\* The process has ended.
Ended == mode \in {"halt", "abort", "undef"} /\ UNCHANGED vars

Nodes ==
  \/ NextNode \/ ItemsDone \/ NodeReturned \/ ProgramEnds
  \/ ExecBlock \/ BlockDone \/ BlockStopped \/ BlockRetReturned

Control ==
  \/ ExecLeaf \/ ExecJump \/ ExecStmtAsExpr
  \/ ExecIf \/ IfCondReturned \/ ElifCondReturned \/ BranchReturned
  \/ ExecFor \/ ForInitReturned \/ ForCondReturned \/ ForBodyReturned
  \/ ForNextReturned

Calls ==
  \/ CalleeReturned \/ CalleeNotAFunction \/ ArgReturned \/ BodyReturned
  \/ FormatReturned

Operands ==
  \/ ExecExpr \/ LhsReturned \/ RhsReturned \/ RvalueReturned
  \/ OperandReady \/ IncDecReturned \/ TargetIndexReturned
  \/ TargetMemberReturned \/ ArrReturned \/ IdxReturned \/ ElemReturned
  \/ FieldReturned \/ BaseReturned \/ CastReturned \/ ExecLet
  \/ LetReturned \/ ExecReturn \/ RetvalReturned \/ ExecItem
  \/ StaticReturned \/ EnumvalReturned

Next == Nodes \/ Control \/ Calls \/ Operands \/ Ended

Spec == Init /\ [][Next]_vars

\* The interpreter is one thread that never waits once an error is recorded;
\* a step that is possible is eventually taken.
FairSpec == Spec /\ WF_vars(Next)

-----------------------------------------------------------------------------
(* Properties *)

\* The frames of st, up to the n-th, that wait at a point of P.
At(st, P, n) == {i \in 1..n : st[i].at \in P}

Running == At(stack, {"body", "format"}, Len(stack))
Scopes == At(stack, {"block", "blockret", "body"}, Len(stack))

\* recursion_depth counts the calls on the C stack whose function has begun,
\* bodies and built-ins that run what is in a format string, through every way
\* out of one, and never passes the limit, which is tested before the
\* arguments are evaluated and used after.
DepthOK == depth = Cardinality(Running) /\ depth <= MaxDepth

\* Every block and body entered owns one copy of the names, freed exactly once
\* on every way out of it, a jump included.  What else is not freed are one
\* copy for each call of a built-in function, and copies of blocks that an
\* error has cut short.
MapsOK == /\ maps >= Cardinality(Scopes) + builtins
          /\ errors = {} => maps = Cardinality(Scopes) + builtins

\* After the first error nothing the user can see happens: no built-in is
\* called, no text printed and no function body entered while the C stack
\* unwinds.
FailStop == [][errors # {} => io' = FALSE /\ depth' <= depth]_vars

\* The points that look at errors but not at the signal of their node.
DeafPoints == {"ifcond", "elifcond", "callee", "cast", "enumval", "retval"}

\* Where a jump may end without an error: the innermost loop, the function.
Lands(s) == \/ s \in {"BREAK", "CONTINUE"} /\ Top.at = "forbody"
            \/ s = "RETURN" /\ Top.at = "body"

\* A break or continue under way goes on outward, reaches its loop, or is
\* reported; only a deaf point loses it.
JumpsLand ==
  [][(mode = "ret" /\ sig \in {"BREAK", "CONTINUE"}) =>
       \/ sig' = sig \/ errors' # {} \/ Lands(sig)
       \/ Top.at \in DeafPoints]_vars

\* An error ends the program, out of any loop: forever { ... } included.
ErrorStops == errors # {} ~> mode \in {"halt", "abort", "undef"}

\* What a construct makes of a jump that comes out of it.
KindOf(p) ==
  CASE p \in {"items", "program"}            -> "program"
    [] p \in {"block", "blockret", "branch"} -> "pass"
    [] p = "forbody"                         -> "loop"
    [] p = "body"                            -> "call"
    [] p \in DeafPoints                      -> "deaf"
    [] OTHER                                 -> "value"

Jumps == INSTANCE CimaJumps
  WITH nest   <- [i \in 1..Len(stack) |-> KindOf(stack[i].at)],
       jump   <- IF mode = "ret" THEN sig ELSE "NONE",
       failed <- errors # {},
       over   <- mode \in {"halt", "abort", "undef"}

\* The C stack with its thirty places to wait at implements the abstract nest
\* of constructs: break, continue and return leave exactly what they are to
\* leave, from any depth of blocks, branches and loops.
ImplementsJumps == Jumps!Spec
=============================================================================
