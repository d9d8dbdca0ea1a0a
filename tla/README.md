# A verification model of cima

cima is a tree-walking interpreter for a small imperative language with
structs, enums, references and variadic functions.  It is written in C and is
one sequential thread.  This directory models the interpreter in TLA+: TLC
checks the modules on small instances and TLAPS proves every safety property
that TLC checks, for every instance of each module.

What makes the program hard to test is not concurrency but its shape: control
flow is a signal that each of some thirty handlers must look at and pass on,
errors are a list that each of them must look at, scopes are hash maps copied
and freed by hand, values are C structs that share memory unless a function
remembers to copy, and a call fills an uninitialised array by position, by
name and by rest, and types are completed one by one while values of them are
already made.  Each of these is a rule kept in many places, broken only by a
long sequence of legal constructs.  The modules run *every* such sequence up to
their bounds.

## 1. Inventory

All paths are under `src/src`.

| part | state | operations | speaks to |
|---|---|---|---|
| **evaluator** (`executor/executor.c` 655-1771, `funcs.c` 148-208) | the C stack; `EvalResult.sig` of the node just run; `Context.errors`; the static `recursion_depth` | `execute`, `execute_nodes`, one `execute_*` for each kind of node, `exec_func` | everything below; recursive through `execute_expr` |
| **store** (`executor.c` 187-267, 600-653, 761-877, 1029-1090, 1336-1538; `type.c` 225-396) | `Scope.names` of each context, `Var`s, the heap cells (`Value *`) of variables, fields and references, arrays | `register_var`, `assign_*`, `copy_value`, `get_reference`, member and index access, blocks and calls as scopes | evaluator, values |
| **calls** (`funcs.c` 12-195) | the array of `Var`s of a call, the collected rest, the map of names the body starts with | `check_args`, `unwrap_args`, the binding in `exec_func` | evaluator (arguments are expressions), store |
| **values** (`type.c` 116-1714) | none; pure but for the error list | `to_int` .. `to_str`, `compatible_types`, `cast_value`, `binary_*`, `unary_*` | evaluator, store |
| **registration** (`executor.c` 268-598, 1707-1764; `type.c` 398-571) | `Scope.types`, the type cache, members of structs and enums | `register_declarations`, `register_func`, `register_struct`, `register_enum`, `alloc_*_type` | evaluator (initializers), values (compatibility) |
| **parser** (`parser/parser.c`) | the lexer's current token | `parse_program`, `parse_item`, `parse_stmt`, `parse_expr` (precedence climbing), `parse_args`, `parse_patterns` | lexer |
| **lexer** (`lexer/lexer.c`) | position, current token, skipped blanks | `lexer_next` | — |
| **formatting** (`type.c` 572-815) | — | `format_str` (runs lexer, parser and evaluator on the text between braces), `to_str` | lexer, parser, evaluator |
| **built-ins** (`funcs.c` 210-522, `other/built_in.c`) | arrays they change in place, stdio's buffer, the seed | println, readln, append, remove_at, ... | terminal, values |
| **terminal** (`other/sys/sys.c`) | the mode of the terminal | `set_echo_enabled`, `read_key`, `key_pressed`, `sleep_ms` | the operating system |
| **main** (`main.c`) | — | read file, parse, `execute_program`, print errors | all |
| **thirdparty** (`nothing`, `utf8`) | — | strings, dynamic arrays, hash maps | not part of the tree; external |

Interaction is by call only.  Shared state: the error list (every context has
a pointer to the same one), the `Var`s (a copied map of names shares them),
the cells (references, arguments and array elements share them), and
`recursion_depth`.  There are no callbacks, threads, timeouts or restarts;
failure is an error in the list, after which every handler is to return.

What makes each part correct:

* evaluator: the counter of recursion counts the calls in progress (function
  bodies, and built-ins that run what is in their format string) and is
  bounded; each scope's map of names is freed once; a jump lands in its loop or
  function or is reported; after the first error nothing visible happens, and
  the program ends, out of any loop.
* store: values are copied where they are bound, so no two variables share a
  struct and no struct contains itself; a callee reaches only globals and what
  it was given; constants and constant fields keep their values.
* calls: no slot is read that was not written; each parameter has the value
  given for it; nothing follows a variadic argument given by name.
* values: a variable keeps the type it was declared with; bools stay 0 or 1
  and ints in their width; the comparisons agree with each other; equality of
  strings is equality.
* registration: in a program whose declarations stand in order, types are
  complete before values of them are made and alloc_struct_value ends; a type is
  equal to itself however often it is allocated; redefinitions are found.
* parser and lexer: the tree of an expression is the one its precedences ask
  for; every token stream ends in a tree or an error; only balanced texts are
  accepted; nodes stand where the evaluator can run them.
* formatting: no text is lost or moved, every argument is used once.
* terminal: the mode the program leaves is the mode it found (see section 6).

## 2. Modules

| module | models | extends / uses |
|---|---|---|
| `CimaEval` | the evaluator | |
| `CimaJumps` | what jumps and errors do to nested constructs (abstract specification) | instantiated by `CimaEval` |
| `CimaEvalProofs` | proofs about `CimaEval`, and that it implements `CimaJumps` | `CimaEval`, TLAPS |
| `CimaStore` | the store | |
| `CimaStoreProofs` | proofs about `CimaStore` | `CimaStore`, `CimaInduction` |
| `CimaArgs` | calls | |
| `CimaArgsProofs` | proofs about `CimaArgs` | `CimaArgs`, TLAPS |
| `CimaValues` | values, conversions, operators | |
| `CimaValuesProofs` | proofs about `CimaValues` | `CimaValues`, TLAPS |
| `CimaRegister` | declarations, their types and functions | |
| `CimaRegisterProofs` | proofs about `CimaRegister` | `CimaRegister`, TLAPS |
| `CimaParser` | the parser | |
| `CimaParserProofs` | proofs about `CimaParser` | `CimaParser`, TLAPS |
| `CimaLexer` | the lexer, as operators on a text | |
| `CimaFormat` | `format_str` | `CimaLexer` |
| `CimaFormatProofs` | proofs about `CimaLexer` and `CimaFormat` | `CimaFormat`, `CimaInduction` |
| `CimaInduction` | induction over the natural numbers, for the proofs | TLAPS |
| `MCCima*` | instances for TLC, and the VIEW of the store | the module named |

### CimaEval

The C call stack is the sequence `stack`: one frame for each activation of an
`execute_*` function that waits for the node it has called `execute` on.  A
frame's point names the place in the code it waits at (`"rvalue"`: the right
side in `execute_binary_expr` for `=`; `"tgtidx"`: the index in
`unwrap_index_expr`; `"forbody"`: the call of `execute_block_expr` in
`execute_loop_stmt`; and so on).  `mode` says whether the innermost activation
starts a node, stands at the head of a node list, or has just been returned
to with `sig`.  `errors` is the set of kinds in the list, `depth` is
`recursion_depth`, `maps` counts the copies of names not yet freed, `io`
tells whether the step showed the user what a built-in does.

A call copies the global names before it knows what it calls (funcs.c:168), and
only a custom function's copy is freed (:200): `CallBuiltIn` and `CallFormat`
leave one each, which `builtins`, a history variable, counts (its bound is
`MaxBuiltIns`).  Most built-ins are one step.  Those that print a format
string with expressions in braces wait at the point `"format"`: `format_str`
parses each expression and runs it with `execute_expr` while
`recursion_depth`, raised for the built-in too (:184), is held
(`CallFormat`, `FormatReturned`).

There is one action for each construct a node may be (`ExecBlock`, `ExecIf`,
`ExecFor`, `ExecExpr`, ...) and one for each return to a point
(`ForCondReturned`, `CalleeReturned`, ...).  The node is chosen when it is
executed, so the machine runs all programs at once.  Which nodes may stand
where is the parser's: a statement only where `parse` is called
(`StmtPoints`), a jump also as the last node of a block and in the head of a
`for` (`JumpPoints`).  Because it chooses anew at each visit it also runs
programs whose loops change their text; every behaviour of a real program is
among those, so what holds here holds there.  Values are reduced to what
control asks of them: a condition is either true or false, an operation
either fails or does not.  Memory used before it is set leads to the
absorbing mode `"undef"`, an assertion that fails to `"abort"`.

### CimaJumps

A program is a `nest` of constructs, each known only by what it makes of a jump
that comes out of it: it is a program, passes jumps on (a list of statements, a
branch), is the body of a loop or of a call, wants a value, or wants one and
does not ask how it came about (`"deaf"`).  `PassOn`, `LeaveLoop`, `LeaveCall`,
`WantValue` and `Overlook` are what each makes of a jump; `Work` is all the
rest, in which only the innermost construct changes; `Unwind` and `End` what
follows an error.  `KindOf` in `CimaEval` is the refinement mapping: the stack
with its places to wait at becomes the nest of their kinds.

### CimaStore

`heap` holds the cells (`Value`s on the C heap), `arrs` the arrays, `stack`
the contexts.  A context made by a block starts with a copy of the names in
scope, one made by a call with a copy of the *global* ones; a name stands for
the `Var` that some context made, and since a context makes at most one `Var`
per name, the index of that context identifies it.  `Stored`, `CopyValue`,
`AssignField` and the others are the functions of the same or a similar name.
A right side is an operand, a new struct or array, or a block or call that
runs statements of its own; the context on the stack remembers what its value
is for (`op`, `target`), and for a `let` the `Var` that was found *before* the
initializer ran, as `register_var` does.  `lent` marks the cells of arguments,
which `unwrap_args` binds without a copy.

A new cell has the number behind the highest in use (`New`).  `Reached` is what
a set of cells or arrays leads to: `Owned` are the cells `copy_value` copies,
`InUse` those that a context leads to.

Everything has type `any`, the one type in which values of all kinds may
nest.  There is one struct type, and arrays have one element.  Cells that
nothing reaches are forgotten (the code leaks them).

### CimaArgs

A program is a chain of calls: each body calls the next function with
literals and its own parameters.  `Call` is `check_args`; `NextArg` is one
turn of the loop in `unwrap_args`; `EnterBody` writes the variadic slot and
puts the slots into the names, the last of two equal names winning.  `slots`
starts unset, as the array from `malloc` does.  For a positional argument
behind the last parameter the code reads the name of a pattern past the end
of the array: `GoesBy` allows every name.  A cast leaves the value or fails.

### CimaValues

A value is a type and a short sequence of numbers.  Each operator and
conversion is a *set* of results: empty when it records an error, one element
where the code determines the result, several where the model does not
compute it (floats, powers, bit operations, text) or C does not define it
(NaN to int).  Ints are two's complement with `IntMax`; a string is a
sequence of code points that `Bytes` lays out as the code does, four bytes
each.  A program declares variables with and without types and assigns the
results of operators, casts, `++` and `--`.

### CimaRegister

A program is a sequence of declarations, chosen by `Init` from `Items`; a
declaration is a kind, a name and its parts, a part is an annotation and what
kind of initializer it has.  `Declare` puts the names in, as
`register_declarations` does; then `BeginType`, `AddField`, `AddStatic`,
`AddEnumMember`, `AddParam` and so on are the turns of the loops of
`register_struct`, `register_enum` and `register_func`, in the order of the
text.  `arrays` is the cache of `alloc_array_type`: an array type and the hash
it is found by, which is the number of members its element type had.  What a
static value was made of is remembered (`made`) as a set of types with the
number of members each had, which is all that tells whether `copy_value` later
reads a field that is not there.  `LetTyped` and `LetStatic` are statements as
far as they resolve types and copy values.

### CimaParser

`stack` is the C stack of the parser, one frame for each function that waits
for another; `pc` is the place in parser.c where the innermost stands; `cur`
is `l->cur`.  `lexer_next` yields any token of the program's vocabulary, so
that the machine reads every text.  `node` is the node returned last: its kind,
and the levels of the operators at its left and right end outside brackets,
which is what is left of the tree.  `open` is a history variable, the brackets
passed and not closed.  `Unwind` is the return of an error through the calls;
where a function reads through the NULL it has been returned, the machine ends
in `"crash"`.  `NodesFit` is the interface to `CimaEval`: it says that the
parser returns each kind of node only where `CimaEval` expects one.

### CimaLexer and CimaFormat

`CimaLexer` has no state: `Next(text, p)` is the token `lexer_next` finds from
position `p` on, with what it skipped, by functions named for those of
lexer.c.  A loop that only looks for a character is `Until`, the first place
from `p` on where it stops; one that goes on by steps of its own
(`lexer_get_str`, a run of comments) is `Settle`.  `CimaFormat` is the loop of
`format_str`, which runs the lexer of the language over the format string and
appends `Lexer.skipped` and the token, or what a pair of braces stands for.  An
expression in braces is a balanced run of tokens, which may fail at any of
them.  The pieces of the result carry the position they come from.

## 3. Runs

"violation" runs state what a message of the program or a test asks and the
code does not do; each has an entry under `findings` in `PROJECT.json`.

| run | asks | bounds |
|---|---|---|
| `eval` | `TypeOK`, `DepthOK`, `MapsOK`, `FailStop`, `JumpsLand`, `ErrorStops`, `ImplementsJumps` for all constructs | 4 frames, recursion limit 2, one elif, 2 calls of built-ins |
| `store_scopes` | `TypeOK`, `CallersKept`, `ConstKept` with shadowing, redefinition, blocks, recursion | 2 names, 3 cells, 3 contexts |
| `store_structs` | `Forest`, `Acyclic` with nested structs, references, calls | 2 names, 3 cells, 2 contexts |
| `store_arrays` | `Forest`, `ConstFieldsKept` with two fields, one constant, and arrays | 2 names, 6 cells, 1 array |
| `args` | `TypeOK`, `SlotsSet`, `NamedVaLast`, `BoundAsMeant` | 4 functions of up to 3 parameters, 3 arguments, 2 calls deep |
| `args_forwarded` | violation: `ForwardedAsGiven`, a variadic parameter passed on by position (tests/02.cima:5) arrives as one array | the same |
| `values` | `TypeOK`, `DeclKept`, `CmpCoherent`, all types and operators | 2 variables, ints of 3 bits, strings of 2 characters |
| `string_eq` | violation: `EqIsEqual`, "yes" == "yep" | the same |
| `register` | `TypeOK`, `OneArrayType`, `NoCrash`, `RedefinitionFound` | programs of 1 to 4 out of 13 declarations |
| `parser` | `TypeOK`, `Grouped`, `PostfixFirst`, `NodesFit`, `Balanced`, `Terminates` | 16 vocabularies, 7 calls deep |
| `parser_nested` | violation: `NestedFunc`, a function in a body (tests/02.cima:7) is a syntax error | the same vocabularies, 5 calls deep |
| `format` | `TypeOK`, `TextKept`, `ArgsOnce`, `InBounds`, `Advances` | texts of up to 6 characters over 6 vocabularies, up to 2 arguments |

What they show, and why the bounds suffice:

* `eval`: a frame's behaviour depends on its own point and on what is returned
  to it, never on the frames below, so a jump or an error is treated alike at
  any depth.  Four frames hold a jump in a block in a loop in a function body,
  a call in the body of a call in an argument, and a call in a format string
  printed by a body.  With the limit 2 a third call is refused; a call is
  tested, its arguments run another body or format string, and then it enters
  its own: the case that could overshoot.  Two calls of built-ins leave two
  maps.  All the safety properties of the run, the refinement among them, are
  also proved, for every limit and every stack.
* Store: sharing needs two owners and one shared struct: two names and three
  cells give `x`, `y` and a field; six cells and an array give a struct that
  went through an array into another variable.  Three contexts are a caller,
  its callee and a block or a second activation of the callee.  Stores that
  differ only in the numbers of cells and arrays are one state (`View` in
  `MCCimaStore`): no action and no property looks at a number except to
  compare it for equality, and `New` picks a cell that is new in both.
* `args`: two fixed parameters and a variadic one, three arguments and both
  kinds of names give every mix of positional, named and collected arguments;
  the second call receives what the first has collected.  `BoundAsMeant` says
  what the parameters hold except where an array is passed on by position to
  be the only collected argument; `ForwardedAsGiven` says what a test
  (tests/02.cima:5) takes for granted there, and `args_forwarded` shows that it
  does not hold: the callee finds one item, the array (funcs.c:104, :61).
* `values`: ints of three bits overflow in every operation; the operators look
  at operands one pair at a time, and two variables are a pair.
* `register`: what goes wrong needs a type, one that holds it, something that
  makes a value or an array of it in between, and a use: four declarations.
  The thirteen are the combinations of holding directly, in an array, in
  itself, in a static field, with initializers that make a value, call a
  function or do neither.
* `parser`: the sixteen vocabularies cut the grammar where its functions call
  each other; a mistake is within one function or between it and the one it
  calls, and each of those pairs is in some vocabulary.  Texts are endless; what
  is bounded is the depth, and seven calls nest an operator in an argument in
  an operator in a statement.  The safety properties are also proved for every
  vocabulary and every depth.
* `format`: six characters are two fields with a text between them; two
  arguments are one more and one less than one field.  The properties are also
  proved for texts of every length over all characters.

`eval` is checked under `FairSpec`, weak fairness of `Next`, and so is
`parser`.  Both are one thread that runs as long as it can.  Where the
interpreter waits for the user (`readln`, `read_key`) it is inside a built-in,
one step here, and `ErrorStops` is about what follows an error, when `FailStop`
says that no built-in is called any more.  A program may run for ever as long
as it has no error: nothing says it ends.  `Terminates` says that the parser
returns or goes on taking tokens: a text that never ends is none, but the
machine, which chooses the next token when it is asked for, cannot know.

`JumpsLand` names the places that do lose a break or continue (`DeafPoints`):
the callee of a call, a cast's operand, an enum initializer, a return's operand
and the conditions of `if` and `elif`.  No text of the repository says what
should happen there.

## 4. Proofs

Each theorem is of the form `Spec => []P` or `Spec => [][A]_vars`, for all
values of the constants that the named assumptions of the module allow; every
run evaluates those.  Each module has an inductive invariant `IInv`, and its
theorems follow from `Spec => []IInv`; `Balanced` and `TextKept` have one each
besides (`BInv`, `PlainInv`), which rest on it.

### The evaluator

`CimaEvalProofs` proves, for every `MaxDepth`, `MaxStack`, `MaxElif`,
`MaxBuiltIns` and `Kinds`:

* `Typing`: `Spec => []TypeOK`;
* `RecursionBounded`: `Spec => []DepthOK`;
* `MapsOwned`: `Spec => []MapsOK`;
* `NothingAfterError`: `Spec => FailStop`;
* `JumpsNotLost`: `Spec => JumpsLand`;
* `Implements`: `Spec => ImplementsJumps`, the refinement of `CimaJumps`.

The assumptions are the five named ones of `CimaEval` (naturals, and kinds
that are points), which every run evaluates.

`DepthOK` is not inductive.  The limit is tested when the callee has been
evaluated, *before* the arguments are, and the counter is raised *after*
them; that no recursion inside the arguments makes the counter overshoot has
to be remembered: `ArgFine` says that below each frame that evaluates
arguments there are fewer than `MaxDepth` calls running (bodies and format
strings).  `IInv` is `TypeOK` with `DepthOK`, `MapsOK`, `ArgFine` and the fact
that the bottom frame is the node list of the program while it runs.

There are some forty actions but only eight things that happen to the stack
(`Shape`): the top frame goes on within its class (`Stays`), a frame is pushed
(`Pushes`), a block is entered (`Enters`), a frame returns (`Leaves`), a scope
is left (`LeavesScope`), a call that runs ends (`LeavesCall`) or begins
(`Begins`), a built-in is called and returns (`CallsBuiltIn`).  `ShapeInv`
proves that each of them preserves `IInv`, once, from lemmas on counting frames
(`PushCount`, `PopCount`, `MovedCount`, by `FiniteSetTheorems`); `NodesGood`,
`ForGood`, `CallsGood`, `OperandsGood` and so on prove for each action which
shape it has and that it obeys the rule about errors; `StepGood` puts them
together.  `JumpsLand` needs no invariant (`JumpStep`): a point that is not
deaf passes the signal on or adds an error that is not empty.

`Implements` reads the shapes once more, as what they do to the nest: a shape
leaves all constructs but the innermost as they are (`StepKeeps`), and the
mapping carries that over (`NestStep`), which is all that `Work` and `Unwind`
allow.  What is left are the steps with a jump: which actions begin one and
where (`JumpBegins`), and what the handler of each kind of construct does with
one (`JumpStep`).  `JumpsNext` maps each step to an action of `CimaJumps` or to
a stutter.

### Calls

`CimaArgsProofs` proves, for every `Names`, `Funcs`, `Plains`, `MaxArgs`,
`MaxItems` and `MaxCalls`, all four properties of the run `args`:

* `Typing`: `Spec => []TypeOK`;
* `SlotsWritten`: `Spec => []SlotsSet`;
* `NamedRestLast`: `Spec => []NamedVaLast`;
* `Bound`: `Spec => []BoundAsMeant`.

It assumes the three named assumptions of `CimaArgs`: `Funcs` are functions
(`FuncsAssumption`), the mark of a positional argument is no name
(`NoNameAssumption`), the bounds are naturals (`BoundsAssumption`).

None of the four is inductive: they speak of bodies, and what a body finds was
written turn by turn.  `IInv` says what the loop of `unwrap_args` has done so
far.  `SlotsOK`: slot `i` is written from argument `i`, under the name given
or else the `i`-th parameter's, if that argument has been evaluated, and is
untouched otherwise; the variadic slot is untouched until the body starts.
`RestOK`: what has been collected is what the arguments behind the fixed ones
say (`Rest`), and the collecting has been closed if and only if the last one
was an array given by name (`Spread`).  `NamesOK`: in a body the names are the
`Bindings` of the slots.  `Good` is there because of funcs.c:104: an array
whose *elements* are variadic would be spread without a name, and no operand
is one.  Arrays hold values, arrays among them, so there is no set of all
values; a sequence is one over some set (`IsASeq`).  For `Bound`, that each
name leads to a last slot is the lemma `Largest` (a nonempty set of numbers up
to `n` has a largest one, from `WFMin`); the rest is that in a tidy call the
names of the slots are the parameters, which are distinct.  `ForwardedAsGiven`,
which the code violates, is apart from it.

### The parser

`CimaParserProofs` proves, for all `Vocabularies` and every `MaxStack`:

* `Typing`: `Spec => []TypeOK`;
* `OperatorsGroup`: `Spec => []Grouped`;
* `PostfixApplies`: `Spec => []PostfixFirst`;
* `NodesPlaced`: `Spec => []NodesFit`;
* `BracketsClosed`: `Spec => []Balanced`.

It assumes `VocabulariesAssumption` (they are sets of tokens) and
`MaxStackAssumption` (a natural number).

`Grouped` looks at the place where an operand is returned; that it binds as
tightly as it must was settled calls ago.  `IInv` carries it along: `StackOK`
says which call may wait for which (`Fits`: the one above yields only kinds of
nodes the one below takes, and the call for the operand of an operator got that
operator's level as its `min_prec`); `PlaceOK` which call a place of the code
belongs to; `NodeOK` how the node in hand binds there: at `"ops"` nothing to
its right end binds tighter than it should (`Ended`), at `"postfix"` it is
primary (`Primary`), and on return its left end is at least the `min_prec` of
its caller.  `Levels` are the numbers of the precedence table.  Each of some
eighty actions is one of a handful of shapes, as in the evaluator: it goes on
in its function, calls another, returns, answers with a node or fails
(`GoesOn`, `Calls`, `Turns`, `Returns`, `Answers`, `Fails`), and one lemma
proves each shape.

`Balanced` speaks of the end of a text only.  `BInv` says at every place what is
open: the brackets of the calls in progress, in their order (`Held`).  `Bracket`
is the one that each call is inside while it waits for another (a list of
arguments, a block, the fields of a struct), `Own` the one of the innermost
call, which has none yet or no more at the places `Outside`.  Once something is
wrong (`Lost`) brackets no longer matter.  The same shapes carry it
(`StaysHeld`, `TurnsHeld`, `CallsHeld`, `ReturnsHeld`): a call may only wait
where its own bracket is open or before it is, and the one it calls starts with
none.

### The store

`CimaStoreProofs` proves, for every `Names`, `Fields` and `ConstFields` and
every bound on cells, arrays and contexts:

* `Typing`: `Spec => []TypeOK`;
* `NothingShared`: `Spec => []Forest`;
* `NoCycle`: `Spec => []Acyclic`;
* `FieldsStay`: `Spec => ConstFieldsKept`;
* `CallersStay`: `Spec => CallersKept`;
* `ConstantsStay`: `Spec => ConstKept`.

It assumes that there are a name and finitely many fields, one at least
(`NamesAssumption`, `FieldsAssumption`).

`IInv` has three parts.  `Sound` is about cells: a member's cell is at one
field of one map of fields (`Apart`), no struct is a part of itself (`Tree`),
two cells that are not arguments have maps of their own (`Single`; an
argument's cell, `lent`, is bound without a copy), and no argument's cell is a
member.  `StackOK` and `Scoped` are about names: a name leads to its own
context first, what a `let` has found is what its name stood for, and out of a
call no name leads into the caller, which is what `CallersKept` rests on.
`VarsApart` ties them together: no variable's cell is a member.  `Sound` and
`VarsApart` are stronger than `Forest` in that they speak of all cells and
arrays and of the value in hand, not yet bound.

The values of expressions are what changes cells, so the proof goes by what an
expression may do to them: `Grown` says of an outcome that the old cells are as
they were, the new ones are `Sound`, and that a fresh value shares no member
(`Own`).  `CopyGrown` is `copy_value`: the copies of the cells `v` owns form
the same tree on new numbers (`At`).  That it copies all of them needs
`Reached` to be what it is meant to be, the least set that has what the cells
lead to: `ReachedByRounds` and `ReachedIsClosure`, by `NatInductionSet`
and, for the number of rounds, `FiniteSetTheorems`.  `CellsStep` and `VarsStep` say
what a step does to the cells and variables there are: a cell it changes is a
member at a field that is not const, a variable it changes is at hand in the
topmost context, and a constant only for a `let` that found it before.

### Registration

`CimaRegisterProofs` proves, for every `Items` and `MaxItems`, all four
properties of the run `register`:

* `Typing`: `Spec => []TypeOK`;
* `OrderSuffices`: `Spec => []NoCrash`;
* `RedefinitionsFound`: `Spec => []RedefinitionFound`;
* `ArrayTypesAgree`: `Spec => []OneArrayType`.

`ItemsAssumption` says what the parser yields: initializers make values of
types and call functions that some item declares, and the parts of an enum are
its members, without types of their own.

`IInv` says what has been made of each declaration above the one in hand.
`Declaring`: while names are put in, a type is known by the one declaration of
it so far, or an error is recorded.  `TypesMade`, `FuncsMade`: each type has as
many members as parts of its text have been executed, each made of its part
(`MemberOf`), and the last function of each name its parameters.  `RefOf` is
the heart of it: an annotation `[T]` below the declaration of `T` stands for
the array type that is found by *all* members of `T`, so that any two of them
are one.  Crashes and endless initializers are excluded because, in a program
in order, a value's members refer to declarations above (`Above`), which are
complete.  "Leads to" is `Below`, what every set closed under the relation
contains: the same as the transitive closure, and of first order.

### The lexer and formatting

`CimaFormatProofs` proves, for all `Vocabularies`, every `MaxText` and
`MaxArgs`, all five properties of the run `format`:

* `Typing`: `Spec => []TypeOK`;
* `PlainTextKept`: `Spec => []TextKept`;
* `ArgumentsOnce`: `Spec => []ArgsOnce`;
* `LexerInBounds`: `Spec => []InBounds`;
* `LexerAdvances`: `Spec => Advances`.

It assumes that vocabularies are sets of characters and the bounds naturals.

Most of the work is to say what the functions of lexer.c compute for a text of
any length.  `Descent` proves that a function which is defined at `q` from its
values behind `q` exists, `DescentHolds` what holds of all its values, and
`Settles` that a loop which only moves forward ends where it stays.  With them:
`BracesEnd` (the braces of a string close, or the text has a suffix with more
`{` than `}`), `QuotesEnd`, `CommentsEnds`, `Names`, `Numbers`, `Operators`, and
from those `NextFinds`: what `lexer_next` yields is a `TokenOK` that does not
begin before what it skipped, ends where the text does unless a string is not
closed, and moves the lexer on unless it is the end.  The last is where
`get_token` and `is_special_symb` must agree: a character that the one does not
take (`Width` is 0) is not one that ends a name for the other (`TokenAt`).

`IInv` then says where the lexer stands in the text (`Reading`), where
`format_str` does (`Standing`: an open brace was a token before the current
one, which bounds `depth`) and that the arguments among the pieces are the first
`used` (`Rendered`).  For `TextKept`, `PlainInv` relates the pieces to the
characters: outside a field the pieces are exactly the characters so far at
which no brace is open (`KeptTo`), inside one they are those before its brace,
and the braces open in the text are one more than `depth`.  `NextPlain` says
why: without quotes, comments and `>=`, skipped blanks and tokens follow each
other without a gap, and only the tokens of kind `LBRACE` and `RBRACE` contain a
brace.

### Values

`CimaValuesProofs` proves, for every `Names`, `IntMax`, `ByteVals`, `MaxLen`
and `Ops`, all three properties of the run `values`:

* `Typing`: `Spec => []TypeOK`;
* `DeclaredKept`: `Spec => []DeclKept`;
* `ComparisonsAgree`: `Spec => []CmpCoherent`.

It assumes `WidthAssumption` (an int is wider than a bool) and `OpsAssumption`
(the operators are those of the language).

`DeclKept` is not inductive, because `assign_var` casts to the type of the value
the variable has and not to the declared one, and neither is `TypeOK`, which
says nothing of what is behind a reference or in an enum member.  `IInv` says
of each value that its numbers are what its type says, references and members
included (`WellFormed`), and how its type relates to the declared one (`Keeps`).
`CastFits`, `BinaryFits` and `UnaryFits` say what each conversion and operator
yields; `CastKeeps` that a cast to the type the variable has now keeps the
declared one.  That floats have a range (`FloatRange`) is there for the cast of
one to an int, which must not leave the ints.

### Only model-checked

`ErrorStops` and `Terminates`, because fairness is out of the prover's reach.
The three violation runs (`string_eq`, `parser_nested`, `args_forwarded`) are
counterexamples and need no proof.

The library's induction theorems take an operator as a parameter, which the
provers do not instantiate.  `CimaInduction` states induction for a set of
numbers instead, from the theorem that `<` on the naturals is well founded, so
that a predicate becomes a set and the prover need not be given an operator;
every recursive function of `CimaStore` and `CimaLexer` is reasoned about with
it.  What that needs of the models is that they are of first order: recursive
*functions*, and operators without operators as parameters.  The three
characters `{`, `}` and `"` have names (`LBrace`, `RBrace`, `Quote`) in
`CimaLexer` because the SMT backend cannot read a formula that contains them as
strings; the few facts about those strings are leaves of Zenon.

## 5. What is assumed

* The hash maps, strings and arrays of `nothing` are not part of the tree.
  Maps are functions; putting a name again replaces its value and returns 0,
  which `exec_func` asserts for the name of each slot.  `da_append_many`
  appends a sequence.
* `malloc` does not fail.
* Hashes do not collide (`CimaRegister`); the code compares structs, enums and
  functions by them.
* Signed overflow wraps around, as the machine does; C leaves it undefined.
  `INT_MIN % -1`, which may trap, wraps too.
* The C stack of the parser has a bound (`"deep"`), the evaluator's too.
* `CimaEval` and `CimaStore`: a value is what its type says (`CimaValues`
  proves that for the types it has).
* `CimaArgs`: a cast fails or keeps what the properties look at.
* `CimaStore`: the initializers of a struct expression are one; another one
  is to the store one more assignment.

## 6. What is not modelled

* What `to_str` and the error messages print.
* What built-ins compute, but for `format`; `append` and `remove_at` on shared
  arrays, for which `CimaStore` would need arrays of several lengths, and its
  run with arrays of one element is at the limit of what can be checked.
* The terminal.  The Unix part of sys.c refers to `orig_termios`, which is
  declared nowhere, so it does not compile; what it would restore is not known.
  On Windows `set_echo_enabled` saves one mode and puts it back.
* `main`, the build files.
* In `CimaStore`: types other than `any`, assignments to `a.b.c` and `a[i].x`,
  strings as shared memory.  In `CimaValues`: struct and function types,
  references to references, what arrays hold.  In `CimaParser`: which error it
  is, spans.

Seen in the code and left without a run, because no text of the repository
says what should happen, or because it is plain from the line:

* Evaluator.  A `let` or a loop as the condition or step of a `for` reaches
  the assertion at the end of `execute_expr` (executor.c:1669).  A break in an
  `if`'s condition is neither passed on nor reported (:1294).  A `break` in
  the initializer of a `let` inside a loop is reported as outside a loop.
  `let x = 1` then `let x = { const x = 2; 3 }` overwrites the constant
  (:607).  Reading `s[i]` of a string writes a zero there and yields it
  (:1199).  The primitive case of `assign_arr_el` falls through to the array
  case (:808), which the test in `unwrap_index_expr` keeps from happening.  A
  `return` where a value is wanted (the initializer of a `let`, the head of a
  `for`, an element, an argument, an expression in a format string) is taken
  for the value (:129-135, :631).  Memory that was never set is used after a
  failed index in an assignment (:788) and when what is called is no function
  (:1169), with the error recorded (mode `"undef"`).
* Calls.  Each call of a built-in leaks a copy of the global names
  (funcs.c:168, :200), which `MapsOK` counts.  `println("{}{}", 1, 2)`
  reads a pattern behind the last one (:84).  `readln()` in tests/01.cima:5 and
  tests/04.cima:2 has too few arguments for the `intercept` of `readln_func`.
* Store and values.  `s.x = &s.x` leads to itself, and reading it never ends
  (executor.c:896).  Sums of strings are put together from a quarter of their
  bytes (type.c:1163).  A cast between arrays of two types yields a NULL
  pointer (:1047).  The elements of a declared array may be of any type;
  `append(a, a)` makes an array that contains itself.
* Parser.  Unary `-`, `+` and `&` get the levels of the binary operators:
  `-a + b` is `-(a + b)`.  `for ;; {}` does not parse (a test for `[` instead
  of `{`, parser.c:896).  A member of an enum without a value takes no comma
  after it, fields of a struct none at all.  The type of a reference is parsed
  and dropped.  A syntax error in the body or return type of a function is read
  through NULL or through a pointer never set (:1604, :1585).
* Lexer and text.  Quotes, comments and the `=` of `>=` do not come through
  `format` (tests/01.cima:4 has quotes).  An empty string right after a comment
  is lost.  A `~` ends a long comment wherever it stands.  `\{` opens a field
  all the same.  A string that is never closed is read one character too far.
  `1E5` stays an int.  `a!=b` is `a!`, `=`, `b`.
* Registration.  `[T]` above and below the members of `T` are two types.  A
  static field without an initializer runs NULL (executor.c:346).  A struct
  with a static field of its own type makes `@A{}` endless.  A built-in is
  replaced in silence by a function of its name; of three functions of a name
  the third is compared with the second only.  `register_declarations` goes on
  after an error.  Redefining a function with the same parameter types records
  an error for which `print_runtime_error` has only its assertion (main.c:177).

## 7. Plan

Done, in this order: `CimaEval` with `CimaJumps`, its proofs; `CimaStore`;
`CimaArgs` and its proofs; `CimaValues`; `CimaParser` and its proofs;
`CimaLexer` with `CimaFormat`; `CimaRegister`; the proofs about `CimaValues`,
`CimaRegister`, `CimaStore`, the brackets of the parser, and `CimaFormat`.  What
could follow:

1. Facts about the models that no run asks yet: that the equality of array
   types found by `RefOf` carries over to `CimaValues`, where types are compared.
2. `CimaLexer`: that the characters between two tokens are blanks and comments,
   for every text, as `NextPlain` says for plain ones.
3. `CimaStore` with arrays of several elements and the built-ins on them.
