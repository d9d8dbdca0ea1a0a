------------------------------ MODULE CimaStore ------------------------------
(***************************************************************************)
(* The store of cima: variables, the cells their values live in, and what  *)
(* a copy shares (executor.c, copy_value and assign_field of type.c,       *)
(* exec_func and unwrap_args of funcs.c).  A program is a sequence of lets, *)
(* assignments, blocks and calls, each chosen here; the right side of a let *)
(* or an assignment is an operand, a new struct or array, or a block or a  *)
(* call, which runs statements of its own first.  Variables, fields and    *)
(* elements have type any, the one that lets values of every kind nest.    *)
(* The code never frees a cell; the model forgets those that nothing       *)
(* reaches, which no program can tell.                                     *)
(***************************************************************************)
EXTENDS Integers, Sequences, FiniteSetsExt

CONSTANTS
  Names,        \* names of variables and parameters
  Fields,       \* the fields of the one struct type
  ConstFields,  \* those declared const
  Kinds,        \* bound: the constructs the programs of an instance use
  MaxCells,     \* bound: cells in use
  MaxArrays,    \* bound: arrays in use, of one element each
  MaxFrames     \* bound: nested blocks and calls

\* Every instance has a name and a field, which make the targets of assignments.
ASSUME NamesAssumption == Names # {}
ASSUME FieldsAssumption == IsFiniteSet(Fields) /\ Fields # {} /\ ConstFields \subseteq Fields

VARIABLES
  heap,     \* the cells (Value in the code): a function from their numbers
  arrs,     \* the arrays: their element
  stack,    \* the contexts: names in scope, Vars, what waits for the value
  lent,     \* the cells of arguments, which are not copied
  error     \* an error is recorded: the program has ended

store == <<heap, arrs, stack, lent, error>>

(* Values.  A struct is a map from fields to cells; the C struct is copied  *)
(* with a pointer to that map, which never changes.                        *)
Nil == [k |-> "any"]        \* the default of type any
Plain == [k |-> "int"]      \* every other value of its own
Ref(c) == [k |-> "ref", c |-> c]
Struct(m) == [k |-> "struct", m |-> m]
Arr(a) == [k |-> "array", a |-> a]

Values(cells, arrays) ==
  {Nil, Plain} \cup {Ref(c) : c \in cells} \cup {Arr(a) : a \in arrays}
  \cup {Struct(m) : m \in [Fields -> cells]}

Targets == [t : {"name"}, x : Names, f : Fields]
           \cup (IF "struct" \in Kinds THEN [t : {"member"}, x : Names, f : Fields] ELSE {})
           \cup (IF "array" \in Kinds THEN [t : {"element"}, x : Names, f : Fields] ELSE {})

\* A Var: the cell it has now (Var.val), and whether it is constant.
NoVar == [cell |-> 0, constant |-> FALSE]
Vars(cells) == {NoVar} \cup [cell : cells, constant : BOOLEAN]

\* A context makes at most one Var for each name, so the Var that a name
\* stands for is told by the index of the context that made it, one of n.
Contexts(cells, n) ==
  [names : [Names -> 0..n], vars : [Names -> Vars(cells)], call : BOOLEAN,
   op : {"drop", "let", "assign"}, target : Targets, found : 0..n,
   constant : BOOLEAN]

\* No cell, array or Var in use is missing.
TypeOK ==
  /\ \A c \in DOMAIN heap : heap[c] \in Values(DOMAIN heap, DOMAIN arrs)
  /\ \A a \in DOMAIN arrs : arrs[a] \in Values(DOMAIN heap, DOMAIN arrs)
  /\ stack \in Seq(Contexts(DOMAIN heap, Len(stack))) /\ stack # <<>>
  /\ \A i \in DOMAIN stack, x \in Names :
       /\ stack[i].names[x] <= i
       /\ stack[i].names[x] # 0 => stack[stack[i].names[x]].vars[x] # NoVar
       /\ stack[i].found < i \/ i = 1
  /\ lent \subseteq DOMAIN heap
  /\ error \in BOOLEAN

-----------------------------------------------------------------------------
(* What is in use *)

\* A new cell or array: the number behind those in use.
Highest(s) == Max(s \cup {0})
New(s) == Highest(s) + 1

\* Where a value leads: to the cells it is made of or refers to, or an array.
MembersOf(v) == IF v.k = "struct" THEN {v.m[f] : f \in Fields} ELSE {}
CellsOf(v) == MembersOf(v) \cup IF v.k = "ref" THEN {v.c} ELSE {}
ArraysOf(v) == IF v.k = "array" THEN {v.a} ELSE {}

\* What S leads to, S included, where next[p] are those behind p.
Reached(next, S) ==
  LET n == Cardinality(DOMAIN next)
      reached[i \in 0..n] ==
        IF i = 0 THEN S
        ELSE LET R == reached[i - 1] IN R \cup UNION {next[p] : p \in R}
  IN  reached[n]

\* The cells ("c") and arrays ("a") that the given cells lead to.
InUse(h, a, cells) ==
  LET lead(v) == {<<"c", c>> : c \in CellsOf(v)} \cup {<<"a", b>> : b \in ArraysOf(v)}
      next == [p \in ({"c"} \X DOMAIN h) \cup ({"a"} \X DOMAIN a) |->
                 lead(IF p[1] = "c" THEN h[p[2]] ELSE a[p[2]])]
  IN  Reached(next, {<<"c", c>> : c \in cells})

\* The store after a step: of the cells h and arrays a, those the contexts
\* of stack' lead to.
Settle(h, a, l) ==
  LET own == UNION {{stack'[i].vars[x].cell : x \in Names} : i \in DOMAIN stack'}
      used == InUse(h, a, own \ {0})
      cells == {c \in DOMAIN h : <<"c", c>> \in used}
  IN  /\ heap' = Restrict(h, cells)
      /\ arrs' = Restrict(a, {b \in DOMAIN a : <<"a", b>> \in used})
      /\ lent' = l \cap cells

Small == /\ Cardinality(DOMAIN heap) <= MaxCells
         /\ Cardinality(DOMAIN arrs) <= MaxArrays

-----------------------------------------------------------------------------
(* Expressions.  The outcome of one: its value, the cells and arrays after  *)
(* it, and whether the value is a struct that nothing else leads to.       *)

Top == stack[Len(stack)]
Bound == {x \in Names : Top.names[x] # 0}
VarOf(st, x) == st[st[Len(st)].names[x]].vars[x]
CellOf(x) == VarOf(stack, x).cell

Outcome(v) == [val |-> v, heap |-> heap, arrs |-> arrs, fresh |-> FALSE]

\* The member cells of a struct, of its struct members, and so on.
Owned(h, v) == Reached([c \in DOMAIN h |-> MembersOf(h[c])], MembersOf(v))

\* copy_value: a struct gets cells of its own, at every level; a reference
\* and an array are shared.
CopyValue(h, v) ==
  LET owned == Owned(h, v)
      at == [c \in owned |-> Highest(DOMAIN h) + Cardinality({d \in owned : d <= c})]
      moved(w) == IF w.k = "struct" THEN Struct([f \in Fields |-> at[w.m[f]]]) ELSE w
  IN  [val |-> moved(v),
       heap |-> [c \in DOMAIN h \cup {at[d] : d \in owned} |->
                   IF c \in DOMAIN h THEN h[c]
                   ELSE moved(h[CHOOSE d \in owned : at[d] = c])]]

\* Mutant: a struct is copied as C copies it, with the map of its members.
CopyShallow(e) == e

\* To copy a struct that nothing else leads to is to keep it.
Copy(e) == IF e.fresh THEN e
           ELSE LET c == CopyValue(e.heap, e.val)
                IN  [e EXCEPT !.val = c.val, !.heap = c.heap]

\* A member access dereferences its base once.
Deref(v) == IF v.k = "ref" THEN heap[v.c] ELSE v
MemberCell(x, f) == Deref(heap[CellOf(x)]).m[f]
StructNames == {x \in Bound : Deref(heap[CellOf(x)]).k = "struct"}
ArrayNames == {x \in Bound : heap[CellOf(x)].k = "array"}

\* Plain values, x, x.f, x[0].
Reads ==
  {Plain} \cup {heap[CellOf(x)] : x \in Bound}
  \cup {heap[MemberCell(x, f)] : x \in StructNames, f \in Fields}
  \cup {arrs[heap[CellOf(x)].a] : x \in ArrayNames}

\* &x, &x.f
References ==
  {Ref(CellOf(x)) : x \in Bound}
  \cup {Ref(MemberCell(x, f)) : x \in StructNames, f \in Fields}

\* execute_struct_expr for @S{f: v}: the other fields keep their default.
\* (One more initializer is to the store one more assignment.)
StructExpr(f, v) ==
  LET n == Cardinality(Fields)
      pos == CHOOSE p \in [Fields -> 1..n] : \A g, h \in Fields : p[g] = p[h] => g = h
      new == [g \in Fields |-> Highest(DOMAIN heap) + pos[g]]
      alloc == [c \in DOMAIN heap \cup {new[g] : g \in Fields} |->
                  IF c \in DOMAIN heap THEN heap[c] ELSE Nil]
      field == CopyValue(alloc, v)
  IN  [val |-> Struct(new), arrs |-> arrs, fresh |-> TRUE,
       heap |-> [field.heap EXCEPT ![new[f]] = field.val]]

\* execute_arr_expr for [v]: the element is not copied.
ArrExpr(v) ==
  LET a == New(DOMAIN arrs)
  IN  [val |-> Arr(a), heap |-> heap, fresh |-> FALSE,
       arrs |-> [b \in DOMAIN arrs \cup {a} |-> IF b = a THEN v ELSE arrs[b]]]

Operands == Reads \cup IF "ref" \in Kinds THEN References ELSE {}
Outcomes ==
  {Outcome(v) : v \in Operands}
  \cup (IF "struct" \in Kinds
          THEN {StructExpr(f, v) : f \in Fields, v \in Operands \cup {Nil}} ELSE {})
  \cup (IF "array" \in Kinds THEN {ArrExpr(v) : v \in Operands} ELSE {})

-----------------------------------------------------------------------------
(* What takes the value e: a let or an assignment, in the context on top of *)
(* st, the stack the statement itself began with.                          *)

\* Errors end the program.
Fail == error' = TRUE /\ UNCHANGED <<heap, arrs, stack, lent>>

\* A copy of e in a new cell.
Stored(e) ==
  LET c == Copy(e)
      new == New(DOMAIN c.heap)
  IN  [cell |-> new, heap |-> [d \in DOMAIN c.heap \cup {new} |->
                                 IF d = new THEN c.val ELSE c.heap[d]]]

\* register_var after the initializer: the Var found before it, or a new
\* one, gets a new cell and is constant or not as this let says.
Bind(st, use, e) ==
  LET s == Stored(e)
      n == IF use.found = 0 THEN Len(st) ELSE use.found
      x == use.target.x
  IN  /\ stack' = [st EXCEPT ![Len(st)].names[x] = n,
                             ![n].vars[x] = [cell |-> s.cell, constant |-> use.constant]]
      /\ Settle(s.heap, e.arrs, lent)
      /\ UNCHANGED error

\* compatible_types.  (Types of references are not told apart by what they
\* refer to.)
Compatible(v, w) == v.k = "any" \/ v.k = w.k

\* Mutants: a constant can be assigned to; a const field can.
CanAssignConst(st, target, v) ==
  LET base == heap[VarOf(st, target.x).cell]
  IN  /\ st[Len(st)].names[target.x] # 0
      /\ CASE target.t = "name" -> Compatible(base, v)
           [] target.t = "member" ->
                Deref(base).k = "struct" /\ target.f \notin ConstFields
           [] target.t = "element" -> base.k = "array"
CanAssignConstField(st, target, v) ==
  LET var == VarOf(st, target.x)
      base == heap[var.cell]
  IN  /\ st[Len(st)].names[target.x] # 0
      /\ CASE target.t = "name" -> ~ var.constant /\ Compatible(base, v)
           [] target.t = "member" -> Deref(base).k = "struct"
           [] target.t = "element" -> base.k = "array"

\* What assign_var, assign_member and assign_arr_el ask of the target.
CanAssign(st, target, v) ==
  LET var == VarOf(st, target.x)
      base == heap[var.cell]
  IN  /\ st[Len(st)].names[target.x] # 0
      /\ CASE target.t = "name" -> ~ var.constant /\ Compatible(base, v)
           [] target.t = "member" ->
                Deref(base).k = "struct" /\ target.f \notin ConstFields
           [] target.t = "element" -> base.k = "array"

\* A variable moves to a new cell; a member keeps its own; an element is
\* not copied.
AssignVar(st, x, e) ==
  LET s == Stored(e)
  IN  /\ stack' = [st EXCEPT ![st[Len(st)].names[x]].vars[x].cell = s.cell]
      /\ Settle(s.heap, e.arrs, lent)
AssignFieldShared(st, x, f, e) ==    \* mutant: the value is not copied
  LET cell == Deref(heap[VarOf(st, x).cell]).m[f]
  IN  /\ stack' = st
      /\ Settle([e.heap EXCEPT ![cell] = e.val], e.arrs, lent)
AssignField(st, x, f, e) ==
  LET c == Copy(e)
      cell == Deref(heap[VarOf(st, x).cell]).m[f]
  IN  /\ stack' = st
      /\ Settle([c.heap EXCEPT ![cell] = c.val], e.arrs, lent)
AssignElement(st, x, e) ==
  /\ stack' = st
  /\ Settle(e.heap, [e.arrs EXCEPT ![heap[VarOf(st, x).cell].a] = e.val], lent)

\* assign: the target is resolved after the right side is evaluated.
Assign(st, target, e) ==
  \/ ~ CanAssign(st, target, e.val) /\ Fail
  \/ /\ CanAssign(st, target, e.val)
     /\ CASE target.t = "name"    -> AssignVar(st, target.x, e)
          [] target.t = "member"  -> AssignField(st, target.x, target.f, e)
          [] target.t = "element" -> AssignElement(st, target.x, e)
     /\ UNCHANGED error

Take(st, use, e) ==
  CASE use.op = "let"    -> Bind(st, use, e)
    [] use.op = "assign" -> Assign(st, use.target, e)
    [] use.op = "drop"   -> /\ stack' = st
                            /\ Settle(heap, arrs, lent)
                            /\ UNCHANGED error

-----------------------------------------------------------------------------
(* Statements *)

SomeTarget == CHOOSE t \in Targets : TRUE
Drop == [op |-> "drop", target |-> SomeTarget, found |-> 0, constant |-> FALSE]
LetUse(x, c) == [op |-> "let", target |-> [SomeTarget EXCEPT !.x = x],
                 found |-> Top.names[x], constant |-> c]
AssignUse(target) == [Drop EXCEPT !.op = "assign", !.target = target]

Context(names, vars, call, use) ==
  [names |-> names, vars |-> vars, call |-> call, op |-> use.op,
   target |-> use.target, found |-> use.found, constant |-> use.constant]
NoVars == [x \in Names |-> NoVar]

\* execute_block_expr: a copy of the names in scope.
EnterBlock(use) ==
  /\ "block" \in Kinds /\ Len(stack) < MaxFrames
  /\ stack' = Append(stack, Context(Top.names, NoVars, FALSE, use))
  /\ UNCHANGED <<heap, arrs, lent, error>>

\* exec_func of a function with the parameter p, called with the names of
\* context: the argument is not copied.
Call(names, use, p, e) ==
  LET new == New(DOMAIN e.heap)
      arg == [cell |-> new, constant |-> FALSE]
  IN  /\ stack' = Append(stack, Context([names EXCEPT ![p] = Len(stack) + 1],
                                        [NoVars EXCEPT ![p] = arg], TRUE, use))
      /\ Settle([c \in DOMAIN e.heap \cup {new} |-> IF c = new THEN e.val ELSE e.heap[c]],
                e.arrs, lent \cup {new})
      /\ UNCHANGED error

\* Mutant: the callee starts with its caller's names.
EnterCallDynamic(use, p, e) == Call(Top.names, use, p, e)

\* The names a function starts with are the global ones.
EnterCall(use, p, e) == Call(stack[1].names, use, p, e)

\* The value is there at once, or after a block or a call.
Nested(use) ==
  \/ EnterBlock(use)
  \/ /\ "call" \in Kinds /\ Len(stack) < MaxFrames
     /\ \E p \in Names, e \in Outcomes : EnterCall(use, p, e)

CanLet(x) == x \in Bound => ~ VarOf(stack, x).constant
Constants == IF "const" \in Kinds THEN BOOLEAN ELSE {FALSE}

\* register_var: a constant is not redefined; without an initializer the
\* variable has the default value.
Let ==
  /\ ~ error
  /\ \E x \in Names, c \in Constants :
       \/ ~ CanLet(x) /\ Fail
       \/ CanLet(x) /\ \E e \in Outcomes \cup {Outcome(Nil)} : Bind(stack, LetUse(x, c), e)
       \/ CanLet(x) /\ Nested(LetUse(x, c))

AssignStmt ==
  /\ ~ error
  /\ \E target \in Targets :
       \/ \E e \in Outcomes : Assign(stack, target, e)
       \/ Nested(AssignUse(target))

ExprStmt == ~ error /\ Nested(Drop)

\* Mutant: a block works on the names of its context, not on a copy.
LeaveNames ==
  LET outer == SubSeq(stack, 1, Len(stack) - 1)
  IN  /\ ~ error /\ Len(stack) > 1
      /\ \E e \in Outcomes :
           Take(IF Top.call THEN outer ELSE [outer EXCEPT ![Len(outer)].names = Top.names],
                Top, e)

\* The last expression of a block or function body, and what it is for.
Leave ==
  /\ ~ error /\ Len(stack) > 1
  /\ \E e \in Outcomes : Take(SubSeq(stack, 1, Len(stack) - 1), Top, e)

\* A program may end, and it ends with an error.
End == (error \/ Len(stack) = 1) /\ UNCHANGED store

Init ==
  /\ heap = <<>> /\ arrs = <<>>
  /\ stack = <<Context([x \in Names |-> 0], NoVars, FALSE, Drop)>>
  /\ lent = {} /\ error = FALSE

Next ==
  \/ Let /\ Small'
  \/ AssignStmt /\ Small'
  \/ ExprStmt /\ Small'
  \/ Leave /\ Small'
  \/ End

Spec == Init /\ [][Next]_store

-----------------------------------------------------------------------------
(* Properties *)

\* Values are copied where they are bound: no two cells hold a struct with a
\* common member, and no variable's cell is a member.  Only arguments (and
\* array elements) share their struct.
Forest ==
  /\ \A c, d \in DOMAIN heap \ lent : \A f, g \in Fields :
       (/\ heap[c].k = "struct" /\ heap[d].k = "struct"
        /\ heap[c].m[f] = heap[d].m[g]) => c = d /\ f = g
  /\ \A i \in DOMAIN stack, x \in Names, c \in DOMAIN heap :
       stack[i].vars[x].cell \notin MembersOf(heap[c])

\* A struct is no part of itself: copying and printing it come to an end.
Acyclic == \A c \in DOMAIN heap : c \notin Owned(heap, heap[c])

\* What a caller has bound, and is not global, keeps its value and its
\* constancy while a function it calls runs, recursion included.
CallersKept ==
  [][\A i, j \in 1..Len(stack) :
       (1 < i /\ i < j /\ stack[j].call /\ Len(stack') >= j) =>
         stack'[i].vars = stack[i].vars]_store

\* The Var that context i made for x is a constant and changes in this step.
ConstChanges(i, x) ==
  /\ i <= Len(stack')
  /\ stack[i].vars[x].constant /\ stack'[i].vars[x] # stack[i].vars[x]

\* A constant changes only under a let of the same variable that began
\* before it was constant.
ConstKept ==
  [][\A i \in DOMAIN stack, x \in Names :
       ConstChanges(i, x) =>
         \E j \in i + 1..Len(stack) :
           stack[j].op = "let" /\ stack[j].target.x = x /\ stack[j].found = i]_store

\* A const field of a struct keeps the value it was made with.
ConstFieldsKept ==
  [][\A c \in DOMAIN heap : heap[c].k = "struct" =>
       \A f \in ConstFields : heap[c].m[f] \in DOMAIN heap' =>
         heap'[heap[c].m[f]] = heap[heap[c].m[f]]]_store
=============================================================================
