------------------------------ MODULE CimaValues ------------------------------
(***************************************************************************)
(* Values, their conversions and the operators on them (type.c and         *)
(* execute_binary_expr, execute_unary_expr, register_var, assign_var of    *)
(* executor.c).  A program declares variables, with types or without, and  *)
(* assigns to them the results of operators and casts.                     *)
(*                                                                         *)
(* An operator is the set of the values it may yield: none when it records *)
(* an error, several where the model does not compute the number (floats,  *)
(* powers, bits, text) or C does not define it.                            *)
(***************************************************************************)
EXTENDS Integers, Sequences, FiniteSets

CONSTANTS
  Names,      \* variables
  IntMax,     \* the largest int: INT_CTYPE is a two's complement number
  ByteVals,   \* how many values a byte of a string has
  MaxLen,     \* bound: length of strings
  Ops         \* the operators the programs of an instance use

ASSUME WidthAssumption ==
  /\ IntMax \in Nat \ {0, 1} /\ ByteVals \in Nat \ {0, 1}
  /\ ByteVals * ByteVals > IntMax

Operators == {"+", "-", "*", "/", "%", "^", "&&", "||", "&", "|", ">", "<", ">=", "<=", "==",
              "!=", "!", "u+", "u-"}
ASSUME OpsAssumption == Ops \subseteq Operators

VARIABLES
  env,    \* the variables: their declared types and values
  error   \* an error is recorded: the program has ended

vars == <<env, error>>

(* Types.  E is an enum with the members 0 and 1 and one whose initializer  *)
(* is a string; a member's value has a type of its own, E.int or E.str.    *)
Prims == {"int", "float", "bool", "char", "str", "any", "void"}
Arrays == {"[any]", "[int]", "[bool]"}
Enums == {"E", "E.int", "E.str"}
Refs == {"&int", "&str"}
El == [t \in Arrays \cup Enums \cup Refs |->
         CASE t = "[any]" -> "any" [] t = "[bool]" -> "bool"
           [] t \in {"E.str", "&str"} -> "str" [] t = "E" -> "none"
           [] OTHER -> "int"]
Kind(t) == CASE t \in Prims -> "prim" [] t \in Arrays -> "array"
             [] t \in Enums -> "enum" [] t \in Refs -> "ref"
IntLike == {"int", "bool", "char"}
Declared == {"int", "float", "bool", "char", "str", "any", "[any]", "[int]", "[bool]", "E", "&int"}

(* Values: a type and a sequence of numbers, the one number of a number,    *)
(* the characters of a string, the length of an array, what a reference    *)
(* leads to.  Floats are counted in halves.                                *)
V(t, v) == [t |-> t, v |-> v]
Ints == -IntMax - 1..IntMax
Wrap(n) == ((n + IntMax + 1) % (2 * IntMax + 2)) - IntMax - 1
IntV(n) == V("int", <<Wrap(n)>>)
Bool(b) == V("bool", <<IF b THEN 1 ELSE 0>>)
NaN == 100 * IntMax
Floats == {-1, 0, 1, 2, NaN}
AnyInt == {IntV(n) : n \in Ints}
AnyFloat == {V("float", <<f>>) : f \in Floats}
Nothing == V("void", <<0>>)
NullArray == <<-1>>

\* Characters, and strings of them.  A string is an array of code points of
\* four bytes each, the least first.
Chars == {1, 2}
Strings(n) == UNION {[1..k -> Chars] : k \in 0..n}
Texts == {V("str", s) : s \in Strings(1) \ {<<>>}}
Bytes(s) == [i \in 1..4 * Len(s) |->
               LET c == s[1 + (i - 1) \div 4]
               IN  CASE i % 4 = 1 -> c % ByteVals
                     [] i % 4 = 2 -> (c \div ByteVals) % ByteVals
                     [] OTHER -> 0]

-----------------------------------------------------------------------------
(* Conversions *)

N(x) == x.v[1]
Deref(x) == IF Kind(x.t) = "ref" THEN V(El[x.t], x.v) ELSE x
\* The value an enum member was given.
Member(x) == IF x.t \in {"E.int", "E.str"} THEN V(El[x.t], x.v) ELSE x
Halves(x) == IF x.t = "float" THEN N(x) ELSE 2 * N(x)
Truncate(h) == IF h >= 0 THEN h \div 2 ELSE -((-h) \div 2)

\* to_int, to_float, to_bool, to_str.
ToInt(x) ==
  LET y == Member(x)
  IN  CASE y.t \in IntLike -> {N(y)}
        [] y.t = "float" /\ N(y) # NaN -> {Truncate(N(y))}
        [] y.t = "float" /\ N(y) = NaN -> Ints
        [] y.t = "void" -> {0}
        [] OTHER -> {}
ToFloat(x) ==
  LET y == Member(x)
  IN  IF y.t \in IntLike \cup {"float"} THEN {V("float", <<Halves(y)>>)}
      ELSE IF y.t = "void" THEN {V("float", <<0>>)} ELSE {}
ToBool(x) ==
  LET y == Member(x)
  IN  CASE y.t \in IntLike \cup {"float"} -> {N(y) # 0}
        [] y.t = "str" -> {y.v # <<>>}
        [] y.t = "void" -> {FALSE}
        [] Kind(y.t) = "array" -> {N(y) > 0}
        [] OTHER -> {}
ToStr(x) ==
  LET y == Deref(x)
  IN  CASE y.t = "str" -> {y}
        [] y.t = "char" -> {V("str", y.v)}
        [] y.t = "any" -> {}
        [] OTHER -> Texts

\* hash_enum: the members' types do not count.
SameEnum(s, t) == s \in Enums /\ t \in Enums

\* compatible_types(s, t).  (Of two types the first of which is an array,
\* the second need not be one.)
Compatible(s, t) ==
  LET u == IF t \in {"E.int", "E.str"} THEN El[t] ELSE t
  IN  \/ s = t
      \/ /\ s \in IntLike \cup {"float", "void"}
         /\ u \in IntLike \cup {"float", "void", "str"}
      \/ Kind(s) = "prim" /\ s \notin IntLike \cup {"float", "void"}
      \/ SameEnum(s, t)
      \/ Kind(s) = "array" /\ (El[s] = "any" \/ (Kind(t) = "array" /\ El[t] = "any"))

CastArray(x, t) ==
  IF Kind(x.t) # "array" THEN {}
  ELSE IF El[x.t] = "any" THEN {V(t, x.v)}
  ELSE IF t = "[any]" THEN {x}
  ELSE {V(t, NullArray)}

\* An int is the position of a member, whose value may be something else.
CastEnum(x) ==
  IF x.t \in Enums THEN {x}
  ELSE LET member(n) == IF n = 2 THEN V("E.str", <<1>>) ELSE V("E.int", <<n>>)
       IN  {member(n) : n \in ToInt(x) \cap 0..2}

\* Mutant: a cast to bool keeps the number.
CastBoolKeeps(x, t) ==
  CASE x.t = t -> {x}
    [] t # x.t /\ t \in IntLike -> {V(t, <<n>>) : n \in ToInt(x)}
    [] t # x.t /\ t = "float" -> ToFloat(x)
    [] t # x.t /\ t = "str"  -> ToStr(x)
    [] t # x.t /\ t = "any"  -> {x}
    [] t # x.t /\ t = "void" -> {}
    [] t # x.t /\ t \in Arrays -> CastArray(Deref(x), t)
    [] t # x.t /\ t \in Enums  -> CastEnum(Deref(x))
    [] t # x.t /\ t \in Refs ->
         IF Kind(x.t) = "ref" /\ Compatible(El[x.t], El[t]) THEN {x} ELSE {}

\* cast_value.  A char is a number of the same width as an int.
Cast(x, t) ==
  CASE x.t = t -> {x}
    [] t # x.t /\ t \in {"int", "char"} -> {V(t, <<n>>) : n \in ToInt(x)}
    [] t # x.t /\ t = "float" -> ToFloat(x)
    [] t # x.t /\ t = "bool" -> {Bool(b) : b \in ToBool(x)}
    [] t # x.t /\ t = "str"  -> ToStr(x)
    [] t # x.t /\ t = "any"  -> {x}
    [] t # x.t /\ t = "void" -> {}
    [] t # x.t /\ t \in Arrays -> CastArray(Deref(x), t)
    [] t # x.t /\ t \in Enums  -> CastEnum(Deref(x))
    [] t # x.t /\ t \in Refs ->
         IF Kind(x.t) = "ref" /\ Compatible(El[x.t], El[t]) THEN {x} ELSE {}

-----------------------------------------------------------------------------
(* Operators *)

Number(x) == x.t \in IntLike \cup {"float"}
Zero(x) == x.t # "str" /\ N(x) = 0
SomeFloat(x, y) == x.t = "float" \/ y.t = "float"

\* The result of an arithmetic operator on two numbers: n, of type t, if
\* none is a float.
Arithmetic(x, y, t, n) ==
  IF ~ (Number(x) /\ Number(y)) THEN {}
  ELSE IF SomeFloat(x, y) THEN AnyFloat ELSE {V(t, <<Wrap(n)>>)}

\* The sum of strings is put together from bytes and read as characters: as
\* long as it should be, of characters that may be any.
Sum(x, y) == {V("str", s) : s \in {r \in Strings(MaxLen) : Len(r) = Len(x.v) + Len(y.v)}}
Plus(x, y) ==
  IF {x.t, y.t} \subseteq {"str", "char"} /\ "str" \in {x.t, y.t} THEN Sum(x, y)
  ELSE Arithmetic(x, y, "int", N(x) + N(y))
Minus(x, y) == Arithmetic(x, y, IF y.t = "char" THEN "char" ELSE "int", N(x) - N(y))
Mul(x, y) == Arithmetic(x, y, "int", N(x) * N(y))
Div(x, y) == IF Number(x) /\ Number(y) /\ ~ Zero(y) THEN AnyFloat ELSE {}
\* The left side is an int or a float, not a bool or a char.
Mod(x, y) ==
  IF x.t \notin {"int", "float"} \/ ~ Number(y) \/ Zero(y) THEN {}
  ELSE IF SomeFloat(x, y) THEN AnyFloat
  ELSE LET r == (IF N(x) < 0 THEN -N(x) ELSE N(x)) % (IF N(y) < 0 THEN -N(y) ELSE N(y))
       IN  {IntV(IF N(x) < 0 THEN -r ELSE r)}
Pow(x, y) ==
  IF x.t \notin {"int", "float"} \/ ~ Number(y) THEN {}
  ELSE IF SomeFloat(x, y) THEN AnyFloat ELSE AnyInt
Bits(x, y) == IF x.t = "int" /\ y.t = "int" THEN AnyInt ELSE {}

\* && and || do not look at the right side when the left one decides.
And(x, y) == UNION {IF b THEN {Bool(c) : c \in ToBool(y)} ELSE {Bool(FALSE)} : b \in ToBool(x)}
Or(x, y) == UNION {IF b THEN {Bool(TRUE)} ELSE {Bool(c) : c \in ToBool(y)} : b \in ToBool(x)}

\* Comparisons of numbers, false of what is no number.
Ordered(x, y) == Halves(x) # NaN /\ Halves(y) # NaN
Gt(x, y) == IF Number(x) /\ Number(y) THEN {Bool(Ordered(x, y) /\ Halves(x) > Halves(y))} ELSE {}
Lt(x, y) == IF Number(x) /\ Number(y) THEN {Bool(Ordered(x, y) /\ Halves(x) < Halves(y))} ELSE {}
Gteq(x, y) == IF Number(x) /\ Number(y) THEN {Bool(Ordered(x, y) /\ Halves(x) >= Halves(y))} ELSE {}

\* Mutant: the comparison of an int and a float has its sides swapped.
LteqSwapped(x, y) ==
  IF ~ (Number(x) /\ Number(y)) THEN {}
  ELSE IF y.t = "float" THEN {Bool(Ordered(x, y) /\ Halves(x) >= Halves(y))}
  ELSE {Bool(Ordered(x, y) /\ Halves(x) <= Halves(y))}

Lteq(x, y) == IF Number(x) /\ Number(y) THEN {Bool(Ordered(x, y) /\ Halves(x) <= Halves(y))} ELSE {}

\* Two strings are compared over as many bytes as they have characters; a
\* string and a character by the first byte of each, the string on the left.
EqStr(s, t) == Len(s) = Len(t) /\ \A i \in 1..Len(s) : Bytes(s)[i] = Bytes(t)[i]
Eq(x, y) ==
  CASE Number(x) /\ Number(y) -> {Bool(Ordered(x, y) /\ Halves(x) = Halves(y))}
    [] x.t = "str" /\ y.t = "str" -> {Bool(EqStr(x.v, y.v))}
    [] x.t = "str" /\ y.t = "char" ->
         {Bool(Len(x.v) = 1 /\ Bytes(x.v)[1] = N(y) % ByteVals)}
    [] OTHER -> {}
Neq(x, y) == {Bool(b = Bool(FALSE)) : b \in Eq(x, y)}

\* execute_binary_expr: references are followed, enum members stand for
\* their values.
Binary(op, left, right) ==
  LET x == Member(Deref(left))
      y == Member(Deref(right))
  IN  CASE op = "+" -> Plus(x, y)   [] op = "-" -> Minus(x, y)
        [] op = "*" -> Mul(x, y)    [] op = "/" -> Div(x, y)
        [] op = "%" -> Mod(x, y)    [] op = "^" -> Pow(x, y)
        [] op = "&&" -> And(x, y)   [] op = "||" -> Or(x, y)
        [] op \in {"&", "|"} -> Bits(x, y)
        [] op = ">" -> Gt(x, y)     [] op = "<" -> Lt(x, y)
        [] op = ">=" -> Gteq(x, y)  [] op = "<=" -> Lteq(x, y)
        [] op = "==" -> Eq(x, y)    [] op = "!=" -> Neq(x, y)

\* execute_unary_expr; ++ and -- are IncDec below.
Unary(op, operand) ==
  LET x == Deref(operand)
  IN  CASE op = "!" -> {Bool(~ b) : b \in ToBool(x)}
        [] op = "u+" -> IF x.t \in {"int", "float"} THEN {x} ELSE {}
        [] op = "u-" -> IF x.t \in IntLike THEN {IntV(-N(x))}
                        ELSE IF x.t = "float" THEN AnyFloat ELSE {}

-----------------------------------------------------------------------------
(* Programs *)

Undeclared == [decl |-> "none", val |-> Nothing]
Bound == {x \in Names : env[x].decl # "none"}
Literals ==
  {Nothing, IntV(1), IntV(2), V("float", <<1>>), Bool(TRUE), V("char", <<1>>),
   V("str", <<1, 1>>), V("str", <<1, 2>>), V("[any]", <<1>>), V("E.int", <<1>>), V("E.str", <<1>>)}
\* What variables hold, and references to it: a reference leads to the cell
\* a variable has now, and assignments give the variable another one.
Held == {env[x].val : x \in Bound}
Operands == Held \cup {r \in {V(t, v.v) : t \in Refs, v \in Held} : Deref(r) \in Held}

\* What an expression may yield: a literal, or an operator or a cast applied
\* to variables (a literal is to an operator what a variable holding it is).
Results ==
  Literals \cup Operands
  \cup (UNION {Binary(op, v, w) : op \in Ops \ {"!", "u+", "u-"}, v, w \in Operands})
  \cup (UNION {Unary(op, v) : op \in Ops \cap {"!", "u+", "u-"}, v \in Operands})
  \cup (UNION {Cast(v, t) : v \in Operands, t \in Declared})

Fail == error' = TRUE /\ UNCHANGED env
Store(x, d, v) == env' = [env EXCEPT ![x] = [decl |-> d, val |-> v]] /\ UNCHANGED error

\* alloc_type_value.  (A reference without an initializer leads nowhere; the
\* programs here give every reference one.)
Default(t) == V(t, IF t \in {"str", "any"} THEN <<>> ELSE <<0>>)

\* An expression that records an error.
ErrStmt == ~ error /\ Fail

\* register_var: without a type a variable has type any.
LetStmt ==
  /\ ~ error
  /\ LET results == Results
     IN  \E t \in Declared :
           LET values == (UNION {Cast(v, t) : v \in results})
                         \cup {Default(u) : u \in {t} \ Refs}
           IN  \E x \in Names, w \in values : Store(x, t, w)

\* Mutant: assign_var stores the value as it comes.
AssignAsIs(x, v) ==
  IF Compatible(env[x].val.t, v.t) THEN Store(x, env[x].decl, v) ELSE Fail

\* assign_var: the type that counts is that of the value the variable has.
Assign(x, v) ==
  IF Compatible(env[x].val.t, v.t) /\ Cast(v, env[x].val.t) # {}
    THEN \E w \in Cast(v, env[x].val.t) : Store(x, env[x].decl, w)
    ELSE Fail

AssignStmt == ~ error /\ \E v \in Results : \E x \in Bound : Assign(x, v)

\* ++x and --x: one more or less, of type int or float, is assigned to x.
IncDec ==
  /\ ~ error
  /\ \E x \in Bound, d \in {1, -1} :
       LET y == Deref(env[x].val)
       IN  CASE y.t \in IntLike -> Assign(x, IntV(N(y) + d))
             [] y.t = "float" -> \E v \in AnyFloat : Assign(x, v)
             [] OTHER -> Fail

End == error /\ UNCHANGED vars

Init == env = [x \in Names |-> Undeclared] /\ error = FALSE

Next == LetStmt \/ AssignStmt \/ IncDec \/ ErrStmt \/ End

Spec == Init /\ [][Next]_vars

-----------------------------------------------------------------------------
(* Properties *)

\* Values are what their types say: an int has its width, a bool is 0 or 1
\* whatever it was made from, strings are strings of characters.
TypeOK ==
  /\ error \in BOOLEAN
  /\ \A x \in Names :
       LET v == env[x].val
       IN  /\ v.t \in Prims \cup Arrays \cup Enums \cup Refs
           /\ v.t \in {"int", "char"} => v.v \in [1..1 -> Ints]
           /\ v.t = "bool" => v.v \in {<<0>>, <<1>>}
           /\ v.t = "float" => Len(v.v) = 1
           /\ v.t \in Arrays => N(v) \in Nat \cup {-1}

\* A variable declared with a type keeps values of that type, through any
\* assignments, ++ and --, whatever types the operators yield.  Arrays may
\* change what they are arrays of, references what they refer to.
DeclKept ==
  \A x \in Bound :
    LET d == env[x].decl
        t == env[x].val.t
    IN  IF d \in Prims THEN d = "any" \/ t = d ELSE Kind(t) = Kind(d)

\* Of two numbers of any types exactly one is less, equal or greater, the
\* six comparisons agree on which, and turning the sides around turns the
\* comparison around; nothing compares with what is no number.
CmpCoherent ==
  \A x, y \in Bound :
    LET v == env[x].val
        w == env[y].val
        yes(s) == s = {Bool(TRUE)}
    IN  (Number(v) /\ Number(w)) =>
          /\ yes(Gteq(v, w)) <=> yes(Gt(v, w)) \/ yes(Eq(v, w))
          /\ yes(Lteq(v, w)) <=> yes(Lt(v, w)) \/ yes(Eq(v, w))
          /\ yes(Gt(v, w)) <=> yes(Lt(w, v))
          /\ yes(Eq(v, w)) <=> yes(Eq(w, v))
          /\ yes(Neq(v, w)) <=> ~ yes(Eq(v, w))
          /\ ~ (yes(Lt(v, w)) /\ yes(Gt(v, w))) /\ ~ (yes(Lt(v, w)) /\ yes(Eq(v, w)))
          /\ Ordered(v, w) => yes(Lt(v, w)) \/ yes(Eq(v, w)) \/ yes(Gt(v, w))

\* tests/04.cima: what is not "yes" and not "no" is something else.
EqIsEqual ==
  \A x, y \in Bound :
    LET v == env[x].val
        w == env[y].val
    IN  (v.t = "str" /\ w.t = "str" /\ Eq(v, w) = {Bool(TRUE)}) => v.v = w.v
=============================================================================
