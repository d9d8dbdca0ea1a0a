--------------------------- MODULE CimaValuesProofs ---------------------------
(***************************************************************************)
(* Proofs about CimaValues, for every width of int, any variables and any  *)
(* operators: what each conversion and operator yields, and from it that   *)
(* variables keep their types.                                             *)
(***************************************************************************)
EXTENDS CimaValues, TLAPS

Types == Prims \cup Arrays \cup Enums \cup Refs

\* Floats, in halves: those of the operators, and what ints become.
FloatRange == {h \in Int : -2 * IntMax - 2 <= h /\ h <= 2 * IntMax} \cup {NaN}

\* What the numbers of a value of type t are.
Shape(t, s) ==
  /\ t \in {"int", "char", "E.int", "&int"} => s \in [1..1 -> Ints]
  /\ t = "bool" => s \in {<<0>>, <<1>>}
  /\ t = "float" => Len(s) = 1 /\ s[1] \in FloatRange
  /\ t \in Arrays => s[1] \in Nat \cup {-1}

WellFormed(x) == x.t \in Types /\ Shape(x.t, x.v)

\* A value of type t may be in a variable declared with type d.
Keeps(d, t) == IF d \in Prims THEN d = "any" \/ t = d ELSE Kind(t) = Kind(d)

IInv ==
  /\ error \in BOOLEAN
  /\ env = [x \in Names |-> env[x]]
  /\ \A x \in Names :
       /\ WellFormed(env[x].val) /\ env[x].decl \in Declared \cup {"none"}
       /\ env[x].decl # "none" => Keeps(env[x].decl, env[x].val.t)

-----------------------------------------------------------------------------
(* Numbers *)

LEMMA IntRange ==
  /\ IntMax \in Nat /\ IntMax > 1
  /\ \A n : n \in Ints <=> n \in Int /\ -IntMax - 1 <= n /\ n <= IntMax
  BY WidthAssumption DEF Ints

\* An int that overflows wraps around into its range.
LEMMA WrapInts ==
  ASSUME NEW n \in Int
  PROVE  Wrap(n) \in Ints
  <1> DEFINE m == 2 * IntMax + 2
             k == (n + IntMax + 1) % m
  <1>1. m \in Nat \ {0} /\ IntMax \in Nat
    BY IntRange
  <1>2. n + IntMax + 1 \in Int
    BY <1>1
  <1> HIDE DEF m
  <1>3. k \in Int /\ 0 <= k /\ k < m
    BY <1>1, <1>2
  <1> HIDE DEF k
  <1>4. Wrap(n) = k - IntMax - 1
    BY DEF Wrap, k, m
  <1> QED
    BY <1>1, <1>3, <1>4, IntRange DEF m

LEMMA OneNumber ==
  ASSUME NEW n \in Ints
  PROVE  <<n>> \in [1..1 -> Ints]
  OBVIOUS

\* The number of an int, a bool, a char or a float.
LEMMA NumberOf ==
  ASSUME NEW x, WellFormed(x)
  PROVE  /\ x.t \in IntLike => N(x) \in Ints /\ N(x) \in Int
         /\ x.t = "float" => N(x) \in FloatRange /\ N(x) \in Int
         /\ x.t \in IntLike \cup {"float"} => Halves(x) \in FloatRange /\ Halves(x) \in Int
  <1>0. {0, 1} \subseteq Ints /\ FloatRange \subseteq Int
    BY IntRange DEF FloatRange, NaN
  <1>1. x.t \in {"int", "char"} => N(x) \in Ints
    BY DEF WellFormed, Shape, N
  <1>2. x.t = "bool" => N(x) \in Ints
    BY <1>0 DEF WellFormed, Shape, N
  <1>3. x.t = "float" => N(x) \in FloatRange
    BY DEF WellFormed, Shape, N
  <1>4. x.t \in IntLike => N(x) \in Ints /\ N(x) \in Int
    BY <1>1, <1>2, IntRange DEF IntLike
  <1>5. x.t \in IntLike => 2 * N(x) \in FloatRange
    BY <1>4, IntRange DEF FloatRange
  <1> QED
    BY <1>0, <1>3, <1>4, <1>5 DEF Halves, IntLike


-----------------------------------------------------------------------------
(* Values *)

LEMMA DeclaredTypes == Declared \subseteq Types
  BY DEF Declared, Types, Prims, Arrays, Enums, Refs

LEMMA KindOf ==
  /\ \A t \in Prims : Kind(t) = "prim" /\ t \notin Arrays /\ t \notin Enums /\ t \notin Refs
  /\ \A t \in Arrays : Kind(t) = "array"
  /\ \A t \in Enums : Kind(t) = "enum"
  /\ \A t \in Refs : Kind(t) = "ref"
  BY DEF Kind, Prims, Arrays, Enums, Refs

LEMMA Elements ==
  El["&int"] = "int" /\ El["&str"] = "str" /\ El["E.int"] = "int" /\ El["E.str"] = "str"
  BY DEF El, Arrays, Enums, Refs

\* What the operators make their results of.
LEMMA NewValues ==
  /\ \A b : WellFormed(Bool(b)) /\ Bool(b).t = "bool"
  /\ \A n \in Ints : WellFormed(V("int", <<n>>)) /\ WellFormed(V("char", <<n>>))
  /\ \A h \in FloatRange : WellFormed(V("float", <<h>>))
  /\ \A s : WellFormed(V("str", s))
  <1>1. ASSUME NEW b PROVE WellFormed(Bool(b)) /\ Bool(b).t = "bool"
    BY DEF WellFormed, Shape, Bool, V, Types, Prims, Arrays
  <1>2. ASSUME NEW n \in Ints PROVE WellFormed(V("int", <<n>>)) /\ WellFormed(V("char", <<n>>))
    BY <1>2, OneNumber DEF WellFormed, Shape, V, Types, Prims, Arrays
  <1>3. ASSUME NEW h \in FloatRange PROVE WellFormed(V("float", <<h>>))
    BY <1>3 DEF WellFormed, Shape, V, Types, Prims, Arrays
  <1>4. ASSUME NEW s PROVE WellFormed(V("str", s))
    BY DEF WellFormed, Shape, V, Types, Prims, Arrays
  <1> QED
    BY <1>1, <1>2, <1>3, <1>4

LEMMA NewNumbers ==
  /\ \A n \in Int : WellFormed(IntV(n)) /\ IntV(n).t = "int"
  /\ \A y \in AnyInt : WellFormed(y) /\ y.t = "int"
  /\ \A y \in AnyFloat : WellFormed(y) /\ y.t = "float"
  <1>1. ASSUME NEW n \in Int PROVE WellFormed(IntV(n)) /\ IntV(n).t = "int"
    BY <1>1, WrapInts, NewValues DEF IntV, V
  <1>2. \A n \in Ints : n \in Int
    BY IntRange
  <1>3. Floats \subseteq FloatRange
    BY IntRange DEF Floats, FloatRange
  <1> QED
    BY <1>1, <1>2, <1>3, NewValues DEF AnyInt, AnyFloat, V

\* What a reference leads to, and what a member of an enum stands for.
LEMMA Followed ==
  ASSUME NEW x, WellFormed(x)
  PROVE  /\ WellFormed(Deref(x)) /\ WellFormed(Member(x))
         /\ x.t \notin Refs => Deref(x) = x
         /\ x.t \in Prims \cup Arrays => Member(x) = x
         /\ Deref(x).t \notin Refs /\ Member(x).t \notin {"E.int", "E.str"}
  <1>1. x.t \in Types
    BY DEF WellFormed
  <1>2. CASE x.t \in Refs
    <2>1. Deref(x) = V(El[x.t], x.v) /\ Member(x) = x
      BY <1>2, KindOf DEF Deref, Member, Refs
    <2> QED
      BY <1>2, <2>1, Elements DEF Refs, WellFormed, Shape, V, Types, Prims, Arrays
  <1>3. CASE x.t \notin Refs
    <2>1. Deref(x) = x
      BY <1>1, <1>3, KindOf DEF Deref, Types
    <2>2. CASE x.t \in {"E.int", "E.str"}
      <3>1. Member(x) = V(El[x.t], x.v)
        BY <2>2 DEF Member
      <3> QED
        BY <1>3, <2>1, <2>2, <3>1, Elements
           DEF WellFormed, Shape, V, Types, Prims, Arrays
    <2>3. CASE x.t \notin {"E.int", "E.str"}
      BY <1>3, <2>1, <2>3 DEF Member
    <2> QED
      BY <2>2, <2>3
  <1> QED
    BY <1>2, <1>3

-----------------------------------------------------------------------------
(* Conversions *)

LEMMA TruncateInts ==
  ASSUME NEW h \in FloatRange, h # NaN
  PROVE  Truncate(h) \in Ints
  <1>1. h \in Int /\ -2 * IntMax - 2 <= h /\ h <= 2 * IntMax /\ IntMax \in Nat
    BY IntRange DEF FloatRange
  <1>2. h >= 0 => (h \div 2) \in Int /\ 0 <= h \div 2 /\ h \div 2 <= IntMax
    BY <1>1
  <1>3. h < 0 => ((-h) \div 2) \in Int /\ 0 <= (-h) \div 2 /\ (-h) \div 2 <= IntMax + 1
    BY <1>1
  <1> QED
    BY <1>1, <1>2, <1>3, IntRange DEF Truncate

LEMMA ToIntInts ==
  ASSUME NEW x, WellFormed(x)
  PROVE  ToInt(x) \subseteq Ints
  <1> DEFINE y == Member(x)
  <1>1. WellFormed(y)
    BY Followed
  <1>2. ToInt(x) = CASE y.t \in IntLike -> {N(y)}
                     [] y.t = "float" /\ N(y) # NaN -> {Truncate(N(y))}
                     [] y.t = "float" /\ N(y) = NaN -> Ints
                     [] y.t = "void" -> {0}
                     [] OTHER -> {}
    BY DEF ToInt
  <1> HIDE DEF y
  <1>3. CASE y.t \in IntLike
    BY <1>1, <1>2, <1>3, NumberOf DEF IntLike
  <1>4. CASE y.t = "float"
    <2>1. N(y) # NaN => Truncate(N(y)) \in Ints
      BY <1>1, <1>4, NumberOf, TruncateInts
    <2> QED
      BY <1>2, <1>4, <2>1 DEF IntLike
  <1>5. CASE y.t = "void"
    BY <1>2, <1>5, IntRange DEF IntLike
  <1>6. CASE y.t \notin IntLike \cup {"float", "void"}
    BY <1>2, <1>6
  <1> QED
    BY <1>3, <1>4, <1>5, <1>6

LEMMA ToFloatFits ==
  ASSUME NEW x, WellFormed(x), NEW z \in ToFloat(x)
  PROVE  WellFormed(z) /\ z.t = "float"
  <1> DEFINE y == Member(x)
  <1>1. WellFormed(y)
    BY Followed
  <1>2. 0 \in FloatRange
    BY IntRange DEF FloatRange
  <1>3. y.t \in IntLike \cup {"float"} => Halves(y) \in FloatRange
    BY <1>1, NumberOf
  <1>4. z \in IF y.t \in IntLike \cup {"float"} THEN {V("float", <<Halves(y)>>)}
              ELSE IF y.t = "void" THEN {V("float", <<0>>)} ELSE {}
    BY DEF ToFloat
  <1> HIDE DEF y
  <1>5. \E h \in FloatRange : z = V("float", <<h>>)
    BY <1>2, <1>3, <1>4
  <1> QED
    BY <1>5, NewValues DEF V

LEMMA ToStrFits ==
  ASSUME NEW x, WellFormed(x), NEW z \in ToStr(x)
  PROVE  WellFormed(z) /\ z.t = "str"
  <1> DEFINE y == Deref(x)
  <1>1. WellFormed(y)
    BY Followed
  <1>2. z \in CASE y.t = "str" -> {y}
                [] y.t = "char" -> {V("str", y.v)}
                [] y.t = "any" -> {}
                [] OTHER -> Texts
    BY DEF ToStr
  <1> HIDE DEF y
  <1>3. \/ y.t = "str" /\ z = y
        \/ \E s : z = V("str", s)
    BY <1>2 DEF Texts
  <1> QED
    BY <1>1, <1>3, NewValues DEF V

LEMMA CastEnumFits ==
  ASSUME NEW x, WellFormed(x), NEW z \in CastEnum(x)
  PROVE  WellFormed(z) /\ z.t \in Enums
  <1>1. CASE x.t \in Enums
    BY <1>1 DEF CastEnum
  <1>2. CASE x.t \notin Enums
    <2>1. PICK n \in 0..2 : z = IF n = 2 THEN V("E.str", <<1>>) ELSE V("E.int", <<n>>)
      BY <1>2 DEF CastEnum
    <2>2. n # 2 => n \in Ints
      BY IntRange
    <2>3. CASE n = 2
      BY <2>1, <2>3 DEF WellFormed, Shape, V, Types, Prims, Arrays, Enums
    <2>4. CASE n # 2
      BY <2>1, <2>2, <2>4, OneNumber DEF WellFormed, Shape, V, Types, Prims, Arrays, Enums
    <2> QED
      BY <2>3, <2>4
  <1> QED
    BY <1>1, <1>2

\* A cast of an array yields an array, maybe of the wrong elements.
LEMMA CastArrayFits ==
  ASSUME NEW x, WellFormed(x), NEW t \in Arrays, NEW z \in CastArray(x, t)
  PROVE  WellFormed(z) /\ z.t \in Arrays
  <1>1. x.t \in Arrays
    BY KindOf DEF CastArray, WellFormed, Types
  <1>2. x.v[1] \in Nat \cup {-1}
    BY <1>1 DEF WellFormed, Shape
  <1>3. \/ z = V(t, x.v)
        \/ z = x
        \/ z = V(t, NullArray)
    BY DEF CastArray
  <1> QED
    BY <1>1, <1>2, <1>3 DEF WellFormed, Shape, V, Types, Prims, Arrays, NullArray

\* A cast yields values of the type cast to; arrays may keep the type of
\* their elements, members that of their value, references that of what
\* they lead to.
LEMMA CastFits ==
  ASSUME NEW x, WellFormed(x), NEW t \in Types, NEW z \in Cast(x, t)
  PROVE  WellFormed(z) /\ Keeps(t, z.t)
  <1>1. CASE x.t = t
    <2>1. z = x
      BY <1>1, Zenon DEF Cast
    <2> QED
      BY <1>1, <2>1 DEF Keeps
  <1>2. CASE x.t # t /\ t \in {"int", "char"}
    <2>1. Cast(x, t) = {V(t, <<n>>) : n \in ToInt(x)}
      BY <1>2 DEF Cast, Arrays, Enums, Refs
    <2>2. PICK n \in Ints : z = V(t, <<n>>)
      BY <2>1, ToIntInts
    <2> QED
      BY <1>2, <2>2, NewValues DEF Keeps, V, Prims
  <1>3. CASE x.t # t /\ t = "float"
    <2>1. Cast(x, t) = ToFloat(x)
      BY <1>3 DEF Cast, Arrays, Enums, Refs
    <2> QED
      BY <1>3, <2>1, ToFloatFits DEF Keeps, Prims
  <1>4. CASE x.t # t /\ t = "bool"
    <2>1. Cast(x, t) = {Bool(b) : b \in ToBool(x)}
      BY <1>4 DEF Cast, Arrays, Enums, Refs
    <2>2. PICK b : z = Bool(b)
      BY <2>1
    <2> QED
      BY <1>4, <2>2, NewValues DEF Keeps, Prims
  <1>5. CASE x.t # t /\ t = "str"
    <2>1. Cast(x, t) = ToStr(x)
      BY <1>5 DEF Cast, Arrays, Enums, Refs
    <2> QED
      BY <1>5, <2>1, ToStrFits DEF Keeps, Prims
  <1>6. CASE x.t # t /\ t = "any"
    <2>1. Cast(x, t) = {x}
      BY <1>6 DEF Cast, Arrays, Enums, Refs
    <2> QED
      BY <1>6, <2>1 DEF Keeps, Prims
  <1>7. CASE x.t # t /\ t \in Arrays
    <2>1. Cast(x, t) = CastArray(Deref(x), t)
      BY <1>7 DEF Cast, Arrays, Enums, Refs
    <2>2. WellFormed(Deref(x))
      BY Followed
    <2> QED
      BY <1>7, <2>1, <2>2, CastArrayFits, KindOf DEF Keeps
  <1>8. CASE x.t # t /\ t \in Enums
    <2>1. Cast(x, t) = CastEnum(Deref(x))
      BY <1>8 DEF Cast, Arrays, Enums, Refs
    <2>2. WellFormed(Deref(x))
      BY Followed
    <2> QED
      BY <1>8, <2>1, <2>2, CastEnumFits, KindOf DEF Keeps
  <1>9. CASE x.t # t /\ t \in Refs
    <2>1. Cast(x, t) = IF Kind(x.t) = "ref" /\ Compatible(El[x.t], El[t]) THEN {x} ELSE {}
      BY <1>9 DEF Cast, Arrays, Enums, Refs
    <2>2. z = x /\ Kind(x.t) = "ref"
      BY <2>1
    <2>3. t \notin Prims /\ Kind(t) = "ref"
      BY <1>9, KindOf DEF Prims, Refs
    <2> QED
      BY <2>2, <2>3 DEF Keeps
  <1>10. CASE x.t # t /\ t = "void"
    <2>1. Cast(x, t) = {}
      BY <1>10 DEF Cast, Arrays, Enums, Refs
    <2> QED
      BY <2>1
  <1> QED
    BY <1>1, <1>2, <1>3, <1>4, <1>5, <1>6, <1>7, <1>8, <1>9, <1>10 DEF Types, Prims

-----------------------------------------------------------------------------
(* Operators *)

LEMMA ArithmeticFits ==
  ASSUME NEW x, NEW y, NEW t \in {"int", "char"}, NEW n,
         Number(x) /\ Number(y) /\ ~ SomeFloat(x, y) => n \in Int,
         NEW z \in Arithmetic(x, y, t, n)
  PROVE  WellFormed(z)
  <1>1. \/ z \in AnyFloat
        \/ n \in Int /\ z = V(t, <<Wrap(n)>>)
    BY DEF Arithmetic
  <1>2. CASE n \in Int /\ z = V(t, <<Wrap(n)>>)
    <2>1. Wrap(n) \in Ints
      BY <1>2, WrapInts
    <2> QED
      BY <1>2, <2>1, NewValues
  <1> QED
    BY <1>1, <1>2, NewNumbers

LEMMA BinaryFits ==
  ASSUME NEW op \in Operators \ {"!", "u+", "u-"},
         NEW left, WellFormed(left), NEW right, WellFormed(right),
         NEW z \in Binary(op, left, right)
  PROVE  WellFormed(z)
  <1> DEFINE x == Member(Deref(left))
             y == Member(Deref(right))
  <1>1. WellFormed(x) /\ WellFormed(y)
    BY Followed
  <1>2. /\ op = "+" => z \in Plus(x, y)
        /\ op = "-" => z \in Minus(x, y)
        /\ op = "*" => z \in Mul(x, y)
        /\ op = "/" => z \in Div(x, y)
        /\ op = "%" => z \in Mod(x, y)
        /\ op = "^" => z \in Pow(x, y)
        /\ op = "&&" => z \in And(x, y)
        /\ op = "||" => z \in Or(x, y)
        /\ op \in {"&", "|"} => z \in Bits(x, y)
        /\ op = ">" => z \in Gt(x, y)
        /\ op = "<" => z \in Lt(x, y)
        /\ op = ">=" => z \in Gteq(x, y)
        /\ op = "<=" => z \in Lteq(x, y)
        /\ op = "==" => z \in Eq(x, y)
        /\ op = "!=" => z \in Neq(x, y)
    BY DEF Binary
  <1> HIDE DEF x, y
  <1>3. Number(x) /\ ~ SomeFloat(x, y) => N(x) \in Int
    BY <1>1, NumberOf DEF Number, SomeFloat
  <1>4. Number(y) /\ ~ SomeFloat(x, y) => N(y) \in Int
    BY <1>1, NumberOf DEF Number, SomeFloat
  <1>5. CASE op = "+"
    <2>1. CASE z \in Sum(x, y)
      BY <2>1, NewValues DEF Sum
    <2>2. CASE z \in Arithmetic(x, y, "int", N(x) + N(y))
      <3>1. Number(x) /\ Number(y) /\ ~ SomeFloat(x, y) => N(x) + N(y) \in Int
        BY <1>3, <1>4
      <3> QED
        BY <2>2, <3>1, ArithmeticFits
    <2> QED
      BY <1>2, <1>5, <2>1, <2>2 DEF Plus
  <1>6. CASE op = "-"
    <2>1. PICK t \in {"int", "char"} : z \in Arithmetic(x, y, t, N(x) - N(y))
      BY <1>2, <1>6 DEF Minus
    <2>2. Number(x) /\ Number(y) /\ ~ SomeFloat(x, y) => N(x) - N(y) \in Int
      BY <1>3, <1>4
    <2> QED
      BY <2>1, <2>2, ArithmeticFits
  <1>7. CASE op = "*"
    <2>1. z \in Arithmetic(x, y, "int", N(x) * N(y))
      BY <1>2, <1>7 DEF Mul
    <2>2. Number(x) /\ Number(y) /\ ~ SomeFloat(x, y) => N(x) * N(y) \in Int
      BY <1>3, <1>4
    <2> QED
      BY <2>1, <2>2, ArithmeticFits
  <1>8. CASE op = "/"
    BY <1>2, <1>8, NewNumbers DEF Div
  <1>9. CASE op = "%"
    <2> DEFINE a == IF N(x) < 0 THEN -N(x) ELSE N(x)
               b == IF N(y) < 0 THEN -N(y) ELSE N(y)
               r == a % b
    <2>1. \/ z \in AnyFloat
          \/ /\ Number(x) /\ Number(y) /\ ~ SomeFloat(x, y) /\ ~ Zero(y)
             /\ z = IntV(IF N(x) < 0 THEN -r ELSE r)
      BY <1>2, <1>9 DEF Mod, Number, IntLike
    <2>2. CASE /\ Number(x) /\ Number(y) /\ ~ SomeFloat(x, y) /\ ~ Zero(y)
               /\ z = IntV(IF N(x) < 0 THEN -r ELSE r)
      <3>1. N(x) \in Int /\ N(y) \in Int /\ N(y) # 0
        BY <1>3, <1>4, <2>2 DEF Zero, Number, IntLike
      <3>2. a \in Int /\ b \in Int /\ b > 0
        BY <3>1
      <3> HIDE DEF a, b
      <3>3. r \in Int
        BY <3>2
      <3> HIDE DEF r
      <3>4. (IF N(x) < 0 THEN -r ELSE r) \in Int
        BY <3>3
      <3> QED
        BY <2>2, <3>4, NewNumbers
    <2> QED
      BY <2>1, <2>2, NewNumbers
  <1>10. CASE op = "^"
    BY <1>2, <1>10, NewNumbers DEF Pow
  <1>11. CASE op \in {"&&", "||"}
    <2>1. \E b : z = Bool(b)
      BY <1>2, <1>11 DEF And, Or
    <2> QED
      BY <2>1, NewValues
  <1>12. CASE op \in {"&", "|"}
    BY <1>2, <1>12, NewNumbers DEF Bits
  <1>13. CASE op \in {">", "<", ">=", "<=", "==", "!="}
    <2>1. \E b : z = Bool(b)
      BY <1>2, <1>13 DEF Gt, Lt, Gteq, Lteq, Eq, Neq
    <2> QED
      BY <2>1, NewValues
  <1> QED
    BY <1>5, <1>6, <1>7, <1>8, <1>9, <1>10, <1>11, <1>12, <1>13 DEF Operators

LEMMA UnaryFits ==
  ASSUME NEW op \in {"!", "u+", "u-"}, NEW operand, WellFormed(operand),
         NEW z \in Unary(op, operand)
  PROVE  WellFormed(z)
  <1> DEFINE x == Deref(operand)
  <1>1. WellFormed(x)
    BY Followed
  <1>2. /\ op = "!" => \E b : z = Bool(b)
        /\ op = "u+" => z = x
        /\ op = "u-" => \/ z \in AnyFloat
                        \/ x.t \in IntLike /\ z = IntV(-N(x))
    BY DEF Unary
  <1> HIDE DEF x
  <1>3. x.t \in IntLike => -N(x) \in Int
    BY <1>1, NumberOf
  <1> QED
    BY <1>1, <1>2, <1>3, NewValues, NewNumbers

-----------------------------------------------------------------------------
(* What expressions yield *)

LEMMA LiteralsFit == \A z \in Literals : WellFormed(z)
  <1>1. {1, 2} \subseteq Ints /\ 1 \in FloatRange
    BY IntRange DEF FloatRange
  <1>2. 1 \in Int /\ 2 \in Int
    OBVIOUS
  <1>3. WellFormed(Nothing)
    BY DEF Nothing, WellFormed, Shape, V, Types, Prims, Arrays
  <1>4. WellFormed(V("[any]", <<1>>))
    BY DEF WellFormed, Shape, V, Types, Prims, Arrays
  <1>5. WellFormed(V("E.int", <<1>>)) /\ WellFormed(V("E.str", <<1>>))
    BY <1>1, OneNumber DEF WellFormed, Shape, V, Types, Prims, Arrays, Enums
  <1> QED
    BY <1>1, <1>2, <1>3, <1>4, <1>5, NewValues, NewNumbers DEF Literals

LEMMA OperandsFit ==
  ASSUME IInv, NEW z \in Operands
  PROVE  WellFormed(z)
  <1>1. \A v \in Held : WellFormed(v)
    BY DEF IInv, Held, Bound
  <1>2. CASE z \in Held
    BY <1>1, <1>2
  <1>3. CASE z \notin Held
    <2>1. PICK t \in Refs, v \in Held : z = V(t, v.v) /\ Deref(z) \in Held
      BY <1>3 DEF Operands
    <2>2. z.t = t /\ z.v = v.v
      BY <2>1 DEF V
    <2>3. Deref(z) = V(El[t], z.v)
      BY <2>2, KindOf DEF Deref
    <2>4. WellFormed(V(El[t], z.v))
      BY <1>1, <2>1, <2>3
    <2>5. CASE t = "&int"
      BY <2>2, <2>4, <2>5, Elements DEF WellFormed, Shape, V, Types, Prims, Arrays, Refs
    <2>6. CASE t = "&str"
      BY <2>2, <2>6 DEF WellFormed, Shape, Types, Prims, Arrays, Refs
    <2> QED
      BY <2>5, <2>6 DEF Refs
  <1> QED
    BY <1>2, <1>3

LEMMA ResultsFit ==
  ASSUME IInv, NEW z \in Results
  PROVE  WellFormed(z)
  <1>1. CASE z \in Literals
    BY <1>1, LiteralsFit
  <1>2. CASE z \in Operands
    BY <1>2, OperandsFit
  <1>3. CASE z \in UNION {Binary(op, v, w) : op \in Ops \ {"!", "u+", "u-"}, v, w \in Operands}
    <2>1. PICK op \in Ops \ {"!", "u+", "u-"}, v \in Operands, w \in Operands :
            z \in Binary(op, v, w)
      BY <1>3
    <2>2. WellFormed(v) /\ WellFormed(w) /\ op \in Operators \ {"!", "u+", "u-"}
      BY OperandsFit, OpsAssumption
    <2> QED
      BY <2>1, <2>2, BinaryFits
  <1>4. CASE z \in UNION {Unary(op, v) : op \in Ops \cap {"!", "u+", "u-"}, v \in Operands}
    <2>1. PICK op \in {"!", "u+", "u-"}, v \in Operands : z \in Unary(op, v)
      BY <1>4
    <2>2. WellFormed(v)
      BY OperandsFit
    <2> QED
      BY <2>1, <2>2, UnaryFits
  <1>5. CASE z \in UNION {Cast(v, t) : v \in Operands, t \in Declared}
    <2>1. PICK v \in Operands, t \in Declared : z \in Cast(v, t)
      BY <1>5
    <2>2. WellFormed(v)
      BY OperandsFit
    <2> QED
      BY <2>1, <2>2, CastFits, DeclaredTypes
  <1> QED
    BY <1>1, <1>2, <1>3, <1>4, <1>5 DEF Results

LEMMA DefaultFits ==
  ASSUME NEW t \in Declared \ Refs
  PROVE  WellFormed(Default(t)) /\ Keeps(t, Default(t).t)
  <1>1. 0 \in Ints /\ 0 \in FloatRange
    BY IntRange DEF FloatRange
  <1>2. t \in Types
    BY DEF Declared, Types, Prims, Arrays, Enums, Refs
  <1>3. Default(t).t = t
    BY DEF Default, V
  <1>4. t \notin {"str", "any"} => Default(t).v = <<0>>
    BY DEF Default, V
  <1>5. Shape(t, Default(t).v)
    <2>1. CASE t \in {"str", "any"}
      BY <2>1 DEF Shape, Arrays
    <2>2. CASE t \notin {"str", "any"}
      <3>1. <<0>> \in [1..1 -> Ints]
        BY <1>1, OneNumber
      <3> QED
        BY <1>1, <1>4, <2>2, <3>1 DEF Shape
    <2> QED
      BY <2>1, <2>2
  <1>6. Keeps(t, t)
    BY DEF Keeps
  <1> QED
    BY <1>2, <1>3, <1>5, <1>6 DEF WellFormed

-----------------------------------------------------------------------------
(* Steps *)

LEMMA StoreKeeps ==
  ASSUME IInv, NEW x \in Names, NEW d \in Declared, NEW w, WellFormed(w), Keeps(d, w.t),
         Store(x, d, w)
  PROVE  IInv'
  <1> DEFINE slot == [decl |-> d, val |-> w]
  <1>1. env' = [env EXCEPT ![x] = slot] /\ error' = error
    BY DEF Store
  <1>2. slot.decl = d /\ slot.val = w
    OBVIOUS
  <1> HIDE DEF slot
  <1>3. /\ env' = [y \in Names |-> env'[y]]
        /\ env'[x] = slot
        /\ \A y \in Names \ {x} : env'[y] = env[y]
    BY <1>1 DEF IInv
  <1> QED
    BY <1>1, <1>2, <1>3 DEF IInv

LEMMA FailKeeps ==
  ASSUME IInv, Fail
  PROVE  IInv'
  BY DEF IInv, Fail

\* A value that is cast to the type a variable has now keeps the type it is
\* declared with.
LEMMA CastKeeps ==
  ASSUME NEW d \in Declared, NEW old, WellFormed(old), Keeps(d, old.t),
         NEW v, WellFormed(v), NEW w \in Cast(v, old.t)
  PROVE  WellFormed(w) /\ Keeps(d, w.t)
  <1>1. old.t \in Types /\ d \in Types
    BY DeclaredTypes DEF WellFormed
  <1>2. WellFormed(w) /\ Keeps(old.t, w.t)
    BY <1>1, CastFits
  <1>3. CASE d \in Prims
    BY <1>2, <1>3 DEF Keeps
  <1>4. CASE d \notin Prims
    <2>1. Kind(old.t) = Kind(d)
      BY <1>4 DEF Keeps
    <2>2. Kind(d) # "prim"
      BY <1>1, <1>4, KindOf DEF Types
    <2>3. old.t \notin Prims
      BY <2>1, <2>2, KindOf
    <2> QED
      BY <1>2, <1>4, <2>1, <2>3 DEF Keeps
  <1> QED
    BY <1>3, <1>4

LEMMA AssignKeeps ==
  ASSUME IInv, NEW x \in Bound, NEW v, WellFormed(v), Assign(x, v)
  PROVE  IInv'
  <1> DEFINE d == env[x].decl
             old == env[x].val
  <1>1. x \in Names /\ d \in Declared /\ WellFormed(old) /\ Keeps(d, old.t)
    BY DEF IInv, Bound
  <1>2. \/ \E w \in Cast(v, old.t) : Store(x, d, w)
        \/ Fail
    BY DEF Assign
  <1> HIDE DEF d, old
  <1>3. ASSUME NEW w \in Cast(v, old.t), Store(x, d, w) PROVE IInv'
    <2>1. WellFormed(w) /\ Keeps(d, w.t)
      BY <1>1, CastKeeps
    <2> QED
      BY <1>1, <1>3, <2>1, StoreKeeps
  <1> QED
    BY <1>2, <1>3, FailKeeps

LEMMA LetKeeps ==
  ASSUME IInv, LetStmt
  PROVE  IInv'
  <1>1. PICK t \in Declared :
          \E x \in Names,
             w \in (UNION {Cast(v, t) : v \in Results}) \cup {Default(u) : u \in {t} \ Refs} :
            Store(x, t, w)
    BY DEF LetStmt
  <1>2. PICK x \in Names,
             w \in (UNION {Cast(v, t) : v \in Results}) \cup {Default(u) : u \in {t} \ Refs} :
          Store(x, t, w)
    BY <1>1
  <1>3. CASE \E v \in Results : w \in Cast(v, t)
    <2>1. PICK v \in Results : w \in Cast(v, t)
      BY <1>3
    <2>2. WellFormed(v)
      BY ResultsFit
    <2>3. WellFormed(w) /\ Keeps(t, w.t)
      BY <2>1, <2>2, CastFits, DeclaredTypes
    <2> QED
      BY <1>2, <2>3, StoreKeeps
  <1>4. CASE w \in {Default(u) : u \in {t} \ Refs}
    <2>1. t \in Declared \ Refs /\ w = Default(t)
      BY <1>4
    <2>2. WellFormed(w) /\ Keeps(t, w.t)
      BY <2>1, DefaultFits
    <2> QED
      BY <1>2, <2>2, StoreKeeps
  <1> QED
    BY <1>2, <1>3, <1>4

LEMMA IncDecKeeps ==
  ASSUME IInv, IncDec
  PROVE  IInv'
  <1>1. PICK x \in Bound, e \in {1, -1} :
          LET y == Deref(env[x].val)
          IN  CASE y.t \in IntLike -> Assign(x, IntV(N(y) + e))
                [] y.t = "float" -> \E v \in AnyFloat : Assign(x, v)
                [] OTHER -> Fail
    BY DEF IncDec
  <1> DEFINE y == Deref(env[x].val)
  <1>2. WellFormed(y)
    BY Followed DEF IInv, Bound
  <1>3. \/ y.t \in IntLike /\ Assign(x, IntV(N(y) + e))
        \/ \E v \in AnyFloat : Assign(x, v)
        \/ Fail
    BY <1>1, Zenon
  <1> HIDE DEF y
  <1>4. CASE y.t \in IntLike /\ Assign(x, IntV(N(y) + e))
    <2>1. N(y) + e \in Int
      BY <1>2, <1>4, NumberOf
    <2>2. WellFormed(IntV(N(y) + e))
      BY <2>1, NewNumbers
    <2> QED
      BY <1>4, <2>2, AssignKeeps
  <1>5. ASSUME NEW v \in AnyFloat, Assign(x, v) PROVE IInv'
    BY <1>5, NewNumbers, AssignKeeps
  <1> QED
    BY <1>3, <1>4, <1>5, FailKeeps

LEMMA NextKeeps ==
  ASSUME IInv, [Next]_vars
  PROVE  IInv'
  <1>1. CASE LetStmt
    BY <1>1, LetKeeps
  <1>2. CASE AssignStmt
    <2>1. PICK v \in Results, x \in Bound : Assign(x, v)
      BY <1>2 DEF AssignStmt
    <2>2. WellFormed(v)
      BY ResultsFit
    <2> QED
      BY <2>1, <2>2, AssignKeeps
  <1>3. CASE IncDec
    BY <1>3, IncDecKeeps
  <1>4. CASE ErrStmt
    BY <1>4, FailKeeps DEF ErrStmt
  <1>5. CASE UNCHANGED vars
    BY <1>5 DEF vars, IInv
  <1> QED
    BY <1>1, <1>2, <1>3, <1>4, <1>5 DEF Next, End

LEMMA InitHolds ==
  ASSUME Init
  PROVE  IInv
  <1>1. WellFormed(Nothing)
    BY LiteralsFit DEF Literals
  <1>2. \A x \in Names : env[x].val = Nothing /\ env[x].decl = "none"
    BY DEF Init, Undeclared
  <1> QED
    BY <1>1, <1>2 DEF Init, IInv

THEOREM Reached == Spec => []IInv
  <1>1. Init => IInv
    BY InitHolds
  <1>2. IInv /\ [Next]_vars => IInv'
    BY NextKeeps
  <1> QED
    BY <1>1, <1>2, PTL DEF Spec

-----------------------------------------------------------------------------
(* Results *)

\* Whatever the operators yield, every variable holds a value that is what
\* its type says: ints wrap around in their width, a cast to bool makes 0 or
\* 1 of anything (cast_value, execute_binary_expr, register_var, assign_var).
THEOREM Typing == Spec => []TypeOK
  <1>1. ASSUME NEW x, WellFormed(x)
        PROVE  /\ x.t \in Prims \cup Arrays \cup Enums \cup Refs
               /\ x.t \in {"int", "char"} => x.v \in [1..1 -> Ints]
               /\ x.t = "bool" => x.v \in {<<0>>, <<1>>}
               /\ x.t = "float" => Len(x.v) = 1
               /\ x.t \in Arrays => N(x) \in Nat \cup {-1}
    BY <1>1 DEF WellFormed, Shape, Types, N
  <1>2. IInv => TypeOK
    BY <1>1 DEF IInv, TypeOK
  <1> QED
    BY <1>2, Reached, PTL

\* A variable declared with a type keeps values of that type through every
\* assignment, ++ and --, although assign_var looks at the type of the value
\* the variable has and not at the declared one.
THEOREM DeclaredKept == Spec => []DeclKept
  <1>1. IInv => DeclKept
    BY DEF IInv, DeclKept, Bound, Keeps
  <1> QED
    BY <1>1, Reached, PTL

\* A comparison is true or false.
LEMMA Yes ==
  /\ \A b \in BOOLEAN : {Bool(b)} = {Bool(TRUE)} <=> b
  /\ \A b \in BOOLEAN : Bool(b) = Bool(FALSE) <=> ~ b
  <1> DEFINE yes == Bool(TRUE)
             no == Bool(FALSE)
  <1>1. yes = [t |-> "bool", v |-> <<1>>] /\ no = [t |-> "bool", v |-> <<0>>]
    BY DEF Bool, V
  <1> HIDE DEF yes, no
  <1>2. yes # no
    BY <1>1
  <1> QED
    BY <1>2, Zenon DEF yes, no

\* The six comparisons of numbers agree, whatever their types.
LEMMA Comparing ==
  ASSUME NEW v, WellFormed(v), Number(v), NEW w, WellFormed(w), Number(w)
  PROVE  LET yes(s) == s = {Bool(TRUE)}
         IN  /\ yes(Gteq(v, w)) <=> yes(Gt(v, w)) \/ yes(Eq(v, w))
             /\ yes(Lteq(v, w)) <=> yes(Lt(v, w)) \/ yes(Eq(v, w))
             /\ yes(Gt(v, w)) <=> yes(Lt(w, v))
             /\ yes(Eq(v, w)) <=> yes(Eq(w, v))
             /\ yes(Neq(v, w)) <=> ~ yes(Eq(v, w))
             /\ ~ (yes(Lt(v, w)) /\ yes(Gt(v, w))) /\ ~ (yes(Lt(v, w)) /\ yes(Eq(v, w)))
             /\ Ordered(v, w) => yes(Lt(v, w)) \/ yes(Eq(v, w)) \/ yes(Gt(v, w))
  <1> DEFINE g == Halves(v)
             h == Halves(w)
             o == g # NaN /\ h # NaN
             yes(s) == s = {Bool(TRUE)}
  <1>1. g \in Int /\ h \in Int
    BY NumberOf DEF Number
  <1>2. /\ Gt(v, w) = {Bool(o /\ g > h)} /\ Lt(v, w) = {Bool(o /\ g < h)}
        /\ Gteq(v, w) = {Bool(o /\ g >= h)} /\ Lteq(v, w) = {Bool(o /\ g <= h)}
        /\ Eq(v, w) = {Bool(o /\ g = h)}
        /\ Lt(w, v) = {Bool(h # NaN /\ g # NaN /\ h < g)}
        /\ Eq(w, v) = {Bool(h # NaN /\ g # NaN /\ h = g)}
    BY DEF Gt, Lt, Gteq, Lteq, Eq, Ordered, Number, IntLike
  <1>3. Ordered(v, w) <=> o
    BY DEF Ordered
  <1>4. Neq(v, w) = {Bool(Bool(o /\ g = h) = Bool(FALSE))}
    BY <1>2 DEF Neq
  <1> HIDE DEF g, h
  <1>5. /\ yes(Gt(v, w)) <=> o /\ g > h
        /\ yes(Lt(v, w)) <=> o /\ g < h
        /\ yes(Gteq(v, w)) <=> o /\ g >= h
        /\ yes(Lteq(v, w)) <=> o /\ g <= h
        /\ yes(Eq(v, w)) <=> o /\ g = h
        /\ yes(Lt(w, v)) <=> o /\ h < g
        /\ yes(Eq(w, v)) <=> o /\ h = g
    BY <1>2, Yes
  <1>6. yes(Neq(v, w)) <=> ~ (o /\ g = h)
    <2>1. Bool(o /\ g = h) = Bool(FALSE) <=> ~ (o /\ g = h)
      BY Yes
    <2> QED
      BY <1>4, <2>1, Yes
  <1> HIDE DEF yes
  <1>7. /\ o /\ g >= h <=> (o /\ g > h) \/ (o /\ g = h)
        /\ o /\ g <= h <=> (o /\ g < h) \/ (o /\ g = h)
        /\ o /\ g > h <=> o /\ h < g
        /\ ~ (g < h /\ g > h) /\ ~ (g < h /\ g = h)
        /\ g < h \/ g = h \/ g > h
    BY <1>1
  <1> QED
    BY <1>3, <1>5, <1>6, <1>7 DEF yes

\* Of two numbers in variables exactly one is less, equal or greater, and
\* >, <, >=, <=, == and != agree on which (greater_than and its siblings).
THEOREM ComparisonsAgree == Spec => []CmpCoherent
  <1>1. ASSUME IInv, NEW x \in Bound PROVE WellFormed(env[x].val)
    BY <1>1 DEF IInv, Bound
  <1>2. IInv => CmpCoherent
    BY <1>1, Comparing DEF CmpCoherent
  <1> QED
    BY <1>2, Reached, PTL
=============================================================================
