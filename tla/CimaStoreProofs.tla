--------------------------- MODULE CimaStoreProofs ---------------------------
(***************************************************************************)
(* What holds of the store for every set of names and fields and every     *)
(* bound: no reference dangles, values are trees that share nothing but    *)
(* what arguments and array elements share, constants stay.                *)
(***************************************************************************)
EXTENDS CimaStore, CimaInduction, FiniteSetTheorems, SequenceTheorems

-----------------------------------------------------------------------------
(* The inductive invariant *)

\* Every value in the cells h and arrays a.
AllValues(h, a) == {h[c] : c \in DOMAIN h} \cup {a[b] : b \in DOMAIN a}

\* Nothing is missing.
IsStore(h, a) ==
  /\ IsFiniteSet(DOMAIN h) /\ DOMAIN h \subseteq Nat \ {0}
  /\ IsFiniteSet(DOMAIN a) /\ DOMAIN a \subseteq Nat \ {0}
  /\ h \in [DOMAIN h -> Values(DOMAIN h, DOMAIN a)]
  /\ a \in [DOMAIN a -> Values(DOMAIN h, DOMAIN a)]

\* A member's cell belongs to one map of fields, at one field.
Apart(V) ==
  \A v, w \in V : \A f, g \in Fields :
    v.k = "struct" /\ w.k = "struct" /\ v.m[f] = w.m[g] => v = w /\ f = g

\* No struct is a part of itself.
Tree(h) == \A c \in DOMAIN h : c \notin Owned(h, h[c])

\* Of the cells in C, each has a map of fields of its own.
Single(h, C) == \A c, d \in C : h[c].k = "struct" /\ h[c] = h[d] => c = d

\* What evaluation keeps of the cells h and arrays a, of which l are lent, with the
\* value v that is in hand.
Sound(h, a, l, v) ==
  /\ IsStore(h, a) /\ v \in Values(DOMAIN h, DOMAIN a)
  /\ Apart(AllValues(h, a) \cup {v})
  /\ Tree(h)
  /\ Single(h, DOMAIN h \ l)
  /\ \A w \in AllValues(h, a) \cup {v} : MembersOf(w) \cap l = {}

\* No variable's cell is a member.
VarsApart(st, V) ==
  \A i \in DOMAIN st, x \in Names, v \in V : st[i].vars[x].cell \notin MembersOf(v)

\* The contexts, for cells C: TypeOK says this of stack.
StackOK(st, C) ==
  /\ st \in Seq(Contexts(C, Len(st))) /\ st # <<>>
  /\ \A i \in DOMAIN st, x \in Names :
       /\ st[i].names[x] <= i
       /\ st[i].names[x] # 0 => st[st[i].names[x]].vars[x] # NoVar
       /\ st[i].found < i \/ i = 1

\* Names lead to the Vars of their own context first; what a let has found is
\* what its name stands for; from a function's contexts no name leads into its
\* caller's.
Scoped(st) ==
  /\ ~ st[1].call /\ st[1].found = 0
  /\ \A i \in DOMAIN st, x \in Names :
       /\ st[i].vars[x] # NoVar => st[i].names[x] = i
       /\ i > 1 /\ st[i].op = "let" => st[i].found = st[i - 1].names[st[i].target.x]
       /\ \A j \in 2..i : st[j].call => st[i].names[x] \in {0, 1} \cup (j..i)

IInv ==
  /\ Sound(heap, arrs, lent, Nil)
  /\ lent \subseteq DOMAIN heap
  /\ error \in BOOLEAN
  /\ StackOK(stack, DOMAIN heap)
  /\ Scoped(stack)
  /\ VarsApart(stack, AllValues(heap, arrs))

-----------------------------------------------------------------------------
(* What a set of cells leads to *)

More(next, R) == R \cup UNION {next[p] : p \in R}
Rounds(next, S, n, r) ==
  r = [i \in 0..n |-> IF i = 0 THEN S ELSE More(next, r[i - 1])]

LEMMA RoundsExist ==
  ASSUME NEW next, NEW S, NEW n \in Nat
  PROVE  \E r : Rounds(next, S, n, r)
<1> DEFINE T == {m \in Nat : \E r : Rounds(next, S, m, r)}
<1>1. 0 \in T
  <2> DEFINE r == [i \in 0..0 |-> S]
  <2>1. r = [i \in 0..0 |-> IF i = 0 THEN S ELSE More(next, r[i - 1])]
    OBVIOUS
  <2> QED
    BY <2>1 DEF Rounds
<1>2. \A m \in Nat : m \in T => m + 1 \in T
  <2> SUFFICES ASSUME NEW m \in Nat, NEW r, Rounds(next, S, m, r)
               PROVE  \E t : Rounds(next, S, m + 1, t)
    OBVIOUS
  <2> DEFINE t == [i \in 0..(m + 1) |-> IF i <= m THEN r[i] ELSE More(next, r[m])]
  <2>1. \A i \in 0..m : r[i] = IF i = 0 THEN S ELSE More(next, r[i - 1])
    BY DEF Rounds
  <2>2. \A i \in 0..(m + 1) : t[i] = IF i = 0 THEN S ELSE More(next, t[i - 1])
    BY <2>1
  <2>3. t = [i \in 0..(m + 1) |-> IF i = 0 THEN S ELSE More(next, t[i - 1])]
    BY <2>2
  <2> QED
    BY <2>3 DEF Rounds
<1> HIDE DEF T
<1>3. Nat \subseteq T
  BY <1>1, <1>2, NatInductionSet
<1> QED
  BY <1>3 DEF T

\* The rounds of Reached: each has what the one before it leads to.
LEMMA ReachedByRounds ==
  ASSUME NEW next, NEW S, IsFiniteSet(DOMAIN next)
  PROVE  \E r : /\ r[0] = S
                /\ \A i \in 0..(Cardinality(DOMAIN next) - 1) : r[i + 1] = More(next, r[i])
                /\ Reached(next, S) = r[Cardinality(DOMAIN next)]
<1> DEFINE n == Cardinality(DOMAIN next)
<1>1. n \in Nat
  BY FS_CardinalityType
<1>2. Reached(next, S) = (CHOOSE r : Rounds(next, S, n, r))[n]
  BY DEF Reached, Rounds, More
<1> DEFINE r == CHOOSE t : Rounds(next, S, n, t)
<1>3. Rounds(next, S, n, r)
  BY <1>1, RoundsExist
<1> HIDE DEF r, n
<1>4. r[0] = S /\ \A i \in 0..(n - 1) : r[i + 1] = More(next, r[i])
  <2>1. \A i \in 0..n : r[i] = IF i = 0 THEN S ELSE More(next, r[i - 1])
    BY <1>3 DEF Rounds
  <2> QED
    BY <1>1, <2>1
<1> QED
  BY <1>2, <1>4 DEF r, n

\* What Reached yields: the smallest set with S that leads nowhere else.
LEMMA ReachedIsClosure ==
  ASSUME NEW A, IsFiniteSet(A), NEW next \in [A -> SUBSET A], NEW S \in SUBSET A
  PROVE  /\ S \subseteq Reached(next, S)
         /\ Reached(next, S) \subseteq A
         /\ \A p \in Reached(next, S) : next[p] \subseteq Reached(next, S)
         /\ \A T : S \subseteq T /\ (\A p \in T \cap A : next[p] \subseteq T)
                     => Reached(next, S) \subseteq T
<1> DEFINE n == Cardinality(A)
<1>1. PICK r : /\ r[0] = S
               /\ \A i \in 0..(n - 1) : r[i + 1] = More(next, r[i])
               /\ Reached(next, S) = r[n]
  BY ReachedByRounds
<1>2. n \in Nat
  BY FS_CardinalityType
<1> HIDE DEF n
<1>3. \A i \in 0..n : S \subseteq r[i] /\ r[i] \subseteq A
  <2> DEFINE T == {i \in Nat : i <= n => S \subseteq r[i] /\ r[i] \subseteq A}
  <2>1. 0 \in T
    BY <1>1
  <2>2. \A i \in Nat : i \in T => i + 1 \in T
    BY <1>1, <1>2 DEF More
  <2> HIDE DEF T
  <2>3. Nat \subseteq T
    BY <2>1, <2>2, NatInductionSet
  <2> QED
    BY <2>3 DEF T
<1>4. \A T : S \subseteq T /\ (\A p \in T \cap A : next[p] \subseteq T) => r[n] \subseteq T
  <2> SUFFICES ASSUME NEW B, S \subseteq B, \A p \in B \cap A : next[p] \subseteq B
               PROVE  r[n] \subseteq B
    OBVIOUS
  <2> DEFINE T == {i \in Nat : i <= n => r[i] \subseteq B}
  <2>1. 0 \in T
    BY <1>1
  <2>2. \A i \in Nat : i \in T => i + 1 \in T
    <3> SUFFICES ASSUME NEW i \in Nat, i + 1 <= n, r[i] \subseteq B
                 PROVE  r[i + 1] \subseteq B
      BY <1>2
    <3>1. r[i + 1] = More(next, r[i]) /\ r[i] \subseteq A
      BY <1>1, <1>2, <1>3
    <3> QED
      BY <3>1 DEF More
  <2> HIDE DEF T
  <2>3. Nat \subseteq T
    BY <2>1, <2>2, NatInductionSet
  <2> QED
    BY <1>2, <2>3 DEF T
\* A round that adds nothing is the last; every other adds an element.
<1>5. More(next, r[n]) \subseteq r[n]
  <2> DEFINE Full(i) == More(next, r[i]) \subseteq r[i]
             T == {i \in Nat : i <= n => Full(i) \/ Cardinality(r[i]) >= i}
  <2>1. 0 \in T
    <3>1. IsFiniteSet(r[0])
      BY <1>1, FS_Subset
    <3>2. Cardinality(r[0]) \in Nat
      BY <3>1, FS_CardinalityType
    <3> QED
      BY <3>2
  <2>2. \A i \in Nat : i \in T => i + 1 \in T
    <3> HIDE DEF Full
    <3> SUFFICES ASSUME NEW i \in Nat, i + 1 <= n, Full(i) \/ Cardinality(r[i]) >= i
                 PROVE  Full(i + 1) \/ Cardinality(r[i + 1]) >= i + 1
      BY <1>2
    <3> USE DEF Full
    <3>1. r[i + 1] = More(next, r[i])
      BY <1>1, <1>2
    <3>2. CASE Full(i)
      BY <3>1, <3>2 DEF More
    <3>3. CASE ~ Full(i)
      <4>1. r[i] \subseteq r[i + 1] /\ r[i] # r[i + 1]
        BY <3>1, <3>3 DEF More
      <4>2. IsFiniteSet(r[i + 1])
        <5>1. r[i + 1] \in SUBSET A
          BY <1>2, <1>3
        <5> QED
          BY <5>1, FS_Subset
      <4>3. IsFiniteSet(r[i]) /\ Cardinality(r[i]) <= Cardinality(r[i + 1])
            /\ Cardinality(r[i + 1]) # Cardinality(r[i])
        BY <4>1, <4>2, FS_Subset
      <4>4. Cardinality(r[i]) \in Nat /\ Cardinality(r[i + 1]) \in Nat
        BY <4>2, <4>3, FS_CardinalityType
      <4> QED
        BY <3>3, <4>3, <4>4
    <3> QED
      BY <3>2, <3>3
  <2> HIDE DEF T
  <2>3. Nat \subseteq T
    BY <2>1, <2>2, NatInductionSet
  <2>4. Full(n) \/ Cardinality(r[n]) >= n
    BY <1>2, <2>3 DEF T
  <2>5. CASE Cardinality(r[n]) >= n
    <3>1. r[n] \in SUBSET A
      BY <1>2, <1>3
    <3>2. r[n] = A
      <4>1. Cardinality(r[n]) <= Cardinality(A)
        BY <3>1, FS_Subset
      <4>2. IsFiniteSet(r[n])
        BY <3>1, FS_Subset
      <4>3. Cardinality(r[n]) \in Nat
        BY <4>2, FS_CardinalityType
      <4>4. Cardinality(r[n]) = Cardinality(A)
        BY <1>2, <2>5, <4>1, <4>3 DEF n
      <4> QED
        BY <3>1, <4>4, FS_Subset
    <3> QED
      BY <3>2 DEF More
  <2> QED
    BY <2>4, <2>5
<1> QED
  BY <1>1, <1>2, <1>3, <1>4, <1>5 DEF More

-----------------------------------------------------------------------------
(* Values *)

\* The five kinds of values.
LEMMA ValueCases ==
  ASSUME NEW C, NEW A, NEW v \in Values(C, A)
  PROVE  \/ v = Nil \/ v = Plain
         \/ \E c \in C : v = Ref(c)
         \/ \E b \in A : v = Arr(b)
         \/ \E m \in [Fields -> C] : v = Struct(m)
BY DEF Values

\* Their kinds tell them apart, and what a value is made of exists.
LEMMA ValueParts ==
  ASSUME NEW C, NEW A, NEW v \in Values(C, A)
  PROVE  /\ v.k \in {"any", "int", "ref", "array", "struct"}
         /\ v.k = "struct" => v.m \in [Fields -> C] /\ v = Struct(v.m)
         /\ v.k = "ref" => v.c \in C /\ v = Ref(v.c)
         /\ v.k = "array" => v.a \in A /\ v = Arr(v.a)
         /\ MembersOf(v) \subseteq CellsOf(v)
         /\ CellsOf(v) \subseteq C
         /\ ArraysOf(v) \subseteq A
<1>1. CASE v = Nil \/ v = Plain
  BY <1>1 DEF Nil, Plain, MembersOf, CellsOf, ArraysOf
<1>2. CASE \E c \in C : v = Ref(c)
  BY <1>2 DEF Ref, MembersOf, CellsOf, ArraysOf
<1>3. CASE \E b \in A : v = Arr(b)
  BY <1>3 DEF Arr, MembersOf, CellsOf, ArraysOf
<1>4. CASE \E m \in [Fields -> C] : v = Struct(m)
  BY <1>4 DEF Struct, MembersOf, CellsOf, ArraysOf
<1> QED
  BY <1>1, <1>2, <1>3, <1>4, ValueCases

\* A value is one over other cells and arrays if they have what it leads to.
LEMMA ValueOver ==
  ASSUME NEW C, NEW A, NEW v \in Values(C, A), NEW D, NEW B,
         CellsOf(v) \subseteq D, ArraysOf(v) \subseteq B
  PROVE  v \in Values(D, B)
<1>1. CASE v = Nil \/ v = Plain
  BY <1>1 DEF Values
<1>2. CASE \E c \in C : v = Ref(c)
  BY <1>2 DEF Values, Ref, CellsOf
<1>3. CASE \E b \in A : v = Arr(b)
  BY <1>3 DEF Values, Arr, ArraysOf
<1>4. CASE \E m \in [Fields -> C] : v = Struct(m)
  <2>1. PICK m \in [Fields -> C] : v = Struct(m)
    BY <1>4
  <2>2. v.k = "struct" /\ v.m = m
    BY <2>1 DEF Struct
  <2>3. \A f \in Fields : m[f] \in D
    BY <2>2 DEF CellsOf, MembersOf
  <2>4. m \in [Fields -> D]
    BY <2>3
  <2> QED
    BY <2>1, <2>4 DEF Values
<1> QED
  BY <1>1, <1>2, <1>3, <1>4, ValueCases

LEMMA ValuesGrow ==
  ASSUME NEW C, NEW A, NEW D, NEW B, C \subseteq D, A \subseteq B
  PROVE  Values(C, A) \subseteq Values(D, B)
BY ValueOver, ValueParts

LEMMA IsStoreValues ==
  ASSUME NEW h, NEW a, IsStore(h, a)
  PROVE  AllValues(h, a) \subseteq Values(DOMAIN h, DOMAIN a)
BY DEF IsStore, AllValues

-----------------------------------------------------------------------------
(* New cells *)

LEMMA FiniteBounded ==
  ASSUME NEW S \in SUBSET Nat, IsFiniteSet(S)
  PROVE  \E b \in Nat : \A c \in S : c <= b
<1> DEFINE T == {n \in Nat : \A X \in SUBSET S : Cardinality(X) = n
                               => \E b \in Nat : \A c \in X : c <= b}
<1>0. \A X \in SUBSET S : IsFiniteSet(X) /\ Cardinality(X) \in Nat
  BY FS_Subset, FS_CardinalityType
<1>1. 0 \in T
  BY <1>0, FS_EmptySet
<1>2. \A n \in Nat : n \in T => n + 1 \in T
  <2> SUFFICES ASSUME NEW n \in Nat, n \in T
               PROVE  n + 1 \in T
    OBVIOUS
  <2> SUFFICES ASSUME NEW X \in SUBSET S, Cardinality(X) = n + 1
               PROVE  \E b \in Nat : \A c \in X : c <= b
    OBVIOUS
  <2>0. \A Y \in SUBSET S : Cardinality(Y) = n => \E b \in Nat : \A c \in Y : c <= b
    OBVIOUS
  <2> HIDE DEF T
  <2>1. X # {}
    BY FS_EmptySet
  <2>2. PICK x \in X : TRUE
    BY <2>1
  <2>3. Cardinality(X \ {x}) = n
    BY <1>0, <2>2, FS_RemoveElement, SMTT(30)
  <2>4. PICK b \in Nat : \A c \in X \ {x} : c <= b
    BY <2>0, <2>3
  <2>5. x \in Nat
    OBVIOUS
  <2>6. CASE x <= b
    BY <2>4, <2>6
  <2>7. CASE b <= x
    BY <2>4, <2>5, <2>7
  <2> QED
    BY <2>5, <2>6, <2>7
<1> HIDE DEF T
<1>3. Nat \subseteq T
  BY <1>1, <1>2, NatInductionSet
<1> QED
  BY <1>0, <1>3 DEF T

LEMMA HighestTops ==
  ASSUME NEW S \in SUBSET Nat, IsFiniteSet(S)
  PROVE  /\ Highest(S) \in Nat
         /\ \A c \in S : c <= Highest(S)
<1> DEFINE T == {b \in Nat : \A c \in S : c <= b}
<1>1. T # {} /\ T \in SUBSET Nat
  BY FiniteBounded
<1>2. PICK b \in T : \A d \in T : b <= d
  BY <1>1, LeastOfNats
<1>3. b \in S \cup {0}
  <2> SUFFICES ASSUME b \notin S, b # 0
               PROVE  FALSE
    OBVIOUS
  <2>1. b - 1 \in T
    BY <1>2
  <2> QED
    BY <1>2, <2>1
<1>4. \E x \in S \cup {0} : \A y \in S \cup {0} : x >= y
  BY <1>2, <1>3
<1>5. Highest(S) \in S \cup {0} /\ \A y \in S \cup {0} : Highest(S) >= y
  BY <1>4 DEF Highest, Max
<1>6. \A c \in S \cup {0} : c \in Nat
  OBVIOUS
<1> HIDE DEF T
<1> QED
  BY <1>5, <1>6

LEMMA NewIsNew ==
  ASSUME NEW S \in SUBSET Nat, IsFiniteSet(S)
  PROVE  New(S) \in Nat \ {0} /\ New(S) \notin S
BY HighestTops DEF New

\* The numbers for copies of the cells in S.
LEMMA NumbersApart ==
  ASSUME NEW S \in SUBSET Nat, IsFiniteSet(S)
  PROVE  \A c, d \in S : Cardinality({x \in S : x <= c}) = Cardinality({x \in S : x <= d}) => c = d
<1>1. \A c, d \in S : c < d => Cardinality({x \in S : x <= c}) # Cardinality({x \in S : x <= d})
  <2> SUFFICES ASSUME NEW c \in S, NEW d \in S, c < d
               PROVE  Cardinality({x \in S : x <= c}) # Cardinality({x \in S : x <= d})
    OBVIOUS
  <2> DEFINE X == {x \in S : x <= c}
             Y == {x \in S : x <= d}
  <2>0. c \in Nat /\ d \in Nat /\ \A x \in S : x \in Nat
    OBVIOUS
  <2>4. \A x \in S : x <= c => x <= d
    BY <2>0
  <2>5. X \subseteq Y
    BY <2>4
  <2>6. d \in Y
    BY <2>0
  <2>7. d \notin X
    BY <2>0
  <2>1. X \in SUBSET Y /\ d \in Y /\ d \notin X
    BY <2>5, <2>6, <2>7
  <2>2. IsFiniteSet(Y)
    BY FS_Subset
  <2> HIDE DEF X, Y
  <2>3. Cardinality(X) # Cardinality(Y)
    BY <2>1, <2>2, FS_Subset
  <2> QED
    BY <2>3 DEF X, Y
<1>2. \A c, d \in S : c < d \/ d < c \/ c = d
  OBVIOUS
<1> QED
  BY <1>1, <1>2

LEMMA NumbersPositive ==
  ASSUME NEW S \in SUBSET Nat, IsFiniteSet(S), NEW c \in S
  PROVE  Cardinality({x \in S : x <= c}) \in Nat \ {0}
<1> DEFINE X == {x \in S : x <= c}
<1>1. c \in X
  OBVIOUS
<1>2. IsFiniteSet(X)
  BY FS_Subset
<1> QED
  BY <1>1, <1>2, FS_CardinalityType, FS_EmptySet

-----------------------------------------------------------------------------
(* The cells of a value *)

\* What Owned yields: the cells of v's members, of theirs, and so on.
LEMMA OwnedIsClosure ==
  ASSUME NEW h, NEW a, IsStore(h, a), NEW v \in Values(DOMAIN h, DOMAIN a)
  PROVE  /\ MembersOf(v) \subseteq Owned(h, v)
         /\ Owned(h, v) \subseteq DOMAIN h
         /\ \A c \in Owned(h, v) : MembersOf(h[c]) \subseteq Owned(h, v)
         /\ \A T : MembersOf(v) \subseteq T /\ (\A c \in T \cap DOMAIN h : MembersOf(h[c]) \subseteq T)
                     => Owned(h, v) \subseteq T
<1> DEFINE next == [c \in DOMAIN h |-> MembersOf(h[c])]
<1>1. \A c \in DOMAIN h : MembersOf(h[c]) \subseteq DOMAIN h
  BY ValueParts DEF IsStore
<1>2. next \in [DOMAIN h -> SUBSET DOMAIN h]
  BY <1>1
<1>3. MembersOf(v) \in SUBSET DOMAIN h
  BY ValueParts
<1>4. IsFiniteSet(DOMAIN h)
  BY DEF IsStore
<1>5. Owned(h, v) = Reached(next, MembersOf(v))
  BY DEF Owned
<1>6. \A c \in DOMAIN h : next[c] = MembersOf(h[c])
  OBVIOUS
<1> DEFINE R == Reached(next, MembersOf(v))
<1> HIDE DEF next
<1>7. /\ MembersOf(v) \subseteq R
      /\ R \subseteq DOMAIN h
      /\ \A p \in R : next[p] \subseteq R
      /\ \A T : MembersOf(v) \subseteq T /\ (\A p \in T \cap DOMAIN h : next[p] \subseteq T)
                  => R \subseteq T
  BY <1>2, <1>3, <1>4, ReachedIsClosure
<1> HIDE DEF R
<1>8. Owned(h, v) = R
  BY <1>5 DEF R
<1> QED
  BY <1>6, <1>7, <1>8

-----------------------------------------------------------------------------
(* copy_value *)

\* The numbers of the copies of the cells O, and a value moved to the copies.
At(h, O) == [c \in O |-> Highest(DOMAIN h) + Cardinality({d \in O : d <= c})]
Moved(at, w) == IF w.k = "struct" THEN Struct([f \in Fields |-> at[w.m[f]]]) ELSE w

LEMMA AtNew ==
  ASSUME NEW h, NEW a, IsStore(h, a), NEW O \in SUBSET DOMAIN h
  PROVE  LET at == At(h, O)
         IN  /\ DOMAIN at = O
             /\ \A c \in O : at[c] \in Nat \ {0} /\ at[c] \notin DOMAIN h
             /\ \A c, d \in O : at[c] = at[d] => c = d
             /\ IsFiniteSet({at[c] : c \in O})
<1> DEFINE at == At(h, O)
           rank == [c \in O |-> Cardinality({d \in O : d <= c})]
           top == Highest(DOMAIN h)
<1>1. DOMAIN h \in SUBSET Nat /\ IsFiniteSet(DOMAIN h)
  BY DEF IsStore
<1>2. O \in SUBSET Nat /\ IsFiniteSet(O)
  BY <1>1, FS_Subset
<1>3. \A c \in O : rank[c] \in Nat \ {0}
  BY <1>2, NumbersPositive
<1>4. \A c, d \in O : rank[c] = rank[d] => c = d
  <2>1. \A c, d \in O : Cardinality({x \in O : x <= c}) = Cardinality({x \in O : x <= d}) => c = d
    BY <1>2, NumbersApart
  <2> QED
    BY <2>1
<1>5. \A c \in O : at[c] = top + rank[c]
  BY DEF At
<1>6. top \in Nat /\ \A c \in DOMAIN h : c <= top
  BY <1>1, HighestTops
<1>7. DOMAIN at = O
  BY DEF At
<1> HIDE DEF at, rank, top
<1>8. \A c \in O : at[c] \in Nat \ {0} /\ at[c] \notin DOMAIN h
  <2> SUFFICES ASSUME NEW c \in O
               PROVE  at[c] \in Nat \ {0} /\ at[c] \notin DOMAIN h
    OBVIOUS
  <2>1. at[c] = top + rank[c] /\ rank[c] \in Nat \ {0}
    BY <1>3, <1>5
  <2>2. at[c] \in Nat /\ at[c] > top
    BY <1>6, <2>1
  <2> QED
    BY <1>6, <2>2
<1>9. \A c, d \in O : at[c] = at[d] => c = d
  <2> SUFFICES ASSUME NEW c \in O, NEW d \in O, at[c] = at[d]
               PROVE  c = d
    OBVIOUS
  <2>1. rank[c] = rank[d]
    BY <1>3, <1>5, <1>6
  <2> QED
    BY <1>4, <2>1
<1>10. IsFiniteSet({at[c] : c \in O})
  <2> DEFINE N == {at[c] : c \in O}
  <2>1. at \in [O -> N]
    <3>1. at = [c \in O |-> at[c]]
      BY DEF at, At
    <3> QED
      BY <3>1
  <2>2. at \in Surjection(O, N)
    BY <2>1 DEF Surjection
  <2> QED
    BY <1>2, <2>2, FS_Surjection
<1> QED
  BY <1>7, <1>8, <1>9, <1>10 DEF at

\* A moved value has its kind, and the copies of its members.
LEMMA MovedFacts ==
  ASSUME NEW C, NEW A, NEW w \in Values(C, A), NEW at, NEW O, MembersOf(w) \subseteq O,
         NEW D, {at[c] : c \in O} \subseteq D, C \subseteq D
  PROVE  /\ Moved(at, w).k = w.k
         /\ w.k # "struct" => Moved(at, w) = w
         /\ w.k = "struct" => \A f \in Fields : w.m[f] \in O /\ Moved(at, w).m[f] = at[w.m[f]]
         /\ MembersOf(Moved(at, w)) = {at[c] : c \in MembersOf(w)}
         /\ Moved(at, w) \in Values(D, A)
<1>1. CASE w.k = "struct"
  <2> DEFINE m == [f \in Fields |-> at[w.m[f]]]
  <2>1. Moved(at, w) = Struct(m)
    BY <1>1 DEF Moved
  <2>2. Moved(at, w).k = "struct" /\ Moved(at, w).m = m
    BY <2>1 DEF Struct
  <2>3. \A f \in Fields : w.m[f] \in O
    BY <1>1 DEF MembersOf
  <2>4. m \in [Fields -> D]
    BY <2>3
  <2>5. Moved(at, w) \in Values(D, A)
    BY <2>1, <2>4 DEF Values
  <2>6. MembersOf(Moved(at, w)) = {at[c] : c \in MembersOf(w)}
    BY <1>1, <2>2 DEF MembersOf
  <2> QED
    BY <1>1, <2>2, <2>3, <2>5, <2>6
<1>2. CASE w.k # "struct"
  <2>1. Moved(at, w) = w
    BY <1>2 DEF Moved
  <2>2. MembersOf(w) = {}
    BY <1>2 DEF MembersOf
  <2>3. w \in Values(D, A)
    BY ValuesGrow
  <2> QED
    BY <1>2, <2>1, <2>2, <2>3
<1> QED
  BY <1>1, <1>2

\* The cells after copy_value: those of before, and the copies.
LEMMA CopyCells ==
  ASSUME NEW h, NEW a, IsStore(h, a), NEW v \in Values(DOMAIN h, DOMAIN a)
  PROVE  LET O == Owned(h, v)
             at == At(h, O)
             c == CopyValue(h, v)
         IN  /\ c.val = Moved(at, v)
             /\ DOMAIN c.heap = DOMAIN h \cup {at[d] : d \in O}
             /\ \A d \in DOMAIN h : c.heap[d] = h[d]
             /\ \A d \in O : c.heap[at[d]] = Moved(at, h[d])
             /\ c.heap = [d \in DOMAIN c.heap |-> c.heap[d]]
<1> DEFINE O == Owned(h, v)
           at == At(h, O)
           hp == [c \in DOMAIN h \cup {at[d] : d \in O} |->
                    IF c \in DOMAIN h THEN h[c]
                    ELSE Moved(at, h[CHOOSE d \in O : at[d] = c])]
<1>1. CopyValue(h, v) = [val |-> Moved(at, v), heap |-> hp]
  BY DEF CopyValue, At, Moved
<1>2. O \subseteq DOMAIN h
  BY OwnedIsClosure
<1>3. /\ \A c \in O : at[c] \notin DOMAIN h
      /\ \A c, d \in O : at[c] = at[d] => c = d
  BY <1>2, AtNew
<1> HIDE DEF O, at
<1>4. \A d \in O : hp[at[d]] = Moved(at, h[d])
  <2> SUFFICES ASSUME NEW d \in O
               PROVE  hp[at[d]] = Moved(at, h[d])
    OBVIOUS
  <2>1. (CHOOSE x \in O : at[x] = at[d]) = d
    BY <1>3
  <2>2. at[d] \in DOMAIN hp /\ at[d] \notin DOMAIN h
    BY <1>3
  <2> QED
    BY <2>1, <2>2
<1>5. CopyValue(h, v).val = Moved(at, v) /\ CopyValue(h, v).heap = hp
  BY <1>1
<1>6. \A d \in DOMAIN h : hp[d] = h[d]
  OBVIOUS
<1>7. DOMAIN hp = DOMAIN h \cup {at[d] : d \in O}
  OBVIOUS
<1>8. hp = [d \in DOMAIN hp |-> hp[d]]
  OBVIOUS
<1> HIDE DEF hp
<1> QED
  BY <1>4, <1>5, <1>6, <1>7, <1>8 DEF O, at

\* The cells k are h and new ones, whose members are new.
Extends(h, k) ==
  /\ DOMAIN h \subseteq DOMAIN k
  /\ \A c \in DOMAIN h : k[c] = h[c]
  /\ \A c \in DOMAIN k \ DOMAIN h : MembersOf(k[c]) \cap DOMAIN h = {}

\* Only v has its members, and all are new in k.
Own(h, k, v) ==
  v.k = "struct" => /\ MembersOf(v) \cap DOMAIN h = {}
                    /\ \A c \in DOMAIN k : k[c] # v

\* The members of members have no member twice, and none is lent.
LEMMA OwnedApart ==
  ASSUME NEW h, NEW a, NEW l, NEW v, Sound(h, a, l, v)
  PROVE  /\ Owned(h, v) \subseteq DOMAIN h \ l
         /\ \A d \in Owned(h, v) : h[d] # v
<1>1. IsStore(h, a) /\ v \in Values(DOMAIN h, DOMAIN a)
  BY DEF Sound
<1>2. Owned(h, v) \subseteq DOMAIN h \ l
  <2>1. MembersOf(v) \subseteq DOMAIN h \ l
    BY <1>1, ValueParts DEF Sound
  <2>2. \A c \in DOMAIN h : MembersOf(h[c]) \subseteq DOMAIN h \ l
    BY <1>1, ValueParts DEF Sound, IsStore, AllValues
  <2> QED
    BY <1>1, <2>1, <2>2, OwnedIsClosure
<1>3. \A d \in Owned(h, v) : h[d] # v
  BY <1>1, OwnedIsClosure DEF Sound, Tree
<1> QED
  BY <1>2, <1>3

\* A copy has cells of its own at every level: type.c:334.
LEMMA CopyOwn ==
  ASSUME NEW h, NEW a, NEW l \in SUBSET DOMAIN h, NEW v, Sound(h, a, l, v)
  PROVE  LET c == CopyValue(h, v)
         IN  /\ Sound(c.heap, a, l, c.val)
             /\ Extends(h, c.heap)
             /\ MembersOf(c.val) \cap DOMAIN h = {}
             /\ Own(h, c.heap, c.val)
<1> DEFINE O == Owned(h, v)
           at == At(h, O)
           hp == CopyValue(h, v).heap
           val == CopyValue(h, v).val
           New0 == {at[d] : d \in O}
<1>1. IsStore(h, a) /\ v \in Values(DOMAIN h, DOMAIN a)
  BY DEF Sound
<1>2. /\ MembersOf(v) \subseteq O
      /\ O \subseteq DOMAIN h
      /\ \A c \in O : MembersOf(h[c]) \subseteq O
  BY <1>1, OwnedIsClosure
<1>3. O \subseteq DOMAIN h \ l /\ \A d \in O : h[d] # v
  BY OwnedApart
<1>4. /\ \A c \in O : at[c] \in Nat \ {0} /\ at[c] \notin DOMAIN h
      /\ \A c, d \in O : at[c] = at[d] => c = d
      /\ IsFiniteSet(New0)
  BY <1>1, <1>2, AtNew
<1>5. /\ val = Moved(at, v)
      /\ DOMAIN hp = DOMAIN h \cup New0
      /\ \A d \in DOMAIN h : hp[d] = h[d]
      /\ \A d \in O : hp[at[d]] = Moved(at, h[d])
      /\ hp = [d \in DOMAIN hp |-> hp[d]]
  BY <1>1, CopyCells
<1> HIDE DEF O, at, hp, val
\* The values that are moved.
<1> DEFINE W == {h[d] : d \in O} \cup {v}
<1>6. \A w \in W : w \in Values(DOMAIN h, DOMAIN a) /\ MembersOf(w) \subseteq O
  BY <1>1, <1>2 DEF IsStore
<1>7. \A w \in W : /\ Moved(at, w).k = w.k
                   /\ w.k # "struct" => Moved(at, w) = w
                   /\ w.k = "struct" => \A f \in Fields : w.m[f] \in O /\ Moved(at, w).m[f] = at[w.m[f]]
                   /\ MembersOf(Moved(at, w)) = {at[c] : c \in MembersOf(w)}
                   /\ Moved(at, w) \in Values(DOMAIN h \cup New0, DOMAIN a)
  BY <1>6, MovedFacts
<1>8. New0 \cap DOMAIN h = {}
  BY <1>4
<1>9. \A w \in W : MembersOf(Moved(at, w)) \subseteq New0
  <2> SUFFICES ASSUME NEW w \in W
               PROVE  MembersOf(Moved(at, w)) \subseteq New0
    OBVIOUS
  <2>1. MembersOf(w) \subseteq O /\ MembersOf(Moved(at, w)) = {at[c] : c \in MembersOf(w)}
    BY <1>6, <1>7
  <2> QED
    BY <2>1
<1>10. \A c \in DOMAIN hp : \/ c \in DOMAIN h /\ hp[c] = h[c]
                           \/ \E d \in O : c = at[d] /\ hp[c] = Moved(at, h[d]) /\ h[d] \in W
  BY <1>5
<1>11. IsStore(hp, a) /\ val \in Values(DOMAIN hp, DOMAIN a)
  <2>1. \A c \in DOMAIN hp : hp[c] \in Values(DOMAIN hp, DOMAIN a)
    <3>1. Values(DOMAIN h, DOMAIN a) \subseteq Values(DOMAIN hp, DOMAIN a)
      BY <1>5, ValuesGrow
    <3> QED
      BY <1>1, <1>5, <1>7, <1>10, <3>1 DEF IsStore
  <2>2. IsFiniteSet(DOMAIN hp) /\ DOMAIN hp \subseteq Nat \ {0}
    <3>1. IsFiniteSet(DOMAIN h) /\ DOMAIN h \subseteq Nat \ {0}
      BY <1>1 DEF IsStore
    <3>2. New0 \subseteq Nat \ {0}
      BY <1>4
    <3>3. IsFiniteSet(DOMAIN h \cup New0)
      BY <1>4, <3>1, FS_Union
    <3> QED
      BY <1>5, <3>1, <3>2, <3>3
  <2>3. \A b \in DOMAIN a : a[b] \in Values(DOMAIN hp, DOMAIN a)
    <3>1. Values(DOMAIN h, DOMAIN a) \subseteq Values(DOMAIN hp, DOMAIN a)
      BY <1>5, ValuesGrow
    <3> QED
      BY <1>1, <3>1 DEF IsStore
  <2>4. a = [b \in DOMAIN a |-> a[b]]
    BY <1>1 DEF IsStore
  <2>5. hp \in [DOMAIN hp -> Values(DOMAIN hp, DOMAIN a)]
    BY <1>5, <2>1
  <2>6. a \in [DOMAIN a -> Values(DOMAIN hp, DOMAIN a)]
    BY <2>3, <2>4
  <2>7. val \in Values(DOMAIN hp, DOMAIN a)
    BY <1>5, <1>7
  <2> QED
    BY <1>1, <2>2, <2>5, <2>6, <2>7 DEF IsStore
\* What the values of after were before.
<1>12. \A w \in AllValues(hp, a) \cup {val} :
         w \in AllValues(h, a) \/ \E u \in W : w = Moved(at, u)
  BY <1>5, <1>10 DEF AllValues
<1>13. \A w \in AllValues(h, a) : MembersOf(w) \subseteq DOMAIN h
  BY <1>1, IsStoreValues, ValueParts
<1>14. Apart(AllValues(hp, a) \cup {val})
  <2> SUFFICES ASSUME NEW w \in AllValues(hp, a) \cup {val}, NEW u \in AllValues(hp, a) \cup {val},
                      NEW f \in Fields, NEW g \in Fields,
                      w.k = "struct", u.k = "struct", w.m[f] = u.m[g]
               PROVE  w = u /\ f = g
    BY DEF Apart
  <2>1. w.m[f] \in MembersOf(w) /\ w.m[f] \in MembersOf(u)
    BY DEF MembersOf
  <2>2. CASE w \in AllValues(h, a) /\ u \in AllValues(h, a)
    BY <2>2 DEF Sound, Apart
  <2>3. CASE (w \in AllValues(h, a) /\ \E x \in W : u = Moved(at, x))
             \/ (u \in AllValues(h, a) /\ \E x \in W : w = Moved(at, x))
    BY <1>8, <1>9, <1>13, <2>1, <2>3
  <2>4. CASE (\E x \in W : w = Moved(at, x)) /\ (\E x \in W : u = Moved(at, x))
    <3>1. PICK x \in W, y \in W : w = Moved(at, x) /\ u = Moved(at, y)
      BY <2>4
    <3>2. x.k = "struct" /\ y.k = "struct"
      BY <1>7, <3>1
    <3>3. at[x.m[f]] = at[y.m[g]] /\ x.m[f] \in O /\ y.m[g] \in O
      BY <1>7, <3>1, <3>2
    <3>4. x.m[f] = y.m[g]
      BY <1>4, <3>3
    <3>5. x \in AllValues(h, a) \cup {v} /\ y \in AllValues(h, a) \cup {v}
      BY <1>2 DEF AllValues
    <3>6. x = y /\ f = g
      BY <3>2, <3>4, <3>5 DEF Sound, Apart
    <3> QED
      BY <3>1, <3>6
  <2> QED
    BY <1>12, <2>2, <2>3, <2>4
<1>15. Tree(hp)
  <2> SUFFICES ASSUME NEW c \in DOMAIN hp
               PROVE  c \notin Owned(hp, hp[c])
    BY DEF Tree
  <2>1. hp[c] \in Values(DOMAIN hp, DOMAIN a)
    BY <1>11 DEF IsStore
  <2>2. CASE c \in DOMAIN h
    <3> DEFINE T == Owned(h, h[c])
    <3>1. h[c] \in Values(DOMAIN h, DOMAIN a)
      BY <1>1, <2>2 DEF IsStore
    <3>2. MembersOf(h[c]) \subseteq T /\ T \subseteq DOMAIN h
          /\ \A d \in T : MembersOf(h[d]) \subseteq T
      BY <1>1, <3>1, OwnedIsClosure
    <3>3. MembersOf(hp[c]) \subseteq T /\ \A d \in T \cap DOMAIN hp : MembersOf(hp[d]) \subseteq T
      BY <1>5, <2>2, <3>2
    <3>4. c \notin T
      BY <2>2 DEF Sound, Tree
    <3> HIDE DEF T
    <3>5. Owned(hp, hp[c]) \subseteq T
      BY <1>11, <2>1, <3>3, OwnedIsClosure
    <3> QED
      BY <3>4, <3>5
  <2>3. CASE c \notin DOMAIN h
    <3>1. PICK d \in O : c = at[d] /\ hp[c] = Moved(at, h[d]) /\ h[d] \in W
      BY <1>10, <2>3
    <3> DEFINE S == Owned(h, h[d])
               T == {at[x] : x \in S}
    <3>2. h[d] \in Values(DOMAIN h, DOMAIN a)
      BY <1>6, <3>1
    <3>3. /\ MembersOf(h[d]) \subseteq S /\ S \subseteq DOMAIN h
          /\ \A x \in S : MembersOf(h[x]) \subseteq S
          /\ \A T1 : MembersOf(h[d]) \subseteq T1
                     /\ (\A x \in T1 \cap DOMAIN h : MembersOf(h[x]) \subseteq T1) => S \subseteq T1
      BY <1>1, <3>2, OwnedIsClosure
    <3>4. S \subseteq O
      BY <1>2, <3>3
    <3>5. d \notin S
      BY <1>2 DEF Sound, Tree
    <3> HIDE DEF S
    <3>6. MembersOf(hp[c]) \subseteq T
      <4>1. MembersOf(Moved(at, h[d])) = {at[x] : x \in MembersOf(h[d])}
        BY <1>7, <3>1
      <4> QED
        BY <3>1, <3>3, <4>1
    <3>7. \A y \in T : MembersOf(hp[y]) \subseteq T
      <4> SUFFICES ASSUME NEW x \in S
                   PROVE  MembersOf(hp[at[x]]) \subseteq T
        OBVIOUS
      <4>1. hp[at[x]] = Moved(at, h[x]) /\ h[x] \in W
        BY <1>5, <3>4
      <4>2. MembersOf(Moved(at, h[x])) = {at[z] : z \in MembersOf(h[x])}
        BY <1>7, <4>1
      <4>3. MembersOf(h[x]) \subseteq S
        BY <3>3
      <4> QED
        BY <4>1, <4>2, <4>3
    <3>8. c \notin T
      BY <1>4, <3>1, <3>4, <3>5
    <3> HIDE DEF T
    <3>9. Owned(hp, hp[c]) \subseteq T
      BY <1>11, <2>1, <3>6, <3>7, OwnedIsClosure
    <3> QED
      BY <3>8, <3>9
  <2> QED
    BY <2>2, <2>3
\* Structs have a field, by which their maps differ.
<1>16. \A x, y \in W : x.k = "struct" /\ Moved(at, x) = Moved(at, y) => x = y
  <2> SUFFICES ASSUME NEW x \in W, NEW y \in W, x.k = "struct", Moved(at, x) = Moved(at, y)
               PROVE  x = y
    OBVIOUS
  <2>1. PICK f \in Fields : TRUE
    BY FieldsAssumption
  <2>2. y.k = "struct"
    BY <1>7
  <2>3. at[x.m[f]] = at[y.m[f]] /\ x.m[f] \in O /\ y.m[f] \in O
    BY <1>7, <2>2, ZenonT(30)
  <2>4. x.m[f] = y.m[f]
    BY <1>4, <2>3
  <2>5. x \in AllValues(h, a) \cup {v} /\ y \in AllValues(h, a) \cup {v}
    BY <1>2 DEF AllValues
  <2> QED
    BY <2>2, <2>4, <2>5 DEF Sound, Apart
<1>17. \A w \in Values(DOMAIN h, DOMAIN a), x \in W : x.k = "struct" => w # Moved(at, x)
  <2> SUFFICES ASSUME NEW w \in Values(DOMAIN h, DOMAIN a), NEW x \in W, x.k = "struct",
                      w = Moved(at, x)
               PROVE  FALSE
    OBVIOUS
  <2>1. PICK f \in Fields : TRUE
    BY FieldsAssumption
  <2>2. w.m[f] \in MembersOf(w)
    BY <1>7, <2>1 DEF MembersOf
  <2>3. MembersOf(w) \subseteq DOMAIN h
    BY ValueParts
  <2> QED
    BY <1>8, <1>9, <2>2, <2>3
<1>18. Single(hp, DOMAIN hp \ l)
  <2> SUFFICES ASSUME NEW c \in DOMAIN hp \ l, NEW d \in DOMAIN hp \ l,
                      hp[c].k = "struct", hp[c] = hp[d]
               PROVE  c = d
    BY DEF Single
  <2>1. CASE c \in DOMAIN h /\ d \in DOMAIN h
    BY <1>5, <2>1 DEF Sound, Single
  <2>2. CASE c \in DOMAIN h /\ d \notin DOMAIN h
    <3>1. h[c] \in Values(DOMAIN h, DOMAIN a) /\ hp[c] = h[c]
      BY <1>1, <1>5, <2>2 DEF IsStore
    <3>2. PICK x \in O : hp[d] = Moved(at, h[x]) /\ h[x] \in W
      BY <1>10, <2>2
    <3> QED
      BY <1>7, <1>17, <3>1, <3>2
  <2>3. CASE c \notin DOMAIN h /\ d \in DOMAIN h
    <3>1. h[d] \in Values(DOMAIN h, DOMAIN a) /\ hp[d] = h[d]
      BY <1>1, <1>5, <2>3 DEF IsStore
    <3>2. PICK x \in O : hp[c] = Moved(at, h[x]) /\ h[x] \in W
      BY <1>10, <2>3
    <3>3. h[x].k = "struct"
      BY <1>7, <3>2
    <3>4. h[d] # Moved(at, h[x])
      BY <1>17, <3>1, <3>2, <3>3
    <3> QED
      BY <3>1, <3>2, <3>4
  <2>4. CASE c \notin DOMAIN h /\ d \notin DOMAIN h
    <3>1. PICK x \in O : c = at[x] /\ hp[c] = Moved(at, h[x]) /\ h[x] \in W
      BY <1>10, <2>4
    <3>2. PICK y \in O : d = at[y] /\ hp[d] = Moved(at, h[y]) /\ h[y] \in W
      BY <1>10, <2>4
    <3>3. h[x].k = "struct" /\ h[x] = h[y]
      BY <1>7, <1>16, <3>1, <3>2
    <3>5. Single(h, DOMAIN h \ l) /\ x \in DOMAIN h \ l /\ y \in DOMAIN h \ l
      BY <1>3 DEF Sound
    <3>4. x = y
      BY <3>3, <3>5 DEF Single
    <3> QED
      BY <3>1, <3>2, <3>4
  <2> QED
    BY <2>1, <2>2, <2>3, <2>4
<1>19. \A w \in AllValues(hp, a) \cup {val} : MembersOf(w) \cap l = {}
  BY <1>8, <1>9, <1>12 DEF Sound
<1>20. Extends(h, hp)
  BY <1>5, <1>8, <1>9, <1>10 DEF Extends
<1>21. MembersOf(val) \cap DOMAIN h = {}
  BY <1>5, <1>8, <1>9
<1>22. Own(h, hp, val)
  <2> SUFFICES ASSUME val.k = "struct", NEW c \in DOMAIN hp, hp[c] = val
               PROVE  FALSE
    BY <1>21 DEF Own
  <2>1. v \in W /\ v.k = "struct"
    BY <1>5, <1>7
  <2>2. c \notin DOMAIN h
    BY <1>1, <1>5, <1>17, <2>1 DEF IsStore
  <2>3. PICK d \in O : hp[c] = Moved(at, h[d]) /\ h[d] \in W
    BY <1>10, <2>2
  <2>4. h[d] = v
    BY <1>5, <1>16, <2>1, <2>3
  <2> QED
    BY <1>3, <2>4
<1>23. Sound(hp, a, l, val)
  BY <1>11, <1>14, <1>15, <1>18, <1>19 DEF Sound
<1> QED
  BY <1>20, <1>21, <1>22, <1>23 DEF hp, val

-----------------------------------------------------------------------------
(* Writing to cells and arrays *)

\* A part of what is sound is sound, with any value that has no members.
LEMMA SoundPart ==
  ASSUME NEW h, NEW a, NEW l, NEW v, Sound(h, a, l, v),
         NEW w \in Values(DOMAIN h, DOMAIN a),
         w \in AllValues(h, a) \/ w.k # "struct" \/ w = v
  PROVE  Sound(h, a, l, w)
<1>1. Apart(AllValues(h, a) \cup {w})
  <2>1. CASE w.k # "struct"
    BY <2>1 DEF Sound, Apart
  <2>2. CASE w \in AllValues(h, a) \/ w = v
    BY <2>2 DEF Sound, Apart
  <2> QED
    BY <2>1, <2>2
<1>2. MembersOf(w) \cap l = {}
  BY DEF Sound, MembersOf
<1> QED
  BY <1>1, <1>2 DEF Sound

LEMMA NilIsValue ==
  ASSUME NEW C, NEW A
  PROVE  /\ Nil \in Values(C, A) /\ Nil.k = "any" /\ MembersOf(Nil) = {}
         /\ Plain \in Values(C, A) /\ Plain.k = "int" /\ MembersOf(Plain) = {}
BY DEF Nil, Plain, Values, MembersOf

\* New cells, with the value in hand or the default: one that is not copied is lent.
WithCells(h, N, u) == [c \in DOMAIN h \cup N |-> IF c \in DOMAIN h THEN h[c] ELSE u]

LEMMA AddCells ==
  ASSUME NEW h, NEW a, NEW l \in SUBSET DOMAIN h, NEW v, Sound(h, a, l, v),
         NEW N, IsFiniteSet(N), N \subseteq Nat \ {0}, N \cap DOMAIN h = {},
         NEW u, u = v \/ u = Nil, NEW m, m = l \/ m = l \cup N,
         u.k = "struct" => \A c, d \in N : c = d,
         u.k = "struct" /\ m = l => \A c \in DOMAIN h : h[c] # u
  PROVE  Sound(WithCells(h, N, u), a, m, v)
<1> DEFINE k == [c \in DOMAIN h \cup N |-> IF c \in DOMAIN h THEN h[c] ELSE u]
<1>1. /\ DOMAIN k = DOMAIN h \cup N
      /\ \A c \in DOMAIN h : k[c] = h[c]
      /\ \A c \in N : k[c] = u
      /\ k = [c \in DOMAIN k |-> k[c]]
  OBVIOUS
<1>2. IsStore(h, a) /\ v \in Values(DOMAIN h, DOMAIN a)
  BY DEF Sound
<1>3. u \in Values(DOMAIN h, DOMAIN a)
  BY <1>2, NilIsValue
<1> HIDE DEF k
<1>4. Values(DOMAIN h, DOMAIN a) \subseteq Values(DOMAIN k, DOMAIN a)
  BY <1>1, ValuesGrow
<1>5. IsStore(k, a) /\ v \in Values(DOMAIN k, DOMAIN a)
  <2>1. IsFiniteSet(DOMAIN k) /\ DOMAIN k \subseteq Nat \ {0}
    <3>1. IsFiniteSet(DOMAIN h) /\ DOMAIN h \subseteq Nat \ {0}
      BY <1>2 DEF IsStore
    <3>2. IsFiniteSet(DOMAIN h \cup N)
      BY <3>1, FS_Union
    <3> QED
      BY <1>1, <3>1, <3>2
  <2>2. \A c \in DOMAIN k : k[c] \in Values(DOMAIN k, DOMAIN a)
    BY <1>1, <1>2, <1>3, <1>4 DEF IsStore
  <2>3. k \in [DOMAIN k -> Values(DOMAIN k, DOMAIN a)]
    BY <1>1, <2>2
  <2>4. a \in [DOMAIN a -> Values(DOMAIN k, DOMAIN a)]
    BY <1>2, <1>4 DEF IsStore
  <2> QED
    BY <1>2, <1>4, <2>1, <2>3, <2>4 DEF IsStore
<1>6. AllValues(k, a) \cup {v} \subseteq AllValues(h, a) \cup {v, Nil}
  BY <1>1 DEF AllValues
<1>7. Apart(AllValues(k, a) \cup {v})
  BY <1>6, NilIsValue DEF Sound, Apart
<1>8. \A w \in AllValues(k, a) \cup {v} : MembersOf(w) \subseteq DOMAIN h
  BY <1>2, <1>6, IsStoreValues, ValueParts, NilIsValue
<1>9. \A w \in AllValues(k, a) \cup {v} : MembersOf(w) \cap m = {}
  <2>1. \A w \in AllValues(k, a) \cup {v} : MembersOf(w) \cap l = {}
    BY <1>6, NilIsValue DEF Sound
  <2> QED
    BY <1>8, <2>1
<1>10. Tree(k)
  <2> SUFFICES ASSUME NEW c \in DOMAIN k
               PROVE  c \notin Owned(k, k[c])
    BY DEF Tree
  <2>1. k[c] \in Values(DOMAIN k, DOMAIN a)
    BY <1>5 DEF IsStore
  <2>2. CASE c \in DOMAIN h
    <3>1. h[c] \in Values(DOMAIN h, DOMAIN a)
      BY <1>2, <2>2 DEF IsStore
    <3> DEFINE T == Owned(h, h[c])
    <3>2. MembersOf(h[c]) \subseteq T /\ T \subseteq DOMAIN h
          /\ \A d \in T : MembersOf(h[d]) \subseteq T
      BY <1>2, <3>1, OwnedIsClosure
    <3>3. c \notin T
      BY <2>2 DEF Sound, Tree
    <3>4. MembersOf(k[c]) \subseteq T /\ \A d \in T \cap DOMAIN k : MembersOf(k[d]) \subseteq T
      BY <1>1, <2>2, <3>2
    <3> HIDE DEF T
    <3>5. Owned(k, k[c]) \subseteq T
      BY <1>5, <2>1, <3>4, OwnedIsClosure
    <3> QED
      BY <3>3, <3>5
  <2>3. CASE c \notin DOMAIN h
    <3> DEFINE T == DOMAIN h
    <3>1. \A d \in DOMAIN k : MembersOf(k[d]) \subseteq T
      BY <1>8 DEF AllValues
    <3> HIDE DEF T
    <3>2. Owned(k, k[c]) \subseteq T
      BY <1>5, <2>1, <3>1, OwnedIsClosure
    <3> QED
      BY <2>3, <3>2 DEF T
  <2> QED
    BY <2>2, <2>3
<1>11. Single(k, DOMAIN k \ m)
  <2> SUFFICES ASSUME NEW c \in DOMAIN k \ m, NEW d \in DOMAIN k \ m,
                      k[c].k = "struct", k[c] = k[d]
               PROVE  c = d
    BY DEF Single
  <2>1. CASE c \in DOMAIN h /\ d \in DOMAIN h
    <3>1. c \in DOMAIN h \ l /\ d \in DOMAIN h \ l
      BY <2>1
    <3> QED
      BY <1>1, <3>1 DEF Sound, Single
  <2>2. CASE c \in N \/ d \in N
    <3>1. m = l \/ N \subseteq m
      OBVIOUS
    <3>2. m = l
      BY <2>2, <3>1
    <3>3. u.k = "struct"
      BY <1>1, <2>2
    <3> QED
      BY <1>1, <2>2, <3>2, <3>3
  <2> QED
    BY <1>1, <2>1, <2>2
<1>12. Sound(k, a, m, v)
  BY <1>5, <1>7, <1>9, <1>10, <1>11 DEF Sound
<1> QED
  BY <1>12 DEF k, WithCells

LEMMA AddLent ==
  ASSUME NEW h, NEW a, NEW l \in SUBSET DOMAIN h, NEW v, Sound(h, a, l, v),
         NEW new \in Nat \ {0}, new \notin DOMAIN h
  PROVE  Sound(WithCells(h, {new}, v), a, l \cup {new}, v)
<1>1. PICK N, m : N = {new} /\ m = l \cup N
  OBVIOUS
<1>2. IsFiniteSet(N) /\ N \subseteq Nat \ {0} /\ N \cap DOMAIN h = {}
  BY <1>1, FS_Singleton
<1>3. m # l /\ m = l \cup N
  BY <1>1
<1>4. v.k = "struct" => \A c, d \in N : c = d
  BY <1>1
<1>5. Sound(WithCells(h, N, v), a, m, v)
  BY <1>2, <1>3, <1>4, AddCells
<1> QED
  BY <1>1, <1>5

\* A cell of before takes a value that has only new members.
LEMMA PutCell ==
  ASSUME NEW h, NEW k, NEW a, NEW l, NEW v, Sound(k, a, l, v), Extends(h, k), Own(h, k, v),
         NEW c \in DOMAIN h
  PROVE  Sound([k EXCEPT ![c] = v], a, l, v)
<1> DEFINE n == [k EXCEPT ![c] = v]
<1>1. IsStore(k, a) /\ v \in Values(DOMAIN k, DOMAIN a) /\ c \in DOMAIN k
  BY DEF Sound, Extends
<1>2. k = [d \in DOMAIN k |-> k[d]]
  BY <1>1 DEF IsStore
<1>3. /\ DOMAIN n = DOMAIN k /\ n[c] = v
      /\ \A d \in DOMAIN k \ {c} : n[d] = k[d]
      /\ n = [d \in DOMAIN n |-> n[d]]
  BY <1>1, <1>2
<1> HIDE DEF n
<1>4. IsStore(n, a)
  <2>1. \A d \in DOMAIN n : n[d] \in Values(DOMAIN n, DOMAIN a)
    BY <1>1, <1>3 DEF IsStore
  <2>2. n \in [DOMAIN n -> Values(DOMAIN n, DOMAIN a)]
    BY <1>3, <2>1
  <2> QED
    BY <1>1, <1>3, <2>2 DEF IsStore
<1>5. AllValues(n, a) \cup {v} \subseteq AllValues(k, a) \cup {v}
  BY <1>3 DEF AllValues
<1>6. Apart(AllValues(n, a) \cup {v})
  BY <1>5 DEF Sound, Apart
<1>7. \A w \in AllValues(n, a) \cup {v} : MembersOf(w) \cap l = {}
  BY <1>5 DEF Sound
<1>8. Tree(n)
  <2> DEFINE N == DOMAIN k \ DOMAIN h
  <2>1. \A d \in N : MembersOf(k[d]) \subseteq N
    BY <1>1, ValueParts DEF IsStore, Extends
  <2>2. MembersOf(v) \subseteq N
    BY <1>1, ValueParts DEF Own, MembersOf
  <2> SUFFICES ASSUME NEW d \in DOMAIN n
               PROVE  d \notin Owned(n, n[d])
    BY DEF Tree
  <2>3. n[d] \in Values(DOMAIN n, DOMAIN a) /\ k[d] \in Values(DOMAIN k, DOMAIN a)
    BY <1>1, <1>3, <1>4 DEF IsStore
  <2> DEFINE S == Owned(k, k[d])
  <2>4. MembersOf(k[d]) \subseteq S /\ S \subseteq DOMAIN k
        /\ \A x \in S : MembersOf(k[x]) \subseteq S
    BY <1>1, <2>3, OwnedIsClosure
  <2>5. d \notin S
    BY <1>3 DEF Sound, Tree
  <2>6. \A T : MembersOf(n[d]) \subseteq T /\ (\A x \in T \cap DOMAIN n : MembersOf(n[x]) \subseteq T)
                 => Owned(n, n[d]) \subseteq T
    BY <1>4, <2>3, OwnedIsClosure
  <2> HIDE DEF S
  <2>7. \A x \in N : MembersOf(n[x]) \subseteq N
    BY <1>3, <2>1
  <2>8. CASE d = c
    <3>1. Owned(n, n[d]) \subseteq N
      BY <1>3, <2>2, <2>6, <2>7, <2>8
    <3> QED
      BY <2>8, <3>1
  <2>9. CASE d \in N
    <3>1. d # c
      BY <2>9
    <3>2. MembersOf(k[d]) \subseteq N
      BY <2>1, <2>9
    <3> DEFINE T == S \cap N
    <3>3. MembersOf(n[d]) \subseteq T
      BY <1>3, <2>4, <3>1, <3>2
    <3>4. \A x \in T : MembersOf(n[x]) \subseteq T
      BY <1>3, <2>1, <2>4
    <3> HIDE DEF T
    <3>5. Owned(n, n[d]) \subseteq T
      BY <2>6, <3>3, <3>4
    <3> QED
      BY <2>5, <3>5 DEF T
  <2>10. CASE d \in DOMAIN h /\ d # c
    <3> DEFINE T == S \cup N
    <3>1. MembersOf(n[d]) \subseteq T
      BY <1>3, <2>4, <2>10
    <3>2. \A x \in T \cap DOMAIN n : MembersOf(n[x]) \subseteq T
      <4> SUFFICES ASSUME NEW x \in T, x \in DOMAIN n
                   PROVE  MembersOf(n[x]) \subseteq T
        OBVIOUS
      <4>1. CASE x = c
        BY <1>3, <2>2, <4>1
      <4>2. CASE x # c
        <5>1. n[x] = k[x]
          BY <1>3, <4>2
        <5> QED
          BY <2>1, <2>4, <5>1
      <4> QED
        BY <4>1, <4>2
    <3>3. d \notin T
      BY <2>5, <2>10
    <3> HIDE DEF T
    <3>4. Owned(n, n[d]) \subseteq T
      BY <2>6, <3>1, <3>2
    <3> QED
      BY <3>3, <3>4
  <2> QED
    BY <1>3, <2>8, <2>9, <2>10
<1>9. Single(n, DOMAIN n \ l)
  <2> SUFFICES ASSUME NEW x \in DOMAIN n \ l, NEW y \in DOMAIN n \ l,
                      n[x].k = "struct", n[x] = n[y]
               PROVE  x = y
    BY DEF Single
  <2>1. CASE x # c /\ y # c
    BY <1>3, <2>1 DEF Sound, Single
  <2>2. CASE x = c /\ y # c
    BY <1>3, <2>2 DEF Own
  <2>3. CASE x # c /\ y = c
    BY <1>3, <2>3 DEF Own
  <2> QED
    BY <2>1, <2>2, <2>3
<1>10. v \in Values(DOMAIN n, DOMAIN a)
  BY <1>1, <1>3
<1>11. Sound(n, a, l, v)
  BY <1>4, <1>6, <1>7, <1>8, <1>9, <1>10 DEF Sound
<1> QED
  BY <1>11 DEF n

\* An array, old or new, takes the value in hand, which is not copied.
LEMMA PutElement ==
  ASSUME NEW h, NEW a, NEW l, NEW v, Sound(h, a, l, v),
         NEW n, n = [b \in DOMAIN n |-> n[b]],
         IsFiniteSet(DOMAIN n), DOMAIN n \subseteq Nat \ {0}, DOMAIN a \subseteq DOMAIN n,
         \A b \in DOMAIN n : n[b] = v \/ (b \in DOMAIN a /\ n[b] = a[b]),
         NEW w \in {Nil} \cup {Arr(b) : b \in DOMAIN n}
  PROVE  Sound(h, n, l, w)
<1>1. IsStore(h, a) /\ v \in Values(DOMAIN h, DOMAIN a)
  BY DEF Sound
<1>2. Values(DOMAIN h, DOMAIN a) \subseteq Values(DOMAIN h, DOMAIN n)
  BY ValuesGrow
<1>3. IsStore(h, n)
  <2>1. \A b \in DOMAIN n : n[b] \in Values(DOMAIN h, DOMAIN n)
    BY <1>1, <1>2 DEF IsStore
  <2>2. n \in [DOMAIN n -> Values(DOMAIN h, DOMAIN n)]
    BY <2>1
  <2>3. h \in [DOMAIN h -> Values(DOMAIN h, DOMAIN n)]
    BY <1>1, <1>2 DEF IsStore
  <2> QED
    BY <1>1, <2>2, <2>3 DEF IsStore
<1>4. AllValues(h, n) \subseteq AllValues(h, a) \cup {v}
  BY DEF AllValues
<1>5. w \in Values(DOMAIN h, DOMAIN n) /\ w.k # "struct" /\ MembersOf(w) = {}
  BY DEF Values, Arr, Nil, MembersOf
<1>6. Apart(AllValues(h, n) \cup {w})
  BY <1>4, <1>5 DEF Sound, Apart
<1>7. \A u \in AllValues(h, n) \cup {w} : MembersOf(u) \cap l = {}
  BY <1>4, <1>5 DEF Sound
<1> QED
  BY <1>3, <1>5, <1>6, <1>7 DEF Sound

-----------------------------------------------------------------------------
(* Expressions *)

Members(V) == UNION {MembersOf(v) : v \in V}

\* What the outcome e of an expression is to the cells h and arrays a that it was
\* evaluated with.
Grown(h, a, l, e) ==
  /\ e = [val |-> e.val, heap |-> e.heap, arrs |-> e.arrs, fresh |-> e.fresh]
  /\ Sound(e.heap, e.arrs, l, e.val)
  /\ Extends(h, e.heap) /\ DOMAIN a \subseteq DOMAIN e.arrs
  /\ \A w \in AllValues(e.heap, e.arrs) \cup {e.val} :
       MembersOf(w) \cap DOMAIN h \subseteq Members(AllValues(h, a))
  /\ e.fresh => Own(h, e.heap, e.val)

LEMMA ExtendsSelf ==
  ASSUME NEW h
  PROVE  Extends(h, h)
BY DEF Extends

\* What a let, an assignment or a field takes: type.c:334.
LEMMA CopyGrown ==
  ASSUME NEW h, NEW a, NEW l \in SUBSET DOMAIN h, NEW e, Grown(h, a, l, e)
  PROVE  Grown(h, a, l, Copy(e)) /\ Own(h, Copy(e).heap, Copy(e).val) /\ Copy(e).arrs = e.arrs
<1>1. CASE e.fresh
  BY <1>1 DEF Copy, Grown
<1>2. CASE ~ e.fresh
  <2> DEFINE c == CopyValue(e.heap, e.val)
             k == c.heap
             v == c.val
  <2>1. Sound(e.heap, e.arrs, l, e.val) /\ Extends(h, e.heap)
    BY DEF Grown
  <2>2. l \in SUBSET DOMAIN e.heap
    BY <2>1 DEF Extends
  <2>3. /\ Sound(k, e.arrs, l, v)
        /\ Extends(e.heap, k)
        /\ MembersOf(v) \cap DOMAIN e.heap = {}
        /\ Own(e.heap, k, v)
    BY <2>1, <2>2, CopyOwn
  <2>4. Copy(e) = [e EXCEPT !.val = c.val, !.heap = c.heap]
    BY <1>2 DEF Copy
  <2> HIDE DEF c
  <2>5. Copy(e) = [val |-> v, heap |-> k, arrs |-> e.arrs, fresh |-> e.fresh]
    BY <2>4 DEF Grown
  <2>6. /\ Copy(e).val = v /\ Copy(e).heap = k /\ Copy(e).arrs = e.arrs
        /\ Copy(e).fresh = e.fresh
    BY <2>5
  <2> HIDE DEF k, v
  <2>7. Extends(h, k)
    BY <2>1, <2>3 DEF Extends
  <2>8. Own(h, k, v)
    BY <2>1, <2>3 DEF Own, Extends
  <2>9. \A w \in AllValues(k, e.arrs) \cup {v} :
          MembersOf(w) \cap DOMAIN h \subseteq Members(AllValues(h, a))
    <3> SUFFICES ASSUME NEW w \in AllValues(k, e.arrs) \cup {v}
                 PROVE  MembersOf(w) \cap DOMAIN h \subseteq Members(AllValues(h, a))
      OBVIOUS
    <3>1. w \in AllValues(e.heap, e.arrs) \/ MembersOf(w) \cap DOMAIN e.heap = {}
      BY <2>3 DEF AllValues, Extends
    <3>2. DOMAIN h \subseteq DOMAIN e.heap
      BY <2>1 DEF Extends
    <3> QED
      BY <3>1, <3>2 DEF Grown
  <2> QED
    BY <1>2, <2>3, <2>5, <2>6, <2>7, <2>8, <2>9 DEF Grown
<1> QED
  BY <1>1, <1>2

\* A copy in a new cell.
LEMMA StoredSound ==
  ASSUME NEW h, NEW a, NEW l \in SUBSET DOMAIN h, NEW e, Grown(h, a, l, e)
  PROVE  LET s == Stored(e)
         IN  /\ s.cell \in DOMAIN s.heap /\ s.cell \notin DOMAIN h
             /\ DOMAIN h \subseteq DOMAIN s.heap
             /\ \A c \in DOMAIN h : s.heap[c] = h[c]
             /\ Sound(s.heap, e.arrs, l, Nil)
             /\ \A w \in AllValues(s.heap, e.arrs) :
                  MembersOf(w) \cap (DOMAIN h \cup {s.cell}) \subseteq Members(AllValues(h, a))
<1> DEFINE c == Copy(e)
           new == New(DOMAIN c.heap)
           k == [d \in DOMAIN c.heap \cup {new} |-> IF d \in DOMAIN c.heap THEN c.heap[d] ELSE c.val]
<1>1. Grown(h, a, l, c) /\ Own(h, c.heap, c.val) /\ c.arrs = e.arrs
  BY CopyGrown
<1>2. Stored(e) = [cell |-> new, heap |-> [d \in DOMAIN c.heap \cup {new} |->
                                            IF d = new THEN c.val ELSE c.heap[d]]]
  BY DEF Stored
<1> HIDE DEF c
<1>3. Sound(c.heap, e.arrs, l, c.val) /\ Extends(h, c.heap)
  BY <1>1 DEF Grown
<1>4. DOMAIN c.heap \in SUBSET Nat /\ IsFiniteSet(DOMAIN c.heap)
  BY <1>3 DEF Sound, IsStore
<1>5. new \in Nat \ {0} /\ new \notin DOMAIN c.heap
  BY <1>4, NewIsNew
<1> HIDE DEF new
<1>6. Stored(e) = [cell |-> new, heap |-> k]
  BY <1>2, <1>5
<1>7. Sound(k, e.arrs, l, c.val)
  <2>1. l \in SUBSET DOMAIN c.heap
    BY <1>3 DEF Extends
  <2>2. IsFiniteSet({new}) /\ {new} \subseteq Nat \ {0} /\ {new} \cap DOMAIN c.heap = {}
    BY <1>5, FS_Singleton
  <2>3. c.val.k = "struct" => \A d \in DOMAIN c.heap : c.heap[d] # c.val
    BY <1>1 DEF Own
  <2>4. k = WithCells(c.heap, {new}, c.val)
    BY DEF WithCells
  <2> HIDE DEF k
  <2> QED
    BY <1>3, <2>1, <2>2, <2>3, <2>4, AddCells
<1>8. /\ DOMAIN k = DOMAIN c.heap \cup {new}
      /\ \A d \in DOMAIN c.heap : k[d] = c.heap[d]
      /\ k[new] = c.val
  BY <1>5
<1> HIDE DEF k
<1>9. Sound(k, e.arrs, l, Nil)
  <2>1. Nil \in Values(DOMAIN k, DOMAIN e.arrs) /\ Nil.k # "struct"
    BY NilIsValue
  <2> QED
    BY <1>7, <2>1, SoundPart
<1>10. \A w \in AllValues(k, e.arrs) :
         MembersOf(w) \cap (DOMAIN h \cup {new}) \subseteq Members(AllValues(h, a))
  <2> SUFFICES ASSUME NEW w \in AllValues(k, e.arrs)
               PROVE  MembersOf(w) \cap (DOMAIN h \cup {new}) \subseteq Members(AllValues(h, a))
    OBVIOUS
  <2>1. w \in AllValues(c.heap, c.arrs) \cup {c.val}
    BY <1>1, <1>8 DEF AllValues
  <2>2. MembersOf(w) \subseteq DOMAIN c.heap
    <3>1. w \in Values(DOMAIN c.heap, DOMAIN e.arrs)
      BY <1>1, <1>3, <2>1, IsStoreValues DEF Sound
    <3> QED
      BY <3>1, ValueParts
  <2> QED
    BY <1>1, <1>5, <2>1, <2>2 DEF Grown
<1>11. Stored(e).cell = new /\ Stored(e).heap = k
  BY <1>6
<1> QED
  BY <1>3, <1>5, <1>8, <1>9, <1>10, <1>11 DEF Extends

\* The value of a literal, a name, a member or an element.
LEMMA OutcomeGrown ==
  ASSUME NEW h, NEW a, NEW l, NEW v, Sound(h, a, l, v),
         v \in AllValues(h, a) \/ v.k # "struct"
  PROVE  Grown(h, a, l, [val |-> v, heap |-> h, arrs |-> a, fresh |-> FALSE])
<1>1. MembersOf(v) \subseteq Members(AllValues(h, a))
  BY DEF Members, MembersOf
<1>2. \A w \in AllValues(h, a) : MembersOf(w) \subseteq Members(AllValues(h, a))
  BY DEF Members
<1> QED
  BY <1>1, <1>2, ExtendsSelf DEF Grown

\* execute_arr_expr
LEMMA ArrGrown ==
  ASSUME NEW h, NEW a, NEW l, NEW v, Sound(h, a, l, v),
         v \in AllValues(h, a) \/ v.k # "struct"
  PROVE  LET b == New(DOMAIN a)
         IN  Grown(h, a, l, [val |-> Arr(b), heap |-> h, fresh |-> FALSE,
                             arrs |-> [d \in DOMAIN a \cup {b} |-> IF d = b THEN v ELSE a[d]]])
<1> DEFINE b == New(DOMAIN a)
           n == [d \in DOMAIN a \cup {b} |-> IF d = b THEN v ELSE a[d]]
<1>1. IsFiniteSet(DOMAIN a) /\ DOMAIN a \subseteq Nat \ {0}
  BY DEF Sound, IsStore
<1>2. b \in Nat \ {0} /\ b \notin DOMAIN a
  BY <1>1, NewIsNew
<1> HIDE DEF b
<1>3. DOMAIN n = DOMAIN a \cup {b} /\ n = [d \in DOMAIN n |-> n[d]]
      /\ \A d \in DOMAIN n : n[d] = v \/ (d \in DOMAIN a /\ n[d] = a[d])
  OBVIOUS
<1>4. IsFiniteSet(DOMAIN n) /\ DOMAIN n \subseteq Nat \ {0} /\ DOMAIN a \subseteq DOMAIN n
  BY <1>1, <1>2, <1>3, FS_AddElement
<1> HIDE DEF n
<1>5. Sound(h, n, l, Arr(b))
  <2>1. Arr(b) \in {Nil} \cup {Arr(d) : d \in DOMAIN n}
    BY <1>3
  <2> QED
    BY <1>3, <1>4, <2>1, PutElement
<1>6. \A w \in AllValues(h, n) \cup {Arr(b)} : MembersOf(w) \subseteq Members(AllValues(h, a))
  BY <1>3 DEF AllValues, Members, MembersOf, Arr
<1>7. Grown(h, a, l, [val |-> Arr(b), heap |-> h, fresh |-> FALSE, arrs |-> n])
  BY <1>4, <1>5, <1>6, ExtendsSelf DEF Grown
<1> QED
  BY <1>7 DEF b, n

LEMMA PositionsExist ==
  \E pos \in [Fields -> 1..Cardinality(Fields)] : \A g, h \in Fields : pos[g] = pos[h] => g = h
<1> DEFINE n == Cardinality(Fields)
<1>1. ExistsBijection(1..n, Fields)
  BY FieldsAssumption, FS_CardinalityType
<1>2. PICK b \in Bijection(1..n, Fields) : TRUE
  BY <1>1 DEF ExistsBijection
<1> HIDE DEF n
<1>3. b \in [1..n -> Fields] /\ \A f \in Fields : \E i \in 1..n : b[i] = f
  BY <1>2 DEF Bijection, Surjection
<1> DEFINE pos == [f \in Fields |-> CHOOSE i \in 1..n : b[i] = f]
<1>4. \A f \in Fields : pos[f] \in 1..n /\ b[pos[f]] = f
  BY <1>3
<1>5. pos \in [Fields -> 1..n]
  BY <1>4
<1> HIDE DEF pos
<1>6. \A g, h \in Fields : pos[g] = pos[h] => g = h
  BY <1>4
<1> QED
  BY <1>5, <1>6 DEF n

\* The numbers of new members.
LEMMA NewMembers ==
  ASSUME NEW h, IsFiniteSet(DOMAIN h), DOMAIN h \subseteq Nat \ {0},
         NEW pos \in [Fields -> 1..Cardinality(Fields)],
         \A g, i \in Fields : pos[g] = pos[i] => g = i,
         NEW new, new = [g \in Fields |-> Highest(DOMAIN h) + pos[g]]
  PROVE  /\ new \in [Fields -> Nat \ {0}]
         /\ \A g \in Fields : new[g] \notin DOMAIN h
         /\ \A g, i \in Fields : new[g] = new[i] => g = i
<1> DEFINE top == Highest(DOMAIN h)
<1>2. top \in Nat /\ \A c \in DOMAIN h : c <= top
  BY HighestTops
<1>3. Cardinality(Fields) \in Nat
  BY FieldsAssumption, FS_CardinalityType
<1>4. \A g \in Fields : new[g] = top + pos[g] /\ pos[g] \in 1..Cardinality(Fields)
  OBVIOUS
<1> HIDE DEF top
<1>5. \A g \in Fields : new[g] \in Nat \ {0} /\ new[g] \notin DOMAIN h
  <2> SUFFICES ASSUME NEW g \in Fields
               PROVE  new[g] \in Nat \ {0} /\ new[g] \notin DOMAIN h
    OBVIOUS
  <2>1. new[g] = top + pos[g] /\ pos[g] \in Nat /\ pos[g] > 0
    BY <1>3, <1>4
  <2>2. new[g] \in Nat /\ new[g] > top
    BY <1>2, <2>1
  <2> QED
    BY <1>2, <2>2
<1>6. \A g, i \in Fields : new[g] = new[i] => g = i
  <2> SUFFICES ASSUME NEW g \in Fields, NEW i \in Fields, new[g] = new[i]
               PROVE  g = i
    OBVIOUS
  <2>1. pos[g] \in Int /\ pos[i] \in Int
    BY <1>3, <1>4
  <2>2. top + pos[g] = top + pos[i]
    BY <1>4
  <2>3. pos[g] = pos[i]
    BY <1>2, <2>1, <2>2
  <2> QED
    BY <2>3
<1>7. new \in [Fields -> Nat \ {0}]
  BY <1>5
<1> QED
  BY <1>5, <1>6, <1>7

\* execute_struct_expr: new members, and a copy of what one of them is given.
Defaults(h, new) == [c \in DOMAIN h \cup {new[g] : g \in Fields} |->
                       IF c \in DOMAIN h THEN h[c] ELSE Nil]
Built(h, a, new, f, v) ==
  LET field == CopyValue(Defaults(h, new), v)
  IN  [val |-> Struct(new), arrs |-> a, fresh |-> TRUE,
       heap |-> [field.heap EXCEPT ![new[f]] = field.val]]

LEMMA StructGrown ==
  ASSUME NEW h, NEW a, NEW l \in SUBSET DOMAIN h, NEW v, Sound(h, a, l, v),
         v \in AllValues(h, a) \/ v.k # "struct", NEW f \in Fields,
         NEW new \in [Fields -> Nat \ {0}],
         \A g \in Fields : new[g] \notin DOMAIN h,
         \A g, i \in Fields : new[g] = new[i] => g = i
  PROVE  Grown(h, a, l, Built(h, a, new, f, v))
<1> DEFINE N == {new[g] : g \in Fields}
           alloc == Defaults(h, new)
           field == CopyValue(alloc, v)
           k == field.heap
           n == [k EXCEPT ![new[f]] = field.val]
<1>1. IsStore(h, a) /\ v \in Values(DOMAIN h, DOMAIN a)
  BY DEF Sound
<1>0. /\ alloc = [c \in DOMAIN h \cup N |-> IF c \in DOMAIN h THEN h[c] ELSE Nil]
      /\ field = CopyValue(alloc, v)
  BY DEF Defaults
<1> HIDE DEF alloc, field
<1>5. \A g \in Fields : new[g] \in Nat \ {0} /\ new[g] \notin DOMAIN h
  OBVIOUS
<1>6. \A g, i \in Fields : new[g] = new[i] => g = i
  OBVIOUS
<1>7. new \in Surjection(Fields, N)
  BY DEF Surjection
<1>8. IsFiniteSet(N)
  BY <1>7, FieldsAssumption, FS_Surjection
<1>9. new \in [Fields -> N] /\ DOMAIN new = Fields
  OBVIOUS
<1>10. N \subseteq Nat \ {0} /\ N \cap DOMAIN h = {}
  BY <1>5
<1>11. new[f] \in N
  OBVIOUS
<1>12. Sound(alloc, a, l, v)
  <2>1. Nil.k # "struct"
    BY NilIsValue
  <2>2. alloc = WithCells(h, N, Nil)
    BY <1>0 DEF WithCells
  <2> QED
    BY <1>8, <1>10, <2>1, <2>2, AddCells
<1>13. /\ DOMAIN alloc = DOMAIN h \cup N
       /\ \A c \in DOMAIN h : alloc[c] = h[c]
       /\ \A c \in N : alloc[c] = Nil
  BY <1>0, <1>10
<1>14. l \in SUBSET DOMAIN alloc
  BY <1>13
<1>15. /\ Sound(k, a, l, field.val)
       /\ Extends(alloc, k)
       /\ MembersOf(field.val) \cap DOMAIN alloc = {}
       /\ Own(alloc, k, field.val)
  BY <1>0, <1>12, <1>14, CopyOwn
<1>16. new[f] \in DOMAIN alloc
  BY <1>11, <1>13
<1>17. Sound(n, a, l, field.val)
  BY <1>15, <1>16, PutCell
<1>18. new[f] \in DOMAIN k /\ k = [c \in DOMAIN k |-> k[c]]
  BY <1>15, <1>16 DEF Extends, Sound, IsStore
<1>19. /\ DOMAIN n = DOMAIN k /\ n[new[f]] = field.val
       /\ \A c \in DOMAIN k \ {new[f]} : n[c] = k[c]
  BY <1>18
<1> HIDE DEF k, n
<1>20. DOMAIN h \subseteq DOMAIN n /\ N \subseteq DOMAIN n
  BY <1>13, <1>15, <1>19 DEF Extends
\* No value has a new cell as a member, and the members in h are those of h.
<1>21. \A w \in AllValues(n, a) : /\ MembersOf(w) \cap N = {}
                                  /\ MembersOf(w) \cap DOMAIN h \subseteq Members(AllValues(h, a))
  <2>1. \A w \in AllValues(h, a) : MembersOf(w) \subseteq DOMAIN h /\ MembersOf(w) \subseteq Members(AllValues(h, a))
    BY <1>1, IsStoreValues, ValueParts DEF Members
  <2> SUFFICES ASSUME NEW w \in AllValues(n, a)
               PROVE  /\ MembersOf(w) \cap N = {}
                      /\ MembersOf(w) \cap DOMAIN h \subseteq Members(AllValues(h, a))
    OBVIOUS
  <2>2. \/ w \in AllValues(h, a)
        \/ w = Nil
        \/ MembersOf(w) \cap DOMAIN alloc = {}
    <3>1. CASE \E b \in DOMAIN a : w = a[b]
      BY <3>1 DEF AllValues
    <3>2. CASE \E c \in DOMAIN n : w = n[c]
      <4>1. PICK c \in DOMAIN n : w = n[c]
        BY <3>2
      <4>2. CASE c = new[f]
        BY <1>15, <1>19, <4>1, <4>2
      <4>3. CASE c # new[f]
        <5>1. w = k[c] /\ c \in DOMAIN k
          BY <1>19, <4>1, <4>3
        <5>2. CASE c \in DOMAIN alloc
          <6>1. w = alloc[c]
            BY <1>15, <5>1, <5>2 DEF Extends
          <6> QED
            BY <1>13, <5>2, <6>1 DEF AllValues
        <5>3. CASE c \notin DOMAIN alloc
          BY <1>15, <5>1, <5>3 DEF Extends
        <5> QED
          BY <5>2, <5>3
      <4> QED
        BY <4>2, <4>3
    <3> QED
      BY <3>1, <3>2 DEF AllValues
  <2>3. MembersOf(Nil) = {}
    BY NilIsValue
  <2> QED
    BY <1>10, <1>13, <2>1, <2>2, <2>3
<1>22. /\ Struct(new).k = "struct" /\ Struct(new).m = new
       /\ MembersOf(Struct(new)) = N
  BY DEF Struct, MembersOf, N
<1> DEFINE s == Struct(new)
<1>23. s \in Values(DOMAIN n, DOMAIN a)
  <2>1. new \in [Fields -> DOMAIN n]
    BY <1>9, <1>20
  <2> QED
    BY <2>1 DEF Values
<1> HIDE DEF s, N
<1>24. Apart(AllValues(n, a) \cup {s})
  <2> SUFFICES ASSUME NEW w \in AllValues(n, a) \cup {s}, NEW u \in AllValues(n, a) \cup {s},
                      NEW x \in Fields, NEW y \in Fields,
                      w.k = "struct", u.k = "struct", w.m[x] = u.m[y]
               PROVE  w = u /\ x = y
    BY DEF Apart
  <2>1. w.m[x] \in MembersOf(w) /\ w.m[x] \in MembersOf(u)
    BY DEF MembersOf
  <2>2. CASE w \in AllValues(n, a) /\ u \in AllValues(n, a)
    BY <1>17, <2>2 DEF Sound, Apart
  <2>3. CASE w = s /\ u = s
    BY <1>6, <1>22, <2>3 DEF s
  <2>4. CASE (w = s /\ u \in AllValues(n, a)) \/ (u = s /\ w \in AllValues(n, a))
    BY <1>21, <1>22, <2>1, <2>4 DEF s
  <2> QED
    BY <2>2, <2>3, <2>4
<1>25. Sound(n, a, l, s)
  <2>1. N \cap l = {}
    BY <1>10
  <2>2. \A w \in AllValues(n, a) \cup {s} : MembersOf(w) \cap l = {}
    BY <1>17, <1>22, <2>1 DEF Sound, s
  <2> QED
    BY <1>17, <1>23, <1>24, <2>2 DEF Sound
<1>26. Extends(h, n)
  <2>1. \A c \in DOMAIN h : n[c] = h[c]
    <3> SUFFICES ASSUME NEW c \in DOMAIN h
                 PROVE  n[c] = h[c]
      OBVIOUS
    <3>1. c # new[f]
      BY <1>10, <1>11
    <3>2. c \in DOMAIN alloc /\ alloc[c] = h[c]
      BY <1>13
    <3> QED
      BY <1>15, <1>19, <3>1, <3>2 DEF Extends
  <2>2. \A c \in DOMAIN n \ DOMAIN h : MembersOf(n[c]) \cap DOMAIN h = {}
    <3> SUFFICES ASSUME NEW c \in DOMAIN n \ DOMAIN h
                 PROVE  MembersOf(n[c]) \cap DOMAIN h = {}
      OBVIOUS
    <3>1. CASE c = new[f]
      BY <1>13, <1>15, <1>19, <3>1
    <3>2. CASE c # new[f] /\ c \in DOMAIN alloc
      <4>1. n[c] = Nil
        BY <1>13, <1>15, <1>19, <3>2 DEF Extends
      <4> QED
        BY <4>1, NilIsValue
    <3>3. CASE c # new[f] /\ c \notin DOMAIN alloc
      BY <1>13, <1>15, <1>19, <3>3 DEF Extends
    <3> QED
      BY <3>1, <3>2, <3>3
  <2> QED
    BY <1>20, <2>1, <2>2 DEF Extends
<1>27. Own(h, n, s)
  <2> SUFFICES ASSUME NEW c \in DOMAIN n, n[c] = s
               PROVE  FALSE
    BY <1>10, <1>22 DEF Own, s
  <2>1. n[c] \in AllValues(n, a)
    BY DEF AllValues
  <2>2. MembersOf(s) \cap N = {}
    BY <1>21, <2>1
  <2> QED
    BY <1>11, <1>22, <2>2 DEF s
<1>28. \A w \in AllValues(n, a) \cup {s} :
         MembersOf(w) \cap DOMAIN h \subseteq Members(AllValues(h, a))
  BY <1>10, <1>21, <1>22 DEF s
<1> DEFINE e == [val |-> s, arrs |-> a, fresh |-> TRUE, heap |-> n]
<1>29. Grown(h, a, l, e)
  BY <1>25, <1>26, <1>27, <1>28 DEF Grown
<1> QED
  BY <1>29 DEF s, n, k, field, alloc, Built


-----------------------------------------------------------------------------
(* What is in use *)

LEMMA InUseIsClosed ==
  ASSUME NEW h, NEW a, IsStore(h, a), NEW own \in SUBSET DOMAIN h
  PROVE  LET used == InUse(h, a, own)
         IN  /\ \A c \in own : <<"c", c>> \in used
             /\ used \subseteq ({"c"} \X DOMAIN h) \cup ({"a"} \X DOMAIN a)
             /\ \A c \in DOMAIN h : <<"c", c>> \in used =>
                  /\ \A d \in CellsOf(h[c]) : <<"c", d>> \in used
                  /\ \A b \in ArraysOf(h[c]) : <<"a", b>> \in used
             /\ \A e \in DOMAIN a : <<"a", e>> \in used =>
                  /\ \A d \in CellsOf(a[e]) : <<"c", d>> \in used
                  /\ \A b \in ArraysOf(a[e]) : <<"a", b>> \in used
<1> DEFINE A == ({"c"} \X DOMAIN h) \cup ({"a"} \X DOMAIN a)
           lead(v) == {<<"c", c>> : c \in CellsOf(v)} \cup {<<"a", b>> : b \in ArraysOf(v)}
           next == [p \in A |-> lead(IF p[1] = "c" THEN h[p[2]] ELSE a[p[2]])]
           S == {<<"c", c>> : c \in own}
           used == Reached(next, S)
<1>1. InUse(h, a, own) = used
  BY DEF InUse
<1>2. \A v \in Values(DOMAIN h, DOMAIN a) : lead(v) \subseteq A
  <2> SUFFICES ASSUME NEW v \in Values(DOMAIN h, DOMAIN a)
               PROVE  lead(v) \subseteq A
    OBVIOUS
  <2>1. CellsOf(v) \subseteq DOMAIN h /\ ArraysOf(v) \subseteq DOMAIN a
    BY ValueParts
  <2> QED
    BY <2>1
<1>3. \A p \in A : next[p] = lead(IF p[1] = "c" THEN h[p[2]] ELSE a[p[2]])
  OBVIOUS
<1>4. \A c \in DOMAIN h : <<"c", c>> \in A /\ next[<<"c", c>>] = lead(h[c])
  BY <1>3
<1>5. \A b \in DOMAIN a : <<"a", b>> \in A /\ next[<<"a", b>>] = lead(a[b])
  BY <1>3
<1>6. \A p \in A : \/ \E c \in DOMAIN h : p = <<"c", c>>
                   \/ \E b \in DOMAIN a : p = <<"a", b>>
  OBVIOUS
<1>7. \A p \in A : next[p] \subseteq A
  <2> SUFFICES ASSUME NEW p \in A
               PROVE  next[p] \subseteq A
    OBVIOUS
  <2>1. CASE \E c \in DOMAIN h : p = <<"c", c>>
    BY <1>2, <1>4, <2>1 DEF IsStore
  <2>2. CASE \E b \in DOMAIN a : p = <<"a", b>>
    BY <1>2, <1>5, <2>2 DEF IsStore
  <2> QED
    BY <1>6, <2>1, <2>2
<1>8. DOMAIN next = A /\ next = [p \in A |-> next[p]]
  OBVIOUS
<1>9. S \in SUBSET A
  OBVIOUS
<1>10. IsFiniteSet(A)
  <2>1. IsFiniteSet({"c"}) /\ IsFiniteSet({"a"})
    BY FS_Singleton
  <2>2. IsFiniteSet({"c"} \X DOMAIN h) /\ IsFiniteSet({"a"} \X DOMAIN a)
    BY <2>1, FS_Product DEF IsStore
  <2> QED
    BY <2>2, FS_Union
<1>11. \A c \in own : <<"c", c>> \in S
  OBVIOUS
<1> HIDE DEF next, A, S
<1>12. next \in [A -> SUBSET A]
  BY <1>7, <1>8
<1>13. S \subseteq used /\ used \subseteq A /\ \A p \in used : next[p] \subseteq used
  BY <1>9, <1>10, <1>12, ReachedIsClosure
<1> HIDE DEF used
<1>14. \A c \in DOMAIN h : <<"c", c>> \in used => lead(h[c]) \subseteq used
  BY <1>4, <1>13
<1>15. \A b \in DOMAIN a : <<"a", b>> \in used => lead(a[b]) \subseteq used
  BY <1>5, <1>13
<1> QED
  BY <1>1, <1>11, <1>13, <1>14, <1>15 DEF A

\* The cells and arrays that those in own lead to.
UsedCells(h, a, own) == {c \in DOMAIN h : <<"c", c>> \in InUse(h, a, own)}
UsedArrs(h, a, own) == {b \in DOMAIN a : <<"a", b>> \in InUse(h, a, own)}

\* A step leaves what the contexts lead to, and that is all they lead to.
LEMMA SettledSound ==
  ASSUME NEW h, NEW a, NEW l \in SUBSET DOMAIN h, NEW v, Sound(h, a, l, v),
         NEW own \in SUBSET DOMAIN h,
         NEW cells, cells = UsedCells(h, a, own), NEW B, B = UsedArrs(h, a, own)
  PROVE  /\ own \subseteq cells
         /\ DOMAIN Restrict(h, cells) = cells
         /\ Sound(Restrict(h, cells), Restrict(a, B), l \cap cells, Nil)
         /\ AllValues(Restrict(h, cells), Restrict(a, B)) \subseteq AllValues(h, a)
<1> DEFINE k == Restrict(h, cells)
           n == Restrict(a, B)
<1>1. IsStore(h, a)
  BY DEF Sound
<1>2. /\ own \subseteq cells
      /\ \A c \in cells : CellsOf(h[c]) \subseteq cells /\ ArraysOf(h[c]) \subseteq B
      /\ \A b \in B : CellsOf(a[b]) \subseteq cells /\ ArraysOf(a[b]) \subseteq B
  <2> DEFINE used == InUse(h, a, own)
  <2>1. /\ \A c \in own : <<"c", c>> \in used
        /\ \A c \in DOMAIN h : <<"c", c>> \in used =>
             /\ \A d \in CellsOf(h[c]) : <<"c", d>> \in used
             /\ \A b \in ArraysOf(h[c]) : <<"a", b>> \in used
        /\ \A e \in DOMAIN a : <<"a", e>> \in used =>
             /\ \A d \in CellsOf(a[e]) : <<"c", d>> \in used
             /\ \A b \in ArraysOf(a[e]) : <<"a", b>> \in used
    BY <1>1, InUseIsClosed
  <2>2. \A w \in AllValues(h, a) : CellsOf(w) \subseteq DOMAIN h /\ ArraysOf(w) \subseteq DOMAIN a
    BY <1>1, IsStoreValues, ValueParts
  <2> HIDE DEF used
  <2>3. cells = {c \in DOMAIN h : <<"c", c>> \in used} /\ B = {b \in DOMAIN a : <<"a", b>> \in used}
    BY DEF used, UsedCells, UsedArrs
  <2>4. \A c \in cells : CellsOf(h[c]) \subseteq cells /\ ArraysOf(h[c]) \subseteq B
    BY <2>1, <2>2, <2>3 DEF AllValues
  <2>5. \A b \in B : CellsOf(a[b]) \subseteq cells /\ ArraysOf(a[b]) \subseteq B
    BY <2>1, <2>2, <2>3 DEF AllValues
  <2> QED
    BY <2>1, <2>3, <2>4, <2>5
<1>3. cells \subseteq DOMAIN h /\ B \subseteq DOMAIN a
  BY DEF UsedCells, UsedArrs
<1>4. DOMAIN k = cells /\ DOMAIN n = B
      /\ (\A c \in cells : k[c] = h[c]) /\ (\A b \in B : n[b] = a[b])
      /\ k = [c \in cells |-> k[c]] /\ n = [b \in B |-> n[b]]
  BY DEF Restrict
<1> HIDE DEF k, n
<1>5. IsStore(k, n)
  <2>1. \A c \in cells : k[c] \in Values(cells, B)
    BY <1>1, <1>2, <1>3, <1>4, ValueOver DEF IsStore
  <2>2. \A b \in B : n[b] \in Values(cells, B)
    BY <1>1, <1>2, <1>3, <1>4, ValueOver DEF IsStore
  <2>3. IsFiniteSet(cells) /\ IsFiniteSet(B)
    BY <1>1, <1>3, FS_Subset DEF IsStore
  <2>4. k \in [cells -> Values(cells, B)] /\ n \in [B -> Values(cells, B)]
    BY <1>4, <2>1, <2>2
  <2> QED
    BY <1>1, <1>3, <1>4, <2>3, <2>4 DEF IsStore
<1>6. AllValues(k, n) \subseteq AllValues(h, a)
  BY <1>3, <1>4 DEF AllValues
<1>7. Nil.k # "struct" /\ MembersOf(Nil) = {} /\ Nil \in Values(DOMAIN k, DOMAIN n)
  BY NilIsValue
<1>8. Apart(AllValues(k, n) \cup {Nil})
  BY <1>6, <1>7 DEF Sound, Apart
<1>9. \A w \in AllValues(k, n) \cup {Nil} : MembersOf(w) \cap (l \cap cells) = {}
  BY <1>6, <1>7 DEF Sound
<1>10. Single(k, DOMAIN k \ (l \cap cells))
  BY <1>3, <1>4 DEF Sound, Single
<1>11. Tree(k)
  <2> SUFFICES ASSUME NEW c \in cells
               PROVE  c \notin Owned(k, k[c])
    BY <1>4 DEF Tree
  <2>1. h[c] \in Values(DOMAIN h, DOMAIN a) /\ k[c] \in Values(DOMAIN k, DOMAIN n)
    BY <1>1, <1>3, <1>4, <1>5 DEF IsStore
  <2> DEFINE T == Owned(h, h[c])
  <2>2. MembersOf(h[c]) \subseteq T /\ \A d \in T : MembersOf(h[d]) \subseteq T
    BY <1>1, <2>1, OwnedIsClosure
  <2>3. c \notin T
    BY <1>3 DEF Sound, Tree
  <2> HIDE DEF T
  <2>4. MembersOf(k[c]) \subseteq T /\ \A d \in T \cap DOMAIN k : MembersOf(k[d]) \subseteq T
    BY <1>4, <2>2
  <2>5. Owned(k, k[c]) \subseteq T
    BY <1>5, <2>1, <2>4, OwnedIsClosure
  <2> QED
    BY <2>3, <2>5
<1>12. Sound(k, n, l \cap cells, Nil)
  BY <1>5, <1>7, <1>8, <1>9, <1>10, <1>11 DEF Sound
<1> QED
  BY <1>2, <1>4, <1>6, <1>12 DEF k, n

\* Contexts whose cells are in C are contexts over C.
LEMMA StackOver ==
  ASSUME NEW st, NEW C, NEW D, StackOK(st, C),
         \A i \in DOMAIN st, x \in Names : st[i].vars[x].cell \in D \cup {0}, 0 \notin C
  PROVE  StackOK(st, D)
<1>1. st \in Seq(Contexts(C, Len(st)))
  BY DEF StackOK
<1>2. \A i \in DOMAIN st : st[i] \in Contexts(D, Len(st))
  <2> SUFFICES ASSUME NEW i \in DOMAIN st
               PROVE  st[i] \in Contexts(D, Len(st))
    OBVIOUS
  <2>1. st[i] \in Contexts(C, Len(st))
    BY <1>1, ElementOfSeq
  <2>2. \A x \in Names : st[i].vars[x] \in Vars(D)
    <3> SUFFICES ASSUME NEW x \in Names
                 PROVE  st[i].vars[x] \in Vars(D)
      OBVIOUS
    <3>1. st[i].vars[x] \in Vars(C)
      BY <2>1 DEF Contexts
    <3>2. st[i].vars[x].cell \in D \cup {0}
      OBVIOUS
    <3> QED
      BY <3>1, <3>2 DEF Vars, NoVar
  <2>3. st[i].vars \in [Names -> Vars(D)]
    BY <2>1, <2>2 DEF Contexts
  <2> QED
    BY <2>1, <2>3 DEF Contexts
<1>3. st \in Seq(Contexts(D, Len(st)))
  <2>1. Len(st) \in Nat /\ DOMAIN st = 1..Len(st) /\ st = [i \in 1..Len(st) |-> st[i]]
    BY <1>1, LenProperties
  <2> QED
    BY <1>2, <2>1
<1> QED
  BY <1>3 DEF StackOK

-----------------------------------------------------------------------------
(* Contexts *)

LEMMA TargetNames == \A t \in Targets : t.x \in Names
BY DEF Targets

LEMMA StackParts ==
  ASSUME NEW st, NEW C, StackOK(st, C)
  PROVE  /\ Len(st) \in Nat \ {0} /\ DOMAIN st = 1..Len(st)
         /\ st = [i \in 1..Len(st) |-> st[i]]
         /\ \A i \in 1..Len(st) :
              /\ st[i] \in Contexts(C, Len(st))
              /\ st[i].names \in [Names -> 0..Len(st)]
              /\ st[i].vars \in [Names -> Vars(C)]
              /\ st[i].call \in BOOLEAN /\ st[i].op \in {"drop", "let", "assign"}
              /\ st[i].target \in Targets /\ st[i].target.x \in Names
              /\ st[i].found \in 0..Len(st) /\ st[i].constant \in BOOLEAN
              /\ \A x \in Names : st[i].names[x] \in 0..i
<1>1. st \in Seq(Contexts(C, Len(st))) /\ st # <<>>
  BY DEF StackOK
<1>2. Len(st) \in Nat \ {0} /\ DOMAIN st = 1..Len(st) /\ st = [i \in 1..Len(st) |-> st[i]]
  BY <1>1, LenProperties, EmptySeq
<1>3. \A i \in 1..Len(st) : st[i] \in Contexts(C, Len(st))
  BY <1>1, <1>2, ElementOfSeq
<1>4. \A i \in 1..Len(st) :
        /\ st[i].names \in [Names -> 0..Len(st)]
        /\ st[i].vars \in [Names -> Vars(C)]
        /\ st[i].call \in BOOLEAN /\ st[i].op \in {"drop", "let", "assign"}
        /\ st[i].target \in Targets
        /\ st[i].found \in 0..Len(st) /\ st[i].constant \in BOOLEAN
  BY <1>3 DEF Contexts
<1>5. \A i \in 1..Len(st), x \in Names : st[i].names[x] \in 0..i
  <2> SUFFICES ASSUME NEW i \in 1..Len(st), NEW x \in Names
               PROVE  st[i].names[x] \in 0..i
    OBVIOUS
  <2>1. st[i].names[x] \in 0..Len(st) /\ st[i].names[x] <= i
    BY <1>2, <1>4 DEF StackOK
  <2> QED
    BY <1>2, <2>1
<1> QED
  BY <1>2, <1>3, <1>4, <1>5, TargetNames

\* From what its contexts are to what the stack is.
LEMMA StackIntro ==
  ASSUME NEW st, NEW C, NEW n \in Nat \ {0}, st = [i \in 1..n |-> st[i]],
         \A i \in 1..n : st[i] \in Contexts(C, n),
         \A i \in 1..n : \A x \in Names :
           /\ st[i].names[x] <= i
           /\ st[i].names[x] # 0 => st[st[i].names[x]].vars[x] # NoVar,
         \A i \in 1..n : st[i].found < i \/ i = 1
  PROVE  StackOK(st, C) /\ Len(st) = n
<1>1. st \in Seq(Contexts(C, n))
  BY SeqDef
<1>2. Len(st) = n /\ DOMAIN st = 1..n
  BY <1>1, LenProperties
<1>3. st # <<>>
  BY <1>2, EmptySeq
<1> QED
  BY <1>1, <1>2, <1>3 DEF StackOK

\* What is done with a value.
UseOK(use, st) ==
  /\ use.op \in {"drop", "let", "assign"} /\ use.target \in Targets
  /\ use.found \in 0..Len(st) /\ use.constant \in BOOLEAN
  /\ use.op = "let" => use.found = st[Len(st)].names[use.target.x]

\* A block or a call ends.
LEMMA Popped ==
  ASSUME NEW st, NEW C, StackOK(st, C), Scoped(st), Len(st) > 1
  PROVE  LET outer == SubSeq(st, 1, Len(st) - 1)
         IN  /\ StackOK(outer, C) /\ Scoped(outer)
             /\ Len(outer) = Len(st) - 1
             /\ \A i \in 1..Len(outer) : outer[i] = st[i]
             /\ UseOK(st[Len(st)], outer)
<1> DEFINE n == Len(st) - 1
           outer == SubSeq(st, 1, n)
<1>1. /\ Len(st) \in Nat \ {0} /\ DOMAIN st = 1..Len(st)
      /\ \A i \in 1..Len(st) :
           /\ st[i] \in Contexts(C, Len(st))
           /\ st[i].op \in {"drop", "let", "assign"}
           /\ st[i].target \in Targets /\ st[i].target.x \in Names
           /\ st[i].found \in 0..Len(st) /\ st[i].constant \in BOOLEAN
           /\ \A x \in Names : st[i].names[x] \in 0..i
  BY StackParts
<1>2. n \in Nat \ {0} /\ n < Len(st)
  BY <1>1
<1>3. outer = [i \in 1..n |-> st[i]]
  BY <1>2
<1>4. \A i \in 1..n : outer[i] = st[i] /\ i \in DOMAIN st
  BY <1>1, <1>2, <1>3
<1>5. outer = [i \in 1..n |-> outer[i]]
  BY <1>3
<1>6. \A i \in 1..n : st[i].found < i \/ i = 1
  BY <1>4, NamesAssumption DEF StackOK
<1>7. st[1].found = 0
  BY DEF Scoped
<1> HIDE DEF n, outer
<1>8. \A i \in 1..n : outer[i] \in Contexts(C, n)
  <2> SUFFICES ASSUME NEW i \in 1..n
               PROVE  st[i] \in Contexts(C, n)
    BY <1>4
  <2>1. st[i] \in Contexts(C, Len(st)) /\ i \in 1..Len(st)
    BY <1>1, <1>4
  <2>2. \A x \in Names : st[i].names[x] \in 0..n
    BY <1>1, <1>2, <2>1
  <2>3. st[i].names \in [Names -> 0..n]
    BY <2>1, <2>2 DEF Contexts
  <2>4. st[i].found \in 0..n
    BY <1>1, <1>2, <1>6, <1>7, <2>1
  <2> QED
    BY <2>1, <2>3, <2>4 DEF Contexts
<1>9. \A i \in 1..n : \A x \in Names :
        /\ outer[i].names[x] <= i
        /\ outer[i].names[x] # 0 => outer[outer[i].names[x]].vars[x] # NoVar
  <2> SUFFICES ASSUME NEW i \in 1..n, NEW x \in Names
               PROVE  /\ outer[i].names[x] <= i
                      /\ outer[i].names[x] # 0 => outer[outer[i].names[x]].vars[x] # NoVar
    OBVIOUS
  <2>1. /\ st[i].names[x] <= i
        /\ st[i].names[x] # 0 => st[st[i].names[x]].vars[x] # NoVar
        /\ st[i].names[x] \in 0..i
    BY <1>1, <1>4 DEF StackOK
  <2>2. st[i].names[x] # 0 => st[i].names[x] \in 1..n
    BY <1>2, <2>1
  <2> QED
    BY <1>4, <2>1, <2>2
<1>10. StackOK(outer, C) /\ Len(outer) = n
  BY <1>2, <1>4, <1>5, <1>6, <1>8, <1>9, StackIntro
<1>11. DOMAIN outer = 1..n
  BY <1>10, StackParts
<1>12. Scoped(outer)
  <2>1. 1 \in 1..n
    BY <1>2
  <2>2. \A i \in 1..n : i > 1 => i - 1 \in 1..n
    BY <1>2
  <2>3. \A i \in 1..n : \A j \in 2..i : j \in 1..n
    BY <1>2
  <2> QED
    BY <1>4, <1>11, <2>1, <2>2, <2>3 DEF Scoped
<1>13. UseOK(st[Len(st)], outer)
  <2>1. Len(st) \in DOMAIN st /\ Len(st) > 1 /\ Len(st) - 1 = n
    BY <1>1 DEF n
  <2>2. st[Len(st)].found < Len(st)
    BY <2>1, NamesAssumption DEF StackOK
  <2>3. st[Len(st)].found \in 0..n
    BY <1>1, <1>2, <2>1, <2>2
  <2>4. st[Len(st)].op = "let" => st[Len(st)].found = st[n].names[st[Len(st)].target.x]
    BY <1>1, <2>1 DEF Scoped
  <2>5. n \in 1..n
    BY <1>2
  <2> QED
    BY <1>1, <1>4, <1>10, <2>1, <2>3, <2>4, <2>5 DEF UseOK
<1>14. outer = SubSeq(st, 1, Len(st) - 1)
  BY DEF outer, n
<1> QED
  BY <1>4, <1>10, <1>12, <1>13, <1>14 DEF n

\* A block or a call begins.
LEMMA Pushed ==
  ASSUME NEW st, NEW C, NEW D, C \subseteq D, StackOK(st, C), Scoped(st),
         NEW ctx \in Contexts(D, Len(st) + 1),
         \A x \in Names :
           /\ ctx.vars[x] # NoVar <=> ctx.names[x] = Len(st) + 1
           /\ ctx.names[x] \notin {0, Len(st) + 1} => st[ctx.names[x]].vars[x] # NoVar,
         ctx.found <= Len(st),
         ctx.op = "let" => ctx.found = st[Len(st)].names[ctx.target.x],
         \/ ctx.call /\ \A x \in Names : ctx.names[x] \in {0, 1, Len(st) + 1}
         \/ ~ ctx.call /\ ctx.names = st[Len(st)].names
  PROVE  StackOK(Append(st, ctx), D) /\ Scoped(Append(st, ctx))
<1> DEFINE n == Len(st) + 1
           t == Append(st, ctx)
<1>1. /\ Len(st) \in Nat \ {0} /\ DOMAIN st = 1..Len(st)
      /\ \A i \in 1..Len(st) :
           /\ st[i] \in Contexts(C, Len(st))
           /\ st[i].names \in [Names -> 0..Len(st)]
           /\ st[i].vars \in [Names -> Vars(C)]
           /\ st[i].op \in {"drop", "let", "assign"}
           /\ st[i].found \in 0..Len(st)
           /\ \A x \in Names : st[i].names[x] \in 0..i
  BY StackParts
<1>2. st \in Seq(Contexts(C, Len(st)))
  BY DEF StackOK
<1>3. n \in Nat \ {0, 1} /\ n - 1 = Len(st) /\ Len(st) \in 1..Len(st)
  BY <1>1
<1>4. /\ t = [i \in 1..n |-> t[i]] /\ t[n] = ctx
      /\ \A i \in 1..Len(st) : t[i] = st[i]
  <2> DEFINE S == Contexts(C, Len(st)) \cup {ctx}
  <2>1. st \in Seq(S) /\ ctx \in S
    BY <1>1, <1>2
  <2>2. /\ t \in Seq(S) /\ Len(t) = n /\ t[n] = ctx
        /\ \A i \in 1..Len(st) : t[i] = st[i]
    BY <2>1, AppendProperties
  <2> HIDE DEF t, S
  <2>3. t = [i \in 1..Len(t) |-> t[i]]
    BY <2>2, LenProperties
  <2> QED
    BY <2>2, <2>3
<1> HIDE DEF t, n
<1>5. \A i \in 1..n : i = n \/ i \in 1..Len(st)
  BY <1>3
<1>6. \A i \in 1..n : t[i] \in Contexts(D, n)
  <2> SUFFICES ASSUME NEW i \in 1..Len(st)
               PROVE  st[i] \in Contexts(D, n)
    BY <1>4, <1>5 DEF n
  <2>1. st[i].names \in [Names -> 0..n]
    BY <1>1, <1>3
  <2>2. st[i].vars \in [Names -> Vars(D)]
    BY <1>1 DEF Vars
  <2>3. st[i].found \in 0..n
    BY <1>1, <1>3
  <2> QED
    BY <1>1, <2>1, <2>2, <2>3 DEF Contexts
<1>7. \A x \in Names : ctx.names[x] \in 0..n
  BY DEF Contexts, n
<1>8. \A i \in 1..n : \A x \in Names :
        /\ t[i].names[x] <= i
        /\ t[i].names[x] # 0 => t[t[i].names[x]].vars[x] # NoVar
  <2> SUFFICES ASSUME NEW i \in 1..n, NEW x \in Names
               PROVE  /\ t[i].names[x] <= i
                      /\ t[i].names[x] # 0 => t[t[i].names[x]].vars[x] # NoVar
    OBVIOUS
  <2>1. CASE i = n
    <3>1. ctx.names[x] \in 0..n
      BY <1>7
    <3>2. CASE ctx.names[x] = n
      BY <1>3, <1>4, <2>1, <3>2 DEF n
    <3>3. CASE ctx.names[x] = 0
      BY <1>3, <1>4, <2>1, <3>3
    <3>4. CASE ctx.names[x] \notin {0, n}
      <4>1. ctx.names[x] \in 1..Len(st)
        BY <1>3, <3>1, <3>4
      <4>2. st[ctx.names[x]].vars[x] # NoVar
        BY <3>4 DEF n
      <4>3. t[ctx.names[x]] = st[ctx.names[x]]
        BY <1>4, <4>1
      <4> QED
        BY <1>3, <1>4, <2>1, <3>1, <4>2, <4>3
    <3> QED
      BY <3>2, <3>3, <3>4
  <2>2. CASE i \in 1..Len(st)
    <3>1. /\ st[i].names[x] <= i
          /\ st[i].names[x] # 0 => st[st[i].names[x]].vars[x] # NoVar
          /\ st[i].names[x] \in 0..i
      BY <1>1, <2>2 DEF StackOK
    <3>2. st[i].names[x] # 0 => st[i].names[x] \in 1..Len(st)
      BY <1>1, <2>2, <3>1
    <3> QED
      BY <1>4, <2>2, <3>1, <3>2
  <2> QED
    BY <1>5, <2>1, <2>2
<1>9. \A i \in 1..n : t[i].found < i \/ i = 1
  <2>1. ctx.found < n
    <3>1. ctx.found \in 0..n
      BY DEF Contexts, n
    <3> QED
      BY <1>1, <3>1 DEF n
  <2>2. \A i \in 1..Len(st) : st[i].found < i \/ i = 1
    BY <1>1, NamesAssumption DEF StackOK
  <2> QED
    BY <1>4, <1>5, <2>1, <2>2
<1>10. StackOK(t, D) /\ Len(t) = n
  BY <1>3, <1>4, <1>6, <1>8, <1>9, StackIntro
<1>11. DOMAIN t = 1..n
  BY <1>10, StackParts
<1>12. Scoped(t)
  <2>1. ~ t[1].call /\ t[1].found = 0
    <3>1. ~ st[1].call /\ st[1].found = 0
      BY DEF Scoped
    <3>3. 1 \in 1..Len(st)
      BY <1>1
    <3>2. t[1] = st[1]
      BY <1>4, <3>3
    <3> QED
      BY <3>1, <3>2
  <2>2. ASSUME NEW i \in 1..Len(st), NEW x \in Names
        PROVE  /\ t[i].vars[x] # NoVar => t[i].names[x] = i
               /\ i > 1 /\ t[i].op = "let" => t[i].found = t[i - 1].names[t[i].target.x]
               /\ \A j \in 2..i : t[j].call => t[i].names[x] \in {0, 1} \cup (j..i)
    <3>1. i > 1 => i - 1 \in 1..Len(st)
      BY <1>1
    <3>2. \A j \in 2..i : j \in 1..Len(st)
      BY <1>1
    <3>3. /\ st[i].vars[x] # NoVar => st[i].names[x] = i
          /\ i > 1 /\ st[i].op = "let" => st[i].found = st[i - 1].names[st[i].target.x]
          /\ \A j \in 2..i : st[j].call => st[i].names[x] \in {0, 1} \cup (j..i)
      BY <1>1 DEF Scoped
    <3>4. t[i] = st[i] /\ (i > 1 => t[i - 1] = st[i - 1]) /\ \A j \in 2..i : t[j] = st[j]
      BY <1>4, <3>1, <3>2
    <3> QED
      BY <3>3, <3>4
  <2>3. ASSUME NEW x \in Names
        PROVE  /\ t[n].vars[x] # NoVar => t[n].names[x] = n
               /\ t[n].op = "let" => t[n].found = t[n - 1].names[t[n].target.x]
               /\ \A j \in 2..n : t[j].call => t[n].names[x] \in {0, 1} \cup (j..n)
    <3>1. t[n].vars[x] # NoVar => t[n].names[x] = n
      BY <1>4 DEF n
    <3>2. t[n].op = "let" => t[n].found = t[n - 1].names[t[n].target.x]
      BY <1>3, <1>4
    <3>3. ASSUME NEW j \in 2..n, t[j].call
          PROVE  ctx.names[x] \in {0, 1} \cup (j..n)
      <4>1. CASE ctx.call
        <5>1. ctx.names[x] \in {0, 1, n}
          BY <4>1 DEF n
        <5> QED
          BY <1>3, <5>1
      <4>2. CASE ~ ctx.call
        <5>1. j # n
          BY <1>4, <3>3, <4>2
        <5>2. j \in 2..Len(st) /\ j \in 1..Len(st)
          BY <1>3, <5>1
        <5>3. st[Len(st)].names[x] \in {0, 1} \cup (j..Len(st))
          BY <1>1, <1>3, <1>4, <3>3, <5>2 DEF Scoped
        <5>4. ctx.names[x] = st[Len(st)].names[x]
          BY <4>2
        <5> QED
          BY <1>1, <1>3, <5>2, <5>3, <5>4
      <4> QED
        BY <4>1, <4>2
    <3> QED
      BY <1>4, <3>1, <3>2, <3>3
  <2> QED
    BY <1>5, <1>11, <2>1, <2>2, <2>3 DEF Scoped
<1> QED
  BY <1>10, <1>12 DEF t

\* A variable is bound, or moves to another cell: the context of the Var that a let
\* or an assignment of x sets, and the contexts after it.
Slot(st, x) == IF st[Len(st)].names[x] = 0 THEN Len(st) ELSE st[Len(st)].names[x]
SetVar(st, x, n, v) == [st EXCEPT ![Len(st)].names[x] = n, ![n].vars[x] = v]

LEMMA VarSet ==
  ASSUME NEW st, NEW C, NEW D, C \subseteq D, StackOK(st, C), Scoped(st),
         NEW x \in Names, NEW n, n = Slot(st, x),
         NEW v \in Vars(D), v # NoVar
  PROVE  LET t == SetVar(st, x, n, v)
         IN  /\ StackOK(t, D) /\ Scoped(t) /\ Len(t) = Len(st)
             /\ \A i \in 1..Len(st) : \A y \in Names :
                  /\ t[i].names[y] = IF i = Len(st) /\ y = x THEN n ELSE st[i].names[y]
                  /\ t[i].vars[y] = IF i = n /\ y = x THEN v ELSE st[i].vars[y]
<1> DEFINE t == [st EXCEPT ![Len(st)].names[x] = n, ![n].vars[x] = v]
           m == Len(st)
<1>0. n = (IF st[m].names[x] = 0 THEN m ELSE st[m].names[x])
  BY DEF Slot
<1>1. /\ m \in Nat \ {0} /\ DOMAIN st = 1..m
      /\ st = [i \in 1..m |-> st[i]]
      /\ \A i \in 1..m :
           /\ st[i] \in Contexts(C, m)
           /\ st[i].names \in [Names -> 0..m]
           /\ st[i].vars \in [Names -> Vars(C)]
           /\ st[i].call \in BOOLEAN /\ st[i].op \in {"drop", "let", "assign"}
           /\ st[i].target \in Targets /\ st[i].target.x \in Names
           /\ st[i].found \in 0..m /\ st[i].constant \in BOOLEAN
           /\ \A y \in Names : st[i].names[y] \in 0..i
  BY StackParts
<1>2. m \in 1..m /\ n \in 1..m
  <2>1. m \in 1..m
    BY <1>1
  <2>2. st[m].names[x] \in 0..m
    BY <1>1, <2>1
  <2> QED
    BY <1>0, <1>1, <2>1, <2>2
<1>3. t = [i \in 1..m |-> t[i]]
  BY <1>1
<1> DEFINE nms(i) == [y \in Names |-> IF i = m /\ y = x THEN n ELSE st[i].names[y]]
           vrs(i) == [y \in Names |-> IF i = n /\ y = x THEN v ELSE st[i].vars[y]]
           ctx(i, p, q) == [names |-> p, vars |-> q, call |-> st[i].call, op |-> st[i].op,
                            target |-> st[i].target, found |-> st[i].found,
                            constant |-> st[i].constant]
<1>4. \A i \in 1..m : t[i] = ctx(i, nms(i), vrs(i))
  <2> DEFINE s == [st EXCEPT ![m].names[x] = n]
  <2>1. \A i \in 1..m : s[i] = ctx(i, nms(i), st[i].vars)
    <3> SUFFICES ASSUME NEW i \in 1..m
                 PROVE  s[i] = ctx(i, nms(i), st[i].vars)
      OBVIOUS
    <3>1. st[i] \in Contexts(C, m) /\ st[i].names \in [Names -> 0..m]
      BY <1>1
    <3>2. st[i] = ctx(i, st[i].names, st[i].vars)
      BY <3>1 DEF Contexts
    <3>3. CASE i = m
      <4>1. s[i] = [st[i] EXCEPT !.names[x] = n]
        BY <1>1, <1>2, <3>3
      <4>2. [st[i].names EXCEPT ![x] = n] = nms(i)
        BY <3>1, <3>3
      <4>3. s[i] = [st[i] EXCEPT !.names = [st[i].names EXCEPT ![x] = n]]
        BY <4>1
      <4> HIDE DEF s, nms
      <4> QED
        BY <3>2, <4>2, <4>3
    <3>4. CASE i # m
      <4>1. s[i] = st[i]
        BY <1>1, <1>2, <3>4
      <4>2. st[i].names = nms(i)
        BY <3>1, <3>4
      <4> HIDE DEF s
      <4> QED
        BY <3>2, <4>1, <4>2
    <3> QED
      BY <3>3, <3>4
  <2>2. t = [s EXCEPT ![n].vars[x] = v] /\ DOMAIN s = 1..m
    BY <1>1
  <2> HIDE DEF s, t
  <2> SUFFICES ASSUME NEW i \in 1..m
               PROVE  t[i] = ctx(i, nms(i), vrs(i))
    OBVIOUS
  <2>3. st[i].vars \in [Names -> Vars(C)]
    BY <1>1
  <2>4. CASE i = n
    <3>1. t[i] = [s[i] EXCEPT !.vars[x] = v]
      BY <1>2, <2>2, <2>4
    <3>2. [st[i].vars EXCEPT ![x] = v] = vrs(i)
      BY <2>3, <2>4
    <3>3. s[i].vars = st[i].vars /\ s[i] = ctx(i, nms(i), st[i].vars)
      BY <2>1
    <3>4. t[i] = [s[i] EXCEPT !.vars = [s[i].vars EXCEPT ![x] = v]]
      BY <3>1
    <3> HIDE DEF vrs, nms
    <3>5. t[i] = [s[i] EXCEPT !.vars = vrs(i)]
      BY <3>2, <3>3, <3>4
    <3> QED
      BY <3>3, <3>5
  <2>5. CASE i # n
    <3>1. t[i] = s[i]
      BY <1>2, <2>2, <2>5
    <3>2. st[i].vars = vrs(i)
      BY <2>3, <2>5
    <3> HIDE DEF vrs, nms
    <3> QED
      BY <2>1, <3>1, <3>2
  <2> QED
    BY <2>4, <2>5
<1> HIDE DEF nms, vrs
<1>5. \A i \in 1..m :
        /\ t[i].names = nms(i) /\ t[i].vars = vrs(i)
        /\ t[i].call = st[i].call /\ t[i].op = st[i].op /\ t[i].target = st[i].target
        /\ t[i].found = st[i].found
  <2> SUFFICES ASSUME NEW i \in 1..m
               PROVE  /\ t[i].names = nms(i) /\ t[i].vars = vrs(i)
                      /\ t[i].call = st[i].call /\ t[i].op = st[i].op
                      /\ t[i].target = st[i].target /\ t[i].found = st[i].found
    OBVIOUS
  <2>1. t[i] = ctx(i, nms(i), vrs(i))
    BY <1>4
  <2> HIDE DEF t
  <2> QED
    BY <2>1
<1>6. t = [st EXCEPT ![Len(st)].names[x] = n, ![n].vars[x] = v]
  OBVIOUS
<1> HIDE DEF t
<1>7. \A i \in 1..m : t[i] \in Contexts(D, m)
  <2> SUFFICES ASSUME NEW i \in 1..m
               PROVE  t[i] \in Contexts(D, m)
    OBVIOUS
  <2>1. t[i].names \in [Names -> 0..m]
    <3>1. \A y \in Names : (IF i = m /\ y = x THEN n ELSE st[i].names[y]) \in 0..m
      BY <1>1, <1>2
    <3>2. nms(i) \in [Names -> 0..m]
      BY <3>1 DEF nms
    <3> QED
      BY <1>5, <3>2
  <2>2. t[i].vars \in [Names -> Vars(D)]
    <3>1. \A y \in Names : (IF i = n /\ y = x THEN v ELSE st[i].vars[y]) \in Vars(D)
      BY <1>1 DEF Vars
    <3>2. vrs(i) \in [Names -> Vars(D)]
      BY <3>1 DEF vrs
    <3> QED
      BY <1>5, <3>2
  <2> HIDE DEF m
  <2>3. t[i] = [names |-> t[i].names, vars |-> t[i].vars,
                call |-> st[i].call, op |-> st[i].op, target |-> st[i].target,
                found |-> st[i].found, constant |-> st[i].constant]
    BY <1>4, <1>5
  <2> QED
    BY <1>1, <2>1, <2>2, <2>3 DEF Contexts
<1>8. /\ \A i \in 1..m : \A y \in Names :
           t[i].names[y] = IF i = m /\ y = x THEN n ELSE st[i].names[y]
      /\ \A i \in 1..m : \A y \in Names :
           t[i].vars[y] = IF i = n /\ y = x THEN v ELSE st[i].vars[y]
  <2>1. \A i \in 1..m : \A y \in Names : nms(i)[y] = IF i = m /\ y = x THEN n ELSE st[i].names[y]
    BY DEF nms
  <2>2. \A i \in 1..m : \A y \in Names : vrs(i)[y] = IF i = n /\ y = x THEN v ELSE st[i].vars[y]
    BY DEF vrs
  <2> QED
    BY <1>5, <2>1, <2>2
<1> HIDE DEF m
<1>9. \A i \in 1..m : \A y \in Names : st[i].vars[y] # NoVar => t[i].vars[y] # NoVar
  BY <1>8
<1>10. \A i \in 1..m : \A y \in Names :
         /\ t[i].names[y] <= i
         /\ t[i].names[y] # 0 => t[t[i].names[y]].vars[y] # NoVar
  <2> SUFFICES ASSUME NEW i \in 1..m, NEW y \in Names
               PROVE  /\ t[i].names[y] <= i
                      /\ t[i].names[y] # 0 => t[t[i].names[y]].vars[y] # NoVar
    OBVIOUS
  <2>1. CASE i = m /\ y = x
    <3>1. t[i].names[y] = n
      BY <1>8, <2>1
    <3>2. t[n].vars[y] = v
      BY <1>2, <1>8, <2>1
    <3> QED
      BY <1>0, <1>1, <1>2, <2>1, <3>1, <3>2
  <2>2. CASE ~ (i = m /\ y = x)
    <3>1. t[i].names[y] = st[i].names[y]
      BY <1>8, <2>2
    <3>2. /\ st[i].names[y] <= i
          /\ st[i].names[y] # 0 => st[st[i].names[y]].vars[y] # NoVar
          /\ st[i].names[y] \in 0..i
      BY <1>1 DEF StackOK
    <3>3. st[i].names[y] # 0 => st[i].names[y] \in 1..m
      BY <1>1, <3>2
    <3> QED
      BY <1>9, <3>1, <3>2, <3>3
  <2> QED
    BY <2>1, <2>2
<1>11. \A i \in 1..m : t[i].found < i \/ i = 1
  BY <1>1, <1>5, NamesAssumption DEF StackOK
<1>12. StackOK(t, D) /\ Len(t) = m
  BY <1>1, <1>3, <1>7, <1>10, <1>11, StackIntro
<1>13. DOMAIN t = 1..m
  BY <1>12, StackParts
<1>14. \A i \in 1..m : \A y \in Names : st[i].vars[y] # NoVar => st[i].names[y] = i
  BY <1>1 DEF Scoped
<1>15. Scoped(t)
  <2>1. ~ t[1].call /\ t[1].found = 0
    <3>1. ~ st[1].call /\ st[1].found = 0 /\ 1 \in 1..m
      BY <1>1 DEF Scoped
    <3> QED
      BY <1>5, <3>1
  <2>2. ASSUME NEW i \in 1..m, NEW y \in Names
        PROVE  t[i].vars[y] # NoVar => t[i].names[y] = i
    <3>1. CASE i = n /\ y = x
      <4>1. CASE n = m
        BY <1>8, <3>1, <4>1
      <4>2. CASE n # m
        <5>1. st[m].names[x] = n /\ n # 0
          BY <1>0, <1>1, <1>2, <4>2
        <5>2. st[n].vars[x] # NoVar
          BY <1>1, <1>2, <5>1 DEF StackOK
        <5> QED
          BY <1>2, <1>8, <1>14, <3>1, <4>2, <5>2
      <4> QED
        BY <4>1, <4>2
    <3>2. CASE ~ (i = n /\ y = x) /\ i = m /\ y = x
      <4>1. n # m
        BY <3>2
      <4>2. st[m].names[x] = n
        BY <1>0, <4>1
      <4> QED
        BY <1>8, <1>14, <3>2, <4>1, <4>2
    <3>3. CASE ~ (i = n /\ y = x) /\ ~ (i = m /\ y = x)
      BY <1>8, <1>14, <3>3
    <3> QED
      BY <3>1, <3>2, <3>3
  <2>3. ASSUME NEW i \in 1..m, i > 1, t[i].op = "let"
        PROVE  t[i].found = t[i - 1].names[t[i].target.x]
    <3>1. i - 1 \in 1..m /\ i - 1 # m
      BY <1>1, <2>3
    <3>2. st[i].found = st[i - 1].names[st[i].target.x]
      BY <1>1, <1>5, <2>3, NamesAssumption DEF Scoped
    <3>3. st[i].target.x \in Names
      BY <1>1
    <3>4. t[i].found = st[i].found /\ t[i].target = st[i].target
      BY <1>5
    <3>5. t[i - 1].names[st[i].target.x] = st[i - 1].names[st[i].target.x]
      BY <1>8, <3>1, <3>3
    <3> QED
      BY <3>2, <3>4, <3>5
  <2>4. ASSUME NEW i \in 1..m, NEW y \in Names, NEW j \in 2..i, t[j].call
        PROVE  t[i].names[y] \in {0, 1} \cup (j..i)
    <3>1. j \in 1..m
      BY <1>1
    <3>2. st[i].names[y] \in {0, 1} \cup (j..i)
      BY <1>1, <1>5, <2>4, <3>1 DEF Scoped
    <3>3. CASE i = m /\ y = x
      <4>1. t[i].names[y] = n
        BY <1>8, <3>3
      <4>2. n = m \/ n = st[m].names[x]
        BY <1>0
      <4> QED
        BY <1>0, <1>1, <3>1, <3>2, <3>3, <4>1, <4>2
    <3> QED
      BY <1>8, <3>2, <3>3
  <2> QED
    BY <1>13, <2>1, <2>2, <2>3, <2>4 DEF Scoped
<1> QED
  BY <1>8, <1>12, <1>15 DEF t, m, SetVar

-----------------------------------------------------------------------------
(* The operands of a state *)

LEMMA InScope ==
  ASSUME IInv, NEW st, StackOK(st, DOMAIN heap), NEW x \in Names, st[Len(st)].names[x] # 0
  PROVE  /\ st[Len(st)].names[x] \in 1..Len(st)
         /\ VarOf(st, x) \in Vars(DOMAIN heap) \ {NoVar}
         /\ VarOf(st, x).cell \in DOMAIN heap
<1>1. /\ Len(st) \in Nat \ {0} /\ DOMAIN st = 1..Len(st)
      /\ \A i \in 1..Len(st) : /\ st[i].vars \in [Names -> Vars(DOMAIN heap)]
                               /\ \A y \in Names : st[i].names[y] \in 0..i
  BY StackParts
<1>2. Len(st) \in 1..Len(st)
  BY <1>1
<1>3. st[Len(st)].names[x] \in 1..Len(st)
  BY <1>1, <1>2
<1>4. st[st[Len(st)].names[x]].vars[x] # NoVar
  BY <1>1, <1>2 DEF StackOK
<1>5. VarOf(st, x) \in Vars(DOMAIN heap) \ {NoVar}
  BY <1>1, <1>3, <1>4 DEF VarOf
<1> QED
  BY <1>3, <1>5 DEF Vars

LEMMA DerefValue ==
  ASSUME IInv, NEW v \in AllValues(heap, arrs), Deref(v).k = "struct"
  PROVE  /\ Deref(v) \in AllValues(heap, arrs)
         /\ \A f \in Fields : Deref(v).m[f] \in DOMAIN heap
<1>1. IsStore(heap, arrs)
  BY DEF IInv, Sound
<1>2. v \in Values(DOMAIN heap, DOMAIN arrs)
  BY <1>1, IsStoreValues
<1>3. Deref(v) \in AllValues(heap, arrs)
  BY <1>2, ValueParts DEF Deref, AllValues
<1>4. Deref(v) \in Values(DOMAIN heap, DOMAIN arrs)
  BY <1>1, <1>3, IsStoreValues
<1> QED
  BY <1>3, <1>4, ValueParts

LEMMA OperandsSound ==
  ASSUME IInv, NEW v \in Operands \cup {Nil}
  PROVE  /\ Sound(heap, arrs, lent, v)
         /\ v \in AllValues(heap, arrs) \/ v.k # "struct"
<1>1. IsStore(heap, arrs) /\ StackOK(stack, DOMAIN heap) /\ Sound(heap, arrs, lent, Nil)
  BY DEF IInv, Sound
<1>2. \A x \in Bound : CellOf(x) \in DOMAIN heap /\ heap[CellOf(x)] \in AllValues(heap, arrs)
  BY <1>1, InScope DEF Bound, Top, CellOf, AllValues
<1>3. \A x \in StructNames, f \in Fields : MemberCell(x, f) \in DOMAIN heap
  BY <1>2, DerefValue DEF StructNames, MemberCell
<1>4. \A x \in ArrayNames : heap[CellOf(x)].a \in DOMAIN arrs
  <2> SUFFICES ASSUME NEW x \in ArrayNames
               PROVE  heap[CellOf(x)].a \in DOMAIN arrs
    OBVIOUS
  <2>1. heap[CellOf(x)] \in Values(DOMAIN heap, DOMAIN arrs) /\ heap[CellOf(x)].k = "array"
    BY <1>1, <1>2, IsStoreValues DEF ArrayNames
  <2> QED
    BY <2>1, ValueParts
<1>5. v \in AllValues(heap, arrs) \/ (v \in Values(DOMAIN heap, DOMAIN arrs) /\ v.k # "struct")
  <2>1. CASE v \in {Plain, Nil}
    BY <2>1, NilIsValue
  <2>2. CASE v \in Reads \ {Plain}
    BY <1>2, <1>3, <1>4, <2>2 DEF Reads, AllValues
  <2>3. CASE v \in References
    <3>1. \E c \in DOMAIN heap : v = Ref(c)
      BY <1>2, <1>3, <2>3 DEF References
    <3> QED
      BY <3>1 DEF Values, Ref
  <2> QED
    BY <2>1, <2>2, <2>3 DEF Operands
<1>6. v \in Values(DOMAIN heap, DOMAIN arrs)
  BY <1>1, <1>5, IsStoreValues
<1>7. Sound(heap, arrs, lent, v)
  BY <1>1, <1>5, <1>6, SoundPart
<1> QED
  BY <1>5, <1>7

LEMMA OutcomesGrown ==
  ASSUME IInv, NEW e \in Outcomes \cup {Outcome(Nil)}
  PROVE  Grown(heap, arrs, lent, e)
<1>1. lent \in SUBSET DOMAIN heap
  BY DEF IInv
<1>2. ASSUME NEW v \in Operands \cup {Nil}, e = Outcome(v)
      PROVE  Grown(heap, arrs, lent, e)
  <2>1. Sound(heap, arrs, lent, v) /\ (v \in AllValues(heap, arrs) \/ v.k # "struct")
    BY <1>2, OperandsSound
  <2>2. Grown(heap, arrs, lent, [val |-> v, heap |-> heap, arrs |-> arrs, fresh |-> FALSE])
    BY <2>1, OutcomeGrown
  <2> QED
    BY <1>2, <2>2 DEF Outcome
<1>3. ASSUME NEW f \in Fields, NEW v \in Operands \cup {Nil}, e = StructExpr(f, v)
      PROVE  Grown(heap, arrs, lent, e)
  <2> DEFINE pos == CHOOSE p \in [Fields -> 1..Cardinality(Fields)] :
                      \A g, h \in Fields : p[g] = p[h] => g = h
  <2>1. Sound(heap, arrs, lent, v) /\ (v \in AllValues(heap, arrs) \/ v.k # "struct")
    BY <1>3, OperandsSound
  <2>2. /\ pos \in [Fields -> 1..Cardinality(Fields)]
        /\ \A g, i \in Fields : pos[g] = pos[i] => g = i
    BY PositionsExist
  <2> DEFINE new == [g \in Fields |-> Highest(DOMAIN heap) + pos[g]]
  <2>3. StructExpr(f, v) = Built(heap, arrs, new, f, v)
    BY DEF StructExpr, Built, Defaults
  <2>4. new = [g \in Fields |-> Highest(DOMAIN heap) + pos[g]]
    OBVIOUS
  <2> HIDE DEF pos, new
  <2>5. /\ new \in [Fields -> Nat \ {0}]
        /\ \A g \in Fields : new[g] \notin DOMAIN heap
        /\ \A g, i \in Fields : new[g] = new[i] => g = i
    <3>1. IsFiniteSet(DOMAIN heap) /\ DOMAIN heap \subseteq Nat \ {0}
      BY <2>1 DEF Sound, IsStore
    <3> QED
      BY <2>2, <2>4, <3>1, NewMembers
  <2>6. Grown(heap, arrs, lent, Built(heap, arrs, new, f, v))
    BY <1>1, <2>1, <2>5, StructGrown
  <2> QED
    BY <1>3, <2>3, <2>6
<1>4. ASSUME NEW v \in Operands, e = ArrExpr(v)
      PROVE  Grown(heap, arrs, lent, e)
  <2>1. Sound(heap, arrs, lent, v) /\ (v \in AllValues(heap, arrs) \/ v.k # "struct")
    BY <1>4, OperandsSound
  <2> DEFINE b == New(DOMAIN arrs)
  <2>2. Grown(heap, arrs, lent,
              [val |-> Arr(b), heap |-> heap, fresh |-> FALSE,
               arrs |-> [d \in DOMAIN arrs \cup {b} |-> IF d = b THEN v ELSE arrs[d]]])
    BY <2>1, ArrGrown
  <2> QED
    BY <1>4, <2>2 DEF ArrExpr
<1> QED
  BY <1>2, <1>3, <1>4 DEF Outcomes

-----------------------------------------------------------------------------
(* Steps *)

\* Nothing is a member of the cells that only variables have.
LEMMA SettleStep ==
  ASSUME NEW h, NEW a, NEW l \in SUBSET DOMAIN h, Sound(h, a, l, Nil), Settle(h, a, l),
         StackOK(stack', DOMAIN h), Scoped(stack'), VarsApart(stack', AllValues(h, a)),
         error' \in BOOLEAN
  PROVE  /\ IInv'
         /\ \A c \in DOMAIN heap' : c \in DOMAIN h /\ heap'[c] = h[c]
<1>1. PICK st : st = stack'
  OBVIOUS
<1> DEFINE own == (UNION {{st[i].vars[x].cell : x \in Names} : i \in DOMAIN st}) \ {0}
           cells == UsedCells(h, a, own)
           B == UsedArrs(h, a, own)
<1>2. /\ heap' = Restrict(h, cells)
      /\ arrs' = Restrict(a, B)
      /\ lent' = l \cap cells
  BY <1>1 DEF Settle, UsedCells, UsedArrs
<1>3. DOMAIN h \subseteq Nat \ {0}
  BY DEF Sound, IsStore
<1>4. /\ DOMAIN st = 1..Len(st)
      /\ \A i \in 1..Len(st) : st[i].vars \in [Names -> Vars(DOMAIN h)]
  BY <1>1, StackParts
<1>5. own \in SUBSET DOMAIN h
  <2> SUFFICES ASSUME NEW i \in DOMAIN st, NEW x \in Names, st[i].vars[x].cell # 0
               PROVE  st[i].vars[x].cell \in DOMAIN h
    OBVIOUS
  <2>1. st[i].vars[x] \in Vars(DOMAIN h)
    BY <1>4
  <2> QED
    BY <2>1 DEF Vars, NoVar
<1>6. \A i \in DOMAIN st, x \in Names : st[i].vars[x].cell \in own \cup {0}
  OBVIOUS
<1> HIDE DEF own
<1>7. cells = UsedCells(h, a, own) /\ B = UsedArrs(h, a, own) /\ cells \subseteq DOMAIN h
  BY DEF UsedCells
<1> HIDE DEF cells, B
<1>8. /\ own \subseteq cells
      /\ DOMAIN Restrict(h, cells) = cells
      /\ Sound(Restrict(h, cells), Restrict(a, B), l \cap cells, Nil)
      /\ AllValues(Restrict(h, cells), Restrict(a, B)) \subseteq AllValues(h, a)
  BY <1>5, <1>7, SettledSound, SMTT(30)
<1>9. StackOK(st, cells)
  <2>1. StackOK(st, DOMAIN h) /\ 0 \notin DOMAIN h
    BY <1>1, <1>3
  <2>2. \A i \in DOMAIN st, x \in Names : st[i].vars[x].cell \in cells \cup {0}
    BY <1>6, <1>8
  <2> QED
    BY <2>1, <2>2, StackOver
<1>10. VarsApart(st, AllValues(Restrict(h, cells), Restrict(a, B)))
  BY <1>1, <1>8 DEF VarsApart
<1>11. \A c \in cells : c \in DOMAIN h /\ Restrict(h, cells)[c] = h[c]
  BY <1>7 DEF Restrict
<1>12. Scoped(st)
  BY <1>1
<1>13. IInv'
  BY <1>1, <1>2, <1>8, <1>9, <1>10, <1>12 DEF IInv
<1> QED
  BY <1>2, <1>8, <1>11, <1>13

\* A variable that a step gives another Var is at hand in the topmost context, and
\* only a let that had found it gives a constant another.
VarsStep(st, use, t) ==
  /\ Len(t) = Len(st)
  /\ \A i \in 1..Len(st), x \in Names : t[i].vars[x] # st[i].vars[x] =>
       /\ i \in {Len(st), st[Len(st)].names[x]}
       /\ st[i].vars[x].constant => use.op = "let" /\ use.target.x = x /\ use.found = i

\* A cell that a step changes is a member, and its field is not const.
CellsStep(h, a, k) ==
  \A c \in DOMAIN h \cap DOMAIN k : k[c] # h[c] =>
    \E w \in AllValues(h, a), f \in Fields \ ConstFields : w.k = "struct" /\ c = w.m[f]

\* The new Var of a let or an assignment has a copy of e.
LEMMA VarSetStep ==
  ASSUME IInv, NEW st, StackOK(st, DOMAIN heap), Scoped(st), VarsApart(st, AllValues(heap, arrs)),
         NEW e, Grown(heap, arrs, lent, e),
         NEW x \in Names, NEW n, n = Slot(st, x), NEW constant \in BOOLEAN,
         NEW v, v = [cell |-> Stored(e).cell, constant |-> constant],
         stack' = SetVar(st, x, n, v),
         Settle(Stored(e).heap, e.arrs, lent), error' = error
  PROVE  /\ IInv' /\ CellsStep(heap, arrs, heap')
         /\ Len(stack') = Len(st)
         /\ \A i \in 1..Len(st), y \in Names :
              stack'[i].vars[y] # st[i].vars[y] => i = n /\ y = x
<1>1. PICK h, a, l : h = heap /\ a = arrs /\ l = lent
  OBVIOUS
<1>2. PICK k, b, c : k = Stored(e).heap /\ b = e.arrs /\ c = Stored(e).cell
  OBVIOUS
<1>3. /\ l \in SUBSET DOMAIN h /\ Grown(h, a, l, e) /\ Sound(h, a, l, Nil)
      /\ StackOK(st, DOMAIN h) /\ VarsApart(st, AllValues(h, a)) /\ error' \in BOOLEAN
  BY <1>1 DEF IInv
<1>4. /\ c \in DOMAIN k /\ c \notin DOMAIN h
      /\ DOMAIN h \subseteq DOMAIN k
      /\ \A d \in DOMAIN h : k[d] = h[d]
      /\ Sound(k, b, l, Nil)
      /\ \A w \in AllValues(k, b) :
           MembersOf(w) \cap (DOMAIN h \cup {c}) \subseteq Members(AllValues(h, a))
  BY <1>2, <1>3, StoredSound
<1>5. DOMAIN k \subseteq Nat \ {0}
  BY <1>4 DEF Sound, IsStore
<1>6. v = [cell |-> c, constant |-> constant]
  BY <1>2
<1>7. v \in Vars(DOMAIN k) /\ v # NoVar /\ v.cell = c
  BY <1>4, <1>5, <1>6 DEF Vars, NoVar
<1>8. PICK t : t = stack'
  OBVIOUS
<1>9. /\ StackOK(t, DOMAIN k) /\ Scoped(t) /\ Len(t) = Len(st)
      /\ \A i \in 1..Len(st) : \A y \in Names :
           t[i].vars[y] = IF i = n /\ y = x THEN v ELSE st[i].vars[y]
  <2>1. t = SetVar(st, x, n, v)
    BY <1>2, <1>6, <1>8
  <2> QED
    BY <1>3, <1>4, <1>7, <2>1, VarSet
<1>10. /\ DOMAIN st = 1..Len(st) /\ DOMAIN t = 1..Len(t)
       /\ \A i \in 1..Len(st) : st[i].vars \in [Names -> Vars(DOMAIN h)]
  BY <1>3, <1>9, StackParts
<1>11. Members(AllValues(h, a)) \subseteq DOMAIN h
  <2>1. \A w \in AllValues(h, a) : MembersOf(w) \subseteq DOMAIN h
    BY <1>3, IsStoreValues, ValueParts DEF Sound
  <2> QED
    BY <2>1 DEF Members
<1>12. VarsApart(t, AllValues(k, b))
  <2> SUFFICES ASSUME NEW i \in 1..Len(st), NEW y \in Names, NEW w \in AllValues(k, b),
                      t[i].vars[y].cell \in MembersOf(w)
               PROVE  FALSE
    BY <1>9, <1>10 DEF VarsApart
  <2>1. MembersOf(w) \subseteq DOMAIN k
    BY <1>4, IsStoreValues, ValueParts DEF Sound
  <2>2. CASE t[i].vars[y] = v
    BY <1>4, <1>7, <1>11, <2>2
  <2>3. CASE t[i].vars[y] = st[i].vars[y]
    <3>1. st[i].vars[y] \in Vars(DOMAIN h)
      BY <1>10
    <3>2. st[i].vars[y].cell \in DOMAIN h
      BY <1>5, <2>1, <2>3, <3>1 DEF Vars, NoVar
    <3>3. st[i].vars[y].cell \in Members(AllValues(h, a))
      BY <1>4, <2>3, <3>2
    <3> QED
      BY <1>3, <1>10, <3>3 DEF VarsApart, Members
  <2> QED
    BY <1>9, <2>2, <2>3
<1>13. Settle(k, b, l)
  BY <1>1, <1>2 DEF Settle
<1>14. l \in SUBSET DOMAIN k
  BY <1>3, <1>4
<1>15. /\ IInv'
       /\ \A d \in DOMAIN heap' : d \in DOMAIN k /\ heap'[d] = k[d]
  BY <1>3, <1>4, <1>8, <1>9, <1>12, <1>13, <1>14, SettleStep
<1>16. CellsStep(heap, arrs, heap')
  BY <1>1, <1>4, <1>15 DEF CellsStep
<1> QED
  BY <1>8, <1>9, <1>15, <1>16

\* register_var
LEMMA BindStep ==
  ASSUME IInv, NEW st, StackOK(st, DOMAIN heap), Scoped(st), VarsApart(st, AllValues(heap, arrs)),
         NEW use, UseOK(use, st), use.op = "let",
         NEW e, Grown(heap, arrs, lent, e), Bind(st, use, e)
  PROVE  IInv' /\ CellsStep(heap, arrs, heap') /\ VarsStep(st, use, stack')
<1> DEFINE n == IF use.found = 0 THEN Len(st) ELSE use.found
           x == use.target.x
<1>1. /\ stack' = SetVar(st, x, n, [cell |-> Stored(e).cell, constant |-> use.constant])
      /\ Settle(Stored(e).heap, e.arrs, lent)
      /\ error' = error
  BY DEF Bind, SetVar
<1>2. /\ x \in Names /\ use.constant \in BOOLEAN /\ use.found = st[Len(st)].names[x]
      /\ n = Slot(st, x) /\ n = (IF use.found = 0 THEN Len(st) ELSE use.found)
  BY TargetNames DEF UseOK, Slot
<1> HIDE DEF n, x
<1>3. /\ IInv' /\ CellsStep(heap, arrs, heap')
      /\ Len(stack') = Len(st)
      /\ \A i \in 1..Len(st), y \in Names :
           stack'[i].vars[y] # st[i].vars[y] => i = n /\ y = x
  <2>1. PICK v, constant : v = [cell |-> Stored(e).cell, constant |-> constant] /\ constant = use.constant
    OBVIOUS
  <2>2. stack' = SetVar(st, x, n, v) /\ constant \in BOOLEAN
    BY <1>1, <1>2, <2>1
  <2>3. n = Slot(st, x) /\ x \in Names
    BY <1>2
  <2> QED
    BY <1>1, <2>1, <2>2, <2>3, VarSetStep
<1>4. /\ n \in {Len(st), st[Len(st)].names[x]}
      /\ st[n].vars[x].constant => use.found = n
  <2>1. CASE st[Len(st)].names[x] # 0
    BY <1>2, <2>1
  <2>2. CASE st[Len(st)].names[x] = 0
    <3>1. Len(st) \in DOMAIN st /\ Len(st) # 0 /\ n = Len(st)
      BY <1>2, <2>2, StackParts
    <3>2. st[n].vars[x] = NoVar
      BY <1>2, <2>2, <3>1 DEF Scoped
    <3> QED
      BY <3>1, <3>2 DEF NoVar
  <2> QED
    BY <2>1, <2>2
<1> QED
  BY <1>3, <1>4 DEF VarsStep, x

\* The contexts are those of st: the cells k and arrays b have no member that was none.
LEMMA SameVarsStep ==
  ASSUME IInv, NEW st, StackOK(st, DOMAIN heap), Scoped(st), VarsApart(st, AllValues(heap, arrs)),
         NEW k, NEW b, Sound(k, b, lent, Nil), DOMAIN heap \subseteq DOMAIN k,
         \A w \in AllValues(k, b) : MembersOf(w) \cap DOMAIN heap \subseteq Members(AllValues(heap, arrs)),
         stack' = st, Settle(k, b, lent), error' = error
  PROVE  IInv' /\ \A c \in DOMAIN heap' : c \in DOMAIN k /\ heap'[c] = k[c]
<1>1. PICK h, a, l : h = heap /\ a = arrs /\ l = lent
  OBVIOUS
<1>2. /\ l \in SUBSET DOMAIN h /\ l \in SUBSET DOMAIN k /\ Sound(k, b, l, Nil) /\ Sound(h, a, l, Nil)
      /\ StackOK(st, DOMAIN h) /\ VarsApart(st, AllValues(h, a)) /\ error' \in BOOLEAN
      /\ DOMAIN h \subseteq DOMAIN k
      /\ \A w \in AllValues(k, b) : MembersOf(w) \cap DOMAIN h \subseteq Members(AllValues(h, a))
  BY <1>1 DEF IInv
<1>3. 0 \notin DOMAIN h /\ 0 \notin DOMAIN k
  BY <1>2 DEF Sound, IsStore
<1>4. \A i \in DOMAIN st, x \in Names : st[i].vars[x].cell \in DOMAIN h \cup {0}
  <2> SUFFICES ASSUME NEW i \in DOMAIN st, NEW x \in Names
               PROVE  st[i].vars[x].cell \in DOMAIN h \cup {0}
    OBVIOUS
  <2>1. st[i].vars[x] \in Vars(DOMAIN h)
    BY <1>2, StackParts
  <2> QED
    BY <2>1 DEF Vars, NoVar
<1>5. StackOK(st, DOMAIN k)
  <2>1. \A i \in DOMAIN st, x \in Names : st[i].vars[x].cell \in DOMAIN k \cup {0}
    BY <1>2, <1>4
  <2> QED
    BY <1>2, <1>3, <2>1, StackOver
<1>6. VarsApart(st, AllValues(k, b))
  <2> SUFFICES ASSUME NEW i \in DOMAIN st, NEW x \in Names, NEW w \in AllValues(k, b),
                      st[i].vars[x].cell \in MembersOf(w)
               PROVE  FALSE
    BY DEF VarsApart
  <2>1. MembersOf(w) \subseteq DOMAIN k
    BY <1>2, IsStoreValues, ValueParts DEF Sound
  <2>2. st[i].vars[x].cell \in DOMAIN h
    BY <1>3, <1>4, <2>1
  <2>3. st[i].vars[x].cell \in Members(AllValues(h, a))
    BY <1>2, <2>2
  <2> QED
    BY <1>2, <2>3 DEF VarsApart, Members
<1>7. Settle(k, b, l)
  BY <1>1 DEF Settle
<1>8. StackOK(stack', DOMAIN k) /\ Scoped(stack') /\ VarsApart(stack', AllValues(k, b))
  BY <1>5, <1>6
<1> QED
  BY <1>2, <1>7, <1>8, SettleStep

\* A variable that is given another cell.
MovedTo(st, x, n, c) == [st EXCEPT ![n].vars[x].cell = c]

LEMMA MovedVar ==
  ASSUME NEW st, NEW C, StackOK(st, C), NEW x \in Names, NEW n, n = st[Len(st)].names[x], n # 0,
         NEW c, NEW v, v = [cell |-> c, constant |-> st[n].vars[x].constant]
  PROVE  MovedTo(st, x, n, c) = SetVar(st, x, n, v)
<1>1. /\ Len(st) \in Nat \ {0} /\ DOMAIN st = 1..Len(st)
      /\ \A i \in 1..Len(st) : /\ st[i] \in Contexts(C, Len(st))
                               /\ st[i].names \in [Names -> 0..Len(st)]
                               /\ st[i].vars \in [Names -> Vars(C)]
      /\ st = [i \in 1..Len(st) |-> st[i]]
  BY StackParts
<1>2. Len(st) \in 1..Len(st) /\ n \in 1..Len(st)
  BY <1>1
<1>3. [st EXCEPT ![Len(st)].names[x] = n] = st
  <2>1. [st[Len(st)].names EXCEPT ![x] = n] = st[Len(st)].names
    BY <1>1, <1>2
  <2>2. [st[Len(st)] EXCEPT !.names = st[Len(st)].names] = st[Len(st)]
    BY <1>1, <1>2 DEF Contexts
  <2>3. [st EXCEPT ![Len(st)] = st[Len(st)]] = st
    BY <1>1
  <2> QED
    BY <2>1, <2>2, <2>3
<1>4. [st[n].vars[x] EXCEPT !.cell = c] = v
  <2>1. st[n].vars[x] \in Vars(C)
    BY <1>1, <1>2
  <2>2. PICK d, k : st[n].vars[x] = [cell |-> d, constant |-> k]
    <3>1. CASE st[n].vars[x] = NoVar
      BY <3>1 DEF NoVar
    <3>2. CASE st[n].vars[x] \in [cell : C, constant : BOOLEAN]
      BY <3>2
    <3> QED
      BY <2>1, <3>1, <3>2 DEF Vars
  <2>3. [[cell |-> d, constant |-> k] EXCEPT !.cell = c] = [cell |-> c, constant |-> k]
    OBVIOUS
  <2> QED
    BY <2>2, <2>3
<1>5. SetVar(st, x, n, v) = [st EXCEPT ![n].vars[x] = v]
  BY <1>3 DEF SetVar
<1> QED
  BY <1>4, <1>5 DEF MovedTo

\* assign_var
LEMMA AssignVarStep ==
  ASSUME IInv, NEW st, StackOK(st, DOMAIN heap), Scoped(st), VarsApart(st, AllValues(heap, arrs)),
         NEW e, Grown(heap, arrs, lent, e), NEW use, NEW x \in Names,
         st[Len(st)].names[x] # 0, ~ VarOf(st, x).constant, AssignVar(st, x, e), error' = error
  PROVE  IInv' /\ CellsStep(heap, arrs, heap') /\ VarsStep(st, use, stack')
<1> DEFINE n == st[Len(st)].names[x]
<1>1. PICK v, constant : /\ constant = st[n].vars[x].constant
                         /\ v = [cell |-> Stored(e).cell, constant |-> constant]
  OBVIOUS
<1>2. n = Slot(st, x) /\ n # 0 /\ n = st[Len(st)].names[x] /\ ~ st[n].vars[x].constant
  BY DEF Slot, VarOf
<1>3. /\ stack' = MovedTo(st, x, n, Stored(e).cell)
      /\ Settle(Stored(e).heap, e.arrs, lent)
  BY DEF AssignVar, MovedTo
<1> HIDE DEF n
<1>4. stack' = SetVar(st, x, n, v)
  <2>1. PICK c : c = Stored(e).cell
    OBVIOUS
  <2>2. MovedTo(st, x, n, c) = SetVar(st, x, n, v)
    BY <1>1, <1>2, <2>1, MovedVar
  <2> QED
    BY <1>3, <2>1, <2>2
<1>5. constant \in BOOLEAN
  <2>1. VarOf(st, x) \in Vars(DOMAIN heap)
    BY InScope
  <2>2. st[n].vars[x] = VarOf(st, x)
    BY <1>2 DEF VarOf
  <2>3. \A w \in Vars(DOMAIN heap) : w.constant \in BOOLEAN
    <3>1. NoVar.constant = FALSE
      BY DEF NoVar
    <3>2. NoVar.constant \in BOOLEAN
      BY <3>1
    <3>3. \A w \in [cell : DOMAIN heap, constant : BOOLEAN] : w.constant \in BOOLEAN
      OBVIOUS
    <3> QED
      BY <3>2, <3>3 DEF Vars
  <2> QED
    BY <1>1, <2>1, <2>2, <2>3
<1>6. /\ IInv' /\ CellsStep(heap, arrs, heap')
      /\ Len(stack') = Len(st)
      /\ \A i \in 1..Len(st), y \in Names :
           stack'[i].vars[y] # st[i].vars[y] => i = n /\ y = x
  <2>1. n = Slot(st, x) /\ v = [cell |-> Stored(e).cell, constant |-> constant]
    BY <1>1, <1>2
  <2>2. Settle(Stored(e).heap, e.arrs, lent)
    BY <1>3
  <2> QED
    BY <1>4, <1>5, <2>1, <2>2, VarSetStep
<1> QED
  BY <1>2, <1>6 DEF VarsStep

LEMMA SameVars ==
  ASSUME NEW st, NEW use
  PROVE  VarsStep(st, use, st)
BY DEF VarsStep

\* assign_member
LEMMA AssignFieldStep ==
  ASSUME IInv, NEW st, StackOK(st, DOMAIN heap), Scoped(st), VarsApart(st, AllValues(heap, arrs)),
         NEW e, Grown(heap, arrs, lent, e), NEW use, NEW x \in Names,
         st[Len(st)].names[x] # 0, NEW f \in Fields \ ConstFields,
         Deref(heap[VarOf(st, x).cell]).k = "struct", AssignField(st, x, f, e), error' = error
  PROVE  IInv' /\ CellsStep(heap, arrs, heap') /\ VarsStep(st, use, stack')
<1>1. PICK w, cell, c : /\ w = Deref(heap[VarOf(st, x).cell]) /\ cell = w.m[f]
                        /\ c = Copy(e)
  OBVIOUS
<1>2. w \in AllValues(heap, arrs) /\ w.k = "struct" /\ cell \in DOMAIN heap
  <2>1. heap[VarOf(st, x).cell] \in AllValues(heap, arrs)
    BY InScope DEF AllValues
  <2> QED
    BY <1>1, <2>1, DerefValue
<1>3. /\ Grown(heap, arrs, lent, c) /\ Own(heap, c.heap, c.val) /\ c.arrs = e.arrs
  <2>1. lent \in SUBSET DOMAIN heap
    BY DEF IInv
  <2> QED
    BY <1>1, <2>1, CopyGrown
<1>4. /\ Sound(c.heap, e.arrs, lent, c.val) /\ Extends(heap, c.heap)
  BY <1>3 DEF Grown
<1>5. PICK k : k = [c.heap EXCEPT ![cell] = c.val]
  OBVIOUS
<1>6. Sound(k, e.arrs, lent, c.val)
  BY <1>2, <1>3, <1>4, <1>5, PutCell
<1>7. Sound(k, e.arrs, lent, Nil)
  <2>1. Nil \in Values(DOMAIN k, DOMAIN e.arrs) /\ Nil.k # "struct"
    BY NilIsValue
  <2> QED
    BY <1>6, <2>1, SoundPart
<1>8. /\ DOMAIN k = DOMAIN c.heap
      /\ \A d \in DOMAIN k : k[d] = IF d = cell THEN c.val ELSE c.heap[d]
  <2>1. c.heap = [d \in DOMAIN c.heap |-> c.heap[d]]
    BY <1>4 DEF Sound, IsStore
  <2> QED
    BY <1>5, <2>1
<1>9. \A u \in AllValues(k, e.arrs) : MembersOf(u) \cap DOMAIN heap \subseteq Members(AllValues(heap, arrs))
  <2> SUFFICES ASSUME NEW u \in AllValues(k, e.arrs)
               PROVE  MembersOf(u) \cap DOMAIN heap \subseteq Members(AllValues(heap, arrs))
    OBVIOUS
  <2>1. u \in AllValues(c.heap, c.arrs) \cup {c.val}
    BY <1>3, <1>8 DEF AllValues
  <2> QED
    BY <1>3, <2>1 DEF Grown
<1>10. stack' = st /\ Settle(k, e.arrs, lent) /\ DOMAIN heap \subseteq DOMAIN k
  <2>1. Settle(k, e.arrs, lent) /\ stack' = st
    BY <1>1, <1>5 DEF AssignField
  <2> QED
    BY <1>4, <1>8, <2>1 DEF Extends
<1>11. IInv' /\ \A d \in DOMAIN heap' : d \in DOMAIN k /\ heap'[d] = k[d]
  BY <1>7, <1>9, <1>10, SameVarsStep
<1>12. CellsStep(heap, arrs, heap')
  BY <1>1, <1>2, <1>4, <1>8, <1>11 DEF CellsStep, Extends
<1> QED
  BY <1>10, <1>11, <1>12, SameVars

\* assign_arr_el
LEMMA AssignElementStep ==
  ASSUME IInv, NEW st, StackOK(st, DOMAIN heap), Scoped(st), VarsApart(st, AllValues(heap, arrs)),
         NEW e, Grown(heap, arrs, lent, e), NEW use, NEW x \in Names,
         AssignElement(st, x, e), error' = error
  PROVE  IInv' /\ CellsStep(heap, arrs, heap') /\ VarsStep(st, use, stack')
<1>1. PICK b, k, v : k = e.heap /\ v = e.val /\ b = [e.arrs EXCEPT ![heap[VarOf(st, x).cell].a] = e.val]
  OBVIOUS
<1>2. Sound(k, e.arrs, lent, v) /\ Extends(heap, k)
  BY <1>1 DEF Grown
<1>3. e.arrs = [d \in DOMAIN e.arrs |-> e.arrs[d]] /\ IsFiniteSet(DOMAIN e.arrs) /\ DOMAIN e.arrs \subseteq Nat \ {0}
  BY <1>2 DEF Sound, IsStore
<1>4. /\ DOMAIN b = DOMAIN e.arrs /\ b = [d \in DOMAIN b |-> b[d]]
      /\ \A d \in DOMAIN b : b[d] = v \/ (d \in DOMAIN e.arrs /\ b[d] = e.arrs[d])
  BY <1>1, <1>3
<1>5. Sound(k, b, lent, Nil)
  <2>1. IsFiniteSet(DOMAIN b) /\ DOMAIN b \subseteq Nat \ {0} /\ DOMAIN e.arrs \subseteq DOMAIN b
    BY <1>3, <1>4
  <2>2. Nil \in {Nil} \cup {Arr(d) : d \in DOMAIN b}
    OBVIOUS
  <2> QED
    BY <1>2, <1>4, <2>1, <2>2, PutElement
<1>6. \A u \in AllValues(k, b) : MembersOf(u) \cap DOMAIN heap \subseteq Members(AllValues(heap, arrs))
  <2> SUFFICES ASSUME NEW u \in AllValues(k, b)
               PROVE  MembersOf(u) \cap DOMAIN heap \subseteq Members(AllValues(heap, arrs))
    OBVIOUS
  <2>1. u \in AllValues(e.heap, e.arrs) \cup {e.val}
    BY <1>1, <1>4 DEF AllValues
  <2> QED
    BY <2>1 DEF Grown
<1>7. stack' = st /\ Settle(k, b, lent)
  BY <1>1 DEF AssignElement
<1>8. DOMAIN heap \subseteq DOMAIN k
  BY <1>2 DEF Extends
<1>9. IInv' /\ \A d \in DOMAIN heap' : d \in DOMAIN k /\ heap'[d] = k[d]
  BY <1>5, <1>6, <1>7, <1>8, SameVarsStep
<1>10. CellsStep(heap, arrs, heap')
  BY <1>2, <1>9 DEF CellsStep, Extends
<1> QED
  BY <1>7, <1>9, <1>10, SameVars

\* An error, or the end of the program.
LEMMA StoppedStep ==
  ASSUME IInv, error' \in BOOLEAN, UNCHANGED <<heap, arrs, stack, lent>>
  PROVE  IInv' /\ CellsStep(heap, arrs, heap') /\ stack' = stack
<1>1. Sound(heap, arrs, lent, Nil)' /\ (lent \subseteq DOMAIN heap)'
  BY DEF IInv
<1>2. StackOK(stack, DOMAIN heap)' /\ Scoped(stack)' /\ VarsApart(stack, AllValues(heap, arrs))'
  BY DEF IInv
<1>3. IInv'
  BY <1>1, <1>2 DEF IInv
<1> QED
  BY <1>3 DEF CellsStep

\* assign
LEMMA AssignStep ==
  ASSUME IInv, NEW st, StackOK(st, DOMAIN heap), Scoped(st), VarsApart(st, AllValues(heap, arrs)),
         NEW e, Grown(heap, arrs, lent, e), NEW use, NEW target \in Targets, Assign(st, target, e)
  PROVE  IInv' /\ CellsStep(heap, arrs, heap') /\ (stack' = stack \/ VarsStep(st, use, stack'))
<1>1. CASE Fail
  BY <1>1, StoppedStep DEF Fail
<1>2. CASE ~ Fail
  <2>1. target.x \in Names /\ target.f \in Fields /\ target.t \in {"name", "member", "element"}
    BY DEF Targets
  <2>2. CanAssign(st, target, e.val) /\ error' = error
    BY <1>2 DEF Assign
  <2>3. st[Len(st)].names[target.x] # 0
    BY <2>2 DEF CanAssign
  <2>4. CASE target.t = "name"
    <3>1. AssignVar(st, target.x, e)
      BY <1>2, <2>4 DEF Assign
    <3>2. ~ VarOf(st, target.x).constant
      BY <2>2, <2>4 DEF CanAssign
    <3> QED
      BY <2>1, <2>2, <2>3, <3>1, <3>2, AssignVarStep
  <2>5. CASE target.t = "member"
    <3>1. AssignField(st, target.x, target.f, e)
      BY <1>2, <2>5 DEF Assign
    <3>2. Deref(heap[VarOf(st, target.x).cell]).k = "struct" /\ target.f \in Fields \ ConstFields
      BY <2>1, <2>2, <2>5 DEF CanAssign
    <3> QED
      BY <2>1, <2>2, <2>3, <3>1, <3>2, AssignFieldStep
  <2>6. CASE target.t = "element"
    <3>1. AssignElement(st, target.x, e)
      BY <1>2, <2>6 DEF Assign
    <3> QED
      BY <2>1, <2>2, <3>1, AssignElementStep
  <2> QED
    BY <2>1, <2>4, <2>5, <2>6
<1> QED
  BY <1>1, <1>2

LEMMA MembersWithin ==
  ASSUME NEW h, NEW a, IsStore(h, a), NEW w \in AllValues(h, a)
  PROVE  MembersOf(w) \subseteq DOMAIN h /\ 0 \notin MembersOf(w)
<1>1. MembersOf(w) \subseteq DOMAIN h
  BY IsStoreValues, ValueParts
<1> QED
  BY <1>1 DEF IsStore

LEMMA TakeStep ==
  ASSUME IInv, NEW st, StackOK(st, DOMAIN heap), Scoped(st), VarsApart(st, AllValues(heap, arrs)),
         NEW e, Grown(heap, arrs, lent, e), NEW use, UseOK(use, st), Take(st, use, e)
  PROVE  IInv' /\ CellsStep(heap, arrs, heap') /\ (stack' = stack \/ VarsStep(st, use, stack'))
<1>1. use.op \in {"drop", "let", "assign"} /\ use.target \in Targets
  BY DEF UseOK
<1>2. CASE use.op = "let"
  <2>1. Bind(st, use, e)
    BY <1>2 DEF Take
  <2> QED
    BY <1>2, <2>1, BindStep
<1>3. CASE use.op = "assign"
  <2>1. Assign(st, use.target, e)
    BY <1>3 DEF Take
  <2> QED
    BY <1>1, <2>1, AssignStep
<1>4. CASE use.op = "drop"
  <2>1. stack' = st /\ Settle(heap, arrs, lent) /\ error' = error
    BY <1>4 DEF Take
  <2>2. PICK k, b : k = heap /\ b = arrs
    OBVIOUS
  <2>3. Settle(k, b, lent)
    BY <2>1, <2>2 DEF Settle
  <2>4. Sound(k, b, lent, Nil) /\ DOMAIN heap \subseteq DOMAIN k
    BY <2>2 DEF IInv
  <2>5. \A w \in AllValues(k, b) : MembersOf(w) \cap DOMAIN heap \subseteq Members(AllValues(heap, arrs))
    BY <2>2 DEF Members
  <2>6. IInv' /\ \A c \in DOMAIN heap' : c \in DOMAIN k /\ heap'[c] = k[c]
    BY <2>1, <2>3, <2>4, <2>5, SameVarsStep
  <2>7. CellsStep(heap, arrs, heap')
    BY <2>2, <2>6 DEF CellsStep
  <2> QED
    BY <2>1, <2>6, <2>7, SameVars
<1> QED
  BY <1>1, <1>2, <1>3, <1>4

\* The contexts there were are as they were.
Kept(st, t) == \A i \in 1..Len(st) : i <= Len(t) => t[i].vars = st[i].vars

LEMMA AppendKept ==
  ASSUME NEW st, NEW C, StackOK(st, C), NEW ctx
  PROVE  LET t == Append(st, ctx)
         IN  /\ Kept(st, t) /\ DOMAIN t = 1..(Len(st) + 1) /\ t[Len(st) + 1] = ctx
             /\ \A i \in 1..Len(st) : t[i] = st[i]
<1> DEFINE S == Contexts(C, Len(st)) \cup {ctx}
           t == Append(st, ctx)
<1>1. st \in Seq(S) /\ ctx \in S /\ Len(st) \in Nat
  BY StackParts DEF StackOK
<1> HIDE DEF S
<1>2. /\ t \in Seq(S) /\ Len(t) = Len(st) + 1 /\ t[Len(st) + 1] = ctx
      /\ \A i \in 1..Len(st) : t[i] = st[i]
  BY <1>1, AppendProperties
<1> HIDE DEF t
<1>3. DOMAIN t = 1..Len(t)
  BY <1>2, LenProperties
<1> QED
  BY <1>2, <1>3 DEF Kept, t

LEMMA PushedApart ==
  ASSUME NEW st, NEW C, StackOK(st, C), NEW ctx, NEW V, VarsApart(st, V),
         \A x \in Names, w \in V : ctx.vars[x].cell \notin MembersOf(w)
  PROVE  VarsApart(Append(st, ctx), V)
<1>1. PICK t : t = Append(st, ctx)
  OBVIOUS
<1>2. /\ DOMAIN t = 1..(Len(st) + 1) /\ t[Len(st) + 1] = ctx
      /\ \A i \in 1..Len(st) : t[i] = st[i]
  BY <1>1, AppendKept
<1>3. DOMAIN st = 1..Len(st) /\ Len(st) \in Nat
  BY StackParts
<1>4. \A i \in DOMAIN t : i = Len(st) + 1 \/ i \in DOMAIN st
  BY <1>2, <1>3
<1>5. VarsApart(t, V)
  BY <1>2, <1>3, <1>4 DEF VarsApart
<1> QED
  BY <1>1, <1>5

\* execute_block_expr
LEMMA EnterBlockStep ==
  ASSUME IInv, NEW use, UseOK(use, stack), EnterBlock(use)
  PROVE  IInv' /\ CellsStep(heap, arrs, heap') /\ Kept(stack, stack')
<1>1. PICK ctx : ctx = Context(Top.names, NoVars, FALSE, use)
  OBVIOUS
<1>2. stack' = Append(stack, ctx) /\ UNCHANGED <<heap, arrs, lent, error>>
  BY <1>1 DEF EnterBlock
<1>3. /\ Len(stack) \in Nat \ {0} /\ DOMAIN stack = 1..Len(stack)
      /\ \A x \in Names : Top.names[x] \in 0..Len(stack)
      /\ Top.names \in [Names -> 0..Len(stack)]
  BY StackParts DEF IInv, Top
<1>4. /\ ctx.names = Top.names /\ ctx.vars = NoVars /\ ctx.call = FALSE /\ ctx.op = use.op
      /\ ctx.target = use.target /\ ctx.found = use.found
      /\ ctx = [names |-> Top.names, vars |-> NoVars, call |-> FALSE, op |-> use.op,
                target |-> use.target, found |-> use.found, constant |-> use.constant]
  BY <1>1 DEF Context
<1>5. ctx \in Contexts(DOMAIN heap, Len(stack) + 1)
  <2>1. Top.names \in [Names -> 0..(Len(stack) + 1)]
    BY <1>3
  <2>2. NoVars \in [Names -> Vars(DOMAIN heap)]
    BY DEF NoVars, Vars
  <2>3. use.found \in 0..(Len(stack) + 1)
    BY <1>3 DEF UseOK
  <2> QED
    BY <1>4, <2>1, <2>2, <2>3 DEF Contexts, UseOK
<1>6. \A x \in Names :
        /\ ctx.vars[x] # NoVar <=> ctx.names[x] = Len(stack) + 1
        /\ ctx.names[x] \notin {0, Len(stack) + 1} => stack[ctx.names[x]].vars[x] # NoVar
  BY <1>3, <1>4 DEF NoVars, IInv, StackOK, Top
<1>7. StackOK(stack', DOMAIN heap) /\ Scoped(stack')
  <2>1. ctx.found <= Len(stack)
    BY <1>3, <1>4 DEF UseOK
  <2>2. ctx.op = "let" => ctx.found = stack[Len(stack)].names[ctx.target.x]
    BY <1>4 DEF UseOK
  <2>3. ~ ctx.call /\ ctx.names = stack[Len(stack)].names
    BY <1>4 DEF Top
  <2> QED
    BY <1>2, <1>5, <1>6, <2>1, <2>2, <2>3, Pushed DEF IInv
<1>8. VarsApart(stack', AllValues(heap, arrs))
  <2>1. \A x \in Names, w \in AllValues(heap, arrs) : ctx.vars[x].cell \notin MembersOf(w)
    BY <1>4, MembersWithin DEF NoVars, NoVar, IInv, Sound
  <2> QED
    BY <1>2, <2>1, PushedApart DEF IInv
<1>9. IInv'
  BY <1>2, <1>7, <1>8 DEF IInv
<1>10. Kept(stack, stack')
  BY <1>2, AppendKept DEF IInv
<1> QED
  BY <1>2, <1>9, <1>10 DEF CellsStep

\* exec_func
LEMMA EnterCallStep ==
  ASSUME IInv, NEW use, UseOK(use, stack), NEW p \in Names,
         NEW e, Grown(heap, arrs, lent, e), EnterCall(use, p, e)
  PROVE  IInv' /\ CellsStep(heap, arrs, heap') /\ Kept(stack, stack')
<1> DEFINE n == Len(stack) + 1
<1>1. PICK new, names, vars, k, l :
        /\ new = New(DOMAIN e.heap)
        /\ names = [stack[1].names EXCEPT ![p] = n]
        /\ vars = [NoVars EXCEPT ![p] = [cell |-> new, constant |-> FALSE]]
        /\ k = [c \in DOMAIN e.heap \cup {new} |-> IF c = new THEN e.val ELSE e.heap[c]]
        /\ l = lent \cup {new}
  OBVIOUS
<1>2. PICK ctx : ctx = Context(names, vars, TRUE, use)
  OBVIOUS
<1>3. /\ stack' = Append(stack, ctx) /\ error' = error
      /\ Settle(k, e.arrs, l)
  BY <1>1, <1>2 DEF EnterCall, Call
<1>4. Sound(e.heap, e.arrs, lent, e.val) /\ Extends(heap, e.heap) /\ lent \in SUBSET DOMAIN e.heap
  BY DEF Grown, Extends, IInv
<1>5. new \in Nat \ {0} /\ new \notin DOMAIN e.heap
  BY <1>1, <1>4, NewIsNew DEF Sound, IsStore
<1>6. /\ DOMAIN k = DOMAIN e.heap \cup {new} /\ k[new] = e.val
      /\ \A c \in DOMAIN e.heap : k[c] = e.heap[c]
      /\ k = [c \in DOMAIN e.heap \cup {new} |-> IF c \in DOMAIN e.heap THEN e.heap[c] ELSE e.val]
  BY <1>1, <1>5
<1>7. Sound(k, e.arrs, l, Nil)
  <2>1. PICK h, a, v, m : h = e.heap /\ a = e.arrs /\ v = e.val /\ m = lent
    OBVIOUS
  <2>2. m \in SUBSET DOMAIN h /\ Sound(h, a, m, v) /\ new \in Nat \ {0} /\ new \notin DOMAIN h
    BY <1>4, <1>5, <2>1
  <2>3. Sound(WithCells(h, {new}, v), a, m \cup {new}, v)
    BY <2>2, AddLent
  <2>7. Sound(k, e.arrs, l, e.val)
    BY <1>1, <1>6, <2>1, <2>3 DEF WithCells
  <2>8. Nil \in Values(DOMAIN k, DOMAIN e.arrs) /\ Nil.k # "struct"
    BY NilIsValue
  <2> QED
    BY <2>7, <2>8, SoundPart
<1>8. l \in SUBSET DOMAIN k /\ DOMAIN heap \subseteq DOMAIN k
  BY <1>1, <1>4, <1>6 DEF Extends
<1>9. /\ Len(stack) \in Nat \ {0} /\ DOMAIN stack = 1..Len(stack) /\ 1 \in 1..Len(stack)
      /\ \A x \in Names : stack[1].names[x] \in 0..1
      /\ stack[1].names \in [Names -> 0..Len(stack)]
      /\ \A i \in 1..Len(stack) : stack[i].vars \in [Names -> Vars(DOMAIN heap)]
  BY StackParts DEF IInv
<1>10. /\ names \in [Names -> 0..n] /\ names[p] = n
       /\ \A x \in Names \ {p} : names[x] = stack[1].names[x]
  BY <1>1, <1>9
<1>11. /\ vars \in [Names -> Vars(DOMAIN k)] /\ vars[p].cell = new /\ vars[p] # NoVar
       /\ \A x \in Names \ {p} : vars[x] = NoVar
  <2>1. vars = [x \in Names |-> IF x = p THEN [cell |-> new, constant |-> FALSE] ELSE NoVar]
    BY <1>1 DEF NoVars
  <2>2. [cell |-> new, constant |-> FALSE] \in Vars(DOMAIN k) /\ NoVar \in Vars(DOMAIN k)
    BY <1>6 DEF Vars
  <2>3. [cell |-> new, constant |-> FALSE] # NoVar
    BY <1>5 DEF NoVar
  <2> QED
    BY <2>1, <2>2, <2>3
<1>12. /\ ctx.names = names /\ ctx.vars = vars /\ ctx.call = TRUE /\ ctx.op = use.op
       /\ ctx.target = use.target /\ ctx.found = use.found
       /\ ctx = [names |-> names, vars |-> vars, call |-> TRUE, op |-> use.op,
                 target |-> use.target, found |-> use.found, constant |-> use.constant]
  BY <1>2 DEF Context
<1>13. ctx \in Contexts(DOMAIN k, Len(stack) + 1)
  <2>1. use.found \in 0..(Len(stack) + 1)
    BY <1>9 DEF UseOK
  <2> QED
    BY <1>10, <1>11, <1>12, <2>1 DEF Contexts, UseOK
<1>14. \A x \in Names :
         /\ ctx.vars[x] # NoVar <=> ctx.names[x] = Len(stack) + 1
         /\ ctx.names[x] \notin {0, Len(stack) + 1} => stack[ctx.names[x]].vars[x] # NoVar
         /\ ctx.names[x] \in {0, 1, Len(stack) + 1}
  <2> SUFFICES ASSUME NEW x \in Names
               PROVE  /\ vars[x] # NoVar <=> names[x] = n
                      /\ names[x] \notin {0, n} => stack[names[x]].vars[x] # NoVar
                      /\ names[x] \in {0, 1, n}
    BY <1>12
  <2>1. CASE x = p
    BY <1>10, <1>11, <2>1
  <2>2. CASE x # p
    <3>1. names[x] = stack[1].names[x] /\ vars[x] = NoVar /\ names[x] \in 0..1 /\ n # 0 /\ n # 1
      BY <1>9, <1>10, <1>11, <2>2
    <3>2. stack[1].names[x] # 0 => stack[stack[1].names[x]].vars[x] # NoVar
      BY <1>9 DEF IInv, StackOK
    <3> QED
      BY <3>1, <3>2
  <2> QED
    BY <2>1, <2>2
<1>15. StackOK(stack', DOMAIN k) /\ Scoped(stack')
  <2>1. ctx.found <= Len(stack)
    BY <1>9, <1>12 DEF UseOK
  <2>2. ctx.op = "let" => ctx.found = stack[Len(stack)].names[ctx.target.x]
    BY <1>12 DEF UseOK
  <2> QED
    BY <1>3, <1>8, <1>12, <1>13, <1>14, <2>1, <2>2, Pushed DEF IInv
<1>16. VarsApart(stack', AllValues(k, e.arrs))
  <2>1. \A w \in AllValues(k, e.arrs) :
          /\ MembersOf(w) \subseteq DOMAIN e.heap /\ 0 \notin MembersOf(w)
          /\ MembersOf(w) \cap DOMAIN heap \subseteq Members(AllValues(heap, arrs))
    <3> SUFFICES ASSUME NEW w \in AllValues(k, e.arrs)
                 PROVE  /\ MembersOf(w) \subseteq DOMAIN e.heap /\ 0 \notin MembersOf(w)
                        /\ MembersOf(w) \cap DOMAIN heap \subseteq Members(AllValues(heap, arrs))
      OBVIOUS
    <3>1. w \in AllValues(e.heap, e.arrs) \cup {e.val}
      BY <1>6 DEF AllValues
    <3>2. w \in Values(DOMAIN e.heap, DOMAIN e.arrs)
      BY <1>4, <3>1, IsStoreValues DEF Sound
    <3>3. MembersOf(w) \subseteq DOMAIN e.heap
      BY <3>2, ValueParts
    <3>4. 0 \notin DOMAIN e.heap
      BY <1>4 DEF Sound, IsStore
    <3> QED
      BY <3>1, <3>3, <3>4 DEF Grown
  <2>2. VarsApart(stack, AllValues(k, e.arrs))
    <3> SUFFICES ASSUME NEW i \in 1..Len(stack), NEW x \in Names, NEW w \in AllValues(k, e.arrs),
                        stack[i].vars[x].cell \in MembersOf(w)
                 PROVE  FALSE
      BY <1>9 DEF VarsApart
    <3>1. stack[i].vars[x] \in Vars(DOMAIN heap)
      BY <1>9
    <3>2. stack[i].vars[x].cell \in DOMAIN heap
      BY <2>1, <3>1 DEF Vars, NoVar
    <3>3. stack[i].vars[x].cell \in Members(AllValues(heap, arrs))
      BY <2>1, <3>2
    <3> QED
      BY <1>9, <3>3 DEF VarsApart, Members, IInv
  <2>3. \A x \in Names, w \in AllValues(k, e.arrs) : ctx.vars[x].cell \notin MembersOf(w)
    BY <1>5, <1>11, <1>12, <2>1 DEF NoVar
  <2> QED
    BY <1>3, <2>2, <2>3, PushedApart DEF IInv
<1>17. error' \in BOOLEAN
  BY <1>3 DEF IInv
<1>18. IInv' /\ \A c \in DOMAIN heap' : c \in DOMAIN k /\ heap'[c] = k[c]
  BY <1>3, <1>7, <1>8, <1>15, <1>16, <1>17, SettleStep
<1>19. CellsStep(heap, arrs, heap')
  <2>1. \A c \in DOMAIN heap : k[c] = heap[c]
    BY <1>4, <1>6 DEF Extends
  <2> QED
    BY <1>18, <2>1 DEF CellsStep
<1>20. Kept(stack, stack')
  BY <1>3, AppendKept DEF IInv
<1> QED
  BY <1>18, <1>19, <1>20

LEMMA NestedStep ==
  ASSUME IInv, NEW use, UseOK(use, stack), Nested(use)
  PROVE  IInv' /\ CellsStep(heap, arrs, heap') /\ Kept(stack, stack')
<1>1. CASE EnterBlock(use)
  BY <1>1, EnterBlockStep
<1>2. ASSUME NEW p \in Names, NEW e \in Outcomes, EnterCall(use, p, e)
      PROVE  IInv' /\ CellsStep(heap, arrs, heap') /\ Kept(stack, stack')
  BY <1>2, OutcomesGrown, EnterCallStep
<1> QED
  BY <1>1, <1>2 DEF Nested

LEMMA UsesOK ==
  ASSUME IInv
  PROVE  /\ UseOK(Drop, stack)
         /\ \A target \in Targets : UseOK(AssignUse(target), stack) /\ AssignUse(target).op = "assign"
         /\ \A x \in Names, c \in BOOLEAN :
              /\ UseOK(LetUse(x, c), stack) /\ LetUse(x, c).op = "let"
              /\ LetUse(x, c).target.x = x /\ LetUse(x, c).found = Top.names[x]
<1>1. /\ Len(stack) \in Nat \ {0}
      /\ \A x \in Names : stack[Len(stack)].names[x] \in 0..Len(stack)
  BY StackParts DEF IInv
<1>2. SomeTarget \in Targets
  <2>1. \E t \in Targets : TRUE
    <3>1. PICK x \in Names, f \in Fields : TRUE
      BY NamesAssumption, FieldsAssumption
    <3>2. [t |-> "name", x |-> x, f |-> f] \in Targets
      BY DEF Targets
    <3> QED
      BY <3>2
  <2> QED
    BY <2>1 DEF SomeTarget
<1>3. UseOK(Drop, stack)
  BY <1>1, <1>2 DEF UseOK, Drop
<1>4. \A target \in Targets : UseOK(AssignUse(target), stack) /\ AssignUse(target).op = "assign"
  BY <1>1 DEF UseOK, AssignUse, Drop
<1>5. ASSUME NEW x \in Names, NEW c \in BOOLEAN
      PROVE  /\ UseOK(LetUse(x, c), stack) /\ LetUse(x, c).op = "let"
             /\ LetUse(x, c).target.x = x /\ LetUse(x, c).found = Top.names[x]
  <2>1. [SomeTarget EXCEPT !.x = x] \in Targets /\ [SomeTarget EXCEPT !.x = x].x = x
    BY <1>2 DEF Targets
  <2> QED
    BY <1>1, <2>1 DEF UseOK, LetUse, Top
<1> QED
  BY <1>3, <1>4, <1>5

\* What a step does to the Vars there are: it keeps them, or sets one for the statement
\* that it ends, where a let found no constant, or for the one that a block or a
\* call was for.
Steps(t) ==
  \/ Kept(stack, t)
  \/ \E use : /\ VarsStep(stack, use, t)
              /\ use.op = "let" => /\ use.target.x \in Names
                                   /\ use.found = stack[Len(stack)].names[use.target.x]
                                   /\ CanLet(use.target.x)
  \/ Len(stack) > 1 /\ VarsStep(SubSeq(stack, 1, Len(stack) - 1), stack[Len(stack)], t)

LEMMA KeptSame == ASSUME NEW st PROVE Kept(st, st)
BY DEF Kept

LEMMA LetStep ==
  ASSUME IInv, Let
  PROVE  IInv' /\ CellsStep(heap, arrs, heap') /\ Steps(stack')
<1>1. PICK x \in Names, c \in Constants :
        \/ Fail
        \/ CanLet(x) /\ \E e \in Outcomes \cup {Outcome(Nil)} : Bind(stack, LetUse(x, c), e)
        \/ CanLet(x) /\ Nested(LetUse(x, c))
  BY DEF Let
<1>2. c \in BOOLEAN
  BY DEF Constants
<1>3. PICK use : use = LetUse(x, c)
  OBVIOUS
<1>4. UseOK(use, stack) /\ use.op = "let" /\ use.target.x = x /\ use.found = Top.names[x]
  BY <1>2, <1>3, UsesOK
<1>5. CASE Fail
  BY <1>5, StoppedStep, KeptSame DEF Fail, Steps
<1>6. ASSUME CanLet(x), NEW e \in Outcomes \cup {Outcome(Nil)}, Bind(stack, use, e)
      PROVE  IInv' /\ CellsStep(heap, arrs, heap') /\ Steps(stack')
  <2>1. Grown(heap, arrs, lent, e)
    BY OutcomesGrown
  <2>2. IInv' /\ CellsStep(heap, arrs, heap') /\ VarsStep(stack, use, stack')
    BY <1>4, <1>6, <2>1, BindStep DEF IInv
  <2> QED
    BY <1>4, <1>6, <2>2 DEF Steps, Top
<1>7. CASE Nested(use)
  BY <1>4, <1>7, NestedStep DEF Steps
<1> QED
  BY <1>1, <1>3, <1>5, <1>6, <1>7

LEMMA AssignStmtStep ==
  ASSUME IInv, AssignStmt
  PROVE  IInv' /\ CellsStep(heap, arrs, heap') /\ Steps(stack')
<1>1. PICK target \in Targets :
        \/ \E e \in Outcomes : Assign(stack, target, e)
        \/ Nested(AssignUse(target))
  BY DEF AssignStmt
<1>2. PICK use : use = AssignUse(target)
  OBVIOUS
<1>3. UseOK(use, stack) /\ use.op = "assign"
  BY <1>2, UsesOK
<1>4. ASSUME NEW e \in Outcomes, Assign(stack, target, e)
      PROVE  IInv' /\ CellsStep(heap, arrs, heap') /\ Steps(stack')
  <2>1. Grown(heap, arrs, lent, e)
    BY OutcomesGrown
  <2>2. IInv' /\ CellsStep(heap, arrs, heap') /\ (stack' = stack \/ VarsStep(stack, use, stack'))
    BY <1>4, <2>1, AssignStep DEF IInv
  <2> QED
    BY <1>3, <2>2, KeptSame DEF Steps
<1>5. CASE Nested(use)
  BY <1>3, <1>5, NestedStep DEF Steps
<1> QED
  BY <1>1, <1>2, <1>4, <1>5

LEMMA LeaveStep ==
  ASSUME IInv, Leave
  PROVE  IInv' /\ CellsStep(heap, arrs, heap') /\ Steps(stack')
<1>1. PICK e \in Outcomes : Take(SubSeq(stack, 1, Len(stack) - 1), Top, e)
  BY DEF Leave
<1>2. PICK st, use : st = SubSeq(stack, 1, Len(stack) - 1) /\ use = stack[Len(stack)]
  OBVIOUS
<1>3. Len(stack) > 1 /\ Take(st, use, e)
  BY <1>1, <1>2 DEF Leave, Top
<1>4. Grown(heap, arrs, lent, e)
  BY OutcomesGrown
<1>5. /\ StackOK(st, DOMAIN heap) /\ Scoped(st) /\ UseOK(use, st)
      /\ Len(st) = Len(stack) - 1
      /\ \A i \in 1..Len(st) : st[i] = stack[i]
  BY <1>2, <1>3, Popped DEF IInv
<1>6. VarsApart(st, AllValues(heap, arrs))
  <2>1. DOMAIN st = 1..Len(st) /\ DOMAIN stack = 1..Len(stack) /\ Len(stack) \in Nat
    BY <1>5, StackParts DEF IInv
  <2>2. \A i \in DOMAIN st : i \in DOMAIN stack
    BY <1>5, <2>1
  <2> QED
    BY <1>5, <2>1, <2>2 DEF VarsApart, IInv
<1>7. IInv' /\ CellsStep(heap, arrs, heap') /\ (stack' = stack \/ VarsStep(st, use, stack'))
  BY <1>3, <1>4, <1>5, <1>6, TakeStep
<1> QED
  BY <1>2, <1>3, <1>7, KeptSame DEF Steps

LEMMA NextStep ==
  ASSUME IInv, [Next]_store
  PROVE  IInv' /\ CellsStep(heap, arrs, heap') /\ Steps(stack')
<1>1. CASE Let
  BY <1>1, LetStep
<1>2. CASE AssignStmt
  BY <1>2, AssignStmtStep
<1>3. CASE ExprStmt
  BY <1>3, NestedStep, UsesOK DEF ExprStmt, Steps
<1>4. CASE Leave
  BY <1>4, LeaveStep
<1>5. CASE UNCHANGED store
  <2>1. error' \in BOOLEAN
    BY <1>5 DEF IInv, store
  <2> QED
    BY <1>5, <2>1, StoppedStep, KeptSame DEF store, Steps
<1> QED
  BY <1>1, <1>2, <1>3, <1>4, <1>5 DEF Next, End

LEMMA InitStep ==
  ASSUME Init
  PROVE  IInv
<1>1. PICK ctx : ctx = Context([x \in Names |-> 0], NoVars, FALSE, Drop)
  OBVIOUS
<1>2. heap = <<>> /\ arrs = <<>> /\ lent = {} /\ error = FALSE /\ stack = <<ctx>>
  BY <1>1 DEF Init
<1>3. DOMAIN heap = {} /\ DOMAIN arrs = {}
  BY <1>2
<1>4. /\ ctx.names = [x \in Names |-> 0] /\ ctx.vars = NoVars /\ ctx.call = FALSE
      /\ ctx.op = "drop" /\ ctx.found = 0
      /\ ctx = [names |-> [x \in Names |-> 0], vars |-> NoVars, call |-> FALSE, op |-> "drop",
                target |-> SomeTarget, found |-> 0, constant |-> FALSE]
  BY <1>1 DEF Context, Drop
<1>5. SomeTarget \in Targets
  <2>1. PICK x \in Names, f \in Fields : TRUE
    BY NamesAssumption, FieldsAssumption
  <2>2. [t |-> "name", x |-> x, f |-> f] \in Targets
    BY DEF Targets
  <2> QED
    BY <2>2 DEF SomeTarget
<1>6. ctx \in Contexts(DOMAIN heap, 1)
  <2>1. NoVars \in [Names -> Vars(DOMAIN heap)] /\ [x \in Names |-> 0] \in [Names -> 0..1]
    BY DEF NoVars, Vars
  <2> QED
    BY <1>4, <1>5, <2>1 DEF Contexts
<1>7. stack = [i \in 1..1 |-> stack[i]] /\ stack[1] = ctx /\ DOMAIN stack = {1}
  BY <1>2
<1>8. StackOK(stack, DOMAIN heap)
  <2>1. PICK n : n = 1
    OBVIOUS
  <2>2. n \in Nat \ {0} /\ stack = [i \in 1..n |-> stack[i]]
    BY <1>7, <2>1
  <2>3. \A i \in 1..n : stack[i] \in Contexts(DOMAIN heap, n)
    BY <1>6, <1>7, <2>1
  <2>4. \A i \in 1..n : \A x \in Names :
          /\ stack[i].names[x] <= i
          /\ stack[i].names[x] # 0 => stack[stack[i].names[x]].vars[x] # NoVar
    BY <1>4, <1>7, <2>1
  <2>5. \A i \in 1..n : stack[i].found < i \/ i = 1
    BY <2>1
  <2> QED
    BY <2>2, <2>3, <2>4, <2>5, StackIntro
<1>9. Scoped(stack)
  BY <1>4, <1>7 DEF Scoped, NoVars
<1>10. AllValues(heap, arrs) = {}
  BY <1>3 DEF AllValues
<1>11. Sound(heap, arrs, lent, Nil)
  <2>1. IsStore(heap, arrs)
    <3>1. IsFiniteSet({})
      BY FS_EmptySet
    <3>2. heap \in [{} -> Values({}, {})] /\ arrs \in [{} -> Values({}, {})]
      BY <1>2
    <3> QED
      BY <1>3, <3>1, <3>2 DEF IsStore
  <2>2. Nil \in Values(DOMAIN heap, DOMAIN arrs) /\ Nil.k # "struct"
    BY NilIsValue
  <2> QED
    BY <1>2, <1>3, <1>10, <2>1, <2>2 DEF Sound, Apart, Tree, Single
<1>12. VarsApart(stack, AllValues(heap, arrs))
  BY <1>10 DEF VarsApart
<1> QED
  BY <1>2, <1>8, <1>9, <1>11, <1>12 DEF IInv

THEOREM Invariance == Spec => []IInv
<1>1. Init => IInv
  BY InitStep
<1>2. IInv /\ [Next]_store => IInv'
  BY NextStep
<1> QED
  BY <1>1, <1>2, PTL DEF Spec

-----------------------------------------------------------------------------
(* What follows *)

LEMMA Invariants ==
  ASSUME IInv
  PROVE  TypeOK /\ Forest /\ Acyclic
<1>1. IsStore(heap, arrs) /\ Apart(AllValues(heap, arrs)) /\ Tree(heap)
      /\ Single(heap, DOMAIN heap \ lent)
  BY DEF IInv, Sound, Apart
<1>2. TypeOK
  <2>1. \A c \in DOMAIN heap : heap[c] \in Values(DOMAIN heap, DOMAIN arrs)
    BY <1>1 DEF IsStore
  <2>2. \A a \in DOMAIN arrs : arrs[a] \in Values(DOMAIN heap, DOMAIN arrs)
    BY <1>1 DEF IsStore
  <2> QED
    BY <2>1, <2>2 DEF TypeOK, IInv, StackOK
<1>3. ASSUME NEW c \in DOMAIN heap \ lent, NEW d \in DOMAIN heap \ lent, NEW f \in Fields, NEW g \in Fields,
             heap[c].k = "struct", heap[d].k = "struct", heap[c].m[f] = heap[d].m[g]
      PROVE  c = d /\ f = g
  <2>1. heap[c] = heap[d] /\ f = g
    BY <1>1, <1>3 DEF Apart, AllValues
  <2> QED
    BY <1>1, <1>3, <2>1 DEF Single
<1>4. ASSUME NEW i \in DOMAIN stack, NEW x \in Names, NEW c \in DOMAIN heap
      PROVE  stack[i].vars[x].cell \notin MembersOf(heap[c])
  BY DEF IInv, VarsApart, AllValues
<1>5. Forest
  BY <1>3, <1>4 DEF Forest
<1>6. Acyclic
  BY <1>1 DEF Acyclic, Tree
<1> QED
  BY <1>2, <1>5, <1>6

\* No cell, array or Var in use is missing.
THEOREM Typing == Spec => []TypeOK
<1>1. IInv => TypeOK
  BY Invariants
<1> QED
  BY <1>1, Invariance, PTL

\* Structs share no members, and no variable's cell is a member.
THEOREM NothingShared == Spec => []Forest
<1>1. IInv => Forest
  BY Invariants
<1> QED
  BY <1>1, Invariance, PTL

\* No struct is a part of itself.
THEOREM NoCycle == Spec => []Acyclic
<1>1. IInv => Acyclic
  BY Invariants
<1> QED
  BY <1>1, Invariance, PTL

\* A const field keeps its value: what a step changes is a member, of one struct only
\* and as a field that is not const.
THEOREM FieldsStay == Spec => ConstFieldsKept
<1> DEFINE Keep(c) == heap[c].k = "struct" =>
                        \A f \in ConstFields : heap[c].m[f] \in DOMAIN heap' =>
                          heap'[heap[c].m[f]] = heap[heap[c].m[f]]
<1>1. IInv /\ [Next]_store => \A c \in DOMAIN heap : Keep(c)
  <2> SUFFICES ASSUME IInv, [Next]_store, NEW c \in DOMAIN heap, heap[c].k = "struct",
                      NEW f \in ConstFields, heap[c].m[f] \in DOMAIN heap',
                      heap'[heap[c].m[f]] # heap[heap[c].m[f]]
               PROVE  FALSE
    OBVIOUS
  <2>1. CellsStep(heap, arrs, heap')
    BY NextStep
  <2>2. f \in Fields
    BY FieldsAssumption
  <2>3. heap[c].m[f] \in DOMAIN heap
    BY <2>2, MembersWithin DEF IInv, Sound, AllValues, MembersOf
  <2>4. PICK w \in AllValues(heap, arrs), g \in Fields \ ConstFields :
          w.k = "struct" /\ heap[c].m[f] = w.m[g]
    BY <2>1, <2>3 DEF CellsStep
  <2>5. f = g
    BY <2>2, <2>4 DEF IInv, Sound, Apart, AllValues
  <2> QED
    BY <2>4, <2>5
<1>2. IInv /\ [Next]_store => [\A c \in DOMAIN heap : Keep(c)]_store
  BY <1>1
<1> QED
  BY <1>2, Invariance, PTL DEF Spec, ConstFieldsKept

\* While a function runs, no step sets a variable of its callers.
LEMMA CallerVars ==
  ASSUME NEW st, NEW C, StackOK(st, C), Scoped(st), NEW use, NEW t, VarsStep(st, use, t),
         NEW i \in 1..Len(st), NEW j \in 1..Len(st), 1 < i, i < j, st[j].call, NEW x \in Names
  PROVE  t[i].vars[x] = st[i].vars[x]
<1>1. Len(st) \in Nat /\ DOMAIN st = 1..Len(st)
  BY StackParts
<1>2. st[Len(st)].names[x] \in {0, 1} \cup (j..Len(st))
  BY <1>1 DEF Scoped
<1>3. i # Len(st) /\ i # st[Len(st)].names[x]
  <2>1. PICK n, m : n = Len(st) /\ m = st[n].names[x]
    OBVIOUS
  <2>2. i \in Nat /\ j \in Nat /\ n \in Nat /\ i < j /\ j <= n
    BY <1>1, <2>1
  <2>3. m \in {0, 1} \/ (m \in Int /\ j <= m)
    BY <1>2, <2>1, <2>2
  <2>4. i # n /\ i # m
    BY <2>2, <2>3
  <2> QED
    BY <2>1, <2>4
<1> QED
  BY <1>3 DEF VarsStep

LEMMA LeftStack ==
  ASSUME IInv, Len(stack) > 1
  PROVE  LET st == SubSeq(stack, 1, Len(stack) - 1)
         IN  /\ StackOK(st, DOMAIN heap) /\ Scoped(st) /\ Len(st) = Len(stack) - 1
             /\ \A i \in 1..Len(st) : st[i] = stack[i]
BY Popped DEF IInv

THEOREM CallersStay == Spec => CallersKept
<1>1. ASSUME IInv, [Next]_store, NEW i \in 1..Len(stack), NEW j \in 1..Len(stack),
             1 < i, i < j, stack[j].call, Len(stack') >= j
      PROVE  stack'[i].vars = stack[i].vars
  <2>1. IInv' /\ Steps(stack')
    BY <1>1, NextStep
  <2>2. Len(stack) \in Nat /\ stack[i].vars \in [Names -> Vars(DOMAIN heap)]
    BY <1>1, StackParts DEF IInv
  <2>3. i <= Len(stack') /\ stack'[i].vars \in [Names -> Vars(DOMAIN heap')]
    <3>1. PICK t, C : t = stack' /\ C = DOMAIN heap'
      OBVIOUS
    <3>2. StackOK(t, C)
      BY <2>1, <3>1 DEF IInv
    <3>3. Len(t) \in Nat /\ \A k \in 1..Len(t) : t[k].vars \in [Names -> Vars(C)]
      BY <3>2, StackParts
    <3> QED
      BY <1>1, <3>1, <3>3
  <2>4. CASE Kept(stack, stack')
    BY <2>3, <2>4 DEF Kept
  <2>5. CASE ~ Kept(stack, stack')
    <3> SUFFICES ASSUME NEW x \in Names
                 PROVE  stack'[i].vars[x] = stack[i].vars[x]
      BY <2>2, <2>3
    <3>1. ASSUME NEW use, VarsStep(stack, use, stack')
          PROVE  stack'[i].vars[x] = stack[i].vars[x]
      BY <1>1, <3>1, CallerVars DEF IInv
    <3>2. CASE Len(stack) > 1 /\ VarsStep(SubSeq(stack, 1, Len(stack) - 1), stack[Len(stack)], stack')
      <4>1. PICK st : st = SubSeq(stack, 1, Len(stack) - 1)
        OBVIOUS
      <4>2. /\ StackOK(st, DOMAIN heap) /\ Scoped(st) /\ Len(st) = Len(stack) - 1
            /\ \A k \in 1..Len(st) : st[k] = stack[k]
        BY <1>1, <3>2, <4>1, LeftStack
      <4>3. VarsStep(st, stack[Len(stack)], stack')
        BY <3>2, <4>1
      <4>4. i \in 1..Len(st) /\ j \in 1..Len(st)
        BY <1>1, <2>2, <4>2, <4>3 DEF VarsStep
      <4>5. st[j].call
        BY <1>1, <4>2, <4>4
      <4>6. stack'[i].vars[x] = st[i].vars[x]
        BY <1>1, <4>2, <4>3, <4>4, <4>5, CallerVars
      <4> QED
        BY <4>2, <4>4, <4>6
    <3> QED
      BY <2>1, <2>5, <3>1, <3>2 DEF Steps
  <2> QED
    BY <2>4, <2>5
<1>2. IInv /\ [Next]_store =>
        [\A i, j \in 1..Len(stack) :
           (1 < i /\ i < j /\ stack[j].call /\ Len(stack') >= j) =>
             stack'[i].vars = stack[i].vars]_store
  BY <1>1
<1> QED
  BY <1>2, Invariance, PTL DEF Spec, CallersKept

\* A constant changes for a let that found its Var before it was constant.
THEOREM ConstantsStay == Spec => ConstKept
<1>1. ASSUME IInv, [Next]_store, NEW i \in DOMAIN stack, NEW x \in Names, ConstChanges(i, x)
      PROVE  \E j \in i + 1..Len(stack) :
               stack[j].op = "let" /\ stack[j].target.x = x /\ stack[j].found = i
  <2>1. Steps(stack')
    BY <1>1, NextStep
  <2>2. Len(stack) \in Nat /\ DOMAIN stack = 1..Len(stack)
    BY <1>1, StackParts DEF IInv
  <2>3. /\ i <= Len(stack') /\ stack[i].vars[x].constant
        /\ stack'[i].vars[x] # stack[i].vars[x]
    BY <1>1 DEF ConstChanges
  <2>4. ~ Kept(stack, stack')
    BY <2>2, <2>3 DEF Kept
  <2>5. ASSUME NEW use, VarsStep(stack, use, stack'),
               use.op = "let" => /\ use.target.x \in Names
                                 /\ use.found = stack[Len(stack)].names[use.target.x]
                                 /\ CanLet(use.target.x)
        PROVE  FALSE
    <3>1. use.op = "let" /\ use.target.x = x /\ use.found = i
      BY <2>2, <2>3, <2>5 DEF VarsStep
    <3>2. stack[Len(stack)].names[x] = i /\ CanLet(x)
      BY <2>5, <3>1
    <3>3. x \in Bound /\ VarOf(stack, x) = stack[i].vars[x]
      BY <2>2, <3>2 DEF Bound, Top, VarOf
    <3> QED
      BY <2>3, <3>2, <3>3 DEF CanLet
  <2>6. CASE Len(stack) > 1 /\ VarsStep(SubSeq(stack, 1, Len(stack) - 1), stack[Len(stack)], stack')
    <3>1. PICK st : st = SubSeq(stack, 1, Len(stack) - 1)
      OBVIOUS
    <3>2. Len(st) = Len(stack) - 1 /\ \A k \in 1..Len(st) : st[k] = stack[k]
      BY <1>1, <2>6, <3>1, LeftStack
    <3>3. VarsStep(st, stack[Len(stack)], stack')
      BY <2>6, <3>1
    <3>4. i \in 1..Len(st) /\ st[i] = stack[i]
      <4>1. Len(stack') = Len(st)
        BY <3>3 DEF VarsStep
      <4>2. i \in 1..Len(st)
        BY <2>2, <2>3, <3>2, <4>1
      <4> QED
        BY <3>2, <4>2
    <3>5. /\ stack[Len(stack)].op = "let" /\ stack[Len(stack)].target.x = x
          /\ stack[Len(stack)].found = i
      BY <2>3, <3>3, <3>4 DEF VarsStep
    <3>6. Len(stack) \in i + 1..Len(stack)
      BY <2>2, <3>2, <3>4
    <3> QED
      BY <3>5, <3>6
  <2> QED
    BY <2>1, <2>4, <2>5, <2>6 DEF Steps
<1>2. IInv /\ [Next]_store =>
        [\A i \in DOMAIN stack, x \in Names :
           ConstChanges(i, x) =>
             \E j \in i + 1..Len(stack) :
               stack[j].op = "let" /\ stack[j].target.x = x /\ stack[j].found = i]_store
  <2> SUFFICES ASSUME IInv, [Next]_store
               PROVE  \A i \in DOMAIN stack, x \in Names :
                        ConstChanges(i, x) =>
                          \E j \in i + 1..Len(stack) :
                            stack[j].op = "let" /\ stack[j].target.x = x /\ stack[j].found = i
    OBVIOUS
  <2> QED
    BY <1>1
<1> QED
  BY <1>2, Invariance, PTL DEF Spec, ConstKept
=============================================================================
