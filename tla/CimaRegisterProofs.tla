-------------------------- MODULE CimaRegisterProofs --------------------------
(***************************************************************************)
(* Proofs about CimaRegister, for every set of declarations and programs   *)
(* of every length.  IInv says what is made of each declaration by the     *)
(* time it was executed, and what every type that was resolved there still *)
(* stands for.                                                             *)
(***************************************************************************)
EXTENDS CimaRegister, SequenceTheorems, TLAPS

-----------------------------------------------------------------------------
(* The inductive invariant *)

Refs == [name : PartTypes, arr : Nat]
MemberSet == [type : Refs, role : {"field", "method", "static"},
              made : SUBSET (TypeNames \X Nat)]
TypeSet == [kind : {"none", "struct", "enum"}, initialized : BOOLEAN,
            members : Seq(MemberSet)]
FuncSet == [known : BOOLEAN, params : Seq(Refs)]
Hashes == PartTypes \X Nat

Typed ==
  /\ prog \in Seq(Items) /\ pc \in Phases /\ errors \in BOOLEAN
  /\ i \in 1..(Len(prog) + 1) /\ j \in Nat
  /\ types \in [TypeNames -> TypeSet]
  /\ \A n \in TypeNames : types[n].initialized \/ types[n].members = <<>>
  /\ \A n \in TypeNames : \A q \in 1..Len(types[n].members) :
       types[n].members[q].type.arr \in 0..Len(arrays)
  /\ arrays \in Seq(Hashes)
  /\ \A a, b \in 1..Len(arrays) : arrays[a] = arrays[b] => a = b
  /\ funcs \in [FuncNames -> FuncSet]
  /\ args \in Seq(Refs) /\ last \in Refs

\* While names are declared nothing else is there.
Declaring ==
  /\ j = 0 /\ args = <<>> /\ arrays = <<>> /\ last.arr = 0
  /\ \A n \in TypeNames : ~types[n].initialized
  /\ ~errors => \A n \in TypeNames :
       /\ \A k, l \in Declarations(n) : k < i /\ l < i => k = l
       /\ \A k \in Declarations(n) : k < i => types[n].kind = prog[k].kind
       /\ (\A k \in Declarations(n) : k >= i) => types[n].kind = "none"

\* Type r is what the annotation of part p stands for in declaration k: an array has
\* all members of its element if that is declared above, now and ever after.
RefOf(r, p, k) ==
  /\ r.name = p.type /\ r.arr \in 0..Len(arrays) /\ (r.arr = 0 <=> ~p.arr)
  /\ r.arr # 0 /\ Above(r.name, k) => arrays[r.arr] = Hash(r.name)

\* Member m is made of part p in declaration k: in a program in order, the values its
\* initializer makes have all their members.
MemberOf(m, p, k) ==
  /\ RefOf(m.type, p, k) /\ m.role = p.role
  /\ InOrder => \A x \in m.made : Above(x[1], k) /\ x[2] = Members(x[1])

ParamsOf(refs, k, n) ==
  /\ Len(refs) = n
  /\ \A q \in 1..n : RefOf(refs[q], prog[k].parts[q], k)

\* The parts of declaration k that are members by now.
Begun(k) == k < i \/ (k = i /\ j > 0)
Filled(k) == CASE k < i -> Len(prog[k].parts)
               [] k = i /\ j > 0 -> j - 1
               [] OTHER -> 0

TypesMade ==
  \A n \in TypeNames :
    /\ \A k, l \in Declarations(n) : k = l
    /\ Declarations(n) = {} => types[n].kind = "none"
    /\ Declarations(n) = {} => ~types[n].initialized
    /\ \A k \in Declarations(n) :
         /\ types[n].kind = prog[k].kind /\ (types[n].initialized <=> Begun(k))
         /\ Len(types[n].members) = Filled(k) /\ Filled(k) <= Len(prog[k].parts)
         /\ \A q \in 1..Filled(k) : MemberOf(types[n].members[q], prog[k].parts[q], k)

\* The last function of its name among those executed.
LastOfName(k) ==
  \A b \in (k + 1)..(i - 1) : prog[b].kind = "func" => prog[b].name # prog[k].name

FuncsMade ==
  \A k \in 1..(i - 1) : prog[k].kind = "func" =>
    /\ LastOfName(k) =>
         /\ funcs[prog[k].name].known
         /\ ParamsOf(funcs[prog[k].name].params, k, Len(prog[k].parts))
    /\ \A l \in 1..(k - 1) :
         /\ prog[l].kind = "func" /\ prog[l].name = prog[k].name
         /\ \A b \in (l + 1)..(k - 1) : prog[b].name # prog[k].name
         => prog[l].parts # prog[k].parts

\* The parts of the item in hand.
InHand ==
  /\ i > Len(prog) => j = 0 /\ args = <<>>
  /\ At({"struct", "enum"}) => args = <<>>
  /\ At({"func"}) => j <= Len(Item.parts) /\ ParamsOf(args, i, j)

Resolved ==
  last.arr # 0 =>
    i > Len(prog) /\ last.arr <= Len(arrays) /\ arrays[last.arr] = Hash(last.name)

Registered == TypesMade /\ FuncsMade /\ Resolved

IInv ==
  /\ Typed
  /\ pc = "declare" => Declaring
  /\ pc \in {"items", "run", "crash", "endless"} => Registered
  /\ pc = "items" => InHand
  /\ pc = "run" => i > Len(prog)
  /\ NoCrash

-----------------------------------------------------------------------------
(* Items and closures *)

LEMMA ItemShape ==
  ASSUME NEW x \in Items
  PROVE  /\ x.kind \in {"struct", "enum", "func"} /\ x.parts \in Seq(Parts)
         /\ x.kind # "func" => x.name \in TypeNames
         /\ x.kind = "func" => x.name \in FuncNames
         /\ \A q \in 1..Len(x.parts) :
              LET p == x.parts[q]
              IN  /\ p \in Parts /\ p \in ToSet(x.parts) /\ p.type \in PartTypes
                  /\ p.init = "new" => p.of \in TypeNames
                  /\ p.init = "call" => p.of \in FuncNames
                  /\ x.kind = "enum" => p.type \notin TypeNames /\ ~p.arr
  <1>1. x.kind \in {"struct", "enum", "func"} /\ x.parts \in Seq(Parts)
    BY ItemsAssumption
  <1>2. x.kind # "func" => x.name \in TypeNames
    BY DEF TypeNames
  <1>3. x.kind = "func" => x.name \in FuncNames
    BY DEF FuncNames
  <1>4. ASSUME NEW q \in 1..Len(x.parts)
        PROVE  LET p == x.parts[q]
               IN  /\ p \in Parts /\ p \in ToSet(x.parts) /\ p.type \in PartTypes
                   /\ p.init = "new" => p.of \in TypeNames
                   /\ p.init = "call" => p.of \in FuncNames
                   /\ x.kind = "enum" => p.type \notin TypeNames /\ ~p.arr
    <2>1. x.parts[q] \in Parts /\ x.parts[q] \in ToSet(x.parts)
      BY <1>1, ElementOfSeq DEF ToSet
    <2>2. x.parts[q].type \in {p.type : p \in ToSet(x.parts)}
      BY <2>1
    <2>3. x.parts[q].type \in PartTypes
      BY <2>2 DEF PartTypes
    <2> QED
      BY <2>1, <2>3, ItemsAssumption
  <1> QED
    BY <1>1, <1>2, <1>3, <1>4

\* A larger relation leads to more.
LEMMA BelowMonotone ==
  ASSUME NEW R, NEW Q, R \subseteq Q, NEW n
  PROVE  Below(R, n) \subseteq Below(Q, n)
  BY DEF Below

LEMMA BelowAreTypes ==
  ASSUME NEW R, NEW n
  PROVE  Below(R, n) \subseteq TypeNames
  BY DEF Below

LEMMA HashShape ==
  ASSUME Typed, NEW n \in PartTypes
  PROVE  /\ Members(n) \in Nat /\ Hash(n) \in Hashes /\ Hash(n)[1] = n
         /\ n \in TypeNames => Members(n) = Len(types[n].members)
  <1>1. n \in TypeNames => types[n].members \in Seq(MemberSet)
    BY DEF Typed, TypeSet
  <1>2. Members(n) \in Nat /\ (n \in TypeNames => Members(n) = Len(types[n].members))
    BY <1>1, LenProperties DEF Members
  <1> QED
    BY <1>2 DEF Hash, Hashes

\* The place of an annotation's array type among those there are after it.
LEMMA Resolving ==
  ASSUME Typed, NEW p, p.arr \in BOOLEAN, p.type \in PartTypes
  PROVE  LET more == ArraysWith(p)
             r == Resolve(p)
         IN  /\ more \in Seq(Hashes) /\ Len(more) >= Len(arrays)
             /\ \A a \in 1..Len(arrays) : more[a] = arrays[a]
             /\ \A a, b \in 1..Len(more) : more[a] = more[b] => a = b
             /\ r \in Refs /\ r.name = p.type /\ r.arr \in 0..Len(more)
             /\ r.arr = 0 <=> ~p.arr
             /\ r.arr # 0 => more[r.arr] = Hash(p.type)
  <1> DEFINE more == ArraysWith(p)
             h == Hash(p.type)
             places == {a \in 1..Len(more) : more[a] = h}
  <1>1. arrays \in Seq(Hashes) /\ h \in Hashes
    BY HashShape DEF Typed
  <1>2. /\ more \in Seq(Hashes) /\ Len(more) >= Len(arrays)
        /\ \A a \in 1..Len(arrays) : more[a] = arrays[a]
        /\ \A a, b \in 1..Len(more) : more[a] = more[b] => a = b
        /\ p.arr => \E a \in 1..Len(more) : more[a] = h
    <2>1. CASE p.arr /\ h \notin ToSet(arrays)
      <3>1. more = Append(arrays, h)
        BY <2>1 DEF ArraysWith
      <3>2. /\ more \in Seq(Hashes) /\ Len(more) = Len(arrays) + 1
            /\ \A a \in 1..Len(arrays) : more[a] = arrays[a]
            /\ more[Len(arrays) + 1] = h /\ Len(arrays) \in Nat
        BY <1>1, <3>1, AppendProperties, LenProperties
      <3>3. \A a \in 1..Len(arrays) : arrays[a] # h
        BY <1>1, <2>1, LenProperties DEF ToSet
      <3>4. ASSUME NEW a \in 1..Len(more), NEW b \in 1..Len(more), more[a] = more[b]
            PROVE  a = b
        <4> HIDE DEF more, h
        <4>1. CASE a <= Len(arrays) /\ b <= Len(arrays)
          BY <3>2, <3>4, <4>1 DEF Typed
        <4>2. CASE a = Len(arrays) + 1 \/ b = Len(arrays) + 1
          BY <3>2, <3>3, <3>4, <4>2
        <4> QED
          BY <3>2, <4>1, <4>2
      <3> QED
        BY <3>2, <3>4
    <2>2. CASE ~(p.arr /\ h \notin ToSet(arrays))
      <3>1. more = arrays
        BY <2>2 DEF ArraysWith
      <3>2. Len(arrays) \in Nat /\ DOMAIN arrays = 1..Len(arrays)
        BY <1>1, LenProperties
      <3>3. p.arr => \E a \in 1..Len(arrays) : arrays[a] = h
        BY <2>2, <3>2 DEF ToSet
      <3> QED
        BY <1>1, <3>1, <3>2, <3>3 DEF Typed
    <2> QED
      BY <2>1, <2>2
  <1>3. p.arr => SelectLastInSeq(more, LAMBDA x : x = h) \in places
    <2>1. SUFFICES ASSUME p.arr PROVE SelectLastInSeq(more, LAMBDA x : x = h) \in places
      OBVIOUS
    <2>2. PICK a \in places : TRUE
      BY <1>2, <2>1
    <2>3. \A b \in places : b = a
      BY <1>2
    <2>4. a \in Nat
      OBVIOUS
    <2>5. \E c \in places : \A b \in places : c >= b
      BY <2>2, <2>3, <2>4
    <2>6. Max(places) \in places
      BY <2>5 DEF Max
    <2> QED
      BY <2>2, <2>6 DEF SelectLastInSeq
  <1>4. Resolve(p) = [name |-> p.type,
                      arr |-> IF p.arr THEN SelectLastInSeq(more, LAMBDA x : x = h) ELSE 0]
    BY DEF Resolve, Ref
  <1>5. Len(more) \in Nat
    BY <1>2, LenProperties
  <1> QED
    BY <1>2, <1>3, <1>4, <1>5 DEF Refs

-----------------------------------------------------------------------------
(* What keeps the types that were resolved *)

\* The types declared above k have the members they had, and array types stay.
Stable(k) ==
  /\ prog' = prog
  /\ Len(arrays') \in Nat /\ Len(arrays') >= Len(arrays)
  /\ \A a \in 1..Len(arrays) : arrays'[a] = arrays[a]
  /\ \A n \in TypeNames : Above(n, k) => Len(types'[n].members) = Len(types[n].members)

LEMMA TextKept ==
  ASSUME prog' = prog
  PROVE  /\ InOrder' = InOrder /\ TextHolds' = TextHolds
         /\ \A n : Declarations(n)' = Declarations(n)
         /\ \A n, k : Above(n, k)' <=> Above(n, k)
  <1>1. \A n : Declarations(n)' = Declarations(n)
    BY DEF Declarations
  <1>2. \A n, k : Above(n, k)' <=> Above(n, k)
    BY <1>1 DEF Above
  <1>3. TextHolds' = TextHolds
    BY DEF TextHolds
  <1>4. InOrder' = InOrder
    BY DEF InOrder, TextHolds, TextHeldBy, Below, Above, Declarations
  <1> QED
    BY <1>1, <1>2, <1>3, <1>4

LEMMA Kept ==
  ASSUME Typed, NEW k, Stable(k)
  PROVE  /\ \A r, p : RefOf(r, p, k) => RefOf(r, p, k)'
         /\ \A m, p : MemberOf(m, p, k) => MemberOf(m, p, k)'
         /\ \A refs, n : ParamsOf(refs, k, n) => ParamsOf(refs, k, n)'
  <1>1. Len(arrays) \in Nat
    BY LenProperties DEF Typed
  <1>2. \A n : Above(n, k) => Members(n)' = Members(n) /\ Hash(n)' = Hash(n)
    BY DEF Stable, Members, Hash
  <1>3. ASSUME NEW r, NEW p, RefOf(r, p, k)
        PROVE  RefOf(r, p, k)'
    <2>1. Above(r.name, k)' <=> Above(r.name, k)
      BY TextKept DEF Stable
    <2> QED
      BY <1>1, <1>2, <1>3, <2>1 DEF RefOf, Stable
  <1>4. ASSUME NEW m, NEW p, MemberOf(m, p, k)
        PROVE  MemberOf(m, p, k)'
    <2>1. RefOf(m.type, p, k)' /\ m.role = p.role
      BY <1>3, <1>4 DEF MemberOf
    <2>2. InOrder' <=> InOrder
      BY TextKept DEF Stable
    <2>3. ASSUME InOrder, NEW x \in m.made
          PROVE  Above(x[1], k)' /\ x[2] = Members(x[1])'
      <3>1. Above(x[1], k) /\ x[2] = Members(x[1])
        BY <1>4, <2>3 DEF MemberOf
      <3>2. Above(x[1], k)'
        BY <3>1, TextKept DEF Stable
      <3> QED
        BY <1>2, <3>1, <3>2
    <2> QED
      BY <2>1, <2>2, <2>3 DEF MemberOf
  <1>5. ASSUME NEW refs, NEW n, ParamsOf(refs, k, n)
        PROVE  ParamsOf(refs, k, n)'
    <2>1. prog' = prog
      BY DEF Stable
    <2> QED
      BY <1>3, <1>5, <2>1 DEF ParamsOf
  <1> QED
    BY <1>3, <1>4, <1>5

\* While an item is executed the types above it, and above the items before it, have
\* all their members: only its own type gets more.
LEMMA ItemStable ==
  ASSUME Typed, TypesMade, pc = "items", i <= Len(prog), Item.kind # "func",
         prog' = prog, Len(arrays') \in Nat, Len(arrays') >= Len(arrays),
         \A a \in 1..Len(arrays) : arrays'[a] = arrays[a],
         \A n \in TypeNames \ {Item.name} : types'[n] = types[n],
         NEW k \in 1..i
  PROVE  Stable(k)
  <1>1. prog \in Seq(Items) /\ i \in 1..Len(prog)
    BY LenProperties DEF Typed
  <1>2. i \in DOMAIN prog
    BY <1>1, LenProperties
  <1>3. ASSUME NEW n \in TypeNames, Above(n, k)
        PROVE  types'[n] = types[n]
    <2>1. PICK a \in Declarations(n) : a < k
      BY <1>3 DEF Above
    <2>2. a \in DOMAIN prog /\ a # i
      BY <1>1, <2>1, LenProperties DEF Declarations
    <2>3. n # Item.name
      <3>1. SUFFICES ASSUME n = Item.name PROVE FALSE
        OBVIOUS
      <3>2. i \in Declarations(n)
        BY <1>2, <3>1 DEF Declarations, Item
      <3> QED
        BY <2>1, <2>2, <3>2 DEF TypesMade
    <2> QED
      BY <2>3
  <1> QED
    BY <1>3 DEF Stable

\* Nothing gets more members.
LEMMA AllStable ==
  ASSUME prog' = prog, Len(arrays') \in Nat, Len(arrays') >= Len(arrays),
         \A a \in 1..Len(arrays) : arrays'[a] = arrays[a],
         \A n \in TypeNames : types'[n].members = types[n].members
  PROVE  \A k : Stable(k)
  BY DEF Stable

-----------------------------------------------------------------------------
(* What values hold, and what the text says they hold *)

\* The part that member q of type n is made of.
LEMMA PartOfMember ==
  ASSUME Typed, TypesMade, NEW n \in TypeNames, NEW q \in DOMAIN types[n].members
  PROVE  \E d \in Declarations(n) :
           /\ d \in DOMAIN prog /\ prog[d] \in Items
           /\ prog[d].kind # "func" /\ prog[d].name = n
           /\ q \in 1..Len(prog[d].parts)
           /\ MemberOf(types[n].members[q], prog[d].parts[q], d)
  <1> DEFINE ms == types[n].members
  <1>1. ms \in Seq(MemberSet)
    BY DEF Typed, TypeSet
  <1>2. q \in 1..Len(ms) /\ ms # <<>>
    BY <1>1, LenProperties, EmptySeq
  <1>3. types[n].initialized
    BY <1>2 DEF Typed
  <1>4. PICK d \in Declarations(n) : TRUE
    BY <1>3 DEF TypesMade
  <1>5. /\ Len(ms) = Filled(d) /\ Filled(d) <= Len(prog[d].parts)
        /\ \A k \in 1..Filled(d) : MemberOf(ms[k], prog[d].parts[k], d)
    BY <1>4 DEF TypesMade
  <1>6. /\ d \in DOMAIN prog /\ prog[d] \in Items
        /\ prog[d].kind # "func" /\ prog[d].name = n
    BY <1>4, LenProperties, ElementOfSeq DEF Declarations, Typed
  <1>7. Len(prog[d].parts) \in Nat /\ Len(ms) \in Nat
    BY <1>1, <1>6, ItemShape, LenProperties
  <1>8. q \in 1..Len(prog[d].parts) /\ MemberOf(ms[q], prog[d].parts[q], d)
    BY <1>2, <1>5, <1>7
  <1> QED
    BY <1>4, <1>6, <1>8

LEMMA HoldsInText ==
  ASSUME Typed, TypesMade
  PROVE  Holds \subseteq TextHolds
  <1> SUFFICES ASSUME NEW x \in Holds PROVE x \in TextHolds
    OBVIOUS
  <1> DEFINE n == x[1]
             ms == types[n].members
  <1>1. /\ x \in TypeNames \X TypeNames /\ n \in TypeNames /\ x[2] \in TypeNames
        /\ \E k \in DOMAIN ms : ms[k].role # "method" /\ ms[k].type.arr = 0
                                 /\ ms[k].type.name = x[2]
    BY DEF Holds
  <1>2. PICK k \in DOMAIN ms : ms[k].role # "method" /\ ms[k].type.arr = 0
                                 /\ ms[k].type.name = x[2]
    BY <1>1
  <1>3. PICK d \in Declarations(n) :
           /\ d \in DOMAIN prog /\ prog[d] \in Items
           /\ prog[d].kind # "func" /\ prog[d].name = n
           /\ k \in 1..Len(prog[d].parts)
           /\ MemberOf(ms[k], prog[d].parts[k], d)
    BY <1>1, <1>2, PartOfMember
  <1> DEFINE p == prog[d].parts[k]
  <1>4. p.role # "method" /\ ~p.arr /\ p.type = x[2]
    BY <1>2, <1>3 DEF MemberOf, RefOf
  <1>5. p \in ToSet(prog[d].parts)
    BY <1>3, ItemShape
  <1>6. prog[d].kind = "struct"
    BY <1>1, <1>3, <1>4, ItemShape
  <1> QED
    BY <1>1, <1>3, <1>4, <1>5, <1>6 DEF TextHolds

\* A default value that never ends belongs to a program with a struct in itself.
LEMMA EndlessInText ==
  ASSUME Typed, TypesMade, NEW n \in TypeNames, Endless(n)
  PROVE  ~InOrder
  <1>1. PICK m \in HeldBy(n) : m \in Below(Holds, m)
    BY DEF Endless
  <1>2. m \in TypeNames /\ m \in Below(TextHolds, m)
    BY <1>1, HoldsInText, BelowMonotone, BelowAreTypes
  <1> QED
    BY <1>2 DEF InOrder

\* The structs in a value that an initializer of item i makes: in a program in order
\* all stand above the item.
LEMMA MadeAbove ==
  ASSUME Typed, TypesMade, i \in DOMAIN prog, NEW q \in 1..Len(prog[i].parts),
         prog[i].parts[q].init = "new"
  PROVE  LET n == prog[i].parts[q].of
         IN  /\ n \in TypeNames
             /\ Made(n) \subseteq TypeNames \X Nat
             /\ InOrder => \A x \in Made(n) : Above(x[1], i) /\ x[2] = Members(x[1])
  <1> DEFINE n == prog[i].parts[q].of
  <1>1. prog[i] \in Items
    BY LenProperties, ElementOfSeq DEF Typed
  <1>2. n \in TypeNames /\ prog[i].parts[q] \in ToSet(prog[i].parts)
    BY <1>1, ItemShape
  <1>3. HeldBy(n) \subseteq TypeNames
    BY <1>2, BelowAreTypes DEF HeldBy
  <1>4. HeldBy(n) \subseteq TextHeldBy(n)
    BY HoldsInText, BelowMonotone DEF HeldBy, TextHeldBy
  <1>5. \A m \in HeldBy(n) : Members(m) \in Nat
    <2>1. \A m \in TypeNames : types[m].members \in Seq(MemberSet)
      BY DEF Typed, TypeSet
    <2> QED
      BY <1>3, <2>1, LenProperties DEF Members
  <1>6. \A x \in Made(n) : x[1] \in HeldBy(n) /\ x[2] = Members(x[1])
                           /\ x = <<x[1], x[2]>>
    BY DEF Made
  <1>7. InOrder => \A m \in TextHeldBy(n) : Above(m, i)
    BY <1>2 DEF InOrder
  <1> QED
    BY <1>2, <1>3, <1>4, <1>5, <1>6, <1>7

-----------------------------------------------------------------------------
(* The steps *)

LEMMA InitInv == Init => IInv
  <1> SUFFICES ASSUME Init PROVE IInv
    OBVIOUS
  <1>1. prog \in Seq(Items) /\ Len(prog) \in Nat /\ DOMAIN prog = 1..Len(prog)
    <2>1. PICK n \in 1..MaxItems : prog \in [1..n -> Items]
      BY DEF Init
    <2>2. prog \in Seq(Items)
      BY <2>1, MaxItemsAssumption, SeqDef
    <2> QED
      BY <2>2, LenProperties
  <1>2. \A n \in TypeNames : types[n] = Absent
    BY DEF Init
  <1>3. types \in [TypeNames -> TypeSet] /\ funcs \in [FuncNames -> FuncSet]
    BY DEF Init, Absent, Unknown, TypeSet, FuncSet
  <1>4. last \in Refs /\ last.arr = 0
    BY DEF Init, Ref, Refs, PartTypes
  <1>5. Typed
    <2>1. /\ arrays = <<>> /\ args = <<>> /\ arrays \in Seq(Hashes) /\ args \in Seq(Refs)
          /\ Len(arrays) = 0
      BY EmptySeq DEF Init
    <2>2. \A n \in TypeNames : types[n].members = <<>>
      BY <1>2 DEF Absent
    <2>3. /\ pc \in Phases /\ errors \in BOOLEAN
          /\ i \in 1..(Len(prog) + 1) /\ j \in Nat
      <3>1. pc = "declare" /\ errors = FALSE
        BY DEF Init
      <3>2. pc \in Phases /\ errors \in BOOLEAN
        BY <3>1 DEF Phases
      <3>3. i = 1 /\ j = 0
        BY DEF Init
      <3>4. i \in 1..(Len(prog) + 1) /\ j \in Nat
        BY <1>1, <3>3
      <3> QED
        BY <3>2, <3>4
    <2>4. \A n \in TypeNames : Len(types[n].members) = 0
      BY <2>2, EmptySeq
    <2> QED
      BY <1>1, <1>3, <1>4, <2>1, <2>2, <2>3, <2>4 DEF Typed
  <1>6. Declaring
    <2>1. \A n : \A k \in Declarations(n) : k >= 1 /\ ~(k < 1)
      BY <1>1 DEF Declarations
    <2>2. i = 1 /\ j = 0 /\ args = <<>> /\ arrays = <<>>
      BY DEF Init
    <2>3. \A n \in TypeNames : ~types[n].initialized /\ types[n].kind = "none"
      BY <1>2 DEF Absent
    <2> QED
      BY <1>4, <2>1, <2>2, <2>3 DEF Declaring
  <1> QED
    BY <1>5, <1>6 DEF IInv, Init, NoCrash

LEMMA Unmoved ==
  ASSUME UNCHANGED <<prog, i, j, types, arrays, funcs, args, last>>
  PROVE  /\ Typed /\ pc' \in Phases /\ errors' \in BOOLEAN => Typed'
         /\ Registered => Registered'
  <1>1. \A n : Members(n)' = Members(n) /\ Hash(n)' = Hash(n)
    BY DEF Members, Hash
  <1>2. /\ \A n : Declarations(n)' = Declarations(n)
        /\ \A n, k : Above(n, k)' <=> Above(n, k)
        /\ InOrder' <=> InOrder
    BY TextKept
  <1>3. \A r, p, k : RefOf(r, p, k)' <=> RefOf(r, p, k)
    BY <1>1, <1>2 DEF RefOf
  <1>4. \A m, p, k : MemberOf(m, p, k)' <=> MemberOf(m, p, k)
    BY <1>1, <1>2, <1>3 DEF MemberOf
  <1>5. TypesMade => TypesMade'
    BY <1>2, <1>4 DEF TypesMade, Begun, Filled
  <1>6. FuncsMade => FuncsMade'
    BY <1>3 DEF FuncsMade, LastOfName, ParamsOf
  <1>7. Resolved => Resolved'
    BY <1>1 DEF Resolved
  <1> QED
    BY <1>5, <1>6, <1>7 DEF Typed, Registered

\* The program stops; if it reads through NULL or never returns it is out of order.
LEMMA StopStep ==
  ASSUME IInv, pc \in {"items", "run"}, NEW end \in Ends, Stop(end),
         end \in {"crash", "endless"} => ~InOrder
  PROVE  IInv'
  <1>1. /\ pc' = end /\ errors' \in BOOLEAN
        /\ UNCHANGED <<prog, i, j, types, arrays, funcs, args, last>>
    BY DEF Stop
  <1>2. Typed' /\ Registered'
    BY <1>1, Unmoved DEF IInv, Phases
  <1>3. InOrder' <=> InOrder
    BY <1>1, TextKept
  <1> QED
    BY <1>1, <1>2, <1>3 DEF IInv, NoCrash, Ends

LEMMA DeclareStep ==
  ASSUME IInv, Declare
  PROVE  IInv'
  <1> DEFINE item == prog[i]
  <1>1. /\ pc = "declare" /\ i \in 1..Len(prog) /\ i' = i + 1 /\ item \in Items
        /\ i \in DOMAIN prog
        /\ UNCHANGED <<prog, pc, j, arrays, funcs, args, last>>
    BY LenProperties, ElementOfSeq DEF IInv, Typed, Declare
  <1>2. Declaring /\ Typed
    BY <1>1 DEF IInv
  <1>3. errors' = (errors \/ (item.kind # "func" /\ types[item.name].kind # "none"))
    BY DEF Declare
  <1>4. types' = IF item.kind # "func" /\ types[item.name].kind = "none"
                 THEN [types EXCEPT ![item.name].kind = item.kind] ELSE types
    BY DEF Declare
  <1>5. \A n \in TypeNames : types[n] \in TypeSet
    BY <1>2 DEF Typed
  <1>6. /\ types' \in [TypeNames -> TypeSet]
        /\ \A n \in TypeNames :
             /\ types'[n].initialized = types[n].initialized
             /\ types'[n].members = types[n].members
             /\ types'[n].kind = IF n = item.name /\ item.kind # "func"
                                     /\ types[n].kind = "none"
                                 THEN item.kind ELSE types[n].kind
    <2>1. types \in [TypeNames -> TypeSet] /\ item.kind \in {"struct", "enum", "func"}
      BY <1>1, <1>2, ItemShape DEF Typed
    <2> QED
      BY <1>4, <1>5, <2>1 DEF TypeSet
  <1>7. Typed'
    <2>1. Len(prog) \in Nat
      BY <1>2, LenProperties DEF Typed
    <2>2. i' \in 1..(Len(prog) + 1) /\ errors' \in BOOLEAN
      BY <1>1, <1>2, <1>3, <2>1 DEF Typed
    <2>3. \A n \in TypeNames : types'[n].initialized \/ types'[n].members = <<>>
      BY <1>2, <1>6 DEF Typed
    <2>4. \A n \in TypeNames : \A q \in 1..Len(types'[n].members) :
            types'[n].members[q].type.arr \in 0..Len(arrays)
      BY <1>2, <1>6 DEF Typed
    <2> QED
      BY <1>1, <1>2, <1>6, <2>2, <2>3, <2>4 DEF Typed
  <1>8. \A n : Declarations(n)' = Declarations(n)
    BY <1>1, TextKept
  <1>9. ASSUME ~errors', NEW n \in TypeNames
        PROVE  /\ \A k, l \in Declarations(n) : k < i + 1 /\ l < i + 1 => k = l
               /\ \A k \in Declarations(n) : k < i + 1 => types'[n].kind = prog[k].kind
               /\ (\A k \in Declarations(n) : k >= i + 1) => types'[n].kind = "none"
    <2>1. ~errors /\ (item.kind # "func" => types[item.name].kind = "none")
      BY <1>3, <1>9
    <2>2. Declarations(n) \subseteq Nat /\ i \in Nat
      BY <1>1, <1>2, LenProperties DEF Declarations, Typed
    <2>3. \A k \in Declarations(n) : prog[k].kind # "none"
      <3>1. prog \in Seq(Items) /\ \A k \in Declarations(n) : k \in 1..Len(prog)
        BY <1>2, LenProperties DEF Declarations, Typed
      <3>2. \A k \in Declarations(n) : prog[k] \in Items
        BY <3>1, ElementOfSeq
      <3> QED
        BY <3>2, ItemShape
    <2>4. /\ \A k, l \in Declarations(n) : k < i /\ l < i => k = l
          /\ \A k \in Declarations(n) : k < i => types[n].kind = prog[k].kind
          /\ (\A k \in Declarations(n) : k >= i) => types[n].kind = "none"
      BY <1>2, <2>1 DEF Declaring
    <2>5. CASE n = item.name /\ item.kind # "func"
      <3>1. types[n].kind = "none" /\ types'[n].kind = item.kind
        BY <1>6, <2>1, <2>5
      <3>2. \A k \in Declarations(n) : k >= i
        BY <1>1, <2>2, <2>3, <2>4, <3>1
      <3>3. i \in Declarations(n)
        BY <1>1, <2>5 DEF Declarations
      <3>4. \A k \in Declarations(n) : k < i + 1 => k = i
        BY <2>2, <3>2
      <3>5. ~(i >= i + 1)
        BY <2>2
      <3> QED
        BY <2>5, <3>1, <3>3, <3>4, <3>5
    <2>6. CASE ~(n = item.name /\ item.kind # "func")
      <3>1. types'[n].kind = types[n].kind /\ i \notin Declarations(n)
        BY <1>6, <2>6 DEF Declarations
      <3>2. \A k \in Declarations(n) : (k < i + 1 <=> k < i) /\ (k >= i => k >= i + 1)
        BY <1>1, <2>2, <3>1
      <3> QED
        BY <2>2, <2>4, <3>1, <3>2
    <2> QED
      BY <2>5, <2>6
  <1>10. Declaring'
    BY <1>1, <1>2, <1>6, <1>8, <1>9 DEF Declaring
  <1> QED
    BY <1>1, <1>7, <1>10 DEF IInv, NoCrash

LEMMA DeclaredStep ==
  ASSUME IInv, Declared
  PROVE  IInv'
  <1>1. /\ pc = "declare" /\ i > Len(prog) /\ i' = 1 /\ Declaring /\ Typed
        /\ pc' = IF errors THEN "failed" ELSE "items"
        /\ UNCHANGED <<prog, j, errors, types, arrays, funcs, args, last>>
    BY DEF IInv, Declared
  <1>2. Len(prog) \in Nat /\ DOMAIN prog = 1..Len(prog)
    BY <1>1, LenProperties DEF Typed
  <1>3. Typed'
    BY <1>1, <1>2 DEF Typed, Phases, Ends
  <1>4. CASE errors
    BY <1>1, <1>3, <1>4 DEF IInv, NoCrash
  <1>5. CASE ~errors
    <2>1. TypesMade'
      <3>1. \A n : Declarations(n)' = Declarations(n) /\ Declarations(n) \subseteq 1..Len(prog)
        BY <1>1, <1>2, TextKept DEF Declarations
      <3>2. \A k \in 1..Len(prog) : Filled(k)' = 0 /\ ~Begun(k)' /\ Len(prog[k].parts) \in Nat
        <4>1. \A k \in 1..Len(prog) : prog[k].parts \in Seq(Parts)
          BY <1>1, ElementOfSeq, ItemShape DEF Typed
        <4> QED
          BY <1>1, <4>1, LenProperties DEF Filled, Begun, Declaring
      <3>3. \A n \in TypeNames : Len(types[n].members) = 0 /\ ~types[n].initialized
        BY <1>1, EmptySeq DEF Typed, Declaring
      <3>4. ASSUME NEW n \in TypeNames
            PROVE  /\ \A k, l \in Declarations(n) : k = l
                   /\ Declarations(n) = {} => types[n].kind = "none"
                   /\ \A k \in Declarations(n) : types[n].kind = prog[k].kind
        <4>1. \A k \in Declarations(n) : k < i
          BY <1>1, <1>2, <3>1 DEF Typed
        <4> QED
          BY <1>1, <1>5, <4>1 DEF Declaring
      <3> QED
        BY <1>1, <3>1, <3>2, <3>3, <3>4 DEF TypesMade
    <2>2. FuncsMade' /\ Resolved'
      BY <1>1 DEF FuncsMade, Resolved, Declaring
    <2>3. InHand'
      <3>1. ASSUME i' <= Len(prog) PROVE Len(prog[1].parts) \in Nat
        BY <1>1, <1>2, <3>1, ElementOfSeq, ItemShape, LenProperties DEF Typed
      <3> QED
        BY <1>1, <1>2, <3>1 DEF InHand, At, Item, ParamsOf, Declaring
    <2> QED
      BY <1>1, <1>3, <1>5, <2>1, <2>2, <2>3 DEF IInv, Registered, NoCrash
  <1> QED
    BY <1>4, <1>5

\* What holds while the items are executed.
LEMMA AtItem ==
  ASSUME IInv, pc = "items", i <= Len(prog)
  PROVE  /\ Typed /\ TypesMade /\ FuncsMade /\ Resolved /\ InHand /\ last.arr = 0
         /\ prog \in Seq(Items) /\ Len(prog) \in Nat /\ DOMAIN prog = 1..Len(prog)
         /\ i \in 1..Len(prog) /\ Item \in Items /\ prog[i] = Item
         /\ Item.parts \in Seq(Parts) /\ Len(Item.parts) \in Nat
         /\ \A k \in 1..Len(prog) : prog[k] \in Items /\ prog[k].parts \in Seq(Parts)
                                    /\ Len(prog[k].parts) \in Nat
         /\ \A n : Declarations(n) \subseteq 1..Len(prog)
         /\ Len(arrays) \in Nat
  <1>1. Typed /\ TypesMade /\ FuncsMade /\ Resolved /\ InHand
    BY DEF IInv, Registered
  <1>2. prog \in Seq(Items) /\ Len(prog) \in Nat /\ DOMAIN prog = 1..Len(prog)
    BY <1>1, LenProperties DEF Typed
  <1>3. i \in 1..Len(prog)
    BY <1>1, <1>2 DEF Typed
  <1>4. \A k \in 1..Len(prog) : prog[k] \in Items
    BY <1>2, ElementOfSeq
  <1>5. \A k \in 1..Len(prog) : prog[k].parts \in Seq(Parts) /\ Len(prog[k].parts) \in Nat
    BY <1>4, ItemShape, LenProperties
  <1>6. Item = prog[i]
    BY DEF Item
  <1>7. \A n : Declarations(n) \subseteq 1..Len(prog)
    BY <1>2 DEF Declarations
  <1>8. last.arr = 0
    BY <1>1, <1>2, <1>3 DEF Resolved
  <1>9. Len(arrays) \in Nat
    BY <1>1, LenProperties DEF Typed
  <1> QED
    BY <1>1, <1>2, <1>3, <1>4, <1>5, <1>6, <1>7, <1>8, <1>9

\* The type that is filled in is the only one that is declared at i.
LEMMA OwnType ==
  ASSUME IInv, pc = "items", i <= Len(prog), Item.kind # "func"
  PROVE  /\ Item.name \in TypeNames /\ i \in Declarations(Item.name)
         /\ \A k \in Declarations(Item.name) : k = i
         /\ \A n \in TypeNames : n # Item.name => i \notin Declarations(n)
  <1>1. Item.name \in TypeNames /\ i \in Declarations(Item.name)
    BY AtItem, ItemShape DEF Declarations
  <1>2. \A k \in Declarations(Item.name) : k = i
    BY <1>1, AtItem DEF TypesMade
  <1> QED
    BY <1>1, <1>2, AtItem DEF Declarations

\* Functions made before item i are not touched while it is a type.
LEMMA FuncsStay ==
  ASSUME IInv, pc = "items", i <= Len(prog), Item.kind # "func",
         prog' = prog, i' \in {i, i + 1}, funcs' = funcs, \A k \in 1..i : Stable(k)
  PROVE  FuncsMade'
  <1>1. \A k \in 1..i : prog[k].kind = "func" => k < i
    BY AtItem
  <1>2. ASSUME NEW k \in 1..(i - 1), prog[k].kind = "func", LastOfName(k)'
        PROVE  LastOfName(k)
    BY <1>2, AtItem DEF LastOfName
  <1>3. ASSUME NEW k \in 1..(i - 1), prog[k].kind = "func", LastOfName(k)'
        PROVE  /\ funcs[prog[k].name].known
               /\ ParamsOf(funcs[prog[k].name].params, k, Len(prog[k].parts))'
    <2>1. /\ funcs[prog[k].name].known
          /\ ParamsOf(funcs[prog[k].name].params, k, Len(prog[k].parts))
      BY <1>2, <1>3, AtItem DEF FuncsMade
    <2>2. Stable(k) /\ Typed
      BY AtItem
    <2> DEFINE ps == funcs[prog[k].name].params
               m == Len(prog[k].parts)
    <2>3. \A refs, n : ParamsOf(refs, k, n) => ParamsOf(refs, k, n)'
      BY <2>2, Kept
    <2>4. ps' = ps /\ m' = m
      OBVIOUS
    <2> QED
      BY <2>1, <2>3, <2>4 DEF ParamsOf
  <1>4. \A k \in 1..(i' - 1) : prog[k].kind = "func" => k \in 1..(i - 1)
    BY <1>1, AtItem
  <1>5. FuncsMade
    BY AtItem
  <1> QED
    BY <1>3, <1>4, <1>5 DEF FuncsMade

LEMMA BeginStep ==
  ASSUME IInv, At({"struct", "enum"}), j = 0, ~types[Item.name].initialized,
         types' = [types EXCEPT ![Item.name].initialized = TRUE], j' = 1,
         UNCHANGED <<prog, pc, i, errors, arrays, funcs, args, last>>
  PROVE  IInv'
  <1>1. pc = "items" /\ i <= Len(prog) /\ Item.kind \in {"struct", "enum"}
    BY DEF At
  <1>2. /\ Typed /\ TypesMade /\ i \in 1..Len(prog) /\ Len(arrays) \in Nat
        /\ types \in [TypeNames -> TypeSet]
    BY <1>1, AtItem DEF Typed
  <1>3. /\ types' \in [TypeNames -> TypeSet]
        /\ \A n \in TypeNames :
             /\ types'[n].members = types[n].members /\ types'[n].kind = types[n].kind
             /\ types'[n].initialized <=> (n = Item.name \/ types[n].initialized)
    BY <1>2 DEF TypeSet
  <1>4. \A k : Stable(k)
    BY <1>2, <1>3, AllStable
  <1>5. Typed'
    <2>1. \A n \in TypeNames : types'[n].initialized \/ types'[n].members = <<>>
      BY <1>2, <1>3 DEF Typed
    <2>2. \A n \in TypeNames : \A q \in 1..Len(types'[n].members) :
            types'[n].members[q].type.arr \in 0..Len(arrays)
      BY <1>2, <1>3 DEF Typed
    <2> QED
      BY <1>2, <1>3, <2>1, <2>2 DEF Typed
  <1>6. TypesMade'
    <2>1. \A k : Filled(k)' = Filled(k)
      BY <1>2 DEF Filled
    <2>2. \A n : Declarations(n)' = Declarations(n)
      BY TextKept
    <2>3. ASSUME NEW n \in TypeNames, NEW k \in Declarations(n)
          PROVE  types'[n].initialized <=> Begun(k)'
      <3>1. Begun(k)' <=> (k < i \/ k = i)
        BY DEF Begun
      <3>2. types[n].initialized <=> k < i
        BY <1>2, <2>3 DEF TypesMade, Begun
      <3>3. k = i <=> n = Item.name
        BY <1>1, <2>3, OwnType
      <3> QED
        BY <1>3, <3>1, <3>2, <3>3
    <2>4. ASSUME NEW n \in TypeNames, Declarations(n) = {}
          PROVE  ~types'[n].initialized
      <3>1. n # Item.name
        BY <1>1, <2>4, OwnType
      <3> QED
        BY <1>2, <1>3, <2>4, <3>1 DEF TypesMade
    <2>5. \A m, p, k : MemberOf(m, p, k) => MemberOf(m, p, k)'
      BY <1>2, <1>4, Kept
    <2>6. ASSUME NEW n \in TypeNames, NEW k \in Declarations(n), NEW q \in 1..Filled(k)
          PROVE  MemberOf(types[n].members[q], prog[k].parts[q], k)'
      <3>1. MemberOf(types[n].members[q], prog[k].parts[q], k)
        BY <1>2, <2>6 DEF TypesMade
      <3>2. (types[n].members[q])' = types[n].members[q]
        BY <1>3
      <3> QED
        BY <2>5, <3>1, <3>2 DEF MemberOf
    <2>7. ASSUME NEW n \in TypeNames
          PROVE  /\ \A k, l \in Declarations(n) : k = l
                 /\ Declarations(n) = {} => types'[n].kind = "none"
                 /\ \A k \in Declarations(n) :
                      /\ types'[n].kind = prog[k].kind
                      /\ Len(types'[n].members) = Filled(k)
                      /\ Filled(k) <= Len(prog[k].parts)
      BY <1>2, <1>3 DEF TypesMade
    <2> QED
      BY <1>3, <2>1, <2>2, <2>3, <2>4, <2>6, <2>7 DEF TypesMade
  <1>7. FuncsMade'
    BY <1>1, <1>4, FuncsStay
  <1>8. Resolved' /\ InHand'
    BY <1>1, <1>2, AtItem DEF Resolved, InHand, At, Item
  <1> QED
    BY <1>1, <1>5, <1>6, <1>7, <1>8 DEF IInv, Registered, NoCrash

\* A member is added: made are the structs in the value of its initializer.
LEMMA AddStep ==
  ASSUME IInv, At({"struct", "enum"}), j > 0, HasPart, NEW made, AddMember(made),
         made \subseteq TypeNames \X Nat,
         InOrder => \A x \in made : Above(x[1], i) /\ x[2] = Members(x[1])
  PROVE  IInv'
  <1> DEFINE m == Member(Resolve(P), P.role, made)
             own == types[Item.name].members
  <1> PICK c : c = i
    OBVIOUS
  <1> PICK new : new = m
    OBVIOUS
  <1> PICK part : part = P
    OBVIOUS
  <1>1. /\ pc = "items" /\ i <= Len(prog) /\ Item.kind \in {"struct", "enum"}
        /\ types' = [types EXCEPT ![Item.name].members = Append(@, m)]
        /\ arrays' = ArraysWith(P) /\ j' = j + 1
        /\ UNCHANGED <<prog, pc, i, errors, funcs, args, last>>
    BY DEF At, AddMember
  <1>2. /\ Typed /\ TypesMade /\ i \in 1..Len(prog) /\ Len(arrays) \in Nat
        /\ types \in [TypeNames -> TypeSet] /\ j \in Nat
        /\ Item.name \in TypeNames /\ i \in Declarations(Item.name)
    BY <1>1, AtItem, OwnType DEF Typed
  <1>3. P \in Parts /\ P.type \in PartTypes /\ j \in 1..Len(Item.parts) /\ P = prog[i].parts[j]
    BY <1>1, <1>2, AtItem, ItemShape DEF P, HasPart, Item
  <1>4. /\ arrays' \in Seq(Hashes) /\ Len(arrays') >= Len(arrays) /\ Len(arrays') \in Nat
        /\ \A a \in 1..Len(arrays) : arrays'[a] = arrays[a]
        /\ \A a, b \in 1..Len(arrays') : arrays'[a] = arrays'[b] => a = b
        /\ Resolve(P) \in Refs /\ Resolve(P).name = P.type
        /\ Resolve(P).arr \in 0..Len(arrays') /\ (Resolve(P).arr = 0 <=> ~P.arr)
        /\ Resolve(P).arr # 0 => arrays'[Resolve(P).arr] = Hash(P.type)
    BY <1>1, <1>2, <1>3, Resolving, LenProperties DEF Parts
  <1>5. m \in MemberSet /\ m.type = Resolve(P) /\ m.role = P.role /\ m.made = made
    BY <1>3, <1>4 DEF Member, MemberSet, Parts
  <1>6. own \in Seq(MemberSet) /\ Len(own) = j - 1 /\ Len(own) \in Nat
    <2>1. own \in Seq(MemberSet) /\ Len(own) = Filled(i)
      BY <1>2 DEF TypeSet, TypesMade
    <2> QED
      BY <1>2, <2>1, LenProperties DEF Filled
  <1>7. /\ types' \in [TypeNames -> TypeSet]
        /\ types'[Item.name].members = Append(own, m)
        /\ \A n \in TypeNames : /\ types'[n].kind = types[n].kind
                                 /\ types'[n].initialized = types[n].initialized
        /\ \A n \in TypeNames \ {Item.name} : types'[n] = types[n]
    <2>1. Append(own, m) \in Seq(MemberSet)
      BY <1>5, <1>6, AppendProperties
    <2> QED
      BY <1>1, <1>2, <2>1 DEF TypeSet
  <1>8. /\ Len(Append(own, m)) = j /\ Append(own, m)[j] = m
        /\ \A q \in 1..(j - 1) : Append(own, m)[q] = own[q]
    <2>1. /\ Len(Append(own, m)) = Len(own) + 1 /\ Append(own, m)[Len(own) + 1] = m
          /\ \A q \in 1..Len(own) : Append(own, m)[q] = own[q]
      BY <1>5, <1>6, AppendProperties
    <2> HIDE DEF m, own
    <2> QED
      BY <1>2, <1>6, <2>1
  <1>9. \A k \in 1..i : Stable(k)
    BY <1>1, <1>2, <1>4, <1>7, ItemStable
  <1>10. types[Item.name].initialized
    BY <1>2 DEF TypesMade, Begun
  <1>11. Typed'
    <2>1. \A n \in TypeNames : types'[n].initialized \/ types'[n].members = <<>>
      BY <1>2, <1>7, <1>10 DEF Typed
    <2>2. ASSUME NEW n \in TypeNames, NEW q \in 1..Len(types'[n].members)
          PROVE  types'[n].members[q].type.arr \in 0..Len(arrays')
      <3>1. CASE n = Item.name
        <4>1. CASE q = j
          BY <1>4, <1>5, <1>7, <1>8, <3>1, <4>1
        <4>2. CASE q # j
          <5>1. q \in 1..Len(own) /\ types'[n].members[q] = own[q]
            <6>1. types'[n].members = Append(own, m) /\ q \in 1..Len(Append(own, m))
              BY <1>7, <2>2, <3>1
            <6>2. q \in 1..(j - 1)
              BY <1>2, <1>8, <4>2, <6>1
            <6> QED
              BY <1>6, <1>8, <6>1, <6>2
          <5>2. own[q].type.arr \in 0..Len(arrays)
            BY <1>2, <5>1 DEF Typed
          <5> QED
            BY <1>2, <1>4, <5>1, <5>2
        <4> QED
          BY <4>1, <4>2
      <3>2. CASE n # Item.name
        <4>1. types[n].members[q].type.arr \in 0..Len(arrays)
          BY <1>2, <1>7, <2>2, <3>2 DEF Typed
        <4> QED
          BY <1>2, <1>4, <1>7, <3>2, <4>1
      <3> QED
        BY <3>1, <3>2
    <2>3. prog' \in Seq(Items) /\ pc' \in Phases /\ errors' \in BOOLEAN
          /\ i' \in 1..(Len(prog') + 1) /\ j' \in Nat
      BY <1>1, <1>2 DEF Typed
    <2>4. /\ funcs' \in [FuncNames -> FuncSet] /\ args' \in Seq(Refs) /\ last' \in Refs
      BY <1>1, <1>2 DEF Typed
    <2> QED
      BY <1>4, <1>7, <2>1, <2>2, <2>3, <2>4 DEF Typed
  <1>12. TypesMade'
    <2>1. \A n : Declarations(n)' = Declarations(n)
      BY <1>1, TextKept
    <2>2. \A n \in TypeNames : \A k \in Declarations(n) :
            /\ Begun(k)' <=> Begun(k)
            /\ n # Item.name => Filled(k)' = Filled(k) /\ k # i
            /\ n = Item.name => k = i /\ Filled(k)' = j
      BY <1>1, <1>2, OwnType DEF Begun, Filled
    <2>3. ASSUME NEW n \in TypeNames, n # Item.name, NEW k \in Declarations(n)
          PROVE  /\ Len(types'[n].members) = Filled(k)' /\ Filled(k)' <= Len(prog[k].parts)
                 /\ \A q \in 1..Filled(k)' : MemberOf(types[n].members[q], prog[k].parts[q], k)'
      <3>1. /\ Len(types[n].members) = Filled(k) /\ Filled(k) <= Len(prog[k].parts)
            /\ \A q \in 1..Filled(k) : MemberOf(types[n].members[q], prog[k].parts[q], k)
        BY <1>2, <2>3 DEF TypesMade
      <3>2. types'[n] = types[n] /\ Filled(k)' = Filled(k)
        BY <1>7, <2>2, <2>3
      <3>3. ASSUME NEW q \in 1..Filled(k)
            PROVE  MemberOf(types[n].members[q], prog[k].parts[q], k)'
        <4>1. k \in 1..i
          <5>1. Filled(k) # 0
            BY <3>3
          <5> QED
            BY <1>1, <1>2, <5>1, AtItem DEF Filled
        <4>2. \A mm, p : MemberOf(mm, p, k) => MemberOf(mm, p, k)'
          BY <1>2, <1>9, <4>1, Kept
        <4>3. (types[n].members[q])' = types[n].members[q]
          BY <3>2
        <4> QED
          BY <1>1, <3>1, <3>3, <4>2, <4>3 DEF MemberOf
      <3> QED
        BY <3>1, <3>2, <3>3
    <2>4. ASSUME NEW q \in 1..j
          PROVE  MemberOf(types[Item.name].members[q], prog[c].parts[q], c)'
      <3>1. \A mm, p : MemberOf(mm, p, c) => MemberOf(mm, p, c)'
        BY <1>2, <1>9, Kept
      <3>2. /\ (types[Item.name].members[q])' = Append(own, m)[q]
            /\ (prog[c].parts[q])' = prog[c].parts[q]
        BY <1>1, <1>7 DEF Item
      <3>3. CASE q = j
        <4>1. InOrder' <=> InOrder
          BY <1>1, TextKept
        <4>2. \A n : Above(n, c) => Above(n, c)' /\ Members(n)' = Members(n)
          <5>1. \A n : Above(n, c)' <=> Above(n, c)
            BY <1>1, TextKept
          <5>2. Stable(c)
            BY <1>2, <1>9
          <5> QED
            BY <5>1, <5>2 DEF Stable, Members
        <4>3. Above(part.type, c)' <=> Above(part.type, c)
          BY <1>1, TextKept
        <4>4. Above(part.type, c) => Hash(part.type)' = Hash(part.type)
          BY <4>2 DEF Hash
        <4>5. RefOf(new.type, part, c)'
          <5>1. /\ new.type.name = part.type /\ new.type.arr \in 0..Len(arrays')
                /\ (new.type.arr = 0 <=> ~part.arr)
                /\ new.type.arr # 0 => arrays'[new.type.arr] = Hash(part.type)
            BY <1>4, <1>5
          <5> QED
            BY <4>3, <4>4, <5>1 DEF RefOf
        <4>6. new.role = part.role /\ new.made = made
          BY <1>5
        <4>7. InOrder => \A x \in made : Above(x[1], c) /\ x[2] = Members(x[1])
          OBVIOUS
        <4>8. MemberOf(new, part, c)'
          BY <4>1, <4>2, <4>5, <4>6, <4>7 DEF MemberOf
        <4>9. (types[Item.name].members[q])' = new /\ (prog[c].parts[q])' = part
          BY <1>3, <1>8, <3>2, <3>3
        <4> QED
          BY <4>8, <4>9 DEF MemberOf, RefOf
      <3>4. CASE q # j
        <4>1. q \in 1..(j - 1) /\ Filled(c) = j - 1
          BY <1>2, <2>4, <3>4 DEF Filled
        <4>2. MemberOf(own[q], prog[c].parts[q], c)
          BY <1>2, <4>1 DEF TypesMade
        <4>3. PICK old : old = own[q]
          OBVIOUS
        <4>4. PICK its : its = prog[c].parts[q]
          OBVIOUS
        <4>5. MemberOf(old, its, c)'
          BY <3>1, <4>2, <4>3, <4>4
        <4>6. (types[Item.name].members[q])' = old /\ (prog[c].parts[q])' = its
          BY <1>8, <3>2, <4>1, <4>3, <4>4
        <4> QED
          BY <4>5, <4>6 DEF MemberOf, RefOf
      <3> QED
        BY <3>3, <3>4
    <2>5. ASSUME NEW n \in TypeNames
          PROVE  /\ \A k, l \in Declarations(n) : k = l
                 /\ Declarations(n) = {} => types'[n].kind = "none"
                 /\ Declarations(n) = {} => ~types'[n].initialized
                 /\ \A k \in Declarations(n) :
                      types'[n].kind = prog[k].kind /\ (types'[n].initialized <=> Begun(k))
      BY <1>2, <1>7 DEF TypesMade
    <2>6. ASSUME NEW n \in TypeNames, NEW k \in Declarations(n)
          PROVE  /\ Len(types'[n].members) = Filled(k)' /\ Filled(k)' <= Len(prog[k].parts)
                 /\ \A q \in 1..Filled(k)' : MemberOf(types[n].members[q], prog[k].parts[q], k)'
      <3>1. CASE n = Item.name
        <4>1. k = c /\ Filled(k)' = j
          BY <2>2, <3>1
        <4>2. j <= Len(prog[k].parts)
          BY <1>3, <4>1 DEF Item
        <4>3. Len(types'[n].members) = j
          BY <1>7, <1>8, <3>1
        <4>4. n = Item.name /\ Item' = Item
          BY <1>1, <3>1 DEF Item
        <4>5. ASSUME NEW q \in 1..j
              PROVE  MemberOf(types[n].members[q], prog[k].parts[q], k)'
          <5>1. (types[n].members[q])' = (types[Item.name].members[q])'
            BY <4>4
          <5> QED
            BY <2>4, <4>1, <5>1 DEF MemberOf, RefOf
        <4> QED
          BY <4>1, <4>2, <4>3, <4>5
      <3> QED
        BY <2>3, <3>1
    <2> QED
      BY <1>1, <2>1, <2>2, <2>5, <2>6 DEF TypesMade
  <1>13. FuncsMade'
    BY <1>1, <1>9, FuncsStay
  <1>14. Resolved' /\ InHand'
    BY <1>1, <1>2, AtItem DEF Resolved, InHand, At, Item
  <1> QED
    BY <1>1, <1>11, <1>12, <1>13, <1>14 DEF IInv, Registered, NoCrash

\* What is made of types stays if no type changes and no type is begun or ended.
LEMMA TypesStay ==
  ASSUME Typed, TypesMade, prog' = prog, types' = types, \A k : Stable(k),
         \A n \in TypeNames : \A k \in Declarations(n) :
           Filled(k)' = Filled(k) /\ (Begun(k)' <=> Begun(k))
  PROVE  TypesMade'
  <1>1. \A n : Declarations(n)' = Declarations(n)
    BY TextKept
  <1>2. ASSUME NEW n \in TypeNames, NEW k \in Declarations(n), NEW q \in 1..Filled(k)
        PROVE  MemberOf(types[n].members[q], prog[k].parts[q], k)'
    <2>1. PICK mm : mm = types[n].members[q]
      OBVIOUS
    <2>2. PICK part : part = prog[k].parts[q]
      OBVIOUS
    <2>3. MemberOf(mm, part, k)
      BY <1>2, <2>1, <2>2 DEF TypesMade
    <2>4. MemberOf(mm, part, k)'
      BY <2>3, Kept
    <2> QED
      BY <2>1, <2>2, <2>4 DEF MemberOf, RefOf
  <1> QED
    BY <1>1, <1>2 DEF TypesMade

\* So does what is made of functions.
LEMMA ParamsStay ==
  ASSUME Typed, FuncsMade, prog' = prog, \A k : Stable(k),
         NEW k \in 1..(i - 1), prog[k].kind = "func", LastOfName(k)
  PROVE  /\ funcs[prog[k].name].known
         /\ ParamsOf(funcs[prog[k].name].params, k, Len(prog[k].parts))
         /\ \A ps : ps = funcs[prog[k].name].params => ParamsOf(ps, k, Len(prog[k].parts))'
  <1>1. /\ funcs[prog[k].name].known
        /\ ParamsOf(funcs[prog[k].name].params, k, Len(prog[k].parts))
    BY DEF FuncsMade
  <1>2. PICK n : n = Len(prog[k].parts)
    OBVIOUS
  <1>3. \A ps : ParamsOf(ps, k, n) => ParamsOf(ps, k, n)'
    BY Kept
  <1> QED
    BY <1>1, <1>2, <1>3 DEF ParamsOf

LEMMA TypeDoneStep ==
  ASSUME IInv, TypeDone
  PROVE  IInv'
  <1>1. /\ pc = "items" /\ i <= Len(prog) /\ Item.kind \in {"struct", "enum"}
        /\ j > 0 /\ ~(j <= Len(Item.parts)) /\ i' = i + 1 /\ j' = 0
        /\ UNCHANGED <<prog, pc, errors, types, arrays, funcs, args, last>>
    BY DEF TypeDone, At, HasPart
  <1>2. /\ Typed /\ TypesMade /\ InHand /\ i \in 1..Len(prog) /\ Len(prog) \in Nat
        /\ Len(arrays) \in Nat /\ j \in Nat /\ Len(Item.parts) \in Nat
    BY <1>1, AtItem DEF Typed
  <1>3. \A k : Stable(k)
    BY <1>1, <1>2, AllStable
  <1>4. Typed'
    BY <1>1, <1>2 DEF Typed
  <1>5. TypesMade'
    <2>1. i \in Declarations(Item.name) /\ Item.name \in TypeNames
      BY <1>1, OwnType
    <2>2. Filled(i) = j - 1 /\ Filled(i) <= Len(Item.parts)
      BY <1>1, <1>2, <2>1 DEF TypesMade, Filled, Item
    <2>3. j - 1 = Len(Item.parts)
      BY <1>1, <1>2, <2>2
    <2>4. ASSUME NEW k \in 1..Len(prog)
          PROVE  Filled(k)' = Filled(k) /\ (Begun(k)' <=> Begun(k))
      <3>1. CASE k < i
        BY <1>1, <1>2, <3>1 DEF Filled, Begun
      <3>2. CASE k = i
        BY <1>1, <1>2, <2>3, <3>2 DEF Filled, Begun, Item
      <3>3. CASE k > i
        BY <1>1, <1>2, <3>3 DEF Filled, Begun
      <3> QED
        BY <1>2, <3>1, <3>2, <3>3
    <2>5. \A n : Declarations(n) \subseteq 1..Len(prog)
      BY <1>1, AtItem
    <2> QED
      BY <1>1, <1>2, <1>3, <2>4, <2>5, TypesStay
  <1>6. FuncsMade'
    BY <1>1, <1>3, FuncsStay
  <1>7. Resolved'
    BY <1>1, AtItem DEF Resolved
  <1>8. InHand'
    <2>1. args = <<>> /\ Len(args) = 0
      BY <1>1, <1>2, EmptySeq DEF InHand, At
    <2>2. ASSUME i + 1 <= Len(prog) PROVE Len(prog[i + 1].parts) \in Nat
      BY <1>1, <1>2, <2>2, AtItem
    <2> QED
      BY <1>1, <1>2, <2>1, <2>2 DEF InHand, At, Item, ParamsOf
  <1> QED
    BY <1>1, <1>4, <1>5, <1>6, <1>7, <1>8 DEF IInv, Registered, NoCrash

\* A parameter of a function is resolved.
LEMMA ParamStep ==
  ASSUME IInv, At({"func"}), j < Len(Item.parts),
         args' = Append(args, Resolve(Item.parts[j + 1])),
         arrays' = ArraysWith(Item.parts[j + 1]), j' = j + 1,
         UNCHANGED <<prog, pc, i, errors, types, funcs, last>>
  PROVE  IInv'
  <1> PICK c : c = i
    OBVIOUS
  <1> PICK part : part = Item.parts[j + 1]
    OBVIOUS
  <1> PICK new : new = Resolve(Item.parts[j + 1])
    OBVIOUS
  <1>1. pc = "items" /\ i <= Len(prog) /\ Item.kind = "func"
    BY DEF At
  <1>2. /\ Typed /\ TypesMade /\ FuncsMade /\ InHand /\ i \in 1..Len(prog) /\ Len(prog) \in Nat
        /\ Len(arrays) \in Nat /\ j \in Nat /\ Len(Item.parts) \in Nat /\ args \in Seq(Refs)
    BY <1>1, AtItem DEF Typed
  <1>3. part \in Parts /\ part.type \in PartTypes /\ part = prog[c].parts[j + 1]
    BY <1>1, <1>2, AtItem, ItemShape DEF Item
  <1>4. /\ arrays' \in Seq(Hashes) /\ Len(arrays') >= Len(arrays) /\ Len(arrays') \in Nat
        /\ \A a \in 1..Len(arrays) : arrays'[a] = arrays[a]
        /\ \A a, b \in 1..Len(arrays') : arrays'[a] = arrays'[b] => a = b
        /\ new \in Refs /\ new.name = part.type
        /\ new.arr \in 0..Len(arrays') /\ (new.arr = 0 <=> ~part.arr)
        /\ new.arr # 0 => arrays'[new.arr] = Hash(part.type)
    <2>1. part.arr \in BOOLEAN
      BY <1>3 DEF Parts
    <2>2. arrays' = ArraysWith(part) /\ new = Resolve(part)
      OBVIOUS
    <2>3. Typed
      BY <1>2
    <2>4. /\ arrays' \in Seq(Hashes) /\ Len(arrays') >= Len(arrays)
          /\ \A a \in 1..Len(arrays) : arrays'[a] = arrays[a]
          /\ \A a, b \in 1..Len(arrays') : arrays'[a] = arrays'[b] => a = b
          /\ new \in Refs /\ new.name = part.type
          /\ new.arr \in 0..Len(arrays') /\ (new.arr = 0 <=> ~part.arr)
          /\ new.arr # 0 => arrays'[new.arr] = Hash(part.type)
      BY ONLY <1>3, <2>1, <2>2, <2>3, Resolving, SMTT(30)
    <2> QED
      BY ONLY <2>4, LenProperties
  <1>5. \A k : Stable(k)
    BY <1>2, <1>4, AllStable
  <1>6. /\ args' \in Seq(Refs) /\ Len(args') = Len(args) + 1 /\ args'[Len(args) + 1] = new
        /\ \A q \in 1..Len(args) : args'[q] = args[q]
    BY <1>2, <1>4, AppendProperties
  <1>7. Typed'
    <2>1. \A n \in TypeNames : \A q \in 1..Len(types[n].members) :
            types[n].members[q].type.arr \in 0..Len(arrays')
      <3>1. \A n \in TypeNames : \A q \in 1..Len(types[n].members) :
              types[n].members[q].type.arr \in 0..Len(arrays)
        BY <1>2 DEF Typed
      <3> QED
        BY <1>2, <1>4, <3>1
    <2> QED
      BY <1>2, <1>4, <1>6, <2>1 DEF Typed
  <1>8. TypesMade'
    <2>1. \A n \in TypeNames : \A k \in Declarations(n) : k # i
      BY <1>1 DEF Declarations, Item
    <2> QED
      BY <1>2, <1>5, <2>1, TypesStay DEF Filled, Begun
  <1>9. FuncsMade'
    <2>1. ASSUME NEW k \in 1..(i - 1), prog[k].kind = "func", LastOfName(k)
          PROVE  /\ funcs[prog[k].name].known
                 /\ ParamsOf(funcs[prog[k].name].params, k, Len(prog[k].parts))'
      <3>1. PICK ps : ps = funcs[prog[k].name].params
        OBVIOUS
      <3>2. funcs[prog[k].name].known /\ ParamsOf(ps, k, Len(prog[k].parts))'
        BY <1>2, <1>5, <2>1, <3>1, ParamsStay
      <3> QED
        BY <3>1, <3>2 DEF ParamsOf
    <2>2. \A k : LastOfName(k)' <=> LastOfName(k)
      BY DEF LastOfName
    <2> QED
      BY <1>2, <2>1, <2>2 DEF FuncsMade
  <1>10. Resolved'
    BY <1>1, AtItem DEF Resolved
  <1>11. InHand'
    <2>1. Len(args) = j /\ \A q \in 1..j : RefOf(args[q], prog[i].parts[q], i)
      BY <1>2, <1>1 DEF InHand, At, ParamsOf
    <2>2. ASSUME NEW q \in 1..(j + 1)
          PROVE  RefOf(args[q], prog[c].parts[q], c)'
      <3>1. CASE q = j + 1
        <4>1. Above(part.type, c)' <=> Above(part.type, c)
          BY TextKept
        <4>2. Hash(part.type)' = Hash(part.type)
          BY DEF Hash, Members
        <4>3. RefOf(new, part, c)'
          BY <1>4, <4>1, <4>2 DEF RefOf
        <4>4. args'[q] = new /\ (prog[c].parts[q])' = part
          BY <1>3, <1>6, <2>1, <3>1
        <4> QED
          BY <4>3, <4>4 DEF RefOf
      <3>2. CASE q # j + 1
        <4>1. q \in 1..j
          BY <1>2, <2>2, <3>2
        <4>2. PICK old : old = args[q]
          OBVIOUS
        <4>3. PICK its : its = prog[c].parts[q]
          OBVIOUS
        <4>4. RefOf(old, its, c)
          BY <2>1, <4>1, <4>2, <4>3
        <4>5. RefOf(old, its, c)'
          BY <1>2, <1>5, <4>4, Kept
        <4>6. args'[q] = old /\ (prog[c].parts[q])' = its
          BY <1>6, <2>1, <4>1, <4>2, <4>3
        <4> QED
          BY <4>5, <4>6 DEF RefOf
      <3> QED
        BY <3>1, <3>2
    <2>3. Len(args') = j + 1
      BY <1>6, <2>1
    <2>4. ParamsOf(args, c, j)'
      BY <2>2, <2>3 DEF ParamsOf
    <2>5. ParamsOf(args, i, j)'
      BY <2>4 DEF ParamsOf, RefOf
    <2>6. j + 1 <= Len(Item.parts) /\ Item' = Item
      BY <1>2 DEF Item
    <2> QED
      BY <1>1, <1>2, <2>5, <2>6 DEF InHand, At
  <1> QED
    BY <1>1, <1>7, <1>8, <1>9, <1>10, <1>11 DEF IInv, Registered, NoCrash

\* A function is there once all its parameters are resolved.
LEMMA FuncStep ==
  ASSUME IInv, At({"func"}), j = Len(Item.parts),
         ~(funcs[Item.name].known /\ SameParams(funcs[Item.name].params, args)),
         funcs' = [funcs EXCEPT ![Item.name] = [known |-> TRUE, params |-> args]],
         i' = i + 1, j' = 0, args' = <<>>,
         UNCHANGED <<prog, pc, errors, types, arrays, last>>
  PROVE  IInv'
  <1> PICK c : c = i
    OBVIOUS
  <1> PICK params : params = args
    OBVIOUS
  <1>1. pc = "items" /\ i <= Len(prog) /\ Item.kind = "func"
    BY DEF At
  <1>2. /\ Typed /\ TypesMade /\ FuncsMade /\ InHand /\ i \in 1..Len(prog) /\ Len(prog) \in Nat
        /\ Len(arrays) \in Nat /\ j \in Nat /\ args \in Seq(Refs) /\ Item = prog[i]
        /\ funcs \in [FuncNames -> FuncSet] /\ Item.name \in FuncNames
    BY <1>1, AtItem, ItemShape DEF Typed
  <1>3. \A k : Stable(k)
    BY <1>2, AllStable
  <1>4. /\ funcs' \in [FuncNames -> FuncSet]
        /\ funcs'[Item.name] = [known |-> TRUE, params |-> args]
        /\ \A n \in FuncNames \ {Item.name} : funcs'[n] = funcs[n]
    BY <1>2 DEF FuncSet
  <1>5. Typed'
    <2>1. i' \in 1..(Len(prog') + 1) /\ args' \in Seq(Refs)
      BY <1>2, EmptySeq
    <2> QED
      BY <1>2, <1>4, <2>1 DEF Typed
  <1>6. TypesMade'
    <2>1. \A n \in TypeNames : \A k \in Declarations(n) : k # i /\ k \in 1..Len(prog)
      BY <1>1, AtItem DEF Declarations, Item
    <2>2. \A k \in 1..Len(prog) : k # i => Filled(k)' = Filled(k) /\ (Begun(k)' <=> Begun(k))
      BY <1>2 DEF Filled, Begun
    <2> QED
      BY <1>2, <1>3, <2>1, <2>2, TypesStay
  <1>7. ParamsOf(args, i, Len(prog[i].parts))
    BY <1>1, <1>2 DEF InHand, At
  <1>8. FuncsMade'
    <2>1. ASSUME NEW k \in 1..(i - 1), prog[k].kind = "func", LastOfName(k)'
          PROVE  /\ funcs'[prog[k].name].known
                 /\ ParamsOf(funcs[prog[k].name].params, k, Len(prog[k].parts))'
      <3>1. LastOfName(k) /\ prog[k].name # Item.name
        BY <1>1, <1>2, <2>1 DEF LastOfName
      <3>2. prog[k].name \in FuncNames
        BY <1>1, <1>2, <2>1, AtItem, ItemShape
      <3>3. PICK ps : ps = funcs[prog[k].name].params
        OBVIOUS
      <3>4. funcs[prog[k].name].known /\ ParamsOf(ps, k, Len(prog[k].parts))'
        BY <1>2, <1>3, <2>1, <3>1, <3>3, ParamsStay
      <3> QED
        BY <1>4, <3>1, <3>2, <3>3, <3>4 DEF ParamsOf
    <2>2. ParamsOf(funcs[prog[c].name].params, c, Len(prog[c].parts))'
      <3>1. PICK n : n = Len(prog[c].parts)
        OBVIOUS
      <3>2. ParamsOf(params, c, n)'
        BY <1>3, <1>7, <1>2, <3>1, Kept
      <3>3. (funcs[prog[c].name].params)' = params
        BY <1>2, <1>4
      <3> QED
        BY <3>1, <3>2, <3>3 DEF ParamsOf
    <2>3. ASSUME NEW l \in 1..(i - 1), prog[l].kind = "func", prog[l].name = prog[i].name,
                 \A b \in (l + 1)..(i - 1) : prog[b].name # prog[i].name
          PROVE  prog[l].parts # prog[i].parts
      <3>1. LastOfName(l)
        BY <2>3 DEF LastOfName
      <3>2. funcs[Item.name].known /\ ParamsOf(funcs[Item.name].params, l, Len(prog[l].parts))
        BY <1>2, <2>3, <3>1 DEF FuncsMade
      <3>3. SUFFICES ASSUME prog[l].parts = prog[i].parts PROVE FALSE
        OBVIOUS
      <3> DEFINE ps == funcs[Item.name].params
                 n == Len(prog[i].parts)
      <3>4. /\ Len(ps) = n /\ Len(args) = n
            /\ \A q \in 1..n : ps[q].name = args[q].name /\ (ps[q].arr = 0 <=> args[q].arr = 0)
        BY <1>7, <3>2, <3>3 DEF ParamsOf, RefOf
      <3>5. ps \in Seq(Refs)
        BY <1>2 DEF FuncSet
      <3>6. DOMAIN ps = 1..n
        BY <3>4, <3>5, LenProperties
      <3> QED
        BY <3>2, <3>4, <3>6 DEF SameParams
    <2>4. ASSUME NEW k \in 1..i, prog[k].kind = "func", LastOfName(k)'
          PROVE  /\ funcs'[prog[k].name].known
                 /\ ParamsOf(funcs[prog[k].name].params, k, Len(prog[k].parts))'
      <3>1. CASE k = c
        BY <1>2, <1>4, <2>2, <3>1
      <3>2. CASE k # c
        BY <1>2, <2>1, <2>4, <3>2
      <3> QED
        BY <3>1, <3>2
    <2>5. ASSUME NEW k \in 1..i, prog[k].kind = "func", NEW l \in 1..(k - 1),
                 prog[l].kind = "func", prog[l].name = prog[k].name,
                 \A b \in (l + 1)..(k - 1) : prog[b].name # prog[k].name
          PROVE  prog[l].parts # prog[k].parts
      <3>1. CASE k = c
        BY <2>3, <2>5, <3>1
      <3>2. CASE k # c
        <4>1. k \in 1..(i - 1)
          BY <1>2, <3>2
        <4> QED
          BY <1>2, <2>5, <4>1 DEF FuncsMade
      <3> QED
        BY <3>1, <3>2
    <2>6. i' - 1 = i
      BY <1>2
    <2> QED
      BY <2>4, <2>5, <2>6 DEF FuncsMade
  <1>9. Resolved'
    BY <1>1, AtItem DEF Resolved
  <1>10. InHand'
    <2>1. args' = <<>> /\ Len(args') = 0
      BY EmptySeq
    <2>2. ASSUME i + 1 <= Len(prog) PROVE Len(prog[i + 1].parts) \in Nat
      BY <1>1, <1>2, <2>2, AtItem
    <2> QED
      BY <1>2, <2>1, <2>2 DEF InHand, At, Item, ParamsOf
  <1> QED
    BY <1>1, <1>5, <1>6, <1>8, <1>9, <1>10 DEF IInv, Registered, NoCrash

LEMMA ItemsDoneStep ==
  ASSUME IInv, ItemsDone
  PROVE  IInv'
  <1>1. /\ pc = "items" /\ i > Len(prog) /\ pc' = "run"
        /\ UNCHANGED <<prog, i, j, errors, types, arrays, funcs, args, last>>
    BY DEF ItemsDone
  <1>2. Typed' /\ Registered'
    <2>1. Typed /\ Registered /\ pc' \in Phases /\ errors' \in BOOLEAN
      BY <1>1 DEF IInv, Typed, Phases
    <2> QED
      BY <1>1, <2>1, Unmoved
  <1> QED
    BY <1>1, <1>2 DEF IInv, NoCrash

\* A statement resolves an array type.
LEMMA LetStep ==
  ASSUME IInv, pc = "run", NEW p, p.arr \in BOOLEAN, p.type \in PartTypes,
         arrays' = ArraysWith(p), last' = Resolve(p),
         UNCHANGED <<prog, pc, i, j, errors, types, funcs, args>>
  PROVE  IInv'
  <1>1. Typed /\ TypesMade /\ FuncsMade /\ i > Len(prog)
    BY DEF IInv, Registered
  <1>2. /\ arrays' \in Seq(Hashes) /\ Len(arrays') >= Len(arrays) /\ Len(arrays') \in Nat
        /\ Len(arrays) \in Nat
        /\ \A a \in 1..Len(arrays) : arrays'[a] = arrays[a]
        /\ \A a, b \in 1..Len(arrays') : arrays'[a] = arrays'[b] => a = b
        /\ last' \in Refs /\ last'.arr \in 0..Len(arrays') /\ last'.name = p.type
        /\ last'.arr # 0 => arrays'[last'.arr] = Hash(p.type)
    BY <1>1, Resolving, LenProperties DEF Typed
  <1>3. \A k : Stable(k)
    BY <1>2, AllStable
  <1>4. Typed'
    <2>1. \A n \in TypeNames : \A q \in 1..Len(types[n].members) :
            types[n].members[q].type.arr \in 0..Len(arrays')
      <3>1. \A n \in TypeNames : \A q \in 1..Len(types[n].members) :
              types[n].members[q].type.arr \in 0..Len(arrays)
        BY <1>1 DEF Typed
      <3> QED
        BY <1>2, <3>1
    <2> QED
      BY <1>1, <1>2, <2>1 DEF Typed
  <1>5. TypesMade'
    BY <1>1, <1>3, TypesStay DEF Filled, Begun
  <1>6. FuncsMade'
    <2>1. ASSUME NEW k \in 1..(i - 1), prog[k].kind = "func", LastOfName(k)
          PROVE  /\ funcs[prog[k].name].known
                 /\ ParamsOf(funcs[prog[k].name].params, k, Len(prog[k].parts))'
      <3>1. PICK ps : ps = funcs[prog[k].name].params
        OBVIOUS
      <3>2. funcs[prog[k].name].known /\ ParamsOf(ps, k, Len(prog[k].parts))'
        BY <1>1, <1>3, <2>1, <3>1, ParamsStay
      <3> QED
        BY <3>1, <3>2 DEF ParamsOf
    <2>2. \A k : LastOfName(k)' <=> LastOfName(k)
      BY DEF LastOfName
    <2> QED
      BY <1>1, <2>1, <2>2 DEF FuncsMade
  <1>7. Resolved'
    <2>1. Hash(p.type)' = Hash(p.type)
      BY DEF Hash, Members
    <2>2. Hash(last.name)' = Hash(p.type)
      BY <1>2, <2>1 DEF Hash, Members
    <2> QED
      BY <1>1, <1>2, <2>2 DEF Resolved
  <1> QED
    BY <1>1, <1>4, <1>5, <1>6, <1>7 DEF IInv, Registered, NoCrash

\* What an initializer adds, or how it stops.
LEMMA InitializeStep ==
  ASSUME IInv, At({"struct", "enum"}), j > 0, HasPart, Initialize
  PROVE  IInv'
  <1>1. pc = "items" /\ i <= Len(prog)
    BY DEF At
  <1>2. /\ Typed /\ TypesMade /\ i \in DOMAIN prog
        /\ j \in 1..Len(prog[i].parts) /\ P = prog[i].parts[j]
    BY <1>1, AtItem DEF P, HasPart, Item, Typed
  <1>3. {} \subseteq TypeNames \X Nat
    OBVIOUS
  <1>4. CASE AddMember({})
    BY <1>3, <1>4, AddStep
  <1>5. CASE Stop("failed")
    BY <1>1, <1>5, StopStep DEF Ends
  <1>6. CASE P.init = "new" /\ Endless(P.of) /\ Stop("endless")
    <2>1. P.of \in TypeNames
      BY <1>2, <1>6, MadeAbove
    <2>2. ~InOrder
      BY <1>2, <1>6, <2>1, EndlessInText
    <2> QED
      BY <1>1, <1>6, <2>2, StopStep DEF Ends
  <1>7. CASE P.init = "new" /\ AddMember(Made(P.of))
    <2>1. /\ Made(P.of) \subseteq TypeNames \X Nat
          /\ InOrder => \A x \in Made(P.of) : Above(x[1], i) /\ x[2] = Members(x[1])
      BY <1>2, <1>7, MadeAbove
    <2> QED
      BY <1>7, <2>1, AddStep
  <1> QED
    BY <1>4, <1>5, <1>6, <1>7 DEF Initialize

\* A copy of a static member in a program in order finds all of it.
LEMMA WholeInOrder ==
  ASSUME IInv, pc = "run", InOrder,
         NEW n \in TypeNames, NEW q \in DOMAIN types[n].members
  PROVE  LET m == types[n].members[q]
         IN  Whole(m) /\ \A x \in m.made : ~Endless(x[1])
  <1>1. Typed /\ TypesMade
    BY DEF IInv, Registered
  <1> DEFINE m == types[n].members[q]
  <1>2. PICK d : MemberOf(m, prog[d].parts[q], d)
    BY <1>1, PartOfMember
  <1>3. Whole(m)
    BY <1>2 DEF MemberOf, Whole
  <1>4. types[n].members \in Seq(MemberSet)
    BY <1>1 DEF Typed, TypeSet
  <1>5. m \in MemberSet
    BY <1>4, LenProperties, ElementOfSeq
  <1>6. \A x \in m.made : x[1] \in TypeNames
    BY <1>5 DEF MemberSet
  <1> QED
    BY <1>1, <1>3, <1>6, EndlessInText

LEMMA NextInv ==
  ASSUME IInv, [Next]_vars
  PROVE  IInv'
  <1>1. CASE Declare
    BY <1>1, DeclareStep
  <1>2. CASE Declared
    BY <1>2, DeclaredStep
  <1>3. CASE BeginType
    <2>1. At({"struct", "enum"}) /\ j = 0 /\ pc = "items"
      BY <1>3 DEF BeginType, At
    <2>2. CASE Stop("failed")
      BY <2>1, <2>2, StopStep DEF Ends
    <2>3. CASE ~Stop("failed")
      BY <1>3, <2>1, <2>3, BeginStep DEF BeginType
    <2> QED
      BY <2>2, <2>3
  <1>4. CASE AddField
    <2>1. At({"struct", "enum"}) /\ j > 0 /\ HasPart /\ pc = "items"
      BY <1>4 DEF AddField, At
    <2>2. CASE Stop("failed")
      BY <2>1, <2>2, StopStep DEF Ends
    <2>3. CASE AddMember({})
      BY <2>1, <2>3, AddStep
    <2> QED
      BY <1>4, <2>2, <2>3 DEF AddField
  <1>5. CASE AddStatic
    <2>1. /\ At({"struct", "enum"}) /\ j > 0 /\ HasPart /\ pc = "items" /\ i <= Len(prog)
          /\ Item.kind = "struct" /\ P.role = "static"
      BY <1>5 DEF AddStatic, At
    <2>2. CASE Stop("failed")
      BY <2>1, <2>2, StopStep DEF Ends
    <2>3. CASE P.init = "none" /\ Stop("crash")
      <3>1. P \in ToSet(prog[i].parts) /\ i \in DOMAIN prog /\ prog[i].kind = "struct"
        BY <2>1, AtItem, ItemShape DEF P, HasPart, Typed
      <3>2. ~InOrder
        BY <2>1, <2>3, <3>1 DEF InOrder
      <3> QED
        BY <2>1, <2>3, <3>2, StopStep DEF Ends
    <2>4. CASE Initialize
      BY <2>1, <2>4, InitializeStep
    <2> QED
      BY <1>5, <2>2, <2>3, <2>4 DEF AddStatic
  <1>6. CASE AddEnumMember
    <2>1. At({"struct", "enum"}) /\ j > 0 /\ HasPart
      BY <1>6 DEF AddEnumMember, At
    <2>2. CASE AddMember({})
      BY <2>1, <2>2, AddStep
    <2>3. CASE Initialize
      BY <2>1, <2>3, InitializeStep
    <2> QED
      BY <1>6, <2>2, <2>3 DEF AddEnumMember
  <1>7. CASE TypeDone
    BY <1>7, TypeDoneStep
  <1>8. CASE AddParam
    <2>1. At({"func"}) /\ j < Len(Item.parts) /\ pc = "items"
      BY <1>8 DEF AddParam, At
    <2>2. CASE Stop("failed")
      BY <2>1, <2>2, StopStep DEF Ends
    <2>3. CASE ~Stop("failed")
      BY <1>8, <2>1, <2>3, ParamStep DEF AddParam
    <2> QED
      BY <2>2, <2>3
  <1>9. CASE FuncDone
    <2>1. At({"func"}) /\ j = Len(Item.parts) /\ pc = "items"
      BY <1>9 DEF FuncDone, At
    <2>2. CASE Stop("failed")
      BY <2>1, <2>2, StopStep DEF Ends
    <2>3. CASE ~Stop("failed")
      BY <1>9, <2>1, <2>3, FuncStep DEF FuncDone
    <2> QED
      BY <2>2, <2>3
  <1>10. CASE ItemsDone
    BY <1>10, ItemsDoneStep
  <1>11. ASSUME NEW n \in PartTypes, NEW arr \in BOOLEAN, LetTyped(Part(n, arr))
         PROVE  IInv'
    <2> PICK p : p = Part(n, arr)
      OBVIOUS
    <2>1. pc = "run" /\ p.type = n /\ p.arr = arr /\ LetTyped(p)
      BY <1>11 DEF LetTyped, Part
    <2>2. CASE Stop("failed")
      BY <2>1, <2>2, StopStep DEF Ends
    <2>3. CASE n \in TypeNames /\ Endless(n) /\ Stop("endless")
      <3>1. ~InOrder
        BY <2>1, <2>3, EndlessInText DEF IInv, Registered
      <3> QED
        BY <2>1, <2>3, <3>1, StopStep DEF Ends
    <2>4. CASE /\ arrays' = ArraysWith(p) /\ last' = Resolve(p)
               /\ UNCHANGED <<prog, pc, i, j, errors, types, funcs, args>>
      BY <1>11, <2>1, <2>4, LetStep
    <2> QED
      BY <2>1, <2>2, <2>3, <2>4 DEF LetTyped
  <1>12. CASE LetStatic
    <2>1. pc = "run"
      BY <1>12 DEF LetStatic
    <2>2. PICK n \in TypeNames : \E m \in ToSet(types[n].members) :
            \/ (\E x \in m.made : Endless(x[1])) /\ Stop("endless")
            \/ ~Whole(m) /\ Stop("crash")
      BY <1>12 DEF LetStatic
    <2>3. PICK q \in DOMAIN types[n].members :
            LET m == types[n].members[q]
            IN  \/ (\E x \in m.made : Endless(x[1])) /\ Stop("endless")
                \/ ~Whole(m) /\ Stop("crash")
      BY <2>2 DEF ToSet
    <2>4. ~InOrder
      BY <2>1, <2>3, WholeInOrder
    <2> QED
      BY <2>1, <2>3, <2>4, StopStep DEF Ends
  <1>13. CASE UNCHANGED vars
    <2>1. UNCHANGED <<prog, pc, i, j, errors, types, arrays, funcs, args, last>>
      BY <1>13 DEF vars
    <2>2. Typed' /\ (Registered => Registered')
      BY <2>1, Unmoved DEF IInv, Typed
    <2>3. InOrder' <=> InOrder
      BY <2>1, TextKept
    <2>4. Declaring => Declaring'
      BY <2>1, TextKept DEF Declaring
    <2>5. InHand => InHand'
      BY <2>1 DEF InHand, At, Item, ParamsOf, RefOf, Above, Declarations, Hash, Members
    <2> QED
      BY <2>1, <2>2, <2>3, <2>4, <2>5 DEF IInv, NoCrash
  <1> QED
    BY <1>1, <1>2, <1>3, <1>4, <1>5, <1>6, <1>7, <1>8, <1>9, <1>10, <1>11, <1>12, <1>13 DEF Next

-----------------------------------------------------------------------------
(* The theorems *)

LEMMA Invariance == Spec => []IInv
  <1>1. IInv /\ [Next]_vars => IInv'
    BY NextInv
  <1> QED
    BY InitInv, <1>1, PTL DEF Spec

\* Whatever the declarations, what is made of them has its type, no array type is made
\* twice for one hash, and no member refers to one that is not there: register_struct,
\* register_enum and register_func with alloc_array_type.
THEOREM Typing == Spec => []TypeOK
  <1>1. IInv => TypeOK
    <2> SUFFICES ASSUME IInv PROVE TypeOK
      OBVIOUS
    <2>1. Typed
      BY DEF IInv
    <2>2. ASSUME NEW n \in TypeNames, NEW k \in DOMAIN types[n].members
          PROVE  LET m == types[n].members[k]
                 IN  /\ m.type.name \in PartTypes \cup {""} /\ m.type.arr \in 0..Len(arrays)
                     /\ m.made \subseteq TypeNames \X Nat
      <3>1. types[n].members \in Seq(MemberSet)
        BY <2>1 DEF Typed, TypeSet
      <3>2. k \in 1..Len(types[n].members) /\ types[n].members[k] \in MemberSet
        BY <3>1, LenProperties, ElementOfSeq
      <3> QED
        BY <2>1, <3>2 DEF Typed, MemberSet, Refs
    <2>3. \A k, l \in DOMAIN arrays : arrays[k] = arrays[l] => k = l
      BY <2>1, LenProperties DEF Typed
    <2>4. \A n \in TypeNames : /\ types[n].kind \in {"none", "struct", "enum"}
                               /\ types[n].initialized \/ types[n].members = <<>>
      BY <2>1 DEF Typed, TypeSet
    <2> QED
      BY <2>1, <2>2, <2>3, <2>4 DEF TypeOK, Typed
  <1> QED
    BY <1>1, Invariance, PTL

\* A program in the order that registration needs never reads a member through NULL
\* and never makes a value without end: struct initializers, register_var, copy_value.
THEOREM OrderSuffices == Spec => []NoCrash
  <1>1. IInv => NoCrash
    BY DEF IInv
  <1> QED
    BY <1>1, Invariance, PTL

\* When statements run no type was declared twice and no function was declared again
\* by the next of its name, however much of its parameters' types was known at each:
\* register_declarations and compare_funcs.
THEOREM RedefinitionsFound == Spec => []RedefinitionFound
  <1>1. IInv => RedefinitionFound
    <2> SUFFICES ASSUME IInv, pc = "run" PROVE RedefinitionFound
      BY DEF RedefinitionFound
    <2>1. Typed /\ TypesMade /\ FuncsMade /\ i > Len(prog)
      BY DEF IInv, Registered
    <2>2. /\ DOMAIN prog = 1..Len(prog) /\ Len(prog) \in Nat /\ i = Len(prog) + 1
          /\ \A k \in DOMAIN prog : prog[k] \in Items
      BY <2>1, LenProperties, ElementOfSeq DEF Typed
    <2>3. ASSUME NEW k \in DOMAIN prog, NEW l \in DOMAIN prog,
                 prog[k].kind # "func", prog[l].kind # "func", prog[k].name = prog[l].name
          PROVE  k = l
      <3>1. prog[k].name \in TypeNames
        BY <2>2, <2>3, ItemShape
      <3>2. k \in Declarations(prog[k].name) /\ l \in Declarations(prog[k].name)
        BY <2>3 DEF Declarations
      <3> QED
        BY <2>1, <3>1, <3>2 DEF TypesMade
    <2>4. ASSUME NEW k \in DOMAIN prog, NEW l \in DOMAIN prog,
                 prog[k].kind = "func", prog[l].kind = "func", k < l,
                 prog[k].name = prog[l].name,
                 \A b \in (k + 1)..(l - 1) : prog[b].name # prog[k].name
          PROVE  prog[k].parts # prog[l].parts
      <3>1. l \in 1..(i - 1) /\ k \in 1..(l - 1)
        BY <2>2, <2>4
      <3> QED
        BY <2>1, <2>4, <3>1 DEF FuncsMade
    <2> QED
      BY <2>3, <2>4 DEF RedefinitionFound
  <1> QED
    BY <1>1, Invariance, PTL

\* An annotation [T] stands for one array type everywhere below the declaration of T:
\* in fields, parameters and statements, although alloc_array_type finds the type by
\* the members T has at the time.
THEOREM ArrayTypesAgree == Spec => []OneArrayType
  <1>1. IInv => OneArrayType
    <2> SUFFICES ASSUME IInv, pc = "run", last.arr # 0 PROVE OneArrayType
      BY DEF OneArrayType
    <2>1. /\ Typed /\ TypesMade /\ FuncsMade /\ i > Len(prog)
          /\ last.arr <= Len(arrays) /\ arrays[last.arr] = Hash(last.name)
      BY DEF IInv, Registered, Resolved
    <2>2. /\ DOMAIN prog = 1..Len(prog) /\ Len(prog) \in Nat /\ i = Len(prog) + 1
          /\ \A k \in DOMAIN prog : prog[k] \in Items
          /\ last.arr \in 1..Len(arrays)
      BY <2>1, LenProperties, ElementOfSeq DEF Typed, Refs
    <2>3. ASSUME NEW r, NEW p, NEW k, RefOf(r, p, k), Above(last.name, k),
                 r.name = last.name, r.arr # 0
          PROVE  r.arr = last.arr
      <3>1. arrays[r.arr] = Hash(last.name) /\ r.arr \in 1..Len(arrays)
        BY <2>3 DEF RefOf
      <3> QED
        BY <2>1, <2>2, <3>1 DEF Typed
    <2>4. ASSUME NEW k \in DOMAIN prog, prog[k].kind = "func", Above(last.name, k),
                 ~(\E b \in DOMAIN prog : b > k /\ prog[b].kind = "func"
                                         /\ prog[b].name = prog[k].name),
                 NEW p \in ToSet(funcs[prog[k].name].params),
                 p.name = last.name, p.arr # 0
          PROVE  p.arr = last.arr
      <3> DEFINE ps == funcs[prog[k].name].params
      <3>1. k \in 1..(i - 1) /\ LastOfName(k)
        BY <2>2, <2>4 DEF LastOfName
      <3>2. ParamsOf(ps, k, Len(prog[k].parts))
        BY <2>1, <2>4, <3>1 DEF FuncsMade
      <3>3. ps \in Seq(Refs)
        BY <2>1, <2>2, <2>4, ItemShape DEF Typed, FuncSet
      <3>4. PICK q \in 1..Len(ps) : p = ps[q]
        BY <3>3, LenProperties DEF ToSet
      <3>5. RefOf(p, prog[k].parts[q], k)
        BY <3>2, <3>4 DEF ParamsOf
      <3> QED
        BY <2>3, <2>4, <3>5
    <2>5. ASSUME NEW n \in TypeNames, NEW k \in Declarations(n), Above(last.name, k),
                 NEW m \in ToSet(types[n].members),
                 m.type.name = last.name, m.type.arr # 0
          PROVE  m.type.arr = last.arr
      <3>1. PICK q \in DOMAIN types[n].members : m = types[n].members[q]
        BY DEF ToSet
      <3>2. PICK d \in Declarations(n) : MemberOf(m, prog[d].parts[q], d)
        BY <2>1, <3>1, PartOfMember
      <3>3. d = k
        BY <2>1, <3>2 DEF TypesMade
      <3>4. RefOf(m.type, prog[k].parts[q], k)
        BY <3>2, <3>3 DEF MemberOf
      <3> QED
        BY <2>3, <2>5, <3>4
    <2> QED
      BY <2>4, <2>5 DEF OneArrayType
  <1> QED
    BY <1>1, Invariance, PTL
===============================================================================
