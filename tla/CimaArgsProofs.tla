--------------------------- MODULE CimaArgsProofs ---------------------------
(***************************************************************************)
(* Proofs about CimaArgs: every slot is written before it is read, and the *)
(* callee finds each of its parameters at the value given for it, whatever *)
(* the functions, the number of arguments and the depth of calls.          *)
(*                                                                         *)
(* Values are of no fixed set (arrays of arrays of ...), so a sequence of  *)
(* values is one over some set.                                            *)
(***************************************************************************)
EXTENDS CimaArgs, TLAPS, WellFoundedInduction

IsASeq(s) == \E S : s \in Seq(S)

\* What an operand may be: no array has the element type of variadics.
Good(v) == v.k = "array" => v.el # "variadic" /\ IsASeq(v.items)

\* The name the i-th slot gets, and the slot itself.
NameOf(i) == IF given[i].name # NoName THEN given[i].name ELSE func.params[i]
Filled(i) == /\ slots[i] = Var(NameOf(i), given[i].val, "var")
             /\ NameOf(i) \in Params(func)

\* The arguments evaluated so far, and what they have been put into.
GivenOK ==
  /\ IsASeq(given) /\ Len(given) <= count
  /\ \A i \in 1..Len(given) : Good(given[i].val)
RestOK == IsASeq(va) /\ Len(va) <= MaxItems /\ va = Rest /\ (named <=> Spread)
SlotsOK ==
  /\ slots = [i \in 1..Count(func) |-> slots[i]]
  /\ phase = "args" =>
       /\ \A i \in 1..Fixed(func) : IF i <= Len(given) THEN Filled(i) ELSE slots[i] = Unset
       /\ func.variadic => slots[Count(func)] = Unset
  /\ phase = "body" =>
       /\ Len(given) = count
       /\ \A i \in 1..Fixed(func) : Filled(i)
       /\ func.variadic =>
            slots[Count(func)] =
              Var(func.params[Count(func)], Arr("variadic", "any", va), "unset")
NamesOK ==
  /\ DOMAIN names \subseteq Names
  /\ \A x \in DOMAIN names : names[x].name = x /\ Good(names[x].val)
  /\ phase = "body" /\ depth > 0 => names = Bindings(slots)

\* The inductive invariant.
IInv ==
  /\ phase \in {"body", "args", "stopped"}
  /\ depth \in 0..MaxCalls /\ (phase = "args" => depth < MaxCalls)
  /\ IsFunc(func)
  /\ count \in 0..MaxArgs
  /\ phase \in {"args", "body"} => Fixed(func) <= count
  /\ GivenOK /\ RestOK /\ SlotsOK /\ NamesOK

-----------------------------------------------------------------------------
(* Sequences, parameters and names *)

\* A sequence over some set is a function on the numbers up to its length.
LEMMA SeqFacts ==
  ASSUME NEW s, IsASeq(s)
  PROVE  Len(s) \in Nat /\ DOMAIN s = 1..Len(s) /\ s = [i \in 1..Len(s) |-> s[i]]
<1>1. PICK S : s \in Seq(S)
  BY DEF IsASeq
<1> QED
  BY <1>1

\* One more element at the end.
LEMMA SeqAppend ==
  ASSUME NEW s, NEW e, IsASeq(s)
  PROVE  /\ IsASeq(Append(s, e)) /\ Len(Append(s, e)) = Len(s) + 1
         /\ \A i \in 1..Len(s) : Append(s, e)[i] = s[i]
         /\ Append(s, e)[Len(s) + 1] = e
         /\ Append(s, e) = [i \in 1..Len(s) + 1 |-> IF i = Len(s) + 1 THEN e ELSE s[i]]
<1>1. PICK S : s \in Seq(S)
  BY DEF IsASeq
<1> DEFINE T == S \cup {e}
<1>2. s \in Seq(T) /\ e \in T
  BY <1>1
<1> HIDE DEF T
<1>3. Append(s, e) \in Seq(T) /\ Len(Append(s, e)) = Len(s) + 1 /\ Len(s) \in Nat
  BY <1>2
<1>4. \A i \in 1..Len(s) : Append(s, e)[i] = s[i]
  BY <1>2
<1>5. Append(s, e)[Len(s) + 1] = e
  BY <1>2
<1>6. Append(s, e) = [i \in 1..Len(s) + 1 |-> IF i = Len(s) + 1 THEN e ELSE s[i]]
  <2> DEFINE t == Append(s, e)
  <2>1. t \in Seq(T)
    BY <1>3
  <2>2. t = [i \in 1..Len(t) |-> t[i]]
    <3> HIDE DEF t
    <3> QED
      BY <2>1
  <2>3. \A i \in 1..Len(s) + 1 : t[i] = IF i = Len(s) + 1 THEN e ELSE s[i]
    BY <1>3, <1>4, <1>5
  <2> QED
    BY <1>3, <2>2, <2>3
<1> QED
  BY <1>3, <1>4, <1>5, <1>6 DEF IsASeq

\* Sequences over any two sets make a sequence over some set.
LEMMA SeqConcat ==
  ASSUME NEW s, NEW t, IsASeq(s), IsASeq(t)
  PROVE  IsASeq(s \o t)
<1>1. PICK S : s \in Seq(S)
  BY DEF IsASeq
<1>2. PICK T : t \in Seq(T)
  BY DEF IsASeq
<1> DEFINE U == S \cup T
<1>3. s \in Seq(U) /\ t \in Seq(U)
  BY <1>1, <1>2
<1> HIDE DEF U
<1>4. s \o t \in Seq(U)
  BY <1>3
<1> QED
  BY <1>4 DEF IsASeq

\* The numbers of a function's parameters.
LEMMA FuncFacts ==
  ASSUME NEW f, IsFunc(f)
  PROVE  /\ Count(f) \in Nat /\ Fixed(f) \in Nat /\ Fixed(f) <= Count(f)
         /\ \A i \in 1..Count(f) : f.params[i] \in Params(f) /\ f.params[i] \in Names
         /\ Params(f) \subseteq Names /\ NoName \notin Params(f)
         /\ IF f.variadic THEN Count(f) = Fixed(f) + 1 ELSE Count(f) = Fixed(f)
BY NoNameAssumption DEF IsFunc, Count, Fixed, Params

\* A nonempty set of numbers up to n has a largest one.
LEMMA Largest ==
  ASSUME NEW n \in Nat, NEW T, T \subseteq 1..n, T # {}
  PROVE  \E i \in T : \A j \in T : j <= i
<1> DEFINE U == {n - i : i \in T}
           R == OpToRel(<, Nat)
<1>1. U \subseteq Nat /\ U # {}
  <2>1. \A i \in T : n - i \in Nat
    OBVIOUS
  <2> QED
    BY <2>1 DEF U
<1>2. IsWellFoundedOn(R, Nat)
  BY NatLessThanWellFounded
<1>3. PICK u \in U : \A w \in U : ~ (<<w, u>> \in R)
  <2> HIDE DEF U, R
  <2> QED
    BY <1>1, <1>2, WFMin
<1>4. \A w \in U : ~ (w < u)
  BY <1>1, <1>3 DEF OpToRel
<1>5. PICK i \in T : u = n - i
  OBVIOUS
<1>6. ASSUME NEW j \in T PROVE j <= i
  <2>1. n - j \in U
    OBVIOUS
  <2> QED
    BY <1>4, <1>5, <2>1
<1> QED
  BY <1>5, <1>6

\* Each name of a written slot leads to the last slot of that name.
LEMMA BindingsFacts ==
  ASSUME NEW s, NEW n \in Nat, DOMAIN s = 1..n
  PROVE  /\ DOMAIN Bindings(s) = {s[i].name : i \in {j \in DOMAIN s : s[j].set}}
         /\ \A x \in DOMAIN Bindings(s) : \E i \in SlotsOf(s, x) :
              Bindings(s)[x] = s[i] /\ \A j \in SlotsOf(s, x) : j <= i
<1>1. DOMAIN Bindings(s) = {s[i].name : i \in {j \in DOMAIN s : s[j].set}}
  BY DEF Bindings
<1>2. ASSUME NEW x \in DOMAIN Bindings(s)
      PROVE  \E i \in SlotsOf(s, x) : Bindings(s)[x] = s[i] /\ \A j \in SlotsOf(s, x) : j <= i
  <2> DEFINE i == CHOOSE i \in SlotsOf(s, x) : \A j \in SlotsOf(s, x) : j <= i
  <2>1. SlotsOf(s, x) \subseteq 1..n /\ SlotsOf(s, x) # {}
    BY <1>1 DEF SlotsOf
  <2>2. \E m \in SlotsOf(s, x) : \A j \in SlotsOf(s, x) : j <= m
    BY <2>1, Largest
  <2>3. i \in SlotsOf(s, x) /\ \A j \in SlotsOf(s, x) : j <= i
    BY <2>2
  <2>4. Bindings(s)[x] = s[i]
    BY <1>1 DEF Bindings
  <2> QED
    BY <2>3, <2>4
<1> QED
  BY <1>1, <1>2

-----------------------------------------------------------------------------
(* The steps *)

\* Literals and parameters are good values.
LEMMA OperandsGood ==
  ASSUME NamesOK, NEW v \in Operands
  PROVE  Good(v)
<1>1. CASE v \in Literals
  <2>1. CASE \E p \in Plains : v = Plain(p)
    BY <2>1 DEF Plain, Good
  <2>2. CASE \E p \in Plains : v = Arr("[any]", "any", <<Plain(p)>>)
    <3>1. PICK p \in Plains : v = Arr("[any]", "any", <<Plain(p)>>)
      BY <2>2
    <3>2. <<Plain(p)>> \in Seq({Plain(p)})
      OBVIOUS
    <3> QED
      BY <3>1, <3>2 DEF Arr, Good, IsASeq
  <2> QED
    BY <1>1, <2>1, <2>2 DEF Literals
<1>2. CASE v \in {names[x].val : x \in DOMAIN names}
  BY <1>2 DEF NamesOK
<1> QED
  BY <1>1, <1>2 DEF Operands

\* execute_program: no call yet, nothing given, no names.
LEMMA InitInv == Init => IInv
<1> SUFFICES ASSUME Init PROVE IInv
  OBVIOUS
<1>1. <<>> \in Seq({}) /\ Len(<<>>) = 0
  OBVIOUS
<1>2. IsASeq(<<>>)
  BY <1>1 DEF IsASeq
<1>3. IsFunc(func) /\ Count(func) = 0 /\ Fixed(func) = 0 /\ ~ func.variadic
  BY DEF Init, IsFunc, Count, Fixed
<1>4. GivenOK
  BY <1>1, <1>2 DEF Init, GivenOK
<1>5. RestOK
  <2>1. Extra = 0 /\ ~ Spread
    BY <1>1, <1>3 DEF Init, Extra, Spread
  <2>2. Rest = <<>>
    BY <2>1 DEF Rest, ExtraVals
  <2> QED
    BY <1>1, <1>2, <2>1, <2>2, BoundsAssumption DEF Init, RestOK
<1>6. SlotsOK
  BY <1>1, <1>3 DEF Init, SlotsOK
<1>7. NamesOK
  BY DEF Init, NamesOK
<1> QED
  BY <1>1, <1>3, <1>4, <1>5, <1>6, <1>7, BoundsAssumption DEF Init, IInv

\* An error changes nothing but the phase.
LEMMA StopInv ==
  ASSUME IInv, Stop
  PROVE  IInv'
<1>1. GivenOK' /\ RestOK'
  BY DEF IInv, Stop, GivenOK, RestOK, Good, Rest, Spread, Extra, ExtraVals, Fixed, Count
<1>2. SlotsOK' /\ NamesOK'
  BY DEF IInv, Stop, SlotsOK, NamesOK, Good, Count
<1> QED
  BY <1>1, <1>2 DEF IInv, Stop, Fixed, Count

\* A call begins with nothing given and no slot written.
LEMMA CallInv ==
  ASSUME IInv, Call
  PROVE  IInv'
<1>1. CASE Stop
  BY <1>1, StopInv
<1>2. CASE ~ Stop
  <2>1. PICK f \in Funcs, n \in 0..MaxArgs :
          /\ CheckArgs(f, n)
          /\ phase' = "args" /\ func' = f /\ count' = n
          /\ given' = <<>> /\ slots' = [i \in 1..Count(f) |-> Unset]
          /\ va' = <<>> /\ named' = FALSE
          /\ UNCHANGED <<names, depth>>
    BY <1>2 DEF Call
  <2>2. IsFunc(f) /\ Count(f) \in Nat /\ Fixed(f) \in Nat /\ Fixed(f) <= Count(f)
        /\ IF f.variadic THEN Count(f) = Fixed(f) + 1 ELSE Count(f) = Fixed(f)
    BY FuncsAssumption, FuncFacts
  <2>3. Fixed(f) <= n /\ depth < MaxCalls
    BY <2>1, <2>2, BoundsAssumption DEF CheckArgs, Call
  <2>4. <<>> \in Seq({}) /\ Len(<<>>) = 0
    OBVIOUS
  <2>5. IsASeq(<<>>)
    BY <2>4 DEF IsASeq
  <2>6. GivenOK'
    BY <2>1, <2>4, <2>5 DEF GivenOK
  <2>7. RestOK'
    <3>1. Extra' = 0 /\ ~ Spread'
      BY <2>1, <2>2, <2>4 DEF Extra, Spread, Fixed, Count
    <3>2. Rest' = <<>>
      BY <3>1 DEF Rest, ExtraVals
    <3> QED
      BY <2>1, <2>4, <2>5, <3>1, <3>2, BoundsAssumption DEF RestOK
  <2>8. SlotsOK'
    <3>1. \A i \in 1..Count(f) : slots'[i] = Unset
      BY <2>1
    <3>2. slots' = [i \in 1..Count(f) |-> slots'[i]]
      BY <2>1, <3>1
    <3> QED
      BY <2>1, <2>2, <2>4, <3>1, <3>2 DEF SlotsOK, Count, Fixed
  <2>9. NamesOK'
    BY <2>1 DEF IInv, NamesOK, Good
  <2> QED
    BY <2>1, <2>2, <2>3, <2>6, <2>7, <2>8, <2>9 DEF IInv, Fixed, Count
<1> QED
  BY <1>1, <1>2

\* One argument more: it fills its slot, or joins the rest.
LEMMA TakeInv ==
  ASSUME IInv, phase = "args", Len(given) < count,
         NEW x \in Names \cup {NoName}, NEW v \in Operands, Take(x, v),
         UNCHANGED <<phase, func, count, names, depth>>
  PROVE  IInv'
<1> DEFINE n == Len(given)
           New(m) == [i \in 1..m |-> given'[Fixed(func) + i].val]
<1>1. Good(v)
  BY OperandsGood DEF IInv
<1>2. PICK y \in GoesBy(x, n + 1) \cap Params(func) :
        IF n >= Fixed(func) THEN Collect(x, v) ELSE Fill(n + 1, y, v)
  BY DEF Take
<1>3. /\ IsASeq(given') /\ Len(given') = n + 1 /\ n \in Nat
      /\ \A i \in 1..n : given'[i] = given[i]
      /\ given'[n + 1] = [name |-> x, val |-> v]
  BY SeqAppend, SeqFacts DEF IInv, GivenOK, Take
<1>4. GivenOK'
  <2>1. \A i \in 1..Len(given') : given'[i].val = v \/ i \in 1..n
    BY <1>3
  <2>2. \A i \in 1..Len(given') : Good(given'[i].val)
    BY <1>1, <1>3, <2>1 DEF IInv, GivenOK
  <2> QED
    BY <1>3, <2>2 DEF GivenOK, IInv, Good
<1>5. /\ Count(func) \in Nat /\ Fixed(func) \in Nat /\ Fixed(func) <= Count(func)
      /\ IF func.variadic THEN Count(func) = Fixed(func) + 1 ELSE Count(func) = Fixed(func)
      /\ \A i \in 1..Count(func) : func.params[i] \in Params(func)
  BY FuncFacts DEF IInv
<1>6. ~ named /\ ~ Spread /\ va = ExtraVals(Extra) /\ IsASeq(va) /\ Len(va) <= MaxItems
  BY DEF Take, IInv, RestOK, Rest
<1>7. func' = func /\ phase' = "args"
  OBVIOUS
<1>8. /\ Extra = IF n > Fixed(func) THEN n - Fixed(func) ELSE 0
      /\ Extra' = IF n + 1 > Fixed(func) THEN n + 1 - Fixed(func) ELSE 0
  BY <1>3, <1>5, <1>7 DEF Extra
<1>9. /\ Spread' <=> (Extra' > 0 /\ x # NoName /\ v.k = "array")
      /\ Rest' = IF Spread' THEN New(Extra' - 1) \o v.items ELSE New(Extra')
  BY <1>3, <1>7 DEF Spread, Rest, ExtraVals
<1>10. ASSUME n < Fixed(func) PROVE RestOK' /\ SlotsOK'
  <2>1. Fill(n + 1, y, v)
    BY <1>2, <1>3, <1>5, <1>10
  <2>2. Extra = 0 /\ Extra' = 0 /\ ~ Spread'
    BY <1>3, <1>5, <1>8, <1>9, <1>10
  <2>3. RestOK'
    <3>1. Rest' = va
      BY <1>6, <1>9, <2>2 DEF ExtraVals
    <3> QED
      BY <1>6, <2>1, <2>2, <3>1 DEF RestOK, Fill
  <2>4. n + 1 \in 1..Count(func) /\ n + 1 <= Fixed(func)
    BY <1>3, <1>5, <1>10
  <2>5. /\ slots' = [i \in 1..Count(func) |-> slots'[i]]
        /\ slots'[n + 1] = Var(y, v, "var")
        /\ \A i \in 1..Count(func) : i # n + 1 => slots'[i] = slots[i]
    <3>1. slots = [i \in 1..Count(func) |-> slots[i]]
      BY DEF IInv, SlotsOK
    <3>2. slots' = [slots EXCEPT ![n + 1] = Var(y, v, "var")]
      BY <2>1 DEF Fill
    <3> QED
      BY <2>4, <3>1, <3>2
  <2>6. y \in Params(func) /\ y = IF x # NoName THEN x ELSE func.params[n + 1]
    BY <1>2, <2>4, <1>5 DEF GoesBy
  <2>7. ASSUME NEW i \in 1..Fixed(func)
        PROVE  IF i <= Len(given') THEN Filled(i)' ELSE slots'[i] = Unset
    <3>1. CASE i = n + 1
      <4>1. NameOf(i)' = y
        BY <3>1, <1>3, <1>7, <2>6 DEF NameOf
      <4> QED
        BY <3>1, <4>1, <1>3, <1>7, <2>5, <2>6 DEF Filled
    <3>2. CASE i # n + 1
      <4>1. slots'[i] = slots[i] /\ IF i <= n THEN Filled(i) ELSE slots[i] = Unset
        <5>1. i \in 1..Count(func)
          BY <1>5
        <5>2. slots'[i] = slots[i]
          BY <3>2, <5>1, <2>5
        <5> QED
          BY <5>2 DEF IInv, SlotsOK
      <4>2. CASE i <= n
        <5>1. given'[i] = given[i] /\ Filled(i)
          BY <4>1, <4>2, <1>3, <1>5
        <5>2. NameOf(i)' = NameOf(i)
          BY <5>1, <1>7 DEF NameOf
        <5> QED
          BY <4>1, <4>2, <5>1, <5>2, <1>3, <1>7 DEF Filled
      <4> QED
        BY <3>2, <4>1, <4>2, <1>3, <1>5
    <3> QED
      BY <3>1, <3>2
  <2>8. func.variadic => slots'[Count(func)] = Unset
    BY <1>3, <1>5, <1>10, <2>5 DEF IInv, SlotsOK
  <2>9. SlotsOK'
    BY <1>7, <2>5, <2>7, <2>8 DEF SlotsOK
  <2> QED
    BY <2>3, <2>9
<1>11. ASSUME n >= Fixed(func) PROVE RestOK' /\ SlotsOK'
  <2>1. Collect(x, v)
    BY <1>2, <1>11
  <2>2. Extra = n - Fixed(func) /\ Extra' = Extra + 1 /\ Extra \in Nat
    BY <1>3, <1>5, <1>8, <1>11
  <2>3. Spread' <=> (x # NoName /\ v.k = "array")
    BY <1>9, <2>2
  <2>4. va = New(Extra)
    <3>1. \A i \in 1..Extra : given'[Fixed(func) + i] = given[Fixed(func) + i]
      <4>1. ASSUME NEW i \in 1..Extra
            PROVE  Fixed(func) + i \in 1..Len(given)
        BY <1>5, <2>2
      <4> QED
        BY <1>3, <4>1
    <3> QED
      BY <1>6, <3>1 DEF ExtraVals
  <2>5. va' = (IF Spread' THEN va \o v.items ELSE Append(va, v)) /\ (named' <=> Spread')
        /\ Len(va') <= MaxItems /\ slots' = slots
    <3>1. (v.k = "array" /\ (x # NoName \/ v.el = "variadic")) <=> Spread'
      BY <1>1, <2>3 DEF Good
    <3>2. CASE Spread'
      BY <3>1, <3>2, <2>1, <2>3 DEF Collect
    <3>3. CASE ~ Spread'
      BY <3>1, <3>3, <1>6, <2>1 DEF Collect
    <3> QED
      BY <3>2, <3>3
  <2>6. va' = Rest' /\ IsASeq(va')
    <3>1. CASE Spread'
      <4>1. Rest' = va \o v.items
        BY <3>1, <1>9, <2>2, <2>4
      <4>2. IsASeq(v.items)
        BY <3>1, <1>1, <2>3 DEF Good
      <4> QED
        BY <3>1, <4>1, <4>2, <1>6, <2>5, SeqConcat
    <3>2. CASE ~ Spread'
      <4>1. Len(va) = Extra
        <5>1. Len(va) \in Nat /\ DOMAIN va = 1..Len(va)
          BY <1>6, SeqFacts
        <5>2. DOMAIN va = 1..Extra
          BY <2>4
        <5> QED
          BY <2>2, <5>1, <5>2
      <4>2. va' = [i \in 1..Extra + 1 |-> IF i = Extra + 1 THEN v ELSE va[i]] /\ IsASeq(va')
        BY <3>2, <1>6, <2>5, <4>1, SeqAppend
      <4>3. \A i \in 1..Extra + 1 :
              given'[Fixed(func) + i].val = IF i = Extra + 1 THEN v ELSE va[i]
        <5> TAKE i \in 1..Extra + 1
        <5>1. CASE i = Extra + 1
          BY <5>1, <1>3, <1>5, <2>2
        <5>2. CASE i # Extra + 1
          BY <5>2, <1>3, <1>5, <2>2, <2>4
        <5> QED
          BY <5>1, <5>2
      <4>4. Rest' = New(Extra + 1)
        BY <3>2, <1>9, <2>2
      <4> QED
        BY <4>2, <4>3, <4>4
    <3> QED
      BY <3>1, <3>2
  <2>7. RestOK'
    BY <2>5, <2>6 DEF RestOK
  <2>8. SlotsOK'
    <3>1. ASSUME NEW i \in 1..Fixed(func) PROVE i <= Len(given') /\ Filled(i)'
      <4>1. i <= n /\ i \in 1..n
        BY <1>3, <1>5, <1>11
      <4>2. Filled(i) /\ given'[i] = given[i]
        BY <4>1, <1>3 DEF IInv, SlotsOK
      <4>3. NameOf(i)' = NameOf(i)
        BY <4>2, <1>7 DEF NameOf
      <4> QED
        BY <4>1, <4>2, <4>3, <1>3, <1>7, <2>5 DEF Filled
    <3>2. slots = [i \in 1..Count(func) |-> slots[i]]
          /\ (func.variadic => slots[Count(func)] = Unset)
      BY DEF IInv, SlotsOK
    <3> QED
      BY <1>7, <2>5, <3>1, <3>2 DEF SlotsOK
  <2> QED
    BY <2>7, <2>8
<1>12. RestOK' /\ SlotsOK'
  BY <1>3, <1>5, <1>10, <1>11
<1>13. NamesOK'
  BY DEF IInv, NamesOK, Good
<1> QED
  BY <1>4, <1>7, <1>12, <1>13 DEF IInv, Fixed, Count

\* One turn of the loop in unwrap_args: the argument is taken, or an error
\* ends the call.
LEMMA NextArgInv ==
  ASSUME IInv, NextArg
  PROVE  IInv'
BY StopInv, TakeInv DEF NextArg

\* The body starts with all slots written, the last one with the rest.
LEMMA EnterInv ==
  ASSUME IInv, EnterBody
  PROVE  IInv'
<1> DEFINE c == Count(func)
           last == Var(func.params[c], Arr("variadic", "any", va), "unset")
<1>1. /\ phase' = "body" /\ depth' = depth + 1 /\ slots' = LastSlot /\ names' = Bindings(slots')
      /\ UNCHANGED <<func, count, given, va, named>> /\ phase = "args" /\ Len(given) = count
  BY DEF EnterBody
<1>2. /\ c \in Nat /\ Fixed(func) \in Nat /\ Fixed(func) <= c /\ Fixed(func) <= count
      /\ IF func.variadic THEN c = Fixed(func) + 1 ELSE c = Fixed(func)
      /\ \A i \in 1..c : func.params[i] \in Params(func)
      /\ Params(func) \subseteq Names
      /\ func.variadic \in BOOLEAN
  BY <1>1, FuncFacts DEF IInv, IsFunc
<1>3. GivenOK' /\ RestOK'
  BY <1>1 DEF IInv, GivenOK, RestOK, Good, Rest, Spread, Extra, ExtraVals, Fixed, Count
<1>4. ASSUME NEW i \in 1..Fixed(func) PROVE Filled(i) /\ i \in 1..Len(given)
  <2>1. i <= Len(given) /\ i \in 1..Len(given) /\ i \in 1..c
    <3>1. Len(given) \in Nat
      BY SeqFacts DEF IInv, GivenOK
    <3> QED
      BY <3>1, <1>1, <1>2
  <2>2. IF i <= Len(given) THEN Filled(i) ELSE slots[i] = Unset
    BY <1>1 DEF IInv, SlotsOK
  <2> QED
    BY <2>1, <2>2
<1>5. /\ slots' = [i \in 1..c |-> slots'[i]]
      /\ \A i \in 1..Fixed(func) : slots'[i] = slots[i]
      /\ func.variadic => slots'[c] = last
  <2>1. slots = [i \in 1..c |-> slots[i]]
    BY DEF IInv, SlotsOK
  <2>2. CASE func.variadic
    <3>1. slots' = [slots EXCEPT ![c] = last]
      BY <1>1, <2>2 DEF LastSlot
    <3>2. c \in 1..c /\ \A i \in 1..Fixed(func) : i \in 1..c /\ i # c
      BY <1>2, <2>2
    <3> HIDE DEF last, c
    <3> QED
      BY <2>1, <3>1, <3>2
  <2>3. CASE ~ func.variadic
    BY <1>1, <2>1, <2>3 DEF LastSlot
  <2> QED
    BY <2>2, <2>3
<1>6. SlotsOK'
  <2>1. ASSUME NEW i \in 1..Fixed(func) PROVE Filled(i)'
    <3>1. NameOf(i)' = NameOf(i)
      BY <1>1 DEF NameOf
    <3> QED
      BY <3>1, <1>1, <1>4, <1>5 DEF Filled
  <2> QED
    BY <2>1, <1>1, <1>5 DEF SlotsOK
<1>7. ASSUME NEW i \in 1..c
      PROVE  slots'[i].set /\ slots'[i].name \in Params(func) /\ Good(slots'[i].val)
  <2>1. CASE i \in 1..Fixed(func)
    <3>1. slots'[i] = Var(NameOf(i), given[i].val, "var") /\ NameOf(i) \in Params(func)
      BY <2>1, <1>4, <1>5 DEF Filled
    <3>2. Good(given[i].val)
      BY <2>1, <1>4 DEF IInv, GivenOK
    <3> QED
      BY <3>1, <3>2 DEF Var
  <2>2. CASE i \notin 1..Fixed(func)
    <3>1. slots'[i] = last /\ i = c
      BY <2>2, <1>2, <1>5
    <3>2. Good(Arr("variadic", "any", va))
      BY DEF Good, Arr, IInv, RestOK
    <3> QED
      BY <3>1, <3>2, <1>2 DEF Var
  <2> QED
    BY <2>1, <2>2
<1>8. NamesOK'
  <2> DEFINE t == slots'
  <2>1. DOMAIN t = 1..c /\ names' = Bindings(t) /\ c \in Nat
    BY <1>1, <1>2, <1>5
  <2>2. DOMAIN names' = {t[i].name : i \in {j \in 1..c : t[j].set}}
    <3> HIDE DEF t, c
    <3> QED
      BY <2>1, BindingsFacts
  <2>3. \A x \in DOMAIN names' : \E i \in SlotsOf(t, x) : names'[x] = t[i]
    <3> HIDE DEF t, c
    <3> QED
      BY <2>1, BindingsFacts
  <2>4. \A x \in DOMAIN names' : names'[x].name = x /\ Good(names'[x].val)
    BY <1>7, <2>1, <2>3 DEF SlotsOf
  <2>5. DOMAIN names' \subseteq Names
    BY <1>2, <1>7, <2>2
  <2> QED
    BY <1>1, <2>4, <2>5 DEF NamesOK, Good
<1> QED
  BY <1>1, <1>3, <1>6, <1>8, BoundsAssumption DEF IInv, Fixed, Count

\* Every step of check_args, unwrap_args and exec_func preserves the invariant.
LEMMA NextInv == IInv /\ [Next]_vars => IInv'
<1> SUFFICES ASSUME IInv, [Next]_vars PROVE IInv'
  OBVIOUS
<1>1. CASE Call
  BY <1>1, CallInv
<1>2. CASE NextArg
  BY <1>2, NextArgInv
<1>3. CASE EnterBody
  BY <1>3, EnterInv
<1>4. CASE UNCHANGED vars
  <2>1. GivenOK'
    BY <1>4 DEF vars, IInv, GivenOK, Good
  <2>2. RestOK'
    <3>1. Rest' = Rest /\ (Spread' <=> Spread)
      BY <1>4 DEF vars, Rest, Spread, Extra, ExtraVals, Fixed, Count
    <3> QED
      BY <1>4, <3>1 DEF vars, IInv, RestOK
  <2>3. SlotsOK'
    <3>1. \A i : Filled(i)' <=> Filled(i)
      BY <1>4 DEF vars, Filled, NameOf, Params, Count
    <3> QED
      BY <1>4, <3>1 DEF vars, IInv, SlotsOK, Fixed, Count
  <2>4. NamesOK'
    BY <1>4 DEF vars, IInv, NamesOK, Good
  <2> QED
    BY <1>4, <2>1, <2>2, <2>3, <2>4 DEF vars, IInv, Fixed, Count
<1> QED
  BY <1>1, <1>2, <1>3, <1>4 DEF Next, End

\* So it holds in every state of every chain of calls.
LEMMA SpecInv == Spec => []IInv
BY InitInv, NextInv, PTL DEF Spec

-----------------------------------------------------------------------------
(* The properties *)

\* The type invariant: during a call exactly the slots of the arguments
\* evaluated so far are written, and every name leads to its own Var.
THEOREM Typing == Spec => []TypeOK
<1>1. IInv => TypeOK
  <2> SUFFICES ASSUME IInv PROVE TypeOK
    OBVIOUS
  <2>1. Count(func) \in Nat /\ Fixed(func) \in Nat /\ Fixed(func) <= Count(func)
        /\ IF func.variadic THEN Count(func) = Fixed(func) + 1 ELSE Count(func) = Fixed(func)
    BY FuncFacts DEF IInv
  <2>2. ASSUME phase = "args", NEW i \in 1..Count(func)
        PROVE  slots[i].set <=> (i <= Fixed(func) /\ i <= Len(given))
    <3>1. CASE i <= Fixed(func)
      <4>1. IF i <= Len(given) THEN Filled(i) ELSE slots[i] = Unset
        BY <2>2, <3>1, <2>1 DEF IInv, SlotsOK
      <4> QED
        BY <3>1, <4>1 DEF Filled, Var, Unset
    <3>2. CASE ~ (i <= Fixed(func))
      <4>1. func.variadic /\ i = Count(func)
        BY <3>2, <2>1
      <4>2. slots[i] = Unset
        BY <2>2, <4>1 DEF IInv, SlotsOK
      <4> QED
        BY <3>2, <4>2 DEF Unset
    <3> QED
      BY <3>1, <3>2
  <2>3. DOMAIN slots = 1..Count(func)
    BY DEF IInv, SlotsOK
  <2> QED
    BY <2>2, <2>3 DEF TypeOK, IInv, GivenOK, RestOK, NamesOK
<1> QED
  BY <1>1, SpecInv, PTL

\* No function body starts with a slot that was never written.
THEOREM SlotsWritten == Spec => []SlotsSet
<1>1. IInv => SlotsSet
  <2> SUFFICES ASSUME IInv, phase = "body", NEW i \in DOMAIN slots
               PROVE  slots[i].set
    BY DEF SlotsSet
  <2>1. i \in 1..Count(func) /\ Count(func) \in Nat /\ Fixed(func) \in Nat
        /\ IF func.variadic THEN Count(func) = Fixed(func) + 1 ELSE Count(func) = Fixed(func)
    BY FuncFacts DEF IInv, SlotsOK
  <2>2. CASE i <= Fixed(func)
    <3>1. Filled(i)
      BY <2>1, <2>2 DEF IInv, SlotsOK
    <3> QED
      BY <3>1 DEF Filled, Var
  <2>3. CASE ~ (i <= Fixed(func))
    BY <2>1, <2>3 DEF IInv, SlotsOK, Var
  <2> QED
    BY <2>2, <2>3
<1> QED
  BY <1>1, SpecInv, PTL

\* A variadic argument given by name, an array, is the last one.
THEOREM NamedRestLast == Spec => []NamedVaLast
<1>1. IInv => NamedVaLast
  <2> SUFFICES ASSUME IInv, named PROVE
        /\ Len(given) > Fixed(func)
        /\ given[Len(given)].name # NoName /\ given[Len(given)].val.k = "array"
    BY DEF NamedVaLast
  <2>1. Spread
    BY DEF IInv, RestOK
  <2>2. Len(given) \in Nat /\ Fixed(func) \in Nat
    BY SeqFacts, FuncFacts DEF IInv, GivenOK
  <2> QED
    BY <2>1, <2>2 DEF Spread, Extra
<1> QED
  BY <1>1, SpecInv, PTL

\* In a tidy call the last slot of each name is the one that holds the value
\* given for the parameter.  (How the callee's variadic parameter is passed on
\* makes no difference to what unwrap_args does, only to what is meant.)
THEOREM Bound == Spec => []BoundAsMeant
<1>1. IInv => BoundAsMeant
  <2> SUFFICES ASSUME IInv, phase = "body", depth > 0,
                      NEW k \in 0..Fixed(func), Distinct, Tidy(k)
               PROVE
      /\ \A j \in 1..Fixed(func) : \E i \in 1..Fixed(func) :
           /\ IF j <= k THEN i = j ELSE given[i].name = func.params[j]
           /\ names[func.params[j]].val = given[i].val
      /\ func.variadic => names[func.params[Count(func)]].val.items = Rest
    BY DEF BoundAsMeant
  <2> DEFINE c == Count(func)
             p == func.params
  <2>1. /\ c \in Nat /\ Fixed(func) \in Nat /\ Fixed(func) <= c
        /\ IF func.variadic THEN c = Fixed(func) + 1 ELSE c = Fixed(func)
        /\ \A i \in 1..c : p[i] \in Names /\ p[i] # NoName
        /\ \A i, j \in 1..c : p[i] = p[j] => i = j
    BY FuncFacts, NoNameAssumption DEF IInv, Distinct
  <2>2. DOMAIN slots = 1..c /\ names = Bindings(slots)
    BY DEF IInv, SlotsOK, NamesOK
  <2>3. \A x \in DOMAIN names : \E i \in SlotsOf(slots, x) :
          names[x] = slots[i] /\ \A j \in SlotsOf(slots, x) : j <= i
    BY <2>1, <2>2, BindingsFacts
  <2>4. \A i \in 1..c : slots[i].set => slots[i].name \in DOMAIN names
    <3>1. DOMAIN Bindings(slots) = {slots[i].name : i \in {j \in DOMAIN slots : slots[j].set}}
      BY DEF Bindings
    <3> QED
      BY <2>2, <3>1
  <2>5. \A i \in 1..Fixed(func) :
          slots[i].set /\ slots[i].name = NameOf(i) /\ slots[i].val = given[i].val
    <3> TAKE i \in 1..Fixed(func)
    <3>1. Filled(i)
      BY DEF IInv, SlotsOK
    <3> QED
      BY <3>1 DEF Filled, Var
  <2>6. func.variadic => /\ slots[c].set /\ slots[c].name = p[c]
                         /\ slots[c].val = Arr("variadic", "any", va)
    BY DEF IInv, SlotsOK, Var
  <2>7. \A i \in 1..k : NameOf(i) = p[i]
    BY DEF Tidy, NameOf
  <2>8. ASSUME NEW i \in k + 1..Fixed(func)
        PROVE  NameOf(i) = given[i].name
               /\ \E j \in k + 1..Fixed(func) : given[i].name = p[j]
    <3>1. PICK j \in k + 1..Fixed(func) : given[i].name = p[j]
      BY DEF Tidy
    <3>2. p[j] # NoName
      BY <2>1
    <3> QED
      BY <3>1, <3>2 DEF NameOf
  <2>9. ASSUME NEW j \in 1..Fixed(func)
        PROVE  \E i \in 1..Fixed(func) :
                 /\ IF j <= k THEN i = j ELSE given[i].name = p[j]
                 /\ names[p[j]].val = given[i].val
    <3>1. p[j] \in DOMAIN names
      <4>1. CASE j <= k
        BY <4>1, <2>1, <2>4, <2>5, <2>7
      <4>2. CASE ~ (j <= k)
        <5>1. PICK i \in k + 1..Fixed(func) : given[i].name = p[j]
          BY <4>2 DEF Tidy
        <5>2. i \in 1..Fixed(func) /\ i \in 1..c
          BY <2>1
        <5> QED
          BY <5>1, <5>2, <2>4, <2>5, <2>8
      <4> QED
        BY <4>1, <4>2
    <3>2. PICK i \in SlotsOf(slots, p[j]) : names[p[j]] = slots[i]
      BY <2>3, <3>1
    <3>3. i \in 1..c /\ slots[i].name = p[j] /\ j \in 1..c
      BY <2>1, <2>2 DEF SlotsOf
    <3>4. i \in 1..Fixed(func)
      <4> SUFFICES ASSUME i \notin 1..Fixed(func) PROVE FALSE
        OBVIOUS
      <4>1. func.variadic /\ i = c
        BY <2>1, <3>3
      <4> QED
        BY <4>1, <2>1, <2>6, <3>3
    <3>5. slots[i].val = given[i].val /\ NameOf(i) = p[j]
      BY <2>5, <3>3, <3>4
    <3>6. CASE i <= k
      <4>1. p[i] = p[j]
        BY <2>7, <3>4, <3>5, <3>6
      <4>2. i = j
        BY <4>1, <2>1, <3>3
      <4> QED
        BY <4>2, <3>2, <3>4, <3>5, <3>6
    <3>7. CASE ~ (i <= k)
      <4>1. PICK l \in k + 1..Fixed(func) : given[i].name = p[l] /\ NameOf(i) = given[i].name
        BY <2>8, <3>4, <3>7
      <4>2. l \in 1..c /\ p[l] = p[j]
        BY <4>1, <2>1, <3>5
      <4>3. l = j
        BY <4>2, <2>1, <3>3
      <4> QED
        BY <4>1, <4>3, <3>2, <3>4, <3>5
    <3> QED
      BY <3>6, <3>7
  <2>10. ASSUME func.variadic PROVE names[p[c]].val.items = Rest
    <3>1. c \in 1..c /\ c \in SlotsOf(slots, p[c]) /\ p[c] \in DOMAIN names
      BY <2>1, <2>2, <2>4, <2>6, <2>10 DEF SlotsOf
    <3>2. PICK i \in SlotsOf(slots, p[c]) :
            names[p[c]] = slots[i] /\ \A j \in SlotsOf(slots, p[c]) : j <= i
      BY <2>3, <3>1
    <3>3. i \in 1..c /\ c <= i
      BY <2>2, <3>1, <3>2 DEF SlotsOf
    <3>4. names[p[c]].val = Arr("variadic", "any", va)
      BY <2>1, <2>6, <2>10, <3>2, <3>3
    <3> QED
      BY <3>4 DEF Arr, IInv, RestOK
  <2> QED
    BY <2>9, <2>10
<1> QED
  BY <1>1, SpecInv, PTL
=============================================================================
