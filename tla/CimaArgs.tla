------------------------------- MODULE CimaArgs -------------------------------
(***************************************************************************)
(* How a call binds its arguments (check_args, unwrap_args and the head of *)
(* exec_func in funcs.c).  A program is a chain of calls: the body of each *)
(* function calls the next one with literals and its own parameters.  The  *)
(* arguments of a call are evaluated in order, each into a slot of an      *)
(* array of Vars from malloc, and the slots are then put into the names of *)
(* the callee.                                                             *)
(***************************************************************************)
EXTENDS Naturals, Sequences

CONSTANTS
  Names,      \* names of parameters, and of arguments
  Funcs,      \* the functions: their parameters, whether the last is variadic
  Plains,     \* values that are not arrays
  NoName,     \* an argument without a name
  MaxArgs,    \* bound: arguments of a call
  MaxItems,   \* bound: what a variadic parameter collects
  MaxCalls    \* bound: nested calls

\* A variadic parameter is the last one.  (Nothing keeps a function from
\* having two parameters of the same name.)
IsFunc(f) ==
  /\ f.params \in Seq(Names) /\ f.variadic \in BOOLEAN
  /\ f.variadic => Len(f.params) > 0

ASSUME FuncsAssumption == \A f \in Funcs : IsFunc(f)
ASSUME NoNameAssumption == NoName \notin Names
ASSUME BoundsAssumption == MaxArgs \in Nat /\ MaxItems \in Nat /\ MaxCalls \in Nat

VARIABLES
  phase,    \* "body": a function (or the program) runs; "args": unwrap_args
            \* does; "stopped": an error is recorded
  func,     \* the function whose call this is, or last was
  count,    \* the number of its arguments
  given,    \* those evaluated so far: their names and values
  slots,    \* func_args
  va,       \* va_args: what the variadic parameter has collected
  named,    \* has_named_va_arg
  names,    \* the parameters of the running function: a Var for each name
  depth     \* nested calls

vars == <<phase, func, count, given, slots, va, named, names, depth>>

(* Values: an array has an element type of its own, next to the type of the *)
(* value that leads to it.                                                 *)
Plain(p) == [k |-> "plain", v |-> p]
Arr(type, el, items) == [k |-> "array", type |-> type, el |-> el, items |-> items]

\* A Var.  Its symb_kind may still be what malloc returned, as all of a slot
\* is at first.
Var(name, val, kind) == [set |-> TRUE, name |-> name, val |-> val, kind |-> kind]
Unset == [set |-> FALSE, name |-> NoName, val |-> Plain(NoName), kind |-> "unset"]

Count(f) == Len(f.params)
Fixed(f) == IF f.variadic THEN Count(f) - 1 ELSE Count(f)
Params(f) == {f.params[i] : i \in 1..Count(f)}

-----------------------------------------------------------------------------
(* The call and its arguments *)

\* The running function passes literals and its parameters.  (Where symb_kind
\* was never written a parameter may also be taken for a function or a type:
\* one more evaluation that fails.)
Literals == {Plain(p) : p \in Plains} \cup {Arr("[any]", "any", <<Plain(p)>>) : p \in Plains}
Operands == Literals \cup {names[x].val : x \in DOMAIN names}

Stop == phase' = "stopped" /\ UNCHANGED <<func, count, given, slots, va, named, names, depth>>

\* check_args
CheckArgs(f, n) == n >= Fixed(f) /\ (f.variadic \/ n <= Fixed(f))

Call ==
  /\ phase = "body" /\ depth < MaxCalls
  /\ \E f \in Funcs, n \in 0..MaxArgs :
       \/ ~ CheckArgs(f, n) /\ Stop
       \/ /\ CheckArgs(f, n)
          /\ phase' = "args" /\ func' = f /\ count' = n
          /\ given' = <<>> /\ slots' = [i \in 1..Count(f) |-> Unset]
          /\ va' = <<>> /\ named' = FALSE
          /\ UNCHANGED <<names, depth>>

\* The parser refuses a call that gives two arguments the same name.
NameAllowed(x) == \A i \in 1..Len(given) : given[i].name = x => x = NoName

\* The names the i-th argument may be looked up by: its own, or that of the
\* parameter at its position, or whatever lies behind the last parameter.
GoesBy(x, i) ==
  IF x # NoName THEN {x}
  ELSE IF i <= Count(func) THEN {func.params[i]}
  ELSE Names \cup {NoName}

\* The argument is the variadic parameter's; its elements are, when it is an
\* array given by name or one with the element type of variadics.
Collect(x, v) ==
  LET spread == v.k = "array" /\ (x # NoName \/ v.el = "variadic")
  IN  /\ va' = IF spread THEN va \o v.items ELSE Append(va, v)
      /\ named' = IF spread THEN x # NoName ELSE named
      /\ Len(va') <= MaxItems
      /\ UNCHANGED slots

\* Mutants: a slot is labelled with the parameter at its position; a value
\* goes to the slot of the parameter it is for.
FillByPosition(i, y, v) ==
  slots' = [slots EXCEPT ![i] = Var(func.params[i], v, "var")] /\ UNCHANGED <<va, named>>
FillFirst(i, y, v) ==
  /\ slots' = [slots EXCEPT ![CHOOSE j \in 1..Count(func) : func.params[j] = y] = Var(y, v, "var")]
  /\ UNCHANGED <<va, named>>

\* The slot at the argument's position gets the argument's name.
Fill(i, y, v) == slots' = [slots EXCEPT ![i] = Var(y, v, "var")] /\ UNCHANGED <<va, named>>

\* Mutant: what follows a named variadic argument is collected too.
TakeMore(x, v) ==
  /\ given' = Append(given, [name |-> x, val |-> v])
  /\ \E y \in GoesBy(x, Len(given) + 1) \cap Params(func) :
       IF Len(given) >= Fixed(func) THEN Collect(x, v) ELSE Fill(Len(given) + 1, y, v)

\* An argument named x whose value is v.
Take(x, v) ==
  /\ ~ named
  /\ given' = Append(given, [name |-> x, val |-> v])
  /\ \E y \in GoesBy(x, Len(given) + 1) \cap Params(func) :
       IF Len(given) >= Fixed(func) THEN Collect(x, v) ELSE Fill(Len(given) + 1, y, v)

\* One turn of unwrap_args.  It stops at an argument after a named variadic
\* one, at an error of the evaluation or the cast (which leaves the value
\* as it is), and at a name that no parameter has.
NextArg ==
  /\ phase = "args" /\ Len(given) < count
  /\ \/ Stop
     \/ /\ \E x \in Names \cup {NoName}, v \in Operands : NameAllowed(x) /\ Take(x, v)
        /\ UNCHANGED <<phase, func, count, names, depth>>

\* Mutant: the last slot is not written when nothing was collected.
LastSlotIfAny ==
  IF func.variadic /\ va # <<>>
    THEN [slots EXCEPT ![Count(func)] =
            Var(func.params[Count(func)], Arr("variadic", "any", va), "unset")]
    ELSE slots

\* The variadic parameter's slot, whose symb_kind is left as it is.
LastSlot ==
  IF func.variadic
    THEN [slots EXCEPT ![Count(func)] =
            Var(func.params[Count(func)], Arr("variadic", "any", va), "unset")]
    ELSE slots

\* The slots as a map from names: the last one of each name.
SlotsOf(s, x) == {i \in DOMAIN s : s[i].set /\ s[i].name = x}
Bindings(s) ==
  [x \in {s[i].name : i \in {j \in DOMAIN s : s[j].set}} |->
     s[CHOOSE i \in SlotsOf(s, x) : \A j \in SlotsOf(s, x) : j <= i]]

\* exec_func puts the slots into a copy of the global names, in order, and
\* runs the body.
EnterBody ==
  /\ phase = "args" /\ Len(given) = count
  /\ phase' = "body" /\ depth' = depth + 1
  /\ slots' = LastSlot /\ names' = Bindings(slots')
  /\ UNCHANGED <<func, count, given, va, named>>

End == (phase = "stopped" \/ depth = MaxCalls) /\ UNCHANGED vars

Init ==
  /\ phase = "body" /\ depth = 0 /\ names = [x \in {} |-> Unset]
  /\ func = [params |-> <<>>, variadic |-> FALSE] /\ count = 0
  /\ given = <<>> /\ slots = <<>> /\ va = <<>> /\ named = FALSE

Next == Call \/ NextArg \/ EnterBody \/ End

Spec == Init /\ [][Next]_vars

-----------------------------------------------------------------------------
(* Properties *)

\* Slots are filled from the first, one for each argument that is not
\* collected, and the callee finds each of its names at its own Var.
TypeOK ==
  /\ phase \in {"body", "args", "stopped"}
  /\ depth \in 0..MaxCalls /\ count \in 0..MaxArgs
  /\ Len(given) <= count /\ Len(va) <= MaxItems
  /\ DOMAIN slots = 1..Count(func)
  /\ phase = "args" =>
       \A i \in 1..Count(func) : slots[i].set <=> (i <= Fixed(func) /\ i <= Len(given))
  /\ DOMAIN names \subseteq Names /\ \A x \in DOMAIN names : names[x].name = x

\* Every slot is written before the body runs: exec_func reads them all, and
\* an array from malloc holds nothing to read.
SlotsSet == phase = "body" => \A i \in DOMAIN slots : slots[i].set

\* After a variadic argument given by name comes no other: the array it
\* named is the end of what the function gets.
NamedVaLast ==
  named => /\ Len(given) > Fixed(func)
           /\ given[Len(given)].name # NoName /\ given[Len(given)].val.k = "array"

\* The parameters have names of their own.
Distinct ==
  \A i, j \in 1..Count(func) : func.params[i] = func.params[j] => i = j

\* The first k arguments are positional, and together with named ones after
\* them they give each parameter but the variadic one its value.
Tidy(k) ==
  LET others == k + 1..Fixed(func)
  IN  /\ \A i \in 1..k : given[i].name = NoName
      /\ \A i \in others : \E j \in others : given[i].name = func.params[j]
      /\ \A j \in others : \E i \in others : given[i].name = func.params[j]

\* What a variadic parameter is meant to hold: the values after the first
\* ones, the last of them, when it is an array given by name, in pieces.
Extra == IF Len(given) > Fixed(func) THEN Len(given) - Fixed(func) ELSE 0
ExtraVals(n) == [i \in 1..n |-> given[Fixed(func) + i].val]
Spread == /\ Extra > 0 /\ given[Len(given)].name # NoName
          /\ given[Len(given)].val.k = "array"
Rest == IF Spread THEN ExtraVals(Extra - 1) \o given[Len(given)].val.items
        ELSE ExtraVals(Extra)

\* What a variadic parameter has collected is passed on by position.
Forwarded(i) == /\ given[i].name = NoName /\ given[i].val.k = "array"
                /\ given[i].val.type = "variadic"

\* In a tidy call of a function with distinct parameters each of them has
\* the value given for it, by position or by name, and the variadic one has
\* all the others in their order.  (A variadic parameter passed on by position
\* is the subject of ForwardedAsGiven.)
BoundAsMeant ==
  (phase = "body" /\ depth > 0) =>
    \A k \in 0..Fixed(func) :
      (/\ Distinct /\ Tidy(k)
       /\ \A i \in Fixed(func) + 1..Len(given) : ~ Forwarded(i)) =>
      /\ \A j \in 1..Fixed(func) :
           \E i \in 1..Fixed(func) :
             /\ IF j <= k THEN i = j ELSE given[i].name = func.params[j]
             /\ names[func.params[j]].val = given[i].val
      /\ func.variadic => names[func.params[Count(func)]].val.items = Rest

\* A function that passes what its variadic parameter holds on to another
\* one, as the last argument and by position, gives it the same items.
ForwardedAsGiven ==
  LET n == Len(given)
  IN  (/\ phase = "body" /\ depth > 0 /\ func.variadic
       /\ n = Count(func) /\ Forwarded(n)) =>
        names[func.params[n]].val.items = given[n].val.items
=============================================================================
