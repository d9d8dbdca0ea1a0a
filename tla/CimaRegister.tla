----------------------------- MODULE CimaRegister -----------------------------
(***************************************************************************)
(* How execute_nodes makes types and functions of the declarations of a    *)
(* program: the names of all structs and enums first, then, in the order   *)
(* of the text, the members of each and the functions, then statements.    *)
(* What is made while a type has only part of its members keeps that view  *)
(* of it: array types, which are cached by a hash over the members, and    *)
(* the values of static fields and enum members.                           *)
(*                                                                         *)
(* Hashes are taken to be free of collisions; the names of the members of  *)
(* a type are different, so that their number stands for them.             *)
(***************************************************************************)
EXTENDS Integers, Sequences, FiniteSets, SequencesExt

CONSTANTS
  Items,      \* the declarations a program may consist of
  MaxItems    \* bound: declarations of a program

ASSUME MaxItemsAssumption == MaxItems \in Nat

\* A part of a declaration: a field, a method, a member of an enum, a parameter.
\* type and arr are its annotation, init and of its initializer.
Inits == {"none",    \* there is none
          "plain",   \* an expression without types and functions
          "new",     \* @of{}
          "call"}    \* of()
Part(type, arr) == [type |-> type, arr |-> arr, role |-> "field", init |-> "none", of |-> ""]
Method(type, arr) == [Part(type, arr) EXCEPT !.role = "method"]
Static(type, init, of) ==
  [Part(type, FALSE) EXCEPT !.role = "static", !.init = init, !.of = of]
Struct(name, parts) == [kind |-> "struct", name |-> name, parts |-> parts]
Enum(name, parts) == [kind |-> "enum", name |-> name, parts |-> parts]
Func(name, parts) == [kind |-> "func", name |-> name, parts |-> parts]

TypeNames == {x.name : x \in {y \in Items : y.kind # "func"}}
FuncNames == {x.name : x \in {y \in Items : y.kind = "func"}}
PartTypes == {"int"} \cup UNION {{p.type : p \in ToSet(x.parts)} : x \in Items}

\* A type that no item declares is a built-in one, a built-in has no members to make a
\* value of, and the members of an enum have a type of their own.
Parts == [type : STRING, arr : BOOLEAN, role : {"field", "method", "static"},
          init : Inits, of : STRING]
ASSUME ItemsAssumption ==
  \A x \in Items :
    /\ x.kind \in {"struct", "enum", "func"}
    /\ x.parts \in Seq(Parts)
    /\ \A p \in ToSet(x.parts) :
         /\ p.init = "new" => p.of \in TypeNames
         /\ p.init = "call" => p.of \in FuncNames
         /\ x.kind = "enum" => p.type \notin TypeNames /\ ~p.arr

VARIABLES
  prog,     \* the declarations, in the order of the text
  pc,       \* what execute_nodes does
  i, j,     \* the declaration and the part of it that come next
  errors,   \* has_errors
  types,    \* ctx->scope.types
  arrays,   \* the array types that were made, each with the hash it is cached by
  funcs,    \* ctx->scope.names: the parameters of each function it has
  args,     \* the parameters resolved for the function that is registered
  last      \* the array type the last statement resolved, and its element type

vars == <<prog, pc, i, j, errors, types, arrays, funcs, args, last>>

Ends == {"failed",   \* execute_nodes returns with errors
         "crash",    \* a NULL pointer was read through
         "endless"}  \* alloc_struct_value never returns
Phases == {"declare", "items", "run"} \cup Ends

\* A type that an annotation was resolved to: arr is the place of the array type
\* in arrays, 0 if it is none.
Ref(name, arr) == [name |-> name, arr |-> arr]
Member(ref, role, made) == [type |-> ref, role |-> role, made |-> made]
Unknown == [known |-> FALSE, params |-> <<>>]
Absent == [kind |-> "none", initialized |-> FALSE, members |-> <<>>]

TypeOK ==
  /\ pc \in Phases /\ errors \in BOOLEAN
  /\ i \in 1..(Len(prog) + 1) /\ j \in Nat
  /\ DOMAIN types = TypeNames /\ DOMAIN funcs = FuncNames
  /\ \A n \in TypeNames :
       /\ types[n].kind \in {"none", "struct", "enum"}
       /\ types[n].initialized \/ types[n].members = <<>>
       /\ \A k \in DOMAIN types[n].members :
            LET m == types[n].members[k]
            IN  /\ m.type.name \in PartTypes \cup {""} /\ m.type.arr \in 0..Len(arrays)
                /\ m.made \subseteq TypeNames \X Nat
  /\ \A k, l \in DOMAIN arrays : arrays[k] = arrays[l] => k = l

-----------------------------------------------------------------------------
(* Types and values *)

Known(n) == n \in TypeNames => types[n].kind # "none"
Members(n) == IF n \in TypeNames THEN Len(types[n].members) ELSE 0

\* hash_type: of a type with members it is a hash of those it has by now.
Hash(n) == <<n, Members(n)>>

\* Mutant: hm_put_hashed is left out
ArraysUncached(p) == IF p.arr THEN Append(arrays, Hash(p.type)) ELSE arrays

\* alloc_array_type: the array types once the annotation of p is resolved
ArraysWith(p) ==
  IF p.arr /\ Hash(p.type) \notin ToSet(arrays) THEN Append(arrays, Hash(p.type))
                                                ELSE arrays
\* resolve_type
Resolve(p) ==
  Ref(p.type, IF p.arr
              THEN SelectLastInSeq(ArraysWith(p), LAMBDA h : h = Hash(p.type))
              ELSE 0)

\* All types that R leads to from n, in one step or more.
Below(R, n) ==
  {m \in TypeNames :
     \A S \in SUBSET TypeNames :
       (\A x \in S \cup {n}, y \in TypeNames : <<x, y>> \in R => y \in S) => m \in S}

\* alloc_struct_value makes a value for each field of struct type, static or not.
Holds ==
  {x \in TypeNames \X TypeNames :
     \E k \in DOMAIN types[x[1]].members :
       LET m == types[x[1]].members[k]
       IN  /\ m.role # "method" /\ m.type.arr = 0 /\ m.type.name = x[2]
           /\ types[x[2]].kind = "struct"}
HeldBy(n) == {n} \cup Below(Holds, n)
Endless(n) == \E m \in HeldBy(n) : m \in Below(Holds, m)

\* Mutant: a new value has no room for methods, which copy_value copies too
MadeFields(n) ==
  {<<m, Cardinality({k \in 1..Members(m) : types[m].members[k].role # "method"})>> :
     m \in HeldBy(n)}

\* The structs in a new value of struct n, each with the number of its members.
Made(n) == {<<m, Members(m)>> : m \in HeldBy(n)}

\* What the value of static member m lacks is read as NULL.
Whole(m) == \A x \in m.made : x[2] = Members(x[1])

-----------------------------------------------------------------------------
(* register_declarations *)

Declare ==
  /\ pc = "declare" /\ i <= Len(prog)
  /\ LET item == prog[i]
     IN  /\ errors' = (errors \/ (item.kind # "func" /\ types[item.name].kind # "none"))
         /\ types' = IF item.kind # "func" /\ types[item.name].kind = "none"
                     THEN [types EXCEPT ![item.name].kind = item.kind] ELSE types
  /\ i' = i + 1
  /\ UNCHANGED <<prog, pc, j, arrays, funcs, args, last>>

\* The first declaration is executed with the errors of this pass: it makes nothing
\* that is still used.
Declared ==
  /\ pc = "declare" /\ i > Len(prog)
  /\ pc' = IF errors THEN "failed" ELSE "items"
  /\ i' = 1
  /\ UNCHANGED <<prog, j, errors, types, arrays, funcs, args, last>>

-----------------------------------------------------------------------------
(* The declarations in order *)

Item == prog[i]
HasPart == j <= Len(Item.parts)
P == Item.parts[j]
At(kinds) == pc = "items" /\ i <= Len(prog) /\ Item.kind \in kinds

Stop(end) ==
  /\ pc' = end /\ errors' = (end = "failed")
  /\ UNCHANGED <<prog, i, j, types, arrays, funcs, args, last>>

\* Mutant: a type is not marked when it is filled in
BeginUnmarked ==
  /\ At({"struct", "enum"}) /\ j = 0
  /\ j' = 1
  /\ UNCHANGED <<prog, pc, i, errors, types, arrays, funcs, args, last>>

\* register_struct, register_enum: the head of both
BeginType ==
  /\ At({"struct", "enum"}) /\ j = 0
  /\ \/ types[Item.name].initialized /\ Stop("failed")
     \/ /\ ~types[Item.name].initialized
        /\ types' = [types EXCEPT ![Item.name].initialized = TRUE]
        /\ j' = 1
        /\ UNCHANGED <<prog, pc, i, errors, arrays, funcs, args, last>>

AddMember(made) ==
  /\ types' = [types EXCEPT ![Item.name].members =
                 Append(@, Member(Resolve(P), P.role, made))]
  /\ arrays' = ArraysWith(P)
  /\ j' = j + 1
  /\ UNCHANGED <<prog, pc, i, errors, funcs, args, last>>

\* resolve_pattern, resolve_field, resolve_methods
AddField ==
  /\ At({"struct"}) /\ j > 0 /\ HasPart /\ P.role \in {"field", "method"}
  /\ \/ ~Known(P.type) /\ Stop("failed")
     \/ Known(P.type) /\ AddMember({})

\* execute, of an initializer
Initialize ==
  \/ P.init = "plain" /\ AddMember({})
  \/ P.init = "call" /\ funcs[P.of].known /\ AddMember({})
  \/ P.init = "call" /\ Stop("failed")
  \/ P.init = "new" /\ ~Known(P.of) /\ Stop("failed")
  \/ P.init = "new" /\ Known(P.of) /\ Endless(P.of) /\ Stop("endless")
  \/ P.init = "new" /\ Known(P.of) /\ ~Endless(P.of) /\ AddMember(Made(P.of))

\* resolve_field, whose static fields need an initializer
AddStatic ==
  /\ At({"struct"}) /\ j > 0 /\ HasPart /\ P.role = "static"
  /\ \/ ~Known(P.type) /\ Stop("failed")
     \/ Known(P.type) /\ P.init = "none" /\ Stop("crash")
     \/ Known(P.type) /\ P.init # "none" /\ Initialize

\* resolve_enum_members, whose members need none
AddEnumMember ==
  /\ At({"enum"}) /\ j > 0 /\ HasPart
  /\ \/ P.init = "none" /\ AddMember({})
     \/ P.init # "none" /\ Initialize

TypeDone ==
  /\ At({"struct", "enum"}) /\ j > 0 /\ ~HasPart
  /\ i' = i + 1 /\ j' = 0
  /\ UNCHANGED <<prog, pc, errors, types, arrays, funcs, args, last>>

\* register_func: resolve_patterns
AddParam ==
  /\ At({"func"}) /\ j < Len(Item.parts)
  /\ LET p == Item.parts[j + 1]
     IN  \/ ~Known(p.type) /\ Stop("failed")
         \/ /\ Known(p.type)
            /\ args' = Append(args, Resolve(p)) /\ arrays' = ArraysWith(p)
            /\ j' = j + 1
            /\ UNCHANGED <<prog, pc, i, errors, types, funcs, last>>

\* Mutant: parameters are compared by the addresses of their types
SamePointers(ps, qs) == ps = qs

\* compare_funcs: the hashes of the types, taken now
SameParams(ps, qs) ==
  /\ Len(ps) = Len(qs)
  /\ \A k \in DOMAIN ps : ps[k].name = qs[k].name /\ (ps[k].arr = 0 <=> qs[k].arr = 0)

\* A function with other parameters replaces the one of its name.
FuncDone ==
  /\ At({"func"}) /\ j = Len(Item.parts)
  /\ LET redefined == /\ funcs[Item.name].known
                      /\ SameParams(funcs[Item.name].params, args)
     IN  \/ redefined /\ Stop("failed")
         \/ /\ ~redefined
            /\ funcs' = [funcs EXCEPT ![Item.name] = [known |-> TRUE, params |-> args]]
            /\ i' = i + 1 /\ j' = 0 /\ args' = <<>>
            /\ UNCHANGED <<prog, pc, errors, types, arrays, last>>

ItemsDone ==
  /\ pc = "items" /\ i > Len(prog)
  /\ pc' = "run"
  /\ UNCHANGED <<prog, i, j, errors, types, arrays, funcs, args, last>>

-----------------------------------------------------------------------------
(* Statements *)

\* register_var: let x: p
LetTyped(p) ==
  /\ pc = "run"
  /\ \/ ~Known(p.type) /\ Stop("failed")
     \/ /\ Known(p.type) /\ ~p.arr /\ p.type \in TypeNames /\ types[p.type].kind = "struct"
        /\ Endless(p.type) /\ Stop("endless")
     \/ /\ Known(p.type) /\ p.arr
        /\ arrays' = ArraysWith(p) /\ last' = Resolve(p)
        /\ UNCHANGED <<prog, pc, i, j, errors, types, funcs, args>>

\* register_var: let x = n.m, whose value copy_value copies member by member.
LetStatic ==
  /\ pc = "run"
  /\ \E n \in TypeNames : \E m \in ToSet(types[n].members) :
       \/ (\E x \in m.made : Endless(x[1])) /\ Stop("endless")
       \/ (\A x \in m.made : ~Endless(x[1])) /\ ~Whole(m) /\ Stop("crash")

-----------------------------------------------------------------------------
Init ==
  /\ prog \in UNION {[1..n -> Items] : n \in 1..MaxItems}
  /\ pc = "declare" /\ i = 1 /\ j = 0 /\ errors = FALSE
  /\ types = [n \in TypeNames |-> Absent]
  /\ arrays = <<>>
  /\ funcs = [n \in FuncNames |-> Unknown]
  /\ args = <<>>
  /\ last = Ref("int", 0)

Next ==
  \/ Declare \/ Declared
  \/ BeginType \/ AddField \/ AddStatic \/ AddEnumMember \/ TypeDone
  \/ AddParam \/ FuncDone \/ ItemsDone
  \/ (\E n \in PartTypes, arr \in BOOLEAN : LetTyped(Part(n, arr)))
  \/ LetStatic

Spec == Init /\ [][Next]_vars

-----------------------------------------------------------------------------
(* Properties *)

\* The declarations of a type, and whether one stands above the k-th.
Declarations(n) == {k \in DOMAIN prog : prog[k].kind # "func" /\ prog[k].name = n}
Above(n, k) == n \notin TypeNames \/ \E a \in Declarations(n) : a < k

\* An annotation [T] denotes one type, wherever it stands below the declaration of T:
\* a parameter or field takes the arrays that are declared like it.  Types are
\* compared by address, and the cache finds one by the members it has at the time.
OneArrayType ==
  pc = "run" /\ last.arr # 0 =>
    /\ \A k \in DOMAIN prog : prog[k].kind = "func" /\ Above(last.name, k) =>
         \/ \E b \in DOMAIN prog : b > k /\ prog[b].kind = "func" /\ prog[b].name = prog[k].name
         \/ \A p \in ToSet(funcs[prog[k].name].params) :
              p.name = last.name /\ p.arr # 0 => p.arr = last.arr
    /\ \A n \in TypeNames : \A k \in Declarations(n) : Above(last.name, k) =>
         \A m \in ToSet(types[n].members) :
           m.type.name = last.name /\ m.type.arr # 0 => m.type.arr = last.arr

\* What a struct holds by the text, and the structs below it.
TextHolds ==
  {x \in TypeNames \X TypeNames :
     \E k \in DOMAIN prog :
       /\ prog[k].kind = "struct" /\ prog[k].name = x[1]
       /\ \E p \in ToSet(prog[k].parts) : p.role # "method" /\ ~p.arr /\ p.type = x[2]}
TextHeldBy(n) == {n} \cup Below(TextHolds, n)

\* A program in the order the registration needs: every struct of which an
\* initializer makes a value stands above it, with all the structs it holds; none
\* holds itself, in a static field either; static fields have initializers.
InOrder ==
  /\ \A n \in TypeNames : n \notin Below(TextHolds, n)
  /\ \A k \in DOMAIN prog : \A p \in ToSet(prog[k].parts) :
       /\ p.role = "static" /\ prog[k].kind = "struct" => p.init # "none"
       /\ p.init = "new" => \A m \in TextHeldBy(p.of) : Above(m, k)

\* The order of declarations is all that registration asks for: in such a program no
\* value lacks a member that is read later, and no default value is endless: where
\* one does, the program is not in that order.
\* register_declarations makes the other orders look as if they worked.
NoCrash == pc \in {"crash", "endless"} => ~InOrder

\* Statements run only if no type is declared twice and no function is declared
\* again, by the next function of its name, with the same parameters, however much
\* of their types was known each time.
RedefinitionFound ==
  pc = "run" =>
    /\ \A k, l \in DOMAIN prog :
         prog[k].kind # "func" /\ prog[l].kind # "func" /\ prog[k].name = prog[l].name => k = l
    /\ \A k, l \in DOMAIN prog :
         /\ prog[k].kind = "func" /\ prog[l].kind = "func" /\ k < l
         /\ prog[k].name = prog[l].name
         /\ \A b \in (k + 1)..(l - 1) : prog[b].name # prog[k].name
         => prog[k].parts # prog[l].parts

===============================================================================
