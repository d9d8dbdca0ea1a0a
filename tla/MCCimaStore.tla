---------------------------- MODULE MCCimaStore ----------------------------
(***************************************************************************)
(* Instances of CimaStore for TLC.  Stores that differ only in the numbers *)
(* of their cells and arrays are one state to TLC: View renumbers them in  *)
(* the order in which the contexts lead to them.                           *)
(***************************************************************************)
EXTENDS CimaStore, SequencesExt

NameSeq == SetToSeq(Names)
FieldSeq == SetToSeq(Fields)

\* The cells and arrays a value leads to, in order.
Leads(v) ==
  CASE v.k = "struct" -> [i \in DOMAIN FieldSeq |-> <<"c", v.m[FieldSeq[i]]>>]
    [] v.k = "ref"    -> << <<"c", v.c>> >>
    [] v.k = "array"  -> << <<"a", v.a>> >>
    [] OTHER          -> <<>>
Content(p) == IF p[1] = "c" THEN heap[p[2]] ELSE arrs[p[2]]

RECURSIVE Visit(_, _)
Visit(seen, todo) ==
  IF todo = <<>> THEN seen
  ELSE IF Contains(seen, Head(todo)) THEN Visit(seen, Tail(todo))
  ELSE Visit(Append(seen, Head(todo)), Tail(todo) \o Leads(Content(Head(todo))))

Roots ==
  LET all == [i \in 1..(Len(stack) * Len(NameSeq)) |->
                <<"c", stack[1 + (i - 1) \div Len(NameSeq)]
                         .vars[NameSeq[1 + ((i - 1) % Len(NameSeq))]].cell>>]
  IN  SelectSeq(all, LAMBDA p : p[2] # 0)

View ==
  LET seen == Visit(<<>>, Roots)
      new == [p \in ToSet(seen) |-> CHOOSE i \in DOMAIN seen : seen[i] = p]
      value(v) == <<v.k, [i \in DOMAIN Leads(v) |-> new[Leads(v)[i]]]>>
      var(w) == IF w.cell = 0 THEN w ELSE [w EXCEPT !.cell = new[<<"c", w.cell>>]]
  IN  <<[i \in DOMAIN seen |-> value(Content(seen[i]))],
        [i \in DOMAIN stack |->
           [stack[i] EXCEPT !.vars = [x \in Names |-> var(stack[i].vars[x])]]],
        {new[<<"c", c>>] : c \in lent}, error>>
=============================================================================
