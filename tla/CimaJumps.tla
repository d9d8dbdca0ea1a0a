----------------------------- MODULE CimaJumps ------------------------------
(***************************************************************************)
(* What break, continue, return and errors do to a program of nested       *)
(* constructs, whichever these are.  A construct under execution is known  *)
(* only by what it makes of a jump that comes out of it.                   *)
(***************************************************************************)
EXTENDS Naturals, Sequences

VARIABLES
  nest,    \* the constructs under execution, innermost last; each is one of
           \*   "program": the top level
           \*   "pass": a list of statements or a branch, which passes jumps on
           \*   "loop", "call": the body of a loop, of a function
           \*   "value": wants a value, as an operand or the head of a loop does
           \*   "deaf": wants a value and does not ask how it came about
  jump,    \* the jump that comes out of the one just left, or "NONE"
  failed,  \* an error has been recorded
  over     \* the program has ended

vars == <<nest, jump, failed, over>>

Leaps == {"CONTINUE", "BREAK", "RETURN"}

Init == nest = <<"program">> /\ jump = "NONE" /\ failed = FALSE /\ over = FALSE

Innermost == nest[Len(nest)]
Outer == SubSeq(nest, 1, Len(nest) - 1)

Runs == ~ over /\ ~ over' /\ ~ failed

\* The innermost construct ends, goes on as it likes, or has another in it.
Inside == /\ Len(nest') >= Len(nest) - 1
          /\ \A i \in 1..Len(nest) - 1 : nest'[i] = nest[i]

Ends == nest' = Outer

-----------------------------------------------------------------------------
\* Without a jump under way the program does what it says; a jump begins where
\* a jump stands, or where what wanted a value has one for a return.
Work ==
  /\ Runs /\ jump = "NONE"
  /\ Inside /\ failed' \in BOOLEAN
  /\ jump' \in Leaps => nest' = nest \/ (Ends /\ Innermost \in {"value", "deaf"})

\* A list or a branch ends, and the jump goes on.
PassOn == Runs /\ Innermost = "pass" /\ Ends /\ UNCHANGED <<jump, failed>>

\* The innermost loop of a break ends; a continue stays in it; for a return it
\* ends like a list.
LeaveLoop ==
  /\ Runs /\ Innermost = "loop" /\ failed' = failed
  /\ \/ jump = "BREAK" /\ Ends /\ jump' = "NONE"
     \/ jump = "CONTINUE" /\ Inside /\ Len(nest') >= Len(nest) /\ jump' = "NONE"
     \/ jump = "RETURN" /\ Ends /\ jump' = jump

\* The innermost call ends with a return (and with an error when the value
\* does not fit); a break or continue in no loop of it is an error.
LeaveCall ==
  /\ Runs /\ Innermost = "call" /\ Ends /\ jump' = "NONE"
  /\ jump # "NONE" /\ (jump # "RETURN" => failed') /\ failed' \in BOOLEAN

\* Where a value is wanted a break or continue is an error.  A return may be
\* one; otherwise what it returns is taken for the value.
WantValue ==
  /\ Runs /\ Innermost = "value" /\ Inside
  /\ jump # "NONE" /\ (jump # "RETURN" => failed') /\ failed' \in BOOLEAN

\* Some places that want a value do not look.
Overlook == Runs /\ Innermost = "deaf" /\ Inside /\ jump # "NONE" /\ failed' \in BOOLEAN

\* With an error recorded constructs end, or go on, but no call begins.
Unwind ==
  /\ ~ over /\ ~ over' /\ failed /\ failed' /\ Inside
  /\ \A i \in 1..Len(nest') : nest'[i] = "call" => i <= Len(nest) /\ nest[i] = "call"

\* The program ends at its end, with an error when a break or continue gets
\* there, and may end where it wants a value that it does not get.
End ==
  /\ ~ over /\ over' /\ jump' = "NONE"
  /\ (failed \/ (jump \in {"BREAK", "CONTINUE"} /\ Innermost # "deaf")) => failed'
  /\ jump = "NONE" \/ failed \/ Innermost \in {"program", "value", "deaf"}

Next == Work \/ PassOn \/ LeaveLoop \/ LeaveCall \/ WantValue \/ Overlook \/ Unwind \/ End

Spec == Init /\ [][Next]_vars
=============================================================================
