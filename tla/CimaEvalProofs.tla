--------------------------- MODULE CimaEvalProofs ---------------------------
(***************************************************************************)
(* Proofs about CimaEval: its types, the recursion counter, the ownership  *)
(* of the name maps, that nothing visible happens after an error, and that *)
(* jumps leave what they are to leave (CimaJumps).                         *)
(*                                                                         *)
(* Every step does one of eight things to the C stack (Shape).  The        *)
(* invariant is proved shape by shape; which shape an action has is proved *)
(* once for each action.                                                   *)
(***************************************************************************)
EXTENDS CimaEval, TLAPS, FiniteSetTheorems, SequenceTheorems

Live == {"eval", "next", "ret"}
CallPoints == {"body", "format"}
ScopePoints == {"block", "blockret", "body"}

\* What a point means for the counters.
Class(p) == CASE p \in {"items", "program"}  -> "list"
              [] p \in {"block", "blockret"} -> "scope"
              [] p = "body"                  -> "body"
              [] p = "format"                -> "format"
              [] p = "arg"                   -> "arg"
              [] OTHER                       -> "plain"

\* The limit was tested before the arguments of a call are evaluated: the
\* calls running below a frame that evaluates them leave room for one more.
ArgFine(s) ==
  \A i \in 1..Len(s) :
    s[i].at = "arg" => Cardinality(At(s, CallPoints, i)) < MaxDepth

\* The inductive invariant.
IInv ==
  /\ stack \in Seq(Frames)
  /\ mode \in Modes
  /\ sig \in Signals
  /\ errors \subseteq ErrorKinds
  /\ io \in BOOLEAN
  /\ depth \in Nat /\ maps \in Nat /\ builtins \in 0..MaxBuiltIns
  /\ mode \in Live => stack # <<>> /\ Class(stack[1].at) = "list"
  /\ DepthOK
  /\ MapsOK
  /\ ArgFine(stack)

\* t is s but for its last frame.
Moved(s, t) == /\ t \in Seq(Frames)
               /\ Len(t) = Len(s)
               /\ \A i \in 1..Len(s) - 1 : t[i] = s[i]

Last(s) == s[Len(s)]

\* The frames counted by recursion_depth and those that own a name map.
NumCalls(s) == Cardinality(At(s, CallPoints, Len(s)))
NumScopes(s) == Cardinality(At(s, ScopePoints, Len(s)))

-----------------------------------------------------------------------------
(* Counting frames *)

\* The frames of a finite stack that wait at given points can be counted.
LEMMA AtFinite ==
  ASSUME NEW s, NEW P, NEW n \in Nat
  PROVE  /\ IsFiniteSet(At(s, P, n))
         /\ Cardinality(At(s, P, n)) \in Nat
<1>1. IsFiniteSet(1..n)
  BY FS_Interval
<1>2. At(s, P, n) \subseteq 1..n
  BY DEF At
<1> QED
  BY <1>1, <1>2, FS_Subset, FS_CardinalityType

\* Equal frames below give equal counts.
LEMMA AtSame ==
  ASSUME NEW s, NEW t, NEW P, NEW n \in Nat,
         \A i \in 1..n : s[i] = t[i]
  PROVE  At(s, P, n) = At(t, P, n)
BY DEF At

\* One more frame counts when it waits at one of the points.
LEMMA AtStep ==
  ASSUME NEW s, NEW P, NEW n \in Nat
  PROVE  Cardinality(At(s, P, n + 1)) =
           Cardinality(At(s, P, n)) + (IF s[n + 1].at \in P THEN 1 ELSE 0)
<1>1. IsFiniteSet(At(s, P, n)) /\ Cardinality(At(s, P, n)) \in Nat
  BY AtFinite
<1>2. n + 1 \notin At(s, P, n)
  BY DEF At
<1>3. CASE s[n + 1].at \in P
  <2>1. At(s, P, n + 1) = At(s, P, n) \cup {n + 1}
    BY <1>3 DEF At
  <2> QED
    BY <1>1, <1>2, <1>3, <2>1, FS_AddElement
<1>4. CASE s[n + 1].at \notin P
  <2>1. At(s, P, n + 1) = At(s, P, n)
    BY <1>4 DEF At
  <2> QED
    BY <1>1, <1>4, <2>1
<1> QED
  BY <1>3, <1>4

\* Pushing a frame.
LEMMA PushCount ==
  ASSUME NEW s \in Seq(Frames), NEW f \in Frames
  PROVE  /\ Append(s, f) \in Seq(Frames)
         /\ Len(Append(s, f)) = Len(s) + 1
         /\ \A i \in 1..Len(s) : Append(s, f)[i] = s[i]
         /\ Last(Append(s, f)) = f
         /\ \A P : Cardinality(At(Append(s, f), P, Len(Append(s, f)))) =
                   Cardinality(At(s, P, Len(s))) + (IF f.at \in P THEN 1 ELSE 0)
<1> DEFINE t == Append(s, f)
<1>1. /\ t \in Seq(Frames) /\ Len(s) \in Nat /\ Len(t) = Len(s) + 1
      /\ \A i \in 1..Len(s) : t[i] = s[i]
      /\ t[Len(s) + 1] = f
  BY AppendProperties, LenProperties
<1>2. ASSUME NEW P
      PROVE  Cardinality(At(t, P, Len(s) + 1)) =
               Cardinality(At(s, P, Len(s))) + (IF f.at \in P THEN 1 ELSE 0)
  <2>1. At(t, P, Len(s)) = At(s, P, Len(s))
    BY <1>1, AtSame
  <2>2. Cardinality(At(t, P, Len(s) + 1)) =
          Cardinality(At(t, P, Len(s))) + (IF t[Len(s) + 1].at \in P THEN 1 ELSE 0)
    <3> DEFINE n == Len(s)
    <3>1. n \in Nat
      BY <1>1
    <3> HIDE DEF n, t
    <3>2. Cardinality(At(t, P, n + 1)) =
            Cardinality(At(t, P, n)) + (IF t[n + 1].at \in P THEN 1 ELSE 0)
      BY <3>1, AtStep
    <3> QED
      BY <3>2 DEF n
  <2> QED
    BY <2>1, <2>2, <1>1
<1> QED
  BY <1>1, <1>2 DEF Last

\* Popping the last frame.
LEMMA PopCount ==
  ASSUME NEW s \in Seq(Frames), s # <<>>
  PROVE  LET t == SubSeq(s, 1, Len(s) - 1)
         IN  /\ t \in Seq(Frames)
             /\ Len(s) \in Nat \ {0}
             /\ Len(t) = Len(s) - 1
             /\ \A i \in 1..Len(t) : t[i] = s[i]
             /\ \A P : Cardinality(At(s, P, Len(s))) =
                       Cardinality(At(t, P, Len(t))) +
                       (IF Last(s).at \in P THEN 1 ELSE 0)
<1> DEFINE t == SubSeq(s, 1, Len(s) - 1)
<1>1. Len(s) \in Nat \ {0}
  BY EmptySeq, LenProperties
<1>2. /\ t \in Seq(Frames) /\ Len(t) = Len(s) - 1
      /\ \A i \in 1..Len(s) - 1 : t[i] = s[i]
  <2> DEFINE n == Len(s) - 1
  <2>1. n \in Int /\ n >= 0 /\ \A i \in 1..n : i \in 1..Len(s)
    BY <1>1
  <2>2. \A i \in 1..n : s[i] \in Frames
    BY <2>1, ElementOfSeq
  <2> HIDE DEF n
  <2>3. /\ SubSeq(s, 1, n) \in Seq(Frames)
        /\ Len(SubSeq(s, 1, n)) = IF 1 <= n THEN n - 1 + 1 ELSE 0
        /\ \A i \in 1..n - 1 + 1 : SubSeq(s, 1, n)[i] = s[1 + i - 1]
    BY <2>1, <2>2, SubSeqProperties
  <2>4. /\ Len(SubSeq(s, 1, n)) = n
        /\ \A i \in 1..n : SubSeq(s, 1, n)[i] = s[i]
    BY <2>1, <2>3
  <2> QED
    BY <2>3, <2>4 DEF n
<1>3. ASSUME NEW P
      PROVE  Cardinality(At(s, P, Len(s))) =
               Cardinality(At(t, P, Len(t))) + (IF Last(s).at \in P THEN 1 ELSE 0)
  <2> DEFINE n == Len(s) - 1
  <2>1. n \in Nat /\ n + 1 = Len(s)
    BY <1>1
  <2>2. At(t, P, n) = At(s, P, n)
    BY <1>2, <2>1, AtSame
  <2> HIDE DEF n
  <2>3. Cardinality(At(s, P, n + 1)) =
          Cardinality(At(s, P, n)) + (IF s[n + 1].at \in P THEN 1 ELSE 0)
    BY <2>1, AtStep
  <2> QED
    BY <2>1, <2>2, <2>3, <1>2 DEF Last, n
<1> QED
  BY <1>1, <1>2, <1>3

\* Changing the point the last frame waits at.
LEMMA MovedCount ==
  ASSUME NEW s \in Seq(Frames), s # <<>>, NEW t, Moved(s, t)
  PROVE  /\ Len(s) \in Nat \ {0}
         /\ t # <<>>
         /\ \A P : Cardinality(At(t, P, Len(t))) =
                   Cardinality(At(s, P, Len(s)))
                   + (IF Last(t).at \in P THEN 1 ELSE 0)
                   - (IF Last(s).at \in P THEN 1 ELSE 0)
<1>1. Len(s) \in Nat \ {0}
  BY EmptySeq, LenProperties
<1>2. ASSUME NEW P
      PROVE  Cardinality(At(t, P, Len(t))) =
                   Cardinality(At(s, P, Len(s)))
                   + (IF Last(t).at \in P THEN 1 ELSE 0)
                   - (IF Last(s).at \in P THEN 1 ELSE 0)
  <2> DEFINE n == Len(s) - 1
  <2>1. n \in Nat /\ n + 1 = Len(s) /\ n + 1 = Len(t)
    BY <1>1 DEF Moved
  <2>2. At(t, P, n) = At(s, P, n)
    BY <2>1, AtSame DEF Moved
  <2> HIDE DEF n
  <2>3. Cardinality(At(s, P, n + 1)) =
          Cardinality(At(s, P, n)) + (IF s[n + 1].at \in P THEN 1 ELSE 0)
    BY <2>1, AtStep
  <2>4. Cardinality(At(t, P, n + 1)) =
          Cardinality(At(t, P, n)) + (IF t[n + 1].at \in P THEN 1 ELSE 0)
    BY <2>1, AtStep
  <2>5. Cardinality(At(s, P, n)) \in Nat
    BY <2>1, AtFinite
  <2> QED
    BY <2>1, <2>2, <2>3, <2>4, <2>5 DEF Last
<1>3. t # <<>>
  BY <1>1 DEF Moved
<1> QED
  BY <1>1, <1>2, <1>3

-----------------------------------------------------------------------------
(* The shapes of a step *)

Keep == depth' = depth /\ maps' = maps

\* The top frame waits at another point of its class, or its call, having
\* passed the test of the limit, goes on to its arguments.
Retarget(t) ==
  /\ Moved(stack, t)
  /\ \/ Class(Last(t).at) = Class(Top.at)
     \/ Top.at = "callee" /\ Last(t).at = "arg" /\ depth < MaxDepth

Stays == (stack' = stack \/ Retarget(stack')) /\ Keep

\* A body is entered, or a built-in comes to an expression in its text.
Begins == /\ Moved(stack, stack') /\ Last(stack').at \in CallPoints
          /\ (Top.at = "callee" /\ depth < MaxDepth) \/ Top.at = "arg"
          /\ depth' = depth + 1 /\ maps' = maps + 1
          /\ IF Last(stack').at = "body" THEN builtins' = builtins
             ELSE builtins < MaxBuiltIns /\ builtins' = builtins + 1

\* A built-in begins and ends.
CallsBuiltIn == /\ stack' = Pop /\ Class(Top.at) \in {"plain", "arg"}
                /\ depth' = depth /\ maps' = maps + 1
                /\ builtins < MaxBuiltIns /\ builtins' = builtins + 1

PlainFrame(f) == f \in Frames /\ Class(f.at) = "plain"

Pushes == (\E f : PlainFrame(f) /\ stack' = Append(stack, f)) /\ Keep

\* A block is entered from the top frame as it is, from the top frame moved
\* on, or from a new one.
Enters == \E t : /\ \/ t = stack
                    \/ Moved(stack, t) /\ Class(Last(t).at) = Class(Top.at)
                    \/ \E f : PlainFrame(f) /\ t = Append(stack, f)
                 /\ stack' = Append(t, Frame("block"))
                 /\ depth' = depth /\ maps' = maps + 1

Leaves == /\ stack' = Pop /\ Keep
          /\ \/ Class(Top.at) \in {"plain", "arg"}
             \/ Class(Top.at) = "list" /\ mode' \notin Live

LeavesScope == /\ stack' = Pop /\ Class(Top.at) = "scope"
               /\ depth' = depth
               /\ maps' = maps - 1 \/ (maps' = maps /\ errors # {})

LeavesCall == /\ stack' = Pop /\ Top.at \in CallPoints
              /\ depth' = depth - 1
              /\ maps' = IF Top.at = "body" THEN maps - 1 ELSE maps

\* A step in which no built-in begins.
Calm == Stays \/ Pushes \/ Enters \/ Leaves \/ LeavesScope \/ LeavesCall

Shape == (Calm /\ builtins' = builtins) \/ Begins \/ CallsBuiltIn

\* What every step leaves well typed, and that no error is forgotten.
Typed == /\ mode \in Live
         /\ mode' \in Modes /\ sig' \in Signals /\ io' \in BOOLEAN
         /\ errors' \subseteq ErrorKinds /\ errors \subseteq errors'

\* In a live state there is a top frame.
LEMMA LiveTop ==
  ASSUME IInv, mode \in Live
  PROVE  /\ stack # <<>> /\ Len(stack) \in Nat \ {0}
         /\ Top \in Frames /\ Top = Last(stack)
         /\ Top.at \in Points /\ Top.left \in 0..MaxElif /\ Top.held \in Signals
<1>1. stack \in Seq(Frames) /\ stack # <<>>
  BY DEF IInv
<1>2. Len(stack) \in Nat \ {0}
  BY <1>1, EmptySeq, LenProperties
<1>3. Top \in Frames
  BY <1>1, <1>2, ElementOfSeq DEF Top
<1> QED
  BY <1>1, <1>2, <1>3 DEF Top, Last, Frames

\* Replacing the last frame moves the stack.
LEMMA Replaced ==
  ASSUME NEW s \in Seq(Frames), Len(s) \in Nat \ {0}, NEW f \in Frames
  PROVE  LET t == [s EXCEPT ![Len(s)] = f]
         IN  Moved(s, t) /\ Last(t) = f
<1> DEFINE t == [s EXCEPT ![Len(s)] = f]
<1>1. /\ t \in Seq(Frames) /\ Len(t) = Len(s)
      /\ \A i \in 1..Len(s) : t[i] = IF i = Len(s) THEN f ELSE s[i]
  BY ExceptSeq
<1> HIDE DEF t
<1>2. Len(s) \in 1..Len(s) /\ \A i \in 1..Len(s) - 1 : i \in 1..Len(s) /\ i # Len(s)
  OBVIOUS
<1>3. Moved(s, t) /\ Last(t) = f
  BY <1>1, <1>2 DEF Moved, Last
<1> QED
  BY <1>3 DEF t

\* The three ways the code of this module replaces it.
LEMMA TopReplaced ==
  ASSUME IInv, mode \in Live, NEW p \in Points
  PROVE  /\ Moved(stack, Goto(p)) /\ Last(Goto(p)).at = p
         /\ \A h \in Signals :
              Moved(stack, Hold(p, h)) /\ Last(Hold(p, h)).at = p
         /\ Top.left > 0 =>
              LET t == [stack EXCEPT ![Len(stack)].at = p,
                                     ![Len(stack)].left = @ - 1]
              IN  Moved(stack, t) /\ Last(t).at = p
<1>1. stack \in Seq(Frames) /\ Len(stack) \in Nat \ {0} /\ Top \in Frames
  BY LiveTop DEF IInv
<1>2. [Top EXCEPT !.at = p] \in Frames
  BY <1>1 DEF Frames
<1>3. Goto(p) = [stack EXCEPT ![Len(stack)] = [Top EXCEPT !.at = p]]
  BY DEF Goto, Top
<1>4. ASSUME NEW h \in Signals
      PROVE  Moved(stack, Hold(p, h)) /\ Last(Hold(p, h)).at = p
  <2>1. [Top EXCEPT !.at = p, !.held = h] \in Frames
    BY <1>1 DEF Frames
  <2>2. Hold(p, h) = [stack EXCEPT ![Len(stack)] = [Top EXCEPT !.at = p, !.held = h]]
    BY <1>1, LenProperties DEF Hold, Top
  <2>3. [Top EXCEPT !.at = p, !.held = h].at = p
    BY <1>1 DEF Frames
  <2> QED
    BY <1>1, <2>1, <2>2, <2>3, Replaced
<1>5. ASSUME Top.left > 0
      PROVE  LET t == [stack EXCEPT ![Len(stack)].at = p,
                                    ![Len(stack)].left = @ - 1]
             IN  Moved(stack, t) /\ Last(t).at = p
  <2> DEFINE f == [Top EXCEPT !.at = p, !.left = @ - 1]
  <2>1. f \in Frames /\ f.at = p
    <3>1. Top.left \in 0..MaxElif
      BY <1>1 DEF Frames
    <3>2. Top.left - 1 \in 0..MaxElif
      BY <3>1, <1>5, MaxElifAssumption
    <3> DEFINE k == Top.left - 1
    <3> HIDE DEF k
    <3>3. [Top EXCEPT !.at = p, !.left = k] \in Frames
      BY <1>1, <3>2 DEF Frames, k
    <3>4. [Top EXCEPT !.at = p, !.left = k].at = p
      BY <1>1 DEF Frames
    <3> QED
      BY <3>3, <3>4 DEF k
  <2>2. [stack EXCEPT ![Len(stack)].at = p, ![Len(stack)].left = @ - 1]
          = [stack EXCEPT ![Len(stack)] = f]
    BY <1>1, LenProperties DEF Top
  <2> QED
    BY <1>1, <2>1, <2>2, Replaced
<1>6. [Top EXCEPT !.at = p].at = p
  BY <1>1 DEF Frames
<1>7. Moved(stack, Goto(p)) /\ Last(Goto(p)).at = p
  BY <1>1, <1>2, <1>3, <1>6, Replaced
<1> QED
  BY <1>4, <1>5, <1>7

-----------------------------------------------------------------------------
(* Each shape keeps the invariant *)

\* ArgFine looks only at a frame and those below it.
LEMMA ArgPush ==
  ASSUME NEW s \in Seq(Frames), ArgFine(s), NEW f \in Frames, f.at # "arg"
  PROVE  ArgFine(Append(s, f))
<1> DEFINE t == Append(s, f)
<1>1. /\ Len(s) \in Nat /\ Len(t) = Len(s) + 1
      /\ \A i \in 1..Len(s) : t[i] = s[i]
      /\ t[Len(t)] = f
  BY PushCount, LenProperties DEF Last
<1> HIDE DEF t
<1>2. ASSUME NEW i \in 1..Len(t), t[i].at = "arg"
      PROVE  Cardinality(At(t, CallPoints, i)) < MaxDepth
  <2>1. i \in 1..Len(s) /\ i \in Nat
    BY <1>1, <1>2
  <2>2. At(t, CallPoints, i) = At(s, CallPoints, i)
    BY <1>1, <2>1, AtSame
  <2> QED
    BY <1>1, <1>2, <2>1, <2>2 DEF ArgFine
<1> QED
  BY <1>2 DEF ArgFine, t

\* A return keeps every waiting argument list below the limit (exec_func
\* tested it before unwrap_args began).
LEMMA ArgPop ==
  ASSUME NEW s \in Seq(Frames), s # <<>>, ArgFine(s)
  PROVE  ArgFine(SubSeq(s, 1, Len(s) - 1))
<1> DEFINE t == SubSeq(s, 1, Len(s) - 1)
<1>1. /\ Len(s) \in Nat \ {0} /\ Len(t) = Len(s) - 1
      /\ \A i \in 1..Len(t) : t[i] = s[i]
  BY PopCount
<1> HIDE DEF t
<1>2. ASSUME NEW i \in 1..Len(t), t[i].at = "arg"
      PROVE  Cardinality(At(t, CallPoints, i)) < MaxDepth
  <2>1. i \in 1..Len(s) /\ i \in Nat
    BY <1>1
  <2>2. At(t, CallPoints, i) = At(s, CallPoints, i)
    BY <1>1, <2>1, AtSame
  <2> QED
    BY <1>1, <1>2, <2>1, <2>2 DEF ArgFine
<1> QED
  BY <1>2 DEF ArgFine, t

\* So does a handler that goes on, if it has checked the limit itself before
\* it opens an argument list.
LEMMA ArgMove ==
  ASSUME NEW s \in Seq(Frames), s # <<>>, ArgFine(s), NEW t, Moved(s, t),
         Last(t).at = "arg" => NumCalls(t) < MaxDepth
  PROVE  ArgFine(t)
<1>1. /\ Len(s) \in Nat \ {0} /\ Len(t) = Len(s)
      /\ \A i \in 1..Len(s) - 1 : t[i] = s[i]
  BY MovedCount DEF Moved
<1>2. ASSUME NEW i \in 1..Len(t), t[i].at = "arg"
      PROVE  Cardinality(At(t, CallPoints, i)) < MaxDepth
  <2>1. CASE i = Len(t)
    BY <1>2, <2>1 DEF Last, NumCalls
  <2>2. CASE i # Len(t)
    <3>1. i \in 1..Len(s) - 1 /\ i \in Nat /\ i \in 1..Len(s)
      BY <1>1, <2>2
    <3>2. At(t, CallPoints, i) = At(s, CallPoints, i)
      BY <1>1, <3>1, AtSame
    <3> QED
      BY <1>1, <1>2, <3>1, <3>2 DEF ArgFine
  <2> QED
    BY <2>1, <2>2
<1> QED
  BY <1>2 DEF ArgFine

\* The counters and the bottom frame, for a pushed, a moved, a popped stack.
LEMMA Pushed ==
  ASSUME NEW s \in Seq(Frames), s # <<>>, NEW f \in Frames
  PROVE  LET t == Append(s, f)
         IN  /\ t \in Seq(Frames) /\ t # <<>> /\ t[1] = s[1]
             /\ NumCalls(t) = NumCalls(s) + (IF f.at \in CallPoints THEN 1 ELSE 0)
             /\ NumScopes(t) = NumScopes(s) + (IF f.at \in ScopePoints THEN 1 ELSE 0)
<1>1. Len(s) \in Nat \ {0}
  BY EmptySeq, LenProperties
<1>2. Append(s, f) # <<>>
  BY AppendProperties
<1>3. 1 \in 1..Len(s)
  BY <1>1
<1> QED
  BY <1>2, <1>3, PushCount DEF NumCalls, NumScopes

\* What a change of the top frame's point does to the counts of running
\* calls and of scopes on the stack.
LEMMA MovedOn ==
  ASSUME NEW s \in Seq(Frames), s # <<>>, NEW t, Moved(s, t),
         Class(s[1].at) = "list", Class(Last(t).at) = Class(Last(s).at)
                               \/ Class(Last(s).at) # "list"
  PROVE  /\ t \in Seq(Frames) /\ t # <<>> /\ Class(t[1].at) = "list"
         /\ NumCalls(t) = NumCalls(s)
              + (IF Last(t).at \in CallPoints THEN 1 ELSE 0)
              - (IF Last(s).at \in CallPoints THEN 1 ELSE 0)
         /\ NumScopes(t) = NumScopes(s)
              + (IF Last(t).at \in ScopePoints THEN 1 ELSE 0)
              - (IF Last(s).at \in ScopePoints THEN 1 ELSE 0)
<1>1. Len(s) \in Nat \ {0} /\ t # <<>>
  BY MovedCount
<1>2. t \in Seq(Frames) /\ Len(t) = Len(s) /\ \A i \in 1..Len(s) - 1 : t[i] = s[i]
  BY DEF Moved
<1>3. Class(t[1].at) = "list"
  <2>1. CASE Len(s) = 1
    BY <2>1, <1>2 DEF Last
  <2>2. CASE Len(s) # 1
    <3> DEFINE n == Len(s)
    <3>1. n \in Nat \ {0} /\ n # 1
      BY <2>2, <1>1
    <3> HIDE DEF n
    <3>2. 1 \in 1..n - 1
      BY <3>1
    <3> QED
      BY <3>2, <1>2 DEF n
  <2> QED
    BY <2>1, <2>2
<1> QED
  BY <1>1, <1>2, <1>3, MovedCount DEF NumCalls, NumScopes

\* What a return does to them.
LEMMA Popped ==
  ASSUME NEW s \in Seq(Frames), s # <<>>
  PROVE  LET t == SubSeq(s, 1, Len(s) - 1)
         IN  /\ t \in Seq(Frames)
             /\ (Class(s[1].at) = "list" /\ Class(Last(s).at) # "list")
                  => t # <<>> /\ t[1] = s[1]
             /\ NumCalls(s) = NumCalls(t) + (IF Last(s).at \in CallPoints THEN 1 ELSE 0)
             /\ NumScopes(s) = NumScopes(t)
                               + (IF Last(s).at \in ScopePoints THEN 1 ELSE 0)
<1> DEFINE t == SubSeq(s, 1, Len(s) - 1)
<1>1. /\ t \in Seq(Frames) /\ Len(s) \in Nat \ {0} /\ Len(t) = Len(s) - 1
      /\ \A i \in 1..Len(t) : t[i] = s[i]
      /\ NumCalls(s) = NumCalls(t) + (IF Last(s).at \in CallPoints THEN 1 ELSE 0)
      /\ NumScopes(s) = NumScopes(t) + (IF Last(s).at \in ScopePoints THEN 1 ELSE 0)
  BY PopCount DEF NumCalls, NumScopes
<1> HIDE DEF t
<1>2. ASSUME Class(s[1].at) = "list", Class(Last(s).at) # "list"
      PROVE  t # <<>> /\ t[1] = s[1]
  <2>1. Len(s) # 1
    BY <1>2 DEF Last
  <2>2. 1 \in 1..Len(t) /\ Len(t) # 0
    BY <1>1, <2>1
  <2> QED
    BY <1>1, <2>2
<1> QED
  BY <1>1, <1>2 DEF t


\* What the invariant says of the counters.
LEMMA Counters ==
  ASSUME IInv, mode \in Live
  PROVE  /\ stack \in Seq(Frames) /\ stack # <<>> /\ Class(stack[1].at) = "list"
         /\ ArgFine(stack)
         /\ NumCalls(stack) \in Nat /\ NumScopes(stack) \in Nat
         /\ depth = NumCalls(stack) /\ depth <= MaxDepth
         /\ maps \in Nat /\ builtins \in Nat /\ builtins \in 0..MaxBuiltIns
         /\ maps >= NumScopes(stack) + builtins
         /\ errors = {} => maps = NumScopes(stack) + builtins
         /\ Top = Last(stack)
<1>1. stack \in Seq(Frames) /\ Len(stack) \in Nat
  BY LiveTop DEF IInv
<1> QED
  BY <1>1, AtFinite, LiveTop DEF IInv, DepthOK, MapsOK, Running, Scopes, NumCalls,
     NumScopes, CallPoints, ScopePoints

\* The numbers among it.
LEMMA Numbers ==
  ASSUME IInv, Typed
  PROVE  /\ NumCalls(stack) \in Nat /\ NumScopes(stack) \in Nat
         /\ depth = NumCalls(stack) /\ depth <= MaxDepth /\ MaxDepth \in Nat
         /\ maps \in Nat /\ builtins \in Nat
         /\ builtins \in 0..MaxBuiltIns /\ MaxBuiltIns \in Nat
         /\ maps >= NumScopes(stack) + builtins
         /\ errors' = {} => maps = NumScopes(stack) + builtins
BY Counters, MaxDepthAssumption, MaxBuiltInsAssumption DEF Typed

\* What has to be shown of a step for the invariant to hold after it.
LEMMA Rebuild ==
  ASSUME Typed,
         stack' \in Seq(Frames),
         mode' \in Live => stack' # <<>> /\ Class(stack'[1].at) = "list",
         depth' = NumCalls(stack'), depth' <= MaxDepth,
         maps' \in Nat, builtins' \in 0..MaxBuiltIns,
         maps' >= NumScopes(stack') + builtins',
         errors' = {} => maps' = NumScopes(stack') + builtins',
         ArgFine(stack')
  PROVE  IInv'
<1>1. Len(stack') \in Nat
  BY LenProperties
<1>2. depth' \in Nat
  BY <1>1, AtFinite DEF NumCalls
<1>3. DepthOK'
  BY DEF DepthOK, Running, NumCalls, CallPoints
<1>4. MapsOK'
  BY DEF MapsOK, Scopes, NumScopes, ScopePoints
<1> QED
  BY <1>2, <1>3, <1>4 DEF IInv, Typed

\* A class determines whether a frame counts.
LEMMA ClassCounts ==
  ASSUME NEW p, NEW q, Class(p) = Class(q)
  PROVE  /\ p \in CallPoints <=> q \in CallPoints
         /\ p \in ScopePoints <=> q \in ScopePoints
         /\ p = "arg" <=> q = "arg"
BY DEF Class, CallPoints, ScopePoints

\* Each shape of step preserves the invariant.  Here: the handler at the top
\* goes on without entering or leaving a scope.
LEMMA StaysInv ==
  ASSUME IInv, Typed, Stays, builtins' = builtins
  PROVE  IInv'
<1>1. CASE stack' = stack
  BY <1>1, Counters, Rebuild DEF Stays, Keep, Typed
<1>2. CASE Retarget(stack')
  <2> DEFINE t == stack'
  <2>1. Moved(stack, t)
    BY <1>2 DEF Retarget
  <2>2. /\ Last(t).at \in CallPoints <=> Last(stack).at \in CallPoints
        /\ Last(t).at \in ScopePoints <=> Last(stack).at \in ScopePoints
        /\ Class(Last(t).at) = Class(Last(stack).at) \/ Class(Last(stack).at) # "list"
    BY <1>2, Counters, ClassCounts DEF Retarget, Typed, Class, CallPoints, ScopePoints
  <2>3. /\ t \in Seq(Frames) /\ t # <<>> /\ Class(t[1].at) = "list"
        /\ NumCalls(t) = NumCalls(stack)
        /\ NumScopes(t) = NumScopes(stack)
    <3> HIDE DEF t
    <3>1. stack \in Seq(Frames) /\ stack # <<>> /\ Class(stack[1].at) = "list"
          /\ NumCalls(stack) \in Nat /\ NumScopes(stack) \in Nat
      BY Counters DEF Typed
    <3>2. /\ t \in Seq(Frames) /\ t # <<>> /\ Class(t[1].at) = "list"
          /\ NumCalls(t) = NumCalls(stack)
               + (IF Last(t).at \in CallPoints THEN 1 ELSE 0)
               - (IF Last(stack).at \in CallPoints THEN 1 ELSE 0)
          /\ NumScopes(t) = NumScopes(stack)
               + (IF Last(t).at \in ScopePoints THEN 1 ELSE 0)
               - (IF Last(stack).at \in ScopePoints THEN 1 ELSE 0)
      BY <2>1, <2>2, <3>1, MovedOn
    <3> QED
      BY <2>2, <3>1, <3>2
  <2>4. Last(t).at = "arg" => NumCalls(t) < MaxDepth
    <3>1. CASE Class(Last(t).at) = Class(Top.at)
      <4>1. Last(t).at = "arg" => Top.at = "arg"
        BY <3>1, ClassCounts
      <4>2. Top.at = "arg" => NumCalls(stack) < MaxDepth
        BY LiveTop, Counters DEF Typed, ArgFine, NumCalls, Last
      <4> QED
        BY <4>1, <4>2, <2>3
    <3>2. CASE Top.at = "callee" /\ Last(t).at = "arg" /\ depth < MaxDepth
      BY <3>2, <2>3, Counters DEF Typed
    <3> QED
      BY <3>1, <3>2, <1>2 DEF Retarget
  <2>5. ArgFine(t)
    <3> HIDE DEF t
    <3> QED
      BY <2>1, <2>4, Counters, ArgMove DEF Typed
  <2> QED
    BY <2>3, <2>5, Counters, Rebuild DEF Stays, Keep, Typed
<1> QED
  BY <1>1, <1>2 DEF Stays

\* A call begins: one running call more, and for a body one scope.
LEMMA BeginsInv ==
  ASSUME IInv, Typed, Begins
  PROVE  IInv'
<1> DEFINE t == stack'
           body == IF Last(t).at = "body" THEN 1 ELSE 0
<1>1. Moved(stack, t) /\ Last(t).at \in CallPoints /\ Top.at \in {"callee", "arg"}
      /\ depth' = depth + 1 /\ maps' = maps + 1
      /\ Last(t).at # "arg" /\ body \in {0, 1}
  BY DEF Begins, CallPoints
<1>2. Top = Last(stack) /\ Class(Top.at) # "list" /\ Top.at \notin CallPoints
      /\ Top.at \notin ScopePoints
      /\ (IF Last(t).at \in ScopePoints THEN 1 ELSE 0) = body
  BY <1>1, Counters DEF Typed, Class, CallPoints, ScopePoints
<1>3. /\ t \in Seq(Frames) /\ t # <<>> /\ Class(t[1].at) = "list"
      /\ NumCalls(t) = NumCalls(stack) + 1
      /\ NumScopes(t) = NumScopes(stack) + body
  <2> HIDE DEF t, body
  <2>1. /\ t \in Seq(Frames) /\ t # <<>> /\ Class(t[1].at) = "list"
        /\ NumCalls(t) = NumCalls(stack)
             + (IF Last(t).at \in CallPoints THEN 1 ELSE 0)
             - (IF Last(stack).at \in CallPoints THEN 1 ELSE 0)
        /\ NumScopes(t) = NumScopes(stack)
             + (IF Last(t).at \in ScopePoints THEN 1 ELSE 0)
             - (IF Last(stack).at \in ScopePoints THEN 1 ELSE 0)
    BY <1>1, <1>2, Counters, MovedOn DEF Typed
  <2> QED
    BY <1>1, <1>2, <2>1, Counters DEF Typed
<1>4. depth < MaxDepth
  <2>1. Top.at = "arg" => NumCalls(stack) < MaxDepth
    BY LiveTop, Counters DEF Typed, ArgFine, NumCalls, Last
  <2> QED
    BY <2>1, Counters DEF Begins, Typed
<1>5. ArgFine(t)
  <2> HIDE DEF t
  <2> QED
    BY <1>1, Counters, ArgMove DEF Typed
<1>6. builtins' = builtins + 1 - body /\ builtins' \in 0..MaxBuiltIns
  BY Counters, MaxBuiltInsAssumption DEF Begins, Typed
<1>7. depth' <= MaxDepth /\ depth' = NumCalls(t) /\ maps' \in Nat
  BY <1>1, <1>3, <1>4, Counters, MaxDepthAssumption DEF Typed
<1>8. /\ maps' >= NumScopes(t) + builtins'
      /\ errors' = {} => maps' = NumScopes(t) + builtins'
  <2>1. maps' = maps + 1 /\ body \in {0, 1}
    BY <1>1
  <2>2. NumScopes(t) = NumScopes(stack) + body /\ builtins' = builtins + 1 - body
    BY <1>3, <1>6
  <2> HIDE DEF t, body
  <2> QED
    BY <2>1, <2>2, Numbers
<1> QED
  BY <1>3, <1>5, <1>6, <1>7, <1>8, Rebuild

\* A handler that is not a scope waits for its first operand.
LEMMA PushesInv ==
  ASSUME IInv, Typed, Pushes, builtins' = builtins
  PROVE  IInv'
<1> PICK f : PlainFrame(f) /\ stack' = Append(stack, f)
  BY DEF Pushes
<1>1. f \in Frames /\ f.at # "arg" /\ f.at \notin CallPoints /\ f.at \notin ScopePoints
  BY DEF PlainFrame, Class, CallPoints, ScopePoints
<1>2. 1 \in 1..Len(stack)
  BY LiveTop DEF Typed
<1>3. /\ stack' \in Seq(Frames) /\ stack' # <<>> /\ Class(stack'[1].at) = "list"
      /\ NumCalls(stack') = NumCalls(stack)
      /\ NumScopes(stack') = NumScopes(stack)
  BY <1>1, Counters, Pushed DEF Typed
<1>4. ArgFine(stack')
  BY <1>1, Counters, ArgPush DEF Typed
<1> QED
  BY <1>3, <1>4, Counters, Rebuild DEF Pushes, Keep, Typed

\* A block is entered, under a frame that stays, moves or is new.
LEMMA EntersInv ==
  ASSUME IInv, Typed, Enters, builtins' = builtins
  PROVE  IInv'
<1> DEFINE b == Frame("block")
<1>1. b \in Frames /\ b.at = "block"
  BY MaxElifAssumption DEF Frame, Frames, Points, NodesPoints, Signals
<1> PICK t : /\ \/ t = stack
                \/ Moved(stack, t) /\ Class(Last(t).at) = Class(Top.at)
                \/ \E f : PlainFrame(f) /\ t = Append(stack, f)
             /\ stack' = Append(t, b)
             /\ depth' = depth /\ maps' = maps + 1
  BY DEF Enters
<1> HIDE DEF b
<1>2. /\ t \in Seq(Frames) /\ t # <<>> /\ Class(t[1].at) = "list"
      /\ NumCalls(t) = NumCalls(stack)
      /\ NumScopes(t) = NumScopes(stack)
      /\ ArgFine(t)
  <2>1. CASE t = stack
    BY <2>1, Counters DEF Typed
  <2>2. CASE Moved(stack, t) /\ Class(Last(t).at) = Class(Top.at)
    <3>1. /\ Last(t).at \in CallPoints <=> Last(stack).at \in CallPoints
          /\ Last(t).at \in ScopePoints <=> Last(stack).at \in ScopePoints
          /\ Last(t).at = "arg" => Top.at = "arg"
          /\ Class(Last(t).at) = Class(Last(stack).at)
      BY <2>2, Counters, ClassCounts DEF Typed
    <3>2. /\ t \in Seq(Frames) /\ t # <<>> /\ Class(t[1].at) = "list"
          /\ NumCalls(t) = NumCalls(stack)
          /\ NumScopes(t) = NumScopes(stack)
      <4>1. stack \in Seq(Frames) /\ stack # <<>> /\ Class(stack[1].at) = "list"
        BY Counters DEF Typed
      <4>2. /\ t \in Seq(Frames) /\ t # <<>> /\ Class(t[1].at) = "list"
            /\ NumCalls(t) = NumCalls(stack)
                 + (IF Last(t).at \in CallPoints THEN 1 ELSE 0)
                 - (IF Last(stack).at \in CallPoints THEN 1 ELSE 0)
            /\ NumScopes(t) = NumScopes(stack)
                 + (IF Last(t).at \in ScopePoints THEN 1 ELSE 0)
                 - (IF Last(stack).at \in ScopePoints THEN 1 ELSE 0)
        BY <2>2, <3>1, <4>1, MovedOn
      <4> QED
        BY <3>1, <4>2, Numbers
    <3>3. Top.at = "arg" => NumCalls(stack) < MaxDepth
      BY LiveTop, Counters DEF Typed, ArgFine, NumCalls, Last
    <3>4. ArgFine(t)
      BY <2>2, <3>1, <3>2, <3>3, Counters, ArgMove DEF Typed
    <3> QED
      BY <3>2, <3>4
  <2>3. CASE \E f : PlainFrame(f) /\ t = Append(stack, f)
    <3> PICK f : PlainFrame(f) /\ t = Append(stack, f)
      BY <2>3
    <3>1. f \in Frames /\ f.at # "arg" /\ f.at \notin CallPoints /\ f.at \notin ScopePoints
      BY DEF PlainFrame, Class, CallPoints, ScopePoints
    <3>2. /\ t \in Seq(Frames) /\ t # <<>> /\ Class(t[1].at) = "list"
          /\ NumCalls(t) = NumCalls(stack)
          /\ NumScopes(t) = NumScopes(stack)
      BY <3>1, Counters, Pushed DEF Typed
    <3> QED
      BY <3>1, <3>2, Counters, ArgPush DEF Typed
  <2> QED
    BY <2>1, <2>2, <2>3
<1>3. /\ stack' \in Seq(Frames) /\ stack' # <<>> /\ Class(stack'[1].at) = "list"
      /\ NumCalls(stack') = NumCalls(stack)
      /\ NumScopes(stack') = NumScopes(stack) + 1
  <2>1. b.at \notin CallPoints /\ b.at \in ScopePoints
    BY <1>1 DEF CallPoints, ScopePoints
  <2>2. /\ Append(t, b) \in Seq(Frames) /\ Append(t, b) # <<>> /\ Append(t, b)[1] = t[1]
        /\ NumCalls(Append(t, b)) = NumCalls(t) + 0
        /\ NumScopes(Append(t, b)) = NumScopes(t) + 1
    BY <1>1, <1>2, <2>1, Pushed
  <2> QED
    BY <1>2, <2>2, Counters DEF Typed
<1>4. ArgFine(stack')
  BY <1>1, <1>2, ArgPush
<1>5. /\ depth' = NumCalls(stack') /\ depth' <= MaxDepth
      /\ maps' \in Nat /\ builtins' \in 0..MaxBuiltIns
      /\ maps' >= NumScopes(stack') + builtins'
      /\ errors' = {} => maps' = NumScopes(stack') + builtins'
  <2>1. depth' = depth /\ maps' = maps + 1
    OBVIOUS
  <2>2. NumCalls(stack') = NumCalls(stack) /\ NumScopes(stack') = NumScopes(stack) + 1
    BY <1>3
  <2> QED
    BY <2>1, <2>2, Numbers
<1> QED
  BY <1>3, <1>4, <1>5, Rebuild

\* A handler, a scope or a running call returns.
LEMMA LeavesInv ==
  ASSUME IInv, Typed, Leaves \/ LeavesScope \/ LeavesCall, builtins' = builtins
  PROVE  IInv'
<1>1. /\ stack \in Seq(Frames) /\ stack # <<>> /\ Top = Last(stack)
      /\ Class(stack[1].at) = "list"
      /\ stack' = SubSeq(stack, 1, Len(stack) - 1)
  BY Counters DEF Typed, Leaves, LeavesScope, LeavesCall, Pop
<1>2. /\ stack' \in Seq(Frames)
      /\ Class(Top.at) # "list" => stack' # <<>> /\ Class(stack'[1].at) = "list"
      /\ NumCalls(stack) = NumCalls(stack') + (IF Top.at \in CallPoints THEN 1 ELSE 0)
      /\ NumScopes(stack) = NumScopes(stack')
                            + (IF Top.at \in ScopePoints THEN 1 ELSE 0)
  BY <1>1, Popped
<1>3. mode' \in Live => stack' # <<>> /\ Class(stack'[1].at) = "list"
  BY <1>2 DEF Leaves, LeavesScope, LeavesCall, Class, CallPoints
<1>4. ArgFine(stack')
  BY <1>1, Counters, ArgPop DEF Typed
<1>5. NumCalls(stack') \in Nat /\ NumScopes(stack') \in Nat
  BY <1>2, AtFinite, LenProperties DEF NumCalls, NumScopes
<1>6. CASE Leaves
  <2>1. Top.at \notin CallPoints /\ Top.at \notin ScopePoints
    BY <1>6 DEF Leaves, Class, CallPoints, ScopePoints
  <2> QED
    BY <2>1, <1>6, <1>2, <1>3, <1>4, <1>5, Counters, Rebuild DEF Leaves, Keep, Typed
<1>7. CASE LeavesScope
  <2>1. Top.at \notin CallPoints /\ Top.at \in ScopePoints
    BY <1>7 DEF LeavesScope, Class, CallPoints, ScopePoints
  <2>2. /\ NumCalls(stack') = depth' /\ depth' <= MaxDepth
        /\ NumScopes(stack) = NumScopes(stack') + 1
    BY <2>1, <1>7, <1>2, <1>5, Counters DEF LeavesScope, Typed
  <2>3. /\ maps' \in Nat /\ maps' >= NumScopes(stack') + builtins'
        /\ errors' = {} => maps' = NumScopes(stack') + builtins'
    BY <2>2, <1>5, <1>7, Counters DEF LeavesScope, Typed
  <2> QED
    BY <2>2, <2>3, <1>2, <1>3, <1>4, Counters, Rebuild DEF Typed
<1>8. CASE LeavesCall
  <2> DEFINE body == IF Top.at = "body" THEN 1 ELSE 0
  <2>1. /\ (IF Top.at \in ScopePoints THEN 1 ELSE 0) = body
        /\ maps' = maps - body /\ body \in {0, 1}
    BY <1>8, Counters DEF LeavesCall, CallPoints, ScopePoints, Typed
  <2>2. /\ NumCalls(stack) = NumCalls(stack') + 1
        /\ NumScopes(stack) = NumScopes(stack') + body
    BY <2>1, <1>8, <1>2 DEF LeavesCall
  <2> HIDE DEF body
  <2>3. NumCalls(stack') = depth' /\ depth' <= MaxDepth
    BY <2>2, <1>5, <1>8, Counters, MaxDepthAssumption DEF LeavesCall, Typed
  <2>4. /\ maps' \in Nat /\ maps' >= NumScopes(stack') + builtins'
        /\ errors' = {} => maps' = NumScopes(stack') + builtins'
    BY <2>1, <2>2, <1>5, Numbers
  <2>5. builtins' \in 0..MaxBuiltIns
    BY Numbers
  <2> QED
    BY <2>3, <2>4, <2>5, <1>2, <1>3, <1>4, Rebuild
<1> QED
  BY <1>6, <1>7, <1>8

\* A built-in function is called: no frame of it stays, but a map does.
LEMMA BuiltInInv ==
  ASSUME IInv, Typed, CallsBuiltIn
  PROVE  IInv'
<1>1. /\ stack \in Seq(Frames) /\ stack # <<>> /\ Top = Last(stack)
      /\ Class(stack[1].at) = "list" /\ Class(Top.at) # "list"
      /\ stack' = SubSeq(stack, 1, Len(stack) - 1)
      /\ Top.at \notin CallPoints /\ Top.at \notin ScopePoints
  BY Counters DEF Typed, CallsBuiltIn, Pop, Class, CallPoints, ScopePoints
<1>2. /\ stack' \in Seq(Frames) /\ stack' # <<>> /\ Class(stack'[1].at) = "list"
      /\ NumCalls(stack) = NumCalls(stack') + 0
      /\ NumScopes(stack) = NumScopes(stack') + 0
  BY <1>1, Popped
<1>3. NumCalls(stack') \in Nat /\ NumScopes(stack') \in Nat
  BY <1>2, AtFinite, LenProperties DEF NumCalls, NumScopes
<1>4. ArgFine(stack')
  BY <1>1, Counters, ArgPop DEF Typed
<1>5. /\ depth' = NumCalls(stack') /\ depth' <= MaxDepth
      /\ maps' \in Nat /\ builtins' \in 0..MaxBuiltIns
      /\ maps' >= NumScopes(stack') + builtins'
      /\ errors' = {} => maps' = NumScopes(stack') + builtins'
  <2>1. /\ depth' = depth /\ maps' = maps + 1
        /\ builtins < MaxBuiltIns /\ builtins' = builtins + 1
    BY DEF CallsBuiltIn
  <2> QED
    BY <1>2, <1>3, <2>1, Numbers
<1> QED
  BY <1>2, <1>4, <1>5, Rebuild

\* Whatever shape a step has, the invariant holds after it.
LEMMA ShapeInv ==
  ASSUME IInv, Typed, Shape
  PROVE  IInv'
BY StaysInv, BeginsInv, PushesInv, EntersInv, LeavesInv, BuiltInInv DEF Shape, Calm

-----------------------------------------------------------------------------
(* The shape of each action *)

\* After an error nothing visible happens and no call begins.
Stops == errors # {} => io' = FALSE /\ depth' <= depth

Good == Typed /\ Shape /\ Stops

\* A step in which no built-in begins, whichever of the shapes it has.
LEMMA CalmGood ==
  ASSUME Typed, Calm, Stops, builtins' = builtins
  PROVE  Good
BY DEF Good, Shape

\* The types of the outcomes.
LEMMA Outcomes ==
  /\ \A s : OutsideError(s) \subseteq ErrorKinds
  /\ \A s : UnexpectedError(s) \subseteq ErrorKinds
  /\ {"OTHER"} \subseteq ErrorKinds
  /\ {"RECURSION_LIMIT_EXCEEDED"} \subseteq ErrorKinds
  /\ "NONE" \in Signals /\ "RETURN" \in Signals
  /\ Live \subseteq Modes
BY DEF OutsideError, UnexpectedError, ErrorKinds, Signals, Live, Modes

\* The operands' points are plain.
LEMMA PlainPoints ==
  /\ \A p \in OperandPoints : Class(p) = "plain" /\ p \in Points
  /\ \A p \in {"ifcond", "elifcond", "branch", "forinit", "forcond", "forbody",
               "fornext", "callee"} : Class(p) = "plain" /\ p \in Points
  /\ "arg" \in Points /\ "body" \in Points /\ "format" \in Points
  /\ "blockret" \in Points /\ "program" \in Points
<1>1. ASSUME NEW p, p \notin {"items", "program", "block", "blockret", "body", "arg",
                  "format"}
      PROVE  Class(p) = "plain"
  BY <1>1 DEF Class
<1>2. \A p \in OperandPoints :
        p \notin {"items", "program", "block", "blockret", "body", "arg",
                  "format"}
  BY DEF OperandPoints
<1>3. \A p \in OperandPoints : p \in Points
  BY DEF Points
<1>4. \A p \in {"ifcond", "elifcond", "branch", "forinit", "forcond", "forbody",
                "fornext", "callee"} :
        /\ p \notin {"items", "program", "block", "blockret", "body", "arg",
                  "format"}
        /\ p \in Points
  BY DEF Points
<1>5. /\ "arg" \in Points /\ "body" \in Points /\ "format" \in Points
      /\ "blockret" \in Points /\ "program" \in Points
  BY DEF Points, NodesPoints
<1> QED
  BY <1>1, <1>2, <1>3, <1>4, <1>5

\* A frame just opened.
LEMMA PlainOpened ==
  ASSUME NEW p \in Points, Class(p) = "plain", NEW n \in 0..MaxElif
  PROVE  /\ PlainFrame(Frame(p))
         /\ PlainFrame([at |-> p, left |-> n, held |-> "NONE"])
<1>1. 0 \in 0..MaxElif /\ "NONE" \in Signals
  BY MaxElifAssumption, Outcomes
<1> QED
  BY <1>1 DEF Frame, PlainFrame, Frames

\* A step to a live state that calls no built-in and enters no function.
LEMMA QuietGood ==
  ASSUME IInv, mode \in Live, mode' \in Live, sig' \in Signals, Quiet,
         errors' \subseteq ErrorKinds, errors \subseteq errors',
         depth' = depth, Calm
  PROVE  Good
<1>1. Typed
  BY Outcomes DEF Typed, Quiet
<1>2. depth' <= depth
  BY DEF IInv
<1>3. Stops
  BY <1>2 DEF Stops, Quiet
<1> QED
  BY <1>1, <1>3, CalmGood DEF Quiet

\* The top activation returns.
LEMMA ReturnGood ==
  ASSUME IInv, mode \in Live, NEW s \in Signals, Return(s), Keep,
         Class(Top.at) \in {"plain", "arg"},
         errors' \subseteq ErrorKinds, errors \subseteq errors'
  PROVE  Good
<1>1. Calm
  BY DEF Return, Calm, Leaves
<1>2. mode' \in Live
  BY DEF Return, Live
<1> QED
  BY <1>1, <1>2, QuietGood DEF Return, Keep

\* Control passes to a node at the same activation, or to another point of it.
LEMMA EvalGood ==
  ASSUME IInv, mode \in Live, NEW st, Eval(st), Keep,
         st = stack \/ Retarget(st),
         errors' \subseteq ErrorKinds, errors \subseteq errors'
  PROVE  Good
<1>1. Calm
  BY DEF Eval, Calm, Stays
<1>2. mode' \in Live
  BY DEF Eval, Live
<1> QED
  BY <1>1, <1>2, Outcomes, QuietGood DEF Eval, Keep

\* A handler that is not a scope moves to another of its points: one shape.
LEMMA GotoPlain ==
  ASSUME IInv, mode \in Live, Class(Top.at) = "plain",
         NEW p \in Points, Class(p) = "plain"
  PROVE  /\ Retarget(Goto(p))
         /\ \A h \in Signals : Retarget(Hold(p, h))
         /\ Top.left > 0 => Retarget([stack EXCEPT ![Len(stack)].at = p,
                                                   ![Len(stack)].left = @ - 1])
BY TopReplaced DEF Retarget

\* A block is entered.
LEMMA EnterGood ==
  ASSUME IInv, mode \in Live, NEW st, EnterBlock(st), depth' = depth,
         \/ st = stack
         \/ Moved(stack, st) /\ Class(Last(st).at) = Class(Top.at)
         \/ \E f : PlainFrame(f) /\ st = Append(stack, f),
         errors' \subseteq ErrorKinds, errors \subseteq errors'
  PROVE  Good
<1>1. Enters
  BY DEF EnterBlock, Enters
<1>2. mode' \in Live
  BY DEF EnterBlock, Live
<1> QED
  BY <1>1, <1>2, Outcomes, QuietGood DEF EnterBlock, Calm

\* It moves to a point where it waits for a block: another shape.
LEMMA EnterAt ==
  ASSUME IInv, mode \in Live, Class(Top.at) = "plain",
         NEW p \in Points, Class(p) = "plain",
         NEW h \in Signals, EnterBlock(Goto(p)) \/ EnterBlock(Hold(p, h)),
         depth' = depth, errors' \subseteq ErrorKinds, errors \subseteq errors'
  PROVE  Good
<1>1. CASE EnterBlock(Goto(p))
  BY <1>1, TopReplaced, EnterGood
<1>2. CASE EnterBlock(Hold(p, h))
  BY <1>2, TopReplaced, EnterGood
<1> QED
  BY <1>1, <1>2

\* A handler that waits for an operand returns, fails or goes on.
LEMMA OperandGood ==
  ASSUME IInv, mode = "ret", Top.at \in OperandPoints,
         NEW reported \in SUBSET ErrorKinds,
         NEW further \in SUBSET OperandPoints,
         OperandReturned(reported, further)
  PROVE  Good
<1>1. mode \in Live /\ errors \subseteq ErrorKinds /\ Class(Top.at) = "plain"
  BY PlainPoints DEF IInv, Live
<1>2. ASSUME NEW e \in SUBSET ErrorKinds, Fail(e)
      PROVE  Good
  BY <1>1, <1>2, ReturnGood, Outcomes DEF Fail, Keep
<1>3. ASSUME NEW p \in further, Eval(Goto(p)), UNCHANGED <<errors, depth, maps>>
      PROVE  Good
  BY <1>1, <1>3, PlainPoints, GotoPlain, EvalGood DEF Keep
<1>4. {} \in SUBSET ErrorKinds /\ {"OTHER"} \in SUBSET ErrorKinds
  BY Outcomes
<1> QED
  BY <1>2, <1>3, <1>4 DEF OperandReturned

\* A handler starts with a node.
LEMMA OpenGood ==
  ASSUME IInv, mode \in Live, NEW p \in Points, Class(p) = "plain", Open(p)
  PROVE  Good
<1>1. PlainFrame(Frame(p))
  <2>1. 0 \in 0..MaxElif
    BY MaxElifAssumption
  <2> QED
    BY <2>1, PlainOpened
<1>2. Pushes
  BY <1>1 DEF Open, Eval, Pushes, Keep
<1>3. mode' \in Live
  BY DEF Open, Eval, Live
<1>4. errors' \subseteq ErrorKinds
  BY DEF Open, IInv
<1> QED
  BY <1>2, <1>3, <1>4, Outcomes, QuietGood DEF Open, Eval, Calm

-----------------------------------------------------------------------------
(* One step for each action *)

\* The types of the state, for the actions that leave errors as they are.
LEMMA Facts ==
  ASSUME IInv
  PROVE  /\ errors \subseteq ErrorKinds /\ errors \subseteq errors
         /\ sig \in Signals /\ depth \in Nat
         /\ mode = "ret" => mode \in Live
         /\ mode = "eval" => mode \in Live
         /\ mode = "next" => mode \in Live
BY DEF IInv, Live

\* The steps of execute_nodes and execute_block_expr are good.
LEMMA NodesGood ==
  ASSUME IInv, Nodes
  PROVE  Good
<1>1. CASE NextNode
  <2>1. stack = stack /\ mode \in Live /\ Eval(stack) /\ Keep
    BY <1>1, Facts DEF NextNode, Keep
  <2> QED
    BY <2>1, <1>1, Facts, EvalGood DEF NextNode
<1>2. CASE ItemsDone
  <2>1. mode \in Live /\ mode' \in Live /\ Top.at = "items" /\ stack' = Goto("program")
        /\ Keep /\ Quiet /\ sig' \in Signals /\ errors' = errors /\ depth' = depth
    BY <1>2, Facts DEF ItemsDone, Keep
  <2>2. Moved(stack, stack') /\ Last(stack').at = "program"
    BY <2>1, TopReplaced, PlainPoints
  <2>3. Class(Last(stack').at) = Class(Top.at)
    BY <2>1, <2>2 DEF Class
  <2>4. Calm
    BY <2>1, <2>2, <2>3 DEF Calm, Stays, Retarget
  <2> QED
    BY <2>1, <2>4, Facts, QuietGood
<1>3. CASE NodeReturned
  <2>1. mode \in Live /\ mode' \in Live /\ stack' = stack
        /\ Keep /\ Quiet /\ sig' \in Signals /\ errors' = errors /\ depth' = depth
    BY <1>3, Facts DEF NodeReturned, Keep, Live
  <2> QED
    BY <2>1, Facts, QuietGood DEF Calm, Stays
<1>4. CASE ProgramEnds
  <2>1. mode \in Live /\ mode' = "halt" /\ mode' \notin Live /\ stack' = Pop
        /\ Keep /\ Quiet /\ sig' = sig /\ depth' = depth
        /\ errors' = errors \cup OutsideError(sig) /\ Top.at \in {"items", "program"}
    BY <1>4, Facts DEF ProgramEnds, Keep, Live
  <2>2. Leaves
    BY <2>1 DEF Leaves, Class
  <2>3. Typed
    BY <2>1, Facts, Outcomes DEF Typed, Modes, Quiet
  <2>4. Stops
    BY <2>1, Facts DEF Stops, Quiet
  <2> QED
    BY <2>1, <2>2, <2>3, <2>4, CalmGood DEF Calm, Quiet
<1>5. CASE ExecBlock
  BY <1>5, Facts, EnterGood DEF ExecBlock
<1>6. CASE BlockDone
  <2>1. mode \in Live /\ Top.at = "block" /\ Class(Top.at) = "scope"
        /\ errors' = errors /\ depth' = depth
    BY <1>6, Facts DEF BlockDone, Class
  <2>2. CASE Return("NONE") /\ (maps' = maps - 1 \/ (maps' = maps /\ errors # {}))
    <3>1. LeavesScope
      BY <2>1, <2>2 DEF Return, LeavesScope
    <3>2. mode' \in Live /\ Quiet /\ sig' \in Signals
      BY <2>2, Outcomes DEF Return, Live
    <3> QED
      BY <2>1, <3>1, <3>2, Facts, QuietGood DEF Calm
  <2>3. CASE Eval(Goto("blockret")) /\ maps' = maps
    <3>1. Moved(stack, Goto("blockret")) /\ Last(Goto("blockret")).at = "blockret"
      BY <2>1, TopReplaced, PlainPoints
    <3>2. Retarget(Goto("blockret"))
      BY <2>1, <3>1 DEF Retarget, Class
    <3> QED
      BY <2>1, <2>3, <3>2, Facts, EvalGood DEF Keep
  <2> QED
    BY <1>6, <2>2, <2>3 DEF BlockDone
<1>7. CASE BlockStopped \/ BlockRetReturned
  <2>1. mode \in Live /\ Class(Top.at) = "scope" /\ Return(sig)
        /\ errors' = errors /\ depth' = depth
    BY <1>7, Facts DEF BlockStopped, BlockRetReturned, Returned, Class
  <2>2. maps' = maps - 1 \/ (maps' = maps /\ errors # {})
    BY <1>7 DEF BlockStopped, BlockRetReturned
  <2>3. LeavesScope
    BY <2>1, <2>2 DEF Return, LeavesScope
  <2>4. mode' \in Live /\ Quiet /\ sig' \in Signals
    BY <2>1, Facts DEF Return, Live
  <2> QED
    BY <2>1, <2>3, <2>4, Facts, QuietGood DEF Calm
<1> QED
  BY <1>1, <1>2, <1>3, <1>4, <1>5, <1>6, <1>7 DEF Nodes

\* The leaves and the jumps.
LEMMA LeavesGood ==
  ASSUME IInv, ExecLeaf \/ ExecJump \/ ExecStmtAsExpr
  PROVE  Good
<1>1. CASE ExecLeaf \/ ExecJump
  <2>1. mode \in Live /\ mode' \in Live /\ stack' = stack /\ Quiet
        /\ sig' \in Signals /\ depth' = depth /\ maps' = maps
    BY <1>1, Facts, Outcomes DEF ExecLeaf, ExecJump, Answer, Live
  <2>2. errors' \subseteq ErrorKinds /\ errors \subseteq errors'
    BY <1>1, Facts, Outcomes DEF ExecLeaf, ExecJump, MayFail
  <2> QED
    BY <2>1, <2>2, QuietGood DEF Calm, Stays, Keep
<1>2. CASE ExecStmtAsExpr
  <2>1. mode \in Live /\ mode' = "abort" /\ mode' \notin Live /\ Quiet
        /\ stack' = stack /\ sig' = sig /\ errors' = errors /\ Keep
    BY <1>2, Facts DEF ExecStmtAsExpr, Keep, Live
  <2>2. Typed
    BY <2>1, Facts DEF Typed, Modes, Quiet
  <2>3. Stops
    BY <2>1, Facts DEF Stops, Quiet, Keep
  <2> QED
    BY <2>1, <2>2, <2>3, CalmGood DEF Calm, Stays, Quiet
<1> QED
  BY <1>1, <1>2

\* if and elif.
LEMMA BranchGood ==
  ASSUME IInv, mode \in Live, Class(Top.at) = "plain", NextBranch,
         depth' = depth, errors' \subseteq ErrorKinds, errors \subseteq errors'
  PROVE  Good
<1>1. "elifcond" \in Points /\ Class("elifcond") = "plain"
      /\ "branch" \in Points /\ Class("branch") = "plain"
  BY PlainPoints
<1>2. CASE /\ Top.left > 0
           /\ Eval([stack EXCEPT ![Len(stack)].at = "elifcond",
                                 ![Len(stack)].left = @ - 1])
           /\ UNCHANGED maps
  BY <1>1, <1>2, GotoPlain, EvalGood DEF Keep
<1>3. CASE EnterBlock(Goto("branch"))
  BY <1>1, <1>3, Facts, EnterAt
<1>4. CASE Return("NONE") /\ UNCHANGED maps
  BY <1>4, Outcomes, ReturnGood DEF Keep
<1> QED
  BY <1>2, <1>3, <1>4 DEF NextBranch

\* The steps of execute_if_expr are good.
LEMMA IfGood ==
  ASSUME IInv, ExecIf \/ IfCondReturned \/ ElifCondReturned \/ BranchReturned
  PROVE  Good
<1>1. CASE ExecIf
  <2> PICK n \in 0..MaxElif :
        Eval(Append(stack, [at |-> "ifcond", left |-> n, held |-> "NONE"]))
    BY <1>1 DEF ExecIf
  <2>1. PlainFrame([at |-> "ifcond", left |-> n, held |-> "NONE"])
    BY PlainPoints, PlainOpened
  <2>2. Pushes
    BY <1>1, <2>1 DEF ExecIf, Eval, Pushes, Keep
  <2>3. mode \in Live /\ mode' \in Live /\ Quiet /\ sig' \in Signals
        /\ errors' = errors /\ depth' = depth
    BY <1>1, Facts, Outcomes DEF ExecIf, Eval, Live
  <2> QED
    BY <2>2, <2>3, Facts, QuietGood DEF Calm
<1>2. CASE IfCondReturned \/ ElifCondReturned \/ BranchReturned
  <2>1. mode \in Live /\ Class(Top.at) = "plain" /\ depth' = depth
    BY <1>2, Facts, PlainPoints
       DEF IfCondReturned, ElifCondReturned, BranchReturned, Returned
  <2>2. errors' \subseteq ErrorKinds /\ errors \subseteq errors'
    BY <1>2, Facts, Outcomes DEF IfCondReturned, ElifCondReturned, BranchReturned
  <2>3. CASE (Return("NONE") \/ Return(sig)) /\ UNCHANGED maps
    BY <2>1, <2>2, <2>3, Facts, Outcomes, ReturnGood DEF Keep
  <2>4. CASE EnterBlock(Goto("branch"))
    BY <2>1, <2>2, <2>4, Facts, PlainPoints, EnterAt
  <2>5. CASE NextBranch
    BY <2>1, <2>2, <2>5, BranchGood
  <2> QED
    BY <1>2, <2>3, <2>4, <2>5 DEF IfCondReturned, ElifCondReturned, BranchReturned
<1> QED
  BY <1>1, <1>2

\* Loops.
LEMMA LoopHeadGood ==
  ASSUME IInv, mode \in Live, Class(Top.at) = "plain", NEW h \in Signals, LoopHead(h),
         depth' = depth, errors' \subseteq ErrorKinds, errors \subseteq errors'
  PROVE  Good
<1>1. CASE Eval(Hold("forcond", h)) /\ UNCHANGED maps
  BY <1>1, PlainPoints, GotoPlain, EvalGood DEF Keep
<1>2. CASE EnterBlock(Hold("forbody", h))
  BY <1>2, PlainPoints, EnterAt
<1> QED
  BY <1>1, <1>2 DEF LoopHead

\* The steps of execute_loop_stmt are good.
LEMMA ForGood ==
  ASSUME IInv, \/ ExecFor \/ ForInitReturned \/ ForCondReturned \/ ForBodyReturned
               \/ ForNextReturned
  PROVE  Good
<1>0. 0 \in 0..MaxElif
  BY MaxElifAssumption
<1>1. CASE ExecFor
  <2>1. mode \in Live /\ errors' = errors /\ depth' = depth
    BY <1>1, Facts DEF ExecFor
  <2>2. ASSUME NEW p \in {"forinit", "forcond"}, Eval(Append(stack, Frame(p))), UNCHANGED maps
        PROVE  Good
    <3>1. PlainFrame(Frame(p))
      BY <1>0, PlainPoints, PlainOpened
    <3>2. Pushes
      BY <2>1, <2>2, <3>1 DEF Eval, Pushes, Keep
    <3>3. mode' \in Live /\ Quiet /\ sig' \in Signals
      BY <2>2, Outcomes DEF Eval, Live
    <3> QED
      BY <2>1, <3>2, <3>3, Facts, QuietGood DEF Calm
  <2>3. CASE EnterBlock(Append(stack, Frame("forbody")))
    <3>1. PlainFrame(Frame("forbody"))
      BY <1>0, PlainPoints, PlainOpened
    <3> QED
      BY <2>1, <2>3, <3>1, Facts, EnterGood
  <2> QED
    BY <1>1, <2>2, <2>3 DEF ExecFor
<1>2. CASE ForInitReturned \/ ForNextReturned
  <2>1. mode \in Live /\ Class(Top.at) = "plain" /\ depth' = depth
    BY <1>2, Facts, PlainPoints DEF ForInitReturned, ForNextReturned, Returned
  <2>2. errors' \subseteq ErrorKinds /\ errors \subseteq errors'
    BY <1>2, Facts, Outcomes DEF ForInitReturned, ForNextReturned
  <2>3. Top.held \in Signals
    BY <2>1, LiveTop
  <2>4. CASE (Return(sig) \/ Return(Top.held)) /\ UNCHANGED maps
    BY <2>1, <2>2, <2>3, <2>4, Facts, ReturnGood DEF Keep
  <2>5. CASE LoopHead(sig) \/ LoopHead("NONE")
    BY <2>1, <2>2, <2>5, Facts, Outcomes, LoopHeadGood
  <2> QED
    BY <1>2, <2>4, <2>5 DEF ForInitReturned, ForNextReturned
<1>3. CASE ForCondReturned
  <2>1. mode \in Live /\ Class(Top.at) = "plain" /\ depth' = depth
    BY <1>3, Facts, PlainPoints DEF ForCondReturned, Returned
  <2>2. errors' \subseteq ErrorKinds /\ errors \subseteq errors'
    BY <1>3, Facts, Outcomes DEF ForCondReturned, MayFail
  <2>3. CASE Return(Top.held) /\ UNCHANGED maps
    BY <2>1, <2>2, <2>3, LiveTop, ReturnGood DEF Keep
  <2>4. CASE EnterBlock(Goto("forbody"))
    BY <2>1, <2>2, <2>4, Facts, PlainPoints, EnterAt
  <2> QED
    BY <1>3, <2>3, <2>4 DEF ForCondReturned
<1>4. CASE ForBodyReturned
  <2>1. mode \in Live /\ Class(Top.at) = "plain" /\ depth' = depth
    BY <1>4, Facts, PlainPoints DEF ForBodyReturned, Returned
  <2>2. errors' \subseteq ErrorKinds /\ errors \subseteq errors'
    BY <1>4, Facts DEF ForBodyReturned
  <2>3. CASE (Return(sig) \/ Return("NONE") \/ Return("RETURN")) /\ UNCHANGED maps
    BY <2>1, <2>2, <2>3, Facts, Outcomes, ReturnGood DEF Keep
  <2>4. CASE Eval(Hold("fornext", sig)) /\ UNCHANGED maps
    BY <2>1, <2>2, <2>4, Facts, PlainPoints, GotoPlain, EvalGood DEF Keep
  <2>5. CASE LoopHead("NONE")
    BY <2>1, <2>2, <2>5, Outcomes, LoopHeadGood
  <2> QED
    BY <1>4, <2>3, <2>4, <2>5 DEF ForBodyReturned
<1> QED
  BY <1>1, <1>2, <1>3, <1>4

\* Calls: the only steps that call a built-in or enter a function, and they
\* do so with no error recorded.
LEMMA NextArgGood ==
  ASSUME IInv, mode \in Live, errors = {}, NextArg,
         (Top.at = "callee" /\ depth < MaxDepth) \/ Top.at = "arg"
  PROVE  Good
<1>1. Class(Top.at) \in {"plain", "arg"}
  BY DEF Class
<1>2. CASE Eval(Goto("arg")) /\ UNCHANGED <<errors, depth, maps>>
  <2>1. Moved(stack, Goto("arg")) /\ Last(Goto("arg")).at = "arg"
    BY TopReplaced, PlainPoints
  <2>2. Retarget(Goto("arg"))
    <3>1. CASE Top.at = "arg"
      BY <2>1, <3>1 DEF Retarget
    <3>2. CASE Top.at = "callee" /\ depth < MaxDepth
      BY <2>1, <3>2 DEF Retarget
    <3> QED
      BY <3>1, <3>2
  <2> QED
    BY <1>2, <2>2, Facts, EvalGood DEF Keep
<1>3. CASE CallBuiltIn
  <2>1. CallsBuiltIn
    BY <1>1, <1>3 DEF CallBuiltIn, CallsBuiltIn
  <2>2. Typed
    BY <1>3, Facts, Outcomes DEF CallBuiltIn, Typed, MayFail, Live, Modes
  <2> QED
    BY <2>1, <2>2 DEF Good, Shape, Stops
<1>4. CASE CallCustom
  <2>1. Moved(stack, stack') /\ Last(stack').at = "body"
    BY <1>4, TopReplaced, PlainPoints DEF CallCustom, Eval
  <2>2. Begins
    BY <1>4, <2>1 DEF Begins, CallCustom, Eval, Quiet, CallPoints
  <2>3. Typed
    BY <1>4, Facts, Outcomes DEF CallCustom, Eval, Quiet, Typed, Live, Modes
  <2> QED
    BY <2>2, <2>3 DEF Good, Shape, Stops
<1>5. CASE CallFormat
  <2>1. Moved(stack, stack') /\ Last(stack').at = "format"
    BY <1>5, TopReplaced, PlainPoints DEF CallFormat
  <2>2. Begins
    BY <1>5, <2>1 DEF Begins, CallFormat, CallPoints
  <2>3. Typed
    BY <1>5, Facts, Outcomes DEF CallFormat, Typed, Live, Modes
  <2> QED
    BY <2>2, <2>3 DEF Good, Shape, Stops
<1> QED
  BY <1>2, <1>3, <1>4, <1>5 DEF NextArg

\* A running call ends.
LEMMA LeaveCallGood ==
  ASSUME IInv, mode = "ret", Top.at \in CallPoints, stack' = Pop,
         mode' = "ret", sig' \in Signals, io' \in BOOLEAN, builtins' = builtins,
         depth' = depth - 1, maps' = IF Top.at = "body" THEN maps - 1 ELSE maps,
         errors' \subseteq ErrorKinds, errors \subseteq errors',
         errors # {} => io' = FALSE
  PROVE  Good
<1>1. Typed
  BY DEF Typed, Live, Modes
<1>2. Calm
  BY DEF Calm, LeavesCall
<1>3. Stops
  BY Facts DEF Stops
<1> QED
  BY <1>1, <1>2, <1>3, CalmGood

\* The steps of execute_call_expr, exec_func and unwrap_args are good.
LEMMA CallsGood ==
  ASSUME IInv, Calls
  PROVE  Good
<1>1. ASSUME mode \in Live, Class(Top.at) \in {"plain", "arg"},
             NEW e \in SUBSET ErrorKinds, Fail(e)
      PROVE  Good
  BY <1>1, Facts, Outcomes, ReturnGood DEF Fail, Keep
<1>2. {} \in SUBSET ErrorKinds /\ {"OTHER"} \in SUBSET ErrorKinds
      /\ {"RECURSION_LIMIT_EXCEEDED"} \in SUBSET ErrorKinds
      /\ OutsideError(sig) \in SUBSET ErrorKinds
  BY Outcomes
<1>3. CASE CalleeReturned
  <2>1. mode \in Live /\ Top.at = "callee" /\ Class(Top.at) \in {"plain", "arg"}
    BY <1>3, Facts, PlainPoints DEF CalleeReturned, Returned
  <2>2. CASE errors = {} /\ ~ (depth >= MaxDepth) /\ NextArg
    <3>1. depth < MaxDepth
      BY <2>2, Facts, MaxDepthAssumption
    <3> QED
      BY <2>1, <2>2, <3>1, NextArgGood
  <2>3. \/ \E e \in {{}, {"OTHER"}, {"RECURSION_LIMIT_EXCEEDED"}} : Fail(e)
        \/ errors = {} /\ ~ (depth >= MaxDepth) /\ NextArg
    BY <1>3 DEF CalleeReturned
  <2> QED
    BY <2>1, <2>2, <2>3, <1>1, <1>2
<1>4. CASE CalleeNotAFunction
  <2>1. mode \in Live /\ Class(Top.at) = "plain" /\ errors = {}
    BY <1>4, Facts, PlainPoints DEF CalleeNotAFunction, Returned
  <2>2. errors' \subseteq ErrorKinds /\ errors \subseteq errors'
    BY <1>4, <2>1, Outcomes DEF CalleeNotAFunction
  <2>3. CASE Return("NONE")
    BY <1>4, <2>1, <2>2, <2>3, Outcomes, ReturnGood DEF CalleeNotAFunction, Keep
  <2>4. CASE Undefined
    <3>1. Stays
      BY <1>4, <2>4 DEF CalleeNotAFunction, Undefined, Stays, Keep
    <3>2. Typed
      BY <2>1, <2>2, <2>4, Facts DEF Undefined, Quiet, Typed, Modes
    <3> QED
      BY <2>1, <2>4, <3>1, <3>2, CalmGood DEF Calm, Undefined, Quiet, Stops
  <2> QED
    BY <1>4, <2>3, <2>4 DEF CalleeNotAFunction
<1>5. CASE ArgReturned
  <2>1. mode \in Live /\ Top.at = "arg" /\ Class(Top.at) \in {"plain", "arg"}
    BY <1>5, Facts DEF ArgReturned, Returned, Class
  <2>2. \/ \E e \in {OutsideError(sig), {"OTHER"}} : Fail(e)
        \/ errors = {} /\ NextArg
    BY <1>5 DEF ArgReturned
  <2> QED
    BY <2>1, <2>2, <1>1, <1>2, NextArgGood
<1>6. CASE BodyReturned
  <2>1. mode = "ret" /\ Top.at = "body" /\ Top.at \in CallPoints /\ Return("NONE")
        /\ depth' = depth - 1 /\ maps' = maps - 1
    BY <1>6 DEF BodyReturned, Returned, CallPoints
  <2>2. errors' \subseteq ErrorKinds /\ errors \subseteq errors'
    BY <1>6, Facts, Outcomes DEF BodyReturned, MayFail
  <2> QED
    BY <2>1, <2>2, Outcomes, LeaveCallGood DEF Return, Quiet
<1>7. CASE FormatReturned
  <2>1. mode = "ret" /\ mode \in Live /\ Top.at \in CallPoints /\ Top.at # "body"
        /\ maps' = maps
    BY <1>7, Facts DEF FormatReturned, Returned, CallPoints
  <2>2. errors' \subseteq ErrorKinds /\ errors \subseteq errors'
    BY <1>7, Facts, Outcomes DEF FormatReturned
  <2>3. CASE Eval(stack) /\ UNCHANGED <<errors, depth>>
    BY <2>1, <2>2, <2>3, EvalGood DEF Keep
  <2>4. CASE Return("NONE") /\ depth' = depth - 1
    BY <2>1, <2>2, <2>4, Outcomes, LeaveCallGood DEF Return, Quiet
  <2>5. CASE /\ errors = {} /\ stack' = Pop /\ mode' = "ret" /\ sig' = "NONE"
             /\ io' = TRUE /\ depth' = depth - 1 /\ builtins' = builtins
    BY <2>1, <2>2, <2>5, Outcomes, LeaveCallGood
  <2> QED
    BY <1>7, <2>3, <2>4, <2>5 DEF FormatReturned
<1> QED
  BY <1>3, <1>4, <1>5, <1>6, <1>7 DEF Calls

\* The handlers that wait for operands.
LEMMA OperandsGood ==
  ASSUME IInv, Operands
  PROVE  Good
<1> DEFINE U == UnexpectedError(sig)
           O == OutsideError(sig)
<1>1. U \in SUBSET ErrorKinds /\ O \in SUBSET ErrorKinds /\ {} \in SUBSET ErrorKinds
  BY Outcomes
<1>2. /\ {"rhs"} \in SUBSET OperandPoints /\ {"tgtidx"} \in SUBSET OperandPoints
      /\ {"idx"} \in SUBSET OperandPoints /\ {"elem"} \in SUBSET OperandPoints
      /\ {"field"} \in SUBSET OperandPoints /\ {"static"} \in SUBSET OperandPoints
      /\ {"enumval"} \in SUBSET OperandPoints /\ {} \in SUBSET OperandPoints
      /\ Targets \in SUBSET OperandPoints
  BY DEF OperandPoints, Targets
<1>3. \A p \in {"lhs", "rvalue", "operand", "incdec", "arr", "elem", "field", "base",
                "cast", "callee", "let", "retval", "static", "enumval"} :
        p \in Points /\ Class(p) = "plain"
  <2>1. \A p \in {"lhs", "rvalue", "operand", "incdec", "arr", "elem", "field", "base",
                  "cast", "let", "retval", "static", "enumval"} : p \in OperandPoints
    BY DEF OperandPoints
  <2> QED
    BY <2>1, PlainPoints
<1>4. CASE ExecExpr \/ ExecLet \/ ExecReturn \/ ExecItem
  <2>1. PICK p \in {"lhs", "rvalue", "operand", "incdec", "arr", "elem", "field", "base",
                    "cast", "callee", "let", "retval", "static", "enumval"} : Open(p)
    BY <1>4 DEF ExecExpr, ExecLet, ExecReturn, ExecItem
  <2>2. mode \in Live
    BY <1>4, Facts DEF ExecExpr, ExecLet, ExecReturn, ExecItem, Executing
  <2> QED
    BY <2>1, <2>2, <1>3, OpenGood
<1>5. CASE RetvalReturned
  <2>1. mode \in Live /\ Class(Top.at) = "plain" /\ Return("RETURN") /\ errors' = errors
        /\ Keep
    BY <1>5, <1>3, Facts DEF RetvalReturned, Returned, Keep
  <2> QED
    BY <2>1, Facts, Outcomes, ReturnGood
<1>6. CASE \/ LhsReturned \/ RhsReturned \/ RvalueReturned \/ OperandReady
           \/ TargetMemberReturned \/ ArrReturned \/ IdxReturned \/ ElemReturned
           \/ FieldReturned \/ BaseReturned \/ CastReturned \/ LetReturned
           \/ StaticReturned \/ EnumvalReturned
  <2>1. mode = "ret" /\ Top.at \in OperandPoints
    BY <1>6 DEF LhsReturned, RhsReturned, RvalueReturned, OperandReady,
       TargetMemberReturned, ArrReturned, IdxReturned, ElemReturned, FieldReturned,
       BaseReturned, CastReturned, LetReturned, StaticReturned, EnumvalReturned,
       Returned, OperandPoints
  <2>2. \E r \in {U, O, {}}, f \in {{"rhs"}, {"idx"}, {"elem"}, {"field"}, {"static"},
                                    {"enumval"}, {}, Targets} :
          OperandReturned(r, f)
    BY <1>6 DEF LhsReturned, RhsReturned, RvalueReturned, OperandReady,
       TargetMemberReturned, ArrReturned, IdxReturned, ElemReturned, FieldReturned,
       BaseReturned, CastReturned, LetReturned, StaticReturned, EnumvalReturned
  <2> QED
    BY <2>1, <2>2, <1>1, <1>2, OperandGood
<1>7. CASE IncDecReturned
  <2>1. mode = "ret" /\ Top.at \in OperandPoints /\ mode \in Live
    BY <1>7, Facts DEF IncDecReturned, Returned, OperandPoints
  <2>2. CASE OperandReturned(U, Targets)
    BY <2>1, <2>2, <1>1, <1>2, OperandGood
  <2>3. CASE /\ errors \cup U = {} /\ \E p \in Targets : Eval(Goto(p))
             /\ errors' = {"OTHER"} /\ UNCHANGED <<depth, maps>>
    <3>1. PICK p \in Targets : Eval(Goto(p))
      BY <2>3
    <3>2. Retarget(Goto(p))
      BY <2>1, <1>2, PlainPoints, GotoPlain
    <3>3. errors' \subseteq ErrorKinds /\ errors \subseteq errors'
      BY <2>3, Outcomes
    <3> QED
      BY <2>1, <2>3, <3>1, <3>2, <3>3, EvalGood DEF Keep
  <2> QED
    BY <1>7, <2>2, <2>3 DEF IncDecReturned
<1>8. CASE TargetIndexReturned
  <2>1. mode = "ret" /\ Top.at \in OperandPoints /\ mode \in Live /\ Class(Top.at) = "plain"
    <3>1. mode = "ret" /\ Top.at \in OperandPoints
      BY <1>8 DEF TargetIndexReturned, OperandPoints
    <3> QED
      BY <3>1, Facts, PlainPoints
  <2>2. ASSUME NEW f \in {{"tgtidx"}, {}}, OperandReturned(O, f)
        PROVE  Good
    BY <2>1, <2>2, <1>1, <1>2, OperandGood
  <2>3. ASSUME NEW e \in MayFail, errors' = errors \cup O \cup e, errors' # {},
               Return("NONE") \/ Undefined, UNCHANGED <<depth, maps>>
        PROVE  Good
    <3>1. errors' \subseteq ErrorKinds /\ errors \subseteq errors'
      BY <2>3, <1>1, Facts, Outcomes DEF MayFail
    <3>2. CASE Return("NONE")
      BY <2>1, <2>3, <3>1, <3>2, Outcomes, ReturnGood DEF Keep
    <3>3. CASE Undefined
      <4>1. Stays
        BY <2>3, <3>3 DEF Undefined, Stays, Keep
      <4>2. Typed
        BY <2>1, <3>1, <3>3, Facts DEF Undefined, Quiet, Typed, Modes
      <4>3. Stops
        BY <2>3, <3>3, Facts DEF Stops, Undefined, Quiet
      <4> QED
        BY <3>3, <4>1, <4>2, <4>3, CalmGood DEF Calm, Undefined, Quiet
    <3> QED
      BY <2>3, <3>2, <3>3
  <2>4. \/ \E f \in {{"tgtidx"}, {}} : OperandReturned(O, f)
        \/ \E e \in MayFail : /\ errors' = errors \cup O \cup e
                              /\ errors' # {}
                              /\ Return("NONE") \/ Undefined
                              /\ UNCHANGED <<depth, maps>>
    BY <1>8 DEF TargetIndexReturned
  <2> QED
    BY <2>2, <2>3, <2>4
<1> QED
  BY <1>4, <1>5, <1>6, <1>7, <1>8 DEF Operands

\* A step of the program keeps to a shape, the types, and stops on an error.
LEMMA StepGood ==
  ASSUME IInv, Nodes \/ Control \/ Calls \/ Operands
  PROVE  Good
BY NodesGood, LeavesGood, IfGood, ForGood, CallsGood, OperandsGood DEF Control

-----------------------------------------------------------------------------
(* The invariant and what follows from it *)

\* The invariant holds when execute_program begins.
LEMMA InitInv == Init => IInv
<1> SUFFICES ASSUME Init PROVE IInv
  OBVIOUS
<1> DEFINE f == [at |-> "items", left |-> 0, held |-> "NONE"]
<1>1. f \in Frames
  BY MaxElifAssumption, Outcomes DEF Frames, Points, NodesPoints
<1>2. stack = <<f>> /\ stack \in Seq(Frames) /\ Len(stack) = 1 /\ stack[1] = f
  BY <1>1 DEF Init
<1>3. At(stack, {"body", "format"}, 1) = {} /\ At(stack, {"block", "blockret", "body"}, 1) = {}
  BY <1>2 DEF At
<1>4. DepthOK /\ MapsOK /\ builtins \in 0..MaxBuiltIns
  <2>1. Cardinality(Running) = 0 /\ Cardinality(Scopes) = 0
    BY <1>2, <1>3, FS_EmptySet DEF Running, Scopes
  <2> QED
    BY <2>1, MaxDepthAssumption, MaxBuiltInsAssumption DEF Init, DepthOK, MapsOK
<1>5. Class(stack[1].at) = "list" /\ stack # <<>>
  BY <1>2 DEF Class
<1>6. ArgFine(stack)
  BY <1>2 DEF ArgFine
<1> QED
  BY <1>2, <1>4, <1>5, <1>6, Outcomes DEF Init, IInv, Modes

\* Every step of the evaluator preserves it.
LEMMA NextInv == IInv /\ [Next]_vars => IInv'
<1> SUFFICES ASSUME IInv, [Next]_vars PROVE IInv'
  OBVIOUS
<1>1. CASE Nodes \/ Control \/ Calls \/ Operands
  BY <1>1, StepGood, ShapeInv DEF Good
<1>2. CASE UNCHANGED vars
  BY <1>2 DEF vars, IInv, DepthOK, MapsOK, Running, Scopes, ArgFine, At
<1> QED
  BY <1>1, <1>2 DEF Next, Ended

\* It is an invariant of every instance of the evaluator.
LEMMA SpecInv == Spec => []IInv
BY InitInv, NextInv, PTL DEF Spec

\* The state is well typed in every instance: no counter passes below zero
\* (no name map is freed twice) and there is always a frame to return to.
THEOREM Typing == Spec => []TypeOK
<1>1. IInv => TypeOK
  BY DEF IInv, TypeOK, Live
<1> QED
  BY <1>1, SpecInv, PTL

\* The recursion counter of exec_func is exact and within its limit for
\* every program, whatever the limit and the depth of the C stack.
THEOREM RecursionBounded == Spec => []DepthOK
<1>1. IInv => DepthOK
  BY DEF IInv
<1> QED
  BY <1>1, SpecInv, PTL

\* Every scope owns one copy of the names while no error is recorded.
THEOREM MapsOwned == Spec => []MapsOK
<1>1. IInv => MapsOK
  BY DEF IInv
<1> QED
  BY <1>1, SpecInv, PTL

\* No built-in is called and no function entered once an error is recorded.
THEOREM NothingAfterError == Spec => FailStop
<1>1. IInv /\ [Next]_vars => [errors # {} => io' = FALSE /\ depth' <= depth]_vars
  <2> SUFFICES ASSUME IInv, Next
               PROVE  [errors # {} => io' = FALSE /\ depth' <= depth]_vars
    BY DEF vars
  <2>1. CASE Nodes \/ Control \/ Calls \/ Operands
    BY <2>1, StepGood DEF Good, Stops
  <2> QED
    BY <2>1 DEF Next, Ended
<1> QED
  BY <1>1, SpecInv, PTL DEF Spec, FailStop

-----------------------------------------------------------------------------
(* Jumps *)

\* A handler that reports a jump does so whatever errors there are already.
LEMMA Reported ==
  ASSUME NEW reported, reported # {}, NEW further, OperandReturned(reported, further)
  PROVE  errors' # {}
BY DEF OperandReturned, Fail

Leaps == {"CONTINUE", "BREAK", "RETURN"}

\* A place that wants a value has reported a break or continue.
Wanted == KindOf(Top.at) = "value" /\ (sig # "RETURN" => errors' # {})

\* What happens to a jump that arrives at a point.
LEMMA JumpStep ==
  ASSUME mode = "ret", sig \in Leaps, Nodes \/ Control \/ Calls \/ Operands
  PROVE  \/ ProgramEnds \/ BlockStopped \/ BlockRetReturned \/ BranchReturned
         \/ ForBodyReturned \/ BodyReturned
         \/ Wanted
         \/ Top.at \in DeafPoints
<1>1. sig # "RETURN" => OutsideError(sig) # {} /\ UnexpectedError(sig) # {}
  BY DEF Leaps, OutsideError, UnexpectedError
<1>2. mode \notin {"eval", "next"} /\ sig # "NONE"
  BY DEF Leaps
<1>3. CASE Nodes
  BY <1>2, <1>3 DEF Nodes, NextNode, ItemsDone, NodeReturned, ExecBlock, BlockDone
<1>4. CASE Control
  <2>1. CASE ForCondReturned
    BY <1>1, <2>1 DEF ForCondReturned, Returned, Wanted, KindOf, DeafPoints
  <2>2. CASE ForInitReturned \/ ForNextReturned
    BY <1>1, <2>2 DEF ForInitReturned, ForNextReturned, Returned, Wanted, KindOf, DeafPoints
  <2>3. CASE IfCondReturned \/ ElifCondReturned
    BY <2>3 DEF IfCondReturned, ElifCondReturned, Returned, DeafPoints
  <2> QED
    BY <1>2, <1>4, <2>1, <2>2, <2>3
       DEF Control, ExecLeaf, ExecJump, ExecStmtAsExpr, ExecIf, ExecFor
<1>5. CASE Calls
  <2>1. CASE ArgReturned
    BY <1>1, <2>1 DEF ArgReturned, Fail, Returned, Wanted, KindOf, DeafPoints
  <2>2. CASE FormatReturned
    <3>1. sig # "RETURN" => errors' # {}
      BY <1>1, <2>2 DEF FormatReturned
    <3> QED
      BY <2>2, <3>1 DEF FormatReturned, Returned, Wanted, KindOf, DeafPoints
  <2>3. CASE CalleeReturned \/ CalleeNotAFunction
    BY <2>3 DEF CalleeReturned, CalleeNotAFunction, Returned, DeafPoints
  <2> QED
    BY <1>5, <2>1, <2>2, <2>3 DEF Calls
<1>6. CASE Operands
  <2>1. ~ (ExecExpr \/ ExecLet \/ ExecReturn \/ ExecItem)
    BY <1>2 DEF ExecExpr, ExecLet, ExecReturn, ExecItem, Executing
  <2>2. CASE CastReturned \/ EnumvalReturned \/ RetvalReturned
    BY <2>2 DEF CastReturned, EnumvalReturned, RetvalReturned, Returned, DeafPoints
  <2>3. CASE IncDecReturned \/ TargetIndexReturned
    <3>1. sig # "RETURN" => errors' # {}
      BY <1>1, <2>3, Reported DEF IncDecReturned, TargetIndexReturned
    <3>2. Top.at \in {"incdec", "tgtarr", "tgtidx"}
      BY <2>3 DEF IncDecReturned, TargetIndexReturned, Returned
    <3> QED
      BY <3>1, <3>2 DEF Wanted, KindOf, DeafPoints
  <2>4. CASE \/ LhsReturned \/ RhsReturned \/ RvalueReturned \/ OperandReady
             \/ TargetMemberReturned \/ ArrReturned \/ IdxReturned \/ ElemReturned
             \/ FieldReturned \/ BaseReturned \/ LetReturned \/ StaticReturned
    <3>1. \E r \in {OutsideError(sig), UnexpectedError(sig)},
             f \in {{"rhs"}, {"idx"}, {"elem"}, {"field"}, {"static"}, {}, Targets} :
            OperandReturned(r, f)
      BY <2>4 DEF LhsReturned, RhsReturned, RvalueReturned, OperandReady,
         TargetMemberReturned, ArrReturned, IdxReturned, ElemReturned, FieldReturned,
         BaseReturned, LetReturned, StaticReturned
    <3>2. Top.at \in {"lhs", "rhs", "rvalue", "operand", "tgtbase", "arr", "idx", "elem",
                      "field", "base", "let", "static"}
      BY <2>4 DEF LhsReturned, RhsReturned, RvalueReturned, OperandReady,
         TargetMemberReturned, ArrReturned, IdxReturned, ElemReturned, FieldReturned,
         BaseReturned, LetReturned, StaticReturned, Returned
    <3> QED
      BY <1>1, <3>1, <3>2, Reported DEF Wanted, KindOf, DeafPoints
  <2> QED
    BY <1>6, <2>1, <2>2, <2>3, <2>4 DEF Operands
<1> QED
  BY <1>3, <1>4, <1>5, <1>6

\* A break or continue is never lost but at the six points that do not look:
\* everywhere else it goes on outward, ends at its loop, or is reported.
THEOREM JumpsNotLost == Spec => JumpsLand
<1>1. ASSUME Next, mode = "ret", sig \in {"BREAK", "CONTINUE"}
      PROVE  \/ sig' = sig \/ errors' # {} \/ Lands(sig) \/ Top.at \in DeafPoints
             \/ UNCHANGED vars
  <2>1. CASE Ended
    BY <2>1 DEF Ended
  <2>2. CASE Nodes \/ Control \/ Calls \/ Operands
    <3>1. CASE ProgramEnds \/ BlockStopped \/ BlockRetReturned \/ BranchReturned
      BY <3>1 DEF ProgramEnds, BlockStopped, BlockRetReturned, BranchReturned, Return
    <3>2. CASE ForBodyReturned
      BY <1>1, <3>2 DEF ForBodyReturned, Returned, Lands
    <3>3. CASE BodyReturned
      BY <1>1, <3>3 DEF BodyReturned, OutsideError
    <3>4. CASE Wanted
      BY <1>1, <3>4 DEF Wanted
    <3> QED
      BY <1>1, <2>2, <3>1, <3>2, <3>3, <3>4, JumpStep DEF Leaps
  <2> QED
    BY <1>1, <2>1, <2>2 DEF Next
<1>2. [Next]_vars =>
        [(mode = "ret" /\ sig \in {"BREAK", "CONTINUE"}) =>
           \/ sig' = sig \/ errors' # {} \/ Lands(sig)
           \/ Top.at \in DeafPoints]_vars
  BY <1>1
<1> QED
  BY <1>2, PTL DEF Spec, JumpsLand

\* The nest of constructs on a stack of frames.
Nest(s) == [i \in 1..Len(s) |-> KindOf(s[i].at)]

\* A stack and its nest have the same length.
LEMMA NestFacts ==
  ASSUME NEW s \in Seq(Frames)
  PROVE  /\ Len(s) \in Nat /\ Len(Nest(s)) = Len(s)
         /\ \A i \in 1..Len(s) : Nest(s)[i] = KindOf(s[i].at)
<1> DEFINE K == {KindOf(s[i].at) : i \in 1..Len(s)}
<1>1. Len(s) \in Nat
  BY LenProperties
<1>2. Nest(s) \in [1..Len(s) -> K]
  BY DEF Nest
<1>3. Nest(s) \in Seq(K)
  BY <1>1, <1>2, SeqDef
<1>4. Len(Nest(s)) \in Nat /\ 1..Len(Nest(s)) = 1..Len(s)
  BY <1>2, <1>3, LenProperties
<1>5. Len(Nest(s)) = Len(s)
  BY <1>1, <1>4
<1> QED
  BY <1>1, <1>5 DEF Nest

\* t differs from s in its last frame, or lacks it, or has more.
Kept(s, t) == /\ t \in Seq(Frames) /\ Len(t) >= Len(s) - 1
              /\ \A i \in 1..Len(s) - 1 : t[i] = s[i]

\* What a moved stack keeps, and a frame pushed on it.
LEMMA KeptPush ==
  ASSUME NEW s \in Seq(Frames), Len(s) \in Nat \ {0},
         NEW t \in Seq(Frames), Len(t) >= Len(s), \A i \in 1..Len(s) - 1 : t[i] = s[i],
         NEW f \in Frames
  PROVE  Kept(s, Append(t, f)) /\ Len(Append(t, f)) = Len(t) + 1
<1>1. /\ Append(t, f) \in Seq(Frames) /\ Len(Append(t, f)) = Len(t) + 1
      /\ Len(t) \in Nat /\ \A i \in 1..Len(t) : Append(t, f)[i] = t[i]
  BY PushCount, LenProperties
<1>2. \A i \in 1..Len(s) - 1 : i \in 1..Len(t)
  BY <1>1
<1> QED
  BY <1>1, <1>2 DEF Kept

\* Every step leaves all but the last frame as they are, and with no call
\* beginning there is no body in the stack that was not there.
LEMMA StepKeeps ==
  ASSUME IInv, Typed, Shape
  PROVE  /\ Kept(stack, stack')
         /\ depth' <= depth =>
              \A i \in 1..Len(stack') :
                stack'[i].at = "body" => i \in 1..Len(stack) /\ stack[i].at = "body"
<1>1. /\ stack \in Seq(Frames) /\ stack # <<>> /\ Len(stack) \in Nat \ {0}
      /\ Top = stack[Len(stack)] /\ depth \in Nat
  BY LiveTop DEF IInv, Typed, Last
<1> DEFINE Bodies(s) == \A i \in 1..Len(s) :
                          s[i].at = "body" => i \in 1..Len(stack) /\ stack[i].at = "body"
<1>2. ASSUME stack' = stack
      PROVE  Kept(stack, stack') /\ Bodies(stack')
  BY <1>1, <1>2 DEF Kept
<1>3. ASSUME NEW t, Moved(stack, t)
      PROVE  /\ Kept(stack, t) /\ t \in Seq(Frames) /\ Len(t) = Len(stack)
             /\ (Last(t).at = "body" => Top.at = "body") => Bodies(t)
  <2>1. /\ t \in Seq(Frames) /\ Len(t) = Len(stack)
        /\ \A i \in 1..Len(stack) - 1 : t[i] = stack[i]
    BY <1>3 DEF Moved
  <2>2. Kept(stack, t)
    BY <1>1, <2>1 DEF Kept
  <2>3. ASSUME Last(t).at = "body" => Top.at = "body", NEW i \in 1..Len(t), t[i].at = "body"
        PROVE  i \in 1..Len(stack) /\ stack[i].at = "body"
    <3>1. CASE i = Len(stack)
      BY <1>1, <2>1, <2>3, <3>1 DEF Last
    <3>2. CASE i # Len(stack)
      <4>1. i \in 1..Len(stack) - 1
        BY <1>1, <2>1, <3>2
      <4> QED
        BY <2>1, <2>3, <4>1
    <3> QED
      BY <3>1, <3>2
  <2> QED
    BY <2>1, <2>2, <2>3
<1>4. ASSUME NEW t \in Seq(Frames), Len(t) >= Len(stack), Bodies(t),
             \A i \in 1..Len(stack) - 1 : t[i] = stack[i],
             NEW f \in Frames, f.at # "body"
      PROVE  Kept(stack, Append(t, f)) /\ Bodies(Append(t, f))
  <2>1. Kept(stack, Append(t, f)) /\ Len(Append(t, f)) = Len(t) + 1
    BY <1>1, <1>4, KeptPush
  <2>2. /\ Len(t) \in Nat /\ \A i \in 1..Len(t) : Append(t, f)[i] = t[i]
        /\ Append(t, f)[Len(t) + 1] = f
    BY AppendProperties, LenProperties
  <2>3. Bodies(Append(t, f))
    <3> TAKE i \in 1..Len(Append(t, f))
    <3>1. CASE i = Len(t) + 1
      BY <1>4, <2>2, <3>1
    <3>2. CASE i # Len(t) + 1
      <4>1. i \in 1..Len(t)
        BY <2>1, <2>2, <3>2
      <4> QED
        BY <1>4, <2>2, <4>1
    <3> QED
      BY <3>1, <3>2
  <2> QED
    BY <2>1, <2>3
<1>5. ASSUME NEW f, PlainFrame(f)
      PROVE  /\ f \in Frames /\ f.at # "body"
             /\ Kept(stack, Append(stack, f)) /\ Bodies(Append(stack, f))
             /\ Append(stack, f) \in Seq(Frames)
             /\ Len(Append(stack, f)) = Len(stack) + 1
             /\ \A i \in 1..Len(stack) - 1 : Append(stack, f)[i] = stack[i]
  <2>1. f \in Frames /\ f.at # "body"
    BY <1>5 DEF PlainFrame, Class
  <2>2. Kept(stack, Append(stack, f)) /\ Len(Append(stack, f)) = Len(stack) + 1
    BY <1>1, <2>1, KeptPush
  <2>3. Kept(stack, Append(stack, f)) /\ Bodies(Append(stack, f))
    BY <1>1, <1>4, <2>1
  <2> QED
    BY <2>1, <2>2, <2>3 DEF Kept
<1>6. ASSUME stack' = Pop
      PROVE  Kept(stack, stack') /\ Bodies(stack')
  <2>1. /\ Pop \in Seq(Frames) /\ Len(Pop) = Len(stack) - 1
        /\ \A i \in 1..Len(Pop) : Pop[i] = stack[i]
    BY <1>1, PopCount DEF Pop
  <2>2. \A i \in 1..Len(Pop) : i \in 1..Len(stack)
    BY <1>1, <2>1
  <2> QED
    BY <1>1, <1>6, <2>1, <2>2 DEF Kept
<1> HIDE DEF Bodies
<1>7. CASE Stays
  <2>1. CASE Retarget(stack')
    <3>1. Last(stack').at = "body" => Top.at = "body"
      BY <2>1 DEF Retarget, Class
    <3> QED
      BY <1>3, <2>1, <3>1 DEF Retarget, Bodies
  <2> QED
    BY <1>2, <1>7, <2>1 DEF Stays, Bodies
<1>8. CASE Pushes
  BY <1>5, <1>8 DEF Pushes, Bodies
<1>9. CASE Enters
  <2>1. Frame("block") \in Frames /\ Frame("block").at # "body"
    BY MaxElifAssumption DEF Frame, Frames, Points, NodesPoints, Signals
  <2> PICK t : /\ \/ t = stack
                  \/ Moved(stack, t) /\ Class(Last(t).at) = Class(Top.at)
                  \/ \E f : PlainFrame(f) /\ t = Append(stack, f)
               /\ stack' = Append(t, Frame("block"))
    BY <1>9 DEF Enters
  <2>2. t \in Seq(Frames) /\ Len(t) >= Len(stack) /\ Bodies(t)
        /\ \A i \in 1..Len(stack) - 1 : t[i] = stack[i]
    <3>1. CASE t = stack
      BY <1>1, <3>1 DEF Bodies
    <3>2. CASE Moved(stack, t) /\ Class(Last(t).at) = Class(Top.at)
      <4>1. Last(t).at = "body" => Top.at = "body"
        BY <3>2 DEF Class
      <4> QED
        BY <1>1, <1>3, <3>2, <4>1 DEF Kept
    <3>3. CASE \E f : PlainFrame(f) /\ t = Append(stack, f)
      BY <1>1, <1>5, <3>3
    <3> QED
      BY <3>1, <3>2, <3>3
  <2> QED
    BY <1>4, <2>1, <2>2 DEF Bodies
<1>10. CASE Leaves \/ LeavesScope \/ LeavesCall \/ CallsBuiltIn
  BY <1>6, <1>10 DEF Leaves, LeavesScope, LeavesCall, CallsBuiltIn, Bodies
<1>11. CASE Begins
  <2>1. ~ (depth' <= depth)
    BY <1>1, <1>11 DEF Begins
  <2> QED
    BY <1>3, <1>11, <2>1 DEF Begins
<1> QED
  BY <1>7, <1>8, <1>9, <1>10, <1>11 DEF Shape, Calm

\* The three ways a step changes the nest.
LEMMA NestStep ==
  ASSUME IInv, mode \in Live, Kept(stack, stack')
  PROVE  /\ Jumps!Inside
         /\ Jumps!Innermost = KindOf(Top.at)
         /\ stack' = Pop => Jumps!Ends
         /\ Len(stack') >= Len(stack) => Len(Nest(stack')) >= Len(Nest(stack))
         /\ stack' = stack => Nest(stack') = Nest(stack)
<1>1. /\ stack \in Seq(Frames) /\ stack' \in Seq(Frames) /\ Len(stack) \in Nat \ {0}
      /\ Len(stack') >= Len(stack) - 1
      /\ \A i \in 1..Len(stack) - 1 : stack'[i] = stack[i]
      /\ Top = stack[Len(stack)]
  BY LiveTop DEF IInv, Kept, Last
<1>2. /\ Len(stack') \in Nat
      /\ Len(Nest(stack)) = Len(stack) /\ Len(Nest(stack')) = Len(stack')
      /\ \A i \in 1..Len(stack) : Nest(stack)[i] = KindOf(stack[i].at)
      /\ \A i \in 1..Len(stack') : Nest(stack')[i] = KindOf(stack'[i].at)
  BY <1>1, NestFacts
<1>3. \A i \in 1..Len(stack) - 1 : Nest(stack')[i] = Nest(stack)[i]
  <2> TAKE i \in 1..Len(stack) - 1
  <2>1. i \in 1..Len(stack) /\ i \in 1..Len(stack')
    BY <1>1, <1>2
  <2> QED
    BY <1>1, <1>2, <2>1
<1>4. Jumps!Inside
  <2>1. /\ Len(Nest(stack')) >= Len(Nest(stack)) - 1
        /\ \A i \in 1..Len(Nest(stack)) - 1 : Nest(stack')[i] = Nest(stack)[i]
    BY <1>1, <1>2, <1>3
  <2> QED
    BY <2>1 DEF Jumps!Inside, Nest
<1>5. Jumps!Innermost = KindOf(Top.at)
  <2>1. Nest(stack)[Len(Nest(stack))] = KindOf(Top.at)
    BY <1>1, <1>2
  <2> QED
    BY <2>1 DEF Jumps!Innermost, Nest
<1>6. ASSUME stack' = Pop
      PROVE  Jumps!Ends
  <2> DEFINE n == Len(stack) - 1
             o == SubSeq(Nest(stack), 1, Len(Nest(stack)) - 1)
             K == {KindOf(stack[i].at) : i \in 1..Len(stack)}
  <2>1. Len(stack') = n /\ n \in Nat
    BY <1>1, <1>6, PopCount DEF Pop
  <2>2. \A i \in 1..n : Nest(stack)[i] \in K
    BY <1>1, <1>2
  <2>3. o = SubSeq(Nest(stack), 1, n)
    BY <1>2
  <2>4. o = [i \in 1..n |-> Nest(stack)[i]]
    <3>1. SubSeq(Nest(stack), 1, n) = [i \in 1..n - 1 + 1 |-> Nest(stack)[i + 1 - 1]]
      BY <2>1 DEF SubSeq
    <3>2. 1..n - 1 + 1 = 1..n /\ \A i \in 1..n : i + 1 - 1 = i
      BY <2>1
    <3> QED
      BY <2>3, <3>1, <3>2
  <2>5. Nest(stack') = [i \in 1..n |-> KindOf(stack'[i].at)]
    BY <2>1 DEF Nest
  <2>6. \A i \in 1..n : Nest(stack)[i] = KindOf(stack'[i].at)
    <3> TAKE i \in 1..n
    <3>1. i \in 1..Len(stack')
      BY <2>1
    <3> QED
      BY <1>2, <1>3, <3>1
  <2>7. Nest(stack') = o
    BY <2>4, <2>5, <2>6
  <2> QED
    BY <2>7 DEF Jumps!Ends, Jumps!Outer, Nest
<1> QED
  BY <1>2, <1>4, <1>5, <1>6

\* Where a jump begins: at a jump, where a return has its value, and where a
\* loop whose condition is false returns what it held.
LEMMA JumpBegins ==
  ASSUME Nodes \/ Control \/ Calls \/ Operands, errors = {},
         mode' = "ret", sig' # "NONE", mode = "ret" => sig = "NONE"
  PROVE  stack' = stack \/ (stack' = Pop /\ Top.at \in {"forcond", "retval"})
<1>1. OutsideError("NONE") = {}
  BY DEF OutsideError
<1>2. \A st : ~ Eval(st) /\ ~ EnterBlock(st)
  BY DEF Eval, EnterBlock
<1>3. ~ Return("NONE")
  BY DEF Return
<1>4. \A e : ~ Fail(e)
  BY <1>3 DEF Fail
<1>5. \A r, f : ~ OperandReturned(r, f)
  BY <1>2, <1>4 DEF OperandReturned
<1>6. ~ NextBranch /\ \A h : ~ LoopHead(h)
  BY <1>2, <1>3 DEF NextBranch, LoopHead
<1>7. ~ NextArg
  BY <1>2 DEF NextArg, CallBuiltIn, CallFormat, CallCustom
<1>8. \A p : ~ Open(p)
  BY <1>2 DEF Open
<1>9. CASE Nodes
  BY <1>2, <1>3, <1>9 DEF Nodes, NextNode, ItemsDone, NodeReturned, ProgramEnds, ExecBlock,
     BlockDone, BlockStopped, BlockRetReturned, Returned, Return
<1>10. CASE Control
  <2>1. CASE ExecLeaf \/ ExecJump \/ ExecStmtAsExpr \/ ExecIf \/ ExecFor
    BY <1>2, <2>1 DEF ExecLeaf, ExecJump, ExecStmtAsExpr, ExecIf, ExecFor, Answer
  <2>2. CASE IfCondReturned \/ ElifCondReturned
    BY <1>2, <1>3, <1>6, <2>2 DEF IfCondReturned, ElifCondReturned
  <2>3. CASE BranchReturned
    BY <1>3, <2>3 DEF BranchReturned, Returned
  <2>4. CASE ForInitReturned \/ ForNextReturned
    <3>1. sig = "NONE" /\ errors' = {}
      BY <1>1, <2>4 DEF ForInitReturned, ForNextReturned, Returned
    <3> QED
      BY <1>6, <2>4, <3>1 DEF ForInitReturned, ForNextReturned
  <2>5. CASE ForCondReturned
    BY <1>2, <2>5 DEF ForCondReturned, Returned, Return
  <2>6. CASE ForBodyReturned
    BY <1>2, <1>6, <2>6 DEF ForBodyReturned, Returned
  <2> QED
    BY <1>10, <2>1, <2>2, <2>3, <2>4, <2>5, <2>6 DEF Control
<1>11. CASE Calls
  <2>1. ~ (CalleeReturned \/ ArgReturned)
    BY <1>4, <1>7 DEF CalleeReturned, ArgReturned
  <2>2. ~ CalleeNotAFunction
    BY <1>3 DEF CalleeNotAFunction, Returned, Undefined
  <2>3. ~ (BodyReturned \/ FormatReturned)
    BY <1>2, <1>3 DEF BodyReturned, FormatReturned
  <2> QED
    BY <1>11, <2>1, <2>2, <2>3 DEF Calls
<1>12. CASE Operands
  <2>1. ~ (ExecExpr \/ ExecLet \/ ExecReturn \/ ExecItem)
    BY <1>8 DEF ExecExpr, ExecLet, ExecReturn, ExecItem
  <2>2. ~ (\/ LhsReturned \/ RhsReturned \/ RvalueReturned \/ OperandReady
           \/ TargetMemberReturned \/ ArrReturned \/ IdxReturned \/ ElemReturned
           \/ FieldReturned \/ BaseReturned \/ CastReturned \/ LetReturned
           \/ StaticReturned \/ EnumvalReturned)
    BY <1>5 DEF LhsReturned, RhsReturned, RvalueReturned, OperandReady,
       TargetMemberReturned, ArrReturned, IdxReturned, ElemReturned, FieldReturned,
       BaseReturned, CastReturned, LetReturned, StaticReturned, EnumvalReturned
  <2>3. ~ (IncDecReturned \/ TargetIndexReturned)
    BY <1>2, <1>3, <1>5 DEF IncDecReturned, TargetIndexReturned, Undefined
  <2>4. CASE RetvalReturned
    BY <2>4 DEF RetvalReturned, Returned, Return
  <2> QED
    BY <1>12, <2>1, <2>2, <2>3, <2>4 DEF Operands
<1> QED
  BY <1>9, <1>10, <1>11, <1>12

\* What the abstract machine sees of a state.
JumpOf == IF mode = "ret" THEN sig ELSE "NONE"

\* Every step of the evaluator is one of CimaJumps.
LEMMA JumpsNext ==
  ASSUME IInv, Nodes \/ Control \/ Calls \/ Operands
  PROVE  Jumps!Next
<1>1. Typed /\ Shape /\ Stops /\ mode \in Live
  BY StepGood DEF Good, Typed
<1>2. /\ ~ (mode \in {"halt", "abort", "undef"})
      /\ mode' \in {"halt", "abort", "undef"} <=> mode' \notin Live
      /\ errors # {} => errors' # {}
      /\ sig \in Signals /\ sig' \in Signals
  BY <1>1, Facts DEF Typed, Live, Modes
<1>3. Kept(stack, stack')
  BY <1>1, StepKeeps
<1>4. /\ Jumps!Inside /\ Jumps!Innermost = KindOf(Top.at)
      /\ stack' = Pop => Jumps!Ends
      /\ Len(stack') >= Len(stack) => Len(Nest(stack')) >= Len(Nest(stack))
      /\ stack' = stack => Nest(stack') = Nest(stack)
  BY <1>1, <1>3, NestStep
<1> HIDE DEF JumpOf
<1>5. CASE errors # {} /\ mode' \in Live
  <2>1. depth' <= depth
    BY <1>1, <1>5 DEF Stops
  <2>2. \A i \in 1..Len(stack') :
          stack'[i].at = "body" => i \in 1..Len(stack) /\ stack[i].at = "body"
    BY <1>1, <2>1, StepKeeps
  <2>3. \A i \in 1..Len(Nest(stack')) :
          Nest(stack')[i] = "call" => i <= Len(Nest(stack)) /\ Nest(stack)[i] = "call"
    <3>1. stack \in Seq(Frames) /\ stack' \in Seq(Frames)
      BY <1>3 DEF IInv, Kept
    <3>2. \A p : KindOf(p) = "call" <=> p = "body"
      BY DEF KindOf, DeafPoints
    <3> QED
      BY <2>2, <3>1, <3>2, NestFacts
  <2>4. Jumps!Unwind
    BY <1>2, <1>4, <1>5, <2>3 DEF Jumps!Unwind, Nest
  <2> QED
    BY <2>4 DEF Jumps!Next
<1>6. CASE errors # {} /\ mode' \notin Live
  BY <1>2, <1>6, SMT DEF Jumps!Next, Jumps!End, Live
<1>7. CASE errors = {} /\ JumpOf = "NONE" /\ mode' \in Live
  <2>1. JumpOf' \in Leaps =>
          Nest(stack') = Nest(stack) \/ (Jumps!Ends /\ KindOf(Top.at) \in {"value", "deaf"})
    <3> SUFFICES ASSUME JumpOf' \in Leaps
                 PROVE  Nest(stack') = Nest(stack)
                        \/ (Jumps!Ends /\ KindOf(Top.at) \in {"value", "deaf"})
      OBVIOUS
    <3>1. mode' = "ret" /\ sig' # "NONE" /\ (mode = "ret" => sig = "NONE")
      BY <1>7 DEF JumpOf, Leaps
    <3>2. KindOf("forcond") = "value" /\ KindOf("retval") = "deaf"
      BY DEF KindOf, DeafPoints
    <3> QED
      BY <1>4, <1>7, <3>1, <3>2, JumpBegins
  <2>2. Jumps!Work
    BY <1>2, <1>4, <1>7, <2>1 DEF Jumps!Work, Jumps!Runs, Jumps!Leaps, JumpOf, Leaps, Nest
  <2> QED
    BY <2>2 DEF Jumps!Next
<1>8. CASE errors = {} /\ JumpOf = "NONE" /\ mode' \notin Live
  BY <1>2, <1>8 DEF Jumps!Next, Jumps!End, JumpOf, Live
<1>9. CASE errors = {} /\ JumpOf # "NONE"
  <2>1. mode = "ret" /\ sig \in Leaps /\ JumpOf = sig
    BY <1>2, <1>9 DEF JumpOf, Leaps, Signals
  <2>2. CASE ProgramEnds
    <3>1. KindOf(Top.at) = "program" /\ mode' = "halt"
      BY <2>1, <2>2 DEF ProgramEnds, KindOf, DeafPoints
    <3>2. sig \in {"BREAK", "CONTINUE"} => errors' # {}
      BY <2>2 DEF ProgramEnds, OutsideError
    <3>3. Jumps!End
      BY <1>2, <1>4, <1>9, <2>1, <3>1, <3>2 DEF Jumps!End
    <3> QED
      BY <3>3 DEF Jumps!Next
  <2>3. CASE BlockStopped \/ BlockRetReturned \/ BranchReturned
    <3>1. KindOf(Top.at) = "pass" /\ Return(sig) /\ errors' = errors
      BY <2>3 DEF BlockStopped, BlockRetReturned, BranchReturned, Returned, KindOf,
         DeafPoints
    <3>2. stack' = Pop /\ mode' = "ret" /\ sig' = sig
      BY <3>1 DEF Return
    <3>3. Jumps!PassOn
      BY <1>2, <1>4, <1>9, <2>1, <3>1, <3>2 DEF Jumps!PassOn, Jumps!Runs
    <3> QED
      BY <3>3 DEF Jumps!Next
  <2>4. CASE ForBodyReturned
    <3>1. KindOf(Top.at) = "loop" /\ errors' = errors
      BY <2>4 DEF ForBodyReturned, Returned, KindOf, DeafPoints
    <3>2. CASE sig \in {"BREAK", "RETURN"}
      <4>1. stack' = Pop /\ mode' = "ret" /\ sig' = IF sig = "BREAK" THEN "NONE" ELSE sig
        BY <1>9, <2>4, <3>2 DEF ForBodyReturned, Return
      <4>2. Jumps!LeaveLoop
        BY <1>2, <1>4, <1>9, <2>1, <3>1, <3>2, <4>1 DEF Jumps!LeaveLoop, Jumps!Runs
      <4> QED
        BY <4>2 DEF Jumps!Next
    <3>3. CASE sig = "CONTINUE"
      <4>1. Eval(Hold("fornext", sig)) \/ LoopHead("NONE")
        BY <1>9, <2>4, <3>3 DEF ForBodyReturned
      <4>2. Len(stack') >= Len(stack) /\ mode' \in {"eval", "next"}
        <5>1. \A p \in {"fornext", "forcond", "forbody"}, h \in {sig, "NONE"} :
                Hold(p, h) \in Seq(Frames) /\ Len(Hold(p, h)) = Len(stack)
          <6>1. sig \in Signals /\ "NONE" \in Signals
            BY <1>2, Outcomes
          <6>2. /\ "fornext" \in Points /\ "forcond" \in Points /\ "forbody" \in Points
            BY PlainPoints
          <6>3. ASSUME NEW p \in Points, NEW h \in Signals
                PROVE  Hold(p, h) \in Seq(Frames) /\ Len(Hold(p, h)) = Len(stack)
            BY <1>1, TopReplaced DEF Moved
          <6> QED
            BY <6>1, <6>2, <6>3
        <5>2. Len(stack) \in Nat
          BY <1>1, LiveTop
        <5>3. CASE \E p \in {"fornext", "forcond", "forbody"}, h \in {sig, "NONE"} :
                     Eval(Hold(p, h))
          BY <5>1, <5>2, <5>3 DEF Eval
        <5>4. CASE EnterBlock(Hold("forbody", "NONE"))
          <6>1. stack' = Append(Hold("forbody", "NONE"), Frame("block")) /\ mode' = "next"
            BY <5>4 DEF EnterBlock
          <6>2. Frame("block") \in Frames
            BY MaxElifAssumption DEF Frame, Frames, Points, NodesPoints, Signals
          <6>3. Len(stack') = Len(stack) + 1
            BY <5>1, <6>1, <6>2, PushCount
          <6> QED
            BY <5>2, <6>1, <6>3
        <5> QED
          BY <4>1, <5>3, <5>4 DEF LoopHead
      <4>3. Len(Nest(stack')) >= Len(Nest(stack)) /\ mode' \in Live
        BY <1>4, <4>2 DEF Live
      <4>4. Jumps!LeaveLoop
        BY <1>2, <1>4, <1>9, <2>1, <3>1, <3>3, <4>2, <4>3
           DEF Jumps!LeaveLoop, Jumps!Runs, Nest
      <4> QED
        BY <4>4 DEF Jumps!Next
    <3> QED
      BY <2>1, <3>2, <3>3 DEF Leaps
  <2>5. CASE BodyReturned
    <3>1. KindOf(Top.at) = "call" /\ Return("NONE")
      BY <2>5 DEF BodyReturned, Returned, KindOf, DeafPoints
    <3>2. sig # "RETURN" => errors' # {}
      BY <2>1, <2>5 DEF BodyReturned, OutsideError, Leaps
    <3>3. stack' = Pop /\ mode' = "ret" /\ sig' = "NONE"
      BY <3>1 DEF Return
    <3>4. Jumps!LeaveCall
      BY <1>2, <1>4, <1>9, <2>1, <3>1, <3>2, <3>3 DEF Jumps!LeaveCall, Jumps!Runs, Leaps
    <3> QED
      BY <3>4 DEF Jumps!Next
  <2>6. CASE Wanted
    <3>1. CASE mode' \in Live
      <4>1. Jumps!WantValue
        BY <1>2, <1>4, <1>9, <2>1, <2>6, <3>1 DEF Jumps!WantValue, Jumps!Runs, Leaps, Wanted
      <4> QED
        BY <4>1 DEF Jumps!Next
    <3>2. CASE mode' \notin Live
      <4>1. mode' # "ret"
        BY <3>2 DEF Live
      <4>2. Jumps!End
        BY <1>2, <1>4, <1>9, <2>1, <2>6, <3>2, <4>1 DEF Jumps!End, Wanted
      <4> QED
        BY <4>2 DEF Jumps!Next
    <3> QED
      BY <3>1, <3>2
  <2>7. CASE Top.at \in DeafPoints
    <3>1. KindOf(Top.at) = "deaf"
      BY <2>7 DEF KindOf, DeafPoints
    <3>2. CASE mode' \in Live
      <4>1. Jumps!Overlook
        BY <1>2, <1>4, <1>9, <2>1, <3>1, <3>2 DEF Jumps!Overlook, Jumps!Runs, Leaps
      <4> QED
        BY <4>1 DEF Jumps!Next
    <3>3. CASE mode' \notin Live
      <4>1. mode' # "ret"
        BY <3>3 DEF Live
      <4>2. Jumps!End
        BY <1>2, <1>4, <1>9, <2>1, <3>1, <3>3, <4>1 DEF Jumps!End
      <4> QED
        BY <4>2 DEF Jumps!Next
    <3> QED
      BY <3>2, <3>3
  <2> QED
    BY <2>1, <2>2, <2>3, <2>4, <2>5, <2>6, <2>7, JumpStep
<1> QED
  BY <1>5, <1>6, <1>7, <1>8, <1>9

\* Every run of the evaluator is one of CimaJumps: whatever the program and
\* however its blocks, branches, loops and calls are nested on the C stack,
\* break, continue and return leave exactly what they are to leave, and once
\* an error is recorded no call begins.
THEOREM Implements == Spec => ImplementsJumps
<1>1. Init => Jumps!Init
  <2> SUFFICES ASSUME Init PROVE Jumps!Init
    OBVIOUS
  <2>1. Len(stack) = 1 /\ stack[1].at = "items"
    BY DEF Init
  <2>2. Nest(stack) = <<"program">>
    <3>1. KindOf("items") = "program"
      BY DEF KindOf, DeafPoints
    <3>2. Nest(stack) = [i \in 1..1 |-> "program"]
      BY <2>1, <3>1 DEF Nest
    <3> QED
      BY <3>2
  <2> QED
    BY <2>2 DEF Init, Jumps!Init, Nest
<1>2. IInv /\ [Next]_vars => [Jumps!Next]_(Jumps!vars)
  <2> SUFFICES ASSUME IInv, [Next]_vars PROVE [Jumps!Next]_(Jumps!vars)
    OBVIOUS
  <2>1. CASE Nodes \/ Control \/ Calls \/ Operands
    BY <2>1, JumpsNext
  <2>2. CASE UNCHANGED vars
    BY <2>2 DEF vars, Jumps!vars
  <2> QED
    BY <2>1, <2>2 DEF Next, Ended
<1> QED
  BY <1>1, <1>2, SpecInv, PTL DEF Spec, ImplementsJumps, Jumps!Spec
=============================================================================
