----------------------------- MODULE MCCimaArgs -----------------------------
(* Instances of CimaArgs for TLC: functions with one and two parameters      *)
(* before a variadic one, one without, and one that names two alike.         *)
EXTENDS CimaArgs

SomeFuncs ==
  {[params |-> <<"a", "r">>, variadic |-> TRUE],
   [params |-> <<"a", "b", "r">>, variadic |-> TRUE],
   [params |-> <<"b", "a">>, variadic |-> FALSE],
   [params |-> <<"a", "a">>, variadic |-> FALSE]}
=============================================================================
