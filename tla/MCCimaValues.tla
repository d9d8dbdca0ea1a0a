---------------------------- MODULE MCCimaValues ----------------------------
(* An instance of CimaValues for TLC: all operators.                         *)
EXTENDS CimaValues

AllOps == {"+", "-", "*", "/", "%", "^", "&&", "||", "&", "|", ">", "<", ">=", "<=", "==", "!=",
           "!", "u+", "u-"}
=============================================================================
