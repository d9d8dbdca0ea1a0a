----------------------------- MODULE MCCimaEval -----------------------------
(* The instance of CimaEval for TLC: programs of all constructs.            *)
EXTENDS CimaEval

AllKinds == Points
=============================================================================
