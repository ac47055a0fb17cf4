--------------------------- MODULE StdAlgorithms ---------------------------
(* std::max and std::min on integers.                                      *)
EXTENDS Integers

StdMax(a, b) == IF a >= b THEN a ELSE b
StdMin(a, b) == IF a <= b THEN a ELSE b
=============================================================================
