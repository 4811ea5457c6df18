------------------------------- MODULE Numbers -------------------------------
(* The smaller and the larger of two numbers, and a subtraction that stops at *)
(* zero (Ord::min, Ord::max and saturating_sub).                              *)
EXTENDS Integers

Least(a, b) == IF a <= b THEN a ELSE b
Greatest(a, b) == IF a >= b THEN a ELSE b
Monus(a, b) == Greatest(a - b, 0)
=============================================================================
