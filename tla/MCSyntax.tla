------------------------------- MODULE MCSyntax -------------------------------
(***************************************************************************)
(* Syntax on a file with two sides and one with a single side.             *)
(***************************************************************************)
EXTENDS Syntax

CONSTANTS left, right, lone

TwoFiles == {<<left, right>>, <<lone>>}
===============================================================================
