-------------------------------- MODULE MCLoom --------------------------------
(***************************************************************************)
(* Loom with a root that provides its state; below it, while that is not 2,*)
(* a memoised panel that may measure; below that, while the panel's state  *)
(* is not 0, a memoised view that reads the context and asks.  After the   *)
(* view comes a bar that is made anew for every value of the panel's state.*)
(***************************************************************************)
EXTENDS Loom

MCTypes == {"root", "panel", "view", "bar"}
MCParts == [t \in MCTypes |-> [v \in Values \cup {None} |->
    CASE t = "root" -> IF v = 2 THEN <<>> ELSE <<"panel">>
      [] t = "panel" -> (IF v = 0 THEN <<>> ELSE <<"view">>) \o <<"bar">>
      [] OTHER -> <<>>]]
MCStart == [t \in MCTypes |-> IF t \in Asking THEN None ELSE 0]
==============================================================================
