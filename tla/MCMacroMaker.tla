--------------------------- MODULE MCMacroMaker ---------------------------
(* Model-checking instance of MacroMaker: three macros and one function,   *)
(* every kind assignment and every body of at most two references.  Two   *)
(* references per body give self-recursion, mutual recursion of two and   *)
(* of three macros, and repeated references.  The macros are             *)
(* interchangeable (every kind and body is enumerated for each), so the  *)
(* item orders keep them in one order and put the function at each       *)
(* position: before, between and after the macros it uses.               *)
EXTENDS MacroMaker

CONSTANTS m1, m2, m3, f1

MCMacros == {m1, m2, m3}
MCFns == {f1}
MCMaxRefs == 2
MCItemOrders == {<<f1, m1, m2, m3>>, <<m1, f1, m2, m3>>,
                 <<m1, m2, f1, m3>>, <<m1, m2, m3, f1>>}
=============================================================================
