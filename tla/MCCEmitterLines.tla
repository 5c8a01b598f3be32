-------------------------- MODULE MCCEmitterLines --------------------------
(* Two files, one of them without a path in the diagnostic context, three *)
(* span lines (same line, next line and a jump back all occur), three     *)
(* items in any order of functions and consts, up to three expressions   *)
(* per item and one local definition per function.                        *)
EXTENDS CEmitterLines

CONSTANTS fa, fb, out

MCFiles == {fa, fb}
MCKnownFiles == {fa}
MCMaxLine == 2
MCMaxItems == 3
MCMaxExprs == 3
MCMaxLocals == 1
====
