---------------------------- MODULE MCMacroArgs ----------------------------
(* Invocations of macros with up to two parameters and three arguments,   *)
(* whose bodies hold two list elements: enough for an et-cetera parameter *)
(* before and after a regular one, zero, one and two et-cetera arguments, *)
(* and a reference that follows a splice.                                 *)
EXTENDS MacroArgs

MCMaxParams == 2
MCMaxArgs == 3
MCMaxElems == 2
ListPositions == {"args", "stmt"}
AllPositions == {"args", "stmt", "struct"}
====
