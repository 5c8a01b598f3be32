------------------------- MODULE MCFunctionLinkage -------------------------
(* Every function of up to two parameters, each zero-sized or not, with   *)
(* every combination of export, link_name, body, naming, inline           *)
(* attributes and varargs the item maker lets through, in debug and       *)
(* release builds.                                                          *)
EXTENDS FunctionLinkage

MCMaxParams == 2
====
