---------------------------- MODULE MCFirstPass ----------------------------
(* Files of up to three nodes, in every shape the grammar allows: enough  *)
(* for an item nested in another followed by a sibling, two functions     *)
(* competing for main, and a cfg-disabled container around a function.   *)
EXTENDS FirstPass

MCNames == {"main", "f"}
MCMaxNodes == 3
====
