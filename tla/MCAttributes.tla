---------------------------- MODULE MCAttributes ----------------------------
(* Two cfg names, one value, and conditions that exercise every operator, *)
(* nesting, short-circuiting past an invalid operator, and a not(...)     *)
(* with two arguments; nodes carry up to two attribute items.              *)
EXTENDS Attributes

MCNames == {"a", "b"}
MCValues == {"v"}
MCCfgConds ==
    { Leaf("a", NoValue),
      Leaf("a", "v"),
      Node("not", <<Leaf("b", NoValue)>>),
      Node("all", <<Leaf("a", NoValue), Node("any", <<Leaf("b", "v"), Leaf("a", "v")>>)>>),
      Node("any", <<>>),
      Node("cfg", <<Node("all", <<>>)>>),
      Node("not", <<Leaf("a", NoValue), Leaf("b", NoValue)>>),
      Node("all", <<Leaf("b", NoValue), Node("bogus", <<Leaf("a", NoValue)>>)>>) }
MCMaxItems == 2
====
