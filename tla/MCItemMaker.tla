---------------------------- MODULE MCItemMaker ----------------------------
(* Files of up to four nodes.  One name "a" for types, modules, protocols, *)
(* statics and their impl blocks, "b" for functions, so that a name holds  *)
(* a type and its impls; every syntax of a function or static that one of *)
(* the maker's checks tells apart.                                         *)
EXTENDS ItemMaker

Syn(ext, va, abi, known, body, typ, init, tr) ==
    [extern |-> ext, varargs |-> va, abi |-> abi, known |-> known,
     body |-> body, typ |-> typ, init |-> init, transparent |-> tr]

Plain == Syn(FALSE, FALSE, "none", FALSE, FALSE, FALSE, FALSE, FALSE)

FnSyns ==
    { Syn(FALSE, FALSE, "none", FALSE, TRUE, FALSE, FALSE, FALSE),   \* fn b() {}
      Syn(TRUE, FALSE, "none", FALSE, FALSE, FALSE, FALSE, FALSE),   \* extern fn b();
      Syn(FALSE, FALSE, "none", FALSE, FALSE, FALSE, FALSE, FALSE),  \* fn b();
      Syn(FALSE, TRUE, "none", FALSE, TRUE, FALSE, FALSE, FALSE),    \* fn b(...) {}
      Syn(TRUE, TRUE, "C", FALSE, FALSE, FALSE, FALSE, FALSE),       \* extern "C" fn b(...);
      Syn(TRUE, FALSE, "intrinsic", TRUE, FALSE, FALSE, FALSE, FALSE),
      Syn(TRUE, FALSE, "intrinsic", FALSE, FALSE, FALSE, FALSE, FALSE),
      Syn(TRUE, FALSE, "other", FALSE, FALSE, FALSE, FALSE, FALSE) }

StaticSyns ==
    { Syn(FALSE, FALSE, "none", FALSE, FALSE, TRUE, TRUE, FALSE),    \* static a: T = e;
      Syn(FALSE, FALSE, "none", FALSE, FALSE, FALSE, FALSE, FALSE),  \* static a;
      Syn(TRUE, FALSE, "none", FALSE, FALSE, TRUE, FALSE, FALSE),    \* extern static a: T;
      Syn(TRUE, FALSE, "none", FALSE, FALSE, TRUE, TRUE, FALSE) }    \* extern static a: T = e;

MCShapes ==
    [kind : {"mod", "enum", "impl", "protocol", "typedef", "macro", "const"},
     name : {"a"}, syn : {Plain}]
    \cup [kind : {"struct"}, name : {"a"},
          syn : {Plain, Syn(FALSE, FALSE, "none", FALSE, FALSE, FALSE, FALSE, TRUE)}]
    \cup [kind : {"static"}, name : {"a"}, syn : StaticSyns]
    \cup [kind : {"fn"}, name : {"b"}, syn : FnSyns]
    \cup [kind : {"generic"}, name : {"T"}, syn : {Plain}]
    \cup [kind : {"mixin"}, name : {"none"}, syn : {Plain}]
    \cup [kind : {"field"}, name : {"x"}, syn : {Plain}]
====
