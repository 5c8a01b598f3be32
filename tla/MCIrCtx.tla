------------------------------ MODULE MCIrCtx ------------------------------
(* Two ids (each a cell or a plain id), three allocations, the builtins    *)
(* never and u8, and cell contents that reach each other by value,       *)
(* through aliases and enums, or not at all.                              *)
EXTENDS IrCtx

MCBuiltins == {"Never", "U8"}
MCMaxId == 2
MCCells == 1..MCMaxId

U8 == Builtin("U8")
MCItems ==
    [kind : {"StructLike"}, fields : SeqOf({U8, Never, ItemTy(1), ItemTy(2)}, 1)]
    \cup [kind : {"Closure"}, fields : {<<>>}]
    \cup [kind : {"Alias"}, ty : {Never, ItemTy(1), ItemTy(2)}]
    \cup [kind : {"Enum"}, ty : {U8, Void}]
    \cup [kind : {"Function", "Protocol"}]

MCInternTys == {U8, Pointer(U8, TRUE), Pointer(U8, FALSE), ItemTy(1)}

MCQueryTys ==
    {ItemTy(1), ItemTy(2), Array(ItemTy(1), 0), Array(ItemTy(2), 2),
     Tuple(<<U8, ItemTy(2)>>), Tuple(<<ItemTy(1), ItemTy(2)>>)}
====
