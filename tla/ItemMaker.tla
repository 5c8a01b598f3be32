----------------------------- MODULE ItemMaker -----------------------------
(***************************************************************************)
(* The item maker of src/.../ast/maker.rs (AstItemMaker): make walks a    *)
(* scope's items group by group (make_item_group), recursing into         *)
(* modules, protocols and the impl blocks of a type, and fills each item  *)
(* cell through make_struct_like, make_enum, make_protocol, make_typedef,  *)
(* make_function and make_static_or_const.  make_impl sets the ambient    *)
(* placeholders that the functions of an impl block inherit and clears    *)
(* them afterwards.                                                        *)
(*                                                                         *)
(* The file is a tree of nodes 1..n in document order, node 0 the file's *)
(* scope; a node that opens a scope names it.  The maker's recursion is a *)
(* stack of tasks: make(scope), one item group, make_impl's body and its  *)
(* end, make_type and make_protocol.  An error returned with ? ends the   *)
(* walk; a panic ends it too.                                              *)
(***************************************************************************)
EXTENDS Naturals, Sequences, SequencesExt, FiniteSets

CONSTANTS
    Shapes,           \* the node shapes [kind, name, syn] a file is made of
    MaxNodes,         \* most nodes of the file
    ImplsWithoutType  \* a name may be given impl blocks and nothing else

(* Item kinds and what each has below it (the grammar of pass1's visitors). *)
ItemKinds == {"mod", "struct", "enum", "impl", "protocol", "fn", "static",
              "const", "typedef", "macro"}

Allowed(k) ==
    CASE k \in {"root", "mod"} -> ItemKinds
      [] k = "impl" -> {"fn", "mixin", "generic"}
      [] k = "protocol" -> {"fn", "generic"}
      [] k = "struct" -> {"field", "generic"}
      [] k \in {"fn", "static", "const", "typedef", "mixin"} -> {"generic"}
      [] OTHER -> {}

(* The items that own an item cell (a symbol made by the first pass).     *)
CellKinds == {"struct", "enum", "protocol", "fn", "static", "const",
              "typedef", "macro"}

KindOf(t, p) == IF p = 0 THEN "root" ELSE t[p].kind

RECURSIVE AncestorsOrSelf(_, _)
AncestorsOrSelf(t, i) ==
    IF i = 0 THEN {0} ELSE {i} \cup AncestorsOrSelf(t, t[i].parent)

(* The files one node larger than t: in document order a new node hangs  *)
(* below the last node or one of its ancestors.                           *)
Grow(t) ==
    UNION {{Append(t, [kind |-> x.kind, name |-> x.name, syn |-> x.syn, parent |-> p]) :
              x \in {y \in Shapes : y.kind \in Allowed(KindOf(t, p))}} :
           p \in AncestorsOrSelf(t, Len(t))}

Kids(t, s) == SelectSeq([j \in 1..Len(t) |-> j], LAMBDA j : t[j].parent = s)

(* Scope::add_item: a name holds one item besides any number of impl      *)
(* blocks; an impl block follows the type it extends, or its name holds  *)
(* impl blocks only.                                                       *)
SameName(t, i) == {j \in DOMAIN t : t[j].parent = t[i].parent /\ t[j].name = t[i].name}

WellFormed(t) ==
    \A i \in DOMAIN t :
        /\ t[i].kind \in Allowed(KindOf(t, t[i].parent))
        /\ t[i].kind \notin {"impl", "mixin"} =>
              \A j \in SameName(t, i) : j # i => t[j].kind = "impl"
        /\ t[i].kind = "impl" =>
              \/ \E j \in SameName(t, i) : j < i /\ t[j].kind \in {"struct", "enum"}
              \/ /\ \A j \in SameName(t, i) : t[j].kind = "impl"
                 /\ ImplsWithoutType \/ SameName(t, i) = {i}

RECURSIVE FilesOf(_)
FilesOf(n) == IF n = 0 THEN {<<>>} ELSE UNION {Grow(t) : t \in FilesOf(n - 1)}

VARIABLES
    file,       \* the source file
    tasks,      \* the maker's recursion, next task first
    ambient,    \* self.ambient_placeholders
    made,       \* the item cells assigned so far, with what they hold
    symbols,    \* self.symbols
    status      \* "running", "ok", or the error or panic the walk ended with

vars == <<file, tasks, ambient, made, symbols, status>>

-----------------------------------------------------------------------------
Task(op, n, g) == [op |-> op, node |-> n, group |-> g]
Cur == Head(tasks)
G == Cur.group
Running == status = "running" /\ tasks # <<>>

(* grouped_items: the scope's items by name, each group in document      *)
(* order, the groups in the order their names first appear.               *)
Firsts(s) == SelectSeq(Kids(file, s),
                LAMBDA j : \A i \in 1..j - 1 : file[i].parent = s => file[i].name # file[j].name)
GroupOf(j) == SelectSeq(Kids(file, file[j].parent), LAMBDA i : file[i].name = file[j].name)
Groups(s) == [k \in 1..Len(Firsts(s)) |-> GroupOf(Firsts(s)[k])]

OfKind(s, k) == SelectSeq(Kids(file, s), LAMBDA j : file[j].kind = k)

(* get_placeholders: the ambient placeholders, then the scope's own.     *)
Generics(s) == OfKind(s, "generic")
Placeholders(s) == ambient \o Generics(s)

(* ItemCell::assign: a second assignment panics.                           *)
Assign(n, it) ==
    IF n \in DOMAIN made
    THEN status' = "AssigningTheSameSymbolTwice" /\ UNCHANGED made
    ELSE made' = made @@ (n :> it) /\ UNCHANGED status

Item(kind, ph, assoc, mixins) == [kind |-> kind, ph |-> ph, assoc |-> assoc, mixins |-> mixins]

Fail(err) == status' = err /\ UNCHANGED <<tasks, ambient, made, symbols>>

Pop == tasks' = Tail(tasks)

Init ==
    /\ \E t \in UNION {FilesOf(n) : n \in 0..MaxNodes - 1} :
          /\ file \in Grow(t)
          /\ WellFormed(file)
    /\ tasks = <<Task("make", 0, <<>>)>>
    /\ ambient = <<>>
    /\ made = [n \in {} |-> Item("none", <<>>, <<>>, <<>>)]
    /\ symbols = <<>>
    /\ status = "running"
-----------------------------------------------------------------------------
(* make: one make_item_group per group of the scope, in order.             *)
Make ==
    /\ Running /\ Cur.op = "make"
    /\ tasks' = [k \in 1..Len(Groups(Cur.node)) |-> Task("group", 0, Groups(Cur.node)[k])]
                \o Tail(tasks)
    /\ UNCHANGED <<file, ambient, made, symbols, status>>

GroupIs(k) == Running /\ Cur.op = "group" /\ Len(G) = 1 /\ file[G[1]].kind = k

(* make_item_group, [Module]: self.make(module).                           *)
MakeModuleGroup ==
    /\ GroupIs("mod")
    /\ tasks' = <<Task("make", G[1], <<>>)>> \o Tail(tasks)
    /\ UNCHANGED <<file, ambient, made, symbols, status>>

(* make_item_group, [Impl]: NoFreeStandingImpl.                            *)
RejectFreeStandingImpl ==
    /\ GroupIs("impl")
    /\ Fail("NoFreeStandingImpl")
    /\ UNCHANGED file

(* make_item_group, [Type, rest @ ..]: make_impl for every impl block of  *)
(* the rest (unreachable!() for anything else), then make_type.            *)
MakeTypeGroupNoImpls ==
    /\ Running /\ Cur.op = "group" /\ file[G[1]].kind \in {"struct", "enum"}
    /\ IF \E k \in 2..Len(G) : file[G[k]].kind # "impl"
       THEN Fail("panic")
       ELSE /\ tasks' = <<Task("type", G[1], Tail(G))>> \o Tail(tasks)
            /\ UNCHANGED <<ambient, made, symbols, status>>
    /\ UNCHANGED file

(* Mutation: make_type inside the loop over the impl blocks.              *)
MakeTypeGroupInLoop ==
    /\ Running /\ Cur.op = "group" /\ file[G[1]].kind \in {"struct", "enum"}
    /\ IF \E k \in 2..Len(G) : file[G[k]].kind # "impl"
       THEN Fail("panic")
       ELSE /\ tasks' = FlattenSeq([k \in 1..Len(G) - 1 |->
                            <<Task("impl", G[k + 1], <<>>), Task("type", G[1], SubSeq(G, 2, k + 1))>>])
                        \o Tail(tasks)
            /\ UNCHANGED <<ambient, made, symbols, status>>
    /\ UNCHANGED file

MakeTypeGroup ==
    /\ Running /\ Cur.op = "group" /\ file[G[1]].kind \in {"struct", "enum"}
    /\ IF \E k \in 2..Len(G) : file[G[k]].kind # "impl"
       THEN Fail("panic")
       ELSE /\ tasks' = [k \in 1..Len(G) - 1 |-> Task("impl", G[k + 1], <<>>)]
                        \o <<Task("type", G[1], Tail(G))>> \o Tail(tasks)
            /\ UNCHANGED <<ambient, made, symbols, status>>
    /\ UNCHANGED file

(* make_impl: the impl's placeholders become ambient for its items.       *)
MakeImpl ==
    /\ Running /\ Cur.op = "impl"
    /\ ambient' = Placeholders(Cur.node)
    /\ tasks' = <<Task("make", Cur.node, <<>>), Task("endimpl", 0, <<>>)>> \o Tail(tasks)
    /\ UNCHANGED <<file, made, symbols, status>>

(* Mutation: ambient_placeholders.clear() dropped.                         *)
EndImplKeep ==
    /\ Running /\ Cur.op = "endimpl"
    /\ Pop
    /\ UNCHANGED <<file, ambient, made, symbols, status>>

(* make_impl, after self.make(scope): ambient_placeholders.clear().       *)
EndImpl ==
    /\ Running /\ Cur.op = "endimpl"
    /\ ambient' = <<>>
    /\ Pop
    /\ UNCHANGED <<file, made, symbols, status>>

(* resolve_associated_items: the functions of the impl scopes, in order,  *)
(* and a mixin's placeholders, those of its impl and then its own.        *)
AssocFns(impls) == FlattenSeq([k \in 1..Len(impls) |-> OfKind(impls[k], "fn")])
MixinPlaceholders(impls) ==
    FlattenSeq([k \in 1..Len(impls) |->
        [m \in 1..Len(OfKind(impls[k], "mixin")) |->
            Placeholders(impls[k]) \o Placeholders(OfKind(impls[k], "mixin")[m])]])

(* make_type, a struct: make_struct_like, with the transparent check.    *)
MakeStructLike ==
    /\ Running /\ Cur.op = "type" /\ file[Cur.node].kind = "struct"
    /\ LET n == Cur.node IN
       IF file[n].syn.transparent /\ Len(OfKind(n, "field")) # 1
       THEN Fail("InvalidTransparent")
       ELSE /\ Assign(n, Item("StructLike", Placeholders(n), AssocFns(Cur.group),
                              MixinPlaceholders(Cur.group)))
            /\ symbols' = Append(symbols, n)
            /\ Pop
            /\ UNCHANGED ambient
    /\ UNCHANGED file

(* make_type, an enum: make_enum.                                          *)
MakeEnum ==
    /\ Running /\ Cur.op = "type" /\ file[Cur.node].kind = "enum"
    /\ Assign(Cur.node, Item("Enum", <<>>, AssocFns(Cur.group), MixinPlaceholders(Cur.group)))
    /\ symbols' = Append(symbols, Cur.node)
    /\ Pop
    /\ UNCHANGED <<file, ambient>>

(* make_item_group, [Protocol]: self.make(scope), then make_protocol.     *)
MakeProtocolGroup ==
    /\ GroupIs("protocol")
    /\ tasks' = <<Task("make", G[1], <<>>), Task("protocol", G[1], <<>>)>> \o Tail(tasks)
    /\ UNCHANGED <<file, ambient, made, symbols, status>>

(* make_protocol: not pushed to symbols.                                   *)
MakeProtocol ==
    /\ Running /\ Cur.op = "protocol"
    /\ Assign(Cur.node, Item("Protocol", Placeholders(Cur.node),
                             AssocFns(<<Cur.node>>), <<>>))
    /\ Pop
    /\ UNCHANGED <<file, ambient, symbols>>

(* make_item_group, [TypeDef]: make_typedef.                              *)
MakeTypeDef ==
    /\ GroupIs("typedef")
    /\ Assign(G[1], Item("TypeDef", Placeholders(G[1]), <<>>, <<>>))
    /\ symbols' = Append(symbols, G[1])
    /\ Pop
    /\ UNCHANGED <<file, ambient>>

(* make_item_group, [Macro]: MacroMaker::make (modelled in MacroMaker)   *)
(* assigns the cell, then symbols.push.                                    *)
MakeMacro ==
    /\ GroupIs("macro")
    /\ Assign(G[1], Item("Macro", <<>>, <<>>, <<>>))
    /\ symbols' = Append(symbols, G[1])
    /\ Pop
    /\ UNCHANGED <<file, ambient>>

(* make_function's checks in the order it makes them; the first that    *)
(* fails is returned.  ph is get_placeholders (the ambient ones too).     *)
FnError(n, ph) ==
    LET f == file[n].syn
        protocolFn == KindOf(file, file[n].parent) = "protocol"
    IN CASE f.varargs /\ ~f.extern                   -> "VarArgsCanOnlyBeExtern"
         [] protocolFn /\ f.extern                   -> "ProtocolFnsCannotBeExtern"
         [] f.abi \in {"none", "C"} /\ f.extern /\ ph # <<>> -> "ExternCGenericParams"
         [] f.abi = "intrinsic" /\ ~f.known          -> "UnknownIntrinsic"
         [] f.abi = "other"                          -> "UnsupportedABI"
         [] f.abi # "intrinsic" /\ ~f.body /\ ~f.extern /\ ~protocolFn
                                                     -> "FunctionMustHaveBody"
         [] OTHER                                    -> "none"

(* make_item_group, [Function]: make_function.  An intrinsic is assigned  *)
(* as an Intrinsic and returns before symbols.push.                        *)
MakeFunction ==
    /\ GroupIs("fn")
    /\ LET n == G[1]
           intrinsic == file[n].syn.abi = "intrinsic"
       IN IF FnError(n, Placeholders(n)) # "none"
          THEN Fail(FnError(n, Placeholders(n)))
          ELSE /\ Assign(n, Item(IF intrinsic THEN "Intrinsic" ELSE "Function",
                                 Placeholders(n), <<>>, <<>>))
               /\ symbols' = IF intrinsic THEN symbols ELSE Append(symbols, n)
               /\ Pop
               /\ UNCHANGED ambient
    /\ UNCHANGED file

(* make_static_or_const's checks in order; extern const fails the assert. *)
StaticError(n, ph) ==
    LET f == file[n].syn IN
    CASE f.extern /\ file[n].kind = "const"  -> "panic"
      [] ph # <<>> /\ f.extern               -> "ExternStaticCannotBeGeneric"
      [] ~f.typ /\ ~f.init                   -> "TypeHintRequired"
      [] f.extern /\ (~f.typ \/ f.init)      -> "ExternStaticMustHaveType"
      [] OTHER                               -> "none"

(* make_item_group, [Static] and [Const]: make_static_or_const.           *)
MakeStaticOrConst ==
    /\ \E k \in {"static", "const"} : GroupIs(k)
    /\ LET n == G[1] IN
       IF StaticError(n, Placeholders(n)) # "none"
       THEN Fail(StaticError(n, Placeholders(n)))
       ELSE /\ Assign(n, Item("StaticOrConst", Placeholders(n), <<>>, <<>>))
            /\ symbols' = Append(symbols, n)
            /\ Pop
            /\ UNCHANGED ambient
    /\ UNCHANGED file

(* make_item_group, the _ arm: any other group is passed over.            *)
SkipGroup ==
    /\ Running /\ Cur.op = "group"
    /\ ~(Len(G) = 1 /\ file[G[1]].kind \in ItemKinds \ {"struct", "enum"})
    /\ file[G[1]].kind \notin {"struct", "enum"}
    /\ Pop
    /\ UNCHANGED <<file, ambient, made, symbols, status>>

(* make returns Ok(()) to its caller.                                      *)
Finish ==
    /\ status = "running" /\ tasks = <<>>
    /\ status' = "ok"
    /\ UNCHANGED <<file, tasks, ambient, made, symbols>>

Next ==
    \/ Make \/ MakeModuleGroup \/ RejectFreeStandingImpl \/ MakeTypeGroup
    \/ MakeImpl \/ EndImpl \/ MakeStructLike \/ MakeEnum
    \/ MakeProtocolGroup \/ MakeProtocol \/ MakeTypeDef \/ MakeMacro \/ MakeFunction \/ MakeStaticOrConst \/ SkipGroup
    \/ Finish

Spec == Init /\ [][Next]_vars

-----------------------------------------------------------------------------
Cells == {n \in DOMAIN file : file[n].kind \in CellKinds}
Impls == {n \in DOMAIN file : file[n].kind = "impl"}

Statuses == {"running", "ok", "panic", "AssigningTheSameSymbolTwice",
             "NoFreeStandingImpl", "InvalidTransparent",
             "VarArgsCanOnlyBeExtern", "ProtocolFnsCannotBeExtern",
             "ExternCGenericParams", "UnknownIntrinsic", "UnsupportedABI",
             "FunctionMustHaveBody", "ExternStaticCannotBeGeneric",
             "TypeHintRequired", "ExternStaticMustHaveType"}

(* Types; the ambient placeholders are none, or those of one impl block, *)
(* and no item cell is assigned twice (ItemCell::assign never panics).    *)
TypeOK ==
    /\ file \in Seq([kind : ItemKinds \cup {"generic", "mixin", "field"},
                     name : STRING, syn : {s.syn : s \in Shapes},
                     parent : 0..MaxNodes])
    /\ tasks \in Seq([op : {"make", "group", "impl", "endimpl", "type", "protocol"},
                      node : 0..MaxNodes, group : Seq(DOMAIN file)])
    /\ ambient \in {<<>>} \cup {Generics(i) : i \in Impls}
    /\ DOMAIN made \subseteq Cells
    /\ \A n \in DOMAIN made :
          made[n].kind \in {"StructLike", "Enum", "Protocol", "TypeDef", "Macro",
                            "Function", "Intrinsic", "StaticOrConst"}
    /\ symbols \in Seq(Cells)
    /\ status \in Statuses \ {"AssigningTheSameSymbolTwice"}

(* The reference, from spec 4.1: the functions and mixins of an impl     *)
(* block take its placeholders and then their own; every other item its *)
(* own.                                                                    *)
ParentOf(n) == file[n].parent
ExpectedPh(n) ==
    CASE file[n].kind = "macro" -> <<>>
      [] ParentOf(n) # 0 /\ file[ParentOf(n)].kind = "impl" ->
             Generics(ParentOf(n)) \o Generics(n)
      [] OTHER -> Generics(n)

(* The impl blocks of a type: those of its name in its scope.             *)
ImplsOf(n) == {i \in Impls : ParentOf(i) = ParentOf(n) /\ file[i].name = file[n].name}

InOrder(P(_)) == SelectSeq([j \in 1..Len(file) |-> j], P)

ExpectedMixins(n) ==
    IF file[n].kind \in {"struct", "enum"}
    THEN LET ms == InOrder(LAMBDA j : file[j].kind = "mixin" /\ ParentOf(j) \in ImplsOf(n))
         IN [k \in 1..Len(ms) |-> Generics(ParentOf(ms[k])) \o Generics(ms[k])]
    ELSE <<>>

(* Every item cell assigned so far holds the placeholders its scopes give *)
(* it: make_impl's ambient placeholders reach exactly the items of that   *)
(* impl block, are gone before the type itself and every later item is   *)
(* made, and a mixin gets its impl's once.                                 *)
PlaceholdersFollowScopes ==
    \A n \in DOMAIN made :
        /\ made[n].ph = ExpectedPh(n)
        /\ made[n].mixins = ExpectedMixins(n)

ExpectedKind(n) ==
    CASE file[n].kind = "struct" -> "StructLike"  [] file[n].kind = "enum" -> "Enum"
      [] file[n].kind = "protocol" -> "Protocol"  [] file[n].kind = "typedef" -> "TypeDef"
      [] file[n].kind = "macro" -> "Macro"
      [] file[n].kind = "fn" -> IF file[n].syn.abi = "intrinsic" THEN "Intrinsic" ELSE "Function"
      [] OTHER -> "StaticOrConst"

ExpectedAssoc(n) ==
    CASE file[n].kind \in {"struct", "enum"} ->
             InOrder(LAMBDA j : file[j].kind = "fn" /\ ParentOf(j) \in ImplsOf(n))
      [] file[n].kind = "protocol" -> InOrder(LAMBDA j : file[j].kind = "fn" /\ ParentOf(j) = n)
      [] OTHER -> <<>>

(* A file is accepted by spec 4.1 when every impl block accompanies a    *)
(* type and every item passes its own checks.                              *)
ItemValid(n) ==
    CASE file[n].kind = "fn" -> FnError(n, ExpectedPh(n)) = "none"
      [] file[n].kind \in {"static", "const"} -> StaticError(n, ExpectedPh(n)) = "none"
      [] file[n].kind = "struct" -> file[n].syn.transparent => Len(OfKind(n, "field")) = 1
      [] OTHER -> TRUE

Accepted ==
    /\ \A i \in Impls : \E n \in DOMAIN file :
          ParentOf(n) = ParentOf(i) /\ file[n].name = file[i].name /\ file[n].kind \in {"struct", "enum"}
    /\ \A n \in Cells : ItemValid(n)

(* When make returns, it has succeeded exactly for the files spec 4.1     *)
(* accepts, and then every item cell of the file, in modules, protocols   *)
(* and impl blocks at any depth, has been made once, as its kind, with    *)
(* the functions of all its impl blocks.                                   *)
MadeItemsComplete ==
    status # "running" =>
        /\ (status = "ok") = Accepted
        /\ status = "ok" =>
              /\ DOMAIN made = Cells
              /\ \A n \in Cells : made[n].kind = ExpectedKind(n)
                                  /\ made[n].assoc = ExpectedAssoc(n)
====
