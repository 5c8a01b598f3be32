------------------------------ MODULE IrTypes ------------------------------
(***************************************************************************)
(* The IR type model of src/.../ir/mod.rs: the variants of Ty, the item   *)
(* an IRItemCell may hold, and the pure functions over them               *)
(* (assignable_from, gcd, canonical_type, is_void, is_never,              *)
(* is_zero_sized).                                                         *)
(*                                                                         *)
(* Ty derives PartialEq on its variants, and a TyP compares by the Ty it  *)
(* points to, so equality is structural except for Item, whose cells     *)
(* compare by id: a type is a record value and a cell is an identifier.   *)
(***************************************************************************)
EXTENDS Integers, Sequences, SequencesExt

CONSTANTS
    Builtins,     \* BuiltinType values of the model, "Never" among them
    Cells,        \* the item cells types may name
    None          \* an empty OnceCell

ASSUME "Never" \in Builtins /\ None \notin Cells

(* enum Ty.                                                                *)
Builtin(b) == [k |-> "Builtin", b |-> b]
ItemTy(c) == [k |-> "Item", cell |-> c]
Pointer(t, isConst) == [k |-> "Pointer", to |-> t, const |-> isConst]
Array(t, n) == [k |-> "Array", of |-> t, len |-> n]
Tuple(s) == [k |-> "Tuple", elems |-> s]
FunctionPointer(args, ret) == [k |-> "FnPtr", args |-> args, ret |-> ret]

(* Ty::void(): the empty tuple.                                            *)
Void == Tuple(<<>>)
Never == Builtin("Never")

(* enum IRItem, with what is_zero_sized looks at: the field types of a    *)
(* struct-like or closure, the aliased type, an enum's underlying type.   *)
IRItemKinds == {"StructLike", "Alias", "Protocol", "Function", "Enum",
                "Static", "Const", "Closure"}

-----------------------------------------------------------------------------
(* Ty::assignable_from: equal types, a const pointer from any pointer to   *)
(* the same type, and anything from never.                                 *)
AssignableFrom(lhs, rhs) ==
    \/ lhs = rhs
    \/ lhs.k = "Pointer" /\ rhs.k = "Pointer" /\ lhs.const /\ lhs.to = rhs.to
    \/ rhs = Never

(* Ty::gcd: the arms in order; the first that matches decides.             *)
Gcd(lhs, rhs) ==
    LET ptrs == lhs.k = "Pointer" /\ rhs.k = "Pointer" /\ lhs.to = rhs.to IN
    CASE lhs = rhs                          -> lhs
      [] ptrs /\ ~lhs.const                 -> Pointer(lhs.to, FALSE)
      [] ptrs /\ ~rhs.const                 -> Pointer(lhs.to, FALSE)
      [] rhs = Never                        -> lhs
      [] lhs = Never                        -> rhs
      [] OTHER                              -> Void

(* Ty::canonical_type: pointers stripped.                                  *)
RECURSIVE CanonicalType(_)
CanonicalType(t) == IF t.k = "Pointer" THEN CanonicalType(t.to) ELSE t

IsVoid(t) == t = Void
IsNever(t) == t = Never

-----------------------------------------------------------------------------
(* The outcome of is_zero_sized: a value, a panic (the unwrap of an empty *)
(* cell, or unreachable!() for a protocol, static or const), or a         *)
(* recursion that does not end (a type that contains itself by value),    *)
(* cut off after d nested calls.                                           *)
Ok(v) == [r |-> "ok", v |-> v]
Panic == [r |-> "panic"]
Overflow == [r |-> "overflow"]

RECURSIVE IsZeroSized(_, _, _), AllZeroSized(_, _, _)

(* elems.iter().all(|e| e.is_zero_sized()): stops at the first element    *)
(* that is not zero-sized; a panic in an element ends the call.           *)
AllZeroSized(ct, s, d) ==
    IF s = <<>> THEN Ok(TRUE)
    ELSE LET h == IsZeroSized(ct, Head(s), d) IN
         IF h.r # "ok" \/ ~h.v THEN h ELSE AllZeroSized(ct, Tail(s), d)

(* Mutation: an array is zero-sized only when its element type is.        *)
IsZeroSizedArrayByElem(ct, t, d) ==
    IF d = 0 THEN Overflow
    ELSE CASE t.k = "Builtin" -> Ok(t.b = "Never")
           [] t.k = "Item" ->
                IF ct[t.cell] = None THEN Panic
                ELSE LET it == ct[t.cell] IN
                     CASE it.kind = "Alias" -> IsZeroSized(ct, it.ty, d - 1)
                       [] it.kind \in {"StructLike", "Closure"} ->
                              AllZeroSized(ct, it.fields, d - 1)
                       [] it.kind = "Function" -> Ok(TRUE)
                       [] it.kind = "Enum" -> IsZeroSized(ct, it.ty, d - 1)
                       [] OTHER -> Panic
           [] t.k \in {"Pointer", "FnPtr"} -> Ok(FALSE)
           [] t.k = "Array" -> IsZeroSized(ct, t.of, d - 1)
           [] t.k = "Tuple" -> AllZeroSized(ct, t.elems, d - 1)

(* Ty::is_zero_sized over the cells' contents ct.                         *)
IsZeroSized(ct, t, d) ==
    IF d = 0 THEN Overflow
    ELSE CASE t.k = "Builtin" -> Ok(t.b = "Never")
           [] t.k = "Item" ->
                IF ct[t.cell] = None THEN Panic
                ELSE LET it == ct[t.cell] IN
                     CASE it.kind = "Alias" -> IsZeroSized(ct, it.ty, d - 1)
                       [] it.kind \in {"StructLike", "Closure"} ->
                              AllZeroSized(ct, it.fields, d - 1)
                       [] it.kind = "Function" -> Ok(TRUE)
                       [] it.kind = "Enum" -> IsZeroSized(ct, it.ty, d - 1)
                       [] OTHER -> Panic
           [] t.k \in {"Pointer", "FnPtr"} -> Ok(FALSE)
           [] t.k = "Array" ->
                IF t.len = 0 THEN Ok(TRUE) ELSE IsZeroSized(ct, t.of, d - 1)
           [] t.k = "Tuple" -> AllZeroSized(ct, t.elems, d - 1)

-----------------------------------------------------------------------------
(* The types an item is made of, as is_zero_sized walks them.              *)
ItemParts(it) ==
    CASE it.kind \in {"StructLike", "Closure"} -> it.fields
      [] it.kind \in {"Alias", "Enum"}         -> <<it.ty>>
      [] OTHER                                 -> <<>>

(* The cells a type holds by value (behind no pointer), to depth d.        *)
RECURSIVE CellsIn(_, _, _)
CellsIn(ct, t, d) ==
    IF d = 0 THEN {}
    ELSE CASE t.k = "Item" ->
                {t.cell} \cup IF ct[t.cell] = None THEN {}
                              ELSE UNION {CellsIn(ct, p, d - 1) :
                                          p \in Range(ItemParts(ct[t.cell]))}
           [] t.k = "Array" -> IF t.len = 0 THEN {} ELSE CellsIn(ct, t.of, d - 1)
           [] t.k = "Tuple" -> UNION {CellsIn(ct, e, d - 1) : e \in Range(t.elems)}
           [] OTHER -> {}

(* A type has a layout when every cell it holds by value is filled with a *)
(* type (not a protocol, static or const) and none holds itself.          *)
HasLayout(ct, t, d) ==
    \A c \in CellsIn(ct, t, d) :
        /\ ct[c] # None
        /\ ct[c].kind \notin {"Protocol", "Static", "Const"}
        /\ c \notin UNION {CellsIn(ct, p, d) : p \in Range(ItemParts(ct[c]))}

(* The reference: a type's size in bytes under a layout where never takes *)
(* no byte, every other builtin one, a pointer eight, an array its length *)
(* times its element, an aggregate the sum of its parts, a function item  *)
(* none.  Defined for types that have a layout.                           *)
RECURSIVE SizeOf(_, _)
SizeOf(ct, t) ==
    LET Add(a, b) == a + b
        SumOf(s) == FoldLeft(Add, 0, [i \in DOMAIN s |-> SizeOf(ct, s[i])])
    IN
    CASE t.k = "Builtin" -> IF t.b = "Never" THEN 0 ELSE 1
      [] t.k \in {"Pointer", "FnPtr"} -> 8
      [] t.k = "Array" -> IF t.len = 0 THEN 0 ELSE t.len * SizeOf(ct, t.of)
      [] t.k = "Tuple" -> SumOf(t.elems)
      [] t.k = "Item" -> SumOf(ItemParts(ct[t.cell]))
====
