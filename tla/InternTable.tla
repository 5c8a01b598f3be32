---------------------------- MODULE InternTable ----------------------------
(***************************************************************************)
(* What a type-intern table promises (spec section 3: "for each arena,    *)
(* any two structurally-equal types share the same address"): interning   *)
(* a type returns the address it was given the first time, and distinct  *)
(* types get distinct addresses.  The table is a map from the types       *)
(* interned so far to their addresses; ret is what the last call returned.*)
(***************************************************************************)
EXTENDS Integers, Functions, TLC

CONSTANTS
    Tys,          \* the types that may be interned
    Addresses     \* the addresses an allocator may hand out

VARIABLES table, ret

vars == <<table, ret>>

Init ==
    /\ table = [t \in {} |-> 0]
    /\ ret = 0

(* An interned type keeps its address; a new one gets an unused address.  *)
Intern(t) ==
    IF t \in DOMAIN table
    THEN ret' = table[t] /\ UNCHANGED table
    ELSE \E a \in Addresses \ Range(table) :
            /\ table' = table @@ (t :> a)
            /\ ret' = a

Next == \E t \in Tys : Intern(t)

Spec == Init /\ [][Next]_vars
====
