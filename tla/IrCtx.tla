------------------------------- MODULE IrCtx -------------------------------
(***************************************************************************)
(* The IR arena context of src/.../ir/mod.rs: IrCtx (the bump arena, the  *)
(* id counter and the type-intern set) and the write-once IRItemCell, with*)
(* is_zero_sized asked of types while cells are being filled.             *)
(*                                                                         *)
(* The arena is a sequence of allocations; an address is an index into   *)
(* it.  A cell's id is the id make_id gave it; a type names a cell by id.*)
(***************************************************************************)
EXTENDS Integers, Sequences, Functions, TLC, IrTypes

CONSTANTS
    MaxId,        \* bound on make_id
    MaxArena,     \* bound on the arena's allocations
    InternTys,    \* types passed to intern_type
    QueryTys,     \* types asked is_zero_sized
    Items         \* IRItems that may be assigned to a cell

ASSUME Cells = 1..MaxId

(* Nested is_zero_sized calls after which the recursion counts as unbounded.*)
Depth == 2 * MaxId + 4

VARIABLES
    arena,        \* the bump allocator's allocations, in order
    types,        \* IrCtx.types: the addresses of interned types
    counter,      \* IrCtx.counter
    contents,     \* each cell's OnceCell (None while empty)
    interned,     \* the address the last intern_type returned (0 before)
    query,        \* the last is_zero_sized call and its outcome
    answers,      \* the first value is_zero_sized gave for each type
    status        \* "running", or the panic that ended the pass

vars == <<arena, types, counter, contents, interned, query, answers, status>>

NoQuery == [ty |-> Void, res |-> Overflow, none |-> TRUE]

(* The cells a type names anywhere (behind pointers too).                  *)
RECURSIVE Named(_)
Named(t) ==
    CASE t.k = "Item" -> {t.cell}
      [] t.k = "Pointer" -> Named(t.to)
      [] t.k = "Array" -> Named(t.of)
      [] t.k = "Tuple" -> UNION {Named(e) : e \in Range(t.elems)}
      [] t.k = "FnPtr" -> Named(t.ret) \cup UNION {Named(e) : e \in Range(t.args)}
      [] OTHER -> {}

(* The cells made so far.                                                  *)
Symbols == {arena[a].id : a \in {a \in DOMAIN arena : arena[a].obj = "cell"}}

Running == status = "running"

-----------------------------------------------------------------------------
(* IrCtx::new.                                                             *)
Init ==
    /\ arena = <<>>
    /\ types = {}
    /\ counter = 0
    /\ contents = [c \in Cells |-> None]
    /\ interned = 0
    /\ query = NoQuery
    /\ answers = [t \in {} |-> FALSE]
    /\ status = "running"

(* IrCtx::make_id: counter.increment().                                    *)
MakeId ==
    /\ Running /\ counter < MaxId
    /\ counter' = counter + 1
    /\ UNCHANGED <<arena, types, contents, interned, query, answers, status>>

(* IrCtx::make_symbol: a cell with a fresh id and an empty OnceCell.       *)
MakeSymbol ==
    /\ Running /\ counter < MaxId /\ Len(arena) < MaxArena
    /\ counter' = counter + 1
    /\ arena' = Append(arena, [obj |-> "cell", id |-> counter + 1])
    /\ UNCHANGED <<types, contents, interned, query, answers, status>>

(* Mutation: the lookup in the intern set skipped.                         *)
InternTypeNoLookup(ty) ==
    /\ Running /\ Named(ty) \subseteq Symbols
    /\ Len(arena) < MaxArena
    /\ arena' = Append(arena, [obj |-> "ty", ty |-> ty])
    /\ types' = types \cup {Len(arena) + 1}
    /\ interned' = Len(arena) + 1
    /\ UNCHANGED <<counter, contents, query, answers, status>>

(* IrCtx::intern_type: the key of an equal type in the set, or the type   *)
(* allocated in the arena and inserted.                                    *)
InternType(ty) ==
    /\ Running /\ Named(ty) \subseteq Symbols
    /\ IF \E a \in types : arena[a].ty = ty
       THEN /\ interned' = CHOOSE a \in types : arena[a].ty = ty
            /\ UNCHANGED <<arena, types>>
       ELSE /\ Len(arena) < MaxArena
            /\ arena' = Append(arena, [obj |-> "ty", ty |-> ty])
            /\ types' = types \cup {Len(arena) + 1}
            /\ interned' = Len(arena) + 1
    /\ UNCHANGED <<counter, contents, query, answers, status>>

(* Mutation: OnceCell::set replaced by a plain store.                      *)
AssignOverwrites(c, it) ==
    /\ Running /\ c \in Symbols
    /\ contents' = [contents EXCEPT ![c] = it]
    /\ UNCHANGED <<arena, types, counter, interned, query, answers, status>>

(* IRItemCell::assign: contents.set(value).expect(...) panics when the    *)
(* cell is already filled.                                                 *)
Assign(c, it) ==
    /\ Running /\ c \in Symbols
    /\ IF contents[c] = None
       THEN contents' = [contents EXCEPT ![c] = it] /\ UNCHANGED status
       ELSE status' = "AssigningTheSameSymbolTwice" /\ UNCHANGED contents
    /\ UNCHANGED <<arena, types, counter, interned, query, answers>>

(* Ty::is_zero_sized on a type whose cells exist; a panic inside it ends  *)
(* the pass.                                                                *)
QueryZeroSized(ty) ==
    /\ Running /\ Named(ty) \subseteq Symbols
    /\ LET res == IsZeroSized(contents, ty, Depth) IN
       /\ query' = [ty |-> ty, res |-> res, none |-> FALSE]
       /\ answers' = IF res.r = "ok" /\ ty \notin DOMAIN answers
                     THEN answers @@ (ty :> res.v) ELSE answers
       /\ status' = IF res.r = "ok" THEN status ELSE "IsZeroSized" \o res.r
    /\ UNCHANGED <<arena, types, counter, contents, interned>>

Next ==
    \/ MakeId \/ MakeSymbol
    \/ \E ty \in InternTys : InternType(ty)
    \/ \E c \in Cells, it \in Items : Assign(c, it)
    \/ \E ty \in QueryTys : QueryZeroSized(ty)

Spec == Init /\ [][Next]_vars

-----------------------------------------------------------------------------
Objects == [obj : {"cell"}, id : Cells] \cup [obj : {"ty"}, ty : InternTys]

(* Types of the context's state.  No run checks it: the arena's keys are  *)
(* what alloc returns, which no mutant of the safe code can move.          *)
TypeOK ==
    /\ arena \in Seq(Objects) /\ Len(arena) <= MaxArena
    /\ types \subseteq DOMAIN arena
    /\ counter \in 0..MaxId
    /\ contents \in [Cells -> Items \cup {None}]
    /\ interned \in 0..MaxArena
    /\ DOMAIN answers \subseteq QueryTys
    /\ \A t \in DOMAIN answers : answers[t] \in BOOLEAN
    /\ status \in {"running", "AssigningTheSameSymbolTwice",
                   "IsZeroSizedpanic", "IsZeroSizedoverflow"}

(* The intern set implements the intern table of spec section 3: the map  *)
(* from each interned type to its key, and the address intern_type last   *)
(* returned, behave as InternTable says, whatever else is allocated in    *)
(* the arena between the calls.                                            *)
Table == INSTANCE InternTable
    WITH Tys <- InternTys, Addresses <- 1..MaxArena,
         table <- [t \in {arena[a].ty : a \in types} |->
                       CHOOSE a \in types : arena[a].ty = t],
         ret <- interned

InternRefinesTable == Table!Spec

(* is_zero_sized agrees with the byte size of the type under a layout,    *)
(* for every type that has one, whichever cells have been filled in which *)
(* order: no type with a layout panics, recurses without end or gets the  *)
(* wrong answer (zero-length arrays, never, function items, aliases).     *)
ZeroSizedMatchesLayout ==
    ~query.none /\ HasLayout(contents, query.ty, Depth) =>
        query.res = Ok(SizeOf(contents, query.ty) = 0)

(* A type's zero-sizedness never changes once it has been answered: the  *)
(* C signature (write_function_signature) and every later call site       *)
(* (the Call arm) elide the same parameters, because an IRItemCell is     *)
(* written once.                                                           *)
ZeroSizedStable ==
    query.res.r = "ok" /\ ~query.none => answers[query.ty] = query.res.v

(* Ty::gcd of two interned types is a common supertype of both under      *)
(* assignable_from whenever one of its arms matches (it falls back to    *)
(* void for unrelated types): the type of an if/else whose branches are  *)
(* a const and a mut pointer must accept both.                             *)
GcdIsUpperBound ==
    \A a, b \in {arena[x].ty : x \in types} :
        Gcd(a, b) # Void \/ a = b =>
            AssignableFrom(Gcd(a, b), a) /\ AssignableFrom(Gcd(a, b), b)
====
