---------------------------- MODULE MacroMaker ----------------------------
(***************************************************************************)
(* Lazy construction of macro items (src/.../ast/macros.rs MacroMaker::make*)
(* driven by the item maker (src/.../ast/maker.rs AstItemMaker::make) and  *)
(* by name resolution of macro references inside bodies.                  *)
(*                                                                         *)
(* Every item is visited in the item maker's order.  Visiting the body of  *)
(* a function or of a macro resolves each macro it names; resolving a      *)
(* macro calls MacroMaker::make on it, which may recursively make further  *)
(* macros before the caller continues.  A macro cell is assigned first and *)
(* its body set only when the body has been visited ("two-step            *)
(* assignment"), so meeting an assigned macro whose body is still unset   *)
(* means the macro refers to itself: RecursiveMacroCall.  A function body  *)
(* expands each invocation at once, which reads the bodies of the macro    *)
(* and of every macro its expansion invokes.                               *)
(*                                                                         *)
(* The data of a body is abstracted to the sequence of macros it names.   *)
(***************************************************************************)
EXTENDS Naturals, Sequences, SequencesExt, FiniteSets

CONSTANTS
    Macros,     \* macro items (model values)
    Fns,        \* function items whose bodies invoke macros (model values)
    MaxRefs,    \* most macro references in one body
    ItemOrders  \* the orders in which the item maker may meet the items

ASSUME Macros # {} /\ Macros \cap Fns = {}
ASSUME MaxRefs \in Nat
ASSUME \A s \in ItemOrders : s \in Seq(Macros \cup Fns)
                             /\ Len(s) = Cardinality(Macros \cup Fns)
                             /\ \A i, j \in 1..Len(s) : i # j => s[i] # s[j]

Items == Macros \cup Fns

(* What a macro definition is, as far as make() distinguishes it:         *)
(* "macro"   a user macro with at most one et-cetera parameter,            *)
(* "builtin" a #[builtin] macro with a known name,                         *)
(* "invalid" a #[builtin] macro with an unknown name, or a user macro with *)
(*           two et-cetera parameters: make() rejects it before assigning. *)
MacroKinds == {"macro", "builtin", "invalid"}

VARIABLES
    kind,     \* [Macros -> MacroKinds], fixed by the source program
    refs,     \* [Items -> Seq(Macros)], macros named by each body, in order
    order,    \* the item maker's iteration order over Items
    cell,     \* ItemCell contents: "none", "macro" or "builtin"
    body,     \* [Macros -> BOOLEAN]: the macro's body OnceCell is set
    stack,    \* frames of the make()/visit calls in progress, top = last
    next,     \* index in order of the item the item maker is at
    status,   \* "running", "ok" or the error that aborted item making
    panic     \* "none", or the panic the code would hit

input == <<kind, refs, order>>
vars == <<kind, refs, order, cell, body, stack, next, status, panic>>

Frame == [item : Items, pos : Nat, pc : {"enter", "body", "done"}]

-----------------------------------------------------------------------------
(* Macro dependency graph of the program: m -> r when the body of user     *)
(* macro m names r.  Only user macros have their bodies visited.           *)
DepEdges == {<<m, r>> \in Macros \X Macros :
                kind[m] = "macro" /\ \E i \in DOMAIN refs[m] : refs[m][i] = r}

RECURSIVE ReachFrom(_, _)
ReachFrom(S, seen) ==
    LET succ == {e[2] : e \in {d \in DepEdges : d[1] \in S}} \ seen
    IN  IF succ = {} THEN seen ELSE ReachFrom(succ, seen \cup succ)

(* Macros whose expansion is reached by expanding m (m included).         *)
Reach(m) == ReachFrom({m}, {m})

OnCycle(m) == \E e \in DepEdges : e[1] = m /\ m \in ReachFrom({e[2]}, {e[2]})

(* A program whose item making must succeed.                               *)
Clean == /\ \A m \in Macros : ~OnCycle(m)
         /\ \A m \in Macros : kind[m] # "invalid"

-----------------------------------------------------------------------------
(* ItemCell::assign: OnceCell::set(...).unwrap() panics on a second write. *)
Assign(m, v) ==
    /\ cell' = [cell EXCEPT ![m] = v]
    /\ panic' = IF cell[m] = "none" THEN panic ELSE "DoubleAssign"

(* symbol.try_get() is None.                                               *)
Unassigned(m) == cell[m] = "none"

(* Mutation: any assigned macro counts as made, body set or not.          *)
CompleteIgnoresBody(m) == cell[m] # "none"

(* Mutation: only a builtin counts as made; an assigned macro is an error. *)
CompleteOnlyBuiltin(m) == cell[m] = "builtin"

(* make() on an assigned symbol: Item::BuiltinMacro, or Item::Macro whose  *)
(* body is set, is Ok; Item::Macro with no body is RecursiveMacroCall.     *)
Complete(m) == cell[m] = "builtin" \/ body[m]

(* Expanding a macro reads Item::Macro body.get().unwrap() for it and for  *)
(* every macro its expansion invokes; a builtin has no body to read.       *)
Expandable(m) == \A x \in Reach(m) : cell[x] = "builtin" \/ body[x]

Top == stack[Len(stack)]
SetTop(f) == stack' = [stack EXCEPT ![Len(stack)] = f]
Fail(err) == /\ status' = err
             /\ UNCHANGED <<input, cell, body, stack, next, panic>>

-----------------------------------------------------------------------------
Init ==
    /\ kind \in [Macros -> MacroKinds]
    /\ refs \in {r \in [Items -> SeqOf(Macros, MaxRefs)] :
                    \A m \in Macros : kind[m] # "macro" => r[m] = <<>>}
    /\ order \in ItemOrders
    /\ cell = [m \in Macros |-> "none"]
    /\ body = [m \in Macros |-> FALSE]
    /\ stack = <<>>
    /\ next = 1
    /\ status = "running"
    /\ panic = "none"

Running == status = "running" /\ panic = "none"

(* AstItemMaker::make walks the grouped items; a [Macro] group calls       *)
(* MacroMaker::make, a [Function] group make_function, which visits the   *)
(* body.                                                                    *)
ItemMakerNext ==
    /\ Running
    /\ stack = <<>>
    /\ next <= Len(order)
    /\ stack' = <<[item |-> order[next], pos |-> 1,
                   pc |-> IF order[next] \in Macros THEN "enter" ELSE "body"]>>
    /\ UNCHANGED <<input, cell, body, next, status, panic>>

(* make(): the symbol is already assigned.  A builtin, or a macro whose   *)
(* body is set, is done; a macro whose body is unset is being made.        *)
MakeAlreadyAssigned ==
    /\ Running
    /\ stack # <<>> /\ Top.pc = "enter"
    /\ ~Unassigned(Top.item)
    /\ \/ /\ Complete(Top.item)
          /\ SetTop([Top EXCEPT !.pc = "done"])
          /\ UNCHANGED <<input, cell, body, next, status, panic>>
       \/ /\ ~Complete(Top.item)
          /\ Fail("RecursiveMacroCall")

(* make(): a #[builtin] macro with a known name is assigned and done.      *)
MakeBuiltin ==
    /\ Running
    /\ stack # <<>> /\ Top.pc = "enter"
    /\ Unassigned(Top.item)
    /\ kind[Top.item] = "builtin"
    /\ Assign(Top.item, "builtin")
    /\ SetTop([Top EXCEPT !.pc = "done"])
    /\ UNCHANGED <<input, body, next, status>>

(* make(): UnknownBuiltinMacro or MultipleEtCeteras, before any assign.    *)
MakeRejected ==
    /\ Running
    /\ stack # <<>> /\ Top.pc = "enter"
    /\ Unassigned(Top.item)
    /\ kind[Top.item] = "invalid"
    /\ Fail("InvalidMacro")

(* Mutation: the ItemCell is assigned only once the body is complete.     *)
MakeMacroAssignLate ==
    /\ Running
    /\ stack # <<>> /\ Top.pc = "enter"
    /\ Unassigned(Top.item)
    /\ kind[Top.item] = "macro"
    /\ SetTop([Top EXCEPT !.pc = "body"])
    /\ UNCHANGED <<input, cell, panic, body, next, status>>

(* make(): assign Item::Macro with an empty body cell, then visit the body.*)
MakeMacro ==
    /\ Running
    /\ stack # <<>> /\ Top.pc = "enter"
    /\ Unassigned(Top.item)
    /\ kind[Top.item] = "macro"
    /\ Assign(Top.item, "macro")
    /\ SetTop([Top EXCEPT !.pc = "body"])
    /\ UNCHANGED <<input, body, next, status>>

(* Mutation: a function body expands the invocation before it resolves   *)
(* the macro path.                                                         *)
VisitMacroRefExpandFirst ==
    /\ Running
    /\ stack # <<>> /\ Top.pc = "body"
    /\ Top.pos <= Len(refs[Top.item])
    /\ stack' = Append(stack, [item |-> refs[Top.item][Top.pos], pos |-> 1,
                               pc |-> "enter"])
    /\ panic' = IF Top.item \in Fns /\ ~Expandable(refs[Top.item][Top.pos])
                 THEN "UnsetBody" ELSE panic
    /\ UNCHANGED <<input, cell, body, next, status>>

(* Visiting a body reaches a macro reference: resolving it calls make().  *)
VisitMacroRef ==
    /\ Running
    /\ stack # <<>> /\ Top.pc = "body"
    /\ Top.pos <= Len(refs[Top.item])
    /\ stack' = Append(stack, [item |-> refs[Top.item][Top.pos], pos |-> 1,
                               pc |-> "enter"])
    /\ UNCHANGED <<input, cell, body, next, status, panic>>

(* make(): the body is visited; body.set(body).unwrap() (second step).     *)
FinishMacroBody ==
    /\ Running
    /\ stack # <<>> /\ Top.pc = "body" /\ Top.item \in Macros
    /\ Top.pos > Len(refs[Top.item])
    /\ body' = [body EXCEPT ![Top.item] = TRUE]
    /\ panic' = IF body[Top.item] THEN "DoubleAssign" ELSE panic
    /\ SetTop([Top EXCEPT !.pc = "done"])
    /\ UNCHANGED <<input, cell, next, status>>

(* make_function: the body is visited; the function symbol is assigned.   *)
FinishFnBody ==
    /\ Running
    /\ stack # <<>> /\ Top.pc = "body" /\ Top.item \in Fns
    /\ Top.pos > Len(refs[Top.item])
    /\ SetTop([Top EXCEPT !.pc = "done"])
    /\ UNCHANGED <<input, cell, body, next, status, panic>>

(* A make() or make_function call returns Ok to its caller.  The item     *)
(* maker moves to the next item; a body visit moves past the reference,   *)
(* and a function body expands the invocation there and then.             *)
Return ==
    /\ Running
    /\ stack # <<>> /\ Top.pc = "done"
    /\ \/ /\ Len(stack) = 1
          /\ stack' = <<>>
          /\ next' = next + 1
          /\ UNCHANGED panic
       \/ /\ Len(stack) > 1
          /\ LET caller == stack[Len(stack) - 1]
             IN  /\ stack' = [Front(stack) EXCEPT ![Len(stack) - 1].pos = @ + 1]
                 /\ panic' = IF caller.item \in Fns /\ ~Expandable(Top.item)
                               THEN "UnsetBody" ELSE panic
          /\ UNCHANGED next
    /\ UNCHANGED <<input, cell, body, status>>

(* Every item is made.                                                     *)
Finish ==
    /\ Running
    /\ stack = <<>>
    /\ next > Len(order)
    /\ status' = "ok"
    /\ UNCHANGED <<input, cell, body, stack, next, panic>>

Next ==
    \/ ItemMakerNext
    \/ MakeAlreadyAssigned
    \/ MakeBuiltin
    \/ MakeRejected
    \/ MakeMacro
    \/ VisitMacroRef
    \/ FinishMacroBody
    \/ FinishFnBody
    \/ Return
    \/ Finish

(* The compiler is single-threaded and never waits: while item making is  *)
(* running some step is always taken.                                      *)
Spec == Init /\ [][Next]_vars /\ WF_vars(Next)

-----------------------------------------------------------------------------
(* Types, and the depth of make() recursion: the ItemCell assigned before *)
(* the body is visited stops every cycle, so the Rust call stack never    *)
(* holds more make() frames than there are items plus the one re-entry   *)
(* that reports RecursiveMacroCall.                                        *)
TypeOK ==
    /\ kind \in [Macros -> MacroKinds]
    /\ cell \in [Macros -> {"none", "macro", "builtin"}]
    /\ body \in [Macros -> BOOLEAN]
    /\ stack \in Seq(Frame)
    /\ Len(stack) <= Cardinality(Items) + 1
    /\ next \in 1..Cardinality(Items) + 1
    /\ status \in {"running", "ok", "RecursiveMacroCall", "InvalidMacro"}
    /\ panic \in {"none", "DoubleAssign", "UnsetBody"}

(* A macro whose body is set can be expanded to a finite term: it lies on  *)
(* no cycle of macro references, and every macro its expansion reaches is *)
(* complete.  This is what two-step assignment in make() is for.           *)
CompletedMacrosSound ==
    \A m \in Macros :
        body[m] => /\ ~OnCycle(m)
                   /\ \A x \in Reach(m) : cell[x] = "builtin" \/ body[x]

(* Expansion in a function body never meets a macro whose body is unset.  *)
ExpansionSafe == panic # "UnsetBody"

(* Item making terminates, and it succeeds exactly for programs with no    *)
(* recursive macro and no rejected macro definition.                       *)
OutcomeCorrect ==
    <>(/\ status # "running"
       /\ (status = "ok") <=> Clean)
=============================================================================
