-------------------------- MODULE FunctionLinkage --------------------------
(***************************************************************************)
(* How the C emitter declares and defines one IR function (src/.../codegen/*)
(* functions.rs): write_function_decl writes the prototype to fn_decls and *)
(* registers the C name, write_function_body writes the definition to      *)
(* fn_bodies, and a call expression elsewhere writes the argument list.   *)
(* All three go through write_function_signature or the Call arm of       *)
(* write_expr.                                                              *)
(*                                                                         *)
(* The text is abstracted to what C's rules look at: the name scheme, the *)
(* "static" storage class, the asm label, and the tokens of the parameter *)
(* list ("p" for a parameter, "," and "...").                             *)
(***************************************************************************)
EXTENDS Integers, Sequences, SequencesExt

CONSTANTS
    MaxParams     \* most parameters of the function

ASSUME MaxParams \in Nat

(* #[inline(always)], #[inline(never)], #[inline] as IR attributes.        *)
InlineAttrs == {"AlwaysInline", "NoInline", "Inline"}

(* The function as the IR gives it to the writer.  params[i] is TRUE when  *)
(* the i-th parameter's type is zero-sized.  A variadic function must be  *)
(* extern (VarArgsCanOnlyBeExtern) and has no body; a function without a  *)
(* body is extern (FunctionMustHaveBody); an anonymous function is a      *)
(* lambda, which has a body and is neither exported nor link-named.       *)
Functions ==
    {f \in [named : BOOLEAN, export : BOOLEAN, linkName : BOOLEAN,
            body : BOOLEAN, inline : SUBSET InlineAttrs,
            params : SeqOf(BOOLEAN, MaxParams), varargs : BOOLEAN] :
        /\ f.varargs => ~f.body
        /\ ~f.named => f.body /\ ~f.export /\ ~f.linkName}

CName == {"Native", "Mangled", "Id"}

VARIABLES
    fn,       \* the function being emitted
    debug,    \* the "debug" flag of the build
    decl,     \* Pending, or the prototype written to fn_decls
    defn,     \* Pending, NoBody, or the definition written
    call      \* -1 until a call is written, then its number of arguments

vars == <<fn, debug, decl, defn, call>>

Pending == [written |-> FALSE]
NoBody == [written |-> TRUE]

-----------------------------------------------------------------------------
(* write_function_signature: the attribute chain picks the first of        *)
(* always_inline, noinline, inline; the two inline forms force "static".   *)
IsInline(f) ==
    \/ "AlwaysInline" \in f.inline
    \/ "NoInline" \notin f.inline /\ "Inline" \in f.inline

(* write_function_signature: parameters that are not zero-sized, separated *)
(* by ", " by their index among those written; then, for varargs, ", "    *)
(* if the function has any parameter at all, and "...".                   *)
ParamTokens(f) ==
    LET n == Len(SelectSeq(f.params, LAMBDA z : ~z))
        named == [i \in 1..(IF n = 0 THEN 0 ELSE 2 * n - 1) |->
                    IF i % 2 = 1 THEN "p" ELSE ","]
    IN  named \o (IF f.varargs
                  THEN (IF f.params # <<>> THEN <<",">> ELSE <<>>) \o <<"...">>
                  ELSE <<>>)

(* write_function_signature(ctx, buf, id, item, is_static, is_body).       *)
Signature(f, isStatic, isBody) ==
    [static |-> isStatic \/ IsInline(f),
     params |-> ParamTokens(f),
     asm    |-> f.linkName /\ ~isBody]

(* Mutation: the Native branch taken for functions that have a body.       *)
DeclNameBodyInverted(f) ==
    IF ~f.linkName /\ (f.body \/ f.export \/ f.linkName) THEN "Native"
    ELSE IF f.named THEN "Mangled" ELSE "Id"

(* write_function_decl: the name registered for the function.              *)
DeclName(f) ==
    IF ~f.linkName /\ (~f.body \/ f.export \/ f.linkName) THEN "Native"
    ELSE IF f.named THEN "Mangled" ELSE "Id"

-----------------------------------------------------------------------------
Init ==
    /\ fn \in Functions
    /\ debug \in BOOLEAN
    /\ decl = Pending
    /\ defn = Pending
    /\ call = -1

(* write_function_decl: a Native prototype is never static; otherwise the *)
(* prototype is static when there is a body, the function is neither      *)
(* exported nor link-named, and debug is off.                              *)
WriteFunctionDecl ==
    /\ decl = Pending
    /\ LET shouldExport == fn.export \/ fn.linkName
           isStatic == IF DeclName(fn) = "Native" THEN FALSE
                       ELSE fn.body /\ ~shouldExport /\ ~debug
       IN  decl' = [name |-> DeclName(fn)] @@ Signature(fn, isStatic, FALSE)
    /\ UNCHANGED <<fn, debug, defn, call>>

(* write_function_body: nothing for a function without a body; otherwise *)
(* the definition is static unless the function is exported or debug is   *)
(* on.  The name was registered by write_function_decl.                   *)
WriteFunctionBody ==
    /\ decl # Pending /\ defn = Pending
    /\ defn' = IF ~fn.body THEN NoBody
               ELSE Signature(fn, ~fn.export /\ ~debug, TRUE)
    /\ UNCHANGED <<fn, debug, decl, call>>

(* Mutation: a call that writes every argument, zero-sized ones included.  *)
WriteCallUnfiltered ==
    /\ decl # Pending /\ call = -1
    /\ call' = Len(fn.params)
    /\ UNCHANGED <<fn, debug, decl, defn>>

(* write_expr, ExprKind::Call: the arguments whose type is not zero-sized, *)
(* the same types as the callee's parameters.                              *)
WriteCall ==
    /\ decl # Pending /\ call = -1
    /\ call' = Len(SelectSeq(fn.params, LAMBDA z : ~z))
    /\ UNCHANGED <<fn, debug, decl, defn>>

Next == WriteFunctionDecl \/ WriteFunctionBody \/ WriteCall

(* Emission ends once the prototype, the definition and a call are written.*)
Spec == Init /\ [][Next]_vars

-----------------------------------------------------------------------------
Tokens == {"p", ",", "..."}
Proto == [name : CName, static : BOOLEAN, params : Seq(Tokens), asm : BOOLEAN]
Defn == [static : BOOLEAN, params : Seq(Tokens), asm : BOOLEAN]

(* Types of the emitter's state.  No run checks it: no mutant of the       *)
(* writers can leave these sets.                                           *)
TypeOK ==
    /\ fn \in Functions
    /\ debug \in BOOLEAN
    /\ decl \in {Pending} \cup Proto
    /\ defn \in {Pending, NoBody} \cup Defn
    /\ call \in -1..MaxParams

Written(x) == "static" \in DOMAIN x

(* C's parameter-list grammar (with GCC's "(...)"): n parameters joined by *)
(* ",", then ", ..." or, with no parameter, "..." for a variadic function. *)
CParamList(n, va) ==
    [i \in 1..(IF n = 0 THEN 0 ELSE 2 * n - 1) |-> IF i % 2 = 1 THEN "p" ELSE ","]
    \o (IF va THEN (IF n > 0 THEN <<",", "...">> ELSE <<"...">>) ELSE <<>>)

CountP(toks) == Len(SelectSeq(toks, LAMBDA t : t = "p"))

(* Zero-sized parameters are elided symmetrically: every call to the       *)
(* function passes exactly as many C arguments as its C prototype has      *)
(* parameters, whatever the mix of zero-sized and sized parameters.        *)
ArityAgrees ==
    Written(decl) /\ call >= 0 => call = CountP(decl.params)

(* A defined function that is neither exported nor link-named never gets  *)
(* its verbatim name (so it cannot clash with a C library symbol), and in *)
(* a release build both its prototype and its definition are static.      *)
PrivateDefinitionsHidden ==
    fn.body /\ ~fn.export /\ ~fn.linkName /\ Written(decl) =>
        /\ decl.name # "Native"
        /\ ~debug => decl.static /\ (Written(defn) => defn.static)

(* C: a definition declared static after a prototype with external        *)
(* linkage is an error.  The definition keeps the prototype's linkage.    *)
DefinitionLinkageAgrees ==
    Written(decl) /\ Written(defn) => (defn.static => decl.static)

(* Spec 4.4: exported bodies are non-static.                               *)
ExportedBodiesExternal ==
    fn.export /\ Written(defn) => ~defn.static

(* Spec 4.4: zero-sized parameters are omitted entirely; the prototype's   *)
(* parameter list is well-formed C for every mix of parameters.           *)
SignatureWellFormed ==
    Written(decl) =>
        decl.params = CParamList(Len(SelectSeq(fn.params, LAMBDA z : ~z)),
                                 fn.varargs)
====
