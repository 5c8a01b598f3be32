----------------------------- MODULE MacroArgs -----------------------------
(***************************************************************************)
(* Expansion of one user-macro invocation (src/.../ast/macros.rs,          *)
(* MacroExpander): expand_regular binds the arguments to the parameters,   *)
(* then the body is walked.  The body is abstracted to one list position   *)
(* (call/tuple arguments, block statements or struct initializers) whose  *)
(* elements are parameter references and et-cetera splices; the result is *)
(* the list of argument indices the expansion puts there.                  *)
(*                                                                         *)
(* Arguments are the indices 1..m; parameters are 1..n, k the index of    *)
(* the et-cetera parameter (0 if none).  The splice loop keeps the        *)
(* expander's et_cetera_index (0 for None) as state between copies.       *)
(***************************************************************************)
EXTENDS Naturals, Sequences, SequencesExt

CONSTANTS
    MaxParams,    \* most macro parameters
    MaxArgs,      \* most invocation arguments
    MaxElems,     \* most elements of the list position walked
    Positions,    \* list positions a splice may stand in
    Nested        \* whether bodies may nest a splice inside a splice

ASSUME {MaxParams, MaxArgs, MaxElems} \subseteq Nat
ASSUME Positions \subseteq {"args", "stmt", "struct"} /\ Nested \in BOOLEAN

(* An element of the list position:                                        *)
(*   ref p          Local(p)                                               *)
(*   splice p pos   EtCetera(Local(p)) standing in list position pos       *)
(*   nested p       EtCetera(Tuple([EtCetera(Local(p))])) as an argument   *)
Elems(n) ==
    [kind : {"ref"}, p : 1..n, pos : {"args"}]
    \cup [kind : {"splice"}, p : 1..n, pos : Positions]
    \cup (IF Nested THEN [kind : {"nested"}, p : 1..n, pos : {"args"}] ELSE {})

(* The argument expressions a built-in looks at: a UTF-8 string literal, *)
(* a string literal that is not UTF-8, a macro reference, anything else.  *)
ArgKinds == {"str", "bytes", "macro", "expr"}

(* A format string of up to two tokens: a literal run, "{}" or "{N}".     *)
FmtTokens == {[t |-> "s"], [t |-> "next"], [t |-> "pos", n |-> 0],
              [t |-> "pos", n |-> 1]}
FmtStrings == {f \in SeqOf(FmtTokens, 2) :
                 \A j \in 1..Len(f) - 1 : ~(f[j].t = "s" /\ f[j + 1].t = "s")}

(* An invocation of a built-in macro other than reduce!: its arguments'   *)
(* kinds, the bound arguments of a macro-reference first argument, the    *)
(* format string (format_args!), the invocation span (absent, of a file  *)
(* without a path, of a file with one), whether the named environment     *)
(* variable is set (env!) and whether the named file reads (include_bytes!). *)
BuiltinOf(nm, fmts, spans, envs, reads, bounds) ==
    {v \in [kind : {"builtin"}, name : {nm}, args : SeqOf(ArgKinds, MaxArgs),
            fmt : fmts, span : spans, env : envs, readable : reads,
            n : {0}, k : {0}, m : 0..MaxArgs, bound : bounds, body : {<<>>}] :
        v.m = Len(v.args)}

BuiltinInvocations ==
    LET none == {<<>>} IN
    UNION {BuiltinOf(nm, none, {"file"}, {TRUE}, {TRUE}, none) :
               nm \in {"stringify", "concat"}}
    \cup BuiltinOf("env", none, {"file"}, BOOLEAN, {TRUE}, none)
    \cup UNION {BuiltinOf(nm, none, {"none", "anon", "file"}, {TRUE}, {TRUE}, none) :
                   nm \in {"line", "column", "file"}}
    \cup BuiltinOf("include_bytes", none, {"file"}, {TRUE}, BOOLEAN, none)
    \cup BuiltinOf("format_args", FmtStrings, {"file"}, {TRUE}, {TRUE},
                   SeqOf({0}, 1))
    \cup BuiltinOf("bind", none, {"file"}, {TRUE}, {TRUE}, SeqOf({0}, 1))

(* An invocation of a macro with n parameters, et-cetera parameter k, and  *)
(* m arguments.  The expression visitor only lets a macro body contain a  *)
(* splice when the macro has an et-cetera parameter (MacroCtx).  A        *)
(* reduce! invocation names a macro with "bound" already bound by bind!   *)
(* (the bound argument is argument 0).                                     *)
Invocations ==
    {v \in [kind : {"regular"}, n : 0..MaxParams, k : 0..MaxParams,
            m : 0..MaxArgs, bound : {<<>>},
            body : SeqOf(Elems(MaxParams), MaxElems)] :
        /\ v.k <= v.n
        /\ \A j \in DOMAIN v.body :
              /\ v.body[j].p <= v.n
              /\ v.k = 0 => v.body[j].kind = "ref"}
    \cup [kind : {"reduce"}, n : {0}, k : {0}, m : 0..MaxArgs + 1,
          bound : SeqOf({0}, 1), body : {<<>>}]
    \cup BuiltinInvocations

Errors == {"NotEnoughMacroArguments", "ParamCountMismatch",
           "CannotEtCeteraHere", "EtCeteraInEtCetera", "MacroExpected",
           "ConstantStringExpected", "NoSpanInformation", "CannotReadFile",
           "InvalidFormatString"}

VARIABLES
    inv,      \* the invocation being expanded
    phase,    \* "bind", "walk", "ok", the error it ended with, or
              \* "Panic" when the compiler itself panics
    repl,     \* replacements: parameter -> argument index (0: unbound)
    etc,      \* et_cetera_arg: the arguments bound to the et-cetera param
    out,      \* the elements the expansion has produced so far
    i,        \* the element being visited
    idx,      \* et_cetera_index: the splice copy being made, 0 for None
    inLoop    \* the copy loop of a splice is running

vars == <<inv, phase, repl, etc, out, i, idx, inLoop>>

-----------------------------------------------------------------------------
(* Mutation: parameters after the et-cetera take args[i + etc_count].     *)
BindAfterEtcOffByOne(v) ==
    LET c == v.m + 1 - v.n IN
    [p \in 1..v.n |-> IF p < v.k THEN p ELSE IF p = v.k THEN 0 ELSE p + c]

(* expand_regular with an et-cetera parameter at k: parameters before k   *)
(* take args[i], the et-cetera takes args[k .. k + etc_count - 1] and the  *)
(* parameters after k take args[i + etc_count - 1] (1-based here).         *)
BindAroundEtc(v) ==
    LET c == v.m + 1 - v.n IN
    [p \in 1..v.n |-> IF p < v.k THEN p ELSE IF p = v.k THEN 0 ELSE p + c - 1]

EtcArgs(v) == [j \in 1..(v.m + 1 - v.n) |-> v.k + j - 1]

Init ==
    /\ inv \in Invocations
    /\ phase = "bind"
    /\ repl = <<>>
    /\ etc = <<>>
    /\ out = <<>>
    /\ i = 1
    /\ idx = 0
    /\ inLoop = FALSE

(* expand_regular: the binding, or NotEnoughMacroArguments /               *)
(* ParamCountMismatch.                                                     *)
Bind ==
    /\ phase = "bind" /\ inv.kind = "regular"
    /\ \/ /\ inv.k # 0 /\ inv.m + 1 < inv.n
          /\ phase' = "NotEnoughMacroArguments"
          /\ UNCHANGED <<repl, etc>>
       \/ /\ inv.k # 0 /\ inv.m + 1 >= inv.n
          /\ repl' = BindAroundEtc(inv)
          /\ etc' = EtcArgs(inv)
          /\ phase' = "walk"
       \/ /\ inv.k = 0 /\ inv.m # inv.n
          /\ phase' = "ParamCountMismatch"
          /\ UNCHANGED <<repl, etc>>
       \/ /\ inv.k = 0 /\ inv.m = inv.n
          /\ repl' = [p \in 1..inv.n |-> p]
          /\ phase' = "walk"
          /\ UNCHANGED etc
    /\ UNCHANGED <<inv, out, i, idx, inLoop>>

Elem == inv.body[i]

(* visit_expr, Local(id): a bound parameter is replaced by its argument;  *)
(* the et-cetera parameter by the current copy's argument inside a splice, *)
(* and CannotEtCeteraHere outside one.                                     *)
VisitLocal(p) ==
    \/ /\ p # inv.k
       /\ out' = Append(out, repl[p])
       /\ UNCHANGED phase
    \/ /\ p = inv.k /\ idx # 0
       /\ out' = Append(out, etc[idx])
       /\ UNCHANGED phase
    \/ /\ p = inv.k /\ idx = 0
       /\ phase' = "CannotEtCeteraHere"
       /\ UNCHANGED out

(* expand_args / Block: an element that is not a splice is visited once.   *)
VisitRef ==
    /\ phase = "walk" /\ i <= Len(inv.body)
    /\ Elem.kind = "ref"
    /\ VisitLocal(Elem.p)
    /\ i' = i + 1
    /\ UNCHANGED <<inv, repl, etc, idx, inLoop>>

(* expand_args / Block meet EtCetera(inner) with et_cetera_index None     *)
(* (with it set, that is the EtCeteraInEtCetera of a copy, see           *)
(* SpliceCopy): the copies start at index 0, and with no et-cetera        *)
(* argument there are none.  A struct initializer is visited with plain   *)
(* visit_expr, where EtCetera is CannotEtCeteraHere.                       *)
StartSplice ==
    /\ phase = "walk" /\ i <= Len(inv.body) /\ ~inLoop /\ idx = 0
    /\ Elem.kind \in {"splice", "nested"}
    /\ \/ /\ Elem.pos = "struct"
          /\ phase' = "CannotEtCeteraHere"
          /\ UNCHANGED <<i, inLoop>>
       \/ /\ Elem.pos # "struct" /\ etc = <<>>
          /\ i' = i + 1
          /\ UNCHANGED <<phase, inLoop>>
       \/ /\ Elem.pos # "struct" /\ etc # <<>>
          /\ inLoop' = TRUE
          /\ UNCHANGED <<phase, i>>
    /\ idx' = IF inLoop' THEN 1 ELSE 0
    /\ UNCHANGED <<inv, repl, etc, out>>

(* Mutation: the copy loop runs over 0..=len.                              *)
SpliceCopyThroughLen ==
    /\ phase = "walk" /\ inLoop
    /\ \/ /\ Elem.kind = "splice"
          /\ VisitLocal(Elem.p)
       \/ /\ Elem.kind = "nested"
          /\ phase' = "EtCeteraInEtCetera"
          /\ UNCHANGED out
    /\ \/ /\ idx < Len(etc) + 1
          /\ idx' = idx + 1
          /\ UNCHANGED <<i, inLoop>>
       \/ /\ idx = Len(etc) + 1
          /\ i' = i + 1
          /\ inLoop' = FALSE
          /\ idx' = 0
    /\ UNCHANGED <<inv, repl, etc>>

(* Mutation: the copy loop without "self.et_cetera_index = None".          *)
SpliceCopyNoReset ==
    /\ phase = "walk" /\ inLoop
    /\ \/ /\ Elem.kind = "splice"
          /\ VisitLocal(Elem.p)
       \/ /\ Elem.kind = "nested"
          /\ phase' = "EtCeteraInEtCetera"
          /\ UNCHANGED out
    /\ \/ /\ idx < Len(etc)
          /\ idx' = idx + 1
          /\ UNCHANGED <<i, inLoop>>
       \/ /\ idx = Len(etc)
          /\ i' = i + 1
          /\ inLoop' = FALSE
          /\ UNCHANGED idx
    /\ UNCHANGED <<inv, repl, etc>>

(* One copy of the splice with et_cetera_index = idx: the inner expression *)
(* is visited (a splice inside it is EtCeteraInEtCetera); after the last   *)
(* copy et_cetera_index is reset to None.                                  *)
SpliceCopy ==
    /\ phase = "walk" /\ inLoop
    /\ \/ /\ Elem.kind = "splice"
          /\ VisitLocal(Elem.p)
       \/ /\ Elem.kind = "nested"
          /\ phase' = "EtCeteraInEtCetera"
          /\ UNCHANGED out
    /\ \/ /\ idx < Len(etc)
          /\ idx' = idx + 1
          /\ UNCHANGED <<i, inLoop>>
       \/ /\ idx = Len(etc)
          /\ i' = i + 1
          /\ inLoop' = FALSE
          /\ idx' = 0
    /\ UNCHANGED <<inv, repl, etc>>

(* The list position is complete.                                          *)
Finish ==
    /\ phase = "walk" /\ inv.kind = "regular"
    /\ i > Len(inv.body) /\ ~inLoop
    /\ phase' = "ok"
    /\ UNCHANGED <<inv, repl, etc, out, i, idx, inLoop>>

(* The expansion of macro f (with the bound arguments) on args: the child  *)
(* expander's result, abstracted to the application node it builds.       *)
App(args) == <<"f">> \o args

(* reduce!: NotEnoughMacroArguments with fewer than two arguments;        *)
(* otherwise expr starts as the second argument (the first names f).       *)
ReduceStart ==
    /\ phase = "bind" /\ inv.kind = "reduce"
    /\ \/ /\ inv.m < 2
          /\ phase' = "NotEnoughMacroArguments"
          /\ UNCHANGED <<out, i>>
       \/ /\ inv.m >= 2
          /\ out' = <<2>>
          /\ i' = 3
          /\ phase' = "walk"
    /\ UNCHANGED <<inv, repl, etc, idx, inLoop>>

(* Mutation: bound arguments appended after the accumulator and argument. *)
ReduceStepBoundLast ==
    /\ phase = "walk" /\ inv.kind = "reduce" /\ i <= inv.m
    /\ out' = <<App(<<out[1], i>> \o inv.bound)>>
    /\ i' = i + 1
    /\ UNCHANGED <<inv, phase, repl, etc, idx, inLoop>>

(* reduce!: for each remaining argument, a child expander of f on the     *)
(* bound arguments, then expr, then the argument; its result is expr.      *)
ReduceStep ==
    /\ phase = "walk" /\ inv.kind = "reduce" /\ i <= inv.m
    /\ out' = <<App(inv.bound \o <<out[1], i>>)>>
    /\ i' = i + 1
    /\ UNCHANGED <<inv, phase, repl, etc, idx, inLoop>>

ReduceFinish ==
    /\ phase = "walk" /\ inv.kind = "reduce" /\ i > inv.m
    /\ phase' = "ok"
    /\ UNCHANGED <<inv, repl, etc, out, i, idx, inLoop>>

-----------------------------------------------------------------------------
(* expand_builtin.  For these arms "out" is the one expression the arm    *)
(* builds: a string literal, an integer literal, a macro reference with   *)
(* its bound arguments, or the application a child expansion builds; its *)
(* parts are the argument indices it is made of (0 a bound argument, -1 a *)
(* literal of the format string).                                          *)
Res(kind, parts) == [kind |-> kind, parts |-> parts]

Builtin(nm) == phase = "bind" /\ inv.kind = "builtin" /\ inv.name = nm

(* string_arg!: the argument is a string literal (any bytes).             *)
IsStr(j) == inv.args[j] \in {"str", "bytes"}

Yield(r) == phase' = "ok" /\ out' = r
Fail(e) == phase' = e /\ UNCHANGED out

BuiltinUnchanged == UNCHANGED <<inv, repl, etc, i, idx, inLoop>>

(* stringify!: assert_args!(1), then the pretty-printed argument.          *)
Stringify ==
    /\ Builtin("stringify")
    /\ \/ inv.m # 1 /\ Fail("ParamCountMismatch")
       \/ inv.m = 1 /\ Yield(Res("str", <<1>>))
    /\ BuiltinUnchanged

(* env!: assert_args!(1), string_arg!(0), then std::str::from_utf8 and     *)
(* std::env::var; any failure of either is "unreachable!()".              *)
Env ==
    /\ Builtin("env")
    /\ \/ inv.m # 1 /\ Fail("ParamCountMismatch")
       \/ inv.m = 1 /\ ~IsStr(1) /\ Fail("ConstantStringExpected")
       \/ inv.m = 1 /\ IsStr(1) /\ (inv.args[1] = "bytes" \/ ~inv.env)
          /\ Fail("Panic")
       \/ inv.m = 1 /\ inv.args[1] = "str" /\ inv.env
          /\ Yield(Res("str", <<>>))
    /\ BuiltinUnchanged

(* line! / column!: no argument check; the invocation span's 1-based line *)
(* or column, NoSpanInformation without a span.                            *)
LineColumn ==
    /\ \E nm \in {"line", "column"} : Builtin(nm)
    /\ \/ inv.span = "none" /\ Fail("NoSpanInformation")
       \/ inv.span # "none" /\ Yield(Res("int", <<>>))
    /\ BuiltinUnchanged

(* file!: assert_args!(0); the path of the span's file, NoSpanInformation *)
(* without a span or when the diagnostic context has no path for it.       *)
File ==
    /\ Builtin("file")
    /\ \/ inv.m # 0 /\ Fail("ParamCountMismatch")
       \/ inv.m = 0 /\ inv.span # "file" /\ Fail("NoSpanInformation")
       \/ inv.m = 0 /\ inv.span = "file" /\ Yield(Res("str", <<>>))
    /\ BuiltinUnchanged

(* include_bytes!: no argument check; string_arg!(0) indexes args[0] (a   *)
(* panic with no argument), from_utf8 failing is "unreachable!()", then   *)
(* the file is read or CannotReadFile.                                     *)
IncludeBytes ==
    /\ Builtin("include_bytes")
    /\ \/ inv.m = 0 /\ Fail("Panic")
       \/ inv.m > 0 /\ ~IsStr(1) /\ Fail("ConstantStringExpected")
       \/ inv.m > 0 /\ inv.args[1] = "bytes" /\ Fail("Panic")
       \/ inv.m > 0 /\ inv.args[1] = "str" /\ ~inv.readable
          /\ Fail("CannotReadFile")
       \/ inv.m > 0 /\ inv.args[1] = "str" /\ inv.readable
          /\ Yield(Res("str", <<>>))
    /\ BuiltinUnchanged

(* concat!: every argument a string literal, else ConstantStringExpected; *)
(* the literal is their bytes in argument order.                          *)
Concat ==
    /\ Builtin("concat")
    /\ \/ (\E j \in 1..inv.m : ~IsStr(j)) /\ Fail("ConstantStringExpected")
       \/ (\A j \in 1..inv.m : IsStr(j))
          /\ Yield(Res("str", [j \in 1..inv.m |-> j]))
    /\ BuiltinUnchanged

(* format_args (src/.../ast/format.rs, not under src/): the pieces of the *)
(* format string, "{}" numbered from 0 in order and "{N}" taken as given; *)
(* an argument hole beyond the count of supplied arguments is an error.   *)
RECURSIVE Pieces(_, _)
Pieces(f, next) ==
    IF f = <<>> THEN <<>>
    ELSE CASE Head(f).t = "s" ->
                <<[str |-> TRUE, arg |-> -1]>> \o Pieces(Tail(f), next)
           [] Head(f).t = "next" ->
                <<[str |-> FALSE, arg |-> next]>> \o Pieces(Tail(f), next + 1)
           [] Head(f).t = "pos" ->
                <<[str |-> FALSE, arg |-> Head(f).n]>> \o Pieces(Tail(f), next)

FormatArgsValid(f, count) ==
    \A j \in DOMAIN Pieces(f, 0) :
        Pieces(f, 0)[j].str \/ Pieces(f, 0)[j].arg < count

(* Mutation: an argument hole takes self.args[index + 1].                 *)
PieceArgsShifted(f) ==
    [j \in DOMAIN Pieces(f, 0) |->
        IF Pieces(f, 0)[j].str THEN -1 ELSE Pieces(f, 0)[j].arg + 2]

(* The loop over the pieces: a string piece becomes a literal, an         *)
(* argument piece Argument(index) becomes self.args[index + 2] (1-based   *)
(* here, index + 3).                                                       *)
PieceArgs(f) ==
    [j \in DOMAIN Pieces(f, 0) |->
        IF Pieces(f, 0)[j].str THEN -1 ELSE Pieces(f, 0)[j].arg + 3]

(* format_args!: NotEnoughMacroArguments(2), macro_arg!(0), string_arg!(1), *)
(* the format string's errors; then a child expander of the wrapper on its *)
(* bound arguments followed by the pieces (abstracted to the application). *)
FormatArgs ==
    /\ Builtin("format_args")
    /\ \/ inv.m < 2 /\ Fail("NotEnoughMacroArguments")
       \/ inv.m >= 2 /\ inv.args[1] # "macro" /\ Fail("MacroExpected")
       \/ inv.m >= 2 /\ inv.args[1] = "macro" /\ ~IsStr(2)
          /\ Fail("ConstantStringExpected")
       \/ inv.m >= 2 /\ inv.args[1] = "macro" /\ IsStr(2)
          /\ ~FormatArgsValid(inv.fmt, inv.m - 2) /\ Fail("InvalidFormatString")
       \/ inv.m >= 2 /\ inv.args[1] = "macro" /\ IsStr(2)
          /\ FormatArgsValid(inv.fmt, inv.m - 2)
          /\ Yield(Res("app", inv.bound \o PieceArgs(inv.fmt)))
    /\ BuiltinUnchanged

(* bind!: NotEnoughMacroArguments(1), macro_arg!(0); a macro reference to *)
(* the bindee whose bound arguments are the previous ones followed by the *)
(* remaining arguments.                                                    *)
BindBuiltin ==
    /\ Builtin("bind")
    /\ \/ inv.m = 0 /\ Fail("NotEnoughMacroArguments")
       \/ inv.m > 0 /\ inv.args[1] # "macro" /\ Fail("MacroExpected")
       \/ inv.m > 0 /\ inv.args[1] = "macro"
          /\ Yield(Res("macro", inv.bound \o [j \in 1..inv.m - 1 |-> j + 1]))
    /\ BuiltinUnchanged

Next ==
    \/ Bind \/ VisitRef \/ StartSplice \/ SpliceCopy \/ Finish
    \/ ReduceStart \/ ReduceStep \/ ReduceFinish
    \/ Stringify \/ Env \/ LineColumn \/ File \/ IncludeBytes \/ Concat
    \/ FormatArgs \/ BindBuiltin

(* Expansion is a terminating, sequential computation.                    *)
Spec == Init /\ [][Next]_vars

-----------------------------------------------------------------------------
Regular == inv.kind = "regular"

(* Types; in particular the splice loop's et_cetera_index only names     *)
(* existing et-cetera arguments, and every expansion only uses the        *)
(* invocation's arguments.                                                 *)
TypeOK ==
    /\ inv \in Invocations
    /\ phase \in {"bind", "walk", "ok", "Panic"} \cup Errors
    /\ inv.kind = "builtin" /\ phase = "ok" =>
          out \in [kind : {"str", "int", "macro", "app"}, parts : Seq(-1..inv.m)]
    /\ Regular /\ phase \in {"walk", "ok"} =>
          /\ repl \in [1..inv.n -> 0..inv.m]
          /\ etc \in Seq(1..inv.m)
          /\ out \in Seq(1..inv.m)
          /\ i \in 1..Len(inv.body) + 1
          /\ idx \in 0..Len(etc)
          /\ inLoop \in BOOLEAN

(* Spec 4.2, the binding table: the arguments bound to the parameters,    *)
(* taken in parameter order (the et-cetera parameter's tuple spliced in),  *)
(* are exactly the invocation's arguments in order; expand_regular fails  *)
(* only when the table has no row for the argument count.                  *)
ArgsOfParam(p) == IF p = inv.k THEN etc ELSE <<repl[p]>>

BindingFollowsTable ==
    Regular =>
      /\ phase \in {"walk", "ok", "CannotEtCeteraHere", "EtCeteraInEtCetera"} =>
            FlattenSeq([p \in 1..inv.n |-> ArgsOfParam(p)]) = [j \in 1..inv.m |-> j]
      /\ phase # "bind" =>
            (phase \in {"NotEnoughMacroArguments", "ParamCountMismatch"} <=>
                \/ inv.k # 0 /\ inv.m < inv.n - 1
                \/ inv.k = 0 /\ inv.m # inv.n)

(* Spec 4.2 rules 1 and 4, and section 9: what one element of a list       *)
(* position expands to under the binding: a reference its argument (the   *)
(* et-cetera parameter only inside a splice); a splice one copy per        *)
(* et-cetera argument, in any list position; a splice within a splice is  *)
(* an error.                                                                *)
Yields(x) == [err |-> FALSE, val |-> x]
Fails(e) == [err |-> TRUE, val |-> e]

SpecElem(e) ==
    CASE e.kind = "ref" /\ e.p = inv.k -> Fails("CannotEtCeteraHere")
      [] e.kind = "ref" -> Yields(<<repl[e.p]>>)
      [] e.kind = "splice" /\ e.p = inv.k -> Yields(etc)
      [] e.kind = "splice" -> Yields([j \in DOMAIN etc |-> repl[e.p]])
      [] e.kind = "nested" -> Fails("EtCeteraInEtCetera")

RECURSIVE SpecExpand(_)
SpecExpand(b) ==
    IF b = <<>> THEN Yields(<<>>)
    ELSE LET h == SpecElem(Head(b)) IN
         IF h.err THEN h
         ELSE LET t == SpecExpand(Tail(b)) IN
              IF t.err THEN t ELSE Yields(h.val \o t.val)

(* A completed expansion of a list position is the specified one: every   *)
(* element in order, each splice giving one copy per et-cetera argument,  *)
(* and the first illegal element's error.  This relates the splice index  *)
(* the expander keeps across copies to the elements that come after.      *)
ExpansionMatchesSpec ==
    Regular /\ phase \notin {"bind", "walk", "NotEnoughMacroArguments",
                              "ParamCountMismatch"} =>
        SpecExpand(inv.body) = IF phase = "ok" THEN Yields(out) ELSE Fails(phase)

(* Spec 4.2 / 8: reduce!(f, a1, ..., an) is the left fold of f over the    *)
(* arguments, f's bound arguments first: f(f(a1, a2), a3) ... .            *)
ReduceIsLeftFold ==
    inv.kind = "reduce" /\ phase = "ok" =>
        out = <<FoldLeft(LAMBDA acc, a : App(inv.bound \o <<acc, a>>), 2,
                         [j \in 1..inv.m - 2 |-> j + 2])>>

(* Spec 4.2, format_args!: the wrapper gets its bound arguments, then the *)
(* format string's pieces in order, each literal run a string literal and *)
(* each hole the supplied argument it names ("{}" the next one, "{N}" the *)
(* N-th of the arguments after the format string); the expansion fails   *)
(* exactly when fewer than two arguments are given, the first is not a    *)
(* macro, the second not a string, or a hole names a missing argument.    *)
FormatArgsMatchesSpec ==
    inv.kind = "builtin" /\ phase # "bind" /\ inv.name = "format_args" =>
        LET remaining == [j \in 1..inv.m - 2 |-> j + 2]
            holes == Pieces(inv.fmt, 0)
            valid == /\ inv.m >= 2 /\ inv.args[1] = "macro"
                     /\ inv.args[2] \in {"str", "bytes"}
                     /\ \A j \in DOMAIN holes :
                           holes[j].str \/ holes[j].arg + 1 \in DOMAIN remaining
        IN  /\ phase = "ok" <=> valid
            /\ phase = "ok" =>
                  out = Res("app", inv.bound \o
                          [j \in DOMAIN holes |->
                              IF holes[j].str THEN -1
                              ELSE remaining[holes[j].arg + 1]])

(* The built-in arms never bring the compiler down: env! and              *)
(* include_bytes! mark their from_utf8 / env::var failures                *)
(* "unreachable!()", and include_bytes! indexes args[0] without           *)
(* assert_args!; a bad invocation is reported as a code error instead.    *)
BuiltinsNeverPanic == phase # "Panic"
====
