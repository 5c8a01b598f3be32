--------------------------- MODULE CEmitterLines ---------------------------
(***************************************************************************)
(* Source-line tracking of the C emitter's body buffer (src/.../codegen/   *)
(* functions.rs, FunctionWriter): write_function_body, write_const and the *)
(* #line logic at the top of write_expr.                                   *)
(*                                                                         *)
(* The text itself is abstracted away: what is kept is every newline and   *)
(* every #line directive written to fn_bodies, and the FunctionWriter's    *)
(* last_span.  From them the model tracks "mapped", the source position    *)
(* the C compiler assigns to the output line being written: a directive    *)
(* "#line N file" makes the next line N of file, and every newline after   *)
(* it advances the line by one.  Items reach the writer in any order.      *)
(***************************************************************************)
EXTENDS Naturals, FiniteSets

CONSTANTS
    Files,        \* source files named by spans
    KnownFiles,   \* files the diagnostic context has a path for
    MaxLine,      \* span lines are 0..MaxLine (0-based, as Span.line)
    MaxItems,     \* most functions and consts written
    MaxExprs,     \* most write_expr calls for one item
    MaxLocals,    \* most local definitions of one function
    Debug,        \* the "debug" flag: no indentation, no statement newlines
    OutFile       \* the C file itself, before any #line directive

ASSUME KnownFiles \subseteq Files /\ OutFile \notin Files
ASSUME {MaxLine, MaxItems, MaxExprs, MaxLocals} \subseteq Nat
ASSUME Debug \in BOOLEAN

Span == [file : Files, line : 0..MaxLine]
NoSpan == [file |-> OutFile, line |-> 0]   \* an expression with span None

(* Lines beyond every span line are all told apart from span lines alike. *)
Beyond == MaxLine + 1

VARIABLES
    pc,          \* "idle", or the item whose body is being written
    lastSpan,    \* FunctionWriter.last_span (NoSpan for None)
    mapped,      \* source position C assigns to the current output line
    stmtOpen,    \* a statement's expression is written, its ";" is not
    items,       \* functions and consts written so far
    exprs,       \* write_expr calls for the current item
    directive,   \* a #line directive has been written
    misplaced    \* the items in which a spanned expression of a known
                 \* file landed on a line C attributes elsewhere

vars == <<pc, lastSpan, mapped, stmtOpen, items, exprs, directive, misplaced>>

-----------------------------------------------------------------------------
(* n newlines written to fn_bodies.                                        *)
Newlines(m, n) ==
    IF m.file = OutFile THEN m
    ELSE [m EXCEPT !.line = IF @ + n > Beyond THEN Beyond ELSE @ + n]

(* FunctionWriter::endl: a statement ends a line unless debug is set.      *)
Endl == IF Debug THEN 0 ELSE 1

(* Mutation: the directive written with the 0-based span.line.            *)
LineDirectiveZeroBased(s) == [s EXCEPT !.line = @ - 1]

(* "\n#line {span.line + 1} file\n": the next output line is, for C, line *)
(* span.line + 1 (1-based) of the file, that is span line span.line.       *)
LineDirective(s) == s

(* The #line logic of write_expr for an expression with span s, followed  *)
(* by the start of the expression's own text on the line then current.    *)
WriteExprSpan(s) ==
    /\ \/ /\ s = NoSpan
          /\ lastSpan' = NoSpan
          /\ UNCHANGED <<mapped, directive>>
       \/ /\ s # NoSpan
          /\ lastSpan # NoSpan /\ lastSpan.file = s.file
          /\ lastSpan.line = s.line
          /\ UNCHANGED <<lastSpan, mapped, directive>>
       \/ /\ s # NoSpan
          /\ lastSpan # NoSpan /\ lastSpan.file = s.file
          /\ lastSpan.line + 1 = s.line
          /\ mapped' = Newlines(mapped, 1)
          /\ lastSpan' = s
          /\ UNCHANGED directive
       \/ /\ s # NoSpan
          /\ ~(lastSpan # NoSpan /\ lastSpan.file = s.file
               /\ lastSpan.line \in {s.line, s.line - 1})
          /\ s.file \in KnownFiles
          /\ mapped' = LineDirective(s)
          /\ directive' = TRUE
          /\ lastSpan' = s
       \/ /\ s # NoSpan
          /\ ~(lastSpan # NoSpan /\ lastSpan.file = s.file
               /\ lastSpan.line \in {s.line, s.line - 1})
          /\ s.file \notin KnownFiles
          /\ lastSpan' = s
          /\ UNCHANGED <<mapped, directive>>
    /\ misplaced' = IF s.file \in KnownFiles /\ mapped' # s
                      THEN misplaced \cup {pc} ELSE misplaced

-----------------------------------------------------------------------------
Init ==
    /\ pc = "idle"
    /\ lastSpan = NoSpan
    /\ mapped = NoSpan
    /\ stmtOpen = FALSE
    /\ items = 0
    /\ exprs = 0
    /\ directive = FALSE
    /\ misplaced = {}

(* Mutation: write_function_body without "self.last_span = None".          *)
WriteFunctionBodyKeepSpan ==
    /\ pc = "idle" /\ items < MaxItems
    /\ \E locals \in 0..MaxLocals :
          mapped' = Newlines(mapped, 2 + locals)
    /\ pc' = "fn"
    /\ items' = items + 1
    /\ exprs' = 0
    /\ UNCHANGED <<lastSpan, stmtOpen, directive, misplaced>>

(* write_function_body of a function with a body and no parameter of type *)
(* never: the signature ("\n...(...)"), "{\n", one line per local         *)
(* definition, then last_span is reset before the statements.              *)
WriteFunctionBody ==
    /\ pc = "idle" /\ items < MaxItems
    /\ \E locals \in 0..MaxLocals :
          mapped' = Newlines(mapped, 2 + locals)
    /\ lastSpan' = NoSpan
    /\ pc' = "fn"
    /\ items' = items + 1
    /\ exprs' = 0
    /\ UNCHANGED <<stmtOpen, directive, misplaced>>

(* write_function_body of a function taking a never-typed parameter: its  *)
(* body is one span-less __builtin_unreachable() statement.               *)
WriteUncallableBody ==
    /\ pc = "idle" /\ items < MaxItems
    /\ mapped' = Newlines(mapped, 2 + Endl + 1)
    /\ lastSpan' = NoSpan
    /\ items' = items + 1
    /\ UNCHANGED <<pc, stmtOpen, exprs, directive, misplaced>>

(* write_stmt / write_expr inside a function body: one expression of a    *)
(* statement, outer expressions before inner ones.                         *)
FnWriteExpr ==
    /\ pc = "fn" /\ exprs < MaxExprs
    /\ \E s \in Span \cup {NoSpan} : WriteExprSpan(s)
    /\ stmtOpen' = TRUE
    /\ exprs' = exprs + 1
    /\ UNCHANGED <<pc, items>>

(* write_stmt: ";" and endl() after the statement's expression.             *)
EndStmt ==
    /\ pc = "fn" /\ stmtOpen
    /\ mapped' = Newlines(mapped, Endl)
    /\ stmtOpen' = FALSE
    /\ UNCHANGED <<pc, lastSpan, items, exprs, directive, misplaced>>

(* write_function_body: "}\n".                                             *)
EndFunctionBody ==
    /\ pc = "fn" /\ ~stmtOpen
    /\ mapped' = Newlines(mapped, 1)
    /\ pc' = "idle"
    /\ UNCHANGED <<lastSpan, stmtOpen, items, exprs, directive, misplaced>>

(* write_const: "\nconst static T name = "; in_const_init is set and the *)
(* initializer is written next.  last_span is left as the previous item   *)
(* left it.                                                                 *)
WriteConst ==
    /\ pc = "idle" /\ items < MaxItems
    /\ mapped' = Newlines(mapped, 1)
    /\ pc' = "const"
    /\ items' = items + 1
    /\ exprs' = 0
    /\ UNCHANGED <<lastSpan, stmtOpen, directive, misplaced>>

(* write_expr within the const initializer.                                *)
ConstWriteExpr ==
    /\ pc = "const" /\ exprs < MaxExprs
    /\ \E s \in Span \cup {NoSpan} : WriteExprSpan(s)
    /\ exprs' = exprs + 1
    /\ UNCHANGED <<pc, stmtOpen, items>>

(* write_const: ";\n" once the initializer is written.                     *)
EndConst ==
    /\ pc = "const" /\ exprs > 0
    /\ mapped' = Newlines(mapped, 1)
    /\ pc' = "idle"
    /\ UNCHANGED <<lastSpan, stmtOpen, items, exprs, directive, misplaced>>

Next ==
    \/ WriteFunctionBody
    \/ WriteUncallableBody
    \/ FnWriteExpr
    \/ EndStmt
    \/ EndFunctionBody
    \/ WriteConst
    \/ ConstWriteExpr
    \/ EndConst

(* The writer stops once the last item is written (MaxItems).             *)
Spec == Init /\ [][Next]_vars

-----------------------------------------------------------------------------
(* Types; in particular every line number C is given by a #line directive *)
(* is a valid (positive, 1-based) line.                                    *)
TypeOK ==
    /\ pc \in {"idle", "fn", "const"}
    /\ lastSpan \in Span \cup {NoSpan}
    /\ mapped \in [file : Files \cup {OutFile}, line : 0..Beyond]
    /\ stmtOpen \in BOOLEAN
    /\ items \in 0..MaxItems
    /\ exprs \in 0..MaxExprs
    /\ directive \in BOOLEAN
    /\ misplaced \subseteq {"fn", "const"}

(* In a debug build every expression of a function body that carries a    *)
(* span of a known file is written on a C line that the #line directives  *)
(* attribute to that span's line, whatever was written before the body:   *)
(* the last_span reset of write_function_body and the newline/#line       *)
(* choice of write_expr keep the compiler's line count in step.            *)
FunctionSpansAttributed == Debug => "fn" \notin misplaced

(* The same for every item written to fn_bodies, const initializers       *)
(* included.                                                                *)
SpansAttributed == Debug => misplaced = {}

(* Spec section 6: line directives are present only when "debug" is set.   *)
NoLineDirectivesWithoutDebug == ~Debug => ~directive
====
