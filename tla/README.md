# TLA+ models of the alumina bootstrap compiler

These modules model the parts of `src/` (the Rust bootstrap compiler of the
Alumina language) where order, recursion or state kept between steps decides
what the compiler does. Each module translates the code named in
`PROJECT.json` ("map"). `PROJECT.json` also lists the runs, the mutants that
show each property can fail, the findings, and the hazards.

## The system and its parts

The driver (`main.rs`) collects the source files (the sysroot's `*.alu`
files, then the positional modules) and the `--cfg` flags, and hands them
to the compiler. The compiler runs its passes one after another, on one
thread:

- parse;
- first pass (`name_resolution/pass1.rs`);
- item making (`ast/maker.rs`, `ast/macros.rs`);
- monomorphization;
- IR passes;
- C emission (`codegen/functions.rs`).

Nothing is persisted, nothing runs concurrently, and no operation waits. What
makes the code hard to test is therefore:

- **recursion and re-entry**: making a macro resolves the macros its body
  names, which may lead back to itself;
- **state carried from one step to the next**:
  - the expander's `et_cetera_index` between splice copies;
  - the C writer's `last_span` between items;
  - the attribute visitor's collected attributes between items;
- **two pieces of code that must agree**:
  - a function's prototype and its definition;
  - a call and the prototype;
  - the code and the spec's tables.

| Part | Source | Module | Status |
|---|---|---|---|
| Macro maker: lazy, two-step construction, RecursiveMacroCall | `ast/macros.rs` `MacroMaker::make`, `ast/maker.rs` item loop, `ast/mod.rs` `ItemCell` | `MacroMaker` | modelled |
| Macro expander: binding, splices, built-ins | `ast/macros.rs` `MacroExpander` | `MacroArgs` | modelled |
| Attributes and `cfg` | `visitors.rs` `AttributeVisitor`, `CfgVisitor` | `Attributes` | partly |
| C emitter: `#line` tracking | `codegen/functions.rs` `FunctionWriter` | `CEmitterLines` | partly |
| C emitter: function linkage and arity | `codegen/functions.rs` `write_function_signature`, `write_function_decl`, `write_function_body`, the `Call` arm | `FunctionLinkage` | partly |
| First pass (scopes, items, main candidate) | `name_resolution/pass1.rs` `FirstPassVisitor` | `FirstPass` | partly |
| IR data model: arena, type interning, item cells, type lattice | `ir/mod.rs` `IrCtx`, `Ty`, `IRItemCell` | `IrTypes`, `IrCtx`, `InternTable` (abstract) | partly |
| Item maker: groups, impl blocks, placeholders, per-item checks | `ast/maker.rs` `AstItemMaker::make`, `make_item_group`, `make_impl`, `make_type` and the builders | `ItemMaker` | partly |
| Driver: sysroot walk, positional modules, `--cfg`, exit code | `main.rs` `get_sysroot`, `parse_module`, `parse_cfg`, `run`, `main` | `Driver` | modelled |

## Modules

### MacroMaker

- **State**:
  - the program's macros and function, as kinds and the references their bodies make;
  - the `ItemCell` of each macro (`cell`) and its body `OnceCell` (`body`);
  - the Rust call stack of `make()` frames (`stack`);
  - the item maker's position (`next`).
- **Actions**:
  - `ItemMakerNext`: the loop of `AstItemMaker::make`;
  - each branch of `MacroMaker::make`: `MakeAlreadyAssigned`, `MakeBuiltin`, `MakeRejected` and `MakeMacro`;
  - `VisitMacroRef`: visiting a macro reference in a body;
  - `FinishMacroBody`: the body `set` after the visit;
  - `FinishFnBody`;
  - `Return`: the expansion of an invocation inside a function body;
  - `Finish`.
- **Spec-modelled parts**: the `ExpressionVisitor` lies outside `src/`. Its
  resolution of macro paths (`VisitMacroRef`, `Return`) is modelled from the spec.

### MacroArgs

One invocation of a user macro, over one list position. The body's list
elements are:

- parameter references;
- splices `$x...` in argument, statement or struct-initializer position;
- nested splices.

`Bind` is `expand_regular`. The splice loop of `expand_args` and of the
`Block` arm is `StartSplice` plus one `SpliceCopy` per copy, with
`et_cetera_index` (`idx`) as state. `VisitLocal` is the `Local` arm.
`ReduceStart`, `ReduceStep` and `ReduceFinish` are the `reduce!` loop. The
child expansion of `f` is abstracted to the application node it builds (`App`).

The other built-ins are one action each, taken from the arms of
`expand_builtin`: `Stringify`, `Env`, `LineColumn`, `File`, `IncludeBytes`,
`Concat`, `FormatArgs` and `BindBuiltin`. An argument is abstracted to its
kind (string, byte string, macro, other expression). The environment, the
file system and the invocation span are inputs of the invocation
(`BuiltinInvocations`). A `Panic` phase stands for the `unreachable!()` arms
and for an out-of-range `args[0]`. The format-string parser (`format_args` in
`common/format.rs`) is not under `src/`; its pieces (`Pieces`) and its error
conditions (`FormatArgsValid`) are modelled from the spec.

### FirstPass

`FirstPassVisitor` over one source file.

- **Input**: the file's tree, in document order, with each node's kind, name,
  whether its `cfg` holds, and the attributes that decide main detection. The
  trees are grown one node at a time (`Grow`), and each node hangs below the
  previous node or one of its ancestors, as the grammar allows (`Allowed`).
- **State**:
  - the visitor's recursion as a stack of frames, each holding the node, the
    next child and what `with_child_scope!` saved;
  - `scope`, `inContainer`, `enumItem`, `mainCandidate`;
  - the recorded items (`items`).
- **Actions**: one per `visit_*` method, plus:
  - `SkipDisabled`: `parse_attributes!` returning early;
  - `LeaveScope`: the end of `with_child_scope!`;
  - `Finish`.
- **Spec-modelled parts**: `Scope::add_item` and `visit_children_by_field` are
  not under `src/`. Recording an item follows spec 4.1. Duplicate-name errors
  and `use` declarations are left out.

### Attributes

The attribute items of one node, visited in order by
`AttributeVisitor::visit_meta_item`. The items are `inline`, `align`,
`packed`, `cold`, `cfg(cond)` and `cfg_attr(cond, attr)`. The `cfg`
evaluator (`CfgEval`, `EvalArgs`) is a RECURSIVE translation of
`CfgVisitor::visit_meta_item` and `visit_meta_arguments`, with their
short-circuits. It is checked against the boolean reading of spec 4.5
(`Holds`). The `align` arm (`AlignArm`) takes its argument as a number (or
text that does not parse): `align(1)` is only a warning and adds nothing,
a number that is not a power of two (0 included) is rejected, and only then
is `packed` looked for.

### CEmitterLines

- **State**:
  - `fn_bodies` is reduced to its newlines and `#line` directives;
  - `mapped`: the source line the C compiler attributes to the current output line;
  - `last_span`.
- **Actions**:
  - `WriteFunctionBody`, `WriteUncallableBody`, `FnWriteExpr`, `EndStmt` and `EndFunctionBody`;
  - `WriteConst`, `ConstWriteExpr` and `EndConst`.
- **Shared logic**: the `#line` logic at the top of `write_expr` is `WriteExprSpan`.
- **Items**: up to three, in any order.

### FunctionLinkage

- **Input**: one IR function, enumerated over every attribute combination (export, link_name, inline), body, lambda or named, and parameters of each zero-sizedness.
- **Actions**: writing its prototype, its definition and a call to it.
- **Output abstraction**: the text is reduced to what C's rules look at:
  - the name scheme (Native, Mangled, Id);
  - `static`;
  - the asm label;
  - the parameter-list tokens.

### IrTypes, IrCtx and InternTable

- **IrTypes** holds no state. It models:
  - `enum Ty` as records (`Builtin`, `ItemTy`, `Pointer`, `Array`, `Tuple`,
    `FunctionPointer`); a type names an item cell by its id;
  - `Ty`'s pure functions as operators: `AssignableFrom`, `Gcd` (a CASE
    whose arms are the match arms in order), `CanonicalType`, `IsVoid`,
    `IsNever`;
  - `IsZeroSized` as a RECURSIVE operator over the cells' contents. It
    returns `Ok(v)`, `Panic` (the `unwrap` of an empty cell, or
    `unreachable!()` for a protocol, static or const) or `Overflow` (a
    self-containing type, cut off after `Depth` nested calls).
  - The reference it is checked against is `SizeOf`, a type's byte size
    under a layout, defined for the types `HasLayout` accepts.
- **IrCtx** is the arena context.
  - **State**:
    - `arena`, the bump allocator's allocations (cells and types);
    - `types`, the intern set;
    - `counter`;
    - `contents`, each cell's `OnceCell`;
    - `interned`, what `intern_type` last returned;
    - `query` and `answers`, the last `is_zero_sized` call and the first
      answer for each type;
    - `status`, which records a panic.
  - **Actions**: `MakeId`, `MakeSymbol`, `InternType` and `Assign` are the
    methods of the same names. `QueryZeroSized` asks `is_zero_sized` at any
    point while cells are being filled.
- **InternTable** is the abstract specification of interning (spec
  section 3): a map from types to addresses, where a known type returns its
  address and a new type gets an unused one.
  - `IrCtx` instantiates it with
    `table <- [t \in interned types |-> its address]` and `ret <- interned`.
  - The run checks `InternRefinesTable == Table!Spec` as a PROPERTY.
  - Allocations of cells between calls are stuttering steps of the table.

### ItemMaker

- **Input**: a file's scope tree, a sequence of nodes. Each node has a kind
  (module, struct, enum, impl, protocol, typedef, macro, fn, static, const,
  mixin, generic, field), a name, the syntax its checks look at (extern, ABI,
  body, type, initializer, varargs, transparent) and a parent. The constant
  `Shapes` gives the allowed node shapes. `Init` takes every file of up to
  `MaxNodes` nodes that the grammar allows (`Allowed`) and that
  `Scope::add_item` would accept (`WellFormed`).
- **State**:
  - `tasks`: the Rust call stack of `make`, `make_item_group`, `make_impl` and
    `make_type`, as a stack of tasks;
  - `ambient`: `self.ambient_placeholders`;
  - `made`: the assigned item cells, with kind, placeholders, associated
    functions and mixin placeholders;
  - `symbols`: `self.symbols`;
  - `status`: running, ok or the error.
- **Actions**:
  - `Make`: `make` pushes one group task per name, as `grouped_items` gives them;
  - one action per arm of `make_item_group`: `MakeModuleGroup`,
    `RejectFreeStandingImpl`, `MakeTypeGroup`, `MakeProtocolGroup`,
    `MakeMacro`, `SkipGroup` (the `_` arm), plus the builders that the arms
    call: `MakeStructLike`, `MakeEnum`, `MakeProtocol`, `MakeTypeDef`,
    `MakeFunction`, `MakeStaticOrConst`;
  - each builder runs its checks in code order (`FnError`, `StaticError`)
    before it assigns the cell;
  - `MakeImpl` sets the ambient placeholders and makes the impl's items,
    and `EndImpl` clears them;
  - `Finish`: the outer `make` returns `Ok`.
- **Abstractions**: warnings, `DynSelf` and the bodies, types and enum values
  visited by other visitors are left out. Enum members and fields count only
  as the items they add.

### Driver

- **Input**: the command line as clap gives it to `run()` (`Args`), and the
  sysroot: a tree of up to `MaxEntries` entries below its root, each a
  directory, a file, or an entry WalkDir reports as an error (unreadable, a
  symlink loop). A name is its base and its extension, so `ends_with(".alu")`
  and `strip_suffix(".alu")` act on the whole name. A positional or `--cfg`
  argument is a sequence of parts, with `=` as a part of its own, so that
  `find('=')` and the slices around it are modelled.
- **State**: `phase` (where `run()` is), `stack` (WalkDir's open
  directories, each with the entries it has still to yield), `files` (the
  `SourceFile`s), `cfg`, `diag` (errors and timing notes), `output` and
  `exit` (101 for a panic).
- **Actions**:
  - `GetSysroot`: no sysroot gives no files, an unreadable root panics at
    the `unwrap`, and a readable root is opened;
  - `WalkEntry`: one iteration of the loop, in any `read_dir` order. An
    error panics, and a module file is pushed with `ModulePath`. WalkDir
    then descends into a directory whatever the body did;
  - `AddModules`: the positional modules, with `parse_module` and
    `infer_module_name` (`file_stem().unwrap()` panics on `..`);
  - `ApplyCfg`: `add_cfg`/`add_flag` for each `--cfg`, then `debug`;
  - `Compile`: the match on `compile`. The compiler is not under `src/`,
    so its outcome is nondeterministic: `Ok` with or without reported
    errors, or `Err`. A failed write of the report or of the program
    panics. `ExitCode` is `main()`'s exit code.

## Runs

| Run | Checks | Result |
|---|---|---|
| `macro_maker` | `TypeOK` (incl. make() recursion depth), `CompletedMacrosSound`, `ExpansionSafe`, `OutcomeCorrect` (liveness) | pass, 1.5M states |
| `macro_args` | `TypeOK`, `BindingFollowsTable`, `ExpansionMatchesSpec`, `ReduceIsLeftFold`, `FormatArgsMatchesSpec` | pass |
| `builtin_panic` | `BuiltinsNeverPanic` | violation |
| `attributes` | `TypeOK` (only a power of two above 1 is collected as `Align`), `CfgConditionsHonoured`, `AlignPackedExclusive` | pass |
| `emitter_lines` | `TypeOK`, `FunctionSpansAttributed` (debug build) | pass |
| `linkage` | `ArityAgrees`, `PrivateDefinitionsHidden` | pass |
| `link_name_linkage` | `DefinitionLinkageAgrees` | violation |
| `first_pass` | `ItemsInDeclaringScope`, `MainDetected` | pass, 661k states |
| `ir_ctx` | `ZeroSizedMatchesLayout`, `ZeroSizedStable`, `InternRefinesTable` (refinement) | pass, 542k states |
| `item_maker` | `TypeOK` (no cell assigned twice), `PlaceholdersFollowScopes`, `MadeItemsComplete` | pass, 62k states |
| `impls_without_type` | `MadeItemsComplete` | violation |
| `driver` | `TypeOK` (only files are compiled), `SysrootFilesFound`, `ModulePathsFollowLayout` | pass, 596k states |

`FirstPass`, `FunctionLinkage` and `IrCtx` define a `TypeOK` that no run
checks. No plausible bug in the code they map can take their state out of
those sets: the visitor's frames are the Rust call stack, and the arena's
keys are what `alloc` returns. The driver's exit code is not a property
either. `Compile` is one step, and its report, check and write happen in the
order `ExitCode` spells out, so a property about that order would only
restate `ExitCode`.

What the violations show (details in "findings" of `PROJECT.json`):

1. **A `link_name` function with a body gets mismatched linkage.** In a
   release build it gets an external prototype and a `static` definition,
   which C rejects.
2. **`env!` of an unset variable panics the compiler.** The arm reaches
   `unreachable!()` instead of reporting an error. `include_bytes!` with no
   argument (it has no `assert_args!`) or with a non-UTF-8 name panics the
   same way.
3. **Two impl blocks with no type are silently accepted.** A single impl
   block of a name with no type is `NoFreeStandingImpl`. Two of them form the
   group `[Impl, Impl]`, which falls into `make_item_group`'s `_ => {}` arm:
   `make` returns `Ok` and the functions inside them are never made. Spec 4.1
   says impls must accompany a type.

Eight more configurations state what the spec says and are not part of the
runs. TLC finds each of them violated, and each is recorded as a hazard in
`PROJECT.json`:

- `MCDuplicateAttributes.cfg` (`NoDuplicateAttributes`): the `inline`
  duplicate check misses `NoInline`, so `#[inline(never)] #[inline(never)]`
  is accepted.
- `MCCEmitterNoDebug.cfg` (`NoLineDirectivesWithoutDebug`): `#line`
  directives are written in release builds too.
- `MCExportInline.cfg` (`ExportedBodiesExternal`): an `#[export] #[inline]`
  function is defined `static`, while spec 4.4 says exported bodies are
  non-static.
- `MCCEmitterConst.cfg` (`SpansAttributed`): `write_const` keeps a stale
  `last_span`, so a const initializer's expressions can be attributed to the
  wrong source line.
- `MCVarargsSignature.cfg` (`SignatureWellFormed`): a variadic function whose
  parameters are all zero-sized gets the parameter list `(, ...)`.
- `MCGcdJoin.cfg` (`GcdIsUpperBound`): `Ty::gcd` of `&const T` and `&mut T`
  is `&mut T`. `assignable_from` does not accept `&const T` into `&mut T`,
  so the join of the two is not a supertype of both; it should be the const
  pointer.
- `MCDriverPanic.cfg` (`ExitCodeZeroOrOne`): a `--sysroot` that cannot be
  walked (missing, unreadable, a symlink loop) panics at
  `get_sysroot(&args).unwrap()` and exits 101. Spec section 6 gives exit
  code 1 for any error, and lists `CannotReadFile`.
- `MCStructSplice.cfg` (`ExpansionMatchesSpec`): a splice in a struct
  initializer is an error, while spec section 9 lists struct initializers
  among the list positions.

Every property of a passing run has a mutant in `PROJECT.json`. A mutant is a
plausible bug in the mapped code, and TLC finds it under the run's own
configuration. Examples:

- the `ItemCell` assigned only after the body is visited (unbounded recursion);
- the `et_cetera_index = None` reset dropped;
- `args[i + etc_count]` instead of `args[i + etc_count - 1]`;
- `last_span` not reset in `write_function_body`;
- a `#line` directive written with the 0-based line;
- zero-sized call arguments not filtered;
- `format_args!` hole N taken from `args[N + 1]` instead of `args[N + 2]`;
- `with_child_scope!` without the scope restore;
- `#[export]` not excluded from main detection;
- `intern_type` without its lookup (breaks the refinement);
- `[T; 0]` judged by its element alone;
- `IRItemCell::assign` as a plain overwrite;
- `make_impl` without the ambient-placeholder reset;
- a directory named `x.alu` compiled as a module, or the `.alu` test dropped;
- the file segment written whole (`index < len` for `index < len - 1`);
- the power-of-two test of `align` dropped (`align(0)` or `align(3)` collected);
- a type group that makes only the type, or makes the type inside the loop
  over its impl blocks.

## Bounds and why they suffice

- **MacroMaker**: three macros and one function, bodies of up to two references.
  - Macros are interchangeable, so `ItemOrders` fixes their relative order and
    places the function at each position.
  - This covers self-reference, two- and three-cycles, a cycle reached
    through a builtin or a rejected macro, and a function that invokes a macro
    before, between or after the macros are made.
- **MacroArgs**:
  - macros of up to two parameters, with the et-cetera parameter first, second or absent;
  - zero to three arguments, so et-cetera counts of 0, 1 and 2;
  - bodies of two elements, which is enough for a reference that follows a
    splice (where a stale index shows);
  - `reduce!` with up to four arguments and zero or one bound argument.
- **Attributes**:
  - two attribute items, enough for every pair order (align/packed, duplicates,
    `cfg_attr` before or after);
  - two cfg names, each unset, set or set to a value;
  - conditions that use every operator, nesting, the empty `all()` and `any()`,
    a two-argument `not`, and an invalid operator behind a short-circuit.
- **CEmitterLines**:
  - three items, three expressions per item, span lines 0..2 in two files (one
    without a path);
  - this is enough for "same line", "next line" and "jump" between consecutive
    spans, within an item and across items;
  - line numbers beyond the last span line are merged into one value, `Beyond`.
- **FunctionLinkage**: every function shape up to two parameters, in both build modes.
- **MacroArgs built-ins**: up to three arguments of each kind, and format
  strings of up to two tokens (text, `{}`, `{0}`, `{1}`). Together these give
  too few, exactly enough, and unused arguments.
- **FirstPass**: every file of up to three nodes, with function names `main`
  and `f`, in test and normal builds. This includes:
  - two competing main candidates;
  - `main` inside a module, a block or an impl;
  - an exported or link-named `main`;
  - a `cfg`-disabled container around a function;
  - a sibling after a nested item (scope restore);
  - an enum with a member.
- **IrCtx**: two ids and three arena allocations. This gives two cells and
  one or two interned types, or one cell and two types.
  - The cell contents include a struct of one field (u8, never, or either
    cell), an empty closure, an alias of never or of either cell, an enum
    over u8 or void, a function and a protocol.
  - So cells can name themselves or each other by value, directly or through
    an alias.
  - The queried types include a zero-length array of a possibly empty cell
    and tuples whose first element decides `all()` before the second is
    looked at.
  - The interned types are u8, both pointers to u8, and a cell.
  - 542k states in about 100 s.

- **ItemMaker**: every file of up to four nodes over the shapes of
  `MCItemMaker`. A struct may be transparent, a fn takes each of eight
  syntaxes (each reaches one check of `make_function`), and a static takes
  each of four. This covers a type with an impl block holding a fn or a
  mixin, a generic impl, a protocol with a fn, a module holding any item,
  and a free-standing impl. 62k states in about 15 s. Five nodes was tried:
  enumerating the initial files alone takes over 15 minutes.

- **Driver**: every sysroot of up to three entries under directory names
  `std` and `x.alu` and file names `mem.alu`, `__root__.alu` and
  `notes.txt`, plus an error entry, in every `read_dir` order. This covers
  nested directories, `__root__.alu` at the top and below, a directory
  named like a module file, and an error after files were found. One
  positional argument (plain, with a module path, with `=` in its file part,
  or `..`) and one `--cfg` (a flag, or a value that holds `=`) suffice
  because the loops treat each argument alone. 596k states in about 12 s.

## Fairness

Only `MacroMaker` states a liveness property (`OutcomeCorrect`: item making
ends, and succeeds exactly for programs with no recursive or rejected macro).
It assumes weak fairness of the whole next-state relation. This is justified
because the compiler is single-threaded and never blocks: while item making
runs, the next step is always taken. The other modules check safety only.
Their runs set `CHECK_DEADLOCK FALSE` because each run models one terminating
computation (one expansion, one node's attributes, one function's emission,
one pass over a file, one run of the driver),
which stops in its final state. `IrCtx` stops when a panic ends the pass or
when the ids and allocations are used up, and its refinement is a safety
property (the intern table promises no progress).

## Not modelled, and why

- **Macro hygiene**: renaming of `let` locals and span stamping. Literal
  contents built by the built-ins are reduced to their kind.
- **Item maker**: the `[Alias]` arm needs `NameResolver`, which is not
  under `src/`. The warnings change only diagnostics. The duplicate-name
  rule and `grouped_items` are in `Scope`, outside `src/`, and are modelled
  from the spec (`WellFormed`, `Groups`).
- **First pass**: duplicate-name detection is in `Scope::add_item`, and
  `use` declarations go to `UseClauseVisitor`; neither is under `src/`.
- **IR**: `FunctionLinkage` still takes zero-sizedness as an input rather
  than from `IrTypes`. The typed getters of `IRItemCell` change nothing.
  `gcd`'s callers (type inference in the monomorphizer) are not under
  `src/`, so the finding is shown on the lattice itself.
- **Expression-by-expression C text** (operators, literals, escaping) is
  formatting with no state.
- **The driver**: clap's parsing of the command line is the library's, so
  `Args` is an input. `compile` (`compiler.rs`) is not under `src/` and is a
  nondeterministic outcome. `global_ctx`'s `add_cfg` and `add_flag` are
  outside `src/` and are modelled as adding the pair. WalkDir's order is any
  `read_dir` order, so the order of the sysroot files is not fixed. Whether
  that changes the output is decided in `compiler.rs`.

## Plan for later work

- A run with nested splices (`Nested = TRUE`), once a run slot is free. With
  zero et-cetera arguments a nested splice is accepted, with one or more it is
  `EtCeteraInEtCetera`.
- Compose `IrTypes` into `FunctionLinkage`, so that parameter
  zero-sizedness comes from `IsZeroSized` over filled cells.
- Compose `ItemMaker` with `MacroMaker`: the macro arm is a leaf in `ItemMaker`.
- Run slots are full. `MCCEmitterConst.cfg`, `MCVarargsSignature.cfg`,
  `MCGcdJoin.cfg` and `MCDriverPanic.cfg` can return as runs if one is freed.
