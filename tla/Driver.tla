------------------------------- MODULE Driver -------------------------------
(***************************************************************************)
(* The command-line driver of src/.../main.rs: run() collects the source *)
(* files (get_sysroot's walk of the sysroot, then the positional modules), *)
(* applies the --cfg options and --debug, compiles, and turns the result  *)
(* into the output and the exit code of main().                           *)
(*                                                                         *)
(* The sysroot is a tree of entries below its root, each a directory, a   *)
(* file, or an entry WalkDir reports as an error (unreadable, a symlink   *)
(* loop).  WalkDir's depth-first walk is a stack of the entries each open *)
(* directory has still to yield, in the order read_dir gives them (any).  *)
(* A command-line argument is the sequence of its parts, with "=" a part  *)
(* of its own, so that find('=') and the slices around it are modelled.   *)
(* The compiler itself (compiler.rs, not under src/) is a nondeterministic*)
(* outcome: Ok with or without errors in the diagnostic context, or Err.  *)
(***************************************************************************)
EXTENDS Naturals, Sequences, SequencesExt, FiniteSets

CONSTANTS
    DirNames,     \* names a sysroot directory may have
    FileNames,    \* names a sysroot file may have
    MaxEntries,   \* bound on the entries below the sysroot's root
    ModuleArgs,   \* positional arguments a command line may give
    CfgArgs,      \* --cfg arguments a command line may give
    MaxArgs,      \* bound on the positional and on the --cfg arguments
    FileStem,     \* Path::file_stem of each file a positional argument names
    NoStem,       \* file_stem() of a path with no file name
    NoValue,      \* the None of an Option<String>
    IoFaults      \* the writes of run() that may fail: "report", "write"

(* A name is its base and its extension, so that ends_with(".alu") and   *)
(* strip_suffix(".alu") are what they do on the whole name.               *)
FullName(n) == n.base \o n.ext
EndsWithAlu(n) == n.ext = ".alu"
StripAlu(n) == n.base

Concat(s) == FoldLeft(LAMBDA a, b : a \o b, "", s)

-----------------------------------------------------------------------------
(* The sysroots: sequences of [name, kind, parent] with parent 0 the root *)
(* and every parent an earlier directory; names are unique in a directory.*)
Kinds == {"dir", "file", "error"}
Entry(k, p) ==
    CASE k = "dir"  -> [name : DirNames, kind : {k}, parent : {p}]
      [] k = "file" -> [name : FileNames, kind : {k}, parent : {p}]
      [] OTHER      -> [name : {[base |-> "bad", ext |-> ""]}, kind : {k}, parent : {p}]

Grow(t) ==
    {Append(t, e) : e \in UNION {Entry(k, p) : k \in Kinds,
                                 p \in {0} \cup {i \in DOMAIN t : t[i].kind = "dir"}}}

RECURSIVE Trees(_)
Trees(n) == IF n = 0 THEN {<<>>} ELSE UNION {Grow(t) : t \in Trees(n - 1)}

UniqueNames(t) ==
    \A i, j \in DOMAIN t : i # j /\ t[i].parent = t[j].parent => t[i].name # t[j].name

Sysroots == {t \in UNION {Trees(n) : n \in 0..MaxEntries} : UniqueNames(t)}

Children(t, p) == {i \in DOMAIN t : t[i].parent = p}

(* entry.path().strip_prefix(sysroot): the names from the root down.      *)
RECURSIVE RelPath(_, _)
RelPath(t, i) == IF i = 0 THEN <<>> ELSE Append(RelPath(t, t[i].parent), t[i].name)

(* Args as clap gives them to run().                                       *)
Args ==
    [sysroot : {FALSE, TRUE}, root : {"dir", "error"},
     modules : UNION {[1..n -> ModuleArgs] : n \in 0..MaxArgs},
     cfg : UNION {[1..n -> CfgArgs] : n \in 0..MaxArgs},
     debug : BOOLEAN, timings : BOOLEAN, output : BOOLEAN]

VARIABLES
    args,       \* the parsed command line
    sysroot,    \* the sysroot's entries
    phase,      \* where run() is
    stack,      \* WalkDir's open directories: the entries each has still to yield
    files,      \* the SourceFiles handed to compile
    cfg,        \* the flags and values added to the GlobalCtx
    diag,       \* the diagnostic context: errors, and the timing notes
    output,     \* where the program went: "none", "file" or "stdout"
    exit        \* main()'s exit code once run() is done; a panic exits 101

vars == <<args, sysroot, phase, stack, files, cfg, diag, output, exit>>

Panic == /\ phase' = "done" /\ exit' = 101

-----------------------------------------------------------------------------
(* parse_module: the part before the first '=' is the module path, the   *)
(* rest the file.                                                          *)
ParseModule(s) ==
    LET pos == SelectInSeq(s, LAMBDA x : x = "=") IN
    IF pos # 0 THEN [path |-> Concat(SubSeq(s, 1, pos - 1)),
                     file |-> Concat(SubSeq(s, pos + 1, Len(s)))]
    ELSE [path |-> NoValue, file |-> Concat(s)]

(* parse_cfg: the part before the first '=' is the name, the rest its    *)
(* value.                                                                  *)
ParseCfg(s) ==
    LET pos == SelectInSeq(s, LAMBDA x : x = "=") IN
    IF pos # 0 THEN <<Concat(SubSeq(s, 1, pos - 1)), Concat(SubSeq(s, pos + 1, Len(s)))>>
    ELSE <<Concat(s), NoValue>>

(* Mutation: every segment written whole, the file's too.                *)
ModulePathAllSegments(segs) ==
    LET written == Concat([i \in DOMAIN segs |-> "::" \o FullName(segs[i])]) IN
    IF written = "" THEN "::" ELSE written

(* The module path get_sysroot builds from an entry's path segments: "::" *)
(* and the segment for each directory, "::" and the name without ".alu"  *)
(* for the file unless that is __root__, and "::" when nothing was written.*)
ModulePath(segs) ==
    LET Seg(i) == IF i < Len(segs) THEN "::" \o FullName(segs[i])
                  ELSE IF StripAlu(segs[i]) # "__root__"
                       THEN "::" \o StripAlu(segs[i]) ELSE ""
        written == Concat([i \in DOMAIN segs |-> Seg(i)])
    IN IF written = "" THEN "::" ELSE written

(* The stack with the directories that have nothing left removed.        *)
Open(s) == SelectSeq(s, LAMBDA d : d # {})

-----------------------------------------------------------------------------
Init ==
    /\ args \in Args
    /\ sysroot \in IF args.sysroot /\ args.root = "dir" THEN Sysroots ELSE {<<>>}
    /\ phase = "sysroot"
    /\ stack = <<>>
    /\ files = <<>>
    /\ cfg = {}
    /\ diag = [errors |-> FALSE, notes |-> FALSE]
    /\ output = "none"
    /\ exit = 0

(* get_sysroot up to the loop: no sysroot gives no files; otherwise the   *)
(* walk's first entry is the root itself, an error when it cannot be     *)
(* read, and a directory that is skipped and opened.                       *)
GetSysroot ==
    /\ phase = "sysroot"
    /\ CASE ~args.sysroot ->
              phase' = "modules" /\ UNCHANGED <<stack, exit>>
         [] args.root = "error" ->
              Panic /\ UNCHANGED stack
         [] OTHER ->
              /\ stack' = Open(<<Children(sysroot, 0)>>)
              /\ phase' = IF stack' = <<>> THEN "modules" ELSE "walk"
              /\ UNCHANGED exit
    /\ UNCHANGED <<args, sysroot, files, cfg, diag, output>>

(* Mutations of IsModuleFile: the is_dir skip dropped, the ".alu" test   *)
(* dropped.                                                                *)
IsModuleFileNoDirSkip(e) == EndsWithAlu(e.name)
IsModuleFileNoExtCheck(e) == e.kind # "dir"

(* The body of get_sysroot's loop pushes an entry when it is not a       *)
(* directory and its file name ends with ".alu".                          *)
IsModuleFile(e) == e.kind # "dir" /\ EndsWithAlu(e.name)

(* One iteration of get_sysroot's loop over WalkDir: an error is returned *)
(* by `?` and unwrapped by run(); a module file is pushed with its module *)
(* path; WalkDir then descends into a directory, whatever the body did.   *)
WalkEntry ==
    /\ phase = "walk"
    /\ \E i \in Last(stack) :
        LET rest == [stack EXCEPT ![Len(stack)] = @ \ {i}]
            e == sysroot[i]
        IN IF e.kind = "error"
           THEN Panic /\ UNCHANGED <<stack, files>>
           ELSE /\ stack' = Open(IF e.kind = "dir"
                                 THEN Append(rest, Children(sysroot, i)) ELSE rest)
                /\ phase' = IF stack' = <<>> THEN "modules" ELSE "walk"
                /\ files' = IF IsModuleFile(e)
                            THEN Append(files, [file |-> i, from |-> "sysroot",
                                                path |-> ModulePath(RelPath(sysroot, i))])
                            ELSE files
                /\ UNCHANGED exit
    /\ UNCHANGED <<args, sysroot, cfg, diag, output>>

(* run()'s loop over the positional modules: the module path given before*)
(* '=', or infer_module_name, whose file_stem().unwrap() panics on a path *)
(* with no file name.                                                      *)
AddModules ==
    /\ phase = "modules"
    /\ LET parsed == [k \in DOMAIN args.modules |-> ParseModule(args.modules[k])]
           Stemless(p) == p.path = NoValue /\ FileStem[p.file] = NoStem
       IN IF \E k \in DOMAIN parsed : Stemless(parsed[k])
          THEN Panic /\ UNCHANGED files
          ELSE /\ files' = files \o
                     [k \in DOMAIN parsed |->
                        [file |-> parsed[k].file, from |-> "arg",
                         path |-> IF parsed[k].path # NoValue THEN parsed[k].path
                                  ELSE FileStem[parsed[k].file]]]
               /\ phase' = "cfg"
               /\ UNCHANGED exit
    /\ UNCHANGED <<args, sysroot, stack, cfg, diag, output>>

(* run()'s loop over --cfg (add_cfg for a value, add_flag otherwise) and  *)
(* add_flag("debug") for --debug.                                          *)
ApplyCfg ==
    /\ phase = "cfg"
    /\ cfg' = {ParseCfg(args.cfg[k]) : k \in DOMAIN args.cfg}
              \cup (IF args.debug THEN {<<"debug", NoValue>>} ELSE {})
    /\ phase' = "compile"
    /\ UNCHANGED <<args, sysroot, stack, files, diag, output, exit>>

(* main()'s exit code for compile's result, whether the diagnostic       *)
(* context has errors, and which write failed: print_error_report runs   *)
(* first on both arms, then an error gives Err(()), then the program is  *)
(* written (fs::write or print!); an unwrap of a failed write panics.   *)
ExitCode(res, errors, io) ==
    CASE io = "report" -> 101 [] errors -> 1 [] io = "write" -> 101 [] OTHER -> 0

(* The match on compiler.compile: on Ok the timing notes when --timings,  *)
(* on Err the error added to the context; then the report, the exit code *)
(* and, on exit 0, the program written to -o or to stdout.               *)
Compile ==
    /\ phase = "compile"
    /\ \E res \in {"ok", "err"}, errs \in BOOLEAN, io \in IoFaults \cup {"none"} :
        LET errors == res = "err" \/ errs IN
        /\ diag' = [errors |-> errors, notes |-> res = "ok" /\ args.timings]
        /\ exit' = ExitCode(res, errors, io)
        /\ output' = IF exit' = 0 THEN IF args.output THEN "file" ELSE "stdout"
                     ELSE "none"
    /\ phase' = "done"
    /\ UNCHANGED <<args, sysroot, stack, files, cfg>>

Next == GetSysroot \/ WalkEntry \/ AddModules \/ ApplyCfg \/ Compile

Spec == Init /\ [][Next]_vars

-----------------------------------------------------------------------------
Phases == {"sysroot", "walk", "modules", "cfg", "compile", "done"}
Entries == 1..MaxEntries

TypeOK ==
    /\ args \in Args /\ sysroot \in Sysroots
    /\ phase \in Phases
    /\ stack \in Seq(SUBSET Entries) /\ Len(stack) <= MaxEntries
    /\ \A k \in DOMAIN files :
          files[k].from = "sysroot" => sysroot[files[k].file].kind = "file"
    /\ diag \in [errors : BOOLEAN, notes : BOOLEAN]
    /\ output \in {"none", "file", "stdout"}
    /\ exit \in {0, 1, 101}
    /\ phase # "done" => exit = 0

(* The module a sysroot file binds to, as spec section 6 states it: its  *)
(* directories and its name without ".alu", except that __root__.alu     *)
(* binds to the directory holding it; the sysroot itself is "::".        *)
ModuleOf(segs) ==
    LET last == StripAlu(Last(segs))
        mods == [i \in 1..Len(segs) - 1 |-> FullName(segs[i])]
                \o (IF last = "__root__" THEN <<>> ELSE <<last>>)
    IN IF mods = <<>> THEN "::" ELSE Concat([i \in DOMAIN mods |-> "::" \o mods[i]])

AluFiles == {i \in DOMAIN sysroot : sysroot[i].kind = "file" /\ EndsWithAlu(sysroot[i].name)}

(* When get_sysroot returns, the files hold every regular .alu file of   *)
(* the sysroot exactly once, whatever order read_dir yields the entries  *)
(* in and however deep they are, and nothing else: no directory (even one *)
(* named x.alu), no other file.                                            *)
SysrootFilesFound ==
    phase = "modules" =>
        /\ IsInjective([k \in DOMAIN files |-> files[k].file])
        /\ {files[k].file : k \in DOMAIN files} = IF args.sysroot THEN AluFiles ELSE {}

(* Every sysroot file is compiled under the module spec section 6 gives  *)
(* it (get_sysroot's segment loop, the __root__ rule and the "::" root). *)
ModulePathsFollowLayout ==
    \A k \in DOMAIN files :
        files[k].from = "sysroot" =>
            files[k].path = ModuleOf(RelPath(sysroot, files[k].file))

(* Spec section 6: the exit code is 0 on success and 1 on any error; a   *)
(* sysroot that cannot be walked, or a positional path with no file name,*)
(* is an error like any other (CannotReadFile).                            *)
ExitCodeZeroOrOne == exit # 101
====
