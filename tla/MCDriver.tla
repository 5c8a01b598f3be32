------------------------------ MODULE MCDriver ------------------------------
(* Sysroot names that exercise each branch of get_sysroot: a module file, *)
(* __root__.alu, a file that is not .alu, and a directory named like a    *)
(* module file; positional arguments with and without a module path, one *)
(* with '=' in its file part, and ".." which has no file name.            *)
EXTENDS Driver

Name(b, e) == [base |-> b, ext |-> e]

MCDirNames == {Name("std", ""), Name("x", ".alu")}
MCFileNames == {Name("mem", ".alu"), Name("__root__", ".alu"), Name("notes", ".txt")}

MCModuleArgs == {<<"main.alu">>, <<"app", "=", "main.alu">>,
                 <<"app", "=", "lib", "=", "x.alu">>, <<"..">>}
MCCfgArgs == {<<"test">>, <<"feature", "=", "a", "=", "b">>}

MCFileStem == ("main.alu" :> "main") @@ ("lib=x.alu" :> "lib=x") @@ (".." :> NoStem)
====
