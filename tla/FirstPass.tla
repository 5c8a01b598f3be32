----------------------------- MODULE FirstPass -----------------------------
(***************************************************************************)
(* The first pass over one source file (src/.../name_resolution/pass1.rs, *)
(* FirstPassVisitor): every item, field, enum member, generic placeholder *)
(* and parameter is added to the scope it is declared in, the visitor     *)
(* moving into a child scope for the children of an item and back out     *)
(* afterwards (with_child_scope, with_child_scope_container).  On the     *)
(* main module it also picks the program's entry point (main_candidate).  *)
(*                                                                         *)
(* The file is a tree of nodes 1..n in document order, node 0 the          *)
(* source_file.  The visitor's recursion is a stack of frames, one per    *)
(* node whose children are being visited.  A scope is named by the node   *)
(* that opens it (0 for the file's scope).                                 *)
(***************************************************************************)
EXTENDS Naturals, Sequences, SequencesExt, FiniteSets

CONSTANTS
    Names,      \* names a function may have; "main" among them
    MaxNodes,   \* most nodes of the source file
    MainModule  \* built with_main: main_module_path is Some

ASSUME "main" \in Names /\ MaxNodes \in Nat /\ MainModule \in BOOLEAN

(* Items that may stand in a file, a module or a top-level block.          *)
ItemKinds == {"mod", "block", "fn", "struct", "enum", "impl", "protocol",
              "macro", "static", "const", "typedef"}

(* The nodes each kind of node has visited below it.                      *)
Allowed(k) ==
    CASE k \in {"root", "mod", "block"} -> ItemKinds
      [] k \in {"impl", "protocol"} -> {"fn", "mixin", "generic"}
      [] k = "struct" -> {"field", "generic"}
      [] k = "enum" -> {"enum_item"}
      [] k = "fn" -> {"param", "generic"}
      [] k = "macro" -> {"macro_param"}
      [] k \in {"static", "const", "typedef", "mixin"} -> {"generic"}
      [] OTHER -> {}

Kinds == ItemKinds \cup {"mixin", "field", "enum_item", "generic", "param",
                         "macro_param"}

(* Nodes whose visitor starts with parse_attributes!, which skips the     *)
(* whole node when a cfg attribute on it does not hold.                   *)
Attributed == Kinds \ {"generic", "param", "macro_param"}

(* The kinds with nodes below them; a cfg that does not hold on any other *)
(* node is told apart from its absence only by the node's own item.       *)
HasKids == {k \in Kinds : Allowed(k) # {}}

(* A node: kind, name, whether its cfg holds, the attributes that decide  *)
(* main detection (export, link_name, test_main), and its parent.         *)
Shapes ==
    {x \in [kind : Kinds \ {"fn"}, name : {"a"}, cfg : BOOLEAN,
            attrs : {{}}, parent : {0}] :
        x.kind \notin Attributed \cap HasKids => x.cfg}
    \cup [kind : {"fn"}, name : {"main"}, cfg : BOOLEAN,
          attrs : {{}, {"export"}, {"link_name"}, {"test_main"}}, parent : {0}]
    \cup [kind : {"fn"}, name : Names \ {"main"}, cfg : BOOLEAN,
          attrs : {{}, {"test_main"}}, parent : {0}]

ShapesUnder == [k \in Kinds \cup {"root"} |-> {x \in Shapes : x.kind \in Allowed(k)}]

KindOf(t, p) == IF p = 0 THEN "root" ELSE t[p].kind

(* In document order a new node hangs below the last node or one of its   *)
(* ancestors.                                                              *)
RECURSIVE AncestorsOrSelf(_, _)
AncestorsOrSelf(t, i) ==
    IF i = 0 THEN {0} ELSE {i} \cup AncestorsOrSelf(t, t[i].parent)

(* The trees one node larger than t.                                      *)
Grow(t) ==
    UNION {{Append(t, [x EXCEPT !.parent = p]) : x \in ShapesUnder[KindOf(t, p)]} :
           p \in AncestorsOrSelf(t, Len(t))}

RECURSIVE TreesOf(_)
TreesOf(n) == IF n = 0 THEN {<<>>} ELSE UNION {Grow(t) : t \in TreesOf(n - 1)}

(* A document-ordered tree of at most MaxNodes nodes, as Grow builds them. *)
IsTree(t) ==
    /\ 1 <= Len(t) /\ Len(t) <= MaxNodes
    /\ \A i \in 1..Len(t) :
          /\ [t[i] EXCEPT !.parent = 0] \in Shapes
          /\ t[i].parent \in AncestorsOrSelf(t, i - 1)
          /\ t[i].kind \in Allowed(KindOf(t, t[i].parent))

VARIABLES
    tree,            \* the source file
    test,            \* global_ctx.cfg("test") is set
    stack,           \* the visitor's recursion: frames [node, pos, restore,
                     \* saved scope, saved in_a_container]
    scope,           \* self.scope
    inContainer,     \* self.in_a_container
    enumItem,        \* self.enum_item (0 for None)
    mainCandidate,   \* self.main_candidate (0 for None)
    items,           \* what add_item / add_unnamed_item have recorded
    status           \* "running", "done" or the error the visit ended with

vars == <<tree, test, stack, scope, inContainer, enumItem,
          mainCandidate, items, status>>

-----------------------------------------------------------------------------
Kids(i) == SelectSeq([j \in 1..Len(tree) |-> j], LAMBDA j : tree[j].parent = i)

Top == stack[Len(stack)]

(* The node the visitor is about to visit: the next child of the top frame. *)
Pending == Top.pos <= Len(Kids(Top.node))
Cur == Kids(Top.node)[Top.pos]

(* visit_children_by_field moves on to the next child.                    *)
Advance == stack' = [stack EXCEPT ![Len(stack)].pos = @ + 1]

(* add_item / add_unnamed_item: the scope records the item (spec 4.1:     *)
(* items sharing a name form a group), and so does self.items.            *)
AddItem(name, kind, of) ==
    items' = items \cup {[scope |-> scope, name |-> name, node |-> Cur,
                          kind |-> kind, of |-> of]}

(* with_child_scope / with_child_scope_container around the visit of the  *)
(* node's children: the previous scope (and in_a_container) is saved.     *)
EnterScope(new, restore) ==
    /\ stack' = Append(stack, [node |-> Cur, pos |-> 1, restore |-> restore,
                               scope |-> scope, container |-> inContainer])
    /\ scope' = new

Running == status = "running" /\ Pending

Init ==
    /\ \E t \in UNION {TreesOf(n) : n \in 0..MaxNodes - 1} :
          tree \in Grow(t)
    /\ test \in BOOLEAN
    /\ stack = <<[node |-> 0, pos |-> 1, restore |-> "none", scope |-> 0,
                  container |-> FALSE]>>
    /\ scope = 0
    /\ inContainer = FALSE
    /\ enumItem = 0
    /\ mainCandidate = 0
    /\ items = {}
    /\ status = "running"

(* parse_attributes! returns None: a cfg attribute of the node does not   *)
(* hold, and its visitor returns Ok(()) at once.                          *)
SkipDisabled ==
    /\ Running /\ tree[Cur].kind \in Attributed /\ ~tree[Cur].cfg
    /\ Advance
    /\ UNCHANGED <<tree, test, scope, inContainer, enumItem,
                   mainCandidate, items, status>>

Rest == <<tree, test>>

(* The visitors that add a named item and visit its children in the      *)
(* item's own child scope (scope.named_child).                            *)
VisitScoped(k, kind, restore) ==
    /\ Running /\ tree[Cur].kind = k /\ tree[Cur].cfg
    /\ AddItem(tree[Cur].name, kind, 0)
    /\ EnterScope(Cur, restore)
    /\ UNCHANGED <<Rest, inContainer, enumItem, mainCandidate, status>>

(* The visitors that add a named item and have nothing below it.          *)
VisitLeaf(k, kind, of) ==
    /\ Running /\ tree[Cur].kind = k /\ tree[Cur].cfg
    /\ AddItem(tree[Cur].name, kind, of)
    /\ Advance
    /\ UNCHANGED <<Rest, scope, inContainer, enumItem, mainCandidate, status>>

VisitModDefinition == VisitScoped("mod", "Module", "scope")
VisitProtocolDefinition == VisitScoped("protocol", "Protocol", "container")
VisitStructDefinition == VisitScoped("struct", "Type", "scope")
VisitImplBlock == VisitScoped("impl", "Impl", "container")
VisitTypeDefinition == VisitScoped("typedef", "TypeDef", "scope")
VisitStaticDeclaration == VisitScoped("static", "Static", "scope")
VisitConstDeclaration == VisitScoped("const", "Const", "scope")
VisitMacroDefinition == VisitScoped("macro", "Macro", "scope")

VisitStructField == VisitLeaf("field", "Field", 0)
VisitGenericArgumentList == VisitLeaf("generic", "Placeholder", 0)
VisitParameter == VisitLeaf("param", "Parameter", 0)
VisitMacroParameter == VisitLeaf("macro_param", "MacroParameter", 0)

(* visit_enum_item: an enum member of self.enum_item.unwrap().            *)
VisitEnumItem == VisitLeaf("enum_item", "EnumMember", enumItem)

(* visit_enum_definition: enum_item is set inside the child scope and    *)
(* never reset.                                                            *)
VisitEnumDefinition ==
    /\ Running /\ tree[Cur].kind = "enum" /\ tree[Cur].cfg
    /\ AddItem(tree[Cur].name, "Type", 0)
    /\ EnterScope(Cur, "scope")
    /\ enumItem' = Cur
    /\ UNCHANGED <<Rest, inContainer, mainCandidate, status>>

(* visit_mixin: an unnamed item with an anonymous child scope.            *)
VisitMixin ==
    /\ Running /\ tree[Cur].kind = "mixin" /\ tree[Cur].cfg
    /\ AddItem("none", "Mixin", 0)
    /\ EnterScope(Cur, "scope")
    /\ UNCHANGED <<Rest, inContainer, enumItem, mainCandidate, status>>

(* visit_top_level_block: the items of the block go to the current scope. *)
VisitTopLevelBlock ==
    /\ Running /\ tree[Cur].kind = "block" /\ tree[Cur].cfg
    /\ EnterScope(scope, "none")
    /\ UNCHANGED <<Rest, inContainer, enumItem, mainCandidate, items, status>>

(* visit_function_definition, main detection on the main module: under   *)
(* cfg test a function with #[test_main]; otherwise a function named main *)
(* in the module's own scope that is neither #[export] nor #[link_name].  *)
(* Mutation: #[export] not excluded from main detection.                  *)
ClaimsMainIgnoresExport(f) ==
    /\ MainModule
    /\ IF test THEN "test_main" \in f.attrs
       ELSE scope = 0 /\ f.name = "main" /\ "link_name" \notin f.attrs

ClaimsMain(f) ==
    /\ MainModule
    /\ IF test THEN "test_main" \in f.attrs
       ELSE /\ scope = 0 /\ f.name = "main"
            /\ "export" \notin f.attrs /\ "link_name" \notin f.attrs

(* visit_function_definition: main_candidate.replace(item) and           *)
(* MultipleMainFunctions if there was one; then a Method in a container   *)
(* and a Function elsewhere, and the parameters in its child scope.       *)
VisitFunctionDefinition ==
    /\ Running /\ tree[Cur].kind = "fn" /\ tree[Cur].cfg
    /\ \/ /\ ClaimsMain(tree[Cur]) /\ mainCandidate # 0
          /\ mainCandidate' = Cur
          /\ status' = "MultipleMainFunctions"
          /\ UNCHANGED <<stack, scope, items>>
       \/ /\ ~(ClaimsMain(tree[Cur]) /\ mainCandidate # 0)
          /\ mainCandidate' = IF ClaimsMain(tree[Cur]) THEN Cur ELSE mainCandidate
          /\ AddItem(tree[Cur].name, IF inContainer THEN "Method" ELSE "Function", 0)
          /\ EnterScope(Cur, "scope")
          /\ UNCHANGED status
    /\ UNCHANGED <<Rest, inContainer, enumItem>>

(* Mutation: with_child_scope! without "$self.scope = previous_scope".     *)
LeaveScopeNoRestore ==
    /\ status = "running" /\ Len(stack) > 1 /\ ~Pending
    /\ inContainer' = IF Top.restore = "container" THEN Top.container
                      ELSE inContainer
    /\ stack' = LET s == Front(stack) IN [s EXCEPT ![Len(s)].pos = @ + 1]
    /\ UNCHANGED <<Rest, scope, enumItem, mainCandidate, items, status>>

(* The end of with_child_scope / with_child_scope_container (or of the    *)
(* block's visit): the saved scope (and in_a_container) is put back and   *)
(* the parent's visit goes on with its next child.                        *)
LeaveScope ==
    /\ status = "running" /\ Len(stack) > 1 /\ ~Pending
    /\ scope' = IF Top.restore = "none" THEN scope ELSE Top.scope
    /\ inContainer' = IF Top.restore = "container" THEN Top.container
                      ELSE inContainer
    /\ stack' = LET s == Front(stack) IN [s EXCEPT ![Len(s)].pos = @ + 1]
    /\ UNCHANGED <<Rest, enumItem, mainCandidate, items, status>>

(* visit_source_file returns: the file's items are all visited.           *)
Finish ==
    /\ status = "running" /\ Len(stack) = 1 /\ ~Pending
    /\ status' = "done"
    /\ UNCHANGED <<Rest, stack, scope, inContainer, enumItem, mainCandidate, items>>

Next ==
    \/ SkipDisabled
    \/ VisitModDefinition \/ VisitTopLevelBlock \/ VisitProtocolDefinition
    \/ VisitStructDefinition \/ VisitImplBlock \/ VisitEnumDefinition
    \/ VisitEnumItem \/ VisitStructField \/ VisitFunctionDefinition
    \/ VisitTypeDefinition \/ VisitMixin \/ VisitStaticDeclaration
    \/ VisitConstDeclaration \/ VisitGenericArgumentList \/ VisitParameter
    \/ VisitMacroParameter \/ VisitMacroDefinition
    \/ LeaveScope \/ Finish

(* The pass ends with the file visited or with MultipleMainFunctions.     *)
Spec == Init /\ [][Next]_vars

-----------------------------------------------------------------------------
(* Types of the visitor's state.  No run checks it: the recursion is the *)
(* Rust call stack, which no mutant of the visitor can leave unbalanced.   *)
TypeOK ==
    /\ IsTree(tree) /\ test \in BOOLEAN
    /\ stack \in Seq([node : 0..MaxNodes, pos : 1..MaxNodes + 1,
                      restore : {"none", "scope", "container"},
                      scope : 0..MaxNodes, container : BOOLEAN])
    /\ scope \in 0..MaxNodes /\ inContainer \in BOOLEAN
    /\ enumItem \in 0..MaxNodes /\ mainCandidate \in 0..MaxNodes
    /\ status \in {"running", "done", "MultipleMainFunctions"}

(* The reference reading of a file: a node is visible when a cfg holds   *)
(* on it and on everything around it; it is declared in the scope of the *)
(* nearest enclosing node other than a top-level block.                   *)
Visible(i) == \A a \in AncestorsOrSelf(tree, i) \ {0} : tree[a].cfg

RECURSIVE DeclScope(_)
DeclScope(i) ==
    LET p == tree[i].parent IN
    IF p = 0 THEN 0 ELSE IF tree[p].kind = "block" THEN DeclScope(p) ELSE p

ItemKindOf(k) ==
    CASE k = "mod" -> "Module"  [] k = "protocol" -> "Protocol"
      [] k \in {"struct", "enum"} -> "Type"  [] k = "impl" -> "Impl"
      [] k = "typedef" -> "TypeDef"  [] k = "static" -> "Static"
      [] k = "const" -> "Const"  [] k = "macro" -> "Macro"
      [] k = "field" -> "Field"  [] k = "generic" -> "Placeholder"
      [] k = "param" -> "Parameter"  [] k = "macro_param" -> "MacroParameter"
      [] k = "enum_item" -> "EnumMember"  [] k = "mixin" -> "Mixin"
      [] k = "fn" -> "Function"

SpecItems ==
    {[scope |-> DeclScope(i),
      name |-> IF tree[i].kind = "mixin" THEN "none" ELSE tree[i].name,
      node |-> i, kind |-> ItemKindOf(tree[i].kind),
      of |-> IF tree[i].kind = "enum_item" THEN tree[i].parent ELSE 0] :
        i \in {j \in DOMAIN tree : Visible(j) /\ tree[j].kind # "block"}}

(* Once the file is visited, the scopes hold exactly its visible items,  *)
(* each in the scope it is declared in, enum members tied to their enum:  *)
(* the scope saved on entering an item is put back before its next        *)
(* sibling, however deep the item nested.  Functions are recorded as      *)
(* Function wherever they stand: make_item_group has no arm for Method.   *)
ItemsInDeclaringScope == status = "done" => items = SpecItems

(* Spec 4.1, main detection: on the main module, the entry candidate is   *)
(* the unique visible function named main in the module's own scope that  *)
(* is neither exported nor link-renamed (under cfg test, the function     *)
(* carrying test_main); two candidates are MultipleMainFunctions.         *)
Candidates ==
    {i \in DOMAIN tree :
        /\ tree[i].kind = "fn" /\ Visible(i) /\ MainModule
        /\ IF test THEN "test_main" \in tree[i].attrs
           ELSE /\ DeclScope(i) = 0 /\ tree[i].name = "main"
                /\ tree[i].attrs \cap {"export", "link_name"} = {}}

MainDetected ==
    status # "running" =>
        /\ status = "MultipleMainFunctions" <=> Cardinality(Candidates) >= 2
        /\ status = "done" =>
              mainCandidate = IF Candidates = {} THEN 0
                              ELSE CHOOSE c \in Candidates : TRUE
====
