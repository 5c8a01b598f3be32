----------------------------- MODULE Attributes -----------------------------
(***************************************************************************)
(* Attribute parsing of one AST node (src/.../visitors.rs): the           *)
(* AttributeVisitor walks the node's attribute items in order, collecting *)
(* Attribute values, rejecting duplicates and align/packed together, and  *)
(* evaluating cfg(...) and cfg_attr(cond, ...) conditions with a          *)
(* CfgVisitor against the build's cfg flags.  A false cfg makes the node  *)
(* skipped (should_skip).                                                   *)
(*                                                                         *)
(* Attribute items are abstracted to their kind and the one argument that *)
(* decides what the visitor does; cfg conditions are meta-item trees over *)
(* a few cfg names.                                                        *)
(***************************************************************************)
EXTENDS Naturals, Sequences, SequencesExt

CONSTANTS
    Names,       \* cfg names a condition may test
    Values,      \* string values a cfg name may have
    CfgConds,    \* the cfg(...) conditions attribute items may carry
    MaxItems     \* most attribute items on the node

ASSUME MaxItems \in Nat

NoValue == "none"    \* a leaf "name" without "= value"

(* A meta item: a leaf "name" or "name = value" (no arguments), or an      *)
(* operator applied to a list of meta items.                               *)
Leaf(n, v) == [op |-> "leaf", name |-> n, value |-> v, args |-> <<>>]
Node(o, as) == [op |-> o, name |-> o, value |-> NoValue, args |-> as]

(* The build's cfg: a name is absent, present without a value, or present *)
(* with one of Values (GlobalCtx::cfg: Option<Option<String>>).            *)
Absent == "absent"
Present == "present"
CfgMaps == [Names -> {Absent, Present} \cup Values]

(* Attribute items other than cfg and cfg_attr, by the argument that       *)
(* matters: inline's argument (none, always, never, ir or something       *)
(* else), align's number (Unparsed for text that is not a usize), and the *)
(* argument-less ones.                                                      *)
Unparsed == -1
SimpleItems ==
    [kind : {"inline"}, arg : {"none", "always", "never", "ir", "other"}]
    \cup [kind : {"align"}, arg : {Unparsed, 0, 1, 2, 3}]
    \cup [kind : {"packed", "cold"}, arg : {"none"}]

(* cfg_attr items carry one enclosed attribute from InnerItems.            *)
InnerItems ==
    {[kind |-> "inline", arg |-> "never"], [kind |-> "align", arg |-> 2],
     [kind |-> "packed", arg |-> "none"]}

Items ==
    SimpleItems
    \cup [kind : {"cfg"}, cond : CfgConds]
    \cup [kind : {"cfg_attr"}, cond : CfgConds, inner : InnerItems]

(* Attribute values (ast::Attribute); n is Align's number, 0 otherwise.    *)
AttrKinds == {"Inline", "AlwaysInline", "NoInline", "InlineDuringMono",
              "Align", "Packed", "Cold"}
Attr(k, n) == [kind |-> k, n |-> n]

Errors == {"DuplicateAttribute", "InvalidAttribute", "AlignAndPacked"}

VARIABLES
    cfg,          \* the build's cfg flags
    items,        \* the node's attribute items
    pos,          \* the item being visited
    attributes,   \* AttributeVisitor.attributes
    shouldSkip,   \* AttributeVisitor.should_skip
    status,       \* "running", "ok" or the error returned
    applied       \* the cfg_attr items whose enclosed attribute was visited

vars == <<cfg, items, pos, attributes, shouldSkip, status, applied>>

-----------------------------------------------------------------------------
Yields(b) == [err |-> FALSE, val |-> b]
Fails == [err |-> TRUE, val |-> FALSE]

(* CfgVisitor::visit_meta_item, leaf: the expected value against the      *)
(* build's cfg.                                                             *)
LeafMatches(e) ==
    /\ cfg[e.name] # Absent
    /\ e.value # NoValue => cfg[e.name] = e.value

(* Mutation: not(...) returns its argument's value unchanged.             *)
SingleResultNotIgnored(state, v) == v

(* visit_meta_arguments: "matches == matches!(state, State::Single)".      *)
SingleResult(state, v) == v = (state = "cfg")

(* CfgVisitor: visit_meta_item pushes the operator's state and visits the *)
(* arguments; visit_meta_arguments evaluates them in order: cfg and not   *)
(* take exactly one (a second is InvalidAttribute, checked after the      *)
(* first is evaluated), all stops at the first false, any at the first    *)
(* true.  Any other operator name is InvalidAttribute.                     *)
RECURSIVE CfgEval(_), EvalArgs(_, _)
CfgEval(e) ==
    IF e.op = "leaf" THEN Yields(LeafMatches(e))
    ELSE IF e.op \notin {"cfg", "all", "any", "not"} THEN Fails
    ELSE EvalArgs(e.op, e.args)
EvalArgs(state, as) ==
    IF as = <<>> THEN (IF state \in {"cfg", "not"} THEN Fails
                       ELSE Yields(state = "all"))
    ELSE LET m == CfgEval(Head(as)) IN
         IF m.err THEN m
         ELSE IF state \in {"cfg", "not"}
              THEN (IF Len(as) > 1 THEN Fails ELSE Yields(SingleResult(state, m.val)))
         ELSE IF state = "all" /\ ~m.val THEN Yields(FALSE)
         ELSE IF state = "any" /\ m.val THEN Yields(TRUE)
         ELSE EvalArgs(state, Tail(as))

Has(k) == \E j \in DOMAIN attributes : attributes[j].kind = k

Ok(as) == [error |-> "none", attrs |-> as]
Err(e) == [error |-> e, attrs |-> attributes]

InlineAttr == [none |-> "Inline", always |-> "AlwaysInline",
               never |-> "NoInline", ir |-> "InlineDuringMono"]

(* check_duplicate! in the inline arm.                                     *)
InlineDuplicate ==
    Has("Inline") \/ Has("AlwaysInline") \/ Has("InlineDuringMono")

(* Mutation: packed pushed without looking for Align.                      *)
PackedConflictsNever == FALSE

(* The packed arm's test for an Align already collected.                   *)
PackedConflicts == Has("Align")

(* usize::is_power_of_two: zero is not a power of two.                    *)
IsPowerOfTwo(n) == \E k \in 0..n : 2^k = n

(* Mutation: the power-of-two test dropped.                                *)
AlignArmNoPowerCheck(n) ==
    CASE Has("Align") -> Err("DuplicateAttribute")
      [] n = Unparsed -> Err("InvalidAttribute")
      [] n = 1 -> Ok(attributes)
      [] Has("Packed") -> Err("AlignAndPacked")
      [] OTHER -> Ok(Append(attributes, Attr("Align", n)))

(* The align arm: check_duplicate!, the parse (InvalidAttribute), align 1 *)
(* only an Align1 warning with nothing collected, a number that is not a  *)
(* power of two rejected, then the test for Packed.                        *)
AlignArm(n) ==
    CASE Has("Align") -> Err("DuplicateAttribute")
      [] n = Unparsed -> Err("InvalidAttribute")
      [] n = 1 -> Ok(attributes)
      [] ~IsPowerOfTwo(n) -> Err("InvalidAttribute")
      [] Has("Packed") -> Err("AlignAndPacked")
      [] OTHER -> Ok(Append(attributes, Attr("Align", n)))

(* AttributeVisitor::visit_meta_item for an item other than cfg and       *)
(* cfg_attr: the attributes after it, or the error it returns.             *)
VisitSimple(it) ==
    CASE it.kind = "inline" /\ InlineDuplicate -> Err("DuplicateAttribute")
      [] it.kind = "inline" /\ it.arg = "other" -> Err("InvalidAttribute")
      [] it.kind = "inline" -> Ok(Append(attributes, Attr(InlineAttr[it.arg], 0)))
      [] it.kind = "align" -> AlignArm(it.arg)
      [] it.kind = "packed" /\ Has("Packed") -> Err("DuplicateAttribute")
      [] it.kind = "packed" /\ PackedConflicts -> Err("AlignAndPacked")
      [] it.kind = "packed" -> Ok(Append(attributes, Attr("Packed", 0)))
      [] it.kind = "cold" /\ Has("Cold") -> Err("DuplicateAttribute")
      [] it.kind = "cold" -> Ok(Append(attributes, Attr("Cold", 0)))

-----------------------------------------------------------------------------
Init ==
    /\ cfg \in CfgMaps
    /\ items \in SeqOf(Items, MaxItems)
    /\ pos = 1
    /\ attributes = <<>>
    /\ shouldSkip = FALSE
    /\ status = "running"
    /\ applied = {}

Item == items[pos]

(* Ends the visit with the result r of the current item.                   *)
Take(r) ==
    /\ attributes' = r.attrs
    /\ status' = IF r.error = "none" THEN status ELSE r.error
    /\ pos' = pos + 1

(* visit_meta_item, the simple arms.                                       *)
VisitAttribute ==
    /\ status = "running" /\ pos <= Len(items)
    /\ Item.kind \notin {"cfg", "cfg_attr"}
    /\ Take(VisitSimple(Item))
    /\ UNCHANGED <<cfg, items, shouldSkip, applied>>

(* visit_meta_item, "cfg": a false condition sets should_skip; an invalid *)
(* one is InvalidAttribute.                                                *)
VisitCfg ==
    /\ status = "running" /\ pos <= Len(items)
    /\ Item.kind = "cfg"
    /\ LET m == CfgEval(Item.cond) IN
         /\ status' = IF m.err THEN "InvalidAttribute" ELSE status
         /\ shouldSkip' = (shouldSkip \/ (~m.err /\ ~m.val))
    /\ pos' = pos + 1
    /\ UNCHANGED <<cfg, items, attributes, applied>>

(* visit_meta_item, "cfg_attr": the enclosed attribute is visited as a    *)
(* meta item of its own when the condition holds.                          *)
VisitCfgAttr ==
    /\ status = "running" /\ pos <= Len(items)
    /\ Item.kind = "cfg_attr"
    /\ LET m == CfgEval(Item.cond) IN
         \/ /\ m.err
            /\ status' = "InvalidAttribute"
            /\ UNCHANGED <<attributes, applied>>
            /\ pos' = pos + 1
         \/ /\ ~m.err /\ ~m.val
            /\ pos' = pos + 1
            /\ UNCHANGED <<attributes, status, applied>>
         \/ /\ ~m.err /\ m.val
            /\ Take(VisitSimple(Item.inner))
            /\ applied' = applied \cup {pos}
    /\ UNCHANGED <<cfg, items, shouldSkip>>

(* parse_attributes: every item visited; the node is kept unless          *)
(* should_skip.                                                             *)
Finish ==
    /\ status = "running" /\ pos > Len(items)
    /\ status' = "ok"
    /\ UNCHANGED <<cfg, items, pos, attributes, shouldSkip, applied>>

Next == VisitAttribute \/ VisitCfg \/ VisitCfgAttr \/ Finish

(* Parsing a node's attributes is a terminating, sequential computation.  *)
Spec == Init /\ [][Next]_vars

-----------------------------------------------------------------------------
(* Types; in particular an Align collected by the align arm is a power of *)
(* two above 1, as C's aligned attribute takes it (align 1 is only a       *)
(* warning and adds nothing).                                              *)
TypeOK ==
    /\ cfg \in CfgMaps
    /\ Len(items) <= MaxItems /\ \A j \in DOMAIN items : items[j] \in Items
    /\ pos \in 1..Len(items) + 1
    /\ attributes \in Seq([kind : AttrKinds \ {"Align"}, n : {0}]
                         \cup [kind : {"Align"}, n : {2}])
    /\ shouldSkip \in BOOLEAN
    /\ status \in {"running", "ok"} \cup Errors
    /\ applied \subseteq 1..Len(items)

(* Spec 4.5, the cfg DSL as boolean logic: a leaf holds when the name is  *)
(* set (to the value, if one is given); all, any, not and cfg are          *)
(* conjunction, disjunction, negation and identity.                        *)
RECURSIVE WellFormed(_), Holds(_)
WellFormed(e) ==
    \/ e.op = "leaf"
    \/ e.op \in {"all", "any"} /\ \A j \in DOMAIN e.args : WellFormed(e.args[j])
    \/ e.op \in {"cfg", "not"} /\ Len(e.args) = 1 /\ WellFormed(e.args[1])
Holds(e) ==
    CASE e.op = "leaf" -> cfg[e.name] # Absent
                          /\ (e.value = NoValue \/ cfg[e.name] = e.value)
      [] e.op = "cfg" -> Holds(e.args[1])
      [] e.op = "not" -> ~Holds(e.args[1])
      [] e.op = "all" -> \A j \in DOMAIN e.args : Holds(e.args[j])
      [] e.op = "any" -> \E j \in DOMAIN e.args : Holds(e.args[j])

Visited == {j \in 1..pos - 1 : items[j].kind \in {"cfg", "cfg_attr"}}

(* The short-circuit evaluation of the CfgVisitor decides every           *)
(* well-formed condition as boolean logic does: a cfg_attr's attribute is *)
(* applied exactly when its condition holds, and a node whose attributes  *)
(* were all accepted is skipped exactly when one of its cfg conditions    *)
(* fails.                                                                   *)
CfgConditionsHonoured ==
    /\ \A j \in Visited :
          items[j].kind = "cfg_attr" /\ WellFormed(items[j].cond) =>
              (j \in applied <=> Holds(items[j].cond))
    /\ status = "ok" /\ (\A j \in Visited : WellFormed(items[j].cond)) =>
          (shouldSkip <=> \E k \in Visited : items[k].kind = "cfg"
                                             /\ ~Holds(items[k].cond))

(* Spec 4.5: Align is mutually exclusive with Packed, in whichever order  *)
(* the two arrive, directly or through cfg_attr.                           *)
AlignPackedExclusive == ~(Has("Align") /\ Has("Packed"))

(* Spec 4.5: duplicate attributes are errors; no Attribute value occurs   *)
(* twice in an accepted attribute list.                                    *)
NoDuplicateAttributes ==
    \A j, k \in DOMAIN attributes :
        j # k => attributes[j].kind # attributes[k].kind
====
