------------------------------ MODULE ScopeTables ------------------------------
(***************************************************************************)
(* What the methods of a checker's Scope do to its tables (ry-checker,     *)
(* lib.rs, scope_journal.rs, literal_values.rs, box_imports.rs and         *)
(* reference_facts.rs), and how an `if` joins its two arms.                *)
(*                                                                         *)
(* A method is a function from a Walk to a Walk: the scope so far, and the *)
(* undo records that the changes push when a snapshot is open.  A record   *)
(* may cover several names: the code pushes one for each.                  *)
(***************************************************************************)
EXTENDS Integers, FiniteSets, Sequences, Functions

CONSTANTS Slots,        \* as the source spells them: x and `x` are two
          Canonical,    \* the names that R makes of them
          CanonOf,      \* semantic_argument_name
          None

ASSUME NamesAssumption ==
    /\ CanonOf \in [Slots -> Canonical]
    /\ None \notin {"function", "scalar", "vector", "long", "NULL", "nullable",
                    "unknown", "target", "package", "attached", "module",
                    "opaque", "d1", "d2"}

\* A scalar stands for the types of known class or of length at most one, a
\* long vector for those that a guard has proved longer than that, and a
\* nullable one for the union of NULL and a scalar
BindingTypes == {"function", "scalar", "vector", "long", "NULL", "nullable", "unknown"}
Marks == {"narrowed", "parameter", "scalar", "vector", "list", "default",
          "lexical"}
MarkerKinds == {"list", "lexical", "parameter", "scalar", "vector"}
Boxes == {"package", "attached", "module", "opaque"}
CallBoxes == {"package", "attached", "opaque"}
Spans == {"d1", "d2"}
Sticky == {"effects", "dynamic", "literal_values", "ops_environment",
           "unseen_rebinds"}
Flags == Sticky \cup {"search_path", "mask_env", "unsafe_read",
                      "unreachable", "loop"}
OpsFacts == {"function", "vector"}

Binding == [type : BindingTypes \cup {None}, marks : SUBSET Marks,
            definition : Spans \cup {None}, alias : {"target", None},
            box : Boxes \cup {None}, provenance : Spans \cup {None}]
Scope == [bind : [Slots -> Binding], ops : [Canonical -> SUBSET OpsFacts],
          strings : [Canonical -> BOOLEAN],
          guards : [Canonical -> SUBSET Canonical],
          flags : SUBSET Flags, failed : SUBSET {"package"}]

\* A binding that an ordinary assignment leaves: its type and nothing else
Plain(t) == [type |-> t, marks |-> {}, definition |-> None, alias |-> None,
             box |-> None, provenance |-> None]
Absent == Plain(None)

\* f where it is defined, and g elsewhere
Over(f, g) == [x \in DOMAIN f \cup DOMAIN g |-> IF x \in DOMAIN f THEN f[x] ELSE g[x]]
Only(n, value) == [m \in {n} |-> value]

-----------------------------------------------------------------------------
\* Undo records

Here(s) == [at |-> s, log |-> <<>>]

\* Reaching scope `new` by a change that pushes a record of what was there
Recorded(W, kind, saved, new) ==
    [at |-> new,
     log |-> Append(W.log, [kind |-> kind, saved |-> saved, before |-> W.at])]

\* Changes that no record holds: the marks of a snapshot restore them
Flagged(W, set) == [W EXCEPT !.at.flags = @ \cup set]

BindingKinds == {"Binding", "Assignment", "LexicalDefinition", "Alias",
                 "Reference"} \cup MarkerKinds

\* AssignmentUndo::restore, which relies on what an assignment has removed
Unassigned(old, now) ==
    [type |-> old.type, marks |-> now.marks \cup old.marks,
     definition |-> old.definition,
     alias |-> IF old.alias = None THEN now.alias ELSE old.alias,
     box |-> IF old.box = None THEN now.box ELSE old.box,
     provenance |-> IF old.provenance = None THEN now.provenance
                                             ELSE old.provenance]

\* One binding before the change that pushed a record of this kind
Restored(kind, old, now) ==
    CASE kind = "Binding" -> old
      [] kind = "Assignment" -> Unassigned(old, now)
      [] kind = "LexicalDefinition" -> [now EXCEPT !.definition = old]
      [] kind = "Alias" -> [now EXCEPT !.alias = old]
      [] kind \in {"Reference", "Provenance"} -> [now EXCEPT !.provenance = old]
      [] kind \in MarkerKinds ->
            [now EXCEPT !.marks = IF old THEN @ \cup {kind} ELSE @ \ {kind}]

\* The scope before the change that pushed record r, from the one after it
Undone(r, s) ==
    CASE r.kind \in {"KnownString", "KnownStrings"} ->
            [s EXCEPT !.strings = Over(r.saved, @)]
      [] r.kind \in {"ConditionAlias", "ConditionAliases"} ->
            [s EXCEPT !.guards = Over(r.saved, @)]
      [] r.kind \in {"OpsBinding", "OpsTables"} ->
            [s EXCEPT !.ops = Over(r.saved, @)]
      [] OTHER ->
            [s EXCEPT !.bind = Over([n \in DOMAIN r.saved |->
                                       Restored(r.kind, r.saved[n], @[n])], @)]

-----------------------------------------------------------------------------
\* Facts by canonical name: known strings, guard aliases, operator facts

ClearString(W, C) ==
    LET known == {c \in C : W.at.strings[c]}
    IN IF known = {} THEN W
       ELSE Recorded(W, "KnownString", Restrict(W.at.strings, known),
                [W.at EXCEPT !.strings = Over([c \in known |-> FALSE], @)])

ClearStrings(W) ==
    IF \A c \in Canonical : ~W.at.strings[c] THEN W
    ELSE Recorded(W, "KnownStrings", W.at.strings,
             [W.at EXCEPT !.strings = [c \in Canonical |-> FALSE]])

SetString(W, c) ==
    IF W.at.flags \cap {"effects", "literal_values"} # {} THEN W
    ELSE Recorded(W, "KnownString", Restrict(W.at.strings, {c}),
             [W.at EXCEPT !.strings[c] = TRUE])

InvalidateLiterals(W) == Flagged(ClearStrings(W), {"literal_values"})

\* retain_condition_aliases: an alias dies with its name and with every name
\* that its condition reads
DropGuards(W, C) ==
    LET lost == {c \in Canonical : /\ W.at.guards[c] # {}
                                   /\ ({c} \cup W.at.guards[c]) \cap C # {}}
    IN IF lost = {} THEN W
       ELSE Recorded(W, "ConditionAlias", Restrict(W.at.guards, lost),
                [W.at EXCEPT !.guards = Over([c \in lost |-> {}], @)])

ClearGuards(W) ==
    IF \A c \in Canonical : W.at.guards[c] = {} THEN W
    ELSE Recorded(W, "ConditionAliases", W.at.guards,
             [W.at EXCEPT !.guards = [c \in Canonical |-> {}]])

SetGuard(W, c, reads) ==
    IF c \in reads THEN W
    ELSE Recorded(W, "ConditionAlias", Restrict(W.at.guards, {c}),
             [W.at EXCEPT !.guards[c] = reads])

\* Mutant: operator facts are dropped without a record
ClearOpsUnrecorded(W, C) == [W EXCEPT !.at.ops = Over([c \in C |-> {}], @)]

ClearOps(W, C) ==
    LET known == {c \in C : W.at.ops[c] # {}}
    IN IF known = {} THEN W
       ELSE Recorded(W, "OpsBinding", Restrict(W.at.ops, known),
                [W.at EXCEPT !.ops = Over([c \in known |-> {}], @)])

ClearOpsFacts(W) ==
    IF \A c \in Canonical : W.at.ops[c] = {} THEN W
    ELSE Recorded(W, "OpsTables", W.at.ops,
             [W.at EXCEPT !.ops = [c \in Canonical |-> {}]])

\* set_literal_function and mark_plain_ops_vector
AddOpsFact(W, c, fact) ==
    Recorded(W, "OpsBinding", Restrict(W.at.ops, {c}),
        [W.at EXCEPT !.ops[c] = @ \cup {fact}])

CanonsOf(set) == {CanonOf[n] : n \in set}

-----------------------------------------------------------------------------
\* Facts by name

\* A change of whole bindings, to those of f
Rebound(W, f) ==
    IF DOMAIN f = {} THEN W
    ELSE Recorded(W, "Binding", Restrict(W.at.bind, DOMAIN f),
             [W.at EXCEPT !.bind = Over(f, @)])

\* A change that gives field-wise records: f, the new bindings of the names
\* whose old field is saved
Changed(W, kind, saved, f) ==
    IF DOMAIN f = {} THEN W
    ELSE Recorded(W, kind, saved, [W.at EXCEPT !.bind = Over(f, @)])

Mark(W, set, m) ==
    Changed(W, m, [n \in set |-> m \in W.at.bind[n].marks],
        [n \in set |-> [W.at.bind[n] EXCEPT !.marks = @ \cup {m}]])

Marked(s, m) == {n \in Slots : m \in s.bind[n].marks}

\* The markers that are set and cleared only where this changes something
MarkNew(W, set, m) == Mark(W, set \ Marked(W.at, m), m)

Unmark(W, set, m) ==
    LET had == set \cap Marked(W.at, m)
    IN Changed(W, m, [n \in had |-> TRUE],
           [n \in had |-> [W.at.bind[n] EXCEPT !.marks = @ \ {m}]])

\* Mutant: an alias is set without a record
SetAliasUnrecorded(W, set) ==
    [W EXCEPT !.at.bind = Over([n \in set |-> [@[n] EXCEPT !.alias = "target"]], @)]

SetAlias(W, set) ==
    Changed(W, "Alias", [n \in set |-> W.at.bind[n].alias],
        [n \in set |-> [W.at.bind[n] EXCEPT !.alias = "target"]])

\* mark_bound_function_definition, forget_lexical_definition
SetDefinition(W, f) ==
    Changed(W, "LexicalDefinition",
        [n \in DOMAIN f |-> W.at.bind[n].definition],
        [n \in DOMAIN f |-> [W.at.bind[n] EXCEPT !.definition = f[n]]])

MarkLexicalFunction(W, n, span) ==
    SetDefinition(Mark(W, {n}, "lexical"), Only(n, span))

SetBox(W, f) ==
    Rebound(W, [n \in DOMAIN f |-> [W.at.bind[n] EXCEPT !.box = f[n]]])

\* set_box_attachment
Attach(W, f) ==
    SetBox(SetAlias(W, {n \in DOMAIN f : f[n] = "package"}), f)

ClearReferences(W) ==
    Recorded(W, "Provenance", [n \in Slots |-> W.at.bind[n].provenance],
        [W.at EXCEPT !.bind = [n \in Slots |-> [@[n] EXCEPT !.provenance = None]]])

\* box_call_after_write: what an attached name is to calls after a write
BoxAfter(b, t) ==
    IF t # "function" /\ b.box \in CallBoxes THEN "opaque" ELSE None

\* Mutant: an assignment counts as a repetition if only its type is the same
AssignPlainByType(W, f) ==
    LET K == ClearOps(W, CanonsOf(DOMAIN f))
        wrote == {n \in DOMAIN f : K.at.bind[n].type # f[n]}
    IN [Changed(K, "Assignment", Restrict(K.at.bind, wrote),
                [n \in wrote |-> Plain(f[n])]) EXCEPT
            !.at.bind = Over([n \in DOMAIN f |-> Plain(f[n])], @)]

\* insert_with_assignment_undo.  It skips a name whose binding is as it was.
AssignPlain(W, f) ==
    LET K == ClearOps(W, CanonsOf(DOMAIN f))
        wrote == {n \in DOMAIN f : K.at.bind[n] # Plain(f[n])}
    IN Changed(K, "Assignment", Restrict(K.at.bind, wrote),
           [n \in wrote |-> Plain(f[n])])

InsertValue(W, f) ==
    LET C == CanonsOf(DOMAIN f)
    IN AssignPlain(DropGuards(ClearString(W, C), C), f)

\* Scope::insert of the types f: what an R assignment does to a binding
Insert(W, f) ==
    LET calls == {n \in DOMAIN f : BoxAfter(W.at.bind[n], f[n]) = "opaque"}
    IN SetBox(InsertValue(W, f), [n \in calls |-> "opaque"])

Narrowed(b, t) ==
    [b EXCEPT !.type = t, !.definition = None, !.alias = None,
              !.provenance = None, !.box = BoxAfter(b, t),
              !.marks = (@ \ ({"lexical"} \cup
                              IF t \in {"scalar", "NULL"} THEN {"vector"} ELSE {}))
                        \cup {"narrowed"}]

InsertNarrowed(W, f) ==
    ClearOps(Rebound(W, [n \in DOMAIN f |-> Narrowed(W.at.bind[n], f[n])]),
             CanonsOf(DOMAIN f))

InsertParameter(W, f) == Mark(Insert(W, f), DOMAIN f, "parameter")

Defaulted(b, t) ==
    [b EXCEPT !.type = t, !.definition = None, !.alias = None,
              !.provenance = None, !.box = BoxAfter(b, t),
              !.marks = (@ \ {"narrowed", "scalar", "vector"})
                        \cup {"parameter", "default"}]

InsertDefaults(W, f) ==
    ClearOps(Rebound(W, [n \in DOMAIN f |-> Defaulted(W.at.bind[n], f[n])]),
             CanonsOf(DOMAIN f))

ReplaceBindingOnly(W, n, t) ==
    Rebound(W, Only(n, [W.at.bind[n] EXCEPT !.type = t]))

\* install_reference_definition
InstallReference(W, n, span) ==
    Changed(W, "Reference", Only(n, W.at.bind[n].provenance),
        Only(n, IF "unsafe_read" \in W.at.flags THEN W.at.bind[n]
                ELSE [W.at.bind[n] EXCEPT !.provenance = span]))

\* finish_reference_read: only an ordinary local is read without effects
FinishRead(W, n) ==
    IF /\ W.at.bind[n].provenance # None
       /\ "parameter" \notin W.at.bind[n].marks
    THEN W
    ELSE ClearReferences(Flagged(W, {"unsafe_read"}))

\* invalidate_scalar_assertions
InvalidateScalars(W) == Unmark(Flagged(W, {"dynamic"}), Slots, "scalar")

\* invalidate_unknown_effects
Forgotten(b) ==
    [Plain(IF b.type = None THEN None ELSE "unknown") EXCEPT
        !.box = IF b.box \in CallBoxes THEN "opaque" ELSE None,
        !.provenance = b.provenance]

InvalidateEffects(W) ==
    LET K == ClearGuards(ClearStrings(W))
        named == {n \in Slots :
                    [K.at.bind[n] EXCEPT !.provenance = None] # Absent}
        F == Rebound(K, [n \in named |-> Forgotten(K.at.bind[n])])
        G == ClearOpsFacts(ClearReferences(F))
    IN [Flagged(G, {"effects", "search_path", "mask_env", "unsafe_read",
                    "ops_environment"}) EXCEPT !.at.failed = {}]

-----------------------------------------------------------------------------
\* What the walk of an arm does to the scope

\* The names that a snapshot's delta holds
Touched(log) ==
    UNION {DOMAIN log[i].saved : i \in {j \in DOMAIN log : log[j].kind \in BindingKinds}}

\* Arguments that may run here or in a child frame (local, test_that): the
\* names that they write in a child's snapshot lose their value here
Independent(s) ==
    [s EXCEPT !.flags = (@ \ {"dynamic", "unreachable", "loop"})
                        \cup {"unseen_rebinds"},
              !.bind = [n \in Slots |->
                          [s.bind[n] EXCEPT !.marks = @ \ {"scalar", "vector"}]],
              !.strings = [c \in Canonical |-> FALSE],
              !.guards = [c \in Canonical |-> {}], !.failed = {}]

Probe(W, child) ==
    Insert(Flagged(W, child.at.flags \cap {"effects", "mask_env"}),
           [n \in Touched(child.log) |-> "unknown"])

\* `value` is the type, definition, box, fact or names that the call passes
Methods == {"insert", "narrow", "parameter", "default", "replace", "list_origin",
            "callable", "lexical", "scalar", "clear_scalar", "vector", "alias",
            "box", "install", "read", "ops", "string", "guard", "dispatch",
            "swap", "unseen", "effects", "ops_environment", "throw", "load",
            "probe", "probe_effects"}
Callable(o) ==
    /\ o.op \in Methods
    /\ o.name \in Slots
    /\ o.op \in {"insert", "narrow", "parameter", "default", "replace", "probe"}
       => o.value \in BindingTypes
    /\ o.op \in {"lexical", "install"} => o.value \in Spans
    /\ o.op = "box" => o.value \in Boxes
    /\ o.op = "ops" => o.value \in OpsFacts
    /\ o.op = "guard" => o.value \in SUBSET Canonical

Apply(W, o) ==
    LET n == o.name
        c == CanonOf[n]
        f == Only(n, o.value)
    IN CASE o.op = "insert" -> Insert(W, f)
         [] o.op = "narrow" -> InsertNarrowed(W, f)
         [] o.op = "parameter" -> InsertParameter(W, f)
         [] o.op = "default" -> InsertDefaults(W, f)
         [] o.op = "replace" -> ReplaceBindingOnly(W, n, o.value)
         [] o.op = "list_origin" -> Mark(W, {n}, "list")
         [] o.op = "callable" -> Mark(W, {n}, "lexical")
         [] o.op = "lexical" -> MarkLexicalFunction(W, n, o.value)
         [] o.op = "scalar" -> MarkNew(W, {n}, "scalar")
         [] o.op = "clear_scalar" -> Unmark(W, {n}, "scalar")
         [] o.op = "vector" -> MarkNew(W, {n}, "vector")
         [] o.op = "alias" -> SetAlias(W, {n})
         [] o.op = "box" -> IF o.value \in {"package", "attached"}
                            THEN Attach(W, f) ELSE SetBox(W, f)
         [] o.op = "install" -> InstallReference(Insert(W, Only(n, "scalar")), n, o.value)
         [] o.op = "read" -> FinishRead(W, n)
         [] o.op = "ops" -> AddOpsFact(W, c, o.value)
         [] o.op = "string" -> SetString(W, c)
         [] o.op = "guard" -> SetGuard(W, c, o.value)
         [] o.op = "dispatch" -> InvalidateLiterals(W)
         [] o.op = "swap" -> InvalidateScalars(W)
         [] o.op = "unseen" -> Flagged(W, {"unseen_rebinds"})
         [] o.op = "effects" -> InvalidateEffects(W)
         [] o.op = "ops_environment" ->
                Flagged(ClearOpsFacts(ClearStrings(W)), {"ops_environment"})
         [] o.op = "throw" -> Flagged(W, {"unreachable"})
         [] o.op = "load" -> [W EXCEPT !.at.failed = {}]
         [] o.op = "probe" ->
                Probe(W, Insert(Here(Independent(W.at)), f))
         [] o.op = "probe_effects" ->
                Probe(W, InvalidateEffects(Here(Independent(W.at))))
================================================================================
