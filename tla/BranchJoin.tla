------------------------------ MODULE BranchJoin ------------------------------
(***************************************************************************)
(* The join of an `if` (ry-checker, infer/mod.rs walk_journal_if): what    *)
(* the two arms' final bindings leave in the enclosing scope.  An arm is   *)
(* what the join reads of it: its bindings, flags and failed namespaces,   *)
(* and the names its delta has.  What the checker reads off the syntax is  *)
(* part of the test: whether there is an else, a literal condition, what   *)
(* the condition narrows, which arms diverge, which by a `return` at the   *)
(* latest, and whether both always rebind what they change.                *)
(***************************************************************************)
EXTENDS ScopeTables

CONSTANT ReturnNames    \* the spellings of `return` among the names

ASSUME ReturnAssumption == ReturnNames \subseteq Slots

\* What the test makes, in an arm, of the type that a name has: None where
\* it proves nothing
Narrowings == [BindingTypes \cup {None} -> BindingTypes \cup {None}]
Tests == [else : BOOLEAN, literal : {"true", "false", None},
          narrows : [{"then", "else"} -> [Slots -> Narrowings]],
          fails : {"then", "else", None}, rebound : BOOLEAN,
          diverges : SUBSET {"then", "else"}, exits : SUBSET {"then", "else"}]

\* apply_narrowing_branch: what the test proves in an arm
Proved(t, arm, s) ==
    LET type(n) == t.narrows[arm][n][s.bind[n].type]
    IN [n \in {m \in Slots : type(m) # None} |-> type(n)]

Reaches(t, which, arm) ==
    "unreachable" \notin arm.flags /\ (which = "then" \/ t.else)
Diverges(t, which, base, arm) ==
    \/ {"loop"} \cap base.flags # {} /\ "unreachable" \in arm.flags
    \/ which \in t.diverges
NarrowedNames(t, base) ==
    DOMAIN Proved(t, "then", base) \cup DOMAIN Proved(t, "else", base)

\* RType::join, of types that are there; unknown also stands for any other union
Lub(a, b) == IF a = b THEN a
             ELSE IF {a, b} \subseteq {"scalar", "vector", "long"} THEN "vector"
             ELSE IF {a, b} \subseteq {"scalar", "NULL", "nullable"} THEN "nullable"
             ELSE "unknown"

\* A definition is kept if every arm that reaches the end kept it
ForgetDefinitions(W, t, then, else) ==
    LET old(n) == W.at.bind[n].definition
        lost == {n \in Slots :
                    /\ old(n) # None
                    /\ \/ /\ Reaches(t, "then", then)
                          /\ then.bind[n].definition # old(n)
                       \/ /\ Reaches(t, "else", else)
                          /\ else.bind[n].definition # old(n)}
    IN SetDefinition(W, [n \in lost |-> None])

\* So is a scalar assertion, by every arm that continues
LoseAssertions(W, t, then, else) ==
    LET lost(which, arm) ==
            IF Diverges(t, which, W.at, arm) THEN {}
            ELSE Slots \ Marked(arm, "scalar")
    IN Unmark(W, lost("then", then) \cup
                 (IF t.else THEN lost("else", else) ELSE {}), "scalar")

\* join_failed_namespaces
FailedAfter(base, t, then, else) ==
    {p \in base.failed \cup then.failed \cup else.failed :
        /\ Diverges(t, "then", base, then) \/ p \in then.failed
        /\ Diverges(t, "else", base, else) \/ p \in else.failed}

\* Uncertainty::continuing: a diverging arm keeps its replaced bindings
Continuing(t, which, base, arm) ==
    (arm.flags \cap Sticky) \
        IF Diverges(t, which, base, arm) THEN {"dynamic"} ELSE {}

\* The arms whose bindings the merge takes
MergingArms(t, base, then, else) ==
    LET reach == {w \in {"then", "else"} :
                    Reaches(t, w, IF w = "then" THEN then ELSE else)}
    IN IF t.else /\ Cardinality(reach) = 1 THEN reach
       ELSE IF "loop" \in base.flags /\ reach = {} /\ ~t.else THEN {}
       ELSE {"then", "else"}

\* An arm rebinds n if it leaves another type there; a type that the test
\* alone narrowed is the arm's own
Rebinds(t, base, arm, n) ==
    /\ arm.bind[n].type \notin {None, base.bind[n].type}
    /\ ~(n \in NarrowedNames(t, base) /\ "narrowed" \in arm.bind[n].marks)

MergedType(t, base, then, else, n) ==
    LET both == Rebinds(t, base, then, n) /\ Rebinds(t, base, else, n) /\ t.else
        new == IF both THEN Lub(then.bind[n].type, else.bind[n].type)
               ELSE IF Rebinds(t, base, then, n) THEN then.bind[n].type
               ELSE else.bind[n].type
        old == base.bind[n].type
    IN IF both /\ (old = None \/ t.rebound) THEN new
       ELSE IF old = None THEN "unknown" ELSE Lub(old, new)

ListOrigin(arm, n) ==
    arm.bind[n].type = None \/ "list" \in arm.bind[n].marks

MergeBindings(W, t, base, then, else) ==
    LET arms == MergingArms(t, base, then, else)
        sole == IF arms = {"then"} THEN then ELSE else
        names == IF arms = {} THEN {}
                 ELSE IF Cardinality(arms) = 1
                 THEN {n \in Slots : Rebinds(t, base, sole, n)}
                 ELSE {n \in Slots : \/ Rebinds(t, base, then, n)
                                     \/ t.else /\ Rebinds(t, base, else, n)}
        types == [n \in names |->
                    IF Cardinality(arms) = 1 THEN sole.bind[n].type
                    ELSE MergedType(t, base, then, else, n)]
        lists == {n \in names :
                    IF Cardinality(arms) = 1 THEN "list" \in sole.bind[n].marks
                    ELSE ListOrigin(then, n) /\ ListOrigin(else, n)}
        lost == \/ "then" \in arms /\ "mask_env" \in then.flags
                \/ "else" \in arms /\ "mask_env" \in else.flags
    IN Flagged(Mark(Insert(W, types), lists, "list"),
               IF lost THEN {"mask_env"} ELSE {})

\* What the test proved in the one arm that continues holds after the `if`
ContinueNarrowing(W, t, base, then, else) ==
    LET dies(which, arm) == Diverges(t, which, base, arm)
        gone == dies("then", then)
        only == IF gone /\ (~t.else \/ ~dies("else", else)) THEN {else}
                ELSE IF ~gone /\ t.else /\ dies("else", else) THEN {then}
                ELSE {}
        facts == {n \in NarrowedNames(t, base) :
                    \E arm \in only : arm.bind[n].type # None}
        arm == CHOOSE a \in only : TRUE
        types(set) == [n \in set |-> arm.bind[n].type]
        default == {n \in facts : "default" \in arm.bind[n].marks}
    IN Insert(InsertDefaults(W, types(default)), types(facts \ default))

\* narrow_away_from_null: what is left of a type that includes NULL
Remainder(type) == CASE type = "NULL" -> "unknown"
                     [] type = "nullable" -> "scalar"
                     [] OTHER -> None

\* What an arm leaves of a name of type `old`: the test proved the old type
\* wrong there, or only longer, or left its remainder; or the arm rebound it
ProvedWrong(b) == "narrowed" \in b.marks /\ b.type = "unknown"
ProvedLong(b, old) == "narrowed" \in b.marks /\ old = "vector" /\ b.type = "long"
IsRemainder(b, old) == "narrowed" \in b.marks /\ b.type = Remainder(old)
IsRebound(b, old) == "narrowed" \notin b.marks /\ b.type \notin {None, old}

\* union_guard_continuation_refinement: what holds after the `if`, where one
\* arm alone goes on for the other returns, or, where both go on (`open`),
\* one has rebound the name and the other has the remainder
Refined(old, then, else, exits, open) ==
    LET type == old.type
        default == \E b \in {old, then, else} : "default" \in b.marks
        alone == Cardinality(exits) = 1
        b == IF exits = {"then"} THEN else ELSE then
        new == IF IsRebound(then, type) /\ IsRemainder(else, type) THEN then.type
               ELSE IF IsRebound(else, type) /\ IsRemainder(then, type) THEN else.type
               ELSE None
    IN CASE alone /\ ProvedWrong(b) -> "unknown"
         [] alone /\ ProvedLong(b, type) /\ ~default -> "long"
         [] Remainder(type) = None \/ (type = "nullable" /\ default) -> None
         [] alone /\ (IsRemainder(b, type) \/ IsRebound(b, type)) -> b.type
         [] exits = {} /\ open /\ new # None ->
                IF type = "nullable" THEN Lub(new, Remainder(type))
                ELSE IF default THEN "unknown" ELSE new
         [] OTHER -> None

MayRefine(t, base, then, else) ==
    \E n \in NarrowedNames(t, base) :
        \/ Remainder(base.bind[n].type) # None
        \/ \E b \in {then.bind[n], else.bind[n]} :
                ProvedWrong(b) \/ ProvedLong(b, base.bind[n].type)

\* The arms that a `return` ends, which scope s has not rebound, nor the arm
Exits(t, base, s, then, else, plain) ==
    {w \in t.exits \cap plain :
        /\ MayRefine(t, base, then, else)
        /\ \A r \in ReturnNames : s.bind[r].type = None
        /\ ~Diverges(t, w, base, IF w = "then" THEN then ELSE else)}

Refinements(t, base, then, else, exits) ==
    LET open == Reaches(t, "then", then) /\ (t.else => Reaches(t, "else", else))
        type(n) == Refined(base.bind[n], then.bind[n], else.bind[n], exits, open)
    IN [n \in {m \in NarrowedNames(t, base) :
                  base.bind[m].type # None /\ type(m) # None} |-> type(n)]

\* A vector alternative survives on any arm that continues
JoinLoopVectors(W, t, base, then, else) ==
    LET path == IF t.else THEN else ELSE base
        from(which, dead, arm, vectors) ==
            IF Diverges(t, which, base, arm) \/ t.literal = dead THEN {}
            ELSE Marked(vectors, "vector")
        after == from("then", "false", then, then) \cup
                 from("else", "true", else, path)
    IN MarkNew(Unmark(W, Slots \ after, "vector"), after, "vector")

\* join_box_provenance: a binding whose paths disagree has opaque calls
JoinedBoxes(t, base, then, else) ==
    LET paths == (IF Reaches(t, "then", then) THEN {then} ELSE {}) \cup
                 (IF ~t.else THEN {base}
                  ELSE IF Reaches(t, "else", else) THEN {else} ELSE {})
        boxes(n) == {arm.bind[n].box : arm \in paths}
        names == {n \in Slots : paths # {} /\ boxes(n) \cup {base.bind[n].box} # {None}}
    IN [n \in names |-> IF Cardinality(boxes(n)) = 1
                        THEN CHOOSE b \in boxes(n) : TRUE ELSE "opaque"]

ApplyBoxes(W, joined) ==
    LET changed == {n \in DOMAIN joined : W.at.bind[n].box # joined[n]}
        attached == {n \in changed : joined[n] \in {"package", "attached"}}
        K == Rebound(W, [n \in changed |->
                [W.at.bind[n] EXCEPT
                    !.alias = IF W.at.bind[n].box = "package" THEN None ELSE @,
                    !.box = IF n \in attached THEN @ ELSE joined[n]]])
    IN Attach(K, [n \in attached |-> joined[n]])

Unreached(t, then, else) ==
    IF t.else /\ "unreachable" \in then.flags \cap else.flags
    THEN {"unreachable"} ELSE {}

\* The join from the scope before the `if`, and with what the test refines
Joined(W, t, then, else, refined) ==
    LET base == W.at
        A == LoseAssertions(ForgetDefinitions(W, t, then, else), t, then, else)
        B == ClearGuards(ClearStrings(ClearOpsFacts(A)))
        C == Flagged([B EXCEPT !.at.failed = FailedAfter(base, t, then, else)],
                     Continuing(t, "then", base, then) \cup
                     Continuing(t, "else", base, else))
        D == MergeBindings(C, t, base, then, else)
        E == InsertNarrowed(ContinueNarrowing(D, t, base, then, else), refined)
        F == JoinLoopVectors(E, t, base, then, else)
        G == ApplyBoxes(F, JoinedBoxes(t, base, then, else))
    IN Flagged(G, Unreached(t, then, else))

\* Mutant: what the test refines is left out
JoinUnrefined(W, t, then, else) == Joined(W, t, then, else, <<>>)

\* An arm rebinds `return` if its delta has the name.
Join(W, t, then, else) ==
    LET plain == {w \in {"then", "else"} :
                    ReturnNames \cap (IF w = "then" THEN then ELSE else).names = {}}
    IN Joined(W, t, then, else,
              Refinements(t, W.at, then, else,
                          Exits(t, W.at, W.at, then, else, plain)))

\* The join of the reference over clones, in its own order.  An arm rebinds
\* `return` if its type there is not that of the scope as merged so far.
ClonedJoin(W, t, then, else) ==
    LET base == W.at
        A == ClearGuards(ClearStrings(ClearOpsFacts(W)))
        B == Flagged(A, ((then.flags \cup else.flags) \cap Sticky) \ {"dynamic"})
        C == MergeBindings(ForgetDefinitions(B, t, then, else), t, base, then, else)
        D == LoseAssertions(C, t, then, else)
        E == Flagged([D EXCEPT !.at.failed = FailedAfter(base, t, then, else)],
                     Continuing(t, "then", base, then) \cup
                     Continuing(t, "else", base, else))
        F == ContinueNarrowing(E, t, base, then, else)
        plain == {w \in {"then", "else"} :
                    \A r \in ReturnNames :
                        F.at.bind[r].type
                            = (IF w = "then" THEN then ELSE else).bind[r].type}
        refined == Refinements(t, base, then, else,
                               Exits(t, base, F.at, then, else, plain))
        G == JoinLoopVectors(InsertNarrowed(F, refined), t, base, then, else)
        H == ApplyBoxes(G, JoinedBoxes(t, base, then, else))
    IN Flagged(H, Unreached(t, then, else))
================================================================================
