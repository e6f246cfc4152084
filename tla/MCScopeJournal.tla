---------------------------- MODULE MCScopeJournal ----------------------------
(***************************************************************************)
(* x and tx, which is x between ticks, are one name to R; a guard alias   *)
(* has another.  One scope has every kind of fact, a loop's scope few.     *)
(***************************************************************************)
EXTENDS ScopeJournal, TLC

MCCanonOf == [n \in Slots |-> "x"]

MCScopes ==
    LET rich == [type |-> "vector", marks |-> Marks \ {"narrowed"},
                 definition |-> "d1", alias |-> "target", box |-> "package",
                 provenance |-> "d1"]
        none == [c \in Canonical |-> {}]
    IN {[bind |-> [n \in Slots |-> IF n = "x" THEN rich ELSE Absent],
         ops |-> [none EXCEPT !["x"] = {"function"}],
         strings |-> [c \in Canonical |-> c = "x"],
         guards |-> [none EXCEPT !["y"] = {"x"}],
         flags |-> {}, failed |-> {"package"}],
        [bind |-> [n \in Slots |->
                     Plain(IF n = "x" THEN "nullable" ELSE "vector")],
         ops |-> none, strings |-> [c \in Canonical |-> FALSE], guards |-> none,
         flags |-> {"loop"}, failed |-> {}]}

\* What the predicates prove of a type: that it is another one, that the
\* value is NULL, that it is not, that it is longer than one
Becomes(type) == [old \in BindingTypes \cup {None} |-> type]
IsNull == [old \in BindingTypes \cup {None} |->
             IF old \in {"NULL", "nullable", "unknown"} THEN "NULL" ELSE None]
NotNull == [old \in BindingTypes \cup {None} |-> Remainder(old)]
Longer == [old \in BindingTypes \cup {None} |->
             IF old = "vector" THEN "long" ELSE None]

MCTest(else, literal, then, other, fails, diverges, exits, rebound) ==
    [else |-> else, literal |-> literal,
     narrows |-> [arm \in {"then", "else"} |->
                    (IF arm = "then" THEN then ELSE other)
                        @@ [n \in Slots |-> Becomes(None)]],
     fails |-> fails, diverges |-> diverges, exits |-> exits, rebound |-> rebound]

\* if (is.null(x)) .. else ..; if (is.null(x) || length(tx) < 2) return(..);
\* and one with a condition that is FALSE and an else that diverges
MCTests ==
    {MCTest(TRUE, None, "x" :> IsNull, "x" :> NotNull, "then", {}, {}, FALSE),
     MCTest(FALSE, None, <<>>, "x" :> NotNull @@ "tx" :> Longer, "else", {},
            {"then"}, FALSE),
     MCTest(TRUE, "false", "x" :> Becomes("vector"), "x" :> Becomes("scalar"),
            None, {"else"}, {}, TRUE)}

Op(op, n, value) == [op |-> op, name |-> n, value |-> value]

MCOperations ==
    {Op("insert", "x", "function"), Op("insert", "x", "scalar"),
     Op("insert", "x", "NULL"), Op("insert", "tx", "scalar"),
     Op("default", "x", "vector"),
     Op("replace", "tx", "scalar"), Op("list_origin", "x", None),
     Op("lexical", "x", "d2"), Op("scalar", "x", None),
     Op("vector", "x", None), Op("alias", "x", None),
     Op("box", "x", "module"), Op("box", "tx", "attached"),
     Op("install", "x", "d2"), Op("read", "x", None),
     Op("ops", "x", "vector"), Op("string", "x", None),
     Op("guard", "x", {"y"}), Op("dispatch", "x", None),
     Op("swap", "x", None), Op("unseen", "x", None), Op("effects", "x", None),
     Op("ops_environment", "x", None), Op("throw", "x", None),
     Op("load", "x", None), Op("probe", "x", "scalar")}
===============================================================================
