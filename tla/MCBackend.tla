----------------------------- MODULE MCBackend -------------------------------
(* Small instances of Backend: one path with two names, two callers whose  *)
(* calls meet in every combination that shares a cache; the bundled binary *)
(* and another.                                                            *)
EXTENDS Backend

MCUris == {"up", "up2"}
MCPathOf == [u \in MCUris |-> "p"]
MCDisplayUri == [p \in {"p"} |-> "up"]

Pair(a, b) == [c \in {"first", "second"} |-> IF c = "first" THEN a ELSE b]
MCPlans == {Pair("parse", "hints"), Pair("hints", "hints"),
            Pair("parse", "action")}

MCBinaries == {"bundled", "a"}
==============================================================================
