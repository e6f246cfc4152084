---------------------------- MODULE MCCheckCommand ----------------------------
(***************************************************************************)
(* Small instances of CheckCommand: one source, which may be excluded;     *)
(* import graphs over three modules, one of which may import itself and    *)
(* one may be rejected by R, whose imports then do not matter; two files   *)
(* of two or three lines, one of them demoted.                             *)
(***************************************************************************)
EXTENDS CheckCommand, MCReport

MCExcludes == {{}, {"a"}}

MCGraphs ==
    {g \in [imports : [Modules -> SUBSET Modules],
            readable : {Modules, Modules \ {"c"}}] :
        /\ "b" \notin g.imports["b"] /\ "c" \notin g.imports["c"]
        /\ "c" \in g.readable \/ g.imports["c"] = {}}
===============================================================================
