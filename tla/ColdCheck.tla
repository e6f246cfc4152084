------------------------------- MODULE ColdCheck -------------------------------
(***************************************************************************)
(* What the server promises of a package check: its diagnostics are those  *)
(* that ry check, which starts from nothing, reports for the same files in *)
(* the same order.  And what it keeps of that promise: a file with the     *)
(* text it had may go on showing what the defaults of its formals were     *)
(* worth at an earlier check.                                              *)
(***************************************************************************)
EXTENDS ProjectTables

VARIABLES
    workspace,      \* [files, declared, stubs]
    diagnostics     \* path -> diagnostics of the last check

Init == diagnostics = <<>>

\* The files and settings change at any time
Edit == UNCHANGED diagnostics

Check == diagnostics' = ColdDiagnostics(workspace)

\* Some files with the same text keep the defaults they saw before.
CheckButDefaults ==
    LET cold == ColdDiagnostics(workspace)
        same == {p \in DOMAIN cold \cap DOMAIN diagnostics :
                    cold[p].content = diagnostics[p].content}
    IN  \E kept \in SUBSET same :
            diagnostics' =
                [p \in DOMAIN cold |->
                    IF p \in kept
                    THEN [cold[p] EXCEPT !.defaults = diagnostics[p].defaults]
                    ELSE cold[p]]

Next == Edit \/ (Check /\ UNCHANGED workspace)
NextButDefaults == Edit \/ (CheckButDefaults /\ UNCHANGED workspace)

Spec == Init /\ [][Next]_<<workspace, diagnostics>>
SpecButDefaults == Init /\ [][NextButDefaults]_<<workspace, diagnostics>>
=============================================================================
