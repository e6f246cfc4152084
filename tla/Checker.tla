------------------------------- MODULE Checker --------------------------------
(***************************************************************************)
(* The checker of ry-checker: the incremental check of a package, which    *)
(* takes a file as what it defines, calls and binds, and the walk of one   *)
(* function's ifs with the branch journal.  The two share no state here,   *)
(* so a behaviour follows one.                                             *)
(***************************************************************************)
EXTENDS Project, ScopeJournal

VARIABLE part    \* the one that a behaviour follows

checkerVars == <<vars, journalVars, part>>

\* The part that is not followed starts anywhere, and stays there.
CheckerInit ==
    /\ part \in {"package", "walk"}
    /\ part = "package" => scope = CHOOSE s \in InitialScopes : TRUE
    /\ part = "walk" => workspace = CHOOSE w \in Workspaces : TRUE
    /\ Init /\ JournalInit

PackagePart == part = "package" /\ Next /\ UNCHANGED <<journalVars, part>>
WalkPart == part = "walk" /\ JournalNext /\ UNCHANGED <<vars, part>>

CheckerNext == PackagePart \/ WalkPart

CheckerSpec == CheckerInit /\ [][CheckerNext]_checkerVars
===============================================================================
