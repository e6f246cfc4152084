----------------------------- MODULE CheckCommand -----------------------------
(***************************************************************************)
(* ry check: the loop of --watch, the checkers of one pass, which share    *)
(* the inventories of box modules, and what the pass makes of their        *)
(* findings.  A pass is one step of the loop, and the findings are there   *)
(* when the checkers are done: the three share no state, so a behaviour    *)
(* follows one of them.                                                    *)
(***************************************************************************)
EXTENDS WatchLoop, BoxModules, Report

VARIABLE part    \* the one that a behaviour follows

vars == <<loopVars, boxVars, reportVars, part>>

\* A part that is not followed starts anywhere, and stays there.
Unfollowed(followed) ==
    /\ followed # "loop" => /\ disk = CHOOSE d \in Disk : TRUE
                            /\ baselineFromCli = FALSE
    /\ followed # "checkers" => graph = CHOOSE g \in Graphs : TRUE
    /\ followed # "report" => /\ sheets = CHOOSE p \in Projects : TRUE
                              /\ options = CHOOSE o \in Options : TRUE

Init ==
    /\ part \in {"loop", "checkers", "report"}
    /\ Unfollowed(part)
    /\ LoopInit /\ BoxInit /\ ReportInit

LoopPart ==
    part = "loop" /\ LoopNext /\ UNCHANGED <<boxVars, reportVars, part>>
CheckersPart ==
    part = "checkers" /\ BoxNext /\ UNCHANGED <<loopVars, reportVars, part>>
ReportPart ==
    part = "report" /\ ReportNext /\ UNCHANGED <<loopVars, boxVars, part>>

Next == LoopPart \/ CheckersPart \/ ReportPart

(* The loop sleeps half a second at a time and goes on; a worker thread    *)
(* goes on until no file is left.                                          *)
Fairness ==
    /\ WF_vars(/\ part = "loop" /\ Loop
               /\ UNCHANGED <<boxVars, reportVars, part>>)
    /\ \A c \in Checkers :
          WF_vars(/\ part = "checkers" /\ Check(c)
                  /\ UNCHANGED <<loopVars, reportVars, part>>)

Spec == Init /\ [][Next]_vars /\ Fairness

-----------------------------------------------------------------------------
(* Against a baseline, exactly the surplus is shown, by either front end.  *)
SurplusReported == part = "report" => SurplusShown /\ FrontendsAgree

(* No audit calls an ignore unused whose line deserves it.                 *)
AuditsTruthful == part = "report" => AuditTruthful

(* Every edit is reported on, and every file is checked.                   *)
PassesEnd ==
    /\ part = "loop" => Reported
    /\ part = "checkers" => AllChecked
===============================================================================
