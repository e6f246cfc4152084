------------------------------ MODULE MCReport -------------------------------
(* Two files, one of them demoted, of two or three lines: findings of one  *)
(* kind that may be in a probe or unvisited, ignores of each kind beside   *)
(* or above them, and options that move, silence or enable rules.          *)
EXTENDS Report

Ignore(kind, origin, codes) == [kind |-> kind, origin |-> origin, codes |-> codes]
NoIgnore == Ignore("none", "ry", {})
CodeLine(finding, probe, visited, directive) ==
    [code |-> TRUE, finding |-> finding, probe |-> probe,
     visited |-> visited, directive |-> directive]
CommentLine(directive) ==
    [code |-> FALSE, finding |-> "none", probe |-> FALSE, visited |-> TRUE,
     directive |-> directive]
Plain(finding) == CodeLine(finding, FALSE, TRUE, NoIgnore)

Selective == Ignore("selective", "ry", {"RY034"})
MCLines ==
    {Plain("none"), Plain("RY034"), Plain("RY040"), Plain("RY000"),
     CodeLine("RY034", TRUE, TRUE, NoIgnore),
     CodeLine("RY034", FALSE, FALSE, Selective),
     CodeLine("RY034", FALSE, TRUE, Selective),
     CodeLine("RY034", FALSE, TRUE, Ignore("foreign", "noqa", {})),
     CodeLine("RY040", FALSE, TRUE, Selective),
     CodeLine("RY040", FALSE, TRUE, Ignore("selective", "noqa", {"RY034", "RY040"})),
     CommentLine(Selective), CommentLine(Ignore("all", "ry", {})),
     CommentLine(Ignore("invalid", "ry", {})),
     CommentLine(Ignore("file", "ry", {}))}

MCProjects ==
    {[p \in Sheets |-> IF p = "a" THEN s ELSE t] :
        s \in {<<Plain("RY034"), Plain("RY034"), Plain("RY034")>>,
               <<CommentLine(Selective), Plain("RY034"), Plain("RY034")>>},
        t \in {<<Plain("RY034"), Plain("RY040")>>}}

Base == [error |-> {}, warn |-> {}, ignore |-> {}, protected |-> {},
         rules |-> DefaultRules, tables |-> <<>>, minConfidence |-> Low]
Table(error, warn, ignore) ==
    [paths |-> {"a"}, error |-> error, warn |-> warn, ignore |-> ignore]
MCOptions ==
    {Base,
     [Base EXCEPT !.minConfidence = Medium],
     [Base EXCEPT !.rules = {"RY034"}, !.warn = {"RY113"}],
     [Base EXCEPT !.warn = {"RY113"},
                  !.tables = <<Table({}, {"RY034"}, {"RY040"}),
                               Table({}, {}, {"RY034"})>>],
     [Base EXCEPT !.error = {"RY034"}, !.protected = {"RY034"},
                  !.warn = {"RY113"}, !.tables = <<Table({}, {}, {"RY034"})>>]}
==============================================================================
