------------------------------- MODULE Report --------------------------------
(***************************************************************************)
(* What ry check makes of the checker's findings: ignore comments and the  *)
(* audit of unused ones, severities and scoped rule tables, confidence,    *)
(* the baseline of accepted findings and the confidence threshold          *)
(* (ry-checker, post_process.rs, diagnostics.rs, scoped_policy.rs;         *)
(* ry-config, baseline.rs; ry-cli, check.rs), against a project and        *)
(* options that change between runs.                                       *)
(***************************************************************************)
EXTENDS Naturals, SequencesExt

CONSTANTS
    Sheets,         \* paths of R files
    Demoted,        \* those under tests/, demo/ and the like
    SheetLines,     \* what a line may hold
    Projects,       \* the files a behaviour may start from
    Options,        \* command lines and configurations
    MaxRevisions    \* bound: edits of a line or of the options

VARIABLES
    sheets,         \* per path, its lines
    options,        \* the merged options in force
    accepted,       \* the baseline file: a count per key
    recorded,       \* the findings it was written from
    revisions

reportVars == <<sheets, options, accepted, recorded, revisions>>

-----------------------------------------------------------------------------
(* Rules.  A message is a rule, and for an audit the rule it is about.     *)

Low == 1
Medium == 2
High == 3
Demote(confidence) == IF confidence = High THEN Medium ELSE Low

Codes == {"RY000", "RY034", "RY040", "RY102", "RY112", "RY113"}
DefaultConfidence(code) == IF code = "RY102" THEN High ELSE Medium
DefaultSeverity(code) == IF code \in {"RY000", "RY040"} THEN "error" ELSE "warning"
DefaultRules == Codes \ {"RY113"}
Suppressible(code) == code \notin {"RY112", "RY113"}
Auditable == {"RY034", "RY102"}

\* A directive hides every rule, its codes, or nothing.
Directives == [kind : {"none", "file", "invalid", "foreign", "all"},
               origin : {"ry", "noqa"}, codes : {{}}]
              \cup [kind : {"selective"}, origin : {"ry", "noqa"},
                    codes : SUBSET Codes \ {{}}]

\* A line of code or of comment alone: the finding that the code deserves,
\* whether an error assertion surrounds it, and whether the diagnostic pass
\* visits it
Lines == [code : BOOLEAN, finding : {"none", "RY000", "RY034", "RY040", "RY102"},
          probe : BOOLEAN, visited : BOOLEAN, directive : Directives]

ASSUME ReportAssumption ==
    /\ SheetLines \subseteq Lines /\ Demoted \subseteq Sheets
    /\ Projects \subseteq [Sheets -> Seq(SheetLines)]
    /\ \A l \in SheetLines : l.finding = "RY000" => l.visited
    /\ \A o \in Options :
          /\ o.ignore \cup o.error \cup o.warn \cup o.protected \cup o.rules
                \subseteq Codes
          /\ o.minConfidence \in {Low, Medium, High}
          /\ o.tables \in Seq([paths : SUBSET Sheets, error : SUBSET Codes,
                               warn : SUBSET Codes, ignore : SUBSET Codes])
    /\ MaxRevisions \in Nat

-----------------------------------------------------------------------------
(* Directives                                                              *)

\* The lines of a sheet that R parses: one that it rejects hides the rest.
Broken(sheet) == \E i \in DOMAIN sheet : sheet[i].finding = "RY000"

\* The code line that the directive of line i is about, or 0
TargetOf(sheet, i) ==
    LET later == {j \in i + 1 .. Len(sheet) : sheet[j].code}
    IN  IF sheet[i].code THEN i
        ELSE IF later # {} THEN Min(later)
        ELSE IF sheet[i].directive.kind = "invalid" THEN i ELSE 0

Hides(directive, code) ==
    /\ Suppressible(code)
    /\ directive.kind = "all"
       \/ (directive.kind = "selective" /\ code \in directive.codes)

\* A mutant: a comment alone on its line is about that line.
SuppressedHere(sheet, d) ==
    Hides(sheet[d.line].directive, d.code)

Suppressed(sheet, d) ==
    \E i \in DOMAIN sheet :
        TargetOf(sheet, i) = d.line /\ Hides(sheet[i].directive, d.code)

IgnoresFile(sheet) ==
    \E i \in DOMAIN sheet : sheet[i].directive.kind = "file"

-----------------------------------------------------------------------------
(* Severities                                                              *)

\* What the last table for the path says of the rule, if any does
Scoped(path, code) ==
    LET about == {t \in DOMAIN options.tables :
                    /\ path \in options.tables[t].paths
                    /\ code \in options.tables[t].ignore
                             \cup options.tables[t].error
                             \cup options.tables[t].warn}
        table == options.tables[Max(about)]
    IN  IF about = {} \/ code \in options.protected THEN "unsaid"
        ELSE IF code \in table.ignore THEN "off"
        ELSE IF code \in table.error THEN "error" ELSE "warning"

\* The severity of a rule in a file, or "off"
Effective(path, code) ==
    IF code \in options.ignore THEN "off"
    ELSE IF Scoped(path, code) # "unsaid" THEN Scoped(path, code)
    ELSE IF code \in options.error THEN "error"
    ELSE IF code \in options.warn THEN "warning"
    ELSE IF code \in options.rules THEN DefaultSeverity(code) ELSE "off"

-----------------------------------------------------------------------------
(* The pipeline, over sets of findings.  Findings of one key are in the     *)
(* order of their lines: a line has one finding of a key at most.          *)

Diagnostic(path, line, code, message, confidence) ==
    [path |-> path, line |-> line, code |-> code, message |-> message,
     severity |-> DefaultSeverity(code), confidence |-> confidence]

\* A mutant: the same message in another file has the same key.
KeyOfMessage(d) == <<d.code, d.message>>

\* What the baseline counts
KeyOf(d) == <<d.path, d.code, d.message>>

\* The checker's findings; an error assertion lowers their confidence.
LineConfidence(l) == IF l.probe THEN Demote(DefaultConfidence(l.finding))
                     ELSE DefaultConfidence(l.finding)
Found(sheet) ==
    {i \in DOMAIN sheet : /\ sheet[i].visited /\ sheet[i].finding # "none"
                          /\ Broken(sheet) => sheet[i].finding = "RY000"}
Findings(path, sheet) ==
    {Diagnostic(path, i, sheet[i].finding, sheet[i].finding,
                LineConfidence(sheet[i])) : i \in Found(sheet)}

\* A directive that does not parse
InvalidIgnores(path, sheet) ==
    {Diagnostic(path, i, "RY112", "RY112", DefaultConfidence("RY112")) :
        i \in {j \in DOMAIN sheet : sheet[j].directive.kind = "invalid"
                                    /\ ~ Broken(sheet)}}

Raw(path, sheet) == Findings(path, sheet) \cup InvalidIgnores(path, sheet)

\* A mutant: lines that the pass does not visit are audited.
AuditedAll(sheet, i) == TargetOf(sheet, i) # 0

\* An ignore is audited where the diagnostic pass sees its line and its
\* target.
Audited(sheet, i) ==
    /\ TargetOf(sheet, i) # 0
    /\ sheet[i].visited /\ sheet[TargetOf(sheet, i)].visited

\* A mutant: a finding on any line of the file uses the ignore.
UnusedAtComment(path, sheet, i, raw) ==
    {code \in sheet[i].directive.codes \cap Auditable :
        /\ Effective(path, code) # "off"
        /\ \A d \in raw : d.code = code => d.line # i}

\* The codes of directive i that no finding of its target has
Unused(path, sheet, i, raw) ==
    {code \in sheet[i].directive.codes \cap Auditable :
        /\ Effective(path, code) # "off"
        /\ \A d \in raw : d.code = code => d.line # TargetOf(sheet, i)}

Audit(path, sheet, raw) ==
    IF Effective(path, "RY113") = "off" \/ \E d \in raw : d.code = "RY000"
    THEN {}
    ELSE UNION {{Diagnostic(path, i, "RY113", code, DefaultConfidence("RY113")) :
                    code \in Unused(path, sheet, i, raw)} :
                i \in {j \in DOMAIN sheet :
                         /\ sheet[j].directive.kind = "selective"
                         /\ sheet[j].directive.origin = "ry" /\ Audited(sheet, j)}}

\* apply_filter_to_diagnostics: the severity changes, the confidence stays.
Graded(path, d) == [d EXCEPT !.severity = Effective(path, d.code)]
Filtered(path, diagnostics) ==
    {Graded(path, d) : d \in {e \in diagnostics : Effective(path, e.code) # "off"}}

PreDemotion(path, sheet) ==
    LET raw == Raw(path, sheet)
    IN  IF IgnoresFile(sheet) THEN {}
        ELSE Filtered(path, {d \in raw : ~ Suppressed(sheet, d)}
                            \cup Audit(path, sheet, raw))

Lowered(d) ==
    IF d.path \in Demoted THEN [d EXCEPT !.confidence = Demote(@)] ELSE d
DemoteNonSource(diagnostics) == {Lowered(d) : d \in diagnostics}

Earlier(diagnostics, d) ==
    {e \in diagnostics : KeyOf(e) = KeyOf(d) /\ e.line < d.line}

\* A mutant: a key accepts every finding of its kind.
SubtractAll(diagnostics, counts) ==
    {d \in diagnostics : KeyOf(d) \notin DOMAIN counts}

\* subtract_baseline: each finding takes one of its key's count, in order.
Subtract(diagnostics, counts) ==
    {d \in diagnostics :
        KeyOf(d) \in DOMAIN counts =>
            Cardinality(Earlier(diagnostics, d)) >= counts[KeyOf(d)]}

PostDemotion(diagnostics, counts) ==
    {d \in Subtract(DemoteNonSource(diagnostics), counts) :
        d.confidence >= options.minConfidence}

\* run_check_once, without the order in which the findings are printed
NoCounts == [k \in {} |-> 0]
RunCheckOnce(counts) ==
    PostDemotion(UNION {PreDemotion(p, sheets[p]) : p \in Sheets}, counts)

\* What the language server publishes for one file
PublishFile(path, counts) == PostDemotion(PreDemotion(path, sheets[path]), counts)

-----------------------------------------------------------------------------

\* write_baseline_file counts what the run reports.
Counts(set) ==
    [k \in {KeyOf(d) : d \in set} |-> Cardinality({d \in set : KeyOf(d) = k})]

ReportInit ==
    /\ sheets \in Projects /\ options \in Options
    /\ accepted = NoCounts /\ recorded = {}
    /\ revisions = 0

\* A mutant: the configured baseline is subtracted from what is written.
WriteBaselineSubtracted ==
    /\ accepted' = Counts(RunCheckOnce(accepted))
    /\ recorded' = RunCheckOnce(NoCounts)
    /\ UNCHANGED <<sheets, options, revisions>>

\* ry check --write-baseline: no baseline is loaded.
WriteBaseline ==
    /\ recorded' = RunCheckOnce(NoCounts) /\ accepted' = Counts(recorded')
    /\ UNCHANGED <<sheets, options, revisions>>

Revise == revisions < MaxRevisions /\ revisions' = revisions + 1

EditLine ==
    /\ Revise
    /\ \E p \in Sheets, l \in SheetLines :
          \E i \in DOMAIN sheets[p] :
              sheets' = [sheets EXCEPT ![p] = [@ EXCEPT ![i] = l]]
    /\ UNCHANGED <<options, accepted, recorded>>

MoveLines ==
    /\ Revise
    /\ \E p \in Sheets : sheets' = [sheets EXCEPT ![p] = Reverse(@)]
    /\ UNCHANGED <<options, accepted, recorded>>

ChangeOptions ==
    /\ Revise /\ options' \in Options
    /\ UNCHANGED <<sheets, accepted, recorded>>

ReportNext == \/ WriteBaseline \/ EditLine \/ MoveLines \/ ChangeOptions

-----------------------------------------------------------------------------
(* Properties                                                              *)

\* The findings of a file that deserve a report: visited, not under an
\* ignore that covers them, of a rule that is on
Deserved(path, code) ==
    LET sheet == sheets[path]
    IN  {i \in DOMAIN sheet :
            /\ sheet[i].finding = code /\ sheet[i].visited
            /\ Broken(sheet) => code = "RY000"
            /\ Effective(path, code) # "off"
            /\ \A j \in DOMAIN sheet :
                  LET dir == sheet[j].directive
                  IN  /\ dir.kind # "file"
                      /\ TargetOf(sheet, j) = i => ~ Hides(dir, code)}
ConfidenceAt(path, i) ==
    LET c == DefaultConfidence(sheets[path][i].finding)
        d == IF sheets[path][i].probe THEN Demote(c) ELSE c
    IN  IF path \in Demoted THEN Demote(d) ELSE d
Above(path, i) == ConfidenceAt(path, i) >= options.minConfidence

RecordedOf(path, code) ==
    {d \in recorded : d.path = path /\ d.code = code}
SurplusOf(path, code) ==
    LET now == Cardinality(Deserved(path, code))
        was == Cardinality(RecordedOf(path, code))
    IN  IF now > was THEN now - was ELSE 0
NewOf(result, path, code) ==
    Cardinality({d \in result : d.path = path /\ d.code = code})

(* Against a baseline, a run shows of each kind of finding exactly the     *)
(* surplus over what was recorded, wherever the findings moved and whatever*)
(* was hidden meanwhile, as long as the threshold does not part them.      *)
SurplusShown ==
    LET result == RunCheckOnce(accepted)
    IN  \A p \in Sheets, c \in {"RY000", "RY034", "RY040", "RY102"} :
          /\ (\A i \in Deserved(p, c) : Above(p, i)) =>
                NewOf(result, p, c) = SurplusOf(p, c)
          /\ (\A i \in Deserved(p, c) : ~ Above(p, i)) =>
                NewOf(result, p, c) = 0

(* The editor publishes of each file what the command prints of it.        *)
FrontendsAgree ==
    \A p \in Sheets : PublishFile(p, accepted)
                        = {d \in RunCheckOnce(accepted) : d.path = p}

(* An ignore reported as unused is unused: the line it is about has no     *)
(* such finding, not even one that the pass did not come to see.           *)
AuditTruthful ==
    \A d \in RunCheckOnce(NoCounts) :
        d.code = "RY113" =>
            LET sheet == sheets[d.path]
            IN  sheet[TargetOf(sheet, d.line)].finding # d.message

(* What a baseline was written from is accepted: as long as nothing        *)
(* changes, a run against it shows nothing.                                *)
AcceptedStayHidden ==
    recorded = RunCheckOnce(NoCounts) => RunCheckOnce(accepted) = {}
==============================================================================
