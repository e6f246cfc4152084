------------------------------ MODULE WatchLoop -------------------------------
(***************************************************************************)
(* ry check --watch (crates/ry-cli/src/check.rs): one thread that polls    *)
(* modification times against whoever edits the files.  A stamp sweep, the *)
(* load of one input and a check pass are one action each; edits fall      *)
(* between them.  Each write moves a file's modification time, so that     *)
(* stamps differ exactly for the files written since they were taken.      *)
(***************************************************************************)
EXTENDS Naturals

CONSTANTS
    Sources,          \* R files that may exist
    Texts,            \* what a source, the stubs or the metadata may hold
    Excludes,         \* exclude lists of a ry.toml: sets of sources
    Entries,          \* what a baseline that loads may hold
    EarlyEdits,       \* whether inputs change while they are being loaded
    Budget            \* bound: edits

ASSUME WatchAssumption ==
    /\ Excludes \subseteq SUBSET Sources /\ {} \in Excludes
    /\ EarlyEdits \in BOOLEAN
    /\ Budget \in Nat
    /\ "none" \notin Texts /\ Entries \cap {"none", "broken"} = {}

Missing == "none"
Texts0 == Texts \cup {Missing}

\* What a ry.toml sets: whether it names a baseline, and its exclude list
Configs == [baseline : BOOLEAN, exclude : Excludes]
DefaultConfig == [baseline |-> FALSE, exclude |-> {}]
Tomls == [kind : {"ok"}, sets : Configs]
            \cup [kind : {"broken", "absent"}, sets : {DefaultConfig}]
Baselines == Entries \cup {Missing, "broken"}

Disk == [toml : Tomls, base : Baselines, stub : Texts,
         src : [Sources -> Texts0], meta : Texts0]

VARIABLES
    disk,
    budget,         \* edits left
    baselineFromCli,    \* whether --baseline names the baseline
    pc,             \* where the loop is
    cfg,            \* the configuration in force
    baseline,       \* the baseline in force, or Missing
    stubs,          \* the stubs in force
    edited,         \* inputs written since config_stamps were taken
    sourceEdited,   \* sources, "meta": written since source_stamps were taken
    stamped,        \* the sources in source_stamps
    configChanged, paths,   \* locals of a poll
    report          \* what the last pass read

files == <<disk, budget>>
state == <<cfg, baseline, stubs>>
locals == <<configChanged, paths>>
loopVars == <<files, baselineFromCli, pc, state, edited, sourceEdited, stamped,
              locals, report>>

NoReport == [cfg |-> DefaultConfig, baseline |-> Missing, stubs |-> Missing,
             text |-> [s \in {} |-> Missing], meta |-> Missing]

LoopInit ==
    /\ disk \in Disk
    /\ budget = Budget /\ baselineFromCli \in BOOLEAN
    /\ pc = "discover"
    /\ cfg = DefaultConfig /\ baseline = Missing
    /\ stubs = Missing
    /\ edited = {} /\ sourceEdited = {} /\ stamped = {}
    /\ configChanged = FALSE /\ paths = {}
    /\ report = NoReport

-----------------------------------------------------------------------------
(* What the loop reads                                                     *)

Parses(toml) == toml.kind # "broken"

\* Config::discover and merge_cli: without a ry.toml, the defaults
Load(toml) == [baseline |-> toml.sets.baseline \/ baselineFromCli,
               exclude |-> toml.sets.exclude]

Loads(base) == base \in Entries

\* The sources a walk under configuration c returns
Rescan(c, src) == {s \in Sources : src[s] # Missing /\ s \notin c.exclude}

\* The inputs that config_inputs stamps
ConfigInputs(c) ==
    {"toml", "stub"} \cup (IF c.baseline THEN {"base"} ELSE {})

-----------------------------------------------------------------------------
(* Startup: what does not load here ends the run.                          *)

DiscoverConfig ==
    /\ pc = "discover"
    /\ \/ /\ Parses(disk.toml)
          /\ cfg' = Load(disk.toml) /\ pc' = "baseline"
       \/ ~ Parses(disk.toml) /\ cfg' = cfg /\ pc' = "exited"
    /\ UNCHANGED <<files, baseline, stubs, edited, sourceEdited, stamped,
                   locals, report>>

\* Only a baseline that ry.toml names may fail to load.
LoadBaseline ==
    /\ pc = "baseline"
    /\ \/ ~ cfg.baseline /\ pc' = "stubs" /\ UNCHANGED baseline
       \/ /\ cfg.baseline /\ Loads(disk.base)
          /\ baseline' = disk.base /\ pc' = "stubs"
       \/ /\ cfg.baseline /\ ~ Loads(disk.base)
          /\ pc' = IF baselineFromCli THEN "exited" ELSE "stubs"
          /\ UNCHANGED baseline
    /\ UNCHANGED <<files, cfg, stubs, edited, sourceEdited, stamped, locals,
                   report>>

LoadUserStubs ==
    /\ pc = "stubs" /\ stubs' = disk.stub
    /\ pc' = "scan"
    /\ UNCHANGED <<files, cfg, baseline, edited, sourceEdited, stamped, locals,
                   report>>

Scan ==
    /\ pc = "scan" /\ paths' = Rescan(cfg, disk.src)
    /\ pc' = "snapshot"
    /\ UNCHANGED <<files, state, edited, sourceEdited, stamped, configChanged,
                   report>>

\* The first stamps, taken before the first pass
Snapshot ==
    /\ pc = "snapshot"
    /\ edited' = {} /\ sourceEdited' = {} /\ stamped' = paths
    /\ pc' = "check"
    /\ UNCHANGED <<files, state, locals, report>>

-----------------------------------------------------------------------------
(* A poll                                                                  *)

Poll ==
    /\ pc = "sleep"
    /\ configChanged' = (edited \cap ConfigInputs(cfg) # {})
    /\ pc' = IF configChanged' THEN "reload" ELSE "rescan"
    /\ UNCHANGED <<files, state, edited, sourceEdited, stamped, paths, report>>

\* reload: a ry.toml that does not parse keeps everything.
Reload ==
    /\ pc = "reload"
    /\ \/ /\ Parses(disk.toml)
          /\ cfg' = Load(disk.toml) /\ pc' = "reloadStubs"
       \/ ~ Parses(disk.toml) /\ cfg' = cfg /\ pc' = "restamp"
    /\ UNCHANGED <<files, baseline, stubs, edited, sourceEdited, stamped,
                   locals, report>>

ReloadStubs ==
    /\ pc = "reloadStubs" /\ stubs' = disk.stub
    /\ pc' = "reloadBaseline"
    /\ UNCHANGED <<files, cfg, baseline, edited, sourceEdited, stamped, locals,
                   report>>

\* A mutant: a key that is gone leaves the baseline in force.
ReloadBaselineKeeps ==
    /\ pc = "reloadBaseline"
    /\ baseline' = CASE cfg.baseline /\ Loads(disk.base) -> disk.base
                     [] /\ cfg.baseline /\ disk.base = Missing
                        /\ ~ baselineFromCli -> Missing
                     [] OTHER -> baseline
    /\ pc' = "restamp"
    /\ UNCHANGED <<files, cfg, stubs, edited, sourceEdited, stamped, locals,
                   report>>

\* reload_baseline: what does not load keeps the entries; a deleted file that
\* ry.toml names is no baseline.
ReloadBaseline ==
    /\ pc = "reloadBaseline"
    /\ \/ ~ cfg.baseline /\ baseline' = Missing
       \/ cfg.baseline /\ Loads(disk.base) /\ baseline' = disk.base
       \/ /\ cfg.baseline /\ disk.base = Missing /\ ~ baselineFromCli
          /\ baseline' = Missing
       \/ /\ cfg.baseline
          /\ disk.base = "broken" \/ (disk.base = Missing /\ baselineFromCli)
          /\ UNCHANGED baseline
    /\ pc' = "restamp"
    /\ UNCHANGED <<files, cfg, stubs, edited, sourceEdited, stamped, locals,
                   report>>

\* The reload can move the baseline and the stub directories.
Restamp ==
    /\ pc = "restamp" /\ edited' = {}
    /\ pc' = "rescan"
    /\ UNCHANGED <<files, state, sourceEdited, stamped, locals, report>>

RescanSources ==
    /\ pc = "rescan" /\ paths' = Rescan(cfg, disk.src)
    /\ pc' = "compare"
    /\ UNCHANGED <<files, state, edited, sourceEdited, stamped, configChanged,
                   report>>

\* A mutant: a change of the configuration alone does not run a check.
CompareSourcesOnly ==
    /\ pc = "compare"
    /\ pc' = IF paths = stamped /\ sourceEdited \cap (paths \cup {"meta"}) = {}
             THEN "sleep" ELSE "check"
    /\ sourceEdited' = {} /\ stamped' = paths
    /\ UNCHANGED <<files, state, edited, locals, report>>

\* The new stamps; when they and the configuration are the old ones, the
\* loop goes back to sleep.
Compare ==
    /\ pc = "compare"
    /\ pc' = IF /\ ~ configChanged /\ paths = stamped
                /\ sourceEdited \cap (paths \cup {"meta"}) = {}
             THEN "sleep" ELSE "check"
    /\ sourceEdited' = {} /\ stamped' = paths
    /\ UNCHANGED <<files, state, edited, locals, report>>

\* run_check_once and its printed result
RunCheck ==
    /\ pc = "check"
    /\ report' = [cfg |-> cfg, baseline |-> baseline, stubs |-> stubs,
                  text |-> [s \in paths |-> disk.src[s]], meta |-> disk.meta]
    /\ pc' = "sleep"
    /\ UNCHANGED <<files, state, edited, sourceEdited, stamped, locals>>

-----------------------------------------------------------------------------
(* Edits                                                                   *)

LoadPoints == {"discover", "baseline", "stubs", "scan", "snapshot", "reload",
               "reloadStubs", "reloadBaseline", "restamp"}

Edit == budget > 0 /\ budget' = budget - 1 /\ UNCHANGED baselineFromCli

EditInput(input, new) ==
    /\ Edit /\ (EarlyEdits \/ pc \notin LoadPoints)
    /\ disk[input] # new
    /\ disk' = [disk EXCEPT ![input] = new]
    /\ edited' = edited \cup {input}
    /\ UNCHANGED <<pc, state, sourceEdited, stamped, locals, report>>

EditSource(s, new) ==
    /\ Edit /\ disk.src[s] # new
    /\ disk' = [disk EXCEPT !.src = [@ EXCEPT ![s] = new]]
    /\ sourceEdited' = sourceEdited \cup {s}
    /\ UNCHANGED <<pc, state, edited, stamped, locals, report>>

EditMetadata(new) ==
    /\ Edit /\ disk.meta # new
    /\ disk' = [disk EXCEPT !.meta = new]
    /\ sourceEdited' = sourceEdited \cup {"meta"}
    /\ UNCHANGED <<pc, state, edited, stamped, locals, report>>

Loop ==
    /\ UNCHANGED baselineFromCli
    /\ \/ DiscoverConfig \/ LoadBaseline \/ LoadUserStubs \/ Scan \/ Snapshot
       \/ Poll \/ Reload \/ ReloadStubs \/ ReloadBaseline \/ Restamp
       \/ RescanSources \/ Compare \/ RunCheck

Edits ==
    \/ \E new \in Tomls : EditInput("toml", new)
    \/ \E new \in Baselines : EditInput("base", new)
    \/ \E new \in Texts : EditInput("stub", new)
    \/ \E s \in Sources, new \in Texts0 : EditSource(s, new)
    \/ \E new \in Texts0 : EditMetadata(new)

LoopNext == Loop \/ Edits

LoopSpec == LoopInit /\ [][LoopNext]_loopVars

\* The loop sleeps half a second at a time and goes on.
LoopFairSpec == LoopSpec /\ WF_loopVars(Loop)

-----------------------------------------------------------------------------
(* Properties                                                              *)

Points == {"discover", "baseline", "stubs", "scan", "snapshot", "check",
           "sleep", "reload", "reloadStubs", "reloadBaseline", "restamp",
           "rescan", "compare", "exited"}

\* Every variable has its type.
LoopTypeOK ==
    /\ disk \in Disk /\ budget \in 0 .. Budget
    /\ baselineFromCli \in BOOLEAN /\ pc \in Points
    /\ cfg \in Configs /\ baseline \in Entries \cup {Missing}
    /\ stubs \in Texts0
    /\ edited \subseteq {"toml", "base", "stub"}
    /\ sourceEdited \subseteq Sources \cup {"meta"}
    /\ stamped \subseteq Sources /\ paths \subseteq Sources
    /\ configChanged \in BOOLEAN

\* A fresh run accepts what is on disk, and a baseline that is named loads or
\* is known to be gone.
Sound ==
    /\ Parses(disk.toml)
    /\ Load(disk.toml).baseline =>
          Loads(disk.base) \/ (disk.base = Missing /\ ~ baselineFromCli)

\* What a fresh run on the present disk reads
FreshReport ==
    LET c == Load(disk.toml)
    IN  [cfg |-> c,
         baseline |-> IF c.baseline THEN disk.base ELSE Missing,
         stubs |-> disk.stub,
         text |-> [s \in Rescan(c, disk.src) |-> disk.src[s]],
         meta |-> disk.meta]

\* The next poll would find nothing changed.
Unchanged ==
    /\ pc = "sleep"
    /\ edited \cap ConfigInputs(cfg) = {}
    /\ Rescan(cfg, disk.src) = stamped
    /\ sourceEdited \cap (stamped \cup {"meta"}) = {}

(* Whenever a poll would find nothing changed, the last printed result is  *)
(* that of a fresh run: no edit falls between a read and its stamp, and    *)
(* what was kept while an input was broken does not outlive it.            *)
UpToDate == Unchanged /\ Sound => report = FreshReport

(* Every edit is reported on: once the files are left alone, the printed   *)
(* result becomes that of a fresh run and stays so.                        *)
Reported == <>[](Sound /\ pc # "exited" => report = FreshReport)
==============================================================================
