-------------------------------- MODULE Project --------------------------------
(***************************************************************************)
(* The incremental project of the server (ry-checker, project.rs, driven   *)
(* by ProjectCache::check_with_workspace of ry-lsp, backend.rs).  A check  *)
(* brings the project's files to those of the workspace, one call after    *)
(* the other, collects what has no collection, refines the functions that  *)
(* the changes can reach and emits the files that read them; everything    *)
(* else is reused.                                                         *)
(***************************************************************************)
EXTENDS ProjectTables, SequencesExt

CONSTANTS Contents,     \* path -> what its file may hold
          Workspaces,   \* the first workspaces
          MaxEdits      \* bound on the edits

File(p, c) == [path |-> p, content |-> c]

IsWorkspace(w) ==
    /\ w \in [files : Seq(UNION {{File(p, c) : c \in Contents[p]} : p \in Paths}),
              declared : BOOLEAN, stubs : Stubs]
    /\ \A i, j \in DOMAIN w.files : w.files[i].path = w.files[j].path => i = j

ASSUME ProjectAssumption ==
    /\ \A p \in Paths : \A c \in Contents[p] : IsContent(c)
    /\ \A w \in Workspaces : IsWorkspace(w)
    /\ MaxEdits \in Nat

VARIABLES
    workspace,          \* what the editor and the disk hold
    edits,
    phase,              \* the next call of check_with_workspace
    files,              \* the project's files, in order
    declared, stubs,
    collected,          \* path -> content at its collection
    known_vars,         \* path -> file_known_vars
    dirty_paths, invalidated_fns,
    has_prev_emit, prev_loaded,
    prev_returns, prev_modes, prev_known,
    dependencies,       \* refinement_dependencies: function -> what it read
    discovered,         \* refinement_discovered_attachments
    called_fns, read_fns,
    diagnostics,
    emitted             \* the paths of the last emission

sources == <<files, collected, known_vars, dirty_paths, invalidated_fns>>
settings == <<declared, stubs>>
previous == <<has_prev_emit, prev_loaded, prev_returns, prev_modes, prev_known,
              dependencies, discovered, called_fns, read_fns, diagnostics, emitted>>
vars == <<workspace, edits, phase, sources, settings, previous>>

Init ==
    /\ workspace \in Workspaces
    /\ edits = 0 /\ phase = "idle"
    /\ files = <<>> /\ collected = <<>> /\ known_vars = <<>>
    /\ dirty_paths = {} /\ invalidated_fns = {}
    /\ declared = FALSE /\ stubs = "int"
    /\ has_prev_emit = FALSE /\ prev_loaded = FALSE
    /\ prev_returns = <<>> /\ prev_modes = <<>> /\ prev_known = {}
    /\ dependencies = <<>> /\ discovered = FALSE
    /\ called_fns = <<>> /\ read_fns = <<>>
    /\ diagnostics = <<>> /\ emitted = {}

-----------------------------------------------------------------------------
\* The workspace between checks

Edit ==
    /\ phase = "idle"
    /\ has_prev_emit                \* a first edit before the first check is a first workspace
    /\ edits < MaxEdits /\ edits' = edits + 1
    /\ \/ \E i \in DOMAIN workspace.files :
            \E c \in Contents[workspace.files[i].path] \ {workspace.files[i].content} :
                workspace' = [workspace EXCEPT !.files[i].content = c]
       \/ \E i \in DOMAIN workspace.files :
            workspace' = [workspace EXCEPT !.files = RemoveAt(@, i)]
       \/ \E p \in Paths \ PathsOf(workspace.files), i \in 1..(Len(workspace.files) + 1) :
            \E c \in Contents[p] :
                workspace' = [workspace EXCEPT !.files = InsertAt(@, i, File(p, c))]
       \/ \E i \in 1..(Len(workspace.files) - 1) :
            workspace' = [workspace EXCEPT !.files[i] = workspace.files[i + 1],
                                           !.files[i + 1] = workspace.files[i]]
       \/ workspace' = [workspace EXCEPT !.declared = ~@]
       \/ \E s \in Stubs \ {workspace.stubs} : workspace' = [workspace EXCEPT !.stubs = s]
    /\ UNCHANGED <<phase, sources, settings, previous>>

-----------------------------------------------------------------------------
\* check_with_workspace: one call after the other, under the cache's lock

Start ==
    /\ phase = "idle"
    /\ phase' = "remove"
    /\ UNCHANGED <<workspace, edits, sources, settings, previous>>

Defined(c) == DOMAIN c.defs

\* The entries of new over those of old
Updated(new, old) ==
    [x \in DOMAIN new \cup DOMAIN old |-> IF x \in DOMAIN new THEN new[x] ELSE old[x]]

\* Mutant: the collection outlives the text
UncollectNames(ps) ==
    /\ invalidated_fns' = invalidated_fns
                          \cup UNION {Defined(collected[p]) : p \in ps \cap DOMAIN collected}
    /\ UNCHANGED collected

\* What the collection of a path leaves behind when it is dropped
Uncollect(ps) ==
    /\ collected' = Restrict(collected, DOMAIN collected \ ps)
    /\ invalidated_fns' = invalidated_fns
                          \cup UNION {Defined(collected[p]) : p \in ps \cap DOMAIN collected}

RemoveFile ==
    /\ phase = "remove"
    /\ \E i \in DOMAIN files :
        LET p == files[i].path
        IN /\ p \notin PathsOf(workspace.files)
           /\ files' = RemoveAt(files, i)
           /\ Uncollect({p})
           /\ known_vars' = Restrict(known_vars, DOMAIN known_vars \ {p})
           /\ read_fns' = Restrict(read_fns, DOMAIN read_fns \ {p})
           /\ dirty_paths' = dirty_paths \cup PathsOf(files')
    /\ UNCHANGED <<workspace, edits, phase, settings, has_prev_emit, prev_loaded, prev_returns,
                   prev_modes, prev_known, dependencies, discovered, called_fns,
                   diagnostics, emitted>>

\* Other stubs drop every collection
SetUserStubs ==
    /\ phase = "remove"
    /\ PathsOf(files) \subseteq PathsOf(workspace.files)
    /\ phase' = "loaded"
    /\ stubs' = workspace.stubs
    /\ IF stubs' = stubs THEN UNCHANGED <<collected, dirty_paths>>
       ELSE collected' = <<>> /\ dirty_paths' = dirty_paths \cup PathsOf(files)
    /\ UNCHANGED <<workspace, edits, files, known_vars, invalidated_fns, declared, previous>>

SetLoaded ==
    /\ phase = "loaded"
    /\ phase' = "update"
    /\ declared' = workspace.declared
    /\ dirty_paths' = IF declared' = declared THEN dirty_paths
                      ELSE dirty_paths \cup PathsOf(files)
    /\ UNCHANGED <<workspace, edits, files, collected, known_vars, invalidated_fns, stubs,
                   previous>>

\* The files to update, in the workspace's order
Outdated == {i \in DOMAIN workspace.files :
                \A j \in DOMAIN files : files[j] # workspace.files[i]}

UpdateFile ==
    /\ phase = "update"
    /\ Outdated # {}
    /\ LET new == workspace.files[Min(Outdated)]
       IN /\ Uncollect({new.path})
          /\ known_vars' = Restrict(known_vars, DOMAIN known_vars \ {new.path})
          /\ files' = IF new.path \in PathsOf(files)
                      THEN [i \in DOMAIN files |-> IF files[i].path = new.path THEN new
                                                   ELSE files[i]]
                      ELSE Append(files, new)
          /\ dirty_paths' = dirty_paths \cup
                (IF \E i \in DOMAIN files' : files'[i].content.imports # {}
                 THEN PathsOf(files') ELSE {new.path})
    /\ UNCHANGED <<workspace, edits, phase, settings, previous>>

\* Mutant: only the order changes
ReorderOnly ==
    /\ phase = "update"
    /\ Outdated = {}
    /\ phase' = "check"
    /\ files' = workspace.files
    /\ UNCHANGED <<workspace, edits, collected, known_vars, dirty_paths, invalidated_fns,
                   settings, previous>>

\* A name that several files define may get another winner
ReorderFiles ==
    /\ phase = "update"
    /\ Outdated = {}
    /\ phase' = "check"
    /\ files' = workspace.files
    /\ LET definers(n) == {p \in DOMAIN collected : n \in Defined(collected[p])}
           shadowed == {n \in Names : \E p, q \in definers(n) : p # q}
       IN IF files' = files THEN UNCHANGED <<dirty_paths, invalidated_fns>>
          ELSE /\ dirty_paths' = dirty_paths \cup UNION {definers(n) : n \in shadowed}
               /\ invalidated_fns' = invalidated_fns \cup shadowed
    /\ UNCHANGED <<workspace, edits, collected, known_vars, settings, previous>>

-----------------------------------------------------------------------------
\* check_incremental, over the collections c and their merged table

\* The functions to refine: those the changes define and, by the reads of
\* earlier refinements and by forwarding, their callers
RefinementCallers(table, affected) ==
    Closure(affected, [m \in Names |->
        {f \in DOMAIN dependencies : m \in dependencies[f]}
        \cup {f \in DOMAIN table : m \in table[f].forwards /\ m \in DOMAIN table}])

FixpointScope(table, loaded, c) ==
    IF \/ ~has_prev_emit \/ discovered
       \/ prev_loaded # loaded
       \/ DOMAIN table # DOMAIN prev_returns
    THEN Names
    ELSE IF dirty_paths = {} THEN {}
    ELSE RefinementCallers(table, invalidated_fns
            \cup UNION {Defined(c[p]) : p \in dirty_paths \cap DOMAIN c})

\* Every function of a file that calls or read an affected one is affected
DependsOn(p, affected, called) ==
    (called[p] \cup IF p \in DOMAIN read_fns THEN read_fns[p] ELSE {}) \cap affected # {}

TransitiveCallers(c, called, affected) ==
    Closure(affected, [m \in Names |->
        UNION {Defined(c[p]) : p \in {q \in DOMAIN c : DependsOn(q, {m}, called)}}])

\* Mutant: what is unknown may have changed
ChangedOrUnknownFns(returns, modes) ==
    {f \in DOMAIN returns :
        \/ f \notin DOMAIN prev_returns
        \/ prev_returns[f] # returns[f] \/ prev_modes[f] # modes[f]
        \/ returns[f] = "unknown"}

ChangedFns(returns, modes) ==
    {f \in DOMAIN returns :
        \/ f \notin DOMAIN prev_returns
        \/ prev_returns[f] # returns[f] \/ prev_modes[f] # modes[f]}

MustEmit(c, called, loaded, returns, modes, known) ==
    IF \/ ~has_prev_emit \/ prev_loaded # loaded
       \/ prev_known # known
       \/ DOMAIN returns # DOMAIN prev_returns
    THEN PathsOf(files)
    ELSE LET changed == TransitiveCallers(c, called, ChangedFns(returns, modes) \cup invalidated_fns)
         IN (dirty_paths \cap PathsOf(files))
            \cup {p \in PathsOf(files) : DependsOn(p, changed, called)}

\* Mutant: callbacks are not seen
ObservedCalls(p, table) == CallSites(ContentAt(files)[p]) \cap DOMAIN table

\* What an emission read: the functions it looked up that are bound
Observed(p, table) == Readers(ContentAt(files)[p]) \cap DOMAIN table

\* Mutant: the reads of a function only grow
AddedDependencies(scope, table) ==
    LET read == [f \in scope \cap DOMAIN table |->
                    (Reads(table[f]) \cap DOMAIN table)
                    \cup IF scope # Names /\ f \in DOMAIN dependencies THEN dependencies[f] ELSE {}]
        all == IF scope = Names THEN read ELSE Updated(read, dependencies)
    IN Restrict(all, DOMAIN all \cap DOMAIN table)

\* The reads of what was refined replace the old ones
Dependencies(scope, table) ==
    LET read == [f \in scope \cap DOMAIN table |-> Reads(table[f]) \cap DOMAIN table]
        all == IF scope = Names THEN read ELSE Updated(read, dependencies)
    IN Restrict(all, DOMAIN all \cap DOMAIN table)

CheckIncremental ==
    /\ phase = "check"
    /\ phase' = "idle"
    /\ LET at == ContentAt(files)
           c == [p \in PathsOf(files) |-> IF p \in DOMAIN collected THEN collected[p] ELSE at[p]]
           contents == [i \in DOMAIN files |-> c[files[i].path]]
           table == Merged(contents)
           loaded == Loaded(contents, declared)
           called == Updated([p \in PathsOf(files) |-> CallSites(c[p])], called_fns)
           scoped == FixpointScope(table, loaded, c)
           \* an attachment discovered in a part starts the fixpoint over
           scope == IF Discovers(table, scoped) /\ ~loaded THEN Names ELSE scoped
           found == Discovers(table, scope) /\ ~loaded
           returns == Returns(table, scope, prev_returns, loaded \/ found, stubs)
           modes == Modes(table, scope, prev_modes)
           fresh == [p \in PathsOf(files) \ DOMAIN collected |-> at[p].binds]
           pooled == Updated(fresh, known_vars)
           known == UNION {pooled[p] : p \in DOMAIN pooled}
           emit == MustEmit(c, called, loaded, returns, modes, known)
       IN /\ collected' = c
          /\ known_vars' = pooled
          /\ called_fns' = called
          /\ discovered' = found
          /\ dependencies' = Dependencies(scope, table)
          /\ emitted' = emit
          /\ read_fns' = Updated([p \in emit |-> Observed(p, table)], read_fns)
          /\ diagnostics' =
                [p \in PathsOf(files) |->
                    IF p \in emit
                    THEN Emission(at[p], contents, table, returns, modes, loaded, known, at)
                    ELSE diagnostics[p]]
          /\ prev_loaded' = loaded
          /\ prev_returns' = returns /\ prev_modes' = modes /\ prev_known' = known
    /\ has_prev_emit' = TRUE
    /\ dirty_paths' = {} /\ invalidated_fns' = {}
    /\ UNCHANGED <<workspace, edits, files, settings>>

Next == Edit \/ Start \/ RemoveFile \/ SetUserStubs \/ SetLoaded \/ UpdateFile
        \/ ReorderFiles \/ CheckIncremental

Spec == Init /\ [][Next]_vars

-----------------------------------------------------------------------------

\* Types, and that the caches speak of the files the project has.
TypeOK ==
    /\ IsWorkspace(workspace) /\ edits \in 0..MaxEdits
    /\ phase \in {"idle", "remove", "loaded", "update", "check"}
    /\ \A i \in DOMAIN files : files[i].path \in Paths /\ IsContent(files[i].content)
    /\ declared \in BOOLEAN /\ stubs \in Stubs
    /\ DOMAIN collected \subseteq PathsOf(files)
    /\ \A p \in DOMAIN collected : collected[p] = ContentAt(files)[p]
    /\ DOMAIN known_vars \subseteq PathsOf(files)
    /\ DOMAIN collected \subseteq DOMAIN known_vars
    /\ dirty_paths \subseteq Paths /\ invalidated_fns \subseteq Names
    /\ {has_prev_emit, prev_loaded, discovered} \subseteq BOOLEAN
    /\ DOMAIN prev_modes = DOMAIN prev_returns
    /\ \A f \in DOMAIN prev_returns : prev_returns[f] \in Types /\ prev_modes[f] \in BOOLEAN
    /\ prev_known \subseteq Vars
    /\ DOMAIN dependencies = DOMAIN prev_returns
    /\ DOMAIN called_fns \subseteq Paths /\ DOMAIN read_fns \subseteq Paths
    /\ emitted \subseteq Paths

(* Every check shows what a check from scratch shows for the same files in *)
(* the same order.                                                         *)
Cold == INSTANCE ColdCheck WITH workspace <- workspace, diagnostics <- diagnostics
ImplementsColdCheck == Cold!Spec

(* Whatever was edited, removed, reordered or reconfigured since, no       *)
(* diagnostic is served that a fresh run would not report, and none is     *)
(* missing: but for those about the default of a formal, which a file with *)
(* the same text may keep as the calls of an earlier check had it.         *)
ImplementsButDefaults == Cold!SpecButDefaults

Checks == phase = "check" /\ phase' = "idle"

\* The returns and modes kept for the next check are the cold ones for every
\* function, also those that no emitted file shows; a seed that is off would
\* surface several edits later.
SeedsMatchCold ==
    [][Checks => prev_returns' = ColdReturns(workspace) /\ prev_modes' = ColdModes(workspace)]_vars

\* Between checks the recorded reads are those of the live definitions: the
\* next scope misses no caller, and none is refined for a body that is gone.
DependenciesExact ==
    (phase = "idle" /\ has_prev_emit) =>
        LET table == Merged(ContentsOf(files))
        IN dependencies = [f \in DOMAIN table |-> Reads(table[f]) \cap DOMAIN table]

\* A check after which nothing changed emits nothing, even one that discovers
\* its attachments by refining every function again.
IdleCheckEmitsNothing ==
    [][(Checks /\ has_prev_emit /\ dirty_paths = {} /\ invalidated_fns = {}) => emitted' = {}]_vars

(* What the project keeps between checks is what a cold check computes, so *)
(* that no stale table surfaces several edits later.                       *)
KeepsColdState ==
    [](TypeOK /\ DependenciesExact) /\ SeedsMatchCold /\ IdleCheckEmitsNothing
=============================================================================
