# A verification development for ry

ry is a static checker for R: a parser and a type and scope analysis
(`ry-core`, `ry-checker`), project discovery and configuration (`ry-workspace`,
`ry-config`), a command line with a watch mode (`ry-cli`), a language server
(`ry-lsp`) and editor extensions. This directory models the parts of it that
keep state over time and let several actors touch it, checks them with TLC on
small instances, and proves the central facts with TLAPS for every instance.

Paths below are relative to `src/`.

## 1. The system

| Component | State it keeps | Operations | What makes it correct |
|---|---|---|---|
| Open documents, `crates/ry-lsp/src/backend/documents.rs` | display path -> documents, the last one active; per document the text, an edit id, tree, AST and hint caches | open, change, close, active | a URI is open once and below its own path; caches belong to the present text |
| Handlers, `backend/handlers.rs` | none of their own: they change the documents and the generation under the state lock and queue work before releasing it | did_open, did_change, did_close, configuration, folders, watched files, shutdown | no change of the documents without its follow-up work |
| Index writer, `backend/writer.rs` | disk index, folder contexts, pending paths and deadline, `indexed`, the publication record | one work item at a time; a debounced pass; reconciliation | the client ends up with what a fresh server would show; what stops being analysed is cleared; the work drains |
| Watcher registration, `backend.rs` | the config paths registered with the client | register, replace | what is recorded is what the client watches, whatever it refuses |
| Parse and hint caches, `backend.rs` | AST and hints per document | parse outside the lock, install if the edit is unchanged | an AST is never paired with another text; one AST per edit |
| Exit protocol, `crates/ry-lsp/src/lib.rs` | `shutdown_requested`, the exit signal | shutdown, exit, end of input, bounded drain | the exit code says whether shutdown came first; queued replies are flushed |
| Watch mode, `crates/ry-cli/src/check.rs` | modification stamps of configuration inputs and sources, the loaded configuration | poll, reload, rescan, check | every edit is eventually reported on |
| Incremental project, `crates/ry-checker/src/project.rs` | per-file collections, previous returns, signatures and tables, dirty paths | update, remove, reorder, set inputs, check_incremental | the diagnostics of a cold check |
| Fixpoint, `fixpoint.rs` | return slots, the read graph, the slots at bottom, evaluation modes | refine, widen, propagate | terminates; the least returns where reads are static; nothing stored is stale |
| Types and inference, `ry-core/src/types.rs`, `ry-checker/src/infer/` | the types of a scope's bindings | join, recycle, distribute, narrow | a type holds every value that R computes; an error reported is one |
| box modules, `box_imports.rs` | the shared inventory cache, the loading stack of each checker | load a module, detect cycles | results independent of which thread loads first |
| Scope journal, `scope_journal.rs` | the scope, undo records, branch marks | write, mark, roll back, join | rollback restores the scope of the mark; the join is that of two copies |
| Post-processing and baseline, `post_process.rs`, `ry-config/src/baseline.rs` | none between runs; the baseline file | audit, suppress, demote, subtract, write | a baseline hides exactly what it recorded; an ignore called unused is unused |
| VS Code extension, `editors/code/src/common/runtime.ts` | the client, the settings it was started with, the restart in flight and the one queued | restart, settings change, shutdown | the running server has the present settings; one server at the end, none after shutdown |
| Parser, the rest of inference, rules, typeshed, serialised data, formatting | none between calls | pure functions of their input | agreement with R |

How they interact. The server's handlers run concurrently and share `State`
behind one mutex. They never touch the index: they send `Work` through an
unbounded channel to the one index writer, while still holding the lock. The
writer owns the index, the contexts and the publication record, and takes the
lock only to read documents or install a result; it parses, walks and checks
without it. The client sends notifications and file events, and receives
publications in the order the writer sends them. The watch mode is a loop of
one thread against whoever edits the files. The checker is called by both and
keeps, in the server, a warm `Project` per folder.

The hard behaviours are: a pass against edits made while it runs; events
against the index they describe; folder and configuration changes against
publications that must be taken back; two names of one file; registration,
scan and edit in every order; a parse against the edit that overtakes it; the
poll loop against edits between its reads; caches that must answer as if they
were empty. `PROJECT.json` lists each at its line, with the properties that
cover it or the reason none does.

## 2. Modules, runs and plan

| Modules | Part of the system | Run |
|---|---|---|
| `Documents`, `IndexWriter`, `LspSession` | the server's documents, writer, handlers, client and disk | `LspScenarios`, `LspFolderRemoval`, `LspTwinClose` |
| `ParsedFile`, `Watchers`, `ExitProtocol`, `ExtensionRuntime`, composed by `Backend` | requests, watcher registration, the end of the process; the extension that starts it | `Backend`, `ExtensionRevert` |
| `WatchLoop`, `BoxPromise`, `BoxModules`, `Report`, composed by `CheckCommand` | `ry check`: the watch loop, the checkers' shared cache, what becomes of the findings | `CheckCommand`, `WatchEarlyEdits`, `BaselineRoundTrip` |
| `ProjectTables`, `ColdCheck`, `Project`, composed by `Checker` | the incremental project against a cold check | `Checker`, `ProjectDefaults` |
| `Components`, `Fixpoint`, `RTypes`, `Typing`, composed by `Inference` | the return-type fixpoint; the types along one body against R's values | `Inference`, `ListBranches` |
| `ScopeTables`, `BranchJoin`, `ClonedBranches`, `ScopeJournal`, composed by `Checker` | the branch journal against a walk over cloned scopes | `Checker` |
| `*_proofs` | theorems about `Documents`, `LspSession`, `CheckCommand`, `BoxModules`, `Backend` (those about `ExtensionRuntime` first), `Project`, `ScopeJournal`, `Inference` | |

A composing module (`Backend`, `CheckCommand`, `Inference`, `Checker`) follows one
part per behaviour: `part` says which, the others keep the first of their initial
states. The parts share no state in the code either, so no interleaving is
lost, and each keeps its own fairness. `MC...` modules hold the constants of an
instance. Three abstract specifications are stated, each with a refinement
mapping and checked as a PROPERTY: `BoxPromise` for `BoxModules`,
`ClonedBranches` for `ScopeJournal`, and `ColdCheck` for `Project`, which the
code implements but for the defaults of formals (section 9). A state predicate that
only types variables is a part of another invariant (`CachesCurrent`,
`PassesOrdered`, `JournalRestores`, `KeepsColdState`) or is proved.

The modules and the proofs of the plan are all written; section 14 says what
stays only checked. No module declares a RECURSIVE operator.

## 3. The language-server session

`Documents` holds the operations of `documents.rs` on `[Paths ->
Seq(document)]`; the last document of a path is the active one. `IndexWriter`
(which extends it) declares the server's state and one action per step of the
writer. `LspSession` adds the handlers, the client and the disk, `Init`, `Next`,
the fairness and the properties.

| Code | Model |
|---|---|
| `State.docs`, `diag_generation`, `folder_contexts`, `disk_files` | `docs`, `edited`, `contexts`, `diskFiles` |
| `mpsc` channel of `Work` | `queue` |
| `pending`, `deadline`, `indexed`, `published_uris` | the same names (`published` for the last) |
| the writer's place in an `async fn`, and its locals | `pc`, `job`, `sources`, `wanted`, `stale`, `scanned`, `snapshot`, `project` |
| the client's diagnostics per URI, and its watcher | `view` (findings or none), `watching`, `events` |
| files and `ry.toml` on disk | `disk`, `config` |

A handler is one action, because it holds the lock from its first read to the
queueing of its work. The writer is cut at each point where it has released
the lock and something it reads later may change: a rescan reads the disk and
installs the result in two steps; a folder change collects what to clear, loads
the new contexts, registers watchers, rescans, clears; a pass takes a snapshot,
collects the project, publishes, reconciles. Three places are one step although
the code awaits inside them. The refresh of one index entry checks, reads and
writes, but only the writer writes the index and every change of the file or
document in between queues an event of its own. Loading configurations reads
one file per root. The publications of a pass go out one by one, but no handler
reads or changes what the client shows. `diag_generation` is compared for
equality with a snapshot only, so a Boolean "it moved since" replaces the
counter.

A file's text is one of five kinds: it defines a name, uses it, does neither,
does not parse, or is over the size cap. That is enough to make findings depend
on other files (`HasFindings`) and on eligibility. A `ry.toml` is valid or not
and has an exclude list. A folder is a set of paths with a depth; folders nest.

### Runs

`LspScenarios` starts in each of four scenarios, which say what may happen, to
which URIs, how often, and from which disks and folders (`MCLspSession`):

| Scenario | What happens |
|---|---|
| `Editing` | opens, edits, closes, disk writes and shutdown around one folder |
| `Configuring` | opens and closes with `ry.toml`, metadata and settings changes |
| `Respelling` | two URIs of one path that no folder holds |
| `Moving` | nested folders come and go while documents open, close and files change |

In all of them it shows `Converged` (once every event is handled, the client
shows what a fresh server would), `IndexCurrent`, `SnapshotCurrent`,
`RequestsScheduled`, `PendingIsOpen`, `OnlyAnalysed`, `Tracked`,
`SilentAfterShutdown` and `Settles`. Two runs show a violation.
`LspFolderRemoval`: removing the folder that holds every open document leaves
documents that are still analysed without findings. `LspTwinClose`: opening and
closing a second spelling of an indexed file makes the writer forget the
findings it shows.

A third violation came to light in the attempt to prove `OnlyAnalysed`. A new
folder's `ry.toml` excludes an indexed file, and the last open document closes
before the pass that the folder change requested (`writer.rs:336`). The close
drops that pass (`writer.rs:152-155`) and requests none, since no document is
open (`writer.rs:166-168`), and the file's findings stay until something else
asks for a pass. `MCLspSession` keeps the session as `Adding`: TLC finds the
violation in `LspTwinClose.cfg` with `Scenarios <- AddingScenarios`.

Bounds. Two paths, one using a name that the other may define, are the least
for cross-file findings; two nested roots the least for an owner to change when
a folder goes; two URIs at one path the least for a collision. A scenario allows
three to five operations (each property is broken by a mutant within them),
`MaxQueue` bounds the channel: three items are more than the writer needs to be
behind on, and a handler that finds it full waits, which only delays it. The
writer's own steps are not bounded. A session may stop, so deadlock is not
checked; `Settles` checks what matters of it.

Fairness. `FairSpec` assumes weak fairness of the writer's next step (the
runtime polls a spawned task that is ready), of `Initialized` and of the
delivery of file events (a conforming client does both). Nothing is assumed of
edits, closes, folder changes or shutdown. Deadlines are abstracted to "set or
not": a pass runs at the earliest when no work is queued.

Preconditions. `Converged` needs an open document (with none open, the first
configuration requests nothing), valid `ry.toml`s (a fresh server cannot keep a
previous configuration) and no folder changes, which `OnlyAnalysed` and
`LspFolderRemoval` are about. A `ry.toml` and package metadata change only once the
watcher is registered. The code registers before it scans, and that order is
covered; but it reads the configuration before it registers (`writer.rs:118-119`),
so an edit between the two is read at the next configuration event only; no run
covers that half of the hazard.

### Theorems

`Documents_proofs` proves what the list operations do: they keep the map well
typed, and keep each URI open once below its own path (`PutKeepsKeys`,
`CloseKeepsKeys`). `LspSession_proofs` proves, for every choice of the
constants that satisfies the three assumptions:

* `TypeCorrect`: `Spec => []TypeOK`, from `TypeInv`, which adds that the work in
  hand while contexts load is a folder change.
* `NoRequestStranded`: `Spec => []RequestsScheduled`. Each operation on the
  pending set (`Request`, `Forget`, `StartPass`) keeps it.
* `PassesAreCurrent`: `Spec => []SnapshotCurrent`, which is inductive.
* `ShutdownSilences`: `Spec => SilentAfterShutdown`, from "answered implies
  stopped".
* `RecordIsExact`: if each path has one name (`OneName`), `Spec => []Tracked`.
  `Tracked` speaks only of the idle writer, so it is not inductive. `TrackInv`
  says at every point which findings have left the record and are still owed an
  empty publication (`Owed`: the URIs of a removed folder, the URI of a close in
  hand), that what is owed is not tracked again, and that each list is keyed by
  its own path. Without `OneName` it is false: `LspTwinClose`.
* `NoStaleRequest`: `Spec => []PendingIsOpen`. `CoveredInv` says it of the
  channel too: every queued item that will request its path is followed, at its
  place in the queue, by the close of that path or the path is open.
* `StoppedIsCleared`: with `OneName`, `Spec => [](OpenPaths(docs) # {} =>
  OnlyAnalysed)`. `ReconciledInv`: for each path that the record tracks and that
  is no longer analysed, a reconciliation is coming (a pass pending, one in
  hand, or an item whose handling ends in one). With no document open it is
  false: the session `Adding` above.
* `IndexFollowsDisk`: `Spec => []IndexCurrent`. `IndexInv` has what brings an
  entry up to date: the folders are those of the last change that names them,
  queued, in hand or made (`FoldersFollow`); a changed `ry.toml` is loaded or its
  event is on the way (`ConfigsLoaded`); files are watched before the first is
  read (`WatchedFirst`); and of each path the index agrees with the disk, or a
  rescan, an event or a close of that path will make it (`EntriesAgree`). The
  innermost root of a path exists because a root is shorter than the paths below
  it (a conjunct of `FolderAssumption`).
* `SessionConverges`: with `OneName`, `Spec => []Converged`. `Converging`: while
  no folder moves, a pass is due (`PassDue`), or what the client shows is what a
  pass started now would show (`ShowsCurrent`); an uninvalidated pass has
  collected what one started now would collect. With `IndexInv`, `TrackInv` and
  the two scheduling theorems it is inductive, and what a pass started now would
  show on a settled index is `FreshView`.

`OneName` says that every path has one spelling among the URIs in play. Two
spellings of a path are checked by TLC only, in the scenario `Respelling`.

## 4. The watch mode

`WatchLoop` is the loop of `check.rs` against an editor. Every write moves the
file's modification time, so the stamps need no numbers: `edited` and
`sourceEdited` hold what was written since the stamps were taken.

| Code | Model |
|---|---|
| the loads of `run_check`, in their order | `DiscoverConfig`, `LoadBaseline`, `LoadUserStubs`, `Scan`, `Snapshot` |
| `WatchState.config_stamps`, `source_stamps` | `edited`, `sourceEdited` with `stamped` |
| the poll: compare, reload, stamp again, rescan, compare | `Poll`, `Reload`, `ReloadStubs`, `ReloadBaseline`, `Restamp`, `RescanSources`, `Compare` |
| `run_check_once` | `RunCheck`, which records in `report` what it read |
| `ry.toml` | valid, broken or absent; names a baseline or not; an exclude list |
| `--baseline` | `baselineFromCli`, chosen at the start |

An edit may fall between any two actions. A sweep of stamps, the load of one
input and a pass are one action each. For a pass and a sweep this is coarser
than the code, which reads file by file; an edit of a file already read is the
same as an edit after the action, and an edit of one not yet read is seen by it
and moves its stamp again, which costs one more pass and no property.

`CheckCommand` shows of it `UpToDate` (whenever a poll would find nothing
changed, the last result is that of a fresh run) and, in `PassesEnd`,
`Reported` (once edits stop it becomes so, under weak fairness of the loop: one
thread that sleeps half a second at a time). `WatchEarlyEdits` shows a violation
of `UpToDate` when an input is edited after it is loaded and before it is
stamped.

Bounds: one source that may be excluded, two texts, one baseline, two edits
from every initial disk, inputs that are broken or missing from the start
included; each mutant is found within them, and `WatchEarlyEdits` allows three.
Preconditions: `EarlyEdits = FALSE` keeps edits of configuration inputs out of
the loads, the window `WatchEarlyEdits` shows; `Sound` says that a fresh run
would accept what is on disk, for a broken input keeps the state before it by
design. A run that cannot start exits, so deadlock is not checked.

`CheckCommand_proofs` proves `LoopTypeCorrect` and `PollsMissNothing`, the latter
assuming `EarlyEdits = FALSE`. `UpToDate` speaks of the sleeping loop only. The
invariant adds, for each place: what has been loaded is what the disk holds
while no edit can intervene (`Reading`); afterwards, an input in force is the
one on disk unless it was written since its stamp (`Loaded`); the last result
was computed from the state in force or a check is due (`Current`), and from
the stamped sources where these are unwritten since (`Read`).

## 5. The editor extension

`ExtensionRuntime` has one action per segment between two awaits of
`extension.ts` and `runtime.ts`, since JavaScript runs a segment at a time.

| Code | Model |
|---|---|
| `bootImmediate`, `runtimePromise`, `deactivate` | `bootImmediate`, `runtimePromise`, `deactivated`; a command before the load is `commanded` |
| `serverState`, `settings`, `restartQueued`, `shutdownPromise` | `serverState`, `settings`, `restartQueued`, `shutdownState` |
| `runServer` at its awaits, and its locals | `pc` with `nextSettings`, `nextPath`, `nextClient`, `previous` |
| the language client and its process | `live`, and `abandoned` for one whose dispose failed |
| the editor's settings and trust | `config`, `trusted` |

The extension part of the run `Backend` lets settings, trust, restart commands
and deactivation happen at every await, and every await fail: `ServerCurrent`
(at rest, the server is the one the settings select, unless the last restart
failed or the user was told to restart VS Code), `NoOrphan`, `RequestsServed`,
`KeepsServing` (a failed restart keeps the old server), `StatusTruthful`,
`StoppedForGood`, and in `Ends` `DeactivationEnds` under weak fairness of what
the code awaits and of the deferred boot: the version probe has a timeout, the
event loop runs what is scheduled, and a start or stop is assumed to be answered
or to fail. `Budget = 3` allows a change during a restart, one while another is
queued, and one after. `Reverts = FALSE` keeps settings from returning to
earlier values, because then the violation of `ExtensionRevert` appears: a
setting changed and changed back during a restart is compared with the settings
of the server before it, and the abandoned setting stays.

`Backend_proofs` proves, of the extension, `TypeCorrect`, `NothingOrphaned`,
`AlwaysServes`, `NothingAfterDeactivation` and `RequestsAreServed` for any
binaries, log levels and budget, with or without reverts, from one invariant:
before the runtime is loaded nothing runs and a boot does not outlive
deactivation (`BootInv`); the clients in hand run and are distinct (`RoleInv`);
the server is only stopped for good when no restart is in flight
(`ShutdownInv`); a request that no run serves is queued (`QueueInv`).
`StatusIsTruthful` adds what the status says in each segment of a restart
(`StatusInv`). `ServerStaysCurrent` assumes `~ Reverts`, without which it is
false, and adds `CurrentInv`: unless another run is queued, the one in flight
works for the settings in force from its first segment to its last. `PastInv`,
that all settings a run ever compares are of the past, is what makes a changed
setting differ from each of them.

## 6. box modules

`BoxPromise` is what the checker promises: a file sees, of its imports, those
that R can parse and that reach no import cycle. It is a function of the import
graph. `BoxModules` is how `box_imports.rs` computes it: several checkers, one
cache, no lock during an analysis.

| Code | Model |
|---|---|
| `inventories` of `box_imports.rs`: no entry, `None`, `Some` | `inventories`: absent, opaque, known with what the module saw |
| nested `Checker`s, `box_loading`, `box_cycle` | `stacks`: per worker, a frame for the file and for each module it is analysing |
| a worker of the parallel emission in `project.rs` | `Start`, `Finish` |
| `box_module_inventory` and its early returns | `MeetLoading`, `MeetCached`, `MeetRejected`, `Analyse`, `Analysed` |

The file at the bottom of a stack is not in `box_loading`: it is checked in its
own right, and is analysed as a module when one of its imports imports it. The
refiner of pass 2, which uses the same cache alone and before the emission, is
one more file checked by one worker.

`CheckCommand` runs two workers over import graphs of three modules, with cycles
of two and three, a self-import, and a module that R rejects. Three modules are
the least for a module above a cycle of two that it is not part of, and for
workers that enter that cycle at two places. It shows `NoReentry`,
`CacheIndependent` (what is cached is what the graph says), `KeepsPromise`
(`BoxModules` implements `BoxPromise`) and, in `PassesEnd`, `AllChecked`, under
weak fairness of each worker. One file may import itself, the others not, and
the imports of a rejected module do not matter. When all files are checked the
workers stop, so deadlock is not checked.

`BoxModules_proofs` proves all of these but `AllChecked`, and `Identical` (a
second analysis writes the same inventory), for any set of modules, import
graphs and workers. Whether a module reaches a cycle is said coinductively: it
is in a set of modules each of which imports one of the set (`ReachesCycle`),
which needs no recursion and gives what the proof uses: a readable module
reaches a cycle exactly if it imports a readable one that does (`CycleUp`,
`CycleDown`), and a module on a stack that imports one below it closes a cycle
that every frame between them reaches (`CycleOnStack`). The invariant says of
every frame that it has an inventory of what it saw, that each readable import
it is done with was seen or reaches a cycle and set the frame's `cycle`, and
that `cycle` is only set on a module that reaches one; of the cache, `CacheInv`,
that it agrees with the graph. The delicate point is that `MeetLoading` sets a
flag in the top frame only: the frames between learn of the cycle as each
analysis returns, and none of them can be cached before.

## 7. Requests, watchers and the end of the server

**Requests.** `ParsedFile` is `parsed_file`, `hints_for` and `code_action` of
`backend.rs` and `handlers.rs`: each looks a document up under the lock, parses
or infers without it, and takes the lock again to install or to answer. Two
calls share the caches of one document, which is meanwhile opened, edited
(whole or by ranges, which keep the old tree), closed and reopened, also under a
second URI; stubs are reloaded and passes publish findings. A text is the edit
that made it and whether it parses; an AST is its identity: the edit, the
caller that made it and the text its spans are about.

| Code | Model |
|---|---|
| `Documents.next_edit`, `diag_generation`, the folder's stubs | `edits`, `generation`, `stubs` |
| `Document.tree`, `parsed`, `hints` | the same fields of `docs` |
| the origin in a published diagnostic's data | `shown`, and `origin` of a call |
| `State.supports_diagnostic_data` | `dataSupport`, fixed per behaviour |
| the await points of the three functions, and their locals | `call[c].pc` and the other fields |

`CachesCurrent` is about the caches (their text, one AST per edit, which callers
compare by pointer), `AnswersCurrent` about what is handed out: the AST and the
hints that a caller gets are of the document and stubs in force at that moment,
and a fix edits the text of that moment. Whether the finding is of that text too
depends on the client (`handlers.rs:302-317`). One that returns a diagnostic's
data gets a fix only for a finding whose origin is the document it names, as it
is. Any other gets a fix for whatever finding it asks about, stale ones included
(`suppression_journey.rs:299-302` and `336-338` test it), and, if another URI of the
path became its active document during the parse, for the text of that one: a fix
for lines that have moved on is prevented for the first kind of client only.
`CallsAnswered` (in `Ends`) holds because a client's edits end; a retry takes the
new text. Three plans of calls, three edits, one reload and three passes, for
both kinds of client: every property is broken by a mutant within them.

**Watchers.** `Watchers` is `refresh_watchers`, run by the index writer after
every change of the folders. The client may refuse either request.
`WatchersCurrent`: between refreshes the record is what the client holds, and
unless it refused something, what the folders ask for. Four refreshes suffice
to register, replace, be refused and repair.

**Exit.** `ExitProtocol` is `run_with` of `lib.rs`: messages and the end of the
stream in any order, two handlers at once that may never answer, the exit
signal, the biased race between it and tower-lsp's serve loop (modelled from
its use), and the drain. `ResultFollowsProtocol` fixes the exit code; `ExitEnds`
says that a read `exit` ends the process, under weak fairness of what the
runtime does itself and with none assumed of handlers or the client. A client
that closes its input without `exit` while a handler waits for it leaves the
process waiting too; the drain limit starts at `exit`.

**Theorems.** `Backend_proofs` proves, of the composition and for any set of
URIs, callers, folders and bounds, `CachesStayCurrent`, `AnswersStayCurrent`
(with the same distinction of clients), `WatchersAgree` and `ExitCodeIsRight`, and `ExtensionIsPart`, by which the
extension's theorems hold here too. The invariant of the requests, `ParseInv`,
says of every open document (`DocOK`) that its tree and its parse are of its
text, its hints of that parse, and that no call holds a file or a text of the
same edit that differs; of every call (`CallOK`) where its edit and its file come
from; of two calls (`FilesAgree`) that one edit means one file; and of the
findings on display and in a call's hands (`OriginOK`) that while their
generation is the present one, they are of the active document of their path.
All of it rests on `EditsDistinct`: no two open documents have the same edit,
because the counter is taken under the lock; with one counter per document,
closing and reopening would let a late answer install a parse of the old text.
For the watchers, `WatchInv` follows one refresh: a registration is only asked
for when none is held. For the exit code, `ExitInv` ties it to the messages read.

## 8. What a run makes of its findings

`Report` follows findings from the checker to what is printed or published:
the audit of ignores, suppression, severities and scoped tables, demotion, the
baseline and the confidence threshold, in the order of `post_process.rs`, for
the command (`RunCheckOnce`) and for one file in the server (`PublishFile`).
Between runs a line is edited, lines move, options change and a baseline is
written. A line of a file is code or a comment, has a finding or not, may be in
an error assertion or unvisited by the pass, and carries a directive or not.

`SurplusReported`: against a baseline, exactly the surplus over what was
recorded is shown, of each rule in each file, wherever the findings moved and
whatever was hidden meanwhile, and the server shows the same. `AuditsTruthful`:
an ignore called unused has no finding, not even one that the pass did not
reach. `SurplusReported` needs the findings of a kind to be all above or all
below the threshold: `BaselineRoundTrip` shows that otherwise a baseline does
not hide what it was just written from. Two files, one of them demoted, with two
or three lines and two revisions suffice for a finding to be hidden and come
back, or to move past its twin.

`CheckCommand_proofs` proves both (`SurplusIsReported`, `AuditsAreTruthful`) for
any files, lines, rule tables, options and number of edits, and by
`PartsAreFollowed` the theorems about the loop and the checkers hold of the
composition. The stages work on sets of findings: of one key a line has one
finding at most, so that the order in which a key's findings take from its count
is that of their lines (`Earlier`). `ReportInv` says that the baseline counts
what was recorded and that this is finite for each kind. What the stages leave
of a kind in a file is one finding for each line that deserves it
(`PipelineFindings`, `KindOfRun`), and of n lines those with c or more before
them are n - c, whichever were edited or moved meanwhile (`RankCount`). A file's
findings take from the counts of its own keys only, hence `FrontendsAgree`. An
audited directive is about a line of the file that the pass visits, and a finding
there would have been seen before any filter hid it; in a file that R rejects,
its RY000 line stops the audit. That rests on an assumption of `Report`: a line
with RY000 is visited, since `emit_parse_errors` reports it before the walk.

## 9. The incremental project

`Project` is `project.rs` as the server drives it (`check_with_workspace`):
remove files, set stubs and packages, update, reorder, then `check_incremental`,
one action each; the workspace changes between checks only, because the server
gives a check one snapshot. `ProjectTables` has the pure part: what merged
files define, what bodies return (the least fixpoint over a scope, with seeds
outside it), and what an emission reads. A file defines functions (a body has
types of its own, calls, callbacks, formals it forwards, and may quote or
attach), reads others at its top level, loads a package, binds and needs
variables, and imports modules; its calls may leave an argument out, which makes
the default of the callee's formal count.

A cold check (`ColdCheck`) types a formal by its default where some call in the
project omits the argument, directly or by a formal that is itself forwarded
(`infer/mod.rs:1366-1378`, `lib.rs:1607-1618`; in the test at
`project.rs:1114-1145` a call in `R/b.R` decides an RY040 in `R/a.R`). A warm
check does so too in the files it emits, but nothing emits a file again because
the calls elsewhere changed. So there are two properties. `ImplementsColdCheck`,
that each check shows the diagnostics of a check from nothing, is refuted by the
run `ProjectDefaults`. `ImplementsButDefaults`, which holds, says the same of
everything but the findings about such defaults, and of those too for every file
whose text is new: only a file that kept its text may keep the answer of an
earlier check, although only the scope is refined and only some files are
emitted. `KeepsColdState`: what is kept for later is the cold check's too, so
that no stale seed, dependency or table surfaces several edits later; and a
check after which nothing changed emits nothing. Defaults at calls do not enter
there, because the returns take literal defaults only.

Three files, three functions and two rounds of edits from 60 workspaces (every
combination of three first contents of the callee's file, four of the caller's
and five of a third file that calls, passes on, shadows, loads or imports); an
edit may give a file any of its contents, reorder, remove or add files and change
stubs and packages. Each hazard needs one edit to make a table stale and one to
use it.

**Theorems.** `Project_proofs` proves both properties that hold
(`ProjectImplementsButDefaults`, `ProjectKeepsColdState`) for any paths, names, contents and workspaces and any
number of edits. 
`ProjectAssumption` is all they rest on: contents and workspaces
are of their types, and no path occurs twice in a workspace (two files under one
display path are not modelled). The induction is over steps only, because
`ProjectTables` describes what the iteration settles on: a closure is the least
closed set, and a return or an argument mode is what such a closure reaches.

- *What the project holds* (`SourcesInv`): the files are distinct and, as far as
  the call has come, those of the workspace; every file not marked dirty is
  collected as it is.
- *What the last check left* (`KeptInv`): there is a workspace `old` whose cold
  check is what is stored (`Stored`), and since then (`Since`) either every file
  has become dirty, or a file that is not dirty, and a definition that is neither
  invalidated nor in a dirty file, are still those of `old` (`Tracked`). An edit
  that could break the second must cause the first: removing a file, new stubs, a
  new declared package, imports.
- *The scope is wide enough* (`ScopeCovers`): it is closed under readers and
  forwarders in the new tables and the recorded dependencies, and contains every
  definition that changed. A function outside it therefore reads and forwards
  what it did in `old`, at every depth, so its seed is its cold return, and the
  least returns over the scope, given those seeds, are the cold ones
  (`ReturnsOfScope`, `ModesOfScope`, `CheckIsCold`).
- *The emission is wide enough* (`OthersStay`): a file left out is unchanged, and
  none of what it reads, calls or needs has changed, so a cold check would show
  what is on display, up to which defaults count.

`KeptInv` is needed because neither property is inductive: that the diagnostics
are right now does not say that the seeds, the dependencies and the recorded
reads are, and each of them is used one or more edits after it was stored.

## 10. The fixpoint

`Components` is the Tarjan search with explicit frames; `Fixpoint`
(`run_fixpoint_scoped`) uses it in every pass after the first. A body is a set
of paths: a type of its own, a call, a list around a call, a method selected by
a callee's class, a value of a package some body attaches, a forwarding. Types
are the levels of an ascending chain below Unknown.

`PassesOrdered`: the components are callees first, so nothing visited earlier
in a pass is wanted again. `LeastReturns`: where reads are static, what is
stored is the least solution, whatever the order. `ResultsSettled`: at the end
no return is stale, no read is missing, no mode is left to inherit.
`FixpointEnds`, under weak fairness of the loop. All programs of three functions
over the listed bodies, in a full scope or a partial one with seeds: three are
the least for a cycle with an entry or an exit. `MaxPasses = 3` is enough for
those programs to settle; the code has eight, and a program that needs more is
cut off with functions pending, which nothing promises anything about.

`Inference_proofs` proves `ResultsAreSettled` for any number of functions,
bodies, scopes, height of types and limit of passes: at the end, where the loop
was not cut off (`Settled`), no return is stale and no mode is left to inherit,
and where no component was widened every read is on record. The invariant,
`StoreInv`, says of every function in scope that no visit is due to, as long as
the pass has attached nothing, that it is `Current`: what its body reads is on
record, and inferring the body once more yields what is stored for it, or bottom
while it still reads a function at bottom; or its component was widened and it
is unknown. A step that changes some slots keeps a function current that reads
none of them (`StaysCurrent`, from `DependsOnReads`), and makes due each one that
was seen to. Around it, `DueInv` says whom a visit is due: all in scope when a
pass that attached something ends, all at bottom but the members in hand;
`SearchInv` says that the nodes of the search's frames lie on its stack in the
order of the frames, so that a component it closes is made of functions.

The hypothesis on widening is needed. A component is visited lowest name first,
and can use up its visits while a member waits in the queue. Widening takes that
member out of the queue unvisited, so that what it would read by now, a method
say that was selected meanwhile, is not on record. Its own type is unknown by
then; the instance is too small for it to happen, and its `ResultsSettled` holds
without the hypothesis.

`PassesAreOrdered` is proved without a hypothesis, and with it the search:
`SearchOrdered` for any graph. A node reaches another if every set that is closed
under the edges and has the one has the other; this needs no paths and no length,
so the proof needs no induction. The invariant, `OrderInv`: a closed component
depends on itself and on earlier ones, and its nodes reach each other; the stack
is in the order of visit; a frame's node reaches everything above it on the
stack, and everything on the stack reaches a frame's node below it or itself;
`low` is at most what the edges followed so far lead to, and is the order of a
node that is reached. So when a node is left with `low` at its own order, no edge
from above it leads below it, and the component that is closed is a whole class.
For the passes, where reads are static (`StaticInv`): each function of the scope
was visited or waits for its first visit in the first pass, and a visit records
all its reads, so the graph of a later pass is what the callers on record say
until the end of the pass; what a settled component queues again lies in a later
one.

`ReturnsAreLeast`: where the loop settled and widened no component, `LeastReturns`
holds. A set of functions is `Hollow` if their paths only return what others of
the set return. Exactly the functions of hollow sets have bottom as their least
return (`EmptyIsHollow`), and `HollowInv` keeps them at bottom or unknown. A
body's result grows with the returns it reads and with the evaluation modes
(`ResultGrows`), so no visit stores more than any return that the paths allow
(`LeastInv`). The one step that does not infer a body, `SettleStuck`, gives a
component unknown: after the first pass its members at bottom read only each
other, because callees come first and nothing earlier is due; so they are hollow
(`StuckIsHollow`), and unknown is their least return. At the end nothing is stale,
so what is stored is itself allowed, and it is below all that is. Both hypotheses
are needed: a loop that is cut off leaves stale returns, and a component that is
widened has unknown whatever its bodies yield.

## 11. Types against R's values

`RTypes` has ry's lengths, modes and unions, their join and the types of
operators; `Typing` runs a program of assignments, branches, guards, operators
and conditions over two variables in R and in ry at once. The run takes one arm
of each branch, the types take both; what R does is external and modelled by
mode and length. `TypesSound`: every value is one of its inferred type.
`NoFalseAlarm`: an error that ry reports (RY001, RY030, RY031, RY032, RY040) is
one R raises, and RY041 comes with a warning or an error. `%%` of a complex operand, with whatever
else, is an error where both are proven nonempty and says nothing otherwise
(`ArithAtomic`). Four statements are
enough to join, guard, operate and use; a mutant of each of the join, the cap,
the distribution over unions and the guards is found.

Where ry knowingly speaks of something else than a failure, the property says
so or the instance leaves it out: RY001 on a union is about one path ("RY001 on
a path"); a NULL operand of arithmetic is reported though R returns
`numeric(0)`; a function compared with NULL is reported though R returns
`logical(0)`; of `&&` the first operand is taken to be true; parameters have no
defaults and values no classes, so the dispatch of operators on S3 classes is not
modelled. Two disagreements remain: `ListBranches` shows that a comparison with the join of two list types is reported as an error, and
the passing instance has no lists; and `is.numeric` is not among its guards,
because it installs the union of an integer and a double of length one and
`guarded_type` (`narrow.rs:719`) replaces the length of the union only, not
that of its members, so that a later operation recycles from one.

`Inference_proofs` proves `InferenceIsSound` and `ReportsAreErrors`, which are
`TypesSound` and `NoFalseAlarm` for any variables, inputs, literals and guards,
and for programs of any length. The hypothesis, `WithinTheRules`, is what the
previous paragraph leaves out: no lists, not NULL and functions in one program,
no `is.numeric`. The run's constants satisfy it (`MCAssumption`). Each operator
on lengths and types has a lemma that it holds every value it should: a joined
length fits what either did (`JoinLengthFits`), recycled values have the inferred
length (`BinaryLengthFits`), a join keeps both sides' leaves even where the cap of
a union merges them (`JoinHolds`), and an operator distributed over the leaves of
its operands reaches the pair the values are of (`DistributedHolds`). `TypingInv`
is then kept by each statement; a guard's two arms are `NarrowHolds`. The attempt
found definitions of `RTypes` and `Typing` whose cases overlapped, which TLC
resolves in their order and TLA+ leaves open; they are chains of conditions now,
in the order of the code.

## 12. The scope journal

`ScopeTables` has each method of `Scope` as a function from a scope to a scope
and the undo records it pushes; `BranchJoin` the join of two arms.
`ScopeJournal` walks nested `if`s: writes push records, the end of an arm reads
the delta off them and pops them one by one. `ClonedBranches` is the
repository's own reference, which copies the scope for each arm
(`infer/cloned_scope_reference.rs`), and its Spec is the property
`MatchesClones`: every table, flag and join agrees. `JournalRestores`: each
record undoes its write, each snapshot comes back, and an assignment's undo
never meets a fact it removed, as `AssignmentUndo::restore` asserts.
`DeltaExact`: the delta is the arm's final scope.

The two walks do not share their join. `Join` is the journal's
(`walk_journal_if`): it forgets and clears first, merges the deltas, and computes
what a union guard leaves from the scope before the `if`. `ClonedJoin` is the
reference's: it clears and merges first, and computes that refinement from what
it has merged by then. The refinement (`Refinements`, `Refined`;
`union_guard_continuation_refinement`) says what holds after a guard such as
`if (is.null(x)) return(..)`: the type that the one arm which goes on has left,
or, where both go on, the new binding of the one and the remainder of the other.
It depends on `Exits`, the arms that a `return` ends, and there the code has two
definitions of "the arm rebinds `return`": the journal asks whether its delta has
the name, the reference whether its type there is another one than in the scope as
merged so far. `MatchesClones` therefore holds where no name of the walk is
`return` (`ReturnNames = {}` in the run, a hypothesis of the theorem); section 13
says what happens otherwise.

Two names that R takes for one (`x` and its backquoted spelling, `tx`), a scope
with every kind of fact and one with few, each of 26 operations, three tests (a
null test, a guard that returns, a condition that is never true), two writes and
two `if`s, nested or in a row: the least for a record of the outer arm to lie
below one of the inner, and for a write to follow the write it overlaps. The run
`Checker` does not check deadlock: a walk ends where its bounds do.

Since `Checker` extends both, names that `Project` also uses are others here: a
binding's name is one of `Slots` and its type one of `BindingTypes`, and the
specification is `JournalSpec`.

`ScopeJournal_proofs` proves all three (`TablesAreRestored`, `DeltaIsExact`,
`JournalMatchesClones`, the last under `ReturnNames = {}`) for any names,
operations, tests, depth and numbers of writes and `if`s. The work is one lemma for each method of the scope and each
join: the walk it makes `Tracks` the scope it starts from, that is, each record
it pushes undoes the change it was pushed for (`Chain`), and of each name the
last record that saved it says whether the final binding is a plain one, which
is all that `finish_snapshot` reads (`Span`). `JournalInv` says the same of the
whole log, between each open `if` and the one inside it (`Framed`): popping the
records of an arm therefore ends at the scope its branch started from, and the
outer arm's records are undisturbed. The refinement reads the abstract scope off
`delta.final` while an arm is rolled back, so that `FinishArm` and `PopRecord`
stutter; a name outside the delta has the binding of the base
(`UnmarkedIsBase`). That the two joins agree (`JoinsAgree`) has two halves. Up to
the merge they do the same steps in different orders: a merge leaves no scalar
assertion on what it inserts and looks at none, nor at the definitions, so
forgetting, losing and clearing may come before or after it (`ForgetAt`, `LoseAt`,
`MergeAt`, `MergedLost`, `HeadsAgree`). From there the steps are the same, of
scopes that agree on every table (`SameTail`).

## 13. Findings

`PROJECT.json` quotes what each disagrees with.

| Run | Finding |
|---|---|
| `LspFolderRemoval` | after a folder's removal, documents that are still analysed stay without findings |
| `LspTwinClose` | closing a second spelling of an indexed file loses track of its findings |
| `ExtensionRevert` | a setting changed and changed back during a restart leaves the wrong server |
| `WatchEarlyEdits` | an input edited between its load and its stamp is never reloaded |
| `BaselineRoundTrip` | with a confidence threshold, a baseline does not hide all that it was written from |
| `ListBranches` | a comparison with the join of two lists is reported as an error |
| `ProjectDefaults` | findings about a default stay stale in a file when a call in another file starts or stops using it |

One more disagreement was met, without a run of its own because it concerns only
the reference that the tests compare with. With `ReturnNames = {"tx"}` the run
`Checker` finds `MatchesClones` violated: the arm of `if (is.null(x) || ..)
return(..)` attaches a box function under the name `return`. Its delta has the
name, so the journal refines nothing; its type there is that of the merged scope,
so the clones refine `x`. The comment at `cloned_scope_reference.rs:124-127` says that both walks
share the helper, "so the
parity harness cannot drift on this behavior".

## 14. What is not modelled, and what is only checked

Liveness is beyond the prover and checked by TLC only: `Settles`, `Reported`,
`AllChecked`, `Ends`, `FixpointEnds`. Also only checked are the session with two
spellings of a path (`Converged`, `OnlyAnalysed`, `Tracked` there),
`OnlyAnalysed` with no document open. What an iteration computes after a number
of rounds that depends on the program would need an induction over data, which
the prover does not have; sections 9 and 10 describe it as a least fixpoint
instead, which the proofs compare with what is stored.

Not modelled, by section. Session: the resolution of package contexts, the
`index.max-files` budget (which file it refuses depends on the order of
arrival, `writer.rs:555`), the `enable` setting, RY117 warnings, the rules of a
`ry.toml` other than its exclude list. Watch mode: two writes within one tick
of the file system's clock (`check.rs:347`), errors of a pass that end the
loop, several `ry.toml`s, output. Extension: the inert runtime of
`ry.enable = false`, live settings and middleware. box modules: package
inventories, what a module exports, files that change on disk during a run
(`box_imports.rs:764`). Requests: hover and completion beyond the parse they
share. Report: the order of printing, exit codes, findings of a file as a
whole, directives' spelling; a line has at most one finding. Project: S3 and S4
tables, declarations, two files under one display path; of the call sites those
of qualified names (`pkg::f`), what a caller's guards and rebindings say of an
argument, and the order of several forwarders within a file. Fixpoint: what a body's
inference does besides reading returns. Types: classes (so the S3
classes of operands), columns, function
signatures, value facts, NA provenance, `c()`, sequences, indexing, loops,
calls and compound guards. Journal: operators that the project
rebinds, escaped names and slot names, unions other than those of guards and the
bounds of their lengths, data masks beyond one flag, joins of loops.

The components without a module are listed in `PROJECT.json` with the reason.
They are most of the code by lines: the inference of calls and indexing, the
rules, the harvesting of definitions, the parser and the typeshed are
syntax-directed functions of one file's text, without state, order or failure
for a model to explore. What they compute enters the modules above as an
abstract body, a finding or a type.
