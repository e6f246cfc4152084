----------------------------- MODULE IndexWriter -----------------------------
(***************************************************************************)
(* The index writer of the language server (backend/writer.rs): the one    *)
(* task that writes the disk index, the folder contexts and the            *)
(* publication record, and the only one that publishes diagnostics.  It    *)
(* takes one item of work at a time, in arrival order, and runs a          *)
(* debounced publication pass when no work is queued.                      *)
(*                                                                         *)
(* This module declares the state and the writer's steps.  A step is what  *)
(* the writer does between two points where a handler or the disk can      *)
(* intervene and the writer could notice.  LspSession adds the handlers,   *)
(* the client and the disk.                                                *)
(***************************************************************************)
EXTENDS Documents, FiniteSets

CONSTANTS
    Roots,       \* directories that can be workspace folders
    Inside,      \* Inside[r]: the paths below the root r
    Depth,       \* Depth[r]: the length of the root, for the innermost owner
    Texts,       \* the file contents in play, among TextKinds
    Excludes     \* the exclude lists a ry.toml can hold, sets of paths

(* What the checks tell apart in a file: a definition other files can use, *)
(* a use of it, text the parser rejects, text over the size cap, and text  *)
(* that does none of these.                                                *)
TextKinds == {"plain", "defines", "uses", "broken", "large"}
NoText == "absent"
Fallback == "no folder"

ASSUME FolderAssumption ==
    /\ Inside \in [Roots -> SUBSET Paths]
    /\ Depth \in [Roots -> Nat]
    /\ \A r, s \in Roots :
          r # s /\ Inside[r] \cap Inside[s] # {} => Depth[r] # Depth[s]
    \* a root is shorter than the paths below it, so one is innermost
    /\ \A p \in Paths : \A rs \in SUBSET {r \in Roots : p \in Inside[r]} :
          rs # {} => \E r \in rs : \A s \in rs : Depth[s] <= Depth[r]
    /\ Fallback \notin Roots
    /\ Texts \subseteq TextKinds
    /\ Excludes \subseteq SUBSET Paths
    /\ {} \in Excludes

VARIABLES
    \* State behind the mutex
    docs,        \* open documents
    edited,      \* diag_generation moved since the last pass snapshot
    contexts,    \* folder_contexts: root -> exclude list in force
    diskFiles,   \* disk_files: the disk index
    \* The channel from the handlers to the writer
    queue,
    \* IndexWriter
    pending, deadline, indexed,
    published,   \* published_uris
    \* Where the writer is, and the locals of the step it is in
    pc,
    job,         \* the work in hand
    sources,     \* watched sources still to refresh
    wanted,      \* the paths this work or pass will request
    stale,       \* the URIs it will clear
    scanned,     \* files a rescan read and has not installed
    snapshot,    \* the documents a pass started from
    project,     \* the files it checks
    \* Outside the server
    view,        \* whether the client shows findings for a URI
    disk,        \* the files on disk
    config,      \* each root's ry.toml on disk
    watching,    \* whether the client watches files for the server
    answered     \* whether the client has the reply to shutdown

stateVars  == <<docs, edited, contexts, diskFiles>>
writerVars == <<pending, deadline, indexed, published>>
localVars  == <<sources, wanted, stale, scanned, snapshot, project>>
outerVars  == <<disk, config, answered>>

-----------------------------------------------------------------------------
(* Work                                                                    *)

NoWork == [kind |-> "none"]
Work ==
    [kind : {"configure"}]
    \cup [kind : {"folders"}, added : SUBSET Roots, removed : SUBSET Roots]
    \cup [kind : {"watched"}, sources : SUBSET Paths,
          config : BOOLEAN, metadata : BOOLEAN]
    \cup [kind : {"publish"}, path : Paths]
    \cup [kind : {"closed"}, uri : Uris, path : Paths, shared : BOOLEAN]
    \cup [kind : {"shutdown"}]

-----------------------------------------------------------------------------
(* Folder contexts                                                         *)

\* folder_context_for_path: the innermost folder that contains the path.
Owner(ctxs, p) ==
    LET owners == {r \in DOMAIN ctxs : p \in Inside[r]}
    IN  IF owners = {} THEN Fallback
        ELSE CHOOSE r \in owners : \A s \in owners : Depth[s] <= Depth[r]

\* eligibility_for_path_with_len.  A closed path skips the size cap, which
\* the walk that indexed it applied; the fallback has no root and no rules.
Eligible(ctxs, p, text) ==
    LET r == Owner(ctxs, p)
    IN  r = Fallback \/ (p \notin ctxs[r] /\ text # "large")

\* eligibility_for_path: an open path is judged by its active text.
PathEligible(ctxs, ds, p) ==
    Eligible(ctxs, p, IF IsOpen(ds, p) THEN Active(ds, p).text ELSE NoText)

\* any_open_source_eligible: each document by its own text.
AnyEligible(ctxs, ds, p) ==
    IF IsOpen(ds, p)
    THEN \E i \in 1 .. Len(ds[p]) : Eligible(ctxs, p, ds[p][i].text)
    ELSE Eligible(ctxs, p, NoText)

\* Config of a root as loaded from disk; a bad file keeps the previous one.
LoadConfig(onDisk, previous) ==
    IF onDisk.valid THEN onDisk.exclude ELSE previous

\* What the walk or a single-file read makes of a file: text over the cap
\* and text the parser rejects are never indexed.
Readable(text) == IF text \in {"large", "broken"} THEN NoText ELSE text

-----------------------------------------------------------------------------
(* Checking: a use needs a definition in a file of the same scope.         *)

HasFindings(ctxs, files, p) ==
    \/ files[p] = "broken"
    \/ /\ files[p] = "uses"
       /\ ~ \E q \in Paths :
              Owner(ctxs, q) = Owner(ctxs, p) /\ files[q] = "defines"

\* What index_workspace finds below the roots of ctxs.
Walk(ctxs, files) ==
    [p \in Paths |->
        IF \E r \in DOMAIN ctxs : p \in Inside[r] \ ctxs[r]
        THEN Readable(files[p]) ELSE NoText]

\* The files a pass checks: open eligible documents, and indexed files that
\* no open document hides.  "opened" are the eligible open paths of the
\* snapshot.
ProjectFiles(ctxs, ds, index, opened) ==
    [p \in Paths |->
        IF IsOpen(ds, p)
        THEN IF p \in opened THEN Active(ds, p).text ELSE NoText
        ELSE IF Eligible(ctxs, p, NoText) THEN index[p] ELSE NoText]

\* The paths a pass publishes: what it checked, and the paths several URIs
\* share even when their active document was not checked.
Outgoing(ds, files) ==
    {p \in Paths : files[p] # NoText \/ Len(ds[p]) > 1}

\* What a pass shows at u: only the owner of a path gets its findings.
Shows(ctxs, ds, files, u) ==
    LET p == PathOf[u]
    IN  u = OwnerUri(ds, p) /\ HasFindings(ctxs, files, p)

-----------------------------------------------------------------------------
(* Parts of the writer's steps                                             *)

Finish ==
    /\ pc' = "idle"
    /\ job' = NoWork
    /\ wanted' = {}
    /\ stale' = {}

\* A mutant: the deadline is never set.
RequestUnscheduled(paths, before) ==
    /\ pending' = before \cup paths
    /\ wanted' = {} /\ job' = NoWork
    /\ pc' = (IF pending' = {} THEN "reconcile" ELSE "idle")
    /\ UNCHANGED deadline

\* request: schedule a pass, or only reconcile when nothing was requested.
Request(paths, before) ==
    /\ pending' = before \cup paths
    /\ wanted' = {}
    /\ job' = NoWork
    /\ IF pending' = {}
       THEN pc' = "reconcile" /\ UNCHANGED deadline
       ELSE pc' = "idle" /\ deadline' = TRUE

\* A closed path no longer waits for a pass.
ForgetNothing(p) == UNCHANGED <<pending, deadline>>            \* a mutant
ForgetPathOnly(p) == pending' = pending \ {p} /\ UNCHANGED deadline \* a mutant
Forget(p) ==
    /\ pending' = pending \ {p}
    /\ deadline' = (deadline /\ pending' # {})

\* The view after an empty publication to each of the URIs.
Cleared(uris) == [u \in Uris |-> view[u] /\ u \notin uris]

\* The writer receives an item of the given kind.
Receives(kind) == pc = "idle" /\ queue # << >> /\ Head(queue).kind = kind

-----------------------------------------------------------------------------
(* Work items                                                              *)

\* Work::Publish
TakePublish ==
    /\ Receives("publish")
    /\ queue' = Tail(queue)
    /\ Request({Head(queue).path}, pending)
    /\ UNCHANGED <<stateVars, indexed, published, sources, stale, scanned,
                   snapshot, project, view, outerVars, watching>>

\* close, when another URI is still open at the path
TakeClosedShared ==
    /\ Receives("closed") /\ Head(queue).shared
    /\ queue' = Tail(queue)
    /\ published' = [published EXCEPT
                        ![Head(queue).path] = @ \ {Head(queue).uri}]
    /\ view' = Cleared({Head(queue).uri})
    /\ Request({Head(queue).path}, pending)
    /\ UNCHANGED <<stateVars, indexed, sources, stale, scanned,
                   snapshot, project, outerVars, watching>>

\* close, when the path has no open document left
TakeClosed ==
    /\ Receives("closed") /\ ~ Head(queue).shared
    /\ queue' = Tail(queue)
    /\ job' = Head(queue)
    /\ published' = [published EXCEPT ![Head(queue).path] = {}]
    /\ Forget(Head(queue).path)
    /\ sources' = {Head(queue).path}
    /\ pc' = "refresh"
    /\ UNCHANGED <<stateVars, indexed, wanted, stale, scanned,
                   snapshot, project, view, outerVars, watching>>

\* Work::Configure: settings and reload first
TakeConfigure ==
    /\ Receives("configure")
    /\ queue' = Tail(queue)
    /\ job' = Head(queue)
    /\ pc' = "reload"
    /\ UNCHANGED <<stateVars, writerVars, localVars, view, outerVars, watching>>

\* The URIs a folder removal clears: open documents below the root, and
\* closed files it had published.
ClearedOpenOnly(gone) == UNION {UrisAt(docs, p) : p \in gone}  \* a mutant
ClearedByRemoval(gone) ==
    UNION {UrisAt(docs, p) \cup published[p] : p \in gone}

\* change_folders, up to loading the added contexts
TakeFolders ==
    /\ Receives("folders")
    /\ queue' = Tail(queue)
    /\ job' = Head(queue)
    /\ LET gone == UNION {Inside[r] : r \in Head(queue).removed}
       IN  /\ stale' = ClearedByRemoval(gone)
           /\ wanted' = OpenPaths(docs) \ gone
    /\ pc' = "folders"
    /\ UNCHANGED <<stateVars, writerVars, sources, scanned, snapshot, project,
                   view, outerVars, watching>>

\* watched_files: a config change reloads, then rescans; package metadata
\* rescans; sources alone refresh their own entries
TakeWatched ==
    /\ Receives("watched")
    /\ queue' = Tail(queue)
    /\ job' = Head(queue)
    /\ \/ Head(queue).config /\ pc' = "reload" /\ UNCHANGED sources
       \/ /\ ~ Head(queue).config /\ Head(queue).metadata
          /\ pc' = "scan" /\ UNCHANGED sources
       \/ /\ ~ Head(queue).config /\ ~ Head(queue).metadata
          /\ pc' = "refresh" /\ sources' = Head(queue).sources
    /\ UNCHANGED <<stateVars, writerVars, wanted, stale, scanned, snapshot,
                   project, view, outerVars, watching>>

\* A mutant: the loop goes on after the reply.
TakeShutdownAndGoOn ==
    /\ Receives("shutdown")
    /\ queue' = Tail(queue)
    /\ answered' = TRUE
    /\ UNCHANGED <<stateVars, writerVars, pc, job, localVars, view, disk,
                   config, watching>>

\* Work::Shutdown: reply and stop; a pending pass is dropped
TakeShutdown ==
    /\ Receives("shutdown")
    /\ queue' = Tail(queue)
    /\ answered' = TRUE
    /\ pc' = "stopped"
    /\ UNCHANGED <<stateVars, writerVars, job, localVars, view, disk, config,
                   watching>>

-----------------------------------------------------------------------------
(* Steps inside a work item                                                *)

\* reload_folder_contexts: each context keeps its last valid config
Reload ==
    /\ pc = "reload"
    /\ contexts' = [r \in DOMAIN contexts |->
                        LoadConfig(config[r], contexts[r])]
    /\ pc' = IF job.kind = "configure" THEN "watchers" ELSE "scan"
    /\ UNCHANGED <<docs, edited, diskFiles, queue, writerVars, job, localVars,
                   view, outerVars, watching>>

\* change_folders: load the added contexts and install the new set
ChangeFolders ==
    /\ pc = "folders"
    /\ LET gone == UNION {Inside[r] : r \in job.removed}
           kept == DOMAIN contexts \ job.removed
       IN  /\ contexts' = [r \in kept \cup job.added |->
                              IF r \in kept THEN contexts[r]
                              ELSE LoadConfig(config[r], {})]
           /\ diskFiles' = [p \in Paths |->
                               IF p \in gone THEN NoText ELSE diskFiles[p]]
           /\ published' = [p \in Paths |->
                               IF p \in gone THEN {} ELSE published[p]]
    /\ pc' = "watchers"
    /\ UNCHANGED <<docs, edited, queue, pending, deadline, indexed, job,
                   localVars, view, outerVars, watching>>

\* refresh_watchers, when the client answers
RefreshWatchers ==
    /\ pc = "watchers"
    /\ watching' = TRUE
    /\ pc' = "scan"
    /\ UNCHANGED <<stateVars, queue, writerVars, job, localVars, view,
                   outerVars>>

\* rescan, the read: nothing is walked when there is no folder
Rescan ==
    /\ pc = "scan"
    /\ indexed' = TRUE
    /\ IF DOMAIN contexts = {}
       THEN pc' = "scanned" /\ UNCHANGED scanned
       ELSE pc' = "install" /\ scanned' = Walk(contexts, disk)
    /\ UNCHANGED <<stateVars, queue, pending, deadline, published, job,
                   sources, wanted, stale, snapshot, project, view, outerVars,
                   watching>>

\* rescan, the write
InstallScan ==
    /\ pc = "install"
    /\ diskFiles' = scanned
    /\ scanned' = [p \in Paths |-> NoText]
    /\ pc' = "scanned"
    /\ UNCHANGED <<docs, edited, contexts, queue, writerVars, job, sources,
                   wanted, stale, snapshot, project, view, outerVars, watching>>

\* What follows a rescan in each kind of work
AfterScan ==
    /\ pc = "scanned"
    /\ \/ /\ job.kind = "configure"
          /\ Request(OpenPaths(docs), pending)
          /\ UNCHANGED <<stale, view>>
       \/ /\ job.kind = "watched"
          /\ Request(OpenPaths(docs) \cup {p \in Paths : published[p] # {}},
                     pending)
          /\ UNCHANGED <<stale, view>>
       \/ /\ job.kind = "folders"
          /\ view' = Cleared(stale)
          /\ stale' = {}
          /\ Request(wanted, pending)
    /\ UNCHANGED <<stateVars, queue, indexed, published, sources, scanned,
                   snapshot, project, outerVars, watching>>

\* A mutant: entries are refreshed from the index, not from the disk.
RefreshEntryStale ==
    /\ pc = "refresh"
    /\ \E p \in sources :
          /\ sources' = sources \ {p}
          /\ wanted' = IF IsOpen(docs, p) THEN wanted ELSE wanted \cup {p}
    /\ UNCHANGED <<stateVars, queue, writerVars, pc, job, stale, scanned,
                   snapshot, project, view, outerVars, watching>>

\* refresh_disk_entry for one path.  Only the writer writes disk_files, and
\* whatever changes between its check, its read and its write queues an
\* event of its own, so one step stands for the three.
RefreshEntry ==
    /\ pc = "refresh"
    /\ \E p \in sources :
          /\ sources' = sources \ {p}
          /\ IF IsOpen(docs, p)
             THEN UNCHANGED <<diskFiles, wanted>>
             ELSE LET r == Owner(contexts, p)
                      admitted == r # Fallback /\ p \notin contexts[r]
                  IN  /\ diskFiles' = [diskFiles EXCEPT ![p] =
                             IF admitted THEN Readable(disk[p]) ELSE NoText]
                      /\ wanted' = wanted \cup {p}
    /\ UNCHANGED <<docs, edited, contexts, queue, writerVars, pc, job, stale,
                   scanned, snapshot, project, view, outerVars, watching>>

\* watched_files, after its entries: no change, no pass
AfterRefresh ==
    /\ pc = "refresh" /\ sources = {} /\ job.kind = "watched"
    /\ IF wanted = {}
       THEN Finish /\ UNCHANGED <<pending, deadline>>
       ELSE Request(wanted \cup OpenPaths(docs), pending) /\ UNCHANGED stale
    /\ UNCHANGED <<stateVars, queue, indexed, published, sources, scanned,
                   snapshot, project, view, outerVars, watching>>

\* A mutant: the documents that are still open are not checked again.
FinishCloseAlone ==
    /\ pc = "refresh" /\ sources = {} /\ job.kind = "closed"
    /\ view' = Cleared({job.uri})
    /\ Finish
    /\ UNCHANGED <<stateVars, queue, writerVars, sources, scanned, snapshot,
                   project, outerVars, watching>>

\* close, after its entry: the empty publication, then the documents that
\* are still open
FinishClose ==
    /\ pc = "refresh" /\ sources = {} /\ job.kind = "closed"
    /\ view' = Cleared({job.uri})
    /\ IF OpenPaths(docs) = {}
       THEN Finish /\ UNCHANGED <<pending, deadline>>
       ELSE Request(OpenPaths(docs), pending) /\ UNCHANGED stale
    /\ UNCHANGED <<stateVars, queue, indexed, published, sources, scanned,
                   snapshot, project, outerVars, watching>>

-----------------------------------------------------------------------------
(* The publication pass                                                    *)

\* The deadline fires: run, when it finds no work received
StartPass ==
    /\ pc = "idle" /\ queue = << >> /\ indexed /\ deadline
    /\ deadline' = FALSE
    /\ wanted' = pending
    /\ pending' = {}
    /\ pc' = "snapshot"
    /\ UNCHANGED <<stateVars, queue, indexed, published, job, sources, stale,
                   scanned, snapshot, project, view, outerVars, watching>>

\* publish_diagnostics, under the first lock
TakeSnapshot ==
    /\ pc = "snapshot"
    /\ IF queue # << >>
       THEN /\ Request(wanted, pending)
            /\ UNCHANGED <<edited, snapshot>>
       ELSE /\ edited' = FALSE
            /\ snapshot' = docs
            /\ pc' = "gather"
            /\ UNCHANGED <<pending, deadline, wanted, job>>
    /\ UNCHANGED <<docs, contexts, diskFiles, queue, indexed, published,
                   sources, stale, scanned, project, view, outerVars, watching>>

\* publish_diagnostics: parse the open documents, collect the project
Gather ==
    /\ pc = "gather"
    /\ project' = ProjectFiles(contexts, docs, diskFiles,
           {p \in OpenPaths(snapshot) : PathEligible(contexts, snapshot, p)})
    /\ pc' = "publish"
    /\ UNCHANGED <<stateVars, queue, writerVars, job, sources, wanted, stale,
                   scanned, snapshot, view, outerVars, watching>>

\* publish_diagnostics, the end: an edit since the snapshot discards the
\* result and requests the paths again; otherwise every checked file is
\* published and recorded
Publish ==
    /\ pc = "publish"
    /\ IF edited
       THEN /\ Request(wanted, pending)
            /\ UNCHANGED <<published, stale, view>>
       ELSE LET out == Outgoing(snapshot, project)
            IN  /\ view' = [u \in Uris |->
                       IF /\ PathOf[u] \in out
                          /\ u \in Destinations(snapshot, PathOf[u])
                       THEN Shows(contexts, snapshot, project, u)
                       ELSE view[u]]
                /\ published' = [p \in Paths |->
                       IF p \in out
                       THEN {u \in Destinations(snapshot, p) :
                                Shows(contexts, snapshot, project, u)}
                       ELSE published[p]]
                /\ stale' = UNION {published[p] \ Destinations(snapshot, p) :
                                      p \in out}
                /\ pc' = "reconcile"
                /\ UNCHANGED <<pending, deadline, wanted, job>>
    /\ snapshot' = NoDocuments
    /\ project' = [p \in Paths |-> NoText]
    /\ UNCHANGED <<stateVars, queue, indexed, sources, scanned, outerVars,
                   watching>>

\* The requested paths that are not analysed.
Refused == {p \in wanted : ~ AnyEligible(contexts, docs, p)}

\* The tracked paths that are no longer eligible, open or indexed.
DroppedNever == {}                                             \* a mutant
Dropped ==
    {p \in Paths :
        /\ published[p] # {}
        /\ \/ ~ AnyEligible(contexts, docs, p)
           \/ ~ IsOpen(docs, p) /\ diskFiles[p] = NoText}

\* reconcile: clear what this pass stopped publishing, requested paths that
\* are not analysed, and tracked paths no longer eligible, open or indexed
Reconcile ==
    /\ pc = "reconcile"
    /\ published' = [p \in Paths |->
                        IF p \in Dropped THEN {} ELSE published[p]]
    /\ view' = Cleared(stale
                  \cup (UNION {Destinations(docs, p) : p \in Refused})
                  \cup (UNION {published[p] : p \in Dropped}))
    /\ Finish
    /\ UNCHANGED <<stateVars, queue, pending, deadline, indexed, sources,
                   scanned, snapshot, project, outerVars, watching>>

WriterStep ==
    \/ TakePublish \/ TakeClosedShared \/ TakeClosed \/ TakeConfigure
    \/ TakeFolders \/ TakeWatched \/ TakeShutdown
    \/ Reload \/ ChangeFolders \/ RefreshWatchers \/ Rescan \/ InstallScan
    \/ AfterScan \/ RefreshEntry \/ AfterRefresh \/ FinishClose
    \/ StartPass \/ TakeSnapshot \/ Gather \/ Publish \/ Reconcile
==============================================================================
