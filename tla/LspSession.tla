----------------------------- MODULE LspSession ------------------------------
(***************************************************************************)
(* A session of the language server: the handlers (backend/handlers.rs)    *)
(* that change the open documents and queue work, the index writer, the    *)
(* client that shows the published findings and watches files, and the     *)
(* disk.  A handler's critical section is one action: it holds the state   *)
(* lock while it changes the documents and queues the work that follows.   *)
(***************************************************************************)
EXTENDS IndexWriter

CONSTANTS
    MaxQueue,        \* bound: items of work in the channel
    Scenarios        \* what may happen in a session, and where it starts

\* The operations of the client and the disk.
Operations == {"open", "change", "close", "settings", "folders", "shutdown",
               "write", "config", "metadata"}

\* What a behaviour may do: the operations in play, a bound on how many of
\* them it takes, and the names and texts they are about.
Budgets == [ops : SUBSET Operations, left : Nat,
            uris : SUBSET Uris, texts : SUBSET Texts]

\* A scenario adds the workspace folders of the initialize request and the
\* disks a session can start on.
ASSUME SessionAssumption ==
    /\ MaxQueue \in Nat \ {0}
    /\ \A s \in Scenarios :
          /\ s.budget \in Budgets
          /\ s.folders \subseteq Roots
          /\ s.disks \subseteq [Paths -> Texts \cup {NoText}]

VARIABLES
    budget,     \* what the behaviour may still do
    session,    \* "starting", "running" once initialized, "ending"
    folders,    \* the client's workspace folders
    events      \* file events the client has not delivered

clientVars == <<budget, session, folders, events>>
vars == <<stateVars, queue, writerVars, pc, job, localVars, view, outerVars,
          watching, clientVars>>

NoEvents == [sources |-> {}, config |-> FALSE, metadata |-> FALSE]
Configs == [valid : {TRUE}, exclude : Excludes]
              \cup {[valid |-> FALSE, exclude |-> {}]}
Document == [uri : Uris, text : Texts]

Init ==
    /\ docs = NoDocuments
    /\ edited = FALSE
    /\ config = [r \in Roots |-> [valid |-> TRUE, exclude |-> {}]]
    /\ diskFiles = [p \in Paths |-> NoText]
    /\ queue = << >>
    /\ pending = {} /\ deadline = FALSE /\ indexed = FALSE
    /\ published = [p \in Paths |-> {}]
    /\ pc = "idle" /\ job = NoWork
    /\ sources = {} /\ wanted = {} /\ stale = {}
    /\ scanned = [p \in Paths |-> NoText]
    /\ snapshot = NoDocuments
    /\ project = [p \in Paths |-> NoText]
    /\ view = [u \in Uris |-> FALSE]
    /\ watching = FALSE /\ answered = FALSE
    /\ \E s \in Scenarios :
          /\ budget = s.budget
          /\ disk \in s.disks
          /\ folders = s.folders
          /\ contexts = [r \in s.folders |-> {}]
    /\ session = "starting"
    /\ events = NoEvents

-----------------------------------------------------------------------------
(* Handlers                                                                *)

Send(work) == Len(queue) < MaxQueue /\ queue' = Append(queue, work)

Spend(op) ==
    /\ op \in budget.ops /\ budget.left > 0 /\ session # "ending"
    /\ budget' = [budget EXCEPT !.left = @ - 1]

\* What a handler does not touch
HandlerFrame ==
    UNCHANGED <<contexts, diskFiles, writerVars, pc, job, localVars, view,
                outerVars, watching, folders, events>>

DidOpen(u, text) ==
    /\ Spend("open") /\ ~ IsOpenUri(docs, u)
    /\ docs' = PutDocument(docs, [uri |-> u, text |-> text])
    /\ edited' = TRUE
    /\ Send([kind |-> "publish", path |-> PathOf[u]])
    /\ HandlerFrame /\ UNCHANGED session

\* did_change, when a change of the batch applied
DidChange(u, text) ==
    /\ Spend("change") /\ IsOpenUri(docs, u)
    /\ DocumentOf(docs, u).text # text
    /\ docs' = PutDocument(docs, [uri |-> u, text |-> text])
    /\ edited' = TRUE
    /\ Send([kind |-> "publish", path |-> PathOf[u]])
    /\ HandlerFrame /\ UNCHANGED session

\* A mutant: a close does not move diag_generation.
DidCloseUnnoticed(u) ==
    /\ Spend("close") /\ IsOpenUri(docs, u)
    /\ docs' = CloseDocument(docs, u)
    /\ Send([kind |-> "closed", uri |-> u, path |-> PathOf[u],
             shared |-> IsOpen(docs', PathOf[u])])
    /\ HandlerFrame /\ UNCHANGED <<edited, session>>

DidClose(u) ==
    /\ Spend("close") /\ IsOpenUri(docs, u)
    /\ docs' = CloseDocument(docs, u)
    /\ edited' = TRUE
    /\ Send([kind |-> "closed", uri |-> u, path |-> PathOf[u],
             shared |-> IsOpen(docs', PathOf[u])])
    /\ HandlerFrame /\ UNCHANGED session

\* initialized: the first Configure
Initialized ==
    /\ session = "starting"
    /\ session' = "running"
    /\ Send([kind |-> "configure"])
    /\ HandlerFrame /\ UNCHANGED <<docs, edited, budget>>

DidChangeConfiguration ==
    /\ Spend("settings") /\ session = "running"
    /\ Send([kind |-> "configure"])
    /\ HandlerFrame /\ UNCHANGED <<docs, edited, session>>

DidChangeWorkspaceFolders(added, removed) ==
    /\ Spend("folders") /\ session = "running"
    /\ added \cup removed # {}
    /\ added \cap folders = {} /\ removed \subseteq folders
    /\ folders' = (folders \ removed) \cup added
    /\ Send([kind |-> "folders", added |-> added, removed |-> removed])
    /\ UNCHANGED <<stateVars, writerVars, pc, job, localVars, view, outerVars,
                   watching, session, events>>

\* did_change_watched_files: the client delivers the events it collected
DidChangeWatchedFiles ==
    /\ events # NoEvents /\ session = "running"
    /\ Send([kind |-> "watched", sources |-> events.sources,
             config |-> events.config, metadata |-> events.metadata])
    /\ events' = NoEvents
    /\ UNCHANGED <<stateVars, writerVars, pc, job, localVars, view, outerVars,
                   watching, budget, session, folders>>

\* shutdown: the client sends nothing after it
Shutdown ==
    /\ Spend("shutdown") /\ session = "running"
    /\ session' = "ending"
    /\ Send([kind |-> "shutdown"])
    /\ HandlerFrame /\ UNCHANGED <<docs, edited>>

-----------------------------------------------------------------------------
(* The disk and the client's file watcher                                  *)

Notice(event) == events' = IF watching THEN event ELSE events

DiskFrame ==
    UNCHANGED <<stateVars, queue, writerVars, pc, job, localVars, view,
                watching, answered, session, folders>>

\* A file is created, written or deleted
WriteFile(p, text) ==
    /\ Spend("write") /\ disk[p] # text
    /\ disk' = [disk EXCEPT ![p] = text]
    /\ Notice([events EXCEPT !.sources = @ \cup {p}])
    /\ DiskFrame /\ UNCHANGED config

\* A ry.toml or the baseline it names changes.  Before the files are watched
\* such a change goes unnoticed until the next reload: Work::Configure reads
\* the configuration before it registers the watcher.
WriteConfig(r, value) ==
    /\ Spend("config") /\ config[r] # value
    /\ watching
    /\ config' = [config EXCEPT ![r] = value]
    /\ Notice([events EXCEPT !.config = TRUE])
    /\ DiskFrame /\ UNCHANGED disk

\* A DESCRIPTION, NAMESPACE, native source or data file changes
WriteMetadata ==
    /\ Spend("metadata") /\ watching
    /\ Notice([events EXCEPT !.metadata = TRUE])
    /\ DiskFrame /\ UNCHANGED <<disk, config>>

ClientStep ==
    \/ \E u \in budget.uris, text \in budget.texts :
          DidOpen(u, text) \/ DidChange(u, text)
    \/ \E u \in Uris : DidClose(u)
    \/ Initialized \/ DidChangeConfiguration \/ DidChangeWatchedFiles
    \/ Shutdown
    \/ \E added, removed \in SUBSET Roots :
          DidChangeWorkspaceFolders(added, removed)

DiskStep ==
    \/ \E p \in Paths, text \in budget.texts \cup {NoText} :
          WriteFile(p, text)
    \/ \E r \in Roots, value \in Configs : WriteConfig(r, value)
    \/ WriteMetadata

Next == ClientStep \/ DiskStep \/ (WriterStep /\ UNCHANGED clientVars)

Spec == Init /\ [][Next]_vars

\* The runtime polls the writer, and the client says it is initialized and
\* delivers its file events; nothing obliges it to do anything else.
Fairness ==
    /\ WF_vars(WriterStep /\ UNCHANGED clientVars)
    /\ WF_vars(Initialized)
    /\ WF_vars(DidChangeWatchedFiles)

FairSpec == Spec /\ Fairness

-----------------------------------------------------------------------------
(* Properties                                                              *)

Files == [Paths -> Texts \cup {NoText}]
WriterPoints ==
    {"idle", "reload", "folders", "watchers", "scan", "install", "scanned",
     "refresh", "snapshot", "gather", "publish", "reconcile", "stopped"}
PassPoints == {"gather", "publish"}

\* Every variable has its type, and a document is open once, below its path.
TypeOK ==
    /\ docs \in DocumentMaps(Document) /\ WellKeyed(docs)
    /\ edited \in BOOLEAN
    /\ DOMAIN contexts \subseteq Roots
    /\ contexts \in [DOMAIN contexts -> Excludes]
    /\ diskFiles \in Files
    /\ queue \in Seq(Work)
    /\ pending \subseteq Paths /\ deadline \in BOOLEAN /\ indexed \in BOOLEAN
    /\ published \in [Paths -> SUBSET Uris]
    /\ pc \in WriterPoints
    /\ job \in Work \cup {NoWork}
    /\ sources \subseteq Paths /\ wanted \subseteq Paths /\ stale \subseteq Uris
    /\ scanned \in Files
    /\ snapshot \in DocumentMaps(Document)
    /\ project \in Files
    /\ view \in [Uris -> BOOLEAN]
    /\ disk \in Files
    /\ config \in [Roots -> Configs]
    /\ watching \in BOOLEAN /\ answered \in BOOLEAN
    /\ budget \in Budgets
    /\ session \in {"starting", "running", "ending"}
    /\ folders \subseteq Roots
    /\ events \in [sources : SUBSET Paths, config : BOOLEAN,
                    metadata : BOOLEAN]

\* Nothing is under way and nothing is owed.
Quiescent ==
    /\ session = "running" /\ indexed
    /\ pc = "idle" /\ queue = << >> /\ pending = {}
    /\ events = NoEvents

\* What a server started on the present disk, folders and documents shows.
FreshView ==
    LET ctxs == [r \in folders |-> LoadConfig(config[r], {})]
        files == ProjectFiles(ctxs, docs, Walk(ctxs, disk),
            {p \in OpenPaths(docs) : PathEligible(ctxs, docs, p)})
    IN  [u \in Uris |->
            /\ PathOf[u] \in Outgoing(docs, files)
            /\ Shows(ctxs, docs, files, u)]

(* Once every event is handled, the client shows what a fresh server       *)
(* would.  A document must be open, as in the repository's own session     *)
(* test: with none open a fresh server publishes nothing.                  *)
ShowsFresh ==
    /\ Quiescent
    /\ OpenPaths(docs) # {}
    /\ \A r \in Roots : config[r].valid
    => view = FreshView

(* The session converges on a fresh server's findings, whatever happens to *)
(* documents, files, settings and configurations.  Folder changes are left *)
(* to OnlyAnalysed: change_folders clears the documents of a removed       *)
(* folder and requests a pass for the others only, so without others the   *)
(* cleared ones stay without findings.                                     *)
Converged == "folders" \notin budget.ops => ShowsFresh

(* Every URI that stops being analysed gets an empty publication: once     *)
(* settled, findings show only at a URI that the diagnostics of an         *)
(* analysed path go to.                                                    *)
OnlyAnalysed ==
    Quiescent =>
        \A u \in Uris : view[u] =>
            LET p == PathOf[u]
            IN  /\ AnyEligible(contexts, docs, p)
                /\ IsOpen(docs, p) \/ diskFiles[p] # NoText
                /\ u \in Destinations(docs, p)

(* Once settled, the disk index agrees with a fresh walk about every       *)
(* closed file the server analyses, whatever path brought each entry up    *)
(* to date: a rescan, one watched event, a close, a folder change.         *)
IndexCurrent ==
    Quiescent =>
        LET ctxs == [r \in folders |-> LoadConfig(config[r], contexts[r])]
        IN  \A p \in Paths \ OpenPaths(docs) :
                Eligible(ctxs, p, NoText) =>
                    diskFiles[p] = Walk(ctxs, disk)[p]

(* The publication record and the client agree whenever the writer is      *)
(* between items: a URI shows findings exactly when published_uris tracks  *)
(* it, so a later reconciliation can clear it.                             *)
Tracked ==
    pc = "idle" =>
        \A u \in Uris : view[u] <=> u \in published[PathOf[u]]

(* A pass that has not been invalidated by diag_generation is working on   *)
(* the documents that are open now.                                        *)
SnapshotCurrent ==
    pc \in PassPoints /\ ~ edited => docs = snapshot

(* A deadline is set exactly while paths wait for a pass, so no request is *)
(* stranded and no pass runs for nothing.                                  *)
RequestsScheduled == deadline <=> pending # {}

(* Without file and configuration events, a path waits for a pass only     *)
(* while a document is open there or its close is still queued: the pass   *)
(* requested by an earlier edit cannot republish a closed file.            *)
PendingIsOpen ==
    budget.ops \cap {"write", "config", "metadata", "folders"} = {} =>
    \A p \in pending :
        \/ IsOpen(docs, p)
        \/ \E i \in 1 .. Len(queue) :
               queue[i].kind = "closed" /\ queue[i].path = p

(* Once shutdown is answered the client receives no publication.           *)
SilentAfterShutdown == [][answered => UNCHANGED view]_vars

(* Every event is eventually handled: the writer never retries a pass for  *)
(* ever and never waits on a request that no deadline covers.              *)
Settles == <>[](Quiescent \/ answered)
==============================================================================
