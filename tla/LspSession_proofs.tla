-------------------------- MODULE LspSession_proofs --------------------------
(***************************************************************************)
(* Theorems about LspSession, for every set of URIs, paths, folders and    *)
(* texts, and every bound.                                                 *)
(***************************************************************************)
EXTENDS LspSession, Documents_proofs

-----------------------------------------------------------------------------
(* Facts about work items and files                                        *)

LEMMA WorkFields ==
    ASSUME NEW w \in Work \cup {NoWork}
    PROVE  /\ w.kind = "folders" => w.added \subseteq Roots
                                    /\ w.removed \subseteq Roots
           /\ w.kind = "watched" => w.sources \subseteq Paths
           /\ w.kind = "publish" => w.path \in Paths
           /\ w.kind = "closed" => w.path \in Paths /\ w.uri \in Uris
  BY DEF Work, NoWork

LEMMA QueueHead ==
    ASSUME queue \in Seq(Work), queue # << >>
    PROVE  Head(queue) \in Work /\ Tail(queue) \in Seq(Work)
  BY HeadTailProperties

LEMMA WorkTypes ==
    /\ [kind |-> "configure"] \in Work
    /\ [kind |-> "shutdown"] \in Work
    /\ \A p \in Paths : [kind |-> "publish", path |-> p] \in Work
    /\ \A u \in Uris, p \in Paths, b \in BOOLEAN :
          [kind |-> "closed", uri |-> u, path |-> p, shared |-> b] \in Work
    /\ \A a, r \in SUBSET Roots :
          [kind |-> "folders", added |-> a, removed |-> r] \in Work
    /\ \A s \in SUBSET Paths, c, m \in BOOLEAN :
          [kind |-> "watched", sources |-> s, config |-> c, metadata |-> m]
              \in Work
  BY DEF Work

LEMMA WalkType ==
    ASSUME NEW ctxs, NEW files \in Files
    PROVE  Walk(ctxs, files) \in Files
  BY DEF Walk, Files, Readable

LEMMA ProjectType ==
    ASSUME NEW ctxs, NEW ds \in DocumentMaps(Document), NEW index \in Files,
           NEW opened
    PROVE  ProjectFiles(ctxs, ds, index, opened) \in Files
<1>1. ASSUME NEW p \in Paths, IsOpen(ds, p)
      PROVE  Active(ds, p).text \in Texts
  <2>1. ds[p] \in Seq(Document) /\ ds[p] # << >>
    BY <1>1 DEF DocumentMaps, IsOpen
  <2>2. Len(ds[p]) \in 1 .. Len(ds[p])
    BY <2>1
  <2>3. ds[p][Len(ds[p])] \in Document
    BY <2>1, <2>2
  <2> QED
    BY <2>3 DEF Active, Document
<1> QED
  BY <1>1 DEF ProjectFiles, Files

LEMMA UrisAtType ==
    ASSUME NEW ds \in DocumentMaps(Document), NEW p \in Paths
    PROVE  UrisAt(ds, p) \subseteq Uris /\ Destinations(ds, p) \subseteq Uris
<1>1. ds[p] \in Seq(Document)
  BY DEF DocumentMaps
<1>2. \A i \in 1 .. Len(ds[p]) : ds[p][i] \in Document
  BY <1>1
<1>3. \A i \in 1 .. Len(ds[p]) : ds[p][i].uri \in Uris
  BY <1>2 DEF Document
<1> QED
  BY <1>3, UriAssumption DEF UrisAt, Destinations

-----------------------------------------------------------------------------
(* Type correctness                                                        *)

\* change_folders is in hand while its contexts load.
JobInHand == pc = "folders" => job.kind = "folders"

TypeInv == TypeOK /\ JobInHand

LEMMA InitType == Init => TypeInv
<1> SUFFICES ASSUME Init PROVE TypeInv
  OBVIOUS
<1> PICK s \in Scenarios :
          /\ budget = s.budget
          /\ disk \in s.disks
          /\ folders = s.folders
          /\ contexts = [r \in s.folders |-> {}]
  BY DEF Init
<1>1. /\ NoDocuments \in DocumentMaps(Document)
      /\ WellKeyed(NoDocuments)
  BY DEF NoDocuments, DocumentMaps, WellKeyed
<1>2. /\ DOMAIN contexts \subseteq Roots
      /\ contexts \in [DOMAIN contexts -> Excludes]
  BY SessionAssumption, FolderAssumption
<1>3. config \in [Roots -> Configs]
  BY FolderAssumption DEF Init, Configs
<1>4. disk \in Files
  BY SessionAssumption DEF Files
<1>5. /\ diskFiles \in Files /\ scanned \in Files /\ project \in Files
      /\ published \in [Paths -> SUBSET Uris]
      /\ view \in [Uris -> BOOLEAN]
  BY DEF Init, Files
<1>6. queue \in Seq(Work) /\ job \in Work \cup {NoWork}
  BY DEF Init
<1>7. /\ budget \in Budgets
      /\ folders \subseteq Roots
      /\ events \in [sources : SUBSET Paths, config : BOOLEAN,
                     metadata : BOOLEAN]
  BY SessionAssumption DEF Init, NoEvents
<1>8. /\ pc \in WriterPoints /\ JobInHand
      /\ edited \in BOOLEAN /\ deadline \in BOOLEAN /\ indexed \in BOOLEAN
      /\ watching \in BOOLEAN /\ answered \in BOOLEAN
      /\ session \in {"starting", "running", "ending"}
      /\ pending \subseteq Paths /\ sources \subseteq Paths
      /\ wanted \subseteq Paths /\ stale \subseteq Uris
      /\ docs = NoDocuments /\ snapshot = NoDocuments
  BY DEF Init, WriterPoints, JobInHand
<1> QED
  BY <1>1, <1>2, <1>3, <1>4, <1>5, <1>6, <1>7, <1>8 DEF TypeInv, TypeOK

\* The writer's steps that receive work, up to the point where they wait.
LEMMA ReceiveKeepsTypes ==
    TypeInv /\ UNCHANGED clientVars
    /\ (\/ TakePublish \/ TakeClosedShared \/ TakeClosed \/ TakeConfigure
        \/ TakeFolders \/ TakeWatched \/ TakeShutdown)
    => TypeInv'
<1> SUFFICES ASSUME TypeInv, UNCHANGED clientVars, queue # << >>,
                    \/ TakePublish \/ TakeClosedShared \/ TakeClosed
                    \/ TakeConfigure \/ TakeFolders \/ TakeWatched
                    \/ TakeShutdown
             PROVE  TypeInv'
  BY DEF Receives, TakePublish, TakeClosedShared, TakeClosed, TakeConfigure,
         TakeFolders, TakeWatched, TakeShutdown
<1>1. Head(queue) \in Work /\ Tail(queue) \in Seq(Work)
  BY QueueHead DEF TypeInv, TypeOK
<1>2. CASE TakePublish
  <2>1. Head(queue).path \in Paths
    BY <1>1, <1>2, WorkFields DEF TakePublish, Receives
  <2> QED
    BY <1>1, <1>2, <2>1
    DEF TakePublish, Receives, Request, WriterPoints,
        TypeInv, TypeOK, JobInHand,
        stateVars, outerVars, clientVars
<1>3. CASE TakeClosedShared
  <2>1. Head(queue).path \in Paths /\ Head(queue).uri \in Uris
    BY <1>1, <1>3, WorkFields DEF TakeClosedShared, Receives
  <2> QED
    BY <1>1, <1>3, <2>1
    DEF TakeClosedShared, Receives, Request, Cleared, WriterPoints,
        TypeInv, TypeOK, JobInHand, stateVars, outerVars, clientVars
<1>4. CASE TakeClosed
  <2>1. Head(queue).path \in Paths
    BY <1>1, <1>4, WorkFields DEF TakeClosed, Receives
  <2> QED
    BY <1>1, <1>4, <2>1
    DEF TakeClosed, Receives, Forget, WriterPoints,
        TypeInv, TypeOK, JobInHand, stateVars, outerVars, clientVars
<1>5. CASE TakeConfigure
  BY <1>1, <1>5
  DEF TakeConfigure, Receives, WriterPoints, TypeInv, TypeOK, JobInHand,
      stateVars, writerVars, localVars, outerVars, clientVars
<1>6. CASE TakeFolders
  <2> DEFINE gone == UNION {Inside[r] : r \in Head(queue).removed}
  <2>1. ClearedByRemoval(gone) \subseteq Uris
    <3>1. gone \subseteq Paths
      BY <1>1, <1>6, WorkFields, FolderAssumption DEF TakeFolders, Receives
    <3>2. \A p \in Paths : UrisAt(docs, p) \cup published[p] \subseteq Uris
      BY UrisAtType DEF TypeInv, TypeOK
    <3> QED
      BY <3>1, <3>2 DEF ClearedByRemoval
  <2>2. /\ stale' = ClearedByRemoval(gone)
        /\ wanted' = OpenPaths(docs) \ gone
    BY <1>6 DEF TakeFolders
  <2> HIDE DEF gone
  <2> QED
    BY <1>1, <1>6, <2>1, <2>2
    DEF TakeFolders, Receives, WriterPoints, OpenPaths,
        TypeInv, TypeOK, JobInHand, stateVars, writerVars, outerVars,
        clientVars
<1>7. CASE TakeWatched
  <2>1. Head(queue).sources \subseteq Paths
    BY <1>1, <1>7, WorkFields DEF TakeWatched, Receives
  <2> QED
    BY <1>1, <1>7, <2>1
    DEF TakeWatched, Receives, WriterPoints, TypeInv, TypeOK, JobInHand,
        stateVars, writerVars, outerVars, clientVars
<1>8. CASE TakeShutdown
  BY <1>1, <1>8
  DEF TakeShutdown, Receives, WriterPoints, TypeInv, TypeOK, JobInHand,
      stateVars, writerVars, localVars, clientVars
<1> QED
  BY <1>2, <1>3, <1>4, <1>5, <1>6, <1>7, <1>8

\* The writer's steps inside a work item.
LEMMA WorkKeepsTypes ==
    TypeInv /\ UNCHANGED clientVars
    /\ (\/ Reload \/ ChangeFolders \/ RefreshWatchers \/ Rescan
        \/ InstallScan \/ AfterScan \/ RefreshEntry \/ AfterRefresh
        \/ FinishClose)
    => TypeInv'
<1> SUFFICES ASSUME TypeInv, UNCHANGED clientVars,
                    \/ Reload \/ ChangeFolders \/ RefreshWatchers \/ Rescan
                    \/ InstallScan \/ AfterScan \/ RefreshEntry
                    \/ AfterRefresh \/ FinishClose
             PROVE  TypeInv'
  OBVIOUS
<1>1. \A r \in Roots : \A previous \in Excludes :
         LoadConfig(config[r], previous) \in Excludes
  <2>1. \A c \in Configs : c.exclude \in Excludes
    <3>1. \A c \in [valid : {TRUE}, exclude : Excludes] :
             c.exclude \in Excludes
      OBVIOUS
    <3>2. [valid |-> FALSE, exclude |-> {}].exclude \in Excludes
      BY FolderAssumption
    <3> QED
      BY <3>1, <3>2 DEF Configs
  <2>2. \A r \in Roots : config[r] \in Configs
    BY DEF TypeInv, TypeOK
  <2> QED
    BY <2>1, <2>2 DEF LoadConfig
<1>2. CASE Reload
  <2>1. /\ DOMAIN contexts' \subseteq Roots
        /\ contexts' \in [DOMAIN contexts' -> Excludes]
    BY <1>1, <1>2 DEF Reload, TypeInv, TypeOK
  <2> QED
    BY <1>2, <2>1
    DEF Reload, WriterPoints, TypeInv, TypeOK, JobInHand,
        writerVars, localVars, outerVars, clientVars
<1>3. CASE ChangeFolders
  <2>1. job.added \subseteq Roots
    BY <1>3, WorkFields DEF ChangeFolders, TypeInv, TypeOK, JobInHand
  <2>2. /\ DOMAIN contexts' \subseteq Roots
        /\ contexts' \in [DOMAIN contexts' -> Excludes]
    BY <1>1, <1>3, <2>1, FolderAssumption DEF ChangeFolders, TypeInv, TypeOK
  <2>3. diskFiles' \in Files /\ published' \in [Paths -> SUBSET Uris]
    BY <1>3 DEF ChangeFolders, Files, TypeInv, TypeOK
  <2> QED
    BY <1>3, <2>2, <2>3
    DEF ChangeFolders, WriterPoints, TypeInv, TypeOK, JobInHand,
        localVars, outerVars, clientVars
<1>4. CASE RefreshWatchers
  BY <1>4
  DEF RefreshWatchers, WriterPoints, TypeInv, TypeOK, JobInHand,
      stateVars, writerVars, localVars, outerVars, clientVars
<1>5. CASE Rescan
  <2>1. scanned' \in Files
    BY <1>5, WalkType DEF Rescan, TypeInv, TypeOK
  <2> QED
    BY <1>5, <2>1
    DEF Rescan, WriterPoints, TypeInv, TypeOK, JobInHand,
        stateVars, outerVars, clientVars
<1>6. CASE InstallScan
  BY <1>6
  DEF InstallScan, WriterPoints, Files, TypeInv, TypeOK, JobInHand,
      writerVars, outerVars, clientVars
<1>7. CASE AfterScan
  <2>1. view' \in [Uris -> BOOLEAN] /\ stale' \subseteq Uris
    BY <1>7 DEF AfterScan, Cleared, TypeInv, TypeOK
  <2>2. \E paths \in SUBSET Paths : Request(paths, pending)
    BY <1>7 DEF AfterScan, OpenPaths, TypeInv, TypeOK
  <2> QED
    BY <1>7, <2>1, <2>2
    DEF AfterScan, Request, WriterPoints, TypeInv, TypeOK, JobInHand,
        stateVars, outerVars, clientVars
<1>8. CASE RefreshEntry
  <2>1. /\ diskFiles' \in Files
        /\ sources' \subseteq Paths /\ wanted' \subseteq Paths
    BY <1>8 DEF RefreshEntry, Files, Readable, TypeInv, TypeOK
  <2> QED
    BY <1>8, <2>1
    DEF RefreshEntry, WriterPoints, TypeInv, TypeOK, JobInHand,
        writerVars, outerVars, clientVars
<1>9. CASE AfterRefresh
  BY <1>9
  DEF AfterRefresh, Request, Finish, OpenPaths, WriterPoints, TypeInv, TypeOK,
      JobInHand, stateVars, outerVars, clientVars
<1>10. CASE FinishClose
  BY <1>10
  DEF FinishClose, Request, Finish, Cleared, OpenPaths, WriterPoints, TypeInv,
      TypeOK, JobInHand, stateVars, outerVars, clientVars
<1> QED
  BY <1>2, <1>3, <1>4, <1>5, <1>6, <1>7, <1>8, <1>9, <1>10

\* The writer's steps in a publication pass.
LEMMA PassKeepsTypes ==
    TypeInv /\ UNCHANGED clientVars
    /\ (\/ StartPass \/ TakeSnapshot \/ Gather \/ Publish \/ Reconcile)
    => TypeInv'
<1> SUFFICES ASSUME TypeInv, UNCHANGED clientVars,
                    \/ StartPass \/ TakeSnapshot \/ Gather \/ Publish
                    \/ Reconcile
             PROVE  TypeInv'
  OBVIOUS
<1>1. \A p \in Paths : UrisAt(docs, p) \subseteq Uris
                       /\ Destinations(docs, p) \subseteq Uris
                       /\ Destinations(snapshot, p) \subseteq Uris
  BY UrisAtType DEF TypeInv, TypeOK
<1>2. CASE StartPass
  BY <1>2
  DEF StartPass, WriterPoints, TypeInv, TypeOK, JobInHand, stateVars,
      outerVars, clientVars
<1>3. CASE TakeSnapshot
  BY <1>3
  DEF TakeSnapshot, Request, WriterPoints, TypeInv, TypeOK, JobInHand,
      outerVars, clientVars
<1>4. CASE Gather
  <2>1. project' \in Files
    BY <1>4, ProjectType DEF Gather, TypeInv, TypeOK
  <2> QED
    BY <1>4, <2>1
    DEF Gather, WriterPoints, TypeInv, TypeOK, JobInHand, stateVars,
        writerVars, outerVars, clientVars
<1>5. CASE Publish
  <2>1. snapshot' \in DocumentMaps(Document) /\ project' \in Files
    BY <1>5 DEF Publish, NoDocuments, DocumentMaps, Files
  <2>2. /\ view' \in [Uris -> BOOLEAN]
        /\ published' \in [Paths -> SUBSET Uris]
        /\ stale' \subseteq Uris
    <3>1. \A ctxs, ds, files, u : Shows(ctxs, ds, files, u) \in BOOLEAN
      BY DEF Shows
    <3>2. CASE edited
      BY <1>5, <3>2 DEF Publish, Request, TypeInv, TypeOK
    <3>3. CASE ~ edited
      <4>1. view' \in [Uris -> BOOLEAN]
        BY <1>5, <3>1, <3>3 DEF Publish, TypeInv, TypeOK
      <4>2. published' \in [Paths -> SUBSET Uris]
        BY <1>1, <1>5, <3>3 DEF Publish, TypeInv, TypeOK
      <4>3. stale' \subseteq Uris
        BY <1>5, <3>3 DEF Publish, Outgoing, TypeInv, TypeOK
      <4> QED
        BY <4>1, <4>2, <4>3
    <3> QED
      BY <3>2, <3>3
  <2> QED
    BY <1>5, <2>1, <2>2
    DEF Publish, Request, WriterPoints, TypeInv, TypeOK, JobInHand,
        stateVars, outerVars, clientVars
<1>6. CASE Reconcile
  <2>1. /\ view' \in [Uris -> BOOLEAN]
        /\ published' \in [Paths -> SUBSET Uris]
    BY <1>6 DEF Reconcile, Cleared, TypeInv, TypeOK
  <2> QED
    BY <1>6, <2>1
    DEF Reconcile, Finish, WriterPoints, TypeInv, TypeOK, JobInHand,
        stateVars, outerVars, clientVars
<1> QED
  BY <1>2, <1>3, <1>4, <1>5, <1>6

\* The handlers, the client and the disk.
LEMMA HandlersKeepTypes ==
    TypeInv /\ (ClientStep \/ DiskStep) => TypeInv'
<1> SUFFICES ASSUME TypeInv, ClientStep \/ DiskStep
             PROVE  TypeInv'
  OBVIOUS
<1> DEFINE EventTypes == [sources : SUBSET Paths, config : BOOLEAN,
                          metadata : BOOLEAN]
<1>1. /\ \A w \in Work : Append(queue, w) \in Seq(Work)
      /\ \A u \in Uris : PathOf[u] \in Paths
  BY UriAssumption DEF TypeInv, TypeOK
<1>2. \A op : Spend(op) => budget' \in Budgets
  BY DEF Spend, Budgets, TypeInv, TypeOK
<1>3. events \in EventTypes
  BY DEF TypeInv, TypeOK
<1>4. /\ \A p \in Paths : [events EXCEPT !.sources = @ \cup {p}] \in EventTypes
      /\ [events EXCEPT !.config = TRUE] \in EventTypes
      /\ [events EXCEPT !.metadata = TRUE] \in EventTypes
  BY <1>3
<1> HIDE DEF EventTypes
<1>5. ASSUME NEW u \in budget.uris, NEW text \in budget.texts,
             DidOpen(u, text) \/ DidChange(u, text)
      PROVE  TypeInv'
  <2>0. u \in Uris /\ text \in Texts
    BY DEF TypeInv, TypeOK, Budgets
  <2> DEFINE doc == [uri |-> u, text |-> text]
  <2>1. doc \in Document /\ doc.uri \in Uris
    BY <2>0 DEF Document
  <2>2. docs' \in DocumentMaps(Document) /\ WellKeyed(docs')
    <3>1. docs' = PutDocument(docs, doc)
      BY <1>5 DEF DidOpen, DidChange
    <3> QED
      BY <2>1, <3>1, PutType, PutKeepsKeys DEF TypeInv, TypeOK
  <2>3. queue' \in Seq(Work)
    BY <1>1, <1>5, <2>0, WorkTypes DEF DidOpen, DidChange, Send
  <2>4. budget' \in Budgets /\ edited' = TRUE
    BY <1>2, <1>5 DEF DidOpen, DidChange
  <2>5. HandlerFrame /\ UNCHANGED session
    BY <1>5 DEF DidOpen, DidChange
  <2> QED
    BY <2>2, <2>3, <2>4, <2>5
    DEF HandlerFrame, TypeInv, TypeOK, JobInHand, writerVars, localVars,
        outerVars
<1>6. ASSUME NEW u \in Uris, DidClose(u)
      PROVE  TypeInv'
  <2>1. docs' \in DocumentMaps(Document) /\ WellKeyed(docs')
    <3>1. docs \in DocumentMaps(Document) /\ WellKeyed(docs)
      BY DEF TypeInv, TypeOK
    <3>2. docs' = CloseDocument(docs, u)
      BY <1>6 DEF DidClose
    <3> QED
      BY <3>1, <3>2, CloseType, CloseKeepsKeys
  <2>2. queue' \in Seq(Work)
    BY <1>1, <1>6, WorkTypes DEF DidClose, Send, IsOpen
  <2>3. budget' \in Budgets /\ edited' = TRUE
    BY <1>2, <1>6 DEF DidClose
  <2>4. HandlerFrame /\ UNCHANGED session
    BY <1>6 DEF DidClose
  <2> QED
    BY <2>1, <2>2, <2>3, <2>4
    DEF HandlerFrame, TypeInv, TypeOK, JobInHand, writerVars, localVars,
        outerVars
<1>7. CASE Initialized \/ DidChangeConfiguration \/ Shutdown
  <2>1. queue' \in Seq(Work)
    BY <1>1, <1>7, WorkTypes
    DEF Initialized, DidChangeConfiguration, Shutdown, Send
  <2>2. /\ budget' \in Budgets
        /\ session' \in {"starting", "running", "ending"}
    BY <1>2, <1>7
    DEF Initialized, DidChangeConfiguration, Shutdown, TypeInv, TypeOK
  <2>3. HandlerFrame /\ UNCHANGED <<docs, edited>>
    BY <1>7 DEF Initialized, DidChangeConfiguration, Shutdown
  <2> QED
    BY <2>1, <2>2, <2>3
    DEF HandlerFrame, TypeInv, TypeOK, JobInHand, writerVars, localVars,
        outerVars
<1>8. CASE DidChangeWatchedFiles
  <2>1. queue' \in Seq(Work)
    <3>1. [kind |-> "watched", sources |-> events.sources,
           config |-> events.config, metadata |-> events.metadata] \in Work
      BY <1>3, WorkTypes DEF EventTypes
    <3> QED
      BY <1>1, <1>8, <3>1 DEF DidChangeWatchedFiles, Send
  <2>2. events' \in EventTypes
    BY <1>8 DEF DidChangeWatchedFiles, NoEvents, EventTypes
  <2> QED
    BY <1>8, <2>1, <2>2
    DEF DidChangeWatchedFiles, EventTypes, TypeInv, TypeOK, JobInHand,
        stateVars, writerVars, localVars, outerVars
<1>9. ASSUME NEW added \in SUBSET Roots, NEW removed \in SUBSET Roots,
             DidChangeWorkspaceFolders(added, removed)
      PROVE  TypeInv'
  <2>1. queue' \in Seq(Work)
    BY <1>1, <1>9, WorkTypes DEF DidChangeWorkspaceFolders, Send
  <2>2. budget' \in Budgets /\ folders' \subseteq Roots
    BY <1>2, <1>9 DEF DidChangeWorkspaceFolders, TypeInv, TypeOK
  <2>3. UNCHANGED <<stateVars, writerVars, pc, job, localVars, view,
                    outerVars, watching, session, events>>
    BY <1>9 DEF DidChangeWorkspaceFolders
  <2> QED
    BY <2>1, <2>2, <2>3
    DEF TypeInv, TypeOK, JobInHand, stateVars, writerVars, localVars,
        outerVars
<1>10. CASE DiskStep
  <2>1. disk' \in Files /\ config' \in [Roots -> Configs]
    <3>1. disk \in Files /\ config \in [Roots -> Configs]
      BY DEF TypeInv, TypeOK
    <3>2. ASSUME NEW p \in Paths, NEW text \in budget.texts \cup {NoText},
                 WriteFile(p, text)
          PROVE  disk' \in Files /\ UNCHANGED config
      <4>1. text \in Texts \cup {NoText}
        BY DEF TypeInv, TypeOK, Budgets
      <4> QED
        BY <3>1, <3>2, <4>1 DEF WriteFile, Files
    <3>3. ASSUME NEW r \in Roots, NEW value \in Configs,
                 WriteConfig(r, value)
          PROVE  config' \in [Roots -> Configs] /\ UNCHANGED disk
      BY <3>1, <3>3 DEF WriteConfig
    <3>4. CASE WriteMetadata
      BY <3>1, <3>4 DEF WriteMetadata
    <3> QED
      BY <1>10, <3>1, <3>2, <3>3, <3>4 DEF DiskStep
  <2>2. budget' \in Budgets /\ events' \in EventTypes
    <3>1. \E op : Spend(op)
      BY <1>10 DEF DiskStep, WriteFile, WriteConfig, WriteMetadata
    <3>2. \/ \E p \in Paths : Notice([events EXCEPT !.sources = @ \cup {p}])
          \/ Notice([events EXCEPT !.config = TRUE])
          \/ Notice([events EXCEPT !.metadata = TRUE])
      BY <1>10 DEF DiskStep, WriteFile, WriteConfig, WriteMetadata
    <3> QED
      BY <1>2, <1>3, <1>4, <3>1, <3>2 DEF Notice
  <2>3. DiskFrame
    BY <1>10 DEF DiskStep, WriteFile, WriteConfig, WriteMetadata
  <2> QED
    BY <2>1, <2>2, <2>3
    DEF DiskFrame, EventTypes, TypeInv, TypeOK, JobInHand, stateVars,
        writerVars, localVars
<1> QED
  BY <1>5, <1>6, <1>7, <1>8, <1>9, <1>10 DEF ClientStep

LEMMA TypeInvariant == Spec => []TypeInv
<1>1. TypeInv /\ [Next]_vars => TypeInv'
  <2> SUFFICES ASSUME TypeInv, [Next]_vars
               PROVE  TypeInv'
    OBVIOUS
  <2>1. CASE ClientStep \/ DiskStep
    BY <2>1, HandlersKeepTypes
  <2>2. CASE WriterStep /\ UNCHANGED clientVars
    BY <2>2, ReceiveKeepsTypes, WorkKeepsTypes, PassKeepsTypes DEF WriterStep
  <2>3. CASE UNCHANGED vars
    BY <2>3
    DEF vars, stateVars, writerVars, localVars, outerVars, clientVars,
        TypeInv, TypeOK, JobInHand
  <2> QED
    BY <2>1, <2>2, <2>3 DEF Next
<1> QED
  BY <1>1, InitType, PTL DEF Spec

(* Every reachable state of a session is well typed, and a URI is open at  *)
(* most once, below its own path: open, change and close in any order      *)
(* never leave two entries for one URI.                                    *)
THEOREM TypeCorrect == Spec => []TypeOK
<1>1. TypeInv => TypeOK
  BY DEF TypeInv
<1> QED
  BY <1>1, TypeInvariant, PTL

-----------------------------------------------------------------------------
(* Scheduling of passes                                                    *)

\* The two operations on the pending set keep a deadline set exactly while
\* paths wait.
LEMMA RequestSchedules ==
    ASSUME RequestsScheduled, NEW paths, Request(paths, pending)
    PROVE  RequestsScheduled'
  BY DEF Request, RequestsScheduled

LEMMA ForgetSchedules ==
    ASSUME RequestsScheduled, deadline \in BOOLEAN, NEW p, Forget(p)
    PROVE  RequestsScheduled'
  BY DEF Forget, RequestsScheduled

LEMMA WriterSchedules ==
    TypeInv /\ RequestsScheduled /\ WriterStep => RequestsScheduled'
<1> SUFFICES ASSUME TypeInv, RequestsScheduled, WriterStep
             PROVE  RequestsScheduled'
  OBVIOUS
<1>1. CASE UNCHANGED <<pending, deadline>>
  BY <1>1 DEF RequestsScheduled
<1>2. CASE \E paths : Request(paths, pending)
  BY <1>2, RequestSchedules
<1>3. CASE \E p : Forget(p)
  BY <1>3, ForgetSchedules DEF TypeInv, TypeOK
<1>4. CASE StartPass
  BY <1>4 DEF StartPass, RequestsScheduled
<1>5. CASE \/ TakePublish \/ TakeClosedShared \/ TakeClosed \/ TakeConfigure
           \/ TakeFolders \/ TakeWatched \/ TakeShutdown
  BY <1>1, <1>2, <1>3, <1>5
  DEF TakePublish, TakeClosedShared, TakeClosed, TakeConfigure, TakeFolders,
      TakeWatched, TakeShutdown, writerVars
<1>6. CASE \/ Reload \/ ChangeFolders \/ RefreshWatchers \/ Rescan
           \/ InstallScan \/ AfterScan \/ RefreshEntry \/ AfterRefresh
           \/ FinishClose
  BY <1>1, <1>2, <1>6
  DEF Reload, ChangeFolders, RefreshWatchers, Rescan, InstallScan, AfterScan,
      RefreshEntry, AfterRefresh, FinishClose, writerVars
<1>7. CASE TakeSnapshot \/ Gather \/ Publish \/ Reconcile
  BY <1>1, <1>2, <1>7
  DEF TakeSnapshot, Gather, Publish, Reconcile, writerVars
<1> QED
  BY <1>4, <1>5, <1>6, <1>7 DEF WriterStep

\* Handlers, the client and the disk leave the writer's fields alone.
LEMMA OutsideWriter ==
    ClientStep \/ DiskStep =>
        UNCHANGED <<writerVars, pc, job, localVars, view, answered>>
  BY DEF ClientStep, DiskStep, DidOpen, DidChange, DidClose, Initialized,
         DidChangeConfiguration, DidChangeWatchedFiles, Shutdown,
         DidChangeWorkspaceFolders, WriteFile, WriteConfig, WriteMetadata,
         HandlerFrame, DiskFrame, outerVars

(* A pass is scheduled exactly while paths wait for one, whatever order    *)
(* requests, closes, invalidated passes and empty requests come in: the    *)
(* writer's request, close and run never strand a path without a deadline. *)
THEOREM NoRequestStranded == Spec => []RequestsScheduled
<1>1. Init => RequestsScheduled
  BY DEF Init, RequestsScheduled
<1>2. TypeInv /\ RequestsScheduled /\ [Next]_vars => RequestsScheduled'
  <2> SUFFICES ASSUME TypeInv, RequestsScheduled, [Next]_vars
               PROVE  RequestsScheduled'
    OBVIOUS
  <2>1. CASE ClientStep \/ DiskStep
    BY <2>1, OutsideWriter DEF writerVars, RequestsScheduled
  <2>2. CASE WriterStep /\ UNCHANGED clientVars
    BY <2>2, WriterSchedules
  <2>3. CASE UNCHANGED vars
    BY <2>3 DEF vars, writerVars, RequestsScheduled
  <2> QED
    BY <2>1, <2>2, <2>3 DEF Next
<1> QED
  BY <1>1, <1>2, TypeInvariant, PTL DEF Spec

-----------------------------------------------------------------------------
(* Passes against concurrent edits                                         *)

(* While a pass is not invalidated, the documents it took its snapshot     *)
(* from are the open ones: every handler that changes the documents moves  *)
(* diag_generation under the same lock, so what publish_diagnostics sends  *)
(* belongs to the present buffers.                                         *)
THEOREM PassesAreCurrent == Spec => []SnapshotCurrent
<1>1. Init => SnapshotCurrent
  BY DEF Init, SnapshotCurrent, PassPoints
<1>2. SnapshotCurrent /\ [Next]_vars => SnapshotCurrent'
  <2> SUFFICES ASSUME SnapshotCurrent, [Next]_vars
               PROVE  SnapshotCurrent'
    OBVIOUS
  <2>1. CASE ClientStep \/ DiskStep
    <3>1. UNCHANGED <<docs, edited>> \/ edited'
      BY <2>1
      DEF ClientStep, DiskStep, DidOpen, DidChange, DidClose, Initialized,
          DidChangeConfiguration, DidChangeWatchedFiles, Shutdown,
          DidChangeWorkspaceFolders, WriteFile, WriteConfig, WriteMetadata,
          DiskFrame, stateVars
    <3>2. UNCHANGED <<pc, snapshot>>
      BY <2>1, OutsideWriter DEF localVars
    <3> QED
      BY <3>1, <3>2 DEF SnapshotCurrent
  <2>2. CASE TakeSnapshot
    BY <2>2 DEF TakeSnapshot, Request, SnapshotCurrent, PassPoints
  <2>3. CASE Gather
    BY <2>3 DEF Gather, stateVars, SnapshotCurrent, PassPoints
  <2>4. CASE WriterStep /\ ~ TakeSnapshot /\ ~ Gather
    <3>1. pc' \notin PassPoints
      BY <2>4
      DEF WriterStep, TakePublish, TakeClosedShared, TakeClosed,
          TakeConfigure, TakeFolders, TakeWatched, TakeShutdown, Reload,
          ChangeFolders, RefreshWatchers, Rescan, InstallScan, AfterScan,
          RefreshEntry, AfterRefresh, FinishClose, StartPass, Publish,
          Reconcile, Request, Finish, PassPoints
    <3> QED
      BY <3>1 DEF SnapshotCurrent
  <2>5. CASE UNCHANGED vars
    BY <2>5 DEF vars, stateVars, localVars, SnapshotCurrent
  <2> QED
    BY <2>1, <2>2, <2>3, <2>4, <2>5 DEF Next
<1> QED
  BY <1>1, <1>2, PTL DEF Spec

-----------------------------------------------------------------------------
(* Shutdown                                                                *)

(* The reply to shutdown is the last thing the client receives from the    *)
(* writer: Work::Shutdown breaks the loop, so neither queued work nor a    *)
(* pending pass publishes after it.                                        *)
THEOREM ShutdownSilences == Spec => SilentAfterShutdown
<1> DEFINE Stopped == answered => pc = "stopped"
<1>1. Init => Stopped
  BY DEF Init
<1>2. WriterStep => pc # "stopped"
  BY DEF WriterStep, TakePublish, TakeClosedShared, TakeClosed,
         TakeConfigure, TakeFolders, TakeWatched, TakeShutdown, Reload,
         ChangeFolders, RefreshWatchers, Rescan, InstallScan, AfterScan,
         RefreshEntry, AfterRefresh, FinishClose, StartPass, TakeSnapshot,
         Gather, Publish, Reconcile, Receives
<1>3. WriterStep => UNCHANGED answered \/ pc' = "stopped"
  BY DEF WriterStep, TakePublish, TakeClosedShared, TakeClosed,
         TakeConfigure, TakeFolders, TakeWatched, TakeShutdown, Reload,
         ChangeFolders, RefreshWatchers, Rescan, InstallScan, AfterScan,
         RefreshEntry, AfterRefresh, FinishClose, StartPass, TakeSnapshot,
         Gather, Publish, Reconcile, outerVars
<1>4. Stopped /\ [Next]_vars =>
          Stopped' /\ (answered => UNCHANGED view)
  <2> SUFFICES ASSUME Stopped, [Next]_vars
               PROVE  Stopped' /\ (answered => UNCHANGED view)
    OBVIOUS
  <2>1. CASE ClientStep \/ DiskStep
    BY <2>1, OutsideWriter
  <2>2. CASE WriterStep
    BY <1>2, <1>3, <2>2
  <2>3. CASE UNCHANGED vars
    BY <2>3 DEF vars, outerVars
  <2> QED
    BY <2>1, <2>2, <2>3 DEF Next
<1> HIDE DEF Stopped
<1>5. Stopped /\ [Next]_vars => [answered => UNCHANGED view]_vars
  BY <1>4
<1> QED
  BY <1>1, <1>4, <1>5, PTL DEF Spec, SilentAfterShutdown

-----------------------------------------------------------------------------
(* The publication record                                                  *)

\* Each path has one name.  Without it the record does lose URIs: a close
\* forgets every URI of its path and clears only its own.
OneName == \A u \in Uris : DisplayUri[PathOf[u]] = u

\* Where change_folders is after it collected the URIs to clear.
AfterRemoval == {"watchers", "scan", "install", "scanned"}

\* Findings the work in hand has dropped from the record, and will clear.
Owed(u) ==
    \/ u \in stale
    \/ pc = "refresh" /\ job.kind = "closed" /\ job.uri = u

Removed == UNION {Inside[r] : r \in job.removed}

\* The record and the view, at every point of the writer.
Record ==
    \A u \in Uris :
        /\ u \in published[PathOf[u]] => view[u]
        /\ view[u] => u \in published[PathOf[u]] \/ Owed(u)

\* What the work in hand holds has the shape it needs.
InHand ==
    /\ stale # {} => pc \in {"folders"} \cup AfterRemoval
                     /\ job.kind = "folders"
    /\ pc = "folders" =>
          /\ \A u \in stale : PathOf[u] \in Removed
          /\ \A p \in Removed : published[p] \subseteq stale
    /\ pc \in AfterRemoval => \A u \in stale : u \notin published[PathOf[u]]
    /\ pc = "refresh" /\ job.kind = "closed" =>
          published[PathOf[job.uri]] = {}

Keys ==
    /\ \A p \in Paths : \A u \in published[p] : PathOf[u] = p
    /\ WellKeyed(snapshot)
    /\ \A i \in 1 .. Len(queue) :
          queue[i].kind = "closed" => queue[i].path = PathOf[queue[i].uri]

TrackInv == Record /\ InHand /\ Keys

LEMMA OneDestination ==
    ASSUME OneName, NEW ds \in DocumentMaps(Document), WellKeyed(ds),
           NEW p \in Paths
    PROVE  /\ UrisAt(ds, p) \subseteq {DisplayUri[p]}
           /\ Destinations(ds, p) = {DisplayUri[p]}
<1>1. \A i \in 1 .. Len(ds[p]) : ds[p][i].uri = DisplayUri[p]
  <2>1. ds[p] \in Seq(Document)
    BY DEF DocumentMaps
  <2>2. \A i \in 1 .. Len(ds[p]) : ds[p][i] \in Document
    BY <2>1
  <2>3. \A i \in 1 .. Len(ds[p]) : ds[p][i].uri \in Uris
    BY <2>2 DEF Document
  <2> QED
    BY <2>3 DEF OneName, WellKeyed
<1>2. UrisAt(ds, p) \subseteq {DisplayUri[p]}
  BY <1>1 DEF UrisAt
<1>3. IsOpen(ds, p) => DisplayUri[p] \in UrisAt(ds, p)
  <2> SUFFICES ASSUME IsOpen(ds, p) PROVE DisplayUri[p] \in UrisAt(ds, p)
    OBVIOUS
  <2>1. ds[p] \in Seq(Document) /\ ds[p] # << >>
    BY DEF DocumentMaps, IsOpen
  <2>2. 1 \in 1 .. Len(ds[p])
    BY <2>1
  <2> QED
    BY <1>1, <2>2 DEF UrisAt
<1> QED
  BY <1>2, <1>3 DEF Destinations

LEMMA HandlersKeepTrack ==
    TypeInv /\ TrackInv /\ (ClientStep \/ DiskStep) => TrackInv'
<1> SUFFICES ASSUME TypeInv, TrackInv, ClientStep \/ DiskStep
             PROVE  TrackInv'
  OBVIOUS
<1>1. UNCHANGED <<writerVars, pc, job, localVars, view>>
  BY OutsideWriter
<1>2. Record' /\ InHand'
  BY <1>1
  DEF TrackInv, Record, Owed, InHand, AfterRemoval, Removed, writerVars,
      localVars
<1>3. \/ UNCHANGED queue
      \/ \E w : /\ queue' = Append(queue, w)
                /\ w.kind = "closed" => w.path = PathOf[w.uri]
  <2>1. ASSUME NEW u \in Uris, DidClose(u)
        PROVE  \E w : /\ queue' = Append(queue, w)
                      /\ w.kind = "closed" => w.path = PathOf[w.uri]
    <3> DEFINE w == [kind |-> "closed", uri |-> u, path |-> PathOf[u],
                     shared |-> IsOpen(docs', PathOf[u])]
    <3>1. queue' = Append(queue, w)
      BY <2>1 DEF DidClose, Send
    <3>2. w.path = PathOf[w.uri]
      OBVIOUS
    <3> QED
      BY <3>1, <3>2
  <2>2. ASSUME NEW u \in budget.uris, NEW text \in budget.texts,
               DidOpen(u, text) \/ DidChange(u, text)
        PROVE  \E w : queue' = Append(queue, w) /\ w.kind # "closed"
    <3>1. queue' = Append(queue, [kind |-> "publish", path |-> PathOf[u]])
      BY <2>2 DEF DidOpen, DidChange, Send
    <3> QED
      BY <3>1
  <2>3. ASSUME NEW added, NEW removed,
               DidChangeWorkspaceFolders(added, removed)
        PROVE  \E w : queue' = Append(queue, w) /\ w.kind # "closed"
    <3>1. queue' = Append(queue, [kind |-> "folders", added |-> added,
                                  removed |-> removed])
      BY <2>3 DEF DidChangeWorkspaceFolders, Send
    <3> QED
      BY <3>1
  <2>4. CASE \/ Initialized \/ DidChangeConfiguration \/ Shutdown
             \/ DidChangeWatchedFiles
    <3>1. \/ queue' = Append(queue, [kind |-> "configure"])
          \/ queue' = Append(queue, [kind |-> "shutdown"])
          \/ queue' = Append(queue, [kind |-> "watched",
                                     sources |-> events.sources,
                                     config |-> events.config,
                                     metadata |-> events.metadata])
      BY <2>4 DEF Initialized, DidChangeConfiguration, Shutdown,
                  DidChangeWatchedFiles, Send
    <3> QED
      BY <3>1
  <2>5. CASE DiskStep
    BY <2>5 DEF DiskStep, WriteFile, WriteConfig, WriteMetadata, DiskFrame
  <2> QED
    BY <2>1, <2>2, <2>3, <2>4, <2>5 DEF ClientStep
<1>4. Keys'
  <2>1. \A i \in 1 .. Len(queue') : queue'[i].kind = "closed" =>
            queue'[i].path = PathOf[queue'[i].uri]
    BY <1>3 DEF TypeInv, TypeOK, TrackInv, Keys
  <2> QED
    BY <1>1, <2>1 DEF TrackInv, Keys, writerVars, localVars
<1> QED
  BY <1>2, <1>4 DEF TrackInv

LEMMA ReceiveKeepsTrack ==
    OneName /\ TypeInv /\ TrackInv
    /\ (\/ TakePublish \/ TakeClosedShared \/ TakeClosed \/ TakeConfigure
        \/ TakeFolders \/ TakeWatched \/ TakeShutdown)
    => TrackInv'
<1> SUFFICES ASSUME OneName, TypeInv, TrackInv, queue # << >>,
                    \/ TakePublish \/ TakeClosedShared \/ TakeClosed
                    \/ TakeConfigure \/ TakeFolders \/ TakeWatched
                    \/ TakeShutdown
             PROVE  TrackInv'
  BY DEF Receives, TakePublish, TakeClosedShared, TakeClosed, TakeConfigure,
         TakeFolders, TakeWatched, TakeShutdown
<1>1. Head(queue) \in Work /\ Tail(queue) \in Seq(Work)
  BY QueueHead DEF TypeInv, TypeOK
<1>2. Head(queue).kind = "closed" => Head(queue).path = PathOf[Head(queue).uri]
  BY DEF TypeInv, TypeOK, TrackInv, Keys
<1>3. \A i \in 1 .. Len(Tail(queue)) : Tail(queue)[i].kind = "closed" =>
          Tail(queue)[i].path = PathOf[Tail(queue)[i].uri]
  <2>1. queue \in Seq(Work)
    BY DEF TypeInv, TypeOK
  <2>2. \A i \in 1 .. Len(Tail(queue)) :
            i + 1 \in 1 .. Len(queue) /\ Tail(queue)[i] = queue[i + 1]
    BY <2>1
  <2>3. \A i \in 1 .. Len(queue) : queue[i].kind = "closed" =>
            queue[i].path = PathOf[queue[i].uri]
    BY DEF TrackInv, Keys
  <2> QED
    BY <2>2, <2>3
<1>4. pc = "idle" /\ queue' = Tail(queue) /\ snapshot' = snapshot
  BY DEF Receives, TakePublish, TakeClosedShared, TakeClosed, TakeConfigure,
         TakeFolders, TakeWatched, TakeShutdown, localVars
<1>5. stale = {} /\ \A u \in Uris : view[u] <=> u \in published[PathOf[u]]
  BY <1>4 DEF TrackInv, InHand, Record, Owed, AfterRemoval, TypeInv, TypeOK
<1>6. CASE TakePublish \/ TakeConfigure \/ TakeWatched \/ TakeShutdown
  <2>1. UNCHANGED <<view, published, stale>>
    BY <1>6 DEF TakePublish, TakeConfigure, TakeWatched, TakeShutdown,
                writerVars, localVars
  <2>2. /\ pc' # "folders" 
        /\ pc' = "refresh" => job'.kind # "closed"
    BY <1>6 DEF TakePublish, TakeConfigure, TakeWatched, TakeShutdown,
                Request, Receives
  <2> QED
    BY <1>3, <1>4, <1>5, <2>1, <2>2 DEF TrackInv, Record, InHand, Keys
<1>7. CASE TakeClosedShared
  <2>1. /\ published' = [published EXCEPT
                           ![Head(queue).path] = @ \ {Head(queue).uri}]
        /\ view' = Cleared({Head(queue).uri})
        /\ Head(queue).path = PathOf[Head(queue).uri]
        /\ stale' = stale
        /\ pc' \in {"idle", "reconcile"}
    BY <1>2, <1>7 DEF TakeClosedShared, Request, Receives
  <2>2. Head(queue).uri \in Uris /\ Head(queue).path \in Paths
    BY <1>1, <1>7, WorkFields DEF TakeClosedShared, Receives
  <2>3. \A u \in Uris : view'[u] <=> u \in published'[PathOf[u]]
    <3> SUFFICES ASSUME NEW u \in Uris
                 PROVE  view'[u] <=> u \in published'[PathOf[u]]
      OBVIOUS
    <3>1. CASE u = Head(queue).uri
      BY <2>1, <2>2, <3>1, UriAssumption DEF Cleared, TypeInv, TypeOK
    <3>2. CASE u # Head(queue).uri
      BY <1>5, <2>1, <2>2, <3>2, UriAssumption DEF Cleared, TypeInv, TypeOK
    <3> QED
      BY <3>1, <3>2
  <2>4. \A p \in Paths : published'[p] \subseteq published[p]
    BY <2>1, <2>2 DEF TypeInv, TypeOK
  <2> QED
    BY <1>3, <1>4, <1>5, <2>1, <2>3, <2>4
    DEF TrackInv, Record, InHand, AfterRemoval, Keys
<1>8. CASE TakeClosed
  <2>1. /\ published' = [published EXCEPT ![Head(queue).path] = {}]
        /\ Head(queue).path = PathOf[Head(queue).uri]
        /\ job' = Head(queue) /\ job'.kind = "closed"
        /\ Head(queue).uri \in Uris
        /\ pc' = "refresh"
        /\ UNCHANGED <<stale, view>>
    BY <1>1, <1>2, <1>8, WorkFields DEF TakeClosed, Receives
  <2>2. \A u \in Uris : PathOf[u] = Head(queue).path => u = Head(queue).uri
    BY <2>1 DEF OneName
  <2>3. PathOf[Head(queue).uri] \in Paths
    BY <2>1, UriAssumption
  <2> QED
    BY <1>3, <1>4, <1>5, <2>1, <2>2, <2>3
    DEF TrackInv, Record, Owed, InHand, AfterRemoval, Keys, TypeInv, TypeOK
<1>9. CASE TakeFolders
  <2>1. /\ job' = Head(queue) /\ job'.kind = "folders"
        /\ pc' = "folders"
        /\ UNCHANGED <<published, view>>
        /\ stale' = ClearedByRemoval(Removed')
    BY <1>9 DEF TakeFolders, Receives, Removed, writerVars
  <2>2. Removed' \subseteq Paths
    BY <1>1, <2>1, WorkFields, FolderAssumption DEF Removed
  <2>3. \A u \in stale' : PathOf[u] \in Removed'
    <3>1. \A p \in Paths : \A u \in UrisAt(docs, p) \cup published[p] :
             PathOf[u] = p
      BY OneDestination, UriAssumption DEF TypeInv, TypeOK, TrackInv, Keys
    <3> QED
      BY <2>1, <2>2, <3>1 DEF ClearedByRemoval
  <2>4. \A p \in Removed' : published'[p] \subseteq stale'
    BY <2>1 DEF ClearedByRemoval
  <2> QED
    BY <1>3, <1>4, <1>5, <2>1, <2>3, <2>4
    DEF TrackInv, Record, InHand, AfterRemoval, Keys
<1> QED
  BY <1>6, <1>7, <1>8, <1>9

LEMMA WorkKeepsTrack ==
    OneName /\ TypeInv /\ TrackInv
    /\ (\/ Reload \/ ChangeFolders \/ RefreshWatchers \/ Rescan
        \/ InstallScan \/ AfterScan \/ RefreshEntry \/ AfterRefresh
        \/ FinishClose)
    => TrackInv'
<1> SUFFICES ASSUME OneName, TypeInv, TrackInv,
                    \/ Reload \/ ChangeFolders \/ RefreshWatchers \/ Rescan
                    \/ InstallScan \/ AfterScan \/ RefreshEntry
                    \/ AfterRefresh \/ FinishClose
             PROVE  TrackInv'
  OBVIOUS
<1>1. queue' = queue /\ snapshot' = snapshot
  BY DEF Reload, ChangeFolders, RefreshWatchers, Rescan, InstallScan,
         AfterScan, RefreshEntry, AfterRefresh, FinishClose, localVars
<1>2. CASE Reload
  BY <1>1, <1>2
  DEF Reload, TrackInv, Record, Owed, InHand, AfterRemoval, Keys, writerVars,
      localVars
<1>3. CASE ChangeFolders
  <2>1. /\ published' = [p \in Paths |->
                            IF p \in Removed THEN {} ELSE published[p]]
        /\ pc = "folders" /\ pc' = "watchers"
        /\ UNCHANGED <<view, stale, job>>
    BY <1>3 DEF ChangeFolders, Removed, localVars
  <2>2. \A u \in Uris : PathOf[u] \in Paths
    BY UriAssumption
  <2>3. Record'
    BY <2>1, <2>2 DEF TrackInv, Record, Owed, InHand, AfterRemoval
  <2>4. InHand' /\ Keys'
    BY <1>1, <2>1, <2>2 DEF TrackInv, InHand, AfterRemoval, Keys, TypeInv,
                            TypeOK
  <2> QED
    BY <2>3, <2>4 DEF TrackInv
<1>4. CASE RefreshWatchers \/ Rescan \/ InstallScan
  <2>1. /\ pc \in AfterRemoval /\ pc' \in AfterRemoval
        /\ UNCHANGED <<published, view, stale, job>>
    BY <1>4 DEF RefreshWatchers, Rescan, InstallScan, AfterRemoval,
                writerVars, localVars
  <2> QED
    BY <1>1, <2>1
    DEF TrackInv, Record, Owed, InHand, AfterRemoval, Keys
<1>5. CASE AfterScan
  <2>1. /\ pc = "scanned" /\ pc' \in {"idle", "reconcile"}
        /\ stale' = {} /\ UNCHANGED published
        /\ (view' = view /\ stale = {}) \/ view' = Cleared(stale)
    BY <1>5 DEF AfterScan, Request, TrackInv, InHand
  <2> QED
    BY <1>1, <2>1
    DEF TrackInv, Record, Owed, InHand, AfterRemoval, Keys, Cleared
<1>6. CASE RefreshEntry
  BY <1>1, <1>6
  DEF RefreshEntry, TrackInv, Record, Owed, InHand, AfterRemoval, Keys,
      writerVars
<1>7. CASE AfterRefresh
  <2>1. /\ pc = "refresh" /\ job.kind = "watched"
        /\ pc' \in {"idle", "reconcile"}
        /\ UNCHANGED <<published, view>> /\ stale' = {}
    BY <1>7 DEF AfterRefresh, Request, Finish, TrackInv, InHand, AfterRemoval
  <2> QED
    BY <1>1, <2>1 DEF TrackInv, Record, Owed, InHand, AfterRemoval, Keys
<1>8. CASE FinishClose
  <2>1. /\ pc = "refresh" /\ job.kind = "closed"
        /\ pc' \in {"idle", "reconcile"}
        /\ view' = Cleared({job.uri})
        /\ UNCHANGED published /\ stale = {} /\ stale' = {}
    BY <1>8 DEF FinishClose, Request, Finish, TrackInv, InHand, AfterRemoval
  <2> QED
    BY <1>1, <2>1
    DEF TrackInv, Record, Owed, InHand, AfterRemoval, Keys, Cleared
<1> QED
  BY <1>2, <1>3, <1>4, <1>5, <1>6, <1>7, <1>8

LEMMA PassKeepsTrack ==
    OneName /\ TypeInv /\ TrackInv
    /\ (\/ StartPass \/ TakeSnapshot \/ Gather \/ Publish \/ Reconcile)
    => TrackInv'
<1> SUFFICES ASSUME OneName, TypeInv, TrackInv,
                    \/ StartPass \/ TakeSnapshot \/ Gather \/ Publish
                    \/ Reconcile
             PROVE  TrackInv'
  OBVIOUS
<1>1. /\ pc \in {"idle", "snapshot", "gather", "publish", "reconcile"}
      /\ pc' \in {"idle", "snapshot", "gather", "publish", "reconcile"}
      /\ queue' = queue
  BY DEF StartPass, TakeSnapshot, Gather, Publish, Reconcile, Request, Finish
<1>2. stale = {} /\ \A u \in Uris : view[u] <=> u \in published[PathOf[u]]
  BY <1>1 DEF TrackInv, InHand, Record, Owed, AfterRemoval, TypeInv, TypeOK
<1>3. WellKeyed(docs) /\ WellKeyed(snapshot)
  BY DEF TypeInv, TypeOK, TrackInv, Keys
<1>4. SUFFICES
          /\ stale' = {} /\ WellKeyed(snapshot')
          /\ \A u \in Uris : view'[u] <=> u \in published'[PathOf[u]]
          /\ \A p \in Paths : \A u \in published'[p] : PathOf[u] = p
  BY <1>1 DEF TrackInv, Record, Owed, InHand, AfterRemoval, Keys
<1>5. CASE StartPass \/ TakeSnapshot \/ Gather
  <2>1. UNCHANGED <<published, view, stale>>
        /\ snapshot' \in {docs, snapshot}
    BY <1>5 DEF StartPass, TakeSnapshot, Gather, writerVars
  <2> QED
    BY <1>2, <1>3, <2>1 DEF TrackInv, Keys
<1>6. CASE Publish
  <2>1. WellKeyed(snapshot')
    BY <1>6 DEF Publish, NoDocuments, WellKeyed
  <2>2. CASE edited
    BY <1>2, <1>6, <2>1, <2>2 DEF Publish, Request, TrackInv, Keys
  <2>3. CASE ~ edited
    <3> DEFINE out == Outgoing(snapshot, project)
               Found(u) == Shows(contexts, snapshot, project, u)
    <3>1. /\ view' = [u \in Uris |->
                IF PathOf[u] \in out
                   /\ u \in Destinations(snapshot, PathOf[u])
                THEN Found(u) ELSE view[u]]
          /\ published' = [p \in Paths |->
                IF p \in out THEN {u \in Destinations(snapshot, p) : Found(u)}
                ELSE published[p]]
          /\ stale' = UNION {published[p] \ Destinations(snapshot, p) :
                               p \in out}
      BY <1>6, <2>3 DEF Publish
    <3>2. out \subseteq Paths
      BY DEF Outgoing
    <3> HIDE DEF out, Found
    <3>3. \A p \in Paths : Destinations(snapshot, p) = {DisplayUri[p]}
      BY <1>3, OneDestination DEF TypeInv, TypeOK
    <3>4. \A p \in Paths : published[p] \subseteq {DisplayUri[p]}
      BY DEF TrackInv, Keys, OneName, TypeInv, TypeOK
    <3>5. stale' = {}
      BY <3>1, <3>2, <3>3, <3>4
    <3>6. \A u \in Uris : view'[u] <=> u \in published'[PathOf[u]]
      BY <1>2, <3>1, <3>3, UriAssumption DEF OneName
    <3>7. \A p \in Paths : \A u \in published'[p] : PathOf[u] = p
      BY <3>1, <3>3, UriAssumption DEF TrackInv, Keys
    <3> QED
      BY <2>1, <3>5, <3>6, <3>7
  <2> QED
    BY <2>2, <2>3
<1>7. CASE Reconcile
  <2> DEFINE named == UNION {Destinations(docs, p) : p \in Refused}
  <2> DEFINE dropped == UNION {published[p] : p \in Dropped}
  <2>1. /\ published' = [p \in Paths |->
                            IF p \in Dropped THEN {} ELSE published[p]]
        /\ stale' = {} /\ UNCHANGED snapshot
    BY <1>7 DEF Reconcile, Finish
  <2>2. view' = Cleared(stale \cup named \cup dropped)
    BY <1>7 DEF Reconcile
  <2>3. \A p \in Refused : p \in Paths /\ Destinations(docs, p) = {DisplayUri[p]}
    BY <1>3, OneDestination DEF Refused, TypeInv, TypeOK
  <2>4. \A p \in Refused : p \in Dropped \/ published[p] = {}
    BY DEF Refused, Dropped, TypeInv, TypeOK
  <2>5. \A u \in Uris :
            u \in named => PathOf[u] \in Dropped \/ published[PathOf[u]] = {}
    BY <2>3, <2>4, UriAssumption
  <2>6. \A u \in Uris : u \in dropped <=>
            PathOf[u] \in Dropped /\ u \in published[PathOf[u]]
    BY UriAssumption DEF Dropped, TrackInv, Keys
  <2> HIDE DEF named, dropped
  <2>7. \A u \in Uris : view'[u] <=> u \in published'[PathOf[u]]
    BY <1>2, <2>1, <2>2, <2>5, <2>6, UriAssumption DEF Cleared
  <2> QED
    BY <1>3, <2>1, <2>7 DEF TrackInv, Keys
<1> QED
  BY <1>5, <1>6, <1>7

\* The record is an invariant of the specification.
LEMMA TrackInvariant ==
    ASSUME OneName
    PROVE  Spec => []TrackInv
<1>1. Init => TrackInv
  <2> SUFFICES ASSUME Init PROVE TrackInv
    OBVIOUS
  <2>1. WellKeyed(snapshot)
    BY DEF Init, NoDocuments, WellKeyed
  <2> QED
    BY <2>1, UriAssumption
    DEF Init, TrackInv, Record, Owed, InHand, AfterRemoval, Keys
<1>2. TypeInv /\ TrackInv /\ [Next]_vars => TrackInv'
  <2> SUFFICES ASSUME TypeInv, TrackInv, [Next]_vars
               PROVE  TrackInv'
    OBVIOUS
  <2>1. CASE ClientStep \/ DiskStep
    BY <2>1, HandlersKeepTrack
  <2>2. CASE WriterStep
    BY <2>2, ReceiveKeepsTrack, WorkKeepsTrack, PassKeepsTrack
    DEF WriterStep
  <2>3. CASE UNCHANGED vars
    BY <2>3
    DEF vars, writerVars, localVars, TrackInv, Record, Owed, InHand,
        AfterRemoval, Removed, Keys
  <2> QED
    BY <2>1, <2>2, <2>3 DEF Next
<1> QED
  BY <1>1, <1>2, TypeInvariant, PTL DEF Spec

(* When every path has one name, published_uris is exact whenever the      *)
(* writer is between items: the client shows findings at a URI if and only *)
(* if the record holds it, through every close, folder removal, pass and   *)
(* reconciliation.  What a later pass must clear is therefore never lost.  *)
THEOREM RecordIsExact ==
    ASSUME OneName
    PROVE  Spec => []Tracked
<1>1. TypeInv /\ TrackInv => Tracked
  BY DEF Tracked, TrackInv, Record, Owed, InHand, AfterRemoval, TypeInv,
         TypeOK
<1> QED
  BY <1>1, TypeInvariant, TrackInvariant, PTL

-----------------------------------------------------------------------------
(* Which paths can wait for a pass                                         *)

\* No file, configuration or folder event can happen.
EditsOnly == budget.ops \cap {"write", "config", "metadata", "folders"} = {}

\* A document is open at the path, or its close is queued after item i.
Covered(p, i) ==
    \/ IsOpen(docs, p)
    \/ \E j \in 1 .. Len(queue) :
          j > i /\ queue[j].kind = "closed" /\ queue[j].path = p

\* The items that request their own path.
Requests(w) == w.kind = "publish" \/ (w.kind = "closed" /\ w.shared)

OutsideKinds == {"folders", "watched"}

QueueCovered ==
    \A i \in 1 .. Len(queue) :
        /\ queue[i].kind \notin OutsideKinds
        /\ Requests(queue[i]) => Covered(queue[i].path, i)

CoveredInv ==
    EditsOnly =>
        /\ events = NoEvents
        /\ job.kind \notin OutsideKinds
        /\ QueueCovered
        /\ \A p \in pending : Covered(p, 0)
        /\ pc \in {"snapshot"} \cup PassPoints =>
              \A p \in wanted : Covered(p, 0)

LEMMA EditsOnlyStays == [Next]_vars => EditsOnly' = EditsOnly
<1> SUFFICES ASSUME [Next]_vars PROVE EditsOnly' = EditsOnly
  OBVIOUS
<1>1. ASSUME NEW op, Spend(op)
      PROVE  budget'.ops = budget.ops
  BY <1>1 DEF Spend
<1> QED
  BY <1>1
  DEF Next, ClientStep, DiskStep, DidOpen, DidChange, DidClose, Initialized,
      DidChangeConfiguration, DidChangeWatchedFiles, Shutdown,
      DidChangeWorkspaceFolders, WriteFile, WriteConfig, WriteMetadata,
      clientVars, vars, EditsOnly

\* What a handler does: it queues one item, and whatever it changes is
\* followed by that item.
Queued(w) ==
    /\ UNCHANGED <<disk, config>>
    /\ \/ /\ w.kind \in {"configure", "shutdown"}
          /\ UNCHANGED <<docs, folders, events>>
       \/ /\ w.kind = "folders" /\ "folders" \in budget.ops
          /\ folders' = (folders \ w.removed) \cup w.added
          /\ UNCHANGED <<docs, events>>
       \/ /\ w.kind = "watched" /\ events # NoEvents
          /\ w.sources = events.sources /\ w.config = events.config
          /\ UNCHANGED <<docs, folders>>
       \/ /\ w.kind = "publish"
          /\ IsOpen(docs', w.path)
          /\ \A p \in Paths : IsOpen(docs, p) => IsOpen(docs', p)
          /\ UNCHANGED <<folders, events>>
       \/ /\ w.kind = "closed"
          /\ w.path \in OpenPaths(docs)
          /\ w.shared => IsOpen(docs', w.path)
          /\ \A p \in Paths \ {w.path} : docs'[p] = docs[p]
          /\ UNCHANGED <<folders, events>>

LEMMA DiskKeepsDocuments == DiskStep => UNCHANGED <<docs, queue, folders>>
  BY DEF DiskStep, WriteFile, WriteConfig, WriteMetadata, DiskFrame, stateVars

LEMMA HandlersQueue ==
    TypeInv /\ ClientStep =>
        \E w \in Work : queue' = Append(queue, w) /\ Queued(w)
<1> SUFFICES ASSUME TypeInv, ClientStep
             PROVE  \E w \in Work : queue' = Append(queue, w) /\ Queued(w)
  OBVIOUS
<1>1. docs \in DocumentMaps(Document)
  BY DEF TypeInv, TypeOK
<1>2. ASSUME NEW u \in budget.uris, NEW text \in budget.texts,
             DidOpen(u, text) \/ DidChange(u, text)
      PROVE  \E w \in Work : queue' = Append(queue, w) /\ Queued(w)
  <2> DEFINE w == [kind |-> "publish", path |-> PathOf[u]]
             doc == [uri |-> u, text |-> text]
  <2>1. u \in Uris /\ text \in Texts
    BY DEF TypeInv, TypeOK, Budgets
  <2>2. /\ queue' = Append(queue, w)
        /\ docs' = PutDocument(docs, doc)
    BY <1>2 DEF DidOpen, DidChange, Send
  <2>0. UNCHANGED <<disk, config, folders, events>>
    BY <1>2 DEF DidOpen, DidChange, HandlerFrame, outerVars
  <2>3. PathOf[u] \in Paths /\ w \in Work /\ doc \in Document
    BY <2>1, UriAssumption, WorkTypes DEF Document
  <2>4. docs[PathOf[u]] \in Seq(Document)
    BY <1>1, <2>3 DEF DocumentMaps
  <2>5. Without(docs[PathOf[u]], u) \in Seq(Document)
    BY <2>4, WithoutType
  <2>6. /\ docs' = [docs EXCEPT ![PathOf[u]] =
                        Append(Without(@, u), doc)]
        /\ docs \in [Paths -> Seq(Document)]
    BY <1>1, <2>2 DEF PutDocument, DocumentMaps
  <2>7. /\ docs'[PathOf[u]] = Append(Without(docs[PathOf[u]], u), doc)
        /\ \A p \in Paths \ {PathOf[u]} : docs'[p] = docs[p]
    BY <2>3, <2>6
  <2>8. Append(Without(docs[PathOf[u]], u), doc) # << >>
    BY <2>3, <2>5
  <2>9. w.kind = "publish" /\ w.path = PathOf[u]
    OBVIOUS
  <2> HIDE DEF w, doc
  <2>10. IsOpen(docs', PathOf[u])
    BY <2>7, <2>8 DEF IsOpen
  <2>11. \A p \in Paths : IsOpen(docs, p) => IsOpen(docs', p)
    BY <2>7, <2>10 DEF IsOpen
  <2>12. Queued(w)
    BY <2>0, <2>9, <2>10, <2>11 DEF Queued
  <2> QED
    BY <2>2, <2>3, <2>12
<1>3. ASSUME NEW u \in Uris, DidClose(u)
      PROVE  \E w \in Work : queue' = Append(queue, w) /\ Queued(w)
  <2> DEFINE w == [kind |-> "closed", uri |-> u, path |-> PathOf[u],
                   shared |-> IsOpen(docs', PathOf[u])]
  <2>1. /\ queue' = Append(queue, w)
        /\ docs' = CloseDocument(docs, u)
    BY <1>3 DEF DidClose, Send
  <2>0. UNCHANGED <<disk, config, folders, events>>
    BY <1>3 DEF DidClose, HandlerFrame, outerVars
  <2>2. PathOf[u] \in Paths /\ w \in Work
    BY UriAssumption, WorkTypes DEF IsOpen
  <2>3. \A p \in Paths \ {PathOf[u]} : docs'[p] = docs[p]
    BY <1>1, <2>1, <2>2 DEF CloseDocument, DocumentMaps
  <2>4. /\ w.kind = "closed" /\ w.path = PathOf[u]
        /\ w.shared => IsOpen(docs', PathOf[u])
    OBVIOUS
  <2>5. PathOf[u] \in OpenPaths(docs)
    <3>1. \E i \in 1 .. Len(docs[PathOf[u]]) : TRUE
      BY <1>3 DEF DidClose, IsOpenUri, UrisAt
    <3> QED
      BY <2>2, <3>1 DEF OpenPaths, IsOpen
  <2> HIDE DEF w
  <2>6. Queued(w)
    BY <2>0, <2>3, <2>4, <2>5 DEF Queued
  <2> QED
    BY <2>1, <2>2, <2>6
<1>4. CASE Initialized \/ DidChangeConfiguration \/ Shutdown
  <2>1. \E w \in {[kind |-> "configure"], [kind |-> "shutdown"]} :
            /\ queue' = Append(queue, w)
            /\ UNCHANGED <<docs, disk, config, folders, events>>
    BY <1>4 DEF Initialized, DidChangeConfiguration, Shutdown, Send,
                HandlerFrame, outerVars
  <2>2. \A w \in {[kind |-> "configure"], [kind |-> "shutdown"]} :
            w \in Work /\ w.kind \in {"configure", "shutdown"}
    BY WorkTypes
  <2> QED
    BY <2>1, <2>2 DEF Queued
<1>5. CASE DidChangeWatchedFiles
  <2> DEFINE w == [kind |-> "watched", sources |-> events.sources,
                   config |-> events.config, metadata |-> events.metadata]
  <2>1. /\ queue' = Append(queue, w) /\ events # NoEvents
        /\ UNCHANGED <<docs, disk, config, folders>>
    BY <1>5 DEF DidChangeWatchedFiles, Send, stateVars, outerVars
  <2>2. /\ w \in Work /\ w.kind = "watched"
        /\ w.sources = events.sources /\ w.config = events.config
    BY WorkTypes DEF TypeInv, TypeOK
  <2> HIDE DEF w
  <2> QED
    BY <2>1, <2>2 DEF Queued
<1>6. ASSUME NEW added \in SUBSET Roots, NEW removed \in SUBSET Roots,
             DidChangeWorkspaceFolders(added, removed)
      PROVE  \E w \in Work : queue' = Append(queue, w) /\ Queued(w)
  <2> DEFINE w == [kind |-> "folders", added |-> added, removed |-> removed]
  <2>1. /\ queue' = Append(queue, w)
        /\ "folders" \in budget.ops
        /\ folders' = (folders \ removed) \cup added
        /\ UNCHANGED <<docs, disk, config, events>>
    BY <1>6 DEF DidChangeWorkspaceFolders, Spend, Send, stateVars, outerVars
  <2>2. /\ w \in Work /\ w.kind = "folders"
        /\ w.added = added /\ w.removed = removed
    BY WorkTypes
  <2> HIDE DEF w
  <2> QED
    BY <2>1, <2>2 DEF Queued
<1> QED
  BY <1>2, <1>3, <1>4, <1>5, <1>6 DEF ClientStep

LEMMA HandlersKeepCovered ==
    TypeInv /\ CoveredInv /\ (ClientStep \/ DiskStep) => CoveredInv'
<1> SUFFICES ASSUME TypeInv, CoveredInv, ClientStep \/ DiskStep, EditsOnly
             PROVE  /\ events' = NoEvents
                    /\ job'.kind \notin OutsideKinds
                    /\ QueueCovered'
                    /\ \A p \in pending' : Covered(p, 0)'
                    /\ pc' \in {"snapshot"} \cup PassPoints =>
                          \A p \in wanted' : Covered(p, 0)'
  BY EditsOnlyStays DEF Next, CoveredInv
<1>1. UNCHANGED <<pending, pc, job, wanted>>
  BY OutsideWriter DEF writerVars, localVars
<1>2. events = NoEvents /\ "folders" \notin budget.ops
  BY DEF CoveredInv, EditsOnly
<1>3. events' = NoEvents
  <2>1. ~ DiskStep
    BY DEF EditsOnly, DiskStep, WriteFile, WriteConfig, WriteMetadata, Spend
  <2> QED
    BY <1>2, <2>1
    DEF ClientStep, DidOpen, DidChange, DidClose, Initialized,
        DidChangeConfiguration, DidChangeWatchedFiles, Shutdown,
        DidChangeWorkspaceFolders, HandlerFrame
<1>4. /\ queue \in Seq(Work) /\ Len(queue) \in Nat
      /\ pending \subseteq Paths /\ wanted \subseteq Paths
  BY DEF TypeInv, TypeOK
<1>5. ASSUME NEW p \in Paths, NEW i \in 0 .. Len(queue), Covered(p, i)
      PROVE  Covered(p, i)'
  <2>1. CASE UNCHANGED <<docs, queue>>
    BY <1>5, <2>1 DEF Covered
  <2>2. ASSUME NEW w \in Work, queue' = Append(queue, w), Queued(w)
        PROVE  Covered(p, i)'
    <3>1. /\ Len(queue') = Len(queue) + 1
          /\ queue'[Len(queue) + 1] = w
          /\ \A j \in 1 .. Len(queue) : queue'[j] = queue[j]
      BY <1>4, <2>2
    <3>2. CASE IsOpen(docs, p)
      <4>1. CASE IsOpen(docs', p)
        BY <4>1 DEF Covered
      <4>2. CASE ~ IsOpen(docs', p)
        <5>1. w.kind = "closed" /\ w.path = p
          BY <2>2, <3>2, <4>2 DEF Queued, IsOpen
        <5> QED
          BY <1>4, <3>1, <5>1 DEF Covered
      <4> QED
        BY <4>1, <4>2
    <3>3. CASE ~ IsOpen(docs, p)
      <4>1. PICK j \in 1 .. Len(queue) :
                j > i /\ queue[j].kind = "closed" /\ queue[j].path = p
        BY <1>5, <3>3 DEF Covered
      <4>2. j \in 1 .. Len(queue') /\ queue'[j] = queue[j]
        BY <1>4, <3>1
      <4> QED
        BY <4>1, <4>2 DEF Covered
    <3> QED
      BY <3>2, <3>3
  <2> QED
    BY <2>1, <2>2, HandlersQueue, DiskKeepsDocuments
<1>6. /\ \A p \in pending' : Covered(p, 0)'
      /\ pc' \in {"snapshot"} \cup PassPoints =>
            \A p \in wanted' : Covered(p, 0)'
  BY <1>1, <1>4, <1>5 DEF CoveredInv
<1>7. QueueCovered'
  <2>1. ASSUME NEW i \in 1 .. Len(queue), NEW p, p = queue[i].path
        PROVE  /\ queue[i].kind \notin OutsideKinds
               /\ Requests(queue[i]) => Covered(p, i)'
    <3>1. queue[i] \in Work
      BY <1>4
    <3>2. Requests(queue[i]) => p \in Paths
      BY <2>1, <3>1, WorkFields DEF Requests
    <3> QED
      BY <1>4, <1>5, <2>1, <3>2 DEF CoveredInv, QueueCovered
  <2>2. CASE UNCHANGED <<docs, queue>>
    BY <2>1, <2>2 DEF QueueCovered, Requests
  <2>3. ASSUME NEW w \in Work, queue' = Append(queue, w), Queued(w)
        PROVE  QueueCovered'
    <3>1. /\ Len(queue') = Len(queue) + 1
          /\ queue'[Len(queue) + 1] = w
          /\ \A j \in 1 .. Len(queue) : queue'[j] = queue[j]
      BY <1>4, <2>3
    <3>2. w.kind \notin OutsideKinds
      BY <1>2, <2>3 DEF Queued, OutsideKinds
    <3>3. Requests(w) => IsOpen(docs', w.path)
      BY <2>3 DEF Queued, Requests
    <3> SUFFICES ASSUME NEW i \in 1 .. Len(queue'), NEW p,
                        p = queue'[i].path
                 PROVE  /\ queue'[i].kind \notin OutsideKinds
                        /\ Requests(queue'[i]) => Covered(p, i)'
      BY DEF QueueCovered, Requests
    <3>4. CASE i \in 1 .. Len(queue)
      BY <2>1, <3>1, <3>4
    <3>5. CASE i = Len(queue) + 1
      BY <3>1, <3>2, <3>3, <3>5 DEF Covered
    <3> QED
      BY <1>4, <3>1, <3>4, <3>5
  <2> QED
    BY <2>2, <2>3, HandlersQueue, DiskKeepsDocuments
<1> QED
  BY <1>1, <1>3, <1>6, <1>7 DEF CoveredInv

\* Receiving the head leaves the rest of the queue to cover what it covered.
LEMMA CoveredShifts ==
    ASSUME queue \in Seq(Work), queue # << >>, queue' = Tail(queue),
           UNCHANGED docs, NEW p, NEW i \in Nat, Covered(p, i + 1)
    PROVE  Covered(p, i)'
<1>1. /\ Len(queue') = Len(queue) - 1
      /\ \A j \in 1 .. Len(queue) - 1 : queue'[j] = queue[j + 1]
  OBVIOUS
<1>2. CASE IsOpen(docs, p)
  BY <1>2 DEF Covered
<1>3. CASE ~ IsOpen(docs, p)
  <2>1. PICK j \in 1 .. Len(queue) :
            j > i + 1 /\ queue[j].kind = "closed" /\ queue[j].path = p
    BY <1>3 DEF Covered
  <2>2. /\ j - 1 \in 1 .. Len(queue') /\ j - 1 > i
        /\ queue'[j - 1] = queue[j]
    BY <1>1, <2>1
  <2> QED
    BY <2>1, <2>2 DEF Covered
<1> QED
  BY <1>2, <1>3

LEMMA ReceiveKeepsCovered ==
    TypeInv /\ CoveredInv /\ UNCHANGED clientVars
    /\ (\/ TakePublish \/ TakeClosedShared \/ TakeClosed \/ TakeConfigure
        \/ TakeFolders \/ TakeWatched \/ TakeShutdown)
    => CoveredInv'
<1> SUFFICES ASSUME TypeInv, CoveredInv, UNCHANGED clientVars, EditsOnly,
                    queue # << >>,
                    \/ TakePublish \/ TakeClosedShared \/ TakeClosed
                    \/ TakeConfigure \/ TakeFolders \/ TakeWatched
                    \/ TakeShutdown
             PROVE  /\ events' = NoEvents
                    /\ job'.kind \notin OutsideKinds
                    /\ QueueCovered'
                    /\ \A p \in pending' : Covered(p, 0)'
                    /\ pc' \in {"snapshot"} \cup PassPoints =>
                          \A p \in wanted' : Covered(p, 0)'
  BY DEF CoveredInv, EditsOnly, clientVars, Receives, TakePublish,
         TakeClosedShared, TakeClosed, TakeConfigure, TakeFolders,
         TakeWatched, TakeShutdown
<1>1. /\ queue \in Seq(Work) /\ Len(queue) \in Nat /\ 1 \in 1 .. Len(queue)
      /\ Head(queue) = queue[1]
      /\ Head(queue) \in Work
  BY QueueHead DEF TypeInv, TypeOK
<1>2. queue' = Tail(queue) /\ UNCHANGED docs
  BY DEF TakePublish, TakeClosedShared, TakeClosed, TakeConfigure,
         TakeFolders, TakeWatched, TakeShutdown, stateVars
<1>3. events' = NoEvents
  BY DEF CoveredInv, clientVars
<1>4. Head(queue).kind \notin OutsideKinds
  BY <1>1 DEF CoveredInv, QueueCovered
<1>5. job'.kind \notin OutsideKinds
  BY <1>4
  DEF CoveredInv, TakePublish, TakeClosedShared, TakeClosed, TakeConfigure,
      TakeFolders, TakeWatched, TakeShutdown, Request, NoWork, OutsideKinds
<1>6. QueueCovered'
  <2> SUFFICES ASSUME NEW i \in 1 .. Len(queue'), NEW p, p = queue'[i].path
               PROVE  /\ queue'[i].kind \notin OutsideKinds
                      /\ Requests(queue'[i]) => Covered(p, i)'
    BY DEF QueueCovered, Requests
  <2>1. i + 1 \in 1 .. Len(queue) /\ queue'[i] = queue[i + 1] /\ i \in Nat
    BY <1>1, <1>2
  <2>2. /\ queue[i + 1].kind \notin OutsideKinds
        /\ Requests(queue[i + 1]) => Covered(p, i + 1)
    BY <2>1 DEF CoveredInv, QueueCovered
  <2> QED
    BY <1>1, <1>2, <2>1, <2>2, CoveredShifts
<1>7. Requests(Head(queue)) =>
          \A p : p = Head(queue).path => Covered(p, 0)'
  <2> SUFFICES ASSUME Requests(Head(queue)), NEW p, p = Head(queue).path
               PROVE  Covered(p, 0)'
    OBVIOUS
  <2>1. Covered(p, 1)
    BY <1>1 DEF CoveredInv, QueueCovered
  <2> QED
    BY <1>1, <1>2, <2>1, CoveredShifts
\* A path whose close is not received keeps what covers it.
<1>8. ASSUME NEW p \in pending,
             Head(queue).kind = "closed" /\ ~ Head(queue).shared
                 => Head(queue).path # p
      PROVE  Covered(p, 0)'
  <2>1. Covered(p, 0)
    BY DEF CoveredInv
  <2>2. CASE Covered(p, 1)
    BY <1>1, <1>2, <2>2, CoveredShifts
  <2>3. CASE ~ Covered(p, 1)
    <3>1. queue[1].kind = "closed" /\ queue[1].path = p
      BY <2>1, <2>3 DEF Covered
    <3>2. Requests(Head(queue))
      BY <1>1, <1>8, <3>1, WorkFields DEF Requests
    <3> QED
      BY <1>1, <1>7, <3>1, <3>2
  <2> QED
    BY <2>2, <2>3
<1>9. CASE TakePublish \/ TakeClosedShared
  <2>1. \/ Head(queue).kind = "publish"
        \/ Head(queue).kind = "closed" /\ Head(queue).shared
    BY <1>9, Zenon DEF TakePublish, TakeClosedShared, Receives
  <2>2. /\ pending' = pending \cup {Head(queue).path}
        /\ pc' \in {"idle", "reconcile"}
    BY <1>9 DEF TakePublish, TakeClosedShared, Request
  <2>3. Requests(Head(queue))
    BY <2>1, Zenon DEF Requests
  <2>4. ~ (Head(queue).kind = "closed" /\ ~ Head(queue).shared)
    BY <2>1
  <2> QED
    BY <1>3, <1>5, <1>6, <1>7, <1>8, <2>2, <2>3, <2>4 DEF PassPoints
<1>10. CASE TakeClosed
  <2>1. /\ pending' = pending \ {Head(queue).path}
        /\ pc' = "refresh"
    BY <1>10 DEF TakeClosed, Forget
  <2> QED
    BY <1>3, <1>5, <1>6, <1>8, <2>1 DEF PassPoints
<1>11. CASE TakeConfigure \/ TakeFolders \/ TakeWatched \/ TakeShutdown
  <2>1. /\ pending' = pending
        /\ pc' \in {"reload", "folders", "scan", "refresh", "stopped"}
        /\ Head(queue).kind # "closed"
    BY <1>11 DEF TakeConfigure, TakeFolders, TakeWatched, TakeShutdown,
                 Receives, writerVars
  <2> QED
    BY <1>3, <1>5, <1>6, <1>8, <2>1 DEF PassPoints
<1> QED
  BY <1>9, <1>10, <1>11

LEMMA StepsKeepCovered ==
    TypeInv /\ CoveredInv /\ UNCHANGED clientVars
    /\ (\/ Reload \/ ChangeFolders \/ RefreshWatchers \/ Rescan
        \/ InstallScan \/ AfterScan \/ RefreshEntry \/ AfterRefresh
        \/ FinishClose
        \/ StartPass \/ TakeSnapshot \/ Gather \/ Publish \/ Reconcile)
    => CoveredInv'
<1> SUFFICES ASSUME TypeInv, CoveredInv, UNCHANGED clientVars, EditsOnly,
                    \/ Reload \/ ChangeFolders \/ RefreshWatchers \/ Rescan
                    \/ InstallScan \/ AfterScan \/ RefreshEntry
                    \/ AfterRefresh \/ FinishClose
                    \/ StartPass \/ TakeSnapshot \/ Gather \/ Publish
                    \/ Reconcile
             PROVE  CoveredInv'
  BY DEF CoveredInv, EditsOnly, clientVars
<1>1. UNCHANGED <<docs, queue, events>>
  BY DEF clientVars, Reload, ChangeFolders, RefreshWatchers, Rescan,
         InstallScan, AfterScan, RefreshEntry, AfterRefresh, FinishClose,
         StartPass, TakeSnapshot, Gather, Publish, Reconcile, stateVars
<1>2. /\ events = NoEvents /\ job.kind \notin OutsideKinds /\ QueueCovered
      /\ \A p \in pending : Covered(p, 0)
      /\ pc \in {"snapshot"} \cup PassPoints => \A p \in wanted : Covered(p, 0)
  BY DEF CoveredInv
<1>3. /\ \A p : Covered(p, 0)' <=> Covered(p, 0)
      /\ QueueCovered'
  BY <1>1, <1>2 DEF Covered, QueueCovered, Requests
<1>4. job'.kind \notin OutsideKinds
  BY <1>2
  DEF Reload, ChangeFolders, RefreshWatchers, Rescan, InstallScan, AfterScan,
      RefreshEntry, AfterRefresh, FinishClose, StartPass, TakeSnapshot,
      Gather, Publish, Reconcile, Request, Finish, NoWork, OutsideKinds
<1>5. \A p \in OpenPaths(docs) : Covered(p, 0)
  BY DEF OpenPaths, Covered
<1>6. SUFFICES
          /\ \A p \in pending' : Covered(p, 0)
          /\ pc' \in {"snapshot"} \cup PassPoints =>
                \A p \in wanted' : Covered(p, 0)
  BY <1>1, <1>2, <1>3, <1>4 DEF CoveredInv
<1>7. CASE Reload \/ ChangeFolders \/ RefreshWatchers \/ Rescan
           \/ InstallScan \/ RefreshEntry \/ Reconcile
  <2>1. pending' = pending /\ pc' \notin {"snapshot"} \cup PassPoints
    BY <1>7 DEF Reload, ChangeFolders, RefreshWatchers, Rescan, InstallScan,
                RefreshEntry, Reconcile, Finish, PassPoints, writerVars
  <2> QED
    BY <1>2, <2>1
<1>8. CASE AfterScan \/ AfterRefresh \/ FinishClose
  <2>1. /\ pending' = pending \/ pending' = pending \cup OpenPaths(docs)
        /\ pc' \in {"idle", "reconcile"}
    BY <1>2, <1>8 DEF AfterScan, AfterRefresh, FinishClose, Request, Finish,
                      OutsideKinds
  <2> QED
    BY <1>2, <1>5, <2>1 DEF PassPoints
<1>9. CASE StartPass
  BY <1>2, <1>9 DEF StartPass
<1>10. CASE TakeSnapshot \/ Gather \/ Publish
  <2>1. /\ pc \in {"snapshot"} \cup PassPoints
        /\ \/ UNCHANGED <<pending, wanted>>
           \/ pending' = pending \cup wanted /\ wanted' = {}
    BY <1>10 DEF TakeSnapshot, Gather, Publish, Request, PassPoints,
                 writerVars
  <2> QED
    BY <1>2, <2>1
<1> QED
  BY <1>7, <1>8, <1>9, <1>10

(* Without file, configuration and folder events a path waits for a pass   *)
(* only while a document is open there or its close is still queued, for   *)
(* every number of documents and names and every order of opens, changes,  *)
(* closes and settings: the close drops what the edits before it           *)
(* requested, and a close that leaves another document of the path open    *)
(* requests the path for that one.                                         *)
THEOREM NoStaleRequest == Spec => []PendingIsOpen
<1>1. Init => CoveredInv
  BY DEF Init, CoveredInv, QueueCovered, NoWork, OutsideKinds, PassPoints
<1>2. TypeInv /\ CoveredInv /\ [Next]_vars => CoveredInv'
  <2> SUFFICES ASSUME TypeInv, CoveredInv, [Next]_vars
               PROVE  CoveredInv'
    OBVIOUS
  <2>1. CASE ClientStep \/ DiskStep
    BY <2>1, HandlersKeepCovered
  <2>2. CASE WriterStep /\ UNCHANGED clientVars
    BY <2>2, ReceiveKeepsCovered, StepsKeepCovered DEF WriterStep
  <2>3. CASE UNCHANGED vars
    BY <2>3
    DEF vars, stateVars, writerVars, localVars, clientVars, CoveredInv,
        EditsOnly, QueueCovered, Covered, Requests
  <2> QED
    BY <2>1, <2>2, <2>3 DEF Next
<1>3. CoveredInv => PendingIsOpen
  BY DEF CoveredInv, PendingIsOpen, EditsOnly, Covered
<1> QED
  BY <1>1, <1>2, <1>3, TypeInvariant, PTL DEF Spec

-----------------------------------------------------------------------------
(* What stops being analysed                                               *)

\* The points from which the writer can only reach a pass or a
\* reconciliation, or never publishes again.
Reconciling ==
    {"reload", "folders", "watchers", "scan", "install", "scanned",
     "snapshot", "gather", "publish", "reconcile", "stopped"}

\* A reconciliation that will see the path p is scheduled, or p leaves the
\* record before.
Coming(p) ==
    \/ pending # {}
    \/ pc \in Reconciling
    \/ pc = "refresh" /\ job.kind = "closed"
    \/ pc = "refresh" /\ wanted # {}
    \/ \E i \in 1 .. Len(queue) : queue[i].kind = "publish"
    \/ \E i \in 1 .. Len(queue) : queue[i].kind = "closed" /\ queue[i].shared
    \/ \E i \in 1 .. Len(queue) : queue[i].kind = "closed" /\ queue[i].path = p

ReconciledInv ==
    /\ pc = "refresh" => job.kind \in {"closed", "watched"}
    /\ OpenPaths(docs) # {} => \A p \in Dropped : Coming(p)

\* Whether a path is analysed depends on its own documents only.
AnalysedIn(ds, p) ==
    AnyEligible(contexts, ds, p) /\ (IsOpen(ds, p) \/ diskFiles[p] # NoText)

LEMMA DroppedPaths ==
    Dropped = {p \in Paths : published[p] # {} /\ ~ AnalysedIn(docs, p)}
  BY DEF Dropped, AnalysedIn

LEMMA HandlersKeepReconciled ==
    TypeInv /\ ReconciledInv /\ (ClientStep \/ DiskStep) => ReconciledInv'
<1> SUFFICES ASSUME TypeInv, ReconciledInv, ClientStep \/ DiskStep
             PROVE  ReconciledInv'
  OBVIOUS
<1>1. UNCHANGED <<pending, published, pc, job, wanted, contexts, diskFiles>>
  <2>1. UNCHANGED <<contexts, diskFiles>>
    BY DEF ClientStep, DiskStep, DidOpen, DidChange, DidClose, Initialized,
           DidChangeConfiguration, DidChangeWatchedFiles, Shutdown,
           DidChangeWorkspaceFolders, WriteFile, WriteConfig, WriteMetadata,
           HandlerFrame, DiskFrame, stateVars
  <2> QED
    BY <2>1, OutsideWriter DEF writerVars, localVars
<1>2. queue \in Seq(Work) /\ Len(queue) \in Nat
  BY DEF TypeInv, TypeOK
<1>3. CASE UNCHANGED <<docs, queue>>
  BY <1>1, <1>3 DEF ReconciledInv, Coming, Dropped
<1>4. ASSUME NEW w \in Work, queue' = Append(queue, w), Queued(w)
      PROVE  ReconciledInv'
  <2>1. /\ Len(queue) + 1 \in 1 .. Len(queue')
        /\ queue'[Len(queue) + 1] = w
        /\ \A i \in 1 .. Len(queue) :
              i \in 1 .. Len(queue') /\ queue'[i] = queue[i]
    BY <1>2, <1>4
  <2> SUFFICES ASSUME OpenPaths(docs') # {}, NEW p \in Paths,
                      published[p] # {}, ~ AnalysedIn(docs, p)'
               PROVE  Coming(p)'
    BY <1>1, DroppedPaths DEF ReconciledInv, Dropped, AnalysedIn
  <2>2. CASE w.kind = "publish"
    BY <2>1, <2>2 DEF Coming
  <2>3. CASE w.kind = "closed" /\ w.path = p
    BY <2>1, <2>3 DEF Coming
  <2>4. CASE \/ UNCHANGED docs
             \/ w.kind = "closed" /\ w.path # p
    <3>1. docs'[p] = docs[p]
      BY <1>4, <2>4 DEF Queued
    <3>2. ~ AnalysedIn(docs, p)
      BY <1>1, <3>1 DEF AnalysedIn, AnyEligible, IsOpen
    <3>3. OpenPaths(docs) # {}
      <4>1. CASE UNCHANGED docs
        BY <4>1 DEF OpenPaths
      <4>2. CASE w.kind = "closed"
        BY <1>4, <4>2 DEF Queued
      <4> QED
        BY <2>4, <4>1, <4>2
    <3>4. Coming(p)
      BY <3>2, <3>3, DroppedPaths DEF ReconciledInv
    <3> QED
      BY <1>1, <2>1, <3>4 DEF Coming
  <2> QED
    BY <1>4, <2>2, <2>3, <2>4 DEF Queued
<1> QED
  BY <1>3, <1>4, HandlersQueue, DiskKeepsDocuments

LEMMA ReceiveKeepsReconciled ==
    TypeInv /\ ReconciledInv
    /\ (\/ TakePublish \/ TakeClosedShared \/ TakeClosed \/ TakeConfigure
        \/ TakeFolders \/ TakeWatched \/ TakeShutdown)
    => ReconciledInv'
<1> SUFFICES ASSUME TypeInv, ReconciledInv,
                    \/ TakePublish \/ TakeClosedShared \/ TakeClosed
                    \/ TakeConfigure \/ TakeFolders \/ TakeWatched
                    \/ TakeShutdown
             PROVE  ReconciledInv'
  OBVIOUS
<1>1. CASE TakePublish \/ TakeClosedShared
  <2>1. /\ pc' = "idle" \/ pc' = "reconcile"
        /\ pending' # {}
    BY <1>1 DEF TakePublish, TakeClosedShared, Request
  <2> QED
    BY <2>1 DEF ReconciledInv, Coming
<1>2. CASE TakeClosed
  <2>1. pc' = "refresh" /\ job'.kind = "closed"
    BY <1>2 DEF TakeClosed, Receives
  <2> QED
    BY <2>1 DEF ReconciledInv, Coming
<1>3. CASE TakeConfigure \/ TakeFolders \/ TakeShutdown
  <2>1. pc' \in {"reload", "folders", "stopped"}
    BY <1>3 DEF TakeConfigure, TakeFolders, TakeShutdown
  <2> QED
    BY <2>1 DEF ReconciledInv, Coming, Reconciling
<1>4. CASE TakeWatched
  <2>1. /\ queue \in Seq(Work) /\ queue # << >> /\ queue' = Tail(queue)
        /\ Head(queue).kind = "watched" /\ pc = "idle"
        /\ UNCHANGED <<docs, contexts, diskFiles, published, pending>>
        /\ job' = Head(queue)
        /\ pc' \in {"reload", "scan", "refresh"}
    BY <1>4 DEF TakeWatched, Receives, stateVars, writerVars, TypeInv, TypeOK
  <2>2. \A i \in 1 .. Len(queue) : i # 1 =>
            i - 1 \in 1 .. Len(queue') /\ queue'[i - 1] = queue[i]
    BY <2>1
  <2>3. queue[1].kind = "watched"
    BY <2>1
  <2> SUFFICES ASSUME OpenPaths(docs) # {}, NEW p \in Dropped
               PROVE  Coming(p)'
    BY <2>1 DEF ReconciledInv, Dropped
  <2>4. Coming(p)
    BY DEF ReconciledInv
  <2>5. CASE \/ \E i \in 1 .. Len(queue) : queue[i].kind = "publish"
             \/ \E i \in 1 .. Len(queue) :
                   queue[i].kind = "closed" /\ queue[i].shared
             \/ \E i \in 1 .. Len(queue) :
                   queue[i].kind = "closed" /\ queue[i].path = p
    BY <2>2, <2>3, <2>5 DEF Coming
  <2>6. pc \notin Reconciling /\ pc # "refresh"
    BY <2>1 DEF Reconciling
  <2> QED
    BY <2>1, <2>4, <2>5, <2>6 DEF Coming
<1> QED
  BY <1>1, <1>2, <1>3, <1>4

LEMMA StepsKeepReconciled ==
    TypeInv /\ ReconciledInv
    /\ (\/ Reload \/ ChangeFolders \/ RefreshWatchers \/ Rescan
        \/ InstallScan \/ AfterScan \/ RefreshEntry \/ AfterRefresh
        \/ FinishClose
        \/ StartPass \/ TakeSnapshot \/ Gather \/ Publish \/ Reconcile)
    => ReconciledInv'
<1> SUFFICES ASSUME TypeInv, ReconciledInv,
                    \/ Reload \/ ChangeFolders \/ RefreshWatchers \/ Rescan
                    \/ InstallScan \/ AfterScan \/ RefreshEntry
                    \/ AfterRefresh \/ FinishClose
                    \/ StartPass \/ TakeSnapshot \/ Gather \/ Publish
                    \/ Reconcile
             PROVE  ReconciledInv'
  OBVIOUS
\* A request leaves a path waiting, or reconciles at once.
<1>1. ASSUME NEW paths, Request(paths, pending)
      PROVE  ReconciledInv'
  BY <1>1 DEF Request, ReconciledInv, Coming, Reconciling
<1>2. CASE \/ Reload \/ ChangeFolders \/ RefreshWatchers \/ Rescan
           \/ InstallScan \/ StartPass \/ Gather
  <2>1. pc' \in Reconciling /\ pc' # "refresh"
    BY <1>2 DEF Reload, ChangeFolders, RefreshWatchers, Rescan, InstallScan,
                StartPass, Gather, Reconciling
  <2> QED
    BY <2>1 DEF ReconciledInv, Coming
<1>3. CASE AfterScan
  BY <1>1, <1>3 DEF AfterScan
<1>4. CASE RefreshEntry
  <2>1. PICK p \in sources :
            /\ IF IsOpen(docs, p)
               THEN UNCHANGED <<diskFiles, wanted>>
               ELSE /\ wanted' = wanted \cup {p}
            /\ UNCHANGED <<docs, contexts, queue, published, pending, pc, job>>
    BY <1>4 DEF RefreshEntry, writerVars
  <2>2. pc' = "refresh" /\ pc = "refresh"
    BY <1>4 DEF RefreshEntry
  <2>3. CASE IsOpen(docs, p)
    BY <2>1, <2>3 DEF ReconciledInv, Coming, Dropped
  <2>4. CASE ~ IsOpen(docs, p)
    BY <2>1, <2>2, <2>4 DEF ReconciledInv, Coming
  <2> QED
    BY <2>3, <2>4
<1>5. CASE AfterRefresh
  <2>1. CASE wanted = {}
    <3>1. /\ pc = "refresh" /\ job.kind = "watched" /\ pc' = "idle"
          /\ UNCHANGED <<docs, contexts, diskFiles, queue, published, pending>>
      BY <1>5, <2>1 DEF AfterRefresh, Finish, stateVars
    <3>2. \A p : Coming(p) => Coming(p)'
      BY <2>1, <3>1 DEF Coming, Reconciling
    <3> QED
      BY <3>1, <3>2 DEF ReconciledInv, Dropped
  <2>2. CASE wanted # {}
    BY <1>1, <1>5, <2>2 DEF AfterRefresh
  <2> QED
    BY <2>1, <2>2
<1>6. CASE FinishClose
  <2>1. CASE OpenPaths(docs) = {}
    BY <1>6, <2>1 DEF FinishClose, Finish, stateVars, ReconciledInv
  <2>2. CASE OpenPaths(docs) # {}
    BY <1>1, <1>6, <2>2 DEF FinishClose
  <2> QED
    BY <2>1, <2>2
<1>7. CASE TakeSnapshot
  <2>1. CASE queue # << >>
    BY <1>1, <1>7, <2>1 DEF TakeSnapshot
  <2>2. CASE queue = << >>
    BY <1>7, <2>2 DEF TakeSnapshot, ReconciledInv, Coming, Reconciling
  <2> QED
    BY <2>1, <2>2
<1>8. CASE Publish
  <2>1. CASE edited
    BY <1>1, <1>8, <2>1 DEF Publish
  <2>2. CASE ~ edited
    BY <1>8, <2>2 DEF Publish, ReconciledInv, Coming, Reconciling
  <2> QED
    BY <2>1, <2>2
<1>9. CASE Reconcile
  <2>1. /\ published' = [p \in Paths |->
                            IF p \in Dropped THEN {} ELSE published[p]]
        /\ pc' = "idle"
        /\ UNCHANGED <<docs, contexts, diskFiles>>
    BY <1>9 DEF Reconcile, Finish, stateVars
  <2>2. \A p : AnalysedIn(docs, p)' <=> AnalysedIn(docs, p)
    BY <2>1 DEF AnalysedIn, AnyEligible
  <2>3. Dropped' = {}
    BY <2>1, <2>2, DroppedPaths DEF Dropped, AnalysedIn
  <2> QED
    BY <2>1, <2>3 DEF ReconciledInv
<1> QED
  BY <1>2, <1>3, <1>4, <1>5, <1>6, <1>7, <1>8, <1>9

\* What leaves the analysis is reconciled.
LEMMA ReconciledInvariant == Spec => []ReconciledInv
<1>1. Init => ReconciledInv
  BY DEF Init, ReconciledInv, Dropped
<1>2. TypeInv /\ ReconciledInv /\ [Next]_vars => ReconciledInv'
  <2> SUFFICES ASSUME TypeInv, ReconciledInv, [Next]_vars
               PROVE  ReconciledInv'
    OBVIOUS
  <2>1. CASE ClientStep \/ DiskStep
    BY <2>1, HandlersKeepReconciled
  <2>2. CASE WriterStep
    BY <2>2, ReceiveKeepsReconciled, StepsKeepReconciled DEF WriterStep
  <2>3. CASE UNCHANGED vars
    BY <2>3
    DEF vars, stateVars, writerVars, localVars, ReconciledInv, Coming, Dropped
  <2> QED
    BY <2>1, <2>2, <2>3 DEF Next
<1> QED
  BY <1>1, <1>2, TypeInvariant, PTL DEF Spec

(* While a document is open and each path has one name, what stops being   *)
(* analysed is cleared: once settled, findings show only at the URI of an  *)
(* analysed path, whatever documents, files, configurations and folders    *)
(* went through.  Every step that can take a path out of the analysis      *)
(* leaves a pass pending or a reconciliation ahead.  With no document open *)
(* the close of the last one can drop the only pass that was pending.      *)
THEOREM StoppedIsCleared ==
    ASSUME OneName
    PROVE  Spec => [](OpenPaths(docs) # {} => OnlyAnalysed)
<1> DEFINE Cleaned == OpenPaths(docs) # {} => OnlyAnalysed
<1>1. TypeInv /\ Tracked /\ ReconciledInv => Cleaned
  <2> SUFFICES ASSUME TypeInv, Tracked, ReconciledInv, Quiescent,
                      OpenPaths(docs) # {}, NEW u \in Uris, view[u]
               PROVE  LET p == PathOf[u]
                      IN  /\ AnyEligible(contexts, docs, p)
                          /\ IsOpen(docs, p) \/ diskFiles[p] # NoText
                          /\ u \in Destinations(docs, p)
    BY DEF OnlyAnalysed
  <2>1. PathOf[u] \in Paths /\ published[PathOf[u]] # {}
    BY UriAssumption DEF Tracked, Quiescent
  <2>2. \A p : ~ Coming(p)
    BY DEF Coming, Quiescent, Reconciling
  <2>3. PathOf[u] \notin Dropped
    BY <2>2 DEF ReconciledInv
  <2>4. Destinations(docs, PathOf[u]) = {u}
    BY <2>1, OneDestination DEF TypeInv, TypeOK, OneName
  <2> QED
    BY <2>1, <2>3, <2>4 DEF Dropped
<1> QED
  BY <1>1, TypeInvariant, ReconciledInvariant, RecordIsExact, PTL

-----------------------------------------------------------------------------
(* The disk index                                                          *)

Mentions(w, r) == w.kind = "folders" /\ r \in w.added \cup w.removed

\* The last folder change that names a root decides whether it is one of
\* the client's folders: in the channel, in hand, or already made.
FoldersFollow ==
    \A r \in Roots :
        /\ \A i \in 1 .. Len(queue) :
              /\ Mentions(queue[i], r)
              /\ \A j \in 1 .. Len(queue) :
                    j > i => ~ Mentions(queue[j], r)
              => (r \in folders <=> r \in queue[i].added)
        /\ (\A j \in 1 .. Len(queue) : ~ Mentions(queue[j], r)) =>
              (r \in folders <=>
                  IF pc = "folders" /\ Mentions(job, r) THEN r \in job.added
                  ELSE r \in DOMAIN contexts)

\* A changed configuration is loaded, or its event is on the way.
ConfigsLoaded ==
    \/ events.config
    \/ \E i \in 1 .. Len(queue) : queue[i].kind = "watched" /\ queue[i].config
    \/ pc = "reload"
    \/ \A r \in DOMAIN contexts :
          config[r].valid => contexts[r] = config[r].exclude

\* Files are watched before anything is indexed.
WatchedFirst ==
    /\ \/ indexed \/ events # NoEvents \/ job.kind = "watched"
       \/ pc \in {"scan", "install", "scanned"}
       \/ \E i \in 1 .. Len(queue) : queue[i].kind = "watched"
       => watching
    /\ pc = "reload" => job.kind \in {"configure", "watched"}

\* What the index says of a path, once up to date.
Agrees(files, p) ==
    IF Owner(contexts, p) = Fallback THEN files[p] = NoText
    ELSE p \notin contexts[Owner(contexts, p)] =>
            files[p] = Readable(disk[p])

\* What will bring the entry of a path up to date.
EntryDue(p) ==
    \/ ~ indexed
    \/ IsOpen(docs, p)
    \/ pc \in {"reload", "folders", "watchers", "scan"}
    \/ p \in events.sources
    \/ \E i \in 1 .. Len(queue) :
          queue[i].kind = "watched" /\ p \in queue[i].sources
    \/ \E i \in 1 .. Len(queue) :
          queue[i].kind = "closed" /\ ~ queue[i].shared /\ queue[i].path = p
    \/ pc = "refresh" /\ p \in sources

EntriesAgree ==
    \A p \in Paths :
        EntryDue(p) \/ Agrees(IF pc = "install" THEN scanned ELSE diskFiles, p)

\* Nothing is indexed outside the folders.
Within(files) ==
    \A p \in Paths :
        files[p] # NoText => \E r \in DOMAIN contexts : p \in Inside[r]

IndexInv ==
    /\ FoldersFollow /\ ConfigsLoaded /\ WatchedFirst /\ EntriesAgree
    /\ Within(diskFiles)
    /\ pc = "install" => Within(scanned)

LEMMA OwnerIsInnermost ==
    ASSUME NEW ctxs, DOMAIN ctxs \subseteq Roots, NEW p \in Paths
    PROVE  \/ /\ Owner(ctxs, p) = Fallback
              /\ \A r \in DOMAIN ctxs : p \notin Inside[r]
           \/ /\ Owner(ctxs, p) # Fallback
              /\ Owner(ctxs, p) \in DOMAIN ctxs
              /\ p \in Inside[Owner(ctxs, p)]
<1> DEFINE owners == {r \in DOMAIN ctxs : p \in Inside[r]}
<1>1. CASE owners = {}
  BY <1>1 DEF Owner
<1>2. CASE owners # {}
  <2>1. \E r \in owners : \A s \in owners : Depth[s] <= Depth[r]
    <3>1. owners \in SUBSET {r \in Roots : p \in Inside[r]}
      OBVIOUS
    <3> HIDE DEF owners
    <3> QED
      BY <1>2, <3>1, FolderAssumption
  <2>2. Owner(ctxs, p) =
            CHOOSE r \in owners : \A s \in owners : Depth[s] <= Depth[r]
    BY <1>2 DEF Owner
  <2>3. Owner(ctxs, p) \in owners
    BY <2>1, <2>2
  <2>4. Owner(ctxs, p) # Fallback
    BY <2>3, FolderAssumption
  <2> QED
    BY <2>3, <2>4
<1> QED
  BY <1>1, <1>2

LEMMA WalkAgrees ==
    ASSUME DOMAIN contexts \subseteq Roots
    PROVE  /\ \A p \in Paths : Agrees(Walk(contexts, disk), p)
           /\ Within(Walk(contexts, disk))
<1>1. ASSUME NEW p \in Paths
      PROVE  Agrees(Walk(contexts, disk), p)
  <2>1. Walk(contexts, disk)[p] =
            IF \E r \in DOMAIN contexts : p \in Inside[r] \ contexts[r]
            THEN Readable(disk[p]) ELSE NoText
    BY DEF Walk
  <2> QED
    BY <2>1, OwnerIsInnermost DEF Agrees
<1>2. Within(Walk(contexts, disk))
  BY DEF Walk, Within
<1> QED
  BY <1>1, <1>2

\* Nothing outside the writer touches what the index is made of, or what
\* the writer holds.
LEMMA OutsideIndex ==
    ClientStep \/ DiskStep =>
        UNCHANGED <<contexts, diskFiles, indexed, pc, job, sources, scanned,
                    watching>>
<1>1. ClientStep \/ DiskStep => UNCHANGED <<contexts, diskFiles, watching>>
  BY DEF ClientStep, DiskStep, DidOpen, DidChange, DidClose, Initialized,
         DidChangeConfiguration, DidChangeWatchedFiles, Shutdown,
         DidChangeWorkspaceFolders, WriteFile, WriteConfig, WriteMetadata,
         HandlerFrame, DiskFrame, stateVars
<1> QED
  BY <1>1, OutsideWriter DEF writerVars, localVars

\* Every change of the disk that is watched leaves an event.
LEMMA DiskNotices ==
    TypeInv /\ DiskStep =>
        /\ watching \/ events' = events
        /\ events.sources \subseteq events'.sources
        /\ events.config => events'.config
        /\ config' = config \/ (watching /\ events'.config)
        /\ watching =>
              \A p \in Paths : disk'[p] = disk[p] \/ p \in events'.sources
<1> SUFFICES ASSUME TypeInv, DiskStep
             PROVE  /\ watching \/ events' = events
                    /\ events.sources \subseteq events'.sources
                    /\ events.config => events'.config
                    /\ config' = config \/ (watching /\ events'.config)
                    /\ watching => \A p \in Paths :
                          disk'[p] = disk[p] \/ p \in events'.sources
  OBVIOUS
<1>1. /\ events \in [sources : SUBSET Paths, config : BOOLEAN,
                     metadata : BOOLEAN]
      /\ disk \in Files
  BY DEF TypeInv, TypeOK
<1>2. ASSUME NEW q \in Paths, NEW text, WriteFile(q, text)
      PROVE  /\ events' = (IF watching
                           THEN [events EXCEPT !.sources = @ \cup {q}]
                           ELSE events)
             /\ disk' = [disk EXCEPT ![q] = text]
             /\ config' = config
  BY <1>2 DEF WriteFile, Notice
<1>3. ASSUME NEW r \in Roots, NEW value, WriteConfig(r, value)
      PROVE  /\ watching /\ disk' = disk
             /\ events' = [events EXCEPT !.config = TRUE]
  BY <1>3 DEF WriteConfig, Notice
<1>4. CASE WriteMetadata
  <2>1. /\ watching /\ disk' = disk /\ config' = config
        /\ events' = [events EXCEPT !.metadata = TRUE]
    BY <1>4 DEF WriteMetadata, Notice
  <2> QED
    BY <1>1, <2>1
<1>5. CASE \E q \in Paths, text \in budget.texts \cup {NoText} :
              WriteFile(q, text)
  BY <1>1, <1>2, <1>5 DEF Files
<1>6. CASE \E r \in Roots, value \in Configs : WriteConfig(r, value)
  BY <1>1, <1>3, <1>6
<1> QED
  BY <1>4, <1>5, <1>6 DEF DiskStep

LEMMA DiskKeepsIndex == TypeInv /\ IndexInv /\ DiskStep => IndexInv'
<1> SUFFICES ASSUME TypeInv, IndexInv, DiskStep PROVE IndexInv'
  OBVIOUS
<1>1. UNCHANGED <<docs, queue, folders, contexts, diskFiles, indexed, pc, job,
                  sources, scanned, watching>>
  BY OutsideIndex, DiskKeepsDocuments
<1>2. /\ watching \/ events' = events
      /\ events.sources \subseteq events'.sources
      /\ events.config => events'.config
      /\ config' = config \/ (watching /\ events'.config)
      /\ watching => \A p \in Paths :
            disk'[p] = disk[p] \/ p \in events'.sources
  BY DiskNotices
<1>3. FoldersFollow'
  BY <1>1 DEF IndexInv, FoldersFollow, Mentions
<1>4. ConfigsLoaded'
  BY <1>1, <1>2 DEF IndexInv, ConfigsLoaded
<1>5. WatchedFirst'
  BY <1>1, <1>2 DEF IndexInv, WatchedFirst
<1>6. EntriesAgree'
  <2> DEFINE files == IF pc = "install" THEN scanned ELSE diskFiles
  <2>1. ASSUME NEW p \in Paths, EntryDue(p)
        PROVE  EntryDue(p)'
    BY <1>1, <1>2, <2>1 DEF EntryDue
  <2>2. ASSUME NEW p \in Paths, ~ EntryDue(p), Agrees(files, p)
        PROVE  EntryDue(p)' \/ Agrees(files, p)'
    <3>1. watching
      BY <2>2 DEF EntryDue, IndexInv, WatchedFirst
    <3>2. CASE disk'[p] = disk[p]
      BY <1>1, <2>2, <3>2 DEF Agrees
    <3>3. CASE p \in events'.sources
      BY <3>3 DEF EntryDue
    <3> QED
      BY <1>2, <3>1, <3>2, <3>3
  <2> QED
    BY <2>1, <2>2 DEF IndexInv, EntriesAgree
<1>7. Within(diskFiles)' /\ (pc' = "install" => Within(scanned)')
  BY <1>1 DEF IndexInv, Within
<1> QED
  BY <1>3, <1>4, <1>5, <1>6, <1>7 DEF IndexInv

LEMMA ClientKeepsIndex == TypeInv /\ IndexInv /\ ClientStep => IndexInv'
<1> SUFFICES ASSUME TypeInv, IndexInv, ClientStep PROVE IndexInv'
  OBVIOUS
<1>1. UNCHANGED <<contexts, diskFiles, indexed, pc, job, sources, scanned,
                  watching>>
  BY OutsideIndex
<1>2. PICK w \in Work : queue' = Append(queue, w) /\ Queued(w)
  BY HandlersQueue
<1>3. /\ Len(queue) \in Nat
      /\ Len(queue') = Len(queue) + 1
      /\ queue'[Len(queue) + 1] = w
      /\ \A i \in 1 .. Len(queue) : queue'[i] = queue[i]
  BY <1>2 DEF TypeInv, TypeOK
<1>4. disk' = disk /\ config' = config
  BY <1>2 DEF Queued
<1>5. FoldersFollow'
  <2> SUFFICES ASSUME NEW r \in Roots
               PROVE
        /\ \A i \in 1 .. Len(queue') :
              /\ Mentions(queue'[i], r)
              /\ \A j \in 1 .. Len(queue') :
                    j > i => ~ Mentions(queue'[j], r)
              => (r \in folders' <=> r \in queue'[i].added)
        /\ (\A j \in 1 .. Len(queue') : ~ Mentions(queue'[j], r)) =>
              (r \in folders' <=>
                  IF pc = "folders" /\ Mentions(job, r) THEN r \in job.added
                  ELSE r \in DOMAIN contexts)
    BY <1>1 DEF FoldersFollow, Mentions
  <2>1. Len(queue) + 1 \in 1 .. Len(queue')
    BY <1>3
  <2>2. CASE Mentions(w, r)
    <3>1. r \in folders' <=> r \in w.added
      BY <1>2, <2>2 DEF Queued, Mentions
    <3>2. \A i \in 1 .. Len(queue') :
             i = Len(queue) + 1 \/ Len(queue) + 1 > i
      BY <1>3
    <3> QED
      BY <1>3, <2>1, <2>2, <3>1, <3>2
  <2>3. CASE ~ Mentions(w, r)
    <3>1. r \in folders' <=> r \in folders
      BY <1>2, <2>3 DEF Queued, Mentions
    <3>2. \A i \in 1 .. Len(queue') :
             \/ i \in 1 .. Len(queue)
             \/ queue'[i] = w
      BY <1>3
    <3>3. \A i \in 1 .. Len(queue) : i \in 1 .. Len(queue')
      BY <1>3
    <3> QED
      BY <1>3, <2>3, <3>1, <3>2, <3>3 DEF IndexInv, FoldersFollow
  <2> QED
    BY <2>2, <2>3
<1>6. \A i \in 1 .. Len(queue) : i \in 1 .. Len(queue')
  BY <1>3
<1>7. Len(queue) + 1 \in 1 .. Len(queue')
  BY <1>3
<1>8. ConfigsLoaded'
  <2>1. CASE events.config
    <3>1. events'.config \/ (w.kind = "watched" /\ w.config)
      BY <1>2, <2>1 DEF Queued
    <3> QED
      BY <1>3, <1>7, <3>1 DEF ConfigsLoaded
  <2>2. CASE ~ events.config
    BY <1>1, <1>3, <1>4, <1>6, <2>2 DEF IndexInv, ConfigsLoaded
  <2> QED
    BY <2>1, <2>2
<1>9. WatchedFirst'
  <2>1. events' # NoEvents \/ w.kind = "watched" => events # NoEvents
    <3>1. events' = NoEvents \/ events' = events
      BY DEF ClientStep, DidOpen, DidChange, DidClose, Initialized,
             DidChangeConfiguration, DidChangeWatchedFiles, Shutdown,
             DidChangeWorkspaceFolders, HandlerFrame
    <3> QED
      BY <1>2, <3>1 DEF Queued
  <2>2. \A i \in 1 .. Len(queue') : i \in 1 .. Len(queue) \/ queue'[i] = w
    BY <1>3
  <2> QED
    BY <1>1, <1>3, <2>1, <2>2 DEF IndexInv, WatchedFirst
<1>10. EntriesAgree'
  <2> DEFINE files == IF pc = "install" THEN scanned ELSE diskFiles
  <2>1. ASSUME NEW p \in Paths, EntryDue(p)
        PROVE  EntryDue(p)'
    <3>1. CASE p \in events.sources
      <4>1. p \in events'.sources \/ (w.kind = "watched" /\ p \in w.sources)
        BY <1>2, <3>1 DEF Queued
      <4> QED
        BY <1>3, <1>7, <4>1 DEF EntryDue
    <3>2. CASE IsOpen(docs, p)
      <4>1. \/ IsOpen(docs', p)
            \/ w.kind = "closed" /\ ~ w.shared /\ w.path = p
        BY <1>2, <3>2 DEF Queued, IsOpen
      <4> QED
        BY <1>3, <1>7, <4>1 DEF EntryDue
    <3>3. CASE \/ ~ indexed \/ pc \in {"reload", "folders", "watchers", "scan"}
               \/ pc = "refresh" /\ p \in sources
      BY <1>1, <3>3 DEF EntryDue
    <3>4. CASE \/ \E i \in 1 .. Len(queue) :
                     queue[i].kind = "watched" /\ p \in queue[i].sources
               \/ \E i \in 1 .. Len(queue) :
                     queue[i].kind = "closed" /\ ~ queue[i].shared
                     /\ queue[i].path = p
      BY <1>3, <1>6, <3>4 DEF EntryDue
    <3> QED
      BY <2>1, <3>1, <3>2, <3>3, <3>4 DEF EntryDue
  <2>2. ASSUME NEW p \in Paths, Agrees(files, p)
        PROVE  Agrees(files, p)'
    BY <1>1, <1>4, <2>2 DEF Agrees
  <2> QED
    BY <2>1, <2>2 DEF IndexInv, EntriesAgree
<1>11. Within(diskFiles)' /\ (pc' = "install" => Within(scanned)')
  BY <1>1 DEF IndexInv, Within
<1> QED
  BY <1>5, <1>8, <1>9, <1>10, <1>11 DEF IndexInv

LEMMA ReceiveKeepsIndex ==
    TypeInv /\ IndexInv /\ UNCHANGED clientVars
    /\ (\/ TakePublish \/ TakeClosedShared \/ TakeClosed \/ TakeConfigure
        \/ TakeFolders \/ TakeWatched \/ TakeShutdown)
    => IndexInv'
<1> SUFFICES ASSUME TypeInv, IndexInv, UNCHANGED clientVars, queue # << >>,
                    \/ TakePublish \/ TakeClosedShared \/ TakeClosed
                    \/ TakeConfigure \/ TakeFolders \/ TakeWatched
                    \/ TakeShutdown
             PROVE  IndexInv'
  BY DEF Receives, TakePublish, TakeClosedShared, TakeClosed, TakeConfigure,
         TakeFolders, TakeWatched, TakeShutdown
<1>1. /\ UNCHANGED <<docs, contexts, diskFiles, indexed, scanned, watching,
                     disk, config, events, folders>>
      /\ queue' = Tail(queue)
      /\ pc = "idle"
  BY DEF Receives, TakePublish, TakeClosedShared, TakeClosed, TakeConfigure,
         TakeFolders, TakeWatched, TakeShutdown, stateVars, writerVars,
         localVars, outerVars, clientVars
<1>2. /\ queue \in Seq(Work) /\ Len(queue) \in Nat /\ 1 \in 1 .. Len(queue)
      /\ Head(queue) = queue[1]
      /\ Len(queue') = Len(queue) - 1
      /\ \A i \in 1 .. Len(queue) - 1 : queue'[i] = queue[i + 1]
  BY <1>1 DEF TypeInv, TypeOK
\* The items left are those after the head.
<1>3. /\ \A i \in 1 .. Len(queue) :
            i # 1 => i - 1 \in 1 .. Len(queue') /\ queue'[i - 1] = queue[i]
      /\ \A i \in 1 .. Len(queue') :
            i + 1 \in 1 .. Len(queue) /\ queue'[i] = queue[i + 1]
  <2>1. \A i \in 1 .. Len(queue) : i # 1 => i - 1 \in 1 .. Len(queue) - 1
    BY <1>2
  <2>2. \A i \in 1 .. Len(queue) : i # 1 => (i - 1) + 1 = i
    BY <1>2
  <2>3. \A i \in 1 .. Len(queue) - 1 : i + 1 \in 1 .. Len(queue)
    BY <1>2
  <2> QED
    BY <1>2, <2>1, <2>2, <2>3
<1>4. /\ Head(queue).kind = "folders" => TakeFolders
      /\ Head(queue).kind = "watched" => TakeWatched
      /\ Head(queue).kind = "closed" /\ ~ Head(queue).shared => TakeClosed
  BY Zenon
  DEF Receives, TakePublish, TakeClosedShared, TakeClosed, TakeConfigure,
      TakeFolders, TakeWatched, TakeShutdown
<1>5. /\ TakeFolders => pc' = "folders" /\ job' = Head(queue)
      /\ ~ TakeFolders => pc' # "folders"
      /\ pc' # "install"
      /\ TakeWatched => /\ job' = Head(queue)
                        /\ Head(queue).config => pc' = "reload"
                        /\ \/ pc' \in {"reload", "scan"}
                           \/ pc' = "refresh" /\ sources' = Head(queue).sources
      /\ TakeClosed => pc' = "refresh" /\ sources' = {Head(queue).path}
  BY DEF TakePublish, TakeClosedShared, TakeClosed, TakeConfigure,
         TakeFolders, TakeWatched, TakeShutdown, Request
<1>6. /\ pc' = "scan" => TakeWatched
      /\ pc' = "reload" => job'.kind \in {"configure", "watched"}
      /\ job'.kind = "watched" => TakeWatched \/ job' = job
      /\ pc' \notin {"install", "scanned"}
      /\ TakeWatched => Head(queue).kind = "watched"
  <2>1. CASE TakePublish \/ TakeClosedShared
    <3>1. pc' \in {"idle", "reconcile"} /\ job' = NoWork
      BY <2>1 DEF TakePublish, TakeClosedShared, Request
    <3>2. ~ TakeWatched
      BY <2>1 DEF TakePublish, TakeClosedShared, TakeWatched, Receives
    <3> QED
      BY <3>1, <3>2 DEF NoWork
  <2>2. CASE TakeClosed \/ TakeFolders \/ TakeConfigure
    <3>1. /\ pc' \in {"refresh", "folders", "reload"}
          /\ job'.kind \in {"closed", "folders", "configure"}
          /\ pc' = "reload" => job'.kind = "configure"
      BY <2>2 DEF TakeClosed, TakeFolders, TakeConfigure, Receives
    <3>2. ~ TakeWatched
      BY <2>2 DEF TakeClosed, TakeFolders, TakeConfigure, TakeWatched,
                  Receives
    <3> QED
      BY <3>1, <3>2
  <2>3. CASE TakeWatched
    BY <2>3 DEF TakeWatched, Receives
  <2>4. CASE TakeShutdown
    BY <2>4 DEF TakeShutdown, TakeWatched, Receives
  <2> QED
    BY <2>1, <2>2, <2>3, <2>4
<1>7. FoldersFollow'
  <2> SUFFICES ASSUME NEW r \in Roots
               PROVE
        /\ \A i \in 1 .. Len(queue') :
              /\ Mentions(queue'[i], r)
              /\ \A j \in 1 .. Len(queue') :
                    j > i => ~ Mentions(queue'[j], r)
              => (r \in folders <=> r \in queue'[i].added)
        /\ (\A j \in 1 .. Len(queue') : ~ Mentions(queue'[j], r)) =>
              (r \in folders <=>
                  IF pc' = "folders" /\ Mentions(job', r)
                  THEN r \in job'.added ELSE r \in DOMAIN contexts)
    BY <1>1 DEF FoldersFollow, Mentions
  <2>1. ASSUME NEW i \in 1 .. Len(queue'), Mentions(queue'[i], r),
               \A j \in 1 .. Len(queue') : j > i => ~ Mentions(queue'[j], r)
        PROVE  r \in folders <=> r \in queue'[i].added
    <3>1. \A j \in 1 .. Len(queue) : j > i + 1 => ~ Mentions(queue[j], r)
      <4> SUFFICES ASSUME NEW j \in 1 .. Len(queue), j > i + 1
                   PROVE  ~ Mentions(queue[j], r)
        OBVIOUS
      <4>1. j - 1 \in 1 .. Len(queue') /\ j - 1 > i /\ queue'[j - 1] = queue[j]
        BY <1>2
      <4> QED
        BY <2>1, <4>1
    <3>2. i + 1 \in 1 .. Len(queue) /\ queue'[i] = queue[i + 1]
      BY <1>3
    <3> QED
      BY <2>1, <3>1, <3>2 DEF IndexInv, FoldersFollow
  <2>2. ASSUME \A j \in 1 .. Len(queue') : ~ Mentions(queue'[j], r)
        PROVE  r \in folders <=>
                  IF pc' = "folders" /\ Mentions(job', r)
                  THEN r \in job'.added ELSE r \in DOMAIN contexts
    <3>1. \A j \in 1 .. Len(queue) : j # 1 => ~ Mentions(queue[j], r)
      BY <1>3, <2>2
    <3>2. CASE Mentions(queue[1], r)
      <4>1. pc' = "folders" /\ job' = queue[1]
        BY <1>2, <1>4, <1>5, <3>2 DEF Mentions
      <4>2. \A j \in 1 .. Len(queue) : j > 1 => ~ Mentions(queue[j], r)
        BY <3>1
      <4>3. r \in folders <=> r \in queue[1].added
        BY <1>2, <3>2, <4>2 DEF IndexInv, FoldersFollow
      <4> QED
        BY <3>2, <4>1, <4>3
    <3>3. CASE ~ Mentions(queue[1], r)
      <4>1. r \in folders <=> r \in DOMAIN contexts
        BY <1>1, <3>1, <3>3 DEF IndexInv, FoldersFollow
      <4>2. ~ (pc' = "folders" /\ Mentions(job', r))
        BY <1>2, <1>5, <3>3
      <4> QED
        BY <4>1, <4>2
    <3> QED
      BY <3>2, <3>3
  <2> QED
    BY <2>1, <2>2
<1>8. ConfigsLoaded'
  <2>1. ASSUME NEW i \in 1 .. Len(queue), queue[i].kind = "watched",
               queue[i].config
        PROVE  ConfigsLoaded'
    BY <1>2, <1>3, <1>4, <1>5, <2>1 DEF ConfigsLoaded
  <2>2. CASE events.config \/ \A r \in DOMAIN contexts :
                config[r].valid => contexts[r] = config[r].exclude
    BY <1>1, <2>2 DEF ConfigsLoaded
  <2> QED
    BY <1>1, <2>1, <2>2 DEF IndexInv, ConfigsLoaded
<1>9. WatchedFirst'
  <2>1. TakeWatched => watching
    BY <1>2, <1>6 DEF IndexInv, WatchedFirst
  <2> QED
    BY <1>1, <1>3, <1>6, <2>1 DEF IndexInv, WatchedFirst
<1>10. EntriesAgree'
  <2>1. ASSUME NEW p \in Paths, EntryDue(p)
        PROVE  EntryDue(p)'
    <3>1. CASE ~ indexed \/ IsOpen(docs, p) \/ p \in events.sources
      BY <1>1, <3>1 DEF EntryDue
    <3>2. ASSUME NEW i \in 1 .. Len(queue), queue[i].kind = "watched",
                 p \in queue[i].sources
          PROVE  EntryDue(p)'
      BY <1>2, <1>3, <1>4, <1>5, <3>2 DEF EntryDue
    <3>3. ASSUME NEW i \in 1 .. Len(queue), queue[i].kind = "closed",
                 ~ queue[i].shared, queue[i].path = p
          PROVE  EntryDue(p)'
      BY <1>2, <1>3, <1>4, <1>5, <3>3 DEF EntryDue
    <3> QED
      BY <1>1, <2>1, <3>1, <3>2, <3>3 DEF EntryDue
  <2>2. ASSUME NEW p \in Paths, Agrees(diskFiles, p)
        PROVE  Agrees(diskFiles, p)'
    BY <1>1, <2>2 DEF Agrees
  <2> QED
    BY <1>1, <1>5, <2>1, <2>2 DEF IndexInv, EntriesAgree
<1>11. Within(diskFiles)' /\ (pc' = "install" => Within(scanned)')
  BY <1>1, <1>5 DEF IndexInv, Within
<1> QED
  BY <1>7, <1>8, <1>9, <1>10, <1>11 DEF IndexInv

\* The steps of a rescan and of a folder change.
LEMMA RescanKeepsIndex ==
    TypeInv /\ IndexInv /\ UNCHANGED clientVars
    /\ (Reload \/ ChangeFolders \/ RefreshWatchers \/ Rescan \/ InstallScan)
    => IndexInv'
<1> SUFFICES ASSUME TypeInv, IndexInv, UNCHANGED clientVars,
                    \/ Reload \/ ChangeFolders \/ RefreshWatchers \/ Rescan
                    \/ InstallScan
             PROVE  IndexInv'
  OBVIOUS
<1>1. UNCHANGED <<docs, queue, job, sources, disk, config, events, folders>>
  BY DEF Reload, ChangeFolders, RefreshWatchers, Rescan, InstallScan,
         stateVars, localVars, outerVars, clientVars
<1>2. DOMAIN contexts \subseteq Roots
  BY DEF TypeInv, TypeOK
<1>3. CASE Reload
  <2>1. /\ contexts' = [r \in DOMAIN contexts |->
                            LoadConfig(config[r], contexts[r])]
        /\ pc = "reload"
        /\ pc' = IF job.kind = "configure" THEN "watchers" ELSE "scan"
        /\ UNCHANGED <<diskFiles, indexed, scanned, watching>>
    BY <1>3 DEF Reload, writerVars, localVars
  <2>2. DOMAIN contexts' = DOMAIN contexts
    BY <2>1
  <2>3. FoldersFollow'
    BY <1>1, <2>1, <2>2 DEF IndexInv, FoldersFollow, Mentions
  <2>4. ConfigsLoaded'
    BY <1>1, <2>1 DEF ConfigsLoaded, LoadConfig
  <2>5. WatchedFirst'
    BY <1>1, <2>1 DEF IndexInv, WatchedFirst
  <2>6. EntriesAgree'
    BY <2>1 DEF EntriesAgree, EntryDue
  <2>7. Within(diskFiles)' /\ pc' # "install"
    BY <2>1, <2>2 DEF IndexInv, Within
  <2> QED
    BY <2>3, <2>4, <2>5, <2>6, <2>7 DEF IndexInv
<1>4. CASE ChangeFolders
  <2> DEFINE gone == UNION {Inside[r] : r \in job.removed}
             kept == DOMAIN contexts \ job.removed
  <2>1. /\ contexts' = [r \in kept \cup job.added |->
                           IF r \in kept THEN contexts[r]
                           ELSE LoadConfig(config[r], {})]
        /\ diskFiles' = [p \in Paths |->
                            IF p \in gone THEN NoText ELSE diskFiles[p]]
        /\ pc = "folders" /\ pc' = "watchers"
        /\ UNCHANGED <<indexed, scanned, watching>>
    BY <1>4 DEF ChangeFolders, localVars
  <2>2. job.kind = "folders"
    BY <2>1 DEF TypeInv, JobInHand
  <2>3. DOMAIN contexts' = kept \cup job.added
    BY <2>1
  <2>4. FoldersFollow'
    <3>1. \A r \in Roots : r \in DOMAIN contexts' <=>
              IF Mentions(job, r) THEN r \in job.added
              ELSE r \in DOMAIN contexts
      BY <2>2, <2>3 DEF Mentions
    <3> QED
      BY <1>1, <2>1, <3>1 DEF IndexInv, FoldersFollow, Mentions
  <2>5. ConfigsLoaded'
    <3>1. CASE \A r \in DOMAIN contexts :
                  config[r].valid => contexts[r] = config[r].exclude
      BY <1>1, <2>1, <3>1 DEF ConfigsLoaded, LoadConfig
    <3>2. CASE \/ events.config
               \/ \E i \in 1 .. Len(queue) :
                     queue[i].kind = "watched" /\ queue[i].config
      BY <1>1, <3>2 DEF ConfigsLoaded
    <3> QED
      BY <2>1, <3>1, <3>2 DEF IndexInv, ConfigsLoaded
  <2>6. WatchedFirst'
    BY <1>1, <2>1 DEF IndexInv, WatchedFirst
  <2>7. EntriesAgree'
    BY <2>1 DEF EntriesAgree, EntryDue
  <2>8. Within(diskFiles)'
    <3> SUFFICES ASSUME NEW p \in Paths, diskFiles'[p] # NoText
                 PROVE  \E r \in DOMAIN contexts' : p \in Inside[r]
      BY DEF Within
    <3>1. p \notin gone /\ diskFiles[p] # NoText
      BY <2>1
    <3>2. PICK r \in DOMAIN contexts : p \in Inside[r]
      BY <3>1 DEF IndexInv, Within
    <3>3. r \in kept
      BY <3>1, <3>2
    <3> QED
      BY <2>3, <3>2, <3>3
  <2> QED
    BY <2>1, <2>4, <2>5, <2>6, <2>7, <2>8 DEF IndexInv
<1>5. CASE RefreshWatchers
  <2>1. /\ watching' /\ pc = "watchers" /\ pc' = "scan"
        /\ UNCHANGED <<contexts, diskFiles, indexed, scanned>>
    BY <1>5 DEF RefreshWatchers, stateVars, writerVars, localVars
  <2> QED
    BY <1>1, <2>1
    DEF IndexInv, FoldersFollow, Mentions, ConfigsLoaded, WatchedFirst,
        EntriesAgree, EntryDue, Within
<1>6. CASE Rescan
  <2>1. /\ indexed' /\ pc = "scan"
        /\ UNCHANGED <<contexts, diskFiles, watching>>
        /\ watching
    BY <1>6 DEF Rescan, stateVars, IndexInv, WatchedFirst
  <2>2. CASE DOMAIN contexts = {}
    <3>1. pc' = "scanned" /\ UNCHANGED scanned
      BY <1>6, <2>2 DEF Rescan
    <3>2. \A p \in Paths : Agrees(diskFiles, p)'
      BY <1>1, <1>2, <2>1, <2>2, OwnerIsInnermost
      DEF Agrees, IndexInv, Within
    <3> QED
      BY <1>1, <2>1, <3>1, <3>2
      DEF IndexInv, FoldersFollow, Mentions, ConfigsLoaded, WatchedFirst,
          EntriesAgree, Within
  <2>3. CASE DOMAIN contexts # {}
    <3>1. pc' = "install" /\ scanned' = Walk(contexts, disk)
      BY <1>6, <2>3 DEF Rescan
    <3>2. \A p \in Paths : Agrees(scanned, p)'
      BY <1>1, <1>2, <2>1, <3>1, WalkAgrees DEF Agrees
    <3>3. Within(scanned)'
      BY <1>2, <2>1, <3>1, WalkAgrees DEF Within
    <3> QED
      BY <1>1, <2>1, <3>1, <3>2, <3>3
      DEF IndexInv, FoldersFollow, Mentions, ConfigsLoaded, WatchedFirst,
          EntriesAgree, Within
  <2> QED
    BY <2>2, <2>3
<1>7. CASE InstallScan
  <2>1. /\ diskFiles' = scanned
        /\ pc = "install" /\ pc' = "scanned"
        /\ UNCHANGED <<contexts, indexed, watching>>
    BY <1>7 DEF InstallScan, writerVars
  <2>2. EntriesAgree'
    BY <1>1, <2>1 DEF IndexInv, EntriesAgree, EntryDue, Agrees
  <2> QED
    BY <1>1, <2>1, <2>2
    DEF IndexInv, FoldersFollow, Mentions, ConfigsLoaded, WatchedFirst, Within
<1> QED
  BY <1>3, <1>4, <1>5, <1>6, <1>7

LEMMA RefreshKeepsIndex ==
    TypeInv /\ IndexInv /\ UNCHANGED clientVars /\ RefreshEntry => IndexInv'
<1> SUFFICES ASSUME TypeInv, IndexInv, UNCHANGED clientVars, RefreshEntry
             PROVE  IndexInv'
  OBVIOUS
<1>1. /\ UNCHANGED <<docs, contexts, queue, indexed, pc, job, scanned, disk,
                     config, events, folders, watching>>
      /\ pc = "refresh"
  BY DEF RefreshEntry, writerVars, outerVars, clientVars
<1>2. PICK p \in sources :
          /\ sources' = sources \ {p}
          /\ IF IsOpen(docs, p) THEN UNCHANGED diskFiles
             ELSE diskFiles' = [diskFiles EXCEPT ![p] =
                      IF /\ Owner(contexts, p) # Fallback
                         /\ p \notin contexts[Owner(contexts, p)]
                      THEN Readable(disk[p]) ELSE NoText]
  BY DEF RefreshEntry
<1>3. /\ p \in Paths /\ diskFiles \in [Paths -> Texts \cup {NoText}]
      /\ DOMAIN contexts \subseteq Roots
  BY DEF TypeInv, TypeOK, Files
<1>4. \A q \in Paths \ {p} : diskFiles'[q] = diskFiles[q]
  BY <1>2, <1>3
<1>5. CASE IsOpen(docs, p)
  <2>1. UNCHANGED diskFiles
    BY <1>2, <1>5
  <2>2. EntriesAgree'
    BY <1>1, <1>2, <1>5, <2>1 DEF IndexInv, EntriesAgree, EntryDue, Agrees
  <2> QED
    BY <1>1, <2>1, <2>2
    DEF IndexInv, FoldersFollow, Mentions, ConfigsLoaded, WatchedFirst, Within
<1>6. CASE ~ IsOpen(docs, p)
  <2>1. diskFiles'[p] = IF /\ Owner(contexts, p) # Fallback
                           /\ p \notin contexts[Owner(contexts, p)]
                        THEN Readable(disk[p]) ELSE NoText
    BY <1>2, <1>3, <1>6
  <2>2. Agrees(diskFiles, p)'
    BY <1>1, <2>1 DEF Agrees
  <2>3. \A q \in Paths \ {p} :
            EntryDue(q)' \/ Agrees(diskFiles, q)'
    BY <1>1, <1>2, <1>4 DEF IndexInv, EntriesAgree, EntryDue, Agrees
  <2>4. Within(diskFiles)'
    <3>1. diskFiles'[p] # NoText => \E r \in DOMAIN contexts : p \in Inside[r]
      BY <1>3, <2>1, OwnerIsInnermost
    <3> QED
      BY <1>1, <1>4, <3>1 DEF IndexInv, Within
  <2> QED
    BY <1>1, <2>2, <2>3, <2>4
    DEF IndexInv, FoldersFollow, Mentions, ConfigsLoaded, WatchedFirst,
        EntriesAgree
<1> QED
  BY <1>5, <1>6

\* The other steps change neither the index nor what it must agree with.
LEMMA PassKeepsIndex ==
    TypeInv /\ IndexInv /\ UNCHANGED clientVars
    /\ (\/ AfterScan \/ AfterRefresh \/ FinishClose
        \/ StartPass \/ TakeSnapshot \/ Gather \/ Publish \/ Reconcile)
    => IndexInv'
<1> SUFFICES ASSUME TypeInv, IndexInv, UNCHANGED clientVars,
                    \/ AfterScan \/ AfterRefresh \/ FinishClose
                    \/ StartPass \/ TakeSnapshot \/ Gather \/ Publish
                    \/ Reconcile
             PROVE  IndexInv'
  OBVIOUS
<1>1. UNCHANGED <<docs, contexts, diskFiles, queue, indexed, sources, scanned,
                  disk, config, events, folders, watching>>
  BY DEF AfterScan, AfterRefresh, FinishClose, StartPass, TakeSnapshot,
         Gather, Publish, Reconcile, stateVars, writerVars, outerVars,
         clientVars
<1>2. /\ pc \in {"scanned", "refresh", "idle", "snapshot", "gather", "publish",
                 "reconcile"}
      /\ pc' \in {"idle", "snapshot", "gather", "publish", "reconcile"}
      /\ pc = "refresh" => sources = {}
      /\ job' = job \/ job' = NoWork
  BY DEF AfterScan, AfterRefresh, FinishClose, StartPass, TakeSnapshot,
         Gather, Publish, Reconcile, Request, Finish
<1>3. FoldersFollow'
  BY <1>1, <1>2 DEF IndexInv, FoldersFollow, Mentions
<1>4. ConfigsLoaded'
  BY <1>1, <1>2 DEF IndexInv, ConfigsLoaded
<1>5. WatchedFirst'
  BY <1>1, <1>2 DEF IndexInv, WatchedFirst, NoWork
<1>6. EntriesAgree'
  BY <1>1, <1>2 DEF IndexInv, EntriesAgree, EntryDue, Agrees
<1>7. Within(diskFiles)' /\ pc' # "install"
  BY <1>1, <1>2 DEF IndexInv, Within
<1> QED
  BY <1>3, <1>4, <1>5, <1>6, <1>7 DEF IndexInv

\* The index and what brings it up to date.
LEMMA IndexInvariant == Spec => []IndexInv
<1>1. Init => IndexInv
  <2> SUFFICES ASSUME Init PROVE IndexInv
    OBVIOUS
  <2>1. PICK s \in Scenarios :
            folders = s.folders /\ contexts = [r \in s.folders |-> {}]
    BY DEF Init
  <2>2. DOMAIN contexts = folders /\ folders \subseteq Roots
    BY <2>1, SessionAssumption
  <2>3. FoldersFollow
    BY <2>2 DEF Init, FoldersFollow
  <2>4. ConfigsLoaded
    BY <2>1, <2>2 DEF Init, ConfigsLoaded
  <2> QED
    BY <2>3, <2>4
    DEF Init, IndexInv, WatchedFirst, EntriesAgree, EntryDue, Within, NoWork
<1>2. TypeInv /\ IndexInv /\ [Next]_vars => IndexInv'
  <2> SUFFICES ASSUME TypeInv, IndexInv, [Next]_vars
               PROVE  IndexInv'
    OBVIOUS
  <2>1. CASE ClientStep \/ DiskStep
    BY <2>1, ClientKeepsIndex, DiskKeepsIndex
  <2>2. CASE WriterStep /\ UNCHANGED clientVars
    BY <2>2, ReceiveKeepsIndex, RescanKeepsIndex, RefreshKeepsIndex,
       PassKeepsIndex
    DEF WriterStep
  <2>3. CASE UNCHANGED vars
    BY <2>3
    DEF vars, stateVars, writerVars, localVars, outerVars, clientVars,
        IndexInv, FoldersFollow, Mentions, ConfigsLoaded, WatchedFirst,
        EntriesAgree, EntryDue, Agrees, Within
  <2> QED
    BY <2>1, <2>2, <2>3 DEF Next
<1> QED
  BY <1>1, <1>2, TypeInvariant, PTL DEF Spec

(* Once every event is handled the disk index agrees with a fresh walk     *)
(* about every closed file the server analyses, for any files, nested      *)
(* folders and configurations and any order of events.  Whatever changes   *)
(* an entry leaves a rescan ahead, or an event of that path on the way;    *)
(* the folders are those of the last change that named them; and files are *)
(* watched before the first of them is read, so no write in between is     *)
(* missed.                                                                 *)
THEOREM IndexFollowsDisk == Spec => []IndexCurrent
<1>1. TypeInv /\ IndexInv => IndexCurrent
  <2> DEFINE ctxs == [r \in folders |-> LoadConfig(config[r], contexts[r])]
  <2> SUFFICES ASSUME TypeInv, IndexInv, Quiescent,
                      NEW p \in Paths \ OpenPaths(docs),
                      Eligible(ctxs, p, NoText)
               PROVE  diskFiles[p] = Walk(ctxs, disk)[p]
    BY DEF IndexCurrent
  <2>1. /\ DOMAIN contexts \subseteq Roots
        /\ contexts \in [DOMAIN contexts -> Excludes]
        /\ folders \subseteq Roots
    BY DEF TypeInv, TypeOK
  <2>2. folders = DOMAIN contexts
    BY <2>1 DEF IndexInv, FoldersFollow, Quiescent
  <2>3. \A r \in DOMAIN contexts :
            config[r].valid => contexts[r] = config[r].exclude
    BY DEF IndexInv, ConfigsLoaded, Quiescent, NoEvents
  <2>4. ctxs = contexts
    BY <2>1, <2>2, <2>3 DEF LoadConfig
  <2>5. Agrees(diskFiles, p)
    <3>1. ~ EntryDue(p)
      BY DEF EntryDue, Quiescent, NoEvents, OpenPaths
    <3> QED
      BY <3>1 DEF IndexInv, EntriesAgree, Quiescent
  <2>6. Agrees(Walk(contexts, disk), p)
    BY <2>1, WalkAgrees
  <2>7. Eligible(contexts, p, NoText)
    BY <2>4
  <2> HIDE DEF ctxs
  <2>8. diskFiles[p] = Walk(contexts, disk)[p]
    BY <2>5, <2>6, <2>7 DEF Agrees, Eligible
  <2> QED
    BY <2>4, <2>8
<1> QED
  BY <1>1, TypeInvariant, IndexInvariant, PTL

-----------------------------------------------------------------------------
(* Convergence                                                             *)

\* No workspace folder is added or removed.
NoMoves == "folders" \notin budget.ops

\* What a pass started now would check, and whether it would show u.
CurrentFiles ==
    ProjectFiles(contexts, docs, diskFiles,
        {p \in OpenPaths(docs) : PathEligible(contexts, docs, p)})

Checked(u) == PathOf[u] \in Outgoing(docs, CurrentFiles)
Found(u) == Shows(contexts, docs, CurrentFiles, u)

\* A pass will run before the session is quiescent, or none is needed.
PassDue ==
    \/ OpenPaths(docs) = {}
    \/ pending # {}
    \/ pc \in {"reload", "watchers", "scan", "install", "scanned", "snapshot",
               "gather", "publish", "stopped"}
    \/ pc = "refresh" /\ (job.kind = "closed" \/ wanted # {})
    \/ \E i \in 1 .. Len(queue) : queue[i].kind \in {"publish", "closed"}

\* Between a publication and its reconciliation only what was checked is
\* up to date.
ShowsCurrent ==
    \A u \in Uris :
        IF pc = "reconcile" THEN Checked(u) => (view[u] <=> Found(u))
        ELSE view[u] <=> Checked(u) /\ Found(u)

\* No folder change is queued or in hand.
NoFolderChange ==
    /\ job.kind # "folders"
    /\ \A i \in 1 .. Len(queue) : queue[i].kind # "folders"

\* A pass has paths to check, and an uninvalidated one has collected what a
\* pass started now would collect.
PassInHand ==
    /\ pc \in {"snapshot"} \cup PassPoints => wanted # {}
    /\ pc = "publish" /\ ~ edited => project = CurrentFiles

Converging == NoFolderChange /\ PassInHand /\ (PassDue \/ ShowsCurrent)

\* With one name for each path, a path has one document.
LEMMA OneDocument ==
    ASSUME OneName, NEW ds \in DocumentMaps(Document), WellKeyed(ds),
           NEW p \in Paths, IsOpen(ds, p)
    PROVE  /\ Len(ds[p]) = 1
           /\ Active(ds, p) = ds[p][1]
           /\ Active(ds, p).text \in Texts
<1>1. ds[p] \in Seq(Document) /\ ds[p] # << >>
  BY DEF DocumentMaps, IsOpen
<1>2. \A i \in 1 .. Len(ds[p]) : ds[p][i] \in Document
  BY <1>1
<1>3. \A i \in 1 .. Len(ds[p]) :
          ds[p][i].uri \in Uris /\ ds[p][i].text \in Texts
  BY <1>2 DEF Document
<1>4. \A i \in 1 .. Len(ds[p]) : ds[p][i].uri = DisplayUri[p]
  BY <1>3 DEF OneName, WellKeyed
<1>5. \A i, j \in 1 .. Len(ds[p]) : i = j
  BY <1>4 DEF WellKeyed
<1>6. Len(ds[p]) \in Nat /\ Len(ds[p]) # 0
  BY <1>1
<1>7. Len(ds[p]) = 1
  <2>1. 1 \in 1 .. Len(ds[p]) /\ Len(ds[p]) \in 1 .. Len(ds[p])
    BY <1>6
  <2> QED
    BY <1>5, <2>1
<1> QED
  BY <1>3, <1>7 DEF Active

\* With one name for each path, what a pass checks is what is analysed.
LEMMA CheckedIsAnalysed ==
    ASSUME OneName, TypeInv, NEW u \in Uris
    PROVE  Checked(u) <=> AnalysedIn(docs, PathOf[u])
<1> DEFINE p == PathOf[u]
<1>1. p \in Paths
  BY UriAssumption
<1>2. docs \in DocumentMaps(Document) /\ WellKeyed(docs)
  BY DEF TypeInv, TypeOK
<1> HIDE DEF p
<1>3. CASE IsOpen(docs, p)
  <2>1. /\ Len(docs[p]) = 1 /\ Active(docs, p) = docs[p][1]
        /\ Active(docs, p).text \in Texts
    BY <1>1, <1>2, <1>3, OneDocument
  <2>2. Active(docs, p).text # NoText
    BY <2>1, FolderAssumption DEF TextKinds, NoText
  <2>3. CurrentFiles[p] # NoText <=>
            Eligible(contexts, p, Active(docs, p).text)
    BY <1>1, <1>3, <2>2
    DEF CurrentFiles, ProjectFiles, OpenPaths, PathEligible
  <2>4. AnyEligible(contexts, docs, p) <=>
            Eligible(contexts, p, Active(docs, p).text)
    BY <1>3, <2>1 DEF AnyEligible
  <2>5. ~ (Len(docs[p]) > 1)
    BY <2>1
  <2>6. p \in Outgoing(docs, CurrentFiles) <=> CurrentFiles[p] # NoText
    BY <1>1, <2>5 DEF Outgoing
  <2> QED
    BY <1>3, <2>3, <2>4, <2>6 DEF Checked, AnalysedIn, p
<1>4. CASE ~ IsOpen(docs, p)
  <2>1. CurrentFiles[p] =
            IF Eligible(contexts, p, NoText) THEN diskFiles[p] ELSE NoText
    BY <1>1, <1>4 DEF CurrentFiles, ProjectFiles
  <2>2. p \in Outgoing(docs, CurrentFiles) <=> CurrentFiles[p] # NoText
    BY <1>1, <1>4 DEF Outgoing, IsOpen
  <2> QED
    BY <1>4, <2>1, <2>2 DEF Checked, AnalysedIn, AnyEligible, p
<1> QED
  BY <1>3, <1>4

LEMMA NoMovesStays == [Next]_vars => NoMoves' = NoMoves
<1> SUFFICES ASSUME [Next]_vars PROVE NoMoves' = NoMoves
  OBVIOUS
<1>1. ASSUME NEW op, Spend(op)
      PROVE  budget'.ops = budget.ops
  BY <1>1 DEF Spend
<1> QED
  BY <1>1
  DEF Next, ClientStep, DiskStep, DidOpen, DidChange, DidClose, Initialized,
      DidChangeConfiguration, DidChangeWatchedFiles, Shutdown,
      DidChangeWorkspaceFolders, WriteFile, WriteConfig, WriteMetadata,
      clientVars, vars, NoMoves

\* While none of these changes, what a pass would show is the same.
LEMMA SameFindings ==
    ASSUME UNCHANGED <<docs, contexts, diskFiles>>
    PROVE  /\ CurrentFiles' = CurrentFiles
           /\ \A u \in Uris : /\ Checked(u)' <=> Checked(u)
                              /\ Found(u)' <=> Found(u)
<1>1. CurrentFiles' = CurrentFiles
  BY DEF CurrentFiles
<1> QED
  BY <1>1 DEF Checked, Found

\* Handlers that change documents under the lock move diag_generation.
LEMMA EditsAreNoticed ==
    ClientStep \/ DiskStep => UNCHANGED <<docs, edited>> \/ edited'
  BY
  DEF ClientStep, DiskStep, DidOpen, DidChange, DidClose, Initialized,
      DidChangeConfiguration, DidChangeWatchedFiles, Shutdown,
      DidChangeWorkspaceFolders, WriteFile, WriteConfig, WriteMetadata,
      DiskFrame, HandlerFrame, stateVars

LEMMA HandlersKeepConverging ==
    TypeInv /\ NoMoves /\ Converging /\ (ClientStep \/ DiskStep) => Converging'
<1> SUFFICES ASSUME TypeInv, NoMoves, Converging, ClientStep \/ DiskStep
             PROVE  Converging'
  OBVIOUS
<1>1. UNCHANGED <<pending, pc, job, wanted, project, view, contexts, diskFiles>>
  BY OutsideWriter, OutsideIndex DEF writerVars, localVars
<1>2. queue \in Seq(Work) /\ Len(queue) \in Nat
  BY DEF TypeInv, TypeOK
<1>3. PassInHand'
  <2>1. CASE UNCHANGED <<docs, edited>>
    BY <1>1, <2>1, SameFindings DEF Converging, PassInHand
  <2>2. CASE edited'
    BY <1>1, <2>2 DEF Converging, PassInHand
  <2> QED
    BY <2>1, <2>2, EditsAreNoticed
<1>4. CASE UNCHANGED <<docs, queue>>
  <2>1. NoFolderChange'
    BY <1>1, <1>4 DEF Converging, NoFolderChange
  <2>2. PassDue => PassDue'
    BY <1>1, <1>4 DEF PassDue
  <2>3. ShowsCurrent => ShowsCurrent'
    BY <1>1, <1>4, SameFindings DEF ShowsCurrent
  <2> QED
    BY <1>3, <2>1, <2>2, <2>3 DEF Converging
<1>5. ASSUME NEW w \in Work, queue' = Append(queue, w), Queued(w)
      PROVE  Converging'
  <2>1. /\ Len(queue) + 1 \in 1 .. Len(queue')
        /\ Len(queue') = Len(queue) + 1
        /\ queue'[Len(queue) + 1] = w
        /\ \A i \in 1 .. Len(queue) :
              i \in 1 .. Len(queue') /\ queue'[i] = queue[i]
    BY <1>2, <1>5
  <2>2. w.kind # "folders"
    BY <1>5 DEF Queued, NoMoves
  <2>3. NoFolderChange'
    BY <1>1, <1>2, <2>1, <2>2 DEF Converging, NoFolderChange
  <2>4. CASE w.kind \in {"publish", "closed"}
    BY <1>3, <2>1, <2>3, <2>4 DEF Converging, PassDue
  <2>5. CASE UNCHANGED docs
    <3>1. PassDue => PassDue'
      BY <1>1, <2>1, <2>5 DEF PassDue
    <3>2. ShowsCurrent => ShowsCurrent'
      BY <1>1, <2>5, SameFindings DEF ShowsCurrent
    <3> QED
      BY <1>3, <2>3, <3>1, <3>2 DEF Converging
  <2> QED
    BY <1>5, <2>4, <2>5 DEF Queued
<1> QED
  BY <1>4, <1>5, HandlersQueue, DiskKeepsDocuments

LEMMA ReceiveKeepsConverging ==
    TypeInv /\ Converging
    /\ (\/ TakePublish \/ TakeClosedShared \/ TakeClosed \/ TakeConfigure
        \/ TakeFolders \/ TakeWatched \/ TakeShutdown)
    => Converging'
<1> SUFFICES ASSUME TypeInv, Converging, queue # << >>,
                    \/ TakePublish \/ TakeClosedShared \/ TakeClosed
                    \/ TakeConfigure \/ TakeFolders \/ TakeWatched
                    \/ TakeShutdown
             PROVE  Converging'
  BY DEF Receives, TakePublish, TakeClosedShared, TakeClosed, TakeConfigure,
         TakeFolders, TakeWatched, TakeShutdown
<1>1. queue \in Seq(Work) /\ Len(queue) \in Nat
  BY DEF TypeInv, TypeOK
<1>2. /\ Head(queue) = queue[1] /\ 1 \in 1 .. Len(queue)
      /\ \A i \in 1 .. Len(Tail(queue)) :
            i + 1 \in 1 .. Len(queue) /\ Tail(queue)[i] = queue[i + 1]
  BY <1>1
<1>3. Head(queue).kind # "folders"
  BY <1>2 DEF Converging, NoFolderChange
<1>4. queue' = Tail(queue) /\ (job' \in {job, NoWork, Head(queue)})
  BY DEF TakePublish, TakeClosedShared, TakeClosed, TakeConfigure,
         TakeFolders, TakeWatched, TakeShutdown, Request
<1>5. NoFolderChange'
  BY <1>2, <1>3, <1>4 DEF Converging, NoFolderChange, NoWork
<1>6. CASE TakePublish \/ TakeClosedShared
  <2>1. pending' # {} /\ pc' \in {"idle", "reconcile"}
    BY <1>6 DEF TakePublish, TakeClosedShared, Request
  <2> QED
    BY <1>5, <2>1 DEF Converging, PassInHand, PassDue, PassPoints
<1>7. CASE TakeClosed \/ TakeConfigure \/ TakeShutdown
  <2>1. \/ pc' \in {"reload", "stopped"}
        \/ pc' = "refresh" /\ job'.kind = "closed"
    BY <1>7 DEF TakeClosed, TakeConfigure, TakeShutdown, Receives
  <2> QED
    BY <1>5, <2>1 DEF Converging, PassInHand, PassDue, PassPoints
<1>8. CASE TakeFolders
  BY <1>3, <1>8 DEF TakeFolders, Receives
<1>9. CASE TakeWatched
  <2>1. /\ Head(queue).kind = "watched" /\ pc = "idle"
        /\ UNCHANGED <<docs, contexts, diskFiles, pending, view, wanted>>
        /\ pc' \in {"reload", "scan", "refresh"}
    BY <1>9 DEF TakeWatched, Receives, stateVars, writerVars
  <2>2. CASE pc' # "refresh"
    BY <1>5, <2>1, <2>2 DEF Converging, PassInHand, PassDue, PassPoints
  <2>3. CASE pc' = "refresh"
    <3>1. PassInHand'
      BY <2>3 DEF PassInHand, PassPoints
    <3>2. PassDue => PassDue'
      <4>1. \A i \in 1 .. Len(queue) : i # 1 =>
                i - 1 \in 1 .. Len(queue') /\ queue'[i - 1] = queue[i]
        BY <1>1, <1>4
      <4>2. ASSUME NEW i \in 1 .. Len(queue),
                   queue[i].kind \in {"publish", "closed"}
            PROVE  PassDue'
        BY <1>2, <2>1, <4>1, <4>2 DEF PassDue
      <4>3. CASE OpenPaths(docs) = {} \/ pending # {}
        BY <2>1, <4>3 DEF PassDue
      <4> QED
        BY <2>1, <4>2, <4>3 DEF PassDue
    <3>3. ShowsCurrent => ShowsCurrent'
      BY <2>1, <2>3, SameFindings DEF ShowsCurrent
    <3> QED
      BY <1>5, <3>1, <3>2, <3>3 DEF Converging
  <2> QED
    BY <2>2, <2>3
<1> QED
  BY <1>6, <1>7, <1>8, <1>9

\* A request leaves a path waiting for a pass.
LEMMA RequestConverges ==
    ASSUME NEW paths, NEW before, paths # {}, Request(paths, before)
    PROVE  PassDue' /\ PassInHand' /\ job' = NoWork
  BY DEF Request, PassDue, PassInHand, PassPoints

LEMMA WorkKeepsConverging ==
    TypeInv /\ ReconciledInv /\ Converging
    /\ (\/ Reload \/ ChangeFolders \/ RefreshWatchers \/ Rescan
        \/ InstallScan \/ AfterScan \/ RefreshEntry \/ AfterRefresh
        \/ FinishClose)
    => Converging'
<1> SUFFICES ASSUME TypeInv, ReconciledInv, Converging,
                    \/ Reload \/ ChangeFolders \/ RefreshWatchers \/ Rescan
                    \/ InstallScan \/ AfterScan \/ RefreshEntry
                    \/ AfterRefresh \/ FinishClose
             PROVE  Converging'
  OBVIOUS
<1>1. queue' = queue /\ job' \in {job, NoWork} /\ docs' = docs
  BY DEF Reload, ChangeFolders, RefreshWatchers, Rescan, InstallScan,
         AfterScan, RefreshEntry, AfterRefresh, FinishClose, Request, Finish,
         stateVars
<1>2. NoFolderChange'
  BY <1>1 DEF Converging, NoFolderChange, NoWork
<1>3. pc # "folders"
  BY DEF TypeInv, JobInHand, Converging, NoFolderChange
<1>4. CASE Reload \/ ChangeFolders \/ RefreshWatchers \/ Rescan \/ InstallScan
  <2>1. pc' \in {"watchers", "scan", "scanned", "install"}
    BY <1>4 DEF Reload, ChangeFolders, RefreshWatchers, Rescan, InstallScan
  <2> QED
    BY <1>2, <2>1 DEF Converging, PassInHand, PassDue, PassPoints
<1>5. CASE AfterScan
  <2>1. \E paths : Request(paths, pending) /\ OpenPaths(docs) \subseteq paths
    BY <1>5 DEF AfterScan, Converging, NoFolderChange
  <2>2. PICK paths : Request(paths, pending) /\ OpenPaths(docs) \subseteq paths
    BY <2>1
  <2>3. CASE paths # {}
    BY <1>2, <2>2, <2>3, RequestConverges DEF Converging
  <2>4. CASE paths = {}
    <3>1. OpenPaths(docs)' = {}
      BY <1>1, <2>2, <2>4 DEF OpenPaths
    <3>2. pc' \in {"idle", "reconcile"}
      BY <2>2 DEF Request
    <3> QED
      BY <1>2, <3>1, <3>2 DEF Converging, PassInHand, PassDue, PassPoints,
         OpenPaths
  <2> QED
    BY <2>3, <2>4
<1>6. CASE RefreshEntry
  <2>1. PICK p \in sources :
            /\ IF IsOpen(docs, p)
               THEN UNCHANGED <<diskFiles, wanted>>
               ELSE /\ wanted' = wanted \cup {p}
            /\ UNCHANGED <<docs, contexts, queue, pending, pc, job, view>>
            /\ pc = "refresh"
    BY <1>6 DEF RefreshEntry, writerVars
  <2>2. PassInHand'
    BY <2>1 DEF PassInHand, PassPoints
  <2>3. CASE IsOpen(docs, p)
    <3>1. PassDue => PassDue'
      BY <2>1, <2>3 DEF PassDue
    <3>2. ShowsCurrent => ShowsCurrent'
      BY <2>1, <2>3, SameFindings DEF ShowsCurrent
    <3> QED
      BY <1>2, <2>2, <3>1, <3>2 DEF Converging
  <2>4. CASE ~ IsOpen(docs, p)
    BY <1>2, <2>1, <2>2, <2>4 DEF Converging, PassDue
  <2> QED
    BY <2>3, <2>4
<1>7. CASE AfterRefresh
  <2>1. CASE wanted = {}
    <3>1. /\ pc = "refresh" /\ job.kind = "watched" /\ pc' = "idle"
          /\ UNCHANGED <<docs, contexts, diskFiles, queue, pending, view>>
      BY <1>7, <2>1 DEF AfterRefresh, Finish, stateVars
    <3>2. PassInHand'
      BY <3>1 DEF PassInHand, PassPoints
    <3>3. PassDue => PassDue'
      BY <2>1, <3>1 DEF PassDue
    <3>4. ShowsCurrent => ShowsCurrent'
      BY <3>1, SameFindings DEF ShowsCurrent
    <3> QED
      BY <1>2, <3>2, <3>3, <3>4 DEF Converging
  <2>2. CASE wanted # {}
    <3>1. /\ Request(wanted \cup OpenPaths(docs), pending)
          /\ wanted \cup OpenPaths(docs) # {}
      BY <1>7, <2>2 DEF AfterRefresh
    <3> QED
      BY <1>2, <3>1, RequestConverges DEF Converging
  <2> QED
    BY <2>1, <2>2
<1>8. CASE FinishClose
  <2>1. CASE OpenPaths(docs) = {}
    <3>1. OpenPaths(docs') = {} /\ pc' = "idle"
      BY <1>1, <1>8, <2>1 DEF FinishClose, Finish
    <3> QED
      BY <1>2, <3>1 DEF Converging, PassInHand, PassDue, PassPoints
  <2>2. CASE OpenPaths(docs) # {}
    BY <1>2, <1>8, <2>2, RequestConverges DEF FinishClose, Converging
  <2> QED
    BY <2>1, <2>2
<1> QED
  BY <1>4, <1>5, <1>6, <1>7, <1>8

LEMMA PassKeepsConverging ==
    OneName /\ TypeInv /\ TrackInv /\ SnapshotCurrent /\ RequestsScheduled
    /\ Converging
    /\ (\/ StartPass \/ TakeSnapshot \/ Gather \/ Publish \/ Reconcile)
    => Converging'
<1> SUFFICES ASSUME OneName, TypeInv, TrackInv, SnapshotCurrent,
                    RequestsScheduled, Converging,
                    \/ StartPass \/ TakeSnapshot \/ Gather \/ Publish
                    \/ Reconcile
             PROVE  Converging'
  OBVIOUS
<1>1. /\ queue' = queue /\ job' \in {job, NoWork}
      /\ UNCHANGED <<docs, contexts, diskFiles>>
  BY DEF StartPass, TakeSnapshot, Gather, Publish, Reconcile, Request, Finish,
         stateVars
<1>2. NoFolderChange'
  BY <1>1 DEF Converging, NoFolderChange, NoWork
<1>3. /\ CurrentFiles' = CurrentFiles
      /\ \A u \in Uris : /\ Checked(u)' <=> Checked(u)
                         /\ Found(u)' <=> Found(u)
  BY <1>1, SameFindings
<1>4. CASE StartPass
  BY <1>2, <1>4
  DEF StartPass, RequestsScheduled, Converging, PassInHand, PassDue, PassPoints
<1>5. CASE TakeSnapshot
  <2>1. pc = "snapshot" /\ wanted # {}
    BY <1>5 DEF TakeSnapshot, Converging, PassInHand
  <2>2. CASE queue # << >>
    BY <1>2, <1>5, <2>1, <2>2, RequestConverges DEF TakeSnapshot, Converging
  <2>3. CASE queue = << >>
    BY <1>2, <1>5, <2>1, <2>3
    DEF TakeSnapshot, Converging, PassInHand, PassDue, PassPoints
  <2> QED
    BY <2>2, <2>3
<1>6. CASE Gather
  <2>1. pc = "gather" /\ pc' = "publish" /\ wanted' = wanted /\ edited' = edited
        /\ project' = ProjectFiles(contexts, docs, diskFiles,
             {p \in OpenPaths(snapshot) : PathEligible(contexts, snapshot, p)})
    BY <1>6 DEF Gather, stateVars
  <2>2. wanted' # {}
    BY <2>1 DEF Converging, PassInHand, PassPoints
  <2>3. ~ edited' => project' = CurrentFiles'
    BY <1>3, <2>1 DEF SnapshotCurrent, PassPoints, CurrentFiles
  <2> QED
    BY <1>2, <2>1, <2>2, <2>3 DEF Converging, PassInHand, PassDue
<1>7. CASE Publish
  <2>1. pc = "publish" /\ wanted # {}
    BY <1>7 DEF Publish, Converging, PassInHand, PassPoints
  <2>2. CASE edited
    BY <1>2, <1>7, <2>1, <2>2, RequestConverges DEF Publish, Converging
  <2>3. CASE ~ edited
    <3>1. snapshot = docs /\ project = CurrentFiles
      BY <2>1, <2>3 DEF SnapshotCurrent, PassPoints, Converging, PassInHand
    <3>2. pc' = "reconcile"
      BY <1>7, <2>3 DEF Publish
    <3>3. view' = [u \in Uris |->
                IF /\ PathOf[u] \in Outgoing(docs, CurrentFiles)
                   /\ u \in Destinations(docs, PathOf[u])
                THEN Shows(contexts, docs, CurrentFiles, u) ELSE view[u]]
      BY <1>7, <2>3, <3>1 DEF Publish
    <3>4. \A u \in Uris : u \in Destinations(docs, PathOf[u])
      <4>1. docs \in DocumentMaps(Document) /\ WellKeyed(docs)
        BY DEF TypeInv, TypeOK
      <4>2. \A u \in Uris : PathOf[u] \in Paths
        BY UriAssumption
      <4> QED
        BY <4>1, <4>2, OneDestination DEF OneName
    <3>5. \A u \in Uris : Checked(u) => view'[u] = Found(u)
      BY <3>3, <3>4 DEF Checked, Found
    <3>6. ShowsCurrent'
      BY <1>3, <3>2, <3>5 DEF ShowsCurrent
    <3> QED
      BY <1>2, <3>2, <3>6 DEF Converging, PassInHand, PassPoints
  <2> QED
    BY <2>2, <2>3
<1>8. CASE Reconcile
  <2> DEFINE named == UNION {Destinations(docs, p) : p \in Refused}
             dropped == UNION {published[p] : p \in Dropped}
  <2>1. /\ pc = "reconcile" /\ pc' = "idle" /\ pending' = pending
        /\ view' = Cleared(stale \cup named \cup dropped)
    BY <1>8 DEF Reconcile, Finish
  <2>2. stale = {}
    BY <2>1 DEF TrackInv, InHand, AfterRemoval
  <2>3. PassInHand'
    BY <2>1 DEF PassInHand, PassPoints
  <2>4. PassDue => PassDue'
    BY <1>1, <2>1 DEF PassDue
  <2>5. ASSUME ShowsCurrent, NEW u \in Uris
        PROVE  view'[u] <=> Checked(u) /\ Found(u)
    <3>1. PathOf[u] \in Paths
      BY UriAssumption
    <3>2. u \in named => PathOf[u] \in Refused
      <4>1. \A p \in Refused : p \in Paths
                               /\ Destinations(docs, p) = {DisplayUri[p]}
        BY OneDestination DEF Refused, TypeInv, TypeOK
      <4> QED
        BY <4>1, UriAssumption
    <3>3. u \in dropped <=>
              PathOf[u] \in Dropped /\ u \in published[PathOf[u]]
      BY <3>1 DEF Dropped, TrackInv, Keys
    <3>4. Checked(u) <=> AnalysedIn(docs, PathOf[u])
      BY CheckedIsAnalysed
    <3>5. view'[u] <=> view[u] /\ u \notin named /\ u \notin dropped
      BY <2>1, <2>2 DEF Cleared
    <3> HIDE DEF named, dropped
    <3>6. CASE Checked(u)
      <4>1. view[u] <=> Found(u)
        BY <2>1, <2>5, <3>6 DEF ShowsCurrent
      <4>2. u \notin named
        BY <3>2, <3>4, <3>6 DEF Refused, AnalysedIn
      <4>3. u \notin dropped
        BY <3>3, <3>4, <3>6, DroppedPaths
      <4> QED
        BY <3>5, <3>6, <4>1, <4>2, <4>3
    <3>7. CASE ~ Checked(u)
      <4>1. view[u] => u \in published[PathOf[u]]
        BY <2>1, <2>2 DEF TrackInv, Record, Owed
      <4>2. view[u] => u \in dropped
        BY <3>1, <3>3, <3>4, <3>7, <4>1, DroppedPaths
      <4> QED
        BY <3>5, <3>7, <4>2
    <3> QED
      BY <3>6, <3>7
  <2>6. ShowsCurrent => ShowsCurrent'
    BY <1>3, <2>1, <2>5 DEF ShowsCurrent
  <2> QED
    BY <1>2, <2>3, <2>4, <2>6 DEF Converging
<1> QED
  BY <1>4, <1>5, <1>6, <1>7, <1>8

LEMMA ProjectFilesFollow ==
    ASSUME NEW ctxs, NEW ds, NEW opened, NEW f, NEW g,
           \A p \in Paths :
               ~ IsOpen(ds, p) /\ Eligible(ctxs, p, NoText) => f[p] = g[p]
    PROVE  ProjectFiles(ctxs, ds, f, opened) = ProjectFiles(ctxs, ds, g, opened)
  BY DEF ProjectFiles

(* The session converges: when each path has one name and no folder        *)
(* changes, then once every event is handled, with a document open and     *)
(* every configuration valid, the client shows exactly what a server       *)
(* started on the present disk, documents and configurations would show,   *)
(* for any files, nested folders and any order of edits, closes, file and  *)
(* configuration events and passes.                                        *)
THEOREM SessionConverges ==
    ASSUME OneName
    PROVE  Spec => []Converged
<1>1. Init => (NoMoves => Converging)
  BY DEF Init, NoMoves, Converging, NoFolderChange, PassInHand, PassDue,
         PassPoints, OpenPaths, IsOpen, NoDocuments, NoWork
<1>2. /\ TypeInv /\ TrackInv /\ ReconciledInv /\ SnapshotCurrent
      /\ RequestsScheduled /\ (NoMoves => Converging) /\ [Next]_vars
      => (NoMoves => Converging)'
  <2> SUFFICES ASSUME TypeInv, TrackInv, ReconciledInv, SnapshotCurrent,
                      RequestsScheduled, NoMoves, Converging, [Next]_vars
               PROVE  Converging'
    BY NoMovesStays
  <2>1. CASE ClientStep \/ DiskStep
    BY <2>1, HandlersKeepConverging
  <2>2. CASE WriterStep
    BY <2>2, ReceiveKeepsConverging, WorkKeepsConverging, PassKeepsConverging
    DEF WriterStep
  <2>3. CASE UNCHANGED vars
    <3>1. UNCHANGED <<docs, contexts, diskFiles, queue, pending, edited, pc,
                      job, wanted, project, view>>
      BY <2>3 DEF vars, stateVars, writerVars, localVars
    <3>2. ShowsCurrent => ShowsCurrent'
      BY <3>1, SameFindings DEF ShowsCurrent
    <3>3. PassDue => PassDue'
      BY <3>1 DEF PassDue
    <3>4. NoFolderChange' /\ PassInHand'
      BY <3>1, SameFindings DEF Converging, NoFolderChange, PassInHand
    <3> QED
      BY <3>2, <3>3, <3>4 DEF Converging
  <2> QED
    BY <2>1, <2>2, <2>3 DEF Next
<1>3. TypeInv /\ IndexInv /\ (NoMoves => Converging) => Converged
  <2> SUFFICES ASSUME TypeInv, IndexInv, Converging, Quiescent,
                      OpenPaths(docs) # {}, \A r \in Roots : config[r].valid
               PROVE  view = FreshView
    BY DEF Converged, NoMoves, ShowsFresh
  <2> DEFINE ctxs == [r \in folders |-> LoadConfig(config[r], {})]
             opened(cs) == {p \in OpenPaths(docs) : PathEligible(cs, docs, p)}
             fresh(cs) == ProjectFiles(cs, docs, Walk(cs, disk), opened(cs))
  <2>1. /\ DOMAIN contexts \subseteq Roots
        /\ contexts \in [DOMAIN contexts -> Excludes]
        /\ folders \subseteq Roots
    BY DEF TypeInv, TypeOK
  <2>2. folders = DOMAIN contexts
    <3>1. FoldersFollow /\ queue = << >> /\ pc = "idle"
      BY DEF IndexInv, Quiescent
    <3>2. \A r \in Roots : r \in folders <=> r \in DOMAIN contexts
      <4>1. 1 .. Len(queue) = {}
        BY <3>1
      <4> QED
        BY <3>1, <4>1 DEF FoldersFollow
    <3> QED
      BY <2>1, <3>2
  <2>3. \A r \in DOMAIN contexts : contexts[r] = config[r].exclude
    BY <2>1 DEF IndexInv, ConfigsLoaded, Quiescent, NoEvents
  <2>4. ctxs = contexts
    BY <2>1, <2>2, <2>3 DEF LoadConfig
  <2>5. \A p \in Paths :
            ~ IsOpen(docs, p) /\ Eligible(contexts, p, NoText) =>
                diskFiles[p] = Walk(contexts, disk)[p]
    <3> SUFFICES ASSUME NEW p \in Paths, ~ IsOpen(docs, p),
                        Eligible(contexts, p, NoText)
                 PROVE  diskFiles[p] = Walk(contexts, disk)[p]
      OBVIOUS
    <3>1. ~ EntryDue(p)
      BY DEF EntryDue, Quiescent, NoEvents
    <3>2. Agrees(diskFiles, p)
      BY <3>1 DEF IndexInv, EntriesAgree, Quiescent
    <3>3. Agrees(Walk(contexts, disk), p)
      BY <2>1, WalkAgrees
    <3> QED
      BY <3>2, <3>3 DEF Agrees, Eligible
  <2>6. fresh(contexts) = CurrentFiles
    BY <2>5, ProjectFilesFollow DEF CurrentFiles
  <2>7. \A u \in Uris : view[u] <=> Checked(u) /\ Found(u)
    <3>1. ~ PassDue
      BY DEF PassDue, Quiescent
    <3> QED
      BY <3>1 DEF Converging, ShowsCurrent, Quiescent
  <2>8. FreshView = [u \in Uris |->
            /\ PathOf[u] \in Outgoing(docs, fresh(ctxs))
            /\ Shows(ctxs, docs, fresh(ctxs), u)]
    BY DEF FreshView
  <2> HIDE DEF ctxs, fresh
  <2>9. FreshView = [u \in Uris |-> Checked(u) /\ Found(u)]
    BY <2>4, <2>6, <2>8 DEF Checked, Found
  <2>10. view \in [Uris -> BOOLEAN]
    BY DEF TypeInv, TypeOK
  <2>11. \A u \in Uris : view[u] = (Checked(u) /\ Found(u))
    BY <2>7, <2>10
  <2> QED
    BY <2>9, <2>10, <2>11
<1> QED
  BY <1>1, <1>2, <1>3, TypeInvariant, TrackInvariant, ReconciledInvariant,
     PassesAreCurrent, NoRequestStranded, IndexInvariant, PTL DEF Spec
==============================================================================
