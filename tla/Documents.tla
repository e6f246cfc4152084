------------------------------ MODULE Documents ------------------------------
(***************************************************************************)
(* The open documents of the language server (backend/documents.rs): the   *)
(* buffers the client has open, keyed by the display path that the checker *)
(* and the disk index use.  Several URIs can share one display path (two   *)
(* spellings of one name, two names with the same lossy form); the most    *)
(* recently opened or edited one is the document the path analyses.        *)
(*                                                                         *)
(* A document is any record with a "uri" field: the modules that use this  *)
(* one add the fields they need.                                           *)
(***************************************************************************)
EXTENDS Naturals, Sequences

CONSTANTS
    Uris,        \* every URI the client may name
    Paths,       \* display paths
    PathOf,      \* uri_to_path
    DisplayUri   \* path_to_uri

ASSUME UriAssumption ==
    /\ PathOf \in [Uris -> Paths]
    /\ DisplayUri \in [Paths -> Uris]
    /\ \A p \in Paths : PathOf[DisplayUri[p]] = p

\* No document is open at any path.
NoDocuments == [p \in Paths |-> << >>]

\* The open documents of a path, least recently edited first.
DocumentMaps(Document) == [Paths -> Seq(Document)]

IsOpen(docs, p) == docs[p] # << >>

OpenPaths(docs) == {p \in Paths : IsOpen(docs, p)}

\* The document a path analyses: the last one.
Active(docs, p) == docs[p][Len(docs[p])]

UrisAt(docs, p) == {docs[p][i].uri : i \in 1 .. Len(docs[p])}

IsOpenUri(docs, u) == u \in UrisAt(docs, PathOf[u])

\* Where the diagnostics of a path go.
Destinations(docs, p) ==
    IF IsOpen(docs, p) THEN UrisAt(docs, p) ELSE {DisplayUri[p]}

\* The URI that owns the check results of a path.
OwnerUri(docs, p) ==
    IF IsOpen(docs, p) THEN Active(docs, p).uri ELSE DisplayUri[p]

\* A list of documents without the one of u.  A URI occurs at most once.
Without(list, u) ==
    IF \E i \in 1 .. Len(list) : list[i].uri = u
    THEN LET i == CHOOSE i \in 1 .. Len(list) : list[i].uri = u
         IN  SubSeq(list, 1, i - 1) \o SubSeq(list, i + 1, Len(list))
    ELSE list

DocumentOf(docs, u) ==
    LET list == docs[PathOf[u]]
    IN  list[CHOOSE i \in 1 .. Len(list) : list[i].uri = u]

\* A mutant: the document's earlier entry is not retained away.
PutDocumentTwice(docs, doc) ==
    [docs EXCEPT ![PathOf[doc.uri]] = Append(@, doc)]

\* Open a document, or install an edited one: it becomes the active one.
PutDocument(docs, doc) ==
    [docs EXCEPT ![PathOf[doc.uri]] = Append(Without(@, doc.uri), doc)]

CloseDocument(docs, u) ==
    [docs EXCEPT ![PathOf[u]] = Without(@, u)]

\* A URI is open once: the list of a path has distinct URIs of that path.
WellKeyed(docs) ==
    \A p \in Paths : \A i, j \in 1 .. Len(docs[p]) :
        /\ PathOf[docs[p][i].uri] = p
        /\ docs[p][i].uri = docs[p][j].uri => i = j
==============================================================================
