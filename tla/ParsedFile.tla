----------------------------- MODULE ParsedFile ------------------------------
(***************************************************************************)
(* Requests of the language server that need the AST of an open document   *)
(* (backend.rs parsed_file and hints_for, and the code_action handler).    *)
(* The state lock is dropped around every parse and inference; an edit     *)
(* number, or the identity of an AST, decides afterwards whether a result  *)
(* is still about the document it was computed for.                        *)
(*                                                                         *)
(* An AST is its identity: the edit it belongs to, the caller that parsed  *)
(* it, and the text its spans are about.  A tree is kept for incremental   *)
(* parsing; it stands for the text that its positions describe.  Every     *)
(* edit gives its document a text of its own, which the parser accepts or  *)
(* rejects.                                                                *)
(***************************************************************************)
EXTENDS Documents, FiniteSets

CONSTANTS
    Callers,     \* requests and passes, one call each
    Plans,       \* what they ask for: functions from Callers to CallKinds
    MaxEdits,    \* bound: opens and applied changes
    MaxStubs,    \* bound: reloads of the folder's stubs
    MaxPasses    \* bound: diag_generation when a pass starts

CallKinds == {"parse", "hints", "action"}
NoText == [edit |-> 0, valid |-> FALSE]
NoTree == NoText
NoFile == [edit |-> 0, by |-> "nobody", text |-> NoText]
NoHints == [stubs |-> 0, file |-> NoFile]

ASSUME ParsedAssumption ==
    /\ MaxEdits \in Nat /\ MaxStubs \in Nat /\ MaxPasses \in Nat
    /\ Plans \subseteq [Callers -> CallKinds]
    /\ "nobody" \notin Callers

VARIABLES
    docs,        \* the open documents
    edits,       \* the edit number given out last
    generation,  \* diag_generation
    stubs,       \* which stubs the folder has loaded
    shown,       \* where the client's present findings come from
    dataSupport, \* whether the client keeps the data of a finding
    call         \* what each caller is doing

parseVars == <<docs, edits, generation, stubs, shown, dataSupport, call>>

NoOrigin == [uri |-> "none", version |-> 0, generation |-> 0, edit |-> 0]
Idle(kind) ==
    [pc |-> "idle", kind |-> kind, uri |-> "none", edit |-> 0,
     text |-> NoText, tree |-> NoTree, stubs |-> 0, file |-> NoFile,
     hints |-> NoFile, origin |-> NoOrigin, answer |-> "none"]

\* What the client supports matters to its code actions.
ParseInit ==
    /\ docs = NoDocuments
    /\ edits = 0 /\ generation = 0 /\ stubs = 1
    /\ shown = NoOrigin
    /\ \E plan \in Plans :
          /\ call = [c \in Callers |-> Idle(plan[c])]
          /\ dataSupport \in BOOLEAN
          /\ dataSupport \/ \E c \in Callers : plan[c] = "action"

\* The path a caller asks about.
At(c) == PathOf[call[c].uri]

-----------------------------------------------------------------------------
(* The client and the index writer                                         *)

Edited(u, valid, version) ==
    [uri |-> u, text |-> [edit |-> edits + 1, valid |-> valid],
     version |-> version, edit |-> edits + 1,
     tree |-> NoTree, parsed |-> NoFile, hints |-> NoHints]

Open(u, valid) ==
    /\ edits < MaxEdits /\ ~ IsOpenUri(docs, u)
    /\ docs' = PutDocument(docs, Edited(u, valid, 1))
    /\ edits' = edits + 1 /\ generation' = generation + 1
    /\ UNCHANGED <<stubs, shown, dataSupport, call>>

\* A mutant: a full replacement keeps the edited tree of the old text.
ChangedTreeKept(doc, text, ranged) ==
    IF doc.tree = NoTree \/ ~ ranged THEN doc.tree ELSE text

\* A ranged edit moves the tree's positions along with the text; a full
\* replacement drops the tree.
ChangedTree(doc, text, ranged) ==
    IF doc.tree = NoTree \/ ~ ranged THEN NoTree ELSE text

\* Documents::change, when a change of the batch applied
Change(u, valid, ranged) ==
    /\ edits < MaxEdits /\ IsOpenUri(docs, u)
    /\ LET doc == DocumentOf(docs, u)
           edited == Edited(u, valid, doc.version + 1)
       IN  docs' = PutDocument(docs, [edited EXCEPT
                       !.tree = ChangedTree(doc, edited.text, ranged)])
    /\ edits' = edits + 1 /\ generation' = generation + 1
    /\ UNCHANGED <<stubs, shown, dataSupport, call>>

Close(u) ==
    /\ IsOpenUri(docs, u)
    /\ docs' = CloseDocument(docs, u)
    /\ generation' = generation + 1
    /\ UNCHANGED <<edits, stubs, shown, dataSupport, call>>

\* A reload installs stubs behind a new pointer.
ReloadStubs ==
    /\ stubs <= MaxStubs /\ \E c \in Callers : call[c].kind = "hints"
    /\ stubs' = stubs + 1
    /\ UNCHANGED <<docs, edits, generation, shown, dataSupport, call>>

\* A pass moves diag_generation when it takes its snapshot.  If nothing has
\* moved it again at the end, it publishes the findings of the path's active
\* document, with the version and the generation as their data.
PublishFindings(p) ==
    /\ IsOpen(docs, p) /\ generation < MaxPasses
    /\ \E c \in Callers : call[c].kind = "action"
    /\ generation' = generation + 1
    /\ shown' \in {shown,
                   [uri |-> Active(docs, p).uri,
                    version |-> Active(docs, p).version,
                    generation |-> generation',
                    edit |-> Active(docs, p).edit]}
    /\ UNCHANGED <<docs, edits, stubs, dataSupport, call>>

-----------------------------------------------------------------------------
(* The calls                                                               *)

Sets(c, record) == call' = [call EXCEPT ![c] = record]

\* A caller with its answer keeps nothing it needed on the way.
Done(c, answer) ==
    [Idle(call[c].kind) EXCEPT !.pc = "done", !.uri = call[c].uri,
        !.file = call[c].file, !.answer = answer]

\* Where a caller goes once it has the AST.
WithFile(c, file) ==
    LET kind == call[c].kind
        pc == CASE kind = "parse" -> "done"
                [] kind = "hints" -> "infer"
                [] kind = "action" -> "check"
    IN  [call[c] EXCEPT !.pc = pc, !.file = file, !.tree = NoTree,
            !.edit = 0, !.text = NoText,
            !.answer = IF pc = "done" THEN "parsed" ELSE "none"]

\* A request for a document the client has open.  code_action answers
\* nothing at once for a path that two URIs share.
Ask(c, u) ==
    LET kind == call[c].kind
    IN  /\ call[c] = Idle(kind) /\ IsOpenUri(docs, u)
        /\ kind = "action" => Len(docs[PathOf[u]]) = 1 /\ shown.uri = u
        /\ Sets(c, [Idle(kind) EXCEPT !.uri = u,
                        !.pc = IF kind = "hints" THEN "hints" ELSE "lookup",
                        !.origin = IF kind = "action" THEN shown ELSE NoOrigin])
        /\ UNCHANGED <<docs, edits, generation, stubs, shown, dataSupport>>

\* hints_for, under the first lock: the cached hints, if their stubs are the
\* ones in force
FindHints(c) ==
    LET p == At(c)
        cached == Active(docs, p).hints
    IN  /\ call[c].pc = "hints"
        /\ Sets(c, IF IsOpen(docs, p) /\ cached.stubs = stubs
                   THEN [Done(c, "hints") EXCEPT !.hints = cached.file,
                                                 !.stubs = cached.stubs]
                   ELSE [call[c] EXCEPT !.pc = "lookup", !.stubs = stubs])
        /\ UNCHANGED <<docs, edits, generation, stubs, shown, dataSupport>>

\* parsed_file, under the first lock
Lookup(c) ==
    LET p == At(c)
        doc == Active(docs, p)
    IN  /\ call[c].pc = "lookup"
        /\ Sets(c, IF ~ IsOpen(docs, p) THEN Done(c, "closed")
                   ELSE IF doc.parsed # NoFile
                   THEN WithFile(c, doc.parsed)
                   ELSE [call[c] EXCEPT !.pc = "parse", !.edit = doc.edit,
                             !.text = doc.text, !.tree = doc.tree])
        /\ UNCHANGED <<docs, edits, generation, stubs, shown, dataSupport>>

\* The parser rejects the copied text
ParseFails(c) ==
    /\ call[c].pc = "parse" /\ ~ call[c].text.valid
    /\ Sets(c, Done(c, "failed"))
    /\ UNCHANGED <<docs, edits, generation, stubs, shown, dataSupport>>

\* An incremental parse is right for the text it was given when the old tree
\* describes that text; otherwise its spans mix the two.
ParseOf(c) ==
    [edit |-> call[c].edit, by |-> c,
     text |-> IF call[c].tree \in {NoTree, call[c].text}
              THEN call[c].text ELSE NoText]

\* A mutant: a result for an earlier edit is installed.
StoredAnyEdit(doc, c) ==
    IF doc.parsed # NoFile THEN doc
    ELSE [doc EXCEPT !.parsed = ParseOf(c), !.tree = ParseOf(c).text]

\* A mutant: the AST of a concurrent parse is replaced.
StoredLast(doc, c) ==
    IF doc.edit # call[c].edit THEN doc
    ELSE [doc EXCEPT !.parsed = ParseOf(c), !.tree = ParseOf(c).text]

\* The document after the parse of c installs its result in it: the first
\* AST of an edit stays.
Stored(doc, c) ==
    IF doc.edit # call[c].edit \/ doc.parsed # NoFile THEN doc
    ELSE [doc EXCEPT !.parsed = ParseOf(c), !.tree = ParseOf(c).text]

\* A mutant: the install is tried again without the document's new text.
InstallAgain(c) ==
    LET p == At(c)
    IN  /\ call[c].pc = "parse" /\ call[c].text.valid
        /\ IF IsOpen(docs, p) /\ Active(docs, p).edit = call[c].edit
           THEN /\ docs' = [docs EXCEPT ![p][Len(docs[p])] = Stored(@, c)]
                /\ Sets(c, WithFile(c, Active(docs', p).parsed))
           ELSE UNCHANGED <<docs, call>>
        /\ UNCHANGED <<edits, generation, stubs, shown, dataSupport>>

\* parsed_file, under the second lock: answer with the AST of the edit that
\* was copied, or start over
Install(c) ==
    LET p == At(c)
    IN  /\ call[c].pc = "parse" /\ call[c].text.valid
        /\ docs' = IF IsOpen(docs, p)
                   THEN [docs EXCEPT ![p][Len(docs[p])] = Stored(@, c)]
                   ELSE docs
        /\ Sets(c, IF IsOpen(docs, p) /\ Active(docs, p).edit = call[c].edit
                   THEN WithFile(c, Active(docs', p).parsed)
                   ELSE [call[c] EXCEPT !.pc = "lookup"])
        /\ UNCHANGED <<edits, generation, stubs, shown, dataSupport>>

\* A mutant: the hints of any parse of the path are kept.
HintsStillForPath(c) == stubs = call[c].stubs /\ IsOpen(docs, At(c))

\* The stubs are those the inference used, and the document still has the
\* AST it ran on.
HintsStillFor(c) ==
    /\ stubs = call[c].stubs
    /\ IsOpen(docs, At(c))
    /\ Active(docs, At(c)).parsed = call[c].file

\* hints_for, under the last lock
StoreHints(c) ==
    LET p == At(c)
    IN  /\ call[c].pc = "infer"
        /\ IF HintsStillFor(c)
           THEN /\ docs' = [docs EXCEPT ![p][Len(docs[p])].hints =
                               [stubs |-> call[c].stubs, file |-> call[c].file]]
                /\ Sets(c, [Done(c, "hints") EXCEPT !.hints = call[c].file,
                                                    !.stubs = call[c].stubs])
           ELSE Sets(c, Done(c, "none")) /\ UNCHANGED docs
        /\ UNCHANGED <<edits, generation, stubs, shown, dataSupport>>

\* A mutant: the AST is not compared after the parse.
FixableUnparsed(c, list) ==
    /\ Len(list) = 1
    /\ dataSupport => /\ call[c].origin.version = list[1].version
                      /\ call[c].origin.generation = generation

\* A mutant: the findings' data names a version only.
SameVersion(origin, doc) == origin.version = doc.version

\* The finding's data is the origin of the document as it is now.
SameOrigin(origin, doc) ==
    origin.version = doc.version /\ origin.generation = generation

\* Whether code_action edits the one document of a path for the findings it
\* was sent: the document still has the AST that was parsed, and a client
\* that keeps their data sent those of its present origin.
Fixable(c, list) ==
    /\ Len(list) = 1
    /\ list[1].parsed = call[c].file
    /\ dataSupport => SameOrigin(call[c].origin, list[1])

\* code_action, after the parse
OfferFixes(c) ==
    /\ call[c].pc = "check"
    /\ Sets(c, Done(c, IF Fixable(c, docs[At(c)]) THEN "fixes" ELSE "none"))
    /\ UNCHANGED <<docs, edits, generation, stubs, shown, dataSupport>>

CallStep(c) ==
    \/ FindHints(c) \/ Lookup(c) \/ ParseFails(c) \/ Install(c)
    \/ StoreHints(c) \/ OfferFixes(c)

ParseNext ==
    \/ \E u \in Uris :
          \/ \E valid \in BOOLEAN :
                Open(u, valid) \/ \E ranged \in BOOLEAN : Change(u, valid, ranged)
          \/ Close(u)
          \/ \E c \in Callers : Ask(c, u)
    \/ ReloadStubs
    \/ \E p \in Paths : PublishFindings(p)
    \/ \E c \in Callers : CallStep(c)

-----------------------------------------------------------------------------
(* Properties                                                              *)

(* A document's AST and hints are those of its present edit and text, and  *)
(* its tree describes its text, however parses, edits, closes and reopens  *)
(* interleave.                                                             *)
CacheCurrent ==
    \A p \in Paths : \A i \in 1 .. Len(docs[p]) :
        LET doc == docs[p][i]
        IN  /\ doc.tree \in {NoTree, doc.text}
            /\ doc.parsed # NoFile =>
                  doc.parsed.edit = doc.edit /\ doc.parsed.text = doc.text
            /\ doc.hints.file \in {NoFile, doc.parsed}

\* The ASTs in anyone's hands.
Held ==
    {call[c].file : c \in Callers}
        \cup UNION {{docs[p][i].parsed : i \in 1 .. Len(docs[p])} : p \in Paths}

(* One edit has one AST: callers compare ASTs by pointer, so two parses of *)
(* the same edit must never both be handed out.                            *)
OneAst == \A f, g \in Held : f.edit = g.edit => f = g

(* The AST a caller is handed is that of the document its path analyses at *)
(* that moment, and its spans are about that document's text.              *)
ParsesCurrent ==
    [][\A c \in Callers :
          call[c].pc \in {"lookup", "parse"} /\ call'[c].file # call[c].file =>
              LET doc == Active(docs', At(c))
              IN  /\ call'[c].file.edit = doc.edit
                  /\ call'[c].file.text = doc.text]_parseVars

(* Hints are answered for the text and the stubs that are in force when    *)
(* they are answered, whether they come from the cache or not.             *)
HintsCurrent ==
    [][\A c \in Callers :
          call[c].pc # "done" /\ call'[c].answer = "hints" =>
              LET doc == Active(docs', At(c))
              IN  /\ call'[c].hints.edit = doc.edit
                  /\ call'[c].hints.text = doc.text
                  /\ call'[c].stubs = stubs]_parseVars

(* A fix is placed in the present text of the one document at its path.    *)
(* If the client keeps the data of findings, that is the document the      *)
(* request names, and the fix is for a finding of this very edit.  Any     *)
(* other client may be offered a fix for a finding of an earlier edit, and *)
(* for the text of another URI that took the path during the parse.        *)
FixesCurrent ==
    [][\A c \in Callers :
          call[c].pc # "done" /\ call'[c].answer = "fixes" =>
              LET doc == Active(docs', At(c))
              IN  /\ Len(docs'[At(c)]) = 1 /\ doc.edit = call[c].file.edit
                  /\ dataSupport => /\ doc.uri = call[c].uri
                                    /\ doc.edit = call[c].origin.edit]_parseVars

(* Every call is answered: a parse that an edit overtakes starts over, and *)
(* the edits of a client end.                                              *)
CallsAnswered == <>[](\A c \in Callers : call[c].pc \in {"idle", "done"})
==============================================================================
