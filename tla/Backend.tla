------------------------------ MODULE Backend --------------------------------
(***************************************************************************)
(* The language server around its session: requests that parse without the *)
(* lock, the registration of file watchers, and the end of the process;    *)
(* and the extension that starts and replaces such processes.  The four    *)
(* share no state, so a behaviour follows one of them.                     *)
(***************************************************************************)
EXTENDS ParsedFile, Watchers, ExitProtocol, ExtensionRuntime

VARIABLE part    \* the one that a behaviour follows

serverVars == <<parseVars, watchVars, exitVars>>
vars == <<serverVars, extensionVars, part>>

\* A part that is not followed starts anywhere, and stays there.
Init ==
    /\ part \in {"requests", "watchers", "exit", "extension"}
    /\ part # "requests" =>
          /\ call = [c \in Callers |-> Idle((CHOOSE plan \in Plans : TRUE)[c])]
          /\ dataSupport = TRUE
    /\ part # "extension" => /\ config = CHOOSE s \in Settings : TRUE
                             /\ trusted = FALSE
    /\ ParseInit /\ WatchInit /\ ExitInit /\ ExtensionInit

\* Which variables a step of each part leaves alone
BesidesRequests == UNCHANGED <<watchVars, exitVars, extensionVars, part>>
BesidesWatchers == UNCHANGED <<parseVars, exitVars, extensionVars, part>>
BesidesExit == UNCHANGED <<parseVars, watchVars, extensionVars, part>>
BesidesExtension == UNCHANGED <<serverVars, part>>

RequestPart == part = "requests" /\ ParseNext /\ BesidesRequests
WatchPart == part = "watchers" /\ WatchNext /\ BesidesWatchers
ExitPart == part = "exit" /\ ExitNext /\ BesidesExit
ExtensionPart == part = "extension" /\ ExtensionNext /\ BesidesExtension

Next == RequestPart \/ WatchPart \/ ExitPart \/ ExtensionPart

(* The runtime polls the calls that can go on and the main future.  The    *)
(* client owes nothing, and a handler need not finish.  In the extension,  *)
(* a probe times out, a server's start and stop are answered, and the      *)
(* event loop runs what is scheduled.                                      *)
Fairness ==
    /\ WF_vars(part = "requests" /\ (\E c \in Callers : CallStep(c)) /\ BesidesRequests)
    /\ WF_vars(part = "exit" /\ MainStep /\ BesidesExit)
    /\ WF_vars(part = "extension" /\ Resume /\ BesidesExtension)
    /\ WF_vars(part = "extension" /\ Boot /\ BesidesExtension)

Spec == Init /\ [][Next]_vars /\ Fairness

-----------------------------------------------------------------------------
(* Every variable has its type.                                            *)
TypeOK ==
    /\ dataSupport \in BOOLEAN
    /\ edits \in 0 .. MaxEdits /\ stubs \in 1 .. MaxStubs + 1
    /\ WellKeyed(docs)
    /\ \A p \in Paths : \A i \in 1 .. Len(docs[p]) :
          docs[p][i].edit \in 1 .. edits
    /\ \A c \in Callers :
          /\ call[c].pc \in {"idle", "hints", "lookup", "parse", "infer",
                             "check", "done"}
          /\ call[c].kind \in CallKinds
          /\ call[c].edit \in 0 .. edits
    /\ custom \subseteq ConfigPaths /\ asked \subseteq ConfigPaths
    /\ registered \in Registrations /\ held \in Registrations
    /\ asking \in {"nothing", "unregister", "register"}
    /\ refused \in BOOLEAN /\ refreshes \in 0 .. MaxRefreshes
    /\ Len(handlers) = Len(read) /\ Cardinality(Running) <= Concurrency
    /\ code \in {NoCode, "success", "failure"}
    /\ main \in {"serving", "draining", "ended"}

(* The caches of open documents are about their present text, one AST per  *)
(* edit.                                                                   *)
CachesCurrent == TypeOK /\ CacheCurrent /\ OneAst

(* What a request is answered is about the text, the stubs and the findings*)
(* in force at that moment.                                                *)
AnswersCurrent == ParsesCurrent /\ HintsCurrent /\ FixesCurrent

(* The server's record of its watchers is exact, and they are the ones the *)
(* folders ask for.                                                        *)
WatchersCurrent == RecordMatchesClient /\ WatchesCustom

(* Every call is answered, the process ends after exit, and so does a      *)
(* deactivation.                                                           *)
Ends == CallsAnswered /\ ExitEnds /\ DeactivationEnds
==============================================================================
