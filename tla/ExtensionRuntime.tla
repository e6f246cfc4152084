--------------------------- MODULE ExtensionRuntime ---------------------------
(***************************************************************************)
(* The VS Code extension: activation and shutdown (extension.ts) and the   *)
(* runtime that starts, replaces and stops the language server             *)
(* (common/runtime.ts).  JavaScript runs one segment between two awaits at *)
(* a time, so an action is a segment: what an event handler or the answer  *)
(* to an await does before the next await.                                 *)
(***************************************************************************)
EXTENDS Naturals

CONSTANTS
    Binaries,   \* the binaries that ry.path and the import strategy resolve to
    Bundled,    \* the one shipped with the extension
    Levels,     \* values of ry.logLevel
    Budget,     \* bound: changes of settings and trust, restart commands
    Reverts     \* whether settings return to values they had before

ASSUME RuntimeAssumption ==
    Bundled \in Binaries /\ Budget \in Nat /\ Reverts \in BOOLEAN

Settings == [path : Binaries, logLevel : Levels]
\* Names for clients: every run needs a request, a boot or a reload.
Ids == 1 .. Budget + 2
Client == [id : Ids, path : Binaries, logLevel : Levels]
NoClient == [id |-> 0]
NoSettings == [path |-> "none"]

VARIABLES
    config, trusted,    \* the editor's settings and workspace trust
    past,               \* history: the settings there have been
    budget,             \* changes and commands left
    bootImmediate,      \* the deferred boot is scheduled
    runtimePromise,     \* "none", "loading", "up"
    commanded,          \* a restart command waits for the runtime to load
    deactivated,        \* deactivate was called
    serverState,        \* the client in use, or NoClient
    restartQueued,
    settings,           \* those the runtime compares a change with
    shutdownState,      \* "no", "awaiting" the restart, "stopping", "done"
    status,             \* "busy", "error", or the binary shown as ready
    pc,                 \* runServer awaits: "version", "start" or "stop";
                        \* "none" when restartPromise is null
    nextSettings, nextPath, nextClient, previous,   \* locals of runServer
    live,               \* the clients whose process runs
    abandoned,          \* those whose dispose failed
    owed,               \* history: a request no run has begun to serve
    failed,             \* history: the last run gave up
    warned              \* the user was told to restart VS Code

hostVars == <<config, trusted, past, budget, warned>>
bootVars == <<bootImmediate, runtimePromise, commanded, deactivated>>
localVars == <<nextSettings, nextPath, nextClient, previous>>
extensionVars ==
    <<hostVars, bootVars, serverState, restartQueued, settings, shutdownState,
      status, pc, localVars, live, abandoned, owed, failed>>

\* The locals of runServer when it does not run
NoLocals ==
    /\ nextSettings = NoSettings /\ nextPath = Bundled
    /\ nextClient = NoClient /\ previous = NoClient

shutdownStarted == shutdownState # "no"

ExtensionInit ==
    /\ config \in Settings /\ trusted \in BOOLEAN /\ past = {config}
    /\ budget = Budget
    /\ bootImmediate = TRUE /\ runtimePromise = "none"
    /\ commanded = FALSE /\ deactivated = FALSE
    /\ serverState = NoClient /\ restartQueued = FALSE
    /\ settings = NoSettings /\ shutdownState = "no" /\ status = "busy"
    /\ pc = "none"
    /\ NoLocals
    /\ live = {} /\ abandoned = {}
    /\ owed = FALSE /\ failed = FALSE /\ warned = FALSE

-----------------------------------------------------------------------------
(* Restarts                                                                *)

\* findRyBinaryPath: an untrusted workspace forces the bundled binary.
FindRyBinaryPath(s, isTrusted) == IF isTrusted THEN s.path ELSE Bundled

\* runServer up to its first await: it reads the settings as they are.
BeginRun(s, isTrusted) ==
    /\ pc' = "version"
    /\ restartQueued' = FALSE
    /\ nextSettings' = s
    /\ nextPath' = FindRyBinaryPath(s, isTrusted)
    /\ owed' = FALSE
    /\ nextClient' = NoClient /\ previous' = NoClient

\* A mutant: a request is accepted after shutdown.
RequestRestartAlways(s, isTrusted) ==
    \/ /\ pc # "none"
       /\ restartQueued' = TRUE /\ owed' = TRUE
       /\ UNCHANGED <<pc, localVars>>
    \/ pc = "none" /\ BeginRun(s, isTrusted)

\* A mutant: a run that is under way is taken to serve the request.
RequestRestartJoins(s, isTrusted) ==
    \/ /\ shutdownStarted \/ pc # "none"
       /\ owed' = ~ shutdownStarted
       /\ UNCHANGED <<pc, restartQueued, localVars>>
    \/ ~ shutdownStarted /\ pc = "none" /\ BeginRun(s, isTrusted)

\* requestRestart: at most one restart runs, at most one pends.
RequestRestart(s, isTrusted) ==
    \/ shutdownStarted
       /\ UNCHANGED <<pc, restartQueued, localVars, owed>>
    \/ /\ ~ shutdownStarted /\ pc # "none"
       /\ restartQueued' = TRUE /\ owed' = TRUE
       /\ UNCHANGED <<pc, localVars>>
    \/ ~ shutdownStarted /\ pc = "none" /\ BeginRun(s, isTrusted)

\* The end of one turn of the restart loop
EndRun ==
    \/ restartQueued /\ ~ shutdownStarted /\ BeginRun(config, trusted)
    \/ /\ ~ (restartQueued /\ ~ shutdownStarted)
       /\ pc' = "none"
       /\ nextSettings' = NoSettings /\ nextPath' = Bundled
       /\ nextClient' = NoClient /\ previous' = NoClient
       /\ UNCHANGED <<restartQueued, owed>>

\* A mutant: a failed restart is shown as an error whatever runs.
ReportFailureAsError(client) == status' = "error"

\* reportFailure: a running server stays the ready one.
ReportFailure(client) ==
    status' = IF client # NoClient THEN client.path ELSE "error"

\* getRyVersion has no answer, or checkVersionCapability refuses it
VersionRefused ==
    /\ pc = "version"
    /\ ReportFailure(serverState)
    /\ failed' = TRUE
    /\ EndRun
    /\ UNCHANGED <<hostVars, bootVars, serverState, settings, shutdownState,
                   live, abandoned>>

\* The first name no client has
Fresh(id) ==
    /\ \A c \in live : c.id # id
    /\ \A i \in Ids : i < id => \E c \in live : c.id = i

\* A mutant: the old server is stopped before the new one has started.
VersionAcceptedStopsFirst ==
    /\ pc = "version"
    /\ nextClient' = [id |-> 1 + serverState.id, path |-> nextPath,
                      logLevel |-> config.logLevel]
    /\ live' = (live \ {serverState}) \cup {nextClient'}
    /\ status' = "busy"
    /\ pc' = "start"
    /\ UNCHANGED <<hostVars, bootVars, serverState, restartQueued, settings,
                   shutdownState, nextSettings, nextPath, previous, abandoned,
                   owed, failed>>

\* startServer up to its await: the level is read here, not with the rest.
VersionAccepted ==
    /\ pc = "version"
    /\ \E id \in Ids :
          /\ Fresh(id)
          /\ nextClient' = [id |-> id, path |-> nextPath,
                            logLevel |-> config.logLevel]
    /\ live' = live \cup {nextClient'}
    /\ status' = "busy"
    /\ pc' = "start"
    /\ UNCHANGED <<hostVars, bootVars, serverState, restartQueued, settings,
                   shutdownState, nextSettings, nextPath, previous, abandoned,
                   owed, failed>>

\* The client's dispose ends its process, or fails and leaves it behind.
Dispose(client) ==
    \/ live' = live \ {client} /\ abandoned' = abandoned
    \/ abandoned' = abandoned \cup {client} /\ live' = live

StartFailed ==
    /\ pc = "start"
    /\ Dispose(nextClient)
    /\ ReportFailure(serverState)
    /\ failed' = TRUE
    /\ EndRun
    /\ UNCHANGED <<hostVars, bootVars, serverState, settings, shutdownState>>

\* A mutant: during shutdown the replaced server is not stopped.
StartSucceededKeepsOld ==
    /\ pc = "start"
    /\ serverState' = nextClient
    /\ settings' = nextSettings
    /\ status' = nextPath
    /\ failed' = FALSE
    /\ \/ /\ serverState # NoClient /\ ~ shutdownStarted
          /\ pc' = "stop" /\ previous' = serverState
          /\ UNCHANGED <<restartQueued, nextSettings, nextPath, nextClient,
                         owed>>
       \/ (serverState = NoClient \/ shutdownStarted) /\ EndRun
    /\ UNCHANGED <<hostVars, bootVars, shutdownState, live, abandoned>>

\* startServer succeeds: the new client takes over, the old one is stopped.
StartSucceeded ==
    /\ pc = "start"
    /\ serverState' = nextClient
    /\ settings' = nextSettings
    /\ status' = nextPath
    /\ failed' = FALSE
    /\ \/ /\ serverState # NoClient
          /\ pc' = "stop" /\ previous' = serverState
          /\ UNCHANGED <<restartQueued, nextSettings, nextPath, nextClient,
                         owed>>
       \/ serverState = NoClient /\ EndRun
    /\ UNCHANGED <<hostVars, bootVars, shutdownState, live, abandoned>>

PreviousStopped ==
    /\ pc = "stop"
    /\ Dispose(previous)
    /\ \/ previous \notin abandoned' /\ status' = status
       \/ previous \in abandoned' /\ ReportFailure(serverState)
    /\ EndRun
    /\ UNCHANGED <<hostVars, bootVars, serverState, settings, shutdownState,
                   failed>>

-----------------------------------------------------------------------------
(* Events of the editor                                                    *)

Spend == budget > 0 /\ budget' = budget - 1

\* checkIfConfigurationChanged, on the settings that need a respawn
CheckIfConfigurationChanged(old, new) == old # new

\* onDidChangeConfiguration.  An event that touches ry.enable is answered by
\* a warning alone.
ChangeSettings(new, enableToo) ==
    /\ Spend /\ (config # new \/ enableToo)
    /\ Reverts \/ new = config \/ new \notin past
    /\ config' = new /\ past' = past \cup {new}
    /\ IF runtimePromise # "up" \/ enableToo
       THEN /\ warned' = (warned \/ (runtimePromise = "up" /\ enableToo))
            /\ UNCHANGED <<settings, pc, restartQueued, localVars, owed>>
       ELSE /\ warned' = warned
            /\ \/ /\ \/ settings = NoSettings
                     \/ CheckIfConfigurationChanged(settings, new)
                  /\ RequestRestart(new, trusted) /\ settings' = settings
               \/ /\ settings # NoSettings
                  /\ ~ CheckIfConfigurationChanged(settings, new)
                  /\ settings' = new
                  /\ UNCHANGED <<pc, restartQueued, localVars, owed>>
    /\ UNCHANGED <<trusted, bootVars, serverState, shutdownState, status, live,
                   abandoned, failed>>

\* A mutant: trust is not listened to.
GrantTrustUnnoticed ==
    /\ Spend /\ ~ trusted /\ trusted' = TRUE
    /\ UNCHANGED <<config, past, warned, bootVars, serverState, restartQueued,
                   settings, shutdownState, status, pc, localVars, live,
                   abandoned, owed, failed>>

\* onDidGrantWorkspaceTrust
GrantTrust ==
    /\ Spend /\ ~ trusted /\ trusted' = TRUE
    /\ \/ runtimePromise = "up" /\ RequestRestart(config, TRUE)
       \/ /\ runtimePromise # "up"
          /\ UNCHANGED <<pc, restartQueued, localVars, owed>>
    /\ UNCHANGED <<config, past, warned, bootVars, serverState, settings,
                   shutdownState, status, live, abandoned, failed>>

\* The deferred boot of activate
Boot ==
    /\ bootImmediate /\ bootImmediate' = FALSE
    /\ runtimePromise' =
          IF runtimePromise = "none" THEN "loading" ELSE runtimePromise
    /\ UNCHANGED <<hostVars, commanded, deactivated, serverState,
                   restartQueued, settings, shutdownState, status, pc,
                   localVars, live, abandoned, owed, failed>>

\* The ry.restart command; VS Code disposes it once deactivated.
RestartCommand ==
    /\ Spend /\ ~ deactivated
    /\ \/ /\ runtimePromise = "up" /\ RequestRestart(config, trusted)
          /\ UNCHANGED <<runtimePromise, commanded>>
       \/ /\ runtimePromise # "up"
          /\ runtimePromise' = "loading" /\ commanded' = TRUE
          /\ UNCHANGED <<pc, restartQueued, localVars, owed>>
    /\ UNCHANGED <<config, trusted, past, warned, bootImmediate, deactivated,
                   serverState, settings, shutdownState, status, live, abandoned,
                   failed>>

\* start(context) requests the first restart; then a waiting command and a
\* waiting deactivate go on, in this order.
LoadSucceeded ==
    /\ runtimePromise = "loading" /\ runtimePromise' = "up"
    /\ pc' = "version"
    /\ nextSettings' = config
    /\ nextPath' = FindRyBinaryPath(config, trusted)
    /\ restartQueued' = commanded /\ owed' = commanded
    /\ commanded' = FALSE
    /\ shutdownState' = IF deactivated THEN "awaiting" ELSE "no"
    /\ UNCHANGED <<hostVars, bootImmediate, deactivated, serverState, settings,
                   status, nextClient, previous, live, abandoned, failed>>

\* A failed load is forgotten, so that a later command tries again.
LoadFailed ==
    /\ runtimePromise = "loading" /\ runtimePromise' = "none"
    /\ commanded' = FALSE
    /\ shutdownState' = IF deactivated THEN "done" ELSE "no"
    /\ UNCHANGED <<hostVars, bootImmediate, deactivated, serverState,
                   restartQueued, settings, status, pc, localVars, live,
                   abandoned, owed, failed>>

\* deactivate: a pending boot is cancelled, a loaded runtime shut down.
Deactivate ==
    /\ ~ deactivated /\ deactivated' = TRUE
    /\ bootImmediate' = FALSE
    /\ shutdownState' = CASE runtimePromise = "none" -> "done"
                     [] runtimePromise = "loading" -> "no"
                     [] runtimePromise = "up" -> "awaiting"
    /\ UNCHANGED <<hostVars, runtimePromise, commanded, serverState,
                   restartQueued, settings, status, pc, localVars, live,
                   abandoned, owed, failed>>

-----------------------------------------------------------------------------
(* Shutdown                                                                *)

\* A mutant: shutdown waits until a server has started.
ShutdownStopsServer ==
    /\ shutdownState = "awaiting" /\ pc = "none"
    /\ serverState # NoClient /\ shutdownState' = "stopping"
    /\ UNCHANGED <<hostVars, bootVars, serverState, restartQueued, settings,
                   status, pc, localVars, live, abandoned, owed, failed>>

\* The restart in flight has ended.
ShutdownStops ==
    /\ shutdownState = "awaiting" /\ pc = "none"
    /\ shutdownState' = IF serverState # NoClient THEN "stopping" ELSE "done"
    /\ UNCHANGED <<hostVars, bootVars, serverState, restartQueued, settings,
                   status, pc, localVars, live, abandoned, owed, failed>>

ShutdownEnds ==
    /\ shutdownState = "stopping" /\ shutdownState' = "done"
    /\ Dispose(serverState)
    /\ serverState' = IF serverState \in abandoned' THEN serverState
                      ELSE NoClient
    /\ UNCHANGED <<hostVars, bootVars, restartQueued, settings, status, pc,
                   localVars, owed, failed>>

\* Answers to what the runtime awaits
Resume ==
    \/ VersionRefused \/ VersionAccepted
    \/ StartFailed \/ StartSucceeded \/ PreviousStopped
    \/ LoadSucceeded \/ LoadFailed
    \/ ShutdownStops \/ ShutdownEnds

ExtensionNext ==
    \/ Resume \/ Boot
    \/ \E new \in Settings, enableToo \in BOOLEAN :
          ChangeSettings(new, enableToo)
    \/ GrantTrust \/ RestartCommand \/ Deactivate

ExtensionSpec == ExtensionInit /\ [][ExtensionNext]_extensionVars

\* A probe times out, and a server's start and stop are answered; the event
\* loop runs what is scheduled.
ExtensionFairSpec ==
    ExtensionSpec /\ WF_extensionVars(Resume) /\ WF_extensionVars(Boot)

-----------------------------------------------------------------------------
(* Properties                                                              *)

\* Every variable has its type.
ExtensionTypeOK ==
    /\ config \in Settings /\ trusted \in BOOLEAN /\ past \subseteq Settings
    /\ budget \in 0 .. Budget
    /\ bootImmediate \in BOOLEAN
    /\ runtimePromise \in {"none", "loading", "up"}
    /\ commanded \in BOOLEAN /\ deactivated \in BOOLEAN
    /\ serverState \in Client \cup {NoClient}
    /\ restartQueued \in BOOLEAN
    /\ settings \in Settings \cup {NoSettings}
    /\ shutdownState \in {"no", "awaiting", "stopping", "done"}
    /\ status \in {"busy", "error"} \cup Binaries
    /\ pc \in {"none", "version", "start", "stop"}
    /\ nextSettings \in Settings \cup {NoSettings} /\ nextPath \in Binaries
    /\ nextClient \in Client \cup {NoClient}
    /\ previous \in Client \cup {NoClient}
    /\ live \subseteq Client /\ abandoned \subseteq live
    /\ owed \in BOOLEAN /\ failed \in BOOLEAN /\ warned \in BOOLEAN

\* No restart is in flight and none is wanted.
AtRest == runtimePromise = "up" /\ pc = "none" /\ ~ shutdownStarted

(* Unless the last restart failed or the user was told to restart VS Code, *)
(* the server at rest is the binary the settings and the trust select,     *)
(* with the log level they give.                                           *)
ServerCurrent ==
    AtRest /\ ~ failed /\ ~ warned =>
        /\ serverState # NoClient
        /\ serverState.path = FindRyBinaryPath(config, trusted)
        /\ serverState.logLevel = config.logLevel

(* A server process that runs is one the runtime will stop: the one in use *)
(* and, during a restart, the one it starts or the one it replaced.        *)
NoOrphan ==
    live \ abandoned \subseteq
        {serverState} \cup (IF pc = "start" THEN {nextClient} ELSE {})
                      \cup (IF pc = "stop" THEN {previous} ELSE {})

(* The promise of requestRestart resolves only after a run that began when *)
(* or after the request was made, so a run reads the settings the user had *)
(* at that moment; only shutdown drops a request.                          *)
RequestsServed == pc = "none" /\ ~ shutdownStarted => ~ owed

(* From the first start to the shutdown there is a running server: a       *)
(* restart that fails at any point leaves the old one in use.              *)
KeepsServing ==
    /\ serverState # NoClient /\ shutdownState # "done"
    => serverState \in live \ abandoned

(* The status item settles on what is the case: the binary that serves, or *)
(* an error when none does.                                                *)
StatusTruthful ==
    AtRest => status = IF serverState # NoClient THEN serverState.path
                       ELSE "error"

(* Once deactivation is done no server process runs or starts, whatever    *)
(* restart, load or boot was under way, except one whose dispose failed.   *)
StoppedForGood ==
    shutdownState = "done" => pc = "none" /\ live = abandoned

(* Deactivation ends.                                                      *)
DeactivationEnds == <>[](deactivated => shutdownState = "done")
==============================================================================
