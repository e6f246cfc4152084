--------------------------- MODULE Backend_proofs ----------------------------
(***************************************************************************)
(* Theorems about Backend and the extension it composes with, for every    *)
(* set of URIs, callers and configuration files, and every bound: what the *)
(* editor may rely on when servers start, restart and stop, and what a     *)
(* watcher registration, the end of the process and a request without the  *)
(* lock may rely on.                                                       *)
(***************************************************************************)
EXTENDS Backend, Documents_proofs, FiniteSetTheorems

-----------------------------------------------------------------------------
(* The extension, for any binaries, log levels and bounds.                 *)

\* NoClient has an id that no client has.
LEMMA NoClientIsNone == NoClient \notin Client
  BY RuntimeAssumption DEF NoClient, Client, Ids

-----------------------------------------------------------------------------
(* The inductive invariant                                                 *)

\* Before the runtime is loaded nothing runs, and a boot does not outlive
\* deactivation.
BootInv ==
    /\ runtimePromise # "up" =>
          /\ pc = "none" /\ ~ restartQueued /\ live = {}
          /\ serverState = NoClient /\ shutdownState \in {"no", "done"}
    /\ deactivated => ~ bootImmediate
    /\ shutdownStarted => deactivated
    /\ shutdownState = "done" => runtimePromise # "loading"

\* The clients in hand run, are distinct, and none was given up.
RoleInv ==
    /\ pc = "start" => nextClient \in live \ abandoned
                       /\ nextClient # serverState
    /\ pc = "stop" => /\ previous \in live \ abandoned
                      /\ previous # serverState
                      /\ serverState # NoClient

\* The server is stopped when no restart is in flight.
ShutdownInv ==
    /\ shutdownState \in {"stopping", "done"} => pc = "none"
    /\ shutdownState = "stopping" => serverState # NoClient

\* A request that no run serves is queued, and is not left behind.
QueueInv ==
    /\ owed => restartQueued
    /\ pc = "none" /\ ~ shutdownStarted => ~ restartQueued

ClientInv == NoOrphan /\ KeepsServing /\ StoppedForGood

IInv == ExtensionTypeOK /\ BootInv /\ RoleInv /\ ShutdownInv /\ QueueInv /\ ClientInv

\* What a request or the end of a turn does to the restart in flight.
RestartStep ==
    /\ pc' \in {"none", "version", "start", "stop"}
    /\ restartQueued' \in BOOLEAN /\ owed' \in BOOLEAN
    /\ nextSettings' \in Settings \cup {NoSettings} /\ nextPath' \in Binaries
    /\ nextClient' \in Client \cup {NoClient}
    /\ previous' \in Client \cup {NoClient}
    /\ owed' => restartQueued'
    /\ pc' = "none" /\ ~ shutdownStarted => ~ restartQueued'

LEMMA PathFound ==
  ASSUME NEW s \in Settings, NEW t \in BOOLEAN
  PROVE  FindRyBinaryPath(s, t) \in Binaries
  BY RuntimeAssumption DEF FindRyBinaryPath, Settings

\* A request starts a run when none is in flight, or queues one, or is
\* refused; it moves nothing else.
LEMMA RequestEffect ==
  ASSUME IInv, NEW s \in Settings, NEW t \in BOOLEAN, RequestRestart(s, t)
  PROVE  /\ RestartStep
         /\ \/ pc' = pc /\ UNCHANGED localVars
            \/ ~ shutdownStarted /\ pc = "none" /\ pc' = "version"
         /\ shutdownStarted => restartQueued' = restartQueued
  <1> USE DEF IInv, ExtensionTypeOK, QueueInv, RestartStep, localVars
  <1>1. CASE shutdownStarted
            /\ UNCHANGED <<pc, restartQueued, localVars, owed>>
    BY <1>1
  <1>2. CASE /\ ~ shutdownStarted /\ pc # "none"
             /\ restartQueued' = TRUE /\ owed' = TRUE
             /\ UNCHANGED <<pc, localVars>>
    BY <1>2
  <1>3. CASE ~ shutdownStarted /\ pc = "none" /\ BeginRun(s, t)
    BY <1>3, PathFound DEF BeginRun
  <1> QED
    BY <1>1, <1>2, <1>3 DEF RequestRestart

\* A turn ends the restart, or begins the one that is queued.
LEMMA EndEffect ==
  ASSUME IInv, EndRun
  PROVE  /\ RestartStep
         /\ pc' \in {"none", "version"}
         /\ pc' = "version" => ~ shutdownStarted
  <1> USE DEF IInv, ExtensionTypeOK, QueueInv, RestartStep
  <1>1. CASE restartQueued /\ ~ shutdownStarted /\ BeginRun(config, trusted)
    BY <1>1, PathFound DEF BeginRun
  <1>2. CASE /\ ~ (restartQueued /\ ~ shutdownStarted)
             /\ pc' = "none"
             /\ nextSettings' = NoSettings /\ nextPath' = Bundled
             /\ nextClient' = NoClient /\ previous' = NoClient
             /\ UNCHANGED <<restartQueued, owed>>
    BY <1>2, RuntimeAssumption
  <1> QED
    BY <1>1, <1>2 DEF EndRun

\* A step that touches no client and no shutdown keeps what is said of them.
LEMMA QuietStep ==
  ASSUME IInv, UNCHANGED <<serverState, shutdownState, live, abandoned>>,
         \/ pc' = pc /\ UNCHANGED localVars
         \/ ~ shutdownStarted /\ pc = "none" /\ pc' = "version"
  PROVE  RoleInv' /\ ShutdownInv' /\ ClientInv'
  BY DEF IInv, RoleInv, ShutdownInv, ClientInv, NoOrphan, KeepsServing,
         StoppedForGood, shutdownStarted, localVars

-----------------------------------------------------------------------------
(* Events of the editor                                                    *)

LEMMA ChangeStep ==
  ASSUME IInv, NEW new \in Settings, NEW enableToo \in BOOLEAN,
         ChangeSettings(new, enableToo)
  PROVE  IInv'
  <1> USE DEF ChangeSettings
  <1>1. \/ UNCHANGED <<pc, restartQueued, localVars, owed>>
        \/ runtimePromise = "up" /\ RequestRestart(new, trusted)
    OBVIOUS
  <1>2. budget' \in 0 .. Budget
    BY RuntimeAssumption DEF IInv, ExtensionTypeOK, Spend
  <1>3. warned' \in BOOLEAN
    <2>1. warned \in BOOLEAN
      BY DEF IInv, ExtensionTypeOK
    <2> QED
      BY <2>1, Zenon
  <1>4. /\ config' \in Settings /\ past' \subseteq Settings
        /\ settings' \in Settings \cup {NoSettings}
    BY DEF IInv, ExtensionTypeOK
  <1>5. UNCHANGED <<trusted, bootVars, serverState, shutdownState, status, live,
                    abandoned, failed>>
    OBVIOUS
  <1>6. CASE UNCHANGED <<pc, restartQueued, localVars, owed>>
    <2> HIDE DEF ChangeSettings
    <2>1. ExtensionTypeOK' /\ BootInv' /\ QueueInv'
      BY <1>2, <1>3, <1>4, <1>5, <1>6
      DEF IInv, ExtensionTypeOK, BootInv, QueueInv, bootVars, localVars,
          shutdownStarted
    <2> QED
      BY <1>5, <1>6, <2>1, QuietStep DEF IInv
  <1>7. CASE runtimePromise = "up" /\ RequestRestart(new, trusted)
    <2> HIDE DEF ChangeSettings
    <2>1. trusted \in BOOLEAN
      BY DEF IInv, ExtensionTypeOK
    <2>2. ExtensionTypeOK' /\ BootInv' /\ QueueInv'
      BY <1>2, <1>3, <1>4, <1>5, <1>7, <2>1, RequestEffect
      DEF IInv, ExtensionTypeOK, BootInv, QueueInv, RestartStep, bootVars,
          shutdownStarted
    <2> QED
      BY <1>5, <1>7, <2>1, <2>2, RequestEffect, QuietStep DEF IInv
  <1> QED
    BY <1>1, <1>6, <1>7

LEMMA TrustStep ==
  ASSUME IInv, GrantTrust
  PROVE  IInv'
  <1> USE DEF GrantTrust
  <1>1. /\ budget' \in 0 .. Budget
        /\ trusted' \in BOOLEAN
    BY RuntimeAssumption DEF IInv, ExtensionTypeOK, Spend
  <1>2. CASE runtimePromise = "up" /\ RequestRestart(config, TRUE)
    <2>1. config \in Settings
      BY DEF IInv, ExtensionTypeOK
    <2>2. ExtensionTypeOK' /\ BootInv' /\ QueueInv'
      BY <1>1, <1>2, <2>1, RequestEffect
      DEF IInv, ExtensionTypeOK, BootInv, QueueInv, RestartStep, bootVars,
          shutdownStarted
    <2> QED
      BY <1>2, <2>1, <2>2, RequestEffect, QuietStep DEF IInv
  <1>3. CASE UNCHANGED <<pc, restartQueued, localVars, owed>>
    <2>1. ExtensionTypeOK' /\ BootInv' /\ QueueInv'
      BY <1>1, <1>3
      DEF IInv, ExtensionTypeOK, BootInv, QueueInv, bootVars, localVars,
          shutdownStarted
    <2> QED
      BY <1>3, <2>1, QuietStep DEF IInv
  <1> QED
    BY <1>2, <1>3

LEMMA BootStep ==
  ASSUME IInv, Boot
  PROVE  IInv'
  <1> USE DEF Boot
  <1>1. ExtensionTypeOK'
    <2>1. bootImmediate' \in BOOLEAN
      OBVIOUS
    <2>2. runtimePromise' \in {"none", "loading", "up"}
      BY DEF IInv, ExtensionTypeOK
    <2>3. UNCHANGED <<hostVars, commanded, deactivated, serverState,
                      restartQueued, settings, shutdownState, status, pc,
                      localVars, live, abandoned, owed, failed>>
      OBVIOUS
    <2> HIDE DEF Boot
    <2> QED
      BY <2>1, <2>2, <2>3 DEF IInv, ExtensionTypeOK, hostVars, localVars
  <1>2. BootInv'
    BY DEF IInv, BootInv, shutdownStarted
  <1>3. QueueInv'
    BY DEF IInv, QueueInv, shutdownStarted
  <1> QED
    BY <1>1, <1>2, <1>3, QuietStep DEF IInv

LEMMA CommandStep ==
  ASSUME IInv, RestartCommand
  PROVE  IInv'
  <1> USE DEF RestartCommand
  <1>1. budget' \in 0 .. Budget
    BY RuntimeAssumption DEF IInv, ExtensionTypeOK, Spend
  <1>2. CASE /\ runtimePromise = "up" /\ RequestRestart(config, trusted)
             /\ UNCHANGED <<runtimePromise, commanded>>
    <2>1. config \in Settings /\ trusted \in BOOLEAN
      BY DEF IInv, ExtensionTypeOK
    <2>2. ExtensionTypeOK' /\ BootInv' /\ QueueInv'
      BY <1>1, <1>2, <2>1, RequestEffect
      DEF IInv, ExtensionTypeOK, BootInv, QueueInv, RestartStep, shutdownStarted
    <2> QED
      BY <1>2, <2>1, <2>2, RequestEffect, QuietStep DEF IInv
  <1>3. CASE /\ runtimePromise # "up"
             /\ runtimePromise' = "loading" /\ commanded' = TRUE
             /\ UNCHANGED <<pc, restartQueued, localVars, owed>>
    <2>1. ExtensionTypeOK' /\ BootInv' /\ QueueInv'
      BY <1>1, <1>3
      DEF IInv, ExtensionTypeOK, BootInv, QueueInv, localVars, shutdownStarted
    <2> QED
      BY <1>3, <2>1, QuietStep DEF IInv
  <1> QED
    BY <1>2, <1>3

LEMMA LoadStep ==
  ASSUME IInv, LoadSucceeded \/ LoadFailed
  PROVE  IInv'
  <1>1. CASE LoadSucceeded
    <2> USE <1>1 DEF LoadSucceeded
    <2>1. ExtensionTypeOK'
      <3>1. nextPath' \in Binaries
        BY PathFound DEF IInv, ExtensionTypeOK
      <3> QED
        BY <3>1 DEF IInv, ExtensionTypeOK, hostVars
    <2>2. BootInv' /\ QueueInv'
      BY DEF IInv, ExtensionTypeOK, BootInv, QueueInv, shutdownStarted
    <2>3. RoleInv' /\ ShutdownInv' /\ ClientInv'
      BY DEF IInv, BootInv, RoleInv, ShutdownInv, ClientInv, NoOrphan,
             KeepsServing, StoppedForGood
    <2> QED
      BY <2>1, <2>2, <2>3 DEF IInv
  <1>2. CASE LoadFailed
    <2> USE <1>2 DEF LoadFailed
    <2>1. ExtensionTypeOK' /\ BootInv' /\ QueueInv'
      BY DEF IInv, ExtensionTypeOK, BootInv, QueueInv, hostVars, localVars,
             shutdownStarted
    <2>2. RoleInv' /\ ShutdownInv' /\ ClientInv'
      BY DEF IInv, ExtensionTypeOK, BootInv, RoleInv, ShutdownInv, ClientInv,
             NoOrphan, KeepsServing, StoppedForGood, localVars
    <2> QED
      BY <2>1, <2>2 DEF IInv
  <1> QED
    BY <1>1, <1>2

LEMMA DeactivateStep ==
  ASSUME IInv, Deactivate
  PROVE  IInv'
  <1> USE DEF Deactivate
  <1>1. shutdownState' \in {"no", "awaiting", "done"}
        /\ (shutdownState' = "done" => runtimePromise = "none")
        /\ (runtimePromise = "none" => shutdownState' = "done")
        /\ (shutdownState' = "awaiting" => runtimePromise = "up")
    BY DEF IInv, ExtensionTypeOK
  <1>2. ~ shutdownStarted
    BY DEF IInv, BootInv
  <1>3. ExtensionTypeOK'
    <2>1. bootImmediate' \in BOOLEAN /\ deactivated' \in BOOLEAN
      OBVIOUS
    <2>2. UNCHANGED <<hostVars, runtimePromise, commanded, serverState,
                      restartQueued, settings, status, pc, localVars, live,
                      abandoned, owed, failed>>
      OBVIOUS
    <2> HIDE DEF Deactivate
    <2> QED
      BY <1>1, <2>1, <2>2 DEF IInv, ExtensionTypeOK, hostVars, localVars
  <1>4. BootInv' /\ QueueInv'
    BY <1>1, <1>2 DEF IInv, BootInv, QueueInv, shutdownStarted
  <1>5. RoleInv' /\ ShutdownInv' /\ ClientInv'
    BY <1>1, <1>2
    DEF IInv, ExtensionTypeOK, BootInv, RoleInv, ShutdownInv, ClientInv, NoOrphan,
        KeepsServing, StoppedForGood, localVars, shutdownStarted
  <1> QED
    BY <1>3, <1>4, <1>5 DEF IInv

-----------------------------------------------------------------------------
(* The answers that runServer awaits                                       *)

LEMMA RefusedStep ==
  ASSUME IInv, VersionRefused
  PROVE  IInv'
  <1> USE DEF VersionRefused
  <1>1. status' \in {"busy", "error"} \cup Binaries
    BY DEF IInv, ExtensionTypeOK, ReportFailure, Client
  <1>2. ExtensionTypeOK' /\ BootInv' /\ QueueInv'
    BY <1>1, EndEffect
    DEF IInv, ExtensionTypeOK, BootInv, QueueInv, RestartStep, hostVars, bootVars,
        shutdownStarted
  <1>3. RoleInv' /\ ShutdownInv' /\ ClientInv'
    BY EndEffect
    DEF IInv, RoleInv, ShutdownInv, ClientInv, NoOrphan, KeepsServing,
        StoppedForGood, shutdownStarted
  <1> QED
    BY <1>2, <1>3 DEF IInv

LEMMA AcceptedStep ==
  ASSUME IInv, VersionAccepted
  PROVE  IInv'
  <1> USE DEF VersionAccepted
  <1>1. PICK id \in Ids :
           /\ Fresh(id)
           /\ nextClient' = [id |-> id, path |-> nextPath,
                             logLevel |-> config.logLevel]
    OBVIOUS
  <1>2. nextClient' \in Client
    BY <1>1 DEF IInv, ExtensionTypeOK, Client, Settings
  <1>3. nextClient' \notin live
    BY <1>1 DEF Fresh
  <1>4. nextClient' # serverState
    BY <1>2, <1>3, NoClientIsNone DEF IInv, ClientInv, KeepsServing,
       ShutdownInv
  <1>5. ExtensionTypeOK'
    BY <1>2 DEF IInv, ExtensionTypeOK, hostVars, bootVars
  <1>6. BootInv' /\ QueueInv'
    BY DEF IInv, BootInv, QueueInv, bootVars, shutdownStarted
  <1>7. RoleInv' /\ ShutdownInv' /\ ClientInv'
    BY <1>3, <1>4
    DEF IInv, ExtensionTypeOK, RoleInv, ShutdownInv, ClientInv, NoOrphan,
        KeepsServing, StoppedForGood
  <1> QED
    BY <1>5, <1>6, <1>7 DEF IInv

LEMMA StartFailedStep ==
  ASSUME IInv, StartFailed
  PROVE  IInv'
  <1> USE DEF StartFailed
  <1>1. status' \in {"busy", "error"} \cup Binaries
    BY DEF IInv, ExtensionTypeOK, ReportFailure, Client
  <1>2. /\ nextClient \in live \ abandoned /\ nextClient # serverState
        /\ shutdownState \notin {"stopping", "done"}
    BY DEF IInv, RoleInv, ShutdownInv
  <1>3. /\ live' \subseteq Client /\ abandoned' \subseteq live'
        /\ live' \ abandoned' = (live \ abandoned) \ {nextClient}
    BY <1>2 DEF IInv, ExtensionTypeOK, Dispose
  <1>4. ExtensionTypeOK'
    BY <1>1, <1>3, EndEffect
    DEF IInv, ExtensionTypeOK, RestartStep, hostVars, bootVars
  <1>5. BootInv' /\ QueueInv'
    BY EndEffect
    DEF IInv, BootInv, QueueInv, RestartStep, bootVars, shutdownStarted
  <1>6. RoleInv' /\ ShutdownInv' /\ ClientInv'
    BY <1>2, <1>3, EndEffect
    DEF IInv, RoleInv, ShutdownInv, ClientInv, NoOrphan, KeepsServing,
        StoppedForGood, shutdownStarted
  <1> QED
    BY <1>4, <1>5, <1>6 DEF IInv

LEMMA StartSucceededStep ==
  ASSUME IInv, StartSucceeded
  PROVE  IInv'
  <1> USE DEF StartSucceeded
  <1>1. /\ nextClient \in live \ abandoned /\ nextClient # serverState
        /\ shutdownState \notin {"stopping", "done"} /\ runtimePromise = "up"
    BY DEF IInv, RoleInv, ShutdownInv, BootInv
  <1>2. nextClient # NoClient
    BY <1>1, NoClientIsNone DEF IInv, ExtensionTypeOK
  <1>3. /\ serverState' \in Client \cup {NoClient}
        /\ settings' \in Settings \cup {NoSettings}
        /\ status' \in {"busy", "error"} \cup Binaries
        /\ failed' \in BOOLEAN
    BY DEF IInv, ExtensionTypeOK
  <1>4. UNCHANGED <<hostVars, bootVars, shutdownState, live, abandoned>>
    OBVIOUS
  <1>5. CASE /\ serverState # NoClient
             /\ pc' = "stop" /\ previous' = serverState
             /\ UNCHANGED <<restartQueued, nextSettings, nextPath, nextClient,
                            owed>>
    <2>1. ExtensionTypeOK'
      <3> HIDE DEF StartSucceeded
      <3> QED
        BY <1>5, <1>3, <1>4 DEF IInv, ExtensionTypeOK, hostVars, bootVars
    <2>2. BootInv' /\ QueueInv'
      BY <1>1, <1>5 DEF IInv, BootInv, QueueInv, bootVars, shutdownStarted
    <2>3. RoleInv' /\ ShutdownInv' /\ ClientInv'
      BY <1>1, <1>2, <1>5
      DEF IInv, RoleInv, ShutdownInv, ClientInv, NoOrphan, KeepsServing,
          StoppedForGood
    <2> QED
      BY <2>1, <2>2, <2>3 DEF IInv
  <1>6. CASE serverState = NoClient /\ EndRun
    <2>1. ExtensionTypeOK'
      <3> HIDE DEF StartSucceeded
      <3> QED
        BY <1>6, <1>3, <1>4, EndEffect
        DEF IInv, ExtensionTypeOK, RestartStep, hostVars, bootVars
    <2>2. BootInv' /\ QueueInv'
      BY <1>1, <1>6, EndEffect
      DEF IInv, BootInv, QueueInv, RestartStep, bootVars, shutdownStarted
    <2>3. live \ abandoned \subseteq {nextClient}
      BY <1>1, <1>6, NoClientIsNone
      DEF IInv, ExtensionTypeOK, ClientInv, NoOrphan
    <2>4. RoleInv' /\ ShutdownInv' /\ ClientInv'
      BY <1>1, <1>2, <1>6, <2>3, EndEffect
      DEF IInv, RoleInv, ShutdownInv, ClientInv, NoOrphan, KeepsServing,
          StoppedForGood, shutdownStarted
    <2> QED
      BY <2>1, <2>2, <2>4 DEF IInv
  <1> QED
    BY <1>5, <1>6

LEMMA PreviousStep ==
  ASSUME IInv, PreviousStopped
  PROVE  IInv'
  <1> USE DEF PreviousStopped
  <1>1. status' \in {"busy", "error"} \cup Binaries
    BY DEF IInv, ExtensionTypeOK, ReportFailure, Client
  <1>2. /\ previous \in live \ abandoned /\ previous # serverState
        /\ shutdownState \notin {"stopping", "done"}
    BY DEF IInv, RoleInv, ShutdownInv
  <1>3. /\ live' \subseteq Client /\ abandoned' \subseteq live'
        /\ live' \ abandoned' = (live \ abandoned) \ {previous}
    BY <1>2 DEF IInv, ExtensionTypeOK, Dispose
  <1>4. ExtensionTypeOK'
    BY <1>1, <1>3, EndEffect
    DEF IInv, ExtensionTypeOK, RestartStep, hostVars, bootVars
  <1>5. BootInv' /\ QueueInv'
    BY EndEffect
    DEF IInv, BootInv, QueueInv, RestartStep, bootVars, shutdownStarted
  <1>6. RoleInv' /\ ShutdownInv' /\ ClientInv'
    BY <1>2, <1>3, EndEffect
    DEF IInv, RoleInv, ShutdownInv, ClientInv, NoOrphan, KeepsServing,
        StoppedForGood, shutdownStarted
  <1> QED
    BY <1>4, <1>5, <1>6 DEF IInv

-----------------------------------------------------------------------------
(* Shutdown                                                                *)

LEMMA ShutdownStopsStep ==
  ASSUME IInv, ShutdownStops
  PROVE  IInv'
  <1> USE DEF ShutdownStops
  <1>1. /\ shutdownState' \in {"stopping", "done"}
        /\ (shutdownState' = "stopping" <=> serverState # NoClient)
        /\ runtimePromise = "up"
    BY DEF IInv, BootInv
  <1>2. ExtensionTypeOK'
    BY <1>1 DEF IInv, ExtensionTypeOK, hostVars, bootVars, localVars
  <1>3. BootInv' /\ QueueInv'
    BY <1>1 DEF IInv, BootInv, QueueInv, bootVars, shutdownStarted
  <1>4. shutdownState' = "done" => live = abandoned
    BY <1>1, NoClientIsNone DEF IInv, ExtensionTypeOK, ClientInv, NoOrphan
  <1>5. RoleInv' /\ ShutdownInv' /\ ClientInv'
    BY <1>1, <1>4
    DEF IInv, RoleInv, ShutdownInv, ClientInv, NoOrphan, KeepsServing,
        StoppedForGood, localVars
  <1> QED
    BY <1>2, <1>3, <1>5 DEF IInv

LEMMA ShutdownEndsStep ==
  ASSUME IInv, ShutdownEnds
  PROVE  IInv'
  <1> USE DEF ShutdownEnds
  <1>1. /\ pc = "none" /\ serverState # NoClient
        /\ serverState \in live \ abandoned
        /\ runtimePromise = "up"
    BY DEF IInv, ShutdownInv, BootInv, ClientInv, KeepsServing
  <1>2. live \ abandoned = {serverState}
    BY <1>1 DEF IInv, ClientInv, NoOrphan
  <1>3. /\ live' \subseteq Client /\ abandoned' \subseteq live'
        /\ live' = abandoned'
    BY <1>1, <1>2 DEF IInv, ExtensionTypeOK, Dispose
  <1>4. ExtensionTypeOK'
    BY <1>3 DEF IInv, ExtensionTypeOK, hostVars, bootVars, localVars
  <1>5. BootInv' /\ QueueInv'
    BY <1>1 DEF IInv, BootInv, QueueInv, bootVars, shutdownStarted
  <1>6. RoleInv' /\ ShutdownInv' /\ ClientInv'
    BY <1>1, <1>3
    DEF IInv, RoleInv, ShutdownInv, ClientInv, NoOrphan, KeepsServing,
        StoppedForGood
  <1> QED
    BY <1>4, <1>5, <1>6 DEF IInv

-----------------------------------------------------------------------------
(* Theorems                                                                *)

LEMMA InitHolds == ExtensionInit => IInv
<1> SUFFICES ASSUME ExtensionInit PROVE IInv
  OBVIOUS
<1>1. ExtensionTypeOK
  <2>1. budget \in 0 .. Budget /\ past \subseteq Settings
    BY RuntimeAssumption DEF ExtensionInit
  <2> QED
    BY <2>1, RuntimeAssumption DEF ExtensionInit, ExtensionTypeOK, NoLocals
<1>2. BootInv /\ RoleInv /\ ShutdownInv /\ QueueInv /\ ClientInv
  BY DEF ExtensionInit, BootInv, RoleInv, ShutdownInv, QueueInv, ClientInv, NoOrphan,
         KeepsServing, StoppedForGood, shutdownStarted
<1> QED
  BY <1>1, <1>2 DEF IInv

LEMMA StepHolds == IInv /\ [ExtensionNext]_extensionVars => IInv'
<1> SUFFICES ASSUME IInv, [ExtensionNext]_extensionVars PROVE IInv'
  OBVIOUS
<1>1. CASE Resume
  BY <1>1, RefusedStep, AcceptedStep, StartFailedStep, StartSucceededStep,
     PreviousStep, LoadStep, ShutdownStopsStep, ShutdownEndsStep DEF Resume
<1>2. CASE Boot \/ GrantTrust \/ RestartCommand \/ Deactivate
  BY <1>2, BootStep, TrustStep, CommandStep, DeactivateStep
<1>3. CASE \E new \in Settings, enableToo \in BOOLEAN :
              ChangeSettings(new, enableToo)
  BY <1>3, ChangeStep
<1>4. CASE UNCHANGED extensionVars
  <2>1. ExtensionTypeOK' /\ BootInv' /\ QueueInv'
    BY <1>4
    DEF IInv, ExtensionTypeOK, BootInv, QueueInv, extensionVars, hostVars, bootVars, localVars,
        shutdownStarted
  <2> QED
    BY <1>4, <2>1, QuietStep DEF IInv, extensionVars
<1> QED
  BY <1>1, <1>2, <1>3, <1>4 DEF ExtensionNext

LEMMA Invariance == ExtensionSpec => []IInv
  BY InitHolds, StepHolds, PTL DEF ExtensionSpec

(* Every reachable state is well typed, whatever the binaries, log levels  *)
(* and number of changes; a client whose dispose failed is one that runs.  *)
THEOREM TypeCorrect == ExtensionSpec => []ExtensionTypeOK
<1>1. IInv => ExtensionTypeOK
  BY DEF IInv
<1> QED
  BY <1>1, Invariance, PTL

(* The runtime never loses hold of a server process it started, whatever   *)
(* changes, failures and shutdowns cross a restart.                        *)
THEOREM NothingOrphaned == ExtensionSpec => []NoOrphan
<1>1. IInv => NoOrphan
  BY DEF IInv, ClientInv
<1> QED
  BY <1>1, Invariance, PTL

(* A restart that fails, at the probe, at the start or at the stop of the  *)
(* old server, leaves a running server in use.                             *)
THEOREM AlwaysServes == ExtensionSpec => []KeepsServing
<1>1. IInv => KeepsServing
  BY DEF IInv, ClientInv
<1> QED
  BY <1>1, Invariance, PTL

(* No order of boot, load, restart and deactivation leaves a server        *)
(* running, or starts one, after deactivation is done.                     *)
THEOREM NothingAfterDeactivation == ExtensionSpec => []StoppedForGood
<1>1. IInv => StoppedForGood
  BY DEF IInv, ClientInv
<1> QED
  BY <1>1, Invariance, PTL

(* A restart request is served by a run that begins no earlier than it.    *)
THEOREM RequestsAreServed == ExtensionSpec => []RequestsServed
<1>1. IInv => RequestsServed
  BY DEF IInv, QueueInv, RequestsServed
<1> QED
  BY <1>1, Invariance, PTL

-----------------------------------------------------------------------------
(* What is shown                                                           *)

\* A client that starts is of the path that is shown once it has started,
\* and from then on the status shows the server in use.
StatusInv ==
    /\ pc = "start" => nextClient.path = nextPath
    /\ pc = "stop" => status = serverState.path
    /\ AtRest => status = IF serverState # NoClient THEN serverState.path
                          ELSE "error"

\* A request for a restart, or the lack of one, touches no status.
LEMMA StatusRequest ==
  ASSUME IInv, StatusInv, UNCHANGED <<serverState, status, shutdownState>>,
         \/ pc' = pc /\ UNCHANGED <<localVars, runtimePromise>>
         \/ pc' = "version"
         \/ runtimePromise' # "up" /\ pc' = "none"
  PROVE  StatusInv'
  BY DEF StatusInv, AtRest, shutdownStarted, localVars

LEMMA StatusStep ==
  ASSUME IInv, StatusInv, [ExtensionNext]_extensionVars PROVE StatusInv'
<1> USE DEF AtRest, shutdownStarted
<1>1. CASE VersionRefused
  <2>1. UNCHANGED serverState /\ pc' \in {"none", "version"}
    BY <1>1, EndEffect DEF VersionRefused
  <2> QED
    BY <1>1, <2>1 DEF VersionRefused, ReportFailure, StatusInv
<1>2. CASE VersionAccepted
  <2>1. pc' = "start" /\ nextClient'.path = nextPath /\ nextPath' = nextPath
    BY <1>2 DEF VersionAccepted
  <2> QED
    BY <2>1 DEF StatusInv
<1>3. CASE StartFailed
  <2>1. UNCHANGED serverState /\ pc' \in {"none", "version"}
    BY <1>3, EndEffect DEF StartFailed
  <2> QED
    BY <1>3, <2>1 DEF StartFailed, ReportFailure, StatusInv
<1>4. CASE StartSucceeded
  <2>1. serverState' = nextClient /\ status' = nextClient.path
        /\ nextClient # NoClient /\ pc' \in {"none", "version", "stop"}
    BY <1>4, EndEffect, NoClientIsNone
    DEF StartSucceeded, StatusInv, IInv, ExtensionTypeOK, RoleInv
  <2> QED
    BY <2>1 DEF StatusInv
<1>5. CASE PreviousStopped
  <2>1. serverState # NoClient /\ status = serverState.path
        /\ serverState' = serverState /\ pc' \in {"none", "version"}
    BY <1>5, EndEffect DEF PreviousStopped, StatusInv, IInv, RoleInv
  <2>2. status' = serverState.path
    BY <1>5, <2>1 DEF PreviousStopped, ReportFailure
  <2> QED
    BY <2>1, <2>2 DEF StatusInv
<1>6. CASE LoadSucceeded \/ LoadFailed
  BY <1>6 DEF LoadSucceeded, LoadFailed, StatusInv, IInv, BootInv, localVars
<1>7. CASE ShutdownStops \/ ShutdownEnds
  BY <1>7 DEF ShutdownStops, ShutdownEnds, StatusInv, IInv, ShutdownInv,
              localVars
<1>8. CASE Boot
  BY <1>8 DEF Boot, StatusInv, IInv, BootInv, localVars
<1>9. CASE Deactivate
  BY <1>9 DEF Deactivate, StatusInv, IInv, BootInv, ExtensionTypeOK, localVars
<1>10. CASE RestartCommand
  <2>1. config \in Settings /\ trusted \in BOOLEAN
    BY DEF IInv, ExtensionTypeOK
  <2>2. CASE RequestRestart(config, trusted) /\ runtimePromise' = runtimePromise
    <3> HIDE DEF shutdownStarted, AtRest
    <3> QED  BY <1>10, <2>1, <2>2, RequestEffect, StatusRequest DEF RestartCommand
  <2>3. CASE UNCHANGED <<pc, localVars>> /\ runtimePromise' = "loading"
    BY <1>10, <2>3 DEF RestartCommand, StatusInv, localVars
  <2> QED  BY <1>10, <2>2, <2>3 DEF RestartCommand
<1>11. ASSUME NEW new \in Settings, NEW enableToo \in BOOLEAN,
              ChangeSettings(new, enableToo)
       PROVE  StatusInv'
  <2>1. \/ UNCHANGED <<pc, localVars>>
        \/ RequestRestart(new, trusted)
    BY <1>11 DEF ChangeSettings
  <2>2. UNCHANGED <<serverState, status, shutdownState, runtimePromise>>
    BY <1>11 DEF ChangeSettings, bootVars
  <2>3. trusted \in BOOLEAN
    BY DEF IInv, ExtensionTypeOK
  <2> HIDE DEF shutdownStarted, AtRest
  <2> QED  BY <2>1, <2>2, <2>3, RequestEffect, StatusRequest
<1>12. CASE GrantTrust
  <2>1. \/ UNCHANGED <<pc, localVars>>
        \/ RequestRestart(config, TRUE)
    BY <1>12 DEF GrantTrust
  <2>2. UNCHANGED <<serverState, status, shutdownState, runtimePromise>>
    BY <1>12 DEF GrantTrust, bootVars
  <2>3. config \in Settings
    BY DEF IInv, ExtensionTypeOK
  <2> HIDE DEF shutdownStarted, AtRest
  <2> QED  BY <2>1, <2>2, <2>3, RequestEffect, StatusRequest
<1>13. CASE UNCHANGED extensionVars
  BY <1>13 DEF extensionVars, bootVars, localVars, StatusInv
<1> QED
  BY <1>1, <1>2, <1>3, <1>4, <1>5, <1>6, <1>7, <1>8, <1>9, <1>10, <1>11,
     <1>12, <1>13 DEF ExtensionNext, Resume

(* Whenever no restart is in flight or wanted, the status item shows the   *)
(* binary that serves, or an error when none does, after any failures of   *)
(* the probe, the start and the stop.                                      *)
THEOREM StatusIsTruthful == ExtensionSpec => []StatusTruthful
<1>1. ExtensionInit => StatusInv
  BY DEF ExtensionInit, StatusInv, AtRest
<1>2. IInv /\ StatusInv /\ [ExtensionNext]_extensionVars => StatusInv'
  BY StatusStep
<1>3. StatusInv => StatusTruthful
  BY DEF StatusInv, StatusTruthful
<1> QED
  BY <1>1, <1>2, <1>3, Invariance, PTL DEF ExtensionSpec

-----------------------------------------------------------------------------
(* Which server is in use                                                  *)

\* What was read was in force when it was read.
PastInv ==
    /\ config \in past
    /\ settings \in past \cup {NoSettings}
    /\ nextSettings \in past \cup {NoSettings}

\* The settings and the trust select this client now.
Selected(client) ==
    /\ client # NoClient
    /\ client.path = FindRyBinaryPath(config, trusted)
    /\ client.logLevel = config.logLevel

\* Unless another run is queued, the one in flight works for the settings in
\* force, from the first segment to the last.
CurrentInv ==
    ~ shutdownStarted /\ ~ warned /\ ~ restartQueued =>
        /\ pc \in {"version", "start"} =>
              nextSettings = config /\ nextPath = FindRyBinaryPath(config, trusted)
        /\ pc = "start" => Selected(nextClient)
        /\ pc = "stop" => Selected(serverState)
        /\ pc = "none" /\ runtimePromise = "up" /\ ~ failed =>
              Selected(serverState)

\* A request leaves a run in flight that is for these settings, or queued.
LEMMA RequestSelects ==
  ASSUME NEW s, NEW t, RequestRestart(s, t), ~ shutdownStarted
  PROVE  /\ nextSettings' \in {s, nextSettings}
         /\ \/ restartQueued'
            \/ /\ pc' = "version" /\ nextSettings' = s
               /\ nextPath' = FindRyBinaryPath(s, t)
  BY DEF RequestRestart, BeginRun, localVars

\* The end of a turn leaves the server as it is, unless another run begins.
LEMMA EndSelects ==
  ASSUME EndRun, UNCHANGED shutdownState
  PROVE  /\ nextSettings' \in {config, NoSettings}
         /\ \/ /\ pc' = "version" /\ nextSettings' = config
               /\ nextPath' = FindRyBinaryPath(config, trusted)
            \/ pc' = "none" /\ (~ shutdownStarted' => ~ restartQueued)
  BY DEF EndRun, BeginRun, shutdownStarted

LEMMA PastStep ==
  ASSUME IInv, PastInv, [ExtensionNext]_extensionVars PROVE PastInv'
<1> USE DEF PastInv
<1>1. CASE VersionRefused \/ StartFailed \/ StartSucceeded \/ PreviousStopped
  <2>1. nextSettings' \in {config, NoSettings, nextSettings}
        /\ settings' \in {settings, nextSettings}
        /\ UNCHANGED <<config, past>>
    BY <1>1, EndSelects
    DEF VersionRefused, StartFailed, StartSucceeded, PreviousStopped, hostVars
  <2> QED  BY <2>1
<1>2. CASE VersionAccepted \/ LoadSucceeded \/ LoadFailed \/ ShutdownStops
           \/ ShutdownEnds \/ Boot \/ Deactivate \/ UNCHANGED extensionVars
  BY <1>2 DEF VersionAccepted, LoadSucceeded, LoadFailed, ShutdownStops,
              ShutdownEnds, Boot, Deactivate, extensionVars, hostVars, localVars
<1>3. CASE RestartCommand
  <2>1. nextSettings' \in {config, nextSettings}
    BY <1>3, RequestSelects DEF RestartCommand, RequestRestart, localVars
  <2> QED  BY <1>3, <2>1 DEF RestartCommand
<1>4. ASSUME NEW new \in Settings, NEW enableToo \in BOOLEAN,
             ChangeSettings(new, enableToo)
      PROVE  PastInv'
  <2>1. nextSettings' \in {new, nextSettings} /\ settings' \in {settings, new}
    BY <1>4, RequestSelects DEF ChangeSettings, RequestRestart, localVars
  <2> QED  BY <1>4, <2>1 DEF ChangeSettings
<1>5. CASE GrantTrust
  <2>1. nextSettings' \in {config, nextSettings}
    BY <1>5, RequestSelects DEF GrantTrust, RequestRestart, localVars
  <2> QED  BY <1>5, <2>1 DEF GrantTrust
<1> QED
  BY <1>1, <1>2, <1>3, <1>4, <1>5 DEF ExtensionNext, Resume

LEMMA CurrentStep ==
  ASSUME ~ Reverts, IInv, StatusInv, PastInv, CurrentInv,
         [ExtensionNext]_extensionVars
  PROVE  CurrentInv'
<1> SUFFICES ASSUME ~ shutdownStarted', ~ warned', ~ restartQueued'
             PROVE  CurrentInv'
  BY DEF CurrentInv
<1>1. CASE VersionRefused \/ StartFailed
  <2>1. /\ EndRun /\ failed' /\ UNCHANGED <<config, trusted, shutdownState>>
    BY <1>1 DEF VersionRefused, StartFailed, hostVars
  <2> QED  BY <2>1, EndSelects DEF CurrentInv
<1>2. CASE VersionAccepted
  <2>1. /\ pc = "version" /\ pc' = "start"
        /\ UNCHANGED <<config, trusted, warned, shutdownState, restartQueued,
                       nextSettings, nextPath>>
        /\ nextClient' \in Client
        /\ nextClient'.path = nextPath /\ nextClient'.logLevel = config.logLevel
    BY <1>2 DEF VersionAccepted, hostVars, IInv, ExtensionTypeOK, Client, Settings
  <2> QED  BY <2>1, NoClientIsNone DEF CurrentInv, Selected, shutdownStarted
<1>3. CASE StartSucceeded
  <2>1. /\ pc = "start" /\ serverState' = nextClient
        /\ UNCHANGED <<config, trusted, warned, shutdownState>>
    BY <1>3 DEF StartSucceeded, hostVars
  <2>2. CASE pc' = "stop" /\ restartQueued' = restartQueued
    BY <2>1, <2>2 DEF CurrentInv, Selected, shutdownStarted
  <2>3. CASE EndRun
    BY <2>1, <2>3, EndSelects DEF CurrentInv, Selected, shutdownStarted
  <2> QED  BY <1>3, <2>2, <2>3 DEF StartSucceeded
<1>4. CASE PreviousStopped
  <2>1. /\ pc = "stop" /\ serverState' = serverState /\ EndRun
        /\ UNCHANGED <<config, trusted, warned, shutdownState>>
    BY <1>4 DEF PreviousStopped, hostVars
  <2> QED  BY <2>1, EndSelects DEF CurrentInv, Selected, shutdownStarted
<1>5. CASE LoadSucceeded
  BY <1>5 DEF LoadSucceeded, CurrentInv, hostVars
<1>6. CASE LoadFailed \/ Boot
  <2>1. /\ UNCHANGED <<config, trusted, warned, serverState, restartQueued, pc,
                       nextSettings, nextPath, nextClient, failed>>
        /\ shutdownStarted' \/ UNCHANGED shutdownState
        /\ runtimePromise' = runtimePromise \/ runtimePromise' # "up"
    BY <1>6 DEF LoadFailed, Boot, hostVars, localVars, shutdownStarted, IInv,
       BootInv, ExtensionTypeOK
  <2> QED  BY <2>1 DEF CurrentInv, Selected, shutdownStarted
<1>7. CASE ShutdownStops \/ ShutdownEnds \/ Deactivate
  BY <1>7 DEF ShutdownStops, ShutdownEnds, Deactivate, CurrentInv, Selected,
     shutdownStarted, hostVars, localVars, bootVars, IInv, BootInv, ExtensionTypeOK
<1>8. CASE RestartCommand
  <2>1. UNCHANGED <<config, trusted, warned, shutdownState, serverState, failed>>
    BY <1>8 DEF RestartCommand
  <2>2. CASE RequestRestart(config, trusted)
    BY <2>1, <2>2, RequestSelects DEF CurrentInv, shutdownStarted
  <2>3. CASE runtimePromise # "up" /\ runtimePromise' = "loading"
             /\ UNCHANGED <<pc, restartQueued, localVars, owed>>
    BY <2>1, <2>3 DEF CurrentInv, IInv, BootInv
  <2> QED  BY <1>8, <2>2, <2>3 DEF RestartCommand
<1>9. ASSUME NEW new \in Settings, NEW enableToo \in BOOLEAN,
             ChangeSettings(new, enableToo)
      PROVE  CurrentInv'
  <2>1. /\ config' = new /\ UNCHANGED <<trusted, shutdownState, runtimePromise>>
        /\ (config # new \/ enableToo) /\ (new = config \/ new \notin past)
    BY <1>9 DEF ChangeSettings, bootVars
  <2>2. CASE runtimePromise # "up"
    <3>1. pc' = "none"
      BY <1>9, <2>2 DEF ChangeSettings, IInv, BootInv
    <3> QED  BY <2>1, <2>2, <3>1 DEF CurrentInv
  <2>3. CASE runtimePromise = "up" /\ enableToo
    BY <1>9, <2>3 DEF ChangeSettings
  <2>4. CASE runtimePromise = "up" /\ ~ enableToo
    <3>1. settings = NoSettings \/ settings # new
      BY <2>1, <2>4 DEF PastInv
    <3>2. RequestRestart(new, trusted)
      BY <1>9, <2>4, <3>1 DEF ChangeSettings, CheckIfConfigurationChanged
    <3> QED
      BY <2>1, <3>2, RequestSelects DEF CurrentInv, shutdownStarted
  <2> QED  BY <2>2, <2>3, <2>4
<1>10. CASE GrantTrust
  <2>1. trusted' = TRUE /\ UNCHANGED <<config, shutdownState, runtimePromise>>
    BY <1>10 DEF GrantTrust, bootVars
  <2>2. CASE runtimePromise # "up"
    <3>1. pc' = "none"
      BY <1>10, <2>2 DEF GrantTrust, IInv, BootInv
    <3> QED  BY <2>1, <2>2, <3>1 DEF CurrentInv
  <2>3. CASE RequestRestart(config, TRUE)
    <3>1. \/ restartQueued'
          \/ /\ pc' = "version" /\ nextSettings' = config
             /\ nextPath' = FindRyBinaryPath(config, TRUE)
      BY <2>1, <2>3, RequestSelects DEF shutdownStarted
    <3>2. FindRyBinaryPath(config, TRUE) = FindRyBinaryPath(config, trusted)'
      BY <2>1, Zenon DEF FindRyBinaryPath
    <3> QED
      BY <2>1, <3>1, <3>2 DEF CurrentInv
  <2> QED  BY <1>10, <2>2, <2>3 DEF GrantTrust
<1>11. CASE UNCHANGED extensionVars
  BY <1>11 DEF extensionVars, hostVars, bootVars, localVars, CurrentInv,
               Selected, shutdownStarted
<1> QED
  BY <1>1, <1>2, <1>3, <1>4, <1>5, <1>6, <1>7, <1>8, <1>9, <1>10, <1>11
  DEF ExtensionNext, Resume

(* The server at rest is the one the settings and the trust select, if no  *)
(* setting returns to an earlier value: each change then differs from what *)
(* the runtime compares it with, even where a run has read the settings    *)
(* and not yet adopted them.  ExtensionRevert shows what happens otherwise.*)
THEOREM ServerStaysCurrent ==
    ASSUME ~ Reverts
    PROVE  ExtensionSpec => []ServerCurrent
<1>1. ExtensionInit => StatusInv /\ PastInv /\ CurrentInv
  BY DEF ExtensionInit, NoLocals, StatusInv, PastInv, CurrentInv, AtRest
<1>2. IInv /\ StatusInv /\ PastInv /\ CurrentInv /\ [ExtensionNext]_extensionVars
      => StatusInv' /\ PastInv' /\ CurrentInv'
  BY StatusStep, PastStep, CurrentStep
<1>3. IInv /\ CurrentInv => ServerCurrent
  BY DEF IInv, QueueInv, CurrentInv, Selected, ServerCurrent, AtRest
<1> QED
  BY <1>1, <1>2, <1>3, Invariance, PTL DEF ExtensionSpec

-----------------------------------------------------------------------------
(* The composition                                                         *)

\* A step of the composition is a step of each part, or leaves it alone.
LEMMA PartSteps ==
    ASSUME [Next]_vars
    PROVE  /\ [WatchNext]_watchVars
           /\ [ExitNext]_exitVars
           /\ [ParseNext]_parseVars
           /\ [ExtensionNext]_extensionVars
  BY DEF Next, vars, serverVars, RequestPart, WatchPart, ExitPart,
         ExtensionPart, BesidesRequests, BesidesWatchers, BesidesExit,
         BesidesExtension

-----------------------------------------------------------------------------
(* Watchers                                                                *)

\* While a request is under way, the record and the client still agree, the
\* request is about the paths in force, and a registration is asked for only
\* when none is held.
WatchInv ==
    /\ asking \in {"nothing", "unregister", "register"}
    /\ registered = held
    /\ held # Nothing => held.held
    /\ asking # "nothing" => asked = custom /\ ~ refused
    /\ asking = "unregister" => registered.held
    /\ asking = "register" => held = Nothing
    /\ WatchesCustom

LEMMA WatchStep == ASSUME WatchInv, [WatchNext]_watchVars PROVE WatchInv'
<1> USE DEF WatchInv, WatchesCustom, Watching, Nothing
<1>1. ASSUME NEW paths \in SUBSET ConfigPaths, Refresh(paths) PROVE WatchInv'
  BY <1>1 DEF Refresh
<1>2. CASE Unregistered
  BY <1>2 DEF Unregistered
<1>3. CASE UnregisterRefused
  BY <1>3 DEF UnregisterRefused
<1>4. CASE Registered
  <2>1. held.paths \cup asked = asked
    BY <1>4 DEF Registered
  <2> QED
    BY <1>4, <2>1 DEF Registered
<1>5. CASE RegisterRefused
  BY <1>5 DEF RegisterRefused
<1>6. CASE UNCHANGED watchVars
  BY <1>6 DEF watchVars
<1> QED
  BY <1>1, <1>2, <1>3, <1>4, <1>5, <1>6 DEF WatchNext, Answer

(* The server's record of its watchers is what the client holds, and they  *)
(* are the ones the folders name, whatever the client refused before and   *)
(* however often the folders change.                                       *)
THEOREM WatchersAgree == Spec => []WatchersCurrent
<1>1. Init => WatchInv
  BY DEF Init, WatchInit, WatchInv, WatchesCustom
<1>2. WatchInv /\ [Next]_vars => WatchInv'
  BY PartSteps, WatchStep
<1>3. WatchInv => WatchersCurrent
  BY DEF WatchInv, WatchersCurrent, RecordMatchesClient
<1> QED
  BY <1>1, <1>2, <1>3, PTL DEF Spec

-----------------------------------------------------------------------------
(* The exit protocol                                                       *)

Exits == {i \in 1 .. Len(read) : read[i] = "exit"}
Polite ==
    \E i \in Exits, j \in 1 .. Len(read) :
        /\ \A k \in Exits : i <= k
        /\ j < i /\ read[j] = "shutdown"

\* The flag and the channel summarise what was read, and the process ends
\* with what the channel holds.
ExitInv ==
    /\ wire \in Seq(Messages) /\ read \in Seq(Messages)
    /\ shutdown \in BOOLEAN
    /\ shutdown <=> \E j \in 1 .. Len(read) : read[j] = "shutdown"
    /\ code = IF Exits = {} THEN NoCode
              ELSE IF Polite THEN "success" ELSE "failure"
    /\ main = "draining" => code # NoCode
    /\ main = "ended" => result = IF code = NoCode THEN "success" ELSE code

\* Only a read changes what the code summarises.
LEMMA ReadKeepsExit == ASSUME ExitInv, Read PROVE ExitInv'
<1> DEFINE m == Head(wire)
           n == Len(read) + 1
<1>1. m \in Messages /\ wire' \in Seq(Messages)
  BY HeadTailProperties DEF ExitInv, Read
<1>2. read' = Append(read, m) /\ read' \in Seq(Messages)
  BY <1>1 DEF ExitInv, Read
<1>3. /\ n \in Nat /\ Len(read') = n /\ read'[n] = m
      /\ \A i \in 1 .. Len(read) : read'[i] = read[i] /\ i < n /\ i \in 1 .. n
      /\ \A i \in 1 .. n : i = n \/ i \in 1 .. Len(read)
  BY <1>2 DEF ExitInv
<1>4. /\ shutdown' \in BOOLEAN
      /\ shutdown' <=> \E j \in 1 .. Len(read') : read'[j] = "shutdown"
  <2>1. shutdown' <=> shutdown \/ m = "shutdown"
    BY DEF Read
  <2>2. shutdown <=> \E j \in 1 .. Len(read) : read'[j] = "shutdown"
    BY <1>3 DEF ExitInv
  <2> QED
    BY <1>3, <2>1, <2>2 DEF Read
<1>5. CASE m # "exit"
  <2>1. Exits' = Exits
    BY <1>3, <1>5 DEF Exits
  <2>2. \A i \in Exits : i \in 1 .. Len(read)
    BY DEF Exits
  <2>3. Polite' = Polite
    <3>1. ASSUME Polite PROVE Polite'
      BY <3>1, <2>1, <1>3 DEF Polite
    <3>2. ASSUME Polite' PROVE Polite
      <4>1. PICK i \in Exits, j \in 1 .. n :
               (\A k \in Exits : i <= k) /\ j < i /\ read'[j] = "shutdown"
        BY <3>2, <2>1, <1>3 DEF Polite
      <4>2. j \in 1 .. Len(read)
        BY <4>1, <2>2, <1>3
      <4> QED  BY <4>1, <4>2, <1>3 DEF Polite
    <3> QED  BY <3>1, <3>2 DEF Polite
  <2>4. code' = code
    BY <1>5 DEF Read
  <2> QED
    BY <1>1, <1>2, <1>4, <2>1, <2>3, <2>4 DEF ExitInv, Read
<1>6. CASE m = "exit" /\ Exits = {}
  <2>1. Exits' = {n}
    BY <1>3, <1>6 DEF Exits
  <2>2. Polite' <=> shutdown
    BY <1>3, <1>6, <2>1 DEF Polite, ExitInv
  <2>3. code' = IF shutdown THEN "success" ELSE "failure"
    BY <1>6 DEF Read, ExitCode, ExitInv
  <2>4. code = NoCode /\ "success" # NoCode /\ "failure" # NoCode
    BY <1>6 DEF ExitInv, NoCode
  <2> QED
    BY <1>1, <1>2, <1>4, <2>1, <2>2, <2>3, <2>4 DEF ExitInv, Read
<1>7. CASE m = "exit" /\ Exits # {}
  <2>1. code # NoCode /\ code' = code
    BY <1>7 DEF Read, ExitCode, ExitInv, NoCode
  <2>2. /\ Exits' = Exits \cup {n}
        /\ \A i \in Exits : i \in 1 .. Len(read) /\ i < n
    BY <1>3, <1>7 DEF Exits
  <2>3. Polite' = Polite
    <3>1. ASSUME Polite PROVE Polite'
      <4>1. PICK i \in Exits, j \in 1 .. Len(read) :
               (\A k \in Exits : i <= k) /\ j < i /\ read[j] = "shutdown"
        BY <3>1 DEF Polite
      <4>2. \A k \in Exits' : i <= k
        BY <4>1, <2>2, <1>3
      <4> QED  BY <4>1, <4>2, <2>2, <1>3 DEF Polite
    <3>2. ASSUME Polite' PROVE Polite
      <4>1. PICK i \in Exits', j \in 1 .. n :
               (\A k \in Exits' : i <= k) /\ j < i /\ read'[j] = "shutdown"
        BY <3>2, <1>3 DEF Polite
      <4>2. i \in Exits
        BY <4>1, <2>2, <1>7, <1>3
      <4>3. j \in 1 .. Len(read)
        BY <4>1, <4>2, <2>2, <1>3
      <4> QED  BY <4>1, <4>2, <4>3, <2>2, <1>3 DEF Polite
    <3> QED  BY <3>1, <3>2 DEF Polite
  <2> QED
    BY <1>1, <1>2, <1>4, <1>7, <2>1, <2>2, <2>3 DEF ExitInv, Read
<1> QED
  BY <1>5, <1>6, <1>7

LEMMA ExitStep == ASSUME ExitInv, [ExitNext]_exitVars PROVE ExitInv'
<1>1. ASSUME NEW m \in Messages, SendMessage(m) PROVE ExitInv'
  <2>1. wire' \in Seq(Messages)
    BY <1>1 DEF SendMessage, ExitInv
  <2> QED
    BY <1>1, <2>1 DEF SendMessage, ExitInv, Exits, Polite
<1>2. CASE CloseInput \/ FinishHandler \/ EndOfInput \/ StartHandler
           \/ UNCHANGED exitVars
  <2>1. UNCHANGED <<wire, read, shutdown, code, main, result>>
    BY <1>2 DEF CloseInput, FinishHandler, EndOfInput, StartHandler, exitVars
  <2>2. Exits' = Exits /\ Polite' = Polite
    BY <2>1 DEF Exits, Polite
  <2> QED
    BY <2>1, <2>2 DEF ExitInv
<1>3. CASE SeeExit \/ ServeReturns \/ DrainExpires
  <2>1. UNCHANGED <<wire, read, shutdown, code>>
    BY <1>3 DEF SeeExit, ServeReturns, DrainExpires
  <2>2. Exits' = Exits /\ Polite' = Polite
    BY <2>1 DEF Exits, Polite
  <2>3. main' = "draining" => code # NoCode
    BY <1>3 DEF SeeExit, ServeReturns, DrainExpires
  <2>4. main' = "ended" => result' = IF code = NoCode THEN "success" ELSE code
    BY <1>3 DEF SeeExit, ServeReturns, DrainExpires, ExitInv
  <2> QED
    BY <2>1, <2>2, <2>3, <2>4 DEF ExitInv
<1> QED
  BY <1>1, <1>2, <1>3, ReadKeepsExit DEF ExitNext, MainStep

(* The exit code is a failure exactly when the first exit came without a   *)
(* shutdown before it, for any number of messages and handlers, in every   *)
(* order of reading, draining, answering and closing.                      *)
THEOREM ExitCodeIsRight == Spec => []ResultFollowsProtocol
<1>1. Init => ExitInv
  <2> SUFFICES ASSUME ExitInit PROVE ExitInv
    BY DEF Init
  <2>1. wire \in Seq(Messages) /\ read \in Seq(Messages) /\ Len(read) = 0
    BY DEF ExitInit
  <2>2. Exits = {}
    BY <2>1 DEF Exits
  <2>3. ~ \E j \in 1 .. Len(read) : read[j] = "shutdown"
    BY <2>1
  <2>4. shutdown = FALSE /\ code = NoCode /\ main = "serving"
    BY DEF ExitInit
  <2> QED
    BY <2>1, <2>2, <2>3, <2>4 DEF ExitInv
<1>2. ExitInv /\ [Next]_vars => ExitInv'
  BY PartSteps, ExitStep
<1>3. ExitInv => ResultFollowsProtocol
  BY DEF ExitInv, Exits, Polite, ResultFollowsProtocol, NoCode
<1> QED
  BY <1>1, <1>2, <1>3, PTL DEF Spec
-----------------------------------------------------------------------------
(* Requests without the lock                                               *)

Text == [edit : Nat, valid : BOOLEAN]
AstFile == [edit : Nat, by : Callers \cup {"nobody"}, text : Text]
Document ==
    [uri : Uris, text : Text, version : Nat, edit : Nat, tree : Text,
     parsed : AstFile, hints : [stubs : Nat, file : AstFile]]
Origins ==
    [uri : Uris \cup {"none"}, version : Nat, generation : Nat, edit : Nat]
Calls ==
    [pc : {"idle", "hints", "lookup", "parse", "infer", "check", "done"},
     kind : CallKinds, uri : Uris \cup {"none"}, edit : Nat, text : Text,
     tree : Text, stubs : Nat, file : AstFile, hints : AstFile,
     origin : Origins,
     answer : {"none", "parsed", "closed", "failed", "hints", "fixes"}]

ParseTypes ==
    /\ edits \in 0 .. MaxEdits /\ stubs \in 1 .. MaxStubs + 1
    /\ generation \in Nat
    /\ docs \in DocumentMaps(Document) /\ WellKeyed(docs)
    /\ shown \in Origins /\ dataSupport \in BOOLEAN
    /\ call \in [Callers -> Calls]

\* A document's caches are about its edit, and whoever holds an AST of that
\* edit, or parses it, has this document's AST and text.
DocOK(d) ==
    /\ d.edit \in 1 .. edits
    /\ d.tree \in {NoTree, d.text}
    /\ d.parsed # NoFile => d.parsed.edit = d.edit /\ d.parsed.text = d.text
    /\ d.hints = NoHints \/ (d.hints.file = d.parsed /\ d.parsed # NoFile)
    /\ \A c \in Callers :
          /\ call[c].file.edit = d.edit => d.parsed = call[c].file
          /\ call[c].pc = "parse" /\ call[c].edit = d.edit
             => call[c].text = d.text

\* No two open documents have the same edit.
EditsDistinct ==
    \A p, q \in Paths :
        \A i \in 1 .. Len(docs[p]), j \in 1 .. Len(docs[q]) :
            docs[p][i].edit = docs[q][j].edit
            => docs[p][i].uri = docs[q][j].uri

\* The findings of the present generation are those of the document that is
\* active at their path.
OriginOK(o) ==
    /\ o.generation <= generation
    /\ o.generation = generation /\ generation > 0 =>
          LET p == PathOf[o.uri]
          IN  /\ o.uri \in Uris /\ IsOpen(docs, p)
              /\ Active(docs, p).uri = o.uri /\ Active(docs, p).edit = o.edit

CallOK(c) ==
    /\ call[c].edit \in 0 .. edits
    /\ call[c].pc # "idle" => call[c].uri \in Uris
    /\ call[c].pc = "hints" => call[c].kind = "hints"
    /\ call[c].pc # "done" => call[c].answer = "none"
    /\ call[c].file = NoFile \/ call[c].file.edit \in 1 .. edits
    /\ call[c].pc = "parse" =>
          call[c].edit # 0 /\ call[c].tree \in {NoTree, call[c].text}
    /\ call[c].pc \in {"infer", "check"} => call[c].file # NoFile
    /\ (call[c].kind = "action" /\ call[c].pc \in {"lookup", "parse"})
       \/ call[c].pc = "check" => call[c].origin.uri = call[c].uri
    /\ OriginOK(call[c].origin)

FilesAgree ==
    \A c, d \in Callers :
        call[c].file.edit = call[d].file.edit => call[c].file = call[d].file

ParseInv ==
    /\ ParseTypes
    /\ \A p \in Paths : \A i \in 1 .. Len(docs[p]) :
          DocOK(docs[p][i]) /\ generation > 0
    /\ EditsDistinct
    /\ \A c \in Callers : CallOK(c)
    /\ FilesAgree
    /\ OriginOK(shown)

-----------------------------------------------------------------------------
(* Lists of documents                                                      *)

\* What is open after a document is put or closed was open before, but for
\* the one that is put.
LEMMA CloseEntries ==
    ASSUME NEW S, NEW ds \in DocumentMaps(S), NEW u \in Uris, NEW p \in Paths,
           NEW i \in 1 .. Len(CloseDocument(ds, u)[p])
    PROVE  \E j \in 1 .. Len(ds[p]) : CloseDocument(ds, u)[p][i] = ds[p][j]
<1>1. ds[p] \in Seq(S)
  BY DEF DocumentMaps
<1>2. CASE p = PathOf[u]
  <2>1. CloseDocument(ds, u)[p] = Without(ds[p], u)
    BY <1>2 DEF CloseDocument, DocumentMaps
  <2>2. PICK origin \in [1 .. Len(Without(ds[p], u)) -> 1 .. Len(ds[p])] :
           Origin(Without(ds[p], u), ds[p], u, origin)
    BY <1>1, WithoutEntries
  <2> QED
    BY <2>1, <2>2 DEF Origin
<1>3. CASE p # PathOf[u]
  BY <1>3 DEF CloseDocument, DocumentMaps
<1> QED
  BY <1>2, <1>3

LEMMA PutEntries ==
    ASSUME NEW S, NEW ds \in DocumentMaps(S), NEW d \in S, d.uri \in Uris
    PROVE  LET at == PathOf[d.uri]
               new == PutDocument(ds, d)
           IN  /\ at \in Paths /\ IsOpen(new, at) /\ Active(new, at) = d
               /\ \A p \in Paths : \A i \in 1 .. Len(new[p]) :
                     \/ new[p][i] = d
                     \/ \E j \in 1 .. Len(ds[p]) : new[p][i] = ds[p][j]
<1> DEFINE at == PathOf[d.uri]
           rest == Without(ds[at], d.uri)
           new == PutDocument(ds, d)
<1>1. at \in Paths /\ ds[at] \in Seq(S)
  BY UriAssumption DEF DocumentMaps
<1>2. rest \in Seq(S)
  BY <1>1, WithoutType
<1>3. new[at] = Append(rest, d) /\ \A p \in Paths \ {at} : new[p] = ds[p]
  BY <1>1 DEF PutDocument, DocumentMaps
<1>4. PICK origin \in [1 .. Len(rest) -> 1 .. Len(ds[at])] :
         Origin(rest, ds[at], d.uri, origin)
  BY <1>1, WithoutEntries
<1> HIDE DEF rest
<1>5. /\ Len(new[at]) = Len(rest) + 1 /\ new[at][Len(rest) + 1] = d
      /\ \A i \in 1 .. Len(rest) : new[at][i] = rest[i]
  BY <1>2, <1>3
<1>6. IsOpen(new, at) /\ Active(new, at) = d
  BY <1>2, <1>3, <1>5 DEF IsOpen, Active
<1>7. ASSUME NEW i \in 1 .. Len(new[at])
      PROVE  new[at][i] = d \/ \E j \in 1 .. Len(ds[at]) : new[at][i] = ds[at][j]
  <2>1. i = Len(rest) + 1 \/ i \in 1 .. Len(rest)
    BY <1>2, <1>5
  <2>2. ASSUME i \in 1 .. Len(rest)
        PROVE  \E j \in 1 .. Len(ds[at]) : new[at][i] = ds[at][j]
    <3>1. new[at][i] = ds[at][origin[i]] /\ origin[i] \in 1 .. Len(ds[at])
      BY <2>2, <1>4, <1>5 DEF Origin
    <3> QED  BY <3>1
  <2> QED
    BY <2>1, <2>2, <1>5
<1> QED
  BY <1>1, <1>3, <1>6, <1>7

\* The active document of a path is one of its documents.
LEMMA ActiveEntry ==
    ASSUME NEW S, NEW ds \in DocumentMaps(S), NEW p \in Paths, IsOpen(ds, p)
    PROVE  /\ Len(ds[p]) \in 1 .. Len(ds[p])
           /\ Active(ds, p) = ds[p][Len(ds[p])] /\ Active(ds, p) \in S
<1>1. ds[p] \in Seq(S) /\ ds[p] # << >>
  BY DEF DocumentMaps, IsOpen
<1> QED
  BY <1>1 DEF Active

\* Two open documents with one edit are the same entry.
LEMMA SameEdit ==
    ASSUME ParseInv, NEW p \in Paths, NEW q \in Paths,
           NEW i \in 1 .. Len(docs[p]), NEW j \in 1 .. Len(docs[q]),
           docs[p][i].edit = docs[q][j].edit
    PROVE  p = q /\ i = j
<1>1. docs[p][i].uri = docs[q][j].uri
  BY DEF ParseInv, EditsDistinct
<1> QED
  BY <1>1 DEF ParseInv, ParseTypes, WellKeyed
-----------------------------------------------------------------------------
(* The client and the index writer                                         *)

\* A change of the documents that opens or edits at most one, with an edit
\* of its own, leaves the calls as they are.
LEMMA DocumentsStep ==
    ASSUME ParseInv, docs' \in DocumentMaps(Document), WellKeyed(docs'),
           generation' = generation + 1,
           edits' \in 0 .. MaxEdits, edits <= edits',
           \A p \in Paths : \A i \in 1 .. Len(docs'[p]) :
              \/ \E j \in 1 .. Len(docs[p]) : docs'[p][i] = docs[p][j]
              \/ /\ edits' = edits + 1 /\ docs'[p][i].edit = edits'
                 /\ docs'[p][i].tree \in {NoTree, docs'[p][i].text}
                 /\ docs'[p][i].parsed = NoFile /\ docs'[p][i].hints = NoHints,
           \A p, q \in Paths :
              \A i \in 1 .. Len(docs'[p]), j \in 1 .. Len(docs'[q]) :
                 docs'[p][i].edit = edits + 1 /\ docs'[q][j].edit = edits + 1
                 => docs'[p][i].uri = docs'[q][j].uri,
           UNCHANGED <<stubs, shown, dataSupport, call>>
    PROVE  ParseInv'
<1>1. edits \in Nat /\ edits' \in Nat /\ generation \in Nat
  BY ParsedAssumption DEF ParseInv, ParseTypes
<1>2. ParseTypes'
  BY <1>1 DEF ParseInv, ParseTypes
<1>3. ASSUME NEW p \in Paths, NEW i \in 1 .. Len(docs'[p])
      PROVE  DocOK(docs[p][i])'
  <2>1. ASSUME NEW d, DocOK(d), d = docs'[p][i] PROVE DocOK(docs[p][i])'
    BY <2>1, <1>1 DEF DocOK
  <2>2. ASSUME NEW d, d = docs'[p][i], edits' = edits + 1, d.edit = edits',
               d.tree \in {NoTree, d.text},
               d.parsed = NoFile, d.hints = NoHints
        PROVE  DocOK(docs[p][i])'
    <3>1. \A c \in Callers : call[c].file.edit # d.edit /\ call[c].edit # d.edit
      BY <2>2, <1>1 DEF ParseInv, CallOK, NoFile
    <3> QED  BY <3>1, <2>2, <1>1 DEF DocOK
  <2>3. \A j \in 1 .. Len(docs[p]) : DocOK(docs[p][j])
    BY DEF ParseInv
  <2> QED
    BY <2>1, <2>2, <2>3
<1>4. EditsDistinct'
  <2> SUFFICES ASSUME NEW p \in Paths, NEW q \in Paths,
                      NEW i \in 1 .. Len(docs'[p]), NEW j \in 1 .. Len(docs'[q]),
                      docs'[p][i].edit = docs'[q][j].edit
               PROVE  docs'[p][i].uri = docs'[q][j].uri
    BY DEF EditsDistinct
  <2>1. \A r \in Paths : \A k \in 1 .. Len(docs[r]) : docs[r][k].edit # edits + 1
    <3>1. \A r \in Paths : \A k \in 1 .. Len(docs[r]) : DocOK(docs[r][k])
      BY DEF ParseInv
    <3> QED  BY <1>1, <3>1 DEF DocOK
  <2>2. CASE docs'[p][i].edit = edits + 1
    <3>1. docs'[q][j].edit = edits + 1
      BY <2>2
    <3> QED  BY <2>2, <3>1, Zenon
  <2>3. CASE docs'[p][i].edit # edits + 1
    <3>1. PICK k \in 1 .. Len(docs[p]) : docs'[p][i] = docs[p][k]
      BY <2>3
    <3>2. PICK l \in 1 .. Len(docs[q]) : docs'[q][j] = docs[q][l]
      BY <2>3
    <3>3. docs[p][k].edit = docs[q][l].edit
      BY <3>1, <3>2, Zenon
    <3>4. EditsDistinct
      BY Zenon DEF ParseInv
    <3>5. docs[p][k].uri = docs[q][l].uri
      BY <3>3, <3>4, ZenonT(30) DEF EditsDistinct
    <3> QED  BY <3>1, <3>2, <3>5, Zenon
  <2> QED  BY <2>2, <2>3
<1>5. \A o \in Origins : OriginOK(o) => OriginOK(o)'
  BY <1>1 DEF OriginOK, Origins
<1>6. \A c \in Callers : CallOK(c)'
  <2> TAKE c \in Callers
  <2>1. call[c].origin \in Origins /\ CallOK(c) /\ call[c].edit \in Nat
        /\ call[c].file.edit \in Nat
    BY DEF ParseInv, ParseTypes, Calls, AstFile
  <2> QED  BY <2>1, <1>5, <1>1 DEF CallOK
<1>7. FilesAgree' /\ OriginOK(shown)'
  BY <1>5 DEF ParseInv, ParseTypes, FilesAgree
<1>8. generation' > 0
  BY <1>1
<1> QED
  BY <1>2, <1>3, <1>4, <1>6, <1>7, <1>8 DEF ParseInv

LEMMA EditedType ==
    ASSUME ParseInv, NEW u \in Uris, NEW valid \in BOOLEAN, NEW v \in Nat,
           NEW t, t \in {NoTree, [edit |-> edits + 1, valid |-> valid]}
    PROVE  [Edited(u, valid, v) EXCEPT !.tree = t] \in Document
<1>1. edits + 1 \in Nat
  BY ParsedAssumption DEF ParseInv, ParseTypes
<1>2. NoText \in Text /\ [edit |-> edits + 1, valid |-> valid] \in Text
  BY <1>1 DEF NoText, Text
<1>3. NoFile \in AstFile
  BY <1>2 DEF NoFile, AstFile
<1>4. NoHints \in [stubs : Nat, file : AstFile]
  BY <1>3 DEF NoHints
<1> QED
  BY <1>1, <1>2, <1>3, <1>4 DEF Edited, Document, NoTree

LEMMA PutNew ==
    ASSUME ParseInv, NEW d \in Document,
           d.edit = edits + 1, d.tree \in {NoTree, d.text},
           d.parsed = NoFile, d.hints = NoHints,
           docs' = PutDocument(docs, d),
           edits < MaxEdits, edits' = edits + 1, generation' = generation + 1,
           UNCHANGED <<stubs, shown, dataSupport, call>>
    PROVE  ParseInv'
<1>1. docs \in DocumentMaps(Document) /\ WellKeyed(docs)
      /\ edits \in Nat /\ MaxEdits \in Nat /\ edits' \in 0 .. MaxEdits
  BY ParsedAssumption DEF ParseInv, ParseTypes
<1>2. d.uri \in Uris
  BY DEF Document
<1>3. docs' \in DocumentMaps(Document) /\ WellKeyed(docs')
  BY <1>1, <1>2, PutType, PutKeepsKeys
<1>4. ASSUME NEW p \in Paths, NEW i \in 1 .. Len(docs'[p])
      PROVE  docs'[p][i] = d \/ \E j \in 1 .. Len(docs[p]) : docs'[p][i] = docs[p][j]
  BY <1>1, <1>2, PutEntries
<1>5. \A r \in Paths : \A k \in 1 .. Len(docs[r]) : docs[r][k].edit # edits + 1
  BY <1>1 DEF ParseInv, DocOK
<1>6. ASSUME NEW p \in Paths, NEW i \in 1 .. Len(docs'[p]),
             docs'[p][i].edit = edits + 1
      PROVE  docs'[p][i] = d
  BY <1>4, <1>5, <1>6
<1> QED
  BY <1>1, <1>3, <1>4, <1>6, DocumentsStep

LEMMA ClientStepKeeps ==
    ASSUME ParseInv, NEW u \in Uris, NEW valid \in BOOLEAN,
           NEW ranged \in BOOLEAN,
           Open(u, valid) \/ Change(u, valid, ranged) \/ Close(u)
    PROVE  ParseInv'
<1>1. docs \in DocumentMaps(Document) /\ WellKeyed(docs)
      /\ edits \in 0 .. MaxEdits /\ MaxEdits \in Nat
  BY ParsedAssumption DEF ParseInv, ParseTypes
<1>2. CASE Open(u, valid)
  <2>1. Edited(u, valid, 1) = [Edited(u, valid, 1) EXCEPT !.tree = NoTree]
    BY DEF Edited
  <2>2. Edited(u, valid, 1) \in Document
    BY <2>1, EditedType
  <2>3. /\ docs' = PutDocument(docs, Edited(u, valid, 1))
        /\ edits < MaxEdits /\ edits' = edits + 1
        /\ generation' = generation + 1 /\ UNCHANGED <<stubs, shown, dataSupport, call>>
    BY <1>2 DEF Open
  <2> QED
    BY <2>2, <2>3, PutNew DEF Edited
<1>3. CASE Change(u, valid, ranged)
  <2> DEFINE doc == DocumentOf(docs, u)
             text == [edit |-> edits + 1, valid |-> valid]
             d == [Edited(u, valid, doc.version + 1) EXCEPT
                      !.tree = ChangedTree(doc, text, ranged)]
  <2>1. PICK i \in 1 .. Len(docs[PathOf[u]]) : docs[PathOf[u]][i].uri = u
    BY <1>3 DEF Change, IsOpenUri, UrisAt
  <2>2. PICK k \in 1 .. Len(docs[PathOf[u]]) : doc = docs[PathOf[u]][k]
    BY <2>1 DEF DocumentOf
  <2>3. docs[PathOf[u]] \in Seq(Document)
    BY <1>1, UriAssumption DEF DocumentMaps
  <2> HIDE DEF doc
  <2>4. doc \in Document
    BY <2>2, <2>3
  <2>8. doc.version + 1 \in Nat
    BY <2>4 DEF Document
  <2>5. ChangedTree(doc, text, ranged) \in {NoTree, text}
    BY DEF ChangedTree
  <2>6. Edited(u, valid, doc.version + 1).text = text
    BY DEF Edited
  <2>7. /\ docs' = PutDocument(docs, d)
        /\ edits < MaxEdits /\ edits' = edits + 1
        /\ generation' = generation + 1 /\ UNCHANGED <<stubs, shown, dataSupport, call>>
    BY <1>3, <2>6 DEF Change, doc
  <2>9. d \in Document
    BY <2>5, <2>8, EditedType
  <2>10. /\ d.edit = edits + 1 /\ d.tree \in {NoTree, d.text}
         /\ d.parsed = NoFile /\ d.hints = NoHints
    BY <2>5 DEF Edited
  <2> HIDE DEF d
  <2> QED
    BY <2>7, <2>9, <2>10, PutNew
<1>4. CASE Close(u)
  <2> DEFINE new == CloseDocument(docs, u)
  <2>1. new \in DocumentMaps(Document) /\ WellKeyed(new)
    BY <1>1, CloseType, CloseKeepsKeys
  <2>2. \A p \in Paths : \A i \in 1 .. Len(new[p]) :
           \E j \in 1 .. Len(docs[p]) : new[p][i] = docs[p][j]
    BY <1>1, CloseEntries
  <2>3. \A r \in Paths : \A k \in 1 .. Len(docs[r]) : docs[r][k].edit # edits + 1
    BY <1>1 DEF ParseInv, DocOK
  <2>4. docs' = new /\ generation' = generation + 1 /\ edits' = edits
        /\ UNCHANGED <<stubs, shown, dataSupport, call>>
    BY <1>4 DEF Close
  <2> HIDE DEF new
  <2>5. \A p \in Paths : \A i \in 1 .. Len(docs'[p]) :
           \E j \in 1 .. Len(docs[p]) : docs'[p][i] = docs[p][j]
    BY <2>2, <2>4
  <2>6. \A p \in Paths : \A i \in 1 .. Len(docs'[p]) :
           docs'[p][i].edit # edits + 1
    BY <2>3, <2>5
  <2>7. docs' \in DocumentMaps(Document) /\ WellKeyed(docs')
    BY <2>1, <2>4
  <2> QED
    BY <1>1, <2>4, <2>5, <2>6, <2>7, DocumentsStep
<1> QED
  BY <1>2, <1>3, <1>4

-----------------------------------------------------------------------------
(* The calls                                                               *)

LEMMA NoFileType == NoFile \in AstFile /\ NoFile.edit = 0 /\ NoText \in Text
  BY DEF NoFile, AstFile, NoText, Text

\* What a new record of a caller needs to be consistent with the rest: an
\* AST that it takes up, and a text that it copies, are a document's.
Consistent(c, r) ==
    /\ r \in Calls
    /\ r.edit \in 0 .. edits
    /\ r.pc # "idle" => r.uri \in Uris
    /\ r.pc = "hints" => r.kind = "hints"
    /\ r.pc # "done" => r.answer = "none"
    /\ \/ r.file \in {NoFile, call[c].file}
       \/ \E p \in Paths : \E i \in 1 .. Len(docs[p]) :
             r.file = docs[p][i].parsed /\ r.file # NoFile
    /\ r.pc = "parse" =>
          /\ r.edit # 0 /\ r.tree \in {NoTree, r.text}
          /\ \E p \in Paths : \E i \in 1 .. Len(docs[p]) :
                r.edit = docs[p][i].edit /\ r.text = docs[p][i].text
    /\ r.pc \in {"infer", "check"} => r.file # NoFile
    /\ (r.kind = "action" /\ r.pc \in {"lookup", "parse"}) \/ r.pc = "check"
       => r.origin.uri = r.uri
    /\ r.origin \in {call[c].origin, shown, NoOrigin}

LEMMA CallChange ==
    ASSUME ParseInv, NEW c \in Callers, NEW r, Consistent(c, r), Sets(c, r),
           UNCHANGED <<docs, edits, generation, stubs, shown, dataSupport>>
    PROVE  ParseInv'
<1>1. /\ call' = [call EXCEPT ![c] = r] /\ call' \in [Callers -> Calls]
      /\ call'[c] = r /\ \A b \in Callers \ {c} : call'[b] = call[b]
  BY DEF ParseInv, ParseTypes, Sets, Consistent
<1>2. edits \in Nat /\ edits' = edits /\ docs' = docs /\ generation' = generation
      /\ shown' = shown /\ stubs' = stubs
  BY ParsedAssumption DEF ParseInv, ParseTypes
<1>3. ParseTypes'
  BY <1>1, <1>2 DEF ParseInv, ParseTypes
<1>4. \A p \in Paths : \A i \in 1 .. Len(docs[p]) :
         DocOK(docs[p][i]) /\ generation > 0
  BY DEF ParseInv
<1>5. ASSUME NEW p \in Paths, NEW i \in 1 .. Len(docs[p])
      PROVE  DocOK(docs[p][i])'
  <2> DEFINE d == docs[p][i]
  <2>1. DocOK(d)
    BY <1>4
  <2>2. r.file.edit = d.edit => d.parsed = r.file
    <3>1. CASE r.file = NoFile
      BY <3>1, <2>1, <1>2, NoFileType DEF DocOK
    <3>2. CASE r.file = call[c].file
      BY <3>2, <2>1 DEF DocOK
    <3>3. CASE \E q \in Paths : \E j \in 1 .. Len(docs[q]) :
                  r.file = docs[q][j].parsed /\ r.file # NoFile
      <4>1. PICK q \in Paths : \E j \in 1 .. Len(docs[q]) :
               r.file = docs[q][j].parsed /\ r.file # NoFile
        BY <3>3
      <4>3. PICK j \in 1 .. Len(docs[q]) :
               r.file = docs[q][j].parsed /\ r.file # NoFile
        BY <4>1
      <4>2. r.file.edit = docs[q][j].edit
        BY <4>3, <1>4 DEF DocOK
      <4>4. ASSUME r.file.edit = docs[p][i].edit PROVE p = q /\ i = j
        <5>1. docs[p][i].edit = docs[q][j].edit
          BY <4>2, <4>4
        <5> QED  BY <5>1, SameEdit
      <4> QED  BY <4>3, <4>4
    <3> QED  BY <3>1, <3>2, <3>3 DEF Consistent
  <2>3. r.pc = "parse" /\ r.edit = d.edit => r.text = d.text
    BY SameEdit DEF Consistent
  <2> QED
    BY <1>1, <1>2, <2>1, <2>2, <2>3 DEF DocOK
<1>6. \A o \in Origins : OriginOK(o) => OriginOK(o)'
  BY <1>2 DEF OriginOK
<1>7. OriginOK(NoOrigin)
  BY DEF OriginOK, NoOrigin, ParseInv, ParseTypes
<1>8. r.origin \in Origins /\ OriginOK(r.origin)
  BY <1>7 DEF Consistent, Calls, ParseInv, CallOK
<1>9. r.file = NoFile \/ r.file.edit \in 1 .. edits
  <2>1. CASE r.file \in {NoFile, call[c].file}
    BY <2>1 DEF ParseInv, CallOK
  <2>2. CASE \E q \in Paths : \E j \in 1 .. Len(docs[q]) :
                  r.file = docs[q][j].parsed /\ r.file # NoFile
    BY <2>2, <1>4 DEF DocOK
  <2> QED  BY <2>1, <2>2 DEF Consistent
<1>10. ASSUME NEW b \in Callers PROVE CallOK(b)'
  <2>1. CASE b = c
    <3>1. OriginOK(r.origin)'
      BY <1>6, <1>8
    <3> QED
      BY <2>1, <1>1, <1>2, <1>9, <3>1 DEF Consistent, CallOK
  <2>2. CASE b # c
    <3>1. call'[b] = call[b] /\ call[b].origin \in Origins /\ CallOK(b)
      BY <2>2, <1>1 DEF ParseInv, ParseTypes, Calls
    <3>2. OriginOK(call[b].origin)'
      BY <3>1, <1>2 DEF CallOK, OriginOK
    <3> QED  BY <3>1, <3>2, <1>2 DEF CallOK, OriginOK
  <2> QED  BY <2>1, <2>2
<1>11. ASSUME NEW b \in Callers, call[b].file.edit = r.file.edit
       PROVE  call[b].file = r.file
  <2>1. CASE r.file = NoFile
    BY <1>11, <2>1, <1>2, NoFileType DEF ParseInv, CallOK
  <2>2. CASE r.file = call[c].file
    BY <1>11, <2>2 DEF ParseInv, FilesAgree
  <2>3. CASE \E q \in Paths : \E j \in 1 .. Len(docs[q]) :
                r.file = docs[q][j].parsed /\ r.file # NoFile
    BY <1>11, <2>3, <1>4 DEF DocOK
  <2> QED  BY <2>1, <2>2, <2>3 DEF Consistent
<1>12. FilesAgree'
  <2> SUFFICES ASSUME NEW a \in Callers, NEW b \in Callers,
                      call'[a].file.edit = call'[b].file.edit
               PROVE  call'[a].file = call'[b].file
    BY DEF FilesAgree
  <2>1. CASE a # c /\ b # c
    BY <2>1, <1>1 DEF ParseInv, FilesAgree
  <2> QED
    BY <2>1, <1>1, <1>11
<1>13. EditsDistinct' /\ OriginOK(shown)'
  BY <1>2 DEF ParseInv, EditsDistinct, OriginOK
<1>14. (\A p \in Paths : \A i \in 1 .. Len(docs[p]) :
          DocOK(docs[p][i]) /\ generation > 0)'
  BY <1>2, <1>4, <1>5
<1> QED
  BY <1>3, <1>10, <1>12, <1>13, <1>14 DEF ParseInv

\* A caller takes up the AST that the active document of a path has, or that
\* it installs there.
LEMMA TakesFile ==
    ASSUME ParseInv, NEW c \in Callers, NEW p \in Paths, IsOpen(docs, p),
           NEW d, d = Active(docs, p), NEW e \in Document,
           e.uri = d.uri, e.text = d.text, e.edit = d.edit,
           e.tree \in {NoTree, d.text},
           e.parsed # NoFile, e.parsed.edit = d.edit, e.parsed.text = d.text,
           d.parsed \in {NoFile, e.parsed},
           e.hints = NoHints \/ e.hints.file = e.parsed,
           docs' = [docs EXCEPT ![p] = [docs[p] EXCEPT ![Len(docs[p])] = e]],
           NEW r \in Calls, Sets(c, r),
           r.edit = 0, r.file = e.parsed, r.uri \in Uris,
           r.pc \in {"infer", "check", "done"},
           r.pc # "done" => r.answer = "none",
           r.pc = "check" => r.origin.uri = r.uri,
           r.origin \in {call[c].origin, NoOrigin},
           UNCHANGED <<edits, generation, stubs, shown, dataSupport>>
    PROVE  ParseInv'
<1> DEFINE n == Len(docs[p])
<1>1. /\ edits \in Nat /\ docs \in DocumentMaps(Document) /\ WellKeyed(docs)
      /\ edits' = edits /\ generation' = generation /\ generation \in Nat
      /\ shown' = shown /\ stubs' = stubs /\ call \in [Callers -> Calls]
  BY ParsedAssumption DEF ParseInv, ParseTypes
<1>2. n \in 1 .. n /\ d = docs[p][n]
  BY <1>1, ActiveEntry
<1>3. /\ docs' \in DocumentMaps(Document) /\ WellKeyed(docs')
      /\ \A q \in Paths : Len(docs'[q]) = Len(docs[q])
      /\ \A q \in Paths : \A i \in 1 .. Len(docs[q]) :
            docs'[q][i] = IF q = p /\ i = n THEN e ELSE docs[q][i]
  <2> DEFINE list == [docs[p] EXCEPT ![n] = e]
  <2>1. docs[p] \in Seq(Document) /\ list \in Seq(Document)
        /\ Len(list) = n /\ \A i \in 1 .. n : list[i] = IF i = n THEN e ELSE docs[p][i]
    BY <1>1, <1>2 DEF DocumentMaps
  <2> HIDE DEF list
  <2>2. docs' = [docs EXCEPT ![p] = list]
    BY DEF list
  <2>3. /\ docs' \in DocumentMaps(Document)
        /\ docs'[p] = list /\ \A q \in Paths \ {p} : docs'[q] = docs[q]
    BY <1>1, <2>1, <2>2 DEF DocumentMaps
  <2>4. \A q \in Paths : Len(docs'[q]) = Len(docs[q])
    BY <2>1, <2>3
  <2>5. \A q \in Paths : \A i \in 1 .. Len(docs[q]) :
            docs'[q][i] = IF q = p /\ i = n THEN e ELSE docs[q][i]
    BY <2>1, <2>3
  <2>6. \A q \in Paths : \A i \in 1 .. Len(docs[q]) :
           docs'[q][i].uri = docs[q][i].uri
    BY <2>5, <1>2
  <2>7. WellKeyed(docs')
    BY <1>1, <2>4, <2>6 DEF WellKeyed
  <2> QED  BY <2>3, <2>4, <2>5, <2>7
<1>4. /\ call' \in [Callers -> Calls]
      /\ call'[c] = r /\ \A b \in Callers \ {c} : call'[b] = call[b]
  BY <1>1 DEF Sets
<1>5. ParseTypes'
  BY <1>1, <1>3, <1>4 DEF ParseInv, ParseTypes
<1>6. \A q \in Paths : \A i \in 1 .. Len(docs[q]) :
         DocOK(docs[q][i]) /\ generation > 0
  BY DEF ParseInv
<1>7. \A b \in Callers : call[b].file.edit = d.edit => call[b].file = e.parsed
  <2> TAKE b \in Callers
  <2> HAVE call[b].file.edit = d.edit
  <2>1. d.parsed = call[b].file /\ d.edit # 0
    BY <1>1, <1>2, <1>6 DEF DocOK
  <2> QED  BY <2>1, NoFileType
<1>8. \A q \in Paths : \A i \in 1 .. Len(docs[q]) :
         /\ docs'[q][i].edit = docs[q][i].edit
         /\ docs'[q][i].uri = docs[q][i].uri
         /\ docs'[q][i].text = docs[q][i].text
  BY <1>2, <1>3
<1>9. ASSUME NEW q \in Paths, NEW i \in 1 .. Len(docs[q]), ~ (q = p /\ i = n)
      PROVE  docs[q][i].edit # d.edit
  BY <1>2, <1>9, SameEdit
<1>10. ASSUME NEW q \in Paths, NEW i \in 1 .. Len(docs[q])
       PROVE  DocOK(docs[q][i])'
  <2>1. CASE q = p /\ i = n
    <3>1. docs'[q][i] = e
      BY <2>1, <1>3
    <3>2. \A b \in Callers :
             /\ call'[b].file.edit = e.edit => e.parsed = call'[b].file
             /\ call'[b].pc = "parse" /\ call'[b].edit = e.edit
                => call'[b].text = e.text
      BY <1>2, <1>4, <1>6, <1>7 DEF DocOK
    <3>3. e.edit \in 1 .. edits
      BY <1>2, <1>6 DEF DocOK
    <3> QED  BY <3>1, <3>2, <3>3, <1>1 DEF DocOK
  <2>2. CASE ~ (q = p /\ i = n)
    <3>1. docs'[q][i] = docs[q][i] /\ docs[q][i].edit # d.edit /\ DocOK(docs[q][i])
      BY <2>2, <1>3, <1>6, <1>9
    <3>2. \A b \in Callers :
             /\ call'[b].file.edit = docs[q][i].edit
                => docs[q][i].parsed = call'[b].file
             /\ call'[b].pc = "parse" /\ call'[b].edit = docs[q][i].edit
                => call'[b].text = docs[q][i].text
      BY <3>1, <1>4 DEF DocOK
    <3> QED  BY <3>1, <3>2, <1>1 DEF DocOK
  <2> QED  BY <2>1, <2>2
<1>11. EditsDistinct'
  BY <1>3, <1>8 DEF ParseInv, EditsDistinct
<1>12. ASSUME NEW o \in Origins, OriginOK(o) PROVE OriginOK(o)'
  <2>1. CASE ~ (o.generation = generation /\ generation > 0)
    BY <2>1, <1>12, <1>1 DEF OriginOK
  <2>2. CASE o.generation = generation /\ generation > 0
    <3> DEFINE q == PathOf[o.uri]
    <3>1. /\ o.uri \in Uris /\ q \in Paths /\ IsOpen(docs, q)
          /\ Active(docs, q).uri = o.uri /\ Active(docs, q).edit = o.edit
      BY <2>2, <1>12, UriAssumption DEF OriginOK
    <3>2. Len(docs[q]) \in 1 .. Len(docs[q]) /\ Len(docs'[q]) = Len(docs[q])
      BY <3>1, <1>1, <1>3, ActiveEntry
    <3>3. Active(docs', q).uri = o.uri /\ Active(docs', q).edit = o.edit
      BY <3>1, <3>2, <1>8 DEF Active
    <3>4. docs'[q] \in Seq(Document)
      BY <3>1, <1>3 DEF DocumentMaps
    <3>5. IsOpen(docs', q)
      BY <3>2, <3>4 DEF IsOpen
    <3> QED  BY <3>1, <3>3, <3>5, <1>1, <1>12 DEF OriginOK
  <2> QED  BY <2>1, <2>2
<1>13. e.parsed.edit \in 1 .. edits
  BY <1>2, <1>6 DEF DocOK
<1>14. OriginOK(NoOrigin)
  BY <1>1 DEF OriginOK, NoOrigin
<1>15. NoOrigin \in Origins
  BY DEF NoOrigin, Origins
<1>16. ASSUME NEW b \in Callers PROVE CallOK(b)'
  <2>1. call[b].origin \in Origins /\ CallOK(b) /\ OriginOK(call[b].origin)
    BY <1>1 DEF ParseInv, Calls, CallOK
  <2>2. ASSUME NEW o, o = call'[b].origin PROVE OriginOK(o)'
    <3>1. o \in Origins /\ OriginOK(o)
      BY <2>1, <2>2, <1>4, <1>14, <1>15
    <3> QED  BY <3>1, <1>12
  <2>3. OriginOK(call[b].origin)'
    BY <2>2 DEF OriginOK
  <2>4. CASE b = c
    BY <2>3, <2>4, <1>1, <1>4, <1>13 DEF CallOK
  <2>5. CASE b # c
    BY <2>1, <2>3, <2>5, <1>1, <1>4 DEF CallOK
  <2> QED  BY <2>4, <2>5
<1>17. FilesAgree'
  <2> SUFFICES ASSUME NEW a \in Callers, NEW b \in Callers,
                      call'[a].file.edit = call'[b].file.edit
               PROVE  call'[a].file = call'[b].file
    BY DEF FilesAgree
  <2>1. CASE a # c /\ b # c
    BY <2>1, <1>4 DEF ParseInv, FilesAgree
  <2> QED
    BY <2>1, <1>4, <1>7
<1>18. OriginOK(shown)'
  <2>1. ASSUME NEW o, o = shown PROVE OriginOK(o)'
    BY <2>1, <1>12 DEF ParseInv, ParseTypes
  <2> QED  BY <2>1, <1>1 DEF OriginOK
<1> QED
  BY <1>1, <1>3, <1>5, <1>6, <1>10, <1>11, <1>16, <1>17, <1>18 DEF ParseInv

LEMMA ReloadKeeps == ASSUME ParseInv, ReloadStubs PROVE ParseInv'
<1>1. stubs' \in 1 .. MaxStubs + 1
  BY ParsedAssumption DEF ParseInv, ParseTypes, ReloadStubs
<1> QED
  BY <1>1 DEF ParseInv, ParseTypes, ReloadStubs, EditsDistinct, FilesAgree,
              DocOK, CallOK, OriginOK

LEMMA PublishKeeps ==
    ASSUME ParseInv, NEW p \in Paths, PublishFindings(p) PROVE ParseInv'
<1> DEFINE d == Active(docs, p)
           o == [uri |-> d.uri, version |-> d.version,
                 generation |-> generation', edit |-> d.edit]
<1>1. /\ generation \in Nat /\ generation' = generation + 1
      /\ docs' = docs /\ edits' = edits /\ stubs' = stubs /\ call' = call
      /\ dataSupport' = dataSupport
      /\ IsOpen(docs, p) /\ shown' \in {shown, o}
      /\ docs \in DocumentMaps(Document) /\ shown \in Origins
  BY DEF PublishFindings, ParseInv, ParseTypes
<1>2. d \in Document /\ PathOf[d.uri] = p
  BY <1>1, ActiveEntry DEF ParseInv, ParseTypes, WellKeyed
<1> HIDE DEF d
<1>3. o \in Origins
  BY <1>1, <1>2 DEF Document, Origins
<1>4. ASSUME NEW x, OriginOK(x), x \in Origins PROVE OriginOK(x)'
  BY <1>1, <1>4 DEF OriginOK, Origins
<1>5. ASSUME NEW x, x = o PROVE OriginOK(x)'
  <2>1. x.uri \in Uris /\ PathOf[x.uri] = p /\ x.generation = generation'
        /\ x.uri = d.uri /\ x.edit = d.edit
    BY <1>5, <1>2 DEF Document
  <2> QED  BY <2>1, <1>1 DEF OriginOK, d
<1>6. OriginOK(shown)'
  <2>1. ASSUME NEW x, x = shown' PROVE OriginOK(x)'
    BY <2>1, <1>1, <1>4, <1>5 DEF ParseInv
  <2> QED  BY <2>1 DEF OriginOK
<1>7. ASSUME NEW c \in Callers PROVE CallOK(c)'
  <2>1. CallOK(c) /\ call[c].origin \in Origins
    BY DEF ParseInv, ParseTypes, Calls
  <2>2. OriginOK(call[c].origin)'
    <3>1. ASSUME NEW x, x = call[c].origin PROVE OriginOK(x)'
      BY <3>1, <2>1, <1>4 DEF CallOK
    <3> QED  BY <3>1, <1>1 DEF OriginOK
  <2> QED  BY <2>1, <2>2, <1>1 DEF CallOK
<1>8. ParseTypes'
  BY <1>1, <1>3 DEF ParseInv, ParseTypes
<1> QED
  BY <1>1, <1>6, <1>7, <1>8 DEF ParseInv, EditsDistinct, FilesAgree, DocOK

LEMMA IdleType ==
    ASSUME NEW kind \in CallKinds PROVE Idle(kind) \in Calls
<1>1. NoOrigin \in Origins
  BY DEF NoOrigin, Origins
<1> QED
  BY <1>1, NoFileType DEF Idle, Calls, NoTree

LEMMA AskKeeps ==
    ASSUME ParseInv, NEW c \in Callers, NEW u \in Uris, Ask(c, u) PROVE ParseInv'
<1> DEFINE kind == call[c].kind
           r == [Idle(kind) EXCEPT !.uri = u,
                    !.pc = IF kind = "hints" THEN "hints" ELSE "lookup",
                    !.origin = IF kind = "action" THEN shown ELSE NoOrigin]
<1>1. kind \in CallKinds /\ shown \in Origins /\ NoOrigin \in Origins
  BY DEF ParseInv, ParseTypes, Calls, NoOrigin, Origins
<1>2. Idle(kind) \in Calls
  BY <1>1, IdleType
<1>3. r \in Calls
  BY <1>1, <1>2 DEF Calls
<1>4. Sets(c, r) /\ UNCHANGED <<docs, edits, generation, stubs, shown, dataSupport>>
      /\ (kind = "action" => shown.uri = u)
  BY DEF Ask
<1>5. 0 \in 0 .. edits
  BY ParsedAssumption DEF ParseInv, ParseTypes
<1>6. /\ r.edit = 0 /\ r.uri = u /\ r.answer = "none" /\ r.file = NoFile
      /\ r.pc \in {"hints", "lookup"} /\ r.kind = kind
      /\ r.pc = "hints" => r.kind = "hints"
      /\ r.origin = IF kind = "action" THEN shown ELSE NoOrigin
  BY DEF Idle
<1> HIDE DEF r, kind
<1>7. Consistent(c, r)
  BY <1>1, <1>3, <1>4, <1>5, <1>6 DEF Consistent
<1> QED
  BY <1>4, <1>7, CallChange

LEMMA DoneRecord ==
    ASSUME ParseInv, NEW c \in Callers, call[c].uri \in Uris,
           NEW answer \in {"closed", "failed", "none", "hints", "fixes"}
    PROVE  LET r == Done(c, answer)
           IN  /\ r \in Calls /\ r.pc = "done" /\ r.edit = 0
               /\ r.uri = call[c].uri /\ r.file = call[c].file
               /\ r.origin = NoOrigin /\ r.answer = answer
<1> DEFINE r == Done(c, answer)
<1>1. call[c] \in Calls
  BY DEF ParseInv, ParseTypes
<1>2. Idle(call[c].kind) \in Calls
  BY <1>1, IdleType DEF Calls
<1>3. r \in Calls
  BY <1>1, <1>2 DEF Done, Calls
<1> QED
  BY <1>3 DEF Done, Idle

LEMMA WithFileRecord ==
    ASSUME ParseInv, NEW c \in Callers, NEW file \in AstFile
    PROVE  LET r == WithFile(c, file)
           IN  /\ r \in Calls /\ r.edit = 0 /\ r.file = file
               /\ r.uri = call[c].uri /\ r.origin = call[c].origin
               /\ r.pc \in {"infer", "check", "done"}
               /\ r.pc # "done" => r.answer = "none"
               /\ r.pc = "check" => call[c].kind = "action"
<1> DEFINE r == WithFile(c, file)
           kind == call[c].kind
           stage == CASE kind = "parse" -> "done" [] kind = "hints" -> "infer"
                   [] kind = "action" -> "check"
<1>1. call[c] \in Calls /\ kind \in CallKinds
  BY DEF ParseInv, ParseTypes, Calls
<1>2. stage \in {"infer", "check", "done"} /\ (stage = "check" => kind = "action")
  BY <1>1 DEF CallKinds
<1> HIDE DEF stage
<1>3. r = [call[c] EXCEPT !.pc = stage, !.file = file, !.tree = NoTree,
              !.edit = 0, !.text = NoText,
              !.answer = IF stage = "done" THEN "parsed" ELSE "none"]
  BY DEF WithFile, stage
<1> HIDE DEF r
<1>4. r \in Calls
  <2>1. (IF stage = "done" THEN "parsed" ELSE "none") \in {"none", "parsed"}
    OBVIOUS
  <2>2. [call[c] EXCEPT !.pc = stage, !.file = file] \in Calls
    BY <1>1, <1>2 DEF Calls
  <2>3. r = [[call[c] EXCEPT !.pc = stage, !.file = file] EXCEPT !.tree = NoTree,
              !.edit = 0, !.text = NoText,
              !.answer = IF stage = "done" THEN "parsed" ELSE "none"]
    BY <1>1, <1>3 DEF Calls
  <2> QED
    BY <2>1, <2>2, <2>3, NoFileType DEF Calls, NoTree
<1> QED
  BY <1>1, <1>2, <1>3, <1>4 DEF Calls, r

\* A caller that is under way asks about a path, and an open path has an
\* active document in order.
LEMMA Asked ==
    ASSUME ParseInv, NEW c \in Callers, call[c].pc # "idle"
    PROVE  /\ call[c] \in Calls /\ CallOK(c)
           /\ call[c].uri \in Uris /\ At(c) \in Paths
           /\ IsOpen(docs, At(c)) =>
                 LET d == Active(docs, At(c))
                 IN  /\ d \in Document /\ DocOK(d)
                     /\ \E i \in 1 .. Len(docs[At(c)]) : d = docs[At(c)][i]
<1>1. call[c] \in Calls /\ CallOK(c) /\ call[c].uri \in Uris
  BY DEF ParseInv, ParseTypes, CallOK
<1>2. At(c) \in Paths
  BY <1>1, UriAssumption DEF At
<1>3. ASSUME IsOpen(docs, At(c))
      PROVE  LET d == Active(docs, At(c))
                 IN  /\ d \in Document /\ DocOK(d)
                     /\ \E i \in 1 .. Len(docs[At(c)]) : d = docs[At(c)][i]
  <2>1. docs \in DocumentMaps(Document)
    BY DEF ParseInv, ParseTypes
  <2>2. /\ Len(docs[At(c)]) \in 1 .. Len(docs[At(c)])
        /\ Active(docs, At(c)) = docs[At(c)][Len(docs[At(c)])]
        /\ Active(docs, At(c)) \in Document
    BY <1>2, <1>3, <2>1, ActiveEntry
  <2> QED
    BY <1>2, <2>2 DEF ParseInv
<1> QED
  BY <1>1, <1>2, <1>3

LEMMA FindHintsKeeps ==
    ASSUME ParseInv, NEW c \in Callers, FindHints(c) PROVE ParseInv'
<1> DEFINE found == [Done(c, "hints") EXCEPT
                        !.hints = Active(docs, At(c)).hints.file,
                        !.stubs = Active(docs, At(c)).hints.stubs]
           missed == [call[c] EXCEPT !.pc = "lookup", !.stubs = stubs]
<1>1. /\ call[c] \in Calls /\ CallOK(c) /\ call[c].uri \in Uris
      /\ call[c].pc = "hints" /\ edits \in Nat /\ stubs \in Nat
      /\ UNCHANGED <<docs, edits, generation, stubs, shown, dataSupport>>
  BY Asked, ParsedAssumption DEF FindHints, ParseInv, ParseTypes
<1>2. ASSUME IsOpen(docs, At(c)) PROVE Consistent(c, found)
  <2>1. Active(docs, At(c)) \in Document
    BY <1>1, <1>2, Asked
  <2>2. Done(c, "hints") \in Calls
    BY <1>1, DoneRecord
  <2>3. found \in Calls
    BY <2>1, <2>2 DEF Document, Calls
  <2>4. /\ found.pc = "done" /\ found.edit = 0 /\ found.uri = call[c].uri
        /\ found.file = call[c].file /\ found.origin = NoOrigin
    BY DEF Done, Idle
  <2> HIDE DEF found
  <2> QED
    BY <1>1, <2>3, <2>4 DEF Consistent
<1>3. ASSUME call[c].kind # "action" \/ call[c].origin.uri = call[c].uri
      PROVE  Consistent(c, missed)
  <2>1. missed \in Calls
    BY <1>1 DEF Calls
  <2>2. /\ missed.pc = "lookup" /\ missed.edit = call[c].edit
        /\ missed.uri = call[c].uri /\ missed.answer = call[c].answer
        /\ missed.file = call[c].file /\ missed.origin = call[c].origin
        /\ missed.kind = call[c].kind
    BY <1>1 DEF Calls
  <2> HIDE DEF missed
  <2> QED
    BY <1>1, <1>3, <2>1, <2>2 DEF Consistent, CallOK
<1>4. call[c].kind = "hints"
  BY <1>1 DEF CallOK
<1>5. (Sets(c, found) /\ IsOpen(docs, At(c))) \/ Sets(c, missed)
  BY DEF FindHints
<1> HIDE DEF found, missed
<1> QED
  BY <1>1, <1>2, <1>3, <1>4, <1>5, CallChange

LEMMA LookupKeeps ==
    ASSUME ParseInv, NEW c \in Callers, Lookup(c) PROVE ParseInv'
<1> DEFINE d == Active(docs, At(c))
           copy == [call[c] EXCEPT !.pc = "parse", !.edit = d.edit,
                       !.text = d.text, !.tree = d.tree]
<1>1. /\ call[c] \in Calls /\ CallOK(c) /\ call[c].uri \in Uris
      /\ call[c].pc = "lookup" /\ edits \in Nat /\ At(c) \in Paths
      /\ UNCHANGED <<docs, edits, generation, stubs, shown, dataSupport>>
  BY Asked, ParsedAssumption DEF Lookup, ParseInv, ParseTypes
<1>2. CASE ~ IsOpen(docs, At(c))
  <2> DEFINE r == Done(c, "closed")
  <2>1. /\ r \in Calls /\ r.pc = "done" /\ r.edit = 0 /\ r.uri = call[c].uri
        /\ r.file = call[c].file /\ r.origin = NoOrigin
    BY <1>1, DoneRecord
  <2>2. Sets(c, r)
    BY <1>2 DEF Lookup
  <2> HIDE DEF r
  <2>3. Consistent(c, r)
    BY <1>1, <2>1 DEF Consistent
  <2> QED  BY <1>1, <2>2, <2>3, CallChange
<1>3. ASSUME IsOpen(docs, At(c))
      PROVE  /\ d \in Document /\ DocOK(d)
             /\ \E i \in 1 .. Len(docs[At(c)]) : d = docs[At(c)][i]
  BY <1>1, <1>3, Asked
<1> HIDE DEF d
<1>4. CASE IsOpen(docs, At(c)) /\ d.parsed # NoFile
  <2> DEFINE r == WithFile(c, d.parsed)
  <2>1. d.parsed \in AstFile
    BY <1>3, <1>4 DEF Document
  <2>2. /\ r \in Calls /\ r.edit = 0 /\ r.file = d.parsed
        /\ r.uri = call[c].uri /\ r.origin = call[c].origin
        /\ r.pc \in {"infer", "check", "done"}
        /\ r.pc # "done" => r.answer = "none"
        /\ r.pc = "check" => call[c].kind = "action"
    BY <2>1, WithFileRecord
  <2>3. Sets(c, r)
    BY <1>4 DEF Lookup, d
  <2> HIDE DEF r
  <2>4. Consistent(c, r)
    BY <1>1, <1>3, <1>4, <2>2 DEF Consistent, CallOK
  <2> QED  BY <1>1, <2>3, <2>4, CallChange
<1>5. CASE IsOpen(docs, At(c)) /\ d.parsed = NoFile
  <2>1. copy \in Calls
    BY <1>1, <1>3, <1>5 DEF Document, Calls
  <2>2. /\ copy.pc = "parse" /\ copy.edit = d.edit /\ copy.text = d.text
        /\ copy.tree = d.tree /\ copy.uri = call[c].uri
        /\ copy.answer = call[c].answer /\ copy.file = call[c].file
        /\ copy.origin = call[c].origin /\ copy.kind = call[c].kind
    BY <1>1 DEF Calls
  <2>3. Sets(c, copy)
    BY <1>5 DEF Lookup, d
  <2> HIDE DEF copy
  <2>4. d.edit \in 1 .. edits /\ d.tree \in {NoTree, d.text}
    BY <1>3, <1>5 DEF DocOK
  <2>5. Consistent(c, copy)
    BY <1>1, <1>3, <1>5, <2>1, <2>2, <2>4 DEF Consistent, CallOK
  <2> QED  BY <1>1, <2>3, <2>5, CallChange
<1> QED
  BY <1>2, <1>4, <1>5

LEMMA AnsweredKeeps ==
    ASSUME ParseInv, NEW c \in Callers, ParseFails(c) \/ OfferFixes(c)
    PROVE  ParseInv'
<1>1. /\ call[c].uri \in Uris /\ edits \in Nat
      /\ UNCHANGED <<docs, edits, generation, stubs, shown, dataSupport>>
  BY Asked, ParsedAssumption DEF ParseFails, OfferFixes, ParseInv, ParseTypes
<1>2. PICK answer \in {"closed", "failed", "none", "hints", "fixes"} :
         Sets(c, Done(c, answer))
  BY DEF ParseFails, OfferFixes
<1> DEFINE r == Done(c, answer)
<1>3. /\ r \in Calls /\ r.pc = "done" /\ r.edit = 0 /\ r.uri = call[c].uri
      /\ r.file = call[c].file /\ r.origin = NoOrigin
  BY <1>1, DoneRecord
<1> HIDE DEF r
<1>4. Consistent(c, r)
  BY <1>1, <1>3 DEF Consistent
<1> QED
  BY <1>1, <1>2, <1>4, CallChange DEF r

\* Putting an entry back where it was changes nothing.
LEMMA PutBack ==
    ASSUME ParseInv, NEW p \in Paths, IsOpen(docs, p)
    PROVE  [docs EXCEPT ![p] = [docs[p] EXCEPT ![Len(docs[p])] = Active(docs, p)]]
              = docs
<1>1. docs \in [Paths -> Seq(Document)] /\ docs[p] \in Seq(Document)
  BY DEF ParseInv, ParseTypes, DocumentMaps
<1>2. Active(docs, p) = docs[p][Len(docs[p])]
  BY DEF Active
<1> DEFINE list == [docs[p] EXCEPT ![Len(docs[p])] = Active(docs, p)]
<1>3. list = docs[p]
  BY <1>1, <1>2
<1> HIDE DEF list
<1>4. [docs EXCEPT ![p] = list] = docs
  BY <1>1, <1>3
<1> QED
  BY <1>4 DEF list

LEMMA InstallKeeps ==
    ASSUME ParseInv, NEW c \in Callers, Install(c) PROVE ParseInv'
<1> DEFINE p == At(c)
           d == Active(docs, p)
           n == Len(docs[p])
           again == [call[c] EXCEPT !.pc = "lookup"]
<1>1. /\ call[c] \in Calls /\ CallOK(c) /\ call[c].uri \in Uris
      /\ call[c].pc = "parse" /\ edits \in Nat /\ p \in Paths
      /\ docs \in [Paths -> Seq(Document)]
      /\ UNCHANGED <<edits, generation, stubs, shown, dataSupport>>
  BY Asked, ParsedAssumption
  DEF Install, ParseInv, ParseTypes, DocumentMaps
<1>2. ASSUME IsOpen(docs, p)
      PROVE  /\ d \in Document /\ DocOK(d)
             /\ \E i \in 1 .. n : d = docs[p][i]
             /\ docs' = [docs EXCEPT ![p] = [docs[p] EXCEPT ![n] = Stored(d, c)]]
  <2>1. /\ d \in Document /\ DocOK(d)
        /\ \E i \in 1 .. n : d = docs[p][i]
    BY <1>1, <1>2, Asked
  <2>2. docs' = [docs EXCEPT ![p][n] = Stored(@, c)]
    BY <1>2 DEF Install
  <2> QED  BY <2>1, <2>2 DEF Active
<1>3. Consistent(c, again)
  <2>1. again \in Calls
    BY <1>1 DEF Calls
  <2>2. /\ again.pc = "lookup" /\ again.edit = call[c].edit
        /\ again.uri = call[c].uri /\ again.answer = call[c].answer
        /\ again.file = call[c].file /\ again.origin = call[c].origin
        /\ again.kind = call[c].kind
    BY <1>1 DEF Calls
  <2> HIDE DEF again
  <2> QED  BY <1>1, <2>1, <2>2 DEF Consistent, CallOK
<1>4. CASE ~ IsOpen(docs, p)
  <2>1. docs' = docs /\ Sets(c, again)
    BY <1>4 DEF Install
  <2> QED  BY <1>1, <1>3, <2>1, CallChange
<1>5. CASE IsOpen(docs, p) /\ d.edit # call[c].edit
  <2>1. Stored(d, c) = d
    BY <1>5 DEF Stored
  <2>2. docs' = docs
    BY <1>1, <1>2, <1>5, <2>1, PutBack
  <2>3. Sets(c, again)
    BY <1>5 DEF Install
  <2> HIDE DEF again
  <2> QED  BY <1>1, <1>3, <2>2, <2>3, CallChange
<1>6. CASE IsOpen(docs, p) /\ d.edit = call[c].edit /\ d.parsed # NoFile
  <2> DEFINE r == WithFile(c, d.parsed)
  <2>1. Stored(d, c) = d
    BY <1>6 DEF Stored
  <2>2. docs' = docs
    BY <1>1, <1>2, <1>6, <2>1, PutBack
  <2>3. Sets(c, r)
    BY <1>6, <2>2 DEF Install
  <2>4. d.parsed \in AstFile
    BY <1>2, <1>6 DEF Document
  <2>5. /\ r \in Calls /\ r.edit = 0 /\ r.file = d.parsed
        /\ r.uri = call[c].uri /\ r.origin = call[c].origin
        /\ r.pc \in {"infer", "check", "done"}
        /\ r.pc # "done" => r.answer = "none"
        /\ r.pc = "check" => call[c].kind = "action"
    BY <2>4, WithFileRecord
  <2> HIDE DEF r, d
  <2>6. Consistent(c, r)
    BY <1>1, <1>2, <1>6, <2>5 DEF Consistent, CallOK
  <2> QED  BY <1>1, <2>2, <2>3, <2>6, CallChange
<1>7. CASE IsOpen(docs, p) /\ d.edit = call[c].edit /\ d.parsed = NoFile
  <2> DEFINE f == ParseOf(c)
             e == [d EXCEPT !.parsed = f, !.tree = f.text]
             r == WithFile(c, f)
  <2>1. d \in Document /\ DocOK(d) /\ call[c].text = d.text
    BY <1>1, <1>2, <1>7 DEF DocOK
  <2>2. /\ f = [edit |-> d.edit, by |-> c, text |-> d.text]
        /\ f \in AstFile /\ f # NoFile
    <3>1. call[c].tree \in {NoTree, call[c].text}
      BY <1>1 DEF CallOK
    <3>2. f = [edit |-> d.edit, by |-> c, text |-> d.text]
      BY <3>1, <2>1, <1>7 DEF ParseOf
    <3>3. d.edit # 0
      BY <1>1, <1>7 DEF CallOK
    <3> QED  BY <3>2, <3>3, <2>1, NoFileType DEF Document, AstFile
  <2>3. Stored(d, c) = e
    BY <1>7 DEF Stored
  <2> HIDE DEF f
  <2>4. e \in Document
    BY <2>1, <2>2 DEF Document, AstFile
  <2>5. /\ e.uri = d.uri /\ e.text = d.text /\ e.edit = d.edit
        /\ e.tree = d.text /\ e.parsed = f /\ e.hints = d.hints
    BY <2>1, <2>2 DEF Document
  <2>6. d.hints = NoHints
    BY <2>1, <1>7 DEF DocOK
  <2>7. /\ r \in Calls /\ r.edit = 0 /\ r.file = f
        /\ r.uri = call[c].uri /\ r.origin = call[c].origin
        /\ r.pc \in {"infer", "check", "done"}
        /\ r.pc # "done" => r.answer = "none"
        /\ r.pc = "check" => call[c].kind = "action"
    BY <2>2, WithFileRecord
  <2>8. docs' = [docs EXCEPT ![p] = [docs[p] EXCEPT ![n] = e]]
    BY <1>2, <1>7, <2>3
  <2>9. Active(docs', p).parsed = f
    <3>1. docs[p] \in Seq(Document) /\ n \in 1 .. n
      BY <1>1, <1>2, <1>7
    <3>2. docs'[p] = [docs[p] EXCEPT ![n] = e]
      BY <1>1, <2>8
    <3> HIDE DEF e
    <3>3. Len(docs'[p]) = n /\ docs'[p][n] = e
      BY <3>1, <3>2, <2>4
    <3> QED  BY <3>3, <2>5 DEF Active
  <2>10. Sets(c, r)
    BY <1>7, <2>9 DEF Install
  <2>11. r.pc = "check" => r.origin.uri = r.uri
    BY <1>1, <2>7 DEF CallOK
  <2> HIDE DEF r, e
  <2> QED
    <3>1. /\ e.tree \in {NoTree, d.text} /\ e.parsed # NoFile
          /\ e.parsed.edit = d.edit /\ e.parsed.text = d.text
          /\ d.parsed \in {NoFile, e.parsed} /\ e.hints = NoHints
          /\ r.file = e.parsed /\ r.uri \in Uris
          /\ r.origin \in {call[c].origin, NoOrigin}
      BY <1>1, <1>7, <2>2, <2>5, <2>6, <2>7
    <3> QED
      BY <1>1, <1>7, <2>4, <2>5, <2>7, <2>8, <2>10, <2>11, <3>1, TakesFile
<1> QED
  BY <1>4, <1>5, <1>6, <1>7

LEMMA StoreHintsKeeps ==
    ASSUME ParseInv, NEW c \in Callers, StoreHints(c) PROVE ParseInv'
<1> DEFINE p == At(c)
           d == Active(docs, p)
           n == Len(docs[p])
<1>1. /\ call[c] \in Calls /\ CallOK(c) /\ call[c].uri \in Uris
      /\ call[c].pc = "infer" /\ edits \in Nat /\ p \in Paths
      /\ docs \in [Paths -> Seq(Document)]
      /\ UNCHANGED <<edits, generation, stubs, shown, dataSupport>>
  BY Asked, ParsedAssumption
  DEF StoreHints, ParseInv, ParseTypes, DocumentMaps
<1>2. CASE ~ HintsStillFor(c)
  <2> DEFINE r == Done(c, "none")
  <2>1. /\ r \in Calls /\ r.pc = "done" /\ r.edit = 0 /\ r.uri = call[c].uri
        /\ r.file = call[c].file /\ r.origin = NoOrigin
    BY <1>1, DoneRecord
  <2>2. Sets(c, r) /\ docs' = docs
    BY <1>2 DEF StoreHints
  <2> HIDE DEF r
  <2>3. Consistent(c, r)
    BY <1>1, <2>1 DEF Consistent
  <2> QED  BY <1>1, <2>2, <2>3, CallChange
<1>3. CASE HintsStillFor(c)
  <2> DEFINE h == [stubs |-> call[c].stubs, file |-> call[c].file]
             e == [d EXCEPT !.hints = h]
             r == [Done(c, "hints") EXCEPT !.hints = call[c].file,
                                           !.stubs = call[c].stubs]
  <2>1. IsOpen(docs, p) /\ d.parsed = call[c].file
    BY <1>3 DEF HintsStillFor
  <2>2. d \in Document /\ DocOK(d)
    BY <1>1, <2>1, Asked
  <2>3. call[c].file # NoFile /\ h \in [stubs : Nat, file : AstFile]
    BY <1>1 DEF CallOK, Calls
  <2>4. e \in Document
    BY <2>2, <2>3 DEF Document
  <2>5. /\ e.uri = d.uri /\ e.text = d.text /\ e.edit = d.edit
        /\ e.tree = d.tree /\ e.parsed = d.parsed /\ e.hints = h
    BY <2>2 DEF Document
  <2>6. docs' = [docs EXCEPT ![p] = [docs[p] EXCEPT ![n] = e]]
    <3>1. docs' = [docs EXCEPT ![p][n].hints = h]
      BY <1>3 DEF StoreHints
    <3> QED  BY <3>1 DEF Active
  <2>7. Done(c, "hints") \in Calls
    BY <1>1, DoneRecord
  <2>8. r \in Calls
    BY <2>7, <1>1 DEF Calls
  <2>9. /\ r.pc = "done" /\ r.edit = 0 /\ r.uri = call[c].uri
        /\ r.file = call[c].file /\ r.origin = NoOrigin
    BY DEF Done, Idle
  <2>10. Sets(c, r)
    BY <1>3 DEF StoreHints
  <2>11. d.tree \in {NoTree, d.text} /\ d.parsed.edit = d.edit
         /\ d.parsed.text = d.text /\ h.file = d.parsed
    BY <2>1, <2>2, <2>3 DEF DocOK
  <2> HIDE DEF r, e, h
  <2> QED
    BY <1>1, <2>1, <2>2, <2>3, <2>4, <2>5, <2>6, <2>8, <2>9, <2>10, <2>11,
       TakesFile
<1> QED
  BY <1>2, <1>3

LEMMA ParseStep == ASSUME ParseInv, [ParseNext]_parseVars PROVE ParseInv'
<1>1. ASSUME NEW u \in Uris, NEW valid \in BOOLEAN, Open(u, valid)
      PROVE  ParseInv'
  BY <1>1, ClientStepKeeps
<1>2. ASSUME NEW u \in Uris, NEW valid \in BOOLEAN, NEW ranged \in BOOLEAN,
             Change(u, valid, ranged)
      PROVE  ParseInv'
  BY <1>2, ClientStepKeeps
<1>3. ASSUME NEW u \in Uris, Close(u) PROVE ParseInv'
  BY <1>3, ClientStepKeeps
<1>4. ASSUME NEW u \in Uris, NEW c \in Callers, Ask(c, u) PROVE ParseInv'
  BY <1>4, AskKeeps
<1>5. CASE ReloadStubs
  BY <1>5, ReloadKeeps
<1>6. ASSUME NEW p \in Paths, PublishFindings(p) PROVE ParseInv'
  BY <1>6, PublishKeeps
<1>7. ASSUME NEW c \in Callers, CallStep(c) PROVE ParseInv'
  BY <1>7, FindHintsKeeps, LookupKeeps, AnsweredKeeps, InstallKeeps,
     StoreHintsKeeps DEF CallStep
<1>8. CASE UNCHANGED parseVars
  BY <1>8 DEF parseVars, ParseInv, ParseTypes, EditsDistinct, FilesAgree,
              DocOK, CallOK, OriginOK
<1> QED
  BY <1>1, <1>2, <1>3, <1>4, <1>5, <1>6, <1>7, <1>8 DEF ParseNext

LEMMA ParseStart == ASSUME ParseInit PROVE ParseInv
<1>1. /\ docs = NoDocuments /\ edits = 0 /\ generation = 0 /\ stubs = 1
      /\ shown = NoOrigin /\ dataSupport \in BOOLEAN
  BY DEF ParseInit
<1>2. PICK plan \in [Callers -> CallKinds] :
         call = [c \in Callers |-> Idle(plan[c])]
  BY ParsedAssumption DEF ParseInit
<1>3. docs \in DocumentMaps(Document) /\ \A p \in Paths : docs[p] = << >>
  BY <1>1 DEF NoDocuments, DocumentMaps
<1>4. \A p \in Paths : Len(docs[p]) = 0 /\ 1 .. Len(docs[p]) = {}
  BY <1>3
<1>5. \A c \in Callers : call[c] = Idle(plan[c]) /\ call[c] \in Calls
  BY <1>2, IdleType
<1>6. call \in [Callers -> Calls]
  BY <1>2, <1>5
<1>7. NoOrigin \in Origins
  BY DEF NoOrigin, Origins
<1>8. ParseTypes
  BY <1>1, <1>3, <1>4, <1>6, <1>7, ParsedAssumption DEF ParseTypes, WellKeyed
<1>9. OriginOK(NoOrigin)
  BY <1>1 DEF OriginOK, NoOrigin
<1>10. \A c \in Callers :
          /\ call[c].pc = "idle" /\ call[c].edit = 0 /\ call[c].file = NoFile
          /\ call[c].answer = "none" /\ call[c].origin = NoOrigin
  <2> TAKE c \in Callers
  <2>1. call[c] = Idle(plan[c])
    BY <1>5
  <2> QED  BY <2>1 DEF Idle
<1>11. \A c \in Callers : CallOK(c)
  BY <1>1, <1>9, <1>10 DEF CallOK
<1> QED
  BY <1>1, <1>4, <1>8, <1>9, <1>10, <1>11 DEF ParseInv, EditsDistinct, FilesAgree

-----------------------------------------------------------------------------
(* Types                                                                   *)

WatchTypes ==
    /\ custom \subseteq ConfigPaths /\ asked \subseteq ConfigPaths
    /\ registered \in Registrations /\ held \in Registrations
    /\ asking \in {"nothing", "unregister", "register"}
    /\ refused \in BOOLEAN /\ refreshes \in 0 .. MaxRefreshes

LEMMA WatchTypesStep ==
    ASSUME WatchTypes, [WatchNext]_watchVars PROVE WatchTypes'
<1>1. \A paths \in SUBSET ConfigPaths :
         /\ Watching(paths) \in Registrations
         /\ Watching(paths).paths = paths
  BY DEF Registrations, Watching
<1>2. Nothing \in Registrations
  BY DEF Registrations
<1>3. held.paths \subseteq ConfigPaths
  BY DEF WatchTypes, Registrations, Nothing, Watching
<1>4. ASSUME NEW paths \in SUBSET ConfigPaths, Refresh(paths) PROVE WatchTypes'
  <2>1. refreshes' \in 0 .. MaxRefreshes
    BY <1>4, WatcherAssumption DEF Refresh, WatchTypes
  <2> QED  BY <1>4, <2>1 DEF Refresh, WatchTypes
<1>5. CASE Answer
  BY <1>1, <1>2, <1>3, <1>5
  DEF Answer, Unregistered, UnregisterRefused, Registered, RegisterRefused,
      WatchTypes
<1>6. CASE UNCHANGED watchVars
  BY <1>6 DEF watchVars, WatchTypes
<1> QED
  BY <1>4, <1>5, <1>6 DEF WatchNext

HandlerStates == {"queued", "running", "answered"}
ExitTypes ==
    /\ wire \in Seq(Messages) /\ read \in Seq(Messages)
    /\ handlers \in Seq(HandlerStates) /\ Len(handlers) = Len(read)
    /\ Cardinality(Running) <= Concurrency
    /\ code \in {NoCode, "success", "failure"}
    /\ main \in {"serving", "draining", "ended"}

LEMMA RunningFinite ==
    ASSUME ExitTypes
    PROVE  IsFiniteSet(Running) /\ Cardinality(Running) \in Nat
<1>1. Len(handlers) \in Nat /\ Running \subseteq 1 .. Len(handlers)
  BY DEF ExitTypes, Running
<1>2. IsFiniteSet(1 .. Len(handlers))
  BY <1>1, FS_Interval
<1> QED
  BY <1>1, <1>2, FS_Subset, FS_CardinalityType

LEMMA ExitTypesStep ==
    ASSUME ExitTypes, [ExitNext]_exitVars PROVE ExitTypes'
<1>1. CASE (\E m \in Messages : SendMessage(m)) \/ CloseInput \/ EndOfInput
           \/ SeeExit \/ ServeReturns \/ DrainExpires \/ UNCHANGED exitVars
  <2>1. /\ wire' \in Seq(Messages) /\ read' = read /\ handlers' = handlers
        /\ code' = code /\ main' \in {"serving", "draining", "ended"}
    <3>1. wire' \in Seq(Messages)
      <4>1. ASSUME NEW m \in Messages, SendMessage(m)
            PROVE  wire' \in Seq(Messages)
        BY <4>1 DEF SendMessage, ExitTypes
      <4>2. ASSUME wire' = wire PROVE wire' \in Seq(Messages)
        BY <4>2 DEF ExitTypes
      <4> QED
        BY <1>1, <4>1, <4>2 DEF CloseInput, EndOfInput, SeeExit, ServeReturns,
                                DrainExpires, exitVars
    <3>2. main' \in {"serving", "draining", "ended"}
      BY <1>1 DEF SendMessage, CloseInput, EndOfInput, SeeExit, ServeReturns,
                  DrainExpires, exitVars, ExitTypes
    <3> QED
      BY <1>1, <3>1, <3>2 DEF SendMessage, CloseInput, EndOfInput, SeeExit,
                              ServeReturns, DrainExpires, exitVars
  <2> QED  BY <2>1 DEF ExitTypes, Running
<1>2. CASE Read
  <2>1. Head(wire) \in Messages /\ wire' \in Seq(Messages)
    BY <1>2, HeadTailProperties DEF ExitTypes, Read
  <2>2. read' \in Seq(Messages) /\ Len(read') = Len(read) + 1
    BY <1>2, <2>1 DEF ExitTypes, Read
  <2>3. "queued" \in HandlerStates /\ handlers \in Seq(HandlerStates)
    BY DEF HandlerStates, ExitTypes
  <2>4. /\ handlers' = Append(handlers, "queued")
        /\ handlers' \in Seq(HandlerStates) /\ Len(handlers') = Len(handlers) + 1
        /\ handlers'[Len(handlers) + 1] = "queued"
        /\ \A i \in 1 .. Len(handlers) : handlers'[i] = handlers[i]
    BY <1>2, <2>3 DEF Read
  <2>5. Running' = Running
    BY <2>3, <2>4 DEF Running
  <2>6. code' \in {NoCode, "success", "failure"} /\ main' = main
    BY <1>2 DEF Read, ExitCode, ExitTypes
  <2> QED
    BY <2>1, <2>2, <2>4, <2>5, <2>6 DEF ExitTypes
<1>3. CASE StartHandler
  <2>1. PICK i \in 1 .. Len(handlers) :
           handlers[i] = "queued" /\ handlers' = [handlers EXCEPT ![i] = "running"]
    BY <1>3 DEF StartHandler
  <2>2. handlers' \in Seq(HandlerStates) /\ Len(handlers') = Len(handlers)
    BY <2>1 DEF ExitTypes, HandlerStates
  <2>3. Running' = Running \cup {i} /\ i \notin Running
    BY <2>1, <2>2 DEF Running, ExitTypes
  <2>4. Cardinality(Running') = Cardinality(Running) + 1
    BY <2>3, RunningFinite, FS_AddElement
  <2>5. Cardinality(Running) < Concurrency
    BY <1>3 DEF StartHandler
  <2>6. Cardinality(Running') <= Concurrency
    BY <2>4, <2>5, RunningFinite, ExitAssumption
  <2> QED
    BY <1>3, <2>2, <2>6 DEF StartHandler, ExitTypes
<1>4. CASE FinishHandler
  <2>1. PICK i \in Running : handlers' = [handlers EXCEPT ![i] = "answered"]
    BY <1>4 DEF FinishHandler
  <2>2. handlers' \in Seq(HandlerStates) /\ Len(handlers') = Len(handlers)
    BY <2>1 DEF ExitTypes, HandlerStates, Running
  <2>3. Running' \subseteq Running
    BY <2>1, <2>2 DEF Running, ExitTypes
  <2>4. Cardinality(Running') <= Cardinality(Running)
        /\ Cardinality(Running') \in Nat
    BY <2>3, RunningFinite, FS_Subset, FS_CardinalityType
  <2>5. Cardinality(Running') <= Concurrency
    BY <2>4, RunningFinite, ExitAssumption DEF ExitTypes
  <2> QED
    BY <1>4, <2>2, <2>5 DEF FinishHandler, ExitTypes
<1> QED
  BY <1>1, <1>2, <1>3, <1>4 DEF ExitNext, MainStep

-----------------------------------------------------------------------------
(* The composition                                                         *)

BackendInv == ParseInv /\ WatchTypes /\ ExitTypes

LEMMA BackendStart == ASSUME Init PROVE BackendInv
<1>1. ParseInv
  BY ParseStart DEF Init
<1>2. WatchTypes
  <2>1. Nothing \in Registrations
    BY DEF Registrations
  <2>2. WatchInit
    BY DEF Init
  <2>3. refreshes \in 0 .. MaxRefreshes
    BY <2>2, WatcherAssumption DEF WatchInit
  <2> QED
    BY <2>1, <2>2, <2>3 DEF WatchInit, WatchTypes
<1>3. ExitTypes
  <2>1. wire = << >> /\ read = << >> /\ handlers = << >> /\ code = NoCode
        /\ main = "serving"
    BY DEF Init, ExitInit
  <2>2. Running = {}
    BY <2>1 DEF Running
  <2>3. Cardinality(Running) = 0
    BY <2>2, FS_EmptySet
  <2> QED  BY <2>1, <2>3, ExitAssumption DEF ExitTypes
<1> QED
  BY <1>1, <1>2, <1>3 DEF BackendInv

LEMMA BackendStep == ASSUME BackendInv, [Next]_vars PROVE BackendInv'
  BY PartSteps, ParseStep, WatchTypesStep, ExitTypesStep DEF BackendInv

LEMMA BackendTyped == ASSUME BackendInv PROVE TypeOK
<1>1. ASSUME NEW p \in Paths, NEW i \in 1 .. Len(docs[p])
      PROVE  docs[p][i].edit \in 1 .. edits
  BY DEF BackendInv, ParseInv, DocOK
<1>2. ASSUME NEW c \in Callers
      PROVE  /\ call[c].pc \in {"idle", "hints", "lookup", "parse", "infer",
                                "check", "done"}
             /\ call[c].kind \in CallKinds
             /\ call[c].edit \in 0 .. edits
  BY DEF BackendInv, ParseInv, ParseTypes, Calls, CallOK
<1>3. /\ edits \in 0 .. MaxEdits /\ stubs \in 1 .. MaxStubs + 1
      /\ WellKeyed(docs) /\ dataSupport \in BOOLEAN
  BY DEF BackendInv, ParseInv, ParseTypes
<1> QED
  BY <1>1, <1>2, <1>3 DEF BackendInv, WatchTypes, ExitTypes, TypeOK

\* Whoever holds an AST of an edit holds the only one.
LEMMA OneAstPerEdit == ASSUME ParseInv PROVE OneAst
<1>1. \A p \in Paths : \A i \in 1 .. Len(docs[p]) : DocOK(docs[p][i])
  BY DEF ParseInv
<1>2. \A c \in Callers : CallOK(c)
  BY DEF ParseInv
<1>3. edits \in Nat
  BY ParsedAssumption DEF ParseInv, ParseTypes
<1>4. \A f \in Held : f.edit = 0 => f = NoFile
  <2> TAKE f \in Held
  <2> HAVE f.edit = 0
  <2>1. CASE \E c \in Callers : f = call[c].file
    BY <2>1, <1>2, <1>3 DEF CallOK
  <2>2. CASE \E p \in Paths : \E i \in 1 .. Len(docs[p]) : f = docs[p][i].parsed
    BY <2>2, <1>1, <1>3 DEF DocOK
  <2> QED  BY <2>1, <2>2 DEF Held
<1>5. \A f, g \in Held : f.edit = g.edit /\ f.edit # 0 => f = g
  <2> SUFFICES ASSUME NEW f \in Held, NEW g \in Held,
                      f.edit = g.edit, f.edit # 0
               PROVE  f = g
    OBVIOUS
  <2>1. f # NoFile /\ g # NoFile
    BY NoFileType
  <2>2. \A h \in {f, g} :
           \/ \E c \in Callers : h = call[c].file
           \/ \E p \in Paths : \E i \in 1 .. Len(docs[p]) :
                 h = docs[p][i].parsed /\ h.edit = docs[p][i].edit
    BY <2>1, <1>1 DEF Held, DocOK
  <2>3. ASSUME NEW c \in Callers, NEW p \in Paths, NEW i \in 1 .. Len(docs[p]),
               call[c].file.edit = docs[p][i].edit
        PROVE  docs[p][i].parsed = call[c].file
    BY <2>3, <1>1 DEF DocOK
  <2>4. ASSUME NEW p \in Paths, NEW q \in Paths, NEW i \in 1 .. Len(docs[p]),
               NEW j \in 1 .. Len(docs[q]), docs[p][i].edit = docs[q][j].edit
        PROVE  docs[p][i] = docs[q][j]
    BY <2>4, SameEdit
  <2>5. CASE \E c \in Callers : f = call[c].file
    <3>1. PICK c \in Callers : f = call[c].file
      BY <2>5
    <3>2. CASE \E b \in Callers : g = call[b].file
      BY <3>1, <3>2 DEF ParseInv, FilesAgree
    <3>3. CASE \E p \in Paths : \E i \in 1 .. Len(docs[p]) :
                  g = docs[p][i].parsed /\ g.edit = docs[p][i].edit
      BY <3>1, <3>3, <2>3
    <3> QED  BY <2>2, <3>2, <3>3
  <2>6. CASE \E p \in Paths : \E i \in 1 .. Len(docs[p]) :
                f = docs[p][i].parsed /\ f.edit = docs[p][i].edit
    <3>1. PICK p \in Paths : \E i \in 1 .. Len(docs[p]) :
                f = docs[p][i].parsed /\ f.edit = docs[p][i].edit
      BY <2>6
    <3>2. PICK i \in 1 .. Len(docs[p]) :
             f = docs[p][i].parsed /\ f.edit = docs[p][i].edit
      BY <3>1
    <3>3. CASE \E b \in Callers : g = call[b].file
      BY <3>2, <3>3, <2>3
    <3>4. CASE \E q \in Paths : \E j \in 1 .. Len(docs[q]) :
                  g = docs[q][j].parsed /\ g.edit = docs[q][j].edit
      BY <3>2, <3>4, <2>4
    <3> QED  BY <2>2, <3>3, <3>4
  <2> QED  BY <2>2, <2>5, <2>6
<1> QED
  BY <1>4, <1>5 DEF OneAst

(* Every variable has its type; a document's tree, AST and hints are those *)
(* of its present edit and text; and one edit has one AST, in whoever's    *)
(* hands, for any number of requests, edits, closes and reloads in every   *)
(* order of their lock sections.                                           *)
THEOREM CachesStayCurrent == Spec => []CachesCurrent
<1>1. Init => BackendInv
  BY BackendStart
<1>2. BackendInv /\ [Next]_vars => BackendInv'
  BY BackendStep
<1>3. BackendInv => CachesCurrent
  <2> SUFFICES ASSUME BackendInv PROVE CachesCurrent
    OBVIOUS
  <2>1. CacheCurrent
    <3> SUFFICES ASSUME NEW p \in Paths, NEW i \in 1 .. Len(docs[p])
                 PROVE  LET doc == docs[p][i]
                        IN  /\ doc.tree \in {NoTree, doc.text}
                            /\ doc.parsed # NoFile =>
                                  /\ doc.parsed.edit = doc.edit
                                  /\ doc.parsed.text = doc.text
                            /\ doc.hints.file \in {NoFile, doc.parsed}
      BY DEF CacheCurrent
    <3>1. DocOK(docs[p][i])
      BY DEF BackendInv, ParseInv
    <3> QED  BY <3>1 DEF DocOK, NoHints
  <2> QED
    BY <2>1, BackendTyped, OneAstPerEdit DEF BackendInv, CachesCurrent
<1> QED
  BY <1>1, <1>2, <1>3, PTL DEF Spec

-----------------------------------------------------------------------------
(* What a request is answered                                              *)

ParsesStep ==
    \A c \in Callers :
        call[c].pc \in {"lookup", "parse"} /\ call'[c].file # call[c].file =>
            LET doc == Active(docs', At(c))
            IN  /\ call'[c].file.edit = doc.edit
                /\ call'[c].file.text = doc.text
HintsStep ==
    \A c \in Callers :
        call[c].pc # "done" /\ call'[c].answer = "hints" =>
            LET doc == Active(docs', At(c))
            IN  /\ call'[c].hints.edit = doc.edit
                /\ call'[c].hints.text = doc.text
                /\ call'[c].stubs = stubs
FixOK(c, doc) ==
    /\ Len(docs'[At(c)]) = 1 /\ doc.edit = call[c].file.edit
    /\ dataSupport => doc.uri = call[c].uri /\ doc.edit = call[c].origin.edit
FixesStep ==
    \A c \in Callers :
        call[c].pc # "done" /\ call'[c].answer = "fixes" =>
            LET doc == Active(docs', At(c))
            IN  /\ Len(docs'[At(c)]) = 1 /\ doc.edit = call[c].file.edit
                /\ dataSupport => /\ doc.uri = call[c].uri
                                  /\ doc.edit = call[c].origin.edit

\* A step that leaves a caller's record alone answers it nothing.
LEMMA UnansweredStep ==
    ASSUME ParseInv, NEW c \in Callers, call'[c] = call[c]
    PROVE  /\ ~ (call[c].pc # "done" /\ call'[c].answer \in {"hints", "fixes"})
           /\ call'[c].file = call[c].file
<1>1. call[c].pc # "done" => call[c].answer = "none"
  BY DEF ParseInv, CallOK
<1> QED
  BY <1>1

\* Only a caller's own call step changes its record, and Ask.
LEMMA OthersUnanswered ==
    ASSUME ParseInv, [ParseNext]_parseVars, NEW c \in Callers
    PROVE  \/ call'[c] = call[c]
           \/ CallStep(c)
           \/ \E u \in Uris : Ask(c, u)
<1>1. call \in [Callers -> Calls]
  BY DEF ParseInv, ParseTypes
<1>2. ASSUME NEW b \in Callers, NEW r, Sets(b, r), b # c PROVE call'[c] = call[c]
  BY <1>1, <1>2 DEF Sets
<1>3. ASSUME NEW b \in Callers, CallStep(b) PROVE \E r : Sets(b, r)
  <2>1. CASE StoreHints(b)
    BY <2>1 DEF StoreHints
  <2> QED
    BY <1>3, <2>1 DEF CallStep, FindHints, Lookup, ParseFails, Install, OfferFixes
<1>4. ASSUME NEW b \in Callers, CallStep(b), b # c PROVE call'[c] = call[c]
  BY <1>2, <1>3, <1>4
<1>5. ASSUME NEW b \in Callers, NEW u \in Uris, Ask(b, u), b # c
      PROVE  call'[c] = call[c]
  BY <1>2, <1>5 DEF Ask
<1>6. CASE \/ \E u \in Uris :
                 \/ \E valid \in BOOLEAN :
                       Open(u, valid) \/ \E ranged \in BOOLEAN : Change(u, valid, ranged)
                 \/ Close(u)
           \/ ReloadStubs
           \/ \E p \in Paths : PublishFindings(p)
           \/ UNCHANGED parseVars
  BY <1>6 DEF Open, Change, Close, ReloadStubs, PublishFindings, parseVars
<1> QED
  BY <1>4, <1>5, <1>6 DEF ParseNext

\* What FindHints, Lookup, Install, StoreHints and OfferFixes answer
LEMMA AnswerStep ==
    ASSUME ParseInv, NEW c \in Callers, CallStep(c)
    PROVE  LET doc == Active(docs', At(c))
           IN  /\ (call[c].pc \in {"lookup", "parse"}
                      /\ call'[c].file # call[c].file) =>
                     call'[c].file.edit = doc.edit /\ call'[c].file.text = doc.text
               /\ call'[c].answer = "hints" =>
                     /\ call'[c].hints.edit = doc.edit
                     /\ call'[c].hints.text = doc.text
                     /\ call'[c].stubs = stubs
               /\ call'[c].answer = "fixes" => FixOK(c, doc)
<1> DEFINE p == At(c)
           d == Active(docs, p)
           doc == Active(docs', p)
           n == Len(docs[p])
<1>0. call[c].pc # "idle" /\ call \in [Callers -> Calls]
  BY DEF CallStep, FindHints, Lookup, ParseFails, Install, StoreHints,
         OfferFixes, ParseInv, ParseTypes
<1>1. /\ call[c] \in Calls /\ CallOK(c) /\ call[c].uri \in Uris /\ p \in Paths
      /\ docs \in [Paths -> Seq(Document)] /\ stubs # 0
  BY <1>0, Asked DEF ParseInv, ParseTypes, DocumentMaps
<1>2. IsOpen(docs, p) =>
         /\ d \in Document /\ DocOK(d) /\ \E i \in 1 .. n : d = docs[p][i]
  BY <1>0, Asked
<1>3. \A r : Sets(c, r) => call'[c] = r
  BY <1>0 DEF Sets
<1>4. \A answer : /\ Done(c, answer).answer = answer
                  /\ Done(c, answer).file = call[c].file
  BY DEF Done, Idle
<1>5. ASSUME NEW file PROVE /\ WithFile(c, file).file = file
                            /\ WithFile(c, file).answer \in {"parsed", "none"}
  BY <1>1 DEF WithFile, Calls
<1>6. CASE FindHints(c)
  <2>1. docs' = docs /\ call[c].pc = "hints"
    BY <1>6 DEF FindHints
  <2>2. CASE IsOpen(docs, p) /\ d.hints.stubs = stubs
    <3> DEFINE r == [Done(c, "hints") EXCEPT !.hints = d.hints.file,
                                             !.stubs = d.hints.stubs]
    <3>1. call'[c] = r
      BY <1>3, <1>6, <2>2 DEF FindHints
    <3>2. r.answer = "hints" /\ r.hints = d.hints.file /\ r.stubs = d.hints.stubs
      BY DEF Done, Idle
    <3> HIDE DEF r
    <3>3. d.hints # NoHints
      BY <1>1, <2>2 DEF NoHints
    <3>4. d.hints.file.edit = d.edit /\ d.hints.file.text = d.text
      BY <1>2, <2>2, <3>3 DEF DocOK
    <3> QED  BY <2>1, <2>2, <3>1, <3>2, <3>4
  <2>3. CASE ~ (IsOpen(docs, p) /\ d.hints.stubs = stubs)
    <3>1. call'[c] = [call[c] EXCEPT !.pc = "lookup", !.stubs = stubs]
      BY <1>3, <1>6, <2>3 DEF FindHints
    <3>2. call'[c].answer = "none"
      BY <3>1, <1>1, <2>1 DEF CallOK, Calls
    <3> QED  BY <2>1, <3>2
  <2> QED  BY <2>2, <2>3
<1>7. CASE Lookup(c)
  <2>1. docs' = docs /\ call[c].pc = "lookup"
    BY <1>7 DEF Lookup
  <2>2. CASE ~ IsOpen(docs, p)
    <3>1. call'[c] = Done(c, "closed")
      BY <1>3, <1>7, <2>2 DEF Lookup
    <3> QED  BY <3>1, <1>4
  <2>3. CASE IsOpen(docs, p) /\ d.parsed # NoFile
    <3>1. call'[c] = WithFile(c, d.parsed)
      BY <1>3, <1>7, <2>3 DEF Lookup
    <3>2. d.parsed.edit = d.edit /\ d.parsed.text = d.text
      BY <1>2, <2>3 DEF DocOK
    <3>3. /\ call'[c].file = d.parsed
          /\ call'[c].answer \in {"parsed", "none"}
      BY <3>1, <1>5
    <3> QED  BY <2>1, <3>2, <3>3
  <2>4. CASE IsOpen(docs, p) /\ d.parsed = NoFile
    <3>1. call'[c] = [call[c] EXCEPT !.pc = "parse", !.edit = d.edit,
                         !.text = d.text, !.tree = d.tree]
      BY <1>3, <1>7, <2>4 DEF Lookup
    <3>2. call'[c].file = call[c].file /\ call'[c].answer = "none"
      BY <3>1, <1>1, <2>1 DEF CallOK, Calls
    <3> QED  BY <3>2
  <2> QED  BY <2>2, <2>3, <2>4
<1>8. CASE ParseFails(c)
  <2>1. call'[c] = Done(c, "failed")
    BY <1>3, <1>8 DEF ParseFails
  <2> QED  BY <2>1, <1>4
<1>9. CASE Install(c)
  <2>1. call[c].pc = "parse"
    BY <1>9 DEF Install
  <2>2. CASE ~ (IsOpen(docs, p) /\ d.edit = call[c].edit)
    <3>1. call'[c] = [call[c] EXCEPT !.pc = "lookup"]
      BY <1>3, <1>9, <2>2 DEF Install
    <3>2. call'[c].file = call[c].file /\ call'[c].answer = "none"
      BY <3>1, <1>1, <2>1 DEF CallOK, Calls
    <3> QED  BY <3>2
  <2>3. CASE IsOpen(docs, p) /\ d.edit = call[c].edit
    <3> DEFINE e == Stored(d, c)
    <3>1. call'[c] = WithFile(c, doc.parsed)
      BY <1>3, <1>9, <2>3 DEF Install
    <3>2. /\ call'[c].file = doc.parsed
          /\ call'[c].answer \in {"parsed", "none"}
      BY <3>1, <1>5
    <3>3. docs' = [docs EXCEPT ![p][n] = Stored(@, c)]
      BY <1>9, <2>3 DEF Install
    <3>4. docs' = [docs EXCEPT ![p] = [docs[p] EXCEPT ![n] = e]]
      BY <3>3 DEF Active
    <3>5. docs[p] \in Seq(Document) /\ n \in 1 .. n
      BY <1>1, <1>2, <2>3
    <3> HIDE DEF e
    <3>6. docs'[p] = [docs[p] EXCEPT ![n] = e]
      BY <1>1, <3>4
    <3>7. doc = e
      <4>1. Len(docs'[p]) = n
        BY <3>5, <3>6
      <4> QED  BY <4>1, <3>5, <3>6 DEF Active
    <3>8. e.parsed.edit = e.edit /\ e.parsed.text = e.text
      <4>1. CASE d.parsed # NoFile
        <5>1. e = d
          BY <4>1 DEF e, Stored
        <5> QED  BY <4>1, <5>1, <1>2, <2>3 DEF DocOK
      <4>2. CASE d.parsed = NoFile
        <5>1. e = [d EXCEPT !.parsed = ParseOf(c), !.tree = ParseOf(c).text]
          BY <2>3, <4>2 DEF e, Stored
        <5>2. call[c].text = d.text /\ call[c].tree \in {NoTree, call[c].text}
          BY <1>1, <1>2, <2>1, <2>3 DEF CallOK, DocOK
        <5>3. ParseOf(c).edit = d.edit /\ ParseOf(c).text = d.text
          BY <5>2, <2>3 DEF ParseOf
        <5>4. /\ e.parsed = ParseOf(c) /\ e.edit = d.edit /\ e.text = d.text
          BY <5>1, <1>2, <2>3 DEF Document
        <5> QED  BY <5>3, <5>4
      <4> QED  BY <4>1, <4>2
    <3> QED  BY <3>2, <3>7, <3>8
  <2> QED  BY <2>2, <2>3
<1>10. CASE StoreHints(c)
  <2>1. call[c].pc = "infer"
    BY <1>10 DEF StoreHints
  <2>2. CASE ~ HintsStillFor(c)
    <3>1. call'[c] = Done(c, "none")
      BY <1>3, <1>10, <2>2 DEF StoreHints
    <3> QED  BY <2>1, <3>1, <1>4
  <2>3. CASE HintsStillFor(c)
    <3> DEFINE h == [stubs |-> call[c].stubs, file |-> call[c].file]
               e == [d EXCEPT !.hints = h]
               r == [Done(c, "hints") EXCEPT !.hints = call[c].file,
                                             !.stubs = call[c].stubs]
    <3>1. call'[c] = r
      BY <1>3, <1>10, <2>3 DEF StoreHints
    <3>2. r.answer = "hints" /\ r.hints = call[c].file /\ r.stubs = call[c].stubs
      BY DEF Done, Idle
    <3>3. /\ IsOpen(docs, p) /\ d.parsed = call[c].file /\ stubs = call[c].stubs
          /\ call[c].file # NoFile
      BY <1>1, <2>1, <2>3 DEF HintsStillFor, CallOK
    <3>4. docs[p] \in Seq(Document) /\ n \in 1 .. n
      BY <1>1, <1>2, <3>3
    <3>5. docs' = [docs EXCEPT ![p] = [docs[p] EXCEPT ![n] = e]]
      <4>1. docs' = [docs EXCEPT ![p][n].hints = h]
        BY <1>10, <2>3 DEF StoreHints
      <4> QED  BY <4>1 DEF Active
    <3> HIDE DEF e
    <3>6. doc = e
      <4>1. docs'[p] = [docs[p] EXCEPT ![n] = e]
        BY <1>1, <3>5
      <4>2. Len(docs'[p]) = n
        BY <3>4, <4>1
      <4> QED  BY <4>1, <4>2, <3>4 DEF Active
    <3>7. e.edit = d.edit /\ e.text = d.text
      BY <1>2, <3>3 DEF e, Document
    <3>8. call[c].file.edit = d.edit /\ call[c].file.text = d.text
      BY <1>2, <3>3 DEF DocOK
    <3> HIDE DEF r
    <3> QED  BY <2>1, <3>1, <3>2, <3>3, <3>6, <3>7, <3>8
  <2> QED  BY <2>2, <2>3
<1>11. CASE OfferFixes(c)
  <2> DEFINE offer == Fixable(c, docs[p])
  <2>1. docs' = docs /\ call[c].pc = "check"
    BY <1>11 DEF OfferFixes
  <2>2. call'[c] = Done(c, IF offer THEN "fixes" ELSE "none")
    BY <1>3, <1>11 DEF OfferFixes
  <2>3. call'[c].answer = IF offer THEN "fixes" ELSE "none"
    BY <2>2, <1>4
  <2>4. ASSUME offer PROVE FixOK(c, d)
    <3>1. n = 1 /\ d.parsed = call[c].file
      BY <2>4 DEF Fixable, Active
    <3>2. IsOpen(docs, p)
      <4>1. Len(docs[p]) = 1 /\ Len(<< >>) = 0
        BY <3>1
      <4>2. docs[p] # << >>
        BY <4>1
      <4> QED  BY <4>2 DEF IsOpen
    <3>3. call[c].file # NoFile /\ call[c].origin.uri = call[c].uri
      BY <1>1, <2>1 DEF CallOK
    <3>4. d.edit = call[c].file.edit
      BY <1>2, <3>1, <3>2, <3>3 DEF DocOK
    <3>5. ASSUME dataSupport
          PROVE  d.uri = call[c].uri /\ d.edit = call[c].origin.edit
      <4>1. generation > 0
        BY <1>1, <1>2, <3>2 DEF ParseInv
      <4>2. call[c].origin.generation = generation
        BY <2>4, <3>5 DEF Fixable, SameOrigin
      <4>3. OriginOK(call[c].origin)
        BY <1>1 DEF CallOK
      <4> QED  BY <3>3, <4>1, <4>2, <4>3 DEF OriginOK, At
    <3> QED  BY <2>1, <3>1, <3>4, <3>5 DEF FixOK
  <2> HIDE DEF offer
  <2> QED  BY <2>1, <2>3, <2>4
<1> QED
  BY <1>6, <1>7, <1>8, <1>9, <1>10, <1>11 DEF CallStep

(* The AST a caller is handed is that of the document its path analyses at *)
(* that moment; hints are answered for the text and the stubs in force     *)
(* when they are answered; and a fix is placed in the present text of the  *)
(* one document at its path, which, for a client that keeps the data of    *)
(* findings, is the one the request names, unedited since the finding was  *)
(* published.  No lock is held while the AST or the hints are computed, and*)
(* nothing bounds how many edits come in between.                          *)
THEOREM AnswersStayCurrent == Spec => AnswersCurrent
<1>1. Init => BackendInv
  BY BackendStart
<1>2. BackendInv /\ [Next]_vars => BackendInv'
  BY BackendStep
<1>3. ASSUME BackendInv, [Next]_vars
      PROVE  ParsesStep /\ HintsStep /\ FixesStep
  <2>1. ParseInv /\ [ParseNext]_parseVars
    BY <1>3, PartSteps DEF BackendInv
  <2> SUFFICES ASSUME NEW c \in Callers
      PROVE  LET doc == Active(docs', At(c))
             IN  /\ (call[c].pc \in {"lookup", "parse"}
                        /\ call'[c].file # call[c].file) =>
                       /\ call'[c].file.edit = doc.edit
                       /\ call'[c].file.text = doc.text
                 /\ (call[c].pc # "done" /\ call'[c].answer = "hints") =>
                       /\ call'[c].hints.edit = doc.edit
                       /\ call'[c].hints.text = doc.text
                       /\ call'[c].stubs = stubs
                 /\ (call[c].pc # "done" /\ call'[c].answer = "fixes") =>
                       FixOK(c, doc)
    BY DEF ParsesStep, HintsStep, FixesStep, FixOK
  <2>2. CASE call'[c] = call[c]
    BY <2>1, <2>2, UnansweredStep
  <2>3. CASE CallStep(c)
    BY <2>1, <2>3, AnswerStep
  <2>4. ASSUME NEW u \in Uris, Ask(c, u)
        PROVE  call[c].pc = "idle" /\ call'[c].answer = "none"
    <3>1. call \in [Callers -> Calls] /\ call[c].pc = "idle"
      BY <2>1, <2>4 DEF ParseInv, ParseTypes, Ask, Idle
    <3>2. call'[c].answer = "none"
      BY <2>4, <3>1 DEF Ask, Sets, Idle
    <3> QED  BY <3>1, <3>2
  <2> QED
    BY <2>1, <2>2, <2>3, <2>4, OthersUnanswered
<1>4. ASSUME BackendInv, [Next]_vars
      PROVE  [ParsesStep]_parseVars /\ [HintsStep]_parseVars /\ [FixesStep]_parseVars
  BY <1>3, <1>4
<1> QED
  BY <1>1, <1>2, <1>4, PTL
  DEF Spec, AnswersCurrent, ParsesCurrent, HintsCurrent, FixesCurrent,
      ParsesStep, HintsStep, FixesStep

(* What the extension does beside the server is what it does alone, so the *)
(* theorems about ExtensionSpec are theorems about Spec: no orphan,        *)
(* a truthful status, the server that the settings select.                 *)
THEOREM ExtensionIsPart == Spec => ExtensionSpec
<1>1. Init => ExtensionInit
  BY DEF Init
<1>2. [Next]_vars => [ExtensionNext]_extensionVars
  BY PartSteps
<1> QED
  BY <1>1, <1>2, PTL DEF Spec, ExtensionSpec
==============================================================================
