------------------------------ MODULE Watchers -------------------------------
(***************************************************************************)
(* The registration of the client's file watcher (backend.rs               *)
(* refresh_watchers).  The index writer runs it after every change of the  *)
(* folders or their settings.  The server keeps a record of the custom     *)
(* configuration paths it registered, and the client may refuse to drop    *)
(* the old registration or to take the new one.                            *)
(***************************************************************************)
EXTENDS Naturals

CONSTANTS
    ConfigPaths,    \* the configuration files that settings can name
    MaxRefreshes    \* bound: changes of the folders or their settings

ASSUME WatcherAssumption == MaxRefreshes \in Nat

Nothing == [held |-> FALSE, paths |-> {}]
Watching(paths) == [held |-> TRUE, paths |-> paths]
Registrations == {Nothing} \cup {Watching(ps) : ps \in SUBSET ConfigPaths}

VARIABLES
    custom,      \* custom_config_paths of the present folder contexts
    registered,  \* watcher_paths: the server's record
    held,        \* what the client watches under the registration's id
    asking,      \* the request the writer waits on
    asked,       \* the paths it is about
    refused,     \* whether the client refused anything in the last refresh
    refreshes    \* refreshes so far

watchVars == <<custom, registered, held, asking, asked, refused, refreshes>>

WatchInit ==
    /\ custom = {}
    /\ registered = Nothing /\ held = Nothing
    /\ asking = "nothing" /\ asked = {}
    /\ refused = FALSE
    /\ refreshes = 0

\* A mutant: a registration is never replaced.
RefreshOnce(paths) ==
    /\ asking = "nothing" /\ refreshes < MaxRefreshes
    /\ refreshes' = refreshes + 1
    /\ custom' = paths
    /\ refused' = FALSE
    /\ IF registered.held
       THEN UNCHANGED <<asking, asked>>
       ELSE asked' = paths /\ asking' = "register"
    /\ UNCHANGED <<registered, held>>

\* refresh_watchers, up to its first request to the client
Refresh(paths) ==
    /\ asking = "nothing" /\ refreshes < MaxRefreshes
    /\ refreshes' = refreshes + 1
    /\ custom' = paths
    /\ refused' = FALSE
    /\ IF registered = Watching(paths)
       THEN UNCHANGED <<asking, asked>>
       ELSE /\ asked' = paths
            /\ asking' = IF registered.held THEN "unregister" ELSE "register"
    /\ UNCHANGED <<registered, held>>

Unregistered ==
    /\ asking = "unregister"
    /\ held' = Nothing
    /\ registered' = Nothing
    /\ asking' = "register"
    /\ UNCHANGED <<custom, asked, refused, refreshes>>

\* A mutant: a refusal to unregister is recorded as a success.
UnregisterForgotten ==
    /\ asking = "unregister"
    /\ refused' = TRUE
    /\ registered' = Nothing
    /\ asking' = "nothing" /\ asked' = {}
    /\ UNCHANGED <<custom, held, refreshes>>

UnregisterRefused ==
    /\ asking = "unregister"
    /\ refused' = TRUE
    /\ asking' = "nothing" /\ asked' = {}
    /\ UNCHANGED <<custom, registered, held, refreshes>>

\* The client adds the watchers of the new registration to those it holds
\* under the same id.
Registered ==
    /\ asking = "register"
    /\ held' = Watching(held.paths \cup asked)
    /\ registered' = Watching(asked)
    /\ asking' = "nothing" /\ asked' = {}
    /\ UNCHANGED <<custom, refused, refreshes>>

RegisterRefused ==
    /\ asking = "register"
    /\ refused' = TRUE
    /\ asking' = "nothing" /\ asked' = {}
    /\ UNCHANGED <<custom, registered, held, refreshes>>

Answer == Unregistered \/ UnregisterRefused \/ Registered \/ RegisterRefused

WatchNext == (\E paths \in SUBSET ConfigPaths : Refresh(paths)) \/ Answer

-----------------------------------------------------------------------------
(* Between refreshes the record says what the client watches, whatever it  *)
(* refused: the next refresh then asks for exactly what is missing.        *)
RecordMatchesClient == asking = "nothing" => registered = held

(* Unless the client refused something since, it watches the configuration *)
(* files that the folders name now, and no others.                         *)
WatchesCustom ==
    asking = "nothing" /\ ~ refused /\ refreshes > 0 =>
        held = Watching(custom)
==============================================================================
