----------------------------- MODULE MCWatchLoop ------------------------------
(* Small instances of WatchLoop: one source, which may be excluded. *)
EXTENDS WatchLoop

MCExcludes == {{}, {"a"}}
==============================================================================
