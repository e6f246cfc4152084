-------------------------- MODULE MCExtensionRuntime --------------------------
(* Small instances of ExtensionRuntime: the bundled binary and another. *)
EXTENDS ExtensionRuntime

MCBinaries == {"bundled", "a"}
==============================================================================
