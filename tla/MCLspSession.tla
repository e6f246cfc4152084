---------------------------- MODULE MCLspSession -----------------------------
(* Small instances of LspSession: two paths in one or two nested workspace *)
(* folders; p has two spellings, of which its display path names "up".     *)
EXTENDS LspSession

MCPaths == {"p", "q"}
MCUris == {"up", "up2", "uq"}
MCPathOf == [u \in MCUris |-> IF u = "uq" THEN "q" ELSE "p"]
MCDisplayUri == [p \in MCPaths |-> IF p = "p" THEN "up" ELSE "uq"]

\* The outer root holds both paths, the inner one only q.
MCRoots == {"outer", "inner"}
MCInside == [r \in MCRoots |-> IF r = "outer" THEN {"p", "q"} ELSE {"q"}]
MCDepth == [r \in MCRoots |-> IF r = "outer" THEN 1 ELSE 2]
MCExcludes == {{}, {"q"}}

\* Disks a session starts on: q uses a name that p may define.
MCDisks == {[p \in MCPaths |-> IF p = "q" THEN "uses" ELSE t] :
               t \in {"defines", NoText}}
PlainDisks == {[p \in MCPaths |-> IF p = "p" THEN "plain" ELSE NoText]}

Scenario(ops, left, uris, texts, initial, disks) ==
    [budget |-> [ops |-> ops, left |-> left, uris |-> uris, texts |-> texts],
     folders |-> initial, disks |-> disks]

OneName == {"up", "uq"}
Twins == {"up", "up2"}
UseTexts == {"uses", "defines"}

\* Documents and files change around a workspace folder.
Editing == Scenario({"open", "change", "close", "write", "shutdown"}, 4,
                    OneName, UseTexts, {"outer"}, MCDisks)
\* Its ry.toml, its package metadata and the settings change.
Configuring == Scenario({"open", "close", "config", "metadata", "settings"}, 4,
                        OneName, UseTexts, {"outer"}, MCDisks)
\* Two URIs of one path that no folder holds.
Respelling == Scenario({"open", "change", "close", "settings"}, 5,
                       Twins, {"uses", "plain", "large"}, {}, PlainDisks)
\* Nested folders come and go.
Moving == Scenario({"open", "close", "folders", "write"}, 4,
                   OneName, {"uses"}, {"outer"}, MCDisks)
\* Two URIs of one path that a folder indexes.
Indexed == Scenario({"open", "close", "write"}, 4,
                    Twins, {"uses", "plain"}, {"outer"}, PlainDisks)
\* The folder that holds every document is removed.
Removing == Scenario({"open", "folders"}, 3,
                     OneName, UseTexts, {"outer"}, MCDisks)

\* A folder is added while a document of another one closes. No run has this
\* session: it violates OnlyAnalysed (README, 3).
Adding == Scenario({"open", "close", "config", "folders"}, 4,
                   OneName, {"uses"}, {"outer"},
                   {[p \in MCPaths |-> IF p = "q" THEN "uses" ELSE NoText]})

SessionScenarios == {Editing, Configuring, Respelling, Moving}
TwinScenarios == {Indexed}
RemovalScenarios == {Removing}
AddingScenarios == {Adding}
==============================================================================
