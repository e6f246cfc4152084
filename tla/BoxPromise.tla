------------------------------ MODULE BoxPromise ------------------------------
(***************************************************************************)
(* What the checker promises of box modules (ry-checker, box_imports.rs):  *)
(* what a file sees of its imports follows from the import graph alone.    *)
(***************************************************************************)
CONSTANTS
    Modules,    \* source files, by physical identity
    Files,      \* those that are checked
    Graphs      \* import graphs, with the modules that R can parse

VARIABLES
    graph,
    results     \* per checked file, the imports it has an inventory of

Unchecked == [checked |-> FALSE, sees |-> {}]
Checked(set) == [checked |-> TRUE, sees |-> set]

\* Module m reaches an import cycle of graph g: it is in a set of modules
\* each of which imports one of the set.
ReachesCycle(g, m) ==
    \E set \in SUBSET g.readable :
        /\ m \in set
        /\ \A n \in set : g.imports[n] \cap set # {}

\* The imports of m that have an inventory
Visible(g, m) ==
    {n \in g.imports[m] \cap g.readable : ~ ReachesCycle(g, n)}

Init == graph \in Graphs /\ results = [f \in Files |-> Unchecked]

CheckFile(f) ==
    /\ ~ results[f].checked
    /\ results' = [results EXCEPT ![f] = Checked(Visible(graph, f))]
    /\ UNCHANGED graph

Next == \E f \in Files : CheckFile(f)

Spec == Init /\ [][Next]_<<graph, results>>
==============================================================================
