------------------------------ MODULE BoxModules ------------------------------
(***************************************************************************)
(* The inventories of box modules (ry-checker, box_imports.rs), filled by  *)
(* several checkers at once.  A checker that meets an import of a module   *)
(* without an inventory analyses that module in a nested checker, without  *)
(* the lock; the stack of nested checkers is box_loading, and each keeps   *)
(* whether it met a cycle.  The imports that a module's passes evaluate,   *)
(* and what R rejects, are those of the run's import graph.                *)
(***************************************************************************)
EXTENDS Sequences, Naturals

CONSTANTS Modules, Files, Graphs,
          Checkers      \* worker threads

VARIABLES
    graph, results,     \* as in BoxPromise
    inventories,        \* the cache shared by the checkers
    stacks              \* per checker, the file it checks and the modules
                        \* it is analysing

boxVars == <<graph, results, inventories, stacks>>

Promise == INSTANCE BoxPromise WITH graph <- graph, results <- results

ASSUME BoxAssumption ==
    /\ Files \subseteq Modules
    /\ Graphs \subseteq [imports : [Modules -> SUBSET Modules],
                         readable : SUBSET Modules]

-----------------------------------------------------------------------------

\* An inventory holds what the analysis of the module saw of its imports.
Absent == [kind |-> "absent", sees |-> {}]
Opaque == [kind |-> "opaque", sees |-> {}]
Inventory(set) == [kind |-> "known", sees |-> set]
Known(m) == inventories[m].kind = "known"

\* A checker of one file: the imports still to come, those it has an
\* inventory of, and box_cycle
Frame(m) == [module |-> m, todo |-> graph.imports[m], sees |-> {},
             cycle |-> FALSE]

Busy(c) == stacks[c] # <<>>
Depth(c) == Len(stacks[c])
Top(c) == stacks[c][Depth(c)]

\* box_loading: the file at the bottom is checked in its own right.
Loading(c) == {stacks[c][i].module : i \in 2 .. Depth(c)}

BoxInit ==
    /\ graph \in Graphs
    /\ results = [f \in Files |-> Promise!Unchecked]
    /\ inventories = [m \in Modules |-> Absent]
    /\ stacks = [c \in Checkers |-> <<>>]

\* A free worker takes a file that no other has taken.
Start(c, f) ==
    /\ ~ Busy(c) /\ ~ results[f].checked
    /\ \A d \in Checkers : Busy(d) => stacks[d][1].module # f
    /\ stacks' = [stacks EXCEPT ![c] = <<Frame(f)>>]
    /\ UNCHANGED <<graph, results, inventories>>

\* The nested checker at the top goes on to its import m.
Meets(c, m) == Busy(c) /\ m \in Top(c).todo

\* The top of a stack is done with import m: whether it got an inventory, or
\* met a cycle.
Done(frame, m, got, cycle) ==
    [module |-> frame.module,
     todo   |-> frame.todo \ {m},
     sees   |-> frame.sees \cup (IF got THEN {m} ELSE {}),
     cycle  |-> frame.cycle \/ cycle]

TopDone(stack, m, got, cycle) ==
    [stack EXCEPT ![Len(stack)] = Done(stack[Len(stack)], m, got, cycle)]

Answer(c, m, got, cycle) ==
    /\ stacks' = [stacks EXCEPT ![c] = TopDone(stacks[c], m, got, cycle)]
    /\ UNCHANGED <<graph, results, inventories>>

\* A module that is still loading closes an import cycle.
MeetLoading(c, m) ==
    /\ Meets(c, m) /\ m \in Loading(c)
    /\ Answer(c, m, FALSE, TRUE)

\* A mutant: a cached None is a module that is not there.
MeetCachedNoCycle(c, m) ==
    /\ Meets(c, m) /\ m \notin Loading(c) /\ inventories[m] # Absent
    /\ Answer(c, m, Known(m), FALSE)

MeetCached(c, m) ==
    /\ Meets(c, m) /\ m \notin Loading(c) /\ inventories[m] # Absent
    /\ Answer(c, m, Known(m), ~ Known(m))

\* A mutant: what cannot be read is tried again.
MeetRejectedAgain(c, m) ==
    /\ Meets(c, m) /\ m \notin Loading(c) /\ inventories[m] = Absent
    /\ m \notin graph.readable
    /\ UNCHANGED boxVars

\* A module that is missing, too large or rejected by R has no inventory,
\* and none is cached.
MeetRejected(c, m) ==
    /\ Meets(c, m) /\ m \notin Loading(c) /\ inventories[m] = Absent
    /\ m \notin graph.readable
    /\ Answer(c, m, FALSE, FALSE)

\* A mutant: what is still loading is not looked for.
AnalyseAnyway(c, m) ==
    /\ Meets(c, m) /\ inventories[m] = Absent /\ m \in graph.readable
    /\ stacks' = [stacks EXCEPT ![c] = Append(stacks[c], Frame(m))]
    /\ UNCHANGED <<graph, results, inventories>>

\* The lock is free while the nested checker works.
Analyse(c, m) ==
    /\ Meets(c, m) /\ m \notin Loading(c) /\ inventories[m] = Absent
    /\ m \in graph.readable
    /\ stacks' = [stacks EXCEPT ![c] = Append(stacks[c], Frame(m))]
    /\ UNCHANGED <<graph, results, inventories>>

\* A mutant: the importers of a cycle are told of a module without exports.
ReturnKeepsCycle(stack, opaque) ==
    TopDone(SubSeq(stack, 1, Len(stack) - 1), stack[Len(stack)].module,
            ~ opaque, FALSE)

\* The stack without its top, whose importer gets an inventory or a cycle
Return(stack, opaque) ==
    TopDone(SubSeq(stack, 1, Len(stack) - 1), stack[Len(stack)].module,
            ~ opaque, opaque)

\* The end of a nested analysis
Analysed(c) ==
    /\ Depth(c) > 1 /\ Top(c).todo = {}
    /\ inventories' = [inventories EXCEPT ![Top(c).module] =
                         IF Top(c).cycle THEN Opaque
                         ELSE Inventory(Top(c).sees)]
    /\ stacks' = [stacks EXCEPT ![c] = Return(stacks[c], Top(c).cycle)]
    /\ UNCHANGED <<graph, results>>

Finish(c) ==
    /\ Depth(c) = 1 /\ Top(c).todo = {}
    /\ results' = [results EXCEPT ![Top(c).module] =
                     Promise!Checked(Top(c).sees)]
    /\ stacks' = [stacks EXCEPT ![c] = <<>>]
    /\ UNCHANGED <<graph, inventories>>

Import(c) ==
    \E m \in Modules :
        \/ MeetLoading(c, m) \/ MeetCached(c, m) \/ MeetRejected(c, m)
        \/ Analyse(c, m)

Check(c) ==
    (\E f \in Files : Start(c, f)) \/ Import(c) \/ Analysed(c) \/ Finish(c)

BoxNext == \E c \in Checkers : Check(c)

BoxSpec == BoxInit /\ [][BoxNext]_boxVars

\* A worker thread goes on until no file is left.
BoxFairSpec == BoxSpec /\ \A c \in Checkers : WF_boxVars(Check(c))

-----------------------------------------------------------------------------
(* Properties                                                              *)

Frames == [module : Modules, todo : SUBSET Modules, sees : SUBSET Modules,
           cycle : BOOLEAN]

\* Every variable has its type.
BoxTypeOK ==
    /\ graph \in Graphs
    /\ results \in [Files -> [checked : BOOLEAN, sees : SUBSET Modules]]
    /\ inventories \in [Modules -> [kind : {"absent", "opaque", "known"},
                                    sees : SUBSET Modules]]
    /\ stacks \in [Checkers -> Seq(Frames)]

(* No checker analyses a module within its own analysis, so that the depth *)
(* of nested checkers is bounded by the number of modules.                 *)
NoReentry ==
    \A c \in Checkers : \A i, j \in 2 .. Depth(c) :
        stacks[c][i].module = stacks[c][j].module => i = j

(* None marks exactly the modules that reach an import cycle, whichever    *)
(* checker met them first and wherever in the cycle it began.              *)
CacheIndependent ==
    \A m \in Modules :
        /\ inventories[m] = Opaque => Promise!ReachesCycle(graph, m)
        /\ Known(m) => /\ ~ Promise!ReachesCycle(graph, m)
                       /\ inventories[m].sees = Promise!Visible(graph, m)

(* Concurrent misses may analyse a module twice, with identical results.   *)
Identical ==
    [][\A m \in Modules : inventories[m] # Absent =>
                             inventories'[m] = inventories[m]]_boxVars

(* What a checked file saw of its imports follows from the import graph.   *)
KeepsPromise == Promise!Spec

(* Every file is checked in the end, cycles or not.                        *)
AllChecked == <>(\A f \in Files : results[f].checked)
==============================================================================
