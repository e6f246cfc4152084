------------------------------- MODULE Fixpoint -------------------------------
(***************************************************************************)
(* The fixpoint of the functions' return types (ry-checker, fixpoint.rs    *)
(* run_fixpoint_scoped).  Returns start at bottom.  The first pass visits  *)
(* the functions in name order and observes what each reads; later passes  *)
(* visit the components of that graph callee-first and iterate within one. *)
(*                                                                         *)
(* A body is a set of paths.  A path returns a type of its own, what a     *)
(* callee returns, a list around it, what a method returns that a callee's *)
(* class selects, or a value of a package that some body may attach; or    *)
(* its type depends on the evaluation mode that a formal inherits from the *)
(* function it is forwarded to.  Types are the levels of an ascending      *)
(* chain, as a list's schema nests, below Unknown.                         *)
(***************************************************************************)
EXTENDS Components

CONSTANTS Programs,     \* [1..N -> set of paths]
          Scopes,       \* the functions to refine
          MaxPasses,    \* MAX_FIXPOINT_DEPTH
          Height        \* levels of types

Unknown == Height + 1
Bottom == -1
Types == 0..Unknown

Path == [kind : {"own", "call", "list", "method", "attach", "package", "forward"},
         callee : Node, method : Node]

ASSUME FixpointAssumption ==
    /\ MaxPasses \in Nat \ {0} /\ Height \in Nat
    /\ Programs \subseteq [Node -> SUBSET Path] /\ Scopes \subseteq SUBSET Node

VARIABLES
    program, scope,
    returns,        \* return_slots: a function's type, Unknown at bottom
    uncomputed,     \* the functions at bottom
    captures,       \* functions whose formal has an evaluation mode
    attached,       \* a body has attached the package
    callers,        \* function -> the functions that were seen to read it
    pending, evaluationPending,
    passes,
    phase,          \* "pass" | "search" | "visit" | "settle" | "done"
    id,             \* the component at hand
    queue, budget,
    before,         \* attached, at the start of the pass
    widened         \* history: the functions that were widened

vars == <<searchVars, program, scope, returns, uncomputed, captures, attached, callers,
          pending, evaluationPending, passes, phase, id, queue, budget,
          before, widened>>

\* A package value is unknown until the package is attached
PathType(p, ret, bare, caps, att) ==
    LET callee == IF p.callee \in bare THEN Bottom ELSE ret[p.callee]
    IN CASE p.kind \in {"own", "attach"} -> 0
         [] p.kind = "package" -> IF att THEN 0 ELSE Unknown
         [] p.kind = "forward" -> IF p.callee \in caps THEN 1 ELSE 0
         [] p.kind = "call" -> callee
         [] p.kind = "list" -> IF callee \in {Bottom, Unknown} THEN callee ELSE callee + 1
         [] p.kind = "method" ->
                IF callee \in {Bottom, 0, Unknown} THEN callee
                ELSE IF p.method \in bare THEN Bottom ELSE ret[p.method]

PathReads(p, ret, bare) ==
    CASE p.kind \in {"own", "attach", "package"} -> {}
      [] p.kind \in {"forward", "call", "list"} -> {p.callee}
      [] p.kind = "method" ->
            {p.callee} \cup IF p.callee \in bare \/ ret[p.callee] \in {0, Unknown}
                            THEN {} ELSE {p.method}

\* refine_fn_return: the join of the paths that return; a body without one
\* stays at bottom if it read a function at bottom
Attaches(f) == \E p \in program[f] : p.kind = "attach"
Reads(f) == UNION {PathReads(p, returns, uncomputed) : p \in program[f]}
Result(body, ret, bare, caps, att) ==
    LET types == {PathType(p, ret, bare, caps, att) : p \in body} \ {Bottom}
        reads == UNION {PathReads(p, ret, bare) : p \in body}
    IN IF types # {} THEN Max(types)
       ELSE IF reads \cap bare # {} THEN Bottom ELSE Unknown

-----------------------------------------------------------------------------

Init ==
    /\ NoSearch
    /\ program \in Programs /\ scope \in Scopes
    /\ uncomputed = scope /\ pending = scope
    /\ returns = [f \in Node |-> IF f \in scope THEN Unknown ELSE 0]
    /\ captures = {f \in Node : \E p \in program[f] : p.kind = "forward" /\ p.callee = f}
    /\ attached = FALSE /\ before = FALSE
    /\ callers = [f \in Node |-> {}]
    /\ evaluationPending = TRUE
    /\ passes = 0 /\ phase = "pass" /\ id = 0 /\ queue = {} /\ budget = 0
    /\ widened = {}

settings == <<program, scope>>
results == <<returns, uncomputed, widened>>
metadata == <<captures, attached, evaluationPending>>

Settled == pending = {} /\ ~evaluationPending

\* Mutant: the edges the other way round
CallerGraph == callers

\* What each function was seen to read
ReadGraph == [f \in Node |-> {g \in Node : f \in callers[g]}]

\* The first pass has no read graph: it visits single functions by name.
InNameOrder == [i \in 1..Cardinality(pending) |->
                  {f \in pending : Cardinality({g \in pending : g <= f}) = i}]

\* Mutant: the pass is not counted
StartUncountedPass ==
    /\ phase = "pass"
    /\ passes < MaxPasses
    /\ ~Settled
    /\ before' = attached
    /\ id' = 0
    /\ IF passes = 0
       THEN /\ phase' = "visit"
            /\ components' = InNameOrder
            /\ UNCHANGED <<graph, order, low, stack, path>>
       ELSE /\ phase' = "search"
            /\ StartSearch(ReadGraph)
    /\ UNCHANGED <<settings, results, metadata, callers, pending, passes, queue, budget>>

StartPass ==
    /\ phase = "pass"
    /\ passes < MaxPasses
    /\ ~Settled
    /\ passes' = passes + 1
    /\ before' = attached
    /\ id' = 0
    /\ IF passes = 0
       THEN /\ phase' = "visit"
            /\ components' = InNameOrder
            /\ UNCHANGED <<graph, order, low, stack, path>>
       ELSE /\ phase' = "search"
            /\ StartSearch(ReadGraph)
    /\ UNCHANGED <<settings, results, metadata, callers, pending, queue, budget>>

FindComponents ==
    /\ phase = "search"
    /\ Search
    /\ phase' = IF Searched' THEN "visit" ELSE phase
    /\ UNCHANGED <<settings, results, metadata, callers, pending, passes, id,
                   queue, budget, before>>

NextComponent ==
    /\ phase = "visit"
    /\ id < Len(components)
    /\ id' = id + 1
    /\ queue' = components[id'] \cap pending
    /\ pending' = pending \ components[id']
    /\ budget' = MaxPasses * Cardinality(components[id'])
    /\ phase' = "settle"
    /\ UNCHANGED <<searchVars, settings, results, metadata, callers, passes, before>>

Component == components[id]

\* The functions that were seen to read one that changed
CallersOf(changed, seen) == UNION {seen[f] : f \in changed}

\* Mutant: a recursive component is visited once
RequeueOthers(rest, changed, seen) ==
    LET affected == CallersOf(changed, seen)
    IN /\ pending' = pending \cup (affected \ Component)
       /\ queue' = rest

\* The callers of what changed: those of the component are visited again in
\* it, the others in a component of their own
Requeue(rest, changed, seen) ==
    LET affected == CallersOf(changed, seen)
    IN /\ pending' = pending \cup (affected \ Component)
       /\ queue' = rest \cup (affected \cap Component)

\* Mutant: the reads of a function's first visit are all
RecordedOnce(f) ==
    [g \in Node |-> IF g \in Reads(f) /\ \A h \in Node : f \notin callers[h]
                    THEN callers[g] \cup {f} ELSE callers[g]]

\* Each visit adds what it reads
Recorded(f) == [g \in Node |-> IF g \in Reads(f) THEN callers[g] \cup {f} ELSE callers[g]]

\* Mutant: the slot keeps its mark of bottom
StoreAtBottom(f, type) ==
    /\ returns' = [returns EXCEPT ![f] = type]
    /\ UNCHANGED uncomputed

\* store_return: leaving bottom is a change
Store(f, type) ==
    /\ returns' = [returns EXCEPT ![f] = type]
    /\ uncomputed' = uncomputed \ {f}

StoreChanges(f, type) == f \in uncomputed \/ returns[f] # type

Refine ==
    /\ phase = "settle"
    /\ queue # {} /\ budget > 0
    /\ budget' = budget - 1
    /\ LET f == Min(queue)
           seen == Recorded(f)
           type == Result(program[f], returns, uncomputed, captures,
                          attached \/ Attaches(f))
       IN /\ callers' = seen
          /\ attached' = (attached \/ Attaches(f))
          /\ IF type = Bottom
             THEN UNCHANGED <<returns, uncomputed>> /\ Requeue(queue \ {f}, {}, seen)
             ELSE /\ Store(f, type)
                  /\ Requeue(queue \ {f}, IF StoreChanges(f, type) THEN {f} ELSE {}, seen)
    /\ UNCHANGED <<searchVars, settings, captures, evaluationPending, passes,
                   phase, id, before, widened>>

\* A component that has used up its visits
NotYetUnknown == {f \in Component : StoreChanges(f, Unknown)}

Widen ==
    /\ phase = "settle"
    /\ queue # {} /\ budget = 0
    /\ returns' = [f \in Node |-> IF f \in Component THEN Unknown ELSE returns[f]]
    /\ uncomputed' = uncomputed \ Component
    /\ queue' = {}
    /\ pending' = pending \cup (CallersOf(NotYetUnknown, callers) \ Component)
    /\ widened' = widened \cup Component
    /\ phase' = "visit"
    /\ UNCHANGED <<searchVars, settings, metadata, callers, passes, id, budget, before>>

\* Members still at bottom only reach each other: they wait for the next
\* pass if this is the first, and are unknown otherwise
Stuck == Component \cap uncomputed

LeaveComponent ==
    /\ phase = "settle"
    /\ queue = {}
    /\ passes > 1 => Stuck = {}
    /\ pending' = pending \cup Stuck
    /\ phase' = "visit"
    /\ UNCHANGED <<searchVars, settings, results, metadata, callers, passes, id,
                   queue, budget, before>>

\* Mutant: the first pass does not wait for the read graph
SettleStuckAtOnce ==
    /\ phase = "settle"
    /\ queue = {}
    /\ Stuck # {}
    /\ returns' = [f \in Node |-> IF f \in Stuck THEN Unknown ELSE returns[f]]
    /\ uncomputed' = uncomputed \ Stuck
    /\ Requeue({}, Stuck, callers)
    /\ UNCHANGED <<searchVars, settings, metadata, callers, passes, phase, id,
                   budget, before, widened>>

SettleStuck ==
    /\ phase = "settle"
    /\ queue = {}
    /\ passes > 1 /\ Stuck # {}
    /\ returns' = [f \in Node |-> IF f \in Stuck THEN Unknown ELSE returns[f]]
    /\ uncomputed' = uncomputed \ Stuck
    /\ Requeue({}, Stuck, callers)
    /\ UNCHANGED <<searchVars, settings, metadata, callers, passes, phase, id,
                   budget, before, widened>>

\* One step of the inheritance of evaluation modes
Inherited == {f \in Node \ captures :
                \E p \in program[f] : p.kind = "forward" /\ p.callee \in captures}

\* Mutant: only the first pass inherits
ModesOfFirstPass == IF passes = 1 \/ attached # before THEN Inherited ELSE {}

ModesChanged == IF evaluationPending \/ attached # before THEN Inherited ELSE {}

EndPass ==
    /\ phase = "visit"
    /\ id = Len(components)
    /\ LET changed == ModesChanged
       IN /\ captures' = captures \cup changed
          /\ evaluationPending' = (changed # {})
          /\ pending' = pending \cup (changed \cap scope) \cup CallersOf(changed, callers)
                \cup (IF attached # before THEN scope ELSE {})
    /\ phase' = "pass"
    /\ UNCHANGED <<searchVars, settings, results, callers, attached, passes, id,
                   queue, budget, before>>

Finish ==
    /\ phase = "pass"
    /\ passes < MaxPasses => Settled
    /\ uncomputed' = {}
    /\ phase' = "done"
    /\ UNCHANGED <<searchVars, settings, returns, widened, metadata, callers,
                   pending, passes, id, queue, budget, before>>

Next == \/ StartPass \/ FindComponents \/ NextComponent \/ Refine \/ Widen
        \/ LeaveComponent \/ SettleStuck \/ EndPass \/ Finish

Spec == Init /\ [][Next]_vars

\* run_fixpoint is one loop of the calling thread
FairSpec == Spec /\ WF_vars(Next)

-----------------------------------------------------------------------------

\* Types; a function at bottom stores the placeholder.
TypeOK ==
    /\ SearchTypeOK
    /\ program \in Programs /\ scope \subseteq Node
    /\ returns \in [Node -> Types] /\ uncomputed \subseteq scope
    /\ captures \subseteq Node /\ attached \in BOOLEAN /\ before \in BOOLEAN
    /\ callers \in [Node -> SUBSET scope]
    /\ pending \subseteq scope /\ evaluationPending \in BOOLEAN
    /\ passes \in 0..MaxPasses
    /\ phase \in {"pass", "search", "visit", "settle", "done"}
    /\ id \in 0..Len(components) /\ queue \subseteq scope
    /\ budget \in 0..(MaxPasses * N)
    /\ widened \subseteq scope
    /\ \A f \in uncomputed : returns[f] = Unknown

\* What the bodies mean, whatever visits them: the least returns that their
\* paths allow; a function without such a return reaches no known value, is
\* unknown, and its callers see that
Closed(v) ==
    \A f \in scope :
        Result(program[f], [g \in Node |-> IF g \in scope THEN v[g] ELSE returns[g]],
               {g \in scope : v[g] = Bottom}, captures, attached) <= v[f]

LeastOf(vectors) == [f \in scope |-> Min({v[f] : v \in vectors})]

Meaning ==
    LET known == LeastOf({v \in [scope -> Bottom..Unknown] : Closed(v)})
        empty == {f \in scope : known[f] = Bottom}
    IN LeastOf({v \in [scope -> Types] : (\A f \in empty : v[f] = Unknown) /\ Closed(v)})

\* Neither a read that a type selects nor a value that appears on the way
Static == \A f \in Node : \A p \in program[f] : p.kind \notin {"method", "package"}

\* Whatever order the components come in and however few functions a pass
\* visits, every return is the least one: recursion keeps its base case, and
\* no caller that had to be visited again was skipped.
LeastReturns ==
    (phase = "done" /\ Static) => [f \in scope |-> returns[f]] = Meaning

\* At the end no return is stale: inferring a body once more against what is
\* stored yields no more than what is stored for it, and exactly that unless
\* its component was widened.
NothingStale ==
    phase = "done" =>
        \A f \in scope :
            LET type == Result(program[f], returns, {}, captures, attached)
            IN type <= returns[f] /\ (f \notin widened => type = returns[f])

\* From the second pass on the components are callee-first, so a component
\* that was left is not wanted again in its pass: chains of calls settle in
\* one pass, and only what is read for the first time or attached needs more.
CalleesFirst ==
    (passes > 1 /\ phase \in {"visit", "settle"} /\ Static) =>
        pending \cap UNION {components[i] : i \in 1..id} = {}

\* What the incremental checker follows after an edit: every return that a
\* body reads is on record, those outside the scope included.
ReadsRecorded ==
    phase = "done" => \A f \in scope : \A g \in Reads(f) : f \in callers[g]

\* Evaluation modes have reached every function that forwards to a capture,
\* outside the scope as well.
ModesInherited == phase = "done" => Inherited = {}

(* The passes visit the components of the read graph, callees first.       *)
PassesOrdered == TypeOK /\ ComponentsOrdered /\ CalleesFirst

(* What is stored at the end needs no further pass: no return is stale, no *)
(* read is missing, and no evaluation mode is left to inherit.             *)
ResultsSettled == NothingStale /\ ReadsRecorded /\ ModesInherited

\* The loop ends, whatever the functions call.
Terminates == <>(phase = "done")
=============================================================================
