------------------------------ MODULE Components ------------------------------
(***************************************************************************)
(* components_after_dependencies (ry-checker, fixpoint.rs): the strongly   *)
(* connected components of a graph on 1..N, each after those it depends    *)
(* on, by Tarjan's algorithm with a stack of frames of its own.  The order *)
(* in which a node's edges are listed is left open.                        *)
(***************************************************************************)
EXTENDS Integers, FiniteSets, Sequences, FiniteSetsExt

CONSTANT N      \* functions, in the order of their names

ASSUME NAssumption == N \in Nat

Node == 1..N

VARIABLES
    graph,          \* node -> the nodes it depends on
    order, low,     \* node -> when first visited (0: not yet), and the
                    \* earliest such node it can reach on the stack
    stack,          \* nodes without a component
    path,           \* the frames: a node and its edges still to follow
    components      \* the components so far, as sets

searchVars == <<graph, order, low, stack, path, components>>

\* The search has its types.
SearchTypeOK ==
    /\ graph \in [Node -> SUBSET Node]
    /\ order \in [Node -> 0..N] /\ low \in [Node -> 0..N]
    /\ stack \in Seq(Node)
    /\ path \in Seq([node : Node, left : SUBSET Node])
    /\ components \in Seq(SUBSET Node)

Visited == {n \in Node : order[n] # 0}
OnStack == {stack[i] : i \in DOMAIN stack}
Searched == Visited = Node /\ path = <<>>

NoSearch == /\ graph = [n \in Node |-> {}]
            /\ order = [n \in Node |-> 0] /\ low = [n \in Node |-> 0]
            /\ stack = <<>> /\ path = <<>> /\ components = <<>>

StartSearch(g) ==
    /\ graph' = g
    /\ order' = [n \in Node |-> 0] /\ low' = [n \in Node |-> 0]
    /\ stack' = <<>> /\ path' = <<>> /\ components' = <<>>

-----------------------------------------------------------------------------

Visit(n, rest) ==
    /\ order' = [order EXCEPT ![n] = Cardinality(Visited) + 1]
    /\ low' = [low EXCEPT ![n] = Cardinality(Visited) + 1]
    /\ stack' = Append(stack, n)
    /\ path' = Append(rest, [node |-> n, left |-> graph[n]])
    /\ UNCHANGED <<graph, components>>

Frame == path[Len(path)]
Outer == SubSeq(path, 1, Len(path) - 1)
Least(a, b) == IF a < b THEN a ELSE b

NextRoot ==
    /\ path = <<>>
    /\ Visited # Node
    /\ Visit(Min(Node \ Visited), <<>>)

\* Mutant: a node whose component is closed still counts
FollowClosedEdge ==
    /\ path # <<>>
    /\ \E target \in Frame.left :
        LET rest == [path EXCEPT ![Len(path)].left = @ \ {target}]
        IN IF target \notin Visited THEN Visit(target, rest)
           ELSE /\ path' = rest
                /\ low' = [low EXCEPT ![Frame.node] = Least(@, order[target])]
                /\ UNCHANGED <<graph, order, stack, components>>

FollowEdge ==
    /\ path # <<>>
    /\ \E target \in Frame.left :
        LET rest == [path EXCEPT ![Len(path)].left = @ \ {target}]
        IN IF target \notin Visited THEN Visit(target, rest)
           ELSE /\ path' = rest
                /\ low' = IF target \in OnStack
                          THEN [low EXCEPT ![Frame.node] = Least(@, order[target])]
                          ELSE low
                /\ UNCHANGED <<graph, order, stack, components>>

\* A node whose edges are followed tells its parent how far it reached, and
\* closes its component if it reached nothing before itself
Close(node) ==
    IF low[node] = order[node]
    THEN LET at == CHOOSE i \in DOMAIN stack : stack[i] = node
         IN /\ components' = Append(components, {stack[i] : i \in at..Len(stack)})
            /\ stack' = SubSeq(stack, 1, at - 1)
    ELSE UNCHANGED <<components, stack>>

LeaveNode ==
    /\ path # <<>>
    /\ Frame.left = {}
    /\ path' = Outer
    /\ low' = IF Outer = <<>> THEN low
              ELSE [low EXCEPT ![Outer[Len(Outer)].node] = Least(@, low[Frame.node])]
    /\ Close(Frame.node)
    /\ UNCHANGED <<graph, order>>

Search == NextRoot \/ FollowEdge \/ LeaveNode

-----------------------------------------------------------------------------

\* What has m and each node that one of its nodes depends on, has n.
Reaches(m, n) ==
    \A S \in SUBSET Node :
        (m \in S /\ \A k \in S : graph[k] \subseteq S) => n \in S

SameComponent(m, n) == Reaches(m, n) /\ Reaches(n, m)

\* At the end the components are the classes of nodes that reach each other,
\* and no component depends on a later one: a callee is settled before its
\* callers, whatever order the calls are listed in.
ComponentsOrdered ==
    Searched =>
        /\ UNION {components[i] : i \in DOMAIN components} = Node
        /\ \A i, j \in DOMAIN components :
            \A m \in components[i], n \in components[j] :
                /\ (i = j) <=> SameComponent(m, n)
                /\ j > i => n \notin graph[m]
=============================================================================
