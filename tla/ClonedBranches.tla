----------------------------- MODULE ClonedBranches -----------------------------
(***************************************************************************)
(* What the branch journal promises, as the repository's own reference for *)
(* it (ry-checker, infer/cloned_scope_reference.rs): each arm of an `if`   *)
(* is walked in a scope of its own, a copy of the scope before the `if`,   *)
(* and the two scopes are joined.                                          *)
(***************************************************************************)
EXTENDS Naturals, Sequences

CONSTANTS InitialScopes, InitialTests, Operations,
          MaxWrites,    \* operations in a walk
          MaxIfs,       \* ifs in a walk
          MaxDepth,     \* ifs within one another
          Here(_),              \* a walk that starts in a scope
          Apply(_, _),          \* one that goes on with an operation
          EnterArm(_, _, _),    \* one that starts with what a test proves
          Join(_, _, _, _)      \* one that goes on with the join of two arms

VARIABLES scope,    \* the scope being walked
          frames,   \* the ifs around the walk: test, arm, the scope before
                    \* the if and, in the else arm, that after the then arm
          steps

absVars == <<scope, frames, steps>>

Top == frames[Len(frames)]

\* The checker walks statements here: not in an else arm that is not there
Walking == frames # <<>> => Top.arm = "then" \/ Top.test.else

Init ==
    /\ scope \in InitialScopes
    /\ frames = <<>>
    /\ steps = [writes |-> 0, ifs |-> 0]

Write ==
    /\ Walking
    /\ steps.writes < MaxWrites
    /\ steps' = [steps EXCEPT !.writes = @ + 1]
    /\ UNCHANGED frames
    /\ \E o \in Operations : scope' = Apply(Here(scope), o).at

EnterIf ==
    /\ Walking
    /\ steps.ifs < MaxIfs
    /\ Len(frames) < MaxDepth
    /\ steps' = [steps EXCEPT !.ifs = @ + 1]
    /\ \E t \in InitialTests :
        /\ frames' = Append(frames, [test |-> t, arm |-> "then",
                                     base |-> scope, then |-> scope])
        /\ scope' = EnterArm(scope, t, "then").at

NextArm ==
    /\ frames # <<>>
    /\ Top.arm = "then"
    /\ frames' = [frames EXCEPT ![Len(frames)] =
            [@ EXCEPT !.arm = "else", !.then = scope]]
    /\ scope' = EnterArm(Top.base, Top.test, "else").at
    /\ UNCHANGED steps

JoinArms ==
    /\ frames # <<>>
    /\ Top.arm = "else"
    /\ frames' = SubSeq(frames, 1, Len(frames) - 1)
    /\ scope' = Join(Here(Top.base), Top.test, Top.then, scope).at
    /\ UNCHANGED steps

Next == Write \/ EnterIf \/ NextArm \/ JoinArms

Spec == Init /\ [][Next]_absVars
=============================================================================
