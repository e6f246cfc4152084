------------------------------ MODULE Inference -------------------------------
(***************************************************************************)
(* The inference of ry-checker: the fixpoint of the functions' return      *)
(* types, which takes a body as the set of its paths, and the types along  *)
(* one body.  The two share no state here, so a behaviour follows one.     *)
(***************************************************************************)
EXTENDS Fixpoint, Typing

VARIABLE part    \* the one that a behaviour follows

inferenceVars == <<vars, typingVars, part>>

\* The part that is not followed starts anywhere, and stays there.
InferenceInit ==
    /\ part \in {"returns", "body"}
    /\ part = "returns" => valueOf = CHOOSE v \in [Vars -> Inputs] : TRUE
    /\ part = "body" => /\ program = CHOOSE p \in Programs : TRUE
                        /\ scope = CHOOSE s \in Scopes : TRUE
    /\ Init /\ TypingInit

ReturnsPart == part = "returns" /\ Next /\ UNCHANGED <<typingVars, part>>
BodyPart == part = "body" /\ TypingNext /\ UNCHANGED <<vars, part>>

InferenceNext == ReturnsPart \/ BodyPart

(* The fixpoint is one loop of the calling thread; a program may end after *)
(* any of its statements.                                                  *)
InferenceSpec ==
    /\ InferenceInit /\ [][InferenceNext]_inferenceVars
    /\ WF_inferenceVars(ReturnsPart)

-----------------------------------------------------------------------------
(* The fixpoint ends for every program.                                    *)
FixpointEnds == part = "returns" => Terminates
===============================================================================
