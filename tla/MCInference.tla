------------------------------ MODULE MCInference -----------------------------
(* Three functions, and every program over the bodies below; two variables *)
(* and values of each kind that operators tell apart.                      *)
EXTENDS Inference

P(k, f, m) == [kind |-> k, callee |-> f, method |-> m]
Own == P("own", 1, 1)
Call(f) == P("call", f, 1)
Lists(f) == P("list", f, 1)

\* Calls and lists of them, with and without a path that ends the recursion
StaticBodies == {{Own}} \cup {{Call(f)} : f \in 1..3} \cup {{Own, Call(f)} : f \in 1..3}
          \cup {{Lists(f)} : f \in 1..3} \cup {{Own, Lists(f)} : f \in 1..3}
          \cup {{Call(1), Call(2)}, {Call(1), Call(3)}, {Call(2), Call(3)}}

\* Reads that depend on a type, attachments, evaluation modes
DependentBodies == {{Own}, {P("package", 1, 1)}}
             \cup {{Lists(f)} : f \in 1..3}
             \cup {{P("attach", 1, 1), Call(f)} : f \in 1..3}
             \cup {{P("forward", f, 1)} : f \in 1..3}
             \cup {{P("method", f, m)} : f, m \in 1..3}

\* The third function has fewer bodies than the others
Thirds == {{Own}, {Call(1)}, {Call(2)}, {Lists(1)}, {Own, Call(2)}, {Call(1), Call(2)}}
MCPrograms == {p \in [1..3 -> StaticBodies] : p[3] \in Thirds}
              \cup {p \in [1..3 -> DependentBodies] :
                     p[3] \in DependentBodies \ {{P("forward", 3, 1)}}}
MCScopes == {1..3, {1, 3}}

\* A call passes a value that the body knows nothing of; literals and c()
MCInputs == {Value("double", 3), Value("NULL", 0), Value("character", 1)}
MCLiterals == {Value("integer", 1), Value("integer", 2), Value("double", 3),
               Value("NULL", 0), Value("character", 1), Value("complex", 1)}

ASSUME MCAssumption == WithinTheRules
===============================================================================
