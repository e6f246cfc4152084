-------------------------------- MODULE RTypes --------------------------------
(***************************************************************************)
(* The types of ry (ry-core, types.rs): lengths, modes and unions, the     *)
(* join of two branches, and the types of operators (ry-checker,           *)
(* infer/binop.rs), together with the values they are about.  A value is   *)
(* known by its mode and length; it has no class.                          *)
(***************************************************************************)
EXTENDS Naturals, FiniteSets

MaxUnionMembers == 4

-----------------------------------------------------------------------------
(* Lengths.  Zero, One and Known(n) are exact; Unknown, Nonempty and       *)
(* AtLeast(n) are lower bounds.                                            *)

Exactly(n) == [exact |-> TRUE, n |-> n]
LowerBound(n) == [exact |-> FALSE, n |-> n]
Zero == Exactly(0)
One == Exactly(1)
UnknownLength == LowerBound(0)
Lengths == [exact : BOOLEAN, n : Nat]

Larger(a, b) == IF a >= b THEN a ELSE b
Smaller(a, b) == IF a <= b THEN a ELSE b

ProvenAboveOne(l) == l.n > 1

\* A mutant: the length of either branch is the longer one's bound.
JoinLengthMax(k, l) == IF k = l THEN k ELSE LowerBound(Larger(k.n, l.n))

JoinLength(k, l) == IF k = l THEN k ELSE LowerBound(Smaller(k.n, l.n))

RefineAtLeast(l, n) == IF l.exact THEN l ELSE LowerBound(Larger(l.n, n))

\* Recycling: an empty operand gives an empty result, otherwise the longer
\* one's length; of Nonempty and a known length only Nonempty is kept.
BinaryLength(k, l) ==
    IF k = Zero \/ l = Zero THEN Zero
    ELSE IF k = One THEN l
    ELSE IF l = One THEN k
    ELSE IF k.n = 0 \/ l.n = 0 THEN UnknownLength
    ELSE IF LowerBound(1) \in {k, l} /\ (k.exact \/ l.exact) THEN LowerBound(1)
    ELSE [exact |-> k.exact /\ l.exact, n |-> Larger(k.n, l.n)]

-----------------------------------------------------------------------------
(* Types.  A union has atomic members; another type has none.              *)

Vectors == {"logical", "integer", "double", "complex", "character", "raw"}
Modes == Vectors \cup {"list", "NULL", "function", "environment", "language"}

Type(mode, length) == [mode |-> mode, length |-> length, members |-> {}]
Scalar(mode) == Type(mode, One)
UnknownType == Type("opaque", UnknownLength)
Null == Type("NULL", Zero)
Fails == Type("fails", UnknownLength)    \* where an operation has no type

Leaves(t) == IF t.mode = "union" THEN t.members ELSE {t}
ModesOf(t) == {m.mode : m \in Leaves(t)}
NonVector(t) == t.mode \in {"opaque", "environment", "language"}

\* The join of all lengths of a set
CommonLength(lengths) ==
    IF Cardinality(lengths) = 1 THEN CHOOSE l \in lengths : TRUE
    ELSE LowerBound(CHOOSE n \in {l.n : l \in lengths} :
                        \A l \in lengths : n <= l.n)

\* A mutant: a union beyond the cap is cut.
UnionOfCut(members) ==
    LET few == IF Cardinality(members) <= MaxUnionMembers THEN members
               ELSE CHOOSE s \in SUBSET members :
                        Cardinality(s) = MaxUnionMembers
    IN  IF Cardinality(few) = 1 THEN CHOOSE t \in few : TRUE
        ELSE [mode |-> "union", length |-> CommonLength({m.length : m \in few}),
              members |-> few]

UnionOf(members) ==
    IF Cardinality(members) > MaxUnionMembers THEN UnknownType
    ELSE IF Cardinality(members) = 1 THEN CHOOSE t \in members : TRUE
    ELSE [mode |-> "union", length |-> CommonLength({m.length : m \in members}),
          members |-> members]

\* An unknown branch leaves nothing but a length above one of both.
Absorbed(l) == Type("opaque", IF ProvenAboveOne(l) THEN l ELSE UnknownLength)

Join(s, t) ==
    IF s.mode = "opaque" \/ t.mode = "opaque"
    THEN Absorbed(JoinLength(s.length, t.length))
    ELSE IF s = t THEN s ELSE UnionOf(Leaves(s) \cup Leaves(t))

\* The join of the results of an operation on members, none of which is a
\* union
JoinAll(set) ==
    IF Cardinality(set) = 1 THEN CHOOSE t \in set : TRUE
    ELSE IF \E t \in set : t.mode = "opaque"
    THEN Absorbed(CommonLength({t.length : t \in set}))
    ELSE UnionOf(set)

-----------------------------------------------------------------------------
(* Operators                                                               *)

Operators == {"+", "/", "%%"}

Among(modes, m, n) == m \in modes \/ n \in modes

\* The first of the modes, from complex down, that either operand has
ArithMode(m, n) ==
    IF Among({"raw"}, m, n) THEN "fails"
    ELSE IF Among({"opaque", "environment"}, m, n) THEN "opaque"
    ELSE IF Among({"language", "character", "list", "function"}, m, n) THEN "fails"
    ELSE IF Among({"complex"}, m, n) THEN "complex"
    ELSE IF Among({"double"}, m, n) THEN "double" ELSE "integer"

ArithAtomic(s, t, op) ==
    LET mode == ArithMode(s.mode, t.mode)
        length == IF s.mode = "NULL" \/ t.mode = "NULL" THEN Zero
                  ELSE BinaryLength(s.length, t.length)
    IN  IF Among({"environment"}, s.mode, t.mode) THEN UnknownType
        ELSE IF mode = "fails" THEN Fails
        ELSE IF Among({"complex"}, s.mode, t.mode) /\ op = "%%" /\ length # Zero
        THEN IF s.length.n > 0 /\ t.length.n > 0 THEN Fails ELSE UnknownType
        ELSE Type(IF mode = "integer" /\ op = "/" THEN "double" ELSE mode, length)

CompareAtomic(s, t) ==
    IF Among({"opaque", "environment", "language"}, s.mode, t.mode)
    THEN Type("opaque", BinaryLength(s.length, t.length))
    ELSE IF Among({"list", "function"}, s.mode, t.mode) THEN Fails
    ELSE Type("logical", BinaryLength(s.length, t.length))

\* A mutant: the operation fails where some pair of members does.
DistributedAny(results) ==
    IF Fails \in results THEN Fails ELSE JoinAll(results \ {Fails})

\* distribute: an operation fails where every pair of members does.
Distributed(results) ==
    IF results = {Fails} THEN Fails ELSE JoinAll(results \ {Fails})

Arith(s, t, op) ==
    Distributed({ArithAtomic(a, b, op) : a \in Leaves(s), b \in Leaves(t)})

\* The leaves of a list are compared; what they are is not followed.
Comparable(t) == IF t.mode = "list" THEN Type("opaque", t.length) ELSE t
Compare(s, t) ==
    Distributed({CompareAtomic(a, b) : a \in Leaves(Comparable(s)),
                                       b \in Leaves(Comparable(t))})
===============================================================================
