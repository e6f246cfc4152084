-------------------------------- MODULE Typing --------------------------------
(***************************************************************************)
(* The types that ry infers (ry-checker, infer/binop.rs, infer/mod.rs,     *)
(* infer/narrow.rs) against the values that R computes.  A program of      *)
(* assignments, branches, guards and conditions over a few variables is    *)
(* run and typed at once; the run takes one arm of a branch, the types     *)
(* take both.                                                              *)
(***************************************************************************)
EXTENDS RTypes

CONSTANTS
    Vars,
    Inputs,       \* values that a parameter may have
    Literals,     \* values that may be written down
    Predicates,   \* of is.numeric, is.null and is.<mode>
    LengthBounds,       \* the k of length(x) > k
    MaxStatements      \* bound: statements of a program

VARIABLES
    typeOf,        \* per variable, what ry believes
    valueOf,       \* per variable, what R has
    said,         \* the rules ry reported of the last statement that ran
    did,          \* what R did there: "failed", "warned" or "went on"
    statements

typingVars == <<typeOf, valueOf, said, did, statements>>

Values == {v \in [mode : Modes \ {"raw", "environment", "language"}, len : Nat] :
              v.mode = "NULL" => v.len = 0}

ASSUME TypingAssumption ==
    /\ Inputs \subseteq Values /\ Literals \subseteq Values
    /\ Predicates \subseteq
          Vectors \cup {"numeric", "NULL", "function", "list"}
    /\ LengthBounds \subseteq Nat \ {0} /\ MaxStatements \in Nat

-----------------------------------------------------------------------------
(* R                                                                       *)

Value(mode, len) == [mode |-> mode, len |-> len]
RError == Value("error", 0)

Recycled(a, b) == IF a.len = 0 \/ b.len = 0 THEN 0 ELSE Larger(a.len, b.len)
Uneven(a, b) ==
    /\ a.len > 0 /\ b.len > 0
    /\ Larger(a.len, b.len) % Smaller(a.len, b.len) # 0

RArith(a, b, op) ==
    LET both == {a.mode, b.mode}
        len == Recycled(a, b)
    IN  IF \/ both \cap {"character", "raw", "list", "function"} # {}
           \/ (op = "%%" /\ "complex" \in both /\ len > 0)
        THEN RError
        ELSE Value(IF "complex" \in both THEN "complex"
                   ELSE IF "double" \in both \/ op = "/" THEN "double"
                   ELSE "integer", len)

RCompare(a, b) ==
    IF "NULL" \in {a.mode, b.mode} THEN Value("logical", 0)
    ELSE IF \/ "function" \in {a.mode, b.mode}
            \/ (a.mode = "list" /\ b.mode = "list")
    THEN RError
    ELSE Value("logical", Recycled(a, b))

NotLogical == {"character", "list", "function"}
RAnd(a, b) ==
    IF {a.mode, b.mode} \cap NotLogical # {} THEN RError
    ELSE Value("logical", Recycled(a, b))

\* Where the first operand is true; a false one hides the second.
RAndAnd(a, b) ==
    IF \/ {a.mode, b.mode} \cap (NotLogical \cup {"NULL", "raw"}) # {}
       \/ a.len > 1 \/ b.len > 1
    THEN RError ELSE Value("logical", 1)

RBinOp(op, a, b) ==
    CASE op \in Operators -> RArith(a, b, op)
      [] op = "==" -> RCompare(a, b)
      [] op = "&" -> RAnd(a, b)
      [] op = "&&" -> RAndAnd(a, b)

-----------------------------------------------------------------------------
(* Inference                                                               *)

Inferred(type, codes) == [type |-> type, codes |-> codes]

NonDivisibleRecycling(k, l) ==
    /\ k.exact /\ l.exact /\ k.n > 1 /\ l.n > 1
    /\ Larger(k.n, l.n) % Smaller(k.n, l.n) # 0

InferArith(op, s, t) ==
    LET result == Arith(s, t, op)
    IN  IF result = Fails THEN Inferred(UnknownType, {"RY040"})
        ELSE Inferred(result, IF NonDivisibleRecycling(s.length, t.length)
                              THEN {"RY041"} ELSE {})

InferCompare(s, t) ==
    LET result == Compare(s, t)
    IN  IF result = Fails THEN Inferred(UnknownType, {"RY030"})
        ELSE Inferred(result, {})

InferLogic(op, s, t) ==
    IF {s.mode, t.mode} \cap NotLogical # {}
    THEN Inferred(UnknownType, {"RY031"})
    ELSE IF op = "&"
    THEN Inferred(Type("logical", BinaryLength(s.length, t.length)), {})
    ELSE Inferred(Scalar("logical"),
                  IF \E l \in {s.length, t.length} : l.exact /\ l.n > 1
                  THEN {"RY032"} ELSE {})

\* infer_primitive_binop, without its report that an operand is NULL
InferBinOp(op, s, t) ==
    CASE op \in Operators -> InferArith(op, s, t)
      [] op = "==" -> InferCompare(s, t)
      [] op \in {"&", "&&"} -> InferLogic(op, s, t)

\* Whether a type without members is rejected, and what condition_diagnostic
\* makes of a union
RejectedLeaf(t) ==
    \/ t.length = Zero \/ ProvenAboveOne(t.length)
    \/ t.mode \in {"NULL", "list", "function"}
QuietLeaf(t) ==
    /\ ~ RejectedLeaf(t)
    /\ t.mode \in {"logical", "opaque", "environment", "language"}
InvalidCondition(t) ==
    \/ t.length = Zero \/ ProvenAboveOne(t.length)
    \/ /\ \E m \in Leaves(t) : RejectedLeaf(m)
       /\ \A m \in Leaves(t) : QuietLeaf(m) =>
             \E z \in Leaves(t) : z.length = Zero

-----------------------------------------------------------------------------
(* Narrowing: a guard has a test, what it tests for, and whether it is     *)
(* negated.                                                                *)

Guards == [test : {"is"}, of : Predicates, not : BOOLEAN]
          \cup [test : {"length>", "length<="}, of : LengthBounds,
                not : {FALSE}]
          \cup [test : {"length==0"}, of : {0}, not : {FALSE}]
          \cup [test : {"length!=1"}, of : LengthBounds \cap {1}, not : {FALSE}]

\* predicate_target
Target(p) ==
    CASE p = "numeric" -> UnionOf({Scalar("integer"), Scalar("double")})
      [] p = "NULL" -> Null
      [] OTHER -> Scalar(p)

Passes(p, v) == v.mode \in ModesOf(Target(p))
Holds(g, v) ==
    CASE g.test = "is" -> Passes(g.of, v) # g.not
      [] g.test = "length>" -> v.len > g.of
      [] g.test = "length<=" -> v.len <= g.of
      [] g.test = "length==0" -> v.len = 0
      [] g.test = "length!=1" -> v.len # 1

\* A mutant: the guard's own length is installed.
GuardedTypeOwnLength(t, target) == target

\* guarded_type: the length is the value's.
GuardedType(t, target) ==
    [target EXCEPT !.length = IF t.mode = "NULL" /\ target.mode # "NULL"
                              THEN UnknownLength ELSE t.length]

Disjoint(t, target) ==
    /\ target.mode # "NULL"
    /\ ~ NonVector(t) /\ t.mode # "NULL"
    /\ ModesOf(t) \cap ModesOf(target) = {}

\* Where the predicate is true; the guard may have it negated
Positive(t, target, negated) ==
    IF Disjoint(t, target) THEN UnknownType
    ELSE IF \/ NonVector(t)
            \/ (t.mode = "NULL" /\ target.mode # "NULL")
            \/ /\ t.mode = "union"
               /\ negated \/ target.mode = "union" \/ target.mode \in ModesOf(t)
    THEN GuardedType(t, target) ELSE t

\* narrow_away_from_null
NonNull(t) ==
    IF "NULL" \notin ModesOf(t) THEN t
    ELSE LET kept == {m \in Leaves(t) : m.mode # "NULL"}
         IN  IF kept = {} THEN UnknownType ELSE UnionOf(kept)

\* Where the predicate is false
Negative(t, target) ==
    IF target.mode = "NULL" THEN NonNull(t)
    ELSE IF ModesOf(t) \subseteq ModesOf(target) THEN UnknownType ELSE t

RefineLength(t, n) ==
    [t EXCEPT !.length = RefineAtLeast(@, n),
              !.members = {[m EXCEPT !.length = RefineAtLeast(@, n)] : m \in @}]

Narrow(t, g, truth) ==
    CASE g.test = "is" -> IF truth # g.not THEN Positive(t, Target(g.of), g.not)
                          ELSE Negative(t, Target(g.of))
      [] g.test = "length>" /\ truth -> RefineLength(t, g.of + 1)
      [] g.test = "length<=" /\ ~ truth -> RefineLength(t, g.of + 1)
      [] g.test = "length==0" /\ ~ truth -> NonNull(t)
      [] g.test = "length!=1" /\ ~ truth ->
            IF t.mode = "NULL" THEN UnknownType ELSE [t EXCEPT !.length = One]
      [] OTHER -> t

-----------------------------------------------------------------------------
(* Programs                                                                *)

LiteralType(literal) == Type(literal.mode, Exactly(literal.len))

TypingInit ==
    /\ valueOf \in [Vars -> Inputs] /\ typeOf = [v \in Vars |-> UnknownType]
    /\ said = {} /\ did = "went on" /\ statements = 0

Statement ==
    /\ did # "failed" /\ statements < MaxStatements
    /\ statements' = statements + 1

Assign(v) ==
    /\ Statement
    /\ \E l \in Literals : /\ typeOf' = [typeOf EXCEPT ![v] = LiteralType(l)]
                           /\ valueOf' = [valueOf EXCEPT ![v] = l]
    /\ said' = {} /\ did' = "went on"

BinOp(v, op, x, y) ==
    LET r == RBinOp(op, valueOf[x], valueOf[y])
        i == InferBinOp(op, typeOf[x], typeOf[y])
    IN  /\ Statement
        /\ typeOf' = [typeOf EXCEPT ![v] = i.type]
        /\ valueOf' = IF r = RError THEN valueOf ELSE [valueOf EXCEPT ![v] = r]
        /\ said' = i.codes
        /\ did' = IF r = RError THEN "failed"
                  ELSE IF op # "&&" /\ Uneven(valueOf[x], valueOf[y]) THEN "warned"
                  ELSE "went on"

\* if (p) v <- a literal, where nothing is known of p
MayAssign(v) ==
    /\ Statement
    /\ \E l \in Literals :
          /\ typeOf' = [typeOf EXCEPT ![v] = Join(LiteralType(l), @)]
          /\ valueOf' \in {valueOf, [valueOf EXCEPT ![v] = l]}
    /\ said' = {} /\ did' = "went on"

\* if (guard on x) v <- x else v <- y, without else where y is v: a guard's
\* facts hold in its arm.
Branch(g, v, x, y) ==
    /\ Statement
    /\ typeOf' = [typeOf EXCEPT ![v] =
                   Join(Narrow(typeOf[x], g, TRUE),
                        IF x = y THEN Narrow(typeOf[x], g, FALSE)
                        ELSE typeOf[y])]
    /\ valueOf' = [valueOf EXCEPT ![v] = IF Holds(g, valueOf[x]) THEN valueOf[x]
                                       ELSE valueOf[y]]
    /\ said' = {} /\ did' = "went on"

\* if (guard on x) stop(): the facts of its false path hold from here.
StopIf(g, x) ==
    /\ Statement
    /\ ~ Holds(g, valueOf[x])
    /\ typeOf' = [typeOf EXCEPT ![x] = Narrow(@, g, FALSE)]
    /\ said' = {} /\ did' = "went on"
    /\ UNCHANGED valueOf

\* if (x) ...: R wants one value that it can take for a logical; of a string
\* that depends on its text.
Condition(x) ==
    /\ Statement
    /\ said' = IF ~ InvalidCondition(typeOf[x]) THEN {}
                ELSE IF typeOf[x].mode = "union" THEN {"RY001 on a path"}
                ELSE {"RY001"}
    /\ LET v == valueOf[x]
       IN  \/ /\ v.len # 1 \/ v.mode \in NotLogical
              /\ did' = "failed"
           \/ /\ v.len = 1 /\ v.mode \notin {"list", "function"}
              /\ did' = "went on"
    /\ UNCHANGED <<typeOf, valueOf>>

TypingNext ==
    \E v, x \in Vars :
        \/ Assign(v) \/ MayAssign(v) \/ Condition(x)
        \/ \E g \in Guards : StopIf(g, x)
        \/ \E y \in Vars : \/ \E g \in Guards : Branch(g, v, x, y)
                           \/ \E op \in Operators \cup {"==", "&", "&&"} :
                                 BinOp(v, op, x, y)

TypingSpec == TypingInit /\ [][TypingNext]_typingVars

-----------------------------------------------------------------------------
(* Properties                                                              *)

\* What ry's rules are about: its comparisons do not follow lists and report
\* functions, which R compares with NULL; is.numeric narrows to a length of
\* one.
Given == Inputs \cup Literals
WithinTheRules ==
    /\ \A v \in Given : v.mode # "list"
    /\ ~ ({"NULL", "function"} \subseteq {v.mode : v \in Given})
    /\ "numeric" \notin Predicates

Fits(n, l) == IF l.exact THEN n = l.n ELSE n >= l.n
IsOf(v, t) ==
    /\ Fits(v.len, t.length)
    /\ \E m \in Leaves(t) : /\ m.mode \in {v.mode, "opaque"}
                            /\ Fits(v.len, m.length)

(* Every value that R computes is one of the type that ry infers, however  *)
(* often branches were joined and guards passed.                           *)
TypesSound == did # "failed" => \A v \in Vars : IsOf(valueOf[v], typeOf[v])

(* What ry reports as an error is one, and what it says to recycle with a  *)
(* warning does.                                                           *)
NoFalseAlarm ==
    /\ said \cap {"RY001", "RY030", "RY031", "RY032", "RY040"} # {} =>
          did = "failed"
    /\ "RY041" \in said => did # "went on"
===============================================================================
