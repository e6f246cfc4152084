--------------------------- MODULE Inference_proofs ---------------------------
(***************************************************************************)
(* Proofs about Inference.  Typing: for any variables, inputs, literals    *)
(* and programs, a value stays within its inferred type (TypingInv), from  *)
(* one lemma for each operator on lengths and types.  Fixpoint, for any    *)
(* functions, bodies and scopes: what is stored of a function that no      *)
(* visit is due is what its body yields (Current), because a body depends  *)
(* on the slots it was seen to read and on nothing else (DependsOnReads).  *)
(* The search lists each strongly connected component after the ones it    *)
(* reaches (SearchOrdered), so the passes visit callees first; and no      *)
(* visit stores more than the least return (LeastInv), because a body's    *)
(* result grows with what it reads (ResultGrows) and what is stuck at      *)
(* bottom has no other return (StuckIsHollow).                             *)
(***************************************************************************)
EXTENDS Inference, FiniteSetTheorems, TLAPS

(***************************************************************************)
(* Lengths.                                                                *)
(***************************************************************************)

LEMMA ExactFits == \A n : Fits(n, Exactly(n)) /\ Exactly(n).n = n
  BY DEF Fits, Exactly

LEMMA LengthForms ==
  /\ Zero \in Lengths /\ One \in Lengths /\ UnknownLength \in Lengths
  /\ \A n \in Nat : Exactly(n) \in Lengths /\ LowerBound(n) \in Lengths
                    /\ Fits(n, UnknownLength)
  BY DEF Zero, One, UnknownLength, Lengths, Exactly, LowerBound, Fits

\* The join of two lengths fits what either of them fits.
LEMMA JoinLengthFits ==
  ASSUME NEW k \in Lengths, NEW l \in Lengths
  PROVE  /\ JoinLength(k, l) \in Lengths
         /\ \A n \in Nat : Fits(n, k) \/ Fits(n, l) => Fits(n, JoinLength(k, l))
  BY DEF JoinLength, Lengths, LowerBound, Smaller, Fits

\* Recycled values have the length that is inferred for them.
LEMMA BinaryLengthFits ==
  ASSUME NEW k \in Lengths, NEW l \in Lengths
  PROVE  /\ BinaryLength(k, l) \in Lengths
         /\ \A a, b : /\ a.len \in Nat /\ b.len \in Nat
                      /\ Fits(a.len, k) /\ Fits(b.len, l)
                      => Fits(Recycled(a, b), BinaryLength(k, l))
<1>1. BinaryLength(k, l) \in Lengths
  BY DEF BinaryLength, Lengths, Exactly, LowerBound, Zero, One, UnknownLength, Larger
<1>2. ASSUME NEW a, NEW b, a.len \in Nat, b.len \in Nat,
             Fits(a.len, k), Fits(b.len, l)
      PROVE  Fits(Recycled(a, b), BinaryLength(k, l))
  <2>1. CASE k = Zero \/ l = Zero
    <3>1. BinaryLength(k, l) = Zero
      BY <2>1 DEF BinaryLength
    <3> QED BY <1>2, <2>1, <3>1 DEF Exactly, Zero, Fits, Recycled
  <2>2. CASE k # Zero /\ l # Zero /\ (k = One \/ l = One)
    BY <1>2, <2>2 DEF BinaryLength, Lengths, Exactly, Zero, One, Fits, Recycled, Larger
  <2>3. CASE k # Zero /\ l # Zero /\ k # One /\ l # One
    BY <1>2, <2>3 DEF BinaryLength, Lengths, Exactly, LowerBound, Zero, One,
                      UnknownLength, Fits, Recycled, Larger
  <2> QED BY <2>1, <2>2, <2>3
<1> QED BY <1>1, <1>2

\* A value that is long enough fits its length raised to that.
LEMMA RefinedFits ==
  ASSUME NEW l \in Lengths, NEW k \in Nat
  PROVE  /\ RefineAtLeast(l, k) \in Lengths
         /\ \A n \in Nat : Fits(n, l) /\ n >= k => Fits(n, RefineAtLeast(l, k))
  BY DEF RefineAtLeast, Lengths, LowerBound, Larger, Fits

\* A set of numbers has a least one.
LEMMA LeastNumber ==
  ASSUME NEW S \in SUBSET Nat, S # {}
  PROVE  \E m \in S : \A n \in S : m <= n
<1> DEFINE Below(n) == {k \in S : k <= n}
           T == {Below(n) : n \in S}
<1>1. \A n \in S : Below(n) \in FiniteSubsetsOf(S)
  <2>1. ASSUME NEW n \in S PROVE IsFiniteSet(Below(n))
    <3>1. n \in Nat
      OBVIOUS
    <3>2. IsFiniteSet(0 .. n)
      BY <3>1, FS_Interval
    <3>3. \A k \in Below(n) : k \in 0 .. n
      BY <3>1
    <3> QED BY <3>2, <3>3, FS_Subset, Below(n) \in SUBSET (0 .. n)
  <2> QED BY <2>1 DEF FiniteSubsetsOf
<1>2. PICK x \in T : \A y \in T : <<y, x>> \notin StrictSubsetOrdering(S)
  <2>1. T \subseteq FiniteSubsetsOf(S) /\ T # {}
    BY <1>1
  <2> HIDE DEF T
  <2> QED BY <2>1, FS_StrictSubsetOrderingWellFounded, WFMin
<1>3. PICK m \in S : x = Below(m)
  BY <1>2
<1>4. ASSUME NEW n \in S PROVE m <= n
  <2>1. SUFFICES ASSUME n < m PROVE FALSE
    OBVIOUS
  <2>2. Below(n) \in T /\ Below(n) \subseteq Below(m) /\ Below(n) # Below(m)
    <3>1. Below(n) \subseteq Below(m)
      <4>1. SUFFICES ASSUME NEW k \in S, k <= n PROVE k <= m
        OBVIOUS
      <4>2. k \in Nat /\ n \in Nat /\ m \in Nat
        OBVIOUS
      <4> QED BY <2>1, <4>1, <4>2
    <3>2. m \in Below(m) /\ m \notin Below(n)
      BY <2>1
    <3> QED BY <3>1, <3>2
  <2>3. Below(n) \in SUBSET S /\ Below(m) \in SUBSET S
    OBVIOUS
  <2> HIDE DEF Below, T
  <2> QED BY <1>2, <1>3, <2>2, <2>3 DEF StrictSubsetOrdering
<1> QED BY <1>4

\* The common length of some lengths fits what each of them fits.
LEMMA CommonLengthFits ==
  ASSUME NEW L \in SUBSET Lengths, IsFiniteSet(L), L # {}
  PROVE  /\ CommonLength(L) \in Lengths
         /\ \A n \in Nat, l \in L : Fits(n, l) => Fits(n, CommonLength(L))
<1>1. CASE Cardinality(L) = 1
  <2>1. PICK l : L = {l}
    BY <1>1, FS_Singleton
  <2> QED BY <1>1, <2>1 DEF CommonLength
<1>2. CASE Cardinality(L) # 1
  <2> DEFINE B == {l.n : l \in L}
  <2>1. B \in SUBSET Nat /\ B # {}
    BY DEF Lengths
  <2>2. PICK m \in B : \A n \in B : m <= n
    BY <2>1, LeastNumber
  <2> DEFINE least == CHOOSE n \in B : \A l \in L : n <= l.n
  <2>3. least \in B /\ \A l \in L : least <= l.n
    BY <2>2
  <2>4. CommonLength(L) = LowerBound(least)
    BY <1>2 DEF CommonLength
  <2>5. least \in Nat
    BY <2>1, <2>3
  <2> HIDE DEF least
  <2>6. \A n \in Nat, l \in L : Fits(n, l) => Fits(n, CommonLength(L))
    BY <2>3, <2>4, <2>5 DEF Fits, LowerBound, Lengths
  <2>7. CommonLength(L) \in Lengths
    BY <2>4, <2>5, LengthForms
  <2> QED BY <2>6, <2>7
<1> QED BY <1>1, <1>2

-----------------------------------------------------------------------------
(***************************************************************************)
(* Types.  A leaf has a mode of its own and no members, a union has        *)
(* finitely many leaves.                                                   *)
(***************************************************************************)

LeafTypes == [mode : Modes \cup {"opaque"}, length : Lengths, members : {{}}]
UnionTypes == [mode : {"union"}, length : Lengths,
               members : {M \in SUBSET LeafTypes : IsFiniteSet(M)}]
AllTypes == LeafTypes \cup UnionTypes

\* A value as ry's rules take it: its length is a number.
Sized(v) == v.len \in Nat

LEMMA LeafForms ==
  /\ \A m \in Modes \cup {"opaque"}, l \in Lengths : Type(m, l) \in LeafTypes
  /\ UnknownType \in LeafTypes /\ Null \in LeafTypes
  /\ \A t \in LeafTypes : Leaves(t) = {t} /\ t.mode # "union" /\ t.mode # "fails"
  /\ \A v : Sized(v) => IsOf(v, UnknownType)
<1>1. \A m \in Modes \cup {"opaque"}, l \in Lengths : Type(m, l) \in LeafTypes
  BY DEF Type, LeafTypes
<1>2. UnknownType \in LeafTypes /\ Null \in LeafTypes
  BY <1>1, LengthForms DEF UnknownType, Null, Modes
<1>3. \A t \in LeafTypes : Leaves(t) = {t} /\ t.mode # "union" /\ t.mode # "fails"
  BY DEF LeafTypes, Leaves, Modes, Vectors
<1>4. ASSUME NEW v, Sized(v) PROVE IsOf(v, UnknownType)
  <2>1. UnknownType.mode = "opaque" /\ UnknownType.length = UnknownLength
    BY DEF UnknownType, Type
  <2> QED BY <1>2, <1>3, <1>4, <2>1, LengthForms DEF IsOf, Sized
<1> QED BY <1>1, <1>2, <1>3, <1>4

LEMMA UnionForms ==
  \A t \in UnionTypes : /\ Leaves(t) = t.members /\ t.length \in Lengths
                        /\ t.members \in SUBSET LeafTypes /\ IsFiniteSet(t.members)
  BY DEF UnionTypes, Leaves

LEMMA TypeForms ==
  ASSUME NEW t \in AllTypes
  PROVE  /\ t.length \in Lengths /\ Leaves(t) \in SUBSET LeafTypes
         /\ IsFiniteSet(Leaves(t))
<1>1. CASE t \in LeafTypes
  <2>1. Leaves(t) = {t} /\ IsFiniteSet({t})
    BY <1>1, LeafForms, FS_Singleton
  <2>2. t.length \in Lengths
    BY <1>1 DEF LeafTypes
  <2> QED BY <1>1, <2>1, <2>2
<1>2. CASE t \in UnionTypes
  BY <1>2, UnionForms
<1> QED BY <1>1, <1>2 DEF AllTypes

\* What a leaf says of a value
LEMMA LeafOf ==
  ASSUME NEW t \in LeafTypes, NEW v
  PROVE  IsOf(v, t) <=> t.mode \in {v.mode, "opaque"} /\ Fits(v.len, t.length)
  BY LeafForms DEF IsOf

\* A value of a type is one of a leaf.
LEMMA OfSomeLeaf ==
  ASSUME NEW t \in AllTypes, NEW v, IsOf(v, t)
  PROVE  \E m \in Leaves(t) : m \in LeafTypes /\ IsOf(v, m)
<1>1. PICK m \in Leaves(t) : m.mode \in {v.mode, "opaque"} /\ Fits(v.len, m.length)
  BY DEF IsOf
<1>2. m \in LeafTypes
  BY TypeForms
<1> QED BY <1>1, <1>2, LeafOf

\* The lengths of finitely many leaves
LEMMA LeafLengths ==
  ASSUME NEW S \in SUBSET LeafTypes, IsFiniteSet(S)
  PROVE  {t.length : t \in S} \in SUBSET Lengths /\ IsFiniteSet({t.length : t \in S})
<1> DEFINE L == {t.length : t \in S}
           f == [t \in S |-> t.length]
<1>1. f \in Surjection(S, L)
  BY DEF Surjection
<1>2. IsFiniteSet(L)
  <2> HIDE DEF L, f
  <2> QED BY <1>1, FS_Surjection
<1> QED BY <1>2 DEF LeafTypes

LEMMA LeafCommonLength ==
  ASSUME NEW S \in SUBSET LeafTypes, IsFiniteSet(S), S # {}
  PROVE  /\ CommonLength({t.length : t \in S}) \in Lengths
         /\ \A n \in Nat, t \in S :
               Fits(n, t.length) => Fits(n, CommonLength({u.length : u \in S}))
<1> DEFINE L == {t.length : t \in S}
<1>1. L \in SUBSET Lengths /\ IsFiniteSet(L) /\ L # {}
  BY LeafLengths
<1>2. \A t \in S : t.length \in L
  OBVIOUS
<1> HIDE DEF L
<1>3. CommonLength(L) \in Lengths
      /\ \A n \in Nat, l \in L : Fits(n, l) => Fits(n, CommonLength(L))
  BY <1>1, CommonLengthFits
<1> QED BY <1>2, <1>3 DEF L

\* The union of some leaves holds the values of each of them.
LEMMA UnionOfHolds ==
  ASSUME NEW S \in SUBSET LeafTypes, IsFiniteSet(S), S # {}
  PROVE  /\ UnionOf(S) \in AllTypes
         /\ \A v, t : Sized(v) /\ t \in S /\ IsOf(v, t) => IsOf(v, UnionOf(S))
<1>1. CASE Cardinality(S) > MaxUnionMembers
  BY <1>1, LeafForms DEF UnionOf, AllTypes
<1>2. CASE ~ (Cardinality(S) > MaxUnionMembers) /\ Cardinality(S) = 1
  <2>1. PICK t : S = {t}
    BY <1>2, FS_Singleton
  <2>2. UnionOf(S) = t
    BY <1>2, <2>1 DEF UnionOf
  <2> QED BY <2>1, <2>2 DEF AllTypes
<1>3. CASE ~ (Cardinality(S) > MaxUnionMembers) /\ Cardinality(S) # 1
  <2> DEFINE length == CommonLength({m.length : m \in S})
             u == [mode |-> "union", length |-> length, members |-> S]
  <2>1. UnionOf(S) = u
    BY <1>3 DEF UnionOf
  <2>2. length \in Lengths
        /\ \A n \in Nat, t \in S : Fits(n, t.length) => Fits(n, length)
    BY LeafCommonLength
  <2>3. u \in AllTypes
    BY <2>2 DEF AllTypes, UnionTypes
  <2>4. u.length = length /\ Leaves(u) = S
    BY DEF Leaves
  <2>5. ASSUME NEW v, NEW t, Sized(v), t \in S, IsOf(v, t) PROVE IsOf(v, u)
    <3>1. t.mode \in {v.mode, "opaque"} /\ Fits(v.len, t.length)
      BY <2>5, LeafOf
    <3> HIDE DEF u, length
    <3> QED BY <3>1, <2>2, <2>4, <2>5 DEF IsOf, Sized
  <2> QED BY <2>1, <2>3, <2>5
<1> QED BY <1>1, <1>2, <1>3

\* A value of the length that an unknown branch leaves
LEMMA AbsorbedHolds ==
  ASSUME NEW l \in Lengths
  PROVE  /\ Absorbed(l) \in LeafTypes /\ Absorbed(l).mode = "opaque"
         /\ \A v : Sized(v) /\ Fits(v.len, l) => IsOf(v, Absorbed(l))
<1> DEFINE k == IF ProvenAboveOne(l) THEN l ELSE UnknownLength
<1>1. k \in Lengths /\ \A n \in Nat : Fits(n, l) => Fits(n, k)
  BY LengthForms
<1>2. Absorbed(l) = Type("opaque", k)
  BY DEF Absorbed
<1> HIDE DEF k
<1>3. Absorbed(l) \in LeafTypes /\ Absorbed(l).mode = "opaque"
      /\ Absorbed(l).length = k
  BY <1>1, <1>2, LeafForms DEF Type
<1> QED BY <1>1, <1>3, LeafOf DEF Sized

\* The join of two branches holds the values of both.
LEMMA JoinHolds ==
  ASSUME NEW s \in AllTypes, NEW t \in AllTypes
  PROVE  \A v : Sized(v) /\ (IsOf(v, s) \/ IsOf(v, t))
                => Join(s, t) \in AllTypes /\ IsOf(v, Join(s, t))
<1> SUFFICES ASSUME NEW v, Sized(v), IsOf(v, s) \/ IsOf(v, t)
             PROVE  Join(s, t) \in AllTypes /\ IsOf(v, Join(s, t))
  OBVIOUS
<1>1. CASE s.mode = "opaque" \/ t.mode = "opaque"
  <2> DEFINE l == JoinLength(s.length, t.length)
  <2>1. l \in Lengths /\ Fits(v.len, l)
    <3>1. s.length \in Lengths /\ t.length \in Lengths
      BY TypeForms
    <3>2. Fits(v.len, s.length) \/ Fits(v.len, t.length)
      BY DEF IsOf
    <3> QED BY <3>1, <3>2, JoinLengthFits DEF Sized
  <2>2. Join(s, t) = Absorbed(l)
    BY <1>1 DEF Join
  <2> HIDE DEF l
  <2> QED BY <2>1, <2>2, AbsorbedHolds DEF AllTypes
<1>2. CASE ~ (s.mode = "opaque" \/ t.mode = "opaque") /\ s = t
  BY <1>2 DEF Join
<1>3. CASE ~ (s.mode = "opaque" \/ t.mode = "opaque") /\ s # t
  <2> DEFINE S == Leaves(s) \cup Leaves(t)
  <2>1. S \in SUBSET LeafTypes /\ IsFiniteSet(S)
    BY TypeForms, FS_Union
  <2>2. PICK m \in S : IsOf(v, m)
    BY OfSomeLeaf
  <2>3. Join(s, t) = UnionOf(S)
    BY <1>3 DEF Join
  <2> HIDE DEF S
  <2> QED BY <2>1, <2>2, <2>3, UnionOfHolds
<1> QED BY <1>1, <1>2, <1>3

-----------------------------------------------------------------------------
(***************************************************************************)
(* Operators.                                                              *)
(***************************************************************************)

\* The values that the rules speak of: a list's elements are not followed,
\* and a NULL is empty.
Plain(v) == /\ v \in Values /\ v.mode # "list"

LEMMA PlainSized == \A v : Plain(v) => Sized(v)
  BY DEF Plain, Sized, Values

\* What is made of the results of all pairs holds the values of each.
LEMMA JoinAllHolds ==
  ASSUME NEW S \in SUBSET LeafTypes, IsFiniteSet(S), S # {}
  PROVE  /\ JoinAll(S) \in AllTypes
         /\ \A v, t : Sized(v) /\ t \in S /\ IsOf(v, t) => IsOf(v, JoinAll(S))
<1>1. CASE Cardinality(S) = 1
  <2>1. PICK t : S = {t}
    BY <1>1, FS_Singleton
  <2>2. JoinAll(S) = t
    BY <1>1, <2>1 DEF JoinAll
  <2> QED BY <2>1, <2>2 DEF AllTypes
<1>2. CASE Cardinality(S) # 1 /\ \E t \in S : t.mode = "opaque"
  <2> DEFINE l == CommonLength({t.length : t \in S})
  <2>1. l \in Lengths
        /\ \A n \in Nat, t \in S : Fits(n, t.length) => Fits(n, l)
    BY LeafCommonLength
  <2>2. JoinAll(S) = Absorbed(l)
    BY <1>2 DEF JoinAll
  <2> HIDE DEF l
  <2>3. ASSUME NEW v, NEW t, Sized(v), t \in S, IsOf(v, t) PROVE IsOf(v, Absorbed(l))
    <3>1. Fits(v.len, l)
      BY <2>1, <2>3 DEF Sized, IsOf
    <3> QED BY <2>1, <2>3, <3>1, AbsorbedHolds
  <2> QED BY <2>1, <2>2, <2>3, AbsorbedHolds DEF AllTypes
<1>3. CASE Cardinality(S) # 1 /\ ~ \E t \in S : t.mode = "opaque"
  BY <1>3, UnionOfHolds DEF JoinAll
<1> QED BY <1>1, <1>2, <1>3

\* An operation has no type only where no pair of leaves has one, and its type
\* holds the values of every pair that has one.
LEMMA DistributedHolds ==
  ASSUME NEW R \in SUBSET (LeafTypes \cup {Fails}), IsFiniteSet(R), NEW p \in R
  PROVE  /\ Distributed(R) = Fails => p = Fails
         /\ p # Fails => Distributed(R) \in AllTypes
         /\ \A v : Sized(v) /\ p # Fails /\ IsOf(v, p) => IsOf(v, Distributed(R))
<1> SUFFICES ASSUME p # Fails
             PROVE  /\ Distributed(R) # Fails /\ Distributed(R) \in AllTypes
                    /\ \A v : Sized(v) /\ IsOf(v, p) => IsOf(v, Distributed(R))
  OBVIOUS
<1> DEFINE S == R \ {Fails}
<1>1. S \in SUBSET LeafTypes /\ IsFiniteSet(S) /\ p \in S
  BY FS_Subset
<1>2. Distributed(R) = JoinAll(S)
  BY DEF Distributed
<1> HIDE DEF S
<1>3. JoinAll(S) \in AllTypes
      /\ \A v, t : Sized(v) /\ t \in S /\ IsOf(v, t) => IsOf(v, JoinAll(S))
  BY <1>1, JoinAllHolds
<1>4. Fails \notin AllTypes
  <2>1. Fails.mode = "fails"
    BY DEF Fails, Type
  <2> QED BY <2>1, LeafForms DEF AllTypes, UnionTypes
<1> QED BY <1>1, <1>2, <1>3, <1>4

\* The results over the pairs of finitely many leaves are finitely many.
LEMMA ArithPairsFinite ==
  ASSUME NEW A, NEW B, IsFiniteSet(A), IsFiniteSet(B), NEW op
  PROVE  IsFiniteSet({ArithAtomic(a, b, op) : a \in A, b \in B})
<1> DEFINE R == {ArithAtomic(a, b, op) : a \in A, b \in B}
           f == [p \in A \X B |-> ArithAtomic(p[1], p[2], op)]
<1>1. f \in Surjection(A \X B, R)
  <2>1. f \in [A \X B -> R]
    OBVIOUS
  <2>2. ASSUME NEW r \in R PROVE \E p \in A \X B : f[p] = r
    <3>1. PICK a \in A, b \in B : r = ArithAtomic(a, b, op)
      OBVIOUS
    <3>2. f[<<a, b>>] = r
      BY <3>1
    <3> QED BY <3>2
  <2> HIDE DEF R, f
  <2> QED BY <2>1, <2>2 DEF Surjection
<1>2. IsFiniteSet(A \X B)
  BY FS_Product
<1> HIDE DEF R, f
<1>3. IsFiniteSet(R)
  BY <1>1, <1>2, FS_Surjection
<1> QED BY <1>3 DEF R

\* So are those of a comparison.
LEMMA ComparePairsFinite ==
  ASSUME NEW A, NEW B, IsFiniteSet(A), IsFiniteSet(B)
  PROVE  IsFiniteSet({CompareAtomic(a, b) : a \in A, b \in B})
<1> DEFINE R == {CompareAtomic(a, b) : a \in A, b \in B}
           f == [p \in A \X B |-> CompareAtomic(p[1], p[2])]
<1>1. f \in Surjection(A \X B, R)
  <2>1. f \in [A \X B -> R]
    OBVIOUS
  <2>2. ASSUME NEW r \in R PROVE \E p \in A \X B : f[p] = r
    <3>1. PICK a \in A, b \in B : r = CompareAtomic(a, b)
      OBVIOUS
    <3>2. f[<<a, b>>] = r
      BY <3>1
    <3> QED BY <3>2
  <2> HIDE DEF R, f
  <2> QED BY <2>1, <2>2 DEF Surjection
<1>2. IsFiniteSet(A \X B)
  BY FS_Product
<1> HIDE DEF R, f
<1>3. IsFiniteSet(R)
  BY <1>1, <1>2, FS_Surjection
<1> QED BY <1>3 DEF R

LEMMA ArithAtomicTypes ==
  ASSUME NEW s \in LeafTypes, NEW t \in LeafTypes, NEW op
  PROVE  ArithAtomic(s, t, op) \in LeafTypes \cup {Fails}
<1> DEFINE mode == ArithMode(s.mode, t.mode)
           length == IF s.mode = "NULL" \/ t.mode = "NULL" THEN Zero
                     ELSE BinaryLength(s.length, t.length)
           m == IF mode = "integer" /\ op = "/" THEN "double" ELSE mode
<1>1. length \in Lengths
  BY LengthForms, BinaryLengthFits DEF LeafTypes
<1>2. mode # "fails" => m \in Modes \cup {"opaque"}
  BY DEF ArithMode, Modes, Vectors
<1>3. ArithAtomic(s, t, op) \in {UnknownType, Fails}
      \/ (mode # "fails" /\ ArithAtomic(s, t, op) = Type(m, length))
  BY DEF ArithAtomic
<1> HIDE DEF m, length, mode
<1> QED BY <1>1, <1>2, <1>3, LeafForms

LEMMA CompareAtomicTypes ==
  ASSUME NEW s \in LeafTypes, NEW t \in LeafTypes
  PROVE  CompareAtomic(s, t) \in LeafTypes \cup {Fails}
<1>1. BinaryLength(s.length, t.length) \in Lengths
  BY BinaryLengthFits DEF LeafTypes
<1>2. {"opaque", "logical"} \subseteq Modes \cup {"opaque"}
  BY DEF Modes, Vectors
<1> QED BY <1>1, <1>2, LeafForms DEF CompareAtomic

\* One pair of leaves, against the values they stand for: R fails where the
\* operation has no type, and else computes a value of it.
LEMMA ArithAtomicHolds ==
  ASSUME NEW s \in LeafTypes, NEW t \in LeafTypes, NEW op \in Operators,
         NEW v, NEW w, Plain(v), Plain(w), IsOf(v, s), IsOf(w, t)
  PROVE  LET p == ArithAtomic(s, t, op)
             r == RArith(v, w, op)
         IN  /\ p \in LeafTypes \cup {Fails}
             /\ p = Fails => r = RError
             /\ p # Fails /\ r # RError => IsOf(r, p)
<1> DEFINE mode == ArithMode(s.mode, t.mode)
           length == IF s.mode = "NULL" \/ t.mode = "NULL" THEN Zero
                     ELSE BinaryLength(s.length, t.length)
           complex == Among({"complex"}, s.mode, t.mode)
           n == Recycled(v, w)
<1>1. /\ s.mode \in {v.mode, "opaque"} /\ Fits(v.len, s.length)
      /\ t.mode \in {w.mode, "opaque"} /\ Fits(w.len, t.length)
  BY LeafOf
<1>2. /\ v.len \in Nat /\ w.len \in Nat
      /\ v.mode \in {"logical", "integer", "double", "complex", "character",
                      "NULL", "function"}
      /\ w.mode \in {"logical", "integer", "double", "complex", "character",
                      "NULL", "function"}
      /\ v.mode = "NULL" => v.len = 0
      /\ w.mode = "NULL" => w.len = 0
  BY DEF Plain, Values, Modes, Vectors
<1>3. s.length \in Lengths /\ t.length \in Lengths
  BY DEF LeafTypes
<1>4. length \in Lengths /\ n \in Nat /\ Fits(n, length)
  <2>1. n \in Nat
    BY <1>2 DEF Recycled, Larger
  <2>2. CASE s.mode = "NULL" \/ t.mode = "NULL"
    <3>1. v.len = 0 \/ w.len = 0
      BY <1>1, <1>2, <2>2
    <3>2. n = 0 /\ length = Exactly(0)
      BY <2>2, <3>1 DEF Recycled, Zero
    <3> HIDE DEF n, length
    <3> QED BY <3>2, ExactFits, LengthForms
  <2>3. CASE ~ (s.mode = "NULL" \/ t.mode = "NULL")
    BY <1>1, <1>2, <1>3, <2>1, <2>3, BinaryLengthFits
  <2> QED BY <2>2, <2>3
<1>5. s.mode # "environment" /\ t.mode # "environment"
      /\ s.mode # "raw" /\ t.mode # "raw" /\ s.mode # "language" /\ t.mode # "language"
      /\ s.mode # "list" /\ t.mode # "list"
  BY <1>1, <1>2
<1>6. mode \in {"fails", "opaque", "complex", "double", "integer"}
  BY DEF ArithMode
<1>7. ArithAtomic(s, t, op) =
         IF mode = "fails" THEN Fails
         ELSE IF complex /\ op = "%%" /\ length # Zero
         THEN IF s.length.n > 0 /\ t.length.n > 0 THEN Fails ELSE UnknownType
         ELSE Type(IF mode = "integer" /\ op = "/" THEN "double" ELSE mode, length)
  BY <1>5 DEF ArithAtomic, Among
<1> DEFINE error == \/ {v.mode, w.mode} \cap {"character", "raw", "list", "function"} # {}
                    \/ (op = "%%" /\ "complex" \in {v.mode, w.mode} /\ n > 0)
           kind == IF "complex" \in {v.mode, w.mode} THEN "complex"
                   ELSE IF "double" \in {v.mode, w.mode} \/ op = "/" THEN "double"
                   ELSE "integer"
<1>8. RArith(v, w, op) = IF error THEN RError ELSE Value(kind, n)
  BY DEF RArith
<1>9. mode = "fails" => error
  BY <1>1, <1>2, <1>5 DEF ArithMode, Among
<1>10. complex => "complex" \in {v.mode, w.mode}
  BY <1>1 DEF Among
<1>11. mode \notin {"fails", "opaque"} /\ ~ error =>
          kind = (IF mode = "integer" /\ op = "/" THEN "double" ELSE mode)
  BY <1>1, <1>2, <1>5 DEF ArithMode, Among
<1>12. s.length.n > 0 /\ t.length.n > 0 => n > 0
  BY <1>1, <1>2, <1>3 DEF Fits, Lengths, Recycled, Larger
<1> HIDE DEF mode, complex, length, n, error, kind
<1>13. CASE mode = "fails"
  BY <1>7, <1>8, <1>9, <1>13
<1>14. CASE mode # "fails" /\ complex /\ op = "%%" /\ length # Zero
  <2>1. CASE s.length.n > 0 /\ t.length.n > 0
    <3>1. ArithAtomic(s, t, op) = Fails
      BY <1>7, <1>14, <2>1
    <3>2. error
      BY <1>10, <1>12, <1>14, <2>1 DEF error
    <3> QED BY <1>8, <3>1, <3>2
  <2>2. CASE ~ (s.length.n > 0 /\ t.length.n > 0)
    <3>1. ArithAtomic(s, t, op) = UnknownType
      BY <1>7, <1>14, <2>2
    <3>2. UnknownType # Fails
      BY DEF UnknownType, Fails, Type
    <3>3. RArith(v, w, op) # RError => Sized(RArith(v, w, op))
      BY <1>4, <1>8 DEF Sized, Value
    <3> QED BY <3>1, <3>2, <3>3, LeafForms
  <2> QED BY <2>1, <2>2
<1>15. CASE mode # "fails" /\ ~ (complex /\ op = "%%" /\ length # Zero)
  <2> DEFINE m == IF mode = "integer" /\ op = "/" THEN "double" ELSE mode
  <2>1. ArithAtomic(s, t, op) = Type(m, length)
    BY <1>7, <1>15
  <2>2. m \in Modes \cup {"opaque"}
    BY <1>6, <1>15 DEF Modes, Vectors
  <2>3. RArith(v, w, op) # RError =>
           m \in {RArith(v, w, op).mode, "opaque"} /\ RArith(v, w, op).len = n
    BY <1>8, <1>11, <1>15, <1>6 DEF Value
  <2> HIDE DEF m
  <2>4. Type(m, length) \in LeafTypes /\ Type(m, length) # Fails
        /\ Type(m, length).mode = m /\ Type(m, length).length = length
    <3>1. Type(m, length) \in LeafTypes
      BY <1>4, <2>2, LeafForms
    <3>2. Type(m, length).mode = m /\ Type(m, length).length = length
      BY DEF Type
    <3>3. Fails.mode = "fails"
      BY DEF Fails, Type
    <3> QED BY <3>1, <3>2, <3>3, LeafForms
  <2> QED BY <1>4, <2>1, <2>3, <2>4, LeafOf
<1> QED BY <1>13, <1>14, <1>15

\* R returns logical(0) for any comparison with NULL; ry reports one of a
\* function.
NoNullOfFunction(v, w) == {v.mode, w.mode} # {"NULL", "function"}

LEMMA CompareAtomicHolds ==
  ASSUME NEW s \in LeafTypes, NEW t \in LeafTypes,
         NEW v, NEW w, Plain(v), Plain(w), NoNullOfFunction(v, w),
         IsOf(v, s), IsOf(w, t)
  PROVE  LET p == CompareAtomic(s, t)
             r == RCompare(v, w)
         IN  /\ p \in LeafTypes \cup {Fails}
             /\ p = Fails => r = RError
             /\ p # Fails /\ r # RError => IsOf(r, p)
<1> DEFINE length == BinaryLength(s.length, t.length)
           n == Recycled(v, w)
<1>1. /\ s.mode \in {v.mode, "opaque"} /\ Fits(v.len, s.length)
      /\ t.mode \in {w.mode, "opaque"} /\ Fits(w.len, t.length)
  BY LeafOf
<1>2. /\ v.len \in Nat /\ w.len \in Nat
      /\ v.mode # "list" /\ w.mode # "list"
      /\ v.mode = "NULL" => v.len = 0
      /\ w.mode = "NULL" => w.len = 0
  BY DEF Plain, Values
<1>3. length \in Lengths /\ n \in Nat /\ Fits(n, length)
  <2>1. s.length \in Lengths /\ t.length \in Lengths
    BY DEF LeafTypes
  <2>2. n \in Nat
    BY <1>2 DEF Recycled, Larger
  <2> QED BY <1>1, <1>2, <2>1, <2>2, BinaryLengthFits
<1>4. RCompare(v, w) = RError \/ RCompare(v, w) = Value("logical", n)
  <2>1. CASE "NULL" \in {v.mode, w.mode}
    BY <1>2, <2>1 DEF RCompare, Recycled
  <2>2. CASE "NULL" \notin {v.mode, w.mode}
    BY <2>2 DEF RCompare
  <2> QED BY <2>1, <2>2
<1> DEFINE mode == IF Among({"opaque", "environment", "language"}, s.mode, t.mode)
                   THEN "opaque" ELSE "logical"
<1>5. CASE CompareAtomic(s, t) = Type(mode, length)
  <2>1. mode \in Modes \cup {"opaque"} /\ mode \in {"logical", "opaque"}
    BY DEF Modes, Vectors
  <2> HIDE DEF mode, length, n
  <2>2. Type(mode, length) \in LeafTypes /\ Type(mode, length) # Fails
        /\ Type(mode, length).mode = mode /\ Type(mode, length).length = length
    <3>1. Type(mode, length) \in LeafTypes
      BY <1>3, <2>1, LeafForms
    <3>2. Type(mode, length).mode = mode /\ Type(mode, length).length = length
      BY DEF Type
    <3>3. Fails.mode = "fails"
      BY DEF Fails, Type
    <3> QED BY <3>1, <3>2, <3>3, LeafForms
  <2>3. Value("logical", n).mode = "logical" /\ Value("logical", n).len = n
    BY DEF Value
  <2> QED BY <1>3, <1>4, <1>5, <2>1, <2>2, <2>3, LeafOf
<1>6. CASE CompareAtomic(s, t) # Type(mode, length)
  <2>1. /\ ~ Among({"opaque", "environment", "language"}, s.mode, t.mode)
        /\ Among({"list", "function"}, s.mode, t.mode)
        /\ CompareAtomic(s, t) = Fails
    BY <1>6 DEF CompareAtomic
  <2>2. "function" \in {v.mode, w.mode} /\ "NULL" \notin {v.mode, w.mode}
    BY <1>1, <1>2, <2>1 DEF Among, NoNullOfFunction
  <2> QED BY <2>1, <2>2 DEF RCompare
<1> QED BY <1>5, <1>6

\* Where a list's elements are compared the list is taken for anything.
LEMMA ComparableHolds ==
  ASSUME NEW t \in AllTypes, NEW v, IsOf(v, t)
  PROVE  Comparable(t) \in AllTypes /\ IsOf(v, Comparable(t))
<1>1. CASE t.mode = "list"
  <2>1. Comparable(t) \in LeafTypes /\ Comparable(t).mode = "opaque"
        /\ Comparable(t).length = t.length
    BY <1>1, TypeForms, LeafForms DEF Comparable, Type
  <2>2. Fits(v.len, t.length)
    BY DEF IsOf
  <2> QED BY <2>1, <2>2, LeafOf DEF AllTypes
<1>2. CASE t.mode # "list"
  BY <1>2 DEF Comparable
<1> QED BY <1>1, <1>2

\* Of whole types: what distributes over the pairs of their leaves
LEMMA ArithHolds ==
  ASSUME NEW s \in AllTypes, NEW t \in AllTypes, NEW op \in Operators,
         NEW v, NEW w, Plain(v), Plain(w), IsOf(v, s), IsOf(w, t)
  PROVE  LET p == Arith(s, t, op)
             r == RArith(v, w, op)
         IN  /\ p = Fails => r = RError
             /\ r # RError => p \in AllTypes /\ (Sized(r) => IsOf(r, p))
<1> DEFINE R == {ArithAtomic(a, b, op) : a \in Leaves(s), b \in Leaves(t)}
<1>1. PICK a \in Leaves(s) : a \in LeafTypes /\ IsOf(v, a)
  BY OfSomeLeaf
<1>2. PICK b \in Leaves(t) : b \in LeafTypes /\ IsOf(w, b)
  BY OfSomeLeaf
<1> DEFINE p == ArithAtomic(a, b, op)
<1>3. p \in R /\ IsFiniteSet(R)
  <2>1. IsFiniteSet(Leaves(s)) /\ IsFiniteSet(Leaves(t))
    BY TypeForms
  <2>2. IsFiniteSet(R)
    BY <2>1, ArithPairsFinite
  <2> QED BY <2>2
<1>4. CASE p = Fails
  BY <1>1, <1>2, <1>4, ArithAtomicHolds
<1>5. CASE p # Fails
  <2>1. RArith(v, w, op) # RError => IsOf(RArith(v, w, op), p)
    BY <1>1, <1>2, <1>5, ArithAtomicHolds
  <2>2. Arith(s, t, op) = Distributed(R)
    BY DEF Arith
  <2>3. Arith(s, t, op) # Fails /\ Arith(s, t, op) \in AllTypes
        /\ \A r : Sized(r) /\ IsOf(r, p) => IsOf(r, Arith(s, t, op))
    <3>1. R \in SUBSET (LeafTypes \cup {Fails})
      <4>1. ASSUME NEW c \in Leaves(s), NEW d \in Leaves(t)
            PROVE  ArithAtomic(c, d, op) \in LeafTypes \cup {Fails}
        <5>1. c \in LeafTypes /\ d \in LeafTypes
          BY TypeForms
        <5> QED BY <5>1, ArithAtomicTypes
      <4> QED BY <4>1
    <3> HIDE DEF R, p
    <3> QED BY <1>3, <1>5, <2>2, <3>1, DistributedHolds
  <2> QED BY <2>1, <2>3
<1> QED BY <1>4, <1>5

LEMMA CompareHolds ==
  ASSUME NEW s \in AllTypes, NEW t \in AllTypes,
         NEW v, NEW w, Plain(v), Plain(w), NoNullOfFunction(v, w),
         IsOf(v, s), IsOf(w, t)
  PROVE  LET p == Compare(s, t)
             r == RCompare(v, w)
         IN  /\ p = Fails => r = RError
             /\ r # RError => p \in AllTypes /\ (Sized(r) => IsOf(r, p))
<1> DEFINE S == Comparable(s)
           T == Comparable(t)
           R == {CompareAtomic(a, b) : a \in Leaves(S), b \in Leaves(T)}
<1>0. S \in AllTypes /\ T \in AllTypes /\ IsOf(v, S) /\ IsOf(w, T)
  BY ComparableHolds
<1>1. PICK a \in Leaves(S) : a \in LeafTypes /\ IsOf(v, a)
  BY <1>0, OfSomeLeaf
<1>2. PICK b \in Leaves(T) : b \in LeafTypes /\ IsOf(w, b)
  BY <1>0, OfSomeLeaf
<1> DEFINE p == CompareAtomic(a, b)
<1>3. p \in R /\ IsFiniteSet(R)
  <2>1. IsFiniteSet(Leaves(S)) /\ IsFiniteSet(Leaves(T))
    BY <1>0, TypeForms
  <2>2. IsFiniteSet(R)
    BY <2>1, ComparePairsFinite
  <2> QED BY <2>2
<1>4. CASE p = Fails
  BY <1>1, <1>2, <1>4, CompareAtomicHolds
<1>5. CASE p # Fails
  <2>1. RCompare(v, w) # RError => IsOf(RCompare(v, w), p)
    BY <1>1, <1>2, <1>5, CompareAtomicHolds
  <2>2. Compare(s, t) = Distributed(R)
    BY DEF Compare
  <2>3. Compare(s, t) # Fails /\ Compare(s, t) \in AllTypes
        /\ \A r : Sized(r) /\ IsOf(r, p) => IsOf(r, Compare(s, t))
    <3>1. R \in SUBSET (LeafTypes \cup {Fails})
      <4>1. ASSUME NEW c \in Leaves(S), NEW d \in Leaves(T)
            PROVE  CompareAtomic(c, d) \in LeafTypes \cup {Fails}
        <5>1. c \in LeafTypes /\ d \in LeafTypes
          BY <1>0, TypeForms
        <5> QED BY <5>1, CompareAtomicTypes
      <4> QED BY <4>1
    <3> HIDE DEF R, p
    <3> QED BY <1>3, <1>5, <2>2, <3>1, DistributedHolds
  <2> QED BY <2>1, <2>3
<1> QED BY <1>4, <1>5

\* The values that a program has: those it is given and what operators make
MadeModes == {"logical", "integer", "double", "complex"}
HasValue(v) == /\ Plain(v)
               /\ v.mode \in {"NULL", "function"} => v.mode \in {g.mode : g \in Given}

LEMMA ValuesApart ==
  ASSUME WithinTheRules, NEW v, NEW w, HasValue(v), HasValue(w)
  PROVE  Plain(v) /\ Plain(w) /\ NoNullOfFunction(v, w)
  BY DEF WithinTheRules, HasValue, NoNullOfFunction

LEMMA MadeIsValue ==
  \A m \in MadeModes, n \in Nat :
     /\ HasValue(Value(m, n)) /\ Value(m, n).mode = m /\ Value(m, n).len = n
     /\ Value(m, n) # RError
<1> SUFFICES ASSUME NEW m \in MadeModes, NEW n \in Nat
             PROVE  /\ HasValue(Value(m, n)) /\ Value(m, n).mode = m
                    /\ Value(m, n).len = n /\ Value(m, n) # RError
  OBVIOUS
<1>1. Value(m, n).mode = m /\ Value(m, n).len = n /\ RError.mode = "error"
  BY DEF Value, RError
<1>2. Value(m, n) \in Values
  BY DEF Value, Values, MadeModes, Modes, Vectors
<1> QED BY <1>1, <1>2 DEF HasValue, Plain, MadeModes

\* An operator that does not fail makes a value.
LEMMA RMakes ==
  ASSUME NEW v, NEW w, Plain(v), Plain(w), NEW op \in Operators \cup {"==", "&", "&&"}
  PROVE  RBinOp(op, v, w) = RError
         \/ \E m \in MadeModes, n \in Nat : RBinOp(op, v, w) = Value(m, n)
<1>1. Recycled(v, w) \in Nat
  BY DEF Plain, Values, Recycled, Larger
<1>2. CASE op \in Operators
  <2>1. RBinOp(op, v, w) = RArith(v, w, op)
    BY <1>2 DEF RBinOp, Operators
  <2>2. RArith(v, w, op) = RError
        \/ \E m \in MadeModes : RArith(v, w, op) = Value(m, Recycled(v, w))
    BY DEF RArith, MadeModes
  <2> QED BY <1>1, <2>1, <2>2
<1>3. CASE op = "=="
  <2>1. RBinOp(op, v, w) = RCompare(v, w)
    BY <1>3 DEF RBinOp, Operators
  <2>2. RCompare(v, w) \in {RError, Value("logical", 0), Value("logical", Recycled(v, w))}
    BY DEF RCompare
  <2> QED BY <1>1, <2>1, <2>2 DEF MadeModes
<1>4. CASE op = "&"
  <2>1. RBinOp(op, v, w) = RAnd(v, w)
    BY <1>4 DEF RBinOp, Operators
  <2>2. RAnd(v, w) \in {RError, Value("logical", Recycled(v, w))}
    BY DEF RAnd
  <2> QED BY <1>1, <2>1, <2>2 DEF MadeModes
<1>5. CASE op = "&&"
  <2>1. RBinOp(op, v, w) = RAndAnd(v, w)
    BY <1>5 DEF RBinOp, Operators
  <2>2. RAndAnd(v, w) \in {RError, Value("logical", 1)}
    BY DEF RAndAnd
  <2> QED BY <2>1, <2>2 DEF MadeModes
<1> QED BY <1>2, <1>3, <1>4, <1>5

Errors == {"RY001", "RY030", "RY031", "RY032", "RY040"}

\* What ry infers of an operator holds what R computes, what it reports as an
\* error is one, and lengths that do not divide are as it says.
LEMMA InferBinOpHolds ==
  ASSUME NEW s \in AllTypes, NEW t \in AllTypes,
         NEW op \in Operators \cup {"==", "&", "&&"},
         NEW v, NEW w, Plain(v), Plain(w), NoNullOfFunction(v, w),
         IsOf(v, s), IsOf(w, t)
  PROVE  LET i == InferBinOp(op, s, t)
             r == RBinOp(op, v, w)
         IN  /\ r # RError => i.type \in AllTypes /\ IsOf(r, i.type)
             /\ i.codes \cap Errors # {} => r = RError
             /\ "RY041" \in i.codes => op # "&&" /\ Uneven(v, w)
<1> DEFINE i == InferBinOp(op, s, t)
           r == RBinOp(op, v, w)
<1>0. /\ Fits(v.len, s.length) /\ Fits(w.len, t.length)
      /\ s.length \in Lengths /\ t.length \in Lengths
      /\ v.len \in Nat /\ w.len \in Nat
  BY TypeForms DEF IsOf, Plain, Values
<1>1. \A x, c : Inferred(x, c).type = x /\ Inferred(x, c).codes = c
  BY DEF Inferred
<1>2. r # RError => Sized(r)
  BY RMakes, MadeIsValue DEF Sized
<1>3. Sized(r) => UnknownType \in AllTypes /\ IsOf(r, UnknownType)
  BY LeafForms DEF AllTypes
<1>4. CASE op \in Operators
  <2>1. i = InferArith(op, s, t) /\ r = RArith(v, w, op)
    BY <1>4 DEF InferBinOp, RBinOp, Operators
  <2>2. CASE Arith(s, t, op) = Fails
    <3>1. i.codes = {"RY040"}
      BY <1>1, <2>1, <2>2 DEF InferArith
    <3>2. r = RError
      BY <1>4, <2>1, <2>2, ArithHolds
    <3> QED BY <3>1, <3>2
  <2>3. CASE Arith(s, t, op) # Fails
    <3>1. i.type = Arith(s, t, op)
          /\ i.codes = IF NonDivisibleRecycling(s.length, t.length) THEN {"RY041"} ELSE {}
      BY <1>1, <2>1, <2>3 DEF InferArith
    <3>2. NonDivisibleRecycling(s.length, t.length) => Uneven(v, w)
      BY <1>0 DEF NonDivisibleRecycling, Uneven, Fits
    <3>3. r # RError => i.type \in AllTypes /\ IsOf(r, i.type)
      BY <1>2, <1>4, <2>1, <3>1, ArithHolds
    <3>4. op # "&&"
      BY <1>4 DEF Operators
    <3> QED BY <3>1, <3>2, <3>3, <3>4 DEF Errors
  <2> QED BY <2>2, <2>3
<1>5. CASE op = "=="
  <2>1. i = InferCompare(s, t) /\ r = RCompare(v, w)
    BY <1>5 DEF InferBinOp, RBinOp, Operators
  <2>2. CASE Compare(s, t) = Fails
    <3>1. i.codes = {"RY030"}
      BY <1>1, <2>1, <2>2 DEF InferCompare
    <3>2. r = RError
      BY <2>1, <2>2, CompareHolds
    <3> QED BY <3>1, <3>2
  <2>3. CASE Compare(s, t) # Fails
    <3>1. i.type = Compare(s, t) /\ i.codes = {}
      BY <1>1, <2>1, <2>3 DEF InferCompare
    <3>2. r # RError => i.type \in AllTypes /\ IsOf(r, i.type)
      BY <1>2, <2>1, <3>1, CompareHolds
    <3> QED BY <3>1, <3>2
  <2> QED BY <2>2, <2>3
<1>6. CASE op \in {"&", "&&"}
  <2>1. i = InferLogic(op, s, t)
        /\ r = IF op = "&" THEN RAnd(v, w) ELSE RAndAnd(v, w)
    <3>1. i = InferLogic(op, s, t)
      BY <1>6 DEF InferBinOp, Operators
    <3>2. CASE op = "&"
      BY <3>1, <3>2 DEF RBinOp, Operators
    <3>3. CASE op = "&&"
      BY <3>1, <3>3 DEF RBinOp, Operators
    <3> QED BY <1>6, <3>2, <3>3
  <2>2. CASE {s.mode, t.mode} \cap NotLogical # {}
    <3>1. i.codes = {"RY031"}
      BY <1>1, <2>1, <2>2 DEF InferLogic
    <3>2. \A x \in AllTypes : \A y : IsOf(y, x) /\ x.mode \in NotLogical => y.mode = x.mode
      <4> SUFFICES ASSUME NEW x \in AllTypes, NEW y, IsOf(y, x), x.mode \in NotLogical
                   PROVE  y.mode = x.mode
        OBVIOUS
      <4>1. x \in LeafTypes
        BY DEF AllTypes, UnionTypes, NotLogical
      <4> QED BY <4>1, LeafOf DEF NotLogical
    <3>3. {v.mode, w.mode} \cap NotLogical # {}
      BY <2>2, <3>2
    <3>4. r = RError
      BY <2>1, <3>3 DEF RAnd, RAndAnd
    <3> QED BY <3>1, <3>4
  <2>3. CASE {s.mode, t.mode} \cap NotLogical = {} /\ op = "&"
    <3> DEFINE l == BinaryLength(s.length, t.length)
    <3>1. i.type = Type("logical", l) /\ i.codes = {}
      BY <1>1, <2>1, <2>3 DEF InferLogic
    <3>2. r # RError => r = Value("logical", Recycled(v, w))
      BY <2>1, <2>3 DEF RAnd
    <3>3. l \in Lengths /\ Fits(Recycled(v, w), l)
      BY <1>0, BinaryLengthFits
    <3> HIDE DEF l
    <3>4. Type("logical", l) \in LeafTypes /\ Type("logical", l).mode = "logical"
          /\ Type("logical", l).length = l
      BY <3>3, LeafForms DEF Type, Modes, Vectors
    <3>5. Value("logical", Recycled(v, w)).mode = "logical"
          /\ Value("logical", Recycled(v, w)).len = Recycled(v, w)
      BY DEF Value
    <3> QED BY <3>1, <3>2, <3>3, <3>4, <3>5, LeafOf DEF AllTypes
  <2>4. CASE {s.mode, t.mode} \cap NotLogical = {} /\ op = "&&"
    <3>1. i.type = Type("logical", One)
          /\ i.codes = IF \E l \in {s.length, t.length} : l.exact /\ l.n > 1
                       THEN {"RY032"} ELSE {}
      BY <1>1, <2>1, <2>4 DEF InferLogic, Scalar
    <3>2. (\E l \in {s.length, t.length} : l.exact /\ l.n > 1) => r = RError
      BY <1>0, <2>1, <2>4 DEF RAndAnd, Fits
    <3>3. r # RError => r = Value("logical", 1)
      BY <2>1, <2>4 DEF RAndAnd
    <3>4. Type("logical", One) \in LeafTypes /\ Type("logical", One).mode = "logical"
          /\ Type("logical", One).length = One
      BY LengthForms, LeafForms DEF Type, Modes, Vectors
    <3>5. Value("logical", 1).mode = "logical" /\ Value("logical", 1).len = 1
          /\ Fits(1, One)
      BY ExactFits DEF Value, One
    <3>6. r # RError => i.type \in AllTypes /\ IsOf(r, i.type)
      BY <3>1, <3>3, <3>4, <3>5, LeafOf DEF AllTypes
    <3> QED BY <3>1, <3>2, <3>6
  <2> QED BY <1>6, <2>2, <2>3, <2>4
<1> QED BY <1>4, <1>5, <1>6

-----------------------------------------------------------------------------
(***************************************************************************)
(* Guards.                                                                 *)
(***************************************************************************)

\* A predicate other than is.numeric is about one mode.
LEMMA TargetForms ==
  ASSUME WithinTheRules, NEW p \in Predicates
  PROVE  LET target == Target(p)
         IN  /\ target \in LeafTypes /\ target.mode = p
             /\ \A v : Passes(p, v) <=> v.mode = p
<1>1. p \in Modes /\ p # "numeric"
  BY TypingAssumption DEF WithinTheRules, Modes, Vectors
<1>2. Target(p) = IF p = "NULL" THEN Null ELSE Scalar(p)
  BY <1>1 DEF Target
<1>3. Target(p) \in LeafTypes /\ Target(p).mode = p
  BY <1>1, <1>2, LeafForms, LengthForms DEF Null, Scalar, Type
<1>4. ModesOf(Target(p)) = {p}
  BY <1>3, LeafForms DEF ModesOf
<1> QED BY <1>3, <1>4 DEF Passes

\* The guard's mode at the value's length
LEMMA GuardedTypeHolds ==
  ASSUME NEW t \in AllTypes, NEW target \in LeafTypes, NEW v, Sized(v),
         IsOf(v, t), v.mode = target.mode
  PROVE  GuardedType(t, target) \in AllTypes /\ IsOf(v, GuardedType(t, target))
<1> DEFINE l == IF t.mode = "NULL" /\ target.mode # "NULL"
                THEN UnknownLength ELSE t.length
<1>1. l \in Lengths /\ Fits(v.len, l)
  BY LengthForms, TypeForms DEF IsOf, Sized
<1>2. GuardedType(t, target) = [target EXCEPT !.length = l]
  BY DEF GuardedType
<1> HIDE DEF l
<1>3. GuardedType(t, target) \in LeafTypes
      /\ GuardedType(t, target).mode = target.mode
      /\ GuardedType(t, target).length = l
  BY <1>1, <1>2 DEF LeafTypes
<1> QED BY <1>1, <1>3, LeafOf DEF AllTypes

LEMMA PositiveHolds ==
  ASSUME NEW t \in AllTypes, NEW target \in LeafTypes, NEW negated, NEW v, Sized(v),
         IsOf(v, t), v.mode = target.mode
  PROVE  /\ Positive(t, target, negated) \in AllTypes
         /\ IsOf(v, Positive(t, target, negated))
<1>1. Positive(t, target, negated) \in {UnknownType, GuardedType(t, target), t}
  BY DEF Positive
<1>2. UnknownType \in AllTypes /\ IsOf(v, UnknownType)
  BY LeafForms DEF AllTypes
<1> QED BY <1>1, <1>2, GuardedTypeHolds

\* A value other than NULL is of the type without NULL.
LEMMA NonNullHolds ==
  ASSUME NEW t \in AllTypes, NEW v, Sized(v), IsOf(v, t), v.mode # "NULL"
  PROVE  NonNull(t) \in AllTypes /\ IsOf(v, NonNull(t))
<1> DEFINE kept == {m \in Leaves(t) : m.mode # "NULL"}
<1>1. CASE "NULL" \notin ModesOf(t)
  BY <1>1 DEF NonNull
<1>2. CASE "NULL" \in ModesOf(t)
  <2>1. kept \in SUBSET LeafTypes /\ IsFiniteSet(kept)
    BY TypeForms, FS_Subset
  <2>2. PICK m \in Leaves(t) : m \in LeafTypes /\ IsOf(v, m)
    BY OfSomeLeaf
  <2>3. m \in kept
    BY <2>2, LeafOf
  <2>4. NonNull(t) = UnionOf(kept)
    BY <1>2, <2>3 DEF NonNull
  <2> HIDE DEF kept
  <2> QED BY <2>1, <2>2, <2>3, <2>4, UnionOfHolds
<1> QED BY <1>1, <1>2

LEMMA NegativeHolds ==
  ASSUME NEW t \in AllTypes, NEW target \in LeafTypes, NEW v, Sized(v),
         IsOf(v, t), v.mode # target.mode
  PROVE  Negative(t, target) \in AllTypes /\ IsOf(v, Negative(t, target))
<1>1. CASE target.mode = "NULL"
  BY <1>1, NonNullHolds DEF Negative
<1>2. CASE target.mode # "NULL"
  <2>1. Negative(t, target) \in {UnknownType, t}
    BY <1>2 DEF Negative
  <2>2. UnknownType \in AllTypes /\ IsOf(v, UnknownType)
    BY LeafForms DEF AllTypes
  <2> QED BY <2>1, <2>2
<1> QED BY <1>1, <1>2

LEMMA RefinedLeaf ==
  ASSUME NEW m \in LeafTypes, NEW k \in Nat
  PROVE  LET u == [m EXCEPT !.length = RefineAtLeast(@, k)]
         IN  /\ u \in LeafTypes /\ u.mode = m.mode /\ u.length = RefineAtLeast(m.length, k)
             /\ \A v : Sized(v) /\ IsOf(v, m) /\ v.len >= k => IsOf(v, u)
<1> DEFINE l == RefineAtLeast(m.length, k)
           u == [m EXCEPT !.length = l]
<1>1. m.length \in Lengths
  BY DEF LeafTypes
<1>2. l \in Lengths /\ \A n \in Nat : Fits(n, m.length) /\ n >= k => Fits(n, l)
  BY <1>1, RefinedFits
<1> HIDE DEF l
<1>3. u \in LeafTypes /\ u.mode = m.mode /\ u.length = l
  BY <1>2 DEF LeafTypes
<1> HIDE DEF u
<1>4. \A v : Sized(v) /\ IsOf(v, m) /\ v.len >= k => IsOf(v, u)
  BY <1>2, <1>3, LeafOf DEF Sized
<1> QED BY <1>3, <1>4 DEF u, l

LEMMA RefineLengthHolds ==
  ASSUME NEW t \in AllTypes, NEW k \in Nat
  PROVE  /\ RefineLength(t, k) \in AllTypes
         /\ \A v : Sized(v) /\ IsOf(v, t) /\ v.len >= k => IsOf(v, RefineLength(t, k))
<1> DEFINE u == RefineLength(t, k)
           l == RefineAtLeast(t.length, k)
           Raised(m) == [m EXCEPT !.length = RefineAtLeast(@, k)]
           M == {Raised(m) : m \in t.members}
<1>1. CASE t \in LeafTypes
  <2>1. t.members = {}
    BY <1>1 DEF LeafTypes
  <2>2. u = Raised(t)
    <3>1. M = {}
      BY <2>1
    <3>2. u = [t EXCEPT !.length = l, !.members = {}]
      BY <3>1 DEF RefineLength
    <3>3. [t EXCEPT !.length = l, !.members = {}] = [t EXCEPT !.length = l]
      BY <1>1, <2>1 DEF LeafTypes
    <3> QED BY <3>2, <3>3
  <2> QED BY <1>1, <2>2, RefinedLeaf DEF AllTypes
<1>2. CASE t \in UnionTypes
  <2>1. t.members \in SUBSET LeafTypes /\ IsFiniteSet(t.members)
        /\ Leaves(t) = t.members /\ t.length \in Lengths
    BY <1>2, UnionForms
  <2>2. \A m \in t.members :
           /\ Raised(m) \in LeafTypes
           /\ \A v : Sized(v) /\ IsOf(v, m) /\ v.len >= k => IsOf(v, Raised(m))
    BY <2>1, RefinedLeaf
  <2>3. IsFiniteSet(M)
    <3> DEFINE f == [m \in t.members |-> Raised(m)]
    <3>1. f \in Surjection(t.members, M)
      BY DEF Surjection
    <3> HIDE DEF f, M
    <3> QED BY <2>1, <3>1, FS_Surjection
  <2>4. u = [t EXCEPT !.length = l, !.members = M]
    BY DEF RefineLength
  <2>5. l \in Lengths /\ \A n \in Nat : Fits(n, t.length) /\ n >= k => Fits(n, l)
    BY <2>1, RefinedFits
  <2>6. M \in SUBSET LeafTypes /\ \A m \in t.members : Raised(m) \in M
    BY <2>2
  <2> HIDE DEF u, l, M, Raised
  <2>7. u \in UnionTypes /\ u.length = l /\ u.members = M
    BY <1>2, <2>3, <2>4, <2>5, <2>6 DEF UnionTypes
  <2>8. Leaves(u) = M
    BY <2>7, UnionForms
  <2>9. ASSUME NEW v, Sized(v), IsOf(v, t), v.len >= k PROVE IsOf(v, u)
    <3>1. PICK m \in t.members : m \in LeafTypes /\ IsOf(v, m)
      BY <2>1, <2>9, OfSomeLeaf DEF AllTypes
    <3>2. Raised(m) \in M /\ Raised(m) \in LeafTypes /\ IsOf(v, Raised(m))
      BY <2>2, <2>6, <2>9, <3>1
    <3>3. Raised(m).mode \in {v.mode, "opaque"} /\ Fits(v.len, Raised(m).length)
      BY <3>2, LeafOf
    <3>4. Fits(v.len, l)
      BY <2>5, <2>9 DEF IsOf, Sized
    <3> QED BY <2>7, <2>8, <3>2, <3>3, <3>4 DEF IsOf
  <2> QED BY <2>7, <2>9 DEF AllTypes, u
<1> QED BY <1>1, <1>2 DEF AllTypes

\* A guard leaves a type either way.
LEMMA NarrowTypes ==
  ASSUME WithinTheRules,
         NEW t \in AllTypes, NEW g \in Guards, NEW truth \in BOOLEAN
  PROVE  Narrow(t, g, truth) \in AllTypes
<1>1. UnknownType \in AllTypes
  BY LeafForms DEF AllTypes
<1>2. NonNull(t) \in AllTypes
  <2> DEFINE kept == {m \in Leaves(t) : m.mode # "NULL"}
  <2>1. kept \in SUBSET LeafTypes /\ IsFiniteSet(kept)
    BY TypeForms, FS_Subset
  <2>2. NonNull(t) \in {t, UnknownType} \/ (kept # {} /\ NonNull(t) = UnionOf(kept))
    BY DEF NonNull
  <2> HIDE DEF kept
  <2> QED BY <1>1, <2>1, <2>2, UnionOfHolds
<1>3. [t EXCEPT !.length = One] \in AllTypes
  <2>1. CASE t \in LeafTypes
    BY <2>1, LengthForms DEF AllTypes, LeafTypes
  <2>2. CASE t \in UnionTypes
    BY <2>2, LengthForms DEF AllTypes, UnionTypes
  <2> QED BY <2>1, <2>2 DEF AllTypes
<1>4. CASE g.test = "is"
  <2>1. g.of \in Predicates /\ g.not \in BOOLEAN
    BY <1>4 DEF Guards
  <2> DEFINE target == Target(g.of)
  <2>2. target \in LeafTypes
    BY <2>1, TargetForms
  <2> HIDE DEF target
  <2>3. GuardedType(t, target) \in AllTypes
    <3>1. t.length \in Lengths /\ UnknownLength \in Lengths
      BY TypeForms, LengthForms
    <3>2. PICK l \in Lengths : GuardedType(t, target) = [target EXCEPT !.length = l]
      BY <3>1 DEF GuardedType
    <3> QED BY <2>2, <3>2 DEF LeafTypes, AllTypes
  <2>4. Positive(t, target, g.not) \in {UnknownType, GuardedType(t, target), t}
    BY DEF Positive
  <2>5. Negative(t, target) \in {UnknownType, NonNull(t), t}
    BY DEF Negative
  <2>6. Narrow(t, g, truth) \in {Positive(t, target, g.not), Negative(t, target)}
    BY <1>4 DEF Narrow, target
  <2> QED BY <1>1, <1>2, <2>3, <2>4, <2>5, <2>6
<1>5. CASE g.test \in {"length>", "length<="}
  <2>1. g.of \in Nat
    BY <1>5, TypingAssumption DEF Guards
  <2>2. RefineLength(t, g.of + 1) \in AllTypes
    BY <2>1, RefineLengthHolds
  <2>3. Narrow(t, g, truth) \in {RefineLength(t, g.of + 1), t}
    <3>1. CASE g.test = "length>" /\ truth
      BY <3>1 DEF Narrow
    <3>2. CASE g.test = "length<=" /\ ~ truth
      BY <3>2 DEF Narrow
    <3>3. CASE ~ (g.test = "length>" /\ truth) /\ ~ (g.test = "length<=" /\ ~ truth)
      BY <1>5, <3>3 DEF Narrow
    <3> QED BY <3>1, <3>2, <3>3
  <2> QED BY <2>2, <2>3
<1>6. CASE g.test = "length==0"
  <2>1. Narrow(t, g, truth) \in {NonNull(t), t}
    BY <1>6 DEF Narrow
  <2> QED BY <1>2, <2>1
<1>7. CASE g.test = "length!=1"
  <2>1. Narrow(t, g, truth) \in {UnknownType, [t EXCEPT !.length = One], t}
    BY <1>7 DEF Narrow
  <2> QED BY <1>1, <1>3, <2>1
<1> QED BY <1>4, <1>5, <1>6, <1>7 DEF Guards

\* What a guard leaves of a type holds the values for which it goes that way.
LEMMA HoldsIsBoolean ==
  ASSUME NEW g \in Guards, NEW v PROVE Holds(g, v) \in BOOLEAN
<1>1. CASE g.test = "is"
  BY <1>1 DEF Holds
<1>2. CASE g.test = "length>"
  BY <1>2 DEF Holds
<1>3. CASE g.test = "length<="
  BY <1>3 DEF Holds
<1>4. CASE g.test = "length==0"
  BY <1>4 DEF Holds
<1>5. CASE g.test = "length!=1"
  BY <1>5 DEF Holds
<1> QED BY <1>1, <1>2, <1>3, <1>4, <1>5 DEF Guards

LEMMA NarrowHolds ==
  ASSUME WithinTheRules,
         NEW t \in AllTypes, NEW g \in Guards, NEW v, Plain(v), IsOf(v, t),
         NEW truth \in BOOLEAN, Holds(g, v) = truth
  PROVE  Narrow(t, g, truth) \in AllTypes /\ IsOf(v, Narrow(t, g, truth))
<1>0. truth <=> Holds(g, v)
  BY HoldsIsBoolean
<1>1. Sized(v) /\ v.len \in Nat /\ (v.mode = "NULL" => v.len = 0)
  BY PlainSized DEF Plain, Values
<1>2. UnknownType \in AllTypes /\ IsOf(v, UnknownType)
  BY <1>1, LeafForms DEF AllTypes
<1>3. CASE g.test = "is"
  <2>1. g.of \in Predicates /\ g.not \in BOOLEAN
    BY <1>3 DEF Guards
  <2>2. Target(g.of) \in LeafTypes /\ Target(g.of).mode = g.of
        /\ (Passes(g.of, v) <=> v.mode = g.of)
    BY <2>1, TargetForms
  <2>3. Narrow(t, g, truth) = IF truth # g.not THEN Positive(t, Target(g.of), g.not)
                              ELSE Negative(t, Target(g.of))
    BY <1>3 DEF Narrow
  <2>4. Passes(g.of, v) \in BOOLEAN
    BY DEF Passes
  <2>5. Holds(g, v) = (Passes(g.of, v) # g.not)
    BY <1>3 DEF Holds
  <2>6. CASE v.mode = g.of
    <3>1. truth # g.not
      BY <2>1, <2>2, <2>4, <2>5, <2>6
    <3> QED BY <1>1, <2>2, <2>3, <2>6, <3>1, PositiveHolds
  <2>7. CASE v.mode # g.of
    <3>1. truth = g.not
      BY <2>1, <2>2, <2>4, <2>5, <2>7
    <3> QED BY <1>1, <2>2, <2>3, <2>7, <3>1, NegativeHolds
  <2> QED BY <2>6, <2>7
<1>4. CASE g.test = "length>"
  <2>1. g.of \in Nat
    BY <1>4, TypingAssumption DEF Guards
  <2>2. Narrow(t, g, truth) = IF truth THEN RefineLength(t, g.of + 1) ELSE t
    BY <1>4 DEF Narrow
  <2>3. truth => v.len >= g.of + 1
    <3>1. Holds(g, v) <=> v.len > g.of
      BY <1>4 DEF Holds
    <3> QED BY <1>0, <1>1, <2>1, <3>1
  <2> QED BY <1>1, <2>1, <2>2, <2>3, RefineLengthHolds
<1>5. CASE g.test = "length<="
  <2>1. g.of \in Nat
    BY <1>5, TypingAssumption DEF Guards
  <2>2. Narrow(t, g, truth) = IF ~ truth THEN RefineLength(t, g.of + 1) ELSE t
    BY <1>5 DEF Narrow
  <2>3. ~ truth => v.len >= g.of + 1
    <3>1. Holds(g, v) <=> v.len <= g.of
      BY <1>5 DEF Holds
    <3> QED BY <1>0, <1>1, <2>1, <3>1
  <2> QED BY <1>1, <2>1, <2>2, <2>3, RefineLengthHolds
<1>6. CASE g.test = "length==0"
  <2>1. Narrow(t, g, truth) = IF ~ truth THEN NonNull(t) ELSE t
    BY <1>6 DEF Narrow
  <2>2. ~ truth => v.mode # "NULL"
    BY <1>1, <1>6 DEF Holds
  <2> QED BY <1>1, <2>1, <2>2, NonNullHolds
<1>7. CASE g.test = "length!=1"
  <2>1. Narrow(t, g, truth) =
          IF ~ truth THEN IF t.mode = "NULL" THEN UnknownType ELSE [t EXCEPT !.length = One]
          ELSE t
    BY <1>7 DEF Narrow
  <2>2. ~ truth => v.len = 1
    BY <1>7 DEF Holds
  <2>3. ASSUME ~ truth
        PROVE  [t EXCEPT !.length = One] \in AllTypes /\ IsOf(v, [t EXCEPT !.length = One])
    <3> DEFINE u == [t EXCEPT !.length = One]
    <3>1. Fits(v.len, One)
      BY <2>2, <2>3, ExactFits DEF One
    <3>2. CASE t \in LeafTypes
      <4>1. u \in LeafTypes /\ u.mode = t.mode /\ u.length = One
        BY <3>2, LengthForms DEF LeafTypes
      <4>2. t.mode \in {v.mode, "opaque"}
        BY <3>2, LeafOf
      <4> HIDE DEF u
      <4>3. IsOf(v, u)
        BY <3>1, <4>1, <4>2, LeafOf
      <4> QED BY <4>1, <4>3 DEF AllTypes, u
    <3>3. CASE t \in UnionTypes
      <4>1. u \in UnionTypes /\ u.members = t.members /\ u.length = One
        BY <3>3, LengthForms DEF UnionTypes
      <4> HIDE DEF u
      <4>2. Leaves(u) = Leaves(t)
        BY <3>3, <4>1, UnionForms
      <4>3. IsOf(v, u)
        BY <3>1, <4>1, <4>2 DEF IsOf
      <4> QED BY <4>1, <4>3 DEF AllTypes, u
    <3> QED BY <3>2, <3>3 DEF AllTypes
  <2> QED BY <1>2, <2>1, <2>3
<1> QED BY <1>3, <1>4, <1>5, <1>6, <1>7 DEF Guards

-----------------------------------------------------------------------------
(***************************************************************************)
(* Programs.                                                               *)
(***************************************************************************)

\* Until R has failed every variable has a value, a type, and a value of it.
Typed(t, v) == t \in AllTypes /\ HasValue(v) /\ IsOf(v, t)
TypingInv ==
    did # "failed" => /\ typeOf \in [Vars -> AllTypes]
                      /\ valueOf \in [Vars -> Values]
                      /\ \A x \in Vars : Typed(typeOf[x], valueOf[x])

LEMMA GivenIsTyped ==
  ASSUME WithinTheRules, NEW g \in Given
  PROVE  HasValue(g) /\ g \in Values /\ Typed(LiteralType(g), g)
         /\ Typed(UnknownType, g)
<1>1. g \in Values /\ HasValue(g)
  BY TypingAssumption DEF WithinTheRules, Given, HasValue, Plain
<1>2. g.mode \in Modes /\ g.len \in Nat
  BY <1>1 DEF Values
<1>3. Exactly(g.len) \in Lengths /\ Fits(g.len, Exactly(g.len))
  BY <1>2, LengthForms, ExactFits
<1>4. LiteralType(g) \in LeafTypes /\ LiteralType(g).mode = g.mode
      /\ LiteralType(g).length = Exactly(g.len)
  BY <1>2, <1>3, LeafForms DEF LiteralType, Type
<1>5. IsOf(g, LiteralType(g))
  BY <1>3, <1>4, LeafOf
<1>6. IsOf(g, UnknownType)
  BY <1>2, LeafForms DEF Sized
<1> QED BY <1>1, <1>4, <1>5, <1>6, LeafForms DEF Typed, AllTypes

LEMMA TypingStart == ASSUME WithinTheRules, TypingInit
                     PROVE  TypingInv /\ NoFalseAlarm
<1>1. \A x \in Vars : valueOf[x] \in Given /\ typeOf[x] = UnknownType
  BY DEF TypingInit, Given
<1>2. \A x \in Vars : Typed(typeOf[x], valueOf[x]) /\ valueOf[x] \in Values
  BY <1>1, GivenIsTyped
<1>3. typeOf \in [Vars -> AllTypes]
  BY LeafForms DEF TypingInit, AllTypes
<1>4. valueOf \in [Vars -> Values]
  BY <1>2 DEF TypingInit
<1> QED BY <1>2, <1>3, <1>4 DEF TypingInv, NoFalseAlarm, TypingInit

\* A step that replaces one variable keeps the others typed.
LEMMA OneRetyped ==
  ASSUME NEW x \in Vars, NEW t, NEW v, Typed(t, v),
         typeOf \in [Vars -> AllTypes], valueOf \in [Vars -> Values],
         \A y \in Vars : Typed(typeOf[y], valueOf[y]),
         typeOf' = [typeOf EXCEPT ![x] = t], valueOf' = [valueOf EXCEPT ![x] = v]
  PROVE  TypingInv'
<1>1. t \in AllTypes /\ v \in Values
  BY DEF Typed, HasValue, Plain
<1>2. typeOf' \in [Vars -> AllTypes] /\ valueOf' \in [Vars -> Values]
  BY <1>1
<1>3. \A y \in Vars : Typed(typeOf'[y], valueOf'[y])
  OBVIOUS
<1> QED BY <1>2, <1>3 DEF TypingInv, Typed

LEMMA TypingStep ==
  ASSUME WithinTheRules, TypingInv, TypingNext
  PROVE  TypingInv' /\ NoFalseAlarm'
<1>0. /\ typeOf \in [Vars -> AllTypes] /\ valueOf \in [Vars -> Values]
      /\ \A y \in Vars : Typed(typeOf[y], valueOf[y])
  <2>1. Statement
    <3>1. \A x \in Vars : Assign(x) \/ MayAssign(x) \/ Condition(x) => Statement
      BY DEF Assign, MayAssign, Condition
    <3>2. \A x \in Vars : \A g : StopIf(g, x) => Statement
      BY DEF StopIf
    <3>3. \A v \in Vars, x \in Vars, y \in Vars : \A g : Branch(g, v, x, y) => Statement
      BY DEF Branch
    <3>4. \A v \in Vars, x \in Vars, y \in Vars : \A op : BinOp(v, op, x, y) => Statement
      BY DEF BinOp
    <3> QED BY <3>1, <3>2, <3>3, <3>4 DEF TypingNext
  <2> QED BY <2>1 DEF TypingInv, Statement
<1>1. ASSUME NEW x \in Vars
      PROVE  /\ typeOf[x] \in AllTypes /\ HasValue(valueOf[x]) /\ Plain(valueOf[x])
             /\ IsOf(valueOf[x], typeOf[x]) /\ Sized(valueOf[x])
  BY <1>0, PlainSized DEF Typed, HasValue
<1>2. said' = {} => NoFalseAlarm'
  BY DEF NoFalseAlarm
<1>3. ASSUME NEW v \in Vars, Assign(v) PROVE TypingInv' /\ NoFalseAlarm'
  <2>1. PICK l \in Literals : /\ typeOf' = [typeOf EXCEPT ![v] = LiteralType(l)]
                              /\ valueOf' = [valueOf EXCEPT ![v] = l]
    BY <1>3 DEF Assign
  <2>2. Typed(LiteralType(l), l)
    BY GivenIsTyped DEF Given
  <2>3. TypingInv'
    BY <1>0, <2>1, <2>2, OneRetyped
  <2> QED BY <1>2, <1>3, <2>3 DEF Assign
<1>4. ASSUME NEW v \in Vars, MayAssign(v) PROVE TypingInv' /\ NoFalseAlarm'
  <2>1. PICK l \in Literals :
           /\ typeOf' = [typeOf EXCEPT ![v] = Join(LiteralType(l), typeOf[v])]
           /\ valueOf' \in {valueOf, [valueOf EXCEPT ![v] = l]}
    BY <1>4 DEF MayAssign
  <2>2. Typed(LiteralType(l), l)
    BY GivenIsTyped DEF Given
  <2>3. \A w : HasValue(w) /\ (IsOf(w, LiteralType(l)) \/ IsOf(w, typeOf[v]))
             => Typed(Join(LiteralType(l), typeOf[v]), w)
    BY <1>1, <2>2, JoinHolds, PlainSized DEF Typed, HasValue
  <2>4. valueOf = [valueOf EXCEPT ![v] = valueOf[v]]
    BY <1>0
  <2>5. PICK w \in {l, valueOf[v]} : valueOf' = [valueOf EXCEPT ![v] = w]
    BY <2>1, <2>4
  <2>6. Typed(Join(LiteralType(l), typeOf[v]), w)
    BY <1>1, <2>2, <2>3, <2>5 DEF Typed
  <2>7. TypingInv'
    BY <1>0, <2>1, <2>5, <2>6, OneRetyped
  <2> QED BY <1>2, <1>4, <2>7 DEF MayAssign
<1>5. ASSUME NEW x \in Vars, Condition(x) PROVE TypingInv' /\ NoFalseAlarm'
  <2> DEFINE t == typeOf[x]
             v == valueOf[x]
  <2>1. TypingInv'
    BY <1>0, <1>5 DEF Condition, TypingInv, Typed
  <2>2. \/ v.len # 1 \/ v.mode \in {"list", "function"}
        \/ said' \cap Errors = {}
    <3>1. SUFFICES ASSUME said' \cap Errors # {} PROVE v.len # 1 \/ v.mode \in {"list", "function"}
      OBVIOUS
    <3>2. InvalidCondition(t) /\ t.mode # "union"
      BY <1>5, <3>1 DEF Condition, Errors
    <3>3. t \in LeafTypes
      BY <1>1, <3>2 DEF AllTypes, UnionTypes
    <3>4. RejectedLeaf(t)
      BY <3>2, <3>3, LeafForms DEF InvalidCondition, RejectedLeaf
    <3>5. t.mode \in {v.mode, "opaque"} /\ Fits(v.len, t.length) /\ t.length \in Lengths
      BY <1>1, <3>3, LeafOf DEF LeafTypes
    <3>6. v.len \in Nat /\ (v.mode = "NULL" => v.len = 0)
      BY <1>1 DEF Plain, Values
    <3>7. t.length = Zero => v.len = 0
      BY <3>5 DEF Fits, Zero, Exactly
    <3>8. ProvenAboveOne(t.length) => v.len # 1
      BY <3>5, <3>6 DEF Fits, ProvenAboveOne, Lengths
    <3>9. t.mode \in {"NULL", "list", "function"} => v.len # 1 \/ v.mode \in {"list", "function"}
      BY <3>5, <3>6
    <3> QED BY <3>4, <3>7, <3>8, <3>9 DEF RejectedLeaf
  <2>3. said' \cap Errors # {} => did' = "failed"
    BY <1>5, <2>2 DEF Condition
  <2>4. "RY041" \notin said'
    BY <1>5 DEF Condition
  <2> QED BY <2>1, <2>3, <2>4 DEF NoFalseAlarm, Errors
<1>6. ASSUME NEW x \in Vars, NEW g \in Guards, StopIf(g, x)
      PROVE  TypingInv' /\ NoFalseAlarm'
  <2>1. typeOf' = [typeOf EXCEPT ![x] = Narrow(typeOf[x], g, FALSE)]
        /\ valueOf' = valueOf /\ ~ Holds(g, valueOf[x])
    BY <1>6 DEF StopIf
  <2>2. valueOf' = [valueOf EXCEPT ![x] = valueOf[x]]
    BY <1>0, <2>1
  <2>3. Holds(g, valueOf[x]) = FALSE
    BY <2>1, HoldsIsBoolean
  <2>4. Typed(Narrow(typeOf[x], g, FALSE), valueOf[x])
    BY <1>1, <2>3, NarrowHolds DEF Typed
  <2>5. TypingInv'
    BY <1>0, <2>1, <2>2, <2>4, OneRetyped
  <2> QED BY <1>2, <1>6, <2>5 DEF StopIf
<1>7. ASSUME NEW v \in Vars, NEW x \in Vars, NEW y \in Vars, NEW g \in Guards,
             Branch(g, v, x, y)
      PROVE  TypingInv' /\ NoFalseAlarm'
  <2> DEFINE s == Narrow(typeOf[x], g, TRUE)
             t == IF x = y THEN Narrow(typeOf[x], g, FALSE) ELSE typeOf[y]
             w == IF Holds(g, valueOf[x]) THEN valueOf[x] ELSE valueOf[y]
  <2>1. typeOf' = [typeOf EXCEPT ![v] = Join(s, t)]
        /\ valueOf' = [valueOf EXCEPT ![v] = w]
    BY <1>7 DEF Branch
  <2>2. Typed(Join(s, t), w)
    <3>1. Holds(g, valueOf[x]) \in BOOLEAN
      BY HoldsIsBoolean
    <3>2. HasValue(w)
      BY <1>1
    <3>3. CASE Holds(g, valueOf[x])
      <4>1. s \in AllTypes /\ IsOf(w, s)
        BY <1>1, <3>1, <3>3, NarrowHolds
      <4>2. t \in AllTypes
        BY <1>1, NarrowTypes
      <4>3. Join(s, t) \in AllTypes /\ IsOf(w, Join(s, t))
        <5> HIDE DEF s, t
        <5> QED BY <1>1, <3>3, <4>1, <4>2, JoinHolds
      <4> QED BY <3>2, <4>3 DEF Typed
    <3>4. CASE ~ Holds(g, valueOf[x])
      <4>1. s \in AllTypes
        BY <1>1, NarrowTypes
      <4>2. t \in AllTypes /\ IsOf(w, t)
        <5>1. Holds(g, valueOf[x]) = FALSE
          BY <3>1, <3>4
        <5>2. CASE x = y
          BY <1>1, <3>4, <5>1, <5>2, NarrowHolds
        <5>3. CASE x # y
          BY <1>1, <3>4, <5>3
        <5> QED BY <5>2, <5>3
      <4>3. Join(s, t) \in AllTypes /\ IsOf(w, Join(s, t))
        <5> HIDE DEF s, t
        <5> QED BY <1>1, <3>4, <4>1, <4>2, JoinHolds
      <4> QED BY <3>2, <4>3 DEF Typed
    <3> QED BY <3>3, <3>4
  <2>3. TypingInv'
    <3> HIDE DEF s, t, w
    <3> QED BY <1>0, <2>1, <2>2, OneRetyped
  <2> QED BY <1>2, <1>7, <2>3 DEF Branch
<1>8. ASSUME NEW v \in Vars, NEW x \in Vars, NEW y \in Vars,
             NEW op \in Operators \cup {"==", "&", "&&"}, BinOp(v, op, x, y)
      PROVE  TypingInv' /\ NoFalseAlarm'
  <2> DEFINE r == RBinOp(op, valueOf[x], valueOf[y])
             i == InferBinOp(op, typeOf[x], typeOf[y])
  <2>1. /\ r # RError => i.type \in AllTypes /\ IsOf(r, i.type)
        /\ i.codes \cap Errors # {} => r = RError
        /\ "RY041" \in i.codes => op # "&&" /\ Uneven(valueOf[x], valueOf[y])
    <3>1. NoNullOfFunction(valueOf[x], valueOf[y])
      BY <1>1, ValuesApart
    <3> QED BY <1>1, <3>1, InferBinOpHolds
  <2>2. r # RError => HasValue(r)
    BY <1>1, RMakes, MadeIsValue
  <2>3. /\ typeOf' = [typeOf EXCEPT ![v] = i.type]
        /\ r # RError => valueOf' = [valueOf EXCEPT ![v] = r]
        /\ said' = i.codes
        /\ did' = IF r = RError THEN "failed"
                  ELSE IF op # "&&" /\ Uneven(valueOf[x], valueOf[y]) THEN "warned"
                  ELSE "went on"
    BY <1>8 DEF BinOp
  <2> HIDE DEF r, i
  <2>4. TypingInv'
    <3>1. CASE r = RError
      BY <2>3, <3>1 DEF TypingInv
    <3>2. CASE r # RError
      <4>1. Typed(i.type, r)
        BY <2>1, <2>2, <3>2 DEF Typed
      <4> QED BY <1>0, <2>3, <3>2, <4>1, OneRetyped
    <3> QED BY <3>1, <3>2
  <2>5. NoFalseAlarm'
    BY <2>1, <2>3 DEF NoFalseAlarm, Errors
  <2> QED BY <2>4, <2>5
<1> QED BY <1>3, <1>4, <1>5, <1>6, <1>7, <1>8 DEF TypingNext

\* The body's part of the inference is the typing of one program.
LEMMA TypingIsPart == InferenceSpec => TypingSpec
<1>1. InferenceInit => TypingInit
  BY DEF InferenceInit
<1>2. [InferenceNext]_inferenceVars => [TypingNext]_typingVars
  BY DEF InferenceNext, ReturnsPart, BodyPart, inferenceVars, typingVars
<1> QED BY <1>1, <1>2, PTL DEF InferenceSpec, TypingSpec

LEMMA TypingInvariant == WithinTheRules => (TypingSpec => [](TypingInv /\ NoFalseAlarm))
<1> SUFFICES ASSUME WithinTheRules PROVE TypingSpec => [](TypingInv /\ NoFalseAlarm)
  OBVIOUS
<1>1. TypingInit => TypingInv /\ NoFalseAlarm
  BY TypingStart
<1>2. TypingInv /\ NoFalseAlarm /\ [TypingNext]_typingVars => TypingInv' /\ NoFalseAlarm'
  <2>1. CASE TypingNext
    BY <2>1, TypingStep
  <2>2. CASE UNCHANGED typingVars
    BY <2>2 DEF TypingInv, NoFalseAlarm, typingVars
  <2> QED BY <2>1, <2>2
<1> QED BY <1>1, <1>2, PTL DEF TypingSpec

(* Every value that R computes is one of the type that ry infers, in every *)
(* program of assignments, branches, guards and operators over any values  *)
(* that the rules are about.                                               *)
THEOREM InferenceIsSound == WithinTheRules => (InferenceSpec => []TypesSound)
<1>1. TypingInv => TypesSound
  BY DEF TypingInv, TypesSound, Typed
<1> QED BY <1>1, TypingIsPart, TypingInvariant, PTL

(* What ry reports of an operator or a condition as an error is one in R,  *)
(* in all of those programs.                                               *)
THEOREM ReportsAreErrors == WithinTheRules => (InferenceSpec => []NoFalseAlarm)
BY TypingIsPart, TypingInvariant, PTL

-----------------------------------------------------------------------------
(***************************************************************************)
(* The return-type fixpoint.                                               *)
(***************************************************************************)

LEMMA UnknownIsTop == /\ Unknown \in Types /\ \A t \in Types : t <= Unknown /\ t # Bottom
                      /\ Types \subseteq Int /\ Bottom = -1
  BY FixpointAssumption DEF Unknown, Types, Bottom

\* A set of types has a greatest one, a set of functions a first one.
LEMMA GreatestType ==
  ASSUME NEW S \in SUBSET Types, S # {}
  PROVE  Max(S) \in S /\ \A t \in S : t <= Max(S)
<1> DEFINE B == {Unknown - t : t \in S}
<1>0. Unknown \in Nat /\ \A t \in S : t \in 0 .. Unknown
  BY FixpointAssumption DEF Unknown, Types
<1>1. B \in SUBSET Nat /\ B # {}
  BY <1>0
<1>2. PICK b \in B : \A c \in B : b <= c
  <2> HIDE DEF B
  <2> QED BY <1>1, LeastNumber
<1>3. PICK t \in S : b = Unknown - t
  BY <1>2
<1>4. \A u \in S : Unknown - u \in B
  OBVIOUS
<1>5. \A u \in S : t >= u
  <2> SUFFICES ASSUME NEW u \in S PROVE t >= u
    OBVIOUS
  <2>1. Unknown - t <= Unknown - u
    BY <1>2, <1>3, <1>4
  <2> QED BY <1>0, <2>1
<1>6. Max(S) \in S /\ \A u \in S : Max(S) >= u
  BY <1>5 DEF Max
<1> QED BY <1>0, <1>6

LEMMA FirstFunction ==
  ASSUME NEW S \in SUBSET Node, S # {} PROVE Min(S) \in S
<1>1. S \in SUBSET Nat
  BY DEF Node
<1>2. \E m \in S : \A n \in S : m <= n
  BY <1>1, LeastNumber
<1> QED BY <1>2 DEF Min

-----------------------------------------------------------------------------
(***************************************************************************)
(* The search for the components.  The stack holds visited nodes, each     *)
(* once, and the nodes of the frames lie on it in the order of the frames: *)
(* so the node that closes a component is on the stack, what is above it   *)
(* is the component, and the frames that are left keep their nodes.        *)
(***************************************************************************)

FrameType == [node : Node, left : SUBSET Node]

SearchInv ==
    /\ SearchTypeOK
    /\ OnStack \subseteq Visited
    /\ \A i, j \in DOMAIN stack : stack[i] = stack[j] => i = j
    /\ \A k \in DOMAIN path : path[k].node \in OnStack
    /\ \A k, l \in DOMAIN path : \A i, j \in DOMAIN stack :
          (k < l /\ stack[i] = path[k].node /\ stack[j] = path[l].node) => i < j

LEMMA VisitedCount ==
  ASSUME order \in [Node -> 0..N]
  PROVE  /\ Cardinality(Visited) \in 0 .. N
         /\ Node \ Visited # {} => Cardinality(Visited) + 1 \in 1 .. N
<1>1. IsFiniteSet(Node) /\ Cardinality(Node) = N
  BY NAssumption, FS_Interval DEF Node
<1>2. Visited \subseteq Node
  BY DEF Visited
<1>3. IsFiniteSet(Visited) /\ Cardinality(Visited) \in Nat /\ Cardinality(Visited) <= N
      /\ (Cardinality(Visited) = N => Visited = Node)
  BY <1>1, <1>2, FS_Subset, FS_CardinalityType
<1> QED BY <1>2, <1>3, NAssumption

LEMMA NoSearchInv == NoSearch => SearchInv
  BY NAssumption DEF NoSearch, SearchInv, SearchTypeOK, OnStack

LEMMA StartSearchInv ==
  ASSUME NEW g \in [Node -> SUBSET Node], StartSearch(g) PROVE SearchInv'
<1>1. /\ graph' = g /\ order' \in [Node -> 0..N] /\ low' \in [Node -> 0..N]
      /\ stack' = <<>> /\ path' = <<>> /\ components' = <<>>
  BY NAssumption DEF StartSearch
<1> QED BY <1>1 DEF SearchInv, SearchTypeOK, OnStack

LEMMA VisitInv ==
  ASSUME SearchInv, NEW n \in Node \ Visited, NEW rest \in Seq(FrameType),
         Len(rest) = Len(path), \A k \in 1 .. Len(path) : rest[k].node = path[k].node,
         Visit(n, rest)
  PROVE  SearchInv'
<1> DEFINE count == Cardinality(Visited) + 1
           frame == [node |-> n, left |-> graph[n]]
<1>1. count \in 1 .. N
  BY VisitedCount DEF SearchInv, SearchTypeOK
<1>2. /\ order' = [order EXCEPT ![n] = count] /\ low' = [low EXCEPT ![n] = count]
      /\ stack' = Append(stack, n) /\ path' = Append(rest, frame)
      /\ graph' = graph /\ components' = components
  BY DEF Visit
<1> HIDE DEF count
<1>3. frame \in FrameType
  BY DEF SearchInv, SearchTypeOK, FrameType
<1> HIDE DEF frame
<1>4. SearchTypeOK'
  <2>1. order' \in [Node -> 0..N] /\ low' \in [Node -> 0..N]
    BY <1>1, <1>2 DEF SearchInv, SearchTypeOK
  <2>2. stack' \in Seq(Node)
    BY <1>2 DEF SearchInv, SearchTypeOK
  <2>3. path' \in Seq(FrameType)
    BY <1>2, <1>3
  <2> QED BY <1>2, <2>1, <2>2, <2>3 DEF SearchInv, SearchTypeOK, FrameType
<1>5. /\ stack \in Seq(Node) /\ Len(stack) \in Nat /\ DOMAIN stack = 1 .. Len(stack)
      /\ DOMAIN stack' = 1 .. (Len(stack) + 1)
      /\ \A i \in 1 .. Len(stack) : stack'[i] = stack[i]
      /\ stack'[Len(stack) + 1] = n
  BY <1>2 DEF SearchInv, SearchTypeOK
<1>6. /\ path \in Seq(FrameType) /\ Len(path) \in Nat /\ DOMAIN path = 1 .. Len(path)
      /\ DOMAIN path' = 1 .. (Len(path) + 1)
      /\ \A k \in 1 .. Len(path) : path'[k].node = path[k].node
      /\ path'[Len(path) + 1].node = n
  <2>1. path \in Seq(FrameType)
    BY DEF SearchInv, SearchTypeOK, FrameType
  <2>2. frame.node = n
    BY DEF frame
  <2> QED BY <1>2, <1>3, <2>1, <2>2
<1>7. Visited' = Visited \cup {n}
  BY <1>1, <1>2 DEF SearchInv, SearchTypeOK, Visited
<1>8. \A i \in 1 .. Len(stack) : stack[i] # n
  BY <1>5 DEF SearchInv, OnStack
<1>9. OnStack' = OnStack \cup {n}
  BY <1>5 DEF OnStack
<1>10. OnStack' \subseteq Visited'
  BY <1>7, <1>9 DEF SearchInv
<1>11. \A i, j \in DOMAIN stack' : stack'[i] = stack'[j] => i = j
  BY <1>5, <1>8 DEF SearchInv
<1>12. \A k \in DOMAIN path' : path'[k].node \in OnStack'
  BY <1>6, <1>9 DEF SearchInv
<1>13. ASSUME NEW k \in DOMAIN path', NEW l \in DOMAIN path',
              NEW i \in DOMAIN stack', NEW j \in DOMAIN stack',
              k < l, stack'[i] = path'[k].node, stack'[j] = path'[l].node
       PROVE  i < j
  <2>1. k \in 1 .. Len(path)
    BY <1>6, <1>13
  <2>2. path[k].node \in OnStack
    BY <1>6, <2>1 DEF SearchInv
  <2>3. path[k].node # n
    BY <1>5, <1>8, <2>2 DEF OnStack
  <2>4. i \in 1 .. Len(stack) /\ stack[i] = path[k].node
    BY <1>5, <1>6, <1>13, <2>1, <2>3
  <2>5. CASE l = Len(path) + 1
    BY <1>5, <1>6, <1>8, <1>13, <2>4, <2>5
  <2>6. CASE l \in 1 .. Len(path)
    <3>1. path[l].node \in OnStack /\ path'[l].node = path[l].node
      BY <1>6, <2>6 DEF SearchInv
    <3>2. j \in 1 .. Len(stack) /\ stack[j] = path[l].node
      BY <1>5, <1>8, <1>13, <3>1 DEF OnStack
    <3> QED BY <1>5, <1>6, <1>13, <2>1, <2>4, <2>6, <3>2 DEF SearchInv
  <2> QED BY <1>6, <2>5, <2>6
<1> QED BY <1>4, <1>10, <1>11, <1>12, <1>13 DEF SearchInv

LEMMA LeastType == ASSUME NEW a \in 0 .. N, NEW b \in 0 .. N PROVE Least(a, b) \in 0 .. N
  BY DEF Least

LEMMA FollowEdgeInv == ASSUME SearchInv, FollowEdge PROVE SearchInv'
<1>1. /\ path \in Seq(FrameType) /\ path # <<>> /\ Len(path) \in DOMAIN path
      /\ Frame \in FrameType
  <2>1. path \in Seq(FrameType) /\ path # <<>>
    BY DEF FollowEdge, SearchInv, SearchTypeOK, FrameType
  <2> QED BY <2>1 DEF Frame
<1>2. PICK target \in Frame.left :
        LET rest == [path EXCEPT ![Len(path)].left = @ \ {target}]
        IN IF target \notin Visited THEN Visit(target, rest)
           ELSE /\ path' = rest
                /\ low' = IF target \in OnStack
                          THEN [low EXCEPT ![Frame.node] = Least(@, order[target])]
                          ELSE low
                /\ UNCHANGED <<graph, order, stack, components>>
  BY DEF FollowEdge
<1> DEFINE rest == [path EXCEPT ![Len(path)].left = @ \ {target}]
<1>3. target \in Node /\ Frame.node \in Node
  BY <1>1 DEF FrameType
<1>4. /\ rest \in Seq(FrameType) /\ Len(rest) = Len(path) /\ DOMAIN rest = DOMAIN path
      /\ \A k \in 1 .. Len(path) : rest[k].node = path[k].node
  <2> DEFINE frame == [path[Len(path)] EXCEPT !.left = @ \ {target}]
  <2>1. frame \in FrameType /\ frame.node = path[Len(path)].node
    BY <1>1 DEF FrameType, Frame
  <2>2. rest = [path EXCEPT ![Len(path)] = frame]
    OBVIOUS
  <2> HIDE DEF frame
  <2>3. DOMAIN path = 1 .. Len(path) /\ path \in [1 .. Len(path) -> FrameType]
    BY <1>1
  <2>4. \A k \in 1 .. Len(path) : rest[k] = IF k = Len(path) THEN frame ELSE path[k]
    BY <2>2, <2>3
  <2>5. rest \in [1 .. Len(path) -> FrameType]
    BY <2>1, <2>2, <2>3
  <2> HIDE DEF rest
  <2>6. rest \in Seq(FrameType) /\ Len(rest) = Len(path)
    BY <1>1, <2>5
  <2>7. \A k \in 1 .. Len(path) : rest[k].node = path[k].node
    BY <2>1, <2>4
  <2>8. DOMAIN rest = DOMAIN path
    BY <2>3, <2>5
  <2> QED BY <2>6, <2>7, <2>8
<1> HIDE DEF rest
<1>5. CASE target \notin Visited
  <2>1. Visit(target, rest)
    BY <1>2, <1>5 DEF rest
  <2> QED BY <1>3, <1>4, <1>5, <2>1, VisitInv
<1>6. CASE target \in Visited
  <2>1. /\ path' = rest
        /\ low' = IF target \in OnStack
                  THEN [low EXCEPT ![Frame.node] = Least(@, order[target])] ELSE low
        /\ graph' = graph /\ order' = order /\ stack' = stack /\ components' = components
    BY <1>2, <1>6 DEF rest
  <2>2. low' \in [Node -> 0..N]
    <3>1. Least(low[Frame.node], order[target]) \in 0 .. N
      BY <1>3, LeastType DEF SearchInv, SearchTypeOK
    <3> QED BY <1>3, <2>1, <3>1 DEF SearchInv, SearchTypeOK
  <2>3. SearchTypeOK'
    BY <1>4, <2>1, <2>2 DEF SearchInv, SearchTypeOK, FrameType
  <2>4. OnStack' = OnStack /\ Visited' = Visited
    BY <2>1 DEF OnStack, Visited
  <2>5. DOMAIN path' = DOMAIN path /\ \A k \in DOMAIN path : path'[k].node = path[k].node
    BY <1>1, <1>4, <2>1
  <2> QED BY <2>1, <2>3, <2>4, <2>5 DEF SearchInv
<1> QED BY <1>5, <1>6

LEMMA LeaveNodeInv == ASSUME SearchInv, LeaveNode PROVE SearchInv'
<1> DEFINE m == Len(path)
           node == path[m].node
           low2 == IF Outer = <<>> THEN low
                   ELSE [low EXCEPT ![Outer[Len(Outer)].node] = Least(@, low[Frame.node])]
<1>1. /\ path \in Seq(FrameType) /\ m \in Nat \ {0} /\ DOMAIN path = 1 .. m
      /\ node \in Node /\ Frame.node = node
  <2>1. path \in Seq(FrameType) /\ path # <<>>
    BY DEF LeaveNode, SearchInv, SearchTypeOK, FrameType
  <2>2. path[m] \in FrameType /\ m \in Nat \ {0} /\ DOMAIN path = 1 .. m
    BY <2>1
  <2> QED BY <2>1, <2>2 DEF Frame, FrameType
<1>2. /\ Outer \in Seq(FrameType) /\ Len(Outer) = m - 1 /\ DOMAIN Outer = 1 .. (m - 1)
      /\ \A k \in 1 .. (m - 1) : Outer[k] = path[k]
  BY <1>1 DEF Outer
<1>3. /\ path' = Outer /\ low' = low2 /\ Close(node) /\ graph' = graph /\ order' = order
  BY <1>1 DEF LeaveNode
<1>4. low' \in [Node -> 0..N]
  <2>1. Outer # <<>> => Outer[Len(Outer)].node \in Node
    <3>1. Outer # <<>> => Len(Outer) \in 1 .. (m - 1)
      BY <1>1, <1>2
    <3>2. Outer # <<>> => Outer[Len(Outer)] \in FrameType
      BY <1>2, <3>1
    <3> QED BY <3>2 DEF FrameType
  <2>2. Outer # <<>> => Least(low[Outer[Len(Outer)].node], low[Frame.node]) \in 0 .. N
    BY <1>1, <2>1, LeastType DEF SearchInv, SearchTypeOK
  <2> QED BY <1>3, <2>1, <2>2 DEF SearchInv, SearchTypeOK
<1>5. Visited' = Visited
  BY <1>3 DEF Visited
<1>6. /\ stack \in Seq(Node) /\ Len(stack) \in Nat /\ DOMAIN stack = 1 .. Len(stack)
      /\ components \in Seq(SUBSET Node)
  BY DEF SearchInv, SearchTypeOK
<1> HIDE DEF m, node, low2
<1>7. CASE low[node] # order[node]
  <2>1. stack' = stack /\ components' = components
    BY <1>3, <1>7 DEF Close
  <2>2. SearchTypeOK'
    BY <1>2, <1>3, <1>4, <2>1 DEF SearchInv, SearchTypeOK, FrameType
  <2>3. OnStack' = OnStack
    BY <2>1 DEF OnStack
  <2> QED BY <1>1, <1>2, <1>3, <1>5, <2>1, <2>2, <2>3 DEF SearchInv
<1>8. CASE low[node] = order[node]
  <2> DEFINE at == CHOOSE i \in DOMAIN stack : stack[i] = node
  <2>1. at \in DOMAIN stack /\ stack[at] = node
    <3>1. node \in OnStack
      BY <1>1 DEF SearchInv, node
    <3> QED BY <3>1 DEF OnStack
  <2>2. /\ components' = Append(components, {stack[i] : i \in at..Len(stack)})
        /\ stack' = SubSeq(stack, 1, at - 1)
    BY <1>3, <1>8 DEF Close
  <2> HIDE DEF at
  <2>3. {stack[i] : i \in at..Len(stack)} \in SUBSET Node
    BY <1>6, <2>1
  <2>4. components' \in Seq(SUBSET Node)
    BY <1>6, <2>2, <2>3
  <2>5. /\ stack' \in Seq(Node) /\ DOMAIN stack' = 1 .. (at - 1)
        /\ DOMAIN stack' \subseteq DOMAIN stack
        /\ \A i \in 1 .. (at - 1) : stack'[i] = stack[i]
    BY <1>6, <2>1, <2>2
  <2>6. SearchTypeOK'
    BY <1>2, <1>3, <1>4, <2>4, <2>5 DEF SearchInv, SearchTypeOK, FrameType
  <2>7. OnStack' \subseteq OnStack
    BY <2>5 DEF OnStack
  <2>8. \A k \in 1 .. (m - 1) : path'[k].node \in OnStack'
    <3> SUFFICES ASSUME NEW k \in 1 .. (m - 1) PROVE path[k].node \in OnStack'
      BY <1>2, <1>3
    <3>1. PICK i \in DOMAIN stack : stack[i] = path[k].node
      BY <1>1 DEF SearchInv, OnStack
    <3>2. i < at
      BY <1>1, <2>1, <3>1 DEF SearchInv, node
    <3>3. i \in DOMAIN stack' /\ stack'[i] = path[k].node
      BY <1>6, <2>1, <2>5, <3>1, <3>2
    <3> QED BY <3>3 DEF OnStack
  <2>9. \A k, l \in 1 .. (m - 1) : \A i, j \in DOMAIN stack' :
          (k < l /\ stack'[i] = path'[k].node /\ stack'[j] = path'[l].node) => i < j
    <3>1. \A k \in 1 .. (m - 1) : path'[k] = path[k] /\ k \in DOMAIN path
      BY <1>1, <1>2, <1>3
    <3>2. \A i \in DOMAIN stack' : stack'[i] = stack[i] /\ i \in DOMAIN stack
      BY <2>5
    <3> QED BY <3>1, <3>2 DEF SearchInv
  <2>10. \A i, j \in DOMAIN stack' : stack'[i] = stack'[j] => i = j
    BY <2>5 DEF SearchInv
  <2> QED BY <1>2, <1>3, <1>5, <2>6, <2>7, <2>8, <2>9, <2>10 DEF SearchInv
<1> QED BY <1>7, <1>8

LEMMA SearchStep == ASSUME SearchInv, Search PROVE SearchInv'
<1>1. CASE NextRoot
  <2>1. path = <<>> /\ Visited # Node /\ Visit(Min(Node \ Visited), <<>>)
    BY <1>1 DEF NextRoot
  <2>2. Node \ Visited # {}
    BY <2>1 DEF Visited
  <2>3. Min(Node \ Visited) \in Node \ Visited
    BY <2>2, FirstFunction
  <2>4. <<>> \in Seq(FrameType) /\ Len(<<>>) = Len(path)
        /\ \A k \in 1 .. Len(path) : <<>>[k].node = path[k].node
    BY <2>1
  <2> QED BY <2>1, <2>3, <2>4, VisitInv
<1> QED BY <1>1, FollowEdgeInv, LeaveNodeInv DEF Search

-----------------------------------------------------------------------------
(***************************************************************************)
(* The search closes strongly connected components, callees first.  From a *)
(* node on the stack a frame's node before it is reached, and each frame's *)
(* node reaches what is above it; the edges that were followed from there  *)
(* lead to no node on the stack before the frame's low.                    *)
(***************************************************************************)

LEMMA ReachesBasics ==
  /\ \A m \in Node : Reaches(m, m)
  /\ \A m \in Node : \A n \in graph[m] : Reaches(m, n)
  /\ \A k, m, n : Reaches(k, m) /\ Reaches(m, n) => Reaches(k, n)
  BY DEF Reaches

\* An edge that the search has followed
Followed(m, n) ==
    n \in graph[m] /\ \A k \in DOMAIN path : path[k].node = m => n \notin path[k].left

\* The last frame whose node is not after m
Owns(k, m) == /\ order[path[k].node] <= order[m]
              /\ k < Len(path) => order[m] < order[path[k + 1].node]

Placed == UNION {components[i] : i \in DOMAIN components}

NumberInv ==
    /\ \A n \in Visited : order[n] <= Cardinality(Visited)
    /\ \A i, j \in DOMAIN stack : i < j => order[stack[i]] < order[stack[j]]

EdgesInv == \A m \in Visited, n \in Node : Followed(m, n) => n \in Visited

PlacedInv ==
    /\ Visited = OnStack \cup Placed /\ OnStack \cap Placed = {}
    /\ \A i \in DOMAIN components : \A m \in components[i] :
          /\ \A j \in DOMAIN components : m \in components[j] => i = j
          /\ \A n \in components[i] : Reaches(m, n)
          /\ \A n \in graph[m] : \E j \in DOMAIN components : j <= i /\ n \in components[j]

FrameInv ==
    \A k \in DOMAIN path :
        LET node == path[k].node
        IN  /\ path[k].left \subseteq graph[node]
            /\ low[node] <= order[node]
            /\ \E t \in OnStack : order[t] = low[node] /\ Reaches(node, t)
            /\ \A n \in OnStack : order[node] <= order[n] => Reaches(node, n)

ReturnInv ==
    \A n \in OnStack : \E k \in DOMAIN path :
        order[path[k].node] <= order[n] /\ Reaches(n, path[k].node)

LowInv ==
    \A k \in DOMAIN path : \A m, n \in OnStack :
        Owns(k, m) /\ Followed(m, n) => low[path[k].node] <= order[n]

OrderInv == /\ NumberInv /\ EdgesInv /\ PlacedInv
            /\ FrameInv /\ ReturnInv /\ LowInv

LEMMA SearchForms ==
  ASSUME SearchInv
  PROVE  /\ graph \in [Node -> SUBSET Node]
         /\ \A n \in Node : order[n] \in Int /\ order[n] >= 0 /\ low[n] \in Int
         /\ stack \in Seq(Node) /\ Len(stack) \in Nat /\ DOMAIN stack = 1 .. Len(stack)
         /\ path \in Seq(FrameType) /\ Len(path) \in Nat /\ DOMAIN path = 1 .. Len(path)
         /\ components \in Seq(SUBSET Node)
         /\ OnStack \subseteq Visited /\ Visited \subseteq Node
         /\ \A k \in DOMAIN path : /\ path[k].node \in OnStack /\ path[k].node \in Node
                                   /\ path[k].left \subseteq Node
<1>1. order \in [Node -> 0 .. N] /\ low \in [Node -> 0 .. N]
  BY DEF SearchInv, SearchTypeOK
<1>2. \A n \in Node : order[n] \in 0 .. N /\ low[n] \in 0 .. N
  BY <1>1
<1>3. \A n \in Node : order[n] \in Int /\ order[n] >= 0 /\ low[n] \in Int
  BY <1>2, NAssumption
<1>4. path \in Seq(FrameType)
  BY DEF SearchInv, SearchTypeOK, FrameType
<1>5. \A k \in DOMAIN path : path[k] \in FrameType
  BY <1>4
<1>6. \A k \in DOMAIN path : path[k].node \in Node /\ path[k].left \subseteq Node
  BY <1>5 DEF FrameType
<1> QED BY <1>3, <1>4, <1>6 DEF SearchInv, SearchTypeOK, Visited

\* Numbers grow along the stack and along the frames.
LEMMA NumbersGrow ==
  ASSUME SearchInv, NumberInv
  PROVE  /\ \A k, l \in DOMAIN path : k < l => order[path[k].node] < order[path[l].node]
         /\ \A m, n \in OnStack : order[m] = order[n] => m = n
<1>1. /\ DOMAIN stack = 1 .. Len(stack) /\ Len(stack) \in Nat
      /\ \A n \in OnStack : n \in Node /\ order[n] \in Int
  BY SearchForms
<1>2. ASSUME NEW k \in DOMAIN path, NEW l \in DOMAIN path, k < l
      PROVE  order[path[k].node] < order[path[l].node]
  <2>1. path[k].node \in OnStack /\ path[l].node \in OnStack
    BY SearchForms
  <2>2. PICK i \in DOMAIN stack : stack[i] = path[k].node
    BY <2>1 DEF OnStack
  <2>3. PICK j \in DOMAIN stack : stack[j] = path[l].node
    BY <2>1 DEF OnStack
  <2>4. i < j
    BY <1>2, <2>2, <2>3 DEF SearchInv
  <2> QED BY <2>2, <2>3, <2>4 DEF NumberInv
<1>3. ASSUME NEW m \in OnStack, NEW n \in OnStack, order[m] = order[n] PROVE m = n
  <2>1. PICK i \in DOMAIN stack : stack[i] = m
    BY DEF OnStack
  <2>2. PICK j \in DOMAIN stack : stack[j] = n
    BY DEF OnStack
  <2>3. ~ (i < j) /\ ~ (j < i)
    BY <1>1, <1>3, <2>1, <2>2 DEF NumberInv
  <2>4. i = j
    BY <1>1, <2>3
  <2> QED BY <2>1, <2>2, <2>4
<1> QED BY <1>2, <1>3

LEMMA StartOrdered ==
  ASSUME NEW g \in [Node -> SUBSET Node], StartSearch(g) PROVE OrderInv'
<1>1. /\ graph' = g /\ stack' = <<>> /\ path' = <<>> /\ components' = <<>>
      /\ \A n \in Node : order'[n] = 0
  BY DEF StartSearch
<1>2. OnStack' = {} /\ Visited' = {} /\ Placed' = {}
  BY <1>1 DEF OnStack, Visited, Placed
<1> QED BY <1>1, <1>2 DEF OrderInv, NumberInv, EdgesInv, PlacedInv, FrameInv, ReturnInv, LowInv

\* A node that is visited is the last on the stack, and reached from each frame.
LEMMA VisitOrdered ==
  ASSUME SearchInv, OrderInv, NEW n \in Node \ Visited, NEW rest \in Seq(FrameType),
         Len(rest) = Len(path),
         \A k \in 1 .. Len(path) : /\ rest[k].node = path[k].node
                                   /\ rest[k].left \subseteq path[k].left
                                   /\ path[k].left \ rest[k].left \subseteq {n},
         path # <<>> => n \in graph[path[Len(path)].node],
         Visit(n, rest)
  PROVE  OrderInv'
<1> DEFINE count == Cardinality(Visited) + 1
           frame == [node |-> n, left |-> graph[n]]
           m == Len(path)
<1>1. count \in 1 .. N /\ Cardinality(Visited) \in Nat
  BY VisitedCount DEF SearchInv, SearchTypeOK
<1>2. /\ order' = [order EXCEPT ![n] = count] /\ low' = [low EXCEPT ![n] = count]
      /\ stack' = Append(stack, n) /\ path' = Append(rest, frame)
      /\ graph' = graph /\ components' = components
  BY DEF Visit
<1>3. /\ graph \in [Node -> SUBSET Node]
      /\ \A x \in Node : order[x] \in Int /\ order[x] >= 0 /\ low[x] \in Int
      /\ stack \in Seq(Node) /\ Len(stack) \in Nat /\ DOMAIN stack = 1 .. Len(stack)
      /\ m \in Nat /\ DOMAIN path = 1 .. m
      /\ OnStack \subseteq Visited /\ Visited \subseteq Node
      /\ \A k \in DOMAIN path : path[k].node \in OnStack
  BY SearchForms
<1>4. /\ DOMAIN stack' = 1 .. (Len(stack) + 1)
      /\ \A i \in 1 .. Len(stack) : stack'[i] = stack[i]
      /\ stack'[Len(stack) + 1] = n
  BY <1>2, <1>3
<1>5. /\ Len(path') = m + 1 /\ DOMAIN path' = 1 .. (m + 1)
      /\ \A k \in 1 .. m : path'[k] = rest[k]
      /\ path'[m + 1] = frame
  BY <1>2, <1>3
<1>6. frame.node = n /\ frame.left = graph[n]
  OBVIOUS
<1> HIDE DEF frame
<1>7. /\ \A x \in Node \ {n} : order'[x] = order[x] /\ low'[x] = low[x]
      /\ order'[n] = count /\ low'[n] = count
  BY <1>2 DEF SearchInv, SearchTypeOK
<1> HIDE DEF count, m
<1>8. Visited' = Visited \cup {n}
  BY <1>1, <1>2 DEF SearchInv, SearchTypeOK, Visited
<1>9. OnStack' = OnStack \cup {n} /\ n \notin OnStack
  <2>1. n \notin OnStack
    BY <1>3
  <2>2. OnStack' = OnStack \cup {n}
    BY <1>3, <1>4 DEF OnStack
  <2> QED BY <2>1, <2>2
<1>10. \A x, y : Reaches(x, y)' <=> Reaches(x, y)
  BY <1>2 DEF Reaches
<1>11. \A x \in Visited : order[x] < count /\ order'[x] = order[x] /\ low'[x] = low[x]
  <2> SUFFICES ASSUME NEW x \in Visited
               PROVE  order[x] < count /\ order'[x] = order[x] /\ low'[x] = low[x]
    OBVIOUS
  <2>1. x \in Node /\ x # n
    BY <1>3
  <2>2. order[x] <= Cardinality(Visited)
    BY DEF OrderInv, NumberInv
  <2> QED BY <1>1, <1>3, <1>7, <2>1, <2>2 DEF count
<1>12. Cardinality(Visited') = count
  <2>1. IsFiniteSet(Visited)
    <3>1. IsFiniteSet(Node)
      BY NAssumption, FS_Interval DEF Node
    <3> QED BY <1>3, <3>1, FS_Subset
  <2> QED BY <1>8, <2>1, FS_AddElement DEF count
<1>13. NumberInv'
  <2>1. \A x \in Visited' : order'[x] <= count
    <3> SUFFICES ASSUME NEW x \in Visited' PROVE order'[x] <= count
      OBVIOUS
    <3>1. CASE x = n
      BY <1>1, <1>7, <3>1
    <3>2. CASE x \in Visited
      BY <1>1, <1>3, <1>11, <3>2
    <3> QED BY <1>8, <3>1, <3>2
  <2>2. ASSUME NEW i \in DOMAIN stack', NEW j \in DOMAIN stack', i < j
        PROVE  order'[stack'[i]] < order'[stack'[j]]
    <3>1. i \in DOMAIN stack /\ stack'[i] = stack[i] /\ stack[i] \in Visited
      BY <1>3, <1>4, <2>2 DEF OnStack
    <3>2. CASE j = Len(stack) + 1
      BY <1>4, <1>7, <1>11, <3>1, <3>2
    <3>3. CASE j \in DOMAIN stack
      <4>1. order[stack[i]] < order[stack[j]] /\ stack[j] \in Visited
        BY <1>3, <2>2, <3>1, <3>3 DEF OrderInv, NumberInv, OnStack
      <4> QED BY <1>3, <1>4, <1>11, <3>1, <3>3, <4>1
    <3> QED BY <1>3, <1>4, <3>2, <3>3
  <2> QED BY <1>12, <2>1, <2>2 DEF NumberInv
<1>14. ASSUME NEW x, NEW y, Followed(x, y)', y # n PROVE x # n /\ Followed(x, y)
  <2>1. y \in graph[x] /\ \A k \in 1 .. (m + 1) : path'[k].node = x => y \notin path'[k].left
    BY <1>2, <1>5, <1>14 DEF Followed
  <2>2. x # n
    BY <1>3, <1>5, <1>6, <2>1
  <2>3. \A k \in 1 .. m : path[k].node = x => y \notin path[k].left
    <3> SUFFICES ASSUME NEW k \in 1 .. m, path[k].node = x PROVE y \notin path[k].left
      OBVIOUS
    <3>1. path'[k] = rest[k] /\ rest[k].node = path[k].node /\ path[k].left \ rest[k].left \subseteq {n}
      BY <1>5 DEF m
    <3>2. k \in 1 .. (m + 1)
      BY <1>3
    <3> QED BY <1>14, <2>1, <3>1, <3>2
  <2> QED BY <1>3, <2>1, <2>2, <2>3 DEF Followed
<1>15. EdgesInv'
  <2> SUFFICES ASSUME NEW x \in Visited', NEW y \in Node, Followed(x, y)' PROVE y \in Visited'
    BY DEF EdgesInv
  <2>1. CASE y = n
    BY <1>8, <2>1
  <2>2. CASE y # n
    BY <1>8, <1>14, <2>2 DEF OrderInv, EdgesInv
  <2> QED BY <2>1, <2>2
<1>16. PlacedInv'
  <2>1. Placed' = Placed
    BY <1>2 DEF Placed
  <2>2. n \notin Placed
    BY DEF OrderInv, PlacedInv
  <2> QED BY <1>2, <1>8, <1>9, <1>10, <2>1, <2>2 DEF OrderInv, PlacedInv
<1>17. ASSUME NEW k \in 1 .. m
       PROVE  LET x == path[k].node
              IN  /\ x \in Visited /\ x \in Node /\ path'[k].node = x
                  /\ order'[x] = order[x] /\ low'[x] = low[x] /\ order[x] < count
                  /\ low[x] <= order[x] /\ low[x] \in Int /\ order[x] \in Int
                  /\ Reaches(x, n)
  <2> DEFINE x == path[k].node
  <2>1. x \in OnStack /\ x \in Visited /\ x \in Node /\ path'[k].node = x
    BY <1>3, <1>5 DEF m
  <2>2. low[x] <= order[x]
    BY <1>3 DEF OrderInv, FrameInv
  <2>3. order[x] \in Int /\ low[x] \in Int
    BY <1>3, <2>1
  <2>4. m \in DOMAIN path /\ path # <<>> /\ path[m].node \in OnStack
    BY <1>3
  <2>5. order[x] <= order[path[m].node]
    <3>1. \A l \in DOMAIN path : k < l => order[x] < order[path[l].node]
      BY <1>3, NumbersGrow DEF OrderInv
    <3>2. order[path[m].node] \in Int
      BY <1>3, <2>4
    <3>3. k = m \/ k < m
      BY <1>3
    <3> QED BY <2>3, <2>4, <3>1, <3>2, <3>3
  <2>6. Reaches(x, path[m].node)
    BY <1>3, <2>4, <2>5 DEF OrderInv, FrameInv
  <2>7. Reaches(path[m].node, n)
    <3>1. n \in graph[path[m].node]
      BY <2>4 DEF m
    <3> QED BY <1>3, <2>4, <3>1, ReachesBasics
  <2>8. Reaches(x, n)
    BY <2>6, <2>7, ReachesBasics
  <2> QED BY <1>11, <2>1, <2>2, <2>3, <2>8
<1>18. FrameInv'
  <2> SUFFICES ASSUME NEW k \in 1 .. (m + 1)
               PROVE  LET node == path'[k].node
                      IN  /\ path'[k].left \subseteq graph'[node]
                          /\ low'[node] <= order'[node]
                          /\ \E t \in OnStack' : order'[t] = low'[node] /\ Reaches(node, t)
                          /\ \A y \in OnStack' : order'[node] <= order'[y] => Reaches(node, y)
    BY <1>5, <1>10 DEF FrameInv
  <2>1. CASE k = m + 1
    <3>1. path'[k].node = n /\ path'[k].left = graph[n] /\ Reaches(n, n)
      BY <1>5, <1>6, <2>1, ReachesBasics
    <3>2. ASSUME NEW y \in OnStack', order'[n] <= order'[y] PROVE y = n
      <4>1. SUFFICES ASSUME y \in Visited PROVE FALSE
        BY <1>3, <1>9
      <4>2. order[y] < count /\ order'[y] = order[y] /\ order[y] \in Int
        BY <1>3, <1>11, <4>1
      <4> QED BY <1>1, <1>7, <3>2, <4>2
    <3>3. n \in OnStack' /\ order'[n] = low'[n] /\ low'[n] <= order'[n]
      BY <1>1, <1>7, <1>9
    <3> QED BY <1>2, <3>1, <3>2, <3>3
  <2>2. CASE k \in 1 .. m
    <3> DEFINE x == path[k].node
    <3>1. /\ k \in DOMAIN path /\ path'[k].node = x
          /\ order'[x] = order[x] /\ low'[x] = low[x] /\ low[x] <= order[x]
          /\ Reaches(x, n)
      BY <1>3, <1>17, <2>2
    <3>2. path'[k].left \subseteq graph'[x]
      <4>1. path'[k].left \subseteq path[k].left
        BY <1>5, <2>2 DEF m
      <4> QED BY <1>2, <3>1, <4>1 DEF OrderInv, FrameInv
    <3>3. PICK t \in OnStack : order[t] = low[x] /\ Reaches(x, t)
      BY <3>1 DEF OrderInv, FrameInv
    <3>4. t \in OnStack' /\ order'[t] = low[x]
      BY <1>3, <1>9, <1>11, <3>3
    <3>5. ASSUME NEW y \in OnStack', order'[x] <= order'[y] PROVE Reaches(x, y)
      <4>1. CASE y = n
        BY <3>1, <4>1
      <4>2. CASE y \in OnStack
        <5>1. order[x] <= order[y]
          BY <1>3, <1>11, <3>1, <3>5, <4>2
        <5> QED BY <3>1, <4>2, <5>1 DEF OrderInv, FrameInv
      <4> QED BY <1>9, <4>1, <4>2
    <3> QED BY <3>1, <3>2, <3>3, <3>4, <3>5
  <2> QED BY <1>3, <2>1, <2>2
<1>19. ReturnInv'
  <2> SUFFICES ASSUME NEW y \in OnStack'
               PROVE  \E k \in DOMAIN path' :
                         order'[path'[k].node] <= order'[y] /\ Reaches(y, path'[k].node)
    BY <1>10 DEF ReturnInv
  <2>1. CASE y = n
    <3>1. m + 1 \in DOMAIN path' /\ path'[m + 1].node = n /\ Reaches(n, n)
      BY <1>3, <1>5, <1>6, ReachesBasics
    <3>2. order'[n] <= order'[n]
      BY <1>1, <1>7
    <3> QED BY <2>1, <3>1, <3>2
  <2>2. CASE y \in OnStack
    <3>1. PICK k \in DOMAIN path : order[path[k].node] <= order[y] /\ Reaches(y, path[k].node)
      BY <2>2 DEF OrderInv, ReturnInv
    <3>2. k \in DOMAIN path' /\ path'[k].node = path[k].node
          /\ order'[path[k].node] = order[path[k].node] /\ order'[y] = order[y]
      BY <1>3, <1>5, <1>11, <1>17, <2>2
    <3> QED BY <3>1, <3>2
  <2> QED BY <1>9, <2>1, <2>2
<1>20. LowInv'
  <2> SUFFICES ASSUME NEW k \in 1 .. (m + 1), NEW x \in OnStack', NEW y \in OnStack',
                      Owns(k, x)', Followed(x, y)'
               PROVE  low'[path'[k].node] <= order'[y]
    BY <1>5 DEF LowInv
  <2>1. CASE y = n
    <3>1. CASE k = m + 1
      BY <1>1, <1>5, <1>6, <1>7, <2>1, <3>1
    <3>2. CASE k \in 1 .. m
      <4> DEFINE z == path[k].node
      <4>1. path'[k].node = z /\ low'[z] = low[z] /\ low[z] <= order[z] /\ order[z] < count
            /\ low[z] \in Int /\ order[z] \in Int
        BY <1>17, <3>2
      <4> QED BY <1>1, <1>7, <2>1, <4>1
    <3> QED BY <1>3, <3>1, <3>2
  <2>2. CASE y # n
    <3>1. y \in OnStack /\ order'[y] = order[y] /\ x # n /\ Followed(x, y)
      BY <1>3, <1>9, <1>11, <1>14, <2>2
    <3>2. x \in OnStack /\ order'[x] = order[x] /\ order[x] < count /\ order[x] \in Int
      BY <1>3, <1>9, <1>11, <3>1
    <3>3. k # m + 1
      <4>1. SUFFICES ASSUME k = m + 1 PROVE FALSE
        OBVIOUS
      <4>2. order'[n] <= order'[x]
        BY <1>5, <1>6, <4>1 DEF Owns
      <4> QED BY <1>1, <1>7, <3>2, <4>2
    <3>4. k \in 1 .. m /\ path'[k].node = path[k].node
          /\ order'[path[k].node] = order[path[k].node]
          /\ low'[path[k].node] = low[path[k].node]
      <4>1. k \in 1 .. m
        BY <1>3, <3>3
      <4> QED BY <1>17, <4>1
    <3>5. Owns(k, x)
      <4>1. order[path[k].node] <= order[x]
        BY <3>2, <3>4 DEF Owns
      <4>2. ASSUME k < m PROVE order[x] < order[path[k + 1].node]
        <5>1. k + 1 \in 1 .. m /\ k < m + 1
          BY <1>3, <3>4, <4>2
        <5>2. path'[k + 1].node = path[k + 1].node
              /\ order'[path[k + 1].node] = order[path[k + 1].node]
          BY <1>17, <5>1
        <5>3. order'[x] < order'[path'[k + 1].node]
          BY <1>5, <5>1 DEF Owns
        <5> QED BY <3>2, <5>2, <5>3
      <4> QED BY <4>1, <4>2 DEF Owns, m
    <3>6. low[path[k].node] <= order[y]
      BY <1>3, <3>1, <3>2, <3>4, <3>5 DEF OrderInv, LowInv
    <3> QED BY <3>1, <3>4, <3>6
  <2> QED BY <2>1, <2>2
<1> QED BY <1>13, <1>15, <1>16, <1>18, <1>19, <1>20 DEF OrderInv

\* A followed edge to a node on the stack lowers what the frame reached.
LEMMA SeenOrdered ==
  ASSUME SearchInv, SearchInv', OrderInv, path # <<>>, NEW target \in Frame.left,
         target \in Visited,
         NEW rest, rest = [path EXCEPT ![Len(path)].left = @ \ {target}],
         path' = rest,
         low' = IF target \in OnStack
                THEN [low EXCEPT ![Frame.node] = Least(@, order[target])] ELSE low,
         UNCHANGED <<graph, order, stack, components>>
  PROVE  OrderInv'
<1> DEFINE m == Len(path)
           node == path[m].node
<1>1. /\ graph \in [Node -> SUBSET Node] /\ low \in [Node -> 0 .. N]
      /\ \A x \in Node : order[x] \in Int /\ order[x] >= 0 /\ low[x] \in Int
      /\ path \in Seq(FrameType) /\ m \in Nat \ {0} /\ DOMAIN path = 1 .. m
      /\ OnStack \subseteq Visited /\ Visited \subseteq Node
      /\ \A k \in DOMAIN path : path[k].node \in OnStack
  <2>1. low \in [Node -> 0 .. N]
    BY DEF SearchInv, SearchTypeOK
  <2>2. m # 0
    BY SearchForms
  <2> QED BY <2>1, <2>2, SearchForms
<1>2. /\ m \in 1 .. m /\ Frame.node = node /\ Frame.left = path[m].left
      /\ node \in OnStack /\ node \in Node
  BY <1>1 DEF Frame
<1>3. target \in graph[node] /\ target \in Node
  BY <1>1, <1>2 DEF OrderInv, FrameInv
<1>4. /\ DOMAIN path' = 1 .. m /\ Len(path') = m
      /\ \A k \in 1 .. m : /\ path'[k].node = path[k].node
                           /\ path'[k].left = path[k].left \ (IF k = m THEN {target} ELSE {})
  <2> DEFINE frame == [path[m] EXCEPT !.left = @ \ {target}]
  <2>1. path[m] \in FrameType
    BY <1>1
  <2>2. frame.node = path[m].node /\ frame.left = path[m].left \ {target}
    BY <2>1 DEF FrameType
  <2>3. path' = [path EXCEPT ![m] = frame]
    OBVIOUS
  <2> HIDE DEF frame, m
  <2>4. path \in [1 .. m -> FrameType]
    BY <1>1 DEF m
  <2>5. \A k \in 1 .. m : path'[k] = IF k = m THEN frame ELSE path[k]
    BY <2>3, <2>4
  <2>6. DOMAIN path' = 1 .. m
    BY <2>3, <2>4
  <2>7. Len(path') = m
    BY <1>1, <2>6, SearchForms
  <2> QED BY <2>2, <2>5, <2>6, <2>7
<1>5. /\ graph' = graph /\ order' = order /\ stack' = stack /\ components' = components
      /\ OnStack' = OnStack /\ Visited' = Visited /\ Placed' = Placed
  BY DEF OnStack, Visited, Placed
<1>6. \A x, y : Reaches(x, y)' <=> Reaches(x, y)
  BY <1>5 DEF Reaches
<1>7. /\ \A x \in Node \ {node} : low'[x] = low[x]
      /\ target \notin OnStack => low'[node] = low[node]
      /\ target \in OnStack => low'[node] = Least(low[node], order[target])
  BY <1>1, <1>2
<1>8. \A x \in Node : low'[x] <= low[x] /\ low'[x] \in Int
  <2>1. low'[node] <= low[node] /\ low'[node] \in Int
    BY <1>1, <1>2, <1>3, <1>7 DEF Least
  <2> QED BY <1>1, <1>7, <2>1
<1>9. target \in OnStack => low'[node] <= order[target]
  BY <1>1, <1>2, <1>3, <1>7 DEF Least
<1> HIDE DEF m
<1>10. \A x, y : Followed(x, y)' => Followed(x, y) \/ (x = node /\ y = target)
  <2> SUFFICES ASSUME NEW x, NEW y, Followed(x, y)', ~ (x = node /\ y = target)
               PROVE  Followed(x, y)
    OBVIOUS
  <2>1. y \in graph[x] /\ \A k \in 1 .. m : path'[k].node = x => y \notin path'[k].left
    BY <1>4, <1>5 DEF Followed
  <2>2. \A k \in 1 .. m : path[k].node = x => y \notin path[k].left
    BY <1>4, <2>1
  <2> QED BY <1>1, <2>1, <2>2 DEF Followed
<1>11. NumberInv' /\ PlacedInv'
  <2>1. NumberInv'
    BY <1>5 DEF OrderInv, NumberInv
  <2>2. PlacedInv'
    BY <1>5, <1>6 DEF OrderInv, PlacedInv
  <2> QED BY <2>1, <2>2
<1>12. EdgesInv'
  BY <1>5, <1>10 DEF OrderInv, EdgesInv
<1>13. FrameInv'
  <2> SUFFICES ASSUME NEW k \in 1 .. m
               PROVE  LET x == path[k].node
                      IN  /\ path'[k].left \subseteq graph[x]
                          /\ low'[x] <= order[x]
                          /\ \E t \in OnStack : order[t] = low'[x] /\ Reaches(x, t)
                          /\ \A y \in OnStack : order[x] <= order[y] => Reaches(x, y)
    BY <1>4, <1>5, <1>6 DEF FrameInv
  <2> DEFINE x == path[k].node
  <2>1. /\ path[k].left \subseteq graph[x] /\ low[x] <= order[x]
        /\ \E t \in OnStack : order[t] = low[x] /\ Reaches(x, t)
        /\ \A y \in OnStack : order[x] <= order[y] => Reaches(x, y)
        /\ x \in Node
    BY <1>1 DEF OrderInv, FrameInv
  <2>2. path'[k].left \subseteq graph[x]
    BY <1>4, <2>1
  <2> HIDE DEF x
  <2>3. low'[x] <= order[x]
    BY <1>1, <1>8, <2>1
  <2>4. \E t \in OnStack : order[t] = low'[x] /\ Reaches(x, t)
    <3>1. CASE low'[x] = low[x]
      BY <2>1, <3>1
    <3>2. CASE low'[x] # low[x]
      <4>1. x = node /\ target \in OnStack /\ low'[x] = order[target]
        BY <1>1, <1>7, <2>1, <3>2 DEF Least
      <4>2. Reaches(node, target)
        BY <1>2, <1>3, ReachesBasics
      <4> QED BY <4>1, <4>2
    <3> QED BY <3>1, <3>2
  <2> QED BY <2>1, <2>2, <2>3, <2>4 DEF x
<1>14. ReturnInv'
  BY <1>1, <1>4, <1>5, <1>6 DEF OrderInv, ReturnInv
<1>15. LowInv'
  <2> SUFFICES ASSUME NEW k \in 1 .. m, NEW x \in OnStack, NEW y \in OnStack,
                      Owns(k, x)', Followed(x, y)'
               PROVE  low'[path[k].node] <= order[y]
    BY <1>4, <1>5 DEF LowInv
  <2>1. Owns(k, x)
    <3>1. order[path[k].node] <= order[x]
      BY <1>4, <1>5 DEF Owns
    <3>2. k < m => order[x] < order[path[k + 1].node]
      <4> SUFFICES ASSUME k < m PROVE order[x] < order[path[k + 1].node]
        OBVIOUS
      <4>1. k + 1 \in 1 .. m
        BY <1>1
      <4>2. order'[x] < order'[path'[k + 1].node]
        BY <1>4 DEF Owns
      <4> QED BY <1>4, <1>5, <4>1, <4>2
    <3> QED BY <3>1, <3>2 DEF Owns, m
  <2>2. path[k].node \in Node /\ y \in Node
    BY <1>1
  <2>3. CASE Followed(x, y)
    <3>1. low[path[k].node] <= order[y]
      BY <1>1, <2>1, <2>3 DEF OrderInv, LowInv
    <3> QED BY <1>1, <1>8, <2>2, <3>1
  <2>4. CASE x = node /\ y = target
    <3>1. k = m
      <4>1. SUFFICES ASSUME k < m PROVE FALSE
        BY <1>1
      <4>2. k + 1 \in 1 .. m /\ order[x] < order[path[k + 1].node]
        BY <1>1, <2>1, <4>1 DEF Owns, m
      <4>3. k + 1 < m \/ k + 1 = m
        BY <1>1, <4>2
      <4>4. k + 1 < m => order[path[k + 1].node] < order[path[m].node]
        BY <1>1, <1>2, <4>2, NumbersGrow DEF OrderInv
      <4>5. order[path[k + 1].node] \in Int /\ order[path[m].node] \in Int /\ x = path[m].node
        BY <1>1, <1>2, <2>4, <4>2
      <4> QED BY <4>2, <4>3, <4>4, <4>5
    <3> QED BY <1>9, <2>4, <3>1
  <2> QED BY <1>10, <2>3, <2>4
<1> QED BY <1>11, <1>12, <1>13, <1>14, <1>15 DEF OrderInv

\* The frame that ends is the last: what it owned, the one before it owns.
LEMMA LeaveOrdered ==
  ASSUME SearchInv, SearchInv', OrderInv, LeaveNode
  PROVE  OrderInv'
<1> DEFINE m == Len(path)
           node == path[m].node
<1>1. /\ graph \in [Node -> SUBSET Node] /\ low \in [Node -> 0 .. N]
      /\ \A x \in Node : order[x] \in Int /\ order[x] >= 0 /\ low[x] \in Int
      /\ path \in Seq(FrameType) /\ m \in Nat \ {0} /\ DOMAIN path = 1 .. m
      /\ stack \in Seq(Node) /\ Len(stack) \in Nat /\ DOMAIN stack = 1 .. Len(stack)
      /\ components \in Seq(SUBSET Node)
      /\ OnStack \subseteq Visited /\ Visited \subseteq Node
      /\ \A k \in DOMAIN path : path[k].node \in OnStack /\ path[k].node \in Node
  <2>1. low \in [Node -> 0 .. N]
    BY DEF SearchInv, SearchTypeOK
  <2>2. m # 0
    BY SearchForms DEF LeaveNode
  <2> QED BY <2>1, <2>2, SearchForms
<1>2. /\ m \in 1 .. m /\ Frame.node = node /\ path[m].left = {}
      /\ node \in OnStack /\ node \in Node
  BY <1>1 DEF Frame, LeaveNode
<1>3. /\ path' = Outer /\ Len(Outer) = m - 1 /\ DOMAIN Outer = 1 .. (m - 1)
      /\ \A k \in 1 .. (m - 1) : Outer[k] = path[k] /\ k \in 1 .. m /\ k < m
  BY <1>1 DEF Outer, LeaveNode
<1>4. /\ graph' = graph /\ order' = order /\ Visited' = Visited /\ Close(node)
      /\ low' = IF Outer = <<>> THEN low
                ELSE [low EXCEPT ![Outer[Len(Outer)].node] = Least(@, low[node])]
  BY <1>2 DEF LeaveNode, Visited
<1> HIDE DEF m, node
<1>5. \A x, y : Reaches(x, y)' <=> Reaches(x, y)
  BY <1>4 DEF Reaches
<1>6. \A k \in 1 .. (m - 1) : order[path[k].node] < order[node]
  <2> SUFFICES ASSUME NEW k \in 1 .. (m - 1) PROVE order[path[k].node] < order[node]
    OBVIOUS
  <2>1. k \in DOMAIN path /\ m \in DOMAIN path /\ k < m
    BY <1>1, <1>2, <1>3
  <2> QED BY <2>1, NumbersGrow DEF OrderInv, node
<1> DEFINE outer == path[m - 1].node
<1>7. /\ m = 1 => low' = low
      /\ m # 1 => low' = [low EXCEPT ![outer] = Least(@, low[node])]
  <2>1. m = 1 <=> Outer = <<>>
    BY <1>1, <1>3 DEF Outer
  <2>2. m # 1 => Outer[Len(Outer)].node = outer
    BY <1>1, <1>3
  <2> QED BY <1>4, <2>1, <2>2
<1>8. m # 1 => /\ m - 1 \in 1 .. (m - 1) /\ m - 1 \in DOMAIN path
               /\ outer \in Node /\ outer \in OnStack
  BY <1>1
<1> HIDE DEF outer
<1>9. \A x \in Node : /\ low'[x] \in Int /\ low'[x] <= low[x]
                      /\ low'[x] = low[x] \/ (m # 1 /\ x = outer /\ low'[x] = low[node])
                      /\ m # 1 /\ x = outer => low'[x] <= low[node]
  <2>1. m # 1 => /\ low'[outer] = Least(low[outer], low[node])
                 /\ \A x \in Node \ {outer} : low'[x] = low[x]
    BY <1>1, <1>7, <1>8
  <2> QED BY <1>1, <1>2, <1>7, <1>8, <2>1 DEF Least
<1>10. \A x, y : Followed(x, y)' => Followed(x, y)
  <2> SUFFICES ASSUME NEW x, NEW y, Followed(x, y)' PROVE Followed(x, y)
    OBVIOUS
  <2>1. y \in graph[x] /\ \A k \in 1 .. (m - 1) : path[k].node = x => y \notin path[k].left
    BY <1>3, <1>4 DEF Followed
  <2>2. \A k \in 1 .. m : k \in 1 .. (m - 1) \/ k = m
    BY <1>1
  <2> QED BY <1>1, <1>2, <2>1, <2>2 DEF Followed
\* What the last two frames own, the one before the last owns now.
<1>11. ASSUME NEW k \in 1 .. (m - 1), NEW x \in OnStack, Owns(k, x)'
       PROVE  IF k = m - 1 /\ order[x] >= order[node] THEN Owns(m, x) ELSE Owns(k, x)
  <2>1. order[path[k].node] <= order[x] /\ order[x] \in Int /\ order[node] \in Int
    BY <1>1, <1>2, <1>3, <1>4, <1>11 DEF Owns
  <2>2. CASE k = m - 1
    <3>1. order[x] >= order[node] => Owns(m, x)
      BY <1>1, <2>1 DEF Owns, m, node
    <3>2. ~ (order[x] >= order[node]) => Owns(k, x)
      BY <1>1, <2>1, <2>2 DEF Owns, m, node
    <3> QED BY <2>2, <3>1, <3>2
  <2>3. CASE k # m - 1
    <3>1. k < m - 1 /\ k + 1 \in 1 .. (m - 1)
      BY <1>1, <2>3
    <3>2. order[x] < order[path[k + 1].node]
      BY <1>3, <1>4, <1>11, <3>1 DEF Owns
    <3> QED BY <2>1, <2>3, <3>2 DEF Owns
  <2> QED BY <2>2, <2>3
<1>12. ASSUME NEW k \in 1 .. (m - 1), NEW x \in OnStack, NEW y \in OnStack,
              Owns(k, x)', Followed(x, y)'
       PROVE  low'[path[k].node] <= order[y]
  <2>1. k \in DOMAIN path /\ m \in DOMAIN path /\ path[k].node \in Node /\ y \in Node
        /\ Followed(x, y)
    BY <1>1, <1>2, <1>3, <1>10, <1>12
  <2>2. low'[path[k].node] <= low[path[k].node] /\ low'[path[k].node] \in Int
        /\ low[path[k].node] \in Int /\ order[y] \in Int /\ low[node] \in Int
    BY <1>1, <1>2, <1>9, <2>1
  <2>3. CASE k = m - 1 /\ order[x] >= order[node]
    <3>1. Owns(m, x)
      BY <1>11, <1>12, <2>3
    <3>2. low[node] <= order[y]
      BY <2>1, <3>1 DEF OrderInv, LowInv, node
    <3>3. m # 1 /\ path[k].node = outer
      BY <1>1, <2>3 DEF outer
    <3>4. low'[path[k].node] <= low[node]
      BY <1>9, <2>1, <3>3
    <3> QED BY <2>2, <3>2, <3>4
  <2>4. CASE ~ (k = m - 1 /\ order[x] >= order[node])
    <3>1. Owns(k, x)
      BY <1>11, <1>12, <2>4
    <3>2. low[path[k].node] <= order[y]
      BY <2>1, <3>1 DEF OrderInv, LowInv
    <3> QED BY <2>2, <3>2
  <2> QED BY <2>3, <2>4
<1>13. EdgesInv'
  BY <1>4, <1>10 DEF OrderInv, EdgesInv
<1>14. /\ m \in DOMAIN path
       /\ low[node] <= order[node]
       /\ \A x \in OnStack : order[node] <= order[x] => Reaches(node, x)
  <2>1. m \in DOMAIN path
    BY <1>1, <1>2
  <2> QED BY <2>1 DEF OrderInv, FrameInv, node
\* Each remaining frame's node reaches that of the last.
<1>15. ASSUME NEW k \in 1 .. (m - 1)
       PROVE  /\ k \in DOMAIN path /\ path[k].node \in Node /\ path[k].node \in OnStack
              /\ path[k].left \subseteq graph[path[k].node]
              /\ low[path[k].node] <= order[path[k].node]
              /\ \A y \in OnStack : order[path[k].node] <= order[y] => Reaches(path[k].node, y)
              /\ Reaches(path[k].node, node)
              /\ order[path[k].node] < order[node]
  <2>1. k \in DOMAIN path /\ path[k].node \in Node /\ path[k].node \in OnStack
    BY <1>1, <1>3
  <2>2. /\ path[k].left \subseteq graph[path[k].node]
        /\ low[path[k].node] <= order[path[k].node]
        /\ \A y \in OnStack : order[path[k].node] <= order[y] => Reaches(path[k].node, y)
    BY <2>1 DEF OrderInv, FrameInv
  <2>3. order[path[k].node] < order[node]
    BY <1>6
  <2>4. order[path[k].node] <= order[node]
    BY <1>1, <1>2, <2>1, <2>3
  <2>5. Reaches(path[k].node, node)
    BY <1>2, <2>2, <2>4
  <2> QED BY <2>1, <2>2, <2>3, <2>5
<1>16. CASE low[node] # order[node]
  <2>1. stack' = stack /\ components' = components
    BY <1>4, <1>16 DEF Close
  <2>2. OnStack' = OnStack /\ Placed' = Placed
    BY <2>1 DEF OnStack, Placed
  <2>3. NumberInv'
    BY <1>4, <2>1 DEF OrderInv, NumberInv
  <2>4. PlacedInv'
    BY <1>4, <1>5, <2>1, <2>2 DEF OrderInv, PlacedInv
  \* The last node reaches a frame before its own.
  <2>5. PICK t \in OnStack : order[t] = low[node] /\ Reaches(node, t)
    BY <1>14 DEF OrderInv, FrameInv, node
  <2>6. order[t] < order[node]
    BY <1>1, <1>2, <1>14, <1>16, <2>5
  <2>7. PICK l \in DOMAIN path : order[path[l].node] <= order[t] /\ Reaches(t, path[l].node)
    BY DEF OrderInv, ReturnInv
  <2>8. l \in 1 .. (m - 1) /\ Reaches(node, path[l].node)
    <3>1. order[path[l].node] \in Int /\ order[t] \in Int /\ order[node] \in Int
      BY <1>1, <1>2
    <3>2. l # m
      BY <2>6, <2>7, <3>1 DEF node
    <3> QED BY <1>1, <2>5, <2>7, <3>2, ReachesBasics
  <2>9. ReturnInv'
    <3> SUFFICES ASSUME NEW y \in OnStack
                 PROVE  \E k \in 1 .. (m - 1) :
                          order[path[k].node] <= order[y] /\ Reaches(y, path[k].node)
      BY <1>3, <1>4, <1>5, <2>2 DEF ReturnInv
    <3>1. PICK k \in DOMAIN path : order[path[k].node] <= order[y] /\ Reaches(y, path[k].node)
      BY DEF OrderInv, ReturnInv
    <3>2. CASE k = m
      <4>1. Reaches(y, path[l].node)
        BY <2>8, <3>1, <3>2, ReachesBasics DEF node
      <4>2. order[node] <= order[y] /\ order[path[l].node] < order[node]
        BY <1>15, <2>8, <3>1, <3>2 DEF node
      <4>3. order[path[l].node] \in Int /\ order[y] \in Int /\ order[node] \in Int
        BY <1>1, <1>2
      <4>4. order[path[l].node] <= order[y]
        BY <4>2, <4>3
      <4> QED BY <2>8, <4>1, <4>4
    <3>3. CASE k # m
      <4>1. k \in 1 .. (m - 1)
        BY <1>1, <3>3
      <4> QED BY <3>1, <4>1
    <3> QED BY <3>2, <3>3
  <2>10. LowInv'
    BY <1>3, <1>4, <1>12, <2>2 DEF LowInv
  <2>11. FrameInv'
    <3> SUFFICES ASSUME NEW k \in 1 .. (m - 1)
                 PROVE  LET x == path[k].node
                        IN  /\ path[k].left \subseteq graph[x] /\ low'[x] <= order[x]
                            /\ \E u \in OnStack : order[u] = low'[x] /\ Reaches(x, u)
                            /\ \A y \in OnStack : order[x] <= order[y] => Reaches(x, y)
      BY <1>3, <1>4, <1>5, <2>2 DEF FrameInv
    <3> DEFINE x == path[k].node
    <3>1. /\ k \in DOMAIN path /\ x \in Node /\ low[x] <= order[x] /\ Reaches(x, node)
      BY <1>15
    <3>2. low'[x] <= order[x]
      BY <1>1, <1>9, <3>1
    <3>3. \E u \in OnStack : order[u] = low'[x] /\ Reaches(x, u)
      <4>1. CASE low'[x] = low[x]
        BY <3>1, <4>1 DEF OrderInv, FrameInv
      <4>2. CASE low'[x] = low[node]
        <5>1. Reaches(x, t)
          BY <2>5, <3>1, ReachesBasics
        <5> QED BY <2>5, <4>2, <5>1
      <4> QED BY <1>9, <3>1, <4>1, <4>2
    <3> QED BY <1>15, <3>2, <3>3
  <2> QED BY <1>13, <2>3, <2>4, <2>9, <2>10, <2>11 DEF OrderInv
<1>17. CASE low[node] = order[node]
  <2> DEFINE at == CHOOSE i \in DOMAIN stack : stack[i] = node
             C == {stack[i] : i \in at .. Len(stack)}
             c == Len(components)
  <2>1. at \in DOMAIN stack /\ stack[at] = node
    <3>1. \E i \in DOMAIN stack : stack[i] = node
      BY <1>2 DEF OnStack
    <3> QED BY <3>1
  <2>2. components' = Append(components, C) /\ stack' = SubSeq(stack, 1, at - 1)
    BY <1>4, <1>17 DEF Close
  <2> HIDE DEF at
  <2>3. /\ DOMAIN stack' = 1 .. (at - 1) /\ at \in 1 .. Len(stack)
        /\ \A i \in 1 .. (at - 1) : stack'[i] = stack[i] /\ i \in DOMAIN stack /\ i < at
    BY <1>1, <2>1, <2>2
  \* The component is what is on the stack from the node on.
  <2>4. \A x : x \in C <=> x \in OnStack /\ order[node] <= order[x]
    <3>1. ASSUME NEW x \in C PROVE x \in OnStack /\ order[node] <= order[x]
      <4>1. PICK i \in at .. Len(stack) : stack[i] = x
        OBVIOUS
      <4>2. i \in DOMAIN stack /\ (at = i \/ at < i)
        BY <1>1, <2>3, <4>1
      <4>3. x \in OnStack /\ order[x] \in Int /\ order[node] \in Int
        BY <1>1, <1>2, <4>1, <4>2 DEF OnStack
      <4>4. at < i => order[stack[at]] < order[stack[i]]
        BY <2>1, <4>2 DEF OrderInv, NumberInv
      <4> QED BY <2>1, <4>1, <4>2, <4>3, <4>4
    <3>2. ASSUME NEW x \in OnStack, order[node] <= order[x] PROVE x \in C
      <4>1. PICK i \in DOMAIN stack : stack[i] = x
        BY DEF OnStack
      <4>2. i < at => order[x] < order[node]
        BY <2>1, <4>1 DEF OrderInv, NumberInv
      <4>3. i \in at .. Len(stack)
        BY <1>1, <1>2, <2>3, <3>2, <4>1, <4>2
      <4> QED BY <4>1, <4>3
    <3> QED BY <3>1, <3>2
  <2>5. OnStack' = OnStack \ C
    <3>1. ASSUME NEW x \in OnStack' PROVE x \in OnStack \ C
      <4>1. PICK i \in 1 .. (at - 1) : stack'[i] = x
        BY <2>3 DEF OnStack
      <4>2. stack[i] = x /\ i \in DOMAIN stack /\ i < at
        BY <2>3, <4>1
      <4>3. order[x] < order[node] /\ x \in OnStack
        BY <2>1, <4>2 DEF OrderInv, NumberInv, OnStack
      <4>4. ~ (order[node] <= order[x])
        BY <1>1, <1>2, <4>3
      <4> QED BY <2>4, <4>3, <4>4
    <3>2. ASSUME NEW x \in OnStack \ C PROVE x \in OnStack'
      <4>1. PICK i \in DOMAIN stack : stack[i] = x
        BY DEF OnStack
      <4>2. i \notin at .. Len(stack)
        BY <4>1
      <4>3. i \in 1 .. (at - 1)
        BY <1>1, <2>3, <4>1, <4>2
      <4> QED BY <2>3, <4>1, <4>3 DEF OnStack
    <3> QED BY <3>1, <3>2
  <2> HIDE DEF C
  <2>6. C \subseteq Node /\ C \subseteq OnStack
    BY <1>1, <2>4
  <2>7. /\ c \in Nat /\ DOMAIN components = 1 .. c /\ DOMAIN components' = 1 .. (c + 1)
        /\ \A i \in 1 .. c : components'[i] = components[i]
        /\ components'[c + 1] = C
    BY <1>1, <2>2, <2>6
  <2> HIDE DEF c
  <2>8. Placed' = Placed \cup C
    <3>1. \A x : x \in Placed' <=> \E i \in 1 .. (c + 1) : x \in components'[i]
      BY <2>7 DEF Placed
    <3>2. \A x : x \in Placed <=> \E i \in 1 .. c : x \in components[i]
      BY <2>7 DEF Placed
    <3>3. \A i \in 1 .. (c + 1) : i \in 1 .. c \/ i = c + 1
      BY <2>7
    <3>4. c + 1 \in 1 .. (c + 1) /\ \A i \in 1 .. c : i \in 1 .. (c + 1)
      BY <2>7
    <3>5. ASSUME NEW x \in Placed' PROVE x \in Placed \cup C
      BY <2>7, <3>1, <3>2, <3>3
    <3>6. ASSUME NEW x \in Placed \cup C PROVE x \in Placed'
      BY <2>7, <3>1, <3>2, <3>4
    <3> QED BY <3>5, <3>6
  <2>9. NumberInv'
    <3>1. \A i, j \in DOMAIN stack' : i < j => order'[stack'[i]] < order'[stack'[j]]
      BY <1>4, <2>3 DEF OrderInv, NumberInv
    <3> QED BY <1>4, <3>1 DEF OrderInv, NumberInv
  \* Its members reach each other, and nothing else that is on the stack.
  <2>10. \A x, y \in C : Reaches(x, y)
    <3> SUFFICES ASSUME NEW x \in C, NEW y \in C PROVE Reaches(x, y)
      OBVIOUS
    <3>1. Reaches(node, y)
      BY <1>14, <2>4
    <3>2. PICK k \in DOMAIN path : Reaches(x, path[k].node)
      BY <2>6 DEF OrderInv, ReturnInv
    <3>3. Reaches(path[k].node, node)
      <4>1. CASE k = m
        BY <1>2, <4>1, ReachesBasics DEF node
      <4>2. CASE k # m
        BY <1>1, <1>15, <4>2
      <4> QED BY <4>1, <4>2
    <3> QED BY <3>1, <3>2, <3>3, ReachesBasics
  <2>11. ASSUME NEW x \in C, NEW y \in graph[x] PROVE y \in C \/ y \in Placed
    <3>1. y \in Node /\ x \in OnStack /\ order[node] <= order[x] /\ x \in Visited
      BY <1>1, <2>4, <2>6, <2>11
    <3>2. Followed(x, y)
      <4>1. \A k \in 1 .. (m - 1) : path[k].node # x
        BY <1>1, <1>2, <1>15, <3>1
      <4>2. \A k \in 1 .. m : k \in 1 .. (m - 1) \/ k = m
        BY <1>1
      <4> QED BY <1>1, <1>2, <2>11, <4>1, <4>2 DEF Followed
    <3>3. y \in OnStack \/ y \in Placed
      BY <3>1, <3>2 DEF OrderInv, EdgesInv, PlacedInv
    <3>4. ASSUME y \in OnStack PROVE order[node] <= order[y]
      <4>1. Owns(m, x)
        BY <1>1, <3>1 DEF Owns, m, node
      <4>2. low[node] <= order[y]
        BY <1>14, <3>1, <3>2, <3>4, <4>1 DEF OrderInv, LowInv, node
      <4> QED BY <1>17, <4>2
    <3> QED BY <2>4, <3>3, <3>4
  <2>12. PlacedInv'
    <3>0. Visited = OnStack \cup Placed /\ OnStack \cap Placed = {}
      BY DEF OrderInv, PlacedInv
    <3>1. Visited' = OnStack' \cup Placed' /\ OnStack' \cap Placed' = {}
      BY <1>4, <2>5, <2>6, <2>8, <3>0
    <3>2. C \cap Placed = {}
      BY <2>6, <3>0
    <3>3. \A j \in 1 .. c : components[j] \subseteq Placed
      BY <2>7 DEF Placed
    <3>4. \A j \in 1 .. (c + 1) : j \in 1 .. c \/ j = c + 1
      BY <2>7
    <3>5. \A j \in 1 .. c : j \in 1 .. (c + 1) /\ j <= c + 1
      BY <2>7
    <3>6. c + 1 \in 1 .. (c + 1)
      BY <2>7
    <3> SUFFICES ASSUME NEW i \in 1 .. (c + 1), NEW x \in components'[i]
                 PROVE  /\ \A j \in 1 .. (c + 1) : x \in components'[j] => i = j
                        /\ \A y \in components'[i] : Reaches(x, y)
                        /\ \A y \in graph[x] : \E j \in 1 .. (c + 1) :
                              j <= i /\ y \in components'[j]
      BY <1>4, <1>5, <2>7, <3>1 DEF PlacedInv
    <3>7. CASE i = c + 1
      <4>1. x \in C
        BY <2>7, <3>7
      <4>2. ASSUME NEW j \in 1 .. (c + 1), x \in components'[j] PROVE i = j
        BY <2>7, <3>2, <3>3, <3>4, <3>7, <4>1, <4>2
      <4>3. ASSUME NEW y \in graph[x] PROVE \E j \in 1 .. (c + 1) : j <= i /\ y \in components'[j]
        <5>1. CASE y \in C
          <6>1. c + 1 <= i
            BY <2>7, <3>7
          <6> QED BY <2>7, <3>6, <5>1, <6>1
        <5>2. CASE y \in Placed
          <6>1. PICK j \in 1 .. c : y \in components[j]
            BY <2>7, <5>2 DEF Placed
          <6> QED BY <2>7, <3>5, <3>7, <6>1
        <5> QED BY <2>11, <4>1, <5>1, <5>2
      <4> QED BY <2>7, <2>10, <3>7, <4>1, <4>2, <4>3
    <3>8. CASE i \in 1 .. c
      <4>1. i \in DOMAIN components /\ x \in components[i] /\ components'[i] = components[i]
        BY <2>7, <3>8
      <4>2. /\ \A j \in DOMAIN components : x \in components[j] => i = j
            /\ \A y \in components[i] : Reaches(x, y)
            /\ \A y \in graph[x] : \E j \in DOMAIN components : j <= i /\ y \in components[j]
        BY <4>1 DEF OrderInv, PlacedInv
      <4>3. x \notin C
        BY <3>2, <3>3, <3>8, <4>1
      <4>4. ASSUME NEW j \in 1 .. (c + 1), x \in components'[j] PROVE i = j
        BY <2>7, <3>4, <4>2, <4>3, <4>4
      <4>5. ASSUME NEW y \in graph[x] PROVE \E j \in 1 .. (c + 1) : j <= i /\ y \in components'[j]
        <5>1. PICK j \in DOMAIN components : j <= i /\ y \in components[j]
          BY <4>2
        <5>2. j \in 1 .. (c + 1) /\ y \in components'[j]
          BY <2>7, <3>5, <5>1
        <5> QED BY <5>1, <5>2
      <4> QED BY <4>1, <4>2, <4>4, <4>5
    <3> QED BY <3>4, <3>7, <3>8
  <2>13. \A k \in 1 .. (m - 1) : path[k].node \in OnStack'
    <3> SUFFICES ASSUME NEW k \in 1 .. (m - 1) PROVE path[k].node \in OnStack'
      OBVIOUS
    <3>1. ~ (order[node] <= order[path[k].node])
      BY <1>1, <1>2, <1>15
    <3> QED BY <1>15, <2>4, <2>5, <3>1
  \* The frames that are left were reached by nothing that is closed.
  <2>14. FrameInv'
    <3> SUFFICES ASSUME NEW k \in 1 .. (m - 1)
                 PROVE  LET x == path[k].node
                        IN  /\ path[k].left \subseteq graph[x] /\ low'[x] <= order[x]
                            /\ \E u \in OnStack' : order[u] = low'[x] /\ Reaches(x, u)
                            /\ \A y \in OnStack' : order[x] <= order[y] => Reaches(x, y)
      BY <1>3, <1>4, <1>5 DEF FrameInv
    <3> DEFINE x == path[k].node
    <3>1. /\ k \in DOMAIN path /\ x \in Node /\ low[x] <= order[x] /\ order[x] < order[node]
      BY <1>15
    <3>2. low[x] < low[node] /\ low'[x] <= low[x] /\ low'[x] = low[x]
      <4>1. low[x] < low[node]
        BY <1>1, <1>2, <1>17, <3>1
      <4>2. m # 1 /\ x = outer => low'[x] = low[x]
        <5>1. m # 1 => low'[outer] = Least(low[outer], low[node])
          BY <1>1, <1>7, <1>8
        <5> QED BY <1>1, <1>2, <3>1, <4>1, <5>1 DEF Least
      <4> QED BY <1>1, <1>9, <3>1, <4>1, <4>2
    <3>3. PICK u \in OnStack : order[u] = low[x] /\ Reaches(x, u)
      BY <3>1 DEF OrderInv, FrameInv
    <3>4. u \notin C
      <4>1. order[u] < order[node]
        BY <1>1, <1>2, <1>17, <3>2, <3>3
      <4> QED BY <1>1, <1>2, <2>4, <4>1
    <3> QED BY <1>15, <2>5, <3>1, <3>2, <3>3, <3>4
  <2>15. ReturnInv'
    <3> SUFFICES ASSUME NEW y \in OnStack'
                 PROVE  \E k \in 1 .. (m - 1) :
                          order[path[k].node] <= order[y] /\ Reaches(y, path[k].node)
      BY <1>3, <1>4, <1>5 DEF ReturnInv
    <3>1. PICK k \in DOMAIN path : order[path[k].node] <= order[y] /\ Reaches(y, path[k].node)
      BY <2>5 DEF OrderInv, ReturnInv
    <3>2. ~ (order[node] <= order[y])
      BY <2>4, <2>5
    <3>3. k # m
      BY <3>1, <3>2 DEF node
    <3>4. k \in 1 .. (m - 1)
      BY <1>1, <3>3
    <3> QED BY <3>1, <3>4
  <2>16. LowInv'
    BY <1>3, <1>4, <1>12, <2>5 DEF LowInv
  <2> QED BY <1>13, <2>9, <2>12, <2>14, <2>15, <2>16 DEF OrderInv
<1> QED BY <1>16, <1>17

LEMMA SearchOrdered == ASSUME SearchInv, OrderInv, Search PROVE OrderInv'
<1>0. SearchInv'
  BY SearchStep
<1>1. CASE NextRoot
  <2>1. path = <<>> /\ Visited # Node /\ Visit(Min(Node \ Visited), <<>>)
    BY <1>1 DEF NextRoot
  <2>2. Node \ Visited # {}
    BY <2>1 DEF Visited
  <2>3. Min(Node \ Visited) \in Node \ Visited
    BY <2>2, FirstFunction
  <2>4. /\ <<>> \in Seq(FrameType) /\ Len(<<>>) = Len(path)
        /\ \A k \in 1 .. Len(path) : FALSE
    BY <2>1
  <2>5. \A n \in Node \ Visited : Visit(n, <<>>) => OrderInv'
    <3> SUFFICES ASSUME NEW n \in Node \ Visited, Visit(n, <<>>) PROVE OrderInv'
      OBVIOUS
    <3> QED BY <2>1, <2>4, VisitOrdered
  <2> QED BY <2>1, <2>3, <2>5
<1>2. CASE FollowEdge
  <2>1. /\ path \in Seq(FrameType) /\ path # <<>> /\ Len(path) \in DOMAIN path
        /\ DOMAIN path = 1 .. Len(path) /\ Frame = path[Len(path)] /\ Frame \in FrameType
        /\ path \in [1 .. Len(path) -> FrameType] /\ Len(path) \in Nat
    <3>1. path \in Seq(FrameType) /\ path # <<>>
      BY <1>2, SearchForms DEF FollowEdge
    <3> QED BY <3>1 DEF Frame
  <2>2. PICK target \in Frame.left :
          LET rest == [path EXCEPT ![Len(path)].left = @ \ {target}]
          IN IF target \notin Visited THEN Visit(target, rest)
             ELSE /\ path' = rest
                  /\ low' = IF target \in OnStack
                            THEN [low EXCEPT ![Frame.node] = Least(@, order[target])]
                            ELSE low
                  /\ UNCHANGED <<graph, order, stack, components>>
    BY <1>2 DEF FollowEdge
  <2> DEFINE rest == [path EXCEPT ![Len(path)].left = @ \ {target}]
  <2>3. CASE target \in Visited
    <3>1. /\ path' = rest
          /\ low' = IF target \in OnStack
                    THEN [low EXCEPT ![Frame.node] = Least(@, order[target])] ELSE low
          /\ UNCHANGED <<graph, order, stack, components>>
      BY <2>2, <2>3
    <3> QED BY <1>0, <2>1, <2>3, <3>1, SeenOrdered
  <2>4. CASE target \notin Visited
    <3>1. Visit(target, rest)
      BY <2>2, <2>4
    <3>2. target \in Node
      BY <2>1 DEF FrameType
    <3>3. target \in graph[path[Len(path)].node]
      BY <2>1 DEF OrderInv, FrameInv
    <3> DEFINE frame == [path[Len(path)] EXCEPT !.left = @ \ {target}]
    <3>4. /\ frame \in FrameType /\ frame.node = path[Len(path)].node
          /\ frame.left = path[Len(path)].left \ {target}
      BY <2>1 DEF FrameType
    <3>5. rest = [path EXCEPT ![Len(path)] = frame]
      OBVIOUS
    <3> HIDE DEF frame
    <3>6. \A k \in 1 .. Len(path) : rest[k] = IF k = Len(path) THEN frame ELSE path[k]
      BY <2>1, <3>5
    <3>7. rest \in [1 .. Len(path) -> FrameType]
      BY <2>1, <3>4, <3>5
    <3> HIDE DEF rest
    <3>8. rest \in Seq(FrameType) /\ Len(rest) = Len(path)
      BY <2>1, <3>7
    <3>9. \A k \in 1 .. Len(path) : /\ rest[k].node = path[k].node
                                    /\ rest[k].left \subseteq path[k].left
                                    /\ path[k].left \ rest[k].left \subseteq {target}
      BY <3>4, <3>6
    <3> QED BY <2>4, <3>1, <3>2, <3>3, <3>8, <3>9, VisitOrdered
  <2> QED BY <2>3, <2>4
<1>3. CASE LeaveNode
  BY <1>0, <1>3, LeaveOrdered
<1> QED BY <1>1, <1>2, <1>3 DEF Search

\* What reaches and is reached is of one component.
LEMMA SearchedOrdered == ASSUME SearchInv, OrderInv PROVE ComponentsOrdered
<1> SUFFICES ASSUME Searched
             PROVE  /\ UNION {components[i] : i \in DOMAIN components} = Node
                    /\ \A i, j \in DOMAIN components :
                        \A m \in components[i], n \in components[j] :
                            /\ (i = j) <=> SameComponent(m, n)
                            /\ j > i => n \notin graph[m]
  BY DEF ComponentsOrdered
<1>1. path = <<>> /\ Visited = Node
  BY DEF Searched
<1>2. OnStack = {}
  BY <1>1 DEF OrderInv, ReturnInv
<1>3. Placed = Node
  BY <1>1, <1>2 DEF OrderInv, PlacedInv
<1>4. /\ components \in Seq(SUBSET Node) /\ DOMAIN components = 1 .. Len(components)
      /\ Len(components) \in Nat
  BY SearchForms
<1>5. \A i \in DOMAIN components : \A m \in components[i] :
          /\ \A j \in DOMAIN components : m \in components[j] => i = j
          /\ \A n \in components[i] : Reaches(m, n)
          /\ \A n \in graph[m] : \E j \in DOMAIN components : j <= i /\ n \in components[j]
  BY DEF OrderInv, PlacedInv
\* From a component only that and earlier ones are reached.
<1>6. ASSUME NEW i \in DOMAIN components, NEW j \in DOMAIN components,
             NEW m \in components[i], NEW n \in components[j], Reaches(m, n)
      PROVE  j <= i
  <2> DEFINE S == {k \in Node : \E l \in DOMAIN components : l <= i /\ k \in components[l]}
  <2>1. m \in S
    BY <1>4
  <2>2. ASSUME NEW k \in S PROVE graph[k] \subseteq S
    <3>1. PICK l \in DOMAIN components : l <= i /\ k \in components[l]
      OBVIOUS
    <3>2. ASSUME NEW x \in graph[k] PROVE x \in S
      <4>1. PICK h \in DOMAIN components : h <= l /\ x \in components[h]
        BY <1>5, <3>1
      <4>2. h <= i /\ x \in Node
        BY <1>4, <3>1, <4>1
      <4> QED BY <4>1, <4>2
    <3> QED BY <3>2
  <2>3. n \in S
    BY <1>6, <2>1, <2>2, S \in SUBSET Node DEF Reaches
  <2> QED BY <1>5, <2>3
<1>7. ASSUME NEW i \in DOMAIN components, NEW j \in DOMAIN components,
             NEW m \in components[i], NEW n \in components[j]
      PROVE  /\ (i = j) <=> SameComponent(m, n)
             /\ j > i => n \notin graph[m]
  <2>1. i = j => SameComponent(m, n)
    BY <1>5 DEF SameComponent
  <2>2. SameComponent(m, n) => i = j
    <3>1. SameComponent(m, n) => j <= i /\ i <= j
      BY <1>6 DEF SameComponent
    <3> QED BY <1>4, <3>1
  <2>3. ASSUME n \in graph[m] PROVE ~ (j > i)
    <3>1. Reaches(m, n)
      BY <1>4, <2>3, ReachesBasics
    <3>2. j <= i
      BY <1>6, <3>1
    <3> QED BY <1>4, <3>2
  <2> QED BY <2>1, <2>2, <2>3
<1> QED BY <1>3, <1>7 DEF Placed

\* A behaviour that has not searched has placed nothing.
Unsearched == \A n \in Node : order[n] = 0

LEMMA UnsearchedOrdered == ASSUME SearchInv, Unsearched PROVE ComponentsOrdered
<1> SUFFICES ASSUME Searched
             PROVE  /\ UNION {components[i] : i \in DOMAIN components} = Node
                    /\ \A i \in DOMAIN components : components[i] = {}
  BY DEF ComponentsOrdered
<1>1. Node = {}
  BY DEF Searched, Visited, Unsearched
<1>2. components \in Seq(SUBSET Node)
  BY SearchForms
<1>3. \A i \in DOMAIN components : components[i] = {}
  BY <1>1, <1>2
<1> QED BY <1>1, <1>3

-----------------------------------------------------------------------------
Body == SUBSET Path
ReadsOf(body, ret, bare) == UNION {PathReads(p, ret, bare) : p \in body}

\* What a body returns is a type, or bottom where it reads a function at
\* bottom.
LEMMA ResultForms ==
  ASSUME NEW body \in Body, NEW ret \in [Node -> Types], NEW bare, NEW caps, NEW att
  PROVE  LET reads == UNION {PathReads(p, ret, bare) : p \in body}
             result == Result(body, ret, bare, caps, att)
         IN  /\ result \in Types \cup {Bottom}
             /\ bare = {} => result \in Types
<1> DEFINE types == {PathType(p, ret, bare, caps, att) : p \in body} \ {Bottom}
           reads == UNION {PathReads(p, ret, bare) : p \in body}
<1>1. ASSUME NEW p \in body PROVE PathType(p, ret, bare, caps, att) \in Types \cup {Bottom}
  <2>1. p.callee \in Node /\ p.method \in Node
        /\ p.kind \in {"own", "call", "list", "method", "attach", "package", "forward"}
    BY DEF Body, Path
  <2> DEFINE callee == IF p.callee \in bare THEN Bottom ELSE ret[p.callee]
  <2>2. callee \in Types \cup {Bottom} /\ ret[p.method] \in Types
    BY <2>1
  <2>3. 0 \in Types
    BY FixpointAssumption DEF Types, Unknown
  <2>4. CASE p.kind \in {"own", "attach"}
    BY <2>3, <2>4 DEF PathType
  <2>5. CASE p.kind = "package"
    BY <2>3, <2>5, UnknownIsTop DEF PathType
  <2>6. CASE p.kind = "forward"
    <3>1. 1 \in Types
      BY FixpointAssumption DEF Types, Unknown
    <3> QED BY <2>3, <2>6, <3>1 DEF PathType
  <2>7. CASE p.kind = "call"
    <3>1. PathType(p, ret, bare, caps, att) = callee
      BY <2>7 DEF PathType
    <3> QED BY <2>2, <3>1
  <2>8. CASE p.kind = "list"
    <3>1. PathType(p, ret, bare, caps, att) =
            IF callee \in {Bottom, Unknown} THEN callee ELSE callee + 1
      BY <2>8 DEF PathType
    <3> HIDE DEF callee
    <3>2. callee \in Types \ {Unknown} => callee + 1 \in Types
      BY FixpointAssumption DEF Types, Unknown
    <3> QED BY <2>2, <3>1, <3>2
  <2>9. CASE p.kind = "method"
    <3>1. PathType(p, ret, bare, caps, att) =
            IF callee \in {Bottom, 0, Unknown} THEN callee
            ELSE IF p.method \in bare THEN Bottom ELSE ret[p.method]
      BY <2>9 DEF PathType
    <3> HIDE DEF callee
    <3> QED BY <2>2, <3>1
  <2> QED BY <2>1, <2>4, <2>5, <2>6, <2>7, <2>8, <2>9
<1>2. types \in SUBSET Types
  BY <1>1
<1>3. Result(body, ret, bare, caps, att) =
        IF types # {} THEN Max(types)
        ELSE IF reads \cap bare # {} THEN Bottom ELSE Unknown
  BY DEF Result
<1> HIDE DEF types
<1>4. types # {} => Max(types) \in Types
  BY <1>2, GreatestType
<1> QED BY <1>3, <1>4, UnknownIsTop

\* A body depends on the slots that it reads: where none of them changes, and
\* none of the modes, neither do its reads or its result.
LEMMA DependsOnReads ==
  ASSUME NEW body \in Body, NEW ret, NEW bare, NEW caps, NEW att,
         NEW ret2, NEW bare2, NEW caps2,
         \A g \in ReadsOf(body, ret, bare) :
            ret2[g] = ret[g] /\ (g \in bare2 <=> g \in bare) /\ (g \in caps2 <=> g \in caps)
  PROVE  /\ ReadsOf(body, ret2, bare2) = ReadsOf(body, ret, bare)
         /\ Result(body, ret2, bare2, caps2, att) = Result(body, ret, bare, caps, att)
<1> DEFINE Same(g) == /\ ret2[g] = ret[g] /\ (g \in bare2 <=> g \in bare)
                      /\ (g \in caps2 <=> g \in caps)
<1>1. ASSUME NEW p \in body
      PROVE  /\ PathReads(p, ret2, bare2) = PathReads(p, ret, bare)
             /\ PathType(p, ret2, bare2, caps2, att) = PathType(p, ret, bare, caps, att)
             /\ PathReads(p, ret, bare) \subseteq Node
  <2>1. p.callee \in Node /\ p.method \in Node
        /\ p.kind \in {"own", "call", "list", "method", "attach", "package", "forward"}
    BY DEF Body, Path
  <2>2. \A g \in PathReads(p, ret, bare) : Same(g)
    BY DEF ReadsOf
  <2> HIDE DEF Same
  <2>3. CASE p.kind \in {"own", "attach", "package"}
    BY <2>3 DEF PathReads, PathType
  <2>4. CASE p.kind \in {"call", "list", "forward"}
    <3>1. PathReads(p, ret, bare) = {p.callee} /\ PathReads(p, ret2, bare2) = {p.callee}
      BY <2>4 DEF PathReads
    <3>2. Same(p.callee)
      BY <2>1, <2>2, <3>1
    <3>3. PathType(p, ret2, bare2, caps2, att) = PathType(p, ret, bare, caps, att)
      BY <2>4, <3>2 DEF PathType, Same
    <3> QED BY <2>1, <3>1, <3>3
  <2>5. CASE p.kind = "method"
    <3> DEFINE few(r, b) == p.callee \in b \/ r[p.callee] \in {0, Unknown}
    <3>1. \A r, b : PathReads(p, r, b) = {p.callee} \cup IF few(r, b) THEN {} ELSE {p.method}
      BY <2>5 DEF PathReads
    <3>2. Same(p.callee)
      BY <2>1, <2>2, <3>1
    <3>3. few(ret2, bare2) <=> few(ret, bare)
      BY <3>2 DEF Same
    <3>4. ~ few(ret, bare) => Same(p.method)
      BY <2>1, <2>2, <3>1
    <3>5. \A r, b, c : PathType(p, r, b, c, att) =
             LET callee == IF p.callee \in b THEN Bottom ELSE r[p.callee]
             IN  IF callee \in {Bottom, 0, Unknown} THEN callee
                 ELSE IF p.method \in b THEN Bottom ELSE r[p.method]
      BY <2>5 DEF PathType
    <3>6. PathType(p, ret2, bare2, caps2, att) = PathType(p, ret, bare, caps, att)
      <4>1. CASE few(ret, bare)
        BY <3>2, <3>5, <4>1 DEF Same
      <4>2. CASE ~ few(ret, bare)
        BY <3>2, <3>4, <3>5, <4>2 DEF Same
      <4> QED BY <4>1, <4>2
    <3>7. PathReads(p, ret2, bare2) = PathReads(p, ret, bare)
      BY <3>1, <3>3
    <3> QED BY <2>1, <3>1, <3>6, <3>7
  <2> QED BY <2>1, <2>3, <2>4, <2>5
<1> DEFINE reads == UNION {PathReads(p, ret, bare) : p \in body}
<1>2. UNION {PathReads(p, ret2, bare2) : p \in body} = reads
      /\ ReadsOf(body, ret, bare) = reads
  BY <1>1 DEF ReadsOf
<1>3. bare2 \cap reads = bare \cap reads
  BY <1>1 DEF ReadsOf
<1>4. {PathType(p, ret2, bare2, caps2, att) : p \in body}
        = {PathType(p, ret, bare, caps, att) : p \in body}
  BY <1>1
<1>5. Result(body, ret2, bare2, caps2, att) = Result(body, ret, bare, caps, att)
  BY <1>2, <1>3, <1>4 DEF Result
<1> QED BY <1>2, <1>5 DEF ReadsOf

-----------------------------------------------------------------------------
(***************************************************************************)
(* What is stored is current: of a function that no visit is due, what its *)
(* body reads is on record and inferring it once more yields what is       *)
(* stored, or bottom where it still reads a function at bottom; or its     *)
(* component was widened and it is unknown.                                *)
(***************************************************************************)

Recording(f) == \A g \in Reads(f) : f \in callers[g]
Inferred1(f) == Result(program[f], returns, uncomputed, captures, attached)
Current(f) ==
    \/ f \in widened /\ returns[f] = Unknown
    \/ /\ Recording(f) /\ (Attaches(f) => attached)
       /\ Inferred1(f) \in {returns[f], Bottom}

Due == pending \cup queue

StoreTypes ==
    /\ program \in [Node -> Body] /\ scope \subseteq Node
    /\ returns \in [Node -> Types] /\ uncomputed \subseteq scope
    /\ \A f \in uncomputed : returns[f] = Unknown
    /\ callers \in [Node -> SUBSET scope]
    /\ pending \subseteq scope /\ queue \subseteq scope
    /\ attached \in BOOLEAN /\ before \in BOOLEAN

\* Whom a visit is due, and what the passes keep
DueInv ==
    /\ phase # "settle" => queue = {}
    /\ phase = "settle" => queue \subseteq Component
    /\ phase # "done" => uncomputed \subseteq pending \cup (IF phase = "settle" THEN Component ELSE {})
    /\ (before => attached)
    /\ phase = "pass" /\ attached # before => scope \subseteq pending
    /\ ~ evaluationPending => Inherited = {}

CurrentInv == phase # "done" /\ attached = before => \A f \in scope \ Due : Current(f)

\* At the end, where the loop was not cut off
EndInv == phase = "done" /\ Settled =>
            /\ uncomputed = {} /\ Inherited = {}
            /\ \A f \in scope : Current(f)

StoreInv == StoreTypes /\ DueInv /\ CurrentInv /\ EndInv

LEMMA StoreStart == Init => StoreInv
<1> SUFFICES ASSUME Init PROVE StoreInv
  OBVIOUS
<1>1. StoreTypes
  <2>1. program \in [Node -> Body] /\ scope \subseteq Node
    BY FixpointAssumption DEF Init, Body
  <2>2. 0 \in Types
    BY FixpointAssumption DEF Types, Unknown
  <2> QED BY <2>1, <2>2, UnknownIsTop DEF Init, StoreTypes
<1>2. DueInv
  BY DEF Init, DueInv
<1>3. CurrentInv
  BY DEF Init, CurrentInv, Due
<1>4. EndInv
  BY DEF Init, EndInv
<1> QED BY <1>1, <1>2, <1>3, <1>4 DEF StoreInv

\* A change of some slots keeps the others current, where those that read them
\* are due.
LEMMA StaysCurrent ==
  ASSUME StoreTypes, NEW f \in scope, Current(f), NEW D,
         program' = program, attached' = attached, returns'[f] = returns[f],
         \A g \in Node : callers[g] \subseteq callers'[g],
         \A g \in D \cap Node : f \notin callers[g],
         \A g \in Node \ D : /\ returns'[g] = returns[g]
                             /\ (g \in uncomputed' <=> g \in uncomputed)
                             /\ (g \in captures' <=> g \in captures),
         widened \subseteq widened'
  PROVE  Current(f)'
<1>1. CASE f \in widened /\ returns[f] = Unknown
  BY <1>1 DEF Current
<1>2. CASE Recording(f) /\ (Attaches(f) => attached) /\ Inferred1(f) \in {returns[f], Bottom}
  <2> DEFINE R == ReadsOf(program[f], returns, uncomputed)
  <2>0. Reads(f) = R /\ Reads(f)' = ReadsOf(program[f], returns', uncomputed')
    BY DEF Reads, ReadsOf
  <2>1. program[f] \in Body
    BY DEF StoreTypes
  <2>2. R \subseteq Node
    BY <2>1 DEF ReadsOf, PathReads, Body, Path
  <2>3. \A g \in R : /\ returns'[g] = returns[g] /\ (g \in uncomputed' <=> g \in uncomputed)
                     /\ (g \in captures' <=> g \in captures)
    BY <1>2, <2>0, <2>2 DEF Recording
  <2>4. /\ ReadsOf(program[f], returns', uncomputed') = R
        /\ Result(program[f], returns', uncomputed', captures', attached)
              = Result(program[f], returns, uncomputed, captures, attached)
    BY <2>1, <2>3, DependsOnReads
  <2>5. Reads(f)' = Reads(f) /\ Inferred1(f)' = Inferred1(f)
    BY <2>0, <2>4 DEF Inferred1
  <2>6. Recording(f)'
    BY <1>2, <2>0, <2>2, <2>5 DEF Recording
  <2>7. Attaches(f)' <=> Attaches(f)
    BY DEF Attaches
  <2> QED BY <1>2, <2>5, <2>6, <2>7 DEF Current
<1> QED BY <1>1, <1>2 DEF Current

stores == <<settings, results, captures, attached, callers>>

LEMMA SameStores ==
  ASSUME UNCHANGED stores, NEW f PROVE Current(f)' <=> Current(f)
  BY DEF stores, settings, results, Current, Recording, Reads, Inferred1, Attaches

\* The steps that only choose what is visited
LEMMA ChoosingStep ==
  ASSUME StoreInv, StartPass \/ FindComponents \/ NextComponent \/ LeaveComponent
  PROVE  StoreInv'
<1>0. StoreTypes /\ DueInv /\ CurrentInv
  BY DEF StoreInv
<1>1. /\ UNCHANGED stores /\ UNCHANGED evaluationPending
      /\ phase # "done" /\ phase' \in {"search", "visit", "settle"}
  BY DEF StartPass, FindComponents, NextComponent, LeaveComponent, stores, settings,
         results, metadata
<1>2. /\ program' = program /\ scope' = scope /\ returns' = returns
      /\ uncomputed' = uncomputed /\ captures' = captures /\ attached' = attached
      /\ callers' = callers
  BY <1>1 DEF stores, settings, results
<1>3. Inherited' = Inherited
  BY <1>2 DEF Inherited
<1>4. EndInv'
  BY <1>1 DEF EndInv
<1>5. CASE StartPass
  <2>1. /\ phase = "pass" /\ before' = attached /\ pending' = pending /\ queue' = queue
        /\ phase' \in {"search", "visit"}
    BY <1>5 DEF StartPass
  <2>2. StoreTypes'
    BY <1>0, <1>2, <2>1 DEF StoreTypes
  <2>3. DueInv'
    BY <1>0, <1>1, <1>2, <1>3, <2>1 DEF DueInv
  <2>4. CurrentInv'
    <3>1. \A f \in scope \ Due : Current(f)
      BY <1>0, <2>1 DEF DueInv, CurrentInv, Due
    <3> QED BY <1>1, <1>2, <2>1, <3>1, SameStores DEF CurrentInv, Due
  <2> QED BY <1>4, <2>2, <2>3, <2>4 DEF StoreInv
<1>6. CASE FindComponents
  <2>1. /\ phase = "search" /\ before' = before /\ pending' = pending /\ queue' = queue
        /\ phase' \in {"search", "visit"}
    BY <1>6 DEF FindComponents
  <2>2. StoreTypes'
    BY <1>0, <1>2, <2>1 DEF StoreTypes
  <2>3. DueInv'
    BY <1>0, <1>1, <1>2, <1>3, <2>1 DEF DueInv
  <2>4. CurrentInv'
    BY <1>0, <1>1, <1>2, <2>1, SameStores DEF CurrentInv, Due
  <2> QED BY <1>4, <2>2, <2>3, <2>4 DEF StoreInv
<1>7. CASE NextComponent
  <2> DEFINE C == components[id + 1]
  <2>1. /\ phase = "visit" /\ before' = before /\ phase' = "settle"
        /\ queue' = C \cap pending /\ pending' = pending \ C /\ Component' = C
    BY <1>7 DEF NextComponent, Component, searchVars
  <2> HIDE DEF C
  <2>2. StoreTypes'
    BY <1>0, <1>2, <2>1 DEF StoreTypes
  <2>3. DueInv'
    BY <1>0, <1>1, <1>2, <1>3, <2>1 DEF DueInv
  <2>4. queue = {} /\ pending' \cup queue' = pending
    BY <1>0, <2>1 DEF DueInv
  <2>5. CurrentInv'
    BY <1>0, <1>1, <1>2, <2>1, <2>4, SameStores DEF CurrentInv, Due
  <2> QED BY <1>4, <2>2, <2>3, <2>5 DEF StoreInv
<1>8. CASE LeaveComponent
  <2>1. /\ phase = "settle" /\ before' = before /\ phase' = "visit" /\ queue = {}
        /\ queue' = queue /\ pending' = pending \cup Stuck
    BY <1>8 DEF LeaveComponent
  <2>2. Stuck = Component \cap uncomputed
    BY DEF Stuck
  <2>3. StoreTypes'
    BY <1>0, <1>2, <2>1, <2>2 DEF StoreTypes
  <2>4. DueInv'
    BY <1>0, <1>1, <1>2, <1>3, <2>1, <2>2 DEF DueInv
  <2>5. CurrentInv'
    BY <1>0, <1>1, <1>2, <2>1, SameStores DEF CurrentInv, Due
  <2> QED BY <1>4, <2>3, <2>4, <2>5 DEF StoreInv
<1> QED BY <1>5, <1>6, <1>7, <1>8

\* A visit stores what it infers and makes due whoever reads a change.
LEMMA RefineStep == ASSUME StoreInv, Refine PROVE StoreInv'
<1> DEFINE f == Min(queue)
           att == attached \/ Attaches(f)
           seen == Recorded(f)
           type == Result(program[f], returns, uncomputed, captures, att)
           changed == IF type # Bottom /\ StoreChanges(f, type) THEN {f} ELSE {}
           affected == CallersOf(changed, seen)
<1>0. StoreTypes /\ DueInv /\ CurrentInv
  BY DEF StoreInv
<1>1. f \in queue /\ f \in scope /\ f \in Node
  <2>1. queue # {} /\ queue \in SUBSET Node
    BY <1>0 DEF Refine, StoreTypes
  <2> QED BY <1>0, <2>1, FirstFunction DEF StoreTypes
<1>2. /\ phase = "settle" /\ phase' = phase /\ Component' = Component
      /\ program' = program /\ scope' = scope /\ captures' = captures
      /\ evaluationPending' = evaluationPending /\ before' = before
      /\ widened' = widened /\ callers' = seen /\ attached' = att
  BY DEF Refine, settings, Component, searchVars
<1>3. IF type = Bottom
      THEN returns' = returns /\ uncomputed' = uncomputed
      ELSE returns' = [returns EXCEPT ![f] = type] /\ uncomputed' = uncomputed \ {f}
  BY DEF Refine, Store
<1>4. /\ pending' = pending \cup (affected \ Component)
      /\ queue' = (queue \ {f}) \cup (affected \cap Component)
  BY DEF Refine, Requeue
<1>5. /\ program[f] \in Body /\ program \in [Node -> Body]
      /\ type \in Types \cup {Bottom}
  BY <1>0, <1>1, ResultForms DEF StoreTypes
<1>6. /\ seen \in [Node -> SUBSET scope]
      /\ \A g \in Node : callers[g] \subseteq seen[g]
      /\ \A g \in Node \cap Reads(f) : f \in seen[g]
  BY <1>0, <1>1 DEF Recorded, StoreTypes
<1>7. affected \subseteq scope
  BY <1>1, <1>6 DEF CallersOf
<1>8. att \in BOOLEAN /\ (Attaches(f) => att)
  BY <1>0 DEF StoreTypes, Attaches
<1>9. Reads(f) \subseteq Node
  BY <1>5 DEF Reads, PathReads, Body, Path
<1> HIDE DEF f, att, seen, type, affected
<1>10. StoreTypes'
  <2>1. returns' \in [Node -> Types]
    BY <1>0, <1>3, <1>5 DEF StoreTypes
  <2>2. uncomputed' \subseteq scope /\ \A g \in uncomputed' : returns'[g] = Unknown
    BY <1>0, <1>3, <1>1 DEF StoreTypes
  <2>3. pending' \subseteq scope /\ queue' \subseteq scope
    BY <1>0, <1>4, <1>7 DEF StoreTypes
  <2> QED BY <1>0, <1>2, <1>6, <1>8, <2>1, <2>2, <2>3 DEF StoreTypes
<1>11. DueInv'
  <2>1. Inherited' = Inherited
    BY <1>2 DEF Inherited
  <2>2. uncomputed' \subseteq uncomputed
    BY <1>3
  <2>3. queue \subseteq Component
    BY <1>0, <1>2 DEF DueInv
  <2>4. queue' \subseteq Component
    BY <1>4, <2>3
  <2>5. attached => att
    BY DEF att
  <2> QED BY <1>0, <1>2, <1>4, <2>1, <2>2, <2>4, <2>5 DEF DueInv
<1>12. CurrentInv'
  <2>1. SUFFICES ASSUME att = before, NEW h \in scope, h \notin pending', h \notin queue'
                 PROVE  Current(h)'
    BY <1>2 DEF CurrentInv, Due
  <2>2. attached = before /\ att = attached
    <3>1. (attached => att) /\ (before => attached)
      BY <1>0 DEF att, DueInv
    <3> QED BY <1>0, <1>8, <2>1, <3>1 DEF StoreTypes
  <2>3. h \notin affected /\ h \notin pending /\ h \notin queue \ {f}
    BY <1>4, <2>1
  <2>4. \A g \in changed : h \notin seen[g]
    BY <2>3 DEF affected, CallersOf
  <2>5. \A g \in Node \ changed : /\ returns'[g] = returns[g]
                                 /\ (g \in uncomputed' <=> g \in uncomputed)
                                 /\ (g \in captures' <=> g \in captures)
    BY <1>0, <1>1, <1>2, <1>3, <1>5 DEF StoreTypes, StoreChanges
  <2>6. CASE h # f
    <3>1. Current(h)
      BY <1>0, <1>2, <2>2, <2>3, <2>6 DEF CurrentInv, Due
    <3>2. \A g \in changed \cap Node : h \notin callers[g]
      BY <1>6, <2>4
    <3>3. returns'[h] = returns[h]
      BY <1>0, <1>3, <2>6 DEF StoreTypes
    <3>4. \A g \in Node : callers[g] \subseteq callers'[g]
      BY <1>2, <1>6
    <3> HIDE DEF changed
    <3> QED BY <1>0, <1>2, <2>2, <2>5, <3>1, <3>2, <3>3, <3>4, StaysCurrent
  <2>7. CASE h = f
    <3>1. \A g \in Reads(f) : g \notin changed
      BY <1>6, <1>9, <2>4, <2>7
    <3>2. Reads(f) = ReadsOf(program[f], returns, uncomputed)
          /\ \A g : g = f => Reads(g)' = ReadsOf(program[g], returns', uncomputed')
      BY <1>2 DEF Reads, ReadsOf
    <3>3. \A g \in ReadsOf(program[f], returns, uncomputed) :
             /\ returns'[g] = returns[g] /\ (g \in uncomputed' <=> g \in uncomputed)
             /\ (g \in captures' <=> g \in captures)
      BY <1>9, <2>5, <3>1, <3>2
    <3>4. /\ ReadsOf(program[f], returns', uncomputed')
               = ReadsOf(program[f], returns, uncomputed)
          /\ Result(program[f], returns', uncomputed', captures', att) = type
      BY <1>5, <3>3, DependsOnReads DEF type
    <3>5. Reads(h)' = Reads(f) /\ Inferred1(h)' = type
      BY <1>2, <2>7, <3>2, <3>4 DEF Inferred1
    <3>6. Recording(h)'
      BY <1>2, <1>6, <1>9, <2>7, <3>5 DEF Recording
    <3>7. Attaches(h)' => attached'
      BY <1>2, <1>8, <2>7 DEF Attaches
    <3>8. type \in {returns'[h], Bottom}
      BY <1>0, <1>1, <1>3, <2>7 DEF StoreTypes
    <3> QED BY <3>5, <3>6, <3>7, <3>8 DEF Current
  <2> QED BY <2>6, <2>7
<1>13. EndInv'
  BY <1>2 DEF EndInv
<1> QED BY <1>10, <1>11, <1>12, <1>13 DEF StoreInv

\* The component at hand is one that the search, or the order by name, found.
PassInv ==
    /\ SearchInv
    /\ id \in 0 .. Len(components)
    /\ phase = "settle" => id # 0

LEMMA PassStart == Init => PassInv
  BY NoSearchInv DEF Init, NoSearch, PassInv

LEMMA ComponentOfNodes == PassInv /\ phase = "settle" => Component \subseteq Node
  BY DEF PassInv, SearchInv, SearchTypeOK, Component

LEMMA PassStep == ASSUME PassInv, StoreTypes, [Next]_vars PROVE PassInv'
<1>0. SearchInv /\ id \in 0 .. Len(components) /\ Len(components) \in Nat
  BY DEF PassInv, SearchInv, SearchTypeOK
<1>1. ASSUME UNCHANGED searchVars PROVE SearchInv' /\ components' = components
  BY <1>0, <1>1 DEF SearchInv, searchVars, SearchTypeOK, OnStack, Visited
<1>2. CASE StartPass
  <2>1. id' = 0 /\ phase' # "settle"
    BY <1>2 DEF StartPass
  <2>2. CASE passes = 0
    <3>1. components' = InNameOrder /\ UNCHANGED <<graph, order, low, stack, path>>
      BY <1>2, <2>2 DEF StartPass
    <3>2. Cardinality(pending) \in Nat
      <4>1. IsFiniteSet(Node)
        BY NAssumption, FS_Interval DEF Node
      <4>2. pending \subseteq Node
        BY DEF StoreTypes
      <4> QED BY <4>1, <4>2, FS_Subset, FS_CardinalityType
    <3>3. InNameOrder \in Seq(SUBSET Node)
      <4> DEFINE C(i) == {f \in pending : Cardinality({g \in pending : g <= f}) = i}
      <4>1. \A i : C(i) \subseteq Node
        BY DEF StoreTypes
      <4>2. InNameOrder = [i \in 1 .. Cardinality(pending) |-> C(i)]
        BY DEF InNameOrder
      <4> HIDE DEF C
      <4> QED BY <3>2, <4>1, <4>2
    <3>4. SearchInv'
      BY <1>0, <3>1, <3>3 DEF SearchInv, SearchTypeOK, OnStack, Visited
    <3>5. Len(components') \in Nat
      BY <3>1, <3>3
    <3> QED BY <2>1, <3>4, <3>5 DEF PassInv
  <2>3. CASE passes # 0
    <3>1. StartSearch(ReadGraph)
      BY <1>2, <2>3 DEF StartPass
    <3>2. ReadGraph \in [Node -> SUBSET Node]
      BY DEF ReadGraph
    <3>3. SearchInv'
      BY <3>1, <3>2, StartSearchInv
    <3>4. components' = <<>>
      BY <3>1 DEF StartSearch
    <3> QED BY <2>1, <3>3, <3>4 DEF PassInv
  <2> QED BY <2>2, <2>3
<1>3. CASE FindComponents
  <2>1. Search /\ id' = id /\ phase' # "settle"
    BY <1>3 DEF FindComponents
  <2>2. SearchInv'
    BY <1>0, <2>1, SearchStep
  <2>3. components' \in Seq(SUBSET Node) /\ Len(components') >= Len(components)
    <3>1. components' = components \/ \E c : components' = Append(components, c)
      BY <2>1 DEF Search, NextRoot, FollowEdge, LeaveNode, Visit, Close
    <3>2. components' \in Seq(SUBSET Node) /\ components \in Seq(SUBSET Node)
      BY <1>0, <2>2 DEF SearchInv, SearchTypeOK
    <3> QED BY <3>1, <3>2
  <2> QED BY <1>0, <2>1, <2>2, <2>3 DEF PassInv
<1>4. CASE NextComponent
  <2>1. UNCHANGED searchVars /\ id < Len(components) /\ id' = id + 1
    BY <1>4 DEF NextComponent
  <2> QED BY <1>0, <1>1, <2>1 DEF PassInv
<1>5. CASE Refine \/ Widen \/ LeaveComponent \/ SettleStuck \/ EndPass \/ Finish
           \/ UNCHANGED vars
  <2>1. UNCHANGED searchVars /\ id' = id /\ (phase' = "settle" => phase = "settle")
    BY <1>5 DEF Refine, Widen, LeaveComponent, SettleStuck, EndPass, Finish, vars
  <2> QED BY <1>0, <1>1, <2>1 DEF PassInv
<1> QED BY <1>2, <1>3, <1>4, <1>5 DEF Next

\* Settling some functions at unknown makes due whoever reads a change.
LEMMA WidenStep == ASSUME StoreInv, PassInv, Widen PROVE StoreInv'
<1> DEFINE D == NotYetUnknown
           affected == CallersOf(D, callers)
<1>0. StoreTypes /\ DueInv /\ CurrentInv
  BY DEF StoreInv
<1>1. /\ phase = "settle" /\ phase' = "visit" /\ Component' = Component
      /\ program' = program /\ scope' = scope /\ captures' = captures
      /\ attached' = attached /\ before' = before /\ callers' = callers
      /\ evaluationPending' = evaluationPending
      /\ widened' = widened \cup Component
      /\ returns' = [g \in Node |-> IF g \in Component THEN Unknown ELSE returns[g]]
      /\ uncomputed' = uncomputed \ Component
      /\ queue' = {} /\ pending' = pending \cup (affected \ Component)
  <2>1. UNCHANGED <<searchVars, settings, metadata, callers, id, before>>
        /\ phase = "settle" /\ phase' = "visit" /\ queue' = {}
    BY DEF Widen
  <2>2. /\ widened' = widened \cup Component
        /\ returns' = [g \in Node |-> IF g \in Component THEN Unknown ELSE returns[g]]
        /\ uncomputed' = uncomputed \ Component
    BY DEF Widen
  <2>3. pending' = pending \cup (affected \ Component)
    BY DEF Widen
  <2>4. Component' = Component
    BY <2>1 DEF searchVars, Component
  <2> QED BY <2>1, <2>2, <2>3, <2>4 DEF settings, metadata
<1>2. /\ queue \subseteq Component
      /\ uncomputed \subseteq pending \cup Component
  BY <1>0, <1>1 DEF DueInv
<1>3. Component \subseteq Node
  BY <1>1, ComponentOfNodes
<1>4. affected \subseteq scope
  BY <1>0, <1>3 DEF StoreTypes, CallersOf, NotYetUnknown
<1>5. \A g \in Node \ D : /\ returns'[g] = returns[g]
                         /\ (g \in uncomputed' <=> g \in uncomputed)
                         /\ (g \in captures' <=> g \in captures)
  BY <1>1 DEF StoreChanges, NotYetUnknown
<1> HIDE DEF affected
<1>6. StoreTypes'
  BY <1>0, <1>1, <1>4, UnknownIsTop DEF StoreTypes
<1>7. DueInv'
  <2>1. Inherited' = Inherited
    BY <1>1 DEF Inherited
  <2> QED BY <1>0, <1>1, <1>2, <2>1 DEF DueInv
<1>8. CurrentInv'
  <2>1. SUFFICES ASSUME attached = before, NEW h \in scope, h \notin pending'
                 PROVE  Current(h)'
    BY <1>1 DEF CurrentInv, Due
  <2>2. CASE h \in Component
    BY <1>0, <1>1, <2>2 DEF Current, StoreTypes
  <2>3. CASE h \notin Component
    <3>1. h \notin affected /\ h \notin pending /\ h \notin queue
      BY <1>1, <1>2, <2>1, <2>3
    <3>2. Current(h)
      BY <1>0, <1>1, <2>1, <3>1 DEF CurrentInv, Due
    <3>3. \A g \in D \cap Node : h \notin callers[g]
      BY <3>1 DEF affected, CallersOf
    <3>4. returns'[h] = returns[h]
      BY <1>0, <1>1, <2>3 DEF StoreTypes
    <3>5. widened \subseteq widened' /\ \A g \in Node : callers[g] \subseteq callers'[g]
      BY <1>1
    <3> HIDE DEF D
    <3> QED BY <1>0, <1>1, <1>5, <3>2, <3>3, <3>4, <3>5, StaysCurrent
  <2> QED BY <2>2, <2>3
<1>9. EndInv'
  BY <1>1 DEF EndInv
<1> QED BY <1>6, <1>7, <1>8, <1>9 DEF StoreInv

LEMMA SettleStuckStep == ASSUME StoreInv, PassInv, SettleStuck PROVE StoreInv'
<1> DEFINE affected == CallersOf(Stuck, callers)
<1>0. StoreTypes /\ DueInv /\ CurrentInv
  BY DEF StoreInv
<1>1. /\ phase = "settle" /\ phase' = phase /\ Component' = Component
      /\ program' = program /\ scope' = scope /\ captures' = captures
      /\ attached' = attached /\ before' = before /\ callers' = callers
      /\ evaluationPending' = evaluationPending
      /\ widened' = widened /\ queue = {}
      /\ returns' = [g \in Node |-> IF g \in Stuck THEN Unknown ELSE returns[g]]
      /\ uncomputed' = uncomputed \ Stuck
      /\ queue' = affected \cap Component
      /\ pending' = pending \cup (affected \ Component)
  BY DEF SettleStuck, Requeue, settings, metadata, Component, searchVars
<1>2. Stuck \subseteq uncomputed /\ Stuck \subseteq Node /\ Stuck = Component \cap uncomputed
  BY <1>0 DEF Stuck, StoreTypes
<1>3. affected \subseteq scope
  BY <1>0, <1>2 DEF StoreTypes, CallersOf
<1>4. returns' = returns
  BY <1>0, <1>1, <1>2 DEF StoreTypes
<1>5. \A g \in Node \ Stuck : /\ returns'[g] = returns[g]
                             /\ (g \in uncomputed' <=> g \in uncomputed)
                             /\ (g \in captures' <=> g \in captures)
  BY <1>1
<1> HIDE DEF affected
<1>6. StoreTypes'
  BY <1>0, <1>1, <1>3, <1>4 DEF StoreTypes
<1>7. DueInv'
  <2>1. Inherited' = Inherited
    BY <1>1 DEF Inherited
  <2> QED BY <1>0, <1>1, <1>2, <2>1 DEF DueInv
<1>8. CurrentInv'
  <2>1. SUFFICES ASSUME attached = before, NEW h \in scope, h \notin pending', h \notin queue'
                 PROVE  Current(h)'
    BY <1>1 DEF CurrentInv, Due
  <2>2. h \notin affected /\ h \notin pending /\ h \notin queue
    BY <1>1, <2>1
  <2>3. Current(h)
    BY <1>0, <1>1, <2>1, <2>2 DEF CurrentInv, Due
  <2>4. \A g \in Stuck \cap Node : h \notin callers[g]
    BY <2>2 DEF affected, CallersOf
  <2>5. returns'[h] = returns[h]
    BY <1>4
  <2>6. widened \subseteq widened' /\ \A g \in Node : callers[g] \subseteq callers'[g]
    BY <1>1
  <2> QED BY <1>0, <1>1, <1>5, <2>3, <2>4, <2>5, <2>6, StaysCurrent
<1>9. EndInv'
  BY <1>1 DEF EndInv
<1> QED BY <1>6, <1>7, <1>8, <1>9 DEF StoreInv

\* Inheriting a mode makes due whoever reads the function; attaching the
\* package makes every function due.
LEMMA EndPassStep == ASSUME StoreInv, EndPass PROVE StoreInv'
<1> DEFINE D == ModesChanged
           readers == CallersOf(D, callers)
<1>0. StoreTypes /\ DueInv /\ CurrentInv
  BY DEF StoreInv
<1>1. /\ phase = "visit" /\ phase' = "pass"
      /\ program' = program /\ scope' = scope /\ returns' = returns
      /\ uncomputed' = uncomputed /\ widened' = widened /\ callers' = callers
      /\ attached' = attached /\ before' = before /\ queue' = queue
  BY DEF EndPass, settings, results
<1>2. /\ captures' = captures \cup D
      /\ evaluationPending' = (D # {})
      /\ pending' = pending \cup (D \cap scope) \cup readers
                      \cup (IF attached # before THEN scope ELSE {})
  BY DEF EndPass
<1>3. D \subseteq Node
  BY DEF ModesChanged, Inherited
<1>4. readers \subseteq scope
  BY <1>0, <1>3 DEF StoreTypes, CallersOf
<1>5. D = {} => Inherited' = {}
  <2>1. SUFFICES ASSUME D = {} PROVE Inherited = {}
    BY <1>1, <1>2 DEF Inherited
  <2> QED BY <1>0, <2>1 DEF DueInv, ModesChanged
<1> HIDE DEF D, readers
<1>6. StoreTypes'
  BY <1>0, <1>1, <1>2, <1>4 DEF StoreTypes
<1>7. DueInv'
  BY <1>0, <1>1, <1>2, <1>5 DEF DueInv
<1>8. CurrentInv'
  <2>1. SUFFICES ASSUME attached = before, NEW h \in scope, h \notin pending'
                 PROVE  Current(h)'
    BY <1>1 DEF CurrentInv, Due
  <2>2. h \notin readers /\ h \notin pending /\ queue = {}
    BY <1>0, <1>1, <1>2, <2>1 DEF DueInv
  <2>3. Current(h)
    BY <1>0, <1>1, <2>1, <2>2 DEF CurrentInv, Due
  <2>4. \A g \in D \cap Node : h \notin callers[g]
    BY <2>2 DEF readers, CallersOf
  <2>5. \A g \in Node \ D : /\ returns'[g] = returns[g]
                           /\ (g \in uncomputed' <=> g \in uncomputed)
                           /\ (g \in captures' <=> g \in captures)
    BY <1>1, <1>2
  <2>6. returns'[h] = returns[h] /\ widened \subseteq widened'
        /\ \A g \in Node : callers[g] \subseteq callers'[g]
    BY <1>1
  <2> QED BY <1>0, <1>1, <2>3, <2>4, <2>5, <2>6, StaysCurrent
<1>9. EndInv'
  BY <1>1 DEF EndInv
<1> QED BY <1>6, <1>7, <1>8, <1>9 DEF StoreInv

LEMMA FinishStep == ASSUME StoreInv, Finish PROVE StoreInv'
<1>0. StoreTypes /\ DueInv /\ CurrentInv
  BY DEF StoreInv
<1>1. /\ phase = "pass" /\ phase' = "done" /\ uncomputed' = {}
      /\ program' = program /\ scope' = scope /\ returns' = returns
      /\ widened' = widened /\ callers' = callers /\ captures' = captures
      /\ attached' = attached /\ before' = before /\ queue' = queue
      /\ pending' = pending /\ evaluationPending' = evaluationPending
  BY DEF Finish, settings, metadata
<1>2. StoreTypes' /\ DueInv'
  <2>1. Inherited' = Inherited
    BY <1>1 DEF Inherited
  <2> QED BY <1>0, <1>1, <2>1 DEF StoreTypes, DueInv
<1>3. CurrentInv'
  BY <1>1 DEF CurrentInv
<1>4. EndInv'
  <2>1. SUFFICES ASSUME pending = {}, ~ evaluationPending
                 PROVE  Inherited' = {} /\ \A h \in scope : Current(h)'
    BY <1>1 DEF EndInv, Settled
  <2>2. queue = {} /\ uncomputed = {} /\ Inherited = {}
    BY <1>0, <1>1, <2>1 DEF DueInv
  <2>3. scope # {} => attached = before
    BY <1>0, <1>1, <2>1 DEF DueInv
  <2>4. \A h \in scope : Current(h)
    BY <1>0, <1>1, <2>1, <2>2, <2>3 DEF CurrentInv, Due
  <2>5. UNCHANGED stores
    BY <1>1, <2>2 DEF stores, settings, results
  <2> QED BY <1>1, <2>2, <2>4, <2>5, SameStores DEF Inherited
<1> QED BY <1>2, <1>3, <1>4 DEF StoreInv

LEMMA StoreStep == ASSUME StoreInv, PassInv, [Next]_vars PROVE StoreInv' /\ PassInv'
<1>1. PassInv'
  BY PassStep DEF StoreInv
<1>2. CASE UNCHANGED vars
  <2>1. UNCHANGED <<program, scope, returns, uncomputed, captures, attached, callers,
                    pending, evaluationPending, phase, id, queue, before, widened,
                    components>>
    BY <1>2 DEF vars, searchVars
  <2> QED BY <1>1, <2>1 DEF StoreInv, StoreTypes, DueInv, CurrentInv, EndInv, Due, Settled,
             Inherited, Component, Current, Recording, Reads, Attaches, Inferred1
<1> QED BY <1>1, <1>2, ChoosingStep, RefineStep, WidenStep, SettleStuckStep, EndPassStep,
           FinishStep DEF Next

LEMMA StoreInvariant == Spec => [](StoreInv /\ PassInv)
<1>1. Init => StoreInv /\ PassInv
  BY StoreStart, PassStart
<1>2. StoreInv /\ PassInv /\ [Next]_vars => (StoreInv /\ PassInv)'
  BY StoreStep
<1> QED BY <1>1, <1>2, PTL DEF Spec

LEMMA FixpointIsPart == InferenceSpec => Spec
<1>1. InferenceInit => Init
  BY DEF InferenceInit
<1>2. [InferenceNext]_inferenceVars => [Next]_vars
  BY DEF InferenceNext, ReturnsPart, BodyPart, inferenceVars, typingVars
<1> QED BY <1>1, <1>2, PTL DEF InferenceSpec, Spec

(* run_fixpoint_scoped: where the passes end before their limit, inferring *)
(* any body once more yields what is stored for it, or no more than that   *)
(* where its component was widened, and no evaluation mode is left to      *)
(* inherit; where nothing was widened, every read is on record too.  This  *)
(* is so for every program, number of functions, height of types and       *)
(* limit of passes.                                                        *)
THEOREM ResultsAreSettled ==
    InferenceSpec => [](/\ Settled => NothingStale /\ ModesInherited
                        /\ Settled /\ widened = {} => ResultsSettled)
<1> DEFINE Settles == /\ Settled => NothingStale /\ ModesInherited
                      /\ Settled /\ widened = {} => ResultsSettled
<1>1. StoreInv => Settles
  <2> SUFFICES ASSUME StoreInv, Settled, phase = "done"
               PROVE  /\ NothingStale /\ ModesInherited
                      /\ widened = {} => ReadsRecorded
    BY DEF Settled, NothingStale, ModesInherited, ReadsRecorded, ResultsSettled
  <2>1. /\ StoreTypes /\ uncomputed = {} /\ Inherited = {}
        /\ \A f \in scope : Current(f)
    BY DEF StoreInv, EndInv
  <2>2. ASSUME NEW f \in scope
        PROVE  /\ Result(program[f], returns, {}, captures, attached) \in Types
               /\ Inferred1(f) = Result(program[f], returns, {}, captures, attached)
               /\ returns[f] \in Types
    <3>1. program[f] \in Body /\ returns \in [Node -> Types] /\ f \in Node
      BY <2>1 DEF StoreTypes
    <3>2. Result(program[f], returns, {}, captures, attached) \in Types
      BY <3>1, ResultForms
    <3> QED BY <2>1, <3>1, <3>2 DEF Inferred1
  <2>3. NothingStale
    <3> SUFFICES ASSUME NEW f \in scope
                 PROVE  LET type == Result(program[f], returns, {}, captures, attached)
                        IN  type <= returns[f] /\ (f \notin widened => type = returns[f])
      BY DEF NothingStale
    <3>1. PICK type : type = Result(program[f], returns, {}, captures, attached)
      OBVIOUS
    <3>2. /\ type \in Types /\ returns[f] \in Types /\ type # Bottom
          /\ type = returns[f] \/ (f \in widened /\ returns[f] = Unknown)
      BY <2>1, <2>2, <3>1, UnknownIsTop DEF Current
    <3>3. type <= returns[f]
      BY <3>2, UnknownIsTop
    <3> QED BY <3>1, <3>2, <3>3
  <2>4. ModesInherited
    BY <2>1 DEF ModesInherited
  <2>5. widened = {} => ReadsRecorded
    BY <2>1 DEF ReadsRecorded, Current, Recording
  <2> QED BY <2>3, <2>4, <2>5
<1> QED BY <1>1, StoreInvariant, FixpointIsPart, PTL

-----------------------------------------------------------------------------
(***************************************************************************)
(* The passes.  The first visits single functions of the scope; the others *)
(* go through what a search has found.  A function outside the scope reads *)
(* nothing, so a component that has a visit to make lies within the scope. *)
(***************************************************************************)

FormsInv ==
    /\ program \in Programs /\ captures \subseteq Node /\ widened \subseteq scope
    /\ evaluationPending \in BOOLEAN
    /\ passes \in 0 .. MaxPasses
    /\ phase \in {"pass", "search", "visit", "settle", "done"}
    /\ budget \in 0 .. (MaxPasses * N)

TurnInv ==
    /\ passes = 0 => phase = "pass" /\ evaluationPending /\ pending = scope
    /\ phase = "search" => passes > 1 /\ id = 0
    /\ passes <= 1 => Unsearched
    /\ passes = 1 => \A i \in DOMAIN components :
          components[i] \subseteq scope /\ \A f, g \in components[i] : f = g
    /\ passes > 1 => /\ OrderInv
                     /\ phase # "search" => Searched
                     /\ \A g \in Node \ scope : graph[g] = {}

LEMMA ByName ==
  ASSUME NEW S \in SUBSET Node
  PROVE  LET rank(f) == Cardinality({g \in S : g <= f})
         IN  /\ IsFiniteSet(S) /\ Cardinality(S) \in Nat
             /\ \A f \in S : rank(f) \in 1 .. Cardinality(S)
             /\ \A f, g \in S : rank(f) = rank(g) => f = g
<1> DEFINE B(f) == {g \in S : g <= f}
<1>1. IsFiniteSet(S)
  <2>1. IsFiniteSet(Node)
    BY NAssumption, FS_Interval DEF Node
  <2> QED BY <2>1, FS_Subset
<1>2. /\ Cardinality(S) \in Nat
      /\ \A f \in S : /\ IsFiniteSet(B(f)) /\ Cardinality(B(f)) \in Nat
                      /\ Cardinality(B(f)) <= Cardinality(S)
  <2>1. \A f \in S : B(f) \in SUBSET S
    OBVIOUS
  <2> HIDE DEF B
  <2> QED BY <1>1, <2>1, FS_Subset, FS_CardinalityType
<1>3. \A f \in S : f \in Int
  BY DEF Node
<1>4. \A f \in S : Cardinality(B(f)) # 0
  <2> SUFFICES ASSUME NEW f \in S PROVE Cardinality(B(f)) # 0
    OBVIOUS
  <2>1. f \in B(f)
    BY <1>3
  <2> HIDE DEF B
  <2> QED BY <1>2, <2>1, FS_EmptySet
<1>5. ASSUME NEW f \in S, NEW g \in S, f < g PROVE Cardinality(B(f)) # Cardinality(B(g))
  <2>1. B(f) \subseteq B(g) /\ g \in B(g) /\ g \notin B(f)
    BY <1>3, <1>5
  <2>2. B(f) # B(g)
    BY <2>1
  <2> HIDE DEF B
  <2> QED BY <1>2, <2>1, <2>2, FS_Subset
<1>6. \A f, g \in S : Cardinality(B(f)) = Cardinality(B(g)) => f = g
  <2> SUFFICES ASSUME NEW f \in S, NEW g \in S, Cardinality(B(f)) = Cardinality(B(g))
               PROVE  f = g
    OBVIOUS
  <2>1. ~ (f < g) /\ ~ (g < f)
    BY <1>5
  <2> HIDE DEF B
  <2> QED BY <1>3, <2>1
<1> QED BY <1>1, <1>2, <1>4, <1>6

\* A component with a function to visit has no function outside the scope.
LEMMA ComponentInScope ==
  ASSUME SearchInv, StoreTypes, DueInv, TurnInv, id \in DOMAIN components,
         phase = "settle", queue # {}, passes \in Nat
  PROVE  Component \subseteq scope
<1>1. CASE passes = 1
  BY <1>1 DEF TurnInv, Component
<1>2. CASE passes > 1
  <2> SUFFICES ASSUME NEW g \in Component, g \notin scope PROVE FALSE
    OBVIOUS
  <2>1. PICK f \in queue : f \in scope /\ f \in Component
    BY DEF StoreTypes, DueInv
  <2>2. g \in Node /\ graph[g] = {}
    <3>1. components \in Seq(SUBSET Node)
      BY SearchForms
    <3> QED BY <1>2, <3>1 DEF TurnInv, Component
  <2>3. Reaches(g, f)
    BY <1>2, <2>1 DEF TurnInv, OrderInv, PlacedInv, Component
  <2>4. f \in {g}
    BY <2>2, <2>3, {g} \in SUBSET Node DEF Reaches
  <2> QED BY <2>1, <2>4
<1>3. passes # 0
  BY DEF TurnInv
<1> QED BY <1>1, <1>2, <1>3

LEMMA SameSearch ==
  ASSUME UNCHANGED searchVars
  PROVE  /\ OrderInv => OrderInv'
         /\ Searched' <=> Searched
         /\ Unsearched' <=> Unsearched
         /\ components' = components /\ graph' = graph
<1>1. /\ graph' = graph /\ order' = order /\ low' = low /\ stack' = stack
      /\ path' = path /\ components' = components
  BY DEF searchVars
<1>2. Visited' = Visited /\ OnStack' = OnStack /\ Placed' = Placed
  BY <1>1 DEF Visited, OnStack, Placed
<1>3. /\ \A x, y : Reaches(x, y)' <=> Reaches(x, y)
      /\ \A x, y : Followed(x, y)' <=> Followed(x, y)
      /\ \A k, x : Owns(k, x)' <=> Owns(k, x)
  BY <1>1 DEF Reaches, Followed, Owns
<1>4. OrderInv => /\ NumberInv' /\ EdgesInv' /\ PlacedInv'
  BY <1>1, <1>2, <1>3 DEF OrderInv, NumberInv, EdgesInv, PlacedInv
<1>5. OrderInv => FrameInv' /\ ReturnInv' /\ LowInv'
  BY <1>1, <1>2, <1>3 DEF OrderInv, FrameInv, ReturnInv, LowInv
<1> QED BY <1>1, <1>2, <1>4, <1>5 DEF OrderInv, Searched, Unsearched

LEMMA TurnStart == Init => FormsInv /\ TurnInv
<1> SUFFICES ASSUME Init PROVE FormsInv /\ TurnInv
  OBVIOUS
<1>1. MaxPasses \in Nat /\ N \in Nat /\ MaxPasses * N \in Nat
  BY FixpointAssumption, NAssumption
<1>2. FormsInv
  BY <1>1 DEF Init, FormsInv
<1>3. TurnInv
  BY DEF Init, NoSearch, TurnInv, Unsearched
<1> QED BY <1>2, <1>3

LEMMA FormsStep ==
  ASSUME StoreInv, PassInv, FormsInv, TurnInv, [Next]_vars PROVE FormsInv'
<1>0. /\ StoreTypes /\ DueInv /\ SearchInv /\ id \in 0 .. Len(components)
      /\ DOMAIN components = 1 .. Len(components) /\ Len(components) \in Nat
      /\ components \in Seq(SUBSET Node)
  BY SearchForms DEF StoreInv, PassInv
<1>1. /\ program' = program /\ scope' = scope /\ program \in Programs
  BY DEF Next, StartPass, FindComponents, NextComponent, Refine, Widen, LeaveComponent,
         SettleStuck, EndPass, Finish, settings, vars, FormsInv
<1>2. captures' \subseteq Node /\ evaluationPending' \in BOOLEAN
  <2>1. CASE EndPass
    BY <2>1 DEF EndPass, FormsInv, ModesChanged, Inherited
  <2>2. CASE ~ EndPass
    <3>1. captures' = captures /\ evaluationPending' = evaluationPending
      BY <2>2 DEF Next, StartPass, FindComponents, NextComponent, Refine, Widen, LeaveComponent,
         SettleStuck, Finish, metadata, vars
    <3> QED BY <3>1 DEF FormsInv
  <2> QED BY <2>1, <2>2
<1>3. widened' \subseteq scope
  <2>1. CASE Widen
    <3>1. phase = "settle" /\ queue # {} /\ widened' = widened \cup Component
      BY <2>1 DEF Widen
    <3>2. id \in DOMAIN components
      BY <1>0, <3>1 DEF PassInv
    <3>3. passes \in Nat
      BY FixpointAssumption DEF FormsInv
    <3> QED BY <1>0, <3>1, <3>2, <3>3, ComponentInScope DEF FormsInv
  <2>2. CASE ~ Widen
    <3>1. widened' = widened
      BY <2>2 DEF Next, StartPass, FindComponents, NextComponent, Refine, EndPass, LeaveComponent,
         SettleStuck, Finish, results, vars
    <3> QED BY <3>1 DEF FormsInv
  <2> QED BY <2>1, <2>2
<1>4. passes' \in 0 .. MaxPasses
  <2>1. CASE StartPass
    BY <2>1, FixpointAssumption DEF StartPass, FormsInv
  <2>2. CASE ~ StartPass
    <3>1. passes' = passes
      BY <2>2 DEF Next, FindComponents, NextComponent, Refine, Widen, EndPass, LeaveComponent,
         SettleStuck, Finish, vars
    <3> QED BY <3>1 DEF FormsInv
  <2> QED BY <2>1, <2>2
<1>5. phase' \in {"pass", "search", "visit", "settle", "done"}
  BY DEF FormsInv, Next, StartPass, FindComponents, NextComponent, Refine, Widen, EndPass,
         LeaveComponent, SettleStuck, Finish, vars
<1>6. budget' \in 0 .. (MaxPasses * N)
  <2>0. MaxPasses \in Nat /\ N \in Nat /\ MaxPasses * N \in Nat /\ budget \in 0 .. (MaxPasses * N)
    BY FixpointAssumption, NAssumption DEF FormsInv
  <2>1. CASE NextComponent
    <3> DEFINE k == Cardinality(components[id + 1])
    <3>1. budget' = MaxPasses * k /\ id + 1 \in DOMAIN components
      BY <1>0, <2>1 DEF NextComponent
    <3>2. components[id + 1] \subseteq Node
      BY <1>0, <3>1
    <3>3. k \in Nat /\ k <= N
      <4>1. IsFiniteSet(Node) /\ Cardinality(Node) = N
        BY NAssumption, FS_Interval DEF Node
      <4> QED BY <3>2, <4>1, FS_Subset, FS_CardinalityType
    <3> HIDE DEF k
    <3>4. MaxPasses * k \in Nat /\ MaxPasses * k <= MaxPasses * N
      <4>1. \A a, b, c \in Nat : b <= c => a * b <= a * c /\ a * b \in Nat
        OBVIOUS
      <4> QED BY <2>0, <3>3, <4>1
    <3> QED BY <2>0, <3>1, <3>4
  <2>2. CASE Refine
    <3>1. budget > 0 /\ budget' = budget - 1
      BY <2>2 DEF Refine
    <3> HIDE DEF FormsInv
    <3> QED BY <2>0, <3>1
  <2>3. CASE ~ NextComponent /\ ~ Refine
    <3>1. budget' = budget
      BY <2>3 DEF Next, StartPass, FindComponents, Widen, EndPass, LeaveComponent,
         SettleStuck, Finish, vars
    <3> QED BY <2>0, <3>1
  <2> QED BY <2>1, <2>2, <2>3
<1> QED BY <1>1, <1>2, <1>3, <1>4, <1>5, <1>6 DEF FormsInv

LEMMA TurnStep ==
  ASSUME StoreInv, PassInv, FormsInv, TurnInv, [Next]_vars PROVE TurnInv'
<1>0. /\ StoreTypes /\ SearchInv /\ passes \in Nat
      /\ scope' = scope
  <2>1. scope' = scope
    BY DEF Next, StartPass, FindComponents, NextComponent, Refine, Widen, LeaveComponent,
         SettleStuck, EndPass, Finish, settings, vars
  <2> QED BY <2>1, FixpointAssumption DEF StoreInv, PassInv, FormsInv
<1>1. CASE StartPass
  <2>1. phase = "pass" /\ passes' = passes + 1 /\ id' = 0
    BY <1>1 DEF StartPass
  <2>2. CASE passes = 0
    <3>1. /\ components' = InNameOrder /\ order' = order /\ phase' = "visit"
      BY <1>1, <2>2 DEF StartPass
    <3>2. passes' = 1
      BY <2>1, <2>2
    <3>3. Unsearched'
      BY <2>2, <3>1 DEF TurnInv, Unsearched
    <3>4. \A i \in DOMAIN components' :
            components'[i] \subseteq scope' /\ \A f, g \in components'[i] : f = g
      <4> DEFINE rank(f) == Cardinality({g \in pending : g <= f})
                 C(i) == {f \in pending : rank(f) = i}
      <4>1. pending \subseteq Node /\ pending \subseteq scope
        BY <1>0 DEF StoreTypes
      <4>2. \A f, g \in pending : rank(f) = rank(g) => f = g
        BY <4>1, ByName
      <4>3. components' = [i \in 1 .. Cardinality(pending) |-> C(i)]
        BY <3>1 DEF InNameOrder
      <4> HIDE DEF rank
      <4>4. \A i : C(i) \subseteq scope /\ \A f, g \in C(i) : f = g
        BY <4>1, <4>2
      <4> HIDE DEF C
      <4> QED BY <1>0, <4>3, <4>4
    <3> QED BY <3>1, <3>2, <3>3, <3>4 DEF TurnInv
  <2>3. CASE passes # 0
    <3>1. StartSearch(ReadGraph) /\ phase' = "search" /\ passes' > 1
      BY <1>0, <1>1, <2>1, <2>3 DEF StartPass
    <3>2. ReadGraph \in [Node -> SUBSET Node]
      BY DEF ReadGraph
    <3>3. OrderInv'
      BY <3>1, <3>2, StartOrdered
    <3>4. \A g \in Node \ scope' : graph'[g] = {}
      BY <1>0, <3>1 DEF StartSearch, ReadGraph, StoreTypes
    <3>5. passes' # 0 /\ passes' # 1 /\ ~ (passes' <= 1)
      BY <1>0, <2>1, <3>1
    <3> QED BY <2>1, <3>1, <3>3, <3>4, <3>5 DEF TurnInv
  <2> QED BY <2>2, <2>3
<1>2. CASE FindComponents
  <2>1. /\ phase = "search" /\ Search /\ id' = id /\ passes' = passes
        /\ phase' = IF Searched' THEN "visit" ELSE phase
    BY <1>2 DEF FindComponents
  <2>2. passes > 1 /\ OrderInv /\ id = 0
    BY <2>1 DEF TurnInv
  <2>3. OrderInv'
    BY <1>0, <2>1, <2>2, SearchOrdered
  <2>4. graph' = graph
    BY <2>1 DEF Search, NextRoot, FollowEdge, LeaveNode, Visit
  <2>5. passes' # 0 /\ passes' # 1 /\ ~ (passes' <= 1)
    BY <1>0, <2>1, <2>2
  <2> QED BY <1>0, <2>1, <2>2, <2>3, <2>4, <2>5 DEF TurnInv
<1>3. CASE ~ StartPass /\ ~ FindComponents
  <2>1. UNCHANGED searchVars /\ passes' = passes /\ (phase' = "search" => UNCHANGED vars)
    BY <1>3 DEF Next, NextComponent, Refine, Widen, LeaveComponent,
         SettleStuck, EndPass, Finish, vars, TurnInv
  <2>2. CASE UNCHANGED vars
    <3>1. /\ passes' = passes /\ phase' = phase /\ evaluationPending' = evaluationPending
          /\ pending' = pending /\ id' = id
      BY <2>2 DEF vars
    <3> HIDE DEF TurnInv
    <3> QED BY <1>0, <2>1, <3>1, SameSearch DEF TurnInv
  <2>3. CASE ~ UNCHANGED vars
    <3>1. phase' # "search"
      BY <2>1, <2>3
    <3>2. phase # "search"
      BY <1>3, <2>3 DEF Next, NextComponent, Refine, Widen, LeaveComponent,
           SettleStuck, EndPass, Finish
    <3>3. passes # 0
      BY <1>3, <2>3, FixpointAssumption DEF Next, NextComponent, Refine, Widen, LeaveComponent,
           SettleStuck, EndPass, Finish, TurnInv, Settled
    <3> QED BY <1>0, <2>1, <3>1, <3>2, <3>3, SameSearch DEF TurnInv
  <2> QED BY <2>2, <2>3
<1> QED BY <1>1, <1>2, <1>3 DEF Next

LEMMA TypesHold ==
  ASSUME StoreInv, PassInv, FormsInv PROVE TypeOK
  BY DEF StoreInv, StoreTypes, PassInv, SearchInv, FormsInv, TypeOK

LEMMA PassesOrder ==
  ASSUME PassInv, FormsInv, TurnInv PROVE ComponentsOrdered
<1>1. SearchInv /\ passes \in Nat
  BY FixpointAssumption DEF PassInv, FormsInv
<1> QED BY <1>1, UnsearchedOrdered, SearchedOrdered DEF TurnInv

-----------------------------------------------------------------------------
(***************************************************************************)
(* Callees first.  What a static body reads does not depend on what is     *)
(* stored, so the first pass sees every read: from then on the callers are *)
(* the ones that the search has ordered.                                   *)
(***************************************************************************)

StaticReads(f) ==
    {p.callee : p \in {q \in program[f] : q.kind \in {"forward", "call", "list"}}}

LEMMA ReadsAreStatic ==
  ASSUME Static, NEW f \in Node, program \in [Node -> Body]
  PROVE  /\ Reads(f) = StaticReads(f) /\ StaticReads(f) \subseteq Node
         /\ program' = program => Reads(f)' = Reads(f)
<1>1. /\ program[f] \in Body
      /\ \A p \in program[f] :
            /\ p.kind \in {"own", "call", "list", "attach", "forward"}
            /\ p.callee \in Node
  BY DEF Static, Body, Path
<1>2. \A p \in program[f] : \A r, b :
         PathReads(p, r, b) = IF p.kind \in {"forward", "call", "list"} THEN {p.callee} ELSE {}
  BY <1>1 DEF PathReads
<1>3. Reads(f) = StaticReads(f)
  BY <1>2 DEF Reads, StaticReads
<1>4. program' = program => Reads(f)' = StaticReads(f)
  BY <1>2 DEF Reads, StaticReads
<1> QED BY <1>1, <1>3, <1>4 DEF StaticReads

\* A function that the first pass has yet to visit
Unvisited(f) ==
    \/ passes = 0
    \/ /\ passes = 1 /\ phase \in {"visit", "settle"}
       /\ \/ f \in pending /\ \E j \in DOMAIN components : j > id /\ f \in components[j]
          \/ phase = "settle" /\ f \in queue /\ budget > 0

StaticInv ==
    Static => /\ \A f \in scope : Recording(f) \/ Unvisited(f)
              /\ passes > 1 => graph = ReadGraph
              /\ CalleesFirst

LEMMA StaticStart == Init => StaticInv
  BY DEF Init, StaticInv, Unvisited, CalleesFirst

\* The callers outside a component come after it.
LEMMA CallersAfter ==
  ASSUME SearchInv, StoreTypes, ComponentsOrdered, Searched, graph = ReadGraph,
         id \in DOMAIN components, NEW D \in SUBSET Component
  PROVE  (CallersOf(D, callers) \ Component) \cap UNION {components[i] : i \in 1 .. id} = {}
<1> SUFFICES ASSUME NEW f \in D, NEW h \in callers[f], h \notin Component,
                    NEW i \in 1 .. id, h \in components[i]
             PROVE  FALSE
  BY DEF CallersOf
<1>1. /\ components \in Seq(SUBSET Node) /\ DOMAIN components = 1 .. Len(components)
      /\ Len(components) \in Nat /\ id \in Nat
  <2>1. components \in Seq(SUBSET Node) /\ DOMAIN components = 1 .. Len(components)
        /\ Len(components) \in Nat
    BY SearchForms
  <2> QED BY <2>1
<1>2. i \in DOMAIN components /\ i < id
  BY <1>1 DEF Component
<1>3. f \in Node /\ h \in Node /\ f \in components[id]
  BY <1>1, <1>2 DEF Component
<1>4. f \in graph[h]
  BY <1>3 DEF ReadGraph
<1> QED BY <1>2, <1>3, <1>4 DEF ComponentsOrdered

LEMMA StaticStep ==
  ASSUME StoreInv, PassInv, FormsInv, TurnInv, StaticInv, [Next]_vars
  PROVE  StaticInv'
<1> SUFFICES ASSUME Static'
             PROVE  /\ \A f \in scope' : (Recording(f) \/ Unvisited(f))'
                    /\ passes' > 1 => graph' = ReadGraph'
                    /\ CalleesFirst'
  BY DEF StaticInv
<1>0. /\ StoreTypes /\ DueInv /\ SearchInv /\ passes \in Nat /\ ComponentsOrdered
      /\ program' = program /\ scope' = scope /\ Static
      /\ program \in [Node -> Body] /\ scope \subseteq Node
      /\ callers \in [Node -> SUBSET scope]
  <2>1. program' = program /\ scope' = scope
    BY DEF Next, StartPass, FindComponents, NextComponent, Refine, Widen, LeaveComponent,
         SettleStuck, EndPass, Finish, settings, vars
  <2>2. Static
    BY <2>1 DEF Static
  <2> QED BY <2>1, <2>2, PassesOrder, FixpointAssumption
          DEF StoreInv, StoreTypes, PassInv, FormsInv
<1>1. /\ components \in Seq(SUBSET Node) /\ DOMAIN components = 1 .. Len(components)
      /\ Len(components) \in Nat /\ id \in 0 .. Len(components) /\ id \in Nat
  <2>1. components \in Seq(SUBSET Node) /\ DOMAIN components = 1 .. Len(components)
        /\ Len(components) \in Nat /\ id \in 0 .. Len(components)
    BY <1>0, SearchForms DEF PassInv
  <2> QED BY <2>1
<1>2. /\ \A f \in scope : Recording(f) \/ Unvisited(f)
      /\ passes > 1 => graph = ReadGraph
      /\ CalleesFirst
  BY <1>0 DEF StaticInv
<1>3. \A f \in Node : Reads(f)' = Reads(f) /\ Reads(f) \subseteq Node
  BY <1>0, ReadsAreStatic
<1>4. (\A g \in Node : callers[g] \subseteq callers'[g])
          => \A f \in Node : Recording(f) => Recording(f)'
  <2> SUFFICES ASSUME \A g \in Node : callers[g] \subseteq callers'[g], NEW f \in Node,
                      Recording(f)
               PROVE  Recording(f)'
    OBVIOUS
  <2> QED BY <1>3 DEF Recording
<1>5. phase = "settle" => id \in DOMAIN components /\ id # 0
  BY <1>1 DEF PassInv
<1>6. passes > 1 /\ phase = "settle" =>
         /\ graph = ReadGraph /\ Searched
         /\ \A D \in SUBSET Component :
              (CallersOf(D, callers) \ Component) \cap UNION {components[i] : i \in 1 .. id} = {}
         /\ pending \cap UNION {components[i] : i \in 1 .. id} = {}
  <2> SUFFICES ASSUME passes > 1, phase = "settle"
               PROVE  /\ graph = ReadGraph /\ Searched
                      /\ \A D \in SUBSET Component :
                            (CallersOf(D, callers) \ Component)
                               \cap UNION {components[i] : i \in 1 .. id} = {}
                      /\ pending \cap UNION {components[i] : i \in 1 .. id} = {}
    OBVIOUS
  <2>1. graph = ReadGraph /\ Searched
    BY <1>2 DEF TurnInv
  <2>2. pending \cap UNION {components[i] : i \in 1 .. id} = {}
    BY <1>0, <1>2 DEF CalleesFirst
  <2> QED BY <1>0, <1>5, <2>1, <2>2, CallersAfter
<1>7. CASE StartPass
  <2>1. /\ phase = "pass" /\ passes' = passes + 1 /\ id' = 0 /\ pending' = pending
        /\ callers' = callers
    BY <1>7 DEF StartPass
  <2>2. CASE passes = 0
    <3>1. /\ components' = InNameOrder /\ phase' = "visit" /\ passes' = 1 /\ pending = scope
      BY <1>7, <2>1, <2>2 DEF StartPass, TurnInv
    <3>2. ASSUME NEW f \in scope PROVE \E j \in DOMAIN components' : j > 0 /\ f \in components'[j]
      <4> DEFINE rank(g) == Cardinality({x \in pending : x <= g})
                 C(i) == {g \in pending : rank(g) = i}
      <4>1. rank(f) \in 1 .. Cardinality(pending)
        BY <1>0, <3>1, <3>2, ByName
      <4>2. components' = [i \in 1 .. Cardinality(pending) |-> C(i)]
        BY <3>1 DEF InNameOrder
      <4>3. f \in C(rank(f))
        BY <3>1, <3>2
      <4> HIDE DEF rank, C
      <4>4. rank(f) \in DOMAIN components' /\ f \in components'[rank(f)] /\ rank(f) > 0
        BY <4>1, <4>2, <4>3
      <4> QED BY <4>4
    <3>3. \A f \in scope : Unvisited(f)'
      BY <2>1, <3>1, <3>2 DEF Unvisited
    <3>4. CalleesFirst'
      BY <3>1 DEF CalleesFirst
    <3> QED BY <1>0, <3>1, <3>3, <3>4
  <2>3. CASE passes # 0
    <3>1. graph' = ReadGraph /\ phase' = "search"
      BY <1>7, <2>3 DEF StartPass, StartSearch
    <3>2. ReadGraph' = ReadGraph
      BY <2>1 DEF ReadGraph
    <3>3. \A f \in scope : Recording(f)
      BY <1>2, <2>1, <2>3 DEF Unvisited
    <3>4. CalleesFirst'
      BY <3>1 DEF CalleesFirst
    <3> QED BY <1>0, <1>4, <2>1, <3>1, <3>2, <3>3, <3>4
  <2> QED BY <2>2, <2>3
<1>8. CASE FindComponents
  <2>1. /\ phase = "search" /\ Search /\ id' = id /\ passes' = passes /\ callers' = callers
        /\ pending' = pending
    BY <1>8 DEF FindComponents
  <2>2. passes > 1 /\ id = 0
    BY <2>1 DEF TurnInv
  <2>3. graph' = graph
    BY <2>1 DEF Search, NextRoot, FollowEdge, LeaveNode, Visit
  <2>4. \A f \in scope : Recording(f)
    BY <1>0, <1>2, <2>1, <2>2 DEF Unvisited
  <2>5. ReadGraph' = ReadGraph
    BY <2>1 DEF ReadGraph
  <2>6. CalleesFirst'
    <3>1. 1 .. id' = {}
      BY <2>1, <2>2
    <3> QED BY <3>1 DEF CalleesFirst
  <2> QED BY <1>0, <1>2, <1>4, <2>1, <2>2, <2>3, <2>4, <2>5, <2>6
<1>9. CASE NextComponent
  <2> DEFINE C == components[id + 1]
  <2>1. /\ phase = "visit" /\ id < Len(components) /\ id' = id + 1 /\ phase' = "settle"
        /\ queue' = C \cap pending /\ pending' = pending \ C
        /\ budget' = MaxPasses * Cardinality(C)
        /\ passes' = passes /\ callers' = callers /\ components' = components /\ graph' = graph
    BY <1>9 DEF NextComponent, searchVars
  <2>2. ReadGraph' = ReadGraph
    BY <2>1 DEF ReadGraph
  <2>3. id + 1 \in DOMAIN components /\ C \subseteq Node
    BY <1>1, <2>1
  <2>4. ASSUME NEW f \in scope PROVE (Recording(f) \/ Unvisited(f))'
    <3>1. CASE Recording(f)
      BY <1>0, <1>4, <2>1, <3>1
    <3>2. CASE ~ Recording(f)
      <4>1. Unvisited(f) /\ phase = "visit" /\ passes # 0
        BY <1>2, <2>1, <3>2 DEF TurnInv
      <4>2. passes = 1 /\ f \in pending
        BY <4>1 DEF Unvisited
      <4>3. PICK j \in DOMAIN components : j > id /\ f \in components[j]
        BY <4>1 DEF Unvisited
      <4>4. CASE f \in C
        <5>1. Cardinality(C) \in Nat \ {0}
          <6>1. IsFiniteSet(Node)
            BY NAssumption, FS_Interval DEF Node
          <6>2. IsFiniteSet(C)
            BY <2>3, <6>1, FS_Subset
          <6> QED BY <4>4, <6>2, FS_CardinalityType, FS_EmptySet
        <5> HIDE DEF C
        <5>2. budget' > 0
          <6>1. \A a, b \in Nat \ {0} : a * b > 0
            OBVIOUS
          <6> QED BY <2>1, <5>1, <6>1, FixpointAssumption
        <5> QED BY <2>1, <4>2, <4>4, <5>2 DEF Unvisited
      <4>5. CASE f \notin C
        <5>1. j > id + 1
          BY <1>1, <4>3, <4>5
        <5> QED BY <2>1, <4>2, <4>3, <4>5, <5>1 DEF Unvisited
      <4> QED BY <4>4, <4>5
    <3> QED BY <3>1, <3>2
  <2>5. CalleesFirst'
    <3> SUFFICES ASSUME passes > 1, NEW f \in pending \ C, NEW i \in 1 .. (id + 1),
                        f \in components[i]
                 PROVE  FALSE
      BY <1>0, <2>1 DEF CalleesFirst
    <3>1. i \in 1 .. id
      BY <1>1
    <3> QED BY <1>0, <1>2, <2>1, <3>1 DEF CalleesFirst
  <2> QED BY <1>0, <1>2, <2>1, <2>2, <2>4, <2>5
<1>10. CASE Refine
  <2>f. PICK f : f = Min(queue)
    OBVIOUS
  <2> DEFINE seen == Recorded(f)
  <2>0. PICK D \in SUBSET {f} : /\ pending' = pending \cup (CallersOf(D, seen) \ Component)
                                /\ queue' = (queue \ {f}) \cup (CallersOf(D, seen) \cap Component)
    BY <1>10, <2>f DEF Refine, Requeue
  <2>1. /\ phase = "settle" /\ phase' = phase /\ passes' = passes /\ id' = id
        /\ callers' = seen /\ components' = components /\ graph' = graph
        /\ queue # {} /\ budget > 0
    BY <1>10, <2>f DEF Refine, searchVars
  <2>2. f \in queue /\ f \in scope /\ f \in Node
    <3>1. queue # {} /\ queue \in SUBSET Node
      BY <1>0, <2>1 DEF StoreTypes
    <3> QED BY <1>0, <2>f, <3>1, FirstFunction DEF StoreTypes
  <2>3. f \in Component
    BY <1>0, <2>1, <2>2 DEF DueInv
  <2>4. \A g \in Node : callers[g] \subseteq callers'[g]
        /\ callers'[g] = IF g \in Reads(f) THEN callers[g] \cup {f} ELSE callers[g]
    BY <1>0, <2>1 DEF Recorded
  <2> HIDE DEF seen
  <2>5. Recording(f)'
    BY <1>3, <2>2, <2>4 DEF Recording
  <2>6. Recording(f) => \A g \in Node : callers'[g] = callers[g]
    BY <2>4 DEF Recording
  <2>7. ASSUME NEW h \in scope PROVE (Recording(h) \/ Unvisited(h))'
    <3>1. CASE Recording(h)
      BY <1>0, <1>4, <2>4, <3>1
    <3>2. CASE ~ Recording(h) /\ h # f
      <4>1. Unvisited(h) /\ passes # 0
        BY <1>2, <2>1, <3>2 DEF TurnInv
      <4>2. passes = 1
        BY <4>1 DEF Unvisited
      <4>3. h \notin queue
        BY <1>0, <1>5, <2>1, <2>3, <3>2, <4>2 DEF TurnInv, DueInv, Component
      <4>4. h \in pending /\ \E j \in DOMAIN components : j > id /\ h \in components[j]
        BY <4>1, <4>2, <4>3 DEF Unvisited
      <4>5. h \in pending'
        BY <2>0, <4>4
      <4> QED BY <2>1, <4>2, <4>4, <4>5 DEF Unvisited
    <3> QED BY <2>5, <3>1, <3>2
  <2>8. passes > 1 => callers' = callers
    <3>1. passes > 1 => Recording(f)
      BY <1>0, <1>2, <2>2 DEF Unvisited
    <3>2. callers' \in [Node -> SUBSET scope]
      BY <1>0, <2>1, <2>2 DEF Recorded, seen
    <3> QED BY <1>0, <2>6, <3>1, <3>2
  <2>9. passes > 1 => ReadGraph' = ReadGraph
    BY <2>8 DEF ReadGraph
  <2>10. CalleesFirst'
    <3> SUFFICES ASSUME passes > 1
                 PROVE  pending' \cap UNION {components[i] : i \in 1 .. id} = {}
      BY <1>0, <2>1 DEF CalleesFirst
    <3>1. seen = callers /\ D \subseteq Component
      BY <2>1, <2>3, <2>8
    <3> QED BY <1>6, <2>0, <2>1, <3>1
  <2> QED BY <1>0, <1>2, <2>1, <2>7, <2>9, <2>10
<1>11. CASE Widen \/ SettleStuck \/ LeaveComponent
  <2>1. /\ phase = "settle" /\ phase' \in {"visit", "settle"} /\ passes' = passes /\ id' = id
        /\ callers' = callers /\ components' = components /\ graph' = graph
    BY <1>11 DEF Widen, SettleStuck, LeaveComponent, searchVars
  <2>2. ReadGraph' = ReadGraph
    BY <2>1 DEF ReadGraph
  <2>3. pending \subseteq pending'
    BY <1>11 DEF Widen, SettleStuck, LeaveComponent, Requeue
  <2>4. queue = {} \/ budget = 0
    BY <1>11 DEF Widen, SettleStuck, LeaveComponent
  <2>5. ASSUME NEW h \in scope PROVE (Recording(h) \/ Unvisited(h))'
    <3>1. CASE Recording(h)
      BY <1>0, <1>4, <2>1, <3>1
    <3>2. CASE ~ Recording(h)
      <4>1. Unvisited(h) /\ passes # 0
        BY <1>2, <2>1, <3>2 DEF TurnInv
      <4>2. passes = 1
        BY <4>1 DEF Unvisited
      <4>3. h \in pending /\ \E j \in DOMAIN components : j > id /\ h \in components[j]
        BY <2>4, <4>1, <4>2 DEF Unvisited
      <4> QED BY <2>1, <2>3, <4>2, <4>3 DEF Unvisited
    <3> QED BY <3>1, <3>2
  <2>6. CalleesFirst'
    <3> SUFFICES ASSUME passes > 1
                 PROVE  pending' \cap UNION {components[i] : i \in 1 .. id} = {}
      BY <1>0, <2>1 DEF CalleesFirst
    <3>1. CASE LeaveComponent
      BY <1>6, <2>1, <3>1 DEF LeaveComponent
    <3>2. CASE Widen
      <4>1. pending' = pending \cup (CallersOf(NotYetUnknown, callers) \ Component)
        BY <3>2 DEF Widen
      <4>2. NotYetUnknown \in SUBSET Component
        BY DEF NotYetUnknown
      <4> QED BY <1>6, <2>1, <4>1, <4>2
    <3>3. CASE SettleStuck
      <4>1. pending' = pending \cup (CallersOf(Stuck, callers) \ Component)
        BY <3>3 DEF SettleStuck, Requeue
      <4>2. Stuck \in SUBSET Component
        BY DEF Stuck
      <4> QED BY <1>6, <2>1, <4>1, <4>2
    <3> QED BY <1>11, <3>1, <3>2, <3>3
  <2> QED BY <1>0, <1>2, <2>1, <2>2, <2>5, <2>6
<1>12. CASE EndPass \/ Finish
  <2>1. /\ passes' = passes /\ callers' = callers /\ graph' = graph
        /\ phase' \in {"pass", "done"} /\ passes # 0
    BY <1>12, FixpointAssumption DEF EndPass, Finish, searchVars, TurnInv, Settled
  <2>2. ReadGraph' = ReadGraph
    BY <2>1 DEF ReadGraph
  <2>3. \A f \in scope : Recording(f)
    <3>1. phase = "visit" => ~ \E j \in DOMAIN components : j > id
      BY <1>1, <1>12 DEF EndPass, Finish
    <3>2. phase # "settle"
      BY <1>12 DEF EndPass, Finish
    <3> QED BY <1>2, <2>1, <3>1, <3>2 DEF Unvisited
  <2>4. CalleesFirst'
    BY <2>1 DEF CalleesFirst
  <2> QED BY <1>0, <1>2, <1>4, <2>1, <2>2, <2>3, <2>4
<1>13. CASE UNCHANGED vars
  <2>1. /\ passes' = passes /\ callers' = callers /\ graph' = graph /\ phase' = phase
        /\ id' = id /\ components' = components /\ pending' = pending /\ queue' = queue
        /\ budget' = budget
    BY <1>13 DEF vars, searchVars
  <2>2. ReadGraph' = ReadGraph /\ CalleesFirst'
    BY <1>0, <1>2, <2>1 DEF ReadGraph, CalleesFirst
  <2>3. \A f \in scope : (Recording(f) \/ Unvisited(f))'
    <3> SUFFICES ASSUME NEW f \in scope PROVE (Recording(f) \/ Unvisited(f))'
      OBVIOUS
    <3>1. Recording(f) => Recording(f)'
      BY <1>0, <1>4, <2>1
    <3>2. Unvisited(f) => Unvisited(f)'
      BY <2>1 DEF Unvisited
    <3> QED BY <1>2, <3>1, <3>2
  <2> QED BY <1>0, <1>2, <2>1, <2>2, <2>3
<1> QED BY <1>7, <1>8, <1>9, <1>10, <1>11, <1>12, <1>13 DEF Next

PlanInv == StoreInv /\ PassInv /\ FormsInv /\ TurnInv /\ StaticInv

LEMMA PlanInvariant == Spec => []PlanInv
<1>1. Init => PlanInv
  BY StoreStart, PassStart, TurnStart, StaticStart DEF PlanInv
<1>2. PlanInv /\ [Next]_vars => PlanInv'
  BY StoreStep, FormsStep, TurnStep, StaticStep DEF PlanInv
<1> QED BY <1>1, <1>2, PTL DEF Spec

(* components_after_dependencies and run_fixpoint_scoped: for every number *)
(* of functions and every program, what the search closes are the strongly *)
(* connected components of what was read, each after those it depends on;  *)
(* and where no read depends on a type or on a package, a component that a *)
(* pass has left is not wanted again in it.                                *)
THEOREM PassesAreOrdered == InferenceSpec => []PassesOrdered
<1>1. PlanInv => PassesOrdered
  <2> SUFFICES ASSUME PlanInv PROVE TypeOK /\ ComponentsOrdered /\ CalleesFirst
    BY DEF PassesOrdered
  <2>1. CalleesFirst
    BY DEF PlanInv, StaticInv, CalleesFirst
  <2> QED BY <2>1, TypesHold, PassesOrder DEF PlanInv
<1> QED BY <1>1, PlanInvariant, FixpointIsPart, PTL

-----------------------------------------------------------------------------
(***************************************************************************)
(* The least returns.  A hollow set has no path that ends a recursion: its *)
(* functions only return what others of it return.  Exactly the functions  *)
(* of hollow sets have no least return but bottom, and a visit leaves them *)
(* at bottom or unknown.  Every other visit stores no more than any return *)
(* that the paths allow, since a body's result grows with what it reads.   *)
(* A component that is stuck after the first pass is hollow: nothing that  *)
(* it reads is due, because callees come first.                            *)
(***************************************************************************)

Hollow(E) == \A f \in E : /\ program[f] # {}
                          /\ \A p \in program[f] : p.kind \in {"call", "list"} /\ p.callee \in E

StaticBody(body) == \A p \in body : p.kind \notin {"method", "package"}

LEMMA StaticPaths ==
  ASSUME NEW body \in Body, StaticBody(body)
  PROVE  \A p \in body : /\ p.callee \in Node
                         /\ p.kind \in {"own", "call", "list", "attach", "forward"}
  BY DEF StaticBody, Body, Path

\* What a path of a static body returns
LEMMA StaticTypes ==
  ASSUME NEW body \in Body, StaticBody(body), NEW p \in body,
         NEW ret, NEW bare, NEW caps, NEW att
  PROVE  LET callee == IF p.callee \in bare THEN Bottom ELSE ret[p.callee]
             type == PathType(p, ret, bare, caps, att)
         IN  /\ p.kind \in {"own", "attach"} => type = 0
             /\ p.kind = "forward" => type = IF p.callee \in caps THEN 1 ELSE 0
             /\ p.kind = "call" => type = callee
             /\ p.kind = "list" => type = IF callee \in {Bottom, Unknown} THEN callee
                                          ELSE callee + 1
             /\ p.kind \in {"call", "list"} => PathReads(p, ret, bare) = {p.callee}
  BY DEF PathType, PathReads

\* A body's result is the greatest of what its paths return.
LEMMA ResultBounds ==
  ASSUME NEW body \in Body, NEW ret \in [Node -> Types \cup {Bottom}], NEW bare, NEW caps, NEW att,
         StaticBody(body)
  PROVE  LET type(p) == PathType(p, ret, bare, caps, att)
             reads == ReadsOf(body, ret, bare)
             result == Result(body, ret, bare, caps, att)
         IN  /\ result \in Types \cup {Bottom}
             /\ \A p \in body : type(p) \in Types \cup {Bottom} /\ type(p) <= result
             /\ IF \A p \in body : type(p) = Bottom
                THEN result = IF reads \cap bare # {} THEN Bottom ELSE Unknown
                ELSE result # Bottom /\ \E p \in body : type(p) = result
<1> DEFINE type(p) == PathType(p, ret, bare, caps, att)
           types == {type(p) : p \in body} \ {Bottom}
           reads == ReadsOf(body, ret, bare)
           result == Result(body, ret, bare, caps, att)
           Goal == /\ result \in Types \cup {Bottom}
                   /\ \A p \in body : type(p) \in Types \cup {Bottom} /\ type(p) <= result
                   /\ IF \A p \in body : type(p) = Bottom
                      THEN result = IF reads \cap bare # {} THEN Bottom ELSE Unknown
                      ELSE result # Bottom /\ \E p \in body : type(p) = result
<1>0. /\ Unknown \in Types /\ Types = 0 .. Unknown /\ Bottom = -1 /\ Unknown \in Nat
      /\ 0 \in Types /\ 1 \in Types
  BY FixpointAssumption DEF Types, Unknown, Bottom
<1>1. ASSUME NEW p \in body PROVE type(p) \in Types \cup {Bottom}
  <2> DEFINE callee == IF p.callee \in bare THEN Bottom ELSE ret[p.callee]
  <2>1. p.callee \in Node /\ p.kind \in {"own", "call", "list", "attach", "forward"}
    BY StaticPaths
  <2>2. callee \in Types \cup {Bottom}
    BY <2>1
  <2>3. /\ p.kind \in {"own", "attach"} => type(p) = 0
        /\ p.kind = "forward" => type(p) = IF p.callee \in caps THEN 1 ELSE 0
        /\ p.kind = "call" => type(p) = callee
        /\ p.kind = "list" => type(p) = IF callee \in {Bottom, Unknown} THEN callee
                                        ELSE callee + 1
    BY StaticTypes
  <2> HIDE DEF callee, type
  <2>4. callee \in Types \ {Unknown} => callee + 1 \in Types
    BY <1>0
  <2> QED BY <1>0, <2>1, <2>2, <2>3, <2>4
<1>2. result = IF types # {} THEN Max(types)
               ELSE IF reads \cap bare # {} THEN Bottom ELSE Unknown
  BY DEF Result, ReadsOf
<1>3. types \in SUBSET Types
  BY <1>1
<1>4. \A p \in body : type(p) \in types \/ type(p) = Bottom
  OBVIOUS
<1>5. \A t \in types : t # Bottom /\ \E p \in body : type(p) = t
  OBVIOUS
<1> HIDE DEF types, result, reads, type
<1>6. CASE types = {}
  <2>1. \A p \in body : type(p) = Bottom
    BY <1>4, <1>6
  <2>2. result = IF reads \cap bare # {} THEN Bottom ELSE Unknown
    BY <1>2, <1>6
  <2>3. result \in Int /\ result >= -1
    BY <1>0, <2>2
  <2>4. Goal
    BY <1>0, <2>1, <2>2, <2>3
  <2> QED BY <2>4 DEF result, reads, type
<1>7. CASE types # {}
  <2>1. result \in types /\ \A t \in types : t <= result
    BY <1>2, <1>3, <1>7, GreatestType
  <2>2. result \in Types /\ result # Bottom /\ \E p \in body : type(p) = result
    BY <1>3, <1>5, <2>1
  <2>3. \A p \in body : type(p) <= result
    <3> SUFFICES ASSUME NEW p \in body PROVE type(p) <= result
      OBVIOUS
    <3>1. type(p) = Bottom => type(p) <= result
      BY <1>0, <2>2
    <3> QED BY <1>4, <2>1, <3>1
  <2>4. Goal
    BY <1>1, <2>2, <2>3
  <2> QED BY <2>4 DEF result, reads, type
<1> QED BY <1>6, <1>7

\* A greater vector, with nothing at bottom, gives a result that is no less.
LEMMA ResultGrows ==
  ASSUME NEW body \in Body, StaticBody(body), NEW bare, NEW att, NEW att2,
         NEW ret \in [Node -> Types], NEW ret2 \in [Node -> Types],
         NEW caps, NEW caps2, caps \subseteq caps2,
         \A p \in body : p.kind \in {"call", "list"} /\ p.callee \notin bare
                          => ret[p.callee] <= ret2[p.callee]
  PROVE  Result(body, ret, bare, caps, att) <= Result(body, ret2, {}, caps2, att2)
<1> DEFINE under(p) == PathType(p, ret, bare, caps, att)
           over(p) == PathType(p, ret2, {}, caps2, att2)
           lowest == Result(body, ret, bare, caps, att)
           highest == Result(body, ret2, {}, caps2, att2)
           reads == ReadsOf(body, ret, bare)
<1>0. /\ Unknown \in Types /\ Types = 0 .. Unknown /\ Bottom = -1 /\ Unknown \in Nat
      /\ 0 \in Types /\ 1 \in Types /\ Types \subseteq Int
  BY FixpointAssumption DEF Types, Unknown, Bottom
<1>1. /\ ret \in [Node -> Types \cup {Bottom}] /\ ret2 \in [Node -> Types \cup {Bottom}]
  OBVIOUS
<1>2. /\ lowest \in Types \cup {Bottom}
      /\ \A p \in body : under(p) \in Types \cup {Bottom}
      /\ IF \A p \in body : under(p) = Bottom
         THEN lowest = IF reads \cap bare # {} THEN Bottom ELSE Unknown
         ELSE lowest # Bottom /\ \E p \in body : under(p) = lowest
  <2>1. /\ lowest \in Types \cup {Bottom}
        /\ \A p \in body : under(p) \in Types \cup {Bottom} /\ under(p) <= lowest
        /\ IF \A p \in body : under(p) = Bottom
           THEN lowest = IF reads \cap bare # {} THEN Bottom ELSE Unknown
           ELSE lowest # Bottom /\ \E p \in body : under(p) = lowest
    BY <1>1, ResultBounds
  <2> HIDE DEF under, lowest, reads
  <2> QED BY <2>1
<1>3. highest \in Types /\ \A p \in body : over(p) <= highest
  <2>1. \A p \in body : over(p) <= highest
    BY <1>1, ResultBounds
  <2>2. highest \in Types
    BY ResultForms
  <2> QED BY <2>1, <2>2
<1>4. ASSUME NEW p \in body
      PROVE  /\ under(p) <= over(p)
             /\ under(p) = Bottom => p.callee \in bare /\ p.callee \in reads
             /\ over(p) \in Types
  <2>1. p.callee \in Node /\ p.kind \in {"own", "call", "list", "attach", "forward"}
    BY StaticPaths
  <2> DEFINE a == IF p.callee \in bare THEN Bottom ELSE ret[p.callee]
             b == ret2[p.callee]
  <2>2. /\ p.kind \in {"own", "attach"} => under(p) = 0 /\ over(p) = 0
        /\ p.kind = "forward" => /\ under(p) = IF p.callee \in caps THEN 1 ELSE 0
                                 /\ over(p) = IF p.callee \in caps2 THEN 1 ELSE 0
        /\ p.kind = "call" => under(p) = a /\ over(p) = b
        /\ p.kind = "list" =>
              /\ under(p) = IF a \in {Bottom, Unknown} THEN a ELSE a + 1
              /\ over(p) = IF b \in {Bottom, Unknown} THEN b ELSE b + 1
        /\ p.kind \in {"call", "list"} => p.callee \in reads
    <3>1. /\ p.kind \in {"own", "attach"} => under(p) = 0 /\ over(p) = 0
          /\ p.kind = "forward" => /\ under(p) = IF p.callee \in caps THEN 1 ELSE 0
                                   /\ over(p) = IF p.callee \in caps2 THEN 1 ELSE 0
          /\ p.kind = "call" => under(p) = a /\ over(p) = b
          /\ p.kind = "list" =>
                /\ under(p) = IF a \in {Bottom, Unknown} THEN a ELSE a + 1
                /\ over(p) = IF b \in {Bottom, Unknown} THEN b ELSE b + 1
      BY StaticTypes
    <3>2. p.kind \in {"call", "list"} => PathReads(p, ret, bare) = {p.callee}
      BY StaticTypes
    <3> QED BY <3>1, <3>2 DEF ReadsOf
  <2>3. b \in Types /\ a \in Types \cup {Bottom} /\ (a = Bottom => p.callee \in bare)
    BY <1>0, <2>1
  <2>4. p.kind \in {"call", "list"} => a <= b
    BY <1>0, <2>3
  <2> HIDE DEF a, b, under, over, reads
  <2>5. CASE p.kind \in {"own", "attach"}
    BY <1>0, <2>2, <2>5
  <2>6. CASE p.kind = "forward"
    BY <1>0, <2>2, <2>6
  <2>7. CASE p.kind = "call"
    BY <2>2, <2>3, <2>4, <2>7
  <2>8. CASE p.kind = "list"
    BY <1>0, <2>2, <2>3, <2>4, <2>8
  <2> QED BY <2>1, <2>5, <2>6, <2>7, <2>8
<1> HIDE DEF under, over, lowest, highest, reads
<1>5. lowest <= highest
  <2>1. CASE \E p \in body : under(p) = lowest
    <3>1. PICK p \in body : under(p) = lowest
      BY <2>1
    <3>2. lowest <= over(p) /\ over(p) <= highest /\ over(p) \in Int
      BY <1>0, <1>3, <1>4, <3>1
    <3> QED BY <1>0, <1>2, <1>3, <3>2
  <2>2. CASE lowest = Bottom
    BY <1>0, <1>3, <2>2
  \* Only an empty body is unknown without a path that returns.
  <2>3. CASE lowest = Unknown /\ reads \cap bare = {} /\ \A p \in body : under(p) = Bottom
    <3>1. body = {}
      BY <1>4, <2>3
    <3>2. highest = Unknown
      BY <3>1 DEF Result, highest
    <3> QED BY <1>0, <2>3, <3>2
  <2> QED BY <1>2, <2>1, <2>2, <2>3
<1> QED BY <1>5 DEF lowest, highest

\* Returns that the paths allow: no body yields more than is given for it
Extended(v) == [g \in Node |-> IF g \in scope THEN v[g] ELSE returns[g]]
Allowed == {v \in [scope -> Types] :
              /\ \A f \in scope : Result(program[f], Extended(v), {}, captures, attached) <= v[f]
              /\ \A E \in SUBSET scope : Hollow(E) => \A f \in E : v[f] = Unknown}

\* At bottom, and reading nothing else
Waiting(f) == /\ Recording(f) /\ program[f] # {}
              /\ \A p \in program[f] : p.kind \in {"call", "list"} /\ p.callee \in uncomputed

HollowInv == \A E \in SUBSET scope : Hollow(E) => \A f \in E : returns[f] = Unknown

LeastInv ==
    (Static /\ widened = {} /\ (phase = "done" => Settled)) =>
        /\ \A v \in Allowed : \A f \in scope \ uncomputed : returns[f] <= v[f]
        /\ \A f \in uncomputed \ Due : Waiting(f)

LEMMA ExtendedTypes ==
  ASSUME StoreTypes, NEW v \in [scope -> Types]
  PROVE  /\ Extended(v) \in [Node -> Types]
         /\ \A g \in scope : Extended(v)[g] = v[g] /\ v[g] \in Types
         /\ \A g \in Node \ scope : Extended(v)[g] = returns[g]
  BY DEF Extended, StoreTypes

LEMMA StaticBodies ==
  ASSUME StoreTypes, Static
  PROVE  \A f \in Node : program[f] \in Body /\ StaticBody(program[f])
  BY DEF StoreTypes, Static, StaticBody

\* As more formals have an evaluation mode fewer returns are allowed.
LEMMA AllowedShrinks ==
  ASSUME StoreTypes, StoreTypes', Static, program' = program, scope' = scope,
         \A g \in Node \ scope : returns'[g] = returns[g], captures \subseteq captures'
  PROVE  Allowed' \subseteq Allowed
<1> SUFFICES ASSUME NEW v \in Allowed' PROVE v \in Allowed
  OBVIOUS
<1>1. /\ v \in [scope -> Types]
      /\ \A f \in scope : Result(program[f], Extended(v)', {}, captures', attached') <= v[f]
      /\ \A E \in SUBSET scope : Hollow(E)' => \A f \in E : v[f] = Unknown
  BY DEF Allowed
<1>2. Extended(v)' = Extended(v) /\ Extended(v) \in [Node -> Types]
  <2>1. Extended(v)' = Extended(v)
    BY DEF Extended
  <2> QED BY <1>1, <2>1, ExtendedTypes
<1>3. \A E : Hollow(E)' <=> Hollow(E)
  BY DEF Hollow
<1>4. ASSUME NEW f \in scope
      PROVE  Result(program[f], Extended(v), {}, captures, attached) <= v[f]
  <2> DEFINE ext == Extended(v)
             a == Result(program[f], ext, {}, captures, attached)
             b == Result(program[f], ext, {}, captures', attached')
  <2>1. f \in Node /\ program[f] \in Body /\ StaticBody(program[f])
    BY StaticBodies DEF StoreTypes
  <2>2. \A p \in program[f] : p.kind \in {"call", "list"} => ext[p.callee] <= ext[p.callee]
    <3> SUFFICES ASSUME NEW p \in program[f] PROVE ext[p.callee] <= ext[p.callee]
      OBVIOUS
    <3>1. p.callee \in Node
      BY <2>1, StaticPaths
    <3>2. ext[p.callee] \in Int
      BY <1>2, <3>1, UnknownIsTop
    <3> HIDE DEF ext
    <3> QED BY <3>2
  <2>3. a <= b
    BY <1>2, <2>1, <2>2, ResultGrows
  <2>4. a \in Types /\ b \in Types /\ v[f] \in Types
    BY <1>1, <1>2, <2>1, ResultForms
  <2>5. b <= v[f]
    BY <1>1, <1>2
  <2> HIDE DEF a, b
  <2>6. a <= v[f]
    BY <2>3, <2>4, <2>5, UnknownIsTop
  <2> QED BY <2>6 DEF a
<1> QED BY <1>1, <1>3, <1>4 DEF Allowed

\* A visit stores no more than what is allowed.
LEMMA ResultIsLeast ==
  ASSUME StoreTypes, Static, NEW f \in scope, NEW att,
         \A v \in Allowed : \A g \in scope \ uncomputed : returns[g] <= v[g]
  PROVE  \A v \in Allowed : Result(program[f], returns, uncomputed, captures, att) <= v[f]
<1> SUFFICES ASSUME NEW v \in Allowed
             PROVE  Result(program[f], returns, uncomputed, captures, att) <= v[f]
  OBVIOUS
<1> DEFINE ext == Extended(v)
           a == Result(program[f], returns, uncomputed, captures, att)
           b == Result(program[f], ext, {}, captures, attached)
<1>1. /\ v \in [scope -> Types] /\ b <= v[f]
      /\ f \in Node /\ program[f] \in Body /\ StaticBody(program[f])
      /\ returns \in [Node -> Types]
  BY StaticBodies DEF Allowed, StoreTypes
<1>2. /\ ext \in [Node -> Types]
      /\ \A g \in scope : ext[g] = v[g]
      /\ \A g \in Node \ scope : ext[g] = returns[g]
  BY <1>1, ExtendedTypes
<1> HIDE DEF ext
<1>3. ASSUME NEW p \in program[f], p.callee \notin uncomputed PROVE returns[p.callee] <= ext[p.callee]
  <2>1. p.callee \in Node
    BY <1>1, StaticPaths
  <2>2. CASE p.callee \in scope
    BY <1>2, <1>3, <2>2
  <2>3. CASE p.callee \notin scope
    <3>1. ext[p.callee] = returns[p.callee] /\ returns[p.callee] \in Int
      BY <1>1, <1>2, <2>1, <2>3, UnknownIsTop
    <3> QED BY <3>1
  <2> QED BY <2>2, <2>3
<1>4. a <= b
  BY <1>1, <1>2, <1>3, ResultGrows
<1>5. b \in Types /\ v[f] \in Types /\ a \in Types \cup {Bottom}
  BY <1>1, <1>2, ResultForms
<1>6. b <= v[f]
  BY <1>1
<1> HIDE DEF a, b
<1>7. a \in Int /\ b \in Int /\ v[f] \in Int
  BY <1>5, FixpointAssumption DEF Types, Unknown, Bottom
<1>8. a <= v[f]
  BY <1>4, <1>6, <1>7
<1> QED BY <1>8 DEF a

\* A visit of a function of a hollow set leaves it at bottom or unknown.
LEMMA HollowResult ==
  ASSUME StoreTypes, NEW E \in SUBSET scope, Hollow(E), NEW f \in E, NEW att,
         \A g \in E : returns[g] = Unknown
  PROVE  Result(program[f], returns, uncomputed, captures, att) \in {Bottom, Unknown}
<1> DEFINE a == Result(program[f], returns, uncomputed, captures, att)
<1>1. /\ program[f] \in Body /\ StaticBody(program[f]) /\ f \in Node
      /\ returns \in [Node -> Types \cup {Bottom}]
  BY DEF StoreTypes, Hollow, StaticBody
<1>2. ASSUME NEW p \in program[f]
      PROVE  PathType(p, returns, uncomputed, captures, att) \in {Bottom, Unknown}
  <2>1. p.kind \in {"call", "list"} /\ returns[p.callee] = Unknown
    BY DEF Hollow
  <2> QED BY <1>1, <2>1, StaticTypes
<1>3. a \in {Bottom, Unknown} \/ \E p \in program[f] : PathType(p, returns, uncomputed, captures, att) = a
  BY <1>1, ResultBounds
<1> HIDE DEF a
<1>4. a \in {Bottom, Unknown}
  BY <1>2, <1>3
<1> QED BY <1>4 DEF a

LEMMA HollowStep ==
  ASSUME PlanInv, HollowInv, [Next]_vars PROVE HollowInv'
<1>0. StoreTypes /\ program' = program /\ scope' = scope
  <2>1. program' = program /\ scope' = scope
    BY DEF Next, StartPass, FindComponents, NextComponent, Refine, Widen, LeaveComponent,
         SettleStuck, EndPass, Finish, settings, vars
  <2> QED BY <2>1 DEF PlanInv, StoreInv
<1> SUFFICES ASSUME NEW E \in SUBSET scope, Hollow(E), NEW f \in E PROVE returns'[f] = Unknown
  BY <1>0 DEF HollowInv, Hollow
<1>1. \A g \in E : returns[g] = Unknown
  BY DEF HollowInv
<1>2. returns \in [Node -> Types] /\ f \in Node
  BY <1>0 DEF StoreTypes
<1>3. CASE Refine
  <2> DEFINE g == Min(queue)
             type == Result(program[g], returns, uncomputed, captures, attached \/ Attaches(g))
  <2>1. returns' = returns \/ (type # Bottom /\ returns' = [returns EXCEPT ![g] = type])
    BY <1>3 DEF Refine, Store
  <2>2. g = f => type \in {Bottom, Unknown}
    BY <1>0, <1>1, HollowResult
  <2> HIDE DEF type, g
  <2> QED BY <1>1, <1>2, <2>1, <2>2
<1>4. CASE Widen \/ SettleStuck
  BY <1>1, <1>2, <1>4 DEF Widen, SettleStuck
<1>5. CASE ~ (Refine \/ Widen \/ SettleStuck)
  <2>1. returns' = returns
    BY <1>5 DEF Next, StartPass, FindComponents, NextComponent, LeaveComponent,
         EndPass, Finish, results, vars
  <2> QED BY <1>1, <2>1
<1> QED BY <1>3, <1>4, <1>5

LEMMA LeastStart == Init => HollowInv /\ LeastInv
<1> SUFFICES ASSUME Init PROVE HollowInv /\ LeastInv
  OBVIOUS
<1>1. uncomputed = scope /\ pending = scope /\ \A f \in scope : returns[f] = Unknown
  <2>1. scope \subseteq Node
    BY FixpointAssumption DEF Init
  <2> QED BY <2>1 DEF Init
<1> QED BY <1>1 DEF HollowInv, LeastInv, Due

\* What is stuck after the first pass reads nothing that is due.
LEMMA StuckIsHollow ==
  ASSUME PlanInv, Static, phase = "settle", queue = {}, passes > 1,
         \A f \in uncomputed \ Due : Waiting(f)
  PROVE  Stuck \in SUBSET scope /\ Hollow(Stuck)
<1>0. /\ StoreTypes /\ DueInv /\ SearchInv /\ StaticInv /\ TurnInv
      /\ id \in 0 .. Len(components) /\ id # 0
  BY DEF PlanInv, StoreInv, PassInv
<1>1. /\ components \in Seq(SUBSET Node) /\ DOMAIN components = 1 .. Len(components)
      /\ Len(components) \in Nat
  BY <1>0, SearchForms
<1>2. id \in DOMAIN components /\ id \in 1 .. id /\ id \in Nat
  BY <1>0, <1>1
<1>3. /\ graph = ReadGraph /\ PlacedInv
      /\ pending \cap UNION {components[i] : i \in 1 .. id} = {}
  BY <1>0 DEF StaticInv, TurnInv, OrderInv, CalleesFirst
<1>4. Stuck \subseteq scope /\ Stuck \subseteq Component /\ Stuck = Component \cap uncomputed
  BY <1>0 DEF Stuck, StoreTypes
<1>5. ASSUME NEW f \in Stuck
      PROVE  /\ program[f] # {}
             /\ \A p \in program[f] : p.kind \in {"call", "list"} /\ p.callee \in Stuck
  <2>1. f \in components[id] /\ f \in uncomputed /\ f \in Node
    BY <1>0, <1>4 DEF Component, StoreTypes
  <2>2. f \notin Due
    BY <1>2, <1>3, <2>1 DEF Due
  <2>3. Waiting(f)
    BY <2>1, <2>2
  <2>4. ASSUME NEW p \in program[f] PROVE p.kind \in {"call", "list"} /\ p.callee \in Stuck
    <3> DEFINE g == p.callee
    <3>1. p.kind \in {"call", "list"} /\ g \in uncomputed /\ g \in Node
      BY <1>0, <2>3 DEF Waiting, StoreTypes
    <3>2. g \in Reads(f)
      <4>1. StaticReads(f) = Reads(f)
        BY <1>0, <2>1, ReadsAreStatic DEF StoreTypes
      <4> QED BY <3>1, <4>1 DEF StaticReads
    <3>3. f \in callers[g]
      BY <2>3, <3>2 DEF Waiting, Recording
    <3>4. g \in graph[f]
      BY <1>3, <2>1, <3>1, <3>3 DEF ReadGraph
    <3>5. PICK j \in DOMAIN components : j <= id /\ g \in components[j]
      BY <1>2, <1>3, <2>1, <3>4 DEF PlacedInv
    <3>6. j \in 1 .. id
      BY <1>1, <3>5
    <3>7. g \notin pending
      BY <1>3, <3>5, <3>6
    <3>8. g \in Component
      BY <1>0, <3>1, <3>7 DEF DueInv
    <3> QED BY <1>4, <3>1, <3>8
  <2> QED BY <2>3, <2>4 DEF Waiting
<1> QED BY <1>4, <1>5 DEF Hollow

\* A function at bottom keeps waiting where no slot that it reads changes.
LEMMA StaysWaiting ==
  ASSUME StoreTypes, Static, NEW f \in uncomputed', Waiting(f),
         program' = program, uncomputed' \subseteq uncomputed,
         \A g \in Node : callers[g] \subseteq callers'[g],
         \A g \in uncomputed \ uncomputed' : f \notin callers'[g]
  PROVE  Waiting(f)'
<1>1. f \in Node /\ f \in uncomputed /\ uncomputed \subseteq Node
  BY DEF StoreTypes
<1>2. /\ Reads(f)' = Reads(f) /\ Reads(f) = StaticReads(f) /\ StaticReads(f) \subseteq Node
  BY <1>1, ReadsAreStatic DEF StoreTypes
<1>3. \A g \in Reads(f) : f \in callers'[g]
  BY <1>2 DEF Waiting, Recording
<1>4. ASSUME NEW p \in program[f] PROVE p.kind \in {"call", "list"} /\ p.callee \in uncomputed'
  <2>1. p.kind \in {"call", "list"} /\ p.callee \in uncomputed
    BY DEF Waiting
  <2>2. p.callee \in Reads(f)
    BY <1>2, <2>1 DEF StaticReads
  <2> QED BY <1>3, <2>1, <2>2
<1> QED BY <1>2, <1>3, <1>4 DEF Waiting, Recording

LEMMA RefineLeast ==
  ASSUME PlanInv, Static, Refine, Allowed' \subseteq Allowed,
         \A v \in Allowed : \A g \in scope \ uncomputed : returns[g] <= v[g],
         \A g \in uncomputed \ Due : Waiting(g)
  PROVE  /\ \A v \in Allowed' : \A g \in scope' \ uncomputed' : returns'[g] <= v[g]
         /\ \A g \in uncomputed' \ Due' : Waiting(g)'
<1>0. StoreTypes /\ DueInv
  BY DEF PlanInv, StoreInv
<1>f. PICK f : f = Min(queue)
  OBVIOUS
<1> DEFINE att == attached \/ Attaches(f)
           seen == Recorded(f)
           type == Result(program[f], returns, uncomputed, captures, att)
           changed == IF type # Bottom /\ StoreChanges(f, type) THEN {f} ELSE {}
<1>1. f \in queue /\ f \in scope /\ f \in Node
  <2>1. queue # {} /\ queue \in SUBSET Node
    BY <1>0 DEF Refine, StoreTypes
  <2> QED BY <1>0, <1>f, <2>1, FirstFunction DEF StoreTypes
<1>2. program' = program /\ scope' = scope /\ callers' = seen
  BY <1>f DEF Refine, settings
<1>3. IF type = Bottom
      THEN returns' = returns /\ uncomputed' = uncomputed
      ELSE returns' = [returns EXCEPT ![f] = type] /\ uncomputed' = uncomputed \ {f}
  BY <1>f DEF Refine, Store
<1>4. Due' = pending \cup (queue \ {f}) \cup CallersOf(changed, seen)
  BY <1>f DEF Refine, Requeue, Due
<1>5. /\ program[f] \in Body /\ StaticBody(program[f])
      /\ returns \in [Node -> Types] /\ uncomputed \subseteq scope /\ scope \subseteq Node
      /\ \A g \in Node : callers[g] \subseteq callers'[g]
  <2>1. \A g \in Node : callers[g] \subseteq callers'[g]
    BY <1>2 DEF Recorded
  <2> QED BY <1>0, <1>1, <2>1, StaticBodies DEF StoreTypes
<1>6. /\ Reads(f) = StaticReads(f) /\ StaticReads(f) \subseteq Node
      /\ Reads(f)' = Reads(f)
      /\ Reads(f) = ReadsOf(program[f], returns, uncomputed)
  <2>1. Reads(f) = ReadsOf(program[f], returns, uncomputed)
    BY DEF Reads, ReadsOf
  <2> QED BY <1>0, <1>1, <1>2, <2>1, ReadsAreStatic DEF StoreTypes
<1>7. \A v \in Allowed : type <= v[f]
  BY <1>0, <1>1, ResultIsLeast
\* A visit that leaves its function at bottom has read nothing else.
<1>8. ASSUME type = Bottom
      PROVE  /\ program[f] # {}
             /\ \A p \in program[f] : p.kind \in {"call", "list"} /\ p.callee \in uncomputed
  <2> DEFINE t(p) == PathType(p, returns, uncomputed, captures, att)
             R == ReadsOf(program[f], returns, uncomputed)
  <2>0. returns \in [Node -> Types \cup {Bottom}]
    BY <1>5
  <2>1. IF \A p \in program[f] : t(p) = Bottom
        THEN type = IF R \cap uncomputed # {} THEN Bottom ELSE Unknown
        ELSE type # Bottom
    BY <1>5, <2>0, ResultBounds
  <2>2. /\ \A p \in program[f] : t(p) = Bottom
        /\ R \cap uncomputed # {}
    <3> HIDE DEF t, R, type
    <3> QED BY <1>8, <2>1, UnknownIsTop
  <2>3. program[f] # {}
    BY <2>2 DEF ReadsOf
  <2>4. ASSUME NEW p \in program[f] PROVE p.kind \in {"call", "list"} /\ p.callee \in uncomputed
    <3> DEFINE callee == IF p.callee \in uncomputed THEN Bottom ELSE returns[p.callee]
    <3>1. p.callee \in Node /\ p.kind \in {"own", "call", "list", "attach", "forward"}
      BY <1>5, StaticPaths
    <3>2. /\ p.kind \in {"own", "attach"} => t(p) = 0
          /\ p.kind = "forward" => t(p) = IF p.callee \in captures THEN 1 ELSE 0
          /\ p.kind = "call" => t(p) = callee
          /\ p.kind = "list" => t(p) = IF callee \in {Bottom, Unknown} THEN callee
                                       ELSE callee + 1
      BY <1>5, StaticTypes
    <3>3. t(p) = Bottom
      BY <2>2
    <3>4. /\ Bottom = -1 /\ Unknown \in Nat /\ returns[p.callee] \in 0 .. Unknown
      BY <1>5, <3>1, FixpointAssumption DEF Types, Unknown, Bottom
    <3> HIDE DEF t, type
    <3>5. p.kind \in {"call", "list"} /\ callee = Bottom
      BY <3>1, <3>2, <3>3, <3>4
    <3> QED BY <3>4, <3>5
  <2> QED BY <2>3, <2>4
<1>9. Recording(f)'
  BY <1>1, <1>2, <1>6 DEF Recording, Recorded
<1> HIDE DEF type, seen, att
<1>10. ASSUME NEW v \in Allowed', NEW g \in scope' \ uncomputed' PROVE returns'[g] <= v[g]
  <2>1. v \in Allowed /\ g \in scope /\ g \in Node
    BY <1>2, <1>5
  <2>2. CASE g = f /\ type # Bottom
    BY <1>1, <1>3, <1>5, <1>7, <2>1, <2>2
  <2>3. CASE ~ (g = f /\ type # Bottom)
    <3>1. g \notin uncomputed /\ returns'[g] = returns[g]
      BY <1>3, <1>5, <1>10, <2>1, <2>3
    <3> QED BY <2>1, <3>1
  <2> QED BY <2>2, <2>3
<1>11. ASSUME NEW g \in uncomputed' \ Due' PROVE Waiting(g)'
  <2>1. /\ g \in uncomputed /\ g \notin pending /\ g \notin queue \ {f}
        /\ uncomputed' \subseteq uncomputed
        /\ \A h \in changed : g \notin seen[h]
    BY <1>3, <1>4, <1>11 DEF CallersOf
  <2>2. CASE g = f
    <3>1. type = Bottom /\ uncomputed' = uncomputed
      BY <1>3, <1>11, <2>2
    <3>2. Recording(g)'
      BY <1>9, <2>2
    <3> QED BY <1>2, <1>8, <2>2, <3>1, <3>2 DEF Waiting
  <2>3. CASE g # f
    <3>1. Waiting(g)
      BY <2>1, <2>3 DEF Due
    <3>2. \A h \in uncomputed \ uncomputed' : h \in changed
      BY <1>3 DEF StoreChanges
    <3>3. \A h \in uncomputed \ uncomputed' : g \notin callers'[h]
      BY <1>2, <2>1, <3>2
    <3> HIDE DEF changed
    <3> QED BY <1>0, <1>2, <1>5, <1>11, <2>1, <3>1, <3>3, StaysWaiting
  <2> QED BY <2>2, <2>3
<1> QED BY <1>10, <1>11

LEMMA LeastStep ==
  ASSUME PlanInv, PlanInv', LeastInv, HollowInv, [Next]_vars PROVE LeastInv'
<1>0. StoreTypes /\ DueInv /\ StoreTypes'
  BY DEF PlanInv, StoreInv
<1> SUFFICES ASSUME Static', widened' = {}, phase' = "done" => Settled'
             PROVE  /\ \A v \in Allowed' : \A f \in scope' \ uncomputed' : returns'[f] <= v[f]
                    /\ \A f \in uncomputed' \ Due' : Waiting(f)'
  BY DEF LeastInv
<1>1. program' = program /\ scope' = scope /\ Static
  <2>1. program' = program /\ scope' = scope
    BY DEF Next, StartPass, FindComponents, NextComponent, Refine, Widen, LeaveComponent,
         SettleStuck, EndPass, Finish, settings, vars
  <2> QED BY <2>1 DEF Static
\* A component that is widened is not empty.
<1>2. ~ Widen /\ widened = {}
  <2>1. ASSUME Widen PROVE FALSE
    <3>1. phase = "settle" /\ queue # {} /\ widened' = widened \cup Component
      BY <2>1 DEF Widen
    <3>2. queue \subseteq Component
      BY <1>0, <3>1 DEF DueInv
    <3> QED BY <3>1, <3>2
  <2>2. ~ Widen => widened' = widened
    BY DEF Next, StartPass, FindComponents, NextComponent, Refine, LeaveComponent,
         SettleStuck, EndPass, Finish, results, vars
  <2> QED BY <2>1, <2>2
<1>3. phase = "done" => Settled
  <2> SUFFICES ASSUME phase = "done" PROVE Settled
    OBVIOUS
  <2>1. UNCHANGED vars
    BY DEF Next, StartPass, FindComponents, NextComponent, Refine, Widen, LeaveComponent,
         SettleStuck, EndPass, Finish
  <2> QED BY <2>1 DEF vars, Settled
<1>4. /\ \A v \in Allowed : \A f \in scope \ uncomputed : returns[f] <= v[f]
      /\ \A f \in uncomputed \ Due : Waiting(f)
  BY <1>1, <1>2, <1>3 DEF LeastInv
<1>5. returns \in [Node -> Types] /\ uncomputed \subseteq scope /\ scope \subseteq Node
  BY <1>0 DEF StoreTypes
<1>6. captures \subseteq captures'
  BY DEF Next, StartPass, FindComponents, NextComponent, Refine, Widen, LeaveComponent,
         SettleStuck, EndPass, Finish, metadata, vars
<1>7. CASE Refine
  <2>1. \A g \in Node \ scope : returns'[g] = returns[g]
    <3> DEFINE f == Min(queue)
    <3>1. f \in scope
      <4>1. queue # {} /\ queue \in SUBSET Node
        BY <1>0, <1>7 DEF Refine, StoreTypes
      <4> QED BY <1>0, <4>1, FirstFunction DEF StoreTypes
    <3>2. returns' = returns \/ \E type : returns' = [returns EXCEPT ![f] = type]
      BY <1>7 DEF Refine, Store
    <3> HIDE DEF f
    <3> QED BY <1>5, <3>1, <3>2
  <2>2. Allowed' \subseteq Allowed
    BY <1>0, <1>1, <1>6, <2>1, AllowedShrinks
  <2> QED BY <1>1, <1>4, <1>7, <2>2, RefineLeast
<1>8. CASE SettleStuck
  <2>1. /\ phase = "settle" /\ queue = {} /\ passes > 1 /\ callers' = callers
        /\ returns' = [f \in Node |-> IF f \in Stuck THEN Unknown ELSE returns[f]]
        /\ uncomputed' = uncomputed \ Stuck
        /\ Due' = pending \cup CallersOf(Stuck, callers)
    BY <1>8 DEF SettleStuck, Requeue, Due
  <2>2. Stuck \in SUBSET scope /\ Hollow(Stuck)
    BY <1>1, <1>4, <2>1, StuckIsHollow
  <2>3. \A g \in Node \ scope : returns'[g] = returns[g]
    BY <2>1, <2>2
  <2>4. Allowed' \subseteq Allowed
    BY <1>0, <1>1, <1>6, <2>3, AllowedShrinks
  <2>5. ASSUME NEW v \in Allowed', NEW f \in scope \ uncomputed' PROVE returns'[f] <= v[f]
    <3>1. v \in Allowed
      BY <2>4
    <3>2. CASE f \in Stuck
      <4>1. v[f] = Unknown /\ returns'[f] = Unknown
        BY <1>5, <2>1, <2>2, <3>1, <3>2 DEF Allowed
      <4> QED BY <4>1, UnknownIsTop
    <3>3. CASE f \notin Stuck
      <4>1. f \notin uncomputed /\ returns'[f] = returns[f]
        BY <1>5, <2>1, <2>5, <3>3
      <4> QED BY <1>4, <3>1, <4>1
    <3> QED BY <3>2, <3>3
  <2>6. ASSUME NEW f \in uncomputed' \ Due' PROVE Waiting(f)'
    <3>1. Waiting(f)
      BY <1>4, <2>1, <2>6 DEF Due
    <3>2. \A g \in uncomputed \ uncomputed' : f \notin callers'[g]
      BY <2>1, <2>6 DEF CallersOf
    <3> QED BY <1>0, <1>1, <2>1, <2>6, <3>1, <3>2, StaysWaiting
  <2> QED BY <1>1, <2>5, <2>6
<1>9. CASE Finish
  <2>1. phase' = "done" /\ uncomputed' = {} /\ returns' = returns
        /\ pending' = pending /\ evaluationPending' = evaluationPending /\ phase = "pass"
    BY <1>9 DEF Finish, metadata
  <2>2. uncomputed = {}
    BY <1>0, <2>1 DEF Settled, DueInv
  <2>3. Allowed' \subseteq Allowed
    BY <1>0, <1>1, <1>6, <2>1, AllowedShrinks
  <2> QED BY <1>1, <1>4, <2>1, <2>2, <2>3
<1>10. CASE StartPass \/ FindComponents \/ NextComponent \/ LeaveComponent \/ EndPass
            \/ UNCHANGED vars
  <2>1. returns' = returns /\ uncomputed' = uncomputed /\ callers' = callers
    BY <1>10 DEF StartPass, FindComponents, NextComponent, LeaveComponent, EndPass, results, vars
  <2>2. Due \subseteq Due'
    <3>1. CASE NextComponent
      <4>1. queue = {}
        BY <1>0, <3>1 DEF NextComponent, DueInv
      <4> QED BY <3>1, <4>1 DEF NextComponent, Due
    <3>2. CASE ~ NextComponent
      BY <1>10, <3>2 DEF StartPass, FindComponents, LeaveComponent, EndPass, vars, Due
    <3> QED BY <3>1, <3>2
  <2>3. Allowed' \subseteq Allowed
    BY <1>0, <1>1, <1>6, <2>1, AllowedShrinks
  <2>4. ASSUME NEW f \in uncomputed' \ Due' PROVE Waiting(f)'
    <3>1. Waiting(f) /\ f \in uncomputed'
      BY <1>4, <2>1, <2>2, <2>4
    <3> QED BY <1>0, <1>1, <2>1, <3>1, StaysWaiting
  <2> QED BY <1>1, <1>4, <2>1, <2>3, <2>4
<1> QED BY <1>2, <1>7, <1>8, <1>9, <1>10 DEF Next

LeastReturnsInv == PlanInv /\ HollowInv /\ LeastInv

LEMMA LeastInvariant == Spec => []LeastReturnsInv
<1>1. Init => LeastReturnsInv
  BY StoreStart, PassStart, TurnStart, StaticStart, LeastStart DEF PlanInv, LeastReturnsInv
<1>2. LeastReturnsInv /\ [Next]_vars => LeastReturnsInv'
  <2>1. PlanInv /\ [Next]_vars => PlanInv'
    BY StoreStep, FormsStep, TurnStep, StaticStep DEF PlanInv
  <2> QED BY <2>1, HollowStep, LeastStep DEF LeastReturnsInv
<1> QED BY <1>1, <1>2, PTL DEF Spec

-----------------------------------------------------------------------------
\* A set of numbers from bottom on has a least one, which is its minimum.
LEMMA LeastReturn ==
  ASSUME NEW S \in SUBSET (Bottom .. Unknown), S # {}
  PROVE  Min(S) \in S /\ \A t \in S : Min(S) <= t
<1> DEFINE B == {t + 1 : t \in S}
<1>0. Bottom = -1 /\ Unknown \in Nat /\ \A t \in S : t \in Int /\ t >= -1
  BY FixpointAssumption DEF Unknown, Bottom
<1>1. B \in SUBSET Nat /\ B # {}
  <2>1. \A t \in S : t + 1 \in Nat
    BY <1>0
  <2> QED BY <2>1
<1>2. PICK b \in B : \A c \in B : b <= c
  <2> HIDE DEF B
  <2> QED BY <1>1, LeastNumber
<1>3. PICK t \in S : b = t + 1
  BY <1>2
<1>4. \A u \in S : u + 1 \in B
  OBVIOUS
<1>5. \A u \in S : t <= u
  <2> SUFFICES ASSUME NEW u \in S PROVE t <= u
    OBVIOUS
  <2>1. t + 1 <= u + 1
    BY <1>2, <1>3, <1>4
  <2> QED BY <1>0, <2>1
<1> QED BY <1>5 DEF Min

LEMMA VectorForms ==
  ASSUME StoreTypes, NEW v \in [scope -> Bottom .. Unknown]
  PROVE  /\ Types \cup {Bottom} = Bottom .. Unknown
         /\ [g \in Node |-> IF g \in scope THEN v[g] ELSE returns[g]]
               \in [Node -> Types \cup {Bottom}]
<1>1. Types \cup {Bottom} = Bottom .. Unknown
  BY FixpointAssumption DEF Types, Unknown, Bottom
<1>2. returns \in [Node -> Types]
  BY DEF StoreTypes
<1> QED BY <1>1, <1>2

\* The functions whose least return is bottom are those of hollow sets.
LEMMA EmptyIsHollow ==
  ASSUME StoreTypes, Static
  PROVE  LET known == LeastOf({v \in [scope -> Bottom .. Unknown] : Closed(v)})
         IN  \A f \in scope : known[f] = Bottom <=> \E E \in SUBSET scope : Hollow(E) /\ f \in E
<1> DEFINE K == {v \in [scope -> Bottom .. Unknown] : Closed(v)}
           known == LeastOf(K)
<1>0. /\ Types \cup {Bottom} = Bottom .. Unknown /\ Bottom = -1 /\ Unknown \in Nat
      /\ Types = 0 .. Unknown
      /\ \A f \in Node : program[f] \in Body /\ StaticBody(program[f])
      /\ scope \subseteq Node /\ returns \in [Node -> Types]
  BY StaticBodies, FixpointAssumption DEF Types, Unknown, Bottom, StoreTypes
<1>1. ASSUME NEW v \in [scope -> Bottom .. Unknown], NEW f \in scope
      PROVE  LET ret == [g \in Node |-> IF g \in scope THEN v[g] ELSE returns[g]]
                 bare == {g \in scope : v[g] = Bottom}
                 result == Result(program[f], ret, bare, captures, attached)
             IN  /\ result \in Bottom .. Unknown
                 /\ IF \A p \in program[f] : PathType(p, ret, bare, captures, attached) = Bottom
                    THEN result = IF ReadsOf(program[f], ret, bare) \cap bare # {}
                                  THEN Bottom ELSE Unknown
                    ELSE result # Bottom
  <2> DEFINE ret == [g \in Node |-> IF g \in scope THEN v[g] ELSE returns[g]]
             bare == {g \in scope : v[g] = Bottom}
             result == Result(program[f], ret, bare, captures, attached)
  <2>1. ret \in [Node -> Types \cup {Bottom}] /\ f \in Node
    BY <1>0, VectorForms
  <2> HIDE DEF ret, bare
  <2>2. /\ result \in Types \cup {Bottom}
        /\ IF \A p \in program[f] : PathType(p, ret, bare, captures, attached) = Bottom
           THEN result = IF ReadsOf(program[f], ret, bare) \cap bare # {}
                         THEN Bottom ELSE Unknown
           ELSE result # Bottom
    BY <1>0, <2>1, ResultBounds
  <2> QED BY <1>0, <2>2 DEF ret, bare
\* Where everything is unknown nothing yields more.
<1>2. ASSUME NEW E \in SUBSET scope, Hollow(E)
      PROVE  [g \in scope |-> IF g \in E THEN Bottom ELSE Unknown] \in K
  <2> DEFINE v == [g \in scope |-> IF g \in E THEN Bottom ELSE Unknown]
             ret == [g \in Node |-> IF g \in scope THEN v[g] ELSE returns[g]]
             bare == {g \in scope : v[g] = Bottom}
  <2>1. v \in [scope -> Bottom .. Unknown]
    BY <1>0
  <2>2. bare = E
    BY <1>0
  <2>3. ASSUME NEW f \in scope
        PROVE  Result(program[f], ret, bare, captures, attached) <= v[f]
    <3> DEFINE result == Result(program[f], ret, bare, captures, attached)
    <3>1. /\ result \in Bottom .. Unknown
          /\ IF \A p \in program[f] : PathType(p, ret, bare, captures, attached) = Bottom
             THEN result = IF ReadsOf(program[f], ret, bare) \cap bare # {}
                           THEN Bottom ELSE Unknown
             ELSE result # Bottom
      BY <1>1, <2>1
    <3>2. CASE f \notin E
      <4>1. v[f] = Unknown
        BY <3>2
      <4> HIDE DEF result, v
      <4>2. result <= v[f]
        BY <1>0, <3>1, <4>1
      <4> QED BY <4>2 DEF result
    <3>3. CASE f \in E
      <4>1. v[f] = Bottom
        BY <3>3
      <4> HIDE DEF v, ret, bare
      <4>2. \A p \in program[f] : /\ p.kind \in {"call", "list"} /\ p.callee \in bare
                                  /\ program[f] # {}
        BY <1>2, <2>2, <3>3 DEF Hollow
      <4>3. \A p \in program[f] : /\ PathType(p, ret, bare, captures, attached) = Bottom
                                  /\ PathReads(p, ret, bare) = {p.callee}
        <5> SUFFICES ASSUME NEW p \in program[f]
                     PROVE  /\ PathType(p, ret, bare, captures, attached) = Bottom
                            /\ PathReads(p, ret, bare) = {p.callee}
          OBVIOUS
        <5>1. /\ p.kind \in {"call", "list"} /\ p.callee \in bare
              /\ f \in Node /\ program[f] \in Body /\ StaticBody(program[f])
          BY <1>0, <4>2
        <5>2. PathReads(p, ret, bare) = {p.callee}
          BY <5>1 DEF PathReads
        <5>3. PathType(p, ret, bare, captures, attached) = Bottom
          BY <5>1 DEF PathType
        <5> QED BY <5>2, <5>3
      <4>4. ReadsOf(program[f], ret, bare) \cap bare # {}
        <5>1. PICK p \in program[f] : TRUE
          BY <1>2, <3>3 DEF Hollow
        <5> QED BY <4>2, <4>3, <5>1 DEF ReadsOf
      <4>5. result = Bottom
        BY <3>1, <4>3, <4>4
      <4> HIDE DEF result
      <4>6. result <= v[f]
        BY <1>0, <4>1, <4>5
      <4> QED BY <4>6 DEF result
    <3> QED BY <3>2, <3>3
  <2>4. Closed(v)
    BY <2>3 DEF Closed
  <2> HIDE DEF v
  <2>5. v \in K
    BY <2>1, <2>4
  <2> QED BY <2>5 DEF v
<1>3. ASSUME NEW f \in scope
      PROVE  /\ known[f] \in {v[f] : v \in K}
             /\ \A v \in K : known[f] <= v[f]
  <2> DEFINE S == {v[f] : v \in K}
  <2>1. S \in SUBSET (Bottom .. Unknown)
    OBVIOUS
  <2>2. S # {}
    <3>1. Hollow({})
      BY DEF Hollow
    <3>2. [g \in scope |-> IF g \in {} THEN Bottom ELSE Unknown] \in K
      BY <1>2, <3>1, {} \in SUBSET scope
    <3> HIDE DEF K
    <3> QED BY <3>2
  <2>3. known[f] = Min(S)
    BY DEF LeastOf
  <2>4. \A v \in K : v[f] \in S
    OBVIOUS
  <2> HIDE DEF S, K, known
  <2>5. known[f] \in S /\ \A t \in S : known[f] <= t
    BY <2>1, <2>2, <2>3, LeastReturn
  <2>6. \A v \in K : known[f] <= v[f]
    BY <2>4, <2>5
  <2> QED BY <2>5, <2>6 DEF S
<1>4. ASSUME NEW f \in scope, NEW E \in SUBSET scope, Hollow(E), f \in E
      PROVE  known[f] = Bottom
  <2> DEFINE v == [g \in scope |-> IF g \in E THEN Bottom ELSE Unknown]
  <2>1. v \in K /\ v[f] = Bottom
    BY <1>2, <1>4
  <2>2. known[f] \in Bottom .. Unknown
    BY <1>3
  <2> HIDE DEF v, K, known
  <2>3. known[f] <= Bottom
    BY <1>3, <2>1
  <2> QED BY <1>0, <2>2, <2>3
<1>5. ASSUME NEW f \in scope, known[f] = Bottom
      PROVE  \E E \in SUBSET scope : Hollow(E) /\ f \in E
  <2>1. PICK v \in K : v[f] = Bottom
    BY <1>3, <1>5
  <2> DEFINE ret == [g \in Node |-> IF g \in scope THEN v[g] ELSE returns[g]]
             bare == {g \in scope : v[g] = Bottom}
  <2>2. v \in [scope -> Bottom .. Unknown] /\ Closed(v)
    OBVIOUS
  <2>3. ret \in [Node -> Types \cup {Bottom}]
        /\ \A g \in Node : ret[g] = Bottom => g \in bare
    <3>1. ret \in [Node -> Types \cup {Bottom}]
      BY <1>0, <2>2, VectorForms
    <3>2. \A g \in Node : ret[g] = Bottom => g \in bare
      BY <1>0
    <3> QED BY <3>1, <3>2
  <2>4. ASSUME NEW g \in bare
        PROVE  /\ program[g] # {}
               /\ \A p \in program[g] : p.kind \in {"call", "list"} /\ p.callee \in bare
    <3> DEFINE result == Result(program[g], ret, bare, captures, attached)
    <3>1. g \in scope /\ v[g] = Bottom /\ g \in Node
      BY <1>0
    <3>2. result <= Bottom
      BY <2>2, <3>1 DEF Closed
    <3>3. /\ result \in Bottom .. Unknown
          /\ IF \A p \in program[g] : PathType(p, ret, bare, captures, attached) = Bottom
             THEN result = IF ReadsOf(program[g], ret, bare) \cap bare # {}
                           THEN Bottom ELSE Unknown
             ELSE result # Bottom
      BY <1>1, <2>2, <3>1
    <3> HIDE DEF result, ret, bare
    <3>4. result = Bottom
      BY <1>0, <3>2, <3>3
    <3>5. /\ \A p \in program[g] : PathType(p, ret, bare, captures, attached) = Bottom
          /\ ReadsOf(program[g], ret, bare) \cap bare # {}
      BY <1>0, <3>3, <3>4
    <3>6. program[g] # {}
      BY <3>5 DEF ReadsOf
    <3>7. ASSUME NEW p \in program[g] PROVE p.kind \in {"call", "list"} /\ p.callee \in bare
      <4> DEFINE callee == IF p.callee \in bare THEN Bottom ELSE ret[p.callee]
                 type == PathType(p, ret, bare, captures, attached)
      <4>1. p.callee \in Node /\ p.kind \in {"own", "call", "list", "attach", "forward"}
        BY <1>0, <3>1, StaticPaths
      <4>2. /\ p.kind \in {"own", "attach"} => type = 0
            /\ p.kind = "forward" => type = IF p.callee \in captures THEN 1 ELSE 0
            /\ p.kind = "call" => type = callee
            /\ p.kind = "list" => type = IF callee \in {Bottom, Unknown} THEN callee
                                         ELSE callee + 1
        BY <1>0, <3>1, StaticTypes
      <4>3. type = Bottom
        BY <3>5
      <4>4. callee \in Types \cup {Bottom}
        BY <2>3, <4>1
      <4> HIDE DEF callee, type
      <4>5. p.kind \in {"call", "list"} /\ callee = Bottom
        BY <1>0, <4>1, <4>2, <4>3, <4>4
      <4> QED BY <2>3, <4>1, <4>5 DEF callee
    <3> QED BY <3>6, <3>7
  <2>5. bare \in SUBSET scope /\ Hollow(bare) /\ f \in bare
    BY <2>1, <2>4 DEF Hollow
  <2> HIDE DEF bare
  <2> QED BY <2>5
<1> QED BY <1>4, <1>5

-----------------------------------------------------------------------------
\* Without a function at bottom the closed returns are those allowed.
LEMMA ClosedIsAllowed ==
  ASSUME StoreTypes, Static
  PROVE  LET known == LeastOf({v \in [scope -> Bottom .. Unknown] : Closed(v)})
             empty == {f \in scope : known[f] = Bottom}
         IN  {v \in [scope -> Types] : (\A f \in empty : v[f] = Unknown) /\ Closed(v)} = Allowed
<1> DEFINE known == LeastOf({v \in [scope -> Bottom .. Unknown] : Closed(v)})
           empty == {f \in scope : known[f] = Bottom}
<1>1. \A f : f \in empty <=> f \in scope /\ \E E \in SUBSET scope : Hollow(E) /\ f \in E
  BY EmptyIsHollow
<1> HIDE DEF known, empty
<1>2. ASSUME NEW v \in [scope -> Types]
      PROVE  /\ Closed(v) <=> \A f \in scope :
                                Result(program[f], Extended(v), {}, captures, attached) <= v[f]
             /\ (\A f \in empty : v[f] = Unknown)
                  <=> \A E \in SUBSET scope : Hollow(E) => \A f \in E : v[f] = Unknown
  <2>1. {g \in scope : v[g] = Bottom} = {}
    BY UnknownIsTop
  <2>2. Closed(v) <=> \A f \in scope :
                        Result(program[f], Extended(v), {}, captures, attached) <= v[f]
    BY <2>1 DEF Closed, Extended
  <2>3. (\A f \in empty : v[f] = Unknown)
                  <=> \A E \in SUBSET scope : Hollow(E) => \A f \in E : v[f] = Unknown
    BY <1>1
  <2> QED BY <2>2, <2>3
<1>3. {v \in [scope -> Types] : (\A f \in empty : v[f] = Unknown) /\ Closed(v)} = Allowed
  BY <1>2 DEF Allowed
<1> QED BY <1>3 DEF empty, known

\* An element of a set of returns that is below every other is its minimum.
LEMMA LeastVector ==
  ASSUME NEW V \in SUBSET [scope -> Types], NEW r \in V,
         \A v \in V : \A f \in scope : r[f] <= v[f]
  PROVE  LeastOf(V) = r
<1>1. ASSUME NEW f \in scope PROVE Min({v[f] : v \in V}) = r[f]
  <2> DEFINE S == {v[f] : v \in V}
  <2>1. Types \subseteq Bottom .. Unknown /\ Types \subseteq Int
    BY FixpointAssumption DEF Types, Unknown, Bottom
  <2>2. S \subseteq Types /\ r[f] \in S /\ \A t \in S : r[f] <= t
    OBVIOUS
  <2> HIDE DEF S
  <2>3. S \in SUBSET (Bottom .. Unknown) /\ S # {}
    BY <2>1, <2>2
  <2>4. Min(S) \in S /\ \A t \in S : Min(S) <= t
    BY <2>3, LeastReturn
  <2>5. Min(S) <= r[f] /\ r[f] <= Min(S) /\ Min(S) \in Int /\ r[f] \in Int
    BY <2>1, <2>2, <2>4
  <2>6. Min(S) = r[f]
    BY <2>5
  <2> QED BY <2>6 DEF S
<1>2. r \in [scope -> Types]
  OBVIOUS
<1> QED BY <1>1, <1>2 DEF LeastOf

(* When the passes have settled without a component that used up its       *)
(* visits, every return is the least that the paths allow.                 *)
THEOREM ReturnsAreLeast == InferenceSpec => [](Settled /\ widened = {} => LeastReturns)
<1> DEFINE Fresh == /\ Settled => NothingStale /\ ModesInherited
                    /\ Settled /\ widened = {} => ResultsSettled
           Returned == Settled /\ widened = {} => LeastReturns
<1>1. LeastReturnsInv /\ Fresh => Returned
  <2> SUFFICES ASSUME LeastReturnsInv, NothingStale, Settled, widened = {},
                      phase = "done", Static
               PROVE  [f \in scope |-> returns[f]] = Meaning
    BY DEF LeastReturns
  <2> DEFINE r == [f \in scope |-> returns[f]]
  <2>1. /\ StoreTypes /\ uncomputed = {} /\ HollowInv
        /\ returns \in [Node -> Types] /\ scope \subseteq Node
    BY DEF LeastReturnsInv, PlanInv, StoreInv, EndInv, StoreTypes
  <2>2. Extended(r) = returns
    BY <2>1 DEF Extended
  <2>3. ASSUME NEW f \in scope
        PROVE  Result(program[f], Extended(r), {}, captures, attached) <= r[f]
    BY <2>2 DEF NothingStale
  <2>4. r \in [scope -> Types]
    BY <2>1
  <2>5. r \in Allowed
    BY <2>1, <2>3, <2>4 DEF Allowed, HollowInv
  <2>6. \A v \in Allowed : \A f \in scope : r[f] <= v[f]
    BY <2>1 DEF LeastReturnsInv, LeastInv
  <2>7. Allowed \in SUBSET [scope -> Types]
    BY DEF Allowed
  <2> HIDE DEF r
  <2>8. LeastOf(Allowed) = r
    BY <2>5, <2>6, <2>7, LeastVector
  <2>9. Meaning = LeastOf(Allowed)
    BY <2>1, ClosedIsAllowed DEF Meaning
  <2> QED BY <2>8, <2>9 DEF r
<1>2. Spec => []LeastReturnsInv
  BY LeastInvariant
<1> HIDE DEF Returned
<1>3. InferenceSpec => []Fresh
  BY ResultsAreSettled
<1>4. InferenceSpec => []Returned
  BY <1>1, <1>2, <1>3, FixpointIsPart, PTL
<1> QED BY <1>4 DEF Returned
===============================================================================
