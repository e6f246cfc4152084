---------------------------- MODULE Project_proofs -----------------------------
(***************************************************************************)
(* Theorems about Project, for any paths, names, contents, workspaces and  *)
(* number of edits: the incremental project shows what a check from        *)
(* nothing shows, and keeps what it computes.  A set of files, a table or  *)
(* a closure is reasoned about by what it is the least or the last of, so  *)
(* no proof needs an induction.                                            *)
(***************************************************************************)
EXTENDS Project, FiniteSetTheorems, SequenceTheorems, TLAPS

(***************************************************************************)
(* Closures and what the fixpoint settles on.                              *)
(***************************************************************************)

\* A closure contains its seed, is closed, and is below every closed set that
\* contains the seed.
LEMMA ClosureIsLeast ==
  ASSUME NEW seed, NEW edges
  PROVE  /\ Closure(seed, edges) \in SUBSET Names
         /\ seed \cap Names \subseteq Closure(seed, edges)
         /\ \A m \in Closure(seed, edges) : edges[m] \cap Names \subseteq Closure(seed, edges)
         /\ \A s \in SUBSET Names :
               (seed \subseteq s /\ \A m \in s : edges[m] \subseteq s)
               => Closure(seed, edges) \subseteq s
  BY DEF Closure

Table(table) == DOMAIN table \in SUBSET Names /\ \A f \in DOMAIN table : table[f] \in Body

\* What a body reads and forwards to are names.
LEMMA ReadsAreNames == ASSUME NEW b \in Body PROVE Reads(b) \subseteq Names /\ b.forwards \subseteq Names
  BY DEF Body, Reads

\* The functions that a function reads, at any depth, among those of inner
ReadEdges(table, inner) ==
    [m \in Names |-> IF m \in inner THEN Reads(table[m]) \cap inner ELSE {}]
Reach(table, inner, f) == Closure({f}, ReadEdges(table, inner))

\* What a function reads at any depth is the least set with it that reads do
\* not lead out of.
LEMMA ReachIsClosed ==
  ASSUME NEW table, NEW inner \in SUBSET Names, NEW f \in inner
  PROVE  /\ Reach(table, inner, f) \subseteq inner
         /\ f \in Reach(table, inner, f)
         /\ \A g \in Reach(table, inner, f) :
               /\ Reads(table[g]) \cap inner \subseteq Reach(table, inner, f)
               /\ Reach(table, inner, g) \subseteq Reach(table, inner, f)
         /\ \A s \in SUBSET inner :
               (f \in s /\ \A m \in s : Reads(table[m]) \cap inner \subseteq s)
               => Reach(table, inner, f) \subseteq s
<1> DEFINE edges == ReadEdges(table, inner)
           R == Closure({f}, edges)
<1>1. \A m \in Names : edges[m] = IF m \in inner THEN Reads(table[m]) \cap inner ELSE {}
  BY DEF ReadEdges
<1> HIDE DEF edges
<1>2. /\ R \in SUBSET Names /\ {f} \cap Names \subseteq R
      /\ \A m \in R : edges[m] \cap Names \subseteq R
      /\ \A s \in SUBSET Names :
            ({f} \subseteq s /\ \A m \in s : edges[m] \subseteq s) => R \subseteq s
  BY ClosureIsLeast
<1>3. R \subseteq inner
  <2>1. \A m \in inner : edges[m] \subseteq inner
    BY <1>1
  <2> QED BY <1>2, <2>1
<1>4. \A g \in R : Reads(table[g]) \cap inner \subseteq R
  BY <1>1, <1>2, <1>3
<1>5. ASSUME NEW g \in R PROVE Closure({g}, edges) \subseteq R
  <2>1. \A m \in R : edges[m] \subseteq R
    BY <1>1, <1>2, <1>3
  <2>2. \A s \in SUBSET Names :
            ({g} \subseteq s /\ \A m \in s : edges[m] \subseteq s) => Closure({g}, edges) \subseteq s
    BY ClosureIsLeast
  <2>3. R \in SUBSET Names /\ {g} \subseteq R
    BY <1>2
  <2> HIDE DEF R
  <2> QED BY <2>1, <2>2, <2>3
<1>6. ASSUME NEW s \in SUBSET inner, f \in s,
             \A m \in s : Reads(table[m]) \cap inner \subseteq s
      PROVE  R \subseteq s
  <2>1. \A m \in s : edges[m] \subseteq s
    BY <1>1, <1>6
  <2> QED BY <1>2, <1>6, <2>1
<1>7. f \in R
  BY <1>2
<1> QED BY <1>3, <1>4, <1>5, <1>6, <1>7 DEF Reach, edges

\* The types that refining a function finds for itself
Found(table, scope, seeds, attached, stub, f) ==
    LET bound == DOMAIN table
    IN OwnTypes(table[f], attached, stub)
       \cup {seeds[g] : g \in (Reads(table[f]) \cap bound) \ scope}
       \cup IF Reads(table[f]) \subseteq bound THEN {} ELSE {"unknown"}

\* Everything that f reads finds nothing but t, and something
Agrees(table, scope, seeds, attached, stub, f, t) ==
    LET inner == scope \cap DOMAIN table
        found(g) == Found(table, scope, seeds, attached, stub, g)
    IN \A g \in Reach(table, inner, f) :
          /\ found(g) \subseteq {t}
          /\ \E h \in Reach(table, inner, g) : found(h) # {}

\* Types join to the one they all are, and to unknown otherwise.
LEMMA JoinIs ==
  /\ \A s : JoinOf(s) \in Types
  /\ \A s, t : t \in {"int", "chr"} => (JoinOf(s) = t <=> s = {t})
  BY DEF JoinOf, Types

\* What a return is, without the joins
LEMMA ReturnIs ==
  ASSUME NEW table, Table(table), NEW scope, NEW seeds, NEW attached, NEW stub
  PROVE  LET ret == Returns(table, scope, seeds, attached, stub)
         IN  /\ ret = [f \in DOMAIN table |-> ret[f]]
             /\ \A f \in DOMAIN table \ scope : ret[f] = seeds[f]
             /\ \A f \in DOMAIN table \cap scope :
                   /\ ret[f] \in Types
                   /\ \A t \in {"int", "chr"} :
                         ret[f] = t <=> Agrees(table, scope, seeds, attached, stub, f, t)
<1> DEFINE bound == DOMAIN table
           inner == scope \cap bound
           reached == [f \in Names |-> Closure({f}, [m \in Names |->
                        IF m \in inner THEN Reads(table[m]) \cap inner ELSE {}])]
           found(f) == Found(table, scope, seeds, attached, stub, f)
           known == [f \in inner |-> UNION {found(g) : g \in reached[f]}]
           Sure(g) == IF known[g] = {} THEN {"unknown"} ELSE known[g]
           SureOf(f) == UNION {Sure(g) : g \in reached[f]}
           ret == Returns(table, scope, seeds, attached, stub)
<1>1. ret = [f \in bound |-> IF f \notin scope THEN seeds[f] ELSE JoinOf(SureOf(f))]
  BY DEF Returns, Found
<1>2. bound \subseteq Names /\ inner \in SUBSET Names /\ inner \subseteq bound
  BY DEF Table
<1>3. \A f \in inner : reached[f] = Reach(table, inner, f)
  BY <1>2 DEF Reach, ReadEdges
<1>4. \A f \in inner : known[f] = UNION {found(g) : g \in reached[f]}
  OBVIOUS
<1> HIDE DEF bound, reached, found, known, ret
<1>5. ASSUME NEW f \in inner, NEW t \in {"int", "chr"}
      PROVE  SureOf(f) = {t} <=> \A g \in reached[f] : /\ found(g) \subseteq {t}
                                                       /\ \E h \in reached[g] : found(h) # {}
  <2>1. /\ reached[f] \subseteq inner /\ f \in reached[f]
        /\ \A g \in reached[f] : reached[g] \subseteq reached[f] /\ g \in reached[g]
    BY <1>2, <1>3, ReachIsClosed
  <2>2. \A g \in reached[f] : \A x : x \in known[g] <=> \E h \in reached[g] : x \in found(h)
    BY <1>4, <2>1
  <2>3. ASSUME SureOf(f) = {t}, NEW g \in reached[f]
        PROVE  found(g) \subseteq {t} /\ \E h \in reached[g] : found(h) # {}
    <3>1. Sure(g) \subseteq {t}
      BY <2>3
    <3>2. known[g] # {}
      BY <3>1
    <3>3. known[g] \subseteq {t}
      BY <3>1, <3>2
    <3> QED BY <2>1, <2>2, <3>2, <3>3
  <2>4. ASSUME \A g \in reached[f] : /\ found(g) \subseteq {t}
                                     /\ \E h \in reached[g] : found(h) # {}
        PROVE  SureOf(f) = {t}
    <3>1. ASSUME NEW g \in reached[f] PROVE Sure(g) = {t}
      <4>1. known[g] \subseteq {t}
        BY <2>1, <2>2, <2>4
      <4>2. known[g] # {}
        BY <2>1, <2>2, <2>4
      <4> QED BY <4>1, <4>2
    <3> HIDE DEF Sure
    <3> QED BY <2>1, <3>1
  <2> QED BY <2>3, <2>4
<1>6. ASSUME NEW f \in inner
      PROVE  /\ ret[f] \in Types
             /\ \A t \in {"int", "chr"} :
                   ret[f] = t <=> Agrees(table, scope, seeds, attached, stub, f, t)
  <2>1. ret[f] = JoinOf(SureOf(f)) /\ ret[f] \in Types
    BY <1>1, <1>2, JoinIs
  <2>2. ASSUME NEW t \in {"int", "chr"}
        PROVE  ret[f] = t <=> Agrees(table, scope, seeds, attached, stub, f, t)
    <3>1. ret[f] = t <=> SureOf(f) = {t}
      BY <2>1, JoinIs
    <3>2. reached[f] = Reach(table, inner, f)
          /\ \A g \in reached[f] : reached[g] = Reach(table, inner, g)
      <4>1. reached[f] \subseteq inner
        BY <1>2, <1>3, ReachIsClosed
      <4> QED BY <1>3, <4>1
    <3>3. ret[f] = t <=> \A g \in Reach(table, inner, f) :
                            /\ found(g) \subseteq {t}
                            /\ \E h \in Reach(table, inner, g) : found(h) # {}
      <4> HIDE DEF SureOf, inner
      <4> QED BY <1>5, <3>1, <3>2
    <3>4. Agrees(table, scope, seeds, attached, stub, f, t)
             <=> \A g \in Reach(table, inner, f) :
                    /\ found(g) \subseteq {t}
                    /\ \E h \in Reach(table, inner, g) : found(h) # {}
      BY DEF Agrees, found, bound
    <3> QED BY <3>3, <3>4
  <2> QED BY <2>1, <2>2
<1>7. \A f \in bound \ scope : ret[f] = seeds[f]
  BY <1>1
<1>8. ret = [f \in bound |-> ret[f]]
  BY <1>1
<1> QED BY <1>6, <1>7, <1>8 DEF ret, bound

\* The functions outside the scope are those of the last check, and read
\* nothing of it.
Untouched(table, old, scope) ==
    /\ DOMAIN old = DOMAIN table
    /\ \A f \in DOMAIN table \ scope :
          /\ table[f] = old[f]
          /\ Reads(table[f]) \cap DOMAIN table \cap scope = {}
          /\ table[f].forwards \cap DOMAIN table \cap scope = {}

\* Refining a scope from the last returns yields what refining everything
\* from bottom does.
LEMMA ReturnsOfScope ==
  ASSUME NEW table, Table(table), NEW old, Table(old), NEW scope \in SUBSET Names,
         Untouched(table, old, scope), NEW attached, NEW stub, NEW attached0, NEW stub0,
         DOMAIN table \subseteq scope \/ (attached = attached0 /\ stub = stub0)
  PROVE  Returns(table, scope, Returns(old, Names, <<>>, attached0, stub0), attached, stub)
         = Returns(table, Names, <<>>, attached, stub)
<1> DEFINE bound == DOMAIN table
           inner == scope \cap bound
           seeds == Returns(old, Names, <<>>, attached0, stub0)
           warm == Returns(table, scope, seeds, attached, stub)
           cold == Returns(table, Names, <<>>, attached, stub)
           F(f) == Found(table, Names, <<>>, attached, stub, f)
           F0(f) == Found(old, Names, <<>>, attached0, stub0, f)
           G(f) == Found(table, scope, seeds, attached, stub, f)
           R(f) == Reach(table, bound, f)
           R0(f) == Reach(old, bound, f)
           W(f) == Reach(table, inner, f)
           P(f, t) == \A g \in R(f) : F(g) \subseteq {t} /\ \E h \in R(g) : F(h) # {}
           P0(f, t) == \A g \in R0(f) : F0(g) \subseteq {t} /\ \E h \in R0(g) : F0(h) # {}
           Q(f, t) == \A g \in W(f) : G(g) \subseteq {t} /\ \E h \in W(g) : G(h) # {}
           Exits(f) == (Reads(table[f]) \cap bound) \ scope
<1>1. bound \in SUBSET Names /\ inner \in SUBSET Names /\ DOMAIN old = bound
      /\ \A f \in bound : Reads(table[f]) \subseteq Names /\ Reads(old[f]) \subseteq Names
  BY ReadsAreNames DEF Table, Untouched
<1>2. /\ cold = [f \in bound |-> cold[f]] /\ warm = [f \in bound |-> warm[f]]
      /\ \A f \in bound : /\ cold[f] \in Types
                          /\ \A t \in {"int", "chr"} : cold[f] = t <=> P(f, t)
      /\ \A f \in bound : /\ seeds[f] \in Types
                          /\ \A t \in {"int", "chr"} : seeds[f] = t <=> P0(f, t)
      /\ \A f \in bound \ scope : warm[f] = seeds[f]
      /\ \A f \in inner : /\ warm[f] \in Types
                          /\ \A t \in {"int", "chr"} : warm[f] = t <=> Q(f, t)
  <2>1. Names \cap bound = bound /\ Names \cap DOMAIN old = bound
    BY <1>1
  <2>2. /\ cold = [f \in bound |-> cold[f]]
        /\ \A f \in bound : /\ cold[f] \in Types
                            /\ \A t \in {"int", "chr"} : cold[f] = t <=> P(f, t)
    <3>1. /\ cold = [f \in bound |-> cold[f]]
          /\ \A f \in bound \cap Names : /\ cold[f] \in Types
                /\ \A t \in {"int", "chr"} :
                      cold[f] = t <=> Agrees(table, Names, <<>>, attached, stub, f, t)
      BY ReturnIs
    <3>2. \A f, t : Agrees(table, Names, <<>>, attached, stub, f, t) <=> P(f, t)
      BY <2>1 DEF Agrees
    <3> HIDE DEF bound, cold, P
    <3> QED BY <2>1, <3>1, <3>2
  <2>3. \A f \in bound : /\ seeds[f] \in Types
                         /\ \A t \in {"int", "chr"} : seeds[f] = t <=> P0(f, t)
    <3>1. \A f \in DOMAIN old \cap Names : /\ seeds[f] \in Types
                /\ \A t \in {"int", "chr"} :
                      seeds[f] = t <=> Agrees(old, Names, <<>>, attached0, stub0, f, t)
      BY ReturnIs
    <3>2. \A f, t : Agrees(old, Names, <<>>, attached0, stub0, f, t) <=> P0(f, t)
      BY <2>1 DEF Agrees
    <3> HIDE DEF bound, seeds, P0
    <3> QED BY <1>1, <2>1, <3>1, <3>2
  <2>4. /\ warm = [f \in bound |-> warm[f]]
        /\ \A f \in bound \ scope : warm[f] = seeds[f]
        /\ \A f \in inner : /\ warm[f] \in Types
                            /\ \A t \in {"int", "chr"} : warm[f] = t <=> Q(f, t)
    <3>1. /\ warm = [f \in bound |-> warm[f]]
          /\ \A f \in bound \ scope : warm[f] = seeds[f]
          /\ \A f \in bound \cap scope : /\ warm[f] \in Types
                /\ \A t \in {"int", "chr"} :
                      warm[f] = t <=> Agrees(table, scope, seeds, attached, stub, f, t)
      <4> HIDE DEF seeds
      <4> QED BY ReturnIs
    <3>2. \A f, t : Agrees(table, scope, seeds, attached, stub, f, t) <=> Q(f, t)
      BY DEF Agrees
    <3> HIDE DEF bound, warm, Q, seeds
    <3> QED BY <3>1, <3>2
  <2> QED BY <2>2, <2>3, <2>4
\* Outside the scope nothing has changed.
<1>3. ASSUME NEW f \in bound \ scope
      PROVE  /\ R(f) = R0(f) /\ R(f) \subseteq bound \ scope
             /\ \A g \in R(f) : F(g) = F0(g)
  <2>0. attached = attached0 /\ stub = stub0
    OBVIOUS
  <2>1. /\ R(f) \subseteq bound /\ f \in R(f)
        /\ \A g \in R(f) : Reads(table[g]) \cap bound \subseteq R(f)
        /\ \A s \in SUBSET bound :
              (f \in s /\ \A m \in s : Reads(table[m]) \cap bound \subseteq s) => R(f) \subseteq s
    <3> HIDE DEF bound
    <3> QED BY <1>1, ReachIsClosed
  <2>2. /\ R0(f) \subseteq bound /\ f \in R0(f)
        /\ \A g \in R0(f) : Reads(old[g]) \cap bound \subseteq R0(f)
        /\ \A s \in SUBSET bound :
              (f \in s /\ \A m \in s : Reads(old[m]) \cap bound \subseteq s) => R0(f) \subseteq s
    <3> HIDE DEF bound
    <3> QED BY <1>1, ReachIsClosed
  <2>3. \A g \in bound \ scope : /\ table[g] = old[g]
                                 /\ Reads(table[g]) \cap bound \cap scope = {}
    BY DEF Untouched
  <2> HIDE DEF bound, R, R0
  <2>4. R(f) \subseteq bound \ scope
    <3>1. \A m \in bound \ scope : Reads(table[m]) \cap bound \subseteq bound \ scope
      BY <2>3
    <3> QED BY <2>1, <3>1, bound \ scope \in SUBSET bound
  <2>5. R0(f) \subseteq R(f)
    <3>1. \A m \in R(f) : Reads(old[m]) \cap bound \subseteq R(f)
      BY <2>1, <2>3, <2>4
    <3> QED BY <2>1, <2>2, <3>1, R(f) \in SUBSET bound
  <2>6. R(f) \subseteq R0(f)
    <3>1. \A m \in R0(f) : Reads(table[m]) \cap bound \subseteq R0(f)
      BY <2>2, <2>3, <2>4, <2>5
    <3> QED BY <2>1, <2>2, <3>1, R0(f) \in SUBSET bound
  <2>7. ASSUME NEW g \in R(f) PROVE F(g) = F0(g)
    <3>1. table[g] = old[g] /\ g \in bound
      BY <2>3, <2>4
    <3> QED BY <1>1, <2>0, <3>1 DEF Found, bound
  <2> QED BY <2>4, <2>5, <2>6, <2>7
<1>4. \A f \in bound \ scope, t \in {"int", "chr"} : P0(f, t) <=> P(f, t)
  <2> SUFFICES ASSUME NEW f \in bound \ scope, NEW t \in {"int", "chr"} PROVE P0(f, t) <=> P(f, t)
    OBVIOUS
  <2>1. \A g \in R(f) : R(g) = R0(g) /\ \A h \in R(g) : F(h) = F0(h)
    BY <1>3
  <2>2. R(f) = R0(f) /\ \A g \in R(f) : F(g) = F0(g)
    BY <1>3
  <2> HIDE DEF R, R0, F, F0
  <2> QED BY <2>1, <2>2
<1>5. \A f \in bound \ scope : cold[f] = warm[f] /\ cold[f] = seeds[f]
  <2> HIDE DEF P, P0, cold, warm, seeds, bound
  <2>1. \A f \in bound \ scope : cold[f] = seeds[f]
    BY <1>2, <1>4 DEF Types
  <2> QED BY <1>2, <2>1
\* What is reached is reached in the scope, or from where it is left.
<1>6. ASSUME NEW f \in inner
      PROVE  /\ W(f) \subseteq inner /\ W(f) \subseteq R(f) /\ f \in W(f) /\ R(f) \subseteq bound
             /\ \A g \in W(f) : W(g) \subseteq W(f)
             /\ \A g \in R(f) : R(g) \subseteq R(f) /\ g \in R(g)
             /\ \A g \in W(f) : Exits(g) \subseteq R(f)
             /\ \A g \in R(f) : g \in W(f) \/ \E h \in W(f) : \E e \in Exits(h) : g \in R(e)
  <2>1. /\ R(f) \subseteq bound /\ f \in R(f)
        /\ \A g \in R(f) : Reads(table[g]) \cap bound \subseteq R(f) /\ R(g) \subseteq R(f)
        /\ \A s \in SUBSET bound :
              (f \in s /\ \A m \in s : Reads(table[m]) \cap bound \subseteq s) => R(f) \subseteq s
    <3> HIDE DEF bound
    <3> QED BY <1>1, ReachIsClosed
  <2>2. /\ W(f) \subseteq inner /\ f \in W(f)
        /\ \A g \in W(f) : Reads(table[g]) \cap inner \subseteq W(f) /\ W(g) \subseteq W(f)
        /\ \A s \in SUBSET inner :
              (f \in s /\ \A m \in s : Reads(table[m]) \cap inner \subseteq s) => W(f) \subseteq s
    <3> HIDE DEF inner
    <3> QED BY <1>1, ReachIsClosed
  <2>3. \A g \in bound : /\ R(g) \subseteq bound /\ g \in R(g)
                         /\ \A h \in R(g) : Reads(table[h]) \cap bound \subseteq R(g)
    <3> HIDE DEF bound
    <3> QED BY <1>1, ReachIsClosed
  <2> HIDE DEF R, W
  <2>4. W(f) \subseteq R(f)
    <3> DEFINE s == inner \cap R(f)
    <3>1. \A m \in s : Reads(table[m]) \cap inner \subseteq s
      BY <2>1
    <3>2. s \in SUBSET inner /\ f \in s
      BY <2>1
    <3> HIDE DEF s
    <3>3. W(f) \subseteq s
      BY <2>2, <3>1, <3>2
    <3> QED BY <3>3 DEF s
  <2>5. \A g \in W(f) : Exits(g) \subseteq R(f)
    BY <2>1, <2>4
  <2>6. R(f) \subseteq W(f) \cup {g \in bound : \E h \in W(f) : \E e \in Exits(h) : g \in R(e)}
    <3> DEFINE s == W(f) \cup {g \in bound : \E h \in W(f) : \E e \in Exits(h) : g \in R(e)}
    <3>1. ASSUME NEW m \in s, NEW k \in Reads(table[m]) \cap bound PROVE k \in s
      <4>1. CASE m \in W(f)
        <5>1. CASE k \in scope
          BY <2>2, <4>1, <5>1
        <5>2. CASE k \notin scope
          BY <2>3, <3>1, <4>1, <5>2
        <5> QED BY <5>1, <5>2
      <4>2. CASE m \notin W(f)
        <5>1. PICK h \in W(f) : \E e \in Exits(h) : m \in R(e)
          BY <3>1, <4>2
        <5>2. PICK e \in Exits(h) : m \in R(e)
          BY <5>1
        <5>3. k \in R(e)
          BY <2>3, <3>1, <5>2
        <5> QED BY <3>1, <5>1, <5>2, <5>3
      <4> QED BY <4>1, <4>2
    <3>2. s \in SUBSET bound /\ f \in s
      BY <2>2
    <3> HIDE DEF s
    <3>3. R(f) \subseteq s
      BY <2>1, <3>1, <3>2
    <3> QED BY <3>3 DEF s
  <2> QED BY <2>1, <2>2, <2>3, <2>4, <2>5, <2>6
<1>7. \A f \in bound : G(f) = F(f) \cup {seeds[e] : e \in Exits(f)}
  <2>1. \A f \in bound : (Reads(table[f]) \cap bound) \ Names = {}
    BY <1>1
  <2> HIDE DEF seeds
  <2> QED BY <2>1 DEF Found
<1>8. \A f \in bound : \A e \in Exits(f), t \in {"int", "chr"} : seeds[e] = t <=> P(e, t)
  <2> HIDE DEF P, cold, seeds
  <2> QED BY <1>2, <1>5
<1>9. ASSUME NEW f \in inner, NEW t \in {"int", "chr"}, P(f, t) PROVE Q(f, t)
  <2> HIDE DEF R, W, F, G, seeds
  <2>1. ASSUME NEW e \in R(f), e \in bound PROVE P(e, t)
    BY <1>6, <1>9, <2>1
  <2>2. ASSUME NEW g \in W(f) PROVE G(g) \subseteq {t}
    <3>1. g \in bound /\ F(g) \subseteq {t}
      BY <1>6, <1>9, <2>2
    <3>2. \A e \in Exits(g) : seeds[e] = t
      <4> HIDE DEF P
      <4> QED BY <1>6, <1>8, <2>1, <2>2, <3>1
    <3> QED BY <1>7, <3>1, <3>2
  <2>3. ASSUME NEW g \in W(f) PROVE \E h \in W(g) : G(h) # {}
    <3>1. g \in inner /\ g \in R(f)
      BY <1>6, <2>3
    <3>2. PICK h \in R(g) : F(h) # {}
      BY <1>9, <3>1
    <3>3. CASE h \in W(g)
      <4>1. h \in bound
        BY <1>6, <3>1, <3>3
      <4> QED BY <1>7, <3>2, <3>3, <4>1
    <3>4. CASE h \notin W(g)
      <4>1. PICK k \in W(g) : Exits(k) # {}
        BY <1>6, <3>1, <3>2, <3>4
      <4>2. k \in bound
        BY <1>6, <3>1, <4>1
      <4> HIDE DEF Exits
      <4> QED BY <1>7, <4>1, <4>2
    <3> QED BY <3>3, <3>4
  <2> QED BY <2>2, <2>3
<1>10. ASSUME NEW f \in inner, NEW t \in {"int", "chr"}, Q(f, t) PROVE P(f, t)
  <2> HIDE DEF R, W, F, G, seeds
  \* What is reached where the scope is left agrees.
  <2>1. ASSUME NEW h \in W(f), NEW e \in Exits(h) PROVE P(e, t)
    <3>1. h \in bound /\ seeds[e] \in G(h)
      BY <1>6, <1>7, <2>1
    <3>2. seeds[e] = t
      BY <1>10, <3>1
    <3> HIDE DEF P
    <3> QED BY <1>8, <2>1, <3>1, <3>2
  <2>2. ASSUME NEW g \in R(f), g \notin W(f)
        PROVE  F(g) \subseteq {t} /\ \E h \in R(g) : F(h) # {}
    <3>1. PICK h \in W(f) : \E e \in Exits(h) : g \in R(e)
      BY <1>6, <2>2
    <3>2. PICK e \in Exits(h) : g \in R(e)
      BY <3>1
    <3> QED BY <2>1, <3>2
  <2>3. ASSUME NEW g \in W(f)
        PROVE  F(g) \subseteq {t} /\ \E h \in R(g) : F(h) # {}
    <3>1. g \in inner /\ g \in bound /\ G(g) \subseteq {t}
      BY <1>6, <1>10, <2>3
    <3>2. F(g) \subseteq {t}
      BY <1>7, <3>1
    <3>3. PICK h \in W(g) : G(h) # {}
      BY <1>10, <2>3
    <3>4. h \in W(f) /\ h \in bound /\ h \in R(g)
      BY <1>6, <2>3, <3>1, <3>3
    <3>5. CASE F(h) # {}
      BY <3>2, <3>4, <3>5
    <3>6. CASE F(h) = {}
      <4>1. PICK e \in Exits(h) : TRUE
        BY <1>7, <3>3, <3>4, <3>6
      <4>2. P(e, t)
        BY <2>1, <3>4
      <4>3. e \in R(g) /\ e \in R(e) /\ R(e) \subseteq R(g)
        <5>1. e \in R(g)
          BY <1>6, <3>1, <3>3, <4>1
        <5> QED BY <1>6, <3>1, <5>1
      <4>4. \E k \in R(e) : F(k) # {}
        BY <4>2, <4>3
      <4> QED BY <3>2, <4>3, <4>4
    <3> QED BY <3>2, <3>5, <3>6
  <2> QED BY <2>2, <2>3
<1>11. \A f \in inner : cold[f] = warm[f]
  <2> SUFFICES ASSUME NEW f \in inner PROVE cold[f] = warm[f]
    OBVIOUS
  <2>1. \A t \in {"int", "chr"} : cold[f] = t <=> warm[f] = t
    <3> HIDE DEF P, Q, cold, warm
    <3> QED BY <1>2, <1>9, <1>10
  <2>2. cold[f] \in Types /\ warm[f] \in Types
    <3> HIDE DEF P, Q, cold, warm
    <3> QED BY <1>2
  <2> HIDE DEF cold, warm
  <2> QED BY <2>1, <2>2 DEF Types
<1>12. \A f \in bound : cold[f] = warm[f]
  <2> HIDE DEF cold, warm
  <2> QED BY <1>5, <1>11
<1>13. cold = warm
  <2> HIDE DEF cold, warm
  <2> QED BY <1>2, <1>12
<1> QED BY <1>13

\* Evaluation modes of a scope, seeded by the last check's, are the cold ones.
LEMMA ModesOfScope ==
  ASSUME NEW table, Table(table), NEW old, Table(old), NEW scope \in SUBSET Names,
         Untouched(table, old, scope)
  PROVE  Modes(table, scope, Modes(old, Names, <<>>)) = Modes(table, Names, <<>>)
<1> DEFINE bound == DOMAIN table
           seeds == Modes(old, Names, <<>>)
           E == [m \in Names |-> IF m \in bound THEN table[m].forwards \cap bound ELSE {}]
           E0 == [m \in Names |-> IF m \in bound THEN old[m].forwards \cap bound ELSE {}]
           R(f) == Closure({f}, E)
           R0(f) == Closure({f}, E0)
           warm == Modes(table, scope, seeds)
           cold == Modes(table, Names, <<>>)
           quoting == {g \in bound : IF g \in scope THEN table[g].quotes ELSE seeds[g]}
           quotes == {g \in bound : table[g].quotes}
           quotes0 == {g \in bound : old[g].quotes}
<1>1. bound \in SUBSET Names /\ DOMAIN old = bound
  BY DEF Table, Untouched
<1>2. /\ warm = [f \in bound |-> R(f) \cap quoting # {}]
      /\ cold = [f \in bound |-> R(f) \cap quotes # {}]
      /\ seeds = [f \in bound |-> R0(f) \cap quotes0 # {}]
  <2>1. warm = [f \in bound |-> R(f) \cap quoting # {}]
    BY DEF Modes
  <2>2. quotes = {f \in bound : IF f \in Names THEN table[f].quotes ELSE <<>>[f]}
    BY <1>1
  <2>3. cold = [f \in bound |-> R(f) \cap quotes # {}]
    BY <2>2 DEF Modes
  <2>4. quotes0 = {f \in bound : IF f \in Names THEN old[f].quotes ELSE <<>>[f]}
    BY <1>1
  <2>5. seeds = [f \in bound |-> R0(f) \cap quotes0 # {}]
    BY <1>1, <2>4 DEF Modes
  <2> QED BY <2>1, <2>3, <2>5
<1>3. ASSUME NEW f \in bound
      PROVE  /\ f \in R(f)
             /\ \A g \in R(f) : g \in Names /\ E[g] \cap Names \subseteq R(f)
             /\ \A s \in SUBSET Names :
                   (f \in s /\ \A m \in s : E[m] \subseteq s) => R(f) \subseteq s
             /\ f \in R0(f)
             /\ \A g \in R0(f) : g \in Names /\ E0[g] \cap Names \subseteq R0(f)
             /\ \A s \in SUBSET Names :
                   (f \in s /\ \A m \in s : E0[m] \subseteq s) => R0(f) \subseteq s
  <2> HIDE DEF E, E0
  <2>1. f \in Names
    BY <1>1
  <2>2. /\ R(f) \in SUBSET Names /\ {f} \cap Names \subseteq R(f)
        /\ \A m \in R(f) : E[m] \cap Names \subseteq R(f)
        /\ \A s \in SUBSET Names : ({f} \subseteq s /\ \A m \in s : E[m] \subseteq s) => R(f) \subseteq s
    BY ClosureIsLeast
  <2>3. /\ R0(f) \in SUBSET Names /\ {f} \cap Names \subseteq R0(f)
        /\ \A m \in R0(f) : E0[m] \cap Names \subseteq R0(f)
        /\ \A s \in SUBSET Names : ({f} \subseteq s /\ \A m \in s : E0[m] \subseteq s) => R0(f) \subseteq s
    BY ClosureIsLeast
  <2> HIDE DEF R, R0
  <2> QED BY <2>1, <2>2, <2>3
<1>4. /\ \A m \in Names : /\ E[m] = IF m \in bound THEN table[m].forwards \cap bound ELSE {}
                          /\ E0[m] = IF m \in bound THEN old[m].forwards \cap bound ELSE {}
      /\ \A m \in bound \ scope : /\ table[m] = old[m] /\ m \in Names
                                  /\ E[m] = E0[m] /\ E[m] \subseteq bound \ scope
  <2>1. \A m \in bound \ scope : table[m] = old[m] /\ table[m].forwards \cap bound \cap scope = {}
    BY DEF Untouched
  <2> QED BY <1>1, <2>1
<1> HIDE DEF E, E0, R, R0, bound, warm, cold, seeds
<1>5. \A f \in bound : R(f) \subseteq bound /\ \A g \in R(f) : R(g) \subseteq R(f)
  <2>1. \A m \in bound : E[m] \subseteq bound
    BY <1>1, <1>4
  <2>2. \A f \in bound : R(f) \subseteq bound
    BY <1>1, <1>3, <2>1
  <2>3. ASSUME NEW f \in bound, NEW g \in R(f) PROVE R(g) \subseteq R(f)
    <3>1. g \in bound /\ R(f) \in SUBSET Names /\ \A m \in R(f) : E[m] \subseteq R(f)
      <4>1. \A m \in R(f) : m \in bound /\ E[m] \subseteq Names
        BY <1>1, <2>1, <2>2
      <4> QED BY <1>1, <1>3, <2>2, <4>1
    <3> QED BY <1>3, <3>1
  <2> QED BY <2>2, <2>3
\* Outside the scope nothing has changed.
<1>6. ASSUME NEW f \in bound \ scope
      PROVE  R(f) = R0(f) /\ R(f) \subseteq bound \ scope
  <2>1. bound \ scope \in SUBSET Names
    BY <1>1
  <2>2. R(f) \subseteq bound \ scope /\ R0(f) \subseteq bound \ scope
    BY <1>3, <1>4, <2>1
  <2>3. R(f) \subseteq R0(f)
    <3>1. R0(f) \in SUBSET Names /\ \A m \in R0(f) : E[m] \subseteq R0(f)
      <4>1. ASSUME NEW m \in R0(f) PROVE E[m] \subseteq R0(f)
        <5>1. E[m] = E0[m] /\ E0[m] \cap Names \subseteq R0(f) /\ E[m] \subseteq Names
          BY <1>1, <1>3, <1>4, <2>2
        <5> QED BY <5>1
      <4> QED BY <1>3, <4>1
    <3> QED BY <1>3, <3>1
  <2>4. R0(f) \subseteq R(f)
    <3>1. R(f) \in SUBSET Names /\ \A m \in R(f) : E0[m] \subseteq R(f)
      <4>1. ASSUME NEW m \in R(f) PROVE E0[m] \subseteq R(f)
        <5>1. E[m] = E0[m] /\ E[m] \cap Names \subseteq R(f) /\ E[m] \subseteq Names
          BY <1>1, <1>3, <1>4, <2>2
        <5> QED BY <5>1
      <4> QED BY <1>3, <4>1
    <3> QED BY <1>3, <3>1
  <2> QED BY <2>2, <2>3, <2>4
<1>7. ASSUME NEW f \in bound
      PROVE  R(f) \cap quoting # {} <=> R(f) \cap quotes # {}
  <2>1. ASSUME NEW g \in R(f), g \in quoting PROVE \E h \in R(f) : h \in quotes
    <3>1. CASE g \in scope
      BY <2>1, <3>1
    <3>2. CASE g \notin scope
      <4>1. g \in bound \ scope /\ seeds[g]
        BY <2>1, <3>2
      <4>2. PICK h \in R0(g) : h \in quotes0
        BY <1>2, <4>1
      <4>3. h \in bound \ scope /\ h \in R(f)
        BY <1>5, <1>6, <2>1, <4>1, <4>2
      <4>4. h \in quotes
        BY <1>4, <4>2, <4>3
      <4> QED BY <4>3, <4>4
    <3> QED BY <3>1, <3>2
  <2>2. ASSUME NEW g \in R(f), g \in quotes PROVE g \in quoting
    <3>1. CASE g \in scope
      BY <2>2, <3>1
    <3>2. CASE g \notin scope
      <4>1. g \in bound \ scope /\ g \in quotes0 /\ g \in R0(g)
        BY <1>3, <1>4, <2>2, <3>2
      <4>2. seeds[g] = (R0(g) \cap quotes0 # {})
        BY <1>2, <4>1
      <4>3. seeds[g]
        BY <4>1, <4>2
      <4> QED BY <3>2, <4>1, <4>3
    <3> QED BY <3>1, <3>2
  <2> QED BY <2>1, <2>2
<1>8. \A f \in bound : (R(f) \cap quoting # {}) = (R(f) \cap quotes # {})
  BY <1>7
<1>9. warm = cold
  BY <1>2, <1>8
<1> QED BY <1>9 DEF warm, cold, seeds

\* A mode is true or false.
LEMMA ModeTypes ==
  ASSUME NEW table, NEW scope, NEW seeds
  PROVE  LET modes == Modes(table, scope, seeds)
         IN  modes = [f \in DOMAIN table |-> modes[f]] /\ \A f \in DOMAIN table : modes[f] \in BOOLEAN
  BY DEF Modes

-----------------------------------------------------------------------------
(* The merged table.                                                       *)

\* A set of positions has a last one and a first one.
LEMMA LastPosition ==
  ASSUME NEW n \in Nat, NEW S \in SUBSET (1 .. n), S # {}
  PROVE  Max(S) \in S /\ \A i \in S : i <= Max(S)
<1> DEFINE Above(i) == {k \in S : i <= k}
           T == {Above(i) : i \in S}
<1>1. IsFiniteSet(S)
  <2>1. IsFiniteSet(1 .. n)
    BY FS_Interval
  <2> QED BY <2>1, FS_Subset
<1>2. T \subseteq FiniteSubsetsOf(S) /\ T # {}
  <2>1. \A i \in S : Above(i) \in SUBSET S
    OBVIOUS
  <2>2. \A i \in S : IsFiniteSet(Above(i))
    BY <1>1, <2>1, FS_Subset
  <2> HIDE DEF Above
  <2> QED BY <2>1, <2>2 DEF FiniteSubsetsOf
<1>3. PICK x \in T : \A y \in T : <<y, x>> \notin StrictSubsetOrdering(S)
  <2> HIDE DEF T
  <2> QED BY <1>2, FS_StrictSubsetOrderingWellFounded, WFMin
<1>4. PICK m \in S : x = Above(m)
  BY <1>3
<1>5. ASSUME NEW i \in S PROVE i <= m
  <2>1. SUFFICES ASSUME m < i PROVE FALSE
    OBVIOUS
  <2>2. Above(i) \in T /\ Above(i) \subseteq Above(m) /\ Above(i) # Above(m)
    <3>1. i \in Int /\ m \in Int
      OBVIOUS
    <3>2. Above(i) \subseteq Above(m)
      <4>1. SUFFICES ASSUME NEW k \in S, i <= k PROVE m <= k
        OBVIOUS
      <4>2. k \in Int
        OBVIOUS
      <4> QED BY <2>1, <3>1, <4>1, <4>2
    <3>3. m \in Above(m) /\ m \notin Above(i)
      BY <2>1, <3>1
    <3> QED BY <3>2, <3>3
  <2>3. Above(i) \in SUBSET S /\ Above(m) \in SUBSET S
    OBVIOUS
  <2> HIDE DEF Above, T
  <2> QED BY <1>3, <1>4, <2>2, <2>3 DEF StrictSubsetOrdering
<1>6. \A i \in S : m >= i
  BY <1>5
<1> QED BY <1>6 DEF Max

\* The first position of a set is one of it.
LEMMA FirstPosition ==
  ASSUME NEW n \in Nat, NEW S \in SUBSET (1 .. n), S # {}
  PROVE  Min(S) \in S
<1> DEFINE T == {(n + 1) - i : i \in S}
<1>1. T \in SUBSET (1 .. n) /\ T # {}
  <2>1. \A i \in S : (n + 1) - i \in 1 .. n
    <3> SUFFICES ASSUME NEW i \in S PROVE (n + 1) - i \in 1 .. n
      OBVIOUS
    <3>1. i \in 1 .. n
      OBVIOUS
    <3> QED BY <3>1
  <2> QED BY <2>1
<1> HIDE DEF T
<1>2. Max(T) \in T /\ \A k \in T : k <= Max(T)
  BY <1>1, LastPosition
<1>3. PICK m \in S : Max(T) = (n + 1) - m
  BY <1>2 DEF T
<1>4. \A i \in S : (n + 1) - i <= (n + 1) - m
  BY <1>2, <1>3 DEF T
<1>5. \A i \in S : m <= i
  BY <1>4
<1> QED BY <1>5 DEF Min

FileType == UNION {{File(p, c) : c \in Contents[p]} : p \in Paths}
Listing(s) == /\ s \in Seq(FileType)
              /\ \A i, j \in DOMAIN s : s[i].path = s[j].path => i = j

\* A workspace is a list of files with its settings.
LEMMA WorkspaceForms ==
  ASSUME NEW w
  PROVE  IsWorkspace(w) <=> /\ w \in [files : Seq(FileType), declared : BOOLEAN, stubs : Stubs]
                            /\ Listing(w.files)
  BY DEF IsWorkspace, Listing, FileType

\* A file has a path and a content of it.
LEMMA FileForms ==
  ASSUME NEW x \in FileType
  PROVE  x.path \in Paths /\ IsContent(x.content) /\ x = File(x.path, x.content)
  BY ProjectAssumption DEF FileType, File

\* In a list of files a path has one place and one content.
LEMMA ListingForms ==
  ASSUME NEW s, Listing(s)
  PROVE  /\ Len(s) \in Nat /\ DOMAIN s = 1 .. Len(s)
         /\ \A i \in DOMAIN s : /\ s[i] \in FileType /\ s[i].path \in Paths
                                /\ IsContent(s[i].content)
                                /\ s[i].path \in PathsOf(s)
                                /\ ContentAt(s)[s[i].path] = s[i].content
         /\ PathsOf(s) \subseteq Paths
         /\ DOMAIN ContentAt(s) = PathsOf(s)
         /\ \A p \in PathsOf(s) : /\ \E i \in DOMAIN s : s[i].path = p /\ s[i].content = ContentAt(s)[p]
                                  /\ IsContent(ContentAt(s)[p])
<1>1. Len(s) \in Nat /\ DOMAIN s = 1 .. Len(s) /\ \A i \in DOMAIN s : s[i] \in FileType
  BY DEF Listing
<1>2. \A i \in DOMAIN s : s[i].path \in Paths /\ IsContent(s[i].content) /\ s[i].path \in PathsOf(s)
  BY <1>1, FileForms DEF PathsOf
<1>3. ASSUME NEW i \in DOMAIN s PROVE ContentAt(s)[s[i].path] = s[i].content
  <2>1. (CHOOSE k \in DOMAIN s : s[k].path = s[i].path) = i
    BY DEF Listing
  <2> QED BY <1>2, <2>1 DEF ContentAt
<1>4. \A p \in PathsOf(s) : \E i \in DOMAIN s : s[i].path = p /\ s[i].content = ContentAt(s)[p]
  BY <1>3 DEF PathsOf
<1>5. DOMAIN ContentAt(s) = PathsOf(s)
  BY DEF ContentAt
<1>6. \A p \in PathsOf(s) : p \in Paths /\ IsContent(ContentAt(s)[p])
  BY <1>2, <1>4
<1> QED BY <1>1, <1>2, <1>3, <1>4, <1>5, <1>6

TableOf(s) == Merged(ContentsOf(s))
Defs(s, i) == Defined(s[i].content)

\* The last file that defines a name is the one that counts.
LEMMA MergedForms ==
  ASSUME NEW s, Listing(s)
  PROVE  /\ Table(TableOf(s))
         /\ TableOf(s) = [n \in DOMAIN TableOf(s) |-> TableOf(s)[n]]
         /\ \A n : n \in DOMAIN TableOf(s) <=> \E i \in DOMAIN s : n \in Defs(s, i)
         /\ \A n \in DOMAIN TableOf(s) :
               \E i \in DOMAIN s : /\ n \in Defs(s, i) /\ TableOf(s)[n] = s[i].content.defs[n]
                                   /\ \A j \in DOMAIN s : n \in Defs(s, j) => j <= i
<1> DEFINE c == ContentsOf(s)
           definers(n) == {i \in DOMAIN s : n \in Defs(s, i)}
<1>1. /\ Len(s) \in Nat /\ DOMAIN s = 1 .. Len(s)
      /\ \A i \in DOMAIN s : IsContent(s[i].content) /\ c[i] = s[i].content
      /\ DOMAIN c = DOMAIN s
  BY ListingForms DEF ContentsOf
<1>2. TableOf(s) = [n \in UNION {Defs(s, i) : i \in DOMAIN s} |->
                       s[Max(definers(n))].content.defs[n]]
  <2>1. UNION {DOMAIN c[i].defs : i \in DOMAIN c} = UNION {Defs(s, i) : i \in DOMAIN s}
    BY <1>1 DEF Defs, Defined
  <2>2. \A n : {i \in DOMAIN c : n \in DOMAIN c[i].defs} = definers(n)
    BY <1>1 DEF Defs, Defined
  <2>3. ASSUME NEW n \in UNION {Defs(s, i) : i \in DOMAIN s}
        PROVE  c[Max(definers(n))].defs[n] = s[Max(definers(n))].content.defs[n]
    <3>1. definers(n) \in SUBSET (1 .. Len(s)) /\ definers(n) # {}
      BY <1>1
    <3>2. Max(definers(n)) \in definers(n)
      BY <1>1, <3>1, LastPosition
    <3> QED BY <1>1, <3>2
  <2> HIDE DEF c, definers
  <2> QED BY <2>1, <2>2, <2>3 DEF TableOf, Merged, c
<1>3. \A n : n \in DOMAIN TableOf(s) <=> \E i \in DOMAIN s : n \in Defs(s, i)
  BY <1>2
<1>4. ASSUME NEW n \in DOMAIN TableOf(s)
      PROVE  /\ n \in Names /\ TableOf(s)[n] \in Body
             /\ \E i \in DOMAIN s : /\ n \in Defs(s, i) /\ TableOf(s)[n] = s[i].content.defs[n]
                                    /\ \A j \in DOMAIN s : n \in Defs(s, j) => j <= i
  <2>1. definers(n) \in SUBSET (1 .. Len(s)) /\ definers(n) # {}
    BY <1>1, <1>3
  <2>2. Max(definers(n)) \in definers(n) /\ \A j \in definers(n) : j <= Max(definers(n))
    BY <1>1, <2>1, LastPosition
  <2>3. PICK i \in definers(n) : /\ TableOf(s)[n] = s[i].content.defs[n]
                                 /\ \A j \in definers(n) : j <= i
    BY <1>2, <2>2
  <2>4. n \in DOMAIN s[i].content.defs /\ IsContent(s[i].content)
    BY <1>1 DEF Defs, Defined
  <2> QED BY <2>3, <2>4 DEF IsContent
<1>5. Table(TableOf(s))
  BY <1>4 DEF Table
<1>6. TableOf(s) = [n \in DOMAIN TableOf(s) |-> TableOf(s)[n]]
  BY <1>2
<1> QED BY <1>3, <1>4, <1>5, <1>6

\* A name whose files stay where they are keeps its definition.
LEMMA DefinersStay ==
  ASSUME NEW s, Listing(s), NEW t, Listing(t), NEW n,
         \A i \in DOMAIN s : n \in Defs(s, i) => i \in DOMAIN t /\ t[i] = s[i],
         \A i \in DOMAIN t : n \in Defs(t, i) => i \in DOMAIN s /\ s[i] = t[i],
         n \in DOMAIN TableOf(t)
  PROVE  n \in DOMAIN TableOf(s) /\ TableOf(s)[n] = TableOf(t)[n]
<1>1. PICK i \in DOMAIN t : /\ n \in Defs(t, i) /\ TableOf(t)[n] = t[i].content.defs[n]
                            /\ \A j \in DOMAIN t : n \in Defs(t, j) => j <= i
  BY MergedForms
<1>2. i \in DOMAIN s /\ s[i] = t[i] /\ n \in Defs(s, i)
  BY <1>1 DEF Defs
<1>3. n \in DOMAIN TableOf(s)
  BY <1>2, MergedForms
<1>4. PICK k \in DOMAIN s : /\ n \in Defs(s, k) /\ TableOf(s)[n] = s[k].content.defs[n]
                            /\ \A j \in DOMAIN s : n \in Defs(s, j) => j <= k
  BY <1>3, MergedForms
<1>5. k \in DOMAIN t /\ t[k] = s[k] /\ n \in Defs(t, k)
  BY <1>4 DEF Defs
<1>6. i <= k /\ k <= i /\ i \in Int /\ k \in Int
  BY <1>1, <1>2, <1>4, <1>5, ListingForms
<1>7. i = k
  BY <1>6
<1> QED BY <1>1, <1>2, <1>3, <1>4, <1>7

\* A name of one file keeps its definition in any order of the files.
LEMMA OnlyDefiner ==
  ASSUME NEW s, Listing(s), NEW t, Listing(t), NEW n,
         \A i \in DOMAIN s : \E j \in DOMAIN t : t[j] = s[i],
         \A j \in DOMAIN t : \E i \in DOMAIN s : t[j] = s[i],
         \A i, j \in DOMAIN s : n \in Defs(s, i) /\ n \in Defs(s, j) => i = j,
         n \in DOMAIN TableOf(t)
  PROVE  n \in DOMAIN TableOf(s) /\ TableOf(s)[n] = TableOf(t)[n]
<1>1. PICK i \in DOMAIN t : n \in Defs(t, i) /\ TableOf(t)[n] = t[i].content.defs[n]
  BY MergedForms
<1>2. PICK k \in DOMAIN s : t[i] = s[k]
  BY <1>1
<1>3. n \in Defs(s, k) /\ n \in DOMAIN TableOf(s)
  BY <1>1, <1>2, MergedForms DEF Defs
<1>4. PICK m \in DOMAIN s : n \in Defs(s, m) /\ TableOf(s)[n] = s[m].content.defs[n]
  BY <1>3, MergedForms
<1> QED BY <1>1, <1>2, <1>3, <1>4

-----------------------------------------------------------------------------
(* Lists of files, as the calls change them.                               *)

\* remove_file leaves every other file as it was.
LEMMA RemovedForms ==
  ASSUME NEW s, Listing(s), NEW i \in DOMAIN s
  PROVE  LET t == RemoveAt(s, i)
         IN  /\ Listing(t)
             /\ PathsOf(t) = PathsOf(s) \ {s[i].path}
             /\ \A p \in PathsOf(t) : ContentAt(t)[p] = ContentAt(s)[p]
<1> DEFINE t == RemoveAt(s, i)
           from(j) == IF j < i THEN j ELSE j + 1
<1>1. s \in Seq(FileType) /\ Len(s) \in Nat /\ DOMAIN s = 1 .. Len(s) /\ i \in 1 .. Len(s)
  BY ListingForms DEF Listing
<1>2. t \in Seq(FileType) /\ Len(t) = Len(s) - 1
      /\ \A j \in 1 .. Len(s) - 1 : t[j] = s[from(j)] /\ from(j) \in DOMAIN s /\ from(j) # i
  <2> DEFINE a == SubSeq(s, 1, i - 1)
             b == SubSeq(s, i + 1, Len(s))
  <2>1. a \in Seq(FileType) /\ Len(a) = i - 1 /\ \A j \in 1 .. i - 1 : a[j] = s[j]
    BY <1>1
  <2>2. b \in Seq(FileType) /\ Len(b) = Len(s) - i /\ \A j \in 1 .. Len(s) - i : b[j] = s[i + j]
    BY <1>1
  <2>3. t = a \o b
    BY DEF RemoveAt
  <2> HIDE DEF a, b, t
  <2>4. t \in Seq(FileType) /\ Len(t) = Len(s) - 1
    <3>1. t \in Seq(FileType) /\ Len(t) = Len(a) + Len(b)
      BY <2>1, <2>2, <2>3, ConcatProperties
    <3> QED BY <1>1, <2>1, <2>2, <3>1
  <2>5. ASSUME NEW j \in 1 .. Len(s) - 1
        PROVE  t[j] = s[from(j)] /\ from(j) \in DOMAIN s /\ from(j) # i
    <3>1. CASE j < i
      <4>1. t[j] = a[j] /\ j \in 1 .. i - 1
        BY <1>1, <2>1, <2>2, <2>3, <3>1
      <4> QED BY <1>1, <2>1, <3>1, <4>1
    <3>2. CASE ~ j < i
      <4>1. t[j] = b[j - (i - 1)] /\ j - (i - 1) \in 1 .. Len(s) - i
        BY <1>1, <2>1, <2>2, <2>3, <3>2
      <4>2. t[j] = s[i + (j - (i - 1))]
        BY <2>2, <4>1
      <4>3. i + (j - (i - 1)) = j + 1 /\ j + 1 \in DOMAIN s /\ j + 1 # i
        BY <1>1, <3>2
      <4> QED BY <3>2, <4>2, <4>3
    <3> QED BY <3>1, <3>2
  <2> QED BY <2>4, <2>5
<1> HIDE DEF t
<1>3. DOMAIN t = 1 .. Len(s) - 1
  BY <1>1, <1>2
<1>4. \A j, k \in DOMAIN t : from(j) = from(k) => j = k
  BY <1>1, <1>3
<1>5. Listing(t)
  <2>1. ASSUME NEW j \in DOMAIN t, NEW k \in DOMAIN t, t[j].path = t[k].path PROVE j = k
    <3>1. /\ t[j] = s[from(j)] /\ from(j) \in DOMAIN s
          /\ t[k] = s[from(k)] /\ from(k) \in DOMAIN s
      BY <1>2, <1>3
    <3> HIDE DEF from
    <3>2. from(j) = from(k)
      BY <2>1, <3>1 DEF Listing
    <3> QED BY <1>4, <3>2
  <2> QED BY <1>2, <2>1 DEF Listing
<1>6. \A k \in DOMAIN s : k # i => \E j \in DOMAIN t : from(j) = k
  <2> SUFFICES ASSUME NEW k \in DOMAIN s, k # i PROVE \E j \in DOMAIN t : from(j) = k
    OBVIOUS
  <2>1. CASE k < i
    <3>1. k \in DOMAIN t
      BY <1>1, <1>3, <2>1
    <3> QED BY <2>1, <3>1
  <2>2. CASE ~ k < i
    <3>1. k - 1 \in DOMAIN t /\ ~ (k - 1 < i) /\ (k - 1) + 1 = k
      BY <1>1, <1>3, <2>2
    <3> QED BY <3>1
  <2> QED BY <2>1, <2>2
<1>7. PathsOf(t) = PathsOf(s) \ {s[i].path}
  <2>1. \A p : p \in PathsOf(t) <=> \E j \in DOMAIN t : t[j].path = p
    BY DEF PathsOf
  <2>2. \A p : p \in PathsOf(s) <=> \E j \in DOMAIN s : s[j].path = p
    BY DEF PathsOf
  <2>3. \A j \in DOMAIN t : t[j] = s[from(j)] /\ from(j) \in DOMAIN s /\ from(j) # i
    BY <1>2, <1>3
  <2>4. \A j \in DOMAIN s : s[j].path = s[i].path => j = i
    BY DEF Listing
  <2> HIDE DEF from
  <2> QED BY <1>6, <2>1, <2>2, <2>3, <2>4
<1>8. ASSUME NEW p \in PathsOf(t) PROVE ContentAt(t)[p] = ContentAt(s)[p]
  <2>1. PICK j \in DOMAIN t : t[j].path = p /\ t[j].content = ContentAt(t)[p]
    BY <1>5, ListingForms
  <2>2. t[j] = s[from(j)] /\ from(j) \in DOMAIN s
    BY <1>2, <1>3
  <2> QED BY <2>1, <2>2, ListingForms
<1> QED BY <1>5, <1>7, <1>8 DEF t

\* A file of another path may be put anywhere.
LEMMA InsertedForms ==
  ASSUME NEW s, Listing(s), NEW i \in 1 .. Len(s) + 1, NEW x \in FileType,
         x.path \notin PathsOf(s)
  PROVE  Listing(InsertAt(s, i, x))
<1> DEFINE t == InsertAt(s, i, x)
           a == SubSeq(s, 1, i - 1)
           b == SubSeq(s, i, Len(s))
<1>1. s \in Seq(FileType) /\ Len(s) \in Nat /\ DOMAIN s = 1 .. Len(s)
      /\ \A j \in DOMAIN s : s[j].path \in PathsOf(s)
  BY ListingForms DEF Listing
<1>2. a \in Seq(FileType) /\ Len(a) = i - 1 /\ \A j \in 1 .. i - 1 : a[j] = s[j]
  BY <1>1
<1>3. b \in Seq(FileType) /\ Len(b) = Len(s) - (i - 1)
      /\ \A j \in 1 .. Len(s) - (i - 1) : b[j] = s[(i - 1) + j]
  BY <1>1
<1>4. t = (a \o <<x>>) \o b
  BY DEF InsertAt
<1> HIDE DEF a, b, t
<1>5. /\ a \o <<x>> \in Seq(FileType) /\ Len(a \o <<x>>) = i
      /\ \A j \in 1 .. i : (a \o <<x>>)[j] = IF j < i THEN s[j] ELSE x
  <2>1. a \o <<x>> \in Seq(FileType) /\ Len(a \o <<x>>) = i
    BY <1>2
  <2>2. \A j \in 1 .. i - 1 : (a \o <<x>>)[j] = s[j]
    BY <1>2
  <2>3. (a \o <<x>>)[i] = x
    BY <1>2
  <2> QED BY <2>1, <2>2, <2>3
<1>6. t \in Seq(FileType) /\ Len(t) = Len(s) + 1
  <2>1. t \in Seq(FileType) /\ Len(t) = i + Len(b)
    BY <1>3, <1>4, <1>5, ConcatProperties
  <2> QED BY <1>1, <1>3, <2>1
<1>7. \A j \in 1 .. Len(s) + 1 : t[j] = IF j < i THEN s[j] ELSE IF j = i THEN x ELSE s[j - 1]
  <2> SUFFICES ASSUME NEW j \in 1 .. Len(s) + 1
               PROVE  t[j] = IF j < i THEN s[j] ELSE IF j = i THEN x ELSE s[j - 1]
    OBVIOUS
  <2>1. CASE j <= i
    <3>1. j \in 1 .. i
      BY <1>1, <2>1
    <3>2. t[j] = (a \o <<x>>)[j]
      <4> DEFINE ax == a \o <<x>>
      <4>1. ax \in Seq(FileType) /\ Len(ax) = i /\ t = ax \o b
        BY <1>4, <1>5
      <4> HIDE DEF ax
      <4>2. t[j] = ax[j]
        BY <1>3, <3>1, <4>1
      <4> QED BY <4>2 DEF ax
    <3> QED BY <1>1, <1>5, <3>1, <3>2
  <2>2. CASE ~ j <= i
    <3>1. t[j] = b[j - i] /\ j - i \in 1 .. Len(s) - (i - 1)
      BY <1>1, <1>3, <1>4, <1>5, <2>2
    <3>2. b[j - i] = s[(i - 1) + (j - i)] /\ (i - 1) + (j - i) = j - 1
      BY <1>1, <1>3, <3>1
    <3> QED BY <1>1, <2>2, <3>1, <3>2
  <2> QED BY <2>1, <2>2
<1>8. ASSUME NEW j \in DOMAIN t, NEW k \in DOMAIN t, t[j].path = t[k].path PROVE j = k
  <2>0. j \in 1 .. Len(s) + 1 /\ k \in 1 .. Len(s) + 1 /\ i \in 1 .. Len(s) + 1
    BY <1>1, <1>6
  <2>1. \A m \in 1 .. Len(s) + 1 : m # i =>
           LET o == IF m < i THEN m ELSE m - 1
           IN  o \in DOMAIN s /\ t[m] = s[o] /\ t[m].path # x.path
    BY <1>1, <1>7
  <2>2. t[i] = x
    BY <1>7, <2>0
  <2>3. CASE j = i \/ k = i
    BY <1>8, <2>0, <2>1, <2>2, <2>3
  <2>4. CASE j # i /\ k # i
    <3>1. (IF j < i THEN j ELSE j - 1) = (IF k < i THEN k ELSE k - 1)
      BY <1>8, <2>0, <2>1, <2>4 DEF Listing
    <3> QED BY <2>0, <2>4, <3>1
  <2> QED BY <2>3, <2>4
<1>9. Listing(t)
  BY <1>6, <1>8 DEF Listing
<1> QED BY <1>9 DEF t

\* Two neighbours may be exchanged.
LEMMA SwappedForms ==
  ASSUME NEW s, Listing(s), NEW i \in 1 .. Len(s) - 1
  PROVE  Listing([s EXCEPT ![i] = s[i + 1], ![i + 1] = s[i]])
<1> DEFINE t == [s EXCEPT ![i] = s[i + 1], ![i + 1] = s[i]]
<1>1. s \in Seq(FileType) /\ Len(s) \in Nat /\ DOMAIN s = 1 .. Len(s)
  BY ListingForms DEF Listing
<1>2. i \in DOMAIN s /\ i + 1 \in DOMAIN s /\ i \in Int /\ i + 1 # i
  BY <1>1
<1>3. t \in Seq(FileType) /\ DOMAIN t = DOMAIN s
  BY <1>1, <1>2
<1>4. \A j \in DOMAIN s : t[j] = IF j = i + 1 THEN s[i] ELSE IF j = i THEN s[i + 1] ELSE s[j]
  BY <1>1, <1>2
<1> HIDE DEF t
<1>5. Listing(t)
  BY <1>2, <1>3, <1>4 DEF Listing
<1> QED BY <1>5 DEF t

\* A file's content may be replaced.
LEMMA RewrittenForms ==
  ASSUME NEW s, Listing(s), NEW i \in DOMAIN s, NEW x \in FileType, x.path = s[i].path
  PROVE  Listing([s EXCEPT ![i] = x])
<1> DEFINE t == [s EXCEPT ![i] = x]
<1>1. s \in Seq(FileType) /\ Len(s) \in Nat /\ DOMAIN s = 1 .. Len(s)
  BY ListingForms DEF Listing
<1>2. t \in Seq(FileType) /\ DOMAIN t = DOMAIN s
  BY <1>1
<1>3. \A j \in DOMAIN s : t[j] = IF j = i THEN x ELSE s[j]
  BY <1>1
<1> HIDE DEF t
<1>4. Listing(t)
  BY <1>2, <1>3 DEF Listing
<1> QED BY <1>4 DEF t

WithFile(s, x) ==
    IF x.path \in PathsOf(s)
    THEN [i \in DOMAIN s |-> IF s[i].path = x.path THEN x ELSE s[i]]
    ELSE Append(s, x)

\* A file that is updated stays where it is; a new one comes last.
LEMMA UpdatedForms ==
  ASSUME NEW s, Listing(s), NEW x \in FileType
  PROVE  LET t == WithFile(s, x)
         IN  /\ Listing(t) /\ PathsOf(t) = PathsOf(s) \cup {x.path}
             /\ \A i \in DOMAIN s : s[i].path # x.path => i \in DOMAIN t /\ t[i] = s[i]
             /\ \A i \in DOMAIN t : IF t[i].path = x.path THEN t[i] = x
                                    ELSE i \in DOMAIN s /\ s[i] = t[i]
             /\ ContentAt(t)[x.path] = x.content
             /\ \A p \in PathsOf(s) : p # x.path => ContentAt(t)[p] = ContentAt(s)[p]
<1> DEFINE t == WithFile(s, x)
<1>1. /\ s \in Seq(FileType) /\ Len(s) \in Nat /\ DOMAIN s = 1 .. Len(s)
      /\ \A i \in DOMAIN s : s[i] \in FileType /\ s[i].path \in PathsOf(s)
      /\ \A i, j \in DOMAIN s : s[i].path = s[j].path => i = j
      /\ \A p \in PathsOf(s) : \E i \in DOMAIN s : s[i].path = p
  BY ListingForms DEF Listing
<1>2. /\ t \in Seq(FileType)
      /\ \A i \in DOMAIN s : s[i].path # x.path => i \in DOMAIN t /\ t[i] = s[i]
      /\ \A i \in DOMAIN t : IF t[i].path = x.path THEN t[i] = x
                             ELSE i \in DOMAIN s /\ s[i] = t[i]
      /\ \A i, j \in DOMAIN t : t[i].path = t[j].path => i = j
      /\ \E i \in DOMAIN t : t[i].path = x.path
  <2>1. CASE x.path \in PathsOf(s)
    <3>1. t = [i \in 1 .. Len(s) |-> IF s[i].path = x.path THEN x ELSE s[i]]
      BY <1>1, <2>1 DEF WithFile
    <3>2. DOMAIN t = DOMAIN s /\ \A i \in DOMAIN s : t[i] = IF s[i].path = x.path THEN x ELSE s[i]
      BY <1>1, <3>1
    <3>3. t \in [1 .. Len(s) -> FileType]
      BY <1>1, <3>1
    <3> HIDE DEF t
    <3>4. t \in Seq(FileType)
      BY <1>1, <3>3
    <3> QED BY <1>1, <2>1, <3>2, <3>4
  <2>2. CASE x.path \notin PathsOf(s)
    <3>1. t = Append(s, x)
      BY <2>2 DEF WithFile
    <3>2. /\ t \in Seq(FileType) /\ DOMAIN t = 1 .. Len(s) + 1 /\ t[Len(s) + 1] = x
          /\ \A i \in 1 .. Len(s) : t[i] = s[i]
      <4> HIDE DEF t
      <4>1. /\ t \in Seq(FileType) /\ Len(t) = Len(s) + 1 /\ t[Len(s) + 1] = x
            /\ \A i \in 1 .. Len(s) : t[i] = s[i]
        BY <1>1, <3>1, AppendProperties
      <4> QED BY <4>1
    <3>3. /\ \A i \in DOMAIN s : i \in DOMAIN t /\ t[i] = s[i] /\ s[i].path # x.path
          /\ \A i \in DOMAIN t : i \in DOMAIN s \/ i = Len(s) + 1
          /\ Len(s) + 1 \in DOMAIN t
      BY <1>1, <2>2, <3>2
    <3> HIDE DEF t
    <3> QED BY <1>1, <3>2, <3>3
  <2> QED BY <2>1, <2>2
<1> HIDE DEF t
<1>3. Listing(t)
  BY <1>2 DEF Listing
<1>4. PathsOf(t) = PathsOf(s) \cup {x.path}
  <2>1. \A p : p \in PathsOf(t) <=> \E j \in DOMAIN t : t[j].path = p
    BY DEF PathsOf
  <2> QED BY <1>1, <1>2, <2>1
<1>5. ContentAt(t)[x.path] = x.content
  BY <1>2, <1>3, ListingForms
<1>6. ASSUME NEW p \in PathsOf(s), p # x.path PROVE ContentAt(t)[p] = ContentAt(s)[p]
  <2>1. PICK i \in DOMAIN s : s[i].path = p /\ s[i].content = ContentAt(s)[p]
    BY ListingForms
  <2>2. i \in DOMAIN t /\ t[i] = s[i]
    BY <1>2, <1>6, <2>1
  <2> QED BY <1>3, <2>1, <2>2, ListingForms
<1> QED BY <1>2, <1>3, <1>4, <1>5, <1>6 DEF t

-----------------------------------------------------------------------------
(***************************************************************************)
(* What the project holds between the calls of a check: collections and    *)
(* bindings of files that it has, as they are now, and every file that has *)
(* no collection is dirty.                                                 *)
(***************************************************************************)

AllDirty == PathsOf(files) \subseteq dirty_paths

FilesInv ==
    /\ IsWorkspace(workspace) /\ edits \in 0 .. MaxEdits
    /\ phase \in {"idle", "remove", "loaded", "update", "check"}
    /\ Listing(files) /\ declared \in BOOLEAN /\ stubs \in Stubs
    /\ has_prev_emit \in BOOLEAN
    /\ dirty_paths \subseteq Paths /\ invalidated_fns \subseteq Names
    /\ DOMAIN called_fns \subseteq Paths /\ DOMAIN read_fns \subseteq Paths
    /\ emitted \subseteq Paths

\* How far the files are those of the workspace
CallInv ==
    /\ phase \in {"loaded", "update"} => /\ PathsOf(files) \subseteq PathsOf(workspace.files)
                                         /\ stubs = workspace.stubs
    /\ phase = "update" => declared = workspace.declared
    /\ phase = "check" => /\ files = workspace.files
                          /\ stubs = workspace.stubs /\ declared = workspace.declared

CollectedInv ==
    /\ DOMAIN collected \subseteq DOMAIN known_vars
    /\ DOMAIN known_vars \subseteq PathsOf(files)
    /\ \A p \in DOMAIN collected : collected[p] = ContentAt(files)[p]
    /\ \A p \in DOMAIN known_vars : known_vars[p] = ContentAt(files)[p].binds
    /\ PathsOf(files) \ DOMAIN collected \subseteq dirty_paths
    /\ phase = "idle" => DOMAIN collected = PathsOf(files)
    /\ phase # "check" =>
          \A i \in DOMAIN files : files[i].path \notin DOMAIN collected =>
             \/ AllDirty
             \/ phase = "update" /\ \E j \in DOMAIN workspace.files : workspace.files[j] = files[i]

SourcesInv == FilesInv /\ CallInv /\ CollectedInv

\* A check in terms of the files alone
T0 == TableOf(files)
Calls0 == Updated([p \in PathsOf(files) |-> CallSites(ContentAt(files)[p])], called_fns)
Loaded0 == Loaded(ContentsOf(files), declared)
Scoped0 == FixpointScope(T0, Loaded0, ContentAt(files))
Scope0 == IF Discovers(T0, Scoped0) /\ ~Loaded0 THEN Names ELSE Scoped0
Found0 == Discovers(T0, Scope0) /\ ~Loaded0
Returns0 == Returns(T0, Scope0, prev_returns, Loaded0 \/ Found0, stubs)
Modes0 == Modes(T0, Scope0, prev_modes)
Emit0 == MustEmit(ContentAt(files), Calls0, Loaded0, Returns0, Modes0, Known(files))

\* What a check changes, with everything it computes on the way named
Outcome ==
    /\ phase = "check" /\ phase' = "idle" /\ has_prev_emit' = TRUE
    /\ dirty_paths' = {} /\ invalidated_fns' = {}
    /\ UNCHANGED <<workspace, edits, files, settings>>
    /\ collected' = ContentAt(files)
    /\ DOMAIN known_vars' = PathsOf(files)
    /\ \A p \in PathsOf(files) : known_vars'[p] = ContentAt(files)[p].binds
    /\ called_fns' = Calls0
    /\ discovered' = Found0
    /\ dependencies' = Dependencies(Scope0, T0)
    /\ emitted' = Emit0
    /\ read_fns' = Updated([p \in Emit0 |-> Observed(p, T0)], read_fns)
    /\ diagnostics' =
           [p \in PathsOf(files) |->
               IF p \in Emit0
               THEN Emission(ContentAt(files)[p], ContentsOf(files), T0, Returns0, Modes0,
                             Loaded0, Known(files), ContentAt(files))
               ELSE diagnostics[p]]
    /\ prev_loaded' = Loaded0 /\ prev_known' = Known(files)
    /\ prev_returns' = Returns0 /\ prev_modes' = Modes0

\* The collections of a check are those of the files, so what it computes is
\* what the files say.
LEMMA CheckEffect ==
  ASSUME SourcesInv, CheckIncremental
  PROVE  Outcome
<1> DEFINE at == ContentAt(files)
           c == [p \in PathsOf(files) |-> IF p \in DOMAIN collected THEN collected[p] ELSE at[p]]
           contents == [i \in DOMAIN files |-> c[files[i].path]]
           fresh == [p \in PathsOf(files) \ DOMAIN collected |-> at[p].binds]
           pooled == Updated(fresh, known_vars)
           known == UNION {pooled[p] : p \in DOMAIN pooled}
<1>0. Listing(files) /\ CollectedInv
  BY DEF SourcesInv, FilesInv
<1>1. c = at
  <2>1. at = [p \in PathsOf(files) |-> at[p]]
    BY DEF ContentAt
  <2>2. \A p \in PathsOf(files) : c[p] = at[p]
    BY <1>0 DEF CollectedInv
  <2> QED BY <2>1, <2>2
<1>2. contents = ContentsOf(files)
  <2>1. \A i \in DOMAIN files : at[files[i].path] = files[i].content
    BY <1>0, ListingForms
  <2> HIDE DEF at
  <2> QED BY <1>1, <2>1 DEF ContentsOf
<1>3. /\ DOMAIN pooled = PathsOf(files)
      /\ \A p \in PathsOf(files) : pooled[p] = at[p].binds
  <2>1. DOMAIN fresh \cup DOMAIN known_vars = PathsOf(files)
    BY <1>0 DEF CollectedInv
  <2>2. \A p \in DOMAIN known_vars : known_vars[p] = at[p].binds
    BY <1>0 DEF CollectedInv
  <2>3. \A p \in DOMAIN fresh : fresh[p] = at[p].binds
    OBVIOUS
  <2> HIDE DEF fresh, at
  <2>4. /\ DOMAIN pooled = DOMAIN fresh \cup DOMAIN known_vars
        /\ \A x \in DOMAIN fresh : pooled[x] = fresh[x]
        /\ \A x \in DOMAIN known_vars \ DOMAIN fresh : pooled[x] = known_vars[x]
    BY DEF Updated
  <2> HIDE DEF pooled
  <2> QED BY <2>1, <2>2, <2>3, <2>4
<1> HIDE DEF pooled
<1>4. known = Known(files)
  <2>1. \A x : x \in known <=> \E p \in PathsOf(files) : x \in at[p].binds
    <3> HIDE DEF at, fresh
    <3> QED BY <1>3
  <2>2. \A x : x \in Known(files) <=> \E i \in DOMAIN files : x \in files[i].content.binds
    BY DEF Known
  <2>3. \A x : (\E p \in PathsOf(files) : x \in at[p].binds)
                  <=> \E i \in DOMAIN files : x \in files[i].content.binds
    <3>1. \A i \in DOMAIN files : files[i].path \in PathsOf(files) /\ at[files[i].path] = files[i].content
      BY <1>0, ListingForms
    <3>2. \A p \in PathsOf(files) : \E i \in DOMAIN files : files[i].content = at[p]
      BY <1>0, ListingForms
    <3> HIDE DEF at
    <3> QED BY <3>1, <3>2
  <2> HIDE DEF known, at
  <2> QED BY <2>1, <2>2, <2>3
<1> HIDE DEF fresh
<1>5. DOMAIN known_vars' = PathsOf(files)
      /\ \A p \in PathsOf(files) : known_vars'[p] = at[p].binds
  <2>1. known_vars' = pooled
    BY DEF CheckIncremental, fresh, pooled
  <2> QED BY <1>3, <2>1
<1>6. /\ phase = "check" /\ phase' = "idle" /\ has_prev_emit' = TRUE
      /\ dirty_paths' = {} /\ invalidated_fns' = {}
      /\ UNCHANGED <<workspace, edits, files, settings>>
  BY DEF CheckIncremental
<1>7. /\ collected' = c
      /\ called_fns' = Updated([p \in PathsOf(files) |-> CallSites(c[p])], called_fns)
  BY DEF CheckIncremental
<1> DEFINE table == Merged(contents)
           loaded == Loaded(contents, declared)
           called == Updated([p \in PathsOf(files) |-> CallSites(c[p])], called_fns)
           scoped == FixpointScope(table, loaded, c)
           scope == IF Discovers(table, scoped) /\ ~loaded THEN Names ELSE scoped
           found == Discovers(table, scope) /\ ~loaded
           rets == Returns(table, scope, prev_returns, loaded \/ found, stubs)
           modes == Modes(table, scope, prev_modes)
           emit == MustEmit(c, called, loaded, rets, modes, known)
<1>8. /\ discovered' = found /\ dependencies' = Dependencies(scope, table)
      /\ emitted' = emit
      /\ read_fns' = Updated([p \in emit |-> Observed(p, table)], read_fns)
      /\ diagnostics' = [p \in PathsOf(files) |->
                    IF p \in emit
                    THEN Emission(at[p], contents, table, rets, modes, loaded, known, at)
                    ELSE diagnostics[p]]
      /\ prev_loaded' = loaded /\ prev_returns' = rets /\ prev_modes' = modes
      /\ prev_known' = known
  BY DEF CheckIncremental, fresh, pooled
<1> HIDE DEF c, contents, known
<1>9. table = T0 /\ loaded = Loaded0 /\ called = Calls0
  BY <1>1, <1>2 DEF T0, TableOf, Loaded0, Calls0
<1> HIDE DEF table, loaded, called
<1>10. scoped = Scoped0
  BY <1>1, <1>9 DEF Scoped0
<1> HIDE DEF scoped
<1>11. scope = Scope0
  BY <1>9, <1>10 DEF Scope0
<1> HIDE DEF scope
<1>12. found = Found0
  BY <1>9, <1>11 DEF Found0
<1> HIDE DEF found
<1>13. rets = Returns0 /\ modes = Modes0
  BY <1>9, <1>11, <1>12 DEF Returns0, Modes0
<1> HIDE DEF rets, modes
<1>14. emit = Emit0
  BY <1>1, <1>4, <1>9, <1>13 DEF Emit0
<1> HIDE DEF emit
<1>15. called_fns' = Calls0
  BY <1>1, <1>7 DEF Calls0
<1> QED BY <1>1, <1>2, <1>4, <1>5, <1>6, <1>7, <1>8, <1>9, <1>11, <1>12, <1>13, <1>14, <1>15
    DEF Outcome

-----------------------------------------------------------------------------
(* The files and their collections through the calls.                      *)

\* Two lists of the same files differ in their order only.
LEMMA SameFiles ==
  ASSUME NEW s, Listing(s), NEW t, Listing(t),
         \A i \in DOMAIN t : \E j \in DOMAIN s : s[j] = t[i],
         PathsOf(s) \subseteq PathsOf(t)
  PROVE  /\ PathsOf(t) = PathsOf(s) /\ ContentAt(t) = ContentAt(s)
         /\ \A j \in DOMAIN s : \E i \in DOMAIN t : s[j] = t[i]
<1>1. \A j \in DOMAIN s : \E i \in DOMAIN t : s[j] = t[i]
  <2> SUFFICES ASSUME NEW j \in DOMAIN s PROVE \E i \in DOMAIN t : s[j] = t[i]
    OBVIOUS
  <2>1. s[j].path \in PathsOf(t)
    BY DEF PathsOf
  <2>2. PICK i \in DOMAIN t : t[i].path = s[j].path
    BY <2>1 DEF PathsOf
  <2>3. PICK k \in DOMAIN s : s[k] = t[i]
    OBVIOUS
  <2>4. k = j
    BY <2>2, <2>3 DEF Listing
  <2> QED BY <2>3, <2>4
<1>2. PathsOf(t) = PathsOf(s)
  BY DEF PathsOf
<1>3. ASSUME NEW p \in PathsOf(t) PROVE ContentAt(t)[p] = ContentAt(s)[p]
  <2>1. PICK i \in DOMAIN t : t[i].path = p /\ t[i].content = ContentAt(t)[p]
    BY ListingForms
  <2>2. PICK j \in DOMAIN s : s[j] = t[i]
    OBVIOUS
  <2> QED BY <2>1, <2>2, ListingForms
<1>4. /\ ContentAt(t) = [p \in PathsOf(t) |-> ContentAt(t)[p]]
      /\ ContentAt(s) = [p \in PathsOf(s) |-> ContentAt(s)[p]]
  BY DEF ContentAt
<1> QED BY <1>1, <1>2, <1>3, <1>4

\* The new project holds nothing.
LEMMA SourcesInit ==
  ASSUME Init PROVE SourcesInv
<1>1. IsWorkspace(workspace) /\ 0 \in 0 .. MaxEdits
  BY ProjectAssumption DEF Init
<1>2. Listing(<<>>) /\ DOMAIN <<>> = {} /\ PathsOf(<<>>) = {}
  BY DEF Listing, PathsOf
<1> QED BY <1>1, <1>2 DEF Init, SourcesInv, FilesInv, CallInv, CollectedInv, Stubs

\* Whatever is edited, the workspace has one file for each path.
LEMMA EditedWorkspace ==
  ASSUME IsWorkspace(workspace), Edit PROVE IsWorkspace(workspace')
<1> DEFINE w == workspace
<1>1. /\ w \in [files : Seq(FileType), declared : BOOLEAN, stubs : Stubs] /\ Listing(w.files)
  BY WorkspaceForms
<1>2. \A s : s \in Seq(FileType) /\ Listing(s) => IsWorkspace([w EXCEPT !.files = s])
  <2> SUFFICES ASSUME NEW s, s \in Seq(FileType), Listing(s)
               PROVE  IsWorkspace([w EXCEPT !.files = s])
    OBVIOUS
  <2>1. [w EXCEPT !.files = s] \in [files : Seq(FileType), declared : BOOLEAN, stubs : Stubs]
        /\ [w EXCEPT !.files = s].files = s
    BY <1>1
  <2> HIDE DEF w
  <2> QED BY <2>1, WorkspaceForms
<1>3. \A s : Listing(s) => IsWorkspace([w EXCEPT !.files = s])
  BY <1>2 DEF Listing
<1>4. /\ Len(w.files) \in Nat /\ DOMAIN w.files = 1 .. Len(w.files)
      /\ \A i \in DOMAIN w.files : w.files[i] \in FileType /\ w.files[i].path \in Paths
  BY <1>1, ListingForms
<1>5. ASSUME NEW i \in DOMAIN w.files, NEW c \in Contents[w.files[i].path],
             workspace' = [workspace EXCEPT !.files[i].content = c]
      PROVE  IsWorkspace(workspace')
  <2> DEFINE x == File(w.files[i].path, c)
  <2>1. x \in FileType /\ x.path = w.files[i].path
    BY <1>4 DEF FileType, File
  <2>2. [w.files[i] EXCEPT !.content = c] = x
    BY <1>4, FileForms DEF File
  <2>3. workspace' = [w EXCEPT !.files = [w.files EXCEPT ![i] = x]]
    BY <1>5, <2>2
  <2> HIDE DEF w, x
  <2> QED BY <1>1, <1>3, <2>1, <2>3, RewrittenForms
<1>6. ASSUME NEW i \in DOMAIN w.files,
             workspace' = [workspace EXCEPT !.files = RemoveAt(@, i)]
      PROVE  IsWorkspace(workspace')
  <2>1. workspace' = [w EXCEPT !.files = RemoveAt(w.files, i)]
    BY <1>6
  <2> HIDE DEF w
  <2> QED BY <1>1, <1>3, <2>1, RemovedForms
<1>7. ASSUME NEW p \in Paths \ PathsOf(w.files), NEW i \in 1..(Len(w.files) + 1),
             NEW c \in Contents[p],
             workspace' = [workspace EXCEPT !.files = InsertAt(@, i, File(p, c))]
      PROVE  IsWorkspace(workspace')
  <2>1. workspace' = [w EXCEPT !.files = InsertAt(w.files, i, File(p, c))]
    BY <1>7
  <2>2. File(p, c) \in FileType /\ File(p, c).path = p
    BY DEF FileType, File
  <2> HIDE DEF w
  <2> QED BY <1>1, <1>3, <2>1, <2>2, InsertedForms
<1>8. ASSUME NEW i \in 1..(Len(w.files) - 1),
             workspace' = [workspace EXCEPT !.files[i] = workspace.files[i + 1],
                                            !.files[i + 1] = workspace.files[i]]
      PROVE  IsWorkspace(workspace')
  <2>1. workspace' = [w EXCEPT !.files =
                        [w.files EXCEPT ![i] = w.files[i + 1], ![i + 1] = w.files[i]]]
    BY <1>1, <1>8
  <2> HIDE DEF w
  <2> QED BY <1>1, <1>3, <2>1, SwappedForms
<1>9. ASSUME workspace' = [workspace EXCEPT !.declared = ~@]
      PROVE  IsWorkspace(workspace')
  <2>1. workspace' \in [files : Seq(FileType), declared : BOOLEAN, stubs : Stubs]
        /\ workspace'.files = w.files
    BY <1>1, <1>9
  <2> QED BY <1>1, <2>1, WorkspaceForms
<1>10. ASSUME NEW s \in Stubs, workspace' = [workspace EXCEPT !.stubs = s]
       PROVE  IsWorkspace(workspace')
  <2>1. workspace' \in [files : Seq(FileType), declared : BOOLEAN, stubs : Stubs]
        /\ workspace'.files = w.files
    BY <1>1, <1>10
  <2> QED BY <1>1, <2>1, WorkspaceForms
<1> QED BY <1>5, <1>6, <1>7, <1>8, <1>9, <1>10 DEF Edit

\* An edit of the workspace does not touch the project.
LEMMA SourcesEdit ==
  ASSUME SourcesInv, Edit PROVE SourcesInv'
<1>1. IsWorkspace(workspace') /\ edits' \in 0 .. MaxEdits
  <2>1. edits \in 0 .. MaxEdits /\ edits < MaxEdits /\ edits' = edits + 1 /\ MaxEdits \in Nat
    BY ProjectAssumption DEF SourcesInv, FilesInv, Edit
  <2>2. edits' \in 0 .. MaxEdits
    BY <2>1
  <2> QED BY <2>2, EditedWorkspace DEF SourcesInv, FilesInv
<1>2. phase = "idle" /\ UNCHANGED <<phase, sources, settings, previous>>
  BY DEF Edit
<1>3. FilesInv'
  BY <1>1, <1>2 DEF SourcesInv, FilesInv, sources, settings, previous
<1>4. CallInv'
  BY <1>2 DEF CallInv
<1>5. CollectedInv'
  BY <1>2 DEF SourcesInv, CollectedInv, AllDirty, sources, settings, previous
<1> QED BY <1>3, <1>4, <1>5 DEF SourcesInv

\* A check begins with every file collected.
LEMMA SourcesStart ==
  ASSUME SourcesInv, Start PROVE SourcesInv'
<1>1. /\ phase = "idle" /\ phase' = "remove"
      /\ UNCHANGED <<workspace, edits, sources, settings, previous>>
  BY DEF Start
<1>2. FilesInv'
  BY <1>1 DEF SourcesInv, FilesInv, sources, settings, previous
<1>3. CallInv'
  BY <1>1 DEF CallInv
<1>4. \A i \in DOMAIN files : files[i].path \in PathsOf(files)
  BY DEF PathsOf
<1>5. CollectedInv'
  BY <1>1, <1>4 DEF SourcesInv, CollectedInv, AllDirty, sources, settings, previous
<1> QED BY <1>2, <1>3, <1>5 DEF SourcesInv

\* A removal drops what is held of the file, and makes the others dirty.
LEMMA SourcesRemove ==
  ASSUME SourcesInv, RemoveFile PROVE SourcesInv'
<1>0. Listing(files) /\ FilesInv /\ CollectedInv
  BY DEF SourcesInv, FilesInv
<1>1. PICK i \in DOMAIN files :
        /\ files' = RemoveAt(files, i)
        /\ collected' = Restrict(collected, DOMAIN collected \ {files[i].path})
        /\ invalidated_fns' = invalidated_fns \cup UNION {Defined(collected[p]) :
                                 p \in {files[i].path} \cap DOMAIN collected}
        /\ known_vars' = Restrict(known_vars, DOMAIN known_vars \ {files[i].path})
        /\ read_fns' = Restrict(read_fns, DOMAIN read_fns \ {files[i].path})
        /\ dirty_paths' = dirty_paths \cup PathsOf(files')
  BY DEF RemoveFile, Uncollect
<1>2. /\ phase = "remove" /\ phase' = phase
      /\ UNCHANGED <<workspace, edits, settings, has_prev_emit, called_fns, emitted>>
  BY DEF RemoveFile
<1>3. /\ Listing(files') /\ PathsOf(files') = PathsOf(files) \ {files[i].path}
      /\ \A p \in PathsOf(files') : ContentAt(files')[p] = ContentAt(files)[p]
  BY <1>0, <1>1, RemovedForms
<1>4. /\ DOMAIN collected' = DOMAIN collected \ {files[i].path}
      /\ \A p \in DOMAIN collected' : collected'[p] = collected[p]
      /\ DOMAIN known_vars' = DOMAIN known_vars \ {files[i].path}
      /\ \A p \in DOMAIN known_vars' : known_vars'[p] = known_vars[p]
      /\ DOMAIN read_fns' \subseteq DOMAIN read_fns
  BY <1>1 DEF Restrict
<1>5. invalidated_fns' \subseteq Names
  <2>1. \A p \in DOMAIN collected : Defined(collected[p]) \subseteq Names
    <3> SUFFICES ASSUME NEW p \in DOMAIN collected PROVE Defined(collected[p]) \subseteq Names
      OBVIOUS
    <3>1. p \in PathsOf(files) /\ collected[p] = ContentAt(files)[p]
      BY <1>0 DEF CollectedInv
    <3>2. IsContent(collected[p])
      BY <1>0, <3>1, ListingForms
    <3> QED BY <3>2 DEF IsContent, Defined
  <2> QED BY <1>0, <1>1, <2>1 DEF FilesInv
<1>6. PathsOf(files) \subseteq Paths
  BY <1>0, ListingForms
<1>7. FilesInv'
  BY <1>0, <1>1, <1>2, <1>3, <1>4, <1>5, <1>6 DEF FilesInv, settings
<1>8. CallInv'
  BY <1>2 DEF CallInv
<1>9. CollectedInv'
  BY <1>0, <1>1, <1>2, <1>3, <1>4 DEF CollectedInv, AllDirty
<1> QED BY <1>7, <1>8, <1>9 DEF SourcesInv

\* Other stubs drop every collection, and make every file dirty.
LEMMA SourcesSetUserStubs ==
  ASSUME SourcesInv, SetUserStubs PROVE SourcesInv'
<1>0. Listing(files) /\ FilesInv /\ CollectedInv /\ PathsOf(files) \subseteq Paths
  BY ListingForms DEF SourcesInv, FilesInv
<1>1. /\ phase = "remove" /\ phase' = "loaded" /\ stubs' = workspace.stubs
      /\ PathsOf(files) \subseteq PathsOf(workspace.files)
      /\ UNCHANGED <<workspace, edits, files, known_vars, invalidated_fns, declared, previous>>
      /\ \/ UNCHANGED <<collected, dirty_paths>>
         \/ collected' = <<>> /\ dirty_paths' = dirty_paths \cup PathsOf(files)
  BY DEF SetUserStubs
<1>2. stubs' \in Stubs
  BY <1>0, <1>1, WorkspaceForms DEF FilesInv
<1>3. FilesInv'
  BY <1>0, <1>1, <1>2 DEF FilesInv, previous
<1>4. CallInv'
  BY <1>1 DEF CallInv
<1>5. \A i \in DOMAIN files : files[i].path \in PathsOf(files)
  BY DEF PathsOf
<1>6. CollectedInv'
  <2>1. CASE UNCHANGED <<collected, dirty_paths>>
    BY <1>0, <1>1, <2>1 DEF CollectedInv, AllDirty
  <2>2. CASE collected' = <<>> /\ dirty_paths' = dirty_paths \cup PathsOf(files)
    <3>1. DOMAIN collected' = {}
      BY <2>2
    <3> QED BY <1>0, <1>1, <2>2, <3>1 DEF CollectedInv, AllDirty
  <2> QED BY <1>1, <2>1, <2>2
<1> QED BY <1>3, <1>4, <1>6 DEF SourcesInv

\* Another declaration makes every file dirty.
LEMMA SourcesSetLoaded ==
  ASSUME SourcesInv, SetLoaded PROVE SourcesInv'
<1>0. Listing(files) /\ FilesInv /\ CallInv /\ CollectedInv /\ PathsOf(files) \subseteq Paths
  BY ListingForms DEF SourcesInv, FilesInv
<1>1. /\ phase = "loaded" /\ phase' = "update" /\ declared' = workspace.declared
      /\ UNCHANGED <<workspace, edits, files, collected, known_vars, invalidated_fns, stubs,
                     previous>>
      /\ dirty_paths' = dirty_paths \/ dirty_paths' = dirty_paths \cup PathsOf(files)
  BY DEF SetLoaded
<1>2. declared' \in BOOLEAN
  BY <1>0, <1>1, WorkspaceForms DEF FilesInv
<1>3. FilesInv'
  BY <1>0, <1>1, <1>2 DEF FilesInv, previous
<1>4. CallInv'
  BY <1>0, <1>1 DEF CallInv
<1>5. CollectedInv'
  BY <1>0, <1>1 DEF CollectedInv, AllDirty
<1> QED BY <1>3, <1>4, <1>5 DEF SourcesInv

\* What an update of the file new changes
Installs(new) ==
    /\ new \in FileType /\ \A j \in DOMAIN files : files[j] # new
    /\ \E k \in DOMAIN workspace.files : workspace.files[k] = new
    /\ collected' = Restrict(collected, DOMAIN collected \ {new.path})
    /\ invalidated_fns' = invalidated_fns
                          \cup UNION {Defined(collected[p]) : p \in {new.path} \cap DOMAIN collected}
    /\ known_vars' = Restrict(known_vars, DOMAIN known_vars \ {new.path})
    /\ dirty_paths' = dirty_paths \cup
          (IF \E i \in DOMAIN files' : files'[i].content.imports # {}
           THEN PathsOf(files') ELSE {new.path})
    /\ Listing(files') /\ PathsOf(files') = PathsOf(files) \cup {new.path}
    /\ \A i \in DOMAIN files : files[i].path # new.path => i \in DOMAIN files' /\ files'[i] = files[i]
    /\ \A i \in DOMAIN files' : IF files'[i].path = new.path THEN files'[i] = new
                                ELSE i \in DOMAIN files /\ files[i] = files'[i]
    /\ ContentAt(files')[new.path] = new.content
    /\ \A p \in PathsOf(files) : p # new.path => ContentAt(files')[p] = ContentAt(files)[p]

\* update_file installs a file of the workspace in its place.
LEMMA UpdateEffect ==
  ASSUME SourcesInv, UpdateFile
  PROVE  \E new : Installs(new)
<1>0. Listing(files) /\ IsWorkspace(workspace)
  BY DEF SourcesInv, FilesInv
<1>1. /\ Listing(workspace.files)
      /\ Len(workspace.files) \in Nat /\ DOMAIN workspace.files = 1 .. Len(workspace.files)
      /\ \A i \in DOMAIN workspace.files : workspace.files[i] \in FileType
  BY <1>0, WorkspaceForms, ListingForms
<1>2. Min(Outdated) \in Outdated
  <2>1. Outdated \in SUBSET (1 .. Len(workspace.files)) /\ Outdated # {}
    BY <1>1 DEF Outdated, UpdateFile
  <2> HIDE DEF Outdated
  <2> QED BY <1>1, <2>1, FirstPosition
<1> DEFINE k == Min(Outdated)
           new == workspace.files[k]
<1>3. k \in DOMAIN workspace.files /\ \A j \in DOMAIN files : files[j] # new
  <2> DEFINE m == k
  <2>1. m \in Outdated
    BY <1>2
  <2> HIDE DEF m
  <2>2. m \in DOMAIN workspace.files /\ \A j \in DOMAIN files : files[j] # workspace.files[m]
    BY <2>1 DEF Outdated
  <2> QED BY <2>2 DEF m
<1>4. /\ collected' = Restrict(collected, DOMAIN collected \ {new.path})
      /\ invalidated_fns' = invalidated_fns \cup UNION {Defined(collected[p]) :
                               p \in {new.path} \cap DOMAIN collected}
      /\ known_vars' = Restrict(known_vars, DOMAIN known_vars \ {new.path})
      /\ files' = IF new.path \in PathsOf(files)
                  THEN [i \in DOMAIN files |-> IF files[i].path = new.path THEN new ELSE files[i]]
                  ELSE Append(files, new)
      /\ dirty_paths' = dirty_paths \cup
            (IF \E i \in DOMAIN files' : files'[i].content.imports # {}
             THEN PathsOf(files') ELSE {new.path})
  BY DEF UpdateFile, Uncollect
<1> HIDE DEF k
<1>5. new \in FileType
  BY <1>1, <1>3
<1>6. /\ Listing(files') /\ PathsOf(files') = PathsOf(files) \cup {new.path}
      /\ \A i \in DOMAIN files : files[i].path # new.path =>
            i \in DOMAIN files' /\ files'[i] = files[i]
      /\ \A i \in DOMAIN files' : IF files'[i].path = new.path THEN files'[i] = new
                                  ELSE i \in DOMAIN files /\ files[i] = files'[i]
      /\ ContentAt(files')[new.path] = new.content
      /\ \A p \in PathsOf(files) : p # new.path =>
            ContentAt(files')[p] = ContentAt(files)[p]
  <2>1. files' = WithFile(files, new)
    BY <1>4 DEF WithFile
  <2> HIDE DEF new
  <2> QED BY <1>0, <1>5, <2>1, UpdatedForms
<1> HIDE DEF new
<1>7. new = workspace.files[k]
  BY DEF new
<1>8. Installs(new)
  BY <1>3, <1>4, <1>5, <1>6, <1>7 DEF Installs
<1> QED BY <1>8

\* An updated file loses its collection and is dirty.
LEMMA SourcesUpdate ==
  ASSUME SourcesInv, UpdateFile PROVE SourcesInv'
<1>0. Listing(files) /\ FilesInv /\ CallInv /\ CollectedInv
  BY DEF SourcesInv, FilesInv
<1>1. PICK new : Installs(new)
  BY UpdateEffect
<1> USE DEF Installs
<1>2. phase = "update" /\ UNCHANGED <<workspace, edits, phase, settings, previous>>
  BY DEF UpdateFile
<1>3. /\ DOMAIN collected' = DOMAIN collected \ {new.path}
      /\ \A p \in DOMAIN collected' : collected'[p] = collected[p]
      /\ DOMAIN known_vars' = DOMAIN known_vars \ {new.path}
      /\ \A p \in DOMAIN known_vars' : known_vars'[p] = known_vars[p]
  BY <1>1 DEF Restrict
<1>4. invalidated_fns' \subseteq Names
  <2>1. \A p \in DOMAIN collected : Defined(collected[p]) \subseteq Names
    <3> SUFFICES ASSUME NEW p \in DOMAIN collected PROVE Defined(collected[p]) \subseteq Names
      OBVIOUS
    <3>1. p \in PathsOf(files) /\ collected[p] = ContentAt(files)[p]
      BY <1>0 DEF CollectedInv
    <3>2. IsContent(collected[p])
      BY <1>0, <3>1, ListingForms
    <3> QED BY <3>2 DEF IsContent, Defined
  <2> QED BY <1>0, <1>1, <2>1 DEF FilesInv
<1>5. new.path \in Paths /\ PathsOf(files') \subseteq Paths
  BY <1>1, FileForms, ListingForms
<1>6. FilesInv'
  BY <1>0, <1>1, <1>2, <1>4, <1>5 DEF FilesInv, settings, previous
<1>7. CallInv'
  <2>1. new.path \in PathsOf(workspace.files)
    BY <1>1 DEF PathsOf
  <2> QED BY <1>0, <1>1, <1>2, <2>1 DEF CallInv, settings
<1>8. new.path \in dirty_paths' /\ dirty_paths \subseteq dirty_paths'
  BY <1>1
<1>9. /\ PathsOf(files') = PathsOf(files) \cup {new.path}
      /\ \A i \in DOMAIN files' : IF files'[i].path = new.path THEN files'[i] = new
                                  ELSE i \in DOMAIN files /\ files[i] = files'[i]
      /\ \A p \in PathsOf(files) : p # new.path => ContentAt(files')[p] = ContentAt(files)[p]
      /\ \E j \in DOMAIN workspace.files : workspace.files[j] = new
  BY <1>1
<1>10. CollectedInv'
  <2>1. ASSUME NEW i \in DOMAIN files', files'[i].path \notin DOMAIN collected'
        PROVE  \/ AllDirty'
               \/ phase' = "update" /\ \E j \in DOMAIN workspace'.files : workspace'.files[j] = files'[i]
    <3>1. CASE files'[i].path = new.path
      BY <1>2, <1>9, <3>1
    <3>2. CASE files'[i].path # new.path
      <4>1. i \in DOMAIN files /\ files[i] = files'[i] /\ files[i].path \notin DOMAIN collected
        BY <1>3, <1>9, <2>1, <3>2
      <4>2. \/ AllDirty
            \/ \E j \in DOMAIN workspace.files : workspace.files[j] = files[i]
        BY <1>0, <1>2, <4>1 DEF CollectedInv
      <4>3. AllDirty => AllDirty'
        BY <1>8, <1>9 DEF AllDirty
      <4> QED BY <1>2, <4>1, <4>2, <4>3
    <3> QED BY <3>1, <3>2
  <2> QED BY <1>0, <1>2, <1>3, <1>8, <1>9, <2>1 DEF CollectedInv
<1> QED BY <1>6, <1>7, <1>10 DEF SourcesInv

\* After the updates the project has the workspace's files, in another order
\* at most.
LEMMA ReorderEffect ==
  ASSUME SourcesInv, ReorderFiles
  PROVE  /\ phase = "update" /\ phase' = "check" /\ files' = workspace.files
         /\ Listing(files) /\ Listing(files')
         /\ PathsOf(files') = PathsOf(files) /\ ContentAt(files') = ContentAt(files)
         /\ \A i \in DOMAIN files' : \E j \in DOMAIN files : files[j] = files'[i]
         /\ \A j \in DOMAIN files : \E i \in DOMAIN files' : files[j] = files'[i]
         /\ stubs = workspace.stubs /\ declared = workspace.declared
<1>1. /\ phase = "update" /\ phase' = "check" /\ files' = workspace.files
      /\ \A i \in DOMAIN files' : \E j \in DOMAIN files : files[j] = files'[i]
  BY DEF ReorderFiles, Outdated
<1>2. /\ Listing(files) /\ Listing(files') /\ PathsOf(files) \subseteq PathsOf(files')
      /\ stubs = workspace.stubs /\ declared = workspace.declared
  BY <1>1, WorkspaceForms DEF SourcesInv, FilesInv, CallInv
<1> QED BY <1>1, <1>2, SameFiles

\* A reordering leaves the collections where they are.
LEMMA SourcesReorder ==
  ASSUME SourcesInv, ReorderFiles PROVE SourcesInv'
<1>0. FilesInv /\ CallInv /\ CollectedInv
  BY DEF SourcesInv
<1>1. /\ phase = "update" /\ phase' = "check" /\ files' = workspace.files
      /\ Listing(files) /\ Listing(files')
      /\ PathsOf(files') = PathsOf(files) /\ ContentAt(files') = ContentAt(files)
      /\ stubs = workspace.stubs /\ declared = workspace.declared
  BY ReorderEffect
<1>2. /\ UNCHANGED <<workspace, edits, collected, known_vars, settings, previous>>
      /\ \/ UNCHANGED <<dirty_paths, invalidated_fns>>
         \/ \E d \in SUBSET DOMAIN collected, s \in SUBSET Names :
              dirty_paths' = dirty_paths \cup d /\ invalidated_fns' = invalidated_fns \cup s
  <2> DEFINE definers(n) == {p \in DOMAIN collected : n \in Defined(collected[p])}
             shadowed == {n \in Names : \E p, q \in definers(n) : p # q}
             both == UNION {definers(n) : n \in shadowed}
  <2>1. both \in SUBSET DOMAIN collected /\ shadowed \in SUBSET Names
    OBVIOUS
  <2>2. /\ UNCHANGED <<workspace, edits, collected, known_vars, settings, previous>>
        /\ \/ UNCHANGED <<dirty_paths, invalidated_fns>>
           \/ dirty_paths' = dirty_paths \cup both /\ invalidated_fns' = invalidated_fns \cup shadowed
    BY DEF ReorderFiles
  <2> HIDE DEF both, shadowed
  <2> QED BY <2>1, <2>2
<1>3. DOMAIN collected \subseteq Paths
  BY <1>0, <1>1, ListingForms DEF CollectedInv
<1>4. /\ dirty_paths \subseteq dirty_paths'
      /\ FilesInv'
  BY <1>0, <1>1, <1>2, <1>3 DEF FilesInv, settings, previous
<1>5. CallInv'
  BY <1>1, <1>2 DEF CallInv, settings
<1>6. CollectedInv'
  BY <1>0, <1>1, <1>2, <1>4 DEF CollectedInv
<1> QED BY <1>4, <1>5, <1>6 DEF SourcesInv

-----------------------------------------------------------------------------
(***************************************************************************)
(* What a check leaves for the next one, and what the changes since have   *)
(* left alone of it.                                                       *)
(***************************************************************************)

\* A file's diagnostics with the defaults that another emission saw.
ButDefaults(e, d) == [e EXCEPT !.defaults = d.defaults]

\* What is shown is what a cold check of w shows, but for the defaults.
ShowsButDefaults(w) ==
    /\ DOMAIN diagnostics = PathsOf(w.files)
    /\ \A p \in PathsOf(w.files) :
          diagnostics[p] = ButDefaults(ColdDiagnostics(w)[p], diagnostics[p])

\* What the last check, of the workspace old, left.
Stored(old) ==
    /\ prev_loaded = Loaded(ContentsOf(old.files), old.declared)
    /\ prev_returns = ColdReturns(old) /\ prev_modes = ColdModes(old)
    /\ prev_known = Known(old.files)
    /\ dependencies = [f \in DOMAIN TableOf(old.files) |->
                          Reads(TableOf(old.files)[f]) \cap DOMAIN TableOf(old.files)]
    /\ discovered = (Discovers(TableOf(old.files), Names) /\ ~prev_loaded)
    /\ ShowsButDefaults(old)

\* A file that the changes since have left alone
Clean(old, p) ==
    /\ p \in PathsOf(old.files) /\ ContentAt(files)[p] = ContentAt(old.files)[p]
    /\ p \in DOMAIN read_fns
    /\ read_fns[p] = Readers(ContentAt(old.files)[p]) \cap DOMAIN TableOf(old.files)

\* A definition that the changes since have left alone
Kept(old, n) ==
    \/ n \in invalidated_fns
    \/ \E p \in dirty_paths \cap PathsOf(files) : n \in Defined(ContentAt(files)[p])
    \/ n \in DOMAIN TableOf(old.files) /\ TableOf(old.files)[n] = TableOf(files)[n]

Tracked(old) ==
    /\ declared = old.declared /\ stubs = old.stubs
    /\ PathsOf(old.files) \subseteq PathsOf(files)
    /\ \A p \in PathsOf(files) \ dirty_paths : Clean(old, p)
    /\ \A n \in DOMAIN TableOf(files) : Kept(old, n)
    /\ (\E p \in PathsOf(files) : ContentAt(files)[p].imports # {}) =>
          PathsOf(old.files) = PathsOf(files) /\ ContentAt(old.files) = ContentAt(files)

Since(old) ==
    /\ phase = "idle" => /\ files = old.files /\ declared = old.declared /\ stubs = old.stubs
                         /\ dirty_paths = {} /\ invalidated_fns = {}
    /\ AllDirty \/ Tracked(old)
    /\ dirty_paths = {} => invalidated_fns = {} \/ PathsOf(files) = {}

LastCheck(old) == IsWorkspace(old) /\ Stored(old) /\ Since(old)

KeptInv ==
    IF has_prev_emit THEN \E old : LastCheck(old)
    ELSE /\ prev_returns = <<>> /\ prev_modes = <<>> /\ dependencies = <<>>
         /\ prev_loaded = FALSE /\ discovered = FALSE /\ prev_known = {}

\* What no call before the check changes.
Calls == RemoveFile \/ SetUserStubs \/ SetLoaded \/ UpdateFile \/ ReorderFiles \/ Start \/ Edit

\* What a check stored is what the next one finds.
LEMMA StoredStays ==
  ASSUME Calls, NEW old, Stored(old)
  PROVE  Stored(old)'
<1>1. UNCHANGED <<prev_loaded, prev_returns, prev_modes, prev_known, dependencies, discovered,
                  diagnostics, has_prev_emit, called_fns, emitted>>
  BY DEF Calls, RemoveFile, SetUserStubs, SetLoaded, UpdateFile, ReorderFiles, Start, Edit, previous
<1> QED BY <1>1 DEF Stored, ShowsButDefaults

\* Where nothing of the files changes, so does nothing of what is known of them.
LEMMA SinceStays ==
  ASSUME NEW old, Since(old), phase' # "idle",
         UNCHANGED <<files, dirty_paths, invalidated_fns, read_fns, declared, stubs>>
  PROVE  Since(old)'
<1>1. (AllDirty \/ Tracked(old)) => (AllDirty \/ Tracked(old))'
  BY DEF AllDirty, Tracked, Clean, Kept
<1> QED BY <1>1 DEF Since

\* Where every file is dirty, nothing needs to be known of the last check.
LEMMA SinceAllDirty ==
  ASSUME NEW old, phase' # "idle", AllDirty',
         dirty_paths' = {} => PathsOf(files') = {}
  PROVE  Since(old)'
  BY DEF Since

\* Neither the start of a check nor an edit changes what the project tracks.
LEMMA KeptStart ==
  ASSUME Start \/ Edit, NEW old, Since(old)
  PROVE  Since(old)'
<1>1. CASE Start
  <2>1. phase' # "idle" /\ UNCHANGED <<files, dirty_paths, invalidated_fns, read_fns, declared, stubs>>
    BY <1>1 DEF Start, sources, settings, previous
  <2> QED BY <2>1, SinceStays
<1>2. CASE Edit
  <2>1. UNCHANGED <<phase, files, dirty_paths, invalidated_fns, read_fns, declared, stubs>>
    BY <1>2 DEF Edit, sources, settings, previous
  <2>2. (AllDirty \/ Tracked(old)) => (AllDirty \/ Tracked(old))'
    BY <2>1 DEF AllDirty, Tracked, Clean, Kept
  <2> QED BY <2>1, <2>2 DEF Since
<1> QED BY <1>1, <1>2

\* A removal makes every file dirty.
LEMMA KeptRemove ==
  ASSUME RemoveFile, NEW old
  PROVE  Since(old)'
<1>1. phase' # "idle" /\ AllDirty' /\ (dirty_paths' = {} => PathsOf(files') = {})
  <2>1. phase' = "remove" /\ dirty_paths' = dirty_paths \cup PathsOf(files')
    BY DEF RemoveFile
  <2> QED BY <2>1 DEF AllDirty
<1> QED BY <1>1, SinceAllDirty

\* A change of settings makes every file dirty.
LEMMA KeptSettings ==
  ASSUME SetUserStubs \/ SetLoaded, NEW old, Since(old)
  PROVE  Since(old)'
<1>1. /\ phase' # "idle" /\ UNCHANGED <<files, invalidated_fns, read_fns>>
      /\ \/ UNCHANGED <<dirty_paths, declared, stubs>>
         \/ dirty_paths' = dirty_paths \cup PathsOf(files)
  BY DEF SetUserStubs, SetLoaded, previous
<1>2. CASE UNCHANGED <<dirty_paths, declared, stubs>>
  BY <1>1, <1>2, SinceStays
<1>3. CASE dirty_paths' = dirty_paths \cup PathsOf(files)
  <2>1. AllDirty' /\ (dirty_paths' = {} => PathsOf(files') = {})
    BY <1>1, <1>3 DEF AllDirty
  <2> QED BY <1>1, <2>1, SinceAllDirty
<1> QED BY <1>1, <1>2, <1>3

\* An update keeps the definition of a name that neither the new file nor the
\* one it replaces defines.
LEMMA KeptUpdate ==
  ASSUME SourcesInv, UpdateFile, NEW old, Since(old)
  PROVE  Since(old)'
<1>0. Listing(files) /\ FilesInv /\ CallInv /\ CollectedInv
  BY DEF SourcesInv, FilesInv
<1>1. PICK new : Installs(new)
  BY UpdateEffect
<1> USE DEF Installs
<1>2. phase = "update" /\ UNCHANGED <<workspace, phase, declared, stubs, read_fns>>
  BY DEF UpdateFile, settings, previous
<1>3. new.path \in dirty_paths' /\ dirty_paths \subseteq dirty_paths'
      /\ dirty_paths' \subseteq dirty_paths \cup PathsOf(files')
  BY <1>1
<1>4. AllDirty => AllDirty'
  BY <1>1, <1>3 DEF AllDirty
<1>5. ASSUME ~ AllDirty, ~ AllDirty' PROVE Tracked(old)'
  <2>1. Tracked(old)
    BY <1>5 DEF Since
  <2>2. /\ \A i \in DOMAIN files' : files'[i].content.imports = {}
        /\ dirty_paths' = dirty_paths \cup {new.path}
    BY <1>1, <1>5 DEF AllDirty
  <2>3. Installs(new)
    BY <1>1
  <2>4. \A p \in PathsOf(files') \ dirty_paths' : Clean(old, p)'
    <3> SUFFICES ASSUME NEW p \in PathsOf(files') \ dirty_paths' PROVE Clean(old, p)'
      OBVIOUS
    <3>1. p # new.path /\ p \in PathsOf(files) \ dirty_paths
      BY <2>2, <2>3
    <3>2. Clean(old, p)
      BY <2>1, <3>1 DEF Tracked
    <3> QED BY <1>2, <2>3, <3>1, <3>2 DEF Clean
  <2>5. ASSUME NEW n \in DOMAIN TableOf(files') PROVE Kept(old, n)'
    <3>1. CASE n \in Defined(new.content)
      BY <1>3, <2>3, <3>1 DEF Kept
    <3>2. CASE n \in invalidated_fns'
      BY <3>2 DEF Kept
    <3>3. CASE n \notin Defined(new.content) /\ n \notin invalidated_fns'
      \* what the project held at that path, if anything, is collected
      <4>1. ASSUME NEW i \in DOMAIN files, files[i].path = new.path PROVE n \notin Defs(files, i)
        <5>1. new.path \in DOMAIN collected
          <6>1. SUFFICES ASSUME new.path \notin DOMAIN collected PROVE FALSE
            OBVIOUS
          <6>2. PICK j \in DOMAIN workspace.files : workspace.files[j] = files[i]
            BY <1>0, <1>2, <1>5, <4>1, <6>1 DEF CollectedInv
          <6>3. PICK k \in DOMAIN workspace.files : workspace.files[k] = new
            BY <2>3
          <6>4. j = k
            <7>1. Listing(workspace.files)
              BY <1>0, WorkspaceForms DEF FilesInv
            <7> QED BY <2>3, <4>1, <6>2, <6>3, <7>1 DEF Listing
          <6> QED BY <2>3, <6>2, <6>3, <6>4
        <5>2. collected[new.path] = files[i].content
          BY <1>0, <4>1, <5>1, ListingForms DEF CollectedInv
        <5>3. Defined(collected[new.path]) \subseteq invalidated_fns'
          BY <2>3, <5>1
        <5> QED BY <3>3, <5>2, <5>3 DEF Defs
      <4>2. \A i \in DOMAIN files : n \in Defs(files, i) =>
               files[i].path # new.path /\ i \in DOMAIN files' /\ files'[i] = files[i]
        BY <2>3, <4>1
      <4>3. \A i \in DOMAIN files' : n \in Defs(files', i) =>
               i \in DOMAIN files /\ files[i] = files'[i]
        BY <2>3, <3>3 DEF Defs
      <4>4. n \in DOMAIN TableOf(files) /\ TableOf(files)[n] = TableOf(files')[n]
        BY <1>0, <2>3, <4>2, <4>3, DefinersStay
      <4>5. Kept(old, n) /\ n \notin invalidated_fns
        BY <2>1, <2>3, <3>3, <4>4 DEF Tracked
      <4>6. CASE n \in DOMAIN TableOf(old.files) /\ TableOf(old.files)[n] = TableOf(files)[n]
        BY <4>4, <4>6 DEF Kept
      <4>7. CASE \E p \in dirty_paths \cap PathsOf(files) : n \in Defined(ContentAt(files)[p])
        <5>1. PICK p \in dirty_paths \cap PathsOf(files) : n \in Defined(ContentAt(files)[p])
          BY <4>7
        <5>2. PICK i \in DOMAIN files : files[i].path = p /\ files[i].content = ContentAt(files)[p]
          BY <1>0, <5>1, ListingForms
        <5>3. p # new.path
          BY <4>2, <5>1, <5>2 DEF Defs
        <5>4. p \in dirty_paths' \cap PathsOf(files') /\ n \in Defined(ContentAt(files')[p])
          BY <1>3, <2>3, <5>1, <5>3
        <5> QED BY <5>4 DEF Kept
      <4> QED BY <4>5, <4>6, <4>7 DEF Kept
    <3> QED BY <3>1, <3>2, <3>3
  <2>6. \A p \in PathsOf(files') : ContentAt(files')[p].imports = {}
    BY <2>2, <2>3, ListingForms
  <2>7. declared' = old.declared /\ stubs' = old.stubs /\ PathsOf(old.files) \subseteq PathsOf(files')
    BY <1>2, <2>1, <2>3 DEF Tracked
  <2> QED BY <2>4, <2>5, <2>6, <2>7 DEF Tracked
<1>6. (AllDirty \/ Tracked(old))'
  BY <1>4, <1>5
<1>7. dirty_paths' # {} /\ phase' # "idle"
  BY <1>2, <1>3
<1> QED BY <1>6, <1>7 DEF Since

\* A reordering invalidates every name that several files define, and no other
\* name gets another definition.
LEMMA KeptReorder ==
  ASSUME SourcesInv, ReorderFiles, NEW old, Since(old)
  PROVE  Since(old)'
<1> DEFINE definers(n) == {p \in DOMAIN collected : n \in Defined(collected[p])}
           shadowed == {n \in Names : \E p, q \in definers(n) : p # q}
           winners == UNION {definers(n) : n \in shadowed}
<1>0. FilesInv /\ CollectedInv
  BY DEF SourcesInv
<1>1. /\ phase = "update" /\ phase' = "check"
      /\ Listing(files) /\ Listing(files')
      /\ PathsOf(files') = PathsOf(files) /\ ContentAt(files') = ContentAt(files)
      /\ \A i \in DOMAIN files' : \E j \in DOMAIN files : files[j] = files'[i]
      /\ \A j \in DOMAIN files : \E i \in DOMAIN files' : files[j] = files'[i]
  BY ReorderEffect
<1>2. UNCHANGED <<declared, stubs, read_fns, collected>>
  BY DEF ReorderFiles, settings, previous
<1>3. \/ UNCHANGED <<files, dirty_paths, invalidated_fns>>
      \/ dirty_paths' = dirty_paths \cup winners /\ invalidated_fns' = invalidated_fns \cup shadowed
  BY DEF ReorderFiles
<1>4. CASE UNCHANGED <<files, dirty_paths, invalidated_fns>>
  <2>1. phase' # "idle"
    BY <1>1
  <2> QED BY <1>2, <1>4, <2>1, SinceStays
<1>5. CASE dirty_paths' = dirty_paths \cup winners /\ invalidated_fns' = invalidated_fns \cup shadowed
  <2>1. AllDirty => AllDirty'
    BY <1>1, <1>5 DEF AllDirty
  <2>2. ASSUME Tracked(old) PROVE Tracked(old)'
    <3>1. \A p \in PathsOf(files') \ dirty_paths' : Clean(old, p)'
      <4> SUFFICES ASSUME NEW p \in PathsOf(files') \ dirty_paths' PROVE Clean(old, p)'
        OBVIOUS
      <4>1. Clean(old, p)
        BY <1>1, <1>5, <2>2 DEF Tracked
      <4> QED BY <1>1, <1>2, <4>1 DEF Clean
    <3>2. ASSUME NEW n \in DOMAIN TableOf(files') PROVE Kept(old, n)'
      <4> HIDE DEF winners
      <4>1. CASE n \in shadowed
        BY <1>5, <4>1 DEF Kept
      <4>2. CASE \E i \in DOMAIN files : n \in Defs(files, i) /\ files[i].path \notin DOMAIN collected
        <5>1. PICK i \in DOMAIN files : n \in Defs(files, i) /\ files[i].path \notin DOMAIN collected
          BY <4>2
        <5>2. files[i].path \in PathsOf(files) /\ ContentAt(files)[files[i].path] = files[i].content
          BY <1>1, ListingForms
        <5>3. files[i].path \in dirty_paths'
          BY <1>0, <1>5, <5>1, <5>2 DEF CollectedInv
        <5> QED BY <1>1, <5>1, <5>2, <5>3 DEF Kept, Defs
      <4>3. CASE n \notin shadowed
                 /\ \A i \in DOMAIN files : n \in Defs(files, i) => files[i].path \in DOMAIN collected
        <5>1. \A i \in DOMAIN files : n \in Defs(files, i) =>
                 /\ files[i].path \in definers(n)
          <6> SUFFICES ASSUME NEW i \in DOMAIN files, n \in Defs(files, i)
                       PROVE  files[i].path \in definers(n)
            OBVIOUS
          <6>1. files[i].path \in DOMAIN collected /\ ContentAt(files)[files[i].path] = files[i].content
            BY <1>1, <4>3, ListingForms
          <6>2. collected[files[i].path] = files[i].content
            BY <1>0, <6>1 DEF CollectedInv
          <6> QED BY <6>1, <6>2 DEF Defs
        <5>2. n \in Names
          BY <1>1, MergedForms DEF Table
        <5>3. \A p, q \in definers(n) : p = q
          BY <4>3, <5>2
        <5>4. ASSUME NEW i \in DOMAIN files, NEW j \in DOMAIN files, n \in Defs(files, i), n \in Defs(files, j)
              PROVE  i = j
          <6>1. files[i].path = files[j].path
            BY <5>1, <5>3, <5>4
          <6> QED BY <1>1, <6>1 DEF Listing
        <5>5. \A j \in DOMAIN files' : \E i \in DOMAIN files : files'[j] = files[i]
          BY <1>1
        <5>6. \A i \in DOMAIN files : \E j \in DOMAIN files' : files'[j] = files[i]
          BY <1>1
        <5>7. n \in DOMAIN TableOf(files) /\ TableOf(files)[n] = TableOf(files')[n]
          BY <1>1, <5>4, <5>5, <5>6, OnlyDefiner
        <5>8. Kept(old, n)
          BY <2>2, <5>7 DEF Tracked
        <5> QED BY <1>1, <1>5, <5>7, <5>8 DEF Kept
      <4> QED BY <4>1, <4>2, <4>3
    <3> QED BY <1>1, <1>2, <2>2, <3>1, <3>2 DEF Tracked
  <2>3. dirty_paths' = {} => invalidated_fns' = {} \/ PathsOf(files') = {}
    <3>1. winners = {} => shadowed = {}
      OBVIOUS
    <3> HIDE DEF winners, shadowed
    <3> QED BY <1>1, <1>5, <3>1 DEF Since
  <2> QED BY <1>1, <2>1, <2>2, <2>3 DEF Since
<1> QED BY <1>3, <1>4, <1>5

\* Every call before the check keeps track of what it leaves alone.
LEMMA KeptCalls ==
  ASSUME SourcesInv, KeptInv, Calls
  PROVE  KeptInv'
<1>1. has_prev_emit' = has_prev_emit
  BY DEF Calls, RemoveFile, SetUserStubs, SetLoaded, UpdateFile, ReorderFiles, Start, Edit, previous
<1>2. CASE has_prev_emit
  <2>1. PICK old : LastCheck(old)
    BY <1>2 DEF KeptInv
  <2>2. Stored(old)'
    BY <2>1, StoredStays DEF LastCheck
  <2>3. Since(old)'
    BY <2>1, KeptStart, KeptRemove, KeptSettings, KeptUpdate, KeptReorder DEF LastCheck, Calls
  <2>4. IsWorkspace(old)
    BY <2>1 DEF LastCheck
  <2> QED BY <1>1, <1>2, <2>2, <2>3, <2>4 DEF KeptInv, LastCheck
<1>3. CASE ~ has_prev_emit
  <2>1. UNCHANGED <<prev_returns, prev_modes, dependencies, prev_loaded, discovered, prev_known>>
    BY DEF Calls, RemoveFile, SetUserStubs, SetLoaded, UpdateFile, ReorderFiles, Start, Edit, previous
  <2> QED BY <1>1, <1>3, <2>1 DEF KeptInv
<1> QED BY <1>2, <1>3

-----------------------------------------------------------------------------
(* The check.                                                              *)

\* Where everything is refined, the seeds do not count.
LEMMA SeedsUnused ==
  ASSUME NEW table, Table(table), NEW seeds, NEW attached, NEW stub
  PROVE  /\ Returns(table, Names, seeds, attached, stub) = Returns(table, Names, <<>>, attached, stub)
         /\ Modes(table, Names, seeds) = Modes(table, Names, <<>>)
<1> DEFINE bound == DOMAIN table
           a == Returns(table, Names, seeds, attached, stub)
           b == Returns(table, Names, <<>>, attached, stub)
           A(f, t) == Agrees(table, Names, seeds, attached, stub, f, t)
           B(f, t) == Agrees(table, Names, <<>>, attached, stub, f, t)
<1>1. bound \in SUBSET Names /\ \A f \in bound : Reads(table[f]) \subseteq Names
  BY ReadsAreNames DEF Table
<1>2. /\ a = [f \in bound |-> a[f]]
      /\ \A f \in bound \cap Names : a[f] \in Types /\ \A t \in {"int", "chr"} : a[f] = t <=> A(f, t)
  BY ReturnIs
<1>3. /\ b = [f \in bound |-> b[f]]
      /\ \A f \in bound \cap Names : b[f] \in Types /\ \A t \in {"int", "chr"} : b[f] = t <=> B(f, t)
  BY ReturnIs
<1>4. ASSUME NEW f \in bound, NEW t PROVE A(f, t) <=> B(f, t)
  <2>1. \A g \in bound : Found(table, Names, seeds, attached, stub, g)
                         = Found(table, Names, <<>>, attached, stub, g)
    <3> SUFFICES ASSUME NEW g \in bound
                 PROVE  Found(table, Names, seeds, attached, stub, g)
                         = Found(table, Names, <<>>, attached, stub, g)
      OBVIOUS
    <3>1. (Reads(table[g]) \cap bound) \ Names = {}
      BY <1>1
    <3>2. /\ {seeds[h] : h \in (Reads(table[g]) \cap bound) \ Names} = {}
          /\ {<<>>[h] : h \in (Reads(table[g]) \cap bound) \ Names} = {}
      BY <3>1
    <3> QED BY <3>2 DEF Found
  <2>2. Names \cap bound = bound
    BY <1>1
  <2>3. \A g \in bound : Reach(table, bound, g) \subseteq bound
    <3> HIDE DEF bound
    <3> QED BY <1>1, ReachIsClosed
  <2> QED BY <2>1, <2>2, <2>3 DEF Agrees
<1>5. a = b
  <2> HIDE DEF a, b, A, B, bound
  <2>1. \A f \in bound : a[f] = b[f]
    BY <1>1, <1>2, <1>3, <1>4 DEF Types
  <2> QED BY <1>2, <1>3, <2>1
<1>6. Modes(table, Names, seeds) = Modes(table, Names, <<>>)
  <2>1. \A f \in bound : f \in Names
    BY <1>1
  <2>2. {f \in bound : IF f \in Names THEN table[f].quotes ELSE seeds[f]}
        = {f \in bound : IF f \in Names THEN table[f].quotes ELSE <<>>[f]}
    BY <2>1
  <2> QED BY <2>2 DEF Modes
<1> QED BY <1>5, <1>6

Cold0 == Returns(T0, Names, <<>>, Loaded0 \/ Discovers(T0, Names), stubs)
Exact(table) == [f \in DOMAIN table |-> Reads(table[f]) \cap DOMAIN table]
SeesChange == \/ ~has_prev_emit \/ discovered \/ prev_loaded # Loaded0
              \/ DOMAIN T0 # DOMAIN prev_returns

\* A cold check of a workspace, by its table.
LEMMA ColdForms ==
  ASSUME NEW w
  PROVE  /\ ColdReturns(w) = Returns(TableOf(w.files), Names, <<>>,
                                Loaded(ContentsOf(w.files), w.declared)
                                \/ Discovers(TableOf(w.files), Names), w.stubs)
         /\ ColdModes(w) = Modes(TableOf(w.files), Names, <<>>)
         /\ DOMAIN ColdReturns(w) = DOMAIN TableOf(w.files)
  BY DEF ColdReturns, ColdModes, Returns, TableOf

\* No files define no names.
LEMMA EmptyTable ==
  ASSUME NEW s, Listing(s), PathsOf(s) = {}
  PROVE  DOMAIN TableOf(s) = {}
<1>1. DOMAIN s = {}
  BY DEF PathsOf
<1> QED BY <1>1, MergedForms

\* The scope is closed under what reads it, and the last check's
\* definitions are those outside.
LEMMA ScopeCovers ==
  ASSUME SourcesInv, NEW old, LastCheck(old), ~ SeesChange
  PROVE  /\ Scoped0 \in SUBSET Names
         /\ Untouched(T0, TableOf(old.files), Scoped0)
         /\ DOMAIN T0 \subseteq Scoped0 \/ Tracked(old)
<1> DEFINE TO == TableOf(old.files)
           at == ContentAt(files)
           affected == invalidated_fns \cup UNION {Defined(at[p]) : p \in dirty_paths \cap DOMAIN at}
           edges == [m \in Names |->
                        {f \in DOMAIN dependencies : m \in dependencies[f]}
                        \cup {f \in DOMAIN T0 : m \in T0[f].forwards /\ m \in DOMAIN T0}]
           callers == Closure(affected, edges)
<1>1. /\ Listing(files) /\ Listing(old.files) /\ Since(old) /\ Stored(old)
  BY WorkspaceForms DEF SourcesInv, FilesInv, LastCheck
<1>2. Scoped0 = IF dirty_paths = {} THEN {} ELSE callers
  <2>1. FixpointScope(T0, Loaded0, at)
        = IF dirty_paths = {} THEN {} ELSE RefinementCallers(T0, affected)
    BY DEF FixpointScope, SeesChange
  <2>2. RefinementCallers(T0, affected) = callers
    BY DEF RefinementCallers
  <2> QED BY <2>1, <2>2 DEF Scoped0, T0
<1>3. /\ Table(T0) /\ DOMAIN T0 \in SUBSET Names
      /\ \A n : n \in DOMAIN T0 <=> \E i \in DOMAIN files : n \in Defs(files, i)
  BY <1>1, MergedForms DEF T0, Table
<1>4. DOMAIN TO = DOMAIN T0
  BY <1>1, ColdForms DEF Stored, SeesChange
<1>5. /\ callers \in SUBSET Names
      /\ affected \cap Names \subseteq callers
      /\ \A m \in callers : edges[m] \cap Names \subseteq callers
  <2> HIDE DEF affected, edges
  <2> QED BY ClosureIsLeast
<1>6. ASSUME PathsOf(files) = {} PROVE DOMAIN T0 = {}
  BY <1>1, <1>6, EmptyTable DEF T0
<1>7. CASE AllDirty /\ dirty_paths # {}
  <2>1. \A n \in DOMAIN T0 : n \in affected
    <3> SUFFICES ASSUME NEW n \in DOMAIN T0 PROVE n \in affected
      OBVIOUS
    <3>1. PICK i \in DOMAIN files : n \in Defs(files, i)
      BY <1>3
    <3>2. files[i].path \in DOMAIN at /\ at[files[i].path] = files[i].content
          /\ files[i].path \in PathsOf(files)
      BY <1>1, ListingForms
    <3>3. files[i].path \in dirty_paths \cap DOMAIN at /\ n \in Defined(at[files[i].path])
      BY <1>7, <3>1, <3>2 DEF AllDirty, Defs
    <3> QED BY <3>3
  <2>2. DOMAIN T0 \subseteq callers
    <3> HIDE DEF affected, callers
    <3> QED BY <1>3, <1>5, <2>1
  <2> HIDE DEF callers
  <2> QED BY <1>2, <1>4, <1>5, <1>7, <2>2 DEF Untouched
<1>8. CASE PathsOf(files) = {}
  <2> HIDE DEF callers
  <2> QED BY <1>2, <1>4, <1>5, <1>6, <1>8 DEF Untouched
<1>9. CASE Tracked(old) /\ PathsOf(files) # {}
  <2>1. ASSUME NEW n \in DOMAIN T0, n \notin Scoped0 PROVE T0[n] = TO[n]
    <3>1. Kept(old, n)
      BY <1>9 DEF Tracked, T0
    <3>2. CASE dirty_paths = {}
      BY <1>1, <1>9, <3>1, <3>2 DEF Kept, Since, T0
    <3>3. CASE dirty_paths # {}
      <4>1. n \notin affected
        <5> HIDE DEF affected, callers
        <5> QED BY <1>2, <1>3, <1>5, <2>1, <3>3
      <4>2. DOMAIN at = PathsOf(files)
        BY DEF ContentAt
      <4> QED BY <3>1, <4>1, <4>2 DEF Kept, T0
    <3> QED BY <3>2, <3>3
  <2>2. ASSUME NEW n \in DOMAIN T0, n \notin Scoped0, NEW m \in Scoped0,
               \/ m \in Reads(T0[n]) \cap DOMAIN T0
               \/ m \in T0[n].forwards \cap DOMAIN T0
        PROVE  FALSE
    <3>1. dirty_paths # {} /\ m \in callers /\ n \notin callers /\ n \in Names /\ m \in Names
      <4> HIDE DEF callers
      <4> QED BY <1>2, <1>3, <1>5, <2>2
    <3>2. n \in DOMAIN dependencies /\ dependencies[n] = Reads(T0[n]) \cap DOMAIN T0
      BY <1>1, <1>4, <2>1, <2>2 DEF Stored
    <3>3. n \in edges[m]
      BY <2>2, <3>1, <3>2
    <3> HIDE DEF callers, edges
    <3> QED BY <1>5, <3>1, <3>3
  <2>3. \A n \in DOMAIN T0 \ Scoped0 : /\ Reads(T0[n]) \cap DOMAIN T0 \cap Scoped0 = {}
                                       /\ T0[n].forwards \cap DOMAIN T0 \cap Scoped0 = {}
    BY <2>2
  <2>4. Scoped0 \in SUBSET Names
    <3> HIDE DEF callers
    <3> QED BY <1>2, <1>5
  <2> QED BY <1>4, <1>9, <2>1, <2>3, <2>4 DEF Untouched
<1>10. AllDirty /\ dirty_paths = {} => PathsOf(files) = {}
  BY DEF AllDirty
<1> QED BY <1>1, <1>7, <1>8, <1>9, <1>10 DEF Since

\* Whatever of it is refined, the check ends where a cold one does.
LEMMA CheckIsCold ==
  ASSUME SourcesInv, KeptInv
  PROVE  /\ Scope0 \in SUBSET Names
         /\ Found0 <=> Discovers(T0, Names) /\ ~Loaded0
         /\ Returns0 = Cold0
         /\ Modes0 = Modes(T0, Names, <<>>)
         /\ Dependencies(Scope0, T0) = Exact(T0)
<1>1. Listing(files) /\ Table(T0) /\ DOMAIN T0 \in SUBSET Names
  BY MergedForms DEF SourcesInv, FilesInv, T0, Table
<1>2. CASE Scope0 = Names
  <2>1. Found0 <=> Discovers(T0, Names) /\ ~Loaded0
    BY <1>2 DEF Found0, T0
  <2>2. (Loaded0 \/ Found0) = (Loaded0 \/ Discovers(T0, Names))
    BY <2>1
  <2>3. Returns0 = Cold0
    <3>1. Returns0 = Returns(T0, Names, prev_returns, Loaded0 \/ Found0, stubs)
      BY <1>2 DEF Returns0, T0
    <3>2. Returns0 = Returns(T0, Names, prev_returns, Loaded0 \/ Discovers(T0, Names), stubs)
      BY <2>2, <3>1
    <3> QED BY <1>1, <3>2, SeedsUnused DEF Cold0
  <2>4. Modes0 = Modes(T0, Names, <<>>)
    <3>1. Modes0 = Modes(T0, Names, prev_modes)
      BY <1>2 DEF Modes0, T0
    <3> QED BY <1>1, <3>1, SeedsUnused
  <2>5. Dependencies(Scope0, T0) = Exact(T0)
    <3>1. Names \cap DOMAIN T0 = DOMAIN T0
      BY <1>1
    <3>2. Dependencies(Names, T0) = Restrict([f \in DOMAIN T0 |-> Reads(T0[f]) \cap DOMAIN T0],
                                             DOMAIN T0)
      BY <3>1 DEF Dependencies
    <3> QED BY <1>2, <3>2 DEF Restrict, Exact
  <2> QED BY <1>2, <2>1, <2>3, <2>4, <2>5
<1>3. CASE Scope0 # Names
  <2>1. /\ Scope0 = Scoped0 /\ ~ SeesChange
        /\ Discovers(T0, Scoped0) => Loaded0
    BY <1>3 DEF Scope0, Scoped0, FixpointScope, SeesChange, T0
  <2>2. has_prev_emit /\ ~discovered /\ prev_loaded = Loaded0 /\ DOMAIN T0 = DOMAIN prev_returns
    BY <2>1 DEF SeesChange
  <2>3. PICK old : LastCheck(old)
    BY <2>2 DEF KeptInv
  <2> DEFINE TO == TableOf(old.files)
             loaded0 == Loaded(ContentsOf(old.files), old.declared)
  <2>4. Listing(old.files) /\ Table(TO) /\ Stored(old)
    BY <2>3, WorkspaceForms, MergedForms DEF LastCheck
  <2>5. /\ Scope0 \in SUBSET Names
        /\ Untouched(T0, TO, Scope0)
        /\ DOMAIN T0 \subseteq Scope0 \/ Tracked(old)
    BY <2>1, <2>3, ScopeCovers
  <2>6. loaded0 = Loaded0 /\ (Discovers(TO, Names) => Loaded0)
    <3>1. loaded0 = Loaded0
      BY <2>2, <2>4 DEF Stored
    <3>2. discovered = (Discovers(TO, Names) /\ ~prev_loaded)
      BY <2>4 DEF Stored
    <3>3. ~ (Discovers(TO, Names) /\ ~Loaded0)
      <4> HIDE DEF TO
      <4> QED BY <2>2, <3>2
    <3> QED BY <3>1, <3>3
  <2>7. ASSUME Discovers(T0, Names) PROVE Loaded0
    <3>1. PICK f \in DOMAIN T0 : T0[f].attaches
      BY <2>7 DEF Discovers
    <3>2. CASE f \in Scope0
      BY <2>1, <3>1, <3>2 DEF Discovers
    <3>3. CASE f \notin Scope0
      <4>1. f \in DOMAIN TO /\ TO[f].attaches
        BY <2>5, <3>1, <3>3 DEF Untouched
      <4>2. f \in Names
        BY <1>1, <3>1
      <4> QED BY <2>6, <4>1, <4>2 DEF Discovers
    <3> QED BY <3>2, <3>3
  <2>8. (Found0 <=> FALSE) /\ (Discovers(T0, Names) /\ ~Loaded0 <=> FALSE)
    BY <2>1, <2>7 DEF Found0, T0
  <2>9. (Loaded0 \/ Found0) = Loaded0 /\ (Loaded0 \/ Discovers(T0, Names)) = Loaded0
        /\ (loaded0 \/ Discovers(TO, Names)) = Loaded0
    <3>1. Loaded0 \in BOOLEAN
      BY DEF Loaded0, Loaded, SourcesInv, FilesInv
    <3> HIDE DEF TO, loaded0
    <3> QED BY <2>6, <2>7, <2>8, <3>1
  <2>10. Returns0 = Cold0
    <3>1. Returns0 = Returns(T0, Scope0, prev_returns, Loaded0, stubs)
      BY <2>9 DEF Returns0, T0
    <3>2. Cold0 = Returns(T0, Names, <<>>, Loaded0, stubs)
      BY <2>9 DEF Cold0
    <3>3. prev_returns = Returns(TO, Names, <<>>, Loaded0, old.stubs)
      <4>1. prev_returns = Returns(TO, Names, <<>>, loaded0 \/ Discovers(TO, Names), old.stubs)
        BY <2>4, ColdForms DEF Stored
      <4> HIDE DEF TO, loaded0
      <4> QED BY <2>9, <4>1
    <3>4. DOMAIN T0 \subseteq Scope0 \/ (Loaded0 = Loaded0 /\ stubs = old.stubs)
      BY <2>5 DEF Tracked
    <3> HIDE DEF TO
    <3> QED BY <1>1, <2>4, <2>5, <3>1, <3>2, <3>3, <3>4, ReturnsOfScope
  <2>11. Modes0 = Modes(T0, Names, <<>>)
    <3>1. Modes0 = Modes(T0, Scope0, prev_modes)
      BY DEF Modes0, T0
    <3>2. prev_modes = Modes(TO, Names, <<>>)
      BY <2>4, ColdForms DEF Stored
    <3> HIDE DEF TO
    <3> QED BY <1>1, <2>4, <2>5, <3>1, <3>2, ModesOfScope
  <2>12. Dependencies(Scope0, T0) = Exact(T0)
    <3> DEFINE read == [f \in Scope0 \cap DOMAIN T0 |-> Reads(T0[f]) \cap DOMAIN T0]
               all == Updated(read, dependencies)
    <3>1. Dependencies(Scope0, T0) = Restrict(all, DOMAIN all \cap DOMAIN T0)
      BY <1>3 DEF Dependencies
    <3>2. DOMAIN all = (Scope0 \cap DOMAIN T0) \cup DOMAIN dependencies
      BY DEF Updated
    <3>3. DOMAIN dependencies = DOMAIN T0
      BY <2>4, <2>5 DEF Stored, Untouched
    <3>4. DOMAIN all \cap DOMAIN T0 = DOMAIN T0
      BY <3>2, <3>3
    <3>5. ASSUME NEW f \in DOMAIN T0 PROVE all[f] = Reads(T0[f]) \cap DOMAIN T0
      <4>1. CASE f \in Scope0
        BY <4>1 DEF Updated
      <4>2. CASE f \notin Scope0
        <5>1. all[f] = dependencies[f]
          BY <3>3, <4>2 DEF Updated
        <5>2. T0[f] = TO[f] /\ DOMAIN TO = DOMAIN T0
          BY <2>5, <4>2 DEF Untouched
        <5>3. dependencies[f] = Reads(TO[f]) \cap DOMAIN TO
          BY <2>4, <5>2 DEF Stored
        <5> HIDE DEF all
        <5> QED BY <5>1, <5>2, <5>3
      <4> QED BY <4>1, <4>2
    <3> HIDE DEF all
    <3> QED BY <3>1, <3>4, <3>5 DEF Restrict, Exact
  <2> QED BY <2>5, <2>8, <2>10, <2>11, <2>12
<1> QED BY <1>2, <1>3

Changed0 == TransitiveCallers(ContentAt(files), Calls0,
                              ChangedFns(Returns0, Modes0) \cup invalidated_fns)
EmitsAll == \/ ~has_prev_emit \/ prev_loaded # Loaded0
            \/ prev_known # Known(files) \/ DOMAIN T0 # DOMAIN prev_returns

\* The files that a check emits.
LEMMA EmitForms ==
  /\ Emit0 \subseteq PathsOf(files)
  /\ EmitsAll => Emit0 = PathsOf(files)
  /\ ~EmitsAll => Emit0 = (dirty_paths \cap PathsOf(files))
                          \cup {p \in PathsOf(files) : DependsOn(p, Changed0, Calls0)}
<1>1. DOMAIN Returns0 = DOMAIN T0
  BY DEF Returns0, Returns, T0
<1> QED BY <1>1 DEF Emit0, MustEmit, EmitsAll, Changed0

\* The types of what the fixpoint settles on
LEMMA ColdTypes ==
  ASSUME NEW table, Table(table), NEW attached, NEW stub
  PROVE  LET ret == Returns(table, Names, <<>>, attached, stub)
             modes == Modes(table, Names, <<>>)
         IN  /\ ret = [f \in DOMAIN table |-> ret[f]] /\ modes = [f \in DOMAIN table |-> modes[f]]
             /\ \A f \in DOMAIN table : ret[f] \in Types /\ modes[f] \in BOOLEAN
<1> DEFINE ret == Returns(table, Names, <<>>, attached, stub)
           modes == Modes(table, Names, <<>>)
<1>1. \A f \in DOMAIN table : f \in Names
  BY DEF Table
<1>2. ret = [f \in DOMAIN table |-> ret[f]] /\ \A f \in DOMAIN table \cap Names : ret[f] \in Types
  BY ReturnIs
<1>3. modes = [f \in DOMAIN table |-> modes[f]] /\ \A f \in DOMAIN table : modes[f] \in BOOLEAN
  BY ModeTypes
<1> HIDE DEF ret, modes
<1>4. \A f \in DOMAIN table : ret[f] \in Types /\ modes[f] \in BOOLEAN
  BY <1>1, <1>2, <1>3
<1> QED BY <1>2, <1>3, <1>4 DEF ret, modes

ColdSees(p) == [n \in Readers(ContentAt(files)[p]) \cap DOMAIN T0 |->
                    <<Cold0[n], Modes(T0, Names, <<>>)[n]>>]

ColdEmission(s, loaded, rets, modes, p) ==
    Emission(ContentAt(s)[p], ContentsOf(s), TableOf(s), rets, modes, loaded, Known(s),
             ContentAt(s))

\* What a cold check shows, file by file.
LEMMA ColdDiagnosticsForms ==
  ASSUME NEW w
  PROVE  /\ DOMAIN ColdDiagnostics(w) = PathsOf(w.files)
         /\ \A p \in PathsOf(w.files) :
              ColdDiagnostics(w)[p] =
                ColdEmission(w.files, Loaded(ContentsOf(w.files), w.declared),
                             ColdReturns(w), ColdModes(w), p)
         /\ ColdDiagnostics(w) = [p \in PathsOf(w.files) |->
                ColdEmission(w.files, Loaded(ContentsOf(w.files), w.declared),
                             ColdReturns(w), ColdModes(w), p)]
  BY DEF ColdDiagnostics, ColdEmission, TableOf

\* What an emission records beside the defaults, of the listing s
SeesOf(s, rets, modes, p) ==
    [n \in Readers(ContentAt(s)[p]) \cap DOMAIN TableOf(s) |-> <<rets[n], modes[n]>>]

ImportsOf(s, p) ==
    [q \in ContentAt(s)[p].imports \cap DOMAIN ContentAt(s) |-> ContentAt(s)[q]]

Recorded(c, sees, defaults, loaded, known, imports) ==
    [content |-> c, sees |-> sees, defaults |-> defaults, loaded |-> loaded,
     known |-> known, imports |-> imports]

\* The defaults are one of the things that an emission records.
LEMMA RecordedForms ==
  ASSUME NEW c, NEW sees, NEW defaults, NEW loaded, NEW known, NEW imports, NEW d
  PROVE  LET e == Recorded(c, sees, defaults, loaded, known, imports)
         IN  /\ ButDefaults(e, e) = e
             /\ ButDefaults(e, d).content = e.content
             /\ ButDefaults(e, d) = Recorded(c, sees, d.defaults, loaded, known, imports)
  BY DEF Recorded, ButDefaults

LEMMA EmissionForms ==
  ASSUME NEW s, NEW loaded, NEW rets, NEW modes, NEW p
  PROVE  ColdEmission(s, loaded, rets, modes, p)
         = Recorded(ContentAt(s)[p], SeesOf(s, rets, modes, p),
                    DefaultsSeen(ContentsOf(s), ContentAt(s)[p]), loaded,
                    ContentAt(s)[p].needs \cap Known(s), ImportsOf(s, p))
  BY DEF ColdEmission, Emission, Recorded, SeesOf, ImportsOf

\* A file that is not emitted would be what it was, but for the defaults.
LEMMA OthersStay ==
  ASSUME SourcesInv, KeptInv, phase = "check", NEW p \in PathsOf(files) \ Emit0
  PROVE  /\ p \in DOMAIN read_fns /\ read_fns[p] = Observed(p, T0)
         /\ p \in DOMAIN diagnostics
         /\ diagnostics[p] =
               ButDefaults(ColdEmission(files, Loaded0, Cold0, Modes(T0, Names, <<>>), p),
                           diagnostics[p])
<1>1. ~ EmitsAll /\ p \notin dirty_paths /\ ~ DependsOn(p, Changed0, Calls0)
  BY EmitForms
<1>2. has_prev_emit /\ prev_loaded = Loaded0 /\ prev_known = Known(files)
      /\ DOMAIN T0 = DOMAIN prev_returns
  BY <1>1 DEF EmitsAll
<1>3. PICK old : LastCheck(old)
  BY <1>2 DEF KeptInv
<1> DEFINE TO == TableOf(old.files)
           at == ContentAt(files)
           ato == ContentAt(old.files)
           cm == Modes(T0, Names, <<>>)
<1>4. ~ AllDirty /\ Tracked(old) /\ Stored(old) /\ Listing(files) /\ Listing(old.files)
  BY <1>1, <1>3, WorkspaceForms DEF LastCheck, Since, AllDirty, SourcesInv, FilesInv
<1>5. Clean(old, p)
  BY <1>1, <1>4 DEF Tracked
<1>6. DOMAIN TO = DOMAIN T0
  BY <1>2, <1>4, ColdForms DEF Stored
<1>7. p \in DOMAIN read_fns /\ read_fns[p] = Readers(at[p]) \cap DOMAIN T0 /\ at[p] = ato[p]
      /\ p \in PathsOf(old.files)
  BY <1>5, <1>6 DEF Clean
<1>8. Table(T0) /\ DOMAIN T0 \in SUBSET Names
  BY <1>4, MergedForms DEF T0, Table
<1>9. Returns0 = Cold0 /\ Modes0 = cm
  BY CheckIsCold
<1>10. DOMAIN Cold0 = DOMAIN T0
  BY DEF Cold0, Returns
\* No function it sees has changed.
<1>11. ASSUME NEW n \in Readers(at[p]) \cap DOMAIN T0
       PROVE  Cold0[n] = prev_returns[n] /\ cm[n] = prev_modes[n]
  <2>1. n \notin ChangedFns(Returns0, Modes0)
    <3>1. n \notin Changed0
      BY <1>1, <1>7 DEF DependsOn
    <3>2. (ChangedFns(Returns0, Modes0) \cup invalidated_fns) \cap Names \subseteq Changed0
      BY ClosureIsLeast DEF Changed0, TransitiveCallers
    <3> QED BY <1>8, <3>1, <3>2
  <2> HIDE DEF cm
  <2> QED BY <1>2, <1>9, <1>10, <2>1 DEF ChangedFns
<1>12. /\ p \in DOMAIN diagnostics
       /\ diagnostics[p] = ButDefaults(ColdEmission(old.files, Loaded0, prev_returns, prev_modes, p),
                                       diagnostics[p])
  BY <1>2, <1>4, <1>7, ColdDiagnosticsForms DEF Stored, ShowsButDefaults
<1>13. [n \in Readers(at[p]) \cap DOMAIN T0 |-> <<Cold0[n], cm[n]>>]
       = [n \in Readers(ato[p]) \cap DOMAIN TO |-> <<prev_returns[n], prev_modes[n]>>]
  <2>1. Readers(at[p]) \cap DOMAIN T0 = Readers(ato[p]) \cap DOMAIN TO
    BY <1>6, <1>7
  <2> HIDE DEF cm, at, ato, TO
  <2> QED BY <1>11, <2>1
<1>14. [q \in at[p].imports \cap DOMAIN at |-> at[q]]
       = [q \in ato[p].imports \cap DOMAIN ato |-> ato[q]]
  <2>1. CASE at[p].imports = {}
    BY <1>7, <2>1
  <2>2. CASE at[p].imports # {}
    <3>1. at = ato
      BY <1>4, <2>2 DEF Tracked
    <3> QED BY <3>1
  <2> QED BY <2>1, <2>2
<1>15. Known(files) = Known(old.files)
  BY <1>2, <1>4 DEF Stored
<1>16. ButDefaults(ColdEmission(files, Loaded0, Cold0, cm, p), diagnostics[p])
       = ButDefaults(ColdEmission(old.files, Loaded0, prev_returns, prev_modes, p), diagnostics[p])
  <2>1. SeesOf(files, Cold0, cm, p) = SeesOf(old.files, prev_returns, prev_modes, p)
    <3> HIDE DEF cm
    <3> QED BY <1>13 DEF SeesOf, T0
  <2>2. ImportsOf(files, p) = ImportsOf(old.files, p)
    BY <1>14 DEF ImportsOf
  <2>3. at[p].needs \cap Known(files) = ato[p].needs \cap Known(old.files)
    BY <1>7, <1>15
  <2> DEFINE d == diagnostics[p]
             new == ColdEmission(files, Loaded0, Cold0, cm, p)
             was == ColdEmission(old.files, Loaded0, prev_returns, prev_modes, p)
             defaults == DefaultsSeen(ContentsOf(files), at[p])
             before == DefaultsSeen(ContentsOf(old.files), ato[p])
  <2> HIDE DEF cm, d
  <2>4. new = Recorded(at[p], SeesOf(files, Cold0, cm, p), defaults, Loaded0,
                       at[p].needs \cap Known(files), ImportsOf(files, p))
    BY EmissionForms
  <2>5. was = Recorded(ato[p], SeesOf(old.files, prev_returns, prev_modes, p), before, Loaded0,
                       ato[p].needs \cap Known(old.files), ImportsOf(old.files, p))
    BY EmissionForms
  <2> HIDE DEF new, was, at, ato, defaults, before
  <2>6. was = Recorded(at[p], SeesOf(files, Cold0, cm, p), before, Loaded0,
                       at[p].needs \cap Known(files), ImportsOf(files, p))
    BY <1>7, <2>1, <2>2, <2>3, <2>5
  <2>7. ButDefaults(new, d) = ButDefaults(was, d)
    BY <2>4, <2>6, RecordedForms
  <2> QED BY <2>7 DEF new, was, d
<1>17. Observed(p, T0) = Readers(at[p]) \cap DOMAIN T0
  BY DEF Observed
<1> QED BY <1>7, <1>12, <1>16, <1>17

\* What a check leaves, when it is done.
LEMMA CheckLeaves ==
  ASSUME SourcesInv, KeptInv, CheckIncremental
  PROVE  /\ SourcesInv' /\ KeptInv'
         /\ has_prev_emit' = TRUE
         /\ LastCheck(workspace)'
         /\ \A p \in PathsOf(workspace.files) :
               LET cold == ColdDiagnostics(workspace)[p]
               IN  \/ diagnostics'[p] = cold
                   \/ /\ p \in DOMAIN diagnostics /\ cold.content = diagnostics[p].content
                      /\ diagnostics'[p] = ButDefaults(cold, diagnostics[p])
         /\ diagnostics' = [p \in PathsOf(workspace.files) |-> diagnostics'[p]]
         /\ prev_returns' = ColdReturns(workspace) /\ prev_modes' = ColdModes(workspace)
<1> DEFINE cm == Modes(T0, Names, <<>>)
<1>1. Outcome
  BY CheckEffect
<1> USE DEF Outcome
<1>2. /\ files = workspace.files /\ stubs = workspace.stubs /\ declared = workspace.declared
      /\ IsWorkspace(workspace) /\ Listing(files) /\ FilesInv /\ CollectedInv
  BY <1>1 DEF SourcesInv, FilesInv, CallInv
<1>3. /\ Found0 <=> Discovers(T0, Names) /\ ~Loaded0
      /\ Returns0 = Cold0 /\ Modes0 = cm /\ Dependencies(Scope0, T0) = Exact(T0)
  BY CheckIsCold
<1>4. /\ ColdReturns(workspace) = Cold0 /\ ColdModes(workspace) = cm
      /\ Loaded(ContentsOf(workspace.files), workspace.declared) = Loaded0
      /\ T0 = TableOf(workspace.files)
  BY <1>2, ColdForms DEF Cold0, T0, Loaded0
<1>5. Emit0 \subseteq PathsOf(files) /\ PathsOf(files) \subseteq Paths
      /\ DOMAIN ContentAt(files) = PathsOf(files)
  BY <1>2, EmitForms, ListingForms
<1>6. /\ \A p \in PathsOf(workspace.files) :
            LET cold == ColdDiagnostics(workspace)[p]
            IN  /\ \/ diagnostics'[p] = cold
                   \/ /\ p \in DOMAIN diagnostics /\ cold.content = diagnostics[p].content
                      /\ diagnostics'[p] = ButDefaults(cold, diagnostics[p])
                /\ diagnostics'[p] = ButDefaults(cold, diagnostics'[p])
      /\ DOMAIN diagnostics' = PathsOf(workspace.files)
      /\ diagnostics' = [p \in PathsOf(workspace.files) |-> diagnostics'[p]]
  <2>1. ASSUME NEW p \in PathsOf(files), NEW cold, cold = ColdEmission(files, Loaded0, Cold0, cm, p)
        PROVE  /\ \/ diagnostics'[p] = cold
                  \/ /\ p \in DOMAIN diagnostics /\ cold.content = diagnostics[p].content
                     /\ diagnostics'[p] = ButDefaults(cold, diagnostics[p])
               /\ diagnostics'[p] = ButDefaults(cold, diagnostics'[p])
    <3> DEFINE sees == SeesOf(files, Cold0, cm, p)
               defaults == DefaultsSeen(ContentsOf(files), ContentAt(files)[p])
               needed == ContentAt(files)[p].needs \cap Known(files)
               imports == ImportsOf(files, p)
    <3>1. cold = Recorded(ContentAt(files)[p], sees, defaults, Loaded0, needed, imports)
      BY <2>1, EmissionForms
    <3> HIDE DEF sees, defaults, needed, imports
    <3>2. /\ ButDefaults(cold, cold) = cold
          /\ \A d : ButDefaults(cold, d).content = cold.content
      BY <3>1, RecordedForms
    <3>3. CASE p \in Emit0
      <4>1. diagnostics'[p] = Emission(ContentAt(files)[p], ContentsOf(files), T0, Returns0,
                                       Modes0, Loaded0, Known(files), ContentAt(files))
        BY <1>1, <3>3
      <4>2. diagnostics'[p] = cold
        BY <1>3, <2>1, <4>1 DEF ColdEmission, T0
      <4>3. ButDefaults(cold, cold) = cold
        BY <3>2
      <4> QED BY <4>2, <4>3
    <3>4. CASE p \notin Emit0
      <4>1. diagnostics'[p] = diagnostics[p]
        BY <1>1, <3>4
      <4>2. p \in DOMAIN diagnostics /\ diagnostics[p] = ButDefaults(cold, diagnostics[p])
        BY <1>1, <2>1, <3>4, OthersStay
      <4>3. ButDefaults(cold, diagnostics[p]).content = cold.content
        BY <3>2
      <4> QED BY <4>1, <4>2, <4>3
    <3> QED BY <3>3, <3>4
  <2>2. DOMAIN diagnostics' = PathsOf(files) /\ diagnostics' = [p \in PathsOf(files) |-> diagnostics'[p]]
    BY <1>1
  <2>3. \A p \in PathsOf(files) :
           ColdDiagnostics(workspace)[p] = ColdEmission(files, Loaded0, Cold0, cm, p)
    BY <1>2, <1>4, ColdDiagnosticsForms
  <2> HIDE DEF cm
  <2> QED BY <1>2, <2>1, <2>2, <2>3
<1>7. Stored(workspace)'
  <2>1. UNCHANGED workspace
    BY <1>1
  <2>2. /\ prev_loaded' = Loaded(ContentsOf(workspace.files), workspace.declared)
        /\ prev_returns' = ColdReturns(workspace) /\ prev_modes' = ColdModes(workspace)
        /\ prev_known' = Known(workspace.files)
        /\ dependencies' = [f \in DOMAIN TableOf(workspace.files) |->
                               Reads(TableOf(workspace.files)[f]) \cap DOMAIN TableOf(workspace.files)]
    BY <1>1, <1>2, <1>3, <1>4 DEF Exact
  <2>3. discovered' = (Discovers(TableOf(workspace.files), Names) /\ ~prev_loaded')
    <3>1. discovered' = Found0 /\ Found0 \in BOOLEAN
      BY <1>1 DEF Found0
    <3>2. Found0 = (Discovers(T0, Names) /\ ~Loaded0)
      BY <1>3, <3>1
    <3> QED BY <1>1, <1>4, <3>1, <3>2
  <2>4. ShowsButDefaults(workspace)'
    BY <1>6, <2>1 DEF ShowsButDefaults
  <2> QED BY <2>1, <2>2, <2>3, <2>4 DEF Stored
<1>8. \A p \in PathsOf(files) : p \in DOMAIN read_fns' /\ read_fns'[p] = Observed(p, T0)
  <2> SUFFICES ASSUME NEW p \in PathsOf(files)
               PROVE  p \in DOMAIN read_fns' /\ read_fns'[p] = Observed(p, T0)
    OBVIOUS
  <2>1. CASE p \in Emit0
    BY <1>1, <2>1 DEF Updated
  <2>2. CASE p \notin Emit0
    <3>1. p \in DOMAIN read_fns /\ read_fns[p] = Observed(p, T0)
      BY <1>1, <2>2, OthersStay
    <3> QED BY <1>1, <2>2, <3>1 DEF Updated
  <2> QED BY <2>1, <2>2
<1>9. Since(workspace)'
  <2>1. UNCHANGED <<workspace, files, declared, stubs>>
    BY <1>1 DEF settings
  <2>2. \A p \in PathsOf(files) : Clean(workspace, p)'
    BY <1>2, <1>4, <1>8, <2>1 DEF Clean, Observed
  <2>3. \A n \in DOMAIN TableOf(files) : Kept(workspace, n)'
    BY <1>2, <2>1 DEF Kept
  <2>4. Tracked(workspace)'
    BY <1>2, <2>1, <2>2, <2>3 DEF Tracked
  <2> QED BY <1>1, <1>2, <2>1, <2>4 DEF Since
<1>10. LastCheck(workspace)'
  BY <1>1, <1>2, <1>7, <1>9 DEF LastCheck
<1>11. KeptInv'
  BY <1>1, <1>10 DEF KeptInv
<1>12. SourcesInv'
  <2>1. FilesInv'
    <3>1. DOMAIN called_fns' \subseteq Paths
      BY <1>1, <1>2, <1>5 DEF Calls0, Updated, FilesInv
    <3>2. DOMAIN read_fns' \subseteq Paths
      BY <1>1, <1>2, <1>5 DEF Updated, FilesInv
    <3> QED BY <1>1, <1>2, <1>5, <3>1, <3>2 DEF FilesInv, settings
  <2>2. CallInv'
    BY <1>1 DEF CallInv
  <2>3. CollectedInv'
    <3>1. \A i \in DOMAIN files : files[i].path \in PathsOf(files)
      BY DEF PathsOf
    <3> QED BY <1>1, <1>5, <3>1 DEF CollectedInv
  <2> QED BY <2>1, <2>2, <2>3 DEF SourcesInv
<1> QED BY <1>1, <1>3, <1>4, <1>6, <1>10, <1>11, <1>12

\* A check for which nothing changed finds what the last one found.
LEMMA IdleEmitsNothing ==
  ASSUME SourcesInv, KeptInv, phase = "check", has_prev_emit, dirty_paths = {}, invalidated_fns = {}
  PROVE  Emit0 = {}
<1>1. PICK old : LastCheck(old)
  BY DEF KeptInv
<1>2. Stored(old) /\ Since(old) /\ Listing(files) /\ Listing(old.files)
  BY <1>1, WorkspaceForms DEF LastCheck, SourcesInv, FilesInv
<1> DEFINE TO == TableOf(old.files)
           cm == Modes(T0, Names, <<>>)
<1>3. CASE PathsOf(files) = {}
  BY <1>3, EmitForms
<1>4. CASE PathsOf(files) # {}
  <2>1. Tracked(old)
    BY <1>2, <1>4 DEF Since, AllDirty
  <2>2. /\ PathsOf(old.files) = PathsOf(files)
        /\ \A p \in PathsOf(files) : ContentAt(files)[p] = ContentAt(old.files)[p]
    BY <2>1 DEF Tracked, Clean
  <2>3. /\ \A i \in DOMAIN files : \E j \in DOMAIN old.files : files[i].content = old.files[j].content
        /\ \A j \in DOMAIN old.files : \E i \in DOMAIN files : files[i].content = old.files[j].content
    BY <1>2, <2>2, ListingForms
  <2>4. Known(files) = Known(old.files)
    <3>1. \A x : x \in Known(files) <=> \E i \in DOMAIN files : x \in files[i].content.binds
      BY DEF Known
    <3>2. \A x : x \in Known(old.files) <=> \E i \in DOMAIN old.files : x \in old.files[i].content.binds
      BY DEF Known
    <3>3. ASSUME NEW x, x \in Known(files) PROVE x \in Known(old.files)
      <4>1. PICK i \in DOMAIN files : x \in files[i].content.binds
        BY <3>1, <3>3
      <4>2. PICK j \in DOMAIN old.files : files[i].content = old.files[j].content
        BY <2>3
      <4>3. x \in old.files[j].content.binds
        BY <4>1, <4>2
      <4> QED BY <3>2, <4>3
    <3>4. ASSUME NEW x, x \in Known(old.files) PROVE x \in Known(files)
      <4>1. PICK j \in DOMAIN old.files : x \in old.files[j].content.binds
        BY <3>2, <3>4
      <4>2. PICK i \in DOMAIN files : files[i].content = old.files[j].content
        BY <2>3
      <4>3. x \in files[i].content.binds
        BY <4>1, <4>2
      <4> QED BY <3>1, <4>3
    <3> QED BY <3>3, <3>4
  <2>5. Loaded(ContentsOf(old.files), old.declared) = Loaded0
    <3>1. (\E i \in DOMAIN files : files[i].content.loads)
          <=> (\E j \in DOMAIN old.files : old.files[j].content.loads)
      BY <2>3
    <3>2. declared = old.declared
      BY <2>1 DEF Tracked
    <3>3. Loaded0 <=> declared \/ \E i \in DOMAIN files : files[i].content.loads
      BY DEF Loaded0, Loaded, ContentsOf
    <3>4. Loaded(ContentsOf(old.files), old.declared)
          <=> old.declared \/ \E j \in DOMAIN old.files : old.files[j].content.loads
      BY DEF Loaded, ContentsOf
    <3>5. Loaded0 \in BOOLEAN /\ Loaded(ContentsOf(old.files), old.declared) \in BOOLEAN
      BY <1>1, WorkspaceForms DEF Loaded0, Loaded, SourcesInv, FilesInv, LastCheck
    <3> QED BY <3>1, <3>2, <3>3, <3>4, <3>5
  <2>6. T0 = TO
    <3>1. \A n \in DOMAIN T0 : n \in DOMAIN TO /\ TO[n] = T0[n]
      BY <2>1 DEF Tracked, Kept, T0
    <3>2. \A n \in DOMAIN TO : n \in DOMAIN T0
      <4> SUFFICES ASSUME NEW n \in DOMAIN TO PROVE n \in DOMAIN T0
        OBVIOUS
      <4>1. PICK j \in DOMAIN old.files : n \in Defs(old.files, j)
        BY <1>2, MergedForms
      <4>2. PICK i \in DOMAIN files : files[i].content = old.files[j].content
        BY <2>3
      <4>3. n \in Defs(files, i)
        BY <4>1, <4>2 DEF Defs
      <4> QED BY <1>2, <4>3, MergedForms DEF T0
    <3>3. T0 = [n \in DOMAIN T0 |-> T0[n]] /\ TO = [n \in DOMAIN TO |-> TO[n]]
      BY <1>2, MergedForms DEF T0
    <3> HIDE DEF TO
    <3> QED BY <3>1, <3>2, <3>3
  <2>7. prev_returns = Cold0 /\ prev_modes = cm
    <3>1. stubs = old.stubs
      BY <2>1 DEF Tracked
    <3> QED BY <1>2, <2>5, <2>6, <3>1, ColdForms DEF Stored, Cold0
  <2>8. Returns0 = Cold0 /\ Modes0 = cm
    BY CheckIsCold
  <2>9. DOMAIN Cold0 = DOMAIN T0
    BY DEF Cold0, Returns
  <2>10. ~ EmitsAll
    BY <1>2, <2>4, <2>5, <2>7, <2>9 DEF EmitsAll, Stored
  <2>11. ChangedFns(Returns0, Modes0) = {}
    <3> HIDE DEF cm
    <3> QED BY <2>7, <2>8 DEF ChangedFns
  <2>12. Changed0 = {}
    <3> DEFINE seed == ChangedFns(Returns0, Modes0) \cup invalidated_fns
               edges == [m \in Names |-> UNION {Defined(ContentAt(files)[p]) :
                           p \in {q \in DOMAIN ContentAt(files) : DependsOn(q, {m}, Calls0)}}]
    <3>1. seed = {}
      BY <2>11
    <3>2. Changed0 = Closure(seed, edges)
      BY DEF Changed0, TransitiveCallers
    <3> HIDE DEF seed, edges
    <3>3. \A s \in SUBSET Names :
             (seed \subseteq s /\ \A m \in s : edges[m] \subseteq s) => Changed0 \subseteq s
      BY <3>2, ClosureIsLeast
    <3> QED BY <3>1, <3>3, {} \in SUBSET Names
  <2>13. \A p : ~ DependsOn(p, Changed0, Calls0)
    BY <2>12 DEF DependsOn
  <2> QED BY <2>10, <2>13, EmitForms
<1> QED BY <1>3, <1>4

ProjectInv == SourcesInv /\ KeptInv

\* The invariant holds of the new project,
LEMMA ProjectInit ==
  ASSUME Init PROVE ProjectInv
  BY SourcesInit DEF Init, ProjectInv, KeptInv

\* through steps that change nothing,
LEMMA ProjectStutters ==
  ASSUME ProjectInv, UNCHANGED vars PROVE ProjectInv'
<1>1. SourcesInv'
  BY DEF ProjectInv, SourcesInv, FilesInv, CallInv, CollectedInv, AllDirty, vars, sources,
         settings, previous
<1>2. ASSUME NEW old PROVE LastCheck(old) => LastCheck(old)'
  <2>1. Stored(old) => Stored(old)'
    BY DEF Stored, ShowsButDefaults, vars, previous
  <2>2. Since(old) => Since(old)'
    BY DEF Since, AllDirty, Tracked, Clean, Kept, vars, sources, settings, previous
  <2> QED BY <2>1, <2>2 DEF LastCheck
<1>3. KeptInv'
  <2>1. UNCHANGED <<has_prev_emit, prev_returns, prev_modes, dependencies, prev_loaded,
                    discovered, prev_known>>
    BY DEF vars, previous
  <2> QED BY <1>2, <2>1 DEF ProjectInv, KeptInv
<1> QED BY <1>1, <1>3 DEF ProjectInv

\* and through every call, edit and check.
LEMMA ProjectStep ==
  ASSUME ProjectInv, [Next]_vars PROVE ProjectInv'
<1>1. CASE Calls
  <2>1. KeptInv'
    BY <1>1, KeptCalls DEF ProjectInv
  <2>2. SourcesInv'
    BY <1>1, SourcesEdit, SourcesStart, SourcesRemove, SourcesSetUserStubs, SourcesSetLoaded,
       SourcesUpdate, SourcesReorder DEF ProjectInv, Calls
  <2> QED BY <2>1, <2>2 DEF ProjectInv
<1>2. CASE CheckIncremental
  BY <1>2, CheckLeaves DEF ProjectInv
<1>3. CASE UNCHANGED vars
  BY <1>3, ProjectStutters
<1> QED BY <1>1, <1>2, <1>3 DEF Next, Calls

\* What the project holds, and what the last check left of it, is known at
\* every step.
THEOREM ProjectInvariant == Spec => []ProjectInv
  BY ProjectInit, ProjectStep, PTL DEF Spec

\* The invariant types every variable.
LEMMA TypesFollow ==
  ASSUME ProjectInv PROVE TypeOK
<1>1. SourcesInv /\ FilesInv /\ CollectedInv /\ KeptInv /\ Listing(files)
  BY DEF ProjectInv, SourcesInv, FilesInv
<1>2. \A i \in DOMAIN files : files[i].path \in Paths /\ IsContent(files[i].content)
  BY <1>1, ListingForms
<1>3. /\ prev_loaded \in BOOLEAN /\ discovered \in BOOLEAN
      /\ DOMAIN prev_modes = DOMAIN prev_returns
      /\ \A f \in DOMAIN prev_returns : prev_returns[f] \in Types /\ prev_modes[f] \in BOOLEAN
      /\ prev_known \subseteq Vars
      /\ DOMAIN dependencies = DOMAIN prev_returns
  <2>1. CASE ~ has_prev_emit
    <3>1. prev_returns = <<>> /\ prev_modes = <<>> /\ dependencies = <<>>
          /\ prev_loaded = FALSE /\ discovered = FALSE /\ prev_known = {}
      BY <1>1, <2>1 DEF KeptInv
    <3>2. DOMAIN <<>> = {}
      OBVIOUS
    <3>3. DOMAIN prev_returns = {} /\ DOMAIN prev_modes = {} /\ DOMAIN dependencies = {}
      BY <3>1, <3>2
    <3> QED BY <3>1, <3>3
  <2>2. CASE has_prev_emit
    <3>1. PICK old : LastCheck(old)
      BY <1>1, <2>2 DEF KeptInv
    <3>2. Listing(old.files) /\ Stored(old) /\ old.declared \in BOOLEAN
      BY <3>1, WorkspaceForms DEF LastCheck
    <3> DEFINE TO == TableOf(old.files)
               attached == Loaded(ContentsOf(old.files), old.declared) \/ Discovers(TO, Names)
    <3>3. /\ prev_returns = Returns(TO, Names, <<>>, attached, old.stubs)
          /\ prev_modes = Modes(TO, Names, <<>>)
      BY <3>2, ColdForms DEF Stored
    <3>4. Table(TO)
      BY <3>2, MergedForms
    <3>5. /\ DOMAIN prev_returns = DOMAIN TO /\ DOMAIN prev_modes = DOMAIN TO
          /\ \A f \in DOMAIN TO : prev_returns[f] \in Types /\ prev_modes[f] \in BOOLEAN
      <4> HIDE DEF TO, attached
      <4>1. LET ret == Returns(TO, Names, <<>>, attached, old.stubs)
                modes == Modes(TO, Names, <<>>)
            IN  /\ ret = [f \in DOMAIN TO |-> ret[f]] /\ modes = [f \in DOMAIN TO |-> modes[f]]
                /\ \A f \in DOMAIN TO : ret[f] \in Types /\ modes[f] \in BOOLEAN
        BY <3>4, ColdTypes
      <4>2. DOMAIN Returns(TO, Names, <<>>, attached, old.stubs) = DOMAIN TO
            /\ DOMAIN Modes(TO, Names, <<>>) = DOMAIN TO
        BY DEF Returns, Modes
      <4> QED BY <3>3, <4>1, <4>2
    <3>6. DOMAIN dependencies = DOMAIN TO
      BY <3>2 DEF Stored
    <3>7. prev_loaded \in BOOLEAN /\ discovered \in BOOLEAN
      BY <3>2 DEF Stored, Loaded
    <3>8. prev_known \subseteq Vars
      <4>1. prev_known = Known(old.files)
        BY <3>2 DEF Stored
      <4>2. \A i \in DOMAIN old.files : old.files[i].content.binds \subseteq Vars
        BY <3>2, ListingForms DEF IsContent
      <4> QED BY <4>1, <4>2 DEF Known
    <3> QED BY <3>5, <3>6, <3>7, <3>8
  <2> QED BY <2>1, <2>2
<1> QED BY <1>1, <1>2, <1>3 DEF FilesInv, CollectedInv, TypeOK

\* Between checks the recorded reads are those of the present definitions.
LEMMA DependenciesFollow ==
  ASSUME ProjectInv PROVE DependenciesExact
<1>1. SUFFICES ASSUME phase = "idle", has_prev_emit
               PROVE  dependencies = [f \in DOMAIN TableOf(files) |->
                          Reads(TableOf(files)[f]) \cap DOMAIN TableOf(files)]
  BY DEF DependenciesExact, TableOf
<1>2. PICK old : LastCheck(old)
  BY <1>1 DEF ProjectInv, KeptInv
<1> QED BY <1>1, <1>2 DEF LastCheck, Since, Stored

\* Only the check ends a check.
LEMMA ChecksAre ==
  ASSUME [Next]_vars, Checks PROVE CheckIncremental
  BY DEF Next, Checks, Edit, Start, RemoveFile, SetUserStubs, SetLoaded, UpdateFile, ReorderFiles,
         vars

\* Whatever is edited, removed, reordered or reconfigured, what a check shows
\* is what ry check, which starts from nothing, reports; but that a file with
\* the same text may show what the defaults of its formals were worth before.
THEOREM ProjectImplementsButDefaults == Spec => ImplementsButDefaults
<1>1. Init => Cold!Init
  BY DEF Init, Cold!Init
<1>2. ProjectInv /\ [Next]_vars => [Cold!NextButDefaults]_<<workspace, diagnostics>>
  <2> SUFFICES ASSUME ProjectInv, [Next]_vars
               PROVE  [Cold!NextButDefaults]_<<workspace, diagnostics>>
    OBVIOUS
  <2>1. CASE CheckIncremental
    <3> DEFINE cold == ColdDiagnostics(workspace)
               kept == {p \in DOMAIN cold \cap DOMAIN diagnostics :
                           /\ cold[p].content = diagnostics[p].content
                           /\ diagnostics'[p] = ButDefaults(cold[p], diagnostics[p])}
    <3>1. DOMAIN cold = PathsOf(workspace.files)
      BY ColdDiagnosticsForms
    <3>2. /\ \A p \in DOMAIN cold : p \notin kept => diagnostics'[p] = cold[p]
          /\ \A p \in kept : diagnostics'[p] = ButDefaults(cold[p], diagnostics[p])
          /\ diagnostics' = [p \in DOMAIN cold |-> diagnostics'[p]]
      BY <2>1, <3>1, CheckLeaves DEF ProjectInv
    <3>3. Cold!ColdDiagnostics(workspace) = cold
      BY DEF Cold!ColdDiagnostics, ColdDiagnostics, Cold!ContentsOf, ContentsOf, Cold!PathsOf,
             PathsOf, Cold!ContentAt, ContentAt, Cold!Emission, Emission, Cold!Merged, Merged,
             Cold!ColdReturns, ColdReturns, Cold!ColdModes, ColdModes, Cold!Loaded, Loaded,
             Cold!Known, Known, Cold!Readers, Readers, Cold!CallSites, CallSites, Cold!Bodies,
             Bodies, Cold!Returns, Returns, Cold!Modes, Modes, Cold!Discovers, Discovers,
             Cold!Reads, Reads, Cold!OwnTypes, OwnTypes, Cold!JoinOf, JoinOf, Cold!Closure, Closure,
             Cold!Max, Max, Cold!Min, Min, Cold!DefaultsSeen, DefaultsSeen, Cold!DefaultSeen,
             DefaultSeen, Cold!Forwarders, Forwarders, Cold!Omits, Omits
    <3> HIDE DEF cold
    <3>4. kept \in SUBSET {p \in DOMAIN cold \cap DOMAIN diagnostics :
                              cold[p].content = diagnostics[p].content}
      OBVIOUS
    <3> HIDE DEF kept
    <3>5. diagnostics' = [p \in DOMAIN cold |->
                             IF p \in kept
                             THEN [cold[p] EXCEPT !.defaults = diagnostics[p].defaults]
                             ELSE cold[p]]
      BY <3>2 DEF ButDefaults
    <3>6. Cold!CheckButDefaults
      BY <3>3, <3>4, <3>5 DEF Cold!CheckButDefaults
    <3>7. UNCHANGED workspace
      BY <2>1 DEF CheckIncremental
    <3> QED BY <3>6, <3>7 DEF Cold!NextButDefaults
  <2>2. CASE Calls \/ UNCHANGED vars
    <3>1. UNCHANGED diagnostics
      BY <2>2 DEF Calls, RemoveFile, SetUserStubs, SetLoaded, UpdateFile, ReorderFiles, Start, Edit,
                  previous, vars
    <3> QED BY <3>1 DEF Cold!NextButDefaults, Cold!Edit
  <2> QED BY <2>1, <2>2 DEF Next, Calls
<1> QED BY <1>1, <1>2, ProjectInvariant, PTL DEF Spec, ImplementsButDefaults, Cold!SpecButDefaults

\* What is kept between checks is what a cold check computes.
THEOREM ProjectKeepsColdState == Spec => KeepsColdState
<1>1. ProjectInv => TypeOK /\ DependenciesExact
  BY TypesFollow, DependenciesFollow
<1>2. ProjectInv /\ [Next]_vars =>
        [Checks => prev_returns' = ColdReturns(workspace) /\ prev_modes' = ColdModes(workspace)]_vars
  BY ChecksAre, CheckLeaves DEF ProjectInv
<1>3. ProjectInv /\ [Next]_vars =>
        [(Checks /\ has_prev_emit /\ dirty_paths = {} /\ invalidated_fns = {}) => emitted' = {}]_vars
  <2> SUFFICES ASSUME ProjectInv, [Next]_vars, Checks, has_prev_emit, dirty_paths = {},
                      invalidated_fns = {}
               PROVE  emitted' = {}
    OBVIOUS
  <2>1. CheckIncremental /\ phase = "check"
    BY ChecksAre DEF Checks
  <2>2. emitted' = Emit0
    BY <2>1, CheckEffect DEF ProjectInv, Outcome
  <2> QED BY <2>1, <2>2, IdleEmitsNothing DEF ProjectInv
<1> QED BY <1>1, <1>2, <1>3, ProjectInvariant, PTL
        DEF Spec, KeepsColdState, SeedsMatchCold, IdleCheckEmitsNothing
================================================================================
