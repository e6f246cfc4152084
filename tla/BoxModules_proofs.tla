--------------------------- MODULE BoxModules_proofs --------------------------
(***************************************************************************)
(* Proofs about BoxModules, for any modules, files, import graphs and      *)
(* number of checkers.  A stack of nested checkers is a path of the import *)
(* graph whose last module is still to come for the one before it, so that *)
(* an import found on it closes a cycle (CycleOnStack); what has been seen *)
(* has an inventory, and what has not reaches a cycle (FrameInv).          *)
(***************************************************************************)
EXTENDS BoxModules, SequenceTheorems, TLAPS

D(g, m) == Promise!ReachesCycle(g, m)

\* What a checker knows when it is partway through its imports
FrameInv(g, inv, f) ==
    /\ f.todo \subseteq g.imports[f.module]
    /\ \A n \in f.sees : /\ n \in g.imports[f.module] \cap g.readable
                         /\ inv[n].kind = "known"
    /\ \A n \in (g.imports[f.module] \cap g.readable) \ f.todo :
          n \in f.sees \/ (f.cycle /\ D(g, n))

\* The stack is a path of the import graph without repetitions, and box_cycle
\* is true.
StackInv(g, inv, s) ==
    /\ \A i \in 1 .. Len(s) : FrameInv(g, inv, s[i])
    /\ \A i \in 2 .. Len(s) : /\ s[i].module \in g.readable \cap s[i - 1].todo
                              /\ s[i].cycle => D(g, s[i].module)
    /\ \A i, j \in 2 .. Len(s) : s[i].module = s[j].module => i = j

CacheInv(g, inv) ==
    \A m \in Modules :
        \/ inv[m] = Absent
        \/ inv[m] = Opaque /\ D(g, m)
        \/ /\ inv[m] = Inventory(Promise!Visible(g, m)) /\ ~ D(g, m)
           /\ m \in g.readable

\* Each file that is being checked is checked by one worker, once.
FilesInv ==
    \A c \in Checkers : Busy(c) =>
        /\ stacks[c][1].module \in Files
        /\ ~ results[stacks[c][1].module].checked
        /\ \A d \in Checkers \ {c} :
              Busy(d) => stacks[d][1].module # stacks[c][1].module

IInv ==
    /\ BoxTypeOK /\ FilesInv /\ CacheInv(graph, inventories)
    /\ \A c \in Checkers : StackInv(graph, inventories, stacks[c])

GraphType == [imports : [Modules -> SUBSET Modules], readable : SUBSET Modules]

-----------------------------------------------------------------------------
(* Import graphs                                                           *)

(* A readable module that imports one that reaches a cycle reaches it.     *)
LEMMA CycleUp ==
  ASSUME NEW g, NEW m \in g.readable, NEW n \in g.imports[m], D(g, n)
  PROVE  D(g, m)
  <1>1. PICK set \in SUBSET g.readable :
            n \in set /\ \A k \in set : g.imports[k] \cap set # {}
    BY DEF D, Promise!ReachesCycle
  <1>2. \A k \in set \cup {m} : g.imports[k] \cap (set \cup {m}) # {}
    BY <1>1
  <1>3. set \cup {m} \in SUBSET g.readable
    OBVIOUS
  <1> QED
    BY <1>2, <1>3 DEF D, Promise!ReachesCycle

(* A module that reaches a cycle imports a readable one that does.         *)
LEMMA CycleDown ==
  ASSUME NEW g, NEW m, D(g, m)
  PROVE  \E n \in g.imports[m] \cap g.readable : D(g, n)
  <1>1. PICK set \in SUBSET g.readable :
            m \in set /\ \A k \in set : g.imports[k] \cap set # {}
    BY DEF D, Promise!ReachesCycle
  <1>2. PICK n \in g.imports[m] \cap set : TRUE
    BY <1>1
  <1>3. D(g, n)
    BY <1>1, <1>2 DEF D, Promise!ReachesCycle
  <1> QED
    BY <1>2, <1>3

(* An import of the last module of a path that is on the path closes a     *)
(* cycle, which both reach.                                                *)
LEMMA CycleOnStack ==
  ASSUME NEW g, NEW inv, NEW s \in Seq(Frames), StackInv(g, inv, s),
         NEW j \in 2 .. Len(s), s[j].module \in g.imports[s[Len(s)].module]
  PROVE  D(g, s[j].module) /\ D(g, s[Len(s)].module)
  <1> DEFINE set == {s[i].module : i \in j .. Len(s)}
  <1>1. Len(s) \in Nat
    BY LenProperties
  <1>2. set \in SUBSET g.readable
    BY <1>1 DEF StackInv
  <1>3. ASSUME NEW i \in j .. Len(s) PROVE g.imports[s[i].module] \cap set # {}
    <2>1. CASE i = Len(s)
      BY <2>1, <1>1
    <2>2. CASE i # Len(s)
      <3>1. i + 1 \in j .. Len(s) /\ i + 1 \in 2 .. Len(s) /\ i \in 1 .. Len(s)
        BY <2>2, <1>1
      <3>2. s[i + 1].module \in s[(i + 1) - 1].todo
        BY <3>1 DEF StackInv
      <3>3. s[i].todo \subseteq g.imports[s[i].module]
        BY <3>1 DEF StackInv, FrameInv
      <3>4. (i + 1) - 1 = i
        BY <1>1
      <3> QED
        BY <3>1, <3>2, <3>3, <3>4
    <2> QED
      BY <2>1, <2>2
  <1>4. s[j].module \in set /\ s[Len(s)].module \in set
    BY <1>1
  <1> HIDE DEF set
  <1>5. \A k \in set : g.imports[k] \cap set # {}
    BY <1>3 DEF set
  <1> QED
    BY <1>2, <1>4, <1>5 DEF D, Promise!ReachesCycle

-----------------------------------------------------------------------------
(* Stacks                                                                  *)

(* An inventory that is added to the cache does not disturb a stack.       *)
LEMMA StackMono ==
  ASSUME NEW g, NEW inv, NEW inv2, NEW s \in Seq(Frames), StackInv(g, inv, s),
         \A n \in Modules : inv[n].kind = "known" => inv2[n].kind = "known"
  PROVE  StackInv(g, inv2, s)
  <1>1. ASSUME NEW i \in 1 .. Len(s) PROVE s[i].sees \subseteq Modules
    <2>1. s[i] \in Frames
      BY ElementOfSeq
    <2> QED
      BY <2>1 DEF Frames
  <1>2. \A i \in 1 .. Len(s) : FrameInv(g, inv2, s[i])
    BY <1>1 DEF StackInv, FrameInv
  <1> QED
    BY <1>2 DEF StackInv

(* When the top of a stack is done with an import, it has its inventory or *)
(* a reason not to have it.                                                *)
LEMMA TopDoneInv ==
  ASSUME NEW g, NEW inv, NEW s \in Seq(Frames), StackInv(g, inv, s), s # <<>>,
         NEW m \in s[Len(s)].todo, NEW got \in BOOLEAN, NEW cycle \in BOOLEAN,
         got => m \in g.readable /\ inv[m].kind = "known",
         m \in g.readable => got \/ (cycle /\ D(g, m)),
         cycle /\ Len(s) > 1 => D(g, s[Len(s)].module)
  PROVE  /\ TopDone(s, m, got, cycle) \in Seq(Frames)
         /\ TopDone(s, m, got, cycle) # <<>>
         /\ TopDone(s, m, got, cycle)[1].module = s[1].module
         /\ StackInv(g, inv, TopDone(s, m, got, cycle))
  <1> DEFINE k == Len(s)
             f == Done(s[k], m, got, cycle)
             t == TopDone(s, m, got, cycle)
  <1>1. k \in Nat /\ k >= 1 /\ s[k] \in Frames
    BY LenProperties, EmptySeq, ElementOfSeq
  <1>2. (s[k].cycle \/ cycle) \in BOOLEAN
    OBVIOUS
  <1>3. f \in Frames
    <2>1. /\ f.module \in Modules /\ f.todo \in SUBSET Modules
          /\ f.sees \in SUBSET Modules
      BY <1>1 DEF Done, Frames
    <2>2. f.cycle \in BOOLEAN
      BY <1>2 DEF Done
    <2>3. f = [module |-> f.module, todo |-> f.todo, sees |-> f.sees,
               cycle |-> f.cycle]
      BY DEF Done
    <2> HIDE DEF f
    <2> QED
      BY <2>1, <2>2, <2>3 DEF Frames
  <1>4. /\ t \in Seq(Frames) /\ Len(t) = k
        /\ \A i \in 1 .. k : t[i] = IF i = k THEN f ELSE s[i]
    BY <1>1, <1>3, ExceptSeq DEF TopDone
  <1>5. \A i \in 1 .. k : t[i].module = s[i].module
    BY <1>4 DEF Done
  <1>6. FrameInv(g, inv, f)
    <2>1. FrameInv(g, inv, s[k])
      BY <1>1 DEF StackInv
    <2>2. /\ f.module = s[k].module /\ f.todo = s[k].todo \ {m}
          /\ f.sees = s[k].sees \cup (IF got THEN {m} ELSE {})
          /\ f.cycle = (s[k].cycle \/ cycle)
      BY DEF Done
    <2>3. m \in g.imports[s[k].module]
      BY <2>1 DEF FrameInv
    <2> HIDE DEF f
    <2> QED
      BY <2>1, <2>2, <2>3 DEF FrameInv
  <1>7. f.cycle /\ k > 1 => D(g, f.module)
    <2>1. s[k].cycle /\ k > 1 => D(g, s[k].module)
      BY <1>1 DEF StackInv
    <2> QED
      BY <2>1, <1>1 DEF Done
  <1> HIDE DEF f, t
  <1>8. \A i \in 1 .. k : FrameInv(g, inv, t[i])
    BY <1>4, <1>6 DEF StackInv
  <1>9. ASSUME NEW i \in 2 .. k
        PROVE  /\ t[i].module \in g.readable \cap t[i - 1].todo
               /\ t[i].cycle => D(g, t[i].module)
    <2>1. i - 1 \in 1 .. k /\ i - 1 # k /\ i \in 1 .. k
      BY <1>1
    <2>2. /\ s[i].module \in g.readable \cap s[i - 1].todo
          /\ s[i].cycle => D(g, s[i].module)
      BY DEF StackInv
    <2>3. t[i - 1] = s[i - 1]
      BY <2>1, <1>4
    <2>4. t[i].cycle => D(g, t[i].module)
      BY <2>1, <2>2, <1>1, <1>4, <1>7
    <2> QED
      BY <2>1, <2>2, <2>3, <2>4, <1>5
  <1>10. \A i, j \in 2 .. k : t[i].module = t[j].module => i = j
    BY <1>1, <1>5 DEF StackInv
  <1>11. StackInv(g, inv, t)
    BY <1>4, <1>8, <1>9, <1>10 DEF StackInv
  <1> QED
    BY <1>1, <1>4, <1>5, <1>11, EmptySeq DEF t

(* In particular when it has the inventory                                 *)
LEMMA GotInv ==
  ASSUME NEW g, NEW inv, NEW s \in Seq(Frames), StackInv(g, inv, s), s # <<>>,
         NEW m \in s[Len(s)].todo, m \in g.readable, inv[m].kind = "known"
  PROVE  /\ TopDone(s, m, TRUE, FALSE) \in Seq(Frames)
         /\ TopDone(s, m, TRUE, FALSE) # <<>>
         /\ TopDone(s, m, TRUE, FALSE)[1].module = s[1].module
         /\ StackInv(g, inv, TopDone(s, m, TRUE, FALSE))
  <1> DEFINE got == TRUE
             cycle == FALSE
  <1>1. /\ got \in BOOLEAN /\ cycle \in BOOLEAN
        /\ got => m \in g.readable /\ inv[m].kind = "known"
        /\ m \in g.readable => got \/ (cycle /\ D(g, m))
        /\ cycle /\ Len(s) > 1 => D(g, s[Len(s)].module)
    OBVIOUS
  <1> HIDE DEF got, cycle
  <1>2. /\ TopDone(s, m, got, cycle) \in Seq(Frames)
        /\ TopDone(s, m, got, cycle) # <<>>
        /\ TopDone(s, m, got, cycle)[1].module = s[1].module
        /\ StackInv(g, inv, TopDone(s, m, got, cycle))
    BY <1>1, TopDoneInv
  <1> QED
    BY <1>2 DEF got, cycle

(* An import that is not on the stack may be analysed on top of it.        *)
LEMMA PushInv ==
  ASSUME NEW g, NEW inv, NEW s \in Seq(Frames), StackInv(g, inv, s), s # <<>>,
         NEW m \in s[Len(s)].todo \cap g.readable,
         \A i \in 2 .. Len(s) : s[i].module # m,
         NEW f \in Frames, f.module = m, f.todo = g.imports[m],
         f.sees = {}, ~ f.cycle
  PROVE  /\ Append(s, f) \in Seq(Frames) /\ Append(s, f) # <<>>
         /\ Append(s, f)[1].module = s[1].module
         /\ StackInv(g, inv, Append(s, f))
  <1> DEFINE k == Len(s)
             t == Append(s, f)
  <1>1. k \in Nat /\ k >= 1
    BY LenProperties, EmptySeq
  <1>2. /\ t \in Seq(Frames) /\ t # <<>> /\ Len(t) = k + 1
        /\ \A i \in 1 .. k : t[i] = s[i]
        /\ t[k + 1] = f
    BY AppendProperties
  <1> HIDE DEF t
  <1>3. FrameInv(g, inv, f)
    BY DEF FrameInv
  <1>4. \A i \in 1 .. k + 1 : FrameInv(g, inv, t[i])
    BY <1>1, <1>2, <1>3 DEF StackInv
  <1>5. ASSUME NEW i \in 2 .. k + 1
        PROVE  /\ t[i].module \in g.readable \cap t[i - 1].todo
               /\ t[i].cycle => D(g, t[i].module)
    <2>1. CASE i = k + 1
      <3>1. t[i - 1] = s[k]
        BY <2>1, <1>1, <1>2
      <3> QED
        BY <2>1, <3>1, <1>2
    <2>2. CASE i # k + 1
      <3>1. i \in 2 .. k /\ i \in 1 .. k /\ i - 1 \in 1 .. k
        BY <2>2, <1>1
      <3> QED
        BY <3>1, <1>2 DEF StackInv
    <2> QED
      BY <2>1, <2>2
  <1>6. ASSUME NEW i \in 2 .. k + 1, NEW j \in 2 .. k + 1,
               t[i].module = t[j].module
        PROVE  i = j
    <2>1. \A n \in 2 .. k + 1 : n = k + 1 \/ (n \in 2 .. k /\ t[n] = s[n])
      BY <1>1, <1>2
    <2> QED
      BY <2>1, <1>2, <1>6 DEF StackInv
  <1> QED
    BY <1>1, <1>2, <1>4, <1>5, <1>6 DEF StackInv, t

(* Without its top, a stack is one that waits for the top's module.        *)
LEMMA PopInv ==
  ASSUME NEW g, NEW inv, NEW s \in Seq(Frames), StackInv(g, inv, s), Len(s) > 1
  PROVE  LET t == SubSeq(s, 1, Len(s) - 1)
         IN  /\ t \in Seq(Frames) /\ t # <<>> /\ Len(t) = Len(s) - 1
             /\ \A i \in 1 .. Len(t) : t[i] = s[i]
             /\ StackInv(g, inv, t)
             /\ s[Len(s)].module \in g.readable \cap t[Len(t)].todo
  <1> DEFINE k == Len(s) - 1
             t == SubSeq(s, 1, k)
  <1>1. Len(s) \in Nat /\ k \in Nat /\ k >= 1 /\ k + 1 = Len(s)
    BY LenProperties
  <1>2. \A i \in 1 .. k : s[i] \in Frames
    BY <1>1, ElementOfSeq
  <1>3. /\ t \in Seq(Frames) /\ Len(t) = k
        /\ \A i \in 1 .. k : t[i] = s[i]
    <2>1. /\ t \in Seq(Frames) /\ Len(t) = IF 1 <= k THEN k - 1 + 1 ELSE 0
          /\ \A i \in 1 .. k - 1 + 1 : t[i] = s[1 + i - 1]
      BY <1>1, <1>2, SubSeqProperties
    <2> HIDE DEF t
    <2> QED
      BY <2>1, <1>1
  <1> HIDE DEF t
  <1>4. StackInv(g, inv, t)
    <2>1. \A i \in 1 .. k : i \in 1 .. Len(s)
      BY <1>1
    <2>2. \A i \in 2 .. k : i \in 2 .. Len(s) /\ i \in 1 .. k /\ i - 1 \in 1 .. k
      BY <1>1
    <2> QED
      BY <1>3, <2>1, <2>2 DEF StackInv
  <1>5. s[Len(s)].module \in g.readable \cap t[k].todo
    <2>1. Len(s) \in 2 .. Len(s) /\ Len(s) - 1 = k /\ k \in 1 .. k
      BY <1>1
    <2> QED
      BY <2>1, <1>3 DEF StackInv
  <1>6. t # <<>>
    BY <1>1, <1>3, EmptySeq
  <1> QED
    BY <1>1, <1>3, <1>4, <1>5, <1>6 DEF t

-----------------------------------------------------------------------------
(* Steps                                                                   *)

(* The types of what the actions use                                       *)
LEMMA Types ==
  ASSUME BoxTypeOK
  PROVE  /\ graph \in GraphType
         /\ \A c \in Checkers : stacks[c] \in Seq(Frames)
         /\ \A m \in Modules : Frame(m) \in Frames
         /\ \A c \in Checkers : Busy(c) =>
               /\ Depth(c) \in Nat \ {0}
               /\ \A i \in 1 .. Depth(c) : stacks[c][i] \in Frames
  <1>1. graph \in GraphType
    BY BoxAssumption DEF BoxTypeOK, GraphType
  <1>2. \A c \in Checkers : stacks[c] \in Seq(Frames)
    BY DEF BoxTypeOK
  <1>3. \A m \in Modules : Frame(m) \in Frames
    BY <1>1 DEF Frame, Frames, GraphType
  <1>4. ASSUME NEW c \in Checkers, Busy(c)
        PROVE  /\ Depth(c) \in Nat \ {0}
               /\ \A i \in 1 .. Depth(c) : stacks[c][i] \in Frames
    BY <1>2, <1>4, EmptySeq, LenProperties, ElementOfSeq DEF Busy, Depth
  <1> QED
    BY <1>1, <1>2, <1>3, <1>4

(* A change of one busy stack, which goes on with the same file            *)
LEMMA StackStep ==
  ASSUME IInv, NEW c \in Checkers, Busy(c), NEW t \in Seq(Frames), t # <<>>,
         t[1].module = stacks[c][1].module,
         stacks' = [stacks EXCEPT ![c] = t], UNCHANGED <<graph, results>>,
         inventories' \in [Modules -> [kind : {"absent", "opaque", "known"},
                                       sees : SUBSET Modules]],
         CacheInv(graph, inventories'),
         \A n \in Modules : Known(n) => Known(n)',
         StackInv(graph, inventories', t)
  PROVE  IInv'
  <1>1. stacks'[c] = t /\ \A d \in Checkers \ {c} : stacks'[d] = stacks[d]
    BY DEF IInv, BoxTypeOK
  <1>2. BoxTypeOK'
    BY DEF IInv, BoxTypeOK
  <1>3. FilesInv'
    <2>1. \A d \in Checkers : /\ Busy(d)' <=> Busy(d)
                              /\ Busy(d) => stacks'[d][1].module = stacks[d][1].module
      BY <1>1 DEF Busy
    <2> QED
      BY <2>1 DEF IInv, FilesInv
  <1>4. ASSUME NEW d \in Checkers
        PROVE  StackInv(graph, inventories', stacks'[d])
    <2>1. CASE d = c
      BY <2>1, <1>1
    <2>2. CASE d # c
      <3>1. StackInv(graph, inventories, stacks[d])
        BY DEF IInv
      <3>2. StackInv(graph, inventories', stacks[d])
        BY <3>1, StackMono, Types DEF IInv, Known
      <3> QED
        BY <3>2, <2>2, <1>1
    <2> QED
      BY <2>1, <2>2
  <1> QED
    BY <1>2, <1>3, <1>4 DEF IInv

(* A worker starts with the imports of a file that nobody checks.          *)
LEMMA StartInv ==
  ASSUME IInv, NEW c \in Checkers, NEW f \in Files, Start(c, f)
  PROVE  IInv'
  <1> DEFINE t == <<Frame(f)>>
  <1>1. f \in Modules /\ Frame(f) \in Frames
    BY Types, BoxAssumption DEF IInv
  <1>2. t \in Seq(Frames) /\ Len(t) = 1 /\ t[1] = Frame(f) /\ t # <<>>
    BY <1>1
  <1>3. /\ stacks'[c] = t
        /\ \A d \in Checkers \ {c} : stacks'[d] = stacks[d]
        /\ UNCHANGED <<graph, results, inventories>>
    BY DEF Start, IInv, BoxTypeOK
  <1> HIDE DEF t
  <1>4. BoxTypeOK'
    BY <1>2 DEF Start, IInv, BoxTypeOK
  <1>5. Frame(f).module = f
    BY DEF Frame
  <1>6. FilesInv'
    <2>1. \A d \in Checkers \ {c} : Busy(d)' <=> Busy(d)
      BY <1>3 DEF Busy
    <2>2. stacks'[c][1].module = f /\ ~ results[f].checked
      BY <1>2, <1>3, <1>5 DEF Start
    <2>3. \A d \in Checkers \ {c} : Busy(d) => stacks[d][1].module # f
      BY DEF Start
    <2> QED
      BY <1>3, <2>1, <2>2, <2>3 DEF IInv, FilesInv
  <1>7. StackInv(graph, inventories, t)
    <2>1. FrameInv(graph, inventories, Frame(f))
      BY DEF FrameInv, Frame
    <2> QED
      BY <1>2, <2>1 DEF StackInv
  <1>8. \A d \in Checkers : StackInv(graph, inventories, stacks'[d])
    BY <1>3, <1>7 DEF IInv
  <1> QED
    BY <1>3, <1>4, <1>6, <1>8 DEF IInv

(* An import is done with: what its checker notes of it is true.           *)
LEMMA AnswerInv ==
  ASSUME IInv, NEW c \in Checkers, NEW m \in Modules, Meets(c, m),
         NEW got \in BOOLEAN, NEW cycle \in BOOLEAN, Answer(c, m, got, cycle),
         got => m \in graph.readable /\ Known(m),
         m \in graph.readable => got \/ (cycle /\ D(graph, m)),
         cycle /\ Depth(c) > 1 => D(graph, Top(c).module)
  PROVE  IInv'
  <1> DEFINE t == TopDone(stacks[c], m, got, cycle)
  <1>1. stacks[c] \in Seq(Frames) /\ stacks[c] # <<>>
        /\ StackInv(graph, inventories, stacks[c])
    BY Types DEF IInv, Meets, Busy
  <1>2. /\ m \in stacks[c][Len(stacks[c])].todo
        /\ got => m \in graph.readable /\ inventories[m].kind = "known"
        /\ cycle /\ Len(stacks[c]) > 1 =>
              D(graph, stacks[c][Len(stacks[c])].module)
    BY DEF Meets, Top, Depth, Known
  <1>3. /\ t \in Seq(Frames) /\ t # <<>>
        /\ t[1].module = stacks[c][1].module
        /\ StackInv(graph, inventories, t)
    BY <1>1, <1>2, TopDoneInv
  <1>4. /\ stacks' = [stacks EXCEPT ![c] = t]
        /\ UNCHANGED <<graph, results, inventories>>
    BY DEF Answer
  <1> HIDE DEF t
  <1> QED
    BY <1>3, <1>4, StackStep DEF Meets, IInv, BoxTypeOK, Known

(* Each way to meet an import keeps the invariant.                         *)
LEMMA ImportInv ==
  ASSUME IInv, NEW c \in Checkers, NEW m \in Modules,
         \/ MeetLoading(c, m) \/ MeetCached(c, m) \/ MeetRejected(c, m)
         \/ Analyse(c, m)
  PROVE  IInv'
  <1> DEFINE s == stacks[c]
  <1>1. /\ Busy(c) /\ s \in Seq(Frames) /\ s # <<>> /\ Len(s) \in Nat \ {0}
        /\ StackInv(graph, inventories, s)
        /\ m \in s[Len(s)].todo
    BY Types DEF IInv, MeetLoading, MeetCached, MeetRejected, Analyse, Meets,
                 Busy, Top, Depth
  <1>2. m \in graph.imports[s[Len(s)].module]
    BY <1>1 DEF StackInv, FrameInv
  <1>3. Len(s) > 1 => s[Len(s)].module \in graph.readable
    BY <1>1 DEF StackInv
  <1>4. CASE MeetLoading(c, m)
    <2>1. PICK j \in 2 .. Len(s) : s[j].module = m
      BY <1>4 DEF MeetLoading, Loading, Depth
    <2>2. D(graph, m) /\ D(graph, s[Len(s)].module)
      BY <1>1, <1>2, <2>1, CycleOnStack
    <2> QED
      BY <1>4, <2>2, AnswerInv DEF MeetLoading, Top, Depth
  <1>5. CASE MeetCached(c, m)
    <2>1. CASE Known(m)
      <3>1. m \in graph.readable
        BY <2>1 DEF IInv, CacheInv, Known, Absent, Opaque
      <3>2. Answer(c, m, TRUE, FALSE)
        <4>1. Known(m) = TRUE
          BY <2>1 DEF Known
        <4> QED
          BY <1>5, <4>1 DEF MeetCached
      <3> QED
        BY <1>5, <2>1, <3>1, <3>2, AnswerInv DEF MeetCached
    <2>2. CASE ~ Known(m)
      <3>1. D(graph, m)
        <4>1. \/ inventories[m] = Absent
              \/ inventories[m] = Opaque /\ D(graph, m)
              \/ inventories[m] = Inventory(Promise!Visible(graph, m))
          BY DEF IInv, CacheInv
        <4>2. inventories[m] # Absent
          BY <1>5 DEF MeetCached
        <4> QED
          BY <2>2, <4>1, <4>2 DEF Known, Inventory
      <3>2. Len(s) > 1 => D(graph, s[Len(s)].module)
        BY <1>2, <1>3, <3>1, CycleUp
      <3>3. Answer(c, m, FALSE, TRUE)
        <4>1. Known(m) = FALSE
          BY <2>2 DEF Known
        <4> QED
          BY <1>5, <4>1 DEF MeetCached
      <3> QED
        BY <1>5, <3>1, <3>2, <3>3, AnswerInv DEF MeetCached, Top, Depth
    <2> QED
      BY <2>1, <2>2
  <1>6. CASE MeetRejected(c, m)
    BY <1>6, AnswerInv DEF MeetRejected
  <1>7. CASE Analyse(c, m)
    <2> DEFINE t == Append(s, Frame(m))
    <2>1. Frame(m) \in Frames
      BY Types DEF IInv
    <2>2. \A i \in 2 .. Len(s) : s[i].module # m
      BY <1>7 DEF Analyse, Loading, Depth
    <2>3. m \in s[Len(s)].todo \cap graph.readable
      BY <1>1, <1>7 DEF Analyse
    <2>4. /\ Frame(m).module = m /\ Frame(m).todo = graph.imports[m]
          /\ Frame(m).sees = {} /\ ~ Frame(m).cycle
      BY DEF Frame
    <2>5. /\ t \in Seq(Frames) /\ t # <<>> /\ t[1].module = s[1].module
          /\ StackInv(graph, inventories, t)
      BY <1>1, <2>1, <2>2, <2>3, <2>4, PushInv
    <2>6. /\ stacks' = [stacks EXCEPT ![c] = t]
          /\ UNCHANGED <<graph, results, inventories>>
      BY <1>7 DEF Analyse
    <2>7. /\ CacheInv(graph, inventories')
          /\ StackInv(graph, inventories', t)
          /\ inventories' \in [Modules -> [kind : {"absent", "opaque", "known"},
                                           sees : SUBSET Modules]]
      BY <2>5, <2>6 DEF IInv, BoxTypeOK
    <2>8. \A n \in Modules : Known(n) => Known(n)'
      BY <2>6 DEF Known
    <2> HIDE DEF t, s
    <2> QED
      BY <1>1, <2>5, <2>6, <2>7, <2>8, StackStep DEF s
  <1> QED
    BY <1>4, <1>5, <1>6, <1>7

(* The end of a nested analysis caches what the graph says of the module.  *)
LEMMA AnalysedInv ==
  ASSUME IInv, NEW c \in Checkers, Analysed(c), Busy(c)
  PROVE  /\ IInv'
         /\ \A m \in Modules : inventories[m] # Absent =>
                                inventories'[m] = inventories[m]
  <1> DEFINE s == stacks[c]
             k == Len(s)
             m == s[k].module
             value == IF s[k].cycle THEN Opaque ELSE Inventory(s[k].sees)
             u == SubSeq(s, 1, k - 1)
             t == Return(s, s[k].cycle)
  <1>1. /\ s \in Seq(Frames) /\ k \in Nat /\ k > 1 /\ s[k] \in Frames
        /\ s[k].todo = {} /\ StackInv(graph, inventories, s)
        /\ graph \in GraphType
    BY Types DEF IInv, Analysed, Busy, Depth, Top
  <1>2. /\ m \in graph.readable /\ m \in Modules
        /\ s[k].cycle => D(graph, m)
        /\ FrameInv(graph, inventories, s[k])
    BY <1>1 DEF StackInv, Frames
  <1>3. CacheInv(graph, inventories)
    BY DEF IInv
  <1>4. ~ s[k].cycle => ~ D(graph, m) /\ s[k].sees = Promise!Visible(graph, m)
    <2> SUFFICES ASSUME ~ s[k].cycle
                 PROVE  ~ D(graph, m) /\ s[k].sees = Promise!Visible(graph, m)
      OBVIOUS
    <2>1. s[k].sees = graph.imports[m] \cap graph.readable
      BY <1>1, <1>2 DEF FrameInv
    <2>2. \A n \in s[k].sees : n \in Modules /\ inventories[n].kind = "known"
      BY <1>1, <1>2 DEF FrameInv, Frames
    <2>3. \A n \in s[k].sees : ~ D(graph, n)
      BY <2>2, <1>3 DEF CacheInv, Absent, Opaque
    <2>4. ~ D(graph, m)
      BY <2>1, <2>3, CycleDown
    <2> QED
      BY <2>1, <2>3, <2>4 DEF Promise!Visible, D
  <1>5. /\ inventories' = [inventories EXCEPT ![m] = value]
        /\ stacks' = [stacks EXCEPT ![c] = t]
        /\ UNCHANGED <<graph, results>>
    BY DEF Analysed, Top, Depth
  <1>6. /\ inventories'[m] = value
        /\ \A n \in Modules \ {m} : inventories'[n] = inventories[n]
    BY <1>2, <1>5 DEF IInv, BoxTypeOK
  <1>7. \/ value = Opaque /\ D(graph, m)
        \/ value = Inventory(Promise!Visible(graph, m)) /\ ~ D(graph, m)
    BY <1>2, <1>4
  <1>8. CacheInv(graph, inventories')
    BY <1>2, <1>3, <1>6, <1>7 DEF CacheInv
  <1>9. \A n \in Modules : inventories[n] # Absent =>
                             inventories'[n] = inventories[n]
    BY <1>3, <1>6, <1>7 DEF CacheInv
  <1>10. \A n \in Modules : Known(n) => Known(n)'
    BY <1>9 DEF Known, Absent
  <1>11. inventories' \in [Modules -> [kind : {"absent", "opaque", "known"},
                                       sees : SUBSET Modules]]
    <2>1. value \in [kind : {"absent", "opaque", "known"}, sees : SUBSET Modules]
      BY <1>1 DEF Opaque, Inventory, Frames
    <2> HIDE DEF value
    <2> QED
      BY <1>5, <2>1 DEF IInv, BoxTypeOK
  <1>12. StackInv(graph, inventories', s)
    BY <1>1, <1>10, StackMono DEF Known
  <1>13. /\ u \in Seq(Frames) /\ u # <<>> /\ Len(u) = k - 1
         /\ \A i \in 1 .. Len(u) : u[i] = s[i]
         /\ StackInv(graph, inventories', u)
         /\ m \in graph.readable \cap u[Len(u)].todo
    BY <1>1, <1>12, PopInv
  <1>14. u[1].module = s[1].module
    BY <1>1, <1>13
  <1>15. m \in graph.imports[u[Len(u)].module]
    BY <1>1, <1>13 DEF StackInv, FrameInv
  <1>16. Len(u) > 1 => u[Len(u)].module \in graph.readable
    BY <1>1, <1>13 DEF StackInv
  <1>17. /\ t \in Seq(Frames) /\ t # <<>> /\ t[1].module = u[1].module
         /\ StackInv(graph, inventories', t)
    <2>1. s[k].cycle => D(graph, m) /\ (Len(u) > 1 => D(graph, u[Len(u)].module))
      BY <1>2, <1>15, <1>16, CycleUp
    <2>2. ~ s[k].cycle => inventories'[m].kind = "known"
      BY <1>6 DEF Inventory
    <2>3. m \in graph.readable /\ m \in u[Len(u)].todo
      BY <1>13
    <2>4. CASE s[k].cycle
      <3>1. s[k].cycle = TRUE
        BY <1>1, <2>4 DEF Frames
      <3>2. t = TopDone(u, m, FALSE, TRUE)
        BY <3>1 DEF Return
      <3> HIDE DEF u, t, m
      <3> QED
        BY <2>1, <2>3, <2>4, <3>2, <1>13, TopDoneInv
    <2>5. CASE ~ s[k].cycle
      <3>1. s[k].cycle = FALSE
        BY <1>1, <2>5 DEF Frames
      <3>2. t = TopDone(u, m, TRUE, FALSE)
        <4>1. (~ s[k].cycle) = TRUE
          BY <3>1
        <4> QED
          BY <3>1, <4>1 DEF Return
      <3>3. inventories'[m].kind = "known"
        BY <2>2, <2>5
      <3>4. /\ u \in Seq(Frames) /\ u # <<>> /\ StackInv(graph, inventories', u)
        BY <1>13
      <3> HIDE DEF u, t, m, s
      <3> QED
        BY <2>3, <3>2, <3>3, <3>4, GotInv
    <2> QED
      BY <2>4, <2>5
  <1> HIDE DEF t, u
  <1>18. t[1].module = stacks[c][1].module
    BY <1>14, <1>17
  <1>19. IInv'
    BY <1>5, <1>8, <1>10, <1>11, <1>17, <1>18, StackStep
  <1> QED
    BY <1>9, <1>19

(* A file that is done has seen what the graph lets it see.                *)
LEMMA FinishInv ==
  ASSUME IInv, NEW c \in Checkers, Finish(c), Busy(c)
  PROVE  IInv' /\ \E f \in Files : Promise!CheckFile(f)
  <1> DEFINE s == stacks[c]
             f == s[1].module
  <1>1. /\ s \in Seq(Frames) /\ Len(s) = 1 /\ s[1] \in Frames
        /\ s[1].todo = {} /\ graph \in GraphType
        /\ FrameInv(graph, inventories, s[1])
    BY Types DEF IInv, Finish, Busy, Depth, Top, StackInv
  <1>2. /\ results' = [results EXCEPT ![f] = Promise!Checked(s[1].sees)]
        /\ stacks' = [stacks EXCEPT ![c] = <<>>]
        /\ UNCHANGED <<graph, inventories>>
    BY <1>1 DEF Finish, Depth, Top
  <1>3. f \in Files /\ ~ results[f].checked
    BY DEF IInv, FilesInv
  <1>4. s[1].sees = Promise!Visible(graph, f)
    <2>1. \A n \in s[1].sees : n \in Modules /\ ~ D(graph, n)
      <3>1. \A n \in s[1].sees : n \in Modules /\ inventories[n].kind = "known"
        BY <1>1 DEF FrameInv, Frames
      <3>2. CacheInv(graph, inventories)
        BY DEF IInv
      <3> QED
        BY <3>1, <3>2 DEF CacheInv, Absent, Opaque
    <2>2. /\ s[1].sees \subseteq graph.imports[f] \cap graph.readable
          /\ \A n \in graph.imports[f] \cap graph.readable :
                n \in s[1].sees \/ D(graph, n)
      BY <1>1 DEF FrameInv
    <2> QED
      BY <2>1, <2>2 DEF Promise!Visible, D
  <1>5. \E g \in Files : Promise!CheckFile(g)
    BY <1>2, <1>3, <1>4 DEF Promise!CheckFile
  <1>6. BoxTypeOK'
    <2>1. Promise!Checked(s[1].sees) \in [checked : BOOLEAN, sees : SUBSET Modules]
      BY <1>1 DEF Promise!Checked, Frames
    <2>2. <<>> \in Seq(Frames)
      OBVIOUS
    <2> QED
      BY <1>2, <2>1, <2>2 DEF IInv, BoxTypeOK
  <1>7. /\ stacks'[c] = <<>>
        /\ \A d \in Checkers \ {c} : stacks'[d] = stacks[d]
        /\ \A g \in Files \ {f} : results'[g] = results[g]
    BY <1>2 DEF IInv, BoxTypeOK
  <1>8. FilesInv'
    <2>1. ~ Busy(c)'
      BY <1>7 DEF Busy
    <2>2. \A d \in Checkers \ {c} : /\ Busy(d)' <=> Busy(d)
                                   /\ Busy(d) => stacks[d][1].module # f
      BY <1>7 DEF Busy, IInv, FilesInv
    <2>3. \A d \in Checkers \ {c} : Busy(d) =>
             results'[stacks[d][1].module] = results[stacks[d][1].module]
      BY <1>7, <2>2 DEF IInv, FilesInv
    <2>4. ASSUME NEW d \in Checkers, Busy(d)'
          PROVE  /\ d # c /\ Busy(d) /\ stacks'[d] = stacks[d]
                 /\ stacks'[d][1].module \in Files
                 /\ ~ results'[stacks'[d][1].module].checked
      <3>1. d # c
        BY <1>7, <2>4, SMT DEF Busy
      <3>2. stacks'[d] = stacks[d]
        BY <1>7, <3>1
      <3>3. Busy(d)
        BY <2>4, <3>2 DEF Busy
      <3>4. /\ stacks[d][1].module \in Files
            /\ ~ results[stacks[d][1].module].checked
        BY <3>3 DEF IInv, FilesInv
      <3>5. results'[stacks[d][1].module] = results[stacks[d][1].module]
        BY <2>3, <3>1, <3>3
      <3> QED
        BY <3>1, <3>2, <3>3, <3>4, <3>5
    <2>5. ASSUME NEW d \in Checkers, Busy(d)',
                 NEW e \in Checkers \ {d}, Busy(e)'
          PROVE  stacks'[e][1].module # stacks'[d][1].module
      BY <2>4, <2>5 DEF IInv, FilesInv
    <2> QED
      BY <2>4, <2>5, Zenon DEF FilesInv
  <1>9. \A d \in Checkers : StackInv(graph, inventories, stacks'[d])
    <2>1. StackInv(graph, inventories, <<>>)
      BY DEF StackInv
    <2> QED
      BY <2>1, <1>7 DEF IInv
  <1> QED
    BY <1>2, <1>5, <1>6, <1>8, <1>9 DEF IInv

-----------------------------------------------------------------------------
(* Theorems                                                                *)

(* Initially nobody checks anything.                                       *)
LEMMA InitInv == BoxInit => IInv
  <1> SUFFICES ASSUME BoxInit PROVE IInv
    OBVIOUS
  <1>1. BoxTypeOK
    <2>1. Promise!Unchecked \in [checked : BOOLEAN, sees : SUBSET Modules]
      BY DEF Promise!Unchecked
    <2>2. Absent \in [kind : {"absent", "opaque", "known"}, sees : SUBSET Modules]
      BY DEF Absent
    <2>3. <<>> \in Seq(Frames)
      OBVIOUS
    <2> QED
      BY <2>1, <2>2, <2>3 DEF BoxInit, BoxTypeOK
  <1>2. FilesInv
    BY DEF BoxInit, FilesInv, Busy
  <1>3. CacheInv(graph, inventories)
    BY DEF BoxInit, CacheInv
  <1>4. \A c \in Checkers : StackInv(graph, inventories, stacks[c])
    <2>1. StackInv(graph, inventories, <<>>)
      BY DEF StackInv
    <2> QED
      BY <2>1 DEF BoxInit
  <1> QED
    BY <1>1, <1>2, <1>3, <1>4 DEF IInv

(* A step of a checker keeps the invariant, changes no inventory that is   *)
(* there, and is a step or a stutter of the promise.                       *)
LEMMA CheckInv ==
  ASSUME IInv, NEW c \in Checkers, Check(c)
  PROVE  /\ IInv'
         /\ \A m \in Modules : inventories[m] # Absent =>
                                inventories'[m] = inventories[m]
         /\ Promise!Next \/ UNCHANGED <<graph, results>>
  <1>1. CASE \E f \in Files : Start(c, f)
    <2>1. UNCHANGED <<graph, results, inventories>>
      BY <1>1 DEF Start
    <2> QED
      BY <1>1, <2>1, StartInv
  <1>2. CASE Import(c)
    <2>1. UNCHANGED <<graph, results, inventories>>
      BY <1>2 DEF Import, MeetLoading, MeetCached, MeetRejected, Analyse, Answer
    <2> QED
      BY <1>2, <2>1, ImportInv DEF Import
  <1>3. CASE Analysed(c)
    <2>1. Busy(c)
      BY <1>3 DEF Analysed, Depth, Busy
    <2>2. UNCHANGED <<graph, results>>
      BY <1>3 DEF Analysed
    <2> QED
      BY <1>3, <2>1, <2>2, AnalysedInv
  <1>4. CASE Finish(c)
    <2>1. Busy(c)
      BY <1>4 DEF Finish, Depth, Busy
    <2>2. UNCHANGED inventories
      BY <1>4 DEF Finish
    <2> QED
      BY <1>4, <2>1, <2>2, FinishInv DEF Promise!Next
  <1> QED
    BY <1>1, <1>2, <1>3, <1>4 DEF Check

(* IInv is an inductive invariant.                                         *)
LEMMA StepInv == IInv /\ [BoxNext]_boxVars => IInv'
  <1> SUFFICES ASSUME IInv, [BoxNext]_boxVars PROVE IInv'
    OBVIOUS
  <1>1. CASE BoxNext
    BY <1>1, CheckInv DEF BoxNext
  <1>2. CASE UNCHANGED boxVars
    BY <1>2 DEF boxVars, IInv, BoxTypeOK, FilesInv, Busy
  <1> QED
    BY <1>1, <1>2

(* The inductive invariant holds in every reachable state.                 *)
LEMMA Inductive == BoxSpec => []IInv
  BY InitInv, StepInv, PTL DEF BoxSpec

(* Every variable keeps its type in every reachable state.                 *)
THEOREM TypeCorrect == BoxSpec => []BoxTypeOK
  <1>1. IInv => BoxTypeOK
    BY DEF IInv
  <1> QED
    BY <1>1, Inductive, PTL

(* No module is analysed within its own analysis (box_loading).            *)
THEOREM NeverReentered == BoxSpec => []NoReentry
  <1>1. IInv => NoReentry
    BY DEF IInv, NoReentry, StackInv, Depth
  <1> QED
    BY <1>1, Inductive, PTL

(* The cache says of a module what the import graph says, whichever        *)
(* checker met it first (box_module_inventory).                            *)
THEOREM CacheIsIndependent == BoxSpec => []CacheIndependent
  <1>1. IInv => CacheIndependent
    <2> SUFFICES ASSUME IInv, NEW m \in Modules
                 PROVE  /\ inventories[m] = Opaque => D(graph, m)
                        /\ Known(m) =>
                              /\ ~ D(graph, m)
                              /\ inventories[m].sees = Promise!Visible(graph, m)
      BY DEF CacheIndependent, D
    <2>1. \/ inventories[m] = Absent
          \/ inventories[m] = Opaque /\ D(graph, m)
          \/ inventories[m] = Inventory(Promise!Visible(graph, m)) /\ ~ D(graph, m)
      BY DEF IInv, CacheInv
    <2> QED
      BY <2>1 DEF Absent, Opaque, Inventory, Known
  <1> QED
    BY <1>1, Inductive, PTL

(* A module that is analysed twice is cached with the same inventory.      *)
THEOREM AnalysesAgree == BoxSpec => Identical
  <1>1. IInv /\ [BoxNext]_boxVars =>
            [\A m \in Modules : inventories[m] # Absent =>
                inventories'[m] = inventories[m]]_boxVars
    BY CheckInv DEF BoxNext
  <1> QED
    BY <1>1, Inductive, PTL DEF BoxSpec, Identical

(* What the checkers compute together is what the import graph promises:   *)
(* the results of a run do not depend on the order or the number of them.  *)
THEOREM Refinement == BoxSpec => KeepsPromise
  <1>1. BoxInit => Promise!Init
    BY DEF BoxInit, Promise!Init
  <1>2. IInv /\ [BoxNext]_boxVars => [Promise!Next]_<<graph, results>>
    BY CheckInv DEF BoxNext, boxVars
  <1> QED
    BY <1>1, <1>2, Inductive, PTL DEF BoxSpec, KeepsPromise, Promise!Spec
==============================================================================
