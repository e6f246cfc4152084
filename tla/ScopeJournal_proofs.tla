--------------------------- MODULE ScopeJournal_proofs ---------------------------
(***************************************************************************)
(* Theorems about the branch journal, for every set of names, every test   *)
(* and operation and every depth: undoing the records of an arm takes each *)
(* table back, the delta is the arm's last scope, and so the walk is the   *)
(* one over cloned scopes.                                                 *)
(***************************************************************************)
EXTENDS ScopeJournal, TLAPS

-----------------------------------------------------------------------------
(* Scopes                                                                  *)

\* What a scope is made of, whatever is in it
Shaped(s) ==
    s \in [bind : {s.bind}, ops : {s.ops}, strings : {s.strings},
           guards : {s.guards}, flags : {s.flags}, failed : {s.failed}]

Facts(b) == [b EXCEPT !.provenance = None]

LEMMA ScopeShaped == ASSUME NEW s \in Scope PROVE Shaped(s)
  BY DEF Scope, Shaped

LEMMA ShapedEqual ==
  ASSUME NEW a \in Scope, NEW b \in Scope, Same(a, b),
         a.flags = b.flags, a.failed = b.failed
  PROVE  a = b
  BY DEF Scope, Same

LEMMA UndoneShaped ==
  ASSUME NEW r, NEW s, Shaped(s)
  PROVE  /\ Shaped(Undone(r, s))
         /\ Undone(r, s).flags = s.flags /\ Undone(r, s).failed = s.failed
  BY DEF Undone, Shaped

\* What a record restores does not depend on the flags.
LEMMA UndoneTables ==
  ASSUME NEW r, NEW a, NEW b, Shaped(a), Shaped(b), Same(a, b)
  PROVE  Same(Undone(r, a), Undone(r, b))
  BY DEF Undone, Shaped, Same

LEMMA TablesTyped ==
  ASSUME NEW a, NEW b \in Scope, Shaped(a), Same(a, b),
         a.flags \in SUBSET Flags, a.failed \in SUBSET {"package"}
  PROVE  a \in Scope
  BY DEF Scope, Shaped, Same

-----------------------------------------------------------------------------
(* Logs                                                                    *)

IsLog(L) == \E S : L \in Seq(S)

LEMMA EmptyLog == IsLog(<<>>) /\ Len(<<>>) = 0
  BY DEF IsLog

LEMMA LogAppend ==
  ASSUME NEW L, NEW r, IsLog(L)
  PROVE  /\ IsLog(Append(L, r)) /\ Len(L) \in Nat
         /\ Len(Append(L, r)) = Len(L) + 1
         /\ Append(L, r)[Len(L) + 1] = r
         /\ \A i \in 1 .. Len(L) : Append(L, r)[i] = L[i]
<1>1. PICK S : L \in Seq(S)
  BY DEF IsLog
<1>2. L \in Seq(S \cup {r}) /\ r \in S \cup {r}
  BY <1>1
<1>3. Append(L, r) \in Seq(S \cup {r})
  BY <1>2
<1> QED
  BY <1>2, <1>3 DEF IsLog

LEMMA LogConcat ==
  ASSUME NEW L, NEW M, IsLog(L), IsLog(M)
  PROVE  /\ IsLog(L \o M) /\ Len(L) \in Nat /\ Len(M) \in Nat
         /\ Len(L \o M) = Len(L) + Len(M)
         /\ \A i \in 1 .. Len(L) : (L \o M)[i] = L[i]
         /\ \A i \in Len(L) + 1 .. Len(L) + Len(M) : (L \o M)[i] = M[i - Len(L)]
<1>1. PICK S : L \in Seq(S)
  BY DEF IsLog
<1>2. PICK T : M \in Seq(T)
  BY DEF IsLog
<1>3. L \in Seq(S \cup T) /\ M \in Seq(S \cup T)
  BY <1>1, <1>2
<1>4. L \o M \in Seq(S \cup T)
  BY <1>3
<1> QED
  BY <1>3, <1>4 DEF IsLog

LEMMA LogPrefix ==
  ASSUME NEW L, NEW n \in Nat, IsLog(L), n <= Len(L)
  PROVE  /\ IsLog(SubSeq(L, 1, n)) /\ Len(SubSeq(L, 1, n)) = n
         /\ \A i \in 1 .. n : SubSeq(L, 1, n)[i] = L[i]
<1>1. PICK S : L \in Seq(S)
  BY DEF IsLog
<1>2. SubSeq(L, 1, n) \in Seq(S)
  BY <1>1
<1> QED
  BY <1>1, <1>2 DEF IsLog
-----------------------------------------------------------------------------
(* What a walk pushes                                                      *)

Writes(r, n) == r.kind \in BindingKinds /\ n \in DOMAIN r.saved

\* Record r takes scope `after` back.  A name that it does not hold has the
\* facts it had, and an assignment leaves nothing but a type.
StepOK(r, after) ==
    /\ r.before \in Scope
    /\ Same(Undone(r, after), r.before)
    /\ r.kind \in BindingKinds => DOMAIN r.saved \subseteq Slots
    /\ \A n \in Slots :
          ~ Writes(r, n) => Facts(after.bind[n]) = Facts(r.before.bind[n])
    /\ r.kind = "Assignment" =>
          \A n \in DOMAIN r.saved : after.bind[n] = Plain(after.bind[n].type)

\* The scope that undoing the records of L from the i-th on gives
Pre(L, at, i) == IF i > Len(L) THEN at ELSE L[i].before

Chain(L, at) ==
    /\ IsLog(L)
    /\ \A i \in 1 .. Len(L) : StepOK(L[i], Pre(L, at, i + 1))

\* What the records from + 1 .. to of L say of n, when they lead from scope
\* base to scope s: either none holds n, or the last one that does has all
\* that finish_snapshot reads.
SpanName(L, from, to, base, s, n) ==
    \/ /\ \A i \in from + 1 .. to : ~ Writes(L[i], n)
       /\ Facts(s.bind[n]) = Facts(base.bind[n])
    \/ \E i \in from + 1 .. to :
          /\ Writes(L[i], n)
          /\ \A k \in i + 1 .. to : ~ Writes(L[k], n)
          /\ L[i].kind = "Assignment" =>
                Facts(s.bind[n]) = Facts(Plain(s.bind[n].type))

Span(L, from, to, base, s) ==
    \A n \in Slots : SpanName(L, from, to, base, s, n)

\* Walk W has come from scope s, and its log takes it back there.
Tracks(s, W) ==
    /\ W \in [at : Scope, log : {W.log}]
    /\ Chain(W.log, W.at)
    /\ Same(Pre(W.log, W.at, 1), s)
    /\ Span(W.log, 0, Len(W.log), s, W.at)

LEMMA StepTables ==
  ASSUME NEW r, NEW a \in Scope, NEW b \in Scope, Same(a, b), StepOK(r, a)
  PROVE  StepOK(r, b)
<1>1. Same(Undone(r, a), Undone(r, b))
  BY ScopeShaped, UndoneTables
<1>2. Same(Undone(r, b), r.before)
  BY <1>1 DEF Same, StepOK
<1> QED
  BY <1>2 DEF StepOK, Same

LEMMA TracksHere == ASSUME NEW s \in Scope PROVE Tracks(s, Here(s))
  BY EmptyLog DEF Tracks, Here, Chain, Pre, Span, SpanName, Same

\* A change of what no record holds
LEMMA TracksTables ==
  ASSUME NEW s, NEW W, NEW new \in Scope, Tracks(s, W), Same(new, W.at)
  PROVE  Tracks(s, [at |-> new, log |-> W.log])
<1> DEFINE V == [at |-> new, log |-> W.log]
           L == W.log
<1>1. V.at = new /\ V.log = L /\ V \in [at : Scope, log : {V.log}]
  OBVIOUS
<1>2. W.at \in Scope /\ Chain(L, W.at) /\ IsLog(L) /\ Len(L) \in Nat
  BY LogAppend DEF Tracks, Chain
<1>3. Chain(L, new)
  <2>1. ASSUME NEW i \in 1 .. Len(L) PROVE StepOK(L[i], Pre(L, new, i + 1))
    <3>1. StepOK(L[i], Pre(L, W.at, i + 1))
      BY <1>2 DEF Chain
    <3>2. CASE i < Len(L)
      BY <1>2, <3>1, <3>2 DEF Pre
    <3>3. CASE i = Len(L)
      BY <1>2, <3>1, <3>3, StepTables DEF Pre, Same
    <3> QED
      BY <1>2, <3>2, <3>3
  <2> QED
    BY <1>2, <2>1 DEF Chain
<1>4. Same(Pre(L, new, 1), s)
  BY DEF Tracks, Pre, Same
<1>5. Span(L, 0, Len(L), s, new)
  BY DEF Tracks, Span, SpanName, Same
<1> HIDE DEF V
<1> QED
  BY <1>1, <1>3, <1>4, <1>5 DEF Tracks

\* A binding outlives a record that does not hold it.
LEMMA SpanStep ==
  ASSUME NEW L, NEW M, NEW from \in Nat, NEW to \in Nat, from <= to,
         \A i \in 1 .. to : M[i] = L[i],
         NEW base, NEW s, NEW new, Span(L, from, to, base, s),
         M[to + 1].before = s, StepOK(M[to + 1], new)
  PROVE  Span(M, from, to + 1, base, new)
<1> SUFFICES ASSUME NEW n \in Slots PROVE SpanName(M, from, to + 1, base, new, n)
  BY DEF Span
<1> DEFINE r == M[to + 1]
<1>1. SpanName(L, from, to, base, s, n)
  BY DEF Span
<1>2. CASE Writes(r, n)
  <2>1. r.kind = "Assignment" => Facts(new.bind[n]) = Facts(Plain(new.bind[n].type))
    BY <1>2 DEF StepOK, Writes
  <2>2. to + 1 \in from + 1 .. to + 1 /\ (to + 1) + 1 .. to + 1 = {}
    OBVIOUS
  <2> QED
    BY <1>2, <2>1, <2>2 DEF SpanName
<1>3. CASE ~ Writes(r, n)
  <2>1. Facts(new.bind[n]) = Facts(s.bind[n])
    BY <1>3 DEF StepOK
  <2>2. CASE /\ \A i \in from + 1 .. to : ~ Writes(L[i], n)
             /\ Facts(s.bind[n]) = Facts(base.bind[n])
    <3>1. \A i \in from + 1 .. to + 1 : ~ Writes(M[i], n)
      BY <1>3, <2>2
    <3> QED
      BY <2>1, <2>2, <3>1 DEF SpanName
  <2>3. ASSUME NEW i \in from + 1 .. to,
               Writes(L[i], n), \A k \in i + 1 .. to : ~ Writes(L[k], n),
               L[i].kind = "Assignment" =>
                  Facts(s.bind[n]) = Facts(Plain(s.bind[n].type))
        PROVE  SpanName(M, from, to + 1, base, new, n)
    <3>1. Facts(new.bind[n]).type = new.bind[n].type
      BY DEF Facts
    <3>2. Facts(s.bind[n]).type = s.bind[n].type
      BY DEF Facts
    <3>3. /\ i \in from + 1 .. to + 1 /\ Writes(M[i], n)
          /\ \A k \in i + 1 .. to + 1 : ~ Writes(M[k], n)
      BY <1>3, <2>3
    <3>4. M[i] = L[i]
      OBVIOUS
    <3> QED
      BY <2>1, <2>3, <3>1, <3>2, <3>3, <3>4 DEF SpanName
  <2> QED
    BY <1>1, <2>2, <2>3 DEF SpanName
<1> QED
  BY <1>2, <1>3

\* A change and its record
LEMMA TracksRecord ==
  ASSUME NEW s, NEW W, NEW new \in Scope, NEW kind, NEW saved, Tracks(s, W),
         StepOK([kind |-> kind, saved |-> saved, before |-> W.at], new)
  PROVE  Tracks(s, Recorded(W, kind, saved, new))
<1> DEFINE r == [kind |-> kind, saved |-> saved, before |-> W.at]
           L == W.log
           M == Append(L, r)
           V == Recorded(W, kind, saved, new)
<1>1. V.at = new /\ V.log = M /\ V \in [at : Scope, log : {V.log}]
  BY DEF Recorded
<1>2. /\ W.at \in Scope /\ Chain(L, W.at) /\ IsLog(L) /\ Len(L) \in Nat
      /\ Same(Pre(L, W.at, 1), s) /\ Span(L, 0, Len(L), s, W.at)
  BY LogAppend DEF Tracks, Chain
<1>3. r.before = W.at /\ StepOK(r, new)
  OBVIOUS
<1> HIDE DEF r
<1>4. /\ IsLog(M) /\ Len(M) = Len(L) + 1 /\ M[Len(L) + 1] = r
      /\ \A i \in 1 .. Len(L) : M[i] = L[i]
  BY <1>2, LogAppend
<1> HIDE DEF V, M
<1>5. Chain(M, new)
  <2>1. ASSUME NEW i \in 1 .. Len(M) PROVE StepOK(M[i], Pre(M, new, i + 1))
    <3>1. CASE i = Len(L) + 1
      BY <1>2, <1>3, <1>4, <3>1 DEF Pre
    <3>2. CASE i \in 1 .. Len(L)
      <4>1. StepOK(L[i], Pre(L, W.at, i + 1))
        BY <1>2, <3>2 DEF Chain
      <4>2. Pre(M, new, i + 1) = Pre(L, W.at, i + 1)
        BY <1>2, <1>3, <1>4, <3>2 DEF Pre
      <4> QED
        BY <1>4, <3>2, <4>1, <4>2
    <3> QED
      BY <1>2, <1>4, <3>1, <3>2
  <2> QED
    BY <1>4, <2>1 DEF Chain
<1>6. Same(Pre(M, new, 1), s)
  <2>1. Pre(M, new, 1) = Pre(L, W.at, 1)
    BY <1>2, <1>3, <1>4 DEF Pre
  <2> QED
    BY <1>2, <2>1
<1>7. Span(M, 0, Len(M), s, new)
  <2>1. /\ 0 \in Nat /\ 0 <= Len(L)
        /\ M[Len(L) + 1].before = W.at /\ StepOK(M[Len(L) + 1], new)
    BY <1>2, <1>3, <1>4
  <2>2. Span(M, 0, Len(L) + 1, s, new)
    BY <1>2, <1>4, <2>1, SpanStep
  <2> QED
    BY <1>4, <2>2
<1>8. Tracks(s, V)
  BY <1>1, <1>5, <1>6, <1>7 DEF Tracks
<1> QED
  BY <1>8 DEF V

-----------------------------------------------------------------------------
(* The records                                                             *)

LEMMA OverTyped ==
  ASSUME NEW D, NEW V, NEW g \in [D -> V], NEW f,
         DOMAIN f \subseteq D, \A x \in DOMAIN f : f[x] \in V
  PROVE  /\ Over(f, g) \in [D -> V]
         /\ \A x \in D : Over(f, g)[x] = IF x \in DOMAIN f THEN f[x] ELSE g[x]
<1>1. DOMAIN f \cup DOMAIN g = D
  OBVIOUS
<1> QED
  BY <1>1 DEF Over

\* Putting back what a change replaced
LEMMA OverBack ==
  ASSUME NEW D, NEW V, NEW g \in [D -> V], NEW f, NEW old,
         DOMAIN f \subseteq D, \A x \in DOMAIN f : f[x] \in V,
         DOMAIN old = DOMAIN f, \A x \in DOMAIN f : old[x] = g[x]
  PROVE  Over(old, Over(f, g)) = g
<1>1. /\ Over(f, g) \in [D -> V]
      /\ \A x \in D : Over(f, g)[x] = IF x \in DOMAIN f THEN f[x] ELSE g[x]
  BY OverTyped
<1> DEFINE h == Over(f, g)
<1> HIDE DEF h
<1>2. DOMAIN old \subseteq D /\ \A x \in DOMAIN old : old[x] \in V
  OBVIOUS
<1>3. /\ Over(old, h) \in [D -> V]
      /\ \A x \in D : Over(old, h)[x] = IF x \in DOMAIN old THEN old[x] ELSE h[x]
  BY <1>1, <1>2, OverTyped DEF h
<1>4. \A x \in D : Over(old, h)[x] = g[x]
  BY <1>1, <1>3 DEF h
<1> QED
  BY <1>3, <1>4 DEF h

\* Whole bindings, or one field of them
LEMMA TracksBindings ==
  ASSUME NEW s, NEW W, Tracks(s, W), NEW kind \in BindingKinds, NEW saved, NEW f,
         DOMAIN f \subseteq Slots, DOMAIN saved = DOMAIN f,
         \A n \in DOMAIN f :
            /\ f[n] \in Binding
            /\ Restored(kind, saved[n], f[n]) = W.at.bind[n]
            /\ kind = "Assignment" => f[n] = Plain(f[n].type)
  PROVE  Tracks(s, Recorded(W, kind, saved, [W.at EXCEPT !.bind = Over(f, @)]))
<1> DEFINE g == W.at.bind
           h == Over(f, g)
           new == [W.at EXCEPT !.bind = h]
           r == [kind |-> kind, saved |-> saved, before |-> W.at]
           back == [n \in DOMAIN saved |-> Restored(kind, saved[n], h[n])]
<1>1. W.at \in Scope /\ g \in [Slots -> Binding]
  BY DEF Tracks, Scope
<1>2. /\ h \in [Slots -> Binding]
      /\ \A n \in Slots : h[n] = IF n \in DOMAIN f THEN f[n] ELSE g[n]
  <2>1. DOMAIN f \subseteq Slots /\ \A n \in DOMAIN f : f[n] \in Binding
    OBVIOUS
  <2> HIDE DEF g
  <2> QED
    BY <1>1, <2>1, OverTyped
<1>3. Over(back, h) = g
  <2>1. DOMAIN back = DOMAIN f /\ \A n \in DOMAIN f : back[n] = g[n]
    BY <1>2
  <2> HIDE DEF back
  <2> QED
    BY <1>1, <2>1, OverBack
<1> HIDE DEF h
<1>4. /\ new \in Scope /\ new.bind = h /\ new.ops = W.at.ops
      /\ new.strings = W.at.strings /\ new.guards = W.at.guards
  BY <1>1, <1>2 DEF Scope
<1> HIDE DEF new
<1>5. Undone(r, new) = [new EXCEPT !.bind = Over(back, @)]
  BY <1>4 DEF Undone, BindingKinds, MarkerKinds
<1>6. Same(Undone(r, new), W.at)
  BY <1>3, <1>4, <1>5 DEF Same, Scope
<1>7. \A n \in Slots : ~ Writes(r, n) => Facts(new.bind[n]) = Facts(W.at.bind[n])
  BY <1>2, <1>4 DEF Writes
<1>8. kind = "Assignment" =>
         \A n \in DOMAIN saved : new.bind[n] = Plain(new.bind[n].type)
  BY <1>2, <1>4
<1>9. StepOK(r, new)
  BY <1>1, <1>6, <1>7, <1>8 DEF StepOK
<1> QED
  BY <1>4, <1>9, TracksRecord DEF new, h

LEMMA OverRestores ==
  ASSUME NEW D, NEW V, NEW g \in [D -> V], NEW h \in [D -> V], NEW old,
         DOMAIN old \subseteq D, \A x \in DOMAIN old : old[x] = g[x],
         \A x \in D \ DOMAIN old : h[x] = g[x]
  PROVE  Over(old, h) = g
<1>1. DOMAIN old \subseteq D /\ \A x \in DOMAIN old : old[x] \in V
  OBVIOUS
<1>2. /\ Over(old, h) \in [D -> V]
      /\ \A x \in D : Over(old, h)[x] = IF x \in DOMAIN old THEN old[x] ELSE h[x]
  BY <1>1, OverTyped
<1>3. \A x \in D : Over(old, h)[x] = g[x]
  BY <1>2
<1> QED
  BY <1>2, <1>3

\* A table by canonical names: the record holds what has changed.
LEMMA TracksStrings ==
  ASSUME NEW s, NEW W, Tracks(s, W), NEW kind \in {"KnownString", "KnownStrings"},
         NEW D \in SUBSET Canonical, NEW table \in [Canonical -> BOOLEAN],
         \A c \in Canonical \ D : table[c] = W.at.strings[c]
  PROVE  Tracks(s, Recorded(W, kind, Restrict(W.at.strings, D),
                            [W.at EXCEPT !.strings = table]))
<1> DEFINE saved == Restrict(W.at.strings, D)
           new == [W.at EXCEPT !.strings = table]
           r == [kind |-> kind, saved |-> saved, before |-> W.at]
<1>1. W.at \in Scope /\ W.at.strings \in [Canonical -> BOOLEAN]
  BY DEF Tracks, Scope
<1>2. new \in Scope /\ Same(W.at, [new EXCEPT !.strings = W.at.strings])
  BY <1>1 DEF Scope, Same
<1>3. DOMAIN saved = D /\ \A c \in D : saved[c] = W.at.strings[c]
  BY DEF Restrict
<1> HIDE DEF saved
<1>4. Over(saved, table) = W.at.strings
  BY <1>1, <1>3, OverRestores
<1>5. new.strings = table /\ new.bind = W.at.bind
  BY <1>1 DEF Scope
<1> HIDE DEF new
<1>6. Undone(r, new) = [new EXCEPT !.strings = W.at.strings]
  BY <1>4, <1>5 DEF Undone
<1>7. StepOK(r, new)
  BY <1>1, <1>2, <1>5, <1>6 DEF StepOK, Same, Writes, BindingKinds, MarkerKinds
<1> QED
  BY <1>2, <1>7, TracksRecord DEF new, saved

LEMMA TracksGuards ==
  ASSUME NEW s, NEW W, Tracks(s, W),
         NEW kind \in {"ConditionAlias", "ConditionAliases"},
         NEW D \in SUBSET Canonical, NEW table \in [Canonical -> SUBSET Canonical],
         \A c \in Canonical \ D : table[c] = W.at.guards[c]
  PROVE  Tracks(s, Recorded(W, kind, Restrict(W.at.guards, D),
                            [W.at EXCEPT !.guards = table]))
<1> DEFINE saved == Restrict(W.at.guards, D)
           new == [W.at EXCEPT !.guards = table]
           r == [kind |-> kind, saved |-> saved, before |-> W.at]
<1>1. W.at \in Scope /\ W.at.guards \in [Canonical -> SUBSET Canonical]
  BY DEF Tracks, Scope
<1>2. new \in Scope /\ Same(W.at, [new EXCEPT !.guards = W.at.guards])
  BY <1>1 DEF Scope, Same
<1>3. DOMAIN saved = D /\ \A c \in D : saved[c] = W.at.guards[c]
  BY DEF Restrict
<1> HIDE DEF saved
<1>4. Over(saved, table) = W.at.guards
  BY <1>1, <1>3, OverRestores
<1>5. new.guards = table /\ new.bind = W.at.bind
  BY <1>1 DEF Scope
<1> HIDE DEF new
<1>6. Undone(r, new) = [new EXCEPT !.guards = W.at.guards]
  BY <1>4, <1>5 DEF Undone
<1>7. StepOK(r, new)
  BY <1>1, <1>2, <1>5, <1>6 DEF StepOK, Same, Writes, BindingKinds, MarkerKinds
<1> QED
  BY <1>2, <1>7, TracksRecord DEF new, saved

LEMMA TracksOps ==
  ASSUME NEW s, NEW W, Tracks(s, W), NEW kind \in {"OpsBinding", "OpsTables"},
         NEW D \in SUBSET Canonical, NEW table \in [Canonical -> SUBSET OpsFacts],
         \A c \in Canonical \ D : table[c] = W.at.ops[c]
  PROVE  Tracks(s, Recorded(W, kind, Restrict(W.at.ops, D),
                            [W.at EXCEPT !.ops = table]))
<1> DEFINE saved == Restrict(W.at.ops, D)
           new == [W.at EXCEPT !.ops = table]
           r == [kind |-> kind, saved |-> saved, before |-> W.at]
<1>1. W.at \in Scope /\ W.at.ops \in [Canonical -> SUBSET OpsFacts]
  BY DEF Tracks, Scope
<1>2. new \in Scope /\ Same(W.at, [new EXCEPT !.ops = W.at.ops])
  BY <1>1 DEF Scope, Same
<1>3. DOMAIN saved = D /\ \A c \in D : saved[c] = W.at.ops[c]
  BY DEF Restrict
<1> HIDE DEF saved
<1>4. Over(saved, table) = W.at.ops
  BY <1>1, <1>3, OverRestores
<1>5. new.ops = table /\ new.bind = W.at.bind
  BY <1>1 DEF Scope
<1> HIDE DEF new
<1>6. Undone(r, new) = [new EXCEPT !.ops = W.at.ops]
  BY <1>4, <1>5 DEF Undone
<1>7. StepOK(r, new)
  BY <1>1, <1>2, <1>5, <1>6 DEF StepOK, Same, Writes, BindingKinds, MarkerKinds
<1> QED
  BY <1>2, <1>7, TracksRecord DEF new, saved

\* The whole table restricted to its domain is the table.
LEMMA RestrictAll ==
  ASSUME NEW V, NEW g \in [Canonical -> V] PROVE Restrict(g, Canonical) = g
  BY DEF Restrict

-----------------------------------------------------------------------------
(* The methods: facts by canonical name, and flags                         *)

LEMMA TracksFlagged ==
  ASSUME NEW s, NEW W, Tracks(s, W), NEW set \in SUBSET Flags
  PROVE  Tracks(s, Flagged(W, set))
<1> DEFINE new == [W.at EXCEPT !.flags = @ \cup set]
<1>1. W \in [at : Scope, log : {W.log}]
  BY DEF Tracks
<1>2. new \in Scope /\ Same(new, W.at)
  BY <1>1 DEF Scope, Same
<1>3. Flagged(W, set) = [at |-> new, log |-> W.log]
  BY <1>1 DEF Flagged
<1> QED
  BY <1>2, <1>3, TracksTables

LEMMA TracksFailed ==
  ASSUME NEW s, NEW W, Tracks(s, W), NEW failed \in SUBSET {"package"}
  PROVE  Tracks(s, [W EXCEPT !.at.failed = failed])
<1> DEFINE new == [W.at EXCEPT !.failed = failed]
<1>1. W \in [at : Scope, log : {W.log}]
  BY DEF Tracks
<1>2. new \in Scope /\ Same(new, W.at)
  BY <1>1 DEF Scope, Same
<1>3. [W EXCEPT !.at.failed = failed] = [at |-> new, log |-> W.log]
  BY <1>1
<1> HIDE DEF new
<1>4. Tracks(s, [at |-> new, log |-> W.log])
  BY <1>2, TracksTables
<1> QED
  BY <1>3, <1>4

LEMMA TracksClearString ==
  ASSUME NEW s, NEW W, Tracks(s, W), NEW C \in SUBSET Canonical
  PROVE  Tracks(s, ClearString(W, C))
<1> DEFINE known == {c \in C : W.at.strings[c]}
           f == [c \in known |-> FALSE]
           table == Over(f, W.at.strings)
<1>1. W.at.strings \in [Canonical -> BOOLEAN]
  BY DEF Tracks, Scope
<1>2. DOMAIN f = known /\ known \in SUBSET Canonical /\ \A c \in known : f[c] \in BOOLEAN
  OBVIOUS
<1> HIDE DEF f, known
<1>3. /\ table \in [Canonical -> BOOLEAN]
      /\ \A c \in Canonical \ known : table[c] = W.at.strings[c]
  BY <1>1, <1>2, OverTyped
<1>4. [W.at EXCEPT !.strings = table] = [W.at EXCEPT !.strings = Over(f, @)]
  OBVIOUS
<1> HIDE DEF table
<1>5. Tracks(s, Recorded(W, "KnownString", Restrict(W.at.strings, known),
                         [W.at EXCEPT !.strings = table]))
  BY <1>2, <1>3, TracksStrings
<1> QED
  BY <1>4, <1>5 DEF ClearString, known, table, f

LEMMA TracksClearStrings ==
  ASSUME NEW s, NEW W, Tracks(s, W) PROVE Tracks(s, ClearStrings(W))
<1> DEFINE table == [c \in Canonical |-> FALSE]
<1>1. /\ table \in [Canonical -> BOOLEAN]
      /\ \A c \in Canonical \ Canonical : table[c] = W.at.strings[c]
  OBVIOUS
<1>2. Restrict(W.at.strings, Canonical) = W.at.strings
  BY RestrictAll DEF Tracks, Scope
<1> HIDE DEF table
<1>3. Tracks(s, Recorded(W, "KnownStrings", Restrict(W.at.strings, Canonical),
                         [W.at EXCEPT !.strings = table]))
  BY <1>1, TracksStrings
<1> QED
  BY <1>2, <1>3 DEF ClearStrings, table

LEMMA TracksSetString ==
  ASSUME NEW s, NEW W, Tracks(s, W), NEW c \in Canonical
  PROVE  Tracks(s, SetString(W, c))
<1> DEFINE table == [W.at.strings EXCEPT ![c] = TRUE]
<1>1. W.at \in Scope /\ W.at.strings \in [Canonical -> BOOLEAN]
  BY DEF Tracks, Scope
<1>2. /\ table \in [Canonical -> BOOLEAN]
      /\ \A d \in Canonical \ {c} : table[d] = W.at.strings[d]
  BY <1>1
<1>3. [W.at EXCEPT !.strings = table] = [W.at EXCEPT !.strings[c] = TRUE]
  OBVIOUS
<1> HIDE DEF table
<1>4. Tracks(s, Recorded(W, "KnownString", Restrict(W.at.strings, {c}),
                         [W.at EXCEPT !.strings = table]))
  BY <1>2, TracksStrings
<1> QED
  BY <1>3, <1>4 DEF SetString

LEMMA TracksInvalidateLiterals ==
  ASSUME NEW s, NEW W, Tracks(s, W) PROVE Tracks(s, InvalidateLiterals(W))
<1>1. {"literal_values"} \in SUBSET Flags
  BY DEF Flags, Sticky
<1> QED
  BY <1>1, TracksClearStrings, TracksFlagged DEF InvalidateLiterals

LEMMA TracksDropGuards ==
  ASSUME NEW s, NEW W, Tracks(s, W), NEW C
  PROVE  Tracks(s, DropGuards(W, C))
<1> DEFINE lost == {c \in Canonical : /\ W.at.guards[c] # {}
                                      /\ ({c} \cup W.at.guards[c]) \cap C # {}}
           f == [c \in lost |-> {}]
           table == Over(f, W.at.guards)
<1>1. W.at.guards \in [Canonical -> SUBSET Canonical]
  BY DEF Tracks, Scope
<1>2. /\ DOMAIN f = lost /\ lost \in SUBSET Canonical
      /\ \A c \in lost : f[c] \in SUBSET Canonical
  OBVIOUS
<1> HIDE DEF f, lost
<1>3. /\ table \in [Canonical -> SUBSET Canonical]
      /\ \A c \in Canonical \ lost : table[c] = W.at.guards[c]
  <2> DEFINE V == SUBSET Canonical
  <2>1. W.at.guards \in [Canonical -> V] /\ \A c \in DOMAIN f : f[c] \in V
    BY <1>1, <1>2
  <2> HIDE DEF V
  <2>2. /\ table \in [Canonical -> V]
        /\ \A c \in Canonical : table[c] = IF c \in DOMAIN f THEN f[c]
                                            ELSE W.at.guards[c]
    BY <1>2, <2>1, OverTyped
  <2> QED
    BY <1>2, <2>2 DEF V
<1>4. [W.at EXCEPT !.guards = table] = [W.at EXCEPT !.guards = Over(f, @)]
  OBVIOUS
<1> HIDE DEF table
<1>5. Tracks(s, Recorded(W, "ConditionAlias", Restrict(W.at.guards, lost),
                         [W.at EXCEPT !.guards = table]))
  BY <1>2, <1>3, TracksGuards
<1> QED
  BY <1>4, <1>5 DEF DropGuards, lost, table, f

LEMMA TracksClearGuards ==
  ASSUME NEW s, NEW W, Tracks(s, W) PROVE Tracks(s, ClearGuards(W))
<1> DEFINE table == [c \in Canonical |-> {}]
<1>1. /\ table \in [Canonical -> SUBSET Canonical]
      /\ \A c \in Canonical \ Canonical : table[c] = W.at.guards[c]
  OBVIOUS
<1>2. Restrict(W.at.guards, Canonical) = W.at.guards
  BY RestrictAll DEF Tracks, Scope
<1> HIDE DEF table
<1>3. Tracks(s, Recorded(W, "ConditionAliases", Restrict(W.at.guards, Canonical),
                         [W.at EXCEPT !.guards = table]))
  BY <1>1, TracksGuards
<1> QED
  BY <1>2, <1>3 DEF ClearGuards, table

LEMMA TracksSetGuard ==
  ASSUME NEW s, NEW W, Tracks(s, W), NEW c \in Canonical,
         NEW reads \in SUBSET Canonical
  PROVE  Tracks(s, SetGuard(W, c, reads))
<1> DEFINE table == [W.at.guards EXCEPT ![c] = reads]
<1>1. W.at \in Scope /\ W.at.guards \in [Canonical -> SUBSET Canonical]
  BY DEF Tracks, Scope
<1>2. /\ table \in [Canonical -> SUBSET Canonical]
      /\ \A d \in Canonical \ {c} : table[d] = W.at.guards[d]
  BY <1>1
<1>3. [W.at EXCEPT !.guards = table] = [W.at EXCEPT !.guards[c] = reads]
  OBVIOUS
<1> HIDE DEF table
<1>4. Tracks(s, Recorded(W, "ConditionAlias", Restrict(W.at.guards, {c}),
                         [W.at EXCEPT !.guards = table]))
  BY <1>2, TracksGuards
<1> QED
  BY <1>3, <1>4 DEF SetGuard

LEMMA TracksClearOps ==
  ASSUME NEW s, NEW W, Tracks(s, W), NEW C \in SUBSET Canonical
  PROVE  Tracks(s, ClearOps(W, C)) /\ ClearOps(W, C).at.bind = W.at.bind
<1> DEFINE known == {c \in C : W.at.ops[c] # {}}
           f == [c \in known |-> {}]
           table == Over(f, W.at.ops)
<1>1. W.at \in Scope /\ W.at.ops \in [Canonical -> SUBSET OpsFacts]
  BY DEF Tracks, Scope
<1>2. /\ DOMAIN f = known /\ known \in SUBSET Canonical
      /\ \A c \in known : f[c] \in SUBSET OpsFacts
  OBVIOUS
<1> HIDE DEF f, known
<1>3. /\ table \in [Canonical -> SUBSET OpsFacts]
      /\ \A c \in Canonical \ known : table[c] = W.at.ops[c]
  <2> DEFINE V == SUBSET OpsFacts
  <2>1. W.at.ops \in [Canonical -> V] /\ \A c \in DOMAIN f : f[c] \in V
    BY <1>1, <1>2
  <2> HIDE DEF V
  <2>2. /\ table \in [Canonical -> V]
        /\ \A c \in Canonical : table[c] = IF c \in DOMAIN f THEN f[c]
                                            ELSE W.at.ops[c]
    BY <1>2, <2>1, OverTyped
  <2> QED
    BY <1>2, <2>2 DEF V
<1>4. [W.at EXCEPT !.ops = table] = [W.at EXCEPT !.ops = Over(f, @)]
  OBVIOUS
<1> HIDE DEF table
<1>5. Tracks(s, Recorded(W, "OpsBinding", Restrict(W.at.ops, known),
                         [W.at EXCEPT !.ops = table]))
  BY <1>2, <1>3, TracksOps
<1>6. Recorded(W, "OpsBinding", Restrict(W.at.ops, known),
               [W.at EXCEPT !.ops = table]).at.bind = W.at.bind
  BY <1>1 DEF Recorded, Scope
<1> QED
  BY <1>4, <1>5, <1>6 DEF ClearOps, known, table, f

LEMMA TracksClearOpsFacts ==
  ASSUME NEW s, NEW W, Tracks(s, W) PROVE Tracks(s, ClearOpsFacts(W))
<1> DEFINE table == [c \in Canonical |-> {}]
<1>1. /\ table \in [Canonical -> SUBSET OpsFacts]
      /\ \A c \in Canonical \ Canonical : table[c] = W.at.ops[c]
  OBVIOUS
<1>2. Restrict(W.at.ops, Canonical) = W.at.ops
  BY RestrictAll DEF Tracks, Scope
<1> HIDE DEF table
<1>3. Tracks(s, Recorded(W, "OpsTables", Restrict(W.at.ops, Canonical),
                         [W.at EXCEPT !.ops = table]))
  BY <1>1, TracksOps
<1> QED
  BY <1>2, <1>3 DEF ClearOpsFacts, table

LEMMA TracksAddOpsFact ==
  ASSUME NEW s, NEW W, Tracks(s, W), NEW c \in Canonical, NEW fact \in OpsFacts
  PROVE  Tracks(s, AddOpsFact(W, c, fact))
<1> DEFINE table == [W.at.ops EXCEPT ![c] = @ \cup {fact}]
<1>1. W.at \in Scope /\ W.at.ops \in [Canonical -> SUBSET OpsFacts]
  BY DEF Tracks, Scope
<1>2. /\ table \in [Canonical -> SUBSET OpsFacts]
      /\ \A d \in Canonical \ {c} : table[d] = W.at.ops[d]
  BY <1>1
<1>3. [W.at EXCEPT !.ops = table] = [W.at EXCEPT !.ops[c] = @ \cup {fact}]
  OBVIOUS
<1> HIDE DEF table
<1>4. Tracks(s, Recorded(W, "OpsBinding", Restrict(W.at.ops, {c}),
                         [W.at EXCEPT !.ops = table]))
  BY <1>2, TracksOps
<1> QED
  BY <1>3, <1>4 DEF AddOpsFact

-----------------------------------------------------------------------------
(* The methods: facts by name                                              *)

LEMMA WalkBindings ==
  ASSUME NEW s, NEW W, Tracks(s, W)
  PROVE  W.at \in Scope /\ W.at.bind \in [Slots -> Binding]
  BY DEF Tracks, Scope

LEMMA CanonsTyped ==
  ASSUME NEW set \in SUBSET Slots PROVE CanonsOf(set) \in SUBSET Canonical
  BY NamesAssumption DEF CanonsOf

LEMMA TracksChanged ==
  ASSUME NEW s, NEW W, Tracks(s, W), NEW kind \in BindingKinds, NEW saved, NEW f,
         DOMAIN f \subseteq Slots, DOMAIN saved = DOMAIN f,
         \A n \in DOMAIN f :
            /\ f[n] \in Binding
            /\ Restored(kind, saved[n], f[n]) = W.at.bind[n]
            /\ kind = "Assignment" => f[n] = Plain(f[n].type)
  PROVE  Tracks(s, Changed(W, kind, saved, f))
<1>1. Tracks(s, Recorded(W, kind, saved, [W.at EXCEPT !.bind = Over(f, @)]))
  BY TracksBindings
<1> QED
  BY <1>1 DEF Changed

LEMMA RestoredWhole ==
  ASSUME NEW old, NEW now PROVE Restored("Binding", old, now) = old
  BY DEF Restored, MarkerKinds

LEMMA TracksRebound ==
  ASSUME NEW s, NEW W, Tracks(s, W), NEW f, DOMAIN f \subseteq Slots,
         \A n \in DOMAIN f : f[n] \in Binding
  PROVE  Tracks(s, Rebound(W, f))
<1> DEFINE saved == Restrict(W.at.bind, DOMAIN f)
<1>1. /\ DOMAIN saved = DOMAIN f /\ "Binding" \in BindingKinds
      /\ \A n \in DOMAIN f : saved[n] = W.at.bind[n]
  BY DEF Restrict, BindingKinds
<1> HIDE DEF saved
<1>3. \A n \in DOMAIN f : Restored("Binding", saved[n], f[n]) = W.at.bind[n]
  BY <1>1, RestoredWhole
<1>2. Tracks(s, Recorded(W, "Binding", saved, [W.at EXCEPT !.bind = Over(f, @)]))
  BY <1>1, <1>3, TracksBindings
<1> QED
  BY <1>2 DEF Rebound, saved

LEMMA RestoredMark ==
  ASSUME NEW m \in MarkerKinds, NEW b \in Binding, NEW marks \in SUBSET Marks,
         marks \ {m} = b.marks \ {m}
  PROVE  LET now == [b EXCEPT !.marks = marks]
         IN  now \in Binding /\ Restored(m, m \in b.marks, now) = b
<1> DEFINE now == [b EXCEPT !.marks = marks]
           back == [now EXCEPT !.marks = IF m \in b.marks THEN @ \cup {m}
                                         ELSE @ \ {m}]
<1>1. now \in Binding /\ now.marks = marks
  BY DEF Binding
<1>2. Restored(m, m \in b.marks, now) = back
  BY DEF Restored, MarkerKinds
<1>3. b.marks \in SUBSET Marks
  BY DEF Binding
<1>4. (IF m \in b.marks THEN marks \cup {m} ELSE marks \ {m}) = b.marks
  BY <1>3
<1>5. back = b
  BY <1>1, <1>4 DEF Binding
<1> QED
  BY <1>1, <1>2, <1>5

LEMMA TracksMark ==
  ASSUME NEW s, NEW W, Tracks(s, W), NEW set \in SUBSET Slots, NEW m \in MarkerKinds
  PROVE  Tracks(s, Mark(W, set, m))
<1> DEFINE saved == [n \in set |-> m \in W.at.bind[n].marks]
           f == [n \in set |-> [W.at.bind[n] EXCEPT !.marks = @ \cup {m}]]
<1>1. m \in BindingKinds /\ m \in Marks /\ m # "Assignment"
  BY DEF BindingKinds, MarkerKinds, Marks
<1>2. ASSUME NEW n \in set
      PROVE  f[n] \in Binding /\ Restored(m, saved[n], f[n]) = W.at.bind[n]
  <2> DEFINE b == W.at.bind[n]
  <2>1. b \in Binding /\ b.marks \in SUBSET Marks
    BY WalkBindings DEF Binding
  <2>2. saved[n] = (m \in b.marks) /\ f[n] = [b EXCEPT !.marks = b.marks \cup {m}]
    OBVIOUS
  <2> HIDE DEF saved, f
  <2>3. /\ b.marks \cup {m} \in SUBSET Marks
        /\ (b.marks \cup {m}) \ {m} = b.marks \ {m}
    BY <1>1, <2>1
  <2> HIDE DEF b
  <2> DEFINE now == [b EXCEPT !.marks = b.marks \cup {m}]
  <2>4. now \in Binding /\ Restored(m, m \in b.marks, now) = b
    BY <2>1, <2>3, RestoredMark
  <2> HIDE DEF now
  <2>5. f[n] \in Binding /\ Restored(m, saved[n], f[n]) = b
    BY <2>2, <2>4 DEF now
  <2> QED
    BY <2>5 DEF b
<1>3. DOMAIN f = set /\ DOMAIN saved = set
  OBVIOUS
<1> HIDE DEF saved, f
<1>4. Tracks(s, Changed(W, m, saved, f))
  BY <1>1, <1>2, <1>3, TracksChanged
<1> QED
  BY <1>4 DEF Mark, saved, f

LEMMA TracksMarkNew ==
  ASSUME NEW s, NEW W, Tracks(s, W), NEW set \in SUBSET Slots, NEW m \in MarkerKinds
  PROVE  Tracks(s, MarkNew(W, set, m))
<1>1. set \ Marked(W.at, m) \in SUBSET Slots
  OBVIOUS
<1> QED
  BY <1>1, TracksMark DEF MarkNew

LEMMA TracksUnmark ==
  ASSUME NEW s, NEW W, Tracks(s, W), NEW set \in SUBSET Slots, NEW m \in MarkerKinds
  PROVE  Tracks(s, Unmark(W, set, m))
<1> DEFINE had == set \cap Marked(W.at, m)
           saved == [n \in had |-> TRUE]
           f == [n \in had |-> [W.at.bind[n] EXCEPT !.marks = @ \ {m}]]
<1>1. m \in BindingKinds /\ m \in Marks /\ m # "Assignment"
  BY DEF BindingKinds, MarkerKinds, Marks
<1>2. ASSUME NEW n \in had
      PROVE  f[n] \in Binding /\ Restored(m, saved[n], f[n]) = W.at.bind[n]
  <2> DEFINE b == W.at.bind[n]
  <2>1. b \in Binding /\ b.marks \in SUBSET Marks /\ m \in b.marks
    BY WalkBindings DEF Binding, Marked
  <2>2. saved[n] = TRUE /\ f[n] = [b EXCEPT !.marks = b.marks \ {m}]
    OBVIOUS
  <2> HIDE DEF saved, f, had
  <2>3. b.marks \ {m} \in SUBSET Marks /\ (b.marks \ {m}) \ {m} = b.marks \ {m}
    BY <2>1
  <2>4. (m \in b.marks) = TRUE
    BY <2>1
  <2> HIDE DEF b
  <2>5. /\ [b EXCEPT !.marks = b.marks \ {m}] \in Binding
        /\ Restored(m, m \in b.marks, [b EXCEPT !.marks = b.marks \ {m}]) = b
    BY <2>1, <2>3, RestoredMark
  <2> QED
    BY <2>2, <2>4, <2>5 DEF b
<1>3. DOMAIN f = had /\ DOMAIN saved = had /\ had \subseteq Slots
  OBVIOUS
<1> HIDE DEF saved, f, had
<1>4. Tracks(s, Changed(W, m, saved, f))
  BY <1>1, <1>2, <1>3, TracksChanged
<1> QED
  BY <1>4 DEF Unmark, saved, f, had

LEMMA TracksSetAlias ==
  ASSUME NEW s, NEW W, Tracks(s, W), NEW set \in SUBSET Slots
  PROVE  Tracks(s, SetAlias(W, set))
<1> DEFINE saved == [n \in set |-> W.at.bind[n].alias]
           f == [n \in set |-> [W.at.bind[n] EXCEPT !.alias = "target"]]
<1>1. "Alias" \in BindingKinds /\ DOMAIN f = set /\ DOMAIN saved = set
  BY DEF BindingKinds
<1>2. ASSUME NEW n \in set
      PROVE  f[n] \in Binding /\ Restored("Alias", saved[n], f[n]) = W.at.bind[n]
  <2> DEFINE b == W.at.bind[n]
             now == [b EXCEPT !.alias = "target"]
  <2>1. b \in Binding /\ saved[n] = b.alias /\ f[n] = now
    BY WalkBindings
  <2>2. now \in Binding /\ [now EXCEPT !.alias = b.alias] = b
    BY <2>1 DEF Binding
  <2> HIDE DEF now, b, saved, f
  <2>3. Restored("Alias", b.alias, now) = [now EXCEPT !.alias = b.alias]
    BY DEF Restored, MarkerKinds
  <2> QED
    BY <2>1, <2>2, <2>3 DEF b
<1> HIDE DEF saved, f
<1>3. Tracks(s, Changed(W, "Alias", saved, f))
  BY <1>1, <1>2, TracksChanged
<1> QED
  BY <1>3 DEF SetAlias, saved, f

LEMMA TracksSetDefinition ==
  ASSUME NEW s, NEW W, Tracks(s, W), NEW g, DOMAIN g \subseteq Slots,
         \A n \in DOMAIN g : g[n] \in Spans \cup {None}
  PROVE  Tracks(s, SetDefinition(W, g))
<1> DEFINE saved == [n \in DOMAIN g |-> W.at.bind[n].definition]
           f == [n \in DOMAIN g |-> [W.at.bind[n] EXCEPT !.definition = g[n]]]
<1>1. /\ "LexicalDefinition" \in BindingKinds
      /\ DOMAIN f = DOMAIN g /\ DOMAIN saved = DOMAIN g
  BY DEF BindingKinds
<1>2. ASSUME NEW n \in DOMAIN g
      PROVE  /\ f[n] \in Binding
             /\ Restored("LexicalDefinition", saved[n], f[n]) = W.at.bind[n]
  <2> DEFINE b == W.at.bind[n]
             now == [b EXCEPT !.definition = g[n]]
  <2>1. b \in Binding /\ saved[n] = b.definition /\ f[n] = now
    BY WalkBindings
  <2>2. now \in Binding /\ [now EXCEPT !.definition = b.definition] = b
    BY <2>1 DEF Binding
  <2> HIDE DEF now, b, saved, f
  <2>3. Restored("LexicalDefinition", b.definition, now) =
          [now EXCEPT !.definition = b.definition]
    BY DEF Restored, MarkerKinds
  <2> QED
    BY <2>1, <2>2, <2>3 DEF b
<1> HIDE DEF saved, f
<1>3. Tracks(s, Changed(W, "LexicalDefinition", saved, f))
  BY <1>1, <1>2, TracksChanged
<1> QED
  BY <1>3 DEF SetDefinition, saved, f

LEMMA TracksMarkLexicalFunction ==
  ASSUME NEW s, NEW W, Tracks(s, W), NEW n \in Slots, NEW span \in Spans
  PROVE  Tracks(s, MarkLexicalFunction(W, n, span))
<1>1. {n} \in SUBSET Slots /\ "lexical" \in MarkerKinds
  BY DEF MarkerKinds
<1>2. Tracks(s, Mark(W, {n}, "lexical"))
  BY <1>1, TracksMark
<1>3. /\ DOMAIN Only(n, span) \subseteq Slots
      /\ \A m \in DOMAIN Only(n, span) : Only(n, span)[m] \in Spans \cup {None}
  BY DEF Only
<1> QED
  BY <1>2, <1>3, TracksSetDefinition DEF MarkLexicalFunction

LEMMA TracksSetBox ==
  ASSUME NEW s, NEW W, Tracks(s, W), NEW g, DOMAIN g \subseteq Slots,
         \A n \in DOMAIN g : g[n] \in Boxes \cup {None}
  PROVE  Tracks(s, SetBox(W, g))
<1> DEFINE f == [n \in DOMAIN g |-> [W.at.bind[n] EXCEPT !.box = g[n]]]
<1>1. DOMAIN f \subseteq Slots /\ \A n \in DOMAIN f : f[n] \in Binding
  BY WalkBindings DEF Binding
<1> HIDE DEF f
<1>2. Tracks(s, Rebound(W, f))
  BY <1>1, TracksRebound
<1> QED
  BY <1>2 DEF SetBox, f

LEMMA TracksAttach ==
  ASSUME NEW s, NEW W, Tracks(s, W), NEW g, DOMAIN g \subseteq Slots,
         \A n \in DOMAIN g : g[n] \in Boxes \cup {None}
  PROVE  Tracks(s, Attach(W, g))
<1>1. {n \in DOMAIN g : g[n] = "package"} \in SUBSET Slots
  OBVIOUS
<1> QED
  BY <1>1, TracksSetAlias, TracksSetBox DEF Attach

LEMMA TracksClearReferences ==
  ASSUME NEW s, NEW W, Tracks(s, W) PROVE Tracks(s, ClearReferences(W))
<1> DEFINE g == W.at.bind
           h == [n \in Slots |-> [g[n] EXCEPT !.provenance = None]]
           saved == [n \in Slots |-> g[n].provenance]
           new == [W.at EXCEPT !.bind = h]
           r == [kind |-> "Provenance", saved |-> saved, before |-> W.at]
           back == [n \in DOMAIN saved |-> Restored("Provenance", saved[n], h[n])]
<1>1. W.at \in Scope /\ g \in [Slots -> Binding]
  BY WalkBindings
<1>2. h \in [Slots -> Binding]
  BY <1>1 DEF Binding
<1>3. \A n \in Slots : back[n] = g[n]
  BY <1>1 DEF Binding, Restored, MarkerKinds
<1>4. DOMAIN back = Slots
  OBVIOUS
<1> HIDE DEF back
<1>5. Over(back, h) = g
  <2>1. /\ DOMAIN back \subseteq Slots /\ \A n \in DOMAIN back : back[n] = g[n]
        /\ \A n \in Slots \ DOMAIN back : h[n] = g[n]
    BY <1>3, <1>4
  <2> HIDE DEF g, h
  <2> QED
    BY <1>1, <1>2, <2>1, OverRestores
<1>6. \A n \in Slots : Facts(h[n]) = Facts(g[n])
  BY <1>1 DEF Binding, Facts
<1> HIDE DEF h
<1>7. /\ new \in Scope /\ new.bind = h /\ new.ops = W.at.ops
      /\ new.strings = W.at.strings /\ new.guards = W.at.guards
  BY <1>1, <1>2 DEF Scope
<1> HIDE DEF new
<1>8. Undone(r, new) = [new EXCEPT !.bind = Over(back, @)]
  BY <1>7 DEF Undone, back
<1>9. Same(Undone(r, new), W.at)
  BY <1>5, <1>7, <1>8 DEF Same, Scope
<1>10. StepOK(r, new)
  BY <1>1, <1>6, <1>7, <1>9 DEF StepOK, BindingKinds, MarkerKinds
<1> QED
  BY <1>7, <1>10, TracksRecord DEF ClearReferences, new, h

-----------------------------------------------------------------------------
(* The methods: whole bindings                                             *)

\* New types for some names
TypesFor(f) ==
    DOMAIN f \subseteq Slots /\ \A n \in DOMAIN f : f[n] \in BindingTypes \cup {None}

LEMMA RestoredPlain ==
  ASSUME NEW b \in Binding, NEW t
  PROVE  Restored("Assignment", b, Plain(t)) = b
<1>1. /\ Plain(t).marks = {} /\ Plain(t).alias = None /\ Plain(t).box = None
      /\ Plain(t).provenance = None
  BY DEF Plain
<1>2. Unassigned(b, Plain(t)) =
        [type |-> b.type, marks |-> b.marks, definition |-> b.definition,
         alias |-> b.alias, box |-> b.box, provenance |-> b.provenance]
  <2>1. {} \cup b.marks = b.marks
    OBVIOUS
  <2>2. /\ (IF b.alias = None THEN None ELSE b.alias) = b.alias
        /\ (IF b.box = None THEN None ELSE b.box) = b.box
        /\ (IF b.provenance = None THEN None ELSE b.provenance) = b.provenance
    OBVIOUS
  <2> HIDE DEF Plain
  <2> QED
    BY <1>1, <2>1, <2>2 DEF Unassigned
<1>3. Unassigned(b, Plain(t)) = b
  BY <1>2 DEF Binding
<1>4. Restored("Assignment", b, Plain(t)) = Unassigned(b, Plain(t))
  BY DEF Restored, MarkerKinds
<1> QED
  BY <1>3, <1>4

LEMMA PlainTyped ==
  ASSUME NEW t \in BindingTypes \cup {None}
  PROVE  Plain(t) \in Binding /\ Plain(t).type = t
  BY DEF Plain, Binding

LEMMA TracksAssignPlain ==
  ASSUME NEW s, NEW W, Tracks(s, W), NEW g, TypesFor(g)
  PROVE  Tracks(s, AssignPlain(W, g))
<1> DEFINE K == ClearOps(W, CanonsOf(DOMAIN g))
           wrote == {n \in DOMAIN g : K.at.bind[n] # Plain(g[n])}
           saved == Restrict(K.at.bind, wrote)
           f == [n \in wrote |-> Plain(g[n])]
<1>1. Tracks(s, K)
  BY CanonsTyped, TracksClearOps DEF TypesFor
<1> HIDE DEF K
<1>2. /\ wrote \in SUBSET Slots /\ DOMAIN f = wrote /\ DOMAIN saved = wrote
      /\ "Assignment" \in BindingKinds
  BY DEF TypesFor, Restrict, BindingKinds
<1>3. ASSUME NEW n \in wrote
      PROVE  /\ f[n] \in Binding
             /\ Restored("Assignment", saved[n], f[n]) = K.at.bind[n]
             /\ f[n] = Plain(f[n].type)
  <2>1. f[n] = Plain(g[n]) /\ saved[n] = K.at.bind[n]
    BY DEF Restrict
  <2>2. g[n] \in BindingTypes \cup {None} /\ K.at.bind[n] \in Binding
    BY <1>1, <1>2, WalkBindings DEF TypesFor
  <2>3. Plain(g[n]) \in Binding /\ Plain(g[n]).type = g[n]
    BY <2>2, PlainTyped
  <2> HIDE DEF f, saved
  <2> QED
    BY <2>1, <2>2, <2>3, RestoredPlain
<1> HIDE DEF wrote, saved, f
<1>4. Tracks(s, Changed(K, "Assignment", saved, f))
  BY <1>1, <1>2, <1>3, TracksChanged
<1> QED
  BY <1>4 DEF AssignPlain, K, wrote, saved, f

LEMMA TracksInsertValue ==
  ASSUME NEW s, NEW W, Tracks(s, W), NEW f, TypesFor(f)
  PROVE  Tracks(s, InsertValue(W, f))
<1> DEFINE C == CanonsOf(DOMAIN f)
<1>1. C \in SUBSET Canonical
  BY CanonsTyped DEF TypesFor
<1> HIDE DEF C
<1>2. Tracks(s, ClearString(W, C))
  BY <1>1, TracksClearString
<1>3. Tracks(s, DropGuards(ClearString(W, C), C))
  BY <1>2, TracksDropGuards
<1> QED
  BY <1>3, TracksAssignPlain DEF InsertValue, C

LEMMA TracksInsert ==
  ASSUME NEW s, NEW W, Tracks(s, W), NEW f, TypesFor(f)
  PROVE  Tracks(s, Insert(W, f))
<1> DEFINE calls == {n \in DOMAIN f : BoxAfter(W.at.bind[n], f[n]) = "opaque"}
           g == [n \in calls |-> "opaque"]
<1>1. Tracks(s, InsertValue(W, f))
  BY TracksInsertValue
<1>2. DOMAIN g \subseteq Slots /\ \A n \in DOMAIN g : g[n] \in Boxes \cup {None}
  BY DEF TypesFor, Boxes
<1> HIDE DEF g
<1>3. Tracks(s, SetBox(InsertValue(W, f), g))
  BY <1>1, <1>2, TracksSetBox
<1> QED
  BY <1>3 DEF Insert, g

LEMMA BoxAfterTyped ==
  ASSUME NEW b, NEW t PROVE BoxAfter(b, t) \in Boxes \cup {None}
  BY DEF BoxAfter, Boxes

LEMMA NarrowedTyped ==
  ASSUME NEW b \in Binding, NEW t \in BindingTypes \cup {None}
  PROVE  Narrowed(b, t) \in Binding
<1> DEFINE marks == (b.marks \ ({"lexical"} \cup
                                IF t \in {"scalar", "NULL"} THEN {"vector"} ELSE {}))
                    \cup {"narrowed"}
<1>1. marks \in SUBSET Marks
  BY DEF Binding, Marks
<1>2. Narrowed(b, t) = [b EXCEPT !.type = t, !.definition = None, !.alias = None,
              !.provenance = None, !.box = BoxAfter(b, t), !.marks = marks]
  BY DEF Narrowed
<1> HIDE DEF marks
<1> DEFINE box == BoxAfter(b, t)
<1>3. box \in Boxes \cup {None}
  BY BoxAfterTyped
<1> HIDE DEF box
<1>4. [b EXCEPT !.type = t, !.definition = None, !.alias = None] \in Binding
  BY DEF Binding
<1>5. \A c \in Binding :
         [c EXCEPT !.provenance = None, !.box = box, !.marks = marks] \in Binding
  BY <1>1, <1>3 DEF Binding
<1> QED
  BY <1>2, <1>4, <1>5 DEF box

LEMMA DefaultedTyped ==
  ASSUME NEW b \in Binding, NEW t \in BindingTypes \cup {None}
  PROVE  Defaulted(b, t) \in Binding
<1> DEFINE marks == (b.marks \ {"narrowed", "scalar", "vector"})
                    \cup {"parameter", "default"}
<1>1. marks \in SUBSET Marks
  BY DEF Binding, Marks
<1>2. Defaulted(b, t) = [b EXCEPT !.type = t, !.definition = None, !.alias = None,
              !.provenance = None, !.box = BoxAfter(b, t), !.marks = marks]
  BY DEF Defaulted
<1> HIDE DEF marks
<1> DEFINE box == BoxAfter(b, t)
<1>3. box \in Boxes \cup {None}
  BY BoxAfterTyped
<1> HIDE DEF box
<1>4. [b EXCEPT !.type = t, !.definition = None, !.alias = None] \in Binding
  BY DEF Binding
<1>5. \A c \in Binding :
         [c EXCEPT !.provenance = None, !.box = box, !.marks = marks] \in Binding
  BY <1>1, <1>3 DEF Binding
<1> QED
  BY <1>2, <1>4, <1>5 DEF box

LEMMA TracksInsertNarrowed ==
  ASSUME NEW s, NEW W, Tracks(s, W), NEW g, TypesFor(g)
  PROVE  Tracks(s, InsertNarrowed(W, g))
<1> DEFINE f == [n \in DOMAIN g |-> Narrowed(W.at.bind[n], g[n])]
<1>1. DOMAIN f \subseteq Slots /\ \A n \in DOMAIN f : f[n] \in Binding
  BY WalkBindings, NarrowedTyped DEF TypesFor
<1> HIDE DEF f
<1>2. Tracks(s, Rebound(W, f)) /\ CanonsOf(DOMAIN g) \in SUBSET Canonical
  BY <1>1, TracksRebound, CanonsTyped DEF TypesFor
<1>3. Tracks(s, ClearOps(Rebound(W, f), CanonsOf(DOMAIN g)))
  BY <1>2, TracksClearOps
<1> QED
  BY <1>3 DEF InsertNarrowed, f

LEMMA TracksInsertDefaults ==
  ASSUME NEW s, NEW W, Tracks(s, W), NEW g, TypesFor(g)
  PROVE  Tracks(s, InsertDefaults(W, g))
<1> DEFINE f == [n \in DOMAIN g |-> Defaulted(W.at.bind[n], g[n])]
<1>1. DOMAIN f \subseteq Slots /\ \A n \in DOMAIN f : f[n] \in Binding
  BY WalkBindings, DefaultedTyped DEF TypesFor
<1> HIDE DEF f
<1>2. Tracks(s, Rebound(W, f)) /\ CanonsOf(DOMAIN g) \in SUBSET Canonical
  BY <1>1, TracksRebound, CanonsTyped DEF TypesFor
<1>3. Tracks(s, ClearOps(Rebound(W, f), CanonsOf(DOMAIN g)))
  BY <1>2, TracksClearOps
<1> QED
  BY <1>3 DEF InsertDefaults, f

LEMMA TracksInsertParameter ==
  ASSUME NEW s, NEW W, Tracks(s, W), NEW f, TypesFor(f)
  PROVE  Tracks(s, InsertParameter(W, f))
<1>1. Tracks(s, Insert(W, f)) /\ "parameter" \in MarkerKinds
  BY TracksInsert DEF MarkerKinds
<1>2. DOMAIN f \in SUBSET Slots
  BY DEF TypesFor
<1> QED
  BY <1>1, <1>2, TracksMark DEF InsertParameter

LEMMA TracksReplace ==
  ASSUME NEW s, NEW W, Tracks(s, W), NEW n \in Slots, NEW t \in BindingTypes
  PROVE  Tracks(s, ReplaceBindingOnly(W, n, t))
<1> DEFINE f == Only(n, [W.at.bind[n] EXCEPT !.type = t])
<1>1. DOMAIN f \subseteq Slots /\ \A m \in DOMAIN f : f[m] \in Binding
  BY WalkBindings DEF Only, Binding
<1> HIDE DEF f
<1>2. Tracks(s, Rebound(W, f))
  BY <1>1, TracksRebound
<1> QED
  BY <1>2 DEF ReplaceBindingOnly, f

LEMMA TracksInstall ==
  ASSUME NEW s, NEW W, Tracks(s, W), NEW n \in Slots, NEW span \in Spans
  PROVE  Tracks(s, InstallReference(W, n, span))
<1> DEFINE b == W.at.bind[n]
           now == IF "unsafe_read" \in W.at.flags THEN b
                  ELSE [b EXCEPT !.provenance = span]
           saved == Only(n, b.provenance)
           f == Only(n, now)
<1>1. b \in Binding
  BY WalkBindings
<1>2. now \in Binding /\ [now EXCEPT !.provenance = b.provenance] = b
  BY <1>1 DEF Binding
<1> HIDE DEF now, b
<1>3. Restored("Reference", b.provenance, now) =
        [now EXCEPT !.provenance = b.provenance]
  BY DEF Restored, MarkerKinds
<1>4. /\ DOMAIN f = {n} /\ DOMAIN saved = {n} /\ "Reference" \in BindingKinds
      /\ f[n] = now /\ saved[n] = b.provenance
  BY DEF Only, BindingKinds
<1> HIDE DEF saved, f
<1>5. \A m \in DOMAIN f :
         f[m] \in Binding /\ Restored("Reference", saved[m], f[m]) = W.at.bind[m]
  BY <1>2, <1>3, <1>4 DEF b
<1>6. Tracks(s, Changed(W, "Reference", saved, f))
  <2>1. DOMAIN f \subseteq Slots
    BY <1>4
  <2> QED
    BY <1>4, <1>5, <2>1, TracksChanged
<1> QED
  BY <1>6 DEF InstallReference, saved, f, now, b

LEMMA TracksFinishRead ==
  ASSUME NEW s, NEW W, Tracks(s, W), NEW n \in Slots
  PROVE  Tracks(s, FinishRead(W, n))
<1>1. {"unsafe_read"} \in SUBSET Flags
  BY DEF Flags
<1> QED
  BY <1>1, TracksFlagged, TracksClearReferences DEF FinishRead

LEMMA TracksInvalidateScalars ==
  ASSUME NEW s, NEW W, Tracks(s, W) PROVE Tracks(s, InvalidateScalars(W))
<1>1. {"dynamic"} \in SUBSET Flags /\ "scalar" \in MarkerKinds /\ Slots \in SUBSET Slots
  BY DEF Flags, Sticky, MarkerKinds
<1> QED
  BY <1>1, TracksFlagged, TracksUnmark DEF InvalidateScalars

LEMMA ForgottenTyped == ASSUME NEW b \in Binding PROVE Forgotten(b) \in Binding
<1> DEFINE t == IF b.type = None THEN None ELSE "unknown"
           box == IF b.box \in CallBoxes THEN "opaque" ELSE None
<1>1. t \in BindingTypes \cup {None} /\ box \in Boxes \cup {None}
  BY DEF BindingTypes, Boxes
<1>2. b.provenance \in Spans \cup {None}
  BY DEF Binding
<1>3. Forgotten(b) = [Plain(t) EXCEPT !.box = box, !.provenance = b.provenance]
  BY DEF Forgotten
<1> HIDE DEF t, box
<1> QED
  BY <1>1, <1>2, <1>3, PlainTyped DEF Binding

LEMMA TracksInvalidateEffects ==
  ASSUME NEW s, NEW W, Tracks(s, W) PROVE Tracks(s, InvalidateEffects(W))
<1> DEFINE K == ClearGuards(ClearStrings(W))
           named == {n \in Slots :
                       [K.at.bind[n] EXCEPT !.provenance = None] # Absent}
           f == [n \in named |-> Forgotten(K.at.bind[n])]
           F == Rebound(K, f)
           G == ClearOpsFacts(ClearReferences(F))
           flags == {"effects", "search_path", "mask_env", "unsafe_read",
                     "ops_environment"}
<1>1. Tracks(s, K)
  BY TracksClearGuards, TracksClearStrings
<1> HIDE DEF K
<1>2. DOMAIN f \subseteq Slots /\ \A n \in DOMAIN f : f[n] \in Binding
  BY <1>1, WalkBindings, ForgottenTyped
<1> HIDE DEF f
<1>3. Tracks(s, F)
  BY <1>1, <1>2, TracksRebound
<1> HIDE DEF F
<1>4. Tracks(s, G)
  BY <1>3, TracksClearReferences, TracksClearOpsFacts
<1> HIDE DEF G
<1>5. Tracks(s, Flagged(G, flags))
  BY <1>4, TracksFlagged DEF Flags, Sticky
<1> HIDE DEF flags
<1>6. Tracks(s, [Flagged(G, flags) EXCEPT !.at.failed = {}])
  BY <1>5, TracksFailed
<1> QED
  BY <1>6 DEF InvalidateEffects, K, f, F, G, flags

-----------------------------------------------------------------------------
(* The operations of a walk                                                *)

LEMMA LogDomain == ASSUME NEW L, IsLog(L) PROVE DOMAIN L = 1 .. Len(L)
  BY DEF IsLog

LEMMA TouchedNames ==
  ASSUME NEW s, NEW W, Tracks(s, W) PROVE Touched(W.log) \subseteq Slots
<1>1. DOMAIN W.log = 1 .. Len(W.log)
  BY LogDomain DEF Tracks, Chain
<1>2. \A i \in DOMAIN W.log :
         W.log[i].kind \in BindingKinds => DOMAIN W.log[i].saved \subseteq Slots
  BY <1>1 DEF Tracks, Chain, StepOK
<1> QED
  BY <1>2 DEF Touched

LEMMA IndependentTyped == ASSUME NEW s \in Scope PROVE Independent(s) \in Scope
<1> DEFINE flags == (s.flags \ {"dynamic", "unreachable", "loop"})
                    \cup {"unseen_rebinds"}
           bind == [n \in Slots |->
                      [s.bind[n] EXCEPT !.marks = @ \ {"scalar", "vector"}]]
           strings == [c \in Canonical |-> FALSE]
           guards == [c \in Canonical |-> {}]
<1>1. flags \in SUBSET Flags
  BY DEF Scope, Flags, Sticky
<1>2. bind \in [Slots -> Binding]
  BY DEF Scope, Binding
<1>3. strings \in [Canonical -> BOOLEAN] /\ guards \in [Canonical -> SUBSET Canonical]
  OBVIOUS
<1>4. Independent(s) = [s EXCEPT !.flags = flags, !.bind = bind,
                          !.strings = strings, !.guards = guards, !.failed = {}]
  BY DEF Independent
<1> HIDE DEF flags, bind, strings, guards
<1>5. [s EXCEPT !.flags = flags, !.bind = bind] \in Scope
  BY <1>1, <1>2 DEF Scope
<1>6. \A u \in Scope :
         [u EXCEPT !.strings = strings, !.guards = guards, !.failed = {}] \in Scope
  BY <1>3 DEF Scope
<1> QED
  BY <1>4, <1>5, <1>6

LEMMA TracksProbe ==
  ASSUME NEW s, NEW W, Tracks(s, W), NEW a, NEW child, Tracks(a, child)
  PROVE  Tracks(s, Probe(W, child))
<1> DEFINE set == child.at.flags \cap {"effects", "mask_env"}
           f == [n \in Touched(child.log) |-> "unknown"]
<1>1. set \in SUBSET Flags
  BY DEF Flags, Sticky
<1>2. TypesFor(f)
  BY TouchedNames DEF TypesFor, BindingTypes
<1> HIDE DEF set, f
<1>3. Tracks(s, Flagged(W, set))
  BY <1>1, TracksFlagged
<1>4. Tracks(s, Insert(Flagged(W, set), f))
  BY <1>2, <1>3, TracksInsert
<1> QED
  BY <1>4 DEF Probe, set, f

LEMMA OnlyType ==
  ASSUME NEW n \in Slots, NEW t \in BindingTypes PROVE TypesFor(Only(n, t))
  BY DEF Only, TypesFor

LEMMA TracksApply ==
  ASSUME NEW s, NEW W, Tracks(s, W), NEW o, Callable(o)
  PROVE  Tracks(s, Apply(W, o))
<1> DEFINE n == o.name
           c == CanonOf[n]
           f == Only(n, o.value)
<1>1. n \in Slots /\ c \in Canonical /\ {n} \in SUBSET Slots /\ o.op \in Methods
  BY NamesAssumption DEF Callable
<1>2. {"list", "lexical", "scalar", "vector"} \subseteq MarkerKinds
  BY DEF MarkerKinds
<1>3. Independent(W.at) \in Scope
  BY IndependentTyped, WalkBindings
<1>4. Tracks(Independent(W.at), Here(Independent(W.at)))
  BY <1>3, TracksHere
<1>5. CASE o.op \in {"insert", "narrow", "parameter", "default", "replace", "probe"}
  <2>1. o.value \in BindingTypes
    BY <1>5 DEF Callable
  <2>2. TypesFor(f)
    BY <1>1, <2>1, OnlyType
  <2> HIDE DEF f
  <2>3. Tracks(s, Insert(W, f)) /\ Tracks(s, InsertNarrowed(W, f))
    BY <2>2, TracksInsert, TracksInsertNarrowed
  <2>4. Tracks(s, InsertParameter(W, f)) /\ Tracks(s, InsertDefaults(W, f))
    BY <2>2, TracksInsertParameter, TracksInsertDefaults
  <2>5. Tracks(s, ReplaceBindingOnly(W, n, o.value))
    BY <1>1, <2>1, TracksReplace
  <2>6. Tracks(s, Probe(W, Insert(Here(Independent(W.at)), f)))
    BY <1>4, <2>2, TracksInsert, TracksProbe
  <2>7. /\ o.op = "insert" => Apply(W, o) = Insert(W, f)
        /\ o.op = "narrow" => Apply(W, o) = InsertNarrowed(W, f)
        /\ o.op = "parameter" => Apply(W, o) = InsertParameter(W, f)
        /\ o.op = "default" => Apply(W, o) = InsertDefaults(W, f)
        /\ o.op = "replace" => Apply(W, o) = ReplaceBindingOnly(W, n, o.value)
        /\ o.op = "probe" =>
              Apply(W, o) = Probe(W, Insert(Here(Independent(W.at)), f))
    BY DEF Apply, f
  <2> QED
    BY <1>5, <2>3, <2>4, <2>5, <2>6, <2>7
<1>6. CASE o.op \in {"list_origin", "callable", "lexical", "scalar",
                     "clear_scalar", "vector", "alias"}
  <2>1. Tracks(s, Mark(W, {n}, "list")) /\ Tracks(s, Mark(W, {n}, "lexical"))
    BY <1>1, <1>2, TracksMark
  <2>2. Tracks(s, MarkNew(W, {n}, "scalar")) /\ Tracks(s, MarkNew(W, {n}, "vector"))
    BY <1>1, <1>2, TracksMarkNew
  <2>3. Tracks(s, Unmark(W, {n}, "scalar")) /\ Tracks(s, SetAlias(W, {n}))
    BY <1>1, <1>2, TracksUnmark, TracksSetAlias
  <2>4. o.op = "lexical" => Tracks(s, MarkLexicalFunction(W, n, o.value))
    BY <1>1, TracksMarkLexicalFunction DEF Callable
  <2>5. /\ o.op = "list_origin" => Apply(W, o) = Mark(W, {n}, "list")
        /\ o.op = "callable" => Apply(W, o) = Mark(W, {n}, "lexical")
        /\ o.op = "lexical" => Apply(W, o) = MarkLexicalFunction(W, n, o.value)
        /\ o.op = "scalar" => Apply(W, o) = MarkNew(W, {n}, "scalar")
        /\ o.op = "clear_scalar" => Apply(W, o) = Unmark(W, {n}, "scalar")
        /\ o.op = "vector" => Apply(W, o) = MarkNew(W, {n}, "vector")
        /\ o.op = "alias" => Apply(W, o) = SetAlias(W, {n})
    BY DEF Apply
  <2> QED
    BY <1>6, <2>1, <2>2, <2>3, <2>4, <2>5
<1>7. CASE o.op \in {"box", "install", "read", "ops", "string", "guard"}
  <2>1. o.op = "box" => Tracks(s, Attach(W, f)) /\ Tracks(s, SetBox(W, f))
    <3>1. o.op = "box" => DOMAIN f \subseteq Slots
                          /\ \A m \in DOMAIN f : f[m] \in Boxes \cup {None}
      BY <1>1 DEF Callable, Only
    <3> HIDE DEF f
    <3> QED
      BY <3>1, TracksAttach, TracksSetBox
  <2>2. o.op = "install" =>
           Tracks(s, InstallReference(Insert(W, Only(n, "scalar")), n, o.value))
    <3>1. Tracks(s, Insert(W, Only(n, "scalar")))
      BY <1>1, OnlyType, TracksInsert DEF BindingTypes
    <3> QED
      BY <1>1, <3>1, TracksInstall DEF Callable
  <2>3. Tracks(s, FinishRead(W, n)) /\ Tracks(s, SetString(W, c))
    BY <1>1, TracksFinishRead, TracksSetString
  <2>4. /\ o.op = "ops" => Tracks(s, AddOpsFact(W, c, o.value))
        /\ o.op = "guard" => Tracks(s, SetGuard(W, c, o.value))
    BY <1>1, TracksAddOpsFact, TracksSetGuard DEF Callable
  <2>5. /\ o.op = "box" => Apply(W, o) = IF o.value \in {"package", "attached"}
                                         THEN Attach(W, f) ELSE SetBox(W, f)
        /\ o.op = "install" =>
              Apply(W, o) = InstallReference(Insert(W, Only(n, "scalar")), n, o.value)
        /\ o.op = "read" => Apply(W, o) = FinishRead(W, n)
        /\ o.op = "ops" => Apply(W, o) = AddOpsFact(W, c, o.value)
        /\ o.op = "string" => Apply(W, o) = SetString(W, c)
        /\ o.op = "guard" => Apply(W, o) = SetGuard(W, c, o.value)
    BY DEF Apply
  <2> QED
    BY <1>7, <2>1, <2>2, <2>3, <2>4, <2>5
<1>8. CASE o.op \in {"dispatch", "swap", "unseen", "effects", "ops_environment",
                     "throw", "load", "probe_effects"}
  <2>1. Tracks(s, InvalidateLiterals(W)) /\ Tracks(s, InvalidateScalars(W))
    BY TracksInvalidateLiterals, TracksInvalidateScalars
  <2>2. Tracks(s, InvalidateEffects(W)) /\ Tracks(s, [W EXCEPT !.at.failed = {}])
    BY TracksInvalidateEffects, TracksFailed
  <2>3. /\ {"ops_environment"} \in SUBSET Flags /\ {"unreachable"} \in SUBSET Flags
        /\ {"unseen_rebinds"} \in SUBSET Flags
    BY DEF Flags, Sticky
  <2>4. Tracks(s, Flagged(ClearOpsFacts(ClearStrings(W)), {"ops_environment"}))
    BY <2>3, TracksClearStrings, TracksClearOpsFacts, TracksFlagged
  <2>5. /\ Tracks(s, Flagged(W, {"unreachable"}))
        /\ Tracks(s, Flagged(W, {"unseen_rebinds"}))
    BY <2>3, TracksFlagged
  <2>6. Tracks(s, Probe(W, InvalidateEffects(Here(Independent(W.at)))))
    BY <1>4, TracksInvalidateEffects, TracksProbe
  <2>7. /\ o.op = "dispatch" => Apply(W, o) = InvalidateLiterals(W)
        /\ o.op = "swap" => Apply(W, o) = InvalidateScalars(W)
        /\ o.op = "unseen" => Apply(W, o) = Flagged(W, {"unseen_rebinds"})
        /\ o.op = "effects" => Apply(W, o) = InvalidateEffects(W)
        /\ o.op = "ops_environment" => Apply(W, o) =
              Flagged(ClearOpsFacts(ClearStrings(W)), {"ops_environment"})
        /\ o.op = "throw" => Apply(W, o) = Flagged(W, {"unreachable"})
        /\ o.op = "load" => Apply(W, o) = [W EXCEPT !.at.failed = {}]
        /\ o.op = "probe_effects" => Apply(W, o) =
              Probe(W, InvalidateEffects(Here(Independent(W.at))))
    BY DEF Apply
  <2> QED
    BY <1>8, <2>1, <2>2, <2>4, <2>5, <2>6, <2>7
<1> QED
  BY <1>1, <1>5, <1>6, <1>7, <1>8 DEF Methods

\* Some binding for every name
Bound(arm) == arm.bind \in [Slots -> Binding]

LEMMA ProvedTyped ==
  ASSUME NEW t \in Tests, NEW arm \in {"then", "else"}, NEW s, Bound(s)
  PROVE  TypesFor(Proved(t, arm, s))
<1>1. ASSUME NEW n \in Slots
      PROVE  t.narrows[arm][n][s.bind[n].type] \in BindingTypes \cup {None}
  <2>1. t.narrows[arm][n] \in Narrowings
    BY DEF Tests
  <2>2. s.bind[n].type \in BindingTypes \cup {None}
    BY DEF Bound, Binding
  <2> QED
    BY <2>1, <2>2 DEF Narrowings
<1> QED
  BY <1>1 DEF Proved, TypesFor

LEMMA TracksEnterArm ==
  ASSUME NEW s \in Scope, NEW t \in Tests, NEW arm \in {"then", "else"}
  PROVE  Tracks(s, EnterArm(s, t, arm))
<1> DEFINE W == InsertNarrowed(Here(s), Proved(t, arm, s))
<1>1. Tracks(s, W)
  <2>1. Bound(s)
    BY DEF Bound, Scope
  <2> QED
    BY <2>1, TracksHere, ProvedTyped, TracksInsertNarrowed
<1>2. /\ W.at.failed \cup {"package"} \in SUBSET {"package"}
      /\ W.at.failed \ {"package"} \in SUBSET {"package"}
  BY <1>1, WalkBindings DEF Scope
<1>3. EnterArm(s, t, arm) \in
        {W, [W EXCEPT !.at.failed = @ \cup {"package"}],
            [W EXCEPT !.at.failed = @ \ {"package"}]}
  BY DEF EnterArm
<1> HIDE DEF W
<1>4. /\ Tracks(s, [W EXCEPT !.at.failed = W.at.failed \cup {"package"}])
      /\ Tracks(s, [W EXCEPT !.at.failed = W.at.failed \ {"package"}])
  BY <1>1, <1>2, TracksFailed
<1> QED
  BY <1>1, <1>3, <1>4

-----------------------------------------------------------------------------
(* The join                                                                *)

\* What the join reads of an arm
ArmTyped(arm) ==
    /\ arm.bind \in [Slots -> Binding]
    /\ arm.flags \in SUBSET Flags
    /\ arm.failed \in SUBSET {"package"}

LEMMA NarrowedNamesTyped ==
  ASSUME NEW t, NEW base PROVE NarrowedNames(t, base) \subseteq Slots
  BY DEF NarrowedNames, Proved

LEMMA TracksForgetDefinitions ==
  ASSUME NEW s, NEW W, Tracks(s, W), NEW t, NEW then, NEW else
  PROVE  Tracks(s, ForgetDefinitions(W, t, then, else))
<1> DEFINE lost == {n \in Slots :
                    /\ W.at.bind[n].definition # None
                    /\ \/ /\ Reaches(t, "then", then)
                          /\ then.bind[n].definition # W.at.bind[n].definition
                       \/ /\ Reaches(t, "else", else)
                          /\ else.bind[n].definition # W.at.bind[n].definition}
           g == [n \in lost |-> None]
<1>1. DOMAIN g \subseteq Slots /\ \A n \in DOMAIN g : g[n] \in Spans \cup {None}
  OBVIOUS
<1> HIDE DEF g
<1>2. Tracks(s, SetDefinition(W, g))
  BY <1>1, TracksSetDefinition
<1> QED
  BY <1>2 DEF ForgetDefinitions, g

LEMMA TracksLoseAssertions ==
  ASSUME NEW s, NEW W, Tracks(s, W), NEW t, NEW then, NEW else
  PROVE  Tracks(s, LoseAssertions(W, t, then, else))
<1> DEFINE lost(which, arm) ==
              IF Diverges(t, which, W.at, arm) THEN {} ELSE Slots \ Marked(arm, "scalar")
           set == lost("then", then) \cup
                  (IF t.else THEN lost("else", else) ELSE {})
<1>1. set \in SUBSET Slots /\ "scalar" \in MarkerKinds
  BY DEF MarkerKinds
<1> HIDE DEF set
<1>2. Tracks(s, Unmark(W, set, "scalar"))
  BY <1>1, TracksUnmark
<1> QED
  BY <1>2 DEF LoseAssertions, set

LEMMA LubTyped ==
  ASSUME NEW a \in BindingTypes \cup {None}, NEW b \in BindingTypes \cup {None}
  PROVE  Lub(a, b) \in BindingTypes \cup {None}
<1> DEFINE joined == {a, b, "vector", "nullable", "unknown"}
<1>1. Lub(a, b) \in joined
  BY DEF Lub
<1>2. joined \subseteq BindingTypes \cup {None}
  BY DEF BindingTypes
<1> QED
  BY <1>1, <1>2

LEMMA MergedTyped ==
  ASSUME NEW t, NEW base, ArmTyped(base), NEW then, ArmTyped(then),
         NEW else, ArmTyped(else), NEW n \in Slots
  PROVE  MergedType(t, base, then, else, n) \in BindingTypes \cup {None}
<1>1. /\ base.bind[n].type \in BindingTypes \cup {None}
      /\ then.bind[n].type \in BindingTypes \cup {None}
      /\ else.bind[n].type \in BindingTypes \cup {None}
  BY DEF ArmTyped, Binding
<1>2. "unknown" \in BindingTypes
  BY DEF BindingTypes
<1> QED
  BY <1>1, <1>2, LubTyped DEF MergedType

\* What a merge assigns to which names, the lists among them, and its mask
MergedNames(t, base, then, else) ==
    LET arms == MergingArms(t, base, then, else)
        sole == IF arms = {"then"} THEN then ELSE else
    IN IF arms = {} THEN {}
       ELSE IF Cardinality(arms) = 1
       THEN {n \in Slots : Rebinds(t, base, sole, n)}
       ELSE {n \in Slots : \/ Rebinds(t, base, then, n)
                           \/ t.else /\ Rebinds(t, base, else, n)}
MergedTypes(t, base, then, else) ==
    LET arms == MergingArms(t, base, then, else)
        sole == IF arms = {"then"} THEN then ELSE else
    IN [n \in MergedNames(t, base, then, else) |->
          IF Cardinality(arms) = 1 THEN sole.bind[n].type
          ELSE MergedType(t, base, then, else, n)]
MergedLists(t, base, then, else) ==
    LET arms == MergingArms(t, base, then, else)
        sole == IF arms = {"then"} THEN then ELSE else
    IN {n \in MergedNames(t, base, then, else) :
          IF Cardinality(arms) = 1 THEN "list" \in sole.bind[n].marks
          ELSE ListOrigin(then, n) /\ ListOrigin(else, n)}
MergedMask(t, base, then, else) ==
    LET arms == MergingArms(t, base, then, else)
    IN IF \/ "then" \in arms /\ "mask_env" \in then.flags
          \/ "else" \in arms /\ "mask_env" \in else.flags
       THEN {"mask_env"} ELSE {}

LEMMA MergeParts ==
  ASSUME NEW W, NEW t, NEW base, NEW then, NEW else
  PROVE  MergeBindings(W, t, base, then, else)
           = Flagged(Mark(Insert(W, MergedTypes(t, base, then, else)),
                          MergedLists(t, base, then, else), "list"),
                     MergedMask(t, base, then, else))
  BY DEF MergeBindings, MergedNames, MergedTypes, MergedLists, MergedMask

LEMMA MergePartsTyped ==
  ASSUME NEW t, NEW base, ArmTyped(base), NEW then, ArmTyped(then),
         NEW else, ArmTyped(else)
  PROVE  /\ TypesFor(MergedTypes(t, base, then, else))
         /\ MergedLists(t, base, then, else)
              \subseteq DOMAIN MergedTypes(t, base, then, else)
         /\ MergedMask(t, base, then, else) \in SUBSET Flags
<1> DEFINE arms == MergingArms(t, base, then, else)
           sole == IF arms = {"then"} THEN then ELSE else
           names == MergedNames(t, base, then, else)
           types == MergedTypes(t, base, then, else)
<1>1. names \subseteq Slots
  BY DEF MergedNames
<1>2. ArmTyped(sole)
  OBVIOUS
<1>3. DOMAIN types = names
  BY DEF MergedTypes
<1>4. ASSUME NEW n \in names PROVE types[n] \in BindingTypes \cup {None}
  <2>1. n \in Slots
    BY <1>1
  <2>2. MergedType(t, base, then, else, n) \in BindingTypes \cup {None}
    BY <2>1, MergedTyped
  <2>3. sole.bind[n].type \in BindingTypes \cup {None}
    BY <1>2, <2>1 DEF ArmTyped, Binding
  <2>4. types[n] = IF Cardinality(arms) = 1 THEN sole.bind[n].type
                   ELSE MergedType(t, base, then, else, n)
    BY DEF MergedTypes
  <2> HIDE DEF sole, arms, types
  <2> QED
    BY <2>2, <2>3, <2>4
<1>5. TypesFor(types)
  <2> HIDE DEF types, names
  <2> QED
    BY <1>1, <1>3, <1>4 DEF TypesFor
<1>6. MergedLists(t, base, then, else) \subseteq names
  BY DEF MergedLists
<1>7. MergedMask(t, base, then, else) \in SUBSET Flags
  BY DEF MergedMask, Flags
<1> QED
  BY <1>3, <1>5, <1>6, <1>7

LEMMA TracksMergeBindings ==
  ASSUME NEW s, NEW W, Tracks(s, W), NEW t, NEW base, ArmTyped(base),
         NEW then, ArmTyped(then), NEW else, ArmTyped(else)
  PROVE  Tracks(s, MergeBindings(W, t, base, then, else))
<1> DEFINE types == MergedTypes(t, base, then, else)
           lists == MergedLists(t, base, then, else)
           mask == MergedMask(t, base, then, else)
<1>1. TypesFor(types) /\ lists \subseteq DOMAIN types /\ mask \in SUBSET Flags
  BY MergePartsTyped
<1>2. MergeBindings(W, t, base, then, else)
        = Flagged(Mark(Insert(W, types), lists, "list"), mask)
  BY MergeParts
<1> HIDE DEF types, lists, mask
<1>3. Tracks(s, Insert(W, types))
  BY <1>1, TracksInsert
<1>4. Tracks(s, Mark(Insert(W, types), lists, "list"))
  <2>1. lists \in SUBSET Slots /\ "list" \in MarkerKinds
    BY <1>1 DEF TypesFor, MarkerKinds
  <2> QED
    BY <1>3, <2>1, TracksMark
<1> QED
  BY <1>1, <1>2, <1>4, TracksFlagged

LEMMA TracksContinueNarrowing ==
  ASSUME NEW s, NEW W, Tracks(s, W), NEW t \in Tests, NEW base,
         NEW then, ArmTyped(then), NEW else, ArmTyped(else)
  PROVE  Tracks(s, ContinueNarrowing(W, t, base, then, else))
<1> DEFINE dies(which, a) == Diverges(t, which, base, a)
           gone == dies("then", then)
           only == IF gone /\ (~t.else \/ ~dies("else", else)) THEN {else}
                   ELSE IF ~gone /\ t.else /\ dies("else", else) THEN {then}
                   ELSE {}
           facts == {n \in NarrowedNames(t, base) :
                       \E a \in only : a.bind[n].type # None}
           arm == CHOOSE a \in only : TRUE
           types(set) == [n \in set |-> arm.bind[n].type]
           default == {n \in facts : "default" \in arm.bind[n].marks}
<1>1. facts \subseteq Slots /\ default \subseteq facts
  BY NarrowedNamesTyped
<1>2. facts # {} => ArmTyped(arm)
  <2>1. facts # {} => only # {}
    OBVIOUS
  <2>2. \A a \in only : ArmTyped(a)
    OBVIOUS
  <2> HIDE DEF only, facts
  <2> QED
    BY <2>1, <2>2
<1> HIDE DEF facts, default, arm, only
<1>3. ASSUME NEW set \in SUBSET facts PROVE TypesFor(types(set))
  <2>1. ASSUME NEW n \in set PROVE arm.bind[n].type \in BindingTypes \cup {None}
    BY <1>1, <1>2, <2>1 DEF ArmTyped, Binding
  <2> QED
    BY <1>1, <2>1 DEF TypesFor
<1>4. TypesFor(types(default)) /\ TypesFor(types(facts \ default))
  BY <1>1, <1>3
<1> HIDE DEF types
<1>5. Tracks(s, InsertDefaults(W, types(default)))
  BY <1>4, TracksInsertDefaults
<1>6. Tracks(s, Insert(InsertDefaults(W, types(default)), types(facts \ default)))
  BY <1>4, <1>5, TracksInsert
<1> QED
  BY <1>6 DEF ContinueNarrowing, types, default, facts, arm, only

LEMMA RefinedTyped ==
  ASSUME NEW old \in Binding, NEW then \in Binding, NEW else \in Binding,
         NEW exits, NEW open
  PROVE  Refined(old, then, else, exits, open) \in BindingTypes \cup {None}
<1> DEFINE b == IF exits = {"then"} THEN else ELSE then
           new == IF IsRebound(then, old.type) /\ IsRemainder(else, old.type)
                  THEN then.type
                  ELSE IF IsRebound(else, old.type) /\ IsRemainder(then, old.type)
                  THEN else.type ELSE None
           joined == Lub(new, Remainder(old.type))
<1>1. /\ then.type \in BindingTypes \cup {None}
      /\ else.type \in BindingTypes \cup {None}
  BY DEF Binding
<1>2. b.type \in BindingTypes \cup {None} /\ new \in BindingTypes \cup {None}
  BY <1>1
<1>3. {"unknown", "long", "scalar"} \subseteq BindingTypes
  BY DEF BindingTypes
<1>4. Remainder(old.type) \in BindingTypes \cup {None}
  BY <1>3 DEF Remainder
<1> HIDE DEF new
<1>5. joined \in BindingTypes \cup {None}
  BY <1>2, <1>4, LubTyped
<1> HIDE DEF joined
<1>6. Refined(old, then, else, exits, open)
        \in {"unknown", "long", None, b.type, joined, new}
  BY DEF Refined, joined, new
<1> HIDE DEF b
<1> QED
  BY <1>2, <1>3, <1>5, <1>6

LEMMA RefinementsTyped ==
  ASSUME NEW t, NEW base, Bound(base), NEW then, Bound(then), NEW else, Bound(else),
         NEW exits
  PROVE  TypesFor(Refinements(t, base, then, else, exits))
<1> DEFINE open == Reaches(t, "then", then) /\ (t.else => Reaches(t, "else", else))
           type(n) == Refined(base.bind[n], then.bind[n], else.bind[n], exits, open)
           names == {m \in NarrowedNames(t, base) :
                       base.bind[m].type # None /\ type(m) # None}
           f == [n \in names |-> type(n)]
<1>1. names \subseteq Slots
  BY NarrowedNamesTyped
<1>2. ASSUME NEW n \in names PROVE type(n) \in BindingTypes \cup {None}
  <2>1. n \in Slots
    BY <1>1
  <2>2. base.bind[n] \in Binding /\ then.bind[n] \in Binding /\ else.bind[n] \in Binding
    BY <2>1 DEF Bound
  <2> HIDE DEF open
  <2> QED
    BY <2>2, RefinedTyped
<1> HIDE DEF names, type
<1>3. TypesFor(f)
  BY <1>1, <1>2 DEF TypesFor
<1> QED
  BY <1>3 DEF Refinements, names, type

LEMMA TracksJoinLoopVectors ==
  ASSUME NEW s, NEW W, Tracks(s, W), NEW t, NEW base, NEW then, NEW else
  PROVE  Tracks(s, JoinLoopVectors(W, t, base, then, else))
<1> DEFINE path == IF t.else THEN else ELSE base
           from(which, dead, arm, vectors) ==
              IF Diverges(t, which, base, arm) \/ t.literal = dead THEN {}
              ELSE Marked(vectors, "vector")
           after == from("then", "false", then, then) \cup
                    from("else", "true", else, path)
<1>1. after \in SUBSET Slots /\ Slots \ after \in SUBSET Slots
      /\ "vector" \in MarkerKinds
  BY DEF Marked, MarkerKinds
<1> HIDE DEF after
<1>2. Tracks(s, Unmark(W, Slots \ after, "vector"))
  BY <1>1, TracksUnmark
<1>3. Tracks(s, MarkNew(Unmark(W, Slots \ after, "vector"), after, "vector"))
  BY <1>1, <1>2, TracksMarkNew
<1> QED
  BY <1>3 DEF JoinLoopVectors, after

BoxesFor(g) == DOMAIN g \subseteq Slots /\ \A n \in DOMAIN g : g[n] \in Boxes \cup {None}

LEMMA JoinedBoxesTyped ==
  ASSUME NEW t, NEW base, ArmTyped(base), NEW then, ArmTyped(then),
         NEW else, ArmTyped(else)
  PROVE  BoxesFor(JoinedBoxes(t, base, then, else))
<1> DEFINE paths == (IF Reaches(t, "then", then) THEN {then} ELSE {}) \cup
                    (IF ~t.else THEN {base}
                     ELSE IF Reaches(t, "else", else) THEN {else} ELSE {})
           boxes(n) == {arm.bind[n].box : arm \in paths}
           names == {n \in Slots :
                       paths # {} /\ boxes(n) \cup {base.bind[n].box} # {None}}
           g == [n \in names |-> IF Cardinality(boxes(n)) = 1
                                 THEN CHOOSE b \in boxes(n) : TRUE ELSE "opaque"]
<1>1. \A a \in paths : ArmTyped(a)
  OBVIOUS
<1> HIDE DEF paths
<1>2. ASSUME NEW n \in names PROVE g[n] \in Boxes \cup {None}
  <2>1. boxes(n) # {} /\ boxes(n) \subseteq Boxes \cup {None}
    BY <1>1 DEF ArmTyped, Binding
  <2> DEFINE B == boxes(n)
  <2>2. (CHOOSE b \in B : TRUE) \in Boxes \cup {None}
    <3> HIDE DEF B
    <3>1. B # {} /\ B \subseteq Boxes \cup {None}
      BY <2>1 DEF B
    <3> QED
      BY <3>1
  <2>3. g[n] \in {CHOOSE b \in B : TRUE, "opaque"}
    OBVIOUS
  <2> HIDE DEF B, g
  <2> QED
    BY <2>2, <2>3 DEF Boxes
<1>3. DOMAIN g = names /\ names \subseteq Slots
  OBVIOUS
<1> HIDE DEF g, names
<1>4. BoxesFor(g)
  BY <1>2, <1>3 DEF BoxesFor
<1> QED
  BY <1>4 DEF JoinedBoxes, g, names, paths

LEMMA TracksApplyBoxes ==
  ASSUME NEW s, NEW W, Tracks(s, W), NEW joined, BoxesFor(joined)
  PROVE  Tracks(s, ApplyBoxes(W, joined))
<1> DEFINE changed == {n \in DOMAIN joined : W.at.bind[n].box # joined[n]}
           attached == {n \in changed : joined[n] \in {"package", "attached"}}
           f == [n \in changed |->
                  [W.at.bind[n] EXCEPT
                    !.alias = IF W.at.bind[n].box = "package" THEN None ELSE @,
                    !.box = IF n \in attached THEN @ ELSE joined[n]]]
           K == Rebound(W, f)
           g == [n \in attached |-> joined[n]]
<1>1. ASSUME NEW n \in changed PROVE f[n] \in Binding
  <2> DEFINE b == W.at.bind[n]
             alias == IF b.box = "package" THEN None ELSE b.alias
             box == IF n \in attached THEN b.box ELSE joined[n]
  <2>1. b \in Binding /\ joined[n] \in Boxes \cup {None}
    BY WalkBindings DEF BoxesFor
  <2>2. alias \in {"target", None} /\ box \in Boxes \cup {None}
    BY <2>1 DEF Binding
  <2>3. f[n] = [b EXCEPT !.alias = alias, !.box = box]
    BY <2>1 DEF Binding
  <2> HIDE DEF f, b, alias, box
  <2> QED
    BY <2>1, <2>2, <2>3 DEF Binding
<1>2. DOMAIN f = changed /\ changed \subseteq Slots
  BY DEF BoxesFor
<1>3. DOMAIN g \subseteq Slots /\ \A n \in DOMAIN g : g[n] \in Boxes \cup {None}
  BY DEF BoxesFor
<1> HIDE DEF f, g
<1>4. Tracks(s, K)
  BY <1>1, <1>2, TracksRebound
<1> HIDE DEF K
<1>5. Tracks(s, Attach(K, g))
  BY <1>3, <1>4, TracksAttach
<1> QED
  BY <1>5 DEF ApplyBoxes, K, f, g

LEMMA TracksJoined ==
  ASSUME NEW s \in Scope, NEW t \in Tests,
         NEW then, ArmTyped(then), NEW else, ArmTyped(else),
         NEW refined, TypesFor(refined)
  PROVE  Tracks(s, Joined(Here(s), t, then, else, refined))
<1> DEFINE W == Here(s)
           base == W.at
           A == LoseAssertions(ForgetDefinitions(W, t, then, else), t, then, else)
           B == ClearGuards(ClearStrings(ClearOpsFacts(A)))
           failed == FailedAfter(base, t, then, else)
           B2 == [B EXCEPT !.at.failed = failed]
           flags == Continuing(t, "then", base, then) \cup
                    Continuing(t, "else", base, else)
           C == Flagged(B2, flags)
           D == MergeBindings(C, t, base, then, else)
           N == ContinueNarrowing(D, t, base, then, else)
           E == InsertNarrowed(N, refined)
           F == JoinLoopVectors(E, t, base, then, else)
           G == ApplyBoxes(F, JoinedBoxes(t, base, then, else))
           last == Unreached(t, then, else)
<1>1. Tracks(s, W) /\ ArmTyped(base)
  BY TracksHere DEF Here, ArmTyped, Scope
<1>2. failed \in SUBSET {"package"}
  BY <1>1 DEF FailedAfter, ArmTyped
<1>3. flags \in SUBSET Flags /\ last \in SUBSET Flags
  BY DEF Continuing, Flags, Unreached
<1> HIDE DEF W, failed, flags, last
<1>4. Tracks(s, A)
  BY <1>1, TracksForgetDefinitions, TracksLoseAssertions
<1> HIDE DEF A
<1>5. Tracks(s, B)
  BY <1>4, TracksClearOpsFacts, TracksClearStrings, TracksClearGuards
<1> HIDE DEF B
<1>6. Tracks(s, B2)
  BY <1>2, <1>5, TracksFailed
<1> HIDE DEF B2
<1>7. Tracks(s, C)
  BY <1>3, <1>6, TracksFlagged
<1> HIDE DEF C
<1>8. Tracks(s, D)
  BY <1>1, <1>7, TracksMergeBindings
<1> HIDE DEF D
<1>9. Tracks(s, N)
  BY <1>8, TracksContinueNarrowing
<1> HIDE DEF N
<1>10. Tracks(s, E)
  BY <1>9, TracksInsertNarrowed
<1> HIDE DEF E
<1>11. Tracks(s, F)
  BY <1>10, TracksJoinLoopVectors
<1> HIDE DEF F
<1>12. Tracks(s, G)
  BY <1>1, <1>11, JoinedBoxesTyped, TracksApplyBoxes
<1> HIDE DEF G
<1>13. Tracks(s, Flagged(G, last))
  BY <1>3, <1>12, TracksFlagged
<1>14. Joined(Here(s), t, then, else, refined) = Flagged(G, last)
  BY DEF Joined, W, A, B, failed, B2, flags, C, D, N, E, F, G, last
<1> QED
  BY <1>13, <1>14

LEMMA TracksJoin ==
  ASSUME NEW s \in Scope, NEW t \in Tests,
         NEW then, ArmTyped(then), NEW else, ArmTyped(else)
  PROVE  Tracks(s, Join(Here(s), t, then, else))
<1> DEFINE plain == {w \in {"then", "else"} :
                       ReturnNames \cap (IF w = "then" THEN then ELSE else).names = {}}
           exits == Exits(t, s, s, then, else, plain)
           refined == Refinements(t, s, then, else, exits)
<1>1. Here(s).at = s
  BY DEF Here
<1>2. Bound(s) /\ Bound(then) /\ Bound(else)
  BY DEF Bound, ArmTyped, Scope
<1>3. Join(Here(s), t, then, else) = Joined(Here(s), t, then, else, refined)
  BY <1>1 DEF Join
<1> HIDE DEF exits
<1>4. TypesFor(refined)
  BY <1>2, RefinementsTyped
<1> HIDE DEF refined
<1> QED
  BY <1>3, <1>4, TracksJoined

-----------------------------------------------------------------------------
(* The journal                                                             *)

\* A delta over the scope before the arm is what the join reads of the arm's
\* last scope.
Matches(changed, flags, failed, base, final) ==
    /\ flags = final.flags /\ failed = final.failed
    /\ DOMAIN changed \subseteq Slots
    /\ \A n \in DOMAIN changed : changed[n] \in Binding
    /\ \A n \in Slots : Facts(Over(changed, base.bind)[n]) = Facts(final.bind[n])

FrameShaped(f) ==
    f \in [test : {f.test}, arm : {f.arm}, len : {f.len}, flags : {f.flags},
           failed : {f.failed}, changed : {f.changed}, armFlags : {f.armFlags},
           armFailed : {f.armFailed}, base : {f.base}, then : {f.then}]

FrameOK(f, L, s) ==
    /\ FrameShaped(f)
    /\ f.test \in InitialTests /\ f.arm \in {"then", "else"}
    /\ f.len \in 0 .. Len(L) /\ f.base \in Scope /\ f.then \in Scope
    /\ f.flags = f.base.flags /\ f.failed = f.base.failed
    /\ Same(Pre(L, s, f.len + 1), f.base)
    /\ f.arm = "else" =>
          Matches(f.changed, f.armFlags, f.armFailed, f.base, f.then)

\* The snapshots fs over the log L, which leads to scope s: the outermost is
\* at its beginning, and each spans what was recorded before the next.
Framed(fs, L, s) ==
    /\ IsLog(fs)
    /\ \A j \in 1 .. Len(fs) : FrameOK(fs[j], L, s)
    /\ Len(fs) > 0 => fs[1].len = 0
    /\ \A j, k \in 1 .. Len(fs) : j <= k => fs[j].len <= fs[k].len
    /\ \A j \in 1 .. Len(fs) - 1 :
          Span(L, fs[j].len, fs[j + 1].len, fs[j].base, fs[j + 1].base)

JournalInv ==
    /\ steps \in [writes : 0 .. MaxWrites, ifs : 0 .. MaxIfs]
    /\ scope \in Scope
    /\ Chain(undo, scope)
    /\ Framed(frames, undo, scope) /\ Len(frames) <= MaxDepth
    /\ frames = <<>> => undo = <<>> /\ ~ Rolling
    /\ frames # <<>> /\ ~ Rolling =>
          Span(undo, Top.len, Len(undo), Top.base, scope)
    /\ Rolling =>
          /\ delta.final \in Scope
          /\ Matches(delta.changed, delta.flags, delta.failed, Top.base, delta.final)

LEMMA LogFacts ==
  ASSUME NEW L, IsLog(L)
  PROVE  /\ Len(L) \in Nat /\ DOMAIN L = 1 .. Len(L)
         /\ L = <<>> <=> Len(L) = 0
  BY DEF IsLog

\* What holds of the records up to K holds in a log that shares them.
LEMMA SpanShared ==
  ASSUME NEW L, NEW M, NEW from \in Nat, NEW to \in Nat,
         \A i \in 1 .. to : M[i] = L[i],
         NEW base, NEW s, Span(L, from, to, base, s)
  PROVE  Span(M, from, to, base, s)
<1> SUFFICES ASSUME NEW n \in Slots PROVE SpanName(M, from, to, base, s, n)
  BY DEF Span
<1>1. SpanName(L, from, to, base, s, n)
  BY DEF Span
<1>2. \A i \in from + 1 .. to : M[i] = L[i]
  OBVIOUS
<1>3. CASE /\ \A i \in from + 1 .. to : ~ Writes(L[i], n)
           /\ Facts(s.bind[n]) = Facts(base.bind[n])
  BY <1>2, <1>3 DEF SpanName
<1>4. ASSUME NEW i \in from + 1 .. to,
             Writes(L[i], n), \A k \in i + 1 .. to : ~ Writes(L[k], n),
             L[i].kind = "Assignment" =>
                Facts(s.bind[n]) = Facts(Plain(s.bind[n].type))
      PROVE  SpanName(M, from, to, base, s, n)
  <2>1. \A k \in i + 1 .. to : ~ Writes(M[k], n)
    BY <1>2, <1>4
  <2> QED
    BY <1>2, <1>4, <2>1 DEF SpanName
<1> QED
  BY <1>1, <1>3, <1>4 DEF SpanName

LEMMA FramesShared ==
  ASSUME NEW fs, NEW L, NEW s, Framed(fs, L, s),
         NEW M, NEW u, IsLog(L), IsLog(M), NEW K \in Nat, K <= Len(M),
         \A i \in 1 .. K : M[i] = L[i],
         \A k \in 1 .. K + 1 : Same(Pre(M, u, k), Pre(L, s, k)),
         \A j \in 1 .. Len(fs) : fs[j].len <= K
  PROVE  Framed(fs, M, u)
<1>1. ASSUME NEW j \in 1 .. Len(fs) PROVE FrameOK(fs[j], M, u)
  <2>1. FrameOK(fs[j], L, s) /\ fs[j].len <= K
    BY DEF Framed
  <2>2. fs[j].len \in Nat /\ fs[j].len + 1 \in 1 .. K + 1
    BY <2>1, LogFacts DEF FrameOK
  <2>3. Same(Pre(M, u, fs[j].len + 1), Pre(L, s, fs[j].len + 1))
    BY <2>2
  <2>4. Same(Pre(M, u, fs[j].len + 1), fs[j].base)
    BY <2>1, <2>3 DEF FrameOK, Same
  <2>5. fs[j].len \in 0 .. Len(M)
    BY <2>1, <2>2, LogFacts
  <2> QED
    BY <2>1, <2>4, <2>5 DEF FrameOK
<1>2. ASSUME NEW j \in 1 .. Len(fs) - 1
      PROVE  Span(M, fs[j].len, fs[j + 1].len, fs[j].base, fs[j + 1].base)
  <2>1. /\ Len(fs) \in Nat /\ j \in 1 .. Len(fs) /\ j + 1 \in 1 .. Len(fs)
        /\ FrameOK(fs[j], L, s) /\ FrameOK(fs[j + 1], L, s)
        /\ Span(L, fs[j].len, fs[j + 1].len, fs[j].base, fs[j + 1].base)
    BY LogFacts DEF Framed
  <2>2. fs[j].len \in Nat /\ fs[j + 1].len \in Nat /\ fs[j + 1].len <= K
    BY <2>1, LogFacts DEF FrameOK
  <2>3. \A i \in 1 .. fs[j + 1].len : M[i] = L[i]
    BY <2>2
  <2> QED
    BY <2>1, <2>2, <2>3, SpanShared
<1> QED
  BY <1>1, <1>2 DEF Framed

\* One walk after another
LEMMA SpanConcat ==
  ASSUME NEW L, NEW N, IsLog(L), IsLog(N), NEW from \in Nat, from <= Len(L),
         NEW base, NEW s, NEW u,
         Span(L, from, Len(L), base, s), Span(N, 0, Len(N), s, u)
  PROVE  Span(L \o N, from, Len(L) + Len(N), base, u)
<1> DEFINE M == L \o N
<1> SUFFICES ASSUME NEW n \in Slots
             PROVE  SpanName(M, from, Len(L) + Len(N), base, u, n)
  BY DEF Span
<1>1. /\ Len(L) \in Nat /\ Len(N) \in Nat
      /\ \A i \in 1 .. Len(L) : M[i] = L[i]
      /\ \A i \in Len(L) + 1 .. Len(L) + Len(N) : M[i] = N[i - Len(L)]
  BY LogConcat
<1> HIDE DEF M
<1>2. SpanName(L, from, Len(L), base, s, n) /\ SpanName(N, 0, Len(N), s, u, n)
  BY DEF Span
<1>3. CASE /\ \A i \in 0 + 1 .. Len(N) : ~ Writes(N[i], n)
           /\ Facts(u.bind[n]) = Facts(s.bind[n])
  <2>1. \A i \in Len(L) + 1 .. Len(L) + Len(N) : ~ Writes(M[i], n)
    BY <1>1, <1>3
  <2>2. CASE /\ \A i \in from + 1 .. Len(L) : ~ Writes(L[i], n)
             /\ Facts(s.bind[n]) = Facts(base.bind[n])
    <3>1. \A i \in from + 1 .. Len(L) + Len(N) : ~ Writes(M[i], n)
      BY <1>1, <2>1, <2>2
    <3> QED
      BY <1>3, <2>2, <3>1 DEF SpanName
  <2>3. ASSUME NEW i \in from + 1 .. Len(L),
               Writes(L[i], n), \A k \in i + 1 .. Len(L) : ~ Writes(L[k], n),
               L[i].kind = "Assignment" =>
                  Facts(s.bind[n]) = Facts(Plain(s.bind[n].type))
        PROVE  SpanName(M, from, Len(L) + Len(N), base, u, n)
    <3>1. /\ Facts(u.bind[n]).type = u.bind[n].type
          /\ Facts(s.bind[n]).type = s.bind[n].type
      BY DEF Facts
    <3>2. i \in from + 1 .. Len(L) + Len(N) /\ M[i] = L[i]
      BY <1>1
    <3>3. \A k \in i + 1 .. Len(L) + Len(N) : ~ Writes(M[k], n)
      BY <1>1, <2>1, <2>3
    <3> QED
      BY <1>3, <2>3, <3>1, <3>2, <3>3 DEF SpanName
  <2> QED
    BY <1>2, <2>2, <2>3 DEF SpanName
<1>4. ASSUME NEW i \in 0 + 1 .. Len(N),
             Writes(N[i], n), \A k \in i + 1 .. Len(N) : ~ Writes(N[k], n),
             N[i].kind = "Assignment" =>
                Facts(u.bind[n]) = Facts(Plain(u.bind[n].type))
      PROVE  SpanName(M, from, Len(L) + Len(N), base, u, n)
  <2>1. /\ Len(L) + i \in from + 1 .. Len(L) + Len(N) /\ M[Len(L) + i] = N[i]
    BY <1>1
  <2>2. \A k \in (Len(L) + i) + 1 .. Len(L) + Len(N) : ~ Writes(M[k], n)
    BY <1>1, <1>4
  <2> QED
    BY <1>4, <2>1, <2>2 DEF SpanName
<1> QED
  BY <1>2, <1>3, <1>4 DEF SpanName

LEMMA ChainTables ==
  ASSUME NEW L, NEW s \in Scope, NEW u \in Scope, Same(s, u), Chain(L, s)
  PROVE  /\ Chain(L, u)
         /\ \A k \in 1 .. Len(L) + 1 : Same(Pre(L, u, k), Pre(L, s, k))
<1>1. IsLog(L) /\ Len(L) \in Nat
  BY LogFacts DEF Chain
<1>2. ASSUME NEW i \in 1 .. Len(L) PROVE StepOK(L[i], Pre(L, u, i + 1))
  <2>1. StepOK(L[i], Pre(L, s, i + 1))
    BY DEF Chain
  <2>2. CASE i < Len(L)
    BY <1>1, <2>1, <2>2 DEF Pre
  <2>3. CASE i = Len(L)
    BY <1>1, <2>1, <2>3, StepTables DEF Pre
  <2> QED
    BY <1>1, <2>2, <2>3
<1> QED
  BY <1>1, <1>2 DEF Chain, Pre, Same

\* The records of a walk, added to a log
LEMMA Committed ==
  ASSUME NEW L, NEW s \in Scope, Chain(L, s), NEW W, Tracks(s, W)
  PROVE  LET M == L \o W.log
         IN  /\ W.at \in Scope /\ Chain(M, W.at)
             /\ Len(M) = Len(L) + Len(W.log) /\ Len(L) <= Len(M)
             /\ \A i \in 1 .. Len(L) : M[i] = L[i]
             /\ \A k \in 1 .. Len(L) + 1 : Same(Pre(M, W.at, k), Pre(L, s, k))
<1> DEFINE N == W.log
           M == L \o N
           u == W.at
<1>1. u \in Scope /\ Chain(N, u) /\ Same(Pre(N, u, 1), s) /\ IsLog(L) /\ IsLog(N)
  BY DEF Tracks, Chain
<1>2. /\ Len(L) \in Nat /\ Len(N) \in Nat /\ IsLog(M)
      /\ Len(M) = Len(L) + Len(N)
      /\ \A i \in 1 .. Len(L) : M[i] = L[i]
      /\ \A i \in Len(L) + 1 .. Len(L) + Len(N) : M[i] = N[i - Len(L)]
  BY <1>1, LogConcat
<1> HIDE DEF M, N, u
<1>3. ASSUME NEW k \in 1 .. Len(L) PROVE Pre(M, u, k) = L[k].before
  BY <1>2 DEF Pre
<1>4. ASSUME NEW k \in 1 .. Len(N) + 1 PROVE Pre(M, u, Len(L) + k) = Pre(N, u, k)
  <2>1. CASE k = Len(N) + 1
    BY <1>2, <2>1 DEF Pre
  <2>2. CASE k \in 1 .. Len(N)
    <3>1. /\ Len(L) + k \in Len(L) + 1 .. Len(L) + Len(N)
          /\ (Len(L) + k) - Len(L) = k
      BY <1>2, <2>2
    <3>2. M[Len(L) + k] = N[k]
      BY <1>2, <3>1
    <3> QED
      BY <1>2, <2>2, <3>2 DEF Pre
  <2> QED
    BY <1>2, <2>1, <2>2
<1>5. Same(Pre(M, u, Len(L) + 1), s)
  BY <1>1, <1>2, <1>4
<1>6. ASSUME NEW i \in 1 .. Len(M) PROVE StepOK(M[i], Pre(M, u, i + 1))
  <2>1. CASE i < Len(L)
    <3>1. StepOK(L[i], Pre(L, s, i + 1)) /\ Pre(L, s, i + 1) = L[i + 1].before
      BY <1>2, <2>1 DEF Chain, Pre
    <3>2. M[i] = L[i] /\ Pre(M, u, i + 1) = L[i + 1].before
      BY <1>2, <1>3, <2>1
    <3> QED
      BY <3>1, <3>2
  <2>2. CASE i = Len(L)
    <3>1. StepOK(L[i], s) /\ M[i] = L[i]
      BY <1>2, <2>2 DEF Chain, Pre
    <3>2. Pre(M, u, i + 1) \in Scope
      <4>1. Pre(N, u, 1) \in Scope
        BY <1>1, <1>2 DEF Pre, Chain, StepOK
      <4> QED
        BY <1>2, <1>4, <2>2, <4>1
    <3>3. Same(s, Pre(M, u, i + 1))
      BY <1>5, <2>2 DEF Same
    <3> QED
      BY <3>1, <3>2, <3>3, StepTables
  <2>3. CASE i > Len(L)
    <3> DEFINE k == i - Len(L)
    <3>1. k \in 1 .. Len(N) /\ k + 1 \in 1 .. Len(N) + 1 /\ Len(L) + (k + 1) = i + 1
      BY <1>2, <2>3
    <3>2. StepOK(N[k], Pre(N, u, k + 1)) /\ M[i] = N[k]
      BY <1>1, <1>2, <2>3, <3>1 DEF Chain
    <3>3. Pre(M, u, Len(L) + (k + 1)) = Pre(N, u, k + 1)
      BY <1>4, <3>1
    <3> QED
      BY <3>1, <3>2, <3>3
  <2> QED
    BY <1>2, <2>1, <2>2, <2>3
<1>7. Chain(M, u)
  BY <1>2, <1>6 DEF Chain
<1>8. ASSUME NEW k \in 1 .. Len(L) + 1 PROVE Same(Pre(M, u, k), Pre(L, s, k))
  <2>1. CASE k \in 1 .. Len(L)
    BY <1>2, <1>3, <2>1 DEF Pre, Same
  <2>2. CASE k = Len(L) + 1
    BY <1>2, <1>5, <2>2 DEF Pre
  <2> QED
    BY <1>2, <2>1, <2>2
<1> QED
  BY <1>1, <1>2, <1>7, <1>8 DEF M, N, u

LEMMA FramesCommitted ==
  ASSUME NEW fs, NEW L, NEW s \in Scope, Framed(fs, L, s), Chain(L, s),
         NEW W, Tracks(s, W)
  PROVE  Framed(fs, L \o W.log, W.at)
<1> DEFINE M == L \o W.log
<1>1. /\ Chain(M, W.at) /\ Len(L) <= Len(M)
      /\ \A i \in 1 .. Len(L) : M[i] = L[i]
      /\ \A k \in 1 .. Len(L) + 1 : Same(Pre(M, W.at, k), Pre(L, s, k))
  BY Committed
<1> HIDE DEF M
<1>2. IsLog(L) /\ IsLog(M) /\ Len(L) \in Nat
  BY <1>1, LogFacts DEF Chain
<1>3. \A j \in 1 .. Len(fs) : fs[j].len <= Len(L)
  BY <1>2 DEF Framed, FrameOK
<1>4. Framed(fs, M, W.at)
  BY <1>1, <1>2, <1>3, FramesShared
<1> QED
  BY <1>4 DEF M

\* The innermost snapshot
LEMMA TopFacts ==
  ASSUME JournalInv, frames # <<>>
  PROVE  /\ IsLog(frames) /\ Len(frames) \in Nat /\ Len(frames) >= 1
         /\ FrameOK(Top, undo, scope)
         /\ \A j \in 1 .. Len(frames) : frames[j].len <= Top.len
         /\ IsLog(undo) /\ Len(undo) \in Nat /\ Top.len \in Nat
         /\ Top.len <= Len(undo)
<1>1. Framed(frames, undo, scope) /\ IsLog(frames) /\ IsLog(undo)
  BY DEF JournalInv, Framed, Chain
<1>2. Len(frames) \in Nat /\ Len(frames) >= 1 /\ Len(undo) \in Nat
  BY <1>1, LogFacts
<1>3. FrameOK(Top, undo, scope)
  BY <1>1, <1>2 DEF Framed, Top
<1>4. \A j \in 1 .. Len(frames) : frames[j].len <= Top.len
  BY <1>1, <1>2 DEF Framed, Top
<1> QED
  BY <1>1, <1>2, <1>3, <1>4 DEF FrameOK

LEMMA JournalStart == JournalInit => JournalInv
<1> SUFFICES ASSUME JournalInit PROVE JournalInv
  OBVIOUS
<1>1. scope \in Scope /\ steps \in [writes : 0 .. MaxWrites, ifs : 0 .. MaxIfs]
  BY WalkAssumption DEF JournalInit
<1>2. ~ Rolling
  BY DEF JournalInit, Rolling, NoDelta
<1>3. Chain(undo, scope)
  BY EmptyLog DEF JournalInit, Chain
<1>4. Framed(frames, undo, scope) /\ Len(frames) = 0
  BY EmptyLog DEF JournalInit, Framed
<1> QED
  BY <1>1, <1>2, <1>3, <1>4, WalkAssumption DEF JournalInit, JournalInv

LEMMA JournalWrite == ASSUME JournalInv, Write PROVE JournalInv'
<1>1. PICK o \in Operations : Commit(Apply(Here(scope), o), frames # <<>>)
  BY DEF Write
<1> DEFINE W == Apply(Here(scope), o)
<1>2. Tracks(scope, W)
  BY TracksHere, TracksApply, WalkAssumption DEF JournalInv
<1> HIDE DEF W
<1>3. /\ scope' = W.at /\ frames' = frames /\ delta' = delta
      /\ undo' = IF frames # <<>> THEN undo \o W.log ELSE undo
      /\ Rolling' = Rolling /\ ~ Rolling
  BY <1>1 DEF Write, Commit, W, Rolling, Walking
<1>4. steps' \in [writes : 0 .. MaxWrites, ifs : 0 .. MaxIfs]
  BY WalkAssumption DEF Write, JournalInv
<1>5. scope' \in Scope
  BY <1>2, <1>3 DEF Tracks
<1>6. CASE frames = <<>>
  <2>1. undo' = <<>> /\ frames' = <<>>
    BY <1>3, <1>6 DEF JournalInv
  <2>2. Chain(undo', scope') /\ Framed(frames', undo', scope') /\ Len(frames') = 0
    BY <2>1, EmptyLog DEF Chain, Framed
  <2> QED
    BY <1>3, <1>4, <1>5, <2>1, <2>2, WalkAssumption DEF JournalInv
<1>7. CASE frames # <<>>
  <2> DEFINE M == undo \o W.log
  <2>1. undo' = M /\ Top' = Top /\ Chain(undo, scope) /\ scope \in Scope
    BY <1>3, <1>7 DEF Top, JournalInv
  <2>2. Chain(M, W.at) /\ Framed(frames, M, W.at) /\ Len(M) = Len(undo) + Len(W.log)
    BY <1>2, <2>1, Committed, FramesCommitted DEF JournalInv
  <2>3. Span(M, Top.len, Len(undo) + Len(W.log), Top.base, W.at)
    <3>1. /\ Span(undo, Top.len, Len(undo), Top.base, scope)
          /\ Span(W.log, 0, Len(W.log), scope, W.at) /\ IsLog(W.log)
      BY <1>2, <1>3, <1>7 DEF JournalInv, Tracks, Chain
    <3>2. IsLog(undo) /\ Top.len \in Nat /\ Top.len <= Len(undo)
      BY <1>7, TopFacts
    <3> QED
      BY <3>1, <3>2, SpanConcat
  <2> HIDE DEF M
  <2> QED
    BY <1>3, <1>4, <1>5, <1>7, <2>1, <2>2, <2>3 DEF JournalInv
<1> QED
  BY <1>6, <1>7

LEMMA JournalEnterIf == ASSUME JournalInv, EnterIf PROVE JournalInv'
<1>1. PICK t \in InitialTests :
        /\ frames' = Append(frames,
                [test |-> t, arm |-> "then", len |-> Len(undo),
                 flags |-> scope.flags, failed |-> scope.failed,
                 changed |-> None, armFlags |-> {}, armFailed |-> {},
                 base |-> scope, then |-> scope])
        /\ Commit(EnterArm(scope, t, "then"), TRUE)
  BY DEF EnterIf
<1> DEFINE W == EnterArm(scope, t, "then")
           M == undo \o W.log
           n == Len(frames)
           f == [test |-> t, arm |-> "then", len |-> Len(undo),
                 flags |-> scope.flags, failed |-> scope.failed,
                 changed |-> None, armFlags |-> {}, armFailed |-> {},
                 base |-> scope, then |-> scope]
           fs == Append(frames, f)
<1>2. /\ scope \in Scope /\ Chain(undo, scope) /\ Framed(frames, undo, scope)
      /\ IsLog(frames) /\ IsLog(undo) /\ n \in Nat /\ Len(undo) \in Nat
  BY LogFacts DEF JournalInv, Framed, Chain
<1>3. Tracks(scope, W)
  BY <1>2, TracksEnterArm, WalkAssumption
<1> HIDE DEF W
<1>4. /\ scope' = W.at /\ undo' = M /\ frames' = fs /\ delta' = delta
      /\ Rolling' = Rolling /\ ~ Rolling
  BY <1>1 DEF EnterIf, Commit, W, Rolling, Walking
<1>5. /\ f.test = t /\ f.arm = "then" /\ f.len = Len(undo) /\ f.base = scope
      /\ f.then = scope /\ f.flags = scope.flags /\ f.failed = scope.failed
      /\ FrameShaped(f)
  BY DEF FrameShaped
<1> HIDE DEF f
<1>6. /\ IsLog(fs) /\ Len(fs) = n + 1 /\ fs[n + 1] = f
      /\ \A j \in 1 .. n : fs[j] = frames[j]
  BY <1>2, LogAppend
<1>7. /\ W.at \in Scope /\ Chain(M, W.at) /\ Framed(frames, M, W.at)
      /\ Len(M) = Len(undo) + Len(W.log) /\ Len(undo) <= Len(M)
      /\ \A i \in 1 .. Len(undo) : M[i] = undo[i]
      /\ Same(Pre(M, W.at, Len(undo) + 1), Pre(undo, scope, Len(undo) + 1))
  BY <1>2, <1>3, Committed, FramesCommitted
<1>8. IsLog(M) /\ Len(M) \in Nat /\ IsLog(W.log)
  BY <1>3, <1>7, LogFacts DEF Chain, Tracks
<1>9. Span(M, Len(undo), Len(M), scope, W.at)
  <2>1. Span(undo, Len(undo), Len(undo), scope, scope)
    BY <1>2 DEF Span, SpanName
  <2>2. Span(W.log, 0, Len(W.log), scope, W.at)
    BY <1>3 DEF Tracks
  <2> QED
    BY <1>2, <1>7, <1>8, <2>1, <2>2, SpanConcat
<1> HIDE DEF M, fs
<1>10. FrameOK(f, M, W.at)
  <2>1. Pre(undo, scope, Len(undo) + 1) = scope
    BY <1>2 DEF Pre
  <2> QED
    BY <1>2, <1>5, <1>7, <1>8, <2>1 DEF FrameOK
<1>11. Framed(fs, M, W.at)
  <2>1. \A j \in 1 .. Len(fs) : FrameOK(fs[j], M, W.at)
    BY <1>2, <1>6, <1>7, <1>10 DEF Framed
  <2>2. fs[1].len = 0
    <3>1. CASE n = 0
      <4>1. undo = <<>>
        BY <1>2, <3>1, LogFacts DEF JournalInv
      <4> QED
        BY <1>5, <1>6, <3>1, <4>1, EmptyLog
    <3>2. CASE n > 0
      BY <1>2, <1>6, <3>2 DEF Framed
    <3> QED
      BY <1>2, <3>1, <3>2
  <2>3. \A j, k \in 1 .. Len(fs) : j <= k => fs[j].len <= fs[k].len
    <3>1. \A j \in 1 .. n : frames[j].len <= Len(undo)
      BY <1>2 DEF Framed, FrameOK
    <3>2. \A j, k \in 1 .. n : j <= k => frames[j].len <= frames[k].len
      BY <1>2 DEF Framed
    <3> QED
      BY <1>2, <1>5, <1>6, <3>1, <3>2
  <2>4. ASSUME NEW j \in 1 .. Len(fs) - 1
        PROVE  Span(M, fs[j].len, fs[j + 1].len, fs[j].base, fs[j + 1].base)
    <3>1. CASE j < n
      <4>1. fs[j] = frames[j] /\ fs[j + 1] = frames[j + 1] /\ j \in 1 .. n - 1
        BY <1>2, <1>6, <3>1
      <4> QED
        BY <1>7, <4>1 DEF Framed
    <3>2. CASE j = n
      <4>1. fs[j] = Top /\ fs[j + 1] = f /\ frames # <<>>
        BY <1>2, <1>6, <3>2, LogFacts DEF Top
      <4>2. Span(undo, Top.len, Len(undo), Top.base, scope) /\ Top.len \in Nat
        BY <1>4, <4>1, TopFacts DEF JournalInv
      <4>3. Span(M, Top.len, Len(undo), Top.base, scope)
        BY <1>2, <1>7, <4>2, SpanShared
      <4> QED
        BY <1>5, <4>1, <4>3
    <3> QED
      BY <1>2, <1>6, <3>1, <3>2
  <2> QED
    BY <1>6, <2>1, <2>2, <2>3, <2>4 DEF Framed
<1>12. steps' \in [writes : 0 .. MaxWrites, ifs : 0 .. MaxIfs]
  BY WalkAssumption DEF EnterIf, JournalInv
<1>13. Len(frames') <= MaxDepth
  BY <1>2, <1>4, <1>6, WalkAssumption DEF EnterIf
<1>14. frames' # <<>> /\ Top' = f
  BY <1>2, <1>4, <1>6, LogFacts DEF Top
<1> QED
  BY <1>4, <1>5, <1>7, <1>9, <1>11, <1>12, <1>13, <1>14 DEF JournalInv

LEMMA TouchedSince ==
  ASSUME NEW L, IsLog(L), NEW m \in Nat, m <= Len(L), NEW n
  PROVE  n \in Touched(SubSeq(L, m + 1, Len(L)))
            <=> \E i \in m + 1 .. Len(L) : Writes(L[i], n)
<1> DEFINE N == SubSeq(L, m + 1, Len(L))
<1>1. PICK S : L \in Seq(S)
  BY DEF IsLog
<1>2. Len(L) \in Nat
  BY <1>1
<1>3. /\ DOMAIN N = 1 .. Len(L) - m
      /\ \A i \in 1 .. Len(L) - m : N[i] = L[m + i]
  <2>1. N \in Seq(S)
    BY <1>1, <1>2
  <2>2. Len(N) = Len(L) - m
    BY <1>1, <1>2
  <2>3. DOMAIN N = 1 .. Len(N)
    BY <2>1
  <2> QED
    BY <1>1, <1>2, <2>2, <2>3
<1> HIDE DEF N
<1>4. n \in Touched(N) <=> \E i \in DOMAIN N : Writes(N[i], n)
  BY DEF Touched, Writes
<1>5. ASSUME NEW i \in 1 .. Len(L) - m, Writes(N[i], n)
      PROVE  \E k \in m + 1 .. Len(L) : Writes(L[k], n)
  BY <1>2, <1>3, <1>5
<1>6. ASSUME NEW k \in m + 1 .. Len(L), Writes(L[k], n)
      PROVE  \E i \in 1 .. Len(L) - m : Writes(N[i], n)
  <2>1. k - m \in 1 .. Len(L) - m /\ m + (k - m) = k
    BY <1>2
  <2> QED
    BY <1>3, <1>6, <2>1
<1> QED
  BY <1>3, <1>4, <1>5, <1>6 DEF N

LEMMA GreatestIsMax ==
  ASSUME NEW S \in SUBSET Nat, NEW i \in S, \A k \in S : k <= i
  PROVE  Max(S) = i
<1>1. \A x \in S : (\A y \in S : x >= y) => x = i
  OBVIOUS
<1>2. i \in S /\ \A y \in S : i >= y
  OBVIOUS
<1> QED
  BY <1>1, <1>2 DEF Max

\* What finish_snapshot captures is the arm's last scope.
LEMMA CapturedMatches ==
  ASSUME JournalInv, frames # <<>>, ~ Rolling
  PROVE  LET changed == [n \in Touched(SubSeq(undo, Top.len + 1, Len(undo)))
                            |-> Captured(n)]
         IN  Matches(changed, scope.flags, scope.failed, Top.base, scope)
<1> DEFINE T == Touched(SubSeq(undo, Top.len + 1, Len(undo)))
           changed == [n \in T |-> Captured(n)]
<1>1. /\ IsLog(undo) /\ Len(undo) \in Nat /\ Top.len \in Nat
      /\ Top.len <= Len(undo) /\ Top.base \in Scope /\ scope \in Scope
      /\ Span(undo, Top.len, Len(undo), Top.base, scope) /\ Chain(undo, scope)
  BY TopFacts DEF JournalInv, FrameOK
<1>2. \A n : n \in T <=> \E i \in Top.len + 1 .. Len(undo) : Writes(undo[i], n)
  BY <1>1, TouchedSince
<1> HIDE DEF T
<1>3. T \subseteq Slots
  <2>1. \A i \in 1 .. Len(undo) :
           undo[i].kind \in BindingKinds => DOMAIN undo[i].saved \subseteq Slots
    BY <1>1 DEF Chain, StepOK
  <2>2. \A i \in Top.len + 1 .. Len(undo) : i \in 1 .. Len(undo)
    BY <1>1
  <2> QED
    BY <1>2, <2>1, <2>2 DEF Writes
<1>4. ASSUME NEW n \in T
      PROVE  Captured(n) \in Binding /\ Facts(Captured(n)) = Facts(scope.bind[n])
  <2> DEFINE S == {i \in (Top.len + 1) .. Len(undo) :
                     undo[i].kind \in BindingKinds /\ n \in DOMAIN undo[i].saved}
  <2>1. SpanName(undo, Top.len, Len(undo), Top.base, scope, n)
    BY <1>1, <1>3 DEF Span
  <2>2. PICK i \in Top.len + 1 .. Len(undo) :
          /\ Writes(undo[i], n)
          /\ \A k \in i + 1 .. Len(undo) : ~ Writes(undo[k], n)
          /\ undo[i].kind = "Assignment" =>
                Facts(scope.bind[n]) = Facts(Plain(scope.bind[n].type))
    BY <1>2, <2>1 DEF SpanName
  <2>3. Max(S) = i
    <3>1. S \in SUBSET Nat /\ i \in S
      BY <1>1, <2>2 DEF Writes
    <3>2. \A k \in S : k <= i
      BY <1>1, <2>2 DEF Writes
    <3> QED
      BY <3>1, <3>2, GreatestIsMax
  <2>4. LastRecord(n) = undo[i]
    BY <2>3 DEF LastRecord
  <2>5. scope.bind[n] \in Binding /\ scope.bind[n].type \in BindingTypes \cup {None}
    BY <1>1, <1>3 DEF Scope, Binding
  <2> QED
    BY <2>2, <2>4, <2>5, PlainTyped DEF Captured
<1>5. ASSUME NEW n \in Slots, n \notin T
      PROVE  Facts(Top.base.bind[n]) = Facts(scope.bind[n])
  <2>1. SpanName(undo, Top.len, Len(undo), Top.base, scope, n)
    BY <1>1 DEF Span
  <2> QED
    BY <1>2, <1>5, <2>1 DEF SpanName
<1>6. DOMAIN changed = T /\ \A n \in T : changed[n] = Captured(n)
  OBVIOUS
<1> HIDE DEF changed
<1>7. Top.base.bind \in [Slots -> Binding]
  BY <1>1 DEF Scope
<1>8. \A n \in Slots : Over(changed, Top.base.bind)[n] =
                         IF n \in T THEN changed[n] ELSE Top.base.bind[n]
  BY <1>3, <1>6, <1>7 DEF Over
<1>9. Matches(changed, scope.flags, scope.failed, Top.base, scope)
  BY <1>3, <1>4, <1>5, <1>6, <1>8 DEF Matches
<1> QED
  BY <1>9 DEF changed, T

LEMMA JournalFinishArm == ASSUME JournalInv, FinishArm PROVE JournalInv'
<1> DEFINE changed == [n \in Touched(SubSeq(undo, Top.len + 1, Len(undo)))
                         |-> Captured(n)]
<1>1. /\ frames # <<>> /\ ~ Rolling
      /\ delta' = [changed |-> changed, flags |-> scope.flags,
                   failed |-> scope.failed, final |-> scope]
      /\ scope' = [scope EXCEPT !.failed = {}]
      /\ undo' = undo /\ frames' = frames /\ steps' = steps
  BY DEF FinishArm
<1>2. Matches(changed, scope.flags, scope.failed, Top.base, scope)
  BY <1>1, CapturedMatches
<1> HIDE DEF changed
<1>3. /\ scope \in Scope /\ Chain(undo, scope) /\ Framed(frames, undo, scope)
      /\ IsLog(undo) /\ Len(undo) \in Nat
  BY LogFacts DEF JournalInv, Chain
<1>4. scope' \in Scope /\ Same(scope, scope')
  BY <1>1, <1>3 DEF Scope, Same
<1>5. /\ Chain(undo, scope')
      /\ \A k \in 1 .. Len(undo) + 1 : Same(Pre(undo, scope', k), Pre(undo, scope, k))
  BY <1>3, <1>4, ChainTables
<1>6. Framed(frames, undo, scope')
  <2>1. \A j \in 1 .. Len(frames) : frames[j].len <= Len(undo)
    BY <1>3 DEF Framed, FrameOK
  <2> QED
    BY <1>3, <1>5, <2>1, FramesShared
<1>7. /\ delta'.changed = changed /\ delta'.flags = scope.flags
      /\ delta'.failed = scope.failed /\ delta'.final = scope /\ Top' = Top
  BY <1>1 DEF Top
<1>8. Rolling'
  BY <1>3, <1>7, WalkAssumption DEF Rolling
<1> QED
  BY <1>1, <1>2, <1>3, <1>4, <1>5, <1>6, <1>7, <1>8 DEF JournalInv

LEMMA JournalPopRecord == ASSUME JournalInv, PopRecord PROVE JournalInv'
<1> DEFINE n == Len(undo)
           r == undo[n]
           u == Undone(r, scope)
           M == SubSeq(undo, 1, n - 1)
<1>1. /\ Rolling /\ n > Top.len /\ scope' = u /\ undo' = M
      /\ frames' = frames /\ delta' = delta /\ steps' = steps
  BY DEF PopRecord
<1>2. frames # <<>>
  BY <1>1 DEF JournalInv
<1>3. /\ scope \in Scope /\ Chain(undo, scope) /\ Framed(frames, undo, scope)
      /\ IsLog(undo) /\ n \in Nat /\ Top.len \in Nat
      /\ \A j \in 1 .. Len(frames) : frames[j].len <= Top.len
  BY <1>2, TopFacts DEF JournalInv
<1>4. n - 1 \in Nat /\ n \in 1 .. n /\ Top.len <= n - 1
  BY <1>1, <1>3
<1>5. StepOK(r, scope)
  BY <1>3, <1>4 DEF Chain, Pre
<1>6. Same(u, r.before) /\ r.before \in Scope
  BY <1>5 DEF StepOK
<1>7. Shaped(u) /\ u.flags = scope.flags /\ u.failed = scope.failed
  BY <1>3, ScopeShaped, UndoneShaped
<1> HIDE DEF u
<1>8. u \in Scope
  <2>1. u.flags \in SUBSET Flags /\ u.failed \in SUBSET {"package"}
    BY <1>3, <1>7 DEF Scope
  <2> QED
    BY <1>6, <1>7, <2>1, TablesTyped
<1>9. /\ IsLog(M) /\ Len(M) = n - 1 /\ \A i \in 1 .. n - 1 : M[i] = undo[i]
  <2>1. n - 1 <= Len(undo)
    BY <1>3
  <2> HIDE DEF n
  <2>2. /\ IsLog(SubSeq(undo, 1, n - 1)) /\ Len(SubSeq(undo, 1, n - 1)) = n - 1
        /\ \A i \in 1 .. n - 1 : SubSeq(undo, 1, n - 1)[i] = undo[i]
    BY <1>3, <1>4, <2>1, LogPrefix
  <2> QED
    BY <2>2
<1> HIDE DEF M
<1>10. ASSUME NEW k \in 1 .. (n - 1) + 1 PROVE Same(Pre(M, u, k), Pre(undo, scope, k))
  <2>1. CASE k \in 1 .. n - 1
    BY <1>3, <1>9, <2>1 DEF Pre, Same
  <2>2. CASE k = n
    BY <1>3, <1>6, <1>9, <2>2 DEF Pre
  <2> QED
    BY <1>3, <2>1, <2>2
<1>11. ASSUME NEW i \in 1 .. n - 1 PROVE StepOK(M[i], Pre(M, u, i + 1))
  <2>1. StepOK(undo[i], undo[i + 1].before) /\ M[i] = undo[i]
    <3>1. i \in 1 .. n /\ ~ (i + 1 > n)
      BY <1>3
    <3>2. StepOK(undo[i], Pre(undo, scope, i + 1))
      BY <1>3, <3>1 DEF Chain
    <3>3. Pre(undo, scope, i + 1) = undo[i + 1].before
      BY <3>1 DEF Pre
    <3> QED
      BY <1>9, <3>2, <3>3
  <2>2. CASE i < n - 1
    BY <1>3, <1>9, <2>1, <2>2 DEF Pre
  <2>3. CASE i = n - 1
    <3>1. Pre(M, u, i + 1) = u /\ undo[i + 1] = r
      BY <1>3, <1>9, <2>3 DEF Pre
    <3>2. Same(r.before, u)
      BY <1>6 DEF Same
    <3> QED
      BY <1>6, <1>8, <2>1, <3>1, <3>2, StepTables
  <2> QED
    BY <1>3, <2>2, <2>3
<1>12. Chain(M, u)
  BY <1>9, <1>11 DEF Chain
<1>13. Framed(frames, M, u)
  <2>1. \A j \in 1 .. Len(frames) : frames[j].len <= n - 1
    <3>1. ASSUME NEW j \in 1 .. Len(frames) PROVE frames[j].len <= n - 1
      <4>1. frames[j].len \in Nat /\ frames[j].len <= Top.len
        BY <1>3, LogFacts DEF Framed, FrameOK
      <4> QED
        BY <1>3, <1>4, <4>1
    <3> QED
      BY <3>1
  <2>2. IsLog(undo) /\ IsLog(M) /\ n - 1 \in Nat /\ n - 1 <= Len(M)
    BY <1>3, <1>4, <1>9
  <2> QED
    BY <1>3, <1>9, <1>10, <2>1, <2>2, FramesShared
<1>14. Top' = Top /\ Rolling'
  BY <1>1 DEF Top, Rolling
<1> QED
  BY <1>1, <1>2, <1>8, <1>12, <1>13, <1>14 DEF JournalInv

\* When all records of the innermost snapshot are popped, its mark gives back
\* the scope before the `if`.
LEMMA UnmarkedIsBase ==
  ASSUME JournalInv, frames # <<>>, Len(undo) = Top.len
  PROVE  /\ Unmarked = Top.base /\ Unmarked \in Scope
         /\ Chain(undo, Unmarked) /\ Framed(frames, undo, Unmarked)
         /\ scope.bind = Top.base.bind
<1>1. /\ scope \in Scope /\ Chain(undo, scope) /\ Framed(frames, undo, scope)
      /\ IsLog(undo) /\ Len(undo) \in Nat /\ FrameOK(Top, undo, scope)
      /\ Top.base \in Scope /\ Top.flags = Top.base.flags
      /\ Top.failed = Top.base.failed
  BY TopFacts DEF JournalInv, FrameOK
<1>2. Same(scope, Top.base)
  <2>1. Pre(undo, scope, Len(undo) + 1) = scope
    BY <1>1 DEF Pre
  <2> QED
    BY <1>1, <2>1 DEF FrameOK
<1>3. /\ Unmarked \in Scope /\ Same(scope, Unmarked)
      /\ Unmarked.flags = Top.flags /\ Unmarked.failed = Top.failed
  <2>1. Top.flags \in SUBSET Flags /\ Top.failed \in SUBSET {"package"}
    BY <1>1 DEF Scope
  <2> QED
    BY <1>1, <2>1 DEF Unmarked, Scope, Same
<1>4. Same(Unmarked, Top.base)
  BY <1>2, <1>3 DEF Same
<1>5. Unmarked = Top.base
  BY <1>1, <1>3, <1>4, ShapedEqual
<1>6. /\ Chain(undo, Unmarked)
      /\ \A k \in 1 .. Len(undo) + 1 : Same(Pre(undo, Unmarked, k), Pre(undo, scope, k))
  BY <1>1, <1>3, ChainTables
<1>7. Framed(frames, undo, Unmarked)
  <2>1. \A j \in 1 .. Len(frames) : frames[j].len <= Len(undo)
    BY <1>1 DEF Framed, FrameOK
  <2> QED
    BY <1>1, <1>6, <2>1, FramesShared
<1> QED
  BY <1>2, <1>3, <1>5, <1>6, <1>7 DEF Same

LEMMA FramedReplace ==
  ASSUME NEW fs, NEW L, NEW s, Framed(fs, L, s), Len(fs) >= 1, NEW g,
         FrameOK(g, L, s), g.len = fs[Len(fs)].len, g.base = fs[Len(fs)].base
  PROVE  LET new == [fs EXCEPT ![Len(fs)] = g]
         IN  /\ Framed(new, L, s) /\ Len(new) = Len(fs) /\ new[Len(fs)] = g
             /\ \A j \in 1 .. Len(fs) - 1 : new[j] = fs[j]
<1> DEFINE n == Len(fs)
           new == [fs EXCEPT ![n] = g]
<1>1. IsLog(fs) /\ n \in Nat
  BY LogFacts DEF Framed
<1>2. IsLog(new) /\ Len(new) = n
  <2>1. PICK S : fs \in Seq(S)
    BY <1>1 DEF IsLog
  <2>2. fs \in Seq(S \cup {g}) /\ g \in S \cup {g}
    BY <2>1
  <2>3. new \in Seq(S \cup {g}) /\ Len(new) = n
    BY <2>2
  <2> QED
    BY <2>3 DEF IsLog
<1>3. new[n] = g /\ \A j \in 1 .. n - 1 : new[j] = fs[j]
  BY <1>1, LogFacts
<1> HIDE DEF new
<1>4. \A j \in 1 .. n : new[j].len = fs[j].len /\ new[j].base = fs[j].base
  BY <1>1, <1>3
<1>5. \A j \in 1 .. n : FrameOK(new[j], L, s)
  BY <1>1, <1>3 DEF Framed
<1>6. Framed(new, L, s)
  <2>1. n > 0 => new[1].len = 0
    BY <1>1, <1>4 DEF Framed
  <2>2. \A j, k \in 1 .. n : j <= k => new[j].len <= new[k].len
    BY <1>4 DEF Framed
  <2>3. ASSUME NEW j \in 1 .. n - 1
        PROVE  Span(L, new[j].len, new[j + 1].len, new[j].base, new[j + 1].base)
    <3>1. j \in 1 .. n /\ j + 1 \in 1 .. n
      BY <1>1
    <3>2. Span(L, fs[j].len, fs[j + 1].len, fs[j].base, fs[j + 1].base)
      BY DEF Framed
    <3> QED
      BY <1>4, <3>1, <3>2
  <2> QED
    BY <1>2, <1>5, <2>1, <2>2, <2>3 DEF Framed
<1> QED
  BY <1>2, <1>3, <1>6 DEF new

LEMMA FramedPrefix ==
  ASSUME NEW fs, NEW L, NEW s, Framed(fs, L, s), Len(fs) >= 1
  PROVE  LET front == SubSeq(fs, 1, Len(fs) - 1)
         IN  /\ Framed(front, L, s) /\ Len(front) = Len(fs) - 1
             /\ \A j \in 1 .. Len(fs) - 1 : front[j] = fs[j]
<1> DEFINE n == Len(fs) - 1
           front == SubSeq(fs, 1, n)
<1>1. IsLog(fs) /\ n \in Nat /\ n <= Len(fs) /\ Len(fs) \in Nat /\ Len(fs) = n + 1
  BY LogFacts DEF Framed
<1> HIDE DEF n
<1>2. IsLog(front) /\ Len(front) = n /\ \A j \in 1 .. n : front[j] = fs[j]
  BY <1>1, LogPrefix
<1> HIDE DEF front
<1>3. Framed(front, L, s)
  <2>1. \A j \in 1 .. n : FrameOK(front[j], L, s)
    BY <1>1, <1>2 DEF Framed
  <2>2. n > 0 => front[1].len = 0
    BY <1>1, <1>2 DEF Framed
  <2>3. \A j, k \in 1 .. n : j <= k => front[j].len <= front[k].len
    BY <1>1, <1>2 DEF Framed
  <2>4. ASSUME NEW j \in 1 .. n - 1
        PROVE  Span(L, front[j].len, front[j + 1].len, front[j].base, front[j + 1].base)
    <3>1. /\ j \in 1 .. n /\ j + 1 \in 1 .. n /\ j \in 1 .. Len(fs) - 1
      BY <1>1
    <3>2. Span(L, fs[j].len, fs[j + 1].len, fs[j].base, fs[j + 1].base)
      BY <3>1 DEF Framed
    <3> QED
      BY <1>2, <3>1, <3>2
  <2> QED
    BY <1>2, <2>1, <2>2, <2>3, <2>4 DEF Framed
<1> QED
  BY <1>2, <1>3 DEF front, n

LEMMA JournalNextArm == ASSUME JournalInv, NextArm PROVE JournalInv'
<1> DEFINE n == Len(frames)
           g == [Top EXCEPT !.arm = "else", !.changed = delta.changed,
                            !.armFlags = delta.flags, !.armFailed = delta.failed,
                            !.then = delta.final]
           fs == [frames EXCEPT ![n] = g]
           W == EnterArm(Unmarked, Top.test, "else")
           M == undo \o W.log
<1>1. /\ Rolling /\ Len(undo) = Top.len /\ frames' = fs
      /\ scope' = W.at /\ undo' = M /\ delta' = NoDelta /\ steps' = steps
  BY DEF NextArm, Commit, Top
<1>2. frames # <<>>
  BY <1>1 DEF JournalInv
<1>3. /\ n \in Nat /\ n >= 1 /\ FrameOK(Top, undo, scope) /\ IsLog(undo)
      /\ Len(undo) \in Nat
  BY <1>2, TopFacts
<1>4. /\ Unmarked = Top.base /\ Unmarked \in Scope
      /\ Chain(undo, Unmarked) /\ Framed(frames, undo, Unmarked)
  BY <1>1, <1>2, UnmarkedIsBase
<1>5. Top.test \in Tests
  BY <1>3, WalkAssumption DEF FrameOK
<1>6. Tracks(Unmarked, W)
  BY <1>4, <1>5, TracksEnterArm
<1>7. /\ FrameShaped(g) /\ g.arm = "else" /\ g.changed = delta.changed
      /\ g.armFlags = delta.flags /\ g.armFailed = delta.failed
      /\ g.then = delta.final /\ g.test = Top.test /\ g.len = Top.len
      /\ g.flags = Top.flags /\ g.failed = Top.failed /\ g.base = Top.base
  BY <1>3 DEF FrameOK, FrameShaped
<1> HIDE DEF g, W
<1>8. FrameOK(g, undo, Unmarked)
  <2>1. FrameOK(Top, undo, Unmarked)
    BY <1>3, <1>4 DEF Framed, Top
  <2>2. /\ delta.final \in Scope
        /\ Matches(delta.changed, delta.flags, delta.failed, Top.base, delta.final)
    BY <1>1 DEF JournalInv
  <2> QED
    BY <1>7, <2>1, <2>2 DEF FrameOK
<1>9. Framed(fs, undo, Unmarked) /\ Len(fs) = n /\ fs[n] = g
  BY <1>3, <1>4, <1>7, <1>8, FramedReplace DEF Top
<1> HIDE DEF fs
<1>10. /\ W.at \in Scope /\ Chain(M, W.at) /\ Framed(fs, M, W.at)
       /\ Len(M) = Len(undo) + Len(W.log)
  BY <1>4, <1>6, <1>9, Committed, FramesCommitted
<1>11. Span(M, Top.len, Len(M), Top.base, W.at)
  <2>1. Span(undo, Len(undo), Len(undo), Unmarked, Unmarked)
    BY <1>3 DEF Span, SpanName
  <2>2. Span(W.log, 0, Len(W.log), Unmarked, W.at) /\ IsLog(W.log)
    BY <1>6 DEF Tracks, Chain
  <2>3. Span(M, Len(undo), Len(undo) + Len(W.log), Unmarked, W.at)
    BY <1>3, <2>1, <2>2, SpanConcat
  <2> QED
    BY <1>1, <1>4, <1>10, <2>3
<1> HIDE DEF M
<1>12. /\ ~ Rolling' /\ Top' = g /\ frames' # <<>> /\ Len(frames') <= MaxDepth
  <2>1. IsLog(fs)
    BY <1>9 DEF Framed
  <2> QED
    BY <1>1, <1>3, <1>9, <2>1, LogFacts DEF Rolling, NoDelta, Top, JournalInv
<1>13. steps' \in [writes : 0 .. MaxWrites, ifs : 0 .. MaxIfs]
  BY <1>1 DEF JournalInv
<1> QED
  BY <1>1, <1>7, <1>10, <1>11, <1>12, <1>13 DEF JournalInv

LEMMA ArmsTyped ==
  ASSUME NEW changed, NEW flags, NEW failed, NEW base, NEW final \in Scope,
         Matches(changed, flags, failed, base, final), scope \in Scope
  PROVE  ArmTyped(Arm(changed, flags, failed))
<1>1. Over(changed, scope.bind) \in [Slots -> Binding]
  <2>1. scope.bind \in [Slots -> Binding]
    BY DEF Scope
  <2>2. DOMAIN changed \subseteq Slots /\ \A n \in DOMAIN changed : changed[n] \in Binding
    BY DEF Matches
  <2> QED
    BY <2>1, <2>2, OverTyped
<1> QED
  BY <1>1 DEF Arm, ArmTyped, Matches, Scope

LEMMA JournalJoinArms == ASSUME JournalInv, JoinArms PROVE JournalInv'
<1> DEFINE n == Len(frames)
           fs == SubSeq(frames, 1, n - 1)
           thenArm == Arm(Top.changed, Top.armFlags, Top.armFailed)
           elseArm == Arm(delta.changed, delta.flags, delta.failed)
           W == Join(Here(Unmarked), Top.test, thenArm, elseArm)
           M == undo \o W.log
<1>1. /\ Rolling /\ Len(undo) = Top.len /\ Top.arm = "else" /\ frames' = fs
      /\ scope' = W.at /\ undo' = (IF n > 1 THEN M ELSE undo)
      /\ delta' = NoDelta /\ steps' = steps
  BY DEF JoinArms, Commit
<1>2. frames # <<>> /\ scope \in Scope
  BY <1>1 DEF JournalInv
<1>3. /\ n \in Nat /\ n >= 1 /\ FrameOK(Top, undo, scope) /\ IsLog(undo)
      /\ Len(undo) \in Nat /\ Top.len \in Nat
  BY <1>2, TopFacts
<1>4. /\ Unmarked = Top.base /\ Unmarked \in Scope
      /\ Chain(undo, Unmarked) /\ Framed(frames, undo, Unmarked)
  BY <1>1, <1>2, UnmarkedIsBase
<1>5. ArmTyped(thenArm)
  BY <1>1, <1>2, <1>3, ArmsTyped DEF FrameOK
<1>6. ArmTyped(elseArm)
  BY <1>1, <1>2, ArmsTyped DEF JournalInv
<1>7. Top.test \in Tests
  BY <1>3, WalkAssumption DEF FrameOK
<1> HIDE DEF thenArm, elseArm
<1>8. Tracks(Unmarked, W)
  BY <1>4, <1>5, <1>6, <1>7, TracksJoin
<1> HIDE DEF W
<1>9. /\ Framed(fs, undo, Unmarked) /\ Len(fs) = n - 1
      /\ \A j \in 1 .. n - 1 : fs[j] = frames[j]
  BY <1>3, <1>4, FramedPrefix
<1> HIDE DEF fs
<1>10. /\ W.at \in Scope /\ Chain(M, W.at) /\ Framed(fs, M, W.at)
       /\ Len(M) = Len(undo) + Len(W.log)
  BY <1>4, <1>8, <1>9, Committed, FramesCommitted
<1>11. ~ Rolling' /\ Len(fs) <= MaxDepth /\ IsLog(fs)
  <2>1. n <= MaxDepth /\ MaxDepth \in Nat
    BY WalkAssumption DEF JournalInv
  <2> QED
    BY <1>1, <1>3, <1>9, <2>1 DEF Rolling, NoDelta, Framed
<1>12. steps' \in [writes : 0 .. MaxWrites, ifs : 0 .. MaxIfs]
  BY <1>1 DEF JournalInv
<1>13. CASE n = 1
  <2>1. Len(undo) = 0
    BY <1>1, <1>3, <1>4, <1>13 DEF Framed, Top
  <2>2. undo' = <<>> /\ frames' = <<>>
    BY <1>1, <1>3, <1>9, <1>11, <1>13, <2>1, LogFacts
  <2>3. Chain(undo', scope') /\ Framed(frames', undo', scope') /\ Len(frames') = 0
    BY <2>2, EmptyLog DEF Chain, Framed
  <2> QED
    BY <1>1, <1>10, <1>11, <1>12, <2>2, <2>3, WalkAssumption DEF JournalInv
<1>14. CASE n > 1
  <2>1. n - 1 \in 1 .. n - 1 /\ (n - 1) + 1 = n /\ n - 1 \in 1 .. n /\ n \in 1 .. n
    BY <1>3, <1>14
  <2>2. Span(undo, frames[n - 1].len, Top.len, frames[n - 1].base, Top.base)
    BY <1>4, <2>1 DEF Framed, Top
  <2>3. frames[n - 1].len \in Nat /\ frames[n - 1].len <= Len(undo)
    BY <1>3, <1>4, <2>1 DEF Framed, FrameOK
  <2>4. Span(W.log, 0, Len(W.log), Unmarked, W.at) /\ IsLog(W.log)
    BY <1>8 DEF Tracks, Chain
  <2>5. Span(undo, frames[n - 1].len, Len(undo), frames[n - 1].base, Unmarked)
    BY <1>1, <1>4, <2>2
  <2>6. Span(M, frames[n - 1].len, Len(undo) + Len(W.log), frames[n - 1].base, W.at)
    BY <1>3, <2>3, <2>4, <2>5, SpanConcat
  <2>7. /\ undo' = M /\ frames' = fs /\ Top' = frames[n - 1] /\ frames' # <<>>
    BY <1>1, <1>3, <1>9, <1>11, <1>14, <2>1, LogFacts DEF Top
  <2> HIDE DEF M
  <2> QED
    BY <1>1, <1>10, <1>11, <1>12, <2>6, <2>7 DEF JournalInv
<1> HIDE DEF n
<1>15. n = 1 \/ n > 1
  <2>1. n \in Nat /\ n >= 1
    BY <1>3
  <2> QED
    BY <2>1
<1> QED
  BY <1>13, <1>14, <1>15

LEMMA JournalStep == ASSUME JournalInv, [JournalNext]_journalVars PROVE JournalInv'
<1>1. CASE UNCHANGED journalVars
  BY <1>1 DEF journalVars, JournalInv, Top, Rolling
<1> QED
  BY <1>1, JournalWrite, JournalEnterIf, JournalFinishArm, JournalPopRecord,
     JournalNextArm, JournalJoinArms DEF JournalNext

LEMMA JournalAlways == JournalSpec => []JournalInv
  BY JournalStart, JournalStep, PTL DEF JournalSpec

LEMMA JournalInvRestores == ASSUME JournalInv PROVE JournalRestores
<1>1. /\ scope \in Scope /\ Chain(undo, scope) /\ Framed(frames, undo, scope)
      /\ IsLog(undo) /\ Len(undo) \in Nat /\ DOMAIN undo = 1 .. Len(undo)
      /\ IsLog(frames) /\ DOMAIN frames = 1 .. Len(frames)
  BY LogFacts DEF JournalInv, Chain, Framed
<1>2. JournalTypeOK
  <2>1. \A i \in DOMAIN undo : undo[i].before \in Scope
    BY <1>1 DEF Chain, StepOK
  <2>2. \A j \in DOMAIN frames : FrameOK(frames[j], undo, scope)
    BY <1>1 DEF Framed
  <2> QED
    BY <1>1, <2>1, <2>2 DEF JournalTypeOK, JournalInv, FrameOK
<1>3. \A i : Before(i) = Pre(undo, scope, i)
  BY DEF Before, Pre
<1>4. EveryRecordUndoes
  BY <1>1, <1>3 DEF EveryRecordUndoes, Chain, StepOK
<1>5. SnapshotsRestore
  BY <1>1, <1>3 DEF SnapshotsRestore, Framed, FrameOK, JournalInv
<1>6. AssignmentsUndoCleanly
  <2> SUFFICES ASSUME Rolling, Len(undo) > Top.len,
                      undo[Len(undo)].kind = "Assignment",
                      NEW n \in DOMAIN undo[Len(undo)].saved
               PROVE  /\ scope.bind[n].marks = {} /\ scope.bind[n].alias = None
                      /\ scope.bind[n].provenance = None
    BY DEF AssignmentsUndoCleanly
  <2>1. Len(undo) \in 1 .. Len(undo)
    <3>1. frames # <<>>
      BY DEF JournalInv
    <3> QED
      BY <3>1, <1>1, TopFacts
  <2>2. StepOK(undo[Len(undo)], scope)
    BY <1>1, <2>1 DEF Chain, Pre
  <2>3. scope.bind[n] = Plain(scope.bind[n].type)
    BY <2>2 DEF StepOK
  <2> QED
    BY <2>3 DEF Plain
<1> QED
  BY <1>2, <1>4, <1>5, <1>6 DEF JournalRestores

(* Undoing the records of an arm takes every table back, record by record  *)
(* and snapshot by snapshot, and no undo of an assignment meets a fact     *)
(* that the assignment had removed (finish_snapshot, restore).             *)
THEOREM TablesAreRestored == JournalSpec => []JournalRestores
  BY JournalAlways, JournalInvRestores, PTL

(* The delta that an arm leaves is the arm's last scope, over the scope    *)
(* before the `if` (BranchDelta::binding).                                 *)
THEOREM DeltaIsExact == JournalSpec => []DeltaExact
<1>1. JournalInv => DeltaExact
  BY DEF JournalInv, Matches, DeltaExact, Facts
<1> QED
  BY <1>1, JournalAlways, PTL

-----------------------------------------------------------------------------
(* Cloned branches                                                         *)

\* What the join reads of an arm
SameArm(a, b) ==
    /\ a.flags = b.flags /\ a.failed = b.failed
    /\ \A n \in Slots : /\ a.bind[n].type = b.bind[n].type
                        /\ a.bind[n].marks = b.bind[n].marks
                        /\ a.bind[n].definition = b.bind[n].definition
                        /\ a.bind[n].box = b.bind[n].box

LEMMA SameReaches ==
  ASSUME NEW t, NEW w, NEW base, NEW a, NEW b, SameArm(a, b)
  PROVE  /\ Reaches(t, w, a) = Reaches(t, w, b)
         /\ Diverges(t, w, base, a) = Diverges(t, w, base, b)
         /\ Continuing(t, w, base, a) = Continuing(t, w, base, b)
  BY DEF SameArm, Reaches, Diverges, Continuing

LEMMA SameMarked ==
  ASSUME NEW m, NEW a, NEW b, SameArm(a, b)
  PROVE  Marked(a, m) = Marked(b, m)
  BY DEF SameArm, Marked

LEMMA SameForget ==
  ASSUME NEW W, NEW t, NEW a1, NEW a2, NEW b1, NEW b2, SameArm(a1, a2), SameArm(b1, b2)
  PROVE  ForgetDefinitions(W, t, a1, b1) = ForgetDefinitions(W, t, a2, b2)
<1> DEFINE lost(a, b) ==
       {n \in Slots : /\ W.at.bind[n].definition # None
                      /\ \/ /\ Reaches(t, "then", a)
                            /\ a.bind[n].definition # W.at.bind[n].definition
                         \/ /\ Reaches(t, "else", b)
                            /\ b.bind[n].definition # W.at.bind[n].definition}
<1>1. lost(a1, b1) = lost(a2, b2)
  BY SameReaches DEF SameArm
<1>2. \A a, b : ForgetDefinitions(W, t, a, b) = SetDefinition(W, [n \in lost(a, b) |-> None])
  BY DEF ForgetDefinitions
<1> HIDE DEF lost
<1> QED
  BY <1>1, <1>2

LEMMA SameLose ==
  ASSUME NEW W, NEW t, NEW a1, NEW a2, NEW b1, NEW b2, SameArm(a1, a2), SameArm(b1, b2)
  PROVE  LoseAssertions(W, t, a1, b1) = LoseAssertions(W, t, a2, b2)
  BY SameReaches, SameMarked DEF LoseAssertions

LEMMA SameFailed ==
  ASSUME NEW base, NEW t, NEW a1, NEW a2, NEW b1, NEW b2, SameArm(a1, a2), SameArm(b1, b2)
  PROVE  FailedAfter(base, t, a1, b1) = FailedAfter(base, t, a2, b2)
  BY SameReaches DEF FailedAfter, SameArm

LEMMA SameVectors ==
  ASSUME NEW W, NEW t, NEW base, NEW a1, NEW a2, NEW b1, NEW b2, SameArm(a1, a2), SameArm(b1, b2)
  PROVE  JoinLoopVectors(W, t, base, a1, b1) = JoinLoopVectors(W, t, base, a2, b2)
  BY SameReaches, SameMarked DEF JoinLoopVectors

LEMMA SameRebinds ==
  ASSUME NEW t, NEW base, NEW a, NEW b, SameArm(a, b), NEW n \in Slots
  PROVE  Rebinds(t, base, a, n) = Rebinds(t, base, b, n) /\ ListOrigin(a, n) = ListOrigin(b, n)
  BY DEF SameArm, Rebinds, ListOrigin

LEMMA SameMerging ==
  ASSUME NEW t, NEW base, NEW a1, NEW a2, NEW b1, NEW b2, SameArm(a1, a2), SameArm(b1, b2)
  PROVE  MergingArms(t, base, a1, b1) = MergingArms(t, base, a2, b2)
<1>1. \A w \in {"then", "else"} :
        Reaches(t, w, IF w = "then" THEN a1 ELSE b1)
          = Reaches(t, w, IF w = "then" THEN a2 ELSE b2)
  BY SameReaches
<1>2. {w \in {"then", "else"} : Reaches(t, w, IF w = "then" THEN a1 ELSE b1)}
        = {w \in {"then", "else"} : Reaches(t, w, IF w = "then" THEN a2 ELSE b2)}
  BY <1>1
<1> QED
  BY <1>2 DEF MergingArms

LEMMA SameMergedType ==
  ASSUME NEW t, NEW base, NEW a1, NEW a2, NEW b1, NEW b2, SameArm(a1, a2), SameArm(b1, b2),
         NEW n \in Slots
  PROVE  MergedType(t, base, a1, b1, n) = MergedType(t, base, a2, b2, n)
<1>1. /\ Rebinds(t, base, a1, n) = Rebinds(t, base, a2, n)
      /\ Rebinds(t, base, b1, n) = Rebinds(t, base, b2, n)
  BY SameRebinds
<1>2. a1.bind[n].type = a2.bind[n].type /\ b1.bind[n].type = b2.bind[n].type
  BY DEF SameArm
<1> QED
  BY <1>1, <1>2 DEF MergedType

LEMMA SameMerge ==
  ASSUME NEW W, NEW t, NEW base, NEW a1, NEW a2, NEW b1, NEW b2,
         SameArm(a1, a2), SameArm(b1, b2)
  PROVE  MergeBindings(W, t, base, a1, b1) = MergeBindings(W, t, base, a2, b2)
<1> DEFINE arms(a, b) == MergingArms(t, base, a, b)
           sole(a, b) == IF arms(a, b) = {"then"} THEN a ELSE b
           names(a, b) ==
             IF arms(a, b) = {} THEN {}
             ELSE IF Cardinality(arms(a, b)) = 1
             THEN {n \in Slots : Rebinds(t, base, sole(a, b), n)}
             ELSE {n \in Slots : \/ Rebinds(t, base, a, n)
                                 \/ t.else /\ Rebinds(t, base, b, n)}
           type(a, b, n) == IF Cardinality(arms(a, b)) = 1 THEN sole(a, b).bind[n].type
                            ELSE MergedType(t, base, a, b, n)
           listed(a, b, n) ==
             IF Cardinality(arms(a, b)) = 1 THEN "list" \in sole(a, b).bind[n].marks
             ELSE ListOrigin(a, n) /\ ListOrigin(b, n)
           lost(a, b) == \/ "then" \in arms(a, b) /\ "mask_env" \in a.flags
                         \/ "else" \in arms(a, b) /\ "mask_env" \in b.flags
<1>1. arms(a1, b1) = arms(a2, b2)
  BY SameMerging
<1>2. SameArm(sole(a1, b1), sole(a2, b2))
  BY <1>1
<1>3. lost(a1, b1) = lost(a2, b2)
  BY <1>1 DEF SameArm
<1>4. \A n \in Slots : listed(a1, b1, n) = listed(a2, b2, n)
  BY <1>1, <1>2, SameRebinds DEF SameArm
<1>5. \A n \in Slots : type(a1, b1, n) = type(a2, b2, n)
  BY <1>1, <1>2, SameMergedType DEF SameArm
<1>6. names(a1, b1) = names(a2, b2)
  BY <1>1, <1>2, SameRebinds
<1>7. names(a1, b1) \subseteq Slots
  OBVIOUS
<1>8. \A a, b : MergeBindings(W, t, base, a, b)
         = Flagged(Mark(Insert(W, [n \in names(a, b) |-> type(a, b, n)]),
                        {n \in names(a, b) : listed(a, b, n)}, "list"),
                   IF lost(a, b) THEN {"mask_env"} ELSE {})
  BY DEF MergeBindings
<1> HIDE DEF arms, sole, names, type, listed, lost
<1>9. [n \in names(a1, b1) |-> type(a1, b1, n)] = [n \in names(a2, b2) |-> type(a2, b2, n)]
  BY <1>5, <1>6, <1>7
<1>10. {n \in names(a1, b1) : listed(a1, b1, n)} = {n \in names(a2, b2) : listed(a2, b2, n)}
  BY <1>4, <1>6, <1>7
<1> QED
  BY <1>3, <1>8, <1>9, <1>10

LEMMA SameNarrowing ==
  ASSUME NEW W, NEW t, NEW base, NEW a1, NEW a2, NEW b1, NEW b2,
         SameArm(a1, a2), SameArm(b1, b2), t \in Tests
  PROVE  ContinueNarrowing(W, t, base, a1, b1) = ContinueNarrowing(W, t, base, a2, b2)
<1> DEFINE gone(a) == Diverges(t, "then", base, a)
           dies(b) == Diverges(t, "else", base, b)
           takesElse(a, b) == gone(a) /\ (~ t.else \/ ~ dies(b))
           takesThen(a, b) == ~ gone(a) /\ t.else /\ dies(b)
           only(a, b) == IF takesElse(a, b) THEN {b} ELSE IF takesThen(a, b) THEN {a} ELSE {}
           arm(a, b) == CHOOSE x \in only(a, b) : TRUE
           facts(a, b) == {n \in NarrowedNames(t, base) :
                               \E x \in only(a, b) : x.bind[n].type # None}
           default(a, b) == {n \in facts(a, b) : "default" \in arm(a, b).bind[n].marks}
<1>1. takesElse(a1, b1) = takesElse(a2, b2) /\ takesThen(a1, b1) = takesThen(a2, b2)
  BY SameReaches
<1>2. /\ facts(a1, b1) = facts(a2, b2)
      /\ facts(a1, b1) \subseteq Slots
      /\ \A n \in facts(a1, b1) :
            /\ arm(a1, b1).bind[n].type = arm(a2, b2).bind[n].type
            /\ arm(a1, b1).bind[n].marks = arm(a2, b2).bind[n].marks
  <2>1. NarrowedNames(t, base) \subseteq Slots
    BY NarrowedNamesTyped
  <2>2. \A x : (CHOOSE y \in {x} : TRUE) = x
    OBVIOUS
  <2> HIDE DEF takesElse, takesThen
  <2>3. CASE takesElse(a1, b1)
    <3>1. /\ only(a1, b1) = {b1} /\ only(a2, b2) = {b2}
          /\ arm(a1, b1) = b1 /\ arm(a2, b2) = b2
      BY <1>1, <2>2, <2>3
    <3> QED
      BY <2>1, <3>1 DEF SameArm
  <2>4. CASE ~ takesElse(a1, b1) /\ takesThen(a1, b1)
    <3>1. /\ only(a1, b1) = {a1} /\ only(a2, b2) = {a2}
          /\ arm(a1, b1) = a1 /\ arm(a2, b2) = a2
      BY <1>1, <2>2, <2>4
    <3> QED
      BY <2>1, <3>1 DEF SameArm
  <2>5. CASE ~ takesElse(a1, b1) /\ ~ takesThen(a1, b1)
    <3>1. only(a1, b1) = {} /\ only(a2, b2) = {}
      BY <1>1, <2>5
    <3> QED
      BY <3>1
  <2> QED
    BY <2>3, <2>4, <2>5
<1>3. default(a1, b1) = default(a2, b2)
  <2> HIDE DEF arm, facts
  <2> QED
    BY <1>2
<1>4. \A a, b : ContinueNarrowing(W, t, base, a, b)
         = Insert(InsertDefaults(W, [n \in default(a, b) |-> arm(a, b).bind[n].type]),
                  [n \in facts(a, b) \ default(a, b) |-> arm(a, b).bind[n].type])
  BY DEF ContinueNarrowing
<1>5. default(a1, b1) \subseteq facts(a1, b1)
  OBVIOUS
<1> HIDE DEF arm, facts, default
<1>6. [n \in default(a1, b1) |-> arm(a1, b1).bind[n].type]
        = [n \in default(a2, b2) |-> arm(a2, b2).bind[n].type]
  BY <1>2, <1>3, <1>5
<1>7. [n \in facts(a1, b1) \ default(a1, b1) |-> arm(a1, b1).bind[n].type]
        = [n \in facts(a2, b2) \ default(a2, b2) |-> arm(a2, b2).bind[n].type]
  BY <1>2, <1>3
<1>8. /\ ContinueNarrowing(W, t, base, a1, b1)
           = Insert(InsertDefaults(W, [n \in default(a1, b1) |-> arm(a1, b1).bind[n].type]),
                    [n \in facts(a1, b1) \ default(a1, b1) |-> arm(a1, b1).bind[n].type])
      /\ ContinueNarrowing(W, t, base, a2, b2)
           = Insert(InsertDefaults(W, [n \in default(a2, b2) |-> arm(a2, b2).bind[n].type]),
                    [n \in facts(a2, b2) \ default(a2, b2) |-> arm(a2, b2).bind[n].type])
  BY <1>4
<1> QED
  BY <1>6, <1>7, <1>8, Zenon

LEMMA SameBoxes ==
  ASSUME NEW t, NEW base, NEW a1, NEW a2, NEW b1, NEW b2, SameArm(a1, a2), SameArm(b1, b2)
  PROVE  JoinedBoxes(t, base, a1, b1) = JoinedBoxes(t, base, a2, b2)
<1> DEFINE paths(a, b) == (IF Reaches(t, "then", a) THEN {a} ELSE {}) \cup
                          (IF ~ t.else THEN {base}
                           ELSE IF Reaches(t, "else", b) THEN {b} ELSE {})
           boxes(a, b, n) == {x.bind[n].box : x \in paths(a, b)}
           names(a, b) == {n \in Slots : /\ paths(a, b) # {}
                                         /\ boxes(a, b, n) \cup {base.bind[n].box} # {None}}
           box(set) == IF Cardinality(set) = 1 THEN CHOOSE x \in set : TRUE ELSE "opaque"
<1>1. /\ Reaches(t, "then", a1) = Reaches(t, "then", a2)
      /\ Reaches(t, "else", b1) = Reaches(t, "else", b2)
  BY SameReaches
<1>2. \A n \in Slots : boxes(a1, b1, n) = boxes(a2, b2, n)
  <2> TAKE n \in Slots
  <2>1. a1.bind[n].box = a2.bind[n].box /\ b1.bind[n].box = b2.bind[n].box
    BY DEF SameArm
  <2> QED
    BY <1>1, <2>1
<1>3. (paths(a1, b1) = {}) = (paths(a2, b2) = {})
  BY <1>1
<1>4. \A a, b : JoinedBoxes(t, base, a, b) = [n \in names(a, b) |-> box(boxes(a, b, n))]
  BY DEF JoinedBoxes
<1> HIDE DEF boxes, paths
<1>5. names(a1, b1) = names(a2, b2) /\ names(a1, b1) \subseteq Slots
  BY <1>2, <1>3
<1> HIDE DEF names, box
<1>6. \A n \in names(a1, b1) : box(boxes(a1, b1, n)) = box(boxes(a2, b2, n))
  BY <1>2, <1>5
<1> QED
  BY <1>4, <1>5, <1>6

LEMMA RefinedSame ==
  ASSUME NEW old, NEW a1, NEW a2, NEW b1, NEW b2, NEW exits, NEW open,
         a1.type = a2.type, a1.marks = a2.marks, b1.type = b2.type, b1.marks = b2.marks
  PROVE  Refined(old, a1, b1, exits, open) = Refined(old, a2, b2, exits, open)
<1> DEFINE default(a, b) == \E x \in {old, a, b} : "default" \in x.marks
           left(a, b) == IF exits = {"then"} THEN b ELSE a
<1>1. default(a1, b1) = default(a2, b2)
  OBVIOUS
<1>2. /\ left(a1, b1).type = left(a2, b2).type
      /\ left(a1, b1).marks = left(a2, b2).marks
  OBVIOUS
<1>3. \A x, y : (x.type = y.type /\ x.marks = y.marks) =>
         /\ ProvedWrong(x) = ProvedWrong(y)
         /\ ProvedLong(x, old.type) = ProvedLong(y, old.type)
         /\ IsRemainder(x, old.type) = IsRemainder(y, old.type)
         /\ IsRebound(x, old.type) = IsRebound(y, old.type)
  BY DEF ProvedWrong, ProvedLong, IsRemainder, IsRebound
<1> DEFINE new(a, b) ==
             IF IsRebound(a, old.type) /\ IsRemainder(b, old.type) THEN a.type
             ELSE IF IsRebound(b, old.type) /\ IsRemainder(a, old.type) THEN b.type
             ELSE None
<1>4. new(a1, b1) = new(a2, b2)
  BY <1>3
<1>5. \A a, b : Refined(old, a, b, exits, open) =
        CASE Cardinality(exits) = 1 /\ ProvedWrong(left(a, b)) -> "unknown"
          [] /\ Cardinality(exits) = 1
             /\ ProvedLong(left(a, b), old.type)
             /\ ~ default(a, b) -> "long"
          [] \/ Remainder(old.type) = None
             \/ old.type = "nullable" /\ default(a, b) -> None
          [] /\ Cardinality(exits) = 1
             /\ \/ IsRemainder(left(a, b), old.type)
                \/ IsRebound(left(a, b), old.type) -> left(a, b).type
          [] exits = {} /\ open /\ new(a, b) # None ->
                IF old.type = "nullable" THEN Lub(new(a, b), Remainder(old.type))
                ELSE IF default(a, b) THEN "unknown" ELSE new(a, b)
          [] OTHER -> None
  BY DEF Refined
<1>6. /\ ProvedWrong(left(a1, b1)) = ProvedWrong(left(a2, b2))
      /\ ProvedLong(left(a1, b1), old.type) = ProvedLong(left(a2, b2), old.type)
      /\ IsRemainder(left(a1, b1), old.type) = IsRemainder(left(a2, b2), old.type)
      /\ IsRebound(left(a1, b1), old.type) = IsRebound(left(a2, b2), old.type)
  BY <1>2, <1>3
<1> HIDE DEF default, left, new
<1> QED
  BY <1>1, <1>2, <1>4, <1>5, <1>6

LEMMA SameRefinements ==
  ASSUME NEW t, NEW base, NEW exits, NEW a1, NEW a2, NEW b1, NEW b2,
         SameArm(a1, a2), SameArm(b1, b2)
  PROVE  Refinements(t, base, a1, b1, exits) = Refinements(t, base, a2, b2, exits)
<1> DEFINE open(a, b) == Reaches(t, "then", a) /\ (t.else => Reaches(t, "else", b))
           type(a, b, n) == Refined(base.bind[n], a.bind[n], b.bind[n], exits, open(a, b))
           names(a, b) == {m \in NarrowedNames(t, base) :
                             base.bind[m].type # None /\ type(a, b, m) # None}
<1>1. open(a1, b1) = open(a2, b2)
  BY SameReaches
<1>2. \A n \in Slots : type(a1, b1, n) = type(a2, b2, n)
  <2> HIDE DEF open
  <2> QED
    BY <1>1, RefinedSame DEF SameArm
<1>3. \A a, b : Refinements(t, base, a, b, exits) = [n \in names(a, b) |-> type(a, b, n)]
  BY DEF Refinements
<1> HIDE DEF type
<1>4. names(a1, b1) = names(a2, b2) /\ names(a1, b1) \subseteq Slots
  BY <1>2, NarrowedNamesTyped
<1> HIDE DEF names
<1> QED
  BY <1>2, <1>3, <1>4

\* What returns, where no name is `return`
LEMMA SameExits ==
  ASSUME NEW t, NEW base, NEW s1, NEW s2, NEW plain, NEW a1, NEW a2, NEW b1, NEW b2,
         SameArm(a1, a2), SameArm(b1, b2), ReturnNames = {}
  PROVE  Exits(t, base, s1, a1, b1, plain) = Exits(t, base, s2, a2, b2, plain)
<1>1. MayRefine(t, base, a1, b1) = MayRefine(t, base, a2, b2)
  <2>1. NarrowedNames(t, base) \subseteq Slots
    BY NarrowedNamesTyped
  <2>2. ASSUME NEW n \in Slots
        PROVE  (\E b \in {a1.bind[n], b1.bind[n]} :
                   ProvedWrong(b) \/ ProvedLong(b, base.bind[n].type))
             = (\E b \in {a2.bind[n], b2.bind[n]} :
                   ProvedWrong(b) \/ ProvedLong(b, base.bind[n].type))
    BY DEF SameArm, ProvedWrong, ProvedLong
  <2> QED
    BY <2>1, <2>2 DEF MayRefine
<1>2. ASSUME NEW w
      PROVE  Diverges(t, w, base, IF w = "then" THEN a1 ELSE b1)
               = Diverges(t, w, base, IF w = "then" THEN a2 ELSE b2)
  BY SameReaches
<1> QED
  BY <1>1, <1>2 DEF Exits

\* The join of two arms depends on no more than that.
LEMMA SameJoined ==
  ASSUME NEW W, NEW t \in Tests, NEW a1, NEW a2, NEW b1, NEW b2,
         SameArm(a1, a2), SameArm(b1, b2), NEW refined
  PROVE  Joined(W, t, a1, b1, refined) = Joined(W, t, a2, b2, refined)
<1>1. /\ \A V : ForgetDefinitions(V, t, a1, b1) = ForgetDefinitions(V, t, a2, b2)
      /\ \A V : LoseAssertions(V, t, a1, b1) = LoseAssertions(V, t, a2, b2)
      /\ FailedAfter(W.at, t, a1, b1) = FailedAfter(W.at, t, a2, b2)
      /\ Continuing(t, "then", W.at, a1) = Continuing(t, "then", W.at, a2)
      /\ Continuing(t, "else", W.at, b1) = Continuing(t, "else", W.at, b2)
  BY SameForget, SameLose, SameFailed, SameReaches
<1>2. /\ \A V : MergeBindings(V, t, W.at, a1, b1) = MergeBindings(V, t, W.at, a2, b2)
      /\ \A V : ContinueNarrowing(V, t, W.at, a1, b1) = ContinueNarrowing(V, t, W.at, a2, b2)
      /\ \A V : JoinLoopVectors(V, t, W.at, a1, b1) = JoinLoopVectors(V, t, W.at, a2, b2)
      /\ JoinedBoxes(t, W.at, a1, b1) = JoinedBoxes(t, W.at, a2, b2)
  BY SameMerge, SameNarrowing, SameVectors, SameBoxes
<1>3. Unreached(t, a1, b1) = Unreached(t, a2, b2)
  BY DEF SameArm, Unreached
<1> DEFINE A(a, b) == LoseAssertions(ForgetDefinitions(W, t, a, b), t, a, b)
           B(a, b) == ClearGuards(ClearStrings(ClearOpsFacts(A(a, b))))
           C(a, b) == Flagged([B(a, b) EXCEPT !.at.failed = FailedAfter(W.at, t, a, b)],
                              Continuing(t, "then", W.at, a) \cup
                              Continuing(t, "else", W.at, b))
           D(a, b) == MergeBindings(C(a, b), t, W.at, a, b)
           E(a, b) == InsertNarrowed(ContinueNarrowing(D(a, b), t, W.at, a, b), refined)
           F(a, b) == JoinLoopVectors(E(a, b), t, W.at, a, b)
           G(a, b) == ApplyBoxes(F(a, b), JoinedBoxes(t, W.at, a, b))
<1>4. A(a1, b1) = A(a2, b2)
  BY <1>1
<1>5. C(a1, b1) = C(a2, b2)
  <2> HIDE DEF A
  <2> QED
    BY <1>1, <1>4
<1>6. F(a1, b1) = F(a2, b2)
  <2> HIDE DEF C
  <2> QED
    BY <1>2, <1>5
<1>7. G(a1, b1) = G(a2, b2)
  <2> HIDE DEF F
  <2> QED
    BY <1>2, <1>6
<1>8. \A a, b : Joined(W, t, a, b, refined) = Flagged(G(a, b), Unreached(t, a, b))
  BY DEF Joined
<1> HIDE DEF G
<1> QED
  BY <1>3, <1>7, <1>8

LEMMA SameJoin ==
  ASSUME NEW W, NEW t \in Tests, NEW a1, NEW a2, NEW b1, NEW b2,
         SameArm(a1, a2), SameArm(b1, b2), ReturnNames = {}
  PROVE  Join(W, t, a1, b1) = Join(W, t, a2, b2)
<1> DEFINE both == {"then", "else"}
           refined(a, b) == Refinements(t, W.at, a, b, Exits(t, W.at, W.at, a, b, both))
<1>1. \A a, b : Join(W, t, a, b) = Joined(W, t, a, b, refined(a, b))
  BY DEF Join
<1>2. refined(a1, b1) = refined(a2, b2)
  BY SameExits, SameRefinements
<1> HIDE DEF refined
<1> QED
  BY <1>1, <1>2, SameJoined

LEMMA MatchesSame ==
  ASSUME NEW s \in Scope, NEW base \in Scope, NEW final \in Scope, s.bind = base.bind,
         NEW changed, NEW flags, NEW failed, Matches(changed, flags, failed, base, final)
  PROVE  SameArm([bind |-> Over(changed, s.bind), names |-> DOMAIN changed,
                  flags |-> flags, failed |-> failed], final)
<1> DEFINE seen == Over(changed, s.bind)
<1>1. /\ base.bind \in [Slots -> Binding] /\ final.bind \in [Slots -> Binding]
      /\ DOMAIN changed \subseteq Slots /\ \A n \in DOMAIN changed : changed[n] \in Binding
  BY DEF Matches, Scope
<1>2. seen \in [Slots -> Binding]
  BY <1>1, OverTyped
<1>3. \A n \in Slots : Facts(seen[n]) = Facts(final.bind[n])
  BY DEF Matches
<1> HIDE DEF seen
<1>4. ASSUME NEW n \in Slots
      PROVE  /\ seen[n].type = final.bind[n].type /\ seen[n].marks = final.bind[n].marks
             /\ seen[n].definition = final.bind[n].definition
             /\ seen[n].box = final.bind[n].box
  <2>1. seen[n] \in Binding /\ final.bind[n] \in Binding
    BY <1>1, <1>2
  <2>2. \A b \in Binding : /\ Facts(b).type = b.type /\ Facts(b).marks = b.marks
                           /\ Facts(b).definition = b.definition /\ Facts(b).box = b.box
    BY DEF Facts, Binding
  <2> QED
    BY <1>3, <2>1, <2>2
<1> QED
  BY <1>4 DEF SameArm, Matches, seen

-----------------------------------------------------------------------------
(* The order of the join: its two walks take the same steps in orders of   *)
(* their own.                                                              *)

\* Two scopes differ in their bindings at most, or in their tables of facts
\* by canonical name too
Alone(a, b) ==
    /\ a.ops = b.ops /\ a.strings = b.strings /\ a.guards = b.guards
    /\ a.flags = b.flags /\ a.failed = b.failed

Cleared(a) ==
    /\ a.ops = [c \in Canonical |-> {}] /\ a.strings = [c \in Canonical |-> FALSE]
    /\ a.guards = [c \in Canonical |-> {}]

LEMMA ChangedAt ==
  ASSUME NEW s, NEW W, Tracks(s, W), NEW kind, NEW saved, NEW f, DOMAIN f \subseteq Slots
  PROVE  /\ Alone(Changed(W, kind, saved, f).at, W.at)
         /\ \A n \in Slots : Changed(W, kind, saved, f).at.bind[n]
               = IF n \in DOMAIN f THEN f[n] ELSE W.at.bind[n]
<1>1. W.at \in Scope /\ W.at.bind \in [Slots -> Binding]
  BY WalkBindings
<1>2. [W.at EXCEPT !.bind = Over(f, @)].bind = Over(f, W.at.bind)
      /\ Alone([W.at EXCEPT !.bind = Over(f, @)], W.at)
  BY <1>1 DEF Scope, Alone
<1>3. \A n \in Slots : Over(f, W.at.bind)[n]
                         = IF n \in DOMAIN f THEN f[n] ELSE W.at.bind[n]
  BY <1>1 DEF Over
<1>4. CASE DOMAIN f = {}
  BY <1>4 DEF Changed, Alone
<1>5. CASE DOMAIN f # {}
  <2>1. Changed(W, kind, saved, f).at = [W.at EXCEPT !.bind = Over(f, @)]
    BY <1>5 DEF Changed, Recorded
  <2> QED
    BY <1>2, <1>3, <2>1
<1> QED
  BY <1>4, <1>5

LEMMA ReboundAt ==
  ASSUME NEW s, NEW W, Tracks(s, W), NEW f, DOMAIN f \subseteq Slots
  PROVE  /\ Alone(Rebound(W, f).at, W.at)
         /\ \A n \in Slots : Rebound(W, f).at.bind[n]
               = IF n \in DOMAIN f THEN f[n] ELSE W.at.bind[n]
<1>1. Rebound(W, f) = Changed(W, "Binding", Restrict(W.at.bind, DOMAIN f), f)
  BY DEF Rebound, Changed
<1> QED
  BY <1>1, ChangedAt

LEMMA MarkAt ==
  ASSUME NEW s, NEW W, Tracks(s, W), NEW set \in SUBSET Slots, NEW m
  PROVE  /\ Alone(Mark(W, set, m).at, W.at)
         /\ \A n \in Slots : Mark(W, set, m).at.bind[n]
               = IF n \in set THEN [W.at.bind[n] EXCEPT !.marks = @ \cup {m}]
                 ELSE W.at.bind[n]
<1> DEFINE f == [n \in set |-> [W.at.bind[n] EXCEPT !.marks = @ \cup {m}]]
           saved == [n \in set |-> m \in W.at.bind[n].marks]
<1>1. DOMAIN f = set /\ Mark(W, set, m) = Changed(W, m, saved, f)
  BY DEF Mark
<1>2. \A n \in set : f[n] = [W.at.bind[n] EXCEPT !.marks = @ \cup {m}]
  OBVIOUS
<1> HIDE DEF f, saved
<1>3. /\ Alone(Changed(W, m, saved, f).at, W.at)
      /\ \A n \in Slots : Changed(W, m, saved, f).at.bind[n]
            = IF n \in DOMAIN f THEN f[n] ELSE W.at.bind[n]
  BY <1>1, ChangedAt
<1> QED
  BY <1>1, <1>2, <1>3

LEMMA UnmarkAt ==
  ASSUME NEW s, NEW W, Tracks(s, W), NEW set \in SUBSET Slots, NEW m
  PROVE  /\ Alone(Unmark(W, set, m).at, W.at)
         /\ \A n \in Slots : Unmark(W, set, m).at.bind[n]
               = IF n \in set /\ m \in W.at.bind[n].marks
                 THEN [W.at.bind[n] EXCEPT !.marks = @ \ {m}] ELSE W.at.bind[n]
<1> DEFINE had == set \cap Marked(W.at, m)
           f == [n \in had |-> [W.at.bind[n] EXCEPT !.marks = @ \ {m}]]
           saved == [n \in had |-> TRUE]
<1>1. DOMAIN f = had /\ Unmark(W, set, m) = Changed(W, m, saved, f)
  BY DEF Unmark
<1>2. \A n \in had : f[n] = [W.at.bind[n] EXCEPT !.marks = @ \ {m}]
  OBVIOUS
<1>3. \A n \in Slots : n \in had <=> (n \in set /\ m \in W.at.bind[n].marks)
  BY DEF Marked
<1>4. had \subseteq Slots
  OBVIOUS
<1> HIDE DEF f, saved, had
<1>5. /\ Alone(Changed(W, m, saved, f).at, W.at)
      /\ \A n \in Slots : Changed(W, m, saved, f).at.bind[n]
            = IF n \in DOMAIN f THEN f[n] ELSE W.at.bind[n]
  BY <1>1, <1>4, ChangedAt
<1> QED
  BY <1>1, <1>2, <1>3, <1>5

LEMMA SetDefinitionAt ==
  ASSUME NEW s, NEW W, Tracks(s, W), NEW g, DOMAIN g \subseteq Slots
  PROVE  /\ Alone(SetDefinition(W, g).at, W.at)
         /\ \A n \in Slots : SetDefinition(W, g).at.bind[n]
               = IF n \in DOMAIN g THEN [W.at.bind[n] EXCEPT !.definition = g[n]]
                 ELSE W.at.bind[n]
<1> DEFINE f == [n \in DOMAIN g |-> [W.at.bind[n] EXCEPT !.definition = g[n]]]
           saved == [n \in DOMAIN g |-> W.at.bind[n].definition]
<1>1. DOMAIN f = DOMAIN g /\ SetDefinition(W, g) = Changed(W, "LexicalDefinition", saved, f)
  BY DEF SetDefinition
<1>2. \A n \in DOMAIN g : f[n] = [W.at.bind[n] EXCEPT !.definition = g[n]]
  OBVIOUS
<1> HIDE DEF f, saved
<1>3. /\ Alone(Changed(W, "LexicalDefinition", saved, f).at, W.at)
      /\ \A n \in Slots : Changed(W, "LexicalDefinition", saved, f).at.bind[n]
            = IF n \in DOMAIN f THEN f[n] ELSE W.at.bind[n]
  BY <1>1, ChangedAt
<1> QED
  BY <1>1, <1>2, <1>3

LEMMA FlaggedAt ==
  ASSUME NEW s, NEW W, Tracks(s, W), NEW set
  PROVE  Flagged(W, set).at = [W.at EXCEPT !.flags = @ \cup set]
  BY DEF Flagged, Tracks

LEMMA FailedAt ==
  ASSUME NEW s, NEW W, Tracks(s, W), NEW failed
  PROVE  [W EXCEPT !.at.failed = failed].at = [W.at EXCEPT !.failed = failed]
  BY DEF Tracks

\* What the join does to the tables of facts by canonical name
Wiped(W) == ClearGuards(ClearStrings(ClearOpsFacts(W)))

LEMMA WipedAt ==
  ASSUME NEW s, NEW W, Tracks(s, W)
  PROVE  /\ Tracks(s, Wiped(W)) /\ Cleared(Wiped(W).at)
         /\ Wiped(W).at.bind = W.at.bind /\ Wiped(W).at.flags = W.at.flags
         /\ Wiped(W).at.failed = W.at.failed
<1> DEFINE A == ClearOpsFacts(W)
           B == ClearStrings(A)
           C == ClearGuards(B)
<1>1. Tracks(s, A)
  BY TracksClearOpsFacts
<1>2. W.at \in Scope
  BY WalkBindings
<1>3. A.at.ops = [c \in Canonical |-> {}] /\ A.at.bind = W.at.bind
      /\ A.at.flags = W.at.flags /\ A.at.failed = W.at.failed
  BY <1>2 DEF ClearOpsFacts, Recorded, Scope
<1> HIDE DEF A
<1>4. Tracks(s, B)
  BY <1>1, TracksClearStrings
<1>5. A.at \in Scope
  BY <1>1, WalkBindings
<1>6. B.at.strings = [c \in Canonical |-> FALSE] /\ B.at.bind = A.at.bind
      /\ B.at.flags = A.at.flags /\ B.at.failed = A.at.failed /\ B.at.ops = A.at.ops
  BY <1>5 DEF ClearStrings, Recorded, Scope
<1> HIDE DEF B
<1>7. Tracks(s, C)
  BY <1>4, TracksClearGuards
<1>8. B.at \in Scope
  BY <1>4, WalkBindings
<1>9. C.at.guards = [c \in Canonical |-> {}] /\ C.at.bind = B.at.bind
      /\ C.at.flags = B.at.flags /\ C.at.failed = B.at.failed
      /\ C.at.ops = B.at.ops /\ C.at.strings = B.at.strings
  BY <1>8 DEF ClearGuards, Recorded, Scope
<1>10. Wiped(W) = C
  BY DEF Wiped, A, B
<1> HIDE DEF C
<1> QED
  BY <1>3, <1>6, <1>7, <1>9, <1>10 DEF Cleared

\* A binding that an assignment of type t leaves where b was
Assigned(b, t) ==
    IF BoxAfter(b, t) = "opaque" THEN [Plain(t) EXCEPT !.box = "opaque"] ELSE Plain(t)

LEMMA AssignedFacts ==
  ASSUME NEW b, NEW c, NEW t, b.box = c.box
  PROVE  Assigned(b, t) = Assigned(c, t) /\ Assigned(b, t).marks = {}
  BY DEF Assigned, BoxAfter, Plain

\* Where the facts by canonical name are gone, an assignment touches nothing
\* but its names' bindings.
LEMMA InsertValueAt ==
  ASSUME NEW s, NEW W, Tracks(s, W), Cleared(W.at), NEW f, TypesFor(f)
  PROVE  /\ Alone(InsertValue(W, f).at, W.at)
         /\ \A n \in Slots : InsertValue(W, f).at.bind[n]
               = IF n \in DOMAIN f THEN Plain(f[n]) ELSE W.at.bind[n]
<1> DEFINE C == CanonsOf(DOMAIN f)
           wrote == {n \in DOMAIN f : W.at.bind[n] # Plain(f[n])}
           g == [n \in wrote |-> Plain(f[n])]
           saved == Restrict(W.at.bind, wrote)
<1>1. C \subseteq Canonical
  BY CanonsTyped DEF TypesFor
<1>2. ClearString(W, C) = W
  BY <1>1 DEF ClearString, Cleared
<1>3. DropGuards(W, C) = W
  BY DEF DropGuards, Cleared
<1>4. ClearOps(W, C) = W
  BY <1>1 DEF ClearOps, Cleared
<1>5. InsertValue(W, f) = Changed(W, "Assignment", saved, g)
  <2>1. InsertValue(W, f) = AssignPlain(W, f)
    BY <1>2, <1>3 DEF InsertValue
  <2> QED
    BY <1>4, <2>1 DEF AssignPlain
<1>6. DOMAIN g = wrote /\ wrote \subseteq Slots
  BY DEF TypesFor
<1>7. \A n \in wrote : g[n] = Plain(f[n])
  OBVIOUS
<1>8. \A n \in DOMAIN f : n \notin wrote => W.at.bind[n] = Plain(f[n])
  OBVIOUS
<1>9. wrote \subseteq DOMAIN f
  OBVIOUS
<1> HIDE DEF g, saved, wrote
<1>10. /\ Alone(Changed(W, "Assignment", saved, g).at, W.at)
       /\ \A n \in Slots : Changed(W, "Assignment", saved, g).at.bind[n]
             = IF n \in DOMAIN g THEN g[n] ELSE W.at.bind[n]
  BY <1>6, ChangedAt
<1> QED
  BY <1>5, <1>6, <1>7, <1>8, <1>9, <1>10

LEMMA InsertAt ==
  ASSUME NEW s, NEW W, Tracks(s, W), Cleared(W.at), NEW f, TypesFor(f)
  PROVE  /\ Alone(Insert(W, f).at, W.at)
         /\ \A n \in Slots : Insert(W, f).at.bind[n]
               = IF n \in DOMAIN f THEN Assigned(W.at.bind[n], f[n]) ELSE W.at.bind[n]
<1> DEFINE calls == {n \in DOMAIN f : BoxAfter(W.at.bind[n], f[n]) = "opaque"}
           V == InsertValue(W, f)
           g == [n \in calls |-> [V.at.bind[n] EXCEPT !.box = "opaque"]]
<1>1. /\ Tracks(s, V) /\ Alone(V.at, W.at)
      /\ \A n \in Slots : V.at.bind[n]
            = IF n \in DOMAIN f THEN Plain(f[n]) ELSE W.at.bind[n]
  BY TracksInsertValue, InsertValueAt
<1> HIDE DEF V
<1>2. Insert(W, f) = Rebound(V, g)
  BY DEF Insert, SetBox, V
<1>3. DOMAIN g = calls /\ calls \subseteq Slots
  BY DEF TypesFor
<1>4. \A n \in calls : g[n] = [V.at.bind[n] EXCEPT !.box = "opaque"]
  OBVIOUS
<1> HIDE DEF g
<1>5. /\ Alone(Rebound(V, g).at, V.at)
      /\ \A n \in Slots : Rebound(V, g).at.bind[n]
            = IF n \in DOMAIN g THEN g[n] ELSE V.at.bind[n]
  BY <1>1, <1>3, ReboundAt
<1>6. \A n \in DOMAIN f : n \in calls <=> BoxAfter(W.at.bind[n], f[n]) = "opaque"
  OBVIOUS
<1>7. calls \subseteq DOMAIN f
  OBVIOUS
<1> HIDE DEF calls
<1>8. ASSUME NEW n \in Slots
      PROVE  Insert(W, f).at.bind[n]
               = IF n \in DOMAIN f THEN Assigned(W.at.bind[n], f[n]) ELSE W.at.bind[n]
  <2>1. CASE n \in calls
    BY <1>1, <1>2, <1>3, <1>4, <1>5, <1>6, <1>7, <2>1 DEF Assigned
  <2>2. CASE n \notin calls
    BY <1>1, <1>2, <1>3, <1>5, <1>6, <2>2 DEF Assigned
  <2> QED
    BY <2>1, <2>2
<1> QED
  BY <1>1, <1>2, <1>5, <1>8 DEF Alone

\* What the merge leaves of a binding
Merged(b, t, base, then, else, n) ==
    LET types == MergedTypes(t, base, then, else)
    IN IF n \notin DOMAIN types THEN b
       ELSE IF n \notin MergedLists(t, base, then, else) THEN Assigned(b, types[n])
       ELSE [Assigned(b, types[n]) EXCEPT !.marks = @ \cup {"list"}]

\* Scope b is scope a with the arms merged into it.
IsMerged(b, a, t, base, then, else) ==
    /\ Cleared(b)
    /\ b.flags = a.flags \cup MergedMask(t, base, then, else)
    /\ b.failed = a.failed
    /\ \A n \in Slots : b.bind[n] = Merged(a.bind[n], t, base, then, else, n)

LEMMA MergeAt ==
  ASSUME NEW s, NEW W, Tracks(s, W), Cleared(W.at), NEW t, NEW base, ArmTyped(base),
         NEW then, ArmTyped(then), NEW else, ArmTyped(else)
  PROVE  IsMerged(MergeBindings(W, t, base, then, else).at, W.at, t, base, then, else)
<1> DEFINE types == MergedTypes(t, base, then, else)
           lists == MergedLists(t, base, then, else)
           mask == MergedMask(t, base, then, else)
           I == Insert(W, types)
           L == Mark(I, lists, "list")
           M == MergeBindings(W, t, base, then, else)
<1>1. TypesFor(types) /\ lists \subseteq DOMAIN types
  BY MergePartsTyped
<1>2. lists \in SUBSET Slots /\ "list" \in MarkerKinds
  BY <1>1 DEF TypesFor, MarkerKinds
<1>3. M = Flagged(L, mask)
  BY MergeParts
<1>4. \A b, n : Merged(b, t, base, then, else, n)
        = IF n \notin DOMAIN types THEN b
          ELSE IF n \notin lists THEN Assigned(b, types[n])
          ELSE [Assigned(b, types[n]) EXCEPT !.marks = @ \cup {"list"}]
  BY DEF Merged
<1> HIDE DEF types, lists, mask, M
<1>5. /\ Tracks(s, I) /\ Alone(I.at, W.at)
      /\ \A n \in Slots : I.at.bind[n]
            = IF n \in DOMAIN types THEN Assigned(W.at.bind[n], types[n])
              ELSE W.at.bind[n]
  BY <1>1, TracksInsert, InsertAt
<1> HIDE DEF I
<1>6. /\ Tracks(s, L) /\ Alone(L.at, I.at)
      /\ \A n \in Slots : L.at.bind[n]
            = IF n \in lists THEN [I.at.bind[n] EXCEPT !.marks = @ \cup {"list"}]
              ELSE I.at.bind[n]
  <2>1. Tracks(s, L)
    BY <1>2, <1>5, TracksMark
  <2>2. /\ Alone(Mark(I, lists, "list").at, I.at)
        /\ \A n \in Slots : Mark(I, lists, "list").at.bind[n]
              = IF n \in lists THEN [I.at.bind[n] EXCEPT !.marks = @ \cup {"list"}]
                ELSE I.at.bind[n]
    BY <1>2, <1>5, MarkAt
  <2> QED
    BY <2>1, <2>2
<1> HIDE DEF L
<1>7. L.at \in Scope /\ M.at = [L.at EXCEPT !.flags = @ \cup mask]
  BY <1>3, <1>6, FlaggedAt, WalkBindings
<1>8. /\ M.at.bind = L.at.bind /\ M.at.ops = L.at.ops /\ M.at.strings = L.at.strings
      /\ M.at.guards = L.at.guards /\ M.at.failed = L.at.failed
      /\ M.at.flags = L.at.flags \cup mask
  BY <1>7 DEF Scope
<1>9. ASSUME NEW n \in Slots
      PROVE  M.at.bind[n] = Merged(W.at.bind[n], t, base, then, else, n)
  <2>1. M.at.bind[n] = L.at.bind[n]
    BY <1>8
  <2>2. CASE n \in lists
    BY <1>1, <1>4, <1>5, <1>6, <2>1, <2>2
  <2>3. CASE n \notin lists
    BY <1>4, <1>5, <1>6, <2>1, <2>3
  <2> QED
    BY <2>2, <2>3
<1> QED
  BY <1>5, <1>6, <1>8, <1>9 DEF Alone, Cleared, IsMerged, M, mask

\* The names whose definition an arm that reaches the end did not keep, and
\* those that an arm that continues did not assert to be scalar
Unkept(a, t, then, else) ==
    {n \in Slots : /\ a.bind[n].definition # None
                   /\ \/ /\ Reaches(t, "then", then)
                         /\ then.bind[n].definition # a.bind[n].definition
                      \/ /\ Reaches(t, "else", else)
                         /\ else.bind[n].definition # a.bind[n].definition}
Unasserted(a, t, then, else) ==
    LET lost(which, arm) ==
            IF Diverges(t, which, a, arm) THEN {} ELSE Slots \ Marked(arm, "scalar")
    IN lost("then", then) \cup (IF t.else THEN lost("else", else) ELSE {})

\* A binding without its definition or its assertion, if n is one of those
\* that lose it
Forgot(b, n, set) == IF n \in set THEN [b EXCEPT !.definition = None] ELSE b
Lost(b, n, set) == IF n \in set /\ "scalar" \in b.marks
                   THEN [b EXCEPT !.marks = @ \ {"scalar"}] ELSE b

LEMMA ForgetAt ==
  ASSUME NEW s, NEW W, Tracks(s, W), NEW t, NEW then, NEW else
  PROVE  /\ Alone(ForgetDefinitions(W, t, then, else).at, W.at)
         /\ \A n \in Slots : ForgetDefinitions(W, t, then, else).at.bind[n]
               = Forgot(W.at.bind[n], n, Unkept(W.at, t, then, else))
<1> DEFINE lost == Unkept(W.at, t, then, else)
           g == [n \in lost |-> None]
<1>1. ForgetDefinitions(W, t, then, else) = SetDefinition(W, g)
  BY DEF ForgetDefinitions, Unkept
<1>2. DOMAIN g = lost /\ lost \subseteq Slots /\ \A n \in lost : g[n] = None
  BY DEF Unkept
<1> HIDE DEF g, lost
<1>3. /\ Alone(SetDefinition(W, g).at, W.at)
      /\ \A n \in Slots : SetDefinition(W, g).at.bind[n]
            = IF n \in DOMAIN g THEN [W.at.bind[n] EXCEPT !.definition = g[n]]
              ELSE W.at.bind[n]
  BY <1>2, SetDefinitionAt
<1> QED
  BY <1>1, <1>2, <1>3 DEF lost, Forgot

LEMMA LoseAt ==
  ASSUME NEW s, NEW W, Tracks(s, W), NEW t, NEW then, NEW else
  PROVE  /\ Alone(LoseAssertions(W, t, then, else).at, W.at)
         /\ \A n \in Slots : LoseAssertions(W, t, then, else).at.bind[n]
               = Lost(W.at.bind[n], n, Unasserted(W.at, t, then, else))
<1> DEFINE lost == Unasserted(W.at, t, then, else)
<1>1. LoseAssertions(W, t, then, else) = Unmark(W, lost, "scalar")
  BY DEF LoseAssertions, Unasserted
<1>2. lost \in SUBSET Slots
  BY DEF Unasserted
<1> HIDE DEF lost
<1>3. /\ Alone(Unmark(W, lost, "scalar").at, W.at)
      /\ \A n \in Slots : Unmark(W, lost, "scalar").at.bind[n]
            = IF n \in lost /\ "scalar" \in W.at.bind[n].marks
              THEN [W.at.bind[n] EXCEPT !.marks = @ \ {"scalar"}] ELSE W.at.bind[n]
  BY <1>2, UnmarkAt
<1> QED
  BY <1>1, <1>3 DEF lost, Lost

\* Which assertions are lost depends on the arms, and on whether a loop runs.
LEMMA SameUnasserted ==
  ASSUME NEW a, NEW b, NEW t, NEW then, NEW else,
         "loop" \in a.flags <=> "loop" \in b.flags
  PROVE  Unasserted(a, t, then, else) = Unasserted(b, t, then, else)
<1>1. \A which, arm : Diverges(t, which, a, arm) = Diverges(t, which, b, arm)
  BY DEF Diverges
<1> QED
  BY <1>1 DEF Unasserted

\* A merge after the assertions are lost leaves of a binding what one before
\* does: what it assigns is not asserted, and does not look at assertions.
LEMMA MergedLost ==
  ASSUME NEW b \in Binding, NEW t, NEW base, NEW then, NEW else, NEW n, NEW set
  PROVE  Merged(Lost(b, n, set), t, base, then, else, n)
           = Lost(Merged(b, t, base, then, else, n), n, set)
<1> DEFINE c == Lost(b, n, set)
           types == MergedTypes(t, base, then, else)
           type == types[n]
           listed(v) == [v EXCEPT !.marks = @ \cup {"list"}]
<1>1. c.box = b.box
  BY DEF Lost, Binding
<1>2. \A v : v.marks \subseteq {"list"} => Lost(v, n, set) = v
  BY DEF Lost
<1>3. \A v : Merged(v, t, base, then, else, n)
               = IF n \notin DOMAIN types THEN v
                 ELSE IF n \notin MergedLists(t, base, then, else)
                 THEN Assigned(v, type) ELSE listed(Assigned(v, type))
  BY DEF Merged
<1> HIDE DEF c, type
<1>4. Assigned(c, type) = Assigned(b, type) /\ Assigned(b, type).marks = {}
  BY <1>1, AssignedFacts
<1>5. listed(Assigned(b, type)).marks \subseteq {"list"}
  BY <1>4
<1> HIDE DEF listed
<1> QED
  BY <1>2, <1>3, <1>4, <1>5 DEF c

\* The two joins, up to what the test proved in the arm that continues
Continuations(t, base, then, else) ==
    Continuing(t, "then", base, then) \cup Continuing(t, "else", base, else)
Uncertain(then, else) == ((then.flags \cup else.flags) \cap Sticky) \ {"dynamic"}

JoinHead(W, t, then, else) ==
    LET A == LoseAssertions(ForgetDefinitions(W, t, then, else), t, then, else)
        B == [Wiped(A) EXCEPT !.at.failed = FailedAfter(W.at, t, then, else)]
        C == Flagged(B, Continuations(t, W.at, then, else))
    IN MergeBindings(C, t, W.at, then, else)
ClonedHead(W, t, then, else) ==
    LET B == Flagged(Wiped(W), Uncertain(then, else))
        C == MergeBindings(ForgetDefinitions(B, t, then, else), t, W.at, then, else)
        D == LoseAssertions(C, t, then, else)
    IN Flagged([D EXCEPT !.at.failed = FailedAfter(W.at, t, then, else)],
               Continuations(t, W.at, then, else))

\* What both joins have there, but for the bindings
HeadOf(H, s, t, then, else) ==
    /\ Tracks(s, H) /\ Cleared(H.at)
    /\ H.at.flags = s.flags \cup Continuations(t, s, then, else)
                      \cup MergedMask(t, s, then, else)
    /\ H.at.failed = FailedAfter(s, t, then, else)

LEMMA JoinHeadAt ==
  ASSUME NEW s \in Scope, NEW t, NEW then, ArmTyped(then), NEW else, ArmTyped(else)
  PROVE  LET H == JoinHead(Here(s), t, then, else)
             kept(n) == Forgot(s.bind[n], n, Unkept(s, t, then, else))
             lost(n, b) == Lost(b, n, Unasserted(s, t, then, else))
         IN /\ HeadOf(H, s, t, then, else)
            /\ \A n \in Slots :
                  H.at.bind[n] = Merged(lost(n, kept(n)), t, s, then, else, n)
<1> DEFINE W == Here(s)
           F == ForgetDefinitions(W, t, then, else)
           A == LoseAssertions(F, t, then, else)
           V == Wiped(A)
           failed == FailedAfter(s, t, then, else)
           B == [V EXCEPT !.at.failed = failed]
           flags == Continuations(t, s, then, else)
           C == Flagged(B, flags)
           H == MergeBindings(C, t, s, then, else)
           kept(n) == Forgot(s.bind[n], n, Unkept(s, t, then, else))
           lost(n, b) == Lost(b, n, Unasserted(s, t, then, else))
<1>1. W.at = s /\ Tracks(s, W) /\ ArmTyped(s)
  BY TracksHere DEF Here, ArmTyped, Scope
<1>2. JoinHead(W, t, then, else) = H
  BY <1>1 DEF JoinHead
<1>3. flags \in SUBSET Flags /\ failed \in SUBSET {"package"}
  BY <1>1 DEF Continuations, Continuing, Flags, FailedAfter, ArmTyped
<1> HIDE DEF W, failed, flags
<1>4. /\ Tracks(s, F) /\ Alone(F.at, s)
      /\ \A n \in Slots : F.at.bind[n] = kept(n)
  BY <1>1, TracksForgetDefinitions, ForgetAt
<1> HIDE DEF F
<1>5. /\ Tracks(s, A) /\ Alone(A.at, F.at)
      /\ \A n \in Slots : A.at.bind[n] = lost(n, kept(n))
  <2>1. Unasserted(F.at, t, then, else) = Unasserted(s, t, then, else)
    BY <1>4, SameUnasserted DEF Alone
  <2>2. /\ Alone(A.at, F.at)
        /\ \A n \in Slots : A.at.bind[n]
              = Lost(F.at.bind[n], n, Unasserted(F.at, t, then, else))
    BY <1>4, LoseAt
  <2>3. Tracks(s, A)
    BY <1>4, TracksLoseAssertions
  <2> HIDE DEF A, kept
  <2> QED
    BY <1>4, <2>1, <2>2, <2>3
<1> HIDE DEF A
<1>6. /\ Tracks(s, V) /\ Cleared(V.at) /\ V.at.bind = A.at.bind
      /\ V.at.flags = A.at.flags /\ V.at \in Scope
  BY <1>5, WipedAt, WalkBindings
<1> HIDE DEF V
<1>7. Tracks(s, B) /\ B.at = [V.at EXCEPT !.failed = failed]
  BY <1>3, <1>6, TracksFailed, FailedAt
<1>8. /\ Cleared(B.at) /\ B.at.bind = V.at.bind /\ B.at.flags = V.at.flags
      /\ B.at.failed = failed
  BY <1>6, <1>7 DEF Scope, Cleared
<1> HIDE DEF B
<1>9. Tracks(s, C) /\ C.at = [B.at EXCEPT !.flags = @ \cup flags] /\ B.at \in Scope
  BY <1>3, <1>7, TracksFlagged, FlaggedAt, WalkBindings
<1>10. /\ Cleared(C.at) /\ C.at.bind = B.at.bind /\ C.at.flags = B.at.flags \cup flags
       /\ C.at.failed = failed
  BY <1>8, <1>9 DEF Scope, Cleared
<1> HIDE DEF C
<1>11. /\ Tracks(s, H) /\ Cleared(H.at)
       /\ H.at.flags = C.at.flags \cup MergedMask(t, s, then, else)
       /\ H.at.failed = C.at.failed
       /\ \A n \in Slots : H.at.bind[n] = Merged(C.at.bind[n], t, s, then, else, n)
  <2>1. Tracks(s, H)
    BY <1>1, <1>9, TracksMergeBindings
  <2>2. Tracks(s, C) /\ Cleared(C.at) /\ ArmTyped(s)
    BY <1>1, <1>9, <1>10
  <2>3. IsMerged(H.at, C.at, t, s, then, else)
    BY <2>2, MergeAt
  <2> HIDE DEF H, lost, kept
  <2> QED
    BY <2>1, <2>3 DEF IsMerged
<1> HIDE DEF H
<1>12. H.at.flags = s.flags \cup flags \cup MergedMask(t, s, then, else)
  BY <1>4, <1>5, <1>6, <1>8, <1>10, <1>11 DEF Alone
<1>13. \A n \in Slots : C.at.bind[n] = lost(n, kept(n))
  BY <1>5, <1>6, <1>8, <1>10
<1> HIDE DEF lost, kept
<1>14. \A n \in Slots : H.at.bind[n] = Merged(lost(n, kept(n)), t, s, then, else, n)
  BY <1>11, <1>13
<1>15. H = JoinHead(Here(s), t, then, else)
  BY <1>2 DEF W
<1> QED
  BY <1>10, <1>11, <1>12, <1>14, <1>15 DEF HeadOf, lost, kept, flags, failed

LEMMA ClonedHeadAt ==
  ASSUME NEW s \in Scope, NEW t, NEW then, ArmTyped(then), NEW else, ArmTyped(else)
  PROVE  LET H == ClonedHead(Here(s), t, then, else)
             kept(n) == Forgot(s.bind[n], n, Unkept(s, t, then, else))
             lost(n, b) == Lost(b, n, Unasserted(s, t, then, else))
         IN /\ HeadOf(H, s, t, then, else)
            /\ \A n \in Slots :
                  H.at.bind[n] = lost(n, Merged(kept(n), t, s, then, else, n))
<1> DEFINE W == Here(s)
           V == Wiped(W)
           some == Uncertain(then, else)
           B == Flagged(V, some)
           F == ForgetDefinitions(B, t, then, else)
           C == MergeBindings(F, t, s, then, else)
           D == LoseAssertions(C, t, then, else)
           failed == FailedAfter(s, t, then, else)
           E == [D EXCEPT !.at.failed = failed]
           flags == Continuations(t, s, then, else)
           H == Flagged(E, flags)
           mask == MergedMask(t, s, then, else)
           kept(n) == Forgot(s.bind[n], n, Unkept(s, t, then, else))
           lost(n, b) == Lost(b, n, Unasserted(s, t, then, else))
           merged(n) == Merged(kept(n), t, s, then, else, n)
<1>1. W.at = s /\ Tracks(s, W) /\ ArmTyped(s)
  BY TracksHere DEF Here, ArmTyped, Scope
<1>2. ClonedHead(W, t, then, else) = H
  BY <1>1 DEF ClonedHead
<1>3. /\ flags \in SUBSET Flags /\ failed \in SUBSET {"package"}
      /\ some \in SUBSET Flags /\ some \subseteq flags
      /\ "loop" \notin some \cup mask
  BY <1>1 DEF Continuations, Continuing, Uncertain, Sticky, Flags, FailedAfter,
              MergedMask, ArmTyped
<1> HIDE DEF W, failed, flags, some, mask
<1>4. /\ Tracks(s, V) /\ Cleared(V.at) /\ V.at.bind = s.bind
      /\ V.at.flags = s.flags /\ V.at \in Scope
  BY <1>1, WipedAt, WalkBindings
<1> HIDE DEF V
<1>5. Tracks(s, B) /\ B.at = [V.at EXCEPT !.flags = @ \cup some]
  BY <1>3, <1>4, TracksFlagged, FlaggedAt
<1>6. Cleared(B.at) /\ B.at.bind = s.bind /\ B.at.flags = s.flags \cup some
  BY <1>4, <1>5 DEF Scope, Cleared
<1> HIDE DEF B
<1>7. /\ Tracks(s, F) /\ Cleared(F.at) /\ F.at.flags = s.flags \cup some
      /\ \A n \in Slots : F.at.bind[n] = kept(n)
  <2>1. Unkept(B.at, t, then, else) = Unkept(s, t, then, else)
    BY <1>6 DEF Unkept
  <2>2. /\ Alone(F.at, B.at)
        /\ \A n \in Slots : F.at.bind[n]
              = Forgot(B.at.bind[n], n, Unkept(B.at, t, then, else))
    <3>1. Tracks(s, B)
      BY <1>5
    <3> QED
      BY <3>1, ForgetAt
  <2>3. Tracks(s, F)
    BY <1>5, TracksForgetDefinitions
  <2> HIDE DEF F
  <2> QED
    BY <1>6, <2>1, <2>2, <2>3 DEF Alone, Cleared
<1> HIDE DEF F
<1>8. /\ Tracks(s, C) /\ Cleared(C.at) /\ C.at.flags = s.flags \cup some \cup mask
      /\ \A n \in Slots : C.at.bind[n] = merged(n)
  <2>1. Tracks(s, C)
    BY <1>1, <1>7, TracksMergeBindings
  <2>2. /\ Cleared(C.at) /\ C.at.flags = F.at.flags \cup MergedMask(t, s, then, else)
        /\ \A n \in Slots : C.at.bind[n] = Merged(F.at.bind[n], t, s, then, else, n)
    <3>1. Tracks(s, F) /\ Cleared(F.at) /\ ArmTyped(s)
      BY <1>1, <1>7
    <3>2. IsMerged(C.at, F.at, t, s, then, else)
      BY <3>1, MergeAt
    <3> HIDE DEF C, kept, merged
    <3> QED
      BY <3>2 DEF IsMerged
  <2> HIDE DEF C, kept
  <2> QED
    BY <1>7, <2>1, <2>2 DEF mask
<1> HIDE DEF C, merged
<1>9. /\ Tracks(s, D) /\ Alone(D.at, C.at) /\ D.at \in Scope
      /\ \A n \in Slots : D.at.bind[n] = lost(n, merged(n))
  <2>1. Unasserted(C.at, t, then, else) = Unasserted(s, t, then, else)
    BY <1>3, <1>8, SameUnasserted
  <2>2. /\ Alone(D.at, C.at)
        /\ \A n \in Slots : D.at.bind[n]
              = Lost(C.at.bind[n], n, Unasserted(C.at, t, then, else))
    BY <1>8, LoseAt
  <2>3. Tracks(s, D)
    BY <1>8, TracksLoseAssertions
  <2> HIDE DEF D
  <2> QED
    BY <1>8, <2>1, <2>2, <2>3, WalkBindings
<1> HIDE DEF D
<1>10. Tracks(s, E) /\ E.at = [D.at EXCEPT !.failed = failed] /\ E.at \in Scope
  BY <1>3, <1>9, TracksFailed, FailedAt, WalkBindings
<1>11. /\ Cleared(E.at) /\ E.at.bind = D.at.bind /\ E.at.failed = failed
       /\ E.at.flags = s.flags \cup some \cup mask
  BY <1>8, <1>9, <1>10 DEF Scope, Cleared, Alone
<1> HIDE DEF E
<1>12. Tracks(s, H) /\ H.at = [E.at EXCEPT !.flags = @ \cup flags]
  BY <1>3, <1>10, TracksFlagged, FlaggedAt
<1>13. /\ Cleared(H.at) /\ H.at.bind = D.at.bind /\ H.at.failed = failed
       /\ H.at.flags = s.flags \cup flags \cup mask
  BY <1>3, <1>10, <1>11, <1>12 DEF Scope, Cleared
<1> HIDE DEF H, lost
<1>14. \A n \in Slots : H.at.bind[n] = lost(n, merged(n))
  BY <1>9, <1>13
<1>15. H = ClonedHead(Here(s), t, then, else)
  BY <1>2 DEF W
<1> QED
  BY <1>12, <1>13, <1>14, <1>15 DEF HeadOf, lost, merged, flags, failed, mask

\* The two joins take their steps to the same scope.
LEMMA HeadsAgree ==
  ASSUME NEW s \in Scope, NEW t, NEW then, ArmTyped(then), NEW else, ArmTyped(else)
  PROVE  /\ JoinHead(Here(s), t, then, else).at = ClonedHead(Here(s), t, then, else).at
         /\ Tracks(s, JoinHead(Here(s), t, then, else))
         /\ Tracks(s, ClonedHead(Here(s), t, then, else))
<1> DEFINE J == JoinHead(Here(s), t, then, else)
           K == ClonedHead(Here(s), t, then, else)
           kept(n) == Forgot(s.bind[n], n, Unkept(s, t, then, else))
           lost(n, b) == Lost(b, n, Unasserted(s, t, then, else))
<1>1. /\ Tracks(s, J) /\ Tracks(s, K) /\ Cleared(J.at) /\ Cleared(K.at)
      /\ J.at.flags = K.at.flags /\ J.at.failed = K.at.failed
      /\ \A n \in Slots : J.at.bind[n] = Merged(lost(n, kept(n)), t, s, then, else, n)
      /\ \A n \in Slots : K.at.bind[n] = lost(n, Merged(kept(n), t, s, then, else, n))
  <2>1. /\ HeadOf(J, s, t, then, else)
        /\ \A n \in Slots : J.at.bind[n] = Merged(lost(n, kept(n)), t, s, then, else, n)
    BY JoinHeadAt
  <2>2. /\ HeadOf(K, s, t, then, else)
        /\ \A n \in Slots : K.at.bind[n] = lost(n, Merged(kept(n), t, s, then, else, n))
    BY ClonedHeadAt
  <2> HIDE DEF J, K, lost, kept
  <2> QED
    BY <2>1, <2>2 DEF HeadOf
<1>2. ASSUME NEW n \in Slots
      PROVE  Merged(lost(n, kept(n)), t, s, then, else, n)
               = lost(n, Merged(kept(n), t, s, then, else, n))
  <2>1. kept(n) \in Binding
    BY DEF Forgot, Scope, Binding
  <2> HIDE DEF kept
  <2> QED
    BY <2>1, MergedLost
<1>3. J.at \in Scope /\ K.at \in Scope
  BY <1>1, WalkBindings
<1> HIDE DEF J, K, lost, kept
<1>4. \A n \in Slots : J.at.bind[n] = K.at.bind[n]
  BY <1>1, <1>2
<1>5. J.at.bind = K.at.bind
  BY <1>3, <1>4 DEF Scope
<1>6. J.at = K.at
  BY <1>1, <1>3, <1>5, ShapedEqual DEF Same, Cleared
<1> QED
  BY <1>1, <1>6 DEF J, K

\* From there on the walks do the same.  What a method does to the scope does
\* not depend on what was recorded before.
LEMMA SameChanged ==
  ASSUME NEW V, NEW W, V.at = W.at, NEW kind, NEW saved, NEW f
  PROVE  Changed(V, kind, saved, f).at = Changed(W, kind, saved, f).at
  BY DEF Changed, Recorded

LEMMA SameRebound ==
  ASSUME NEW V, NEW W, V.at = W.at, NEW f
  PROVE  Rebound(V, f).at = Rebound(W, f).at
  BY DEF Rebound, Recorded

LEMMA SameClears ==
  ASSUME NEW V, NEW W, V.at = W.at, NEW C
  PROVE  /\ ClearString(V, C).at = ClearString(W, C).at
         /\ DropGuards(V, C).at = DropGuards(W, C).at
         /\ ClearOps(V, C).at = ClearOps(W, C).at
<1>1. ClearString(V, C).at = ClearString(W, C).at
  BY DEF ClearString, Recorded
<1>2. DropGuards(V, C).at = DropGuards(W, C).at
  BY DEF DropGuards, Recorded
<1>3. ClearOps(V, C).at = ClearOps(W, C).at
  BY DEF ClearOps, Recorded
<1> QED
  BY <1>1, <1>2, <1>3

LEMMA SameMarks ==
  ASSUME NEW V, NEW W, V.at = W.at, NEW set, NEW m
  PROVE  /\ Mark(V, set, m).at = Mark(W, set, m).at
         /\ MarkNew(V, set, m).at = MarkNew(W, set, m).at
         /\ Unmark(V, set, m).at = Unmark(W, set, m).at
<1>1. ASSUME NEW some PROVE Mark(V, some, m).at = Mark(W, some, m).at
  BY SameChanged DEF Mark
<1>2. MarkNew(V, set, m).at = MarkNew(W, set, m).at
  BY <1>1 DEF MarkNew
<1>3. Unmark(V, set, m).at = Unmark(W, set, m).at
  BY SameChanged DEF Unmark
<1> QED
  BY <1>1, <1>2, <1>3

LEMMA SameSetBox ==
  ASSUME NEW V, NEW W, V.at = W.at, NEW f
  PROVE  SetBox(V, f).at = SetBox(W, f).at
  BY SameRebound DEF SetBox

LEMMA SameAttach ==
  ASSUME NEW V, NEW W, V.at = W.at, NEW f
  PROVE  Attach(V, f).at = Attach(W, f).at
<1>1. ASSUME NEW set PROVE SetAlias(V, set).at = SetAlias(W, set).at
  BY SameChanged DEF SetAlias
<1> QED
  BY <1>1, SameSetBox DEF Attach

LEMMA SameAssign ==
  ASSUME NEW V, NEW W, V.at = W.at, NEW f
  PROVE  AssignPlain(V, f).at = AssignPlain(W, f).at
<1> DEFINE K == ClearOps(V, CanonsOf(DOMAIN f))
           L == ClearOps(W, CanonsOf(DOMAIN f))
           wrote(X) == {n \in DOMAIN f : X.at.bind[n] # Plain(f[n])}
           saved(X) == Restrict(X.at.bind, wrote(X))
           g(X) == [n \in wrote(X) |-> Plain(f[n])]
<1>1. K.at = L.at
  BY SameClears
<1>2. /\ AssignPlain(V, f) = Changed(K, "Assignment", saved(K), g(K))
      /\ AssignPlain(W, f) = Changed(L, "Assignment", saved(L), g(L))
  BY DEF AssignPlain
<1> HIDE DEF K, L
<1>3. saved(K) = saved(L) /\ g(K) = g(L)
  BY <1>1
<1> HIDE DEF saved, g
<1> QED
  BY <1>1, <1>2, <1>3, SameChanged

LEMMA SameInsert ==
  ASSUME NEW V, NEW W, V.at = W.at, NEW f
  PROVE  Insert(V, f).at = Insert(W, f).at
<1> DEFINE C == CanonsOf(DOMAIN f)
           K(X) == DropGuards(ClearString(X, C), C)
           calls(X) == {n \in DOMAIN f : BoxAfter(X.at.bind[n], f[n]) = "opaque"}
           g(X) == [n \in calls(X) |-> "opaque"]
<1>1. ClearString(V, C).at = ClearString(W, C).at
  BY SameClears
<1>2. K(V).at = K(W).at
  BY <1>1, SameClears
<1>3. InsertValue(V, f) = AssignPlain(K(V), f) /\ InsertValue(W, f) = AssignPlain(K(W), f)
  BY DEF InsertValue
<1> HIDE DEF K
<1>4. InsertValue(V, f).at = InsertValue(W, f).at
  BY <1>2, <1>3, SameAssign
<1>5. g(V) = g(W)
  OBVIOUS
<1>6. /\ Insert(V, f) = SetBox(InsertValue(V, f), g(V))
      /\ Insert(W, f) = SetBox(InsertValue(W, f), g(W))
  BY DEF Insert
<1> HIDE DEF g
<1> QED
  BY <1>4, <1>5, <1>6, SameSetBox

LEMMA SameInsertNarrowed ==
  ASSUME NEW V, NEW W, V.at = W.at, NEW f
  PROVE  InsertNarrowed(V, f).at = InsertNarrowed(W, f).at
<1> DEFINE g == [n \in DOMAIN f |-> Narrowed(W.at.bind[n], f[n])]
<1>1. /\ InsertNarrowed(V, f) = ClearOps(Rebound(V, g), CanonsOf(DOMAIN f))
      /\ InsertNarrowed(W, f) = ClearOps(Rebound(W, g), CanonsOf(DOMAIN f))
  BY DEF InsertNarrowed
<1> HIDE DEF g
<1>2. Rebound(V, g).at = Rebound(W, g).at
  BY SameRebound
<1> QED
  BY <1>1, <1>2, SameClears

LEMMA SameInsertDefaults ==
  ASSUME NEW V, NEW W, V.at = W.at, NEW f
  PROVE  InsertDefaults(V, f).at = InsertDefaults(W, f).at
<1> DEFINE g == [n \in DOMAIN f |-> Defaulted(W.at.bind[n], f[n])]
<1>1. /\ InsertDefaults(V, f) = ClearOps(Rebound(V, g), CanonsOf(DOMAIN f))
      /\ InsertDefaults(W, f) = ClearOps(Rebound(W, g), CanonsOf(DOMAIN f))
  BY DEF InsertDefaults
<1> HIDE DEF g
<1>2. Rebound(V, g).at = Rebound(W, g).at
  BY SameRebound
<1> QED
  BY <1>1, <1>2, SameClears

LEMMA SameContinue ==
  ASSUME NEW V, NEW W, V.at = W.at, NEW t, NEW base, NEW then, NEW else
  PROVE  ContinueNarrowing(V, t, base, then, else).at
           = ContinueNarrowing(W, t, base, then, else).at
<1>1. \A f : InsertDefaults(V, f).at = InsertDefaults(W, f).at
  BY SameInsertDefaults
<1>2. \A f, g : Insert(InsertDefaults(V, f), g).at = Insert(InsertDefaults(W, f), g).at
  BY <1>1, SameInsert
<1> QED
  BY <1>2 DEF ContinueNarrowing

LEMMA SameJoinVectors ==
  ASSUME NEW V, NEW W, V.at = W.at, NEW t, NEW base, NEW then, NEW else
  PROVE  JoinLoopVectors(V, t, base, then, else).at
           = JoinLoopVectors(W, t, base, then, else).at
<1>1. \A set : Unmark(V, set, "vector").at = Unmark(W, set, "vector").at
  BY SameMarks
<1>2. \A set, other : MarkNew(Unmark(V, set, "vector"), other, "vector").at
                        = MarkNew(Unmark(W, set, "vector"), other, "vector").at
  BY <1>1, SameMarks
<1> QED
  BY <1>2 DEF JoinLoopVectors

LEMMA SameApplyBoxes ==
  ASSUME NEW V, NEW W, V.at = W.at, NEW joined
  PROVE  ApplyBoxes(V, joined).at = ApplyBoxes(W, joined).at
<1>1. \A f : Rebound(V, f).at = Rebound(W, f).at
  BY SameRebound
<1>2. \A f, g : Attach(Rebound(V, f), g).at = Attach(Rebound(W, f), g).at
  BY <1>1, SameAttach
<1> QED
  BY <1>2 DEF ApplyBoxes

LEMMA SameFlagged ==
  ASSUME NEW s, NEW V, Tracks(s, V), NEW W, Tracks(s, W), V.at = W.at, NEW set
  PROVE  Flagged(V, set).at = Flagged(W, set).at
<1>1. Flagged(V, set).at = [V.at EXCEPT !.flags = @ \cup set]
  BY FlaggedAt
<1>2. Flagged(W, set).at = [W.at EXCEPT !.flags = @ \cup set]
  BY FlaggedAt
<1> QED
  BY <1>1, <1>2

JoinTail(W, t, base, then, else, refined) ==
    LET E == InsertNarrowed(ContinueNarrowing(W, t, base, then, else), refined)
        F == JoinLoopVectors(E, t, base, then, else)
        G == ApplyBoxes(F, JoinedBoxes(t, base, then, else))
    IN Flagged(G, Unreached(t, then, else))

LEMMA SameTail ==
  ASSUME NEW s, NEW V, Tracks(s, V), NEW W, Tracks(s, W), V.at = W.at,
         NEW t \in Tests, NEW base, ArmTyped(base), NEW then, ArmTyped(then),
         NEW else, ArmTyped(else), NEW refined, TypesFor(refined)
  PROVE  JoinTail(V, t, base, then, else, refined).at
           = JoinTail(W, t, base, then, else, refined).at
<1> DEFINE N(X) == ContinueNarrowing(X, t, base, then, else)
           E(X) == InsertNarrowed(N(X), refined)
           F(X) == JoinLoopVectors(E(X), t, base, then, else)
           boxes == JoinedBoxes(t, base, then, else)
           G(X) == ApplyBoxes(F(X), boxes)
<1>1. BoxesFor(boxes)
  BY JoinedBoxesTyped
<1> HIDE DEF boxes
<1>2. ASSUME NEW X, Tracks(s, X) PROVE Tracks(s, G(X))
  BY <1>1, <1>2, TracksContinueNarrowing, TracksInsertNarrowed, TracksJoinLoopVectors,
     TracksApplyBoxes
<1>3. N(V).at = N(W).at
  BY SameContinue
<1> HIDE DEF N
<1>4. E(V).at = E(W).at
  BY <1>3, SameInsertNarrowed
<1> HIDE DEF E
<1>5. F(V).at = F(W).at
  BY <1>4, SameJoinVectors
<1> HIDE DEF F
<1>6. G(V).at = G(W).at
  BY <1>5, SameApplyBoxes
<1>7. \A X : JoinTail(X, t, base, then, else, refined)
               = Flagged(G(X), Unreached(t, then, else))
  BY DEF JoinTail, G, F, E, N, boxes
<1> HIDE DEF G
<1>8. Tracks(s, G(V)) /\ Tracks(s, G(W))
  BY <1>2
<1>9. \A set : Flagged(G(V), set).at = Flagged(G(W), set).at
  BY <1>6, <1>8, SameFlagged
<1> QED
  BY <1>7, <1>9

\* Where no name is `return`, the order of the steps makes no difference.
LEMMA JoinsAgree ==
  ASSUME NEW s \in Scope, NEW t \in Tests,
         NEW then, ArmTyped(then), NEW else, ArmTyped(else), ReturnNames = {}
  PROVE  Join(Here(s), t, then, else).at = ClonedJoin(Here(s), t, then, else).at
<1> DEFINE W == Here(s)
           both == {"then", "else"}
           J == JoinHead(W, t, then, else)
           K == ClonedHead(W, t, then, else)
           F == ContinueNarrowing(K, t, s, then, else)
           refined == Refinements(t, s, then, else, Exits(t, s, s, then, else, both))
           other == Refinements(t, s, then, else, Exits(t, s, F.at, then, else, both))
<1>1. W.at = s /\ ArmTyped(s)
  BY DEF Here, ArmTyped, Scope
<1>2. SameArm(then, then) /\ SameArm(else, else)
  BY DEF SameArm
<1>3. refined = other
  <2>1. Exits(t, s, s, then, else, both) = Exits(t, s, F.at, then, else, both)
    BY <1>2, SameExits
  <2> QED
    BY <2>1
<1>4. TypesFor(refined)
  BY <1>1, RefinementsTyped DEF Bound, ArmTyped
<1>5. Join(W, t, then, else) = JoinTail(J, t, s, then, else, refined)
  <2>1. {w \in both : ReturnNames \cap (IF w = "then" THEN then ELSE else).names = {}}
          = both
    OBVIOUS
  <2>2. Join(W, t, then, else) = Joined(W, t, then, else, refined)
    BY <1>1, <2>1 DEF Join
  <2> HIDE DEF refined
  <2> QED
    BY <1>1, <2>2 DEF Joined, JoinTail, JoinHead, Wiped, Continuations
<1>6. ClonedJoin(W, t, then, else) = JoinTail(K, t, s, then, else, other)
  <2> DEFINE plain == {w \in both : \A r \in ReturnNames :
                         F.at.bind[r].type
                           = (IF w = "then" THEN then ELSE else).bind[r].type}
  <2>1. plain = both
    OBVIOUS
  <2> HIDE DEF plain
  <2>2. ClonedJoin(W, t, then, else)
          = JoinTail(K, t, s, then, else,
                     Refinements(t, s, then, else,
                                 Exits(t, s, F.at, then, else, plain)))
    BY <1>1 DEF ClonedJoin, JoinTail, ClonedHead, Wiped, Continuations, Uncertain, plain
  <2> QED
    BY <2>1, <2>2
<1>7. J.at = K.at /\ Tracks(s, J) /\ Tracks(s, K)
  BY HeadsAgree
<1> HIDE DEF J, K, W, refined, other
<1>8. JoinTail(J, t, s, then, else, refined).at = JoinTail(K, t, s, then, else, refined).at
  BY <1>1, <1>4, <1>7, SameTail
<1> QED
  BY <1>3, <1>5, <1>6, <1>8 DEF W

\* What a walk in cloned scopes keeps of an `if`
Seen(f) == [test |-> f.test, arm |-> f.arm, base |-> f.base, then |-> f.then]
Seens(fs) == [i \in DOMAIN fs |-> Seen(fs[i])]

LEMMA SeensFacts ==
  ASSUME NEW fs, IsLog(fs)
  PROVE  /\ IsLog(Seens(fs)) /\ Len(Seens(fs)) = Len(fs) /\ Len(fs) \in Nat
         /\ DOMAIN Seens(fs) = 1 .. Len(fs)
         /\ \A i \in 1 .. Len(fs) : Seens(fs)[i] = Seen(fs[i])
<1>1. DOMAIN fs = 1 .. Len(fs) /\ Len(fs) \in Nat
  BY LogFacts
<1>2. \A i \in 1 .. Len(fs) : Seens(fs)[i] = Seen(fs[i])
  BY <1>1 DEF Seens
<1> DEFINE S == {Seens(fs)[i] : i \in 1 .. Len(fs)}
<1>3. Seens(fs) \in [1 .. Len(fs) -> S]
  BY <1>1 DEF Seens
<1>4. Seens(fs) \in Seq(S)
  BY <1>1, <1>3
<1>5. Len(Seens(fs)) = Len(fs)
  BY <1>1, <1>3
<1> QED
  BY <1>1, <1>2, <1>3, <1>4, <1>5 DEF IsLog

LEMMA SameLogs ==
  ASSUME NEW L, NEW M, IsLog(L), IsLog(M), Len(L) = Len(M),
         \A i \in 1 .. Len(L) : L[i] = M[i]
  PROVE  L = M
<1>1. PICK S : L \in Seq(S)
  BY DEF IsLog
<1>2. PICK T : M \in Seq(T)
  BY DEF IsLog
<1>3. /\ L \in [1 .. Len(L) -> S] /\ M \in [1 .. Len(L) -> T]
  BY <1>1, <1>2
<1> QED
  BY <1>3

LEMMA SeensAppend ==
  ASSUME NEW fs, NEW f, IsLog(fs)
  PROVE  Seens(Append(fs, f)) = Append(Seens(fs), Seen(f))
<1> DEFINE L == Append(fs, f)
           M == Append(Seens(fs), Seen(f))
<1>1. /\ IsLog(L) /\ Len(fs) \in Nat /\ Len(L) = Len(fs) + 1 /\ L[Len(fs) + 1] = f
      /\ \A i \in 1 .. Len(fs) : L[i] = fs[i]
  BY LogAppend
<1>2. /\ IsLog(Seens(fs)) /\ Len(Seens(fs)) = Len(fs)
      /\ \A i \in 1 .. Len(fs) : Seens(fs)[i] = Seen(fs[i])
  BY SeensFacts
<1>3. /\ IsLog(M) /\ Len(M) = Len(fs) + 1 /\ M[Len(fs) + 1] = Seen(f)
      /\ \A i \in 1 .. Len(fs) : M[i] = Seens(fs)[i]
  BY <1>2, LogAppend
<1> HIDE DEF L, M
<1>4. /\ IsLog(Seens(L)) /\ Len(Seens(L)) = Len(fs) + 1
      /\ \A i \in 1 .. Len(fs) + 1 : Seens(L)[i] = Seen(L[i])
  BY <1>1, SeensFacts
<1>5. \A i \in 1 .. Len(fs) + 1 : Seens(L)[i] = M[i]
  BY <1>1, <1>2, <1>3, <1>4
<1>6. Seens(L) = M
  BY <1>3, <1>4, <1>5, SameLogs
<1> QED
  BY <1>6 DEF L, M

LEMMA SeensPrefix ==
  ASSUME NEW fs, IsLog(fs), NEW n \in Nat, n <= Len(fs)
  PROVE  Seens(SubSeq(fs, 1, n)) = SubSeq(Seens(fs), 1, n)
<1> DEFINE L == SubSeq(fs, 1, n)
           M == SubSeq(Seens(fs), 1, n)
<1>1. /\ IsLog(L) /\ Len(L) = n /\ \A i \in 1 .. n : L[i] = fs[i]
  BY LogPrefix
<1>2. /\ IsLog(Seens(fs)) /\ Len(Seens(fs)) = Len(fs) /\ Len(fs) \in Nat
      /\ \A i \in 1 .. Len(fs) : Seens(fs)[i] = Seen(fs[i])
  BY SeensFacts
<1>3. /\ IsLog(M) /\ Len(M) = n /\ \A i \in 1 .. n : M[i] = Seens(fs)[i]
  BY <1>2, LogPrefix
<1> HIDE DEF L, M
<1>4. /\ IsLog(Seens(L)) /\ Len(Seens(L)) = n
      /\ \A i \in 1 .. n : Seens(L)[i] = Seen(L[i])
  BY <1>1, SeensFacts
<1>5. \A i \in 1 .. n : Seens(L)[i] = M[i]
  BY <1>1, <1>2, <1>3, <1>4
<1>6. Seens(L) = M
  BY <1>3, <1>4, <1>5, SameLogs
<1> QED
  BY <1>6 DEF L, M

LEMMA SeensReplace ==
  ASSUME NEW fs, IsLog(fs), NEW n \in 1 .. Len(fs), NEW g
  PROVE  Seens([fs EXCEPT ![n] = g]) = [Seens(fs) EXCEPT ![n] = Seen(g)]
<1>1. DOMAIN fs = 1 .. Len(fs)
  BY LogFacts
<1> QED
  BY <1>1 DEF Seens

\* The refinement mapping
LEMMA CloneStart == JournalInit => Clone!Init
  BY DEF JournalInit, Clone!Init, Rolling, NoDelta

LEMMA CloneWrite == ASSUME Write PROVE Clone!Write
  BY DEF Write, Clone!Write, Commit, Walking, Clone!Walking, Rolling, Clone!Top, Top

LEMMA CloneTop ==
  ASSUME JournalInv, frames # <<>>
  PROVE  /\ Seens(frames) # <<>> /\ Len(Seens(frames)) = Len(frames)
         /\ Seens(frames)[Len(Seens(frames))] = Seen(Top)
<1>1. IsLog(frames) /\ Len(frames) \in Nat /\ Len(frames) >= 1
  BY TopFacts
<1> QED
  BY <1>1, SeensFacts, LogFacts DEF Top

LEMMA CloneEnterIf == ASSUME JournalInv, EnterIf PROVE Clone!EnterIf
<1>1. IsLog(frames)
  BY DEF JournalInv, Framed
<1>2. /\ Len(Seens(frames)) = Len(frames)
      /\ Seens(frames) = <<>> <=> frames = <<>>
  BY <1>1, SeensFacts, LogFacts
<1>3. PICK t \in InitialTests :
        /\ frames' = Append(frames,
                [test |-> t, arm |-> "then", len |-> Len(undo),
                 flags |-> scope.flags, failed |-> scope.failed,
                 changed |-> None, armFlags |-> {}, armFailed |-> {},
                 base |-> scope, then |-> scope])
        /\ scope' = EnterArm(scope, t, "then").at
  BY DEF EnterIf, Commit
<1> DEFINE f == [test |-> t, arm |-> "then", len |-> Len(undo),
                 flags |-> scope.flags, failed |-> scope.failed,
                 changed |-> None, armFlags |-> {}, armFailed |-> {},
                 base |-> scope, then |-> scope]
<1>4. Seens(frames)' = Append(Seens(frames), [test |-> t, arm |-> "then",
                                              base |-> scope, then |-> scope])
  <2>1. Seens(frames)' = Seens(frames')
    BY DEF Seens, Seen
  <2>2. Seen(f) = [test |-> t, arm |-> "then", base |-> scope, then |-> scope]
    BY DEF Seen
  <2> HIDE DEF f
  <2>3. Seens(frames') = Append(Seens(frames), Seen(f))
    BY <1>1, <1>3, SeensAppend DEF f
  <2> QED
    BY <2>1, <2>2, <2>3
<1>5. /\ ~ Rolling /\ delta' = delta /\ steps.ifs < MaxIfs /\ Len(frames) < MaxDepth
      /\ steps' = [steps EXCEPT !.ifs = @ + 1]
      /\ frames # <<>> => Top.arm = "then" \/ Top.test.else
  BY DEF EnterIf, Walking
<1>6. Clone!Walking
  <2>1. frames # <<>> => /\ Seens(frames)[Len(Seens(frames))].arm = Top.arm
                         /\ Seens(frames)[Len(Seens(frames))].test = Top.test
    BY CloneTop DEF Seen
  <2> QED
    BY <1>2, <1>5, <2>1 DEF Clone!Walking, Clone!Top, Seens, Seen
<1>7. ~ Rolling'
  BY <1>5 DEF Rolling
<1>8. Len(Seens(frames)) < MaxDepth
  BY <1>2, <1>5
<1> DEFINE at == IF Rolling THEN delta.final ELSE scope
<1>9. at = scope /\ at' = scope'
  BY <1>5, <1>7
<1>10. /\ Seens(frames)' = Append(Seens(frames), [test |-> t, arm |-> "then",
                                                   base |-> at, then |-> at])
       /\ at' = EnterArm(at, t, "then").at
  BY <1>3, <1>4, <1>9
<1> HIDE DEF f
<1>11. /\ Clone!Walking /\ steps.ifs < MaxIfs /\ Len(Seens(frames)) < MaxDepth
       /\ \E t_1 \in InitialTests :
             /\ Seens(frames)' = Append(Seens(frames), [test |-> t_1, arm |-> "then",
                                                        base |-> at, then |-> at])
             /\ at' = EnterArm(at, t_1, "then").at
       /\ steps' = [steps EXCEPT !.ifs = @ + 1]
  BY <1>5, <1>6, <1>8, <1>10
<1> QED
  BY <1>11, Zenon DEF Clone!EnterIf, Seens, Seen

LEMMA SeenElse ==
  ASSUME NEW f, NEW s
  PROVE  [Seen(f) EXCEPT !.arm = "else", !.then = s]
           = [test |-> f.test, arm |-> "else", base |-> f.base, then |-> s]
<1> DEFINE V == [test : {f.test}, arm : {f.arm}, base : {f.base}, then : {f.then}]
           X == [test : {f.test}, arm : {"else"}, base : {f.base}, then : {s}]
<1>1. \A v \in V : [v EXCEPT !.arm = "else", !.then = s] \in X
  OBVIOUS
<1>2. Seen(f) \in V
  BY DEF Seen
<1>3. \A x \in X : x = [test |-> f.test, arm |-> "else", base |-> f.base, then |-> s]
  OBVIOUS
<1> HIDE DEF V, X
<1>4. [Seen(f) EXCEPT !.arm = "else", !.then = s] \in X
  BY <1>1, <1>2, Zenon
<1> QED
  BY <1>3, <1>4, Zenon

LEMMA CloneNextArm == ASSUME JournalInv, NextArm PROVE Clone!NextArm
<1> DEFINE n == Len(frames)
           g == [Top EXCEPT !.arm = "else", !.changed = delta.changed,
                            !.armFlags = delta.flags, !.armFailed = delta.failed,
                            !.then = delta.final]
           at == IF Rolling THEN delta.final ELSE scope
<1>1. /\ Rolling /\ Len(undo) = Top.len /\ Top.arm = "then"
      /\ frames' = [frames EXCEPT ![n] = g]
      /\ scope' = EnterArm(Unmarked, Top.test, "else").at
      /\ delta' = NoDelta /\ steps' = steps
  BY DEF NextArm, Commit, Top
<1>2. frames # <<>>
  BY <1>1 DEF JournalInv
<1>3. Unmarked = Top.base
  BY <1>1, <1>2, UnmarkedIsBase
<1>4. IsLog(frames) /\ n \in Nat /\ n >= 1 /\ FrameShaped(Top)
  BY <1>2, TopFacts DEF FrameOK
<1>5. /\ Seens(frames) # <<>> /\ Len(Seens(frames)) = n
      /\ Seens(frames)[Len(Seens(frames))] = Seen(Top)
  BY <1>2, CloneTop
<1>6. /\ Seen(Top).arm = Top.arm /\ Seen(Top).base = Top.base
      /\ Seen(Top).test = Top.test
  BY DEF Seen
<1>7. Seen(g) = [Seen(Top) EXCEPT !.arm = "else", !.then = delta.final]
  <2>1. /\ g.test = Top.test /\ g.arm = "else" /\ g.base = Top.base
        /\ g.then = delta.final
    BY <1>4 DEF FrameShaped
  <2>2. Seen(g) = [test |-> Top.test, arm |-> "else", base |-> Top.base,
                   then |-> delta.final]
    BY <2>1 DEF Seen
  <2>3. [Seen(Top) EXCEPT !.arm = "else", !.then = delta.final]
          = [test |-> Top.test, arm |-> "else", base |-> Top.base, then |-> delta.final]
    BY SeenElse
  <2> QED
    BY <2>2, <2>3
<1> HIDE DEF g
<1>8. at = delta.final /\ at' = scope'
  BY <1>1 DEF Rolling, NoDelta
<1>9. Seens(frames)' = [Seens(frames) EXCEPT ![n] =
                          [Seen(Top) EXCEPT !.arm = "else", !.then = at]]
  <2>1. Seens(frames)' = Seens(frames')
    BY DEF Seens, Seen
  <2>2. n \in 1 .. Len(frames)
    BY <1>4
  <2>3. Seens([frames EXCEPT ![n] = g]) = [Seens(frames) EXCEPT ![n] = Seen(g)]
    BY <1>4, <2>2, SeensReplace
  <2> QED
    BY <1>1, <1>7, <1>8, <2>1, <2>3
<1> HIDE DEF n
<1>10. /\ Seens(frames) # <<>>
       /\ Seens(frames)[Len(Seens(frames))].arm = "then"
       /\ Seens(frames)' = [Seens(frames) EXCEPT ![Len(Seens(frames))] =
             [Seens(frames)[Len(Seens(frames))] EXCEPT !.arm = "else", !.then = at]]
       /\ at' = EnterArm(Seens(frames)[Len(Seens(frames))].base,
                         Seens(frames)[Len(Seens(frames))].test, "else").at
       /\ steps' = steps
  BY <1>1, <1>3, <1>5, <1>6, <1>8, <1>9
<1> QED
  BY <1>10, Zenon DEF Clone!NextArm, Clone!Top, Seens, Seen

LEMMA CloneJoinArms ==
  ASSUME JournalInv, JoinArms, ReturnNames = {} PROVE Clone!JoinArms
<1> DEFINE n == Len(frames)
           thenArm == Arm(Top.changed, Top.armFlags, Top.armFailed)
           elseArm == Arm(delta.changed, delta.flags, delta.failed)
           at == IF Rolling THEN delta.final ELSE scope
<1>1. /\ Rolling /\ Len(undo) = Top.len /\ Top.arm = "else"
      /\ frames' = SubSeq(frames, 1, n - 1)
      /\ scope' = Join(Here(Unmarked), Top.test, thenArm, elseArm).at
      /\ delta' = NoDelta /\ steps' = steps
  BY DEF JoinArms, Commit
<1>2. frames # <<>> /\ scope \in Scope
  BY <1>1 DEF JournalInv
<1>3. Unmarked = Top.base /\ scope.bind = Top.base.bind
  BY <1>1, <1>2, UnmarkedIsBase
<1>4. IsLog(frames) /\ n \in Nat /\ n >= 1 /\ FrameOK(Top, undo, scope)
  BY <1>2, TopFacts
<1>5. SameArm(thenArm, Top.then)
  BY <1>1, <1>2, <1>3, <1>4, MatchesSame DEF FrameOK, Arm
<1>6. SameArm(elseArm, delta.final)
  <2>1. /\ delta.final \in Scope /\ Top.base \in Scope
        /\ Matches(delta.changed, delta.flags, delta.failed, Top.base, delta.final)
    BY <1>1, <1>4 DEF JournalInv, FrameOK
  <2> QED
    BY <1>2, <1>3, <2>1, MatchesSame DEF Arm
<1>7. Top.test \in Tests
  BY <1>4, WalkAssumption DEF FrameOK
<1> HIDE DEF thenArm, elseArm
<1>8. Join(Here(Unmarked), Top.test, thenArm, elseArm).at
        = ClonedJoin(Here(Top.base), Top.test, Top.then, delta.final).at
  <2>1. Join(Here(Unmarked), Top.test, thenArm, elseArm)
          = Join(Here(Top.base), Top.test, Top.then, delta.final)
    BY <1>3, <1>5, <1>6, <1>7, SameJoin
  <2>2. Top.base \in Scope /\ Top.then \in Scope /\ delta.final \in Scope
    BY <1>1, <1>4 DEF JournalInv, FrameOK
  <2>3. ArmTyped(Top.then) /\ ArmTyped(delta.final)
    BY <2>2 DEF ArmTyped, Scope
  <2> QED
    BY <1>7, <2>1, <2>2, <2>3, JoinsAgree
<1>9. at = delta.final /\ at' = scope'
  BY <1>1 DEF Rolling, NoDelta
<1>10. /\ Seens(frames) # <<>> /\ Len(Seens(frames)) = n
       /\ Seens(frames)[Len(Seens(frames))] = Seen(Top)
  BY <1>2, CloneTop
<1>11. /\ Seen(Top).arm = Top.arm /\ Seen(Top).base = Top.base
       /\ Seen(Top).test = Top.test /\ Seen(Top).then = Top.then
  BY DEF Seen
<1>12. Seens(frames)' = SubSeq(Seens(frames), 1, n - 1)
  <2>1. Seens(frames)' = Seens(frames')
    BY DEF Seens, Seen
  <2>2. n - 1 \in Nat /\ n - 1 <= Len(frames)
    BY <1>4
  <2> QED
    BY <1>1, <1>4, <2>1, <2>2, SeensPrefix
<1> HIDE DEF n
<1>13. /\ Seens(frames) # <<>>
       /\ Seens(frames)[Len(Seens(frames))].arm = "else"
       /\ Seens(frames)' = SubSeq(Seens(frames), 1, Len(Seens(frames)) - 1)
       /\ at' = ClonedJoin(Here(Seens(frames)[Len(Seens(frames))].base),
                           Seens(frames)[Len(Seens(frames))].test,
                           Seens(frames)[Len(Seens(frames))].then, at).at
       /\ steps' = steps
  BY <1>1, <1>8, <1>9, <1>10, <1>11, <1>12
<1> QED
  BY <1>13, Zenon DEF Clone!JoinArms, Clone!Top, Seens, Seen

\* Capturing a delta and popping records leave the cloned scopes alone.
LEMMA CloneStutters ==
  ASSUME JournalInv, FinishArm \/ PopRecord \/ UNCHANGED journalVars
  PROVE  UNCHANGED Clone!absVars
<1>1. CASE FinishArm
  <2>1. ~ Rolling /\ delta'.final = scope /\ frames' = frames /\ steps' = steps
    BY <1>1 DEF FinishArm
  <2>2. Rolling'
    BY <2>1, WalkAssumption DEF JournalInv, Rolling
  <2> QED
    BY <2>1, <2>2 DEF Clone!absVars
<1>2. CASE PopRecord
  BY <1>2 DEF PopRecord, Rolling, Clone!absVars
<1>3. CASE UNCHANGED journalVars
  BY <1>3 DEF journalVars, Rolling, Clone!absVars
<1> QED
  BY <1>1, <1>2, <1>3

LEMMA CloneStep ==
  ASSUME JournalInv, [JournalNext]_journalVars, ReturnNames = {}
  PROVE  [Clone!Next]_(Clone!absVars)
  BY CloneWrite, CloneEnterIf, CloneNextArm, CloneJoinArms, CloneStutters
     DEF JournalNext, Clone!Next

(* Walking both arms in one scope, with the journal undoing the first, is  *)
(* walking each in a clone and joining in the reference's own order: every *)
(* step of the checker's walk is a step of the reference walk, or changes  *)
(* nothing that it has.  It assumes that no name of the walk spells        *)
(* `return`: of the rebinding of `return` the two read different tables.   *)
THEOREM JournalMatchesClones ==
  ASSUME ReturnNames = {} PROVE JournalSpec => MatchesClones
<1>1. JournalInv /\ [JournalNext]_journalVars => [Clone!Next]_(Clone!absVars)
  BY CloneStep
<1> QED
  BY <1>1, CloneStart, JournalAlways, PTL DEF JournalSpec, MatchesClones, Clone!Spec
===============================================================================
