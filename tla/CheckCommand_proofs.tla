------------------------- MODULE CheckCommand_proofs -------------------------
(***************************************************************************)
(* Proofs about CheckCommand, and about the loop and the report that it is *)
(* made of (BoxModules_proofs has those about the checkers).               *)
(*                                                                         *)
(* The loop, for any sources, texts and number of edits.  What a poll      *)
(* would find unchanged has been read in its present form: the invariant   *)
(* says so of the configuration's inputs (Loaded), of the state that the   *)
(* printed result was computed from (Current) and of the sources (Read).   *)
(* It needs that no input changes while it is loaded.                      *)
(*                                                                         *)
(* The report, for any files, lines, options and number of edits.  What a  *)
(* run finds of one kind in a file is one finding for each line that       *)
(* deserves it (PipelineFindings), and the baseline takes as many of them, *)
(* in the order of their lines, as were recorded (RankCount).              *)
(***************************************************************************)
EXTENDS CheckCommand, Integers, FiniteSetTheorems, TLAPS

(***************************************************************************)
(* WatchLoop: what is read of the disk.                                    *)
(***************************************************************************)


\* The baseline in force is the one on disk, unless that one is broken.
BaselineLoaded ==
    IF cfg.baseline
    THEN /\ Loads(disk.base) => baseline = disk.base
         /\ disk.base = Missing /\ ~ baselineFromCli => baseline = Missing
    ELSE baseline = Missing

CfgLoaded == Parses(disk.toml) /\ cfg = Load(disk.toml)

\* While the inputs are being read, those read so far
Reading ==
    /\ pc \in {"baseline", "stubs", "scan", "snapshot", "reloadStubs",
               "reloadBaseline"} => CfgLoaded
    /\ pc \in {"scan", "snapshot", "reloadBaseline"} => stubs = disk.stub
    /\ pc \in {"discover", "baseline"} => baseline = Missing
    /\ pc \in {"stubs", "scan", "snapshot"} => BaselineLoaded
    /\ pc = "restamp" /\ Parses(disk.toml) =>
          CfgLoaded /\ stubs = disk.stub /\ BaselineLoaded

\* Afterwards, those not written since; a broken ry.toml hides the others.
Loaded ==
    pc \in {"check", "sleep", "rescan", "compare"} /\ "toml" \notin edited
        /\ Parses(disk.toml) =>
        /\ cfg = Load(disk.toml)
        /\ "stub" \notin edited => stubs = disk.stub
        /\ "base" \notin edited \/ ~ cfg.baseline => BaselineLoaded

\* The last result was computed from the state in force, or a check is due.
Current ==
    /\ pc = "sleep" \/ (pc \in {"rescan", "compare"} /\ ~ configChanged) =>
          report = [cfg |-> cfg, baseline |-> baseline, stubs |-> stubs,
                    text |-> report.text, meta |-> report.meta]
    /\ pc \in {"reload", "reloadStubs", "reloadBaseline", "restamp"} =>
          configChanged

\* It was computed from the sources stamped, where they are unwritten since.
Read ==
    /\ pc = "check" => stamped = paths
    /\ pc \in {"sleep", "reload", "reloadStubs", "reloadBaseline", "restamp",
               "rescan", "compare"} =>
          /\ report.text = [s \in stamped |-> report.text[s]]
          /\ \A s \in stamped \ sourceEdited : report.text[s] = disk.src[s]
          /\ "meta" \notin sourceEdited => report.meta = disk.meta

LoopInv == LoopTypeOK /\ Reading /\ Loaded /\ Current /\ Read

-----------------------------------------------------------------------------
(* Types                                                                   *)

(* What discover and merge_cli return is a configuration.                  *)
LEMMA LoadType == ASSUME NEW toml \in Tomls PROVE Load(toml) \in Configs
  <1>1. toml.sets \in Configs
    <2>1. DefaultConfig \in Configs
      BY WatchAssumption DEF Configs, DefaultConfig
    <2> QED
      BY <2>1 DEF Tomls
  <1>2. (toml.sets.baseline \/ baselineFromCli) \in BOOLEAN
    OBVIOUS
  <1>3. toml.sets.exclude \in Excludes
    BY <1>1 DEF Configs
  <1> QED
    BY <1>2, <1>3, Zenon DEF Load, Configs

(* An edit of any input leaves a well-typed disk.                          *)
LEMMA EditType ==
  ASSUME disk \in Disk, Edits
  PROVE  disk' \in Disk
  BY DEF Edits, EditInput, EditSource, EditMetadata, Disk

(* Initially every variable has its type.                                  *)
LEMMA InitType == LoopInit => LoopTypeOK
  <1>1. DefaultConfig \in Configs
    BY WatchAssumption DEF Configs, DefaultConfig
  <1>2. Budget \in 0 .. Budget
    BY WatchAssumption
  <1>3. ASSUME LoopInit
        PROVE  /\ pc \in Points /\ stubs \in Texts0
               /\ baseline \in Entries \cup {Missing}
    BY <1>3 DEF LoopInit, Points, Texts0
  <1> QED
    BY <1>1, <1>2, <1>3, Zenon DEF LoopInit, LoopTypeOK

(* A step of the loop keeps the types.                                     *)
LEMMA LoopType == ASSUME LoopTypeOK, Loop PROVE LoopTypeOK'
  <1> USE DEF LoopTypeOK, Points, files, state, locals
  <1> UNCHANGED baselineFromCli
    BY DEF Loop
  <1>0. disk.toml \in Tomls /\ disk.stub \in Texts /\ Texts \subseteq Texts0
    BY DEF Disk, Texts0
  <1>1. CASE DiscoverConfig
    BY <1>1, <1>0, LoadType DEF DiscoverConfig
  <1>2. CASE LoadBaseline
    BY <1>2 DEF LoadBaseline, Loads
  <1>3. CASE LoadUserStubs \/ ReloadStubs
    BY <1>3, <1>0 DEF LoadUserStubs, ReloadStubs
  <1>4. CASE Scan \/ RescanSources
    BY <1>4 DEF Scan, RescanSources, Rescan
  <1>5. CASE Snapshot \/ Poll \/ Restamp
    BY <1>5 DEF Snapshot, Poll, Restamp
  <1>6. CASE Reload
    BY <1>6, <1>0, LoadType DEF Reload
  <1>7. CASE ReloadBaseline
    BY <1>7 DEF ReloadBaseline, Loads
  <1>8. CASE Compare \/ RunCheck
    BY <1>8 DEF Compare, RunCheck
  <1> QED
    BY <1>1, <1>2, <1>3, <1>4, <1>5, <1>6, <1>7, <1>8 DEF Loop

(* An edit keeps the types.                                                *)
LEMMA EditsType == ASSUME LoopTypeOK, Edits PROVE LoopTypeOK'
  <1>1. disk' \in Disk
    BY EditType DEF LoopTypeOK
  <1>2. budget' \in 0 .. Budget
    BY WatchAssumption DEF LoopTypeOK, Edits, EditInput, EditSource, EditMetadata, Edit
  <1>3. UNCHANGED <<pc, baselineFromCli, state, stamped, locals, report>>
    BY DEF Edits, EditInput, EditSource, EditMetadata, Edit
  <1>4. /\ edited' \subseteq {"toml", "base", "stub"}
        /\ sourceEdited' \subseteq Sources \cup {"meta"}
    BY DEF LoopTypeOK, Edits, EditInput, EditSource, EditMetadata
  <1> QED
    BY <1>1, <1>2, <1>3, <1>4 DEF LoopTypeOK, state, locals

(* Every variable keeps its type in every reachable state.                 *)
THEOREM LoopTypeCorrect == LoopSpec => []LoopTypeOK
  <1>1. LoopTypeOK /\ UNCHANGED loopVars => LoopTypeOK'
    BY DEF LoopTypeOK, loopVars, files, state, locals
  <1> QED
    BY <1>1, InitType, LoopType, EditsType, PTL DEF LoopSpec, LoopNext

-----------------------------------------------------------------------------
(* What a poll would find unchanged                                        *)

(* Initially nothing has been read.                                        *)
LEMMA InitRead == LoopInit => Reading /\ Loaded /\ Current /\ Read
  BY DEF LoopInit, Reading, Loaded, Current, Read

(* Each step of the startup reads one more input, and none is edited.      *)
LEMMA StartupRead ==
  ASSUME LoopInv, UNCHANGED baselineFromCli,
        DiscoverConfig \/ LoadBaseline \/ LoadUserStubs \/ Scan \/ Snapshot
  PROVE  Reading' /\ Loaded' /\ Current' /\ Read'
  <1> USE DEF LoopInv, Reading, Loaded, Current, Read, CfgLoaded, Load, BaselineLoaded,
              files, state, locals
  <1>1. CASE DiscoverConfig
    BY <1>1 DEF DiscoverConfig
  <1>2. CASE LoadBaseline
    BY <1>2 DEF LoadBaseline
  <1>3. CASE LoadUserStubs
    BY <1>3 DEF LoadUserStubs
  <1>4. CASE Scan
    BY <1>4 DEF Scan, Rescan
  <1>5. CASE Snapshot
    BY <1>5 DEF Snapshot
  <1> QED
    BY <1>1, <1>2, <1>3, <1>4, <1>5

(* A poll goes on to a reload, or has found no input changed.              *)
LEMMA PollRead ==
  ASSUME LoopInv, UNCHANGED baselineFromCli,
        Poll
  PROVE  Reading' /\ Loaded' /\ Current' /\ Read'
  BY DEF Poll, LoopInv, Reading, Loaded, Current, Read, CfgLoaded, Load, BaselineLoaded,
         files, state, locals

(* A reload reads every input, or keeps them when ry.toml is broken.       *)
LEMMA ReloadRead ==
  ASSUME LoopInv, UNCHANGED baselineFromCli,
        Reload \/ ReloadStubs \/ ReloadBaseline \/ Restamp
  PROVE  Reading' /\ Loaded' /\ Current' /\ Read'
  <1> USE DEF LoopInv, Reading, Loaded, Current, Read, CfgLoaded, Load, BaselineLoaded,
              files, state, locals
  <1>1. CASE Reload
    BY <1>1 DEF Reload
  <1>2. CASE ReloadStubs
    BY <1>2 DEF ReloadStubs
  <1>3. CASE ReloadBaseline
    BY <1>3, WatchAssumption DEF ReloadBaseline, Loads, Missing
  <1>4. CASE Restamp
    BY <1>4 DEF Restamp
  <1> QED
    BY <1>1, <1>2, <1>3, <1>4

(* The pass over the sources ends with a result of what is there.          *)
LEMMA CheckRead ==
  ASSUME LoopInv, UNCHANGED baselineFromCli,
        RescanSources \/ Compare \/ RunCheck
  PROVE  Reading' /\ Loaded' /\ Current' /\ Read'
  <1> USE DEF LoopInv, Reading, Loaded, Current, Read, CfgLoaded, Load, BaselineLoaded,
              files, state, locals
  <1>1. CASE RescanSources
    BY <1>1 DEF RescanSources, Rescan
  <1>2. CASE Compare
    <2>1. UNCHANGED <<files, state, edited, locals, report>> /\ stamped' = paths
      BY <1>2 DEF Compare
    <2>2. CASE pc' = "check"
      BY <1>2, <2>1, <2>2 DEF Compare
    <2>3. CASE pc' = "sleep"
      <3>1. /\ pc = "compare" /\ ~ configChanged /\ paths = stamped
            /\ sourceEdited \cap (paths \cup {"meta"}) = {}
        BY <1>2, <2>3 DEF Compare
      <3>2. Reading' /\ Loaded' /\ Current'
        BY <2>1, <2>3, <3>1
      <3>3. \A s \in stamped : report.text[s] = disk.src[s]
        BY <3>1
      <3>4. report.meta = disk.meta
        BY <3>1
      <3>5. report.text = [s \in stamped |-> report.text[s]]
        BY <3>1
      <3>6. Read'
        BY <2>1, <2>3, <3>1, <3>3, <3>4, <3>5
      <3> QED
        BY <3>2, <3>6
    <2> QED
      BY <1>2, <2>2, <2>3 DEF Compare
  <1>3. CASE RunCheck
    BY <1>3 DEF RunCheck
  <1> QED
    BY <1>1, <1>2, <1>3

(* An edit of an input falls outside the loads and marks it; an edit of a  *)
(* source or of the metadata marks that one only.                          *)
LEMMA EditsRead ==
  ASSUME LoopInv, Edits, EarlyEdits = FALSE
  PROVE  Reading' /\ Loaded' /\ Current' /\ Read'
  <1> USE DEF LoopInv, CfgLoaded, Load, files, state, locals
  <1>0. UNCHANGED <<pc, baselineFromCli, state, stamped, locals, report>>
    BY DEF Edits, EditInput, EditSource, EditMetadata, Edit
  <1>1. CASE \/ \E new \in Tomls : EditInput("toml", new)
             \/ \E new \in Baselines : EditInput("base", new)
             \/ \E new \in Texts : EditInput("stub", new)
    <2>0. PICK input \in {"toml", "base", "stub"} : \E new : EditInput(input, new)
      BY <1>1
    <2>1. PICK new : EditInput(input, new)
      BY <2>0
    <2>2. /\ disk'.src = disk.src /\ disk'.meta = disk.meta
          /\ \A other \in {"toml", "base", "stub"} \ {input} :
                disk'[other] = disk[other]
          /\ edited' = edited \cup {input} /\ UNCHANGED sourceEdited
          /\ pc \notin LoadPoints
      BY <2>1 DEF EditInput, LoopTypeOK, Disk
    <2>3. Reading'
      BY <2>2, <1>0 DEF Reading, LoadPoints
    <2>4. Loaded'
      BY <2>1, <2>2, <1>0 DEF Loaded, BaselineLoaded
    <2>5. Current' /\ Read'
      BY <2>2, <1>0 DEF Current, Read
    <2> QED
      BY <2>3, <2>4, <2>5
  <1>2. CASE \E s \in Sources, new \in Texts0 : EditSource(s, new)
    <2>1. PICK s \in Sources, new \in Texts0 : EditSource(s, new)
      BY <1>2
    <2>2. /\ disk'.toml = disk.toml /\ disk'.base = disk.base
          /\ disk'.stub = disk.stub /\ disk'.meta = disk.meta
          /\ \A t \in Sources \ {s} : disk'.src[t] = disk.src[t]
          /\ sourceEdited' = sourceEdited \cup {s} /\ UNCHANGED edited
      BY <2>1 DEF EditSource, LoopTypeOK, Disk
    <2>3. Reading' /\ Loaded' /\ Current'
      BY <2>2, <1>0 DEF Reading, Loaded, Current, CfgLoaded, Load, BaselineLoaded
    <2>4. Read'
      BY <2>2, <1>0 DEF Read, LoopTypeOK
    <2> QED
      BY <2>3, <2>4
  <1>3. CASE \E new \in Texts0 : EditMetadata(new)
    <2>1. /\ disk'.toml = disk.toml /\ disk'.base = disk.base
          /\ disk'.stub = disk.stub /\ disk'.src = disk.src
          /\ sourceEdited' = sourceEdited \cup {"meta"} /\ UNCHANGED edited
      BY <1>3 DEF EditMetadata, LoopTypeOK, Disk
    <2> QED
      BY <2>1, <1>0
      DEF Reading, Loaded, Current, Read, CfgLoaded, Load, BaselineLoaded
  <1> QED
    BY <1>1, <1>2, <1>3 DEF Edits

(* The invariant gives the property: what a poll would find unchanged is   *)
(* what the result was computed from.                                      *)
LEMMA InvUpToDate == LoopInv => UpToDate
  <1> SUFFICES ASSUME LoopInv, Unchanged, Sound PROVE report = FreshReport
    BY DEF UpToDate
  <1> DEFINE c == Load(disk.toml)
  <1>1. cfg = c
    BY DEF LoopInv, Loaded, Unchanged, ConfigInputs, Sound
  <1>2. stubs = disk.stub
    BY DEF LoopInv, Loaded, Unchanged, ConfigInputs, Sound
  <1>3. baseline = IF c.baseline THEN disk.base ELSE Missing
    <2>1. BaselineLoaded
      BY DEF LoopInv, Loaded, Unchanged, ConfigInputs, Sound
    <2> QED
      BY <2>1, <1>1 DEF BaselineLoaded, Sound
  <1>4. report.text = [s \in Rescan(c, disk.src) |-> disk.src[s]]
    BY <1>1 DEF LoopInv, Read, Unchanged
  <1>5. report.meta = disk.meta
    BY DEF LoopInv, Read, Unchanged
  <1>6. report = [cfg |-> cfg, baseline |-> baseline, stubs |-> stubs,
                  text |-> report.text, meta |-> report.meta]
    BY DEF LoopInv, Current, Unchanged
  <1> QED
    BY <1>1, <1>2, <1>3, <1>4, <1>5, <1>6, Zenon DEF FreshReport

(* While no input changes as it is loaded, what a poll would find          *)
(* unchanged is reported as a fresh run would (run_check's loop).          *)
THEOREM PollsMissNothing ==
  ASSUME EarlyEdits = FALSE
  PROVE  LoopSpec => []UpToDate
  <1>1. LoopInit => LoopInv
    BY InitType, InitRead DEF LoopInv
  <1>2. LoopInv /\ [LoopNext]_loopVars => LoopInv'
    <2> SUFFICES ASSUME LoopInv, [LoopNext]_loopVars PROVE LoopInv'
      OBVIOUS
    <2>1. CASE Loop
      BY <2>1, LoopType, StartupRead, PollRead, ReloadRead, CheckRead
      DEF Loop, LoopInv
    <2>2. CASE Edits
      BY <2>2, EditsType, EditsRead DEF LoopInv
    <2>3. CASE UNCHANGED loopVars
      BY <2>3 DEF LoopInv, LoopTypeOK, Reading, Loaded, Current, Read, CfgLoaded, Load,
                  BaselineLoaded, loopVars, files, state, locals
    <2> QED
      BY <2>1, <2>2, <2>3 DEF LoopNext
  <1> QED
    BY <1>1, <1>2, InvUpToDate, PTL DEF LoopSpec


-----------------------------------------------------------------------------
(***************************************************************************)
(* Counting.                                                               *)
(***************************************************************************)

\* A set of numbers has a least one.
LEMMA LeastNumber ==
  ASSUME NEW S \in SUBSET Nat, S # {}
  PROVE  Min(S) \in S
<1> DEFINE Below(n) == {k \in S : k <= n}
           T == {Below(n) : n \in S}
<1>1. \A n \in S : Below(n) \in FiniteSubsetsOf(S)
  <2>1. ASSUME NEW n \in S PROVE IsFiniteSet(Below(n))
    <3>1. IsFiniteSet(0 .. n)
      BY FS_Interval
    <3>2. n \in Nat /\ \A k \in Below(n) : k \in 0 .. n
      <4>1. n \in Nat
        OBVIOUS
      <4> QED BY <4>1
    <3>3. Below(n) \in SUBSET (0 .. n)
      BY <3>2
    <3> QED BY <3>1, <3>3, FS_Subset
  <2> QED BY <2>1 DEF FiniteSubsetsOf
<1>2. PICK x \in T : \A y \in T : <<y, x>> \notin StrictSubsetOrdering(S)
  <2>1. T \subseteq FiniteSubsetsOf(S) /\ T # {}
    BY <1>1
  <2> HIDE DEF T
  <2> QED BY <2>1, FS_StrictSubsetOrderingWellFounded, WFMin
<1>3. PICK m \in S : x = Below(m)
  BY <1>2
<1>4. ASSUME NEW n \in S PROVE m <= n
  <2>1. SUFFICES ASSUME n < m PROVE FALSE
    OBVIOUS
  <2>2. Below(n) \subseteq Below(m) /\ Below(n) # Below(m)
    <3>1. n \in Nat /\ m \in Nat
      OBVIOUS
    <3>2. m \in Below(m) /\ m \notin Below(n)
      BY <2>1, <3>1
    <3>3. ASSUME NEW k \in Below(n) PROVE k \in Below(m)
      <4>1. k \in Nat /\ k \in S /\ k <= n
        OBVIOUS
      <4> QED BY <2>1, <3>1, <4>1
    <3> QED BY <3>2, <3>3
  <2>3. <<Below(n), Below(m)>> \in StrictSubsetOrdering(S)
    BY <1>1, <2>2 DEF StrictSubsetOrdering
  <2> QED BY <1>2, <1>3, <2>3
<1> QED BY <1>4 DEF Min

\* A set and its image under a function that tells its members apart have as
\* many members.
LEMMA SameCount ==
  ASSUME NEW S, NEW T, NEW f \in [S -> T], IsFiniteSet(S),
         \A x, y \in S : f[x] = f[y] => x = y, \A t \in T : \E x \in S : f[x] = t
  PROVE  IsFiniteSet(T) /\ Cardinality(T) = Cardinality(S)
<1>1. f \in Bijection(S, T)
  BY DEF Bijection, Injection, Surjection, IsInjective
<1> QED BY <1>1, FS_Bijection DEF ExistsBijection

\* Of n numbers, those with c or more before them are n - c.
Rank(S, i) == Cardinality({j \in S : j < i})

LEMMA RankCount ==
  ASSUME NEW S \in SUBSET Nat, IsFiniteSet(S), NEW c \in Nat
  PROVE  /\ Cardinality(S) \in Nat
         /\ Cardinality({i \in S : Rank(S, i) >= c})
              = IF Cardinality(S) > c THEN Cardinality(S) - c ELSE 0
<1> DEFINE n == Cardinality(S)
           Before(i) == {j \in S : j < i}
           rank == [i \in S |-> Rank(S, i)]
<1>1. n \in Nat
  BY FS_CardinalityType
<1>2. ASSUME NEW i \in S PROVE Rank(S, i) \in 0 .. (n - 1) /\ IsFiniteSet(Before(i))
  <2>1. Before(i) \subseteq S /\ Before(i) # S
    OBVIOUS
  <2>2. IsFiniteSet(Before(i)) /\ Cardinality(Before(i)) <= n
        /\ (Cardinality(Before(i)) = n => Before(i) = S)
    BY <2>1, FS_Subset
  <2>3. Cardinality(Before(i)) \in Nat
    BY <2>2, FS_CardinalityType
  <2> QED BY <1>1, <2>1, <2>2, <2>3 DEF Rank
<1>3. ASSUME NEW i \in S, NEW j \in S, i < j PROVE Rank(S, i) < Rank(S, j)
  <2>1. Before(i) \subseteq Before(j) /\ Before(i) # Before(j)
    <3>1. i \in Nat /\ j \in Nat
      OBVIOUS
    <3>2. i \in Before(j) /\ i \notin Before(i)
      BY <1>3, <3>1
    <3>3. ASSUME NEW k \in Before(i) PROVE k \in Before(j)
      <4>1. k \in Nat /\ k \in S /\ k < i
        OBVIOUS
      <4> QED BY <1>3, <3>1, <4>1
    <3> QED BY <3>2, <3>3
  <2>2. IsFiniteSet(Before(i)) /\ IsFiniteSet(Before(j))
    BY <1>2
  <2>3. Cardinality(Before(i)) <= Cardinality(Before(j))
        /\ Cardinality(Before(i)) # Cardinality(Before(j))
    BY <2>1, <2>2, FS_Subset
  <2> QED BY <1>2, <2>3 DEF Rank
<1>4. \A i, j \in S : Rank(S, i) = Rank(S, j) => i = j
  <2> SUFFICES ASSUME NEW i \in S, NEW j \in S, i # j PROVE Rank(S, i) # Rank(S, j)
    OBVIOUS
  <2>1. i \in Nat /\ j \in Nat
    OBVIOUS
  <2>2. /\ i < j => Rank(S, i) < Rank(S, j)
        /\ j < i => Rank(S, j) < Rank(S, i)
    BY <1>3
  <2>3. Rank(S, i) \in Int /\ Rank(S, j) \in Int
    <3>1. Rank(S, i) \in 0 .. (n - 1) /\ Rank(S, j) \in 0 .. (n - 1)
      BY <1>2
    <3> HIDE DEF n
    <3> QED BY <1>1, <3>1
  <2> QED BY <2>1, <2>2, <2>3
<1>5. IsFiniteSet(0 .. (n - 1)) /\ Cardinality(0 .. (n - 1)) = n
  <2> HIDE DEF n
  <2>1. n \in Int /\ n - 1 \in Int
    BY <1>1
  <2>2. IsFiniteSet(0 .. (n - 1))
        /\ Cardinality(0 .. (n - 1)) = IF 0 > n - 1 THEN 0 ELSE n - 1 - 0 + 1
    BY <2>1, FS_Interval
  <2> QED BY <1>1, <2>2
<1>6. rank \in Injection(S, 0 .. (n - 1))
  BY <1>2, <1>4 DEF Injection, IsInjective
<1>7. rank \in Surjection(S, 0 .. (n - 1))
  <2> HIDE DEF rank
  <2> QED BY <1>5, <1>6, FS_Injection
<1> DEFINE Late == {i \in S : Rank(S, i) >= c}
           late == [i \in Late |-> Rank(S, i)]
<1>8. IsFiniteSet(Late)
  BY FS_Subset, Late \subseteq S
<1>9. Cardinality(c .. (n - 1)) = Cardinality(Late)
  <2>1. late \in [Late -> c .. (n - 1)]
    <3>1. ASSUME NEW i \in Late PROVE Rank(S, i) \in c .. (n - 1)
      <4>1. Rank(S, i) \in 0 .. (n - 1) /\ Rank(S, i) >= c
        BY <1>2
      <4> HIDE DEF n
      <4> QED BY <1>1, <4>1
    <3> QED BY <3>1
  <2>2. \A i, j \in Late : late[i] = late[j] => i = j
    BY <1>4
  <2>3. ASSUME NEW k \in c .. (n - 1) PROVE \E i \in Late : late[i] = k
    <3>1. k \in 0 .. (n - 1)
      BY <1>1
    <3>2. PICK i \in S : rank[i] = k
      BY <1>7, <3>1 DEF Surjection
    <3> QED BY <3>2
  <2>4. \A k \in c .. (n - 1) : \E i \in Late : late[i] = k
    BY <2>3
  <2> DEFINE places == c .. (n - 1)
  <2> HIDE DEF Late
  <2>5. late \in [Late -> places] /\ \A k \in places : \E i \in Late : late[i] = k
    BY <2>1, <2>4
  <2> HIDE DEF late, places
  <2>6. Cardinality(places) = Cardinality(Late)
    BY <1>8, <2>2, <2>5, SameCount
  <2> QED BY <2>6 DEF places
<1>10. Cardinality(c .. (n - 1)) = IF n > c THEN n - c ELSE 0
  <2> HIDE DEF n
  <2>1. Cardinality(c .. (n - 1)) = IF c > n - 1 THEN 0 ELSE n - 1 - c + 1
    BY <1>1, FS_Interval
  <2> QED BY <1>1, <2>1
<1> QED BY <1>1, <1>9, <1>10

-----------------------------------------------------------------------------
(***************************************************************************)
(* Report: the findings of a run.                                          *)
(***************************************************************************)

FindingCodes == {"RY000", "RY034", "RY040", "RY102"}

\* The baseline is what was recorded; of each kind of finding that is finite.
ReportInv ==
    /\ sheets \in [Sheets -> Seq(SheetLines)] /\ options \in Options
    /\ accepted = Counts(recorded)
    /\ \A d \in recorded : d.code \in FindingCodes => d.message = d.code
    /\ \A p \in Sheets, c \in FindingCodes : IsFiniteSet(RecordedOf(p, c))

LEMMA LineTypes ==
  ASSUME NEW sheet \in Seq(SheetLines), NEW i \in DOMAIN sheet
  PROVE  /\ i \in Nat \ {0} /\ i \in 1 .. Len(sheet) /\ DOMAIN sheet = 1 .. Len(sheet)
         /\ sheet[i] \in SheetLines
         /\ sheet[i].finding \in FindingCodes \cup {"none"}
         /\ sheet[i].directive.codes \subseteq Codes
         /\ sheet[i].finding = "RY000" => sheet[i].visited
<1>1. sheet[i] \in SheetLines
  OBVIOUS
<1>2. sheet[i] \in Lines /\ (sheet[i].finding = "RY000" => sheet[i].visited)
  BY <1>1, ReportAssumption
<1>3. sheet[i].finding \in FindingCodes \cup {"none"} /\ sheet[i].directive \in Directives
  BY <1>2 DEF Lines, FindingCodes
<1>4. sheet[i].directive.codes \subseteq Codes
  BY <1>3 DEF Directives
<1> QED BY <1>1, <1>2, <1>3, <1>4

\* What is found on a line, before and after the filters and the demotion
RawAt(p, i, c) == Diagnostic(p, i, c, c, LineConfidence(sheets[p][i]))
ShownAt(p, i, c) == Lowered(Graded(p, RawAt(p, i, c)))

LEMMA ShownFields ==
  \A p, i, c :
     /\ ShownAt(p, i, c).path = p /\ ShownAt(p, i, c).line = i
     /\ ShownAt(p, i, c).code = c /\ ShownAt(p, i, c).message = c
     /\ sheets[p][i].finding = c => ShownAt(p, i, c).confidence = ConfidenceAt(p, i)
     /\ KeyOf(ShownAt(p, i, c)) = <<p, c, c>>
  BY DEF ShownAt, Lowered, Graded, RawAt, Diagnostic, LineConfidence, ConfidenceAt, KeyOf

\* Neither the filters nor the demotion touch a finding's path, line, code or
\* message.
LEMMA StagesKeep ==
  \A p, q, i, c, m, k :
    LET d == Diagnostic(q, i, c, m, k)
        e == Lowered(Graded(p, d))
    IN  /\ d.path = q /\ d.line = i /\ d.code = c /\ d.message = m
        /\ Graded(p, d).path = q /\ Graded(p, d).code = c
        /\ e.path = q /\ e.line = i /\ e.code = c /\ e.message = m
  BY DEF Diagnostic, Graded, Lowered

Pipeline(p) == DemoteNonSource(PreDemotion(p, sheets[p]))
AllFindings == DemoteNonSource(UNION {PreDemotion(p, sheets[p]) : p \in Sheets})

\* What comes out of the stages went in as a finding, a directive that does
\* not parse, or an audit.
LEMMA PipelineForms ==
  ASSUME NEW p, NEW d \in Pipeline(p)
  PROVE  \E e \in Raw(p, sheets[p]) \cup Audit(p, sheets[p], Raw(p, sheets[p])) :
            /\ d = Lowered(Graded(p, e)) /\ Effective(p, e.code) # "off"
            /\ e \in Raw(p, sheets[p]) => ~ Suppressed(sheets[p], e)
            /\ ~ IgnoresFile(sheets[p])
<1>1. PICK g \in PreDemotion(p, sheets[p]) : d = Lowered(g)
  BY DEF Pipeline, DemoteNonSource
<1> DEFINE raw == Raw(p, sheets[p])
           left == {e \in raw : ~ Suppressed(sheets[p], e)} \cup Audit(p, sheets[p], raw)
<1>2. ~ IgnoresFile(sheets[p]) /\ PreDemotion(p, sheets[p]) = Filtered(p, left)
  BY <1>1 DEF PreDemotion
<1>3. PICK e \in left : Effective(p, e.code) # "off" /\ g = Graded(p, e)
  <2> HIDE DEF left
  <2> QED BY <1>1, <1>2 DEF Filtered
<1>4. e \in raw => ~ Suppressed(sheets[p], e)
  <2>1. CASE e \in Audit(p, sheets[p], raw)
    <3>1. \E i, m, k : e = Diagnostic(p, i, "RY113", m, k)
      BY <2>1 DEF Audit
    <3>2. e.code = "RY113"
      BY <3>1 DEF Diagnostic
    <3> QED BY <3>2 DEF Suppressed, Hides, Suppressible
  <2> QED BY <1>3, <2>1
<1> QED BY <1>1, <1>2, <1>3, <1>4

LEMMA InPipeline ==
  ASSUME NEW p, ~ IgnoresFile(sheets[p]), NEW e \in Raw(p, sheets[p]),
         ~ Suppressed(sheets[p], e), Effective(p, e.code) # "off"
  PROVE  Lowered(Graded(p, e)) \in Pipeline(p)
  BY DEF Pipeline, DemoteNonSource, PreDemotion, Filtered

\* The findings of a kind are those of the lines that deserve one.
LEMMA PipelineFindings ==
  ASSUME NEW p \in Sheets, sheets \in [Sheets -> Seq(SheetLines)], NEW c \in FindingCodes
  PROVE  /\ \A i \in Deserved(p, c) : ShownAt(p, i, c) \in Pipeline(p)
         /\ \A d \in Pipeline(p) : d.code = c => \E i \in Deserved(p, c) : d = ShownAt(p, i, c)
<1> DEFINE sheet == sheets[p]
<1>0. sheet \in Seq(SheetLines) /\ c # "none" /\ c \notin {"RY112", "RY113"}
  BY DEF FindingCodes
<1>1. ASSUME NEW i \in Deserved(p, c) PROVE ShownAt(p, i, c) \in Pipeline(p)
  <2>1. /\ i \in DOMAIN sheet /\ sheet[i].finding = c /\ sheet[i].visited
        /\ (Broken(sheet) => c = "RY000") /\ Effective(p, c) # "off"
        /\ \A j \in DOMAIN sheet : /\ sheet[j].directive.kind # "file"
                                   /\ TargetOf(sheet, j) = i => ~ Hides(sheet[j].directive, c)
    BY DEF Deserved
  <2>2. i \in Found(sheet)
    BY <1>0, <2>1 DEF Found
  <2>3. RawAt(p, i, c) \in Raw(p, sheet)
    BY <2>1, <2>2 DEF RawAt, Raw, Findings
  <2>4. RawAt(p, i, c).code = c /\ RawAt(p, i, c).line = i
    BY DEF RawAt, Diagnostic
  <2>5. ~ IgnoresFile(sheet) /\ ~ Suppressed(sheet, RawAt(p, i, c))
    BY <2>1, <2>4 DEF IgnoresFile, Suppressed
  <2> QED BY <2>1, <2>3, <2>4, <2>5, InPipeline DEF ShownAt
<1>2. ASSUME NEW d \in Pipeline(p), d.code = c
      PROVE  \E i \in Deserved(p, c) : d = ShownAt(p, i, c)
  <2>1. PICK e \in Raw(p, sheet) \cup Audit(p, sheet, Raw(p, sheet)) :
            /\ d = Lowered(Graded(p, e)) /\ Effective(p, e.code) # "off"
            /\ e \in Raw(p, sheet) => ~ Suppressed(sheet, e)
            /\ ~ IgnoresFile(sheet)
    BY <1>2, PipelineForms
  <2>2. CASE e \in Audit(p, sheet, Raw(p, sheet))
    <3>1. \E i, m, k : e = Diagnostic(p, i, "RY113", m, k)
      BY <2>2 DEF Audit
    <3>2. d.code = "RY113"
      BY <2>1, <3>1, StagesKeep
    <3> QED BY <1>0, <1>2, <3>2
  <2>3. CASE e \in InvalidIgnores(p, sheet)
    <3>1. \E i, m, k : e = Diagnostic(p, i, "RY112", m, k)
      BY <2>3 DEF InvalidIgnores
    <3>2. d.code = "RY112"
      BY <2>1, <3>1, StagesKeep
    <3> QED BY <1>0, <1>2, <3>2
  <2>4. CASE e \in Findings(p, sheet)
    <3>1. PICK i \in Found(sheet) :
             e = Diagnostic(p, i, sheet[i].finding, sheet[i].finding, LineConfidence(sheet[i]))
      BY <2>4 DEF Findings
    <3>2. d.code = sheet[i].finding /\ e.code = sheet[i].finding /\ e.line = i
      BY <2>1, <3>1, StagesKeep
    <3>3. sheet[i].finding = c /\ d = ShownAt(p, i, c)
      BY <1>2, <2>1, <3>1, <3>2 DEF ShownAt, RawAt
    <3>4. i \in Deserved(p, c)
      BY <2>1, <2>4, <3>1, <3>2, <3>3 DEF Deserved, Found, Raw, IgnoresFile, Suppressed
    <3> QED BY <3>3, <3>4
  <2> QED BY <2>1, <2>2, <2>3, <2>4 DEF Raw
<1> QED BY <1>1, <1>2

\* Each finding of a file says so, and one of the checker's has its code for
\* a message.
LEMMA PipelinePaths ==
  ASSUME NEW p, NEW d \in Pipeline(p)
  PROVE  d.path = p /\ (d.code \in FindingCodes => d.message = d.code)
<1>1. PICK e \in Raw(p, sheets[p]) \cup Audit(p, sheets[p], Raw(p, sheets[p])) :
          d = Lowered(Graded(p, e))
  BY PipelineForms
<1>2. CASE e \in Audit(p, sheets[p], Raw(p, sheets[p]))
  <2>1. \E i, m, k : e = Diagnostic(p, i, "RY113", m, k)
    BY <1>2 DEF Audit
  <2> QED BY <1>1, <2>1, StagesKeep DEF FindingCodes
<1>3. CASE e \in Raw(p, sheets[p])
  <2>1. \E i, c, k : e = Diagnostic(p, i, c, c, k)
    BY <1>3 DEF Raw, Findings, InvalidIgnores
  <2> QED BY <1>1, <2>1, StagesKeep
<1> QED BY <1>1, <1>2, <1>3

\* Those of all files are those of each.
LEMMA AllFindingsOf ==
  /\ \A p \in Sheets : \A d : d \in Pipeline(p) <=> d \in AllFindings /\ d.path = p
  /\ \A d \in AllFindings : d.path \in Sheets
<1>1. \A d \in AllFindings : \E p \in Sheets : d \in Pipeline(p)
  BY DEF AllFindings, Pipeline, DemoteNonSource
<1>2. \A p \in Sheets : \A d \in Pipeline(p) : d \in AllFindings
  BY DEF AllFindings, Pipeline, DemoteNonSource
<1> QED BY <1>1, <1>2, PipelinePaths

-----------------------------------------------------------------------------
(***************************************************************************)
(* Against the baseline, each kind of finding loses what was recorded.     *)
(***************************************************************************)

\* The lines that deserve a finding are finitely many.
LEMMA DeservedLines ==
  ASSUME NEW p \in Sheets, sheets \in [Sheets -> Seq(SheetLines)], NEW c
  PROVE  Deserved(p, c) \in SUBSET Nat /\ IsFiniteSet(Deserved(p, c))
<1>1. DOMAIN sheets[p] = 1 .. Len(sheets[p]) /\ Len(sheets[p]) \in Nat
  OBVIOUS
<1>2. IsFiniteSet(1 .. Len(sheets[p]))
  BY <1>1, FS_Interval
<1>3. Deserved(p, c) \subseteq 1 .. Len(sheets[p])
  BY <1>1 DEF Deserved
<1> QED BY <1>1, <1>2, <1>3, FS_Subset

\* Some of the lines, as findings
ShownOf(p, c, lines) == {ShownAt(p, i, c) : i \in lines}

LEMMA ShownCount ==
  ASSUME NEW p, NEW c, NEW lines, IsFiniteSet(lines)
  PROVE  IsFiniteSet(ShownOf(p, c, lines))
         /\ Cardinality(ShownOf(p, c, lines)) = Cardinality(lines)
<1> DEFINE f == [i \in lines |-> ShownAt(p, i, c)]
           T == ShownOf(p, c, lines)
<1>1. f \in [lines -> T] /\ \A t \in T : \E i \in lines : f[i] = t
  BY DEF ShownOf
<1>2. \A i, j \in lines : f[i] = f[j] => i = j
  <2> SUFFICES ASSUME NEW i \in lines, NEW j \in lines, ShownAt(p, i, c) = ShownAt(p, j, c)
               PROVE  i = j
    OBVIOUS
  <2> QED BY ShownFields
<1> HIDE DEF f, T
<1>3. IsFiniteSet(T) /\ Cardinality(T) = Cardinality(lines)
  BY <1>1, <1>2, SameCount
<1> QED BY <1>3 DEF T

\* Findings before one of its kind
LEMMA EarlierCount ==
  ASSUME NEW p \in Sheets, sheets \in [Sheets -> Seq(SheetLines)],
         NEW c \in FindingCodes, NEW i \in Deserved(p, c)
  PROVE  Cardinality(Earlier(AllFindings, ShownAt(p, i, c))) = Rank(Deserved(p, c), i)
<1> DEFINE before == {j \in Deserved(p, c) : j < i}
           d == ShownAt(p, i, c)
<1>1. KeyOf(d) = <<p, c, c>> /\ d.line = i
  BY ShownFields
<1>2. ASSUME NEW e \in Earlier(AllFindings, d) PROVE e \in ShownOf(p, c, before)
  <2>1. e \in AllFindings /\ KeyOf(e) = <<p, c, c>> /\ e.line < i
    BY <1>1 DEF Earlier
  <2>2. e.path = p /\ e.code = c
    BY <2>1 DEF KeyOf
  <2>3. PICK j \in Deserved(p, c) : e = ShownAt(p, j, c)
    BY <2>1, <2>2, AllFindingsOf, PipelineFindings
  <2>4. j < i
    BY <2>1, <2>3, ShownFields
  <2> QED BY <2>3, <2>4 DEF ShownOf
<1>3. ASSUME NEW e \in ShownOf(p, c, before) PROVE e \in Earlier(AllFindings, d)
  <2>1. PICK j \in before : e = ShownAt(p, j, c)
    BY DEF ShownOf
  <2>2. e \in AllFindings
    BY <2>1, PipelineFindings, AllFindingsOf
  <2>3. KeyOf(e) = KeyOf(d) /\ e.line = j
    BY <1>1, <2>1, ShownFields
  <2> QED BY <1>1, <2>1, <2>2, <2>3 DEF Earlier
<1>4. Earlier(AllFindings, d) = ShownOf(p, c, before)
  BY <1>2, <1>3
<1>5. IsFiniteSet(before)
  BY DeservedLines, FS_Subset, before \subseteq Deserved(p, c)
<1> HIDE DEF d
<1> QED BY <1>4, <1>5, ShownCount DEF Rank, d

RunOf(counts) ==
  {d \in AllFindings :
      /\ KeyOf(d) \in DOMAIN counts =>
            Cardinality(Earlier(AllFindings, d)) >= counts[KeyOf(d)]
      /\ d.confidence >= options.minConfidence}

LEMMA RunIsOf == \A counts : RunCheckOnce(counts) = RunOf(counts)
  BY DEF RunCheckOnce, PostDemotion, Subtract, RunOf, AllFindings

\* What a run shows of one kind
LEMMA KindOfRun ==
  ASSUME NEW p \in Sheets, sheets \in [Sheets -> Seq(SheetLines)],
         NEW c \in FindingCodes, NEW counts
  PROVE  {d \in RunCheckOnce(counts) : d.path = p /\ d.code = c}
            = ShownOf(p, c, {i \in Deserved(p, c) :
                 /\ <<p, c, c>> \in DOMAIN counts =>
                       Rank(Deserved(p, c), i) >= counts[<<p, c, c>>]
                 /\ Above(p, i)})
<1> DEFINE kept == {i \in Deserved(p, c) :
                 /\ <<p, c, c>> \in DOMAIN counts =>
                       Rank(Deserved(p, c), i) >= counts[<<p, c, c>>]
                 /\ Above(p, i)}
<1>1. ASSUME NEW i \in Deserved(p, c)
      PROVE  /\ ShownAt(p, i, c) \in AllFindings
             /\ ShownAt(p, i, c) \in RunCheckOnce(counts) <=> i \in kept
  <2>1. ShownAt(p, i, c) \in AllFindings
    BY PipelineFindings, AllFindingsOf
  <2>2. sheets[p][i].finding = c
    BY DEF Deserved
  <2>3. ShownAt(p, i, c).confidence = ConfidenceAt(p, i) /\ KeyOf(ShownAt(p, i, c)) = <<p, c, c>>
    BY <2>2, ShownFields
  <2>4. Cardinality(Earlier(AllFindings, ShownAt(p, i, c))) = Rank(Deserved(p, c), i)
    BY EarlierCount
  <2> QED BY <2>1, <2>3, <2>4, RunIsOf DEF RunOf, Above
<1>2. ASSUME NEW d \in RunCheckOnce(counts), d.path = p, d.code = c
      PROVE  \E i \in Deserved(p, c) : d = ShownAt(p, i, c)
  <2>1. d \in AllFindings
    BY RunIsOf DEF RunOf
  <2> QED BY <1>2, <2>1, AllFindingsOf, PipelineFindings
<1>3. \A i : ShownAt(p, i, c).path = p /\ ShownAt(p, i, c).code = c
  BY ShownFields
<1> HIDE DEF kept
<1>4. {d \in RunCheckOnce(counts) : d.path = p /\ d.code = c} = ShownOf(p, c, kept)
  <2>1. kept \subseteq Deserved(p, c)
    BY DEF kept
  <2> QED BY <1>1, <1>2, <1>3, <2>1 DEF ShownOf
<1> QED BY <1>4 DEF kept

\* What the baseline counts of a kind is what was recorded of it.
LEMMA CountedIsRecorded ==
  ASSUME ReportInv, NEW p \in Sheets, NEW c \in FindingCodes
  PROVE  LET was == Cardinality(RecordedOf(p, c))
         IN  /\ was \in Nat
             /\ \A n \in Nat : (<<p, c, c>> \in DOMAIN accepted => n >= accepted[<<p, c, c>>])
                                  <=> n >= was
<1> DEFINE k == <<p, c, c>>
           counted == {d \in recorded : KeyOf(d) = k}
<1>1. counted = RecordedOf(p, c)
  BY DEF RecordedOf, KeyOf, ReportInv
<1>2. IsFiniteSet(RecordedOf(p, c)) /\ Cardinality(RecordedOf(p, c)) \in Nat
  BY FS_CardinalityType DEF ReportInv
<1>3. accepted = [l \in {KeyOf(d) : d \in recorded} |->
                    Cardinality({d \in recorded : KeyOf(d) = l})]
  BY DEF ReportInv, Counts
<1>4. CASE k \in DOMAIN accepted
  <2>1. accepted[k] = Cardinality(counted)
    BY <1>3, <1>4
  <2> HIDE DEF k, counted
  <2> QED BY <1>1, <1>2, <1>4, <2>1 DEF k
<1>5. CASE k \notin DOMAIN accepted
  <2>1. counted = {}
    BY <1>3, <1>5
  <2>2. Cardinality(RecordedOf(p, c)) = 0
    BY <1>1, <2>1, FS_EmptySet
  <2> QED BY <1>5, <2>2
<1> QED BY <1>4, <1>5

LEMMA ReportSurplus == ReportInv => SurplusShown
<1> SUFFICES ASSUME ReportInv, NEW p \in Sheets, NEW c \in FindingCodes
             PROVE  /\ (\A i \in Deserved(p, c) : Above(p, i)) =>
                          NewOf(RunCheckOnce(accepted), p, c) = SurplusOf(p, c)
                    /\ (\A i \in Deserved(p, c) : ~ Above(p, i)) =>
                          NewOf(RunCheckOnce(accepted), p, c) = 0
  BY DEF SurplusShown, FindingCodes
<1> DEFINE S == Deserved(p, c)
           was == Cardinality(RecordedOf(p, c))
           kept == {i \in S : Rank(S, i) >= was /\ Above(p, i)}
<1>1. sheets \in [Sheets -> Seq(SheetLines)]
  BY DEF ReportInv
<1>2. S \in SUBSET Nat /\ IsFiniteSet(S)
  BY <1>1, DeservedLines
<1>3. was \in Nat
  BY CountedIsRecorded
<1>4. \A i \in S : Rank(S, i) \in Nat
  <2> SUFFICES ASSUME NEW i \in S PROVE Rank(S, i) \in Nat
    OBVIOUS
  <2>1. IsFiniteSet({j \in S : j < i})
    BY <1>2, FS_Subset, {j \in S : j < i} \subseteq S
  <2> QED BY <2>1, FS_CardinalityType DEF Rank
<1>5. {d \in RunCheckOnce(accepted) : d.path = p /\ d.code = c} = ShownOf(p, c, kept)
  <2>1. kept = {i \in S : /\ <<p, c, c>> \in DOMAIN accepted =>
                               Rank(S, i) >= accepted[<<p, c, c>>]
                          /\ Above(p, i)}
    BY <1>4, CountedIsRecorded
  <2> HIDE DEF kept
  <2> QED BY <1>1, <2>1, KindOfRun
<1>6. IsFiniteSet(kept)
  BY <1>2, FS_Subset, kept \subseteq S
<1>7. NewOf(RunCheckOnce(accepted), p, c) = Cardinality(kept)
  <2> HIDE DEF kept
  <2> QED BY <1>5, <1>6, ShownCount DEF NewOf
<1>8. ASSUME \A i \in S : Above(p, i)
      PROVE  NewOf(RunCheckOnce(accepted), p, c) = SurplusOf(p, c)
  <2>1. kept = {i \in S : Rank(S, i) >= was}
    BY <1>8
  <2>2. Cardinality(kept) = IF Cardinality(S) > was THEN Cardinality(S) - was ELSE 0
    <3> HIDE DEF S, was, kept
    <3> QED BY <1>2, <1>3, <2>1, RankCount
  <2> QED BY <1>7, <2>2 DEF SurplusOf
<1>9. ASSUME \A i \in S : ~ Above(p, i)
      PROVE  NewOf(RunCheckOnce(accepted), p, c) = 0
  <2>1. kept = {}
    BY <1>9
  <2> QED BY <1>7, <2>1, FS_EmptySet
<1> QED BY <1>8, <1>9

\* The findings of a file take from the counts of their own keys only.
LEMMA ReportFrontends == FrontendsAgree
<1> SUFFICES ASSUME NEW p \in Sheets
             PROVE  PublishFile(p, accepted) = {d \in RunCheckOnce(accepted) : d.path = p}
  BY DEF FrontendsAgree
<1>1. PublishFile(p, accepted)
        = {d \in Pipeline(p) :
              /\ KeyOf(d) \in DOMAIN accepted =>
                    Cardinality(Earlier(Pipeline(p), d)) >= accepted[KeyOf(d)]
              /\ d.confidence >= options.minConfidence}
  BY DEF PublishFile, PostDemotion, Subtract, Pipeline
<1>2. \A d : d \in Pipeline(p) <=> d \in AllFindings /\ d.path = p
  BY AllFindingsOf
<1>3. ASSUME NEW d \in Pipeline(p) PROVE Earlier(Pipeline(p), d) = Earlier(AllFindings, d)
  <2>1. d.path = p
    BY PipelinePaths
  <2>2. \A e : KeyOf(e) = KeyOf(d) => e.path = p
    BY <2>1 DEF KeyOf
  <2> QED BY <1>2, <2>2 DEF Earlier
<1>4. RunCheckOnce(accepted) = RunOf(accepted)
  BY RunIsOf
<1> QED BY <1>1, <1>2, <1>3, <1>4 DEF RunOf

\* The line that a directive is about is one of the file.
LEMMA TargetLine ==
  ASSUME NEW sheet \in Seq(SheetLines), NEW i \in DOMAIN sheet
  PROVE  TargetOf(sheet, i) # 0 => TargetOf(sheet, i) \in DOMAIN sheet
<1> DEFINE later == {j \in i + 1 .. Len(sheet) : sheet[j].code}
<1>1. DOMAIN sheet = 1 .. Len(sheet) /\ i \in Nat \ {0} /\ Len(sheet) \in Nat
  BY LineTypes
<1>2. later \in SUBSET Nat /\ later \subseteq DOMAIN sheet
  BY <1>1
<1>3. later # {} => Min(later) \in DOMAIN sheet
  BY <1>2, LeastNumber
<1> QED BY <1>3 DEF TargetOf

LEMMA ReportAudits == ReportInv => AuditTruthful
<1> SUFFICES ASSUME ReportInv, NEW d \in RunCheckOnce(NoCounts), d.code = "RY113"
             PROVE  sheets[d.path][TargetOf(sheets[d.path], d.line)].finding # d.message
  BY DEF AuditTruthful
<1>1. PICK p \in Sheets : d.path = p /\ d \in Pipeline(p)
  <2>1. d \in AllFindings
    BY RunIsOf DEF RunOf
  <2> QED BY <2>1, AllFindingsOf
<1> DEFINE sheet == sheets[p]
           raw == Raw(p, sheet)
<1>2. PICK e \in raw \cup Audit(p, sheet, raw) : d = Lowered(Graded(p, e))
  BY <1>1, PipelineForms
<1>3. sheet \in Seq(SheetLines)
  BY DEF ReportInv
<1>4. e \in Audit(p, sheet, raw)
  <2>1. SUFFICES ASSUME e \in raw PROVE FALSE
    BY <1>2
  <2>2. CASE e \in Findings(p, sheet)
    <3>1. PICK j \in Found(sheet) :
             e = Diagnostic(p, j, sheet[j].finding, sheet[j].finding, LineConfidence(sheet[j]))
      BY <2>2 DEF Findings
    <3>2. d.code = sheet[j].finding
      BY <1>2, <3>1, StagesKeep
    <3>3. sheet[j].finding \in FindingCodes
      BY <1>3, LineTypes DEF Found
    <3> QED BY <3>2, <3>3 DEF FindingCodes
  <2>3. CASE e \in InvalidIgnores(p, sheet)
    <3>1. \E j, m, k : e = Diagnostic(p, j, "RY112", m, k)
      BY <2>3 DEF InvalidIgnores
    <3> QED BY <1>2, <3>1, StagesKeep
  <2> QED BY <2>1, <2>2, <2>3 DEF Raw
<1>5. PICK i \in DOMAIN sheet, code \in Auditable :
         /\ code \in Unused(p, sheet, i, raw) /\ Audited(sheet, i)
         /\ e = Diagnostic(p, i, "RY113", code, DefaultConfidence("RY113"))
         /\ \A f \in raw : f.code # "RY000"
  BY <1>4 DEF Audit, Unused
<1>6. d.line = i /\ d.message = code
  BY <1>2, <1>5, StagesKeep
<1> DEFINE target == TargetOf(sheet, i)
<1>7. target \in DOMAIN sheet /\ sheet[target].visited
  BY <1>3, <1>5, TargetLine DEF Audited
<1>8. code \in {"RY034", "RY102"} /\ \A f \in raw : f.code = code => f.line # target
  BY <1>5 DEF Unused, Auditable
<1>9. ASSUME NEW j \in Found(sheet)
      PROVE  \E f \in raw : f.code = sheet[j].finding /\ f.line = j
  <2> DEFINE f == Diagnostic(p, j, sheet[j].finding, sheet[j].finding,
                             LineConfidence(sheet[j]))
  <2>1. f \in raw
    BY DEF Raw, Findings
  <2>2. f.code = sheet[j].finding /\ f.line = j
    BY DEF Diagnostic
  <2> QED BY <2>1, <2>2
<1>10. ~ Broken(sheet)
  <2>1. SUFFICES ASSUME NEW j \in DOMAIN sheet, sheet[j].finding = "RY000" PROVE FALSE
    BY DEF Broken
  <2>2. j \in Found(sheet)
    BY <1>3, <2>1, LineTypes DEF Found
  <2> QED BY <1>5, <1>9, <2>1, <2>2
<1>11. ASSUME sheet[target].finding = code PROVE FALSE
  <2>1. target \in Found(sheet)
    BY <1>7, <1>8, <1>10, <1>11 DEF Found
  <2> QED BY <1>8, <1>9, <1>11, <2>1
<1> QED BY <1>1, <1>6, <1>11

-----------------------------------------------------------------------------
(* The invariant of Report                                                 *)

LEMMA ReportStart == ReportInit => ReportInv
<1> SUFFICES ASSUME ReportInit PROVE ReportInv
  OBVIOUS
<1>1. sheets \in [Sheets -> Seq(SheetLines)] /\ options \in Options
  BY ReportAssumption DEF ReportInit
<1>2. recorded = {} /\ accepted = NoCounts
  BY DEF ReportInit
<1>3. Counts(recorded) = NoCounts
  BY <1>2 DEF Counts, NoCounts
<1>4. \A p, c : RecordedOf(p, c) = {}
  BY <1>2 DEF RecordedOf
<1>5. \A p, c : IsFiniteSet(RecordedOf(p, c))
  BY <1>4, FS_EmptySet
<1> QED BY <1>1, <1>2, <1>3, <1>5 DEF ReportInv

\* What a run without a baseline reports of a kind is finite.
LEMMA RunRecords ==
  ASSUME ReportInv
  PROVE  \A d \in RunCheckOnce(NoCounts) : d.code \in FindingCodes => d.message = d.code
<1> SUFFICES ASSUME NEW d \in RunCheckOnce(NoCounts)
             PROVE  d.code \in FindingCodes => d.message = d.code
  OBVIOUS
<1>1. d \in AllFindings
  BY RunIsOf DEF RunOf
<1> QED BY <1>1, AllFindingsOf, PipelinePaths

LEMMA RunFinite ==
  ASSUME ReportInv, NEW p \in Sheets, NEW c \in FindingCodes
  PROVE  IsFiniteSet({d \in RunCheckOnce(NoCounts) : d.path = p /\ d.code = c})
<1> DEFINE kept == {i \in Deserved(p, c) :
                 /\ <<p, c, c>> \in DOMAIN NoCounts =>
                       Rank(Deserved(p, c), i) >= NoCounts[<<p, c, c>>]
                 /\ Above(p, i)}
<1>1. sheets \in [Sheets -> Seq(SheetLines)]
  BY DEF ReportInv
<1>2. IsFiniteSet(kept)
  BY <1>1, DeservedLines, FS_Subset, kept \subseteq Deserved(p, c)
<1>3. {d \in RunCheckOnce(NoCounts) : d.path = p /\ d.code = c} = ShownOf(p, c, kept)
  BY <1>1, KindOfRun
<1> HIDE DEF kept
<1> QED BY <1>2, <1>3, ShownCount

\* A baseline counts what it records; an edit changes neither.
LEMMA ReportStep == ReportInv /\ [ReportNext]_reportVars => ReportInv'
<1> SUFFICES ASSUME ReportInv, [ReportNext]_reportVars PROVE ReportInv'
  OBVIOUS
<1>1. CASE WriteBaseline
  <2>1. /\ recorded' = RunCheckOnce(NoCounts) /\ accepted' = Counts(recorded)'
        /\ UNCHANGED <<sheets, options>>
    BY <1>1 DEF WriteBaseline, Counts
  <2>2. \A d \in recorded' : d.code \in FindingCodes => d.message = d.code
    BY <2>1, RunRecords
  <2>3. \A p \in Sheets, c \in FindingCodes : IsFiniteSet(RecordedOf(p, c)')
    BY <2>1, RunFinite DEF RecordedOf
  <2> QED BY <2>1, <2>2, <2>3 DEF ReportInv
<1>2. ASSUME sheets' \in [Sheets -> Seq(SheetLines)], options' \in Options,
             UNCHANGED <<accepted, recorded>>
      PROVE  ReportInv'
  BY <1>2 DEF ReportInv, Counts, RecordedOf
<1>3. CASE EditLine
  <2>0. PICK p \in Sheets, l \in SheetLines :
           \E i \in DOMAIN sheets[p] : sheets' = [sheets EXCEPT ![p] = [@ EXCEPT ![i] = l]]
    BY <1>3 DEF EditLine
  <2>1. PICK i \in DOMAIN sheets[p] : sheets' = [sheets EXCEPT ![p] = [@ EXCEPT ![i] = l]]
    BY <2>0
  <2>2. sheets[p] \in Seq(SheetLines)
    BY DEF ReportInv
  <2>3. [sheets[p] EXCEPT ![i] = l] \in Seq(SheetLines)
    BY <2>1, <2>2
  <2>4. sheets' \in [Sheets -> Seq(SheetLines)]
    BY <2>1, <2>3 DEF ReportInv
  <2> QED BY <1>2, <1>3, <2>4 DEF EditLine, ReportInv
<1>4. CASE MoveLines
  <2>1. PICK p \in Sheets : sheets' = [sheets EXCEPT ![p] = Reverse(@)]
    BY <1>4 DEF MoveLines
  <2>2. sheets[p] \in Seq(SheetLines)
    BY DEF ReportInv
  <2>3. Reverse(sheets[p]) \in Seq(SheetLines)
    BY <2>2 DEF Reverse
  <2>4. sheets' \in [Sheets -> Seq(SheetLines)]
    BY <2>1, <2>3 DEF ReportInv
  <2> QED BY <1>2, <1>4, <2>4 DEF MoveLines, ReportInv
<1>5. CASE ChangeOptions \/ UNCHANGED reportVars
  BY <1>2, <1>5 DEF ChangeOptions, reportVars, ReportInv
<1> QED BY <1>1, <1>3, <1>4, <1>5 DEF ReportNext

-----------------------------------------------------------------------------
(* A behaviour of ry check is one of the loop, one of the checkers and one *)
(* of the report: what holds of each of these holds of it.                 *)
THEOREM PartsAreFollowed == Spec => LoopSpec /\ BoxSpec
<1>1. Init => LoopInit /\ BoxInit
  BY DEF Init
<1>2. [Next]_vars => [LoopNext]_loopVars
  BY DEF Next, LoopPart, CheckersPart, ReportPart, vars
<1>3. [Next]_vars => [BoxNext]_boxVars
  BY DEF Next, LoopPart, CheckersPart, ReportPart, vars
<1> QED BY <1>1, <1>2, <1>3, PTL DEF Spec, LoopSpec, BoxSpec

\* The invariant holds, and the other parts leave it alone.
LEMMA ReportHolds == Spec => []ReportInv
<1>1. Init => ReportInit
  BY DEF Init
<1>2. [Next]_vars => [ReportNext]_reportVars
  BY DEF Next, LoopPart, CheckersPart, ReportPart, vars
<1> QED BY <1>1, <1>2, ReportStart, ReportStep, PTL DEF Spec

(* Against a baseline, a run shows of each kind of finding the surplus     *)
(* over what was recorded, and the editor shows of a file what the command *)
(* prints of it (subtract_baseline counts keys, which have no line).       *)
THEOREM SurplusIsReported == Spec => []SurplusReported
<1>1. ReportInv => SurplusReported
  BY ReportSurplus, ReportFrontends DEF SurplusReported
<1> QED BY <1>1, ReportHolds, PTL

(* An ignore that is reported as unused is about a line that has no such   *)
(* finding (audit_unused_ignores looks at the findings that the pass has   *)
(* come to see, and at no line that it does not visit).                    *)
THEOREM AuditsAreTruthful == Spec => []AuditsTruthful
<1>1. ReportInv => AuditsTruthful
  BY ReportAudits DEF AuditsTruthful
<1> QED BY <1>1, ReportHolds, PTL
==============================================================================
