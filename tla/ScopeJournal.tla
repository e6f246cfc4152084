----------------------------- MODULE ScopeJournal -----------------------------
(***************************************************************************)
(* The branch journal of a checker's scope (ry-checker, scope_journal.rs). *)
(* Both arms of an `if` are walked in the one scope.  While a snapshot is  *)
(* open, each change pushes a record of what it replaced; at the end of an *)
(* arm finish_snapshot reads the arm's changes off the records, pops them  *)
(* one by one to restore the scope, and restores from its mark what no     *)
(* record holds.  The join sees the restored scope and the two deltas.     *)
(***************************************************************************)
EXTENDS BranchJoin, FiniteSetsExt

CONSTANTS InitialScopes, InitialTests, Operations,
          MaxWrites,    \* operations in a walk
          MaxIfs,       \* ifs in a walk
          MaxDepth      \* ifs within one another

ASSUME WalkAssumption ==
    /\ InitialScopes \subseteq Scope
    /\ InitialTests \subseteq Tests
    /\ \A t \in InitialTests : "else" \in t.diverges \cup t.exits => t.else
    /\ \A o \in Operations : Callable(o)
    /\ {MaxWrites, MaxIfs, MaxDepth} \subseteq Nat
    /\ None \notin Scope

VARIABLES
    scope,
    undo,       \* Journal::undo; a record's `before`, history, is the scope
                \* before its change
    frames,     \* the ifs around the walk: test, arm, mark, the delta of the
                \* then arm and, history, the scopes before and after it
    delta,      \* while it pops records: the delta of the arm it has left,
                \* and, history, the scope at the arm's end
    steps

journalVars == <<scope, undo, frames, delta, steps>>

NoDelta == [changed |-> None, flags |-> {}, failed |-> {}, final |-> None]
Rolling == delta.final # None
Top == frames[Len(frames)]
Walking == /\ ~Rolling
           /\ frames # <<>> => Top.arm = "then" \/ Top.test.else

JournalInit ==
    /\ scope \in InitialScopes
    /\ undo = <<>> /\ frames = <<>> /\ delta = NoDelta
    /\ steps = [writes |-> 0, ifs |-> 0]

\* The records of W are kept while a snapshot is open
Commit(W, open) ==
    /\ scope' = W.at
    /\ undo' = IF open THEN undo \o W.log ELSE undo

Write ==
    /\ Walking
    /\ steps.writes < MaxWrites
    /\ \E o \in Operations : Commit(Apply(Here(scope), o), frames # <<>>)
    /\ steps' = [steps EXCEPT !.writes = @ + 1]
    /\ UNCHANGED <<frames, delta>>

EnterArm(s, test, arm) ==
    LET W == InsertNarrowed(Here(s), Proved(test, arm, s))
    IN CASE test.fails = None -> W
         [] test.fails = arm -> [W EXCEPT !.at.failed = @ \cup {"package"}]
         [] OTHER -> [W EXCEPT !.at.failed = @ \ {"package"}]

\* Mutant: the mark counts one record too many
EnterIfMarksNext ==
    /\ Walking
    /\ steps.ifs < MaxIfs
    /\ Len(frames) < MaxDepth
    /\ \E t \in InitialTests :
        /\ frames' = Append(frames,
                [test |-> t, arm |-> "then", len |-> Len(undo) + 1,
                 flags |-> scope.flags, failed |-> scope.failed,
                 changed |-> None, armFlags |-> {}, armFailed |-> {},
                 base |-> scope, then |-> scope])
        /\ Commit(EnterArm(scope, t, "then"), TRUE)
    /\ steps' = [steps EXCEPT !.ifs = @ + 1]
    /\ UNCHANGED delta

\* begin_snapshot, and the facts of the then arm
EnterIf ==
    /\ Walking
    /\ steps.ifs < MaxIfs
    /\ Len(frames) < MaxDepth
    /\ \E t \in InitialTests :
        /\ frames' = Append(frames,
                [test |-> t, arm |-> "then", len |-> Len(undo),
                 flags |-> scope.flags, failed |-> scope.failed,
                 changed |-> None, armFlags |-> {}, armFailed |-> {},
                 base |-> scope, then |-> scope])
        /\ Commit(EnterArm(scope, t, "then"), TRUE)
    /\ steps' = [steps EXCEPT !.ifs = @ + 1]
    /\ UNCHANGED delta

\* Mutant: the oldest record of a name decides
FirstRecord(n) ==
    undo[Min({i \in (Top.len + 1)..Len(undo) :
                undo[i].kind \in BindingKinds /\ n \in DOMAIN undo[i].saved})]

\* The delta has, for each name with a record of its own, the binding at the
\* end of the arm; after an assignment as the last one, only the type is read
LastRecord(n) ==
    undo[Max({i \in (Top.len + 1)..Len(undo) :
                undo[i].kind \in BindingKinds /\ n \in DOMAIN undo[i].saved})]

Captured(n) ==
    IF LastRecord(n).kind = "Assignment" THEN Plain(scope.bind[n].type)
    ELSE scope.bind[n]

\* finish_snapshot begins: the arm's failed namespaces are taken and its
\* delta is captured
FinishArm ==
    /\ frames # <<>>
    /\ ~Rolling
    /\ delta' = [changed |-> [n \in Touched(SubSeq(undo, Top.len + 1, Len(undo)))
                                |-> Captured(n)],
                 flags |-> scope.flags, failed |-> scope.failed,
                 final |-> scope]
    /\ scope' = [scope EXCEPT !.failed = {}]
    /\ UNCHANGED <<undo, frames, steps>>

PopRecord ==
    /\ Rolling
    /\ Len(undo) > Top.len
    /\ scope' = Undone(undo[Len(undo)], scope)
    /\ undo' = SubSeq(undo, 1, Len(undo) - 1)
    /\ UNCHANGED <<frames, delta, steps>>

\* Mutant: the uncertainty of an arm stays
UnmarkedKeepsFlags == [scope EXCEPT !.failed = Top.failed]

\* What finish_snapshot restores from the mark
Unmarked == [scope EXCEPT !.flags = Top.flags, !.failed = Top.failed]

\* The then arm is undone: the same scope is walked for the else arm
NextArm ==
    /\ Rolling
    /\ Len(undo) = Top.len
    /\ Top.arm = "then"
    /\ frames' = [frames EXCEPT ![Len(frames)] =
            [@ EXCEPT !.arm = "else", !.changed = delta.changed,
                      !.armFlags = delta.flags, !.armFailed = delta.failed,
                      !.then = delta.final]]
    /\ Commit(EnterArm(Unmarked, Top.test, "else"), TRUE)
    /\ delta' = NoDelta
    /\ UNCHANGED steps

\* What the join reads of an arm: the delta, over the restored scope
Arm(changed, flags, failed) ==
    [bind |-> Over(changed, scope.bind), names |-> DOMAIN changed,
     flags |-> flags, failed |-> failed]

JoinArms ==
    /\ Rolling
    /\ Len(undo) = Top.len
    /\ Top.arm = "else"
    /\ Commit(Join(Here(Unmarked), Top.test,
                   Arm(Top.changed, Top.armFlags, Top.armFailed),
                   Arm(delta.changed, delta.flags, delta.failed)),
              Len(frames) > 1)
    /\ frames' = SubSeq(frames, 1, Len(frames) - 1)
    /\ delta' = NoDelta
    /\ UNCHANGED steps

JournalNext == Write \/ EnterIf \/ FinishArm \/ PopRecord \/ NextArm \/ JoinArms

JournalSpec == JournalInit /\ [][JournalNext]_journalVars

-----------------------------------------------------------------------------
\* Properties

(* Every variable has its type: marks point into the undo log and the walk *)
(* is within its bounds.                                                   *)
JournalTypeOK ==
    /\ scope \in Scope
    /\ steps \in [writes : 0..MaxWrites, ifs : 0..MaxIfs]
    /\ Len(frames) <= MaxDepth
    /\ \A i \in DOMAIN undo : undo[i].before \in Scope
    /\ \A i \in DOMAIN frames :
        /\ frames[i].test \in InitialTests /\ frames[i].arm \in {"then", "else"}
        /\ frames[i].len \in 0..Len(undo)
        /\ frames[i].base \in Scope /\ frames[i].then \in Scope

\* The tables of two scopes are equal, whatever their flags
Same(a, b) ==
    /\ a.bind = b.bind /\ a.ops = b.ops
    /\ a.strings = b.strings /\ a.guards = b.guards

Before(i) == IF i > Len(undo) THEN scope ELSE undo[i].before

\* Each record takes the tables back over the change that pushed it, in the
\* scope that undoing all later records gives.  A method that changes a
\* table it has not recorded, or records it after the change, breaks this.
EveryRecordUndoes ==
    \A i \in DOMAIN undo :
        Same(Undone(undo[i], Before(i + 1)), undo[i].before)

\* Undoing all records of a snapshot gives the scope before its `if`, for
\* every `if` around the walk; outside all of them nothing is recorded.
SnapshotsRestore ==
    /\ \A i \in DOMAIN frames : Same(Before(frames[i].len + 1), frames[i].base)
    /\ frames = <<>> => undo = <<>>

\* The delta that finish_snapshot captures by names, over the scope before
\* the arm, is the arm's last scope: bindings changed and changed back, and
\* facts set after an assignment, included.  (The join reads no provenance.)
DeltaExact ==
    LET facts(b) == [b EXCEPT !.provenance = None]
        seen == Over(delta.changed, Top.base.bind)
    IN Rolling => \A n \in Slots : facts(seen[n]) = facts(delta.final.bind[n])

\* The assertions of AssignmentUndo::restore: when an assignment is undone,
\* the facts that it removed have not been put back by a later record.
AssignmentsUndoCleanly ==
    /\ Rolling
    /\ Len(undo) > Top.len
    /\ undo[Len(undo)].kind = "Assignment"
    => \A n \in DOMAIN undo[Len(undo)].saved :
            /\ scope.bind[n].marks = {}
            /\ scope.bind[n].alias = None
            /\ scope.bind[n].provenance = None

(* The journal takes every table back: record by record, snapshot by       *)
(* snapshot, and without an assignment meeting facts it removed.           *)
JournalRestores ==
    JournalTypeOK /\ EveryRecordUndoes /\ SnapshotsRestore /\ AssignmentsUndoCleanly

Clone == INSTANCE ClonedBranches WITH
    scope <- IF Rolling THEN delta.final ELSE scope,
    frames <- [i \in DOMAIN frames |->
                [test |-> frames[i].test, arm |-> frames[i].arm,
                 base |-> frames[i].base, then |-> frames[i].then]],
    steps <- steps, Join <- ClonedJoin

\* Walking both arms in one scope with the journal gives what walking each
\* in a copy gives: the parity that scope_journal.rs:986 tests on examples.
MatchesClones == Clone!Spec
=============================================================================
