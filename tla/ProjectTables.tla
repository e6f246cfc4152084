----------------------------- MODULE ProjectTables -----------------------------
(***************************************************************************)
(* What a project check computes (ry-checker, project.rs): the collections *)
(* of the files merged into one table, the returns and evaluation modes    *)
(* that the fixpoint settles on, and a file's diagnostics, which are taken *)
(* to be what the file's code looks at: the defaults of its own formals    *)
(* too, as far as the calls of the whole project show that they are used.  *)
(* The fixpoint is the result that module Fixpoint shows its scheduler to  *)
(* reach.                                                                  *)
(*                                                                         *)
(* A function returns values of its own, also one whose type comes from    *)
(* the package's stubs while the package is attached, and what the         *)
(* functions it calls return.  It has one formal, which may have a literal *)
(* default; it may quote its argument, forward it, or attach the package   *)
(* through an alias that collection does not see.                          *)
(***************************************************************************)
EXTENDS Integers, FiniteSets, Sequences, FiniteSetsExt

CONSTANTS Paths, Names, Vars

Types == {"int", "chr", "unknown"}
Stubs == {"int", "chr"}         \* what the package's function returns

Body == [own : SUBSET {"int", "chr", "stub"},
         calls : SUBSET Names,          \* syntactic call sites
         callbacks : SUBSET Names,      \* read by inference only
         omits : SUBSET Names,          \* of calls: without an argument
         forwards : SUBSET Names,
         default : {"none", "int", "chr"},
         quotes : BOOLEAN, attaches : BOOLEAN]

IsContent(c) ==
    /\ DOMAIN c = {"defs", "calls", "omits", "callbacks", "loads", "binds", "needs", "imports"}
    /\ DOMAIN c.defs \subseteq Names /\ \A n \in DOMAIN c.defs : c.defs[n] \in Body
    /\ c.calls \subseteq Names /\ c.omits \subseteq c.calls
    /\ c.callbacks \subseteq Names /\ c.loads \in BOOLEAN
    /\ c.binds \subseteq Vars /\ c.needs \subseteq Vars /\ c.imports \subseteq Paths

Bodies(c) == {c.defs[n] : n \in DOMAIN c.defs}
CallSites(c) == c.calls \cup UNION {b.calls : b \in Bodies(c)}
Omits(c) == c.omits \cup UNION {b.omits : b \in Bodies(c)}
Readers(c) == CallSites(c) \cup c.callbacks \cup UNION {b.callbacks : b \in Bodies(c)}
Reads(b) == b.calls \cup b.callbacks

\* merge_collected: of two files that define a name the later one wins
Merged(contents) ==
    [n \in UNION {DOMAIN contents[i].defs : i \in DOMAIN contents} |->
        contents[Max({i \in DOMAIN contents : n \in DOMAIN contents[i].defs})].defs[n]]

\* The least set with seed that edges do not lead out of
Closure(seed, edges) ==
    {n \in Names : \A s \in SUBSET Names :
        (seed \subseteq s /\ \A m \in s : edges[m] \subseteq s) => n \in s}

-----------------------------------------------------------------------------

\* Own values of a body; the package's type is known while it is attached
OwnTypes(b, attached, stubs) ==
    (b.own \ {"stub"})
    \cup IF "stub" \in b.own THEN {IF attached THEN stubs ELSE "unknown"} ELSE {}

JoinOf(types) == IF types = {"int"} THEN "int" ELSE IF types = {"chr"} THEN "chr" ELSE "unknown"

\* A call of a name that nothing binds is unknown; so is a function whose
\* every path waits for another such function
Returns(table, scope, seeds, attached, stubs) ==
    LET bound == DOMAIN table
        inner == scope \cap bound
        reached == [f \in Names |-> Closure({f}, [m \in Names |->
                        IF m \in inner THEN Reads(table[m]) \cap inner ELSE {}])]
        found(f) == OwnTypes(table[f], attached, stubs)
                    \cup {seeds[g] : g \in (Reads(table[f]) \cap bound) \ scope}
                    \cup IF Reads(table[f]) \subseteq bound THEN {} ELSE {"unknown"}
        known == [f \in inner |-> UNION {found(g) : g \in reached[f]}]
    IN [f \in bound |->
            IF f \notin scope THEN seeds[f]
            ELSE JoinOf(UNION {IF known[g] = {} THEN {"unknown"} ELSE known[g] : g \in reached[f]})]

\* Formals inherit quoting from every function they are forwarded to
Modes(table, scope, seeds) ==
    LET bound == DOMAIN table
        quoting == {f \in bound : IF f \in scope THEN table[f].quotes ELSE seeds[f]}
        forwards == [m \in Names |-> IF m \in bound THEN table[m].forwards \cap bound ELSE {}]
    IN [f \in bound |-> Closure({f}, forwards) \cap quoting # {}]

\* Does refining the scope discover an attachment?
Discovers(table, scope) == \E f \in scope \cap DOMAIN table : table[f].attaches

Loaded(contents, declared) == declared \/ \E i \in DOMAIN contents : contents[i].loads

\* The functions of a file that forward their formal to f and are called
\* without an argument themselves, so that their default reaches f
Forwarders(c, f, omitted) ==
    {g \in DOMAIN c.defs \cap omitted :
        f \in c.defs[g].forwards /\ c.defs[g].default # "none"}

\* diagnostic_parameter_type: what a formal is known to hold in the body of f.
\* Its default, if some call omits it; else that of the first caller whose
\* default is forwarded; else nothing.
DefaultSeen(contents, f, default) ==
    LET omitted == UNION {Omits(contents[i]) : i \in DOMAIN contents}
        from == {i \in DOMAIN contents : Forwarders(contents[i], f, omitted) # {}}
    IN  IF f \in omitted THEN {default}
        ELSE IF from = {} THEN {}
        ELSE LET c == contents[Min(from)]
             IN  {c.defs[g].default : g \in Forwarders(c, f, omitted)}

DefaultsSeen(contents, c) ==
    [f \in {n \in DOMAIN c.defs : c.defs[n].default # "none"} |->
        DefaultSeen(contents, f, c.defs[f].default)]

\* Everything a file's diagnostics depend on
Emission(c, contents, table, returns, modes, loaded, known, modules) ==
    [content |-> c,
     sees |-> [n \in Readers(c) \cap DOMAIN table |-> <<returns[n], modes[n]>>],
     defaults |-> DefaultsSeen(contents, c),
     loaded |-> loaded,
     known |-> c.needs \cap known,
     imports |-> [p \in c.imports \cap DOMAIN modules |-> modules[p]]]

ContentsOf(files) == [i \in DOMAIN files |-> files[i].content]
PathsOf(files) == {files[i].path : i \in DOMAIN files}
ContentAt(files) == [p \in PathsOf(files) |->
                        files[CHOOSE i \in DOMAIN files : files[i].path = p].content]
Known(files) == UNION {files[i].content.binds : i \in DOMAIN files}

\* A check from scratch: every function refined from bottom, every file emitted
ColdReturns(w) ==
    LET contents == ContentsOf(w.files)
        table == Merged(contents)
    IN Returns(table, Names, <<>>,
               Loaded(contents, w.declared) \/ Discovers(table, Names), w.stubs)

ColdModes(w) == Modes(Merged(ContentsOf(w.files)), Names, <<>>)

ColdDiagnostics(w) ==
    LET contents == ContentsOf(w.files)
    IN [p \in PathsOf(w.files) |->
            Emission(ContentAt(w.files)[p], contents, Merged(contents), ColdReturns(w), ColdModes(w),
                     Loaded(contents, w.declared), Known(w.files), ContentAt(w.files))]
=============================================================================
