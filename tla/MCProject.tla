------------------------------- MODULE MCProject -------------------------------
(* Three files that define, call, read and shadow up to three functions.  *)
EXTENDS Project

NoPaths == [own |-> {}, calls |-> {}, callbacks |-> {}, omits |-> {},
            forwards |-> {}, default |-> "none", quotes |-> FALSE, attaches |-> FALSE]
Number == [NoPaths EXCEPT !.own = {"int"}]
Empty == [defs |-> <<>>, calls |-> {}, omits |-> {}, callbacks |-> {}, loads |-> FALSE,
          binds |-> {}, needs |-> {}, imports |-> {}]
Defines(n, b) == [Empty EXCEPT !.defs = n :> b]

MCContents ==
    [p \in {"A", "B", "C"} |->
        CASE p = "A" -> {Defines("a", [Number EXCEPT !.default = "int"]),
                         Defines("a", [NoPaths EXCEPT !.own = {"chr"}]),
                         Defines("a", [NoPaths EXCEPT !.own = {"stub"}]),
                         Defines("a", [Number EXCEPT !.quotes = TRUE]),
                         Defines("a", [NoPaths EXCEPT !.calls = {"b"}]),
                         [Empty EXCEPT !.binds = {"v"}]}
          [] p = "B" -> {Defines("b", [NoPaths EXCEPT !.calls = {"a"}, !.omits = {"a"}]),
                         Defines("b", [Number EXCEPT !.callbacks = {"a"}]),
                         Defines("b", [Number EXCEPT !.calls = {"a"}, !.forwards = {"a"},
                                                     !.default = "chr"]),
                         Defines("b", [Number EXCEPT !.attaches = TRUE])}
          [] p = "C" -> {Defines("c", [NoPaths EXCEPT !.calls = {"b"}, !.omits = {"b"}]),
                         [Empty EXCEPT !.callbacks = {"b"}],
                         Defines("a", [NoPaths EXCEPT !.own = {"chr"}]),
                         [Empty EXCEPT !.loads = TRUE],
                         [Empty EXCEPT !.needs = {"v"}, !.imports = {"A"}]}]

\* A begins with a default, a call or a variable; an edit can give it the rest
MCWorkspaces ==
    {[files |-> <<File("A", a), File("B", b), File("C", c)>>, declared |-> FALSE, stubs |-> "int"] :
        a \in {Defines("a", [Number EXCEPT !.default = "int"]),
               Defines("a", [NoPaths EXCEPT !.calls = {"b"}]),
               [Empty EXCEPT !.binds = {"v"}]},
        b \in MCContents["B"], c \in MCContents["C"]}
================================================================================
