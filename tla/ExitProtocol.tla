---------------------------- MODULE ExitProtocol -----------------------------
(***************************************************************************)
(* How the language server ends (ry-lsp/src/lib.rs run_with).  The service *)
(* notes shutdown and exit as it is called, exit ends the input, and the   *)
(* main future races the exit code against the serve loop, which returns   *)
(* once every call it accepted was answered.  A handler may wait for a     *)
(* client that is gone, so the drain after exit is bounded.  The serve     *)
(* loop itself is tower-lsp's and is modelled from how it is used here.    *)
(***************************************************************************)
EXTENDS Naturals, Sequences, FiniteSets

CONSTANTS
    MaxMessages,   \* bound: messages the client sends
    Concurrency    \* handlers the serve loop runs at once

Messages == {"request", "shutdown", "exit"}

ASSUME ExitAssumption ==
    Concurrency \in Nat \ {0} /\ MaxMessages \in Nat

NoCode == "no code"

VARIABLES
    wire,       \* what the client sent and the server has not read
    open,       \* whether the client keeps the stream open
    read,       \* the messages read so far
    shutdown,   \* shutdown_requested
    code,       \* the value in the exit code's channel
    input,      \* whether the input may still yield messages
    handlers,   \* the state of the handler of each message read
    main,       \* run_with: "serving", "draining" or "ended"
    result      \* the process's exit code

exitVars == <<wire, open, read, shutdown, code, input, handlers, main, result>>

ExitInit ==
    /\ wire = << >> /\ open = TRUE
    /\ read = << >> /\ shutdown = FALSE /\ code = NoCode
    /\ input = TRUE /\ handlers = << >>
    /\ main = "serving" /\ result = NoCode

SendMessage(m) ==
    /\ open /\ Len(read) + Len(wire) < MaxMessages
    /\ wire' = Append(wire, m)
    /\ UNCHANGED <<open, read, shutdown, code, input, handlers, main, result>>

\* The client closes the stream; what it sent is still read.
CloseInput ==
    /\ open /\ open' = FALSE
    /\ UNCHANGED <<wire, read, shutdown, code, input, handlers, main, result>>

\* The code that an exit sends: only the first one has a channel.
ExitCode(requested) ==
    IF code # NoCode THEN code
    ELSE IF requested THEN "success" ELSE "failure"

\* ExitSignal::call, from the serve loop that reads the message and queues
\* its handler
Read ==
    /\ main # "ended" /\ input /\ wire # << >>
    /\ wire' = Tail(wire)
    /\ read' = Append(read, Head(wire))
    /\ shutdown' = (shutdown \/ Head(wire) = "shutdown")
    /\ code' = IF Head(wire) = "exit" THEN ExitCode(shutdown) ELSE code
    /\ handlers' = Append(handlers, "queued")
    /\ UNCHANGED <<open, input, main, result>>

\* InputUntilExit: the stream ends when the client closes it, or at exit,
\* after the messages the serve loop had already buffered.
EndOfInput ==
    /\ main # "ended" /\ input
    /\ code # NoCode \/ (~ open /\ wire = << >>)
    /\ input' = FALSE
    /\ UNCHANGED <<wire, open, read, shutdown, code, handlers, main, result>>

Running == {i \in 1 .. Len(handlers) : handlers[i] = "running"}

StartHandler ==
    /\ main # "ended" /\ Cardinality(Running) < Concurrency
    /\ \E i \in 1 .. Len(handlers) :
          /\ handlers[i] = "queued"
          /\ \A j \in 1 .. i - 1 : handlers[j] # "queued"
          /\ handlers' = [handlers EXCEPT ![i] = "running"]
    /\ UNCHANGED <<wire, open, read, shutdown, code, input, main, result>>

\* A handler answers.  One that waits for a client that is gone never does.
FinishHandler ==
    /\ main # "ended"
    /\ \E i \in Running : handlers' = [handlers EXCEPT ![i] = "answered"]
    /\ UNCHANGED <<wire, open, read, shutdown, code, input, main, result>>

\* run_with, the biased branch: the exit code has arrived
SeeExit ==
    /\ main = "serving" /\ code # NoCode
    /\ main' = "draining"
    /\ UNCHANGED <<wire, open, read, shutdown, code, input, handlers, result>>

\* A mutant: the other branch does not look at the exit code's channel.
ServeReturnsSuccess ==
    /\ main \in {"serving", "draining"} /\ ~ input
    /\ \A i \in 1 .. Len(handlers) : handlers[i] = "answered"
    /\ main' = "ended"
    /\ result' = IF main = "draining" THEN code ELSE "success"
    /\ UNCHANGED <<wire, open, read, shutdown, code, input, handlers>>

\* The serve loop returns.  It may do so in the same poll in which exit was
\* called, before the first branch saw the code.
ServeReturns ==
    /\ main \in {"serving", "draining"} /\ ~ input
    /\ \A i \in 1 .. Len(handlers) : handlers[i] = "answered"
    /\ main' = "ended"
    /\ result' = IF code = NoCode THEN "success" ELSE code
    /\ UNCHANGED <<wire, open, read, shutdown, code, input, handlers>>

DrainForever == FALSE /\ UNCHANGED exitVars                     \* a mutant

\* EXIT_DRAIN_LIMIT
DrainExpires ==
    /\ main = "draining"
    /\ main' = "ended"
    /\ result' = code
    /\ UNCHANGED <<wire, open, read, shutdown, code, input, handlers>>

\* What the runtime does on its own.  Handlers that finish are not among it.
MainStep ==
    Read \/ EndOfInput \/ StartHandler \/ SeeExit \/ ServeReturns
         \/ DrainExpires

ExitNext ==
    (\E m \in Messages : SendMessage(m)) \/ CloseInput \/ FinishHandler \/ MainStep

-----------------------------------------------------------------------------
(* The exit code is what the protocol asks for: a failure exactly when the *)
(* first exit came without a shutdown before it.  Neither messages that    *)
(* follow exit nor the order in which the code and the end of the serve    *)
(* loop are noticed change it.                                             *)
ResultFollowsProtocol ==
    main = "ended" =>
        LET exits == {i \in 1 .. Len(read) : read[i] = "exit"}
            polite == \E i \in exits, j \in 1 .. Len(read) :
                          /\ \A k \in exits : i <= k
                          /\ j < i /\ read[j] = "shutdown"
        IN  result = IF exits = {} \/ polite THEN "success" ELSE "failure"

(* Once exit is read the process ends, also while a handler waits for an   *)
(* answer of the client.                                                   *)
ExitEnds ==
    <>[]((\E i \in 1 .. Len(read) : read[i] = "exit") => main = "ended")
==============================================================================
