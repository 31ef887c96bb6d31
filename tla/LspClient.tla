----------------------------- MODULE LspClient -----------------------------
(***************************************************************************)
(* One language server's client: internal/lsp/transport.go and client.go,  *)
(* and the wait for diagnostics of internal/llm/tools/diagnostics.go.      *)
(*                                                                         *)
(* Any goroutine may write to the server, a header and then a body, and no *)
(* lock keeps two of them apart.  One goroutine reads the server's output: *)
(* it hands responses to the calls waiting for them, answers the server's  *)
(* own requests, and starts a goroutine for each notification.             *)
(***************************************************************************)
EXTENDS Naturals, Sequences, FiniteSets

CONSTANTS
    Callers,     \* goroutines in Client.Call, one request each
    Waiters,     \* tool goroutines in waitForLspDiagnostics
    MaxAsked     \* bound: requests the server makes of the client

VARIABLES
    server,      \* "up" or "dead"
    garbled,     \* two messages were mixed on the server's stdin
    writing,     \* goroutines between a header and its body
    call,        \* caller -> where it is
    handlers,    \* calls with a channel in Client.handlers
    answered,    \* calls whose channel holds the response
    waiter,      \* tool goroutine -> where it is
    poked,       \* tool goroutines whose diagChan holds a token
    current,     \* whose handler is registered for publishDiagnostics
    inbox,       \* calls the server has read and not answered
    unread,      \* changed documents the server has not yet looked at
    asked,       \* requests the server has made
    out,         \* the server's output, in order
    loop,        \* the message loop: "reading", "answering", "body", "ended", or "lost" when
                 \* it was left over a message it cannot read
    running,     \* whose handlers notification goroutines run
    crashed      \* the runtime found the map read and written at once

io == <<server, garbled, writing, inbox, unread, asked, out>>
calling == <<call, handlers, answered>>
waiting == <<waiter, poked, current>>
notified == <<loop, running, crashed>>
vars == <<io, calling, waiting, notified>>

Init ==
    /\ server = "up" /\ garbled = FALSE /\ writing = {}
    /\ inbox = {} /\ unread = 0 /\ asked = 0 /\ out = <<>>
    /\ call = [c \in Callers |-> "idle"] /\ handlers = {} /\ answered = {}
    /\ waiter = [w \in Waiters |-> "idle"] /\ poked = {} /\ current = "client"
    /\ loop = "reading" /\ running = {} /\ crashed = FALSE

-----------------------------------------------------------------------------
(* WriteMessage: two writes.  Whoever writes between the two of another       *)
(* goroutine garbles the stream.  Writing to a dead server fails.             *)

Writes(g) ==
    /\ writing' = writing \cup {g}
    /\ garbled' = (garbled \/ writing # {})

Ends(g) == writing' = writing \ {g}

\* Call: the channel is registered before anything is sent.
Register(c) ==
    /\ call[c] = "idle"
    /\ call' = [call EXCEPT ![c] = "registered"]
    /\ handlers' = handlers \cup {c}
    /\ UNCHANGED <<io, answered, waiting, notified>>

CallHeader(c) ==
    /\ call[c] = "registered" /\ server = "up"
    /\ call' = [call EXCEPT ![c] = "header"]
    /\ Writes(c)
    /\ UNCHANGED <<server, inbox, unread, asked, out, handlers, answered, waiting, notified>>

CallBody(c) ==
    /\ call[c] = "header" /\ server = "up"
    /\ call' = [call EXCEPT ![c] = "sent"]
    /\ Ends(c)
    /\ inbox' = IF garbled THEN inbox ELSE inbox \cup {c}
    /\ UNCHANGED <<server, garbled, unread, asked, out, handlers, answered, waiting, notified>>

CallFails(c) ==
    /\ call[c] \in {"registered", "header"} /\ server = "dead"
    /\ call' = [call EXCEPT ![c] = "failed"]
    /\ handlers' = handlers \ {c}
    /\ Ends(c)
    /\ UNCHANGED <<server, garbled, inbox, unread, asked, out, answered, waiting, notified>>

\* Neither the context nor the server's death ends this wait.
CallReturn(c) ==
    /\ call[c] = "sent" /\ c \in answered
    /\ call' = [call EXCEPT ![c] = "returned"]
    /\ handlers' = handlers \ {c}
    /\ UNCHANGED <<io, answered, waiting, notified>>

-----------------------------------------------------------------------------
(* waitForLspDiagnostics.  Its handler replaces the one registered before and *)
(* stays registered when it has returned.                                     *)

\* The map is copied without its lock, while a handler may be writing to it.
Snapshot(w) ==
    /\ waiter[w] = "idle"
    /\ \/ /\ waiter' = [waiter EXCEPT ![w] = "registered"]
          /\ current' = w
          /\ UNCHANGED crashed
       \/ /\ running # {}
          /\ crashed' = TRUE
          /\ UNCHANGED <<waiter, current>>
    /\ UNCHANGED <<io, calling, poked, loop, running>>

\* NotifyChange or OpenFile.
ChangeHeader(w) ==
    /\ waiter[w] = "registered" /\ server = "up"
    /\ waiter' = [waiter EXCEPT ![w] = "header"]
    /\ Writes(w)
    /\ UNCHANGED <<server, inbox, unread, asked, out, calling, poked, current, notified>>

ChangeBody(w) ==
    /\ waiter[w] = "header" /\ server = "up"
    /\ waiter' = [waiter EXCEPT ![w] = "waiting"]
    /\ Ends(w)
    /\ unread' = IF garbled THEN unread ELSE unread + 1
    /\ UNCHANGED <<server, garbled, inbox, asked, out, calling, poked, current, notified>>

ChangeFails(w) ==
    /\ waiter[w] \in {"registered", "header"} /\ server = "dead"
    /\ waiter' = [waiter EXCEPT ![w] = "waiting"]
    /\ Ends(w)
    /\ UNCHANGED <<server, garbled, inbox, unread, asked, out, calling, poked, current, notified>>

\* A token, or five seconds, or the end of the turn.
WaitEnds(w) ==
    /\ waiter[w] = "waiting"
    /\ waiter' = [waiter EXCEPT ![w] = "done"]
    /\ poked' = poked \ {w}
    /\ UNCHANGED <<io, calling, current, notified>>

-----------------------------------------------------------------------------
(* handleMessages. *)

\* A plausible bug: the loop is left after a request of the server.
RepliedReturns ==
    /\ loop = "body"
    /\ loop' = "ended"
    /\ Ends("loop")
    /\ UNCHANGED <<server, garbled, inbox, unread, asked, out, calling, waiting, running, crashed>>

\* The answer's second write; an error is only logged.
Replied ==
    /\ loop = "body"
    /\ loop' = "reading"
    /\ Ends("loop")
    /\ UNCHANGED <<server, garbled, inbox, unread, asked, out, calling, waiting, running, crashed>>

Reply ==
    /\ loop = "answering"
    /\ loop' = "body"
    /\ Writes("loop")
    /\ UNCHANGED <<server, inbox, unread, asked, out, calling, waiting, running, crashed>>

\* The next message; at the end of the output of a dead server the loop ends.
ReadEnd ==
    /\ loop = "reading" /\ out = <<>> /\ server = "dead"
    /\ loop' = "ended"
    /\ UNCHANGED <<io, calling, waiting, running, crashed>>

\* Any message that cannot be parsed ends the loop, though the server lives: ids are numbers
\* here, and a server may choose a string.
ReadFails ==
    /\ loop = "reading" /\ out # <<>> /\ Head(out).kind = "unreadable"
    /\ out' = Tail(out)
    /\ loop' = "lost"
    /\ UNCHANGED <<server, garbled, writing, inbox, unread, asked, calling, waiting, running, crashed>>

ReadResponse ==
    /\ loop = "reading" /\ out # <<>> /\ Head(out).kind = "response"
    /\ out' = Tail(out)
    /\ answered' = answered \cup ({Head(out).of} \cap handlers)
    /\ UNCHANGED <<server, garbled, writing, inbox, unread, asked, call, handlers,
                   waiting, notified>>

ReadRequest ==
    /\ loop = "reading" /\ out # <<>> /\ Head(out).kind = "request"
    /\ out' = Tail(out)
    /\ loop' = "answering"
    /\ UNCHANGED <<server, garbled, writing, inbox, unread, asked, calling, waiting, running, crashed>>

ReadNotification ==
    /\ loop = "reading" /\ out # <<>> /\ Head(out).kind = "publish"
    /\ out' = Tail(out)
    /\ running' = running \cup {current}
    /\ UNCHANGED <<server, garbled, writing, inbox, unread, asked, calling, waiting, loop, crashed>>

\* HandleDiagnostics, and the token if the handler is a waiter's.
HandleDiagnostics(h) ==
    /\ running' = running \ {h}
    /\ poked' = poked \cup ({h} \cap Waiters)

Handle ==
    /\ \E h \in running : HandleDiagnostics(h)
    /\ UNCHANGED <<io, calling, waiter, current, loop, crashed>>

-----------------------------------------------------------------------------
(* The server: it answers what it can read, or dies. *)

Says(m) == out' = Append(out, m)

Serve ==
    /\ server = "up" /\ ~garbled
    /\ \/ \E c \in inbox :
             /\ inbox' = inbox \ {c} /\ Says([kind |-> "response", of |-> c])
             /\ UNCHANGED unread
       \/ /\ unread > 0 /\ unread' = unread - 1 /\ Says([kind |-> "publish"])
          /\ UNCHANGED inbox
    /\ UNCHANGED <<server, garbled, writing, asked, calling, waiting, notified>>

ServerAsks ==
    /\ server = "up" /\ ~garbled /\ asked < MaxAsked
    /\ asked' = asked + 1
    /\ \E k \in {"request", "unreadable"} : Says([kind |-> k])
    /\ UNCHANGED <<server, garbled, writing, inbox, unread, calling, waiting, notified>>

Die ==
    /\ server = "up"
    /\ server' = "dead"
    /\ UNCHANGED <<garbled, writing, inbox, unread, asked, out, calling, waiting, notified>>

-----------------------------------------------------------------------------
Program ==
    \/ \E c \in Callers :
          Register(c) \/ CallHeader(c) \/ CallBody(c) \/ CallFails(c) \/ CallReturn(c)
    \/ \E w \in Waiters :
          Snapshot(w) \/ ChangeHeader(w) \/ ChangeBody(w) \/ ChangeFails(w) \/ WaitEnds(w)
    \/ Replied \/ Reply \/ ReadEnd \/ ReadFails \/ ReadResponse \/ ReadRequest
    \/ ReadNotification \/ Handle

Next == ~crashed /\ (Program \/ Serve \/ ServerAsks \/ Die)

CallStep(c) ==
    ~crashed /\ (CallHeader(c) \/ CallBody(c) \/ CallFails(c) \/ CallReturn(c))
WaitStep(w) ==
    ~crashed /\ (ChangeHeader(w) \/ ChangeBody(w) \/ ChangeFails(w) \/ WaitEnds(w))
LoopStep ==
    ~crashed /\ (Replied \/ Reply \/ ReadEnd \/ ReadFails \/ ReadResponse \/ ReadRequest
                 \/ ReadNotification)

\* Goroutines run, and a server that is up serves what it has read.
Spec ==
    /\ Init /\ [][Next]_vars
    /\ \A c \in Callers : WF_vars(CallStep(c))
    /\ \A w \in Waiters : WF_vars(WaitStep(w))
    /\ WF_vars(LoopStep) /\ WF_vars(~crashed /\ Handle) /\ WF_vars(~crashed /\ Serve)

-----------------------------------------------------------------------------
(* Properties. *)

(* A request is answered to the caller that made it, whatever else the loop   *)
(* has to do, unless the server dies, its input was garbled, the loop was left *)
(* over a message it could not read, or the runtime found the map of handlers *)
(* read and written at once.  In the first three Client.Call may wait for ever, *)
(* in the third on a server that lives; in the last the program ends.         *)
CallReturns ==
    \A c \in Callers :
       call[c] = "registered"
          ~> \/ call[c] \in {"returned", "failed"}
             \/ server = "dead" \/ garbled \/ loop = "lost" \/ crashed
=============================================================================
