------------------------------- MODULE Embed -------------------------------
(***************************************************************************)
(* The library as a program sees it: pkg/svpc, with Ask, Answer and Close   *)
(* called from any goroutine, above agent.Run and processGeneration, of     *)
(* which this module keeps what a caller can see: the rows a turn needs, the *)
(* one event a turn ends with, and the channel that event comes through.    *)
(* What happens inside a turn is Turn, inside activeRequests Agent.         *)
(***************************************************************************)
EXTENDS Naturals, Sequences

CONSTANTS
    Asks,       \* calls of Ask and Answer
    Stored,     \* conversations the store holds, begun in the terminal or the bridge
    NoSession,  \* the empty session id
    MaxCalls,   \* bound: tool calls in one message
    MaxRounds   \* bound: rounds of tools in one turn

VARIABLES
    call,       \* ask -> how it was called and where it is
    turn,       \* ask -> the goroutine Run has started for it
    active,     \* the sessions in activeRequests
    told,       \* ask -> what its callback was given
    closing     \* how far Close has come

vars == <<call, turn, active, told, closing>>

NoEvent == [text |-> FALSE, calls |-> 0, err |-> FALSE]
NoTurn == [at |-> "none", rounds |-> 0, event |-> NoEvent, why |-> "none"]

Init ==
    /\ call = [a \in Asks |-> [at |-> "idle", session |-> NoSession, answer |-> FALSE,
                               stops |-> FALSE, err |-> "none"]]
    /\ turn = [a \in Asks |-> NoTurn]
    /\ active = {}
    /\ told = [a \in Asks |-> <<>>]
    /\ closing = "open"

Goes(a, where) == call' = [call EXCEPT ![a].at = where]
Returns(a, e) == call' = [call EXCEPT ![a].at = "returned", ![a].err = e]
Session(a) == call[a].session
StoreOpen == closing # "closed"

-----------------------------------------------------------------------------
(* The caller.                                                               *)

\* check, then Run: Close may come between the two.  A caller may stop watching at
\* the first event; Answer never does.
Ask(a) ==
    /\ call[a].at = "idle"
    /\ \E s \in Stored \cup {NoSession}, answer \in BOOLEAN, stops \in BOOLEAN :
          /\ answer => ~stops
          /\ call' = [call EXCEPT ![a] =
                [at |-> IF closing = "open" THEN "run" ELSE "returned", session |-> s,
                 answer |-> answer, stops |-> stops,
                 err |-> IF closing = "open" THEN "none" ELSE "closed"]]
    /\ UNCHANGED <<turn, active, told, closing>>

Run(a) ==
    /\ call[a].at = "run"
    /\ IF Session(a) \in active
       THEN Returns(a, "busy") /\ UNCHANGED <<turn, active>>
       ELSE /\ Goes(a, "range")
            /\ active' = active \cup {Session(a)}
            /\ turn' = [turn EXCEPT ![a].at = "begin"]
    /\ UNCHANGED <<told, closing>>

\* What Ask makes of the one event: the text goes along with every call.
Given(e) ==
    [i \in 1..e.calls |-> [text |-> e.text, tool |-> TRUE, error |-> FALSE]]
    \o (IF e.err THEN <<[text |-> e.text, tool |-> FALSE, error |-> TRUE]>> ELSE <<>>)
    \o (IF e.text THEN <<[text |-> TRUE, tool |-> FALSE, error |-> FALSE]>> ELSE <<>>)

Receive(a) ==
    /\ call[a].at = "range" /\ turn[a].at \in {"send", "panicked"}
    /\ LET given == Given(turn[a].event)
           stopped == call[a].stops /\ given # <<>>
       IN /\ told' = [told EXCEPT ![a] = IF stopped THEN SubSeq(given, 1, 1) ELSE given]
          /\ IF stopped THEN Returns(a, "none") ELSE Goes(a, "drain")
    /\ turn' = [turn EXCEPT ![a].at = IF @ = "send" THEN "close" ELSE "gone"]
    /\ UNCHANGED <<active, closing>>

\* The range ends when the channel is closed, and Ask returns nil whatever it was told.
ChannelClosed(a) ==
    /\ call[a].at = "drain" /\ turn[a].at = "over"
    /\ Returns(a, "none")
    /\ UNCHANGED <<turn, active, told, closing>>

-----------------------------------------------------------------------------
(* The turn.                                                                 *)

\* A plausible bug: the error takes the unfinished message with it.
EndsWithMessage(a, e, why) ==
    /\ turn' = [turn EXCEPT ![a].at = "send", ![a].why = why,
                            ![a].event = [e EXCEPT !.text = @ \/ why = "cancelled"]]
    /\ active' = active \ {Session(a)}

\* The turn is over: its entry is deleted, then the event is sent.  An error comes
\* with no message (agent.err).
Ends(a, e, why) ==
    /\ turn' = [turn EXCEPT ![a].at = "send", ![a].event = e, ![a].why = why]
    /\ active' = active \ {Session(a)}

Failure == [text |-> FALSE, calls |-> 0, err |-> TRUE]

\* processGeneration: the messages, the session's row, the user's message.
Begin(a) ==
    /\ turn[a].at = "begin"
    /\ IF ~StoreOpen THEN Ends(a, Failure, "store")
       ELSE IF Session(a) \notin Stored THEN Ends(a, Failure, "no row")
       ELSE turn' = [turn EXCEPT ![a].at = "stream"] /\ UNCHANGED active
    /\ UNCHANGED <<call, told, closing>>

\* A round: the model's message is stored as it comes; its calls are run, or refused,
\* which ends the turn with the message that made them.
Round(a) ==
    /\ turn[a].at = "stream"
    /\ IF ~StoreOpen THEN Ends(a, Failure, "store")
       ELSE \E text \in BOOLEAN, n \in 0..MaxCalls :
            \/ n = 0 /\ Ends(a, [text |-> text, calls |-> 0, err |-> FALSE], "answered")
            \/ /\ n > 0 /\ turn[a].rounds < MaxRounds
               /\ turn' = [turn EXCEPT ![a].at = "tools", ![a].rounds = @ + 1,
                              ![a].event = [text |-> text, calls |-> n, err |-> FALSE]]
               /\ UNCHANGED active
    /\ UNCHANGED <<call, told, closing>>

ToolsRun(a) ==
    /\ turn[a].at = "tools"
    /\ \/ StoreOpen /\ turn' = [turn EXCEPT ![a].at = "stream"] /\ UNCHANGED active
       \/ StoreOpen /\ Ends(a, turn[a].event, "denied")
       \/ ~StoreOpen /\ Ends(a, Failure, "store")
    /\ UNCHANGED <<call, told, closing>>

\* The caller's context is done, or the provider fails.  A turn cancelled among its
\* tools ends with the message that called them.
Cancelled(a) ==
    /\ \/ turn[a].at \in {"begin", "stream"} /\ Ends(a, Failure, "cancelled")
       \/ turn[a].at = "tools" /\ Ends(a, turn[a].event, "cancelled")
    /\ UNCHANGED <<call, told, closing>>

\* RecoverPanic sends an error; entry and channel stay as they are.
Panic(a) ==
    /\ turn[a].at \in {"begin", "stream", "tools"}
    /\ turn' = [turn EXCEPT ![a].at = "panicked", ![a].event = Failure, ![a].why = "panic"]
    /\ UNCHANGED <<call, active, told, closing>>

\* A plausible bug: the channel is closed on the way out of a good turn only.
CloseAfterAnswer(a) ==
    /\ turn[a].at = "close" /\ ~turn[a].event.err
    /\ turn' = [turn EXCEPT ![a].at = "over"]
    /\ UNCHANGED <<call, active, told, closing>>

CloseChannel(a) ==
    /\ turn[a].at = "close"
    /\ turn' = [turn EXCEPT ![a].at = "over"]
    /\ UNCHANGED <<call, active, told, closing>>

-----------------------------------------------------------------------------
(* Close: the flag, the context of subscriptions and servers, the permission  *)
(* service and the servers, the store.  No turn's context is among them.      *)

Close ==
    /\ closing = "open"
    /\ closing' = "shutdown"
    /\ UNCHANGED <<call, turn, active, told>>

CloseStore ==
    /\ closing = "shutdown"
    /\ closing' = "closed"
    /\ UNCHANGED <<call, turn, active, told>>

TurnStep(a) == Begin(a) \/ Round(a) \/ ToolsRun(a) \/ CloseChannel(a)
CallerStep(a) == Run(a) \/ Receive(a) \/ ChannelClosed(a)

Next ==
    \/ \E a \in Asks : Ask(a) \/ CallerStep(a) \/ TurnStep(a) \/ Cancelled(a) \/ Panic(a)
    \/ Close \/ CloseStore

Fairness == \A a \in Asks : WF_vars(TurnStep(a)) /\ WF_vars(CallerStep(a))

Spec == Init /\ [][Next]_vars
FairSpec == Spec /\ Fairness

-----------------------------------------------------------------------------
(* prompt.go:34: "Error ends the turn.  Nothing after it."  It holds because an
   error event never carries a message. *)
ErrorIsLast ==
    \A a \in Asks : \A i \in DOMAIN told[a] : told[a][i].error => i = Len(told[a])

(* Every Ask and every Answer returns, unless its turn panics: a panic leaves the
   channel open, and the loop over it never ends. *)
AskReturns ==
    \A a \in Asks :
        (call[a].at = "run") ~> (call[a].at = "returned" \/ turn[a].why = "panic")

(* prompt.go:60: "An empty session starts a new conversation."  A turn with an empty
   session fails for the reasons any turn may fail for, and no other: its context,
   its provider, its store, a panic. *)
EmptySessionStarts ==
    \A a \in Asks :
        Session(a) = NoSession /\ turn[a].event.err
        => turn[a].why \in {"cancelled", "store", "panic"}

(* A caller is told how its turn ended, and gets out. *)
CallersAreTold == []ErrorIsLast /\ AskReturns
=============================================================================
