-------------------------------- MODULE Turn --------------------------------
(***************************************************************************)
(* One conversation's turns, one after another: processGeneration,         *)
(* streamAndHandleEvents, finishMessage and processEvent of                *)
(* internal/llm/agent/agent.go, over the messages kept by                  *)
(* internal/message and the streams of internal/llm/provider.              *)
(*                                                                         *)
(* A turn stores the user's message, then asks the model again and again:  *)
(* each round streams an assistant message, runs the tools it calls, and   *)
(* stores one tool message with their results.  The context may be         *)
(* cancelled between any two steps, a tool may be refused, a stream may    *)
(* fail, be retried or just end, and the process may die; the next turn    *)
(* starts from what the store then holds.                                  *)
(***************************************************************************)
EXTENDS Sequences, Integers

CONSTANTS
    MaxTurns,   \* bound: turns started
    MaxRounds,  \* bound: the model stops asking for tools by this round of a turn
    MaxCalls    \* bound: tool calls in one assistant message

ASSUME BoundsAssumption ==
    MaxTurns \in Nat /\ MaxRounds \in Nat \ {0} /\ MaxCalls \in Nat

VARIABLES
    store,      \* the session's messages, in order (the messages table)
    pc,         \* where the turn is
    cancelled,  \* the turn's context is done
    history,    \* msgHistory: what the model is sent
    msg,        \* assistantMsg in memory; its row is the last of the store
    stream,     \* provider goroutine: calls streamed in this attempt, completed?
    results,    \* toolResults, filled as the loop goes
    i,          \* the loop's index into the calls of msg
    turns, rounds, made,   \* turns started, rounds of this turn, call ids used
    outcome,    \* what the last turn returned
    ran         \* history: calls whose tool was started

memory == <<history, msg, stream, results, i>>
vars == <<store, pc, cancelled, memory, turns, rounds, made, outcome, ran>>

Finishes == {"none", "stop", "end_turn", "tool_use", "max_tokens", "canceled", "permission_denied"}
Kinds == {"hole", "done", "not_found", "denied", "cancelled"}

Blank == [role |-> "user", calls |-> <<>>, finish |-> "none", results |-> <<>>]
UserMessage == [Blank EXCEPT !.finish = "stop"]
AssistantMessage == [Blank EXCEPT !.role = "assistant"]
ToolMessage(rs) == [Blank EXCEPT !.role = "tool", !.results = rs, !.finish = "stop"]
NoStream == [calls |-> <<>>, complete |-> FALSE]

Init ==
    /\ store = <<>>
    /\ pc = "idle"
    /\ cancelled = FALSE
    /\ history = <<>>
    /\ msg = AssistantMessage
    /\ stream = NoStream
    /\ results = <<>>
    /\ i = 0
    /\ turns = 0 /\ rounds = 0 /\ made = 0
    /\ outcome = "none"
    /\ ran = {}

-----------------------------------------------------------------------------
\* A plausible bug: the turn is run under context.Background().
ContextIgnored == FALSE

\* `<-ctx.Done()` is ready, or `ctx.Err() != nil`
ContextDone == cancelled

\* content.go: AddFinish replaces the reason there may be, AddToolCall appends a
\* call of a new id, SetToolCalls puts the given calls in place of all others.
AddFinish(m, reason) == [m EXCEPT !.finish = reason]
AddToolCall(m, id) == [m EXCEPT !.calls = Append(@, id)]
SetToolCalls(m, ids) == [m EXCEPT !.calls = ids]

\* messages.Update with the whole message: the row is overwritten
Saved(m) == [store EXCEPT ![Len(store)] = m]

EndTurn(how) ==
    /\ pc' = "idle"
    /\ outcome' = how
    /\ cancelled' = FALSE
    /\ history' = <<>>
    /\ msg' = AssistantMessage
    /\ stream' = NoStream
    /\ results' = <<>>
    /\ i' = 0
    /\ rounds' = 0

\* List, createUserMessage
Begin ==
    /\ pc = "idle"
    /\ turns < MaxTurns
    /\ turns' = turns + 1
    /\ store' = Append(store, UserMessage)
    /\ history' = Append(store, UserMessage)
    /\ pc' = "check"
    /\ outcome' = "none"
    /\ UNCHANGED <<cancelled, msg, stream, results, i, rounds, made, ran>>

\* the select at the head of the loop
CheckCancelled ==
    /\ pc = "check"
    /\ \/ ContextDone /\ EndTurn("cancelled")
       \/ /\ ~ContextDone
          /\ pc' = "open"
          /\ UNCHANGED <<cancelled, memory, rounds, outcome>>
    /\ UNCHANGED <<store, turns, made, ran>>

\* A plausible bug: the loop's locals survive from the round before.
OpenStreamKeepsLoop ==
    /\ pc = "open"
    /\ \/ ContextDone /\ EndTurn("cancelled") /\ UNCHANGED store
       \/ /\ ~ContextDone
          /\ rounds' = rounds + 1
          /\ store' = Append(store, AssistantMessage)
          /\ msg' = AssistantMessage
          /\ stream' = NoStream
          /\ pc' = "stream"
          /\ UNCHANGED <<cancelled, history, results, i, outcome>>
    /\ UNCHANGED <<turns, made, ran>>

\* StreamResponse, then messages.Create of the empty assistant message, which
\* fails under a context that is done.
OpenStream ==
    /\ pc = "open"
    /\ \/ ContextDone /\ EndTurn("cancelled") /\ UNCHANGED store
       \/ /\ ~ContextDone
          /\ rounds' = rounds + 1
          /\ store' = Append(store, AssistantMessage)
          /\ msg' = AssistantMessage
          /\ stream' = NoStream
          /\ results' = <<>>
          /\ i' = 0
          /\ pc' = "stream"
          /\ UNCHANGED <<cancelled, history, outcome>>
    /\ UNCHANGED <<turns, made, ran>>

-----------------------------------------------------------------------------
(* The stream.  An event is applied to msg and saved, then the context is  *)
(* looked at again (pc = "after").  Cancelling in the middle of an event   *)
(* has the effect of cancelling right after it: the save that fails is     *)
(* made up for by the save under context.Background().                     *)

\* A stream cut short by its context: finishMessage, and processGeneration's
\* own Update under context.Background().
Interrupt ==
    /\ pc \in {"stream", "after"}
    /\ ContextDone
    /\ store' = Saved(AddFinish(msg, "canceled"))
    /\ EndTurn("cancelled")
    /\ UNCHANGED <<turns, made, ran>>

AfterEvent ==
    /\ pc = "after"
    /\ ~ContextDone
    /\ pc' = "stream"
    /\ UNCHANGED <<store, cancelled, memory, turns, rounds, made, outcome, ran>>

Streaming == pc = "stream" /\ ~ContextDone /\ ~stream.complete

\* Text and reasoning deltas; they may go on for ever.
Delta ==
    /\ Streaming
    /\ pc' = "after"
    /\ UNCHANGED <<store, cancelled, memory, turns, rounds, made, outcome, ran>>

\* EventToolUseStart: AddToolCall of a new id
ToolUseStart ==
    /\ Streaming
    /\ Len(msg.calls) < MaxCalls
    /\ rounds < MaxRounds
    /\ made' = made + 1
    /\ stream' = [stream EXCEPT !.calls = Append(@, made + 1)]
    /\ msg' = AddToolCall(msg, made + 1)
    /\ store' = Saved(msg')
    /\ pc' = "after"
    /\ UNCHANGED <<cancelled, history, results, i, turns, rounds, outcome, ran>>

\* The provider retries the request: the new attempt streams from scratch,
\* while msg keeps what the first one had announced.
Retry ==
    /\ Streaming
    /\ stream.calls # <<>>
    /\ stream' = NoStream
    /\ UNCHANGED <<store, pc, cancelled, history, msg, results, i,
                   turns, rounds, made, outcome, ran>>

\* A plausible bug: the completed message is kept in memory only.
CompleteUnsaved(n, reason) ==
    /\ Streaming
    /\ n > 0 => stream.calls = <<>>
    /\ reason = "tool_use" => n + Len(stream.calls) > 0
    /\ made' = made + n
    /\ stream' = [calls |-> stream.calls \o [k \in 1 .. n |-> made + k],
                  complete |-> TRUE]
    /\ msg' = AddFinish(SetToolCalls(msg, stream'.calls), reason)
    /\ pc' = "after"
    /\ UNCHANGED <<store, cancelled, history, results, i, turns, rounds, outcome, ran>>

\* EventComplete: SetToolCalls with the calls of the final attempt (n of them
\* not announced before), AddFinish, Update.
Complete(n, reason) ==
    /\ Streaming
    /\ n > 0 => stream.calls = <<>>
    /\ reason = "tool_use" => n + Len(stream.calls) > 0
    /\ made' = made + n
    /\ stream' = [calls |-> stream.calls \o [k \in 1 .. n |-> made + k],
                  complete |-> TRUE]
    /\ msg' = AddFinish(SetToolCalls(msg, stream'.calls), reason)
    /\ store' = Saved(msg')
    /\ pc' = "after"
    /\ UNCHANGED <<cancelled, history, results, i, turns, rounds, outcome, ran>>

\* EventError: the save of finishMessage runs under the turn's context, and
\* is lost when that is cancelled just then.
StreamError ==
    /\ pc = "stream"
    /\ ~ContextDone
    /\ store' \in {Saved(AddFinish(msg, "canceled")), store}
    /\ EndTurn("error")
    /\ UNCHANGED <<turns, made, ran>>

\* The channel is closed: after a Complete, at an EOF without one, or because
\* the provider saw the context end.
StreamClosed ==
    /\ pc = "stream"
    /\ pc' = "tools"
    /\ i' = 1
    /\ results' = [k \in 1 .. Len(msg.calls) |-> [call |-> 0, kind |-> "hole"]]
    /\ UNCHANGED <<store, cancelled, history, msg, stream, turns, rounds, made,
                   outcome, ran>>

-----------------------------------------------------------------------------
(* The tool loop. *)

Calling == pc = "tools" /\ i <= Len(msg.calls)

CancelledAt(k) == [call |-> msg.calls[k], kind |-> "cancelled"]

\* Plausible bugs: the loop over the rest starts one too late, or at the first.
CancelledAfter(first, rs) ==
    [k \in DOMAIN rs |-> IF k > first THEN CancelledAt(k) ELSE rs[k]]
CancelledAll(first, rs) == [k \in DOMAIN rs |-> CancelledAt(k)]

\* toolResults with every call from the given one on cancelled
CancelledFrom(first, rs) ==
    [k \in DOMAIN rs |-> IF k >= first THEN CancelledAt(k) ELSE rs[k]]

Filled(kind) == [results EXCEPT ![i] = [call |-> msg.calls[i], kind |-> kind]]

\* `case <-ctx.Done()`, up to `goto out`
StopTools ==
    /\ Calling
    /\ ContextDone
    /\ msg' = AddFinish(msg, "canceled")
    /\ store' = Saved(msg')
    /\ results' = CancelledFrom(i, results)
    /\ i' = Len(msg.calls) + 1
    /\ UNCHANGED <<pc, cancelled, history, stream, turns, rounds, made, outcome, ran>>

ToolNotFound ==
    /\ Calling
    /\ ~ContextDone
    /\ results' = Filled("not_found")
    /\ i' = i + 1
    /\ UNCHANGED <<store, pc, cancelled, history, msg, stream, turns, rounds, made,
                   outcome, ran>>

\* tool.Run
StartTool ==
    /\ Calling
    /\ ~ContextDone
    /\ pc' = "running"
    /\ ran' = ran \cup {msg.calls[i]}
    /\ UNCHANGED <<store, cancelled, memory, turns, rounds, made, outcome>>

\* A result, an error result, or an error other than a refusal.
ToolReturns ==
    /\ pc = "running"
    /\ pc' = "tools"
    /\ results' = Filled("done")
    /\ i' = i + 1
    /\ UNCHANGED <<store, cancelled, history, msg, stream, turns, rounds, made,
                   outcome, ran>>

\* A plausible bug: the refusal is recorded but does not finish the message.
ToolDeniedQuietly ==
    /\ pc = "running"
    /\ pc' = "tools"
    /\ results' = CancelledFrom(i + 1, Filled("denied"))
    /\ i' = i + 1
    /\ UNCHANGED <<store, cancelled, history, msg, stream, turns, rounds, made,
                   outcome, ran>>

\* ErrorPermissionDenied.  The later results are written as cancelled, but the
\* `break` leaves the select, not the loop: the next call is made all the same.
\* finishMessage's save is lost under a context that is done.
ToolDenied ==
    /\ pc = "running"
    /\ pc' = "tools"
    /\ results' = CancelledFrom(i + 1, Filled("denied"))
    /\ msg' = AddFinish(msg, "permission_denied")
    /\ store' = IF ContextDone THEN store ELSE Saved(msg')
    /\ i' = i + 1
    /\ UNCHANGED <<cancelled, history, stream, turns, rounds, made, outcome, ran>>

\* `out:` with results to record: the tool message, created under
\* context.Background(); then another round, or the end of the turn.
Record ==
    /\ pc = "tools"
    /\ i > Len(msg.calls)
    /\ LET recorded == IF msg.calls = <<>> THEN store
                       ELSE Append(store, ToolMessage(results))
       IN /\ store' = recorded
          /\ \/ /\ msg.calls # <<>> /\ msg.finish = "tool_use"
                /\ history' = history \o <<msg, ToolMessage(results)>>
                /\ pc' = "check"
                /\ UNCHANGED <<cancelled, msg, stream, results, i, rounds, outcome>>
             \/ /\ msg.calls = <<>> \/ msg.finish # "tool_use"
                /\ EndTurn("response")
    /\ UNCHANGED <<turns, made, ran>>

-----------------------------------------------------------------------------
\* agent.Cancel, a closed connection, a signal
Cancel ==
    /\ pc # "idle"
    /\ ~cancelled
    /\ cancelled' = TRUE
    /\ UNCHANGED <<store, pc, memory, turns, rounds, made, outcome, ran>>

\* The process ends in the middle of a turn; the store stays.
Crash ==
    /\ pc # "idle"
    /\ EndTurn("crashed")
    /\ UNCHANGED <<store, turns, made, ran>>

ProviderStep ==
    \/ Delta
    \/ ToolUseStart
    \/ Retry
    \/ \E n \in 0 .. MaxCalls, reason \in {"end_turn", "tool_use", "max_tokens"} :
          /\ n > 0 => rounds < MaxRounds
          /\ Complete(n, reason)
    \/ StreamError
    \/ StreamClosed

TurnStep ==
    \/ CheckCancelled
    \/ OpenStream
    \/ Interrupt
    \/ AfterEvent
    \/ StopTools
    \/ ToolNotFound
    \/ StartTool
    \/ Record

ToolStep == ToolReturns \/ ToolDenied

Next == Begin \/ TurnStep \/ ProviderStep \/ ToolStep \/ Cancel \/ Crash

\* The agent's goroutine runs, tools return, and a stream whose context is
\* done brings one more event or is closed.  Nobody has to cancel, and a live
\* stream may go on for ever.
Fairness ==
    /\ WF_vars(TurnStep)
    /\ WF_vars(ToolStep)
    /\ WF_vars(ProviderStep)

Spec == Init /\ [][Next]_vars
FairSpec == Spec /\ Fairness

-----------------------------------------------------------------------------
CallIds == Nat \ {0}
Result == [call : Nat, kind : Kinds]
Message == [role : {"user", "assistant", "tool"}, calls : Seq(CallIds),
            finish : Finishes, results : Seq(Result)]

(* Every variable has its type. *)
TypeOK ==
    /\ store \in Seq(Message)
    /\ history \in Seq(Message)
    /\ msg \in Message
    /\ pc \in {"idle", "check", "open", "stream", "after", "tools", "running"}
    /\ cancelled \in BOOLEAN
    /\ stream \in [calls : Seq(CallIds), complete : BOOLEAN]
    /\ results \in Seq(Result)
    /\ i \in 0 .. Len(msg.calls) + 1
    /\ pc = "running" => i \in DOMAIN msg.calls
    /\ turns \in 0 .. MaxTurns /\ rounds \in 0 .. MaxRounds /\ made \in Nat
    /\ outcome \in {"none", "response", "error", "cancelled", "crashed"}
    /\ ran \subseteq 1 .. made

\* t answers the calls of a: one result each, in their order
AnswersTo(t, a) ==
    /\ t.role = "tool"
    /\ a.role = "assistant"
    /\ Len(t.results) = Len(a.calls)
    /\ \A k \in DOMAIN a.calls :
          t.results[k].call = a.calls[k] /\ t.results[k].kind # "hole"

(* What the store holds can be replayed to a model: every tool message answers
   the assistant message right before it, call by call, and calls are left
   without an answer only where a turn was cut short, never inside one.  A
   cancellation or a refusal may land at any index of the tool loop. *)
CallsAndResultsPair ==
    \A k \in DOMAIN store :
        /\ store[k].role = "tool" => k > 1 /\ AnswersTo(store[k], store[k - 1])
        /\ store[k].calls # <<>> /\ k < Len(store) =>
              \/ AnswersTo(store[k + 1], store[k])
              \/ store[k + 1].role = "user"

(* What the model is told happened is what happened: a result says
   "cancelled" or "not found" exactly for the calls no tool was started for,
   although the loop writes some results twice. *)
ResultsTellWhatRan ==
    \A k \in DOMAIN store : \A n \in DOMAIN store[k].results :
        LET r == store[k].results[n]
        IN r.call \in ran <=> r.kind \in {"done", "denied"}

(* Between rounds the history in memory is the history in the store, so the
   next turn, or the same conversation after a restart, continues from what
   the model has seen. *)
HistoryIsStored == pc \in {"check", "open"} => history = store

\* the messages of the running turn contain a refusal
RefusedThisTurn ==
    \E k \in DOMAIN store :
        /\ \E n \in DOMAIN store[k].results : store[k].results[n].kind = "denied"
        /\ \A j \in k .. Len(store) : store[j].role # "user"

(* A refused tool ends the turn: the model is not asked again in the turn in
   which the person said no, even when other calls went through or the
   context was cancelled around the refusal. *)
RefusalEndsTurn == [][rounds' > rounds => ~RefusedThisTurn]_vars

(* A cancelled turn ends, whatever the stream still sends. *)
CancelEndsTurn == cancelled ~> pc = "idle"

(* The store can be gone on from, and tells what was done. *)
StoreCanBeGoneOnFrom == CallsAndResultsPair /\ ResultsTellWhatRan /\ HistoryIsStored
=============================================================================
