------------------------------ MODULE Streams ------------------------------
(***************************************************************************)
(* One request to a model: stream and send of the Anthropic, OpenAI, Gemini *)
(* and Copilot clients in internal/llm/provider.  Each asks the service,    *)
(* passes on what it says over a channel without a buffer, and asks again   *)
(* after a refusal it takes for temporary, eight times at most.  They are   *)
(* not written alike; the differences are what the model is about.          *)
(***************************************************************************)
EXTENDS Naturals, Sequences

CONSTANTS
    MaxRetries,  \* maxRetries, 8 in the code
    MaxAttempts  \* bound: requests, for the loops that maxRetries does not end

ASSUME RetriesAssumption == MaxRetries \in Nat

Clients == {"anthropic", "openai", "gemini", "copilot"}
Failures == {"limit", "overloaded", "internal", "unauthorised", "other"}

VARIABLES
    client, mode,  \* whose code runs, and "stream" or "send"
    at,            \* where its goroutine is
    attempts,
    heard,         \* the service has said something in this attempt
    calls,         \* the attempts the accumulated tool calls come from
    token,         \* Copilot has renewed its token for the next attempt
    cancelled,     \* the context is done
    listening,     \* streamAndHandleEvents still ranges over the channel
    told,          \* the events it was sent
    excused        \* history: an answer broke off or none came, or an error came after it

what == <<client, mode>>
asked == <<attempts, heard, calls, token>>
streamVars == <<what, at, asked, cancelled, listening, told, excused>>

StreamInit ==
    /\ client \in Clients /\ mode \in {"stream", "send"}
    /\ at = "request" /\ attempts = 0
    /\ heard = FALSE /\ calls = {} /\ token = FALSE
    /\ cancelled = FALSE /\ listening = TRUE /\ told = <<>> /\ excused = FALSE

Moves(from, to) == at = from /\ at' = to

-----------------------------------------------------------------------------
(* The channel: an event is sent when the agent takes it.  After an error, or *)
(* under a cancelled context, the agent leaves, and no further event can be   *)
(* sent.                                                                      *)

Event(kind) == [kind |-> kind, calls |-> calls]

Emit(kind) ==
    /\ listening
    /\ told' = Append(told, Event(kind))
    /\ listening' = (kind \notin {"error", "nil error"} /\ ~cancelled)

Silent == UNCHANGED <<told, listening>>

\* What a request ends with: an event and a closed channel, or a returned value.
Finish(kind) ==
    /\ at' = "closed"
    /\ IF mode = "stream" THEN Emit(kind)
       ELSE told' = Append(told, Event(kind)) /\ UNCHANGED listening

-----------------------------------------------------------------------------
\* A plausible bug: what is accumulated is declared outside the loop.
RequestAccumulates ==
    /\ Moves("request", "streaming") /\ attempts < MaxAttempts
    /\ attempts' = attempts + 1
    /\ heard' = FALSE /\ token' = FALSE
    /\ UNCHANGED <<what, calls, cancelled, listening, told, excused>>

Request ==
    /\ Moves("request", "streaming") /\ attempts < MaxAttempts
    /\ attempts' = attempts + 1
    /\ heard' = FALSE /\ calls' = {} /\ token' = FALSE
    /\ UNCHANGED <<what, cancelled, listening, told, excused>>

\* Text: one event stands for all of an attempt.
Delta ==
    /\ at = "streaming" /\ mode = "stream" /\ ~heard
    /\ heard' = TRUE /\ Emit("delta")
    /\ UNCHANGED <<what, at, attempts, calls, token, cancelled, excused>>

\* A tool call: Anthropic's is announced, the others' are only accumulated.
ToolCall ==
    /\ at = "streaming" /\ mode = "stream" /\ attempts \notin calls
    /\ heard' = TRUE /\ calls' = calls \cup {attempts}
    /\ IF client = "anthropic" THEN Emit("tool use") ELSE Silent
    /\ UNCHANGED <<what, at, attempts, token, cancelled, excused>>

\* Anthropic says itself that the message is complete.
MessageStop ==
    /\ client = "anthropic" /\ mode = "stream" /\ heard
    /\ Moves("streaming", "stopped") /\ Emit("complete")
    /\ UNCHANGED <<what, asked, cancelled, excused>>

\* The end of the stream without an error, whether or not the answer was whole.
EndOfStream ==
    /\ mode = "stream"
    /\ \/ client = "anthropic" /\ at = "stopped" /\ at' = "closed"
          /\ Silent /\ UNCHANGED excused
       \/ client = "anthropic" /\ at = "streaming" /\ at' = "closed"
          /\ Silent /\ excused' = TRUE
       \/ client # "anthropic" /\ at = "streaming" /\ heard
          /\ Finish("complete") /\ UNCHANGED excused
       \/ client = "gemini" /\ at = "streaming" /\ ~heard   \* asks again, for ever
          /\ at' = "request" /\ Silent /\ excused' = TRUE
       \/ client \in {"openai", "copilot"} /\ at = "streaming" /\ ~heard
          /\ at' = "crashed"                                \* Choices[0] of none
          /\ Silent /\ UNCHANGED excused
    /\ UNCHANGED <<what, asked, cancelled>>

\* send: the whole answer at once.  OpenAI's and Copilot's may hold no choice.
Response ==
    /\ mode = "send" /\ at = "streaming"
    /\ \/ Finish("complete")
       \/ client \in {"openai", "copilot"} /\ at' = "crashed" /\ Silent
    /\ UNCHANGED <<what, asked, cancelled, excused>>

-----------------------------------------------------------------------------
(* shouldRetry and what is made of it. *)

Temporary(failure) ==
    failure \in CASE client = "anthropic" -> {"limit", "overloaded"}
                  [] client = "gemini" -> {"limit"}
                  [] OTHER -> {"limit", "internal"}

Exhausted == attempts > MaxRetries

\* A failed request: a cancelled context fails it too, for good.
Failed(failure) ==
    /\ at \in {"streaming", "stopped"}
    /\ cancelled => failure = "other"
    /\ excused' = (excused \/ at = "stopped")

GivesUp ==
    /\ \E failure \in Failures :
          /\ Failed(failure)
          /\ ~Temporary(failure) \/ Exhausted
    /\ Finish("error")
    /\ UNCHANGED <<what, asked, cancelled>>

BacksOff ==
    /\ \E failure \in Failures : Failed(failure) /\ Temporary(failure)
    /\ ~Exhausted
    /\ at' = "backoff" /\ Silent
    /\ UNCHANGED <<what, asked, cancelled>>

\* Copilot renews its token and asks again, however often it has.  In a stream the
\* count is then looked at once more, and an error without a cause is sent.
RenewsToken ==
    /\ client = "copilot" /\ Failed("unauthorised")
    /\ IF Exhausted /\ mode = "stream"
       THEN Finish("nil error") /\ UNCHANGED token
       ELSE at' = "backoff" /\ token' = TRUE /\ Silent
    /\ UNCHANGED <<what, attempts, heard, calls, cancelled>>

\* The pause is over.  In Gemini's stream a break meant for the loop leaves the
\* select only: what follows uses the answer that never came.
AsksAgain ==
    /\ Moves("backoff", IF client = "gemini" /\ mode = "stream" THEN "crashed" ELSE "request")
    /\ UNCHANGED <<what, asked, cancelled, listening, told, excused>>

\* Cancelled in the pause.  Two of the streams test the wrong way round whether
\* there is an error to send.
StopsWaiting ==
    /\ at = "backoff" /\ cancelled
    /\ IF client \in {"openai", "copilot"} /\ mode = "stream"
       THEN at' = "closed" /\ Silent
       ELSE Finish("error")
    /\ UNCHANGED <<what, asked, cancelled, excused>>

Cancel ==
    /\ ~cancelled /\ cancelled' = TRUE
    /\ UNCHANGED <<what, at, asked, listening, told, excused>>

StreamNext ==
    \/ Request \/ Delta \/ ToolCall \/ MessageStop \/ EndOfStream \/ Response
    \/ GivesUp \/ BacksOff \/ RenewsToken \/ AsksAgain \/ StopsWaiting \/ Cancel

StreamSpec == StreamInit /\ [][StreamNext]_streamVars

-----------------------------------------------------------------------------
EventKinds == {"delta", "tool use", "complete", "error", "nil error"}

(* Every variable has its type. *)
StreamTypeOK ==
    /\ client \in Clients /\ mode \in {"stream", "send"}
    /\ at \in {"request", "streaming", "stopped", "backoff", "closed", "crashed"}
    /\ attempts \in Nat /\ heard \in BOOLEAN /\ calls \subseteq Nat /\ token \in BOOLEAN
    /\ cancelled \in BOOLEAN /\ listening \in BOOLEAN /\ excused \in BOOLEAN
    /\ told \in Seq([kind : EventKinds, calls : SUBSET Nat])

-----------------------------------------------------------------------------
(* Properties. *)

Terminal == {i \in DOMAIN told : told[i].kind \in {"complete", "error", "nil error"}}

(* Whatever was refused and asked again, the agent is told once how a request *)
(* ended, and last of all, and an answer holds the tool calls of the attempt  *)
(* that gave it and no other's.  A service that keeps refusing is asked       *)
(* MaxRetries times more.  Excused are a cancelled request, an answer that    *)
(* breaks off or never comes, a failure after Anthropic's message_stop, and   *)
(* Copilot's tokens, which are renewed for ever when no stream counts along.  *)
(* Nor is the end told when the goroutine panics, which happens in two cases  *)
(* and no other: Gemini's stream has been refused for a while and goes on with *)
(* the answer it did not get (gemini.go:313-324), and OpenAI or Copilot have   *)
(* answered without a choice (openai.go:224, :288, copilot.go:360, :496).     *)
StreamEndsOnce ==
    ~excused =>
       /\ at = "closed" /\ ~cancelled => Terminal # {}
       /\ at = "crashed" =>
             /\ Terminal = {}
             /\ \/ client = "gemini" /\ mode = "stream" /\ attempts <= MaxRetries
                \/ client \in {"openai", "copilot"} /\ (mode = "stream" => ~heard)
       /\ \A i \in Terminal :
             i = Len(told) /\ (told[i].kind = "complete" => told[i].calls \subseteq {attempts})
       /\ attempts > MaxRetries + 1 => client = "copilot" /\ mode = "send"
=============================================================================
