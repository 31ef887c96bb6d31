------------------------------- MODULE Parts -------------------------------
(***************************************************************************)
(* A message as a list of parts (message/content.go), how a turn makes it   *)
(* grow, and how it goes to its row and comes back (message/message.go).    *)
(***************************************************************************)
EXTENDS Naturals, Sequences, SequencesExt

CONSTANTS
    Deltas,     \* pieces of text
    CallIDs, Reasons,
    PartsNone,  \* not a reason
    MaxSteps    \* bound: changes to the message

VARIABLES
    parts,      \* Message.Parts
    partsRow,   \* the parts column of its row
    steps,      \* counter
    said,       \* history: what the turn said, by kind
    saved       \* history: said, when the row was written

partsVars == <<parts, partsRow, steps, said, saved>>

Text(t) == [kind |-> "text", text |-> t]
Reasoning(t) == [kind |-> "reasoning", text |-> t]
CallPart(id, input, finished) ==
    [kind |-> "tool_call", id |-> id, input |-> input, finished |-> finished]
Result(id) == [kind |-> "tool_result", id |-> id]
FinishPart(r) == [kind |-> "finish", reason |-> r]
Binary == [kind |-> "binary"]
ImageURL == [kind |-> "image_url"]

-----------------------------------------------------------------------------
(* Reading a message.                                                        *)

\* The parts at some places, in their order.
Picked(ps, places) ==
    LET some[n \in 0..Len(ps)] ==
            IF n = 0 THEN <<>>
            ELSE IF n \in places THEN Append(some[n - 1], ps[n]) ELSE some[n - 1]
    IN some[Len(ps)]

Of(ps, kind) == Picked(ps, {i \in DOMAIN ps : ps[i].kind = kind})
AllBut(ps, kind) == Picked(ps, {i \in DOMAIN ps : ps[i].kind # kind})

Content(ps) == IF Of(ps, "text") = <<>> THEN <<>> ELSE Head(Of(ps, "text")).text
ReasoningContent(ps) ==
    IF Of(ps, "reasoning") = <<>> THEN <<>> ELSE Head(Of(ps, "reasoning")).text
FinishReason(ps) ==
    IF Of(ps, "finish") = <<>> THEN PartsNone ELSE Head(Of(ps, "finish")).reason

Told(ps) ==
    [text |-> Content(ps), thinking |-> ReasoningContent(ps), calls |-> Of(ps, "tool_call"),
     results |-> Of(ps, "tool_result"), binaries |-> Len(Of(ps, "binary")),
     images |-> Len(Of(ps, "image_url")), reason |-> FinishReason(ps)]

-----------------------------------------------------------------------------
(* Changing it.                                                              *)

\* Every part of the kind gets the delta, and the first one makes the part.
Grown(kind, d) ==
    IF Of(parts, kind) = <<>> THEN Append(parts, [kind |-> kind, text |-> <<d>>])
    ELSE [i \in DOMAIN parts |->
            IF parts[i].kind = kind THEN [parts[i] EXCEPT !.text = Append(@, d)] ELSE parts[i]]

CallAt(id) == SelectInSeq(parts, LAMBDA p : p.kind = "tool_call" /\ p.id = id)

AppendContent(d) ==
    /\ parts' = Grown("text", d)
    /\ said' = [said EXCEPT !.text = Append(@, d)]

AppendReasoningContent(d) ==
    /\ parts' = Grown("reasoning", d)
    /\ said' = [said EXCEPT !.thinking = Append(@, d)]

\* The calls said, with one of them made to be c.
Saying(id, c) ==
    LET i == SelectInSeq(said.calls, LAMBDA x : x.id = id)
    IN IF i = 0 THEN Append(said.calls, c) ELSE [said.calls EXCEPT ![i] = c]

\* A plausible bug: the call that ends is added beside the one that began.
AddToolCallAgain(c) ==
    /\ parts' = Append(parts, c)
    /\ said' = [said EXCEPT !.calls = Saying(c.id, c)]

AddToolCall(c) ==
    /\ parts' = IF CallAt(c.id) = 0 THEN Append(parts, c) ELSE [parts EXCEPT ![CallAt(c.id)] = c]
    /\ said' = [said EXCEPT !.calls = Saying(c.id, c)]

\* FinishToolCall and AppendToolCallInput
ChangeCall(id, f(_)) ==
    /\ CallAt(id) # 0
    /\ parts' = [parts EXCEPT ![CallAt(id)] = f(@)]
    /\ said' = [said EXCEPT !.calls = Saying(id, f(parts[CallAt(id)]))]

SetToolCalls(cs) ==
    /\ parts' = AllBut(parts, "tool_call") \o cs
    /\ said' = [said EXCEPT !.calls = cs]

AddToolResult(id) ==
    /\ parts' = Append(parts, Result(id))
    /\ said' = [said EXCEPT !.results = Append(@, Result(id))]

\* The finish that is there goes.
AddFinish(r) ==
    LET i == SelectInSeq(parts, LAMBDA p : p.kind = "finish")
    IN /\ parts' = Append(IF i = 0 THEN parts ELSE RemoveAt(parts, i), FinishPart(r))
       /\ said' = [said EXCEPT !.reason = r]

AddBinary == parts' = Append(parts, Binary) /\ said' = [said EXCEPT !.binaries = @ + 1]
\* Nothing in the program calls it yet.
AddImageURL == parts' = Append(parts, ImageURL) /\ said' = [said EXCEPT !.images = @ + 1]

-----------------------------------------------------------------------------
(* Storing it.                                                               *)

\* A message of anybody but the assistant is finished when it is made.
Created(role, ps) == IF role = "assistant" THEN ps ELSE Append(ps, FinishPart("stop"))

\* Parts of the kind image_url are written, and dropped when they are read.
Unmarshal(ps) == AllBut(ps, "image_url")

PartsInit ==
    /\ \E role \in {"user", "assistant"}, ps \in {<<>>, <<Text(<<>>), Binary>>} :
          /\ role = "user" => ps # <<>>
          /\ parts = Unmarshal(Created(role, ps))
    /\ partsRow = parts /\ said = Told(parts) /\ saved = said /\ steps = 0

ChangeParts ==
    /\ steps < MaxSteps /\ steps' = steps + 1
    /\ \/ \E d \in Deltas : AppendContent(d) \/ AppendReasoningContent(d)
       \/ \E id \in CallIDs, d \in Deltas :
             \/ AddToolCall(CallPart(id, <<d>>, TRUE))
             \/ ChangeCall(id, LAMBDA c : [c EXCEPT !.finished = TRUE])
             \/ ChangeCall(id, LAMBDA c : [c EXCEPT !.input = Append(@, d)])
       \/ \E id \in CallIDs : AddToolCall(CallPart(id, <<>>, FALSE)) \/ AddToolResult(id)
       \/ \E ids \in {<<id>> : id \in CallIDs} \cup {<<>>} :
             SetToolCalls([i \in DOMAIN ids |-> CallPart(ids[i], <<>>, TRUE)])
       \/ \E r \in Reasons : AddFinish(r)
       \/ AddBinary \/ AddImageURL
    /\ UNCHANGED <<partsRow, saved>>

Update ==
    /\ partsRow' = parts /\ saved' = said
    /\ UNCHANGED <<parts, steps, said>>

\* Somebody reads the row and goes on from it.
GetMessage ==
    /\ parts' = Unmarshal(partsRow) /\ said' = [saved EXCEPT !.images = 0]
    /\ UNCHANGED <<partsRow, steps, saved>>

PartsNext == ChangeParts \/ Update \/ GetMessage

PartsSpec == PartsInit /\ [][PartsNext]_partsVars

-----------------------------------------------------------------------------

(* What is read from the row of a message is what was said until it was written, kind
   by kind: each text once and whole, each call once with its last input, the results in
   order, every picture that is carried as data, one reason, the last.  Excepted are
   pictures given as an address, which are written and of which none is read back. *)
RowTellsAll ==
    /\ Told(Unmarshal(partsRow)) = [saved EXCEPT !.images = 0]
    /\ \A kind \in {"text", "reasoning", "finish"} : Len(Of(parts, kind)) <= 1
=============================================================================
