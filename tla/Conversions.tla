---------------------------- MODULE Conversions ----------------------------
(***************************************************************************)
(* What a provider is sent for a stored conversation, what it is told of the  *)
(* tools, and how the calls that Copilot streams are put together again.      *)
(*                                                                         *)
(* A message is its role, its text, its images by their types, its calls and   *)
(* results.  A call has an id, the name of its tool, and an input that is an   *)
(* object of JSON or is not; a schema is its type, whether it lists its values, *)
(* what it requires and what is nested in it.  A request is the sequence of the *)
(* messages that are sent, each with the blocks it is made of.               *)
(***************************************************************************)
EXTENDS Naturals, Sequences, SequencesExt, FiniteSets, Functions

CONSTANTS Questions \* [kind |-> "messages" | "schema" | "chunks", ...]

VARIABLES question, answer

vars == <<question, answer>>

Providers == {"anthropic", "bedrock", "openai", "copilot", "gemini"}

-----------------------------------------------------------------------------
(* The messages that are sent: from the summary on, which then speaks as the   *)
(* user, without those that are empty.                                      *)

FromSummary(msgs, summary) ==
    IF summary = 0 THEN msgs
    ELSE [i \in 1..(Len(msgs) - summary + 1) |->
            IF i = 1 THEN [msgs[summary] EXCEPT !.role = "user"] ELSE msgs[summary + i - 1]]

CleanMessages(msgs) == SelectSeq(msgs, LAMBDA m : m.parts)

\* What tells the type of a picture: for OpenAI it is part of the address, Gemini is given the
\* second half of it, and Copilot the bare data.
TypeSent(provider, mime) ==
    CASE provider = "copilot" -> ""
      [] provider = "gemini" /\ mime = "image/png" -> "png"
      [] provider = "gemini" /\ mime = "image/jpeg" -> "jpeg"
      [] OTHER -> mime

Block(kind, of) == [kind |-> kind, of |-> of, cached |-> FALSE, input |-> TRUE]
Text(m, cached) == [Block("text", m.text) EXCEPT !.cached = cached]
Image(mime) == Block("image", mime)
Call(id) == Block("call", id)
Result(id) == Block("result", id)

\* The text of a user is sent though it be empty, that of an assistant is not.
TextsOf(m, cached) ==
    IF m.role = "user" \/ (m.role = "assistant" /\ m.text # "") THEN <<Text(m, cached)>>
    ELSE <<>>
Images(m, provider) ==
    IF m.role = "user"
    THEN [i \in DOMAIN m.images |-> Image(TypeSent(provider, m.images[i]))] ELSE <<>>
Calls(m) ==
    IF m.role = "assistant" THEN [i \in DOMAIN m.calls |-> Call(m.calls[i].id)] ELSE <<>>
Results(m) ==
    IF m.role = "tool" THEN [i \in DOMAIN m.results |-> Result(m.results[i])] ELSE <<>>

Sent(role, blocks) == [role |-> role, blocks |-> blocks]
Whole(role, blocks) == IF blocks = <<>> THEN <<>> ELSE <<Sent(role, blocks)>>

(* Anthropic: the text of the last two messages is marked to be cached, and a call whose
   input is no object is left out. *)
AnthropicConvertMessages(msgs, cache) ==
    LET Parsed(m) == [m EXCEPT !.calls = SelectSeq(@, LAMBDA c : c.object)]
        One(i) ==
            LET m == msgs[i]
                blocks == TextsOf(m, cache /\ i > Len(msgs) - 2) \o Images(m, "anthropic")
                          \o Calls(Parsed(m)) \o Results(m)
            IN IF m.role = "assistant" THEN Whole("assistant", blocks)
               ELSE <<Sent("user", blocks)>>
    IN FlattenSeq([i \in DOMAIN msgs |-> One(i)])

(* OpenAI and Copilot: the prompt of the system first, an assistant that said nothing as
   an empty message, each result as a message. *)
OpenAIConvertMessages(msgs, provider) ==
    LET One(m) ==
            IF m.role = "tool"
            THEN [i \in DOMAIN m.results |-> Sent("tool", <<Result(m.results[i])>>)]
            ELSE <<Sent(m.role, TextsOf(m, FALSE) \o Images(m, provider) \o Calls(m))>>
    IN <<Sent("system", <<>>)>> \o FlattenSeq([i \in DOMAIN msgs |-> One(msgs[i])])

\* The name for a result: that of the call in the last message that has it, or none.
NamedFor(msgs, id) ==
    LET callers == {x \in (DOMAIN msgs) \X (1..2) :
                       /\ msgs[x[1]].role = "assistant" /\ x[2] \in DOMAIN msgs[x[1]].calls
                       /\ msgs[x[1]].calls[x[2]].id = id}
        last == CHOOSE x \in callers : \A y \in callers : y[1] <= x[1]
    IN IF callers = {} THEN "" ELSE msgs[last[1]].calls[last[2]].name

(* Gemini: calls and results go by the name of the tool, an input that is no object goes
   as none. *)
GeminiConvertMessages(msgs) ==
    LET Named(m) == [i \in DOMAIN m.calls |->
                        [Call(m.calls[i].name) EXCEPT !.input = m.calls[i].object]]
        One(m) ==
            IF m.role = "tool"
            THEN [i \in DOMAIN m.results |->
                     Sent("function", <<Result(NamedFor(msgs, m.results[i]))>>)]
            ELSE IF m.role = "user"
                 THEN <<Sent("user", TextsOf(m, FALSE) \o Images(m, "gemini"))>>
                 ELSE Whole("model", TextsOf(m, FALSE) \o Named(m))
    IN FlattenSeq([i \in DOMAIN msgs |-> One(msgs[i])])

ConvertMessages(provider, msgs) ==
    CASE provider = "anthropic"            -> AnthropicConvertMessages(msgs, TRUE)
      [] provider = "bedrock"              -> AnthropicConvertMessages(msgs, FALSE)
      [] provider \in {"openai", "copilot"} -> OpenAIConvertMessages(msgs, provider)
      [] provider = "gemini"               -> GeminiConvertMessages(msgs)

\* Beside the messages: the system prompt is always marked, the last tool where caching is on.
CacheMarks(provider, wire) ==
    LET marked(w) == Cardinality({i \in DOMAIN w.blocks : w.blocks[i].cached})
    IN IF provider \notin {"anthropic", "bedrock"} THEN 0
       ELSE 1 + (IF provider = "anthropic" THEN 1 ELSE 0)
              + FoldLeft(LAMBDA n, w : n + marked(w), 0, wire)

-----------------------------------------------------------------------------
(* The parameters of a tool.  Three of the clients hand them on as they are, one of *)
(* these without what is required; Gemini's are made anew, by type, with no list of *)
(* values and nothing required within.  A tool that is "wrapped" (build, docker,    *)
(* sign and others) gives as its parameters a whole schema, in which they are       *)
(* nested, and what it requires there alone.                                        *)

Bare == [type |-> "none", listed |-> FALSE, required |-> {}, items |-> <<>>, properties |-> <<>>]

Parameters(tool) ==
    IF tool.wrapped
    THEN [n \in {"type", "properties", "required"} |->
             IF n = "properties" THEN [Bare EXCEPT !.properties = tool.parameters] ELSE Bare]
    ELSE tool.parameters

MapJSONTypeToGenAI(t) ==
    IF t \in {"string", "number", "integer", "boolean", "array", "object"} THEN t ELSE "string"

RECURSIVE ConvertToSchema(_)
ConvertToSchema(s) ==
    [type |-> MapJSONTypeToGenAI(s.type), listed |-> FALSE, required |-> {},
     items |-> IF s.type = "array" /\ s.items # <<>> THEN <<ConvertToSchema(s.items[1])>>
               ELSE <<>>,
     properties |-> IF s.type = "object"
                    THEN [p \in DOMAIN s.properties |-> ConvertToSchema(s.properties[p])]
                    ELSE <<>>]

ConvertTools(provider, tool) ==
    [properties |-> IF provider # "gemini" THEN Parameters(tool)
                    ELSE [p \in DOMAIN Parameters(tool) |-> ConvertToSchema(Parameters(tool)[p])],
     required |-> IF tool.wrapped \/ provider \in {"anthropic", "bedrock"} THEN {}
                  ELSE tool.required]

-----------------------------------------------------------------------------
(* Copilot, with a model of Anthropic's: calls come in pieces, a piece with an id   *)
(* begins one, a piece without belongs to the one begun.                        *)

Idle == [current |-> [id |-> "", args |-> <<>>], done |-> <<>>]

\* A plausible bug: what a new call displaces is forgotten.
TakeToolCallAlone(at, piece) ==
    IF piece.id = "" THEN
        IF at.current.id = "" THEN at ELSE [at EXCEPT !.current.args = @ \o piece.args]
    ELSE [at EXCEPT !.current = piece]

TakeToolCall(at, piece) ==
    IF at.current.id = "" THEN
        IF piece.id = "" THEN at ELSE [at EXCEPT !.current = piece]
    ELSE IF piece.id = "" THEN [at EXCEPT !.current.args = @ \o piece.args]
    ELSE IF piece.id = at.current.id THEN at
    ELSE [current |-> piece, done |-> Append(at.done, at.current)]

\* Of the pieces of one chunk the first alone is looked at.
TakeChunk(at, chunk) ==
    LET next == IF chunk.pieces = <<>> THEN at ELSE TakeToolCall(at, Head(chunk.pieces))
    IN IF chunk.finish THEN [next EXCEPT !.done = Append(@, next.current)] ELSE next

ToolCalls(chunks) == FoldLeft(TakeChunk, Idle, chunks).done

-----------------------------------------------------------------------------

Unasked == <<>>

Init == question \in Questions /\ answer = Unasked

Convert ==
    /\ answer = Unasked
    /\ answer' =
        <<CASE question.kind = "messages" ->
                 LET msgs == CleanMessages(FromSummary(question.msgs, question.summary))
                     wire == ConvertMessages(question.provider, msgs)
                 IN [wire |-> wire, marks |-> CacheMarks(question.provider, wire)]
            [] question.kind = "schema" -> ConvertTools(question.provider, question.tool)
            [] question.kind = "chunks" -> ToolCalls(question.chunks)>>
    /\ UNCHANGED question

Next == Convert

Spec == Init /\ [][Next]_vars

-----------------------------------------------------------------------------
(* What is said of a conversation is read off the parts of its messages, not off the
   messages a provider is sent. *)

Said(msgs) ==
    FlattenSeq([i \in DOMAIN msgs |->
        TextsOf(msgs[i], FALSE) \o Images(msgs[i], "anthropic") \o Calls(msgs[i])
        \o Results(msgs[i])])
Blocks(wire) == FlattenSeq([i \in DOMAIN wire |-> wire[i].blocks])

CallsOf(msgs) == UNION {ToSet(msgs[i].calls) : i \in DOMAIN msgs}
Unparsed(msgs) == {c.id : c \in {x \in CallsOf(msgs) : ~x.object}}

\* What a provider is to see of what was said: Copilot no type of a picture, and Gemini half
\* of it, names for ids, and no input that is no object.
Shown(b, msgs) ==
    CASE b.kind = "image" -> [b EXCEPT !.of = TypeSent(question.provider, @)]
      [] b.kind \in {"call", "result"} /\ question.provider = "gemini" ->
             [b EXCEPT !.of = (CHOOSE c \in CallsOf(msgs) : c.id = b.of).name,
                       !.input = b.kind = "result" \/ b.of \notin Unparsed(msgs)]
      [] OTHER -> b
Alike(b, c) == b.kind = c.kind /\ b.of = c.of /\ b.input = c.input

\* The answered calls, in the message after theirs, whichever way results are sent.
Answered(wire, id) ==
    LET bs == Blocks(wire)
        At(kind) == {i \in DOMAIN bs : bs[i].kind = kind /\ bs[i].of = id}
    IN /\ Cardinality(At("call")) = 1 /\ Cardinality(At("result")) = 1
       /\ \A i \in At("call"), j \in At("result") :
             i < j /\ \A k \in i..j : bs[k].kind \in {"call", "result"}

(* A conversation whose calls all have their results is sent so: every text, image, call
   and result from the summary on, in their order, and each call right before its result.
   Anthropic takes at most four marks for its cache, and gets no more.  Excepted are calls
   whose input is no object, of which Anthropic gets the result alone and Gemini the call
   without its input; the types of pictures, of which Gemini gets half and Copilot, that is
   given the bare data for an address, none; the ids, for which Gemini gets the names of the
   tools; and a conversation that was summed up in the middle of a round, whose first results
   have lost their calls in every provider's eyes. *)
MessagesSayAll ==
    (question.kind = "messages" /\ answer # Unasked) =>
        LET msgs == IF question.summary = 0 THEN question.msgs
                    ELSE SubSeq(question.msgs, question.summary, Len(question.msgs))
            lost == IF question.provider \in {"anthropic", "bedrock"} THEN Unparsed(msgs)
                    ELSE {}
            summed(b) == b.kind = "result" /\ ~\E c \in ToSet(Said(msgs)) :
                                                  c.kind = "call" /\ c.of = b.of
            bs == SelectSeq(Blocks(answer[1].wire), LAMBDA b : ~(b.kind = "result" /\ b.of = ""))
            due == SelectSeq(Said(msgs), LAMBDA b :
                       /\ ~(b.kind = "call" /\ b.of \in lost)
                       /\ ~(summed(b) /\ question.provider = "gemini"))
        IN /\ Len(bs) = Len(due) /\ \A i \in DOMAIN bs : Alike(bs[i], Shown(due[i], msgs))
           /\ answer[1].marks <= 4
           /\ \A i \in DOMAIN msgs : msgs[i].role = "tool" /\ question.provider # "gemini" =>
                 \A j \in DOMAIN msgs[i].results :
                    LET id == msgs[i].results[j]
                    IN id \in lost \/ summed(Result(id)) \/ Answered(answer[1].wire, id)

\* A schema as it is, but for types that nobody knows and for what Gemini's are made without.
RECURSIVE SameSchema(_, _)
SameSchema(s, t) ==
    /\ \/ t.type = s.type
       \/ t.type = "string" /\ s.type \notin {"string", "number", "integer", "boolean",
                                              "array", "object"}
    /\ question.provider = "gemini" \/ (t.listed = s.listed /\ t.required = s.required)
    /\ s.type = "array" => Len(t.items) = Len(s.items)
                           /\ \A i \in DOMAIN s.items : SameSchema(s.items[i], t.items[i])
    /\ s.type = "object" => DOMAIN t.properties = DOMAIN s.properties
                            /\ \A p \in DOMAIN s.properties :
                                  SameSchema(s.properties[p], t.properties[p])

(* A provider is told each parameter of a tool by its name and as it was declared, and which
   are required.  Excepted are what is required, which Anthropic is never told, the values
   and the inner requirements that Gemini's schemas are made without, and the tools that
   declare their parameters a level too deep: these arrive as deep, and in Gemini's request
   not at all. *)
SchemaKept ==
    (question.kind = "schema" /\ answer # Unasked) =>
        LET tool == question.tool
            sent == answer[1]
        IN IF tool.wrapped
           THEN \/ question.provider = "gemini"
                \/ sent.properties["properties"].properties = tool.parameters
           ELSE /\ DOMAIN sent.properties = DOMAIN tool.parameters
                /\ \A p \in DOMAIN tool.parameters :
                      SameSchema(tool.parameters[p], sent.properties[p])
                /\ question.provider \in {"anthropic", "bedrock"} \/ sent.required = tool.required

(* Of calls that come one after another, each with its id once, the agent is given each with
   all its arguments in order.  Excepted are chunks with several pieces, and streams that do
   not end with "tool_calls". *)
Pieces(chunks) == FlattenSeq([i \in DOMAIN chunks |-> chunks[i].pieces])

ArgsOf(ps, i) ==
    LET until == {j \in (i + 1)..Len(ps) : ps[j].id # ""}
        end == IF until = {} THEN Len(ps) ELSE (CHOOSE j \in until : \A k \in until : j <= k) - 1
    IN FlattenSeq([k \in 1..(end - i + 1) |-> ps[i + k - 1].args])

CallsGathered ==
    (question.kind = "chunks" /\ answer # Unasked) =>
        LET ps == Pieces(question.chunks)
            begins == SelectSeq([i \in DOMAIN ps |-> i], LAMBDA i : ps[i].id # "")
            legal == /\ begins # <<>> /\ begins[1] = 1
                     /\ \A i, j \in DOMAIN ps : ps[i].id = ps[j].id /\ ps[i].id # "" => i = j
                     /\ \A i \in DOMAIN question.chunks :
                           /\ Len(question.chunks[i].pieces) <= 1
                           /\ question.chunks[i].finish <=> i = Len(question.chunks)
        IN legal => answer[1] = [i \in DOMAIN begins |->
                                    [id |-> ps[begins[i]].id, args |-> ArgsOf(ps, begins[i])]]

(* What is converted says what was to be said. *)
ConversionsKeepAll == MessagesSayAll /\ SchemaKept /\ CallsGathered
=============================================================================
