----------------------------- MODULE Transcript -----------------------------
(***************************************************************************)
(* The conversation as the terminal window shows it                         *)
(* (internal/tui/components/chat/list.go and message.go) beside the agents  *)
(* that write it: the window reads a conversation when it is selected,       *)
(* follows the message events from then on, and keeps what it rendered of    *)
(* each message until something it depends on is known to have changed.      *)
(*                                                                         *)
(* How the broker and its pump pass events on is Terminal; here they are a   *)
(* queue that loses what does not fit.                                      *)
(***************************************************************************)
EXTENDS Naturals, Sequences, FiniteSets, SequencesExt

CONSTANTS
    Chats,       \* the conversations of the dialog
    Script,      \* chat -> the writes of its turn, in order
    Nobody,      \* no chat, no message
    Buffer,      \* events that can wait
    MaxSelects,  \* bound: selections and ctrl+n
    MaxSizes     \* bound: changes of the window's size

(* A write is [type, msg]; a message is [id, chat, role, version, calls, results].
   A task tool's child writes as the chat named like the call. *)
Writes == UNION {Range(Script[c]) : c \in Chats}
Places == {w.msg.chat : w \in Writes}
Ids == {w.msg.id : w \in Writes}
Owner(p) == CHOOSE c \in Chats : \E w \in Range(Script[c]) : w.msg.chat = p

VARIABLES
    stored,      \* place -> its messages in the database
    written,     \* chat -> how many of its writes are stored
    unpublished, \* chat -> the write whose event is still to be published
    events,      \* published, not delivered yet
    session,     \* the chat shown, or Nobody
    messages, currentMsgID, cachedContent, width,
    uiMessages,  \* what the viewport was last given
    renders,     \* SetSession's renderView calls still to run
    selects, sizes,
    stale        \* history: chats with lost events, or that changed while not shown

view == <<session, messages, currentMsgID, cachedContent, width, uiMessages, renders>>
vars == <<stored, written, unpublished, events, view, selects, sizes, stale>>

NoCache == [width |-> 0, content |-> Nobody]

Init ==
    /\ stored = [p \in Places |-> <<>>]
    /\ written = [c \in Chats |-> 0]
    /\ unpublished = [c \in Chats |-> Nobody]
    /\ events = <<>>
    /\ session = Nobody /\ messages = <<>> /\ currentMsgID = Nobody
    /\ cachedContent = [i \in Ids |-> NoCache]
    /\ width = 0 /\ uiMessages = <<>> /\ renders = 0
    /\ selects = 0 /\ sizes = 0 /\ stale = {}

-----------------------------------------------------------------------------
(* The agents: messages.Create and messages.Update store, then publish.       *)

Position(ms, id) == SelectInSeq(ms, LAMBDA m : m.id = id)

Store(c) ==
    /\ unpublished[c] = Nobody /\ written[c] < Len(Script[c])
    /\ LET w == Script[c][written[c] + 1]
           p == w.msg.chat IN
       /\ stored' = [stored EXCEPT ![p] =
              IF w.type = "created" THEN Append(@, w.msg)
              ELSE [@ EXCEPT ![Position(@, w.msg.id)] = w.msg]]
       /\ unpublished' = [unpublished EXCEPT ![c] = w]
    /\ written' = [written EXCEPT ![c] = @ + 1]
    /\ UNCHANGED <<events, view, selects, sizes, stale>>

Publish(c) ==
    /\ unpublished[c] # Nobody
    /\ unpublished' = [unpublished EXCEPT ![c] = Nobody]
    /\ IF Len(events) < Buffer
       THEN events' = Append(events, unpublished[c]) /\ UNCHANGED stale
       ELSE stale' = stale \cup {c} /\ UNCHANGED events
    /\ UNCHANGED <<stored, written, view, selects, sizes>>

-----------------------------------------------------------------------------
(* renderView.                                                               *)

\* findToolResponse: has one of the messages the result of this call
Answered(call, ms) == \E i \in DOMAIN ms : call \in ms[i].results

\* The calls of a child are read from the database as the message is rendered.
Nested(call, db) == IF call \in Places THEN UNION {m.calls : m \in Range(db[call])} ELSE {}

\* renderUserMessage, renderAssistantMessage and renderToolMessage: what the
\* picture of a message depends on, besides the width.
Rendered(m, ms, current, db) ==
    [id |-> m.id, version |-> m.version, focused |-> m.id = current,
     calls |-> {[answered |-> Answered(c, ms), nested |-> Nested(c, db)] : c \in m.calls}]

Drawn(ms) == SelectSeq(ms, LAMBDA m : m.role # "tool")

\* renderView, given what stays cached: the pictures, and the cache it leaves
Picture(m, ms, current, cache, wide) ==
    IF cache[m.id].width = wide THEN cache[m.id].content ELSE Rendered(m, ms, current, stored)

RenderView(ms, current, cache, wide) ==
    IF wide = 0
    THEN cachedContent' = cache /\ UNCHANGED uiMessages
    ELSE /\ uiMessages' = [i \in DOMAIN Drawn(ms) |-> Picture(Drawn(ms)[i], ms, current, cache, wide)]
         /\ cachedContent' = [id \in Ids |->
                IF \E i \in DOMAIN ms : ms[i].id = id /\ ms[i].role # "tool"
                THEN [width |-> wide,
                      content |-> Picture(ms[Position(ms, id)], ms, current, cache, wide)]
                ELSE cache[id]]

Without(cache, ids) == [i \in Ids |-> IF i \in ids THEN NoCache ELSE cache[i]]

-----------------------------------------------------------------------------
(* messagesCmp.Update: message events.                                       *)

\* The messages whose pictures an event makes invalid.
CallersOf(place, ms) == {m.id : m \in {n \in Range(ms) : place \in n.calls}}

OnCreated(m) ==
    LET new == m.chat = session /\ Position(messages, m.id) = 0
        shown == IF new THEN Append(messages, m) ELSE messages
        outdated == (IF new /\ messages # <<>> THEN {Last(messages).id} ELSE {})
                    \cup (IF new THEN {currentMsgID} ELSE {})
                    \cup CallersOf(m.chat, shown)
        current == IF new THEN m.id ELSE currentMsgID IN
    /\ messages' = shown /\ currentMsgID' = current
    /\ IF new \/ CallersOf(m.chat, shown) # {}
       THEN RenderView(shown, current, Without(cachedContent, outdated), width)
       ELSE UNCHANGED <<cachedContent, uiMessages>>

\* A plausible bug: the picture of the message stays in the cache.
OnUpdatedCached(m) ==
    LET i == Position(messages, m.id) IN
    /\ IF m.chat = session /\ i # 0
       THEN /\ messages' = [messages EXCEPT ![i] = m]
            /\ RenderView(messages', currentMsgID, cachedContent, width)
       ELSE UNCHANGED <<messages, cachedContent, uiMessages>>
    /\ UNCHANGED currentMsgID

OnUpdated(m) ==
    LET i == Position(messages, m.id) IN
    /\ IF m.chat = session /\ i # 0
       THEN /\ messages' = [messages EXCEPT ![i] = m]
            /\ RenderView(messages', currentMsgID, Without(cachedContent, {m.id}), width)
       ELSE UNCHANGED <<messages, cachedContent, uiMessages>>
    /\ UNCHANGED currentMsgID

Cached(c) == \E w \in Range(Script[c]) : cachedContent[w.msg.id] # NoCache

\* Stored, and its event not delivered yet.
OnTheWay(c) ==
    unpublished[c] # Nobody \/ \E i \in DOMAIN events : Owner(events[i].msg.chat) = c

Deliver ==
    /\ events # <<>>
    /\ LET w == Head(events)
           c == Owner(w.msg.chat) IN
       /\ \/ w.type = "created" /\ OnCreated(w.msg)
          \/ w.type = "updated" /\ OnUpdated(w.msg)
       /\ stale' = IF session # c /\ Cached(c) THEN stale \cup {c} ELSE stale
    /\ events' = Tail(events)
    /\ UNCHANGED <<stored, written, unpublished, session, width, renders, selects, sizes>>

-----------------------------------------------------------------------------
(* Selecting, clearing, resizing.                                            *)

\* SessionSelectedMsg, from the dialog or from a first message: SetSession
Select(c) ==
    /\ c # session /\ selects < MaxSelects
    /\ session' = c
    /\ messages' = stored[c]
    /\ currentMsgID' = IF stored[c] = <<>> THEN currentMsgID ELSE Last(stored[c]).id
    /\ cachedContent' = Without(cachedContent, {currentMsgID'})
    /\ renders' = renders + 1
    /\ selects' = selects + 1
    /\ stale' = IF Cached(c) /\ OnTheWay(c) THEN stale \cup {c} ELSE stale
    /\ UNCHANGED <<stored, written, unpublished, events, width, uiMessages, sizes>>

\* The command SetSession returns, run beside the event loop.
RenderLater ==
    /\ renders > 0
    /\ renders' = renders - 1
    /\ RenderView(messages, currentMsgID, cachedContent, width)
    /\ UNCHANGED <<stored, written, unpublished, events, session, messages, currentMsgID,
                   width, selects, sizes, stale>>

\* ctrl+n: SessionClearedMsg
Clear ==
    /\ session # Nobody /\ selects < MaxSelects
    /\ session' = Nobody /\ messages' = <<>> /\ currentMsgID' = Nobody
    /\ selects' = selects + 1
    /\ UNCHANGED <<stored, written, unpublished, events, cachedContent, width, uiMessages,
                   renders, sizes, stale>>

\* SetSize and rerender: everything shown is drawn again.
Resize ==
    /\ sizes < MaxSizes
    /\ sizes' = sizes + 1
    /\ \E w \in {1, 2} \ {width} :
          /\ width' = w
          /\ RenderView(messages, currentMsgID,
                        Without(cachedContent, {m.id : m \in Range(messages)}), w)
    /\ UNCHANGED <<stored, written, unpublished, events, session, messages, currentMsgID,
                   renders, selects, stale>>

Next ==
    \/ \E c \in Chats : Store(c) \/ Publish(c) \/ Select(c)
    \/ Deliver \/ RenderLater \/ Clear \/ Resize

Spec == Init /\ [][Next]_vars

-----------------------------------------------------------------------------
\* View: with no message the first screen is shown instead of the viewport.
Shown == IF messages = <<>> THEN <<>> ELSE uiMessages

\* A child's calls are drawn when its next message is created, not before.
ChildMidway(c) ==
    written[c] > 0 /\ LET w == Script[c][written[c]] IN w.type = "updated" /\ w.msg.chat # c

(* Once every event is delivered the window shows the conversation that is
   stored: each message at its last version, with the results and the nested
   calls it has by now and the focus on the last one.  Not so after an event
   was lost, or when the conversation, some pictures of which were cached,
   changed while another one was shown: SetSession drops the last message's
   picture only. *)
WindowIsCurrent ==
    (session # Nobody /\ session \notin stale /\ width # 0 /\ renders = 0 /\ events = <<>>
     /\ unpublished[session] = Nobody /\ ~ChildMidway(session)) =>
        LET ms == stored[session]
            drawn == Drawn(ms) IN
        Shown = [i \in DOMAIN drawn |-> Rendered(drawn[i], ms, Last(ms).id, stored)]
=============================================================================
