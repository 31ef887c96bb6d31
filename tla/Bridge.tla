------------------------------- MODULE Bridge -------------------------------
(***************************************************************************)
(* The HTTP bridge of internal/gui/server.go: chat requests that stream    *)
(* their turn, the one turn slot, the lookup of the stored conversation,   *)
(* and the way an approval request takes from the agent to the stream and  *)
(* an answer takes back.                                                   *)
(*                                                                         *)
(* The agent and the permission service appear by what the bridge sees of  *)
(* them (Agent.tla and Permission.tla have their insides): a turn works,   *)
(* asks at most once, and hands over one result; a request is pending      *)
(* until it is answered or its timer fires.  A turn and its request bear   *)
(* the name of the chat that started them.                                 *)
(***************************************************************************)
EXTENDS Naturals, Sequences, FiniteSets

CONSTANTS
    GuiChats,       \* POST /api/v1/chat requests, over the life of the store
    Conversations,  \* session ids of the user interface
    Talks,          \* which chat may belong to which conversation
    Leavers,        \* bound: the chats whose connection may close early
    GuiRoom,        \* capacity of bridge.perm
    GuiBuffer,      \* capacity of its subscription, the broker's 64
    GuiMaxStarts    \* bound: the process is restarted at most so often

ASSUME TalksAssumption == Talks \subseteq [GuiChats -> Conversations] /\ "-" \notin GuiChats

NoRowYet == 0

VARIABLES
    talk,       \* chat -> its conversation, the same for ever
    rows,       \* sessions table, oldest first: conversation, title still prefixed?
    known,      \* bridge.sessions
    active,     \* bridge.active
    handler,    \* chat -> where its handler is
    guiRow,     \* chat -> the session it resolved to
    open,       \* chats whose connection is open
    stream,     \* chat -> the events written
    flushed,    \* chat -> how many of them have been sent
    agent,      \* chat -> where its turn's goroutine is
    busy,       \* sessions with an entry in activeRequests
    pending,    \* requests waiting inside the permission service
    watching,   \* the watcher goroutine: "no", "started" or "subscribed"
    guiEvents,  \* its subscription: requests published and not yet taken
    inHand,     \* requests it has remembered and not yet passed on
    perm,       \* bridge.perm
    awaiting,   \* bridge.awaiting
    deciding,   \* requests taken from it, whose answer is still to be given
    guiStarts,  \* restarts so far
    spoiled,    \* history: requests answered with an unknown action
    unheard,    \* history: requests whose event the broker dropped
    parted      \* history: conversations that may have more than one session

table == <<talk, rows>>
slot == <<known, active>>
http == <<handler, guiRow, open, stream, flushed>>
guiTurn == <<agent, busy>>
approvals == <<pending, watching, guiEvents, inHand, perm, awaiting, deciding, spoiled, unheard>>
guiVars == <<table, slot, http, guiTurn, approvals, guiStarts, parted>>

GuiInit ==
    /\ talk \in Talks
    /\ rows = <<>>
    /\ known = [v \in Conversations |-> NoRowYet] /\ active = FALSE
    /\ handler = [c \in GuiChats |-> "none"]
    /\ guiRow = [c \in GuiChats |-> NoRowYet]
    /\ open = {}
    /\ stream = [c \in GuiChats |-> <<>>]
    /\ flushed = [c \in GuiChats |-> 0]
    /\ agent = [c \in GuiChats |-> "none"]
    /\ busy = {}
    /\ pending = {} /\ watching = "no"
    /\ guiEvents = <<>> /\ inHand = {} /\ perm = <<>> /\ awaiting = {} /\ deciding = {}
    /\ spoiled = {} /\ unheard = {}
    /\ guiStarts = 0
    /\ parted = {}

-----------------------------------------------------------------------------
GuiEvent(kind) == [kind |-> kind, req |-> "-"]
Permission(c) == [kind |-> "permission", req |-> c]

GuiWrite(c, what) == stream' = [stream EXCEPT ![c] = @ \o what]
Stands(c, where) == handler' = [handler EXCEPT ![c] = where]

\* The handler returns: net/http sends whatever is still in its buffer.
Returns(c, what) ==
    /\ Stands(c, "returned")
    /\ GuiWrite(c, what)
    /\ flushed' = [flushed EXCEPT ![c] = Len(stream[c]) + Len(what)]

(* sessionID.  The lock is given up between looking the conversation up and *)
(* remembering what was found or created.                                   *)

Searching(v) == {c \in GuiChats : talk[c] = v /\ handler[c] \in {"list", "create"}}

Prefixed(v) == {n \in DOMAIN rows : rows[n].of = v /\ rows[n].prefix}

\* Sessions.List is newest first and is searched from its end.
Oldest(S) == CHOOSE n \in S : \A m \in S : n <= m

\* A request arrives and looks its conversation up.
Lookup(c) ==
    /\ handler[c] = "none"
    /\ open' = open \cup {c}
    /\ \/ /\ known[talk[c]] # NoRowYet
          /\ guiRow' = [guiRow EXCEPT ![c] = known[talk[c]]]
          /\ Stands(c, "begin")
          /\ UNCHANGED parted
       \/ /\ known[talk[c]] = NoRowYet
          /\ Stands(c, "list")
          /\ parted' = parted \cup {v \in {talk[c]} : Searching(v) # {}}
          /\ UNCHANGED guiRow
    /\ UNCHANGED <<table, slot, stream, flushed, guiTurn, approvals, guiStarts>>

\* A plausible bug: what was resolved is not remembered.
ResolvedForgotten(c, n) ==
    /\ guiRow' = [guiRow EXCEPT ![c] = n]
    /\ Stands(c, "begin")
    /\ UNCHANGED known

\* The second locked section.  Until it runs another lookup misses the map but
\* finds the same row in the table, so it is one step with what precedes it.
Resolved(c, n) ==
    /\ guiRow' = [guiRow EXCEPT ![c] = n]
    /\ known' = [known EXCEPT ![talk[c]] = n]
    /\ Stands(c, "begin")

\* Sessions.List runs under the request's context too: an error counts as nothing found.
List(c) ==
    /\ handler[c] = "list"
    /\ \/ /\ Prefixed(talk[c]) # {}
          /\ Resolved(c, Oldest(Prefixed(talk[c])))
       \/ /\ Prefixed(talk[c]) = {} \/ c \notin open
          /\ Stands(c, "create")
          /\ UNCHANGED <<guiRow, known>>
    /\ UNCHANGED <<table, active, open, stream, flushed, guiTurn, approvals, guiStarts, parted>>

\* Sessions.Create runs under the request's context.
Create(c) ==
    /\ handler[c] = "create"
    /\ \/ /\ c \in open
          /\ rows' = Append(rows, [of |-> talk[c], prefix |-> TRUE])
          /\ Resolved(c, Len(rows'))
          /\ UNCHANGED <<stream, flushed>>
       \/ /\ c \notin open
          /\ Returns(c, <<GuiEvent("error")>>)
          /\ UNCHANGED <<rows, guiRow, known>>
    /\ UNCHANGED <<talk, active, open, guiTurn, approvals, guiStarts, parted>>

-----------------------------------------------------------------------------
(* The turn. *)

\* The session_id event, then beginTurn
BeginTurn(c) ==
    /\ handler[c] = "begin"
    /\ \/ /\ active
          /\ Returns(c, <<GuiEvent("session_id"), GuiEvent("error")>>)
          /\ UNCHANGED active
       \/ /\ ~active
          /\ active' = TRUE
          /\ GuiWrite(c, <<GuiEvent("session_id")>>)
          /\ Stands(c, "run")
          /\ UNCHANGED flushed
    /\ UNCHANGED <<table, known, guiRow, open, guiTurn, approvals, guiStarts, parted>>

\* the deferred endTurn comes before the handler returns
EndTurn(c, what) == active' = FALSE /\ Returns(c, what)

\* watchPermissions, then CoderAgent.Run, which refuses a busy session.
Run(c) ==
    /\ handler[c] = "run"
    /\ watching' = IF watching = "no" THEN "started" ELSE watching
    /\ \/ /\ guiRow[c] \in busy
          /\ EndTurn(c, <<GuiEvent("error")>>)
          /\ UNCHANGED guiTurn
       \/ /\ guiRow[c] \notin busy
          /\ agent' = [agent EXCEPT ![c] = "working"]
          /\ busy' = busy \cup {guiRow[c]}
          /\ Stands(c, "pump")
          /\ UNCHANGED <<active, stream, flushed>>
    /\ UNCHANGED <<table, known, guiRow, open, pending, guiEvents, inHand, perm, awaiting,
                   deciding, spoiled, unheard, guiStarts, parted>>

Pumping(c) == handler[c] = "pump"

\* A plausible bug: pump waits for the agent whatever the connection does.
PumpDeaf(c) ==
    /\ Pumping(c)
    /\ c \notin open
    /\ agent[c] = "closed"
    /\ EndTurn(c, <<GuiEvent("done")>>)
    /\ UNCHANGED <<table, known, guiRow, open, guiTurn, approvals, guiStarts, parted>>

\* `<-ctx.Done()`.  The `done` that follows reaches nobody.
PumpGone(c) ==
    /\ Pumping(c)
    /\ c \notin open
    /\ EndTurn(c, <<GuiEvent("done")>>)
    /\ UNCHANGED <<table, known, guiRow, open, guiTurn, approvals, guiStarts, parted>>

\* Whoever streams gets every request, also one left over by an earlier turn.
PumpPermission(c) ==
    /\ Pumping(c)
    /\ perm # <<>>
    /\ GuiWrite(c, <<Permission(Head(perm))>>)
    /\ flushed' = [flushed EXCEPT ![c] = Len(stream[c]) + 1]
    /\ perm' = Tail(perm)
    /\ UNCHANGED <<table, slot, handler, guiRow, open, guiTurn, pending, watching, guiEvents,
                   inHand, awaiting, deciding, spoiled, unheard, guiStarts, parted>>

\* The one result: its tools and text, or its error, after which pump returns
\* and handleChat writes `done` all the same.
PumpResult(c) ==
    /\ Pumping(c)
    /\ agent[c] = "offering"
    /\ \/ /\ GuiWrite(c, <<GuiEvent("text")>>)
          /\ flushed' = [flushed EXCEPT ![c] = Len(stream[c]) + 1]
          /\ UNCHANGED <<active, handler>>
       \/ EndTurn(c, <<GuiEvent("error"), GuiEvent("done")>>)
    /\ agent' = [agent EXCEPT ![c] = "closed"]
    /\ UNCHANGED <<table, known, guiRow, open, busy, approvals, guiStarts, parted>>

PumpClosed(c) ==
    /\ Pumping(c)
    /\ agent[c] = "closed"
    /\ EndTurn(c, <<GuiEvent("done")>>)
    /\ UNCHANGED <<table, known, guiRow, open, guiTurn, approvals, guiStarts, parted>>

-----------------------------------------------------------------------------
(* The agent's goroutine, as far as the bridge can tell. *)

\* Publish waits for nobody: without a subscription, or with a full one, the request
\* is pending and no one is told.
GuiAsk(c) ==
    /\ agent[c] = "working"
    /\ agent' = [agent EXCEPT ![c] = "asking"]
    /\ pending' = pending \cup {c}
    /\ IF watching = "subscribed" /\ Len(guiEvents) < GuiBuffer
       THEN guiEvents' = Append(guiEvents, c) /\ UNCHANGED unheard
       ELSE unheard' = unheard \cup {c} /\ UNCHANGED guiEvents
    /\ UNCHANGED <<table, slot, http, busy, watching, inHand, perm, awaiting, deciding, spoiled,
                   guiStarts, parted>>

\* the five-minute timer of permissionService.Request, which knows no context:
\* a closed connection does not end the wait
TimeOut(c) ==
    /\ c \in pending
    /\ pending' = pending \ {c}
    /\ UNCHANGED <<table, slot, http, guiTurn, watching, guiEvents, inHand, perm, awaiting,
                   deciding, spoiled, unheard, guiStarts, parted>>

\* The entry goes before the result is offered on the unbuffered channel.
GuiFinish(c) ==
    /\ agent[c] \in {"working", "asking"}
    /\ c \notin pending
    /\ agent' = [agent EXCEPT ![c] = "offering"]
    /\ busy' = busy \ {guiRow[c]}
    /\ UNCHANGED <<table, slot, http, approvals, guiStarts, parted>>

\* The session's first turn was started by this process.
FirstTurnHere(n) ==
    /\ \E c \in GuiChats : guiRow[c] = n /\ agent[c] # "none"
    /\ \A c \in GuiChats : guiRow[c] = n => agent[c] # "killed"

\* generateTitle, started by the first turn, replaces the whole title, prefix
\* included, whenever the title model answers.
TitleMade(n) ==
    /\ FirstTurnHere(n)
    /\ rows[n].prefix
    /\ rows' = [rows EXCEPT ![n].prefix = FALSE]
    /\ UNCHANGED <<talk, slot, http, guiTurn, approvals, guiStarts, parted>>

-----------------------------------------------------------------------------
(* Approval requests: broker -> watcher -> perm -> stream -> answer. *)

\* The goroutine Run has started gets to Subscribe.
WatcherSubscribes ==
    /\ watching = "started"
    /\ watching' = "subscribed"
    /\ UNCHANGED <<table, slot, http, guiTurn, pending, guiEvents, inHand, perm, awaiting,
                   deciding, spoiled, unheard, guiStarts, parted>>

\* rememberPending
WatcherTakes ==
    /\ guiEvents # <<>>
    /\ inHand = {}
    /\ inHand' = {Head(guiEvents)}
    /\ guiEvents' = Tail(guiEvents)
    /\ awaiting' = awaiting \cup inHand'
    /\ UNCHANGED <<table, slot, http, guiTurn, pending, watching, perm, deciding, spoiled, unheard,
                   guiStarts, parted>>

WatcherPasses ==
    /\ Len(perm) < GuiRoom
    /\ \E r \in inHand : perm' = Append(perm, r)
    /\ inHand' = {}
    /\ UNCHANGED <<table, slot, http, guiTurn, pending, watching, guiEvents, awaiting, deciding,
                   spoiled, unheard, guiStarts, parted>>

Shown(r) == \E c \in GuiChats : \E k \in 1 .. flushed[c] : stream[c][k].req = r

\* handlePermission: takePending, and only then a look at the action.
Answer(r, action) ==
    /\ Shown(r)
    /\ r \in awaiting
    /\ awaiting' = awaiting \ {r}
    /\ IF action = "unknown"
       THEN spoiled' = spoiled \cup {r} /\ UNCHANGED deciding
       ELSE deciding' = deciding \cup {r} /\ UNCHANGED spoiled
    /\ UNCHANGED <<table, slot, http, guiTurn, pending, watching, guiEvents, inHand, perm, unheard,
                   guiStarts, parted>>

\* Grant, GrantPersistant or Deny; of a request that is no longer pending it changes nothing.
Decide(r) ==
    /\ r \in deciding
    /\ deciding' = deciding \ {r}
    /\ pending' = pending \ {r}
    /\ UNCHANGED <<table, slot, http, guiTurn, watching, guiEvents, inHand, perm, awaiting,
                   spoiled, unheard, guiStarts, parted>>

-----------------------------------------------------------------------------
Close(c) ==
    /\ c \in open \cap Leavers
    /\ handler[c] # "returned"
    /\ open' = open \ {c}
    /\ UNCHANGED <<table, slot, handler, guiRow, stream, flushed, guiTurn, approvals,
                   guiStarts, parted>>

\* The process ends and is started again: the store stays; memory goes, and
\* with it every connection and what was written to it.
Restart ==
    /\ guiStarts < GuiMaxStarts
    /\ \E c \in GuiChats : handler[c] = "none"  \* bound: somebody lives through it
    /\ guiStarts' = guiStarts + 1
    /\ known' = [v \in Conversations |-> NoRowYet]
    /\ active' = FALSE
    /\ handler' = [c \in GuiChats |-> IF handler[c] = "none" THEN "none" ELSE "returned"]
    /\ open' = {}
    /\ agent' = [c \in GuiChats |-> IF agent[c] = "none" THEN "none" ELSE "killed"]
    /\ busy' = {} /\ pending' = {} /\ watching' = "no"
    /\ guiEvents' = <<>> /\ inHand' = {} /\ perm' = <<>> /\ awaiting' = {} /\ deciding' = {}
    /\ parted' = parted \cup {v \in Conversations : \E n \in DOMAIN rows :
                                  rows[n].of = v /\ ~rows[n].prefix}
    /\ stream' = [c \in GuiChats |-> <<>>] /\ flushed' = [c \in GuiChats |-> 0]
    /\ spoiled' = {} /\ unheard' = {}
    /\ UNCHANGED <<talk, rows, guiRow>>

HandlerStep(c) ==
    \/ List(c) \/ Create(c)
    \/ BeginTurn(c) \/ Run(c)
    \/ PumpGone(c) \/ PumpPermission(c) \/ PumpResult(c) \/ PumpClosed(c)

WatcherStep == WatcherSubscribes \/ WatcherTakes \/ WatcherPasses

GuiNext ==
    \/ \E c \in GuiChats :
          \/ Lookup(c) \/ Close(c)
          \/ HandlerStep(c)
          \/ GuiAsk(c) \/ TimeOut(c) \/ GuiFinish(c)
          \/ \E action \in {"known", "unknown"} : Answer(c, action)
          \/ Decide(c)
    \/ \E n \in DOMAIN rows : TitleMade(n)
    \/ WatcherStep
    \/ Restart

\* Handlers and the watcher are goroutines that run (each handler takes a
\* bounded number of steps); nobody has to answer, and neither the model nor a
\* person has to finish.
Fairness == WF_guiVars(WatcherStep) /\ WF_guiVars(\E c \in GuiChats : HandlerStep(c))

GuiSpec == GuiInit /\ [][GuiNext]_guiVars
GuiFairSpec == GuiSpec /\ Fairness

-----------------------------------------------------------------------------
Live(c) == agent[c] \in {"working", "asking"} /\ c \in open

SawEnd(c) == \E k \in 1 .. flushed[c] : stream[c][k].kind \in {"done", "error"}

(* docs/api.md:103, "Only one turn runs at a time": the slot is taken exactly
   while one handler is between beginTurn and endTurn, and of the turns whose
   agents are at work at most one has a connection - the others were cancelled
   and have not noticed.  A client that has read the end of its turn can start
   the next one: what keeps the slot is a turn whose client has not been told
   that it is over. *)
OneLiveTurn ==
    /\ active <=> \E c \in GuiChats : handler[c] \in {"run", "pump"}
    /\ \A c, d \in GuiChats : Live(c) /\ Live(d) => c = d
    /\ active => \E c \in GuiChats : handler[c] \in {"run", "pump"} /\ ~SawEnd(c)

(* What a client reads is a well-formed turn: session_id comes first and once,
   an error is followed by nothing but the closing `done`, and nothing follows
   that. *)
StreamOrder ==
    \A c \in GuiChats : \A k \in DOMAIN stream[c] :
        LET kind == stream[c][k].kind IN
        /\ kind = "session_id" => k = 1
        /\ kind \in {"permission", "text", "done"} => stream[c][1].kind = "session_id"
        /\ kind = "done" => k = Len(stream[c])
        /\ kind = "error" /\ k < Len(stream[c]) => stream[c][k + 1].kind = "done"

(* A request that has been shown and still blocks the agent can be answered:
   the answer finds it in `awaiting`, on whichever stream it was shown - unless
   it has been answered already and the answer is on its way into the service, or
   somebody has used it up with an action the bridge does not know. *)
ShownIsAnswerable ==
    \A r \in pending \ spoiled : Shown(r) => r \in awaiting \cup deciding

(* The chats of one conversation go to one stored session, across restarts of
   the process, except after two first requests have raced in sessionID or
   generateTitle has replaced the title the lookup depends on. *)
ConversationContinues ==
    \A c, d \in GuiChats :
        /\ talk[c] = talk[d] /\ talk[c] \notin parted
        /\ guiRow[c] # NoRowYet /\ guiRow[d] # NoRowYet
        => guiRow[c] = guiRow[d]

(* While somebody streams, every request the agent waits on gets shown to them,
   also behind requests of dead turns that fill bridge.perm (GuiRoom).  Not so a
   request the broker had no one to tell, or no room to tell: one published before
   the goroutine of the first turn has subscribed (server.go:197), or with a full
   subscription (broker.go:110).  It waits, unseen, for its timer. *)
AskIsShown ==
    \A r \in GuiChats :
        r \in pending /\ Live(r) /\ r \notin unheard
            ~> Shown(r) \/ r \notin pending \/ r \notin open

(* A closed connection gives the slot back, also while the agent is stuck in a
   permission request that nobody will answer. *)
CloseFreesSlot ==
    \A c \in Leavers : c \notin open /\ handler[c] = "pump" ~> handler[c] = "returned"

(* What a client, a conversation and a connection can rely on at any time, and in the
   end. *)
ClientsAreServedApart ==
    OneLiveTurn /\ StreamOrder /\ ShownIsAnswerable /\ ConversationContinues
ConnectionsAreServed == AskIsShown /\ CloseFreesSlot
=============================================================================
