----------------------------- MODULE Permission -----------------------------
(***************************************************************************)
(* The permission service: internal/permission/permission.go, together     *)
(* with the front-end half of an approval (the watcher goroutine that      *)
(* takes events off the broker and the goroutines that hand answers back). *)
(*                                                                         *)
(* A tool goroutine calls Request and blocks.  The request travels over    *)
(* the service's broker to a front end, a person answers it, and a         *)
(* front-end goroutine calls Grant, GrantPersistant or Deny.  Every step   *)
(* another goroutine can observe is an action of its own: the two checks   *)
(* at the head of Request, the Store, the Publish, the select and the      *)
(* deferred Delete; the Load, the channel send and the append of the       *)
(* answering side.                                                         *)
(***************************************************************************)
EXTENDS FiniteSets, Naturals

CONSTANTS
    Requests, Scopes, Sessions, ScopeOf, SessionOf, Headless,
    Answerers,   \* front-end goroutines: HTTP handlers, or one event loop
    QueueSize,   \* the subscriber channel's capacity, pubsub's bufferSize (64)
    NoJob        \* what an idle answerer works on

VARIABLES
    autoApproveSessions, \* service: sessions approved as a whole
    sessionPermissions,  \* service: scopes approved for the session
    pending,             \* service: keys of pendingRequests
    respCh,              \* service: contents of each request's channel (capacity 1)
    closing,             \* service: "up", "done" (s.done closed), "down" (broker too)
    subscribed,          \* broker: a front end has subscribed
    queue,               \* broker: events in the subscriber's buffer
    pc,                  \* tool goroutines: where each Request call is
    verdict,             \* tool goroutines: what the call returned
    shown,               \* front end: requests taken off the queue, not answered
    apc,                 \* answerers: where each one is
    job,                 \* answerers: the answer each one is delivering
    copy,                \* answerers: the slice append read, and extended
    said                 \* history: every answer a person has given

serviceVars == <<autoApproveSessions, sessionPermissions, pending, respCh, closing>>
brokerVars == <<subscribed, queue>>
toolVars == <<pc, verdict>>
frontVars == <<shown, apc, job, copy, said>>
vars == <<serviceVars, brokerVars, toolVars, frontVars>>

Requirement == INSTANCE Approval WITH said <- said, verdict <- verdict
Kinds == Requirement!Kinds
Answers == Requirement!Answers

ASSUME ConstantsAssumption ==
    /\ ScopeOf \in [Requests -> Scopes]
    /\ SessionOf \in [Scopes -> Sessions]
    /\ Headless \subseteq Sessions
    /\ QueueSize \in Nat \ {0}
    /\ NoJob \notin Answers

-----------------------------------------------------------------------------
Init ==
    /\ autoApproveSessions = {}
    /\ sessionPermissions = {}
    /\ pending = {}
    /\ respCh = [r \in Requests |-> "empty"]
    /\ closing = "up"
    /\ subscribed = FALSE
    /\ queue = {}
    /\ pc = [r \in Requests |-> "idle"]
    /\ verdict = [r \in Requests |-> "none"]
    /\ shown = {}
    /\ apc = [a \in Answerers |-> "idle"]
    /\ job = [a \in Answerers |-> NoJob]
    /\ copy = [a \in Answerers |-> {}]
    /\ said = {}

-----------------------------------------------------------------------------
(* The tool's side: Request, one action per step other goroutines can see. *)

Goto(r, place) == pc' = [pc EXCEPT ![r] = place]
Decide(r, v) == verdict' = [verdict EXCEPT ![r] = v]

ReturnsAtOnce(r) ==
    /\ Decide(r, "allow")
    /\ Goto(r, "done")

\* `slices.Contains(s.autoApproveSessions, opts.SessionID)`
CheckAutoApprove(r) ==
    /\ pc[r] = "idle"
    /\ IF SessionOf[ScopeOf[r]] \in autoApproveSessions
       THEN ReturnsAtOnce(r)
       ELSE Goto(r, "match") /\ UNCHANGED verdict
    /\ UNCHANGED <<serviceVars, brokerVars, frontVars>>

\* A plausible bug: matching on the session alone.
CoveredBySession(r) ==
    \E s \in sessionPermissions : SessionOf[s] = SessionOf[ScopeOf[r]]

\* the scopes an earlier allow_session covers
Covered(r) == ScopeOf[r] \in sessionPermissions

\* the loop over s.sessionPermissions
MatchSessionPermissions(r) ==
    /\ pc[r] = "match"
    /\ IF Covered(r)
       THEN ReturnsAtOnce(r)
       ELSE Goto(r, "store") /\ UNCHANGED verdict
    /\ UNCHANGED <<serviceVars, brokerVars, frontVars>>

StorePending(r) ==
    /\ pc[r] = "store"
    /\ pending' = pending \cup {r}
    /\ Goto(r, "publish")
    /\ UNCHANGED <<autoApproveSessions, sessionPermissions, respCh, closing,
                   brokerVars, verdict, frontVars>>

\* s.Publish: the event reaches the buffer of whoever has subscribed by now,
\* and is dropped when there is nobody, no room, or no broker any more.  The look at
\* the subscribers and the sends are one step: of a broker that is shut down between
\* them, where the send panics, Terminal tells (PublishPanics).
Publish(r) ==
    /\ pc[r] = "publish"
    /\ queue' = IF subscribed /\ closing # "down" /\ Cardinality(queue) < QueueSize
                THEN queue \cup {r} ELSE queue
    /\ Goto(r, "wait")
    /\ UNCHANGED <<serviceVars, subscribed, verdict, frontVars>>

\* A plausible bug: the receive does not wait for an answer.
ReceiveAnswerUnguarded(r) ==
    /\ pc[r] = "wait"
    /\ Decide(r, respCh[r])
    /\ respCh' = [respCh EXCEPT ![r] = "empty"]
    /\ Goto(r, "return")
    /\ UNCHANGED <<autoApproveSessions, sessionPermissions, pending, closing,
                   brokerVars, frontVars>>

\* The three cases of the select.  When several are ready Go picks any.
ReceiveAnswer(r) ==
    /\ pc[r] = "wait"
    /\ respCh[r] # "empty"
    /\ Decide(r, respCh[r])
    /\ respCh' = [respCh EXCEPT ![r] = "empty"]
    /\ Goto(r, "return")
    /\ UNCHANGED <<autoApproveSessions, sessionPermissions, pending, closing,
                   brokerVars, frontVars>>

GiveUp(r) ==
    /\ pc[r] = "wait"
    /\ Decide(r, "deny")
    /\ Goto(r, "return")
    /\ UNCHANGED <<serviceVars, brokerVars, frontVars>>

\* A plausible bug: no timer.
NoTimer(r) == FALSE

\* `case <-time.After(requestTimeout)`
TimeOut(r) == GiveUp(r)

\* A plausible bug: the select does not look at s.done.
ReleaseUnheard(r) == FALSE

\* `case <-s.done`
ReleaseOnShutdown(r) == closing # "up" /\ GiveUp(r)

\* A plausible bug: the Delete is lost.
ReturnKeepsEntry(r) ==
    /\ pc[r] = "return"
    /\ Goto(r, "done")
    /\ UNCHANGED <<serviceVars, brokerVars, verdict, frontVars>>

\* the deferred pendingRequests.Delete
Return(r) ==
    /\ pc[r] = "return"
    /\ pending' = pending \ {r}
    /\ Goto(r, "done")
    /\ UNCHANGED <<autoApproveSessions, sessionPermissions, respCh, closing,
                   brokerVars, verdict, frontVars>>

-----------------------------------------------------------------------------
(* The owner of the service. *)

\* The front end's one Subscribe.  It runs on a goroutine of its own, so a
\* request may well be published first.
Subscribe ==
    /\ ~subscribed
    /\ closing # "down"
    /\ subscribed' = TRUE
    /\ UNCHANGED <<serviceVars, queue, toolVars, frontVars>>

\* AutoApproveSession, called by app.RunNonInteractive before the turn starts
TrustHeadless(s) ==
    /\ s \in Headless \ autoApproveSessions
    /\ \A r \in Requests : SessionOf[ScopeOf[r]] = s => pc[r] = "idle"
    /\ autoApproveSessions' = autoApproveSessions \cup {s}
    /\ UNCHANGED <<sessionPermissions, pending, respCh, closing,
                   brokerVars, toolVars, frontVars>>

\* Shutdown: close(s.done), then the broker's own Shutdown
Shutdown ==
    /\ \/ closing = "up" /\ closing' = "done"
       \/ closing = "done" /\ closing' = "down"
    /\ UNCHANGED <<autoApproveSessions, sessionPermissions, pending, respCh,
                   brokerVars, toolVars, frontVars>>

-----------------------------------------------------------------------------
(* The front end: one watcher takes events off the subscription; answers   *)
(* are delivered by Answerers.  takePending (and, in the embedding API,    *)
(* the event loop itself) lets each shown request be answered once.        *)

TakeEvent(r) ==
    /\ r \in queue
    /\ queue' = queue \ {r}
    /\ shown' = shown \cup {r}
    /\ UNCHANGED <<serviceVars, subscribed, toolVars, apc, job, copy, said>>

Settle(a, place) == apc' = [apc EXCEPT ![a] = place]

\* A plausible bug: the entry is looked up but not removed.
AnswerKeepsEntry(a, r, k) ==
    /\ apc[a] = "idle"
    /\ r \in shown
    /\ job' = [job EXCEPT ![a] = [req |-> r, kind |-> k]]
    /\ said' = said \cup {[req |-> r, kind |-> k]}
    /\ Settle(a, "load")
    /\ UNCHANGED <<serviceVars, brokerVars, toolVars, shown, copy>>

\* the person's answer, up to the call of Grant, GrantPersistant or Deny
Answer(a, r, k) ==
    /\ apc[a] = "idle"
    /\ r \in shown
    /\ shown' = shown \ {r}
    /\ job' = [job EXCEPT ![a] = [req |-> r, kind |-> k]]
    /\ said' = said \cup {[req |-> r, kind |-> k]}
    /\ Settle(a, "load")
    /\ UNCHANGED <<serviceVars, brokerVars, toolVars, copy>>

Finish(a) == Settle(a, "idle") /\ job' = [job EXCEPT ![a] = NoJob]

\* What follows the channel send: GrantPersistant appends, the embedding
\* API's AllowSession goes on to AutoApproveSession, the others return.
AfterSend(a) ==
    \/ job[a].kind = "allow_session" /\ Settle(a, "append") /\ UNCHANGED job
    \/ job[a].kind = "trust" /\ Settle(a, "trust") /\ UNCHANGED job
    \/ job[a].kind \in {"allow", "deny"} /\ Finish(a)

\* `respCh, ok := s.pendingRequests.Load(permission.ID)`
LoadPending(a) ==
    /\ apc[a] = "load"
    /\ IF job[a].req \in pending
       THEN Settle(a, "send") /\ UNCHANGED job
       ELSE AfterSend(a)
    /\ UNCHANGED <<serviceVars, brokerVars, toolVars, shown, copy, said>>

\* A plausible bug: without a buffer the answer is only taken while the tool listens.
HasRoomUnbuffered(r) == respCh[r] = "empty" /\ pc[r] = "wait"

\* make(chan bool, 1)
HasRoom(r) == respCh[r] = "empty"

SendAnswer(a) ==
    /\ apc[a] = "send"
    /\ HasRoom(job[a].req)
    /\ respCh' = [respCh EXCEPT ![job[a].req] =
                     IF job[a].kind = "deny" THEN "deny" ELSE "allow"]
    /\ AfterSend(a)
    /\ UNCHANGED <<autoApproveSessions, sessionPermissions, pending, closing,
                   brokerVars, toolVars, shown, copy, said>>

\* `s.sessionPermissions = append(s.sessionPermissions, permission)` holds no
\* lock: it reads the slice and stores it back in two steps, and of two
\* appends that overlap one is lost.
ReadSessionPermissions(a) ==
    /\ apc[a] = "append"
    /\ copy' = [copy EXCEPT ![a] = sessionPermissions \cup {ScopeOf[job[a].req]}]
    /\ Settle(a, "writeback")
    /\ UNCHANGED <<serviceVars, brokerVars, toolVars, shown, job, said>>

WriteSessionPermissions(a) ==
    /\ apc[a] = "writeback"
    /\ sessionPermissions' = copy[a]
    /\ copy' = [copy EXCEPT ![a] = {}]
    /\ Finish(a)
    /\ UNCHANGED <<autoApproveSessions, pending, respCh, closing,
                   brokerVars, toolVars, shown, said>>

\* the embedding API's watcher: svc.AutoApproveSession(req.SessionID)
TrustSession(a) ==
    /\ apc[a] = "trust"
    /\ autoApproveSessions' =
          autoApproveSessions \cup {SessionOf[ScopeOf[job[a].req]]}
    /\ Finish(a)
    /\ UNCHANGED <<sessionPermissions, pending, respCh, closing,
                   brokerVars, toolVars, shown, copy, said>>

-----------------------------------------------------------------------------
ToolStep(r) ==
    \/ CheckAutoApprove(r)
    \/ MatchSessionPermissions(r)
    \/ StorePending(r)
    \/ Publish(r)
    \/ ReceiveAnswer(r)
    \/ ReleaseOnShutdown(r)
    \/ Return(r)

AnswererStep(a) ==
    \/ LoadPending(a)
    \/ SendAnswer(a)
    \/ ReadSessionPermissions(a)
    \/ WriteSessionPermissions(a)
    \/ TrustSession(a)

\* A run of the front end offers its own three answers.
CONSTANT Offered
ASSUME OfferedAssumption == Offered \subseteq Kinds

Next ==
    \/ \E r \in Requests : ToolStep(r) \/ TimeOut(r) \/ TakeEvent(r)
    \/ \E a \in Answerers : AnswererStep(a)
    \/ \E a \in Answerers, r \in Requests, k \in Offered : Answer(a, r, k)
    \/ \E s \in Sessions : TrustHeadless(s)
    \/ Subscribe
    \/ Shutdown

\* The Go scheduler runs every goroutine that can run.  People need not answer,
\* owners need not shut down, and the timer is assumed only where it is named.
Fairness ==
    /\ \A r \in Requests : WF_vars(ToolStep(r) /\ pc[r] # "idle")
    /\ \A a \in Answerers : WF_vars(AnswererStep(a))

Spec == Init /\ [][Next]_vars
FairSpec == Spec /\ Fairness

-----------------------------------------------------------------------------
(* Every variable has its type. *)
TypeOK ==
    /\ autoApproveSessions \subseteq Sessions
    /\ sessionPermissions \subseteq Scopes
    /\ pending \subseteq Requests
    /\ respCh \in [Requests -> {"empty", "allow", "deny"}]
    /\ closing \in {"up", "done", "down"}
    /\ subscribed \in BOOLEAN
    /\ queue \subseteq Requests
    /\ pc \in [Requests -> {"idle", "match", "store", "publish", "wait", "return", "done"}]
    /\ verdict \in [Requests -> {"none", "allow", "deny"}]
    /\ shown \subseteq Requests
    /\ apc \in [Answerers -> {"idle", "load", "send", "append", "writeback", "trust"}]
    /\ job \in [Answerers -> Answers \cup {NoJob}]
    /\ copy \in [Answerers -> SUBSET Scopes]
    /\ said \subseteq Answers

(* A tool is told yes only on grounds somebody gave: an answer to this very
   request, an allow_session for its scope, or a session trusted as a whole.
   permission.go reaches `return true` in three places and takes a value from
   a channel in a fourth, while other goroutines change all it looks at. *)
VerdictHasAuthority ==
    \A r \in Requests : verdict[r] = "allow" => Requirement!Authorised(r)

(* A request a person refused never comes back allowed, whatever other
   answers, for this scope or this session, arrive around it. *)
DeniedStaysDenied ==
    \A a \in said : a.kind = "deny" => verdict[a.req] # "allow"

(* pendingRequests holds exactly the calls that can still be answered: no
   entry outlives its call (the deferred Delete) and none is missing while a
   front end may hold the request. *)
PendingIsLive ==
    /\ \A r \in Requests : r \in pending <=> pc[r] \in {"publish", "wait", "return"}
    /\ \A r \in queue \cup shown : pc[r] \in {"wait", "return", "done"}

(* The service implements the promise of Approval.tla. *)
ImplementsApproval == Requirement!Spec

(* "An abandoned request cannot wedge the agent": with nobody answering,
   subscribing or shutting down, the timer alone brings every call back.  It
   is the code's five minutes (permission.go:60, requestTimeout).  The
   bridge's documentation says otherwise: "the turn does not time out on its
   own" (docs/api.md:101). *)
TimerFires == \A r \in Requests : WF_vars(TimeOut(r))
RequestReturns ==
    TimerFires => \A r \in Requests : pc[r] # "idle" ~> pc[r] = "done"

(* Shutdown "releases every request still waiting for an answer", without
   the help of the timer. *)
ShutdownReleasesAll ==
    \A r \in Requests : closing # "up" /\ pc[r] # "idle" ~> pc[r] = "done"

(* Handing an answer back never blocks the front end for good, even when the
   tool has given up in the meantime: that is what the channel's capacity of
   one is for. *)
AnswererReturns == \A a \in Answerers : apc[a] # "idle" ~> apc[a] = "idle"

(* Nobody waits for good: not a tool for its answer, not a request for a service that
   is shut down, not a front end handing an answer back.  That the first holds
   is due to the timer alone, which docs/api.md:101 does not know. *)
NobodyWaitsForGood == RequestReturns /\ ShutdownReleasesAll /\ AnswererReturns

(* pkg/svpc/permission.go:39 says an AllowSession is scoped by tool, action
   and path: it "covers the same command in the same directory". *)
AllowSessionIsScoped ==
    \A r \in Requests : verdict[r] = "allow" =>
        \E a \in said : a.kind # "deny" /\ ScopeOf[a.req] = ScopeOf[r]
=============================================================================
