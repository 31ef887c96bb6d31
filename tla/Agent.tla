------------------------------- MODULE Agent -------------------------------
(***************************************************************************)
(* Which turns and summaries run: activeRequests of                        *)
(* internal/llm/agent/agent.go, the map from a session to the cancel       *)
(* function of its turn, with Run, Cancel and Summarize, the goroutines    *)
(* they start and the channel a turn's result is handed over on.           *)
(*                                                                         *)
(* The map is a sync.Map: each Load, Store, Delete and LoadAndDelete is    *)
(* atomic and nothing larger is.  What a turn does while it works is the   *)
(* matter of Turn.tla; here it works, and then it is over or it panics.    *)
(***************************************************************************)
EXTENDS FiniteSets

CONSTANTS
    Sessions,
    Turns,        \* calls of Run
    Summaries,    \* calls of Summarize
    SessionOf,    \* turn or summary -> its session
    Nobody        \* no entry

Jobs == Turns \cup Summaries

ASSUME ConstantsAssumption ==
    /\ SessionOf \in [Jobs -> Sessions]
    /\ Turns \cap Summaries = {}
    /\ Nobody \notin Jobs

VARIABLES
    activeTurn,     \* activeRequests[sessionID]: whose cancel function
    activeSummary,  \* activeRequests[sessionID + "-summarize"]
    pc,             \* where each job is
    cancelled,      \* jobs whose context is done
    listening,      \* callers still reading the channel Run returned
    heard,          \* callers that have received the turn's event
    canceling,      \* sessions in the middle of Cancel
    overlapped      \* history: jobs that another of their kind and session ran beside

maps == <<activeTurn, activeSummary>>
callers == <<listening, heard>>
vars == <<maps, pc, cancelled, callers, canceling, overlapped>>

Init ==
    /\ activeTurn = [s \in Sessions |-> Nobody]
    /\ activeSummary = [s \in Sessions |-> Nobody]
    /\ pc = [j \in Jobs |-> "idle"]
    /\ cancelled = {}
    /\ listening = {}
    /\ heard = {}
    /\ canceling = {}
    /\ overlapped = {}

Goto(j, place) == pc' = [pc EXCEPT ![j] = place]

\* a job's goroutine is there, and has not yet given its entry back
InFlight(j) == pc[j] \in {"working", "finishing", "panicked"}
Beside(j) == {k \in Jobs \ {j} : SessionOf[k] = SessionOf[j] /\ InFlight(k)
                                 /\ (k \in Turns <=> j \in Turns)}

-----------------------------------------------------------------------------
(* Run. *)

\* `if a.IsSessionBusy(sessionID)`
CheckBusy(t) ==
    /\ pc[t] = "idle"
    /\ Goto(t, IF activeTurn[SessionOf[t]] = Nobody THEN "checked" ELSE "refused")
    /\ UNCHANGED <<maps, cancelled, callers, canceling, overlapped>>

\* A plausible bug: the entry is stored by the new goroutine, when it comes to it.
StoreTurnLate(t) ==
    \/ /\ pc[t] = "checked"
       /\ Goto(t, "working")
       /\ listening' = listening \cup {t}
       /\ overlapped' = IF Beside(t) = {} THEN overlapped
                        ELSE overlapped \cup Beside(t) \cup {t}
       /\ UNCHANGED <<maps, cancelled, heard, canceling>>
    \/ /\ pc[t] \in {"working", "finishing", "sending", "ended"}
       /\ activeTurn' = [activeTurn EXCEPT ![SessionOf[t]] = t]
       /\ UNCHANGED <<activeSummary, pc, cancelled, callers, canceling, overlapped>>

\* activeRequests.Store and `go func()`; Run returns the channel
StoreTurn(t) ==
    /\ pc[t] = "checked"
    /\ activeTurn' = [activeTurn EXCEPT ![SessionOf[t]] = t]
    /\ Goto(t, "working")
    /\ listening' = listening \cup {t}
    /\ overlapped' = IF Beside(t) = {} THEN overlapped
                     ELSE overlapped \cup Beside(t) \cup {t}
    /\ UNCHANGED <<activeSummary, cancelled, heard, canceling>>

\* processGeneration returns
FinishTurn(t) ==
    /\ pc[t] = "working"
    /\ Goto(t, "finishing")
    /\ UNCHANGED <<maps, cancelled, callers, canceling, overlapped>>

\* A plausible bug: the result is handed over before the entry is given back.
FreeAfterSend(t) ==
    \/ /\ pc[t] = "finishing"
       /\ t \in listening
       /\ Goto(t, "sending")
       /\ heard' = heard \cup {t}
       /\ UNCHANGED <<maps, cancelled, listening, canceling, overlapped>>
    \/ /\ pc[t] = "sending"
       /\ activeTurn' = [activeTurn EXCEPT ![SessionOf[t]] = Nobody]
       /\ Goto(t, "ended")
       /\ UNCHANGED <<activeSummary, cancelled, callers, canceling, overlapped>>

\* `a.activeRequests.Delete(sessionID)`, whoever's entry it is, and `cancel()`
FreeTurn(t) ==
    /\ pc[t] = "finishing"
    /\ activeTurn' = [activeTurn EXCEPT ![SessionOf[t]] = Nobody]
    /\ cancelled' = cancelled \cup {t}
    /\ Goto(t, "sending")
    /\ UNCHANGED <<activeSummary, callers, canceling, overlapped>>

\* A plausible bug: the send also watches the turn's own, now cancelled, context.
DeliverUnlessCancelled(t) ==
    /\ pc[t] = "sending"
    /\ heard' = IF t \in cancelled THEN heard ELSE heard \cup {t}
    /\ Goto(t, "ended")
    /\ UNCHANGED <<maps, cancelled, listening, canceling, overlapped>>

\* `events <- result` on a channel without a buffer, and close
Deliver(t) ==
    /\ pc[t] = "sending"
    /\ t \in listening
    /\ heard' = heard \cup {t}
    /\ Goto(t, "ended")
    /\ UNCHANGED <<maps, cancelled, listening, canceling, overlapped>>

\* RecoverPanic: nothing after processGeneration runs.  The entry stays, the
\* context is not cancelled and the channel is not closed.
Panic(t) ==
    /\ pc[t] = "working"
    /\ Goto(t, "panicked")
    /\ UNCHANGED <<maps, cancelled, callers, canceling, overlapped>>

\* its cleanup: `events <- a.err(...)`
DeliverPanic(t) ==
    /\ pc[t] = "panicked"
    /\ t \in listening \ heard
    /\ heard' = heard \cup {t}
    /\ UNCHANGED <<maps, pc, cancelled, listening, canceling, overlapped>>

\* The caller stops reading: the terminal window never reads at all, a
\* callback that returns false stops, a closed connection also cancels.
Leave(t) ==
    /\ t \in listening \ heard
    /\ listening' = listening \ {t}
    /\ cancelled' \in {cancelled, cancelled \cup {t}}
    /\ UNCHANGED <<maps, pc, heard, canceling, overlapped>>

-----------------------------------------------------------------------------
(* Cancel: the turn's entry, then the summary's.  Only the chat page calls it, in the  *)
(* window's event loop: one call at a time.                                            *)

\* A plausible bug: the type assertion on the stored function fails.
CancelTurnUncalled(s) ==
    /\ s \notin canceling
    /\ canceling' = canceling \cup {s}
    /\ activeTurn' = [activeTurn EXCEPT ![s] = Nobody]
    /\ UNCHANGED <<activeSummary, cancelled, pc, callers, overlapped>>

CancelTurn(s) ==
    /\ s \notin canceling
    /\ canceling' = canceling \cup {s}
    /\ activeTurn' = [activeTurn EXCEPT ![s] = Nobody]
    /\ cancelled' = cancelled \cup ({activeTurn[s]} \ {Nobody})
    /\ UNCHANGED <<activeSummary, pc, callers, overlapped>>

CancelSummary(s) ==
    /\ s \in canceling
    /\ canceling' = canceling \ {s}
    /\ activeSummary' = [activeSummary EXCEPT ![s] = Nobody]
    /\ cancelled' = cancelled \cup ({activeSummary[s]} \ {Nobody})
    /\ UNCHANGED <<activeTurn, pc, callers, overlapped>>

-----------------------------------------------------------------------------
(* Summarize: it looks at the turn's key and stores under its own. *)

CheckBusySummary(x) ==
    /\ pc[x] = "idle"
    /\ Goto(x, IF activeTurn[SessionOf[x]] = Nobody THEN "checked" ELSE "refused")
    /\ UNCHANGED <<maps, cancelled, callers, canceling, overlapped>>

\* A plausible bug: the key lacks its suffix.
StoreSummaryUnderTurn(x) ==
    /\ pc[x] = "checked"
    /\ activeTurn' = [activeTurn EXCEPT ![SessionOf[x]] = x]
    /\ Goto(x, "working")
    /\ UNCHANGED <<activeSummary, cancelled, callers, canceling, overlapped>>

StoreSummary(x) ==
    /\ pc[x] = "checked"
    /\ activeSummary' = [activeSummary EXCEPT ![SessionOf[x]] = x]
    /\ Goto(x, "working")
    /\ overlapped' = IF Beside(x) = {} THEN overlapped
                     ELSE overlapped \cup Beside(x) \cup {x}
    /\ UNCHANGED <<activeTurn, cancelled, callers, canceling>>

\* the deferred cancel() runs first
FinishSummary(x) ==
    /\ pc[x] = "working"
    /\ cancelled' = cancelled \cup {x}
    /\ Goto(x, "finishing")
    /\ UNCHANGED <<maps, callers, canceling, overlapped>>

\* the deferred Delete
FreeSummary(x) ==
    /\ pc[x] = "finishing"
    /\ activeSummary' = [activeSummary EXCEPT ![SessionOf[x]] = Nobody]
    /\ Goto(x, "ended")
    /\ UNCHANGED <<activeTurn, cancelled, callers, canceling, overlapped>>

-----------------------------------------------------------------------------
TurnStep(t) ==
    \/ StoreTurn(t)
    \/ FinishTurn(t)
    \/ FreeTurn(t)
    \/ Deliver(t)
    \/ DeliverPanic(t)

SummaryStep(x) ==
    \/ StoreSummary(x)
    \/ FinishSummary(x)
    \/ FreeSummary(x)

Next ==
    \/ \E t \in Turns : CheckBusy(t) \/ TurnStep(t) \/ Panic(t) \/ Leave(t)
    \/ \E x \in Summaries : CheckBusySummary(x) \/ SummaryStep(x)
    \/ \E s \in Sessions : CancelTurn(s) \/ CancelSummary(s)

\* Goroutines run, and the work of a turn comes to an end, as CancelEndsTurn
\* and RequestReturns say of its parts once it is cancelled.
Fairness ==
    /\ \A t \in Turns : WF_vars(TurnStep(t))
    /\ \A x \in Summaries : WF_vars(SummaryStep(x))

Spec == Init /\ [][Next]_vars
FairSpec == Spec /\ Fairness

-----------------------------------------------------------------------------
(* Every variable has its type. *)
TypeOK ==
    /\ activeTurn \in [Sessions -> Turns \cup {Nobody}]
    /\ activeSummary \in [Sessions -> Summaries \cup {Nobody}]
    /\ pc \in [Jobs -> {"idle", "checked", "refused", "working", "finishing",
                        "sending", "ended", "panicked"}]
    /\ cancelled \subseteq Jobs
    /\ heard \subseteq Turns /\ listening \subseteq Turns
    /\ canceling \subseteq Sessions
    /\ overlapped \subseteq Jobs

(* A session is busy only on account of a turn of its own that is still in
   flight: no interleaving of Run, Cancel and Delete leaves an entry behind
   that would refuse every later turn.  (The entry of a turn that panicked
   does stay: it counts as in flight here until somebody calls Cancel.) *)
EntriesAreLive ==
    /\ \A s \in Sessions : activeTurn[s] # Nobody =>
          SessionOf[activeTurn[s]] = s /\ InFlight(activeTurn[s])
    /\ \A s \in Sessions : activeSummary[s] # Nobody =>
          SessionOf[activeSummary[s]] = s /\ InFlight(activeSummary[s])

(* A turn or summary that works under a live context can be cancelled: Cancel
   finds its entry, unless another one of its session overlapped it. *)
Reachable(j) == IF j \in Turns THEN activeTurn[SessionOf[j]] = j
                ELSE activeSummary[SessionOf[j]] = j
WorkIsCancellable ==
    \A j \in Jobs : pc[j] = "working" /\ j \notin cancelled /\ j \notin overlapped
                    => Reachable(j)

(* A caller that has the result of its turn in hand can start the next one at
   once: its own turn is no longer what keeps the session busy. *)
HeardMeansFree ==
    \A t \in heard : activeTurn[SessionOf[t]] = t => pc[t] = "panicked"

(* A turn that is over frees its session even though nobody reads its result
   any more, as the terminal window never does. *)
SessionIsFreed ==
    \A t \in Turns : pc[t] = "finishing" ~> activeTurn[SessionOf[t]] # t

(* A caller that goes on reading hears how its turn ended, a panic included. *)
ListenerHears ==
    \A t \in Turns : pc[t] = "working" ~> t \in heard \/ t \notin listening

(* The end of a turn reaches both who waits for it and the session it held. *)
TurnEndsForAll == SessionIsFreed /\ ListenerHears

(* pkg/svpc/README.md:125: "The agent refuses a second turn in a conversation
   while the first is running, because the tools of the first are still
   going." *)
OneTurnPerSession ==
    \A t, u \in Turns :
        t # u /\ SessionOf[t] = SessionOf[u] =>
            ~(pc[t] = "working" /\ pc[u] = "working")
=============================================================================
