------------------------------ MODULE AppLife ------------------------------
(***************************************************************************)
(* The application's language servers: internal/app/lsp.go starts each in a *)
(* goroutine of its own and restarts one whose watcher panicked;            *)
(* App.Shutdown (app.go) cancels the watchers, waits for their group and    *)
(* then asks every server to shut down.  Client.Call, which starting and    *)
(* shutting down both use, looks neither at its context nor at the death of *)
(* the server while it waits.                                               *)
(***************************************************************************)
EXTENDS Naturals, FiniteSets

CONSTANTS
    Names,       \* configured language servers
    MaxPanics    \* bound: watchers that panic

ASSUME NamesAssumption == IsFiniteSet(Names)

VARIABLES
    phase,       \* name -> where the goroutine that looks after it is
    restarted,   \* names started by restartLSPClient, under the watcher's context
    appServer,   \* name -> "none", "up" or "dead": its newest process
    owned,       \* names whose process runs under a watcher's context
    cancelFuncs, \* names in watcherCancelFuncs
    appCancelled, \* names whose watcher's context is cancelled
    group,       \* watcherWG
    clients,     \* names in App.LSPClients
    panics,      \* watchers that have panicked
    quit,        \* Shutdown: "no", "cancelled", "waited", "asked" or "done"
    todo,        \* clients Shutdown has still to ask
    asking,      \* the client it is asking
    late         \* history: names that joined the group after the cancel loop

starting == <<phase, restarted, appServer, owned, group, clients, panics>>
registry == <<cancelFuncs, late>>
stopping == <<quit, todo, asking, appCancelled>>
appVars == <<starting, registry, stopping>>

AppInit ==
    /\ phase = [n \in Names |-> "start"] /\ restarted = {}
    /\ appServer = [n \in Names |-> "none"] /\ owned = {}
    /\ cancelFuncs = {} /\ appCancelled = {} /\ group = 0 /\ clients = {}
    /\ panics = 0 /\ quit = "no" /\ todo = {} /\ asking = {} /\ late = {}

Advances(n, from, to) ==
    /\ phase[n] = from
    /\ phase' = [phase EXCEPT ![n] = to]

\* Done, for the group's entry a restarting goroutine still holds.
Leaves(n) == group' = IF n \in restarted THEN group - 1 ELSE group

-----------------------------------------------------------------------------
(* createAndStartLSPClient. *)

\* NewClient: a process is started, not under a cancelled context.
Launch(n) ==
    /\ ~(n \in restarted /\ n \in appCancelled)
    /\ Advances(n, "start", "launched")
    /\ appServer' = [appServer EXCEPT ![n] = "up"]
    /\ owned' = IF n \in restarted THEN owned \cup {n} ELSE owned
    /\ UNCHANGED <<restarted, group, clients, panics, registry, stopping>>

AskInitialize(n) ==
    /\ appServer[n] = "up" /\ Advances(n, "launched", "initialize")
    /\ UNCHANGED <<restarted, appServer, owned, group, clients, panics, registry, stopping>>

\* NewClient fails, initialize cannot be written, or the server answers it with an
\* error: the client is closed.
Fails(n) ==
    /\ \/ Advances(n, "start", "failed") /\ UNCHANGED appServer
       \/ /\ \/ appServer[n] = "dead" /\ Advances(n, "launched", "failed")
             \/ appServer[n] = "up" /\ Advances(n, "initialize", "failed")
          /\ appServer' = [appServer EXCEPT ![n] = "dead"]
    /\ Leaves(n)
    /\ UNCHANGED <<restarted, owned, clients, panics, registry, stopping>>

\* The server has answered.  WaitForServerReady looks at its time-out between two pings,
\* and sends none to a server that is dead.
Initialized(n) ==
    /\ appServer[n] = "up" /\ Advances(n, "initialize", "ready")
    /\ UNCHANGED <<restarted, appServer, owned, group, clients, panics, registry, stopping>>

Pings(n) ==
    /\ appServer[n] = "up" /\ Advances(n, "ready", "ping")
    /\ UNCHANGED <<restarted, appServer, owned, group, clients, panics, registry, stopping>>

\* Whether or not the server was ready in time.
StoreCancel(n) ==
    /\ Advances(n, "ready", "stored") \/ (appServer[n] = "up" /\ Advances(n, "ping", "stored"))
    /\ cancelFuncs' = cancelFuncs \cup {n}
    /\ UNCHANGED <<restarted, appServer, owned, group, clients, panics, late, stopping>>

AddGroup(n) ==
    /\ Advances(n, "stored", "added")
    /\ group' = group + 1
    /\ late' = IF quit = "no" THEN late ELSE late \cup {n}
    /\ UNCHANGED <<restarted, appServer, owned, clients, panics, cancelFuncs, stopping>>

\* In a restart the old watcher's goroutine ends here, with its Done.
StartWatcher(n) ==
    /\ Advances(n, "added", "watching")
    /\ clients' = clients \cup {n}
    /\ Leaves(n)
    /\ UNCHANGED <<restarted, appServer, owned, panics, registry, stopping>>

-----------------------------------------------------------------------------
(* runWorkspaceWatcher and restartLSPClient. *)

\* WatchWorkspace returns: its context is done, or it gives up on an error.
WatchEnds(n) ==
    /\ Advances(n, "watching", "ended")
    /\ group' = group - 1
    /\ UNCHANGED <<restarted, appServer, owned, clients, panics, registry, stopping>>

\* A plausible bug: the two deferred calls in the other order.
WatchPanicsDone(n) ==
    /\ panics < MaxPanics /\ panics' = panics + 1
    /\ Advances(n, "watching", "restart")
    /\ restarted' = restarted
    /\ clients' = clients \ {n}
    /\ group' = group - 1
    /\ UNCHANGED <<appServer, owned, registry, stopping>>

\* The recovery runs before Done; the old client leaves the map.
WatchPanics(n) ==
    /\ panics < MaxPanics /\ panics' = panics + 1
    /\ Advances(n, "watching", "restart")
    /\ restarted' = restarted \cup {n}
    /\ clients' = clients \ {n}
    /\ UNCHANGED <<appServer, owned, group, registry, stopping>>

\* Shutdown of the old client: writing to a dead server fails at once.
RestartAsks(n) ==
    /\ Advances(n, "restart", IF appServer[n] = "up" THEN "restartAsked" ELSE "start")
    /\ UNCHANGED <<restarted, appServer, owned, group, clients, panics, registry, stopping>>

RestartAnswered(n) ==
    /\ appServer[n] = "up" /\ Advances(n, "restartAsked", "start")
    /\ appServer' = [appServer EXCEPT ![n] = "dead"]
    /\ UNCHANGED <<restarted, owned, group, clients, panics, registry, stopping>>

-----------------------------------------------------------------------------
(* App.Shutdown, after the permission service's. *)

\* A plausible bug: nobody's context is cancelled.
CancelNobody ==
    /\ quit = "no" /\ quit' = "cancelled"
    /\ UNCHANGED <<appCancelled, phase, restarted, appServer, owned, group, clients, panics,
                   registry, todo, asking>>

\* A restarted server was started under a context this cancels: it is killed.
CancelWatchers ==
    /\ quit = "no" /\ quit' = "cancelled"
    /\ appCancelled' = cancelFuncs
    /\ appServer' = [n \in Names |-> IF n \in owned \cap cancelFuncs THEN "dead" ELSE appServer[n]]
    /\ UNCHANGED <<phase, restarted, owned, group, clients, panics, registry, todo, asking>>

Waited ==
    /\ quit = "cancelled" /\ group = 0 /\ quit' = "waited"
    /\ todo' = clients
    /\ UNCHANGED <<starting, registry, asking, appCancelled>>

AskClient ==
    /\ quit = "waited" /\ asking = {}
    /\ \E n \in todo :
          /\ todo' = todo \ {n}
          /\ asking' = IF appServer[n] = "up" THEN {n} ELSE {}
    /\ UNCHANGED <<starting, registry, quit, appCancelled>>

ClientAnswers ==
    /\ \E n \in asking : appServer[n] = "up"
    /\ asking' = {}
    /\ UNCHANGED <<starting, registry, quit, todo, appCancelled>>

Done ==
    /\ quit = "waited" /\ asking = {} /\ todo = {}
    /\ quit' = "done"
    /\ UNCHANGED <<starting, registry, todo, asking, appCancelled>>

AppShutdown == CancelWatchers \/ Waited \/ AskClient \/ ClientAnswers \/ Done

-----------------------------------------------------------------------------
Die ==
    /\ \E n \in Names :
          appServer[n] = "up" /\ appServer' = [appServer EXCEPT ![n] = "dead"]
    /\ UNCHANGED <<phase, restarted, owned, group, clients, panics, registry, stopping>>

Client(n) ==
    \/ Launch(n) \/ AskInitialize(n) \/ Fails(n) \/ Initialized(n) \/ Pings(n) \/ StoreCancel(n)
    \/ AddGroup(n) \/ StartWatcher(n) \/ RestartAsks(n) \/ RestartAnswered(n)

\* A cancelled watcher returns; one that is not may go on for ever.
Stops(n) == n \in appCancelled /\ WatchEnds(n)

AppNext ==
    \/ \E n \in Names : Client(n) \/ WatchEnds(n) \/ WatchPanics(n)
    \/ AppShutdown \/ Die

\* Goroutines run; a server that is up answers what it is asked.
AppSpec ==
    /\ AppInit /\ [][AppNext]_appVars
    /\ \A n \in Names : WF_appVars(Client(n)) /\ WF_appVars(Stops(n))
    /\ WF_appVars(quit # "no" /\ AppShutdown)

-----------------------------------------------------------------------------
(* Properties. *)

(* A goroutine waits for an answer of a server that has died.                 *)
Unanswered ==
    \/ \E n \in Names : phase[n] \in {"initialize", "ping", "restartAsked"} /\ appServer[n] = "dead"
    \/ \E n \in asking : appServer[n] = "dead"

(* Shutdown does not ask a server to stop while its watcher still runs or is  *)
(* being restarted, unless the watcher joined the group too late for the      *)
(* cancel loop.                                                               *)
ClientsOutliveWatchers ==
    quit \in {"waited", "done"} =>
       \A n \in Names \ late :
          /\ phase[n] # "watching"
          /\ n \in cancelFuncs => phase[n] \notin {"restart", "restartAsked", "added"}

(* Shutdown ends.  Two things can keep it: a client that joins the group      *)
(* after the cancel loop, for nobody cancels its watcher; and a request under *)
(* way when its server dies.                                                  *)
ShutdownEnds == quit = "cancelled" ~> (quit = "done" \/ late # {} \/ Unanswered)
=============================================================================
