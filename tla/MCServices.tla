---------------------------- MODULE MCServices ----------------------------
(***************************************************************************)
(* Six parts of the program with liveness properties.  They share no state  *)
(* and each is followed alone: the first state says which, and the others   *)
(* stay as they begin.                                                      *)
(*                                                                         *)
(* The bridge has two chats, of two conversations: one is refused while the *)
(* other runs, or gets its questions.  There is room for one request in     *)
(* bridge.perm, so that the second one has to wait.                         *)
(***************************************************************************)
EXTENDS Integers, Sequences, FiniteSets, TLC, Shell, AppLife,
        Bridge

CONSTANTS
    Callers, Waiters, MaxAsked,
    chat1, chat2, talkA, talkB,
    Requests, Scopes, Sessions, ScopeOf, SessionOf, Headless, Answerers, PermQueueSize,
    NoJob, Offered, r1, r2, editA, bashB, s1, s2,
    Asks, Stored, NoSession, LibMaxCalls, LibMaxRounds

VARIABLES
    part,
    lspServer, garbled, writing, lspCall, handlers, answered, waiter, poked, lspCurrent,
    inbox, unread, asked, out, lspLoop, running, crashed,
    autoApproveSessions, sessionPermissions, permPending, respCh, closing, permSubscribed,
    queue, pc, verdict, shown, apc, permJob, copy, said,
    libCall, libTurn, libActive, told, libClosing

Lsp == INSTANCE LspClient WITH
    server <- lspServer, call <- lspCall, current <- lspCurrent, loop <- lspLoop
Perm == INSTANCE Permission WITH
    QueueSize <- PermQueueSize, pending <- permPending, subscribed <- permSubscribed,
    job <- permJob
Lib == INSTANCE Embed WITH
    MaxCalls <- LibMaxCalls, MaxRounds <- LibMaxRounds, call <- libCall, turn <- libTurn,
    active <- libActive, closing <- libClosing

lsp == <<lspServer, garbled, writing, lspCall, handlers, answered, waiter, poked, lspCurrent,
         inbox, unread, asked, out, lspLoop, running, crashed>>
permission == <<autoApproveSessions, sessionPermissions, permPending, respCh, closing,
                permSubscribed, queue, pc, verdict, shown, apc, permJob, copy, said>>
library == <<libCall, libTurn, libActive, told, libClosing>>
vars == <<part, lsp, appVars, shellVars, guiVars, permission, library>>

Init ==
    /\ part \in {"lsp", "app", "shell", "gui", "permission", "library"}
    /\ Lsp!Init /\ AppInit /\ ShellInit /\ GuiInit /\ Perm!Init /\ Lib!Init
    /\ part = "gui" \/ talk = CHOOSE t \in Talks : TRUE

Next ==
    /\ UNCHANGED part
    /\ \/ part = "lsp" /\ Lsp!Next /\ UNCHANGED <<appVars, shellVars, guiVars, permission, library>>
       \/ part = "app" /\ AppNext /\ UNCHANGED <<lsp, shellVars, guiVars, permission, library>>
       \/ part = "shell" /\ ShellNext /\ UNCHANGED <<lsp, appVars, guiVars, permission, library>>
       \/ part = "gui" /\ GuiNext /\ UNCHANGED <<lsp, appVars, shellVars, permission, library>>
       \/ part = "permission" /\ Perm!Next
          /\ UNCHANGED <<lsp, appVars, shellVars, guiVars, library>>
       \/ part = "library" /\ Lib!Next /\ UNCHANGED <<lsp, appVars, shellVars, guiVars, permission>>

\* The fairness of each part's own Spec, for the part that is followed.
LspFairness ==
    /\ \A c \in Callers : WF_lsp(part = "lsp" /\ Lsp!CallStep(c))
    /\ \A w \in Waiters : WF_lsp(part = "lsp" /\ Lsp!WaitStep(w))
    /\ WF_lsp(part = "lsp" /\ Lsp!LoopStep)
    /\ WF_lsp(part = "lsp" /\ ~crashed /\ Lsp!Handle)
    /\ WF_lsp(part = "lsp" /\ ~crashed /\ Lsp!Serve)
AppFairness ==
    /\ \A n \in Names : /\ WF_appVars(part = "app" /\ Client(n))
                        /\ WF_appVars(part = "app" /\ Stops(n))
    /\ WF_appVars(part = "app" /\ quit # "no" /\ AppShutdown)
ShellFairness ==
    /\ \A c \in Calls : WF_shellVars(part = "shell" /\ Caller(c))
    /\ \A s \in 1..MaxShells :
          /\ WF_shellVars(part = "shell" /\ Processor(s))
          /\ WF_shellVars(part = "shell" /\ Begins(s))
          /\ WF_shellVars(part = "shell" /\ Waiter(s))

GuiFairness ==
    /\ WF_guiVars(part = "gui" /\ WatcherStep)
    /\ WF_guiVars(part = "gui" /\ \E c \in GuiChats : HandlerStep(c))
PermissionFairness ==
    /\ \A r \in Requests :
          WF_permission(part = "permission" /\ Perm!ToolStep(r) /\ pc[r] # "idle")
    /\ \A a \in Answerers : WF_permission(part = "permission" /\ Perm!AnswererStep(a))
LibraryFairness ==
    \A a \in Asks : /\ WF_library(part = "library" /\ Lib!TurnStep(a))
                    /\ WF_library(part = "library" /\ Lib!CallerStep(a))

Spec ==
    /\ Init /\ [][Next]_vars
    /\ LspFairness /\ AppFairness /\ ShellFairness /\ GuiFairness
    /\ PermissionFairness /\ LibraryFairness

MCTalks == {(chat1 :> talkA) @@ (chat2 :> talkB)}

\* Two requests of two sessions, one of them headless.
MCScopeOf == (r1 :> editA) @@ (r2 :> bashB)
MCSessionOf == (editA :> s1) @@ (bashB :> s2)
MCHeadless == {s2}
MCOffered == {"allow", "trust", "deny"}

-----------------------------------------------------------------------------
(* Properties: those of the parts, where each is stated and explained.        *)

(* An LSP request returns, fails, or waits on a server that died, was garbled, or said  *)
(* something the loop could not read.                                         *)
CallReturns == Lsp!CallReturns
(* ShutdownEnds and ClientsOutliveWatchers are the application's own.             *)
(* ExecReturns and ExecAnswersOwn are the shell's own.                         *)
(* ConnectionsAreServed is the bridge's own.                                   *)
(* No tool, no request after Shutdown and no answerer waits for good.         *)
NobodyWaitsForGood == Perm!NobodyWaitsForGood
(* Ask and Answer return, unless their turn panicked, and the callback hears of an error
   last.                                                                      *)
CallersAreTold == Lib!CallersAreTold
=============================================================================
