------------------------------ MODULE Windows ------------------------------
(***************************************************************************)
(* The windows of the terminal interface (tui.go): which are shown, which   *)
(* takes a key, and what comes of it later.  A window never closes itself:   *)
(* its command sends a message, which arrives when it arrives, in any order  *)
(* and with other keys in between.  Permission requests and the agent's       *)
(* events come from outside.                                                *)
(*                                                                         *)
(* Terminal has the permission window in detail, Composer the chat page.     *)
(* What is chosen in the file and the model window is left out.              *)
(***************************************************************************)
EXTENDS Naturals, Sequences, FiniteSetsExt

CONSTANTS
    WinKeys,        \* the keys that are pressed
    WinMaxKeys,     \* bound: how many
    WinMaxEvents,   \* bound: permission requests and turns
    Fields          \* arguments of the custom command

VARIABLES
    windowsOpen,    \* the windows shown
    currentPage,
    cwdFocused,     \* the file window's line for a path has the focus
    selectedNo,     \* the quit window
    focusIndex,     \* the arguments window: the field that gets the keys
    flight,         \* messages under way, numbered
    selectedSession, \* is a session selected: it is never let go
    isCompacting,   \* "Summarizing" is drawn over everything
    winAsked,       \* commands that will call Summarize
    summaries,      \* summaries at work: one does not keep another away
    turn,           \* is a turn of the agent under way
    agentEvents,    \* its events on their way to the window
    initialized,    \* MarkProjectInitialized
    quitting,
    keys, winEvents,\* counters
    shown,          \* history: the init window was shown
    unmarkable,     \* history: the mark could not be made
    refused,        \* history: a Summarize returned an error, which nobody reads
    lostEnd,        \* history: the end of a summary was dropped on its way
    crossed         \* history: an error of a turn came while a summary was at work

winState == <<windowsOpen, currentPage, cwdFocused, selectedNo, focusIndex>>
agentWork == <<isCompacting, winAsked, summaries, turn, agentEvents, refused, lostEnd, crossed>>
project == <<initialized, shown, unmarkable>>
winVars == <<winState, flight, selectedSession, agentWork, project, quitting, keys, winEvents>>

\* The order in which Update offers a key, and the order in which View draws, the last
\* on top of the others.
Routing == <<"arguments", "filepicker", "quit", "permissions", "session", "command",
             "model", "init", "theme">>
Drawing == <<"permissions", "filepicker", "help", "quit", "session", "model", "command",
             "init", "theme", "arguments">>
Placed(order) == {i \in DOMAIN order : order[i] \in windowsOpen}
FirstShown(order) == IF Placed(order) = {} THEN "page" ELSE order[Min(Placed(order))]
LastShown(order) == IF Placed(order) = {} THEN "page" ELSE order[Max(Placed(order))]
Receiver == FirstShown(Routing)
Top == LastShown(Drawing)

Busy == turn \/ summaries > 0
Showing(ws) == windowsOpen \cap ws # {}
Sent(m) == flight' = flight \cup {[msg |-> m, n |-> keys]}

WinInit ==
    /\ windowsOpen = {} /\ currentPage = "chat" /\ cwdFocused = FALSE /\ selectedNo = TRUE
    /\ focusIndex = 1
    /\ flight = {[msg |-> "ShowInit", n |-> 0]} /\ selectedSession = FALSE
    /\ isCompacting = FALSE /\ winAsked = 0 /\ summaries = 0 /\ turn = FALSE /\ agentEvents = <<>>
    /\ initialized \in BOOLEAN /\ shown = FALSE /\ unmarkable = FALSE
    /\ quitting = FALSE /\ keys = 0 /\ winEvents = 0
    /\ refused = FALSE /\ lostEnd = FALSE /\ crossed = FALSE

\* The flag file may be impossible to make; the window closes all the same.
Mark ==
    /\ \/ initialized' = TRUE /\ UNCHANGED unmarkable
       \/ unmarkable' = TRUE /\ UNCHANGED initialized
    /\ UNCHANGED shown

-----------------------------------------------------------------------------
(* Keys that mean the same everywhere.                                       *)

Toggle(w) == windowsOpen' = IF w \in windowsOpen THEN windowsOpen \ {w} ELSE windowsOpen \cup {w}
Shows(w, guard) == windowsOpen' = IF guard THEN windowsOpen \cup {w} ELSE windowsOpen
Stays == UNCHANGED <<currentPage, project>>

QuitKey ==
    LET rest == windowsOpen \ {"help", "session", "command", "filepicker", "model", "arguments"}
    IN /\ windowsOpen' = IF "quit" \in windowsOpen THEN rest \ {"quit"} ELSE rest \cup {"quit"}
       /\ Stays

\* A plausible bug: the session list looks at the permission window alone.
SessionKeyUnguarded ==
    /\ \/ Shows("session", currentPage = "chat" /\ ~Showing({"permissions"}))
       \/ UNCHANGED windowsOpen
    /\ Stays

\* There may be no session, or none that can be read.
SessionKey ==
    /\ \/ Shows("session", currentPage = "chat"
                        /\ ~Showing({"quit", "permissions", "command"}))
       \/ UNCHANGED windowsOpen
    /\ Stays

CommandKey ==
    /\ Shows("command", currentPage = "chat"
             /\ ~Showing({"quit", "permissions", "session", "theme", "filepicker"}))
    /\ Stays

ModelKey ==
    /\ IF "model" \in windowsOpen THEN windowsOpen' = windowsOpen \ {"model"}
       ELSE Shows("model", currentPage = "chat"
                  /\ ~Showing({"quit", "permissions", "session", "command"}))
    /\ Stays

ThemeKey == Shows("theme", ~Showing({"quit", "permissions", "session", "command"})) /\ Stays

HelpKey ==
    IF "quit" \in windowsOpen THEN UNCHANGED windowsOpen /\ Stays
    ELSE Toggle("help") /\ Stays

\* moveToPage
MoveTo(page) ==
    /\ currentPage' = IF Busy THEN currentPage ELSE page
    /\ UNCHANGED <<windowsOpen, project>>

EscOrder == <<"quit", "help", "init", "filepicker">>
EscTop == FirstShown(EscOrder)

\* A plausible bug: esc closes the question of the first start and leaves no mark.
EscClosesUnmarked ==
    /\ windowsOpen' = windowsOpen \ {EscTop}
    /\ Stays

\* esc: the first of these that is shown is closed.
EscCloses ==
    /\ windowsOpen' = windowsOpen \ {EscTop}
    /\ IF EscTop = "init" THEN Mark ELSE UNCHANGED project
    /\ UNCHANGED currentPage

IsShortcut(k) ==
    \/ k \in {"ctrl+c", "ctrl+s", "ctrl+k", "ctrl+o", "ctrl+t", "ctrl+l", "ctrl+h", "ctrl+f"}
    \/ k = "?" /\ Busy
    \/ k = "esc" /\ ~cwdFocused
       /\ (EscTop # "page" \/ currentPage = "logs")

Shortcut(k) ==
    /\ \/ k = "ctrl+c" /\ QuitKey
       \/ k = "ctrl+s" /\ SessionKey
       \/ k = "ctrl+k" /\ CommandKey
       \/ k = "ctrl+o" /\ ModelKey
       \/ k = "ctrl+t" /\ ThemeKey
       \/ k = "ctrl+l" /\ MoveTo("logs")
       \/ k \in {"ctrl+h", "?"} /\ HelpKey
       \/ k = "ctrl+f" /\ Toggle("filepicker") /\ Stays
       \/ k = "esc" /\ IF EscTop # "page" THEN EscCloses ELSE MoveTo("chat")
    /\ UNCHANGED <<cwdFocused, selectedNo, focusIndex, flight, quitting>>

-----------------------------------------------------------------------------
(* Keys a window takes.                                                      *)

\* What a list says to the keys that end it.
Picks(k, selected, closed) ==
    IF k = "enter" THEN selected ELSE IF k = "esc" THEN closed ELSE "nothing"

QuitSays(k) ==
    IF k = "y" \/ (k = "enter" /\ ~selectedNo) THEN "Quit"
    ELSE IF k \in {"n", "enter"} THEN "CloseQuit" ELSE "nothing"
SessionSays(k) == Picks(k, "SessionSelected", "CloseSession")
CommandSays(k) == Picks(k, "CommandSelected", "CloseCommand")
ModelSays(k) == Picks(k, "ModelSelected", "CloseModel")
ThemeSays(k) == Picks(k, "ThemeChanged", "CloseTheme")
InitSays(k) == IF k \in {"y", "n", "enter", "esc"} THEN "CloseInit" ELSE "nothing"
PermissionSays(k) == IF k = "enter" THEN "PermissionResponse" ELSE "nothing"
ArgumentsSay(k) ==
    IF k = "esc" \/ (k = "enter" /\ focusIndex = Fields) THEN "CloseArguments" ELSE "nothing"

Says(w, k) ==
    CASE w = "quit"        -> QuitSays(k)
      [] w = "session"     -> SessionSays(k)
      [] w = "command"     -> CommandSays(k)
      [] w = "model"       -> ModelSays(k)
      [] w = "theme"       -> ThemeSays(k)
      [] w = "init"        -> InitSays(k)
      [] w = "permissions" -> PermissionSays(k)
      [] w = "arguments"   -> ArgumentsSay(k)
      [] OTHER             -> "nothing"

ToWindow(w, k) ==
    /\ IF Says(w, k) \in {"nothing", "Quit"} THEN UNCHANGED flight ELSE Sent(Says(w, k))
    /\ quitting' = (quitting \/ Says(w, k) = "Quit")
    /\ selectedNo' = IF w = "quit" /\ k = "tab" THEN ~selectedNo ELSE selectedNo
    /\ cwdFocused' = IF w = "filepicker" /\ k \in {"i", "esc"} THEN k = "i" ELSE cwdFocused
    /\ IF w = "arguments" /\ k \in {"enter", "tab"} /\ Says(w, k) = "nothing"
       THEN focusIndex' = 1 + (focusIndex % Fields)
       ELSE UNCHANGED focusIndex
    /\ UNCHANGED <<windowsOpen, currentPage, project>>

PressKey(k) ==
    /\ keys < WinMaxKeys /\ ~quitting
    /\ keys' = keys + 1
    /\ IF "arguments" \notin windowsOpen /\ IsShortcut(k) THEN Shortcut(k)
       ELSE ToWindow(Receiver, k)
    /\ UNCHANGED <<selectedSession, agentWork, winEvents>>

-----------------------------------------------------------------------------
(* Messages.                                                                 *)

Takes(m, ms) ==
    /\ m \in flight /\ m.msg \in ms /\ ~quitting
    /\ UNCHANGED <<currentPage, cwdFocused, selectedNo, quitting, keys, winEvents>>

\* Those that only close their window: a selection goes on to the chat page, a model to
\* the agent, a theme to the styles.
ClosesWindow ==
    [CloseQuit |-> "quit", CloseSession |-> "session", SessionSelected |-> "session",
     CloseCommand |-> "command", CloseModel |-> "model", ModelSelected |-> "model",
     CloseTheme |-> "theme", ThemeChanged |-> "theme", PermissionResponse |-> "permissions"]

HandleClose(m) ==
    /\ Takes(m, DOMAIN ClosesWindow)
    /\ windowsOpen' = windowsOpen \ {ClosesWindow[m.msg]}
    /\ flight' = IF m.msg = "SessionSelected" /\ currentPage = "chat"
                 THEN (flight \ {m}) \cup {[m EXCEPT !.msg = "ChatSelected"]}
                 ELSE flight \ {m}
    /\ UNCHANGED <<selectedSession, focusIndex, agentWork, project>>

\* chat.SessionSelectedMsg, of the list or of the session a prompt made
HandleSelected(m) ==
    /\ Takes(m, {"ChatSelected"})
    /\ selectedSession' = TRUE
    /\ flight' = flight \ {m}
    /\ UNCHANGED <<windowsOpen, focusIndex, agentWork, project>>

\* The question of the first start, and its answer.  "y" runs the init command.
HandleInit(m) ==
    /\ Takes(m, {"ShowInit", "CloseInit"})
    /\ windowsOpen' = IF m.msg = "ShowInit" /\ ~initialized THEN windowsOpen \cup {"init"}
                      ELSE windowsOpen \ {"init"}
    /\ IF m.msg = "CloseInit" THEN Mark
       ELSE shown' = (shown \/ "init" \in windowsOpen') /\ UNCHANGED <<initialized, unmarkable>>
    /\ flight' = flight \ {m}
    /\ UNCHANGED <<selectedSession, focusIndex, agentWork>>

\* The command list: the one that compacts, one with arguments, any other.
HandleCommand(m) ==
    /\ Takes(m, {"CommandSelected"})
    /\ windowsOpen' = windowsOpen \ {"command"}
    /\ \E next \in {"StartCompact", "ShowArguments", "none"} :
          flight' = IF next = "none" THEN flight \ {m}
                    ELSE (flight \ {m}) \cup {[m EXCEPT !.msg = next]}
    /\ UNCHANGED <<selectedSession, focusIndex, agentWork, project>>

HandleArguments(m) ==
    /\ Takes(m, {"ShowArguments", "CloseArguments"})
    /\ IF m.msg = "ShowArguments"
       THEN windowsOpen' = windowsOpen \cup {"arguments"} /\ focusIndex' = 1
       ELSE windowsOpen' = windowsOpen \ {"arguments"} /\ UNCHANGED focusIndex
    /\ flight' = flight \ {m}
    /\ UNCHANGED <<selectedSession, agentWork, project>>

\* startCompactSessionMsg, with a session or without one
HandleCompact(m) ==
    /\ Takes(m, {"StartCompact"})
    /\ flight' = flight \ {m}
    /\ isCompacting' = selectedSession
    /\ winAsked' = IF selectedSession THEN winAsked + 1 ELSE winAsked
    /\ crossed' = (crossed /\ ~selectedSession)
    /\ UNCHANGED <<windowsOpen, selectedSession, focusIndex, summaries, turn, agentEvents, refused,
                   lostEnd, project>>

-----------------------------------------------------------------------------
(* From outside.                                                             *)

Outside ==
    /\ winEvents < WinMaxEvents /\ winEvents' = winEvents + 1 /\ ~quitting
    /\ UNCHANGED <<project, quitting, keys>>

PermissionAsked ==
    /\ Outside
    /\ windowsOpen' = windowsOpen \cup {"permissions"}
    /\ UNCHANGED <<currentPage, cwdFocused, selectedNo, focusIndex, flight, selectedSession,
                   agentWork>>

\* A prompt, which may make a session and announce it.
TurnBegins ==
    /\ Outside /\ ~turn
    /\ turn' = TRUE
    /\ IF selectedSession THEN UNCHANGED flight ELSE Sent("ChatSelected")
    /\ UNCHANGED <<winState, selectedSession, isCompacting, winAsked, summaries,
                   agentEvents, refused, lostEnd, crossed>>

\* The broker drops what its buffer of 64 has no room for, and the pump what the channel
\* of the window does not take within two seconds: logs, messages, sessions and permission
\* requests go the same way, so any event may be lost.
Arrives(es) == agentEvents' = agentEvents \o es
GetsLost == UNCHANGED agentEvents

TurnEnds ==
    /\ turn /\ turn' = FALSE
    /\ Arrives(<<"answer">>) \/ Arrives(<<"error">>) \/ GetsLost
    /\ UNCHANGED <<winState, flight, selectedSession, isCompacting, winAsked, summaries, refused,
                   lostEnd, crossed, project, quitting, keys, winEvents>>

\* Summarize returns an error while its session has a turn, and the error is dropped.
Summarize ==
    /\ winAsked > 0 /\ winAsked' = winAsked - 1
    /\ summaries' = IF turn THEN summaries ELSE summaries + 1
    /\ refused' = (refused \/ turn)
    /\ UNCHANGED <<winState, flight, selectedSession, isCompacting, turn, agentEvents, lostEnd,
                   crossed, project, quitting, keys, winEvents>>

\* A session that cannot be saved is told of twice.
SummaryEnds ==
    /\ summaries > 0 /\ summaries' = summaries - 1
    /\ \/ /\ \E es \in {<<"summarised">>, <<"error">>, <<"error", "summarised">>} : Arrives(es)
          /\ UNCHANGED lostEnd
       \/ GetsLost /\ lostEnd' = TRUE
    /\ UNCHANGED <<winState, flight, selectedSession, isCompacting, winAsked, turn, refused, crossed,
                   project, quitting, keys, winEvents>>

\* A plausible bug: the end of a summary closes the overlay only if it went well.
HandleEventWell ==
    /\ agentEvents # <<>> /\ ~quitting
    /\ agentEvents' = Tail(agentEvents)
    /\ isCompacting' = (isCompacting /\ Head(agentEvents) # "summarised")
    /\ refused' = (refused /\ isCompacting') /\ lostEnd' = (lostEnd /\ isCompacting')
    /\ UNCHANGED <<flight, crossed, winState, selectedSession, winAsked, summaries, turn, project,
                   quitting, keys, winEvents>>

\* The error of any turn closes the overlay; an answer may find the context nearly full,
\* and compacts the session.
HandleEvent ==
    /\ agentEvents # <<>> /\ ~quitting
    /\ agentEvents' = Tail(agentEvents)
    /\ LET e == Head(agentEvents) IN
       /\ isCompacting' = (isCompacting /\ e = "answer")
       /\ refused' = (refused /\ isCompacting') /\ lostEnd' = (lostEnd /\ isCompacting')
       /\ crossed' = (crossed \/ (e # "answer" /\ winAsked + summaries > 0))
       /\ \/ UNCHANGED flight
          \/ e = "answer" /\ selectedSession /\ Sent("StartCompact")
    /\ UNCHANGED <<winState, selectedSession, winAsked, summaries, turn, project, quitting, keys,
                   winEvents>>

WinNext ==
    \/ \E k \in WinKeys : PressKey(k)
    \/ \E m \in flight : HandleClose(m) \/ HandleSelected(m) \/ HandleInit(m) \/ HandleCommand(m)
                         \/ HandleArguments(m) \/ HandleCompact(m)
    \/ PermissionAsked \/ TurnBegins \/ TurnEnds \/ Summarize \/ SummaryEnds
    \/ HandleEvent

WinSpec == WinInit /\ [][WinNext]_winVars

-----------------------------------------------------------------------------
(* Of the windows that look at one another before they open, the one on top takes
   the keys.  Excepted are the help, which takes none, and five windows that come over
   or under others: a permission request and the question of the first start come
   unasked, the file window looks at nothing, and the model and the theme window do not
   keep the later ones away.  Two pairs of those exclude each other all the same. *)
TopTakesKeys ==
    /\ Receiver = Top
       \/ Showing({"help", "permissions", "filepicker", "theme", "model", "init"})
    /\ ~({"theme", "command"} \subseteq windowsOpen)
    /\ ~({"quit", "session"} \subseteq windowsOpen)

(* Once the question of the first start was shown and is gone, by its own keys or by
   the key that closes windows, the project is marked, unless the mark cannot be made:
   no way of closing it asks again. *)
InitAnsweredIsMarked == shown /\ "init" \notin windowsOpen => initialized \/ unmarkable

(* "Summarizing" is drawn while a summary is asked for, at work or just over, and is
   not left standing, unless Summarize was refused, which nobody hears of, or the word
   of its end was dropped on its way (broker.go:110-114, root.go:252-255): nothing else
   takes the overlay away.  And a summary at work is seen, unless the error of a turn,
   or the end of another summary, took the overlay away. *)
OverlayMeansWork ==
    /\ isCompacting => winAsked + summaries > 0 \/ refused \/ lostEnd \/ agentEvents # <<>>
    /\ summaries > 0 /\ ~isCompacting => crossed

(* The windows keep to what is shown and what is under way. *)
WindowsTellTheTruth == TopTakesKeys /\ InitAnsweredIsMarked /\ OverlayMeansWork
=============================================================================
