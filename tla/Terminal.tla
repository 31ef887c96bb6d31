------------------------------ MODULE Terminal ------------------------------
(***************************************************************************)
(* The terminal window as the place where permissions are given.  A request *)
(* travels from Publish (pubsub/broker.go) through the subscriber's buffer, *)
(* the pump and the common channel of cmd/root.go into the event loop of    *)
(* tui/tui.go, whose permission dialog answers it.                          *)
(*                                                                         *)
(* A key is pressed by a person who looks at the screen, and handled later, *)
(* when something else may be on it; the answer it stands for is a command, *)
(* a goroutine, whose message the loop handles later still.                 *)
(***************************************************************************)
EXTENDS Naturals, Sequences, SequencesExt

CONSTANTS
    TermRequests, \* calls of Request that get as far as asking
    TermKeys,   \* keys a person may press, among those named in HandleKey
    NoRequest,
    TermBuffer, \* room of the subscription (64 in the code)
    TermRoom,   \* room of the common channel (100 in the code)
    TermMaxKeys \* bound: keys pressed in all

VARIABLES
    termAsked,  \* request -> where its tool is in permissionService.Request
    respCh,     \* request -> its channel: the answer in it, or Empty
    verdict,    \* request -> what ended the wait
    queue,      \* the broker's subscription
    subscribed, \* is it open
    pump,       \* the event setupSubscriber's goroutine holds
    ch,         \* the channel all pumps write to
    chOpen,
    hand,       \* the event inside program.Send
    typed,      \* keys pressed and not handled: what they are, whose dialog had the keys
                \*          then, and what was drawn over it
    pressed,    \* how many there have been
    dialog,     \* the dialog's request
    selectedOption, showPermissions,
    inFront,    \* a dialog is open that takes keys first (file picker, quit, arguments)
    over,       \* windows drawn on top of the dialog that get no keys while it is open
    responses,  \* commands on their way: PermissionResponseMsg
    sending,    \* the answer whose channel the loop is sending on, or Empty
    exit,       \* "run", "left" (program.Run has returned), "released", "cancelled"
    surprised,  \* history: requests that took the keys when a key was under way
    beneath     \* history: requests whose dialog came with a list open

tool == <<termAsked, respCh, verdict>>
pipe == <<queue, subscribed, pump, ch, chOpen, hand>>
screen == <<dialog, selectedOption, showPermissions, inFront, over>>
loop == <<typed, responses, sending>>
termVars == <<tool, pipe, screen, loop, pressed, exit, surprised, beneath>>

\* The sessions, commands, models or themes; the help; "Summarizing"; and the question
\* whether to initialize the project.
Overlays == {"list", "help", "summary", "question"}

Empty == [to |-> NoRequest]
Options == <<"allow", "allow_session", "deny">>

TermInit ==
    /\ termAsked = [r \in TermRequests |-> "no"]
    /\ respCh = [r \in TermRequests |-> Empty]
    /\ verdict = [r \in TermRequests |-> Empty]
    /\ queue = <<>> /\ subscribed = TRUE /\ pump = NoRequest
    /\ ch = <<>> /\ chOpen = TRUE /\ hand = NoRequest
    /\ typed = <<>> /\ pressed = 0 /\ responses = <<>> /\ sending = Empty
    /\ dialog = NoRequest /\ selectedOption = 0 /\ showPermissions = FALSE
    /\ inFront = FALSE /\ over \in SUBSET {"question"}
    /\ exit = "run" /\ surprised = {} /\ beneath = {}

\* The permission dialog has the keys for r.
TakesKeys(r) == showPermissions /\ dialog = r /\ ~inFront
HasKeys == IF showPermissions /\ ~inFront THEN dialog ELSE NoRequest

-----------------------------------------------------------------------------
(* The tool, and the broker's Publish: the subscribers are copied under the  *)
(* lock, the sends follow it.                                                *)

Goes(r, from, to) == termAsked[r] = from /\ termAsked' = [termAsked EXCEPT ![r] = to]

Ask(r) ==
    /\ Goes(r, "no", IF subscribed THEN "publish" ELSE "wait")
    /\ UNCHANGED <<respCh, verdict, pipe>>

Publish(r) ==
    /\ subscribed
    /\ Goes(r, "publish", "wait")
    /\ queue' = IF Len(queue) < TermBuffer THEN Append(queue, r) ELSE queue
    /\ UNCHANGED <<respCh, verdict, subscribed, pump, ch, chOpen, hand>>

\* A send on a channel the broker has closed meanwhile; the turn's RecoverPanic
\* and the deferred Delete clean up.
PublishPanics(r) ==
    /\ ~subscribed
    /\ Goes(r, "publish", "done")
    /\ UNCHANGED <<respCh, verdict, pipe>>

ReceiveAnswer(r) ==
    /\ respCh[r] # Empty
    /\ Goes(r, "wait", "leave")
    /\ verdict' = [verdict EXCEPT ![r] = respCh[r]]
    /\ respCh' = [respCh EXCEPT ![r] = Empty]
    /\ UNCHANGED <<pipe>>

\* The five minutes are over, or the service is shut down.
GiveUp(r) ==
    /\ Goes(r, "wait", "leave")
    /\ UNCHANGED <<respCh, verdict, pipe>>

Return(r) ==
    /\ Goes(r, "leave", "done")
    /\ UNCHANGED <<respCh, verdict, pipe>>

-----------------------------------------------------------------------------
(* From the subscription to the event loop.                                  *)

PumpTakes ==
    /\ queue # <<>> /\ pump = NoRequest
    /\ pump' = Head(queue) /\ queue' = Tail(queue)
    /\ UNCHANGED <<subscribed, ch, chOpen, hand, tool>>

PumpPasses ==
    /\ pump \in TermRequests
    /\ Len(ch) < TermRoom
    /\ ch' = Append(ch, pump)
    /\ pump' = NoRequest
    /\ UNCHANGED <<queue, subscribed, chOpen, hand, tool>>

\* two seconds without room
PumpDrops ==
    /\ pump \in TermRequests
    /\ Len(ch) = TermRoom
    /\ pump' = NoRequest
    /\ UNCHANGED <<queue, subscribed, ch, chOpen, hand, tool>>

\* The subscription is closed and read to its end, or its context is cancelled.
PumpEnds ==
    /\ \/ pump = NoRequest /\ queue = <<>> /\ ~subscribed
       \/ exit = "cancelled"
    /\ pump # "ended"
    /\ pump' = "ended"
    /\ UNCHANGED <<queue, subscribed, ch, chOpen, hand, tool>>

HandlerTakes ==
    /\ ch # <<>> /\ hand = NoRequest
    /\ hand' = Head(ch) /\ ch' = Tail(ch)
    /\ UNCHANGED <<queue, subscribed, pump, chOpen, tool>>

Pipe == PumpTakes \/ PumpPasses \/ PumpDrops \/ PumpEnds \/ HandlerTakes

-----------------------------------------------------------------------------
(* The event loop: one message at a time.                                    *)

LoopIsFree == sending = Empty /\ exit = "run"

Press(k) ==
    /\ exit = "run"
    /\ pressed < TermMaxKeys
    /\ pressed' = pressed + 1
    /\ typed' = Append(typed, [key |-> k, on |-> HasKeys,
                             over |-> IF HasKeys = NoRequest THEN {} ELSE over])
    /\ UNCHANGED <<responses, sending, screen, tool, pipe, exit>>

\* pubsub.Event[permission.PermissionRequest]: the dialog's request is replaced,
\* its selected option stays.
ShowRequest ==
    /\ LoopIsFree
    /\ hand \in TermRequests
    /\ dialog' = hand /\ showPermissions' = TRUE
    /\ hand' = NoRequest
    /\ UNCHANGED <<selectedOption, inFront, over, queue, subscribed, pump, ch, chOpen,
                   typed, responses, sending, tool, exit>>

Respond(k, action) ==
    /\ responses' = Append(responses, [to |-> dialog, action |-> action, on |-> k.on, over |-> k.over])
    /\ UNCHANGED screen

\* permissionDialogCmp.Update
DialogKey(k) ==
    CASE k.key = "tab" ->
            /\ selectedOption' = (selectedOption + 1) % 3
            /\ UNCHANGED <<dialog, showPermissions, inFront, over, responses>>
      [] k.key = "enter" -> Respond(k, Options[selectedOption + 1])
      [] k.key \in {"a", "d"} -> Respond(k, IF k.key = "a" THEN "allow" ELSE "deny")
      [] OTHER -> UNCHANGED <<screen, responses>>

\* appModel.Update with a tea.KeyMsg, in the order it looks at the dialogs.
\* "front" is ctrl+f or ctrl+c, which opens its dialog, or closes one of two; ctrl+c
\* closes the help and lists as well.
FrontKey ==
    /\ inFront' \in {TRUE, ~inFront}
    /\ over' \in {over, over \ {"help"}, over \ {"help", "list"}}

\* One of ctrl+s, ctrl+k, ctrl+t and ctrl+o, which closes its own list again.  None
\* opens its list while permission is asked for.
ListKey ==
    /\ \/ over' = IF showPermissions THEN over ELSE over \cup {"list"}
       \/ over' = over \ {"list"}
    /\ UNCHANGED inFront

\* ctrl+h and ? open the help, over the permission dialog too, or close it; quit and
\* the arguments keep it from coming, and ? is a key like others while the agent rests.
\* esc closes the first of quit, help, question and file picker.
HelpOrEscKey ==
    \/ over' \in {over, over \cup {"help"}, over \ {"help"}, over \ {"question"}}
       /\ UNCHANGED inFront
    \/ inFront' = FALSE /\ UNCHANGED over

\* The dialog in front, the list or the question is done; a command of the list may ask
\* for its arguments.
EnterElsewhere ==
    IF inFront THEN inFront' \in BOOLEAN /\ UNCHANGED over
    ELSE /\ over' \in {over \ {"list"}, over \ {"question"}}
         /\ inFront' \in {FALSE, "list" \in over}

HandleKey ==
    /\ LoopIsFree
    /\ typed # <<>>
    /\ typed' = Tail(typed)
    /\ LET k == Head(typed) IN
       \/ /\ \/ k.key = "front" /\ FrontKey
             \/ k.key = "list" /\ ListKey
             \/ k.key = "help" /\ HelpOrEscKey
             \/ k.key = "enter" /\ (inFront \/ ~showPermissions) /\ EnterElsewhere
          /\ UNCHANGED <<dialog, selectedOption, showPermissions, responses>>
       \/ /\ k.key \in {"tab", "enter", "a", "d"}
          /\ IF ~inFront /\ showPermissions THEN DialogKey(k)
             ELSE k.key # "enter" /\ UNCHANGED <<screen, responses>>
    /\ UNCHANGED <<sending, tool, pipe, pressed, exit>>

\* startCompactSessionMsg, and the agent's events: a summary begins or ends.
Compacting ==
    /\ LoopIsFree
    /\ over' \in {over \cup {"summary"}, over \ {"summary"}}
    /\ UNCHANGED <<dialog, selectedOption, showPermissions, inFront, loop, tool, pipe, pressed, exit>>

\* The dialog closes, whatever request it shows by now.
Closes ==
    /\ showPermissions' = FALSE
    /\ UNCHANGED <<dialog, selectedOption, inFront, over>>

Pending(r) == termAsked[r] \in {"publish", "wait", "leave"}

\* A plausible bug: the request answered is the one the dialog shows now.
HandleResponseShown(i) ==
    /\ LoopIsFree
    /\ responses' = RemoveAt(responses, i)
    /\ LET m == [responses[i] EXCEPT !.to = dialog] IN
       IF Pending(m.to) THEN sending' = m /\ UNCHANGED screen
       ELSE Closes /\ UNCHANGED sending
    /\ UNCHANGED <<typed, tool, pipe, pressed, exit>>

\* dialog.PermissionResponseMsg: Grant, GrantPersistant or Deny of the request the
\* message carries, once Load has found it.
HandleResponse(i) ==
    /\ LoopIsFree
    /\ responses' = RemoveAt(responses, i)
    /\ LET m == responses[i] IN
       IF Pending(m.to) THEN sending' = m /\ UNCHANGED screen
       ELSE Closes /\ UNCHANGED sending
    /\ UNCHANGED <<typed, tool, pipe, pressed, exit>>

\* The send returns at once if the channel of one is empty, and otherwise never
\* when the tool has given up.
SendAnswer ==
    /\ sending # Empty
    /\ respCh[sending.to] = Empty
    /\ respCh' = [respCh EXCEPT ![sending.to] = sending]
    /\ Closes
    /\ sending' = Empty
    /\ UNCHANGED <<typed, responses, termAsked, verdict, pipe, pressed, exit>>

-----------------------------------------------------------------------------
(* The end: program.Run returns, App.Shutdown shuts the permission service   *)
(* and its broker, cancelSubs cancels the pumps and closes the channel.      *)

Leave ==
    /\ LoopIsFree
    /\ exit' = "left"
    /\ UNCHANGED <<tool, pipe, screen, loop, pressed>>

Shutdown ==
    /\ exit = "left"
    /\ exit' = "released"
    /\ subscribed' = FALSE
    /\ UNCHANGED <<tool, queue, pump, ch, chOpen, hand, screen, loop, pressed>>

CancelSubscriptions ==
    /\ exit = "released"
    /\ exit' = "cancelled"
    /\ UNCHANGED <<tool, pipe, screen, loop, pressed>>

\* wg.Wait has returned; the five seconds it is given are enough.
CloseChannel ==
    /\ exit = "cancelled"
    /\ pump = "ended" /\ chOpen
    /\ chOpen' = FALSE
    /\ UNCHANGED <<tool, queue, subscribed, pump, ch, hand, screen, loop, pressed, exit>>

-----------------------------------------------------------------------------
ToolStep(r) ==
    Ask(r) \/ Publish(r) \/ PublishPanics(r) \/ ReceiveAnswer(r) \/ GiveUp(r) \/ Return(r)

Step ==
    \/ /\ Pipe \/ \E r \in TermRequests : ToolStep(r)
       /\ UNCHANGED <<screen, loop, pressed, exit>>
    \/ \E k \in TermKeys : Press(k)
    \/ ShowRequest /\ UNCHANGED pressed
    \/ HandleKey \/ Compacting
    \/ \E i \in DOMAIN responses : HandleResponse(i)
    \/ SendAnswer
    \/ Leave \/ Shutdown \/ CancelSubscriptions \/ CloseChannel

TermNext ==
    /\ Step
    /\ surprised' = surprised \cup {r \in TermRequests :
           TakesKeys(r)' /\ typed' # <<>> /\ ~TakesKeys(r)}
    /\ beneath' = beneath \cup {r \in TermRequests :
           /\ showPermissions' /\ dialog' = r /\ "list" \in over'
           /\ ~(showPermissions /\ dialog = r)}

TermSpec == TermInit /\ [][TermNext]_termVars

-----------------------------------------------------------------------------
(* A request is allowed or denied from the window only by a key that was     *)
(* pressed while its own dialog had the keys, and was to be seen.  The       *)
(* exceptions: the dialog appears under a person's fingers, a key being under *)
(* way; and windows that tui.go draws over it without giving them the keys.  *)
(* Help, "Summarizing" and the question about initialization may cover it at *)
(* any time (tui.go:743, :767, :857); a list only if it was open already when *)
(* the request came, for none opens while permission is asked for.           *)
Covered(v) == v.over \cap {"help", "summary", "question"} # {}
VerdictWasMeant ==
    \A r \in TermRequests : verdict[r] # Empty =>
       \/ verdict[r].on = r /\ (verdict[r].over = {} \/ Covered(verdict[r]) \/ r \in beneath)
       \/ r \in surprised
=============================================================================
