------------------------------ MODULE Composer ------------------------------
(***************************************************************************)
(* From the composer of the terminal window to the agent: editor.go, the    *)
(* chat page (page/chat.go) and the application's own idea of the session   *)
(* (tui.go).  Four places remember a session, and follow one another by      *)
(* messages.  A message is what a command returns: each command runs in a    *)
(* goroutine of its own, so messages arrive in any order, with keys, turns   *)
(* that end and other messages in between.                                  *)
(*                                                                         *)
(* Sessions and prompts are numbered as they come into being, 0 is none.     *)
(***************************************************************************)
EXTENDS Naturals, Sequences, SequencesExt

CONSTANTS
    MaxAttachments, \* 5 in the code
    MaxPrompts,     \* bound: texts typed, by hand or by a command
    MaxSessions,    \* bound: sessions, with the one there is
    MaxAdded,       \* bound: files attached
    MaxSwitches,    \* bound: times the person turns to another session, page or model
    MaxExtras       \* bound: the two together

ASSUME PromptAssumption == MaxPrompts \in Nat

VARIABLES
    textarea,       \* the prompt in it, or 0
    attachments, deleteMode,
    editorSession,  \* editorCmp.session
    pageSession,    \* chatPage.session
    listSession,    \* messagesCmp.session: what is on the screen
    promptPage,
    promptFlight,   \* messages under way
    external,       \* the external editor: "no", "asked" or "open"
    accepts,        \* does the model take attachments
    sessions,       \* rows there are
    activeRequests, \* sessions in activeRequests
    prompts, added, switches,
    went,           \* history: prompt -> [session, attachments] it was accepted with, or why not
    promptShown,    \* history: prompt -> the session on the screen when it was sent
    gone,           \* history: attachments removed by a key, or for a reason
    excused,        \* history: [strayed, crowded] prompts
    promptCrossed,  \* history: a selection and a clearing met, or went to the wrong page
    cleared         \* history: ctrl+n since the last selection

input == <<textarea, attachments, deleteMode, external>>
places == <<editorSession, pageSession, listSession, promptPage>>
world == <<accepts, sessions, activeRequests>>
history == <<went, promptShown, gone, excused, promptCrossed, cleared>>
counts == <<prompts, added, switches>>
promptVars == <<input, places, promptFlight, world, counts, history>>

Prompts == 1..MaxPrompts
\* A SendMsg, or the CommandRunCustomMsg of a custom command, which the page looks at twice.
Send(p, files, custom) ==
    [type |-> "SendMsg", prompt |-> p, files |-> files, custom |-> custom]
Selected(s) == [type |-> "SessionSelectedMsg", session |-> s]
Cleared == [type |-> "SessionClearedMsg"]
Sends == {m \in promptFlight : m.type = "SendMsg"}
SentPrompts == {m.prompt : m \in Sends}
Settled == promptFlight = Sends   \* no message about sessions is under way

Announce(m, rest) ==
    /\ promptFlight' = rest \cup {m}
    /\ promptCrossed' = (promptCrossed \/ ~Settled)

PromptInit ==
    /\ textarea = 0 /\ attachments = <<>> /\ deleteMode = FALSE /\ external = "no"
    /\ editorSession = 0 /\ pageSession = 0 /\ listSession = 0 /\ promptPage = "chat"
    /\ promptFlight = {}
    /\ accepts = TRUE /\ sessions = 1 /\ activeRequests = {}
    /\ prompts = 0 /\ added = 0 /\ switches = 0
    /\ went = [p \in Prompts |-> [how |-> "none"]]
    /\ promptShown = [p \in Prompts |-> 0]
    /\ gone = {} /\ excused = [strayed |-> {}, crowded |-> {}]
    /\ promptCrossed = FALSE /\ cleared = FALSE

-----------------------------------------------------------------------------
(* Sending.                                                                  *)

\* A plausible bug: the attachments are reset before they are taken.
LeavesBare(p, files, checked, custom) ==
    /\ promptFlight' = promptFlight \cup {Send(p, <<>>, custom)}
    /\ promptShown' = [promptShown EXCEPT ![p] = listSession]
    /\ UNCHANGED excused

\* What is known of a prompt as it leaves the composer: another one under way, or a
\* session that is not the page's, may turn out to have made the session busy, and so
\* may a turn that nobody has looked for.
Leaves(p, files, checked, custom) ==
    /\ promptFlight' = promptFlight \cup {Send(p, files, custom)}
    /\ promptShown' = [promptShown EXCEPT ![p] = listSession]
    /\ excused' = [strayed |-> excused.strayed \cup
                       (IF Settled /\ ~promptCrossed /\ promptPage = "chat" THEN {} ELSE {p}),
                   crowded |-> excused.crowded \cup
                       (IF /\ Sends = {} /\ editorSession = pageSession
                           /\ checked \/ pageSession \notin activeRequests
                        THEN {} ELSE {p})]

\* A plausible bug: the composer does not ask whether its session is at work.
EnterUnasked ==
    /\ promptPage = "chat" /\ external # "open"
    /\ textarea # 0
    /\ Leaves(textarea, attachments, TRUE, FALSE)
    /\ textarea' = 0 /\ attachments' = <<>>
    /\ UNCHANGED <<deleteMode, external, places, world, counts, went, gone,
                   promptCrossed, cleared>>

\* editorCmp.send
Enter ==
    /\ promptPage = "chat" /\ external # "open"
    /\ IF editorSession \in activeRequests
       THEN UNCHANGED <<textarea, attachments, promptFlight, promptShown, gone, excused>>
       ELSE /\ textarea' = 0 /\ attachments' = <<>>
            /\ IF textarea = 0
               THEN /\ gone' = gone \cup ToSet(attachments)
                    /\ UNCHANGED <<promptFlight, promptShown, excused>>
               ELSE Leaves(textarea, attachments, TRUE, FALSE) /\ UNCHANGED gone
    /\ UNCHANGED <<deleteMode, external, places, world, counts, went, promptCrossed, cleared>>

\* The external editor: asked for by a key, opened by the message that follows.  While
\* it is open the loop stands still.
AskEditor ==
    /\ promptPage = "chat" /\ external = "no" /\ editorSession \notin activeRequests
    /\ external' = "asked"
    /\ UNCHANGED <<textarea, attachments, deleteMode, places, promptFlight, world,
                   counts, history>>

OpenEditor ==
    /\ external = "asked"
    /\ external' = "open"
    /\ UNCHANGED <<textarea, attachments, deleteMode, places, promptFlight, world,
                   counts, history>>

\* openEditor's callback: an editor that failed, or a file left empty, sends nothing.
EditorCloses ==
    /\ external = "open"
    /\ external' = "no"
    /\ \/ /\ prompts < MaxPrompts
          /\ prompts' = prompts + 1
          /\ attachments' = <<>>
          /\ Leaves(prompts + 1, attachments, FALSE, FALSE)
       \/ UNCHANGED <<attachments, prompts, promptFlight, promptShown, excused>>
    /\ UNCHANGED <<textarea, deleteMode, places, world, added, switches, went, gone,
                   promptCrossed, cleared>>

\* A plausible bug: the turn is started in the composer's session.
AcceptEditors(p, files, s) ==
    /\ activeRequests' = activeRequests \cup {editorSession}
    /\ went' = [went EXCEPT ![p] = [how |-> "sent", session |-> editorSession,
                   fresh |-> editorSession > sessions, files |-> IF accepts THEN files ELSE <<>>]]
    /\ gone' = gone \cup (IF accepts THEN {} ELSE ToSet(files))
    /\ excused' = [excused EXCEPT !.crowded = @ \cup (SentPrompts \ {p})]

\* chatPage.sendMessage and agent.Run.  The page's session is made first, if need be.
Accept(p, files, s) ==
    /\ activeRequests' = activeRequests \cup {s}
    /\ went' = [went EXCEPT ![p] = [how |-> "sent", session |-> s,
                   fresh |-> s > sessions, files |-> IF accepts THEN files ELSE <<>>]]
    /\ gone' = gone \cup (IF accepts THEN {} ELSE ToSet(files))
    /\ excused' = [excused EXCEPT !.crowded = @ \cup (SentPrompts \ {p})]

Fails(p, how, files) ==
    /\ went' = [went EXCEPT ![p] = [how |-> how, files |-> files]]
    /\ UNCHANGED <<activeRequests, excused, gone>>

SendMessage(p, files, rest) ==
    \/ /\ pageSession # 0
       /\ IF pageSession \in activeRequests THEN Fails(p, "busy", files)
          ELSE Accept(p, files, pageSession)
       /\ promptFlight' = rest
       /\ UNCHANGED <<sessions, pageSession, promptCrossed>>
    \/ /\ pageSession = 0 /\ sessions < MaxSessions
       /\ sessions' = sessions + 1 /\ pageSession' = sessions + 1
       /\ Accept(p, files, sessions + 1)
       /\ Announce(Selected(sessions + 1), rest)
    \/ /\ pageSession = 0
       /\ Fails(p, "store", files) /\ promptFlight' = rest
       /\ UNCHANGED <<sessions, pageSession, promptCrossed>>

\* A message goes to the page that is shown; the other one never hears of it.  A custom
\* command is refused, with a warning, while any session is busy.
HandleSend(m) ==
    /\ m \in Sends /\ external # "open"
    /\ LET rest == promptFlight \ {m}
           refused == IF promptPage # "chat" THEN "wrong page"
                      ELSE IF m.custom /\ activeRequests # {} THEN "command refused" ELSE "no"
       IN IF refused = "no" THEN SendMessage(m.prompt, m.files, rest)
          ELSE /\ promptFlight' = rest /\ Fails(m.prompt, refused, m.files)
               /\ UNCHANGED <<sessions, pageSession, promptCrossed>>
    /\ UNCHANGED <<input, editorSession, listSession, promptPage, accepts, counts,
                   promptShown, cleared>>

\* A command from the list, the initial one or a custom one, sends a message, whatever is
\* under way.
Command ==
    /\ prompts < MaxPrompts /\ promptPage = "chat" /\ external # "open"
    /\ prompts' = prompts + 1
    /\ \E custom \in BOOLEAN : Leaves(prompts + 1, <<>>, FALSE, custom)
    /\ UNCHANGED <<input, places, world, added, switches, went, gone, promptCrossed, cleared>>

-----------------------------------------------------------------------------
(* What is written and attached.                                             *)

Type ==
    /\ textarea = 0 /\ prompts < MaxPrompts /\ promptPage = "chat" /\ external # "open"
    /\ textarea' = prompts + 1 /\ prompts' = prompts + 1
    /\ UNCHANGED <<attachments, deleteMode, external, places, promptFlight, world,
                   added, switches, history>>

\* dialog.AttachmentAddedMsg, from a file picker that asks the model first, and opens
\* over either page
Attach ==
    /\ added < MaxAdded /\ added + switches < MaxExtras /\ accepts /\ external # "open"
    /\ added' = added + 1
    /\ IF Len(attachments) >= MaxAttachments \/ promptPage # "chat"
       THEN gone' = gone \cup {added + 1} /\ UNCHANGED attachments
       ELSE attachments' = Append(attachments, added + 1) /\ UNCHANGED gone
    /\ UNCHANGED <<textarea, deleteMode, external, places, promptFlight, world, prompts, switches,
                   went, promptShown, excused, promptCrossed, cleared>>

DeleteKey ==
    /\ promptPage = "chat" /\ external # "open"
    /\ deleteMode' = TRUE
    /\ UNCHANGED <<textarea, attachments, external, places, promptFlight, world, counts,
                   history>>

\* In delete mode: "r", or the number of an attachment; a number there is none for is
\* typed, and leaves the mode too.
Delete ==
    /\ deleteMode /\ promptPage = "chat" /\ external # "open"
    /\ deleteMode' = FALSE
    /\ \/ attachments' = <<>>
       \/ \E i \in DOMAIN attachments : attachments' = RemoveAt(attachments, i)
       \/ UNCHANGED attachments
    /\ gone' = gone \cup (ToSet(attachments) \ ToSet(attachments'))
    /\ UNCHANGED <<textarea, external, places, promptFlight, world, counts, went, promptShown, excused,
                   promptCrossed, cleared>>

-----------------------------------------------------------------------------
(* Sessions and pages.                                                       *)

\* With a session the page takes the key, and the editor does not see it.
EscKey ==
    /\ promptPage = "chat" /\ external # "open"
    /\ IF pageSession # 0
       THEN activeRequests' = activeRequests \ {pageSession} /\ UNCHANGED deleteMode
       ELSE deleteMode' = FALSE /\ UNCHANGED activeRequests
    /\ UNCHANGED <<textarea, attachments, external, places, promptFlight, accepts,
                   sessions, counts, history>>

Turns ==
    /\ switches < MaxSwitches /\ added + switches < MaxExtras
    /\ switches' = switches + 1
Stray == excused' = [excused EXCEPT !.strayed = @ \cup SentPrompts]

NewSession ==
    /\ promptPage = "chat" /\ external # "open" /\ Turns
    /\ pageSession' = 0
    /\ Announce(Cleared, promptFlight)
    /\ Stray
    /\ cleared' = TRUE
    /\ UNCHANGED <<input, editorSession, listSession, promptPage, world, prompts, added,
                   went, promptShown, gone>>

\* The session dialog's answer, as tui.go passes it on.
PickSession(s) ==
    /\ promptPage = "chat" /\ external # "open" /\ Turns
    /\ Announce(Selected(s), promptFlight)
    /\ Stray
    /\ UNCHANGED <<input, places, world, prompts, added, went, promptShown, gone, cleared>>

\* A plausible bug: the composer takes a session only if it has none.
HandleSelectedOnce(m) ==
    /\ m.type = "SessionSelectedMsg" /\ external # "open" /\ promptPage = "chat"
    /\ promptFlight' = promptFlight \ {m}
    /\ pageSession' = m.session /\ listSession' = m.session
    /\ editorSession' = IF editorSession = 0 THEN m.session ELSE editorSession
    /\ cleared' = FALSE /\ promptCrossed' = (promptCrossed /\ promptFlight' # Sends)
    /\ Stray
    /\ UNCHANGED <<input, promptPage, world, counts, went, promptShown, gone>>

HandleSessionSelected(m) ==
    /\ m.type = "SessionSelectedMsg" /\ external # "open"
    /\ promptFlight' = promptFlight \ {m}
    /\ IF promptPage = "chat"
       THEN /\ pageSession' = m.session /\ editorSession' = m.session /\ listSession' = m.session
            /\ cleared' = FALSE
            /\ promptCrossed' = (promptCrossed /\ promptFlight' # Sends)
       ELSE promptCrossed' = TRUE /\ UNCHANGED <<pageSession, editorSession,
                                                 listSession, cleared>>
    /\ Stray
    /\ UNCHANGED <<input, promptPage, world, counts, went, promptShown, gone>>

\* The editor does not listen to this one.
HandleCleared ==
    /\ Cleared \in promptFlight /\ external # "open"
    /\ promptFlight' = promptFlight \ {Cleared}
    /\ listSession' = IF promptPage = "chat" THEN 0 ELSE listSession
    /\ promptCrossed' = (promptCrossed \/ promptPage # "chat")
    /\ UNCHANGED <<input, editorSession, pageSession, promptPage, world, counts, went, promptShown,
                   gone, excused, cleared>>

\* moveToPage
TurnPage ==
    /\ activeRequests = {} /\ external # "open" /\ Turns
    /\ promptPage' = IF promptPage = "chat" THEN "logs" ELSE "chat"
    /\ Stray
    /\ UNCHANGED <<input, editorSession, pageSession, listSession, promptFlight, world, prompts, added,
                   went, promptShown, gone, promptCrossed, cleared>>

\* agent.Update
ChangeModel ==
    /\ activeRequests = {} /\ external # "open" /\ Turns
    /\ accepts' = ~accepts
    /\ UNCHANGED <<input, places, promptFlight, sessions, activeRequests, prompts,
                   added, history>>

PromptTurnEnds ==
    /\ \E s \in activeRequests : activeRequests' = activeRequests \ {s}
    /\ UNCHANGED <<input, places, promptFlight, accepts, sessions, counts, history>>

PromptNext ==
    \/ Type \/ Enter \/ AskEditor \/ OpenEditor \/ EditorCloses \/ Command
    \/ Attach \/ DeleteKey \/ Delete \/ EscKey \/ NewSession
    \/ \E s \in 1..sessions : PickSession(s)
    \/ \E m \in promptFlight : HandleSend(m) \/ HandleSessionSelected(m)
    \/ HandleCleared \/ TurnPage \/ ChangeModel \/ PromptTurnEnds

PromptSpec == PromptInit /\ [][PromptNext]_promptVars

-----------------------------------------------------------------------------
(* With no message about sessions under way, a prompt would go to the session on
   the screen, and the composer watches that session for a turn.  Excepted are a
   selection that met a clearing, a message that found the log page, and the
   composer after ctrl+n, which goes on watching the session before. *)
SessionsAgree ==
    Settled /\ ~promptCrossed =>
        /\ pageSession = listSession
        /\ editorSession = pageSession \/ cleared

\* A session that was made for a prompt.
MadeForOne(s) == \E p \in Prompts : went[p].how = "sent" /\ went[p].fresh /\ went[p].session = s

(* A prompt goes to the session that was on the screen when it was sent, unless the
   person turned elsewhere meanwhile; with none on the screen it goes to a new one, or
   to one that another prompt has made, but to none that was there without them. *)
GoesWhereShown ==
    \A p \in Prompts \ excused.strayed :
        went[p].how = "sent" =>
            IF promptShown[p] # 0 THEN went[p].session = promptShown[p]
            ELSE MadeForOne(went[p].session) /\ (went[p].fresh \/ p \in excused.crowded)

(* A prompt that left the composer is taken by the agent, unless another one was
   on its way to the same session or the session was being turned away from.  Excepted are
   a new session that the store would not make, and a custom command, which is refused with
   a warning while any session is busy. *)
NoPromptLost ==
    \A p \in Prompts :
        went[p].how \in {"busy", "wrong page"} => p \in excused.crowded \cup excused.strayed

(* An attachment is in the composer, under way, gone with a prompt (sent or lost), or
   taken away for a reason: a key in delete mode, the limit, the log page, a model that
   takes none, and Enter on an empty text, which drops them all. *)
AttachmentsKept ==
    \A f \in 1..added :
        \/ f \in gone
        \/ f \in ToSet(attachments)
        \/ \E m \in Sends : f \in ToSet(m.files)
        \/ \E p \in Prompts : went[p].how # "none" /\ f \in ToSet(went[p].files)

(* Prompts and attachments arrive, and where the screen says. *)
PromptsArrive == SessionsAgree /\ GoesWhereShown /\ NoPromptLost /\ AttachmentsKept
=============================================================================
