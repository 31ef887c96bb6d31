------------------------------ MODULE MCWindow ------------------------------
(***************************************************************************)
(* The parts of the terminal window.  They share no state here, and each is *)
(* followed alone: the first state says which, and the others stay as they  *)
(* begin, at one of their first states.                                     *)
(***************************************************************************)
EXTENDS Integers, Sequences, FiniteSets, TLC, Terminal, Composer, Windows, Sidebar

CONSTANTS
    ChatChats, Script, Nobody, ChatBuffer, MaxSelects, MaxSizes,
    ca, cb, call, nested, u1, u2, a1, t1, d1, d2

VARIABLES
    part,
    stored, written, unpublished, chatEvents, chatSession, messages,
    currentMsgID, cachedContent, width, uiMessages, renders, chatSelects, sizes, stale

Chat == INSTANCE Transcript WITH
    Chats <- ChatChats, Buffer <- ChatBuffer, events <- chatEvents, session <- chatSession,
    selects <- chatSelects

chat == <<stored, written, unpublished, chatEvents, chatSession, messages, currentMsgID,
          cachedContent, width, uiMessages, renders, chatSelects, sizes, stale>>
vars == <<part, termVars, chat, promptVars, winVars, sideVars>>

Init ==
    /\ part \in {"term", "chat", "prompt", "windows", "sidebar"}
    /\ TermInit /\ (part = "term" \/ over = {})
    /\ Chat!Init
    /\ PromptInit
    /\ WinInit /\ (part = "windows" \/ initialized)
    /\ SideInit /\ (part = "sidebar" \/ session = CHOOSE s \in SideSessions : TRUE)

Next ==
    /\ UNCHANGED part
    /\ \/ part = "term" /\ TermNext
          /\ UNCHANGED <<chat, promptVars, winVars, sideVars>>
       \/ part = "chat" /\ Chat!Next
          /\ UNCHANGED <<termVars, promptVars, winVars, sideVars>>
       \/ part = "prompt" /\ PromptNext
          /\ UNCHANGED <<termVars, chat, winVars, sideVars>>
       \/ part = "windows" /\ WinNext
          /\ UNCHANGED <<termVars, chat, promptVars, sideVars>>
       \/ part = "sidebar" /\ SideNext
          /\ UNCHANGED <<termVars, chat, promptVars, winVars>>

Spec == Init /\ [][Next]_vars

-----------------------------------------------------------------------------
\* One request is as good as another.
Symmetric == Permutations(TermRequests)

(* Instances.                                                                *)

(* Of the transcript: in one chat a question, an answer with a call, whose     *)
(* child makes a call of its own, and the results; in the other a question.    *)
Message(id, chat_, role, version, calls_, results) ==
    [id |-> id, chat |-> chat_, role |-> role, version |-> version,
     calls |-> calls_, results |-> results]
New(m) == [type |-> "created", msg |-> m]
Now(m) == [type |-> "updated", msg |-> m]
MCScript ==
    (ca :> <<New(Message(u1, ca, "user", 0, {}, {})),
             New(Message(a1, ca, "assistant", 0, {}, {})),
             Now(Message(a1, ca, "assistant", 1, {call}, {})),
             New(Message(d1, call, "assistant", 0, {}, {})),
             Now(Message(d1, call, "assistant", 1, {nested}, {})),
             New(Message(d2, call, "tool", 0, {}, {nested})),
             New(Message(t1, ca, "tool", 0, {}, {call}))>>)
    @@ (cb :> <<New(Message(u2, cb, "user", 0, {}, {}))>>)

-----------------------------------------------------------------------------
(* Properties: those of the parts, where each is stated and explained.        *)

(* VerdictWasMeant, PromptsArrive, WindowsTellTheTruth and SidebarShowsChanges are the
   parts' own. *)
(* The window shows the conversation as it is stored. *)
WindowIsCurrent == Chat!WindowIsCurrent
=============================================================================
