------------------------------ MODULE Sessions ------------------------------
(***************************************************************************)
(* One conversation's row in the sessions table and all who write it.      *)
(* internal/session saves a row whole, so each writer reads it, changes a  *)
(* field and puts everything back: TrackUsage at the end of every round,   *)
(* the task tool when its child is done (agent-tool.go), generateTitle     *)
(* beside the first turn and Summarize beside any (agent.go).  Between a   *)
(* reading and its saving may lie a whole request to a model.              *)
(***************************************************************************)
EXTENDS Naturals, Sequences

CONSTANTS
    MaxTurns,    \* bound: turns of the conversation
    MaxRounds,   \* bound: rounds, all turns together
    MaxTasks,    \* bound: tasks given to the task tool
    MaxSummaries \* bound: summaries asked for

Writers == {"turn", "title", "summary"}
NoRow == [cost |-> 0, title |-> "", summary |-> 0]

VARIABLES
    row,         \* the session: cost, title, position of the summary message
    messages,    \* the messages of the session, in order: what each is
    child,       \* the cost of the task's own session
    turn,        \* the turn's goroutine
    title,       \* generateTitle's
    summary,     \* Summarize's
    held,        \* writer -> the row it has read and not yet saved
    listed,      \* how many messages the summary is of
    history,     \* the positions the turn sent to its model
    turns, rounds, tasks, summaries,
    charged,     \* history: what has been charged to the conversation
    covered,     \* history: messages the session's summary speaks of
    tangled      \* history: two writers were at it at once

writing == <<turn, title, summary, held>>
counted == <<turns, rounds, tasks, summaries>>
sessionVars == <<row, messages, child, writing, listed, history, counted, charged, covered, tangled>>

SessionInit ==
    /\ row = [NoRow EXCEPT !.title = "New Session"]
    /\ messages = <<>> /\ child = 0
    /\ turn = "idle" /\ title = "none" /\ summary = "idle"
    /\ held = [w \in Writers |-> NoRow]
    /\ listed = 0 /\ history = {}
    /\ turns = 0 /\ rounds = 0 /\ tasks = 0 /\ summaries = 0
    /\ charged = 0 /\ covered = {} /\ tangled = FALSE

-----------------------------------------------------------------------------
(* internal/session. *)

\* Another writer holds a row it has read.
Busy(w) == \E o \in Writers \ {w} : held[o] # NoRow

Get(w) ==
    /\ held' = [held EXCEPT ![w] = row]
    /\ tangled' = (tangled \/ Busy(w))

\* UpdateSession sets every column but the identity.
Save(w, changed) ==
    /\ row' = changed
    /\ held' = [held EXCEPT ![w] = NoRow]

\* The writer gives up; what it has read is forgotten.
Forget(w) ==
    /\ held' = [held EXCEPT ![w] = NoRow]
    /\ UNCHANGED row

-----------------------------------------------------------------------------
(* The turn: processGeneration, round after round. *)

\* A plausible bug: the summary is left out with what it stands for.
SinceAfter == {i \in DOMAIN messages : i > row.summary}

\* From the summary on, if it is among the messages.
SinceSummary == {i \in DOMAIN messages : i >= row.summary}

\* List and Get; without messages a title is asked for, on a goroutine of its own.
Begin ==
    /\ turn = "idle" /\ turns < MaxTurns
    /\ turn' = "round" /\ turns' = turns + 1
    /\ history' = SinceSummary \cup {Len(messages) + 1}
    /\ messages' = Append(messages, "user")
    /\ title' = IF messages = <<>> THEN "start" ELSE title
    /\ tangled' = (tangled \/ summary # "idle")
    /\ UNCHANGED <<row, child, summary, held, listed, rounds, tasks, summaries, charged, covered>>

\* The model answers: its message is saved, and its usage has to be.
Answered ==
    /\ turn = "round" /\ rounds < MaxRounds
    /\ turn' = "usage" /\ rounds' = rounds + 1
    /\ messages' = Append(messages, "assistant")
    /\ history' = history \cup {Len(messages')}
    /\ UNCHANGED <<row, child, title, summary, held, listed, turns, tasks, summaries,
                   charged, covered, tangled>>

UsageGet ==
    /\ turn = "usage" /\ turn' = "saving" /\ Get("turn")
    /\ UNCHANGED <<row, messages, child, title, summary, listed, history, counted,
                   charged, covered>>

\* TrackUsage: then the tools, or the end of the turn.
UsageSave ==
    /\ turn = "saving"
    /\ Save("turn", [held["turn"] EXCEPT !.cost = @ + 1])
    /\ charged' = charged + 1
    /\ \/ turn' = "tools" /\ UNCHANGED history
       \/ turn' = "idle" /\ history' = {}
    /\ UNCHANGED <<messages, child, title, summary, listed, counted, covered, tangled>>

\* Tools that touch no session, and their message.
OtherTools ==
    /\ turn = "tools" /\ turn' = "round"
    /\ messages' = Append(messages, "tool")
    /\ history' = history \cup {Len(messages')}
    /\ UNCHANGED <<row, child, title, summary, held, listed, counted, charged, covered, tangled>>

\* The turn ends on an error or a cancellation, whatever it was about to save.
TurnEnds ==
    /\ turn # "idle" /\ turn' = "idle"
    /\ Forget("turn")
    /\ child' = 0 /\ history' = {}
    /\ UNCHANGED <<messages, title, summary, listed, counted, charged, covered, tangled>>

-----------------------------------------------------------------------------
(* The task tool: a session of its own, whose cost its parent is to bear. *)

StartTask ==
    /\ turn = "tools" /\ tasks < MaxTasks
    /\ turn' = "task" /\ tasks' = tasks + 1 /\ child' = 0
    /\ UNCHANGED <<row, messages, title, summary, held, listed, history, turns, rounds, summaries,
                   charged, covered, tangled>>

\* The child's agent tracks its usage in the child's row, which nobody else writes.
ChildRound ==
    /\ turn = "task" /\ child < 2
    /\ child' = child + 1
    /\ UNCHANGED <<row, messages, writing, listed, history, counted, charged, covered, tangled>>

\* The child was refused a tool or failed: its cost stays where it is.
TaskFails ==
    /\ turn = "task" /\ turn' = "tools" /\ child' = 0
    /\ UNCHANGED <<row, messages, title, summary, held, listed, history, counted,
                   charged, covered, tangled>>

TaskGet ==
    /\ turn = "task" /\ child > 0 /\ turn' = "parent" /\ Get("turn")
    /\ UNCHANGED <<row, messages, child, title, summary, listed, history, counted,
                   charged, covered>>

TaskSave ==
    /\ turn = "parent" /\ turn' = "tools"
    /\ Save("turn", [held["turn"] EXCEPT !.cost = @ + child])
    /\ charged' = charged + child /\ child' = 0
    /\ UNCHANGED <<messages, title, summary, listed, history, counted, covered, tangled>>

-----------------------------------------------------------------------------
(* generateTitle: the request lies between Get and Save. *)

TitleGet ==
    /\ title = "start" /\ title' = "asking" /\ Get("title")
    /\ UNCHANGED <<row, messages, child, turn, summary, listed, history, counted,
                   charged, covered>>

TitleSave ==
    /\ title = "asking" /\ title' = "done"
    /\ Save("title", [held["title"] EXCEPT !.title = "generated"])
    /\ UNCHANGED <<messages, child, turn, summary, listed, history, counted,
                   charged, covered, tangled>>

\* The request fails, or its answer is empty.
TitleFails ==
    /\ title = "asking" /\ title' = "failed" /\ Forget("title")
    /\ UNCHANGED <<messages, child, turn, summary, listed, history, counted,
                   charged, covered, tangled>>

-----------------------------------------------------------------------------
(* Summarize: refused while a turn runs; a turn may start while it works. *)

SummaryList ==
    /\ summary = "idle" /\ turn = "idle" /\ summaries < MaxSummaries
    /\ summaries' = summaries + 1
    /\ IF messages = <<>>
       THEN UNCHANGED <<summary, listed>>
       ELSE summary' = "asking" /\ listed' = Len(messages)
    /\ UNCHANGED <<row, messages, child, turn, title, held, history, turns, rounds, tasks,
                   charged, covered, tangled>>

SummaryGet ==
    /\ summary = "asking" /\ summary' = "writing" /\ Get("summary")
    /\ UNCHANGED <<row, messages, child, turn, title, listed, history, counted,
                   charged, covered>>

\* The summary is a message like any other, after what came in meanwhile.
SummaryMessage ==
    /\ summary = "writing" /\ summary' = "saving"
    /\ messages' = Append(messages, "summary")
    /\ UNCHANGED <<row, child, turn, title, held, listed, history, counted,
                   charged, covered, tangled>>

SummaryPosition == CHOOSE i \in DOMAIN messages :
    messages[i] = "summary" /\ \A j \in DOMAIN messages : messages[j] = "summary" => j <= i

SummarySave ==
    /\ summary = "saving" /\ summary' = "idle"
    /\ Save("summary", [held["summary"] EXCEPT !.cost = @ + 1, !.summary = SummaryPosition])
    /\ charged' = charged + 1
    /\ covered' = 1..listed
    /\ UNCHANGED <<messages, child, turn, title, listed, history, counted, tangled>>

\* Cancelled, or a request, a message or the saving fails: a message may stay.
SummaryFails ==
    /\ summary # "idle" /\ summary' = "idle" /\ Forget("summary")
    /\ UNCHANGED <<messages, child, turn, title, listed, history, counted,
                   charged, covered, tangled>>

-----------------------------------------------------------------------------
SessionNext ==
    \/ Begin \/ Answered \/ UsageGet \/ UsageSave \/ OtherTools \/ TurnEnds
    \/ StartTask \/ ChildRound \/ TaskFails \/ TaskGet \/ TaskSave
    \/ TitleGet \/ TitleSave \/ TitleFails
    \/ SummaryList \/ SummaryGet \/ SummaryMessage \/ SummarySave \/ SummaryFails

SessionSpec == SessionInit /\ [][SessionNext]_sessionVars

-----------------------------------------------------------------------------
Row == [cost : Nat, title : {"New Session", "generated"}, summary : Nat]

(* Every variable has its type. *)
SessionTypeOK ==
    /\ row \in Row /\ held \in [Writers -> Row \cup {NoRow}]
    /\ messages \in Seq({"user", "assistant", "tool", "summary"})
    /\ turn \in {"idle", "round", "usage", "saving", "tools", "task", "parent"}
    /\ title \in {"none", "start", "asking", "done", "failed"}
    /\ summary \in {"idle", "asking", "writing", "saving"}
    /\ child \in Nat /\ listed \in Nat /\ charged \in Nat
    /\ turns \in Nat /\ rounds \in Nat /\ tasks \in Nat /\ summaries \in Nat
    /\ history \subseteq Nat /\ covered \subseteq Nat /\ tangled \in BOOLEAN

-----------------------------------------------------------------------------
(* Properties. *)

(* Nobody is charged twice, whoever writes over whom.  And as long as no two  *)
(* of them read the row before the other saved it, no writer undoes what      *)
(* another wrote: the conversation's cost is all that was charged to it, its  *)
(* tasks included, a generated title stays, and every message is either in    *)
(* the summary or in what a turn sends to its model.                          *)
SessionKeepsAll ==
    /\ row.cost <= charged
    /\ ~tangled =>
          /\ row.cost = charged
          /\ title = "done" => row.title = "generated"
          /\ turn # "idle" => DOMAIN messages \subseteq history \cup covered
=============================================================================
