------------------------------- MODULE Shell -------------------------------
(***************************************************************************)
(* internal/llm/tools/shell: the one shell all bash calls share.  A call is *)
(* queued; the shell's processor writes it to the shell's stdin and polls   *)
(* for the file the command's status goes to, until the call's context or   *)
(* its time is over.  A second goroutine waits for the shell to exit, marks *)
(* it dead and closes the queue.  A dead shell is replaced by the next call.*)
(***************************************************************************)
EXTENDS Naturals, Sequences, FiniteSets

CONSTANTS
    Calls,       \* one bash call each
    QueueSize,   \* capacity of commandQueue
    MaxShells    \* bound: shells ever started

\* There is a shell, and room in a queue or not.
ASSUME ShellAssumption == QueueSize \in Nat /\ MaxShells \in Nat \ {0}

VARIABLES
    shellCall,   \* call -> where it is
    mine,        \* call -> the shell it was given, NoShell before
    result,      \* call -> what Exec returned
    shellCurrent,\* shellInstance, NoShell when it is nil
    shells,      \* shells started so far
    isAlive,     \* shells whose flag is set
    closed,      \* shells whose queue is closed
    commandQueue,\* shell -> calls in its queue
    processor,   \* shell -> "waiting", "ended" or the step of execCommand
    executing,   \* shell -> the call it executes, a set of at most one
    exited,      \* shells whose process has ended
    stdin,       \* shell -> commands written to it and not begun
    job,         \* shell -> the command it runs, a set of at most one
    status       \* calls whose status file is there, whoever wrote it

tools == <<shellCall, mine, result>>
instances == <<shellCurrent, shells>>
queues == <<isAlive, closed, commandQueue>>
processing == <<processor, executing>>
process == <<exited, stdin, job, status>>
shellVars == <<tools, instances, queues, processing, process>>

Shells == 1..MaxShells
NoShell == 0

ShellInit ==
    /\ shellCall = [c \in Calls |-> "idle"] /\ mine = [c \in Calls |-> NoShell]
    /\ result = [c \in Calls |-> "none"]
    /\ shellCurrent = 1 /\ shells = 1
    /\ isAlive = {1} /\ closed = {}
    /\ commandQueue = [s \in Shells |-> <<>>]
    /\ processor = [s \in Shells |-> "waiting"] /\ executing = [s \in Shells |-> {}]
    /\ exited = {} /\ stdin = [s \in Shells |-> <<>>] /\ job = [s \in Shells |-> {}]
    /\ status = {}

Goes(c, from, to) == shellCall[c] = from /\ shellCall' = [shellCall EXCEPT ![c] = to]
At(s, from, to) == processor[s] = from /\ processor' = [processor EXCEPT ![s] = to]

-----------------------------------------------------------------------------
(* GetPersistentShell and Exec, on a tool's goroutine. *)

\* No lock: two calls may both see a dead shell, and each starts another.
GetPersistentShell(c) ==
    /\ \/ shellCurrent \in isAlive /\ Goes(c, "idle", "given")
       \/ shellCurrent \notin isAlive /\ shells < MaxShells /\ Goes(c, "idle", "start")
    /\ UNCHANGED <<mine, result, instances, queues, processing, process>>

\* newPersistentShell; what does not start is nil, and stored all the same.
NewShell(c) ==
    /\ Goes(c, "start", "given")
    /\ \/ /\ shells < MaxShells
          /\ shells' = shells + 1 /\ shellCurrent' = shells'
          /\ isAlive' = isAlive \cup {shells'}
       \/ shellCurrent' = NoShell /\ UNCHANGED <<shells, isAlive>>
    /\ UNCHANGED <<mine, result, closed, commandQueue, processing, process>>

\* The variable is read again to return it, and may hold another call's shell by now.
ReturnsShell(c) ==
    /\ Goes(c, "given", "exec")
    /\ mine' = [mine EXCEPT ![c] = shellCurrent]
    /\ UNCHANGED <<result, instances, queues, processing, process>>

\* The flag is read here, and the queue used later; there is no flag in a nil shell.
ExecLooks(c) ==
    /\ CASE mine[c] = NoShell -> Goes(c, "exec", "panicked") /\ UNCHANGED result
         [] mine[c] \in isAlive -> Goes(c, "exec", "sending") /\ UNCHANGED result
         [] OTHER -> Goes(c, "exec", "returned") /\ result' = [result EXCEPT ![c] = "not alive"]
    /\ UNCHANGED <<mine, instances, queues, processing, process>>

\* A send on a closed queue panics, and the turn with it.
ExecSends(c) ==
    LET s == mine[c] IN
    /\ \/ /\ Goes(c, "sending", "panicked") /\ s \in closed
          /\ UNCHANGED commandQueue
       \/ /\ Goes(c, "sending", "waiting") /\ s \notin closed
          /\ Len(commandQueue[s]) < QueueSize
          /\ commandQueue' = [commandQueue EXCEPT ![s] = Append(@, c)]
    /\ UNCHANGED <<mine, result, instances, isAlive, closed, processing, process>>

-----------------------------------------------------------------------------
(* The processor: processCommands and execCommand. *)

Takes(s) ==
    /\ At(s, "waiting", "begin") /\ commandQueue[s] # <<>>
    /\ executing' = [executing EXCEPT ![s] = {Head(commandQueue[s])}]
    /\ commandQueue' = [commandQueue EXCEPT ![s] = Tail(@)]
    /\ UNCHANGED <<tools, instances, isAlive, closed, process>>

\* The queue is drained before the processor ends.
Ends(s) ==
    /\ s \in closed /\ commandQueue[s] = <<>> /\ At(s, "waiting", "ended")
    /\ UNCHANGED <<tools, instances, queues, executing, process>>

\* The result goes to the call that waits on its own channel.
Answers(s, r) ==
    /\ shellCall' = [c \in Calls |-> IF c \in executing[s] THEN "returned" ELSE shellCall[c]]
    /\ result' = [c \in Calls |-> IF c \in executing[s] THEN r ELSE result[c]]
    /\ executing' = [executing EXCEPT ![s] = {}]
    /\ UNCHANGED mine

\* A plausible bug: the processor stops when it finds the shell dead.
StopsDead(s) ==
    /\ s \notin isAlive /\ At(s, "begin", "ended")
    /\ UNCHANGED <<shellCall, result, executing, mine>>
    /\ UNCHANGED <<instances, queues, process>>

\* The shell is dead, or the command cannot be written to it.
RefusesDead(s) ==
    /\ \/ (s \notin isAlive \/ s \in exited) /\ At(s, "begin", "waiting")
       \/ s \in exited /\ At(s, "writing", "waiting")
    /\ Answers(s, "not alive")
    /\ UNCHANGED <<instances, queues, process>>

\* The shell is busy and the command longer than the room in its pipe.
WriteBlocks(s) ==
    /\ s \in isAlive \ exited /\ At(s, "begin", "writing")
    /\ job[s] # {} \/ stdin[s] # <<>>
    /\ UNCHANGED <<tools, instances, queues, executing, process>>

\* The context is not looked at before the command is written, nor while it cannot be.
Writes(s) ==
    /\ \/ s \in isAlive \ exited /\ At(s, "begin", "polling")
       \/ /\ s \notin exited /\ At(s, "writing", "polling")
          /\ job[s] = {} /\ stdin[s] = <<>>
    /\ \E c \in executing[s] : stdin' = [stdin EXCEPT ![s] = Append(@, c)]
    /\ UNCHANGED <<tools, instances, queues, executing, exited, job, status>>

\* A plausible bug: one status file for all commands.
HasAnyStatus(s) == status # {}
\* Each command has files of its own.
HasStatus(s) == executing[s] \subseteq status

Finds(s) ==
    /\ HasStatus(s) /\ At(s, "polling", "waiting") /\ Answers(s, "done")
    /\ status' = status \ executing[s]
    /\ UNCHANGED <<instances, queues, exited, stdin, job>>

\* The context or the time is over: the shell's child gets a signal, and may die
\* of it, which the shell takes for the end of the command, or live on.
Interrupts(s) ==
    /\ At(s, "polling", "waiting") /\ Answers(s, "interrupted")
    /\ status' = status \ executing[s]
    /\ UNCHANGED <<instances, queues, exited, stdin, job>>

-----------------------------------------------------------------------------
(* The shell process. *)

Begins(s) ==
    /\ s \notin exited /\ job[s] = {} /\ stdin[s] # <<>>
    /\ job' = [job EXCEPT ![s] = {Head(stdin[s])}]
    /\ stdin' = [stdin EXCEPT ![s] = Tail(@)]
    /\ UNCHANGED <<tools, instances, queues, processing, exited, status>>

\* The command's end, by itself or by a signal: its status is written.
Finishes(s) ==
    /\ s \notin exited /\ job[s] # {}
    /\ status' = status \cup job[s]
    /\ job' = [job EXCEPT ![s] = {}]
    /\ UNCHANGED <<tools, instances, queues, processing, exited, stdin>>

\* The command was `exit`, or something killed the shell.
Exits(s) ==
    /\ s \in 1..shells /\ s \notin exited
    /\ exited' = exited \cup {s}
    /\ UNCHANGED <<tools, instances, queues, processing, stdin, job, status>>

\* cmd.Wait returns: the flag, then the queue.
MarksDead(s) ==
    /\ s \in exited \cap isAlive
    /\ isAlive' = isAlive \ {s}
    /\ UNCHANGED <<tools, instances, closed, commandQueue, processing, process>>

ClosesQueue(s) ==
    /\ s \in exited \ isAlive /\ s \notin closed
    /\ closed' = closed \cup {s}
    /\ UNCHANGED <<tools, instances, isAlive, commandQueue, processing, process>>

-----------------------------------------------------------------------------
Caller(c) ==
    GetPersistentShell(c) \/ NewShell(c) \/ ReturnsShell(c) \/ ExecLooks(c) \/ ExecSends(c)
Processor(s) ==
    Takes(s) \/ Ends(s) \/ RefusesDead(s) \/ WriteBlocks(s) \/ Writes(s) \/ Finds(s) \/ Interrupts(s)
Waiter(s) == MarksDead(s) \/ ClosesQueue(s)

ShellNext ==
    \/ \E c \in Calls : Caller(c)
    \/ \E s \in Shells :
          Processor(s) \/ Begins(s) \/ Finishes(s) \/ Exits(s) \/ Waiter(s)

\* Goroutines run and time passes, and a shell that runs nothing reads its stdin; a
\* command need not ever end.
ShellSpec ==
    /\ ShellInit /\ [][ShellNext]_shellVars
    /\ \A c \in Calls : WF_shellVars(Caller(c))
    /\ \A s \in Shells :
          WF_shellVars(Processor(s)) /\ WF_shellVars(Begins(s)) /\ WF_shellVars(Waiter(s))

-----------------------------------------------------------------------------
(* Every variable has its type. *)
ShellTypeOK ==
    /\ shellCall \in [Calls -> {"idle", "start", "given", "exec", "sending", "waiting",
                                "panicked", "returned"}]
    /\ mine \in [Calls -> Shells \cup {NoShell}]
    /\ result \in [Calls -> {"none", "not alive", "done", "interrupted"}]
    /\ shellCurrent \in Shells \cup {NoShell} /\ shells \in Shells
    /\ isAlive \subseteq Shells /\ closed \subseteq Shells /\ exited \subseteq Shells
    /\ commandQueue \in [Shells -> Seq(Calls)]
    /\ processor \in [Shells -> {"waiting", "begin", "writing", "polling", "ended"}]
    /\ executing \in [Shells -> SUBSET Calls]
    /\ stdin \in [Shells -> Seq(Calls)] /\ job \in [Shells -> SUBSET Calls]
    /\ status \subseteq Calls

-----------------------------------------------------------------------------
(* Properties. *)

(* A call that is told its command ended is told of its own command: the      *)
(* shell has finished it, though commands that were given up on may still run *)
(* in front of it.                                                             *)
Unfinished(c) == \E s \in Shells : c \in job[s] \/ c \in {stdin[s][i] : i \in DOMAIN stdin[s]}
ExecAnswersOwn == \A c \in Calls : result[c] = "done" => ~Unfinished(c)

(* A queued call is answered, whether its command ends, hangs or kills the    *)
(* shell, and however many calls wait before it, unless the commands behind   *)
(* one that lives on fill the shell's pipe for good: no context and no        *)
(* time-out reaches the processor while it writes.                            *)
ExecReturns ==
    \/ \A c \in Calls : shellCall[c] = "waiting" ~> shellCall[c] = "returned"
    \/ \E s \in Shells : <>[](processor[s] = "writing")
=============================================================================
