------------------------------ MODULE ToolGate ------------------------------
(***************************************************************************)
(* The calls of one turn to the tools that act on more than a file: whether *)
(* a tool asks before it acts, what it does when it is refused, and which of *)
(* its steps depends on which.  Some answer a refusal with the permission   *)
(* service's error, which ends the turn, others with a text, after which    *)
(* the turn goes on (internal/llm/tools, internal/llm/agent).               *)
(***************************************************************************)
EXTENDS Naturals, Sequences, FiniteSets

CONSTANT MaxCalls    \* bound: calls of the turn

VARIABLES
    gateTurn,       \* "open" or "ended"
    gateCancelled,  \* the turn's context is done
    gateCalls,      \* calls so far
    tool,           \* the tool of the current call
    harmless,       \* its parameters are of those the tool does not ask about
    gateAt,         \* Idle, Asking, or the number of the step to do
    failures,       \* BuildTool.Run: platforms that failed
    remembered,     \* tools allowed for the session
    verdict,        \* history: call -> its tool and "granted", "denied", ...
    acts            \* history: the steps that were started, and how they ended

gateVars ==
    <<gateTurn, gateCancelled, gateCalls, tool, harmless, gateAt, failures, remembered, verdict,
      acts>>

-----------------------------------------------------------------------------
(* The tools.  may: there are calls it does not ask about.  denied: what a    *)
(* denial is answered with.  steps: what it does, one after another.          *)

Tool(may, denied, steps) == [may |-> may, denied |-> denied, steps |-> steps]

\* A command that begins like one of safeReadOnlyCommands is not asked about.
Bash == Tool({TRUE, FALSE}, "error", <<"shell">>)
Fetch == Tool({FALSE}, "error", <<"request">>)
Docker == Tool({FALSE}, "text", <<"command">>)
CICD == Tool({FALSE}, "text", <<"command">>)
\* The repository's root is asked for first.
Workflow == Tool({FALSE}, "text", <<"command", "write">>)
Cloud == Tool({FALSE}, "text", <<"command">>)
Kubernetes == Tool({FALSE}, "text", <<"command">>)
\* Asks about mutatingHostingAction only.
Hosting == Tool({TRUE, FALSE}, "text", <<"request">>)
HostingCLI == Tool({FALSE}, "text", <<"command">>)
Webhook == Tool({FALSE}, "text", <<"command">>)
Sign == Tool({FALSE}, "text", <<"command">>)
\* Submit, then staple: one question for both.
Notarize == Tool({FALSE}, "text", <<"command", "command">>)
Package == Tool({FALSE}, "text", <<"command">>)
\* Asks unless it is a web address (needsApproval).
Open == Tool({TRUE, FALSE}, "text", <<"open">>)
\* Asks only if the call names a project_path; two platforms, then the tests.
Build == Tool({TRUE, FALSE}, "text", <<"command", "command", "tests">>)
\* Its clean, lint and test, and its doctor, are for every platform and no more; each
\* action is asked about under its own name.
BuildChore == Tool({TRUE, FALSE}, "text", <<"command", "command">>)
BuildDoctor == Tool({TRUE, FALSE}, "text", <<"check", "check">>)
ImageGen == Tool({FALSE}, "text", <<"request", "write">>)
ImageEdit == Tool({FALSE}, "text", <<"request", "write">>)
ImageVariation == Tool({FALSE}, "text", <<"request", "write">>)
\* Its server is started and initialized for every call.
MCP == Tool({FALSE}, "text", <<"start", "request", "request">>)

Tools == [bash |-> Bash, fetch |-> Fetch, docker |-> Docker, cicd |-> CICD,
          workflow |-> Workflow, cloud |-> Cloud, kubernetes |-> Kubernetes,
          hosting |-> Hosting, hostingCLI |-> HostingCLI, webhook |-> Webhook, sign |-> Sign,
          notarize |-> Notarize, package |-> Package, open |-> Open, build |-> Build,
          buildChore |-> BuildChore, buildDoctor |-> BuildDoctor,
          imageGen |-> ImageGen, imageEdit |-> ImageEdit, imageVariation |-> ImageVariation,
          mcp |-> MCP]

Idle == 0
Asking == 10

GateInit ==
    /\ gateTurn = "open" /\ gateCancelled = FALSE /\ gateCalls = 0
    /\ tool = "bash" /\ harmless = FALSE /\ gateAt = Idle /\ failures = 0
    /\ remembered = {} /\ verdict = <<>> /\ acts = {}

-----------------------------------------------------------------------------
\* The agent's loop over the tool calls of a message.
Call ==
    /\ gateTurn = "open" /\ ~gateCancelled /\ gateAt = Idle /\ gateCalls < MaxCalls
    /\ \E t \in DOMAIN Tools :
          /\ tool' = t
          /\ \E h \in Tools[t].may : harmless' = h
    /\ gateCalls' = gateCalls + 1 /\ failures' = 0
    /\ gateAt' = Asking
    /\ UNCHANGED <<gateTurn, gateCancelled, remembered, verdict, acts>>

IsAnswered(how, to) == verdict' = Append(verdict, [tool |-> tool, how |-> how]) /\ gateAt' = to

\* Parameters that are missing or make no sense, a banned command, no token.
Refuse ==
    /\ gateAt = Asking /\ IsAnswered("refused", Idle)
    /\ UNCHANGED <<gateTurn, gateCancelled, gateCalls, tool, harmless, failures, remembered, acts>>

\* ask and askIn, or the tool's own Request.
Ask ==
    /\ gateAt = Asking
    /\ \/ harmless /\ IsAnswered("not asked", 1) /\ UNCHANGED remembered
       \/ ~harmless /\ tool \in remembered /\ IsAnswered("remembered", 1) /\ UNCHANGED remembered
       \/ ~harmless /\ tool \notin remembered /\ IsAnswered("granted", 1)
          /\ remembered' \in {remembered, remembered \cup {tool}}
    /\ UNCHANGED <<gateTurn, gateCancelled, gateCalls, tool, harmless, failures, acts>>

\* A plausible bug: the agent takes a denial for any other failure of a tool.
DenyGoesOn ==
    /\ gateAt = Asking /\ ~harmless /\ tool \notin remembered
    /\ IsAnswered("denied", Idle)
    /\ UNCHANGED <<gateTurn, gateCancelled, gateCalls, tool, harmless, failures, remembered, acts>>

Deny ==
    /\ gateAt = Asking /\ ~harmless /\ tool \notin remembered
    /\ IsAnswered("denied", Idle)
    /\ gateTurn' = IF Tools[tool].denied = "error" THEN "ended" ELSE gateTurn
    /\ UNCHANGED <<gateCancelled, gateCalls, tool, harmless, failures, remembered, acts>>

-----------------------------------------------------------------------------
(* The steps.  A program that ended with a status other than zero has run; one *)
(* that could not be started has not.                                         *)

Outcomes == {"well", "badly", "not started"}
Step == Tools[tool].steps[gateAt]

\* exec.CommandContext and requests made with the context do not start when it is done.
\* doctor gives its check a context of its own, the background's.
HeedsContext == {"command", "tests", "request"}
Possible == IF gateCancelled /\ Step \in HeedsContext THEN {"not started"} ELSE Outcomes

\* Their failures are text like any other result (joinResult).
Unconditional == {"buildChore", "buildDoctor"}

\* BuildTool.Run tries every platform, and tests what built; notarytool's status is
\* not looked at before stapling.
GoesOn(outcome) ==
    \/ tool \in Unconditional
    \/ tool = "build" /\ (gateAt = 1 \/ failures' = 0)
    \/ tool = "notarize" /\ outcome # "not started"
    \/ tool \notin Unconditional \cup {"build", "notarize"} /\ outcome = "well"

Do ==
    /\ gateAt \in 1..3
    /\ \E outcome \in Possible :
          /\ acts' = acts \cup {[call |-> gateCalls, tool |-> tool, step |-> gateAt, does |-> Step,
                                 outcome |-> outcome, cancelled |-> gateCancelled]}
          /\ failures' = IF outcome = "well" \/ tool \in Unconditional THEN failures ELSE failures + 1
          /\ gateAt' = IF gateAt < Len(Tools[tool].steps) /\ GoesOn(outcome) THEN gateAt + 1 ELSE Idle
    /\ UNCHANGED <<gateTurn, gateCancelled, gateCalls, tool, harmless, remembered, verdict>>

\* An answered question is answered for the call although its turn is cancelled.
CancelCalls ==
    /\ ~gateCancelled /\ gateCalls > 0 /\ gateCancelled' = TRUE
    /\ UNCHANGED <<gateTurn, gateCalls, tool, harmless, gateAt, failures, remembered, verdict, acts>>

GateNext == Call \/ Refuse \/ Ask \/ Deny \/ Do \/ CancelCalls

GateSpec == GateInit /\ [][GateNext]_gateVars

-----------------------------------------------------------------------------
Hows == {"not asked", "remembered", "granted", "denied", "refused"}
Act == [call : Nat, tool : DOMAIN Tools, step : 1..3, outcome : Outcomes, cancelled : BOOLEAN,
        does : {"shell", "request", "command", "check", "write", "open", "tests", "start"}]

(* Every variable has its type. *)
GateTypeOK ==
    /\ gateTurn \in {"open", "ended"} /\ gateCancelled \in BOOLEAN /\ gateCalls \in Nat
    /\ tool \in DOMAIN Tools /\ harmless \in BOOLEAN
    /\ gateAt \in 0..3 \cup {Asking} /\ failures \in Nat
    /\ remembered \subseteq DOMAIN Tools
    /\ verdict \in Seq([tool : DOMAIN Tools, how : Hows])
    /\ acts \subseteq Act

-----------------------------------------------------------------------------
(* Properties. *)

Started == {a \in acts : a.outcome # "not started"}
How(a) == verdict[a.call].how

(* Nothing is started for a call that was denied or refused, nor for a later  *)
(* call of the turn once a tool has reported its denial as an error; what is  *)
(* taken as remembered was granted to this tool.  The two kinds of step that  *)
(* take up what earlier ones made, a file written and the tests after a build, *)
(* follow only if all of those went well; other steps may follow a failure    *)
(* (the next platform of a build, clean, lint, test or doctor, stapling after *)
(* notarytool).  After a cancellation, which does not keep a question from    *)
(* being answered, only those steps start that do not look at the call's      *)
(* context: what the shell is handed, writing and opening a file, starting an *)
(* MCP server, and doctor's checks, which run under context.Background()      *)
(* (build.go:253).                                                            *)
ToolsAskFirst ==
    \A a \in Started :
       /\ How(a) \in {"not asked", "remembered", "granted"}
       /\ How(a) = "remembered" =>
             \E c \in 1..(a.call - 1) : verdict[c] = [tool |-> a.tool, how |-> "granted"]
       /\ \A c \in 1..(a.call - 1) :
             verdict[c].how = "denied" => Tools[verdict[c].tool].denied = "text"
       /\ a.does \in {"write", "tests"} =>
             \A b \in acts : b.call = a.call /\ b.step < a.step => b.outcome = "well"
       /\ a.cancelled => a.does \in {"shell", "write", "open", "start", "check"}
=============================================================================
