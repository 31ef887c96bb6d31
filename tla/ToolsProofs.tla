----------------------------- MODULE ToolsProofs -----------------------------
(***************************************************************************)
(* Of the tools: the gate every call passes, for any number of calls, and the *)
(* shell the bash calls share, for any number of calls, shells and places in *)
(* the queue.                                                                *)
(***************************************************************************)
EXTENDS ToolGate, Shell, SequenceTheorems, TLAPS

-----------------------------------------------------------------------------
(* The gate. *)

Names == DOMAIN Tools
Verdict == [tool : Names, how : Hows]
GrantTo(t) == [tool |-> t, how |-> "granted"]
Acting == gateAt \in 1..3
Allowed == {"not asked", "remembered", "granted"}

\* Every call but one that is being decided has its verdict.
VerdictsAreCalls ==
    Len(verdict) = IF gateAt = Asking THEN gateCalls - 1 ELSE gateCalls

\* A denial that is an error is the last of its turn.
ErrorsEndTurn ==
    /\ gateTurn = "ended" => gateAt = Idle
    /\ \A c \in DOMAIN verdict :
          verdict[c].how = "denied" /\ Tools[verdict[c].tool].denied = "error" => gateTurn = "ended"

\* What is remembered was granted, and before it is made use of.
GrantsComeFirst ==
    /\ \A t \in remembered : \E c \in DOMAIN verdict : verdict[c] = GrantTo(t)
    /\ \A k \in DOMAIN verdict : verdict[k].how = "remembered" =>
          \E c \in 1..(k - 1) : verdict[c] = GrantTo(verdict[k].tool)

\* The call that acts was let through.
CurrentIsAllowed ==
    Acting => /\ gateCalls \in DOMAIN verdict
              /\ verdict[gateCalls].tool = tool
              /\ verdict[gateCalls].how \in Allowed
              /\ gateAt <= Len(Tools[tool].steps)

\* What is known of a step for good, once it is done.
Settled(a) ==
    /\ a.call \in DOMAIN verdict
    /\ a.tool = verdict[a.call].tool
    /\ a.outcome # "not started" =>
          /\ verdict[a.call].how \in Allowed
          /\ \A c \in 1..(a.call - 1) :
                verdict[c].how = "denied" => Tools[verdict[c].tool].denied = "text"
          /\ a.cancelled => a.does \notin HeedsContext

\* Those that go on after a failure.
Lenient == Unconditional \cup {"build", "notarize"}

\* The steps of the call that acts were done in order, and went well where the
\* next one builds on them.
StepsGoInOrder ==
    Acting =>
       /\ \A a \in acts : a.call = gateCalls =>
             /\ a.step < gateAt
             /\ tool \notin Lenient => a.outcome = "well"
             /\ tool = "build" /\ failures = 0 => a.outcome = "well"
       /\ tool = "build" /\ gateAt = 3 => failures = 0

\* Each takes up only what went well.
BuildsOnWell ==
    \A a, b \in acts :
       a.does \in {"write", "tests"} /\ b.call = a.call /\ b.step < a.step => b.outcome = "well"

GateInv ==
    /\ GateTypeOK
    /\ VerdictsAreCalls
    /\ ErrorsEndTurn
    /\ GrantsComeFirst
    /\ CurrentIsAllowed
    /\ \A a \in acts : Settled(a)
    /\ StepsGoInOrder
    /\ BuildsOnWell

-----------------------------------------------------------------------------
(* What the proofs need to know of a tool. *)
Does == {"shell", "request", "command", "check", "write", "open", "tests", "start"}
IsTool(t) ==
    /\ Tools[t].denied \in {"error", "text"}
    /\ Tools[t].may \subseteq BOOLEAN
    /\ Len(Tools[t].steps) \in 1..3
    /\ \A k \in 1..Len(Tools[t].steps) :
          /\ Tools[t].steps[k] \in Does
          /\ Tools[t].steps[k] \in {"write", "tests"} => t \notin Lenient \/ (t = "build" /\ k = 3)

LEMMA ToolFacts == \A t \in Names : IsTool(t)
<1>1. IsTool("bash")
  <2>1. Tools["bash"] = Bash
    BY DEF Tools
  <2> QED
    BY <2>1 DEF IsTool, Does, Tool, Bash, Lenient, Unconditional
<1>2. IsTool("fetch")
  <2>1. Tools["fetch"] = Fetch
    BY DEF Tools
  <2> QED
    BY <2>1 DEF IsTool, Does, Tool, Fetch, Lenient, Unconditional
<1>3. IsTool("docker")
  <2>1. Tools["docker"] = Docker
    BY DEF Tools
  <2> QED
    BY <2>1 DEF IsTool, Does, Tool, Docker, Lenient, Unconditional
<1>4. IsTool("cicd")
  <2>1. Tools["cicd"] = CICD
    BY DEF Tools
  <2> QED
    BY <2>1 DEF IsTool, Does, Tool, CICD, Lenient, Unconditional
<1>5. IsTool("workflow")
  <2>1. Tools["workflow"] = Workflow
    BY DEF Tools
  <2> QED
    BY <2>1 DEF IsTool, Does, Tool, Workflow, Lenient, Unconditional
<1>6. IsTool("cloud")
  <2>1. Tools["cloud"] = Cloud
    BY DEF Tools
  <2> QED
    BY <2>1 DEF IsTool, Does, Tool, Cloud, Lenient, Unconditional
<1>7. IsTool("kubernetes")
  <2>1. Tools["kubernetes"] = Kubernetes
    BY DEF Tools
  <2> QED
    BY <2>1 DEF IsTool, Does, Tool, Kubernetes, Lenient, Unconditional
<1>8. IsTool("hosting")
  <2>1. Tools["hosting"] = Hosting
    BY DEF Tools
  <2> QED
    BY <2>1 DEF IsTool, Does, Tool, Hosting, Lenient, Unconditional
<1>9. IsTool("hostingCLI")
  <2>1. Tools["hostingCLI"] = HostingCLI
    BY DEF Tools
  <2> QED
    BY <2>1 DEF IsTool, Does, Tool, HostingCLI, Lenient, Unconditional
<1>10. IsTool("webhook")
  <2>1. Tools["webhook"] = Webhook
    BY DEF Tools
  <2> QED
    BY <2>1 DEF IsTool, Does, Tool, Webhook, Lenient, Unconditional
<1>11. IsTool("sign")
  <2>1. Tools["sign"] = Sign
    BY DEF Tools
  <2> QED
    BY <2>1 DEF IsTool, Does, Tool, Sign, Lenient, Unconditional
<1>12. IsTool("notarize")
  <2>1. Tools["notarize"] = Notarize
    BY DEF Tools
  <2> QED
    BY <2>1 DEF IsTool, Does, Tool, Notarize, Lenient, Unconditional
<1>13. IsTool("package")
  <2>1. Tools["package"] = Package
    BY DEF Tools
  <2> QED
    BY <2>1 DEF IsTool, Does, Tool, Package, Lenient, Unconditional
<1>14. IsTool("open")
  <2>1. Tools["open"] = Open
    BY DEF Tools
  <2> QED
    BY <2>1 DEF IsTool, Does, Tool, Open, Lenient, Unconditional
<1>15. IsTool("build")
  <2>1. Tools["build"] = Build
    BY DEF Tools
  <2> QED
    BY <2>1 DEF IsTool, Does, Tool, Build, Lenient, Unconditional
<1>16. IsTool("imageGen")
  <2>1. Tools["imageGen"] = ImageGen
    BY DEF Tools
  <2> QED
    BY <2>1 DEF IsTool, Does, Tool, ImageGen, Lenient, Unconditional
<1>17. IsTool("imageEdit")
  <2>1. Tools["imageEdit"] = ImageEdit
    BY DEF Tools
  <2> QED
    BY <2>1 DEF IsTool, Does, Tool, ImageEdit, Lenient, Unconditional
<1>18. IsTool("imageVariation")
  <2>1. Tools["imageVariation"] = ImageVariation
    BY DEF Tools
  <2> QED
    BY <2>1 DEF IsTool, Does, Tool, ImageVariation, Lenient, Unconditional
<1>19. IsTool("mcp")
  <2>1. Tools["mcp"] = MCP
    BY DEF Tools
  <2> QED
    BY <2>1 DEF IsTool, Does, Tool, MCP, Lenient, Unconditional
<1>20. IsTool("buildChore")
  <2>1. Tools["buildChore"] = BuildChore
    BY DEF Tools
  <2> QED
    BY <2>1 DEF IsTool, Does, Tool, BuildChore, Lenient, Unconditional
<1>21. IsTool("buildDoctor")
  <2>1. Tools["buildDoctor"] = BuildDoctor
    BY DEF Tools
  <2> QED
    BY <2>1 DEF IsTool, Does, Tool, BuildDoctor, Lenient, Unconditional
<1>22. Names = {
                  "bash", "fetch", "docker", "cicd", "workflow",
                  "cloud", "kubernetes", "hosting", "hostingCLI",
                  "webhook", "sign", "notarize", "package", "open",
                  "build", "buildChore", "buildDoctor", "imageGen", "imageEdit", "imageVariation",
                  "mcp"}
  BY DEF Names, Tools
<1> QED
  BY <1>1, <1>2, <1>3, <1>4, <1>5, <1>6, <1>7, <1>8, <1>9, <1>10, <1>11, <1>12, <1>13, <1>14,
     <1>15, <1>16, <1>17, <1>18, <1>19, <1>20, <1>21, <1>22

-----------------------------------------------------------------------------
(* The record of the verdicts. *)
LEMMA VerdictGrows ==
  ASSUME GateTypeOK, NEW v \in Verdict
  PROVE  /\ Append(verdict, v) \in Seq(Verdict)
         /\ Len(verdict) \in Nat /\ DOMAIN verdict = 1..Len(verdict)
         /\ Len(Append(verdict, v)) = Len(verdict) + 1
         /\ DOMAIN Append(verdict, v) = 1..(Len(verdict) + 1)
         /\ \A c \in DOMAIN verdict : Append(verdict, v)[c] = verdict[c]
         /\ Append(verdict, v)[Len(verdict) + 1] = v
<1>1. verdict \in Seq(Verdict)
  BY DEF GateTypeOK, Verdict, Names
<1> QED
  BY <1>1, AppendProperties, LenProperties

(* Every tool does something, in three steps at most. *)
LEMMA HasSteps == \A t \in Names : Len(Tools[t].steps) \in 1..3
<1>1. ASSUME NEW t \in Names PROVE Len(Tools[t].steps) \in 1..3
  <2>1. IsTool(t)
    BY ToolFacts
  <2> QED
    BY <2>1 DEF IsTool
<1> QED
  BY <1>1

(* Deciding a call keeps what is settled of the earlier ones. *)
LEMMA DecidingKeeps ==
  ASSUME GateInv, gateAt = Asking, NEW how \in Hows, NEW to \in {Idle, 1}, IsAnswered(how, to),
         gateTurn' \in {"open", "ended"}, gateTurn' = "ended" => to = Idle,
         how = "denied" /\ Tools[tool].denied = "error" => gateTurn' = "ended",
         to = 1 => how \in Allowed,
         how = "remembered" => tool \in remembered,
         remembered' = remembered \/ (how = "granted" /\ remembered' = remembered \cup {tool}),
         UNCHANGED <<gateCancelled, gateCalls, tool, harmless, failures, acts>>
  PROVE  GateInv'
<1> DEFINE n == Len(verdict) + 1
           v == [tool |-> tool, how |-> how]
<1>1. /\ GateTypeOK /\ verdict' = Append(verdict, v) /\ gateAt' = to /\ v \in Verdict
      /\ v.tool = tool /\ v.how = how
  BY DEF GateInv, IsAnswered, GateTypeOK, Verdict, Names
<1>2. /\ verdict' \in Seq(Verdict) /\ Len(verdict) \in Nat /\ DOMAIN verdict = 1..Len(verdict)
      /\ Len(verdict') = n /\ DOMAIN verdict' = 1..n
      /\ \A c \in DOMAIN verdict : verdict'[c] = verdict[c]
      /\ verdict'[n] = v
  BY <1>1, VerdictGrows
<1>3. gateCalls = n /\ gateTurn = "open"
  <2>1. gateCalls \in Nat /\ Len(verdict) = gateCalls - 1 /\ Len(verdict) \in Nat
    BY <1>1, <1>2 DEF GateInv, VerdictsAreCalls, GateTypeOK
  <2>2. gateTurn = "open"
    BY DEF GateInv, ErrorsEndTurn, GateTypeOK, Idle, Asking
  <2> QED
    BY <2>1, <2>2
<1> HIDE DEF v
<1>4. GateTypeOK'
  <2>1. remembered' \subseteq Names
    BY <1>1 DEF GateTypeOK, Names
  <2>2. gateAt' \in 0..3 \cup {Asking}
    BY <1>1 DEF Idle
  <2> QED
    BY <1>1, <1>2, <2>1, <2>2 DEF GateTypeOK, Verdict, Names
<1>5. VerdictsAreCalls'
  BY <1>1, <1>2, <1>3 DEF VerdictsAreCalls, Idle, Asking
<1>6. ErrorsEndTurn'
  BY <1>1, <1>2, <1>3 DEF GateInv, ErrorsEndTurn
<1>7. GrantsComeFirst'
  <2>1. ASSUME NEW t \in remembered' PROVE \E c \in DOMAIN verdict' : verdict'[c] = GrantTo(t)
    <3>1. CASE t \in remembered
      <4>1. PICK c \in DOMAIN verdict : verdict[c] = GrantTo(t)
        BY <3>1 DEF GateInv, GrantsComeFirst
      <4> QED
        BY <1>2, <4>1
    <3>2. CASE t \notin remembered
      <4>1. v = GrantTo(t)
        BY <2>1, <3>2 DEF GrantTo, v
      <4> QED
        BY <1>2, <4>1
    <3> QED
      BY <3>1, <3>2
  <2>2. ASSUME NEW k \in DOMAIN verdict', verdict'[k].how = "remembered"
        PROVE  \E c \in 1..(k - 1) : verdict'[c] = GrantTo(verdict'[k].tool)
    <3>1. CASE k = n
      <4>1. PICK c \in DOMAIN verdict : verdict[c] = GrantTo(tool)
        BY <1>1, <1>2, <2>2, <3>1 DEF GateInv, GrantsComeFirst
      <4> QED
        BY <1>1, <1>2, <3>1, <4>1
    <3>2. CASE k # n
      <4>1. k \in DOMAIN verdict /\ verdict'[k] = verdict[k]
        BY <1>2, <3>2
      <4>2. PICK c \in 1..(k - 1) : verdict[c] = GrantTo(verdict[k].tool)
        BY <2>2, <4>1 DEF GateInv, GrantsComeFirst
      <4> QED
        BY <1>2, <4>1, <4>2
    <3> QED
      BY <3>1, <3>2
  <2> QED
    BY <2>1, <2>2 DEF GrantsComeFirst
<1>8. CurrentIsAllowed'
  <2>1. tool \in Names
    BY <1>1 DEF GateTypeOK, Names
  <2>2. 1 <= Len(Tools[tool].steps)
    BY <2>1, HasSteps
  <2> QED
    BY <1>1, <1>2, <1>3, <2>2 DEF CurrentIsAllowed, Acting, Idle
<1>9. \A a \in acts : Settled(a)'
  <2> SUFFICES ASSUME NEW a \in acts PROVE Settled(a)'
    OBVIOUS
  <2>1. Settled(a) /\ a \in Act
    BY <1>1 DEF GateInv, GateTypeOK
  <2>2. a.call \in DOMAIN verdict
    BY <2>1 DEF Settled
  <2>3. a.call \in 1..Len(verdict) /\ a.call \in DOMAIN verdict'
    BY <1>2, <2>2
  <2>4. verdict'[a.call] = verdict[a.call] /\ \A c \in 1..(a.call - 1) : verdict'[c] = verdict[c]
    BY <1>2, <2>3
  <2> QED
    BY <2>1, <2>2, <2>3, <2>4 DEF Settled
<1>10. StepsGoInOrder'
  <2>1. \A a \in acts : a.call \in DOMAIN verdict
    BY DEF GateInv, Settled
  <2>2. \A a \in acts : a.call # gateCalls
    BY <1>2, <1>3, <2>1
  <2> QED
    BY <1>1, <2>2 DEF StepsGoInOrder, Acting, Idle
<1>11. BuildsOnWell'
  BY DEF GateInv, BuildsOnWell
<1> QED
  BY <1>4, <1>5, <1>6, <1>7, <1>8, <1>9, <1>10, <1>11 DEF GateInv

-----------------------------------------------------------------------------
LEMMA InitInvariant == GateInit => GateInv
<1> SUFFICES ASSUME GateInit PROVE GateInv
  OBVIOUS
<1>1. "bash" \in DOMAIN Tools
  BY DEF Tools
<1>2. GateTypeOK
  <2>1. verdict \in Seq([tool : DOMAIN Tools, how : Hows])
    BY EmptySeq DEF GateInit
  <2>2. gateAt \in 0..3 \cup {Asking}
    BY DEF GateInit, Idle
  <2> QED
    BY <1>1, <2>1, <2>2 DEF GateInit, GateTypeOK
<1>3. verdict = <<>> /\ Len(verdict) = 0 /\ DOMAIN verdict = {} /\ acts = {} /\ gateAt = 0
  BY DEF GateInit, Idle
<1> QED
  BY <1>2, <1>3 DEF GateInit, GateInv, VerdictsAreCalls, ErrorsEndTurn, GrantsComeFirst,
     CurrentIsAllowed, StepsGoInOrder, BuildsOnWell, Acting, Asking

LEMMA CallStep == GateInv /\ Call => GateInv'
<1> SUFFICES ASSUME GateInv, Call PROVE GateInv'
  OBVIOUS
<1> USE DEF Call
<1>1. GateTypeOK'
  <2>1. PICK t \in DOMAIN Tools : tool' = t /\ \E h \in Tools[t].may : harmless' = h
    OBVIOUS
  <2>2. Tools[t].may \subseteq BOOLEAN
    BY ToolFacts DEF IsTool, Names
  <2> QED
    BY <2>1, <2>2 DEF GateInv, GateTypeOK
<1>2. (VerdictsAreCalls /\ ErrorsEndTurn /\ GrantsComeFirst)'
  BY DEF GateInv, VerdictsAreCalls, ErrorsEndTurn, GrantsComeFirst, GateTypeOK, Asking, Idle
<1>3. (CurrentIsAllowed /\ StepsGoInOrder)'
  BY DEF CurrentIsAllowed, StepsGoInOrder, Acting, Asking
<1>4. (\A a \in acts : Settled(a))' /\ BuildsOnWell'
  BY DEF GateInv, Settled, BuildsOnWell
<1> QED
  BY <1>1, <1>2, <1>3, <1>4 DEF GateInv

LEMMA DecideStep == GateInv /\ (Refuse \/ Ask \/ Deny) => GateInv'
<1> SUFFICES ASSUME GateInv, Refuse \/ Ask \/ Deny PROVE GateInv'
  OBVIOUS
<1>1. gateAt = Asking /\ gateTurn = "open"
  <2>1. gateAt = Asking
    BY DEF Refuse, Ask, Deny
  <2> QED
    BY <2>1 DEF GateInv, GateTypeOK, ErrorsEndTurn, Idle, Asking
<1>2. CASE Refuse
  BY <1>1, <1>2, DecidingKeeps DEF Refuse, Hows, Allowed, Idle
<1>3. CASE Ask
  <2>1. PICK how \in {"not asked", "remembered", "granted"} :
           /\ IsAnswered(how, 1)
           /\ how = "remembered" => tool \in remembered
           /\ remembered' = remembered \/ (how = "granted" /\ remembered' = remembered \cup {tool})
    BY <1>3 DEF Ask
  <2> QED
    BY <1>1, <1>3, <2>1, DecidingKeeps DEF Ask, Hows, Allowed, Idle
<1>4. CASE Deny
  <2>1. /\ IsAnswered("denied", Idle) /\ remembered' = remembered
        /\ UNCHANGED <<gateCancelled, gateCalls, tool, harmless, failures, acts>>
    BY <1>4 DEF Deny
  <2>2. /\ gateTurn' \in {"open", "ended"}
        /\ Tools[tool].denied = "error" => gateTurn' = "ended"
    BY <1>1, <1>4 DEF Deny
  <2>3. "denied" \in Hows /\ Idle \in {Idle, 1} /\ Idle # 1 /\ "denied" # "remembered"
    BY DEF Hows, Idle
  <2> QED
    BY <1>1, <2>1, <2>2, <2>3, DecidingKeeps
<1> QED
  BY <1>2, <1>3, <1>4

LEMMA DoStep == GateInv /\ Do => GateInv'
<1> SUFFICES ASSUME GateInv, Do PROVE GateInv'
  OBVIOUS
<1>1. PICK outcome \in Possible :
         /\ acts' = acts \cup {[call |-> gateCalls, tool |-> tool, step |-> gateAt, does |-> Step,
                                outcome |-> outcome, cancelled |-> gateCancelled]}
         /\ failures' = IF outcome = "well" \/ tool \in Unconditional THEN failures ELSE failures + 1
         /\ gateAt' = IF gateAt < Len(Tools[tool].steps) /\ GoesOn(outcome) THEN gateAt + 1 ELSE Idle
  BY DEF Do
<1> DEFINE new == [call |-> gateCalls, tool |-> tool, step |-> gateAt, does |-> Step,
                   outcome |-> outcome, cancelled |-> gateCancelled]
<1>2. /\ Acting /\ gateAt \in 1..3 /\ gateCalls \in Nat /\ failures \in Nat
      /\ tool \in Names /\ gateCancelled \in BOOLEAN /\ outcome \in Outcomes
      /\ UNCHANGED <<gateTurn, gateCancelled, gateCalls, tool, harmless, remembered, verdict>>
  BY DEF GateInv, GateTypeOK, Do, Acting, Names, Possible, Outcomes
<1>3. /\ gateCalls \in DOMAIN verdict /\ verdict[gateCalls].tool = tool
      /\ verdict[gateCalls].how \in Allowed /\ gateAt <= Len(Tools[tool].steps)
      /\ gateTurn = "open"
  BY <1>2 DEF GateInv, CurrentIsAllowed, ErrorsEndTurn, GateTypeOK, Idle
<1>4. IsTool(tool) /\ gateAt \in 1..Len(Tools[tool].steps)
  BY <1>2, <1>3, ToolFacts DEF IsTool
<1>5. Step \in Does /\ (Step \in {"write", "tests"} => tool \notin Lenient \/ (tool = "build" /\ gateAt = 3))
  BY <1>4 DEF IsTool, Step
<1>6. /\ new \in Act /\ new.call = gateCalls /\ new.tool = tool /\ new.step = gateAt
      /\ new.does = Step /\ new.outcome = outcome /\ new.cancelled = gateCancelled
  BY <1>2, <1>5 DEF Act, Names, Does
<1> HIDE DEF new
<1>7. acts' = acts \cup {new}
  BY <1>1 DEF new
<1>8. gateAt' \in {0, gateAt + 1} /\ gateAt' \in 0..3 /\ failures' \in Nat
      /\ (gateAt' # 0 => gateAt' = gateAt + 1 /\ gateAt' <= Len(Tools[tool].steps) /\ GoesOn(outcome))
  <2>1. Len(Tools[tool].steps) \in 1..3
    BY <1>2, HasSteps
  <2>2. failures' \in Nat
    BY <1>1, <1>2
  <2>3. CASE gateAt < Len(Tools[tool].steps) /\ GoesOn(outcome)
    <3>1. gateAt' = gateAt + 1 /\ gateAt < Len(Tools[tool].steps)
      BY <1>1, <2>3
    <3>2. gateAt' \in {0, gateAt + 1} /\ gateAt' \in 0..3 /\ gateAt' <= Len(Tools[tool].steps)
      <4>1. \A at, len \in 1..3 : at < len => at + 1 \in 0..3 /\ at + 1 <= len
        OBVIOUS
      <4>2. gateAt \in 1..3
        BY <1>2
      <4>3. gateAt + 1 \in 0..3 /\ gateAt + 1 <= Len(Tools[tool].steps)
        BY <2>1, <3>1, <4>1, <4>2
      <4> QED
        BY <3>1, <4>3
    <3>3. GoesOn(outcome)
      BY <2>3
    <3> QED
      BY <2>2, <3>1, <3>2, <3>3, Zenon
  <2>4. CASE ~(gateAt < Len(Tools[tool].steps) /\ GoesOn(outcome))
    <3>1. gateAt' = 0
      BY <1>1, <2>4 DEF Idle
    <3> QED
      BY <1>2, <2>2, <3>1
  <2> QED
    BY <2>3, <2>4
<1>9. GateTypeOK'
  BY <1>2, <1>6, <1>7, <1>8 DEF GateInv, GateTypeOK
<1>10. VerdictsAreCalls'
  BY <1>2, <1>8 DEF GateInv, VerdictsAreCalls, Asking
<1>11. (ErrorsEndTurn /\ GrantsComeFirst)'
  BY <1>2, <1>3 DEF GateInv, ErrorsEndTurn, GrantsComeFirst
<1>12. CurrentIsAllowed'
  BY <1>2, <1>3, <1>8 DEF CurrentIsAllowed, Acting
<1>13. (\A a \in acts : Settled(a))'
  <2>1. Settled(new)
    <3>1. ASSUME NEW c \in 1..(gateCalls - 1), verdict[c].how = "denied"
          PROVE  Tools[verdict[c].tool].denied = "text"
      <4>1. verdict \in Seq(Verdict)
        BY DEF GateInv, GateTypeOK, Verdict, Names
      <4>2. c \in 1..Len(verdict) /\ c \in DOMAIN verdict
        BY <1>2, <1>3, <4>1, LenProperties
      <4>3. Tools[verdict[c].tool].denied # "error"
        BY <1>3, <3>1, <4>2 DEF GateInv, ErrorsEndTurn
      <4>4. verdict[c] \in Verdict
        BY <4>1, <4>2
      <4>5. verdict[c].tool \in Names
        BY <4>4 DEF Verdict
      <4> QED
        BY <4>3, <4>5, ToolFacts DEF IsTool
    <3>2. outcome # "not started" /\ gateCancelled => Step \notin HeedsContext
      BY DEF Possible
    <3> QED
      BY <1>2, <1>3, <1>6, <3>1, <3>2 DEF Settled
  <2>2. \A a \in acts' : Settled(a)
    BY <1>7, <2>1 DEF GateInv
  <2> QED
    BY <1>2, <2>2 DEF Settled
<1>14. StepsGoInOrder'
  <2>1. CASE gateAt' = 0
    BY <2>1 DEF StepsGoInOrder, Acting
  <2>2. CASE gateAt' # 0
    <3>1. ASSUME NEW a \in acts, a.call = gateCalls
          PROVE  /\ a.step < gateAt'
                 /\ tool \notin Lenient => a.outcome = "well"
                 /\ tool = "build" /\ failures' = 0 => a.outcome = "well"
      <4>1. a.step \in Nat
        BY DEF GateInv, GateTypeOK, Act
      <4> QED
        BY <1>1, <1>2, <1>8, <2>2, <3>1, <4>1 DEF GateInv, StepsGoInOrder
    <3>2. tool \notin Lenient => outcome = "well"
      BY <1>8, <2>2 DEF GoesOn, Lenient
    <3>3. tool = "build" => gateAt = 1 \/ failures' = 0
      BY <1>8, <2>2 DEF GoesOn, Unconditional
    <3>4. tool = "build" /\ failures' = 0 => outcome = "well"
      BY <1>1, <1>2 DEF Unconditional
    <3>5. tool = "build" /\ gateAt' = 3 => failures' = 0
      BY <1>2, <1>8, <2>2, <3>3
    <3> QED
      BY <1>2, <1>6, <1>7, <1>8, <2>2, <3>1, <3>2, <3>4, <3>5 DEF StepsGoInOrder
  <2> QED
    BY <2>1, <2>2
<1>15. BuildsOnWell'
  <2> SUFFICES ASSUME NEW a \in acts', NEW b \in acts', a.does \in {"write", "tests"},
                      b.call = a.call, b.step < a.step
               PROVE  b.outcome = "well"
    BY DEF BuildsOnWell
  <2>1. CASE a \in acts /\ b \in acts
    BY <2>1 DEF GateInv, BuildsOnWell
  <2>2. CASE a = new /\ b \in acts
    BY <1>2, <1>5, <1>6, <2>2 DEF GateInv, StepsGoInOrder
  <2>3. CASE a = new /\ b = new
    BY <1>2, <1>6, <2>3
  <2>4. CASE a \in acts /\ b = new
    <3>1. a.step < gateAt /\ a.step \in Nat
      BY <1>2, <1>6, <2>4 DEF GateInv, StepsGoInOrder, GateTypeOK, Act
    <3> QED
      BY <1>2, <1>6, <2>4, <3>1
  <2> QED
    BY <1>7, <2>1, <2>2, <2>3, <2>4
<1> QED
  BY <1>9, <1>10, <1>11, <1>12, <1>13, <1>14, <1>15 DEF GateInv

LEMMA StepInvariant == GateInv /\ [GateNext]_gateVars => GateInv'
<1> SUFFICES ASSUME GateInv, [GateNext]_gateVars PROVE GateInv'
  OBVIOUS
<1>1. CASE CancelCalls \/ UNCHANGED gateVars
  <2> USE <1>1 DEF CancelCalls, gateVars, GateInv
  <2>1. GateTypeOK'
    BY DEF GateTypeOK
  <2>2. (VerdictsAreCalls /\ ErrorsEndTurn /\ GrantsComeFirst /\ CurrentIsAllowed)'
    BY DEF VerdictsAreCalls, ErrorsEndTurn, GrantsComeFirst, CurrentIsAllowed, Acting
  <2>3. (\A a \in acts : Settled(a))' /\ StepsGoInOrder' /\ BuildsOnWell'
    BY DEF Settled, StepsGoInOrder, BuildsOnWell, Acting
  <2> QED
    BY <2>1, <2>2, <2>3
<1> QED
  BY <1>1, CallStep, DecideStep, DoStep DEF GateNext

(* The inductive invariant holds of every turn's calls. *)
THEOREM GateInvariance == GateSpec => []GateInv
<1>1. GateInv /\ [GateNext]_gateVars => GateInv'
  BY StepInvariant
<1> QED
  BY <1>1, InitInvariant, PTL DEF GateSpec

(* Every variable of the gate keeps its type. *)
THEOREM GateTypeCorrect == GateSpec => []GateTypeOK
<1>1. GateInv => GateTypeOK
  BY DEF GateInv
<1> QED
  BY <1>1, GateInvariance, PTL

(* No tool acts without having asked where it must, nor goes on after what it
   was refused, however many calls a turn makes and whenever it is cancelled. *)
THEOREM AskFirst == GateSpec => []ToolsAskFirst
<1>1. GateInv => ToolsAskFirst
  <2> SUFFICES ASSUME GateInv, NEW a \in Started
               PROVE  /\ How(a) \in {"not asked", "remembered", "granted"}
                      /\ How(a) = "remembered" =>
                            \E c \in 1..(a.call - 1) : verdict[c] = GrantTo(a.tool)
                      /\ \A c \in 1..(a.call - 1) :
                            verdict[c].how = "denied" => Tools[verdict[c].tool].denied = "text"
                      /\ a.does \in {"write", "tests"} =>
                            \A b \in acts : b.call = a.call /\ b.step < a.step => b.outcome = "well"
                      /\ a.cancelled => a.does \in {"shell", "write", "open", "start", "check"}
    BY DEF ToolsAskFirst, GrantTo
  <2>1. a \in acts /\ a.outcome # "not started" /\ Settled(a) /\ a.does \in Does
    BY DEF GateInv, GateTypeOK, Act, Does, Started
  <2>2. /\ a.call \in DOMAIN verdict /\ a.tool = verdict[a.call].tool
        /\ How(a) \in Allowed
        /\ \A c \in 1..(a.call - 1) :
              verdict[c].how = "denied" => Tools[verdict[c].tool].denied = "text"
        /\ a.cancelled => a.does \in {"shell", "write", "open", "start", "check"}
    BY <2>1 DEF Settled, How, HeedsContext, Does
  <2>3. How(a) = "remembered" => \E c \in 1..(a.call - 1) : verdict[c] = GrantTo(a.tool)
    BY <2>2 DEF GateInv, GrantsComeFirst, How
  <2>4. a.does \in {"write", "tests"} =>
           \A b \in acts : b.call = a.call /\ b.step < a.step => b.outcome = "well"
    BY <2>1 DEF GateInv, BuildsOnWell
  <2> QED
    BY <2>2, <2>3, <2>4 DEF Allowed
<1> QED
  BY <1>1, GateInvariance, PTL

-----------------------------------------------------------------------------
(* The shell. *)

\* Where a call can be met: in a queue, with a processor, in the shell's hands or before it.
Has(q, x) == \E i \in DOMAIN q : q[i] = x
NoTwice(q) == \A i, j \in DOMAIN q : q[i] = q[j] => i = j
InHands(c, s) == c \in job[s] \/ Has(stdin[s], c)
Asked(c, s) == Has(commandQueue[s], c) \/ c \in executing[s]

\* A call is met in its own shell only, and only once it was sent there.
CallsAreAtHome ==
    \A c \in Calls, s \in Shells :
        Asked(c, s) \/ InHands(c, s) => mine[c] = s /\ shellCall[c] \in {"waiting", "returned"}

\* Who is queued or executed waits for an answer, and has none.
AskedAreWaiting ==
    /\ \A c \in Calls, s \in Shells : Asked(c, s) => shellCall[c] = "waiting"
    /\ \A c \in Calls : result[c] # "none" => shellCall[c] = "returned"

\* A command is in one place of its shell.
CommandsAreOnce ==
    \A s \in Shells :
        /\ NoTwice(commandQueue[s]) /\ \A c \in executing[s] : ~Has(commandQueue[s], c)
        /\ NoTwice(stdin[s]) /\ \A c \in job[s] : ~Has(stdin[s], c)

\* What was not written to the shell is neither in its hands nor has a status.
Unwritten == {"begin", "writing"}
UnwrittenIsFresh ==
    \A c \in Calls, s \in Shells :
        Has(commandQueue[s], c) \/ (c \in executing[s] /\ processor[s] \in Unwritten) =>
            ~InHands(c, s) /\ c \notin status

\* A status is of a command that is over.
StatusIsLast ==
    \A c \in status : /\ shellCall[c] \in {"waiting", "returned"}
                      /\ \A s \in Shells : ~InHands(c, s)

\* Who sends or waits was given a shell.
CallsHaveShells ==
    \A c \in Calls : shellCall[c] \in {"sending", "waiting"} => mine[c] \in Shells

ShellInv ==
    /\ ShellTypeOK /\ CallsHaveShells /\ CallsAreAtHome /\ AskedAreWaiting /\ CommandsAreOnce
    /\ UnwrittenIsFresh /\ StatusIsLast /\ ExecAnswersOwn

-----------------------------------------------------------------------------
(* Queues. *)

LEMMA HasElement ==
  ASSUME NEW S, NEW q \in Seq(S), NEW x, Has(q, x)
  PROVE  x \in S
BY DEF Has

LEMMA AppendHas ==
  ASSUME NEW S, NEW q \in Seq(S), NEW x \in S, NoTwice(q), ~Has(q, x)
  PROVE  /\ Append(q, x) \in Seq(S) /\ NoTwice(Append(q, x))
         /\ \A y : Has(Append(q, x), y) <=> Has(q, y) \/ y = x
<1> DEFINE p == Append(q, x)
<1>1. /\ p \in Seq(S) /\ DOMAIN q = 1..Len(q) /\ DOMAIN p = 1..(Len(q) + 1) /\ Len(q) \in Nat
      /\ p[Len(q) + 1] = x /\ \A i \in 1..Len(q) : p[i] = q[i]
  OBVIOUS
<1> HIDE DEF p
<1>2. \A i \in DOMAIN p : i \in DOMAIN q \/ i = Len(q) + 1
  BY <1>1
<1>3. NoTwice(p)
  <2> SUFFICES ASSUME NEW i \in DOMAIN p, NEW j \in DOMAIN p, p[i] = p[j] PROVE i = j
    BY DEF NoTwice
  <2>1. CASE i \in DOMAIN q /\ j \in DOMAIN q
    BY <1>1, <2>1 DEF NoTwice
  <2>2. CASE i = Len(q) + 1 \/ j = Len(q) + 1
    BY <1>1, <1>2, <2>2 DEF Has
  <2> QED
    BY <1>2, <2>1, <2>2
<1>4. \A y : Has(p, y) <=> Has(q, y) \/ y = x
  BY <1>1, <1>2 DEF Has
<1> QED
  BY <1>1, <1>3, <1>4 DEF p

LEMMA TailHas ==
  ASSUME NEW S, NEW q \in Seq(S), q # <<>>, NoTwice(q)
  PROVE  /\ Head(q) \in S /\ Has(q, Head(q)) /\ Tail(q) \in Seq(S) /\ NoTwice(Tail(q))
         /\ \A y : Has(Tail(q), y) <=> Has(q, y) /\ y # Head(q)
<1> DEFINE p == Tail(q)
<1>1. /\ p \in Seq(S) /\ DOMAIN q = 1..Len(q) /\ DOMAIN p = 1..(Len(q) - 1)
      /\ Len(q) \in Nat \ {0} /\ Head(q) = q[1] /\ \A i \in DOMAIN p : p[i] = q[i + 1]
  OBVIOUS
<1>2. Head(q) \in S /\ Has(q, Head(q))
  BY <1>1 DEF Has
<1> HIDE DEF p
<1>3. NoTwice(p)
  <2> SUFFICES ASSUME NEW i \in DOMAIN p, NEW j \in DOMAIN p, p[i] = p[j] PROVE i = j
    BY DEF NoTwice
  <2>1. i + 1 \in DOMAIN q /\ j + 1 \in DOMAIN q /\ q[i + 1] = q[j + 1]
    BY <1>1
  <2> QED
    BY <1>1, <2>1 DEF NoTwice
<1>4. ASSUME NEW y PROVE Has(p, y) <=> Has(q, y) /\ y # Head(q)
  <2>1. ASSUME Has(p, y) PROVE Has(q, y) /\ y # Head(q)
    <3>1. PICK i \in DOMAIN p : p[i] = y
      BY <2>1 DEF Has
    <3>2. i + 1 \in DOMAIN q /\ q[i + 1] = y /\ i + 1 # 1 /\ 1 \in DOMAIN q
      BY <1>1, <3>1
    <3> QED
      BY <1>1, <3>2 DEF Has, NoTwice
  <2>2. ASSUME Has(q, y), y # Head(q) PROVE Has(p, y)
    <3>1. PICK i \in DOMAIN q : q[i] = y
      BY <2>2 DEF Has
    <3>2. i - 1 \in DOMAIN p /\ p[i - 1] = y
      BY <1>1, <2>2, <3>1
    <3> QED
      BY <3>2 DEF Has
  <2> QED
    BY <2>1, <2>2
<1> QED
  BY <1>1, <1>2, <1>3, <1>4 DEF p

-----------------------------------------------------------------------------
LEMMA ShellStarts == ShellInit => ShellInv
<1> SUFFICES ASSUME ShellInit PROVE ShellInv
  OBVIOUS
<1>1. 1 \in Shells
  BY ShellAssumption DEF Shells, ShellAssumption
<1>2. ShellTypeOK
  BY <1>1 DEF ShellInit, ShellTypeOK
<1>3. \A c \in Calls, s \in Shells : ~Asked(c, s) /\ ~InHands(c, s)
  BY DEF ShellInit, Asked, InHands, Has
<1>4. CommandsAreOnce
  BY DEF ShellInit, CommandsAreOnce, NoTwice
<1>5. CallsAreAtHome /\ AskedAreWaiting /\ UnwrittenIsFresh /\ StatusIsLast /\ CallsHaveShells
  BY <1>3 DEF ShellInit, CallsAreAtHome, AskedAreWaiting, UnwrittenIsFresh, StatusIsLast,
              CallsHaveShells, Asked
<1>6. ExecAnswersOwn
  BY DEF ShellInit, ExecAnswersOwn
<1> QED
  BY <1>2, <1>4, <1>5, <1>6 DEF ShellInv

(* What is told of a command that is over: it is in no shell's hands. *)
LEMMA Unfinishing ==
  ASSUME NEW c \in Calls
  PROVE  Unfinished(c) <=> \E s \in Shells : InHands(c, s)
BY DEF Unfinished, InHands, Has

(* Steps of a call before it is sent, and of the goroutine that waits for the shell. *)
LEMMA NothingMoves ==
  ASSUME ShellInv, ShellTypeOK', CallsHaveShells',
         UNCHANGED <<commandQueue, executing, stdin, job, status>>,
         \A s \in Shells : processor'[s] \in Unwritten => processor[s] \in Unwritten,
         \A c \in Calls :
            \/ shellCall'[c] = shellCall[c] /\ mine'[c] = mine[c] /\ result'[c] = result[c]
            \/ /\ shellCall[c] \notin {"waiting", "returned"} /\ result'[c] # "done"
               /\ result'[c] # "none" => shellCall'[c] = "returned"
  PROVE  ShellInv'
<1>1. \A c \in Calls, s \in Shells :
         /\ Asked(c, s)' <=> Asked(c, s)
         /\ InHands(c, s)' <=> InHands(c, s)
         /\ Has(commandQueue'[s], c) <=> Has(commandQueue[s], c)
  BY DEF Asked, InHands
<1>2. CommandsAreOnce'
  BY DEF ShellInv, CommandsAreOnce
<1>3. CallsAreAtHome'
  BY <1>1 DEF ShellInv, CallsAreAtHome
<1>4. AskedAreWaiting'
  BY <1>1 DEF ShellInv, AskedAreWaiting
<1>5. UnwrittenIsFresh'
  BY <1>1 DEF ShellInv, UnwrittenIsFresh
<1>6. StatusIsLast'
  <2>1. status \subseteq Calls /\ status' = status
    BY DEF ShellInv, ShellTypeOK
  <2> QED
    BY <1>1, <2>1 DEF ShellInv, StatusIsLast
<1>7. ExecAnswersOwn'
  BY <1>1 DEF ShellInv, ExecAnswersOwn, Unfinished
<1> QED
  BY <1>2, <1>3, <1>4, <1>5, <1>6, <1>7 DEF ShellInv

LEMMA CallerKeeps ==
  ASSUME ShellInv, NEW c \in Calls,
         GetPersistentShell(c) \/ NewShell(c) \/ ReturnsShell(c) \/ ExecLooks(c)
  PROVE  ShellInv'
<1>1. ShellTypeOK /\ CallsHaveShells /\ AskedAreWaiting
  BY DEF ShellInv
<1>2. UNCHANGED <<commandQueue, executing, processor, stdin, job, status, exited, closed>>
  BY DEF GetPersistentShell, NewShell, ReturnsShell, ExecLooks, queues, processing, process
<1>3. shells < MaxShells => shells + 1 \in Shells
  <2>1. shells \in Shells
    BY <1>1 DEF ShellTypeOK
  <2> QED
    BY <2>1, ShellAssumption DEF Shells, ShellAssumption
<1>4. ShellTypeOK'
  <2>1. CASE GetPersistentShell(c)
    BY <1>1, <1>2, <2>1 DEF GetPersistentShell, Goes, instances, queues, ShellTypeOK
  <2>2. CASE NewShell(c)
    BY <1>1, <1>2, <1>3, <2>2 DEF NewShell, Goes, ShellTypeOK
  <2>3. CASE ExecLooks(c)
    BY <1>1, <1>2, <2>3 DEF ExecLooks, Goes, instances, queues, ShellTypeOK
  <2>4. CASE ReturnsShell(c)
    BY <1>1, <1>2, <2>4 DEF ReturnsShell, Goes, instances, queues, ShellTypeOK
  <2> QED
    BY <2>1, <2>2, <2>3, <2>4
<1>5. /\ shellCall[c] \in {"idle", "start", "given", "exec"}
      /\ \A d \in Calls \ {c} :
            shellCall'[d] = shellCall[d] /\ mine'[d] = mine[d] /\ result'[d] = result[d]
      /\ result'[c] # "done" /\ (result'[c] # "none" => shellCall'[c] = "returned")
      /\ shellCall'[c] \in {"sending", "waiting"} => mine'[c] \in Shells
  <2>1. \A d \in Calls : result[d] # "none" => shellCall[d] = "returned"
    BY <1>1 DEF AskedAreWaiting
  <2>2. CASE GetPersistentShell(c)
    BY <1>1, <2>1, <2>2 DEF GetPersistentShell, Goes, ShellTypeOK
  <2>3. CASE NewShell(c)
    BY <1>1, <1>3, <2>1, <2>3 DEF NewShell, Goes, ShellTypeOK
  <2>4. CASE ExecLooks(c)
    BY <1>1, <2>1, <2>4 DEF ExecLooks, Goes, ShellTypeOK, CallsHaveShells
  <2>5. CASE ReturnsShell(c)
    BY <1>1, <2>1, <2>5 DEF ReturnsShell, Goes, ShellTypeOK
  <2> QED
    BY <2>2, <2>3, <2>4, <2>5
<1>6. CallsHaveShells'
  BY <1>1, <1>5 DEF CallsHaveShells
<1> QED
  BY <1>2, <1>4, <1>5, <1>6, NothingMoves

LEMMA WaiterKeeps ==
  ASSUME ShellInv, NEW s \in Shells,
         Ends(s) \/ WriteBlocks(s) \/ Exits(s) \/ MarksDead(s) \/ ClosesQueue(s)
  PROVE  ShellInv'
<1>1. ShellTypeOK /\ CallsHaveShells
  BY DEF ShellInv
<1>2. UNCHANGED <<commandQueue, executing, stdin, job, status, shellCall, mine, result>>
  BY DEF Ends, WriteBlocks, Exits, MarksDead, ClosesQueue, tools, queues, processing, process
<1>3. ShellTypeOK' /\ \A t \in Shells : processor'[t] \in Unwritten => processor[t] \in Unwritten
  <2> USE DEF Unwritten
  <2>1. CASE Ends(s)
    BY <1>1, <2>1 DEF Ends, At, tools, instances, queues, process, ShellTypeOK
  <2>2. CASE Exits(s)
    BY <1>1, <2>2 DEF Exits, tools, instances, queues, processing, ShellTypeOK
  <2>3. CASE MarksDead(s)
    BY <1>1, <2>3 DEF MarksDead, tools, instances, processing, process, ShellTypeOK
  <2>4. CASE ClosesQueue(s)
    BY <1>1, <2>4 DEF ClosesQueue, tools, instances, processing, process, ShellTypeOK
  <2>5. CASE WriteBlocks(s)
    BY <1>1, <2>5 DEF WriteBlocks, At, tools, instances, queues, process, ShellTypeOK
  <2> QED
    BY <2>1, <2>2, <2>3, <2>4, <2>5
<1>4. CallsHaveShells'
  BY <1>1, <1>2 DEF CallsHaveShells
<1> QED
  BY <1>2, <1>3, <1>4, NothingMoves

(* A call is queued: it was nowhere before. *)
LEMMA SendKeeps ==
  ASSUME ShellInv, NEW c \in Calls, ExecSends(c)
  PROVE  ShellInv'
<1> PICK s : s = mine[c]
  OBVIOUS
<1>1. /\ ShellTypeOK /\ CallsHaveShells /\ CallsAreAtHome /\ AskedAreWaiting
      /\ CommandsAreOnce /\ UnwrittenIsFresh /\ StatusIsLast /\ ExecAnswersOwn
  BY DEF ShellInv
<1>2. /\ shellCall[c] = "sending" /\ s \in Shells /\ s = mine[c]
      /\ UNCHANGED <<mine, result, shellCurrent, shells, isAlive, closed, processor, executing,
                     exited, stdin, job, status>>
  BY <1>1 DEF ExecSends, Goes, instances, processing, process, CallsHaveShells
<1>3. CASE shellCall' = [shellCall EXCEPT ![c] = "panicked"] /\ commandQueue' = commandQueue
  <2>1. ShellTypeOK'
    BY <1>1, <1>2, <1>3 DEF ShellTypeOK
  <2>2. CallsHaveShells'
    BY <1>1, <1>2, <1>3 DEF CallsHaveShells, ShellTypeOK
  <2>3. \A d \in Calls : shellCall'[d] = IF d = c THEN "panicked" ELSE shellCall[d]
    BY <1>1, <1>3 DEF ShellTypeOK
  <2>4. result[c] = "none"
    BY <1>1, <1>2 DEF AskedAreWaiting
  <2> QED
    BY <1>2, <1>3, <2>1, <2>2, <2>3, <2>4, NothingMoves
<1>4. CASE /\ shellCall' = [shellCall EXCEPT ![c] = "waiting"]
           /\ commandQueue' = [commandQueue EXCEPT ![s] = Append(@, c)]
  <2>1. /\ \A t \in Shells : ~Asked(c, t) /\ ~InHands(c, t)
        /\ c \notin status /\ result[c] = "none"
    BY <1>1, <1>2 DEF CallsAreAtHome, StatusIsLast, AskedAreWaiting
  <2>2. commandQueue[s] \in Seq(Calls) /\ NoTwice(commandQueue[s]) /\ ~Has(commandQueue[s], c)
    BY <1>1, <1>2, <2>1 DEF ShellTypeOK, CommandsAreOnce, Asked
  <2>3. /\ Append(commandQueue[s], c) \in Seq(Calls) /\ NoTwice(Append(commandQueue[s], c))
        /\ \A d : Has(Append(commandQueue[s], c), d) <=> Has(commandQueue[s], d) \/ d = c
    BY <2>2, AppendHas
  <2>4. /\ \A d \in Calls : shellCall'[d] = IF d = c THEN "waiting" ELSE shellCall[d]
        /\ \A t \in Shells : commandQueue'[t] =
              IF t = s THEN Append(commandQueue[s], c) ELSE commandQueue[t]
    BY <1>1, <1>4 DEF ShellTypeOK
  <2>5. ShellTypeOK'
    BY <1>1, <1>2, <1>4, <2>3 DEF ShellTypeOK
  <2>6. \A d \in Calls, t \in Shells :
           /\ Has(commandQueue'[t], d) <=> Has(commandQueue[t], d) \/ (d = c /\ t = s)
           /\ Asked(d, t)' <=> Asked(d, t) \/ (d = c /\ t = s)
           /\ InHands(d, t)' <=> InHands(d, t)
    BY <1>2, <2>3, <2>4 DEF Asked, InHands
  <2>7. CallsHaveShells' /\ CallsAreAtHome' /\ AskedAreWaiting'
    BY <1>1, <1>2, <2>1, <2>4, <2>6 DEF CallsHaveShells, CallsAreAtHome, AskedAreWaiting
  <2>8. CommandsAreOnce'
    <3> SUFFICES ASSUME NEW t \in Shells
                 PROVE  /\ NoTwice(commandQueue'[t])
                        /\ \A d \in executing'[t] : ~Has(commandQueue'[t], d)
                        /\ NoTwice(stdin'[t]) /\ \A d \in job'[t] : ~Has(stdin'[t], d)
      BY DEF CommandsAreOnce
    <3>1. executing[t] \subseteq Calls /\ c \notin executing[t]
      BY <1>1, <2>1 DEF ShellTypeOK, Asked
    <3> QED
      BY <1>1, <1>2, <2>3, <2>4, <2>6, <3>1 DEF CommandsAreOnce
  <2>9. UnwrittenIsFresh'
    BY <1>1, <1>2, <2>1, <2>6 DEF UnwrittenIsFresh
  <2>10. StatusIsLast'
    <3>1. status \subseteq Calls
      BY <1>1 DEF ShellTypeOK
    <3> QED
      BY <1>1, <1>2, <2>1, <2>4, <2>6, <3>1 DEF StatusIsLast
  <2>11. ExecAnswersOwn'
    BY <1>1, <1>2 DEF ExecAnswersOwn, Unfinished
  <2> QED
    BY <2>5, <2>7, <2>8, <2>9, <2>10, <2>11 DEF ShellInv
<1> QED
  BY <1>2, <1>3, <1>4 DEF ExecSends, Goes

-----------------------------------------------------------------------------
(* The processor and the shell. *)

LEMMA TakesKeeps ==
  ASSUME ShellInv, NEW s \in Shells, Takes(s)
  PROVE  ShellInv'
<1> PICK x : x = Head(commandQueue[s])
  OBVIOUS
<1>1. /\ ShellTypeOK /\ CallsHaveShells /\ CallsAreAtHome /\ AskedAreWaiting
      /\ CommandsAreOnce /\ UnwrittenIsFresh /\ StatusIsLast /\ ExecAnswersOwn
  BY DEF ShellInv
<1>2. /\ executing' = [executing EXCEPT ![s] = {x}]
      /\ commandQueue' = [commandQueue EXCEPT ![s] = Tail(@)]
      /\ processor' = [processor EXCEPT ![s] = "begin"]
      /\ commandQueue[s] # <<>>
      /\ UNCHANGED <<shellCall, mine, result, shellCurrent, shells, isAlive, closed, exited,
                     stdin, job, status>>
  BY DEF Takes, At, tools, instances, process
<1>3. commandQueue[s] \in Seq(Calls) /\ NoTwice(commandQueue[s])
  BY <1>1 DEF ShellTypeOK, CommandsAreOnce
<1>4. /\ x \in Calls /\ Has(commandQueue[s], x)
      /\ Tail(commandQueue[s]) \in Seq(Calls) /\ NoTwice(Tail(commandQueue[s]))
      /\ \A y : Has(Tail(commandQueue[s]), y) <=> Has(commandQueue[s], y) /\ y # x
  BY <1>2, <1>3, TailHas
<1>5. \A t \in Shells :
         /\ executing'[t] = IF t = s THEN {x} ELSE executing[t]
         /\ processor'[t] = IF t = s THEN "begin" ELSE processor[t]
         /\ commandQueue'[t] = IF t = s THEN Tail(commandQueue[s]) ELSE commandQueue[t]
  BY <1>1, <1>2 DEF ShellTypeOK
<1>6. ShellTypeOK'
  BY <1>1, <1>2, <1>4 DEF ShellTypeOK
<1>7. \A c \in Calls, t \in Shells :
         /\ Has(commandQueue'[t], c) => Has(commandQueue[t], c)
         /\ Asked(c, t)' => Asked(c, t)
         /\ InHands(c, t)' <=> InHands(c, t)
         /\ c \in executing'[t] /\ processor'[t] \in Unwritten =>
               Has(commandQueue[t], c) \/ (c \in executing[t] /\ processor[t] \in Unwritten)
  BY <1>2, <1>4, <1>5 DEF Asked, InHands
<1>8. CallsHaveShells' /\ CallsAreAtHome' /\ AskedAreWaiting'
  BY <1>1, <1>2, <1>7 DEF CallsHaveShells, CallsAreAtHome, AskedAreWaiting
<1>9. CommandsAreOnce'
  <2> SUFFICES ASSUME NEW t \in Shells
               PROVE  /\ NoTwice(commandQueue'[t])
                      /\ \A d \in executing'[t] : ~Has(commandQueue'[t], d)
                      /\ NoTwice(stdin'[t]) /\ \A d \in job'[t] : ~Has(stdin'[t], d)
    BY DEF CommandsAreOnce
  <2> QED
    BY <1>1, <1>2, <1>4, <1>5 DEF CommandsAreOnce
<1>10. UnwrittenIsFresh'
  BY <1>1, <1>2, <1>7 DEF UnwrittenIsFresh
<1>11. StatusIsLast'
  <2>1. status \subseteq Calls
    BY <1>1 DEF ShellTypeOK
  <2> QED
    BY <1>1, <1>2, <1>7, <2>1 DEF StatusIsLast
<1>12. ExecAnswersOwn'
  BY <1>1, <1>2 DEF ExecAnswersOwn, Unfinished
<1> QED
  BY <1>6, <1>8, <1>9, <1>10, <1>11, <1>12 DEF ShellInv

(* An answer: "done" needs a status, and whoever has one is in no shell's hands. *)
LEMMA AnswerKeeps ==
  ASSUME ShellInv, NEW s \in Shells, NEW r \in {"not alive", "done", "interrupted"},
         Answers(s, r), r = "done" => executing[s] \subseteq status,
         processor' = [processor EXCEPT ![s] = "waiting"], status' \subseteq status,
         UNCHANGED <<shellCurrent, shells, isAlive, closed, commandQueue, exited, stdin, job>>
  PROVE  ShellInv'
<1>1. /\ ShellTypeOK /\ CallsHaveShells /\ CallsAreAtHome /\ AskedAreWaiting
      /\ CommandsAreOnce /\ UnwrittenIsFresh /\ StatusIsLast /\ ExecAnswersOwn
  BY DEF ShellInv
<1>2. /\ executing' = [executing EXCEPT ![s] = {}] /\ mine' = mine
  BY DEF Answers
<1>3. /\ \A c \in Calls :
            /\ shellCall'[c] = IF c \in executing[s] THEN "returned" ELSE shellCall[c]
            /\ result'[c] = IF c \in executing[s] THEN r ELSE result[c]
      /\ \A t \in Shells :
            /\ \A x : x \in executing'[t] <=> t # s /\ x \in executing[t]
            /\ processor'[t] = IF t = s THEN "waiting" ELSE processor[t]
  BY <1>1, <1>2 DEF Answers, ShellTypeOK
<1>4. ShellTypeOK'
  BY <1>1, <1>2 DEF Answers, ShellTypeOK
<1>5. \A c \in Calls, t \in Shells :
         /\ Has(commandQueue'[t], c) <=> Has(commandQueue[t], c)
         /\ Asked(c, t)' => Asked(c, t) /\ c \notin executing[s]
         /\ InHands(c, t)' <=> InHands(c, t)
  <2> SUFFICES ASSUME NEW c \in Calls, NEW t \in Shells, Asked(c, t)'
               PROVE  Asked(c, t) /\ c \notin executing[s]
    BY <1>2 DEF InHands
  <2>1. Asked(c, t)
    BY <1>2, <1>3 DEF Asked
  <2>2. CASE t = s
    <3>1. Has(commandQueue[s], c)
      BY <1>2, <1>3, <2>2 DEF Asked
    <3> QED
      BY <1>1, <2>1, <3>1 DEF CommandsAreOnce
  <2>3. CASE t # s
    <3>1. ~Asked(c, s)
      BY <1>1, <2>1, <2>3 DEF CallsAreAtHome
    <3> QED
      BY <2>1, <3>1 DEF Asked
  <2> QED
    BY <2>2, <2>3
<1>6. \A c \in Calls : c \in executing[s] => Asked(c, s) /\ shellCall[c] = "waiting"
  BY <1>1 DEF Asked, AskedAreWaiting
<1>7. CallsHaveShells' /\ CallsAreAtHome'
  BY <1>1, <1>2, <1>3, <1>5, <1>6 DEF CallsHaveShells, CallsAreAtHome
<1>8. AskedAreWaiting'
  BY <1>1, <1>3, <1>5 DEF AskedAreWaiting
<1>9. CommandsAreOnce'
  <2> SUFFICES ASSUME NEW t \in Shells
               PROVE  /\ NoTwice(commandQueue'[t])
                      /\ \A d \in executing'[t] : ~Has(commandQueue'[t], d)
                      /\ NoTwice(stdin'[t]) /\ \A d \in job'[t] : ~Has(stdin'[t], d)
    BY DEF CommandsAreOnce
  <2> QED
    BY <1>1, <1>2, <1>3 DEF CommandsAreOnce
<1>10. UnwrittenIsFresh'
  <2> SUFFICES ASSUME NEW c \in Calls, NEW t \in Shells,
                      Has(commandQueue'[t], c)
                         \/ (c \in executing'[t] /\ processor'[t] \in Unwritten)
               PROVE  ~InHands(c, t)' /\ c \notin status'
    BY DEF UnwrittenIsFresh
  <2>1. Has(commandQueue[t], c) \/ (c \in executing[t] /\ processor[t] \in Unwritten)
    BY <1>3, <1>5 DEF Unwritten
  <2>2. ~InHands(c, t) /\ c \notin status
    BY <1>1, <2>1 DEF UnwrittenIsFresh
  <2> QED
    BY <1>5, <2>2
<1>11. StatusIsLast'
  <2>1. status \subseteq Calls
    BY <1>1 DEF ShellTypeOK
  <2> QED
    BY <1>1, <1>3, <1>5, <2>1 DEF StatusIsLast
<1>12. ExecAnswersOwn'
  <2> SUFFICES ASSUME NEW c \in Calls, result'[c] = "done" PROVE ~Unfinished(c)'
    BY DEF ExecAnswersOwn
  <2>1. Unfinished(c)' <=> Unfinished(c)
    BY <1>2 DEF Unfinished
  <2>2. CASE c \in executing[s]
    <3>1. c \in status
      BY <1>3, <2>2
    <3> QED
      BY <1>1, <2>1, <3>1, Unfinishing DEF StatusIsLast
  <2>3. CASE c \notin executing[s]
    BY <1>1, <1>3, <2>1, <2>3 DEF ExecAnswersOwn
  <2> QED
    BY <2>2, <2>3
<1> QED
  BY <1>4, <1>7, <1>8, <1>9, <1>10, <1>11, <1>12 DEF ShellInv

LEMMA ProcessorAnswers ==
  ASSUME ShellInv, NEW s \in Shells, RefusesDead(s) \/ Finds(s) \/ Interrupts(s)
  PROVE  ShellInv'
<1>1. CASE RefusesDead(s)
  BY <1>1, AnswerKeeps DEF RefusesDead, At, process, instances, queues
<1>2. CASE Finds(s)
  BY <1>2, AnswerKeeps DEF Finds, At, HasStatus, instances, queues
<1>3. CASE Interrupts(s)
  BY <1>3, AnswerKeeps DEF Interrupts, At, instances, queues
<1> QED
  BY <1>1, <1>2, <1>3

(* A command is written to the shell: it has not been there, and nobody heard of it. *)
LEMMA WritesKeeps ==
  ASSUME ShellInv, NEW s \in Shells, Writes(s)
  PROVE  ShellInv'
<1>1. /\ ShellTypeOK /\ CallsHaveShells /\ CallsAreAtHome /\ AskedAreWaiting
      /\ CommandsAreOnce /\ UnwrittenIsFresh /\ StatusIsLast /\ ExecAnswersOwn
  BY DEF ShellInv
<1>2. PICK x \in executing[s] : stdin' = [stdin EXCEPT ![s] = Append(@, x)]
  BY DEF Writes
<1>3. /\ processor[s] \in Unwritten /\ processor' = [processor EXCEPT ![s] = "polling"]
      /\ UNCHANGED <<shellCall, mine, result, shellCurrent, shells, isAlive, closed,
                     commandQueue, executing, exited, job, status>>
  BY DEF Writes, At, Unwritten, tools, instances, queues
<1>4. /\ x \in Calls /\ Asked(x, s) /\ mine[x] = s /\ shellCall[x] = "waiting"
      /\ x \notin status /\ result[x] = "none" /\ ~InHands(x, s) /\ ~Has(commandQueue[s], x)
  BY <1>1, <1>3 DEF ShellTypeOK, Asked, CallsAreAtHome, AskedAreWaiting, UnwrittenIsFresh,
                    CommandsAreOnce
<1>5. stdin[s] \in Seq(Calls) /\ NoTwice(stdin[s]) /\ ~Has(stdin[s], x)
  BY <1>1, <1>4 DEF ShellTypeOK, CommandsAreOnce, InHands
<1>6. /\ Append(stdin[s], x) \in Seq(Calls) /\ NoTwice(Append(stdin[s], x))
      /\ \A d : Has(Append(stdin[s], x), d) <=> Has(stdin[s], d) \/ d = x
  BY <1>4, <1>5, AppendHas
<1>7. \A t \in Shells :
         /\ processor'[t] = IF t = s THEN "polling" ELSE processor[t]
         /\ stdin'[t] = IF t = s THEN Append(stdin[s], x) ELSE stdin[t]
  BY <1>1, <1>2, <1>3 DEF ShellTypeOK
<1>8. ShellTypeOK'
  BY <1>1, <1>2, <1>3, <1>6 DEF ShellTypeOK
<1>9. \A c \in Calls, t \in Shells :
         /\ Asked(c, t)' <=> Asked(c, t)
         /\ InHands(c, t)' <=> InHands(c, t) \/ (c = x /\ t = s)
  BY <1>3, <1>6, <1>7 DEF Asked, InHands
<1>10. CallsHaveShells' /\ CallsAreAtHome' /\ AskedAreWaiting'
  BY <1>1, <1>3, <1>4, <1>9 DEF CallsHaveShells, CallsAreAtHome, AskedAreWaiting
<1>11. CommandsAreOnce'
  <2> SUFFICES ASSUME NEW t \in Shells
               PROVE  /\ NoTwice(commandQueue'[t])
                      /\ \A d \in executing'[t] : ~Has(commandQueue'[t], d)
                      /\ NoTwice(stdin'[t]) /\ \A d \in job'[t] : ~Has(stdin'[t], d)
    BY DEF CommandsAreOnce
  <2>1. x \notin job[s]
    BY <1>4 DEF InHands
  <2> QED
    BY <1>1, <1>3, <1>6, <1>7, <2>1 DEF CommandsAreOnce
<1>12. UnwrittenIsFresh'
  <2> SUFFICES ASSUME NEW c \in Calls, NEW t \in Shells,
                      Has(commandQueue[t], c) \/ (c \in executing[t] /\ processor'[t] \in Unwritten)
               PROVE  ~InHands(c, t)' /\ c \notin status
    BY <1>3 DEF UnwrittenIsFresh
  <2>1. Has(commandQueue[t], c) \/ (c \in executing[t] /\ processor[t] \in Unwritten /\ t # s)
    BY <1>7 DEF Unwritten
  <2>2. ~InHands(c, t) /\ c \notin status
    BY <1>1, <2>1 DEF UnwrittenIsFresh
  <2> QED
    BY <1>4, <1>9, <2>1, <2>2
<1>13. StatusIsLast'
  <2>1. status \subseteq Calls
    BY <1>1 DEF ShellTypeOK
  <2> QED
    BY <1>1, <1>3, <1>4, <1>9, <2>1 DEF StatusIsLast
<1>14. ExecAnswersOwn'
  <2> SUFFICES ASSUME NEW c \in Calls, result'[c] = "done" PROVE ~Unfinished(c)'
    BY DEF ExecAnswersOwn
  <2>1. c # x /\ ~Unfinished(c)
    BY <1>1, <1>3, <1>4 DEF ExecAnswersOwn
  <2>2. \A t \in Shells : ~InHands(c, t)'
    BY <1>9, <2>1, Unfinishing
  <2> QED
    BY <2>2 DEF Unfinished, InHands, Has
<1> QED
  BY <1>8, <1>10, <1>11, <1>12, <1>13, <1>14 DEF ShellInv

LEMMA BeginsKeeps ==
  ASSUME ShellInv, NEW s \in Shells, Begins(s)
  PROVE  ShellInv'
<1> PICK x : x = Head(stdin[s])
  OBVIOUS
<1>1. /\ ShellTypeOK /\ CallsHaveShells /\ CallsAreAtHome /\ AskedAreWaiting
      /\ CommandsAreOnce /\ UnwrittenIsFresh /\ StatusIsLast /\ ExecAnswersOwn
  BY DEF ShellInv
<1>2. /\ job[s] = {} /\ stdin[s] # <<>>
      /\ job' = [job EXCEPT ![s] = {x}] /\ stdin' = [stdin EXCEPT ![s] = Tail(@)]
      /\ UNCHANGED <<shellCall, mine, result, shellCurrent, shells, isAlive, closed,
                     commandQueue, processor, executing, exited, status>>
  BY DEF Begins, tools, instances, queues, processing
<1>3. stdin[s] \in Seq(Calls) /\ NoTwice(stdin[s])
  BY <1>1 DEF ShellTypeOK, CommandsAreOnce
<1>4. /\ x \in Calls /\ Has(stdin[s], x)
      /\ Tail(stdin[s]) \in Seq(Calls) /\ NoTwice(Tail(stdin[s]))
      /\ \A y : Has(Tail(stdin[s]), y) <=> Has(stdin[s], y) /\ y # x
  BY <1>2, <1>3, TailHas
<1>5. \A t \in Shells :
         /\ job'[t] = IF t = s THEN {x} ELSE job[t]
         /\ stdin'[t] = IF t = s THEN Tail(stdin[s]) ELSE stdin[t]
  BY <1>1, <1>2 DEF ShellTypeOK
<1>6. ShellTypeOK'
  BY <1>1, <1>2, <1>4 DEF ShellTypeOK
<1>7. \A c \in Calls, t \in Shells :
         /\ Asked(c, t)' <=> Asked(c, t)
         /\ InHands(c, t)' <=> InHands(c, t)
  BY <1>2, <1>4, <1>5 DEF Asked, InHands
<1>8. CallsHaveShells' /\ CallsAreAtHome' /\ AskedAreWaiting' /\ UnwrittenIsFresh'
  BY <1>1, <1>2, <1>7
     DEF CallsHaveShells, CallsAreAtHome, AskedAreWaiting, UnwrittenIsFresh
<1>9. CommandsAreOnce'
  <2> SUFFICES ASSUME NEW t \in Shells
               PROVE  /\ NoTwice(commandQueue'[t])
                      /\ \A d \in executing'[t] : ~Has(commandQueue'[t], d)
                      /\ NoTwice(stdin'[t]) /\ \A d \in job'[t] : ~Has(stdin'[t], d)
    BY DEF CommandsAreOnce
  <2> QED
    BY <1>1, <1>2, <1>4, <1>5 DEF CommandsAreOnce
<1>10. StatusIsLast'
  <2>1. status \subseteq Calls
    BY <1>1 DEF ShellTypeOK
  <2> QED
    BY <1>1, <1>2, <1>7, <2>1 DEF StatusIsLast
<1>11. ExecAnswersOwn'
  <2> SUFFICES ASSUME NEW c \in Calls, result'[c] = "done" PROVE ~Unfinished(c)'
    BY DEF ExecAnswersOwn
  <2>1. \A t \in Shells : ~InHands(c, t)
    BY <1>1, <1>2, Unfinishing DEF ExecAnswersOwn
  <2>2. \A t \in Shells : ~InHands(c, t)'
    BY <1>7, <2>1
  <2> QED
    BY <2>2 DEF Unfinished, InHands, Has
<1> QED
  BY <1>6, <1>8, <1>9, <1>10, <1>11 DEF ShellInv

(* A command ends: it was in one place, so it is in nobody's hands when it has a status. *)
LEMMA FinishesKeeps ==
  ASSUME ShellInv, NEW s \in Shells, Finishes(s)
  PROVE  ShellInv'
<1>1. /\ ShellTypeOK /\ CallsHaveShells /\ CallsAreAtHome /\ AskedAreWaiting
      /\ CommandsAreOnce /\ UnwrittenIsFresh /\ StatusIsLast /\ ExecAnswersOwn
  BY DEF ShellInv
<1>2. /\ status' = status \cup job[s] /\ job' = [job EXCEPT ![s] = {}]
      /\ UNCHANGED <<shellCall, mine, result, shellCurrent, shells, isAlive, closed,
                     commandQueue, processor, executing, exited, stdin>>
  BY DEF Finishes, tools, instances, queues, processing
<1>3. job[s] \subseteq Calls /\ \A t \in Shells : job'[t] = IF t = s THEN {} ELSE job[t]
  BY <1>1, <1>2 DEF ShellTypeOK
<1>4. ShellTypeOK'
  BY <1>1, <1>2, <1>3 DEF ShellTypeOK
<1>5. \A c \in Calls, t \in Shells :
         /\ Asked(c, t)' <=> Asked(c, t)
         /\ InHands(c, t)' => InHands(c, t)
  BY <1>2, <1>3 DEF Asked, InHands
<1>6. CallsHaveShells' /\ CallsAreAtHome' /\ AskedAreWaiting'
  BY <1>1, <1>2, <1>5 DEF CallsHaveShells, CallsAreAtHome, AskedAreWaiting
<1>7. CommandsAreOnce'
  BY <1>1, <1>2, <1>3 DEF CommandsAreOnce
<1>8. \A c \in job[s] :
         /\ InHands(c, s) /\ mine[c] = s /\ shellCall[c] \in {"waiting", "returned"}
         /\ \A t \in Shells : ~InHands(c, t)'
  <2> SUFFICES ASSUME NEW c \in job[s]
               PROVE  /\ InHands(c, s) /\ mine[c] = s
                      /\ shellCall[c] \in {"waiting", "returned"}
                      /\ \A t \in Shells : ~InHands(c, t)'
    OBVIOUS
  <2>1. c \in Calls /\ InHands(c, s) /\ mine[c] = s /\ shellCall[c] \in {"waiting", "returned"}
    BY <1>1, <1>3 DEF InHands, CallsAreAtHome
  <2>2. ASSUME NEW t \in Shells PROVE ~InHands(c, t)'
    <3>1. CASE t = s
      BY <1>1, <1>2, <1>3, <3>1 DEF CommandsAreOnce, InHands
    <3>2. CASE t # s
      BY <1>1, <1>5, <2>1, <3>2 DEF CallsAreAtHome
    <3> QED
      BY <3>1, <3>2
  <2> QED
    BY <2>1, <2>2
<1>9. UnwrittenIsFresh'
  <2> SUFFICES ASSUME NEW c \in Calls, NEW t \in Shells,
                      Has(commandQueue[t], c) \/ (c \in executing[t] /\ processor[t] \in Unwritten)
               PROVE  ~InHands(c, t)' /\ c \notin status'
    BY <1>2 DEF UnwrittenIsFresh
  <2>1. ~InHands(c, t) /\ c \notin status /\ mine[c] = t
    BY <1>1 DEF UnwrittenIsFresh, CallsAreAtHome, Asked
  <2>2. c \notin job[s]
    BY <1>8, <2>1
  <2> QED
    BY <1>2, <1>5, <2>1, <2>2
<1>10. StatusIsLast'
  <2>1. status \subseteq Calls
    BY <1>1 DEF ShellTypeOK
  <2> QED
    BY <1>1, <1>2, <1>5, <1>8, <2>1 DEF StatusIsLast
<1>11. ExecAnswersOwn'
  <2> SUFFICES ASSUME NEW c \in Calls, result'[c] = "done" PROVE ~Unfinished(c)'
    BY DEF ExecAnswersOwn
  <2>1. \A t \in Shells : ~InHands(c, t)
    BY <1>1, <1>2, Unfinishing DEF ExecAnswersOwn
  <2>2. \A t \in Shells : ~InHands(c, t)'
    BY <1>5, <2>1
  <2> QED
    BY <2>2 DEF Unfinished, InHands, Has
<1> QED
  BY <1>4, <1>6, <1>7, <1>9, <1>10, <1>11 DEF ShellInv

-----------------------------------------------------------------------------
(* Where a call can be met, and what is known of it there: a command is in one place of
   one shell, and its status comes when it has left it. *)
THEOREM ShellInvariance == ShellSpec => []ShellInv
<1>1. ShellInv /\ [ShellNext]_shellVars => ShellInv'
  <2> SUFFICES ASSUME ShellInv, [ShellNext]_shellVars PROVE ShellInv'
    OBVIOUS
  <2>1. ASSUME NEW c \in Calls, Caller(c) PROVE ShellInv'
    BY <2>1, CallerKeeps, SendKeeps DEF Caller
  <2>2. ASSUME NEW s \in Shells,
               Processor(s) \/ Begins(s) \/ Finishes(s) \/ Exits(s) \/ Waiter(s)
        PROVE  ShellInv'
    <3>1. \/ Takes(s) \/ Writes(s) \/ Begins(s) \/ Finishes(s)
          \/ (RefusesDead(s) \/ Finds(s) \/ Interrupts(s))
          \/ (Ends(s) \/ WriteBlocks(s) \/ Exits(s) \/ MarksDead(s) \/ ClosesQueue(s))
      BY <2>2 DEF Processor, Waiter
    <3> QED
      BY <3>1, TakesKeeps, ProcessorAnswers, WritesKeeps, BeginsKeeps, FinishesKeeps, WaiterKeeps
  <2>3. ASSUME UNCHANGED shellVars PROVE ShellInv'
    <3>1. UNCHANGED <<shellCall, mine, result, shellCurrent, shells, isAlive, closed,
                      commandQueue, processor, executing, exited, stdin, job, status>>
      BY <2>3 DEF shellVars, tools, instances, queues, processing, process
    <3>2. ShellTypeOK' /\ CallsHaveShells'
      BY <3>1 DEF ShellInv, ShellTypeOK, CallsHaveShells
    <3> QED
      BY <3>1, <3>2, NothingMoves
  <2> QED
    BY <2>1, <2>2, <2>3 DEF ShellNext
<1> QED
  BY <1>1, ShellStarts, PTL DEF ShellSpec

\* Every variable of the shell has its type, in every state.
THEOREM ShellTypeCorrect == ShellSpec => []ShellTypeOK
<1>1. ShellInv => ShellTypeOK
  BY DEF ShellInv
<1> QED
  BY <1>1, ShellInvariance, PTL

(* A call that is told its command ended is told of its own, whatever was given up on
   before it and however many shells have died. *)
THEOREM AnswersOwn == ShellSpec => []ExecAnswersOwn
<1>1. ShellInv => ExecAnswersOwn
  BY DEF ShellInv
<1> QED
  BY <1>1, ShellInvariance, PTL

=============================================================================
