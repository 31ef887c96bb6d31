--------------------------- MODULE FileToolsProofs ---------------------------
(***************************************************************************)
(* The tools that change files, for any sessions, paths, lines, requests   *)
(* and patches.                                                            *)
(***************************************************************************)
EXTENDS FileTools, SequenceTheorems, TLAPS

(* What holds of a session's call.  Where a target exists somebody has seen  *)
(* it, or it came while the call was at work; and what the call has written  *)
(* or shown is not unknown any more.                                         *)
TargetsAreKnown(s) ==
    /\ call[s].at \in {"read", "ask", "apply"} /\ Tool(s) # "view" =>
          \A p \in Targets(Req(s)) : Exists(p) => known[p] # "blind"
    /\ At(s, "apply") => \A p \in DOMAIN call[s].plan \ call[s].left : known[p] # "blind"
    /\ call[s].at \in {"store", "rows"} => \A p \in call[s].left : known[p] # "blind"
    /\ At(s, "rows") => call[s].path \in Targets(Req(s)) /\ known[call[s].path] # "blind"

\* What a call works on is what it was asked for.
StaysOnTargets(s) ==
    ~At(s, "idle") =>
       /\ DOMAIN call[s].plan \subseteq Targets(Req(s)) /\ call[s].left \subseteq Targets(Req(s))
       /\ At(s, "ask") => call[s].left = DOMAIN call[s].plan
       /\ call[s].at \in {"apply", "store"} => call[s].left \subseteq DOMAIN call[s].plan
       /\ call[s].at \in {"ask", "apply", "store"} => Tool(s) # "view"
       /\ At(s, "rows") => \/ Tool(s) # "view" /\ call[s].left \subseteq DOMAIN call[s].plan
                           \/ call[s].left = {call[s].path}

\* Only an edit starts over; nothing is written before all is approved.
AsksBeforeWriting(s) ==
    ~At(s, "idle") =>
       /\ ~At(s, "ask") => call[s].asking = {}
       /\ Tool(s) # "edit" => Len(call[s].helpers) = 1
       /\ Tool(s) # "edit" /\ call[s].at \in {"stat", "read", "ask"} => ~call[s].wrote

\* What is recorded as read has been shown, written, or come meanwhile.
FreshIsKnown == \A p \in Paths : record[p] = "fresh" => known[p] # "blind"

IInv ==
    /\ StateTypeOK /\ FreshIsKnown /\ DeniedPatchChangesNothing
    /\ \A s \in ToolSessions : TargetsAreKnown(s) /\ StaysOnTargets(s) /\ AsksBeforeWriting(s)

Sound(s) == TargetsAreKnown(s) /\ StaysOnTargets(s) /\ AsksBeforeWriting(s)

-----------------------------------------------------------------------------

LEMMA InitInvariant == ToolsInit => IInv
<1> SUFFICES ASSUME ToolsInit PROVE IInv
  OBVIOUS
<1>1. disk \in [Paths -> {Gone} \cup SUBSET Lines]
  BY ToolsAssumption DEF ToolsInit
<1>2. PICK viewed \in {{}, Paths} :
         record = [p \in Paths |-> IF p \in viewed /\ Exists(p) THEN "fresh" ELSE "never"]
  BY DEF ToolsInit
<1>3. known = [p \in Paths |-> IF record[p] = "fresh" THEN "seen" ELSE "blind"]
  BY DEF ToolsInit
<1>4. call = [s \in ToolSessions |-> Idle] /\ files = {}
  BY DEF ToolsInit
<1>5. outcome = [s \in ToolSessions |-> [tool |-> "none", answer |-> "none", wrote |-> FALSE]]
  BY DEF ToolsInit
<1>6. now = 0 /\ calls = 0 /\ outside = 0
  BY DEF ToolsInit
<1>7. StateTypeOK
  <2>1. record \in [Paths -> {"never", "stale", "fresh"}]
    BY <1>2
  <2>2. known \in [Paths -> {"seen", "late", "blind"}]
    BY <1>3
  <2>3. call \in [ToolSessions -> {Idle} \cup Calls]
    BY <1>4
  <2>4. outcome \in [ToolSessions -> Outcomes]
    BY <1>5 DEF CallAnswers, Outcomes
  <2>5. now \in Nat /\ calls \in Nat /\ outside \in Nat
    BY <1>6
  <2>6. files \subseteq FileRows
    BY <1>4
  <2> QED
    BY <1>1, <2>1, <2>2, <2>3, <2>4, <2>5, <2>6 DEF StateTypeOK
<1>8. FreshIsKnown
  BY <1>3 DEF FreshIsKnown
<1>9. DeniedPatchChangesNothing
  BY <1>5 DEF DeniedPatchChangesNothing
<1>10. \A s \in ToolSessions : call[s].at = "idle"
  BY <1>4 DEF Idle
<1>11. \A s \in ToolSessions : TargetsAreKnown(s) /\ StaysOnTargets(s) /\ AsksBeforeWriting(s)
  BY <1>10 DEF TargetsAreKnown, StaysOnTargets, AsksBeforeWriting, At
<1> QED
  BY <1>7, <1>8, <1>9, <1>11 DEF IInv

(* A session that is not idle is at a request of those it may make. *)
LEMMA AtWork ==
  ASSUME IInv, NEW s \in ToolSessions, call[s].at # "idle"
  PROVE  call[s] \in Calls /\ Request(Req(s)) /\ Targets(Req(s)) \subseteq Paths
<1>1. call[s] \in {Idle} \cup Calls
  BY DEF IInv, StateTypeOK
<1>2. call[s] # Idle
  BY DEF Idle
<1>3. call[s] \in Calls
  BY <1>1, <1>2
<1>4. Req(s) \in UNION {ToolRequests[t] : t \in ToolSessions}
  BY <1>3 DEF Calls, Req
<1>5. Request(Req(s))
  BY <1>4, ToolsAssumption
<1>6. Targets(Req(s)) \subseteq Paths
  BY <1>5 DEF Request, Targets
<1> QED
  BY <1>3, <1>5, <1>6

(* A session's call goes on from one place to another. *)
LEMMA CallOf ==
  ASSUME IInv, NEW s \in ToolSessions, call[s] \in Calls
  PROVE  /\ call[s].at \in Places /\ call[s].at # "idle"
         /\ call[s].req \in UNION {ToolRequests[t] : t \in ToolSessions}
         /\ call[s].plan \in Plans /\ call[s].asking \subseteq Paths /\ call[s].left \subseteq Paths
         /\ call[s].path \in Paths \cup {None}
         /\ call[s].todo \in Seq(RowsToAdd)
         /\ call[s].live \in BOOLEAN /\ call[s].wrote \in BOOLEAN
         /\ call[s].helpers \in Seq(HelperNames)
BY DEF Calls, Places

(* Whatever happens to the others, what a session's call has seen stays known. *)
LEMMA OthersStay ==
  ASSUME IInv, NEW s \in ToolSessions, call'[s] = call[s],
         call[s].at \notin {"idle", "stat"} => \A p \in Targets(Req(s)) :
            /\ known[p] # "blind" => known'[p] # "blind"
            /\ disk'[p] # Gone => disk[p] # Gone \/ known'[p] # "blind"
  PROVE  Sound(s)'
<1>1. Sound(s) /\ (call[s].at # "idle" => call[s].at \in Places)
  BY AtWork, CallOf DEF IInv, Sound
<1>2. StaysOnTargets(s)' /\ AsksBeforeWriting(s)'
  BY <1>1 DEF Sound, StaysOnTargets, AsksBeforeWriting, At, Tool, Req
<1>3. TargetsAreKnown(s)'
  <2>1. CASE call[s].at \in {"idle", "stat"}
    BY <2>1 DEF TargetsAreKnown, At
  <2>2. CASE call[s].at \notin {"idle", "stat"}
    <3>1. DOMAIN call[s].plan \subseteq Targets(Req(s)) /\ call[s].left \subseteq Targets(Req(s))
      BY <1>1, <2>2 DEF Sound, StaysOnTargets, At
    <3>2. Req(s)' = Req(s) /\ Tool(s)' = Tool(s) /\ Targets(Req(s))' = Targets(Req(s))
      BY DEF Tool, Req, Targets
    <3> QED
      BY <1>1, <2>2, <3>1, <3>2 DEF Sound, TargetsAreKnown, At, Exists
  <2> QED
    BY <2>1, <2>2
<1> QED
  BY <1>2, <1>3 DEF Sound

(* A step of one session, which makes nothing unknown, is its own affair. *)
LEMMA StepKeeps ==
  ASSUME IInv, NEW s \in ToolSessions,
         \A t \in ToolSessions \ {s} : call'[t] = call[t],
         \A p \in Paths : /\ known[p] # "blind" => known'[p] # "blind"
                          /\ disk'[p] # Gone => disk[p] # Gone \/ known'[p] # "blind",
         StateTypeOK', FreshIsKnown', DeniedPatchChangesNothing', Sound(s)'
  PROVE  IInv'
<1>1. ASSUME NEW t \in ToolSessions \ {s} PROVE Sound(t)'
  BY <1>1, OthersStay, AtWork
<1> QED
  BY <1>1 DEF IInv, Sound

(* A session's call is replaced by what comes of it. *)
LEMMA ReplaceCall ==
  ASSUME IInv, NEW s \in ToolSessions, NEW c \in Calls, call' = [call EXCEPT ![s] = c]
  PROVE  /\ call' \in [ToolSessions -> {Idle} \cup Calls] /\ call'[s] = c
         /\ \A t \in ToolSessions \ {s} : call'[t] = call[t]
BY DEF IInv, StateTypeOK

(* The call has its type, and what holds of a session's call still does. *)
CallIsKept(s) ==
    /\ call' \in [ToolSessions -> {Idle} \cup Calls] /\ outcome' \in [ToolSessions -> Outcomes]
    /\ \A t \in ToolSessions \ {s} : call'[t] = call[t]
    /\ DeniedPatchChangesNothing' /\ Sound(s)'

(* What ends a call answers it; a denied patch has written nothing. *)
LEMMA ReturnKeeps ==
  ASSUME IInv, NEW s \in ToolSessions, call[s].at # "idle", NEW a \in CallAnswers, ReturnWith(s, a),
         a = "denied" /\ Tool(s) = "patch" => ~call[s].wrote
  PROVE  CallIsKept(s)
<1>1. /\ call \in [ToolSessions -> {Idle} \cup Calls]
      /\ outcome \in [ToolSessions -> Outcomes]
  BY DEF IInv, StateTypeOK
<1>2. call[s] \in Calls /\ Request(Req(s)) /\ call[s].wrote \in BOOLEAN
  BY AtWork, CallOf
<1> DEFINE end == [tool |-> Tool(s), answer |-> a, wrote |-> call[s].wrote]
<1>3. /\ end \in Outcomes
      /\ end.tool = Tool(s) /\ end.answer = a /\ end.wrote = call[s].wrote
  BY <1>2 DEF Request, Tool, Outcomes
<1>4. call' = [call EXCEPT ![s] = Idle] /\ outcome' = [outcome EXCEPT ![s] = end]
  BY DEF ReturnWith
<1> HIDE DEF end
<1>5. /\ call'[s] = Idle /\ \A t \in ToolSessions \ {s} : call'[t] = call[t]
      /\ call' \in [ToolSessions -> {Idle} \cup Calls]
  BY <1>1, <1>4
<1>6. /\ outcome' \in [ToolSessions -> Outcomes]
      /\ outcome'[s] = end /\ \A t \in ToolSessions \ {s} : outcome'[t] = outcome[t]
  BY <1>1, <1>3, <1>4
<1>7. DeniedPatchChangesNothing'
  BY <1>3, <1>6 DEF IInv, DeniedPatchChangesNothing
<1>8. call'[s].at = "idle"
  BY <1>5 DEF Idle
<1>9. Sound(s)'
  BY <1>8 DEF Sound, TargetsAreKnown, StaysOnTargets, AsksBeforeWriting, At
<1> QED
  BY <1>5, <1>6, <1>7, <1>9 DEF CallIsKept

(* Another helper of an edit starts over. *)
LEMMA NextHelperKeeps ==
  ASSUME IInv, NEW s \in ToolSessions, call[s].at \notin {"idle", "ask"}, Len(call[s].helpers) > 1, NextHelper(s)
  PROVE  /\ call' \in [ToolSessions -> {Idle} \cup Calls]
         /\ \A t \in ToolSessions \ {s} : call'[t] = call[t]
         /\ Sound(s)'
<1> DEFINE c == [call[s] EXCEPT !.at = "stat", !.helpers = Tail(@)]
<1>1. call[s] \in Calls /\ call[s].helpers \in Seq(HelperNames)
  BY AtWork, CallOf
<1>2. Tail(call[s].helpers) \in Seq(HelperNames)
  BY <1>1, HeadTailProperties, EmptySeq
<1>3. /\ c \in Calls /\ c.at = "stat" /\ c.req = call[s].req /\ c.plan = call[s].plan
      /\ c.left = call[s].left /\ c.asking = call[s].asking
  BY <1>1, <1>2 DEF Calls, Places
<1>4. call' = [call EXCEPT ![s] = c]
  BY DEF NextHelper
<1> HIDE DEF c
<1>5. /\ call' \in [ToolSessions -> {Idle} \cup Calls] /\ call'[s] = c
      /\ \A t \in ToolSessions \ {s} : call'[t] = call[t]
  BY <1>3, <1>4, ReplaceCall
<1>6. StaysOnTargets(s) /\ AsksBeforeWriting(s) /\ Tool(s) = "edit"
  <2>1. StaysOnTargets(s) /\ AsksBeforeWriting(s)
    BY DEF IInv
  <2>2. Len(call[s].helpers) # 1
    <3>1. Len(call[s].helpers) \in Nat
      BY <1>1, LenProperties
    <3> QED
      BY <3>1
  <2> QED
    BY <2>1, <2>2 DEF AsksBeforeWriting, At
<1>7. Sound(s)'
  BY <1>3, <1>5, <1>6 DEF Sound, TargetsAreKnown, StaysOnTargets, AsksBeforeWriting, At, Tool, Req
<1> QED
  BY <1>5, <1>7

(* Where the answer stays as it is, a denied patch has still changed nothing. *)
LEMMA AnswerStays ==
  ASSUME IInv, outcome' = outcome
  PROVE  outcome' \in [ToolSessions -> Outcomes] /\ DeniedPatchChangesNothing'
<1>1. outcome' \in [ToolSessions -> Outcomes]
  BY DEF IInv, StateTypeOK
<1>2. DeniedPatchChangesNothing'
  BY DEF IInv, DeniedPatchChangesNothing
<1> QED
  BY <1>1, <1>2

(* An error response ends the call, unless an edit has another helper to try. *)
LEMMA ErrorKeeps ==
  ASSUME IInv, NEW s \in ToolSessions, call[s].at \notin {"idle", "ask"}, ErrorResponse(s)
  PROVE  CallIsKept(s)
<1>1. CASE Tool(s) = "edit" /\ Len(call[s].helpers) > 1
  <2>1. NextHelper(s) /\ outcome' = outcome
    BY <1>1 DEF ErrorResponse
  <2>2. /\ call' \in [ToolSessions -> {Idle} \cup Calls]
        /\ \A t \in ToolSessions \ {s} : call'[t] = call[t]
        /\ Sound(s)'
    BY <1>1, <2>1, NextHelperKeeps
  <2> QED
    BY <2>1, <2>2, AnswerStays DEF CallIsKept
<1>2. CASE ~(Tool(s) = "edit" /\ Len(call[s].helpers) > 1)
  <2>1. ReturnWith(s, "error")
    BY <1>2 DEF ErrorResponse
  <2> QED
    BY <2>1, ReturnKeeps DEF CallAnswers
<1> QED
  BY <1>1, <1>2

-----------------------------------------------------------------------------
(* The call and its checks. *)

LEMMA HelpersAreNames == ASSUME NEW req PROVE Helpers(req) \in Seq(HelperNames)
<1>1. <<"create">> \in Seq(HelperNames) /\ <<"delete">> \in Seq(HelperNames)
  BY DEF HelperNames
<1>2. <<"replace">> \in Seq(HelperNames)
  BY DEF HelperNames
<1>3. <<>> \in Seq(HelperNames)
  BY EmptySeq
<1> DEFINE creates == IF req.old = None THEN <<"create">> ELSE <<>>
           deletes == IF req.new = None THEN <<"delete">> ELSE <<>>
<1>4. creates \in Seq(HelperNames) /\ deletes \in Seq(HelperNames)
  BY <1>1, <1>3
<1>5. Helpers(req) = creates \o deletes \o <<"replace">>
  BY DEF Helpers
<1> HIDE DEF creates, deletes
<1>6. creates \o deletes \in Seq(HelperNames)
  BY <1>4, ConcatProperties
<1> QED
  BY <1>2, <1>5, <1>6, ConcatProperties

LEMMA StartStep ==
  ASSUME IInv, NEW s \in ToolSessions, NEW req \in ToolRequests[s], StartCall(s, req)
  PROVE  IInv'
<1> DEFINE c == [at |-> "stat", req |-> req, plan |-> <<>>, asking |-> {}, left |-> {},
                 path |-> None, todo |-> <<>>, live |-> TRUE, wrote |-> FALSE,
                 helpers |-> IF req.tool = "edit" THEN Helpers(req) ELSE <<"one">>]
<1>1. /\ call' = [call EXCEPT ![s] = c] /\ calls' = calls + 1
      /\ UNCHANGED <<disk, record, files, now, outside, known, outcome>>
  BY DEF StartCall
<1>2. <<>> \in Plans /\ DOMAIN <<>> = {}
  <2>1. <<>> \in Seq(Changes) /\ Len(<<>>) = 0
    BY EmptySeq
  <2>2. 1..0 = {}
    OBVIOUS
  <2>3. <<>> \in [{} -> Changes] /\ DOMAIN <<>> = {}
    BY <2>1, <2>2, LenProperties
  <2> QED
    BY <2>3 DEF Plans
<1>3. c.helpers \in Seq(HelperNames) /\ (req.tool # "edit" => Len(c.helpers) = 1)
  <2>1. CASE req.tool = "edit"
    BY <2>1, HelpersAreNames
  <2>2. CASE req.tool # "edit"
    <3>1. c.helpers = <<"one">>
      BY <2>2
    <3>2. <<"one">> \in Seq(HelperNames) /\ Len(<<"one">>) = 1
      BY DEF HelperNames
    <3> QED
      BY <3>1, <3>2
  <2> QED
    BY <2>1, <2>2
<1>4. /\ c \in Calls /\ c.at = "stat" /\ c.req = req /\ c.plan = <<>> /\ c.left = {} /\ c.wrote = FALSE
      /\ c.asking = {}
  BY <1>2, <1>3 DEF Calls, Places
<1> HIDE DEF c
<1>5. /\ call' \in [ToolSessions -> {Idle} \cup Calls] /\ call'[s] = c
      /\ \A t \in ToolSessions \ {s} : call'[t] = call[t]
  BY <1>1, <1>4, ReplaceCall
<1>6. Sound(s)'
  BY <1>2, <1>3, <1>4, <1>5 DEF Sound, TargetsAreKnown, StaysOnTargets, AsksBeforeWriting, At, Tool, Req
<1>7. StateTypeOK'
  BY <1>1, <1>5 DEF IInv, StateTypeOK
<1>8. FreshIsKnown' /\ DeniedPatchChangesNothing'
  BY <1>1 DEF IInv, FreshIsKnown, DeniedPatchChangesNothing
<1> QED
  BY <1>1, <1>5, <1>6, <1>7, <1>8, StepKeeps

(* What the checks let through is not there, or known. *)
LEMMA PassedIsKnown ==
  ASSUME IInv, NEW s \in ToolSessions, call[s].at # "idle", Passes(s), Tool(s) # "view"
  PROVE  \A p \in Targets(Req(s)) : Exists(p) => known[p] # "blind"
<1>1. Request(Req(s)) /\ Targets(Req(s)) \subseteq Paths /\ FreshIsKnown
  BY AtWork DEF IInv
<1>2. \A p \in Targets(Req(s)) : Exists(p) => record[p] = "fresh"
  <2>1. CASE Tool(s) = "write"
    BY <2>1 DEF Passes, MayWrite, Targets, Tool
  <2>2. CASE Tool(s) = "edit"
    BY <2>2 DEF Passes, MayEdit, UpToDate, Targets, Tool
  <2>3. CASE Tool(s) = "patch"
    BY <2>3 DEF Passes, MayPatch, UpToDate, Targets, Tool
  <2> QED
    BY <1>1, <2>1, <2>2, <2>3 DEF Request, Tool
<1> QED
  BY <1>1, <1>2 DEF FreshIsKnown

-----------------------------------------------------------------------------
(* Reading, and what is planned then. *)

LEMMA TextIsLines ==
  ASSUME IInv, NEW p \in Paths
  PROVE  Text(p) \in SUBSET Lines
<1>1. disk[p] \in {Gone} \cup SUBSET Lines
  BY DEF IInv, StateTypeOK
<1>2. CASE disk[p] = Gone
  BY <1>2 DEF Text, Exists
<1>3. CASE disk[p] # Gone
  BY <1>1, <1>3 DEF Text, Exists
<1> QED
  BY <1>2, <1>3

LEMMA ChangeIsChange ==
  ASSUME NEW kind \in {"create", "delete", "write", "update", "add", "remove", "move"},
         NEW old \in SUBSET Lines, NEW new \in SUBSET Lines, NEW to \in Paths \cup {None}
  PROVE  Change(kind, old, new, to) \in Changes
BY DEF Change, Changes

(* A plan for one path. *)
LEMMA OnePlan ==
  ASSUME NEW p \in Paths, NEW c \in Changes
  PROVE  [q \in {p} |-> c] \in Plans /\ DOMAIN [q \in {p} |-> c] = {p}
<1>1. [q \in {p} |-> c] \in [{p} -> Changes] /\ {p} \in SUBSET Paths
  OBVIOUS
<1>2. [q \in {p} |-> c] \in Plans
  BY <1>1 DEF Plans
<1> QED
  BY <1>2

LEMMA AskKeeps ==
  ASSUME IInv, NEW s \in ToolSessions, Tool(s) # "view",
         \/ call[s].at = "read"
         \/ /\ call[s].at = "stat"
            /\ \A p \in Targets(Req(s)) : Exists(p) => known[p] # "blind",
         NEW plan \in Plans, DOMAIN plan \subseteq Targets(Req(s)), Ask(s, plan),
         UNCHANGED <<disk, known>>
  PROVE  CallIsKept(s)
<1> DEFINE c == [call[s] EXCEPT !.at = "ask", !.plan = plan, !.asking = DOMAIN plan,
                                !.left = DOMAIN plan]
<1>1. call[s] \in Calls /\ Targets(Req(s)) \subseteq Paths
  BY AtWork
<1>2. DOMAIN plan \in SUBSET Paths
  BY <1>1
<1>3. /\ c \in Calls /\ c.at = "ask" /\ c.req = call[s].req /\ c.plan = plan
      /\ c.left = DOMAIN plan /\ c.asking = DOMAIN plan
      /\ c.wrote = call[s].wrote /\ c.helpers = call[s].helpers
  BY <1>1, <1>2 DEF Calls, Places
<1>4. call' = [call EXCEPT ![s] = c] /\ outcome' = outcome
  BY DEF Ask
<1> HIDE DEF c
<1>5. /\ call' \in [ToolSessions -> {Idle} \cup Calls] /\ call'[s] = c
      /\ \A t \in ToolSessions \ {s} : call'[t] = call[t]
  BY <1>3, <1>4, ReplaceCall
<1>6. TargetsAreKnown(s) /\ AsksBeforeWriting(s)
  BY DEF IInv
<1>7. TargetsAreKnown(s)'
  BY <1>3, <1>5, <1>6 DEF TargetsAreKnown, At, Tool, Req, Targets, Exists
<1>8. StaysOnTargets(s)'
  BY <1>3, <1>5 DEF StaysOnTargets, At, Tool, Req, Targets
<1>9. AsksBeforeWriting(s)'
  BY <1>3, <1>5, <1>6 DEF AsksBeforeWriting, At, Tool, Req
<1> QED
  BY <1>4, <1>5, <1>7, <1>8, <1>9, AnswerStays DEF CallIsKept, Sound

LEMMA StatStep == ASSUME IInv, NEW s \in ToolSessions, Stat(s) PROVE IInv'
<1>1. /\ call[s].at = "stat"
      /\ UNCHANGED <<disk, record, files, now, calls, outside, known>>
  BY DEF Stat, At
<1>2. CallIsKept(s)
  <2>1. CASE Passes(s) /\ ~FindsNone(s)
    <3> DEFINE c == [call[s] EXCEPT !.at = "read"]
    <3>1. call[s] \in Calls
      BY <1>1, AtWork
    <3>2. /\ c \in Calls /\ c.at = "read" /\ c.req = call[s].req /\ c.plan = call[s].plan
          /\ c.left = call[s].left /\ c.wrote = call[s].wrote /\ c.helpers = call[s].helpers
          /\ c.asking = call[s].asking
      BY <3>1 DEF Calls, Places
    <3>3. call' = [call EXCEPT ![s] = c] /\ outcome' = outcome
      BY <2>1 DEF Stat, Step
    <3> HIDE DEF c
    <3>4. /\ call' \in [ToolSessions -> {Idle} \cup Calls] /\ call'[s] = c
          /\ \A t \in ToolSessions \ {s} : call'[t] = call[t]
      BY <3>2, <3>3, ReplaceCall
    <3>5. Tool(s) # "view" => \A p \in Targets(Req(s)) : Exists(p) => known[p] # "blind"
      BY <1>1, <2>1, PassedIsKnown
    <3>6. StaysOnTargets(s) /\ AsksBeforeWriting(s)
      BY DEF IInv
    <3>7. TargetsAreKnown(s)'
      BY <1>1, <3>2, <3>4, <3>5 DEF TargetsAreKnown, At, Tool, Req, Targets, Exists
    <3>8. StaysOnTargets(s)' /\ AsksBeforeWriting(s)'
      BY <1>1, <3>2, <3>4, <3>6 DEF StaysOnTargets, AsksBeforeWriting, At, Tool, Req
    <3> QED
      BY <3>3, <3>4, <3>7, <3>8, AnswerStays DEF CallIsKept, Sound
  <2>2. CASE ~Passes(s)
    BY <1>1, <2>2, ErrorKeeps DEF Stat
  <2>3. CASE Passes(s) /\ FindsNone(s)
    <3> DEFINE p == Req(s).path
               c == Change("write", {}, Req(s).content, p)
    <3>1. Request(Req(s)) /\ Targets(Req(s)) \subseteq Paths /\ Tool(s) = "write"
      BY <1>1, <2>3, AtWork DEF FindsNone
    <3>2. p \in Paths /\ Req(s).content \in SUBSET Lines /\ Targets(Req(s)) = {p}
      BY <3>1 DEF Request, Targets, Tool
    <3>3. c \in Changes
      BY <3>2, ChangeIsChange
    <3>4. [q \in {p} |-> c] \in Plans /\ DOMAIN [q \in {p} |-> c] = {p}
      BY <3>2, <3>3, OnePlan
    <3>5. Ask(s, [q \in {p} |-> c])
      BY <2>3 DEF Stat
    <3> HIDE DEF p, c
    <3>6. \A q \in Targets(Req(s)) : Exists(q) => known[q] # "blind"
      BY <1>1, <2>3, <3>1, PassedIsKnown
    <3> QED
      BY <1>1, <3>1, <3>2, <3>4, <3>5, <3>6, AskKeeps
  <2> QED
    BY <2>1, <2>2, <2>3
<1>3. StateTypeOK'
  BY <1>1, <1>2 DEF IInv, StateTypeOK, CallIsKept
<1>4. FreshIsKnown'
  BY <1>1 DEF IInv, FreshIsKnown
<1> QED
  BY <1>1, <1>2, <1>3, <1>4, StepKeeps DEF CallIsKept

LEMMA ReadWriteKeeps ==
  ASSUME IInv, NEW s \in ToolSessions, call[s].at = "read", Tool(s) = "write", ReadWrite(s),
         UNCHANGED <<disk, known>>
  PROVE  CallIsKept(s)
<1> DEFINE p == Req(s).path
           new == Req(s).content
           c == Change("write", Text(p), new, p)
<1>1. Request(Req(s)) /\ Targets(Req(s)) \subseteq Paths
  BY AtWork
<1>2. p \in Paths /\ new \in SUBSET Lines /\ Targets(Req(s)) = {p}
  BY <1>1 DEF Request, Targets, Tool
<1>3. c \in Changes
  BY <1>2, TextIsLines, ChangeIsChange
<1>4. [q \in {p} |-> c] \in Plans /\ DOMAIN [q \in {p} |-> c] = {p}
  BY <1>2, <1>3, OnePlan
<1>5. ErrorResponse(s) \/ Ask(s, [q \in {p} |-> c])
  BY DEF ReadWrite
<1> HIDE DEF p, c
<1>6. CASE ErrorResponse(s)
  BY <1>6, ErrorKeeps
<1>7. CASE Ask(s, [q \in {p} |-> c])
  BY <1>2, <1>4, <1>7, AskKeeps
<1> QED
  BY <1>5, <1>6, <1>7

LEMMA LineIsLines == ASSUME NEW l \in Lines \cup {None} PROVE Line(l) \in SUBSET Lines
BY DEF Line

LEMMA ReadEditKeeps ==
  ASSUME IInv, NEW s \in ToolSessions, call[s].at = "read", Tool(s) = "edit", ReadEdit(s),
         UNCHANGED <<disk, known>>
  PROVE  CallIsKept(s)
<1> DEFINE p == Req(s).path
           made == Replaced(Text(p), Req(s).old, Req(s).new)
           created == Change("create", {}, Line(Req(s).new), p)
           change(kind) == Change(kind, Text(p), made, p)
<1>1. Request(Req(s)) /\ Targets(Req(s)) \subseteq Paths
  BY AtWork
<1>2. /\ p \in Paths /\ Targets(Req(s)) = {p}
      /\ Req(s).old \in Lines \cup {None} /\ Req(s).new \in Lines \cup {None}
  BY <1>1 DEF Request, Targets, Tool
<1>3. Text(p) \in SUBSET Lines /\ Line(Req(s).old) \in SUBSET Lines /\ Line(Req(s).new) \in SUBSET Lines
  BY <1>2, TextIsLines, LineIsLines
<1>4. made \in SUBSET Lines
  BY <1>3 DEF Replaced
<1>5. \/ ErrorResponse(s) \/ ReturnWith(s, "failed")
      \/ Ask(s, [q \in {p} |-> created])
      \/ Ask(s, [q \in {p} |-> change("delete")])
      \/ Ask(s, [q \in {p} |-> change("write")])
  BY DEF ReadEdit
<1>6. created \in Changes /\ change("delete") \in Changes /\ change("write") \in Changes
  <2> {} \in SUBSET Lines
    OBVIOUS
  <2> HIDE DEF p, made
  <2> QED
    BY <1>2, <1>3, <1>4, ChangeIsChange
<1>7. ASSUME NEW c \in Changes, Ask(s, [q \in {p} |-> c]) PROVE CallIsKept(s)
  <2> HIDE DEF p
  <2>1. [q \in {p} |-> c] \in Plans /\ DOMAIN [q \in {p} |-> c] = {p}
    BY <1>2, OnePlan
  <2> QED
    BY <1>2, <1>7, <2>1, AskKeeps
<1>8. CASE ErrorResponse(s)
  BY <1>8, ErrorKeeps
<1>9. CASE ReturnWith(s, "failed")
  BY <1>9, ReturnKeeps DEF CallAnswers
<1> HIDE DEF p, created, change
<1> QED
  BY <1>5, <1>6, <1>7, <1>8, <1>9

LEMMA ReadPatchKeeps ==
  ASSUME IInv, NEW s \in ToolSessions, call[s].at = "read", Tool(s) = "patch", ReadPatch(s),
         UNCHANGED <<disk, known>>
  PROVE  CallIsKept(s)
<1> DEFINE changes == Req(s).changes
           after(p) ==
               CASE changes[p].kind = "remove" -> {}
                 [] changes[p].kind = "add" -> Line(changes[p].ins)
                 [] OTHER -> Replaced(Text(p), changes[p].del, changes[p].ins)
           before(p) == IF changes[p].kind = "add" THEN {} ELSE Text(p)
           change(p) == Change(changes[p].kind, before(p), after(p), changes[p].to)
           plan == [p \in DOMAIN changes |-> change(p)]
<1>1. Request(Req(s)) /\ Targets(Req(s)) \subseteq Paths
  BY AtWork
<1>2. /\ DOMAIN changes \subseteq Paths /\ Targets(Req(s)) = DOMAIN changes
      /\ \A p \in DOMAIN changes :
            /\ changes[p].kind \in {"update", "add", "remove", "move"}
            /\ changes[p].del \in Lines \cup {None} /\ changes[p].ins \in Lines \cup {None}
            /\ changes[p].to \in Paths \cup {None}
  BY <1>1 DEF Request, Targets, Tool
<1>3. ReturnWith(s, "failed") \/ ErrorResponse(s) \/ Ask(s, plan)
  BY DEF ReadPatch
<1>4. \A p \in DOMAIN changes : change(p) \in Changes
  <2> TAKE p \in DOMAIN changes
  <2>1. /\ Text(p) \in SUBSET Lines /\ Line(changes[p].del) \in SUBSET Lines
        /\ Line(changes[p].ins) \in SUBSET Lines
    BY <1>2, TextIsLines, LineIsLines
  <2>2. Replaced(Text(p), changes[p].del, changes[p].ins) \in SUBSET Lines
    BY <2>1 DEF Replaced
  <2>3. before(p) \in SUBSET Lines
    BY <2>1
  <2>4. after(p) \in SUBSET Lines
    BY <2>1, <2>2
  <2> HIDE DEF changes, before, after
  <2> QED
    BY <1>2, <2>3, <2>4, ChangeIsChange
<1> HIDE DEF changes, change
<1>5. plan \in [DOMAIN changes -> Changes] /\ DOMAIN plan = DOMAIN changes
  BY <1>4
<1>6. plan \in Plans
  BY <1>2, <1>5 DEF Plans
<1> HIDE DEF plan
<1>7. CASE ReturnWith(s, "failed")
  BY <1>7, ReturnKeeps DEF CallAnswers
<1>8. CASE ErrorResponse(s)
  BY <1>8, ErrorKeeps
<1>9. CASE Ask(s, plan)
  BY <1>2, <1>5, <1>6, <1>9, AskKeeps
<1> QED
  BY <1>3, <1>7, <1>8, <1>9

(* What is shown is known from now on. *)
LEMMA ReadViewKeeps ==
  ASSUME IInv, NEW s \in ToolSessions, call[s].at = "read", Tool(s) = "view", ReadView(s),
         UNCHANGED disk
  PROVE  /\ CallIsKept(s) /\ known' \in [Paths -> {"seen", "late", "blind"}]
         /\ \A p \in Paths : known[p] # "blind" => known'[p] # "blind"
<1> DEFINE p == Req(s).path
           c == [call[s] EXCEPT !.at = "rows", !.path = p, !.left = {p}]
<1>1. Request(Req(s)) /\ call[s] \in Calls
  BY AtWork
<1>2. p \in Paths /\ Targets(Req(s)) = {p}
  BY <1>1 DEF Request, Targets, Tool
<1>3. known \in [Paths -> {"seen", "late", "blind"}]
  BY DEF IInv, StateTypeOK
<1>4. CASE Exists(p)
  <2>1. call' = [call EXCEPT ![s] = c] /\ outcome' = outcome /\ known' = [known EXCEPT ![p] = "seen"]
    BY <1>4 DEF ReadView
  <2>2. /\ c.at = "rows" /\ c.req = call[s].req /\ c.plan = call[s].plan
        /\ c.left = {p} /\ c.path = p /\ c.asking = call[s].asking
        /\ c.wrote = call[s].wrote /\ c.helpers = call[s].helpers
    BY <1>1 DEF Calls
  <2>3. c \in Calls
    BY <1>1, <1>2 DEF Calls, Places
  <2> HIDE DEF c
  <2>4. /\ call' \in [ToolSessions -> {Idle} \cup Calls] /\ call'[s] = c
        /\ \A t \in ToolSessions \ {s} : call'[t] = call[t]
    BY <2>1, <2>3, ReplaceCall
  <2>5. StaysOnTargets(s) /\ AsksBeforeWriting(s)
    BY DEF IInv
  <2>6. known' \in [Paths -> {"seen", "late", "blind"}] /\ known'[p] = "seen"
    BY <1>2, <1>3, <2>1
  <2>7. \A q \in Paths : known[q] # "blind" => known'[q] # "blind"
    BY <1>2, <1>3, <2>1
  <2>8. Req(s)' = Req(s) /\ Targets(Req(s))' = {p} /\ call'[s].at = "rows" /\ call'[s].path = p
    BY <1>2, <2>2, <2>4 DEF Req, Targets
  <2> HIDE DEF p
  <2>9. TargetsAreKnown(s)'
    BY <2>2, <2>4, <2>6, <2>8 DEF TargetsAreKnown, At
  <2>10. StaysOnTargets(s)'
    BY <1>2, <2>2, <2>4, <2>5, <2>8 DEF StaysOnTargets, At
  <2>11. AsksBeforeWriting(s)'
    BY <2>2, <2>4, <2>5, <2>8 DEF AsksBeforeWriting, At, Tool
  <2> QED
    BY <2>1, <2>4, <2>6, <2>7, <2>9, <2>10, <2>11, AnswerStays DEF CallIsKept, Sound
<1>5. CASE ~Exists(p)
  <2>1. ReturnWith(s, "failed") /\ known' = known
    BY <1>5 DEF ReadView
  <2> QED
    BY <1>3, <2>1, ReturnKeeps DEF CallAnswers
<1> QED
  BY <1>4, <1>5

LEMMA ReadStep == ASSUME IInv, NEW s \in ToolSessions, Read(s) PROVE IInv'
<1>1. call[s].at = "read" /\ UNCHANGED <<disk, record, files, now, calls, outside>>
  BY DEF Read, At
<1>2. known \in [Paths -> {"seen", "late", "blind"}]
  BY DEF IInv, StateTypeOK
<1>3. /\ CallIsKept(s) /\ known' \in [Paths -> {"seen", "late", "blind"}]
      /\ \A p \in Paths : known[p] # "blind" => known'[p] # "blind"
  <2>1. CASE Tool(s) = "view" /\ ReadView(s)
    BY <1>1, <2>1, ReadViewKeeps
  <2>2. CASE Tool(s) = "write" /\ ReadWrite(s) /\ UNCHANGED known
    BY <1>1, <1>2, <2>2, ReadWriteKeeps
  <2>3. CASE Tool(s) = "edit" /\ ReadEdit(s) /\ UNCHANGED known
    BY <1>1, <1>2, <2>3, ReadEditKeeps
  <2>4. CASE Tool(s) = "patch" /\ ReadPatch(s) /\ UNCHANGED known
    BY <1>1, <1>2, <2>4, ReadPatchKeeps
  <2> QED
    BY <2>1, <2>2, <2>3, <2>4 DEF Read
<1>4. StateTypeOK'
  BY <1>1, <1>3 DEF IInv, StateTypeOK, CallIsKept
<1>5. FreshIsKnown'
  BY <1>1, <1>3 DEF IInv, FreshIsKnown
<1> QED
  BY <1>1, <1>3, <1>4, <1>5, StepKeeps DEF CallIsKept

-----------------------------------------------------------------------------
(* Permission. *)

LEMMA ApproveStep == ASSUME IInv, NEW s \in ToolSessions, Approve(s) PROVE IInv'
<1>1. call[s].at = "ask" /\ UNCHANGED <<disk, record, files, now, calls, outside, known, outcome>>
  BY DEF Approve, At
<1>2. PICK p \in call[s].asking :
         call' = [call EXCEPT ![s].asking = @ \ {p},
                              ![s].at = IF call[s].asking = {p} THEN "apply" ELSE "ask"]
  BY DEF Approve
<1> DEFINE place == IF call[s].asking = {p} THEN "apply" ELSE "ask"
           c == [call[s] EXCEPT !.asking = @ \ {p}, !.at = place]
<1>3. call[s] \in Calls
  BY <1>1, AtWork
<1>4. place \in {"apply", "ask"} /\ (place # "ask" => call[s].asking \ {p} = {})
  OBVIOUS
<1>5. call' = [call EXCEPT ![s] = c]
  BY <1>2
<1> HIDE DEF place
<1>6. /\ c.at = place /\ c.req = call[s].req /\ c.plan = call[s].plan
      /\ c.left = call[s].left /\ c.asking = call[s].asking \ {p}
      /\ c.wrote = call[s].wrote /\ c.helpers = call[s].helpers
  BY <1>3 DEF Calls
<1>7. c \in Calls
  BY <1>3, <1>4 DEF Calls, Places
<1> HIDE DEF c
<1>8. /\ call' \in [ToolSessions -> {Idle} \cup Calls] /\ call'[s] = c
      /\ \A t \in ToolSessions \ {s} : call'[t] = call[t]
  BY <1>5, <1>7, ReplaceCall
<1>9. TargetsAreKnown(s) /\ StaysOnTargets(s) /\ AsksBeforeWriting(s)
  BY DEF IInv
<1>10. Req(s)' = Req(s) /\ Tool(s)' = Tool(s) /\ Targets(Req(s))' = Targets(Req(s))
  BY <1>6, <1>8 DEF Req, Tool, Targets
<1>11. TargetsAreKnown(s)'
  BY <1>1, <1>4, <1>6, <1>8, <1>9, <1>10 DEF TargetsAreKnown, StaysOnTargets, At, Exists
<1>12. StaysOnTargets(s)'
  BY <1>1, <1>4, <1>6, <1>8, <1>9, <1>10 DEF StaysOnTargets, At
<1>13. AsksBeforeWriting(s)'
  BY <1>1, <1>4, <1>6, <1>8, <1>9, <1>10 DEF AsksBeforeWriting, At
<1>14. StateTypeOK'
  BY <1>1, <1>8 DEF IInv, StateTypeOK
<1>15. FreshIsKnown' /\ DeniedPatchChangesNothing'
  BY <1>1 DEF IInv, FreshIsKnown, DeniedPatchChangesNothing
<1> QED
  BY <1>1, <1>8, <1>11, <1>12, <1>13, <1>14, <1>15, StepKeeps DEF Sound

LEMMA DenyStep == ASSUME IInv, NEW s \in ToolSessions, Deny(s) PROVE IInv'
<1>1. /\ call[s].at # "idle" /\ call[s].asking # {} /\ ReturnWith(s, "denied")
      /\ UNCHANGED <<disk, record, files, now, calls, outside, known>>
  BY DEF Deny, At
<1>2. AsksBeforeWriting(s)
  BY DEF IInv
<1>3. call[s].at = "ask"
  BY <1>1, <1>2 DEF AsksBeforeWriting, At
<1>4. Tool(s) = "patch" => ~call[s].wrote
  BY <1>2, <1>3 DEF AsksBeforeWriting, At
<1>5. CallIsKept(s)
  BY <1>1, <1>4, ReturnKeeps DEF CallAnswers
<1>6. StateTypeOK'
  BY <1>1, <1>5 DEF IInv, StateTypeOK, CallIsKept
<1>7. FreshIsKnown'
  BY <1>1 DEF IInv, FreshIsKnown
<1> QED
  BY <1>1, <1>5, <1>6, <1>7, StepKeeps DEF CallIsKept

-----------------------------------------------------------------------------
(* Writing. *)

(* What is written is known. *)
LEMMA PutKeeps ==
  ASSUME IInv, NEW s \in ToolSessions, NEW new, Put(s, new),
         \A q \in DOMAIN new : new[q] \in {Gone} \cup SUBSET Lines
  PROVE  /\ disk' \in [Paths -> {Gone} \cup SUBSET Lines]
         /\ record' \in [Paths -> {"never", "stale", "fresh"}]
         /\ known' \in [Paths -> {"seen", "late", "blind"}]
         /\ FreshIsKnown'
         /\ \A q \in Paths : /\ known[q] # "blind" => known'[q] # "blind"
                             /\ disk'[q] # Gone => disk[q] # Gone \/ known'[q] # "blind"
                             /\ q \in DOMAIN new => known'[q] = "seen"
<1>1. /\ disk \in [Paths -> {Gone} \cup SUBSET Lines]
      /\ record \in [Paths -> {"never", "stale", "fresh"}]
      /\ known \in [Paths -> {"seen", "late", "blind"}]
      /\ FreshIsKnown
  BY DEF IInv, StateTypeOK
<1>2. disk' = [q \in Paths |-> IF q \in DOMAIN new THEN new[q] ELSE disk[q]]
  BY DEF Put
<1>3. record' = [q \in Paths |-> IF q \in DOMAIN new /\ record[q] # "never" THEN "stale" ELSE record[q]]
  BY DEF Put, Touched
<1>4. known' = [q \in Paths |-> IF q \in DOMAIN new THEN "seen" ELSE known[q]]
  BY DEF Put
<1>5. disk' \in [Paths -> {Gone} \cup SUBSET Lines]
  BY <1>1, <1>2
<1>6. record' \in [Paths -> {"never", "stale", "fresh"}]
  BY <1>1, <1>3
<1>7. known' \in [Paths -> {"seen", "late", "blind"}]
  BY <1>1, <1>4
<1>8. \A q \in Paths : q \in DOMAIN new => known'[q] = "seen"
  BY <1>4
<1>9. \A q \in Paths : q \notin DOMAIN new => known'[q] = known[q] /\ disk'[q] = disk[q]
  BY <1>2, <1>4
<1>10. \A q \in Paths : record'[q] = "fresh" => record[q] = "fresh"
  BY <1>3
<1>11. \A q \in Paths : known[q] # "blind" => known'[q] # "blind"
  BY <1>8, <1>9
<1>12. \A q \in Paths : disk'[q] # Gone => disk[q] # Gone \/ known'[q] # "blind"
  BY <1>8, <1>9
<1>13. FreshIsKnown'
  BY <1>1, <1>10, <1>11 DEF FreshIsKnown
<1> QED
  BY <1>5, <1>6, <1>7, <1>8, <1>11, <1>12, <1>13

(* The file is written, and the next one or the history comes. *)
LEMMA WroteKeeps ==
  ASSUME IInv, NEW s \in ToolSessions, call[s].at = "apply",
         NEW p \in call[s].left, NEW new, p \in DOMAIN new, Wrote(s, p, new),
         \A q \in DOMAIN new : new[q] \in {Gone} \cup SUBSET Lines
  PROVE  CallIsKept(s)
<1> DEFINE place == IF call[s].left = {p} THEN "store" ELSE call[s].at
           rest == IF call[s].left = {p} THEN DOMAIN call[s].plan ELSE call[s].left \ {p}
           c == [call[s] EXCEPT !.wrote = TRUE, !.at = place, !.left = rest]
<1>1. call[s] \in Calls /\ Targets(Req(s)) \subseteq Paths
  BY AtWork
<1>2. TargetsAreKnown(s) /\ StaysOnTargets(s) /\ AsksBeforeWriting(s)
  BY DEF IInv
<1>3. /\ DOMAIN call[s].plan \subseteq Targets(Req(s)) /\ call[s].left \subseteq Targets(Req(s))
      /\ call[s].left \subseteq DOMAIN call[s].plan /\ Tool(s) # "view"
  BY <1>2 DEF StaysOnTargets, At
<1>4. /\ \A q \in Targets(Req(s)) : disk[q] # Gone => known[q] # "blind"
      /\ \A q \in DOMAIN call[s].plan \ call[s].left : known[q] # "blind"
  BY <1>2, <1>3 DEF TargetsAreKnown, At, Exists
<1>5. call' = [call EXCEPT ![s] = c] /\ outcome' = outcome /\ Put(s, new)
  BY DEF Wrote
<1>6. \/ place = "store" /\ rest = DOMAIN call[s].plan
      \/ place = "apply" /\ rest = call[s].left \ {p}
  <2>1. CASE call[s].left = {p}
    BY <2>1
  <2>2. CASE call[s].left # {p}
    BY <2>2
  <2> QED
    BY <2>1, <2>2
<1>7. place = "store" => call[s].left = {p}
  OBVIOUS
<1> HIDE DEF place, rest
<1>8. /\ c.at = place /\ c.req = call[s].req /\ c.plan = call[s].plan
      /\ c.left = rest /\ c.asking = call[s].asking /\ c.helpers = call[s].helpers
  BY <1>1 DEF Calls
<1>9. rest \subseteq DOMAIN call[s].plan /\ rest \in SUBSET Paths
  BY <1>1, <1>3, <1>6
<1>10. c \in Calls
  BY <1>1, <1>6, <1>9 DEF Calls, Places
<1> HIDE DEF c
<1>11. /\ call' \in [ToolSessions -> {Idle} \cup Calls] /\ call'[s] = c
       /\ \A t \in ToolSessions \ {s} : call'[t] = call[t]
  BY <1>5, <1>10, ReplaceCall
<1>12. \A q \in Paths : /\ known[q] # "blind" => known'[q] # "blind"
                        /\ disk'[q] # Gone => disk[q] # Gone \/ known'[q] # "blind"
  BY <1>5, PutKeeps
<1>13. known'[p] # "blind"
  BY <1>1, <1>3, <1>5, PutKeeps
<1>14. Req(s)' = Req(s) /\ Tool(s)' = Tool(s) /\ Targets(Req(s))' = Targets(Req(s))
  BY <1>8, <1>11 DEF Req, Tool, Targets
<1>15. \A q \in Targets(Req(s)) : disk'[q] # Gone => known'[q] # "blind"
  BY <1>1, <1>4, <1>12
<1>16. \A q \in DOMAIN call[s].plan \ call[s].left : known'[q] # "blind"
  BY <1>1, <1>3, <1>4, <1>12
<1>17. TargetsAreKnown(s)'
  <2>1. CASE place = "store" /\ rest = DOMAIN call[s].plan
    <3>1. call'[s].at = "store" /\ call'[s].left = DOMAIN call[s].plan
      BY <1>8, <1>11, <2>1
    <3>2. \A q \in DOMAIN call[s].plan : known'[q] # "blind"
      BY <1>7, <1>13, <1>16, <2>1
    <3> QED
      BY <3>1, <3>2 DEF TargetsAreKnown, At
  <2>2. CASE place = "apply" /\ rest = call[s].left \ {p}
    <3>1. call'[s].at = "apply" /\ call'[s].left = call[s].left \ {p} /\ call'[s].plan = call[s].plan
      BY <1>8, <1>11, <2>2
    <3>2. \A q \in DOMAIN call[s].plan \ (call[s].left \ {p}) : known'[q] # "blind"
      BY <1>13, <1>16
    <3>3. \A q \in Targets(Req(s))' : Exists(q)' => known'[q] # "blind"
      BY <1>14, <1>15 DEF Exists
    <3> QED
      BY <3>1, <3>2, <3>3 DEF TargetsAreKnown, At
  <2> QED
    BY <1>6, <2>1, <2>2
<1>18. StaysOnTargets(s)'
  <2>1. call'[s].at \in {"store", "apply"} /\ call'[s].left = rest /\ call'[s].plan = call[s].plan
    BY <1>6, <1>8, <1>11
  <2> QED
    BY <1>3, <1>9, <1>14, <2>1 DEF StaysOnTargets, At
<1>19. AsksBeforeWriting(s)'
  <2>1. /\ call'[s].at \in {"store", "apply"} /\ call'[s].asking = call[s].asking
        /\ call'[s].helpers = call[s].helpers
    BY <1>6, <1>8, <1>11
  <2> QED
    BY <1>2, <1>14, <2>1 DEF AsksBeforeWriting, At
<1> QED
  BY <1>5, <1>11, <1>17, <1>18, <1>19, AnswerStays DEF CallIsKept, Sound

(* Some file could not be removed; what was written stays. *)
LEMMA FailsKeeps ==
  ASSUME IInv, NEW s \in ToolSessions, call[s].at = "apply", NEW new, Fails(s, new)
  PROVE  CallIsKept(s)
<1> DEFINE end == [tool |-> Tool(s), answer |-> "error", wrote |-> call[s].wrote \/ DOMAIN new # {}]
<1>1. /\ call \in [ToolSessions -> {Idle} \cup Calls] /\ outcome \in [ToolSessions -> Outcomes]
  BY DEF IInv, StateTypeOK
<1>2. Request(Req(s))
  BY AtWork
<1>3. Tool(s) \in {"none", "view", "write", "edit", "patch"}
  BY <1>2 DEF Request, Tool
<1>4. (call[s].wrote \/ DOMAIN new # {}) \in BOOLEAN
  OBVIOUS
<1>5. end \in Outcomes /\ end.answer = "error"
  BY <1>3, <1>4 DEF Outcomes, CallAnswers
<1>6. call' = [call EXCEPT ![s] = Idle] /\ outcome' = [outcome EXCEPT ![s] = end]
  BY DEF Fails
<1> HIDE DEF end
<1>7. /\ call'[s] = Idle /\ \A t \in ToolSessions \ {s} : call'[t] = call[t]
      /\ call' \in [ToolSessions -> {Idle} \cup Calls]
  BY <1>1, <1>6
<1>8. /\ outcome' \in [ToolSessions -> Outcomes]
      /\ outcome'[s] = end /\ \A t \in ToolSessions \ {s} : outcome'[t] = outcome[t]
  BY <1>1, <1>5, <1>6
<1>9. DeniedPatchChangesNothing'
  BY <1>5, <1>8 DEF IInv, DeniedPatchChangesNothing
<1>10. call'[s].at = "idle"
  BY <1>7 DEF Idle
<1>11. Sound(s)'
  BY <1>10 DEF Sound, TargetsAreKnown, StaysOnTargets, AsksBeforeWriting, At
<1> QED
  BY <1>7, <1>8, <1>9, <1>11 DEF CallIsKept

LEMMA ApplyStep == ASSUME IInv, NEW s \in ToolSessions, Apply(s) PROVE IInv'
<1>1. call[s].at = "apply" /\ UNCHANGED <<files, now, calls, outside>>
  BY DEF Apply, At
<1>2. PICK p \in call[s].left : ApplyTo(s, p)
  BY DEF Apply
<1>3. /\ call[s] \in Calls /\ call[s].left \subseteq DOMAIN call[s].plan
  BY <1>1, AtWork DEF IInv, StaysOnTargets, At
<1> DEFINE c == call[s].plan[p]
           moved == [q \in {p, c.to} |-> IF q = p THEN Gone ELSE c.new]
<1>4. c \in Changes
  BY <1>2, <1>3 DEF Calls, Plans
<1>5. c.new \in SUBSET Lines
  BY <1>4 DEF Changes
<1>6. \/ \E new : /\ p \in DOMAIN new /\ Wrote(s, p, new)
                  /\ \A q \in DOMAIN new : new[q] \in {Gone} \cup SUBSET Lines
      \/ \E new : /\ Fails(s, new)
                  /\ \A q \in DOMAIN new : new[q] \in {Gone} \cup SUBSET Lines
  <2>1. CASE Wrote(s, p, [q \in {p} |-> c.new])
    <3>1. \E new : /\ p \in DOMAIN new /\ Wrote(s, p, new)
                   /\ \A q \in DOMAIN new : new[q] \in {Gone} \cup SUBSET Lines
      <4> WITNESS [q \in {p} |-> c.new]
      <4> QED
        BY <1>5, <2>1
    <3> QED
      BY <3>1
  <2>2. CASE Wrote(s, p, [q \in {p} |-> Gone])
    <3>1. \E new : /\ p \in DOMAIN new /\ Wrote(s, p, new)
                   /\ \A q \in DOMAIN new : new[q] \in {Gone} \cup SUBSET Lines
      <4> WITNESS [q \in {p} |-> Gone]
      <4> QED
        BY <2>2
    <3> QED
      BY <3>1
  <2>3. CASE Wrote(s, p, moved)
    <3>1. \E new : /\ p \in DOMAIN new /\ Wrote(s, p, new)
                   /\ \A q \in DOMAIN new : new[q] \in {Gone} \cup SUBSET Lines
      <4> WITNESS moved
      <4> QED
        BY <1>5, <2>3
    <3> QED
      BY <3>1
  <2>4. CASE Fails(s, <<>>)
    <3>1. \E new : /\ Fails(s, new)
                   /\ \A q \in DOMAIN new : new[q] \in {Gone} \cup SUBSET Lines
      <4>1. DOMAIN <<>> = {}
        OBVIOUS
      <4> WITNESS <<>>
      <4> QED
        BY <2>4, <4>1
    <3> QED
      BY <3>1
  <2>5. CASE Fails(s, [q \in {c.to} |-> c.new])
    <3>1. \E new : /\ Fails(s, new)
                   /\ \A q \in DOMAIN new : new[q] \in {Gone} \cup SUBSET Lines
      <4> WITNESS [q \in {c.to} |-> c.new]
      <4> QED
        BY <1>5, <2>5
    <3> QED
      BY <3>1
  <2> QED
    BY <1>2, <2>1, <2>2, <2>3, <2>4, <2>5 DEF ApplyTo
<1>7. /\ CallIsKept(s)
      /\ disk' \in [Paths -> {Gone} \cup SUBSET Lines]
      /\ record' \in [Paths -> {"never", "stale", "fresh"}]
      /\ known' \in [Paths -> {"seen", "late", "blind"}]
      /\ FreshIsKnown'
      /\ \A q \in Paths : /\ known[q] # "blind" => known'[q] # "blind"
                          /\ disk'[q] # Gone => disk[q] # Gone \/ known'[q] # "blind"
  <2>1. ASSUME NEW new, p \in DOMAIN new, Wrote(s, p, new),
               \A q \in DOMAIN new : new[q] \in {Gone} \cup SUBSET Lines
        PROVE  CallIsKept(s) /\ Put(s, new)
    BY <1>1, <2>1, WroteKeeps DEF Wrote
  <2>2. ASSUME NEW new, Fails(s, new) PROVE CallIsKept(s) /\ Put(s, new)
    BY <1>1, <2>2, FailsKeeps DEF Fails
  <2>3. PICK new : /\ CallIsKept(s) /\ Put(s, new)
                   /\ \A q \in DOMAIN new : new[q] \in {Gone} \cup SUBSET Lines
    BY <1>6, <2>1, <2>2
  <2> QED
    BY <2>3, PutKeeps
<1>8. StateTypeOK'
  BY <1>1, <1>7 DEF IInv, StateTypeOK, CallIsKept
<1> QED
  BY <1>7, <1>8, StepKeeps DEF CallIsKept

-----------------------------------------------------------------------------
(* The history, and the record that the file was read. *)

LEMMA RowSeq ==
  ASSUME NEW content \in SUBSET Lines
  PROVE  First(content) \in Seq(RowsToAdd) /\ Version(content) \in Seq(RowsToAdd)
<1>1. [content |-> content, first |-> TRUE] \in RowsToAdd
  BY DEF RowsToAdd
<1>2. [content |-> content, first |-> FALSE] \in RowsToAdd
  BY DEF RowsToAdd
<1> QED
  BY <1>1, <1>2 DEF First, Version

(* The rows a change adds, whatever the session remembers of the file. *)
LEMMA RowsAreRows ==
  ASSUME NEW s \in ToolSessions, NEW p, call[s].plan[p] \in Changes, NEW recalled
  PROVE  Rows(s, p, recalled) \in Seq(RowsToAdd)
<1> DEFINE c == call[s].plan[p]
           after == IF c.kind \in {"delete", "remove"} THEN {} ELSE c.new
           start == If(OfSession(files, p, s) = {}, First(c.old))
           meanwhile == If(recalled # c.old, Version(c.old))
           old == start \o meanwhile
           before == CASE c.kind = "create" -> First({})
                       [] c.kind = "add" -> <<>>
                       [] OTHER -> old
<1>1. c.old \in SUBSET Lines /\ c.new \in SUBSET Lines
  BY DEF Changes
<1>2. {} \in SUBSET Lines
  OBVIOUS
<1>3. after \in SUBSET Lines
  BY <1>1, <1>2
<1>4. <<>> \in Seq(RowsToAdd)
  BY EmptySeq
<1>5. First({}) \in Seq(RowsToAdd)
  BY <1>2, RowSeq
<1>6. First(c.old) \in Seq(RowsToAdd) /\ Version(c.old) \in Seq(RowsToAdd)
  BY <1>1, RowSeq
<1>7. Version(after) \in Seq(RowsToAdd)
  BY <1>3, RowSeq
<1>8. start \in Seq(RowsToAdd) /\ meanwhile \in Seq(RowsToAdd)
  BY <1>4, <1>6 DEF If
<1>9. Rows(s, p, recalled) = before \o Version(after)
  BY DEF Rows
<1> HIDE DEF start, meanwhile, after
<1>10. old \in Seq(RowsToAdd)
  BY <1>8, ConcatProperties
<1> HIDE DEF old
<1>11. before \in Seq(RowsToAdd)
  BY <1>4, <1>5, <1>10
<1> HIDE DEF before
<1> QED
  BY <1>7, <1>9, <1>11, ConcatProperties

LEMMA StoreStep == ASSUME IInv, NEW s \in ToolSessions, Store(s) PROVE IInv'
<1>1. call[s].at = "store" /\ UNCHANGED <<disk, record, files, now, calls, outside, known, outcome>>
  BY DEF Store, At
<1>2. PICK p \in call[s].left : \E recalled \in Recalled(s, p) :
         call' = [call EXCEPT ![s].at = "rows", ![s].path = p, ![s].todo = Rows(s, p, recalled)]
  BY DEF Store
<1>3. PICK recalled \in Recalled(s, p) :
         call' = [call EXCEPT ![s].at = "rows", ![s].path = p, ![s].todo = Rows(s, p, recalled)]
  BY <1>2
<1> DEFINE rows == Rows(s, p, recalled)
           c == [call[s] EXCEPT !.at = "rows", !.path = p, !.todo = rows]
<1>4. call[s] \in Calls /\ Targets(Req(s)) \subseteq Paths
  BY <1>1, AtWork
<1>5. TargetsAreKnown(s) /\ StaysOnTargets(s) /\ AsksBeforeWriting(s)
  BY DEF IInv
<1>6. /\ call[s].left \subseteq DOMAIN call[s].plan /\ call[s].left \subseteq Targets(Req(s))
      /\ DOMAIN call[s].plan \subseteq Targets(Req(s)) /\ Tool(s) # "view"
  BY <1>1, <1>5 DEF StaysOnTargets, At
<1>7. call[s].plan[p] \in Changes
  BY <1>2, <1>4, <1>6 DEF Calls, Plans
<1>8. rows \in Seq(RowsToAdd)
  BY <1>7, RowsAreRows
<1>9. p \in Paths /\ p \in Targets(Req(s)) /\ known[p] # "blind"
  BY <1>1, <1>2, <1>4, <1>5, <1>6 DEF TargetsAreKnown, At
<1>10. call' = [call EXCEPT ![s] = c]
  BY <1>3
<1> HIDE DEF rows
<1>11. /\ c.at = "rows" /\ c.req = call[s].req /\ c.plan = call[s].plan /\ c.path = p
       /\ c.left = call[s].left /\ c.asking = call[s].asking /\ c.helpers = call[s].helpers
  BY <1>4 DEF Calls
<1>12. c \in Calls
  BY <1>4, <1>8, <1>9 DEF Calls, Places
<1> HIDE DEF c
<1>13. /\ call' \in [ToolSessions -> {Idle} \cup Calls] /\ call'[s] = c
       /\ \A t \in ToolSessions \ {s} : call'[t] = call[t]
  BY <1>10, <1>12, ReplaceCall
<1>14. Req(s)' = Req(s) /\ Tool(s)' = Tool(s) /\ Targets(Req(s))' = Targets(Req(s))
  BY <1>11, <1>13 DEF Req, Tool, Targets
<1>15. TargetsAreKnown(s)'
  BY <1>1, <1>5, <1>9, <1>11, <1>13, <1>14 DEF TargetsAreKnown, At
<1>16. StaysOnTargets(s)'
  BY <1>6, <1>11, <1>13, <1>14 DEF StaysOnTargets, At
<1>17. AsksBeforeWriting(s)'
  BY <1>1, <1>5, <1>11, <1>13, <1>14 DEF AsksBeforeWriting, At
<1>18. StateTypeOK'
  BY <1>1, <1>13 DEF IInv, StateTypeOK
<1>19. FreshIsKnown' /\ DeniedPatchChangesNothing'
  BY <1>1 DEF IInv, FreshIsKnown, DeniedPatchChangesNothing
<1> QED
  BY <1>1, <1>13, <1>15, <1>16, <1>17, <1>18, <1>19, StepKeeps DEF Sound

(* A row is at its path, and its version counts from zero; if there is none, all *)
(* the versions that were tried are taken.                                       *)
LEMMA InsertIsVersion ==
  ASSUME files \subseteq FileRows, NEW p \in Paths, NEW s \in ToolSessions,
         NEW wanted \in Nat, NEW second \in Nat
  PROVE  /\ Insert(files, p, s, wanted, second) \in Nat \cup {NoVersion}
         /\ Insert(files, p, s, wanted, second) = NoVersion =>
               \A i \in 1..3 : i = 1 \/ wanted # Initial =>
                  \E f \in OfSession(files, p, s) : f.version = wanted + i - 1
<1> DEFINE taken == {f.version : f \in OfSession(files, p, s)}
           again(v) == IF v = Initial THEN Stamp(second) ELSE v + 1
           tries == <<wanted, again(wanted), again(again(wanted))>>
           free == {i \in 1..3 : tries[i] \notin taken}
           first == CHOOSE i \in free : \A j \in free : i <= j
<1>1. again(wanted) \in Nat /\ again(again(wanted)) \in Nat
  BY DEF Stamp
<1>2. \A i \in 1..3 : tries[i] \in Nat
  BY <1>1
<1>3. Insert(files, p, s, wanted, second) = IF free = {} THEN NoVersion ELSE tries[first]
  BY DEF Insert
<1>4. CASE free = {}
  <2>1. \A i \in 1..3 : tries[i] \in taken
    BY <1>4
  <2>2. \A i \in 1..3 : i = 1 \/ wanted # Initial => tries[i] = wanted + i - 1
    BY DEF Initial
  <2> HIDE DEF tries
  <2>3. \A i \in 1..3 : i = 1 \/ wanted # Initial =>
            \E f \in OfSession(files, p, s) : f.version = wanted + i - 1
    BY <2>1, <2>2
  <2>4. Insert(files, p, s, wanted, second) = NoVersion
    BY <1>3, <1>4
  <2> QED
    BY <2>3, <2>4
<1>5. CASE free # {}
  <2>1. free \subseteq 1..3
    OBVIOUS
  <2> HIDE DEF free
  <2>2. \E i \in free : \A j \in free : i <= j
    <3>1. CASE 1 \in free
      BY <2>1, <3>1
    <3>2. CASE 1 \notin free /\ 2 \in free
      BY <2>1, <3>2
    <3>3. CASE 1 \notin free /\ 2 \notin free
      <4>1. \A j \in free : j = 3
        BY <2>1, <3>3
      <4>2. 3 \in free
        BY <1>5, <4>1
      <4> QED
        BY <4>1, <4>2
    <3> QED
      BY <3>1, <3>2, <3>3
  <2>3. first \in free
    BY <2>2
  <2> HIDE DEF first, tries
  <2>4. Insert(files, p, s, wanted, second) \in Nat
    BY <1>2, <1>3, <1>5, <2>1, <2>3
  <2> QED
    BY <2>4 DEF NoVersion
<1> QED
  BY <1>4, <1>5

LEMMA NextVersionsAreVersions ==
  ASSUME files \subseteq FileRows, NEW p
  PROVE  NextVersions(files, p) \subseteq Nat
<1>1. \A f \in Latest(OfPath(files, p)) : f.version \in Nat
  BY DEF Latest, OfPath, FileRows
<1>2. Initial \in Nat
  BY DEF Initial
<1> QED
  BY <1>1, <1>2 DEF NextVersions

LEMMA AddedIsRows ==
  ASSUME files \subseteq FileRows, NEW p \in Paths, NEW s \in ToolSessions,
         NEW content \in SUBSET Lines, NEW version \in Nat \cup {NoVersion}, NEW second \in Nat
  PROVE  Added(files, p, s, content, version, second) \subseteq FileRows
<1>1. CASE version = NoVersion
  BY <1>1 DEF Added
<1>2. CASE version # NoVersion
  <2>1. Row(p, s, content, version, second) \in FileRows
    BY <1>2 DEF Row, FileRows
  <2> QED
    BY <1>2, <2>1 DEF Added
<1> QED
  BY <1>1, <1>2

(* A session at its rows goes on with what it has left of them. *)
LEMMA RowsGoOn ==
  ASSUME IInv, NEW s \in ToolSessions, call[s].at = "rows",
         NEW todo \in Seq(RowsToAdd), NEW live \in BOOLEAN,
         call' = [call EXCEPT ![s] = [call[s] EXCEPT !.todo = todo, !.live = live]],
         UNCHANGED <<disk, known, outcome>>
  PROVE  CallIsKept(s)
<1> DEFINE c == [call[s] EXCEPT !.todo = todo, !.live = live]
<1>1. call[s] \in Calls
  BY AtWork
<1>2. /\ c.at = "rows" /\ c.req = call[s].req /\ c.plan = call[s].plan /\ c.path = call[s].path
      /\ c.left = call[s].left /\ c.asking = call[s].asking /\ c.helpers = call[s].helpers
  BY <1>1 DEF Calls
<1>3. c \in Calls
  BY <1>1 DEF Calls
<1>4. call' = [call EXCEPT ![s] = c]
  OBVIOUS
<1> HIDE DEF c
<1>5. /\ call' \in [ToolSessions -> {Idle} \cup Calls] /\ call'[s] = c
      /\ \A t \in ToolSessions \ {s} : call'[t] = call[t]
  BY <1>3, <1>4, ReplaceCall
<1>6. TargetsAreKnown(s) /\ StaysOnTargets(s) /\ AsksBeforeWriting(s)
  BY DEF IInv
<1>7. Req(s)' = Req(s) /\ Tool(s)' = Tool(s) /\ Targets(Req(s))' = Targets(Req(s))
  BY <1>2, <1>5 DEF Req, Tool, Targets
<1>8. TargetsAreKnown(s)'
  BY <1>2, <1>5, <1>6, <1>7 DEF TargetsAreKnown, At
<1>9. StaysOnTargets(s)'
  BY <1>2, <1>5, <1>6, <1>7 DEF StaysOnTargets, At
<1>10. AsksBeforeWriting(s)'
  BY <1>2, <1>5, <1>6, <1>7 DEF AsksBeforeWriting, At
<1> QED
  BY <1>5, <1>8, <1>9, <1>10, AnswerStays DEF CallIsKept, Sound

LEMMA AddRowStep == ASSUME IInv, NEW s \in ToolSessions, AddRow(s) PROVE IInv'
<1> DEFINE p == call[s].path
<1>1. /\ call[s].at = "rows" /\ call[s].todo # <<>> /\ now' \in now..MaxTime
      /\ UNCHANGED <<disk, record, calls, outside, known>>
  BY DEF AddRow, At
<1>2. PICK wanted \in Wanted(s, p) :
         /\ files' = Added(files, p, s, Head(call[s].todo).content,
                           Insert(files, p, s, wanted, now'), now')
         /\ \/ ReturnWith(s, "failed")
            \/ call' = [call EXCEPT ![s].todo = Tail(@)] /\ outcome' = outcome
  BY DEF AddRow
<1>3. now' \in Nat
  BY <1>1, ToolsAssumption DEF IInv, StateTypeOK
<1>4. /\ call[s] \in Calls /\ Targets(Req(s)) \subseteq Paths /\ files \subseteq FileRows
      /\ TargetsAreKnown(s)
  BY <1>1, AtWork DEF IInv, StateTypeOK
<1>5. p \in Paths
  BY <1>1, <1>4 DEF TargetsAreKnown, At
<1>6. call[s].todo \in Seq(RowsToAdd) /\ call[s].live \in BOOLEAN
  BY <1>4 DEF Calls
<1>7. Head(call[s].todo) \in RowsToAdd /\ Tail(call[s].todo) \in Seq(RowsToAdd)
  BY <1>1, <1>6, HeadTailProperties
<1>8. Head(call[s].todo).content \in SUBSET Lines
  BY <1>7 DEF RowsToAdd
<1>9. wanted \in Nat
  <2>1. Initial \in Nat
    BY DEF Initial
  <2>2. NextVersions(files, p) \subseteq Nat
    BY <1>4, NextVersionsAreVersions
  <2> QED
    BY <1>2, <2>1, <2>2 DEF Wanted
<1> HIDE DEF p
<1>10. Insert(files, p, s, wanted, now') \in Nat \cup {NoVersion}
  BY <1>3, <1>4, <1>5, <1>9, InsertIsVersion
<1>11. files' \subseteq FileRows
  BY <1>2, <1>3, <1>4, <1>5, <1>8, <1>10, AddedIsRows
<1>12. ASSUME call' = [call EXCEPT ![s].todo = Tail(@)], outcome' = outcome
       PROVE  CallIsKept(s)
  <2>1. call[s] = [call[s] EXCEPT !.live = call[s].live]
    BY <1>4 DEF Calls
  <2>2. call' = [call EXCEPT ![s] =
                   [call[s] EXCEPT !.todo = Tail(call[s].todo), !.live = call[s].live]]
    BY <1>12, <2>1
  <2>3. UNCHANGED <<disk, known, outcome>>
    BY <1>1, <1>12
  <2> QED
    BY <1>1, <1>6, <1>7, <2>2, <2>3, RowsGoOn
<1>13. CallIsKept(s)
  BY <1>1, <1>2, <1>12, ReturnKeeps DEF CallAnswers
<1>14. StateTypeOK'
  BY <1>1, <1>3, <1>11, <1>13 DEF IInv, StateTypeOK, CallIsKept
<1>15. FreshIsKnown'
  BY <1>1 DEF IInv, FreshIsKnown
<1> QED
  BY <1>1, <1>13, <1>14, <1>15, StepKeeps DEF CallIsKept

(* The rows that are left when one could not be added. *)
LEMMA SkippedAreRows ==
  ASSUME NEW s, call[s].todo \in Seq(RowsToAdd), call[s].todo # <<>>
  PROVE  Skipped(s) \in Seq(RowsToAdd)
<1> DEFINE rows == call[s].todo
<1>1. Tail(rows) \in Seq(RowsToAdd)
  BY HeadTailProperties
<1>2. rows[Len(rows)] \in RowsToAdd
  <2>1. Len(rows) \in Nat \ {0} /\ rows \in [1..Len(rows) -> RowsToAdd]
    BY LenProperties, EmptySeq
  <2> QED
    BY <2>1
<1>3. \A r \in RowsToAdd : <<r>> \in Seq(RowsToAdd)
  OBVIOUS
<1>4. Skipped(s) \in {<<rows[Len(rows)]>>, Tail(rows)}
  BY DEF Skipped
<1> HIDE DEF rows
<1>5. <<rows[Len(rows)]>> \in Seq(RowsToAdd)
  BY <1>2, <1>3
<1> QED
  BY <1>1, <1>4, <1>5

LEMMA DatabaseFailsStep == ASSUME IInv, NEW s \in ToolSessions, DatabaseFails(s) PROVE IInv'
<1>1. /\ call[s].at = "rows" /\ call[s].todo # <<>> /\ outside' = outside + 1
      /\ UNCHANGED <<disk, record, files, now, calls, known>>
  BY DEF DatabaseFails, At
<1>2. CallIsKept(s)
  <2>1. CASE ReturnWith(s, "failed")
    BY <1>1, <2>1, ReturnKeeps DEF CallAnswers
  <2>2. ASSUME NEW rest \in {<<>>, Skipped(s)}, outcome' = outcome,
               call' = [call EXCEPT ![s].live = FALSE, ![s].todo = rest]
        PROVE  CallIsKept(s)
    <3>1. call[s] \in Calls
      BY <1>1, AtWork
    <3>2. rest \in Seq(RowsToAdd)
      <4>1. <<>> \in Seq(RowsToAdd) /\ call[s].todo \in Seq(RowsToAdd)
        BY <3>1, EmptySeq DEF Calls
      <4> QED
        BY <1>1, <4>1, SkippedAreRows
    <3>3. call' = [call EXCEPT ![s] = [call[s] EXCEPT !.todo = rest, !.live = FALSE]]
      <4>1. [call[s] EXCEPT !.live = FALSE, !.todo = rest] = [call[s] EXCEPT !.todo = rest, !.live = FALSE]
        BY <3>1 DEF Calls
      <4> QED
        BY <2>2, <4>1
    <3> QED
      BY <1>1, <2>2, <3>2, <3>3, RowsGoOn
  <2> QED
    BY <2>1, <2>2 DEF DatabaseFails
<1>3. StateTypeOK'
  BY <1>1, <1>2 DEF IInv, StateTypeOK, CallIsKept
<1>4. FreshIsKnown'
  BY <1>1 DEF IInv, FreshIsKnown
<1> QED
  BY <1>1, <1>2, <1>3, <1>4, StepKeeps DEF CallIsKept

(* The next file's history comes. *)
LEMMA NextFileKeeps ==
  ASSUME IInv, NEW s \in ToolSessions, call[s].at = "rows", call[s].left # {call[s].path},
         call' = [call EXCEPT ![s].at = "store", ![s].left = @ \ {call[s].path}],
         UNCHANGED <<disk, known, outcome>>
  PROVE  CallIsKept(s)
<1> DEFINE c == [call[s] EXCEPT !.at = "store", !.left = @ \ {call[s].path}]
<1>1. call[s] \in Calls
  BY AtWork
<1>2. TargetsAreKnown(s) /\ StaysOnTargets(s) /\ AsksBeforeWriting(s)
  BY DEF IInv
<1>3. /\ c.at = "store" /\ c.req = call[s].req /\ c.plan = call[s].plan
      /\ c.left = call[s].left \ {call[s].path} /\ c.asking = call[s].asking
      /\ c.helpers = call[s].helpers
  BY <1>1 DEF Calls
<1>4. c \in Calls
  BY <1>1 DEF Calls, Places
<1>5. call' = [call EXCEPT ![s] = c]
  OBVIOUS
<1> HIDE DEF c
<1>6. /\ call' \in [ToolSessions -> {Idle} \cup Calls] /\ call'[s] = c
      /\ \A t \in ToolSessions \ {s} : call'[t] = call[t]
  BY <1>4, <1>5, ReplaceCall
<1>7. Req(s)' = Req(s) /\ Tool(s)' = Tool(s) /\ Targets(Req(s))' = Targets(Req(s))
  BY <1>3, <1>6 DEF Req, Tool, Targets
<1>8. Tool(s) # "view" /\ call[s].left \subseteq DOMAIN call[s].plan
  BY <1>2 DEF StaysOnTargets, At
<1>9. TargetsAreKnown(s)'
  BY <1>2, <1>3, <1>6, <1>7 DEF TargetsAreKnown, At
<1>10. StaysOnTargets(s)'
  BY <1>2, <1>3, <1>6, <1>7, <1>8 DEF StaysOnTargets, At
<1>11. AsksBeforeWriting(s)'
  BY <1>2, <1>3, <1>6, <1>7 DEF AsksBeforeWriting, At
<1> QED
  BY <1>6, <1>9, <1>10, <1>11, AnswerStays DEF CallIsKept, Sound

LEMMA RecordStep == ASSUME IInv, NEW s \in ToolSessions, Record(s) PROVE IInv'
<1> DEFINE p == call[s].path
<1>1. /\ call[s].at = "rows" /\ record' = [record EXCEPT ![p] = "fresh"]
      /\ UNCHANGED <<disk, files, now, calls, outside, known>>
  BY DEF Record, At
<1>2. CallIsKept(s)
  <2>1. CASE /\ call[s].left # {p}
             /\ call' = [call EXCEPT ![s].at = "store", ![s].left = @ \ {p}]
             /\ UNCHANGED outcome
    BY <1>1, <2>1, NextFileKeeps
  <2>2. CASE Len(call[s].helpers) > 1 /\ NextHelper(s) /\ UNCHANGED outcome
    <3>1. /\ call' \in [ToolSessions -> {Idle} \cup Calls]
          /\ \A t \in ToolSessions \ {s} : call'[t] = call[t]
          /\ Sound(s)'
      BY <1>1, <2>2, NextHelperKeeps
    <3> QED
      BY <2>2, <3>1, AnswerStays DEF CallIsKept
  <2>3. CASE ReturnWith(s, "ok")
    BY <1>1, <2>3, ReturnKeeps DEF CallAnswers
  <2> QED
    BY <2>1, <2>2, <2>3 DEF Record
<1>3. record' \in [Paths -> {"never", "stale", "fresh"}]
  BY <1>1 DEF IInv, StateTypeOK
<1>4. StateTypeOK'
  BY <1>1, <1>2, <1>3 DEF IInv, StateTypeOK, CallIsKept
<1>5. known[p] # "blind"
  BY <1>1 DEF IInv, TargetsAreKnown, At
<1>6. \A q \in Paths : record'[q] = "fresh" => q = p \/ record[q] = "fresh"
  BY <1>1 DEF IInv, StateTypeOK
<1>7. FreshIsKnown'
  BY <1>1, <1>5, <1>6 DEF IInv, FreshIsKnown
<1> QED
  BY <1>1, <1>2, <1>4, <1>7, StepKeeps DEF CallIsKept

-----------------------------------------------------------------------------
(* What comes from elsewhere is known to be late where a call is at work. *)
LEMMA OutsideStep == ASSUME IInv, NEW p \in Paths, Outside(p) PROVE IInv'
<1> DEFINE said == IF Working(p) THEN "late" ELSE "blind"
<1>1. /\ outside' = outside + 1 /\ known' = [known EXCEPT ![p] = said]
      /\ record' = [q \in Paths |-> IF q \in {p} /\ record[q] # "never" THEN "stale" ELSE record[q]]
      /\ UNCHANGED <<files, now, call, calls, outcome>>
  BY DEF Outside, Touched
<1>2. PICK c \in {Gone} \cup SUBSET Lines : disk' = [disk EXCEPT ![p] = c]
  BY DEF Outside
<1>3. /\ disk \in [Paths -> {Gone} \cup SUBSET Lines]
      /\ record \in [Paths -> {"never", "stale", "fresh"}]
      /\ known \in [Paths -> {"seen", "late", "blind"}]
  BY DEF IInv, StateTypeOK
<1>4. said \in {"late", "blind"} /\ (Working(p) => said = "late")
  OBVIOUS
<1> HIDE DEF said
<1>5. disk' \in [Paths -> {Gone} \cup SUBSET Lines]
  BY <1>2, <1>3
<1>6. record' \in [Paths -> {"never", "stale", "fresh"}]
  BY <1>1, <1>3
<1>7. known' \in [Paths -> {"seen", "late", "blind"}]
  BY <1>1, <1>3, <1>4
<1>8. \A q \in Paths \ {p} : known'[q] = known[q] /\ disk'[q] = disk[q] /\ record'[q] = record[q]
  BY <1>1, <1>2, <1>3
<1>9. known'[p] = said /\ record'[p] # "fresh"
  BY <1>1, <1>3
<1>10. StateTypeOK'
  BY <1>1, <1>5, <1>6, <1>7 DEF IInv, StateTypeOK
<1>11. FreshIsKnown'
  BY <1>8, <1>9 DEF IInv, FreshIsKnown
<1>12. DeniedPatchChangesNothing'
  BY <1>1 DEF IInv, DeniedPatchChangesNothing
<1>13. ASSUME NEW s \in ToolSessions PROVE Sound(s)'
  <2>1. ASSUME call[s].at \notin {"idle", "stat"}, NEW q \in Targets(Req(s))
        PROVE  /\ known[q] # "blind" => known'[q] # "blind"
               /\ disk'[q] # Gone => disk[q] # Gone \/ known'[q] # "blind"
    <3>1. q \in Paths
      BY <2>1, AtWork
    <3>2. q = p => known'[q] = "late"
      BY <1>4, <1>9, <2>1 DEF Working
    <3> QED
      BY <1>8, <3>1, <3>2
  <2>2. call'[s] = call[s]
    BY <1>1
  <2> QED
    BY <2>1, <2>2, OthersStay
<1> QED
  BY <1>10, <1>11, <1>12, <1>13 DEF IInv, Sound

LEMMA StutterKeeps == ASSUME IInv, UNCHANGED toolsVars PROVE IInv'
<1>1. UNCHANGED <<disk, record, files, now, call, calls, outside, known, outcome>>
  BY DEF toolsVars
<1>2. StateTypeOK' /\ FreshIsKnown' /\ DeniedPatchChangesNothing'
  BY <1>1 DEF IInv, StateTypeOK, FreshIsKnown, DeniedPatchChangesNothing
<1>3. ASSUME NEW s \in ToolSessions PROVE Sound(s)'
  BY <1>1, OthersStay
<1> QED
  BY <1>2, <1>3 DEF IInv, Sound

LEMMA StepInvariant == IInv /\ [ToolsNext]_toolsVars => IInv'
<1> SUFFICES ASSUME IInv, [ToolsNext]_toolsVars PROVE IInv'
  OBVIOUS
<1>1. ASSUME NEW s \in ToolSessions, NEW req \in ToolRequests[s], StartCall(s, req) PROVE IInv'
  BY <1>1, StartStep
<1>2. ASSUME NEW s \in ToolSessions, Stat(s) \/ Read(s) PROVE IInv'
  BY <1>2, StatStep, ReadStep
<1>3. ASSUME NEW s \in ToolSessions, Approve(s) \/ Deny(s) PROVE IInv'
  BY <1>3, ApproveStep, DenyStep
<1>4. ASSUME NEW s \in ToolSessions, Apply(s) \/ Store(s) PROVE IInv'
  BY <1>4, ApplyStep, StoreStep
<1>5. ASSUME NEW s \in ToolSessions, AddRow(s) \/ DatabaseFails(s) \/ Record(s)
       PROVE  IInv'
  BY <1>5, AddRowStep, DatabaseFailsStep, RecordStep
<1>6. ASSUME NEW p \in Paths, Outside(p) PROVE IInv'
  BY <1>6, OutsideStep
<1>7. CASE Rest \/ UNCHANGED toolsVars
  BY <1>7, StutterKeeps DEF Rest
<1> QED
  BY <1>1, <1>2, <1>3, <1>4, <1>5, <1>6, <1>7 DEF ToolsNext, Moves

-----------------------------------------------------------------------------
(* The history.  What a change is to leave there is stored, or is among the    *)
(* rows still to be added, or no number was free for it.                       *)

OfFileTool(s) == Tool(s) # "view"

\* A created file was empty, and only an edit creates one so; a removed file ends empty.
EditOf(tool, c) ==
    /\ c.kind = "create" => c.old = {} /\ tool # "patch"
    /\ c.kind = "remove" => c.new = {}

PlansAreEdits(s) ==
    OfFileTool(s) /\ call[s].at \in {"ask", "apply", "store", "rows"} =>
        \A p \in DOMAIN call[s].plan : EditOf(Tool(s), call[s].plan[p])

Awaits(s, content) == \E i \in DOMAIN call[s].todo : call[s].todo[i].content = content
Kept(s, p, content) == content \in Stored(s, p) \/ Awaits(s, content)

\* A patch adds a first row only to a history that is empty, where its number is free.
FirstsAreFirst(s, p) ==
    \A i \in DOMAIN call[s].todo :
        call[s].todo[i].first => i = 1 /\ OfSession(files, p, s) = {}

RowsAreKept(s) ==
    At(s, "rows") /\ OfFileTool(s) /\ call[s].live =>
        LET p == call[s].path
            c == call[s].plan[p]
        IN /\ p \in DOMAIN call[s].plan
           /\ \/ /\ c.kind = "add" \/ Kept(s, p, c.old)
                 /\ c.kind = "delete" \/ Kept(s, p, c.new)
              \/ Overtaken(s, p)
           /\ Tool(s) = "patch" => FirstsAreFirst(s, p)

HistoryInv == \A s \in ToolSessions : PlansAreEdits(s) /\ RowsAreKept(s)

(* Rows stay, and so does what they tell. *)
LEMMA RowsStay ==
  \A s, p : files \subseteq files' =>
     Stored(s, p) \subseteq Stored(s, p)' /\ (Overtaken(s, p) => Overtaken(s, p)')
<1> SUFFICES ASSUME NEW s, NEW p, files \subseteq files'
             PROVE  Stored(s, p) \subseteq Stored(s, p)' /\ (Overtaken(s, p) => Overtaken(s, p)')
  OBVIOUS
<1>1. /\ OfPath(files, p) \subseteq OfPath(files, p)'
      /\ OfSession(files, p, s) \subseteq OfSession(files, p, s)'
  BY DEF OfSession, OfPath
<1>2. Stored(s, p) \subseteq Stored(s, p)'
  BY <1>1 DEF Stored
<1>3. ASSUME Overtaken(s, p) PROVE Overtaken(s, p)'
  <2>1. PICK f \in OfPath(files, p) : \A i \in 1..3 : \E g \in OfSession(files, p, s) :
            g.version = f.version + i /\ g.at <= f.at
    BY <1>3 DEF Overtaken
  <2>2. \A i \in 1..3 : \E g \in OfSession(files, p, s)' :
            g.version = f.version + i /\ g.at <= f.at
    BY <1>1, <2>1
  <2>3. f \in OfPath(files, p)'
    BY <1>1
  <2> QED
    BY <2>2, <2>3 DEF Overtaken
<1> QED
  BY <1>2, <1>3

\* What is added to the history is of the session that moves.
OnlyRowsOf(s) == files \subseteq files' /\ \A f \in files' \ files : f.session = s

LEMMA NoRowsOf == files' = files => \A s : OnlyRowsOf(s)
BY DEF OnlyRowsOf

(* A call that does not move keeps what it has, whatever others add. *)
LEMMA RestOfHistory ==
  \A s : /\ call'[s] = call[s] /\ files \subseteq files' /\ \A f \in files' \ files : f.session # s
         /\ PlansAreEdits(s) /\ RowsAreKept(s)
         => PlansAreEdits(s)' /\ RowsAreKept(s)'
<1> SUFFICES ASSUME NEW s, call'[s] = call[s], files \subseteq files',
                    \A f \in files' \ files : f.session # s,
                    PlansAreEdits(s), RowsAreKept(s)
             PROVE  PlansAreEdits(s)' /\ RowsAreKept(s)'
  OBVIOUS
<1>1. /\ Tool(s)' = Tool(s) /\ OfFileTool(s)' = OfFileTool(s) /\ At(s, "rows")' = At(s, "rows")
      /\ \A content : Awaits(s, content)' = Awaits(s, content)
  BY DEF Tool, Req, OfFileTool, At, Awaits
<1>2. PlansAreEdits(s)'
  BY <1>1 DEF PlansAreEdits
<1>3. \A p, content : Kept(s, p, content) => Kept(s, p, content)'
  BY <1>1, RowsStay DEF Kept
<1>4. \A p : OfSession(files, p, s)' = OfSession(files, p, s)
  BY DEF OfSession, OfPath
<1>5. \A p : FirstsAreFirst(s, p)' = FirstsAreFirst(s, p)
  BY <1>4 DEF FirstsAreFirst
<1>6. RowsAreKept(s)'
  BY <1>1, <1>3, <1>5, RowsStay DEF RowsAreKept
<1> QED
  BY <1>2, <1>6

(* A step of one session leaves the others' history to them. *)
LEMMA HistoryStep ==
  ASSUME HistoryInv, NEW s \in ToolSessions, OnlyRowsOf(s),
         \A t \in ToolSessions \ {s} : call'[t] = call[t],
         PlansAreEdits(s)', RowsAreKept(s)'
  PROVE  HistoryInv'
<1>1. ASSUME NEW t \in ToolSessions \ {s} PROVE PlansAreEdits(t)' /\ RowsAreKept(t)'
  <2>1. files \subseteq files' /\ \A f \in files' \ files : f.session # t
    BY DEF OnlyRowsOf
  <2>2. PlansAreEdits(t) /\ RowsAreKept(t) /\ call'[t] = call[t]
    BY DEF HistoryInv
  <2> QED
    BY <2>1, <2>2, RestOfHistory
<1> QED
  BY <1>1 DEF HistoryInv

(* At the beginning of a call, or without one, there is nothing to keep. *)
LEMMA NothingToKeep ==
  \A s : call'[s].at \in {"idle", "stat", "read"} => PlansAreEdits(s)' /\ RowsAreKept(s)'
BY DEF PlansAreEdits, RowsAreKept, At

(* Before the rows only the plan counts. *)
LEMMA PlanIsKept ==
  \A s : /\ PlansAreEdits(s) /\ call[s].at \in {"ask", "apply", "store", "rows"}
         /\ call'[s].at \in {"ask", "apply", "store"}
         /\ call'[s].plan = call[s].plan /\ call'[s].req = call[s].req
         => PlansAreEdits(s)' /\ RowsAreKept(s)'
BY DEF PlansAreEdits, RowsAreKept, At, OfFileTool, Tool, Req

(* What a step makes of a session's record, field by field. *)
LEMMA MovedTo ==
  ASSUME IInv, NEW s \in ToolSessions, NEW c, call' = [call EXCEPT ![s] = c]
  PROVE  call'[s] = c /\ \A t \in ToolSessions \ {s} : call'[t] = call[t]
BY DEF IInv, StateTypeOK

LEMMA ReturnHistory ==
  ASSUME IInv, HistoryInv, NEW s \in ToolSessions, NEW a, ReturnWith(s, a), OnlyRowsOf(s)
  PROVE  HistoryInv'
<1>1. call'[s] = Idle /\ \A t \in ToolSessions \ {s} : call'[t] = call[t]
  BY MovedTo DEF ReturnWith
<1>2. call'[s].at = "idle"
  BY <1>1 DEF Idle
<1> QED
  BY <1>1, <1>2, NothingToKeep, HistoryStep

LEMMA NextHelperHistory ==
  ASSUME IInv, HistoryInv, NEW s \in ToolSessions, call[s] \in Calls, NextHelper(s), files' = files
  PROVE  HistoryInv'
<1> DEFINE c == [call[s] EXCEPT !.at = "stat", !.helpers = Tail(@)]
<1>1. call' = [call EXCEPT ![s] = c]
  BY DEF NextHelper
<1>2. c.at = "stat"
  BY DEF Calls
<1> HIDE DEF c
<1>3. call'[s].at = "stat" /\ \A t \in ToolSessions \ {s} : call'[t] = call[t]
  BY <1>1, <1>2, MovedTo
<1> QED
  BY <1>3, NothingToKeep, NoRowsOf, HistoryStep

LEMMA ErrorHistory ==
  ASSUME IInv, HistoryInv, NEW s \in ToolSessions, call[s] \in Calls, ErrorResponse(s), files' = files
  PROVE  HistoryInv'
BY NextHelperHistory, NoRowsOf, ReturnHistory DEF ErrorResponse

LEMMA StartHistory ==
  ASSUME IInv, HistoryInv, NEW s \in ToolSessions, NEW req \in ToolRequests[s], StartCall(s, req)
  PROVE  HistoryInv'
<1> DEFINE c == [at |-> "stat", req |-> req, plan |-> <<>>, asking |-> {}, left |-> {},
                 path |-> None, todo |-> <<>>, live |-> TRUE, wrote |-> FALSE,
                 helpers |-> IF req.tool = "edit" THEN Helpers(req) ELSE <<"one">>]
<1>1. call' = [call EXCEPT ![s] = c] /\ files' = files
  BY DEF StartCall
<1>2. c.at = "stat"
  OBVIOUS
<1> HIDE DEF c
<1>3. call'[s].at = "stat" /\ \A t \in ToolSessions \ {s} : call'[t] = call[t]
  BY <1>1, <1>2, MovedTo
<1> QED
  BY <1>1, <1>3, NothingToKeep, NoRowsOf, HistoryStep

(* What is asked for is an edit of these tools, or no business of theirs. *)
LEMMA AskHistory ==
  ASSUME IInv, HistoryInv, NEW s \in ToolSessions, call[s] \in Calls, NEW plan, Ask(s, plan),
         files' = files,
         OfFileTool(s) => \A p \in DOMAIN plan : EditOf(Tool(s), plan[p])
  PROVE  HistoryInv'
<1> DEFINE c == [call[s] EXCEPT !.at = "ask", !.plan = plan, !.asking = DOMAIN plan,
                                !.left = DOMAIN plan]
<1>1. call' = [call EXCEPT ![s] = c]
  BY DEF Ask
<1>2. c.at = "ask" /\ c.plan = plan /\ c.req = call[s].req
  BY DEF Calls
<1> HIDE DEF c
<1>3. call'[s] = c /\ \A t \in ToolSessions \ {s} : call'[t] = call[t]
  BY <1>1, MovedTo
<1>4. OfFileTool(s)' = OfFileTool(s) /\ Tool(s)' = Tool(s)
  BY <1>2, <1>3 DEF OfFileTool, Tool, Req
<1>5. PlansAreEdits(s)'
  BY <1>2, <1>3, <1>4 DEF PlansAreEdits
<1>6. RowsAreKept(s)'
  BY <1>2, <1>3 DEF RowsAreKept, At
<1> QED
  BY <1>3, <1>5, <1>6, NoRowsOf, HistoryStep

(* A plan with one change, which is an edit. *)
LEMMA OneEdit ==
  ASSUME IInv, HistoryInv, NEW s \in ToolSessions, call[s] \in Calls, files' = files,
         NEW p, NEW kind \in {"create", "delete", "write"}, NEW old, NEW new, NEW to,
         kind = "create" => old = {} /\ Tool(s) # "patch", Ask(s, [q \in {p} |-> Change(kind, old, new, to)])
  PROVE  HistoryInv'
<1> DEFINE plan == [q \in {p} |-> Change(kind, old, new, to)]
<1>1. \A q \in DOMAIN plan : plan[q].kind = kind /\ plan[q].old = old
  BY DEF Change
<1>2. Ask(s, plan)
  OBVIOUS
<1> HIDE DEF plan
<1>3. \A q \in DOMAIN plan : EditOf(Tool(s), plan[q])
  BY <1>1 DEF EditOf
<1> QED
  BY <1>2, <1>3, AskHistory

LEMMA StatHistory ==
  ASSUME IInv, HistoryInv, NEW s \in ToolSessions, Stat(s)
  PROVE  HistoryInv'
<1>1. call[s] \in Calls /\ files' = files
  BY AtWork DEF Stat, At
<1>2. ASSUME Step(s, "read") PROVE HistoryInv'
  <2> DEFINE c == [call[s] EXCEPT !.at = "read"]
  <2>1. call' = [call EXCEPT ![s] = c]
    BY <1>2 DEF Step
  <2>2. c.at = "read"
    BY <1>1 DEF Calls
  <2> HIDE DEF c
  <2>3. call'[s].at = "read" /\ \A t \in ToolSessions \ {s} : call'[t] = call[t]
    BY <2>1, <2>2, MovedTo
  <2> QED
    BY <1>1, <2>3, NothingToKeep, NoRowsOf, HistoryStep
<1>3. ASSUME FindsNone(s),
             LET p == Req(s).path IN Ask(s, [q \in {p} |-> Change("write", {}, Req(s).content, p)])
      PROVE  HistoryInv'
  <2> DEFINE p == Req(s).path
  <2>1. Ask(s, [q \in {p} |-> Change("write", {}, Req(s).content, p)])
    BY <1>3
  <2> HIDE DEF p
  <2> QED
    BY <1>1, <2>1, OneEdit
<1> QED
  BY <1>1, <1>2, <1>3, ErrorHistory DEF Stat

LEMMA ReadHistory ==
  ASSUME IInv, HistoryInv, NEW s \in ToolSessions, Read(s)
  PROVE  HistoryInv'
<1>1. call[s] \in Calls /\ files' = files
  BY AtWork DEF Read, At
<1>2. ASSUME Tool(s) = "view", ReadView(s) PROVE HistoryInv'
  <2> DEFINE p == Req(s).path
             c == [call[s] EXCEPT !.at = "rows", !.path = p, !.left = {p}]
  <2>1. ASSUME call' = [call EXCEPT ![s] = c] PROVE HistoryInv'
    <3>1. c.req = call[s].req
      BY <1>1 DEF Calls
    <3> HIDE DEF c
    <3>2. call'[s] = c /\ \A t \in ToolSessions \ {s} : call'[t] = call[t]
      BY <2>1, MovedTo
    <3>3. Tool(s)' = "view"
      BY <1>2, <3>1, <3>2 DEF Tool, Req
    <3>4. PlansAreEdits(s)' /\ RowsAreKept(s)'
      BY <3>3 DEF PlansAreEdits, RowsAreKept, OfFileTool
    <3> QED
      BY <1>1, <3>2, <3>4, NoRowsOf, HistoryStep
  <2>2. call' = [call EXCEPT ![s] = c] \/ ReturnWith(s, "failed")
    BY <1>2 DEF ReadView
  <2> QED
    BY <1>1, <2>1, <2>2, NoRowsOf, ReturnHistory
<1>3. ASSUME ReadWrite(s) PROVE HistoryInv'
  <2> DEFINE p == Req(s).path
  <2>1. ErrorResponse(s) \/ Ask(s, [q \in {p} |-> Change("write", Text(p), Req(s).content, p)])
    BY <1>3 DEF ReadWrite
  <2> HIDE DEF p
  <2> QED
    BY <1>1, <2>1, ErrorHistory, OneEdit
<1>4. ASSUME Tool(s) = "edit", ReadEdit(s) PROVE HistoryInv'
  <2> DEFINE p == Req(s).path
             new == Replaced(Text(p), Req(s).old, Req(s).new)
  <2>1. \/ ErrorResponse(s) \/ ReturnWith(s, "failed")
        \/ Ask(s, [q \in {p} |-> Change("create", {}, Line(Req(s).new), p)])
        \/ Ask(s, [q \in {p} |-> Change("delete", Text(p), new, p)])
        \/ Ask(s, [q \in {p} |-> Change("write", Text(p), new, p)])
    BY <1>4 DEF ReadEdit
  <2> HIDE DEF p, new
  <2>2. CASE ErrorResponse(s) \/ ReturnWith(s, "failed")
    BY <1>1, <2>2, ErrorHistory, NoRowsOf, ReturnHistory
  <2>3. CASE Ask(s, [q \in {p} |-> Change("create", {}, Line(Req(s).new), p)])
    BY <1>1, <1>4, <2>3, OneEdit
  <2>4. CASE Ask(s, [q \in {p} |-> Change("delete", Text(p), new, p)])
    BY <1>1, <2>4, OneEdit
  <2>5. CASE Ask(s, [q \in {p} |-> Change("write", Text(p), new, p)])
    BY <1>1, <2>5, OneEdit
  <2> QED
    BY <2>1, <2>2, <2>3, <2>4, <2>5
<1>5. ASSUME Tool(s) = "patch", ReadPatch(s) PROVE HistoryInv'
  <2> DEFINE changes == Req(s).changes
             after(p) == CASE changes[p].kind = "remove" -> {}
                           [] changes[p].kind = "add" -> Line(changes[p].ins)
                           [] OTHER -> Replaced(Text(p), changes[p].del, changes[p].ins)
             before(p) == IF changes[p].kind = "add" THEN {} ELSE Text(p)
             plan == [p \in DOMAIN changes |->
                        Change(changes[p].kind, before(p), after(p), changes[p].to)]
  <2>1. ErrorResponse(s) \/ ReturnWith(s, "failed") \/ Ask(s, plan)
    BY <1>5 DEF ReadPatch
  <2>2. Request(Req(s))
    BY <1>1, AtWork DEF Read, At
  <2>3. ASSUME NEW p \in DOMAIN plan PROVE EditOf(Tool(s), plan[p])
    <3>1. p \in DOMAIN changes /\ plan[p] = Change(changes[p].kind, before(p), after(p), changes[p].to)
      OBVIOUS
    <3>2. changes[p].kind # "create"
      BY <1>5, <2>2, <3>1 DEF Request, Tool
    <3>3. changes[p].kind = "remove" => after(p) = {}
      OBVIOUS
    <3> HIDE DEF before, after
    <3>4. plan[p].kind = changes[p].kind /\ plan[p].new = after(p)
      BY <3>1 DEF Change
    <3> QED
      BY <3>2, <3>3, <3>4 DEF EditOf
  <2> HIDE DEF plan
  <2> QED
    BY <1>1, <2>1, <2>3, ErrorHistory, NoRowsOf, ReturnHistory, AskHistory
<1> QED
  BY <1>2, <1>3, <1>4, <1>5 DEF Read

LEMMA ApproveHistory ==
  ASSUME IInv, HistoryInv, NEW s \in ToolSessions, Approve(s)
  PROVE  HistoryInv'
<1>1. call[s] \in Calls /\ call[s].at = "ask" /\ files' = files
  BY AtWork DEF Approve, At
<1>2. PICK p \in call[s].asking :
         call' = [call EXCEPT ![s].asking = @ \ {p},
                              ![s].at = IF call[s].asking = {p} THEN "apply" ELSE "ask"]
  BY DEF Approve
<1> DEFINE place == IF call[s].asking = {p} THEN "apply" ELSE "ask"
           c == [call[s] EXCEPT !.asking = @ \ {p}, !.at = place]
<1>3. call' = [call EXCEPT ![s] = c]
  BY <1>2
<1>4. c.at \in {"ask", "apply"} /\ c.plan = call[s].plan /\ c.req = call[s].req
  BY <1>1 DEF Calls
<1> HIDE DEF c
<1>5. call'[s] = c /\ \A t \in ToolSessions \ {s} : call'[t] = call[t]
  BY <1>3, MovedTo
<1>6. PlansAreEdits(s)' /\ RowsAreKept(s)'
  BY <1>1, <1>4, <1>5, PlanIsKept DEF HistoryInv
<1> QED
  BY <1>1, <1>5, <1>6, NoRowsOf, HistoryStep

LEMMA ApplyHistory ==
  ASSUME IInv, HistoryInv, NEW s \in ToolSessions, Apply(s)
  PROVE  HistoryInv'
<1>1. call[s] \in Calls /\ call[s].at = "apply" /\ files' = files
  BY AtWork DEF Apply, At
<1>2. PICK p \in call[s].left : ApplyTo(s, p)
  BY DEF Apply
<1>3. (\E new : Wrote(s, p, new)) \/ (\E new : Fails(s, new))
  BY <1>2 DEF ApplyTo
<1>4. ASSUME NEW new, Wrote(s, p, new) PROVE HistoryInv'
  <2> DEFINE place == IF call[s].left = {p} THEN "store" ELSE call[s].at
             rest == IF call[s].left = {p} THEN DOMAIN call[s].plan ELSE call[s].left \ {p}
             c == [call[s] EXCEPT !.wrote = TRUE, !.at = place, !.left = rest]
  <2>1. call' = [call EXCEPT ![s] = c]
    BY <1>4 DEF Wrote
  <2>2. c.at \in {"store", "apply"} /\ c.plan = call[s].plan /\ c.req = call[s].req
    BY <1>1 DEF Calls
  <2> HIDE DEF c
  <2>3. call'[s] = c /\ \A t \in ToolSessions \ {s} : call'[t] = call[t]
    BY <2>1, MovedTo
  <2>4. PlansAreEdits(s)' /\ RowsAreKept(s)'
    BY <1>1, <2>2, <2>3, PlanIsKept DEF HistoryInv
  <2> QED
    BY <1>1, <2>3, <2>4, NoRowsOf, HistoryStep
<1>5. ASSUME NEW new, Fails(s, new) PROVE HistoryInv'
  <2>1. call'[s] = Idle /\ \A t \in ToolSessions \ {s} : call'[t] = call[t]
    BY <1>5, MovedTo DEF Fails
  <2>2. call'[s].at = "idle"
    BY <2>1 DEF Idle
  <2> QED
    BY <1>1, <2>1, <2>2, NothingToKeep, NoRowsOf, HistoryStep
<1> QED
  BY <1>3, <1>4, <1>5

Has(rows, content) == \E i \in DOMAIN rows : rows[i].content = content

LEMMA HasEither ==
  \A a, b, content : a \in Seq(RowsToAdd) /\ b \in Seq(RowsToAdd) =>
     (Has(a, content) \/ Has(b, content) => Has(a \o b, content))
<1> SUFFICES ASSUME NEW a \in Seq(RowsToAdd), NEW b \in Seq(RowsToAdd), NEW content,
                    Has(a, content) \/ Has(b, content)
             PROVE  Has(a \o b, content)
  OBVIOUS
<1>1. /\ Len(a \o b) = Len(a) + Len(b)
      /\ \A i \in 1..Len(a) + Len(b) :
            (a \o b)[i] = IF i <= Len(a) THEN a[i] ELSE b[i - Len(a)]
  BY ConcatProperties
<1>2. /\ DOMAIN a = 1..Len(a) /\ DOMAIN b = 1..Len(b)
      /\ DOMAIN (a \o b) = 1..Len(a \o b) /\ Len(a) \in Nat /\ Len(b) \in Nat
  BY ConcatProperties, LenProperties
<1> DEFINE both == a \o b
<1> HIDE DEF both
<1>3. ASSUME NEW i \in 1..Len(a), a[i].content = content PROVE Has(both, content)
  <2>1. i \in DOMAIN both /\ both[i] = a[i]
    BY <1>1, <1>2 DEF both
  <2> QED
    BY <1>3, <2>1 DEF Has
<1>4. ASSUME NEW i \in 1..Len(b), b[i].content = content PROVE Has(both, content)
  <2>1. i + Len(a) \in DOMAIN both /\ both[i + Len(a)] = b[i]
    BY <1>1, <1>2 DEF both
  <2> QED
    BY <1>4, <2>1 DEF Has
<1> QED
  BY <1>2, <1>3, <1>4 DEF Has, both

LEMMA HasOne ==
  \A content : Has(First(content), content) /\ Has(Version(content), content)
BY DEF Has, First, Version

(* The rows of a change tell what it replaced, unless that is stored, and what it made. *)
LEMMA RowsTell ==
  ASSUME NEW s, NEW p, call[s].plan[p] \in Changes, NEW recalled \in Recalled(s, p),
         EditOf(Tool(s), call[s].plan[p])
  PROVE  LET c == call[s].plan[p] IN
         /\ c.kind = "add" \/ c.old \in Stored(s, p) \/ Has(Rows(s, p, recalled), c.old)
         /\ c.kind = "delete" \/ Has(Rows(s, p, recalled), c.new)
<1> DEFINE c == call[s].plan[p]
           after == IF c.kind \in {"delete", "remove"} THEN {} ELSE c.new
           start == If(OfSession(files, p, s) = {}, First(c.old))
           meanwhile == If(recalled # c.old, Version(c.old))
           before == CASE c.kind = "create" -> First({})
                       [] c.kind = "add" -> <<>>
                       [] OTHER -> start \o meanwhile
<1>1. c.old \in SUBSET Lines /\ c.new \in SUBSET Lines /\ {} \in SUBSET Lines
  BY DEF Changes
<1>2. after \in SUBSET Lines
  BY <1>1
<1>3. /\ First({}) \in Seq(RowsToAdd) /\ First(c.old) \in Seq(RowsToAdd)
      /\ Version(c.old) \in Seq(RowsToAdd) /\ Version(after) \in Seq(RowsToAdd)
  BY <1>1, <1>2, RowSeq
<1>4. Rows(s, p, recalled) = before \o Version(after)
  BY DEF Rows
<1>5. c.kind = "delete" \/ after = c.new
  BY DEF EditOf
<1>6. /\ c.kind = "create" => before = First({}) /\ c.old = {}
      /\ c.kind = "add" => before = <<>>
      /\ c.kind \notin {"create", "add"} => before = start \o meanwhile
  BY DEF EditOf
<1>7. start \in Seq(RowsToAdd) /\ meanwhile \in Seq(RowsToAdd)
  BY <1>3, EmptySeq DEF If
<1>8. \/ c.old \in Stored(s, p) \/ Has(start, c.old) \/ Has(meanwhile, c.old)
  <2>1. CASE OfSession(files, p, s) = {}
    BY <2>1, HasOne DEF If
  <2>2. CASE recalled # c.old
    BY <2>2, HasOne DEF If
  <2>3. CASE OfSession(files, p, s) # {} /\ recalled = c.old
    BY <2>3 DEF Recalled, Latest, Stored
  <2> QED
    BY <2>1, <2>2, <2>3
<1> HIDE DEF c, after, start, meanwhile, before
<1>9. start \o meanwhile \in Seq(RowsToAdd)
  BY <1>7, ConcatProperties
<1>10. before \in Seq(RowsToAdd)
  BY <1>3, <1>6, <1>9, EmptySeq
<1>11. c.kind = "add" \/ c.old \in Stored(s, p) \/ Has(before, c.old)
  <2>1. CASE c.kind = "create"
    BY <1>6, <2>1, HasOne
  <2>2. CASE c.kind \notin {"create", "add"}
    BY <1>6, <1>7, <1>8, <2>2, HasEither
  <2> QED
    BY <2>1, <2>2
<1>12. c.kind = "add" \/ c.old \in Stored(s, p) \/ Has(Rows(s, p, recalled), c.old)
  BY <1>3, <1>4, <1>10, <1>11, HasEither
<1>13. c.kind = "delete" \/ Has(Rows(s, p, recalled), c.new)
  BY <1>3, <1>4, <1>5, <1>10, HasOne, HasEither
<1> QED
  BY <1>12, <1>13 DEF c

(* In rows that follow others without a first row of their own, it is among those. *)
LEMMA FirstAmong ==
  \A a, b : a \in Seq(RowsToAdd) /\ b \in Seq(RowsToAdd) /\ (\A j \in DOMAIN b : ~b[j].first) =>
     \A i \in DOMAIN (a \o b) : (a \o b)[i].first => i \in DOMAIN a /\ a[i].first
<1> SUFFICES ASSUME NEW a \in Seq(RowsToAdd), NEW b \in Seq(RowsToAdd),
                    \A j \in DOMAIN b : ~b[j].first,
                    NEW i \in DOMAIN (a \o b), (a \o b)[i].first
             PROVE  i \in DOMAIN a /\ a[i].first
  OBVIOUS
<1>1. /\ Len(a \o b) = Len(a) + Len(b)
      /\ \A j \in 1..Len(a) + Len(b) :
            (a \o b)[j] = IF j <= Len(a) THEN a[j] ELSE b[j - Len(a)]
  BY ConcatProperties
<1>2. /\ DOMAIN a = 1..Len(a) /\ DOMAIN b = 1..Len(b)
      /\ DOMAIN (a \o b) = 1..Len(a \o b) /\ Len(a) \in Nat /\ Len(b) \in Nat
  BY ConcatProperties, LenProperties
<1>3. i \in 1..Len(a) + Len(b) /\ i \in Nat
  BY <1>1, <1>2
<1>4. CASE i <= Len(a)
  BY <1>1, <1>2, <1>3, <1>4
<1>5. CASE ~(i <= Len(a))
  <2>1. i - Len(a) \in DOMAIN b
    BY <1>2, <1>3, <1>5
  <2> QED
    BY <1>1, <1>3, <1>5, <2>1
<1> QED
  BY <1>4, <1>5

(* A patch adds a first row in front, and where the session had none. *)
LEMMA RowsOfPatch ==
  ASSUME NEW s, NEW p, call[s].plan[p] \in Changes, NEW recalled,
         EditOf("patch", call[s].plan[p])
  PROVE  \A i \in DOMAIN Rows(s, p, recalled) :
            Rows(s, p, recalled)[i].first => i = 1 /\ OfSession(files, p, s) = {}
<1> DEFINE c == call[s].plan[p]
           after == IF c.kind \in {"delete", "remove"} THEN {} ELSE c.new
           start == If(OfSession(files, p, s) = {}, First(c.old))
           meanwhile == If(recalled # c.old, Version(c.old))
           before == IF c.kind = "add" THEN <<>> ELSE start \o meanwhile
<1>1. c.old \in SUBSET Lines /\ c.new \in SUBSET Lines /\ {} \in SUBSET Lines
  BY DEF Changes
<1>2. after \in SUBSET Lines
  BY <1>1
<1>3. Rows(s, p, recalled) = before \o Version(after)
  BY DEF Rows, EditOf
<1>4. /\ First(c.old) \in Seq(RowsToAdd) /\ Version(c.old) \in Seq(RowsToAdd)
      /\ Version(after) \in Seq(RowsToAdd) /\ <<>> \in Seq(RowsToAdd)
  BY <1>1, <1>2, RowSeq, EmptySeq
<1>5. start \in Seq(RowsToAdd) /\ meanwhile \in Seq(RowsToAdd)
  BY <1>4 DEF If
<1>6. \A content : \A j \in DOMAIN Version(content) : ~Version(content)[j].first
  BY DEF Version
<1>7. \A j \in DOMAIN meanwhile : ~meanwhile[j].first
  BY <1>6 DEF If
<1>8. \A j \in DOMAIN start : j = 1 /\ OfSession(files, p, s) = {}
  BY DEF If, First
<1> HIDE DEF start, meanwhile, after, c
<1>9. start \o meanwhile \in Seq(RowsToAdd)
  BY <1>5, ConcatProperties
<1>10. before \in Seq(RowsToAdd)
  BY <1>4, <1>9
<1>11. ASSUME NEW i \in DOMAIN before, before[i].first
       PROVE  i = 1 /\ OfSession(files, p, s) = {}
  <2>1. CASE c.kind = "add"
    BY <1>11, <2>1
  <2>2. CASE c.kind # "add"
    <3>1. before = start \o meanwhile
      BY <2>2
    <3>2. i \in DOMAIN start
      BY <1>5, <1>7, <1>11, <3>1, FirstAmong
    <3> QED
      BY <1>8, <3>2
  <2> QED
    BY <2>1, <2>2
<1> HIDE DEF before
<1> QED
  BY <1>3, <1>4, <1>6, <1>10, <1>11, FirstAmong

LEMMA StoreHistory ==
  ASSUME IInv, HistoryInv, NEW s \in ToolSessions, Store(s)
  PROVE  HistoryInv'
<1>1. call[s] \in Calls /\ call[s].at = "store" /\ files' = files
  BY AtWork DEF Store, At
<1>2. PICK p \in call[s].left : \E recalled \in Recalled(s, p) :
         call' = [call EXCEPT ![s].at = "rows", ![s].path = p, ![s].todo = Rows(s, p, recalled)]
  BY DEF Store
<1>3. PICK recalled \in Recalled(s, p) :
         call' = [call EXCEPT ![s].at = "rows", ![s].path = p, ![s].todo = Rows(s, p, recalled)]
  BY <1>2
<1> DEFINE rows == Rows(s, p, recalled)
           c == [call[s] EXCEPT !.at = "rows", !.path = p, !.todo = rows]
<1>4. call' = [call EXCEPT ![s] = c]
  BY <1>3
<1> HIDE DEF rows
<1>5. /\ c.at = "rows" /\ c.plan = call[s].plan /\ c.req = call[s].req
      /\ c.path = p /\ c.todo = rows
  BY <1>1 DEF Calls
<1> HIDE DEF c
<1>6. call'[s] = c /\ \A t \in ToolSessions \ {s} : call'[t] = call[t]
  BY <1>4, MovedTo
<1>7. OfFileTool(s)' = OfFileTool(s) /\ Stored(s, p)' = Stored(s, p)
  BY <1>1, <1>5, <1>6 DEF OfFileTool, Tool, Req, Stored
<1>8. PlansAreEdits(s)
  BY DEF HistoryInv
<1>9. PlansAreEdits(s)'
  BY <1>1, <1>5, <1>6, <1>7, <1>8 DEF PlansAreEdits, Tool, Req
<1>10. p \in DOMAIN call[s].plan
  BY <1>1, <1>2 DEF IInv, StaysOnTargets, At
<1>11. call[s].plan[p] \in Changes
  BY <1>1, <1>10 DEF Calls, Plans
<1>12. \A content : Has(rows, content) => Awaits(s, content)'
  BY <1>5, <1>6 DEF Has, Awaits
<1>13. ASSUME OfFileTool(s)
       PROVE  LET d == call[s].plan[p] IN
              (d.kind = "add" \/ Kept(s, p, d.old)') /\ (d.kind = "delete" \/ Kept(s, p, d.new)')
  <2>1. EditOf(Tool(s), call[s].plan[p])
    BY <1>1, <1>8, <1>10, <1>13 DEF PlansAreEdits
  <2>2. LET d == call[s].plan[p] IN
        /\ d.kind = "add" \/ d.old \in Stored(s, p) \/ Has(rows, d.old)
        /\ d.kind = "delete" \/ Has(rows, d.new)
    BY <1>11, <2>1, RowsTell DEF rows
  <2>3. \A content : content \in Stored(s, p) \/ Has(rows, content) => Kept(s, p, content)'
    BY <1>7, <1>12 DEF Kept
  <2>4. call'[s].plan[p] = call[s].plan[p]
    BY <1>5, <1>6
  <2> QED
    BY <2>2, <2>3, <2>4
<1>14. ASSUME Tool(s) = "patch" PROVE FirstsAreFirst(s, p)'
  <2>1. EditOf("patch", call[s].plan[p])
    BY <1>1, <1>8, <1>10, <1>14 DEF PlansAreEdits, OfFileTool
  <2>2. \A i \in DOMAIN rows : rows[i].first => i = 1 /\ OfSession(files, p, s) = {}
    BY <1>11, <2>1, RowsOfPatch DEF rows
  <2>3. call'[s].todo = rows /\ OfSession(files, p, s)' = OfSession(files, p, s)
    BY <1>1, <1>5, <1>6
  <2> QED
    BY <2>2, <2>3 DEF FirstsAreFirst
<1>15. Tool(s)' = Tool(s) /\ call'[s].path = p /\ call'[s].plan = call[s].plan
  BY <1>5, <1>6 DEF Tool, Req
<1>16. RowsAreKept(s)'
  BY <1>7, <1>10, <1>13, <1>14, <1>15 DEF RowsAreKept
<1> QED
  BY <1>1, <1>6, <1>9, <1>16, NoRowsOf, HistoryStep

(* Where no version was free, a row of the path is as late as three of the session. *)
LEMMA NoneIsFree ==
  ASSUME files \subseteq FileRows, NEW p \in Paths, NEW s \in ToolSessions,
         NEW wanted \in NextVersions(files, p), NEW second \in Nat,
         Insert(files, p, s, wanted, second) = NoVersion
  PROVE  Overtaken(s, p)
<1>1. wanted \in Nat
  BY NextVersionsAreVersions
<1>2. \A i \in 1..3 : i = 1 \/ wanted # Initial =>
         \E g \in OfSession(files, p, s) : g.version = wanted + i - 1
  BY <1>1, InsertIsVersion
<1>3. OfPath(files, p) # {}
  <2>1. \E g \in OfSession(files, p, s) : TRUE
    BY <1>2
  <2> QED
    BY <2>1 DEF OfSession
<1>4. PICK f \in Latest(OfPath(files, p)) : wanted = f.version + 1
  BY <1>3 DEF NextVersions
<1>5. f \in OfPath(files, p) /\ f.version \in Nat /\ \A g \in OfPath(files, p) : g.at <= f.at
  BY <1>4 DEF Latest, OfPath, FileRows
<1>6. wanted # Initial
  BY <1>4, <1>5 DEF Initial
<1>7. ASSUME NEW i \in 1..3
      PROVE  \E g \in OfSession(files, p, s) : g.version = f.version + i /\ g.at <= f.at
  <2>1. PICK g \in OfSession(files, p, s) : g.version = wanted + i - 1
    BY <1>2, <1>6
  <2>2. g \in OfPath(files, p)
    BY <2>1 DEF OfSession
  <2>3. g.version = f.version + i
    BY <1>4, <1>5, <2>1
  <2> QED
    BY <1>5, <2>2, <2>3
<1> QED
  BY <1>5, <1>7 DEF Overtaken

(* A row that gets a version is stored. *)
LEMMA RowIsStored ==
  ASSUME NEW s, NEW p, NEW content, NEW version, NEW second, version # NoVersion,
         files' = Added(files, p, s, content, version, second)
  PROVE  content \in Stored(s, p)'
<1> DEFINE row == Row(p, s, content, version, second)
<1>1. row \in files'
  BY DEF Added
<1>2. row.path = p /\ row.session = s /\ row.content = content
  BY DEF Row
<1> HIDE DEF row
<1> QED
  BY <1>1, <1>2 DEF Stored, OfSession, OfPath

LEMMA AddedStays == \A p, s, content, version, second :
  files \subseteq Added(files, p, s, content, version, second)
BY DEF Added

(* What waits is the first row or among those that stay. *)
LEMMA HeadOrTail ==
  \A rows, content : rows \in Seq(RowsToAdd) /\ rows # <<>> /\ Has(rows, content) =>
     Head(rows).content = content \/ Has(Tail(rows), content)
<1> SUFFICES ASSUME NEW rows \in Seq(RowsToAdd), NEW content, rows # <<>>, Has(rows, content)
             PROVE  Head(rows).content = content \/ Has(Tail(rows), content)
  OBVIOUS
<1>1. PICK i \in 1..Len(rows) : rows[i].content = content
  BY LenProperties DEF Has
<1>2. CASE i = 1
  BY <1>1, <1>2
<1>3. CASE i # 1
  <2>1. /\ Tail(rows) \in Seq(RowsToAdd) /\ Len(Tail(rows)) = Len(rows) - 1
        /\ \A j \in 1..Len(Tail(rows)) : Tail(rows)[j] = rows[j + 1]
    BY HeadTailProperties
  <2>2. Len(rows) \in Nat /\ i \in Int
    BY LenProperties
  <2>3. i - 1 \in 1..Len(Tail(rows))
    BY <1>3, <2>1, <2>2
  <2>4. Tail(rows)[i - 1].content = content
    BY <1>1, <2>1, <2>2, <2>3
  <2>5. DOMAIN Tail(rows) = 1..Len(Tail(rows))
    BY <2>1, LenProperties
  <2> QED
    BY <2>3, <2>4, <2>5 DEF Has
<1> QED
  BY <1>2, <1>3

LEMMA AddRowHistory ==
  ASSUME IInv, HistoryInv, NEW s \in ToolSessions, AddRow(s)
  PROVE  HistoryInv'
<1>1. PICK p, rows, d : p = call[s].path /\ rows = call[s].todo /\ d = call[s].plan[p]
  OBVIOUS
<1>2. /\ call[s] \in Calls /\ call[s].at = "rows" /\ rows # <<>>
      /\ now' \in now..MaxTime
  BY <1>1, AtWork DEF AddRow, At
<1>3. PICK wanted \in Wanted(s, p) :
         LET version == Insert(files, p, s, wanted, now') IN
         /\ files' = Added(files, p, s, Head(rows).content, version, now')
         /\ IF version = NoVersion /\ MustBeAdded(s) THEN ReturnWith(s, "failed")
            ELSE call' = [call EXCEPT ![s].todo = Tail(@)] /\ UNCHANGED outcome
  BY <1>1 DEF AddRow
<1> DEFINE version == Insert(files, p, s, wanted, now')
<1>4. /\ files' = Added(files, p, s, Head(rows).content, version, now')
      /\ \/ ReturnWith(s, "failed")
         \/ /\ version = NoVersion => ~MustBeAdded(s)
            /\ call' = [call EXCEPT ![s].todo = Tail(@)]
  BY <1>3
<1>5. files \subseteq files' /\ OnlyRowsOf(s)
  <2>1. \A f \in files' \ files : f.session = s
    BY <1>4 DEF Added, Row
  <2> QED
    BY <1>4, <2>1, AddedStays DEF OnlyRowsOf
<1>6. /\ files \subseteq FileRows /\ p \in Paths /\ now' \in Nat /\ rows \in Seq(RowsToAdd)
  <2>1. TargetsAreKnown(s) /\ Targets(Req(s)) \subseteq Paths
    BY <1>2, AtWork DEF IInv
  <2>2. p \in Paths
    BY <1>1, <1>2, <2>1 DEF TargetsAreKnown, At
  <2> QED
    BY <1>1, <1>2, <2>2, ToolsAssumption DEF IInv, StateTypeOK, Calls
<1>7. ASSUME version = NoVersion => ~MustBeAdded(s), call' = [call EXCEPT ![s].todo = Tail(@)]
      PROVE  HistoryInv'
  <2> DEFINE c == [call[s] EXCEPT !.todo = Tail(rows)]
  <2>1. call' = [call EXCEPT ![s] = c]
    BY <1>1, <1>7
  <2>2. /\ c.at = "rows" /\ c.plan = call[s].plan /\ c.req = call[s].req /\ c.path = p
        /\ c.todo = Tail(rows) /\ c.live = call[s].live
    BY <1>1, <1>2 DEF Calls
  <2> HIDE DEF c
  <2>3. call'[s] = c /\ \A t \in ToolSessions \ {s} : call'[t] = call[t]
    BY <2>1, MovedTo
  <2>4. OfFileTool(s)' = OfFileTool(s) /\ Tool(s)' = Tool(s)
    BY <2>2, <2>3 DEF OfFileTool, Tool, Req
  <2>5. PlansAreEdits(s) /\ RowsAreKept(s)
    BY DEF HistoryInv
  <2>6. PlansAreEdits(s)'
    BY <1>2, <2>2, <2>3, <2>4, <2>5 DEF PlansAreEdits
  <2>7. CASE ~(OfFileTool(s) /\ call[s].live)
    BY <1>5, <2>2, <2>3, <2>4, <2>6, <2>7, HistoryStep DEF RowsAreKept
  <2>8. ASSUME OfFileTool(s), call[s].live
        PROVE  /\ p \in DOMAIN call[s].plan
               /\ \/ (d.kind = "add" \/ Kept(s, p, d.old)) /\ (d.kind = "delete" \/ Kept(s, p, d.new))
                  \/ Overtaken(s, p)
               /\ Tool(s) = "patch" => FirstsAreFirst(s, p)
    BY <1>1, <1>2, <2>5, <2>8 DEF RowsAreKept, At
  <2>9. ASSUME OfFileTool(s), call[s].live, version = NoVersion PROVE Overtaken(s, p)
    <3>1. CASE Head(rows).first
      <4>1. Tool(s) = "patch" /\ wanted = Initial
        BY <1>1, <1>7, <2>9, <3>1 DEF MustBeAdded, Wanted
      <4>2. rows[1].first /\ 1 \in DOMAIN rows
        <5>1. Len(rows) \in Nat \ {0} /\ DOMAIN rows = 1..Len(rows)
          BY <1>2, <1>6, LenProperties, EmptySeq
        <5>2. Head(rows) = rows[1]
          BY <1>2, <1>6, HeadTailProperties
        <5> QED
          BY <3>1, <5>1, <5>2
      <4>3. OfSession(files, p, s) = {}
        BY <1>1, <2>8, <2>9, <4>1, <4>2 DEF FirstsAreFirst
      <4>4. wanted \in Nat
        BY <4>1 DEF Initial
      <4>5. \A i \in 1..3 : i = 1 \/ wanted # Initial =>
               \E f \in OfSession(files, p, s) : f.version = wanted + i - 1
        BY <1>6, <2>9, <4>4, InsertIsVersion
      <4> QED
        BY <4>3, <4>5
    <3>2. CASE ~Head(rows).first
      <4>1. wanted \in NextVersions(files, p)
        BY <1>1, <3>2 DEF Wanted
      <4> QED
        BY <1>6, <2>9, <4>1, NoneIsFree
    <3> QED
      BY <3>1, <3>2
  <2>10. ASSUME version # NoVersion
         PROVE  \A content : Kept(s, p, content) => Kept(s, p, content)'
    <3> TAKE content
    <3>1. CASE content \in Stored(s, p)
      BY <1>5, <3>1, RowsStay DEF Kept
    <3>2. CASE Awaits(s, content)
      <4>1. Has(rows, content)
        BY <1>1, <3>2 DEF Awaits, Has
      <4>2. CASE Head(rows).content = content
        <5>1. \A a, v, second : v # NoVersion /\ files' = Added(files, p, s, a, v, second)
                 => a \in Stored(s, p)'
          BY RowIsStored
        <5> HIDE DEF version
        <5>2. Head(rows).content \in Stored(s, p)'
          BY <1>4, <2>10, <5>1
        <5> QED
          BY <4>2, <5>2 DEF Kept
      <4>3. CASE Has(Tail(rows), content)
        BY <2>2, <2>3, <4>3 DEF Has, Awaits, Kept
      <4> QED
        BY <1>2, <1>6, <4>1, <4>2, <4>3, HeadOrTail
    <3> QED
      BY <3>1, <3>2 DEF Kept
  <2>11. ASSUME OfFileTool(s), call[s].live
         PROVE  \/ /\ d.kind = "add" \/ Kept(s, p, d.old)'
                   /\ d.kind = "delete" \/ Kept(s, p, d.new)'
                \/ Overtaken(s, p)'
    <3>1. Overtaken(s, p) => Overtaken(s, p)'
      BY <1>5, RowsStay
    <3> HIDE DEF version
    <3> QED
      BY <2>8, <2>9, <2>10, <2>11, <3>1
  <2>12. ASSUME OfFileTool(s), call[s].live, Tool(s) = "patch" PROVE FirstsAreFirst(s, p)'
    <3>1. \A i \in DOMAIN rows : rows[i].first => i = 1
      BY <1>1, <2>8, <2>12 DEF FirstsAreFirst
    <3>2. call'[s].todo = Tail(rows)
      BY <2>2, <2>3
    <3>3. /\ Len(rows) \in Nat /\ DOMAIN rows = 1..Len(rows)
          /\ Tail(rows) \in Seq(RowsToAdd) /\ Len(Tail(rows)) = Len(rows) - 1
          /\ \A i \in 1..Len(Tail(rows)) : Tail(rows)[i] = rows[i + 1]
      BY <1>2, <1>6, LenProperties, HeadTailProperties
    <3>4. ASSUME NEW i \in DOMAIN Tail(rows) PROVE ~Tail(rows)[i].first
      <4>1. DOMAIN Tail(rows) = 1..Len(Tail(rows))
        BY <3>3, LenProperties
      <4>2. i \in 1..Len(rows) - 1 /\ i + 1 \in DOMAIN rows /\ i + 1 # 1
        BY <3>3, <4>1
      <4>3. Tail(rows)[i] = rows[i + 1]
        BY <3>3, <4>1
      <4> QED
        BY <3>1, <4>2, <4>3
    <3> QED
      BY <3>2, <3>4 DEF FirstsAreFirst
  <2>13. CASE OfFileTool(s) /\ call[s].live
    <3>1. call'[s].path = p /\ call'[s].plan = call[s].plan /\ call'[s].plan[p] = d
      BY <1>1, <2>2, <2>3
    <3>2. RowsAreKept(s)'
      BY <2>4, <2>8, <2>11, <2>12, <2>13, <3>1 DEF RowsAreKept
    <3> QED
      BY <1>5, <2>3, <2>6, <3>2, HistoryStep
  <2> QED
    BY <2>7, <2>13
<1> QED
  BY <1>4, <1>5, <1>7, NoRowsOf, ReturnHistory

LEMMA DatabaseFailsHistory ==
  ASSUME IInv, HistoryInv, NEW s \in ToolSessions, DatabaseFails(s)
  PROVE  HistoryInv'
<1>1. call[s] \in Calls /\ call[s].at = "rows" /\ files' = files
  BY AtWork DEF DatabaseFails, At
<1>2. ASSUME NEW rest, call' = [call EXCEPT ![s].live = FALSE, ![s].todo = rest]
      PROVE  HistoryInv'
  <2> DEFINE c == [call[s] EXCEPT !.live = FALSE, !.todo = rest]
  <2>1. call' = [call EXCEPT ![s] = c]
    BY <1>2
  <2>2. /\ c.at = "rows" /\ c.plan = call[s].plan /\ c.req = call[s].req /\ c.live = FALSE
    BY <1>1 DEF Calls
  <2> HIDE DEF c
  <2>3. call'[s] = c /\ \A t \in ToolSessions \ {s} : call'[t] = call[t]
    BY <2>1, MovedTo
  <2>4. PlansAreEdits(s)'
    BY <1>1, <2>2, <2>3 DEF HistoryInv, PlansAreEdits, OfFileTool, Tool, Req
  <2>5. RowsAreKept(s)'
    BY <2>2, <2>3 DEF RowsAreKept
  <2> QED
    BY <1>1, <2>3, <2>4, <2>5, NoRowsOf, HistoryStep
<1> QED
  BY <1>1, <1>2, NoRowsOf, ReturnHistory DEF DatabaseFails

LEMMA RecordHistory ==
  ASSUME IInv, HistoryInv, NEW s \in ToolSessions, Record(s)
  PROVE  HistoryInv'
<1>1. call[s] \in Calls /\ call[s].at = "rows" /\ files' = files
  BY AtWork DEF Record, At
<1>2. ASSUME call' = [call EXCEPT ![s].at = "store", ![s].left = @ \ {call[s].path}]
      PROVE  HistoryInv'
  <2> DEFINE c == [call[s] EXCEPT !.at = "store", !.left = @ \ {call[s].path}]
  <2>1. call' = [call EXCEPT ![s] = c]
    BY <1>2
  <2>2. /\ c.at = "store" /\ c.plan = call[s].plan /\ c.req = call[s].req
    BY <1>1 DEF Calls
  <2> HIDE DEF c
  <2>3. call'[s] = c /\ \A t \in ToolSessions \ {s} : call'[t] = call[t]
    BY <2>1, MovedTo
  <2>4. PlansAreEdits(s)' /\ RowsAreKept(s)'
    BY <1>1, <2>2, <2>3, PlanIsKept DEF HistoryInv
  <2> QED
    BY <1>1, <2>3, <2>4, NoRowsOf, HistoryStep
<1> QED
  BY <1>1, <1>2, NoRowsOf, ReturnHistory, NextHelperHistory DEF Record

LEMMA HistoryStarts == ToolsInit => HistoryInv
<1> SUFFICES ASSUME ToolsInit PROVE HistoryInv
  OBVIOUS
<1>1. \A s \in ToolSessions : call[s].at = "idle"
  BY DEF ToolsInit, Idle
<1> QED
  BY <1>1 DEF HistoryInv, PlansAreEdits, RowsAreKept, At

LEMMA HistoryGoesOn == IInv /\ HistoryInv /\ [ToolsNext]_toolsVars => HistoryInv'
<1> SUFFICES ASSUME IInv, HistoryInv, [ToolsNext]_toolsVars PROVE HistoryInv'
  OBVIOUS
<1>1. ASSUME NEW s \in ToolSessions, NEW req \in ToolRequests[s], StartCall(s, req)
      PROVE  HistoryInv'
  BY <1>1, StartHistory
<1>2. ASSUME NEW s \in ToolSessions, Stat(s) \/ Read(s) PROVE HistoryInv'
  BY <1>2, StatHistory, ReadHistory
<1>3. ASSUME NEW s \in ToolSessions, Approve(s) PROVE HistoryInv'
  BY <1>3, ApproveHistory
<1>4. ASSUME NEW s \in ToolSessions, Deny(s) PROVE HistoryInv'
  BY <1>4, NoRowsOf, ReturnHistory DEF Deny
<1>5. ASSUME NEW s \in ToolSessions, Apply(s) \/ Store(s) PROVE HistoryInv'
  BY <1>5, ApplyHistory, StoreHistory
<1>6. ASSUME NEW s \in ToolSessions, AddRow(s) \/ DatabaseFails(s) \/ Record(s)
      PROVE  HistoryInv'
  BY <1>6, AddRowHistory, DatabaseFailsHistory, RecordHistory
<1>7. ASSUME call' = call, files' = files PROVE HistoryInv'
  BY <1>7, RestOfHistory DEF HistoryInv
<1>8. CASE (\E p \in Paths : Outside(p)) \/ Rest \/ UNCHANGED toolsVars
  BY <1>7, <1>8 DEF Outside, Rest, toolsVars
<1> QED
  BY <1>1, <1>2, <1>3, <1>4, <1>5, <1>6, <1>8 DEF ToolsNext, Moves

-----------------------------------------------------------------------------
(* What a call finds where it writes is what it had looked at, or it has    *)
(* missed a change of the file.                                             *)

\* What the plan takes the file to be; the file may always be gone.
Expected(c) == {Gone} \cup (IF c.kind = "add" THEN {} ELSE {c.old})

\* The files that are to be new.
ToBeNew(s) ==
    {p \in Targets(Req(s)) : \/ Tool(s) = "edit" /\ Helper(s) = "create"
                             \/ Tool(s) = "patch" /\ Req(s).changes[p].kind = "add"}

LeftAlone(s) == At(s, "read") => \A p \in ToBeNew(s) : disk[p] = Gone \/ p \in missed[s]
StillToWrite(s, p) == At(s, "ask") \/ (At(s, "apply") /\ p \in call[s].left)
IsWritten(s, p) == (At(s, "apply") /\ p \notin call[s].left) \/ call[s].at \in {"store", "rows"}

FoundAsPlanned(s) ==
    ~At(s, "idle") /\ OfFileTool(s) => \A p \in DOMAIN call[s].plan :
        /\ StillToWrite(s, p) => disk[p] \in Expected(call[s].plan[p]) \/ p \in missed[s]
        /\ IsWritten(s, p) => replaced[s][p] \in Expected(call[s].plan[p]) \/ p \in missed[s]

FoundInv == \A s \in ToolSessions : LeftAlone(s) /\ FoundAsPlanned(s)

(* What the history variables do while a call goes on. *)
LEMMA WatchesTell ==
  ASSUME Watches, NEW s \in ToolSessions, call'[s].at # "idle", NEW p \in Paths
  PROVE  /\ Writes(s, p) => replaced'[s][p] = disk[p]
         /\ ~Writes(s, p) => replaced'[s][p] = replaced[s][p]
         /\ ~Looks(s, p) /\ (p \in missed[s] \/ Slips(s, p)) => p \in missed'[s]
BY DEF Watches, At

(* In these places there is nothing to be found, or nobody who looks. *)
LEMMA NothingPlanned ==
  \A s : call'[s].at \in {"idle", "stat"} \/ (call'[s].at = "rows" /\ Tool(s)' = "view")
         => LeftAlone(s)' /\ FoundAsPlanned(s)'
BY DEF LeftAlone, FoundAsPlanned, StillToWrite, IsWritten, OfFileTool, At

(* A call that does not move has missed what changes. *)
LEMMA RestOfFound ==
  ASSUME IInv, FoundInv, Watches, NEW s \in ToolSessions, call'[s] = call[s]
  PROVE  LeftAlone(s)' /\ FoundAsPlanned(s)'
<1>1. /\ Tool(s)' = Tool(s) /\ OfFileTool(s)' = OfFileTool(s) /\ Targets(Req(s))' = Targets(Req(s))
      /\ ToBeNew(s)' = ToBeNew(s) /\ \A place : At(s, place)' = At(s, place)
  BY DEF Tool, Req, OfFileTool, At, Targets, ToBeNew, Helper
<1>2. CASE call[s].at = "idle"
  BY <1>2, NothingPlanned
<1>3. CASE call[s].at # "idle"
  <2>1. /\ Targets(Req(s)) \subseteq Paths /\ StaysOnTargets(s)
        /\ LeftAlone(s) /\ FoundAsPlanned(s)
    BY <1>3, AtWork DEF IInv, FoundInv
  <2>2. \A p : ~Looks(s, p) /\ ~Writes(s, p)
    BY <1>1 DEF Looks, Writes, At
  <2>3. \A p \in Paths : /\ replaced'[s][p] = replaced[s][p]
                         /\ p \in missed[s] \/ Slips(s, p) => p \in missed'[s]
    BY <1>3, <2>2, WatchesTell
  <2>4. ASSUME NEW p \in Targets(Req(s)), OfFileTool(s), call[s].at \in {"read", "ask", "apply"}
        PROVE  disk'[p] = disk[p] \/ p \in missed'[s]
    BY <2>1, <2>2, <2>3, <2>4 DEF Slips, OfFileTool
  <2>5. LeftAlone(s)'
    <3>1. ASSUME At(s, "read"), NEW p \in ToBeNew(s) PROVE disk'[p] = Gone \/ p \in missed'[s]
      <4>1. p \in Targets(Req(s)) /\ OfFileTool(s) /\ p \in Paths
        BY <2>1, <3>1 DEF ToBeNew, OfFileTool
      <4>2. disk[p] = Gone \/ p \in missed[s]
        BY <2>1, <3>1 DEF LeftAlone
      <4> QED
        BY <2>3, <2>4, <3>1, <4>1, <4>2 DEF At
    <3> QED
      BY <1>1, <3>1 DEF LeftAlone
  <2>6. FoundAsPlanned(s)'
    <3>1. ASSUME OfFileTool(s), NEW p \in DOMAIN call[s].plan
          PROVE  /\ StillToWrite(s, p) => disk'[p] \in Expected(call[s].plan[p]) \/ p \in missed'[s]
                 /\ IsWritten(s, p) => replaced'[s][p] \in Expected(call[s].plan[p]) \/ p \in missed'[s]
      <4>1. p \in Targets(Req(s)) /\ p \in Paths
        BY <1>3, <2>1 DEF StaysOnTargets, At
      <4>2. /\ StillToWrite(s, p) => disk[p] \in Expected(call[s].plan[p]) \/ p \in missed[s]
            /\ IsWritten(s, p) => replaced[s][p] \in Expected(call[s].plan[p]) \/ p \in missed[s]
        BY <1>3, <2>1, <3>1 DEF FoundAsPlanned, At
      <4>3. StillToWrite(s, p) => disk'[p] = disk[p] \/ p \in missed'[s]
        BY <2>4, <3>1, <4>1 DEF StillToWrite, At
      <4> QED
        BY <2>3, <4>1, <4>2, <4>3
    <3>2. \A p : StillToWrite(s, p)' = StillToWrite(s, p) /\ IsWritten(s, p)' = IsWritten(s, p)
      BY DEF StillToWrite, IsWritten, At
    <3> QED
      BY <1>1, <3>1, <3>2 DEF FoundAsPlanned
  <2> QED
    BY <2>5, <2>6
<1> QED
  BY <1>2, <1>3

LEMMA FoundStep ==
  ASSUME IInv, FoundInv, Watches, NEW s \in ToolSessions,
         \A t \in ToolSessions \ {s} : call'[t] = call[t],
         LeftAlone(s)', FoundAsPlanned(s)'
  PROVE  FoundInv'
<1>1. ASSUME NEW t \in ToolSessions \ {s} PROVE LeftAlone(t)' /\ FoundAsPlanned(t)'
  BY RestOfFound
<1> QED
  BY <1>1 DEF FoundInv

LEMMA ReturnFound ==
  ASSUME IInv, FoundInv, Watches, NEW s \in ToolSessions, NEW a, ReturnWith(s, a)
  PROVE  FoundInv'
<1>1. call'[s] = Idle /\ \A t \in ToolSessions \ {s} : call'[t] = call[t]
  BY MovedTo DEF ReturnWith
<1>2. call'[s].at = "idle"
  BY <1>1 DEF Idle
<1> QED
  BY <1>1, <1>2, NothingPlanned, FoundStep

LEMMA NextHelperFound ==
  ASSUME IInv, FoundInv, Watches, NEW s \in ToolSessions, call[s] \in Calls, NextHelper(s)
  PROVE  FoundInv'
<1> DEFINE c == [call[s] EXCEPT !.at = "stat", !.helpers = Tail(@)]
<1>1. call' = [call EXCEPT ![s] = c]
  BY DEF NextHelper
<1>2. c.at = "stat"
  BY DEF Calls
<1> HIDE DEF c
<1>3. call'[s].at = "stat" /\ \A t \in ToolSessions \ {s} : call'[t] = call[t]
  BY <1>1, <1>2, MovedTo
<1> QED
  BY <1>3, NothingPlanned, FoundStep

LEMMA ErrorFound ==
  ASSUME IInv, FoundInv, Watches, NEW s \in ToolSessions, call[s] \in Calls, ErrorResponse(s)
  PROVE  FoundInv'
BY NextHelperFound, ReturnFound DEF ErrorResponse

LEMMA StartFound ==
  ASSUME IInv, FoundInv, Watches, NEW s \in ToolSessions, NEW req \in ToolRequests[s], StartCall(s, req)
  PROVE  FoundInv'
<1> DEFINE c == [at |-> "stat", req |-> req, plan |-> <<>>, asking |-> {}, left |-> {},
                 path |-> None, todo |-> <<>>, live |-> TRUE, wrote |-> FALSE,
                 helpers |-> IF req.tool = "edit" THEN Helpers(req) ELSE <<"one">>]
<1>1. call' = [call EXCEPT ![s] = c]
  BY DEF StartCall
<1>2. c.at = "stat"
  OBVIOUS
<1> HIDE DEF c
<1>3. call'[s].at = "stat" /\ \A t \in ToolSessions \ {s} : call'[t] = call[t]
  BY <1>1, <1>2, MovedTo
<1> QED
  BY <1>3, NothingPlanned, FoundStep

(* What is planned is what was looked at, or the file has been missed already. *)
LEMMA AskFound ==
  ASSUME IInv, FoundInv, Watches, NEW s \in ToolSessions, call[s] \in Calls,
         call[s].at \in {"stat", "read"}, Tool(s) # "view",
         NEW plan, DOMAIN plan \subseteq Targets(Req(s)), Ask(s, plan), UNCHANGED disk,
         \A p \in DOMAIN plan :
            \/ disk[p] \in Expected(plan[p])
            \/ /\ call[s].at = "read" /\ plan[p].kind \in {"create", "add"}
               /\ p \in missed[s]
  PROVE  FoundInv'
<1> DEFINE c == [call[s] EXCEPT !.at = "ask", !.plan = plan, !.asking = DOMAIN plan,
                                !.left = DOMAIN plan]
<1>1. call' = [call EXCEPT ![s] = c]
  BY DEF Ask
<1>2. c.at = "ask" /\ c.plan = plan /\ c.left = DOMAIN plan /\ c.req = call[s].req
  BY DEF Calls
<1> HIDE DEF c
<1>3. call'[s] = c /\ \A t \in ToolSessions \ {s} : call'[t] = call[t]
  BY <1>1, MovedTo
<1>4. Targets(Req(s)) \subseteq Paths /\ call[s].at # "idle"
  BY AtWork
<1>5. ASSUME NEW p \in DOMAIN plan
      PROVE  disk'[p] \in Expected(plan[p]) \/ p \in missed'[s]
  <2>1. CASE disk[p] \in Expected(plan[p])
    BY <2>1
  <2>2. CASE call[s].at = "read" /\ plan[p].kind \in {"create", "add"} /\ p \in missed[s]
    <3>1. ~Looks(s, p)
      BY <1>2, <1>3, <2>2 DEF Looks, At
    <3> QED
      BY <1>2, <1>3, <1>4, <2>2, <3>1, WatchesTell
  <2> QED
    BY <2>1, <2>2
<1>6. LeftAlone(s)'
  BY <1>2, <1>3 DEF LeftAlone, At
<1>7. FoundAsPlanned(s)'
  BY <1>2, <1>3, <1>5 DEF FoundAsPlanned, StillToWrite, IsWritten, At
<1> QED
  BY <1>3, <1>6, <1>7, FoundStep

LEMMA StatFound ==
  ASSUME IInv, FoundInv, Watches, NEW s \in ToolSessions, Stat(s)
  PROVE  FoundInv'
<1>1. /\ call[s] \in Calls /\ call[s].at = "stat" /\ UNCHANGED disk
      /\ Request(Req(s)) /\ Targets(Req(s)) \subseteq Paths
  BY AtWork DEF Stat, At
<1>2. ASSUME Passes(s), Step(s, "read") PROVE FoundInv'
  <2> DEFINE c == [call[s] EXCEPT !.at = "read"]
  <2>1. call' = [call EXCEPT ![s] = c]
    BY <1>2 DEF Step
  <2>2. c.at = "read" /\ c.req = call[s].req /\ c.helpers = call[s].helpers
    BY <1>1 DEF Calls
  <2> HIDE DEF c
  <2>3. call'[s] = c /\ \A t \in ToolSessions \ {s} : call'[t] = call[t]
    BY <2>1, MovedTo
  <2>4. ToBeNew(s)' = ToBeNew(s)
    BY <2>2, <2>3 DEF ToBeNew, Tool, Req, Targets, Helper
  <2>5. ASSUME NEW p \in ToBeNew(s) PROVE disk[p] = Gone
    <3>1. CASE Tool(s) = "edit"
      <4>1. p = Req(s).path /\ Helper(s) = "create"
        BY <2>5, <3>1 DEF ToBeNew, Targets, Tool
      <4> QED
        BY <1>2, <3>1, <4>1 DEF Passes, MayEdit, Exists
    <3>2. CASE Tool(s) = "patch"
      <4>1. p \in DOMAIN Req(s).changes /\ Req(s).changes[p].kind = "add"
        BY <2>5, <3>2 DEF ToBeNew, Targets, Tool
      <4> QED
        BY <1>2, <3>2, <4>1 DEF Passes, MayPatch, Exists
    <3> QED
      BY <2>5, <3>1, <3>2 DEF ToBeNew
  <2>6. LeftAlone(s)'
    BY <1>1, <2>4, <2>5 DEF LeftAlone
  <2>7. FoundAsPlanned(s)'
    BY <2>2, <2>3 DEF FoundAsPlanned, StillToWrite, IsWritten, At
  <2> QED
    BY <2>3, <2>6, <2>7, FoundStep
<1>3. ASSUME FindsNone(s),
             LET p == Req(s).path IN Ask(s, [q \in {p} |-> Change("write", {}, Req(s).content, p)])
      PROVE  FoundInv'
  <2> DEFINE p == Req(s).path
             plan == [q \in {p} |-> Change("write", {}, Req(s).content, p)]
  <2>1. Ask(s, plan)
    BY <1>3
  <2>2. Targets(Req(s)) = {p} /\ Tool(s) # "view" /\ disk[p] = Gone /\ DOMAIN plan = {p}
    BY <1>3 DEF FindsNone, Targets, Tool, Exists
  <2> HIDE DEF plan
  <2>3. \A q \in DOMAIN plan : disk[q] \in Expected(plan[q])
    BY <2>2 DEF Expected
  <2> QED
    BY <1>1, <2>1, <2>2, <2>3, AskFound
<1> QED
  BY <1>1, <1>2, <1>3, ErrorFound DEF Stat

(* A plan for one file that was looked at, or is to be new. *)
LEMMA OneFound ==
  ASSUME IInv, FoundInv, Watches, NEW s \in ToolSessions, call[s] \in Calls, call[s].at = "read",
         Tool(s) # "view", UNCHANGED disk, NEW p, Targets(Req(s)) = {p}, NEW kind, NEW old, NEW new,
         NEW to, Ask(s, [q \in {p} |-> Change(kind, old, new, to)]),
         \/ kind # "add" /\ disk[p] \in {Gone, old}
         \/ kind = "create" /\ p \in missed[s]
  PROVE  FoundInv'
<1> DEFINE plan == [q \in {p} |-> Change(kind, old, new, to)]
<1>1. DOMAIN plan = {p} /\ plan[p].kind = kind /\ plan[p].old = old /\ Ask(s, plan)
  BY DEF Change
<1> HIDE DEF plan
<1>2. \A q \in DOMAIN plan :
         \/ disk[q] \in Expected(plan[q])
         \/ plan[q].kind \in {"create", "add"} /\ q \in missed[s]
  BY <1>1 DEF Expected
<1> QED
  BY <1>1, <1>2, AskFound

LEMMA TextIsFound == \A p : disk[p] \in {Gone, Text(p)}
BY DEF Text, Exists

LEMMA ReadFound ==
  ASSUME IInv, FoundInv, Watches, NEW s \in ToolSessions, Read(s)
  PROVE  FoundInv'
<1>1. /\ call[s] \in Calls /\ call[s].at = "read" /\ UNCHANGED disk
      /\ Request(Req(s)) /\ LeftAlone(s)
  BY AtWork DEF Read, At, FoundInv
<1>2. ASSUME Tool(s) = "view", ReadView(s) PROVE FoundInv'
  <2> DEFINE p == Req(s).path
             c == [call[s] EXCEPT !.at = "rows", !.path = p, !.left = {p}]
  <2>1. ASSUME call' = [call EXCEPT ![s] = c] PROVE FoundInv'
    <3>1. c.req = call[s].req /\ c.at = "rows"
      BY <1>1 DEF Calls
    <3> HIDE DEF c
    <3>2. call'[s] = c /\ \A t \in ToolSessions \ {s} : call'[t] = call[t]
      BY <2>1, MovedTo
    <3>3. Tool(s)' = "view" /\ call'[s].at = "rows"
      BY <1>2, <3>1, <3>2 DEF Tool, Req
    <3> QED
      BY <3>2, <3>3, NothingPlanned, FoundStep
  <2>2. call' = [call EXCEPT ![s] = c] \/ ReturnWith(s, "failed")
    BY <1>2 DEF ReadView
  <2> QED
    BY <2>1, <2>2, ReturnFound
<1>3. ASSUME Tool(s) = "write", ReadWrite(s) PROVE FoundInv'
  <2> DEFINE p == Req(s).path
  <2>1. ErrorResponse(s) \/ Ask(s, [q \in {p} |-> Change("write", Text(p), Req(s).content, p)])
    BY <1>3 DEF ReadWrite
  <2>2. Targets(Req(s)) = {p}
    BY <1>3 DEF Targets, Tool
  <2>3. disk[p] \in {Gone, Text(p)}
    BY TextIsFound
  <2> HIDE DEF p
  <2> QED
    BY <1>1, <1>3, <2>1, <2>2, <2>3, ErrorFound, OneFound
<1>4. ASSUME Tool(s) = "edit", ReadEdit(s) PROVE FoundInv'
  <2> DEFINE p == Req(s).path
             new == Replaced(Text(p), Req(s).old, Req(s).new)
  <2>1. \/ ErrorResponse(s) \/ ReturnWith(s, "failed")
        \/ /\ Helper(s) = "create"
           /\ Ask(s, [q \in {p} |-> Change("create", {}, Line(Req(s).new), p)])
        \/ Ask(s, [q \in {p} |-> Change("delete", Text(p), new, p)])
        \/ Ask(s, [q \in {p} |-> Change("write", Text(p), new, p)])
    BY <1>4 DEF ReadEdit
  <2>2. Targets(Req(s)) = {p} /\ disk[p] \in {Gone, Text(p)}
    BY <1>4, TextIsFound DEF Targets, Tool
  <2>3. Helper(s) = "create" => disk[p] = Gone \/ p \in missed[s]
    <3>1. Helper(s) = "create" => p \in ToBeNew(s)
      BY <1>4, <2>2 DEF ToBeNew
    <3> QED
      BY <1>1, <3>1 DEF LeftAlone, At
  <2> HIDE DEF p, new
  <2>4. CASE ErrorResponse(s) \/ ReturnWith(s, "failed")
    BY <1>1, <2>4, ErrorFound, ReturnFound
  <2>5. CASE /\ Helper(s) = "create"
             /\ Ask(s, [q \in {p} |-> Change("create", {}, Line(Req(s).new), p)])
    BY <1>1, <1>4, <2>2, <2>3, <2>5, OneFound
  <2>6. CASE Ask(s, [q \in {p} |-> Change("delete", Text(p), new, p)])
    BY <1>1, <1>4, <2>2, <2>6, OneFound
  <2>7. CASE Ask(s, [q \in {p} |-> Change("write", Text(p), new, p)])
    BY <1>1, <1>4, <2>2, <2>7, OneFound
  <2> QED
    BY <2>1, <2>4, <2>5, <2>6, <2>7
<1>5. ASSUME Tool(s) = "patch", ReadPatch(s) PROVE FoundInv'
  <2> DEFINE changes == Req(s).changes
             after(p) == CASE changes[p].kind = "remove" -> {}
                           [] changes[p].kind = "add" -> Line(changes[p].ins)
                           [] OTHER -> Replaced(Text(p), changes[p].del, changes[p].ins)
             before(p) == IF changes[p].kind = "add" THEN {} ELSE Text(p)
             plan == [p \in DOMAIN changes |->
                        Change(changes[p].kind, before(p), after(p), changes[p].to)]
  <2>1. ErrorResponse(s) \/ ReturnWith(s, "failed") \/ Ask(s, plan)
    BY <1>5 DEF ReadPatch
  <2>2. DOMAIN plan = Targets(Req(s)) /\ Targets(Req(s)) = DOMAIN changes
    BY <1>5 DEF Targets, Tool
  <2>3. ASSUME NEW p \in DOMAIN plan
        PROVE  \/ disk[p] \in Expected(plan[p])
               \/ plan[p].kind \in {"create", "add"} /\ p \in missed[s]
    <3>1. p \in DOMAIN changes /\ plan[p] = Change(changes[p].kind, before(p), after(p), changes[p].to)
      OBVIOUS
    <3>2. plan[p].kind = changes[p].kind /\ plan[p].old = before(p)
      BY <3>1 DEF Change
    <3>3. CASE changes[p].kind = "add"
      <4>1. p \in ToBeNew(s)
        BY <1>5, <2>2, <3>1, <3>3 DEF ToBeNew
      <4>2. disk[p] = Gone \/ p \in missed[s]
        BY <1>1, <4>1 DEF LeftAlone, At
      <4> QED
        BY <3>2, <3>3, <4>2 DEF Expected
    <3>4. CASE changes[p].kind # "add"
      <4>1. plan[p].old = Text(p) /\ plan[p].kind # "add"
        BY <3>2, <3>4
      <4> QED
        BY <4>1, TextIsFound DEF Expected
    <3> QED
      BY <3>3, <3>4
  <2> HIDE DEF plan
  <2> QED
    BY <1>1, <1>5, <2>1, <2>2, <2>3, ErrorFound, ReturnFound, AskFound
<1> QED
  BY <1>2, <1>3, <1>4, <1>5 DEF Read

LEMMA ApproveFound ==
  ASSUME IInv, FoundInv, Watches, NEW s \in ToolSessions, Approve(s)
  PROVE  FoundInv'
<1>1. call[s] \in Calls /\ call[s].at = "ask" /\ UNCHANGED disk
  BY AtWork DEF Approve, At
<1>2. PICK p \in call[s].asking :
         call' = [call EXCEPT ![s].asking = @ \ {p},
                              ![s].at = IF call[s].asking = {p} THEN "apply" ELSE "ask"]
  BY DEF Approve
<1> DEFINE place == IF call[s].asking = {p} THEN "apply" ELSE "ask"
           c == [call[s] EXCEPT !.asking = @ \ {p}, !.at = place]
<1>3. call' = [call EXCEPT ![s] = c]
  BY <1>2
<1>4. /\ c.at \in {"ask", "apply"} /\ c.plan = call[s].plan /\ c.req = call[s].req
      /\ c.left = call[s].left
  BY <1>1 DEF Calls
<1> HIDE DEF c
<1>5. call'[s] = c /\ \A t \in ToolSessions \ {s} : call'[t] = call[t]
  BY <1>3, MovedTo
<1>6. /\ StaysOnTargets(s) /\ FoundAsPlanned(s) /\ Targets(Req(s)) \subseteq Paths
      /\ OfFileTool(s)' = OfFileTool(s)
  BY <1>1, <1>4, <1>5, AtWork DEF IInv, FoundInv, OfFileTool, Tool, Req
<1>7. \A q : ~Looks(s, q)
  BY <1>1 DEF Looks, At
<1>8. call[s].left = DOMAIN call[s].plan /\ DOMAIN call[s].plan \subseteq Paths
  BY <1>1, <1>6 DEF StaysOnTargets, At
<1>9. \A q \in Paths : q \in missed[s] => q \in missed'[s]
  BY <1>4, <1>5, <1>7, WatchesTell
<1>10. LeftAlone(s)'
  BY <1>4, <1>5 DEF LeftAlone, At
<1>11. ASSUME OfFileTool(s), NEW q \in DOMAIN call[s].plan
       PROVE  disk'[q] \in Expected(call[s].plan[q]) \/ q \in missed'[s]
  BY <1>1, <1>6, <1>8, <1>9, <1>11 DEF FoundAsPlanned, StillToWrite, At
<1>12. FoundAsPlanned(s)'
  BY <1>4, <1>5, <1>6, <1>8, <1>11 DEF FoundAsPlanned, StillToWrite, IsWritten, At
<1> QED
  BY <1>5, <1>10, <1>12, FoundStep

LEMMA ApplyFound ==
  ASSUME IInv, FoundInv, Watches, NEW s \in ToolSessions, Apply(s)
  PROVE  FoundInv'
<1>1. call[s] \in Calls /\ call[s].at = "apply"
  BY AtWork DEF Apply, At
<1>2. PICK p \in call[s].left : ApplyTo(s, p)
  BY DEF Apply
<1>3. (\E new : Wrote(s, p, new)) \/ (\E new : Fails(s, new))
  BY <1>2 DEF ApplyTo
<1>4. ASSUME NEW new, Wrote(s, p, new) PROVE FoundInv'
  <2> DEFINE place == IF call[s].left = {p} THEN "store" ELSE call[s].at
             rest == IF call[s].left = {p} THEN DOMAIN call[s].plan ELSE call[s].left \ {p}
             c == [call[s] EXCEPT !.wrote = TRUE, !.at = place, !.left = rest]
  <2>1. call' = [call EXCEPT ![s] = c]
    BY <1>4 DEF Wrote
  <2>2. /\ c.at = place /\ c.plan = call[s].plan /\ c.req = call[s].req /\ c.left = rest
    BY <1>1 DEF Calls
  <2> HIDE DEF c
  <2>3. call'[s] = c /\ \A t \in ToolSessions \ {s} : call'[t] = call[t]
    BY <2>1, MovedTo
  <2>4. /\ StaysOnTargets(s) /\ FoundAsPlanned(s) /\ Targets(Req(s)) \subseteq Paths
        /\ OfFileTool(s)' = OfFileTool(s)
    BY <1>1, <2>2, <2>3, AtWork DEF IInv, FoundInv, OfFileTool, Tool, Req
  <2>5. \A q : ~Looks(s, q)
    BY <1>1 DEF Looks, At
  <2>6. /\ place \in {"store", "apply"} /\ (place = "store" <=> call[s].left = {p})
        /\ place = "apply" => rest = call[s].left \ {p}
    BY <1>1
  <2> HIDE DEF place, rest
  <2>7. ASSUME NEW q PROVE Writes(s, q) <=> q = p
    BY <1>1, <1>2, <2>2, <2>3, <2>6 DEF Writes, At
  <2>8. \A q \in Paths : /\ q # p => replaced'[s][q] = replaced[s][q]
                         /\ q = p => replaced'[s][q] = disk[q]
                         /\ q \in missed[s] \/ Slips(s, q) => q \in missed'[s]
    BY <2>2, <2>3, <2>5, <2>6, <2>7, WatchesTell
  <2>9. DOMAIN call[s].plan \subseteq Targets(Req(s)) /\ Tool(s) # "view"
    BY <1>1, <2>4 DEF StaysOnTargets, At
  <2>10. ASSUME OfFileTool(s), NEW q \in DOMAIN call[s].plan
         PROVE  /\ StillToWrite(s, q)' => disk'[q] \in Expected(call[s].plan[q]) \/ q \in missed'[s]
                /\ IsWritten(s, q)' => replaced'[s][q] \in Expected(call[s].plan[q]) \/ q \in missed'[s]
    <3>1. q \in Paths /\ q \in Targets(Req(s))
      BY <2>4, <2>9
    <3>2. /\ q \in call[s].left => disk[q] \in Expected(call[s].plan[q]) \/ q \in missed[s]
          /\ q \notin call[s].left =>
                replaced[s][q] \in Expected(call[s].plan[q]) \/ q \in missed[s]
      BY <1>1, <2>4, <2>10 DEF FoundAsPlanned, StillToWrite, IsWritten, At
    <3>3. StillToWrite(s, q)' <=> q \in call[s].left /\ q # p
      BY <1>2, <2>2, <2>3, <2>6 DEF StillToWrite, At
    <3>4. CASE q \in call[s].left /\ q # p
      <4>1. disk'[q] = disk[q] \/ Slips(s, q)
        BY <1>1, <2>7, <2>9, <3>1, <3>4 DEF Slips
      <4>2. ~IsWritten(s, q)'
        BY <2>2, <2>3, <2>6, <3>3, <3>4 DEF StillToWrite, IsWritten, At
      <4> QED
        BY <2>8, <3>1, <3>2, <3>4, <4>1, <4>2
    <3>5. CASE q = p
      BY <1>2, <2>8, <3>1, <3>2, <3>3, <3>5
    <3>6. CASE q \notin call[s].left /\ q # p
      BY <2>8, <3>1, <3>2, <3>3, <3>6
    <3> QED
      BY <3>4, <3>5, <3>6
  <2>11. LeftAlone(s)'
    BY <2>2, <2>3, <2>6 DEF LeftAlone, At
  <2>12. FoundAsPlanned(s)'
    BY <2>2, <2>3, <2>4, <2>10 DEF FoundAsPlanned
  <2> QED
    BY <2>3, <2>11, <2>12, FoundStep
<1>5. ASSUME NEW new, Fails(s, new) PROVE FoundInv'
  <2>1. call'[s] = Idle /\ \A t \in ToolSessions \ {s} : call'[t] = call[t]
    BY <1>5, MovedTo DEF Fails
  <2>2. call'[s].at = "idle"
    BY <2>1 DEF Idle
  <2> QED
    BY <2>1, <2>2, NothingPlanned, FoundStep
<1> QED
  BY <1>3, <1>4, <1>5

(* Afterwards what was found is remembered. *)
LEMMA RowsFound ==
  ASSUME IInv, FoundInv, Watches, NEW s \in ToolSessions,
         call[s].at \in {"store", "rows"}, call'[s].at \in {"store", "rows"},
         call'[s].plan = call[s].plan, call'[s].req = call[s].req,
         \A t \in ToolSessions \ {s} : call'[t] = call[t]
  PROVE  FoundInv'
<1>1. /\ call'[s].at \in {"store", "rows"} /\ call'[s].plan = call[s].plan
      /\ call'[s].req = call[s].req /\ \A t \in ToolSessions \ {s} : call'[t] = call[t]
  OBVIOUS
<1>2. /\ StaysOnTargets(s) /\ FoundAsPlanned(s) /\ Targets(Req(s)) \subseteq Paths
      /\ OfFileTool(s)' = OfFileTool(s)
  BY <1>1, AtWork DEF IInv, FoundInv, OfFileTool, Tool, Req
<1>3. \A q : ~Looks(s, q) /\ ~Writes(s, q)
  BY DEF Looks, Writes, At
<1>4. \A q \in Paths : /\ replaced'[s][q] = replaced[s][q]
                       /\ q \in missed[s] => q \in missed'[s]
  BY <1>1, <1>3, WatchesTell
<1>5. DOMAIN call[s].plan \subseteq Paths
  BY <1>2 DEF StaysOnTargets, At
<1>6. LeftAlone(s)'
  BY <1>1 DEF LeftAlone, At
<1>7. FoundAsPlanned(s)'
  BY <1>1, <1>2, <1>4, <1>5 DEF FoundAsPlanned, StillToWrite, IsWritten, At
<1> QED
  BY <1>1, <1>6, <1>7, FoundStep

LEMMA HistoryFound ==
  ASSUME IInv, FoundInv, Watches, NEW s \in ToolSessions,
         Store(s) \/ AddRow(s) \/ DatabaseFails(s) \/ Record(s)
  PROVE  FoundInv'
<1>1. call[s].at \in {"store", "rows"} /\ call[s] \in Calls
  <2>1. call[s].at \in {"store", "rows"}
    BY DEF Store, AddRow, DatabaseFails, Record, At
  <2> QED
    BY <2>1, AtWork
<1>2. ASSUME NEW p, NEW rows,
             call' = [call EXCEPT ![s].at = "rows", ![s].path = p, ![s].todo = rows]
      PROVE  FoundInv'
  <2> DEFINE c == [call[s] EXCEPT !.at = "rows", !.path = p, !.todo = rows]
  <2>1. c.at = "rows" /\ c.plan = call[s].plan /\ c.req = call[s].req
    BY <1>1 DEF Calls
  <2>2. call' = [call EXCEPT ![s] = c]
    BY <1>2
  <2> HIDE DEF c
  <2>3. call'[s] = c /\ \A t \in ToolSessions \ {s} : call'[t] = call[t]
    BY <2>2, MovedTo
  <2> QED
    BY <1>1, <2>1, <2>3, RowsFound
<1>3. ASSUME call' = [call EXCEPT ![s].todo = Tail(@)] PROVE FoundInv'
  <2> DEFINE c == [call[s] EXCEPT !.todo = Tail(@)]
  <2>1. c.at = call[s].at /\ c.plan = call[s].plan /\ c.req = call[s].req
    BY <1>1 DEF Calls
  <2>2. call' = [call EXCEPT ![s] = c]
    BY <1>3
  <2> HIDE DEF c
  <2>3. call'[s] = c /\ \A t \in ToolSessions \ {s} : call'[t] = call[t]
    BY <2>2, MovedTo
  <2> QED
    BY <1>1, <2>1, <2>3, RowsFound
<1>4. ASSUME NEW rest, call' = [call EXCEPT ![s].live = FALSE, ![s].todo = rest] PROVE FoundInv'
  <2> DEFINE c == [call[s] EXCEPT !.live = FALSE, !.todo = rest]
  <2>1. c.at = call[s].at /\ c.plan = call[s].plan /\ c.req = call[s].req
    BY <1>1 DEF Calls
  <2>2. call' = [call EXCEPT ![s] = c]
    BY <1>4
  <2> HIDE DEF c
  <2>3. call'[s] = c /\ \A t \in ToolSessions \ {s} : call'[t] = call[t]
    BY <2>2, MovedTo
  <2> QED
    BY <1>1, <2>1, <2>3, RowsFound
<1>5. ASSUME NEW p, call' = [call EXCEPT ![s].at = "store", ![s].left = @ \ {p}] PROVE FoundInv'
  <2> DEFINE c == [call[s] EXCEPT !.at = "store", !.left = @ \ {p}]
  <2>1. c.at = "store" /\ c.plan = call[s].plan /\ c.req = call[s].req
    BY <1>1 DEF Calls
  <2>2. call' = [call EXCEPT ![s] = c]
    BY <1>5
  <2> HIDE DEF c
  <2>3. call'[s] = c /\ \A t \in ToolSessions \ {s} : call'[t] = call[t]
    BY <2>2, MovedTo
  <2> QED
    BY <1>1, <2>1, <2>3, RowsFound
<1>6. CASE Store(s)
  BY <1>2, <1>6 DEF Store
<1>7. CASE AddRow(s)
  BY <1>3, <1>7, ReturnFound DEF AddRow
<1>8. CASE DatabaseFails(s)
  BY <1>4, <1>8, ReturnFound DEF DatabaseFails
<1>9. CASE Record(s)
  BY <1>1, <1>5, <1>9, ReturnFound, NextHelperFound DEF Record
<1> QED
  BY <1>6, <1>7, <1>8, <1>9

LEMMA FoundStarts == ToolsInit => FoundInv
<1> SUFFICES ASSUME ToolsInit PROVE FoundInv
  OBVIOUS
<1>1. \A s \in ToolSessions : call[s].at = "idle"
  BY DEF ToolsInit, Idle
<1> QED
  BY <1>1 DEF FoundInv, LeftAlone, FoundAsPlanned, At

LEMMA FoundGoesOn == IInv /\ FoundInv /\ [ToolsNext]_toolsVars => FoundInv'
<1> SUFFICES ASSUME IInv, FoundInv, [ToolsNext]_toolsVars PROVE FoundInv'
  OBVIOUS
<1>1. CASE UNCHANGED toolsVars
  <2>1. UNCHANGED <<disk, call, replaced, missed>>
    BY <1>1 DEF toolsVars
  <2> QED
    BY <2>1 DEF FoundInv, LeftAlone, FoundAsPlanned, StillToWrite, IsWritten, ToBeNew, At, OfFileTool,
                Tool, Req, Targets, Helper, Expected
<1>2. CASE ToolsNext
  <2>1. Moves /\ Watches
    BY <1>2 DEF ToolsNext
  <2>2. ASSUME NEW s \in ToolSessions, NEW req \in ToolRequests[s], StartCall(s, req)
        PROVE  FoundInv'
    BY <2>1, <2>2, StartFound
  <2>3. ASSUME NEW s \in ToolSessions, Stat(s) \/ Read(s) PROVE FoundInv'
    BY <2>1, <2>3, StatFound, ReadFound
  <2>4. ASSUME NEW s \in ToolSessions, Approve(s) PROVE FoundInv'
    BY <2>1, <2>4, ApproveFound
  <2>5. ASSUME NEW s \in ToolSessions, Deny(s) PROVE FoundInv'
    BY <2>1, <2>5, ReturnFound DEF Deny
  <2>6. ASSUME NEW s \in ToolSessions, Apply(s) PROVE FoundInv'
    BY <2>1, <2>6, ApplyFound
  <2>7. ASSUME NEW s \in ToolSessions, Store(s) \/ AddRow(s) \/ DatabaseFails(s) \/ Record(s)
        PROVE  FoundInv'
    BY <2>1, <2>7, HistoryFound
  <2>8. ASSUME call' = call PROVE FoundInv'
    BY <2>1, <2>8, RestOfFound DEF FoundInv
  <2>9. CASE (\E p \in Paths : Outside(p)) \/ Rest
    BY <2>8, <2>9 DEF Outside, Rest, toolsVars
  <2> QED
    BY <2>1, <2>2, <2>3, <2>4, <2>5, <2>6, <2>7, <2>9 DEF Moves
<1> QED
  BY <1>1, <1>2

-----------------------------------------------------------------------------

(* The invariant holds in every state, whatever the sessions ask of the tools *)
(* of edit.go, write.go, patch.go and view.go, and whatever else changes the  *)
(* files.                                                                     *)
THEOREM Invariance == ToolsSpec => []IInv
BY InitInvariant, StepInvariant, PTL DEF ToolsSpec

(* Every variable has its type: plans stay within the paths of the request, *)
(* and rows of the history have versions that count from zero.              *)
THEOREM TypeCorrect == ToolsSpec => []ToolsTypeOK
<1> DEFINE Remembered == /\ replaced \in [ToolSessions -> [Paths -> {Gone} \cup SUBSET Lines]]
                         /\ missed \in [ToolSessions -> SUBSET Paths]
<1>1. ToolsInit => Remembered
  BY DEF ToolsInit
<1>2. IInv /\ Remembered /\ [ToolsNext]_toolsVars => Remembered'
  <2> SUFFICES ASSUME IInv, Remembered, [ToolsNext]_toolsVars PROVE Remembered'
    OBVIOUS
  <2>1. CASE UNCHANGED toolsVars
    BY <2>1 DEF toolsVars
  <2>2. CASE ToolsNext
    <3>1. disk \in [Paths -> {Gone} \cup SUBSET Lines]
      BY DEF IInv, StateTypeOK
    <3>2. replaced' \in [ToolSessions -> [Paths -> {Gone} \cup SUBSET Lines]]
      <4>1. replaced' = [s \in ToolSessions |-> [p \in Paths |->
               IF At(s, "idle")' THEN Gone ELSE IF Writes(s, p) THEN disk[p] ELSE replaced[s][p]]]
        BY <2>2 DEF ToolsNext, Watches
      <4>2. ASSUME NEW s \in ToolSessions
            PROVE  [p \in Paths |-> IF At(s, "idle")' THEN Gone
                       ELSE IF Writes(s, p) THEN disk[p] ELSE replaced[s][p]]
                   \in [Paths -> {Gone} \cup SUBSET Lines]
        BY <3>1
      <4> QED
        BY <4>1, <4>2
    <3>3. missed' \in [ToolSessions -> SUBSET Paths]
      BY <2>2 DEF ToolsNext, Watches
    <3> QED
      BY <3>2, <3>3
  <2> QED
    BY <2>1, <2>2
<1>3. IInv /\ Remembered => ToolsTypeOK
  BY DEF IInv, ToolsTypeOK
<1> QED
  BY <1>1, <1>2, <1>3, Invariance, PTL DEF ToolsSpec

(* No tool replaces or removes a content that nobody has seen, unless it came *)
(* while a call was at work on the file: the one table of read times in       *)
(* file.go is enough for any number of sessions.                              *)
THEOREM KnownIsOverwritten == ToolsSpec => OverwritesOnlyKnown
<1> DEFINE Spares == \A s \in ToolSessions : \A p \in Paths :
                        (/\ At(s, "apply") /\ disk'[p] # disk[p] /\ call'[s] # call[s]
                         /\ p \in DOMAIN call[s].plan /\ Exists(p))
                        => known[p] # "blind"
<1>1. IInv => Spares
  <2> SUFFICES ASSUME IInv, NEW s \in ToolSessions, NEW p \in Paths, At(s, "apply"),
                      p \in DOMAIN call[s].plan, Exists(p)
               PROVE  known[p] # "blind"
    OBVIOUS
  <2>1. TargetsAreKnown(s) /\ StaysOnTargets(s)
    BY DEF IInv
  <2> QED
    BY <2>1 DEF TargetsAreKnown, StaysOnTargets, At
<1> HIDE DEF Spares
<1>2. IInv /\ [ToolsNext]_toolsVars => [Spares]_toolsVars
  BY <1>1
<1>3. ToolsSpec => [][Spares]_toolsVars
  BY <1>2, Invariance, PTL DEF ToolsSpec
<1> QED
  BY <1>3 DEF OverwritesOnlyKnown, Spares

(* A patch that is denied in any of its files has changed none of them: patch.go *)
(* asks for every file before it writes the first.                               *)
THEOREM DenialChangesNothing == ToolsSpec => []DeniedPatchChangesNothing
<1>1. IInv => DeniedPatchChangesNothing
  BY DEF IInv
<1> QED
  BY <1>1, Invariance, PTL

(* The inductive invariant of the history: what edit, write and patch (edit.go,  *)
(* write.go, patch.go) are to leave there is stored, waits to be added, or finds *)
(* no free number; and what a call writes over is what its plan says, unless the *)
(* file changed after the call's last look at it.                                *)
THEOREM HistoryInvariance == ToolsSpec => [](HistoryInv /\ FoundInv)
BY Invariance, HistoryStarts, HistoryGoesOn, FoundStarts, FoundGoesOn, PTL DEF ToolsSpec

(* When a change has been stored, the session's history has the content that was    *)
(* on the disk when the change was written and the content it wrote                 *)
(* (history/file.go), for edit, write and patch and for any sessions, requests,     *)
(* seconds and length of the history.  A change of the file that the call missed,   *)
(* between its last look and its writing, is overwritten and not in the history.    *)
THEOREM ChangesCanBeUndone == ToolsSpec => []HistoryHasBoth
<1>1. IInv /\ HistoryInv /\ FoundInv => HistoryHasBoth
  <2> SUFFICES ASSUME IInv, HistoryInv, FoundInv, NEW s \in ToolSessions, At(s, "rows"),
                      call[s].todo = <<>>, call[s].live, Tool(s) # "view"
               PROVE  LET p == call[s].path
                          c == call[s].plan[p]
                      IN \/ /\ replaced[s][p] \in Stored(s, p) \cup {Gone} \/ p \in missed[s]
                            /\ c.kind = "delete" \/ c.new \in Stored(s, p)
                         \/ Overtaken(s, p)
    BY DEF HistoryHasBoth
  <2> DEFINE p == call[s].path
             c == call[s].plan[p]
  <2>1. RowsAreKept(s) /\ FoundAsPlanned(s)
    BY DEF HistoryInv, FoundInv
  <2>2. \A content : ~Awaits(s, content)
    <3>1. DOMAIN call[s].todo = {}
      BY EmptySeq, LenProperties
    <3> QED
      BY <3>1 DEF Awaits
  <2>3. /\ p \in DOMAIN call[s].plan
        /\ \/ /\ c.kind = "add" \/ c.old \in Stored(s, p)
              /\ c.kind = "delete" \/ c.new \in Stored(s, p)
           \/ Overtaken(s, p)
    BY <2>1, <2>2 DEF RowsAreKept, Kept, OfFileTool
  <2>4. replaced[s][p] \in Expected(c) \/ p \in missed[s]
    BY <2>1, <2>3 DEF FoundAsPlanned, IsWritten, OfFileTool, At
  <2> HIDE DEF p, c
  <2>5. \/ /\ replaced[s][p] \in Stored(s, p) \cup {Gone} \/ p \in missed[s]
           /\ c.kind = "delete" \/ c.new \in Stored(s, p)
        \/ Overtaken(s, p)
    BY <2>3, <2>4 DEF Expected
  <2> QED
    BY <2>5 DEF p, c
<1> QED
  BY <1>1, Invariance, HistoryInvariance, PTL
=============================================================================
