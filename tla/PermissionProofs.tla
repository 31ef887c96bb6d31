--------------------------- MODULE PermissionProofs ---------------------------
(***************************************************************************)
(* Proofs about the permission service, for any number of requests,        *)
(* scopes, sessions and answering goroutines.                              *)
(*                                                                         *)
(* The inductive invariant IInv relates the three places an answer can be  *)
(* in (a goroutine's job, the request's channel, the returned verdict) to  *)
(* the history of what was said, and what the service remembers to the     *)
(* answers it was told to remember.                                        *)
(***************************************************************************)
EXTENDS Permission, TLAPS

(* A call that has not left its select has no verdict yet. *)
UndecidedBeforeReturn ==
    \A r \in Requests :
        pc[r] \in {"idle", "match", "store", "publish", "wait"} => verdict[r] = "none"

(* What an answering goroutine works on has been said, and the places after
   the send are reached only with the kind of answer that goes there. *)
JobsWereSaid ==
    \A a \in Answerers :
        /\ apc[a] = "idle" <=> job[a] = NoJob
        /\ apc[a] # "idle" => job[a] \in said
        /\ apc[a] \in {"append", "writeback"} => job[a].kind = "allow_session"
        /\ apc[a] = "trust" => job[a].kind = "trust"

(* A request is answered at most once, and only after it was shown. *)
AnsweredOnce ==
    /\ queue \cap shown = {}
    /\ \A a, b \in said : a.req = b.req => a = b
    /\ \A a \in said : a.req \notin queue \cup shown
    /\ \A a \in said : pc[a.req] \in {"wait", "return", "done"}

(* A channel holds the answer that was given, and nothing else. *)
ChannelsCarryAnswers ==
    \A r \in Requests : respCh[r] # "empty" =>
        \E a \in said : a.req = r /\ (respCh[r] = "deny" <=> a.kind = "deny")

(* While a request is still on its way to an answer it is not allowed. *)
ShownUndecided == \A r \in queue \cup shown : verdict[r] # "allow"

Consented(scope) ==
    \E a \in said : a.kind = "allow_session" /\ ScopeOf[a.req] = scope

(* The service remembers only scopes somebody consented to. *)
RememberedWasSaid ==
    /\ \A s \in sessionPermissions : Consented(s)
    /\ \A a \in Answerers : \A s \in copy[a] : Consented(s)

(* It trusts only headless sessions and those somebody trusted. *)
TrustWasSaid ==
    \A s \in autoApproveSessions :
        \/ s \in Headless
        \/ \E a \in said : a.kind = "trust" /\ SessionOf[ScopeOf[a.req]] = s

IInv ==
    /\ TypeOK
    /\ PendingIsLive
    /\ UndecidedBeforeReturn
    /\ JobsWereSaid
    /\ AnsweredOnce
    /\ ChannelsCarryAnswers
    /\ ShownUndecided
    /\ RememberedWasSaid
    /\ TrustWasSaid
    /\ VerdictHasAuthority
    /\ DeniedStaysDenied

-----------------------------------------------------------------------------
(* What "authorised" and the invariants' data range over, opened up in every
   step below. *)
USE ConstantsAssumption, OfferedAssumption
    DEF Kinds, Answers, Requirement!Kinds, Requirement!Answers,
        Requirement!Authorised, serviceVars, brokerVars, toolVars, frontVars,
        vars, Goto, Decide, Settle, Finish

LEMMA InitInvariant == Init => IInv
<1> SUFFICES ASSUME Init PROVE IInv
  OBVIOUS
<1>1. TypeOK /\ PendingIsLive /\ UndecidedBeforeReturn
  BY DEF Init, TypeOK, PendingIsLive, UndecidedBeforeReturn
<1>2. JobsWereSaid /\ AnsweredOnce /\ ChannelsCarryAnswers /\ ShownUndecided
  BY DEF Init, JobsWereSaid, AnsweredOnce, ChannelsCarryAnswers, ShownUndecided
<1>3. RememberedWasSaid /\ TrustWasSaid
  BY DEF Init, RememberedWasSaid, TrustWasSaid
<1>4. VerdictHasAuthority /\ DeniedStaysDenied
  BY DEF Init, VerdictHasAuthority, DeniedStaysDenied
<1> QED
  BY <1>1, <1>2, <1>3, <1>4 DEF IInv

(* Both of Request's checks can end the call: it was never shown to anybody
   then, so no refusal of it can exist. *)
LEMMA ApprovedAtOnce ==
    ASSUME NEW r \in Requests, IInv, Requirement!Authorised(r),
           pc[r] \in {"idle", "match"}, ReturnsAtOnce(r),
           UNCHANGED <<serviceVars, brokerVars, frontVars>>
    PROVE  IInv'
<1> USE DEF ReturnsAtOnce, IInv
<1>1. TypeOK' /\ PendingIsLive' /\ UndecidedBeforeReturn'
  BY DEF TypeOK, PendingIsLive, UndecidedBeforeReturn
<1>2. JobsWereSaid' /\ ChannelsCarryAnswers' /\ RememberedWasSaid' /\ TrustWasSaid'
  BY DEF JobsWereSaid, ChannelsCarryAnswers, RememberedWasSaid, Consented, TrustWasSaid
<1>3. AnsweredOnce' /\ ShownUndecided' /\ DeniedStaysDenied'
  BY DEF TypeOK, AnsweredOnce, PendingIsLive, ShownUndecided, DeniedStaysDenied
<1>4. VerdictHasAuthority'
  BY DEF TypeOK, VerdictHasAuthority
<1> QED
  BY <1>1, <1>2, <1>3, <1>4

(* The check falls through: only the call's place changes. *)
LEMMA GoesOn ==
    ASSUME NEW r \in Requests, IInv,
           \/ pc[r] = "idle" /\ Goto(r, "match")
           \/ pc[r] = "match" /\ Goto(r, "store"),
           UNCHANGED <<serviceVars, brokerVars, verdict, frontVars>>
    PROVE  IInv'
<1> USE DEF IInv
<1>1. TypeOK' /\ PendingIsLive' /\ UndecidedBeforeReturn'
  BY DEF TypeOK, PendingIsLive, UndecidedBeforeReturn
<1>2. JobsWereSaid' /\ ChannelsCarryAnswers' /\ RememberedWasSaid' /\ TrustWasSaid'
  BY DEF JobsWereSaid, ChannelsCarryAnswers, RememberedWasSaid, Consented, TrustWasSaid
<1>3. AnsweredOnce'
  BY DEF TypeOK, AnsweredOnce
<1>4. ShownUndecided' /\ VerdictHasAuthority' /\ DeniedStaysDenied'
  BY DEF ShownUndecided, VerdictHasAuthority, DeniedStaysDenied
<1> QED
  BY <1>1, <1>2, <1>3, <1>4

LEMMA CheckAutoApproveStep ==
    ASSUME NEW r \in Requests, IInv, CheckAutoApprove(r)
    PROVE  IInv'
<1>1. CASE SessionOf[ScopeOf[r]] \in autoApproveSessions
  <2>1. Requirement!Authorised(r)
    BY <1>1 DEF IInv, TrustWasSaid
  <2> QED
    BY <1>1, <2>1, ApprovedAtOnce DEF CheckAutoApprove
<1>2. CASE SessionOf[ScopeOf[r]] \notin autoApproveSessions
  BY <1>2, GoesOn DEF CheckAutoApprove
<1> QED
  BY <1>1, <1>2

LEMMA MatchSessionPermissionsStep ==
    ASSUME NEW r \in Requests, IInv, MatchSessionPermissions(r)
    PROVE  IInv'
<1>1. CASE Covered(r)
  <2>1. Requirement!Authorised(r)
    BY <1>1 DEF Covered, IInv, RememberedWasSaid, Consented
  <2> QED
    BY <1>1, <2>1, ApprovedAtOnce DEF MatchSessionPermissions
<1>2. CASE ~Covered(r)
  BY <1>2, GoesOn DEF MatchSessionPermissions
<1> QED
  BY <1>1, <1>2

(* The channel send: what goes into the channel is the job, which was said;
   that the request was answered once makes it the only answer there is. *)
LEMMA SendAnswerStep ==
    ASSUME NEW a \in Answerers, IInv, SendAnswer(a)
    PROVE  IInv'
<1> USE DEF IInv
<1>1. /\ apc[a] = "send"
      /\ job[a] \in said
      /\ job[a].req \in Requests
      /\ respCh[job[a].req] = "empty"
  BY DEF SendAnswer, HasRoom, JobsWereSaid, TypeOK
<1>2. respCh' = [respCh EXCEPT ![job[a].req] =
                   IF job[a].kind = "deny" THEN "deny" ELSE "allow"]
  BY DEF SendAnswer
<1>3. UNCHANGED <<autoApproveSessions, sessionPermissions, pending, closing,
                  brokerVars, toolVars, shown, copy, said>>
  BY DEF SendAnswer
<1>4. \/ /\ job[a].kind = "allow_session"
         /\ apc' = [apc EXCEPT ![a] = "append"] /\ job' = job
      \/ /\ job[a].kind = "trust"
         /\ apc' = [apc EXCEPT ![a] = "trust"] /\ job' = job
      \/ apc' = [apc EXCEPT ![a] = "idle"] /\ job' = [job EXCEPT ![a] = NoJob]
  BY DEF SendAnswer, AfterSend
<1>5. TypeOK'
  BY <1>1, <1>2, <1>3, <1>4 DEF TypeOK
<1>6. JobsWereSaid'
  BY <1>1, <1>3, <1>4 DEF JobsWereSaid, TypeOK
<1>7. ChannelsCarryAnswers'
  BY <1>1, <1>2, <1>3 DEF ChannelsCarryAnswers, TypeOK
<1>8. /\ PendingIsLive' /\ UndecidedBeforeReturn' /\ AnsweredOnce'
      /\ ShownUndecided' /\ RememberedWasSaid' /\ TrustWasSaid'
      /\ VerdictHasAuthority' /\ DeniedStaysDenied'
  BY <1>3 DEF PendingIsLive, UndecidedBeforeReturn, AnsweredOnce, ShownUndecided,
       RememberedWasSaid, Consented, TrustWasSaid, VerdictHasAuthority,
       DeniedStaysDenied
<1> QED
  BY <1>5, <1>6, <1>7, <1>8

(* Every step keeps the invariant. *)
LEMMA NextInvariant == IInv /\ [Next]_vars => IInv'
<1> SUFFICES ASSUME IInv, [Next]_vars PROVE IInv'
  OBVIOUS
<1> USE DEF IInv, TypeOK, PendingIsLive, UndecidedBeforeReturn, JobsWereSaid,
            AnsweredOnce, ChannelsCarryAnswers, ShownUndecided, RememberedWasSaid,
            Consented, TrustWasSaid, VerdictHasAuthority, DeniedStaysDenied
<1>1. ASSUME NEW r \in Requests, CheckAutoApprove(r) PROVE IInv'
  BY <1>1, CheckAutoApproveStep
<1>2. ASSUME NEW r \in Requests, MatchSessionPermissions(r) PROVE IInv'
  BY <1>2, MatchSessionPermissionsStep
<1>3. ASSUME NEW r \in Requests, StorePending(r) PROVE IInv'
  BY <1>3 DEF StorePending
<1>4. ASSUME NEW r \in Requests, Publish(r) PROVE IInv'
  BY <1>4 DEF Publish
<1>5. ASSUME NEW r \in Requests, ReceiveAnswer(r) PROVE IInv'
  BY <1>5 DEF ReceiveAnswer
<1>6. ASSUME NEW r \in Requests, ReleaseOnShutdown(r) PROVE IInv'
  BY <1>6 DEF ReleaseOnShutdown, GiveUp
<1>7. ASSUME NEW r \in Requests, Return(r) PROVE IInv'
  BY <1>7 DEF Return
<1>8. ASSUME NEW r \in Requests, TimeOut(r) PROVE IInv'
  BY <1>8 DEF TimeOut, GiveUp
<1>9. ASSUME NEW r \in Requests, TakeEvent(r) PROVE IInv'
  BY <1>9 DEF TakeEvent
<1>10. ASSUME NEW a \in Answerers, SendAnswer(a) PROVE IInv'
  BY <1>10, SendAnswerStep
<1>11. ASSUME NEW a \in Answerers, LoadPending(a) PROVE IInv'
  BY <1>11 DEF LoadPending, AfterSend
<1>12. ASSUME NEW a \in Answerers, ReadSessionPermissions(a) PROVE IInv'
  BY <1>12 DEF ReadSessionPermissions
<1>13. ASSUME NEW a \in Answerers, WriteSessionPermissions(a) PROVE IInv'
  BY <1>13 DEF WriteSessionPermissions
<1>14. ASSUME NEW a \in Answerers, TrustSession(a) PROVE IInv'
  BY <1>14 DEF TrustSession
<1>15. ASSUME NEW a \in Answerers, NEW r \in Requests, NEW k \in Offered,
             Answer(a, r, k)
      PROVE  IInv'
  BY <1>15 DEF Answer
<1>16. ASSUME NEW s \in Sessions, TrustHeadless(s) PROVE IInv'
  BY <1>16 DEF TrustHeadless
<1>17. CASE Subscribe
  BY <1>17 DEF Subscribe
<1>18. CASE Shutdown
  BY <1>18 DEF Shutdown
<1>19. CASE UNCHANGED vars
  BY <1>19
<1> QED
  BY <1>1, <1>2, <1>3, <1>4, <1>5, <1>6, <1>7, <1>8, <1>9, <1>10, <1>11,
     <1>12, <1>13, <1>14, <1>15, <1>16, <1>17, <1>18, <1>19
     DEF Next, ToolStep, AnswererStep

THEOREM Invariance == Spec => []IInv
<1>1. Init => IInv
  BY InitInvariant
<1>2. IInv /\ [Next]_vars => IInv'
  BY NextInvariant
<1> QED
  BY <1>1, <1>2, PTL DEF Spec

(* Type correctness of the permission service. *)
THEOREM TypeCorrect == Spec => []TypeOK
BY Invariance, PTL DEF IInv

(* No tool is ever told yes without grounds. *)
THEOREM Authority == Spec => []VerdictHasAuthority
BY Invariance, PTL DEF IInv

(* No refused request ever comes back allowed. *)
THEOREM RefusalHolds == Spec => []DeniedStaysDenied
BY Invariance, PTL DEF IInv

(* The pending map holds exactly the calls that can still be answered. *)
THEOREM PendingExact == Spec => []PendingIsLive
BY Invariance, PTL DEF IInv

-----------------------------------------------------------------------------
(* Implementation of Approval: a call that returns yes allows the request,
   one that returns no refuses it, an answer is said, and everything else is
   a stutter. *)
LEMMA StepImplements ==
    IInv /\ IInv' /\ [Next]_vars => [Requirement!Next]_<<said, verdict>>
<1> SUFFICES ASSUME IInv, IInv', [Next]_vars
             PROVE  [Requirement!Next]_<<said, verdict>>
  OBVIOUS
<1> USE DEF IInv, TypeOK
<1>1. ASSUME NEW r \in Requests,
             verdict[r] = "none", verdict' = [verdict EXCEPT ![r] = "allow"],
             UNCHANGED said
      PROVE  Requirement!Next
  <2>1. Requirement!Authorised(r)
    BY <1>1 DEF VerdictHasAuthority
  <2>2. Requirement!Allow(r)
    BY <1>1, <2>1 DEF Requirement!Allow
  <2> QED
    BY <2>2 DEF Requirement!Next
<1>2. ASSUME NEW r \in Requests,
             verdict[r] = "none", verdict' = [verdict EXCEPT ![r] = "deny"],
             UNCHANGED said
      PROVE  Requirement!Next
  BY <1>2 DEF Requirement!Next, Requirement!Refuse
<1>3. ASSUME NEW r \in Requests, CheckAutoApprove(r) \/ MatchSessionPermissions(r)
      PROVE  [Requirement!Next]_<<said, verdict>>
  <2>1. verdict[r] = "none"
    BY <1>3 DEF CheckAutoApprove, MatchSessionPermissions, UndecidedBeforeReturn
  <2>2. \/ verdict' = [verdict EXCEPT ![r] = "allow"]
        \/ UNCHANGED verdict
    BY <1>3 DEF CheckAutoApprove, MatchSessionPermissions, ReturnsAtOnce
  <2>3. UNCHANGED said
    BY <1>3 DEF CheckAutoApprove, MatchSessionPermissions
  <2> QED
    BY <2>1, <2>2, <2>3, <1>1
<1>4. ASSUME NEW r \in Requests, ReceiveAnswer(r)
      PROVE  Requirement!Next
  <2>1. verdict[r] = "none" /\ UNCHANGED said
    BY <1>4 DEF ReceiveAnswer, UndecidedBeforeReturn
  <2>2. CASE respCh[r] = "allow"
    BY <1>4, <2>1, <2>2, <1>1 DEF ReceiveAnswer
  <2>3. CASE respCh[r] = "deny"
    BY <1>4, <2>1, <2>3, <1>2 DEF ReceiveAnswer
  <2> QED
    BY <1>4, <2>2, <2>3 DEF ReceiveAnswer
<1>5. ASSUME NEW r \in Requests, ReleaseOnShutdown(r) \/ TimeOut(r)
      PROVE  Requirement!Next
  BY <1>5, <1>2 DEF ReleaseOnShutdown, TimeOut, GiveUp, UndecidedBeforeReturn
<1>6. ASSUME NEW a \in Answerers, NEW r \in Requests, NEW k \in Offered,
             Answer(a, r, k)
      PROVE  Requirement!Next
  BY <1>6 DEF Answer, Requirement!Next, Requirement!Say
<1>7. ASSUME NEW r \in Requests,
             StorePending(r) \/ Publish(r) \/ Return(r) \/ TakeEvent(r)
      PROVE  UNCHANGED <<said, verdict>>
  BY <1>7 DEF StorePending, Publish, Return, TakeEvent
<1>8. ASSUME NEW a \in Answerers, AnswererStep(a)
      PROVE  UNCHANGED <<said, verdict>>
  BY <1>8 DEF AnswererStep, LoadPending, SendAnswer, ReadSessionPermissions,
       WriteSessionPermissions, TrustSession
<1>9. ASSUME NEW s \in Sessions, TrustHeadless(s)
      PROVE  UNCHANGED <<said, verdict>>
  BY <1>9 DEF TrustHeadless
<1>10. Subscribe \/ Shutdown \/ UNCHANGED vars => UNCHANGED <<said, verdict>>
  BY DEF Subscribe, Shutdown
<1> QED
  BY <1>3, <1>4, <1>5, <1>6, <1>7, <1>8, <1>9, <1>10 DEF Next, ToolStep

(* The permission service implements the promise of Approval.tla. *)
THEOREM Implementation == Spec => ImplementsApproval
<1>1. Init => Requirement!Init
  BY DEF Init, Requirement!Init
<1>2. IInv /\ IInv' /\ [Next]_vars => [Requirement!Next]_<<said, verdict>>
  BY StepImplements
<1> QED
  BY <1>1, <1>2, Invariance, PTL DEF Spec, ImplementsApproval, Requirement!Spec
=============================================================================
