---------------------------- MODULE AgentProofs ----------------------------
(***************************************************************************)
(* The safety invariants of Agent.tla, for any number of sessions, turns   *)
(* and summaries.                                                          *)
(***************************************************************************)
EXTENDS Agent, TLAPS

\* Two jobs of one kind and one session in flight together know of it.
OverlapIsSeen ==
    \A j \in Jobs : InFlight(j) => \A k \in Beside(j) : j \in overlapped

\* A result is handed over after the entry is given back, or by a panic.
HeardIsOver == \A t \in heard : pc[t] \in {"ended", "panicked"}

(* The inductive invariant.  WorkIsCancellable alone is not inductive: that a
   Delete cannot remove the entry of a turn which overlaps nothing needs
   OverlapIsSeen. *)
IInv ==
    /\ TypeOK
    /\ EntriesAreLive
    /\ OverlapIsSeen
    /\ WorkIsCancellable
    /\ HeardIsOver

LEMMA InitInvariant == Init => IInv
<1> SUFFICES ASSUME Init PROVE IInv
  OBVIOUS
<1> USE ConstantsAssumption DEF Init
<1>1. TypeOK
  BY DEF TypeOK, Jobs
<1>2. EntriesAreLive
  BY DEF EntriesAreLive
<1>3. OverlapIsSeen /\ WorkIsCancellable /\ HeardIsOver
  BY DEF OverlapIsSeen, WorkIsCancellable, HeardIsOver, InFlight
<1> QED
  BY <1>1, <1>2, <1>3 DEF IInv

LEMMA TypeStep == TypeOK /\ [Next]_vars => TypeOK'
<1> SUFFICES ASSUME TypeOK, [Next]_vars PROVE TypeOK'
  OBVIOUS
<1> USE ConstantsAssumption DEF TypeOK, Jobs, Goto, maps, callers
<1>1. ASSUME NEW t \in Turns, CheckBusy(t) PROVE TypeOK'
  BY <1>1 DEF CheckBusy
<1>2. ASSUME NEW t \in Turns, StoreTurn(t) PROVE TypeOK'
  BY <1>2 DEF StoreTurn, Beside
<1>3. ASSUME NEW t \in Turns, FinishTurn(t) PROVE TypeOK'
  BY <1>3 DEF FinishTurn
<1>4. ASSUME NEW t \in Turns, FreeTurn(t) PROVE TypeOK'
  BY <1>4 DEF FreeTurn
<1>5. ASSUME NEW t \in Turns, Deliver(t) PROVE TypeOK'
  BY <1>5 DEF Deliver
<1>6. ASSUME NEW t \in Turns, Panic(t) \/ DeliverPanic(t) \/ Leave(t) PROVE TypeOK'
  BY <1>6 DEF Panic, DeliverPanic, Leave
<1>7. ASSUME NEW s \in Sessions, CancelTurn(s) PROVE TypeOK'
  BY <1>7 DEF CancelTurn
<1>8. ASSUME NEW s \in Sessions, CancelSummary(s) PROVE TypeOK'
  BY <1>8 DEF CancelSummary
<1>9. ASSUME NEW x \in Summaries, CheckBusySummary(x) PROVE TypeOK'
  BY <1>9 DEF CheckBusySummary
<1>10. ASSUME NEW x \in Summaries, StoreSummary(x) PROVE TypeOK'
  BY <1>10 DEF StoreSummary, Beside
<1>11. ASSUME NEW x \in Summaries, FinishSummary(x) \/ FreeSummary(x) PROVE TypeOK'
  BY <1>11 DEF FinishSummary, FreeSummary
<1>12. CASE UNCHANGED vars
  BY <1>12 DEF vars
<1> QED
  BY <1>1, <1>2, <1>3, <1>4, <1>5, <1>6, <1>7, <1>8, <1>9, <1>10, <1>11, <1>12
     DEF Next, TurnStep, SummaryStep

(* Giving an entry back, or taking it away, never leaves one behind. *)
LEMMA EntriesStep == TypeOK /\ EntriesAreLive /\ [Next]_vars => EntriesAreLive'
<1> SUFFICES ASSUME TypeOK, EntriesAreLive, [Next]_vars PROVE EntriesAreLive'
  OBVIOUS
<1> USE ConstantsAssumption DEF TypeOK, EntriesAreLive, InFlight, Jobs, Goto, maps, callers
<1>1. ASSUME NEW t \in Turns, CheckBusy(t) PROVE EntriesAreLive'
  BY <1>1 DEF CheckBusy
<1>2. ASSUME NEW t \in Turns, StoreTurn(t) PROVE EntriesAreLive'
  BY <1>2 DEF StoreTurn
<1>3. ASSUME NEW t \in Turns, FinishTurn(t) PROVE EntriesAreLive'
  BY <1>3 DEF FinishTurn
<1>4. ASSUME NEW t \in Turns, FreeTurn(t) PROVE EntriesAreLive'
  BY <1>4 DEF FreeTurn
<1>5. ASSUME NEW t \in Turns, Deliver(t) PROVE EntriesAreLive'
  BY <1>5 DEF Deliver
<1>6. ASSUME NEW t \in Turns, Panic(t) \/ DeliverPanic(t) \/ Leave(t) PROVE EntriesAreLive'
  BY <1>6 DEF Panic, DeliverPanic, Leave
<1>7. ASSUME NEW s \in Sessions, CancelTurn(s) PROVE EntriesAreLive'
  BY <1>7 DEF CancelTurn
<1>8. ASSUME NEW s \in Sessions, CancelSummary(s) PROVE EntriesAreLive'
  BY <1>8 DEF CancelSummary
<1>9. ASSUME NEW x \in Summaries, CheckBusySummary(x) PROVE EntriesAreLive'
  BY <1>9 DEF CheckBusySummary
<1>10. ASSUME NEW x \in Summaries, StoreSummary(x) PROVE EntriesAreLive'
  BY <1>10 DEF StoreSummary
<1>11. ASSUME NEW x \in Summaries, FinishSummary(x) PROVE EntriesAreLive'
  BY <1>11 DEF FinishSummary
<1>12. ASSUME NEW x \in Summaries, FreeSummary(x) PROVE EntriesAreLive'
  BY <1>12 DEF FreeSummary
<1>13. CASE UNCHANGED vars
  BY <1>13 DEF vars
<1> QED
  BY <1>1, <1>2, <1>3, <1>4, <1>5, <1>6, <1>7, <1>8, <1>9, <1>10, <1>11, <1>12, <1>13
     DEF Next, TurnStep, SummaryStep

LEMMA HeardStep == TypeOK /\ HeardIsOver /\ [Next]_vars => HeardIsOver'
<1> SUFFICES ASSUME TypeOK, HeardIsOver, [Next]_vars PROVE HeardIsOver'
  OBVIOUS
<1> USE ConstantsAssumption DEF TypeOK, HeardIsOver, Jobs, Goto, maps, callers
<1>1. ASSUME NEW t \in Turns, CheckBusy(t) PROVE HeardIsOver'
  BY <1>1 DEF CheckBusy
<1>2. ASSUME NEW t \in Turns, StoreTurn(t) PROVE HeardIsOver'
  BY <1>2 DEF StoreTurn
<1>3. ASSUME NEW t \in Turns, FinishTurn(t) PROVE HeardIsOver'
  BY <1>3 DEF FinishTurn
<1>4. ASSUME NEW t \in Turns, FreeTurn(t) PROVE HeardIsOver'
  BY <1>4 DEF FreeTurn
<1>5. ASSUME NEW t \in Turns, Deliver(t) PROVE HeardIsOver'
  BY <1>5 DEF Deliver
<1>6. ASSUME NEW t \in Turns, Panic(t) \/ DeliverPanic(t) \/ Leave(t) PROVE HeardIsOver'
  BY <1>6 DEF Panic, DeliverPanic, Leave
<1>7. ASSUME NEW s \in Sessions, CancelTurn(s) PROVE HeardIsOver'
  BY <1>7 DEF CancelTurn
<1>8. ASSUME NEW s \in Sessions, CancelSummary(s) PROVE HeardIsOver'
  BY <1>8 DEF CancelSummary
<1>9. ASSUME NEW x \in Summaries, CheckBusySummary(x) PROVE HeardIsOver'
  BY <1>9 DEF CheckBusySummary
<1>10. ASSUME NEW x \in Summaries, StoreSummary(x) PROVE HeardIsOver'
  BY <1>10 DEF StoreSummary
<1>11. ASSUME NEW x \in Summaries, FinishSummary(x) PROVE HeardIsOver'
  BY <1>11 DEF FinishSummary
<1>12. ASSUME NEW x \in Summaries, FreeSummary(x) PROVE HeardIsOver'
  BY <1>12 DEF FreeSummary
<1>13. CASE UNCHANGED vars
  BY <1>13 DEF vars
<1> QED
  BY <1>1, <1>2, <1>3, <1>4, <1>5, <1>6, <1>7, <1>8, <1>9, <1>10, <1>11, <1>12, <1>13
     DEF Next, TurnStep, SummaryStep

(* Only StoreTurn and StoreSummary put a job in flight, and both note whom it
   finds there. *)
LEMMA OverlapStep == TypeOK /\ OverlapIsSeen /\ [Next]_vars => OverlapIsSeen'
<1> SUFFICES ASSUME TypeOK, OverlapIsSeen, [Next]_vars PROVE OverlapIsSeen'
  OBVIOUS
<1> USE ConstantsAssumption DEF TypeOK, OverlapIsSeen, InFlight, Beside, Jobs, Goto, maps, callers
<1>1. ASSUME NEW t \in Turns, CheckBusy(t) PROVE OverlapIsSeen'
  BY <1>1 DEF CheckBusy
<1>2. ASSUME NEW t \in Turns, StoreTurn(t) PROVE OverlapIsSeen'
  BY <1>2 DEF StoreTurn
<1>3. ASSUME NEW t \in Turns, FinishTurn(t) PROVE OverlapIsSeen'
  BY <1>3 DEF FinishTurn
<1>4. ASSUME NEW t \in Turns, FreeTurn(t) PROVE OverlapIsSeen'
  BY <1>4 DEF FreeTurn
<1>5. ASSUME NEW t \in Turns, Deliver(t) PROVE OverlapIsSeen'
  BY <1>5 DEF Deliver
<1>6. ASSUME NEW t \in Turns, Panic(t) \/ DeliverPanic(t) \/ Leave(t) PROVE OverlapIsSeen'
  BY <1>6 DEF Panic, DeliverPanic, Leave
<1>7. ASSUME NEW s \in Sessions, CancelTurn(s) PROVE OverlapIsSeen'
  BY <1>7 DEF CancelTurn
<1>8. ASSUME NEW s \in Sessions, CancelSummary(s) PROVE OverlapIsSeen'
  BY <1>8 DEF CancelSummary
<1>9. ASSUME NEW x \in Summaries, CheckBusySummary(x) PROVE OverlapIsSeen'
  BY <1>9 DEF CheckBusySummary
<1>10. ASSUME NEW x \in Summaries, StoreSummary(x) PROVE OverlapIsSeen'
  BY <1>10 DEF StoreSummary
<1>11. ASSUME NEW x \in Summaries, FinishSummary(x) PROVE OverlapIsSeen'
  BY <1>11 DEF FinishSummary
<1>12. ASSUME NEW x \in Summaries, FreeSummary(x) PROVE OverlapIsSeen'
  BY <1>12 DEF FreeSummary
<1>13. CASE UNCHANGED vars
  BY <1>13 DEF vars
<1> QED
  BY <1>1, <1>2, <1>3, <1>4, <1>5, <1>6, <1>7, <1>8, <1>9, <1>10, <1>11, <1>12, <1>13
     DEF Next, TurnStep, SummaryStep

LEMMA CancellableStep ==
    TypeOK /\ OverlapIsSeen /\ WorkIsCancellable /\ [Next]_vars => WorkIsCancellable'
<1> SUFFICES ASSUME TypeOK, OverlapIsSeen, WorkIsCancellable, [Next]_vars
             PROVE WorkIsCancellable'
  OBVIOUS
<1> USE ConstantsAssumption
    DEF TypeOK, OverlapIsSeen, WorkIsCancellable, Reachable, InFlight, Beside, Jobs,
        Goto, maps, callers
<1>1. ASSUME NEW t \in Turns, CheckBusy(t) PROVE WorkIsCancellable'
  BY <1>1 DEF CheckBusy
<1>2. ASSUME NEW t \in Turns, StoreTurn(t) PROVE WorkIsCancellable'
  BY <1>2 DEF StoreTurn
<1>3. ASSUME NEW t \in Turns, FinishTurn(t) PROVE WorkIsCancellable'
  BY <1>3 DEF FinishTurn
<1>4. ASSUME NEW t \in Turns, FreeTurn(t) PROVE WorkIsCancellable'
  BY <1>4 DEF FreeTurn
<1>5. ASSUME NEW t \in Turns, Deliver(t) PROVE WorkIsCancellable'
  BY <1>5 DEF Deliver
<1>6. ASSUME NEW t \in Turns, Panic(t) \/ DeliverPanic(t) \/ Leave(t) PROVE WorkIsCancellable'
  BY <1>6 DEF Panic, DeliverPanic, Leave
<1>7. ASSUME NEW s \in Sessions, CancelTurn(s) PROVE WorkIsCancellable'
  BY <1>7 DEF CancelTurn
<1>8. ASSUME NEW s \in Sessions, CancelSummary(s) PROVE WorkIsCancellable'
  BY <1>8 DEF CancelSummary
<1>9. ASSUME NEW x \in Summaries, CheckBusySummary(x) PROVE WorkIsCancellable'
  BY <1>9 DEF CheckBusySummary
<1>10. ASSUME NEW x \in Summaries, StoreSummary(x) PROVE WorkIsCancellable'
  BY <1>10 DEF StoreSummary
<1>11. ASSUME NEW x \in Summaries, FinishSummary(x) PROVE WorkIsCancellable'
  BY <1>11 DEF FinishSummary
<1>12. ASSUME NEW x \in Summaries, FreeSummary(x) PROVE WorkIsCancellable'
  BY <1>12 DEF FreeSummary
<1>13. CASE UNCHANGED vars
  BY <1>13 DEF vars
<1> QED
  BY <1>1, <1>2, <1>3, <1>4, <1>5, <1>6, <1>7, <1>8, <1>9, <1>10, <1>11, <1>12, <1>13
     DEF Next, TurnStep, SummaryStep

LEMMA NextInvariant == IInv /\ [Next]_vars => IInv'
BY TypeStep, EntriesStep, HeardStep, OverlapStep, CancellableStep DEF IInv

THEOREM Invariance == Spec => []IInv
<1>1. Init => IInv
  BY InitInvariant
<1>2. IInv /\ [Next]_vars => IInv'
  BY NextInvariant
<1> QED
  BY <1>1, <1>2, PTL DEF Spec

(* The variables keep their types, in every instance. *)
THEOREM TypeCorrect == Spec => []TypeOK
<1>1. IInv => TypeOK
  BY DEF IInv
<1> QED
  BY <1>1, Invariance, PTL

(* No interleaving of Run, Cancel, Summarize and the goroutines' own Deletes
   leaves a session busy with nothing: sync.Map's entries name jobs in flight. *)
THEOREM NoStaleEntry == Spec => []EntriesAreLive
<1>1. IInv => EntriesAreLive
  BY DEF IInv
<1> QED
  BY <1>1, Invariance, PTL

(* As long as turns of a session do not overlap, Cancel reaches the one that works. *)
THEOREM Cancellable == Spec => []WorkIsCancellable
<1>1. IInv => WorkIsCancellable
  BY DEF IInv
<1> QED
  BY <1>1, Invariance, PTL

(* Hearing a turn's result means its session can take the next turn. *)
THEOREM HeardIsFree == Spec => []HeardMeansFree
<1>1. IInv => HeardMeansFree
  BY ConstantsAssumption
     DEF IInv, TypeOK, EntriesAreLive, HeardIsOver, HeardMeansFree, InFlight, Jobs
<1> QED
  BY <1>1, Invariance, PTL
=============================================================================
