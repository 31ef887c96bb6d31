---------------------------- MODULE ServersProofs ----------------------------
(***************************************************************************)
(* The servers the program talks to: a request to a model, for any number  *)
(* of retries and attempts; the changes of a file on their way to a        *)
(* language server, for any number of changes, events, registrations and   *)
(* timers; and the life of any number of language servers.                 *)
(***************************************************************************)
EXTENDS Streams, Watcher, AppLife, FiniteSetTheorems, SequenceTheorems, TLAPS

-----------------------------------------------------------------------------
(* A request to a model.                                                     *)

Ends == {"complete", "error", "nil error"}

\* The end is told once, last, and with the calls of the latest attempt.
EndIsLast == \A i \in DOMAIN told : told[i].kind \in Ends =>
                i = Len(told) /\ (told[i].kind = "complete" => told[i].calls \subseteq {attempts})
Ended == \E i \in DOMAIN told : told[i].kind \in Ends

\* The end is told when the goroutine is done, or Anthropic's stream about to be.
EndsWhenDone ==
    /\ Ended => at \in {"stopped", "closed"}
    /\ at = "stopped" => Ended
    /\ at = "closed" /\ ~cancelled => Ended

\* Who asks again has not asked too often.
Unlimited == client = "copilot" /\ mode = "send"
AsksInLimits ==
    /\ at \in {"request", "backoff"} => attempts <= MaxRetries \/ Unlimited
    /\ attempts <= MaxRetries + 1 \/ Unlimited

\* Who panics has an answer it could not use.
Unusable == \/ client = "gemini" /\ mode = "stream" /\ attempts <= MaxRetries
            \/ client \in {"openai", "copilot"} /\ (mode = "stream" => ~heard)
PanicsAreThese == at = "crashed" => Unusable

StreamInv ==
    /\ StreamTypeOK /\ calls \subseteq {attempts}
    /\ ~excused => EndIsLast /\ EndsWhenDone /\ AsksInLimits /\ PanicsAreThese

-----------------------------------------------------------------------------

LEMMA StreamStarts == StreamInit => StreamInv
<1> SUFFICES ASSUME StreamInit PROVE StreamInv
  OBVIOUS
<1>1. /\ client \in Clients /\ mode \in {"stream", "send"} /\ at = "request" /\ attempts = 0
      /\ heard = FALSE /\ calls = {} /\ token = FALSE /\ cancelled = FALSE /\ listening = TRUE
      /\ told = <<>> /\ excused = FALSE
  BY DEF StreamInit
<1>2. DOMAIN told = {}
  BY <1>1
<1>3. StreamTypeOK
  <2>1. told \in Seq([kind : EventKinds, calls : SUBSET Nat]) /\ calls \subseteq Nat
    BY <1>1
  <2> QED
    BY <1>1, <2>1 DEF StreamTypeOK
<1>4. EndIsLast /\ EndsWhenDone
  BY <1>1, <1>2 DEF EndIsLast, EndsWhenDone, Ended
<1>5. AsksInLimits /\ PanicsAreThese
  BY <1>1, RetriesAssumption DEF AsksInLimits, PanicsAreThese
<1> QED
  BY <1>1, <1>3, <1>4, <1>5 DEF StreamInv

(* One event more is told last. *)
LEMMA AppendKeeps ==
  ASSUME StreamInv, NEW k \in EventKinds, told' = Append(told, Event(k))
  PROVE  /\ told' \in Seq([kind : EventKinds, calls : SUBSET Nat])
         /\ k \in Ends => Ended'
         /\ k \notin Ends => (Ended' <=> Ended)
         /\ attempts' = attempts /\ ~Ended => EndIsLast'
<1> DEFINE E == [kind : EventKinds, calls : SUBSET Nat]
<1>1. told \in Seq(E) /\ Event(k) \in E /\ Event(k).kind = k /\ Event(k).calls \subseteq {attempts}
  BY DEF StreamInv, StreamTypeOK, Event
<1> HIDE DEF E
<1>2. /\ told' \in Seq(E) /\ Len(told') = Len(told) + 1
      /\ \A i \in 1..Len(told) : told'[i] = told[i]
      /\ told'[Len(told) + 1] = Event(k)
  BY <1>1, AppendProperties
<1>3. DOMAIN told = 1..Len(told) /\ DOMAIN told' = 1..(Len(told) + 1) /\ Len(told) \in Nat
  BY <1>1, <1>2, LenProperties
<1>4. k \in Ends => Ended'
  BY <1>1, <1>2, <1>3 DEF Ended
<1>5. k \notin Ends => (Ended' <=> Ended)
  BY <1>1, <1>2, <1>3 DEF Ended
<1>6. attempts' = attempts /\ ~Ended => EndIsLast'
  BY <1>1, <1>2, <1>3 DEF Ended, EndIsLast
<1> QED
  BY <1>2, <1>4, <1>5, <1>6 DEF E

(* What is not told leaves the end where it is. *)
LEMMA SilenceKeeps ==
  ASSUME StreamInv, UNCHANGED told
  PROVE  (Ended' <=> Ended) /\ (EndIsLast /\ attempts' = attempts => EndIsLast')
                            /\ (~Ended => EndIsLast')
BY DEF Ended, EndIsLast

-----------------------------------------------------------------------------
(* The steps that tell nothing. *)

LEMMA QuietStep ==
  ASSUME StreamInv, Request \/ BacksOff \/ AsksAgain \/ Cancel
  PROVE  StreamInv'
<1>1. UNCHANGED <<client, mode, told, listening>>
  BY DEF Request, BacksOff, AsksAgain, Cancel, Silent, what
<1>2. (Ended' <=> Ended) /\ (EndIsLast /\ attempts' = attempts => EndIsLast') /\ (~Ended => EndIsLast')
  BY <1>1, SilenceKeeps
<1>3. CASE Request
  <2>1. /\ at = "request" /\ at' = "streaming" /\ attempts' = attempts + 1 /\ heard' = FALSE
        /\ token' = FALSE /\ UNCHANGED <<cancelled, excused>>
    BY <1>3 DEF Request, Moves
  <2>5. calls' \subseteq Nat /\ calls' \subseteq {attempts'}
    BY <1>3 DEF Request
  <2>2. StreamTypeOK'
    <3>1. attempts' \in Nat
      BY <2>1 DEF StreamInv, StreamTypeOK
    <3>2. heard' \in BOOLEAN /\ token' \in BOOLEAN /\ at' = "streaming" /\ UNCHANGED <<cancelled, excused>>
      BY <2>1
    <3> QED
      BY <1>1, <2>5, <3>1, <3>2 DEF StreamInv, StreamTypeOK
  <2>3. ~excused' => EndIsLast' /\ EndsWhenDone'
    BY <1>2, <2>1 DEF StreamInv, EndsWhenDone
  <2>4. ~excused' => AsksInLimits'
    BY <1>1, <2>1, RetriesAssumption DEF StreamInv, StreamTypeOK, AsksInLimits, Unlimited
  <2>6. PanicsAreThese'
    BY <2>1 DEF PanicsAreThese
  <2> QED
    BY <2>2, <2>3, <2>4, <2>5, <2>6 DEF StreamInv
<1>4. CASE BacksOff
  <2>1. /\ at \in {"streaming", "stopped"} /\ at' = "backoff" /\ ~Exhausted
        /\ excused' = (excused \/ at = "stopped")
        /\ UNCHANGED <<attempts, heard, calls, token, cancelled>>
    BY <1>4 DEF BacksOff, Failed, asked
  <2>2. StreamTypeOK'
    BY <1>1, <2>1 DEF StreamInv, StreamTypeOK
  <2>3. ~excused' => EndIsLast' /\ EndsWhenDone'
    BY <1>2, <2>1 DEF StreamInv, EndsWhenDone
  <2>4. ~excused' => AsksInLimits'
    BY <1>1, <2>1, RetriesAssumption DEF StreamInv, StreamTypeOK, AsksInLimits, Unlimited, Exhausted
  <2>5. PanicsAreThese'
    BY <2>1 DEF PanicsAreThese
  <2> QED
    BY <2>1, <2>2, <2>3, <2>4, <2>5 DEF StreamInv
<1>5. CASE AsksAgain
  <2>1. /\ at = "backoff" /\ at' \in {"request", "crashed"}
        /\ at' = "crashed" => client = "gemini" /\ mode = "stream"
        /\ UNCHANGED <<attempts, heard, calls, token, cancelled, excused>>
    BY <1>5 DEF AsksAgain, Moves, asked
  <2>2. StreamTypeOK'
    BY <1>1, <2>1 DEF StreamInv, StreamTypeOK
  <2>3. ~excused' => EndIsLast' /\ EndsWhenDone'
    BY <1>2, <2>1 DEF StreamInv, EndsWhenDone
  <2>4. ~excused' => AsksInLimits' /\ PanicsAreThese'
    BY <1>1, <2>1 DEF StreamInv, AsksInLimits, Unlimited, PanicsAreThese, Unusable
  <2> QED
    BY <2>1, <2>2, <2>3, <2>4 DEF StreamInv
<1>6. CASE Cancel
  <2>1. cancelled' = TRUE /\ UNCHANGED <<at, attempts, heard, calls, token, excused>>
    BY <1>6 DEF Cancel, asked
  <2>2. StreamTypeOK'
    BY <1>1, <2>1 DEF StreamInv, StreamTypeOK
  <2>3. ~excused' => EndIsLast' /\ EndsWhenDone'
    BY <1>2, <2>1 DEF StreamInv, EndsWhenDone
  <2>4. ~excused' => AsksInLimits' /\ PanicsAreThese'
    BY <1>1, <2>1 DEF StreamInv, AsksInLimits, Unlimited, PanicsAreThese, Unusable
  <2> QED
    BY <2>1, <2>2, <2>3, <2>4 DEF StreamInv
<1> QED
  BY <1>3, <1>4, <1>5, <1>6

-----------------------------------------------------------------------------
(* The steps that tell something on the way. *)

LEMMA DeltaStep == StreamInv /\ Delta => StreamInv'
<1> SUFFICES ASSUME StreamInv, Delta PROVE StreamInv'
  OBVIOUS
<1>1. /\ at = "streaming" /\ heard' = TRUE /\ told' = Append(told, Event("delta"))
      /\ listening' \in BOOLEAN
      /\ UNCHANGED <<client, mode, at, attempts, calls, token, cancelled, excused>>
  BY DEF Delta, Emit, what
<1>2. /\ told' \in Seq([kind : EventKinds, calls : SUBSET Nat]) /\ (Ended' <=> Ended)
      /\ ~Ended => EndIsLast'
  BY <1>1, AppendKeeps DEF EventKinds, Ends
<1>3. StreamTypeOK'
  BY <1>1, <1>2 DEF StreamInv, StreamTypeOK
<1>4. ~excused' => EndIsLast' /\ EndsWhenDone' /\ AsksInLimits' /\ PanicsAreThese'
  BY <1>1, <1>2 DEF StreamInv, EndsWhenDone, AsksInLimits, Unlimited, PanicsAreThese
<1> QED
  BY <1>1, <1>3, <1>4 DEF StreamInv

LEMMA ToolCallStep == StreamInv /\ ToolCall => StreamInv'
<1> SUFFICES ASSUME StreamInv, ToolCall PROVE StreamInv'
  OBVIOUS
<1>1. /\ at = "streaming" /\ heard' = TRUE /\ calls' = calls \cup {attempts}
      /\ UNCHANGED <<client, mode, at, attempts, token, cancelled, excused>>
  BY DEF ToolCall, what
<1>2. \/ told' = Append(told, Event("tool use")) /\ listening' \in BOOLEAN
      \/ UNCHANGED <<told, listening>>
  BY DEF ToolCall, Emit, Silent
<1>3. /\ told' \in Seq([kind : EventKinds, calls : SUBSET Nat]) /\ (Ended' <=> Ended)
      /\ ~Ended => EndIsLast'
  <2>1. CASE told' = Append(told, Event("tool use"))
    BY <1>1, <2>1, AppendKeeps DEF EventKinds, Ends
  <2>2. CASE UNCHANGED told
    BY <2>2, SilenceKeeps DEF StreamInv, StreamTypeOK
  <2> QED
    BY <1>2, <2>1, <2>2
<1>4. StreamTypeOK'
  BY <1>1, <1>2, <1>3 DEF StreamInv, StreamTypeOK
<1>5. ~excused' => EndIsLast' /\ EndsWhenDone' /\ AsksInLimits' /\ PanicsAreThese'
  BY <1>1, <1>3 DEF StreamInv, EndsWhenDone, AsksInLimits, Unlimited, PanicsAreThese
<1> QED
  BY <1>1, <1>4, <1>5 DEF StreamInv

-----------------------------------------------------------------------------
(* The steps that tell the end, or forgo it. *)

(* Telling the end from where it was not yet told is right. *)
LEMMA EndingKeeps ==
  ASSUME StreamInv, at \notin {"stopped", "closed"} \/ excused', excused => excused', excused' \in BOOLEAN,
         NEW k \in Ends, told' = Append(told, Event(k)),
         at' \in {"stopped", "closed"}, listening' \in BOOLEAN, token' \in BOOLEAN,
         UNCHANGED <<client, mode, attempts, heard, calls, cancelled>>
  PROVE  StreamInv'
<1>1. k \in EventKinds
  BY DEF EventKinds, Ends
<1>2. /\ told' \in Seq([kind : EventKinds, calls : SUBSET Nat]) /\ Ended'
      /\ ~Ended => EndIsLast'
  BY <1>1, AppendKeeps
<1>3. StreamTypeOK'
  BY <1>2 DEF StreamInv, StreamTypeOK
<1>4. ~excused' => EndIsLast' /\ EndsWhenDone' /\ AsksInLimits' /\ PanicsAreThese'
  BY <1>2 DEF StreamInv, EndsWhenDone, AsksInLimits, Unlimited, PanicsAreThese
<1> QED
  BY <1>3, <1>4 DEF StreamInv

LEMMA FinishTells ==
  ASSUME NEW k, Finish(k), listening \in BOOLEAN, cancelled \in BOOLEAN
  PROVE  at' = "closed" /\ told' = Append(told, Event(k)) /\ listening' \in BOOLEAN
BY DEF Finish, Emit

(* Going on without a word, where the end was told or need not be. *)
LEMMA LeavingKeeps ==
  ASSUME StreamInv, excused => excused', excused' \in BOOLEAN, UNCHANGED <<told, listening>>, token' \in BOOLEAN,
         UNCHANGED <<client, mode, attempts, heard, calls, cancelled>>,
         \/ excused' /\ at' \in {"request", "closed"}
         \/ at = "stopped" /\ at' = "closed"
         \/ at = "streaming" /\ at' = "crashed" /\ Unusable
         \/ at = "backoff" /\ at' = "closed" /\ cancelled
         \/ /\ at \in {"streaming", "stopped"} /\ at' = "backoff"
            /\ at = "stopped" => excused'
            /\ attempts <= MaxRetries \/ Unlimited
  PROVE  StreamInv'
<1>1. (Ended' <=> Ended) /\ (EndIsLast => EndIsLast')
  BY SilenceKeeps
<1>2. StreamTypeOK'
  BY DEF StreamInv, StreamTypeOK
<1>3. ~excused' => EndIsLast' /\ EndsWhenDone'
  BY <1>1 DEF StreamInv, EndsWhenDone
<1>4. ~excused' => AsksInLimits' /\ PanicsAreThese'
  BY DEF StreamInv, AsksInLimits, Unlimited, PanicsAreThese, Unusable
<1> QED
  BY <1>2, <1>3, <1>4 DEF StreamInv

LEMMA EndStep == StreamInv /\ (MessageStop \/ EndOfStream \/ Response) => StreamInv'
<1> SUFFICES ASSUME StreamInv, MessageStop \/ EndOfStream \/ Response PROVE StreamInv'
  OBVIOUS
<1>1. /\ UNCHANGED <<client, mode, attempts, heard, calls, token, cancelled>>
      /\ listening \in BOOLEAN /\ cancelled \in BOOLEAN /\ token \in BOOLEAN /\ excused \in BOOLEAN
  BY DEF MessageStop, EndOfStream, Response, what, asked, StreamInv, StreamTypeOK
<1>2. \/ /\ at = "streaming" /\ at' \in {"stopped", "closed"} /\ told' = Append(told, Event("complete"))
         /\ listening' \in BOOLEAN /\ UNCHANGED excused
      \/ at = "stopped" /\ at' = "closed" /\ UNCHANGED <<told, listening, excused>>
      \/ at' \in {"request", "closed"} /\ UNCHANGED <<told, listening>> /\ excused' = TRUE
      \/ at = "streaming" /\ at' = "crashed" /\ Unusable /\ UNCHANGED <<told, listening, excused>>
  <2>1. CASE MessageStop
    BY <2>1 DEF MessageStop, Moves, Emit
  <2>2. CASE EndOfStream
    BY <1>1, <2>2, FinishTells DEF EndOfStream, Silent, Unusable
  <2>3. CASE Response
    BY <1>1, <2>3, FinishTells DEF Response, Silent, Unusable
  <2> QED
    BY <2>1, <2>2, <2>3
<1>3. "complete" \in Ends
  BY DEF Ends
<1> QED
  BY <1>1, <1>2, <1>3, EndingKeeps, LeavingKeeps

LEMMA FailureStep == StreamInv /\ (GivesUp \/ RenewsToken \/ StopsWaiting) => StreamInv'
<1> SUFFICES ASSUME StreamInv, GivesUp \/ RenewsToken \/ StopsWaiting PROVE StreamInv'
  OBVIOUS
<1>1. /\ UNCHANGED <<client, mode, attempts, heard, calls, cancelled>>
      /\ listening \in BOOLEAN /\ cancelled \in BOOLEAN /\ token \in BOOLEAN /\ excused \in BOOLEAN
      /\ attempts \in Nat /\ mode \in {"stream", "send"}
  BY DEF GivesUp, RenewsToken, StopsWaiting, what, asked, StreamInv, StreamTypeOK
<1>2. "error" \in Ends /\ "nil error" \in Ends
  BY DEF Ends
<1>3. CASE GivesUp
  <2>1. /\ at \in {"streaming", "stopped"} /\ excused' = (excused \/ at = "stopped")
        /\ Finish("error") /\ token' = token
    BY <1>3 DEF GivesUp, Failed, asked
  <2> QED
    BY <1>1, <1>2, <2>1, FinishTells, EndingKeeps
<1>4. CASE RenewsToken
  <2>1. /\ at \in {"streaming", "stopped"} /\ excused' = (excused \/ at = "stopped")
        /\ client = "copilot"
    BY <1>4 DEF RenewsToken, Failed
  <2>2. CASE Exhausted /\ mode = "stream"
    <3>1. Finish("nil error") /\ token' = token
      BY <1>4, <2>2 DEF RenewsToken
    <3> QED
      BY <1>1, <1>2, <2>1, <3>1, FinishTells, EndingKeeps
  <2>3. CASE ~(Exhausted /\ mode = "stream")
    <3>1. at' = "backoff" /\ token' = TRUE /\ UNCHANGED <<told, listening>>
      BY <1>4, <2>3 DEF RenewsToken, Silent
    <3>2. attempts <= MaxRetries \/ Unlimited
      BY <1>1, <2>1, <2>3, RetriesAssumption DEF Exhausted, Unlimited
    <3> QED
      BY <1>1, <2>1, <3>1, <3>2, LeavingKeeps
  <2> QED
    BY <2>2, <2>3
<1>5. CASE StopsWaiting
  <2>1. /\ at = "backoff" /\ cancelled /\ UNCHANGED <<token, excused>>
        /\ (at' = "closed" /\ UNCHANGED <<told, listening>>) \/ Finish("error")
    BY <1>5 DEF StopsWaiting, Silent, asked
  <2> QED
    BY <1>1, <1>2, <2>1, FinishTells, EndingKeeps, LeavingKeeps
<1> QED
  BY <1>3, <1>4, <1>5

-----------------------------------------------------------------------------

LEMMA StreamStep == StreamInv /\ [StreamNext]_streamVars => StreamInv'
<1> SUFFICES ASSUME StreamInv, [StreamNext]_streamVars PROVE StreamInv'
  OBVIOUS
<1>1. CASE UNCHANGED streamVars
  <2> USE <1>1 DEF streamVars, what, asked, StreamInv
  <2>1. StreamTypeOK' /\ calls' \subseteq {attempts'}
    BY DEF StreamTypeOK
  <2>2. ~excused' => EndIsLast' /\ EndsWhenDone' /\ AsksInLimits' /\ PanicsAreThese'
    BY DEF EndIsLast, EndsWhenDone, AsksInLimits, Ended, Unlimited, PanicsAreThese, Unusable
  <2> QED
    BY <2>1, <2>2
<1> QED
  BY <1>1, QuietStep, DeltaStep, ToolCallStep, EndStep, FailureStep DEF StreamNext

(* The inductive invariant holds of every request. *)
THEOREM StreamInvariance == StreamSpec => []StreamInv
<1>1. StreamInv /\ [StreamNext]_streamVars => StreamInv'
  BY StreamStep
<1> QED
  BY <1>1, StreamStarts, PTL DEF StreamSpec

(* Every variable of a request keeps its type. *)
THEOREM StreamTypeCorrect == StreamSpec => []StreamTypeOK
<1>1. StreamInv => StreamTypeOK
  BY DEF StreamInv
<1> QED
  BY <1>1, StreamInvariance, PTL

(* How a request ended is told once and last, with the calls of the attempt
   that was answered, and after so many refusals it does end, for any
   maxRetries and any number of attempts; where it panics instead, it is in one
   of the two ways named. *)
THEOREM EndsOnce == StreamSpec => []StreamEndsOnce
<1>1. StreamInv => StreamEndsOnce
  <2> SUFFICES ASSUME StreamInv, ~excused
               PROVE  /\ at = "closed" /\ ~cancelled => Terminal # {}
                      /\ at = "crashed" => Terminal = {} /\ Unusable
                      /\ \A i \in Terminal :
                            i = Len(told) /\ (told[i].kind = "complete" => told[i].calls \subseteq {attempts})
                      /\ attempts > MaxRetries + 1 => client = "copilot" /\ mode = "send"
    BY DEF StreamEndsOnce, Unusable
  <2>1. (Terminal # {}) <=> Ended
    BY DEF Terminal, Ended, Ends
  <2>2. \A i \in Terminal :
           i = Len(told) /\ (told[i].kind = "complete" => told[i].calls \subseteq {attempts})
    BY DEF StreamInv, EndIsLast, Terminal, Ends
  <2>3. attempts > MaxRetries + 1 => client = "copilot" /\ mode = "send"
    BY RetriesAssumption DEF StreamInv, AsksInLimits, Unlimited, StreamTypeOK
  <2> QED
    BY <2>1, <2>2, <2>3 DEF StreamInv, EndsWhenDone, PanicsAreThese
<1> QED
  BY <1>1, StreamInvariance, PTL

-----------------------------------------------------------------------------
(* A watched file.                                                           *)

Queued == loop # "select" \/ events # <<>>
Gone == {"remove", "rename"}

\* The last event says whether there is a file.
LastEventTells ==
    /\ events # <<>> => (disk = None <=> events[Len(events)] \in Gone)
    /\ events = <<>> /\ loop \in Gone => disk = None
    /\ events = <<>> /\ loop \in {"write", "created", "opening", "create"} => disk # None

\* No two timers have a name in common.
NamesDiffer ==
    /\ \A r, s \in armed : r.id = s.id => r = s
    /\ \A r, s \in firing : r.id = s.id => r = s
    /\ \A r \in armed, s \in firing : r.id # s.id

\* A text is held by who is between reading and sending.
TextsAreHeld ==
    /\ text[Loop] # None => loop = "opening"
    /\ \A t \in Timers : text[t] # None => \E r \in firing : r.id = t /\ r.at = "read"

\* Something will look at the file again.
Pending == Queued \/ armed # {} \/ \E r \in firing : r.at = "start"

NoTexts == \A g \in Goroutines : text[g] = None
TwoTexts == \E g, h \in Goroutines : g # h /\ text[g] # None /\ text[h] # None
TextsAreFresh == \A g \in Goroutines : text[g] \in {None, disk}
ChangeIsHeld == watchTold = disk \/ \E g \in Goroutines : text[g] = disk /\ text[g] # None

\* A change is told, or is held, or something will look at the file again, or
\* two hold texts, of which the first to be sent overlaps the other.
ChangeIsOnItsWay == Pending \/ TwoTexts \/ (TextsAreFresh /\ ChangeIsHeld)

\* Once the loop is through, the server knows of a removal.
RemovalIsTold == disk = None => Queued \/ (watchTold = None /\ NoTexts)

WatchInv ==
    /\ WatchTypeOK /\ LastEventTells /\ NamesDiffer /\ TextsAreHeld
    /\ ~watchExcused => ChangeIsOnItsWay /\ RemovalIsTold

-----------------------------------------------------------------------------

LEMMA TimerNames == /\ MaxTimers \in Nat /\ Loop \notin Timers /\ ToolClient \notin Timers
               /\ Loop # ToolClient /\ None = 0
               /\ Goroutines = Timers \cup {Loop, ToolClient}
BY TimersAssumption DEF Loop, ToolClient, Timers, None, Goroutines

LEMMA WatchStarts == WatchInit => WatchInv
<1> SUFFICES ASSUME WatchInit PROVE WatchInv
  OBVIOUS
<1>1. /\ disk = 1 /\ changes = 1 /\ loop = "select"
      /\ isOpen = FALSE /\ watchTold = 1 /\ watchExcused = FALSE
  BY DEF WatchInit
<1>2. events = <<>> /\ registrations = <<>>
  BY DEF WatchInit
<1>3. armed = {} /\ firing = {}
  BY DEF WatchInit
<1>4. text = [g \in Goroutines |-> None]
  BY DEF WatchInit
<1>5. debounceMap = [k \in {"changed", "created"} |-> None]
  BY DEF WatchInit
<1>6. NoTexts
  BY <1>4 DEF NoTexts
<1>7. WatchTypeOK
  <2>1. text \in [Goroutines -> Nat]
    BY <1>4 DEF None
  <2>2. debounceMap \in [{"changed", "created"} -> Timers \cup {None}]
    BY <1>5
  <2>3. /\ events \in Seq({"write", "create", "remove", "rename"})
        /\ registrations \in Seq(SUBSET Kinds)
    BY <1>2
  <2>4. /\ armed \subseteq [kind : {"changed", "created"}, id : Timers]
        /\ firing \subseteq [kind : {"changed", "created"}, id : Timers,
                             at : {"start", "read", "cleanup"}]
    BY <1>3
  <2>5. disk \in Nat /\ changes \in Nat \ {None} /\ watchTold \in Nat
    BY <1>1 DEF None
  <2>7. isOpen \in BOOLEAN /\ watchExcused \in BOOLEAN
    BY <1>1
  <2>6. loop \in {"select", "write", "created", "opening", "create", "remove", "rename", "ended"}
    BY <1>1
  <2> QED
    BY <2>1, <2>2, <2>3, <2>4, <2>5, <2>6, <2>7 DEF WatchTypeOK
<1>8. LastEventTells
  BY <1>1, <1>2 DEF LastEventTells, Gone
<1>9. NamesDiffer
  BY <1>3 DEF NamesDiffer
<1>10. TextsAreHeld
  BY <1>6, TimerNames DEF NoTexts, TextsAreHeld
<1>11. ChangeIsOnItsWay /\ RemovalIsTold
  BY <1>1, <1>6 DEF ChangeIsOnItsWay, NoTexts, TextsAreFresh, ChangeIsHeld, RemovalIsTold, None
<1> QED
  BY <1>7, <1>8, <1>9, <1>10, <1>11 DEF WatchInv

(* What has just been read is fresh, unless somebody else holds a text too. *)
LEMMA ReadKeeps ==
  ASSUME WatchTypeOK, NEW g \in Goroutines, Reads(g), UNCHANGED disk
  PROVE  /\ text' \in [Goroutines -> Nat] /\ \A h \in Goroutines \ {g} : text'[h] = text[h]
         /\ ChangeIsOnItsWay' /\ RemovalIsTold'
<1>1. /\ text \in [Goroutines -> Nat] /\ disk \in Nat
      /\ disk # None /\ text' = [text EXCEPT ![g] = disk]
  BY DEF WatchTypeOK, Reads
<1>2. text' \in [Goroutines -> Nat] /\ text'[g] = disk
      /\ \A h \in Goroutines \ {g} : text'[h] = text[h]
  BY <1>1
<1>3. CASE \E h \in Goroutines \ {g} : text[h] # None
  <2>1. TwoTexts'
    BY <1>1, <1>2, <1>3 DEF TwoTexts
  <2> QED
    BY <1>1, <1>2, <2>1 DEF ChangeIsOnItsWay, RemovalIsTold
<1>4. CASE \A h \in Goroutines \ {g} : text[h] = None
  <2>1. TextsAreFresh' /\ ChangeIsHeld'
    BY <1>1, <1>2, <1>4 DEF TextsAreFresh, ChangeIsHeld
  <2> QED
    BY <1>1, <1>2, <2>1 DEF ChangeIsOnItsWay, RemovalIsTold
<1> QED
  BY <1>3, <1>4

(* What is sent is the file as it is, or something will look at it again. *)
LEMMA SendKeeps ==
  ASSUME WatchInv, ~watchExcused, NEW g \in Goroutines, Sends(g), UNCHANGED disk,
         Queued => Queued', Pending => Pending'
  PROVE  /\ text' \in [Goroutines -> Nat] /\ text'[g] = None
         /\ \A h \in Goroutines \ {g} : text'[h] = text[h]
         /\ isOpen' \in BOOLEAN /\ watchTold' \in Nat /\ watchExcused' \in BOOLEAN
         /\ ~watchExcused' => ChangeIsOnItsWay' /\ RemovalIsTold'
<1>1. /\ text \in [Goroutines -> Nat] /\ DOMAIN text = Goroutines /\ disk \in Nat
      /\ text[g] # None /\ isOpen' = TRUE
      /\ watchTold' = text[g] /\ watchExcused' = (watchExcused \/ Overlaps(g))
      /\ text' = [text EXCEPT ![g] = None] /\ None \in Nat
  BY DEF WatchInv, WatchTypeOK, Sends, Tell, None
<1>2. text' \in [Goroutines -> Nat] /\ text'[g] = None
      /\ \A h \in Goroutines \ {g} : text'[h] = text[h]
  BY <1>1
<1>3. isOpen' \in BOOLEAN /\ watchTold' \in Nat /\ watchExcused' \in BOOLEAN
  BY <1>1 DEF Overlaps
<1>4. ASSUME ~watchExcused' PROVE ChangeIsOnItsWay' /\ RemovalIsTold'
  <2>1. \A h \in Goroutines \ {g} : text[h] = None
    BY <1>1, <1>4 DEF Overlaps
  <2>2. ChangeIsOnItsWay /\ RemovalIsTold /\ ~TwoTexts
    BY <2>1 DEF WatchInv, TwoTexts
  <2>3. RemovalIsTold'
    BY <1>1, <2>2 DEF RemovalIsTold, NoTexts
  <2>4. ~Pending => TextsAreFresh' /\ ChangeIsHeld'
    BY <1>1, <1>2, <2>1, <2>2 DEF ChangeIsOnItsWay, TextsAreFresh, ChangeIsHeld
  <2> QED
    BY <2>3, <2>4 DEF ChangeIsOnItsWay
<1> QED
  BY <1>2, <1>3, <1>4

(* A report without a text tells of the file as it is, or is the loop's. *)
LEMMA NotifyKeeps ==
  ASSUME WatchInv, ~watchExcused, NEW g \in Goroutines, NEW content \in Nat, NotifyFileEvent(g, content),
         UNCHANGED disk, text[g] = None, content = disk \/ Queued',
         Queued => Queued' \/ content = disk
  PROVE  /\ watchTold' \in Nat /\ watchExcused' \in BOOLEAN /\ UNCHANGED <<isOpen, text>>
         /\ ~watchExcused' => ChangeIsOnItsWay' /\ RemovalIsTold'
<1>1. /\ DOMAIN text = Goroutines /\ UNCHANGED <<isOpen, text>>
      /\ watchTold' = content /\ watchExcused' = (watchExcused \/ Overlaps(g))
  BY DEF WatchInv, WatchTypeOK, NotifyFileEvent, Tell
<1>2. watchTold' \in Nat /\ watchExcused' \in BOOLEAN
  BY <1>1 DEF Overlaps
<1>3. ASSUME ~watchExcused' PROVE ChangeIsOnItsWay' /\ RemovalIsTold'
  <2>1. \A h \in Goroutines : text'[h] = None
    BY <1>1, <1>3 DEF Overlaps
  <2>2. CASE Queued'
    BY <2>2 DEF ChangeIsOnItsWay, RemovalIsTold, Pending
  <2>3. CASE content = disk
    BY <1>1, <2>1, <2>3 DEF ChangeIsOnItsWay, TextsAreFresh, ChangeIsHeld, RemovalIsTold, NoTexts
  <2> QED
    BY <2>2, <2>3
<1> QED
  BY <1>1, <1>2, <1>3

(* Whoever tells nothing and takes nothing off the way changes nothing of it. *)
LEMMA QuietKeeps ==
  ASSUME WatchInv, UNCHANGED <<disk, text, watchTold>>, watchExcused => watchExcused',
         Queued => Queued', Pending => Pending'
  PROVE  ~watchExcused' => ChangeIsOnItsWay' /\ RemovalIsTold'
BY DEF WatchInv, ChangeIsOnItsWay, RemovalIsTold, TwoTexts, TextsAreFresh, ChangeIsHeld, NoTexts

-----------------------------------------------------------------------------
(* The file system and the tool. *)

LEMMA FileStep == WatchInv /\ ~watchExcused /\ FileChanges => WatchInv'
<1> SUFFICES ASSUME WatchInv, ~watchExcused, FileChanges PROVE WatchInv'
  OBVIOUS
<1>1. UNCHANGED <<loop, registrations, isOpen, text, watchTold, watchExcused, debounceMap, armed, firing>>
  BY DEF FileChanges, loop_, client_, timers_
<1>2. PICK e \in {"write", "create", "remove", "rename"} :
         /\ events' = Append(events, e)
         /\ disk' \in Nat /\ changes' \in Nat \ {None} /\ (disk' = None <=> e \in Gone)
  <2>1. changes \in Nat \ {None} /\ changes + 1 \in Nat \ {None} /\ None \in Nat
    BY DEF WatchInv, WatchTypeOK, None
  <2>2. CASE \E e \in {"write", "create"} : NewContent(e)
    BY <2>1, <2>2 DEF NewContent, Gone
  <2>3. CASE /\ disk # None /\ disk' = None
             /\ \E e \in {"remove", "rename"} : events' = Append(events, e)
             /\ UNCHANGED changes
    BY <2>1, <2>3 DEF Gone
  <2> QED
    BY <2>2, <2>3 DEF FileChanges
<1>3. /\ events' \in Seq({"write", "create", "remove", "rename"})
      /\ Len(events') = Len(events) + 1 /\ Len(events) \in Nat
      /\ events'[Len(events')] = e /\ events' # <<>>
  <2>1. events \in Seq({"write", "create", "remove", "rename"})
    BY DEF WatchInv, WatchTypeOK
  <2>2. /\ events' \in Seq({"write", "create", "remove", "rename"})
        /\ Len(events') = Len(events) + 1 /\ events'[Len(events) + 1] = e
        /\ Len(events) \in Nat
    BY <1>2, <2>1, AppendProperties, LenProperties
  <2>3. Len(events') # 0
    BY <2>2
  <2> QED
    BY <2>2, <2>3, EmptySeq
<1>4. WatchTypeOK'
  BY <1>1, <1>2, <1>3 DEF WatchInv, WatchTypeOK
<1>5. LastEventTells'
  BY <1>2, <1>3 DEF LastEventTells
<1>6. NamesDiffer' /\ TextsAreHeld'
  BY <1>1 DEF WatchInv, NamesDiffer, TextsAreHeld
<1>7. ChangeIsOnItsWay' /\ RemovalIsTold'
  BY <1>3 DEF ChangeIsOnItsWay, RemovalIsTold, Pending, Queued
<1> QED
  BY <1>4, <1>5, <1>6, <1>7 DEF WatchInv

LEMMA ToolStep == WatchInv /\ ~watchExcused /\ (ToolReads \/ ToolSends) => WatchInv'
<1> SUFFICES ASSUME WatchInv, ~watchExcused, ToolReads \/ ToolSends PROVE WatchInv'
  OBVIOUS
<1>1. UNCHANGED <<disk, changes, events, loop, registrations, debounceMap, armed, firing>>
  BY DEF ToolReads, ToolSends, events_, loop_, timers_
<1>2. /\ text' \in [Goroutines -> Nat] /\ \A h \in Goroutines \ {ToolClient} : text'[h] = text[h]
      /\ isOpen' \in BOOLEAN /\ watchTold' \in Nat /\ watchExcused' \in BOOLEAN
      /\ ~watchExcused' => ChangeIsOnItsWay' /\ RemovalIsTold'
  <2>1. ToolClient \in Goroutines /\ WatchTypeOK
    BY TimerNames DEF WatchInv
  <2>2. CASE ToolReads
    BY <1>1, <2>1, <2>2, ReadKeeps DEF ToolReads, WatchTypeOK
  <2>3. CASE ToolSends
    <3>1. (Queued => Queued') /\ (Pending => Pending')
      BY <1>1 DEF Queued, Pending
    <3> QED
      BY <1>1, <2>1, <2>3, <3>1, SendKeeps DEF ToolSends
  <2> QED
    BY <2>2, <2>3
<1>3. WatchTypeOK'
  BY <1>1, <1>2 DEF WatchInv, WatchTypeOK
<1>4. LastEventTells' /\ NamesDiffer'
  BY <1>1 DEF WatchInv, LastEventTells, NamesDiffer
<1>5. TextsAreHeld'
  BY <1>1, <1>2, TimerNames DEF WatchInv, TextsAreHeld
<1> QED
  BY <1>2, <1>3, <1>4, <1>5 DEF WatchInv

-----------------------------------------------------------------------------
(* The timers. *)

LEMMA FireStep == WatchInv /\ ~watchExcused /\ Fire => WatchInv'
<1> SUFFICES ASSUME WatchInv, ~watchExcused, Fire PROVE WatchInv'
  OBVIOUS
<1>1. PICK r \in armed : /\ armed' = armed \ {r}
                         /\ firing' = firing \cup {[kind |-> r.kind, id |-> r.id, at |-> "start"]}
  BY DEF Fire
<1> DEFINE s == [kind |-> r.kind, id |-> r.id, at |-> "start"]
<1>2. UNCHANGED <<disk, changes, events, loop, registrations, isOpen, text, watchTold,
                  watchExcused, debounceMap>>
  BY DEF Fire, events_, loop_, client_
<1>3. /\ r.kind \in {"changed", "created"} /\ r.id \in Timers
      /\ s.kind = r.kind /\ s.id = r.id /\ s.at = "start"
      /\ s \in [kind : {"changed", "created"}, id : Timers, at : {"start", "read", "cleanup"}]
  BY DEF WatchInv, WatchTypeOK
<1>4. s \in firing' /\ firing' = firing \cup {s}
  BY <1>1
<1> HIDE DEF s
<1>5. WatchTypeOK'
  BY <1>1, <1>2, <1>3, <1>4 DEF WatchInv, WatchTypeOK
<1>6. NamesDiffer'
  BY <1>1, <1>3, <1>4 DEF WatchInv, NamesDiffer
<1>7. LastEventTells' /\ TextsAreHeld'
  BY <1>2, <1>4 DEF WatchInv, LastEventTells, TextsAreHeld
<1>8. ~watchExcused' => ChangeIsOnItsWay' /\ RemovalIsTold'
  BY <1>2, <1>3, <1>4, QuietKeeps DEF Queued, Pending
<1> QED
  BY <1>5, <1>6, <1>7, <1>8 DEF WatchInv

(* A timer that goes on keeps its name. *)
LEMMA GoesKeeps ==
  ASSUME WatchInv, NEW r \in firing, NEW stage \in {"read", "cleanup"}, Goes(r, stage), UNCHANGED armed
  PROVE  /\ firing' \subseteq [kind : {"changed", "created"}, id : Timers, at : {"start", "read", "cleanup"}]
         /\ NamesDiffer'
         /\ \E s \in firing' : s.id = r.id /\ s.at = stage
         /\ \A q \in firing : q.id # r.id => q \in firing'
         /\ \A q \in firing : q # r => q \in firing'
<1> DEFINE s == [r EXCEPT !.at = stage]
<1>1. /\ r \in [kind : {"changed", "created"}, id : Timers, at : {"start", "read", "cleanup"}]
      /\ firing \subseteq [kind : {"changed", "created"}, id : Timers, at : {"start", "read", "cleanup"}]
  BY DEF WatchInv, WatchTypeOK
<1>2. /\ s \in [kind : {"changed", "created"}, id : Timers, at : {"start", "read", "cleanup"}]
      /\ s.id = r.id /\ s.at = stage
  BY <1>1
<1>3. firing' = (firing \ {r}) \cup {s}
  BY DEF Goes
<1> HIDE DEF s
<1>4. NamesDiffer'
  BY <1>2, <1>3 DEF WatchInv, NamesDiffer
<1> QED
  BY <1>1, <1>2, <1>3, <1>4

LEMMA ReportStep == WatchInv /\ ~watchExcused /\ Report => WatchInv'
<1> SUFFICES ASSUME WatchInv, ~watchExcused, Report PROVE WatchInv'
  OBVIOUS
<1>1. PICK r \in firing : HandleFileEvent(r)
  BY DEF Report
<1>2. UNCHANGED <<disk, changes, events, loop, registrations, debounceMap, armed>>
  BY DEF Report, events_, loop_
<1>3. /\ WatchTypeOK /\ NamesDiffer /\ TextsAreHeld /\ ChangeIsOnItsWay /\ RemovalIsTold
      /\ r.id \in Timers /\ r.id \in Goroutines /\ r.id # Loop /\ disk \in Nat
      /\ isOpen \in BOOLEAN /\ watchTold \in Nat /\ watchExcused \in BOOLEAN
      /\ text \in [Goroutines -> Nat]
  BY TimerNames DEF WatchInv, WatchTypeOK
<1>4. ASSUME r.at = "start" PROVE text[r.id] = None
  BY <1>3, <1>4 DEF TextsAreHeld, NamesDiffer
<1>5. ASSUME NEW stage \in {"read", "cleanup"}, Goes(r, stage),
             \A g \in Goroutines \ {r.id} : text'[g] = text[g],
             text'[r.id] # None => stage = "read",
             text' \in [Goroutines -> Nat], isOpen' \in BOOLEAN, watchTold' \in Nat,
             watchExcused' \in BOOLEAN, ~watchExcused' => ChangeIsOnItsWay' /\ RemovalIsTold'
      PROVE  WatchInv'
  <2>1. /\ firing' \subseteq [kind : {"changed", "created"}, id : Timers, at : {"start", "read", "cleanup"}]
        /\ NamesDiffer'
        /\ \E s \in firing' : s.id = r.id /\ s.at = stage
        /\ \A q \in firing : q.id # r.id => q \in firing'
    BY <1>2, <1>5, GoesKeeps
  <2>2. WatchTypeOK'
    BY <1>2, <1>5, <2>1 DEF WatchInv, WatchTypeOK
  <2>3. TextsAreHeld'
    <3>1. text'[Loop] # None => loop' = "opening"
      BY <1>2, <1>3, <1>5, TimerNames DEF TextsAreHeld
    <3>2. ASSUME NEW t \in Timers, text'[t] # None PROVE \E q \in firing' : q.id = t /\ q.at = "read"
      <4>1. CASE t = r.id
        BY <1>5, <2>1, <3>2, <4>1
      <4>2. CASE t # r.id
        <5>1. text[t] # None
          BY <1>5, <3>2, <4>2, TimerNames
        <5>2. PICK q \in firing : q.id = t /\ q.at = "read"
          BY <1>3, <5>1 DEF TextsAreHeld
        <5> QED
          BY <2>1, <4>2, <5>2
      <4> QED
        BY <4>1, <4>2
    <3> QED
      BY <3>1, <3>2 DEF TextsAreHeld
  <2>4. LastEventTells'
    BY <1>2 DEF WatchInv, LastEventTells
  <2> QED
    BY <1>5, <2>1, <2>2, <2>3, <2>4 DEF WatchInv
<1>6. Queued => Queued'
  BY <1>2 DEF Queued
<1>7. CASE /\ r.at = "start" /\ Reads(r.id) /\ Goes(r, "read")
           /\ UNCHANGED <<isOpen, watchTold, watchExcused>>
  BY <1>2, <1>3, <1>5, <1>7, ReadKeeps
<1>8. CASE /\ r.at = "start" /\ disk = None /\ Goes(r, "cleanup") /\ UNCHANGED text
           /\ UNCHANGED <<isOpen, watchTold, watchExcused>>
  <2>1. ChangeIsOnItsWay' /\ RemovalIsTold'
    <3>1. CASE Queued
      BY <1>6, <3>1 DEF ChangeIsOnItsWay, Pending, RemovalIsTold
    <3>2. CASE watchTold = None /\ NoTexts
      BY <1>2, <1>8, <3>2 DEF ChangeIsOnItsWay, TextsAreFresh, ChangeIsHeld, RemovalIsTold, NoTexts
    <3> QED
      BY <1>3, <1>8, <3>1, <3>2 DEF RemovalIsTold
  <2> QED
    BY <1>3, <1>4, <1>5, <1>8, <2>1
<1>9. CASE r.at = "read" /\ Sends(r.id) /\ Goes(r, "cleanup")
  <2>1. Pending => Pending'
    <3>1. \A q \in firing : q # r => q \in firing'
      BY <1>2, <1>9, GoesKeeps
    <3>2. \A q \in firing : q.at = "start" => q \in firing'
      BY <1>9, <3>1
    <3> QED
      BY <1>2, <1>6, <3>2 DEF Pending
  <2> QED
    BY <1>2, <1>3, <1>5, <1>6, <1>9, <2>1, SendKeeps
<1>10. CASE r.at = "start" /\ NotifyFileEvent(r.id, disk) /\ Goes(r, "cleanup")
  BY <1>2, <1>3, <1>4, <1>5, <1>6, <1>10, NotifyKeeps
<1> QED
  BY <1>1, <1>7, <1>8, <1>9, <1>10 DEF HandleFileEvent

LEMMA CleanupStep == WatchInv /\ ~watchExcused /\ Cleanup => WatchInv'
<1> SUFFICES ASSUME WatchInv, ~watchExcused, Cleanup PROVE WatchInv'
  OBVIOUS
<1>1. PICK r \in firing : /\ r.at = "cleanup" /\ firing' = firing \ {r}
                          /\ debounceMap' = [debounceMap EXCEPT ![r.kind] = None]
  BY DEF Cleanup
<1>2. UNCHANGED <<disk, changes, events, loop, registrations, isOpen, text, watchTold,
                  watchExcused, armed>>
  BY DEF Cleanup, events_, loop_, client_
<1>3. WatchTypeOK'
  <2>1. debounceMap' \in [{"changed", "created"} -> Timers \cup {None}]
    BY <1>1 DEF WatchInv, WatchTypeOK
  <2> QED
    BY <1>1, <1>2, <2>1 DEF WatchInv, WatchTypeOK
<1>4. LastEventTells' /\ NamesDiffer'
  BY <1>1, <1>2 DEF WatchInv, LastEventTells, NamesDiffer
<1>5. TextsAreHeld'
  BY <1>1, <1>2 DEF WatchInv, TextsAreHeld
<1>6. ~watchExcused' => ChangeIsOnItsWay' /\ RemovalIsTold'
  BY <1>1, <1>2, QuietKeeps DEF Queued, Pending
<1> QED
  BY <1>3, <1>4, <1>5, <1>6 DEF WatchInv

(* A timer is started under a free name; the one it replaces is forgotten. *)
LEMMA DebounceKeeps ==
  ASSUME WatchInv, NEW k \in {"changed", "created"}, Debounce(k)
  PROVE  /\ armed' \subseteq [kind : {"changed", "created"}, id : Timers] /\ armed' # {}
         /\ debounceMap' \in [{"changed", "created"} -> Timers \cup {None}]
         /\ firing' = firing /\ NamesDiffer'
<1>1. /\ armed \subseteq [kind : {"changed", "created"}, id : Timers]
      /\ debounceMap \in [{"changed", "created"} -> Timers \cup {None}]
  BY DEF WatchInv, WatchTypeOK
<1>2. Free \in Timers /\ \A r \in armed \cup firing : r.id # Free
  <2>1. Free \in FreeTimers
    BY DEF Debounce, Free
  <2> QED
    BY <2>1 DEF FreeTimers
<1> DEFINE new == [kind |-> k, id |-> Free]
<1>3. new \in [kind : {"changed", "created"}, id : Timers] /\ new.id = Free
  BY <1>2
<1>4. armed' = Without(k) \cup {new} /\ Without(k) \subseteq armed /\ firing' = firing
      /\ debounceMap' = [debounceMap EXCEPT ![k] = Free]
  BY DEF Debounce, Without
<1> HIDE DEF new
<1>5. debounceMap' \in [{"changed", "created"} -> Timers \cup {None}]
  BY <1>1, <1>2, <1>4
<1>6. NamesDiffer'
  BY <1>2, <1>3, <1>4 DEF WatchInv, NamesDiffer
<1> QED
  BY <1>1, <1>3, <1>4, <1>5, <1>6

-----------------------------------------------------------------------------
(* The event loop. *)

LEMMA TakeStep == WatchInv /\ ~watchExcused /\ TakeEvent => WatchInv'
<1> SUFFICES ASSUME WatchInv, ~watchExcused, TakeEvent PROVE WatchInv'
  OBVIOUS
<1> DEFINE E == {"write", "create", "remove", "rename"}
<1>1. /\ loop = "select" /\ events # <<>> /\ events' = Tail(events)
      /\ loop' = IF Head(events) = "create" THEN "created" ELSE Head(events)
      /\ UNCHANGED <<disk, changes, registrations, isOpen, text, watchTold, watchExcused,
                     debounceMap, armed, firing>>
  BY DEF TakeEvent, client_, timers_
<1>2. /\ events \in Seq(E) /\ events' \in Seq(E) /\ Head(events) \in E
      /\ Head(events) = events[1] /\ Len(events) \in Nat /\ Len(events') = Len(events) - 1
      /\ \A i \in 1..Len(events') : events'[i] = events[i + 1]
  <2>1. events \in Seq(E)
    BY DEF WatchInv, WatchTypeOK
  <2>2. /\ Head(events) \in E /\ Tail(events) \in Seq(E)
        /\ Len(Tail(events)) = Len(events) - 1
        /\ \A i \in 1..Len(Tail(events)) : Tail(events)[i] = events[i + 1]
    BY <1>1, <2>1, HeadTailProperties
  <2>3. Head(events) = events[1] /\ Len(events) \in Nat
    BY <1>1, <2>1
  <2> QED
    BY <1>1, <2>1, <2>2, <2>3
<1>3. loop' \in {"write", "created", "remove", "rename"} /\ (loop' \in Gone <=> Head(events) \in Gone)
  BY <1>1, <1>2 DEF Gone
<1>4. WatchTypeOK'
  BY <1>1, <1>2, <1>3 DEF WatchInv, WatchTypeOK
<1>5. LastEventTells'
  <2>1. disk = None <=> events[Len(events)] \in Gone
    BY <1>1 DEF WatchInv, LastEventTells
  <2>2. CASE events' = <<>>
    <3>1. Len(events) = 1
      BY <1>2, <2>2
    <3> QED
      BY <1>1, <1>2, <1>3, <2>1, <2>2, <3>1 DEF LastEventTells, Gone
  <2>3. CASE events' # <<>>
    <3>1. Len(events') \in 1..Len(events') /\ Len(events') + 1 = Len(events)
      BY <1>2, <2>3, EmptySeq
    <3> QED
      BY <1>1, <1>2, <2>1, <2>3, <3>1 DEF LastEventTells
  <2> QED
    BY <2>2, <2>3
<1>6. NamesDiffer' /\ TextsAreHeld'
  BY <1>1 DEF WatchInv, NamesDiffer, TextsAreHeld
<1>7. ~watchExcused' => ChangeIsOnItsWay' /\ RemovalIsTold'
  BY <1>3 DEF ChangeIsOnItsWay, RemovalIsTold, Pending, Queued
<1> QED
  BY <1>4, <1>5, <1>6, <1>7 DEF WatchInv

LEMMA NewFileStep == WatchInv /\ ~watchExcused /\ (NewFile \/ NewFileOpened) => WatchInv'
<1> SUFFICES ASSUME WatchInv, ~watchExcused, NewFile \/ NewFileOpened PROVE WatchInv'
  OBVIOUS
<1>1. /\ loop \in {"created", "opening"} /\ loop' \in {"opening", "create"}
      /\ UNCHANGED <<disk, changes, events, registrations, debounceMap, armed, firing>>
  BY DEF NewFile, NewFileOpened, events_, timers_
<1>2. /\ text' \in [Goroutines -> Nat] /\ \A h \in Goroutines \ {Loop} : text'[h] = text[h]
      /\ text'[Loop] # None => loop' = "opening"
      /\ isOpen' \in BOOLEAN /\ watchTold' \in Nat /\ watchExcused' \in BOOLEAN
  <2>1. Loop \in Goroutines /\ WatchTypeOK /\ TextsAreHeld
    BY TimerNames DEF WatchInv
  <2>2. CASE NewFile
    BY <1>1, <2>1, <2>2, ReadKeeps DEF NewFile, WatchTypeOK, TextsAreHeld
  <2>3. CASE NewFileOpened
    <3>1. Queued' /\ Pending'
      BY <1>1 DEF Queued, Pending
    <3> QED
      BY <1>1, <2>1, <2>3, <3>1, SendKeeps DEF NewFileOpened
  <2> QED
    BY <2>2, <2>3
<1>3. WatchTypeOK'
  BY <1>1, <1>2 DEF WatchInv, WatchTypeOK
<1>4. LastEventTells' /\ NamesDiffer'
  BY <1>1 DEF WatchInv, LastEventTells, NamesDiffer, Gone
<1>5. TextsAreHeld'
  BY <1>1, <1>2, TimerNames DEF WatchInv, TextsAreHeld
<1>6. ChangeIsOnItsWay' /\ RemovalIsTold'
  BY <1>1 DEF ChangeIsOnItsWay, RemovalIsTold, Pending, Queued
<1> QED
  BY <1>3, <1>4, <1>5, <1>6 DEF WatchInv

LEMMA DispatchStep == WatchInv /\ ~watchExcused /\ Dispatch => WatchInv'
<1> SUFFICES ASSUME WatchInv, ~watchExcused, Dispatch PROVE WatchInv'
  OBVIOUS
<1>1. UNCHANGED <<disk, changes, events, registrations>>
  BY DEF Dispatch, events_
<1>2. /\ loop \in {"write", "create", "remove", "rename"} /\ loop' \in {"select", "ended"}
  BY DEF Dispatch
<1>3. /\ WatchTypeOK /\ LastEventTells /\ NamesDiffer /\ TextsAreHeld
      /\ ChangeIsOnItsWay /\ RemovalIsTold /\ Loop \in Goroutines /\ text[Loop] = None
      /\ disk \in Nat /\ None \in Nat
  BY <1>2, TimerNames DEF WatchInv, TextsAreHeld, WatchTypeOK
<1>4. ASSUME UNCHANGED <<text, firing>>, NamesDiffer',
             armed' \subseteq [kind : {"changed", "created"}, id : Timers],
             debounceMap' \in [{"changed", "created"} -> Timers \cup {None}],
             isOpen' \in BOOLEAN, watchTold' \in Nat, watchExcused' \in BOOLEAN,
             ~watchExcused' => ChangeIsOnItsWay' /\ RemovalIsTold'
      PROVE  WatchInv'
  <2>1. WatchTypeOK'
    BY <1>1, <1>2, <1>3, <1>4 DEF WatchTypeOK
  <2>2. LastEventTells'
    BY <1>1, <1>2, <1>3 DEF LastEventTells, Gone
  <2>3. TextsAreHeld'
    BY <1>2, <1>3, <1>4 DEF TextsAreHeld
  <2> QED
    BY <1>4, <2>1, <2>2, <2>3 DEF WatchInv
<1>5. ASSUME UNCHANGED timers_ PROVE /\ UNCHANGED firing /\ NamesDiffer'
                                     /\ armed' \subseteq [kind : {"changed", "created"}, id : Timers]
                                     /\ debounceMap' \in [{"changed", "created"} -> Timers \cup {None}]
  BY <1>3, <1>5 DEF timers_, NamesDiffer, WatchTypeOK
<1>6. CASE \E k \in {"changed", "created"} : Debounce(k) /\ UNCHANGED client_ /\ disk # None
  <2>1. PICK k \in {"changed", "created"} : Debounce(k)
    BY <1>6
  <2>2. /\ armed' \subseteq [kind : {"changed", "created"}, id : Timers] /\ armed' # {}
        /\ debounceMap' \in [{"changed", "created"} -> Timers \cup {None}]
        /\ firing' = firing /\ NamesDiffer'
    BY <2>1, DebounceKeeps
  <2>3. ChangeIsOnItsWay' /\ RemovalIsTold'
    BY <1>1, <1>6, <2>2 DEF ChangeIsOnItsWay, Pending, RemovalIsTold
  <2>4. UNCHANGED text /\ isOpen' \in BOOLEAN /\ watchTold' \in Nat /\ watchExcused' \in BOOLEAN
    BY <1>3, <1>6 DEF client_, WatchTypeOK
  <2> QED
    BY <1>4, <2>2, <2>3, <2>4
<1>7. CASE loop = "write" /\ Debounce("changed") /\ UNCHANGED client_ /\ disk = None
  <2>1. /\ armed' \subseteq [kind : {"changed", "created"}, id : Timers] /\ armed' # {}
        /\ debounceMap' \in [{"changed", "created"} -> Timers \cup {None}]
        /\ firing' = firing /\ NamesDiffer'
    BY <1>7, DebounceKeeps
  <2>2. events # <<>>
    BY <1>3, <1>7 DEF LastEventTells
  <2>3. ChangeIsOnItsWay' /\ RemovalIsTold'
    BY <1>1, <2>1, <2>2 DEF ChangeIsOnItsWay, Pending, Queued, RemovalIsTold
  <2>4. UNCHANGED text /\ isOpen' \in BOOLEAN /\ watchTold' \in Nat /\ watchExcused' \in BOOLEAN
    BY <1>3, <1>7 DEF client_, WatchTypeOK
  <2> QED
    BY <1>4, <2>1, <2>3, <2>4
<1>8. CASE loop' = "ended" /\ UNCHANGED <<client_, timers_>>
  <2>1. ChangeIsOnItsWay' /\ RemovalIsTold'
    BY <1>8 DEF ChangeIsOnItsWay, Pending, Queued, RemovalIsTold
  <2>2. UNCHANGED text /\ isOpen' \in BOOLEAN /\ watchTold' \in Nat /\ watchExcused' \in BOOLEAN
    BY <1>3, <1>8 DEF client_, WatchTypeOK
  <2> QED
    BY <1>4, <1>5, <1>8, <2>1, <2>2
<1>9. CASE loop \in Gone /\ NotifyFileEvent(Loop, None) /\ (Debounce("created") \/ UNCHANGED timers_)
  <2>1. None = disk \/ Queued'
    BY <1>1, <1>3, <1>9 DEF LastEventTells, Queued
  <2>2. /\ watchTold' \in Nat /\ watchExcused' \in BOOLEAN /\ UNCHANGED <<isOpen, text>>
        /\ ~watchExcused' => ChangeIsOnItsWay' /\ RemovalIsTold'
    BY <1>1, <1>3, <1>9, <2>1, NotifyKeeps
  <2>3. UNCHANGED text /\ isOpen' \in BOOLEAN
    BY <1>3, <2>2 DEF WatchTypeOK
  <2>4. CASE Debounce("created")
    BY <1>4, <2>2, <2>3, <2>4, DebounceKeeps
  <2>5. CASE UNCHANGED timers_
    BY <1>4, <1>5, <2>2, <2>3, <2>5
  <2> QED
    BY <1>9, <2>4, <2>5
<1>10. CASE Ignore
  BY <1>3, <1>4, <1>5, <1>10 DEF Ignore, WatchTypeOK
<1> QED
  BY <1>6, <1>7, <1>8, <1>9, <1>10 DEF Dispatch, Gone

LEMMA RegistrationStep == WatchInv /\ ~watchExcused /\ AddRegistrations => WatchInv'
<1> SUFFICES ASSUME WatchInv, ~watchExcused, AddRegistrations PROVE WatchInv'
  OBVIOUS
<1>1. UNCHANGED <<disk, changes, events, loop, isOpen, text, watchTold, watchExcused, debounceMap,
                  armed, firing>>
  BY DEF AddRegistrations, events_, client_, timers_
<1>2. registrations' \in Seq(SUBSET Kinds)
  <2>1. PICK kinds \in SUBSET Kinds : registrations' = Append(registrations, kinds)
    BY DEF AddRegistrations, Kinds
  <2> QED
    BY <2>1, AppendProperties DEF WatchInv, WatchTypeOK
<1>3. WatchTypeOK'
  BY <1>1, <1>2 DEF WatchInv, WatchTypeOK
<1>4. LastEventTells' /\ NamesDiffer' /\ TextsAreHeld'
  BY <1>1 DEF WatchInv, LastEventTells, NamesDiffer, TextsAreHeld
<1>5. ~watchExcused' => ChangeIsOnItsWay' /\ RemovalIsTold'
  BY <1>1, QuietKeeps DEF Queued, Pending
<1> QED
  BY <1>3, <1>4, <1>5 DEF WatchInv

-----------------------------------------------------------------------------

LEMMA WatchStep == WatchInv /\ [WatchNext]_watchVars => WatchInv'
<1> SUFFICES ASSUME WatchInv, [WatchNext]_watchVars PROVE WatchInv'
  OBVIOUS
<1>1. CASE UNCHANGED watchVars
  <2>1. UNCHANGED <<disk, changes, events, loop, registrations, isOpen, text, watchTold,
                    watchExcused, debounceMap, armed, firing>>
    BY <1>1 DEF watchVars, events_, loop_, client_, timers_
  <2>2. WatchTypeOK'
    BY <2>1 DEF WatchInv, WatchTypeOK
  <2>3. LastEventTells' /\ NamesDiffer' /\ TextsAreHeld'
    BY <2>1 DEF WatchInv, LastEventTells, NamesDiffer, TextsAreHeld
  <2>4. ~watchExcused' => ChangeIsOnItsWay' /\ RemovalIsTold'
    BY <2>1, QuietKeeps DEF Queued, Pending
  <2> QED
    BY <2>2, <2>3, <2>4 DEF WatchInv
<1> QED
  BY <1>1, FileStep, ToolStep, FireStep, ReportStep, CleanupStep, TakeStep, NewFileStep,
     DispatchStep, RegistrationStep DEF WatchNext

(* The inductive invariant holds of every file and its watcher. *)
THEOREM WatchInvariance == WatchSpec => []WatchInv
<1>1. WatchInv /\ [WatchNext]_watchVars => WatchInv'
  BY WatchStep
<1> QED
  BY <1>1, WatchStarts, PTL DEF WatchSpec

(* Every variable of the watcher keeps its type. *)
THEOREM WatchTypeCorrect == WatchSpec => []WatchTypeOK
<1>1. WatchInv => WatchTypeOK
  BY DEF WatchInv
<1> QED
  BY <1>1, WatchInvariance, PTL

(* When all is at rest the server knows the file as it is, for any number of
   changes, of events in a row, of registrations and of timers at a time. *)
THEOREM NothingMissed == WatchSpec => []NoChangeMissed
<1>1. WatchInv => NoChangeMissed
  <2> SUFFICES ASSUME WatchInv, AtRest, ~watchExcused PROVE watchTold = disk
    BY DEF NoChangeMissed
  <2>1. ~Pending
    BY DEF AtRest, Pending, Queued
  <2>2. DOMAIN text = Goroutines
    BY DEF WatchInv, WatchTypeOK
  <2>3. \A g \in Goroutines : text[g] = None
    BY <2>2 DEF AtRest
  <2> QED
    BY <2>1, <2>3 DEF WatchInv, ChangeIsOnItsWay, TwoTexts, ChangeIsHeld
<1> QED
  BY <1>1, WatchInvariance, PTL

-----------------------------------------------------------------------------
(* The life of the language servers.                                         *)

\* Who has an entry in the watchers' group for a watcher that runs or is about to ...
Watching == {n \in Names : phase[n] \in {"added", "watching"}}
\* ... and who still holds that of a watcher that panicked.
Restarting ==
    {n \in restarted : phase[n] \in {"restart", "restartAsked", "start", "launched",
                                     "initialize", "ready", "ping", "stored", "added"}}

Phases == {"start", "launched", "initialize", "ready", "ping", "stored", "added", "watching", "ended",
           "failed", "restart", "restartAsked"}

AppTypes ==
    /\ phase \in [Names -> Phases]
    /\ restarted \subseteq Names /\ late \subseteq Names /\ group \in Int

\* Who panicked is restarting, and nobody waits to panic again who has not.
PanicsAreKnown == \A n \in Names : phase[n] \in {"restart", "restartAsked"} => n \in restarted

GroupCounts == group = Cardinality(Watching) + Cardinality(Restarting)

\* The group has been seen empty: who has joined it since is late.
NobodyIsLeft ==
    quit \in {"waited", "done"} =>
       \A n \in Names \ late :
          phase[n] \notin {"added", "watching", "restart", "restartAsked"}

AppInv == AppTypes /\ PanicsAreKnown /\ GroupCounts /\ NobodyIsLeft

-----------------------------------------------------------------------------

WatchCount(p) == IF p \in {"added", "watching"} THEN 1 ELSE 0
RestartCount(p, known) ==
    IF known /\ p \in {"restart", "restartAsked", "start", "launched", "initialize", "ready",
                       "ping", "stored", "added"} THEN 1 ELSE 0

LEMMA GroupsAreFinite ==
  ASSUME AppTypes
  PROVE  /\ IsFiniteSet(Watching) /\ Cardinality(Watching) \in Nat
         /\ IsFiniteSet(Restarting) /\ Cardinality(Restarting) \in Nat
<1>1. Watching \subseteq Names /\ Restarting \subseteq Names
  BY DEF Watching, Restarting, AppTypes
<1> QED
  BY <1>1, NamesAssumption, FS_Subset, FS_CardinalityType

(* A set that gains or loses one element, or keeps all. *)
LEMMA OneCounts ==
  ASSUME NEW S, NEW T, NEW n, IsFiniteSet(S), \A m : m # n => (m \in T <=> m \in S)
  PROVE  Cardinality(T) = Cardinality(S) + (IF n \in T THEN 1 ELSE 0) - (IF n \in S THEN 1 ELSE 0)
<1>0. Cardinality(S) \in Nat
  BY FS_CardinalityType
<1>1. CASE n \in T <=> n \in S
  <2>1. T = S
    BY <1>1
  <2> QED
    BY <1>0, <2>1
<1>2. CASE n \in T /\ n \notin S
  <2>1. T = S \cup {n}
    BY <1>2
  <2>2. Cardinality(T) = Cardinality(S) + 1
    BY <1>2, <2>1, FS_AddElement
  <2> QED
    BY <1>0, <1>2, <2>2
<1>3. CASE n \notin T /\ n \in S
  <2>1. T = S \ {n}
    BY <1>3
  <2>2. Cardinality(T) = Cardinality(S) - 1
    BY <1>3, <2>1, FS_RemoveElement
  <2> QED
    BY <1>0, <1>3, <2>2
<1> QED
  BY <1>1, <1>2, <1>3

(* One goroutine goes on, and the group with it. *)
Advanced(n, to) ==
    /\ phase' = [phase EXCEPT ![n] = to]
    /\ restarted' \in {restarted, restarted \cup {n}}
    /\ late' \in {late, late \cup {n}} /\ quit' = quit
    /\ group' = group + WatchCount(to) - WatchCount(phase[n])
                 + RestartCount(to, n \in restarted') - RestartCount(phase[n], n \in restarted)
    /\ to \in {"restart", "restartAsked"} => n \in restarted'
    /\ quit \in {"waited", "done"} /\ n \notin late' =>
          to \notin {"added", "watching", "restart", "restartAsked"}

LEMMA AdvanceKeeps ==
  ASSUME AppInv, NEW n \in Names, NEW to \in Phases, Advanced(n, to)
  PROVE  AppInv'
<1> USE DEF Advanced, Phases
<1>1. AppTypes'
  BY DEF AppInv, AppTypes, WatchCount, RestartCount
<1>2. PanicsAreKnown' /\ NobodyIsLeft'
  BY DEF AppInv, AppTypes, PanicsAreKnown, NobodyIsLeft
<1>3. /\ IsFiniteSet(Watching) /\ Cardinality(Watching) \in Nat
      /\ IsFiniteSet(Restarting) /\ Cardinality(Restarting) \in Nat
  BY GroupsAreFinite DEF AppInv
<1>4. Cardinality(Watching') = Cardinality(Watching) + WatchCount(to) - WatchCount(phase[n])
  <2>1. /\ \A m : m # n => (m \in Watching' <=> m \in Watching)
        /\ n \in Watching' <=> to \in {"added", "watching"}
        /\ n \in Watching <=> phase[n] \in {"added", "watching"}
    BY DEF Watching, AppInv, AppTypes
  <2> QED
    BY <1>3, <2>1, OneCounts DEF WatchCount
<1>5. Cardinality(Restarting') = Cardinality(Restarting) + RestartCount(to, n \in restarted')
                                 - RestartCount(phase[n], n \in restarted)
  <2> DEFINE P == {"restart", "restartAsked", "start", "launched", "initialize", "ready", "ping",
                   "stored", "added"}
  <2>1. /\ \A m : m # n => (m \in Restarting' <=> m \in Restarting)
        /\ n \in Restarting' <=> n \in restarted' /\ to \in P
        /\ n \in Restarting <=> n \in restarted /\ phase[n] \in P
    BY DEF Restarting, AppInv, AppTypes
  <2> QED
    BY <1>3, <2>1, OneCounts DEF RestartCount
<1>6. GroupCounts'
  BY <1>3, <1>4, <1>5 DEF GroupCounts, AppInv, AppTypes, WatchCount, RestartCount
<1> QED
  BY <1>1, <1>2, <1>6 DEF AppInv

LEMMA AppStarts == AppInit => AppInv
<1> SUFFICES ASSUME AppInit PROVE AppInv
  OBVIOUS
<1>1. AppTypes /\ PanicsAreKnown /\ NobodyIsLeft
  BY DEF AppInit, AppTypes, Phases, PanicsAreKnown, NobodyIsLeft
<1>2. Watching = {} /\ Restarting = {}
  BY DEF AppInit, Watching, Restarting
<1>3. GroupCounts
  BY <1>2, FS_EmptySet DEF AppInit, GroupCounts
<1> QED
  BY <1>1, <1>3 DEF AppInv

LEMMA StartStep == ASSUME AppInv, NEW n \in Names, Client(n) PROVE AppInv'
<1>0. AppInv /\ AppTypes /\ PanicsAreKnown /\ NobodyIsLeft
  BY DEF AppInv
<1>1. CASE Launch(n) \/ AskInitialize(n) \/ Initialized(n) \/ Pings(n) \/ StoreCancel(n)
  <2>1. PICK to \in {"launched", "initialize", "ready", "ping", "stored"} :
           /\ phase' = [phase EXCEPT ![n] = to]
           /\ phase[n] \in {"start", "launched", "initialize", "ready", "ping"}
    BY <1>1 DEF Launch, AskInitialize, Initialized, Pings, StoreCancel, Advances
  <2>2. UNCHANGED <<restarted, late, quit, group>>
    BY <1>1 DEF Launch, AskInitialize, Initialized, Pings, StoreCancel, registry, stopping
  <2>3. Advanced(n, to) /\ to \in Phases
    BY <1>0, <2>1, <2>2 DEF AppTypes, WatchCount, RestartCount, Advanced, Phases
  <2> QED
    BY <1>0, <2>3, AdvanceKeeps
<1>2. CASE Fails(n)
  <2>1. phase' = [phase EXCEPT ![n] = "failed"] /\ phase[n] \in {"start", "launched", "initialize"}
    BY <1>2 DEF Fails, Advances
  <2>2. UNCHANGED <<restarted, late, quit>> /\ Leaves(n)
    BY <1>2 DEF Fails, registry, stopping
  <2>3. Advanced(n, "failed") /\ "failed" \in Phases
    BY <1>0, <2>1, <2>2 DEF AppTypes, WatchCount, RestartCount, Leaves, Advanced, Phases
  <2> QED
    BY <1>0, <2>3, AdvanceKeeps
<1>3. CASE AddGroup(n)
  <2>1. /\ phase' = [phase EXCEPT ![n] = "added"] /\ phase[n] = "stored"
        /\ UNCHANGED <<restarted, quit>> /\ group' = group + 1
        /\ late' = IF quit = "no" THEN late ELSE late \cup {n}
    BY <1>3 DEF AddGroup, Advances, stopping
  <2>2. Advanced(n, "added") /\ "added" \in Phases
    BY <1>0, <2>1 DEF AppTypes, WatchCount, RestartCount, Advanced, Phases
  <2> QED
    BY <1>0, <2>2, AdvanceKeeps
<1>4. CASE StartWatcher(n)
  <2>1. /\ phase' = [phase EXCEPT ![n] = "watching"] /\ phase[n] = "added"
        /\ UNCHANGED <<restarted, quit, late>> /\ Leaves(n)
    BY <1>4 DEF StartWatcher, Advances, stopping, registry
  <2>2. Advanced(n, "watching") /\ "watching" \in Phases
    BY <1>0, <2>1 DEF AppTypes, WatchCount, RestartCount, Leaves, NobodyIsLeft, Advanced, Phases
  <2> QED
    BY <1>0, <2>2, AdvanceKeeps
<1>5. CASE RestartAsks(n) \/ RestartAnswered(n)
  <2>1. PICK to \in {"start", "restartAsked"} :
           phase' = [phase EXCEPT ![n] = to] /\ phase[n] \in {"restart", "restartAsked"}
    BY <1>5 DEF RestartAsks, RestartAnswered, Advances
  <2>2. UNCHANGED <<restarted, late, quit, group>>
    BY <1>5 DEF RestartAsks, RestartAnswered, registry, stopping
  <2>3. Advanced(n, to) /\ to \in Phases
    BY <1>0, <2>1, <2>2 DEF AppTypes, WatchCount, RestartCount, PanicsAreKnown, NobodyIsLeft, Advanced, Phases
  <2> QED
    BY <1>0, <2>3, AdvanceKeeps
<1> QED
  BY <1>1, <1>2, <1>3, <1>4, <1>5 DEF Client

LEMMA WatcherEndStep ==
  ASSUME AppInv, NEW n \in Names, WatchEnds(n) \/ WatchPanics(n) PROVE AppInv'
<1>0. AppInv /\ AppTypes /\ PanicsAreKnown /\ NobodyIsLeft
  BY DEF AppInv
<1>1. CASE WatchEnds(n)
  <2>1. /\ phase' = [phase EXCEPT ![n] = "ended"] /\ phase[n] = "watching"
        /\ UNCHANGED <<restarted, quit, late>> /\ group' = group - 1
    BY <1>1 DEF WatchEnds, Advances, stopping, registry
  <2>2. Advanced(n, "ended") /\ "ended" \in Phases
    BY <1>0, <2>1 DEF AppTypes, WatchCount, RestartCount, Advanced, Phases
  <2> QED
    BY <1>0, <2>2, AdvanceKeeps
<1>2. CASE WatchPanics(n)
  <2>1. /\ phase' = [phase EXCEPT ![n] = "restart"] /\ phase[n] = "watching"
        /\ UNCHANGED <<quit, late, group>> /\ restarted' = restarted \cup {n}
    BY <1>2 DEF WatchPanics, Advances, stopping, registry
  <2>2. Advanced(n, "restart") /\ "restart" \in Phases
    BY <1>0, <2>1 DEF AppTypes, WatchCount, RestartCount, NobodyIsLeft, Advanced, Phases
  <2> QED
    BY <1>0, <2>2, AdvanceKeeps
<1> QED
  BY <1>1, <1>2

(* The group is empty when the wait for it is over. *)
LEMMA QuitStep ==
  ASSUME AppInv, UNCHANGED <<phase, restarted, group, late>>,
         quit' \in {"waited", "done"} =>
            quit \in {"waited", "done"} \/ group = 0
  PROVE  AppInv'
<1>1. AppTypes' /\ PanicsAreKnown' /\ GroupCounts'
  BY DEF AppInv, AppTypes, PanicsAreKnown, GroupCounts, Watching, Restarting
<1>2. ASSUME group = 0 PROVE NobodyIsLeft'
  <2>1. /\ IsFiniteSet(Watching) /\ Cardinality(Watching) = 0
        /\ IsFiniteSet(Restarting) /\ Cardinality(Restarting) = 0
    BY <1>2, GroupsAreFinite DEF AppInv, GroupCounts
  <2>2. Watching = {} /\ Restarting = {}
    BY <2>1, FS_EmptySet
  <2> QED
    BY <2>2 DEF NobodyIsLeft, Watching, Restarting, AppInv, AppTypes, PanicsAreKnown
<1>3. ASSUME quit' \notin {"waited", "done"} \/ quit \in {"waited", "done"} PROVE NobodyIsLeft'
  BY <1>3 DEF NobodyIsLeft, AppInv
<1> QED
  BY <1>1, <1>2, <1>3 DEF AppInv

LEMMA AppStep == AppInv /\ [AppNext]_appVars => AppInv'
<1> SUFFICES ASSUME AppInv, [AppNext]_appVars PROVE AppInv'
  OBVIOUS
<1>1. CASE \E n \in Names : Client(n) \/ WatchEnds(n) \/ WatchPanics(n)
  BY <1>1, StartStep, WatcherEndStep
<1>2. CASE AppShutdown \/ Die \/ UNCHANGED appVars
  <2>1. UNCHANGED <<phase, restarted, group, late>>
    BY <1>2 DEF AppShutdown, CancelWatchers, Waited, AskClient, ClientAnswers, Done, Die,
                appVars, starting, registry, stopping
  <2>2. quit' \in {"waited", "done"} => quit \in {"waited", "done"} \/ group = 0
    BY <1>2 DEF AppShutdown, CancelWatchers, Waited, AskClient, ClientAnswers, Done, Die,
                appVars, stopping
  <2> QED
    BY <2>1, <2>2, QuitStep
<1> QED
  BY <1>1, <1>2 DEF AppNext

(* The inductive invariant holds of any number of language servers. *)
THEOREM AppInvariance == AppSpec => []AppInv
<1>1. AppInv /\ [AppNext]_appVars => AppInv'
  BY AppStep
<1> QED
  BY <1>1, AppStarts, PTL DEF AppSpec

(* Shutdown asks no server to stop whose watcher runs or restarts, unless the
   watcher joined the group after the cancel loop. *)
THEOREM OutliveWatchers == AppSpec => []ClientsOutliveWatchers
<1>1. AppInv => ClientsOutliveWatchers
  BY DEF AppInv, NobodyIsLeft, ClientsOutliveWatchers
<1> QED
  BY <1>1, AppInvariance, PTL
=============================================================================
