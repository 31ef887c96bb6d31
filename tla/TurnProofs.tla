------------------------------ MODULE TurnProofs ------------------------------
(***************************************************************************)
(* The safety properties of Turn.tla, for any number of turns, rounds and  *)
(* tool calls.                                                             *)
(***************************************************************************)
EXTENDS Turn, SequenceTheorems, TLAPS

AtWork == pc \in {"stream", "after", "tools", "running"}
Looping == pc \in {"tools", "running"}

\* The messages that no step of the round in progress touches any more.
Log == IF pc = "idle" THEN store ELSE history

-----------------------------------------------------------------------------
(* What the log is, stated of any sequence of messages.                    *)

PairsIn(s) ==
    \A k \in DOMAIN s :
        /\ s[k].role = "tool" => k > 1 /\ AnswersTo(s[k], s[k - 1])
        /\ s[k].calls # <<>> /\ k < Len(s) =>
              \/ AnswersTo(s[k + 1], s[k])
              \/ s[k + 1].role = "user"

TellsIn(s, R) ==
    \A k \in DOMAIN s : \A n \in DOMAIN s[k].results :
        LET r == s[k].results[n]
        IN r.call \in R <=> r.kind \in {"done", "denied"}

\* the last message asks for nothing
Answered(s) == \A k \in DOMAIN s : s[k].calls # <<>> => k < Len(s)

\* the results are of calls made so far
KnownIn(s, m) ==
    \A k \in DOMAIN s : \A n \in DOMAIN s[k].results : s[k].results[n].call \in 1 .. m

\* no call has a result yet
NewTo(s, calls) ==
    \A k \in DOMAIN s : \A n \in DOMAIN s[k].results :
        \A j \in DOMAIN calls : s[k].results[n].call # calls[j]

HasDenied(rs) == \E n \in DOMAIN rs : rs[n].kind = "denied"

\* the person has written again since anything was refused
RefusalsAreOver(s) ==
    \A k \in DOMAIN s : HasDenied(s[k].results) =>
        \E j \in k .. Len(s) : s[j].role = "user"

\* ids given out, each once, and not answered yet
FreshIn(s, m, calls) ==
    /\ \A j \in DOMAIN calls : calls[j] \in 1 .. m
    /\ \A j, k \in DOMAIN calls : calls[j] = calls[k] => j = k
    /\ NewTo(s, calls)
Fresh(calls) == FreshIn(history, made, calls)

-----------------------------------------------------------------------------
(* The inductive invariant. *)

LogIsSound ==
    /\ PairsIn(Log) /\ TellsIn(Log, ran) /\ KnownIn(Log, made)
    /\ pc # "idle" => Answered(Log) /\ RefusalsAreOver(Log)

\* The row being written is msg, but for a finish whose save was lost.
RowIsMsg ==
    \E f \in Finishes :
        /\ store = Append(history, [msg EXCEPT !.finish = f])
        /\ msg.finish = "tool_use" => f = "tool_use"

RowIsKept ==
    /\ msg.role = "assistant" /\ msg.results = <<>>
    /\ pc \in {"check", "open"} => store = history
    /\ AtWork => RowIsMsg

RoundsAreLeft ==
    /\ pc = "idle" => rounds = 0
    /\ pc \in {"check", "open"} => rounds < MaxRounds
    /\ AtWork /\ (msg.calls # <<>> \/ stream.calls # <<>>) => rounds < MaxRounds

CallsAreFresh ==
    /\ AtWork => Fresh(msg.calls)
    /\ pc \in {"stream", "after"} =>
          /\ Fresh(stream.calls)
          /\ \A j \in DOMAIN msg.calls : msg.calls[j] \notin ran
          /\ \A j \in DOMAIN stream.calls : stream.calls[j] \notin ran

\* The result at k is of the call at k, and tells whether its tool was started.
TellsOf(rs, calls, R, k) ==
    /\ rs[k].call = calls[k]
    /\ rs[k].kind # "hole"
    /\ calls[k] \in R <=> rs[k].kind \in {"done", "denied"}

\* How far the loop is: results before i, nothing started after it.
LoopIsAt ==
    /\ pc \in {"stream", "after"} => i = 0
    /\ Looping =>
          /\ i > 0
          /\ Len(results) = Len(msg.calls)
          /\ HasDenied(results) => msg.finish # "tool_use"
          /\ \A k \in DOMAIN msg.calls :
                /\ k < i => TellsOf(results, msg.calls, ran, k)
                /\ k = i => (msg.calls[k] \in ran <=> pc = "running")
                /\ k > i => msg.calls[k] \notin ran

IInv ==
    /\ TypeOK
    /\ LogIsSound
    /\ RowIsKept
    /\ RoundsAreLeft
    /\ CallsAreFresh
    /\ LoopIsAt

-----------------------------------------------------------------------------
(* Sequences of messages. *)

LEMMA RowTypes ==
    /\ UserMessage \in Message /\ UserMessage.role = "user"
    /\ UserMessage.calls = <<>> /\ UserMessage.results = <<>>
    /\ AssistantMessage \in Message /\ AssistantMessage.role = "assistant"
    /\ AssistantMessage.calls = <<>> /\ AssistantMessage.results = <<>>
    /\ AssistantMessage.finish = "none"
    /\ \A rs \in Seq(Result) :
          /\ ToolMessage(rs) \in Message /\ ToolMessage(rs).role = "tool"
          /\ ToolMessage(rs).calls = <<>> /\ ToolMessage(rs).results = rs
<1>1. Blank \in Message
  BY DEF Blank, Message, Finishes
<1>2. \A rs \in Seq(Result) : ToolMessage(rs) \in Message
  BY <1>1 DEF ToolMessage, Message, Finishes
<1>3. UserMessage \in Message /\ AssistantMessage \in Message
  BY <1>1 DEF UserMessage, AssistantMessage, Message, Finishes
<1> QED
  BY <1>2, <1>3 DEF UserMessage, AssistantMessage, ToolMessage, Blank

LEMMA EmptyTypes ==
    /\ NoStream \in [calls : Seq(CallIds), complete : BOOLEAN] /\ NoStream.calls = <<>>
    /\ Len(<<>>) = 0 /\ <<>> \in Seq(Message) /\ <<>> \in Seq(Result)
BY DEF NoStream

LEMMA AddFinishTypes ==
  ASSUME NEW m \in Message, NEW f \in Finishes
  PROVE  /\ [m EXCEPT !.finish = f] \in Message
         /\ [m EXCEPT !.finish = f].role = m.role
         /\ [m EXCEPT !.finish = f].calls = m.calls
         /\ [m EXCEPT !.finish = f].results = m.results
         /\ [m EXCEPT !.finish = f].finish = f
BY DEF Message

(* Overwriting the last message is putting another in its place. *)
LEMMA OverwriteLast ==
  ASSUME NEW s \in Seq(Message), NEW a \in Message, NEW b \in Message
  PROVE  [Append(s, a) EXCEPT ![Len(Append(s, a))] = b] = Append(s, b)
<1> DEFINE t == Append(s, a)
           u == [t EXCEPT ![Len(t)] = b]
           v == Append(s, b)
<1>1. /\ t \in Seq(Message) /\ Len(t) = Len(s) + 1
      /\ \A k \in 1 .. Len(s) : t[k] = s[k]
  BY AppendProperties
<1>2. /\ v \in Seq(Message) /\ Len(v) = Len(s) + 1 /\ v[Len(s) + 1] = b
      /\ \A k \in 1 .. Len(s) : v[k] = s[k]
  BY AppendProperties
<1>3. Len(s) \in Nat
  BY LenProperties
<1>4. Len(t) \in 1 .. Len(t)
  BY <1>1, <1>3
<1>5. /\ u \in Seq(Message) /\ Len(u) = Len(t)
      /\ \A k \in 1 .. Len(t) : u[k] = IF k = Len(t) THEN b ELSE t[k]
  <2> HIDE DEF t
  <2> QED BY <1>1, <1>4, ExceptSeq
<1> HIDE DEF t, u, v
<1>6. \A k \in 1 .. Len(u) : u[k] = v[k]
  BY <1>1, <1>2, <1>3, <1>5
<1>7. u = v
  BY <1>1, <1>2, <1>5, <1>6, SeqEqual
<1> QED
  BY <1>7 DEF t, u, v

LEMMA AppendTwo ==
  ASSUME NEW s \in Seq(Message), NEW a \in Message, NEW b \in Message
  PROVE  s \o <<a, b>> = Append(Append(s, a), b)
<1>1. /\ <<a, b>> \in Seq(Message) /\ <<a>> \in Seq(Message)
      /\ <<b>> \in Seq(Message) /\ <<a, b>> = <<a>> \o <<b>>
  <2>1. <<a, b>> \in Seq(Message) /\ <<a>> \in Seq(Message) /\ <<b>> \in Seq(Message)
    OBVIOUS
  <2>2. /\ <<a>> \o <<b>> \in Seq(Message) /\ Len(<<a>> \o <<b>>) = 2
        /\ (<<a>> \o <<b>>)[1] = a /\ (<<a>> \o <<b>>)[2] = b
    BY <2>1, ConcatProperties
  <2>3. \A k \in 1 .. Len(<<a, b>>) : <<a, b>>[k] = (<<a>> \o <<b>>)[k]
    BY <2>2
  <2> QED
    BY <2>1, <2>2, <2>3, SeqEqual
<1>2. Append(s, a) = s \o <<a>> /\ Append(s, a) \in Seq(Message)
  BY AppendIsConcat, AppendProperties
<1>3. Append(Append(s, a), b) = (s \o <<a>>) \o <<b>>
  BY <1>2, AppendIsConcat
<1> QED
  BY <1>1, <1>3, ConcatAssociative

(* A message without results may follow any log. *)
LEMMA AppendRow ==
  ASSUME NEW s \in Seq(Message), NEW m \in Message, m.role # "tool", m.results = <<>>
  PROVE  /\ PairsIn(s) /\ (Answered(s) \/ m.role = "user") => PairsIn(Append(s, m))
         /\ \A R : TellsIn(s, R) => TellsIn(Append(s, m), R)
         /\ \A n : KnownIn(s, n) => KnownIn(Append(s, m), n)
<1> DEFINE t == Append(s, m)
<1>1. /\ t \in Seq(Message) /\ Len(t) = Len(s) + 1
      /\ \A k \in 1 .. Len(s) : t[k] = s[k]
      /\ t[Len(s) + 1] = m
  BY AppendProperties
<1>2. DOMAIN s = 1 .. Len(s) /\ DOMAIN t = 1 .. Len(s) + 1 /\ Len(s) \in Nat
  BY <1>1, LenProperties
<1>3. DOMAIN m.results = {}
  OBVIOUS
<1> HIDE DEF t
<1>4. \A k \in DOMAIN t : t[k] = m \/ (k \in DOMAIN s /\ t[k] = s[k])
  BY <1>1, <1>2
<1>5. \A R : TellsIn(s, R) => TellsIn(t, R)
  BY <1>3, <1>4 DEF TellsIn
<1>6. \A n : KnownIn(s, n) => KnownIn(t, n)
  BY <1>3, <1>4 DEF KnownIn
<1>7. ASSUME PairsIn(s), Answered(s) \/ m.role = "user" PROVE PairsIn(t)
  <2> SUFFICES ASSUME NEW k \in DOMAIN t
               PROVE  /\ t[k].role = "tool" => k > 1 /\ AnswersTo(t[k], t[k - 1])
                      /\ t[k].calls # <<>> /\ k < Len(t) =>
                            \/ AnswersTo(t[k + 1], t[k])
                            \/ t[k + 1].role = "user"
    BY DEF PairsIn
  <2>1. CASE k = Len(s) + 1
    BY <1>1, <2>1
  <2>2. CASE k = Len(s)
    BY <1>1, <1>2, <1>7, <2>2 DEF PairsIn, Answered
  <2>3. CASE k < Len(s)
    <3>1. k \in DOMAIN s /\ t[k] = s[k] /\ t[k + 1] = s[k + 1] /\ (k > 1 => t[k - 1] = s[k - 1])
      BY <1>1, <1>2, <2>3
    <3> QED
      BY <1>7, <2>3, <3>1 DEF PairsIn
  <2> QED
    BY <1>2, <2>1, <2>2, <2>3
<1> QED
  BY <1>5, <1>6, <1>7 DEF t

(* What the person writes closes the log. *)
LEMMA AppendUser ==
  ASSUME NEW s \in Seq(Message)
  PROVE  Answered(Append(s, UserMessage)) /\ RefusalsAreOver(Append(s, UserMessage))
<1> DEFINE t == Append(s, UserMessage)
<1>1. t \in Seq(Message) /\ Len(t) = Len(s) + 1 /\ t[Len(s) + 1] = UserMessage
  BY AppendProperties, RowTypes
<1>2. DOMAIN t = 1 .. Len(t) /\ Len(s) \in Nat
  BY <1>1, LenProperties
<1> HIDE DEF t
<1>3. Answered(t)
  BY <1>1, <1>2, RowTypes DEF Answered
<1>4. RefusalsAreOver(t)
  BY <1>1, <1>2, RowTypes DEF RefusalsAreOver
<1> QED
  BY <1>3, <1>4 DEF t

(* The results of the round close it. *)
LEMMA AppendAnswer ==
  ASSUME NEW s \in Seq(Message), NEW a \in Message, NEW t \in Message,
         t.role = "tool", t.calls = <<>>, AnswersTo(t, a),
         PairsIn(Append(s, a))
  PROVE  PairsIn(Append(Append(s, a), t)) /\ Answered(Append(Append(s, a), t))
<1> DEFINE u == Append(s, a)
           v == Append(u, t)
<1>1. /\ u \in Seq(Message) /\ Len(u) = Len(s) + 1 /\ u[Len(s) + 1] = a
  BY AppendProperties
<1>2. /\ v \in Seq(Message) /\ Len(v) = Len(u) + 1 /\ v[Len(u) + 1] = t
      /\ \A k \in 1 .. Len(u) : v[k] = u[k]
  BY <1>1, AppendProperties
<1>3. /\ DOMAIN u = 1 .. Len(u) /\ DOMAIN v = 1 .. Len(u) + 1 /\ Len(s) \in Nat
  BY <1>1, <1>2, LenProperties
<1> HIDE DEF u, v
<1>4. \A k \in DOMAIN v : v[k].calls # <<>> => k < Len(v)
  BY <1>1, <1>2, <1>3
<1>5. PairsIn(v)
  <2> SUFFICES ASSUME NEW k \in DOMAIN v
               PROVE  /\ v[k].role = "tool" => k > 1 /\ AnswersTo(v[k], v[k - 1])
                      /\ v[k].calls # <<>> /\ k < Len(v) =>
                            \/ AnswersTo(v[k + 1], v[k])
                            \/ v[k + 1].role = "user"
    BY DEF PairsIn
  <2>1. CASE k = Len(u) + 1
    BY <1>1, <1>2, <1>3, <2>1
  <2>2. CASE k = Len(u)
    BY <1>1, <1>2, <1>3, <2>2 DEF AnswersTo
  <2>3. CASE k < Len(u)
    <3>1. k \in DOMAIN u /\ v[k] = u[k] /\ v[k + 1] = u[k + 1] /\ (k > 1 => v[k - 1] = u[k - 1])
      BY <1>1, <1>2, <1>3, <2>3
    <3>2. PairsIn(u)
      BY DEF u
    <3> QED
      BY <2>3, <3>1, <3>2 DEF PairsIn
  <2> QED
    BY <1>1, <1>3, <2>1, <2>2, <2>3
<1> QED
  BY <1>4, <1>5 DEF Answered, u, v

(* Results that tell what ran, of calls made, and none of them a refusal. *)
LEMMA AppendResults ==
  ASSUME NEW s \in Seq(Message), NEW t \in Message
  PROVE  /\ \A R : /\ TellsIn(s, R)
                   /\ \A n \in DOMAIN t.results :
                         t.results[n].call \in R <=> t.results[n].kind \in {"done", "denied"}
                   => TellsIn(Append(s, t), R)
         /\ \A m : /\ KnownIn(s, m)
                   /\ \A n \in DOMAIN t.results : t.results[n].call \in 1 .. m
                   => KnownIn(Append(s, t), m)
         /\ RefusalsAreOver(s) /\ ~HasDenied(t.results) => RefusalsAreOver(Append(s, t))
<1> DEFINE u == Append(s, t)
<1>1. /\ u \in Seq(Message) /\ Len(u) = Len(s) + 1
      /\ \A k \in 1 .. Len(s) : u[k] = s[k]
      /\ u[Len(s) + 1] = t
  BY AppendProperties
<1>2. DOMAIN s = 1 .. Len(s) /\ DOMAIN u = 1 .. Len(s) + 1 /\ Len(s) \in Nat
  BY <1>1, LenProperties
<1> HIDE DEF u
<1>3. \A k \in DOMAIN u : u[k] = t \/ (k \in DOMAIN s /\ u[k] = s[k])
  BY <1>1, <1>2
<1>4. ASSUME RefusalsAreOver(s), ~HasDenied(t.results) PROVE RefusalsAreOver(u)
  <2> SUFFICES ASSUME NEW k \in DOMAIN u, HasDenied(u[k].results)
               PROVE  \E j \in k .. Len(u) : u[j].role = "user"
    BY DEF RefusalsAreOver
  <2>1. k \in DOMAIN s /\ u[k] = s[k]
    BY <1>3, <1>4
  <2>2. PICK j \in k .. Len(s) : s[j].role = "user"
    BY <1>4, <2>1 DEF RefusalsAreOver
  <2> QED
    BY <1>1, <1>2, <2>1, <2>2
<1> QED
  BY <1>3, <1>4 DEF TellsIn, KnownIn, u

-----------------------------------------------------------------------------
(* What the invariant says of the store and of a step's new row.            *)

LEMMA SavedIsRow ==
  ASSUME IInv, AtWork, NEW m \in Message
  PROVE  Saved(m) = Append(history, m)
<1>1. PICK f \in Finishes : store = Append(history, [msg EXCEPT !.finish = f])
  BY DEF IInv, RowIsKept, RowIsMsg
<1>2. history \in Seq(Message) /\ [msg EXCEPT !.finish = f] \in Message
  BY AddFinishTypes DEF IInv, TypeOK
<1> QED
  BY <1>1, <1>2, OverwriteLast DEF Saved

\* Any row of msg's kind may stand after the log.
LEMMA RowFollows ==
  ASSUME IInv, AtWork, NEW m \in Message, m.role = "assistant", m.results = <<>>
  PROVE  /\ Append(history, m) \in Seq(Message)
         /\ PairsIn(Append(history, m))
         /\ TellsIn(Append(history, m), ran)
         /\ KnownIn(Append(history, m), made)
<1>1. history \in Seq(Message) /\ pc # "idle" /\ Log = history
  BY DEF IInv, TypeOK, AtWork, Log
<1>2. PairsIn(history) /\ Answered(history) /\ TellsIn(history, ran) /\ KnownIn(history, made)
  BY <1>1 DEF IInv, LogIsSound
<1> QED
  BY <1>1, <1>2, AppendRow, AppendProperties

LEMMA StoreIsSound ==
  IInv => PairsIn(store) /\ TellsIn(store, ran) /\ KnownIn(store, made)
<1> SUFFICES ASSUME IInv
             PROVE  PairsIn(store) /\ TellsIn(store, ran) /\ KnownIn(store, made)
  OBVIOUS
<1>1. CASE ~AtWork
  <2>1. Log = store
    BY <1>1 DEF IInv, TypeOK, RowIsKept, AtWork, Log
  <2> QED
    BY <2>1 DEF IInv, LogIsSound
<1>2. CASE AtWork
  <2>1. PICK f \in Finishes : store = Append(history, [msg EXCEPT !.finish = f])
    BY <1>2 DEF IInv, RowIsKept, RowIsMsg
  <2>2. msg \in Message /\ msg.role = "assistant" /\ msg.results = <<>>
    BY DEF IInv, TypeOK, RowIsKept
  <2> QED
    BY <1>2, <2>1, <2>2, AddFinishTypes, RowFollows
<1> QED
  BY <1>1, <1>2

-----------------------------------------------------------------------------
(* One lemma for each kind of step.                                        *)

LEMMA InitInvariant == Init => IInv
<1> SUFFICES ASSUME Init PROVE IInv
  OBVIOUS
<1> USE BoundsAssumption DEF Init
<1>1. TypeOK
  <2>1. store \in Seq(Message) /\ history \in Seq(Message) /\ msg \in Message
    BY RowTypes, EmptyTypes
  <2>2. stream \in [calls : Seq(CallIds), complete : BOOLEAN] /\ results \in Seq(Result)
    BY EmptyTypes
  <2>3. i \in 0 .. Len(msg.calls) + 1
    BY RowTypes, EmptyTypes
  <2>4. ran \subseteq 1 .. made
    OBVIOUS
  <2>5. turns \in 0 .. MaxTurns /\ rounds \in 0 .. MaxRounds /\ made \in Nat
    OBVIOUS
  <2> QED
    BY <2>1, <2>2, <2>3, <2>4, <2>5 DEF TypeOK
<1>2. LogIsSound
  BY DEF LogIsSound, Log, PairsIn, TellsIn, KnownIn
<1>3. RowIsKept /\ RoundsAreLeft /\ CallsAreFresh /\ LoopIsAt
  BY RowTypes DEF RowIsKept, RoundsAreLeft, CallsAreFresh, LoopIsAt, AtWork, Looping
<1> QED
  BY <1>1, <1>2, <1>3 DEF IInv

(* However a turn ends, a store that is sound is enough. *)
LEMMA TurnEnds ==
  ASSUME IInv, NEW how \in {"response", "error", "cancelled", "crashed"}, EndTurn(how),
         store' \in Seq(Message), PairsIn(store'), TellsIn(store', ran), KnownIn(store', made),
         UNCHANGED <<turns, made, ran>>
  PROVE  IInv'
<1> USE BoundsAssumption DEF IInv, EndTurn
<1>1. TypeOK'
  <2>1. store' \in Seq(Message) /\ history' \in Seq(Message) /\ msg' \in Message
    BY RowTypes, EmptyTypes
  <2>2. stream' \in [calls : Seq(CallIds), complete : BOOLEAN] /\ results' \in Seq(Result)
    BY EmptyTypes
  <2>3. i' \in 0 .. Len(msg'.calls) + 1
    BY RowTypes, EmptyTypes
  <2>4. turns' \in 0 .. MaxTurns /\ rounds' \in 0 .. MaxRounds /\ made' \in Nat /\ ran' \subseteq 1 .. made'
    BY DEF TypeOK
  <2> QED
    BY <2>1, <2>2, <2>3, <2>4 DEF TypeOK
<1>2. LogIsSound'
  BY DEF LogIsSound, Log
<1>3. (RowIsKept /\ RoundsAreLeft /\ CallsAreFresh /\ LoopIsAt)'
  BY RowTypes DEF RowIsKept, RoundsAreLeft, CallsAreFresh, LoopIsAt, AtWork, Looping
<1> QED
  BY <1>1, <1>2, <1>3

(* ... as when it leaves the store as it is ... *)
LEMMA TurnIsLeft ==
  ASSUME IInv, NEW how \in {"response", "error", "cancelled", "crashed"}, EndTurn(how),
         UNCHANGED <<store, turns, made, ran>>
  PROVE  IInv'
<1>1. store \in Seq(Message)
  BY DEF IInv, TypeOK
<1>2. PairsIn(store) /\ TellsIn(store, ran) /\ KnownIn(store, made)
  BY StoreIsSound
<1>3. PairsIn(store') /\ TellsIn(store', ran) /\ KnownIn(store', made)
  BY <1>2
<1> QED
  BY <1>1, <1>3, TurnEnds

(* ... or finishes the row. *)
LEMMA TurnIsFinished ==
  ASSUME IInv, AtWork, NEW how \in {"response", "error", "cancelled", "crashed"}, EndTurn(how),
         NEW f \in Finishes, store' = Saved(AddFinish(msg, f)),
         UNCHANGED <<turns, made, ran>>
  PROVE  IInv'
<1> DEFINE m == AddFinish(msg, f)
<1>1. m \in Message /\ m.role = "assistant" /\ m.results = <<>>
  BY AddFinishTypes DEF IInv, TypeOK, RowIsKept, AddFinish
<1> HIDE DEF m
<1>2. store' = Append(history, m)
  BY <1>1, SavedIsRow DEF m
<1> QED
  BY <1>1, <1>2, RowFollows, TurnEnds

LEMMA BeginStep == IInv /\ Begin => IInv'
<1> SUFFICES ASSUME IInv, Begin PROVE IInv'
  OBVIOUS
<1> USE BoundsAssumption DEF Begin
<1>1. /\ store \in Seq(Message) /\ pc = "idle" /\ Log = store
      /\ PairsIn(store) /\ TellsIn(store, ran) /\ KnownIn(store, made)
  BY DEF IInv, TypeOK, Log, LogIsSound
<1>2. /\ history' \in Seq(Message) /\ PairsIn(history') /\ TellsIn(history', ran)
      /\ KnownIn(history', made) /\ Answered(history') /\ RefusalsAreOver(history')
  BY <1>1, RowTypes, AppendRow, AppendUser, AppendProperties
<1>3. TypeOK'
  BY <1>1, <1>2 DEF IInv, TypeOK
<1>4. LogIsSound'
  BY <1>2 DEF LogIsSound, Log
<1>5. RoundsAreLeft'
  BY DEF IInv, RoundsAreLeft, AtWork
<1>6. (RowIsKept /\ CallsAreFresh /\ LoopIsAt)'
  BY DEF IInv, RowIsKept, CallsAreFresh, LoopIsAt, AtWork, Looping
<1> QED
  BY <1>3, <1>4, <1>5, <1>6 DEF IInv

LEMMA CheckStep == IInv /\ CheckCancelled => IInv'
<1> SUFFICES ASSUME IInv, CheckCancelled PROVE IInv'
  OBVIOUS
<1>1. CASE EndTurn("cancelled")
  BY <1>1, TurnIsLeft DEF CheckCancelled
<1>2. CASE ~ContextDone /\ pc' = "open" /\ UNCHANGED <<cancelled, memory, rounds, outcome>>
  <2> USE <1>2 DEF CheckCancelled, memory, IInv
  <2>1. TypeOK'
    BY DEF TypeOK
  <2>2. LogIsSound'
    BY DEF LogIsSound, Log
  <2>3. (RowIsKept /\ RoundsAreLeft /\ CallsAreFresh /\ LoopIsAt)'
    BY DEF RowIsKept, RoundsAreLeft, CallsAreFresh, LoopIsAt, AtWork, Looping
  <2> QED
    BY <2>1, <2>2, <2>3
<1> QED
  BY <1>1, <1>2 DEF CheckCancelled

LEMMA OpenStep == IInv /\ OpenStream => IInv'
<1> SUFFICES ASSUME IInv, OpenStream PROVE IInv'
  OBVIOUS
<1>1. CASE EndTurn("cancelled") /\ UNCHANGED store
  BY <1>1, TurnIsLeft DEF OpenStream
<1>2. CASE ~(EndTurn("cancelled") /\ UNCHANGED store)
  <2>1. /\ pc = "open" /\ pc' = "stream" /\ store' = Append(store, AssistantMessage)
        /\ msg' = AssistantMessage /\ stream' = NoStream /\ results' = <<>> /\ i' = 0
        /\ rounds' = rounds + 1 /\ store = history
        /\ UNCHANGED <<cancelled, history, outcome, turns, made, ran>>
    BY <1>2 DEF OpenStream, IInv, RowIsKept
  <2> USE <2>1, RowTypes, EmptyTypes, BoundsAssumption DEF IInv
  <2>2. TypeOK'
    <3>1. store' \in Seq(Message) /\ history' \in Seq(Message) /\ msg' \in Message
      BY AppendProperties DEF TypeOK
    <3>2. stream' \in [calls : Seq(CallIds), complete : BOOLEAN] /\ results' \in Seq(Result)
      OBVIOUS
    <3>3. i' \in 0 .. Len(msg'.calls) + 1
      OBVIOUS
    <3>4. rounds' \in 0 .. MaxRounds
      BY DEF RoundsAreLeft, TypeOK
    <3> QED
      BY <3>1, <3>2, <3>3, <3>4 DEF TypeOK
  <2>3. LogIsSound'
    BY DEF LogIsSound, Log
  <2>4. RowIsMsg'
    <3>1. [AssistantMessage EXCEPT !.finish = "none"] = AssistantMessage
      BY DEF Message
    <3> QED
      BY <3>1 DEF RowIsMsg, Finishes
  <2>5. (RowIsKept /\ RoundsAreLeft /\ LoopIsAt)'
    BY <2>4 DEF RowIsKept, RoundsAreLeft, LoopIsAt, AtWork, Looping
  <2>6. CallsAreFresh'
    BY DEF CallsAreFresh, AtWork, Fresh, FreshIn, NewTo
  <2> QED
    BY <2>2, <2>3, <2>5, <2>6
<1> QED
  BY <1>1, <1>2

(* Within a round the log stays. *)
LEMMA LogStays ==
  ASSUME IInv, pc # "idle", pc' # "idle", history' = history, made' = made, ran' = ran
  PROVE  LogIsSound'
BY DEF IInv, LogIsSound, Log

LEMMA DeltaStep == IInv /\ (AfterEvent \/ Delta) => IInv'
<1> SUFFICES ASSUME IInv, AfterEvent \/ Delta PROVE IInv'
  OBVIOUS
<1>1. /\ pc \in {"stream", "after"} /\ pc' \in {"stream", "after"}
      /\ UNCHANGED <<store, cancelled, history, msg, stream, results, i,
                     turns, rounds, made, outcome, ran>>
  BY DEF AfterEvent, Delta, Streaming, memory
<1> USE <1>1 DEF IInv
<1>2. TypeOK'
  BY DEF TypeOK
<1>3. LogIsSound'
  BY LogStays
<1>4. (RowIsKept /\ RoundsAreLeft /\ LoopIsAt)'
  BY DEF RowIsKept, RowIsMsg, RoundsAreLeft, LoopIsAt, AtWork, Looping
<1>5. CallsAreFresh'
  BY DEF CallsAreFresh, Fresh, AtWork
<1> QED
  BY <1>2, <1>3, <1>4, <1>5

LEMMA RetryStep == IInv /\ Retry => IInv'
<1> SUFFICES ASSUME IInv, Retry PROVE IInv'
  OBVIOUS
<1> USE EmptyTypes DEF IInv, Retry, Streaming
<1>2. TypeOK'
  BY DEF TypeOK
<1>3. LogIsSound'
  BY LogStays
<1>4. (RowIsKept /\ RoundsAreLeft /\ LoopIsAt)'
  BY DEF RowIsKept, RowIsMsg, RoundsAreLeft, LoopIsAt, AtWork, Looping
<1>5. CallsAreFresh'
  BY DEF CallsAreFresh, Fresh, FreshIn, NewTo, AtWork
<1> QED
  BY <1>2, <1>3, <1>4, <1>5

(* A row that is msg, saved, is the row of msg. *)
LEMMA SavedKeepsRow ==
  ASSUME IInv, AtWork, NEW m \in Message, m.role = "assistant", m.results = <<>>,
         msg' = m, store' = Saved(m), history' = history, pc' \notin {"check", "open"}
  PROVE  RowIsKept' /\ store' \in Seq(Message)
<1>1. store' = Append(history, m)
  BY SavedIsRow
<1>2. m.finish \in Finishes /\ [m EXCEPT !.finish = m.finish] = m
  BY DEF Message
<1>3. RowIsMsg'
  BY <1>1, <1>2 DEF RowIsMsg
<1>4. store' \in Seq(Message)
  BY <1>1, RowFollows
<1> QED
  BY <1>3, <1>4 DEF RowIsKept

\* Calls given out before stay known when more are given out.
LEMMA LogStaysKnown ==
  ASSUME IInv, pc # "idle", pc' # "idle", history' = history, made' \in Nat, made' >= made, ran' = ran
  PROVE  LogIsSound'
<1>1. KnownIn(history, made')
  BY DEF IInv, LogIsSound, Log, KnownIn, TypeOK
<1> QED
  BY <1>1 DEF IInv, LogIsSound, Log

\* Calls and new ids after them are fresh.
LEMMA AppendFresh ==
  ASSUME IInv, AtWork, NEW calls \in Seq(CallIds), NEW n \in Nat, Fresh(calls),
         NEW cs \in Seq(CallIds),
         Len(cs) = Len(calls) + n,
         \A j \in DOMAIN cs : IF j <= Len(calls) THEN cs[j] = calls[j]
                               ELSE cs[j] = made + (j - Len(calls)),
         made' = made + n, history' = history
  PROVE  /\ FreshIn(history', made', cs)
         /\ \A R : /\ R \subseteq 1 .. made
                   /\ \A j \in DOMAIN calls : calls[j] \notin R
                   => \A j \in DOMAIN cs : cs[j] \notin R
<1>1. made \in Nat /\ Log = history
  BY DEF IInv, TypeOK, AtWork, Log
<1>2. /\ DOMAIN calls = 1 .. Len(calls) /\ Len(calls) \in Nat
      /\ DOMAIN cs = 1 .. Len(calls) + n
  BY LenProperties
<1>3. \A j \in DOMAIN cs : \/ j \in DOMAIN calls /\ cs[j] = calls[j]
                           \/ j > Len(calls) /\ cs[j] = made + (j - Len(calls))
  BY <1>2
<1>4. \A j \in DOMAIN calls : calls[j] \in 1 .. made
  BY DEF Fresh, FreshIn
<1>5. \A j \in DOMAIN cs : cs[j] \in 1 .. made'
  BY <1>1, <1>2, <1>3, <1>4
<1>6. \A j, k \in DOMAIN cs : cs[j] = cs[k] => j = k
  <2> SUFFICES ASSUME NEW j \in DOMAIN cs, NEW k \in DOMAIN cs, cs[j] = cs[k] PROVE j = k
    OBVIOUS
  <2>1. CASE j \in DOMAIN calls /\ k \in DOMAIN calls
    BY <1>2, <1>3, <2>1 DEF Fresh, FreshIn
  <2>2. CASE j > Len(calls) /\ k > Len(calls)
    BY <1>1, <1>2, <1>3, <2>2
  <2>3. ASSUME NEW x \in DOMAIN cs, NEW y \in DOMAIN cs, x \in DOMAIN calls, y > Len(calls)
        PROVE  cs[x] # cs[y]
    BY <1>1, <1>2, <1>3, <1>4, <2>3
  <2> QED
    BY <1>3, <2>1, <2>2, <2>3
<1>7. KnownIn(history, made)
  BY <1>1 DEF IInv, LogIsSound
<1>8. NewTo(history, cs)
  <2> SUFFICES ASSUME NEW k \in DOMAIN history, NEW n1 \in DOMAIN history[k].results,
                      NEW j \in DOMAIN cs
               PROVE  history[k].results[n1].call # cs[j]
    BY DEF NewTo
  <2>1. history[k].results[n1].call \in 1 .. made
    BY <1>7 DEF KnownIn
  <2>2. CASE j \in DOMAIN calls /\ cs[j] = calls[j]
    BY <2>2 DEF Fresh, FreshIn, NewTo
  <2>3. CASE j > Len(calls) /\ cs[j] = made + (j - Len(calls))
    BY <1>1, <1>2, <2>1, <2>3
  <2> QED
    BY <1>3, <2>2, <2>3
<1>9. \A R : /\ R \subseteq 1 .. made
             /\ \A j \in DOMAIN calls : calls[j] \notin R
             => \A j \in DOMAIN cs : cs[j] \notin R
  BY <1>1, <1>2, <1>3
<1> QED
  BY <1>5, <1>6, <1>8, <1>9 DEF Fresh, FreshIn

LEMMA AnnounceStep == IInv /\ ToolUseStart => IInv'
<1> SUFFICES ASSUME IInv, ToolUseStart PROVE IInv'
  OBVIOUS
<1> DEFINE mc == Append(msg.calls, made + 1)
           sc == Append(stream.calls, made + 1)
<1>1. /\ AtWork /\ pc = "stream" /\ pc' = "after" /\ made' = made + 1 /\ made + 1 \in CallIds
      /\ msg \in Message /\ msg.calls \in Seq(CallIds) /\ stream.calls \in Seq(CallIds)
      /\ msg.role = "assistant" /\ msg.results = <<>> /\ made \in Nat
      /\ UNCHANGED <<cancelled, history, results, i, turns, rounds, outcome, ran>>
  BY DEF IInv, TypeOK, RowIsKept, ToolUseStart, Streaming, AtWork, Message, CallIds
<1>2. /\ mc \in Seq(CallIds) /\ Len(mc) = Len(msg.calls) + 1
      /\ \A j \in 1 .. Len(msg.calls) : mc[j] = msg.calls[j]
      /\ mc[Len(msg.calls) + 1] = made + 1
  BY <1>1, AppendProperties
<1>3. /\ sc \in Seq(CallIds) /\ Len(sc) = Len(stream.calls) + 1
      /\ \A j \in 1 .. Len(stream.calls) : sc[j] = stream.calls[j]
      /\ sc[Len(stream.calls) + 1] = made + 1
  BY <1>1, AppendProperties
<1>4. /\ msg' \in Message /\ msg'.role = "assistant" /\ msg'.results = <<>>
      /\ msg'.calls = mc /\ stream' \in [calls : Seq(CallIds), complete : BOOLEAN]
      /\ stream'.calls = sc /\ store' = Saved(msg')
  BY <1>1, <1>2, <1>3 DEF ToolUseStart, AddToolCall, Message, IInv, TypeOK
<1> HIDE DEF mc, sc
<1>5. RowIsKept' /\ store' \in Seq(Message)
  BY <1>1, <1>4, SavedKeepsRow
<1>6. TypeOK'
  <2>1. i' \in 0 .. Len(msg'.calls) + 1
    BY <1>1, <1>2, <1>4, LenProperties DEF IInv, TypeOK
  <2>2. made' \in Nat /\ ran' \subseteq 1 .. made'
    BY <1>1 DEF IInv, TypeOK
  <2> QED
    BY <1>1, <1>4, <1>5, <2>1, <2>2 DEF IInv, TypeOK
<1>7. LogIsSound'
  BY <1>1, LogStaysKnown
<1>8. RoundsAreLeft'
  BY <1>1 DEF RoundsAreLeft, ToolUseStart
<1>9. CallsAreFresh'
  <2>1. /\ Fresh(msg.calls) /\ Fresh(stream.calls) /\ ran \subseteq 1 .. made
        /\ \A j \in DOMAIN msg.calls : msg.calls[j] \notin ran
        /\ \A j \in DOMAIN stream.calls : stream.calls[j] \notin ran
    BY <1>1 DEF IInv, CallsAreFresh, TypeOK
  <2>2. FreshIn(history', made', mc) /\ \A j \in DOMAIN mc : mc[j] \notin ran
    <3>1. \A j \in DOMAIN mc : IF j <= Len(msg.calls) THEN mc[j] = msg.calls[j]
                               ELSE mc[j] = made + (j - Len(msg.calls))
      BY <1>1, <1>2, LenProperties
    <3> QED
      BY <1>1, <1>2, <2>1, <3>1, AppendFresh
  <2>3. FreshIn(history', made', sc) /\ \A j \in DOMAIN sc : sc[j] \notin ran
    <3>1. \A j \in DOMAIN sc : IF j <= Len(stream.calls) THEN sc[j] = stream.calls[j]
                               ELSE sc[j] = made + (j - Len(stream.calls))
      BY <1>1, <1>3, LenProperties
    <3> QED
      BY <1>1, <1>3, <2>1, <3>1, AppendFresh
  <2> QED
    BY <1>1, <1>4, <2>2, <2>3 DEF CallsAreFresh, Fresh
<1>10. LoopIsAt'
  BY <1>1 DEF IInv, LoopIsAt, Looping
<1> QED
  BY <1>5, <1>6, <1>7, <1>8, <1>9, <1>10 DEF IInv

LEMMA CompleteStep ==
  ASSUME IInv, NEW n \in 0 .. MaxCalls, NEW reason \in {"end_turn", "tool_use", "max_tokens"},
         n > 0 => rounds < MaxRounds, Complete(n, reason)
  PROVE  IInv'
<1> DEFINE more == [k \in 1 .. n |-> made + k]
           cs == stream.calls \o more
<1>1. /\ AtWork /\ pc = "stream" /\ pc' = "after" /\ made' = made + n /\ made \in Nat /\ n \in Nat
      /\ msg \in Message /\ stream.calls \in Seq(CallIds)
      /\ msg.role = "assistant" /\ msg.results = <<>>
      /\ UNCHANGED <<cancelled, history, results, i, turns, rounds, outcome, ran>>
  BY BoundsAssumption DEF IInv, TypeOK, RowIsKept, Complete, Streaming, AtWork, Message
<1>2. more \in Seq(CallIds) /\ Len(more) = n /\ \A k \in 1 .. n : more[k] = made + k
  <2>1. \A k \in 1 .. n : made + k \in CallIds
    BY <1>1 DEF CallIds
  <2> QED
    BY <1>1, <2>1
<1> HIDE DEF more
<1>3. /\ cs \in Seq(CallIds) /\ Len(cs) = Len(stream.calls) + n
      /\ \A j \in 1 .. Len(stream.calls) + n :
            cs[j] = IF j <= Len(stream.calls) THEN stream.calls[j] ELSE more[j - Len(stream.calls)]
  BY <1>1, <1>2, ConcatProperties
<1>4. /\ msg' \in Message /\ msg'.role = "assistant" /\ msg'.results = <<>>
      /\ msg'.calls = cs /\ stream' \in [calls : Seq(CallIds), complete : BOOLEAN]
      /\ stream'.calls = cs /\ store' = Saved(msg')
  <2> HIDE DEF cs
  <2>1. stream' = [calls |-> cs, complete |-> TRUE]
        /\ msg' = AddFinish(SetToolCalls(msg, stream'.calls), reason) /\ store' = Saved(msg')
    BY DEF Complete, cs, more
  <2>2. reason \in Finishes
    BY DEF Finishes
  <2> QED
    BY <1>1, <1>3, <2>1, <2>2 DEF AddFinish, SetToolCalls, Message
<1> HIDE DEF cs
<1>5. RowIsKept' /\ store' \in Seq(Message)
  BY <1>1, <1>4, SavedKeepsRow
<1>6. TypeOK'
  <2>1. i' \in 0 .. Len(msg'.calls) + 1
    BY <1>1, <1>3, <1>4, LenProperties DEF IInv, LoopIsAt
  <2>2. made' \in Nat /\ ran' \subseteq 1 .. made'
    BY <1>1 DEF IInv, TypeOK
  <2> QED
    BY <1>1, <1>4, <1>5, <2>1, <2>2 DEF IInv, TypeOK
<1>7. LogIsSound'
  BY <1>1, LogStaysKnown
<1>8. RoundsAreLeft'
  <2>1. CASE n > 0
    BY <1>1, <2>1 DEF RoundsAreLeft
  <2>2. CASE n = 0
    <3>1. cs # <<>> => stream.calls # <<>>
      BY <1>1, <1>3, <2>2, LenProperties, EmptySeq
    <3> QED
      BY <1>1, <1>4, <3>1 DEF IInv, RoundsAreLeft, AtWork
  <2> QED
    BY <1>1, <2>1, <2>2
<1>9. CallsAreFresh'
  <2>1. /\ Fresh(stream.calls) /\ ran \subseteq 1 .. made
        /\ \A j \in DOMAIN stream.calls : stream.calls[j] \notin ran
    BY <1>1 DEF IInv, CallsAreFresh, TypeOK
  <2>2. \A j \in DOMAIN cs : IF j <= Len(stream.calls) THEN cs[j] = stream.calls[j]
                             ELSE cs[j] = made + (j - Len(stream.calls))
    <3>1. Len(stream.calls) \in Nat /\ DOMAIN cs = 1 .. Len(stream.calls) + n
      BY <1>1, <1>3, LenProperties
    <3> SUFFICES ASSUME NEW j \in DOMAIN cs, j > Len(stream.calls)
                 PROVE  cs[j] = made + (j - Len(stream.calls))
      BY <1>3, <3>1
    <3>2. j - Len(stream.calls) \in 1 .. n
      BY <1>1, <3>1
    <3> QED
      BY <1>2, <1>3, <3>1, <3>2
  <2>3. FreshIn(history', made', cs) /\ \A j \in DOMAIN cs : cs[j] \notin ran
    BY <1>1, <1>3, <2>1, <2>2, AppendFresh
  <2> QED
    BY <1>1, <1>4, <2>3 DEF CallsAreFresh, Fresh
<1>10. LoopIsAt'
  BY <1>1 DEF IInv, LoopIsAt, Looping
<1> QED
  BY <1>5, <1>6, <1>7, <1>8, <1>9, <1>10 DEF IInv

LEMMA ClosedStep == IInv /\ StreamClosed => IInv'
<1> SUFFICES ASSUME IInv, StreamClosed PROVE IInv'
  OBVIOUS
<1> DEFINE holes == [k \in 1 .. Len(msg.calls) |-> [call |-> 0, kind |-> "hole"]]
<1>1. /\ AtWork /\ pc = "stream" /\ pc' = "tools" /\ i' = 1 /\ results' = holes
      /\ msg.calls \in Seq(CallIds) /\ Len(msg.calls) \in Nat /\ DOMAIN msg.calls = 1 .. Len(msg.calls)
      /\ UNCHANGED <<store, cancelled, history, msg, stream, turns, rounds, made, outcome, ran>>
  BY LenProperties DEF IInv, TypeOK, Message, StreamClosed, AtWork
<1>2. /\ holes \in Seq(Result) /\ Len(holes) = Len(msg.calls)
      /\ \A k \in DOMAIN holes : holes[k].kind = "hole"
  <2>1. [call |-> 0, kind |-> "hole"] \in Result
    BY DEF Result, Kinds
  <2> QED
    BY <1>1, <2>1
<1> HIDE DEF holes
<1>3. TypeOK'
  BY <1>1, <1>2 DEF IInv, TypeOK
<1>4. LogIsSound'
  BY <1>1, LogStays
<1>5. (RowIsKept /\ RoundsAreLeft)'
  BY <1>1 DEF IInv, RowIsKept, RowIsMsg, RoundsAreLeft, AtWork
<1>6. CallsAreFresh'
  BY <1>1 DEF IInv, CallsAreFresh, Fresh, AtWork
<1>7. LoopIsAt'
  BY <1>1, <1>2 DEF IInv, CallsAreFresh, LoopIsAt, Looping, HasDenied
<1> QED
  BY <1>3, <1>4, <1>5, <1>6, <1>7 DEF IInv

-----------------------------------------------------------------------------
(* The tool loop. *)

LEMMA LoopTypes ==
  ASSUME IInv, Looping
  PROVE  /\ AtWork /\ pc # "idle" /\ msg \in Message /\ msg.calls \in Seq(CallIds)
         /\ Len(msg.calls) \in Nat /\ i \in 1 .. Len(msg.calls) + 1
         /\ DOMAIN msg.calls = 1 .. Len(msg.calls)
         /\ results \in Seq(Result) /\ Len(results) = Len(msg.calls)
         /\ DOMAIN results = 1 .. Len(msg.calls)
         /\ \A k \in DOMAIN msg.calls : msg.calls[k] \in Nat /\ msg.calls[k] \in 1 .. made
         /\ msg.role = "assistant" /\ msg.results = <<>>
<1>1. AtWork /\ pc # "idle" /\ Fresh(msg.calls)
  BY DEF IInv, CallsAreFresh, Looping, AtWork
<1>2. /\ msg \in Message /\ msg.calls \in Seq(CallIds) /\ results \in Seq(Result)
      /\ i \in 0 .. Len(msg.calls) + 1 /\ i > 0 /\ Len(results) = Len(msg.calls)
      /\ msg.role = "assistant" /\ msg.results = <<>>
  BY DEF IInv, TypeOK, LoopIsAt, RowIsKept, Message
<1>3. Len(msg.calls) \in Nat /\ DOMAIN msg.calls = 1 .. Len(msg.calls) /\ DOMAIN results = 1 .. Len(msg.calls)
  BY <1>2, LenProperties
<1>4. \A k \in DOMAIN msg.calls : msg.calls[k] \in 1 .. made
  BY <1>1 DEF Fresh, FreshIn
<1> QED
  BY <1>1, <1>2, <1>3, <1>4

LEMMA FilledIs ==
  ASSUME IInv, Looping, i \in DOMAIN msg.calls, NEW kind \in Kinds
  PROVE  /\ Filled(kind) \in Seq(Result) /\ Len(Filled(kind)) = Len(msg.calls)
         /\ Filled(kind)[i].call = msg.calls[i] /\ Filled(kind)[i].kind = kind
         /\ \A k \in DOMAIN msg.calls : k # i => Filled(kind)[k] = results[k]
<1>1. [call |-> msg.calls[i], kind |-> kind] \in Result
  BY LoopTypes DEF Result
<1>2. \A k \in DOMAIN msg.calls :
         Filled(kind)[k] = IF k = i THEN [call |-> msg.calls[i], kind |-> kind] ELSE results[k]
  BY <1>1, LoopTypes, ExceptSeq DEF Filled
<1> QED
  BY <1>1, <1>2, LoopTypes, ExceptSeq DEF Filled

LEMMA CancelledIs ==
  ASSUME IInv, Looping, NEW rs \in Seq(Result), Len(rs) = Len(msg.calls), NEW first \in Nat
  PROVE  /\ CancelledFrom(first, rs) \in Seq(Result) /\ Len(CancelledFrom(first, rs)) = Len(msg.calls)
         /\ \A k \in DOMAIN msg.calls :
               /\ k >= first => /\ CancelledFrom(first, rs)[k].call = msg.calls[k]
                               /\ CancelledFrom(first, rs)[k].kind = "cancelled"
               /\ k < first => CancelledFrom(first, rs)[k] = rs[k]
<1>1. DOMAIN rs = 1 .. Len(msg.calls) /\ DOMAIN rs = DOMAIN msg.calls
  BY LoopTypes, LenProperties
<1>2. \A k \in DOMAIN msg.calls : CancelledAt(k) \in Result
  BY LoopTypes DEF CancelledAt, Result, Kinds
<1>3. \A k \in DOMAIN rs : rs[k] \in Result
  BY <1>1, ElementOfSeq
<1>4. \A k \in 1 .. Len(msg.calls) : (IF k >= first THEN CancelledAt(k) ELSE rs[k]) \in Result
  BY <1>1, <1>2, <1>3
<1>5. CancelledFrom(first, rs) = [k \in 1 .. Len(msg.calls) |-> IF k >= first THEN CancelledAt(k) ELSE rs[k]]
  BY <1>1 DEF CancelledFrom
<1>6. CancelledFrom(first, rs) \in Seq(Result) /\ Len(CancelledFrom(first, rs)) = Len(msg.calls)
  BY <1>4, <1>5, LoopTypes
<1>7. ASSUME NEW k \in DOMAIN msg.calls, k >= first
      PROVE  /\ CancelledFrom(first, rs)[k].call = msg.calls[k]
             /\ CancelledFrom(first, rs)[k].kind = "cancelled"
  <2>1. CancelledFrom(first, rs)[k] = CancelledAt(k)
    BY <1>1, <1>5, <1>7
  <2> QED
    BY <2>1 DEF CancelledAt
<1>8. ASSUME NEW k \in DOMAIN msg.calls, k < first PROVE CancelledFrom(first, rs)[k] = rs[k]
  BY <1>1, <1>5, <1>8, LoopTypes
<1> QED
  BY <1>6, <1>7, <1>8

(* What every step within the loop leaves as it is. *)
LEMMA LoopGoesOn ==
  ASSUME IInv, Looping, Looping', TypeOK', RowIsKept', LoopIsAt', msg'.calls = msg.calls,
         history' = history, made' = made, rounds' = rounds, stream' = stream,
         TellsIn(history, ran')
  PROVE  IInv'
<1>1. LogIsSound'
  BY LoopTypes DEF IInv, LogIsSound, Log, Looping
<1>2. RoundsAreLeft'
  BY DEF IInv, RoundsAreLeft, AtWork, Looping
<1>3. CallsAreFresh'
  BY DEF IInv, CallsAreFresh, Fresh, AtWork, Looping
<1> QED
  BY <1>1, <1>2, <1>3 DEF IInv

LEMMA LogTells == IInv /\ Looping => TellsIn(history, ran)
BY DEF IInv, LogIsSound, Log, Looping

LEMMA StopStep == IInv /\ StopTools => IInv'
<1> SUFFICES ASSUME IInv, StopTools PROVE IInv'
  OBVIOUS
<1> DEFINE m == AddFinish(msg, "canceled")
<1>1. Looping /\ Looping' /\ pc = "tools" /\ pc' = "tools" /\ i \in DOMAIN msg.calls
  BY LoopTypes DEF StopTools, Calling, Looping
<1>2. /\ m \in Message /\ m.role = "assistant" /\ m.results = <<>> /\ m.calls = msg.calls
      /\ m.finish = "canceled"
  BY <1>1, LoopTypes, AddFinishTypes DEF AddFinish, Finishes
<1>3. /\ msg' = m /\ store' = Saved(m) /\ results' = CancelledFrom(i, results)
      /\ i' = Len(msg.calls) + 1
      /\ UNCHANGED <<pc, cancelled, history, stream, turns, rounds, made, outcome, ran>>
  BY DEF StopTools
<1> HIDE DEF m
<1>4. RowIsKept' /\ store' \in Seq(Message)
  BY <1>1, <1>2, <1>3, LoopTypes, SavedKeepsRow
<1>5. /\ results' \in Seq(Result) /\ Len(results') = Len(msg.calls)
      /\ \A k \in DOMAIN msg.calls :
            /\ k >= i => results'[k].call = msg.calls[k] /\ results'[k].kind = "cancelled"
            /\ k < i => results'[k] = results[k]
  BY <1>1, <1>3, LoopTypes, CancelledIs
<1>6. TypeOK'
  <2>1. i' \in 0 .. Len(msg'.calls) + 1
    BY <1>1, <1>2, <1>3, LoopTypes
  <2> QED
    BY <1>1, <1>2, <1>3, <1>4, <1>5, <2>1 DEF IInv, TypeOK
<1>7. LoopIsAt'
  <2>1. \A k \in DOMAIN msg.calls :
           /\ k < i => TellsOf(results, msg.calls, ran, k)
           /\ k >= i => msg.calls[k] \notin ran
    BY <1>1, LoopTypes DEF IInv, LoopIsAt
  <2>2. \A k \in DOMAIN msg.calls : TellsOf(results', msg.calls, ran, k)
    <3> SUFFICES ASSUME NEW k \in DOMAIN msg.calls PROVE TellsOf(results', msg.calls, ran, k)
      OBVIOUS
    <3>1. CASE k >= i
      BY <1>5, <2>1, <3>1 DEF TellsOf
    <3>2. CASE k < i
      BY <1>1, <1>5, <2>1, <3>2, LoopTypes DEF TellsOf
    <3> QED
      BY <1>1, <3>1, <3>2, LoopTypes
  <2>3. i' > 0 /\ \A k \in DOMAIN msg.calls : k < i'
    BY <1>1, <1>3, LoopTypes
  <2> QED
    BY <1>1, <1>2, <1>3, <1>5, <2>2, <2>3, LoopTypes DEF LoopIsAt, Looping
<1> QED
  BY <1>1, <1>2, <1>3, <1>4, <1>6, <1>7, LogTells, LoopGoesOn

(* A tool that was started, or is not there, leaves its result at i. *)
LEMMA FilledStep ==
  ASSUME IInv, Looping, i \in DOMAIN msg.calls, NEW kind \in {"done", "not_found"},
         kind = "done" <=> pc = "running", pc' = "tools", results' = Filled(kind), i' = i + 1,
         UNCHANGED <<store, cancelled, history, msg, stream, turns, rounds, made, outcome, ran>>
  PROVE  IInv'
<1>1. /\ results' \in Seq(Result) /\ Len(results') = Len(msg.calls)
      /\ results'[i].call = msg.calls[i] /\ results'[i].kind = kind
      /\ \A k \in DOMAIN msg.calls : k # i => results'[k] = results[k]
  BY FilledIs DEF Kinds
<1>2. TypeOK'
  <2>1. i' \in 0 .. Len(msg'.calls) + 1
    BY LoopTypes
  <2> QED
    BY <1>1, <2>1 DEF IInv, TypeOK
<1>3. RowIsKept'
  BY LoopTypes DEF IInv, RowIsKept, RowIsMsg, AtWork
<1>4. LoopIsAt'
  <2>1. \A k \in DOMAIN msg.calls :
           /\ k < i' => TellsOf(results', msg.calls, ran, k)
           /\ k >= i' => msg.calls[k] \notin ran
    <3> SUFFICES ASSUME NEW k \in DOMAIN msg.calls
                 PROVE  /\ k < i' => TellsOf(results', msg.calls, ran, k)
                        /\ k >= i' => msg.calls[k] \notin ran
      OBVIOUS
    <3>1. CASE k = i
      BY <1>1, <3>1, LoopTypes DEF IInv, LoopIsAt, TellsOf
    <3>2. CASE k # i
      BY <1>1, <3>2, LoopTypes DEF IInv, LoopIsAt, TellsOf
    <3> QED
      BY <3>1, <3>2
  <2>2. HasDenied(results') => HasDenied(results)
    BY <1>1, LoopTypes, LenProperties DEF HasDenied
  <2>3. i' > 0 /\ ~(pc' = "running")
    BY LoopTypes
  <2> QED
    BY <1>1, <2>1, <2>2, <2>3, LoopTypes DEF IInv, LoopIsAt, Looping
<1>5. Looping'
  BY DEF Looping
<1> QED
  BY <1>2, <1>3, <1>4, <1>5, LogTells, LoopGoesOn

LEMMA StartStep == IInv /\ StartTool => IInv'
<1> SUFFICES ASSUME IInv, StartTool PROVE IInv'
  OBVIOUS
<1>1. /\ Looping /\ Looping' /\ i \in DOMAIN msg.calls /\ pc = "tools" /\ pc' = "running"
      /\ ran' = ran \cup {msg.calls[i]}
      /\ UNCHANGED <<store, cancelled, history, msg, stream, results, i, turns, rounds, made, outcome>>
  BY LoopTypes DEF StartTool, Calling, Looping, memory
<1>2. Fresh(msg.calls)
  BY <1>1, LoopTypes DEF IInv, CallsAreFresh
<1>3. TypeOK'
  BY <1>1, LoopTypes DEF IInv, TypeOK
<1>4. RowIsKept'
  BY <1>1, LoopTypes DEF IInv, RowIsKept, RowIsMsg, AtWork
<1>5. LoopIsAt'
  <2>1. \A k \in DOMAIN msg.calls : k # i => msg.calls[k] # msg.calls[i]
    BY <1>1, <1>2 DEF Fresh, FreshIn
  <2>2. \A k \in DOMAIN msg.calls : k # i => (msg.calls[k] \in ran' <=> msg.calls[k] \in ran)
    BY <1>1, <2>1
  <2> QED
    BY <1>1, <2>2, LoopTypes DEF IInv, LoopIsAt, Looping, TellsOf
<1>6. TellsIn(history, ran')
  <2>1. TellsIn(history, ran) /\ NewTo(history, msg.calls)
    BY <1>1, <1>2, LogTells DEF Fresh, FreshIn
  <2> QED
    BY <1>1, <2>1 DEF TellsIn, NewTo
<1> QED
  BY <1>1, <1>3, <1>4, <1>5, <1>6, LoopGoesOn

LEMMA DeniedStep == IInv /\ ToolDenied => IInv'
<1> SUFFICES ASSUME IInv, ToolDenied PROVE IInv'
  OBVIOUS
<1> DEFINE m == AddFinish(msg, "permission_denied")
           rs == Filled("denied")
<1>1. Looping /\ Looping' /\ pc = "running" /\ pc' = "tools" /\ i \in DOMAIN msg.calls
  BY DEF ToolDenied, Looping, IInv, TypeOK
<1>2. /\ m \in Message /\ m.role = "assistant" /\ m.results = <<>> /\ m.calls = msg.calls
      /\ m.finish = "permission_denied"
  BY <1>1, LoopTypes, AddFinishTypes DEF AddFinish, Finishes
<1>3. /\ msg' = m /\ store' \in {store, Saved(m)} /\ results' = CancelledFrom(i + 1, rs)
      /\ i' = i + 1
      /\ UNCHANGED <<cancelled, history, stream, turns, rounds, made, outcome, ran>>
  BY DEF ToolDenied
<1>4. RowIsKept' /\ store' \in Seq(Message)
  <2>1. CASE store' = Saved(m)
    BY <1>1, <1>2, <1>3, <2>1, LoopTypes, SavedKeepsRow
  <2>2. CASE store' = store
    <3>1. PICK f \in Finishes : store = Append(history, [msg EXCEPT !.finish = f])
      BY <1>1, LoopTypes DEF IInv, RowIsKept, RowIsMsg
    <3>2. [m EXCEPT !.finish = f] = [msg EXCEPT !.finish = f]
      BY <1>1, LoopTypes DEF AddFinish, Message
    <3>3. RowIsMsg'
      BY <1>2, <1>3, <2>2, <3>1, <3>2 DEF RowIsMsg
    <3> QED
      BY <1>1, <1>2, <1>3, <2>2, <3>3 DEF RowIsKept, IInv, TypeOK
  <2> QED
    BY <1>3, <2>1, <2>2
<1>5. /\ rs \in Seq(Result) /\ Len(rs) = Len(msg.calls)
      /\ rs[i].call = msg.calls[i] /\ rs[i].kind = "denied"
      /\ \A k \in DOMAIN msg.calls : k # i => rs[k] = results[k]
  BY <1>1, FilledIs DEF Kinds
<1> HIDE DEF m, rs
<1>6. /\ results' \in Seq(Result) /\ Len(results') = Len(msg.calls)
      /\ \A k \in DOMAIN msg.calls :
            /\ k >= i + 1 => results'[k].call = msg.calls[k] /\ results'[k].kind = "cancelled"
            /\ k < i + 1 => results'[k] = rs[k]
  <2>1. i + 1 \in Nat
    BY <1>1, LoopTypes
  <2> QED
    BY <1>1, <1>3, <1>5, <2>1, CancelledIs
<1>7. TypeOK'
  <2>1. i' \in 0 .. Len(msg'.calls) + 1
    BY <1>1, <1>2, <1>3, LoopTypes
  <2> QED
    BY <1>1, <1>2, <1>3, <1>4, <1>6, <2>1 DEF IInv, TypeOK
<1>8. LoopIsAt'
  <2>1. \A k \in DOMAIN msg.calls :
           /\ k < i' => TellsOf(results', msg.calls, ran, k)
           /\ k >= i' => msg.calls[k] \notin ran
    <3> SUFFICES ASSUME NEW k \in DOMAIN msg.calls
                 PROVE  /\ k < i' => TellsOf(results', msg.calls, ran, k)
                        /\ k >= i' => msg.calls[k] \notin ran
      OBVIOUS
    <3>1. CASE k = i
      <4>1. results'[k] = rs[i] /\ ~(k >= i')
        BY <1>1, <1>3, <1>6, <3>1, LoopTypes
      <4>2. msg.calls[k] \in ran
        BY <1>1, <3>1 DEF IInv, LoopIsAt
      <4>3. results'[k].call = msg.calls[k] /\ results'[k].kind = "denied" /\ k < i'
        BY <1>1, <1>3, <1>5, <3>1, <4>1, LoopTypes
      <4> QED
        BY <4>1, <4>2, <4>3 DEF TellsOf
    <3>2. CASE k < i
      <4>1. k # i /\ k < i + 1
        BY <1>1, <3>2, LoopTypes
      <4>2. results'[k] = results[k]
        BY <1>5, <1>6, <4>1
      <4> QED
        BY <1>1, <1>3, <3>2, <4>1, <4>2, LoopTypes DEF IInv, LoopIsAt, TellsOf
    <3>3. CASE k > i
      BY <1>1, <1>3, <3>3, LoopTypes DEF IInv, LoopIsAt
    <3> QED
      BY <1>1, <3>1, <3>2, <3>3, LoopTypes
  <2>2. i' > 0 /\ ~(pc' = "running")
    BY <1>1, <1>3, LoopTypes
  <2> QED
    BY <1>1, <1>2, <1>3, <1>6, <2>1, <2>2, LoopTypes DEF LoopIsAt, Looping
<1> QED
  BY <1>1, <1>2, <1>3, <1>4, <1>7, <1>8, LogTells, LoopGoesOn

(* The tool message, once the loop is through. *)
LEMMA AnswersAreWhole ==
  ASSUME IInv, pc = "tools", i > Len(msg.calls), NEW a \in Message,
         a.role = "assistant", a.results = <<>>, a.calls = msg.calls
  PROVE  LET t == ToolMessage(results)
             s == Append(Append(history, a), t)
         IN /\ t \in Message /\ s \in Seq(Message)
            /\ PairsIn(s) /\ TellsIn(s, ran) /\ KnownIn(s, made) /\ Answered(s)
            /\ RefusalsAreOver(Append(history, a)) /\ ~HasDenied(results) => RefusalsAreOver(s)
<1> DEFINE t == ToolMessage(results)
           h == Append(history, a)
<1>1. Looping /\ results \in Seq(Result) /\ history \in Seq(Message)
  BY DEF IInv, TypeOK, Looping
<1>2. t \in Message /\ t.role = "tool" /\ t.calls = <<>> /\ t.results = results
  BY <1>1, RowTypes
<1>3. h \in Seq(Message) /\ PairsIn(h) /\ TellsIn(h, ran) /\ KnownIn(h, made)
  BY <1>1, LoopTypes, RowFollows
<1>4. \A k \in DOMAIN msg.calls : TellsOf(results, msg.calls, ran, k)
  BY <1>1, LoopTypes DEF IInv, LoopIsAt
<1> HIDE DEF t
<1>5. AnswersTo(t, a)
  BY <1>1, <1>2, <1>4, LoopTypes DEF AnswersTo, TellsOf
<1>6. PairsIn(Append(h, t)) /\ Answered(Append(h, t))
  BY <1>1, <1>2, <1>3, <1>5, AppendAnswer
<1> HIDE DEF h
<1>7. \A n \in DOMAIN t.results :
         /\ t.results[n].call \in ran <=> t.results[n].kind \in {"done", "denied"}
         /\ t.results[n].call \in 1 .. made
  BY <1>1, <1>2, <1>4, LoopTypes DEF TellsOf
<1>8. /\ TellsIn(Append(h, t), ran) /\ KnownIn(Append(h, t), made)
      /\ RefusalsAreOver(h) /\ ~HasDenied(results) => RefusalsAreOver(Append(h, t))
  BY <1>2, <1>3, <1>7, AppendResults
<1>9. Append(h, t) \in Seq(Message)
  BY <1>2, <1>3, AppendProperties
<1> QED
  BY <1>2, <1>6, <1>8, <1>9 DEF h, t

LEMMA RecordStep == IInv /\ Record => IInv'
<1> SUFFICES ASSUME IInv, Record PROVE IInv'
  OBVIOUS
<1>1. /\ pc = "tools" /\ i > Len(msg.calls) /\ Looping /\ AtWork
      /\ UNCHANGED <<turns, made, ran>>
      /\ store' = IF msg.calls = <<>> THEN store ELSE Append(store, ToolMessage(results))
  BY DEF Record, Looping, AtWork
<1>2. PICK f \in Finishes :
         /\ store = Append(history, [msg EXCEPT !.finish = f])
         /\ msg.finish = "tool_use" => f = "tool_use"
  BY <1>1 DEF IInv, RowIsKept, RowIsMsg
<1> DEFINE a == [msg EXCEPT !.finish = f]
<1>3. /\ a \in Message /\ a.role = "assistant" /\ a.results = <<>> /\ a.calls = msg.calls
      /\ store = Append(history, a)
  <2>1. msg \in Message /\ msg.role = "assistant" /\ msg.results = <<>>
    BY <1>1, LoopTypes
  <2> QED
    BY <1>2, <2>1, AddFinishTypes
<1>4. CASE msg.calls # <<>> /\ msg.finish = "tool_use"
  <2>1. /\ history' = history \o <<msg, ToolMessage(results)>> /\ pc' = "check"
        /\ UNCHANGED <<cancelled, msg, stream, results, i, rounds, outcome>>
    BY <1>4 DEF Record
  <2>2. a = msg
    <3>1. msg \in Message /\ f = msg.finish
      BY <1>1, <1>2, <1>4, LoopTypes
    <3> QED
      BY <3>1 DEF Message
  <2> DEFINE t == ToolMessage(results)
             h == Append(history, msg)
  <2>3. /\ t \in Message /\ Append(h, t) \in Seq(Message)
        /\ PairsIn(Append(h, t)) /\ TellsIn(Append(h, t), ran) /\ KnownIn(Append(h, t), made)
        /\ Answered(Append(h, t))
        /\ RefusalsAreOver(h) /\ ~HasDenied(results) => RefusalsAreOver(Append(h, t))
    BY <1>1, LoopTypes, AnswersAreWhole
  <2>4. history \in Seq(Message) /\ RefusalsAreOver(history) /\ ~HasDenied(results)
    BY <1>1, <1>4 DEF IInv, TypeOK, LogIsSound, Log, LoopIsAt
  <2>5. RefusalsAreOver(h)
    <3>1. msg \in Message /\ ~HasDenied(msg.results)
      BY <1>1, LoopTypes DEF HasDenied
    <3> QED
      BY <2>4, <3>1, AppendResults
  <2>6. history' = Append(h, t) /\ store' = Append(h, t)
    BY <1>1, <1>3, <1>4, <2>1, <2>2, <2>3, <2>4, LoopTypes, AppendTwo
  <2> HIDE DEF h, t
  <2>7. TypeOK'
    BY <1>1, <2>1, <2>3, <2>6 DEF IInv, TypeOK
  <2>8. LogIsSound'
    BY <1>1, <2>1, <2>3, <2>4, <2>5, <2>6 DEF LogIsSound, Log
  <2>9. (RowIsKept /\ RoundsAreLeft /\ CallsAreFresh /\ LoopIsAt)'
    BY <1>1, <1>4, <2>1, <2>6
       DEF IInv, RowIsKept, RoundsAreLeft, CallsAreFresh, LoopIsAt, AtWork, Looping
  <2> QED
    BY <2>7, <2>8, <2>9 DEF IInv
<1>5. CASE EndTurn("response")
  <2>1. CASE msg.calls = <<>>
    BY <1>1, <1>5, <2>1, TurnIsLeft
  <2>2. CASE msg.calls # <<>>
    <3>1. store' = Append(Append(history, a), ToolMessage(results))
      BY <1>1, <1>3, <2>2
    <3> HIDE DEF a
    <3>2. store' \in Seq(Message) /\ PairsIn(store') /\ TellsIn(store', ran) /\ KnownIn(store', made)
      BY <1>1, <1>3, <3>1, AnswersAreWhole
    <3> QED
      BY <1>1, <1>5, <3>2, TurnEnds
  <2> QED
    BY <2>1, <2>2
<1> QED
  BY <1>4, <1>5 DEF Record

LEMMA CancelStep == IInv /\ Cancel => IInv'
<1> SUFFICES ASSUME IInv, Cancel PROVE IInv'
  OBVIOUS
<1> USE DEF Cancel, memory, IInv
<1>1. TypeOK'
  BY DEF TypeOK
<1>2. (LogIsSound /\ RowIsKept /\ RoundsAreLeft /\ CallsAreFresh /\ LoopIsAt)'
  BY DEF LogIsSound, Log, RowIsKept, RowIsMsg, RoundsAreLeft, CallsAreFresh, Fresh, LoopIsAt,
         AtWork, Looping
<1> QED
  BY <1>1, <1>2

-----------------------------------------------------------------------------
LEMMA StepInvariant == IInv /\ [Next]_vars => IInv'
<1> SUFFICES ASSUME IInv, [Next]_vars PROVE IInv'
  OBVIOUS
<1>1. CASE Begin
  BY <1>1, BeginStep
<1>2. CASE CheckCancelled
  BY <1>2, CheckStep
<1>3. CASE OpenStream
  BY <1>3, OpenStep
<1>4. CASE Interrupt
  <2>1. AtWork /\ EndTurn("cancelled") /\ store' = Saved(AddFinish(msg, "canceled"))
        /\ UNCHANGED <<turns, made, ran>> /\ "canceled" \in Finishes
    BY <1>4 DEF Interrupt, AtWork, Finishes
  <2> QED
    BY <2>1, TurnIsFinished
<1>5. CASE AfterEvent \/ Delta
  BY <1>5, DeltaStep
<1>6. CASE StopTools
  BY <1>6, StopStep
<1>7. CASE ToolNotFound
  <2>1. Looping /\ pc = "tools" /\ i \in DOMAIN msg.calls
    BY <1>7, LoopTypes DEF ToolNotFound, Calling, Looping
  <2> QED
    BY <1>7, <2>1, FilledStep DEF ToolNotFound
<1>8. CASE StartTool
  BY <1>8, StartStep
<1>9. CASE Record
  BY <1>9, RecordStep
<1>10. CASE ToolUseStart
  BY <1>10, AnnounceStep
<1>11. CASE Retry
  BY <1>11, RetryStep
<1>12. ASSUME NEW n \in 0 .. MaxCalls, NEW reason \in {"end_turn", "tool_use", "max_tokens"},
              n > 0 => rounds < MaxRounds, Complete(n, reason)
       PROVE  IInv'
  BY <1>12, CompleteStep
<1>13. CASE StreamError
  <2>1. /\ AtWork /\ EndTurn("error") /\ UNCHANGED <<turns, made, ran>> /\ "canceled" \in Finishes
        /\ store' = Saved(AddFinish(msg, "canceled")) \/ store' = store
    BY <1>13 DEF StreamError, AtWork, Finishes
  <2> QED
    BY <2>1, TurnIsFinished, TurnIsLeft
<1>14. CASE StreamClosed
  BY <1>14, ClosedStep
<1>15. CASE ToolReturns
  <2>1. Looping /\ pc = "running" /\ i \in DOMAIN msg.calls
    BY <1>15 DEF ToolReturns, Looping, IInv, TypeOK
  <2> QED
    BY <1>15, <2>1, FilledStep DEF ToolReturns
<1>16. CASE ToolDenied
  BY <1>16, DeniedStep
<1>17. CASE Cancel
  BY <1>17, CancelStep
<1>18. CASE Crash
  BY <1>18, TurnIsLeft DEF Crash
<1>19. CASE UNCHANGED vars
  <2> USE <1>19 DEF vars, memory, IInv
  <2>1. TypeOK'
    BY DEF TypeOK
  <2>2. (LogIsSound /\ RowIsKept /\ RoundsAreLeft /\ CallsAreFresh /\ LoopIsAt)'
    BY DEF LogIsSound, Log, RowIsKept, RowIsMsg, RoundsAreLeft, CallsAreFresh, Fresh, LoopIsAt,
           AtWork, Looping
  <2> QED
    BY <2>1, <2>2
<1> QED
  BY <1>1, <1>2, <1>3, <1>4, <1>5, <1>6, <1>7, <1>8, <1>9, <1>10, <1>11, <1>12, <1>13, <1>14,
     <1>15, <1>16, <1>17, <1>18, <1>19 DEF Next, TurnStep, ProviderStep, ToolStep

(* The inductive invariant holds of every turn there can be. *)
THEOREM Invariance == Spec => []IInv
<1>1. IInv /\ [Next]_vars => IInv'
  BY StepInvariant
<1> QED
  BY <1>1, InitInvariant, PTL DEF Spec

(* Every variable of the turn keeps its type. *)
THEOREM TypeCorrect == Spec => []TypeOK
<1>1. IInv => TypeOK
  BY DEF IInv
<1> QED
  BY <1>1, Invariance, PTL

(* The store pairs calls with results, tells what ran, and is what memory
   holds between rounds, whenever a turn is cancelled, refused or dies. *)
THEOREM CanBeGoneOnFrom == Spec => []StoreCanBeGoneOnFrom
<1>1. IInv => StoreCanBeGoneOnFrom
  <2> SUFFICES ASSUME IInv PROVE StoreCanBeGoneOnFrom
    OBVIOUS
  <2>1. CallsAndResultsPair
    BY StoreIsSound DEF CallsAndResultsPair, PairsIn
  <2>2. ResultsTellWhatRan
    BY StoreIsSound DEF ResultsTellWhatRan, TellsIn
  <2>3. HistoryIsStored
    BY DEF HistoryIsStored, IInv, RowIsKept
  <2> QED
    BY <2>1, <2>2, <2>3 DEF StoreCanBeGoneOnFrom
<1> QED
  BY <1>1, Invariance, PTL

(* The model is not asked again in a turn in which a tool was refused. *)
THEOREM RefusalEnds == Spec => RefusalEndsTurn
<1>1. IInv /\ [Next]_vars => [rounds' > rounds => ~RefusedThisTurn]_vars
  <2> SUFFICES ASSUME IInv, [Next]_vars, rounds' > rounds PROVE ~RefusedThisTurn
    OBVIOUS
  <2>1. pc = "open" /\ store = history
    <3>1. pc = "open"
      BY DEF Next, TurnStep, ProviderStep, ToolStep, Begin, CheckCancelled, OpenStream, Interrupt,
             AfterEvent, StopTools, ToolNotFound, StartTool, Record, Delta, ToolUseStart, Retry,
             Complete, StreamError, StreamClosed, ToolReturns, ToolDenied, Cancel, Crash, EndTurn,
             vars, IInv, TypeOK
    <3> QED
      BY <3>1 DEF IInv, RowIsKept
  <2>2. RefusalsAreOver(store)
    BY <2>1 DEF IInv, LogIsSound, Log
  <2> QED
    BY <2>2 DEF RefusalsAreOver, RefusedThisTurn, HasDenied
<1> QED
  BY <1>1, Invariance, PTL DEF Spec, RefusalEndsTurn
===============================================================================
