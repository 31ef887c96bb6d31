---------------------------- MODULE RecordsProofs ----------------------------
(***************************************************************************)
(* Four records that are written and read back: the row of a session and the *)
(* file of settings, which several read, change in one field and write whole; *)
(* the tables below the services, whose events follow what they tell of; and *)
(* the parts of a message, which a turn makes grow and a row keeps.  For any *)
(* number of turns, rounds, tasks and summaries; of writers, requests and    *)
(* processes; of callers, sessions, rows and calls; of texts and changes.    *)
(***************************************************************************)
EXTENDS Sessions, Settings, Store, Parts, FiniteSetTheorems, SequenceTheorems,
        WellFoundedInduction, TLAPS

-----------------------------------------------------------------------------
(* The row of a session. *)

Kinds == {"user", "assistant", "tool", "summary"}
Holds(w) == held[w] # NoRow

\* Who has read the row and has yet to save it.
HoldersAreAtWork ==
    /\ Holds("turn") <=> turn \in {"saving", "parent"}
    /\ Holds("title") <=> title = "asking"
    /\ Holds("summary") <=> summary \in {"writing", "saving"}

\* Neither the row nor a copy of it has more than was charged.
NobodyOvercharges == row.cost <= charged /\ \A w \in Writers : held[w].cost <= charged

\* A summary that is being saved is there, and there is a last one.
LastSummary(i) == i \in DOMAIN messages /\ messages[i] = "summary"
                  /\ \A j \in DOMAIN messages : messages[j] = "summary" => j <= i
SummariesEnd ==
    /\ summary = "saving" => \E i \in DOMAIN messages : messages[i] = "summary"
    /\ (\E i \in DOMAIN messages : messages[i] = "summary") => \E i \in DOMAIN messages : LastSummary(i)

\* Only the first turn asks for a title.
FirstTurnTitles == messages = <<>> => title = "none"

\* One writer at a time: what it holds is the row.
CopiesAreCurrent == \A w \in Writers : Holds(w) => held[w] = row /\ ~Busy(w)

\* What a turn does not read is in the summary, and what is summarized stands still.
SummaryStandsForAll ==
    /\ summary # "idle" => turn = "idle"
    /\ summary \in {"asking", "writing"} => listed = Len(messages)
    /\ summary = "saving" => listed + 1 = Len(messages) /\ messages[Len(messages)] = "summary"
    /\ row.summary <= Len(messages)
    /\ \A i \in DOMAIN messages : i < row.summary => i \in covered
    /\ turn # "idle" => DOMAIN messages \subseteq history \cup covered

SessionInv ==
    /\ SessionTypeOK /\ HoldersAreAtWork /\ NobodyOvercharges /\ SummariesEnd
    /\ FirstTurnTitles
    /\ ~tangled =>
          /\ CopiesAreCurrent /\ SummaryStandsForAll
          /\ row.cost = charged
          /\ title = "done" => row.title = "generated"

-----------------------------------------------------------------------------
(* Who reads, saves or forgets the row. *)

LEMMA RowIsSomething ==
    /\ \A r \in Row : r # NoRow /\ r.cost \in Nat /\ r.summary \in Nat
    /\ NoRow.cost = 0 /\ NoRow.summary = 0
<1>1. NoRow.title = "" /\ NoRow.cost = 0 /\ NoRow.summary = 0
  BY DEF NoRow
<1>2. ASSUME NEW r \in Row PROVE r.cost \in Nat /\ r.summary \in Nat /\ r.title # ""
  <2>1. r.cost \in Nat /\ r.summary \in Nat
    BY DEF Row
  <2>2. r.title = "New Session" \/ r.title = "generated"
    BY DEF Row
  <2> QED
    BY <2>1, <2>2
<1> QED
  BY <1>1, <1>2

(* A row of which some columns are changed is one, and the others stay. *)
LEMMA ChangedRow ==
  ASSUME NEW r \in Row, NEW n \in Nat
  PROVE  /\ LET c == [r EXCEPT !.cost = @ + n]
            IN  /\ c \in Row /\ c.cost = r.cost + n
                /\ c.title = r.title /\ c.summary = r.summary
         /\ LET c == [r EXCEPT !.cost = @ + 1, !.summary = n]
            IN  /\ c \in Row /\ c.cost = r.cost + 1
                /\ c.title = r.title /\ c.summary = n
<1> DEFINE c == [r EXCEPT !.cost = @ + n]
           d == [r EXCEPT !.cost = @ + 1, !.summary = n]
<1>1. r.cost \in Nat
  BY DEF Row
<1>2. r.cost + n \in Nat /\ r.cost + 1 \in Nat
  BY <1>1
<1>3. c.cost = r.cost + n /\ c.title = r.title /\ c.summary = r.summary
  BY DEF Row
<1>4. d.cost = r.cost + 1 /\ d.title = r.title /\ d.summary = n
  BY DEF Row
<1>5. c \in Row
  BY <1>2 DEF Row
<1>6. d \in Row
  BY <1>2 DEF Row
<1> QED
  BY <1>3, <1>4, <1>5, <1>6

LEMMA SessionInitInvariant == SessionInit => SessionInv
<1> SUFFICES ASSUME SessionInit PROVE SessionInv
  OBVIOUS
<1>r. row = [cost |-> 0, title |-> "New Session", summary |-> 0]
  BY DEF SessionInit, NoRow
<1>1. row.cost = 0 /\ row.summary = 0
  BY <1>r
<1>2. \A w \in Writers : held[w] = NoRow /\ held[w].cost = 0
  BY RowIsSomething DEF SessionInit
<1>a. /\ messages = <<>> /\ charged = 0 /\ turn = "idle" /\ title = "none" /\ summary = "idle"
      /\ tangled = FALSE
  BY DEF SessionInit
<1>3. Len(messages) = 0 /\ DOMAIN messages = {}
  BY <1>a, EmptySeq
<1>4. SessionTypeOK
  <2>1. row \in Row
    BY <1>r DEF Row
  <2>2. held \in [Writers -> Row \cup {NoRow}]
    BY <1>2 DEF SessionInit
  <2>3. messages \in Seq({"user", "assistant", "tool", "summary"})
    BY <1>a
  <2> QED
    BY <2>1, <2>2, <2>3 DEF SessionInit, SessionTypeOK
<1>5. HoldersAreAtWork
  <2>1. \A w \in Writers : ~Holds(w)
    BY <1>2 DEF Holds
  <2>2. turn = "idle" /\ title = "none" /\ summary = "idle"
    BY DEF SessionInit
  <2> QED
    BY <2>1, <2>2 DEF HoldersAreAtWork, Writers
<1>6. NobodyOvercharges
  BY <1>a, <1>1, <1>2 DEF NobodyOvercharges
<1>7. SummariesEnd
  BY <1>a, <1>3 DEF SummariesEnd
<1>8. CopiesAreCurrent
  BY <1>2 DEF CopiesAreCurrent, Holds
<1>9. SummaryStandsForAll
  BY <1>a, <1>1, <1>3 DEF SummaryStandsForAll
<1>10. row.cost = charged /\ title # "done"
  BY <1>1 DEF SessionInit
<1>11. FirstTurnTitles
  BY <1>a DEF FirstTurnTitles
<1> QED
  BY <1>4, <1>5, <1>6, <1>7, <1>8, <1>9, <1>10, <1>11 DEF SessionInv

(* Reading the row beside another reader tangles them. *)
LEMMA GetKeeps ==
  ASSUME SessionInv, NEW w \in Writers, Get(w), UNCHANGED <<row, charged>>
  PROVE  /\ held' \in [Writers -> Row \cup {NoRow}] /\ tangled' \in BOOLEAN
         /\ NobodyOvercharges'
         /\ ~tangled' => ~tangled /\ CopiesAreCurrent'
         /\ Holds(w)' /\ \A o \in Writers \ {w} : Holds(o)' <=> Holds(o)
<1>1. row \in Row /\ held \in [Writers -> Row \cup {NoRow}] /\ tangled \in BOOLEAN
  BY DEF SessionInv, SessionTypeOK
<1>2. held' = [held EXCEPT ![w] = row] /\ tangled' = (tangled \/ Busy(w))
  BY DEF Get
<1>3. held' \in [Writers -> Row \cup {NoRow}] /\ tangled' \in BOOLEAN
  BY <1>1, <1>2 DEF Busy
<1>4. held'[w] = row /\ \A o \in Writers \ {w} : held'[o] = held[o]
  BY <1>1, <1>2
<1>5. NobodyOvercharges'
  BY <1>4 DEF SessionInv, NobodyOvercharges
<1>6. Holds(w)' /\ \A o \in Writers \ {w} : Holds(o)' <=> Holds(o)
  BY <1>1, <1>4, RowIsSomething DEF Holds
<1>7. ASSUME ~tangled' PROVE ~tangled /\ CopiesAreCurrent'
  <2>1. ~tangled /\ \A o \in Writers \ {w} : held[o] = NoRow
    BY <1>1, <1>2, <1>7 DEF Busy
  <2> QED
    BY <1>4, <2>1 DEF CopiesAreCurrent, Holds, Busy
<1> QED
  BY <1>3, <1>5, <1>6, <1>7

(* Saving puts back what was read but for what is added to it. *)
LEMMA SaveKeeps ==
  ASSUME SessionInv, NEW w \in Writers, Holds(w), NEW changed \in Row, Save(w, changed),
         charged' \in Nat, charged <= charged', changed.cost <= charged',
         UNCHANGED tangled
  PROVE  /\ row' = changed /\ held' \in [Writers -> Row \cup {NoRow}]
         /\ NobodyOvercharges'
         /\ ~tangled => CopiesAreCurrent'
         /\ ~Holds(w)' /\ \A o \in Writers \ {w} : Holds(o)' <=> Holds(o)
<1>1. row \in Row /\ held \in [Writers -> Row \cup {NoRow}] /\ charged \in Nat
  BY DEF SessionInv, SessionTypeOK
<1>2. row' = changed /\ held' = [held EXCEPT ![w] = NoRow]
  BY DEF Save
<1>3. held' \in [Writers -> Row \cup {NoRow}]
  BY <1>1, <1>2
<1>4. held'[w] = NoRow /\ \A o \in Writers \ {w} : held'[o] = held[o]
  BY <1>1, <1>2
<1>5. NobodyOvercharges'
  <2>1. \A o \in Writers : held[o].cost \in Nat /\ held[o].cost <= charged
    BY <1>1, RowIsSomething DEF SessionInv, NobodyOvercharges
  <2>2. \A o \in Writers : held'[o].cost <= charged'
    BY <1>1, <1>4, <2>1, RowIsSomething
  <2> QED
    BY <1>2, <2>2 DEF NobodyOvercharges
<1>6. ~Holds(w)' /\ \A o \in Writers \ {w} : Holds(o)' <=> Holds(o)
  BY <1>4 DEF Holds
<1>7. ASSUME ~tangled PROVE CopiesAreCurrent'
  <2>1. \A o \in Writers \ {w} : held[o] = NoRow
    BY <1>7 DEF SessionInv, CopiesAreCurrent, Busy
  <2> QED
    BY <1>4, <2>1 DEF CopiesAreCurrent, Holds
<1> QED
  BY <1>2, <1>3, <1>5, <1>6, <1>7

(* Giving up leaves the row to the others. *)
LEMMA ForgetKeeps ==
  ASSUME SessionInv, NEW w \in Writers, Forget(w), UNCHANGED <<charged, tangled>>
  PROVE  /\ row' = row /\ held' \in [Writers -> Row \cup {NoRow}]
         /\ NobodyOvercharges'
         /\ ~tangled => CopiesAreCurrent'
         /\ ~Holds(w)' /\ \A o \in Writers \ {w} : Holds(o)' <=> Holds(o)
<1>1. row \in Row /\ held \in [Writers -> Row \cup {NoRow}] /\ charged \in Nat
  BY DEF SessionInv, SessionTypeOK
<1>2. row' = row /\ held' = [held EXCEPT ![w] = NoRow]
  BY DEF Forget
<1>3. held' \in [Writers -> Row \cup {NoRow}]
  BY <1>1, <1>2
<1>4. held'[w] = NoRow /\ \A o \in Writers \ {w} : held'[o] = held[o]
  BY <1>1, <1>2
<1>5. NobodyOvercharges'
  BY <1>1, <1>2, <1>4, RowIsSomething DEF SessionInv, NobodyOvercharges
<1>6. ~Holds(w)' /\ \A o \in Writers \ {w} : Holds(o)' <=> Holds(o)
  BY <1>4 DEF Holds
<1>7. ASSUME ~tangled PROVE CopiesAreCurrent'
  <2>1. \A o \in Writers : Holds(o) => held[o] = row /\ \A b \in Writers \ {o} : held[b] = NoRow
    BY <1>7 DEF SessionInv, CopiesAreCurrent, Busy
  <2> QED
    BY <1>2, <1>4, <2>1 DEF CopiesAreCurrent, Holds, Busy
<1> QED
  BY <1>2, <1>3, <1>5, <1>6, <1>7

(* A message is added after the others, and some summary stays the last. *)
LEMMA AppendKeeps ==
  ASSUME SessionInv, NEW m \in Kinds, messages' = Append(messages, m),
         m = "summary" \/ summary' = summary
  PROVE  /\ messages' \in Seq(Kinds) /\ Len(messages') = Len(messages) + 1
         /\ messages'[Len(messages')] = m
         /\ DOMAIN messages = 1..Len(messages) /\ DOMAIN messages' = 1..(Len(messages) + 1)
         /\ Len(messages) \in Nat
         /\ SummariesEnd' /\ FirstTurnTitles'
<1>1. messages \in Seq(Kinds)
  BY DEF SessionInv, SessionTypeOK, Kinds
<1>2. /\ messages' \in Seq(Kinds) /\ Len(messages') = Len(messages) + 1
      /\ \A i \in 1..Len(messages) : messages'[i] = messages[i]
      /\ messages'[Len(messages) + 1] = m
  BY <1>1, AppendProperties
<1>3. /\ DOMAIN messages = 1..Len(messages) /\ DOMAIN messages' = 1..(Len(messages) + 1)
      /\ Len(messages) \in Nat
  BY <1>1, <1>2, LenProperties
<1>4. m = "summary" => SummariesEnd'
  BY <1>2, <1>3 DEF SummariesEnd, LastSummary
<1>5. m # "summary" => SummariesEnd'
  BY <1>2, <1>3 DEF SessionInv, SummariesEnd, LastSummary
<1>6. FirstTurnTitles'
  <2>1. Len(messages') # 0
    BY <1>2, <1>3
  <2> QED
    BY <2>1, EmptySeq DEF FirstTurnTitles
<1> QED
  BY <1>2, <1>3, <1>4, <1>5, <1>6

(* Whoever adds no message leaves the summaries where they are. *)
LEMMA MessagesKeep ==
  ASSUME SessionInv, UNCHANGED messages, summary' # "saving" \/ summary' = summary,
         title' = title \/ title # "none"
  PROVE  SummariesEnd' /\ FirstTurnTitles'
BY DEF SessionInv, SummariesEnd, LastSummary, FirstTurnTitles

(* Whoever leaves the row and its copies alone tangles no copies. *)
LEMMA CopiesKeep ==
  ASSUME SessionInv, UNCHANGED <<row, held, charged>>, ~tangled' => ~tangled
  PROVE  /\ NobodyOvercharges' /\ (~tangled' => CopiesAreCurrent')
         /\ \A w \in Writers : Holds(w)' <=> Holds(w)
<1>1. NobodyOvercharges'
  BY DEF SessionInv, NobodyOvercharges
<1>2. \A w \in Writers : Holds(w)' <=> Holds(w)
  BY DEF Holds
<1>3. ~tangled' => CopiesAreCurrent'
  BY DEF SessionInv, CopiesAreCurrent, Holds, Busy
<1> QED
  BY <1>1, <1>2, <1>3

-----------------------------------------------------------------------------
(* Turns and summaries that do not touch the row. *)

LEMMA BeginStep == SessionInv /\ Begin => SessionInv'
<1> SUFFICES ASSUME SessionInv, Begin PROVE SessionInv'
  OBVIOUS
<1>1. /\ messages' = Append(messages, "user") /\ turn = "idle" /\ turn' = "round"
      /\ history' = SinceSummary \cup {Len(messages) + 1} /\ turns' = turns + 1
      /\ title' = title \/ (messages = <<>> /\ title' = "start")
      /\ tangled' = (tangled \/ summary # "idle")
      /\ UNCHANGED <<row, child, summary, held, listed, rounds, tasks, summaries, charged, covered>>
  BY DEF Begin
<1>2. /\ messages' \in Seq(Kinds) /\ Len(messages') = Len(messages) + 1
      /\ DOMAIN messages = 1..Len(messages) /\ DOMAIN messages' = 1..(Len(messages) + 1)
      /\ Len(messages) \in Nat /\ SummariesEnd' /\ FirstTurnTitles'
  BY <1>1, AppendKeeps DEF Kinds
<1>3. /\ NobodyOvercharges' /\ (~tangled' => CopiesAreCurrent')
      /\ \A w \in Writers : Holds(w)' <=> Holds(w)
  BY <1>1, CopiesKeep
<1>4. SessionTypeOK'
  BY <1>1, <1>2 DEF SessionInv, SessionTypeOK, Kinds, SinceSummary
<1>5. HoldersAreAtWork'
  BY <1>1, <1>3 DEF SessionInv, HoldersAreAtWork, Writers, FirstTurnTitles
<1>6. ASSUME ~tangled'
      PROVE  SummaryStandsForAll' /\ row'.cost = charged' /\ (title' = "done" => row'.title = "generated")
  <2>1. ~tangled /\ summary = "idle" /\ row.summary <= Len(messages) /\ row.summary \in Nat
    BY <1>1, <1>6, RowIsSomething DEF SessionInv, SummaryStandsForAll, SessionTypeOK
  <2>2. \A i \in DOMAIN messages : i < row.summary => i \in covered
    BY <2>1 DEF SessionInv, SummaryStandsForAll
  <2>3. \A i \in DOMAIN messages' : i < row.summary => i \in covered
    BY <1>2, <2>1, <2>2
  <2>4. DOMAIN messages' \subseteq history' \cup covered
    BY <1>1, <1>2, <2>1, <2>2 DEF SinceSummary
  <2>5. SummaryStandsForAll'
    BY <1>1, <1>2, <2>1, <2>3, <2>4 DEF SummaryStandsForAll
  <2> QED
    BY <1>1, <2>1, <2>5 DEF SessionInv
<1> QED
  BY <1>2, <1>3, <1>4, <1>5, <1>6 DEF SessionInv

(* A message of the turn goes to the model with the next request. *)
LEMMA TurnSaysStep == SessionInv /\ (Answered \/ OtherTools) => SessionInv'
<1> SUFFICES ASSUME SessionInv, Answered \/ OtherTools PROVE SessionInv'
  OBVIOUS
<1>1. PICK m \in Kinds \ {"summary"} :
      /\ messages' = Append(messages, m) /\ history' = history \cup {Len(messages')}
      /\ turn \in {"round", "tools"} /\ turn' \in {"usage", "round"} /\ rounds' \in {rounds, rounds + 1}
      /\ UNCHANGED <<row, child, title, summary, held, listed, turns, tasks, summaries,
                     charged, covered, tangled>>
  BY DEF Answered, OtherTools, Kinds, counted
<1>2. /\ messages' \in Seq(Kinds) /\ Len(messages') = Len(messages) + 1
      /\ DOMAIN messages = 1..Len(messages) /\ DOMAIN messages' = 1..(Len(messages) + 1)
      /\ Len(messages) \in Nat /\ SummariesEnd' /\ FirstTurnTitles'
  BY <1>1, AppendKeeps
<1>3. /\ NobodyOvercharges' /\ (~tangled' => CopiesAreCurrent')
      /\ \A w \in Writers : Holds(w)' <=> Holds(w)
  BY <1>1, CopiesKeep
<1>4. SessionTypeOK'
  <2>1. history \subseteq Nat /\ Len(messages') \in Nat
    BY <1>2 DEF SessionInv, SessionTypeOK
  <2>2. history' \subseteq Nat
    BY <1>1, <2>1
  <2> QED
    BY <1>1, <1>2, <2>2 DEF SessionInv, SessionTypeOK, Kinds
<1>5. HoldersAreAtWork'
  BY <1>1, <1>3 DEF SessionInv, HoldersAreAtWork, Writers
<1>6. ASSUME ~tangled'
      PROVE  SummaryStandsForAll' /\ row'.cost = charged' /\ (title' = "done" => row'.title = "generated")
  <2>1. /\ ~tangled /\ summary = "idle" /\ row.summary <= Len(messages) /\ row.summary \in Nat
        /\ DOMAIN messages \subseteq history \cup covered
        /\ \A i \in DOMAIN messages : i < row.summary => i \in covered
    BY <1>1, <1>6, RowIsSomething DEF SessionInv, SummaryStandsForAll, SessionTypeOK
  <2>2. \A i \in DOMAIN messages' : i < row.summary => i \in covered
    BY <1>2, <2>1
  <2>3. DOMAIN messages' \subseteq history' \cup covered
    BY <1>1, <1>2, <2>1
  <2>4. SummaryStandsForAll'
    BY <1>1, <1>2, <2>1, <2>2, <2>3 DEF SummaryStandsForAll
  <2> QED
    BY <1>1, <2>1, <2>4 DEF SessionInv
<1> QED
  BY <1>2, <1>3, <1>4, <1>5, <1>6 DEF SessionInv

LEMMA TaskStep == SessionInv /\ (StartTask \/ ChildRound \/ TaskFails) => SessionInv'
<1> SUFFICES ASSUME SessionInv, StartTask \/ ChildRound \/ TaskFails PROVE SessionInv'
  OBVIOUS
<1>1. /\ turn \in {"tools", "task"} /\ turn' \in {"task", "tools"}
      /\ tasks' \in {tasks, tasks + 1} /\ child' \in {0, child + 1}
      /\ UNCHANGED <<row, messages, title, summary, held, listed, history, turns, rounds,
                     summaries, charged, covered, tangled>>
  BY DEF StartTask, ChildRound, TaskFails, writing, counted
<1>2. SummariesEnd' /\ FirstTurnTitles'
  BY <1>1, MessagesKeep
<1>3. /\ NobodyOvercharges' /\ (~tangled' => CopiesAreCurrent')
      /\ \A w \in Writers : Holds(w)' <=> Holds(w)
  BY <1>1, CopiesKeep
<1>4. SessionTypeOK'
  BY <1>1 DEF SessionInv, SessionTypeOK
<1>5. HoldersAreAtWork'
  BY <1>1, <1>3 DEF SessionInv, HoldersAreAtWork, Writers
<1>6. ~tangled' => SummaryStandsForAll'
  BY <1>1 DEF SessionInv, SummaryStandsForAll
<1> QED
  BY <1>1, <1>2, <1>3, <1>4, <1>5, <1>6 DEF SessionInv

LEMMA SummaryListStep == SessionInv /\ SummaryList => SessionInv'
<1> SUFFICES ASSUME SessionInv, SummaryList PROVE SessionInv'
  OBVIOUS
<1>1. /\ turn = "idle" /\ summary = "idle" /\ summaries' = summaries + 1
      /\ \/ UNCHANGED <<summary, listed>>
         \/ summary' = "asking" /\ listed' = Len(messages)
      /\ UNCHANGED <<row, messages, child, turn, title, held, history, turns, rounds, tasks,
                     charged, covered, tangled>>
  BY DEF SummaryList
<1>2. SummariesEnd' /\ FirstTurnTitles'
  BY <1>1, MessagesKeep
<1>3. /\ NobodyOvercharges' /\ (~tangled' => CopiesAreCurrent')
      /\ \A w \in Writers : Holds(w)' <=> Holds(w)
  BY <1>1, CopiesKeep
<1>4. SessionTypeOK'
  <2>1. Len(messages) \in Nat
    BY LenProperties DEF SessionInv, SessionTypeOK
  <2> QED
    BY <1>1, <2>1 DEF SessionInv, SessionTypeOK
<1>5. HoldersAreAtWork'
  BY <1>1, <1>3 DEF SessionInv, HoldersAreAtWork, Writers
<1>6. ~tangled' => SummaryStandsForAll'
  BY <1>1 DEF SessionInv, SummaryStandsForAll
<1> QED
  BY <1>1, <1>2, <1>3, <1>4, <1>5, <1>6 DEF SessionInv

LEMMA SummaryMessageStep == SessionInv /\ SummaryMessage => SessionInv'
<1> SUFFICES ASSUME SessionInv, SummaryMessage PROVE SessionInv'
  OBVIOUS
<1>1. /\ messages' = Append(messages, "summary") /\ summary = "writing" /\ summary' = "saving"
      /\ UNCHANGED <<row, child, turn, title, held, listed, history, turns, rounds, tasks,
                     summaries, charged, covered, tangled>>
  BY DEF SummaryMessage, counted
<1>2. /\ messages' \in Seq(Kinds) /\ Len(messages') = Len(messages) + 1
      /\ messages'[Len(messages')] = "summary"
      /\ DOMAIN messages = 1..Len(messages) /\ DOMAIN messages' = 1..(Len(messages) + 1)
      /\ Len(messages) \in Nat /\ SummariesEnd' /\ FirstTurnTitles'
  BY <1>1, AppendKeeps DEF Kinds
<1>3. /\ NobodyOvercharges' /\ (~tangled' => CopiesAreCurrent')
      /\ \A w \in Writers : Holds(w)' <=> Holds(w)
  BY <1>1, CopiesKeep
<1>4. SessionTypeOK'
  BY <1>1, <1>2 DEF SessionInv, SessionTypeOK, Kinds
<1>5. HoldersAreAtWork'
  BY <1>1, <1>3 DEF SessionInv, HoldersAreAtWork, Writers
<1>6. ASSUME ~tangled'
      PROVE  SummaryStandsForAll' /\ row'.cost = charged' /\ (title' = "done" => row'.title = "generated")
  <2>1. /\ ~tangled /\ turn = "idle" /\ listed = Len(messages)
        /\ row.summary <= Len(messages) /\ row.summary \in Nat
        /\ \A i \in DOMAIN messages : i < row.summary => i \in covered
    BY <1>1, <1>6, RowIsSomething DEF SessionInv, SummaryStandsForAll, SessionTypeOK
  <2>2. \A i \in DOMAIN messages' : i < row.summary => i \in covered
    BY <1>2, <2>1
  <2>3. SummaryStandsForAll'
    BY <1>1, <1>2, <2>1, <2>2 DEF SummaryStandsForAll
  <2> QED
    BY <1>1, <2>1, <2>3 DEF SessionInv
<1> QED
  BY <1>2, <1>3, <1>4, <1>5, <1>6 DEF SessionInv

-----------------------------------------------------------------------------
(* Those who read the row. *)

LEMMA GetStep == SessionInv /\ (UsageGet \/ TaskGet \/ TitleGet \/ SummaryGet) => SessionInv'
<1> SUFFICES ASSUME SessionInv, UsageGet \/ TaskGet \/ TitleGet \/ SummaryGet PROVE SessionInv'
  OBVIOUS
<1>1. PICK w \in Writers :
      /\ Get(w)
      /\ CASE w = "turn" -> /\ turn \in {"usage", "task"} /\ turn' \in {"saving", "parent"}
                            /\ UNCHANGED <<title, summary>>
           [] w = "title" -> title = "start" /\ title' = "asking" /\ UNCHANGED <<turn, summary>>
           [] OTHER -> summary = "asking" /\ summary' = "writing" /\ UNCHANGED <<turn, title>>
  BY DEF UsageGet, TaskGet, TitleGet, SummaryGet, Writers
<1>2. UNCHANGED <<row, messages, child, listed, history, turns, rounds, tasks, summaries,
                  charged, covered>>
  BY DEF UsageGet, TaskGet, TitleGet, SummaryGet, counted
<1>3. /\ held' \in [Writers -> Row \cup {NoRow}] /\ tangled' \in BOOLEAN
      /\ NobodyOvercharges'
      /\ ~tangled' => ~tangled /\ CopiesAreCurrent'
      /\ Holds(w)' /\ \A o \in Writers \ {w} : Holds(o)' <=> Holds(o)
  BY <1>1, <1>2, GetKeeps
<1>4. SummariesEnd' /\ FirstTurnTitles'
  BY <1>1, <1>2, MessagesKeep
<1>5. turn' \in {turn, "saving", "parent"} /\ title' \in {title, "asking"}
      /\ summary' \in {summary, "writing"}
  BY <1>1
<1>6. SessionTypeOK'
  BY <1>2, <1>3, <1>5 DEF SessionInv, SessionTypeOK
<1>7. HoldersAreAtWork'
  BY <1>1, <1>3 DEF SessionInv, HoldersAreAtWork, Writers
<1>8. ~tangled' => SummaryStandsForAll'
  BY <1>1, <1>2, <1>3 DEF SessionInv, SummaryStandsForAll
<1> QED
  BY <1>2, <1>3, <1>4, <1>5, <1>6, <1>7, <1>8 DEF SessionInv

-----------------------------------------------------------------------------
(* Those who save it. *)

\* What the turn and its tasks add.
LEMMA ChargeStep == SessionInv /\ (UsageSave \/ TaskSave) => SessionInv'
<1> SUFFICES ASSUME SessionInv, UsageSave \/ TaskSave PROVE SessionInv'
  OBVIOUS
<1>1. PICK cost \in Nat :
      /\ Save("turn", [held["turn"] EXCEPT !.cost = @ + cost]) /\ charged' = charged + cost
      /\ turn \in {"saving", "parent"} /\ turn' \in {"tools", "idle"} /\ child' \in {0, child}
      /\ history' = history \/ (history' = {} /\ turn' = "idle")
      /\ UNCHANGED <<messages, title, summary, listed, turns, rounds, tasks, summaries,
                     covered, tangled>>
  <2>1. child \in Nat /\ 1 \in Nat
    BY DEF SessionInv, SessionTypeOK
  <2>2. CASE UsageSave
    BY <2>1, <2>2 DEF UsageSave, counted
  <2>3. CASE TaskSave
    BY <2>1, <2>3 DEF TaskSave, counted
  <2> QED
    BY <2>2, <2>3
<1> DEFINE changed == [held["turn"] EXCEPT !.cost = @ + cost]
<1>2. Holds("turn") /\ "turn" \in Writers /\ charged \in Nat
  BY <1>1 DEF SessionInv, HoldersAreAtWork, Writers, SessionTypeOK
<1>3. held["turn"] \in Row /\ held["turn"].cost <= charged /\ held["turn"].cost \in Nat
  BY <1>2, RowIsSomething DEF SessionInv, SessionTypeOK, Holds, NobodyOvercharges
<1>4. changed \in Row /\ changed.cost = held["turn"].cost + cost
      /\ changed.title = held["turn"].title /\ changed.summary = held["turn"].summary
  BY <1>3, ChangedRow
<1> HIDE DEF changed
<1>5. /\ row' = changed /\ held' \in [Writers -> Row \cup {NoRow}]
      /\ NobodyOvercharges'
      /\ ~tangled => CopiesAreCurrent'
      /\ ~Holds("turn")' /\ \A o \in Writers \ {"turn"} : Holds(o)' <=> Holds(o)
  <2>1. Save("turn", changed)
    BY <1>1 DEF changed
  <2>2. charged' \in Nat /\ charged <= charged' /\ changed.cost <= charged'
    BY <1>1, <1>2, <1>3, <1>4
  <2> QED
    BY <1>1, <1>2, <1>4, <2>1, <2>2, SaveKeeps
<1>6. SummariesEnd' /\ FirstTurnTitles'
  BY <1>1, MessagesKeep
<1>7. SessionTypeOK'
  BY <1>1, <1>2, <1>4, <1>5 DEF SessionInv, SessionTypeOK
<1>8. HoldersAreAtWork'
  BY <1>1, <1>5 DEF SessionInv, HoldersAreAtWork, Writers
<1>9. ASSUME ~tangled'
      PROVE  SummaryStandsForAll' /\ row'.cost = charged' /\ (title' = "done" => row'.title = "generated")
  <2>1. ~tangled /\ held["turn"] = row
    BY <1>1, <1>2, <1>9 DEF SessionInv, CopiesAreCurrent
  <2>2. row'.cost = charged' /\ row'.summary = row.summary /\ row'.title = row.title
    BY <1>1, <1>4, <1>5, <2>1 DEF SessionInv
  <2> QED
    BY <1>1, <2>1, <2>2 DEF SessionInv, SummaryStandsForAll
<1> QED
  BY <1>1, <1>5, <1>6, <1>7, <1>8, <1>9 DEF SessionInv

LEMMA TitleSaveStep == SessionInv /\ TitleSave => SessionInv'
<1> SUFFICES ASSUME SessionInv, TitleSave PROVE SessionInv'
  OBVIOUS
<1>1. /\ Save("title", [held["title"] EXCEPT !.title = "generated"])
      /\ title = "asking" /\ title' = "done"
      /\ UNCHANGED <<messages, child, turn, summary, listed, history, turns, rounds, tasks,
                     summaries, charged, covered, tangled>>
  BY DEF TitleSave, counted
<1> DEFINE changed == [held["title"] EXCEPT !.title = "generated"]
<1>2. Holds("title") /\ "title" \in Writers /\ charged \in Nat
  BY <1>1 DEF SessionInv, HoldersAreAtWork, Writers, SessionTypeOK
<1>3. held["title"] \in Row /\ held["title"].cost <= charged /\ held["title"].cost \in Nat
  BY <1>2, RowIsSomething DEF SessionInv, SessionTypeOK, Holds, NobodyOvercharges
<1>4. changed \in Row /\ changed.cost = held["title"].cost
      /\ changed.title = "generated" /\ changed.summary = held["title"].summary
  BY <1>3 DEF Row
<1> HIDE DEF changed
<1>5. /\ row' = changed /\ held' \in [Writers -> Row \cup {NoRow}]
      /\ NobodyOvercharges'
      /\ ~tangled => CopiesAreCurrent'
      /\ ~Holds("title")' /\ \A o \in Writers \ {"title"} : Holds(o)' <=> Holds(o)
  <2>1. Save("title", changed)
    BY <1>1 DEF changed
  <2>2. charged' \in Nat /\ charged <= charged' /\ changed.cost <= charged'
    BY <1>1, <1>2, <1>3, <1>4
  <2> QED
    BY <1>1, <1>2, <1>4, <2>1, <2>2, SaveKeeps
<1>6. SummariesEnd' /\ FirstTurnTitles'
  BY <1>1, MessagesKeep
<1>7. SessionTypeOK'
  BY <1>1, <1>4, <1>5 DEF SessionInv, SessionTypeOK
<1>8. HoldersAreAtWork'
  BY <1>1, <1>5 DEF SessionInv, HoldersAreAtWork, Writers
<1>9. ASSUME ~tangled'
      PROVE  SummaryStandsForAll' /\ row'.cost = charged' /\ (title' = "done" => row'.title = "generated")
  <2>1. ~tangled /\ held["title"] = row
    BY <1>1, <1>2, <1>9 DEF SessionInv, CopiesAreCurrent
  <2>2. row'.cost = charged' /\ row'.summary = row.summary /\ row'.title = "generated"
    BY <1>1, <1>4, <1>5, <2>1 DEF SessionInv
  <2> QED
    BY <1>1, <2>1, <2>2 DEF SessionInv, SummaryStandsForAll
<1> QED
  BY <1>1, <1>5, <1>6, <1>7, <1>8, <1>9 DEF SessionInv

LEMMA SummarySaveStep == SessionInv /\ SummarySave => SessionInv'
<1> SUFFICES ASSUME SessionInv, SummarySave PROVE SessionInv'
  OBVIOUS
<1>1. /\ Save("summary", [held["summary"] EXCEPT !.cost = @ + 1, !.summary = SummaryPosition])
      /\ summary = "saving" /\ summary' = "idle" /\ charged' = charged + 1 /\ covered' = 1..listed
      /\ UNCHANGED <<messages, child, turn, title, listed, history, turns, rounds, tasks,
                     summaries, tangled>>
  BY DEF SummarySave, counted
<1> DEFINE changed == [held["summary"] EXCEPT !.cost = @ + 1, !.summary = SummaryPosition]
<1>2. Holds("summary") /\ "summary" \in Writers /\ charged \in Nat /\ listed \in Nat
  BY <1>1 DEF SessionInv, HoldersAreAtWork, Writers, SessionTypeOK
<1>3. held["summary"] \in Row /\ held["summary"].cost <= charged /\ held["summary"].cost \in Nat
  BY <1>2, RowIsSomething DEF SessionInv, SessionTypeOK, Holds, NobodyOvercharges
<1>4. DOMAIN messages = 1..Len(messages) /\ Len(messages) \in Nat
  BY LenProperties DEF SessionInv, SessionTypeOK
<1>5. LastSummary(SummaryPosition) /\ SummaryPosition \in Nat
  <2>1. \E i \in DOMAIN messages : LastSummary(i)
    BY <1>1 DEF SessionInv, SummariesEnd
  <2>2. LastSummary(SummaryPosition)
    BY <2>1 DEF LastSummary, SummaryPosition
  <2> QED
    BY <1>4, <2>2 DEF LastSummary
<1>6. changed \in Row /\ changed.cost = held["summary"].cost + 1
      /\ changed.title = held["summary"].title /\ changed.summary = SummaryPosition
  BY <1>3, <1>5, ChangedRow
<1> HIDE DEF changed
<1>7. /\ row' = changed /\ held' \in [Writers -> Row \cup {NoRow}]
      /\ NobodyOvercharges'
      /\ ~tangled => CopiesAreCurrent'
      /\ ~Holds("summary")' /\ \A o \in Writers \ {"summary"} : Holds(o)' <=> Holds(o)
  <2>1. Save("summary", changed)
    BY <1>1 DEF changed
  <2>2. charged' \in Nat /\ charged <= charged' /\ changed.cost <= charged'
    BY <1>1, <1>2, <1>3, <1>6
  <2> QED
    BY <1>1, <1>2, <1>6, <2>1, <2>2, SaveKeeps
<1>8. SummariesEnd' /\ FirstTurnTitles'
  BY <1>1, MessagesKeep
<1>9. SessionTypeOK'
  BY <1>1, <1>2, <1>6, <1>7 DEF SessionInv, SessionTypeOK
<1>10. HoldersAreAtWork'
  BY <1>1, <1>7 DEF SessionInv, HoldersAreAtWork, Writers
<1>11. ASSUME ~tangled'
       PROVE  SummaryStandsForAll' /\ row'.cost = charged' /\ (title' = "done" => row'.title = "generated")
  <2>1. ~tangled /\ held["summary"] = row
    BY <1>1, <1>2, <1>11 DEF SessionInv, CopiesAreCurrent
  <2>2. /\ row'.cost = charged' /\ row'.title = row.title /\ row'.summary = SummaryPosition
    BY <1>1, <1>6, <1>7, <2>1 DEF SessionInv
  <2>3. turn = "idle" /\ listed + 1 = Len(messages) /\ messages[Len(messages)] = "summary"
    BY <1>1, <2>1 DEF SessionInv, SummaryStandsForAll
  <2>4. SummaryPosition = Len(messages)
    BY <1>2, <1>4, <1>5, <2>3 DEF LastSummary
  <2>5. \A i \in DOMAIN messages : i < Len(messages) => i \in 1..listed
    BY <1>2, <1>4, <2>3
  <2>6. SummaryStandsForAll'
    BY <1>1, <1>4, <2>2, <2>3, <2>4, <2>5 DEF SummaryStandsForAll
  <2> QED
    BY <1>1, <2>1, <2>2, <2>6 DEF SessionInv
<1> QED
  BY <1>1, <1>7, <1>8, <1>9, <1>10, <1>11 DEF SessionInv

-----------------------------------------------------------------------------
(* Those who give up. *)

LEMMA ForgetStep == SessionInv /\ (TurnEnds \/ TitleFails \/ SummaryFails) => SessionInv'
<1> SUFFICES ASSUME SessionInv, TurnEnds \/ TitleFails \/ SummaryFails PROVE SessionInv'
  OBVIOUS
<1>1. PICK w \in Writers :
      /\ Forget(w)
      /\ CASE w = "turn" -> turn' = "idle" /\ UNCHANGED <<title, summary>>
           [] w = "title" -> title = "asking" /\ title' = "failed" /\ UNCHANGED <<turn, summary>>
           [] OTHER -> summary' = "idle" /\ UNCHANGED <<turn, title>>
  BY DEF TurnEnds, TitleFails, SummaryFails, Writers
<1>2. /\ child' \in {0, child} /\ history' \in {history, {}} /\ (history' # history => turn' = "idle")
      /\ UNCHANGED <<messages, listed, turns, rounds, tasks, summaries, charged, covered, tangled>>
  <2>1. CASE TurnEnds
    BY <2>1 DEF TurnEnds, counted
  <2>2. CASE TitleFails \/ SummaryFails
    BY <2>2 DEF TitleFails, SummaryFails, counted
  <2> QED
    BY <2>1, <2>2
<1>3. /\ row' = row /\ held' \in [Writers -> Row \cup {NoRow}]
      /\ NobodyOvercharges'
      /\ ~tangled => CopiesAreCurrent'
      /\ ~Holds(w)' /\ \A o \in Writers \ {w} : Holds(o)' <=> Holds(o)
  BY <1>1, <1>2, ForgetKeeps
<1>4. SummariesEnd' /\ FirstTurnTitles'
  BY <1>1, <1>2, MessagesKeep
<1>5. turn' \in {turn, "idle"} /\ title' \in {title, "failed"} /\ summary' \in {summary, "idle"}
  BY <1>1
<1>6. SessionTypeOK'
  BY <1>2, <1>3, <1>5 DEF SessionInv, SessionTypeOK
<1>7. HoldersAreAtWork'
  BY <1>1, <1>3 DEF SessionInv, HoldersAreAtWork, Writers
<1>8. ~tangled' => SummaryStandsForAll'
  BY <1>1, <1>2, <1>3 DEF SessionInv, SummaryStandsForAll
<1> QED
  BY <1>2, <1>3, <1>4, <1>5, <1>6, <1>7, <1>8 DEF SessionInv

-----------------------------------------------------------------------------

LEMMA StepInvariant == SessionInv /\ [SessionNext]_sessionVars => SessionInv'
<1> SUFFICES ASSUME SessionInv, [SessionNext]_sessionVars PROVE SessionInv'
  OBVIOUS
<1>1. CASE UNCHANGED sessionVars
  <2>1. UNCHANGED <<row, messages, child, turn, title, summary, held, listed, history, turns,
                    rounds, tasks, summaries, charged, covered, tangled>>
    BY <1>1 DEF sessionVars, writing, counted
  <2>2. SummariesEnd' /\ FirstTurnTitles'
    BY <2>1, MessagesKeep
  <2>3. /\ NobodyOvercharges' /\ (~tangled' => CopiesAreCurrent')
        /\ \A w \in Writers : Holds(w)' <=> Holds(w)
    BY <2>1, CopiesKeep
  <2>4. SessionTypeOK' /\ HoldersAreAtWork'
    BY <2>1, <2>3 DEF SessionInv, SessionTypeOK, HoldersAreAtWork, Writers
  <2>5. ~tangled' => SummaryStandsForAll'
    BY <2>1 DEF SessionInv, SummaryStandsForAll
  <2> QED
    BY <2>1, <2>2, <2>3, <2>4, <2>5 DEF SessionInv
<1> QED
  BY <1>1, BeginStep, TurnSaysStep, TaskStep, SummaryListStep, SummaryMessageStep, GetStep,
     ChargeStep, TitleSaveStep, SummarySaveStep, ForgetStep DEF SessionNext

(* The inductive invariant holds of every conversation. *)
THEOREM SessionInvariance == SessionSpec => []SessionInv
<1>1. SessionInv /\ [SessionNext]_sessionVars => SessionInv'
  BY StepInvariant
<1> QED
  BY <1>1, SessionInitInvariant, PTL DEF SessionSpec

(* Every variable of the session keeps its type. *)
THEOREM SessionTypeCorrect == SessionSpec => []SessionTypeOK
<1>1. SessionInv => SessionTypeOK
  BY DEF SessionInv
<1> QED
  BY <1>1, SessionInvariance, PTL

(* Nobody is charged twice, and writers that do not overlap lose nothing, for
   any number of turns, tasks and summaries. *)
THEOREM KeepsAll == SessionSpec => []SessionKeepsAll
<1>1. SessionInv => SessionKeepsAll
  BY DEF SessionInv, NobodyOvercharges, SummaryStandsForAll, SessionKeepsAll
<1> QED
  BY <1>1, SessionInvariance, PTL

-----------------------------------------------------------------------------
(* The settings and their file. *)

\* A file, or a copy of it, has all that was acknowledged but for what is lost.
Tells(f, lost) == \A s \in Settable \ lost : kept[s] # Unset => Value(f, s) = kept[s]

\* What an update has read and will write back has what the file has.
Rewrites(u) == u.at \in {"truncate", "write"}
CopiesTellAll ==
    \A w \in ConfigWriters :
        Rewrites(work[w]) => Tells(work[w].copy, doubt \cup work[w].missed)

\* An update has a setting to change, and its value, until all are done.
Named(u) == u.at # "idle" /\ u.k # 5 => u.wish[Order[u.k]] # Unset
UpdatesAreNamed == \A w \in ConfigWriters : Named(work[w])

SettingsInv ==
    /\ SettingsTypeOK /\ AcknowledgedIsKept
    /\ CopiesTellAll /\ UpdatesAreNamed

-----------------------------------------------------------------------------
(* The operators of the model. *)

May(s, v) == IF s = "model" THEN v \in Models ELSE v \in SettingTexts

(* What a request wants of a setting it names is of that setting's kind. *)
LEMMA WishesAreTyped ==
  ASSUME NEW wish \in Wished, NEW j \in 1..4, wish[Order[j]] # Unset
  PROVE  Order[j] \in Settable /\ May(Order[j], wish[Order[j]])
<1>1. CASE j = 1
  BY <1>1 DEF Order, Settable, May, Wished
<1>2. CASE j = 2
  BY <1>2 DEF Order, Settable, May, Wished
<1>3. CASE j = 3
  BY <1>3 DEF Order, Settable, May, Wished
<1>4. CASE j = 4
  BY <1>4 DEF Order, Settable, May, Wished
<1> QED
  BY <1>1, <1>2, <1>3, <1>4

(* Put changes one setting and no other that is set. *)
LEMMA PutChangesOne ==
  ASSUME NEW f \in Contents, NEW s \in Settable, NEW v, May(s, v)
  PROVE  /\ Put(f, s, v) \in Contents
         /\ Value(Put(f, s, v), s) = v
         /\ \A t \in Settable \ {s} :
               Value(f, t) # Unset => Value(Put(f, s, v), t) = Value(f, t)
<1> DEFINE e == Existing(f)
<1>1. e \in Entries
  <2>1. f.entry \in Entries \cup {Unset}
    BY DEF Contents
  <2>2. Entry(NoText, NoText) \in Entries
    BY SettingsAssumption DEF Entry, Entries
  <2> QED
    BY <2>1, <2>2 DEF Existing
<1>2. f.entry # Unset => e = f.entry
  BY DEF Existing
<1>3. CASE s = "key"
  <2> DEFINE n == [e EXCEPT !.key = v]
  <2>1. Put(f, s, v) = [f EXCEPT !.entry = n]
    BY <1>3 DEF Put
  <2>2. n \in Entries /\ n.key = v /\ n.url = e.url
    BY <1>1, <1>3 DEF Entries, May
  <2>3. n # Unset
    BY <2>2, SettingsAssumption
  <2> HIDE DEF n, e
  <2>4. /\ Put(f, s, v) \in Contents /\ Put(f, s, v).entry = n
        /\ Put(f, s, v).model = f.model /\ Put(f, s, v).theme = f.theme
    BY <2>1, <2>2 DEF Contents
  <2> QED
    BY <1>2, <1>3, <2>2, <2>3, <2>4 DEF Value, Settable
<1>4. CASE s = "url"
  <2> DEFINE n == [e EXCEPT !.url = v]
  <2>1. Put(f, s, v) = [f EXCEPT !.entry = n]
    BY <1>4 DEF Put
  <2>2. n \in Entries /\ n.url = v /\ n.key = e.key
    BY <1>1, <1>4 DEF Entries, May
  <2>3. n # Unset
    BY <2>2, SettingsAssumption
  <2> HIDE DEF n, e
  <2>4. /\ Put(f, s, v) \in Contents /\ Put(f, s, v).entry = n
        /\ Put(f, s, v).model = f.model /\ Put(f, s, v).theme = f.theme
    BY <2>1, <2>2 DEF Contents
  <2> QED
    BY <1>2, <1>4, <2>2, <2>3, <2>4 DEF Value, Settable
<1>5. CASE s = "model"
  <2>1. Put(f, s, v) = [f EXCEPT !.model = v] /\ v \in Models
    BY <1>5 DEF Put, May
  <2>2. /\ Put(f, s, v) \in Contents /\ Put(f, s, v).entry = f.entry
        /\ Put(f, s, v).model = v /\ Put(f, s, v).theme = f.theme
    BY <2>1 DEF Contents
  <2> QED
    BY <1>5, <2>2 DEF Value, Settable
<1>6. CASE s = "theme"
  <2>1. Put(f, s, v) = [f EXCEPT !.theme = v] /\ v \in SettingTexts
    BY <1>6 DEF Put, May
  <2>2. /\ Put(f, s, v) \in Contents /\ Put(f, s, v).entry = f.entry
        /\ Put(f, s, v).model = f.model /\ Put(f, s, v).theme = v
    BY <2>1 DEF Contents
  <2> QED
    BY <1>6, <2>2 DEF Value, Settable
<1> QED
  BY <1>3, <1>4, <1>5, <1>6 DEF Settable

(* The next setting is one the request names, or there is none. *)
LEMMA DoingIsNamed ==
  ASSUME NEW wish \in Wished, NEW j \in 1..5
  PROVE  /\ Doing(wish, j) \in [at : {"next"}, wish : Wished, k : 1..5]
         /\ Named(Doing(wish, j))
<1> DEFINE named == {i \in j..4 : wish[Order[i]] # Unset}
           m == Min(named \cup {5})
<1>1. m \in named \cup {5}
  <2>1. \A n \in 1..5 : n \in named \cup {5} =>
           \E x \in named \cup {5} : \A y \in named \cup {5} : x =< y
    <3>1. named \cup {5} \subseteq 1..5 /\ 5 \in named \cup {5}
      OBVIOUS
    <3> HIDE DEF named
    <3>2. \E x \in named \cup {5} : \A y \in named \cup {5} : x =< y
      <4>1. CASE 1 \in named
        BY <3>1, <4>1
      <4>2. CASE 1 \notin named /\ 2 \in named
        BY <3>1, <4>2
      <4>3. CASE 1 \notin named /\ 2 \notin named /\ 3 \in named
        BY <3>1, <4>3
      <4>4. CASE 1 \notin named /\ 2 \notin named /\ 3 \notin named /\ 4 \in named
        BY <3>1, <4>4
      <4>5. CASE 1 \notin named /\ 2 \notin named /\ 3 \notin named /\ 4 \notin named
        BY <3>1, <4>5
      <4> QED
        BY <4>1, <4>2, <4>3, <4>4, <4>5
    <3> QED
      BY <3>2
  <2> HIDE DEF named
  <2> QED
    BY <2>1 DEF Min
<1>2. m \in 1..5 /\ (m # 5 => wish[Order[m]] # Unset)
  BY <1>1
<1>3. Doing(wish, j) = [at |-> "next", wish |-> wish, k |-> m]
  BY DEF Doing
<1> HIDE DEF m
<1> QED
  BY <1>2, <1>3 DEF Named
-----------------------------------------------------------------------------
LEMMA SettingsInit == ConfigInit => SettingsInv
<1> SUFFICES ASSUME ConfigInit PROVE SettingsInv
  OBVIOUS
<1>1. SettingsTypeOK
  <2>1. cfg \in Copies
    BY DEF ConfigInit, Unloaded, Copies
  <2>2. work \in [ConfigWriters -> Updates]
    BY DEF ConfigInit, Updates
  <2>3. file \in Contents \cup {Absent, Empty, Torn}
    BY SettingsAssumption DEF ConfigInit, SettingsAssumption
  <2>4. requests \in 0..MaxRequests /\ configStarts \in 0..ConfigMaxStarts
    BY SettingsAssumption DEF ConfigInit, SettingsAssumption
  <2>5. kept \in [Settable -> SettingTexts \cup Models \cup {Unset}]
    BY DEF ConfigInit
  <2>6. /\ front = "none" /\ configFile = FALSE /\ env \in BOOLEAN /\ configClient = Unset
        /\ doubt = {}
    BY DEF ConfigInit
  <2> QED
    BY <2>1, <2>2, <2>3, <2>4, <2>5, <2>6 DEF SettingsTypeOK
<1>2. AcknowledgedIsKept
  BY DEF ConfigInit, AcknowledgedIsKept
<1>3. \A w \in ConfigWriters : work[w].at = "idle"
  BY DEF ConfigInit, WriterIdle
<1>4. CopiesTellAll /\ UpdatesAreNamed
  BY <1>3 DEF CopiesTellAll, Rewrites, UpdatesAreNamed, Named
<1> QED
  BY <1>1, <1>2, <1>4 DEF SettingsInv

(* An update that goes on with what it has leaves the others and the file alone. *)
LEMMA UpdateGoesOn ==
  ASSUME SettingsInv, NEW w \in ConfigWriters, NEW u \in Updates, Named(u),
         Becomes(w, u), UNCHANGED acknowledged,
         Rewrites(u) => Tells(u.copy, doubt \cup u.missed)
  PROVE  /\ work' \in [ConfigWriters -> Updates]
         /\ CopiesTellAll' /\ UpdatesAreNamed'
<1>1. work \in [ConfigWriters -> Updates]
  BY DEF SettingsInv, SettingsTypeOK
<1>2. work' = [work EXCEPT ![w] = u] /\ kept' = kept /\ doubt' = doubt
  BY DEF Becomes, acknowledged
<1>3. \A v \in ConfigWriters : work'[v] = IF v = w THEN u ELSE work[v]
  BY <1>1, <1>2
<1>4. work' \in [ConfigWriters -> Updates]
  BY <1>1, <1>2
<1>5. CopiesTellAll'
  BY <1>2, <1>3 DEF SettingsInv, CopiesTellAll, Tells
<1>6. UpdatesAreNamed'
  BY <1>3 DEF SettingsInv, UpdatesAreNamed
<1> QED
  BY <1>4, <1>5, <1>6

(* Unless it rewrites the file an update has nothing that others can spoil. *)
LEMMA PlainUpdates ==
  /\ WriterIdle \in Updates /\ Named(WriterIdle) /\ ~Rewrites(WriterIdle)
  /\ \A wish \in Wished, j \in 1..5 :
        /\ Doing(wish, j) \in Updates /\ Named(Doing(wish, j))
        /\ ~Rewrites(Doing(wish, j))
<1>1. WriterIdle \in Updates /\ Named(WriterIdle) /\ ~Rewrites(WriterIdle)
  BY DEF WriterIdle, Updates, Named, Rewrites
<1>2. ASSUME NEW wish \in Wished, NEW j \in 1..5
      PROVE  /\ Doing(wish, j) \in Updates /\ Named(Doing(wish, j))
             /\ ~Rewrites(Doing(wish, j))
  BY DoingIsNamed DEF Updates, Rewrites
<1> QED
  BY <1>1, <1>2

(* The settings of an update under way. *)
LEMMA UnderWay ==
  ASSUME SettingsInv, NEW w \in ConfigWriters, work[w].at # "idle"
  PROVE  /\ work[w].wish \in Wished /\ work[w].k \in 1..5
         /\ work[w].at \in {"read", "truncate", "write"} => work[w].k # 5
         /\ work[w].k # 5 =>
               /\ work[w].k + 1 \in 1..5
               /\ Setting(w) \in Settable /\ May(Setting(w), Wish(w))
               /\ Wish(w) # Unset
         /\ Rewrites(work[w]) =>
               /\ work[w].copy \in Contents /\ work[w].missed \subseteq Settable
               /\ Tells(work[w].copy, doubt \cup work[w].missed)
<1>1. work[w] \in Updates /\ Named(work[w])
  BY DEF SettingsInv, SettingsTypeOK, UpdatesAreNamed
<1>2. work[w] # WriterIdle
  BY DEF WriterIdle
<1>3. /\ work[w].wish \in Wished /\ work[w].k \in 1..5
      /\ work[w].at \in {"read", "truncate", "write"} => work[w].k # 5
      /\ Rewrites(work[w]) => work[w].copy \in Contents /\ work[w].missed \subseteq Settable
  <2>1. CASE work[w] \in [at : {"next"}, wish : Wished, k : 1..5]
    BY <2>1 DEF Rewrites
  <2>2. CASE work[w] \in [at : {"read"}, wish : Wished, k : 1..4]
    BY <2>2 DEF Rewrites
  <2>3. CASE work[w] \in [at : {"truncate", "write"}, wish : Wished, k : 1..4,
                          copy : Contents, missed : SUBSET Settable]
    BY <2>3 DEF Rewrites
  <2> QED
    BY <1>1, <1>2, <2>1, <2>2, <2>3 DEF Updates
<1>4. ASSUME work[w].k # 5
      PROVE  /\ work[w].k + 1 \in 1..5
             /\ Setting(w) \in Settable /\ May(Setting(w), Wish(w))
             /\ Wish(w) # Unset
  <2>1. work[w].k \in 1..4
    BY <1>3, <1>4
  <2>2. work[w].wish[Order[work[w].k]] # Unset
    BY <1>1, <1>4 DEF Named
  <2>3. Wish(w) = work[w].wish[Order[work[w].k]] /\ Setting(w) = Order[work[w].k]
    BY DEF Wish, Setting
  <2> QED
    BY <1>3, <2>1, <2>2, <2>3, WishesAreTyped
<1>5. Rewrites(work[w]) => Tells(work[w].copy, doubt \cup work[w].missed)
  BY DEF SettingsInv, CopiesTellAll
<1> QED
  BY <1>3, <1>4, <1>5

-----------------------------------------------------------------------------
(* Each action keeps the invariant. *)

(* What is in memory, or counted, does not bear on what was acknowledged. *)
LEMMA FileStays ==
  ASSUME SettingsInv, UNCHANGED <<file, acknowledged>>
  PROVE  AcknowledgedIsKept' /\ kept' = kept /\ doubt' = doubt
BY DEF SettingsInv, acknowledged, AcknowledgedIsKept, Value

LEMMA UpdatesStay ==
  ASSUME SettingsInv, work' = work, kept' = kept, doubt' = doubt
  PROVE  CopiesTellAll' /\ UpdatesAreNamed'
BY DEF SettingsInv, CopiesTellAll, Tells, UpdatesAreNamed

LEMMA ValidatedIsModel ==
  ASSUME NEW m, NEW e, NEW off
  PROVE  Validated(m, e, off) \in Models \cup {"error"}
BY DEF Validated, Models

LEMMA NewClientIsModel ==
  ASSUME NEW c \in Copies
  PROVE  NewClient(c) \in Models \cup {Unset}
BY DEF NewClient, Copies

LEMMA LoadedIsCopy ==
  ASSUME NEW f \in Contents
  PROVE  Loaded(f) \in Copies
<1> DEFINE wanted == IF f.model = Unset THEN Default(f.entry) ELSE f.model
           valid == IF wanted = Unset THEN Unset ELSE Validated(wanted, f.entry, FALSE)
           m == IF valid = "error" THEN wanted ELSE valid
           off == valid # "error" /\ f.entry # Unset /\ ~HasKey(f.entry)
<1>1. wanted \in Models \cup {Unset}
  BY DEF Default, Models, Contents
<1>2. valid = Unset \/ valid \in Models \cup {"error"}
  BY ValidatedIsModel
<1>3. m \in Models \cup {Unset}
  BY <1>1, <1>2
<1>4. Loaded(f) = [loaded |-> TRUE, model |-> m, entry |-> f.entry, off |-> off,
                   theme |-> f.theme]
  BY DEF Loaded
<1>5. off \in BOOLEAN
  OBVIOUS
<1>6. f.entry \in Entries \cup {Unset} /\ f.theme \in SettingTexts \cup {Unset}
  BY DEF Contents
<1> HIDE DEF m, off
<1> QED
  BY <1>3, <1>4, <1>5, <1>6 DEF Copies

LEMMA StartKeeps ==
  ASSUME SettingsInv, NEW how \in {"bridge", "terminal"}, Start(how)
  PROVE  SettingsInv'
<1>1. Unloaded \in Copies /\ Blank \in Contents
  BY DEF Unloaded, Copies, Blank, FileHolds, Contents
<1>2. cfg' \in Copies
  <2>1. file.kind = "json" => file \in Contents
    BY DEF SettingsInv, SettingsTypeOK, Absent, Empty, Torn
  <2>2. cfg' \in {Loaded(file), Loaded(Blank), Unloaded}
           /\ (cfg' = Loaded(file) => cfg' \in Copies)
    BY <1>1, <2>1, LoadedIsCopy DEF Start
  <2> QED
    BY <1>1, <2>2, LoadedIsCopy
<1>3. configClient' \in Models \cup {Unset}
  BY <1>2, NewClientIsModel DEF Start
<1>4. configStarts' \in 0..ConfigMaxStarts
  BY SettingsAssumption DEF Start, SettingsInv, SettingsTypeOK
<1>5. AcknowledgedIsKept' /\ kept' = kept /\ doubt' = doubt
  BY FileStays DEF Start
<1>6. SettingsTypeOK'
  BY <1>2, <1>3, <1>4, <1>5 DEF Start, SettingsInv, SettingsTypeOK
<1>7. CopiesTellAll' /\ UpdatesAreNamed'
  BY <1>5, UpdatesStay DEF Start
<1> QED
  BY <1>5, <1>6, <1>7 DEF SettingsInv

LEMMA RequestKeeps ==
  ASSUME SettingsInv, NEW w \in ConfigWriters, UpdateRequest(w)
  PROVE  SettingsInv'
<1>1. PICK wish \in Wished : BeginUpdate(w, wish)
  <2>1. Wishes \subseteq Wished /\ Dialogs \subseteq Wished
    BY SettingsAssumption DEF Wishes, Dialogs, Wished, Models
  <2> QED
    BY <2>1 DEF UpdateRequest
<1>2. requests' \in 0..MaxRequests
  BY <1>1, SettingsAssumption DEF BeginUpdate, SettingsInv, SettingsTypeOK
<1>3. /\ work' \in [ConfigWriters -> Updates]
      /\ CopiesTellAll' /\ UpdatesAreNamed'
  <2>1. Doing(wish, 1) \in Updates /\ Named(Doing(wish, 1)) /\ ~Rewrites(Doing(wish, 1))
    BY PlainUpdates, 1 \in 1..5
  <2> QED
    BY <1>1, <2>1, UpdateGoesOn DEF BeginUpdate
<1>4. AcknowledgedIsKept' /\ kept' = kept /\ doubt' = doubt
  BY <1>1, FileStays DEF BeginUpdate
<1>5. SettingsTypeOK'
  BY <1>1, <1>2, <1>3, <1>4 DEF BeginUpdate, memory, SettingsInv, SettingsTypeOK
<1> QED
  BY <1>3, <1>4, <1>5 DEF SettingsInv

(* An update that fails goes on with the next setting, or ends. *)
LEMMA FailingIsPlain ==
  ASSUME SettingsInv, NEW w \in ConfigWriters, work[w].at # "idle", work[w].k # 5, Fails(w)
  PROVE  \E u \in Updates : Becomes(w, u) /\ Named(u) /\ ~Rewrites(u)
<1>1. work[w].wish \in Wished /\ work[w].k + 1 \in 1..5
  BY UnderWay
<1>2. CASE Setting(w) = "key"
  BY <1>1, <1>2, PlainUpdates DEF Fails, GoOn
<1>3. CASE Setting(w) # "key"
  BY <1>3, PlainUpdates DEF Fails
<1> QED
  BY <1>2, <1>3

LEMMA ChangedIsCopy ==
  ASSUME NEW s \in Settable, NEW v, May(s, v), cfg \in Copies, ~Rejected(s, v)
  PROVE  Changed(s, v) \in Copies
<1>1. CASE s \in {"key", "url"}
  <2>1. cfg.entry \in Entries
    BY <1>1 DEF Rejected, Copies
  <2>2. [cfg.entry EXCEPT !.key = v] \in Entries /\ [cfg.entry EXCEPT !.url = v] \in Entries
    BY <1>1, <2>1 DEF May, Entries
  <2>3. CASE s = "key"
    BY <2>2, <2>3 DEF Changed, Copies
  <2>4. CASE s = "url"
    BY <2>2, <2>4 DEF Changed, Copies
  <2> QED
    BY <1>1, <2>3, <2>4
<1>2. CASE s = "model"
  <2>1. Validated(v, cfg.entry, cfg.off) \in Models
    BY <1>2, ValidatedIsModel DEF Rejected
  <2> QED
    BY <1>2, <2>1 DEF Changed, Copies
<1>3. CASE s = "theme"
  BY <1>3 DEF Changed, Copies, May
<1> QED
  BY <1>1, <1>2, <1>3 DEF Settable

LEMMA ChangeKeeps ==
  ASSUME SettingsInv, NEW w \in ConfigWriters, Change(w)
  PROVE  SettingsInv'
<1>a. work[w].at = "next" /\ work[w].k <= 4
  BY DEF Change, At
<1>b. work[w].k \in 1..5
  BY <1>a, UnderWay
<1>1. work[w].at = "next" /\ work[w].k \in 1..4 /\ work[w].k # 5
  BY <1>a, <1>b
<1>2. PICK u \in Updates : Becomes(w, u) /\ Named(u) /\ ~Rewrites(u)
  <2>1. CASE Rejected(Setting(w), Wish(w))
    BY <1>1, <2>1, FailingIsPlain DEF Change
  <2>2. CASE ~Rejected(Setting(w), Wish(w))
    <3> DEFINE u == [work[w] EXCEPT !.at = "read"]
    <3>1. work[w] \in [at : {"next"}, wish : Wished, k : 1..5]
      BY <1>1 DEF SettingsInv, SettingsTypeOK, Updates, WriterIdle
    <3>2. u \in [at : {"read"}, wish : Wished, k : 1..4] /\ u.wish = work[w].wish /\ u.k = work[w].k
      BY <1>1, <3>1
    <3>3. Named(u) /\ ~Rewrites(u)
      BY <1>1, <3>2, UnderWay DEF Named, Rewrites, Wish, Setting
    <3> QED
      BY <2>2, <3>2, <3>3 DEF Change, Updates
  <2> QED
    BY <2>1, <2>2
<1>3. cfg' \in Copies
  <2>1. Setting(w) \in Settable /\ May(Setting(w), Wish(w))
    BY <1>1, UnderWay
  <2>2. cfg \in Copies
    BY DEF SettingsInv, SettingsTypeOK
  <2> QED
    BY <2>1, <2>2, ChangedIsCopy DEF Change
<1>4. AcknowledgedIsKept' /\ kept' = kept /\ doubt' = doubt
  BY FileStays DEF Change
<1>5. /\ work' \in [ConfigWriters -> Updates]
      /\ CopiesTellAll' /\ UpdatesAreNamed'
  BY <1>2, UpdateGoesOn DEF Change
<1>6. SettingsTypeOK'
  BY <1>3, <1>4, <1>5 DEF Change, SettingsInv, SettingsTypeOK
<1> QED
  BY <1>4, <1>5, <1>6 DEF SettingsInv

(* What is read is what was acknowledged, or everything is given up for lost. *)
LEMMA ReadKeeps ==
  ASSUME SettingsInv, NEW w \in ConfigWriters, Read(w)
  PROVE  SettingsInv'
<1>1. work[w].at = "read"
  BY DEF Read, At
<1>2. work[w].wish \in Wished /\ work[w].k \in 1..4 /\ work[w].k # 5
  <2>1. work[w].wish \in Wished /\ work[w].k \in 1..5 /\ work[w].k # 5
    BY <1>1, UnderWay
  <2> QED
    BY <2>1
<1>3. PICK u \in Updates :
         Becomes(w, u) /\ Named(u) /\ (Rewrites(u) => Tells(u.copy, doubt \cup u.missed))
  <2>1. CASE configFile /\ file.kind # "json"
    BY <1>1, <1>2, <2>1, FailingIsPlain DEF Read
  <2>2. CASE ~(configFile /\ file.kind # "json")
    <3> DEFINE copy == IF configFile THEN file ELSE Blank
               missed == IF configFile THEN {} ELSE {s \in Settable : kept[s] # Unset}
               u == [at |-> "truncate", wish |-> work[w].wish, k |-> work[w].k,
                     copy |-> copy, missed |-> missed]
    <3>1. Becomes(w, u)
      BY <2>2 DEF Read
    <3>2. copy \in Contents
      <4>1. Blank \in Contents
        BY DEF Blank, FileHolds, Contents
      <4>2. configFile => file \in Contents
        BY <2>2 DEF SettingsInv, SettingsTypeOK, Absent, Empty, Torn
      <4> QED
        BY <4>1, <4>2
    <3>3. missed \subseteq Settable
      OBVIOUS
    <3>4. Tells(copy, doubt \cup missed)
      BY <2>2 DEF Tells, SettingsInv, AcknowledgedIsKept
    <3> HIDE DEF copy, missed
    <3>5. u \in Updates
      BY <1>2, <3>2, <3>3 DEF Updates
    <3>6. Named(u)
      BY <1>1, <1>2, UnderWay DEF Named, Wish, Setting
    <3> QED
      BY <3>1, <3>4, <3>5, <3>6
  <2> QED
    BY <2>1, <2>2
<1>4. AcknowledgedIsKept' /\ kept' = kept /\ doubt' = doubt
  BY FileStays DEF Read
<1>5. /\ work' \in [ConfigWriters -> Updates]
      /\ CopiesTellAll' /\ UpdatesAreNamed'
  BY <1>3, UpdateGoesOn DEF Read
<1>6. SettingsTypeOK'
  BY <1>4, <1>5 DEF Read, memory, SettingsInv, SettingsTypeOK
<1> QED
  BY <1>4, <1>5, <1>6 DEF SettingsInv

LEMMA TruncateKeeps ==
  ASSUME SettingsInv, NEW w \in ConfigWriters, Truncate(w)
  PROVE  SettingsInv'
<1> DEFINE u == [work[w] EXCEPT !.at = "write"]
<1>1. work[w].at = "truncate" /\ Rewrites(work[w])
  BY DEF Truncate, At, Rewrites
<1>2. work[w] \in [at : {"truncate", "write"}, wish : Wished, k : 1..4, copy : Contents,
                   missed : SUBSET Settable]
  BY <1>1 DEF SettingsInv, SettingsTypeOK, Updates, WriterIdle
<1>3. /\ u \in Updates /\ u.at = "write" /\ u.wish = work[w].wish /\ u.k = work[w].k
      /\ u.copy = work[w].copy /\ u.missed = work[w].missed
  BY <1>2 DEF Updates
<1>4. Named(u)
  BY <1>1, <1>2, <1>3 DEF Named, SettingsInv, UpdatesAreNamed
<1>5. Tells(u.copy, doubt \cup u.missed)
  BY <1>1, <1>3 DEF SettingsInv, CopiesTellAll
<1>6. /\ work' \in [ConfigWriters -> Updates]
      /\ CopiesTellAll' /\ UpdatesAreNamed'
  BY <1>3, <1>4, <1>5, UpdateGoesOn DEF Truncate
<1>7. file' = Empty /\ kept' = kept /\ doubt' = doubt
  BY DEF Truncate, acknowledged
<1>8. AcknowledgedIsKept'
  BY <1>7 DEF AcknowledgedIsKept, Empty
<1>9. SettingsTypeOK'
  BY <1>6, <1>7 DEF Truncate, memory, SettingsInv, SettingsTypeOK
<1> QED
  BY <1>6, <1>8, <1>9 DEF SettingsInv

(* What is written tells all but what this update has missed; and whoever still has a
   copy to write has missed this one. *)
LEMMA WriteKeeps ==
  ASSUME SettingsInv, NEW w \in ConfigWriters, Write(w)
  PROVE  SettingsInv'
<1> DEFINE s == Setting(w)
           v == Wish(w)
           new == Put(work[w].copy, s, v)
           Late(u) == [u EXCEPT !.missed = @ \cup {s}]
<1>1. work[w].at = "write" /\ Rewrites(work[w])
  BY DEF Write, At, Rewrites
<1>2. /\ work[w].wish \in Wished /\ work[w].k + 1 \in 1..5
      /\ s \in Settable /\ May(s, v) /\ v # Unset
      /\ work[w].copy \in Contents /\ work[w].missed \subseteq Settable
      /\ Tells(work[w].copy, doubt \cup work[w].missed)
  BY <1>1, UnderWay
<1>3. /\ kept' = [kept EXCEPT ![s] = v]
      /\ doubt' = (doubt \cup work[w].missed) \ {s}
      /\ file' \in {new, Torn}
  BY DEF Write
<1>4. /\ new \in Contents /\ Value(new, s) = v
      /\ \A t \in Settable \ {s} :
            Value(work[w].copy, t) # Unset => Value(new, t) = Value(work[w].copy, t)
  BY <1>2, PutChangesOne
<1>5. /\ work' = [u \in ConfigWriters |->
                    IF u = w THEN Doing(work[w].wish, work[w].k + 1)
                    ELSE IF Rewrites(work[u]) THEN Late(work[u]) ELSE work[u]]
  BY DEF Write, Rewrites
<1> HIDE DEF s, v, new
<1>6. kept \in [Settable -> SettingTexts \cup Models \cup {Unset}] /\ doubt \subseteq Settable
  BY DEF SettingsInv, SettingsTypeOK
<1>7. kept' \in [Settable -> SettingTexts \cup Models \cup {Unset}] /\ doubt' \subseteq Settable
  BY <1>2, <1>3, <1>6 DEF May
<1>8. kept'[s] = v /\ \A t \in Settable \ {s} : kept'[t] = kept[t]
  BY <1>2, <1>3, <1>6
<1>9. AcknowledgedIsKept'
  <2>1. \A t \in Settable \ doubt' : kept'[t] # Unset => Value(new, t) = kept'[t]
    <3> SUFFICES ASSUME NEW t \in Settable \ doubt', kept'[t] # Unset
                 PROVE  Value(new, t) = kept'[t]
      OBVIOUS
    <3>1. CASE t = s
      BY <1>4, <1>8, <3>1
    <3>2. CASE t # s
      <4>1. t \in Settable \ (doubt \cup work[w].missed) /\ kept[t] # Unset
        BY <1>3, <1>8, <3>2
      <4>2. Value(work[w].copy, t) = kept[t]
        BY <1>2, <4>1 DEF Tells
      <4> QED
        BY <1>4, <1>8, <3>2, <4>1, <4>2
    <3> QED
      BY <3>1, <3>2
  <2>2. CASE file' = new
    BY <2>1, <2>2 DEF AcknowledgedIsKept
  <2>3. CASE file' = Torn
    BY <2>3 DEF AcknowledgedIsKept, Torn
  <2> QED
    BY <1>3, <2>2, <2>3
<1>10. ASSUME NEW u \in ConfigWriters
       PROVE  /\ work'[u] \in Updates /\ Named(work'[u])
              /\ Rewrites(work'[u]) =>
                    \A t \in Settable \ (doubt' \cup work'[u].missed) :
                       kept'[t] # Unset => Value(work'[u].copy, t) = kept'[t]
  <2>1. CASE u = w
    <3>1. work'[u] = Doing(work[w].wish, work[w].k + 1)
      BY <1>5, <2>1
    <3> QED
      BY <1>2, <3>1, PlainUpdates
  <2>2. CASE u # w /\ ~Rewrites(work[u])
    <3>1. work'[u] = work[u]
      BY <1>5, <2>2
    <3> QED
      BY <2>2, <3>1 DEF SettingsInv, SettingsTypeOK, UpdatesAreNamed
  <2>3. CASE u # w /\ Rewrites(work[u])
    <3>1. work'[u] = Late(work[u])
      BY <1>5, <2>3
    <3>2. work[u] \in [at : {"truncate", "write"}, wish : Wished, k : 1..4, copy : Contents,
                       missed : SUBSET Settable]
      BY <2>3 DEF SettingsInv, SettingsTypeOK, Updates, WriterIdle, Rewrites
    <3>3. /\ work'[u] \in [at : {"truncate", "write"}, wish : Wished, k : 1..4,
                            copy : Contents, missed : SUBSET Settable]
          /\ work'[u].at = work[u].at /\ work'[u].wish = work[u].wish
          /\ work'[u].k = work[u].k /\ work'[u].copy = work[u].copy
          /\ work'[u].missed = work[u].missed \cup {s}
      BY <1>2, <3>1, <3>2
    <3>4. Named(work'[u])
      BY <3>3 DEF Named, SettingsInv, UpdatesAreNamed
    <3>5. \A t \in Settable \ (doubt' \cup work'[u].missed) :
             kept'[t] # Unset => Value(work'[u].copy, t) = kept'[t]
      <4> SUFFICES ASSUME NEW t \in Settable \ (doubt' \cup work'[u].missed), kept'[t] # Unset
                   PROVE  Value(work'[u].copy, t) = kept'[t]
        OBVIOUS
      <4>1. t # s /\ t \notin doubt \cup work[u].missed /\ kept'[t] = kept[t]
        BY <1>3, <1>8, <3>3
      <4>2. Tells(work[u].copy, doubt \cup work[u].missed)
        BY <2>3 DEF SettingsInv, CopiesTellAll
      <4> QED
        BY <3>3, <4>1, <4>2 DEF Tells
    <3> QED
      BY <3>3, <3>4, <3>5 DEF Updates
  <2> QED
    BY <2>1, <2>2, <2>3
<1>11. work' \in [ConfigWriters -> Updates]
  BY <1>5, <1>10
<1>12. CopiesTellAll' /\ UpdatesAreNamed'
  BY <1>10 DEF CopiesTellAll, UpdatesAreNamed, Tells
<1>13. SettingsTypeOK'
  BY <1>3, <1>4, <1>7, <1>11 DEF Write, memory, SettingsInv, SettingsTypeOK
<1> QED
  BY <1>9, <1>12, <1>13 DEF SettingsInv

(* The updates are over, one way or another. *)
LEMMA EndKeeps ==
  ASSUME SettingsInv, NEW w \in ConfigWriters, Panics(w) \/ RunTurn(w) \/ MakeClient(w)
  PROVE  SettingsInv'
<1>1. Becomes(w, WriterIdle) /\ UNCHANGED <<file, acknowledged>>
  BY DEF Panics, RunTurn, MakeClient, acknowledged
<1>2. AcknowledgedIsKept' /\ kept' = kept /\ doubt' = doubt
  BY <1>1, FileStays
<1>3. /\ work' \in [ConfigWriters -> Updates]
      /\ CopiesTellAll' /\ UpdatesAreNamed'
  BY <1>1, PlainUpdates, UpdateGoesOn
<1>4. configClient' \in Models \cup {Unset}
  BY NewClientIsModel DEF Panics, RunTurn, MakeClient, memory, SettingsInv, SettingsTypeOK
<1>5. UNCHANGED <<file, front, configFile, cfg, env, requests, configStarts>>
  BY DEF Panics, RunTurn, MakeClient, memory
<1>6. SettingsTypeOK'
  BY <1>2, <1>3, <1>4, <1>5 DEF SettingsInv, SettingsTypeOK
<1> QED
  BY <1>2, <1>3, <1>6 DEF SettingsInv

LEMMA ExitKeeps ==
  ASSUME SettingsInv, Exit
  PROVE  SettingsInv'
<1>1. AcknowledgedIsKept' /\ kept' = kept /\ doubt' = doubt
  BY FileStays DEF Exit
<1>2. \A w \in ConfigWriters : work'[w] = WriterIdle
  BY DEF Exit
<1>3. work' \in [ConfigWriters -> Updates]
  BY PlainUpdates DEF Exit
<1>4. CopiesTellAll' /\ UpdatesAreNamed'
  BY <1>2, PlainUpdates DEF CopiesTellAll, UpdatesAreNamed
<1>5. cfg' \in Copies
  BY DEF Exit, Unloaded, Copies
<1>6. SettingsTypeOK'
  BY <1>1, <1>3, <1>5 DEF Exit, SettingsInv, SettingsTypeOK
<1> QED
  BY <1>1, <1>4, <1>6 DEF SettingsInv

-----------------------------------------------------------------------------
(* The inductive invariant: types, what is in the file, what is in the copies that
   will be written over it, and that an update has something to write. *)
THEOREM SettingsInvariance == ConfigSpec => []SettingsInv
<1>1. ASSUME SettingsInv, [ConfigNext]_configVars PROVE SettingsInv'
  <2>1. ASSUME NEW how \in {"bridge", "terminal"}, Start(how) PROVE SettingsInv'
    BY <1>1, <2>1, StartKeeps
  <2>2. ASSUME NEW w \in ConfigWriters, WriterStep(w) PROVE SettingsInv'
    BY <1>1, <2>2, RequestKeeps, ChangeKeeps, ReadKeeps, TruncateKeeps, WriteKeeps, EndKeeps
       DEF WriterStep
  <2>3. CASE Exit
    BY <1>1, <2>3, ExitKeeps
  <2>4. CASE UNCHANGED configVars
    <3>1. UNCHANGED <<file, front, memory, env, work, requests, configStarts, acknowledged>>
      BY <2>4 DEF configVars
    <3>2. UNCHANGED <<configFile, cfg, configClient, kept, doubt>>
      BY <3>1 DEF memory, acknowledged
    <3>3. AcknowledgedIsKept' /\ CopiesTellAll' /\ UpdatesAreNamed'
      BY <1>1, <3>1, <3>2, FileStays, UpdatesStay
    <3>4. SettingsTypeOK'
      BY <1>1, <3>1, <3>2 DEF SettingsInv, SettingsTypeOK
    <3> QED
      BY <3>3, <3>4 DEF SettingsInv
  <2> QED
    BY <1>1, <2>1, <2>2, <2>3, <2>4 DEF ConfigNext
<1> QED
  BY <1>1, SettingsInit, PTL DEF ConfigSpec

(* Every variable of the settings keeps its type. *)
THEOREM SettingsTypeCorrect == ConfigSpec => []SettingsTypeOK
<1>1. SettingsInv => SettingsTypeOK
  BY DEF SettingsInv
<1> QED
  BY <1>1, SettingsInvariance, PTL

(* A setting answered with success is in the file, whoever else writes it, however
   often the process is killed, but for what two named races may lose. *)
THEOREM AcknowledgedStays == ConfigSpec => []AcknowledgedIsKept
<1>1. SettingsInv => AcknowledgedIsKept
  BY DEF SettingsInv
<1> QED
  BY <1>1, SettingsInvariance, PTL

-----------------------------------------------------------------------------
(* The tables and what is told of them. *)

Stages == [at : {"idle", "look", "found", "publish"}, key : Keys \cup {Nothing},
           left : Seq(Keys), event : Values \cup {Nothing}]

\* Who is about to write or to publish knows what, who looks has something to look for.
KnowsKey(u) ==
    /\ u.at \in {"found", "publish"} => u.key \in Keys
    /\ u.at = "look" => u.left # <<>>
CallsHaveKeys == \A c \in Callers : KnowsKey(call[c])

\* An event says what is stored, and is the only one of its key, but for mixed ones.
Publishes(c, k) == call[c].at = "publish" /\ call[c].key = k
EventsAreCurrent ==
    \A c \in Callers, k \in Keys \ mixed :
        Publishes(c, k) =>
            /\ call[c].event = Seen(k)
            /\ \A d \in Callers \ {c} : ~Publishes(d, k)

\* The three parts of the promise.
CountsAreRight ==
    \A s \in SessionIds : sessions[s] # Nothing =>
        sessions[s].count = Cardinality(ListBySession("messages", s))
RowsHaveSessions ==
    \A r \in RowIds \ strays : dbRows[r] # Nothing => sessions[dbRows[r].session] # Nothing
RestIsTold ==
    \A k \in Keys \ mixed : (\A c \in Callers : ~Publishes(c, k)) => dbTold[k] = Seen(k)

StoreInv ==
    /\ StoreTypeOK /\ CallsHaveKeys /\ EventsAreCurrent
    /\ CountsAreRight /\ RowsHaveSessions /\ RestIsTold

-----------------------------------------------------------------------------
LEMMA StoreTypes ==
  ASSUME StoreTypeOK
  PROVE  /\ \A c \in Callers : call[c] \in Stages
         /\ \A s \in SessionIds : sessions[s] # Nothing => sessions[s] \in StoredSessions
         /\ \A r \in RowIds : dbRows[r] # Nothing => dbRows[r] \in StoredRows
         /\ \A k \in Keys : Seen(k) \in Values \cup {Nothing}
<1>1. /\ \A c \in Callers : call[c] \in Stages
      /\ \A s \in SessionIds : sessions[s] # Nothing => sessions[s] \in StoredSessions
      /\ \A r \in RowIds : dbRows[r] # Nothing => dbRows[r] \in StoredRows
  BY DEF StoreTypeOK, Stages
<1>2. ASSUME NEW k \in Keys PROVE Seen(k) \in Values \cup {Nothing}
  BY <1>1 DEF Seen, Keys, StoredSessions, StoredRows
<1> QED
  BY <1>1, <1>2

LEMMA StoreStarts == StoreInit => StoreInv
<1> SUFFICES ASSUME StoreInit PROVE StoreInv
  OBVIOUS
<1>1. CallIdle \in Stages
  BY DEF CallIdle, Stages
<1>2. \A c \in Callers : call[c] = CallIdle /\ call[c].at = "idle"
  BY DEF StoreInit, CallIdle
<1>3. StoreTypeOK
  <2>1. call \in [Callers -> Stages]
    BY <1>1 DEF StoreInit
  <2>2. ops \in 0..MaxOps
    BY StoreAssumption DEF StoreInit, StoreAssumption
  <2> QED
    BY <2>1, <2>2 DEF StoreInit, StoreTypeOK, Stages
<1>4. CallsHaveKeys /\ EventsAreCurrent
  BY <1>2 DEF CallsHaveKeys, KnowsKey, EventsAreCurrent, Publishes
<1>5. \A k \in Keys : Seen(k) = Nothing /\ dbTold[k] = Nothing
  BY DEF StoreInit, Seen, Keys
<1>6. CountsAreRight /\ RowsHaveSessions /\ RestIsTold
  BY <1>5 DEF StoreInit, CountsAreRight, RowsHaveSessions, RestIsTold
<1> QED
  BY <1>3, <1>4, <1>6 DEF StoreInv

(* A call that neither wrote nor has an event to publish. *)
LEMMA QuietStep ==
  ASSUME StoreInv, NEW c \in Callers, NEW u \in Stages, call[c].at # "publish",
         call' = [call EXCEPT ![c] = u], u.at # "publish", KnowsKey(u),
         ops' \in 0..MaxOps, UNCHANGED <<tables, dbTold, mixed, strays>>
  PROVE  StoreInv'
<1>1. UNCHANGED <<sessions, dbRows, dbTold, mixed, strays>>
  BY DEF tables
<1>2. call \in [Callers -> Stages]
  BY DEF StoreInv, StoreTypeOK, Stages
<1>3. /\ call' \in [Callers -> Stages]
      /\ \A d \in Callers : call'[d] = IF d = c THEN u ELSE call[d]
  BY <1>2
<1>4. StoreTypeOK'
  BY <1>1, <1>3 DEF StoreInv, StoreTypeOK, Stages
<1>5. CallsHaveKeys'
  BY <1>3 DEF StoreInv, CallsHaveKeys
<1>6. \A k \in Keys : Seen(k)' = Seen(k) /\ \A d \in Callers : Publishes(d, k)' <=> Publishes(d, k)
  BY <1>1, <1>3 DEF Seen, Publishes
<1>7. EventsAreCurrent'
  <2> SUFFICES ASSUME NEW d \in Callers, NEW k \in Keys \ mixed', Publishes(d, k)'
               PROVE  call'[d].event = Seen(k)' /\ \A e \in Callers \ {d} : ~Publishes(e, k)'
    BY DEF EventsAreCurrent
  <2>1. Publishes(d, k) /\ k \in Keys \ mixed /\ call'[d] = call[d]
    BY <1>1, <1>3, <1>6 DEF Publishes
  <2> QED
    BY <1>6, <2>1 DEF StoreInv, EventsAreCurrent
<1>8. RestIsTold'
  BY <1>1, <1>6 DEF StoreInv, RestIsTold
<1>9. CountsAreRight' /\ RowsHaveSessions'
  BY <1>1 DEF StoreInv, CountsAreRight, RowsHaveSessions, ListBySession
<1> QED
  BY <1>4, <1>5, <1>7, <1>8, <1>9 DEF StoreInv

(* A statement that changes what is stored of one key, or mixes what it changes. *)
LEMMA StatementTells ==
  ASSUME StoreInv, NEW c \in Callers, NEW u \in Stages, u.at = "publish", u.key \in Keys,
         call[c].at # "publish", call' = [call EXCEPT ![c] = u], dbTold' = dbTold,
         mixed \subseteq mixed',
         u.key \notin mixed' =>
            u.event = Seen(u.key)' /\ \A d \in Callers \ {c} : ~Publishes(d, u.key),
         \A k \in Keys \ {u.key} : k \notin mixed' => Seen(k)' = Seen(k)
  PROVE  EventsAreCurrent' /\ RestIsTold' /\ CallsHaveKeys' /\ call' \in [Callers -> Stages]
<1>1. call \in [Callers -> Stages]
  BY DEF StoreInv, StoreTypeOK, Stages
<1>2. /\ call' \in [Callers -> Stages]
      /\ \A d \in Callers : call'[d] = IF d = c THEN u ELSE call[d]
  BY <1>1
<1>3. CallsHaveKeys'
  BY <1>2 DEF StoreInv, CallsHaveKeys, KnowsKey
<1>4. \A d \in Callers, k \in Keys :
         Publishes(d, k)' <=> IF d = c THEN k = u.key ELSE Publishes(d, k)
  BY <1>2 DEF Publishes
<1>5. EventsAreCurrent'
  <2> SUFFICES ASSUME NEW d \in Callers, NEW k \in Keys \ mixed', Publishes(d, k)'
               PROVE  call'[d].event = Seen(k)' /\ \A e \in Callers \ {d} : ~Publishes(e, k)'
    BY DEF EventsAreCurrent
  <2>1. CASE k = u.key
    <3>1. d = c
      BY <1>4, <2>1
    <3> QED
      BY <1>2, <1>4, <2>1, <3>1
  <2>2. CASE k # u.key
    <3>1. d # c /\ Publishes(d, k) /\ k \in Keys \ mixed /\ Seen(k)' = Seen(k)
      BY <1>4, <2>2
    <3>2. call[d].event = Seen(k) /\ \A e \in Callers \ {d} : ~Publishes(e, k)
      BY <3>1 DEF StoreInv, EventsAreCurrent
    <3> QED
      BY <1>2, <1>4, <2>2, <3>1, <3>2
  <2> QED
    BY <2>1, <2>2
<1>6. RestIsTold'
  <2> SUFFICES ASSUME NEW k \in Keys \ mixed', \A d \in Callers : ~Publishes(d, k)'
               PROVE  dbTold'[k] = Seen(k)'
    BY DEF RestIsTold
  <2>1. k # u.key
    BY <1>4
  <2>2. k \in Keys \ mixed /\ Seen(k)' = Seen(k) /\ \A d \in Callers : ~Publishes(d, k)
    <3>1. \A d \in Callers \ {c} : ~Publishes(d, k)
      BY <1>4
    <3>2. ~Publishes(c, k)
      BY DEF Publishes
    <3> QED
      BY <2>1, <3>1, <3>2
  <2> QED
    BY <2>2 DEF StoreInv, RestIsTold
<1> QED
  BY <1>2, <1>3, <1>5, <1>6

LEMMA WroteTells ==
  ASSUME StoreInv, NEW c \in Callers, NEW k \in Keys, NEW event \in Values \cup {Nothing},
         NEW rest \in Seq(Keys), call[c].at # "publish", Wrote(c, k, event, rest),
         dbTold' = dbTold, event = Seen(k)',
         \A j \in Keys \ {k} : Seen(j)' = Seen(j)
  PROVE  /\ EventsAreCurrent' /\ RestIsTold' /\ CallsHaveKeys'
         /\ call' \in [Callers -> Stages] /\ mixed' \subseteq Keys
<1> DEFINE u == [at |-> "publish", key |-> k, left |-> rest, event |-> event]
<1>1. u \in Stages /\ u.at = "publish" /\ u.key = k /\ u.event = event
  BY DEF Stages
<1>2. call' = [call EXCEPT ![c] = u]
  BY DEF Wrote
<1>3. /\ mixed \subseteq mixed' /\ mixed' \subseteq mixed \cup {k}
      /\ k \notin mixed' => \A d \in Callers \ {c} : ~Publishes(d, k)
  BY DEF Wrote, Publishes
<1>4. mixed' \subseteq Keys
  BY <1>3 DEF StoreInv, StoreTypeOK
<1> HIDE DEF u
<1> QED
  BY <1>1, <1>2, <1>3, <1>4, StatementTells

-----------------------------------------------------------------------------
(* The lists of a session's messages and their length. *)

LEMMA ListsAreFinite ==
  ASSUME NEW t, NEW s
  PROVE  /\ IsFiniteSet(ListBySession(t, s))
         /\ Cardinality(ListBySession(t, s)) \in Nat
<1>1. ListBySession(t, s) \subseteq RowIds /\ IsFiniteSet(RowIds)
  BY StoreAssumption DEF ListBySession, StoreAssumption
<1>2. IsFiniteSet(ListBySession(t, s))
  BY <1>1, FS_Subset
<1> QED
  BY <1>2, FS_CardinalityType

LEMMA CreateSessionKeeps ==
  ASSUME StoreInv, NEW c \in Callers, NEW s \in SessionIds,
         NEW parent \in SessionIds \cup {Nothing}, NEW v \in Values,
         CreateSession(c, s, parent, v)
  PROVE  StoreInv'
<1> DEFINE new == [title |-> v, parent |-> parent, count |-> 0]
<1>1. new \in StoredSessions /\ new # Nothing /\ new.title = v /\ new.count = 0
  BY StoreAssumption DEF StoredSessions, StoreAssumption
<1>2. /\ sessions' = [sessions EXCEPT ![s] = new] /\ Wrote(c, s, v, <<>>)
      /\ dbRows' = dbRows /\ dbTold' = dbTold /\ strays' = strays
      /\ call[c] = CallIdle /\ ops < MaxOps /\ ops' = ops + 1
      /\ {r \in RowIds : dbRows[r] # Nothing /\ dbRows[r].session = s} = {}
  BY DEF CreateSession, BeginCall
<1> HIDE DEF new
<1>3. sessions \in [SessionIds -> StoredSessions \cup {Nothing}]
  BY DEF StoreInv, StoreTypeOK
<1>4. /\ sessions' \in [SessionIds -> StoredSessions \cup {Nothing}] /\ sessions'[s] = new
      /\ \A t \in SessionIds \ {s} : sessions'[t] = sessions[t]
  BY <1>1, <1>2, <1>3
<1>5. Seen(s)' = v /\ \A k \in Keys \ {s} : Seen(k)' = Seen(k)
  BY <1>1, <1>2, <1>4 DEF Seen, Keys
<1>6. call[c].at # "publish"
  BY <1>2 DEF CallIdle
<1>7. /\ EventsAreCurrent' /\ RestIsTold' /\ CallsHaveKeys'
      /\ call' \in [Callers -> Stages] /\ mixed' \subseteq Keys
  BY <1>2, <1>5, <1>6, WroteTells, EmptySeq DEF Keys
<1>8. ops' \in 0..MaxOps
  BY <1>2, StoreAssumption DEF StoreInv, StoreTypeOK, StoreAssumption
<1>9. StoreTypeOK'
  BY <1>2, <1>4, <1>7, <1>8 DEF StoreInv, StoreTypeOK, Stages
<1>10. \A t \in SessionIds : ListBySession("messages", t)' = ListBySession("messages", t)
  BY <1>2 DEF ListBySession
<1>11. CountsAreRight'
  <2>1. ListBySession("messages", s) = {}
    BY <1>2 DEF ListBySession
  <2>2. Cardinality(ListBySession("messages", s)') = 0
    BY <1>10, <2>1, FS_EmptySet
  <2> QED
    BY <1>1, <1>4, <1>10, <2>2 DEF StoreInv, CountsAreRight
<1>12. RowsHaveSessions'
  BY <1>1, <1>2, <1>4, StoreTypes DEF StoreInv, RowsHaveSessions, StoredRows
<1> QED
  BY <1>7, <1>9, <1>11, <1>12 DEF StoreInv

LEMMA CallFailsQuietly ==
  ASSUME StoreInv, NEW c \in Callers, BeginCall(c), CallFails(c)
  PROVE  StoreInv'
<1>1. CallIdle \in Stages /\ CallIdle.at = "idle" /\ KnowsKey(CallIdle)
  BY DEF CallIdle, Stages, KnowsKey
<1>2. ops' \in 0..MaxOps
  BY StoreAssumption DEF BeginCall, StoreInv, StoreTypeOK, StoreAssumption
<1> QED
  BY <1>1, <1>2, QuietStep DEF BeginCall, CallFails, tables

LEMMA UpdateSessionKeeps ==
  ASSUME StoreInv, NEW c \in Callers, NEW s \in SessionIds, NEW v \in Values,
         UpdateSession(c, s, v)
  PROVE  StoreInv'
<1>1. CASE sessions[s] = Nothing
  BY <1>1, CallFailsQuietly DEF UpdateSession
<1>2. CASE sessions[s] # Nothing
  <2> DEFINE new == [sessions[s] EXCEPT !.title = v]
  <2>1. sessions \in [SessionIds -> StoredSessions \cup {Nothing}]
    BY DEF StoreInv, StoreTypeOK
  <2>2. /\ new \in StoredSessions /\ new # Nothing /\ new.title = v
        /\ new.count = sessions[s].count
    BY <1>2, <2>1, StoreAssumption DEF StoredSessions, StoreAssumption
  <2>3. /\ sessions' = [sessions EXCEPT ![s] = new] /\ Wrote(c, s, v, <<>>)
        /\ dbRows' = dbRows /\ dbTold' = dbTold /\ strays' = strays
        /\ call[c] = CallIdle /\ ops < MaxOps /\ ops' = ops + 1
    BY <1>2 DEF UpdateSession, BeginCall
  <2> HIDE DEF new
  <2>4. /\ sessions' \in [SessionIds -> StoredSessions \cup {Nothing}] /\ sessions'[s] = new
        /\ \A t \in SessionIds \ {s} : sessions'[t] = sessions[t]
    BY <2>1, <2>2, <2>3
  <2>5. Seen(s)' = v /\ \A k \in Keys \ {s} : Seen(k)' = Seen(k)
    BY <2>2, <2>3, <2>4 DEF Seen, Keys
  <2>6. call[c].at # "publish"
    BY <2>3 DEF CallIdle
  <2>7. /\ EventsAreCurrent' /\ RestIsTold' /\ CallsHaveKeys'
        /\ call' \in [Callers -> Stages] /\ mixed' \subseteq Keys
    BY <2>3, <2>5, <2>6, WroteTells, EmptySeq DEF Keys
  <2>8. ops' \in 0..MaxOps
    BY <2>3, StoreAssumption DEF StoreInv, StoreTypeOK, StoreAssumption
  <2>9. StoreTypeOK'
    BY <2>3, <2>4, <2>7, <2>8 DEF StoreInv, StoreTypeOK, Stages
  <2>10. \A t \in SessionIds : ListBySession("messages", t)' = ListBySession("messages", t)
    BY <2>3 DEF ListBySession
  <2>11. CountsAreRight'
    BY <1>2, <2>2, <2>4, <2>10 DEF StoreInv, CountsAreRight
  <2>12. RowsHaveSessions'
    BY <2>2, <2>3, <2>4, StoreTypes DEF StoreInv, RowsHaveSessions, StoredRows
  <2> QED
    BY <2>7, <2>9, <2>11, <2>12 DEF StoreInv
<1> QED
  BY <1>1, <1>2

-----------------------------------------------------------------------------
(* Rows.                                                                     *)

IsOf(x, s) == x.table = "messages" /\ x.session = s

(* A row that is added is counted for its session, if it is a message. *)
LEMMA RowAdded ==
  ASSUME StoreTypeOK, NEW r \in RowIds, dbRows[r] = Nothing, NEW x \in StoredRows,
         dbRows' = [dbRows EXCEPT ![r] = x], NEW s \in SessionIds
  PROVE  Cardinality(ListBySession("messages", s)') =
            Cardinality(ListBySession("messages", s)) + (IF IsOf(x, s) THEN 1 ELSE 0)
<1> DEFINE old == ListBySession("messages", s)
<1>1. x # Nothing
  BY StoreAssumption DEF StoreAssumption
<1>2. dbRows'[r] = x /\ \A q \in RowIds \ {r} : dbRows'[q] = dbRows[q]
  BY DEF StoreTypeOK
<1>3. r \notin old
  BY DEF ListBySession
<1>4. ListBySession("messages", s)' = IF IsOf(x, s) THEN old \cup {r} ELSE old
  BY <1>1, <1>2, <1>3 DEF ListBySession, IsOf
<1>5. Cardinality(old \cup {r}) = Cardinality(old) + 1
  BY <1>3, ListsAreFinite, FS_AddElement
<1>6. Cardinality(old) \in Nat
  BY ListsAreFinite
<1>7. CASE IsOf(x, s)
  BY <1>4, <1>5, <1>7
<1>8. CASE ~IsOf(x, s)
  BY <1>4, <1>6, <1>8
<1> QED
  BY <1>7, <1>8

(* One that is removed is taken off, and was there to be. *)
LEMMA RowRemoved ==
  ASSUME StoreTypeOK, NEW r \in RowIds, dbRows[r] # Nothing,
         dbRows' = [dbRows EXCEPT ![r] = Nothing], NEW s \in SessionIds
  PROVE  /\ Cardinality(ListBySession("messages", s)') =
               Cardinality(ListBySession("messages", s))
                  - (IF IsOf(dbRows[r], s) THEN 1 ELSE 0)
         /\ Cardinality(ListBySession("messages", s)') \in Nat
<1> DEFINE old == ListBySession("messages", s)
<1>1. dbRows'[r] = Nothing /\ \A q \in RowIds \ {r} : dbRows'[q] = dbRows[q]
  BY DEF StoreTypeOK
<1>2. r \in old <=> IsOf(dbRows[r], s)
  BY DEF ListBySession, IsOf
<1>3. ListBySession("messages", s)' = old \ {r}
  BY <1>1 DEF ListBySession
<1>4. /\ Cardinality(old \ {r}) = IF r \in old THEN Cardinality(old) - 1 ELSE Cardinality(old)
      /\ IsFiniteSet(old \ {r}) /\ Cardinality(old) \in Nat
  BY ListsAreFinite, FS_RemoveElement
<1>5. Cardinality(old \ {r}) \in Nat
  BY <1>4, FS_CardinalityType
<1> HIDE DEF old
<1> QED
  BY <1>2, <1>3, <1>4, <1>5 DEF old

(* A session of which only the number of messages changes. *)
LEMMA CountChanges ==
  ASSUME StoreTypeOK, NEW s \in SessionIds, sessions[s] # Nothing, NEW n \in Nat,
         sessions' = [sessions EXCEPT ![s].count = n]
  PROVE  /\ sessions' \in [SessionIds -> StoredSessions \cup {Nothing}]
         /\ sessions'[s] # Nothing /\ sessions'[s].count = n
         /\ sessions'[s].title = sessions[s].title
         /\ \A t \in SessionIds \ {s} : sessions'[t] = sessions[t]
<1> DEFINE new == [sessions[s] EXCEPT !.count = n]
<1>1. sessions[s] \in StoredSessions
  BY DEF StoreTypeOK
<1>2. /\ new \in StoredSessions /\ new.count = n /\ new.title = sessions[s].title
      /\ new # Nothing
  BY <1>1, StoreAssumption DEF StoredSessions, StoreAssumption
<1>3. sessions' = [sessions EXCEPT ![s] = new]
  OBVIOUS
<1> HIDE DEF new
<1> QED
  BY <1>2, <1>3 DEF StoreTypeOK

LEMMA CreateRowKeeps ==
  ASSUME StoreInv, NEW c \in Callers, NEW r \in RowIds, NEW table \in {"messages", "files"},
         NEW s \in SessionIds, NEW value \in Values, CreateRow(c, r, table, s, value)
  PROVE  StoreInv'
<1> DEFINE x == [table |-> table, session |-> s, value |-> value]
           counts == table = "messages" /\ sessions[s] # Nothing
<1>1. CASE CallFails(c)
  BY <1>1, CallFailsQuietly DEF CreateRow
<1>2. CASE ~CallFails(c)
  <2>1. /\ dbRows' = [dbRows EXCEPT ![r] = x]
        /\ sessions' = IF counts THEN [sessions EXCEPT ![s].count = @ + 1] ELSE sessions
        /\ strays' = IF sessions[s] = Nothing THEN strays \cup {r} ELSE strays
        /\ Wrote(c, r, value, <<>>) /\ dbTold' = dbTold
        /\ BeginCall(c) /\ dbRows[r] = Nothing
    BY <1>2 DEF CreateRow
  <2>2. /\ x \in StoredRows /\ x # Nothing /\ x.value = value /\ x.session = s
        /\ \A t \in SessionIds : IsOf(x, t) <=> table = "messages" /\ t = s
    BY StoreAssumption DEF StoredRows, StoreAssumption, IsOf
  <2>3. StoreTypeOK /\ CountsAreRight /\ RowsHaveSessions
    BY DEF StoreInv
  <2> HIDE DEF x
  <2>4. /\ dbRows' \in [RowIds -> StoredRows \cup {Nothing}] /\ dbRows'[r] = x
        /\ \A q \in RowIds \ {r} : dbRows'[q] = dbRows[q]
    BY <2>1, <2>2, <2>3 DEF StoreTypeOK
  <2>5. /\ sessions' \in [SessionIds -> StoredSessions \cup {Nothing}]
        /\ \A t \in SessionIds :
              /\ sessions'[t] = Nothing <=> sessions[t] = Nothing
              /\ sessions[t] # Nothing =>
                    /\ sessions'[t].title = sessions[t].title
                    /\ sessions'[t].count =
                          sessions[t].count + (IF counts /\ t = s THEN 1 ELSE 0)
    <3>1. \A t \in SessionIds : sessions[t] # Nothing => sessions[t].count \in Nat
      BY <2>3, StoreTypes DEF StoredSessions
    <3>2. CASE counts
      <4>1. sessions[s].count + 1 \in Nat
        BY <3>1, <3>2
      <4>2. sessions' = [sessions EXCEPT ![s].count = sessions[s].count + 1]
        BY <2>1, <3>2
      <4>3. /\ sessions' \in [SessionIds -> StoredSessions \cup {Nothing}]
            /\ sessions'[s] # Nothing /\ sessions'[s].count = sessions[s].count + 1
            /\ sessions'[s].title = sessions[s].title
            /\ \A t \in SessionIds \ {s} : sessions'[t] = sessions[t]
        BY <2>3, <3>2, <4>1, <4>2, CountChanges
      <4> QED
        BY <3>1, <3>2, <4>3
    <3>3. CASE ~counts
      BY <2>1, <2>3, <3>1, <3>3 DEF StoreTypeOK
    <3> QED
      BY <3>2, <3>3
  <2>6. Seen(r)' = value /\ \A k \in Keys \ {r} : Seen(k)' = Seen(k)
    BY <2>2, <2>4, <2>5, StoreAssumption DEF Seen, Keys, StoreAssumption
  <2>7. call[c].at # "publish"
    BY <2>1 DEF BeginCall, CallIdle
  <2>8. /\ EventsAreCurrent' /\ RestIsTold' /\ CallsHaveKeys'
        /\ call' \in [Callers -> Stages] /\ mixed' \subseteq Keys
    BY <2>1, <2>6, <2>7, WroteTells, EmptySeq DEF Keys
  <2>9. ops' \in 0..MaxOps
    BY <2>1, StoreAssumption DEF BeginCall, StoreInv, StoreTypeOK, StoreAssumption
  <2>10. StoreTypeOK'
    BY <2>1, <2>4, <2>5, <2>8, <2>9 DEF StoreInv, StoreTypeOK, Stages
  <2>11. CountsAreRight'
    <3> SUFFICES ASSUME NEW t \in SessionIds, sessions'[t] # Nothing
                 PROVE  sessions'[t].count = Cardinality(ListBySession("messages", t)')
      BY DEF CountsAreRight
    <3>1. Cardinality(ListBySession("messages", t)') =
             Cardinality(ListBySession("messages", t)) + (IF IsOf(x, t) THEN 1 ELSE 0)
      BY <2>1, <2>2, <2>3, RowAdded
    <3>2. sessions[t] # Nothing /\ sessions[t].count = Cardinality(ListBySession("messages", t))
      BY <2>3, <2>5 DEF CountsAreRight
    <3>3. (counts /\ t = s) <=> IsOf(x, t)
      BY <2>2, <3>2
    <3> QED
      BY <2>5, <3>1, <3>2, <3>3
  <2>12. RowsHaveSessions'
    <3> SUFFICES ASSUME NEW q \in RowIds \ strays', dbRows'[q] # Nothing
                 PROVE  sessions'[dbRows'[q].session] # Nothing
      BY DEF RowsHaveSessions
    <3>1. CASE q = r
      BY <2>1, <2>2, <2>4, <2>5, <3>1
    <3>2. CASE q # r
      <4>1. q \in RowIds \ strays /\ dbRows'[q] = dbRows[q] /\ dbRows[q].session \in SessionIds
        BY <2>1, <2>3, <2>4, <3>2, StoreTypes DEF StoredRows
      <4> QED
        BY <2>3, <2>5, <4>1 DEF RowsHaveSessions
    <3> QED
      BY <3>1, <3>2
  <2> QED
    BY <2>8, <2>10, <2>11, <2>12 DEF StoreInv
<1> QED
  BY <1>1, <1>2

(* A message that is gone is told of as if it were there: from then on it is mixed. *)
LEMMA GhostTold ==
  ASSUME StoreInv, NEW c \in Callers, NEW r \in RowIds, NEW value \in Values,
         BeginCall(c), mixed' = mixed \cup {r}, UNCHANGED <<tables, dbTold, strays>>,
         call' = [call EXCEPT ![c] = [at |-> "publish", key |-> r, left |-> <<>>, event |-> value]]
  PROVE  StoreInv'
<1> DEFINE u == [at |-> "publish", key |-> r, left |-> <<>>, event |-> value]
<1>1. u \in Stages /\ u.at = "publish" /\ u.key = r /\ u.key \in Keys
  BY EmptySeq DEF Stages, Keys
<1>2. call' = [call EXCEPT ![c] = u]
  OBVIOUS
<1>3. UNCHANGED <<sessions, dbRows, dbTold, strays>>
  BY DEF tables
<1>4. \A k \in Keys : Seen(k)' = Seen(k)
  BY <1>3 DEF Seen
<1>5. call[c].at # "publish"
  BY DEF BeginCall, CallIdle
<1> HIDE DEF u
<1>6. EventsAreCurrent' /\ RestIsTold' /\ CallsHaveKeys' /\ call' \in [Callers -> Stages]
  BY <1>1, <1>2, <1>3, <1>4, <1>5, StatementTells
<1>7. ops' \in 0..MaxOps
  BY StoreAssumption DEF BeginCall, StoreInv, StoreTypeOK, StoreAssumption
<1>8. StoreTypeOK'
  BY <1>3, <1>6, <1>7 DEF StoreInv, StoreTypeOK, Stages, Keys
<1>9. CountsAreRight' /\ RowsHaveSessions'
  BY <1>3 DEF StoreInv, CountsAreRight, RowsHaveSessions, ListBySession
<1> QED
  BY <1>6, <1>8, <1>9 DEF StoreInv

LEMMA UpdateRowKeeps ==
  ASSUME StoreInv, NEW c \in Callers, NEW r \in RowIds, NEW table \in {"messages", "files"},
         NEW value \in Values, UpdateRow(c, r, table, value)
  PROVE  StoreInv'
<1>1. CASE dbRows[r] = Nothing
  BY <1>1, CallFailsQuietly, GhostTold DEF UpdateRow, BeginCall
<1>2. CASE dbRows[r] # Nothing
  <2> DEFINE x == [dbRows[r] EXCEPT !.value = value]
  <2>1. StoreTypeOK /\ CountsAreRight /\ RowsHaveSessions
    BY DEF StoreInv
  <2>2. /\ x \in StoredRows /\ x # Nothing /\ x.value = value
        /\ x.session = dbRows[r].session /\ x.table = dbRows[r].table
    BY <1>2, <2>1, StoreTypes, StoreAssumption DEF StoredRows, StoreAssumption
  <2>3. /\ dbRows' = [dbRows EXCEPT ![r] = x] /\ Wrote(c, r, value, <<>>) /\ BeginCall(c)
        /\ sessions' = sessions /\ dbTold' = dbTold /\ strays' = strays
    BY <1>2 DEF UpdateRow
  <2> HIDE DEF x
  <2>4. /\ dbRows' \in [RowIds -> StoredRows \cup {Nothing}] /\ dbRows'[r] = x
        /\ \A q \in RowIds \ {r} : dbRows'[q] = dbRows[q]
    BY <2>1, <2>2, <2>3 DEF StoreTypeOK
  <2>5. Seen(r)' = value /\ \A k \in Keys \ {r} : Seen(k)' = Seen(k)
    BY <2>2, <2>3, <2>4, StoreAssumption DEF Seen, Keys, StoreAssumption
  <2>6. call[c].at # "publish"
    BY <2>3 DEF BeginCall, CallIdle
  <2>7. /\ EventsAreCurrent' /\ RestIsTold' /\ CallsHaveKeys'
        /\ call' \in [Callers -> Stages] /\ mixed' \subseteq Keys
    BY <2>3, <2>5, <2>6, WroteTells, EmptySeq DEF Keys
  <2>8. ops' \in 0..MaxOps
    BY <2>3, StoreAssumption DEF BeginCall, StoreInv, StoreTypeOK, StoreAssumption
  <2>9. StoreTypeOK'
    BY <2>3, <2>4, <2>7, <2>8 DEF StoreInv, StoreTypeOK, Stages
  <2>10. \A s \in SessionIds : ListBySession("messages", s)' = ListBySession("messages", s)
    BY <1>2, <2>2, <2>4 DEF ListBySession
  <2>11. CountsAreRight'
    BY <2>1, <2>3, <2>10 DEF CountsAreRight
  <2>12. RowsHaveSessions'
    BY <1>2, <2>1, <2>2, <2>3, <2>4 DEF RowsHaveSessions
  <2> QED
    BY <2>7, <2>9, <2>11, <2>12 DEF StoreInv
<1> QED
  BY <1>1, <1>2

-----------------------------------------------------------------------------
(* Deletion. *)

\* What LookAt makes of a call.
Looks(keys) == IF keys = <<>> THEN CallIdle ELSE [CallIdle EXCEPT !.at = "look", !.left = keys]

LEMMA LooksIsStage ==
  ASSUME NEW keys \in Seq(Keys)
  PROVE  Looks(keys) \in Stages /\ Looks(keys).at # "publish" /\ KnowsKey(Looks(keys))
<1>1. CASE keys = <<>>
  BY <1>1 DEF Looks, CallIdle, Stages, KnowsKey
<1>2. CASE keys # <<>>
  <2>1. Looks(keys) = [at |-> "look", key |-> Nothing, left |-> keys, event |-> Nothing]
    BY <1>2 DEF Looks, CallIdle
  <2> QED
    BY <1>2, <2>1 DEF Stages, KnowsKey
<1> QED
  BY <1>1, <1>2

LEMMA DeletionBegins ==
  ASSUME StoreInv, NEW c \in Callers, NEW keys \in Seq(Keys), BeginCall(c), LookAt(c, keys),
         UNCHANGED <<tables, dbTold, mixed, strays>>
  PROVE  StoreInv'
<1>1. call' = [call EXCEPT ![c] = Looks(keys)]
  BY DEF LookAt, Looks
<1>2. call[c].at # "publish"
  BY DEF BeginCall, CallIdle
<1>3. ops' \in 0..MaxOps
  BY StoreAssumption DEF BeginCall, StoreInv, StoreTypeOK, StoreAssumption
<1> QED
  BY <1>1, <1>2, <1>3, LooksIsStage, QuietStep

LEMMA DeleteKeeps ==
  ASSUME StoreInv, NEW c \in Callers, NEW k \in Keys, Delete(c, k)
  PROVE  StoreInv'
<1>1. <<k>> \in Seq(Keys)
  OBVIOUS
<1> QED
  BY <1>1, DeletionBegins DEF Delete

LEMMA DeleteSessionRowsKeeps ==
  ASSUME StoreInv, NEW c \in Callers, NEW t \in {"messages", "files"}, NEW s \in SessionIds,
         DeleteSessionRows(c, t, s)
  PROVE  StoreInv'
<1> DEFINE L == ListBySession(t, s)
           n == Cardinality(L)
<1>1. PICK keys \in SetToSeqs(L) : LookAt(c, keys)
  BY DEF DeleteSessionRows
<1>2. n \in Nat
  BY ListsAreFinite
<1>3. L \subseteq Keys
  BY DEF ListBySession, Keys
<1>4. keys \in [1..n -> L]
  BY <1>1 DEF SetToSeqs
<1> HIDE DEF L, n
<1>5. keys \in Seq(Keys)
  BY <1>2, <1>3, <1>4, SeqDef
<1> QED
  BY <1>1, <1>5, DeletionBegins DEF DeleteSessionRows

LEMMA LookKeeps ==
  ASSUME StoreInv, NEW c \in Callers, Look(c)
  PROVE  StoreInv'
<1>1. /\ call[c] \in Stages /\ call[c].left # <<>> /\ call[c].at = "look"
      /\ ops' = ops /\ UNCHANGED <<tables, dbTold, mixed, strays>>
  BY StoreTypes DEF Look, StoreInv, CallsHaveKeys, KnowsKey
<1>2. call[c].left \in Seq(Keys) /\ ops' \in 0..MaxOps
  BY <1>1 DEF Stages, StoreInv, StoreTypeOK
<1>3. Head(call[c].left) \in Keys /\ Tail(call[c].left) \in Seq(Keys)
  BY <1>1, <1>2
<1> DEFINE u == [at |-> "found", key |-> Head(call[c].left), left |-> Tail(call[c].left),
                 event |-> Nothing]
<1>4. call' = [call EXCEPT ![c] = CallIdle] \/ call' = [call EXCEPT ![c] = u]
  BY DEF Look, CallIdle
<1>5. CallIdle \in Stages /\ CallIdle.at # "publish" /\ KnowsKey(CallIdle)
  BY DEF CallIdle, Stages, KnowsKey
<1>6. u \in Stages /\ u.at # "publish" /\ KnowsKey(u)
  BY <1>3 DEF Stages, KnowsKey
<1> HIDE DEF u
<1> QED
  BY <1>1, <1>2, <1>4, <1>5, <1>6, QuietStep

LEMMA PublishKeeps ==
  ASSUME StoreInv, NEW c \in Callers, Publish(c)
  PROVE  StoreInv'
<1> DEFINE u == Looks(call[c].left)
           own == call[c].key
<1>1. /\ call[c] \in Stages /\ call[c].at = "publish" /\ own \in Keys
      /\ dbTold' = [dbTold EXCEPT ![own] = call[c].event]
      /\ call' = [call EXCEPT ![c] = u]
      /\ UNCHANGED <<sessions, dbRows, ops, mixed, strays>>
  BY StoreTypes DEF Publish, LookAt, Looks, tables, StoreInv, CallsHaveKeys, KnowsKey
<1>2. /\ call[c].left \in Seq(Keys) /\ call[c].event \in Values \cup {Nothing}
      /\ call \in [Callers -> Stages] /\ dbTold \in [Keys -> Values \cup {Nothing}]
  BY <1>1 DEF Stages, StoreInv, StoreTypeOK
<1>3. u \in Stages /\ u.at # "publish" /\ KnowsKey(u)
  BY <1>2, LooksIsStage
<1> HIDE DEF u, own
<1>4. /\ call' \in [Callers -> Stages]
      /\ \A d \in Callers : call'[d] = IF d = c THEN u ELSE call[d]
  BY <1>1, <1>2, <1>3
<1>5. /\ dbTold' \in [Keys -> Values \cup {Nothing}] /\ dbTold'[own] = call[c].event
      /\ \A k \in Keys \ {own} : dbTold'[k] = dbTold[k]
  BY <1>1, <1>2
<1>6. StoreTypeOK'
  BY <1>1, <1>4, <1>5 DEF StoreInv, StoreTypeOK, Stages
<1>7. CallsHaveKeys'
  BY <1>3, <1>4 DEF StoreInv, CallsHaveKeys
<1>8. \A k \in Keys : Seen(k)' = Seen(k)
  BY <1>1 DEF Seen
<1>9. \A d \in Callers, k \in Keys : Publishes(d, k)' <=> d # c /\ Publishes(d, k)
  BY <1>3, <1>4 DEF Publishes
<1>10. EventsAreCurrent'
  <2> SUFFICES ASSUME NEW d \in Callers, NEW k \in Keys \ mixed', Publishes(d, k)'
               PROVE  call'[d].event = Seen(k)' /\ \A e \in Callers \ {d} : ~Publishes(e, k)'
    BY DEF EventsAreCurrent
  <2>1. d # c /\ Publishes(d, k) /\ k \in Keys \ mixed /\ call'[d] = call[d]
    BY <1>1, <1>4, <1>9
  <2> QED
    BY <1>8, <1>9, <2>1 DEF StoreInv, EventsAreCurrent
<1>11. RestIsTold'
  <2> SUFFICES ASSUME NEW k \in Keys \ mixed', \A d \in Callers : ~Publishes(d, k)'
               PROVE  dbTold'[k] = Seen(k)'
    BY DEF RestIsTold
  <2>1. k \in Keys \ mixed /\ Seen(k)' = Seen(k)
    BY <1>1, <1>8
  <2>2. CASE k = own
    <3>1. Publishes(c, k)
      BY <1>1, <2>2 DEF Publishes, own
    <3> QED
      BY <1>5, <2>1, <2>2, <3>1 DEF StoreInv, EventsAreCurrent
  <2>3. CASE k # own
    <3>1. \A d \in Callers : ~Publishes(d, k)
      BY <1>9, <2>3 DEF Publishes, own
    <3> QED
      BY <1>5, <2>1, <2>3, <3>1 DEF StoreInv, RestIsTold
  <2> QED
    BY <2>2, <2>3
<1>12. CountsAreRight' /\ RowsHaveSessions'
  BY <1>1 DEF StoreInv, CountsAreRight, RowsHaveSessions, ListBySession
<1> QED
  BY <1>6, <1>7, <1>10, <1>11, <1>12 DEF StoreInv
LEMMA DeleteSessionKeeps ==
  ASSUME StoreInv, NEW c \in Callers, DeleteSession(c)
  PROVE  StoreInv'
<1> PICK s : s = call[c].key
  OBVIOUS
<1> DEFINE own == {r \in RowIds : dbRows[r] # Nothing /\ dbRows[r].session = s}
           u == [call[c] EXCEPT !.at = "publish", !.event = Nothing]
<1>1. PICK enforced \in Enforced :
        /\ dbRows' = IF enforced
                     THEN [r \in RowIds |-> IF r \in own THEN Nothing ELSE dbRows[r]]
                     ELSE dbRows
        /\ strays' = IF enforced THEN strays ELSE strays \cup own
        /\ call' = [call EXCEPT ![c].at = "publish", ![c].event = Nothing]
        /\ mixed' = mixed \cup (IF enforced THEN own ELSE {})
                    \cup {x \in {s} : \E d \in Callers \ {c} :
                             call[d].at = "publish" /\ call[d].key = s}
  BY DEF DeleteSession
<1>2. /\ call[c] \in Stages /\ call[c].at = "found" /\ s \in SessionIds
      /\ sessions' = [sessions EXCEPT ![s] = Nothing]
      /\ ops' = ops /\ dbTold' = dbTold
      /\ StoreTypeOK /\ CountsAreRight /\ RowsHaveSessions
  BY StoreTypes DEF DeleteSession, StoreInv
<1>3. call' = [call EXCEPT ![c] = u]
  BY <1>1
<1>4. /\ u \in Stages /\ u.at = "publish" /\ u.key = s /\ u.key \in Keys /\ u.event = Nothing
  BY <1>2 DEF Stages, Keys
<1>5. /\ own \subseteq RowIds /\ mixed \subseteq mixed' /\ strays \subseteq strays'
      /\ mixed' \subseteq Keys /\ strays' \subseteq RowIds
      /\ enforced => own \subseteq mixed'
      /\ ~enforced => own \subseteq strays'
      /\ s \notin mixed' => \A d \in Callers \ {c} : ~Publishes(d, s)
  BY <1>1, <1>2 DEF Publishes, StoreTypeOK, Keys
<1>6. /\ sessions' \in [SessionIds -> StoredSessions \cup {Nothing}] /\ sessions'[s] = Nothing
      /\ \A t \in SessionIds \ {s} : sessions'[t] = sessions[t]
  BY <1>2 DEF StoreTypeOK
<1>7. /\ dbRows' \in [RowIds -> StoredRows \cup {Nothing}]
      /\ \A r \in RowIds :
            dbRows'[r] = IF enforced /\ r \in own THEN Nothing ELSE dbRows[r]
  BY <1>1, <1>2 DEF StoreTypeOK
<1>8. \A r \in RowIds : r \in own <=> dbRows[r] # Nothing /\ dbRows[r].session = s
  OBVIOUS
<1> HIDE DEF own, u
<1>9. Seen(s)' = Nothing /\ \A k \in Keys \ {s} : k \notin mixed' => Seen(k)' = Seen(k)
  <2>1. Seen(s)' = Nothing
    BY <1>2, <1>6 DEF Seen
  <2>2. ASSUME NEW k \in Keys \ {s}, k \notin mixed' PROVE Seen(k)' = Seen(k)
    <3>1. CASE k \in SessionIds
      BY <1>6, <2>2, <3>1 DEF Seen
    <3>2. CASE k \notin SessionIds
      <4>1. k \in RowIds /\ ~(enforced /\ k \in own)
        BY <1>5, <2>2, <3>2 DEF Keys
      <4> QED
        BY <1>7, <3>2, <4>1 DEF Seen
    <3> QED
      BY <3>1, <3>2
  <2> QED
    BY <2>1, <2>2
<1>10. EventsAreCurrent' /\ RestIsTold' /\ CallsHaveKeys' /\ call' \in [Callers -> Stages]
  BY <1>2, <1>3, <1>4, <1>5, <1>9, StatementTells
<1>11. StoreTypeOK'
  BY <1>2, <1>5, <1>6, <1>7, <1>10 DEF StoreTypeOK, Stages
<1>12. CountsAreRight'
  <2> SUFFICES ASSUME NEW t \in SessionIds, sessions'[t] # Nothing
               PROVE  sessions'[t].count = Cardinality(ListBySession("messages", t)')
    BY DEF CountsAreRight
  <2>1. t # s /\ sessions'[t] = sessions[t]
    BY <1>6
  <2>2. ListBySession("messages", t)' = ListBySession("messages", t)
    BY <1>7, <1>8, <2>1 DEF ListBySession
  <2> QED
    BY <1>2, <2>1, <2>2 DEF CountsAreRight
<1>13. RowsHaveSessions'
  <2> SUFFICES ASSUME NEW r \in RowIds \ strays', dbRows'[r] # Nothing
               PROVE  sessions'[dbRows'[r].session] # Nothing
    BY DEF RowsHaveSessions
  <2>1. dbRows'[r] = dbRows[r] /\ r \notin own /\ r \notin strays
    BY <1>5, <1>7
  <2>2. dbRows[r].session \in SessionIds \ {s} /\ sessions[dbRows[r].session] # Nothing
    BY <1>2, <1>8, <2>1, StoreTypes DEF RowsHaveSessions, StoredRows
  <2> QED
    BY <1>6, <2>1, <2>2
<1> QED
  BY <1>10, <1>11, <1>12, <1>13 DEF StoreInv

(* What the triggers leave of the sessions when a row goes. *)
LEMMA CountedDown ==
  ASSUME StoreTypeOK, CountsAreRight, NEW r \in RowIds, dbRows[r] # Nothing,
         dbRows' = [dbRows EXCEPT ![r] = Nothing], sessions' = Counted(r, -1)
  PROVE  /\ sessions' \in [SessionIds -> StoredSessions \cup {Nothing}]
         /\ \A t \in SessionIds :
               /\ sessions'[t] = Nothing <=> sessions[t] = Nothing
               /\ sessions[t] # Nothing =>
                     /\ sessions'[t].title = sessions[t].title
                     /\ sessions'[t].count = Cardinality(ListBySession("messages", t)')
<1> PICK s : s = dbRows[r].session
  OBVIOUS
<1> DEFINE N(t) == Cardinality(ListBySession("messages", t))
           M(t) == Cardinality(ListBySession("messages", t)')
<1>1. s \in SessionIds
  BY StoreTypes DEF StoredRows
<1>2. \A t \in SessionIds :
         /\ M(t) = N(t) - (IF IsOf(dbRows[r], t) THEN 1 ELSE 0) /\ M(t) \in Nat
         /\ N(t) \in Nat
         /\ sessions[t] # Nothing => sessions[t].count = N(t)
  BY RowRemoved, ListsAreFinite DEF CountsAreRight
<1> HIDE DEF N, M
<1>3. CASE dbRows[r].table = "messages" /\ sessions[s] # Nothing
  <2>1. sessions' = [sessions EXCEPT ![s].count = sessions[s].count + (-1)]
    BY <1>3 DEF Counted
  <2>2. sessions[s].count + (-1) = M(s)
    BY <1>1, <1>2, <1>3 DEF IsOf
  <2>3. sessions' = [sessions EXCEPT ![s].count = M(s)]
    BY <2>1, <2>2
  <2>4. /\ sessions' \in [SessionIds -> StoredSessions \cup {Nothing}]
        /\ sessions'[s] # Nothing /\ sessions'[s].count = M(s)
        /\ sessions'[s].title = sessions[s].title
        /\ \A t \in SessionIds \ {s} : sessions'[t] = sessions[t]
    BY <1>1, <1>2, <1>3, <2>3, CountChanges
  <2>5. \A t \in SessionIds \ {s} : M(t) = N(t)
    BY <1>2 DEF IsOf
  <2> QED
    BY <1>2, <1>3, <2>4, <2>5 DEF M
<1>4. CASE ~(dbRows[r].table = "messages" /\ sessions[s] # Nothing)
  <2>1. sessions' = sessions
    BY <1>4 DEF Counted
  <2>2. \A t \in SessionIds : sessions[t] # Nothing => M(t) = N(t)
    BY <1>2, <1>4 DEF IsOf
  <2> QED
    BY <1>2, <2>1, <2>2 DEF M, StoreTypeOK
<1> QED
  BY <1>3, <1>4

LEMMA DeleteRowKeeps ==
  ASSUME StoreInv, NEW c \in Callers, DeleteRow(c)
  PROVE  StoreInv'
<1> PICK r : r = call[c].key
  OBVIOUS
<1>1. /\ call[c] \in Stages /\ call[c].at = "found" /\ r \in RowIds
      /\ Wrote(c, r, Nothing, call[c].left)
      /\ ops' = ops /\ dbTold' = dbTold /\ strays' = strays
      /\ StoreTypeOK /\ CountsAreRight /\ RowsHaveSessions
  BY StoreTypes DEF DeleteRow, StoreInv
<1>2. IF dbRows[r] = Nothing THEN UNCHANGED <<sessions, dbRows>>
      ELSE dbRows' = [dbRows EXCEPT ![r] = Nothing] /\ sessions' = Counted(r, -1)
  BY DEF DeleteRow, tables
<1>3. call[c].left \in Seq(Keys) /\ call[c].at # "publish" /\ r \in Keys \ SessionIds
  BY <1>1, StoreAssumption DEF Stages, Keys, StoreAssumption
<1>4. /\ dbRows' \in [RowIds -> StoredRows \cup {Nothing}] /\ dbRows'[r] = Nothing
      /\ \A q \in RowIds \ {r} : dbRows'[q] = dbRows[q]
  BY <1>1, <1>2 DEF StoreTypeOK
<1>5. /\ sessions' \in [SessionIds -> StoredSessions \cup {Nothing}]
      /\ \A t \in SessionIds :
            /\ sessions'[t] = Nothing <=> sessions[t] = Nothing
            /\ sessions[t] # Nothing =>
                  /\ sessions'[t].title = sessions[t].title
                  /\ sessions'[t].count = Cardinality(ListBySession("messages", t)')
  <2>1. CASE dbRows[r] = Nothing
    <3>1. \A t \in SessionIds : ListBySession("messages", t)' = ListBySession("messages", t)
      BY <1>2, <2>1 DEF ListBySession
    <3> QED
      BY <1>1, <1>2, <2>1, <3>1 DEF StoreTypeOK, CountsAreRight
  <2>2. CASE dbRows[r] # Nothing
    BY <1>1, <1>2, <2>2, CountedDown
  <2> QED
    BY <2>1, <2>2
<1>6. Seen(r)' = Nothing /\ \A k \in Keys \ {r} : Seen(k)' = Seen(k)
  BY <1>3, <1>4, <1>5 DEF Seen, Keys
<1>7. /\ EventsAreCurrent' /\ RestIsTold' /\ CallsHaveKeys'
      /\ call' \in [Callers -> Stages] /\ mixed' \subseteq Keys
  BY <1>1, <1>3, <1>6, WroteTells
<1>8. StoreTypeOK'
  BY <1>1, <1>4, <1>5, <1>7 DEF StoreTypeOK, Stages
<1>9. CountsAreRight'
  BY <1>5 DEF CountsAreRight
<1>10. RowsHaveSessions'
  <2> SUFFICES ASSUME NEW q \in RowIds \ strays', dbRows'[q] # Nothing
               PROVE  sessions'[dbRows'[q].session] # Nothing
    BY DEF RowsHaveSessions
  <2>1. q # r /\ dbRows'[q] = dbRows[q] /\ dbRows[q].session \in SessionIds
    BY <1>1, <1>4, StoreTypes DEF StoredRows
  <2> QED
    BY <1>1, <1>5, <2>1 DEF RowsHaveSessions
<1> QED
  BY <1>7, <1>8, <1>9, <1>10 DEF StoreInv

-----------------------------------------------------------------------------
(* What the services keep of the tables and of a listener: the events that are under way
   say what is stored, each the only one of its key, and everything else was told. *)
THEOREM StoreInvariance == StoreSpec => []StoreInv
<1>1. StoreInv /\ [StoreNext]_storeVars => StoreInv'
  <2> SUFFICES ASSUME StoreInv, [StoreNext]_storeVars PROVE StoreInv'
    OBVIOUS
  <2>1. ASSUME NEW c \in Callers, NEW s \in SessionIds, NEW v \in Values,
               NEW p \in (SessionIds \cup {Nothing}) \ {s}, CreateSession(c, s, p, v)
        PROVE  StoreInv'
    BY <2>1, CreateSessionKeeps
  <2>2. ASSUME NEW c \in Callers, NEW s \in SessionIds, NEW v \in Values,
               UpdateSession(c, s, v)
        PROVE  StoreInv'
    BY <2>2, UpdateSessionKeeps
  <2>3. ASSUME NEW c \in Callers, NEW r \in RowIds, NEW t \in {"messages", "files"},
               NEW v \in Values, NEW s \in SessionIds, CreateRow(c, r, t, s, v)
        PROVE  StoreInv'
    BY <2>3, CreateRowKeeps
  <2>4. ASSUME NEW c \in Callers, NEW r \in RowIds, NEW t \in {"messages", "files"},
               NEW v \in Values, UpdateRow(c, r, t, v)
        PROVE  StoreInv'
    BY <2>4, UpdateRowKeeps
  <2>5. ASSUME NEW c \in Callers, NEW k \in Keys, Delete(c, k) PROVE StoreInv'
    BY <2>5, DeleteKeeps
  <2>6. ASSUME NEW c \in Callers, NEW t \in {"messages", "files"}, NEW s \in SessionIds,
               DeleteSessionRows(c, t, s)
        PROVE  StoreInv'
    BY <2>6, DeleteSessionRowsKeeps
  <2>7. ASSUME NEW c \in Callers, Look(c) \/ DeleteSession(c) \/ DeleteRow(c) \/ Publish(c)
        PROVE  StoreInv'
    BY <2>7, LookKeeps, DeleteSessionKeeps, DeleteRowKeeps, PublishKeeps
  <2>8. ASSUME UNCHANGED storeVars PROVE StoreInv'
    <3>1. UNCHANGED <<sessions, dbRows, call, ops, dbTold, mixed, strays>>
      BY <2>8 DEF storeVars, tables
    <3> QED
      BY <3>1 DEF StoreInv, StoreTypeOK, CallsHaveKeys, KnowsKey, EventsAreCurrent,
                  CountsAreRight, RowsHaveSessions, RestIsTold, Publishes, Seen, ListBySession
  <2> QED
    BY <2>1, <2>2, <2>3, <2>4, <2>5, <2>6, <2>7, <2>8 DEF StoreNext
<1> QED
  BY <1>1, StoreStarts, PTL DEF StoreSpec

\* Every variable of the store has its type, in every state.
THEOREM StoreTypeCorrect == StoreSpec => []StoreTypeOK
<1>1. StoreInv => StoreTypeOK
  BY DEF StoreInv
<1> QED
  BY <1>1, StoreInvariance, PTL

(* A session counts its messages, a row has its session, and a listener has what is stored,
   but for the exceptions the model keeps a record of. *)
THEOREM StoreTold == StoreSpec => []StoreIsToldTruly
<1>1. StoreInv => StoreIsToldTruly
  BY DEF StoreInv, StoreIsToldTruly, CountsAreRight, RowsHaveSessions, RestIsTold, Publishes
<1> QED
  BY <1>1, StoreInvariance, PTL

-----------------------------------------------------------------------------
(* The parts of a message.  First, how some places of a sequence are listed.  *)

Lists(at, m, places) ==
    /\ at \in [1..m -> places]
    /\ \A j, k \in 1..m : j < k => at[j] < at[k]
    /\ \A i \in places : \E k \in 1..m : at[k] = i

LEMMA LeastExists ==
  ASSUME NEW S, S \subseteq Nat, S # {}
  PROVE  \E n \in S : \A m \in S : n <= m
<1> DEFINE R == {p \in Nat \X Nat : p[1] < p[2]}
<1>1. OpToRel(<, Nat) = R
  BY DEF OpToRel
<1>2. IsWellFoundedOn(R, Nat)
  BY <1>1, NatLessThanWellFounded
<1>3. PICK n \in S : \A m \in S : ~ (<<m, n>> \in R)
  BY <1>2, WFMin
<1>4. \A m \in S : ~(m < n)
  BY <1>3
<1> QED
  BY <1>4

LEMMA ListsBegin ==
  \A places \in SUBSET Nat, m \in Nat, n \in Nat : \A at, bt :
     Lists(at, m, places) /\ Lists(bt, n, places) =>
        \A k \in 1..m : k <= n /\ at[k] = bt[k]
<1> SUFFICES ASSUME NEW places \in SUBSET Nat, NEW m \in Nat, NEW n \in Nat, NEW at, NEW bt,
                    Lists(at, m, places), Lists(bt, n, places)
             PROVE  \A k \in 1..m : k <= n /\ at[k] = bt[k]
  OBVIOUS
<1> DEFINE Bad == {k \in 1..m : ~(k <= n /\ at[k] = bt[k])}
<1> SUFFICES ASSUME Bad # {} PROVE FALSE
  OBVIOUS
<1>1. Bad \subseteq Nat
  OBVIOUS
<1>2. PICK k \in Bad : \A j \in Bad : k <= j
  <2> HIDE DEF Bad
  <2> QED
    BY <1>1, LeastExists
<1>3. k \in 1..m /\ ~(k <= n /\ at[k] = bt[k])
      /\ \A j \in 1..m : j < k => j <= n /\ at[j] = bt[j]
  BY <1>2
<1>4. /\ \A i \in 1..m : at[i] \in places /\ at[i] \in Nat
      /\ \A i \in 1..n : bt[i] \in places /\ bt[i] \in Nat
      /\ \A i, j \in 1..m : i < j => at[i] < at[j]
      /\ \A i, j \in 1..n : i < j => bt[i] < bt[j]
      /\ \A i \in places : \E j \in 1..m : at[j] = i
      /\ \A i \in places : \E j \in 1..n : bt[j] = i
  BY DEF Lists
<1> HIDE DEF Bad
<1>5. PICK j \in 1..n : bt[j] = at[k]
  BY <1>3, <1>4
<1>6. ~(j < k)
  <2> SUFFICES ASSUME j < k PROVE FALSE
    OBVIOUS
  <2>1. j \in 1..m /\ at[j] = bt[j] /\ at[j] < at[k]
    BY <1>3, <1>4
  <2> QED
    BY <1>3, <1>4, <1>5, <2>1
<1>7. k \in 1..n /\ k < j /\ bt[k] < at[k]
  BY <1>3, <1>4, <1>5, <1>6
<1>8. PICK i \in 1..m : at[i] = bt[k]
  BY <1>4, <1>7
<1>9. i < k
  <2> SUFFICES ASSUME ~(i < k) PROVE FALSE
    OBVIOUS
  <2>1. i = k \/ k < i
    BY <1>3
  <2> QED
    BY <1>3, <1>4, <1>7, <1>8, <2>1
<1>10. bt[i] = bt[k] /\ i \in 1..n
  BY <1>3, <1>8, <1>9
<1> QED
  BY <1>4, <1>7, <1>9, <1>10

LEMMA ListsUnique ==
  ASSUME NEW places, places \subseteq Nat, NEW m \in Nat, NEW n \in Nat, NEW at, NEW bt,
         Lists(at, m, places), Lists(bt, n, places)
  PROVE  m = n /\ at = bt
<1>1. \A k \in 1..m : k <= n /\ at[k] = bt[k]
  BY ListsBegin
<1>2. \A k \in 1..n : k <= m /\ bt[k] = at[k]
  BY ListsBegin
<1>3. m = n
  <2>1. m <= n
    <3>1. CASE m = 0
      BY <3>1
    <3>2. CASE m > 0
      BY <1>1, <3>2
    <3> QED
      BY <3>1, <3>2
  <2>2. n <= m
    <3>1. CASE n = 0
      BY <3>1
    <3>2. CASE n > 0
      BY <1>2, <3>2
    <3> QED
      BY <3>1, <3>2
  <2> QED
    BY <2>1, <2>2
<1> QED
  BY <1>1, <1>3 DEF Lists

-----------------------------------------------------------------------------

\* The step of Picked.
PickStep(f, ps, places, n) ==
    IF n = 0 THEN <<>>
    ELSE IF n \in places THEN Append(f[n - 1], ps[n]) ELSE f[n - 1]
Picks(f, N, ps, places) == f = [n \in 0..N |-> PickStep(f, ps, places, n)]

LEMMA PicksExist ==
  ASSUME NEW ps, NEW places, NEW N \in Nat
  PROVE  \E f : Picks(f, N, ps, places)
<1> DEFINE Bad == {n \in Nat : ~ \E f : Picks(f, n, ps, places)}
<1> SUFFICES ASSUME Bad # {} PROVE FALSE
  OBVIOUS
<1>1. PICK n \in Bad : \A j \in Bad : n <= j
  <2>1. Bad \subseteq Nat
    OBVIOUS
  <2> HIDE DEF Bad
  <2> QED
    BY <2>1, LeastExists
<1>2. n \in Nat /\ ~ \E f : Picks(f, n, ps, places)
  OBVIOUS
<1>3. n # 0
  <2> SUFFICES ASSUME n = 0 PROVE FALSE
    OBVIOUS
  <2>1. Picks([i \in 0..n |-> <<>>], n, ps, places)
    BY DEF Picks, PickStep
  <2> QED
    BY <1>2, <2>1
<1>4. n - 1 \in Nat /\ n - 1 \notin Bad
  <2> HIDE DEF Bad
  <2>1. n - 1 \in Nat /\ ~(n <= n - 1)
    BY <1>2, <1>3
  <2> QED
    BY <1>1, <2>1
<1>5. PICK f : Picks(f, n - 1, ps, places)
  BY <1>4
<1> HIDE DEF Bad
<1> DEFINE g == [i \in 0..n |-> IF i = n THEN PickStep(f, ps, places, n) ELSE f[i]]
<1>6. \A i \in 0..(n - 1) : f[i] = PickStep(f, ps, places, i)
  BY <1>5 DEF Picks
<1>7. \A i \in 0..n : PickStep(g, ps, places, i) = PickStep(f, ps, places, i)
  BY <1>2 DEF PickStep
<1>8. \A i \in 0..n : g[i] = PickStep(g, ps, places, i)
  <2> SUFFICES ASSUME NEW i \in 0..n PROVE g[i] = PickStep(g, ps, places, i)
    OBVIOUS
  <2>1. CASE i = n
    BY <1>7, <2>1
  <2>2. CASE i # n
    BY <1>2, <1>6, <1>7, <2>2
  <2> QED
    BY <2>1, <2>2
<1>9. Picks(g, n, ps, places)
  <2>1. g = [i \in 0..n |-> g[i]]
    OBVIOUS
  <2> HIDE DEF g
  <2> QED
    BY <1>8, <2>1 DEF Picks
<1> QED
  BY <1>2, <1>9

LEMMA PickedIsPicks ==
  ASSUME NEW ps, NEW places, Len(ps) \in Nat
  PROVE  \E f : Picks(f, Len(ps), ps, places) /\ Picked(ps, places) = f[Len(ps)]
<1> DEFINE some == CHOOSE f : f = [n \in 0..Len(ps) |->
                      IF n = 0 THEN <<>>
                      ELSE IF n \in places THEN Append(f[n - 1], ps[n]) ELSE f[n - 1]]
<1>1. Picked(ps, places) = some[Len(ps)]
  BY DEF Picked
<1>2. \E f : f = [n \in 0..Len(ps) |->
                      IF n = 0 THEN <<>>
                      ELSE IF n \in places THEN Append(f[n - 1], ps[n]) ELSE f[n - 1]]
  <2>1. PICK f : Picks(f, Len(ps), ps, places)
    BY PicksExist
  <2>2. f = [n \in 0..Len(ps) |->
               IF n = 0 THEN <<>>
               ELSE IF n \in places THEN Append(f[n - 1], ps[n]) ELSE f[n - 1]]
    BY <2>1 DEF Picks, PickStep
  <2> QED
    BY <2>2
<1>3. Picks(some, Len(ps), ps, places)
  BY <1>2 DEF Picks, PickStep
<1> QED
  BY <1>1, <1>3

\* One place more, behind the others.
LEMMA ListsMore ==
  \A places \in SUBSET Nat, m \in Nat, n \in Nat : \A at :
     Lists(at, m, places) /\ (\A i \in places : i < n) =>
        Lists([k \in 1..(m + 1) |-> IF k = m + 1 THEN n ELSE at[k]], m + 1, places \cup {n})
<1> SUFFICES ASSUME NEW places \in SUBSET Nat, NEW m \in Nat, NEW n \in Nat, NEW at,
                    Lists(at, m, places), \A i \in places : i < n,
                    NEW bt, bt = [k \in 1..(m + 1) |-> IF k = m + 1 THEN n ELSE at[k]]
             PROVE  Lists(bt, m + 1, places \cup {n})
  OBVIOUS
<1>0. \A k \in 1..m : at[k] \in places
  BY DEF Lists
<1>1. \A k \in 1..m : /\ at[k] \in places /\ at[k] < n /\ at[k] \in Nat
                      /\ bt[k] = at[k] /\ k \in 1..(m + 1)
  <2> SUFFICES ASSUME NEW k \in 1..m
               PROVE  /\ at[k] \in places /\ at[k] < n /\ at[k] \in Nat
                      /\ bt[k] = at[k] /\ k \in 1..(m + 1)
    OBVIOUS
  <2>1. at[k] \in places /\ at[k] < n /\ at[k] \in Nat
    BY <1>0
  <2>2. k \in 1..(m + 1) /\ k # m + 1
    OBVIOUS
  <2> QED
    BY <2>1, <2>2
<1>2. bt[m + 1] = n /\ m + 1 \in 1..(m + 1)
  OBVIOUS
<1>3. bt \in [1..(m + 1) -> places \cup {n}]
  BY <1>1
<1>4. \A k \in 1..(m + 1) : k \in 1..m \/ k = m + 1
  OBVIOUS
<1>5. \A j, k \in 1..(m + 1) : j < k => bt[j] < bt[k]
  <2> SUFFICES ASSUME NEW j \in 1..(m + 1), NEW k \in 1..(m + 1), j < k PROVE bt[j] < bt[k]
    OBVIOUS
  <2>1. j \in 1..m
    OBVIOUS
  <2>2. CASE k \in 1..m
    BY <1>1, <2>1, <2>2 DEF Lists
  <2>3. CASE k = m + 1
    BY <1>1, <1>2, <2>1, <2>3
  <2> QED
    BY <1>4, <2>2, <2>3
<1>6. \A i \in places \cup {n} : \E k \in 1..(m + 1) : bt[k] = i
  <2> SUFFICES ASSUME NEW i \in places \cup {n} PROVE \E k \in 1..(m + 1) : bt[k] = i
    OBVIOUS
  <2>1. CASE i \in places
    <3>1. PICK k \in 1..m : at[k] = i
      BY <2>1 DEF Lists
    <3> QED
      BY <1>1, <3>1
  <2>2. CASE i = n
    BY <1>2, <2>2
  <2> QED
    BY <2>1, <2>2
<1> QED
  BY <1>3, <1>5, <1>6 DEF Lists

LEMMA PickedLists ==
  ASSUME NEW S, NEW ps \in Seq(S), NEW places \in SUBSET (DOMAIN ps)
  PROVE  \E m \in Nat : \E at : Lists(at, m, places)
                                /\ Picked(ps, places) = [k \in 1..m |-> ps[at[k]]]
<1>1. Len(ps) \in Nat /\ DOMAIN ps = 1..Len(ps) /\ \A i \in 1..Len(ps) : ps[i] \in S
  OBVIOUS
<1>7. places \subseteq 1..Len(ps) /\ Len(ps) \in Nat
  BY <1>1
<1>2. PICK f : Picks(f, Len(ps), ps, places) /\ Picked(ps, places) = f[Len(ps)]
  BY <1>1, PickedIsPicks
<1>3. \A n \in 0..Len(ps) : f[n] = PickStep(f, ps, places, n)
  BY <1>2 DEF Picks
<1> DEFINE Good(n) == \E m \in Nat : \E at : Lists(at, m, places \cap (1..n))
                                              /\ f[n] = [k \in 1..m |-> ps[at[k]]]
           Bad == {n \in 0..Len(ps) : ~Good(n)}
<1>4. Bad = {}
  <2> SUFFICES ASSUME Bad # {} PROVE FALSE
    OBVIOUS
  <2>1. PICK n \in Bad : \A j \in Bad : n <= j
    <3>1. Bad \subseteq Nat
      BY <1>1
    <3> HIDE DEF Bad
    <3> QED
      BY <3>1, LeastExists
  <2>2. n \in 0..Len(ps) /\ ~Good(n)
    BY <2>1
  <2> HIDE DEF Bad, Good
  <2>3. n # 0
    <3> SUFFICES ASSUME n = 0 PROVE FALSE
      OBVIOUS
    <3>1. f[n] = <<>>
      BY <1>1, <1>3, <2>2 DEF PickStep
    <3>2. places \cap (1..0) = {}
      OBVIOUS
    <3>3. Lists(<<>>, 0, places \cap (1..0))
      BY <3>2 DEF Lists
    <3>4. f[0] = [k \in 1..0 |-> ps[<<>>[k]]]
      BY <3>1
    <3>5. \E at : Lists(at, 0, places \cap (1..0)) /\ f[0] = [k \in 1..0 |-> ps[at[k]]]
      BY <3>3, <3>4
    <3>6. Good(0)
      BY <3>5 DEF Good
    <3> QED
      BY <2>2, <3>6
  <2>4. n - 1 \in 0..Len(ps) /\ n \in 1..Len(ps)
    BY <1>1, <2>2, <2>3
  <2>5. Good(n - 1)
    <3>1. n - 1 \notin Bad
      BY <1>7, <2>1, <2>4
    <3> QED
      BY <2>4, <3>1 DEF Bad
  <2>60. PICK m \in Nat : \E at : Lists(at, m, places \cap (1..(n - 1)))
                               /\ f[n - 1] = [k \in 1..m |-> ps[at[k]]]
    BY <2>5 DEF Good
  <2>6. PICK at : Lists(at, m, places \cap (1..(n - 1)))
                    /\ f[n - 1] = [k \in 1..m |-> ps[at[k]]]
    BY <2>60
  <2>7. CASE n \in places
    <3>1. f[n] = Append(f[n - 1], ps[n])
      BY <1>3, <2>2, <2>3, <2>7 DEF PickStep
    <3> DEFINE bt == [k \in 1..(m + 1) |-> IF k = m + 1 THEN n ELSE at[k]]
    <3>2. Lists(bt, m + 1, (places \cap (1..(n - 1))) \cup {n})
      <4>1. \A i \in places \cap (1..(n - 1)) : i < n
        BY <2>4
      <4>2. places \cap (1..(n - 1)) \in SUBSET Nat /\ n \in Nat
        BY <2>4
      <4> QED
        BY <2>6, <4>1, <4>2, ListsMore
    <3>3. (places \cap (1..(n - 1))) \cup {n} = places \cap (1..n)
      BY <1>7, <2>4, <2>7
    <3>4. \A k \in 1..m : at[k] \in 1..Len(ps)
      BY <1>1, <2>4, <2>6 DEF Lists
    <3>5. f[n] = [k \in 1..(m + 1) |-> ps[bt[k]]]
      <4>1. PICK q : q = f[n - 1]
        OBVIOUS
      <4>2. q \in Seq(S) /\ Len(q) = m /\ \A k \in 1..m : q[k] = ps[at[k]]
        <5>1. q = [k \in 1..m |-> ps[at[k]]]
          BY <2>6, <4>1
        <5>2. \A k \in 1..m : ps[at[k]] \in S
          BY <1>1, <3>4
        <5>3. q \in [1..m -> S]
          BY <5>1, <5>2
        <5> QED
          BY <5>1, <5>3
      <4>3. ps[n] \in S
        BY <1>1, <2>4
      <4>4. /\ Append(q, ps[n]) \in Seq(S) /\ Len(Append(q, ps[n])) = m + 1
            /\ Append(q, ps[n])[m + 1] = ps[n]
            /\ \A k \in 1..m : Append(q, ps[n])[k] = q[k]
        BY <4>2, <4>3, AppendProperties
      <4>5. DOMAIN Append(q, ps[n]) = 1..(m + 1)
        BY <4>4
      <4>6. \A k \in 1..(m + 1) : Append(q, ps[n])[k] = ps[bt[k]]
        BY <4>2, <4>4
      <4>7. Append(q, ps[n]) = [k \in 1..(m + 1) |-> Append(q, ps[n])[k]]
        BY <4>4, <4>5
      <4> QED
        BY <3>1, <4>1, <4>6, <4>7
    <3> HIDE DEF bt
    <3>6. m + 1 \in Nat
      OBVIOUS
    <3>7. Good(n)
      BY <3>2, <3>3, <3>5, <3>6 DEF Good
    <3> QED
      BY <2>2, <3>7
  <2>8. CASE n \notin places
    <3>1. f[n] = f[n - 1]
      BY <1>3, <2>2, <2>3, <2>8 DEF PickStep
    <3>2. places \cap (1..(n - 1)) = places \cap (1..n)
      BY <1>7, <2>4, <2>8
    <3>3. Good(n)
      <4>1. Lists(at, m, places \cap (1..n)) /\ f[n] = [k \in 1..m |-> ps[at[k]]]
        BY <2>6, <3>1, <3>2, Zenon
      <4> QED
        BY <4>1, Zenon DEF Good
    <3> QED
      BY <2>2, <3>3
  <2> QED
    BY <2>7, <2>8
<1>5. Good(Len(ps))
  <2> HIDE DEF Good
  <2> QED
    BY <1>1, <1>4
<1>6. places \cap (1..Len(ps)) = places
  BY <1>1
<1> QED
  BY <1>2, <1>5, <1>6

\* What Picked is, when the places are known.
LEMMA PickedIs ==
  \A S : \A ps \in Seq(S) : \A places \in SUBSET (DOMAIN ps) : \A m \in Nat : \A at :
     Lists(at, m, places) =>
        /\ Picked(ps, places) = [k \in 1..m |-> ps[at[k]]]
        /\ Picked(ps, places) \in Seq(S) /\ Len(Picked(ps, places)) = m
        /\ \A k \in 1..m : at[k] \in places /\ Picked(ps, places)[k] = ps[at[k]]
<1> SUFFICES ASSUME NEW S, NEW ps \in Seq(S), NEW places \in SUBSET (DOMAIN ps), NEW m \in Nat,
                    NEW at, Lists(at, m, places)
             PROVE  /\ Picked(ps, places) = [k \in 1..m |-> ps[at[k]]]
                    /\ Picked(ps, places) \in Seq(S) /\ Len(Picked(ps, places)) = m
                    /\ \A k \in 1..m : at[k] \in places /\ Picked(ps, places)[k] = ps[at[k]]
  OBVIOUS
<1>10. PICK n \in Nat : \E bt :
         Lists(bt, n, places) /\ Picked(ps, places) = [k \in 1..n |-> ps[bt[k]]]
  BY PickedLists
<1>1. PICK bt : Lists(bt, n, places) /\ Picked(ps, places) = [k \in 1..n |-> ps[bt[k]]]
  BY <1>10
<1>2. places \subseteq Nat
  OBVIOUS
<1>3. m = n /\ at = bt
  BY <1>1, <1>2, ListsUnique
<1>4. \A k \in 1..m : at[k] \in places
  BY DEF Lists
<1>5. \A k \in 1..m : ps[at[k]] \in S
  BY <1>4
<1> QED
  BY <1>1, <1>3, <1>4, <1>5

-----------------------------------------------------------------------------
(* What Picked makes of an append, and of two lists, one behind the other.    *)

LEMMA PickedAppend ==
  \A S : \A ps \in Seq(S) : \A x \in S : \A some \in SUBSET (DOMAIN ps) :
     /\ Picked(ps, some) \in Seq(S)
     /\ Picked(Append(ps, x), some) = Picked(ps, some)
     /\ Picked(Append(ps, x), some \cup {Len(ps) + 1}) = Append(Picked(ps, some), x)
<1> SUFFICES ASSUME NEW S, NEW ps \in Seq(S), NEW x \in S, NEW some \in SUBSET (DOMAIN ps)
             PROVE  /\ Picked(ps, some) \in Seq(S)
                    /\ Picked(Append(ps, x), some) = Picked(ps, some)
                    /\ Picked(Append(ps, x), some \cup {Len(ps) + 1})
                          = Append(Picked(ps, some), x)
  OBVIOUS
<1>1. PICK n, qs : n = Len(ps) /\ qs = Append(ps, x)
  OBVIOUS
<1>2. /\ n \in Nat /\ DOMAIN ps = 1..n
      /\ qs \in Seq(S) /\ DOMAIN qs = 1..(n + 1) /\ qs[n + 1] = x
      /\ \A i \in 1..n : qs[i] = ps[i]
  BY <1>1, AppendProperties
<1>30. PICK m \in Nat : \E at : Lists(at, m, some)
  BY PickedLists
<1>3. PICK at : Lists(at, m, some)
  BY <1>30
<1>4. PICK os : os = Picked(ps, some)
  OBVIOUS
<1>5. /\ os = [k \in 1..m |-> ps[at[k]]] /\ os \in Seq(S) /\ Len(os) = m
      /\ \A k \in 1..m : at[k] \in some /\ os[k] = ps[at[k]]
  BY <1>3, <1>4, PickedIs
<1>6. \A k \in 1..m : at[k] \in 1..n
  BY <1>2, <1>5
<1>7. Picked(qs, some) = os
  <2>1. some \in SUBSET (DOMAIN qs)
    BY <1>2
  <2>2. Picked(qs, some) = [k \in 1..m |-> qs[at[k]]]
    BY <1>2, <1>3, <2>1, PickedIs
  <2>3. \A k \in 1..m : qs[at[k]] = ps[at[k]]
    BY <1>2, <1>6
  <2> QED
    BY <1>5, <2>2, <2>3
<1>8. Picked(qs, some \cup {n + 1}) = Append(os, x)
  <2>1. PICK all \in SUBSET (DOMAIN qs) : all = some \cup {n + 1}
    <3>1. some \cup {n + 1} \in SUBSET (DOMAIN qs)
      BY <1>2
    <3> QED
      BY <3>1
  <2>2. PICK bt : bt = [k \in 1..(m + 1) |-> IF k = m + 1 THEN n + 1 ELSE at[k]]
    OBVIOUS
  <2>3. Lists(bt, m + 1, all)
    <3>1. some \in SUBSET Nat /\ \A i \in some : i < n + 1
      BY <1>2
    <3> QED
      BY <1>2, <1>3, <2>1, <2>2, <3>1, ListsMore
  <2>4. PICK N \in Nat : N = m + 1
    OBVIOUS
  <2>5. /\ Picked(qs, all) \in Seq(S) /\ Len(Picked(qs, all)) = m + 1
        /\ \A k \in 1..(m + 1) : Picked(qs, all)[k] = qs[bt[k]]
    <3>1. Lists(bt, N, all)
      BY <2>3, <2>4
    <3>2. /\ Picked(qs, all) \in Seq(S) /\ Len(Picked(qs, all)) = N
          /\ \A k \in 1..N : bt[k] \in all /\ Picked(qs, all)[k] = qs[bt[k]]
      <4>1. qs \in Seq(S)
        BY <1>2
      <4> HIDE <2>4
      <4> QED
        BY <4>1, <3>1, PickedIs
    <3> QED
      BY <2>4, <3>2
  <2>6. /\ Append(os, x) \in Seq(S) /\ Len(Append(os, x)) = m + 1 /\ Append(os, x)[m + 1] = x
        /\ \A k \in 1..m : Append(os, x)[k] = os[k]
    BY <1>5, AppendProperties
  <2>7. \A k \in 1..(m + 1) : qs[bt[k]] = Append(os, x)[k]
    <3> SUFFICES ASSUME NEW k \in 1..(m + 1) PROVE qs[bt[k]] = Append(os, x)[k]
      OBVIOUS
    <3>1. CASE k = m + 1
      BY <1>2, <2>2, <2>6, <3>1
    <3>2. CASE k # m + 1
      <4>1. k \in 1..m /\ bt[k] = at[k]
        BY <2>2, <3>2
      <4> QED
        BY <1>2, <1>5, <1>6, <2>6, <4>1
    <3> QED
      BY <3>1, <3>2
  <2>8. Picked(qs, all) = Append(os, x)
    BY <2>5, <2>6, <2>7, SeqEqual
  <2> QED
    BY <2>1, <2>8
<1> QED
  BY <1>1, <1>4, <1>5, <1>7, <1>8

-----------------------------------------------------------------------------
(* What the changes of a message make of its parts of one kind.              *)

OfKind(ps, kind) == {i \in DOMAIN ps : ps[i].kind = kind}

LEMMA OfLists ==
  \A S : \A ps \in Seq(S) : \A kind :
     \E m \in Nat : \E at :
        /\ Lists(at, m, OfKind(ps, kind))
        /\ Of(ps, kind) = [k \in 1..m |-> ps[at[k]]]
<1> SUFFICES ASSUME NEW S, NEW ps \in Seq(S), NEW kind
             PROVE  \E m \in Nat : \E at :
                       /\ Lists(at, m, OfKind(ps, kind))
                       /\ Of(ps, kind) = [k \in 1..m |-> ps[at[k]]]
  OBVIOUS
<1>1. Of(ps, kind) = Picked(ps, OfKind(ps, kind)) /\ OfKind(ps, kind) \in SUBSET (DOMAIN ps)
  BY DEF Of, OfKind
<1> QED
  BY <1>1, PickedLists

LEMMA OfIs ==
  \A S : \A ps \in Seq(S) : \A kind : \A m \in Nat : \A at :
     Lists(at, m, OfKind(ps, kind)) =>
        /\ Of(ps, kind) = [k \in 1..m |-> ps[at[k]]]
        /\ Of(ps, kind) \in Seq(S) /\ Len(Of(ps, kind)) = m
        /\ \A k \in 1..m : at[k] \in OfKind(ps, kind) /\ Of(ps, kind)[k] = ps[at[k]]
<1> SUFFICES ASSUME NEW S, NEW ps \in Seq(S), NEW kind, NEW m \in Nat, NEW at,
                    Lists(at, m, OfKind(ps, kind))
             PROVE  /\ Of(ps, kind) = [k \in 1..m |-> ps[at[k]]]
                    /\ Of(ps, kind) \in Seq(S) /\ Len(Of(ps, kind)) = m
                    /\ \A k \in 1..m : at[k] \in OfKind(ps, kind) /\ Of(ps, kind)[k] = ps[at[k]]
  OBVIOUS
<1>1. Of(ps, kind) = Picked(ps, OfKind(ps, kind)) /\ OfKind(ps, kind) \in SUBSET (DOMAIN ps)
  BY DEF Of, OfKind
<1> QED
  BY <1>1, PickedIs

LEMMA OfNothing ==
  \A S : \A ps \in Seq(S) : \A kind :
     /\ Of(ps, kind) \in Seq(S)
     /\ Of(ps, kind) = <<>> <=> OfKind(ps, kind) = {}
     /\ Len(Of(ps, kind)) <= 1 <=> \A i, j \in OfKind(ps, kind) : i = j
     /\ \A i \in OfKind(ps, kind) : Len(Of(ps, kind)) <= 1 => Of(ps, kind) = <<ps[i]>>
<1> SUFFICES ASSUME NEW S, NEW ps \in Seq(S), NEW kind
             PROVE  /\ Of(ps, kind) \in Seq(S)
                    /\ Of(ps, kind) = <<>> <=> OfKind(ps, kind) = {}
                    /\ Len(Of(ps, kind)) <= 1 <=> \A i, j \in OfKind(ps, kind) : i = j
                    /\ \A i \in OfKind(ps, kind) :
                          Len(Of(ps, kind)) <= 1 => Of(ps, kind) = <<ps[i]>>
  OBVIOUS
<1>10. PICK m \in Nat : \E at : Lists(at, m, OfKind(ps, kind))
  BY OfLists
<1>1. PICK at : Lists(at, m, OfKind(ps, kind))
  BY <1>10
<1>2. PICK qs : qs = Of(ps, kind)
  OBVIOUS
<1>3. /\ qs \in Seq(S) /\ Len(qs) = m
      /\ \A k \in 1..m : at[k] \in OfKind(ps, kind) /\ qs[k] = ps[at[k]]
  BY <1>1, <1>2, OfIs
<1>4. /\ \A i \in OfKind(ps, kind) : \E k \in 1..m : at[k] = i
      /\ \A j, k \in 1..m : j < k => at[j] < at[k]
      /\ \A i \in OfKind(ps, kind) : i \in Nat
  BY <1>1 DEF Lists, OfKind
<1>5. qs = <<>> <=> m = 0
  BY <1>3
<1>6. m = 0 <=> OfKind(ps, kind) = {}
  <2>1. m = 0 => 1..m = {}
    OBVIOUS
  <2>2. m # 0 => 1 \in 1..m
    OBVIOUS
  <2> QED
    BY <1>3, <1>4, <2>1, <2>2
<1>7. m <= 1 <=> \A i, j \in OfKind(ps, kind) : i = j
  <2>1. ASSUME m <= 1, NEW i \in OfKind(ps, kind), NEW j \in OfKind(ps, kind) PROVE i = j
    <3>1. PICK k \in 1..m : at[k] = i
      BY <1>4
    <3>2. PICK l \in 1..m : at[l] = j
      BY <1>4
    <3> QED
      BY <2>1, <3>1, <3>2
  <2>2. ASSUME \A i, j \in OfKind(ps, kind) : i = j PROVE m <= 1
    <3> SUFFICES ASSUME ~(m <= 1) PROVE FALSE
      OBVIOUS
    <3>1. 1 \in 1..m /\ 2 \in 1..m
      OBVIOUS
    <3>2. at[1] < at[2] /\ at[1] = at[2] /\ at[1] \in Nat
      BY <1>3, <1>4, <2>2, <3>1
    <3> QED
      BY <3>2
  <2> QED
    BY <2>1, <2>2
<1>8. ASSUME NEW i \in OfKind(ps, kind), m <= 1 PROVE qs = <<ps[i]>>
  <2>1. PICK k \in 1..m : at[k] = i
    BY <1>4
  <2>2. m = 1 /\ k = 1
    BY <1>8, <2>1
  <2>3. qs[1] = ps[i] /\ ps[i] \in S
    BY <1>3, <2>1, <2>2 DEF OfKind
  <2> QED
    BY <1>3, <2>2, <2>3
<1> QED
  BY <1>2, <1>3, <1>5, <1>6, <1>7, <1>8

\* The part appended is the last of its kind.
LEMMA OfAppend ==
  \A S : \A ps \in Seq(S) : \A x \in S : \A kind :
     /\ Of(Append(ps, x), kind) = IF x.kind = kind THEN Append(Of(ps, kind), x) ELSE Of(ps, kind)
     /\ AllBut(Append(ps, x), kind)
           = IF x.kind # kind THEN Append(AllBut(ps, kind), x) ELSE AllBut(ps, kind)
<1> SUFFICES ASSUME NEW S, NEW ps \in Seq(S), NEW x \in S, NEW kind
             PROVE  /\ Of(Append(ps, x), kind) = IF x.kind = kind THEN Append(Of(ps, kind), x)
                                                 ELSE Of(ps, kind)
                    /\ AllBut(Append(ps, x), kind)
                          = IF x.kind # kind THEN Append(AllBut(ps, kind), x) ELSE AllBut(ps, kind)
  OBVIOUS
<1>0. PICK n, qs : n = Len(ps) /\ qs = Append(ps, x)
  OBVIOUS
<1>1. /\ n \in Nat /\ DOMAIN ps = 1..n
      /\ qs \in Seq(S) /\ DOMAIN qs = 1..(n + 1) /\ qs[n + 1] = x
      /\ \A i \in 1..n : qs[i] = ps[i]
  BY <1>0, AppendProperties
<1>2. PICK some \in SUBSET (DOMAIN ps) : some = OfKind(ps, kind)
  BY DEF OfKind
<1>3. PICK most \in SUBSET (DOMAIN ps) : most = {i \in DOMAIN ps : ps[i].kind # kind}
  OBVIOUS
<1>4. /\ Of(ps, kind) = Picked(ps, some) /\ AllBut(ps, kind) = Picked(ps, most)
      /\ Of(qs, kind) = Picked(qs, OfKind(qs, kind))
      /\ AllBut(qs, kind) = Picked(qs, {i \in DOMAIN qs : qs[i].kind # kind})
  BY <1>2, <1>3 DEF Of, AllBut, OfKind
<1>5. /\ Picked(qs, some) = Picked(ps, some) /\ Picked(qs, most) = Picked(ps, most)
      /\ Picked(qs, some \cup {n + 1}) = Append(Picked(ps, some), x)
      /\ Picked(qs, most \cup {n + 1}) = Append(Picked(ps, most), x)
  <2> HIDE <1>0
  <2>1. ASSUME NEW t \in SUBSET (DOMAIN ps)
        PROVE  /\ Picked(Append(ps, x), t) = Picked(ps, t)
               /\ Picked(Append(ps, x), t \cup {Len(ps) + 1}) = Append(Picked(ps, t), x)
    BY PickedAppend
  <2> QED
    BY <1>0, <2>1, Zenon
<1>6. OfKind(qs, kind) = IF x.kind = kind THEN some \cup {n + 1} ELSE some
  BY <1>1, <1>2 DEF OfKind
<1>7. {i \in DOMAIN qs : qs[i].kind # kind} = IF x.kind # kind THEN most \cup {n + 1} ELSE most
  BY <1>1, <1>3
<1>8. /\ Of(qs, kind) = IF x.kind = kind THEN Append(Of(ps, kind), x) ELSE Of(ps, kind)
      /\ AllBut(qs, kind) = IF x.kind # kind THEN Append(AllBut(ps, kind), x)
                             ELSE AllBut(ps, kind)
  BY <1>4, <1>5, <1>6, <1>7
<1> QED
  BY <1>0, <1>8, Zenon

LEMMA OfEmpty ==
  \A kind : Of(<<>>, kind) = <<>> /\ AllBut(<<>>, kind) = <<>>
<1> SUFFICES ASSUME NEW kind PROVE Of(<<>>, kind) = <<>> /\ AllBut(<<>>, kind) = <<>>
  OBVIOUS
<1>1. <<>> \in Seq({}) /\ DOMAIN <<>> = {}
  OBVIOUS
<1>2. \A places \in SUBSET (DOMAIN <<>>) : Picked(<<>>, places) = <<>>
  <2> SUFFICES ASSUME NEW places \in SUBSET (DOMAIN <<>>) PROVE Picked(<<>>, places) = <<>>
    OBVIOUS
  <2>1. Lists(<<>>, 0, places)
    BY <1>1 DEF Lists
  <2>2. Picked(<<>>, places) \in Seq({}) /\ Len(Picked(<<>>, places)) = 0
    BY <1>1, <2>1, PickedIs
  <2> QED
    BY <2>2
<1> QED
  BY <1>1, <1>2 DEF Of, AllBut

\* Every sequence is empty, or an append to a shorter one.
LEMMA LastOne ==
  \A S : \A ps \in Seq(S) : ps # <<>> =>
     \E qs \in Seq(S), x \in S : ps = Append(qs, x) /\ Len(qs) = Len(ps) - 1
<1> SUFFICES ASSUME NEW S, NEW ps \in Seq(S), ps # <<>>
             PROVE  \E qs \in Seq(S), x \in S : ps = Append(qs, x) /\ Len(qs) = Len(ps) - 1
  OBVIOUS
<1>1. PICK n \in Nat : n = Len(ps) /\ n > 0
  BY EmptySeq, LenProperties
<1>2. PICK qs : qs = [i \in 1..(n - 1) |-> ps[i]]
  OBVIOUS
<1>3. qs \in Seq(S) /\ Len(qs) = n - 1 /\ \A i \in 1..(n - 1) : qs[i] = ps[i]
  <2>1. qs \in [1..(n - 1) -> S] /\ n - 1 \in Nat
    BY <1>1, <1>2
  <2> QED
    BY <1>2, <2>1
<1>4. ps[n] \in S
  BY <1>1
<1>5. /\ Append(qs, ps[n]) \in Seq(S) /\ Len(Append(qs, ps[n])) = n
      /\ \A i \in 1..(n - 1) : Append(qs, ps[n])[i] = ps[i]
      /\ Append(qs, ps[n])[n] = ps[n]
  BY <1>1, <1>3, <1>4, AppendProperties
<1>6. \A i \in 1..n : Append(qs, ps[n])[i] = ps[i]
  BY <1>1, <1>5
<1>7. ps = Append(qs, ps[n])
  BY <1>1, <1>5, <1>6, SeqEqual
<1> QED
  BY <1>1, <1>3, <1>4, <1>7

\* ps, and then qs
Then(ps, qs) == ps \o qs

LEMMA AppendOver ==
  \A S : \A s \in Seq(S) : \A t \in Seq(S) : \A x \in S :
     Then(s, t) \in Seq(S) /\ Then(s, Append(t, x)) = Append(Then(s, t), x)
<1> SUFFICES ASSUME NEW S, NEW s \in Seq(S), NEW t \in Seq(S), NEW x \in S
             PROVE  s \o t \in Seq(S) /\ s \o Append(t, x) = Append(s \o t, x)
  BY Zenon DEF Then
<1>1. <<x>> \in Seq(S) /\ s \o t \in Seq(S)
  BY ConcatProperties
<1>2. Append(t, x) = t \o <<x>>
  BY AppendIsConcat
<1>3. Append(s \o t, x) = (s \o t) \o <<x>>
  BY <1>1, AppendIsConcat
<1>4. (s \o t) \o <<x>> = s \o (t \o <<x>>)
  BY <1>1, ConcatAssociative
<1> QED
  BY <1>1, <1>2, <1>3, <1>4

LEMMA OfThenMore ==
  \A S : \A ps \in Seq(S) : \A rs \in Seq(S) : \A x \in S : \A kind :
     Of(Then(ps, rs), kind) = Then(Of(ps, kind), Of(rs, kind))
     => Of(Then(ps, Append(rs, x)), kind) = Then(Of(ps, kind), Of(Append(rs, x), kind))
<1> SUFFICES ASSUME NEW S, NEW ps \in Seq(S), NEW rs \in Seq(S), NEW x \in S, NEW kind,
                    Of(Then(ps, rs), kind) = Then(Of(ps, kind), Of(rs, kind))
             PROVE  Of(Then(ps, Append(rs, x)), kind) = Then(Of(ps, kind), Of(Append(rs, x), kind))
  OBVIOUS
<1>1. Then(ps, Append(rs, x)) = Append(Then(ps, rs), x)
  BY AppendOver
<1>2. PICK pr \in Seq(S) : pr = Then(ps, rs)
  BY AppendOver
<1>3. /\ Of(Append(pr, x), kind) = IF x.kind = kind THEN Append(Of(pr, kind), x) ELSE Of(pr, kind)
      /\ Of(Append(rs, x), kind) = IF x.kind = kind THEN Append(Of(rs, kind), x) ELSE Of(rs, kind)
  BY OfAppend
<1>4. PICK s \in Seq(S), t \in Seq(S) : s = Of(ps, kind) /\ t = Of(rs, kind)
  BY OfNothing
<1>5. Then(s, Append(t, x)) = Append(Then(s, t), x)
  BY AppendOver
<1> QED
  BY <1>1, <1>2, <1>3, <1>4, <1>5, Zenon

\* Of two lists, one behind the other, the parts of a kind come one behind the other.
LEMMA OfThen ==
  \A S : \A ps \in Seq(S) : \A qs \in Seq(S) : \A kind :
     Of(Then(ps, qs), kind) = Then(Of(ps, kind), Of(qs, kind))
<1> SUFFICES ASSUME NEW S, NEW ps \in Seq(S), NEW kind
             PROVE  \A qs \in Seq(S) : Of(Then(ps, qs), kind) = Then(Of(ps, kind), Of(qs, kind))
  OBVIOUS
<1> DEFINE Good(qs) == Of(Then(ps, qs), kind) = Then(Of(ps, kind), Of(qs, kind))
           Bad == {n \in Nat : \E qs \in Seq(S) : Len(qs) = n /\ ~Good(qs)}
<1>1. Bad = {}
  <2> SUFFICES ASSUME Bad # {} PROVE FALSE
    OBVIOUS
  <2>1. PICK n \in Bad : \A j \in Bad : n <= j
    <3>1. Bad \subseteq Nat
      OBVIOUS
    <3> HIDE DEF Bad
    <3> QED
      BY <3>1, LeastExists
  <2>2. PICK qs \in Seq(S) : Len(qs) = n /\ ~Good(qs)
    OBVIOUS
  <2>3. n \in Nat
    OBVIOUS
  <2>4. CASE qs = <<>>
    <3>1. ps \o <<>> = ps /\ Of(<<>>, kind) = <<>>
      BY ConcatEmptySeq, OfEmpty
    <3>2. Of(ps, kind) \in Seq(S)
      BY OfNothing
    <3>3. Of(ps, kind) \o <<>> = Of(ps, kind)
      BY <3>2, ConcatEmptySeq
    <3> QED
      BY <2>2, <2>4, <3>1, <3>3 DEF Then
  <2>5. CASE qs # <<>>
    <3>1. PICK rs \in Seq(S), x \in S : qs = Append(rs, x) /\ Len(rs) = Len(qs) - 1
      BY <2>5, LastOne
    <3>2. Len(rs) \in Nat /\ ~(n <= Len(rs))
      BY <2>2, <2>3, <3>1
    <3>3. Len(rs) \notin Bad
      <4> HIDE DEF Bad
      <4> QED
        BY <2>1, <3>2
    <3>4. Good(rs)
      <4> HIDE DEF Good
      <4> QED
        BY <3>2, <3>3
    <3>5. Good(Append(rs, x))
      BY <3>4, OfThenMore
    <3> HIDE DEF Good
    <3> QED
      BY <2>2, <3>1, <3>5
  <2> QED
    BY <2>4, <2>5
<1>2. \A qs \in Seq(S) : Len(qs) \in Nat
  BY LenProperties
<1> QED
  BY <1>1, <1>2

\* Without the parts of one kind, those of the others are as they were.
LEMMA OfAllBut ==
  \A S : \A kind : \A other : \A ps \in Seq(S) :
     /\ AllBut(ps, kind) \in Seq(S)
     /\ Of(AllBut(ps, kind), other) = IF other = kind THEN <<>> ELSE Of(ps, other)
<1> SUFFICES ASSUME NEW S, NEW kind, NEW other
             PROVE  \A ps \in Seq(S) :
                       /\ AllBut(ps, kind) \in Seq(S)
                       /\ Of(AllBut(ps, kind), other)
                             = IF other = kind THEN <<>> ELSE Of(ps, other)
  OBVIOUS
<1> DEFINE Good(ps) == /\ AllBut(ps, kind) \in Seq(S)
                       /\ Of(AllBut(ps, kind), other)
                             = IF other = kind THEN <<>> ELSE Of(ps, other)
           Bad == {n \in Nat : \E ps \in Seq(S) : Len(ps) = n /\ ~Good(ps)}
<1>1. Bad = {}
  <2> SUFFICES ASSUME Bad # {} PROVE FALSE
    OBVIOUS
  <2>1. PICK n \in Bad : \A j \in Bad : n <= j
    <3>1. Bad \subseteq Nat
      OBVIOUS
    <3> HIDE DEF Bad
    <3> QED
      BY <3>1, LeastExists
  <2>2. PICK ps \in Seq(S) : Len(ps) = n /\ ~Good(ps)
    OBVIOUS
  <2>3. n \in Nat
    OBVIOUS
  <2>4. CASE ps = <<>>
    <3>1. AllBut(ps, kind) = <<>> /\ Of(<<>>, other) = <<>> /\ <<>> \in Seq(S)
      BY <2>4, OfEmpty, EmptySeq
    <3> QED
      BY <2>2, <2>4, <3>1
  <2>5. CASE ps # <<>>
    <3>1. PICK qs \in Seq(S), x \in S : ps = Append(qs, x) /\ Len(qs) = Len(ps) - 1
      BY <2>5, LastOne
    <3>2. Good(qs)
      <4>1. Len(qs) \in Nat /\ ~(n <= Len(qs))
        BY <2>2, <2>3, <3>1
      <4>2. Len(qs) \notin Bad
        <5> HIDE DEF Bad
        <5> QED
          BY <2>1, <4>1
      <4> HIDE DEF Good
      <4> QED
        BY <4>1, <4>2
    <3>3. /\ AllBut(ps, kind) = IF x.kind # kind THEN Append(AllBut(qs, kind), x)
                                ELSE AllBut(qs, kind)
          /\ Of(ps, other) = IF x.kind = other THEN Append(Of(qs, other), x) ELSE Of(qs, other)
      BY <3>1, OfAppend
    <3>4. Of(Append(AllBut(qs, kind), x), other)
             = IF x.kind = other THEN Append(Of(AllBut(qs, kind), other), x)
               ELSE Of(AllBut(qs, kind), other)
      BY <3>2, OfAppend
    <3>5. Append(AllBut(qs, kind), x) \in Seq(S)
      BY <3>2, AppendProperties
    <3>6. CASE x.kind = kind
      BY <2>2, <3>2, <3>3, <3>6
    <3>7. CASE x.kind # kind
      BY <2>2, <3>2, <3>3, <3>4, <3>5, <3>7
    <3> QED
      BY <3>6, <3>7
  <2> QED
    BY <2>4, <2>5
<1>2. \A qs \in Seq(S) : Len(qs) \in Nat
  BY LenProperties
<1> QED
  BY <1>1, <1>2

\* Of a kind whose parts are as they were, nothing changes.
LEMMA OfSame ==
  \A S : \A ps \in Seq(S), qs \in Seq(S) : \A kind :
     /\ OfKind(qs, kind) = OfKind(ps, kind)
     /\ \A i \in OfKind(ps, kind) : qs[i] = ps[i]
     => Of(qs, kind) = Of(ps, kind)
<1> SUFFICES ASSUME NEW S, NEW ps \in Seq(S), NEW qs \in Seq(S), NEW kind,
                    OfKind(qs, kind) = OfKind(ps, kind),
                    \A i \in OfKind(ps, kind) : qs[i] = ps[i]
             PROVE  Of(qs, kind) = Of(ps, kind)
  OBVIOUS
<1>10. PICK m \in Nat : \E at : Lists(at, m, OfKind(ps, kind))
  BY OfLists
<1>1. PICK at : Lists(at, m, OfKind(ps, kind))
  BY <1>10
<1>2. /\ Of(ps, kind) = [k \in 1..m |-> ps[at[k]]]
      /\ \A k \in 1..m : at[k] \in OfKind(ps, kind)
  BY <1>1, OfIs
<1>3. Of(qs, kind) = [k \in 1..m |-> qs[at[k]]]
  BY <1>1, OfIs
<1> QED
  BY <1>2, <1>3

\* One part of a kind made another of the kind changes the list of the kind in one place.
Placed(ps, i, x) == [ps EXCEPT ![i] = x]

LEMMA OfChange ==
  \A S : \A ps \in Seq(S) : \A kind : \A i \in OfKind(ps, kind) : \A x \in S :
     x.kind = kind =>
        /\ Placed(ps, i, x) \in Seq(S)
        /\ \A other : other # kind => Of(Placed(ps, i, x), other) = Of(ps, other)
        /\ \E k \in 1..Len(Of(ps, kind)) :
              /\ Of(ps, kind)[k] = ps[i]
              /\ Of(Placed(ps, i, x), kind) = Placed(Of(ps, kind), k, x)
              /\ \A j \in 1..Len(Of(ps, kind)) : j < k =>
                    \E l \in OfKind(ps, kind) : l < i /\ Of(ps, kind)[j] = ps[l]
<1> SUFFICES ASSUME NEW S, NEW ps \in Seq(S), NEW kind, NEW i \in OfKind(ps, kind), NEW x \in S,
                    x.kind = kind
             PROVE  /\ Placed(ps, i, x) \in Seq(S)
                    /\ \A other : other # kind => Of(Placed(ps, i, x), other) = Of(ps, other)
                    /\ \E k \in 1..Len(Of(ps, kind)) :
                          /\ Of(ps, kind)[k] = ps[i]
                          /\ Of(Placed(ps, i, x), kind) = Placed(Of(ps, kind), k, x)
                          /\ \A j \in 1..Len(Of(ps, kind)) : j < k =>
                                \E l \in OfKind(ps, kind) : l < i /\ Of(ps, kind)[j] = ps[l]
  OBVIOUS
<1>0. PICK qs : qs = Placed(ps, i, x)
  OBVIOUS
<1> DEFINE os == Of(ps, kind)
<1>1. /\ i \in DOMAIN ps /\ ps[i].kind = kind
      /\ qs \in Seq(S) /\ DOMAIN qs = DOMAIN ps /\ qs[i] = x
      /\ \A j \in DOMAIN ps : j # i => qs[j] = ps[j]
  <2> HIDE DEF os
  <2>1. i \in 1..Len(ps) /\ ps[i].kind = kind /\ DOMAIN ps = 1..Len(ps)
    BY LenProperties DEF OfKind
  <2>2. qs \in Seq(S)
    BY <1>0, <2>1, ExceptSeq DEF Placed
  <2> QED
    BY <1>0, <2>1, <2>2 DEF Placed
<1>2. \A other : OfKind(qs, other) = OfKind(ps, other)
  BY <1>1 DEF OfKind
<1>3. ASSUME NEW other, other # kind PROVE Of(qs, other) = Of(ps, other)
  <2>1. OfKind(qs, other) = OfKind(ps, other) /\ \A j \in OfKind(ps, other) : qs[j] = ps[j]
    BY <1>1, <1>2, <1>3 DEF OfKind
  <2> QED
    BY <1>1, <2>1, OfSame
<1>40. PICK m \in Nat : \E at : Lists(at, m, OfKind(ps, kind))
  BY OfLists
<1>4. PICK at : Lists(at, m, OfKind(ps, kind))
  BY <1>40
<1>5. /\ os = [k \in 1..m |-> ps[at[k]]] /\ os \in Seq(S) /\ Len(os) = m
      /\ \A k \in 1..m : at[k] \in OfKind(ps, kind) /\ os[k] = ps[at[k]]
  BY <1>4, OfIs
<1> HIDE DEF os
<1>6. Of(qs, kind) = [k \in 1..m |-> qs[at[k]]]
  <2>1. qs \in Seq(S) /\ Lists(at, m, OfKind(qs, kind))
    BY <1>1, <1>2, <1>4
  <2> QED
    BY <2>1, OfIs
<1>7. /\ \A j, k \in 1..m : j < k => at[j] < at[k]
      /\ \A j \in OfKind(ps, kind) : j \in Nat
  BY <1>4 DEF Lists, OfKind
<1>8. PICK k \in 1..m : at[k] = i
  BY <1>4 DEF Lists
<1>9. \A j \in 1..m : j # k => at[j] # i
  BY <1>5, <1>7, <1>8
<1>10. Of(qs, kind) = Placed(os, k, x)
  <2>1. \A j \in 1..m : qs[at[j]] = IF j = k THEN x ELSE os[j]
    BY <1>1, <1>5, <1>8, <1>9 DEF OfKind
  <2> QED
    BY <1>5, <1>6, <2>1 DEF Placed
<1>11. \A j \in 1..m : j < k => \E l \in OfKind(ps, kind) : l < i /\ os[j] = ps[l]
  BY <1>5, <1>7, <1>8
<1> QED
  BY <1>0, <1>1, <1>3, <1>5, <1>8, <1>10, <1>11 DEF os

\* The part removed is missed by its own kind only.
LEMMA OfRemoved ==
  \A S : \A ps \in Seq(S) : \A i \in DOMAIN ps :
     /\ RemoveAt(ps, i) \in Seq(S)
     /\ \A kind : kind # ps[i].kind => Of(RemoveAt(ps, i), kind) = Of(ps, kind)
     /\ Len(Of(ps, ps[i].kind)) <= 1 => Of(RemoveAt(ps, i), ps[i].kind) = <<>>
<1> SUFFICES ASSUME NEW S, NEW ps \in Seq(S), NEW i \in DOMAIN ps
             PROVE  /\ RemoveAt(ps, i) \in Seq(S)
                    /\ \A kind : kind # ps[i].kind => Of(RemoveAt(ps, i), kind) = Of(ps, kind)
                    /\ Len(Of(ps, ps[i].kind)) <= 1 => Of(RemoveAt(ps, i), ps[i].kind) = <<>>
  OBVIOUS
<1>1. PICK n, A, B, p : /\ n = Len(ps) /\ p = ps[i]
                        /\ A = SubSeq(ps, 1, i - 1) /\ B = SubSeq(ps, i + 1, Len(ps))
  OBVIOUS
<1>2. n \in Nat /\ i \in 1..n /\ DOMAIN ps = 1..n /\ p \in S
  BY <1>1, LenProperties
<1>3. A \in Seq(S) /\ B \in Seq(S) /\ <<p>> \in Seq(S) /\ SubSeq(ps, i, n) \in Seq(S)
  <2>1. \A j, k \in Int : 1 <= j /\ k <= n => SubSeq(ps, j, k) \in Seq(S)
    BY <1>1, <1>2, SubSeqProperties
  <2> QED
    BY <1>1, <1>2, <2>1
<1>4. RemoveAt(ps, i) = Then(A, B)
  BY <1>1, Zenon DEF RemoveAt, Then
<1>5. ps = Then(A, Then(<<p>>, B))
  <2>1. SubSeq(ps, 1, n) = ps
    BY <1>1, SubSeqFull
  <2>2. SubSeq(ps, 1, i - 1) \o SubSeq(ps, (i - 1) + 1, n) = SubSeq(ps, 1, n)
    <3>1. 1 \in 1..(Len(ps) + 1) /\ i - 1 \in (1 - 1)..Len(ps) /\ n \in (i - 1)..Len(ps)
      BY <1>1, <1>2
    <3> QED
      BY <3>1, ConcatAdjacentSubSeq
  <2>3. (i - 1) + 1 = i
    BY <1>2
  <2>4. SubSeq(ps, i, n) = <<ps[i]>> \o SubSeq(ps, i + 1, n)
    <3>1. i \in 1..Len(ps) /\ n \in i..Len(ps)
      BY <1>1, <1>2
    <3> QED
      BY <3>1, SubSeqRecursiveFirst
  <2> QED
    BY <1>1, <2>1, <2>2, <2>3, <2>4, Zenon DEF Then
<1>6. Then(A, B) \in Seq(S) /\ Then(<<p>>, B) \in Seq(S)
  BY <1>3, ConcatProperties DEF Then
<1>7. ASSUME NEW kind
      PROVE  /\ Of(Then(A, B), kind) = Then(Of(A, kind), Of(B, kind))
             /\ Of(ps, kind) = Then(Of(A, kind), Then(Of(<<p>>, kind), Of(B, kind)))
             /\ Of(<<p>>, kind) = IF p.kind = kind THEN <<p>> ELSE <<>>
             /\ Of(A, kind) \in Seq(S) /\ Of(B, kind) \in Seq(S)
  <2>1. Of(Then(A, B), kind) = Then(Of(A, kind), Of(B, kind))
    BY <1>3, OfThen
  <2>2. Of(Then(<<p>>, B), kind) = Then(Of(<<p>>, kind), Of(B, kind))
    <3>1. PICK ones \in Seq(S) : ones = <<p>>
      BY <1>3
    <3>2. Of(Then(ones, B), kind) = Then(Of(ones, kind), Of(B, kind))
      BY <1>3, OfThen
    <3> QED
      BY <3>1, <3>2
  <2>3. Of(Then(A, Then(<<p>>, B)), kind) = Then(Of(A, kind), Of(Then(<<p>>, B), kind))
    BY <1>3, <1>6, OfThen
  <2>4. Of(<<p>>, kind) = IF p.kind = kind THEN <<p>> ELSE <<>>
    <3>1. <<>> \in Seq(S) /\ Append(<<>>, p) = <<p>> /\ Of(<<>>, kind) = <<>>
      BY OfEmpty
    <3>2. Of(Append(<<>>, p), kind) = IF p.kind = kind THEN Append(Of(<<>>, kind), p)
                                      ELSE Of(<<>>, kind)
      BY <1>2, <3>1, OfAppend
    <3> QED
      BY <3>1, <3>2
  <2> QED
    BY <1>3, <1>5, <2>1, <2>2, <2>3, <2>4, OfNothing
<1>8. ASSUME NEW kind, kind # p.kind PROVE Of(RemoveAt(ps, i), kind) = Of(ps, kind)
  <2>1. Then(<<>>, Of(B, kind)) = Of(B, kind)
    BY <1>7, ConcatEmptySeq DEF Then
  <2> QED
    BY <1>4, <1>7, <1>8, <2>1, Zenon
<1>9. ASSUME Len(Of(ps, p.kind)) <= 1 PROVE Of(RemoveAt(ps, i), p.kind) = <<>>
  <2>1. PICK a \in Seq(S), b \in Seq(S) : a = Of(A, p.kind) /\ b = Of(B, p.kind)
    BY <1>7
  <2>2. Of(ps, p.kind) = a \o (<<p>> \o b)
    BY <1>7, <2>1, Zenon DEF Then
  <2>3. <<p>> \o b \in Seq(S) /\ Len(<<p>> \o b) = 1 + Len(b)
    BY <1>3, ConcatProperties
  <2>4. Len(a \o (<<p>> \o b)) = Len(a) + (1 + Len(b))
    BY <2>3, ConcatProperties
  <2>5. Len(a) \in Nat /\ Len(b) \in Nat
    BY LenProperties
  <2>6. Len(a) = 0 /\ Len(b) = 0
    BY <1>9, <2>2, <2>4, <2>5
  <2>7. a = <<>> /\ b = <<>>
    BY <2>6, EmptySeq
  <2>8. Of(RemoveAt(ps, i), p.kind) = <<>> \o <<>>
    BY <1>4, <1>7, <2>1, <2>7, Zenon DEF Then
  <2> QED
    BY <2>8
<1> QED
  BY <1>1, <1>4, <1>6, <1>8, <1>9

-----------------------------------------------------------------------------
(* The inductive invariant.  What a message tells is what was said of it, and  *)
(* the parts that are told as one are one.                                    *)

Pieces == Seq(Deltas)
AnyCall == {CallPart(id, t, done) : id \in CallIDs, t \in Pieces, done \in BOOLEAN}
AnyPart ==
    {Text(t) : t \in Pieces} \cup {Reasoning(t) : t \in Pieces} \cup AnyCall
    \cup {Result(id) : id \in CallIDs} \cup {FinishPart(r) : r \in Reasons \cup {"stop"}}
    \cup {Binary, ImageURL}

Once == {"text", "reasoning", "finish"}
OneOfEach(ps) == \A kind \in Once : Len(Of(ps, kind)) <= 1

PartsInv ==
    /\ parts \in Seq(AnyPart) /\ partsRow \in Seq(AnyPart)
    /\ said = Told(parts) /\ saved = Told(partsRow)
    /\ OneOfEach(parts) /\ OneOfEach(partsRow)

LEMMA PartsOfTheKind ==
  \A p \in AnyPart :
     /\ p.kind = "text" => \E t \in Pieces : p = Text(t)
     /\ p.kind = "reasoning" => \E t \in Pieces : p = Reasoning(t)
     /\ p.kind = "tool_call" => p \in AnyCall
     /\ p.kind = "finish" => \E r \in Reasons \cup {"stop"} : p = FinishPart(r)
<1> SUFFICES ASSUME NEW p \in AnyPart
             PROVE  /\ p.kind = "text" => \E t \in Pieces : p = Text(t)
                    /\ p.kind = "reasoning" => \E t \in Pieces : p = Reasoning(t)
                    /\ p.kind = "tool_call" => p \in AnyCall
                    /\ p.kind = "finish" => \E r \in Reasons \cup {"stop"} : p = FinishPart(r)
  OBVIOUS
<1>1. CASE \E t \in Pieces : p = Text(t)
  BY <1>1 DEF Text
<1>2. CASE \E t \in Pieces : p = Reasoning(t)
  BY <1>2 DEF Reasoning
<1>3. CASE p \in AnyCall
  BY <1>3 DEF AnyCall, CallPart
<1>4. CASE \E id \in CallIDs : p = Result(id)
  BY <1>4 DEF Result
<1>5. CASE \E r \in Reasons \cup {"stop"} : p = FinishPart(r)
  BY <1>5 DEF FinishPart
<1>6. CASE p \in {Binary, ImageURL}
  BY <1>6 DEF Binary, ImageURL
<1> QED
  BY <1>1, <1>2, <1>3, <1>4, <1>5, <1>6 DEF AnyPart

\* What is told is made of the lists of seven kinds, of which six are read back.
LEMMA ToldBySix ==
  \A ps, qs, n :
     /\ \A kind \in Once \cup {"tool_call", "tool_result", "binary"} :
           Of(qs, kind) = Of(ps, kind)
     /\ Len(Of(qs, "image_url")) = n
     => /\ Told(qs) = [Told(ps) EXCEPT !.images = n]
        /\ OneOfEach(ps) => OneOfEach(qs)
  BY DEF Told, Content, ReasoningContent, FinishReason, OneOfEach, Once

\* One of the six told otherwise.
LEMMA ToldOtherwise ==
  \A ps, qs, y :
     /\ /\ \A kind : kind # "tool_result" => Of(qs, kind) = Of(ps, kind)
        /\ Of(qs, "tool_result") = y
        => Told(qs) = [Told(ps) EXCEPT !.results = y]
     /\ /\ \A kind : kind # "tool_call" => Of(qs, kind) = Of(ps, kind)
        /\ Of(qs, "tool_call") = y
        => Told(qs) = [Told(ps) EXCEPT !.calls = y]
     /\ /\ \A kind : kind # "binary" => Of(qs, kind) = Of(ps, kind)
        /\ Len(Of(qs, "binary")) = y
        => Told(qs) = [Told(ps) EXCEPT !.binaries = y]
     /\ /\ \A kind : kind # "text" => Of(qs, kind) = Of(ps, kind)
        /\ Content(qs) = y
        => Told(qs) = [Told(ps) EXCEPT !.text = y]
     /\ /\ \A kind : kind # "reasoning" => Of(qs, kind) = Of(ps, kind)
        /\ ReasoningContent(qs) = y
        => Told(qs) = [Told(ps) EXCEPT !.thinking = y]
     /\ /\ \A kind : kind # "finish" => Of(qs, kind) = Of(ps, kind)
        /\ FinishReason(qs) = y
        => Told(qs) = [Told(ps) EXCEPT !.reason = y]
<1> SUFFICES ASSUME NEW ps, NEW qs, NEW y
             PROVE  /\ /\ \A kind : kind # "tool_result" => Of(qs, kind) = Of(ps, kind)
                       /\ Of(qs, "tool_result") = y
                       => Told(qs) = [Told(ps) EXCEPT !.results = y]
                    /\ /\ \A kind : kind # "tool_call" => Of(qs, kind) = Of(ps, kind)
                       /\ Of(qs, "tool_call") = y
                       => Told(qs) = [Told(ps) EXCEPT !.calls = y]
                    /\ /\ \A kind : kind # "binary" => Of(qs, kind) = Of(ps, kind)
                       /\ Len(Of(qs, "binary")) = y
                       => Told(qs) = [Told(ps) EXCEPT !.binaries = y]
                    /\ /\ \A kind : kind # "text" => Of(qs, kind) = Of(ps, kind)
                       /\ Content(qs) = y
                       => Told(qs) = [Told(ps) EXCEPT !.text = y]
                    /\ /\ \A kind : kind # "reasoning" => Of(qs, kind) = Of(ps, kind)
                       /\ ReasoningContent(qs) = y
                       => Told(qs) = [Told(ps) EXCEPT !.thinking = y]
                    /\ /\ \A kind : kind # "finish" => Of(qs, kind) = Of(ps, kind)
                       /\ FinishReason(qs) = y
                       => Told(qs) = [Told(ps) EXCEPT !.reason = y]
  OBVIOUS
<1>1. /\ Of(qs, "text") = Of(ps, "text") => Content(qs) = Content(ps)
      /\ Of(qs, "reasoning") = Of(ps, "reasoning")
         => ReasoningContent(qs) = ReasoningContent(ps)
      /\ Of(qs, "finish") = Of(ps, "finish") => FinishReason(qs) = FinishReason(ps)
  BY DEF Content, ReasoningContent, FinishReason
<1>2. (\A kind : kind # "tool_result" => Of(qs, kind) = Of(ps, kind))
      /\ Of(qs, "tool_result") = y => Told(qs) = [Told(ps) EXCEPT !.results = y]
  BY <1>1 DEF Told
<1>3. (\A kind : kind # "tool_call" => Of(qs, kind) = Of(ps, kind))
      /\ Of(qs, "tool_call") = y => Told(qs) = [Told(ps) EXCEPT !.calls = y]
  BY <1>1 DEF Told
<1>4. (\A kind : kind # "binary" => Of(qs, kind) = Of(ps, kind))
      /\ Len(Of(qs, "binary")) = y => Told(qs) = [Told(ps) EXCEPT !.binaries = y]
  BY <1>1 DEF Told
<1>5. (\A kind : kind # "text" => Of(qs, kind) = Of(ps, kind))
      /\ Content(qs) = y => Told(qs) = [Told(ps) EXCEPT !.text = y]
  BY <1>1 DEF Told
<1>6. (\A kind : kind # "reasoning" => Of(qs, kind) = Of(ps, kind))
      /\ ReasoningContent(qs) = y => Told(qs) = [Told(ps) EXCEPT !.thinking = y]
  BY <1>1 DEF Told
<1>7. (\A kind : kind # "finish" => Of(qs, kind) = Of(ps, kind))
      /\ FinishReason(qs) = y => Told(qs) = [Told(ps) EXCEPT !.reason = y]
  BY <1>1 DEF Told
<1> QED
  BY <1>2, <1>3, <1>4, <1>5, <1>6, <1>7

-----------------------------------------------------------------------------
(* Each change, and what it is told to have done.                            *)

LEMMA ImageIsTold ==
  ASSUME PartsInv, AddImageURL
  PROVE  /\ parts' \in Seq(AnyPart)
         /\ said' = Told(parts') /\ OneOfEach(parts')
<1>1. ImageURL \in AnyPart /\ ImageURL.kind = "image_url"
  BY DEF AnyPart, ImageURL
<1>2. parts' = Append(parts, ImageURL) /\ said' = [said EXCEPT !.images = @ + 1]
  BY DEF AddImageURL
<1>3. PICK ps, qs : ps = parts /\ qs = parts'
  OBVIOUS
<1>4. ps \in Seq(AnyPart) /\ qs = Append(ps, ImageURL)
  BY <1>2, <1>3 DEF PartsInv
<1>5. /\ qs \in Seq(AnyPart) /\ \A kind : kind # "image_url" => Of(qs, kind) = Of(ps, kind)
      /\ Of(qs, "image_url") = Append(Of(ps, "image_url"), ImageURL)
  BY <1>1, <1>4, OfAppend, AppendProperties
<1>6. Len(Of(qs, "image_url")) = Len(Of(ps, "image_url")) + 1
  <2>1. PICK bs \in Seq(AnyPart) : bs = Of(ps, "image_url")
    BY <1>4, OfNothing
  <2>2. Len(Append(bs, ImageURL)) = Len(bs) + 1
    BY <1>1, AppendProperties
  <2> QED
    BY <1>5, <2>1, <2>2
<1>7. Told(ps).images = Len(Of(ps, "image_url"))
  BY DEF Told
<1>8. /\ Told(qs) = [Told(ps) EXCEPT !.images = Len(Of(ps, "image_url")) + 1]
      /\ OneOfEach(ps) => OneOfEach(qs)
  BY <1>5, <1>6, ToldBySix DEF Once
<1> QED
  BY <1>2, <1>3, <1>5, <1>7, <1>8 DEF PartsInv

LEMMA BinaryIsTold ==
  ASSUME PartsInv, AddBinary
  PROVE  /\ parts' \in Seq(AnyPart)
         /\ said' = Told(parts') /\ OneOfEach(parts')
<1>1. Binary \in AnyPart /\ Binary.kind = "binary"
  BY DEF AnyPart, Binary
<1>2. parts' = Append(parts, Binary) /\ said' = [said EXCEPT !.binaries = @ + 1]
  BY DEF AddBinary
<1>3. PICK ps, qs : ps = parts /\ qs = parts'
  OBVIOUS
<1>4. ps \in Seq(AnyPart) /\ qs = Append(ps, Binary)
  BY <1>2, <1>3 DEF PartsInv
<1>5. /\ qs \in Seq(AnyPart) /\ \A kind : kind # "binary" => Of(qs, kind) = Of(ps, kind)
      /\ Of(qs, "binary") = Append(Of(ps, "binary"), Binary)
  BY <1>1, <1>4, OfAppend, AppendProperties
<1>6. Len(Of(qs, "binary")) = Len(Of(ps, "binary")) + 1
  <2>1. PICK bs \in Seq(AnyPart) : bs = Of(ps, "binary")
    BY <1>4, OfNothing
  <2>2. Len(Append(bs, Binary)) = Len(bs) + 1
    BY <1>1, AppendProperties
  <2> QED
    BY <1>5, <2>1, <2>2
<1>7. Told(qs) = [Told(ps) EXCEPT !.binaries = @ + 1]
  <2>1. Told(ps).binaries = Len(Of(ps, "binary"))
    BY DEF Told
  <2> QED
    BY <1>5, <1>6, <2>1, ToldOtherwise
<1>8. OneOfEach(ps) => OneOfEach(qs)
  BY <1>5 DEF OneOfEach, Once
<1> QED
  BY <1>2, <1>3, <1>5, <1>7, <1>8 DEF PartsInv

LEMMA ResultIsTold ==
  ASSUME PartsInv, NEW id \in CallIDs, AddToolResult(id)
  PROVE  /\ parts' \in Seq(AnyPart)
         /\ said' = Told(parts') /\ OneOfEach(parts')
<1>1. PICK x \in AnyPart : x = Result(id) /\ x.kind = "tool_result"
  <2>1. Result(id) \in AnyPart
    BY DEF AnyPart
  <2>2. Result(id).kind = "tool_result"
    BY DEF Result
  <2> QED
    BY <2>1, <2>2
<1>2. parts' = Append(parts, x) /\ said' = [said EXCEPT !.results = Append(@, x)]
  BY <1>1 DEF AddToolResult
<1>3. PICK ps, qs : ps = parts /\ qs = parts'
  OBVIOUS
<1>4. ps \in Seq(AnyPart) /\ qs = Append(ps, x)
  BY <1>2, <1>3 DEF PartsInv
<1>5. /\ qs \in Seq(AnyPart) /\ \A kind : kind # "tool_result" => Of(qs, kind) = Of(ps, kind)
      /\ Of(qs, "tool_result") = Append(Of(ps, "tool_result"), x)
  BY <1>1, <1>4, OfAppend, AppendProperties
<1>7. Told(qs) = [Told(ps) EXCEPT !.results = Append(@, x)]
  <2>1. Told(ps).results = Of(ps, "tool_result")
    BY DEF Told
  <2> QED
    BY <1>5, <2>1, ToldOtherwise
<1>8. OneOfEach(ps) => OneOfEach(qs)
  BY <1>5 DEF OneOfEach, Once
<1> QED
  BY <1>2, <1>3, <1>5, <1>7, <1>8 DEF PartsInv

\* What becomes of the one part of a kind that grows.
LEMMA GrownIs ==
  ASSUME PartsInv, NEW kind \in {"text", "reasoning"}, NEW d \in Deltas
  PROVE  /\ Grown(kind, d) \in Seq(AnyPart)
         /\ \A other : other # kind => Of(Grown(kind, d), other) = Of(parts, other)
         /\ \E x : /\ Of(Grown(kind, d), kind) = <<x>>
                   /\ x.text = Append(IF Of(parts, kind) = <<>> THEN <<>>
                                      ELSE Head(Of(parts, kind)).text, d)
<1>1. parts \in Seq(AnyPart) /\ Len(Of(parts, kind)) <= 1
  BY DEF PartsInv, OneOfEach, Once
<1>2. \A t \in Pieces : [kind |-> kind, text |-> t] \in AnyPart
  BY DEF AnyPart, Text, Reasoning
<1>3. CASE Of(parts, kind) = <<>>
  <2>1. PICK x \in AnyPart : x = [kind |-> kind, text |-> <<d>>]
    <3>1. <<d>> \in Pieces
      BY DEF Pieces
    <3> QED
      BY <1>2, <3>1
  <2>2. Grown(kind, d) = Append(parts, x)
    BY <1>3, <2>1 DEF Grown
  <2>3. x.kind = kind /\ x.text = Append(<<>>, d)
    BY <2>1
  <2>4. /\ Append(parts, x) \in Seq(AnyPart)
        /\ \A other : other # kind => Of(Append(parts, x), other) = Of(parts, other)
        /\ Of(Append(parts, x), kind) = Append(<<>>, x)
    <3>1. Append(parts, x) \in Seq(AnyPart)
      BY <1>1, AppendProperties
    <3>2. \A other : Of(Append(parts, x), other)
                        = IF x.kind = other THEN Append(Of(parts, other), x) ELSE Of(parts, other)
      BY <1>1, OfAppend
    <3> QED
      BY <1>3, <2>3, <3>1, <3>2
  <2>5. Append(<<>>, x) = <<x>>
    OBVIOUS
  <2> QED
    BY <1>3, <2>2, <2>3, <2>4, <2>5
<1>4. CASE Of(parts, kind) # <<>>
  <2>1. PICK i \in OfKind(parts, kind) : Of(parts, kind) = <<parts[i]>>
    BY <1>1, <1>4, OfNothing
  <2>2. \A j \in OfKind(parts, kind) : j = i
    BY <1>1, OfNothing
  <2>3. i \in DOMAIN parts /\ parts[i] \in AnyPart /\ parts[i].kind = kind
    BY <1>1, <2>1 DEF OfKind
  <2>4. PICK t \in Pieces : parts[i] = [kind |-> kind, text |-> t]
    BY <2>3, PartsOfTheKind DEF Text, Reasoning
  <2>5. PICK x \in AnyPart : x = [kind |-> kind, text |-> Append(t, d)]
    <3>1. Append(t, d) \in Pieces
      BY AppendProperties DEF Pieces
    <3> QED
      BY <1>2, <3>1
  <2>6. Grown(kind, d) = [parts EXCEPT ![i] = x]
    <3>1. \A j \in DOMAIN parts : parts[j].kind = kind => j = i
      BY <2>2 DEF OfKind
    <3>2. [parts[i] EXCEPT !.text = Append(@, d)] = x
      <4>1. PICK y : y = Append(t, d)
        OBVIOUS
      <4>2. parts[i].text = t
        BY <2>4
      <4>3. [[kind |-> kind, text |-> t] EXCEPT !.text = y] = [kind |-> kind, text |-> y]
        OBVIOUS
      <4> QED
        BY <2>4, <2>5, <4>1, <4>2, <4>3, Zenon
    <3>3. Grown(kind, d) = [j \in DOMAIN parts |->
                              IF parts[j].kind = kind THEN [parts[j] EXCEPT !.text = Append(@, d)]
                              ELSE parts[j]]
      BY <1>4 DEF Grown
    <3>4. [parts EXCEPT ![i] = x] = [j \in DOMAIN parts |-> IF j = i THEN x ELSE parts[j]]
      BY <1>1, <2>3
    <3> QED
      BY <2>3, <3>1, <3>2, <3>3, <3>4
  <2>7. PICK qs : qs = Placed(parts, i, x)
    OBVIOUS
  <2>8. x.kind = kind /\ x.text = Append(t, d)
    BY <2>5
  <2>9. /\ qs \in Seq(AnyPart)
        /\ \A other : other # kind => Of(qs, other) = Of(parts, other)
        /\ \E k \in 1..Len(Of(parts, kind)) : Of(qs, kind) = Placed(Of(parts, kind), k, x)
    BY <1>1, <2>7, <2>8, OfChange
  <2>10. Of(qs, kind) = <<x>>
    <3>1. PICK k \in 1..Len(Of(parts, kind)) : Of(qs, kind) = Placed(Of(parts, kind), k, x)
      BY <2>9
    <3>2. k \in 1..Len(<<parts[i]>>) /\ Of(qs, kind) = [<<parts[i]>> EXCEPT ![k] = x]
      BY <2>1, <3>1, Zenon DEF Placed
    <3>3. k = 1
      BY <3>2
    <3> QED
      BY <3>2, <3>3
  <2>11. Head(Of(parts, kind)).text = t
    BY <2>1, <2>4
  <2> QED
    <3>1. Grown(kind, d) = qs
      BY <2>6, <2>7 DEF Placed
    <3> QED
      BY <1>4, <2>8, <2>9, <2>10, <2>11, <3>1
<1> QED
  BY <1>3, <1>4

LEMMA ContentIsTold ==
  ASSUME PartsInv, NEW d \in Deltas, AppendContent(d)
  PROVE  /\ parts' \in Seq(AnyPart)
         /\ said' = Told(parts') /\ OneOfEach(parts')
<1>1. PICK ps, qs : ps = parts /\ qs = parts'
  OBVIOUS
<1>2. qs = Grown("text", d) /\ said' = [said EXCEPT !.text = Append(@, d)]
  BY <1>1 DEF AppendContent
<1>3. PICK x : /\ qs \in Seq(AnyPart)
               /\ \A other : other # "text" => Of(qs, other) = Of(ps, other)
               /\ Of(qs, "text") = <<x>>
               /\ x.text = Append(IF Of(ps, "text") = <<>> THEN <<>>
                                  ELSE Head(Of(ps, "text")).text, d)
  BY <1>1, <1>2, GrownIs
<1>4. Content(qs) = Append(Content(ps), d)
  BY <1>3 DEF Content
<1>5. Told(qs) = [Told(ps) EXCEPT !.text = Append(@, d)]
  <2>1. Told(ps).text = Content(ps)
    BY DEF Told
  <2> QED
    BY <1>3, <1>4, <2>1, ToldOtherwise
<1>6. OneOfEach(ps) => OneOfEach(qs)
  <2>1. PICK xs : xs = <<x>>
    OBVIOUS
  <2>3. Len(xs) <= 1
    BY <2>1
  <2>2. \A kind : Of(qs, kind) = Of(ps, kind) \/ Of(qs, kind) = xs
    BY <1>3, <2>1, Zenon
  <2> QED
    BY <2>2, <2>3 DEF OneOfEach
<1> QED
  BY <1>1, <1>2, <1>3, <1>5, <1>6 DEF PartsInv

LEMMA ReasoningIsTold ==
  ASSUME PartsInv, NEW d \in Deltas, AppendReasoningContent(d)
  PROVE  /\ parts' \in Seq(AnyPart)
         /\ said' = Told(parts') /\ OneOfEach(parts')
<1>1. PICK ps, qs : ps = parts /\ qs = parts'
  OBVIOUS
<1>2. qs = Grown("reasoning", d) /\ said' = [said EXCEPT !.thinking = Append(@, d)]
  BY <1>1 DEF AppendReasoningContent
<1>3. PICK x : /\ qs \in Seq(AnyPart)
               /\ \A other : other # "reasoning" => Of(qs, other) = Of(ps, other)
               /\ Of(qs, "reasoning") = <<x>>
               /\ x.text = Append(IF Of(ps, "reasoning") = <<>> THEN <<>>
                                  ELSE Head(Of(ps, "reasoning")).text, d)
  BY <1>1, <1>2, GrownIs
<1>4. ReasoningContent(qs) = Append(ReasoningContent(ps), d)
  BY <1>3 DEF ReasoningContent
<1>5. Told(qs) = [Told(ps) EXCEPT !.thinking = Append(@, d)]
  <2>1. Told(ps).thinking = ReasoningContent(ps)
    BY DEF Told
  <2> QED
    BY <1>3, <1>4, <2>1, ToldOtherwise
<1>6. OneOfEach(ps) => OneOfEach(qs)
  <2>1. PICK xs : xs = <<x>>
    OBVIOUS
  <2>3. Len(xs) <= 1
    BY <2>1
  <2>2. \A kind : Of(qs, kind) = Of(ps, kind) \/ Of(qs, kind) = xs
    BY <1>3, <2>1, Zenon
  <2> QED
    BY <2>2, <2>3 DEF OneOfEach
<1> QED
  BY <1>1, <1>2, <1>3, <1>5, <1>6 DEF PartsInv

-----------------------------------------------------------------------------
(* The calls.                                                                 *)

LEMMA MinIsLeast ==
  \A I \in SUBSET Nat : I # {} => Min(I) \in I /\ \A j \in I : Min(I) <= j
<1> SUFFICES ASSUME NEW I \in SUBSET Nat, I # {}
             PROVE  Min(I) \in I /\ \A j \in I : Min(I) <= j
  OBVIOUS
<1>1. \E n \in I : \A m \in I : n <= m
  BY LeastExists
<1> QED
  BY <1>1 DEF Min

LEMMA OfComesFrom ==
  \A S : \A ps \in Seq(S) : \A kind : \A k \in 1..Len(Of(ps, kind)) :
     \E l \in OfKind(ps, kind) : Of(ps, kind)[k] = ps[l]
<1> SUFFICES ASSUME NEW S, NEW ps \in Seq(S), NEW kind, NEW k \in 1..Len(Of(ps, kind))
             PROVE  \E l \in OfKind(ps, kind) : Of(ps, kind)[k] = ps[l]
  OBVIOUS
<1>10. PICK m \in Nat : \E at : Lists(at, m, OfKind(ps, kind))
  BY OfLists
<1>1. PICK at : Lists(at, m, OfKind(ps, kind))
  BY <1>10
<1>2. Len(Of(ps, kind)) = m
      /\ \A j \in 1..m : at[j] \in OfKind(ps, kind) /\ Of(ps, kind)[j] = ps[at[j]]
  BY <1>1, OfIs
<1> QED
  BY <1>2

IsCall(ps, i, id) == i \in DOMAIN ps /\ ps[i].kind = "tool_call" /\ ps[i].id = id

LEMMA CallAtIs ==
  ASSUME parts \in Seq(AnyPart), NEW id
  PROVE  \/ CallAt(id) = 0 /\ \A i \in DOMAIN parts : ~IsCall(parts, i, id)
         \/ /\ CallAt(id) # 0 /\ IsCall(parts, CallAt(id), id)
            /\ \A i \in DOMAIN parts : IsCall(parts, i, id) => CallAt(id) <= i
<1>1. PICK I : I = {i \in 1..Len(parts) : parts[i].kind = "tool_call" /\ parts[i].id = id}
  OBVIOUS
<1>2. CallAt(id) = IF I # {} THEN Min(I) ELSE 0
  BY <1>1, Zenon DEF CallAt, SelectInSeq
<1>3. DOMAIN parts = 1..Len(parts) /\ Len(parts) \in Nat
  BY LenProperties
<1>4. \A i \in DOMAIN parts : i \in I <=> IsCall(parts, i, id)
  BY <1>1, <1>3 DEF IsCall
<1>5. I \in SUBSET Nat /\ I \subseteq DOMAIN parts /\ 0 \notin I
  BY <1>1, <1>3
<1>6. CASE I = {}
  BY <1>2, <1>4, <1>6
<1>7. CASE I # {}
  <2>1. Min(I) \in I /\ \A j \in I : Min(I) <= j
    BY <1>5, <1>7, MinIsLeast
  <2> QED
    BY <1>2, <1>4, <1>5, <1>7, <2>1
<1> QED
  BY <1>6, <1>7

LEMMA SayingIs ==
  ASSUME NEW cs \in Seq(AnyPart), said.calls = cs, NEW id, NEW c
  PROVE  /\ (\A k \in 1..Len(cs) : cs[k].id # id) => Saying(id, c) = Append(cs, c)
         /\ \A k \in 1..Len(cs) :
               cs[k].id = id /\ (\A j \in 1..Len(cs) : j < k => cs[j].id # id)
               => Saying(id, c) = Placed(cs, k, c)
<1>1. PICK I : I = {k \in 1..Len(cs) : cs[k].id = id}
  OBVIOUS
<1>2. PICK i : i = IF I # {} THEN Min(I) ELSE 0
  OBVIOUS
<1>3. Saying(id, c) = IF i = 0 THEN Append(cs, c) ELSE [cs EXCEPT ![i] = c]
  BY <1>1, <1>2, Zenon DEF Saying, SelectInSeq
<1>4. I \in SUBSET Nat /\ Len(cs) \in Nat
  BY <1>1, LenProperties
<1>5. ASSUME \A k \in 1..Len(cs) : cs[k].id # id PROVE Saying(id, c) = Append(cs, c)
  <2>1. I = {}
    BY <1>1, <1>5
  <2> QED
    BY <1>2, <1>3, <2>1
<1>6. ASSUME NEW k \in 1..Len(cs), cs[k].id = id, \A j \in 1..Len(cs) : j < k => cs[j].id # id
      PROVE  Saying(id, c) = Placed(cs, k, c)
  <2>1. k \in I
    BY <1>1, <1>6
  <2>2. i \in I /\ \A j \in I : i <= j
    BY <1>2, <1>4, <2>1, MinIsLeast
  <2>3. i <= k /\ i \in Nat /\ k \in Nat
    BY <1>4, <2>1, <2>2
  <2>4. i = k
    BY <1>1, <1>6, <2>2, <2>3
  <2>5. i # 0
    BY <1>1, <2>2
  <2> QED
    BY <1>3, <2>4, <2>5, Zenon DEF Placed
<1> QED
  BY <1>5, <1>6

\* A call put where the first one of its id is, or behind all parts.
LEMMA CallIsTold ==
  ASSUME PartsInv, NEW c \in AnyCall,
         parts' = IF CallAt(c.id) = 0 THEN Append(parts, c) ELSE [parts EXCEPT ![CallAt(c.id)] = c],
         said' = [said EXCEPT !.calls = Saying(c.id, c)]
  PROVE  /\ parts' \in Seq(AnyPart)
         /\ said' = Told(parts') /\ OneOfEach(parts')
<1>1. PICK id, i, ps, qs, cs :
         id = c.id /\ i = CallAt(c.id) /\ ps = parts /\ qs = parts' /\ cs = Of(parts, "tool_call")
  OBVIOUS
<1>2. /\ ps \in Seq(AnyPart) /\ cs \in Seq(AnyPart)
      /\ c \in AnyPart /\ c.kind = "tool_call"
  <2>1. ps \in Seq(AnyPart)
    BY <1>1 DEF PartsInv
  <2>2. c \in AnyPart /\ c.kind = "tool_call"
    BY DEF AnyPart, AnyCall, CallPart
  <2> QED
    BY <1>1, <2>1, <2>2, OfNothing
<1>3. said.calls = cs
  BY <1>1 DEF PartsInv, Told
<1>4. \/ i = 0 /\ \A l \in DOMAIN ps : ~IsCall(ps, l, id)
      \/ /\ i # 0 /\ IsCall(ps, i, id)
         /\ \A l \in DOMAIN ps : IsCall(ps, l, id) => i <= l
  BY <1>1, <1>2, CallAtIs
<1>5. /\ qs \in Seq(AnyPart)
      /\ \A kind : kind # "tool_call" => Of(qs, kind) = Of(ps, kind)
      /\ Of(qs, "tool_call") = Saying(id, c)
  <2>1. CASE i = 0
    <3>1. qs = Append(ps, c)
      BY <1>1, <2>1
    <3>2. qs \in Seq(AnyPart)
      BY <1>2, <3>1, AppendProperties
    <3>3. \A kind : Of(qs, kind) = IF c.kind = kind THEN Append(Of(ps, kind), c) ELSE Of(ps, kind)
      BY <1>2, <3>1, OfAppend
    <3>4. ASSUME NEW k \in 1..Len(cs) PROVE cs[k].id # id
      <4>1. PICK l \in OfKind(ps, "tool_call") : cs[k] = ps[l]
        <5>1. \A j \in 1..Len(Of(ps, "tool_call")) :
                 \E l \in OfKind(ps, "tool_call") : Of(ps, "tool_call")[j] = ps[l]
          BY <1>2, OfComesFrom
        <5>2. cs = Of(ps, "tool_call")
          BY <1>1
        <5>3. \E l \in OfKind(ps, "tool_call") : cs[k] = ps[l]
          BY <5>1, <5>2, Zenon
        <5> QED
          BY <5>3
      <4> QED
        BY <1>4, <2>1, <4>1 DEF OfKind, IsCall
    <3>5. Saying(id, c) = Append(cs, c)
      BY <1>2, <1>3, <3>4, SayingIs
    <3> QED
      BY <1>1, <1>2, <3>2, <3>3, <3>5
  <2>2. CASE i # 0
    <3>1. qs = Placed(ps, i, c)
      BY <1>1, <2>2, Zenon DEF Placed
    <3>2. i \in OfKind(ps, "tool_call") /\ ps[i].id = id
      BY <1>4, <2>2 DEF OfKind, IsCall
    <3>3. /\ qs \in Seq(AnyPart)
          /\ \A other : other # "tool_call" => Of(qs, other) = Of(ps, other)
          /\ \E k \in 1..Len(cs) :
                /\ cs[k] = ps[i]
                /\ Of(qs, "tool_call") = Placed(cs, k, c)
                /\ \A j \in 1..Len(cs) : j < k =>
                      \E l \in OfKind(ps, "tool_call") : l < i /\ cs[j] = ps[l]
      <4>1. LET os == Of(ps, "tool_call")
                rs == Placed(ps, i, c) IN
            /\ rs \in Seq(AnyPart)
            /\ \A other : other # "tool_call" => Of(rs, other) = Of(ps, other)
            /\ \E k \in 1..Len(os) :
                  /\ os[k] = ps[i]
                  /\ Of(rs, "tool_call") = Placed(os, k, c)
                  /\ \A j \in 1..Len(os) : j < k =>
                        \E l \in OfKind(ps, "tool_call") : l < i /\ os[j] = ps[l]
        BY <1>2, <3>2, OfChange
      <4>2. cs = Of(ps, "tool_call")
        BY <1>1
      <4> QED
        BY <3>1, <4>1, <4>2, Zenon
    <3>4. PICK k \in 1..Len(cs) :
                /\ cs[k] = ps[i]
                /\ Of(qs, "tool_call") = Placed(cs, k, c)
                /\ \A j \in 1..Len(cs) : j < k =>
                      \E l \in OfKind(ps, "tool_call") : l < i /\ cs[j] = ps[l]
      BY <3>3
    <3>5. ASSUME NEW j \in 1..Len(cs), j < k PROVE cs[j].id # id
      <4>1. PICK l \in OfKind(ps, "tool_call") : l < i /\ cs[j] = ps[l]
        BY <3>4, <3>5
      <4>2. l \in Nat /\ i \in Nat /\ l \in DOMAIN ps /\ ps[l].kind = "tool_call"
        BY <1>2, <3>2, <4>1, LenProperties DEF OfKind
      <4>3. ~IsCall(ps, l, id)
        BY <1>4, <2>2, <4>1, <4>2
      <4> QED
        BY <4>1, <4>2, <4>3 DEF IsCall
    <3>6. Saying(id, c) = Placed(cs, k, c)
      BY <1>2, <1>3, <3>2, <3>4, <3>5, SayingIs
    <3> QED
      BY <3>3, <3>4, <3>6
  <2> QED
    BY <2>1, <2>2
<1>6. Told(qs) = [Told(ps) EXCEPT !.calls = Saying(id, c)]
  BY <1>5, ToldOtherwise
<1>7. OneOfEach(ps) => OneOfEach(qs)
  BY <1>5 DEF OneOfEach, Once
<1> QED
  BY <1>1, <1>5, <1>6, <1>7 DEF PartsInv

LEMMA AddedCallIsTold ==
  ASSUME PartsInv, NEW id \in CallIDs, NEW t \in Pieces, NEW done \in BOOLEAN,
         AddToolCall(CallPart(id, t, done))
  PROVE  /\ parts' \in Seq(AnyPart)
         /\ said' = Told(parts') /\ OneOfEach(parts')
<1>1. PICK c \in AnyCall : c = CallPart(id, t, done)
  BY DEF AnyCall
<1>2. /\ parts' = IF CallAt(c.id) = 0 THEN Append(parts, c) ELSE [parts EXCEPT ![CallAt(c.id)] = c]
      /\ said' = [said EXCEPT !.calls = Saying(c.id, c)]
  BY <1>1, Zenon DEF AddToolCall
<1> QED
  BY <1>2, CallIsTold

\* A call that is changed keeps its id.
LEMMA ChangedCallIsTold ==
  ASSUME PartsInv, NEW id \in CallIDs, NEW c,
         \A old \in AnyCall : parts[CallAt(id)] = old => c \in AnyCall /\ c.id = old.id,
         CallAt(id) # 0, parts' = [parts EXCEPT ![CallAt(id)] = c],
         said' = [said EXCEPT !.calls = Saying(id, c)]
  PROVE  /\ parts' \in Seq(AnyPart)
         /\ said' = Told(parts') /\ OneOfEach(parts')
<1>1. parts \in Seq(AnyPart)
  BY DEF PartsInv
<1>2. IsCall(parts, CallAt(id), id)
  BY <1>1, CallAtIs
<1>3. PICK old \in AnyCall : parts[CallAt(id)] = old /\ old.id = id
  <2>1. CallAt(id) \in DOMAIN parts /\ parts[CallAt(id)].kind = "tool_call"
        /\ parts[CallAt(id)].id = id
    BY <1>2 DEF IsCall
  <2>2. parts[CallAt(id)] \in AnyPart
    BY <1>1, <2>1
  <2> QED
    BY <2>1, <2>2, PartsOfTheKind
<1>4. c \in AnyCall /\ c.id = id
  BY <1>3
<1>5. /\ parts' = IF CallAt(c.id) = 0 THEN Append(parts, c) ELSE [parts EXCEPT ![CallAt(c.id)] = c]
      /\ said' = [said EXCEPT !.calls = Saying(c.id, c)]
  BY <1>4, Zenon
<1> QED
  BY <1>4, <1>5, CallIsTold

LEMMA SetCallsAreTold ==
  ASSUME PartsInv, NEW cs, cs = <<>> \/ \E c \in AnyCall : cs = <<c>>, SetToolCalls(cs)
  PROVE  /\ parts' \in Seq(AnyPart)
         /\ said' = Told(parts') /\ OneOfEach(parts')
<1>1. PICK ps, qs, rs : ps = parts /\ qs = parts' /\ rs = AllBut(parts, "tool_call")
  OBVIOUS
<1>2. qs = Then(rs, cs) /\ said' = [said EXCEPT !.calls = cs]
  BY <1>1, Zenon DEF SetToolCalls, Then
<1>3. /\ ps \in Seq(AnyPart) /\ rs \in Seq(AnyPart)
      /\ \A kind : Of(rs, kind) = IF kind = "tool_call" THEN <<>> ELSE Of(ps, kind)
  <2>1. ps \in Seq(AnyPart)
    BY <1>1 DEF PartsInv
  <2>2. /\ AllBut(ps, "tool_call") \in Seq(AnyPart)
        /\ \A kind : Of(AllBut(ps, "tool_call"), kind)
                        = IF kind = "tool_call" THEN <<>> ELSE Of(ps, kind)
    <3>1. \A gone : \A kind :
             /\ AllBut(ps, gone) \in Seq(AnyPart)
             /\ Of(AllBut(ps, gone), kind) = IF kind = gone THEN <<>> ELSE Of(ps, kind)
      BY <2>1, OfAllBut
    <3> QED
      BY <3>1, Zenon
  <2> QED
    BY <1>1, <2>1, <2>2, Zenon
<1>4. /\ qs \in Seq(AnyPart)
      /\ \A kind : kind # "tool_call" => Of(qs, kind) = Of(ps, kind)
      /\ Of(qs, "tool_call") = cs
  <2>1. CASE cs = <<>>
    <3>1. Then(rs, <<>>) = rs
      BY <1>3, ConcatEmptySeq DEF Then
    <3> QED
      BY <1>2, <1>3, <2>1, <3>1
  <2>2. CASE \E c \in AnyCall : cs = <<c>>
    <3>1. PICK c \in AnyPart : cs = <<c>> /\ c.kind = "tool_call"
      BY <2>2 DEF AnyPart, AnyCall, CallPart
    <3>2. Then(rs, <<c>>) = Append(rs, c)
      BY <1>3, AppendIsConcat DEF Then
    <3>3. Append(rs, c) \in Seq(AnyPart)
      BY <1>3, AppendProperties
    <3>4. \A kind : Of(Append(rs, c), kind)
                       = IF c.kind = kind THEN Append(Of(rs, kind), c) ELSE Of(rs, kind)
      BY <1>3, OfAppend
    <3>5. Append(<<>>, c) = <<c>>
      OBVIOUS
    <3> QED
      BY <1>2, <1>3, <3>1, <3>2, <3>3, <3>4, <3>5, Zenon
  <2> QED
    BY <2>1, <2>2
<1>5. Told(qs) = [Told(ps) EXCEPT !.calls = cs]
  <2>1. \A y : (\A kind : kind # "tool_call" => Of(qs, kind) = Of(ps, kind))
               /\ Of(qs, "tool_call") = y
               => Told(qs) = [Told(ps) EXCEPT !.calls = y]
    BY ToldOtherwise
  <2> QED
    BY <1>4, <2>1, Zenon
<1>6. OneOfEach(ps) => OneOfEach(qs)
  BY <1>4 DEF OneOfEach, Once
<1> QED
  BY <1>1, <1>2, <1>4, <1>5, <1>6 DEF PartsInv

LEMMA FinishIsTold ==
  ASSUME PartsInv, NEW r \in Reasons, AddFinish(r)
  PROVE  /\ parts' \in Seq(AnyPart)
         /\ said' = Told(parts') /\ OneOfEach(parts')
<1>1. PICK ps, qs : ps = parts /\ qs = parts'
  OBVIOUS
<1>2. ps \in Seq(AnyPart) /\ Len(Of(ps, "finish")) <= 1
  BY <1>1 DEF PartsInv, OneOfEach, Once
<1>3. PICK x \in AnyPart : x = FinishPart(r)
  BY DEF AnyPart
<1>4. x.kind = "finish" /\ x.reason = r
  BY <1>3 DEF FinishPart
<1>5. PICK I : I = {i \in 1..Len(ps) : ps[i].kind = "finish"}
  OBVIOUS
<1>6. PICK i : i = IF I # {} THEN Min(I) ELSE 0
  OBVIOUS
<1>7. PICK rs : rs = IF i = 0 THEN ps ELSE RemoveAt(ps, i)
  OBVIOUS
<1>8. qs = Append(rs, x) /\ said' = [said EXCEPT !.reason = r]
  <2>1. SelectInSeq(parts, LAMBDA p : p.kind = "finish") = i
    BY <1>1, <1>5, <1>6, Zenon DEF SelectInSeq
  <2>2. parts' = Append(IF i = 0 THEN parts ELSE RemoveAt(parts, i), FinishPart(r))
        /\ said' = [said EXCEPT !.reason = r]
    BY <2>1, Zenon DEF AddFinish
  <2> QED
    BY <1>1, <1>3, <1>7, <2>2, Zenon
<1>9. I = OfKind(ps, "finish") /\ I \in SUBSET Nat /\ I \subseteq DOMAIN ps /\ 0 \notin I
  BY <1>2, <1>5, LenProperties DEF OfKind
<1>10. /\ rs \in Seq(AnyPart)
       /\ \A kind : Of(rs, kind) = IF kind = "finish" THEN <<>> ELSE Of(ps, kind)
  <2>1. CASE I = {}
    <3>1. Of(ps, "finish") = <<>>
      BY <1>2, <1>9, <2>1, OfNothing
    <3>2. rs = ps
      BY <1>6, <1>7, <2>1
    <3> QED
      BY <1>2, <3>1, <3>2
  <2>2. CASE I # {}
    <3>1. i \in I
      BY <1>6, <1>9, <2>2, MinIsLeast
    <3>2. i \in DOMAIN ps /\ ps[i].kind = "finish" /\ rs = RemoveAt(ps, i)
      BY <1>5, <1>7, <1>9, <3>1
    <3>3. /\ RemoveAt(ps, i) \in Seq(AnyPart)
          /\ \A kind : kind # ps[i].kind => Of(RemoveAt(ps, i), kind) = Of(ps, kind)
          /\ Len(Of(ps, ps[i].kind)) <= 1 => Of(RemoveAt(ps, i), ps[i].kind) = <<>>
      BY <1>2, <3>2, OfRemoved
    <3> QED
      BY <1>2, <3>2, <3>3
  <2> QED
    BY <2>1, <2>2
<1>11. /\ qs \in Seq(AnyPart)
       /\ \A kind : kind # "finish" => Of(qs, kind) = Of(ps, kind)
       /\ Of(qs, "finish") = <<x>>
  <2>1. qs \in Seq(AnyPart)
    BY <1>8, <1>10, AppendProperties
  <2>2. \A kind : Of(qs, kind) = IF x.kind = kind THEN Append(Of(rs, kind), x) ELSE Of(rs, kind)
    BY <1>8, <1>10, OfAppend
  <2>3. Append(<<>>, x) = <<x>>
    OBVIOUS
  <2> QED
    BY <1>4, <1>10, <2>1, <2>2, <2>3, Zenon
<1>12. FinishReason(qs) = r
  <2>1. <<x>> # <<>> /\ Head(<<x>>) = x
    OBVIOUS
  <2> QED
    BY <1>4, <1>11, <2>1, Zenon DEF FinishReason
<1>13. Told(qs) = [Told(ps) EXCEPT !.reason = r]
  BY <1>11, <1>12, ToldOtherwise
<1>14. OneOfEach(ps) => OneOfEach(qs)
  <2>1. PICK xs : xs = <<x>>
    OBVIOUS
  <2>2. Len(xs) <= 1
    BY <2>1
  <2>3. \A kind : Of(qs, kind) = Of(ps, kind) \/ Of(qs, kind) = xs
    BY <1>11, <2>1, Zenon
  <2> QED
    BY <2>2, <2>3 DEF OneOfEach
<1> QED
  BY <1>1, <1>8, <1>11, <1>13, <1>14 DEF PartsInv

-----------------------------------------------------------------------------
(* The steps.                                                                *)

\* What is written and read again tells the same, but for the pictures given as an address.
LEMMA ReadTellsTheSame ==
  \A ps \in Seq(AnyPart) :
     /\ Unmarshal(ps) \in Seq(AnyPart)
     /\ Told(Unmarshal(ps)) = [Told(ps) EXCEPT !.images = 0]
     /\ OneOfEach(ps) => OneOfEach(Unmarshal(ps))
<1> SUFFICES ASSUME NEW ps \in Seq(AnyPart)
             PROVE  /\ Unmarshal(ps) \in Seq(AnyPart)
                    /\ Told(Unmarshal(ps)) = [Told(ps) EXCEPT !.images = 0]
                    /\ OneOfEach(ps) => OneOfEach(Unmarshal(ps))
  OBVIOUS
<1>1. /\ AllBut(ps, "image_url") \in Seq(AnyPart)
      /\ \A kind : Of(AllBut(ps, "image_url"), kind)
                      = IF kind = "image_url" THEN <<>> ELSE Of(ps, kind)
  BY OfAllBut
<1>2. PICK qs : qs = Unmarshal(ps)
  OBVIOUS
<1>3. qs \in Seq(AnyPart) /\ \A kind : kind # "image_url" => Of(qs, kind) = Of(ps, kind)
  BY <1>1, <1>2 DEF Unmarshal
<1>4. \A kind \in Once \cup {"tool_call", "tool_result", "binary"} : Of(qs, kind) = Of(ps, kind)
  BY <1>3 DEF Once
<1>5. Len(Of(qs, "image_url")) = 0
  BY <1>1, <1>2 DEF Unmarshal
<1>6. /\ Told(qs) = [Told(ps) EXCEPT !.images = 0]
      /\ OneOfEach(ps) => OneOfEach(qs)
  BY <1>4, <1>5, ToldBySix
<1> QED
  BY <1>2, <1>3, <1>6

\* At most one part of each kind that is told as one, in what a message is made of.
LEMMA CreatedIsOneOfEach ==
  \A role \in {"user", "assistant"} : \A ps \in {<<>>, <<Text(<<>>), Binary>>} :
     Created(role, ps) \in Seq(AnyPart) /\ OneOfEach(Created(role, ps))
<1>1. PICK t \in AnyPart, b \in AnyPart, f \in AnyPart :
         /\ t = Text(<<>>) /\ b = Binary /\ f = FinishPart("stop")
         /\ t.kind = "text" /\ b.kind = "binary" /\ f.kind = "finish"
  <2>1. <<>> \in Pieces
    BY DEF Pieces
  <2>2. Text(<<>>) \in AnyPart /\ Binary \in AnyPart /\ FinishPart("stop") \in AnyPart
    BY <2>1 DEF AnyPart
  <2>3. Text(<<>>).kind = "text" /\ Binary.kind = "binary" /\ FinishPart("stop").kind = "finish"
    BY DEF Text, Binary, FinishPart
  <2> QED
    BY <2>2, <2>3
<1>2. <<>> \in Seq(AnyPart) /\ \A kind : Len(Of(<<>>, kind)) = 0
  BY OfEmpty
<1>3. ASSUME NEW ps \in Seq(AnyPart), OneOfEach(ps), NEW x \in AnyPart,
             x.kind \in Once => Of(ps, x.kind) = <<>>
      PROVE  /\ Append(ps, x) \in Seq(AnyPart) /\ OneOfEach(Append(ps, x))
             /\ \A kind : kind # x.kind => Of(Append(ps, x), kind) = Of(ps, kind)
  <2>1. \A kind : Of(Append(ps, x), kind) = IF x.kind = kind THEN Append(Of(ps, kind), x)
                                           ELSE Of(ps, kind)
    BY OfAppend
  <2>2. PICK xs : xs = <<x>>
    OBVIOUS
  <2>3. Len(xs) <= 1 /\ Append(<<>>, x) = xs
    BY <2>2
  <2>4. \A kind \in Once : Of(Append(ps, x), kind) = xs \/ Of(Append(ps, x), kind) = Of(ps, kind)
    BY <1>3, <2>1, <2>3
  <2>5. OneOfEach(Append(ps, x))
    BY <1>3, <2>3, <2>4 DEF OneOfEach
  <2>6. Append(ps, x) \in Seq(AnyPart)
    BY AppendProperties
  <2> QED
    BY <2>1, <2>5, <2>6
<1>4. OneOfEach(<<>>)
  BY <1>2 DEF OneOfEach
<1>5. PICK one : one = Append(<<>>, t)
  OBVIOUS
<1>6. one \in Seq(AnyPart) /\ OneOfEach(one)
      /\ \A kind : kind # "text" => Of(one, kind) = <<>>
  BY <1>1, <1>2, <1>3, <1>4, <1>5, OfEmpty
<1>7. PICK two : two = Append(one, b)
  OBVIOUS
<1>8. two \in Seq(AnyPart) /\ OneOfEach(two) /\ Of(two, "finish") = <<>>
  <2>1. b.kind \notin Once
    BY <1>1 DEF Once
  <2> QED
    BY <1>1, <1>3, <1>6, <1>7, <2>1
<1>9. two = <<Text(<<>>), Binary>>
  <2>1. one = <<t>>
    BY <1>5
  <2>2. Append(<<t>>, b) = <<t, b>>
    <3>1. <<t>> \in Seq(AnyPart) /\ Len(<<t>>) = 1 /\ <<t>>[1] = t
      OBVIOUS
    <3>2. <<t, b>> \in Seq(AnyPart) /\ Len(<<t, b>>) = 2 /\ <<t, b>>[1] = t /\ <<t, b>>[2] = b
      OBVIOUS
    <3>3. PICK st, tb : st = <<t>> /\ tb = <<t, b>>
      OBVIOUS
    <3>4. /\ Append(st, b) \in Seq(AnyPart) /\ Len(Append(st, b)) = 2
          /\ Append(st, b)[1] = t /\ Append(st, b)[2] = b
      BY <3>1, <3>3, AppendProperties
    <3>5. \A i \in 1..2 : Append(st, b)[i] = tb[i]
      BY <3>2, <3>3, <3>4
    <3>6. Append(st, b) = tb
      BY <3>2, <3>3, <3>4, <3>5, SeqEqual
    <3> QED
      BY <3>3, <3>6, Zenon
  <2>3. two = <<t, b>>
    BY <1>7, <2>1, <2>2, Zenon
  <2> QED
    BY <1>1, <2>3, Zenon
<1>10. \A ps \in {<<>>, two} :
          /\ ps \in Seq(AnyPart) /\ OneOfEach(ps)
          /\ Append(ps, f) \in Seq(AnyPart) /\ OneOfEach(Append(ps, f))
  BY <1>1, <1>2, <1>3, <1>4, <1>8, OfEmpty
<1> QED
  BY <1>1, <1>9, <1>10 DEF Created

LEMMA PartsBegin == PartsInit => PartsInv
<1> SUFFICES ASSUME PartsInit PROVE PartsInv
  OBVIOUS
<1>1. PICK role \in {"user", "assistant"}, ps \in {<<>>, <<Text(<<>>), Binary>>} :
         parts = Unmarshal(Created(role, ps))
  BY DEF PartsInit
<1>2. partsRow = parts /\ said = Told(parts) /\ saved = said
  BY DEF PartsInit
<1>3. parts \in Seq(AnyPart) /\ OneOfEach(parts)
  BY <1>1, CreatedIsOneOfEach, ReadTellsTheSame
<1> QED
  BY <1>2, <1>3 DEF PartsInv

LEMMA ChangesAreTold ==
  ASSUME PartsInv, ChangeParts
  PROVE  /\ parts' \in Seq(AnyPart)
         /\ said' = Told(parts') /\ OneOfEach(parts')
<1>1. \A d \in Deltas : <<d>> \in Pieces
  BY DEF Pieces
<1>2. <<>> \in Pieces
  BY DEF Pieces
<1>11. \A id \in CallIDs, t \in Pieces : CallPart(id, t, TRUE) \in AnyCall
  <2> SUFFICES ASSUME NEW id \in CallIDs, NEW t \in Pieces PROVE CallPart(id, t, TRUE) \in AnyCall
    OBVIOUS
  <2>1. \A yes \in BOOLEAN : CallPart(id, t, yes) \in AnyCall
    BY DEF AnyCall
  <2>2. TRUE \in BOOLEAN
    OBVIOUS
  <2> QED
    BY <2>1, <2>2, Zenon
<1>3. ASSUME NEW d \in Deltas, AppendContent(d)
      PROVE  parts' \in Seq(AnyPart) /\ said' = Told(parts') /\ OneOfEach(parts')
  BY <1>3, ContentIsTold
<1>4. ASSUME NEW d \in Deltas, AppendReasoningContent(d)
      PROVE  parts' \in Seq(AnyPart) /\ said' = Told(parts') /\ OneOfEach(parts')
  BY <1>4, ReasoningIsTold
<1>5. ASSUME NEW id \in CallIDs, NEW t \in Pieces, NEW done \in BOOLEAN,
             AddToolCall(CallPart(id, t, done))
      PROVE  parts' \in Seq(AnyPart) /\ said' = Told(parts') /\ OneOfEach(parts')
  BY <1>5, AddedCallIsTold
<1>6. ASSUME NEW id \in CallIDs, ChangeCall(id, LAMBDA c : [c EXCEPT !.finished = TRUE])
      PROVE  parts' \in Seq(AnyPart) /\ said' = Told(parts') /\ OneOfEach(parts')
  <2>1. PICK c : c = [parts[CallAt(id)] EXCEPT !.finished = TRUE]
    OBVIOUS
  <2>2. /\ CallAt(id) # 0 /\ parts' = [parts EXCEPT ![CallAt(id)] = c]
        /\ said' = [said EXCEPT !.calls = Saying(id, c)]
    BY <1>6, <2>1 DEF ChangeCall
  <2>3. ASSUME NEW old \in AnyCall, parts[CallAt(id)] = old PROVE c \in AnyCall /\ c.id = old.id
    <3>1. PICK n \in CallIDs, t \in Pieces, done \in BOOLEAN : old = CallPart(n, t, done)
      BY DEF AnyCall
    <3>2. [old EXCEPT !.finished = TRUE] = CallPart(n, t, TRUE) /\ old.id = n
      <4>1. old = [kind |-> "tool_call", id |-> n, input |-> t, finished |-> done]
        BY <3>1, Zenon DEF CallPart
      <4>2. \A yes : [old EXCEPT !.finished = yes]
                       = [kind |-> "tool_call", id |-> n, input |-> t, finished |-> yes]
        BY <4>1
      <4>3. [old EXCEPT !.finished = TRUE]
               = [kind |-> "tool_call", id |-> n, input |-> t, finished |-> TRUE]
        BY <4>2, Zenon
      <4>4. old.id = n
        BY <4>1
      <4> QED
        BY <4>3, <4>4, Zenon DEF CallPart
    <3>3. c = CallPart(n, t, TRUE)
      BY <2>1, <2>3, <3>2, Zenon
    <3>4. CallPart(n, t, TRUE).id = n
      BY DEF CallPart
    <3> QED
      BY <1>11, <3>2, <3>3, <3>4, Zenon
  <2> QED
    BY <2>2, <2>3, ChangedCallIsTold
<1>7. ASSUME NEW id \in CallIDs, NEW d \in Deltas,
             ChangeCall(id, LAMBDA c : [c EXCEPT !.input = Append(@, d)])
      PROVE  parts' \in Seq(AnyPart) /\ said' = Told(parts') /\ OneOfEach(parts')
  <2>1. PICK c : c = [parts[CallAt(id)] EXCEPT !.input = Append(@, d)]
    OBVIOUS
  <2>2. /\ CallAt(id) # 0 /\ parts' = [parts EXCEPT ![CallAt(id)] = c]
        /\ said' = [said EXCEPT !.calls = Saying(id, c)]
    BY <1>7, <2>1 DEF ChangeCall
  <2>3. ASSUME NEW old \in AnyCall, parts[CallAt(id)] = old PROVE c \in AnyCall /\ c.id = old.id
    <3>1. PICK n \in CallIDs, t \in Pieces, done \in BOOLEAN : old = CallPart(n, t, done)
      BY DEF AnyCall
    <3>2. PICK u \in Pieces : u = Append(t, d)
      BY AppendProperties DEF Pieces
    <3>3. c = [old EXCEPT !.input = u] /\ old.input = t
      BY <2>1, <2>3, <3>1, <3>2 DEF CallPart
    <3>4. c = CallPart(n, u, done)
      BY <3>1, <3>3 DEF CallPart
    <3> QED
      BY <3>1, <3>4 DEF AnyCall, CallPart
  <2> QED
    BY <2>2, <2>3, ChangedCallIsTold
<1>8. ASSUME NEW id \in CallIDs, AddToolResult(id)
      PROVE  parts' \in Seq(AnyPart) /\ said' = Told(parts') /\ OneOfEach(parts')
  BY <1>8, ResultIsTold
<1>9. ASSUME NEW ids \in {<<id>> : id \in CallIDs} \cup {<<>>},
             SetToolCalls([i \in DOMAIN ids |-> CallPart(ids[i], <<>>, TRUE)])
      PROVE  parts' \in Seq(AnyPart) /\ said' = Told(parts') /\ OneOfEach(parts')
  <2>1. PICK cs : cs = [i \in DOMAIN ids |-> CallPart(ids[i], <<>>, TRUE)]
    OBVIOUS
  <2>2. cs = <<>> \/ \E c \in AnyCall : cs = <<c>>
    <3>1. CASE ids = <<>>
      BY <2>1, <3>1
    <3>2. CASE ids \in {<<id>> : id \in CallIDs}
      <4>1. PICK id \in CallIDs : ids = <<id>>
        BY <3>2
      <4>2. PICK c \in AnyCall : c = CallPart(id, <<>>, TRUE)
        BY <1>2, <1>11
      <4>3. cs = <<c>>
        <5>1. DOMAIN ids = {1} /\ ids[1] = id
          BY <4>1
        <5>2. cs = [j \in {1} |-> c]
          BY <2>1, <4>2, <5>1
        <5> QED
          BY <5>2
      <4> QED
        BY <4>3
    <3> QED
      BY <3>1, <3>2
  <2> QED
    BY <1>9, <2>1, <2>2, SetCallsAreTold
<1>10. ASSUME NEW r \in Reasons, AddFinish(r)
       PROVE  parts' \in Seq(AnyPart) /\ said' = Told(parts') /\ OneOfEach(parts')
  BY <1>10, FinishIsTold
<1> QED
  BY <1>1, <1>2, <1>3, <1>4, <1>5, <1>6, <1>7, <1>8, <1>9, <1>10, BinaryIsTold, ImageIsTold
     DEF ChangeParts

LEMMA PartsStep == PartsInv /\ [PartsNext]_partsVars => PartsInv'
<1> SUFFICES ASSUME PartsInv, [PartsNext]_partsVars PROVE PartsInv'
  OBVIOUS
<1>1. CASE ChangeParts
  <2>1. partsRow' = partsRow /\ saved' = saved
    BY <1>1 DEF ChangeParts
  <2> QED
    BY <1>1, <2>1, ChangesAreTold DEF PartsInv
<1>2. CASE Update
  BY <1>2 DEF Update, PartsInv
<1>3. CASE GetMessage
  BY <1>3, ReadTellsTheSame DEF GetMessage, PartsInv
<1>4. CASE UNCHANGED partsVars
  BY <1>4 DEF PartsInv, partsVars
<1> QED
  BY <1>1, <1>2, <1>3, <1>4 DEF PartsNext

(* PartsInv holds in every state, whatever the texts, the calls, the reasons and the
   number of changes. *)
THEOREM PartsInvariance == PartsSpec => []PartsInv
  BY PartsBegin, PartsStep, PTL DEF PartsSpec

(* What is read from the row of a message is what was said until it was written, but for
   the pictures given as an address, which unmarshallParts of message/message.go reads and
   drops (the parts of message/content.go). *)
THEOREM RowIsTrue == PartsSpec => []RowTellsAll
<1>1. PartsInv => RowTellsAll
  BY ReadTellsTheSame DEF PartsInv, RowTellsAll, OneOfEach, Once
<1> QED
  BY <1>1, PartsInvariance, PTL
=============================================================================
