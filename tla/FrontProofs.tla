----------------------------- MODULE FrontProofs -----------------------------
(***************************************************************************)
(* Where people and programs meet the agent: the terminal window, for any  *)
(* number of requests and keys and any sizes of the channels; the bridge,  *)
(* for any number of chats and restarts; the windows over a conversation,  *)
(* for any keys and events; the way of a prompt to its turn, for any        *)
(* prompts, attachments and sessions; and the list of changed files, for    *)
(* any sessions, paths and contents.                                        *)
(***************************************************************************)
EXTENDS Terminal, Bridge, Windows, Composer, Sidebar, SequenceTheorems,
        WellFoundedInduction, TLAPS

-----------------------------------------------------------------------------
(* The terminal window.                                                      *)

Answers == [to : TermRequests, action : {"allow", "allow_session", "deny"},
            on : TermRequests \cup {NoRequest}, over : SUBSET Overlays]
KeyStrokes == [key : TermKeys, on : TermRequests \cup {NoRequest}, over : SUBSET Overlays]

TermTypes ==
    /\ respCh \in [TermRequests -> Answers \cup {Empty}]
    /\ verdict \in [TermRequests -> Answers \cup {Empty}]
    /\ queue \in Seq(TermRequests) /\ ch \in Seq(TermRequests)
    /\ pump \in TermRequests \cup {NoRequest, "ended"}
    /\ hand \in TermRequests \cup {NoRequest}
    /\ typed \in Seq(KeyStrokes)
    /\ dialog \in TermRequests \cup {NoRequest} /\ selectedOption \in 0..2
    /\ showPermissions \in BOOLEAN /\ inFront \in BOOLEAN /\ over \subseteq Overlays
    /\ responses \in Seq(Answers) /\ sending \in Answers \cup {Empty}
    /\ surprised \subseteq TermRequests /\ beneath \subseteq TermRequests

\* An open dialog has a request.
DialogAsks == showPermissions => dialog \in TermRequests

\* While the dialog has the keys, those under way were pressed when it had them for the
\* same request.
KeysAreMeant ==
    \A r \in TermRequests : TakesKeys(r) =>
       r \in surprised \/ \A i \in DOMAIN typed : typed[i].on = r

\* A list that lies over the dialog, now or when a key was pressed, was there before it.
Preceded(r, windows) == r \in TermRequests /\ "list" \in windows => r \in beneath
ListsWereThere ==
    /\ showPermissions => Preceded(dialog, over)
    /\ \A i \in DOMAIN typed : Preceded(typed[i].on, typed[i].over)

\* The same of those keys that have become answers, wherever these are by now.
IsMeant(m) == (m.on = m.to \/ m.to \in surprised) /\ Preceded(m.on, m.over)
AnswersAreMeant ==
    /\ \A i \in DOMAIN responses : IsMeant(responses[i])
    /\ sending # Empty => IsMeant(sending)
    /\ \A r \in TermRequests : respCh[r] # Empty => respCh[r].to = r /\ IsMeant(respCh[r])
    /\ \A r \in TermRequests : verdict[r] # Empty => verdict[r].to = r /\ IsMeant(verdict[r])

TermInv == TermTypes /\ DialogAsks /\ KeysAreMeant /\ ListsWereThere /\ AnswersAreMeant

-----------------------------------------------------------------------------

LEMMA TermStarts == TermInit => TermInv
<1> SUFFICES ASSUME TermInit PROVE TermInv
  OBVIOUS
<1>1. /\ respCh = [r \in TermRequests |-> Empty] /\ verdict = [r \in TermRequests |-> Empty]
      /\ queue = <<>> /\ ch = <<>> /\ pump = NoRequest /\ hand = NoRequest
      /\ typed = <<>> /\ responses = <<>> /\ sending = Empty
      /\ dialog = NoRequest /\ selectedOption = 0 /\ showPermissions = FALSE
      /\ inFront = FALSE /\ over \subseteq Overlays /\ surprised = {} /\ beneath = {}
  BY DEF TermInit, Overlays
<1>2. TermTypes
  <2>1. queue \in Seq(TermRequests) /\ ch \in Seq(TermRequests)
        /\ typed \in Seq(KeyStrokes) /\ responses \in Seq(Answers)
    BY <1>1
  <2>2. respCh \in [TermRequests -> Answers \cup {Empty}]
        /\ verdict \in [TermRequests -> Answers \cup {Empty}]
    BY <1>1
  <2>3. /\ pump \in TermRequests \cup {NoRequest, "ended"}
        /\ hand \in TermRequests \cup {NoRequest}
        /\ dialog \in TermRequests \cup {NoRequest}
    BY <1>1
  <2>4. showPermissions \in BOOLEAN /\ inFront \in BOOLEAN /\ over \subseteq Overlays
    BY <1>1
  <2>6. selectedOption \in 0..2
    BY <1>1
  <2>5. /\ sending \in Answers \cup {Empty}
        /\ surprised \subseteq TermRequests /\ beneath \subseteq TermRequests
    BY <1>1
  <2> QED
    BY <2>1, <2>2, <2>3, <2>4, <2>5, <2>6 DEF TermTypes
<1>3. DialogAsks /\ KeysAreMeant /\ ListsWereThere
  BY <1>1 DEF DialogAsks, KeysAreMeant, TakesKeys, ListsWereThere
<1>4. AnswersAreMeant
  <2>1. DOMAIN responses = {}
    BY <1>1
  <2>2. \A r \in TermRequests : respCh[r] = Empty /\ verdict[r] = Empty
    BY <1>1
  <2> QED
    BY <1>1, <2>1, <2>2 DEF AnswersAreMeant
<1> QED
  BY <1>2, <1>3, <1>4 DEF TermInv

(* What the history variables are for: a request takes the keys only when none is
   under way, unless it is a surprise; with a list over it it has come beneath it. *)
Watched ==
    /\ surprised' = surprised \cup {r \in TermRequests :
           TakesKeys(r)' /\ typed' # <<>> /\ ~TakesKeys(r)}
    /\ beneath' = beneath \cup {r \in TermRequests :
           /\ showPermissions' /\ dialog' = r /\ "list" \in over'
           /\ ~(showPermissions /\ dialog = r)}

Pressed(k) == [key |-> k, on |-> HasKeys, over |-> IF HasKeys = NoRequest THEN {} ELSE over]

LEMMA PressedIsKey == ASSUME TermInv, NEW k \in TermKeys PROVE Pressed(k) \in KeyStrokes
BY DEF Pressed, HasKeys, KeyStrokes, TermInv, TermTypes

LEMMA KeysStayMeant ==
  ASSUME TermInv, TermTypes', Watched,
         \/ typed' = typed
         \/ typed # <<>> /\ typed' = Tail(typed)
         \/ \E k \in TermKeys : typed' = Append(typed, Pressed(k))
  PROVE  KeysAreMeant'
<1> SUFFICES ASSUME NEW r \in TermRequests, TakesKeys(r)', r \notin surprised'
             PROVE  \A i \in DOMAIN typed' : typed'[i].on = r
  BY DEF KeysAreMeant
<1>1. r \notin surprised /\ (typed' = <<>> \/ TakesKeys(r))
  BY DEF Watched
<1>2. CASE typed' = <<>>
  BY <1>1, <1>2
<1>3. CASE TakesKeys(r)
  <2>1. \A i \in DOMAIN typed : typed[i].on = r
    BY <1>1, <1>3 DEF TermInv, KeysAreMeant
  <2>2. HasKeys = r
    BY <1>3, <2>1 DEF HasKeys, TakesKeys
  <2>3. typed \in Seq(KeyStrokes) /\ typed' \in Seq(KeyStrokes)
    BY DEF TermInv, TermTypes
  <2>4. CASE typed # <<>> /\ typed' = Tail(typed)
    <3>1. Len(typed') = Len(typed) - 1 /\ \A i \in 1..Len(typed') : typed'[i] = typed[i + 1]
      BY <2>3, <2>4, HeadTailProperties
    <3> QED
      BY <1>1, <2>1, <2>3, <3>1
  <2>5. CASE \E k \in TermKeys : typed' = Append(typed, Pressed(k))
    <3>1. PICK k \in TermKeys : typed' = Append(typed, Pressed(k))
      BY <2>5
    <3>2. Pressed(k) \in KeyStrokes /\ Pressed(k).on = r
      BY <2>2, PressedIsKey DEF Pressed
    <3>3. /\ Len(typed') = Len(typed) + 1 /\ typed'[Len(typed) + 1].on = r
          /\ \A i \in 1..Len(typed) : typed'[i] = typed[i]
      BY <2>3, <3>1, <3>2, AppendProperties
    <3> QED
      BY <1>1, <2>1, <2>3, <3>3
  <2> QED
    BY <1>1, <2>1, <2>4, <2>5
<1> QED
  BY <1>1, <1>2, <1>3

(* No list comes over the dialog. *)
LEMMA ListsStayThere ==
  ASSUME TermInv, Watched,
         showPermissions' /\ showPermissions /\ dialog' = dialog /\ "list" \in over' => "list" \in over,
         \/ typed' = typed
         \/ typed # <<>> /\ typed' = Tail(typed)
         \/ \E k \in TermKeys : typed' = Append(typed, Pressed(k))
  PROVE  ListsWereThere' /\ beneath \subseteq beneath' /\ beneath' \subseteq TermRequests
<1>1. beneath \subseteq beneath' /\ beneath' \subseteq TermRequests
  BY DEF Watched, TermInv, TermTypes
<1>2. showPermissions' => Preceded(dialog, over)'
  <2> SUFFICES ASSUME showPermissions', dialog' \in TermRequests, "list" \in over'
               PROVE  dialog' \in beneath'
    BY DEF Preceded
  <2>1. CASE showPermissions /\ dialog' = dialog
    BY <1>1, <2>1 DEF TermInv, ListsWereThere, Preceded
  <2>2. CASE ~(showPermissions /\ dialog' = dialog)
    BY <2>2 DEF Watched
  <2> QED
    BY <2>1, <2>2
<1>3. typed \in Seq(KeyStrokes) /\ \A i \in DOMAIN typed : Preceded(typed[i].on, typed[i].over)
  BY DEF TermInv, TermTypes, ListsWereThere
<1>4. ASSUME NEW i \in DOMAIN typed', NEW s \in KeyStrokes, typed'[i] = s, Preceded(s.on, s.over)
      PROVE  Preceded(typed[i].on, typed[i].over)'
  BY <1>1, <1>4 DEF Preceded
<1>5. ASSUME NEW i \in DOMAIN typed'
      PROVE  \E s \in KeyStrokes : typed'[i] = s /\ Preceded(s.on, s.over)
  <2>1. CASE typed' = typed
    <3>1. typed[i] \in KeyStrokes
      BY <1>3, <1>5, <2>1
    <3> QED
      BY <1>3, <1>5, <2>1, <3>1
  <2>2. CASE typed # <<>> /\ typed' = Tail(typed)
    <3>1. /\ Len(typed') = Len(typed) - 1 /\ typed' \in Seq(KeyStrokes)
          /\ \A j \in 1..Len(typed') : typed'[j] = typed[j + 1]
      BY <1>3, <2>2, HeadTailProperties
    <3>2. i \in 1..Len(typed') /\ i + 1 \in DOMAIN typed /\ typed[i + 1] \in KeyStrokes
      BY <1>3, <1>5, <3>1
    <3> QED
      BY <1>3, <3>1, <3>2
  <2>3. CASE \E k \in TermKeys : typed' = Append(typed, Pressed(k))
    <3>1. PICK k \in TermKeys : typed' = Append(typed, Pressed(k))
      BY <2>3
    <3>2. Pressed(k) \in KeyStrokes /\ Preceded(Pressed(k).on, Pressed(k).over)
      BY PressedIsKey DEF Pressed, HasKeys, Preceded, TermInv, ListsWereThere
    <3>3. /\ Len(typed') = Len(typed) + 1 /\ typed'[Len(typed) + 1] = Pressed(k)
          /\ \A j \in 1..Len(typed) : typed'[j] = typed[j]
          /\ typed' \in Seq(KeyStrokes)
      BY <1>3, <3>1, <3>2, AppendProperties
    <3>4. i \in 1..Len(typed) \/ i = Len(typed) + 1
      BY <1>3, <1>5, <3>3
    <3>5. CASE i \in 1..Len(typed)
      <4>1. typed[i] \in KeyStrokes /\ i \in DOMAIN typed
        BY <1>3, <3>5
      <4> QED
        BY <1>3, <3>3, <3>5, <4>1
    <3>6. CASE i = Len(typed) + 1
      BY <3>2, <3>3, <3>6
    <3> QED
      BY <3>4, <3>5, <3>6
  <2> QED
    BY <2>1, <2>2, <2>3
<1>6. \A i \in DOMAIN typed' : Preceded(typed[i].on, typed[i].over)'
  BY <1>4, <1>5
<1> QED
  BY <1>1, <1>2, <1>6 DEF ListsWereThere

-----------------------------------------------------------------------------
(* Tools, the broker and the pump. *)

LEMMA PipeTypes ==
  ASSUME TermInv, Pipe \/ \E r \in TermRequests : ToolStep(r)
  PROVE  /\ queue' \in Seq(TermRequests) /\ ch' \in Seq(TermRequests)
         /\ pump' \in TermRequests \cup {NoRequest, "ended"}
         /\ hand' \in TermRequests \cup {NoRequest}
<1>1. /\ queue \in Seq(TermRequests) /\ ch \in Seq(TermRequests)
      /\ pump \in TermRequests \cup {NoRequest, "ended"}
      /\ hand \in TermRequests \cup {NoRequest}
  BY DEF TermInv, TermTypes
<1>2. CASE Pipe
  <2>1. CASE PumpTakes
    BY <1>1, <2>1, HeadTailProperties DEF PumpTakes
  <2>2. CASE PumpPasses
    BY <1>1, <2>2, AppendProperties DEF PumpPasses
  <2>3. CASE PumpDrops \/ PumpEnds
    BY <1>1, <2>3 DEF PumpDrops, PumpEnds
  <2>4. CASE HandlerTakes
    BY <1>1, <2>4, HeadTailProperties DEF HandlerTakes
  <2> QED
    BY <1>2, <2>1, <2>2, <2>3, <2>4 DEF Pipe
<1>3. ASSUME NEW r \in TermRequests, Publish(r)
      PROVE  queue' \in Seq(TermRequests) /\ UNCHANGED <<ch, pump, hand>>
  BY <1>1, <1>3, AppendProperties DEF Publish
<1>4. ASSUME NEW r \in TermRequests, ToolStep(r), ~Publish(r)
      PROVE  UNCHANGED <<queue, ch, pump, hand>>
  BY <1>4 DEF ToolStep, Ask, PublishPanics, ReceiveAnswer, GiveUp, Return, pipe
<1> QED
  BY <1>1, <1>2, <1>3, <1>4

(* The tools and the pump take an answer at most from its channel. *)
LEMMA PipeStep ==
  ASSUME TermInv, Watched, UNCHANGED <<screen, loop>>,
         Pipe \/ \E r \in TermRequests : ToolStep(r)
  PROVE  TermInv'
<1>1. UNCHANGED <<dialog, selectedOption, showPermissions, inFront, over, typed, responses, sending>>
  BY DEF screen, loop
<1>2. \/ UNCHANGED <<respCh, verdict>>
      \/ \E r \in TermRequests : /\ respCh[r] # Empty
                                 /\ verdict' = [verdict EXCEPT ![r] = respCh[r]]
                                 /\ respCh' = [respCh EXCEPT ![r] = Empty]
  BY DEF Pipe, PumpTakes, PumpPasses, PumpDrops, PumpEnds, HandlerTakes, tool,
         ToolStep, Ask, Publish, PublishPanics, ReceiveAnswer, GiveUp, Return
<1>3. /\ respCh' \in [TermRequests -> Answers \cup {Empty}]
      /\ verdict' \in [TermRequests -> Answers \cup {Empty}]
  BY <1>2 DEF TermInv, TermTypes
<1>4. TermTypes' /\ DialogAsks'
  BY <1>1, <1>3, PipeTypes DEF TermInv, TermTypes, DialogAsks, Watched
<1>5. KeysAreMeant'
  BY <1>1, <1>4, KeysStayMeant
<1>6. AnswersAreMeant'
  <2>1. \A r \in TermRequests :
           /\ respCh'[r] # Empty => respCh'[r] = respCh[r]
           /\ verdict'[r] # Empty => \/ verdict'[r] = verdict[r]
                                     \/ respCh[r] # Empty /\ verdict'[r] = respCh[r]
    BY <1>2 DEF TermInv, TermTypes
  <2> QED
    BY <1>1, <2>1 DEF TermInv, AnswersAreMeant, IsMeant, Preceded, Watched
<1>7. ListsWereThere'
  BY <1>1, ListsStayThere
<1> QED
  BY <1>4, <1>5, <1>6, <1>7 DEF TermInv

-----------------------------------------------------------------------------
(* The event loop. *)

LEMMA PressStep ==
  ASSUME TermInv, Watched, NEW k \in TermKeys, Press(k) PROVE TermInv'
<1>1. /\ UNCHANGED <<dialog, selectedOption, showPermissions, inFront, over, responses, sending,
                     respCh, verdict, queue, pump, ch, hand>>
      /\ typed' = Append(typed, Pressed(k))
  BY DEF Press, Pressed, screen, tool, pipe
<1>2. ListsWereThere'
  BY <1>1, ListsStayThere
<1>3. typed' \in Seq(KeyStrokes)
  <2>1. Pressed(k) \in KeyStrokes /\ typed \in Seq(KeyStrokes)
    BY PressedIsKey DEF TermInv, TermTypes
  <2> QED
    BY <1>1, <2>1, AppendProperties
<1>4. TermTypes' /\ DialogAsks'
  BY <1>1, <1>3 DEF TermInv, TermTypes, DialogAsks, Watched
<1>5. KeysAreMeant'
  BY <1>1, <1>4, KeysStayMeant
<1>6. AnswersAreMeant'
  BY <1>1 DEF TermInv, AnswersAreMeant, IsMeant, Preceded, Watched
<1> QED
  BY <1>2, <1>4, <1>5, <1>6 DEF TermInv

LEMMA ShowStep == ASSUME TermInv, Watched, ShowRequest PROVE TermInv'
<1>1. /\ UNCHANGED <<selectedOption, inFront, over, typed, responses, sending,
                     respCh, verdict, queue, pump, ch>>
      /\ hand \in TermRequests /\ dialog' = hand /\ showPermissions' = TRUE /\ hand' = NoRequest
  BY DEF ShowRequest, tool
<1>2. TermTypes' /\ DialogAsks'
  BY <1>1 DEF TermInv, TermTypes, DialogAsks, Watched
<1>3. KeysAreMeant'
  BY <1>1, <1>2, KeysStayMeant
<1>4. AnswersAreMeant'
  BY <1>1 DEF TermInv, AnswersAreMeant, IsMeant, Preceded, Watched
<1>5. ListsWereThere'
  BY <1>1, ListsStayThere
<1> QED
  BY <1>2, <1>3, <1>4, <1>5 DEF TermInv

(* A key the dialog gets answers for the request it was pressed for. *)
LEMMA KeyAnswers ==
  ASSUME TermInv, HandleKey
  PROVE  \/ responses' = responses
         \/ \E m \in Answers : IsMeant(m) /\ responses' = Append(responses, m)
<1> DEFINE k == Head(typed)
<1>1. /\ typed # <<>> /\ typed \in Seq(KeyStrokes) /\ k \in KeyStrokes /\ k = typed[1]
      /\ 1 \in DOMAIN typed
  <2>1. typed # <<>> /\ typed \in Seq(KeyStrokes)
    BY DEF HandleKey, TermInv, TermTypes
  <2>2. Head(typed) \in KeyStrokes
    BY <2>1, HeadTailProperties
  <2> QED
    BY <2>1, <2>2
<1> HIDE DEF k
<1>2. responses' = responses \/ (~inFront /\ showPermissions /\ DialogKey(k))
  BY DEF HandleKey, k, screen
<1>3. SUFFICES ASSUME ~inFront, showPermissions, DialogKey(k), responses' # responses
               PROVE  \E m \in Answers : IsMeant(m) /\ responses' = Append(responses, m)
  BY <1>2
<1>4. dialog \in TermRequests /\ TakesKeys(dialog)
  BY <1>3 DEF TermInv, DialogAsks, TakesKeys
<1>5. PICK action \in {"allow", "allow_session", "deny"} : Respond(k, action)
  <2>1. selectedOption \in 0..2
    BY DEF TermInv, TermTypes
  <2>2. Options[selectedOption + 1] \in {"allow", "allow_session", "deny"}
    BY <2>1 DEF Options
  <2>3. k.key # "tab"
    BY <1>3 DEF DialogKey
  <2>4. CASE k.key = "enter"
    BY <1>3, <2>2, <2>4 DEF DialogKey
  <2>5. CASE k.key \in {"a", "d"}
    BY <1>3, <2>5 DEF DialogKey
  <2>6. CASE k.key \notin {"tab", "enter", "a", "d"}
    BY <1>3, <2>6 DEF DialogKey
  <2> QED
    BY <2>3, <2>4, <2>5, <2>6
<1>6. (k.on = dialog \/ dialog \in surprised) /\ Preceded(k.on, k.over)
  BY <1>1, <1>4 DEF TermInv, KeysAreMeant, ListsWereThere
<1> DEFINE m == [to |-> dialog, action |-> action, on |-> k.on, over |-> k.over]
<1>7. m \in Answers /\ IsMeant(m)
  <2>1. k.on \in TermRequests \cup {NoRequest} /\ k.over \in SUBSET Overlays
    BY <1>1 DEF KeyStrokes
  <2> QED
    BY <1>4, <1>5, <1>6, <2>1 DEF Answers, IsMeant
<1>8. responses' = Append(responses, m)
  BY <1>5 DEF Respond
<1> QED
  BY <1>7, <1>8

LEMMA KeyStep == ASSUME TermInv, Watched, HandleKey PROVE TermInv'
<1>1. /\ UNCHANGED <<sending, respCh, verdict, queue, pump, ch, hand>>
      /\ typed # <<>> /\ typed' = Tail(typed)
  BY DEF HandleKey, tool, pipe
<1>2. /\ UNCHANGED <<dialog, showPermissions>> /\ selectedOption' \in 0..2
      /\ inFront' \in BOOLEAN /\ over' \subseteq Overlays
      /\ showPermissions /\ "list" \in over' => "list" \in over
  <2> DEFINE k == Head(typed)
  <2>1. selectedOption \in 0..2 /\ inFront \in BOOLEAN /\ over \subseteq Overlays
    BY DEF TermInv, TermTypes
  <2>2. ASSUME DialogKey(k)
        PROVE  /\ UNCHANGED <<dialog, showPermissions, inFront, over>>
               /\ selectedOption' \in {selectedOption, (selectedOption + 1) % 3}
    BY <2>2 DEF DialogKey, Respond, screen
  <2>3. \/ DialogKey(k)
        \/ /\ UNCHANGED <<dialog, showPermissions, selectedOption>>
           /\ inFront' \in BOOLEAN /\ over' \subseteq Overlays
           /\ showPermissions /\ "list" \in over' => "list" \in over
    <3>1. \/ /\ FrontKey \/ ListKey \/ HelpOrEscKey \/ EnterElsewhere
             /\ UNCHANGED <<dialog, selectedOption, showPermissions, responses>>
          \/ DialogKey(k)
          \/ UNCHANGED screen
      BY Zenon DEF HandleKey
    <3> HIDE DEF k
    <3>2. CASE /\ FrontKey \/ ListKey \/ HelpOrEscKey \/ EnterElsewhere
               /\ UNCHANGED <<dialog, selectedOption, showPermissions, responses>>
      <4>1. /\ inFront' \in BOOLEAN /\ over' \subseteq Overlays
            /\ showPermissions /\ "list" \in over' => "list" \in over
        <5>1. CASE FrontKey
          BY <2>1, <5>1 DEF FrontKey
        <5>2. CASE ListKey
          BY <2>1, <5>2 DEF ListKey, Overlays
        <5>3. CASE HelpOrEscKey
          <6>1. \/ /\ over' \in {over, over \cup {"help"}, over \ {"help"}, over \ {"question"}}
                   /\ inFront' = inFront
                \/ inFront' = FALSE /\ over' = over
            BY <5>3 DEF HelpOrEscKey
          <6>2. "help" \in Overlays
            BY DEF Overlays
          <6> HIDE DEF Overlays
          <6>3. over' = over \/ (over' \subseteq over \cup {"help"} /\ inFront' = inFront)
            BY <6>1
          <6>4. inFront' \in BOOLEAN /\ over' \subseteq Overlays
            BY <2>1, <6>1, <6>2, <6>3
          <6>5. showPermissions /\ "list" \in over' => "list" \in over
            <7>1. "list" # "help"
              OBVIOUS
            <7> QED BY <6>3, <7>1
          <6> QED BY <6>4, <6>5
        <5>4. CASE EnterElsewhere
          <6>1. over' = over \/ over' = over \ {"list"} \/ over' = over \ {"question"}
            BY <5>4, Zenon DEF EnterElsewhere
          <6>2. inFront' \in BOOLEAN
            <7>1. inFront' \in BOOLEAN \/ inFront' \in {FALSE, "list" \in over}
              BY <5>4, Zenon DEF EnterElsewhere
            <7>2. CASE inFront' = ("list" \in over)
              <8>1. CASE "list" \in over
                BY <7>2, <8>1
              <8>2. CASE ~("list" \in over)
                BY <7>2, <8>2
              <8> QED BY <8>1, <8>2
            <7> QED BY <7>1, <7>2
          <6> QED BY <2>1, <6>1, <6>2
        <5> QED BY <3>2, <5>1, <5>2, <5>3, <5>4
      <4> QED BY <3>2, <4>1
    <3>3. CASE UNCHANGED screen
      BY <2>1, <3>3 DEF screen
    <3> QED
      BY <3>1, <3>2, <3>3
  <2> HIDE DEF k
  <2>4. (selectedOption + 1) % 3 \in 0..2
    BY <2>1
  <2> QED
    BY <2>1, <2>2, <2>3, <2>4 DEF TermInv, TermTypes
<1>3. typed' \in Seq(KeyStrokes)
  BY <1>1, HeadTailProperties DEF TermInv, TermTypes
<1>4. responses' \in Seq(Answers) /\ \A i \in DOMAIN responses' : IsMeant(responses'[i])
  <2>1. responses \in Seq(Answers) /\ \A i \in DOMAIN responses : IsMeant(responses[i])
    BY DEF TermInv, TermTypes, AnswersAreMeant
  <2>2. ASSUME NEW m \in Answers, IsMeant(m), responses' = Append(responses, m) PROVE <1>4
    <3>1. /\ responses' \in Seq(Answers) /\ Len(responses') = Len(responses) + 1
          /\ \A i \in 1..Len(responses) : responses'[i] = responses[i]
          /\ responses'[Len(responses) + 1] = m
      BY <2>1, <2>2, AppendProperties
    <3>2. DOMAIN responses' = 1..(Len(responses) + 1) /\ DOMAIN responses = 1..Len(responses)
          /\ Len(responses) \in Nat
      BY <2>1, <3>1
    <3>3. \A i \in DOMAIN responses' : i \in 1..Len(responses) \/ i = Len(responses) + 1
      BY <3>2
    <3> QED
      BY <2>1, <2>2, <3>1, <3>2, <3>3
  <2> QED
    BY <2>1, <2>2, KeyAnswers
<1>5. TermTypes' /\ DialogAsks'
  BY <1>1, <1>2, <1>3, <1>4 DEF TermInv, TermTypes, DialogAsks, Watched
<1>6. KeysAreMeant'
  BY <1>1, <1>5, KeysStayMeant
<1>7. AnswersAreMeant'
  BY <1>1, <1>4 DEF TermInv, AnswersAreMeant, IsMeant, Preceded, Watched
<1>8. ListsWereThere'
  BY <1>1, <1>2, ListsStayThere
<1> QED
  BY <1>5, <1>6, <1>7, <1>8 DEF TermInv

LEMMA CompactingStep == ASSUME TermInv, Watched, Compacting PROVE TermInv'
<1>1. /\ UNCHANGED <<dialog, selectedOption, showPermissions, inFront, typed, responses,
                     sending, respCh, verdict, queue, pump, ch, hand>>
      /\ over' \in {over \cup {"summary"}, over \ {"summary"}}
  BY DEF Compacting, tool, pipe, loop
<1>2. over' \subseteq Overlays /\ ("list" \in over' => "list" \in over)
  BY <1>1 DEF TermInv, TermTypes, Overlays
<1>3. TermTypes' /\ DialogAsks'
  BY <1>1, <1>2 DEF TermInv, TermTypes, DialogAsks, Watched
<1>4. KeysAreMeant'
  BY <1>1, <1>3, KeysStayMeant
<1>5. AnswersAreMeant'
  BY <1>1 DEF TermInv, AnswersAreMeant, IsMeant, Preceded, Watched
<1>6. ListsWereThere'
  BY <1>1, <1>2, ListsStayThere
<1> QED
  BY <1>3, <1>4, <1>5, <1>6 DEF TermInv

LEMMA ResponseStep ==
  ASSUME TermInv, Watched, NEW i \in DOMAIN responses, HandleResponse(i) PROVE TermInv'
<1>1. /\ UNCHANGED <<dialog, selectedOption, inFront, over, typed, respCh, verdict, queue, pump,
                     ch, hand>>
      /\ responses' = RemoveAt(responses, i)
      /\ sending' \in {sending, responses[i]}
      /\ showPermissions' \in {showPermissions, FALSE}
  BY DEF HandleResponse, Closes, tool, pipe, screen
<1>2. /\ responses \in Seq(Answers) /\ \A j \in DOMAIN responses : IsMeant(responses[j])
      /\ responses[i] \in Answers
  BY DEF TermInv, TermTypes, AnswersAreMeant
<1>3. responses' \in Seq(Answers) /\ \A j \in DOMAIN responses' : IsMeant(responses'[j])
  <2> DEFINE p == SubSeq(responses, 1, i - 1)
             q == SubSeq(responses, i + 1, Len(responses))
  <2>1. i \in 1..Len(responses) /\ Len(responses) \in Nat
    BY <1>2
  <2>2. p \in Seq(Answers) /\ q \in Seq(Answers)
    BY <1>2, <2>1
  <2>3. \A j \in 1..Len(p) : \E l \in DOMAIN responses : p[j] = responses[l]
    BY <1>2, <2>1
  <2>4. \A j \in 1..Len(q) : \E l \in DOMAIN responses : q[j] = responses[l]
    BY <1>2, <2>1
  <2>5. responses' = p \o q
    BY <1>1 DEF RemoveAt
  <2> HIDE DEF p, q
  <2>6. /\ responses' \in Seq(Answers) /\ Len(responses') = Len(p) + Len(q)
        /\ \A j \in 1..(Len(p) + Len(q)) :
              responses'[j] = IF j <= Len(p) THEN p[j] ELSE q[j - Len(p)]
    BY <2>2, <2>5, ConcatProperties
  <2>7. ASSUME NEW j \in DOMAIN responses' PROVE \E l \in DOMAIN responses : responses'[j] = responses[l]
    <3>1. j \in 1..(Len(p) + Len(q)) /\ Len(p) \in Nat /\ Len(q) \in Nat
      BY <2>2, <2>6, <2>7
    <3>2. CASE j <= Len(p)
      BY <2>3, <2>6, <3>1, <3>2
    <3>3. CASE ~(j <= Len(p))
      <4>1. j - Len(p) \in 1..Len(q) /\ responses'[j] = q[j - Len(p)]
        BY <2>6, <3>1, <3>3
      <4> QED
        BY <2>4, <4>1
    <3> QED
      BY <3>2, <3>3
  <2> QED
    BY <1>2, <2>6, <2>7
<1>4. TermTypes' /\ DialogAsks'
  <2>1. sending' \in Answers \cup {Empty} /\ showPermissions' \in BOOLEAN
    BY <1>1, <1>2 DEF TermInv, TermTypes
  <2>2. showPermissions' => showPermissions
    BY <1>1
  <2> QED
    BY <1>1, <1>3, <2>1, <2>2 DEF TermInv, TermTypes, DialogAsks, Watched
<1>5. KeysAreMeant'
  BY <1>1, <1>4, KeysStayMeant
<1>6. AnswersAreMeant'
  BY <1>1, <1>2, <1>3 DEF TermInv, AnswersAreMeant, IsMeant, Preceded, Watched
<1>7. ListsWereThere'
  BY <1>1, ListsStayThere
<1> QED
  BY <1>4, <1>5, <1>6, <1>7 DEF TermInv

LEMMA SendStep == ASSUME TermInv, Watched, SendAnswer PROVE TermInv'
<1>1. /\ UNCHANGED <<dialog, selectedOption, inFront, over, typed, responses, verdict, queue,
                     pump, ch, hand>>
      /\ sending # Empty /\ respCh' = [respCh EXCEPT ![sending.to] = sending]
      /\ sending' = Empty /\ showPermissions' = FALSE
  BY DEF SendAnswer, Closes, pipe
<1>2. sending \in Answers /\ sending.to \in TermRequests
  BY <1>1 DEF TermInv, TermTypes, Answers
<1>3. TermTypes' /\ DialogAsks'
  <2>1. respCh' \in [TermRequests -> Answers \cup {Empty}]
    BY <1>1, <1>2 DEF TermInv, TermTypes
  <2> QED
    BY <1>1, <2>1 DEF TermInv, TermTypes, DialogAsks, Watched
<1>4. KeysAreMeant'
  BY <1>1, <1>3, KeysStayMeant
<1>5. \A r \in TermRequests : respCh'[r] = respCh[r] \/ (respCh'[r] = sending /\ sending.to = r)
  BY <1>1, <1>2 DEF TermInv, TermTypes
<1>6. AnswersAreMeant'
  BY <1>1, <1>5 DEF TermInv, AnswersAreMeant, IsMeant, Preceded, Watched
<1>7. ListsWereThere'
  BY <1>1, ListsStayThere
<1> QED
  BY <1>3, <1>4, <1>6, <1>7 DEF TermInv

LEMMA EndStep ==
  ASSUME TermInv, Watched, Leave \/ Shutdown \/ CancelSubscriptions \/ CloseChannel
  PROVE  TermInv'
<1>1. UNCHANGED <<dialog, selectedOption, showPermissions, inFront, over, typed, responses,
                  sending, respCh, verdict, queue, pump, ch, hand>>
  BY DEF Leave, Shutdown, CancelSubscriptions, CloseChannel, tool, pipe, screen, loop
<1>2. TermTypes' /\ DialogAsks'
  BY <1>1 DEF TermInv, TermTypes, DialogAsks, Watched
<1>3. KeysAreMeant'
  BY <1>1, <1>2, KeysStayMeant
<1>4. AnswersAreMeant'
  BY <1>1 DEF TermInv, AnswersAreMeant, IsMeant, Preceded, Watched
<1>5. ListsWereThere'
  BY <1>1, ListsStayThere
<1> QED
  BY <1>2, <1>3, <1>4, <1>5 DEF TermInv

LEMMA TermStep == TermInv /\ [TermNext]_termVars => TermInv'
<1> SUFFICES ASSUME TermInv, [TermNext]_termVars PROVE TermInv'
  OBVIOUS
<1>1. CASE UNCHANGED termVars
  BY <1>1 DEF termVars, tool, pipe, screen, loop, TermInv, TermTypes, DialogAsks, KeysAreMeant,
              ListsWereThere, AnswersAreMeant, IsMeant, Preceded, TakesKeys
<1>2. CASE TermNext
  <2>1. Step /\ Watched
    BY <1>2 DEF TermNext, Watched
  <2> QED
    BY <2>1, PipeStep, PressStep, ShowStep, KeyStep, CompactingStep, ResponseStep,
       SendStep, EndStep DEF Step
<1> QED
  BY <1>1, <1>2

(* The inductive invariant of the window's permissions holds of any number of
   requests, keys and any sizes of the channels. *)
THEOREM TermInvariance == TermSpec => []TermInv
<1>1. TermInv /\ [TermNext]_termVars => TermInv'
  BY TermStep
<1> QED
  BY <1>1, TermStarts, PTL DEF TermSpec

(* A request is answered from the window only by a key that was pressed while its dialog
   had the keys, with nothing drawn over it but what the code draws there: help, summary
   or question, or a list the dialog came beneath.  A request that appeared while a key
   was under way is the exception. *)
THEOREM KeysMeanIt == TermSpec => []VerdictWasMeant
<1>1. ASSUME TermInv PROVE VerdictWasMeant
  <2> SUFFICES ASSUME NEW r \in TermRequests, verdict[r] # Empty, r \notin surprised
               PROVE  /\ verdict[r].on = r
                      /\ verdict[r].over = {} \/ Covered(verdict[r]) \/ r \in beneath
    BY DEF VerdictWasMeant
  <2>1. verdict[r].on = r /\ Preceded(r, verdict[r].over) /\ verdict[r] \in Answers
    BY <1>1 DEF TermInv, TermTypes, AnswersAreMeant, IsMeant
  <2>2. verdict[r].over \subseteq Overlays
    BY <2>1 DEF Answers
  <2> QED
    BY <2>1, <2>2 DEF Preceded, Overlays, Covered
<1> QED
  BY <1>1, TermInvariance, PTL

-----------------------------------------------------------------------------
(* The bridge.                                                               *)

StreamEvents ==
    [kind : {"session_id", "permission", "text", "done", "error"}, req : GuiChats \cup {"-"}]

SlotTypes ==
    /\ handler \in [GuiChats -> {"none", "list", "create", "begin", "run", "pump", "returned"}]
    /\ stream \in [GuiChats -> Seq(StreamEvents)] /\ flushed \in [GuiChats -> Nat]
    /\ agent \in [GuiChats -> {"none", "working", "asking", "offering", "closed", "killed"}]
    /\ open \subseteq GuiChats /\ active \in BOOLEAN
ApprovalTypes ==
    /\ pending \subseteq GuiChats /\ guiEvents \in Seq(GuiChats) /\ inHand \subseteq GuiChats
    /\ perm \in Seq(GuiChats) /\ awaiting \subseteq GuiChats /\ spoiled \subseteq GuiChats
    /\ deciding \subseteq GuiChats
TalkTypes ==
    /\ talk \in [GuiChats -> Conversations]
    /\ rows \in Seq([of : Conversations, prefix : BOOLEAN])
    /\ known \in [Conversations -> Nat] /\ guiRow \in [GuiChats -> Nat]

\* The slot: who holds it, and for whom an agent works.
Holds(c) == handler[c] \in {"run", "pump"}
SlotIsHeld ==
    /\ active <=> \E c \in GuiChats : Holds(c)
    /\ \A c, d \in GuiChats : Holds(c) /\ Holds(d) => c = d
AgentsAreServed ==
    \A c \in GuiChats :
       /\ handler[c] \in {"none", "list", "create", "begin", "run"} => agent[c] = "none"
       /\ Live(c) => handler[c] = "pump"

\* A stream that is open has told no end, and one that is not begun has told nothing.
Begun(s) ==
    /\ s # <<>> /\ s[1].kind = "session_id"
    /\ \A k \in 2..Len(s) : s[k].kind \in {"permission", "text"}
Ordered(s) ==
    \A k \in DOMAIN s :
       /\ s[k].kind = "session_id" => k = 1
       /\ s[k].kind \in {"permission", "text", "done"} => s[1].kind = "session_id"
       /\ s[k].kind = "done" => k = Len(s)
       /\ s[k].kind = "error" /\ k < Len(s) => s[k + 1].kind = "done"
StreamsAreTurns ==
    \A c \in GuiChats :
       /\ flushed[c] <= Len(stream[c])
       /\ handler[c] \in {"none", "list", "create", "begin"} => stream[c] = <<>>
       /\ Holds(c) => Begun(stream[c])
       /\ Ordered(stream[c])

SlotInv == SlotTypes /\ SlotIsHeld /\ AgentsAreServed /\ StreamsAreTurns

\* A request is on its way from the moment its agent asks, and remembered once the
\* watcher has it.
InStream(r) == \E c \in GuiChats : \E k \in DOMAIN stream[c] : stream[c][k].req = r
Passed(r) == r \in inHand \/ (\E k \in DOMAIN perm : perm[k] = r) \/ InStream(r)
Underway(r) == r \in pending \/ Passed(r) \/ \E k \in DOMAIN guiEvents : guiEvents[k] = r
OnlyAskedIsUnderway == \A r \in GuiChats : Underway(r) => agent[r] \notin {"none", "working"}
PassedIsAwaited == \A r \in pending \ spoiled : Passed(r) => r \in awaiting \cup deciding

ApprovalInv == ApprovalTypes /\ OnlyAskedIsUnderway /\ PassedIsAwaited

\* A conversation has one row unless it is parted, and who looks for it finds it.
Searches(c) == handler[c] \in {"list", "create"}
IsRowOf(n, v) == n \in DOMAIN rows /\ rows[n].of = v
RowsAreTheirs ==
    /\ \A c \in GuiChats : guiRow[c] # NoRowYet => IsRowOf(guiRow[c], talk[c])
    /\ \A v \in Conversations : known[v] # NoRowYet => IsRowOf(known[v], v)
OneRowEach ==
    \A v \in Conversations \ parted : \A n, m \in DOMAIN rows :
       IsRowOf(n, v) /\ IsRowOf(m, v) => n = m
RowIsFound ==
    \A v \in Conversations \ parted : \A n \in DOMAIN rows :
       IsRowOf(n, v) => known[v] # NoRowYet \/ rows[n].prefix
OneSearches ==
    \A c, d \in GuiChats :
       Searches(c) /\ Searches(d) /\ talk[c] = talk[d] /\ talk[c] \notin parted => c = d
SearchersKnowNothing ==
    \A c \in GuiChats : Searches(c) /\ talk[c] \notin parted =>
       /\ known[talk[c]] = NoRowYet
       /\ handler[c] = "create" /\ c \in open => \A n \in DOMAIN rows : ~IsRowOf(n, talk[c])
TurnsAreKnown ==
    \A c \in GuiChats :
       handler[c] \in {"begin", "run"} \/ agent[c] \notin {"none", "killed"} =>
          known[talk[c]] # NoRowYet

TalkInv ==
    /\ TalkTypes /\ RowsAreTheirs /\ OneRowEach /\ RowIsFound
    /\ OneSearches /\ SearchersKnowNothing /\ TurnsAreKnown

GuiInv == SlotInv /\ ApprovalInv /\ TalkInv

-----------------------------------------------------------------------------

LEMMA GuiStarts == GuiInit => GuiInv
<1> SUFFICES ASSUME GuiInit PROVE GuiInv
  OBVIOUS
<1>1. /\ talk \in Talks /\ rows = <<>> /\ known = [v \in Conversations |-> NoRowYet]
      /\ active = FALSE /\ handler = [c \in GuiChats |-> "none"]
      /\ guiRow = [c \in GuiChats |-> NoRowYet] /\ open = {}
      /\ stream = [c \in GuiChats |-> <<>>] /\ flushed = [c \in GuiChats |-> 0]
      /\ agent = [c \in GuiChats |-> "none"]
      /\ pending = {} /\ guiEvents = <<>> /\ inHand = {} /\ perm = <<>>
      /\ awaiting = {} /\ spoiled = {} /\ deciding = {}
  BY DEF GuiInit
<1>2. \A c \in GuiChats : /\ handler[c] = "none" /\ agent[c] = "none" /\ stream[c] = <<>>
                          /\ flushed[c] = 0 /\ guiRow[c] = NoRowYet
  BY <1>1
<1>3. SlotTypes
  <2>1. handler \in [GuiChats -> {"none", "list", "create", "begin", "run", "pump", "returned"}]
        /\ agent \in [GuiChats -> {"none", "working", "asking", "offering", "closed", "killed"}]
    BY <1>1
  <2>2. stream \in [GuiChats -> Seq(StreamEvents)] /\ flushed \in [GuiChats -> Nat]
    BY <1>1
  <2> QED
    BY <1>1, <2>1, <2>2 DEF SlotTypes
<1>4. ApprovalTypes
  <2>1. guiEvents \in Seq(GuiChats) /\ perm \in Seq(GuiChats)
    BY <1>1
  <2> QED
    BY <1>1, <2>1 DEF ApprovalTypes
<1>5. TalkTypes
  <2>1. talk \in [GuiChats -> Conversations]
    BY <1>1, TalksAssumption
  <2>2. rows \in Seq([of : Conversations, prefix : BOOLEAN])
    BY <1>1
  <2>3. known \in [Conversations -> Nat] /\ guiRow \in [GuiChats -> Nat]
    BY <1>1 DEF NoRowYet
  <2> QED
    BY <2>1, <2>2, <2>3 DEF TalkTypes
<1>6. SlotInv
  BY <1>1, <1>2, <1>3 DEF SlotInv, SlotIsHeld, Holds, AgentsAreServed, Live, StreamsAreTurns, Ordered
<1>7. ApprovalInv
  BY <1>1, <1>2, <1>4 DEF ApprovalInv, OnlyAskedIsUnderway, Underway, PassedIsAwaited, Passed, InStream
<1>8. TalkInv
  BY <1>1, <1>2, <1>5 DEF TalkInv, RowsAreTheirs, OneRowEach, RowIsFound, OneSearches,
     SearchersKnowNothing, TurnsAreKnown, IsRowOf, Searches, NoRowYet
<1> QED
  BY <1>6, <1>7, <1>8 DEF GuiInv

LEMMA LeastExists ==
  ASSUME NEW S, S \subseteq Nat, S # {}
  PROVE  \E n \in S : \A m \in S : n <= m
<1> DEFINE R == {p \in Nat \X Nat : p[1] < p[2]}
<1>1. OpToRel(<, Nat) = R
  BY DEF OpToRel
<1>2. IsWellFoundedOn(R, Nat)
  BY <1>1, NatLessThanWellFounded
<1>3. PICK n \in S : \A m \in S : ~ (<<m, n>> \in R)
  BY <1>2, WFMin
<1>4. \A m \in S : ~(m < n)
  BY <1>3
<1> QED
  BY <1>4

-----------------------------------------------------------------------------
(* What is written to a stream. *)

LEMMA OneMore ==
  ASSUME NEW s \in Seq(StreamEvents), NEW e \in StreamEvents
  PROVE  /\ s \o <<e>> \in Seq(StreamEvents) /\ Len(s \o <<e>>) = Len(s) + 1
         /\ \A k \in 1..Len(s) : (s \o <<e>>)[k] = s[k]
         /\ (s \o <<e>>)[Len(s) + 1] = e
<1>1. <<e>> \in Seq(StreamEvents) /\ Len(<<e>>) = 1 /\ <<e>>[1] = e
  OBVIOUS
<1> QED
  BY <1>1, ConcatProperties

LEMMA TwoMore ==
  ASSUME NEW s \in Seq(StreamEvents), NEW e \in StreamEvents, NEW f \in StreamEvents
  PROVE  /\ s \o <<e, f>> \in Seq(StreamEvents) /\ Len(s \o <<e, f>>) = Len(s) + 2
         /\ \A k \in 1..Len(s) : (s \o <<e, f>>)[k] = s[k]
         /\ (s \o <<e, f>>)[Len(s) + 1] = e /\ (s \o <<e, f>>)[Len(s) + 2] = f
<1>1. /\ <<e, f>> \in Seq(StreamEvents) /\ Len(<<e, f>>) = 2
      /\ <<e, f>>[1] = e /\ <<e, f>>[2] = f
  OBVIOUS
<1> QED
  BY <1>1, ConcatProperties

LEMMA EventTypes ==
  /\ \A kind \in {"session_id", "text", "done", "error"} :
        /\ GuiEvent(kind) \in StreamEvents /\ GuiEvent(kind).kind = kind
        /\ GuiEvent(kind).req \notin GuiChats
  /\ \A c \in GuiChats :
        /\ Permission(c) \in StreamEvents /\ Permission(c).kind = "permission"
        /\ Permission(c).req = c
BY TalksAssumption DEF GuiEvent, Permission, StreamEvents

(* An open stream goes on, or ends in one of three ways. *)
LEMMA BegunIsOrdered == ASSUME NEW s \in Seq(StreamEvents), Begun(s) PROVE Ordered(s)
<1>1. /\ Len(s) \in Nat \ {0} /\ DOMAIN s = 1..Len(s)
      /\ s[1].kind = "session_id" /\ \A k \in 2..Len(s) : s[k].kind \in {"permission", "text"}
  BY DEF Begun
<1> SUFFICES ASSUME NEW k \in DOMAIN s
             PROVE  s[k].kind \in {"session_id", "permission", "text"} /\ (s[k].kind = "session_id" => k = 1)
  BY <1>1 DEF Ordered
<1>2. k = 1 \/ k \in 2..Len(s)
  BY <1>1
<1> QED
  BY <1>1, <1>2

LEMMA BegunGoesOn ==
  ASSUME NEW s \in Seq(StreamEvents), Begun(s),
         NEW e \in StreamEvents, e.kind \in {"permission", "text"}
  PROVE  Begun(s \o <<e>>)
<1> DEFINE t == s \o <<e>>
<1>1. /\ t \in Seq(StreamEvents) /\ Len(t) = Len(s) + 1 /\ t[Len(s) + 1] = e
      /\ \A k \in 1..Len(s) : t[k] = s[k]
  BY OneMore
<1>2. /\ Len(s) \in Nat \ {0} /\ s[1].kind = "session_id"
      /\ \A k \in 2..Len(s) : s[k].kind \in {"permission", "text"}
  BY DEF Begun
<1> HIDE DEF t
<1>3. t # <<>> /\ t[1].kind = "session_id"
  BY <1>1, <1>2
<1>4. ASSUME NEW k \in 2..Len(t) PROVE t[k].kind \in {"permission", "text"}
  <2>1. (k \in 1..Len(s) /\ k \in 2..Len(s)) \/ k = Len(s) + 1
    BY <1>1, <1>2, <1>4
  <2> QED
    BY <1>1, <1>2, <2>1
<1>5. Begun(t)
  BY <1>3, <1>4 DEF Begun
<1> QED
  BY <1>5 DEF t

LEMMA BegunEnds ==
  ASSUME NEW s \in Seq(StreamEvents), Begun(s)
  PROVE  /\ Ordered(s \o <<GuiEvent("done")>>)
         /\ Ordered(s \o <<GuiEvent("error")>>)
         /\ Ordered(s \o <<GuiEvent("error"), GuiEvent("done")>>)
<1>1. /\ Len(s) \in Nat \ {0} /\ DOMAIN s = 1..Len(s) /\ s[1].kind = "session_id"
      /\ \A k \in 2..Len(s) : s[k].kind \in {"permission", "text"}
  BY DEF Begun
<1>2. ASSUME NEW e \in StreamEvents, e.kind \in {"done", "error"} PROVE Ordered(s \o <<e>>)
  <2> DEFINE t == s \o <<e>>
  <2>1. /\ t \in Seq(StreamEvents) /\ Len(t) = Len(s) + 1 /\ t[Len(s) + 1] = e
        /\ \A k \in 1..Len(s) : t[k] = s[k]
    BY OneMore
  <2> HIDE DEF t
  <2>2. ASSUME NEW k \in DOMAIN t
        PROVE  \/ k = 1 /\ t[k].kind = "session_id"
               \/ k \in 2..Len(s) /\ t[k].kind \in {"permission", "text"}
               \/ k = Len(t) /\ t[k].kind \in {"done", "error"}
    <3>1. k = 1 \/ k \in 2..Len(s) \/ k = Len(s) + 1
      BY <1>1, <2>1, <2>2
    <3> QED
      BY <1>1, <1>2, <2>1, <3>1
  <2>3. t[1].kind = "session_id" /\ Len(t) \in Nat
    BY <1>1, <2>1
  <2>4. Ordered(t)
    BY <2>2, <2>3 DEF Ordered
  <2> QED
    BY <2>4 DEF t
<1>3. Ordered(s \o <<GuiEvent("error"), GuiEvent("done")>>)
  <2> DEFINE t == s \o <<GuiEvent("error"), GuiEvent("done")>>
  <2>1. /\ t \in Seq(StreamEvents) /\ Len(t) = Len(s) + 2
        /\ \A k \in 1..Len(s) : t[k] = s[k]
        /\ t[Len(s) + 1] = GuiEvent("error") /\ t[Len(s) + 2] = GuiEvent("done")
    BY TwoMore, EventTypes
  <2>2. t[Len(s) + 1].kind = "error" /\ t[Len(s) + 2].kind = "done"
    BY <2>1, EventTypes
  <2> HIDE DEF t
  <2>3. ASSUME NEW k \in DOMAIN t
        PROVE  \/ k = 1 /\ t[k].kind = "session_id"
               \/ k \in 2..Len(s) /\ t[k].kind \in {"permission", "text"}
               \/ k = Len(s) + 1 /\ t[k].kind = "error"
               \/ k = Len(s) + 2 /\ t[k].kind = "done"
    <3>1. k = 1 \/ k \in 2..Len(s) \/ k = Len(s) + 1 \/ k = Len(s) + 2
      BY <1>1, <2>1, <2>3
    <3> QED
      BY <1>1, <2>1, <2>2, <3>1
  <2>4. t[1].kind = "session_id" /\ Len(t) = Len(s) + 2 /\ t[Len(s) + 1 + 1].kind = "done"
    BY <1>1, <2>1, <2>2
  <2>5. Ordered(t)
    BY <2>3, <2>4 DEF Ordered
  <2> QED
    BY <2>5 DEF t
<1> QED
  BY <1>2, <1>3, EventTypes

LEMMA BeginningIsOrdered ==
  /\ Ordered(<<>>) /\ Ordered(<<GuiEvent("error")>>)
  /\ Ordered(<<GuiEvent("session_id"), GuiEvent("error")>>)
  /\ Begun(<<GuiEvent("session_id")>>)
<1>1. GuiEvent("error").kind = "error" /\ GuiEvent("session_id").kind = "session_id"
  BY EventTypes
<1>2. Ordered(<<>>)
  BY DEF Ordered
<1>3. Ordered(<<GuiEvent("error")>>)
  BY <1>1 DEF Ordered
<1>4. Ordered(<<GuiEvent("session_id"), GuiEvent("error")>>)
  BY <1>1 DEF Ordered
<1>5. Begun(<<GuiEvent("session_id")>>)
  BY <1>1 DEF Begun
<1> QED
  BY <1>2, <1>3, <1>4, <1>5

-----------------------------------------------------------------------------
(* The slot and the streams. *)

\* The handler of c goes on: where to, with what stream, sent how far, and its agent;
\* and when it may.
MovesOn(c, to, s, sent, a) ==
    /\ handler' = [handler EXCEPT ![c] = to]
    /\ stream' = [stream EXCEPT ![c] = s]
    /\ flushed' = [flushed EXCEPT ![c] = sent]
    /\ agent' = [agent EXCEPT ![c] = a]
    /\ open' \subseteq open \cup {c}
MayGo(c, to, s, sent, a) ==
    /\ sent <= Len(s)
    /\ to \in {"none", "list", "create", "begin"} => s = <<>>
    /\ to \in {"run", "pump"} => Begun(s)
    /\ Ordered(s)
    /\ to \in {"none", "list", "create", "begin", "run"} => a = "none"
    /\ a \in {"working", "asking"} /\ c \in open' => to = "pump"
    /\ \/ active' = active /\ (Holds(c) <=> to \in {"run", "pump"})
       \/ ~active /\ active' = TRUE /\ to \in {"run", "pump"}
       \/ Holds(c) /\ active' = FALSE /\ to \notin {"run", "pump"}

LEMMA ServeKeeps ==
  ASSUME SlotInv, NEW c \in GuiChats,
         NEW to \in {"none", "list", "create", "begin", "run", "pump", "returned"},
         NEW s \in Seq(StreamEvents), NEW sent \in Nat,
         NEW a \in {"none", "working", "asking", "offering", "closed", "killed"},
         MovesOn(c, to, s, sent, a), MayGo(c, to, s, sent, a)
  PROVE  SlotInv'
<1>1. SlotTypes'
  <2>1. active' \in BOOLEAN
    BY DEF MayGo, SlotInv, SlotTypes
  <2> QED
    BY <2>1 DEF MovesOn, SlotInv, SlotTypes
<1>2. /\ \A d \in GuiChats \ {c} : /\ handler'[d] = handler[d] /\ stream'[d] = stream[d]
                                   /\ flushed'[d] = flushed[d] /\ agent'[d] = agent[d]
                                   /\ d \in open' => d \in open
      /\ handler'[c] = to /\ stream'[c] = s /\ flushed'[c] = sent /\ agent'[c] = a
  BY DEF MovesOn, SlotInv, SlotTypes
<1>3. SlotIsHeld'
  <2>1. /\ \A d \in GuiChats \ {c} : Holds(d)' <=> Holds(d)
        /\ Holds(c)' <=> to \in {"run", "pump"}
    BY <1>2 DEF Holds
  <2> QED
    BY <2>1 DEF MayGo, SlotInv, SlotIsHeld
<1>4. AgentsAreServed'
  BY <1>2 DEF MayGo, SlotInv, AgentsAreServed, Live
<1>5. StreamsAreTurns'
  BY <1>2 DEF MayGo, SlotInv, StreamsAreTurns, Holds
<1> QED
  BY <1>1, <1>3, <1>4, <1>5 DEF SlotInv

(* Nothing happens to a handler; agents go on or stop. *)
LEMMA SlotStays ==
  ASSUME SlotInv, UNCHANGED <<handler, active, stream, flushed>>, open' \subseteq open,
         agent' \in [GuiChats -> {"none", "working", "asking", "offering", "closed", "killed"}],
         \A c \in GuiChats : /\ agent[c] = "none" => agent'[c] = "none"
                             /\ agent'[c] \in {"working", "asking"} => agent[c] \in {"working", "asking"}
  PROVE  SlotInv'
BY DEF SlotInv, SlotTypes, SlotIsHeld, Holds, AgentsAreServed, Live, StreamsAreTurns

LEMMA FirstSlotStep ==
  ASSUME SlotInv, NEW c \in GuiChats, Lookup(c) \/ List(c) \/ Create(c) \/ BeginTurn(c)
  PROVE  SlotInv'
<1>1. /\ handler[c] \in {"none", "list", "create", "begin"} /\ stream[c] = <<>>
      /\ flushed[c] = 0 /\ agent[c] = "none" /\ ~Holds(c)
      /\ stream \in [GuiChats -> Seq(StreamEvents)] /\ flushed \in [GuiChats -> Nat]
      /\ agent \in [GuiChats -> {"none", "working", "asking", "offering", "closed", "killed"}]
      /\ open \subseteq GuiChats
  <2>1. handler[c] \in {"none", "list", "create", "begin"}
    BY DEF Lookup, List, Create, BeginTurn
  <2>2. /\ stream[c] = <<>> /\ flushed[c] <= Len(stream[c]) /\ flushed[c] \in Nat
        /\ agent[c] = "none" /\ ~Holds(c)
    BY <2>1 DEF SlotInv, SlotTypes, StreamsAreTurns, AgentsAreServed, Holds
  <2> QED
    BY <2>1, <2>2 DEF SlotInv, SlotTypes
<1>2. <<>> \in Seq(StreamEvents) /\ Len(<<>>) = 0
  OBVIOUS
<1>3. CASE Lookup(c) \/ List(c) \/ (Create(c) /\ c \in open)
  <2>1. PICK to \in {"list", "create", "begin"} : handler' = [handler EXCEPT ![c] = to]
    BY <1>3 DEF Lookup, List, Create, Resolved, Stands
  <2>2. UNCHANGED <<stream, flushed, agent, active>> /\ open' \subseteq open \cup {c}
    BY <1>3 DEF Lookup, List, Create, Resolved, slot, guiTurn
  <2>3. MovesOn(c, to, <<>>, 0, "none")
    BY <1>1, <1>2, <2>1, <2>2, BeginningIsOrdered DEF MovesOn
  <2>4. MayGo(c, to, <<>>, 0, "none")
    BY <1>1, <1>2, <2>1, <2>2, BeginningIsOrdered DEF MayGo
  <2> QED
    BY <1>2, <2>3, <2>4, ServeKeeps
<1>4. CASE Create(c) /\ c \notin open
  <2> DEFINE s == <<GuiEvent("error")>>
  <2>1. s \in Seq(StreamEvents) /\ Len(s) = 1 /\ stream[c] \o s = s
    BY <1>1, EventTypes
  <2>2. /\ handler' = [handler EXCEPT ![c] = "returned"]
        /\ stream' = [stream EXCEPT ![c] = s] /\ flushed' = [flushed EXCEPT ![c] = 1]
        /\ UNCHANGED <<agent, active, open>>
    BY <1>1, <1>2, <1>4, <2>1 DEF Create, Returns, Stands, GuiWrite, guiTurn
  <2>3. MovesOn(c, "returned", s, 1, "none")
    BY <1>1, <2>1, <2>2, BeginningIsOrdered DEF MovesOn
  <2>4. MayGo(c, "returned", s, 1, "none")
    BY <1>1, <2>1, <2>2, BeginningIsOrdered DEF MayGo
  <2> QED
    BY <2>1, <2>3, <2>4, ServeKeeps
<1>5. CASE BeginTurn(c) /\ active
  <2> DEFINE s == <<GuiEvent("session_id"), GuiEvent("error")>>
  <2>1. s \in Seq(StreamEvents) /\ Len(s) = 2 /\ stream[c] \o s = s
    BY <1>1, EventTypes
  <2>2. /\ handler' = [handler EXCEPT ![c] = "returned"]
        /\ stream' = [stream EXCEPT ![c] = s] /\ flushed' = [flushed EXCEPT ![c] = 2]
        /\ UNCHANGED <<agent, active, open>>
    BY <1>1, <1>2, <1>5, <2>1 DEF BeginTurn, Returns, Stands, GuiWrite, guiTurn
  <2>3. MovesOn(c, "returned", s, 2, "none")
    BY <1>1, <2>1, <2>2, BeginningIsOrdered DEF MovesOn
  <2>4. MayGo(c, "returned", s, 2, "none")
    BY <1>1, <2>1, <2>2, BeginningIsOrdered DEF MayGo
  <2> QED
    BY <2>1, <2>3, <2>4, ServeKeeps
<1>6. CASE BeginTurn(c) /\ ~active
  <2> DEFINE s == <<GuiEvent("session_id")>>
  <2>1. s \in Seq(StreamEvents) /\ Len(s) = 1 /\ stream[c] \o s = s
    BY <1>1, EventTypes
  <2>2. /\ handler' = [handler EXCEPT ![c] = "run"]
        /\ stream' = [stream EXCEPT ![c] = s] /\ active' = TRUE
        /\ UNCHANGED <<agent, flushed, open>>
    BY <1>1, <1>6, <2>1 DEF BeginTurn, Stands, GuiWrite, guiTurn
  <2>3. MovesOn(c, "run", s, 0, "none") /\ MayGo(c, "run", s, 0, "none")
    <3>1. Ordered(s) /\ Begun(s)
      BY <2>1, BeginningIsOrdered, BegunIsOrdered
    <3>2. flushed' = [flushed EXCEPT ![c] = 0] /\ agent' = [agent EXCEPT ![c] = "none"]
      BY <1>1, <2>2
    <3>3. open' \subseteq open \cup {c} /\ Len(s) = 1
      BY <2>1, <2>2
    <3> HIDE DEF s
    <3>4. MovesOn(c, "run", s, 0, "none")
      BY <2>2, <3>2, <3>3 DEF MovesOn
    <3>5. 0 <= Len(s)
      BY <3>3
    <3>6. MayGo(c, "run", s, 0, "none")
      BY <1>6, <2>2, <3>1, <3>5, Zenon DEF MayGo
    <3> QED
      BY <3>4, <3>6
  <2> QED
    BY <2>1, <2>3, ServeKeeps
<1> QED
  BY <1>3, <1>4, <1>5, <1>6

LEMMA RunSlotStep == ASSUME SlotInv, NEW c \in GuiChats, Run(c) PROVE SlotInv'
<1>1. /\ handler[c] = "run" /\ Begun(stream[c]) /\ Holds(c) /\ agent[c] = "none"
      /\ stream[c] \in Seq(StreamEvents) /\ flushed[c] \in Nat
      /\ flushed[c] <= Len(stream[c]) /\ Len(stream[c]) \in Nat
      /\ stream \in [GuiChats -> Seq(StreamEvents)] /\ flushed \in [GuiChats -> Nat]
      /\ agent \in [GuiChats -> {"none", "working", "asking", "offering", "closed", "killed"}]
  <2>1. handler[c] = "run"
    BY DEF Run
  <2> QED
    BY <2>1 DEF SlotInv, SlotTypes, StreamsAreTurns, AgentsAreServed, Holds
<1>2. CASE guiRow[c] \in busy
  <2> DEFINE s == stream[c] \o <<GuiEvent("error")>>
  <2>1. s \in Seq(StreamEvents) /\ Len(s) = Len(stream[c]) + 1 /\ Ordered(s)
    BY <1>1, OneMore, EventTypes, BegunEnds
  <2>2. EndTurn(c, <<GuiEvent("error")>>) /\ UNCHANGED <<agent, open>>
    BY <1>2 DEF Run, guiTurn
  <2>3. /\ handler' = [handler EXCEPT ![c] = "returned"] /\ active' = FALSE
        /\ stream' = [stream EXCEPT ![c] = s]
        /\ flushed' = [flushed EXCEPT ![c] = Len(stream[c]) + 1]
    BY <1>1, <2>2 DEF EndTurn, Returns, Stands, GuiWrite
  <2>4. agent' = [agent EXCEPT ![c] = "none"]
    BY <1>1, <2>2
  <2> HIDE DEF s
  <2>5. MovesOn(c, "returned", s, Len(stream[c]) + 1, "none")
    BY <1>1, <2>1, <2>2, <2>3, <2>4 DEF MovesOn
  <2>6. MayGo(c, "returned", s, Len(stream[c]) + 1, "none")
    BY <1>1, <2>1, <2>2, <2>3, <2>4 DEF MayGo
  <2> QED
    BY <1>1, <2>1, <2>5, <2>6, ServeKeeps
<1>3. CASE guiRow[c] \notin busy
  <2>1. /\ handler' = [handler EXCEPT ![c] = "pump"] /\ agent' = [agent EXCEPT ![c] = "working"]
        /\ UNCHANGED <<active, stream, flushed, open>>
    BY <1>3 DEF Run, Stands
  <2>2. stream' = [stream EXCEPT ![c] = stream[c]] /\ flushed' = [flushed EXCEPT ![c] = flushed[c]]
    BY <1>1, <2>1
  <2>3. Ordered(stream[c])
    BY <1>1, BegunIsOrdered
  <2>4. MovesOn(c, "pump", stream[c], flushed[c], "working")
    BY <1>1, <2>1, <2>2, <2>3 DEF MovesOn
  <2>5. MayGo(c, "pump", stream[c], flushed[c], "working")
    BY <1>1, <2>1, <2>2, <2>3 DEF MayGo
  <2> QED
    BY <1>1, <2>4, <2>5, ServeKeeps
<1> QED
  BY <1>2, <1>3

LEMMA PumpSlotStep ==
  ASSUME SlotInv, NEW c \in GuiChats, perm \in Seq(GuiChats),
         PumpGone(c) \/ PumpPermission(c) \/ PumpResult(c) \/ PumpClosed(c)
  PROVE  SlotInv'
<1>1. /\ handler[c] = "pump" /\ Begun(stream[c]) /\ Holds(c)
      /\ stream[c] \in Seq(StreamEvents) /\ Len(stream[c]) \in Nat /\ UNCHANGED open
      /\ handler \in [GuiChats -> {"none", "list", "create", "begin", "run", "pump", "returned"}]
      /\ agent[c] \in {"none", "working", "asking", "offering", "closed", "killed"}
      /\ agent \in [GuiChats -> {"none", "working", "asking", "offering", "closed", "killed"}]
  <2>1. handler[c] = "pump" /\ UNCHANGED open
    BY DEF PumpGone, PumpPermission, PumpResult, PumpClosed, Pumping
  <2> QED
    BY <2>1 DEF SlotInv, SlotTypes, StreamsAreTurns, Holds
<1>2. CASE PumpGone(c) \/ PumpClosed(c)
  <2> DEFINE s == stream[c] \o <<GuiEvent("done")>>
  <2>1. s \in Seq(StreamEvents) /\ Len(s) = Len(stream[c]) + 1 /\ Ordered(s)
    BY <1>1, OneMore, EventTypes, BegunEnds
  <2>2. /\ EndTurn(c, <<GuiEvent("done")>>) /\ UNCHANGED agent
        /\ c \notin open \/ agent[c] = "closed"
    BY <1>2 DEF PumpGone, PumpClosed, guiTurn
  <2>3. /\ handler' = [handler EXCEPT ![c] = "returned"] /\ active' = FALSE
        /\ stream' = [stream EXCEPT ![c] = s]
        /\ flushed' = [flushed EXCEPT ![c] = Len(stream[c]) + 1]
    BY <1>1, <2>2 DEF EndTurn, Returns, Stands, GuiWrite
  <2>4. agent' = [agent EXCEPT ![c] = agent[c]]
    BY <1>1, <2>2
  <2> HIDE DEF s
  <2>5. MovesOn(c, "returned", s, Len(stream[c]) + 1, agent[c])
    BY <1>1, <2>1, <2>2, <2>3, <2>4 DEF MovesOn
  <2>6. MayGo(c, "returned", s, Len(stream[c]) + 1, agent[c])
    BY <1>1, <2>1, <2>2, <2>3, <2>4 DEF MayGo
  <2> QED
    BY <1>1, <2>1, <2>5, <2>6, ServeKeeps
<1>3. ASSUME NEW e \in StreamEvents, e.kind \in {"permission", "text"},
             NEW a \in {"none", "working", "asking", "offering", "closed", "killed"},
             GuiWrite(c, <<e>>), flushed' = [flushed EXCEPT ![c] = Len(stream[c]) + 1],
             UNCHANGED <<handler, active>>, agent' = [agent EXCEPT ![c] = a]
      PROVE  SlotInv'
  <2> DEFINE s == stream[c] \o <<e>>
  <2>1. s \in Seq(StreamEvents) /\ Len(s) = Len(stream[c]) + 1 /\ Begun(s)
    BY <1>1, <1>3, OneMore, BegunGoesOn
  <2>2. stream' = [stream EXCEPT ![c] = s] /\ handler' = [handler EXCEPT ![c] = "pump"]
    BY <1>1, <1>3 DEF GuiWrite
  <2>3. Ordered(s)
    BY <2>1, BegunIsOrdered
  <2> HIDE DEF s
  <2>4. MovesOn(c, "pump", s, Len(stream[c]) + 1, a)
    BY <1>1, <1>3, <2>1, <2>2, <2>3 DEF MovesOn
  <2>5. MayGo(c, "pump", s, Len(stream[c]) + 1, a)
    BY <1>1, <1>3, <2>1, <2>2, <2>3 DEF MayGo
  <2> QED
    BY <1>1, <2>1, <2>4, <2>5, ServeKeeps
<1>4. CASE PumpPermission(c)
  <2>1. Head(perm) \in GuiChats
    BY <1>4, HeadTailProperties DEF PumpPermission
  <2>2. /\ GuiWrite(c, <<Permission(Head(perm))>>) /\ UNCHANGED <<handler, active>>
        /\ flushed' = [flushed EXCEPT ![c] = Len(stream[c]) + 1]
        /\ agent' = [agent EXCEPT ![c] = agent[c]]
    BY <1>1, <1>4 DEF PumpPermission, slot, guiTurn
  <2> QED
    BY <1>1, <1>3, <2>1, <2>2, EventTypes
<1>5. CASE PumpResult(c)
  <2>1. agent' = [agent EXCEPT ![c] = "closed"]
    BY <1>5 DEF PumpResult
  <2>2. CASE /\ GuiWrite(c, <<GuiEvent("text")>>) /\ UNCHANGED <<active, handler>>
             /\ flushed' = [flushed EXCEPT ![c] = Len(stream[c]) + 1]
    BY <1>3, <2>1, <2>2, EventTypes
  <2>3. CASE EndTurn(c, <<GuiEvent("error"), GuiEvent("done")>>)
    <3> DEFINE s == stream[c] \o <<GuiEvent("error"), GuiEvent("done")>>
    <3>1. s \in Seq(StreamEvents) /\ Len(s) = Len(stream[c]) + 2 /\ Ordered(s)
      BY <1>1, TwoMore, EventTypes, BegunEnds
    <3>2. /\ handler' = [handler EXCEPT ![c] = "returned"] /\ active' = FALSE
          /\ stream' = [stream EXCEPT ![c] = s]
          /\ flushed' = [flushed EXCEPT ![c] = Len(stream[c]) + 2]
      BY <1>1, <2>3 DEF EndTurn, Returns, Stands, GuiWrite
    <3> HIDE DEF s
    <3>3. MovesOn(c, "returned", s, Len(stream[c]) + 2, "closed")
      BY <1>1, <2>1, <3>1, <3>2 DEF MovesOn
    <3>4. MayGo(c, "returned", s, Len(stream[c]) + 2, "closed")
      BY <1>1, <2>1, <3>1, <3>2 DEF MayGo
    <3> QED
      BY <1>1, <3>1, <3>3, <3>4, ServeKeeps
  <2> QED
    BY <1>5, <2>2, <2>3 DEF PumpResult
<1> QED
  BY <1>2, <1>4, <1>5

LEMMA RestartSlotStep == ASSUME SlotInv, Restart PROVE SlotInv'
<1>1. \A c \in GuiChats :
         /\ handler'[c] = (IF handler[c] = "none" THEN "none" ELSE "returned")
         /\ agent'[c] = (IF agent[c] = "none" THEN "none" ELSE "killed")
         /\ stream'[c] = <<>> /\ flushed'[c] = 0 /\ ~Holds(c)'
  BY DEF Restart, Holds
<1>2. active' = FALSE /\ open' = {}
  BY DEF Restart
<1>3. SlotTypes'
  <2>1. /\ handler' \in [GuiChats -> {"none", "list", "create", "begin", "run", "pump", "returned"}]
        /\ agent' \in [GuiChats -> {"none", "working", "asking", "offering", "closed", "killed"}]
    BY DEF Restart, SlotInv, SlotTypes
  <2>2. stream' \in [GuiChats -> Seq(StreamEvents)] /\ flushed' \in [GuiChats -> Nat]
    BY DEF Restart
  <2> QED
    BY <1>2, <2>1, <2>2 DEF SlotTypes
<1>4. SlotIsHeld'
  BY <1>1, <1>2 DEF SlotIsHeld
<1>5. AgentsAreServed'
  BY <1>1, <1>2 DEF AgentsAreServed, Live, SlotInv
<1>6. StreamsAreTurns'
  BY <1>1, BeginningIsOrdered DEF StreamsAreTurns
<1> QED
  BY <1>3, <1>4, <1>5, <1>6 DEF SlotInv

(* The slot and the streams in every step. *)
LEMMA SlotStep == ASSUME SlotInv, ApprovalTypes, GuiNext PROVE SlotInv'
<1>1. CASE \E c \in GuiChats : Lookup(c) \/ List(c) \/ Create(c) \/ BeginTurn(c)
  BY <1>1, FirstSlotStep
<1>2. CASE \E c \in GuiChats : Run(c) \/ PumpGone(c) \/ PumpPermission(c) \/ PumpResult(c) \/ PumpClosed(c)
  BY <1>2, RunSlotStep, PumpSlotStep DEF ApprovalTypes
<1>3. CASE Restart
  BY <1>3, RestartSlotStep
<1>4. ASSUME NEW c \in GuiChats,
             \/ Close(c) \/ TimeOut(c) \/ Decide(c)
             \/ \E action \in {"known", "unknown"} : Answer(c, action)
      PROVE  SlotInv'
  BY <1>4, SlotStays DEF Close, TimeOut, Answer, Decide, slot, http, guiTurn, SlotInv, SlotTypes
<1>5. ASSUME NEW c \in GuiChats, GuiAsk(c) \/ GuiFinish(c) PROVE SlotInv'
  <2>1. UNCHANGED <<handler, active, stream, flushed, open>>
    BY <1>5 DEF GuiAsk, GuiFinish, slot, http
  <2>2. PICK a \in {"asking", "offering"} :
           agent' = [agent EXCEPT ![c] = a] /\ agent[c] \in {"working", "asking"}
    BY <1>5 DEF GuiAsk, GuiFinish
  <2> QED
    BY <2>1, <2>2, SlotStays DEF SlotInv, SlotTypes
<1>6. CASE WatcherStep \/ \E n \in DOMAIN rows : TitleMade(n)
  BY <1>6, SlotStays DEF WatcherStep, WatcherSubscribes, WatcherTakes, WatcherPasses, TitleMade, slot,
                         http, guiTurn,
                         SlotInv, SlotTypes
<1> QED
  BY <1>1, <1>2, <1>3, <1>4, <1>5, <1>6 DEF GuiNext, HandlerStep

-----------------------------------------------------------------------------
(* The way of a request. *)

\* What is written is no request.
Plain(w) == w \in Seq(StreamEvents) /\ \A k \in DOMAIN w : w[k].req \notin GuiChats

LEMMA PlainWrite ==
  ASSUME SlotTypes, NEW c \in GuiChats, NEW w, Plain(w), GuiWrite(c, w),
         NEW r \in GuiChats, InStream(r)'
  PROVE  InStream(r)
<1>1. PICK d \in GuiChats : \E k \in DOMAIN stream'[d] : stream'[d][k].req = r
  BY DEF InStream
<1>2. stream[d] \in Seq(StreamEvents) /\ w \in Seq(StreamEvents)
  BY DEF SlotTypes, Plain
<1>3. CASE d # c
  BY <1>1, <1>3 DEF GuiWrite, InStream, SlotTypes
<1>4. CASE d = c
  <2>1. stream'[d] = stream[d] \o w
    BY <1>4 DEF GuiWrite, SlotTypes
  <2> PICK k \in DOMAIN stream'[d] : stream'[d][k].req = r
    BY <1>1
  <2>2. k \in 1..(Len(stream[d]) + Len(w)) /\ stream'[d][k].req = r
    BY <1>2, <2>1, ConcatProperties
  <2>3. CASE k \in 1..Len(stream[d])
    <3>1. stream[d][k].req = r /\ k \in DOMAIN stream[d]
      BY <1>2, <2>2, <2>1, <2>3, ConcatProperties
    <3> QED
      BY <3>1 DEF InStream
  <2>4. CASE k \notin 1..Len(stream[d])
    <3>1. k - Len(stream[d]) \in DOMAIN w /\ k > Len(stream[d])
      BY <1>2, <2>2, <2>4
    <3>2. (stream[d] \o w)[k] = w[k - Len(stream[d])]
      BY <1>2, <2>2, <3>1, ConcatProperties
    <3> QED
      BY <2>1, <2>2, <3>1, <3>2 DEF Plain
  <2> QED
    BY <2>3, <2>4
<1> QED
  BY <1>3, <1>4

LEMMA PlainEvents ==
  ASSUME NEW k \in {"session_id", "text", "done", "error"},
         NEW m \in {"session_id", "text", "done", "error"}
  PROVE  Plain(<<GuiEvent(k)>>) /\ Plain(<<GuiEvent(k), GuiEvent(m)>>)
<1>1. /\ GuiEvent(k) \in StreamEvents /\ GuiEvent(k).req \notin GuiChats
      /\ GuiEvent(m) \in StreamEvents /\ GuiEvent(m).req \notin GuiChats
  BY EventTypes
<1> QED
  BY <1>1 DEF Plain

(* Nothing starts on its way and nobody goes back to work. *)
LEMMA ApprovalStays ==
  ASSUME ApprovalInv, pending' \subseteq pending,
         UNCHANGED <<guiEvents, inHand, perm, awaiting, deciding, spoiled>>,
         \A r \in GuiChats : InStream(r)' => InStream(r),
         \A r \in GuiChats : agent'[r] \in {"none", "working"} => agent[r] \in {"none", "working"}
  PROVE  ApprovalInv'
<1>1. ApprovalTypes'
  BY DEF ApprovalInv, ApprovalTypes
<1>2. \A r \in GuiChats : (Passed(r)' => Passed(r)) /\ (Underway(r)' => Underway(r))
  BY DEF Passed, Underway
<1>3. OnlyAskedIsUnderway'
  BY <1>2 DEF ApprovalInv, OnlyAskedIsUnderway
<1>4. PassedIsAwaited'
  BY <1>2 DEF ApprovalInv, PassedIsAwaited, ApprovalTypes
<1> QED
  BY <1>1, <1>3, <1>4 DEF ApprovalInv

LEMMA HandlerApprovalStep ==
  ASSUME SlotTypes, AgentsAreServed, ApprovalInv, NEW c \in GuiChats,
         \/ Lookup(c) \/ List(c) \/ Create(c) \/ BeginTurn(c) \/ Run(c)
         \/ PumpGone(c) \/ PumpResult(c) \/ PumpClosed(c)
  PROVE  ApprovalInv'
<1>1. UNCHANGED <<pending, guiEvents, inHand, perm, awaiting, deciding, spoiled>>
  BY DEF Lookup, List, Create, BeginTurn, Run, PumpGone, PumpResult, PumpClosed, approvals
<1>2. UNCHANGED stream \/ \E w : Plain(w) /\ GuiWrite(c, w)
  BY PlainEvents DEF Lookup, List, Create, BeginTurn, Run, PumpGone, PumpResult, PumpClosed,
                     EndTurn, Returns
<1>3. \A r \in GuiChats : InStream(r)' => InStream(r)
  BY <1>2, PlainWrite DEF InStream
<1>4. \/ UNCHANGED agent
      \/ agent' = [agent EXCEPT ![c] = "working"] /\ agent[c] = "none"
      \/ agent' = [agent EXCEPT ![c] = "closed"]
  BY DEF Lookup, List, Create, BeginTurn, Run, PumpGone, PumpResult, PumpClosed, guiTurn, AgentsAreServed
<1>5. \A r \in GuiChats : agent'[r] \in {"none", "working"} => agent[r] \in {"none", "working"}
  BY <1>4 DEF SlotTypes
<1> QED
  BY <1>1, <1>3, <1>5, ApprovalStays

LEMMA ShowApprovalStep ==
  ASSUME SlotTypes, ApprovalInv, NEW c \in GuiChats, PumpPermission(c)
  PROVE  ApprovalInv'
<1>1. /\ perm # <<>> /\ perm \in Seq(GuiChats) /\ perm' = Tail(perm)
      /\ UNCHANGED <<pending, guiEvents, inHand, awaiting, deciding, spoiled, agent>>
      /\ GuiWrite(c, <<Permission(Head(perm))>>) /\ stream[c] \in Seq(StreamEvents)
  BY DEF PumpPermission, ApprovalInv, ApprovalTypes, SlotTypes, guiTurn
<1>2. /\ Head(perm) \in GuiChats /\ Head(perm) = perm[1] /\ Tail(perm) \in Seq(GuiChats)
      /\ Len(perm) \in Nat /\ Len(perm) > 0 /\ Len(Tail(perm)) = Len(perm) - 1
      /\ \A k \in 1..(Len(perm) - 1) : Tail(perm)[k] = perm[k + 1]
  BY <1>1, HeadTailProperties
<1>3. ApprovalTypes'
  BY <1>1, <1>2 DEF ApprovalInv, ApprovalTypes
<1>4. ASSUME NEW r \in GuiChats, Passed(r)' PROVE Passed(r)
  <2>1. CASE \E k \in DOMAIN perm' : perm'[k] = r
    <3>1. PICK k \in 1..(Len(perm) - 1) : Tail(perm)[k] = r
      BY <1>1, <1>2, <2>1
    <3>2. k + 1 \in DOMAIN perm /\ perm[k + 1] = r
      BY <1>1, <1>2, <3>1
    <3> QED
      BY <3>2 DEF Passed
  <2>2. CASE InStream(r)'
    <3> DEFINE e == Permission(Head(perm))
    <3>1. e \in StreamEvents /\ e.req = perm[1]
      BY <1>2, EventTypes
    <3> HIDE DEF e
    <3>2. /\ stream' = [stream EXCEPT ![c] = stream[c] \o <<e>>]
          /\ Len(stream[c] \o <<e>>) = Len(stream[c]) + 1
          /\ \A k \in 1..Len(stream[c]) : (stream[c] \o <<e>>)[k] = stream[c][k]
          /\ (stream[c] \o <<e>>)[Len(stream[c]) + 1] = e
          /\ stream[c] \o <<e>> \in Seq(StreamEvents)
      BY <1>1, <3>1, OneMore DEF GuiWrite, e
    <3>3. PICK d \in GuiChats : \E k \in DOMAIN stream'[d] : stream'[d][k].req = r
      BY <2>2 DEF InStream
    <3>4. CASE d # c
      BY <3>2, <3>3, <3>4 DEF SlotTypes, Passed, InStream
    <3>5. CASE d = c
      <4>1. stream'[d] = stream[c] \o <<e>>
        BY <3>2, <3>5 DEF SlotTypes
      <4>2. PICK k \in 1..(Len(stream[c]) + 1) : stream'[d][k].req = r
        BY <1>1, <3>2, <3>3, <4>1
      <4>3. CASE k \in 1..Len(stream[c])
        <5>1. k \in DOMAIN stream[c] /\ stream[c][k].req = r
          BY <1>1, <3>2, <4>1, <4>2, <4>3
        <5> QED
          BY <5>1 DEF Passed, InStream
      <4>4. CASE k = Len(stream[c]) + 1
        <5>1. perm[1] = r /\ 1 \in DOMAIN perm
          BY <1>1, <1>2, <3>1, <3>2, <4>1, <4>2, <4>4
        <5> QED
          BY <5>1 DEF Passed
      <4> QED
        BY <1>1, <4>2, <4>3, <4>4
    <3> QED
      BY <3>4, <3>5
  <2> QED
    BY <1>1, <1>4, <2>1, <2>2 DEF Passed
<1>5. OnlyAskedIsUnderway'
  BY <1>1, <1>4 DEF ApprovalInv, OnlyAskedIsUnderway, Underway
<1>6. PassedIsAwaited'
  BY <1>1, <1>4 DEF ApprovalInv, PassedIsAwaited, ApprovalTypes
<1> QED
  BY <1>3, <1>5, <1>6 DEF ApprovalInv

LEMMA AskApprovalStep ==
  ASSUME SlotTypes, ApprovalInv, NEW c \in GuiChats, GuiAsk(c)
  PROVE  ApprovalInv'
<1>1. /\ agent[c] = "working" /\ agent' = [agent EXCEPT ![c] = "asking"]
      /\ pending' = pending \cup {c} /\ guiEvents \in Seq(GuiChats)
      /\ guiEvents' = guiEvents \/ guiEvents' = Append(guiEvents, c)
      /\ UNCHANGED <<stream, perm, inHand, awaiting, deciding, spoiled>>
  BY DEF GuiAsk, ApprovalInv, ApprovalTypes, http
<1>2. ~Underway(c)
  BY <1>1 DEF ApprovalInv, OnlyAskedIsUnderway
<1>3. \A r \in GuiChats : Passed(r)' <=> Passed(r)
  BY <1>1 DEF Passed, InStream
<1>4. ASSUME NEW r \in GuiChats \ {c}, Underway(r)' PROVE Underway(r)
  <2>1. \A k \in DOMAIN guiEvents' : guiEvents'[k] = r => \E m \in DOMAIN guiEvents : guiEvents[m] = r
    BY <1>1, AppendProperties
  <2> QED
    BY <1>1, <1>3, <1>4, <2>1 DEF Underway
<1>5. ApprovalTypes'
  <2>1. guiEvents' \in Seq(GuiChats)
    BY <1>1, AppendProperties
  <2>2. pending' \subseteq GuiChats
    BY <1>1 DEF ApprovalInv, ApprovalTypes
  <2> QED
    BY <1>1, <2>1, <2>2 DEF ApprovalInv, ApprovalTypes
<1>6. OnlyAskedIsUnderway'
  BY <1>1, <1>4 DEF ApprovalInv, OnlyAskedIsUnderway, SlotTypes
<1>7. PassedIsAwaited'
  BY <1>1, <1>2, <1>3 DEF ApprovalInv, PassedIsAwaited, ApprovalTypes, Underway
<1> QED
  BY <1>5, <1>6, <1>7 DEF ApprovalInv

LEMMA WatcherApprovalStep == ASSUME ApprovalInv, WatcherStep PROVE ApprovalInv'
<1>1. UNCHANGED <<stream, agent, pending, deciding, spoiled>>
  BY DEF WatcherStep, WatcherSubscribes, WatcherTakes, WatcherPasses, http, guiTurn
<1>2. \A r \in GuiChats : InStream(r)' <=> InStream(r)
  BY <1>1 DEF InStream
<1>3. CASE WatcherTakes
  <2>1. /\ guiEvents # <<>> /\ guiEvents \in Seq(GuiChats) /\ inHand' = {Head(guiEvents)}
        /\ guiEvents' = Tail(guiEvents) /\ awaiting' = awaiting \cup inHand' /\ UNCHANGED perm
    BY <1>3 DEF WatcherTakes, ApprovalInv, ApprovalTypes
  <2>2. /\ Head(guiEvents) \in GuiChats /\ Head(guiEvents) = guiEvents[1]
        /\ Len(guiEvents) \in Nat /\ Len(guiEvents) > 0 /\ Tail(guiEvents) \in Seq(GuiChats)
        /\ Len(Tail(guiEvents)) = Len(guiEvents) - 1
        /\ \A k \in 1..(Len(guiEvents) - 1) : Tail(guiEvents)[k] = guiEvents[k + 1]
    BY <2>1, HeadTailProperties
  <2>3. ASSUME NEW r \in GuiChats PROVE Passed(r)' => Passed(r) \/ r = Head(guiEvents)
    BY <1>2, <2>1 DEF Passed
  <2>4. ASSUME NEW r \in GuiChats, Underway(r)' PROVE Underway(r)
    <3>1. \A k \in DOMAIN guiEvents' : k + 1 \in DOMAIN guiEvents /\ guiEvents'[k] = guiEvents[k + 1]
      BY <2>1, <2>2
    <3>2. 1 \in DOMAIN guiEvents
      BY <2>1, <2>2
    <3> QED
      BY <1>1, <2>2, <2>3, <2>4, <3>1, <3>2 DEF Underway
  <2>5. ApprovalTypes'
    BY <1>1, <2>1, <2>2 DEF ApprovalInv, ApprovalTypes
  <2>6. OnlyAskedIsUnderway' /\ PassedIsAwaited'
    BY <1>1, <2>1, <2>3, <2>4 DEF ApprovalInv, OnlyAskedIsUnderway, PassedIsAwaited, ApprovalTypes
  <2> QED
    BY <2>5, <2>6 DEF ApprovalInv
<1>4. CASE WatcherPasses
  <2>1. PICK q \in inHand : perm' = Append(perm, q)
    BY <1>4 DEF WatcherPasses
  <2>2. /\ perm \in Seq(GuiChats) /\ q \in GuiChats /\ UNCHANGED <<guiEvents, awaiting>> /\ inHand' = {}
    BY <1>4 DEF WatcherPasses, ApprovalInv, ApprovalTypes
  <2>3. ASSUME NEW r \in GuiChats PROVE Passed(r)' => Passed(r)
    <3>1. \A k \in DOMAIN perm' : perm'[k] = r => r = q \/ \E m \in DOMAIN perm : perm[m] = r
      BY <2>1, <2>2, AppendProperties
    <3> QED
      BY <1>2, <2>1, <2>2, <3>1 DEF Passed
  <2>4. ApprovalTypes'
    <3>1. perm' \in Seq(GuiChats)
      BY <2>1, <2>2, AppendProperties
    <3> QED
      BY <1>1, <2>2, <3>1 DEF ApprovalInv, ApprovalTypes
  <2>5. OnlyAskedIsUnderway' /\ PassedIsAwaited'
    BY <1>1, <2>2, <2>3 DEF ApprovalInv, OnlyAskedIsUnderway, Underway, PassedIsAwaited, ApprovalTypes
  <2> QED
    BY <2>4, <2>5 DEF ApprovalInv
<1>5. CASE WatcherSubscribes
  BY <1>1, <1>2, <1>5, ApprovalStays DEF WatcherSubscribes
<1> QED
  BY <1>3, <1>4, <1>5 DEF WatcherStep

LEMMA AnswerApprovalStep ==
  ASSUME ApprovalInv, NEW c \in GuiChats,
         Decide(c) \/ \E action \in {"known", "unknown"} : Answer(c, action)
  PROVE  ApprovalInv'
<1>1. /\ UNCHANGED <<agent, stream, guiEvents, inHand, perm>>
      /\ \/ /\ awaiting' = awaiting \ {c} /\ pending' = pending
            /\ \/ spoiled' = spoiled \cup {c} /\ deciding' = deciding
               \/ deciding' = deciding \cup {c} /\ spoiled' = spoiled
         \/ /\ awaiting' = awaiting /\ spoiled' = spoiled
            /\ pending' = pending \ {c} /\ deciding' = deciding \ {c}
  BY DEF Answer, Decide, http, guiTurn
<1>2. \A r \in GuiChats : (Passed(r)' <=> Passed(r)) /\ (Underway(r)' => Underway(r))
  BY <1>1 DEF Passed, Underway, InStream
<1> QED
  BY <1>1, <1>2 DEF ApprovalInv, ApprovalTypes, OnlyAskedIsUnderway, PassedIsAwaited

LEMMA RestartApprovalStep == ASSUME ApprovalInv, Restart PROVE ApprovalInv'
<1>1. /\ pending' = {} /\ guiEvents' = <<>> /\ inHand' = {} /\ perm' = <<>> /\ awaiting' = {}
      /\ deciding' = {} /\ spoiled' = {} /\ stream' = [c \in GuiChats |-> <<>>]
  BY DEF Restart
<1>2. \A r \in GuiChats : ~Underway(r)'
  BY <1>1 DEF Underway, Passed, InStream
<1>3. ApprovalTypes'
  BY <1>1 DEF ApprovalTypes
<1>4. OnlyAskedIsUnderway' /\ PassedIsAwaited'
  BY <1>1, <1>2 DEF OnlyAskedIsUnderway, PassedIsAwaited
<1> QED
  BY <1>3, <1>4 DEF ApprovalInv

(* The requests in every step. *)
LEMMA ApprovalStep == ASSUME SlotInv, ApprovalInv, GuiNext PROVE ApprovalInv'
<1> SlotTypes /\ AgentsAreServed
  BY DEF SlotInv
<1>1. CASE \E c \in GuiChats :
              \/ Lookup(c) \/ List(c) \/ Create(c) \/ BeginTurn(c) \/ Run(c)
              \/ PumpGone(c) \/ PumpResult(c) \/ PumpClosed(c)
  BY <1>1, HandlerApprovalStep
<1>2. CASE \E c \in GuiChats : PumpPermission(c) \/ GuiAsk(c)
  BY <1>2, ShowApprovalStep, AskApprovalStep
<1>3. CASE \E c \in GuiChats : Decide(c) \/ \E action \in {"known", "unknown"} : Answer(c, action)
  BY <1>3, AnswerApprovalStep
<1>4. CASE \/ \E c \in GuiChats : Close(c) \/ TimeOut(c) \/ GuiFinish(c)
           \/ \E n \in DOMAIN rows : TitleMade(n)
  <2>1. /\ UNCHANGED <<stream, guiEvents, inHand, perm, awaiting, deciding, spoiled>>
        /\ pending' \subseteq pending
        /\ UNCHANGED agent \/ \E c \in GuiChats : agent' = [agent EXCEPT ![c] = "offering"]
    BY <1>4 DEF Close, TimeOut, GuiFinish, TitleMade, http, guiTurn, approvals
  <2>2. \A r \in GuiChats : agent'[r] \in {"none", "working"} => agent[r] \in {"none", "working"}
    BY <2>1 DEF SlotTypes
  <2> QED
    BY <2>1, <2>2, ApprovalStays DEF InStream
<1>5. CASE WatcherStep
  BY <1>5, WatcherApprovalStep
<1>6. CASE Restart
  BY <1>6, RestartApprovalStep
<1> QED
  BY <1>1, <1>2, <1>3, <1>4, <1>5, <1>6 DEF GuiNext, HandlerStep

-----------------------------------------------------------------------------
(* The conversations. *)

Turning(c) == handler[c] \in {"begin", "run"} \/ agent[c] \notin {"none", "killed"}

LEMMA TalkStays ==
  ASSUME TalkInv, UNCHANGED <<talk, rows, known, guiRow, parted>>,
         \A c \in GuiChats : Searches(c)' => Searches(c) /\ handler'[c] = handler[c],
         \A c \in GuiChats : Searches(c)' /\ c \in open' => c \in open,
         \A c \in GuiChats : Turning(c)' => Turning(c)
  PROVE  TalkInv'
<1>1. TalkTypes' /\ RowsAreTheirs' /\ OneRowEach' /\ RowIsFound'
  BY DEF TalkInv, TalkTypes, RowsAreTheirs, OneRowEach, RowIsFound, IsRowOf
<1>2. OneSearches'
  BY DEF TalkInv, OneSearches
<1>3. SearchersKnowNothing'
  BY DEF TalkInv, SearchersKnowNothing, IsRowOf
<1>4. TurnsAreKnown'
  BY DEF TalkInv, TurnsAreKnown, Turning
<1> QED
  BY <1>1, <1>2, <1>3, <1>4 DEF TalkInv

LEMMA LookupTalkStep ==
  ASSUME SlotInv, TalkInv, NEW c \in GuiChats, Lookup(c)
  PROVE  TalkInv'
<1>1. /\ UNCHANGED <<talk, rows, known, agent>> /\ handler[c] = "none" /\ agent[c] = "none"
      /\ talk \in [GuiChats -> Conversations] /\ known \in [Conversations -> Nat]
      /\ talk[c] \in Conversations /\ parted \subseteq parted' /\ open' = open \cup {c}
      /\ \A d \in GuiChats \ {c} : handler'[d] = handler[d]
  BY DEF Lookup, table, slot, guiTurn, SlotInv, AgentsAreServed, TalkInv, TalkTypes,
         Stands, SlotTypes
<1>2. \/ /\ known[talk[c]] # NoRowYet /\ handler'[c] = "begin"
         /\ guiRow' = [guiRow EXCEPT ![c] = known[talk[c]]] /\ UNCHANGED parted
      \/ /\ known[talk[c]] = NoRowYet /\ handler'[c] = "list" /\ UNCHANGED guiRow
         /\ (\E d \in GuiChats : talk[d] = talk[c] /\ Searches(d)) => talk[c] \in parted'
  <2>1. CASE known[talk[c]] # NoRowYet
    BY <2>1 DEF Lookup, Stands, SlotInv, SlotTypes
  <2>2. CASE known[talk[c]] = NoRowYet
    <3>1. handler'[c] = "list" /\ UNCHANGED guiRow /\ parted' = parted \cup {v \in {talk[c]} : Searching(v) # {}}
      BY <2>2 DEF Lookup, Stands, SlotInv, SlotTypes
    <3>2. ASSUME NEW d \in GuiChats, talk[d] = talk[c], Searches(d) PROVE talk[c] \in parted'
      BY <3>1, <3>2 DEF Searching, Searches
    <3> QED
      BY <2>2, <3>1, <3>2
  <2> QED
    BY <2>1, <2>2
<1>3. TalkTypes'
  BY <1>1, <1>2 DEF TalkInv, TalkTypes
<1>4. RowsAreTheirs'
  BY <1>1, <1>2 DEF TalkInv, TalkTypes, RowsAreTheirs, IsRowOf
<1>5. OneRowEach' /\ RowIsFound'
  BY <1>1 DEF TalkInv, OneRowEach, RowIsFound, IsRowOf
<1>6. OneSearches'
  BY <1>1, <1>2 DEF TalkInv, OneSearches, Searches
<1>7. SearchersKnowNothing'
  BY <1>1, <1>2 DEF TalkInv, SearchersKnowNothing, Searches, IsRowOf
<1>8. TurnsAreKnown'
  BY <1>1, <1>2 DEF TalkInv, TurnsAreKnown
<1> QED
  BY <1>3, <1>4, <1>5, <1>6, <1>7, <1>8 DEF TalkInv

(* A handler that searches finds a row of its conversation, or makes it. *)
LEMMA ResolvedKeeps ==
  ASSUME SlotInv, TalkInv, NEW c \in GuiChats, Searches(c),
         UNCHANGED <<talk, agent, parted, open>>,
         NEW n \in Nat \ {NoRowYet}, Resolved(c, n), IsRowOf(n, talk[c])',
         rows' \in Seq([of : Conversations, prefix : BOOLEAN]),
         \A v \in Conversations, m \in Nat : IsRowOf(m, v) => IsRowOf(m, v)' /\ rows'[m] = rows[m],
         \A v \in Conversations, m \in Nat :
            IsRowOf(m, v)' => \/ IsRowOf(m, v)
                              \/ v = talk[c] /\ m = n /\ \A k \in Nat : v \notin parted => ~IsRowOf(k, v)
  PROVE  TalkInv'
<1>1. /\ talk \in [GuiChats -> Conversations] /\ talk[c] \in Conversations
      /\ guiRow' = [guiRow EXCEPT ![c] = n] /\ known' = [known EXCEPT ![talk[c]] = n]
      /\ handler'[c] = "begin" /\ \A d \in GuiChats \ {c} : handler'[d] = handler[d]
      /\ guiRow \in [GuiChats -> Nat] /\ known \in [Conversations -> Nat]
      /\ \A k \in DOMAIN rows' : k \in Nat
  BY DEF Resolved, Stands, SlotInv, SlotTypes, TalkInv, TalkTypes
<1>2. TalkTypes'
  BY <1>1 DEF TalkInv, TalkTypes
<1>3. RowsAreTheirs'
  <2>1. ASSUME NEW d \in GuiChats, guiRow'[d] # NoRowYet PROVE IsRowOf(guiRow[d], talk[d])'
    <3>1. CASE d = c
      BY <1>1, <3>1
    <3>2. CASE d # c
      <4>1. guiRow'[d] = guiRow[d] /\ guiRow[d] \in Nat /\ talk[d] \in Conversations
        BY <1>1, <3>2
      <4>2. IsRowOf(guiRow[d], talk[d])
        BY <2>1, <4>1 DEF TalkInv, RowsAreTheirs
      <4> QED
        BY <4>1, <4>2 DEF IsRowOf
    <3> QED
      BY <3>1, <3>2
  <2>2. ASSUME NEW v \in Conversations, known'[v] # NoRowYet PROVE IsRowOf(known[v], v)'
    <3>1. CASE v = talk[c]
      BY <1>1, <3>1 DEF IsRowOf
    <3>2. CASE v # talk[c]
      <4>1. known'[v] = known[v] /\ known[v] \in Nat
        BY <1>1, <3>2
      <4>2. IsRowOf(known[v], v)
        BY <2>2, <4>1 DEF TalkInv, RowsAreTheirs
      <4> QED
        BY <4>1, <4>2 DEF IsRowOf
    <3> QED
      BY <3>1, <3>2
  <2> QED
    BY <2>1, <2>2 DEF RowsAreTheirs
<1>4. OneRowEach'
  <2> SUFFICES ASSUME NEW v \in Conversations \ parted, NEW k \in DOMAIN rows', NEW m \in DOMAIN rows',
                      IsRowOf(k, v)', IsRowOf(m, v)'
               PROVE  k = m
    BY DEF OneRowEach
  <2>1. k \in Nat /\ m \in Nat
    BY <1>1
  <2>2. IsRowOf(k, v) /\ IsRowOf(m, v) => k = m
    BY DEF TalkInv, OneRowEach, IsRowOf
  <2> QED
    BY <2>1, <2>2
<1>5. RowIsFound'
  <2> SUFFICES ASSUME NEW v \in Conversations \ parted, NEW m \in DOMAIN rows', IsRowOf(m, v)'
               PROVE  known'[v] # NoRowYet \/ rows'[m].prefix
    BY DEF RowIsFound
  <2>1. CASE v = talk[c]
    BY <1>1, <2>1
  <2>2. CASE v # talk[c]
    <3>1. m \in Nat /\ IsRowOf(m, v) /\ rows'[m] = rows[m] /\ known'[v] = known[v]
      BY <1>1, <2>2
    <3> QED
      BY <3>1 DEF TalkInv, RowIsFound, IsRowOf
  <2> QED
    BY <2>1, <2>2
<1>6. OneSearches'
  BY <1>1 DEF TalkInv, OneSearches, Searches
<1>7. SearchersKnowNothing'
  <2> SUFFICES ASSUME NEW d \in GuiChats, Searches(d)', talk[d] \notin parted
               PROVE  /\ known'[talk[d]] = NoRowYet
                      /\ handler'[d] = "create" /\ d \in open =>
                            \A k \in DOMAIN rows' : ~IsRowOf(k, talk[d])'
    BY DEF SearchersKnowNothing, IsRowOf
  <2>1. d # c /\ Searches(d) /\ handler'[d] = handler[d] /\ talk[d] \in Conversations
    BY <1>1 DEF Searches
  <2>2. talk[d] # talk[c]
    BY <2>1 DEF TalkInv, OneSearches
  <2>3. known'[talk[d]] = known[talk[d]] /\ known[talk[d]] = NoRowYet
    BY <1>1, <2>1, <2>2 DEF TalkInv, SearchersKnowNothing
  <2>4. ASSUME NEW k \in DOMAIN rows', handler[d] = "create", d \in open,
                    IsRowOf(k, talk[d])'
             PROVE  FALSE
    <3>1. k \in Nat
      BY <1>1
    <3>2. IsRowOf(k, talk[d])
      BY <2>1, <2>2, <2>4, <3>1
    <3> QED
      BY <2>1, <2>4, <3>2 DEF TalkInv, SearchersKnowNothing, IsRowOf
  <2> QED
    BY <2>1, <2>3, <2>4
<1>8. TurnsAreKnown'
  <2> SUFFICES ASSUME NEW d \in GuiChats, Turning(d)' PROVE known'[talk[d]] # NoRowYet
    BY DEF TurnsAreKnown, Turning
  <2>1. CASE talk[d] = talk[c]
    BY <1>1, <2>1
  <2>2. CASE talk[d] # talk[c]
    <3>1. Turning(d) /\ known'[talk[d]] = known[talk[d]]
      BY <1>1, <2>2 DEF Turning
    <3> QED
      BY <3>1 DEF TalkInv, TurnsAreKnown, Turning
  <2> QED
    BY <2>1, <2>2
<1> QED
  BY <1>2, <1>3, <1>4, <1>5, <1>6, <1>7, <1>8 DEF TalkInv

LEMMA ListTalkStep == ASSUME SlotInv, TalkInv, NEW c \in GuiChats, List(c) PROVE TalkInv'
<1>1. /\ UNCHANGED <<talk, rows, agent, parted, open>> /\ handler[c] = "list" /\ Searches(c)
      /\ rows \in Seq([of : Conversations, prefix : BOOLEAN]) /\ talk[c] \in Conversations
  BY DEF List, table, guiTurn, Searches, TalkInv, TalkTypes
<1>2. CASE Prefixed(talk[c]) # {} /\ Resolved(c, Oldest(Prefixed(talk[c])))
  <2>1. Prefixed(talk[c]) \subseteq Nat \ {NoRowYet}
    BY <1>1 DEF Prefixed, NoRowYet
  <2>2. Oldest(Prefixed(talk[c])) \in Prefixed(talk[c])
    BY <1>2, <2>1, LeastExists DEF Oldest
  <2>3. PICK n \in Prefixed(talk[c]) : Resolved(c, n)
    BY <1>2, <2>2
  <2>4. n \in Nat \ {NoRowYet} /\ IsRowOf(n, talk[c])'
    BY <1>1, <2>1 DEF Prefixed, IsRowOf
  <2>5. \A v \in Conversations, m \in Nat : IsRowOf(m, v) => IsRowOf(m, v)' /\ rows'[m] = rows[m]
    BY <1>1 DEF IsRowOf
  <2>6. \A v \in Conversations, m \in Nat :
           IsRowOf(m, v)' => \/ IsRowOf(m, v)
                             \/ v = talk[c] /\ m = n /\ \A k \in Nat : v \notin parted => ~IsRowOf(k, v)
    BY <1>1 DEF IsRowOf
  <2>7. rows' \in Seq([of : Conversations, prefix : BOOLEAN])
    BY <1>1
  <2> QED
    BY <1>1, <2>3, <2>4, <2>5, <2>6, <2>7, ResolvedKeeps
<1>3. CASE /\ Prefixed(talk[c]) = {} \/ c \notin open
           /\ Stands(c, "create") /\ UNCHANGED <<guiRow, known>>
  <2>1. /\ handler'[c] = "create" /\ \A d \in GuiChats \ {c} : handler'[d] = handler[d]
        /\ UNCHANGED <<guiRow, known>>
    BY <1>3 DEF Stands, SlotInv, SlotTypes
  <2>2. \A d \in GuiChats : (Searches(d)' <=> Searches(d)) /\ (Turning(d)' => Turning(d))
    BY <1>1, <2>1 DEF Searches, Turning
  <2>3. TalkTypes' /\ RowsAreTheirs' /\ OneRowEach' /\ RowIsFound'
    BY <1>1, <2>1 DEF TalkInv, TalkTypes, RowsAreTheirs, OneRowEach, RowIsFound, IsRowOf
  <2>4. OneSearches'
    BY <1>1, <2>2 DEF TalkInv, OneSearches
  <2>5. talk[c] \notin parted /\ c \in open => \A k \in DOMAIN rows : ~IsRowOf(k, talk[c])
    BY <1>1, <1>3 DEF TalkInv, RowIsFound, SearchersKnowNothing, Prefixed, IsRowOf
  <2>6. SearchersKnowNothing'
    BY <1>1, <2>1, <2>2, <2>5 DEF TalkInv, SearchersKnowNothing, IsRowOf
  <2>7. TurnsAreKnown'
    BY <1>1, <2>1, <2>2 DEF TalkInv, TurnsAreKnown, Turning
  <2> QED
    BY <2>3, <2>4, <2>6, <2>7 DEF TalkInv
<1> QED
  BY <1>2, <1>3 DEF List

LEMMA CreateTalkStep == ASSUME SlotInv, TalkInv, NEW c \in GuiChats, Create(c) PROVE TalkInv'
<1>1. /\ UNCHANGED <<talk, agent, parted, open>> /\ handler[c] = "create" /\ Searches(c)
      /\ rows \in Seq([of : Conversations, prefix : BOOLEAN]) /\ talk[c] \in Conversations
  BY DEF Create, guiTurn, Searches, TalkInv, TalkTypes
<1>2. CASE c \in open
  <2> DEFINE e == [of |-> talk[c], prefix |-> TRUE]
  <2>1. Len(rows) \in Nat
    BY <1>1
  <2>2. PICK n \in Nat : n = Len(rows) + 1
    BY <2>1
  <2>3. e \in [of : Conversations, prefix : BOOLEAN] /\ e.of = talk[c]
    BY <1>1
  <2>4. rows' = Append(rows, e) /\ Resolved(c, Len(rows'))
    BY <1>2 DEF Create
  <2> HIDE DEF e
  <2>5. /\ rows' = Append(rows, e) /\ rows' \in Seq([of : Conversations, prefix : BOOLEAN])
        /\ Len(rows') = n /\ DOMAIN rows' = 1..n /\ DOMAIN rows = 1..Len(rows)
        /\ \A k \in 1..Len(rows) : rows'[k] = rows[k]
        /\ rows'[n] = e /\ Len(rows) \in Nat
    <3>1. /\ rows' \in Seq([of : Conversations, prefix : BOOLEAN]) /\ Len(rows') = Len(rows) + 1
          /\ \A k \in 1..Len(rows) : rows'[k] = rows[k]
          /\ rows'[Len(rows) + 1] = e
      BY <1>1, <2>3, <2>4, AppendProperties
    <3> QED
      BY <1>1, <2>4, <2>2, <3>1
  <2>6. n \in Nat \ {NoRowYet} /\ Resolved(c, n)
    BY <2>4, <2>1, <2>2, <2>5 DEF NoRowYet
  <2>7. IsRowOf(n, talk[c])'
    <3>1. n \in DOMAIN rows' /\ rows'[n].of = talk'[c]
      BY <1>1, <2>3, <2>5, <2>6 DEF NoRowYet
    <3> QED
      BY <3>1 DEF IsRowOf
  <2>8. \A v \in Conversations, m \in Nat : IsRowOf(m, v) => IsRowOf(m, v)' /\ rows'[m] = rows[m]
    BY <1>1, <2>2, <2>5 DEF IsRowOf
  <2>9. ASSUME NEW v \in Conversations, NEW m \in Nat, IsRowOf(m, v)', ~IsRowOf(m, v)
        PROVE  v = talk[c] /\ m = n /\ \A k \in Nat : v \notin parted => ~IsRowOf(k, v)
    <3>1. m = n
      BY <2>2, <2>5, <2>9 DEF IsRowOf
    <3>2. v = talk[c]
      BY <2>3, <2>5, <2>9, <3>1 DEF IsRowOf
    <3> QED
      BY <1>1, <1>2, <3>1, <3>2 DEF TalkInv, SearchersKnowNothing, IsRowOf
  <2>10. \A v \in Conversations, m \in Nat :
           IsRowOf(m, v)' => \/ IsRowOf(m, v)
                             \/ v = talk[c] /\ m = n /\ \A k \in Nat : v \notin parted => ~IsRowOf(k, v)
    BY <2>9
  <2> QED
    BY <1>1, <2>5, <2>6, <2>7, <2>8, <2>10, ResolvedKeeps
<1>3. CASE c \notin open
  <2>1. /\ UNCHANGED <<rows, guiRow, known>> /\ handler'[c] = "returned"
        /\ \A d \in GuiChats \ {c} : handler'[d] = handler[d]
    BY <1>3 DEF Create, Returns, Stands, SlotInv, SlotTypes
  <2> QED
    BY <1>1, <2>1, TalkStays DEF Searches, Turning
<1> QED
  BY <1>2, <1>3

(* Only a conversation that is known loses its prefix while the process runs. *)
LEMMA TitleTalkStep == ASSUME TalkInv, NEW n \in DOMAIN rows, TitleMade(n) PROVE TalkInv'
<1>1. /\ UNCHANGED <<talk, known, guiRow, handler, agent, parted, open>>
      /\ rows \in Seq([of : Conversations, prefix : BOOLEAN]) /\ n # NoRowYet
      /\ rows' = [rows EXCEPT ![n].prefix = FALSE]
  BY DEF TitleMade, slot, http, guiTurn, TalkInv, TalkTypes, NoRowYet
<1>2. /\ DOMAIN rows' = DOMAIN rows /\ rows' \in Seq([of : Conversations, prefix : BOOLEAN])
      /\ \A k \in DOMAIN rows : rows'[k].of = rows[k].of /\ (k # n => rows'[k] = rows[k])
  <2> DEFINE e == [rows[n] EXCEPT !.prefix = FALSE]
  <2> DEFINE R == [of : Conversations, prefix : BOOLEAN]
  <2>1. rows \in Seq(R) /\ n \in 1..Len(rows)
    BY <1>1
  <2> HIDE DEF R
  <2>2. rows[n] \in R
    BY <2>1
  <2>3. rows[n] \in [of : Conversations, prefix : BOOLEAN]
    BY <2>2 DEF R
  <2>4. e \in [of : Conversations, prefix : BOOLEAN] /\ e.of = rows[n].of
    BY <2>3
  <2>5. rows' = [rows EXCEPT ![n] = e]
    BY <1>1
  <2> HIDE DEF e
  <2>6. rows' \in Seq([of : Conversations, prefix : BOOLEAN]) /\ DOMAIN rows' = DOMAIN rows
    <3>1. e \in R
      BY <2>4 DEF R
    <3>2. rows' \in Seq(R) /\ DOMAIN rows' = DOMAIN rows
      BY <2>1, <2>5, <3>1, ExceptSeq
    <3> QED
      BY <3>2 DEF R
  <2> QED
    BY <1>1, <2>3, <2>4, <2>5, <2>6
<1>3. \A k, v : IsRowOf(k, v)' <=> IsRowOf(k, v)
  BY <1>2 DEF IsRowOf
<1>4. PICK c \in GuiChats : guiRow[c] = n /\ agent[c] \notin {"none", "killed"}
  BY DEF TitleMade, FirstTurnHere
<1>5. known[talk[c]] # NoRowYet /\ rows[n].of = talk[c]
  BY <1>1, <1>4 DEF TalkInv, TurnsAreKnown, RowsAreTheirs, IsRowOf
<1>6. RowIsFound'
  <2> SUFFICES ASSUME NEW v \in Conversations \ parted, NEW k \in DOMAIN rows, IsRowOf(k, v)
               PROVE  known[v] # NoRowYet \/ rows'[k].prefix
    BY <1>1, <1>2, <1>3 DEF RowIsFound
  <2>1. CASE k = n
    BY <1>5, <2>1 DEF IsRowOf
  <2>2. CASE k # n
    BY <1>2, <2>2 DEF TalkInv, RowIsFound
  <2> QED
    BY <2>1, <2>2
<1>7. TalkTypes' /\ RowsAreTheirs' /\ OneRowEach' /\ OneSearches' /\ SearchersKnowNothing' /\ TurnsAreKnown'
  <2>1. TalkTypes'
    BY <1>1, <1>2 DEF TalkInv, TalkTypes
  <2>2. RowsAreTheirs'
    BY <1>1, <1>3 DEF TalkInv, RowsAreTheirs
  <2>3. OneRowEach'
    BY <1>1, <1>2, <1>3 DEF TalkInv, OneRowEach
  <2>4. OneSearches' /\ TurnsAreKnown'
    BY <1>1 DEF TalkInv, OneSearches, Searches, TurnsAreKnown
  <2>5. SearchersKnowNothing'
    BY <1>1, <1>2, <1>3 DEF TalkInv, SearchersKnowNothing, Searches
  <2> QED
    BY <2>1, <2>2, <2>3, <2>4, <2>5
<1> QED
  BY <1>6, <1>7 DEF TalkInv

(* A restart forgets the conversations; who has lost its prefix is not found again. *)
LEMMA RestartTalkStep == ASSUME SlotInv, TalkInv, Restart PROVE TalkInv'
<1>1. /\ UNCHANGED <<talk, rows, guiRow>> /\ known' = [v \in Conversations |-> NoRowYet]
      /\ parted' = parted \cup {v \in Conversations : \E n \in DOMAIN rows :
                                    rows[n].of = v /\ ~rows[n].prefix}
  BY DEF Restart
<1>2. \A c \in GuiChats : ~Searches(c)' /\ ~Turning(c)'
  BY DEF Restart, Searches, Turning
<1>3. TalkTypes'
  BY <1>1 DEF TalkInv, TalkTypes, NoRowYet
<1>4. RowsAreTheirs' /\ OneRowEach'
  BY <1>1 DEF TalkInv, RowsAreTheirs, OneRowEach, IsRowOf
<1>5. RowIsFound'
  BY <1>1 DEF RowIsFound, IsRowOf
<1>6. OneSearches' /\ SearchersKnowNothing' /\ TurnsAreKnown'
  BY <1>2 DEF OneSearches, SearchersKnowNothing, TurnsAreKnown, Turning
<1> QED
  BY <1>3, <1>4, <1>5, <1>6 DEF TalkInv

(* The conversations in every step. *)
LEMMA TalkStep == ASSUME SlotInv, TalkInv, GuiNext PROVE TalkInv'
<1> SlotTypes
  BY DEF SlotInv
<1>1. CASE \E c \in GuiChats : Lookup(c) \/ List(c) \/ Create(c)
  BY <1>1, LookupTalkStep, ListTalkStep, CreateTalkStep
<1>2. ASSUME NEW c \in GuiChats,
             BeginTurn(c) \/ Run(c) \/ PumpGone(c) \/ PumpPermission(c) \/ PumpResult(c) \/ PumpClosed(c)
      PROVE  TalkInv'
  <2>1. UNCHANGED <<talk, rows, known, guiRow, parted>>
    BY <1>2 DEF BeginTurn, Run, PumpGone, PumpPermission, PumpResult, PumpClosed, table, slot
  <2>2. \/ UNCHANGED handler
        \/ handler' = [handler EXCEPT ![c] = "returned"]
        \/ handler' = [handler EXCEPT ![c] = "run"] /\ handler[c] = "begin"
        \/ handler' = [handler EXCEPT ![c] = "pump"]
    BY <1>2 DEF BeginTurn, Run, PumpGone, PumpPermission, PumpResult, PumpClosed, EndTurn, Returns, Stands
  <2>3. \/ UNCHANGED agent
        \/ agent' = [agent EXCEPT ![c] = "working"] /\ handler[c] = "run"
        \/ agent' = [agent EXCEPT ![c] = "closed"] /\ agent[c] = "offering"
    BY <1>2 DEF BeginTurn, Run, PumpGone, PumpPermission, PumpResult, PumpClosed, guiTurn
  <2>4. /\ \A d \in GuiChats : Searches(d)' => Searches(d) /\ handler'[d] = handler[d]
        /\ open' = open
    BY <1>2, <2>2 DEF Searches, SlotTypes, BeginTurn, Run, PumpGone, PumpPermission, PumpResult,
                      PumpClosed, http
  <2>5. \A d \in GuiChats : handler'[d] \in {"begin", "run"} => handler[d] \in {"begin", "run"}
    BY <2>2 DEF SlotTypes
  <2>6. \A d \in GuiChats : agent'[d] \notin {"none", "killed"} =>
                               agent[d] \notin {"none", "killed"} \/ handler[d] = "run"
    BY <2>3 DEF SlotTypes
  <2> QED
    BY <2>1, <2>4, <2>5, <2>6, TalkStays DEF Turning
<1>3. CASE \E n \in DOMAIN rows : TitleMade(n)
  BY <1>3, TitleTalkStep
<1>4. CASE \/ WatcherStep
           \/ \E c \in GuiChats : \/ Close(c) \/ TimeOut(c) \/ GuiAsk(c) \/ GuiFinish(c) \/ Decide(c)
                                  \/ \E action \in {"known", "unknown"} : Answer(c, action)
  <2>1. /\ UNCHANGED <<talk, rows, known, guiRow, parted, handler>> /\ open' \subseteq open
        /\ \/ UNCHANGED agent
           \/ \E c \in GuiChats, a \in {"asking", "offering"} :
                 agent' = [agent EXCEPT ![c] = a] /\ agent[c] \in {"working", "asking"}
    BY <1>4 DEF WatcherStep, WatcherSubscribes, WatcherTakes, WatcherPasses, Close, TimeOut, GuiAsk,
                GuiFinish, Answer, Decide,
                table, slot, http, guiTurn
  <2>2. \A d \in GuiChats : agent'[d] \notin {"none", "killed"} => agent[d] \notin {"none", "killed"}
    BY <2>1 DEF SlotTypes
  <2> QED
    BY <2>1, <2>2, TalkStays DEF Turning, Searches
<1>5. CASE Restart
  BY <1>5, RestartTalkStep
<1> QED
  BY <1>1, <1>2, <1>3, <1>4, <1>5 DEF GuiNext, HandlerStep

-----------------------------------------------------------------------------

LEMMA GuiStutters == ASSUME GuiInv, UNCHANGED guiVars PROVE GuiInv'
<1>1. UNCHANGED <<talk, rows, known, active, handler, guiRow, open, stream, flushed, agent, pending,
                  guiEvents, inHand, perm, awaiting, deciding, spoiled, parted>>
  BY DEF guiVars, table, slot, http, guiTurn, approvals
<1>2. SlotInv'
  BY <1>1, SlotStays DEF GuiInv, SlotInv, SlotTypes
<1>3. ApprovalInv'
  BY <1>1, ApprovalStays DEF GuiInv, InStream
<1>4. TalkInv'
  BY <1>1, TalkStays DEF GuiInv, Searches, Turning
<1> QED
  BY <1>2, <1>3, <1>4 DEF GuiInv

(* The inductive invariant of the bridge's slot, streams, requests and conversations
   holds of any number of chats and restarts. *)
THEOREM GuiInvariance == GuiSpec => []GuiInv
<1>1. GuiInit => GuiInv
  BY GuiStarts
<1>2. GuiInv /\ [GuiNext]_guiVars => GuiInv'
  BY SlotStep, ApprovalStep, TalkStep, GuiStutters DEF GuiInv, ApprovalInv
<1> QED
  BY <1>1, <1>2, PTL DEF GuiSpec

LEMMA OneTurnLives == GuiInv => OneLiveTurn
<1> SUFFICES ASSUME GuiInv PROVE OneLiveTurn
  OBVIOUS
<1>1. active <=> \E c \in GuiChats : handler[c] \in {"run", "pump"}
  BY DEF GuiInv, SlotInv, SlotIsHeld, Holds
<1>2. \A c, d \in GuiChats : Live(c) /\ Live(d) => c = d
  BY DEF GuiInv, SlotInv, SlotIsHeld, AgentsAreServed, Holds
<1>3. ASSUME NEW c \in GuiChats, Holds(c), SawEnd(c) PROVE FALSE
  <2>1. PICK k \in 1 .. flushed[c] : stream[c][k].kind \in {"done", "error"}
    BY <1>3 DEF SawEnd
  <2>2. /\ stream[c] \in Seq(StreamEvents) /\ flushed[c] \in Nat /\ flushed[c] <= Len(stream[c])
        /\ Begun(stream[c])
    BY <1>3 DEF GuiInv, SlotInv, SlotTypes, StreamsAreTurns
  <2>3. k = 1 \/ k \in 2..Len(stream[c])
    BY <2>2
  <2> QED
    BY <2>1, <2>2, <2>3 DEF Begun
<1> QED
  BY <1>1, <1>2, <1>3 DEF OneLiveTurn, Holds

LEMMA StreamsAreOrdered == GuiInv => StreamOrder
BY DEF GuiInv, SlotInv, StreamsAreTurns, Ordered, StreamOrder

LEMMA ShownAwaits == GuiInv => ShownIsAnswerable
<1> SUFFICES ASSUME GuiInv, NEW r \in pending \ spoiled, Shown(r)
             PROVE  r \in awaiting \cup deciding
  BY DEF ShownIsAnswerable
<1>1. PICK c \in GuiChats : \E k \in 1 .. flushed[c] : stream[c][k].req = r
  BY DEF Shown
<1>2. /\ stream[c] \in Seq(StreamEvents) /\ flushed[c] \in Nat /\ flushed[c] <= Len(stream[c])
  BY DEF GuiInv, SlotInv, SlotTypes, StreamsAreTurns
<1>3. Passed(r)
  BY <1>1, <1>2 DEF Passed, InStream
<1> QED
  BY <1>3 DEF GuiInv, ApprovalInv, PassedIsAwaited

LEMMA RowsContinue == GuiInv => ConversationContinues
<1> SUFFICES ASSUME GuiInv, NEW c \in GuiChats, NEW d \in GuiChats, talk[c] = talk[d],
                    talk[c] \notin parted, guiRow[c] # NoRowYet, guiRow[d] # NoRowYet
             PROVE  guiRow[c] = guiRow[d]
  BY DEF ConversationContinues
<1>1. IsRowOf(guiRow[c], talk[c]) /\ IsRowOf(guiRow[d], talk[c]) /\ talk[c] \in Conversations
  BY DEF GuiInv, TalkInv, TalkTypes, RowsAreTheirs
<1> QED
  BY <1>1 DEF GuiInv, TalkInv, OneRowEach, IsRowOf

(* At most one turn lives, what a client reads is a well-formed turn, a request that
   was shown and still waits can be answered, and a conversation goes on in its one
   session, for any number of chats and restarts. *)
THEOREM ServedApart == GuiSpec => []ClientsAreServedApart
<1>1. GuiInv => ClientsAreServedApart
  BY OneTurnLives, StreamsAreOrdered, ShownAwaits, RowsContinue DEF ClientsAreServedApart
<1> QED
  BY <1>1, GuiInvariance, PTL

-----------------------------------------------------------------------------
(* The windows.                                                              *)

AgentEvents == {"answer", "error", "summarised"}

WinTypes ==
    /\ windowsOpen \subseteq {Drawing[i] : i \in DOMAIN Drawing}
    /\ isCompacting \in BOOLEAN /\ winAsked \in Nat /\ summaries \in Nat
    /\ turn \in BOOLEAN /\ agentEvents \in Seq(AgentEvents)
    /\ selectedSession \in BOOLEAN /\ initialized \in BOOLEAN /\ unmarkable \in BOOLEAN
    /\ shown \in BOOLEAN /\ refused \in BOOLEAN /\ lostEnd \in BOOLEAN /\ crossed \in BOOLEAN

\* These look at one another before they open.
OneAtATime ==
    /\ ~({"quit", "session"} \subseteq windowsOpen)
    /\ ~({"quit", "command"} \subseteq windowsOpen)
    /\ ~({"session", "command"} \subseteq windowsOpen)
    /\ ~({"theme", "command"} \subseteq windowsOpen)

\* An event that takes the overlay away is on its way.
EndIsTold == \E i \in DOMAIN agentEvents : agentEvents[i] # "answer"

OverlayEnds == isCompacting => winAsked + summaries > 0 \/ refused \/ lostEnd \/ EndIsTold
WorkIsSeen == winAsked + summaries > 0 => selectedSession /\ (isCompacting \/ crossed)

WinInv == WinTypes /\ OneAtATime /\ InitAnsweredIsMarked /\ OverlayEnds /\ WorkIsSeen

LEMMA RoutingIs ==
    /\ DOMAIN Routing = 1..9
    /\ Routing[1] = "arguments" /\ Routing[2] = "filepicker" /\ Routing[3] = "quit"
    /\ Routing[4] = "permissions" /\ Routing[5] = "session" /\ Routing[6] = "command"
    /\ Routing[7] = "model" /\ Routing[8] = "init" /\ Routing[9] = "theme"
  BY DEF Routing

LEMMA DrawingIs ==
    /\ DOMAIN Drawing = 1..10
    /\ Drawing[1] = "permissions" /\ Drawing[2] = "filepicker" /\ Drawing[3] = "help"
    /\ Drawing[4] = "quit" /\ Drawing[5] = "session" /\ Drawing[6] = "model"
    /\ Drawing[7] = "command" /\ Drawing[8] = "init" /\ Drawing[9] = "theme"
    /\ Drawing[10] = "arguments"
  BY DEF Drawing

\* The first window of an order that is shown, and the last.
LEMMA FirstIs ==
    ASSUME NEW order, NEW i \in Placed(order), Placed(order) \subseteq Nat,
           \A j \in Placed(order) : i <= j
    PROVE  FirstShown(order) = order[i]
  <1>1. Min(Placed(order)) = i
    BY DEF Min
  <1> QED BY <1>1 DEF FirstShown

LEMMA LastIs ==
    ASSUME NEW order, NEW i \in Placed(order), Placed(order) \subseteq Nat,
           \A j \in Placed(order) : j <= i
    PROVE  LastShown(order) = order[i]
  <1>1. Max(Placed(order)) = i
    BY DEF Max
  <1> QED BY <1>1 DEF LastShown

\* Among the windows that exclude each other, and the one with arguments.
LEMMA TopReceives ==
    ASSUME OneAtATime,
           ~Showing({"help", "permissions", "filepicker", "theme", "model", "init"})
    PROVE  Receiver = Top
  <1>1. /\ Placed(Routing) = {i \in {1, 3, 5, 6} : Routing[i] \in windowsOpen}
        /\ Placed(Drawing) = {i \in {4, 5, 7, 10} : Drawing[i] \in windowsOpen}
    BY RoutingIs, DrawingIs DEF Placed, Showing
  <1>2. Placed(Routing) \subseteq Nat /\ Placed(Drawing) \subseteq Nat
    BY <1>1
  <1>3. CASE "arguments" \in windowsOpen
    <2>1. 1 \in Placed(Routing) /\ \A j \in Placed(Routing) : 1 <= j
      BY <1>1, <1>3, RoutingIs
    <2>2. 10 \in Placed(Drawing) /\ \A j \in Placed(Drawing) : j <= 10
      BY <1>1, <1>3, DrawingIs
    <2> QED BY <1>2, <2>1, <2>2, FirstIs, LastIs, RoutingIs, DrawingIs DEF Receiver, Top
  <1>4. CASE "arguments" \notin windowsOpen /\ "quit" \in windowsOpen
    <2>1. Placed(Routing) = {3} /\ Placed(Drawing) = {4}
      BY <1>1, <1>4, RoutingIs, DrawingIs DEF OneAtATime
    <2> QED BY <1>2, <2>1, FirstIs, LastIs, RoutingIs, DrawingIs DEF Receiver, Top
  <1>5. CASE "arguments" \notin windowsOpen /\ "session" \in windowsOpen
    <2>1. Placed(Routing) = {5} /\ Placed(Drawing) = {5}
      BY <1>1, <1>5, RoutingIs, DrawingIs DEF OneAtATime
    <2> QED BY <1>2, <2>1, FirstIs, LastIs, RoutingIs, DrawingIs DEF Receiver, Top
  <1>6. CASE "arguments" \notin windowsOpen /\ "command" \in windowsOpen
    <2>1. Placed(Routing) = {6} /\ Placed(Drawing) = {7}
      BY <1>1, <1>6, RoutingIs, DrawingIs DEF OneAtATime
    <2> QED BY <1>2, <2>1, FirstIs, LastIs, RoutingIs, DrawingIs DEF Receiver, Top
  <1>7. CASE windowsOpen \cap {"arguments", "quit", "session", "command"} = {}
    <2>1. Placed(Routing) = {} /\ Placed(Drawing) = {}
      BY <1>1, <1>7, RoutingIs, DrawingIs
    <2> QED BY <2>1 DEF Receiver, Top, FirstShown, LastShown
  <1> QED BY <1>3, <1>4, <1>5, <1>6, <1>7

LEMMA WinStarts == WinInit => WinInv
  <1> SUFFICES ASSUME WinInit PROVE WinInv
    OBVIOUS
  <1>1. WinTypes
    BY EmptySeq DEF WinInit, WinTypes
  <1>2. OneAtATime /\ InitAnsweredIsMarked /\ OverlayEnds /\ WorkIsSeen
    BY DEF WinInit, OneAtATime, InitAnsweredIsMarked, OverlayEnds, WorkIsSeen
  <1> QED BY <1>1, <1>2 DEF WinInv

\* What a key that means the same everywhere does to the windows.
LEMMA ShortcutKeeps ==
    ASSUME WinInv, NEW k, Shortcut(k)
    PROVE  /\ windowsOpen' \subseteq {Drawing[i] : i \in DOMAIN Drawing}
           /\ OneAtATime' /\ InitAnsweredIsMarked'
           /\ initialized' \in BOOLEAN /\ shown' \in BOOLEAN /\ unmarkable' \in BOOLEAN
  <1> USE DEF WinInv, WinTypes
  <1> DEFINE Names == {Drawing[i] : i \in DOMAIN Drawing}
  <1>1. {"quit", "session", "command", "model", "theme", "help", "filepicker"} \subseteq Names
    BY DrawingIs
  <1> HIDE DEF Names
  <1>2. windowsOpen \subseteq Names
    BY DEF Names
  <1> SUFFICES windowsOpen' \subseteq Names /\ OneAtATime' /\ InitAnsweredIsMarked'
               /\ initialized' \in BOOLEAN /\ shown' \in BOOLEAN /\ unmarkable' \in BOOLEAN
    BY DEF Names
  <1>3. CASE QuitKey
    BY <1>1, <1>2, <1>3 DEF QuitKey, Stays, project, OneAtATime, InitAnsweredIsMarked
  <1>4. CASE SessionKey
    BY <1>1, <1>2, <1>4
       DEF SessionKey, Shows, Showing, Stays, project, OneAtATime, InitAnsweredIsMarked
  <1>5. CASE CommandKey
    BY <1>1, <1>2, <1>5
       DEF CommandKey, Shows, Showing, Stays, project, OneAtATime, InitAnsweredIsMarked
  <1>6. CASE ModelKey
    BY <1>1, <1>2, <1>6
       DEF ModelKey, Shows, Showing, Stays, project, OneAtATime, InitAnsweredIsMarked
  <1>7. CASE ThemeKey
    BY <1>1, <1>2, <1>7
       DEF ThemeKey, Shows, Showing, Stays, project, OneAtATime, InitAnsweredIsMarked
  <1>8. CASE HelpKey
    BY <1>1, <1>2, <1>8 DEF HelpKey, Toggle, Stays, project, OneAtATime, InitAnsweredIsMarked
  <1>9. CASE Toggle("filepicker") /\ Stays
    BY <1>1, <1>2, <1>9 DEF Toggle, Stays, project, OneAtATime, InitAnsweredIsMarked
  <1>10. CASE EscCloses
    <2>1. windowsOpen' \subseteq windowsOpen
      BY <1>10 DEF EscCloses
    <2>2. CASE EscTop = "init"
      BY <1>2, <2>1, <2>2, <1>10 DEF EscCloses, Mark, OneAtATime, InitAnsweredIsMarked
    <2>3. CASE EscTop # "init"
      <3>1. "init" \in windowsOpen' <=> "init" \in windowsOpen
        BY <2>3, <1>10 DEF EscCloses
      <3>2. UNCHANGED project
        BY <2>3, <1>10 DEF EscCloses
      <3> QED BY <1>2, <2>1, <3>1, <3>2 DEF project, OneAtATime, InitAnsweredIsMarked
    <2> QED BY <2>2, <2>3
  <1>11. CASE \E page : MoveTo(page)
    BY <1>2, <1>11 DEF MoveTo, project, OneAtATime, InitAnsweredIsMarked
  <1> QED
    BY <1>3, <1>4, <1>5, <1>6, <1>7, <1>8, <1>9, <1>10, <1>11 DEF Shortcut

LEMMA WinPressStep == ASSUME WinInv, NEW k \in WinKeys, PressKey(k) PROVE WinInv'
  <1> USE DEF WinInv
  <1>1. UNCHANGED <<selectedSession, agentWork>>
    BY DEF PressKey
  <1>2. /\ windowsOpen' \subseteq {Drawing[i] : i \in DOMAIN Drawing}
        /\ OneAtATime' /\ InitAnsweredIsMarked'
        /\ initialized' \in BOOLEAN /\ shown' \in BOOLEAN /\ unmarkable' \in BOOLEAN
    <2>1. CASE Shortcut(k)
      BY <2>1, ShortcutKeeps
    <2>2. CASE UNCHANGED <<windowsOpen, currentPage, project>>
      BY <2>2 DEF WinTypes, project, OneAtATime, InitAnsweredIsMarked
    <2> QED BY <2>1, <2>2 DEF PressKey, ToWindow
  <1>3. WinTypes'
    BY <1>1, <1>2, DrawingIs DEF WinTypes, agentWork, Drawing
  <1>4. OverlayEnds' /\ WorkIsSeen'
    BY <1>1 DEF OverlayEnds, WorkIsSeen, EndIsTold, agentWork
  <1> QED BY <1>2, <1>3, <1>4

\* A message that leaves the agent alone, and what it does to the windows.
LEMMA WindowsStep ==
    ASSUME WinInv,
           windowsOpen' \subseteq windowsOpen \cup {"init", "arguments", "permissions"},
           InitAnsweredIsMarked',
           initialized' \in BOOLEAN, shown' \in BOOLEAN, unmarkable' \in BOOLEAN,
           UNCHANGED agentWork, selectedSession' \in BOOLEAN,
           selectedSession => selectedSession'
    PROVE  WinInv'
  <1> USE DEF WinInv
  <1>1. windowsOpen' \subseteq {Drawing[i] : i \in DOMAIN Drawing}
    BY DrawingIs DEF WinTypes
  <1>2. WinTypes'
    BY <1>1 DEF WinTypes, agentWork, Drawing
  <1>3. OneAtATime'
    BY DEF OneAtATime
  <1>4. OverlayEnds' /\ WorkIsSeen'
    BY DEF OverlayEnds, WorkIsSeen, EndIsTold, agentWork
  <1> QED BY <1>2, <1>3, <1>4

LEMMA MessageStep ==
    ASSUME WinInv, NEW m \in flight,
           \/ HandleClose(m) \/ HandleSelected(m) \/ HandleInit(m) \/ HandleCommand(m)
           \/ HandleArguments(m)
    PROVE  WinInv'
  <1> USE DEF WinInv, WinTypes
  <1>1. CASE HandleClose(m)
    <2>1. m.msg \in DOMAIN ClosesWindow
      BY <1>1 DEF HandleClose, Takes
    <2>2. ClosesWindow[m.msg] # "init"
      BY <2>1 DEF ClosesWindow
    <2>3. "init" \notin windowsOpen' => "init" \notin windowsOpen
      BY <2>2, <1>1 DEF HandleClose
    <2>4. InitAnsweredIsMarked'
      BY <1>1, <2>3 DEF HandleClose, InitAnsweredIsMarked, project
    <2> QED BY <1>1, <2>4, WindowsStep DEF HandleClose, project
  <1>2. CASE HandleSelected(m)
    <2>1. InitAnsweredIsMarked'
      BY <1>2 DEF HandleSelected, InitAnsweredIsMarked, project
    <2> QED BY <1>2, <2>1, WindowsStep DEF HandleSelected, project
  <1>3. CASE HandleInit(m)
    <2>1. /\ InitAnsweredIsMarked'
          /\ initialized' \in BOOLEAN /\ shown' \in BOOLEAN /\ unmarkable' \in BOOLEAN
      BY <1>3 DEF HandleInit, Takes, Mark, InitAnsweredIsMarked
    <2> QED BY <1>3, <2>1, WindowsStep DEF HandleInit
  <1>4. CASE HandleCommand(m)
    <2>1. InitAnsweredIsMarked'
      BY <1>4 DEF HandleCommand, InitAnsweredIsMarked, project
    <2> QED BY <1>4, <2>1, WindowsStep DEF HandleCommand, project
  <1>5. CASE HandleArguments(m)
    <2>1. InitAnsweredIsMarked'
      BY <1>5 DEF HandleArguments, InitAnsweredIsMarked, project
    <2> QED BY <1>5, <2>1, WindowsStep DEF HandleArguments, project
  <1> QED BY <1>1, <1>2, <1>3, <1>4, <1>5

\* The windows stay as they are.
LEMMA WindowsStay ==
    ASSUME WinInv, UNCHANGED <<winState, project>>
    PROVE  /\ windowsOpen' \subseteq {Drawing[i] : i \in DOMAIN Drawing}
           /\ OneAtATime' /\ InitAnsweredIsMarked'
           /\ initialized' \in BOOLEAN /\ shown' \in BOOLEAN /\ unmarkable' \in BOOLEAN
  BY DEF WinInv, WinTypes, winState, project, OneAtATime, InitAnsweredIsMarked

LEMMA CompactStep == ASSUME WinInv, NEW m \in flight, HandleCompact(m) PROVE WinInv'
  <1> USE DEF WinInv
  <1>1. UNCHANGED <<windowsOpen, selectedSession, summaries, turn, agentEvents, refused,
                 lostEnd, project>>
    BY DEF HandleCompact
  <1>2. OneAtATime' /\ InitAnsweredIsMarked'
    BY <1>1 DEF OneAtATime, InitAnsweredIsMarked, project
  <1>3. /\ isCompacting' = selectedSession
        /\ winAsked' = IF selectedSession THEN winAsked + 1 ELSE winAsked
        /\ crossed' = (crossed /\ ~selectedSession)
    BY DEF HandleCompact
  <1>4. WinTypes'
    BY <1>1, <1>3 DEF WinTypes, project, Drawing
  <1>5. OverlayEnds' /\ WorkIsSeen'
    BY <1>1, <1>3 DEF WinTypes, OverlayEnds, WorkIsSeen
  <1> QED BY <1>2, <1>4, <1>5

\* One more event: what was on its way still is.
LEMMA EventJoins ==
    ASSUME agentEvents \in Seq(AgentEvents), NEW told \in Seq(AgentEvents),
           agentEvents' = agentEvents \o told
    PROVE  /\ agentEvents' \in Seq(AgentEvents)
           /\ EndIsTold => EndIsTold'
           /\ (\E i \in DOMAIN told : told[i] # "answer") => EndIsTold'
  <1>1. agentEvents' \in Seq(AgentEvents) /\ Len(agentEvents') = Len(agentEvents) + Len(told)
    BY ConcatProperties
  <1>2. /\ DOMAIN agentEvents = 1..Len(agentEvents) /\ DOMAIN told = 1..Len(told)
        /\ DOMAIN agentEvents' = 1..Len(agentEvents')
        /\ Len(agentEvents) \in Nat /\ Len(told) \in Nat
    BY <1>1, LenProperties
  <1>3. ASSUME NEW i \in DOMAIN agentEvents
        PROVE  i \in DOMAIN agentEvents' /\ agentEvents'[i] = agentEvents[i]
    BY <1>1, <1>2, ConcatProperties
  <1>4. ASSUME NEW i \in DOMAIN told
        PROVE  /\ i + Len(agentEvents) \in DOMAIN agentEvents'
               /\ agentEvents'[i + Len(agentEvents)] = told[i]
    <2>1. i + Len(agentEvents) \in 1..Len(agentEvents) + Len(told)
      BY <1>2
    <2>2. ~(i + Len(agentEvents) <= Len(agentEvents))
          /\ i + Len(agentEvents) - Len(agentEvents) = i
      BY <1>2
    <2> QED BY <1>1, <1>2, <2>1, <2>2, ConcatProperties
  <1> QED BY <1>1, <1>3, <1>4 DEF EndIsTold

LEMMA OutsideStep ==
    ASSUME WinInv, PermissionAsked \/ TurnBegins \/ TurnEnds
    PROVE  WinInv'
  <1> USE DEF WinInv
  <1>1. CASE PermissionAsked
    <2>1. InitAnsweredIsMarked'
      BY <1>1 DEF PermissionAsked, Outside, project, InitAnsweredIsMarked
    <2> QED BY <1>1, <2>1, WindowsStep DEF PermissionAsked, Outside, project, WinTypes
  <1>2. CASE TurnBegins
    <2>1. UNCHANGED <<winState, project>>
      BY <1>2 DEF TurnBegins, Outside
    <2>2. /\ turn' = TRUE
          /\ UNCHANGED <<selectedSession, isCompacting, winAsked, summaries, agentEvents,
                         refused, lostEnd, crossed>>
      BY <1>2 DEF TurnBegins
    <2>3. WinTypes'
      BY <2>1, <2>2, WindowsStay DEF WinTypes
    <2>4. OverlayEnds' /\ WorkIsSeen'
      BY <2>2 DEF OverlayEnds, WorkIsSeen, EndIsTold
    <2> QED BY <2>1, <2>3, <2>4, WindowsStay
  <1>3. CASE TurnEnds
    <2>1. \/ \E e \in AgentEvents : agentEvents' = agentEvents \o <<e>>
          \/ agentEvents' = agentEvents
      BY <1>3 DEF TurnEnds, Arrives, GetsLost, AgentEvents
    <2>2. UNCHANGED <<winState, project>>
      BY <1>3 DEF TurnEnds
    <2>3. /\ turn' = FALSE
          /\ UNCHANGED <<selectedSession, isCompacting, winAsked, summaries, refused, lostEnd,
                         crossed>>
      BY <1>3 DEF TurnEnds
    <2>4. agentEvents' \in Seq(AgentEvents) /\ (EndIsTold => EndIsTold')
      <3>1. CASE agentEvents' = agentEvents
        BY <3>1 DEF EndIsTold, WinTypes
      <3>2. ASSUME NEW e \in AgentEvents, agentEvents' = agentEvents \o <<e>>
            PROVE  agentEvents' \in Seq(AgentEvents) /\ (EndIsTold => EndIsTold')
        <4>1. <<e>> \in Seq(AgentEvents)
          OBVIOUS
        <4> QED BY <3>2, <4>1, EventJoins DEF WinTypes
      <3> QED BY <2>1, <3>1, <3>2
    <2>5. WinTypes'
      BY <2>2, <2>3, <2>4, WindowsStay DEF WinTypes
    <2>6. OverlayEnds' /\ WorkIsSeen'
      BY <2>3, <2>4 DEF OverlayEnds, WorkIsSeen
    <2> QED BY <2>2, <2>5, <2>6, WindowsStay
  <1> QED BY <1>1, <1>2, <1>3

LEMMA SummaryStep == ASSUME WinInv, Summarize \/ SummaryEnds PROVE WinInv'
  <1> USE DEF WinInv
  <1>1. UNCHANGED <<winState, project>>
    BY DEF Summarize, SummaryEnds
  <1>2. OneAtATime' /\ InitAnsweredIsMarked'
    BY <1>1, WindowsStay
  <1>3. CASE Summarize
    <2>1. /\ winAsked > 0 /\ winAsked' = winAsked - 1
          /\ summaries' = IF turn THEN summaries ELSE summaries + 1
          /\ refused' = (refused \/ turn)
          /\ UNCHANGED <<selectedSession, isCompacting, turn, agentEvents, lostEnd, crossed>>
      BY <1>3 DEF Summarize
    <2>2. WinTypes'
      BY <1>1, <2>1, WindowsStay DEF WinTypes
    <2>3. OverlayEnds' /\ WorkIsSeen'
      BY <2>1 DEF WinTypes, OverlayEnds, WorkIsSeen, EndIsTold
    <2> QED BY <1>2, <2>2, <2>3
  <1>4. CASE SummaryEnds
    <2>1. /\ summaries > 0 /\ summaries' = summaries - 1
          /\ UNCHANGED <<selectedSession, isCompacting, winAsked, turn, refused, crossed>>
      BY <1>4 DEF SummaryEnds
    <2>2. ASSUME NEW told \in {<<"summarised">>, <<"error">>, <<"error", "summarised">>},
                 Arrives(told), UNCHANGED lostEnd
          PROVE  agentEvents' \in Seq(AgentEvents) /\ EndIsTold' /\ lostEnd' \in BOOLEAN
      <3>1. told \in Seq(AgentEvents)
        <4>1. "summarised" \in AgentEvents /\ "error" \in AgentEvents
          BY DEF AgentEvents
        <4> HIDE DEF AgentEvents
        <4>2. CASE told = <<"summarised">>
          BY <4>1, <4>2
        <4>3. CASE told = <<"error">>
          BY <4>1, <4>3
        <4>4. CASE told = <<"error", "summarised">>
          BY <4>1, <4>4
        <4> QED BY <4>2, <4>3, <4>4
      <3>2. 1 \in DOMAIN told /\ told[1] # "answer"
        OBVIOUS
      <3> HIDE DEF AgentEvents
      <3> QED BY <2>2, <3>1, <3>2, EventJoins DEF WinTypes, Arrives
    <2>3. agentEvents' \in Seq(AgentEvents) /\ lostEnd' \in BOOLEAN /\ (EndIsTold' \/ lostEnd')
      BY <1>4, <2>2 DEF SummaryEnds, GetsLost, WinTypes
    <2>4. WinTypes'
      BY <1>1, <2>1, <2>3, WindowsStay DEF WinTypes
    <2>5. OverlayEnds' /\ WorkIsSeen'
      BY <2>1, <2>3 DEF WinTypes, OverlayEnds, WorkIsSeen
    <2> QED BY <1>2, <2>4, <2>5
  <1> QED BY <1>3, <1>4

LEMMA EventStep == ASSUME WinInv, HandleEvent PROVE WinInv'
  <1> USE DEF WinInv
  <1>1. UNCHANGED <<winState, project>>
    BY DEF HandleEvent
  <1> DEFINE e == Head(agentEvents)
  <1>2. /\ agentEvents # <<>> /\ agentEvents' = Tail(agentEvents)
        /\ isCompacting' = (isCompacting /\ e = "answer")
        /\ refused' = (refused /\ isCompacting') /\ lostEnd' = (lostEnd /\ isCompacting')
        /\ crossed' = (crossed \/ (e # "answer" /\ winAsked + summaries > 0))
        /\ UNCHANGED <<selectedSession, winAsked, summaries, turn>>
    BY DEF HandleEvent
  <1>3. /\ agentEvents' \in Seq(AgentEvents)
        /\ \A i \in DOMAIN agentEvents : i = 1 \/ (i - 1 \in DOMAIN agentEvents'
                                                   /\ agentEvents'[i - 1] = agentEvents[i])
        /\ e = agentEvents[1]
    BY <1>2, HeadTailProperties DEF WinTypes
  <1> HIDE DEF e
  <1>4. isCompacting' /\ EndIsTold => EndIsTold'
    BY <1>2, <1>3 DEF EndIsTold
  <1>5. WinTypes'
    BY <1>1, <1>2, <1>3, WindowsStay DEF WinTypes
  <1>6. OverlayEnds' /\ WorkIsSeen'
    BY <1>2, <1>4 DEF WinTypes, OverlayEnds, WorkIsSeen
  <1> QED BY <1>1, <1>5, <1>6, WindowsStay

LEMMA WinStep == WinInv /\ [WinNext]_winVars => WinInv'
  <1> SUFFICES ASSUME WinInv, [WinNext]_winVars PROVE WinInv'
    OBVIOUS
  <1>1. CASE UNCHANGED winVars
    BY <1>1 DEF winVars, winState, agentWork, project, WinInv, WinTypes, OneAtATime, OverlayEnds,
                WorkIsSeen, EndIsTold, InitAnsweredIsMarked, Drawing
  <1>2. CASE WinNext
    BY <1>2, WinPressStep, MessageStep, CompactStep, OutsideStep, SummaryStep, EventStep DEF WinNext
  <1> QED BY <1>1, <1>2

(* The inductive invariant of the windows (tui.go): those that look at one another are
   not shown together, and while the overlay is drawn, or work goes on without it, the
   other one can be accounted for, by what is on its way or by what was dropped there. *)
THEOREM WinInvariance == WinSpec => []WinInv
  BY WinStarts, WinStep, PTL DEF WinSpec

(* WindowsTellTheTruth of Windows, for every number of keys, events and fields. *)
THEOREM WindowsAreTrue == WinSpec => []WindowsTellTheTruth
  <1>1. WinInv => WindowsTellTheTruth
    <2> SUFFICES ASSUME WinInv PROVE WindowsTellTheTruth
      OBVIOUS
    <2>1. TopTakesKeys
      BY TopReceives DEF WinInv, OneAtATime, TopTakesKeys
    <2>2. OverlayMeansWork
      <3>1. EndIsTold => agentEvents # <<>>
        BY DEF EndIsTold
      <3> QED BY <3>1 DEF WinInv, WinTypes, OverlayEnds, WorkIsSeen, OverlayMeansWork
    <2> QED BY <2>1, <2>2 DEF WinInv, WindowsTellTheTruth
  <1> QED BY WinInvariance, <1>1, PTL

-----------------------------------------------------------------------------
(* The composer.                                                             *)

SendMsgs == [type : {"SendMsg"}, prompt : Prompts, files : Seq(Nat), custom : BOOLEAN]
SelectMsgs == [type : {"SessionSelectedMsg"}, session : Nat \ {0}]
AboutSessions == promptFlight \ Sends

PromptTypes ==
    /\ promptFlight \subseteq SendMsgs \cup SelectMsgs \cup {Cleared}
    /\ attachments \in Seq(Nat)
    /\ pageSession \in Nat /\ listSession \in Nat /\ sessions \in Nat /\ 0 \notin activeRequests
    /\ prompts \in 0..MaxPrompts /\ textarea \in 0..prompts /\ added \in Nat
    /\ promptCrossed \in BOOLEAN /\ cleared \in BOOLEAN
    /\ DOMAIN went = Prompts /\ DOMAIN promptShown = Prompts
    /\ excused \in [strayed : SUBSET Nat, crowded : SUBSET Nat]

\* A prompt that is still to arrive has gone nowhere, and is in one place only.
PromptsAreNew ==
    /\ \A p \in Prompts : p > prompts \/ p = textarea \/ p \in SentPrompts =>
          went[p].how = "none"
    /\ textarea \notin SentPrompts
    /\ \A p \in SentPrompts : p <= prompts
    /\ \A m, n \in Sends : m.prompt = n.prompt => m = n

\* Of the messages about sessions at most one is under way, or two may cross.
SessionsFollow ==
    \/ promptCrossed
    \/ AboutSessions = {} /\ pageSession = listSession
       /\ (editorSession = pageSession \/ cleared)
    \/ \E s \in Nat : AboutSessions = {Selected(s)}
    \/ AboutSessions = {Cleared} /\ pageSession = 0 /\ cleared

\* A prompt on its way finds the page as it was when it left.
SentArrives ==
    \A p \in SentPrompts \ excused.strayed :
        /\ promptPage = "chat"
        /\ p \in excused.crowded \/ pageSession \notin activeRequests
        /\ \/ pageSession = promptShown[p]
           \/ promptShown[p] = 0 /\ p \in excused.crowded /\ MadeForOne(pageSession)

PromptInv ==
    /\ PromptTypes /\ PromptsAreNew /\ SessionsFollow /\ SentArrives
    /\ GoesWhereShown /\ NoPromptLost /\ AttachmentsKept

\* What a prompt was sent to stays so.
LEMMA MadeStays ==
    ASSUME NEW p, went[p].how # "sent",
           \A q \in Prompts \ {p} : went'[q] = went[q]
    PROVE  \A s : MadeForOne(s) => MadeForOne(s)'
  BY DEF MadeForOne, Prompts

LEMMA PromptStarts == PromptInit => PromptInv
  <1> SUFFICES ASSUME PromptInit PROVE PromptInv
    OBVIOUS
  <1>1. Sends = {} /\ SentPrompts = {} /\ AboutSessions = {}
    BY DEF PromptInit, Sends, SentPrompts, AboutSessions
  <1>2. PromptTypes
    <2>1. promptFlight = {} /\ attachments = <<>> /\ 0 \notin activeRequests
      BY DEF PromptInit
    <2>2. attachments \in Seq(Nat)
      BY <2>1, EmptySeq
    <2>3. prompts \in 0..MaxPrompts /\ textarea \in 0..prompts
      BY PromptAssumption DEF PromptInit
    <2>4. /\ pageSession \in Nat /\ listSession \in Nat /\ sessions \in Nat /\ added \in Nat
          /\ promptCrossed \in BOOLEAN /\ cleared \in BOOLEAN
      BY DEF PromptInit
    <2>5. /\ DOMAIN went = Prompts /\ DOMAIN promptShown = Prompts
          /\ excused \in [strayed : SUBSET Nat, crowded : SUBSET Nat]
      BY DEF PromptInit
    <2> QED BY <2>1, <2>2, <2>3, <2>4, <2>5 DEF PromptTypes
  <1>3. PromptsAreNew /\ SentArrives
    BY <1>1 DEF PromptInit, PromptsAreNew, SentArrives
  <1>4. SessionsFollow
    BY <1>1 DEF PromptInit, SessionsFollow
  <1>5. GoesWhereShown /\ NoPromptLost
    BY DEF PromptInit, GoesWhereShown, NoPromptLost
  <1>6. AttachmentsKept
    BY DEF PromptInit, AttachmentsKept
  <1> QED BY <1>2, <1>3, <1>4, <1>5, <1>6 DEF PromptInv

-----------------------------------------------------------------------------
\* Messages under way: a prompt leaves, a message arrives, a session is announced.
LEMMA PromptJoins ==
    ASSUME NEW p, NEW fs, NEW c, promptFlight' = promptFlight \cup {Send(p, fs, c)}
    PROVE  /\ Sends' = Sends \cup {Send(p, fs, c)} /\ SentPrompts' = SentPrompts \cup {p}
           /\ AboutSessions' = AboutSessions
  <1>1. Send(p, fs, c).type = "SendMsg" /\ Send(p, fs, c).prompt = p
    BY DEF Send
  <1> QED BY <1>1 DEF Sends, SentPrompts, AboutSessions

LEMMA PromptArrived ==
    ASSUME PromptsAreNew, NEW m \in Sends, promptFlight' = promptFlight \ {m}
    PROVE  /\ Sends' = Sends \ {m} /\ SentPrompts' = SentPrompts \ {m.prompt}
           /\ AboutSessions' = AboutSessions
  <1>1. Sends' = Sends \ {m} /\ AboutSessions' = AboutSessions
    BY DEF Sends, AboutSessions
  <1>2. SentPrompts' = SentPrompts \ {m.prompt}
    BY <1>1 DEF SentPrompts, PromptsAreNew
  <1> QED BY <1>1, <1>2

LEMMA SessionHeard ==
    ASSUME NEW m \in AboutSessions, promptFlight' = promptFlight \ {m}
    PROVE  /\ Sends' = Sends /\ SentPrompts' = SentPrompts
           /\ AboutSessions' = AboutSessions \ {m}
  BY DEF Sends, SentPrompts, AboutSessions

LEMMA SessionAnnounced ==
    ASSUME NEW m, m.type # "SendMsg", NEW S \in SUBSET Sends, NEW rest,
           rest = promptFlight \ S, Announce(m, rest)
    PROVE  /\ promptFlight' = (promptFlight \ S) \cup {m} /\ Sends' = Sends \ S
           /\ AboutSessions' = AboutSessions \cup {m}
           /\ promptCrossed' = (promptCrossed \/ AboutSessions # {})
  <1>1. promptFlight' = (promptFlight \ S) \cup {m}
    BY DEF Announce
  <1>2. Settled <=> AboutSessions = {}
    BY DEF Settled, AboutSessions, Sends
  <1>3. Sends' = Sends \ S /\ AboutSessions' = AboutSessions \cup {m}
    BY <1>1 DEF Sends, AboutSessions
  <1> QED BY <1>1, <1>2, <1>3 DEF Announce

LEMMA SentIsPrompt ==
    ASSUME PromptTypes
    PROVE  /\ SentPrompts \subseteq Prompts
           /\ \A m \in Sends : m \in SendMsgs /\ m.prompt \in SentPrompts /\ m.files \in Seq(Nat)
  <1>1. ASSUME NEW m \in Sends PROVE m \in SendMsgs
    BY DEF PromptTypes, Sends, SelectMsgs, Cleared
  <1> QED BY <1>1 DEF SentPrompts, Sends, SendMsgs

-----------------------------------------------------------------------------
\* A prompt leaves the composer.
LEMMA LeavesKeeps ==
    ASSUME PromptInv, NEW p \in Prompts, NEW fs \in Seq(Nat), NEW checked, NEW c \in BOOLEAN,
           went[p].how = "none", p \notin SentPrompts,
           Leaves(p, fs, checked, c), checked => editorSession \notin activeRequests,
           UNCHANGED <<places, sessions, activeRequests, went, promptCrossed, cleared>>
    PROVE  /\ promptFlight' \subseteq SendMsgs \cup SelectMsgs \cup {Cleared}
           /\ DOMAIN promptShown' = Prompts
           /\ excused' \in [strayed : SUBSET Nat, crowded : SUBSET Nat]
           /\ Sends' = Sends \cup {Send(p, fs, c)} /\ SentPrompts' = SentPrompts \cup {p}
           /\ SessionsFollow' /\ SentArrives' /\ GoesWhereShown' /\ NoPromptLost'
  <1> USE DEF PromptInv
  <1>1. /\ promptFlight' = promptFlight \cup {Send(p, fs, c)}
        /\ promptShown' = [promptShown EXCEPT ![p] = listSession]
    BY DEF Leaves
  <1>2. /\ Sends' = Sends \cup {Send(p, fs, c)} /\ SentPrompts' = SentPrompts \cup {p}
        /\ AboutSessions' = AboutSessions
    BY <1>1, PromptJoins
  <1>3. PICK strays \in SUBSET {p}, crowds \in SUBSET {p} :
           /\ excused' = [strayed |-> excused.strayed \cup strays,
                          crowded |-> excused.crowded \cup crowds]
           /\ strays = {} => Settled /\ ~promptCrossed /\ promptPage = "chat"
           /\ crowds = {} => /\ editorSession = pageSession
                             /\ checked \/ pageSession \notin activeRequests
    <2> DEFINE strays == IF Settled /\ ~promptCrossed /\ promptPage = "chat" THEN {} ELSE {p}
               crowds == IF /\ Sends = {} /\ editorSession = pageSession
                            /\ checked \/ pageSession \notin activeRequests
                         THEN {} ELSE {p}
    <2>1. excused' = [strayed |-> excused.strayed \cup strays,
                      crowded |-> excused.crowded \cup crowds]
      BY DEF Leaves
    <2>2. strays \in SUBSET {p} /\ crowds \in SUBSET {p}
      OBVIOUS
    <2>3. strays = {} => Settled /\ ~promptCrossed /\ promptPage = "chat"
      OBVIOUS
    <2>4. crowds = {} => /\ editorSession = pageSession
                         /\ checked \/ pageSession \notin activeRequests
      OBVIOUS
    <2> HIDE DEF strays, crowds
    <2> QED BY <2>1, <2>2, <2>3, <2>4
  <1>4. /\ promptFlight' \subseteq SendMsgs \cup SelectMsgs \cup {Cleared}
        /\ DOMAIN promptShown' = Prompts
        /\ excused' \in [strayed : SUBSET Nat, crowded : SUBSET Nat]
    <2>1. Send(p, fs, c) \in SendMsgs
      BY DEF Send, SendMsgs
    <2>2. p \in Nat
      BY PromptAssumption DEF Prompts
    <2> QED BY <1>1, <1>3, <2>1, <2>2 DEF PromptTypes
  <1>5. SessionsFollow'
    BY <1>2 DEF SessionsFollow, places
  <1>6. ASSUME NEW q \in Prompts, q # p
        PROVE  /\ promptShown'[q] = promptShown[q]
               /\ q \in excused'.strayed <=> q \in excused.strayed
               /\ q \in excused'.crowded <=> q \in excused.crowded
    BY <1>1, <1>3, <1>6
  <1>7. p \notin excused'.strayed => promptPage = "chat" /\ pageSession = promptShown'[p]
    <2> SUFFICES ASSUME p \notin excused'.strayed
                 PROVE  promptPage = "chat" /\ pageSession = promptShown'[p]
      OBVIOUS
    <2>1. Settled /\ ~promptCrossed /\ promptPage = "chat"
      BY <1>3
    <2>2. AboutSessions = {}
      BY <2>1 DEF Settled, AboutSessions
    <2>3. pageSession = listSession
      BY <2>1, <2>2 DEF SessionsFollow
    <2>4. promptShown'[p] = listSession
      BY <1>1 DEF PromptTypes
    <2> QED BY <2>1, <2>3, <2>4
  <1>8. p \in excused'.crowded \/ pageSession \notin activeRequests
    BY <1>3
  <1>9. SentArrives'
    <2> SUFFICES ASSUME NEW q \in SentPrompts', q \notin excused'.strayed
                 PROVE  /\ promptPage = "chat"
                        /\ q \in excused'.crowded \/ pageSession \notin activeRequests
                        /\ \/ pageSession = promptShown'[q]
                           \/ /\ promptShown'[q] = 0 /\ q \in excused'.crowded
                              /\ MadeForOne(pageSession)
      BY DEF SentArrives, MadeForOne, places
    <2>1. CASE q = p
      BY <2>1, <1>7, <1>8
    <2>2. CASE q # p
      BY <2>2, <1>2, <1>6, SentIsPrompt DEF SentArrives
    <2> QED BY <2>1, <2>2
  <1>10. GoesWhereShown'
    BY <1>6 DEF GoesWhereShown, MadeForOne
  <1>11. NoPromptLost'
    BY <1>6 DEF NoPromptLost
  <1> QED BY <1>2, <1>4, <1>5, <1>9, <1>10, <1>11

\* It is a new one, and leaves its place.
LEMMA LeavesNew ==
    ASSUME PromptInv, NEW p \in Prompts, NEW fs, NEW c, p \notin SentPrompts,
           Sends' = Sends \cup {Send(p, fs, c)}, SentPrompts' = SentPrompts \cup {p},
           UNCHANGED went,
           \/ p = textarea /\ textarea' = 0 /\ prompts' = prompts
           \/ p = prompts + 1 /\ prompts' = prompts + 1 /\ textarea' = textarea
    PROVE  PromptsAreNew'
  <1> USE DEF PromptInv
  <1>1. Prompts \subseteq Nat /\ SentPrompts \subseteq Prompts /\ textarea \in Nat /\ prompts \in Nat
        /\ textarea <= prompts
    BY SentIsPrompt DEF Prompts, PromptTypes
  <1>2. Send(p, fs, c).prompt = p
    BY DEF Send
  <1>3. ASSUME NEW m \in Sends', NEW n \in Sends', m.prompt = n.prompt PROVE m = n
    <2>1. \A x \in Sends : x.prompt # p
      BY DEF SentPrompts
    <2> QED BY <1>2, <1>3, <2>1 DEF PromptsAreNew
  <1>4. \A q \in SentPrompts' : q <= prompts'
    BY <1>1 DEF PromptsAreNew
  <1>5. 0 \notin Prompts
    BY DEF Prompts
  <1>6. textarea' \notin SentPrompts'
    BY <1>1, <1>5 DEF PromptsAreNew
  <1>7. went[p].how = "none"
    BY <1>1 DEF PromptsAreNew
  <1>8. ASSUME NEW q \in Prompts, q > prompts' \/ q = textarea' \/ q \in SentPrompts'
        PROVE  went'[q].how = "none"
    <2>1. CASE q = p
      BY <1>7, <2>1
    <2>2. CASE q # p
      <3>1. q > prompts \/ q = textarea \/ q \in SentPrompts
        BY <1>1, <1>5, <1>8, <2>2 DEF Prompts
      <3>2. went[q].how = "none"
        BY <1>8, <3>1 DEF PromptsAreNew
      <3> QED BY <3>2
    <2> QED BY <2>1, <2>2
  <1> QED BY <1>3, <1>4, <1>6, <1>8 DEF PromptsAreNew

\* The files that were attached go with a prompt.
LEMMA FilesLeave ==
    ASSUME AttachmentsKept, NEW p, NEW fs, NEW c, Sends' = Sends \cup {Send(p, fs, c)},
           attachments' = attachments \/ (fs = attachments /\ attachments' = <<>>),
           UNCHANGED <<added, gone, went>>
    PROVE  AttachmentsKept'
  <1>1. Send(p, fs, c).files = fs
    BY DEF Send
  <1>2. ASSUME NEW f, f \in ToSet(attachments)
        PROVE  f \in ToSet(attachments') \/ \E m \in Sends' : f \in ToSet(m.files)
    BY <1>1, <1>2
  <1> QED BY <1>2 DEF AttachmentsKept

LEMMA PromptTextStays ==
    ASSUME PromptInv,
           UNCHANGED <<textarea, prompts, went, Sends, SentPrompts>>
    PROVE  PromptsAreNew'
  BY DEF PromptInv, PromptsAreNew

LEMMA EnterStep == ASSUME PromptInv, Enter PROVE PromptInv'
  <1> USE DEF PromptInv
  <1>1. UNCHANGED <<places, world, counts, went, promptCrossed, cleared>>
    BY DEF Enter
  <1>2. CASE editorSession \in activeRequests \/ textarea = 0
    <2>1. UNCHANGED <<promptFlight, promptShown, excused>>
      BY <1>2 DEF Enter
    <2>2. /\ UNCHANGED <<Sends, SentPrompts, AboutSessions>>
          /\ textarea' = textarea
          /\ \/ attachments' = attachments /\ gone' = gone
             \/ attachments' = <<>> /\ gone' = gone \cup ToSet(attachments)
      BY <1>2, <2>1 DEF Enter, Sends, SentPrompts, AboutSessions
    <2>3. PromptTypes'
      BY <1>1, <2>1, <2>2, EmptySeq DEF PromptTypes, places, world, counts
    <2>4. PromptsAreNew'
      BY <1>1, <2>2, PromptTextStays DEF counts
    <2>5. SessionsFollow' /\ SentArrives'
      BY <1>1, <2>1, <2>2 DEF SessionsFollow, SentArrives, MadeForOne, places, world
    <2>6. GoesWhereShown' /\ NoPromptLost'
      BY <1>1, <2>1 DEF GoesWhereShown, MadeForOne, NoPromptLost
    <2>7. AttachmentsKept'
      BY <1>1, <2>1, <2>2 DEF AttachmentsKept, counts
    <2> QED BY <2>3, <2>4, <2>5, <2>6, <2>7
  <1>3. CASE editorSession \notin activeRequests /\ textarea # 0
    <2>1. /\ textarea' = 0 /\ attachments' = <<>> /\ gone' = gone
          /\ Leaves(textarea, attachments, TRUE, FALSE)
      BY <1>3 DEF Enter
    <2>2. textarea \in Prompts /\ textarea \notin SentPrompts /\ went[textarea].how = "none"
      BY <1>3, PromptAssumption DEF PromptTypes, PromptsAreNew, Prompts
    <2>3. /\ promptFlight' \subseteq SendMsgs \cup SelectMsgs \cup {Cleared}
          /\ DOMAIN promptShown' = Prompts
          /\ excused' \in [strayed : SUBSET Nat, crowded : SUBSET Nat]
          /\ Sends' = Sends \cup {Send(textarea, attachments, FALSE)}
          /\ SentPrompts' = SentPrompts \cup {textarea}
          /\ SessionsFollow' /\ SentArrives' /\ GoesWhereShown' /\ NoPromptLost'
      BY <1>1, <1>3, <2>1, <2>2, LeavesKeeps DEF PromptTypes, world
    <2>4. PromptsAreNew'
      BY <1>1, <2>1, <2>2, <2>3, LeavesNew DEF counts
    <2>5. AttachmentsKept'
      BY <1>1, <2>1, <2>3, FilesLeave DEF counts
    <2>6. PromptTypes'
      BY <1>1, <2>1, <2>3, EmptySeq DEF PromptTypes, places, world, counts
    <2> QED BY <2>3, <2>4, <2>5, <2>6
  <1> QED BY <1>2, <1>3

\* A prompt of its own: from the external editor, or the command that sends one.
LEMMA NewLeaves ==
    ASSUME PromptInv, NEW fs \in Seq(Nat), NEW c \in BOOLEAN, prompts < MaxPrompts,
           prompts' = prompts + 1, Leaves(prompts + 1, fs, FALSE, c),
           attachments' = attachments \/ (fs = attachments /\ attachments' = <<>>),
           UNCHANGED <<textarea, places, world, added, went, gone, promptCrossed, cleared>>
    PROVE  PromptInv'
  <1> USE DEF PromptInv
  <1> DEFINE p == prompts + 1
  <1>1. p \in Prompts /\ p \notin SentPrompts /\ went[p].how = "none"
    <2>1. p \in Prompts /\ p > prompts
      BY PromptAssumption DEF PromptTypes, Prompts
    <2>2. p \notin SentPrompts
      BY <2>1 DEF PromptsAreNew, PromptTypes
    <2> QED BY <2>1, <2>2 DEF PromptsAreNew
  <1>2. /\ promptFlight' \subseteq SendMsgs \cup SelectMsgs \cup {Cleared}
        /\ DOMAIN promptShown' = Prompts
        /\ excused' \in [strayed : SUBSET Nat, crowded : SUBSET Nat]
        /\ Sends' = Sends \cup {Send(p, fs, c)} /\ SentPrompts' = SentPrompts \cup {p}
        /\ SessionsFollow' /\ SentArrives' /\ GoesWhereShown' /\ NoPromptLost'
    BY <1>1, LeavesKeeps DEF world
  <1>3. PromptsAreNew'
    BY <1>1, <1>2, LeavesNew
  <1>4. AttachmentsKept'
    BY <1>2, FilesLeave
  <1>5. PromptTypes'
    <2>1. prompts' \in 0..MaxPrompts /\ textarea' \in 0..prompts'
      BY PromptAssumption DEF PromptTypes
    <2>2. attachments' \in Seq(Nat)
      BY EmptySeq DEF PromptTypes
    <2> QED BY <1>2, <2>1, <2>2 DEF PromptTypes, places, world
  <1> QED BY <1>2, <1>3, <1>4, <1>5

\* Keys and texts that send nothing.
LEMMA WritingStep ==
    ASSUME PromptInv, UNCHANGED <<places, promptFlight, activeRequests, sessions, history>>,
           UNCHANGED attachments, UNCHANGED added,
           \/ UNCHANGED <<textarea, prompts>>
           \/ /\ textarea = 0 /\ prompts < MaxPrompts
              /\ textarea' = prompts + 1 /\ prompts' = prompts + 1
    PROVE  PromptInv'
  <1> USE DEF PromptInv
  <1>1. UNCHANGED <<Sends, SentPrompts, AboutSessions>>
    BY DEF Sends, SentPrompts, AboutSessions
  <1>2. PromptTypes'
    <2>1. prompts' \in 0..MaxPrompts /\ textarea' \in 0..prompts'
      BY PromptAssumption DEF PromptTypes
    <2> QED BY <2>1 DEF PromptTypes, places, history
  <1>3. PromptsAreNew'
    <2>1. CASE UNCHANGED <<textarea, prompts>>
      BY <2>1, <1>1, PromptTextStays DEF history
    <2>2. CASE textarea' = prompts + 1 /\ prompts' = prompts + 1
      <3>1. /\ prompts \in Nat /\ Prompts \subseteq Nat
            /\ \A q \in SentPrompts : q \in Nat /\ q <= prompts
        BY SentIsPrompt DEF PromptTypes, Prompts, PromptsAreNew
      <3>2. textarea' \notin SentPrompts'
        BY <1>1, <2>2, <3>1
      <3>3. ASSUME NEW q \in Prompts, q > prompts' \/ q = textarea' \/ q \in SentPrompts'
            PROVE  went'[q].how = "none"
        <4>1. q > prompts \/ q \in SentPrompts
          BY <1>1, <2>2, <3>1, <3>3
        <4> QED BY <4>1 DEF PromptsAreNew, history
      <3>4. \A q \in SentPrompts' : q <= prompts'
        BY <1>1, <2>2, <3>1
      <3> QED BY <1>1, <3>2, <3>3, <3>4 DEF PromptsAreNew
    <2> QED BY <2>1, <2>2
  <1>4. SessionsFollow' /\ SentArrives' /\ GoesWhereShown' /\ NoPromptLost' /\ AttachmentsKept'
    BY <1>1 DEF SessionsFollow, SentArrives, GoesWhereShown, MadeForOne, NoPromptLost,
                AttachmentsKept, places, history
  <1> QED BY <1>2, <1>3, <1>4

\* The page hands a prompt to the agent, refuses it, or cannot make a session for it.
LEMMA SendMessageKeeps ==
    ASSUME PromptInv, NEW p \in Prompts, NEW fs \in Seq(Nat),
           SendMessage(p, fs, promptFlight \ {m \in Sends : m.prompt = p}),
           went[p].how = "none", promptPage = "chat",
           UNCHANGED <<promptPage, editorSession, listSession, cleared>>,
           DOMAIN promptShown' = Prompts,
           \A q \in Prompts \ {p} : promptShown'[q] = promptShown[q],
           p \notin excused.strayed =>
              /\ p \in excused.crowded \/ pageSession \notin activeRequests
              /\ \/ pageSession = promptShown'[p]
                 \/ promptShown'[p] = 0 /\ p \in excused.crowded /\ MadeForOne(pageSession)
    PROVE  /\ promptFlight' \subseteq SendMsgs \cup SelectMsgs \cup {Cleared}
           /\ pageSession' \in Nat /\ sessions' \in Nat /\ 0 \notin activeRequests'
           /\ promptCrossed' \in BOOLEAN
           /\ excused' \in [strayed : SUBSET Nat, crowded : SUBSET Nat]
           /\ Sends' = Sends \ {m \in Sends : m.prompt = p}
           /\ SentPrompts' = SentPrompts \ {p}
           /\ DOMAIN went' = Prompts /\ \A q \in Prompts \ {p} : went'[q] = went[q]
           /\ went'[p].how # "none" /\ gone \subseteq gone'
           /\ ToSet(fs) \subseteq gone' \cup ToSet(went'[p].files)
           /\ SessionsFollow' /\ SentArrives' /\ GoesWhereShown' /\ NoPromptLost'
  <1> USE DEF PromptInv
  <1> DEFINE mine == {m \in Sends : m.prompt = p}
  <1>1. mine \subseteq Sends
    OBVIOUS
  <1>2. Prompts \subseteq Nat /\ SentPrompts \subseteq Prompts
    BY SentIsPrompt DEF Prompts
  <1>3. Sends' = Sends \ mine => SentPrompts' = SentPrompts \ {p}
    BY DEF SentPrompts
  <1> HIDE DEF mine
  <1>7. \A q \in Prompts \ {p} : went'[q] = went[q]
    BY DEF SendMessage, Fails, Accept, PromptTypes
  <1>8. \A s : MadeForOne(s) =>
           \E q \in Prompts : went'[q].how = "sent" /\ went'[q].fresh /\ went'[q].session = s
    BY <1>7, MadeStays DEF MadeForOne
  \* Whether it is refused or not, the others are where they were.
  <1>4. CASE \E how \in {"busy", "store"} :
               /\ Fails(p, how, fs) /\ promptFlight' = promptFlight \ mine
               /\ how = "busy" => pageSession \in activeRequests
               /\ UNCHANGED <<sessions, pageSession, promptCrossed>>
    <2>1. PICK how \in {"busy", "store"} :
               /\ Fails(p, how, fs) /\ promptFlight' = promptFlight \ mine
               /\ how = "busy" => pageSession \in activeRequests
               /\ UNCHANGED <<sessions, pageSession, promptCrossed>>
      BY <1>4
    <2>2. /\ went' = [went EXCEPT ![p] = [how |-> how, files |-> fs]]
          /\ UNCHANGED <<activeRequests, excused, gone>>
      BY <2>1 DEF Fails
    <2>3. /\ DOMAIN went' = Prompts /\ \A q \in Prompts \ {p} : went'[q] = went[q]
          /\ went'[p] = [how |-> how, files |-> fs]
      BY <2>2 DEF PromptTypes
    <2>4. Sends' = Sends \ mine /\ AboutSessions' = AboutSessions
      BY <1>1, <2>1 DEF Sends, AboutSessions
    <2>5. SessionsFollow'
      BY <2>1, <2>4 DEF SessionsFollow
    <2>6. SentArrives'
      <3>1. ASSUME MadeForOne(pageSession) PROVE MadeForOne(pageSession)'
        <4>1. PICK q \in Prompts :
                 went'[q].how = "sent" /\ went'[q].fresh /\ went'[q].session = pageSession
          BY <1>8, <3>1
        <4> QED BY <2>1, <4>1 DEF MadeForOne
      <3> QED BY <1>2, <1>3, <2>1, <2>2, <2>4, <3>1 DEF SentArrives
    <2>7. GoesWhereShown'
      <3> SUFFICES ASSUME NEW q \in Prompts \ {p}, q \notin excused.strayed, went[q].how = "sent"
                   PROVE  IF promptShown[q] # 0 THEN went[q].session = promptShown[q]
                          ELSE MadeForOne(went[q].session)' /\ (went[q].fresh \/ q \in excused.crowded)
        BY <2>2, <2>3 DEF GoesWhereShown
      <3>1. went'[q] = went[q]
        BY <2>3
      <3>2. ASSUME MadeForOne(went[q].session) PROVE MadeForOne(went[q].session)'
        <4>1. PICK r \in Prompts :
                 went'[r].how = "sent" /\ went'[r].fresh /\ went'[r].session = went[q].session
          BY <1>8, <3>2
        <4> QED BY <3>1, <4>1 DEF MadeForOne
      <3> QED BY <3>2 DEF GoesWhereShown
    <2>8. NoPromptLost'
      BY <2>1, <2>2, <2>3 DEF NoPromptLost
    <2>9. /\ promptFlight' \subseteq SendMsgs \cup SelectMsgs \cup {Cleared}
          /\ pageSession' \in Nat /\ sessions' \in Nat /\ 0 \notin activeRequests'
          /\ promptCrossed' \in BOOLEAN
          /\ excused' \in [strayed : SUBSET Nat, crowded : SUBSET Nat]
      BY <2>1, <2>2 DEF PromptTypes
    <2> QED BY <1>3, <2>2, <2>3, <2>4, <2>5, <2>6, <2>7, <2>8, <2>9 DEF mine
  \* In the page's session.
  <1>5. CASE /\ pageSession # 0 /\ pageSession \notin activeRequests
             /\ Accept(p, fs, pageSession) /\ promptFlight' = promptFlight \ mine
             /\ UNCHANGED <<sessions, pageSession, promptCrossed>>
    <2>1. /\ activeRequests' = activeRequests \cup {pageSession}
          /\ gone' = gone \cup (IF accepts THEN {} ELSE ToSet(fs))
          /\ excused' = [excused EXCEPT !.crowded = @ \cup (SentPrompts \ {p})]
      BY <1>5 DEF Accept
    <2>2. PICK x :
             /\ went' = [went EXCEPT ![p] = x]
             /\ x = [how |-> "sent", session |-> pageSession, fresh |-> pageSession > sessions,
                     files |-> IF accepts THEN fs ELSE <<>>]
      BY <1>5 DEF Accept
    <2>3. /\ DOMAIN went' = Prompts /\ \A q \in Prompts \ {p} : went'[q] = went[q]
          /\ went'[p] = x
      BY <2>2 DEF PromptTypes
    <2>4. /\ excused' \in [strayed : SUBSET Nat, crowded : SUBSET Nat]
          /\ excused'.strayed = excused.strayed
          /\ excused'.crowded = excused.crowded \cup (SentPrompts \ {p})
      BY <1>2, <2>1 DEF PromptTypes
    <2>5. Sends' = Sends \ mine /\ AboutSessions' = AboutSessions
      BY <1>1, <1>5 DEF Sends, AboutSessions
    <2>6. SessionsFollow'
      BY <1>5, <2>5 DEF SessionsFollow
    <2>7. SentArrives'
      <3>1. ASSUME MadeForOne(pageSession) PROVE MadeForOne(pageSession)'
        <4>1. PICK q \in Prompts :
                 went'[q].how = "sent" /\ went'[q].fresh /\ went'[q].session = pageSession
          BY <1>8, <3>1
        <4> QED BY <1>5, <4>1 DEF MadeForOne
      <3> QED BY <1>2, <1>3, <1>5, <2>4, <2>5, <3>1 DEF SentArrives
    <2>8. GoesWhereShown'
      <3> SUFFICES ASSUME NEW q \in Prompts, q \notin excused.strayed, went'[q].how = "sent"
                   PROVE  IF promptShown'[q] # 0 THEN went'[q].session = promptShown'[q]
                          ELSE MadeForOne(went[q].session)' /\ (went'[q].fresh \/ q \in excused'.crowded)
        BY <2>4 DEF GoesWhereShown
      <3>1. ASSUME NEW s, MadeForOne(s), went'[q].session = s PROVE MadeForOne(went[q].session)'
        <4>1. PICK r \in Prompts :
                 went'[r].how = "sent" /\ went'[r].fresh /\ went'[r].session = s
          BY <1>8, <3>1
        <4> QED BY <3>1, <4>1 DEF MadeForOne
      <3>2. CASE q = p
        <4>1. went'[p].session = pageSession /\ pageSession # 0
          BY <1>5, <2>2, <2>3
        <4>2. \/ pageSession = promptShown'[p]
              \/ promptShown'[p] = 0 /\ p \in excused.crowded /\ MadeForOne(pageSession)
          BY <3>2
        <4> QED BY <2>4, <3>1, <3>2, <4>1, <4>2
      <3>3. CASE q # p
        <4>1. went'[q] = went[q] /\ promptShown'[q] = promptShown[q]
          BY <2>3, <3>3
        <4> QED BY <2>4, <3>1, <4>1 DEF GoesWhereShown
      <3> QED BY <3>2, <3>3
    <2>9. NoPromptLost'
      BY <2>2, <2>3, <2>4 DEF NoPromptLost
    <2>10. /\ promptFlight' \subseteq SendMsgs \cup SelectMsgs \cup {Cleared}
           /\ pageSession' \in Nat /\ sessions' \in Nat /\ 0 \notin activeRequests'
           /\ promptCrossed' \in BOOLEAN
      BY <1>5, <2>1 DEF PromptTypes
    <2>11. ToSet(fs) \subseteq gone' \cup ToSet(went'[p].files)
      BY <2>1, <2>2, <2>3
    <2> QED BY <1>3, <2>1, <2>2, <2>3, <2>4, <2>5, <2>6, <2>7, <2>8, <2>9, <2>10, <2>11 DEF mine
  \* In a new session, which is announced.
  <1>6. CASE /\ pageSession = 0 /\ sessions' = sessions + 1 /\ pageSession' = sessions + 1
             /\ Accept(p, fs, sessions + 1)
             /\ Announce(Selected(sessions + 1), promptFlight \ mine)
    <2>1. /\ activeRequests' = activeRequests \cup {sessions + 1}
          /\ gone' = gone \cup (IF accepts THEN {} ELSE ToSet(fs))
          /\ excused' = [excused EXCEPT !.crowded = @ \cup (SentPrompts \ {p})]
      BY <1>6 DEF Accept
    <2>2. PICK x :
             /\ went' = [went EXCEPT ![p] = x]
             /\ x = [how |-> "sent", session |-> sessions + 1, fresh |-> sessions + 1 > sessions,
                     files |-> IF accepts THEN fs ELSE <<>>]
      BY <1>6 DEF Accept
    <2>3. /\ DOMAIN went' = Prompts /\ \A q \in Prompts \ {p} : went'[q] = went[q]
          /\ went'[p] = x
      BY <2>2 DEF PromptTypes
    <2>4. /\ excused' \in [strayed : SUBSET Nat, crowded : SUBSET Nat]
          /\ excused'.strayed = excused.strayed
          /\ excused'.crowded = excused.crowded \cup (SentPrompts \ {p})
      BY <1>2, <2>1 DEF PromptTypes
    <2>5. sessions + 1 \in Nat \ {0} /\ sessions + 1 > sessions
      BY DEF PromptTypes
    <2>6. /\ promptFlight' = (promptFlight \ mine) \cup {Selected(sessions + 1)}
          /\ Sends' = Sends \ mine
          /\ AboutSessions' = AboutSessions \cup {Selected(sessions + 1)}
          /\ promptCrossed' = (promptCrossed \/ AboutSessions # {})
      <3>1. Selected(sessions + 1).type # "SendMsg"
        BY DEF Selected
      <3> QED BY <1>1, <1>6, <3>1, SessionAnnounced
    <2>7. SessionsFollow'
      BY <2>5, <2>6 DEF SessionsFollow
    <2>14. MadeForOne(pageSession)'
      <3>1. went'[p].how = "sent" /\ went'[p].fresh /\ went'[p].session = sessions + 1
        BY <2>2, <2>3, <2>5
      <3> QED BY <1>6, <3>1 DEF MadeForOne
    <2>8. SentArrives'
      BY <1>2, <1>3, <1>6, <2>4, <2>6, <2>14 DEF SentArrives
    <2>9. GoesWhereShown'
      <3> SUFFICES ASSUME NEW q \in Prompts, q \notin excused.strayed, went'[q].how = "sent"
                   PROVE  IF promptShown'[q] # 0 THEN went'[q].session = promptShown'[q]
                          ELSE MadeForOne(went[q].session)' /\ (went'[q].fresh \/ q \in excused'.crowded)
        BY <2>4 DEF GoesWhereShown
      <3>1. CASE q = p
        <4>1. promptShown'[p] = 0
          BY <1>6, <3>1
        <4>2. went'[p].fresh /\ went'[p].session = sessions + 1
          BY <2>2, <2>3, <2>5
        <4> QED BY <1>6, <3>1, <4>1, <4>2 DEF MadeForOne
      <3>2. CASE q # p
        <4>1. went'[q] = went[q] /\ promptShown'[q] = promptShown[q]
          BY <2>3, <3>2
        <4>2. ASSUME MadeForOne(went[q].session) PROVE MadeForOne(went[q].session)'
          <5>1. PICK r \in Prompts :
                   went'[r].how = "sent" /\ went'[r].fresh /\ went'[r].session = went[q].session
            BY <1>8, <4>2
          <5> QED BY <4>1, <5>1 DEF MadeForOne
        <4> QED BY <2>4, <4>1, <4>2 DEF GoesWhereShown
      <3> QED BY <3>1, <3>2
    <2>10. NoPromptLost'
      BY <2>2, <2>3, <2>4 DEF NoPromptLost
    <2>11. Selected(sessions + 1) \in SelectMsgs
      BY <2>5 DEF Selected, SelectMsgs
    <2>12. /\ promptFlight' \subseteq SendMsgs \cup SelectMsgs \cup {Cleared}
           /\ pageSession' \in Nat /\ sessions' \in Nat /\ 0 \notin activeRequests'
           /\ promptCrossed' \in BOOLEAN
      BY <1>6, <2>1, <2>5, <2>6, <2>11 DEF PromptTypes
    <2>13. ToSet(fs) \subseteq gone' \cup ToSet(went'[p].files)
      BY <2>1, <2>2, <2>3
    <2> QED
      BY <1>3, <2>1, <2>2, <2>3, <2>4, <2>6, <2>7, <2>8, <2>9, <2>10, <2>12, <2>13 DEF mine
  <1> QED BY <1>4, <1>5, <1>6 DEF SendMessage, mine

\* The prompts that are left keep to their places.
LEMMA HandledIsNew ==
    ASSUME PromptInv, NEW p \in Prompts,
           Sends' \subseteq Sends, SentPrompts' = SentPrompts \ {p},
           \A q \in Prompts \ {p} : went'[q] = went[q],
           UNCHANGED textarea, p # textarea,
           prompts' >= prompts, prompts' \in Nat, p <= prompts'
    PROVE  PromptsAreNew'
  <1> USE DEF PromptInv
  <1>1. prompts \in Nat /\ Prompts \subseteq Nat /\ SentPrompts \subseteq Prompts
    BY SentIsPrompt DEF PromptTypes, Prompts
  <1>2. ASSUME NEW q \in Prompts, q > prompts' \/ q = textarea' \/ q \in SentPrompts'
        PROVE  went'[q].how = "none"
    <2>1. q # p
      BY <1>1, <1>2
    <2>2. q > prompts \/ q = textarea \/ q \in SentPrompts
      BY <1>1, <1>2, <2>1
    <2> QED
      BY <2>1, <2>2 DEF PromptsAreNew
  <1>3. ASSUME NEW q \in SentPrompts' PROVE q <= prompts'
    <2>1. q \in SentPrompts /\ q \in Nat
      BY <1>1, <1>3
    <2>2. q <= prompts
      BY <2>1 DEF PromptsAreNew
    <2> QED
      BY <1>1, <2>1, <2>2
  <1> QED BY <1>2, <1>3 DEF PromptsAreNew

\* What was attached to it is gone with it.
LEMMA HandledFiles ==
    ASSUME PromptInv, NEW p \in Prompts,
           \A m \in Sends \ Sends' : ToSet(m.files) \subseteq gone' \cup ToSet(went'[p].files),
           went[p].how = "none", went'[p].how # "none",
           \A q \in Prompts \ {p} : went'[q] = went[q],
           gone \subseteq gone', UNCHANGED <<added, attachments>>
    PROVE  AttachmentsKept'
  <1> SUFFICES ASSUME NEW f \in 1..added
               PROVE  \/ f \in gone'
                      \/ f \in ToSet(attachments)
                      \/ \E m \in Sends' : f \in ToSet(m.files)
                      \/ \E q \in Prompts : went'[q].how # "none" /\ f \in ToSet(went'[q].files)
    BY DEF AttachmentsKept
  <1>1. CASE f \in gone \/ f \in ToSet(attachments)
    BY <1>1
  <1>2. CASE \E m \in Sends : f \in ToSet(m.files)
    BY <1>2
  <1>3. CASE \E q \in Prompts : went[q].how # "none" /\ f \in ToSet(went[q].files)
    BY <1>3
  <1> QED BY <1>1, <1>2, <1>3 DEF PromptInv, AttachmentsKept

LEMMA HandleSendStep == ASSUME PromptInv, NEW m \in promptFlight, HandleSend(m) PROVE PromptInv'
  <1> USE DEF PromptInv
  <1>1. /\ m \in Sends
        /\ UNCHANGED <<input, editorSession, listSession, promptPage, accepts, counts,
                       promptShown, cleared>>
    BY DEF HandleSend
  <1> DEFINE p == m.prompt
             mine == {n \in Sends : n.prompt = p}
  <1>2. p \in SentPrompts /\ p \in Prompts /\ m.files \in Seq(Nat) /\ p \in Nat /\ mine = {m}
    BY <1>1, SentIsPrompt DEF PromptsAreNew, Prompts
  <1>3. went[p].how = "none" /\ p # textarea /\ p <= prompts
    BY <1>2 DEF PromptsAreNew
  <1>4. /\ promptFlight' \subseteq SendMsgs \cup SelectMsgs \cup {Cleared}
        /\ pageSession' \in Nat /\ sessions' \in Nat /\ 0 \notin activeRequests'
        /\ promptCrossed' \in BOOLEAN
        /\ excused' \in [strayed : SUBSET Nat, crowded : SUBSET Nat]
        /\ Sends' = Sends \ mine
        /\ SentPrompts' = SentPrompts \ {p}
        /\ DOMAIN went' = Prompts /\ \A q \in Prompts \ {p} : went'[q] = went[q]
        /\ went'[p].how # "none" /\ gone \subseteq gone'
        /\ ToSet(m.files) \subseteq gone' \cup ToSet(went'[p].files)
        /\ SessionsFollow' /\ SentArrives' /\ GoesWhereShown' /\ NoPromptLost'
    <2>1. CASE promptPage = "chat" /\ ~(m.custom /\ activeRequests # {})
      <3>1. SendMessage(p, m.files, promptFlight \ mine)
        BY <1>2, <2>1 DEF HandleSend
      <3>2. p \notin excused.strayed =>
               /\ p \in excused.crowded \/ pageSession \notin activeRequests
               /\ \/ pageSession = promptShown'[p]
                  \/ promptShown'[p] = 0 /\ p \in excused.crowded /\ MadeForOne(pageSession)
        BY <1>1, <1>2 DEF SentArrives
      <3>3. /\ UNCHANGED <<promptPage, editorSession, listSession, cleared>>
            /\ DOMAIN promptShown' = Prompts
            /\ \A q \in Prompts \ {p} : promptShown'[q] = promptShown[q]
        BY <1>1 DEF PromptTypes
      <3> HIDE DEF p
      <3> QED BY <1>2, <1>3, <2>1, <3>1, <3>2, <3>3, SendMessageKeeps
    <2>2. CASE promptPage # "chat" \/ (m.custom /\ activeRequests # {})
      <3>1. PICK how \in {"wrong page", "command refused"} :
               /\ promptFlight' = promptFlight \ {m} /\ Fails(p, how, m.files)
               /\ UNCHANGED <<sessions, pageSession, promptCrossed>>
               /\ how = "wrong page" => promptPage # "chat"
        BY <2>2 DEF HandleSend
      <3>2. /\ Sends' = Sends \ {m} /\ SentPrompts' = SentPrompts \ {p}
            /\ AboutSessions' = AboutSessions
        BY <1>1, <3>1, PromptArrived
      <3>3. /\ went' = [went EXCEPT ![p] = [how |-> how, files |-> m.files]]
            /\ UNCHANGED <<activeRequests, excused, gone>>
        BY <3>1 DEF Fails
      <3>4. /\ DOMAIN went' = Prompts /\ \A q \in Prompts \ {p} : went'[q] = went[q]
            /\ went'[p] = [how |-> how, files |-> m.files]
        BY <1>2, <3>3 DEF PromptTypes
      <3>5. SessionsFollow'
        BY <1>1, <3>1, <3>2 DEF SessionsFollow
      <3>11. \A s : MadeForOne(s) =>
                \E q \in Prompts : went'[q].how = "sent" /\ went'[q].fresh /\ went'[q].session = s
        BY <1>3, <3>4, MadeStays DEF MadeForOne
      <3>6. SentArrives'
        BY <1>1, <3>1, <3>2, <3>3, <3>11 DEF SentArrives, MadeForOne
      <3>7. GoesWhereShown'
        <4>1. went'[p].how # "sent"
          <5> DEFINE x == [how |-> how, files |-> m.files]
          <5>3. x.how = how
            OBVIOUS
          <5>4. went'[p] = x
            BY <3>4
          <5> HIDE DEF x, p
          <5>1. went'[p].how = how
            BY <5>3, <5>4
          <5>2. how \in {"wrong page", "command refused"}
            BY <3>1
          <5> QED BY <5>1, <5>2
        <4> SUFFICES ASSUME NEW q \in Prompts \ {p}, q \notin excused.strayed,
                            went[q].how = "sent"
                     PROVE  IF promptShown[q] # 0 THEN went[q].session = promptShown[q]
                            ELSE /\ MadeForOne(went[q].session)'
                                 /\ went[q].fresh \/ q \in excused.crowded
          BY <1>1, <3>3, <3>4, <4>1 DEF GoesWhereShown
        <4>2. went'[q] = went[q]
          BY <3>4
        <4>3. ASSUME MadeForOne(went[q].session) PROVE MadeForOne(went[q].session)'
          <5>1. PICK r \in Prompts :
                   went'[r].how = "sent" /\ went'[r].fresh /\ went'[r].session = went[q].session
            BY <3>11, <4>3
          <5> QED BY <4>2, <5>1 DEF MadeForOne
        <4> QED BY <4>3 DEF GoesWhereShown
      <3>8. how = "wrong page" => p \in excused.strayed
        BY <1>2, <3>1 DEF SentArrives
      <3>9. NoPromptLost'
        BY <3>3, <3>4, <3>8 DEF NoPromptLost
      <3>10. /\ promptFlight' \subseteq SendMsgs \cup SelectMsgs \cup {Cleared}
             /\ pageSession' \in Nat /\ sessions' \in Nat /\ 0 \notin activeRequests'
             /\ promptCrossed' \in BOOLEAN
             /\ excused' \in [strayed : SUBSET Nat, crowded : SUBSET Nat]
        BY <3>1, <3>3 DEF PromptTypes
      <3> QED BY <1>2, <3>2, <3>3, <3>4, <3>5, <3>6, <3>7, <3>9, <3>10
    <2> QED BY <2>1, <2>2
  <1> HIDE DEF p
  <1>5. UNCHANGED <<textarea, prompts, added, attachments>>
    BY <1>1 DEF input, counts
  <1>6. PromptsAreNew'
    <2>1. prompts' >= prompts /\ prompts' \in Nat /\ p <= prompts'
      BY <1>3, <1>5 DEF PromptTypes
    <2> QED BY <1>2, <1>3, <1>4, <1>5, <2>1, HandledIsNew
  <1>7. AttachmentsKept'
    BY <1>2, <1>3, <1>4, <1>5, HandledFiles
  <1>8. PromptTypes'
    BY <1>1, <1>4, <1>5 DEF PromptTypes
  <1> QED BY <1>4, <1>6, <1>7, <1>8

LEMMA CommandStep == ASSUME PromptInv, Command PROVE PromptInv'
  <1>1. PICK custom \in BOOLEAN : Leaves(prompts + 1, <<>>, FALSE, custom)
    BY DEF Command
  <1>2. /\ prompts < MaxPrompts /\ prompts' = prompts + 1
        /\ UNCHANGED <<textarea, attachments, places, world, added, went, gone, promptCrossed,
                       cleared>>
    BY DEF Command, input
  <1> QED BY <1>1, <1>2, EmptySeq, NewLeaves

\* Nothing is written, sent or attached, and no excuse is taken back.
LEMMA PromptsStay ==
    ASSUME PromptInv, UNCHANGED <<textarea, prompts, added, went, promptShown>>,
           UNCHANGED <<Sends, SentPrompts>>,
           excused.strayed \subseteq excused'.strayed,
           excused.crowded \subseteq excused'.crowded
    PROVE  PromptsAreNew' /\ GoesWhereShown' /\ NoPromptLost'
  <1> USE DEF PromptInv
  <1>1. PromptsAreNew'
    BY PromptTextStays
  <1>2. GoesWhereShown'
    BY DEF GoesWhereShown, MadeForOne
  <1>3. NoPromptLost'
    BY DEF NoPromptLost
  <1> QED BY <1>1, <1>2, <1>3

LEMMA AttachStep == ASSUME PromptInv, Attach \/ Delete PROVE PromptInv'
  <1> USE DEF PromptInv
  <1>1. UNCHANGED <<textarea, places, promptFlight, world, prompts, went, promptShown, excused,
                    promptCrossed, cleared>>
    BY DEF Attach, Delete, counts
  <1>2. UNCHANGED <<Sends, SentPrompts, AboutSessions>>
    BY <1>1 DEF Sends, SentPrompts, AboutSessions
  <1>3. PromptsAreNew'
    BY <1>1, <1>2, PromptTextStays
  <1>4. GoesWhereShown' /\ NoPromptLost' /\ SessionsFollow' /\ SentArrives'
    BY <1>1, <1>2 DEF GoesWhereShown, MadeForOne, NoPromptLost, SessionsFollow, SentArrives,
                      places, world
  <1>5. CASE Attach
    <2>1. added' = added + 1 /\ added \in Nat
      BY <1>5 DEF Attach, PromptTypes
    <2>2. \/ gone' = gone \cup {added + 1} /\ attachments' = attachments
          \/ attachments' = Append(attachments, added + 1) /\ gone' = gone
      BY <1>5 DEF Attach
    <2>3. /\ attachments' \in Seq(Nat) /\ ToSet(attachments) \subseteq ToSet(attachments')
          /\ added + 1 \in gone' \cup ToSet(attachments')
      <3>1. CASE gone' = gone \cup {added + 1} /\ attachments' = attachments
        BY <3>1 DEF PromptTypes
      <3>2. CASE attachments' = Append(attachments, added + 1)
        <4>1. /\ attachments' \in Seq(Nat) /\ Len(attachments') = Len(attachments) + 1
              /\ \A i \in 1..Len(attachments) : attachments'[i] = attachments[i]
              /\ attachments'[Len(attachments) + 1] = added + 1
          BY <2>1, <3>2, AppendProperties DEF PromptTypes
        <4>2. /\ DOMAIN attachments' = 1..Len(attachments) + 1
              /\ DOMAIN attachments = 1..Len(attachments) /\ Len(attachments) \in Nat
          BY <4>1, LenProperties DEF PromptTypes
        <4>3. Len(attachments) + 1 \in DOMAIN attachments'
          BY <4>2
        <4> QED BY <4>1, <4>2, <4>3 DEF ToSet
      <3> QED BY <2>2, <3>1, <3>2
    <2>4. gone \subseteq gone'
      BY <2>2
    <2>5. AttachmentsKept'
      <3> SUFFICES ASSUME NEW f \in 1..added'
                   PROVE  \/ f \in gone'
                          \/ f \in ToSet(attachments')
                          \/ \E m \in Sends : f \in ToSet(m.files)
                          \/ \E q \in Prompts : went[q].how # "none" /\ f \in ToSet(went[q].files)
        BY <1>1, <1>2 DEF AttachmentsKept
      <3>1. CASE f = added + 1
        BY <2>3, <3>1
      <3>2. CASE f \in 1..added
        BY <2>3, <2>4, <3>2 DEF AttachmentsKept
      <3> QED BY <2>1, <3>1, <3>2
    <2>6. PromptTypes'
      BY <1>1, <2>1, <2>3 DEF PromptTypes, places, world
    <2> QED BY <1>3, <1>4, <2>5, <2>6
  <1>6. CASE Delete
    <2>1. /\ added' = added /\ gone' = gone \cup (ToSet(attachments) \ ToSet(attachments'))
          /\ \/ attachments' = <<>>
             \/ \E i \in DOMAIN attachments : attachments' = RemoveAt(attachments, i)
             \/ attachments' = attachments
      BY <1>6 DEF Delete, counts
    <2>2. attachments' \in Seq(Nat)
      <3>1. ASSUME NEW i \in DOMAIN attachments PROVE RemoveAt(attachments, i) \in Seq(Nat)
        <4>1. /\ i \in 1..Len(attachments) /\ Len(attachments) \in Nat
              /\ attachments \in Seq(Nat)
          BY LenProperties DEF PromptTypes
        <4>2. /\ SubSeq(attachments, 1, i - 1) \in Seq(Nat)
              /\ SubSeq(attachments, i + 1, Len(attachments)) \in Seq(Nat)
          BY <4>1, SubSeqProperties
        <4> QED BY <4>2, ConcatProperties DEF RemoveAt
      <3> QED BY <2>1, <3>1, EmptySeq DEF PromptTypes
    <2>3. AttachmentsKept'
      BY <1>1, <1>2, <2>1 DEF AttachmentsKept
    <2>4. PromptTypes'
      BY <1>1, <2>1, <2>2 DEF PromptTypes, places, world
    <2> QED BY <1>3, <1>4, <2>3, <2>4
  <1> QED BY <1>5, <1>6

\* A turn ends, is cancelled, or the model is changed.
LEMMA TurnStep ==
    ASSUME PromptInv, activeRequests' \subseteq activeRequests, UNCHANGED <<places, promptFlight>>,
           UNCHANGED <<textarea, attachments, sessions, prompts, added, history>>
    PROVE  PromptInv'
  <1> USE DEF PromptInv
  <1>1. UNCHANGED <<Sends, SentPrompts, AboutSessions>>
    BY DEF Sends, SentPrompts, AboutSessions
  <1>2. PromptTypes'
    BY DEF PromptTypes, places, history
  <1>3. PromptsAreNew' /\ GoesWhereShown' /\ NoPromptLost'
    BY <1>1, PromptsStay DEF history
  <1>4. SessionsFollow' /\ SentArrives' /\ AttachmentsKept'
    BY <1>1 DEF SessionsFollow, SentArrives, MadeForOne, AttachmentsKept, places, history
  <1> QED BY <1>2, <1>3, <1>4

\* Turning elsewhere excuses what is on its way.
LEMMA StrayKeeps ==
    ASSUME PromptInv, Stray, UNCHANGED <<textarea, attachments>>,
           UNCHANGED <<prompts, added, went, promptShown, gone>>, UNCHANGED <<Sends, SentPrompts>>
    PROVE  /\ excused' \in [strayed : SUBSET Nat, crowded : SUBSET Nat]
           /\ PromptsAreNew' /\ GoesWhereShown' /\ NoPromptLost' /\ AttachmentsKept'
           /\ SentArrives'
  <1> USE DEF PromptInv
  <1>1. SentPrompts \subseteq Nat
    BY SentIsPrompt DEF Prompts
  <1>2. /\ excused' \in [strayed : SUBSET Nat, crowded : SUBSET Nat]
        /\ excused'.strayed = excused.strayed \cup SentPrompts
        /\ excused'.crowded = excused.crowded
    BY <1>1 DEF Stray, PromptTypes
  <1>3. PromptsAreNew' /\ GoesWhereShown' /\ NoPromptLost'
    BY <1>2, PromptsStay
  <1>4. AttachmentsKept'
    BY DEF AttachmentsKept
  <1>5. SentArrives'
    BY <1>2 DEF SentArrives
  <1> QED BY <1>2, <1>3, <1>4, <1>5

LEMMA TurnElsewhereStep ==
    ASSUME PromptInv, NewSession \/ TurnPage \/ (\E s \in 1..sessions : PickSession(s))
    PROVE  PromptInv'
  <1> USE DEF PromptInv
  <1>1. /\ Stray /\ UNCHANGED <<input, editorSession, listSession, world, prompts, added, went,
                               promptShown, gone>>
    BY DEF NewSession, TurnPage, PickSession, places
  <1>2. CASE NewSession
    <2>1. /\ pageSession' = 0 /\ cleared' = TRUE /\ promptPage' = promptPage
          /\ Announce(Cleared, promptFlight) /\ Cleared.type # "SendMsg"
      BY <1>2 DEF NewSession, Cleared
    <2>2. /\ promptFlight' = promptFlight \cup {Cleared} /\ Sends' = Sends
          /\ AboutSessions' = AboutSessions \cup {Cleared}
          /\ promptCrossed' = (promptCrossed \/ AboutSessions # {})
      <3>1. promptFlight = promptFlight \ {} /\ {} \in SUBSET Sends
        OBVIOUS
      <3>2. /\ promptFlight' = (promptFlight \ {}) \cup {Cleared} /\ Sends' = Sends \ {}
            /\ AboutSessions' = AboutSessions \cup {Cleared}
            /\ promptCrossed' = (promptCrossed \/ AboutSessions # {})
        BY <2>1, <3>1, SessionAnnounced, Zenon
      <3> QED BY <3>2
    <2>3. SentPrompts' = SentPrompts
      BY <2>2 DEF SentPrompts
    <2>4. SessionsFollow'
      BY <2>1, <2>2 DEF SessionsFollow
    <2>5. /\ excused' \in [strayed : SUBSET Nat, crowded : SUBSET Nat]
          /\ PromptsAreNew' /\ GoesWhereShown' /\ NoPromptLost' /\ AttachmentsKept'
          /\ SentArrives'
      BY <1>1, <2>2, <2>3, StrayKeeps DEF input
    <2>6. PromptTypes'
      BY <1>1, <2>1, <2>2, <2>5 DEF PromptTypes, input, world
    <2> QED BY <2>4, <2>5, <2>6
  <1>3. CASE \E s \in 1..sessions : PickSession(s)
    <2>1. PICK s \in 1..sessions : PickSession(s)
      BY <1>3
    <2>2. /\ UNCHANGED <<places, cleared>> /\ s \in Nat \ {0}
          /\ Announce(Selected(s), promptFlight) /\ Selected(s).type # "SendMsg"
          /\ Selected(s) \in SelectMsgs
      BY <2>1 DEF PickSession, Selected, SelectMsgs, PromptTypes
    <2>3. /\ promptFlight' = promptFlight \cup {Selected(s)} /\ Sends' = Sends
          /\ AboutSessions' = AboutSessions \cup {Selected(s)}
          /\ promptCrossed' = (promptCrossed \/ AboutSessions # {})
      <3>1. promptFlight = promptFlight \ {} /\ {} \in SUBSET Sends
        OBVIOUS
      <3>2. /\ promptFlight' = (promptFlight \ {}) \cup {Selected(s)} /\ Sends' = Sends \ {}
            /\ AboutSessions' = AboutSessions \cup {Selected(s)}
            /\ promptCrossed' = (promptCrossed \/ AboutSessions # {})
        BY <2>2, <3>1, SessionAnnounced, Zenon
      <3> QED BY <3>2
    <2>4. SentPrompts' = SentPrompts
      BY <2>3 DEF SentPrompts
    <2>5. SessionsFollow'
      BY <2>2, <2>3 DEF SessionsFollow
    <2>6. /\ excused' \in [strayed : SUBSET Nat, crowded : SUBSET Nat]
          /\ PromptsAreNew' /\ GoesWhereShown' /\ NoPromptLost' /\ AttachmentsKept'
          /\ SentArrives'
      BY <1>1, <2>3, <2>4, StrayKeeps DEF input
    <2>7. PromptTypes'
      BY <1>1, <2>2, <2>3, <2>6 DEF PromptTypes, input, world, places
    <2> QED BY <2>5, <2>6, <2>7
  <1>4. CASE TurnPage
    <2>1. UNCHANGED <<promptFlight, pageSession, promptCrossed, cleared>>
      BY <1>4 DEF TurnPage
    <2>2. UNCHANGED <<Sends, SentPrompts, AboutSessions>>
      BY <2>1 DEF Sends, SentPrompts, AboutSessions
    <2>3. SessionsFollow'
      BY <1>1, <2>1, <2>2 DEF SessionsFollow
    <2>4. /\ excused' \in [strayed : SUBSET Nat, crowded : SUBSET Nat]
          /\ PromptsAreNew' /\ GoesWhereShown' /\ NoPromptLost' /\ AttachmentsKept'
          /\ SentArrives'
      BY <1>1, <2>2, StrayKeeps DEF input
    <2>5. PromptTypes'
      BY <1>1, <2>1, <2>4 DEF PromptTypes, input, world
    <2> QED BY <2>3, <2>4, <2>5
  <1> QED BY <1>2, <1>3, <1>4

\* Everybody follows a selection; a clearing is heard by the list.
LEMMA HeardStep ==
    ASSUME PromptInv, HandleCleared \/ (\E m \in promptFlight : HandleSessionSelected(m))
    PROVE  PromptInv'
  <1> USE DEF PromptInv
  <1>1. CASE HandleCleared
    <2>1. /\ Cleared \in AboutSessions /\ promptFlight' = promptFlight \ {Cleared}
          /\ listSession' = IF promptPage = "chat" THEN 0 ELSE listSession
          /\ promptCrossed' = (promptCrossed \/ promptPage # "chat")
          /\ UNCHANGED <<input, editorSession, pageSession, promptPage, world, counts, went,
                         promptShown, gone, excused, cleared>>
      BY <1>1 DEF HandleCleared, AboutSessions, Sends, Cleared
    <2>2. Sends' = Sends /\ SentPrompts' = SentPrompts /\ AboutSessions' = AboutSessions \ {Cleared}
      BY <2>1, SessionHeard
    <2>3. ~(\E s \in Nat : AboutSessions = {Selected(s)})
      BY <2>1 DEF Selected, Cleared
    <2>4. SessionsFollow'
      BY <2>1, <2>2, <2>3 DEF SessionsFollow
    <2>5. PromptsAreNew' /\ GoesWhereShown' /\ NoPromptLost'
      BY <2>1, <2>2, PromptsStay DEF input, counts
    <2>6. SentArrives' /\ AttachmentsKept'
      BY <2>1, <2>2 DEF SentArrives, MadeForOne, AttachmentsKept, input, world, counts
    <2>7. PromptTypes'
      BY <2>1 DEF PromptTypes, input, world, counts
    <2> QED BY <2>4, <2>5, <2>6, <2>7
  <1>2. CASE \E m \in promptFlight : HandleSessionSelected(m)
    <2>1. PICK m \in promptFlight : HandleSessionSelected(m)
      BY <1>2
    <2>2. /\ m \in AboutSessions /\ promptFlight' = promptFlight \ {m} /\ Stray
          /\ UNCHANGED <<input, promptPage, world, counts, went, promptShown, gone>>
      BY <2>1 DEF HandleSessionSelected, AboutSessions, Sends
    <2>3. m.session \in Nat /\ m # Cleared
      BY <2>1 DEF HandleSessionSelected, PromptTypes, SendMsgs, SelectMsgs, Cleared
    <2>4. Sends' = Sends /\ SentPrompts' = SentPrompts /\ AboutSessions' = AboutSessions \ {m}
      BY <2>2, SessionHeard
    <2>5. \/ /\ pageSession' = m.session /\ editorSession' = m.session
             /\ listSession' = m.session /\ cleared' = FALSE
             /\ promptCrossed' = (promptCrossed /\ promptFlight' # Sends)
          \/ /\ promptCrossed' = TRUE
             /\ UNCHANGED <<pageSession, editorSession, listSession, cleared>>
      BY <2>1 DEF HandleSessionSelected
    <2>6. promptFlight' = Sends <=> AboutSessions' = {}
      BY <2>4 DEF AboutSessions, Sends
    <2>7. SessionsFollow'
      BY <2>2, <2>3, <2>4, <2>5, <2>6 DEF SessionsFollow
    <2>8. /\ excused' \in [strayed : SUBSET Nat, crowded : SUBSET Nat]
          /\ PromptsAreNew' /\ GoesWhereShown' /\ NoPromptLost' /\ AttachmentsKept'
          /\ SentArrives'
      BY <2>2, <2>4, StrayKeeps DEF input, counts
    <2>9. PromptTypes'
      BY <2>2, <2>3, <2>5, <2>8 DEF PromptTypes, input, world, counts
    <2> QED BY <2>7, <2>8, <2>9
  <1> QED BY <1>1, <1>2

LEMMA PromptStep == PromptInv /\ [PromptNext]_promptVars => PromptInv'
  <1> SUFFICES ASSUME PromptInv, [PromptNext]_promptVars PROVE PromptInv'
    OBVIOUS
  <1>1. CASE UNCHANGED promptVars
    BY <1>1, TurnStep DEF promptVars, input, world, counts
  <1>2. CASE Type \/ AskEditor \/ OpenEditor \/ DeleteKey
    BY <1>2, WritingStep DEF Type, AskEditor, OpenEditor, DeleteKey, input, world, counts
  <1>3. CASE EditorCloses
    <2>1. CASE prompts' = prompts + 1
      <3>1. /\ prompts < MaxPrompts /\ attachments' = <<>> /\ Leaves(prompts + 1, attachments, FALSE, FALSE)
        <4>1. prompts' # prompts
          BY <2>1 DEF PromptInv, PromptTypes
        <4> QED BY <1>3, <4>1 DEF EditorCloses
      <3> QED BY <1>3, <2>1, <3>1, NewLeaves DEF EditorCloses, PromptInv, PromptTypes
    <2>2. CASE UNCHANGED <<attachments, prompts, promptFlight, promptShown, excused>>
      BY <1>3, <2>2, WritingStep DEF EditorCloses, world, history
    <2> QED BY <1>3, <2>1, <2>2 DEF EditorCloses
  <1>4. CASE EscKey \/ ChangeModel \/ PromptTurnEnds
    BY <1>4, TurnStep DEF EscKey, ChangeModel, PromptTurnEnds, input, world, counts
  <1>5. CASE Enter \/ Command \/ Attach \/ Delete
    BY <1>5, EnterStep, CommandStep, AttachStep
  <1>6. CASE NewSession \/ TurnPage \/ \E s \in 1..sessions : PickSession(s)
    BY <1>6, TurnElsewhereStep
  <1>7. CASE HandleCleared \/ \E m \in promptFlight : HandleSend(m) \/ HandleSessionSelected(m)
    BY <1>7, HandleSendStep, HeardStep
  <1> QED BY <1>1, <1>2, <1>3, <1>4, <1>5, <1>6, <1>7 DEF PromptNext

(* The inductive invariant of the composer and the chat page: a prompt that is still to
   arrive is new and in one place, the four places that remember a session differ only
   by the one message about sessions under way, and a prompt under way finds the page as
   it left it, unless the person turned elsewhere. *)
THEOREM PromptInvariance == PromptSpec => []PromptInv
  BY PromptStarts, PromptStep, PTL DEF PromptSpec

(* PromptsArrive of Composer, for every number of prompts, sessions and attachments. *)
THEOREM PromptsDoArrive == PromptSpec => []PromptsArrive
  <1>1. PromptInv => PromptsArrive
    <2> SUFFICES ASSUME PromptInv PROVE SessionsAgree
      BY DEF PromptInv, PromptsArrive
    <2>1. Settled => AboutSessions = {}
      BY DEF Settled, AboutSessions
    <2> QED BY <2>1 DEF PromptInv, SessionsFollow, SessionsAgree
  <1> QED BY PromptInvariance, <1>1, PTL

-----------------------------------------------------------------------------
(* The list of changed files.                                                *)

SideRows == [path : Paths, session : SideSessions, content : Contents, version : Nat, at : Nat]

SideTypes ==
    /\ files \subseteq SideRows
    /\ clock \in Nat /\ \A f \in files : f.at <= clock
    /\ session \in SideSessions
    /\ modFiles \in [Paths -> Contents \cup {Unchanged}]
    /\ listener \in {"subscribed", "got", "again", "gone"}
    /\ filesCh \in Seq(files) /\ event \in files \cup {NoRow}
    /\ last \in [SideSessions -> [Paths -> Contents \cup {Unchanged}]]

\* What a session records of a path begins with one row as it was before.
OneBefore ==
    \A s \in SideSessions, p \in Paths :
        /\ OfSession(files, p, s) # {} => InitialVersion(p, s) # {}
        /\ \A f, g \in InitialVersion(p, s) : f = g

\* No row of it is later than the one with the content recorded last.
LastIsLatest ==
    \A s \in SideSessions, p \in Paths :
        OfSession(files, p, s) # {} =>
            \E r \in OfSession(files, p, s) :
                r.content = last[s][p] /\ \A g \in OfSession(files, p, s) : g.at <= r.at

\* Events come to a listener that is ready, and one is handled at a time.
OneEar ==
    /\ listener # "subscribed" => filesCh = <<>>
    /\ listener # "got" <=> event = NoRow

\* The events of a path of the sidebar's session that are on their way.
Coming(p) ==
    {i \in DOMAIN filesCh : filesCh[i].session = session /\ filesCh[i].path = p}
CameOf(p) == event # NoRow /\ event.session = session /\ event.path = p

\* An event that tells the list all it does not have yet.
SideTells(f, p) ==
    /\ f.content = last[session][p]
    /\ f.version = Initial => modFiles[p] = Unchanged

\* The list has what is due, or the last event of the path tells it.
ListFollows ==
    \A p \in Paths : <<session, p>> \notin missed =>
        /\ \A i \in Coming(p) : (\A j \in Coming(p) : j <= i) =>
              filesCh[i].content = last[session][p]
        /\ \A i \in Coming(p) : filesCh[i].version = Initial => modFiles[p] = Unchanged
        /\ CameOf(p) => SideTells(event, p)
        /\ Coming(p) = {} /\ ~CameOf(p) => modFiles[p] = Due(p)

SideInv == SideTypes /\ OneBefore /\ LastIsLatest /\ OneEar /\ ListFollows

-----------------------------------------------------------------------------

LEMMA SideStarts == SideInit => SideInv
<1> SUFFICES ASSUME SideInit PROVE SideInv
  OBVIOUS
<1>1. /\ files = {} /\ clock = 1 /\ session \in SideSessions
      /\ modFiles = [p \in Paths |-> Unchanged]
      /\ listener = "subscribed" /\ filesCh = <<>> /\ event = NoRow
      /\ last = [s \in SideSessions |-> [p \in Paths |-> Unchanged]] /\ missed = {}
  BY DEF SideInit
<1>2. SideTypes
  <2>1. filesCh \in Seq(files)
    BY <1>1
  <2> QED
    BY <1>1, <2>1 DEF SideTypes
<1>3. \A s \in SideSessions, p \in Paths : OfSession(files, p, s) = {} /\ InitialVersion(p, s) = {}
  BY <1>1 DEF OfSession, OfPath, InitialVersion, ListFilesBySession
<1>4. OneBefore
  BY <1>3 DEF OneBefore
<1>5. LastIsLatest
  BY <1>3 DEF LastIsLatest
<1>6. OneEar
  BY <1>1 DEF OneEar
<1>7. ListFollows
  <2> SUFFICES ASSUME NEW p \in Paths
               PROVE  Coming(p) = {} /\ ~CameOf(p) /\ modFiles[p] = Due(p)
    BY DEF ListFollows
  <2>1. Coming(p) = {}
    BY <1>1 DEF Coming
  <2>2. ~CameOf(p)
    BY <1>1 DEF CameOf
  <2>3. Due(p) = Unchanged
    BY <1>1, <1>3 DEF Due
  <2> QED
    BY <1>1, <2>1, <2>2, <2>3
<1> QED
  BY <1>2, <1>4, <1>5, <1>6, <1>7 DEF SideInv

\* A version that Insert gives is new to the session, and the first one wanted when the
\* session has no row of the path; only who wants the initial version gets it.
LEMMA InsertIsNew ==
  ASSUME NEW fs, NEW p, NEW s, NEW wanted \in Nat, NEW second \in Nat,
         Insert(fs, p, s, wanted, second) # NoVersion
  PROVE  /\ Insert(fs, p, s, wanted, second) \in Nat
         /\ \A f \in OfSession(fs, p, s) : f.version # Insert(fs, p, s, wanted, second)
         /\ wanted # Initial => Insert(fs, p, s, wanted, second) # Initial
         /\ OfSession(fs, p, s) = {} => Insert(fs, p, s, wanted, second) = wanted
<1> DEFINE taken == {f.version : f \in OfSession(fs, p, s)}
           again(v) == IF v = Initial THEN Stamp(second) ELSE v + 1
           tries == <<wanted, again(wanted), again(again(wanted))>>
           free == {i \in 1..3 : tries[i] \notin taken}
           first == CHOOSE i \in free : \A j \in free : i <= j
<1>1. Insert(fs, p, s, wanted, second) = IF free = {} THEN NoVersion ELSE tries[first]
  BY DEF Insert
<1>2. free # {} /\ Insert(fs, p, s, wanted, second) = tries[first]
  BY <1>1
<1>3. /\ tries[1] \in Nat /\ tries[2] \in Nat /\ tries[3] \in Nat
      /\ wanted # Initial => tries[1] # Initial /\ tries[2] # Initial /\ tries[3] # Initial
      /\ tries[1] = wanted
  BY DEF Stamp, Initial
<1>4. \E i \in free : \A j \in free : i <= j
  <2>1. free \subseteq 1..3
    OBVIOUS
  <2> HIDE DEF free
  <2>2. CASE 1 \in free
    BY <2>1, <2>2
  <2>3. CASE 1 \notin free /\ 2 \in free
    BY <2>1, <2>3
  <2>4. CASE 1 \notin free /\ 2 \notin free
    <3>1. free # {}
      BY <1>2
    <3>2. \A i \in free : i = 3
      BY <2>1, <2>4
    <3> QED
      BY <3>1, <3>2
  <2> QED
    BY <2>2, <2>3, <2>4
<1>5. first \in free /\ \A j \in free : first <= j
  <2> HIDE DEF free
  <2> QED
    BY <1>4
<1>6. first \in 1..3 /\ tries[first] \notin taken
  <2> HIDE DEF first, tries
  <2> QED
    BY <1>5
<1>7. tries[first] \in Nat /\ (wanted # Initial => tries[first] # Initial)
  <2> HIDE DEF first, tries
  <2>1. first = 1 \/ first = 2 \/ first = 3
    BY <1>6
  <2> QED
    BY <1>3, <2>1
<1>8. OfSession(fs, p, s) = {} => tries[first] = wanted
  <2> SUFFICES ASSUME OfSession(fs, p, s) = {} PROVE first = 1
    BY <1>3
  <2>1. taken = {}
    OBVIOUS
  <2>2. 1 \in free
    BY <2>1
  <2>3. first <= 1
    BY <1>5, <2>2
  <2> HIDE DEF first
  <2> QED
    BY <1>6, <2>3
<1>9. \A f \in OfSession(fs, p, s) : f.version # tries[first]
  <2> HIDE DEF first, tries
  <2> QED
    BY <1>6
<1> HIDE DEF first, tries
<1> QED
  BY <1>2, <1>7, <1>8, <1>9

LEMMA InitialVersionIs ==
  ASSUME NEW p, NEW s
  PROVE  InitialVersion(p, s) = {f \in OfSession(files, p, s) : f.version = Initial}
  BY DEF InitialVersion, ListFilesBySession, OfSession, OfPath

\* While files, the list and what is recorded stay, so does what is due.
LEMMA DueStays ==
  ASSUME UNCHANGED <<files, session, last>>, NEW p
  PROVE  Due(p)' = Due(p)
  BY DEF Due, InitialVersion, ListFilesBySession

LEMMA RecordsStay ==
  ASSUME SideInv, UNCHANGED <<files, last>>
  PROVE  OneBefore' /\ LastIsLatest'
<1>1. \A s, p : InitialVersion(p, s)' = InitialVersion(p, s)
  BY DEF InitialVersion, ListFilesBySession
<1>2. OneBefore'
  BY <1>1 DEF SideInv, OneBefore
<1>3. LastIsLatest'
  BY DEF SideInv, LastIsLatest
<1> QED
  BY <1>2, <1>3

\* What a record changes of the table: one row, the latest of its session and path, and
\* the one before all changes exactly when it is the first.
LEMMA RecordAdds ==
  ASSUME SideInv, NEW s \in SideSessions, NEW p \in Paths, NEW c \in Contents, Record(s, p, c)
  PROVE  \E row \in SideRows :
            /\ row.path = p /\ row.session = s /\ row.content = c /\ row.at = clock
            /\ row.version = Initial <=> OfSession(files, p, s) = {}
            /\ files' = files \cup {row}
            /\ last' = [last EXCEPT ![s][p] = c]
            /\ IF listener = "subscribed" THEN filesCh' = Append(filesCh, row) /\ missed' = missed
               ELSE filesCh' = filesCh /\ missed' = missed \cup {<<s, p>>}
            /\ UNCHANGED <<clock, session, modFiles, listener, event>>
<1>1. PICK wanted \in IF OfSession(files, p, s) = {} THEN {Initial} ELSE NextVersions(files, p) :
         LET v == Insert(files, p, s, wanted, clock)
             row == Row(p, s, c, v, clock)
         IN /\ v # NoVersion
            /\ files' = files \cup {row}
            /\ last' = [last EXCEPT ![s][p] = c]
            /\ IF listener = "subscribed" THEN
                  filesCh' = Append(filesCh, row) /\ UNCHANGED missed
               ELSE UNCHANGED filesCh /\ missed' = missed \cup {<<s, p>>}
  BY DEF Record
<1>2. PICK v : v = Insert(files, p, s, wanted, clock)
  OBVIOUS
<1>3. PICK row : row = Row(p, s, c, v, clock)
  OBVIOUS
<1>4. files \subseteq SideRows /\ clock \in Nat
  BY DEF SideInv, SideTypes
<1>5. \A f \in files : f.version \in Nat
  BY <1>4 DEF SideRows
<1>6. OfSession(files, p, s) # {} => OfPath(files, p) # {} /\ OfPath(files, p) \subseteq files
  BY DEF OfSession, OfPath
<1>7. wanted \in Nat /\ (wanted = Initial <=> OfSession(files, p, s) = {})
  <2>1. CASE OfSession(files, p, s) = {}
    BY <1>1, <2>1 DEF Initial
  <2>2. CASE OfSession(files, p, s) # {}
    <3>1. wanted \in {f.version + 1 : f \in Latest(OfPath(files, p))}
      BY <1>1, <1>6, <2>2 DEF NextVersions
    <3>2. PICK f \in Latest(OfPath(files, p)) : wanted = f.version + 1
      BY <3>1
    <3>3. f \in files
      BY <1>6, <2>2, <3>2 DEF Latest
    <3> QED
      BY <1>5, <2>2, <3>2, <3>3 DEF Initial
  <2> QED
    BY <2>1, <2>2
<1>8. /\ v \in Nat /\ v # NoVersion
      /\ wanted # Initial => v # Initial
      /\ OfSession(files, p, s) = {} => v = wanted
  <2>1. Insert(files, p, s, wanted, clock) # NoVersion
    BY <1>1
  <2> QED
    BY <1>2, <1>4, <1>7, <2>1, InsertIsNew
<1>9. row = [path |-> p, session |-> s, content |-> c, version |-> v, at |-> clock]
  BY <1>3 DEF Row
<1>10. row \in SideRows
  BY <1>4, <1>8, <1>9 DEF SideRows
<1>11. row.version = Initial <=> OfSession(files, p, s) = {}
  BY <1>7, <1>8, <1>9
<1>12. /\ files' = files \cup {row} /\ last' = [last EXCEPT ![s][p] = c]
       /\ IF listener = "subscribed" THEN filesCh' = Append(filesCh, row) /\ missed' = missed
          ELSE filesCh' = filesCh /\ missed' = missed \cup {<<s, p>>}
  BY <1>1, <1>2, <1>3
<1>13. UNCHANGED <<clock, session, modFiles, listener, event>>
  BY DEF Record, list
<1> QED
  BY <1>9, <1>10, <1>11, <1>12, <1>13

LEMMA RecordStep ==
  ASSUME SideInv, NEW s \in SideSessions, NEW p \in Paths, NEW c \in Contents, Record(s, p, c)
  PROVE  SideInv'
<1>1. PICK row \in SideRows :
         /\ row.path = p /\ row.session = s /\ row.content = c /\ row.at = clock
         /\ row.version = Initial <=> OfSession(files, p, s) = {}
         /\ files' = files \cup {row}
         /\ last' = [last EXCEPT ![s][p] = c]
         /\ IF listener = "subscribed" THEN filesCh' = Append(filesCh, row) /\ missed' = missed
            ELSE filesCh' = filesCh /\ missed' = missed \cup {<<s, p>>}
         /\ UNCHANGED <<clock, session, modFiles, listener, event>>
  BY RecordAdds
<1>2. SideTypes /\ OneBefore /\ LastIsLatest /\ OneEar /\ ListFollows
  BY DEF SideInv
<1>3. \A t \in SideSessions, q \in Paths :
         last'[t][q] = IF t = s /\ q = p THEN c ELSE last[t][q]
  BY <1>1, <1>2 DEF SideTypes
<1>4. \A t \in SideSessions, q \in Paths :
         OfSession(files', q, t) = IF t = s /\ q = p THEN OfSession(files, p, s) \cup {row}
                                   ELSE OfSession(files, q, t)
  BY <1>1 DEF OfSession, OfPath
<1>5. \A t \in SideSessions, q \in Paths :
         InitialVersion(q, t)' = {f \in OfSession(files', q, t) : f.version = Initial}
  BY DEF InitialVersion, ListFilesBySession, OfSession, OfPath
<1>6. \A t \in SideSessions, q \in Paths :
         InitialVersion(q, t)' =
            IF t = s /\ q = p /\ OfSession(files, p, s) = {} THEN {row} ELSE InitialVersion(q, t)
  <2> SUFFICES ASSUME NEW t \in SideSessions, NEW q \in Paths
               PROVE  InitialVersion(q, t)' =
                        IF t = s /\ q = p /\ OfSession(files, p, s) = {} THEN {row}
                        ELSE InitialVersion(q, t)
    OBVIOUS
  <2>1. InitialVersion(q, t) = {f \in OfSession(files, q, t) : f.version = Initial}
    BY InitialVersionIs
  <2>2. InitialVersion(q, t)' = {f \in OfSession(files', q, t) : f.version = Initial}
    BY <1>5
  <2>3. CASE t = s /\ q = p
    <3>1. OfSession(files', q, t) = OfSession(files, q, t) \cup {row}
      BY <1>4, <2>3
    <3>2. CASE OfSession(files, p, s) = {}
      BY <1>1, <2>2, <2>3, <3>1, <3>2
    <3>3. CASE OfSession(files, p, s) # {}
      <4>1. row.version # Initial
        BY <1>1, <3>3
      <4> QED
        BY <2>1, <2>2, <2>3, <3>1, <3>3, <4>1
    <3> QED
      BY <3>2, <3>3
  <2>4. CASE ~(t = s /\ q = p)
    <3>1. OfSession(files', q, t) = OfSession(files, q, t)
      BY <1>4, <2>4
    <3> QED
      BY <2>1, <2>2, <2>4, <3>1
  <2> QED
    BY <2>3, <2>4
<1>7. SideTypes'
  <2>1. filesCh \in Seq(files') /\ row \in files'
    BY <1>1, <1>2 DEF SideTypes
  <2>2. filesCh' \in Seq(files')
    BY <1>1, <2>1, AppendProperties
  <2>3. last' \in [SideSessions -> [Paths -> Contents \cup {Unchanged}]]
    BY <1>1, <1>2 DEF SideTypes
  <2>4. files' \subseteq SideRows /\ \A f \in files' : f.at <= clock
    BY <1>1, <1>2 DEF SideTypes
  <2> QED
    BY <1>1, <1>2, <2>2, <2>3, <2>4 DEF SideTypes
<1>8. OneBefore'
  <2> SUFFICES ASSUME NEW t \in SideSessions, NEW q \in Paths
               PROVE  /\ OfSession(files', q, t) # {} => InitialVersion(q, t)' # {}
                      /\ \A f, g \in InitialVersion(q, t)' : f = g
    BY DEF OneBefore
  <2>1. /\ OfSession(files, q, t) # {} => InitialVersion(q, t) # {}
        /\ \A f, g \in InitialVersion(q, t) : f = g
    BY <1>2 DEF OneBefore
  <2> QED
    BY <1>4, <1>6, <2>1
<1>9. LastIsLatest'
  <2> SUFFICES ASSUME NEW t \in SideSessions, NEW q \in Paths, OfSession(files', q, t) # {}
               PROVE  \E r \in OfSession(files', q, t) :
                         /\ r.content = last'[t][q]
                         /\ \A g \in OfSession(files', q, t) : g.at <= r.at
    BY DEF LastIsLatest
  <2>1. CASE t = s /\ q = p
    <3>1. \A g \in OfSession(files', q, t) : g.at <= row.at
      <4>1. \A g \in files' : g.at <= clock
        BY <1>1, <1>7 DEF SideTypes
      <4> QED
        BY <1>1, <4>1 DEF OfSession, OfPath
    <3>2. row \in OfSession(files', q, t)
      BY <1>1, <2>1 DEF OfSession, OfPath
    <3>3. row.content = last'[t][q]
      BY <1>1, <1>3, <2>1
    <3> QED
      BY <3>1, <3>2, <3>3
  <2>2. CASE ~(t = s /\ q = p)
    <3>1. OfSession(files', q, t) = OfSession(files, q, t) /\ last'[t][q] = last[t][q]
      BY <1>3, <1>4, <2>2
    <3>2. \E r \in OfSession(files, q, t) :
             r.content = last[t][q] /\ \A g \in OfSession(files, q, t) : g.at <= r.at
      BY <1>2, <3>1 DEF LastIsLatest
    <3> QED
      BY <3>1, <3>2
  <2> QED
    BY <2>1, <2>2
<1>10. OneEar'
  BY <1>1, <1>2 DEF OneEar
<1>11. ListFollows'
  <2> SUFFICES ASSUME NEW q \in Paths, <<session, q>> \notin missed'
               PROVE  /\ \A i \in Coming(q)' : (\A j \in Coming(q)' : j <= i) =>
                            filesCh'[i].content = last'[session][q]
                      /\ \A i \in Coming(q)' : filesCh'[i].version = Initial =>
                            modFiles[q] = Unchanged
                      /\ CameOf(q)' => SideTells(event, q)'
                      /\ Coming(q)' = {} /\ ~CameOf(q)' => modFiles[q] = Due(q)'
    BY <1>1 DEF ListFollows
  <2>1. session \in SideSessions /\ filesCh \in Seq(files) /\ event \in files \cup {NoRow}
    BY <1>2 DEF SideTypes
  <2>2. <<session, q>> \notin missed
    BY <1>1
  <2>3. /\ \A i \in Coming(q) : (\A j \in Coming(q) : j <= i) =>
              filesCh[i].content = last[session][q]
        /\ \A i \in Coming(q) : filesCh[i].version = Initial => modFiles[q] = Unchanged
        /\ CameOf(q) => SideTells(event, q)
        /\ Coming(q) = {} /\ ~CameOf(q) => modFiles[q] = Due(q)
    BY <1>2, <2>2 DEF ListFollows
  <2>4. CameOf(q)' <=> CameOf(q)
    BY <1>1 DEF CameOf
  <2>5. CASE ~(session = s /\ q = p)
    <3>1. last'[session][q] = last[session][q]
      BY <1>3, <2>1, <2>5
    <3>2. InitialVersion(q, session)' = InitialVersion(q, session)
      BY <1>1, <1>6, <2>1, <2>5
    <3>3. Due(q)' = Due(q)
      BY <1>1, <3>1, <3>2 DEF Due
    <3>4. Coming(q)' = Coming(q) /\ \A i \in Coming(q) : filesCh'[i] = filesCh[i]
      <4>1. CASE filesCh' = filesCh
        BY <1>1, <4>1 DEF Coming
      <4>2. CASE filesCh' = Append(filesCh, row)
        <5>1. /\ Len(filesCh') = Len(filesCh) + 1 /\ filesCh'[Len(filesCh) + 1] = row
              /\ \A i \in 1..Len(filesCh) : filesCh'[i] = filesCh[i]
              /\ DOMAIN filesCh' = 1..Len(filesCh') /\ DOMAIN filesCh = 1..Len(filesCh)
              /\ Len(filesCh) \in Nat
          BY <2>1, <4>2, AppendProperties
        <5> QED
          BY <1>1, <2>5, <5>1 DEF Coming
      <4> QED
        BY <1>1, <4>1, <4>2
    <3>5. CameOf(q) => SideTells(event, q)'
      BY <1>1, <2>3, <3>1 DEF SideTells
    <3> QED
      BY <2>3, <2>4, <3>1, <3>3, <3>4, <3>5
  <2>6. CASE session = s /\ q = p
    <3>1. listener = "subscribed" /\ filesCh' = Append(filesCh, row)
      BY <1>1, <2>6
    <3>2. event = NoRow
      BY <1>2, <3>1 DEF OneEar
    <3>3. /\ Len(filesCh') = Len(filesCh) + 1 /\ filesCh'[Len(filesCh) + 1] = row
          /\ \A i \in 1..Len(filesCh) : filesCh'[i] = filesCh[i]
          /\ DOMAIN filesCh' = 1..Len(filesCh') /\ DOMAIN filesCh = 1..Len(filesCh)
          /\ Len(filesCh) \in Nat
      BY <2>1, <3>1, AppendProperties
    <3>4. Coming(q)' = Coming(q) \cup {Len(filesCh) + 1}
      BY <1>1, <2>6, <3>3 DEF Coming
    <3>5. \A i \in Coming(q) : i \in 1..Len(filesCh) /\ filesCh'[i] = filesCh[i]
      BY <3>3 DEF Coming
    <3>6. \A i \in Coming(q)' : (\A j \in Coming(q)' : j <= i) =>
             filesCh'[i].content = last'[session][q]
      <4> SUFFICES ASSUME NEW i \in Coming(q)', \A j \in Coming(q)' : j <= i
                   PROVE  filesCh'[i].content = last'[session][q]
        OBVIOUS
      <4>1. i = Len(filesCh) + 1
        <5>1. Len(filesCh) + 1 <= i
          BY <3>4
        <5>2. i \in Coming(q) => i <= Len(filesCh)
          BY <3>5
        <5> QED
          BY <3>3, <3>4, <3>5, <5>1, <5>2
      <4> QED
        BY <1>1, <1>3, <2>1, <2>6, <3>3, <4>1
    <3>7. OfSession(files, p, s) = {} => modFiles[q] = Unchanged
      <4> SUFFICES ASSUME OfSession(files, p, s) = {} PROVE modFiles[q] = Unchanged
        OBVIOUS
      <4>1. Coming(q) = {}
        <5>1. \A i \in DOMAIN filesCh : filesCh[i] \in files
          BY <2>1, <3>3
        <5> QED
          BY <2>6, <5>1 DEF Coming, OfSession, OfPath
      <4>2. ~CameOf(q)
        BY <3>2 DEF CameOf
      <4>3. InitialVersion(q, session) = {}
        BY <2>6, InitialVersionIs
      <4> QED
        BY <2>3, <4>1, <4>2, <4>3 DEF Due
    <3>8. \A i \in Coming(q)' : filesCh'[i].version = Initial => modFiles[q] = Unchanged
      BY <1>1, <2>3, <3>3, <3>4, <3>5, <3>7
    <3>9. ~CameOf(q)'
      BY <1>1, <3>2 DEF CameOf
    <3> QED
      BY <3>4, <3>6, <3>8, <3>9
  <2> QED
    BY <2>5, <2>6
<1> QED
  BY <1>7, <1>8, <1>9, <1>10, <1>11 DEF SideInv

LEMMA SideTickStep ==
  ASSUME SideInv, Tick
  PROVE  SideInv'
<1>1. clock' = clock + 1 /\ UNCHANGED <<files, session, modFiles, listener, filesCh, event, last, missed>>
  BY DEF Tick, list, ear
<1>2. SideTypes /\ OneBefore /\ LastIsLatest /\ OneEar /\ ListFollows
  BY DEF SideInv
<1>3. SideTypes'
  <2>1. clock' \in Nat
    BY <1>1, <1>2 DEF SideTypes
  <2>2. \A f \in files : f.at <= clock'
    BY <1>1, <1>2 DEF SideTypes, SideRows
  <2> QED
    BY <1>1, <1>2, <2>1, <2>2 DEF SideTypes
<1>4. OneBefore' /\ LastIsLatest'
  BY <1>1, RecordsStay
<1>5. OneEar'
  BY <1>1, <1>2 DEF OneEar
<1>6. ListFollows'
  <2>1. \A p : Due(p)' = Due(p)
    BY <1>1, DueStays
  <2> QED
    BY <1>1, <1>2, <2>1 DEF ListFollows, Coming, CameOf, SideTells
<1> QED
  BY <1>3, <1>4, <1>5, <1>6 DEF SideInv

LEMMA ReceiveStep ==
  ASSUME SideInv, Receive
  PROVE  SideInv'
<1>1. /\ listener = "subscribed" /\ filesCh # <<>> /\ listener' = "got"
      /\ event' = Head(filesCh) /\ filesCh' = <<>>
      /\ missed' = missed \cup {<<filesCh[i].session, filesCh[i].path>> : i \in 2..Len(filesCh)}
      /\ UNCHANGED <<files, clock, session, modFiles, last>>
  BY DEF Receive, list
<1>2. SideTypes /\ OneBefore /\ LastIsLatest /\ OneEar /\ ListFollows
  BY DEF SideInv
<1>3. /\ filesCh \in Seq(files) /\ DOMAIN filesCh = 1..Len(filesCh)
      /\ Len(filesCh) \in Nat /\ Len(filesCh) >= 1
      /\ Head(filesCh) = filesCh[1] /\ filesCh[1] \in files
  BY <1>1, <1>2, LenProperties, HeadTailProperties DEF SideTypes
<1>4. SideTypes'
  <2>1. filesCh' \in Seq(files) /\ event' \in files
    BY <1>1, <1>3
  <2> QED
    BY <1>1, <1>2, <2>1 DEF SideTypes
<1>5. OneBefore' /\ LastIsLatest'
  BY <1>1, RecordsStay
<1>6. filesCh[1] # NoRow
  BY <1>2, <1>3 DEF SideTypes, SideRows, NoRow, NoVersion
<1>7. OneEar'
  BY <1>1, <1>3, <1>6 DEF OneEar
<1>8. ListFollows'
  <2> SUFFICES ASSUME NEW p \in Paths, <<session, p>> \notin missed'
               PROVE  /\ Coming(p)' = {}
                      /\ CameOf(p)' => SideTells(event, p)'
                      /\ ~CameOf(p)' => modFiles[p] = Due(p)'
    BY <1>1 DEF ListFollows
  <2>1. Coming(p)' = {}
    BY <1>1 DEF Coming
  <2>2. /\ \A i \in Coming(p) : (\A j \in Coming(p) : j <= i) =>
              filesCh[i].content = last[session][p]
        /\ \A i \in Coming(p) : filesCh[i].version = Initial => modFiles[p] = Unchanged
        /\ Coming(p) = {} /\ ~CameOf(p) => modFiles[p] = Due(p)
    BY <1>1, <1>2 DEF ListFollows
  <2>3. \A i \in Coming(p) : i = 1
    <3> SUFFICES ASSUME NEW i \in Coming(p), i # 1 PROVE FALSE
      OBVIOUS
    <3>1. i \in 2..Len(filesCh) /\ filesCh[i].session = session /\ filesCh[i].path = p
      BY <1>3 DEF Coming
    <3>2. <<session, p>> \in {<<filesCh[k].session, filesCh[k].path>> : k \in 2..Len(filesCh)}
      BY <3>1
    <3> QED
      BY <1>1, <3>2
  <2>4. CameOf(p)' <=> 1 \in Coming(p)
    BY <1>1, <1>3, <1>6 DEF CameOf, Coming
  <2>5. CameOf(p)' => SideTells(event, p)'
    <3> SUFFICES ASSUME 1 \in Coming(p)
                 PROVE  /\ filesCh[1].content = last[session][p]
                        /\ filesCh[1].version = Initial => modFiles[p] = Unchanged
      BY <1>1, <1>3, <2>4 DEF SideTells
    <3> QED
      BY <2>2, <2>3
  <2>6. Due(p)' = Due(p)
    BY <1>1, DueStays
  <2>7. ~CameOf(p)
    BY <1>1, <1>2 DEF OneEar, CameOf
  <2>8. ~CameOf(p)' => Coming(p) = {}
    BY <2>3, <2>4
  <2> QED
    BY <2>1, <2>2, <2>5, <2>6, <2>7, <2>8
<1> QED
  BY <1>4, <1>5, <1>7, <1>8 DEF SideInv

LEMMA HandleFileStep ==
  ASSUME SideInv, HandleFile
  PROVE  SideInv'
<1>1. /\ listener = "got" /\ event' = NoRow
      /\ IF event.session = session THEN Process(event) /\ listener' = "again"
         ELSE modFiles' = modFiles /\ listener' = "gone"
      /\ UNCHANGED <<files, clock, session, filesCh, last, missed>>
  BY DEF HandleFile
<1>2. SideTypes /\ OneBefore /\ LastIsLatest /\ OneEar /\ ListFollows
  BY DEF SideInv
<1>3. event \in files /\ event # NoRow /\ event \in SideRows /\ filesCh = <<>>
  BY <1>1, <1>2 DEF SideTypes, OneEar
<1>4. modFiles' \in [Paths -> Contents \cup {Unchanged}]
  BY <1>1, <1>2, <1>3 DEF SideTypes, SideRows, Process
<1>5. SideTypes'
  BY <1>1, <1>2, <1>4 DEF SideTypes
<1>6. OneBefore' /\ LastIsLatest'
  BY <1>1, RecordsStay
<1>7. OneEar'
  BY <1>1, <1>3 DEF OneEar
<1>8. ListFollows'
  <2> SUFFICES ASSUME NEW p \in Paths, <<session, p>> \notin missed
               PROVE  modFiles'[p] = Due(p)
    <3>1. \A p \in Paths : Coming(p)' = {} /\ ~CameOf(p)' /\ Due(p)' = Due(p)
      BY <1>1, <1>3, DueStays DEF Coming, CameOf
    <3> QED
      BY <1>1, <3>1 DEF ListFollows
  <2>1. /\ CameOf(p) => SideTells(event, p)
        /\ Coming(p) = {} /\ ~CameOf(p) => modFiles[p] = Due(p)
    BY <1>2 DEF ListFollows
  <2>2. Coming(p) = {}
    BY <1>3 DEF Coming
  <2>3. CASE ~CameOf(p)
    <3>1. modFiles'[p] = modFiles[p]
      BY <1>1, <1>2, <1>3, <2>3 DEF CameOf, Process, SideTypes
    <3> QED
      BY <2>1, <2>2, <2>3, <3>1
  <2>4. CASE CameOf(p)
    <3>1. event.session = session /\ event.path = p
      BY <2>4 DEF CameOf
    <3>2. event.content = last[session][p] /\ (event.version = Initial => modFiles[p] = Unchanged)
      BY <2>1, <2>4 DEF SideTells
    <3>3. session \in SideSessions /\ event \in OfSession(files, p, session)
      BY <1>2, <1>3, <3>1 DEF SideTypes, OfSession, OfPath
    <3>4. InitialVersion(p, session) # {}
      BY <1>2, <3>3 DEF OneBefore
    <3>5. CASE event.version = Initial
      <4>1. modFiles'[p] = Unchanged
        BY <1>1, <3>1, <3>2, <3>5 DEF Process
      <4>2. event \in InitialVersion(p, session)
        BY <3>3, <3>5, InitialVersionIs
      <4> QED
        BY <3>2, <4>1, <4>2 DEF Due
    <3>6. CASE event.version # Initial
      <4>1. modFiles' = [modFiles EXCEPT ![p] =
                            IF \E i \in InitialVersion(p, session) : i.content = event.content
                            THEN Unchanged ELSE event.content]
        BY <1>1, <3>1, <3>4, <3>6 DEF Process
      <4> QED
        BY <1>2, <3>2, <3>4, <4>1 DEF Due, SideTypes
    <3> QED
      BY <3>5, <3>6
  <2> QED
    BY <2>3, <2>4
<1> QED
  BY <1>5, <1>6, <1>7, <1>8 DEF SideInv

LEMMA LogPageStep ==
  ASSUME SideInv, LogPageTakes
  PROVE  SideInv'
<1>1. /\ listener = "got" /\ listener' = "gone" /\ event' = NoRow
      /\ missed' = missed \cup {<<event.session, event.path>>}
      /\ UNCHANGED <<files, clock, session, modFiles, filesCh, last>>
  BY DEF LogPageTakes, list
<1>2. SideTypes /\ OneBefore /\ LastIsLatest /\ OneEar /\ ListFollows
  BY DEF SideInv
<1>3. SideTypes'
  BY <1>1, <1>2 DEF SideTypes
<1>4. OneBefore' /\ LastIsLatest'
  BY <1>1, RecordsStay
<1>5. OneEar' /\ filesCh = <<>> /\ event # NoRow
  BY <1>1, <1>2 DEF OneEar
<1>6. ListFollows'
  <2> SUFFICES ASSUME NEW p \in Paths, <<session, p>> \notin missed'
               PROVE  modFiles[p] = Due(p)
    <3>1. \A p \in Paths : Coming(p)' = {} /\ ~CameOf(p)' /\ Due(p)' = Due(p)
      BY <1>1, <1>5, DueStays DEF Coming, CameOf
    <3> QED
      BY <1>1, <3>1 DEF ListFollows
  <2>1. <<session, p>> \notin missed /\ ~CameOf(p)
    BY <1>1 DEF CameOf
  <2>2. Coming(p) = {}
    BY <1>5 DEF Coming
  <2> QED
    BY <1>2, <2>1, <2>2 DEF ListFollows
<1> QED
  BY <1>3, <1>4, <1>5, <1>6 DEF SideInv

LEMMA AgainStep ==
  ASSUME SideInv, SubscribeAgain
  PROVE  SideInv'
<1>1. /\ listener = "again" /\ listener' = "subscribed"
      /\ UNCHANGED <<files, clock, session, modFiles, filesCh, event, last, missed>>
  BY DEF SubscribeAgain, list
<1>2. SideTypes /\ OneBefore /\ LastIsLatest /\ OneEar /\ ListFollows
  BY DEF SideInv
<1>3. SideTypes'
  BY <1>1, <1>2 DEF SideTypes
<1>4. OneBefore' /\ LastIsLatest'
  BY <1>1, RecordsStay
<1>5. OneEar'
  BY <1>1, <1>2 DEF OneEar
<1>6. ListFollows'
  <2>1. \A p : Due(p)' = Due(p)
    BY <1>1, DueStays
  <2> QED
    BY <1>1, <1>2, <2>1 DEF ListFollows, Coming, CameOf, SideTells
<1> QED
  BY <1>3, <1>4, <1>5, <1>6 DEF SideInv

\* What loading makes of a path of which one row of the session is later than all others.
LEMMA LoadedIsLast ==
  ASSUME SideInv, NEW s \in SideSessions, NEW p \in Paths, ~Unsure(p, s),
         NEW m \in Loaded(p, s)
  PROVE  m = IF \/ InitialVersion(p, s) = {}
                \/ \E i \in InitialVersion(p, s) : i.content = last[s][p]
             THEN Unchanged ELSE last[s][p]
<1>1. OneBefore /\ LastIsLatest /\ files \subseteq SideRows
  BY DEF SideInv, SideTypes
<1>2. PICK changed : changed = {f \in ListLatestSessionFiles(s) :
                          /\ f.path = p /\ f.version # Initial
                          /\ \E i \in InitialVersion(p, s) : i.content # f.content}
  OBVIOUS
<1>3. m \in IF changed = {} THEN {Unchanged} ELSE {f.content : f \in changed}
  BY <1>2 DEF Loaded
<1>4. \A f \in changed : f \in Latest(OfPath(files, p)) /\ f \in OfSession(files, p, s)
  <2> SUFFICES ASSUME NEW f \in changed
               PROVE  f \in Latest(OfPath(files, p)) /\ f \in OfSession(files, p, s)
    OBVIOUS
  <2>1. f.path = p /\ f.session = s /\ f \in UNION {Latest(OfPath(files, q)) : q \in Paths}
    BY <1>2 DEF ListLatestSessionFiles
  <2>2. PICK q \in Paths : f \in Latest(OfPath(files, q))
    BY <2>1
  <2>3. f \in files /\ f.path = q
    BY <2>2 DEF Latest, OfPath
  <2> QED
    BY <2>1, <2>2, <2>3 DEF OfSession, OfPath
<1>5. CASE OfSession(files, p, s) = {}
  <2>1. changed = {} /\ InitialVersion(p, s) = {}
    BY <1>4, <1>5, InitialVersionIs
  <2> QED
    BY <1>3, <2>1
<1>6. CASE OfSession(files, p, s) # {}
  <2>1. PICK f \in OfSession(files, p, s) : Latest(OfPath(files, p)) = {f}
    BY <1>6 DEF Unsure
  <2>2. PICK r \in OfSession(files, p, s) :
           r.content = last[s][p] /\ \A g \in OfSession(files, p, s) : g.at <= r.at
    BY <1>1, <1>6 DEF LastIsLatest
  <2>3. r = f
    <3>1. \A g \in OfPath(files, p) : g.at <= f.at
      BY <2>1 DEF Latest
    <3>2. f \in OfPath(files, p) /\ r \in OfPath(files, p)
      BY DEF OfSession
    <3>3. \A g \in OfPath(files, p) : g.at \in Nat
      BY <1>1 DEF OfPath, SideRows
    <3>4. f.at <= r.at
      BY <2>2
    <3>5. \A g \in OfPath(files, p) : g.at <= r.at
      BY <3>1, <3>2, <3>3, <3>4
    <3>6. r \in Latest(OfPath(files, p))
      BY <3>2, <3>5 DEF Latest
    <3> QED
      BY <2>1, <3>6
  <2>4. InitialVersion(p, s) # {} /\ \A g, h \in InitialVersion(p, s) : g = h
    BY <1>1, <1>6 DEF OneBefore
  <2>5. PICK i : InitialVersion(p, s) = {i}
    BY <2>4
  <2>6. \A g \in changed : g = f
    BY <1>4, <2>1
  <2>7. CASE changed = {}
    <3>1. f.version = Initial \/ i.content = f.content
      <4> SUFFICES ASSUME f.version # Initial, i.content # f.content PROVE FALSE
        OBVIOUS
      <4>1. f \in UNION {Latest(OfPath(files, q)) : q \in Paths}
        BY <2>1
      <4>2. f.session = s /\ f.path = p
        BY DEF OfSession, OfPath
      <4>3. f \in changed
        BY <1>2, <2>5, <4>1, <4>2 DEF ListLatestSessionFiles
      <4> QED
        BY <2>7, <4>3
    <3>2. f.version = Initial => f = i
      BY <2>5, InitialVersionIs
    <3>3. i.content = last[s][p]
      BY <2>2, <2>3, <3>1, <3>2
    <3> QED
      BY <1>3, <2>5, <2>7, <3>3
  <2>8. CASE changed # {}
    <3>1. f \in changed
      BY <2>6, <2>8
    <3>2. m = f.content
      BY <1>3, <2>6, <2>8
    <3>3. i.content # f.content
      BY <1>2, <2>5, <3>1
    <3> QED
      BY <2>2, <2>3, <2>5, <3>2, <3>3
  <2> QED
    BY <2>7, <2>8
<1> QED
  BY <1>5, <1>6

LEMMA SideSelectStep ==
  ASSUME SideInv, NEW s \in SideSessions, Select(s)
  PROVE  SideInv'
<1>1. /\ session' = s
      /\ modFiles' \in {m \in [Paths -> Contents \cup {Unchanged}] :
                           \A p \in Paths : m[p] \in Loaded(p, s)}
      /\ missed' = {x \in missed : x[1] # s}
                   \cup {<<s, p>> : p \in {q \in Paths : Unsure(q, s) \/ UnderWay(q, s)}}
      /\ UNCHANGED <<files, clock, listener, filesCh, event, last>>
  BY DEF Select, ear
<1>2. SideTypes /\ OneBefore /\ LastIsLatest /\ OneEar /\ ListFollows
  BY DEF SideInv
<1>3. modFiles' \in [Paths -> Contents \cup {Unchanged}] /\ \A p \in Paths : modFiles'[p] \in Loaded(p, s)
  BY <1>1
<1>4. SideTypes'
  BY <1>1, <1>2, <1>3 DEF SideTypes
<1>5. OneBefore' /\ LastIsLatest'
  BY <1>1, RecordsStay
<1>6. OneEar'
  BY <1>1, <1>2 DEF OneEar
<1>7. ListFollows'
  <2> SUFFICES ASSUME NEW p \in Paths, <<s, p>> \notin missed'
               PROVE  Coming(p)' = {} /\ ~CameOf(p)' /\ modFiles'[p] = Due(p)'
    BY <1>1 DEF ListFollows
  <2>1. ~Unsure(p, s) /\ ~UnderWay(p, s)
    BY <1>1
  <2>2. filesCh \in Seq(files) /\ \A f \in files : f # NoRow
    BY <1>2 DEF SideTypes, SideRows, NoRow, NoVersion
  <2>3. \A i \in DOMAIN filesCh : filesCh[i] \in ToSet(filesCh) \ {NoRow}
    BY <2>2 DEF ToSet
  <2>4. Coming(p)' = {}
    BY <1>1, <2>1, <2>3 DEF Coming, UnderWay
  <2>5. ~CameOf(p)'
    BY <1>1, <2>1 DEF CameOf, UnderWay
  <2>6. modFiles'[p] = IF \/ InitialVersion(p, s) = {}
                          \/ \E i \in InitialVersion(p, s) : i.content = last[s][p]
                       THEN Unchanged ELSE last[s][p]
    BY <1>3, <2>1, LoadedIsLast
  <2>7. InitialVersion(p, session)' = InitialVersion(p, s)
    BY <1>1 DEF InitialVersion, ListFilesBySession
  <2>8. Due(p)' = IF \/ InitialVersion(p, s) = {}
                     \/ \E i \in InitialVersion(p, s) : i.content = last[s][p]
                  THEN Unchanged ELSE last[s][p]
    BY <1>1, <2>7 DEF Due
  <2> QED
    BY <2>4, <2>5, <2>6, <2>8
<1> QED
  BY <1>4, <1>5, <1>6, <1>7 DEF SideInv

(* The inductive invariant of the sidebar, for any sessions, paths and contents. *)
THEOREM SidebarInvariance == SideSpec => []SideInv
<1>1. SideInit => SideInv
  BY SideStarts
<1>2. SideInv /\ [SideNext]_sideVars => SideInv'
  <2> SUFFICES ASSUME SideInv, [SideNext]_sideVars PROVE SideInv'
    OBVIOUS
  <2>1. CASE UNCHANGED sideVars
    <3>1. UNCHANGED <<files, clock, session, modFiles, listener, filesCh, event, last, missed>>
      BY <2>1 DEF sideVars, list, ear
    <3>2. SideTypes /\ OneEar /\ ListFollows
      BY DEF SideInv
    <3>3. OneBefore' /\ LastIsLatest'
      BY <3>1, RecordsStay
    <3>4. \A p : Due(p)' = Due(p)
      BY <3>1, DueStays
    <3>5. SideTypes' /\ OneEar'
      BY <3>1, <3>2 DEF SideTypes, OneEar
    <3>6. ListFollows'
      BY <3>1, <3>2, <3>4 DEF ListFollows, Coming, CameOf, SideTells
    <3> QED
      BY <3>3, <3>5, <3>6 DEF SideInv
  <2>2. CASE \E s \in SideSessions, p \in Paths, c \in Contents : Record(s, p, c)
    BY <2>2, RecordStep
  <2>3. CASE Tick
    BY <2>3, SideTickStep
  <2>4. CASE Receive
    BY <2>4, ReceiveStep
  <2>5. CASE HandleFile
    BY <2>5, HandleFileStep
  <2>6. CASE SubscribeAgain
    BY <2>6, AgainStep
  <2>7. CASE \E s \in SideSessions : Select(s)
    BY <2>7, SideSelectStep
  <2>8. CASE LogPageTakes
    BY <2>8, LogPageStep
  <2> QED
    BY <2>1, <2>2, <2>3, <2>4, <2>5, <2>6, <2>7, <2>8 DEF SideNext
<1> QED
  BY <1>1, <1>2, PTL DEF SideSpec

(* When no event is under way, the list has what differs from before the session. *)
THEOREM SidebarIsTrue == SideSpec => []SidebarShowsChanges
<1>1. SideInv => SidebarShowsChanges
  <2> SUFFICES ASSUME SideInv, filesCh = <<>>, event = NoRow, NEW p \in Paths,
                      <<session, p>> \notin missed
               PROVE  modFiles[p] = Due(p)
    BY DEF SidebarShowsChanges
  <2>1. Coming(p) = {} /\ ~CameOf(p)
    BY DEF Coming, CameOf
  <2> QED
    BY <2>1 DEF SideInv, ListFollows
<1> QED
  BY <1>1, SidebarInvariance, PTL
==============================================================================
