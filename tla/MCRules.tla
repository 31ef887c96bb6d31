------------------------------ MODULE MCRules -------------------------------
(***************************************************************************)
(* Parts of the program with safety properties only.  They share no state  *)
(* and each is followed alone: the first state says which, and the others   *)
(* stay as they begin, at one of their first states.                        *)
(***************************************************************************)
EXTENDS Watcher, Sessions, Streams, ToolGate, Settings, Store, Bridge, Parts,
        Integers, Sequences, FiniteSets, TLC

CONSTANTS
    PatchFiles, Texts,
    EditsPaths, Gone, Starts, EditsRequests, Continued, Hidden, Ignored, LsIgnored,
    Limit, Questions, SayQuestions,
    chat1, chat2, talkA, talkB, f, g, a, b, x, u, s1, s2

VARIABLES
    part,
    patchOrig, patchText, index, updating, patchAt, actions, fuzz, patchOutcome,
    editsOrig, editsDisk, request, k, lines, sorted, editsAnswer, question, answer

Patch == INSTANCE PatchText WITH
    Files <- PatchFiles, orig <- patchOrig, text <- patchText, at <- patchAt,
    outcome <- patchOutcome
Edit == INSTANCE Edits WITH
    Paths <- EditsPaths, Requests <- EditsRequests, orig <- editsOrig, disk <- editsDisk,
    answer <- editsAnswer
Find == INSTANCE Search
Say == INSTANCE Conversions WITH
    Questions <- SayQuestions
Reach == INSTANCE Providers

patch == <<patchOrig, patchText, index, updating, patchAt, actions, fuzz, patchOutcome>>
edits == <<editsOrig, editsDisk, request, k, lines, sorted, editsAnswer>>
searching == <<question, answer>>
vars == <<part, watchVars, sessionVars, streamVars, gateVars, patch, guiVars, configVars, edits,
          partsVars, searching, storeVars>>

Init ==
    /\ part \in {"watch", "conv", "model", "gate", "patch", "gui", "config", "edits",
                "parts", "search", "convert", "client", "store"}
    /\ WatchInit
    /\ SessionInit
    /\ IF part = "model" THEN StreamInit
       ELSE StreamInit /\ client = "gemini" /\ mode = "send"
    /\ GateInit
    /\ IF part = "patch" THEN Patch!Init
       ELSE /\ patchOrig = <<>> /\ patchText = <<>> /\ index = 1 /\ updating = "" /\ patchAt = 0
            /\ actions = <<>> /\ fuzz = 0 /\ patchOutcome = "parsing"
    /\ GuiInit /\ (part = "gui" \/ talk = CHOOSE t \in Talks : TRUE)
    /\ ConfigInit /\ (part = "config" \/ (file = Absent /\ env = FALSE))
    /\ IF part = "edits" THEN Edit!Init
       ELSE /\ editsOrig = <<>> /\ editsDisk = <<>> /\ request = <<>> /\ k = 1
            /\ lines = <<>> /\ sorted = <<>> /\ editsAnswer = "none"
    /\ PartsInit /\ (part = "parts" \/ parts = <<>>)
    /\ IF part = "search" THEN Find!Init ELSE IF part = "convert" THEN Say!Init
       ELSE IF part = "client" THEN Reach!Init ELSE question = <<>> /\ answer = <<>>
    /\ StoreInit

Next ==
    /\ UNCHANGED part
    /\ \/ part = "watch" /\ WatchNext
          /\ UNCHANGED <<sessionVars, streamVars, gateVars, patch, guiVars, configVars, edits,
                         partsVars, searching, storeVars>>
       \/ part = "conv" /\ SessionNext
          /\ UNCHANGED <<watchVars, streamVars, gateVars, patch, guiVars, configVars, edits,
                         partsVars, searching, storeVars>>
       \/ part = "model" /\ StreamNext
          /\ UNCHANGED <<watchVars, sessionVars, gateVars, patch, guiVars, configVars, edits,
                         partsVars, searching, storeVars>>
       \/ part = "gate" /\ GateNext
          /\ UNCHANGED <<watchVars, sessionVars, streamVars, patch, guiVars, configVars, edits,
                         partsVars, searching, storeVars>>
       \/ part = "patch" /\ Patch!Next
          /\ UNCHANGED <<watchVars, sessionVars, streamVars, gateVars, guiVars, configVars, edits,
                         partsVars, searching, storeVars>>
       \/ part = "gui" /\ GuiNext
          /\ UNCHANGED <<watchVars, sessionVars, streamVars, gateVars, patch, configVars, edits,
                         partsVars, searching, storeVars>>
       \/ part = "config" /\ ConfigNext
          /\ UNCHANGED <<watchVars, sessionVars, streamVars, gateVars, patch, guiVars, edits,
                         partsVars, searching, storeVars>>
       \/ part = "edits" /\ Edit!Next
          /\ UNCHANGED <<watchVars, sessionVars, streamVars, gateVars, patch, guiVars, configVars,
                         partsVars, searching, storeVars>>
       \/ part = "parts" /\ PartsNext
          /\ UNCHANGED <<watchVars, sessionVars, streamVars, gateVars, patch, guiVars, configVars,
                         edits, searching, storeVars>>
       \/ part = "search" /\ Find!Next
          /\ UNCHANGED <<watchVars, sessionVars, streamVars, gateVars, patch, guiVars, configVars,
                         edits, partsVars, storeVars>>
       \/ part = "convert" /\ Say!Next
          /\ UNCHANGED <<watchVars, sessionVars, streamVars, gateVars, patch, guiVars, configVars,
                         edits, partsVars, storeVars>>
       \/ part = "client" /\ Reach!Next
          /\ UNCHANGED <<watchVars, sessionVars, streamVars, gateVars, patch, guiVars, configVars,
                         edits, partsVars, storeVars>>
       \/ part = "store" /\ StoreNext
          /\ UNCHANGED <<watchVars, sessionVars, streamVars, gateVars, patch, guiVars, configVars,
                         edits, partsVars, searching>>

Spec == Init /\ [][Next]_vars

-----------------------------------------------------------------------------
(* Instances.  Of the patch language: every update of one file f of up to three *)
(* lines, and what other things can stand in a patch.                         *)

Line(t, s) == [t |-> t, s |-> s]
Body == {Line(" ", "a"), Line(" ", " a"), Line("-", "a"), Line("-", "b"), Line("+", "b"),
         Line("@@", ""), Line("@@ ", "b"), Line("eof", "")}
Blocks == {<<Line("update", "f"), Line("-", "a")>>,
           <<Line("update", "f"), Line("move", "g"), Line("+", "b")>>,
           <<Line("update", "f"), Line("move", "g"), Line("move", "g")>>,
           <<Line("delete", "f")>>, <<Line("update", "g")>>,
           <<Line("add", "g"), Line("+", "a")>>, <<Line("add", "f")>>}
MCTexts == {<<Line("update", "f")>> \o p : p \in UNION {[1..n -> Body] : n \in 0..3}}
         \cup {p \o q : p \in Blocks, q \in Blocks \cup {<<>>}}
MCFiles == UNION {[1..n -> {"a", "b"}] : n \in 1..3}
         \cup {<<"a ", "b", "a">>, <<"a ", "b">>, <<"">>}

(* Of the bridge: two chats, of one conversation or of two.                   *)
MCTalks == {(chat1 :> talkA) @@ (chat2 :> talkA), (chat1 :> talkA) @@ (chat2 :> talkB)}

(* Of the settings: no file, one without settings, one that names a provider   *)
(* without a key, a complete one.                                             *)
Saved(m, e) == [kind |-> "json", model |-> m, entry |-> e, theme |-> Unset]
MCConfigFiles ==
    {[kind |-> "absent"], Saved(Unset, Unset), Saved(Unset, [key |-> "", url |-> ""]),
     Saved("own", [key |-> "k0", url |-> ""])}

(* Of the edits: every two edits of a file of up to two lines, one of them with *)
(* a character of two bytes, with positions before, in and past them, and every *)
(* two changes of whole files.                                               *)
MCStarts == {(f :> ls) @@ (g :> o) :
    ls \in {<< <<a, b>> >>, << <<b, a, u>> >>, << <<a>>, <<b>> >>, << <<a>>, <<>> >>,
            << <<a>>, <<b>>, <<>> >>},
    o \in {Gone, << <<a>> >>}}
Ends == {<<0, 0>>, <<0, 1>>, <<0, 2>>, <<1, 0>>, <<1, 1>>, <<2, 0>>, <<3, 0>>}
Ranges == {[sl |-> s[1], sc |-> s[2], el |-> e[1], ec |-> e[2], text |-> t] :
    s \in Ends, e \in Ends, t \in {<< <<>> >>, << <<x>>, <<>> >>}}
TextEdits == {e \in Ranges : e.sl < e.el \/ (e.sl = e.el /\ e.sc <= e.ec)}
OneEdit == [sl |-> 0, sc |-> 0, el |-> 0, ec |-> 1, text |-> << <<x>> >>]
TextOf(p, es) == [kind |-> "text", path |-> p, edits |-> es]
Documents ==
    {[kind |-> "create", path |-> p, options |-> o] : p \in {f, g}, o \in {"none", "ignore"}}
    \cup {[kind |-> "delete", path |-> p] : p \in {f, g}}
    \cup {[kind |-> "rename", path |-> f, to |-> g, options |-> o] :
             o \in {"none", "plain", "overwrite"}}
    \cup {TextOf(f, <<OneEdit>>), TextOf(g, <<OneEdit>>)}
MCRequests == {<<TextOf(f, <<e, d>>)>> : e, d \in TextEdits} \cup {<<c, d>> : c, d \in Documents}

(* Of the searches: a hidden directory (1), an ignored one (2), a file git ignores, files
   whose order differs by name, age and length of path, and at times one that is not plain. *)
Tree == << <<1, 3>>, <<3>>, <<2, 3>>, <<5, 3>>, <<5, 4>>, <<6, 4, 3>>, <<7>> >>
Ages == {[i \in 1..7 |-> i], [i \in 1..7 |-> 8 - i], [i \in 1..7 |-> 1]}
HitsOf == {[i \in 1..7 |-> 1], [i \in 1..7 |-> 2], [i \in 1..7 |-> i % 2]}
Asked(t, r, o, s, y, h, w) ==
    [tool |-> t, rg |-> r, root |-> o,
     files |-> {[path |-> Tree[i], age |-> y[i], git |-> i = 4, hits |-> h[i], how |-> w[i]] :
                   i \in s}]
AllPlain == [i \in 1..7 |-> "plain"]
OnesNot ==
    {[AllPlain EXCEPT ![i] = w] : i \in {2, 5}, w \in {"colon", "closed", "long", "removed"}}
MCQuestions ==
    {Asked(t, r, o, s, y, h, AllPlain) :
        t \in {"grep", "glob", "ls", "complete"}, r \in BOOLEAN,
        o \in {<<9>>, <<2, 9>>, <<9, 2>>}, s \in SUBSET (1..7), y \in Ages, h \in HitsOf}
    \cup {Asked("grep", r, <<9>>, s, y, h, w) :
             r \in BOOLEAN, s \in SUBSET (1..6), y \in Ages, h \in HitsOf, w \in OnesNot}

(* Of the conversions: two rounds of up to two calls each, of one tool or of two, with
   results or cut short, a summary anywhere behind the first message, and a picture;
   tools with schemas three deep; and four chunks. *)
Message == [role |-> "user", text |-> "", images |-> <<>>, calls |-> <<>>, results |-> <<>>,
            parts |-> TRUE]
Spoken(i) == [Message EXCEPT !.text = "please", !.images = i]
Callings(n) ==
    {<<>>} \cup {<<[id |-> n, name |-> "view", object |-> o]>> : o \in BOOLEAN}
    \cup {<<[id |-> n, name |-> "view", object |-> o],
            [id |-> n \o "'", name |-> w, object |-> TRUE]>> :
             o \in BOOLEAN, w \in {"view", "edit"}}
Round(n) ==
    {<<[Message EXCEPT !.role = "assistant", !.parts = FALSE]>>}
    \cup {IF c = <<>> THEN <<[Message EXCEPT !.role = "assistant", !.text = t]>>
          ELSE <<[Message EXCEPT !.role = "assistant", !.text = t, !.calls = c],
                 [Message EXCEPT !.role = "tool", !.results = [i \in DOMAIN c |-> c[i].id]]>> :
            t \in {"", "so"}, c \in Callings(n)}
Talks3 ==
    {<<Spoken(i)>> \o r \o s : i \in {<<"image/png", "image/jpeg">>}, r \in Round("r"), s \in Round("s")}
Summary == [Message EXCEPT !.role = "assistant", !.text = "all"]
WithSummary(t, p) ==
    IF p = 0 THEN t ELSE SubSeq(t, 1, p - 1) \o <<Summary>> \o SubSeq(t, p, Len(t))
MCMessages ==
    UNION {{[kind |-> "messages", provider |-> v, summary |-> p,
             msgs |-> WithSummary(t, p) \o <<Spoken(<<>>)>>] : p \in {0} \cup 2..(Len(t) + 1),
             v \in {"anthropic", "bedrock", "openai", "copilot", "gemini"}} : t \in Talks3}
Schema(t) == [type |-> t, listed |-> FALSE, required |-> {}, items |-> <<>>, properties |-> <<>>]
Leaves == {Schema(t) : t \in {"string", "number", "null"}}
          \cup {[Schema("string") EXCEPT !.listed = TRUE]}
Nest(set) ==
    Leaves \cup {[Schema("array") EXCEPT !.items = i] : i \in {<<>>} \cup {<<l>> : l \in set}}
    \cup {[Schema("object") EXCEPT !.properties = [p \in n |-> l], !.required = q] :
            <<n, q>> \in {<<{}, {}>>, <<{"p"}, {"p"}>>, <<{"p", "q"}, {}>>}, l \in set}
MCSchemas ==
    {[kind |-> "schema", provider |-> v,
      tool |-> [wrapped |-> w, parameters |-> ("a" :> l), required |-> r]] :
        v \in {"anthropic", "bedrock", "openai", "copilot", "gemini"}, w \in BOOLEAN,
        l \in Nest(Nest(Leaves)), r \in {{}, {"a"}}}
Piece(i, w) == [id |-> i, args |-> w]
Chunk(ps) == [pieces |-> ps, finish |-> FALSE]
SomeChunks ==
    {Chunk(<<>>), Chunk(<<Piece("c", <<>>), Piece("d", <<1>>)>>), Chunk(<<Piece("c", <<>>)>>),
     Chunk(<<Piece("d", <<1>>)>>), Chunk(<<Piece("", <<2>>)>>), Chunk(<<Piece("", <<3>>)>>)}
MCChunks ==
    UNION {{[kind |-> "chunks", chunks |-> IF e = "open" THEN c
                                           ELSE [c EXCEPT ![n].finish = TRUE]] :
              c \in [1..n -> SomeChunks], e \in {"open", "tool_calls"}} : n \in 1..4}
MCSayQuestions == MCMessages \cup MCSchemas \cup MCChunks

-----------------------------------------------------------------------------
(* Properties: those of the parts, where each is stated and explained.        *)

(* An accepted patch does to each file what its lines say. *)
PatchDoesWhatItSays == part = "patch" => Patch!PatchDoesWhatItSays
(* ClientsAreServedApart is the bridge's own. *)
(* The edits of a document are made where they stood before any was made. *)
EditsAreSimultaneous == part = "edits" => Edit!EditsAreSimultaneous
(* RowTellsAll is that of Parts: it reads no variable of another part. *)
(* An answer that does not say it is cut has every file that counts. *)
SearchTellsAll == part = "search" => Find!SearchTellsAll
(* What is converted for a provider, or from it, says all that was said. *)
ConversionsKeepAll == part = "convert" => Say!ConversionsKeepAll
(* What is configured for a provider reaches its client. *)
OptionsReach == part = "client" => Reach!OptionsReach
=============================================================================
