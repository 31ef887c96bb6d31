------------------------------- MODULE Edits -------------------------------
(***************************************************************************)
(* workspace/applyEdit: what a language server asks to change on disk,      *)
(* internal/lsp/util/edit.go.  A file is a sequence of lines, a line a       *)
(* sequence of bytes, which edit.go counts, while a server counts UTF-16     *)
(* units: client.go negotiates nothing else.  A character is one byte, or    *)
(* two and then one unit (others only make the two counts differ more).      *)
(* The last line of a file that ends with a newline is empty.  Line endings  *)
(* are the file's own (an edit of a \r\n file whose new text holds \r\n is   *)
(* left out).                                                                *)
(***************************************************************************)
EXTENDS Integers, Sequences, FiniteSetsExt, SequencesExt

CONSTANTS
    Paths,
    Gone,      \* the content of a path that is not there
    Continued, \* the bytes that are the second of a character
    Starts,    \* the files a request may find: path -> lines or Gone
    Requests   \* the changes a server may ask for, one after another

VARIABLES
    orig,      \* the files as the request found them
    disk,
    request,   \* the changes, in the order of ApplyWorkspaceEdit
    k,         \* the change at work
    lines,     \* applyTextEdits: the file's lines
    sorted,    \*   the edits left, in their order
    answer     \* "none", "applied" or "failed"

vars == <<orig, disk, request, k, lines, sorted, answer>>

NoLines == <<>>

Init ==
    /\ orig \in Starts /\ disk = orig
    /\ request = <<>> /\ k = 1
    /\ lines = NoLines /\ sorted = <<>>
    /\ answer = "none"

\* A change: [kind: "create", path, options], [kind: "delete", path],
\* [kind: "rename", path, to, options] or [kind: "text", path, edits]; the options
\* are "none", "plain", "overwrite" or "ignore".
Change == request[k]
Exists(p) == disk[p] # Gone

Receive ==
    /\ request = <<>>
    /\ \E r \in Requests : request' = r
    /\ UNCHANGED <<orig, disk, k, lines, sorted, answer>>

Working(kind) == answer = "none" /\ k <= Len(request) /\ Change.kind = kind

Fail == answer' = "failed" /\ UNCHANGED <<orig, disk, request, k, lines, sorted>>
ChangeFiles(d) ==
    /\ disk' = d /\ k' = k + 1
    /\ UNCHANGED <<orig, request, lines, sorted, answer>>

-----------------------------------------------------------------------------
(* applyDocumentChange.                                                      *)

Create ==
    /\ Working("create")
    /\ IF Change.options = "ignore" /\ Exists(Change.path) THEN ChangeFiles(disk)
       ELSE ChangeFiles([disk EXCEPT ![Change.path] = << <<>> >>])

Delete ==
    /\ Working("delete")
    /\ IF Exists(Change.path) THEN ChangeFiles([disk EXCEPT ![Change.path] = Gone]) ELSE Fail

Rename ==
    /\ Working("rename")
    /\ IF \/ ~Exists(Change.path)
          \/ Change.options \in {"plain", "ignore"} /\ Exists(Change.to)
       THEN Fail
       ELSE ChangeFiles([disk EXCEPT ![Change.to] = disk[Change.path], ![Change.path] = Gone])

-----------------------------------------------------------------------------
(* applyTextEdits.  An edit: [sl, sc, el, ec] and its text, as lines.        *)

Before(l, c, m, d) == l < m \/ (l = m /\ c < d)

RangesOverlap(e, f) ==
    ~Before(e.el, e.ec, f.sl, f.sc) /\ ~Before(f.el, f.ec, e.sl, e.sc)

\* A plausible bug: the edits from the first to the last.
EarlierFirst(e, f) == Before(e.sl, e.sc, f.sl, f.sc)

LaterFirst(e, f) == Before(f.sl, f.sc, e.sl, e.sc)

\* ReadFile, the check for overlaps, the sort.
Open ==
    /\ Working("text") /\ lines = NoLines
    /\ LET edits == Change.edits IN
       IF ~Exists(Change.path) \/ \E i, j \in DOMAIN edits : i < j /\ RangesOverlap(edits[i], edits[j])
       THEN Fail
       ELSE /\ lines' = disk[Change.path]
            /\ sorted' = SortSeq(edits, LaterFirst)
            /\ UNCHANGED <<orig, disk, request, k, answer>>

Least(a, b) == IF a < b THEN a ELSE b

\* applyTextEdit.  A deletion that leaves nothing of a line takes the line with it.
AfterEdit(ls, e) ==
    LET first == ls[e.sl + 1]
        end == Least(e.el + 1, Len(ls))
        prefix == SubSeq(first, 1, Least(e.sc, Len(first)))
        suffix == SubSeq(ls[end], Least(e.ec, Len(ls[end])) + 1, Len(ls[end]))
        n == Len(e.text)
        middle == CASE e.text = << <<>> >> -> IF prefix \o suffix = <<>> THEN <<>>
                                              ELSE <<prefix \o suffix>>
                    [] e.text # << <<>> >> /\ n = 1 -> <<prefix \o e.text[1] \o suffix>>
                    [] OTHER -> <<prefix \o e.text[1]>> \o SubSeq(e.text, 2, n - 1)
                                \o <<e.text[n] \o suffix>>
    IN SubSeq(ls, 1, e.sl) \o middle \o SubSeq(ls, end + 1, Len(ls))

\* A file without text; no edit is left that could tell it from no line at all.
NoText == << <<>> >>

EditStep ==
    /\ Working("text") /\ lines # NoLines /\ sorted # <<>>
    /\ IF Head(sorted).sl >= Len(lines) THEN Fail
       ELSE LET after == AfterEdit(lines, Head(sorted)) IN
            /\ lines' = IF after = <<>> THEN NoText ELSE after
            /\ sorted' = Tail(sorted)
            /\ UNCHANGED <<orig, disk, request, k, answer>>

EndsWithNewline(ls) == Len(ls) > 1 /\ Last(ls) = <<>>

WriteBack ==
    /\ Working("text") /\ lines # NoLines /\ sorted = <<>>
    /\ disk' = [disk EXCEPT ![Change.path] =
                   IF EndsWithNewline(@) /\ ~EndsWithNewline(lines)
                   THEN Append(lines, <<>>) ELSE lines]
    /\ k' = k + 1 /\ lines' = NoLines
    /\ UNCHANGED <<orig, request, sorted, answer>>

\* HandleApplyEdit: {Applied: true}; an error earlier has answered {Applied: false}
\* and leaves what the changes before it did.
Answer ==
    /\ answer = "none" /\ request # <<>> /\ k > Len(request)
    /\ answer' = "applied"
    /\ UNCHANGED <<orig, disk, request, k, lines, sorted>>

Next == Receive \/ Create \/ Delete \/ Rename \/ Open \/ EditStep \/ WriteBack \/ Answer

Spec == Init /\ [][Next]_vars

-----------------------------------------------------------------------------
(* What the protocol says (protocol/tsprotocol.go, Position and TextEdit): the
   edits of a document refer to it as it was, a position counts the UTF-16 units
   before it, and one past the end of its line means that end. *)

Newline == "newline"
Flat(ls) == FlattenSeq([i \in DOMAIN ls |-> IF i = 1 THEN ls[i] ELSE <<Newline>> \o ls[i]])

\* How many bytes stand before the unit c of a line.
Bytes(line, c) ==
    LET starts == {i \in DOMAIN line : line[i] \notin Continued}
    IN IF c >= Cardinality(starts) THEN Len(line)
       ELSE (CHOOSE i \in starts : Cardinality({j \in starts : j < i}) = c) - 1

\* The place of a position in the flat text: how many bytes stand before it.
Place(ls, l, c) ==
    IF l >= Len(ls) THEN Len(Flat(ls))
    ELSE Len(Flat(SubSeq(ls, 1, l))) + (IF l = 0 THEN 0 ELSE 1) + Bytes(ls[l + 1], c)

LinesOf(text) ==
    FoldLeft(LAMBDA ls, c : IF c = Newline THEN Append(ls, <<>>)
                            ELSE [ls EXCEPT ![Len(ls)] = Append(@, c)],
             NoText, text)

\* Every byte stays unless an edit covers it, and every new text stands where
\* its edit begins.
AllAtOnce(ls, edits) ==
    LET text == Flat(ls)
        from(e) == Place(ls, e.sl, e.sc)
        to(e) == Place(ls, e.el, e.ec)
        inserted(p) == FlattenSeq([i \in DOMAIN edits |->
                           IF from(edits[i]) = p THEN Flat(edits[i].text) ELSE <<>>])
        kept(p) == IF p < Len(text) /\ \A i \in DOMAIN edits :
                          ~(from(edits[i]) <= p /\ p < to(edits[i]))
                   THEN <<text[p + 1]>> ELSE <<>>
    IN LinesOf(FlattenSeq([i \in 1..(Len(text) + 1) |-> inserted(i - 1) \o kept(i - 1)]))

\* An edit begins or ends behind a character of two bytes, and edit.go counts both.
Miscounts(ls, l, c) == l < Len(ls) /\ Bytes(ls[l + 1], c) # Least(c, Len(ls[l + 1]))

\* Where the code departs from it: a position behind a character of more than one byte,
\* a deletion that empties a line, a range whose end lies on a line past the last one,
\* two edits that begin past the end of one line, a new text that ends a file without
\* the newline it had.
Departs(ls, edits) ==
    \/ \E i \in DOMAIN edits : \/ Miscounts(ls, edits[i].sl, edits[i].sc)
                               \/ Miscounts(ls, edits[i].el, edits[i].ec)
    \/ \E i \in DOMAIN edits :
          LET e == edits[i]
              end == Least(e.el + 1, Len(ls)) IN
          \/ e.el >= Len(ls) /\ e.ec < Len(Last(ls))
          \/ e.sl < Len(ls) /\ e.text = NoText
             /\ Least(e.sc, Len(ls[e.sl + 1])) = 0 /\ e.ec >= Len(ls[end])
    \/ \E i, j \in DOMAIN edits :
          i # j /\ Place(ls, edits[i].sl, edits[i].sc) = Place(ls, edits[j].sl, edits[j].sc)
    \/ EndsWithNewline(ls) /\ ~EndsWithNewline(AllAtOnce(ls, edits))

\* What the first n changes should leave.
Said[n \in Nat] ==
    IF n = 0 THEN orig
    ELSE LET c == request[n]
             was == Said[n - 1] IN
         CASE c.kind = "create" -> [was EXCEPT ![c.path] =
                  IF c.options = "ignore" /\ @ # Gone THEN @ ELSE NoText]
           [] c.kind = "delete" -> [was EXCEPT ![c.path] = Gone]
           [] c.kind = "rename" -> [was EXCEPT ![c.to] = was[c.path], ![c.path] = Gone]
           [] c.kind = "text" -> [was EXCEPT ![c.path] = AllAtOnce(@, c.edits)]

(* A request answered {Applied: true} has left every file as its changes say,
   each edit made where it stood before the others moved it (edit.go: the
   reverse sort, the refusal of overlaps), but for the departures above, of which
   the first is the one to be met: where the text is not ASCII, an edit that a
   server places after such a character is made too far to the left, and says
   {Applied: true} all the same. *)
EditsAreSimultaneous ==
    (answer = "applied"
     /\ \A i \in DOMAIN request : request[i].kind = "text" =>
            ~Departs(Said[i - 1][request[i].path], request[i].edits)) =>
        disk = Said[Len(request)]
=============================================================================
