----------------------------- MODULE PatchText -----------------------------
(***************************************************************************)
(* internal/diff/patch.go: what a patch's text means.  TextToPatch reads    *)
(* the text line by line and finds, for each section of an update, where in *)
(* the file its old lines are: exactly, or but for white space.             *)
(* PatchToCommit then puts the new lines in their place.                    *)
(*                                                                         *)
(* A line of a patch is [t, s]: its marker and what follows it.  A file is  *)
(* the lines its content splits into, of which there is always one.         *)
(***************************************************************************)
EXTENDS Integers, SequencesExt

CONSTANTS
    Files,       \* contents a file may have: sequences of lines
    Texts        \* patches: sequences of lines between Begin and End Patch

VARIABLES
    orig,        \* path -> content, of the files there are
    text,        \* the patch
    index,       \* Parser.index, of the line to be read
    updating,    \* the path parseUpdateFile is at, or ""
    at,          \* its index into the file
    actions,     \* path -> its chunks, moved to, or the file it adds
    fuzz,
    outcome      \* "parsing", "parsed", "done", "error", "crashed" or "loops"

vars == <<orig, text, index, updating, at, actions, fuzz, outcome>>

Paths == {"f", "g"}
End == [t |-> "end", s |-> ""]

Init ==
    /\ \E file \in Files : orig = [p \in {"f"} |-> file]
    /\ \E body \in Texts : text = Append(body, End)
    /\ index = 1 /\ updating = "" /\ at = 0
    /\ actions = [p \in {} |-> <<>>] /\ fuzz = 0 /\ outcome = "parsing"

TrimRight(line) == IF line = "a " THEN "a" ELSE line
TrimSpace(line) == IF line \in {" a", "a "} THEN "a" ELSE line

\* strings.Join, then strings.Split: a content without lines is one empty line.
Joined(lines) == IF lines = <<>> THEN <<"">> ELSE lines

Marker(i) == text[i].t
OfFile == {"update", "delete", "add"}

-----------------------------------------------------------------------------
(* peekNextSection. *)

EndsSection == OfFile \cup {"end", "eof", "@@ ", "@@", "move"}
SectionEnd(from) ==
    CHOOSE i \in from..Len(text) :
       Marker(i) \in EndsSection /\ \A j \in from..(i - 1) : Marker(j) \notin EndsSection

Kept(lines, markers) ==
    LET chosen == SelectSeq(lines, LAMBDA l : l.t \in markers)
    IN [i \in DOMAIN chosen |-> chosen[i].s]
Old(lines) == Kept(lines, {" ", "-"})

\* A plausible bug: a chunk is said to be where its last deleted line is.
AfterDeleted(old, deleted) == Len(old)
OrigIndex(old, deleted) == Len(old) - Len(deleted)

\* The lines between two kept ones make a chunk.
Runs(lines) ==
    {r \in (DOMAIN lines) \X (DOMAIN lines) :
        /\ r[1] <= r[2] /\ \A i \in r[1]..r[2] : lines[i].t # " "
        /\ r[1] = 1 \/ lines[r[1] - 1].t = " "
        /\ r[2] = Len(lines) \/ lines[r[2] + 1].t = " "}
ChunkOf(lines, r) ==
    LET run == SubSeq(lines, r[1], r[2]) IN
    [at |-> OrigIndex(Old(SubSeq(lines, 1, r[2])), Kept(run, {"-"})),
     del |-> Kept(run, {"-"}), ins |-> Kept(run, {"+"})]
Chunks(lines) ==
    LET runs == SetToSortSeq(Runs(lines), LAMBDA r, q : r[1] < q[1])
    IN [i \in DOMAIN runs |-> ChunkOf(lines, runs[i])]

-----------------------------------------------------------------------------
(* findContext: where the old lines are, counted from 0, and how exactly. *)

NotFound == [at |-> -1, fuzz |-> 0]
Least(S) == CHOOSE i \in S : \A j \in S : i <= j

TryFindMatch(file, old, start) ==
    {i \in start..(Len(file) - Len(old)) : SubSeq(file, i + 1, i + Len(old)) = old}
TrimmedRight(lines) == [i \in DOMAIN lines |-> TrimRight(lines[i])]
Trimmed(lines) == [i \in DOMAIN lines |-> TrimSpace(lines[i])]

\* Both ways of trimming count the same, for the test of the looser passes on the
\* stricter one's example.
FindContextCore(file, old, start) ==
    LET exact == TryFindMatch(file, old, start)
        right == TryFindMatch(TrimmedRight(file), TrimmedRight(old), start)
        space == TryFindMatch(Trimmed(file), Trimmed(old), start)
    IN CASE old = <<>> -> [at |-> start, fuzz |-> 0]
         [] old # <<>> /\ exact # {} -> [at |-> Least(exact), fuzz |-> 0]
         [] old # <<>> /\ exact = {} /\ right # {} -> [at |-> Least(right), fuzz |-> 1]
         [] old # <<>> /\ exact = {} /\ right = {} /\ space # {} ->
               [at |-> Least(space), fuzz |-> 1]
         [] OTHER -> NotFound

\* At the end of the file first; elsewhere it counts as very inexact.
FindContext(file, old, start, eof) ==
    LET last == FindContextCore(file, old, Len(file) - Len(old))
        else_ == FindContextCore(file, old, start)
    IN CASE ~eof -> else_
         [] eof /\ last # NotFound -> last
         [] OTHER -> [else_ EXCEPT !.fuzz = @ + 10000]

-----------------------------------------------------------------------------
(* Parse. *)

Stops(how) == outcome' = how /\ UNCHANGED <<index, updating, at, actions, fuzz>>
Known(p) == p \in DOMAIN orig
Taken(p) == p \in DOMAIN actions
With(p, action) == [q \in DOMAIN actions \cup {p} |-> IF q = p THEN action ELSE actions[q]]

\* An update, with the place its file moves to.
ParseUpdate ==
    LET p == text[index].s  moves == Marker(index + 1) = "move" IN
    /\ Marker(index) = "update"
    /\ IF Taken(p) \/ ~Known(p) THEN Stops("error")
       ELSE /\ updating' = p /\ at' = 0
            /\ index' = IF moves THEN index + 2 ELSE index + 1
            /\ actions' = With(p, [kind |-> "update", chunks |-> <<>>,
                                   to |-> IF moves THEN text[index + 1].s ELSE p])
            /\ UNCHANGED <<fuzz, outcome>>

ParseDelete ==
    LET p == text[index].s IN
    /\ Marker(index) = "delete"
    /\ IF Taken(p) \/ ~Known(p) THEN Stops("error")
       ELSE /\ actions' = With(p, [kind |-> "delete"]) /\ index' = index + 1
            /\ UNCHANGED <<updating, at, fuzz, outcome>>

\* parseAddFile: up to the next file every line has to be one to add.
ParseAdd ==
    LET p == text[index].s
        next == Least({i \in (index + 1)..Len(text) : Marker(i) \in OfFile \cup {"end"}})
        lines == SubSeq(text, index + 1, next - 1)
    IN
    /\ Marker(index) = "add"
    /\ IF Taken(p) \/ Known(p) \/ \E i \in DOMAIN lines : lines[i].t # "+"
       THEN Stops("error")
       ELSE /\ actions' = With(p, [kind |-> "add", file |-> Joined(Kept(lines, {"+"}))])
            /\ index' = next
            /\ UNCHANGED <<updating, at, fuzz, outcome>>

ParseOther ==
    /\ Marker(index) \notin OfFile
    /\ Stops(IF Marker(index) = "end" THEN "parsed" ELSE "error")

Parse ==
    /\ outcome = "parsing" /\ updating = ""
    /\ ParseUpdate \/ ParseDelete \/ ParseAdd \/ ParseOther

\* Where the line after "@@ " is: before the index already, after it, or the same but
\* for white space.
Defined(file, def) ==
    LET before(How(_)) == \E i \in 1..at : How(file[i]) = How(def)
        after(How(_)) == {i \in (at + 1)..Len(file) : How(file[i]) = How(def)}
        same(l) == l
    IN CASE before(same) -> [at |-> at, fuzz |-> 0]
         [] ~before(same) /\ after(same) # {} -> [at |-> Least(after(same)), fuzz |-> 0]
         [] ~before(same) /\ after(same) = {} /\ before(TrimSpace) -> [at |-> at, fuzz |-> 0]
         [] ~before(TrimSpace) /\ after(same) = {} /\ after(TrimSpace) # {} ->
               [at |-> Least(after(TrimSpace)), fuzz |-> 1]
         [] OTHER -> [at |-> at, fuzz |-> 0]

Shifted(chunks, by) == [i \in DOMAIN chunks |-> [chunks[i] EXCEPT !.at = @ + by]]

\* One section of an update: its heading, its lines, and where they are.  Old lines
\* that are to end a shorter file are looked for before its first line.
Section ==
    LET file == orig[updating]
        headed == Marker(index) \in {"@@ ", "@@"}
        from == IF headed THEN index + 1 ELSE index
        def == IF Marker(index) = "@@ " THEN Defined(file, text[index].s)
               ELSE [at |-> at, fuzz |-> 0]
        end == SectionEnd(from)
        eof == Marker(end) = "eof"
        lines == SubSeq(text, from, end - 1)
        found == FindContext(file, Old(lines), def.at, eof)
    IN
    /\ outcome = "parsing" /\ updating # ""
    /\ Marker(index) \notin OfFile \cup {"end", "eof"}
    /\ CASE ~headed /\ at # 0 -> Stops("error")
         [] ~(~headed /\ at # 0) /\ eof /\ Len(Old(lines)) > Len(file) -> Stops("crashed")
         [] ~headed /\ at = 0 /\ lines = <<>> /\ ~eof -> Stops("loops")
         [] OTHER ->
               IF found.at = -1 THEN Stops("error")
               ELSE /\ actions' = [actions EXCEPT ![updating].chunks =
                                      @ \o Shifted(Chunks(lines), found.at)]
                    /\ at' = found.at + Len(Old(lines))
                    /\ fuzz' = fuzz + def.fuzz + found.fuzz
                    /\ index' = IF eof THEN end + 1 ELSE end
                    /\ UNCHANGED <<updating, outcome>>

Updated ==
    /\ outcome = "parsing" /\ updating # ""
    /\ Marker(index) \in OfFile \cup {"end", "eof"}
    /\ updating' = "" /\ UNCHANGED <<index, at, actions, fuzz, outcome>>

-----------------------------------------------------------------------------
(* PatchToCommit. *)

\* getUpdatedFile, chunk after chunk: nothing may lie before what is done already.
Put(file, done, chunk) ==
    IF chunk.at > Len(file) \/ done.at > chunk.at THEN [done EXCEPT !.ok = FALSE]
    ELSE [ok |-> done.ok, at |-> chunk.at + Len(chunk.del),
          dest |-> done.dest \o SubSeq(file, done.at + 1, chunk.at) \o chunk.ins]
GetUpdatedFile(file, chunks) ==
    LET done == FoldLeft(LAMBDA d, c : Put(file, d, c),
                         [ok |-> TRUE, at |-> 0, dest |-> <<>>], chunks)
    IN [ok |-> done.ok, file |-> Joined(done.dest \o SubSeq(file, done.at + 1, Len(file)))]

NewContent(p) ==
    CASE actions[p].kind = "update" -> GetUpdatedFile(orig[p], actions[p].chunks)
      [] actions[p].kind = "add" -> [ok |-> TRUE, file |-> actions[p].file]
      [] actions[p].kind = "delete" -> [ok |-> TRUE, file |-> <<>>]

\* More inexact than this the patch tool does not take it.
Accepted == fuzz <= 3

PatchToCommit ==
    /\ outcome = "parsed"
    /\ outcome' = IF Accepted /\ \A p \in DOMAIN actions : NewContent(p).ok
                  THEN "done" ELSE "error"
    /\ UNCHANGED <<orig, text, index, updating, at, actions, fuzz>>

Next ==
    \/ (Parse \/ Section \/ Updated) /\ UNCHANGED <<orig, text>>
    \/ PatchToCommit

Spec == Init /\ [][Next]_vars

-----------------------------------------------------------------------------
(* Properties. *)

Same(l, m, loose) == IF loose THEN TrimSpace(l) = TrimSpace(m) ELSE l = m

(* What a patch says, read line by line beside the file: kept lines are there *)
(* and stay, deleted ones are there and go, and only at a heading may lines   *)
(* of the file be passed over.                                                *)
RECURSIVE Readings(_, _, _, _)
Readings(lines, file, gap, loose) ==
    IF lines = <<>> THEN {file}
    ELSE LET l == Head(lines)
             there == file # <<>> /\ Same(Head(file), l.s, loose)
             next(rest) == Readings(Tail(lines), rest, FALSE, loose)
         IN UNION {
              IF l.t \in {"@@", "@@ "} THEN Readings(Tail(lines), file, TRUE, loose) ELSE {},
              IF l.t = "eof" /\ file = <<>> THEN next(file) ELSE {},
              IF l.t = " " /\ there THEN {<<Head(file)>> \o r : r \in next(Tail(file))} ELSE {},
              IF l.t = "-" /\ there THEN next(Tail(file)) ELSE {},
              IF l.t = "+" THEN {<<l.s>> \o r : r \in next(file)} ELSE {},
              IF gap /\ file # <<>>
              THEN {<<Head(file)>> \o r : r \in Readings(lines, Tail(file), TRUE, loose)} ELSE {}}

\* The lines of the text that are about the update of p.
About(p) ==
    LET first == CHOOSE i \in DOMAIN text : text[i] = [t |-> "update", s |-> p]
        from == IF Marker(first + 1) = "move" THEN first + 2 ELSE first + 1
        next == Least({i \in from..Len(text) : Marker(i) \in OfFile \cup {"end"}})
    IN SubSeq(text, from, next - 1)
Meant(p, loose) == {Joined(r) : r \in Readings(About(p), orig[p], TRUE, loose)}

Plain == /\ text[1] = [t |-> "update", s |-> "f"]
         /\ \A i \in 2..(Len(text) - 1) : Marker(i) \in {" ", "-", "+", "@@"}

(* An accepted patch does to each file what its lines say, up to white space  *)
(* where it was found inexactly, and a patch without hints that could be      *)
(* carried out exactly is carried out exactly.                                *)
PatchDoesWhatItSays ==
    /\ outcome = "done" =>
          \A p \in DOMAIN actions :
             actions[p].kind = "update" => NewContent(p).file \in Meant(p, fuzz > 0)
    /\ outcome \in {"done", "error", "crashed", "loops"} /\ Plain /\ Meant("f", FALSE) # {} =>
          outcome = "done" /\ fuzz = 0
=============================================================================
