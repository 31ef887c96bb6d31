----------------------------- MODULE FileTools -----------------------------
(***************************************************************************)
(* The tools that change files, internal/llm/tools/edit.go, write.go,      *)
(* patch.go and view.go, with the read records of file.go and the file     *)
(* history they keep.                                                      *)
(*                                                                         *)
(* Several sessions work in one directory, and so do editors and shell     *)
(* commands.  A call checks a file, reads it, waits (minutes, perhaps) for *)
(* a person's permission, writes, adds rows to the history and records the *)
(* file as read; each of these is a step of its own.  A content is a set   *)
(* of lines; an edit replaces one of them.                                 *)
(*                                                                         *)
(* One step stands for the two times write.go reads a file that is there,  *)
(* and for the listing of a path's versions and the insertion that follows *)
(* it: what another session adds between them is left out.                 *)
(***************************************************************************)
EXTENDS History, Sequences

CONSTANTS
    ToolSessions, Paths, Lines,
    ToolRequests,    \* session -> the calls its model may make, records as below
    Gone,        \* what is at a path where no file is
    None,        \* an empty old_string or new_string
    Starts,      \* what is in the directory at first
    MaxCalls,    \* bound: calls in all
    MaxOutside,  \* bound: failures of the database, and changes made by anything but
                 \*        these tools, with the seconds before them
    MaxTime      \* bound: the last second of the clock

(* A request is [tool |-> "view", path], [tool |-> "write", path, content],    *)
(* [tool |-> "edit", path, old, new] or [tool |-> "patch", changes], changes   *)
(* being a function from paths to [kind, del, ins, to].                        *)

Request(r) ==
    /\ r.tool \in {"view", "write", "edit", "patch"}
    /\ r.tool # "patch" => r.path \in Paths
    /\ r.tool = "write" => r.content \subseteq Lines
    /\ r.tool = "edit" => r.old \in Lines \cup {None} /\ r.new \in Lines \cup {None}
    /\ r.tool = "patch" =>
          /\ DOMAIN r.changes \subseteq Paths
          /\ \A p \in DOMAIN r.changes :
                /\ r.changes[p].kind \in {"update", "add", "remove", "move"}
                /\ r.changes[p].del \in Lines \cup {None}
                /\ r.changes[p].ins \in Lines \cup {None}
                /\ r.changes[p].to \in Paths \cup {None}

ASSUME ToolsAssumption ==
    /\ \A s \in ToolSessions : \A r \in ToolRequests[s] : Request(r)
    /\ Starts \subseteq [Paths -> {Gone} \cup SUBSET Lines]
    /\ MaxTime \in Nat

VARIABLES
    disk,     \* path -> its content, or Gone
    record,   \* path -> fileRecords' read time: "never", "stale" (older than the
              \*         file's modification time) or "fresh"
    files,    \* the rows of the files table
    now,      \* the clock, in the database's seconds
    call,     \* session -> the call it is in
    calls, outside, \* how many there have been
    known,    \* history: path -> is its content one that a tool has shown or
              \*          written ("seen"); if not, did it come while a tool was
              \*          at work on the file ("late") or not ("blind")
    outcome,  \* history: session -> how its last call ended
    replaced, \* history: session -> path -> what its call found there when it wrote
    missed    \* history: session -> the paths that changed between its call's last look
              \*          at them and its writing them

toolsVars == <<disk, record, files, now, call, calls, outside, known, outcome, replaced, missed>>

Idle == [at |-> "idle"]
Exists(p) == disk[p] # Gone

ToolsInit ==
    /\ disk \in Starts
    /\ \E viewed \in {{}, Paths} :
          record = [p \in Paths |-> IF p \in viewed /\ Exists(p) THEN "fresh" ELSE "never"]
    /\ files = {}
    /\ now = 0
    /\ call = [s \in ToolSessions |-> Idle]
    /\ calls = 0 /\ outside = 0
    /\ known = [p \in Paths |-> IF record[p] = "fresh" THEN "seen" ELSE "blind"]
    /\ outcome = [s \in ToolSessions |-> [tool |-> "none", answer |-> "none", wrote |-> FALSE]]
    /\ replaced = [s \in ToolSessions |-> [p \in Paths |-> Gone]]
    /\ missed = [s \in ToolSessions |-> {}]

-----------------------------------------------------------------------------
At(s, where) == call[s].at = where
Step(s, where) == call' = [call EXCEPT ![s].at = where]

Req(s) == call[s].req
Tool(s) == Req(s).tool
Targets(req) == IF req.tool = "patch" THEN DOMAIN req.changes ELSE {req.path}

\* A call is past its look at the file's time, and has not recorded it as read.
Working(p) == \E s \in ToolSessions :
    call[s].at \notin {"idle", "stat"} /\ p \in Targets(Req(s))

ReturnWith(s, answer) ==
    /\ call' = [call EXCEPT ![s] = Idle]
    /\ outcome' = [outcome EXCEPT ![s] =
           [tool |-> Tool(s), answer |-> answer, wrote |-> call[s].wrote]]

\* editTool.Run goes on to the next helper unless the last one returned an error
\* value: an error response is only looked at when it is replaceContent's.
Helpers(req) ==
    (IF req.old = None THEN <<"create">> ELSE <<>>)
    \o (IF req.new = None THEN <<"delete">> ELSE <<>>) \o <<"replace">>

NextHelper(s) == call' = [call EXCEPT ![s].at = "stat", ![s].helpers = Tail(@)]

\* A tool response with IsError set.
ErrorResponse(s) ==
    IF Tool(s) = "edit" /\ Len(call[s].helpers) > 1
    THEN NextHelper(s) /\ UNCHANGED outcome
    ELSE ReturnWith(s, "error")

Helper(s) == Head(call[s].helpers)

StartCall(s, req) ==
    /\ At(s, "idle") /\ calls < MaxCalls
    /\ calls' = calls + 1
    /\ call' = [call EXCEPT ![s] =
           [at |-> "stat", req |-> req, plan |-> <<>>, asking |-> {}, left |-> {},
            path |-> None, todo |-> <<>>, live |-> TRUE, wrote |-> FALSE,
            helpers |-> IF req.tool = "edit" THEN Helpers(req) ELSE <<"one">>]]
    /\ UNCHANGED <<disk, record, files, now, outside, known, outcome>>

Change(kind, old, new, to) == [kind |-> kind, old |-> old, new |-> new, to |-> to]

\* Asking for every change of the plan comes next.
Ask(s, plan) ==
    /\ call' = [call EXCEPT ![s].at = "ask", ![s].plan = plan,
                            ![s].asking = DOMAIN plan, ![s].left = DOMAIN plan]
    /\ UNCHANGED outcome

-----------------------------------------------------------------------------
(* Stat: the checks made before the file is read. *)

UpToDate(p) == Exists(p) /\ record[p] = "fresh"

\* A plausible bug: the modification time is not compared.
MayWriteUnchecked(req) == TRUE

\* write.go compares the time of a file that was never read as well.
MayWrite(req) == Exists(req.path) => record[req.path] = "fresh"

MayPatch(req) == \A p \in DOMAIN req.changes :
    IF req.changes[p].kind = "add" THEN ~Exists(p) ELSE UpToDate(p)

MayEdit(helper, req) ==
    IF helper = "create" THEN ~Exists(req.path) ELSE UpToDate(req.path)

Passes(s) ==
    CASE Tool(s) = "view" -> Exists(Req(s).path)
      [] Tool(s) = "write" -> MayWrite(Req(s))
      [] Tool(s) = "edit" -> MayEdit(Helper(s), Req(s))
      [] Tool(s) = "patch" -> MayPatch(Req(s))

\* Where write.go finds no file it reads none: the old content is empty, whatever comes
\* there before it writes.
FindsNone(s) == Tool(s) = "write" /\ ~Exists(Req(s).path)

Stat(s) ==
    /\ At(s, "stat")
    /\ IF ~Passes(s) THEN ErrorResponse(s)
       ELSE IF ~FindsNone(s) THEN Step(s, "read") /\ UNCHANGED outcome
       ELSE LET p == Req(s).path
            IN Ask(s, [q \in {p} |-> Change("write", {}, Req(s).content, p)])
    /\ UNCHANGED <<disk, record, files, now, calls, outside, known>>

-----------------------------------------------------------------------------
(* Read: the file is loaded and the change worked out. *)

Text(p) == IF Exists(p) THEN disk[p] ELSE {}
Line(l) == IF l = None THEN {} ELSE {l}

\* old_string is in the content, and only once.  The empty string is found at
\* both ends of a content that is not empty.
Unique(content, old) == IF old = None THEN content = {} ELSE old \in content

Replaced(content, del, ins) == (content \ Line(del)) \cup Line(ins)

ReadWrite(s) ==
    LET p == Req(s).path
        new == Req(s).content
    IN IF Exists(p) /\ disk[p] = new THEN ErrorResponse(s)
       ELSE Ask(s, [q \in {p} |-> Change("write", Text(p), new, p)])

ReadEdit(s) ==
    LET p == Req(s).path
        old == Req(s).old
        new == Replaced(Text(p), old, Req(s).new)
        change(kind) == [q \in {p} |-> Change(kind, Text(p), new, p)]
    IN \/ Helper(s) = "create"
          /\ Ask(s, [q \in {p} |-> Change("create", {}, Line(Req(s).new), p)])
       \/ Helper(s) = "delete" /\ Exists(p) /\ Unique(Text(p), old)
          /\ Ask(s, change("delete"))
       \/ Helper(s) = "replace" /\ Exists(p) /\ Unique(Text(p), old) /\ new # Text(p)
          /\ Ask(s, change("write"))
       \/ Helper(s) = "delete" /\ Exists(p) /\ ~Unique(Text(p), old)
          /\ ErrorResponse(s)
       \/ Helper(s) = "replace" /\ Exists(p) /\ (~Unique(Text(p), old) \/ new = Text(p))
          /\ ErrorResponse(s)
       \* os.ReadFile fails, with an error value
       \/ Helper(s) # "create" /\ ~Exists(p) /\ ReturnWith(s, "failed")

\* TextToPatch finds the lines to delete, PatchToCommit makes the new contents.
ReadPatch(s) ==
    LET changes == Req(s).changes
        loaded == {p \in DOMAIN changes : changes[p].kind # "add"}
        fits == \A p \in loaded : changes[p].del = None \/ changes[p].del \in Text(p)
        after(p) ==
            CASE changes[p].kind = "remove" -> {}
              [] changes[p].kind = "add" -> Line(changes[p].ins)
              [] OTHER -> Replaced(Text(p), changes[p].del, changes[p].ins)
        before(p) == IF changes[p].kind = "add" THEN {} ELSE Text(p)
    IN IF \E p \in loaded : ~Exists(p) THEN ReturnWith(s, "failed")
       ELSE IF ~fits THEN ErrorResponse(s)
       ELSE Ask(s, [p \in DOMAIN changes |->
                       Change(changes[p].kind, before(p), after(p), changes[p].to)])

\* View shows the text; its record follows after the language servers were told.
ReadView(s) ==
    LET p == Req(s).path IN
    IF Exists(p)
    THEN /\ call' = [call EXCEPT ![s].at = "rows", ![s].path = p, ![s].left = {p}]
         /\ UNCHANGED outcome
         /\ known' = [known EXCEPT ![p] = "seen"]
    ELSE ReturnWith(s, "failed") /\ UNCHANGED known

Read(s) ==
    /\ At(s, "read")
    /\ \/ Tool(s) = "view" /\ ReadView(s)
       \/ Tool(s) = "write" /\ ReadWrite(s) /\ UNCHANGED known
       \/ Tool(s) = "edit" /\ ReadEdit(s) /\ UNCHANGED known
       \/ Tool(s) = "patch" /\ ReadPatch(s) /\ UNCHANGED known
    /\ UNCHANGED <<disk, record, files, now, calls, outside>>

-----------------------------------------------------------------------------
(* Permission, one request per changed file, in the order of a Go map. *)

\* A plausible bug: a change is made as soon as it is approved.
ApproveOne(s) ==
    /\ At(s, "ask")
    /\ \E p \in call[s].asking :
          call' = [call EXCEPT ![s].asking = @ \ {p}, ![s].at = "apply"]
    /\ UNCHANGED <<disk, record, files, now, calls, outside, known, outcome>>

Approve(s) ==
    /\ At(s, "ask")
    /\ \E p \in call[s].asking :
          call' = [call EXCEPT ![s].asking = @ \ {p},
                               ![s].at = IF call[s].asking = {p} THEN "apply" ELSE "ask"]
    /\ UNCHANGED <<disk, record, files, now, calls, outside, known, outcome>>

\* Request returns false: ErrorPermissionDenied, an error value.
Deny(s) ==
    /\ ~At(s, "idle") /\ call[s].asking # {}
    /\ ReturnWith(s, "denied")
    /\ UNCHANGED <<disk, record, files, now, calls, outside, known>>

-----------------------------------------------------------------------------
(* Apply: the files are written, one after the other. *)

\* A change gives the file a new modification time.
Touched(ps) == [p \in Paths |-> IF p \in ps /\ record[p] # "never" THEN "stale" ELSE record[p]]

\* new: a function from the paths written to their contents
Put(s, new) ==
    /\ disk' = [p \in Paths |-> IF p \in DOMAIN new THEN new[p] ELSE disk[p]]
    /\ record' = Touched(DOMAIN new)
    /\ known' = [p \in Paths |-> IF p \in DOMAIN new THEN "seen" ELSE known[p]]

Fails(s, new) ==
    /\ Put(s, new)
    /\ call' = [call EXCEPT ![s] = Idle]
    /\ outcome' = [outcome EXCEPT ![s] =
           [tool |-> Tool(s), answer |-> "error", wrote |-> call[s].wrote \/ DOMAIN new # {}]]

Wrote(s, p, new) ==
    /\ Put(s, new)
    /\ call' = [call EXCEPT ![s].wrote = TRUE,
           ![s].at = IF call[s].left = {p} THEN "store" ELSE @,
           ![s].left = IF @ = {p} THEN DOMAIN call[s].plan ELSE @ \ {p}]
    /\ UNCHANGED outcome

ApplyTo(s, p) ==
    LET c == call[s].plan[p]
        moved == [q \in {p, c.to} |-> IF q = p THEN Gone ELSE c.new]
    IN \/ c.kind \notin {"remove", "move"} /\ Wrote(s, p, [q \in {p} |-> c.new])
       \/ c.kind = "remove" /\ Exists(p) /\ Wrote(s, p, [q \in {p} |-> Gone])
       \/ c.kind = "move" /\ Exists(p) /\ Wrote(s, p, moved)
       \* os.Remove fails; what was written stays
       \/ c.kind = "remove" /\ ~Exists(p) /\ Fails(s, <<>>)
       \/ c.kind = "move" /\ ~Exists(p) /\ Fails(s, [q \in {c.to} |-> c.new])

Apply(s) ==
    /\ At(s, "apply")
    /\ \E p \in call[s].left \ call[s].asking : ApplyTo(s, p)
    /\ UNCHANGED <<files, now, calls, outside>>

-----------------------------------------------------------------------------
(* Store: the history of each changed file, then its read record.          *)
(* A database call fails once the turn's context is cancelled, or when the *)
(* database is locked.                                                     *)

First(content) == <<[content |-> content, first |-> TRUE]>>
Version(content) == <<[content |-> content, first |-> FALSE]>>
If(condition, seq) == IF condition THEN seq ELSE <<>>

\* What GetByPathAndSession's row says the file was; the zero File when there is none.
Recalled(s, p) ==
    LET mine == OfSession(files, p, s)
    IN IF mine = {} THEN {{}} ELSE {f.content : f \in Latest(mine)}

\* A plausible bug: what somebody else made of the file is not kept.
RowsWithoutOld(s, p, recalled) ==
    LET new == call[s].plan[p]
        unknown == OfSession(files, p, s) = {}
    IN If(unknown, First(new.old)) \o Version(new.new)

\* The rows a change adds.  deleteContent and a patch that removes the file
\* add an empty content; the created file's own row is added unasked.
Rows(s, p, recalled) ==
    LET c == call[s].plan[p]
        unknown == OfSession(files, p, s) = {}
        old == If(unknown, First(c.old)) \o If(recalled # c.old, Version(c.old))
        after == IF c.kind \in {"delete", "remove"} THEN {} ELSE c.new
    IN (CASE c.kind = "create" -> First({})
          [] c.kind = "add" -> <<>>
          [] OTHER -> old) \o Version(after)

Store(s) ==
    /\ At(s, "store")
    /\ \E p \in call[s].left : \E recalled \in Recalled(s, p) :
          call' = [call EXCEPT ![s].at = "rows", ![s].path = p,
                               ![s].todo = Rows(s, p, recalled)]
    /\ UNCHANGED <<disk, record, files, now, calls, outside, known, outcome>>

Wanted(s, p) ==
    IF Head(call[s].todo).first THEN {Initial} ELSE NextVersions(files, p)

\* A failing Create ends edit and write with an error value; other failures,
\* and those of patch, are only logged.
MustBeAdded(s) == Head(call[s].todo).first /\ Tool(s) # "patch"

\* After its Create has failed a patch does not store the version in between either.
Skipped(s) ==
    LET rows == call[s].todo
    IN IF Head(rows).first THEN <<rows[Len(rows)]>> ELSE Tail(rows)

\* One row, if one of the three versions is free.  Nothing else looks at the
\* clock, so this is where it may have moved on.  The list of versions is read in the
\* same step: only rows of other sessions could come between, and change the number
\* that is asked for.
AddRow(s) ==
    LET p == call[s].path IN
    /\ At(s, "rows") /\ call[s].todo # <<>>
    /\ now' \in now..MaxTime
    /\ \E wanted \in Wanted(s, p) :
          LET version == Insert(files, p, s, wanted, now') IN
          /\ files' = Added(files, p, s, Head(call[s].todo).content, version, now')
          /\ IF version = NoVersion /\ MustBeAdded(s) THEN ReturnWith(s, "failed")
             ELSE call' = [call EXCEPT ![s].todo = Tail(@)] /\ UNCHANGED outcome
    /\ UNCHANGED <<disk, record, calls, outside, known>>

\* The context is gone, for all the rows that are left, or the database is locked.
DatabaseFails(s) ==
    /\ At(s, "rows") /\ call[s].todo # <<>>
    /\ outside < MaxOutside
    /\ outside' = outside + 1
    /\ \/ MustBeAdded(s) /\ ReturnWith(s, "failed")
       \/ /\ ~MustBeAdded(s)
          /\ \E rest \in {<<>>, Skipped(s)} :
                call' = [call EXCEPT ![s].live = FALSE, ![s].todo = rest]
          /\ UNCHANGED outcome
    /\ UNCHANGED <<disk, record, files, now, calls, known>>

\* recordFileWrite and recordFileRead; then the next file, helper or the answer.
Record(s) ==
    LET p == call[s].path IN
    /\ At(s, "rows") /\ call[s].todo = <<>>
    /\ record' = [record EXCEPT ![p] = "fresh"]
    /\ \/ /\ call[s].left # {p}
          /\ call' = [call EXCEPT ![s].at = "store", ![s].left = @ \ {p}]
          /\ UNCHANGED outcome
       \/ /\ call[s].left = {p} /\ Len(call[s].helpers) > 1
          /\ NextHelper(s)
          /\ UNCHANGED outcome
       \/ /\ call[s].left = {p} /\ Len(call[s].helpers) = 1
          /\ ReturnWith(s, "ok")
    /\ UNCHANGED <<disk, files, now, calls, outside, known>>

-----------------------------------------------------------------------------
(* Everything else that happens in the directory. *)

Outside(p) ==
    /\ outside + now < MaxOutside
    /\ outside' = outside + 1
    /\ \E c \in ({Gone} \cup SUBSET Lines) \ {disk[p]} : disk' = [disk EXCEPT ![p] = c]
    /\ record' = Touched({p})
    /\ known' = [known EXCEPT ![p] = IF Working(p) THEN "late" ELSE "blind"]
    /\ UNCHANGED <<files, now, call, calls, outcome>>

Rest ==
    /\ \A s \in ToolSessions : At(s, "idle")
    /\ UNCHANGED toolsVars

Moves ==
    \/ \E s \in ToolSessions :
          \/ \E req \in ToolRequests[s] : StartCall(s, req)
          \/ Stat(s) \/ Read(s) \/ Approve(s) \/ Deny(s) \/ Apply(s)
          \/ Store(s) \/ AddRow(s) \/ DatabaseFails(s) \/ Record(s)
    \/ \E p \in Paths : Outside(p)
    \/ Rest

\* For the history variables: a step of s that writes its change of p, or looks at p; the
\* last look is at the time of a file that is to be new, and at the text of any other.
Writes(s, p) ==
    /\ At(s, "apply") /\ p \in call[s].left
    /\ At(s, "store")' \/ (At(s, "apply")' /\ p \notin call'[s].left)
Looks(s, p) ==
    \/ At(s, "stat") /\ ~At(s, "stat")'
    \/ /\ At(s, "read") /\ At(s, "ask")'
       /\ p \in DOMAIN call'[s].plan /\ call'[s].plan[p].kind \notin {"create", "add"}

\* A file the call is about changes otherwise.
Slips(s, p) ==
    /\ call[s].at \in {"read", "ask", "apply"} /\ Tool(s) # "view" /\ p \in Targets(Req(s))
    /\ disk'[p] # disk[p] /\ ~Writes(s, p)

Watches ==
    /\ replaced' = [s \in ToolSessions |-> [p \in Paths |->
           IF At(s, "idle")' THEN Gone ELSE IF Writes(s, p) THEN disk[p] ELSE replaced[s][p]]]
    /\ missed' = [s \in ToolSessions |-> {p \in Paths :
           ~At(s, "idle")' /\ ~Looks(s, p) /\ (p \in missed[s] \/ Slips(s, p))}]

ToolsNext == Moves /\ Watches

ToolsSpec == ToolsInit /\ [][ToolsNext]_toolsVars

-----------------------------------------------------------------------------
Places == {"stat", "read", "ask", "apply", "store", "rows"}
CallAnswers == {"none", "ok", "error", "failed", "denied"}
Changes == [kind : {"create", "delete", "write", "update", "add", "remove", "move"},
            old : SUBSET Lines, new : SUBSET Lines, to : Paths \cup {None}]
Plans == UNION {[ps -> Changes] : ps \in SUBSET Paths}
RowsToAdd == [content : SUBSET Lines, first : BOOLEAN]
HelperNames == {"one", "create", "delete", "replace"}
Calls == [at : Places, req : UNION {ToolRequests[s] : s \in ToolSessions}, plan : Plans,
          asking : SUBSET Paths, left : SUBSET Paths, path : Paths \cup {None},
          todo : Seq(RowsToAdd), live : BOOLEAN,
          wrote : BOOLEAN, helpers : Seq(HelperNames)]
FileRows == [path : Paths, session : ToolSessions, content : SUBSET Lines,
             version : Nat, at : Nat]
Outcomes == [tool : {"none", "view", "write", "edit", "patch"},
             answer : CallAnswers, wrote : BOOLEAN]

StateTypeOK ==
    /\ disk \in [Paths -> {Gone} \cup SUBSET Lines]
    /\ record \in [Paths -> {"never", "stale", "fresh"}]
    /\ known \in [Paths -> {"seen", "late", "blind"}]
    /\ call \in [ToolSessions -> {Idle} \cup Calls]
    /\ files \subseteq FileRows
    /\ outcome \in [ToolSessions -> Outcomes]
    /\ now \in Nat /\ calls \in Nat /\ outside \in Nat

(* Every variable has its type. *)
ToolsTypeOK ==
    /\ StateTypeOK
    /\ replaced \in [ToolSessions -> [Paths -> {Gone} \cup SUBSET Lines]]
    /\ missed \in [ToolSessions -> SUBSET Paths]

-----------------------------------------------------------------------------
(* Properties. *)

(* A tool never replaces or removes a content that nobody who works with the *)
(* tools has seen, unless it came while a call was at work on that file: the *)
(* time check of edit.go, write.go and patch.go against the one table of     *)
(* file.go.  The target of a move is the exception patch.go makes.           *)
OverwritesOnlyKnown ==
    [][\A s \in ToolSessions : \A p \in Paths :
          (/\ At(s, "apply") /\ disk'[p] # disk[p] /\ call'[s] # call[s]
           /\ p \in DOMAIN call[s].plan /\ Exists(p))
          => known[p] # "blind"]_toolsVars

(* A patch that is denied in any of its files has changed none of them.      *)
DeniedPatchChangesNothing ==
    \A s \in ToolSessions :
       outcome[s].tool = "patch" /\ outcome[s].answer = "denied" => ~outcome[s].wrote

\* A row that is as late as those of the session with the next three numbers:
\* after it createWithVersion's three attempts all fail.
Overtaken(s, p) ==
    \E f \in OfPath(files, p) : \A i \in 1..3 : \E g \in OfSession(files, p, s) :
        g.version = f.version + i /\ g.at <= f.at

\* The contents in a session's history of a file.
Stored(s, p) == {f.content : f \in OfSession(files, p, s)}

(* When a change has been stored, the session's history has the content that *)
(* it replaced on the disk and the content it wrote, so that it can be       *)
(* undone, whichever of edit.go, write.go and patch.go made it.  What is not *)
(* there: what came to the file between the call's last look at it and the   *)
(* write, while a person was asked, for that is overwritten and kept nowhere; *)
(* what a failing database call was to add; a row for which none of three    *)
(* numbers is free; and the text deleteContent leaves, for which it stores   *)
(* an empty one.  What was at the target of a move is not kept by patch.go.  *)
HistoryHasBoth ==
    \A s \in ToolSessions :
       (At(s, "rows") /\ call[s].todo = <<>> /\ call[s].live /\ Tool(s) # "view")
       => LET p == call[s].path
              c == call[s].plan[p]
          IN \/ /\ replaced[s][p] \in Stored(s, p) \cup {Gone} \/ p \in missed[s]
                /\ c.kind = "delete" \/ c.new \in Stored(s, p)
             \/ Overtaken(s, p)

(* What the tool's description promises for its special cases: a file is     *)
(* created with an empty old_string, text deleted with an empty new_string.  *)
(* A call that did so must not be answered with an error.                    *)
EditAnswersTrue ==
    \A s \in ToolSessions :
       outcome[s].tool = "edit" /\ outcome[s].answer = "error" => ~outcome[s].wrote

(* What the tool's description promises: all changes in one atomic operation. *)
(* An answer that the patch failed means that no file was changed.            *)
PatchIsAtomic ==
    \A s \in ToolSessions :
       outcome[s].tool = "patch" /\ outcome[s].answer = "error" => ~outcome[s].wrote
=============================================================================
