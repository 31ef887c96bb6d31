------------------------------ MODULE Sidebar ------------------------------
(***************************************************************************)
(* The list of changed files beside a conversation (sidebar.go): loaded from *)
(* the file history when a session is selected, and then kept by the         *)
(* history's events, one at a time.  Each event is awaited on a subscription *)
(* of its own, made by a command that the handling of the last one returns.   *)
(* The files are those of History; several sessions record the same paths.    *)
(* The sidebar is one and the same: the one that ctrl+n and the next prompt    *)
(* put in its place, beside whose subscription the old one's stands, is not    *)
(* followed.                                                                  *)
(***************************************************************************)
EXTENDS History, Sequences, SequencesExt

CONSTANTS
    Paths, Contents, SideSessions,
    Unchanged,      \* not a content: the path is not in the list
    MaxRecords,     \* bound: rows recorded
    SideMaxSelects, \* bound: turns to another session
    MaxSeconds      \* bound: of the clock

VARIABLES
    files,      \* the files table
    clock,
    session,    \* the sidebar's
    modFiles,   \* the content the diff of each path was last made to
    listener,   \* "subscribed", "got": an event is on its way to Update, "again": the
                \* command that subscribes anew is, "gone"
    filesCh,    \* events published to the subscription
    event,      \* the one on its way
    selects,    \* counter
    last,       \* history: the content last recorded, of every session and path
    missed      \* history: what the list cannot know, see SidebarShowsChanges

list == <<session, modFiles>>
ear == <<listener, filesCh, event>>
sideVars == <<files, clock, list, ear, selects, last, missed>>

NoRow == [version |-> NoVersion]

SideInit ==
    /\ files = {} /\ clock = 1
    /\ session \in SideSessions
    /\ modFiles = [p \in Paths |-> Unchanged]
    /\ listener = "subscribed" /\ filesCh = <<>> /\ event = NoRow
    /\ selects = 0
    /\ last = [s \in SideSessions |-> [p \in Paths |-> Unchanged]]
    /\ missed = {}

-----------------------------------------------------------------------------
(* The queries.  The latest row of a path is looked for among the rows of all   *)
(* sessions, and kept if it is of the one that asks.                          *)

ListFilesBySession(s) == {f \in files : f.session = s}

ListLatestSessionFiles(s) ==
    {f \in UNION {Latest(OfPath(files, p)) : p \in Paths} : f.session = s}

InitialVersion(p, s) == {f \in ListFilesBySession(s) : f.path = p /\ f.version = Initial}

-----------------------------------------------------------------------------

\* A tool records a file: as it was before its first change, then each change.
Record(s, p, c) ==
    LET first == OfSession(files, p, s) = {}
    IN \E wanted \in IF first THEN {Initial} ELSE NextVersions(files, p) :
          LET v == Insert(files, p, s, wanted, clock)
              row == Row(p, s, c, v, clock)
          IN /\ v # NoVersion /\ Cardinality(files) < MaxRecords
             /\ files' = files \cup {row}
             /\ last' = [last EXCEPT ![s][p] = c]
             /\ IF listener = "subscribed" THEN
                   filesCh' = Append(filesCh, row) /\ UNCHANGED missed
                ELSE UNCHANGED filesCh /\ missed' = missed \cup {<<s, p>>}
    /\ UNCHANGED <<clock, list, listener, event, selects>>

Tick ==
    /\ clock < MaxSeconds /\ clock' = clock + 1
    /\ UNCHANGED <<files, list, ear, selects, last, missed>>

-----------------------------------------------------------------------------

\* The command takes one event; what else was published to its channel is never read.
Receive ==
    /\ listener = "subscribed" /\ filesCh # <<>>
    /\ listener' = "got" /\ event' = Head(filesCh) /\ filesCh' = <<>>
    /\ missed' = missed \cup {<<filesCh[i].session, filesCh[i].path>> : i \in 2..Len(filesCh)}
    /\ UNCHANGED <<files, clock, list, selects, last>>

\* A plausible bug: a file that is back as it was stays in the list.
ProcessKeeps(f) ==
    modFiles' = IF f.version = Initial \/ InitialVersion(f.path, session) = {}
                   \/ \E i \in InitialVersion(f.path, session) : i.content = f.content
                THEN modFiles
                ELSE [modFiles EXCEPT ![f.path] = f.content]

\* processFileChanges
Process(f) ==
    modFiles' = IF f.version = Initial \/ InitialVersion(f.path, session) = {} THEN modFiles
                ELSE [modFiles EXCEPT ![f.path] =
                        IF \E i \in InitialVersion(f.path, session) : i.content = f.content
                        THEN Unchanged ELSE f.content]

\* An event of another session is the last one the sidebar waits for.
HandleFile ==
    /\ listener = "got" /\ event' = NoRow
    /\ IF event.session = session THEN Process(event) /\ listener' = "again"
       ELSE UNCHANGED modFiles /\ listener' = "gone"
    /\ UNCHANGED <<files, clock, session, filesCh, selects, last, missed>>

\* The log page is shown: the event goes to it, and the sidebar waits for no other.
LogPageTakes ==
    /\ listener = "got" /\ listener' = "gone" /\ event' = NoRow
    /\ missed' = missed \cup {<<event.session, event.path>>}
    /\ UNCHANGED <<files, clock, list, filesCh, selects, last>>

SubscribeAgain ==
    /\ listener = "again" /\ listener' = "subscribed"
    /\ UNCHANGED <<files, clock, list, filesCh, event, selects, last, missed>>

\* What loadModifiedFiles may make of a path: rows of one second come in any order, and
\* the last one counts.
Loaded(p, s) ==
    LET changed == {f \in ListLatestSessionFiles(s) :
                       /\ f.path = p /\ f.version # Initial
                       /\ \E i \in InitialVersion(p, s) : i.content # f.content}
    IN IF changed = {} THEN {Unchanged} ELSE {f.content : f \in changed}

\* Rows of one second, or of another session later or in the same: the path may come out
\* as it was, or not at all.
Unsure(p, s) == OfSession(files, p, s) # {} /\ Latest(OfPath(files, p)) \notin
                    {{f} : f \in OfSession(files, p, s)}

\* A row on its way when the list is loaded may be older than what is loaded.
UnderWay(p, s) ==
    \E f \in (ToSet(filesCh) \cup {event}) \ {NoRow} : f.session = s /\ f.path = p

\* SessionSelectedMsg
Select(s) ==
    /\ selects < SideMaxSelects /\ selects' = selects + 1
    /\ s # session /\ session' = s
    /\ modFiles' \in {m \in [Paths -> Contents \cup {Unchanged}] :
                        \A p \in Paths : m[p] \in Loaded(p, s)}
    /\ missed' = {x \in missed : x[1] # s}
                 \cup {<<s, p>> : p \in {q \in Paths : Unsure(q, s) \/ UnderWay(q, s)}}
    /\ UNCHANGED <<files, clock, ear, last>>

SideNext ==
    \/ \E s \in SideSessions, p \in Paths, c \in Contents : Record(s, p, c)
    \/ Tick \/ Receive \/ HandleFile \/ LogPageTakes \/ SubscribeAgain
    \/ \E s \in SideSessions : Select(s)

SideSpec == SideInit /\ [][SideNext]_sideVars

-----------------------------------------------------------------------------

Due(p) ==
    LET before == InitialVersion(p, session)
    IN IF before = {} \/ \E i \in before : i.content = last[session][p] THEN Unchanged
       ELSE last[session][p]

(* When no event is under way, the list has the files of its session that differ from
   what they were before it, each with the diff to its last content; of another session
   it has nothing.  Excepted are paths recorded while nobody listened: between an event
   and the next subscription, beside it in one channel, and for good after an event of
   another session or one that came while the log page was shown; and, when the list is
   loaded, paths with several rows in one second, a later row of another session, or an
   event under way, which may be older. *)
SidebarShowsChanges ==
    filesCh = <<>> /\ event = NoRow =>
        \A p \in Paths : <<session, p>> \in missed \/ modFiles[p] = Due(p)
=============================================================================
