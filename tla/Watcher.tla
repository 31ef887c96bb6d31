------------------------------ MODULE Watcher ------------------------------
(***************************************************************************)
(* internal/lsp/watcher: how a change of one file reaches a language        *)
(* server.  The event loop of WatchWorkspace takes the file system's        *)
(* events; a change or a creation waits in a timer, which a later event of  *)
(* the same kind replaces; the timer's goroutine tells the server.  A tool  *)
(* may open the file or report it changed at any time.                      *)
(***************************************************************************)
EXTENDS Naturals, Sequences, FiniteSets

CONSTANTS
    MaxChanges,          \* bound: contents the file ever has
    MaxEvents,           \* bound: events the loop has not taken yet
    MaxRegistrations,    \* bound: registrations of the server
    MaxTimers            \* bound: timers that wait or run at the same time

ASSUME TimersAssumption == MaxTimers \in Nat

None == 0                \* no file, no timer, no text: contents count from 1
Kinds == {"change", "create", "delete"}
Timers == 1..MaxTimers   \* names for timers; a name is used again when it is free
Loop == MaxTimers + 1    \* the event loop's goroutine
ToolClient == MaxTimers + 2  \* a tool's, or the one that preloads files
Goroutines == Timers \cup {Loop, ToolClient}

VARIABLES
    disk,        \* the file's content, None when there is no file
    changes,     \* contents so far
    events,      \* what fsnotify has seen and the loop has not
    loop,        \* the loop: "select", an event it handles, or "ended"
    registrations,  \* the kinds each asks for, none if it does not match the file
    isOpen,      \* the file is in Client.openFiles
    text,        \* goroutine -> content it has read and not yet sent
    debounceMap, \* kind of report -> the timer in the map
    armed,       \* timers not yet fired: [kind, id]
    firing,      \* timer goroutines: [kind, id, at]
    watchTold,     \* the file as the server was last told
    watchExcused   \* history: reports overlapped, or the server asked not to be told

events_ == <<disk, changes, events>>
loop_ == <<loop, registrations>>
client_ == <<isOpen, text, watchTold, watchExcused>>
timers_ == <<debounceMap, armed, firing>>
watchVars == <<events_, loop_, client_, timers_>>

WatchInit ==
    /\ disk = 1 /\ changes = 1 /\ events = <<>>
    /\ loop = "select" /\ registrations = <<>>
    /\ isOpen = FALSE /\ watchTold = 1 /\ watchExcused = FALSE
    /\ text = [g \in Goroutines |-> None]
    /\ debounceMap = [k \in {"changed", "created"} |-> None]
    /\ armed = {} /\ firing = {}

-----------------------------------------------------------------------------
(* The file system. *)

NewContent(e) ==
    /\ changes < MaxChanges
    /\ changes' = changes + 1 /\ disk' = changes'
    /\ events' = Append(events, e)

FileChanges ==
    /\ Len(events) < MaxEvents
    /\ \/ disk # None /\ NewContent("write")
       \/ NewContent("create")               \* a new file, or one renamed onto it
       \/ /\ disk # None /\ disk' = None
          /\ \E e \in {"remove", "rename"} : events' = Append(events, e)
          /\ UNCHANGED changes
    /\ UNCHANGED <<loop_, client_, timers_>>

-----------------------------------------------------------------------------
(* The client: a goroutine reads the file, then sends what it read. *)

\* OpenFile and NotifyChange read before they send; nothing holds the file between.
Reads(g) ==
    /\ disk # None
    /\ text' = [text EXCEPT ![g] = disk]

Overlaps(g) == \E h \in DOMAIN text \ {g} : text[h] # None

\* What the server is told; a report while another goroutine holds a text overlaps it.
Tell(g, content) ==
    /\ watchTold' = content
    /\ watchExcused' = (watchExcused \/ Overlaps(g))

\* didOpen or didChange with the text read.
Sends(g) ==
    /\ text[g] # None
    /\ Tell(g, text[g])
    /\ isOpen' = TRUE
    /\ text' = [text EXCEPT ![g] = None]

\* didChangeWatchedFiles carries no text: the server looks at the file itself.  One that
\* has the file open has been told, and is left to look or to keep the text it has.
NotifyFileEvent(g, content) ==
    /\ Tell(g, content)
    /\ UNCHANGED <<isOpen, text>>

\* A tool: OpenFile, or NotifyChange of a file that is open; or preloading.
ToolReads ==
    /\ text[ToolClient] = None /\ Reads(ToolClient)
    /\ UNCHANGED <<events_, loop_, timers_, isOpen, watchTold, watchExcused>>

ToolSends == Sends(ToolClient) /\ UNCHANGED <<events_, loop_, timers_>>

-----------------------------------------------------------------------------
(* The timers. *)

FreeTimers == {t \in Timers : \A r \in armed \cup firing : r.id # t}
Free == CHOOSE t \in FreeTimers : TRUE

Without(k) == {r \in armed : ~(r.kind = k /\ r.id = debounceMap[k])}

\* A plausible bug: an event of a kind that already has a timer starts none.
DebounceOnce(k) ==
    IF debounceMap[k] # None
    THEN UNCHANGED timers_
    ELSE /\ armed' = armed \cup {[kind |-> k, id |-> Free]}
         /\ debounceMap' = [debounceMap EXCEPT ![k] = Free]
         /\ UNCHANGED firing

\* The timer in the map is stopped and replaced; one that has fired runs on.
Debounce(k) ==
    /\ FreeTimers # {}
    /\ armed' = Without(k) \cup {[kind |-> k, id |-> Free]}
    /\ debounceMap' = [debounceMap EXCEPT ![k] = Free]
    /\ UNCHANGED firing

Fire ==
    /\ \E r \in armed :
          /\ armed' = armed \ {r}
          /\ firing' = firing \cup {[kind |-> r.kind, id |-> r.id, at |-> "start"]}
    /\ UNCHANGED <<events_, loop_, client_, debounceMap>>

Goes(r, at) == firing' = (firing \ {r}) \cup {[r EXCEPT !.at = at]}

\* handleFileEvent in the timer's goroutine: didChange if the file is open.
HandleFileEvent(r) ==
    \/ /\ r.at = "start" /\ r.kind = "changed" /\ isOpen
       /\ \/ Reads(r.id) /\ Goes(r, "read")
          \/ disk = None /\ Goes(r, "cleanup") /\ UNCHANGED text
       /\ UNCHANGED <<isOpen, watchTold, watchExcused>>
    \/ /\ r.at = "read"
       /\ Sends(r.id) /\ Goes(r, "cleanup")
    \/ /\ r.at = "start" /\ ~(r.kind = "changed" /\ isOpen)
       /\ NotifyFileEvent(r.id, disk) /\ Goes(r, "cleanup")

Report ==
    /\ \E r \in firing : HandleFileEvent(r)
    /\ UNCHANGED <<events_, loop_, debounceMap, armed>>

\* Whatever timer the map holds by then is dropped from it, and not stopped.
Cleanup ==
    /\ \E r \in firing :
          /\ r.at = "cleanup"
          /\ firing' = firing \ {r}
          /\ debounceMap' = [debounceMap EXCEPT ![r.kind] = None]
    /\ UNCHANGED <<events_, loop_, client_, armed>>

-----------------------------------------------------------------------------
(* The event loop. *)

TakeEvent ==
    /\ loop = "select" /\ events # <<>>
    /\ loop' = IF Head(events) = "create" THEN "created" ELSE Head(events)
    /\ events' = Tail(events)
    /\ UNCHANGED <<disk, changes, registrations, client_, timers_>>

\* openMatchingFile: what the server wants open at once is opened, if it is not.
NewFile ==
    /\ loop = "created"
    /\ \/ /\ ~isOpen /\ Reads(Loop) /\ loop' = "opening"
       \/ loop' = "create" /\ UNCHANGED text
    /\ UNCHANGED <<events_, registrations, timers_, isOpen, watchTold, watchExcused>>

NewFileOpened ==
    /\ loop = "opening"
    /\ Sends(Loop) /\ loop' = "create"
    /\ UNCHANGED <<events_, registrations, timers_>>

\* isPathWatched: no registration watches everything, else the first that matches.
Matching == {i \in DOMAIN registrations : registrations[i] # {}}
WatchKind ==
    IF registrations = <<>> THEN Kinds
    ELSE UNION {registrations[i] : i \in {m \in Matching : \A n \in Matching : m <= n}}
IsPathWatched(kind) == kind \in WatchKind

Ignore == watchExcused' = TRUE /\ UNCHANGED <<isOpen, text, watchTold>> /\ UNCHANGED timers_

Dispatch ==
    /\ \/ /\ loop = "write" /\ IsPathWatched("change") /\ loop' = "select"
          /\ Debounce("changed") /\ UNCHANGED client_
       \/ /\ loop = "create" /\ IsPathWatched("create") /\ disk # None /\ loop' = "select"
          /\ Debounce("created") /\ UNCHANGED client_
       \/ /\ loop = "create" /\ disk = None /\ WatchKind # {}
          /\ loop' = "ended"            \* os.Stat fails and WatchWorkspace returns
          /\ UNCHANGED <<client_, timers_>>
       \/ /\ loop = "remove" /\ IsPathWatched("delete") /\ loop' = "select"
          /\ NotifyFileEvent(Loop, None) /\ UNCHANGED timers_
       \/ /\ loop = "rename" /\ IsPathWatched("delete") /\ loop' = "select"
          /\ NotifyFileEvent(Loop, None)
          /\ IF disk # None /\ IsPathWatched("create")
             THEN Debounce("created") ELSE UNCHANGED timers_
       \/ /\ \/ loop = "write" /\ ~IsPathWatched("change")
             \/ loop = "create" /\ ~IsPathWatched("create") /\ (disk # None \/ WatchKind = {})
             \/ loop \in {"remove", "rename"} /\ ~IsPathWatched("delete")
          /\ loop' = "select" /\ Ignore
    /\ UNCHANGED <<events_, registrations>>

AddRegistrations ==
    /\ Len(registrations) < MaxRegistrations
    /\ \E kinds \in {{}, {"change", "create"}, Kinds} :
          registrations' = Append(registrations, kinds)
    /\ UNCHANGED <<events_, loop, client_, timers_>>

\* The property is about behaviours without an excuse: they are followed up to one.
WatchNext ==
    /\ ~watchExcused
    /\ \/ FileChanges \/ ToolReads \/ ToolSends
       \/ Fire \/ Report \/ Cleanup
       \/ TakeEvent \/ NewFile \/ NewFileOpened \/ Dispatch \/ AddRegistrations

WatchSpec == WatchInit /\ [][WatchNext]_watchVars

-----------------------------------------------------------------------------
(* Every variable has its type. *)
WatchTypeOK ==
    /\ disk \in Nat /\ changes \in Nat \ {None}
    /\ events \in Seq({"write", "create", "remove", "rename"})
    /\ loop \in {"select", "write", "created", "opening", "create", "remove", "rename", "ended"}
    /\ registrations \in Seq(SUBSET Kinds)
    /\ isOpen \in BOOLEAN /\ watchTold \in Nat /\ watchExcused \in BOOLEAN
    /\ text \in [Goroutines -> Nat]
    /\ debounceMap \in [{"changed", "created"} -> Timers \cup {None}]
    /\ armed \subseteq [kind : {"changed", "created"}, id : Timers]
    /\ firing \subseteq [kind : {"changed", "created"}, id : Timers, at : {"start", "read", "cleanup"}]

-----------------------------------------------------------------------------
(* Properties. *)

AtRest ==
    /\ loop = "select" /\ events = <<>> /\ armed = {}
    /\ \A r \in firing : r.at = "cleanup"
    /\ \A g \in DOMAIN text : text[g] = None

(* Once the loop and the timers are at rest the server has been told of the   *)
(* last change, though timers replace each other and a late one takes its     *)
(* successor out of the map, unless two reports overlapped or the server      *)
(* had not asked for this kind of change.  Told is not given the text: of an  *)
(* open file that another is renamed onto, the server hears a creation only.  *)
NoChangeMissed == AtRest /\ ~watchExcused => watchTold = disk
=============================================================================
