------------------------------- MODULE Store -------------------------------
(***************************************************************************)
(* The tables of sessions, messages and files with their triggers and keys,   *)
(* below the three services that write them and publish what they wrote.      *)
(* A statement is one step, its event another: between the two anybody may     *)
(* write.  A listener keeps what it is told.                                 *)
(*                                                                         *)
(* Foreign keys hold on the connection Connect set its pragmas on; on the      *)
(* others of the pool as the driver has it, which is external.  History has    *)
(* the versions of files, Sessions who changes a session, Parts the messages.  *)
(***************************************************************************)
EXTENDS Naturals, FiniteSets, Sequences, SequencesExt

CONSTANTS
    Callers,    \* goroutines that call the services
    SessionIds, RowIds,
    Values,     \* titles of sessions, contents of rows
    Nothing,    \* no row, no parent
    Enforced,   \* what foreign keys a connection may have: {TRUE} or {TRUE, FALSE}
    MaxOps      \* bound: calls

StoredSessions == [title : Values, parent : SessionIds \cup {Nothing}, count : Nat]
StoredRows == [table : {"messages", "files"}, session : SessionIds, value : Values]

\* Every id is of one thing, and a row is something.
ASSUME StoreAssumption ==
    /\ IsFiniteSet(RowIds) /\ SessionIds \cap RowIds = {}
    /\ Nothing \notin StoredSessions /\ Nothing \notin StoredRows
    /\ Enforced \subseteq BOOLEAN /\ MaxOps \in Nat

VARIABLES
    sessions,   \* [SessionIds -> Nothing or a session]
    dbRows,     \* [RowIds -> Nothing or a message or a file]
    call,       \* what each caller is about
    ops,
    dbTold,     \* what a listener has of each key, from events alone
    mixed,      \* history: keys with writes that overlapped, or gone without an event
    strays      \* history: rows written for a session that was not there

tables == <<sessions, dbRows>>
storeVars == <<tables, call, ops, dbTold, mixed, strays>>

CallIdle == [at |-> "idle", key |-> Nothing, left |-> <<>>, event |-> Nothing]
Keys == SessionIds \cup RowIds

\* What a row says to a listener: the number of a session's messages is not told anew.
Seen(k) ==
    IF k \in SessionIds
    THEN IF sessions[k] = Nothing THEN Nothing ELSE sessions[k].title
    ELSE IF dbRows[k] = Nothing THEN Nothing ELSE dbRows[k].value

StoreInit ==
    /\ sessions = [s \in SessionIds |-> Nothing] /\ dbRows = [r \in RowIds |-> Nothing]
    /\ call = [c \in Callers |-> CallIdle] /\ ops = 0
    /\ dbTold = [k \in Keys |-> Nothing] /\ mixed = {} /\ strays = {}

BeginCall(c) == call[c] = CallIdle /\ ops < MaxOps /\ ops' = ops + 1

\* A statement wrote key k, whose event is still to come.
Wrote(c, k, event, rest) ==
    /\ call' = [call EXCEPT ![c] =
                  [at |-> "publish", key |-> k, left |-> rest, event |-> event]]
    /\ mixed' = IF \E d \in Callers \ {c} : call[d].at = "publish" /\ call[d].key = k
                THEN mixed \cup {k} ELSE mixed

CallFails(c) ==
    /\ call' = [call EXCEPT ![c] = CallIdle]
    /\ UNCHANGED <<tables, dbTold, mixed, strays>>

\* The triggers of the table of messages.
Counted(r, by) ==
    IF dbRows[r].table # "messages" \/ sessions[dbRows[r].session] = Nothing THEN sessions
    ELSE [sessions EXCEPT ![dbRows[r].session].count = @ + by]

-----------------------------------------------------------------------------
(* Sessions.                                                                 *)

\* Create, CreateTitleSession and CreateTaskSession: an id is used once.
CreateSession(c, s, parent, title) ==
    /\ BeginCall(c)
    /\ sessions[s] = Nothing /\ dbTold[s] = Nothing /\ (\A d \in Callers : call[d].key # s)
    /\ {r \in RowIds : dbRows[r] # Nothing /\ dbRows[r].session = s} = {}
    /\ sessions' = [sessions EXCEPT ![s] = [title |-> title, parent |-> parent, count |-> 0]]
    /\ Wrote(c, s, title, <<>>)
    /\ UNCHANGED <<dbRows, dbTold, strays>>

\* A plausible bug: the whole session goes back, with the number it was read with.
UpdateWhole(c, s, title) ==
    /\ BeginCall(c)
    /\ IF sessions[s] = Nothing THEN CallFails(c)
       ELSE /\ \E n \in 0..sessions[s].count :
                  sessions' = [sessions EXCEPT ![s].title = title, ![s].count = n]
            /\ Wrote(c, s, title, <<>>)
            /\ UNCHANGED <<dbRows, dbTold, strays>>

\* Save leaves the number of messages alone, and fails for a session that is gone.
UpdateSession(c, s, title) ==
    /\ BeginCall(c)
    /\ IF sessions[s] = Nothing THEN CallFails(c)
       ELSE /\ sessions' = [sessions EXCEPT ![s].title = title]
            /\ Wrote(c, s, title, <<>>)
            /\ UNCHANGED <<dbRows, dbTold, strays>>

-----------------------------------------------------------------------------
(* Messages and files.                                                       *)

\* The same path is not written twice in one version.
Unique(table, s, value) ==
    IF table # "files" THEN TRUE
    ELSE {r \in RowIds : dbRows[r] = [table |-> table, session |-> s, value |-> value]} = {}

CreateRow(c, r, table, s, value) ==
    /\ BeginCall(c)
    /\ dbRows[r] = Nothing /\ dbTold[r] = Nothing /\ r \notin mixed
    /\ \A d \in Callers : call[d].key # r
    /\ \E enforced \in Enforced :
          IF (enforced /\ sessions[s] = Nothing) \/ ~Unique(table, s, value) THEN CallFails(c)
          ELSE /\ dbRows' = [dbRows EXCEPT ![r] =
                              [table |-> table, session |-> s, value |-> value]]
               /\ sessions' = IF table = "messages" /\ sessions[s] # Nothing
                              THEN [sessions EXCEPT ![s].count = @ + 1] ELSE sessions
               /\ strays' = IF sessions[s] = Nothing THEN strays \cup {r} ELSE strays
               /\ Wrote(c, r, value, <<>>)
               /\ UNCHANGED dbTold

\* A file that is gone cannot be updated; a message that is gone is, and is told of.
UpdateRow(c, r, table, value) ==
    /\ BeginCall(c)
    /\ (IF dbRows[r] = Nothing THEN TRUE ELSE dbRows[r].table = table)
    /\ IF dbRows[r] = Nothing THEN
          IF table = "files" \/ dbTold[r] = Nothing THEN CallFails(c)
          ELSE /\ call' = [call EXCEPT ![c] =
                             [at |-> "publish", key |-> r, left |-> <<>>, event |-> value]]
               /\ mixed' = mixed \cup {r}
               /\ UNCHANGED <<tables, dbTold, strays>>
       ELSE /\ dbRows' = [dbRows EXCEPT ![r].value = value]
            /\ Wrote(c, r, value, <<>>)
            /\ UNCHANGED <<sessions, dbTold, strays>>

-----------------------------------------------------------------------------
(* Deletion looks first; that of all messages or files of a session lists them and     *)
(* ends at the first that is no longer there.                               *)

ListBySession(table, s) ==
    {r \in RowIds : dbRows[r] # Nothing /\ dbRows[r].table = table /\ dbRows[r].session = s}

LookAt(c, keys) ==
    call' = [call EXCEPT ![c] = IF keys = <<>> THEN CallIdle
                                ELSE [CallIdle EXCEPT !.at = "look", !.left = keys]]

Delete(c, k) ==
    /\ BeginCall(c) /\ LookAt(c, <<k>>)
    /\ UNCHANGED <<tables, dbTold, mixed, strays>>

DeleteSessionRows(c, table, s) ==
    /\ BeginCall(c)
    /\ \E keys \in SetToSeqs(ListBySession(table, s)) : LookAt(c, keys)
    /\ UNCHANGED <<tables, dbTold, mixed, strays>>

\* Get, and the end of the loop where it fails.
Look(c) ==
    /\ call[c].at = "look"
    /\ IF Seen(Head(call[c].left)) = Nothing THEN call' = [call EXCEPT ![c] = CallIdle]
       ELSE call' = [call EXCEPT ![c] =
               [CallIdle EXCEPT !.at = "found", !.key = Head(call[c].left),
                                !.left = Tail(call[c].left)]]
    /\ UNCHANGED <<tables, ops, dbTold, mixed, strays>>

DeleteSession(c) ==
    /\ call[c].at = "found" /\ call[c].key \in SessionIds
    /\ LET s == call[c].key
           own == {r \in RowIds : dbRows[r] # Nothing /\ dbRows[r].session = s}
       IN /\ sessions' = [sessions EXCEPT ![s] = Nothing]
          /\ \E enforced \in Enforced :
                /\ dbRows' = IF enforced
                             THEN [r \in RowIds |-> IF r \in own THEN Nothing ELSE dbRows[r]]
                             ELSE dbRows
                /\ strays' = IF enforced THEN strays ELSE strays \cup own
                /\ call' = [call EXCEPT ![c].at = "publish", ![c].event = Nothing]
                /\ mixed' = mixed \cup (IF enforced THEN own ELSE {})
                            \cup {x \in {s} : \E d \in Callers \ {c} :
                                     call[d].at = "publish" /\ call[d].key = s}
    /\ UNCHANGED <<ops, dbTold>>

DeleteRow(c) ==
    /\ call[c].at = "found" /\ call[c].key \in RowIds
    /\ LET r == call[c].key
       IN /\ IF dbRows[r] = Nothing THEN UNCHANGED tables
             ELSE dbRows' = [dbRows EXCEPT ![r] = Nothing] /\ sessions' = Counted(r, -1)
          /\ Wrote(c, r, Nothing, call[c].left)
    /\ UNCHANGED <<ops, dbTold, strays>>

\* The event goes out when it goes out.
Publish(c) ==
    /\ call[c].at = "publish"
    /\ dbTold' = [dbTold EXCEPT ![call[c].key] = call[c].event]
    /\ LookAt(c, call[c].left)
    /\ UNCHANGED <<tables, ops, mixed, strays>>

StoreNext ==
    \E c \in Callers :
        \/ \E s \in SessionIds, v \in Values :
              \/ \E p \in (SessionIds \cup {Nothing}) \ {s} : CreateSession(c, s, p, v)
              \/ UpdateSession(c, s, v)
        \/ \E r \in RowIds, t \in {"messages", "files"}, v \in Values :
              \/ \E s \in SessionIds : CreateRow(c, r, t, s, v)
              \/ UpdateRow(c, r, t, v)
        \/ \E k \in Keys : Delete(c, k)
        \/ \E t \in {"messages", "files"}, s \in SessionIds : DeleteSessionRows(c, t, s)
        \/ Look(c) \/ DeleteSession(c) \/ DeleteRow(c) \/ Publish(c)

StoreSpec == StoreInit /\ [][StoreNext]_storeVars

-----------------------------------------------------------------------------
(* Every variable has its type. *)
StoreTypeOK ==
    /\ sessions \in [SessionIds -> StoredSessions \cup {Nothing}]
    /\ dbRows \in [RowIds -> StoredRows \cup {Nothing}]
    /\ call \in [Callers -> [at : {"idle", "look", "found", "publish"},
                             key : Keys \cup {Nothing}, left : Seq(Keys),
                             event : Values \cup {Nothing}]]
    /\ ops \in 0..MaxOps
    /\ dbTold \in [Keys -> Values \cup {Nothing}]
    /\ mixed \subseteq Keys /\ strays \subseteq RowIds

-----------------------------------------------------------------------------
(* A session counts the messages that are stored for it, whoever saves it meanwhile;
   every message and file has its session, but for those written or orphaned by a
   connection without foreign keys; and a listener that heard of everything has what is
   stored.  Excepted there are keys written twice before the first event was out, whose
   events may come the other way round, rows that went with their session, of which nobody
   is told, and a message updated after it was deleted, which is told of as if it were
   there. *)
StoreIsToldTruly ==
    /\ \A s \in SessionIds : sessions[s] # Nothing =>
          sessions[s].count = Cardinality(ListBySession("messages", s))
    /\ \A r \in RowIds \ strays : dbRows[r] # Nothing => sessions[dbRows[r].session] # Nothing
    /\ \A k \in Keys \ mixed :
          (\A c \in Callers : call[c].at # "publish" \/ call[c].key # k) => dbTold[k] = Seen(k)
=============================================================================
