------------------------------ MODULE History ------------------------------
(***************************************************************************)
(* The file history of internal/history/file.go: the rows of the files     *)
(* table and how a row gets its version.  "initial" is version 0 and "vN"  *)
(* is version N.  created_at has whole seconds, so several rows of a path  *)
(* can be its latest, and SQL leaves open which of them a query returns.   *)
(***************************************************************************)
EXTENDS Integers, FiniteSets

Initial == 0
NoVersion == -1

\* Versions made from the clock are far above all counted ones.
Stamp(second) == 1000 + second

Row(path, session, content, version, second) ==
    [path |-> path, session |-> session, content |-> content,
     version |-> version, at |-> second]

OfPath(files, path) == {f \in files : f.path = path}
OfSession(files, path, session) == {f \in OfPath(files, path) : f.session = session}

\* The rows ORDER BY created_at DESC may put first.
Latest(rows) == {f \in rows : \A g \in rows : g.at <= f.at}

\* CreateVersion looks at the rows of every session: the versions it may ask for.
NextVersions(files, path) ==
    IF OfPath(files, path) = {} THEN {Initial}
    ELSE {f.version + 1 : f \in Latest(OfPath(files, path))}

\* createWithVersion: three attempts, each after a conflict with a row of the
\* same path and session.  The version the row gets, or NoVersion.
Insert(files, path, session, wanted, second) ==
    LET taken == {f.version : f \in OfSession(files, path, session)}
        again(v) == IF v = Initial THEN Stamp(second) ELSE v + 1
        tries == <<wanted, again(wanted), again(again(wanted))>>
        free == {i \in 1..3 : tries[i] \notin taken}
    IN IF free = {} THEN NoVersion
       ELSE tries[CHOOSE i \in free : \A j \in free : i <= j]

Added(files, path, session, content, version, second) ==
    IF version = NoVersion THEN files
    ELSE files \cup {Row(path, session, content, version, second)}
=============================================================================
