------------------------------- MODULE Search -------------------------------
(***************************************************************************)
(* The tools that look for files: grep and glob, each with ripgrep or, where *)
(* that is missing or fails, with a walk of its own; ls; and the completion   *)
(* of a file name in the composer.  Each has its own limit, its own idea of   *)
(* which files count, and its own way to say that it left some out.           *)
(*                                                                         *)
(* A name is a number, and the order of the numbers that of a walk.  A file   *)
(* has its path below the place of the search, its age, whether git ignores   *)
(* it, how often the pattern hits: lines for grep, the name for the others,   *)
(* and how it can be read: it is "plain", its path has a "colon" in it, it is *)
(* "closed" to the reader, it has a line too "long" for the scanner before its *)
(* first hit, or it is "removed" while it is searched.  ripgrep is external:  *)
(* it leaves out what is hidden or ignored by git, lists the rest in any      *)
(* order, and fails, whatever it found, when a file cannot be opened.         *)
(***************************************************************************)
EXTENDS Naturals, Sequences, SequencesExt, FiniteSetsExt, TLC

CONSTANTS
    Hidden,     \* the names that begin with a dot
    Ignored,    \* those every search but ls leaves out: node_modules, build, tmp and others
    LsIgnored,  \* those ls leaves out
    Limit,      \* the 100 of grep and glob, the 1000 of ls
    Questions   \* [tool, rg: does ripgrep work, root: path of the place, files]

VARIABLES question, answer

vars == <<question, answer>>

Least(a, b) == IF a < b THEN a ELSE b

\* The order of a walk: a directory before its files, and otherwise by name.
Before(p, q) ==
    \/ IsStrictPrefix(p, q)
    \/ \E i \in DOMAIN p \cap DOMAIN q :
          p[i] < q[i] /\ \A j \in 1..(i - 1) : p[j] = q[j]
InOrder(set, before(_, _)) ==
    [i \in 1..Cardinality(set) |->
        CHOOSE x \in set : Cardinality({y \in set : before(y, x)}) = i - 1]
FirstOf(s, n) == ToSet(SubSeq(s, 1, Least(Len(s), n)))
WalkFirst(fs, n) == FirstOf(InOrder(fs, LAMBDA f, g : Before(f.path, g.path)), n)

\* The first n of a list sorted by key, where the order of equals is any.
Best(fs, n, key(_)) ==
    {k \in SUBSET fs : /\ Cardinality(k) = Least(Cardinality(fs), n)
                       /\ \A f \in k, g \in fs \ k : key(f) <= key(g)}

\* A name of the path is ignored, or its last one hidden.
SkipHidden(path) == Last(path) \in Hidden \/ \E i \in DOMAIN path : path[i] \in Ignored

GetRgCmd == {f \in question.files : ~f.git /\ \A i \in DOMAIN f.path : f.path[i] \notin Hidden}
Hits(fs) == {f \in fs : f.hits > 0}
Abs(f) == question.root \o f.path

Told(fs, truncated) == [files |-> fs, truncated |-> truncated, tree |-> <<>>]

-----------------------------------------------------------------------------
(* grep: a match of ripgrep is a line, one of the walk a file with its first. *)

\* A line "file:number:text" is cut at its first colons; what makes no sense then is left out.
Parsed(f) == f.how \notin {"colon", "removed"}

SearchWithRipgrep ==
    UNION {{[file |-> f, line |-> l] : l \in 1..f.hits} : f \in {g \in Hits(GetRgCmd) : Parsed(g)}}

RgFails == ~question.rg \/ \E f \in GetRgCmd : f.how = "closed"

\* Files that fail are left out without a word.
FileContainsPattern(f) == f.hits > 0 /\ f.how \notin {"closed", "long", "removed"}

\* A plausible bug: the walk stops at the limit, and the cut finds nothing to cut.
RegexStopsShort ==
    {[file |-> f, line |-> 1] :
        f \in WalkFirst({f \in question.files : FileContainsPattern(f) /\ ~SkipHidden(Abs(f))},
                        Limit)}

SearchFilesWithRegex ==
    {[file |-> f, line |-> 1] :
        f \in WalkFirst({f \in question.files : FileContainsPattern(f) /\ ~SkipHidden(Abs(f))},
                        2 * Limit)}

SearchFiles ==
    LET matches == IF RgFails THEN SearchFilesWithRegex ELSE SearchWithRipgrep
    IN {Told({m.file : m \in k}, Cardinality(matches) > Limit) :
           k \in Best(matches, Limit, LAMBDA m : m.file.age)}

-----------------------------------------------------------------------------
(* glob.  ripgrep's files are judged by the whole path, and the shortest of     *)
(* them kept; the walk judges by the path below the place, and keeps the newest. *)

RunRipgrep ==
    {Told(k, Cardinality(k) >= Limit) :
        k \in Best({f \in Hits(GetRgCmd) : ~SkipHidden(Abs(f))}, Limit, LAMBDA f : Len(f.path))}

GlobWithDoublestar ==
    LET matches == WalkFirst({f \in Hits(question.files) : ~SkipHidden(f.path)}, 2 * Limit)
    IN {Told(k, Cardinality(matches) > Limit) : k \in Best(matches, Limit, LAMBDA f : f.age)}

GlobFiles == IF question.rg THEN RunRipgrep ELSE GlobWithDoublestar

-----------------------------------------------------------------------------
(* ls lists directories too, and shows them as a tree.                         *)

Entries == UNION {{SubSeq(f.path, 1, i) : i \in DOMAIN f.path} : f \in question.files}

ShouldSkip(name) == name \in Hidden \cup LsIgnored

ListDirectory ==
    IF ShouldSkip(Last(question.root)) THEN <<>>
    ELSE LET all == InOrder({p \in Entries : \A i \in DOMAIN p : ~ShouldSkip(p[i])}, Before)
         IN SubSeq(all, 1, Least(Len(all), Limit))

\* Of every directory its children, in the order they are first met; <<>> has the roots.
CreateFileTree(paths) ==
    LET Grow(tree, p) ==
            FoldLeft(LAMBDA t, i :
                        IF SubSeq(p, 1, i) \in DOMAIN t THEN t
                        ELSE (SubSeq(p, 1, i) :> <<>>)
                             @@ [t EXCEPT ![SubSeq(p, 1, i - 1)] = Append(@, SubSeq(p, 1, i))],
                     tree, [i \in DOMAIN p |-> i])
    IN FoldLeft(Grow, (<<>> :> <<>>), paths)

RECURSIVE PrintNode(_, _)
PrintNode(tree, node) ==
    <<node>> \o FlattenSeq([i \in DOMAIN tree[node] |-> PrintNode(tree, tree[node][i])])

PrintTree(tree) == Tail(PrintNode(tree, <<>>))

Ls ==
    LET listed == ListDirectory IN
    {[files |-> {f \in question.files : \E i \in DOMAIN listed : listed[i] = f.path},
      truncated |-> Len(listed) >= Limit,
      tree |-> PrintTree(CreateFileTree([i \in DOMAIN listed |-> question.root \o listed[i]]))]}

-----------------------------------------------------------------------------
(* The names offered in the composer: all, filtered by what was typed.         *)

GetFiles ==
    LET all == IF question.rg THEN GetRgCmd ELSE {f \in question.files : ~SkipHidden(f.path)}
    IN {Told({f \in Hits(all) : ~SkipHidden(f.path)}, FALSE)}

-----------------------------------------------------------------------------

Unasked == Told({}, FALSE)

Init == question \in Questions /\ answer = Unasked

Run ==
    /\ answer = Unasked
    /\ answer' \in CASE question.tool = "grep"     -> SearchFiles
                     [] question.tool = "glob"     -> GlobFiles
                     [] question.tool = "ls"       -> Ls
                     [] question.tool = "complete" -> GetFiles
    /\ UNCHANGED question

Next == Run

Spec == Init /\ [][Next]_vars

-----------------------------------------------------------------------------

Plain(p) == \A i \in DOMAIN p : p[i] \notin Hidden \cup Ignored \cup LsIgnored

\* What grep leaves out and does not tell.
Dropped(f) == question.tool = "grep" /\ IF RgFails THEN ~FileContainsPattern(f) ELSE ~Parsed(f)

(* An answer that does not say it is cut has every file that counts, whichever way it
   was found, unless the place of the search itself has an ignored name in its path.
   Excepted are the files grep drops in silence: with ripgrep those whose path has a colon,
   without it those that cannot be opened or have a line of more than 64 KB before their
   first hit.  No answer of grep leaves out a file newer than one it has, unless the walk
   stopped.  And ls prints, below the names of the place, each name it lists once, under its
   directory and in order. *)
SearchTellsAll ==
    answer # Unasked =>
    LET due == {f \in question.files : Plain(Abs(f)) /\ ~f.git
                                       /\ (f.hits > 0 \/ question.tool = "ls") /\ ~Dropped(f)}
        printed == ToSet(answer.tree)
    IN /\ answer.truncated \/ due \subseteq answer.files
       /\ question.tool = "grep"
          /\ (~RgFails \/ Cardinality(Hits(question.files)) <= 2 * Limit) =>
             \A f \in answer.files, g \in due \ answer.files : f.age <= g.age
       /\ question.tool = "ls" =>
             /\ answer.tree = InOrder(printed, Before)
             /\ \A f \in answer.files : Abs(f) \in printed
             /\ \A p \in printed : Len(p) > 1 => Front(p) \in printed
=============================================================================
