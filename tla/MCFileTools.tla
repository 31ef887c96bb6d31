---------------------------- MODULE MCFileTools ----------------------------
(***************************************************************************)
(* Two sessions, two files, two calls.  One session may view, write, edit  *)
(* (replace, create, delete) and patch (update and remove, add, move); the *)
(* other one views and writes.                                             *)
(***************************************************************************)
EXTENDS FileTools, TLC

CONSTANTS s1, s2, f, g, a, b

MCStarts == {(f :> x) @@ (g :> x) : x \in {Gone, {a}}}

Nothing == [kind |-> "none", del |-> None, ins |-> None, to |-> None]
Update == [Nothing EXCEPT !.kind = "update", !.del = a, !.ins = b]
MCPatches == {
    (f :> Update) @@ (g :> [Nothing EXCEPT !.kind = "remove"]),
    g :> [Nothing EXCEPT !.kind = "add", !.ins = a],
    f :> [Update EXCEPT !.kind = "move", !.to = g]}
Replace == [tool |-> "edit", path |-> f, old |-> a, new |-> b]
View == [tool |-> "view", path |-> f]
Write == [tool |-> "write", path |-> f, content |-> {b}]
MCRequests ==
    s1 :> {View, Write, Replace, [Replace EXCEPT !.old = None], [Replace EXCEPT !.new = None]}
          \cup {[tool |-> "patch", changes |-> c] : c \in MCPatches}
    @@ s2 :> {View, Write}
=============================================================================
