----------------------------- MODULE MCApproval -----------------------------
(***************************************************************************)
(* The permission service, and the file tools that ask it, each followed   *)
(* alone: the first state says which, and the other stays as it begins.    *)
(*                                                                         *)
(* Three requests: two of one scope and one of another, all in one         *)
(* session, and a subscriber buffer of two, so that matching, the scope    *)
(* boundary and a dropped event all happen, and two goroutines to hand     *)
(* answers back, so that an append can be lost.  The answers are those of  *)
(* the bridge, less the plain "allow", which changes nothing but the       *)
(* channel; MCServices has those of the library, and a headless session.   *)
(***************************************************************************)
EXTENDS Permission, MCFileTools

CONSTANTS r1, r2, r3, editA, bashB

VARIABLE part

MCScopeOf == (r1 :> editA) @@ (r2 :> editA) @@ (r3 :> bashB)
MCOneSession == (editA :> s1) @@ (bashB :> s1)
Nobody == {}
AnswersThatCount == {"allow_session", "deny"}

MCInit ==
    /\ part \in {"service", "tools"}
    /\ Init
    /\ ToolsInit /\ (part = "service" => \A p \in Paths : ~Exists(p))

MCNext ==
    /\ UNCHANGED part
    /\ \/ part = "service" /\ Next /\ UNCHANGED toolsVars
       \/ part = "tools" /\ ToolsNext /\ UNCHANGED vars

MCSpec == MCInit /\ [][MCNext]_<<part, vars, toolsVars>>
=============================================================================
