---------------------------- MODULE MCPermission ----------------------------
(***************************************************************************)
(* The smallest instance of the permission service in which an answer is   *)
(* asked to cover more than it said: two requests of different scopes in   *)
(* one session.                                                            *)
(***************************************************************************)
EXTENDS Permission, TLC

CONSTANTS r1, r2, editA, bashB, s1

MCSessionOf == [s \in {editA, bashB} |-> s1]
MCPair == (r1 :> editA) @@ (r2 :> bashB)
Nobody == {}
EmbedAnswers == {"allow", "trust", "deny"}
=============================================================================
