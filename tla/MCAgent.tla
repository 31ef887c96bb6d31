------------------------------ MODULE MCAgent ------------------------------
(***************************************************************************)
(* Instances of the agent's request map: two turns and two summaries of    *)
(* one conversation, so that a turn that was cancelled meets its           *)
(* successor and each kind of job meets the other.                         *)
(***************************************************************************)
EXTENDS Agent

CONSTANTS s1, t1, t2, x1, x2

OneSession == [j \in Jobs |-> s1]
=============================================================================
