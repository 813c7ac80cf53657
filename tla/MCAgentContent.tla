---------------------------- MODULE MCAgentContent ----------------------------
(***************************************************************************)
(* Small instance of AgentContent: the note's author with a token and an   *)
(* administrator with a token.                                             *)
(***************************************************************************)
EXTENDS AgentContent, TLC

CONSTANTS ann, joe, annsAgent, joesAgent, q1, q2

Owners == annsAgent :> ann @@ joesAgent :> joe
Requests == Permutations({q1, q2})
===============================================================================
