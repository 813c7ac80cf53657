----------------------------- MODULE MCBacklog -----------------------------
(***************************************************************************)
(* Small instances of Backlog.  Requests are interchangeable.              *)
(***************************************************************************)
EXTENDS Backlog, TLC

Requests == Permutations(Request)
=============================================================================
