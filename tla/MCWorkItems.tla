---------------------------- MODULE MCWorkItems ----------------------------
(***************************************************************************)
(* Small instances of WorkItems: one project with one Release, and two     *)
(* projects of which the first has a Release.                              *)
(***************************************************************************)
EXTENDS WorkItems, TLC

CONSTANTS p1, p2, s1, s2, r1, b1, t1

OneProjectStreams == p1 :> s1
OneProjectContainers == s1 :> p1 @@ r1 :> p1

TwoProjectStreams == p1 :> s1 @@ p2 :> s2
TwoProjectContainers == s1 :> p1 @@ r1 :> p1 @@ s2 :> p2

\* Bounds on cycle numbers: only the task, a merge's original, comes back.
OneBugCycles == b1 :> 3
BugAndTaskCycles == b1 :> 1 @@ t1 :> 2
=============================================================================
