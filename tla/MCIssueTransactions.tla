------------------------ MODULE MCIssueTransactions ------------------------
(***************************************************************************)
(* Small instances of IssueTransactions: one or two projects, the first    *)
(* with a Release; each .cfg chooses the kinds of request that interleave. *)
(* Requests are interchangeable.                                           *)
(***************************************************************************)
EXTENDS IssueTransactions, TLC

CONSTANTS p1, p2, s1, s2, r1, q1, q2

OneStream == p1 :> s1
OneContainers == s1 :> p1 @@ r1 :> p1
TwoStreams == p1 :> s1 @@ p2 :> s2
TwoContainers == s1 :> p1 @@ r1 :> p1 @@ s2 :> p2

Requests == Permutations({q1, q2})
=============================================================================
