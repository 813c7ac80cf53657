--------------------------- MODULE MCSearchIndex ---------------------------
(***************************************************************************)
(* Small instances of SearchIndex: two workers of the search queue.        *)
(***************************************************************************)
EXTENDS SearchIndex

CONSTANTS i1, i2, e1, e2, m1, m2, q1, q2, w1, w2
=============================================================================
