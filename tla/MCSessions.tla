----------------------------- MODULE MCSessions -----------------------------
(***************************************************************************)
(* Small instance of Sessions: two interchangeable tabs.                   *)
(***************************************************************************)
EXTENDS Sessions, TLC

CONSTANTS t1, t2, e1, e2, d1, d2

Alike == {f @@ g @@ h : f \in Permutations({t1, t2}), g \in Permutations({e1, e2}),
                        h \in Permutations({d1, d2})}
=============================================================================
