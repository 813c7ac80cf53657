------------------------------ MODULE MCUploads ------------------------------
(***************************************************************************)
(* Small instances of Uploads: a few uploads, one of them large, and a few *)
(* calls; the calls and the small uploads are interchangeable.             *)
(***************************************************************************)
EXTENDS Uploads, TLC

CONSTANTS u1, u2, u3, c1, c2

Alike == {f @@ g : f \in Permutations({u1, u3}), g \in Permutations({c1, c2})}
=============================================================================
