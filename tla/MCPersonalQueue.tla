-------------------------- MODULE MCPersonalQueue ---------------------------
(***************************************************************************)
(* A small instance of PersonalQueue: three items, two interchangeable     *)
(* people.                                                                 *)
(***************************************************************************)
EXTENDS PersonalQueue, TLC

CONSTANTS alice, bob

People == Permutations({alice, bob})
=============================================================================
