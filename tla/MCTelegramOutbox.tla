-------------------------- MODULE MCTelegramOutbox --------------------------
(***************************************************************************)
(* Small instances of TelegramOutbox: one comment whose author is told of  *)
(* reactions, one person who reacts, and a plain event for one or two      *)
(* watchers.                                                               *)
(***************************************************************************)
EXTENDS TelegramOutbox

CONSTANTS u1, u2, a1, q1, w1
=============================================================================
