------------------------------ MODULE Workflow ------------------------------
(***************************************************************************)
(* The item statuses and the one table of allowed status moves             *)
(* (src/backend/app/workflow.py, src/backend/app/db/models/issue.py).      *)
(* Pure operators: every service asks CanTransition before it writes a     *)
(* status, and the API lists AllowedTargets.                               *)
(***************************************************************************)

TriageStatuses == {"new", "needs_info"}
ReviewStatuses == {"to_review", "in_review"}
BoardStatuses ==
    {"todo", "rejected", "in_progress", "to_review", "in_review", "done", "blocked"}

Status == TriageStatuses \cup BoardStatuses \cup {"cancelled"}

\* Mutation: triage is forgotten.
OpenBoardStatuses == BoardStatuses \ {"done"}

\* Neither Done nor Cancelled: what a ship or a cancel moves out of a release.
OpenStatuses == Status \ {"done", "cancelled"}

\* What a backlog member may hold.
BacklogStatuses == BoardStatuses \ {"done", "rejected"}

\* Delivered or finished work: where Reject is allowed from.
RejectableStatuses == ReviewStatuses \cup {"done"}

\* A task never holds a triage status.
StatusesOf(type) == IF type = "task" THEN Status \ TriageStatuses ELSE Status

\* Mutation: a task may enter triage.
AllowedTargetsOfBugs(type, from) == Status \ {from, "rejected"}

AllowedTargets(type, from) == StatusesOf(type) \ {from, "rejected"}

\* viaReject is true only inside the Reject action and a merge into Done work.
\* A bug may re-enter its own status; a task may not.
CanTransition(type, from, to, viaReject) ==
    IF to = "rejected"
    THEN viaReject
    ELSE \/ to \in AllowedTargets(type, from)
         \/ type = "bug" /\ to = from
=============================================================================
