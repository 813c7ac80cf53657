----------------------------- MODULE WorkItems -----------------------------
(***************************************************************************)
(* Where every item is placed and what that does to its cycles.            *)
(*                                                                         *)
(* An item (a bug or a task) belongs to one project and sits in one        *)
(* container: its project's Stream, one of its Releases, or the backlog    *)
(* (release_id null).  Each action below is one API request, one database  *)
(* transaction; a refusal (DomainError) rolls the transaction back and is  *)
(* a guard.  Rows are records, the services are operators from row to row, *)
(* and a handler that calls several services composes them in call order.  *)
(* How requests interleave is the subject of IssueTransactions.            *)
(***************************************************************************)
EXTENDS Naturals, Workflow, ReleaseLifecycle

CONSTANTS
    Item,        \* ids an item row may have
    Bug,         \* the items of type bug; the others are tasks
    Project,
    Container,   \* rows of the releases table: Streams and Releases
    Backlog,     \* the null container
    StreamOf,    \* the Stream of each project, one per project
    ProjectOf,   \* the project of each container
    NoItem,      \* the null parent_issue_id
    MaxCycle     \* bound on the cycle numbers of each item

ASSUME PlacesAssumption ==
    /\ Bug \subseteq Item
    /\ NoItem \notin Item
    /\ Backlog \notin Container
    /\ StreamOf \in [Project -> Container]
    /\ ProjectOf \in [Container -> Project]
    /\ \A p \in Project : ProjectOf[StreamOf[p]] = p

ASSUME MaxCycleAssumption == MaxCycle \in [Item -> Nat]

Release == Container \ {StreamOf[p] : p \in Project}
Place == Container \cup {Backlog}

TypeOf(i) == IF i \in Bug THEN "bug" ELSE "task"

(***************************************************************************)
(* cycle is the number of the current cycle, 0 for current_cycle_id null;  *)
(* cycleContainer is the container that cycle is recorded against.         *)
(* duplicate stands for cancel_reason = duplicate, parent for              *)
(* parent_issue_id, which outlives it.  moved is history: the row has been *)
(* through move_project.                                                   *)
(***************************************************************************)
Row == [status : Status, project : Project, container : Place,
        cycle : Nat, cycleContainer : Place,
        blocker : BOOLEAN, duplicate : BOOLEAN, parent : Item \cup {NoItem},
        trashed : BOOLEAN, moved : BOOLEAN]

VARIABLES
    item,            \* the issue rows, a function on the ids in use
    releaseStatus,   \* per Release, "none" before it is created
    releaseDeleted   \* per Release, soft-deleted

vars == <<item, releaseStatus, releaseDeleted>>

TypeOK ==
    /\ item \in [DOMAIN item -> Row]
    /\ DOMAIN item \subseteq Item
    /\ \A i \in DOMAIN item : item[i].status \in StatusesOf(TypeOf(i))
    /\ releaseStatus \in [Release -> ReleaseStatuses \cup {"none"}]
    /\ releaseDeleted \in [Release -> BOOLEAN]

(***************************************************************************)
(* Containers                                                              *)
(***************************************************************************)
Visible == {i \in DOMAIN item : ~item[i].trashed}

Shipped(c) == c \in Release /\ releaseStatus[c] = "released"
Closed(c) == c \in Release /\ releaseStatus[c] \in FinalStatuses
Exists(c) == c \in Release => releaseStatus[c] # "none" /\ ~releaseDeleted[c]

\* Mutation: the status of the release is not checked.
TakesItemsOfClosed(c, p) ==
    \/ c = Backlog
    \/ c \in Container /\ ProjectOf[c] = p /\ Exists(c)

\* container_service.resolve: the places an item of project p may be put in.
TakesItemsOf(c, p) ==
    \/ c = Backlog
    \/ c \in Container /\ ProjectOf[c] = p /\ Exists(c) /\ ~Closed(c)

BlockerAllowed(i, c) == c \in Release /\ i \in Bug

(***************************************************************************)
(* Services, as operators on a row                                         *)
(***************************************************************************)

\* IssueService.transition: cancel_reason (here: is it duplicate?) is set on
\* entering Cancelled and cleared on leaving it.
Transitioned(x, to, asDuplicate) ==
    [x EXCEPT !.status = to, !.duplicate = (to = "cancelled" /\ asDuplicate)]

\* Mutation: a placement always starts cycle 1.
OnPlacedAgain(x) ==
    IF x.container = Backlog
    THEN x
    ELSE [x EXCEPT !.cycle = 1, !.cycleContainer = x.container]

OnPlaced(x) ==
    IF x.container = Backlog \/ x.cycle # 0
    THEN x
    ELSE [x EXCEPT !.cycle = 1, !.cycleContainer = x.container]

\* Mutation: the cycle stays with the container it started in.
OnContainerChangedNot(x) == x

OnContainerChanged(x) ==
    IF x.cycle = 0 \/ x.status = "done"
    THEN x
    ELSE [x EXCEPT !.cycleContainer = x.container]

OnMovedToBacklog(x) == [x EXCEPT !.cycle = 0, !.cycleContainer = Backlog]

AfterContainerChange(x, old) ==
    CASE x.container = old     -> x
      [] x.container # old /\ x.container = Backlog -> OnMovedToBacklog(x)
      [] x.container # old /\ x.container # Backlog
            /\ (old = Backlog \/ x.cycle = 0)       -> OnPlaced(x)
      [] OTHER                                      -> OnContainerChanged(x)

\* A change of release_id, with BR-58: only a Release keeps the blocker flag.
Placed(x, c) ==
    IF c = x.container
    THEN x
    ELSE AfterContainerChange(
            [x EXCEPT !.container = c, !.blocker = (@ /\ c \in Release)],
            x.container)

\* IssueService.update's placement part: a Rejected item that leaves for the
\* backlog becomes To do.
Relocated(x, c) ==
    LET y == Placed(x, c) IN
    IF c = Backlog /\ x.container # Backlog /\ y.status = "rejected"
    THEN Transitioned(y, "todo", FALSE)
    ELSE y

\* Mutation: a return reuses the current cycle.
StartReturnInPlace(x) ==
    IF x.container = Backlog THEN x ELSE [x EXCEPT !.cycleContainer = x.container]

\* CycleService.start_return: nothing to return from without a container.
StartReturn(x) ==
    IF x.container = Backlog
    THEN x
    ELSE [x EXCEPT !.cycle = @ + 1, !.cycleContainer = x.container]

\* Mutation: production work comes back with its blocker flag.
RejectedWithBlocker(x) ==
    LET y == Transitioned(x, "rejected", FALSE) IN
    StartReturn(IF x.status = "done" /\ Shipped(x.container)
                THEN [y EXCEPT !.container = StreamOf[x.project]]
                ELSE y)

\* IssueService.reject_with: Done work of a Released release comes back in
\* the Stream.
RejectedWith(x) ==
    LET y == Transitioned(x, "rejected", FALSE) IN
    StartReturn(IF x.status = "done" /\ Shipped(x.container)
                THEN [y EXCEPT !.container = StreamOf[x.project], !.blocker = FALSE]
                ELSE y)

(***************************************************************************)
(* Item requests                                                           *)
(***************************************************************************)

\* POST /issues.  A bug starts in New, or in To do when it is filed with an
\* assignee; a task starts in To do.
File(i, p, c, s, b) ==
    /\ i \in Item \ DOMAIN item
    /\ TakesItemsOf(c, p)
    /\ b => BlockerAllowed(i, c)
    /\ s = "todo" \/ (s = "new" /\ i \in Bug)
    /\ item' = [j \in DOMAIN item \cup {i} |->
                  IF j = i
                  THEN OnPlaced([status |-> s, project |-> p, container |-> c,
                                 cycle |-> 0, cycleContainer |-> Backlog,
                                 blocker |-> b, duplicate |-> FALSE,
                                 parent |-> NoItem,
                                 trashed |-> FALSE, moved |-> FALSE])
                  ELSE item[j]]
    /\ UNCHANGED <<releaseStatus, releaseDeleted>>

\* May item i move to s with reason duplicate?  Only a bug has that reason.
DuplicateChoices(i, s) == IF s = "cancelled" /\ i \in Bug THEN BOOLEAN ELSE {FALSE}

\* POST /issues/{id}/transition, /fix and a passing /verify.
Transition(i, to, asDuplicate) ==
    /\ i \in Visible
    /\ CanTransition(TypeOf(i), item[i].status, to, FALSE)
    /\ item' = [item EXCEPT ![i] = Transitioned(@, to, asDuplicate)]
    /\ UNCHANGED <<releaseStatus, releaseDeleted>>

\* POST /issues/{id}/reject, /returns and /reopen.
Reject(i) ==
    /\ i \in Visible
    /\ item[i].status \in RejectableStatuses
    /\ item[i].cycle < MaxCycle[i]
    /\ item' = [item EXCEPT ![i] = RejectedWith(@)]
    /\ UNCHANGED <<releaseStatus, releaseDeleted>>

\* IssueService._check_placement: may this edit put item i into c and leave
\* its blocker flag at b?
PlacementAllowed(i, c, b) ==
    /\ c # item[i].container =>
          item[i].status # "done" /\ TakesItemsOf(c, item[i].project)
    /\ b /\ ~item[i].blocker => BlockerAllowed(i, c)

\* PATCH /issues/{id} with any of release_id, is_release_blocker and status:
\* c, b and s are the values after the edit.  The status moves last, from
\* whatever the relocation left.
Update(i, c, b) ==
    LET x == item[i]
        y == Relocated([x EXCEPT !.blocker = b], c)
    IN  /\ i \in Visible
        /\ PlacementAllowed(i, c, b)
        /\ \E s \in Status : \E asDuplicate \in DuplicateChoices(i, s) :
              /\ s # y.status => CanTransition(TypeOf(i), y.status, s, FALSE)
              /\ item' = [item EXCEPT ![i] =
                            IF s = y.status THEN y ELSE Transitioned(y, s, asDuplicate)]
        /\ UNCHANGED <<releaseStatus, releaseDeleted>>

\* POST /issues/bulk-move: all of S or nothing; an item already there is
\* skipped, a Done one elsewhere refuses the whole request.
BulkMove(S, c) ==
    /\ S # {} /\ S \subseteq Visible
    /\ c \in Container /\ Exists(c) /\ ~Closed(c)
    /\ \A i \in S : /\ item[i].project = ProjectOf[c]
                    /\ item[i].status = "done" => item[i].container = c
    /\ item' = [i \in DOMAIN item |->
                  IF i \in S THEN Relocated(item[i], c) ELSE item[i]]
    /\ UNCHANGED <<releaseStatus, releaseDeleted>>

(***************************************************************************)
(* Triage                                                                  *)
(***************************************************************************)
InTriage(i) == i \in Visible /\ item[i].status \in TriageStatuses

Accept(i, c) ==
    /\ InTriage(i)
    /\ c # item[i].container => TakesItemsOf(c, item[i].project)
    /\ item' = [item EXCEPT ![i] = Transitioned(Placed(@, c), "todo", FALSE)]
    /\ UNCHANGED <<releaseStatus, releaseDeleted>>

\* The Needs info and Reject outcomes, and the reporter's public answer that
\* sends a Needs info bug back to New.
TriageMove(i, to) ==
    /\ InTriage(i)
    /\ \/ to = "needs_info" /\ item[i].status = "new"
       \/ to = "new" /\ item[i].status = "needs_info"
       \/ to = "cancelled"
    /\ item' = [item EXCEPT ![i] = Transitioned(@, to, FALSE)]
    /\ UNCHANGED <<releaseStatus, releaseDeleted>>

\* The Duplicate outcome: the merge into a Done original rejects it.
Duplicate(i, o) ==
    /\ InTriage(i)
    /\ o \in Visible \ {i}
    /\ item[o].project = item[i].project
    /\ ~item[o].duplicate
    /\ item[o].status = "done" => item[o].cycle < MaxCycle[o]
    /\ item' = [item EXCEPT
                  ![i] = [Transitioned(@, "cancelled", TRUE) EXCEPT !.parent = o],
                  ![o] = IF @.status = "done" THEN RejectedWith(@) ELSE @]
    /\ UNCHANGED <<releaseStatus, releaseDeleted>>

\* Mutation: only the project changes.
MovedAlone(x, p, c) == [x EXCEPT !.project = p, !.moved = TRUE]

\* move_project on a row: project, container and category change together;
\* the cycle rows and the status are left as they are.
Moved(x, p, c) ==
    [x EXCEPT !.project = p, !.container = c,
              !.blocker = (@ /\ c \in Release), !.moved = TRUE]

\* POST /issues/{id}/move.
MoveProject(i, p, c) ==
    /\ i \in Visible
    /\ item[i].status \notin {"cancelled", "done"}
    /\ p \in Project \ {item[i].project}
    /\ TakesItemsOf(c, p)
    /\ item' = [item EXCEPT ![i] = Moved(@, p, c)]
    /\ UNCHANGED <<releaseStatus, releaseDeleted>>

(***************************************************************************)
(* Trash                                                                   *)
(***************************************************************************)
Trash(i) ==
    /\ i \in Visible
    /\ item' = [item EXCEPT ![i].trashed = TRUE]
    /\ UNCHANGED <<releaseStatus, releaseDeleted>>

Restore(i) ==
    /\ i \in DOMAIN item \ Visible
    /\ item' = [item EXCEPT ![i].trashed = FALSE]
    /\ UNCHANGED <<releaseStatus, releaseDeleted>>

\* DELETE /issues/{id}/permanent and /issues/trash/clear.  A row whose parent
\* goes keeps no pointer to it (ON DELETE SET NULL).
Purge(S) ==
    /\ S # {} /\ S \subseteq DOMAIN item \ Visible
    /\ item' = [i \in DOMAIN item \ S |->
                  [item[i] EXCEPT !.parent = IF @ \in S THEN NoItem ELSE @]]
    /\ UNCHANGED <<releaseStatus, releaseDeleted>>

(***************************************************************************)
(* Releases                                                                *)
(***************************************************************************)
CreateRelease(r) ==
    /\ releaseStatus[r] = "none"
    /\ releaseStatus' = [releaseStatus EXCEPT ![r] = "planning"]
    /\ UNCHANGED <<item, releaseDeleted>>

HasDoneItems(r) == \E i \in Visible : item[i].container = r /\ item[i].status = "done"

\* Mutation: Done items are moved too.
OpenItemsInAndDone(r) ==
    {i \in Visible : item[i].container = r /\ item[i].status # "cancelled"}

OpenItemsIn(r) ==
    {i \in Visible : item[i].container = r /\ item[i].status \in OpenStatuses}

\* ReleaseService._move_open_items_to_backlog: To do first, then out.
OpenItemsMovedToBacklog(r) ==
    [i \in DOMAIN item |->
        IF i \in OpenItemsIn(r)
        THEN Relocated(IF item[i].status = "todo" THEN item[i]
                       ELSE Transitioned(item[i], "todo", FALSE), Backlog)
        ELSE item[i]]

ChangeStatus(r, to) ==
    /\ releaseStatus[r] # "none" /\ ~releaseDeleted[r]
    /\ to # "cancelled"
    /\ CanChange(releaseStatus[r], to, FALSE, FALSE)
    /\ releaseStatus' = [releaseStatus EXCEPT ![r] = to]
    /\ UNCHANGED <<item, releaseDeleted>>

Cancel(r) ==
    /\ releaseStatus[r] # "none" /\ ~releaseDeleted[r]
    /\ CanChange(releaseStatus[r], "cancelled", HasDoneItems(r), FALSE)
    /\ item' = OpenItemsMovedToBacklog(r)
    /\ releaseStatus' = [releaseStatus EXCEPT ![r] = "cancelled"]
    /\ UNCHANGED releaseDeleted

Ship(r) ==
    /\ releaseStatus[r] # "none" /\ ~releaseDeleted[r]
    /\ CanShip(releaseStatus[r])
    /\ item' = OpenItemsMovedToBacklog(r)
    /\ releaseStatus' = [releaseStatus EXCEPT ![r] = "released"]
    /\ UNCHANGED releaseDeleted

DeleteRelease(r) ==
    /\ releaseStatus[r] \notin {"none", "released"} /\ ~releaseDeleted[r]
    /\ releaseDeleted' = [releaseDeleted EXCEPT ![r] = TRUE]
    /\ UNCHANGED <<item, releaseStatus>>

(***************************************************************************)
(* The specification                                                       *)
(***************************************************************************)
Init ==
    /\ item = [i \in {} |-> {}]
    /\ releaseStatus = [r \in Release |-> "none"]
    /\ releaseDeleted = [r \in Release |-> FALSE]

ItemRequest(i) ==
    \/ \E p \in Project, c \in Place, s \in Status, b \in BOOLEAN : File(i, p, c, s, b)
    \/ \E to \in Status : \E d \in DuplicateChoices(i, to) : Transition(i, to, d)
    \/ Reject(i)
    \/ \E c \in Place, b \in BOOLEAN : Update(i, c, b)
    \/ \E c \in Place : Accept(i, c)
    \/ \E to \in Status : TriageMove(i, to)
    \/ \E o \in Item : Duplicate(i, o)
    \/ \E p \in Project, c \in Place : MoveProject(i, p, c)
    \/ Trash(i)
    \/ Restore(i)

ReleaseRequest(r) ==
    \/ CreateRelease(r)
    \/ \E to \in ReleaseStatuses : ChangeStatus(r, to)
    \/ Cancel(r)
    \/ Ship(r)
    \/ DeleteRelease(r)

Next ==
    \/ \E i \in Item : ItemRequest(i)
    \/ \E S \in SUBSET Item, c \in Container : BulkMove(S, c)
    \/ \E S \in SUBSET Item : Purge(S)
    \/ \E r \in Release : ReleaseRequest(r)

Spec == Init /\ [][Next]_vars

(***************************************************************************)
(* Properties                                                              *)
(***************************************************************************)

\* Project and container agree on every row, trashed ones included: no
\* sequence of filing, triage, moves, returns and ships leaves an item in
\* another project's Stream or Release.  No database constraint says so.
ContainerInProject ==
    \A i \in DOMAIN item :
        /\ item[i].container # Backlog => ProjectOf[item[i].container] = item[i].project
        /\ item[i].container \in Release => releaseStatus[item[i].container] # "none"

\* BR-58: however an item got where it is, the blocker flag is only ever set
\* on a bug that sits in a Release, so that flags never survive leaving one.
BlockerOnlyOnReleaseBug ==
    \A i \in DOMAIN item :
        item[i].blocker => i \in Bug /\ item[i].container \in Release

\* CycleService's invariant, for items that never changed project: a current
\* cycle exists exactly while the item has a container, and it is recorded
\* against that container (CY-01), also after the Stream took it back (CY-03).
CycleFollowsContainer ==
    \A i \in DOMAIN item : ~item[i].moved =>
        /\ item[i].cycle = 0 <=> item[i].container = Backlog
        /\ item[i].cycleContainer = item[i].container

\* BR-54: while an item is Done nothing moves it, neither an edit, a bulk
\* move nor the ship or cancel of its release; the one way out is a return
\* of production work, which lands Rejected in its project's Stream.
DoneItemImmobile ==
    [][\A i \in DOMAIN item \cap DOMAIN item' :
        item[i].status = "done" /\ item'[i].container # item[i].container =>
            /\ item'[i].status = "rejected"
            /\ Shipped(item[i].container)
            /\ item'[i].container = StreamOf[item[i].project]]_vars

\* Nothing enters a Release that is Released, Cancelled or deleted, by any of
\* the placement paths.
ClosedReleaseTakesNoItem ==
    [][\A i \in DOMAIN item' :
        (i \notin DOMAIN item \/ item'[i].container # item[i].container)
            => Exists(item'[i].container) /\ ~Closed(item'[i].container)]_vars

\* A return opens exactly the next cycle of an item with a container, and
\* nothing else advances one: cycle numbers count the returns.
ReturnStartsNextCycle ==
    [][\A i \in DOMAIN item \cap DOMAIN item' :
        item[i].cycle # 0 /\ item'[i].container # Backlog =>
            (item'[i].cycle = item[i].cycle + 1
                <=> item'[i].status = "rejected" /\ item[i].status \in RejectableStatuses)]_vars

\* CY-14: cycle history is only erased by a move to the backlog; no placement
\* rewinds the count of an item that has a cycle.
CycleHistoryKept ==
    [][\A i \in DOMAIN item \cap DOMAIN item' :
        item'[i].cycle < item[i].cycle => item'[i].container = Backlog
                                           /\ item[i].container # Backlog]_vars

\* BR-55, BR-56: the step that ships or cancels a release leaves in it no
\* item that still needs work, triage included, and a cancel strands no Done
\* work; what it takes out is To do in the backlog.
ClosingEmptiesRelease ==
    [][\A r \in Release :
        releaseStatus'[r] \in FinalStatuses /\ releaseStatus[r] \notin FinalStatuses =>
            \A i \in Visible :
                /\ item'[i].container = r =>
                      item'[i].status \in (IF releaseStatus'[r] = "released"
                                           THEN {"done", "cancelled"} ELSE {"cancelled"})
                /\ item'[i].container # item[i].container =>
                      item'[i].container = Backlog /\ item'[i].status = "todo"]_vars
=============================================================================
