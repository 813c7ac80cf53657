--------------------------- MODULE IssueTransactions ---------------------------
(***************************************************************************)
(* Concurrent requests on one item.                                        *)
(*                                                                         *)
(* WorkItems takes each request as one step.  Here a request is what it is *)
(* at READ COMMITTED: it loads the row (Load), reads the release it needs  *)
(* (Check), and from its first write to its commit holds the row lock, so  *)
(* that the rest is one step (Finish).  The ORM keeps the columns it       *)
(* loaded first, SELECT ... FOR UPDATE included, unless the query says     *)
(* populate_existing; and an UPDATE writes only the columns whose value    *)
(* differs from the loaded one.                                            *)
(*                                                                         *)
(* The statuses are those these requests tell apart, cycles are ids in     *)
(* order of creation, and a queue entry is its owner and dormant mark.     *)
(***************************************************************************)
EXTENDS FiniteSets, Naturals

CONSTANTS
    Request,     \* concurrent requests
    Kind,        \* the kinds of request the instance has
    User,
    NoUser,      \* the null assignee_id
    Project,
    Container,
    Backlog,     \* the null release_id
    StreamOf,    \* the Stream of each project
    ProjectOf,   \* the project of each container
    MaxCycle     \* bound on cycle ids

Kinds == {"transition", "assign", "place", "move", "reject", "merge", "bulk", "ship"}

ASSUME KindAssumption == Kind \subseteq Kinds
ASSUME PlaceAssumption ==
    /\ Backlog \notin Container
    /\ StreamOf \in [Project -> Container]
    /\ ProjectOf \in [Container -> Project]
    /\ \A p \in Project : ProjectOf[StreamOf[p]] = p
ASSUME UserAssumption == NoUser \notin User
ASSUME CycleAssumption == MaxCycle \in Nat

Release == Container \ {StreamOf[p] : p \in Project}
Place == Container \cup {Backlog}
Status == {"todo", "in_review", "done", "rejected", "cancelled"}

NoCycle == 0    \* the null current_cycle_id

Row == [status : Status, assignee : User \cup {NoUser}, project : Project,
        container : Place, pointer : 0..MaxCycle]

Entry == [owner : User \cup {NoUser}, dormant : BOOLEAN]

Idle == [pc |-> "idle"]
Running == [pc : {"loaded", "checked"}, kind : Kind, seen : Row,
            project : Project, place : Place, shipped : BOOLEAN]

VARIABLES
    row,        \* the issues row, as committed
    cycles,     \* issue_cycles: whether each existing cycle is open
    created,    \* cycles created so far
    entry,      \* queue_entries: [owner, dormant], owner NoUser for no entry
    released,   \* the Releases that are Released
    request     \* per request: where it is, its kind, the row it loaded, its target
                \* place, and whether the loaded container was Released

vars == <<row, cycles, created, entry, released, request>>

NoEntry == [owner |-> NoUser, dormant |-> FALSE]

TypeOK ==
    /\ row \in Row
    /\ created \in 0..MaxCycle
    /\ cycles \in [DOMAIN cycles -> BOOLEAN]
    /\ DOMAIN cycles \subseteq 1..created
    /\ entry \in Entry
    /\ released \subseteq Release
    /\ request \in [Request -> Running \cup {Idle}]

(***************************************************************************)
(* Locks and writes                                                        *)
(***************************************************************************)
At(q, pc, k) == request[q].pc = pc /\ request[q].kind = k

\* A request holds the row lock from its Check on: place with FOR UPDATE,
\* a merge with FOR NO KEY UPDATE.
Locked == \E q \in Request : At(q, "checked", "place") \/ At(q, "checked", "merge")

\* A comment has been inserted: KEY SHARE, which only FOR UPDATE waits for.
Shared == \E q \in Request : At(q, "checked", "reject")
ForUpdate == ~Locked /\ ~Shared

\* Mutation: the whole loaded row is written back.
WrittenBack(seen, target) == target

\* What an UPDATE leaves: the columns that differ from the loaded row.
Written(seen, target) ==
    [f \in DOMAIN row |-> IF target[f] # seen[f] THEN target[f] ELSE row[f]]

\* QueueService.sync, told the assignee and status the session holds.
Synced(x) ==
    LET here == entry.owner # NoUser /\ entry.owner = x.assignee IN
    IF x.assignee = NoUser \/ x.status = "cancelled" \/ (x.status = "done" /\ ~here)
    THEN NoEntry
    ELSE [owner |-> x.assignee, dormant |-> x.status = "done"]

\* container_service.resolve, on what is committed now.
TakesItemsOf(c, p) == c # Backlog => ProjectOf[c] = p /\ c \notin released

Loaded(k, p, c) ==
    [pc |-> "loaded", kind |-> k, seen |-> row, project |-> p, place |-> c, shipped |-> FALSE]

(***************************************************************************)
(* What a request does once it has the lock; seen is the row it decides on *)
(***************************************************************************)

\* update with a release_id: the cycle hooks, Rejected ends in the backlog.
\* Cycle number 1 is taken while the item has cycles: the insert fails.
PlaceRow(seen, c) ==
    LET starts == c # Backlog /\ seen.pointer = NoCycle
        target == [seen EXCEPT
            !.container = c,
            !.pointer = IF c = Backlog THEN NoCycle
                        ELSE IF starts THEN created + 1 ELSE @,
            !.status = IF c = Backlog /\ @ = "rejected" THEN "todo" ELSE @]
    IN  /\ starts => cycles = [n \in {} |-> TRUE] /\ created < MaxCycle
        /\ created' = IF starts THEN created + 1 ELSE created
        /\ cycles' = IF starts THEN [n \in {created + 1} |-> TRUE]
                     ELSE IF c = Backlog THEN [n \in {} |-> TRUE]
                     ELSE cycles
        /\ row' = [Written(seen, target) EXCEPT
                       !.pointer = IF c = Backlog THEN NoCycle ELSE @]
        /\ entry' = Synced(target)

\* reject_with and start_return: back to Rejected, the loaded cycle closed and
\* the next one open; a production return goes to the Stream.
ReturnRow(seen, shipped) ==
    LET home == IF seen.status = "done" /\ shipped
                THEN StreamOf[seen.project] ELSE seen.container
        next == created + 1
        target == [seen EXCEPT !.status = "rejected", !.container = home,
                               !.pointer = IF home = Backlog THEN @ ELSE next]
    IN  /\ home # Backlog => next <= MaxCycle
        /\ created' = IF home = Backlog THEN created ELSE next
        /\ cycles' = IF home = Backlog THEN cycles
                     ELSE [n \in DOMAIN cycles \cup {next} |->
                             n = next \/ (n # seen.pointer /\ cycles[n])]
        /\ row' = Written(seen, target)
        /\ entry' = Synced(target)

(***************************************************************************)
(* The steps                                                               *)
(***************************************************************************)
Begin(q, r) == request' = [request EXCEPT ![q] = r]
Commit(q) == request' = [request EXCEPT ![q] = Idle]
Tables == <<row, cycles, created, entry, released>>

\* The route loads the item (authorize_issue, or the pick of an original).
Load(q, k) ==
    /\ request[q] = Idle
    /\ k \notin {"bulk", "ship"}
    /\ Begin(q, Loaded(k, row.project, row.container))
    /\ UNCHANGED Tables

\* on_status: entering Cancelled closes the cycle the loaded row names, leaving
\* it opens that cycle again.
Stamped(seen, to) ==
    [n \in DOMAIN cycles |->
        IF n # seen.pointer THEN cycles[n]
        ELSE to # "cancelled" /\ (seen.status = "cancelled" \/ cycles[n])]

\* transition: decides on the loaded status.
Transition(q, to) ==
    LET seen   == request[q].seen
        target == [seen EXCEPT !.status = to]
    IN  /\ At(q, "loaded", "transition")
        /\ to \notin {seen.status, "rejected"}
        /\ ~Locked
        /\ row' = Written(seen, target)
        /\ cycles' = Stamped(seen, to)
        /\ entry' = Synced(target)
        /\ Commit(q)
        /\ UNCHANGED <<created, released>>

\* update with an assignee_id (the loaded one too: another field was edited).
Assign(q, u) ==
    LET seen   == request[q].seen
        target == [seen EXCEPT !.assignee = u]
    IN  /\ At(q, "loaded", "assign")
        /\ ForUpdate
        /\ row' = Written(seen, target)
        /\ entry' = Synced(target)
        /\ Commit(q)
        /\ UNCHANGED <<cycles, created, released>>

\* update with a release_id: the lock first, then _check_placement.
PlaceCheck(q, c) ==
    LET seen == request[q].seen IN
    /\ At(q, "loaded", "place")
    /\ ForUpdate
    /\ c # seen.container
    /\ seen.status # "done"
    /\ TakesItemsOf(c, seen.project)
    /\ Begin(q, [request[q] EXCEPT !.pc = "checked", !.place = c])
    /\ UNCHANGED Tables

PlaceFinish(q) ==
    /\ At(q, "checked", "place")
    /\ PlaceRow(request[q].seen, request[q].place)
    /\ Commit(q)
    /\ UNCHANGED released

\* move_project: checks without a lock, no cycle hook and no queue sync.
MoveCheck(q, p, c) ==
    LET seen == request[q].seen IN
    /\ At(q, "loaded", "move")
    /\ seen.status \notin {"done", "cancelled"}
    /\ p # seen.project
    /\ TakesItemsOf(c, p)
    /\ Begin(q, [request[q] EXCEPT !.pc = "checked", !.project = p, !.place = c])
    /\ UNCHANGED Tables

MoveFinish(q) ==
    LET seen == request[q].seen IN
    /\ At(q, "checked", "move")
    /\ ~Locked
    /\ row' = Written(seen, [seen EXCEPT !.project = request[q].project,
                                         !.container = request[q].place])
    /\ Commit(q)
    /\ UNCHANGED <<cycles, created, entry, released>>

\* reject: the loaded status, a comment, the release as it is now.
RejectCheck(q) ==
    LET seen == request[q].seen IN
    /\ At(q, "loaded", "reject")
    /\ seen.status \in {"in_review", "done"}
    /\ ~\E o \in Request : At(o, "checked", "place")
    /\ Begin(q, [request[q] EXCEPT !.pc = "checked",
                                   !.shipped = seen.container \in released])
    /\ UNCHANGED Tables

\* Mutation: a merge acts on the original it was handed.
MergeCheckStale(q) ==
    LET seen == request[q].seen IN
    /\ At(q, "loaded", "merge")
    /\ seen.status = "done"
    /\ ~Locked
    /\ Begin(q, [request[q] EXCEPT !.pc = "checked", !.shipped = seen.container \in released])
    /\ UNCHANGED Tables

\* merge_into: lock_original refreshes the row; Done work comes back.
MergeCheck(q) ==
    /\ At(q, "loaded", "merge")
    /\ ~Locked
    /\ row.status = "done"
    /\ Begin(q, [request[q] EXCEPT !.pc = "checked", !.seen = row,
                                   !.shipped = row.container \in released])
    /\ UNCHANGED Tables

ReturnFinish(q) ==
    /\ \/ At(q, "checked", "reject") /\ ~Locked
       \/ At(q, "checked", "merge")
    /\ ReturnRow(request[q].seen, request[q].shipped)
    /\ Commit(q)
    /\ UNCHANGED released

\* bulk_move: the container is checked first, then the rows are loaded FOR UPDATE.
BulkLoad(q, c) ==
    /\ request[q] = Idle
    /\ c \notin released
    /\ Begin(q, Loaded("bulk", ProjectOf[c], c))
    /\ UNCHANGED Tables

BulkFinish(q) ==
    LET c == request[q].place IN
    /\ At(q, "loaded", "bulk")
    /\ ForUpdate
    /\ row.project = ProjectOf[c]
    /\ row.container # c
    /\ row.status # "done"
    /\ PlaceRow(row, c)
    /\ Commit(q)
    /\ UNCHANGED released

\* Mutation: the Stream can be shipped.
ShipLoadStream(q, r) ==
    /\ request[q] = Idle
    /\ r \notin released
    /\ Begin(q, Loaded("ship", row.project, r))
    /\ UNCHANGED Tables

\* ship: the open items of r are selected without a lock.
ShipLoad(q, r) ==
    /\ request[q] = Idle
    /\ r \in Release \ released
    /\ Begin(q, Loaded("ship", row.project, r))
    /\ UNCHANGED Tables

ShipFinish(q) ==
    LET seen == request[q].seen
        r    == request[q].place
    IN  /\ At(q, "loaded", "ship")
        /\ IF seen.container = r /\ seen.status \notin {"done", "cancelled"}
           THEN /\ ForUpdate
                /\ cycles' = [n \in {} |-> TRUE]
                /\ row' = [Written(seen, [seen EXCEPT !.status = "todo", !.container = Backlog])
                               EXCEPT !.pointer = NoCycle]
                /\ entry' = Synced([seen EXCEPT !.status = "todo"])
           ELSE UNCHANGED <<row, cycles, entry>>
        /\ released' = released \cup {r}
        /\ Commit(q)
        /\ UNCHANGED created

\* A refusal, a deadlock victim, a lost connection: everything rolls back.
Abort(q) ==
    /\ request[q] # Idle
    /\ Commit(q)
    /\ UNCHANGED Tables

Init ==
    /\ row \in {x \in Row : /\ x.status = "todo" /\ x.assignee = NoUser
                            /\ x.container # Backlog /\ ProjectOf[x.container] = x.project
                            /\ x.pointer = 1}
    /\ cycles = [n \in {1} |-> TRUE]
    /\ created = 1
    /\ entry = NoEntry
    /\ released = {}
    /\ request = [q \in Request |-> Idle]

Step(q) ==
    \/ \E k \in Kind : Load(q, k)
    \/ \E to \in Status : Transition(q, to)
    \/ \E u \in User \cup {NoUser} : Assign(q, u)
    \/ \E c \in Place : PlaceCheck(q, c)
    \/ PlaceFinish(q)
    \/ \E p \in Project, c \in Place : MoveCheck(q, p, c)
    \/ MoveFinish(q)
    \/ RejectCheck(q)
    \/ MergeCheck(q)
    \/ ReturnFinish(q)
    \/ "bulk" \in Kind /\ \E c \in Container : BulkLoad(q, c)
    \/ BulkFinish(q)
    \/ "ship" \in Kind /\ \E r \in Container : ShipLoad(q, r)
    \/ ShipFinish(q)
    \/ Abort(q)

Next == \E q \in Request : Step(q)

Spec == Init /\ [][Next]_vars

(***************************************************************************)
(* What holds whatever interleaves                                         *)
(***************************************************************************)
Commits(q, k) == request[q] # Idle /\ request[q].kind = k /\ request'[q] = Idle

\* An edit that does not assign never undoes an assignment committed after it
\* loaded the row, however stale that row is (column-wise UPDATE).
AssignmentOutlivesStaleEdits ==
    [][row'.assignee # row.assignee => \E q \in Request : Commits(q, "assign")]_vars

\* Cycles left open behind the current one.
StrayCycles == {n \in DOMAIN cycles : cycles[n] /\ n # row.pointer}

\* Merges into one original start one cycle per delivery, whatever placements,
\* moves and ships run beside them.  Only a reject, or a restore from Cancelled,
\* that loaded the item before another request changed its current cycle leaves
\* a second cycle open.
SecondCycleOpensOnlyLate ==
    [][\/ StrayCycles' \subseteq StrayCycles
       \/ \E q \in Request :
             /\ request[q] # Idle
             /\ request[q].seen.pointer # row.pointer
             /\ \/ Commits(q, "reject")
                \/ Commits(q, "transition") /\ request[q].seen.status = "cancelled"]_vars
=============================================================================
