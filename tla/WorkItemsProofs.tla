-------------------------- MODULE WorkItemsProofs --------------------------
(***************************************************************************)
(* Proofs about WorkItems for every set of items, projects and containers. *)
(* The invariant is a property of single rows, so each service gets a      *)
(* lemma (it maps good rows to good rows) and each request is a            *)
(* composition of services.                                                *)
(***************************************************************************)
EXTENDS WorkItems, TLAPS

\* What every row satisfies, whoever wrote it last.  InPlace leaves out the
\* blocker flag, which Update sets before it changes the container.
InPlace(i, x) ==
    /\ x \in Row
    /\ x.status \in StatusesOf(TypeOf(i))
    /\ x.container # Backlog => ProjectOf[x.container] = x.project
    /\ ~x.moved => /\ x.cycle = 0 <=> x.container = Backlog
                   /\ x.cycleContainer = x.container

GoodRow(i, x) ==
    /\ InPlace(i, x)
    /\ x.blocker => i \in Bug /\ x.container \in Release

Created(x) == x.container \in Release => releaseStatus[x.container] # "none"

IInv ==
    /\ TypeOK
    /\ \A i \in DOMAIN item : GoodRow(i, item[i]) /\ Created(item[i])

\* What one step may do to a row: cycles are only lost on the way to the
\* backlog, only a return counts one, only a container that takes items gains
\* an item, and Done work leaves its container only as a return of production
\* work.
KeepsCycle(x, y) == y.cycle < x.cycle => y.container = Backlog /\ x.container # Backlog
KeepsCount(x, y) == x.cycle # 0 /\ y.container # Backlog => y.cycle = x.cycle
Steady(x, y) ==
    /\ KeepsCount(x, y)
    /\ y.status = "rejected" => x.status \notin RejectableStatuses
Returned(x, y) ==
    /\ y.status = "rejected" /\ x.status \in RejectableStatuses
    /\ x.cycle # 0 /\ y.container # Backlog => y.cycle = x.cycle + 1
Admits(c) == Exists(c) /\ ~Closed(c)
ReturnedToStream(x, y) ==
    y.status = "rejected" /\ Shipped(x.container) /\ y.container = StreamOf[x.project]

GoodStep(i, x, y) ==
    /\ GoodRow(i, y)
    /\ KeepsCycle(x, y)
    /\ Steady(x, y) \/ Returned(x, y)
    /\ y.container # x.container =>
          Admits(y.container) /\ (x.status = "done" => ReturnedToStream(x, y))

Stepped ==
    /\ item' = [i \in DOMAIN item' |-> item'[i]]
    /\ DOMAIN item' \subseteq Item
    /\ \A i \in DOMAIN item' \cap DOMAIN item : GoodStep(i, item[i], item'[i])
    /\ \A i \in DOMAIN item' \ DOMAIN item :
          GoodRow(i, item'[i]) /\ Admits(item'[i].container)
    /\ releaseStatus' \in [Release -> ReleaseStatuses \cup {"none"}]
    /\ releaseDeleted' \in [Release -> BOOLEAN]
    /\ \A r \in Release : releaseStatus[r] # "none" => releaseStatus'[r] # "none"

(***************************************************************************)
(* The services                                                            *)
(***************************************************************************)
LEMMA StreamIsNoRelease ==
    ASSUME NEW p \in Project
    PROVE  /\ StreamOf[p] \in Container /\ StreamOf[p] \notin Release
           /\ StreamOf[p] # Backlog
           /\ ProjectOf[StreamOf[p]] = p
    BY PlacesAssumption DEF Release

\* A status change stays in place and keeps the cycle.
LEMMA TransitionedGood ==
    ASSUME NEW i \in Item, NEW x, GoodRow(i, x),
           NEW to \in StatusesOf(TypeOf(i)), NEW d \in BOOLEAN
    PROVE  /\ GoodRow(i, Transitioned(x, to, d))
           /\ Transitioned(x, to, d).container = x.container
           /\ Transitioned(x, to, d).cycle = x.cycle
           /\ Transitioned(x, to, d).status = to
    <1>1. to \in Status
        BY DEF StatusesOf
    <1>2. QED
        BY <1>1 DEF GoodRow, InPlace, Transitioned, Row

\* An open status and a cancellation.
LEMMA ToDoGood ==
    ASSUME NEW i \in Item, NEW x, GoodRow(i, x)
    PROVE  /\ GoodRow(i, Transitioned(x, "todo", FALSE))
           /\ Transitioned(x, "todo", FALSE).container = x.container
           /\ Transitioned(x, "todo", FALSE).cycle = x.cycle
           /\ Transitioned(x, "todo", FALSE).status = "todo"
    <1>1. "todo" \in StatusesOf(TypeOf(i)) /\ FALSE \in BOOLEAN
        BY DEF StatusesOf, Status, BoardStatuses, TriageStatuses
    <1>2. "todo" \in Status
        BY <1>1 DEF StatusesOf
    <1>3. QED
        BY <1>1, <1>2 DEF GoodRow, InPlace, Transitioned, Row

LEMMA CancelledGood ==
    ASSUME NEW i \in Item, NEW x, GoodRow(i, x)
    PROVE  /\ GoodRow(i, Transitioned(x, "cancelled", TRUE))
           /\ Transitioned(x, "cancelled", TRUE).container = x.container
           /\ Transitioned(x, "cancelled", TRUE).cycle = x.cycle
           /\ Transitioned(x, "cancelled", TRUE).status = "cancelled"
    <1>1. "cancelled" \in StatusesOf(TypeOf(i)) /\ TRUE \in BOOLEAN
        BY DEF StatusesOf, Status, BoardStatuses, TriageStatuses
    <1>2. "cancelled" \in Status
        BY <1>1 DEF StatusesOf
    <1>3. QED
        BY <1>1, <1>2 DEF GoodRow, InPlace, Transitioned, Row

\* A placement in a container of the item's project, with the blocker flag
\* already edited.
LEMMA PlacedGood ==
    ASSUME NEW i \in Item, NEW x, InPlace(i, x),
           NEW c \in Place,
           c # Backlog => ProjectOf[c] = x.project,
           c # x.container => x.status # "done",
           x.blocker => i \in Bug /\ (c = x.container => c \in Release)
    PROVE  /\ GoodRow(i, Placed(x, c))
           /\ KeepsCycle(x, Placed(x, c))
           /\ KeepsCount(x, Placed(x, c))
           /\ Placed(x, c).container = c
           /\ Placed(x, c).status = x.status
           /\ Placed(x, c).project = x.project
    <1> DEFINE y == [x EXCEPT !.container = c, !.blocker = (@ /\ c \in Release)]
    <1>0. x \in Row /\ x.cycle \in Nat
        BY DEF InPlace, Row
    <1>1. CASE c = x.container
        BY <1>0, <1>1 DEF Placed, GoodRow, InPlace, KeepsCycle, KeepsCount
    <1>2. CASE c # x.container
        <2>1. Placed(x, c) = AfterContainerChange(y, x.container)
            BY <1>2 DEF Placed
        <2>2. /\ y \in Row /\ y.container = c /\ y.status = x.status
              /\ y.project = x.project /\ y.cycle = x.cycle /\ y.moved = x.moved
              /\ y.blocker => x.blocker /\ c \in Release
            BY <1>0, PlacesAssumption DEF Row, Place
        <2> HIDE DEF y
        <2>3. CASE c = Backlog
            <3> DEFINE w == OnMovedToBacklog(y)
            <3>1. AfterContainerChange(y, x.container) = w
                BY <1>2, <2>2, <2>3 DEF AfterContainerChange
            <3>2. /\ w \in Row /\ w.status = y.status /\ w.project = y.project
                  /\ w.container = y.container /\ w.blocker = y.blocker
                  /\ w.cycle = 0 /\ w.cycleContainer = Backlog
                BY <2>2 DEF OnMovedToBacklog, Row, Place
            <3> HIDE DEF w
            <3>3. w = Placed(x, c)
                BY <2>1, <3>1
            <3>4. QED
                BY <1>2, <2>2, <2>3, <3>2, <3>3
                   DEF GoodRow, InPlace, KeepsCycle, KeepsCount
        <2>4. CASE c # Backlog /\ (x.container = Backlog \/ x.cycle = 0)
            <3> DEFINE w == OnPlaced(y)
            <3>1. AfterContainerChange(y, x.container) = w
                BY <1>2, <2>2, <2>4 DEF AfterContainerChange
            <3>2. /\ w \in Row /\ w.status = y.status /\ w.project = y.project
                  /\ w.container = y.container /\ w.blocker = y.blocker
                  /\ w.moved = y.moved
                  /\ w.cycle = y.cycle \/ y.cycle = 0
                BY <2>2 DEF OnPlaced, Row, Place
            <3>3. ~x.moved => w.cycle # 0 /\ w.cycleContainer = c
                BY <2>2, <2>4 DEF OnPlaced, InPlace, Row, Place
            <3>4. w.cycle \in Nat
                BY <3>2 DEF Row
            <3> HIDE DEF w
            <3>5. ~(w.cycle < x.cycle)
                BY <1>0, <2>2, <3>2, <3>4
            <3>6. w = Placed(x, c)
                BY <2>1, <3>1
            <3>7. QED
                BY <2>2, <2>4, <3>2, <3>3, <3>5, <3>6
                   DEF GoodRow, InPlace, KeepsCycle, KeepsCount
        <2>5. CASE c # Backlog /\ ~(x.container = Backlog \/ x.cycle = 0)
            <3> DEFINE w == OnContainerChanged(y)
            <3>1. AfterContainerChange(y, x.container) = w
                BY <1>2, <2>2, <2>5 DEF AfterContainerChange
            <3>2. /\ w \in Row /\ w.status = y.status /\ w.project = y.project
                  /\ w.container = y.container /\ w.blocker = y.blocker
                  /\ w.cycle = y.cycle /\ w.cycleContainer = c
                BY <1>2, <2>2, <2>5 DEF OnContainerChanged, Row, Place
            <3> HIDE DEF w
            <3>3. ~(w.cycle < x.cycle)
                BY <1>0, <2>2, <3>2
            <3>4. w = Placed(x, c)
                BY <2>1, <3>1
            <3>5. QED
                BY <2>2, <2>5, <3>2, <3>3, <3>4
                   DEF GoodRow, InPlace, KeepsCycle, KeepsCount
        <2>6. QED
            BY <2>3, <2>4, <2>5
    <1>3. QED
        BY <1>1, <1>2

\* The same for the whole placement part of an edit, which may leave To do
\* in place of Rejected.
LEMMA RelocatedGood ==
    ASSUME NEW i \in Item, NEW x, InPlace(i, x),
           NEW c \in Place,
           c # Backlog => ProjectOf[c] = x.project,
           c # x.container => x.status # "done",
           x.blocker => i \in Bug /\ (c = x.container => c \in Release)
    PROVE  /\ GoodRow(i, Relocated(x, c))
           /\ KeepsCycle(x, Relocated(x, c))
           /\ KeepsCount(x, Relocated(x, c))
           /\ Relocated(x, c).container = c
           /\ Relocated(x, c).status \in {x.status, "todo"}
    <1>1. /\ GoodRow(i, Placed(x, c))
          /\ KeepsCycle(x, Placed(x, c))
          /\ KeepsCount(x, Placed(x, c))
          /\ Placed(x, c).container = c
          /\ Placed(x, c).status = x.status
        BY PlacedGood
    <1>2. "todo" \in StatusesOf(TypeOf(i))
        BY DEF StatusesOf, Status, BoardStatuses, TriageStatuses
    <1> DEFINE w == Transitioned(Placed(x, c), "todo", FALSE)
    <1>3. /\ GoodRow(i, w)
          /\ w.container = c
          /\ w.cycle = Placed(x, c).cycle
          /\ w.status = "todo"
        BY <1>1, <1>2, TransitionedGood
    <1>4. KeepsCycle(x, w) /\ KeepsCount(x, w)
        BY <1>1, <1>3 DEF KeepsCycle, KeepsCount
    <1>5. Relocated(x, c) = Placed(x, c) \/ Relocated(x, c) = w
        BY DEF Relocated
    <1> HIDE DEF w
    <1>6. QED
        BY <1>1, <1>3, <1>4, <1>5

\* A return keeps the row in place, or brings Done work of a Released release
\* back in the Stream of its project.
LEMMA RejectedWithGood ==
    ASSUME NEW i \in Item, NEW x, GoodRow(i, x)
    PROVE  /\ GoodRow(i, RejectedWith(x))
           /\ KeepsCycle(x, RejectedWith(x))
           /\ RejectedWith(x).status = "rejected"
           /\ x.cycle # 0 /\ RejectedWith(x).container # Backlog =>
                 RejectedWith(x).cycle = x.cycle + 1
           /\ \/ RejectedWith(x).container = x.container
              \/ ReturnedToStream(x, RejectedWith(x))
    <1> DEFINE y == Transitioned(x, "rejected", FALSE)
               t == [y EXCEPT !.container = StreamOf[x.project], !.blocker = FALSE]
               z == IF x.status = "done" /\ Shipped(x.container) THEN t ELSE y
               w == StartReturn(z)
    <1>1. "rejected" \in StatusesOf(TypeOf(i))
        BY DEF StatusesOf, Status, BoardStatuses, TriageStatuses
    <1>2. GoodRow(i, y) /\ y.container = x.container /\ y.status = "rejected"
        BY <1>1, TransitionedGood
    <1>3. y.project = x.project /\ y.cycle = x.cycle /\ y.moved = x.moved
        BY DEF Transitioned, GoodRow, InPlace, Row
    <1>4. x.project \in Project /\ x.cycle \in Nat
        BY DEF GoodRow, InPlace, Row
    <1>5. RejectedWith(x) = w
        BY DEF RejectedWith
    <1> DEFINE Counts == /\ w.status = "rejected"
                         /\ x.cycle # 0 /\ w.container # Backlog => w.cycle = x.cycle + 1
    <1> HIDE DEF y
    <1>6. ASSUME x.status = "done" /\ Shipped(x.container)
          PROVE  /\ GoodRow(i, w) /\ KeepsCycle(x, w) /\ ReturnedToStream(x, w)
                 /\ Counts
        <2>1. /\ StreamOf[x.project] \in Place /\ StreamOf[x.project] # Backlog
              /\ ProjectOf[StreamOf[x.project]] = x.project
            BY <1>4, StreamIsNoRelease DEF Place
        <2>2. /\ t \in Row /\ t.status = "rejected" /\ t.project = x.project
              /\ t.container = StreamOf[x.project] /\ t.blocker = FALSE
              /\ t.cycle = x.cycle
            BY <1>2, <1>3, <2>1 DEF GoodRow, InPlace, Row
        <2> HIDE DEF t
        <2> DEFINE n == t.cycle + 1
        <2>3. n \in Nat /\ n # 0 /\ ~(n < x.cycle) /\ n = x.cycle + 1
            BY <1>4, <2>2
        <2>4. w = [t EXCEPT !.cycle = n, !.cycleContainer = t.container]
            BY <1>6, <2>1, <2>2 DEF StartReturn
        <2> HIDE DEF n, w
        <2>5. /\ w \in Row /\ w.status = "rejected" /\ w.project = x.project
              /\ w.container = StreamOf[x.project] /\ w.blocker = FALSE
              /\ w.cycle = n /\ w.cycleContainer = w.container
            BY <2>1, <2>2, <2>3, <2>4 DEF Row
        <2>6. QED
            BY <1>1, <1>6, <2>1, <2>3, <2>5
               DEF GoodRow, InPlace, KeepsCycle, ReturnedToStream
    <1>7. ASSUME ~(x.status = "done" /\ Shipped(x.container)), x.container = Backlog
          PROVE  /\ GoodRow(i, w) /\ KeepsCycle(x, w) /\ w.container = x.container
                 /\ Counts
        <2>1. w = y
            BY <1>2, <1>7 DEF StartReturn
        <2> HIDE DEF w
        <2>2. ~(w.cycle < x.cycle)
            BY <1>3, <1>4, <2>1
        <2>3. QED
            BY <1>2, <1>7, <2>1, <2>2 DEF KeepsCycle
    <1>8. ASSUME ~(x.status = "done" /\ Shipped(x.container)), x.container # Backlog
          PROVE  /\ GoodRow(i, w) /\ KeepsCycle(x, w) /\ w.container = x.container
                 /\ Counts
        <2> DEFINE n == y.cycle + 1
        <2>1. n \in Nat /\ n # 0 /\ ~(n < x.cycle) /\ n = x.cycle + 1
            BY <1>3, <1>4
        <2>2. w = [y EXCEPT !.cycle = n, !.cycleContainer = y.container]
            BY <1>2, <1>8 DEF StartReturn
        <2> HIDE DEF n, w
        <2>3. y \in Row
            BY <1>2 DEF GoodRow, InPlace
        <2>4. /\ w \in Row /\ w.status = y.status /\ w.project = y.project
              /\ w.container = y.container /\ w.blocker = y.blocker
              /\ w.cycle = n /\ w.cycleContainer = w.container
            BY <2>1, <2>2, <2>3 DEF Row
        <2>5. QED
            BY <1>2, <1>8, <2>1, <2>4 DEF GoodRow, InPlace, KeepsCycle
    <1>9. QED
        BY <1>5, <1>6, <1>7, <1>8

(***************************************************************************)
(* The requests                                                            *)
(***************************************************************************)
LEMMA RowUntouched ==
    ASSUME IInv, NEW i \in DOMAIN item
    PROVE  GoodStep(i, item[i], item[i])
    <1>1. item[i].cycle \in Nat
        BY DEF IInv, GoodRow, InPlace, Row
    <1>2. QED
        BY <1>1 DEF IInv, GoodStep, KeepsCycle, Steady, KeepsCount, RejectableStatuses,
                    ReviewStatuses

\* A request that writes one row and no release.
LEMMA OneRowWritten ==
    ASSUME IInv, NEW i \in DOMAIN item, NEW v, GoodStep(i, item[i], v),
           item' = [item EXCEPT ![i] = v],
           UNCHANGED <<releaseStatus, releaseDeleted>>
    PROVE  Stepped
    <1>1. item = [j \in DOMAIN item |-> item[j]]
        BY DEF IInv, TypeOK
    <1>2. /\ item' = [j \in DOMAIN item |-> IF j = i THEN v ELSE item[j]]
          /\ DOMAIN item' = DOMAIN item
        BY <1>1
    <1>3. \A j \in DOMAIN item : GoodStep(j, item[j], item'[j])
        BY <1>2, RowUntouched
    <1>4. QED
        BY <1>2, <1>3 DEF Stepped, IInv, TypeOK

\* A row that stays in its container, or moves to one that takes items.
LEMMA StayingStep ==
    ASSUME NEW i, NEW x, NEW y, GoodRow(i, y), KeepsCycle(x, y), Steady(x, y),
           y.container = x.container
    PROVE  GoodStep(i, x, y)
    BY DEF GoodStep

LEMMA MovingStep ==
    ASSUME NEW i, NEW x, NEW y, GoodRow(i, y), KeepsCycle(x, y), Steady(x, y),
           x.status # "done", Admits(y.container)
    PROVE  GoodStep(i, x, y)
    BY DEF GoodStep

LEMMA PlacesTaken ==
    ASSUME NEW p \in Project, NEW c, TakesItemsOf(c, p)
    PROVE  /\ c \in Place /\ Admits(c)
           /\ c # Backlog => ProjectOf[c] = p
    BY PlacesAssumption DEF TakesItemsOf, Place, Admits, Exists, Closed, Release

LEMMA MoveWithinType ==
    ASSUME NEW i \in Item, NEW from \in StatusesOf(TypeOf(i)), NEW to,
           CanTransition(TypeOf(i), from, to, FALSE)
    PROVE  to \in StatusesOf(TypeOf(i)) /\ to # "rejected"
    BY DEF CanTransition, AllowedTargets

\* A status change of a good row is a good step; only a return rejects.
LEMMA TransitionedStep ==
    ASSUME NEW i \in Item, NEW x, GoodRow(i, x),
           NEW to \in StatusesOf(TypeOf(i)), to # "rejected", NEW d \in BOOLEAN
    PROVE  GoodStep(i, x, Transitioned(x, to, d))
    <1>1. x.cycle \in Nat
        BY DEF GoodRow, InPlace, Row
    <1>2. QED
        BY <1>1, TransitionedGood DEF GoodStep, KeepsCycle, Steady, KeepsCount

LEMMA RejectedStep ==
    ASSUME NEW i \in Item, NEW x, GoodRow(i, x), x.status \in RejectableStatuses
    PROVE  GoodStep(i, x, RejectedWith(x))
    <1>1. x.project \in Project
        BY DEF GoodRow, InPlace, Row
    <1>2. Admits(StreamOf[x.project])
        BY <1>1, StreamIsNoRelease DEF Admits, Exists, Closed
    <1>3. QED
        BY <1>2, RejectedWithGood DEF GoodStep, ReturnedToStream, Returned

LEMMA FileStep ==
    ASSUME IInv, NEW i \in Item, NEW p \in Project, NEW c \in Place,
           NEW s \in Status, NEW b \in BOOLEAN, File(i, p, c, s, b)
    PROVE  Stepped
    <1> DEFINE x == [status |-> s, project |-> p, container |-> c,
                     cycle |-> 0, cycleContainer |-> Backlog,
                     blocker |-> b, duplicate |-> FALSE, parent |-> NoItem,
                     trashed |-> FALSE, moved |-> FALSE]
               v == OnPlaced(x)
    <1>1. /\ i \notin DOMAIN item
          /\ item' = [j \in DOMAIN item \cup {i} |-> IF j = i THEN v ELSE item[j]]
          /\ UNCHANGED <<releaseStatus, releaseDeleted>>
        BY DEF File
    <1>2. Admits(c) /\ (c # Backlog => ProjectOf[c] = p)
        BY PlacesTaken DEF File
    <1>3. s \in StatusesOf(TypeOf(i))
        BY DEF File, StatusesOf, TypeOf, Status, BoardStatuses, TriageStatuses
    <1>4. b => i \in Bug /\ c \in Release
        BY DEF File, BlockerAllowed
    <1>5. x \in Row /\ x.status = s /\ x.project = p /\ x.container = c
          /\ x.blocker = b /\ x.moved = FALSE /\ x.cycle = 0
          /\ x.cycleContainer = Backlog
        BY DEF Row, Place
    <1> HIDE DEF x
    <1>6. GoodRow(i, v) /\ v.container = c
        <2>1. CASE c = Backlog
            <3>1. v = x
                BY <1>5, <2>1 DEF OnPlaced
            <3>2. QED
                BY <1>3, <1>4, <1>5, <2>1, <3>1 DEF GoodRow, InPlace
        <2>2. CASE c # Backlog
            <3>1. v = [x EXCEPT !.cycle = 1, !.cycleContainer = c]
                BY <1>5, <2>2 DEF OnPlaced
            <3> HIDE DEF v
            <3>2. /\ v \in Row /\ v.status = s /\ v.project = p /\ v.container = c
                  /\ v.blocker = b /\ v.cycle = 1 /\ v.cycleContainer = c
                BY <1>5, <3>1 DEF Row
            <3>3. QED
                BY <1>2, <1>3, <1>4, <2>2, <3>2 DEF GoodRow, InPlace
        <2>3. QED
            BY <2>1, <2>2
    <1> HIDE DEF v
    <1>7. /\ item' = [j \in DOMAIN item' |-> item'[j]]
          /\ DOMAIN item' = DOMAIN item \cup {i}
          /\ item'[i] = v
          /\ \A j \in DOMAIN item : item'[j] = item[j]
        BY <1>1
    <1>8. QED
        BY <1>1, <1>2, <1>6, <1>7, RowUntouched DEF Stepped, IInv, TypeOK

LEMMA UpdateStep ==
    ASSUME IInv, NEW i \in Item, NEW c \in Place, NEW b \in BOOLEAN,
           Update(i, c, b)
    PROVE  Stepped
    <1> DEFINE x == item[i]
               e == [x EXCEPT !.blocker = b]
               y == Relocated(e, c)
               v(s, d) == IF s = y.status THEN y ELSE Transitioned(y, s, d)
    <1>0. PICK s \in Status : \E d \in DuplicateChoices(i, s) :
            /\ s # y.status => CanTransition(TypeOf(i), y.status, s, FALSE)
            /\ item' = [item EXCEPT ![i] = v(s, d)]
        BY DEF Update
    <1>p. PICK d \in BOOLEAN :
            /\ s # y.status => CanTransition(TypeOf(i), y.status, s, FALSE)
            /\ item' = [item EXCEPT ![i] = v(s, d)]
        BY <1>0 DEF DuplicateChoices
    <1> DEFINE w == IF s = y.status THEN y ELSE Transitioned(y, s, d)
    <1>1. /\ i \in DOMAIN item
          /\ c # x.container => x.status # "done" /\ TakesItemsOf(c, x.project)
          /\ b /\ ~x.blocker => BlockerAllowed(i, c)
          /\ s # y.status => CanTransition(TypeOf(i), y.status, s, FALSE)
          /\ item' = [item EXCEPT ![i] = w]
          /\ UNCHANGED <<releaseStatus, releaseDeleted>>
        BY <1>p DEF Update, PlacementAllowed, Visible
    <1>2. GoodRow(i, x)
        BY <1>1 DEF IInv
    <1>3. x \in Row /\ x.project \in Project /\ x.cycle \in Nat
        BY <1>2 DEF GoodRow, InPlace, Row
    <1>4. /\ e \in Row /\ e.status = x.status /\ e.project = x.project
          /\ e.container = x.container /\ e.blocker = b /\ e.cycle = x.cycle
          /\ e.moved = x.moved /\ e.cycleContainer = x.cycleContainer
        BY <1>3 DEF Row
    <1>5. c # x.container => Admits(c) /\ x.status # "done"
        BY <1>1, <1>3, PlacesTaken
    <1>6. c # Backlog => ProjectOf[c] = x.project
        BY <1>1, <1>2, <1>3, PlacesTaken DEF GoodRow, InPlace
    <1>7. b => i \in Bug /\ (c = x.container => c \in Release)
        BY <1>1, <1>2 DEF GoodRow, BlockerAllowed
    <1> HIDE DEF e, w
    <1>8. InPlace(i, e)
        BY <1>2, <1>4 DEF GoodRow, InPlace
    <1>9. /\ GoodRow(i, y) /\ KeepsCycle(e, y) /\ KeepsCount(e, y)
          /\ y.container = c /\ y.status \in {x.status, "todo"}
        BY <1>4, <1>5, <1>6, <1>7, <1>8, RelocatedGood
    <1> HIDE DEF y
    <1>10. KeepsCycle(x, y) /\ Steady(x, y)
        BY <1>4, <1>9 DEF KeepsCycle, KeepsCount, Steady, RejectableStatuses, ReviewStatuses
    <1>11. s # y.status => s \in StatusesOf(TypeOf(i)) /\ s # "rejected"
        BY <1>1, <1>9, MoveWithinType DEF GoodRow, InPlace
    <1>12. GoodRow(i, w) /\ KeepsCycle(x, w) /\ Steady(x, w) /\ w.container = c
        <2>1. CASE s = y.status
            BY <1>9, <1>10, <2>1 DEF w
        <2>2. CASE s # y.status
            <3>1. w = Transitioned(y, s, d)
                BY <2>2 DEF w
            <3>2. /\ GoodRow(i, w) /\ w.container = y.container /\ w.cycle = y.cycle
                  /\ w.status = s
                BY <1>9, <1>11, <2>2, <3>1, TransitionedGood
            <3>3. QED
                BY <1>9, <1>10, <1>11, <2>2, <3>2 DEF KeepsCycle, Steady, KeepsCount
        <2>3. QED
            BY <2>1, <2>2
    <1>13. GoodStep(i, x, w)
        BY <1>5, <1>12, StayingStep, MovingStep
    <1>14. QED
        BY <1>1, <1>13, OneRowWritten

LEMMA TransitionStep ==
    ASSUME IInv, NEW i \in Item, NEW to, NEW d \in BOOLEAN,
           \/ Transition(i, to, d)
           \/ TriageMove(i, to) /\ d = FALSE
    PROVE  Stepped
    <1>1. /\ i \in DOMAIN item
          /\ item' = [item EXCEPT ![i] = Transitioned(item[i], to, d)]
          /\ UNCHANGED <<releaseStatus, releaseDeleted>>
        BY DEF Transition, TriageMove, InTriage, Visible
    <1>2. GoodRow(i, item[i])
        BY <1>1 DEF IInv
    <1>3. to \in StatusesOf(TypeOf(i)) /\ to # "rejected"
        <2>1. CASE Transition(i, to, d)
            BY <1>2, <2>1, MoveWithinType DEF Transition, GoodRow, InPlace
        <2>2. CASE TriageMove(i, to)
            BY <1>2, <2>2
               DEF TriageMove, InTriage, GoodRow, InPlace, StatusesOf, Status,
                   TriageStatuses
        <2>3. QED
            BY <2>1, <2>2
    <1>4. QED
        BY <1>1, <1>2, <1>3, TransitionedStep, OneRowWritten

LEMMA RejectRequestStep ==
    ASSUME IInv, NEW i \in Item, Reject(i)
    PROVE  Stepped
    <1>1. /\ i \in DOMAIN item /\ item[i].status \in RejectableStatuses
          /\ item' = [item EXCEPT ![i] = RejectedWith(item[i])]
          /\ UNCHANGED <<releaseStatus, releaseDeleted>>
        BY DEF Reject, Visible
    <1>2. GoodRow(i, item[i])
        BY <1>1 DEF IInv
    <1>3. QED
        BY <1>1, <1>2, RejectedStep, OneRowWritten

LEMMA AcceptStep ==
    ASSUME IInv, NEW i \in Item, NEW c \in Place, Accept(i, c)
    PROVE  Stepped
    <1> DEFINE x == item[i]
               y == Placed(x, c)
               v == Transitioned(y, "todo", FALSE)
    <1>1. /\ i \in DOMAIN item /\ x.status # "done"
          /\ c # x.container => TakesItemsOf(c, x.project)
          /\ item' = [item EXCEPT ![i] = v]
          /\ UNCHANGED <<releaseStatus, releaseDeleted>>
        BY DEF Accept, InTriage, Visible, TriageStatuses
    <1>2. GoodRow(i, x)
        BY <1>1 DEF IInv
    <1>3. x.project \in Project /\ x.cycle \in Nat
        BY <1>2 DEF GoodRow, InPlace, Row
    <1>4. c # x.container => Admits(c)
        BY <1>1, <1>3, PlacesTaken
    <1>5. c # Backlog => ProjectOf[c] = x.project
        BY <1>1, <1>2, <1>3, PlacesTaken DEF GoodRow, InPlace
    <1>6. InPlace(i, x) /\ (x.blocker => i \in Bug /\ (c = x.container => c \in Release))
        BY <1>2 DEF GoodRow
    <1> HIDE DEF v
    <1>7. GoodRow(i, y) /\ KeepsCycle(x, y) /\ KeepsCount(x, y) /\ y.container = c
        BY <1>1, <1>5, <1>6, PlacedGood
    <1> HIDE DEF y
    <1>9. GoodRow(i, v) /\ v.container = c /\ v.cycle = y.cycle /\ v.status = "todo"
        BY <1>7, ToDoGood DEF v
    <1>10. KeepsCycle(x, v) /\ Steady(x, v)
        BY <1>7, <1>9 DEF KeepsCycle, KeepsCount, Steady
    <1>11. GoodStep(i, x, v)
        BY <1>1, <1>4, <1>9, <1>10, StayingStep, MovingStep
    <1>12. QED
        BY <1>1, <1>11, OneRowWritten

LEMMA DuplicateStep ==
    ASSUME IInv, NEW i \in Item, NEW o \in Item, Duplicate(i, o)
    PROVE  Stepped
    <1> DEFINE x == Transitioned(item[i], "cancelled", TRUE)
               v == [x EXCEPT !.parent = o]
               u == IF item[o].status = "done" THEN RejectedWith(item[o]) ELSE item[o]
    <1>1. /\ i \in DOMAIN item /\ o \in DOMAIN item /\ i # o
          /\ UNCHANGED <<releaseStatus, releaseDeleted>>
        BY DEF Duplicate, InTriage, Visible
    <1>2. item' = [item EXCEPT ![i] = v, ![o] = u]
        BY <1>1 DEF Duplicate
    <1>3. GoodRow(i, item[i]) /\ GoodRow(o, item[o])
        BY <1>1 DEF IInv
    <1>5. /\ GoodRow(i, x) /\ x.container = item[i].container
          /\ x.cycle = item[i].cycle /\ x.status = "cancelled"
        <2> DEFINE r == item[i]
        <2>1. GoodRow(i, r)
            BY <1>3
        <2> HIDE DEF r, v, u
        <2>2. /\ GoodRow(i, Transitioned(r, "cancelled", TRUE))
              /\ Transitioned(r, "cancelled", TRUE).container = r.container
              /\ Transitioned(r, "cancelled", TRUE).cycle = r.cycle
              /\ Transitioned(r, "cancelled", TRUE).status = "cancelled"
            BY <2>1, CancelledGood
        <2>3. QED
            BY <2>2 DEF r
    <1>6. GoodStep(o, item[o], u)
        BY <1>1, <1>3, RejectedStep, RowUntouched DEF RejectableStatuses
    <1> HIDE DEF x, u
    <1>7. /\ x \in Row
          /\ v \in Row /\ v.status = x.status /\ v.project = x.project
          /\ v.container = x.container /\ v.cycle = x.cycle
          /\ v.cycleContainer = x.cycleContainer /\ v.blocker = x.blocker
          /\ v.moved = x.moved
        BY <1>5 DEF GoodRow, InPlace, Row
    <1> HIDE DEF v
    <1>8. GoodRow(i, v)
        BY <1>5, <1>7 DEF GoodRow, InPlace
    <1>9. KeepsCycle(item[i], v) /\ Steady(item[i], v)
        <2>1. item[i].cycle \in Nat
            BY <1>3 DEF GoodRow, InPlace, Row
        <2>2. QED
            BY <1>5, <1>7, <2>1 DEF KeepsCycle, KeepsCount, Steady
    <1>10. GoodStep(i, item[i], v)
        BY <1>5, <1>7, <1>8, <1>9, StayingStep
    <1>11. item = [j \in DOMAIN item |-> item[j]]
        BY DEF IInv, TypeOK
    <1>12. /\ item' = [j \in DOMAIN item' |-> item'[j]]
           /\ DOMAIN item' = DOMAIN item
           /\ item'[i] = v /\ item'[o] = u
           /\ \A j \in DOMAIN item \ {i, o} : item'[j] = item[j]
        BY <1>1, <1>2, <1>11
    <1>13. \A j \in DOMAIN item : GoodStep(j, item[j], item'[j])
        BY <1>6, <1>10, <1>12, RowUntouched
    <1>14. QED
        BY <1>1, <1>12, <1>13 DEF Stepped, IInv, TypeOK

LEMMA MoveProjectStep ==
    ASSUME IInv, NEW i \in Item, NEW p \in Project, NEW c \in Place,
           MoveProject(i, p, c)
    PROVE  Stepped
    <1> DEFINE x == item[i]
               v == Moved(x, p, c)
    <1>1. /\ i \in DOMAIN item /\ x.status # "done"
          /\ item' = [item EXCEPT ![i] = v]
          /\ UNCHANGED <<releaseStatus, releaseDeleted>>
        BY DEF MoveProject, Visible
    <1>2. Admits(c) /\ (c # Backlog => ProjectOf[c] = p)
        BY PlacesTaken DEF MoveProject
    <1>3. GoodRow(i, x)
        BY <1>1 DEF IInv
    <1>4. x \in Row /\ x.cycle \in Nat
        BY <1>3 DEF GoodRow, InPlace, Row
    <1>5. /\ v \in Row /\ v.status = x.status /\ v.project = p
          /\ v.container = c /\ v.cycle = x.cycle /\ v.moved = TRUE
          /\ v.blocker => x.blocker /\ c \in Release
        BY <1>4 DEF Moved, Row
    <1> HIDE DEF v
    <1>6. GoodRow(i, v)
        BY <1>2, <1>3, <1>5 DEF GoodRow, InPlace
    <1>7. KeepsCycle(x, v) /\ Steady(x, v)
        BY <1>4, <1>5 DEF KeepsCycle, KeepsCount, Steady, RejectableStatuses, ReviewStatuses
    <1>8. GoodStep(i, x, v)
        BY <1>1, <1>2, <1>5, <1>6, <1>7, MovingStep
    <1>9. QED
        BY <1>1, <1>8, OneRowWritten

LEMMA TrashStep ==
    ASSUME IInv, NEW i \in Item, Trash(i) \/ Restore(i)
    PROVE  Stepped
    <1> DEFINE x == item[i]
               v(b) == [x EXCEPT !.trashed = b]
    <1>1. /\ i \in DOMAIN item
          /\ item' = [item EXCEPT ![i] = v(TRUE)] \/ item' = [item EXCEPT ![i] = v(FALSE)]
          /\ UNCHANGED <<releaseStatus, releaseDeleted>>
        BY DEF Trash, Restore, Visible
    <1>2. GoodRow(i, x)
        BY <1>1 DEF IInv
    <1>3. ASSUME NEW b \in BOOLEAN PROVE GoodStep(i, x, v(b))
        <2>1. x \in Row /\ x.cycle \in Nat
            BY <1>2 DEF GoodRow, InPlace, Row
        <2> DEFINE w == v(b)
        <2>2. /\ w \in Row /\ w.status = x.status /\ w.project = x.project
              /\ w.container = x.container /\ w.cycle = x.cycle
              /\ w.cycleContainer = x.cycleContainer /\ w.blocker = x.blocker
              /\ w.moved = x.moved
            BY <2>1 DEF Row
        <2> HIDE DEF w
        <2>3. GoodRow(i, w) /\ KeepsCycle(x, w) /\ Steady(x, w)
            BY <1>2, <2>1, <2>2 DEF GoodRow, InPlace, KeepsCycle, KeepsCount, Steady,
                                    RejectableStatuses, ReviewStatuses
        <2>4. GoodStep(i, x, w)
            BY <2>2, <2>3, StayingStep
        <2>5. QED
            BY <2>4 DEF w
    <1>4. GoodStep(i, x, v(TRUE)) /\ GoodStep(i, x, v(FALSE))
        BY <1>3
    <1> HIDE DEF v
    <1>5. QED
        BY <1>1, <1>4, OneRowWritten

\* A request that rewrites rows in place and no release.
LEMMA RowsWritten ==
    ASSUME IInv,
           item' = [i \in DOMAIN item' |-> item'[i]],
           DOMAIN item' \subseteq DOMAIN item,
           \A i \in DOMAIN item' : GoodStep(i, item[i], item'[i]),
           releaseStatus' \in [Release -> ReleaseStatuses \cup {"none"}],
           releaseDeleted' \in [Release -> BOOLEAN],
           \A r \in Release : releaseStatus[r] # "none" => releaseStatus'[r] # "none"
    PROVE  Stepped
    BY DEF Stepped, IInv, TypeOK

LEMMA BulkMoveStep ==
    ASSUME IInv, NEW S \in SUBSET Item, NEW c \in Container, BulkMove(S, c)
    PROVE  Stepped
    <1>1. /\ S \subseteq DOMAIN item /\ Admits(c)
          /\ \A i \in S : /\ item[i].project = ProjectOf[c]
                          /\ item[i].status = "done" => item[i].container = c
          /\ item' = [i \in DOMAIN item |->
                        IF i \in S THEN Relocated(item[i], c) ELSE item[i]]
          /\ UNCHANGED <<releaseStatus, releaseDeleted>>
        BY DEF BulkMove, Visible, Admits
    <1>2. c \in Place
        BY DEF Place
    <1>3. ASSUME NEW i \in S PROVE GoodStep(i, item[i], Relocated(item[i], c))
        <2> DEFINE x == item[i]
                   y == Relocated(x, c)
        <2>1. i \in Item /\ GoodRow(i, x)
            BY <1>1 DEF IInv, TypeOK
        <2>2. InPlace(i, x) /\ (x.blocker => i \in Bug /\ (c = x.container => c \in Release))
            BY <2>1 DEF GoodRow
        <2>3. /\ c # Backlog => ProjectOf[c] = x.project
              /\ c # x.container => x.status # "done"
            BY <1>1
        <2> HIDE DEF x
        <2>4. /\ GoodRow(i, y) /\ KeepsCycle(x, y) /\ KeepsCount(x, y)
              /\ y.container = c /\ y.status \in {x.status, "todo"}
            BY <1>2, <2>1, <2>2, <2>3, RelocatedGood
        <2> HIDE DEF y
        <2>s. Steady(x, y)
            BY <2>4 DEF Steady, RejectableStatuses, ReviewStatuses
        <2>5. GoodStep(i, x, y)
            BY <1>1, <2>3, <2>4, <2>s, StayingStep, MovingStep
        <2>6. QED
            BY <2>5 DEF x, y
    <1>4. /\ item' = [i \in DOMAIN item' |-> item'[i]]
          /\ DOMAIN item' = DOMAIN item
          /\ \A i \in DOMAIN item :
                item'[i] = IF i \in S THEN Relocated(item[i], c) ELSE item[i]
        BY <1>1
    <1>5. \A i \in DOMAIN item : GoodStep(i, item[i], item'[i])
        BY <1>3, <1>4, RowUntouched
    <1>6. QED
        BY <1>1, <1>4, <1>5, RowsWritten DEF IInv, TypeOK

LEMMA PurgeStep ==
    ASSUME IInv, NEW S \in SUBSET Item, Purge(S)
    PROVE  Stepped
    <1> DEFINE v(i) == [item[i] EXCEPT !.parent = IF @ \in S THEN NoItem ELSE @]
    <1>1. /\ item' = [i \in DOMAIN item \ S |-> v(i)]
          /\ UNCHANGED <<releaseStatus, releaseDeleted>>
        BY DEF Purge
    <1>2. ASSUME NEW i \in DOMAIN item PROVE GoodStep(i, item[i], v(i))
        <2> DEFINE x == item[i]
                   q == IF x.parent \in S THEN NoItem ELSE x.parent
                   w == [x EXCEPT !.parent = q]
        <2>1. GoodRow(i, x)
            BY DEF IInv
        <2>2. x \in Row /\ x.cycle \in Nat /\ q \in Item \cup {NoItem}
            BY <2>1 DEF GoodRow, InPlace, Row
        <2>3. v(i) = w
            OBVIOUS
        <2> HIDE DEF q
        <2>4. /\ w \in Row /\ w.status = x.status /\ w.project = x.project
              /\ w.container = x.container /\ w.cycle = x.cycle
              /\ w.cycleContainer = x.cycleContainer /\ w.blocker = x.blocker
              /\ w.moved = x.moved
            BY <2>2 DEF Row
        <2> HIDE DEF w, v
        <2>5. GoodRow(i, w) /\ KeepsCycle(x, w) /\ Steady(x, w)
            BY <2>1, <2>2, <2>4 DEF GoodRow, InPlace, KeepsCycle, KeepsCount, Steady,
                                    RejectableStatuses, ReviewStatuses
        <2>6. QED
            BY <2>3, <2>4, <2>5, StayingStep
    <1> HIDE DEF v
    <1>3. /\ item' = [i \in DOMAIN item' |-> item'[i]]
          /\ DOMAIN item' \subseteq DOMAIN item
          /\ \A i \in DOMAIN item' : item'[i] = v(i)
        BY <1>1
    <1>4. \A i \in DOMAIN item' : GoodStep(i, item[i], item'[i])
        BY <1>2, <1>3
    <1>5. QED
        BY <1>1, <1>3, <1>4, RowsWritten DEF IInv, TypeOK

\* The rows a ship or a cancel rewrites.
LEMMA OpenItemsMoved ==
    ASSUME IInv, NEW r \in Release, NEW i \in DOMAIN item,
           item' = OpenItemsMovedToBacklog(r)
    PROVE  /\ GoodStep(i, item[i], item'[i])
           /\ IF i \in OpenItemsIn(r)
              THEN item'[i].container = Backlog /\ item'[i].status = "todo"
              ELSE item'[i] = item[i]
    <1> DEFINE x == item[i]
               y == IF x.status = "todo" THEN x ELSE Transitioned(x, "todo", FALSE)
               w == Relocated(y, Backlog)
    <1>1. item'[i] = IF i \in OpenItemsIn(r) THEN w ELSE x
        BY DEF OpenItemsMovedToBacklog
    <1>2. GoodRow(i, x) /\ i \in Item
        BY DEF IInv, TypeOK
    <1>3. CASE i \in OpenItemsIn(r)
        <2>1. x.status # "done"
            BY <1>3 DEF OpenItemsIn, OpenStatuses
        <2> HIDE DEF x
        <2>3. /\ GoodRow(i, y) /\ y.container = x.container
              /\ y.cycle = x.cycle /\ y.status = "todo"
            <3>1. CASE x.status = "todo"
                BY <1>2, <3>1
            <3>2. CASE x.status # "todo"
                BY <1>2, <3>2, ToDoGood
            <3>3. QED
                BY <3>1, <3>2
        <2> HIDE DEF y
        <2>4. /\ InPlace(i, y)
              /\ y.blocker => i \in Bug /\ (Backlog = y.container => Backlog \in Release)
            BY <2>3 DEF GoodRow
        <2>5. Backlog \in Place /\ Admits(Backlog)
            BY PlacesAssumption DEF Place, Admits, Exists, Closed, Release
        <2>6. /\ GoodRow(i, w) /\ KeepsCycle(y, w) /\ w.container = Backlog
              /\ w.status = "todo"
            BY <1>2, <2>3, <2>4, <2>5, RelocatedGood
        <2> HIDE DEF w
        <2>7. KeepsCycle(x, w) /\ Steady(x, w)
            BY <2>3, <2>6 DEF KeepsCycle, KeepsCount, Steady
        <2>8. GoodStep(i, x, w)
            BY <2>1, <2>5, <2>6, <2>7, MovingStep
        <2>9. QED
            BY <1>1, <1>3, <2>6, <2>8 DEF x
    <1>4. CASE i \notin OpenItemsIn(r)
        BY <1>1, <1>4, RowUntouched
    <1>5. QED
        BY <1>3, <1>4

LEMMA ReleaseRequestStep ==
    ASSUME IInv, NEW r \in Release, ReleaseRequest(r)
    PROVE  Stepped
    <1> DEFINE Rows == /\ item' = [i \in DOMAIN item' |-> item'[i]]
                       /\ DOMAIN item' \subseteq DOMAIN item
                       /\ \A i \in DOMAIN item' : GoodStep(i, item[i], item'[i])
               Releases == /\ releaseStatus' \in [Release -> ReleaseStatuses \cup {"none"}]
                           /\ releaseDeleted' \in [Release -> BOOLEAN]
                           /\ \A q \in Release :
                                 releaseStatus[q] # "none" => releaseStatus'[q] # "none"
    <1>1. Rows
        <2>1. CASE item' = item
            BY <2>1, RowUntouched DEF IInv, TypeOK
        <2>2. CASE item' = OpenItemsMovedToBacklog(r)
            <3>1. item' = [i \in DOMAIN item' |-> item'[i]] /\ DOMAIN item' = DOMAIN item
                BY <2>2 DEF OpenItemsMovedToBacklog
            <3>2. QED
                BY <2>2, <3>1, OpenItemsMoved
        <2>3. QED
            BY <2>1, <2>2 DEF ReleaseRequest, CreateRelease, ChangeStatus, Cancel, Ship,
                              DeleteRelease
    <1>2. Releases
        <2>1. \/ /\ UNCHANGED releaseStatus
                 /\ releaseDeleted' = [releaseDeleted EXCEPT ![r] = TRUE]
              \/ \E to \in ReleaseStatuses :
                    /\ releaseStatus' = [releaseStatus EXCEPT ![r] = to]
                    /\ UNCHANGED releaseDeleted
            BY DEF ReleaseRequest, CreateRelease, ChangeStatus, Cancel, Ship,
                   DeleteRelease, ReleaseStatuses
        <2>2. "none" \notin ReleaseStatuses
            BY DEF ReleaseStatuses
        <2>3. QED
            BY <2>1, <2>2 DEF IInv, TypeOK
    <1>3. QED
        BY <1>1, <1>2, RowsWritten

(***************************************************************************)
(* The inductive invariant and what follows from it                        *)
(***************************************************************************)
LEMMA Initially == Init => IInv
    BY DEF Init, IInv, TypeOK

LEMMA EveryStep ==
    ASSUME IInv, Next
    PROVE  Stepped
    <1>d. \A i \in Item, s \in Status : DuplicateChoices(i, s) \subseteq BOOLEAN
        BY DEF DuplicateChoices
    <1>1. CASE \E i \in Item : ItemRequest(i)
        BY <1>d, <1>1, FileStep, TransitionStep, RejectRequestStep, UpdateStep, AcceptStep,
           DuplicateStep, MoveProjectStep, TrashStep DEF ItemRequest
    <1>2. CASE \E S \in SUBSET Item, c \in Container : BulkMove(S, c)
        BY <1>2, BulkMoveStep
    <1>3. CASE \E S \in SUBSET Item : Purge(S)
        BY <1>3, PurgeStep
    <1>4. CASE \E r \in Release : ReleaseRequest(r)
        BY <1>4, ReleaseRequestStep
    <1>5. QED
        BY <1>1, <1>2, <1>3, <1>4 DEF Next

\* Rows that good steps produced are good, and their containers exist.
LEMMA SteppedKeepsInvariant ==
    ASSUME IInv, Stepped
    PROVE  IInv'
    <1> DEFINE CreatedAfter(c) == c \in Release => releaseStatus'[c] # "none"
    <1>1. ASSUME NEW i \in DOMAIN item'
          PROVE  GoodRow(i, item'[i]) /\ CreatedAfter(item'[i].container)
        <2>1. CASE i \in DOMAIN item
            <3>1. GoodStep(i, item[i], item'[i]) /\ Created(item[i])
                BY <2>1 DEF Stepped, IInv
            <3>2. CASE item'[i].container = item[i].container
                BY <3>1, <3>2 DEF GoodStep, Created, Stepped
            <3>3. CASE item'[i].container # item[i].container
                BY <3>1, <3>3 DEF GoodStep, Created, Stepped, Admits, Exists
            <3>4. QED
                BY <3>2, <3>3
        <2>2. CASE i \notin DOMAIN item
            BY <2>2 DEF Stepped, Created, Admits, Exists
        <2>3. QED
            BY <2>1, <2>2
    <1>2. TypeOK'
        <2>1. \A i \in DOMAIN item' : item'[i] \in Row
                                       /\ item'[i].status \in StatusesOf(TypeOf(i))
            BY <1>1 DEF GoodRow, InPlace
        <2>2. item' \in [DOMAIN item' -> Row]
            BY <2>1 DEF Stepped
        <2>3. QED
            BY <2>1, <2>2 DEF TypeOK, Stepped
    <1>3. \A i \in DOMAIN item' : GoodRow(i, item'[i])
                                   /\ CreatedAfter(item'[i].container)
        BY <1>1
    <1>4. QED
        BY <1>2, <1>3 DEF IInv, Created, GoodRow, InPlace

LEMMA InvariantHolds == Spec => []IInv
    <1>1. Init => IInv
        BY Initially
    <1>2. IInv /\ [Next]_vars => IInv'
        <2> SUFFICES ASSUME IInv, [Next]_vars PROVE IInv'
            OBVIOUS
        <2>1. CASE Next
            BY <2>1, EveryStep, SteppedKeepsInvariant
        <2>2. CASE UNCHANGED vars
            BY <2>2 DEF vars, IInv, TypeOK, Created
        <2>3. QED
            BY <2>1, <2>2
    <1>3. QED
        BY <1>1, <1>2, PTL DEF Spec

(***************************************************************************)
(* Theorems                                                                *)
(***************************************************************************)

\* Every request leaves rows of the declared shape; in particular no path
\* gives a task a triage status.
THEOREM TypeCorrect == Spec => []TypeOK
    <1>1. IInv => TypeOK
        BY DEF IInv
    <1>2. QED
        BY <1>1, InvariantHolds, PTL

\* Project and container agree, for any number of projects, releases and
\* items: no request, triage or closing of a release separates them.
THEOREM ProjectAndContainerAgree == Spec => []ContainerInProject
    <1>1. IInv => ContainerInProject
        BY DEF IInv, GoodRow, InPlace, Created, ContainerInProject
    <1>2. QED
        BY <1>1, InvariantHolds, PTL

\* BR-58: the blocker flag never survives outside a Release.
THEOREM BlockerFlagConfined == Spec => []BlockerOnlyOnReleaseBug
    <1>1. IInv => BlockerOnlyOnReleaseBug
        BY DEF IInv, GoodRow, BlockerOnlyOnReleaseBug
    <1>2. QED
        BY <1>1, InvariantHolds, PTL

\* CycleService's invariant, for items that never changed project.
THEOREM CycleTracksContainer == Spec => []CycleFollowsContainer
    <1>1. IInv => CycleFollowsContainer
        BY DEF IInv, GoodRow, InPlace, CycleFollowsContainer
    <1>2. QED
        BY <1>1, InvariantHolds, PTL

\* BR-54: Done work leaves its container only as a return from production.
THEOREM DoneWorkStays == Spec => DoneItemImmobile
    <1> DEFINE A == \A i \in DOMAIN item \cap DOMAIN item' :
                       item[i].status = "done" /\ item'[i].container # item[i].container =>
                           /\ item'[i].status = "rejected"
                           /\ Shipped(item[i].container)
                           /\ item'[i].container = StreamOf[item[i].project]
    <1>1. IInv /\ [Next]_vars => [A]_vars
        BY EveryStep DEF Stepped, GoodStep, ReturnedToStream
    <1>2. QED
        BY <1>1, InvariantHolds, PTL DEF Spec, DoneItemImmobile

\* No placement path enters a Release that is closed or deleted.
THEOREM ClosedReleaseStaysClosed == Spec => ClosedReleaseTakesNoItem
    <1> DEFINE A == \A i \in DOMAIN item' :
                       (i \notin DOMAIN item \/ item'[i].container # item[i].container)
                           => Exists(item'[i].container) /\ ~Closed(item'[i].container)
    <1>1. IInv /\ [Next]_vars => [A]_vars
        BY EveryStep DEF Stepped, GoodStep, Admits
    <1>2. QED
        BY <1>1, InvariantHolds, PTL DEF Spec, ClosedReleaseTakesNoItem

\* CY-14: an item's cycle count is only lost on its way to the backlog.
THEOREM HistoryKept == Spec => CycleHistoryKept
    <1> DEFINE A == \A i \in DOMAIN item \cap DOMAIN item' :
                       item'[i].cycle < item[i].cycle =>
                           item'[i].container = Backlog /\ item[i].container # Backlog
    <1>1. IInv /\ [Next]_vars => [A]_vars
        BY EveryStep DEF Stepped, GoodStep, KeepsCycle
    <1>2. QED
        BY <1>1, InvariantHolds, PTL DEF Spec, CycleHistoryKept

\* Cycle numbers count the returns: the rejection of delivered work, and
\* nothing else, moves an item on to its next cycle.
THEOREM CyclesCountReturns == Spec => ReturnStartsNextCycle
    <1> DEFINE A == \A i \in DOMAIN item \cap DOMAIN item' :
                       item[i].cycle # 0 /\ item'[i].container # Backlog =>
                           (item'[i].cycle = item[i].cycle + 1
                               <=> item'[i].status = "rejected" /\ item[i].status \in RejectableStatuses)
    <1>1. IInv /\ [Next]_vars => [A]_vars
        <2> SUFFICES ASSUME IInv, Next, NEW i \in DOMAIN item \cap DOMAIN item',
                            item[i].cycle # 0, item'[i].container # Backlog
                     PROVE  item'[i].cycle = item[i].cycle + 1
                               <=> /\ item'[i].status = "rejected"
                                   /\ item[i].status \in RejectableStatuses
            BY Zenon
        <2>1. Steady(item[i], item'[i]) \/ Returned(item[i], item'[i])
            BY EveryStep DEF Stepped, GoodStep
        <2>2. item[i].cycle \in Nat
            BY DEF IInv, GoodRow, InPlace, Row
        <2>3. QED
            BY <2>1, <2>2 DEF Steady, KeepsCount, Returned
    <1>2. QED
        BY <1>1, InvariantHolds, PTL DEF Spec, ReturnStartsNextCycle

\* What the step that ships or cancels release r leaves behind.
Emptied(r) ==
    \A i \in Visible :
        /\ item'[i].container = r =>
              item'[i].status \in (IF releaseStatus'[r] = "released"
                                   THEN {"done", "cancelled"} ELSE {"cancelled"})
        /\ item'[i].container # item[i].container =>
              item'[i].container = Backlog /\ item'[i].status = "todo"

LEMMA ClosingLeavesNoOpenItem ==
    ASSUME IInv, NEW r \in Release, Cancel(r) \/ Ship(r)
    PROVE  Emptied(r)
    <1> SUFFICES ASSUME NEW i \in Visible
                 PROVE  /\ item'[i].container = r =>
                              item'[i].status \in (IF releaseStatus'[r] = "released"
                                                   THEN {"done", "cancelled"}
                                                   ELSE {"cancelled"})
                        /\ item'[i].container # item[i].container =>
                              item'[i].container = Backlog /\ item'[i].status = "todo"
        BY DEF Emptied
    <1>1. item' = OpenItemsMovedToBacklog(r) /\ i \in DOMAIN item
        BY DEF Cancel, Ship, Visible
    <1>2. IF i \in OpenItemsIn(r)
          THEN item'[i].container = Backlog /\ item'[i].status = "todo"
          ELSE item'[i] = item[i]
        BY <1>1, OpenItemsMoved
    <1>3. CASE i \in OpenItemsIn(r)
        BY <1>2, <1>3, PlacesAssumption DEF Release
    <1>4. CASE i \notin OpenItemsIn(r)
        <2>1. item'[i] = item[i]
            BY <1>2, <1>4
        <2>2. item[i].container = r => item[i].status \in {"done", "cancelled"}
            BY <1>4 DEF OpenItemsIn, OpenStatuses, IInv, GoodRow, InPlace, Row, Visible
        <2>3. CASE Ship(r)
            BY <2>1, <2>2, <2>3 DEF Ship, IInv, TypeOK
        <2>4. CASE Cancel(r)
            <3>1. item[i].container = r => item[i].status # "done"
                BY <2>4 DEF Cancel, CanChange, HasDoneItems
            <3>2. QED
                BY <2>1, <2>2, <3>1
        <2>5. QED
            BY <2>3, <2>4
    <1>5. QED
        BY <1>3, <1>4

\* Only a ship or a cancel closes a release.
LEMMA OnlyClosingCloses ==
    ASSUME IInv, Next, NEW r \in Release,
           releaseStatus'[r] \in FinalStatuses, releaseStatus[r] \notin FinalStatuses
    PROVE  Cancel(r) \/ Ship(r)
    <1>1. releaseStatus' # releaseStatus
        OBVIOUS
    <1>2. PICK q \in Release : ReleaseRequest(q)
        BY <1>1
           DEF Next, ItemRequest, File, Transition, Reject, Update, Accept, TriageMove,
               Duplicate, MoveProject, Trash, Restore, BulkMove, Purge
    <1>3. "planning" \notin FinalStatuses
        BY DEF FinalStatuses
    <1>4. CASE CreateRelease(q)
        BY <1>3, <1>4 DEF CreateRelease, IInv, TypeOK
    <1>5. ASSUME NEW to \in ReleaseStatuses, ChangeStatus(q, to)
          PROVE  FALSE
        <2>1. to \notin FinalStatuses
            BY <1>5 DEF ChangeStatus, CanChange, FinalStatuses
        <2>2. releaseStatus'[r] = releaseStatus[r] \/ releaseStatus'[r] = to
            BY <1>5 DEF ChangeStatus, IInv, TypeOK
        <2>3. QED
            BY <2>1, <2>2
    <1>6. CASE Cancel(q) \/ Ship(q)
        <2>1. q = r
            BY <1>6 DEF Cancel, Ship, IInv, TypeOK
        <2>2. QED
            BY <1>6, <2>1
    <1>7. CASE DeleteRelease(q)
        BY <1>1, <1>7 DEF DeleteRelease
    <1>8. QED
        BY <1>2, <1>4, <1>5, <1>6, <1>7 DEF ReleaseRequest

\* BR-55, BR-56: closing a release leaves no open work in it, and a cancel no
\* Done work; what the step takes out is To do in the backlog.
THEOREM ReleaseEmptied == Spec => ClosingEmptiesRelease
    <1> DEFINE A == \A r \in Release :
                       releaseStatus'[r] \in FinalStatuses
                         /\ releaseStatus[r] \notin FinalStatuses => Emptied(r)
    <1>1. IInv /\ [Next]_vars => [A]_vars
        BY OnlyClosingCloses, ClosingLeavesNoOpenItem
    <1>2. QED
        BY <1>1, InvariantHolds, PTL DEF Spec, ClosingEmptiesRelease, Emptied
=============================================================================
