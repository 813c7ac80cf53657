----------------------- MODULE IssueTransactionsProofs -----------------------
(***************************************************************************)
(* Proofs about IssueTransactions, for any number of concurrent requests.  *)
(*                                                                         *)
(* The inductive invariant says who may hold the row lock (one request at  *)
(* a time), what a merge knows while it holds it (the committed row), and  *)
(* that only Releases are shipped.                                         *)
(***************************************************************************)
EXTENDS IssueTransactions, TLAPS

Holds(q) == At(q, "checked", "place") \/ At(q, "checked", "merge")

LockHeldOnce == \A q, o \in Request : Holds(q) /\ Holds(o) => q = o

\* lock_original: from the lock to the commit the original is what was loaded.
MergeSeesRow ==
    \A q \in Request : At(q, "checked", "merge") => request[q].seen = row

\* A ship in flight ships a Release, never a Stream.
ShipsRelease == \A q \in Request : At(q, "loaded", "ship") => request[q].place \in Release

Inv == TypeOK /\ LockHeldOnce /\ MergeSeesRow /\ ShipsRelease

Columns == {"status", "assignee", "project", "container", "pointer"}

(***************************************************************************)
(* What a write leaves                                                     *)
(***************************************************************************)

\* An UPDATE keeps the shape of the row and every column that was not changed.
LEMMA WrittenColumns ==
    ASSUME row \in Row, NEW seen \in Row, NEW target \in Row
    PROVE  /\ Written(seen, target) \in Row
           /\ target.assignee = seen.assignee => Written(seen, target).assignee = row.assignee
           /\ target.pointer = seen.pointer => Written(seen, target).pointer = row.pointer
           /\ target.pointer # seen.pointer => Written(seen, target).pointer = target.pointer
<1>1. DOMAIN row = Columns
    BY DEF Row, Columns
<1>2. Written(seen, target) =
        [f \in Columns |-> IF target[f] # seen[f] THEN target[f] ELSE row[f]]
    BY <1>1 DEF Written
<1>3. QED
    BY <1>2 DEF Row, Columns

\* A queue entry stays an entry.
LEMMA SyncedType == ASSUME NEW x \in Row PROVE Synced(x) \in Entry
    BY DEF Synced, NoEntry, Entry, Row

\* A placement changes no assignment, and leaves no cycle open behind the current one.
LEMMA PlaceEffect ==
    ASSUME TypeOK, NEW seen \in Row, NEW c \in Place, PlaceRow(seen, c)
    PROVE  /\ row' \in Row
           /\ row'.assignee = row.assignee
           /\ entry' \in Entry
           /\ created' \in 0..MaxCycle
           /\ cycles' \in [DOMAIN cycles' -> BOOLEAN]
           /\ DOMAIN cycles' \subseteq 1..created'
           /\ StrayCycles' \subseteq StrayCycles
<1> DEFINE starts == c # Backlog /\ seen.pointer = NoCycle
           pointer == IF c = Backlog THEN NoCycle
                      ELSE IF starts THEN created + 1 ELSE seen.pointer
           status == IF c = Backlog /\ seen.status = "rejected" THEN "todo" ELSE seen.status
           target == [seen EXCEPT !.container = c, !.pointer = pointer, !.status = status]
           left == Written(seen, target)
<1>1. /\ starts => cycles = [n \in {} |-> TRUE] /\ created < MaxCycle
      /\ created' = IF starts THEN created + 1 ELSE created
      /\ cycles' = IF starts THEN [n \in {created + 1} |-> TRUE]
                   ELSE IF c = Backlog THEN [n \in {} |-> TRUE]
                   ELSE cycles
      /\ row' = [left EXCEPT !.pointer = IF c = Backlog THEN NoCycle ELSE @]
      /\ entry' = Synced(target)
    BY DEF PlaceRow
<1>2. created \in Nat /\ created <= MaxCycle /\ MaxCycle \in Nat
    BY CycleAssumption DEF TypeOK
<1>3. created' \in 0..MaxCycle
    BY <1>1, <1>2
<1>4. pointer \in 0..MaxCycle /\ status \in Status
    BY <1>1, <1>2 DEF Row, NoCycle, Status
<1>5. target \in Row /\ target.assignee = seen.assignee /\ target.pointer = pointer
    <2> HIDE DEF pointer, status
    <2> QED BY <1>4 DEF Row
<1> HIDE DEF target
<1>6. /\ left \in Row
      /\ left.assignee = row.assignee
      /\ pointer = seen.pointer => left.pointer = row.pointer
      /\ pointer # seen.pointer => left.pointer = pointer
    BY <1>5, WrittenColumns DEF TypeOK
<1> HIDE DEF left
<1>7. /\ row' \in Row
      /\ row'.assignee = row.assignee
      /\ c # Backlog => row'.pointer = left.pointer
    BY <1>1, <1>6, <1>2 DEF Row, NoCycle
<1>8. entry' \in Entry
    BY <1>1, <1>5, SyncedType
<1>9. cycles' \in [DOMAIN cycles' -> BOOLEAN] /\ DOMAIN cycles' \subseteq 1..created'
    <2>1. CASE starts
        BY <2>1, <1>1, <1>2
    <2>2. CASE c = Backlog
        BY <2>2, <1>1
    <2>3. CASE ~starts /\ c # Backlog
        <3>1. cycles' = cycles /\ created' = created
            BY <2>3, <1>1
        <3>2. QED BY <3>1 DEF TypeOK
    <2>4. QED BY <2>1, <2>2, <2>3
<1>10. StrayCycles' \subseteq StrayCycles
    <2>1. CASE starts
        <3>1. pointer = created + 1 /\ pointer # seen.pointer
            BY <2>1, <1>2 DEF NoCycle
        <3>2. row'.pointer = created + 1
            BY <3>1, <1>6, <1>7, <2>1
        <3>3. cycles' = [n \in {created + 1} |-> TRUE]
            BY <2>1, <1>1
        <3>4. QED BY <3>2, <3>3 DEF StrayCycles
    <2>2. CASE c = Backlog
        <3>1. cycles' = [n \in {} |-> TRUE]
            BY <2>2, <1>1
        <3>2. QED BY <3>1 DEF StrayCycles
    <2>3. CASE ~starts /\ c # Backlog
        <3>1. cycles' = cycles /\ row'.pointer = row.pointer
            BY <2>3, <1>1, <1>6, <1>7
        <3>2. QED BY <3>1 DEF StrayCycles
    <2>4. QED BY <2>1, <2>2, <2>3
<1>11. QED
    BY <1>3, <1>7, <1>8, <1>9, <1>10

\* A return changes no assignment; it leaves no cycle open behind the one it
\* starts if the cycle it closes is the committed current one.
LEMMA ReturnEffect ==
    ASSUME TypeOK, NEW seen \in Row, NEW shipped \in BOOLEAN, ReturnRow(seen, shipped)
    PROVE  /\ row' \in Row
           /\ row'.assignee = row.assignee
           /\ entry' \in Entry
           /\ created' \in 0..MaxCycle
           /\ cycles' \in [DOMAIN cycles' -> BOOLEAN]
           /\ DOMAIN cycles' \subseteq 1..created'
           /\ seen.pointer = row.pointer => StrayCycles' \subseteq StrayCycles
<1> DEFINE home == IF seen.status = "done" /\ shipped
                   THEN StreamOf[seen.project] ELSE seen.container
           next == created + 1
           pointer == IF home = Backlog THEN seen.pointer ELSE next
           target == [seen EXCEPT !.status = "rejected", !.container = home,
                                  !.pointer = pointer]
<1>1. /\ home # Backlog => next <= MaxCycle
      /\ created' = IF home = Backlog THEN created ELSE next
      /\ cycles' = IF home = Backlog THEN cycles
                   ELSE [n \in DOMAIN cycles \cup {next} |->
                           n = next \/ (n # seen.pointer /\ cycles[n])]
      /\ row' = Written(seen, target)
      /\ entry' = Synced(target)
    BY DEF ReturnRow
<1>2. created \in Nat /\ created <= MaxCycle /\ MaxCycle \in Nat
    BY CycleAssumption DEF TypeOK
<1>3. home \in Place
    BY PlaceAssumption DEF Row, Place
<1> HIDE DEF home
<1>4. created' \in 0..MaxCycle
    BY <1>1, <1>2
<1>5. pointer \in 0..MaxCycle
    BY <1>1, <1>2 DEF Row
<1>6. target \in Row /\ target.assignee = seen.assignee /\ target.pointer = pointer
    <2> HIDE DEF pointer
    <2> QED BY <1>3, <1>5 DEF Row, Status
<1> HIDE DEF target
<1>7. /\ row' \in Row
      /\ row'.assignee = row.assignee
      /\ pointer # seen.pointer => row'.pointer = pointer
      /\ pointer = seen.pointer => row'.pointer = row.pointer
    BY <1>1, <1>6, WrittenColumns DEF TypeOK
<1>8. entry' \in Entry
    BY <1>1, <1>6, SyncedType
<1>9. cycles' \in [DOMAIN cycles' -> BOOLEAN] /\ DOMAIN cycles' \subseteq 1..created'
    <2>1. CASE home = Backlog
        BY <2>1, <1>1 DEF TypeOK
    <2>2. CASE home # Backlog
        <3>1. cycles' = [n \in DOMAIN cycles \cup {next} |->
                           n = next \/ (n # seen.pointer /\ cycles[n])]
            BY <2>2, <1>1
        <3>2. DOMAIN cycles' = DOMAIN cycles \cup {next}
            BY <3>1
        <3>3. \A n \in DOMAIN cycles' : cycles'[n] \in BOOLEAN
            BY <3>1
        <3>4. DOMAIN cycles \subseteq 1..created /\ created' = next
            BY <2>2, <1>1 DEF TypeOK
        <3>5. DOMAIN cycles' \subseteq 1..created'
            BY <3>2, <3>4, <1>2
        <3>6. QED BY <3>1, <3>2, <3>3, <3>5
    <2>3. QED BY <2>1, <2>2
<1>10. ASSUME seen.pointer = row.pointer PROVE StrayCycles' \subseteq StrayCycles
    <2>1. CASE home = Backlog
        <3>1. cycles' = cycles /\ row'.pointer = row.pointer
            BY <2>1, <1>1, <1>7
        <3>2. QED BY <3>1 DEF StrayCycles
    <2>2. CASE home # Backlog
        <3>1. row'.pointer = next
            BY <2>2, <1>7, <1>10
        <3>2. ASSUME NEW n \in DOMAIN cycles', cycles'[n], n # next
              PROVE  n \in DOMAIN cycles /\ n # row.pointer /\ cycles[n]
            BY <3>2, <2>2, <1>1, <1>10
        <3>3. QED BY <3>1, <3>2 DEF StrayCycles
    <2>3. QED BY <2>1, <2>2
<1>11. QED
    BY <1>4, <1>7, <1>8, <1>9, <1>10

(***************************************************************************)
(* Locks                                                                   *)
(***************************************************************************)

\* One request moves to r: the lock stays with at most one request, and what a
\* merge loaded under it stays the committed row.
LEMMA LocksKept ==
    ASSUME TypeOK, LockHeldOnce, MergeSeesRow, NEW q \in Request, NEW r,
           request' = [request EXCEPT ![q] = r],
           r.pc = "checked" /\ r.kind \in {"place", "merge"} => ~Locked,
           r.pc = "checked" /\ r.kind = "merge" => r.seen = row',
           row' = row \/ \A o \in Request \ {q} : ~Holds(o)
    PROVE  LockHeldOnce' /\ MergeSeesRow'
<1>1. request'[q] = r /\ \A o \in Request \ {q} : request'[o] = request[o]
    BY DEF TypeOK
<1>2. \A o \in Request \ {q} : Holds(o)' = Holds(o)
    BY <1>1 DEF Holds, At
<1>3. Holds(q)' => \A o \in Request : ~Holds(o)
    BY <1>1 DEF Holds, At, Locked
<1>4. LockHeldOnce'
    BY <1>2, <1>3 DEF LockHeldOnce
<1>5. ASSUME NEW o \in Request, At(o, "checked", "merge")'
      PROVE  request'[o].seen = row'
    <2>1. CASE o = q
        BY <2>1, <1>1, <1>5 DEF At
    <2>2. CASE o # q
        <3>1. At(o, "checked", "merge") /\ request'[o].seen = row
            BY <2>2, <1>1, <1>5 DEF At, MergeSeesRow
        <3>2. row' = row
            BY <3>1, <2>2 DEF Holds
        <3>3. QED BY <3>1, <3>2
    <2>3. QED BY <2>1, <2>2
<1>6. QED
    BY <1>4, <1>5 DEF MergeSeesRow

\* A request becomes a ship only of a Release.
LEMMA ShipsKept ==
    ASSUME TypeOK, ShipsRelease, NEW q \in Request, NEW r,
           request' = [request EXCEPT ![q] = r],
           r.pc = "loaded" /\ r.kind = "ship" => r.place \in Release
    PROVE  ShipsRelease'
<1>1. request'[q] = r /\ \A o \in Request \ {q} : request'[o] = request[o]
    BY DEF TypeOK
<1>2. SUFFICES ASSUME NEW o \in Request, At(o, "loaded", "ship")'
               PROVE  request'[o].place \in Release
    BY DEF ShipsRelease, Release
<1>3. CASE o = q
    BY <1>1, <1>2, <1>3 DEF At
<1>4. CASE o # q
    BY <1>1, <1>2, <1>4 DEF At, ShipsRelease
<1>5. QED BY <1>3, <1>4

(***************************************************************************)
(* Steps                                                                   *)
(***************************************************************************)

\* A request that has begun carries a loaded row.
LEMMA Begun ==
    ASSUME TypeOK, NEW q \in Request, request[q].pc # "idle"
    PROVE  /\ request[q] \in Running
           /\ request[q].seen \in Row
           /\ request[q].place \in Place
           /\ request[q].project \in Project
           /\ request[q].shipped \in BOOLEAN
           /\ request[q].kind \in Kind
<1>1. request[q] \in Running \cup {Idle}
    BY DEF TypeOK
<1>2. request[q] # Idle
    BY DEF Idle
<1>3. QED BY <1>1, <1>2 DEF Running

\* Request q ends as a reject or a restore that acts on a cycle which is no
\* longer the current one.
LateSecondCycle(q) ==
    /\ request[q] # Idle
    /\ request[q].seen.pointer # row.pointer
    /\ \/ Commits(q, "reject")
       \/ Commits(q, "transition") /\ request[q].seen.status = "cancelled"

\* What every step of request q keeps, who may touch the assignee, and who may
\* leave a second cycle open.
Keeps(q) ==
    /\ Inv'
    /\ row'.assignee # row.assignee => Commits(q, "assign")
    /\ ~LateSecondCycle(q) => StrayCycles' \subseteq StrayCycles

\* Steps that only read: loads, checks and rollbacks.
LEMMA ReadStep ==
    ASSUME Inv, NEW q \in Request, NEW r \in Running \cup {Idle},
           Begin(q, r), UNCHANGED Tables,
           r # Idle => /\ r.pc = "checked" /\ r.kind \in {"place", "merge"} => ~Locked
                       /\ r.pc = "checked" /\ r.kind = "merge" => r.seen = row
                       /\ r.pc = "loaded" /\ r.kind = "ship" => r.place \in Release
    PROVE  Keeps(q)
<1>1. request' = [request EXCEPT ![q] = r]
    BY DEF Begin
<1>2. UNCHANGED <<row, cycles, created, entry, released>>
    BY DEF Tables
<1>3. TypeOK'
    BY <1>1, <1>2 DEF Inv, TypeOK
<1>4. r = Idle => r.pc = "idle"
    BY DEF Idle
<1>5. /\ r.pc = "checked" /\ r.kind \in {"place", "merge"} => ~Locked
      /\ r.pc = "checked" /\ r.kind = "merge" => r.seen = row'
      /\ r.pc = "loaded" /\ r.kind = "ship" => r.place \in Release
    BY <1>2, <1>4
<1>6. LockHeldOnce' /\ MergeSeesRow'
    BY <1>1, <1>2, <1>5, LocksKept DEF Inv
<1>7. StrayCycles' \subseteq StrayCycles
    BY <1>2 DEF StrayCycles
<1>8. ShipsRelease'
    BY <1>1, <1>5, ShipsKept DEF Inv
<1>9. QED BY <1>2, <1>3, <1>6, <1>7, <1>8 DEF Keeps, Inv

\* Steps that commit: the request ends, and nobody else holds the lock unless
\* the row stays.
LEMMA CommitStep ==
    ASSUME Inv, NEW q \in Request, Commit(q),
           row' \in Row, entry' \in Entry, created' \in 0..MaxCycle,
           cycles' \in [DOMAIN cycles' -> BOOLEAN], DOMAIN cycles' \subseteq 1..created',
           released' \subseteq Release,
           row' = row \/ \A o \in Request \ {q} : ~Holds(o)
    PROVE  Inv'
<1>1. request' = [request EXCEPT ![q] = Idle]
    BY DEF Commit
<1>2. TypeOK'
    BY <1>1 DEF Inv, TypeOK
<1>3. Idle.pc = "idle"
    BY DEF Idle
<1>4. LockHeldOnce' /\ MergeSeesRow'
    BY <1>1, <1>3, LocksKept DEF Inv
<1>5. ShipsRelease'
    BY <1>1, <1>3, ShipsKept DEF Inv
<1>6. QED BY <1>2, <1>4, <1>5 DEF Inv

\* Without the lock, nobody is between Check and Finish of a placement or merge.
LEMMA NotLocked == ~Locked => \A o \in Request : ~Holds(o)
    BY DEF Locked, Holds

\* Its holder is alone.
LEMMA HolderAlone ==
    ASSUME Inv, NEW q \in Request, Holds(q)
    PROVE  \A o \in Request \ {q} : ~Holds(o)
    BY DEF Inv, LockHeldOnce

\* A write of one column other than the pointer.
LEMMA ColumnWrite ==
    ASSUME Inv, NEW q \in Request, NEW seen \in Row, NEW target \in Row, Commit(q),
           row' = Written(seen, target), target.pointer = seen.pointer,
           cycles' \in [DOMAIN cycles -> BOOLEAN],
           entry' \in Entry, UNCHANGED <<created, released>>, ~Locked
    PROVE  /\ Inv'
           /\ row'.pointer = row.pointer
           /\ cycles' = cycles => StrayCycles' \subseteq StrayCycles
           /\ target.assignee = seen.assignee => row'.assignee = row.assignee
<1>1. /\ row' \in Row
      /\ row'.pointer = row.pointer
      /\ target.assignee = seen.assignee => row'.assignee = row.assignee
    BY WrittenColumns DEF Inv, TypeOK
<1>2. Inv'
    <2>1. /\ created' \in 0..MaxCycle /\ released' \subseteq Release
          /\ cycles' \in [DOMAIN cycles' -> BOOLEAN] /\ DOMAIN cycles' \subseteq 1..created'
        BY DEF Inv, TypeOK
    <2>2. QED BY <1>1, <2>1, NotLocked, CommitStep
<1>3. cycles' = cycles => StrayCycles' \subseteq StrayCycles
    BY <1>1 DEF StrayCycles
<1>4. QED BY <1>1, <1>2, <1>3

LEMMA LoadStep ==
    ASSUME Inv, NEW q \in Request,
           NEW k \in Kind, NEW p \in Project, NEW c \in Place,
           k = "ship" => c \in Release,
           Begin(q, Loaded(k, p, c)), UNCHANGED Tables
    PROVE  Keeps(q)
<1>1. /\ Loaded(k, p, c) \in Running /\ Loaded(k, p, c).pc = "loaded"
      /\ Loaded(k, p, c).kind = k /\ Loaded(k, p, c).place = c
    BY DEF Loaded, Running, Inv, TypeOK
<1>2. QED BY <1>1, ReadStep

\* Every step of a request, one case per action.
LEMMA StepKeeps ==
    ASSUME Inv, NEW q \in Request, Step(q)
    PROVE  Keeps(q)
<1> USE DEF Inv
<1> DEFINE seen == request[q].seen
<1>t. TypeOK
    OBVIOUS
<1>b. ASSUME request[q].pc # "idle"
      PROVE  /\ request[q] \in Running /\ seen \in Row
             /\ request[q].place \in Place /\ request[q].project \in Project
             /\ request[q].shipped \in BOOLEAN /\ request[q].kind \in Kind
    BY <1>b, <1>t, Begun
<1>1. ASSUME NEW k \in Kind, Load(q, k) PROVE Keeps(q)
    <2>1. row.project \in Project /\ row.container \in Place
        BY DEF TypeOK, Row
    <2>2. QED BY <1>1, <2>1, LoadStep DEF Load
<1>2. ASSUME NEW to \in Status, Transition(q, to) PROVE Keeps(q)
    <2> DEFINE target == [seen EXCEPT !.status = to]
    <2>1. seen \in Row /\ request[q] # Idle
        BY <1>2, <1>b DEF Transition, At, Idle
    <2>2. target \in Row /\ target.assignee = seen.assignee /\ target.pointer = seen.pointer
        BY <2>1 DEF Row
    <2>3. /\ row' = Written(seen, target) /\ entry' = Synced(target) /\ ~Locked
          /\ Commit(q) /\ UNCHANGED <<created, released>> /\ cycles' = Stamped(seen, to)
        BY <1>2 DEF Transition
    <2>4. entry' \in Entry
        BY <2>2, <2>3, SyncedType
    <2>5. cycles' \in [DOMAIN cycles -> BOOLEAN]
        BY <2>3, <1>t DEF Stamped, TypeOK
    <2>6. Commits(q, "transition")
        BY <1>2, <2>3, <2>1, <1>t DEF Transition, At, Commit, Commits, TypeOK
    <2>7. seen.status # "cancelled" \/ seen.pointer = row.pointer \/ LateSecondCycle(q)
        BY <2>1, <2>6 DEF LateSecondCycle
    <2> HIDE DEF target, seen
    <2>8. /\ Inv' /\ row'.assignee = row.assignee /\ row'.pointer = row.pointer
        BY <2>1, <2>2, <2>3, <2>4, <2>5, ColumnWrite
    <2>9. ASSUME seen.status # "cancelled" \/ seen.pointer = row.pointer
          PROVE  StrayCycles' \subseteq StrayCycles
        BY <2>3, <2>8, <2>9 DEF StrayCycles, Stamped
    <2>10. QED BY <2>7, <2>8, <2>9 DEF Keeps
<1>3. ASSUME NEW u \in User \cup {NoUser}, Assign(q, u) PROVE Keeps(q)
    <2> DEFINE target == [seen EXCEPT !.assignee = u]
    <2>1. seen \in Row
        BY <1>3, <1>b DEF Assign, At
    <2>2. target \in Row /\ target.pointer = seen.pointer
        BY <2>1 DEF Row
    <2>3. /\ row' = Written(seen, target) /\ entry' = Synced(target) /\ ~Locked
          /\ Commit(q) /\ UNCHANGED <<cycles, created, released>>
        BY <1>3 DEF Assign, ForUpdate
    <2>4. entry' \in Entry
        BY <2>2, <2>3, SyncedType
    <2>5. Commits(q, "assign")
        BY <1>3, <2>3, <1>t DEF Assign, At, Commit, Commits, Idle, TypeOK
    <2>6. cycles' = cycles /\ cycles \in [DOMAIN cycles -> BOOLEAN]
        BY <2>3, <1>t DEF TypeOK
    <2> HIDE DEF target, seen
    <2>7. QED BY <2>1, <2>2, <2>3, <2>4, <2>5, <2>6, ColumnWrite DEF Keeps
<1>4. ASSUME NEW c \in Place, PlaceCheck(q, c) PROVE Keeps(q)
    <2> DEFINE r == [request[q] EXCEPT !.pc = "checked", !.place = c]
    <2>1. request[q] \in Running /\ request[q].kind = "place"
        BY <1>4, <1>b DEF PlaceCheck, At
    <2>2. r \in Running /\ r.kind = "place" /\ r.pc = "checked"
        BY <2>1 DEF Running
    <2>3. Begin(q, r) /\ UNCHANGED Tables /\ ~Locked
        BY <1>4 DEF PlaceCheck, ForUpdate
    <2> HIDE DEF r
    <2>4. QED BY <2>2, <2>3, ReadStep
<1>5. ASSUME PlaceFinish(q) PROVE Keeps(q)
    <2>1. /\ seen \in Row /\ request[q].place \in Place /\ Holds(q)
          /\ PlaceRow(seen, request[q].place) /\ Commit(q) /\ released' = released
        BY <1>5, <1>b DEF PlaceFinish, At, Holds
    <2>2. /\ row' \in Row /\ row'.assignee = row.assignee /\ entry' \in Entry
          /\ created' \in 0..MaxCycle
          /\ cycles' \in [DOMAIN cycles' -> BOOLEAN] /\ DOMAIN cycles' \subseteq 1..created'
          /\ StrayCycles' \subseteq StrayCycles
        BY <2>1, <1>t, PlaceEffect
    <2>3. released' \subseteq Release
        BY <2>1 DEF TypeOK
    <2>4. Inv'
        BY <2>1, <2>2, <2>3, HolderAlone, CommitStep
    <2>5. QED BY <2>2, <2>4 DEF Keeps
<1>6. ASSUME NEW p \in Project, NEW c \in Place, MoveCheck(q, p, c) PROVE Keeps(q)
    <2> DEFINE r == [request[q] EXCEPT !.pc = "checked", !.project = p, !.place = c]
    <2>1. request[q] \in Running /\ request[q].kind = "move"
        BY <1>6, <1>b DEF MoveCheck, At
    <2>2. r \in Running /\ r.kind = "move" /\ r.pc = "checked"
        BY <2>1 DEF Running
    <2>3. Begin(q, r) /\ UNCHANGED Tables
        BY <1>6 DEF MoveCheck
    <2> HIDE DEF r
    <2>4. QED BY <2>2, <2>3, ReadStep
<1>7. ASSUME MoveFinish(q) PROVE Keeps(q)
    <2> DEFINE target == [seen EXCEPT !.project = request[q].project,
                                      !.container = request[q].place]
    <2>1. seen \in Row /\ request[q].project \in Project /\ request[q].place \in Place
        BY <1>7, <1>b DEF MoveFinish, At
    <2>2. target \in Row /\ target.assignee = seen.assignee /\ target.pointer = seen.pointer
        BY <2>1 DEF Row
    <2>3. /\ row' = Written(seen, target) /\ ~Locked /\ Commit(q)
          /\ UNCHANGED <<cycles, created, entry, released>>
        BY <1>7 DEF MoveFinish
    <2>4. entry' \in Entry /\ cycles' = cycles /\ cycles \in [DOMAIN cycles -> BOOLEAN]
        BY <2>3, <1>t DEF TypeOK
    <2> HIDE DEF target, seen
    <2>5. QED BY <2>1, <2>2, <2>3, <2>4, ColumnWrite DEF Keeps
<1>8. ASSUME RejectCheck(q) PROVE Keeps(q)
    <2> DEFINE shipped == seen.container \in released
               r == [request[q] EXCEPT !.pc = "checked", !.shipped = shipped]
    <2>0. shipped \in BOOLEAN
        OBVIOUS
    <2>1. request[q] \in Running /\ request[q].kind = "reject"
        BY <1>8, <1>b DEF RejectCheck, At
    <2>2. r \in Running /\ r.kind = "reject" /\ r.pc = "checked"
        <3> HIDE DEF shipped
        <3> QED BY <2>0, <2>1 DEF Running
    <2>3. Begin(q, r) /\ UNCHANGED Tables
        BY <1>8 DEF RejectCheck
    <2> HIDE DEF r
    <2>4. QED BY <2>2, <2>3, ReadStep
<1>9. ASSUME MergeCheck(q) PROVE Keeps(q)
    <2> DEFINE shipped == row.container \in released
               r == [request[q] EXCEPT !.pc = "checked", !.seen = row, !.shipped = shipped]
    <2>0. shipped \in BOOLEAN
        OBVIOUS
    <2>1. request[q] \in Running /\ request[q].kind = "merge" /\ row \in Row
        BY <1>9, <1>b DEF MergeCheck, At, TypeOK
    <2>2. r \in Running /\ r.seen = row /\ r.pc = "checked"
        <3> HIDE DEF shipped
        <3> QED BY <2>0, <2>1 DEF Running
    <2>3. Begin(q, r) /\ UNCHANGED Tables /\ ~Locked
        BY <1>9 DEF MergeCheck
    <2> HIDE DEF r
    <2>4. QED BY <2>2, <2>3, ReadStep
<1>10. ASSUME ReturnFinish(q) PROVE Keeps(q)
    <2>1. /\ seen \in Row /\ request[q].shipped \in BOOLEAN /\ request[q].kind \in Kind
          /\ ReturnRow(seen, request[q].shipped) /\ Commit(q) /\ released' = released
        BY <1>10, <1>b DEF ReturnFinish, At
    <2>2. /\ row' \in Row /\ row'.assignee = row.assignee /\ entry' \in Entry
          /\ created' \in 0..MaxCycle
          /\ cycles' \in [DOMAIN cycles' -> BOOLEAN] /\ DOMAIN cycles' \subseteq 1..created'
          /\ seen.pointer = row.pointer => StrayCycles' \subseteq StrayCycles
        BY <2>1, <1>t, ReturnEffect
    <2>3. released' \subseteq Release
        BY <2>1 DEF TypeOK
    <2>4. \A o \in Request \ {q} : ~Holds(o)
        BY <1>10, NotLocked, HolderAlone DEF ReturnFinish, Holds
    <2>5. Inv'
        BY <2>1, <2>2, <2>3, <2>4, CommitStep
    <2>6. seen.pointer = row.pointer \/ LateSecondCycle(q)
        <3>1. CASE At(q, "checked", "merge")
            BY <3>1 DEF MergeSeesRow
        <3>2. CASE At(q, "checked", "reject")
            <4>1. request[q] # Idle
                BY <3>2 DEF At, Idle
            <4>2. Commits(q, "reject")
                BY <3>2, <4>1, <2>1, <1>t DEF At, Commit, Commits, TypeOK
            <4>3. QED BY <4>1, <4>2 DEF LateSecondCycle
        <3>3. QED BY <1>10, <3>1, <3>2 DEF ReturnFinish
    <2>7. QED BY <2>2, <2>5, <2>6 DEF Keeps
<1>11. ASSUME NEW c \in Container, "bulk" \in Kind, BulkLoad(q, c) PROVE Keeps(q)
    <2>1. ProjectOf[c] \in Project /\ c \in Place
        BY PlaceAssumption DEF Place
    <2>2. QED BY <1>11, <2>1, LoadStep DEF BulkLoad
<1>12. ASSUME BulkFinish(q) PROVE Keeps(q)
    <2>1. /\ row \in Row /\ request[q].place \in Place /\ ~Locked
          /\ PlaceRow(row, request[q].place) /\ Commit(q) /\ released' = released
        BY <1>12, <1>b DEF BulkFinish, At, ForUpdate, TypeOK
    <2>2. /\ row' \in Row /\ row'.assignee = row.assignee /\ entry' \in Entry
          /\ created' \in 0..MaxCycle
          /\ cycles' \in [DOMAIN cycles' -> BOOLEAN] /\ DOMAIN cycles' \subseteq 1..created'
          /\ StrayCycles' \subseteq StrayCycles
        BY <2>1, <1>t, PlaceEffect
    <2>3. released' \subseteq Release
        BY <2>1 DEF TypeOK
    <2>4. Inv'
        BY <2>1, <2>2, <2>3, NotLocked, CommitStep
    <2>5. QED BY <2>2, <2>4 DEF Keeps
<1>13. ASSUME NEW r \in Container, "ship" \in Kind, ShipLoad(q, r) PROVE Keeps(q)
    <2>1. row.project \in Project /\ r \in Place
        BY DEF TypeOK, Row, Place
    <2>2. QED BY <1>13, <2>1, LoadStep DEF ShipLoad
<1>14. ASSUME ShipFinish(q) PROVE Keeps(q)
    <2> DEFINE target == [seen EXCEPT !.status = "todo", !.container = Backlog]
               open == /\ seen.container = request[q].place
                       /\ seen.status \notin {"done", "cancelled"}
    <2>1. /\ seen \in Row /\ request[q].place \in Place /\ Commit(q)
          /\ created' = created /\ released' = released \cup {request[q].place}
          /\ At(q, "loaded", "ship")
          /\ open => /\ ~Locked
                     /\ cycles' = [n \in {} |-> TRUE]
                     /\ row' = [Written(seen, target) EXCEPT !.pointer = NoCycle]
                     /\ entry' = Synced([seen EXCEPT !.status = "todo"])
          /\ ~open => UNCHANGED <<row, cycles, entry>>
        BY <1>14, <1>b DEF ShipFinish, At, ForUpdate
    <2>2. target \in Row /\ target.assignee = seen.assignee
        BY <2>1 DEF Row, Status, Place
    <2>3. [seen EXCEPT !.status = "todo"] \in Row
        BY <2>1 DEF Row, Status
    <2>4. released' \subseteq Release
        BY <2>1 DEF TypeOK, ShipsRelease
    <2>5. /\ row' \in Row /\ row'.assignee = row.assignee /\ entry' \in Entry
          /\ created' \in 0..MaxCycle
          /\ cycles' \in [DOMAIN cycles' -> BOOLEAN] /\ DOMAIN cycles' \subseteq 1..created'
          /\ StrayCycles' \subseteq StrayCycles
        <3>1. CASE open
            <4> DEFINE left == Written(seen, target)
            <4>1. left \in Row /\ left.assignee = row.assignee
                BY <2>1, <2>2, WrittenColumns DEF TypeOK
            <4>2. row' = [left EXCEPT !.pointer = NoCycle]
                BY <3>1, <2>1
            <4> HIDE DEF left
            <4>3. row' \in Row /\ row'.assignee = row.assignee
                BY <4>1, <4>2, CycleAssumption DEF Row, NoCycle
            <4>4. entry' \in Entry
                BY <3>1, <2>1, <2>3, SyncedType
            <4>5. cycles' = [n \in {} |-> TRUE] /\ created' = created
                BY <3>1, <2>1
            <4>6. QED BY <4>3, <4>4, <4>5 DEF TypeOK, StrayCycles
        <3>2. CASE ~open
            <4>1. UNCHANGED <<row, cycles, entry, created>>
                BY <3>2, <2>1
            <4>2. QED BY <4>1 DEF TypeOK, StrayCycles
        <3>3. QED BY <3>1, <3>2
    <2>6. row' = row \/ \A o \in Request \ {q} : ~Holds(o)
        BY <2>1, NotLocked
    <2>7. Inv'
        BY <2>1, <2>4, <2>5, <2>6, CommitStep
    <2>8. QED BY <2>5, <2>7 DEF Keeps
<1>15. ASSUME Abort(q) PROVE Keeps(q)
    <2>1. Begin(q, Idle) /\ UNCHANGED Tables
        BY <1>15 DEF Abort, Commit, Begin
    <2>2. QED BY <2>1, ReadStep
<1>16. QED
    BY <1>1, <1>2, <1>3, <1>4, <1>5, <1>6, <1>7, <1>8, <1>9, <1>10, <1>11, <1>12, <1>13,
       <1>14, <1>15 DEF Step

(***************************************************************************)
(* Theorems                                                                *)
(***************************************************************************)

LEMMA InitInv == Init => Inv
<1> SUFFICES ASSUME Init PROVE Inv
    OBVIOUS
<1>1. row \in Row /\ row.pointer = 1 /\ created = 1
    BY DEF Init
<1>2. 1 \in 0..MaxCycle
    BY <1>1 DEF Row
<1>3. cycles = [n \in {1} |-> TRUE] /\ entry = NoEntry /\ released = {}
    BY DEF Init
<1>4. request = [q \in Request |-> Idle]
    BY DEF Init
<1>5. entry \in Entry
    BY <1>3 DEF NoEntry, Entry
<1>6. TypeOK
    BY <1>1, <1>2, <1>3, <1>4, <1>5 DEF TypeOK
<1>7. \A q \in Request : request[q].pc = "idle"
    BY <1>4 DEF Idle
<1>8. LockHeldOnce /\ MergeSeesRow /\ ShipsRelease
    BY <1>7 DEF LockHeldOnce, MergeSeesRow, ShipsRelease, Holds, At
<1>9. QED BY <1>6, <1>8 DEF Inv

LEMMA StutterKeeps == Inv /\ UNCHANGED vars => Inv'
    BY DEF Inv, vars, TypeOK, LockHeldOnce, MergeSeesRow, ShipsRelease, Holds, At

LEMMA NextKeeps == Inv /\ [Next]_vars => Inv'
<1>1. Inv /\ Next => Inv'
    BY StepKeeps DEF Next, Keeps
<1>2. QED BY <1>1, StutterKeeps

\* Whatever requests interleave, the tables and every request in flight keep
\* their declared shape.
THEOREM TransactionsTypeCorrect == Spec => []TypeOK
<1>1. Init => Inv
    BY InitInv
<1>2. Inv /\ [Next]_vars => Inv'
    BY NextKeeps
<1>3. Inv => TypeOK
    BY DEF Inv
<1>4. QED BY <1>1, <1>2, <1>3, PTL DEF Spec

\* For any number of requests that decide on stale rows, only a request that
\* assigns changes the assignee: the UPDATE writes changed columns only.
THEOREM AssignmentsNotLost == Spec => AssignmentOutlivesStaleEdits
<1>1. Init => Inv
    BY InitInv
<1>2. Inv /\ [Next]_vars => Inv'
    BY NextKeeps
<1>3. Inv /\ [Next]_vars =>
        [row'.assignee # row.assignee => \E q \in Request : Commits(q, "assign")]_vars
    <2>1. ASSUME Inv, Next
          PROVE  row'.assignee # row.assignee => \E q \in Request : Commits(q, "assign")
        BY <2>1, StepKeeps DEF Next, Keeps
    <2>2. QED BY <2>1
<1>4. QED BY <1>1, <1>2, <1>3, PTL DEF Spec, AssignmentOutlivesStaleEdits

\* For any number of requests of any kind: merges of reports into one original,
\* beside placements, moves and ships, never leave two open cycles.  Only a
\* reject or a restore from Cancelled whose loaded cycle is no longer the
\* current one does.
THEOREM OneReturnPerDelivery == Spec => SecondCycleOpensOnlyLate
<1> DEFINE Late == \E q \in Request : LateSecondCycle(q)
<1>1. Init => Inv
    BY InitInv
<1>2. Inv /\ [Next]_vars => Inv'
    BY NextKeeps
<1>3. Inv /\ [Next]_vars => [StrayCycles' \subseteq StrayCycles \/ Late]_vars
    <2>1. ASSUME Inv, Next PROVE StrayCycles' \subseteq StrayCycles \/ Late
        BY <2>1, StepKeeps DEF Next, Keeps
    <2>2. QED BY <2>1
<1>4. [StrayCycles' \subseteq StrayCycles \/ Late]_vars =>
      [StrayCycles' \subseteq StrayCycles \/ \E q \in Request :
             /\ request[q] # Idle
             /\ request[q].seen.pointer # row.pointer
             /\ \/ Commits(q, "reject")
                \/ Commits(q, "transition") /\ request[q].seen.status = "cancelled"]_vars
    BY DEF LateSecondCycle
<1> HIDE DEF Late
<1>5. QED BY <1>1, <1>2, <1>3, <1>4, PTL DEF Spec, SecondCycleOpensOnlyLate
=============================================================================
