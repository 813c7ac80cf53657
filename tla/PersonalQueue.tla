---------------------------- MODULE PersonalQueue ----------------------------
(***************************************************************************)
(* Personal queues: one row per queued item, ordered by midpoint positions.*)
(*                                                                         *)
(* Each action is one request: it changes the item and calls               *)
(* QueueService.sync in the same transaction, or it is one of the human    *)
(* actions move, pin and unpin.  The per-owner advisory lock, held to the  *)
(* end of the transaction, makes each of them one step; what happens to an *)
(* assignee read before the lock is the subject of IssueTransactions.      *)
(*                                                                         *)
(* Positions are floats in the code; here they are integers, with MIN_GAP  *)
(* as the unit and the midpoint rounded down.                              *)
(***************************************************************************)
EXTENDS FiniteSets, FiniteSetsExt, Integers

CONSTANTS
    Item,            \* issue ids, numbers: the id breaks ties of the default rule
    User,            \* people with a queue
    NoUser,          \* the null assignee_id
    Key,             \* values of the default rule before the id: smaller goes first
    PinLimit,        \* PIN_LIMIT
    Step,            \* POSITION_STEP
    Last,            \* the landing below everything else in a group
    PositionBound    \* bound on positions above; -Step is the one below

ASSUME ItemAssumption == Item \subseteq Nat /\ Key \subseteq Nat /\ Last \notin Item
ASSUME UserAssumption == NoUser \notin User
ASSUME StepAssumption == Step \in Nat /\ Step > 1
ASSUME PinAssumption == PinLimit \in Nat

\* What sync sees of a status and the trash: queued (the board minus Done),
\* done, or away (triage, Cancelled, trashed).
Phase == {"queued", "done", "away"}

Entry == [owner : User, pinned : BOOLEAN, locked : BOOLEAN, dormant : BOOLEAN,
          position : Int]

VARIABLES
    assignee,    \* issues.assignee_id
    phase,       \* where each item is
    key,         \* the default rule's key of each item
    entry,       \* queue_entries, a function on the items that have one
    arranged     \* history: the queues whose order is not all the default rule's

vars == <<assignee, phase, key, entry, arranged>>

TypeOK ==
    /\ assignee \in [Item -> User \cup {NoUser}]
    /\ phase \in [Item -> Phase]
    /\ key \in [Item -> Key]
    /\ entry \in [DOMAIN entry -> Entry]
    /\ DOMAIN entry \subseteq Item
    /\ arranged \subseteq User

(***************************************************************************)
(* queue_order: where things go                                            *)
(***************************************************************************)
Group(e, o, p) == {i \in DOMAIN e : e[i].owner = o /\ e[i].pinned = p}
Shown(e, o, p) == {i \in Group(e, o, p) : ~e[i].dormant}

\* A strict order on the entries of one group.
Above(e, i, j) ==
    \/ e[i].position < e[j].position
    \/ e[i].position = e[j].position /\ i < j

First(e, S) == CHOOSE x \in S : \A j \in S : j # x => Above(e, x, j)
FirstOrLast(e, S) == IF S = {} THEN Last ELSE First(e, S)

RanksHigher(k, i, j) == k[i] < k[j] \/ (k[i] = k[j] /\ i < j)

\* The positions of G that sort before x, dormant ones included.
Below(e, G, x) == {e[j].position : j \in {g \in G : e[g].position < e[x].position}}

\* No room for a midpoint directly above x.
Cramped(e, G, x) ==
    /\ x # Last
    /\ Below(e, G, x) # {}
    /\ e[x].position - Max(Below(e, G, x)) < 2

\* position_at: directly above x among G, or below all of it.
PositionAt(e, G, x) ==
    IF G = {} THEN Step
    ELSE IF x = Last THEN Max({e[j].position : j \in G}) + Step
    ELSE IF Below(e, G, x) = {} THEN e[x].position - Step
    ELSE (Max(Below(e, G, x)) + e[x].position) \div 2

\* Mutation: only the visible entries are respaced.
RenumberedShown(e, G) ==
    LET S == {i \in G : ~e[i].dormant}
        Rank(i) == Cardinality({j \in S : ~Above(e, i, j)})
    IN  [i \in DOMAIN e |->
            IF i \in S THEN [e[i] EXCEPT !.position = Step * Rank(i)] ELSE e[i]]

\* _renumber: evenly spaced, order kept, dormant entries included.
Renumbered(e, G) ==
    LET Rank(i) == Cardinality({j \in G : ~Above(e, i, j)})
    IN  [i \in DOMAIN e |->
            IF i \in G THEN [e[i] EXCEPT !.position = Step * Rank(i)] ELSE e[i]]

\* _set_position: i goes directly above x in its own group.
Positioned(e, i, x) ==
    LET G == Group(e, e[i].owner, e[i].pinned) \ {i}
        f == IF Cramped(e, G, x) THEN Renumbered(e, G) ELSE e
    IN  [f EXCEPT ![i].position = PositionAt(f, G, x)]

\* Mutation: a new item goes to the end.
PlacedLast(e, k, i) == Positioned(e, i, Last)

\* _place_by_default: above the first shown item that ranks lower.
PlacedByDefault(e, k, i) ==
    Positioned(e, i,
        FirstOrLast(e, {j \in Shown(e, e[i].owner, FALSE) \ {i} : RanksHigher(k, i, j)}))

(***************************************************************************)
(* QueueService                                                            *)
(***************************************************************************)
Without(e, i) == [j \in DOMAIN e \ {i} |-> e[j]]

NewEntry(o) == [owner |-> o, pinned |-> FALSE, locked |-> FALSE,
                dormant |-> FALSE, position |-> 0]

Inserted(e, k, i, o) ==
    PlacedByDefault([j \in DOMAIN e \cup {i} |-> IF j = i THEN NewEntry(o) ELSE e[j]], k, i)

Unpinned(e, i) == [e EXCEPT ![i].pinned = FALSE, ![i].locked = FALSE]

\* Mutation: a finished pin goes to the end of the rest.
SleptLast(e, i) ==
    LET f == Unpinned(e, i)
        g == Positioned(f, i, Last)
    IN  [(IF e[i].pinned THEN g ELSE e) EXCEPT ![i].dormant = TRUE]

\* Done: a pin is released at the top of the rest, then the entry sleeps.
Slept(e, i) ==
    LET f == Unpinned(e, i)
        g == Positioned(f, i, FirstOrLast(f, Shown(f, f[i].owner, FALSE) \ {i}))
    IN  [(IF e[i].pinned THEN g ELSE e) EXCEPT ![i].dormant = TRUE]

\* Mutation: an entry stays in the queue it is in.
SyncedWhereItIs(e, k, i, o, s, reranked) ==
    IF o # NoUser /\ s = "queued"
    THEN IF i \notin DOMAIN e THEN Inserted(e, k, i, o)
         ELSE [e EXCEPT ![i].dormant = FALSE]
    ELSE IF o # NoUser /\ s = "done"
    THEN IF i \in DOMAIN e /\ ~e[i].dormant THEN Slept(e, i) ELSE e
    ELSE Without(e, i)

\* Mutation: an unassigned item is queued too.
SyncedUnassigned(e, k, i, o, s, reranked) ==
    IF s = "queued" /\ (i \notin DOMAIN e \/ e[i].owner # o) THEN Inserted(Without(e, i), k, i, o)
    ELSE IF s = "away" THEN Without(e, i)
    ELSE e

\* sync, for an item with assignee o in phase s.
Synced(e, k, i, o, s, reranked) ==
    LET f    == IF i \in DOMAIN e /\ e[i].owner # o THEN Without(e, i) ELSE e
        here == i \in DOMAIN f
    IN  IF o # NoUser /\ s = "queued"
        THEN IF ~here THEN Inserted(f, k, i, o)
             ELSE IF f[i].dormant THEN [f EXCEPT ![i].dormant = FALSE]
             ELSE IF reranked /\ ~f[i].pinned THEN PlacedByDefault(f, k, i)
             ELSE f
        ELSE IF o # NoUser /\ s = "done"
        THEN IF here /\ ~f[i].dormant THEN Slept(f, i) ELSE f
        ELSE Without(f, i)

\* Positions stay within the model's bound.
Bounded(e) == \A i \in DOMAIN e : e[i].position \in -Step..PositionBound

(***************************************************************************)
(* Requests                                                                *)
(***************************************************************************)

\* An item request that leaves assignee o, phase s and priority key k: a
\* status change syncs first, then the edit itself does.
Update(i, o, s, k) ==
    LET newKey == [key EXCEPT ![i] = k]
        moved  == IF s = phase[i] THEN entry
                  ELSE Synced(entry, newKey, i, o, s, FALSE)
    IN  /\ assignee' = [assignee EXCEPT ![i] = o]
        /\ phase' = [phase EXCEPT ![i] = s]
        /\ key' = newKey
        /\ entry' = Synced(moved, newKey, i, o, s, k # key[i])
        /\ Bounded(entry')
        /\ arranged' = arranged \cup
              {u \in User : /\ i \in DOMAIN entry /\ i \in DOMAIN entry'
                            /\ entry[i].owner = u /\ entry'[i].dormant}

\* A change of due date or a new recurrence: the key changes, the entry stays.
Drift(i, k) ==
    /\ key' = [key EXCEPT ![i] = k]
    /\ arranged' = arranged \cup {u \in User : i \in DOMAIN entry /\ entry[i].owner = u}
    /\ UNCHANGED <<assignee, phase, entry>>

\* Mutation: dropped after the anchor, the item lands above it.
LandingAbove(e, i, anchor, after) ==
    LET G == Shown(e, e[i].owner, e[i].pinned) \ {i} IN
    IF anchor = i THEN FirstOrLast(e, {j \in G : Above(e, anchor, j)}) ELSE anchor

\* move_index: the item that i ends up directly above when it is dropped
\* before or after the anchor, which may be i itself.
LandingAt(e, i, anchor, after) ==
    LET G == Shown(e, e[i].owner, e[i].pinned) \ {i} IN
    IF anchor = i \/ after
    THEN FirstOrLast(e, {j \in G : Above(e, anchor, j)})
    ELSE anchor

Move(i, anchor, after) ==
    /\ {i, anchor} \subseteq DOMAIN entry
    /\ ~entry[i].dormant /\ ~entry[anchor].dormant
    /\ entry[anchor].owner = entry[i].owner
    /\ entry[anchor].pinned = entry[i].pinned
    /\ entry' = Positioned(entry, i, LandingAt(entry, i, anchor, after))
    /\ Bounded(entry')
    /\ arranged' = arranged \cup {entry[i].owner}
    /\ UNCHANGED <<assignee, phase, key>>

Pin(i, byOwner) ==
    /\ i \in DOMAIN entry
    /\ ~entry[i].dormant /\ ~entry[i].pinned
    /\ Cardinality(Shown(entry, entry[i].owner, TRUE)) < PinLimit
    /\ entry' = Positioned([entry EXCEPT ![i].pinned = TRUE, ![i].locked = ~byOwner],
                           i, Last)
    /\ Bounded(entry')
    /\ UNCHANGED <<assignee, phase, key, arranged>>

Unpin(i, byOwner) ==
    /\ i \in DOMAIN entry
    /\ ~entry[i].dormant /\ entry[i].pinned
    /\ ~(entry[i].locked /\ byOwner)
    /\ entry' = PlacedByDefault(Unpinned(entry, i), key, i)
    /\ Bounded(entry')
    /\ UNCHANGED <<assignee, phase, key, arranged>>

Init ==
    /\ assignee = [i \in Item |-> NoUser]
    /\ phase = [i \in Item |-> "away"]
    /\ key \in [Item -> Key]
    /\ entry = [i \in {} |-> {}]
    /\ arranged = {}

Next ==
    \E i \in Item :
        \/ \E o \in User \cup {NoUser}, s \in Phase, k \in Key : Update(i, o, s, k)
        \/ \E k \in Key : Drift(i, k)
        \/ \E anchor \in Item, after \in BOOLEAN : Move(i, anchor, after)
        \/ \E byOwner \in BOOLEAN : Pin(i, byOwner)
        \/ \E byOwner \in BOOLEAN : Unpin(i, byOwner)

Spec == Init /\ [][Next]_vars

(***************************************************************************)
(* Properties                                                              *)
(***************************************************************************)

\* An item shows in exactly one queue, its assignee's, while it is queued
\* work; a hidden entry is finished work of the same person; pins are only on
\* shown entries.  Held across reassignment, trash, restore and returns.
EntryMatchesItem ==
    \A i \in Item :
        /\ (i \in DOMAIN entry /\ ~entry[i].dormant)
              <=> (assignee[i] # NoUser /\ phase[i] = "queued")
        /\ i \in DOMAIN entry =>
              /\ entry[i].owner = assignee[i]
              /\ entry[i].dormant => phase[i] = "done" /\ ~entry[i].pinned
              /\ entry[i].locked => entry[i].pinned

\* No two entries of a group share a position, hidden ones included: the
\* order never depends on the tie-break, however often midpoints halve.
NoTies ==
    \A i, j \in DOMAIN entry :
        i # j /\ entry[i].owner = entry[j].owner /\ entry[i].pinned = entry[j].pinned
            => entry[i].position # entry[j].position

\* FR-37, FR-39: in a queue nobody arranged (no drag, no return, no drift of a
\* key) the rest is in the order of the default rule.
UnarrangedIsSorted ==
    \A o \in User \ arranged : \A i, j \in Shown(entry, o, FALSE) :
        Above(entry, i, j) => RanksHigher(key, i, j)

\* FR-38: an item dropped on another ends up right beside it, on the side
\* asked for, with no other shown item in between, renumbered or not.
DropLandsBeside ==
    [][\A i, anchor \in Item, after \in BOOLEAN :
        Move(i, anchor, after) /\ anchor # i =>
            /\ after <=> Above(entry', anchor, i)
            /\ \A j \in Shown(entry', entry'[i].owner, entry'[i].pinned) \ {i, anchor} :
                  Above(entry', j, i) <=> Above(entry', j, anchor)]_vars

Order == INSTANCE QueueOrder WITH
    owner   <- [i \in DOMAIN entry |-> entry[i].owner],
    pinned  <- {i \in DOMAIN entry : entry[i].pinned},
    dormant <- {i \in DOMAIN entry : entry[i].dormant},
    above   <- {q \in (DOMAIN entry) \X (DOMAIN entry) :
                    /\ entry[q[1]].owner = entry[q[2]].owner
                    /\ entry[q[1]].pinned = entry[q[2]].pinned
                    /\ Above(entry, q[1], q[2])}

\* Positions implement the order a queue promises: every request moves one
\* item, to the place asked for, and renumbering moves nothing.
ImplementsOrder == Order!Spec
=============================================================================
