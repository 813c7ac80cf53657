------------------------------- MODULE Backlog -------------------------------
(***************************************************************************)
(* The ranks of one project's backlog.                                     *)
(*                                                                         *)
(* A rank is a midpoint between neighbours.  Reorders serialize on the     *)
(* project row; a new member takes the rank below everything without that  *)
(* lock.  Each request is a transaction at READ COMMITTED: it reads what   *)
(* is committed and its own writes, statement by statement.                *)
(*                                                                         *)
(* Ranks are floats in the code; here they are integers, with MIN_GAP as   *)
(* the unit and the midpoint rounded down.                                 *)
(***************************************************************************)
EXTENDS FiniteSets, FiniteSetsExt, Integers

CONSTANTS
    Item,         \* issue ids, numbers: created_at and the id break ties alike
    Mobile,       \* those that leave the backlog again, for a release, triage,
                  \* Done, Cancelled, the trash or another project
    NoItem,       \* no anchor, no neighbour
    NoRank,       \* the null backlog_rank
    Request,      \* concurrent requests
    Step,         \* RANK_STEP
    RankBound     \* bound on ranks, which stay between 0 and it

ASSUME ItemAssumption == Item \subseteq Nat /\ Mobile \subseteq Item /\ NoItem \notin Item
ASSUME RankAssumption == NoRank \notin Int
ASSUME StepAssumption == Step \in Nat /\ Step > 1

VARIABLES
    member,      \* the items in the backlog
    rank,        \* issues.backlog_rank as committed
    state        \* the transaction of each request

vars == <<member, rank, state>>

\* What a transaction holds: where it is, the item it places or moves, the
\* anchors above and below, the rank it chose, the ranks it wrote so far and
\* (history) the items that came to the backlog since it took the lock.
Idle == [at |-> "idle", item |-> NoItem, after |-> NoItem, before |-> NoItem,
         rank |-> NoRank, write |-> [i \in {} |-> 0], fresh |-> {}]

Placing == {"loaded", "joining", "placed", "joined", "filed"}
Reordering == {"locked", "cramped", "renumbered", "chosen", "stuck"}

TypeOK ==
    /\ member \subseteq Item
    /\ rank \in [Item -> Int \cup {NoRank}]
    /\ \A q \in Request :
          /\ state[q].at \in {"idle"} \cup Placing \cup Reordering
          /\ state[q].item \in Item \cup {NoItem}
          /\ state[q].at = "idle" => state[q] = Idle
          /\ state[q].at \in {"chosen", "placed", "joined", "filed"} <=> state[q].rank # NoRank
          /\ DOMAIN state[q].write \subseteq Item
          /\ \A i \in DOMAIN state[q].write : state[q].write[i] \in Int

(***************************************************************************)
(* Ranks                                                                   *)
(***************************************************************************)

\* The ranks a transaction that wrote w sees.
Seen(w) == [i \in Item |-> IF i \in DOMAIN w THEN w[i] ELSE rank[i]]

Ranked(v) == {i \in Item : v[i] # NoRank}

\* backlog_items: by rank, the unranked last, then the older first.
Above(v, i, j) ==
    \/ v[i] # NoRank /\ v[j] = NoRank
    \/ v[i] # NoRank /\ v[j] # NoRank /\ v[i] < v[j]
    \/ v[i] = v[j] /\ i < j

\* bottom_rank: every ranked item of the project counts, members or not.
Bottom(v) == IF Ranked(v) = {} THEN Step ELSE Max({v[i] : i \in Ranked(v)}) + Step

\* _members: those without a rank get one at the bottom, in order.
AllRanked(v) ==
    LET Unranked == {i \in member : v[i] = NoRank}
    IN  [i \in Item |->
            IF i \in Unranked
            THEN Bottom(v) + Step * Cardinality({j \in Unranked : j < i})
            ELSE v[i]]

\* Mutation: only the members are respread.
RenumberedMembers(v) ==
    [i \in Ranked(v) \cap member |->
        Step * Cardinality({j \in Ranked(v) \cap member : j = i \/ Above(v, j, i)})]

\* Mutation: consecutive numbers, with no room between.
RenumberedTight(v) ==
    [i \in Ranked(v) |-> Cardinality({j \in Ranked(v) : j = i \/ Above(v, j, i)})]

\* _renumber: every ranked item Step apart, order kept.
Renumbered(v) ==
    [i \in Ranked(v) |-> Step * Cardinality({j \in Ranked(v) : j = i \/ Above(v, j, i)})]

\* The neighbours the moved item goes between.
Upper(v, i, after, before) ==
    LET S == {j \in member \ {i} : Above(v, j, before)}
    IN  IF after # NoItem THEN after
        ELSE IF S = {} THEN NoItem
        ELSE CHOOSE j \in S : \A k \in S \ {j} : Above(v, k, j)

Lower(v, i, after, before) ==
    LET S == {j \in member \ {i} : Above(v, after, j)}
    IN  IF before # NoItem THEN before
        ELSE IF S = {} THEN NoItem
        ELSE CHOOSE j \in S : \A k \in S \ {j} : Above(v, j, k)

\* A midpoint would leave less than MIN_GAP on one side.
NoRoom(v, u, l) == u # NoItem /\ l # NoItem /\ v[l] - v[u] < 2

Between(v, u, l) ==
    IF u = NoItem THEN v[l] - Step
    ELSE IF l = NoItem THEN v[u] + Step
    ELSE (v[u] + v[l]) \div 2

Bounded(r) == r \in 0..RankBound

(***************************************************************************)
(* Locks                                                                   *)
(***************************************************************************)

\* No other transaction wrote the row of i.
RowFree(q, i) ==
    \A p \in Request \ {q} :
        /\ i \notin DOMAIN state[p].write
        /\ ~(state[p].at \in {"placed", "joined", "filed"} /\ state[p].item = i)

\* SELECT ... FOR UPDATE on the project; the foreign key of a new issue holds
\* a share of that row until its transaction ends.
ProjectFree(q) ==
    \A p \in Request \ {q} : state[p].at \notin Reordering \cup {"filed"}

NotReordered(q) == \A p \in Request \ {q} : state[p].at \notin Reordering

\* i came to the backlog, or came to a rank, other than by a reorder.
Came(s, i) ==
    [p \in Request |-> IF s[p].at \in Reordering
                       THEN [s[p] EXCEPT !.fresh = @ \cup {i}] ELSE s[p]]

(***************************************************************************)
(* Members come and go                                                     *)
(***************************************************************************)

\* A request that will make i a member (joins) or edits an unranked member
\* reads its row before it locks it.
Load(q, i, joins) ==
    /\ state[q].at = "idle"
    /\ rank[i] = NoRank
    /\ joins <=> i \notin member
    /\ state' = [state EXCEPT ![q].at = IF joins THEN "joining" ELSE "loaded", ![q].item = i]
    /\ UNCHANGED <<member, rank>>

\* place, once the row is written: it trusts the rank it loaded and reads the
\* maximum of what is committed.
Place(q) ==
    /\ state[q].at \in {"loaded", "joining"}
    /\ RowFree(q, state[q].item)
    /\ Bounded(Bottom(rank))
    /\ state' = [state EXCEPT ![q].at = IF @ = "loaded" THEN "placed" ELSE "joined",
                              ![q].rank = Bottom(rank)]
    /\ UNCHANGED <<member, rank>>

\* Filing straight into the backlog, or moving here with PATCH: the foreign
\* key waits for a reorder before place reads the maximum.
File(q, i) ==
    /\ state[q].at = "idle"
    /\ i \notin member
    /\ rank[i] = NoRank
    /\ NotReordered(q)
    /\ RowFree(q, i)
    /\ Bounded(Bottom(rank))
    /\ state' = [state EXCEPT ![q].at = "filed", ![q].item = i, ![q].rank = Bottom(rank)]
    /\ UNCHANGED <<member, rank>>

CommitPlace(q) ==
    LET i == state[q].item IN
    /\ state[q].at \in {"placed", "joined", "filed"}
    /\ member' = IF state[q].at = "placed" THEN member ELSE member \cup {i}
    /\ rank' = [rank EXCEPT ![i] = state[q].rank]
    /\ state' = Came([state EXCEPT ![q] = Idle], i)

\* Into a release, triage, Done, Cancelled or the trash: the rank is kept.
Leave(q, i) ==
    /\ state[q].at = "idle"
    /\ i \in member \cap Mobile
    /\ RowFree(q, i)
    /\ member' = member \ {i}
    /\ UNCHANGED <<rank, state>>

\* Back from there, to the place it had.
Return(q, i) ==
    /\ state[q].at = "idle"
    /\ i \notin member
    /\ rank[i] # NoRank
    /\ RowFree(q, i)
    /\ member' = member \cup {i}
    /\ state' = Came(state, i)
    /\ UNCHANGED rank

\* move_project from another project: a member without a rank.
Arrive(q, i) ==
    /\ state[q].at = "idle"
    /\ i \in Mobile \ member
    /\ rank[i] = NoRank
    /\ NotReordered(q)
    /\ \A p \in Request : state[p].item # i
    /\ member' = member \cup {i}
    /\ UNCHANGED <<rank, state>>

\* To another project; no other request has it loaded.
Depart(q, i) ==
    /\ state[q].at = "idle"
    /\ i \in Mobile
    /\ RowFree(q, i)
    /\ \A p \in Request : state[p].item # i
    /\ member' = member \ {i}
    /\ rank' = [rank EXCEPT ![i] = NoRank]
    /\ state' = Came(state, i)

(***************************************************************************)
(* Reorders                                                                *)
(***************************************************************************)
\* Mutation: the project row is not locked.
LockNothing(q, i, after, before) ==
    /\ state[q].at = "idle"
    /\ after # NoItem \/ before # NoItem
    /\ i \notin {after, before}
    /\ i \in member
    /\ state' = [state EXCEPT ![q] = [Idle EXCEPT !.at = "locked", !.item = i,
                                                  !.after = after, !.before = before]]
    /\ UNCHANGED <<member, rank>>

\* The project row, then whether the item is in the backlog.
Lock(q, i, after, before) ==
    /\ state[q].at = "idle"
    /\ after # NoItem \/ before # NoItem
    /\ i \notin {after, before}
    /\ ProjectFree(q)
    /\ i \in member
    /\ state' = [state EXCEPT ![q] = [Idle EXCEPT !.at = "locked", !.item = i,
                                                  !.after = after, !.before = before]]
    /\ UNCHANGED <<member, rank>>

Anchors(q) == {state[q].after, state[q].before} \ {NoItem}

\* Reads the members and picks a rank; the first time it may ask for a
\* renumber, the second time it gives up (RuntimeError).
Read(q) ==
    LET s == state[q]
        v == AllRanked(Seen(s.write))
        u == Upper(v, s.item, s.after, s.before)
        l == Lower(v, s.item, s.after, s.before)
        written == DOMAIN s.write \cup {i \in member : Seen(s.write)[i] = NoRank}
    IN  /\ s.at \in {"locked", "renumbered"}
        /\ \A i \in written : RowFree(q, i) /\ Bounded(v[i])
        /\ IF Anchors(q) \subseteq member /\ (s.after # NoItem /\ s.before # NoItem
                                              => Above(v, s.after, s.before))
           THEN LET t == [s EXCEPT !.write = [i \in written |-> v[i]]]
                IN  IF NoRoom(v, u, l)
                    THEN state' = [state EXCEPT ![q] =
                            [t EXCEPT !.at = IF s.at = "locked" THEN "cramped" ELSE "stuck"]]
                    ELSE /\ Bounded(Between(v, u, l))
                         /\ state' = [state EXCEPT ![q] =
                                [t EXCEPT !.at = "chosen", !.rank = Between(v, u, l)]]
           ELSE state' = [state EXCEPT ![q] = Idle]
        /\ UNCHANGED <<member, rank>>

Renumber(q) ==
    LET w == Renumbered(Seen(state[q].write)) IN
    /\ state[q].at = "cramped"
    /\ \A i \in DOMAIN w : RowFree(q, i) /\ Bounded(w[i])
    /\ state' = [state EXCEPT ![q].at = "renumbered", ![q].write = w]
    /\ UNCHANGED <<member, rank>>

\* Writes the rank of the moved item and commits.
CommitReorder(q) ==
    /\ state[q].at = "chosen"
    /\ RowFree(q, state[q].item)
    /\ rank' = [Seen(state[q].write) EXCEPT ![state[q].item] = state[q].rank]
    /\ state' = [state EXCEPT ![q] = Idle]
    /\ UNCHANGED member

\* Mutation: the failed transaction keeps its locks.
AbortHolding(q) ==
    /\ state[q].at # "idle"
    /\ state' = [state EXCEPT ![q].at = "idle"]
    /\ UNCHANGED <<member, rank>>

\* The request fails and its transaction is rolled back.
Abort(q) ==
    /\ state[q].at # "idle"
    /\ state' = [state EXCEPT ![q] = Idle]
    /\ UNCHANGED <<member, rank>>

Init ==
    /\ member = {}
    /\ rank = [i \in Item |-> NoRank]
    /\ state = [q \in Request |-> Idle]

Next ==
    \E q \in Request :
        \/ \E i \in Item, joins \in BOOLEAN : Load(q, i, joins)
        \/ Place(q)
        \/ \E i \in Item : File(q, i)
        \/ CommitPlace(q)
        \/ \E i \in Item : Leave(q, i)
        \/ \E i \in Item : Return(q, i)
        \/ \E i \in Item : Arrive(q, i)
        \/ \E i \in Item : Depart(q, i)
        \/ \E i \in Item, after, before \in Item \cup {NoItem} : Lock(q, i, after, before)
        \/ Read(q)
        \/ Renumber(q)
        \/ CommitReorder(q)
        \/ Abort(q)

Spec == Init /\ [][Next]_vars

(***************************************************************************)
(* Properties                                                              *)
(***************************************************************************)

\* FR-25: a reorder lands its item on the side of the anchor asked for, and
\* when only one is given right beside it and equal in rank to no other member,
\* whatever reorders, placements and edits ran meanwhile.  Between two anchors
\* there may be items the page does not show, and one may have the midpoint.
\* Items that came to the backlog while it ran are not its to arrange.
ReorderLandsBeside ==
    [][\A q \in Request :
        LET s == state[q]
            i == s.item
            Known == member \ (s.fresh \cup {i})
        IN  CommitReorder(q) =>
              /\ s.after \in Known => Above(rank', s.after, i)
              /\ s.before \in Known => Above(rank', i, s.before)
              /\ NoItem \in {s.after, s.before} => \A j \in Known : rank'[j] # rank'[i]
              /\ \A j \in Known, a \in {s.after, s.before} \cap Known :
                    a # j /\ {s.after, s.before} = {a, NoItem} =>
                        (Above(rank', j, i) <=> Above(rank', j, a))]_vars

\* A reorder moves one item: any two others keep their order, dormant ranks
\* of items outside the backlog included, renumbered or not, so that a
\* demoted item returns where it was.
OthersKeepOrder ==
    [][\A q \in Request : CommitReorder(q) =>
        \A j, k \in Item \ (state[q].fresh \cup {state[q].item}) :
            (j \in member \/ rank[j] # NoRank) /\ (k \in member \/ rank[k] # NoRank)
                => (Above(rank', j, k) <=> Above(rank, j, k))]_vars

\* "A fresh renumber always leaves RANK_STEP gaps": the second read finds no
\* room only when an item came between the two.
RenumberLeavesRoom ==
    \A q \in Request : state[q].at = "stuck" => state[q].fresh # {}
=============================================================================
