----------------------------- MODULE QueueProofs -----------------------------
(***************************************************************************)
(* Proofs about PersonalQueue, for any number of people and items.         *)
(*                                                                         *)
(* Which queue an item shows in does not depend on positions: the first    *)
(* part leaves open what a position is.  The second part is about order:   *)
(* what a placement, a renumbering and a whole sync do to the positions,   *)
(* for any finite number of rows; from it follow that positions never tie, *)
(* the default order, where a drop lands, and that positions implement     *)
(* QueueOrder.  The last part is about QueueOrder itself.                  *)
(***************************************************************************)
EXTENDS PersonalQueue, FiniteSetTheorems, TLAPS

\* An entry with any position, and what of it a placement keeps.
IsEntry(x) ==
    /\ x = [owner |-> x.owner, pinned |-> x.pinned, locked |-> x.locked,
            dormant |-> x.dormant, position |-> x.position]
    /\ x.owner \in User
    /\ x.pinned \in BOOLEAN /\ x.locked \in BOOLEAN /\ x.dormant \in BOOLEAN

SameMarks(x, y) ==
    /\ y.owner = x.owner
    /\ y.pinned = x.pinned
    /\ y.locked = x.locked
    /\ y.dormant = x.dormant

Table(e) ==
    /\ e = [j \in DOMAIN e |-> e[j]]
    /\ \A j \in DOMAIN e : IsEntry(e[j])

Same(e, f) == DOMAIN f = DOMAIN e /\ \A j \in DOMAIN e : SameMarks(e[j], f[j])

\* Rows other than i's.
OthersSame(e, f, i) ==
    /\ DOMAIN f \ {i} = DOMAIN e \ {i}
    /\ \A j \in DOMAIN e \ {i} : SameMarks(e[j], f[j])

\* Pins are shown, locks are on pins.
MarksAgree(x) == (x.dormant => ~x.pinned) /\ (x.locked => x.pinned)

\* EntryMatchesItem for one item with assignee o in phase s.
Matches(e, i, o, s) ==
    /\ (i \in DOMAIN e /\ ~e[i].dormant) <=> (o # NoUser /\ s = "queued")
    /\ i \in DOMAIN e =>
          /\ e[i].owner = o
          /\ e[i].dormant => s = "done" /\ ~e[i].pinned
          /\ e[i].locked => e[i].pinned

IInv ==
    /\ assignee \in [Item -> User \cup {NoUser}]
    /\ phase \in [Item -> Phase]
    /\ Table(entry)
    /\ DOMAIN entry \subseteq Item
    /\ EntryMatchesItem

(***************************************************************************)
(* Placements                                                              *)
(***************************************************************************)
LEMMA Repositioned ==
    ASSUME NEW x, IsEntry(x), NEW v
    PROVE  /\ IsEntry([x EXCEPT !.position = v])
           /\ SameMarks(x, [x EXCEPT !.position = v])
    BY DEF IsEntry, SameMarks

LEMMA RenumberedKeeps ==
    ASSUME NEW e, Table(e), NEW G
    PROVE  Table(Renumbered(e, G)) /\ Same(e, Renumbered(e, G))
<1> DEFINE rank(i) == Step * Cardinality({j \in G : ~Above(e, i, j)})
           f == Renumbered(e, G)
<1>1. f = [i \in DOMAIN e |->
             IF i \in G THEN [e[i] EXCEPT !.position = rank(i)] ELSE e[i]]
    BY DEF Renumbered
<1> HIDE DEF f, rank
<1>2. ASSUME NEW j \in DOMAIN e PROVE IsEntry(f[j]) /\ SameMarks(e[j], f[j])
    <2>1. IsEntry(e[j])
        BY DEF Table
    <2>2. CASE j \in G
        BY <1>1, <2>1, <2>2, Repositioned
    <2>3. CASE j \notin G
        BY <1>1, <2>1, <2>3 DEF SameMarks
    <2>4. QED BY <2>2, <2>3
<1>3. DOMAIN f = DOMAIN e /\ f = [j \in DOMAIN f |-> f[j]]
    BY <1>1
<1>4. QED BY <1>2, <1>3 DEF Table, Same, f

\* A placement may renumber the group; it writes positions only.
LEMMA PositionedKeeps ==
    ASSUME NEW e, Table(e), NEW i \in DOMAIN e, NEW x
    PROVE  Table(Positioned(e, i, x)) /\ Same(e, Positioned(e, i, x))
<1> DEFINE G == Group(e, e[i].owner, e[i].pinned) \ {i}
           f == IF Cramped(e, G, x) THEN Renumbered(e, G) ELSE e
           v == PositionAt(f, G, x)
           g == Positioned(e, i, x)
<1>1. Table(f) /\ Same(e, f)
    BY RenumberedKeeps DEF Same, SameMarks
<1>2. g = [f EXCEPT ![i].position = v]
    BY DEF Positioned
<1> HIDE DEF f, v, g
<1>3. i \in DOMAIN f
    BY <1>1 DEF Same
<1>4. g = [f EXCEPT ![i] = [f[i] EXCEPT !.position = v]]
    BY <1>2
<1>5. ASSUME NEW j \in DOMAIN f PROVE IsEntry(g[j]) /\ SameMarks(f[j], g[j])
    <2>1. IsEntry(f[j])
        BY <1>1 DEF Table
    <2>2. CASE j = i
        BY <1>1, <1>3, <1>4, <2>1, <2>2, Repositioned DEF Table
    <2>3. CASE j # i
        BY <1>1, <1>4, <2>1, <2>3 DEF SameMarks, Table
    <2>4. QED BY <2>2, <2>3
<1>6. DOMAIN g = DOMAIN f /\ g = [j \in DOMAIN g |-> g[j]]
    BY <1>1, <1>4 DEF Table
<1>7. Table(g)
    BY <1>5, <1>6 DEF Table
<1>8. Same(e, g)
    BY <1>1, <1>5, <1>6 DEF Same, SameMarks
<1>9. QED BY <1>7, <1>8 DEF g

LEMMA PlacedKeeps ==
    ASSUME NEW e, Table(e), NEW k, NEW i \in DOMAIN e
    PROVE  Table(PlacedByDefault(e, k, i)) /\ Same(e, PlacedByDefault(e, k, i))
    BY PositionedKeeps DEF PlacedByDefault

(***************************************************************************)
(* The pieces of sync                                                      *)
(***************************************************************************)
LEMMA WithoutKeeps ==
    ASSUME NEW e, Table(e), NEW i
    PROVE  /\ Table(Without(e, i)) /\ OthersSame(e, Without(e, i), i)
           /\ i \notin DOMAIN Without(e, i)
    BY DEF Without, Table, OthersSame, SameMarks

\* One row written, the others kept.
LEMMA RowWritten ==
    ASSUME NEW e, Table(e), NEW i \in DOMAIN e, NEW x, IsEntry(x)
    PROVE  /\ Table([e EXCEPT ![i] = x]) /\ OthersSame(e, [e EXCEPT ![i] = x], i)
           /\ i \in DOMAIN [e EXCEPT ![i] = x] /\ [e EXCEPT ![i] = x][i] = x
    BY DEF Table, OthersSame, SameMarks

LEMMA InsertedKeeps ==
    ASSUME NEW e, Table(e), NEW k, NEW i, i \notin DOMAIN e, NEW o \in User
    PROVE  /\ Table(Inserted(e, k, i, o)) /\ OthersSame(e, Inserted(e, k, i, o), i)
           /\ i \in DOMAIN Inserted(e, k, i, o)
           /\ SameMarks(NewEntry(o), Inserted(e, k, i, o)[i])
<1> DEFINE f == [j \in DOMAIN e \cup {i} |-> IF j = i THEN NewEntry(o) ELSE e[j]]
           g == Inserted(e, k, i, o)
<1>1. IsEntry(NewEntry(o))
    BY DEF IsEntry, NewEntry
<1>2. Table(f) /\ i \in DOMAIN f /\ OthersSame(e, f, i) /\ f[i] = NewEntry(o)
    BY <1>1 DEF Table, OthersSame, SameMarks
<1>3. g = PlacedByDefault(f, k, i)
    BY DEF Inserted
<1> HIDE DEF f, g
<1>4. Table(g) /\ Same(f, g)
    BY <1>2, <1>3, PlacedKeeps
<1>5. OthersSame(e, g, i) /\ i \in DOMAIN g /\ SameMarks(NewEntry(o), g[i])
    BY <1>2, <1>4 DEF OthersSame, Same, SameMarks
<1>6. QED BY <1>4, <1>5 DEF g

\* Only the pin of row i is written.
LEMMA PinWritten ==
    ASSUME NEW e, Table(e), NEW i \in DOMAIN e, NEW d \in BOOLEAN
    PROVE  LET f == [e EXCEPT ![i].pinned = d] IN
           /\ Table(f) /\ OthersSame(e, f, i) /\ i \in DOMAIN f
           /\ f[i].owner = e[i].owner /\ f[i].dormant = e[i].dormant
           /\ f[i].locked = e[i].locked /\ f[i].pinned = d
<1> DEFINE x == [e[i] EXCEPT !.pinned = d]
<1>1. IsEntry(e[i])
    BY DEF Table
<1>2. /\ IsEntry(x) /\ x.owner = e[i].owner /\ x.dormant = e[i].dormant
      /\ x.locked = e[i].locked /\ x.pinned = d
    BY <1>1 DEF IsEntry
<1>3. [e EXCEPT ![i].pinned = d] = [e EXCEPT ![i] = x]
    OBVIOUS
<1> HIDE DEF x
<1>4. QED BY <1>2, <1>3, RowWritten
\* Only the lock of row i is written.
LEMMA LockWritten ==
    ASSUME NEW e, Table(e), NEW i \in DOMAIN e, NEW d \in BOOLEAN
    PROVE  LET f == [e EXCEPT ![i].locked = d] IN
           /\ Table(f) /\ OthersSame(e, f, i) /\ i \in DOMAIN f
           /\ f[i].owner = e[i].owner /\ f[i].pinned = e[i].pinned
           /\ f[i].dormant = e[i].dormant /\ f[i].locked = d
<1> DEFINE x == [e[i] EXCEPT !.locked = d]
<1>1. IsEntry(e[i])
    BY DEF Table
<1>2. /\ IsEntry(x) /\ x.owner = e[i].owner /\ x.pinned = e[i].pinned
      /\ x.dormant = e[i].dormant /\ x.locked = d
    BY <1>1 DEF IsEntry
<1>3. [e EXCEPT ![i].locked = d] = [e EXCEPT ![i] = x]
    OBVIOUS
<1> HIDE DEF x
<1>4. QED BY <1>2, <1>3, RowWritten
\* Only the dormant mark of row i is written.
LEMMA DormantWritten ==
    ASSUME NEW e, Table(e), NEW i \in DOMAIN e, NEW d \in BOOLEAN
    PROVE  LET f == [e EXCEPT ![i].dormant = d] IN
           /\ Table(f) /\ OthersSame(e, f, i) /\ i \in DOMAIN f
           /\ f[i].owner = e[i].owner /\ f[i].pinned = e[i].pinned
           /\ f[i].locked = e[i].locked /\ f[i].dormant = d
<1> DEFINE x == [e[i] EXCEPT !.dormant = d]
<1>1. IsEntry(e[i])
    BY DEF Table
<1>2. /\ IsEntry(x) /\ x.owner = e[i].owner /\ x.pinned = e[i].pinned
      /\ x.locked = e[i].locked /\ x.dormant = d
    BY <1>1 DEF IsEntry
<1>3. [e EXCEPT ![i].dormant = d] = [e EXCEPT ![i] = x]
    OBVIOUS
<1> HIDE DEF x
<1>4. QED BY <1>2, <1>3, RowWritten
LEMMA UnpinnedKeeps ==
    ASSUME NEW e, Table(e), NEW i \in DOMAIN e
    PROVE  /\ Table(Unpinned(e, i)) /\ OthersSame(e, Unpinned(e, i), i)
           /\ i \in DOMAIN Unpinned(e, i)
           /\ Unpinned(e, i)[i].owner = e[i].owner
           /\ Unpinned(e, i)[i].dormant = e[i].dormant
           /\ ~Unpinned(e, i)[i].pinned /\ ~Unpinned(e, i)[i].locked
<1> DEFINE g == [e EXCEPT ![i].pinned = FALSE]
           f == Unpinned(e, i)
<1>1. f = [g EXCEPT ![i].locked = FALSE]
    BY DEF Unpinned
<1>2. /\ Table(g) /\ OthersSame(e, g, i) /\ i \in DOMAIN g
      /\ g[i].owner = e[i].owner /\ g[i].dormant = e[i].dormant /\ g[i].pinned = FALSE
    BY PinWritten
<1> HIDE DEF f, g
<1>3. /\ Table(f) /\ OthersSame(g, f, i) /\ i \in DOMAIN f
      /\ f[i].owner = g[i].owner /\ f[i].dormant = g[i].dormant
      /\ f[i].pinned = g[i].pinned /\ f[i].locked = FALSE
    BY <1>1, <1>2, LockWritten
<1>4. OthersSame(e, f, i)
    BY <1>2, <1>3 DEF OthersSame, SameMarks
<1>5. QED BY <1>2, <1>3, <1>4 DEF f

\* Done: the entry keeps its owner, loses its pin and sleeps.
LEMMA SleptKeeps ==
    ASSUME NEW e, Table(e), NEW i \in DOMAIN e, MarksAgree(e[i])
    PROVE  LET f == Slept(e, i) IN
           /\ Table(f) /\ OthersSame(e, f, i) /\ i \in DOMAIN f
           /\ f[i].owner = e[i].owner
           /\ f[i].dormant /\ ~f[i].pinned /\ ~f[i].locked
<1> DEFINE u == Unpinned(e, i)
           land == FirstOrLast(u, Shown(u, u[i].owner, FALSE) \ {i})
           g == Positioned(u, i, land)
           h == IF e[i].pinned THEN g ELSE e
           f == Slept(e, i)
<1>1. f = [h EXCEPT ![i].dormant = TRUE]
    BY DEF Slept
<1>2. /\ Table(u) /\ OthersSame(e, u, i) /\ i \in DOMAIN u
      /\ u[i].owner = e[i].owner /\ ~u[i].pinned /\ ~u[i].locked
    BY UnpinnedKeeps
<1> HIDE DEF u, land, f
<1>3. Table(g) /\ Same(u, g)
    BY <1>2, PositionedKeeps
<1> HIDE DEF g
<1>4. /\ Table(h) /\ OthersSame(e, h, i) /\ i \in DOMAIN h
      /\ h[i].owner = e[i].owner /\ ~h[i].pinned /\ ~h[i].locked
    <2>1. CASE e[i].pinned
        BY <1>2, <1>3, <2>1 DEF Same, SameMarks, OthersSame
    <2>2. CASE ~e[i].pinned
        BY <2>2 DEF MarksAgree, OthersSame, SameMarks
    <2>3. QED BY <2>1, <2>2
<1> HIDE DEF h
<1>5. /\ Table(f) /\ OthersSame(h, f, i) /\ i \in DOMAIN f
      /\ f[i].owner = h[i].owner /\ f[i].pinned = h[i].pinned
      /\ f[i].locked = h[i].locked /\ f[i].dormant = TRUE
    BY <1>1, <1>4, DormantWritten
<1>6. OthersSame(e, f, i)
    BY <1>4, <1>5 DEF OthersSame, SameMarks
<1>7. QED BY <1>4, <1>5, <1>6 DEF f

(***************************************************************************)
(* sync                                                                    *)
(***************************************************************************)

\* Whatever the entry was, after sync it matches the item, and no other
\* entry changed more than its position.
LEMMA SyncedMatches ==
    ASSUME NEW e, Table(e), NEW k, NEW i, NEW o \in User \cup {NoUser},
           NEW s \in Phase, NEW r \in BOOLEAN,
           i \in DOMAIN e => MarksAgree(e[i])
    PROVE  LET f == Synced(e, k, i, o, s, r) IN
           /\ Table(f) /\ OthersSame(e, f, i) /\ Matches(f, i, o, s)
<1> DEFINE f == IF i \in DOMAIN e /\ e[i].owner # o THEN Without(e, i) ELSE e
           here == i \in DOMAIN f
           g == Synced(e, k, i, o, s, r)
<1>1. /\ Table(f) /\ OthersSame(e, f, i)
      /\ here => f[i].owner = o /\ MarksAgree(f[i])
    BY WithoutKeeps DEF OthersSame, SameMarks
<1>2. g = IF o # NoUser /\ s = "queued"
          THEN IF ~here THEN Inserted(f, k, i, o)
               ELSE IF f[i].dormant THEN [f EXCEPT ![i].dormant = FALSE]
               ELSE IF r /\ ~f[i].pinned THEN PlacedByDefault(f, k, i)
               ELSE f
          ELSE IF o # NoUser /\ s = "done"
          THEN IF here /\ ~f[i].dormant THEN Slept(f, i) ELSE f
          ELSE Without(f, i)
    BY DEF Synced
<1> HIDE DEF f, g
<1> SUFFICES Table(g) /\ OthersSame(f, g, i) /\ Matches(g, i, o, s)
    BY <1>1 DEF OthersSame, SameMarks, g
<1>3. CASE o # NoUser /\ s = "queued"
    <2> SUFFICES /\ Table(g) /\ OthersSame(f, g, i) /\ i \in DOMAIN g
                 /\ g[i].owner = o /\ ~g[i].dormant /\ (g[i].locked => g[i].pinned)
        BY <1>3 DEF Matches
    <2>1. CASE ~here
        <3>1. g = Inserted(f, k, i, o) /\ o \in User
            BY <1>2, <1>3, <2>1
        <3>2. /\ Table(g) /\ OthersSame(f, g, i) /\ i \in DOMAIN g
              /\ SameMarks(NewEntry(o), g[i])
            BY <1>1, <2>1, <3>1, InsertedKeeps
        <3>3. NewEntry(o).owner = o /\ NewEntry(o).dormant = FALSE
              /\ NewEntry(o).locked = FALSE
            BY DEF NewEntry
        <3>4. g[i].owner = o /\ g[i].dormant = FALSE /\ g[i].locked = FALSE
            BY <3>2, <3>3 DEF SameMarks
        <3>5. QED BY <3>2, <3>4
    <2>2. CASE here /\ f[i].dormant
        <3>1. g = [f EXCEPT ![i].dormant = FALSE]
            BY <1>2, <1>3, <2>2
        <3>2. QED BY <1>1, <2>2, <3>1, DormantWritten DEF MarksAgree
    <2>3. CASE here /\ ~f[i].dormant /\ r /\ ~f[i].pinned
        <3>1. g = PlacedByDefault(f, k, i)
            BY <1>2, <1>3, <2>3
        <3>2. Table(g) /\ Same(f, g)
            BY <1>1, <2>3, <3>1, PlacedKeeps
        <3>3. QED BY <1>1, <2>3, <3>2 DEF Same, SameMarks, OthersSame, MarksAgree
    <2>4. CASE here /\ ~f[i].dormant /\ ~(r /\ ~f[i].pinned)
        <3>1. g = f
            BY <1>2, <1>3, <2>4
        <3>2. QED BY <1>1, <2>4, <3>1 DEF OthersSame, SameMarks, MarksAgree
    <2>5. QED BY <2>1, <2>2, <2>3, <2>4
<1>4. CASE o # NoUser /\ s = "done"
    <2>1. CASE here /\ ~f[i].dormant
        <3>1. g = Slept(f, i)
            BY <1>2, <1>4, <2>1
        <3>2. QED BY <1>1, <1>4, <2>1, <3>1, SleptKeeps DEF Matches
    <2>2. CASE ~(here /\ ~f[i].dormant)
        <3>1. g = f
            BY <1>2, <1>4, <2>2
        <3>2. QED BY <1>1, <1>4, <2>2, <3>1 DEF Matches, OthersSame, SameMarks, MarksAgree
    <2>3. QED BY <2>1, <2>2
<1>5. CASE ~(o # NoUser /\ s \in {"queued", "done"})
    <2>1. g = Without(f, i)
        BY <1>2, <1>5
    <2>2. QED BY <1>1, <1>5, <2>1, WithoutKeeps DEF Matches
<1>6. QED BY <1>3, <1>4, <1>5

(***************************************************************************)
(* Requests                                                                *)
(***************************************************************************)
LEMMA MatchingMarks ==
    ASSUME NEW e, NEW i \in DOMAIN e, NEW o, NEW s, Matches(e, i, o, s)
    PROVE  MarksAgree(e[i])
    BY DEF Matches, MarksAgree

\* A request about item i that leaves i's entry matching it.
LEMMA OneItemStep ==
    ASSUME IInv, NEW i \in Item,
           Table(entry'), OthersSame(entry, entry', i),
           assignee' \in [Item -> User \cup {NoUser}], phase' \in [Item -> Phase],
           \A j \in Item \ {i} : assignee'[j] = assignee[j] /\ phase'[j] = phase[j],
           Matches(entry', i, assignee'[i], phase'[i])
    PROVE  IInv'
<1>1. ASSUME NEW j \in Item PROVE Matches(entry', j, assignee'[j], phase'[j])
    <2>1. CASE j # i
        BY <2>1 DEF IInv, EntryMatchesItem, Matches, OthersSame, SameMarks
    <2>2. QED BY <2>1
<1>2. EntryMatchesItem'
    BY <1>1 DEF EntryMatchesItem, Matches
<1>3. DOMAIN entry' \subseteq Item
    BY DEF OthersSame, IInv
<1>4. Table(entry)'
    BY DEF Table, IsEntry
<1>5. QED BY <1>2, <1>3, <1>4 DEF IInv

\* Where an entry is shown, its item is queued work of its owner.
LEMMA ShownMatches ==
    ASSUME IInv, NEW i \in DOMAIN entry
    PROVE  /\ i \in Item /\ MarksAgree(entry[i])
           /\ Matches(entry, i, assignee[i], phase[i])
<1>1. Matches(entry, i, assignee[i], phase[i])
    BY DEF IInv, EntryMatchesItem, Matches
<1>2. QED BY <1>1, MatchingMarks DEF IInv

LEMMA UpdateStep ==
    ASSUME IInv, NEW i \in Item, NEW o \in User \cup {NoUser}, NEW s \in Phase,
           NEW k \in Key, Update(i, o, s, k)
    PROVE  IInv'
<1> DEFINE newKey == [key EXCEPT ![i] = k]
           moved == IF s = phase[i] THEN entry ELSE Synced(entry, newKey, i, o, s, FALSE)
           reranked == k # key[i]
<1>1. /\ assignee' = [assignee EXCEPT ![i] = o]
      /\ phase' = [phase EXCEPT ![i] = s]
      /\ entry' = Synced(moved, newKey, i, o, s, reranked)
    BY DEF Update
<1>2. reranked \in BOOLEAN
    OBVIOUS
<1> HIDE DEF newKey, reranked
<1>3. /\ Table(moved) /\ OthersSame(entry, moved, i)
      /\ i \in DOMAIN moved => MarksAgree(moved[i])
    <2>0. Table(entry) /\ (i \in DOMAIN entry => MarksAgree(entry[i]))
        BY ShownMatches DEF IInv
    <2>1. CASE s = phase[i]
        BY <2>0, <2>1 DEF OthersSame, SameMarks
    <2>2. CASE s # phase[i]
        <3>1. moved = Synced(entry, newKey, i, o, s, FALSE)
            BY <2>2
        <3> HIDE DEF moved
        <3>2. Table(moved) /\ OthersSame(entry, moved, i) /\ Matches(moved, i, o, s)
            BY <2>0, <3>1, SyncedMatches
        <3>3. QED BY <3>2, MatchingMarks
    <2>3. QED BY <2>1, <2>2
<1> HIDE DEF moved
<1>4. Table(entry') /\ OthersSame(moved, entry', i) /\ Matches(entry', i, o, s)
    BY <1>1, <1>2, <1>3, SyncedMatches
<1>5. OthersSame(entry, entry', i)
    BY <1>3, <1>4 DEF OthersSame, SameMarks
<1>6. /\ assignee' \in [Item -> User \cup {NoUser}] /\ phase' \in [Item -> Phase]
      /\ assignee'[i] = o /\ phase'[i] = s
      /\ \A j \in Item \ {i} : assignee'[j] = assignee[j] /\ phase'[j] = phase[j]
    BY <1>1 DEF IInv
<1>7. QED BY <1>4, <1>5, <1>6, OneItemStep

\* move, pin and unpin: the entry stays, shown, in the same queue.
LEMMA HumanStep ==
    ASSUME IInv, NEW i \in DOMAIN entry, ~entry[i].dormant,
           UNCHANGED <<assignee, phase>>,
           Table(entry'), OthersSame(entry, entry', i), i \in DOMAIN entry',
           entry'[i].owner = entry[i].owner, ~entry'[i].dormant,
           entry'[i].locked => entry'[i].pinned
    PROVE  IInv'
<1>1. i \in Item /\ Matches(entry, i, assignee[i], phase[i])
    BY ShownMatches
<1>2. Matches(entry', i, assignee'[i], phase'[i])
    BY <1>1 DEF Matches
<1>3. /\ assignee' \in [Item -> User \cup {NoUser}] /\ phase' \in [Item -> Phase]
      /\ \A j \in Item \ {i} : assignee'[j] = assignee[j] /\ phase'[j] = phase[j]
    BY DEF IInv
<1>4. QED BY <1>1, <1>2, <1>3, OneItemStep

LEMMA MoveStep ==
    ASSUME IInv, NEW i \in Item, NEW anchor \in Item, NEW after \in BOOLEAN,
           Move(i, anchor, after)
    PROVE  IInv'
<1> DEFINE land == LandingAt(entry, i, anchor, after)
<1>1. /\ i \in DOMAIN entry /\ ~entry[i].dormant /\ Table(entry)
      /\ entry' = Positioned(entry, i, land) /\ UNCHANGED <<assignee, phase>>
    BY DEF Move, IInv
<1> HIDE DEF land
<1>2. Table(entry') /\ Same(entry, entry')
    BY <1>1, PositionedKeeps
<1>3. MarksAgree(entry[i])
    BY <1>1, ShownMatches
<1>4. /\ OthersSame(entry, entry', i) /\ i \in DOMAIN entry'
      /\ entry'[i].owner = entry[i].owner /\ ~entry'[i].dormant
      /\ entry'[i].locked => entry'[i].pinned
    BY <1>1, <1>2, <1>3 DEF Same, SameMarks, OthersSame, MarksAgree
<1>5. QED BY <1>1, <1>2, <1>4, HumanStep

LEMMA PinStep ==
    ASSUME IInv, NEW i \in Item, NEW byOwner \in BOOLEAN, Pin(i, byOwner)
    PROVE  IInv'
<1> DEFINE lock == ~byOwner
           f == [entry EXCEPT ![i].pinned = TRUE]
           g == [f EXCEPT ![i].locked = lock]
<1>1. /\ i \in DOMAIN entry /\ ~entry[i].dormant /\ Table(entry)
      /\ entry' = Positioned(g, i, Last) /\ UNCHANGED <<assignee, phase>>
    BY DEF Pin, IInv
<1>2. lock \in BOOLEAN
    OBVIOUS
<1>3. /\ Table(f) /\ OthersSame(entry, f, i) /\ i \in DOMAIN f
      /\ f[i].owner = entry[i].owner /\ f[i].dormant = entry[i].dormant
      /\ f[i].pinned = TRUE
    BY <1>1, PinWritten
<1> HIDE DEF f, lock
<1>4. /\ Table(g) /\ OthersSame(f, g, i) /\ i \in DOMAIN g
      /\ g[i].owner = f[i].owner /\ g[i].dormant = f[i].dormant
      /\ g[i].pinned = f[i].pinned
    BY <1>2, <1>3, LockWritten
<1> HIDE DEF g
<1>5. Table(entry') /\ Same(g, entry')
    BY <1>1, <1>4, PositionedKeeps
<1>6. OthersSame(entry, entry', i)
    BY <1>3, <1>4, <1>5 DEF OthersSame, Same, SameMarks
<1>7. /\ i \in DOMAIN entry' /\ entry'[i].owner = entry[i].owner
      /\ ~entry'[i].dormant /\ entry'[i].pinned
    BY <1>1, <1>3, <1>4, <1>5 DEF Same, SameMarks
<1>8. QED BY <1>1, <1>5, <1>6, <1>7, HumanStep

LEMMA UnpinStep ==
    ASSUME IInv, NEW i \in Item, NEW byOwner \in BOOLEAN, Unpin(i, byOwner)
    PROVE  IInv'
<1> DEFINE g == Unpinned(entry, i)
<1>1. /\ i \in DOMAIN entry /\ ~entry[i].dormant /\ Table(entry)
      /\ entry' = PlacedByDefault(g, key, i) /\ UNCHANGED <<assignee, phase>>
    BY DEF Unpin, IInv
<1>2. /\ Table(g) /\ OthersSame(entry, g, i) /\ i \in DOMAIN g
      /\ g[i].owner = entry[i].owner /\ g[i].dormant = entry[i].dormant
      /\ ~g[i].pinned /\ ~g[i].locked
    BY <1>1, UnpinnedKeeps
<1> HIDE DEF g
<1>3. Table(entry') /\ Same(g, entry')
    BY <1>1, <1>2, PlacedKeeps
<1>4. OthersSame(entry, entry', i)
    BY <1>2, <1>3 DEF OthersSame, Same, SameMarks
<1>5. /\ i \in DOMAIN entry' /\ entry'[i].owner = entry[i].owner
      /\ ~entry'[i].dormant /\ ~entry'[i].locked
    BY <1>1, <1>2, <1>3 DEF Same, SameMarks
<1>6. QED BY <1>1, <1>3, <1>4, <1>5, HumanStep

\* Steps that leave assignees, phases and entries alone.
LEMMA NothingMoves == IInv /\ UNCHANGED <<assignee, phase, entry>> => IInv'
    BY DEF IInv, EntryMatchesItem, Table, IsEntry

LEMMA EntriesStep == IInv /\ [Next]_vars => IInv'
<1> SUFFICES ASSUME IInv, [Next]_vars PROVE IInv'
    OBVIOUS
<1>1. CASE Next
    <2>1. ASSUME NEW i \in Item, NEW k \in Key, Drift(i, k) PROVE IInv'
        BY <2>1, NothingMoves DEF Drift
    <2>2. QED BY <1>1, <2>1, UpdateStep, MoveStep, PinStep, UnpinStep DEF Next
<1>2. CASE UNCHANGED vars
    BY <1>2, NothingMoves DEF vars
<1>3. QED BY <1>1, <1>2

LEMMA EntriesStart == Init => IInv
    BY DEF Init, IInv, EntryMatchesItem, Table, Phase

\* For any people and items, after any sequence of edits, handovers, status
\* moves, drags and pins: an item shows in exactly one queue, its assignee's,
\* while it is queued work, and only finished work of the same person hides.
THEOREM EntriesFollowItems == Spec => []EntryMatchesItem
<1>1. IInv => EntryMatchesItem
    BY DEF IInv
<1>2. QED BY <1>1, EntriesStart, EntriesStep, PTL DEF Spec

(***************************************************************************)
(* Finite orders                                                           *)
(***************************************************************************)
\* R, a set of pairs, orders the finite set S strictly and totally.
FiniteOrder(S, R) ==
    /\ IsFiniteSet(S) /\ S # {}
    /\ \A a \in S : <<a, a>> \notin R
    /\ \A a, b \in S : a # b => <<a, b>> \in R \/ <<b, a>> \in R
    /\ \A a, b, c \in S : <<a, b>> \in R /\ <<b, c>> \in R => <<a, c>> \in R

HasFirst(S, R) == \E x \in S : \A j \in S : j # x => <<x, j>> \in R

\* Such an order has a first element: a minimal subset without one would lose
\* it with an element.
LEMMA FirstExists ==
    ASSUME NEW S, NEW R, FiniteOrder(S, R)
    PROVE  HasFirst(S, R)
<1> SUFFICES ASSUME IsFiniteSet(S), S # {},
                    \A a \in S : <<a, a>> \notin R,
                    \A a, b \in S : a # b => <<a, b>> \in R \/ <<b, a>> \in R,
                    \A a, b, c \in S : <<a, b>> \in R /\ <<b, c>> \in R => <<a, c>> \in R
             PROVE  \E x \in S : \A j \in S : j # x => <<x, j>> \in R
    BY DEF FiniteOrder, HasFirst
<1> DEFINE Bad == {T \in SUBSET S : T # {} /\ ~ \E x \in T : \A j \in T : j # x => <<x, j>> \in R}
<1>1. SUFFICES ASSUME Bad # {} PROVE FALSE
    BY DEF Bad
<1>2. IsWellFoundedOn(StrictSubsetOrdering(S), SUBSET S)
    BY FS_FiniteSubsetsOfFinite, FS_StrictSubsetOrderingWellFounded
<1>3. PICK T \in Bad : \A U \in Bad : ~ (<<U, T>> \in StrictSubsetOrdering(S))
    <2>1. Bad \subseteq SUBSET S
        OBVIOUS
    <2> HIDE DEF Bad
    <2>2. QED BY <1>1, <1>2, <2>1, WFMin
<1>4. PICK y \in T : TRUE
    OBVIOUS
<1>5. T \ {y} \notin Bad
    <2>1. T \ {y} \in SUBSET S /\ T \in SUBSET S /\ T \ {y} \subseteq T /\ T \ {y} # T
        BY <1>4
    <2>2. <<T \ {y}, T>> \in StrictSubsetOrdering(S)
        BY <2>1 DEF StrictSubsetOrdering
    <2>3. QED BY <2>2, <1>3
<1>6. CASE T = {y}
    BY <1>6
<1>7. CASE T # {y}
    <2>1. PICK x \in T \ {y} : \A j \in T \ {y} : j # x => <<x, j>> \in R
        BY <1>5, <1>7, <1>4
    <2>2. CASE <<x, y>> \in R
        BY <2>1, <2>2
    <2>3. CASE <<y, x>> \in R
        BY <2>1, <2>3, <1>4
    <2>4. QED BY <2>1, <2>2, <2>3, <1>4
<1>8. QED BY <1>6, <1>7

LEMMA MaxExists ==
    ASSUME NEW S, S \subseteq Int, IsFiniteSet(S), S # {}
    PROVE  Max(S) \in S /\ \A y \in S : y <= Max(S)
<1>1. PICK R : R = {p \in Int \X Int : p[1] > p[2]}
    OBVIOUS
<1>2. \A a, b \in S : <<a, b>> \in R <=> a > b
    BY <1>1
<1>3. PICK x \in S : \A j \in S : j # x => <<x, j>> \in R
    <2>1. \A a \in S : <<a, a>> \notin R
        BY <1>2
    <2>2. \A a, b \in S : a # b => <<a, b>> \in R \/ <<b, a>> \in R
        BY <1>2
    <2>3. \A a, b, c \in S : <<a, b>> \in R /\ <<b, c>> \in R => <<a, c>> \in R
        BY <1>2
    <2>4. FiniteOrder(S, R)
        BY <2>1, <2>2, <2>3 DEF FiniteOrder
    <2>5. QED BY <2>4, FirstExists DEF HasFirst
<1>4. ASSUME NEW y \in S PROVE x >= y
    <2>1. x \in Int /\ y \in Int
        OBVIOUS
    <2>2. y = x \/ <<x, y>> \in R
        BY <1>3
    <2>3. <<x, y>> \in R => x > y
        BY <1>2
    <2>4. QED BY <2>1, <2>2, <2>3
<1>5. QED BY <1>4 DEF Max

(***************************************************************************)
(* Positions                                                               *)
(***************************************************************************)
\* A table of rows with positions.
Placed(e) ==
    /\ Table(e)
    /\ IsFiniteSet(DOMAIN e)
    /\ DOMAIN e \subseteq Item
    /\ \A j \in DOMAIN e : e[j].position \in Int

Mates(e, a, b) == e[a].owner = e[b].owner /\ e[a].pinned = e[b].pinned

TieFree(e, D) ==
    \A a, b \in D : a # b /\ Mates(e, a, b) => e[a].position # e[b].position

\* Row a of the group lies above where i lands.
Upper(e, a, x) == x = Last \/ e[a].position < e[x].position

\* The positions of finitely many rows are finitely many.
LEMMA PositionsFinite ==
    ASSUME NEW e, NEW G, IsFiniteSet(G)
    PROVE  IsFiniteSet({e[j].position : j \in G})
<1> DEFINE f == [j \in G |-> e[j].position]
           T == {e[j].position : j \in G}
<1>1. f \in Surjection(G, T)
    BY DEF Surjection
<1> HIDE DEF f, T
<1>2. IsFiniteSet(T)
    BY <1>1, FS_Surjection
<1>3. QED BY <1>2 DEF T

LEMMA LastIsNoItem == Last \notin Item /\ Item \subseteq Nat /\ Step \in Nat /\ Step > 1
    BY ItemAssumption, StepAssumption

LEMMA StepApart ==
    ASSUME NEW m \in Nat, NEW n \in Nat, m < n
    PROVE  Step * m + Step <= Step * n
<1>1. PICK d \in Nat : n = m + 1 + d
    <2>1. n - m - 1 \in Nat /\ n = m + 1 + (n - m - 1)
        OBVIOUS
    <2>2. QED BY <2>1
<1>2. Step * n = Step * m + Step + Step * d
    BY <1>1, LastIsNoItem
<1>3. Step * d >= 0 /\ Step * m \in Int /\ Step * d \in Int
    BY LastIsNoItem
<1>4. QED BY <1>2, <1>3, LastIsNoItem

\* Renumbering keeps the order of the group and leaves room for a midpoint.
LEMMA RenumberedSpaced ==
    ASSUME NEW e, Placed(e), NEW G \in SUBSET DOMAIN e,
           \A a, b \in G : a # b => e[a].position # e[b].position
    PROVE  LET f == Renumbered(e, G) IN
           /\ \A j \in DOMAIN e \ G : f[j] = e[j]
           /\ \A j \in G : f[j].position \in Int
           /\ \A a, b \in G : e[a].position < e[b].position
                                 => f[a].position + Step <= f[b].position
<1> DEFINE Set(i) == {j \in G : ~Above(e, i, j)}
           f == Renumbered(e, G)
<1>1. f = [i \in DOMAIN e |->
             IF i \in G THEN [e[i] EXCEPT !.position = Step * Cardinality(Set(i))] ELSE e[i]]
    BY DEF Renumbered
<1>2. IsFiniteSet(G)
    BY FS_Subset DEF Placed
<1>3. ASSUME NEW i \in G
      PROVE  /\ \A j \in G : j \in Set(i) <=> e[j].position <= e[i].position
             /\ IsFiniteSet(Set(i)) /\ Cardinality(Set(i)) \in Nat
    <2>1. ASSUME NEW j \in G PROVE j \in Set(i) <=> e[j].position <= e[i].position
        <3>1. e[i].position \in Int /\ e[j].position \in Int /\ i \in Nat /\ j \in Nat
            BY LastIsNoItem DEF Placed
        <3>2. i # j => e[i].position # e[j].position
            OBVIOUS
        <3>3. QED BY <3>1, <3>2 DEF Above
    <2>2. IsFiniteSet(Set(i))
        BY <1>2, FS_Subset
    <2>3. QED BY <2>1, <2>2, FS_CardinalityType
<1> HIDE DEF Set
<1>4. ASSUME NEW j \in G
      PROVE  f[j].position = Step * Cardinality(Set(j))
    <2>1. IsEntry(e[j])
        BY DEF Placed, Table
    <2>2. DEFINE v == Step * Cardinality(Set(j))
    <2>3. f[j] = [e[j] EXCEPT !.position = v]
        BY <1>1
    <2> HIDE DEF v
    <2>4. [e[j] EXCEPT !.position = v].position = v
        BY <2>1 DEF IsEntry
    <2>5. f[j].position = v
        BY <2>3, <2>4
    <2>6. QED BY <2>5 DEF v
<1>5. ASSUME NEW a \in G, NEW b \in G, e[a].position < e[b].position
      PROVE  f[a].position + Step <= f[b].position
    <2>1. e[a].position \in Int /\ e[b].position \in Int
        BY DEF Placed
    <2>2. Set(a) \subseteq Set(b)
        <3>1. ASSUME NEW j \in Set(a) PROVE j \in Set(b)
            <4>1. j \in G
                BY DEF Set
            <4>2. e[j].position \in Int /\ e[j].position <= e[a].position
                BY <1>3, <4>1 DEF Placed
            <4>3. QED BY <1>3, <1>5, <2>1, <4>1, <4>2
        <3>2. QED BY <3>1
    <2>3. b \in Set(b) /\ b \notin Set(a)
        BY <1>3, <1>5, <2>1
    <2>4. /\ Cardinality(Set(a)) \in Nat /\ Cardinality(Set(b)) \in Nat
          /\ Cardinality(Set(a)) <= Cardinality(Set(b))
          /\ Cardinality(Set(a)) # Cardinality(Set(b))
        BY <1>3, <2>2, <2>3, FS_Subset
    <2>5. Cardinality(Set(a)) < Cardinality(Set(b))
        BY <2>4
    <2>6. QED BY <1>4, <2>4, <2>5, StepApart
<1>6. ASSUME NEW j \in G PROVE f[j].position \in Int
    BY <1>3, <1>4, LastIsNoItem
<1>7. \A j \in DOMAIN e \ G : f[j] = e[j]
    BY <1>1
<1>8. QED BY <1>5, <1>6, <1>7

\* Where there is room, position_at answers a position between the neighbours.
LEMMA PositionAtSeats ==
    ASSUME NEW e, NEW G, IsFiniteSet(G), G \subseteq Item,
           \A j \in G : e[j].position \in Int,
           NEW x \in G \cup {Last}, ~Cramped(e, G, x)
    PROVE  LET v == PositionAt(e, G, x) IN
           /\ v \in Int
           /\ \A a \in G : Upper(e, a, x) => e[a].position < v
           /\ \A a \in G : ~Upper(e, a, x) => v < e[a].position
<1> DEFINE v == PositionAt(e, G, x)
           B == Below(e, G, x)
           All == {e[j].position : j \in G}
<1>1. /\ IsFiniteSet(All) /\ All \subseteq Int
      /\ IsFiniteSet(B) /\ B \subseteq Int
      /\ \A a \in G : e[a].position \in All
      /\ \A a \in G : e[a].position < e[x].position => e[a].position \in B
      /\ \A p \in B : \E a \in G : p = e[a].position /\ e[a].position < e[x].position
    <2>1. IsFiniteSet(All)
        BY PositionsFinite
    <2>2. B \subseteq All
        BY DEF Below
    <2>3. QED BY <2>1, <2>2, FS_Subset DEF Below
<1> HIDE DEF B, All
<1>2. CASE G = {}
    BY <1>2, LastIsNoItem DEF PositionAt
<1>3. CASE G # {} /\ x = Last
    <2>1. v = Max(All) + Step
        BY <1>3 DEF PositionAt, All
    <2>2. All # {}
        BY <1>1, <1>3
    <2>3. Max(All) \in Int /\ \A y \in All : y <= Max(All)
        BY <1>1, <2>2, MaxExists
    <2> HIDE DEF v
    <2>4. ASSUME NEW a \in G PROVE e[a].position < v
        BY <1>1, <2>1, <2>3, LastIsNoItem
    <2>5. v \in Int
        BY <2>1, <2>3, LastIsNoItem
    <2>6. QED BY <1>3, <2>4, <2>5 DEF Upper, v
<1>4. CASE x # Last /\ B = {}
    <2>1. x \in G /\ v = e[x].position - Step
        BY <1>4 DEF PositionAt, B
    <2>2. \A a \in G : ~(e[a].position < e[x].position)
        BY <1>1, <1>4
    <2> HIDE DEF v
    <2>3. ASSUME NEW a \in G PROVE ~Upper(e, a, x) /\ v < e[a].position
        BY <1>4, <2>1, <2>2, LastIsNoItem DEF Upper
    <2>4. v \in Int
        BY <2>1, LastIsNoItem
    <2>5. QED BY <2>3, <2>4 DEF v
<1>5. CASE x # Last /\ B # {}
    <2> DEFINE m == Max(B)
               p == e[x].position
    <2>1. x \in G /\ p \in Int /\ v = (m + p) \div 2 /\ ~(p - m < 2)
        BY <1>5 DEF PositionAt, Cramped, B
    <2>2. m \in Int /\ \A y \in B : y <= m
        BY <1>1, <1>5, MaxExists
    <2> HIDE DEF v, m
    <2>3. v \in Int /\ m < v /\ v < p
        BY <2>1, <2>2
    <2>4. ASSUME NEW a \in G, Upper(e, a, x) PROVE e[a].position < v
        <3>1. e[a].position \in B /\ e[a].position \in Int
            BY <1>1, <1>5, <2>4 DEF Upper
        <3>2. e[a].position <= m
            BY <2>2, <3>1
        <3>3. QED BY <2>2, <2>3, <3>1, <3>2
    <2>5. ASSUME NEW a \in G, ~Upper(e, a, x) PROVE v < e[a].position
        <3>1. e[a].position \in Int /\ ~(e[a].position < p)
            BY <2>5 DEF Upper
        <3>2. QED BY <2>1, <2>3, <3>1
    <2>6. QED BY <2>3, <2>4, <2>5 DEF v
<1>6. QED BY <1>2, <1>3, <1>4, <1>5

\* Renumbering always makes room.
LEMMA RenumberedRoomy ==
    ASSUME NEW e, Placed(e), NEW G \in SUBSET DOMAIN e,
           \A a, b \in G : a # b => e[a].position # e[b].position,
           NEW x \in G
    PROVE  ~Cramped(Renumbered(e, G), G, x)
<1> DEFINE f == Renumbered(e, G)
           B == Below(f, G, x)
<1>1. /\ \A j \in G : f[j].position \in Int
      /\ \A a, b \in G : e[a].position < e[b].position => f[a].position + Step <= f[b].position
    BY RenumberedSpaced
<1> HIDE DEF f
<1>2. SUFFICES ASSUME B # {} PROVE f[x].position - Max(B) >= 2
    <2>1. f[x].position \in Int
        BY <1>1
    <2>2. ASSUME B # {} PROVE Max(B) \in Int
        <3>1. B \subseteq Int /\ IsFiniteSet(B)
            <4>1. IsFiniteSet(G)
                BY FS_Subset DEF Placed
            <4>2. IsFiniteSet({f[j].position : j \in G})
                BY <4>1, PositionsFinite
            <4>3. B \subseteq {f[j].position : j \in G}
                BY DEF Below
            <4>4. QED BY <1>1, <4>2, <4>3, FS_Subset
        <3>2. QED BY <2>2, <3>1, MaxExists
    <2>3. QED BY <2>1, <2>2 DEF Cramped, f
<1>3. Max(B) \in B
    <2>1. IsFiniteSet(G)
        BY FS_Subset DEF Placed
    <2>2. IsFiniteSet({f[j].position : j \in G})
        BY <2>1, PositionsFinite
    <2>3. B \subseteq {f[j].position : j \in G}
        BY DEF Below
    <2>4. B \subseteq Int /\ IsFiniteSet(B)
        BY <1>1, <2>2, <2>3, FS_Subset
    <2>5. QED BY <1>2, <2>4, MaxExists
<1>4. PICK a \in G : Max(B) = f[a].position /\ f[a].position < f[x].position
    BY <1>3 DEF Below
<1>5. e[a].position \in Int /\ e[x].position \in Int /\ f[a].position \in Int /\ f[x].position \in Int
    BY <1>1 DEF Placed
<1>6. a # x
    BY <1>4, <1>5
<1>7. ~(e[x].position < e[a].position)
    BY <1>1, <1>4, <1>5, LastIsNoItem
<1>8. e[a].position < e[x].position
    BY <1>5, <1>6, <1>7
<1>9. f[a].position + Step <= f[x].position
    BY <1>1, <1>8
<1>10. QED BY <1>4, <1>5, <1>9, LastIsNoItem

\* What a placement of i directly above x promises of the rows.
Others(e, i) == Group(e, e[i].owner, e[i].pinned) \ {i}

Lands(e, f, i, x) ==
    /\ \A a, b \in Others(e, i) : f[a].position < f[b].position <=> e[a].position < e[b].position
    /\ \A a \in Others(e, i) : Upper(e, a, x) => f[a].position < f[i].position
    /\ \A a \in Others(e, i) : ~Upper(e, a, x) => f[i].position < f[a].position
    /\ \A a \in DOMAIN e \ (Others(e, i) \cup {i}) : f[a] = e[a]

LEMMA PositionedLands ==
    ASSUME NEW e, Placed(e), NEW i \in DOMAIN e, TieFree(e, DOMAIN e \ {i}),
           NEW x \in Others(e, i) \cup {Last}
    PROVE  LET f == Positioned(e, i, x) IN
           Placed(f) /\ Same(e, f) /\ Lands(e, f, i, x)
<1> DEFINE G == Others(e, i)
           g == IF Cramped(e, G, x) THEN Renumbered(e, G) ELSE e
           v == PositionAt(g, G, x)
           f == Positioned(e, i, x)
<1>1. /\ G \in SUBSET DOMAIN e /\ i \notin G /\ IsFiniteSet(G) /\ G \subseteq Item
      /\ \A a, b \in G : a # b => e[a].position # e[b].position
    BY FS_Subset DEF Placed, Others, Group, TieFree, Mates
<1>2. f = [g EXCEPT ![i].position = v]
    BY DEF Positioned, Others
<1>3. Table(f) /\ Same(e, f) /\ Table(g) /\ Same(e, g)
    BY PositionedKeeps, RenumberedKeeps DEF Placed, Same, SameMarks
<1>4. /\ \A j \in DOMAIN e \ G : g[j] = e[j]
      /\ \A j \in G : g[j].position \in Int
      /\ \A a, b \in G : e[a].position < e[b].position => g[a].position < g[b].position
      /\ ~Cramped(g, G, x)
    <2>1. CASE Cramped(e, G, x)
        <3>1. g = Renumbered(e, G) /\ x \in G
            BY <2>1 DEF Cramped
        <3> HIDE DEF g, G
        <3>2. /\ \A j \in DOMAIN e \ G : g[j] = e[j]
              /\ \A j \in G : g[j].position \in Int
              /\ \A a, b \in G : e[a].position < e[b].position => g[a].position + Step <= g[b].position
              /\ ~Cramped(g, G, x)
            BY <1>1, <3>1, RenumberedSpaced, RenumberedRoomy
        <3>3. QED BY <3>2, LastIsNoItem
    <2>2. CASE ~Cramped(e, G, x)
        <3>1. g = e
            BY <2>2
        <3>2. QED BY <1>1, <2>2, <3>1 DEF Placed
    <2>3. QED BY <2>1, <2>2
<1> HIDE DEF g, G, v, f
<1>5. \A a, b \in G : g[a].position < g[b].position <=> e[a].position < e[b].position
    BY <1>1, <1>4 DEF Placed
<1>6. /\ v \in Int
      /\ \A a \in G : Upper(g, a, x) => g[a].position < v
      /\ \A a \in G : ~Upper(g, a, x) => v < g[a].position
    BY <1>1, <1>4, PositionAtSeats DEF v, G
<1>7. \A a \in G : Upper(g, a, x) <=> Upper(e, a, x)
    BY <1>5 DEF Upper, G
<1>8. f[i].position = v /\ \A j \in DOMAIN e \ {i} : f[j] = g[j]
    <2>1. IsEntry(g[i]) /\ i \in DOMAIN g /\ DOMAIN g = DOMAIN e
        BY <1>3 DEF Table, Same
    <2>2. f[i] = [g[i] EXCEPT !.position = v] /\ \A j \in DOMAIN e \ {i} : f[j] = g[j]
        BY <1>2, <1>3, <2>1 DEF Table
    <2>3. QED BY <2>1, <2>2 DEF IsEntry
<1>9. Lands(e, f, i, x)
    <2>1. \A a \in G : f[a] = g[a]
        BY <1>1, <1>8
    <2>2. QED BY <1>4, <1>5, <1>6, <1>7, <1>8, <2>1 DEF Lands, G
<1>10. Placed(f)
    <2>1. DOMAIN f = DOMAIN e
        BY <1>3 DEF Same
    <2>2. ASSUME NEW j \in DOMAIN e PROVE f[j].position \in Int
        <3>1. CASE j = i
            BY <1>6, <1>8, <3>1
        <3>2. CASE j \in G
            BY <1>1, <1>4, <1>8, <3>2
        <3>3. CASE j \notin G /\ j # i
            BY <1>4, <1>8, <3>3 DEF Placed
        <3>4. QED BY <3>1, <3>2, <3>3
    <2>3. QED BY <1>3, <2>1, <2>2 DEF Placed
<1>11. QED BY <1>3, <1>9, <1>10 DEF f

(***************************************************************************)
(* Where a row is seated                                                   *)
(***************************************************************************)
\* The rows other than i's: their marks and their order within each group.
OthersKept(e, f, i) ==
    /\ OthersSame(e, f, i)
    /\ \A a, b \in DOMAIN e \ {i} :
          Mates(e, a, b) => (f[a].position < f[b].position <=> e[a].position < e[b].position)

\* f is e with row i in a group, directly above x.
Seats(e, f, i, o, p, x) ==
    /\ Placed(f)
    /\ DOMAIN f = DOMAIN e \cup {i}
    /\ OthersKept(e, f, i)
    /\ f[i].owner = o /\ f[i].pinned = p
    /\ x \in (Group(e, o, p) \ {i}) \cup {Last}
    /\ \A a \in Group(e, o, p) \ {i} : Upper(e, a, x) => f[a].position < f[i].position
    /\ \A a \in Group(e, o, p) \ {i} : ~Upper(e, a, x) => f[i].position < f[a].position

\* x is the first of S, or stands for the end of the group.
IsFirst(e, S, x) ==
    \/ S = {} /\ x = Last
    \/ x \in S /\ \A j \in S : j # x => Above(e, x, j)

LEMMA SameIsKept ==
    ASSUME NEW e, NEW i
    PROVE  OthersKept(e, e, i)
    BY DEF OthersKept, OthersSame, SameMarks

LEMMA KeptTwice ==
    ASSUME NEW e, NEW g, NEW f, NEW i, OthersKept(e, g, i), OthersKept(g, f, i)
    PROVE  OthersKept(e, f, i)
    BY DEF OthersKept, OthersSame, SameMarks, Mates

\* Kept rows are in the same groups.
LEMMA KeptGroups ==
    ASSUME NEW e, NEW g, NEW i, OthersKept(e, g, i), NEW o, NEW p
    PROVE  /\ Group(g, o, p) \ {i} = Group(e, o, p) \ {i}
           /\ Shown(g, o, p) \ {i} = Shown(e, o, p) \ {i}
           /\ \A a, b \in DOMAIN e \ {i} : Mates(g, a, b) <=> Mates(e, a, b)
<1>1. ASSUME NEW a \in DOMAIN e \ {i} PROVE a \in DOMAIN g /\ SameMarks(e[a], g[a])
    BY DEF OthersKept, OthersSame
<1>2. DOMAIN g \ {i} = DOMAIN e \ {i}
    BY DEF OthersKept, OthersSame
<1>3. Group(g, o, p) \ {i} = Group(e, o, p) \ {i}
    BY <1>1, <1>2 DEF Group, SameMarks
<1>4. Shown(g, o, p) \ {i} = Shown(e, o, p) \ {i}
    BY <1>1, <1>3 DEF Shown, Group, SameMarks
<1>5. \A a, b \in DOMAIN e \ {i} : Mates(g, a, b) <=> Mates(e, a, b)
    BY <1>1 DEF Mates, SameMarks
<1>6. QED BY <1>3, <1>4, <1>5

\* Kept rows compare as before.
LEMMA KeptAbove ==
    ASSUME NEW e, Placed(e), NEW g, Placed(g), NEW i, OthersKept(e, g, i),
           NEW a \in DOMAIN e \ {i}, NEW b \in DOMAIN e \ {i}, Mates(e, a, b)
    PROVE  /\ Above(g, a, b) <=> Above(e, a, b)
           /\ g[a].position = g[b].position <=> e[a].position = e[b].position
<1>1. /\ e[a].position \in Int /\ e[b].position \in Int
      /\ g[a].position \in Int /\ g[b].position \in Int
    BY DEF Placed, OthersKept, OthersSame
<1>2. /\ g[a].position < g[b].position <=> e[a].position < e[b].position
      /\ g[b].position < g[a].position <=> e[b].position < e[a].position
    BY DEF OthersKept, Mates
<1>3. QED BY <1>1, <1>2 DEF Above

LEMMA SeatsFrom ==
    ASSUME NEW e, NEW g, NEW f, NEW i, NEW o, NEW p, NEW x,
           OthersKept(e, g, i), Seats(g, f, i, o, p, x)
    PROVE  Seats(e, f, i, o, p, x)
<1>1. Group(g, o, p) \ {i} = Group(e, o, p) \ {i}
    BY KeptGroups
<1>2. DOMAIN f = DOMAIN e \cup {i}
    BY DEF OthersKept, OthersSame, Seats
<1>3. OthersKept(e, f, i)
    BY KeptTwice DEF Seats
<1>4. ASSUME NEW a \in Group(e, o, p) \ {i} PROVE Upper(g, a, x) <=> Upper(e, a, x)
    BY <1>1 DEF OthersKept, Upper, Seats, Group, Mates
<1>5. QED BY <1>1, <1>2, <1>3, <1>4 DEF Seats

LEMMA PositionedSeats ==
    ASSUME NEW e, Placed(e), NEW i \in DOMAIN e, TieFree(e, DOMAIN e \ {i}),
           NEW x \in (Group(e, e[i].owner, e[i].pinned) \ {i}) \cup {Last}
    PROVE  LET f == Positioned(e, i, x) IN
           Seats(e, f, i, e[i].owner, e[i].pinned, x) /\ SameMarks(e[i], f[i])
<1> DEFINE f == Positioned(e, i, x)
           G == Others(e, i)
<1>1. Placed(f) /\ Same(e, f) /\ Lands(e, f, i, x)
    BY PositionedLands DEF Others
<1> HIDE DEF f
<1>2. OthersKept(e, f, i)
    <2>1. ASSUME NEW a \in DOMAIN e \ {i}, NEW b \in DOMAIN e \ {i}, Mates(e, a, b)
          PROVE  f[a].position < f[b].position <=> e[a].position < e[b].position
        <3>1. CASE a \in G /\ b \in G
            BY <1>1, <3>1 DEF Lands
        <3>2. CASE a \notin G /\ b \notin G
            BY <1>1, <3>2 DEF Lands
        <3>3. a \in G <=> b \in G
            BY <2>1 DEF Others, Group, Mates
        <3>4. QED BY <3>1, <3>2, <3>3
    <2>2. OthersSame(e, f, i)
        BY <1>1 DEF Same, OthersSame
    <2>3. QED BY <2>1, <2>2 DEF OthersKept
<1>3. SameMarks(e[i], f[i]) /\ DOMAIN f = DOMAIN e
    BY <1>1 DEF Same
<1>4. f[i].owner = e[i].owner /\ f[i].pinned = e[i].pinned
    BY <1>3 DEF SameMarks
<1>5. Seats(e, f, i, e[i].owner, e[i].pinned, x)
    BY <1>1, <1>2, <1>3, <1>4 DEF Seats, Lands, Others
<1>6. QED BY <1>3, <1>5 DEF f

\* A row that is seated ties with nobody.
LEMMA SeatsTieFree ==
    ASSUME NEW e, Placed(e), NEW f, NEW i, NEW o, NEW p, NEW x,
           Seats(e, f, i, o, p, x), TieFree(e, DOMAIN e \ {i})
    PROVE  TieFree(f, DOMAIN f)
<1>1. /\ Placed(f) /\ OthersKept(e, f, i) /\ DOMAIN f = DOMAIN e \cup {i}
      /\ \A a, b \in DOMAIN e \ {i} : Mates(f, a, b) <=> Mates(e, a, b)
    BY KeptGroups DEF Seats
<1>2. ASSUME NEW a \in DOMAIN e \ {i}, Mates(f, a, i) PROVE f[a].position # f[i].position
    <2>1. a \in Group(e, o, p) \ {i}
        BY <1>1, <1>2 DEF Mates, Seats, OthersKept, OthersSame, SameMarks, Group
    <2>2. f[a].position \in Int /\ f[i].position \in Int
        BY <1>1 DEF Placed
    <2>3. QED BY <2>1, <2>2 DEF Seats
<1>3. ASSUME NEW a \in DOMAIN e \ {i}, NEW b \in DOMAIN e \ {i}, a # b, Mates(f, a, b)
      PROVE  f[a].position # f[b].position
    BY <1>1, <1>3, KeptAbove DEF TieFree
<1>4. \A a, b : Mates(f, a, b) => Mates(f, b, a)
    BY DEF Mates
<1>5. QED BY <1>1, <1>2, <1>3, <1>4 DEF TieFree

\* First and FirstOrLast answer what their names say.
LEMMA FirstIs ==
    ASSUME NEW e, Placed(e), NEW S \in SUBSET DOMAIN e
    PROVE  IsFirst(e, S, FirstOrLast(e, S))
<1>1. CASE S = {}
    BY <1>1 DEF FirstOrLast, IsFirst
<1>2. CASE S # {}
    <2>1. IsFiniteSet(S)
        BY FS_Subset DEF Placed
    <2>2. PICK R : R = {q \in S \X S : Above(e, q[1], q[2])}
        OBVIOUS
    <2>3. \A a, b \in S : <<a, b>> \in R <=> Above(e, a, b)
        BY <2>2
    <2>4. \A a \in S : a \in Nat /\ e[a].position \in Int
        BY LastIsNoItem DEF Placed
    <2>5. \A a \in S : <<a, a>> \notin R
        BY <2>3, <2>4 DEF Above
    <2>6. \A a, b \in S : a # b => <<a, b>> \in R \/ <<b, a>> \in R
        BY <2>3, <2>4 DEF Above
    <2>7. \A a, b, c \in S : <<a, b>> \in R /\ <<b, c>> \in R => <<a, c>> \in R
        BY <2>3, <2>4 DEF Above
    <2>8. \E x \in S : \A j \in S : j # x => <<x, j>> \in R
        <3>1. FiniteOrder(S, R)
            BY <1>2, <2>1, <2>5, <2>6, <2>7 DEF FiniteOrder
        <3>2. QED BY <3>1, FirstExists DEF HasFirst
    <2>9. \E x \in S : \A j \in S : j # x => Above(e, x, j)
        BY <2>3, <2>8
    <2>10. First(e, S) \in S /\ \A j \in S : j # First(e, S) => Above(e, First(e, S), j)
        BY <2>9, Zenon DEF First
    <2>11. FirstOrLast(e, S) = First(e, S)
        BY <1>2 DEF FirstOrLast
    <2>12. QED BY <2>10, <2>11 DEF IsFirst
<1>3. QED BY <1>1, <1>2

LEMMA FirstKept ==
    ASSUME NEW e, Placed(e), NEW g, Placed(g), NEW i, OthersKept(e, g, i), NEW o, NEW p,
           NEW S \in SUBSET (Group(e, o, p) \ {i}), NEW x, IsFirst(g, S, x)
    PROVE  IsFirst(e, S, x)
<1>1. \A a, b \in S : Mates(e, a, b) /\ a \in DOMAIN e \ {i} /\ b \in DOMAIN e \ {i}
    BY DEF Group, Mates
<1>2. \A a, b \in S : Above(g, a, b) <=> Above(e, a, b)
    BY <1>1, KeptAbove
<1>3. QED BY <1>2 DEF IsFirst

(***************************************************************************)
(* What sync does to the order                                             *)
(***************************************************************************)
\* Only row i is another, and it is where it was.
Marked(e, f, i) ==
    /\ Placed(f)
    /\ DOMAIN f = DOMAIN e
    /\ \A j \in DOMAIN e \ {i} : f[j] = e[j]
    /\ f[i].position = e[i].position

LEMMA MarkedKept ==
    ASSUME NEW e, NEW i, NEW f, Marked(e, f, i)
    PROVE  OthersKept(e, f, i)
    BY DEF Marked, OthersKept, OthersSame, SameMarks

LEMMA RowMarked ==
    ASSUME NEW e, Placed(e), NEW i \in DOMAIN e, NEW x, IsEntry(x),
           x.position = e[i].position
    PROVE  Marked(e, [e EXCEPT ![i] = x], i)
<1> DEFINE f == [e EXCEPT ![i] = x]
<1>1. Table(f)
    BY RowWritten DEF Placed
<1>2. /\ DOMAIN f = DOMAIN e /\ f[i] = x
      /\ \A j \in DOMAIN e \ {i} : f[j] = e[j]
    OBVIOUS
<1> HIDE DEF f
<1>3. ASSUME NEW j \in DOMAIN e PROVE f[j].position \in Int
    <2>1. CASE j = i
        BY <1>2, <2>1 DEF Placed
    <2>2. CASE j # i
        BY <1>2, <2>2 DEF Placed
    <2>3. QED BY <2>1, <2>2
<1>4. Placed(f)
    BY <1>1, <1>2, <1>3 DEF Placed
<1>5. QED BY <1>2, <1>4 DEF Marked, f

LEMMA DormantMarked ==
    ASSUME NEW e, Placed(e), NEW i \in DOMAIN e, NEW d \in BOOLEAN
    PROVE  LET f == [e EXCEPT ![i].dormant = d] IN
           /\ Marked(e, f, i)
           /\ f[i].owner = e[i].owner /\ f[i].pinned = e[i].pinned
           /\ f[i].locked = e[i].locked /\ f[i].dormant = d
<1> DEFINE x == [e[i] EXCEPT !.dormant = d]
           f == [e EXCEPT ![i].dormant = d]
<1>1. IsEntry(e[i])
    BY DEF Placed, Table
<1>2. /\ IsEntry(x) /\ x.position = e[i].position
      /\ x.owner = e[i].owner /\ x.pinned = e[i].pinned
      /\ x.locked = e[i].locked /\ x.dormant = d
    BY <1>1 DEF IsEntry
<1>3. f = [e EXCEPT ![i] = x]
    OBVIOUS
<1> HIDE DEF x, f
<1>4. f[i] = x
    BY <1>3
<1>5. Marked(e, f, i)
    BY <1>2, <1>3, RowMarked
<1>6. QED BY <1>2, <1>4, <1>5 DEF f

Asleep(e, i) == [e EXCEPT ![i].dormant = TRUE]
Awake(e, i)  == [e EXCEPT ![i].dormant = FALSE]

\* Sleeping and waking change one mark.
LEMMA MarkSet ==
    ASSUME NEW e, Placed(e), NEW i \in DOMAIN e
    PROVE  /\ Marked(e, Asleep(e, i), i)
           /\ Asleep(e, i)[i].owner = e[i].owner /\ Asleep(e, i)[i].pinned = e[i].pinned
           /\ Asleep(e, i)[i].dormant
           /\ Marked(e, Awake(e, i), i)
           /\ Awake(e, i)[i].owner = e[i].owner /\ Awake(e, i)[i].pinned = e[i].pinned
           /\ ~Awake(e, i)[i].dormant
<1>1. /\ Marked(e, Asleep(e, i), i)
      /\ Asleep(e, i)[i].owner = e[i].owner /\ Asleep(e, i)[i].pinned = e[i].pinned
      /\ Asleep(e, i)[i].dormant = TRUE
    BY DormantMarked DEF Asleep
<1>2. /\ Marked(e, Awake(e, i), i)
      /\ Awake(e, i)[i].owner = e[i].owner /\ Awake(e, i)[i].pinned = e[i].pinned
      /\ Awake(e, i)[i].dormant = FALSE
    BY DormantMarked DEF Awake
<1>3. QED BY <1>1, <1>2

\* A pin set or released, with its lock.
LEMMA PinMarked ==
    ASSUME NEW e, Placed(e), NEW i \in DOMAIN e, NEW p \in BOOLEAN, NEW l \in BOOLEAN
    PROVE  LET f == [e EXCEPT ![i].pinned = p, ![i].locked = l] IN
           /\ Marked(e, f, i)
           /\ f[i].owner = e[i].owner /\ f[i].pinned = p
           /\ f[i].locked = l /\ f[i].dormant = e[i].dormant
<1> DEFINE x == [e[i] EXCEPT !.pinned = p, !.locked = l]
           f == [e EXCEPT ![i].pinned = p, ![i].locked = l]
<1>1. IsEntry(e[i])
    BY DEF Placed, Table
<1>2. /\ IsEntry(x) /\ x.position = e[i].position
      /\ x.owner = e[i].owner /\ x.dormant = e[i].dormant
      /\ x.locked = l /\ x.pinned = p
    <2> DEFINE y == [e[i] EXCEPT !.pinned = p]
    <2>1. /\ IsEntry(y) /\ y.position = e[i].position /\ y.owner = e[i].owner
          /\ y.dormant = e[i].dormant /\ y.pinned = p
        BY <1>1 DEF IsEntry
    <2>2. x = [y EXCEPT !.locked = l]
        OBVIOUS
    <2> HIDE DEF x, y
    <2>3. /\ IsEntry(x) /\ x.position = y.position /\ x.owner = y.owner
          /\ x.dormant = y.dormant /\ x.pinned = y.pinned /\ x.locked = l
        BY <2>1, <2>2 DEF IsEntry
    <2>4. QED BY <2>1, <2>3
<1>3. f = [e EXCEPT ![i] = x]
    OBVIOUS
<1> HIDE DEF x, f
<1>4. f[i] = x
    BY <1>3
<1>5. Marked(e, f, i)
    BY <1>2, <1>3, RowMarked
<1>6. QED BY <1>2, <1>4, <1>5 DEF f

LEMMA SeatsMarked ==
    ASSUME NEW e, NEW g, NEW f, NEW i, NEW o, NEW p, NEW x,
           Seats(e, g, i, o, p, x), Marked(g, f, i), f[i].owner = o, f[i].pinned = p
    PROVE  Seats(e, f, i, o, p, x)
<1>1. OthersKept(e, f, i)
    BY KeptTwice, MarkedKept DEF Seats
<1>2. \A a \in Group(e, o, p) \ {i} : f[a] = g[a]
    BY DEF Seats, Marked, Group
<1>3. QED BY <1>1, <1>2 DEF Seats, Marked

\* The shown rows of o's rest that the default rule puts after item i.
Lower(e, k, i, o) == {j \in Shown(e, o, FALSE) \ {i} : RanksHigher(k, i, j)}

\* Row i goes where the default rule puts it.
ByDefault(e, f, k, i, o) ==
    \E x : IsFirst(e, Lower(e, k, i, o), x) /\ Seats(e, f, i, o, FALSE, x)

LEMMA ByDefaultFrom ==
    ASSUME NEW e, Placed(e), NEW g, Placed(g), NEW f, NEW k, NEW i, NEW o,
           OthersKept(e, g, i), ByDefault(g, f, k, i, o)
    PROVE  ByDefault(e, f, k, i, o)
<1>1. PICK x : IsFirst(g, Lower(g, k, i, o), x) /\ Seats(g, f, i, o, FALSE, x)
    BY DEF ByDefault
<1>2. Lower(g, k, i, o) = Lower(e, k, i, o)
    <2>1. \A p : Shown(g, o, p) \ {i} = Shown(e, o, p) \ {i}
        BY KeptGroups
    <2>2. Shown(g, o, FALSE) \ {i} = Shown(e, o, FALSE) \ {i}
        BY <2>1, Zenon
    <2>3. QED BY <2>2 DEF Lower
<1>3. Lower(e, k, i, o) \in SUBSET (Group(e, o, FALSE) \ {i})
    BY DEF Lower, Shown
<1>4. IsFirst(e, Lower(e, k, i, o), x)
    BY <1>1, <1>2, <1>3, FirstKept
<1>5. Seats(e, f, i, o, FALSE, x)
    BY <1>1, SeatsFrom
<1>6. QED BY <1>4, <1>5 DEF ByDefault

LEMMA PlacedByDefaultSeats ==
    ASSUME NEW e, Placed(e), NEW k, NEW i \in DOMAIN e, TieFree(e, DOMAIN e \ {i}), ~e[i].pinned
    PROVE  LET f == PlacedByDefault(e, k, i) IN
           ByDefault(e, f, k, i, e[i].owner) /\ SameMarks(e[i], f[i])
<1> DEFINE o == e[i].owner
           S == Lower(e, k, i, o)
           x == FirstOrLast(e, S)
           f == PlacedByDefault(e, k, i)
<1>1. e[i].pinned = FALSE
    BY DEF Placed, Table, IsEntry
<1>2. f = Positioned(e, i, x)
    BY DEF PlacedByDefault, Lower
<1>3. S \in SUBSET DOMAIN e /\ S \subseteq Group(e, o, FALSE) \ {i}
    BY DEF Lower, Shown, Group
<1> HIDE DEF f, S, x
<1>4. IsFirst(e, S, x)
    BY <1>3, FirstIs DEF x
<1>5. x \in (Group(e, o, FALSE) \ {i}) \cup {Last}
    BY <1>3, <1>4 DEF IsFirst
<1>6. Seats(e, f, i, o, FALSE, x) /\ SameMarks(e[i], f[i])
    BY <1>1, <1>2, <1>5, PositionedSeats
<1>7. QED BY <1>4, <1>6 DEF ByDefault, f, S

LEMMA InsertedSeats ==
    ASSUME NEW e, Placed(e), NEW k, NEW i \in Item, i \notin DOMAIN e, NEW o \in User,
           TieFree(e, DOMAIN e)
    PROVE  LET f == Inserted(e, k, i, o) IN
           ByDefault(e, f, k, i, o) /\ ~f[i].dormant
<1> DEFINE g == [j \in DOMAIN e \cup {i} |-> IF j = i THEN NewEntry(o) ELSE e[j]]
           f == Inserted(e, k, i, o)
<1>1. /\ IsEntry(NewEntry(o)) /\ NewEntry(o).position = 0 /\ NewEntry(o).owner = o
      /\ ~NewEntry(o).pinned /\ ~NewEntry(o).dormant
    BY DEF IsEntry, NewEntry
<1>2. /\ DOMAIN g = DOMAIN e \cup {i} /\ g[i] = NewEntry(o)
      /\ \A j \in DOMAIN e : g[j] = e[j]
      /\ g = [j \in DOMAIN g |-> g[j]]
    OBVIOUS
<1>3. f = PlacedByDefault(g, k, i)
    BY DEF Inserted
<1> HIDE DEF g, f
<1>4. Placed(g)
    <2>1. IsFiniteSet(DOMAIN g)
        BY <1>2, FS_AddElement DEF Placed
    <2>2. \A j \in DOMAIN g : IsEntry(g[j]) /\ g[j].position \in Int
        BY <1>1, <1>2 DEF Placed, Table
    <2>3. QED BY <1>2, <2>1, <2>2 DEF Placed, Table
<1>5. OthersKept(e, g, i)
    BY <1>2 DEF OthersKept, OthersSame, SameMarks
<1>6. TieFree(g, DOMAIN g \ {i})
    BY <1>2 DEF TieFree, Mates
<1>7. ByDefault(g, f, k, i, o) /\ SameMarks(g[i], f[i])
    BY <1>1, <1>2, <1>3, <1>4, <1>6, PlacedByDefaultSeats
<1>8. ByDefault(e, f, k, i, o) /\ ~f[i].dormant
    BY <1>1, <1>2, <1>4, <1>5, <1>7, ByDefaultFrom DEF SameMarks
<1>9. QED BY <1>8 DEF f

\* Row i goes to the top of what is shown of o's rest, and sleeps there.
ToTheTop(e, f, i, o) ==
    \E x : IsFirst(e, Shown(e, o, FALSE) \ {i}, x) /\ Seats(e, f, i, o, FALSE, x)

LEMMA SleptSeats ==
    ASSUME NEW e, Placed(e), NEW i \in DOMAIN e, TieFree(e, DOMAIN e)
    PROVE  LET f == Slept(e, i) IN
           /\ f[i].dormant
           /\ e[i].pinned => ToTheTop(e, f, i, e[i].owner)
           /\ ~e[i].pinned => Marked(e, f, i) /\ f = Asleep(e, i)
<1> DEFINE o == e[i].owner
           u == Unpinned(e, i)
           S == Shown(u, u[i].owner, FALSE) \ {i}
           x == FirstOrLast(u, S)
           g == Positioned(u, i, x)
           h == IF e[i].pinned THEN g ELSE e
           f == Slept(e, i)
<1>1. f = [h EXCEPT ![i].dormant = TRUE]
    BY DEF Slept
<1>2. /\ Marked(e, u, i) /\ u[i].owner = o /\ u[i].pinned = FALSE /\ i \in DOMAIN u
    BY PinMarked DEF Unpinned, Marked
<1> HIDE DEF f, u
<1>3. Placed(u) /\ OthersKept(e, u, i)
    BY <1>2, MarkedKept DEF Marked
<1>4. TieFree(u, DOMAIN u \ {i})
    BY <1>2 DEF TieFree, Mates, Marked
<1>5. S \in SUBSET DOMAIN u /\ S \subseteq Group(u, o, FALSE) \ {i}
    BY <1>2 DEF Shown, Group
<1>6. S = Shown(e, o, FALSE) \ {i} /\ Group(u, o, FALSE) \ {i} = Group(e, o, FALSE) \ {i}
    <2>1. \A p : /\ Shown(u, o, p) \ {i} = Shown(e, o, p) \ {i}
                 /\ Group(u, o, p) \ {i} = Group(e, o, p) \ {i}
        BY <1>3, KeptGroups
    <2>2. /\ Shown(u, o, FALSE) \ {i} = Shown(e, o, FALSE) \ {i}
          /\ Group(u, o, FALSE) \ {i} = Group(e, o, FALSE) \ {i}
        BY <2>1, Zenon
    <2>3. QED BY <1>2, <2>2
<1> HIDE DEF S
<1>7. IsFirst(u, S, x)
    BY <1>3, <1>5, FirstIs
<1> HIDE DEF x
<1>8. x \in (Group(u, o, FALSE) \ {i}) \cup {Last}
    BY <1>5, <1>7 DEF IsFirst
<1>9. Seats(u, g, i, o, FALSE, x)
    BY <1>2, <1>3, <1>4, <1>8, PositionedSeats
<1> HIDE DEF g
<1>10. Seats(e, g, i, o, FALSE, x)
    BY <1>3, <1>9, SeatsFrom
<1>11. S \in SUBSET (Group(e, o, FALSE) \ {i})
    BY <1>5, <1>6
<1>12. IsFirst(e, Shown(e, o, FALSE) \ {i}, x)
    BY <1>3, <1>6, <1>7, <1>11, FirstKept
<1>13. CASE e[i].pinned
    <2>1. h = g /\ Placed(g) /\ i \in DOMAIN g /\ g[i].owner = o /\ g[i].pinned = FALSE
        BY <1>10, <1>13 DEF Seats
    <2>2. f = Asleep(g, i)
        BY <1>1, <2>1 DEF Asleep
    <2>3. Marked(g, f, i) /\ f[i].owner = o /\ f[i].pinned = FALSE /\ f[i].dormant
        BY <2>1, <2>2, MarkSet
    <2>4. Seats(e, f, i, o, FALSE, x)
        BY <1>10, <2>3, SeatsMarked
    <2>5. QED BY <1>12, <1>13, <2>3, <2>4 DEF ToTheTop, f
<1>14. CASE ~e[i].pinned
    <2>1. f = Asleep(e, i)
        BY <1>1, <1>14 DEF Asleep
    <2>2. Marked(e, f, i) /\ f[i].dormant
        BY <2>1, MarkSet
    <2>3. QED BY <1>14, <2>1, <2>2 DEF f
<1>15. QED BY <1>13, <1>14

LEMMA WithoutPlaced ==
    ASSUME NEW e, Placed(e), NEW i
    PROVE  LET f == Without(e, i) IN
           /\ Placed(f) /\ OthersKept(e, f, i) /\ i \notin DOMAIN f
           /\ DOMAIN f = DOMAIN e \ {i} /\ \A j \in DOMAIN f : f[j] = e[j]
           /\ i \notin DOMAIN e => f = e
<1> DEFINE f == Without(e, i)
<1>1. /\ DOMAIN f = DOMAIN e \ {i} /\ \A j \in DOMAIN f : f[j] = e[j]
      /\ f = [j \in DOMAIN f |-> f[j]]
    BY DEF Without
<1>2. i \notin DOMAIN e => f = e
    <2>1. SUFFICES ASSUME i \notin DOMAIN e PROVE f = e
        OBVIOUS
    <2>2. DOMAIN e \ {i} = DOMAIN e
        BY <2>1
    <2>3. f = [j \in DOMAIN e |-> e[j]]
        BY <2>2 DEF Without
    <2>4. QED BY <2>3 DEF Placed, Table
<1>3. IsFiniteSet(DOMAIN f)
    BY <1>1, FS_Subset DEF Placed
<1> HIDE DEF f
<1>4. Placed(f)
    BY <1>1, <1>3 DEF Placed, Table
<1>5. OthersKept(e, f, i)
    BY <1>1 DEF OthersKept, OthersSame, SameMarks
<1>6. QED BY <1>1, <1>2, <1>4, <1>5 DEF f

LEMMA WithoutTieFree ==
    ASSUME NEW e, Placed(e), TieFree(e, DOMAIN e), NEW i, NEW f, f = Without(e, i)
    PROVE  Placed(f) /\ TieFree(f, DOMAIN f) /\ OthersKept(e, f, i) /\ i \notin DOMAIN f
<1>1. /\ Placed(f) /\ OthersKept(e, f, i) /\ i \notin DOMAIN f
      /\ DOMAIN f = DOMAIN e \ {i} /\ \A j \in DOMAIN f : f[j] = e[j]
    BY WithoutPlaced, Zenon
<1>2. TieFree(f, DOMAIN f)
    BY <1>1 DEF TieFree, Mates
<1>3. QED BY <1>1, <1>2

LEMMA MarkTieFree ==
    ASSUME NEW e, TieFree(e, DOMAIN e), NEW i \in DOMAIN e, NEW f, Marked(e, f, i),
           f[i].owner = e[i].owner, f[i].pinned = e[i].pinned
    PROVE  TieFree(f, DOMAIN f)
<1>1. \A j \in DOMAIN e : /\ f[j].position = e[j].position
                          /\ f[j].owner = e[j].owner /\ f[j].pinned = e[j].pinned
    BY DEF Marked
<1>2. QED BY <1>1 DEF TieFree, Mates, Marked

\* Every way a request can leave the queues, for item i, assignee o, phase s.
NewPlace(e, f, k, i, o, s)  == s = "queued" /\ ByDefault(e, f, k, i, o) /\ ~f[i].dormant
Here(e, i, o)               == i \in DOMAIN e /\ e[i].owner = o
Woken(e, f, i, o, s)        == s = "queued" /\ Here(e, i, o) /\ e[i].dormant
                               /\ f = Awake(e, i)
StaysShown(e, f, i, o, s, r) == s = "queued" /\ Here(e, i, o) /\ ~e[i].dormant
                               /\ (r => e[i].pinned) /\ f = e
Hidden(e, f, i, o, s)       == s = "done" /\ Here(e, i, o) /\ ~e[i].dormant /\ ~e[i].pinned
                               /\ f = Asleep(e, i)
PinHidden(e, f, i, o, s)    == s = "done" /\ Here(e, i, o) /\ ~e[i].dormant /\ e[i].pinned
                               /\ ToTheTop(e, f, i, o) /\ f[i].dormant
StaysHidden(e, f, i, o, s)  == s = "done" /\ Here(e, i, o) /\ e[i].dormant /\ f = e
Removed(e, f, i, o, s)      == /\ ~(o \in User /\ s = "queued")
                               /\ ~(o \in User /\ s = "done" /\ Here(e, i, o))
                               /\ f = Without(e, i)

Outcome(e, f, k, i, o, s, r) ==
    \/ /\ o \in User
       /\ \/ NewPlace(e, f, k, i, o, s)
          \/ Woken(e, f, i, o, s)
          \/ StaysShown(e, f, i, o, s, r)
          \/ Hidden(e, f, i, o, s)
          \/ PinHidden(e, f, i, o, s)
          \/ StaysHidden(e, f, i, o, s)
    \/ Removed(e, f, i, o, s)

LEMMA SyncedOutcome ==
    ASSUME NEW e, Placed(e), TieFree(e, DOMAIN e), NEW k, NEW i \in Item,
           NEW o \in User \cup {NoUser}, NEW s \in Phase, NEW r \in BOOLEAN
    PROVE  Outcome(e, Synced(e, k, i, o, s, r), k, i, o, s, r)
<1> DEFINE f == IF i \in DOMAIN e /\ e[i].owner # o THEN Without(e, i) ELSE e
           here == i \in DOMAIN f
           g == Synced(e, k, i, o, s, r)
<1>1. g = IF o # NoUser /\ s = "queued"
          THEN IF ~here THEN Inserted(f, k, i, o)
               ELSE IF f[i].dormant THEN [f EXCEPT ![i].dormant = FALSE]
               ELSE IF r /\ ~f[i].pinned THEN PlacedByDefault(f, k, i)
               ELSE f
          ELSE IF o # NoUser /\ s = "done"
          THEN IF here /\ ~f[i].dormant THEN Slept(f, i) ELSE f
          ELSE Without(f, i)
    BY DEF Synced
<1>2. o # NoUser <=> o \in User
    BY UserAssumption
<1>3. \A j \in DOMAIN e : e[j].owner \in User
    BY DEF Placed, Table, IsEntry
<1>4. CASE Here(e, i, o)
    <2>1. f = e /\ here /\ o \in User /\ i \in DOMAIN e /\ e[i].owner = o
        BY <1>3, <1>4 DEF Here
    <2> HIDE DEF f, g
    <2>2. CASE s = "queued"
        <3>1. CASE e[i].dormant
            <4>1. g = Awake(e, i)
                BY <1>1, <1>2, <2>1, <2>2, <3>1 DEF Awake
            <4>2. QED BY <1>4, <2>1, <2>2, <3>1, <4>1 DEF Outcome, Woken, g
        <3>2. CASE ~e[i].dormant /\ r /\ ~e[i].pinned
            <4>1. g = PlacedByDefault(e, k, i)
                BY <1>1, <1>2, <2>1, <2>2, <3>2
            <4>2. TieFree(e, DOMAIN e \ {i})
                BY DEF TieFree
            <4>3. ByDefault(e, g, k, i, e[i].owner) /\ SameMarks(e[i], g[i])
                BY <2>1, <3>2, <4>1, <4>2, PlacedByDefaultSeats
            <4>4. ByDefault(e, g, k, i, o) /\ ~g[i].dormant
                BY <2>1, <3>2, <4>3 DEF SameMarks
            <4>5. QED BY <2>1, <2>2, <4>4 DEF Outcome, NewPlace, g
        <3>3. CASE ~e[i].dormant /\ ~(r /\ ~e[i].pinned)
            <4>1. g = e
                BY <1>1, <1>2, <2>1, <2>2, <3>3
            <4>2. QED BY <1>4, <2>1, <2>2, <3>3, <4>1 DEF Outcome, StaysShown, g
        <3>4. QED BY <3>1, <3>2, <3>3
    <2>3. CASE s = "done"
        <3>1. CASE e[i].dormant
            <4>1. g = e
                BY <1>1, <1>2, <2>1, <2>3, <3>1
            <4>2. QED BY <1>4, <2>1, <2>3, <3>1, <4>1 DEF Outcome, StaysHidden, g
        <3>2. CASE ~e[i].dormant
            <4>1. g = Slept(e, i)
                BY <1>1, <1>2, <2>1, <2>3, <3>2
            <4>2. /\ g[i].dormant
                  /\ e[i].pinned => ToTheTop(e, g, i, o)
                  /\ ~e[i].pinned => g = Asleep(e, i)
                BY <2>1, <4>1, SleptSeats
            <4>3. QED BY <1>4, <2>1, <2>3, <3>2, <4>2 DEF Outcome, Hidden, PinHidden, g
        <3>3. QED BY <3>1, <3>2
    <2>4. CASE s \notin {"queued", "done"}
        <3>1. g = Without(e, i)
            BY <1>1, <1>2, <2>1, <2>4
        <3>2. QED BY <2>4, <3>1 DEF Outcome, Removed, g
    <2>5. QED BY <2>2, <2>3, <2>4
<1>5. CASE ~Here(e, i, o)
    <2>1. f = Without(e, i)
        BY <1>5, WithoutPlaced DEF Here
    <2> HIDE DEF f, g
    <2>3. Placed(f) /\ TieFree(f, DOMAIN f) /\ OthersKept(e, f, i) /\ ~here
        BY <2>1, WithoutTieFree
    <2>2. Placed(f) /\ OthersKept(e, f, i) /\ ~here /\ Without(f, i) = f
        BY <2>3, WithoutPlaced
    <2>4. CASE o \in User /\ s = "queued"
        <3>1. g = Inserted(f, k, i, o)
            BY <1>1, <1>2, <2>2, <2>4
        <3>2. ByDefault(f, g, k, i, o) /\ ~g[i].dormant
            BY <2>2, <2>3, <2>4, <3>1, InsertedSeats
        <3>3. ByDefault(e, g, k, i, o)
            BY <2>2, <3>2, ByDefaultFrom
        <3>4. QED BY <2>4, <3>2, <3>3 DEF Outcome, NewPlace, g
    <2>5. CASE ~(o \in User /\ s = "queued")
        <3>1. g = Without(e, i)
            BY <1>1, <1>2, <2>1, <2>2, <2>5
        <3>2. QED BY <1>5, <2>5, <3>1 DEF Outcome, Removed, g
    <2>6. QED BY <2>4, <2>5
<1>6. QED BY <1>4, <1>5

\* Whatever a request does, the rows of the other items keep their order, and
\* no two rows tie.
LEMMA OutcomeKeeps ==
    ASSUME NEW e, Placed(e), TieFree(e, DOMAIN e), NEW f, NEW k, NEW i, NEW o, NEW s, NEW r,
           Outcome(e, f, k, i, o, s, r)
    PROVE  Placed(f) /\ TieFree(f, DOMAIN f) /\ OthersKept(e, f, i)
<1>1. TieFree(e, DOMAIN e \ {i})
    BY DEF TieFree
<1>2. ASSUME NEW x, Seats(e, f, i, o, FALSE, x)
      PROVE  Placed(f) /\ TieFree(f, DOMAIN f) /\ OthersKept(e, f, i)
    BY <1>1, <1>2, SeatsTieFree DEF Seats
<1>3. ASSUME i \in DOMAIN e, Marked(e, f, i),
             f[i].owner = e[i].owner, f[i].pinned = e[i].pinned
      PROVE  Placed(f) /\ TieFree(f, DOMAIN f) /\ OthersKept(e, f, i)
    BY <1>3, MarkTieFree, MarkedKept DEF Marked
<1>4. CASE f = e
    BY <1>4, SameIsKept
<1>5. CASE f = Without(e, i)
    BY <1>5, WithoutTieFree
<1>6. CASE /\ o \in User
           /\ \/ NewPlace(e, f, k, i, o, s)
              \/ PinHidden(e, f, i, o, s)
    BY <1>2, <1>6 DEF NewPlace, ByDefault, PinHidden, ToTheTop
<1>7. CASE Woken(e, f, i, o, s) \/ Hidden(e, f, i, o, s)
    <2>1. i \in DOMAIN e /\ (f = Awake(e, i) \/ f = Asleep(e, i))
        BY <1>7 DEF Woken, Hidden, Here
    <2>2. QED BY <1>3, <2>1, MarkSet
<1>8. QED BY <1>4, <1>5, <1>6, <1>7 DEF Outcome, StaysShown, StaysHidden, Removed

\* A status change syncs twice; together they come to one outcome.
LEMMA OutcomeTwice ==
    ASSUME NEW e, Placed(e), TieFree(e, DOMAIN e), NEW g, NEW f, NEW k, NEW i, NEW o, NEW s,
           NEW r \in BOOLEAN,
           \E q : Outcome(e, g, k, i, o, s, q), Outcome(g, f, k, i, o, s, r)
    PROVE  Outcome(e, f, k, i, o, s, r)
<1>0. PICK q : Outcome(e, g, k, i, o, s, q)
    OBVIOUS
<1>1. Placed(g) /\ TieFree(g, DOMAIN g) /\ OthersKept(e, g, i)
    BY <1>0, OutcomeKeeps
<1>2. CASE g = e
    BY <1>2
<1>3. CASE o \in User /\ s = "queued" /\ i \in DOMAIN g /\ g[i].owner = o /\ ~g[i].dormant
    <2>1. NewPlace(g, f, k, i, o, s) \/ f = g
        BY <1>3 DEF Outcome, Woken, StaysShown, Hidden, PinHidden, StaysHidden, Removed, Here
    <2>2. CASE NewPlace(g, f, k, i, o, s)
        <3>1. NewPlace(e, f, k, i, o, s)
            BY <1>1, <2>2, ByDefaultFrom DEF NewPlace
        <3>2. QED BY <1>3, <3>1 DEF Outcome
    <2>3. CASE f = g
        <3>1. NewPlace(e, g, k, i, o, s) \/ Woken(e, g, i, o, s) \/ g = e
            BY <1>0, <1>3 DEF Outcome, StaysShown, Hidden, PinHidden, StaysHidden, Removed
        <3>2. QED BY <1>2, <1>3, <2>3, <3>1 DEF Outcome
    <2>4. QED BY <2>1, <2>2, <2>3
<1>4. CASE o \in User /\ s = "done" /\ i \in DOMAIN g /\ g[i].owner = o /\ g[i].dormant
    <2>1. f = g
        BY <1>4 DEF Outcome, NewPlace, Woken, StaysShown, Hidden, PinHidden, StaysHidden, Removed, Here
    <2>2. Hidden(e, g, i, o, s) \/ PinHidden(e, g, i, o, s) \/ g = e \/ Removed(e, g, i, o, s)
        BY <1>0, <1>4 DEF Outcome, NewPlace, Woken, StaysShown, StaysHidden
    <2>3. QED BY <1>2, <1>4, <2>1, <2>2 DEF Outcome
<1>5. CASE Removed(e, g, i, o, s)
    <2>1. g = Without(e, i) /\ i \notin DOMAIN g /\ ~(o \in User /\ s = "queued")
        BY <1>5, WithoutPlaced DEF Removed
    <2>2. f = Without(g, i)
        BY <2>1 DEF Outcome, NewPlace, Woken, StaysShown, Hidden, PinHidden, StaysHidden, Removed, Here
    <2>3. f = g
        BY <1>1, <2>1, <2>2, WithoutPlaced
    <2>4. QED BY <1>5, <2>3 DEF Outcome
<1>6. \/ g = e
      \/ o \in User /\ s = "queued" /\ i \in DOMAIN g /\ g[i].owner = o /\ ~g[i].dormant
      \/ o \in User /\ s = "done" /\ i \in DOMAIN g /\ g[i].owner = o /\ g[i].dormant
      \/ Removed(e, g, i, o, s)
    <2>1. CASE NewPlace(e, g, k, i, o, s) /\ o \in User
        BY <2>1 DEF NewPlace, ByDefault, Seats
    <2>2. CASE Woken(e, g, i, o, s) /\ o \in User
        <3>1. i \in DOMAIN e /\ g = Awake(e, i) /\ e[i].owner = o
            BY <2>2 DEF Woken, Here
        <3>2. Marked(e, g, i) /\ g[i].owner = e[i].owner /\ ~g[i].dormant
            BY <3>1, MarkSet
        <3>3. QED BY <2>2, <3>1, <3>2 DEF Woken, Marked
    <2>3. CASE Hidden(e, g, i, o, s) /\ o \in User
        <3>1. i \in DOMAIN e /\ g = Asleep(e, i) /\ e[i].owner = o
            BY <2>3 DEF Hidden, Here
        <3>2. Marked(e, g, i) /\ g[i].owner = e[i].owner /\ g[i].dormant
            BY <3>1, MarkSet
        <3>3. QED BY <2>3, <3>1, <3>2 DEF Hidden, Marked
    <2>4. CASE PinHidden(e, g, i, o, s) /\ o \in User
        BY <2>4 DEF PinHidden, ToTheTop, Seats
    <2>5. QED BY <1>0, <2>1, <2>2, <2>3, <2>4 DEF Outcome, StaysShown, StaysHidden
<1>7. QED BY <1>2, <1>3, <1>4, <1>5, <1>6
(***************************************************************************)
(* The order of a queue nobody arranged                                    *)
(***************************************************************************)
\* The shown rest of u's queue is in the order of the default rule.
Sorted(e, k, u) ==
    \A a, b \in Shown(e, u, FALSE) : Above(e, a, b) => RanksHigher(k, a, b)

LEMMA Ranking ==
    ASSUME NEW k \in [Item -> Key], NEW a \in Item, NEW b \in Item, NEW c \in Item
    PROVE  /\ a # b => RanksHigher(k, a, b) \/ RanksHigher(k, b, a)
           /\ RanksHigher(k, a, b) /\ RanksHigher(k, b, c) => RanksHigher(k, a, c)
<1>1. /\ k[a] \in Nat /\ k[b] \in Nat /\ k[c] \in Nat
      /\ a \in Nat /\ b \in Nat /\ c \in Nat
    BY ItemAssumption
<1>2. QED BY <1>1 DEF RanksHigher

\* The other rows stay sorted.
LEMMA OthersSorted ==
    ASSUME NEW e, Placed(e), NEW f, Placed(f), NEW k, NEW n, NEW i, NEW u,
           OthersKept(e, f, i), \A j \in Item \ {i} : n[j] = k[j], Sorted(e, k, u),
           NEW a \in Shown(f, u, FALSE) \ {i}, NEW b \in Shown(f, u, FALSE) \ {i},
           Above(f, a, b)
    PROVE  RanksHigher(n, a, b)
<1>1. \A p : Shown(f, u, p) \ {i} = Shown(e, u, p) \ {i}
    BY KeptGroups
<1>2. Shown(f, u, FALSE) \ {i} = Shown(e, u, FALSE) \ {i}
    BY <1>1, Zenon
<1>3. /\ a \in Shown(e, u, FALSE) /\ b \in Shown(e, u, FALSE) /\ a # i /\ b # i
      /\ a \in DOMAIN e \ {i} /\ b \in DOMAIN e \ {i} /\ Mates(e, a, b)
    BY <1>2 DEF Shown, Group, Mates
<1>4. Above(e, a, b)
    BY <1>3, KeptAbove
<1>5. RanksHigher(k, a, b)
    BY <1>3, <1>4 DEF Sorted
<1>6. a \in Item \ {i} /\ b \in Item \ {i}
    BY <1>3 DEF Placed
<1>7. QED BY <1>5, <1>6 DEF RanksHigher

LEMMA SortedElsewhere ==
    ASSUME NEW e, Placed(e), NEW f, Placed(f), NEW k, NEW n, NEW i, NEW u,
           OthersKept(e, f, i), \A j \in Item \ {i} : n[j] = k[j], Sorted(e, k, u),
           i \notin Shown(f, u, FALSE)
    PROVE  Sorted(f, n, u)
<1> SUFFICES ASSUME NEW a \in Shown(f, u, FALSE), NEW b \in Shown(f, u, FALSE), Above(f, a, b)
             PROVE  RanksHigher(n, a, b)
    BY DEF Sorted
<1>1. a # i /\ b # i
    OBVIOUS
<1>2. QED BY <1>1, OthersSorted

\* The default rule inserts where the order says.
LEMMA ByDefaultSorted ==
    ASSUME NEW e, Placed(e), TieFree(e, DOMAIN e), NEW f,
           NEW k, NEW n \in [Item -> Key], NEW i \in Item, NEW u,
           \A j \in Item \ {i} : n[j] = k[j], Sorted(e, k, u),
           ByDefault(e, f, n, i, u)
    PROVE  Sorted(f, n, u)
<1> DEFINE S == Shown(e, u, FALSE) \ {i}
           L == Lower(e, n, i, u)
<1>1. PICK x : IsFirst(e, L, x) /\ Seats(e, f, i, u, FALSE, x)
    BY DEF ByDefault
<1>2. L = {j \in S : RanksHigher(n, i, j)}
    BY DEF Lower
<1>3. Placed(f) /\ OthersKept(e, f, i)
    BY <1>1 DEF Seats
<1>4. S = Shown(f, u, FALSE) \ {i}
    <2>1. \A p : Shown(f, u, p) \ {i} = Shown(e, u, p) \ {i}
        BY <1>3, KeptGroups
    <2>2. QED BY <2>1, Zenon
<1>5. /\ S \subseteq Group(e, u, FALSE) \ {i}
      /\ \A j \in S : j \in Item /\ j # i /\ j \in DOMAIN e /\ e[j].position \in Int
      /\ \A a, b \in S : Mates(e, a, b)
    BY DEF Shown, Group, Placed, Mates
<1>6. \A j \in S : f[j].position \in Int /\ j \in Nat
    BY <1>3, <1>5, LastIsNoItem DEF Placed, OthersKept, OthersSame
<1>7. f[i].position \in Int /\ i \in Nat /\ x \in L \cup {Last}
    BY <1>1, <1>3, LastIsNoItem DEF Placed, Seats, IsFirst
<1> HIDE DEF S, L
<1>8. \A j \in S :
         /\ Upper(e, j, x) => f[j].position < f[i].position
         /\ ~Upper(e, j, x) => f[i].position < f[j].position
    BY <1>1, <1>5 DEF Seats
\* What stands above i's landing ranks higher than i.
<1>9. ASSUME NEW j \in S, Above(f, j, i) PROVE RanksHigher(n, j, i)
    <2>1. Upper(e, j, x)
        BY <1>6, <1>7, <1>8, <1>9 DEF Above
    <2>2. CASE RanksHigher(n, i, j)
        <3>1. j \in L /\ x \in L /\ (j # x => Above(e, x, j))
            BY <1>1, <1>2, <2>2 DEF IsFirst
        <3>2. x \in S /\ x # Last
            BY <1>2, <1>5, <3>1, LastIsNoItem
        <3>3. e[j].position < e[x].position /\ e[j].position \in Int /\ e[x].position \in Int
            BY <1>5, <2>1, <3>2 DEF Upper
        <3>4. QED BY <3>1, <3>3 DEF Above
    <2>3. j \in Item /\ j # i
        BY <1>5
    <2>4. QED BY <2>2, <2>3, Ranking
\* What stands below ranks lower.
<1>10. ASSUME NEW j \in S, Above(f, i, j) PROVE RanksHigher(n, i, j)
    <2>1. ~Upper(e, j, x)
        BY <1>6, <1>7, <1>8, <1>10 DEF Above
    <2>2. x \in L /\ x \in S /\ RanksHigher(n, i, x)
        BY <1>2, <1>7, <2>1 DEF Upper
    <2>3. CASE j = x
        BY <2>2, <2>3
    <2>4. CASE j # x
        <3>1. e[x].position < e[j].position
            BY <1>5, <2>1, <2>2, <2>4 DEF Upper, TieFree
        <3>2. RanksHigher(k, x, j)
            BY <2>2, <3>1, <1>5 DEF Sorted, Above, S
        <3>3. RanksHigher(n, x, j)
            BY <1>5, <2>2, <3>2 DEF RanksHigher
        <3>4. x \in Item /\ j \in Item
            BY <1>5, <2>2
        <3>5. QED BY <2>2, <3>3, <3>4, Ranking
    <2>5. QED BY <2>3, <2>4
<1>11. SUFFICES ASSUME NEW a \in Shown(f, u, FALSE), NEW b \in Shown(f, u, FALSE), Above(f, a, b)
                PROVE  RanksHigher(n, a, b)
    BY DEF Sorted
<1>12. CASE a = i /\ b = i
    BY <1>7, <1>11, <1>12 DEF Above
<1>13. CASE a # i /\ b = i
    BY <1>4, <1>9, <1>11, <1>13
<1>14. CASE a = i /\ b # i
    BY <1>4, <1>10, <1>11, <1>14
<1>15. CASE a # i /\ b # i
    <2>1. a \in Shown(f, u, FALSE) \ {i} /\ b \in Shown(f, u, FALSE) \ {i}
        BY <1>15
    <2>2. QED BY <1>3, <1>11, <2>1, OthersSorted
<1>16. QED BY <1>12, <1>13, <1>14, <1>15

(***************************************************************************)
(* What each request does to the order                                     *)
(***************************************************************************)
LEMMA UpdateOutcome ==
    ASSUME Placed(entry), TieFree(entry, DOMAIN entry),
           NEW i \in Item, NEW o \in User \cup {NoUser}, NEW s \in Phase, NEW k \in Key,
           Update(i, o, s, k)
    PROVE  Outcome(entry, entry', key', i, o, s, k # key[i])
<1> DEFINE newKey == [key EXCEPT ![i] = k]
           moved == IF s = phase[i] THEN entry ELSE Synced(entry, newKey, i, o, s, FALSE)
           reranked == k # key[i]
<1>1. key' = newKey /\ entry' = Synced(moved, newKey, i, o, s, reranked)
    BY DEF Update
<1>2. reranked \in BOOLEAN
    OBVIOUS
<1> HIDE DEF newKey, reranked
<1>3. CASE s = phase[i]
    <2>1. moved = entry
        BY <1>3
    <2>2. Outcome(entry, Synced(entry, newKey, i, o, s, reranked), newKey, i, o, s, reranked)
        BY <1>2, SyncedOutcome
    <2>3. QED BY <1>1, <2>1, <2>2 DEF reranked
<1>4. CASE s # phase[i]
    <2>1. \A r \in BOOLEAN : Outcome(entry, Synced(entry, newKey, i, o, s, r), newKey, i, o, s, r)
        BY SyncedOutcome
    <2>2. moved = Synced(entry, newKey, i, o, s, FALSE)
        BY <1>4
    <2> HIDE DEF moved
    <2>3. \E q : Outcome(entry, moved, newKey, i, o, s, q)
        BY <2>1, <2>2
    <2>4. Placed(moved) /\ TieFree(moved, DOMAIN moved)
        BY <2>3, OutcomeKeeps
    <2>5. Outcome(moved, Synced(moved, newKey, i, o, s, reranked), newKey, i, o, s, reranked)
        BY <1>2, <2>4, SyncedOutcome
    <2>6. Outcome(moved, entry', newKey, i, o, s, reranked)
        BY <1>1, <2>5
    <2>7. Outcome(entry, entry', newKey, i, o, s, reranked)
        BY <1>2, <2>3, <2>6, OutcomeTwice
    <2>8. QED BY <1>1, <2>7 DEF reranked
<1>5. QED BY <1>3, <1>4

\* A drop lands above the anchor, or above the first one below it.
LEMMA MoveSeats ==
    ASSUME Placed(entry), TieFree(entry, DOMAIN entry),
           NEW i \in Item, NEW anchor \in Item, NEW after \in BOOLEAN, Move(i, anchor, after)
    PROVE  LET o == entry[i].owner
               p == entry[i].pinned
               G == Shown(entry, o, p) \ {i}
               x == LandingAt(entry, i, anchor, after)
           IN  /\ i \in DOMAIN entry /\ anchor \in Shown(entry, o, p) /\ ~entry[i].dormant
               /\ Seats(entry, entry', i, o, p, x)
               /\ SameMarks(entry[i], entry'[i])
               /\ x \in G \cup {Last}
               /\ anchor = i \/ after =>
                     IsFirst(entry, {j \in G : Above(entry, anchor, j)}, x)
               /\ ~(anchor = i \/ after) => x = anchor
<1> DEFINE o == entry[i].owner
           p == entry[i].pinned
           G == Shown(entry, o, p) \ {i}
           x == LandingAt(entry, i, anchor, after)
           S == {j \in G : Above(entry, anchor, j)}
<1>1. /\ i \in DOMAIN entry /\ anchor \in DOMAIN entry /\ ~entry[i].dormant
      /\ anchor \in Shown(entry, o, p) /\ entry' = Positioned(entry, i, x)
    BY DEF Move, Shown, Group
<1>2. x = IF anchor = i \/ after THEN FirstOrLast(entry, S) ELSE anchor
    BY DEF LandingAt
<1>3. S \in SUBSET DOMAIN entry /\ S \subseteq G /\ G \subseteq Group(entry, o, p) \ {i}
    BY DEF Shown, Group
<1>4. anchor # i => anchor \in G
    BY <1>1
<1> HIDE DEF G, S, x
<1>5. IsFirst(entry, S, FirstOrLast(entry, S))
    BY <1>3, FirstIs
<1>6. x \in G \cup {Last}
    <2>1. FirstOrLast(entry, S) \in G \cup {Last}
        BY <1>3, <1>5 DEF IsFirst
    <2>2. QED BY <1>2, <1>4, <2>1
<1>7. TieFree(entry, DOMAIN entry \ {i})
    BY DEF TieFree
<1>8. Seats(entry, entry', i, o, p, x) /\ SameMarks(entry[i], entry'[i])
    <2>1. x \in (Group(entry, entry[i].owner, entry[i].pinned) \ {i}) \cup {Last}
        BY <1>3, <1>6
    <2>2. QED BY <1>1, <1>7, <2>1, PositionedSeats
<1>9. QED BY <1>1, <1>2, <1>5, <1>6, <1>8 DEF G, S, x

PinnedOpen(e, i)   == [e EXCEPT ![i].pinned = TRUE, ![i].locked = FALSE]
PinnedLocked(e, i) == [e EXCEPT ![i].pinned = TRUE, ![i].locked = TRUE]

LEMMA PinSet ==
    ASSUME NEW e, Placed(e), NEW i \in DOMAIN e, NEW f,
           f = PinnedOpen(e, i) \/ f = PinnedLocked(e, i)
    PROVE  /\ Marked(e, f, i) /\ f[i].owner = e[i].owner /\ f[i].pinned = TRUE
           /\ f[i].dormant = e[i].dormant
<1>1. LET g == PinnedOpen(e, i) IN
      /\ Marked(e, g, i) /\ g[i].owner = e[i].owner /\ g[i].pinned = TRUE
      /\ g[i].dormant = e[i].dormant
    BY PinMarked DEF PinnedOpen
<1>2. LET g == PinnedLocked(e, i) IN
      /\ Marked(e, g, i) /\ g[i].owner = e[i].owner /\ g[i].pinned = TRUE
      /\ g[i].dormant = e[i].dormant
    BY PinMarked DEF PinnedLocked
<1>3. QED BY <1>1, <1>2, Zenon

LEMMA PinSeats ==
    ASSUME Placed(entry), TieFree(entry, DOMAIN entry),
           NEW i \in Item, NEW byOwner \in BOOLEAN, Pin(i, byOwner)
    PROVE  /\ i \in DOMAIN entry /\ ~entry[i].dormant /\ ~entry[i].pinned
           /\ Seats(entry, entry', i, entry[i].owner, TRUE, Last)
           /\ ~entry'[i].dormant
<1>1. /\ i \in DOMAIN entry /\ ~entry[i].dormant /\ ~entry[i].pinned
      /\ entry' = Positioned([entry EXCEPT ![i].pinned = TRUE, ![i].locked = ~byOwner],
                             i, Last)
    BY DEF Pin
<1>2. PICK g : /\ g = PinnedOpen(entry, i) \/ g = PinnedLocked(entry, i)
              /\ entry' = Positioned(g, i, Last)
    <2>1. CASE byOwner
        <3>1. entry' = Positioned(PinnedOpen(entry, i), i, Last)
            BY <1>1, <2>1 DEF PinnedOpen
        <3>2. QED BY <3>1
    <2>2. CASE ~byOwner
        <3>1. entry' = Positioned(PinnedLocked(entry, i), i, Last)
            BY <1>1, <2>2 DEF PinnedLocked
        <3>2. QED BY <3>1
    <2>3. QED BY <2>1, <2>2
<1>3. /\ Marked(entry, g, i) /\ g[i].owner = entry[i].owner /\ g[i].pinned = TRUE
      /\ g[i].dormant = entry[i].dormant
    BY <1>1, <1>2, PinSet
<1>4. OthersKept(entry, g, i) /\ Placed(g) /\ i \in DOMAIN g
    BY <1>1, <1>3, MarkedKept DEF Marked
<1>5. TieFree(g, DOMAIN g \ {i})
    BY <1>3 DEF TieFree, Mates, Marked
<1>6. Seats(g, entry', i, g[i].owner, g[i].pinned, Last) /\ SameMarks(g[i], entry'[i])
    BY <1>2, <1>4, <1>5, PositionedSeats
<1>7. Seats(entry, entry', i, g[i].owner, g[i].pinned, Last)
    BY <1>4, <1>6, SeatsFrom
<1>8. QED BY <1>1, <1>3, <1>6, <1>7 DEF SameMarks

LEMMA UnpinSeats ==
    ASSUME Placed(entry), TieFree(entry, DOMAIN entry),
           NEW i \in Item, NEW byOwner \in BOOLEAN, Unpin(i, byOwner)
    PROVE  /\ i \in DOMAIN entry /\ ~entry[i].dormant /\ entry[i].pinned
           /\ ByDefault(entry, entry', key, i, entry[i].owner)
           /\ ~entry'[i].dormant
<1> DEFINE g == Unpinned(entry, i)
<1>1. /\ i \in DOMAIN entry /\ ~entry[i].dormant /\ entry[i].pinned
      /\ entry' = PlacedByDefault(g, key, i)
    BY DEF Unpin
<1>2. /\ Marked(entry, g, i) /\ g[i].owner = entry[i].owner /\ g[i].pinned = FALSE
      /\ g[i].dormant = entry[i].dormant
    BY <1>1, PinMarked DEF Unpinned
<1> HIDE DEF g
<1>3. OthersKept(entry, g, i) /\ Placed(g) /\ i \in DOMAIN g
    BY <1>1, <1>2, MarkedKept DEF Marked
<1>4. TieFree(g, DOMAIN g \ {i})
    BY <1>2 DEF TieFree, Mates, Marked
<1>5. ByDefault(g, entry', key, i, g[i].owner) /\ SameMarks(g[i], entry'[i])
    BY <1>1, <1>2, <1>3, <1>4, PlacedByDefaultSeats
<1>6. ByDefault(entry, entry', key, i, g[i].owner)
    BY <1>3, <1>5, ByDefaultFrom
<1>7. QED BY <1>1, <1>2, <1>5, <1>6 DEF SameMarks

(***************************************************************************)
(* The inductive invariant of the order                                    *)
(***************************************************************************)
\* Finishing an item hides its row and counts its owner's queue as arranged.
HiddenArranged == \A j \in DOMAIN entry : entry[j].dormant => entry[j].owner \in arranged

OrderInv ==
    /\ IInv
    /\ key \in [Item -> Key]
    /\ arranged \subseteq User
    /\ Placed(entry)
    /\ TieFree(entry, DOMAIN entry)
    /\ HiddenArranged
    /\ UnarrangedIsSorted

LEMMA OrderStart == Init => OrderInv
<1> SUFFICES ASSUME Init PROVE OrderInv
    OBVIOUS
<1>1. IInv /\ key \in [Item -> Key] /\ arranged = {}
    BY EntriesStart DEF Init
<1>2. DOMAIN entry = {} /\ Table(entry)
    BY <1>1 DEF Init, IInv
<1>3. Placed(entry)
    BY <1>2, FS_EmptySet DEF Placed
<1>4. TieFree(entry, DOMAIN entry) /\ HiddenArranged /\ UnarrangedIsSorted
    BY <1>2 DEF TieFree, HiddenArranged, UnarrangedIsSorted, Shown, Group
<1>5. QED BY <1>1, <1>3, <1>4 DEF OrderInv

LEMMA SortedQueues ==
    UnarrangedIsSorted <=> \A u \in User \ arranged : Sorted(entry, key, u)
    BY DEF UnarrangedIsSorted, Sorted

\* One item's row changes: the others stay put, and row i goes where the rule
\* says, or shows in no queue that nobody arranged.
LEMMA OneRowStep ==
    ASSUME OrderInv, IInv', NEW i \in Item, key' \in [Item -> Key],
           \A j \in Item \ {i} : key'[j] = key[j],
           arranged \subseteq arranged', arranged' \subseteq User,
           Placed(entry'), TieFree(entry', DOMAIN entry'), OthersKept(entry, entry', i),
           i \in DOMAIN entry' /\ entry'[i].dormant => entry'[i].owner \in arranged',
           \A u \in User \ arranged' :
               \/ i \notin Shown(entry', u, FALSE)
               \/ ByDefault(entry, entry', key', i, u)
               \/ entry' = entry /\ key' = key
    PROVE  OrderInv'
<1>1. ASSUME NEW j \in DOMAIN entry', entry'[j].dormant PROVE entry'[j].owner \in arranged'
    <2>1. CASE j = i
        BY <1>1, <2>1
    <2>2. CASE j # i
        <3>1. j \in DOMAIN entry /\ SameMarks(entry[j], entry'[j])
            BY <1>1, <2>2 DEF OthersKept, OthersSame
        <3>2. entry[j].owner \in arranged
            BY <1>1, <3>1 DEF SameMarks, OrderInv, HiddenArranged
        <3>3. QED BY <3>1, <3>2 DEF SameMarks
    <2>3. QED BY <2>1, <2>2
<1>2. HiddenArranged'
    BY <1>1 DEF HiddenArranged
<1>3. ASSUME NEW u \in User \ arranged' PROVE Sorted(entry', key', u)
    <2>1. Sorted(entry, key, u) /\ Placed(entry) /\ TieFree(entry, DOMAIN entry)
        BY <1>3, SortedQueues DEF OrderInv
    <2>2. CASE i \notin Shown(entry', u, FALSE)
        BY <2>1, <2>2, SortedElsewhere
    <2>3. CASE ByDefault(entry, entry', key', i, u)
        BY <2>1, <2>3, ByDefaultSorted
    <2>4. CASE entry' = entry /\ key' = key
        BY <2>1, <2>4
    <2>5. QED BY <1>3, <2>2, <2>3, <2>4
<1>4. UnarrangedIsSorted'
    BY <1>3 DEF UnarrangedIsSorted, Sorted
<1>5. QED BY <1>2, <1>4 DEF OrderInv

LEMMA UpdateOrder ==
    ASSUME OrderInv, IInv', NEW i \in Item, NEW o \in User \cup {NoUser}, NEW s \in Phase,
           NEW k \in Key, Update(i, o, s, k)
    PROVE  OrderInv'
<1> DEFINE r == k # key[i]
<1>1. /\ Placed(entry) /\ TieFree(entry, DOMAIN entry) /\ key \in [Item -> Key]
      /\ arranged \subseteq User /\ HiddenArranged
    BY DEF OrderInv
<1>2. /\ key' = [key EXCEPT ![i] = k]
      /\ arranged' = arranged \cup
            {u \in User : /\ i \in DOMAIN entry /\ i \in DOMAIN entry'
                          /\ entry[i].owner = u /\ entry'[i].dormant}
    BY DEF Update
<1>3. Outcome(entry, entry', key', i, o, s, r)
    BY <1>1, UpdateOutcome
<1>4. /\ key' \in [Item -> Key] /\ \A j \in Item \ {i} : key'[j] = key[j]
      /\ ~r => key' = key
      /\ arranged \subseteq arranged' /\ arranged' \subseteq User
    BY <1>1, <1>2
<1> HIDE DEF r
<1>5. Placed(entry') /\ TieFree(entry', DOMAIN entry') /\ OthersKept(entry, entry', i)
    BY <1>1, <1>3, OutcomeKeeps
<1>6. \/ /\ o \in User
         /\ \/ NewPlace(entry, entry', key', i, o, s)
            \/ Woken(entry, entry', i, o, s)
            \/ StaysShown(entry, entry', i, o, s, r)
            \/ Hidden(entry, entry', i, o, s)
            \/ PinHidden(entry, entry', i, o, s)
            \/ StaysHidden(entry, entry', i, o, s)
      \/ Removed(entry, entry', i, o, s)
    BY <1>3 DEF Outcome
<1> DEFINE Fits == /\ i \in DOMAIN entry' /\ entry'[i].dormant => entry'[i].owner \in arranged'
                   /\ \A u \in User \ arranged' :
                         \/ i \notin Shown(entry', u, FALSE)
                         \/ ByDefault(entry, entry', key', i, u)
                         \/ entry' = entry /\ key' = key
<1>7. SUFFICES Fits
    BY <1>4, <1>5, OneRowStep
<1>8. CASE o \in User /\ NewPlace(entry, entry', key', i, o, s)
    <2>1. ~entry'[i].dormant /\ entry'[i].owner = o /\ ByDefault(entry, entry', key', i, o)
        BY <1>8 DEF NewPlace, ByDefault, Seats
    <2>2. QED BY <2>1 DEF Shown, Group
<1>9. CASE o \in User /\ Woken(entry, entry', i, o, s)
    <2>1. i \in DOMAIN entry /\ entry[i].owner = o /\ entry[i].dormant /\ entry' = Awake(entry, i)
        BY <1>9 DEF Woken, Here
    <2>2. o \in arranged'
        BY <1>1, <1>4, <2>1 DEF HiddenArranged
    <2>3. ~entry'[i].dormant /\ entry'[i].owner = o
        BY <1>1, <2>1, MarkSet
    <2>4. QED BY <2>2, <2>3 DEF Shown, Group
<1>10. CASE o \in User /\ StaysShown(entry, entry', i, o, s, r)
    <2>1. entry' = entry /\ ~entry[i].dormant /\ (r => entry[i].pinned)
        BY <1>10 DEF StaysShown
    <2>2. QED BY <1>4, <2>1 DEF Shown, Group
<1>11. CASE o \in User /\ (Hidden(entry, entry', i, o, s) \/ PinHidden(entry, entry', i, o, s))
    <2>1. i \in DOMAIN entry /\ entry[i].owner = o
        BY <1>11 DEF Hidden, PinHidden, Here
    <2>2. entry'[i].dormant /\ i \in DOMAIN entry' /\ entry'[i].owner = o
        <3>1. CASE Hidden(entry, entry', i, o, s)
            <4>1. entry' = Asleep(entry, i)
                BY <3>1 DEF Hidden
            <4>2. QED BY <1>1, <2>1, <4>1, MarkSet DEF Marked
        <3>2. CASE PinHidden(entry, entry', i, o, s)
            BY <3>2 DEF PinHidden, ToTheTop, Seats
        <3>3. QED BY <1>11, <3>1, <3>2
    <2>3. o \in arranged'
        BY <1>2, <1>11, <2>1, <2>2
    <2>4. QED BY <2>2, <2>3 DEF Shown, Group
<1>12. CASE o \in User /\ StaysHidden(entry, entry', i, o, s)
    <2>1. entry' = entry /\ entry[i].dormant
        BY <1>12 DEF StaysHidden
    <2>2. QED BY <1>1, <1>4, <2>1 DEF HiddenArranged, Shown, Group
<1>13. CASE Removed(entry, entry', i, o, s)
    <2>1. i \notin DOMAIN entry'
        BY <1>1, <1>13, WithoutTieFree DEF Removed
    <2>2. QED BY <2>1 DEF Shown, Group
<1>14. QED BY <1>6, <1>8, <1>9, <1>10, <1>11, <1>12, <1>13

LEMMA HumanOrder ==
    ASSUME OrderInv, IInv', NEW i \in Item, UNCHANGED key,
           arranged \subseteq arranged', arranged' \subseteq User,
           NEW o, NEW p, NEW x, Seats(entry, entry', i, o, p, x), ~entry'[i].dormant,
           \/ p
           \/ o \in arranged'
           \/ ByDefault(entry, entry', key, i, o)
    PROVE  OrderInv'
<1>1. /\ Placed(entry) /\ TieFree(entry, DOMAIN entry) /\ key' \in [Item -> Key]
      /\ \A j \in Item \ {i} : key'[j] = key[j]
    BY DEF OrderInv
<1>2. Placed(entry') /\ OthersKept(entry, entry', i)
    BY DEF Seats
<1>3. TieFree(entry', DOMAIN entry')
    <2>1. TieFree(entry, DOMAIN entry \ {i})
        BY <1>1 DEF TieFree
    <2>2. QED BY <1>1, <2>1, SeatsTieFree
<1>4. \A u \in User \ arranged' :
          i \notin Shown(entry', u, FALSE) \/ ByDefault(entry, entry', key', i, u)
    <2>1. entry'[i].owner = o /\ entry'[i].pinned = p
        BY DEF Seats
    <2>2. QED BY <2>1 DEF Shown, Group
<1>5. QED BY <1>1, <1>2, <1>3, <1>4, OneRowStep

LEMMA MoveOrder ==
    ASSUME OrderInv, IInv', NEW i \in Item, NEW anchor \in Item, NEW after \in BOOLEAN,
           Move(i, anchor, after)
    PROVE  OrderInv'
<1>1. Placed(entry) /\ TieFree(entry, DOMAIN entry) /\ arranged \subseteq User
    BY DEF OrderInv
<1>2. /\ Seats(entry, entry', i, entry[i].owner, entry[i].pinned,
               LandingAt(entry, i, anchor, after))
      /\ i \in DOMAIN entry /\ ~entry'[i].dormant
    BY <1>1, MoveSeats DEF SameMarks
<1>3. arranged' = arranged \cup {entry[i].owner} /\ UNCHANGED key
    BY DEF Move
<1>4. entry[i].owner \in User
    BY <1>1, <1>2 DEF Placed, Table, IsEntry
<1>5. /\ arranged \subseteq arranged' /\ arranged' \subseteq User
      /\ entry[i].owner \in arranged'
    BY <1>1, <1>3, <1>4
<1>6. QED BY <1>2, <1>3, <1>5, HumanOrder

LEMMA PinOrder ==
    ASSUME OrderInv, IInv', NEW i \in Item, NEW byOwner \in BOOLEAN, Pin(i, byOwner)
    PROVE  OrderInv'
<1>1. Placed(entry) /\ TieFree(entry, DOMAIN entry) /\ arranged \subseteq User
    BY DEF OrderInv
<1>2. UNCHANGED <<key, arranged>>
    BY DEF Pin
<1>3. Seats(entry, entry', i, entry[i].owner, TRUE, Last) /\ ~entry'[i].dormant
    BY <1>1, PinSeats
<1>4. \E p : p /\ Seats(entry, entry', i, entry[i].owner, p, Last)
    BY <1>3, Zenon
<1>5. QED BY <1>1, <1>2, <1>3, <1>4, HumanOrder

LEMMA UnpinOrder ==
    ASSUME OrderInv, IInv', NEW i \in Item, NEW byOwner \in BOOLEAN, Unpin(i, byOwner)
    PROVE  OrderInv'
<1>1. Placed(entry) /\ TieFree(entry, DOMAIN entry) /\ arranged \subseteq User
    BY DEF OrderInv
<1>2. UNCHANGED <<key, arranged>>
    BY DEF Unpin
<1>3. ByDefault(entry, entry', key, i, entry[i].owner) /\ ~entry'[i].dormant
    BY <1>1, UnpinSeats
<1>4. \E p, x : Seats(entry, entry', i, entry[i].owner, p, x)
    BY <1>3, Zenon DEF ByDefault
<1>5. QED BY <1>1, <1>2, <1>3, <1>4, HumanOrder

LEMMA DriftOrder ==
    ASSUME OrderInv, IInv', NEW i \in Item, NEW k \in Key, Drift(i, k)
    PROVE  OrderInv'
<1>1. /\ Placed(entry) /\ TieFree(entry, DOMAIN entry) /\ key \in [Item -> Key]
      /\ arranged \subseteq User /\ HiddenArranged
    BY DEF OrderInv
<1>2. /\ key' = [key EXCEPT ![i] = k] /\ entry' = entry
      /\ arranged' = arranged \cup {u \in User : i \in DOMAIN entry /\ entry[i].owner = u}
    BY DEF Drift
<1>3. /\ key' \in [Item -> Key] /\ \A j \in Item \ {i} : key'[j] = key[j]
      /\ arranged \subseteq arranged' /\ arranged' \subseteq User
    BY <1>1, <1>2
<1>4. \A u \in User \ arranged' : i \notin Shown(entry', u, FALSE)
    BY <1>2 DEF Shown, Group
<1>5. i \in DOMAIN entry' /\ entry'[i].dormant => entry'[i].owner \in arranged'
    BY <1>1, <1>2, <1>3 DEF HiddenArranged
<1>6. OthersKept(entry, entry', i) /\ Placed(entry') /\ TieFree(entry', DOMAIN entry')
    BY <1>1, <1>2, SameIsKept
<1>7. QED BY <1>3, <1>4, <1>5, <1>6, OneRowStep

LEMMA OrderStep == OrderInv /\ [Next]_vars => OrderInv'
<1> SUFFICES ASSUME OrderInv, [Next]_vars PROVE OrderInv'
    OBVIOUS
<1>1. IInv'
    BY EntriesStep DEF OrderInv
<1>2. CASE Next
    BY <1>1, <1>2, UpdateOrder, DriftOrder, MoveOrder, PinOrder, UnpinOrder DEF Next
<1>3. CASE UNCHANGED vars
    <2>1. entry' = entry /\ key' = key /\ arranged' = arranged
        BY <1>3 DEF vars
    <2>2. HiddenArranged' /\ UnarrangedIsSorted'
        BY <2>1 DEF OrderInv, HiddenArranged, UnarrangedIsSorted
    <2>3. QED BY <1>1, <2>1, <2>2 DEF OrderInv
<1>4. QED BY <1>2, <1>3

\* Assignees, phases, keys and the rows of the queues have their types.
THEOREM QueueTypeCorrect == Spec => []TypeOK
<1>1. OrderInv => TypeOK
    <2> SUFFICES ASSUME OrderInv PROVE TypeOK
        OBVIOUS
    <2>1. \A j \in DOMAIN entry : entry[j] \in Entry
        BY DEF OrderInv, Placed, Table, IsEntry, Entry
    <2>2. entry \in [DOMAIN entry -> Entry]
        BY <2>1 DEF OrderInv, Placed, Table
    <2>3. QED BY <2>2 DEF TypeOK, OrderInv, IInv
<1>2. QED BY <1>1, OrderStart, OrderStep, PTL DEF Spec

\* For any number of rows and any POSITION_STEP above 1, after any sequence of
\* requests and however often midpoints run out: no two rows of a group share
\* a position, so the order never falls back on the tie-break.
THEOREM PositionsNeverTie == Spec => []NoTies
<1>1. OrderInv => NoTies
    BY DEF OrderInv, TieFree, Mates, NoTies
<1>2. QED BY <1>1, OrderStart, OrderStep, PTL DEF Spec

\* FR-37, FR-39: a queue that nobody arranged shows its rest in the order of
\* the default rule, whatever was assigned, reprioritized, pinned and unpinned.
THEOREM UnarrangedQueuesSorted == Spec => []UnarrangedIsSorted
<1>1. OrderInv => UnarrangedIsSorted
    BY DEF OrderInv
<1>2. QED BY <1>1, OrderStart, OrderStep, PTL DEF Spec

(***************************************************************************)
(* Where a drop lands                                                      *)
(***************************************************************************)
\* The rows of G below the anchor.
Under(e, G, anchor) == {j \in G : Above(e, anchor, j)}

\* No row of G stands between i and the anchor.
Level(f, G, i, anchor) == \A j \in G : Above(f, j, i) <=> Above(f, j, anchor)

LEMMA SeatedBeside ==
    ASSUME NEW e, Placed(e), TieFree(e, DOMAIN e), NEW f, NEW i \in Item, NEW o, NEW p,
           NEW G \in SUBSET (Group(e, o, p) \ {i}), NEW anchor \in G,
           NEW x \in G \cup {Last}, Seats(e, f, i, o, p, x)
    PROVE  /\ IsFirst(e, Under(e, G, anchor), x) =>
                 Above(f, anchor, i) /\ Level(f, G \ {anchor}, i, anchor)
           /\ x = anchor =>
                 ~Above(f, anchor, i) /\ Level(f, G \ {anchor}, i, anchor)
<1>1. Placed(f) /\ OthersKept(e, f, i) /\ i \in DOMAIN f
    BY DEF Seats
<1>2. \A j \in G : /\ j \in DOMAIN e \ {i} /\ j \in DOMAIN f
                   /\ j \in Nat /\ j # Last
                   /\ e[j].position \in Int /\ f[j].position \in Int
    BY <1>1, LastIsNoItem DEF Group, Placed, OthersKept, OthersSame
<1>3. \A a, b \in G : Mates(e, a, b)
    BY DEF Group, Mates
<1>4. \A a, b \in G : Above(f, a, b) <=> Above(e, a, b)
    BY <1>1, <1>2, <1>3, KeptAbove
<1>5. \A a, b \in G : a # b => e[a].position # e[b].position
    BY <1>2, <1>3 DEF TieFree
<1>6. f[i].position \in Int /\ i \in Nat
    BY <1>1, LastIsNoItem DEF Placed
<1>7. \A j \in G :
         /\ Upper(e, j, x) => f[j].position < f[i].position
         /\ ~Upper(e, j, x) => f[i].position < f[j].position
    BY DEF Seats
<1>8. \A j \in G : Above(f, j, i) <=> Upper(e, j, x)
    BY <1>2, <1>6, <1>7 DEF Above
<1>9. ASSUME IsFirst(e, Under(e, G, anchor), x)
      PROVE  Above(f, anchor, i) /\ Level(f, G \ {anchor}, i, anchor)
    <2> DEFINE S == {j \in G : Above(e, anchor, j)}
    <2>1. IsFirst(e, S, x)
        BY <1>9 DEF Under
    <2>2. Upper(e, anchor, x)
        <3>1. CASE x = Last
            BY <3>1 DEF Upper
        <3>2. CASE x # Last
            <4>1. x \in G /\ Above(e, anchor, x) /\ x # anchor
                BY <1>2, <2>1, <3>2 DEF IsFirst, Above
            <4>2. QED BY <1>2, <1>5, <4>1 DEF Above, Upper
        <3>3. QED BY <3>1, <3>2
    <2>3. ASSUME NEW j \in G \ {anchor} PROVE Upper(e, j, x) <=> Above(e, j, anchor)
        <3>1. e[j].position # e[anchor].position /\ e[j].position \in Int
              /\ e[anchor].position \in Int
            BY <1>2, <1>5
        <3>2. CASE Above(e, j, anchor)
            <4>1. e[j].position < e[anchor].position
                BY <3>1, <3>2 DEF Above
            <4>2. x = Last \/ (x \in G /\ e[anchor].position < e[x].position)
                BY <2>2 DEF Upper
            <4>3. QED BY <1>2, <3>1, <3>2, <4>1, <4>2 DEF Upper
        <3>3. CASE ~Above(e, j, anchor)
            <4>1. j \in S
                BY <3>1, <3>3 DEF Above
            <4>2. x \in S /\ (j = x \/ Above(e, x, j))
                BY <2>1, <4>1 DEF IsFirst
            <4>3. ~Upper(e, j, x)
                BY <1>2, <4>2 DEF Upper, Above
            <4>4. QED BY <3>3, <4>3
        <3>4. QED BY <3>2, <3>3
    <2>4. QED BY <1>4, <1>8, <2>2, <2>3 DEF Level
<1>10. ASSUME x = anchor
       PROVE  ~Above(f, anchor, i) /\ Level(f, G \ {anchor}, i, anchor)
    <2>1. x = anchor /\ x # Last
        BY <1>2, <1>10
    <2>2. ~Above(f, anchor, i)
        BY <1>2, <1>8, <2>1 DEF Upper
    <2>3. \A j \in G \ {anchor} : Upper(e, j, x) <=> Above(e, j, anchor)
        BY <1>2, <1>5, <2>1 DEF Upper, Above
    <2>4. QED BY <1>4, <1>8, <2>2, <2>3 DEF Level
<1>11. QED BY <1>9, <1>10

LEMMA DropsBeside ==
    ASSUME OrderInv, NEW i \in Item, NEW anchor \in Item \ {i}, NEW after \in BOOLEAN,
           Move(i, anchor, after)
    PROVE  /\ after <=> Above(entry', anchor, i)
           /\ Level(entry', Shown(entry', entry'[i].owner, entry'[i].pinned) \ {i, anchor},
                    i, anchor)
<1> DEFINE o == entry[i].owner
           p == entry[i].pinned
           G == Shown(entry, o, p) \ {i}
           x == LandingAt(entry, i, anchor, after)
<1>1. Placed(entry) /\ TieFree(entry, DOMAIN entry)
    BY DEF OrderInv
<1>2. /\ anchor \in G
      /\ Seats(entry, entry', i, o, p, x)
      /\ SameMarks(entry[i], entry'[i])
      /\ x \in G \cup {Last}
      /\ after => IsFirst(entry, Under(entry, G, anchor), x)
      /\ ~after => x = anchor
    BY <1>1, MoveSeats DEF Under
<1>3. G \in SUBSET (Group(entry, o, p) \ {i})
    BY DEF Shown
<1>4. entry'[i].owner = o /\ entry'[i].pinned = p /\ OthersKept(entry, entry', i)
    BY <1>2 DEF Seats
<1>5. Shown(entry', o, p) \ {i} = G
    BY <1>4, KeptGroups
<1>6. Shown(entry', entry'[i].owner, entry'[i].pinned) \ {i, anchor} = G \ {anchor}
    BY <1>4, <1>5
<1> HIDE DEF G, x
<1>7. /\ IsFirst(entry, Under(entry, G, anchor), x) =>
            Above(entry', anchor, i) /\ Level(entry', G \ {anchor}, i, anchor)
      /\ x = anchor =>
            ~Above(entry', anchor, i) /\ Level(entry', G \ {anchor}, i, anchor)
    BY <1>1, <1>2, <1>3, SeatedBeside
<1>8. QED BY <1>2, <1>6, <1>7

\* FR-38: for any queue, whatever was hidden, renumbered or pinned in it, an
\* item dropped on another ends up right beside it, on the side asked for.
THEOREM DropsLandBeside == Spec => DropLandsBeside
<1>1. OrderInv /\ [Next]_vars =>
         [\A i, anchor \in Item, after \in BOOLEAN :
            Move(i, anchor, after) /\ anchor # i =>
                /\ after <=> Above(entry', anchor, i)
                /\ \A j \in Shown(entry', entry'[i].owner, entry'[i].pinned) \ {i, anchor} :
                      Above(entry', j, i) <=> Above(entry', j, anchor)]_vars
    BY DropsBeside DEF Level
<1>2. QED BY <1>1, OrderStart, OrderStep, PTL DEF Spec, DropLandsBeside

(***************************************************************************)
(* The order a queue promises                                              *)
(***************************************************************************)
\* What QueueOrder sees of the rows e.
Owners(e)   == [i \in DOMAIN e |-> e[i].owner]
Pins(e)     == {i \in DOMAIN e : e[i].pinned}
Sleepers(e) == {i \in DOMAIN e : e[i].dormant}
Orders(e)   == {q \in (DOMAIN e) \X (DOMAIN e) :
                   /\ e[q[1]].owner = e[q[2]].owner
                   /\ e[q[1]].pinned = e[q[2]].pinned
                   /\ Above(e, q[1], q[2])}

\* QueueOrder's Landing, on rows.
LandsIn(e, i, G, x) ==
    LET upper == IF x = Last THEN G ELSE {j \in G : <<j, x>> \in Orders(e)}
    IN  {q \in Orders(e) : q[1] # i /\ q[2] # i}
            \cup {<<j, i>> : j \in upper} \cup {<<i, j>> : j \in G \ upper}

LEMMA InOrders ==
    ASSUME NEW e, NEW a, NEW b
    PROVE  <<a, b>> \in Orders(e) <=>
               a \in DOMAIN e /\ b \in DOMAIN e /\ Mates(e, a, b) /\ Above(e, a, b)
    BY DEF Orders, Mates

LEMMA OrdersArePairs ==
    ASSUME NEW e, NEW q \in Orders(e)
    PROVE  q = <<q[1], q[2]>>
    BY DEF Orders

LEMMA SeatsLands ==
    ASSUME NEW e, Placed(e), TieFree(e, DOMAIN e), NEW f, NEW i \in Item, NEW o, NEW p,
           NEW x, Seats(e, f, i, o, p, x)
    PROVE  Orders(f) = LandsIn(e, i, Group(e, o, p) \ {i}, x)
<1> DEFINE G == Group(e, o, p) \ {i}
           U == IF x = Last THEN G ELSE {j \in G : <<j, x>> \in Orders(e)}
<1>1. /\ Placed(f) /\ OthersKept(e, f, i) /\ DOMAIN f = DOMAIN e \cup {i}
      /\ f[i].owner = o /\ f[i].pinned = p /\ x \in G \cup {Last}
    BY DEF Seats
<1>2. \A j \in DOMAIN e \ {i} :
         /\ j \in Nat /\ j # Last
         /\ e[j].position \in Int /\ f[j].position \in Int
         /\ f[j].owner = e[j].owner /\ f[j].pinned = e[j].pinned
    BY <1>1, LastIsNoItem DEF Placed, OthersKept, OthersSame, SameMarks
<1>3. f[i].position \in Int /\ i \in Nat
    BY <1>1, LastIsNoItem DEF Placed
<1>4. \A j \in DOMAIN e \ {i} : j \in G <=> Mates(f, j, i)
    BY <1>1, <1>2 DEF Group, Mates
<1>5. \A j \in G : j \in DOMAIN e \ {i} /\ e[j].owner = o /\ e[j].pinned = p
    BY DEF Group
<1>6. \A j \in G :
         /\ Upper(e, j, x) => f[j].position < f[i].position
         /\ ~Upper(e, j, x) => f[i].position < f[j].position
    BY DEF Seats
<1>7. \A j \in G : Upper(e, j, x) <=> j \in U
    <2>1. CASE x = Last
        BY <2>1 DEF Upper
    <2>2. CASE x # Last
        <3>1. x \in G
            BY <1>1, <2>2
        <3>2. ASSUME NEW j \in G PROVE <<j, x>> \in Orders(e) <=> e[j].position < e[x].position
            <4>1. /\ Mates(e, j, x) /\ j \in DOMAIN e /\ x \in DOMAIN e
                  /\ e[j].position \in Int /\ e[x].position \in Int /\ j \in Nat /\ x \in Nat
                BY <1>2, <1>5, <3>1 DEF Mates
            <4>2. j # x => e[j].position # e[x].position
                BY <4>1 DEF TieFree
            <4>3. QED BY <4>1, <4>2, InOrders DEF Above
        <3>3. QED BY <2>2, <3>2 DEF Upper
    <2>3. QED BY <2>1, <2>2
<1> HIDE DEF G, U
<1>8. \A j \in G : Above(f, j, i) <=> j \in U
    BY <1>2, <1>3, <1>5, <1>6, <1>7 DEF Above
<1>9. \A j \in G : Above(f, i, j) <=> j \notin U
    BY <1>2, <1>3, <1>5, <1>6, <1>7 DEF Above
<1>10. U \subseteq G
    BY DEF U
<1>11. ASSUME NEW a, NEW b
       PROVE  <<a, b>> \in Orders(f) <=>
                  \/ <<a, b>> \in Orders(e) /\ a # i /\ b # i
                  \/ b = i /\ a \in U
                  \/ a = i /\ b \in G \ U
    <2>1. CASE a # i /\ b # i
        <3>1. CASE a \in DOMAIN e /\ b \in DOMAIN e
            <4>1. a \in DOMAIN e \ {i} /\ b \in DOMAIN e \ {i}
                BY <2>1, <3>1
            <4>2. Mates(f, a, b) <=> Mates(e, a, b)
                BY <1>2, <4>1 DEF Mates
            <4>3. Mates(e, a, b) => (Above(f, a, b) <=> Above(e, a, b))
                BY <1>1, <4>1, KeptAbove
            <4>4. QED BY <1>1, <2>1, <3>1, <4>2, <4>3, InOrders
        <3>2. CASE ~(a \in DOMAIN e /\ b \in DOMAIN e)
            BY <1>1, <2>1, <3>2, InOrders
        <3>3. QED BY <3>1, <3>2
    <2>2. CASE a # i /\ b = i
        BY <1>1, <1>4, <1>5, <1>8, <1>10, <2>2, InOrders
    <2>3. CASE a = i /\ b # i
        <3>1. Mates(f, i, b) <=> Mates(f, b, i)
            BY DEF Mates
        <3>2. QED BY <1>1, <1>4, <1>5, <1>9, <1>10, <2>3, <3>1, InOrders
    <2>4. CASE a = i /\ b = i
        <3>1. ~Above(f, i, i)
            BY <1>3 DEF Above
        <3>2. i \notin G
            BY <1>5
        <3>3. QED BY <1>10, <2>4, <3>1, <3>2, InOrders
    <2>5. QED BY <2>1, <2>2, <2>3, <2>4
<1>12. LandsIn(e, i, G, x) = {q \in Orders(e) : q[1] # i /\ q[2] # i}
                                \cup {<<j, i>> : j \in U} \cup {<<i, j>> : j \in G \ U}
    BY DEF LandsIn, U
<1>13. ASSUME NEW q PROVE q \in Orders(f) <=> q \in LandsIn(e, i, G, x)
    <2>1. CASE q = <<q[1], q[2]>>
        BY <1>11, <1>12, <2>1
    <2>2. CASE q # <<q[1], q[2]>>
        <3>1. q \notin Orders(f) /\ q \notin Orders(e)
            BY <2>2, OrdersArePairs
        <3>2. q \notin {<<j, i>> : j \in U} /\ q \notin {<<i, j>> : j \in G \ U}
            BY <2>2
        <3>3. QED BY <1>12, <3>1, <3>2
    <2>3. QED BY <2>1, <2>2
<1>14. QED BY <1>13 DEF G

OwnersWith(e, i, o) ==
    [j \in DOMAIN Owners(e) \cup {i} |-> IF j = i THEN o ELSE Owners(e)[j]]

LEMMA KeptSees ==
    ASSUME NEW e, NEW f, NEW i, OthersKept(e, f, i), i \in DOMAIN f
    PROVE  /\ Owners(f) = OwnersWith(e, i, f[i].owner)
           /\ f[i].pinned => Pins(f) = Pins(e) \cup {i}
           /\ ~f[i].pinned => Pins(f) = Pins(e) \ {i}
           /\ f[i].dormant => Sleepers(f) = Sleepers(e) \cup {i}
           /\ ~f[i].dormant => Sleepers(f) = Sleepers(e) \ {i}
<1>1. /\ DOMAIN f = DOMAIN e \cup {i}
      /\ \A j \in DOMAIN e \ {i} : /\ f[j].owner = e[j].owner
                                   /\ f[j].pinned = e[j].pinned
                                   /\ f[j].dormant = e[j].dormant
    BY DEF OthersKept, OthersSame, SameMarks
<1>2. Owners(f) = OwnersWith(e, i, f[i].owner)
    BY <1>1 DEF Owners, OwnersWith
<1>3. /\ f[i].pinned => Pins(f) = Pins(e) \cup {i}
      /\ ~f[i].pinned => Pins(f) = Pins(e) \ {i}
    BY <1>1 DEF Pins
<1>4. /\ f[i].dormant => Sleepers(f) = Sleepers(e) \cup {i}
      /\ ~f[i].dormant => Sleepers(f) = Sleepers(e) \ {i}
    BY <1>1 DEF Sleepers
<1>5. QED BY <1>2, <1>3, <1>4

\* A row already there keeps its owner.
LEMMA SameOwners ==
    ASSUME NEW e, NEW f, NEW i \in DOMAIN e, OthersKept(e, f, i), i \in DOMAIN f,
           f[i].owner = e[i].owner
    PROVE  Owners(f) = Owners(e)
<1>1. DOMAIN f = DOMAIN e /\ \A j \in DOMAIN e : f[j].owner = e[j].owner
    BY DEF OthersKept, OthersSame, SameMarks
<1>2. QED BY <1>1 DEF Owners

\* A mark changes no order.
LEMMA MarkedOrders ==
    ASSUME NEW e, NEW f, NEW i \in DOMAIN e, Marked(e, f, i),
           f[i].owner = e[i].owner, f[i].pinned = e[i].pinned
    PROVE  Orders(f) = Orders(e)
<1>1. DOMAIN f = DOMAIN e
    BY DEF Marked
<1>2. \A j \in DOMAIN e : /\ f[j].owner = e[j].owner /\ f[j].pinned = e[j].pinned
                          /\ f[j].position = e[j].position
    BY DEF Marked
<1>3. QED BY <1>1, <1>2 DEF Orders, Above

LEMMA WithoutOrders ==
    ASSUME NEW e, NEW i, NEW f, f = Without(e, i)
    PROVE  Orders(f) = {q \in Orders(e) : q[1] # i /\ q[2] # i}
<1>1. DOMAIN f = DOMAIN e \ {i} /\ \A j \in DOMAIN f : f[j] = e[j]
    BY DEF Without
<1>2. QED BY <1>1 DEF Orders, Above

LEMMA OrderSees ==
    ASSUME Placed(entry), NEW o
    PROVE  /\ Order!Group(o, FALSE) = Group(entry, o, FALSE)
           /\ Order!Group(o, TRUE) = Group(entry, o, TRUE)
           /\ Order!Shown(o, FALSE) = Shown(entry, o, FALSE)
<1>1. \A j \in DOMAIN entry : entry[j].pinned \in BOOLEAN
    BY DEF Placed, Table, IsEntry
<1>2. Order!Group(o, FALSE) = Group(entry, o, FALSE)
    BY <1>1 DEF Order!Group, Group
<1>3. Order!Group(o, TRUE) = Group(entry, o, TRUE)
    BY <1>1 DEF Order!Group, Group
<1>4. Order!Shown(o, FALSE) = Order!Group(o, FALSE) \ Sleepers(entry)
    BY DEF Order!Shown, Sleepers
<1>5. QED BY <1>2, <1>3, <1>4 DEF Shown, Group, Sleepers

LEMMA OrderLanding ==
    ASSUME NEW i, NEW G, NEW x
    PROVE  Order!Landing(i, G, x) = LandsIn(entry, i, G, x)
    BY DEF Order!Landing, Order!Without, LandsIn, Orders

LEMMA LandStep ==
    ASSUME Placed(entry), TieFree(entry, DOMAIN entry), NEW i \in Item, NEW o \in User, NEW x,
           Seats(entry, entry', i, o, FALSE, x), ~entry'[i].dormant,
           x = Last \/ x \in Shown(entry, o, FALSE) \ {i}
    PROVE  Order!Next
<1>1. OthersKept(entry, entry', i) /\ i \in DOMAIN entry' /\ entry'[i].owner = o
      /\ ~entry'[i].pinned
    BY DEF Seats
<1>2. Orders(entry') = LandsIn(entry, i, Group(entry, o, FALSE) \ {i}, x)
    <2>1. PICK p : p = FALSE /\ Seats(entry, entry', i, o, p, x)
        OBVIOUS
    <2>2. Orders(entry') = LandsIn(entry, i, Group(entry, o, p) \ {i}, x)
        BY <2>1, SeatsLands
    <2>3. QED BY <2>1, <2>2
<1>3. /\ Owners(entry') = OwnersWith(entry, i, o)
      /\ Pins(entry') = Pins(entry) \ {i} /\ Sleepers(entry') = Sleepers(entry) \ {i}
    BY <1>1, KeptSees
<1>4. Order!Land(i, o, x)
    BY <1>2, <1>3, OrderSees, OrderLanding 
        DEF Order!Land, Owners, OwnersWith, Pins, Sleepers, Orders
<1>5. x \in Item \cup {Last}
    BY DEF Placed, Shown, Group
<1>6. QED BY <1>4, <1>5 DEF Order!Next

LEMMA ReorderPinStep ==
    ASSUME Placed(entry), TieFree(entry, DOMAIN entry), NEW i \in Item, i \in DOMAIN entry,
           entry[i].pinned, ~entry[i].dormant, SameMarks(entry[i], entry'[i]),
           NEW x, Seats(entry, entry', i, entry[i].owner, TRUE, x)
    PROVE  Order!Next
<1>0. PICK o : o = entry[i].owner
    OBVIOUS
<1>1. /\ OthersKept(entry, entry', i) /\ i \in DOMAIN entry' /\ entry'[i].owner = o
      /\ entry'[i].pinned /\ ~entry'[i].dormant /\ x \in (Group(entry, o, TRUE) \ {i}) \cup {Last}
    BY <1>0 DEF Seats, SameMarks
<1>2. Orders(entry') = LandsIn(entry, i, Group(entry, o, TRUE) \ {i}, x)
    <2>1. PICK p : p = TRUE /\ Seats(entry, entry', i, o, p, x)
        BY <1>0
    <2>2. Seats(entry, entry', i, o, p, x)
        BY <2>1
    <2>3. Orders(entry') = LandsIn(entry, i, Group(entry, o, p) \ {i}, x)
        BY <2>2, SeatsLands
    <2>4. QED BY <2>1, <2>3
<1>3. i \in Pins(entry) /\ i \notin Sleepers(entry)
    BY DEF Pins, Sleepers
<1>4. /\ Owners(entry') = Owners(entry) /\ Owners(entry)[i] = o
      /\ Pins(entry') = Pins(entry) /\ Sleepers(entry') = Sleepers(entry)
    <2>1. Owners(entry') = Owners(entry) /\ Owners(entry)[i] = o
        BY <1>0, <1>1, SameOwners DEF Owners
    <2>2. Pins(entry') = Pins(entry) \cup {i} /\ Sleepers(entry') = Sleepers(entry) \ {i}
        BY <1>1, KeptSees
    <2>3. QED BY <1>3, <2>1, <2>2
<1>5. Order!ReorderPin(i, x)
    BY <1>1, <1>2, <1>3, <1>4, OrderSees, OrderLanding
        DEF Order!ReorderPin, Owners, Pins, Sleepers, Orders
<1>6. x \in Item \cup {Last}
    BY <1>1 DEF Placed, Group
<1>7. QED BY <1>5, <1>6 DEF Order!Next

LEMMA OrderPinStep ==
    ASSUME Placed(entry), TieFree(entry, DOMAIN entry), NEW i \in Item, i \in DOMAIN entry,
           ~entry[i].pinned, ~entry[i].dormant, ~entry'[i].dormant,
           \A j \in DOMAIN entry : entry[j].dormant => ~entry[j].pinned,
           Cardinality(Shown(entry, entry[i].owner, TRUE)) < PinLimit,
           Seats(entry, entry', i, entry[i].owner, TRUE, Last)
    PROVE  Order!Next
<1>0. PICK o : o = entry[i].owner
    OBVIOUS
<1>1. /\ OthersKept(entry, entry', i) /\ i \in DOMAIN entry' /\ entry'[i].owner = o
      /\ entry'[i].pinned
    BY <1>0 DEF Seats
<1>2. Shown(entry, o, TRUE) = Group(entry, o, TRUE) /\ Group(entry, o, TRUE) \ {i} = Group(entry, o, TRUE)
    BY <1>0 DEF Shown, Group
<1>3. Orders(entry') = LandsIn(entry, i, Group(entry, o, TRUE), Last)
    <2>1. PICK p : p = TRUE /\ Seats(entry, entry', i, o, p, Last)
        BY <1>0
    <2>2. Seats(entry, entry', i, o, p, Last)
        BY <2>1
    <2>3. Orders(entry') = LandsIn(entry, i, Group(entry, o, p) \ {i}, Last)
        BY <2>2, SeatsLands
    <2>4. QED BY <1>2, <2>1, <2>3
<1>4. i \notin Pins(entry) /\ i \notin Sleepers(entry) /\ i \in DOMAIN Owners(entry)
    BY DEF Pins, Sleepers, Owners
<1>5. /\ Owners(entry') = Owners(entry) /\ Owners(entry)[i] = o
      /\ Pins(entry') = Pins(entry) \cup {i} /\ Sleepers(entry') = Sleepers(entry)
    <2>1. Owners(entry') = Owners(entry) /\ Owners(entry)[i] = o
        BY <1>0, <1>1, SameOwners DEF Owners
    <2>2. Pins(entry') = Pins(entry) \cup {i} /\ Sleepers(entry') = Sleepers(entry) \ {i}
        BY <1>1, KeptSees
    <2>3. QED BY <1>4, <2>1, <2>2
<1>6. Cardinality(Group(entry, o, TRUE)) < PinLimit
    BY <1>0, <1>2
<1>7. Order!Pin(i)
    <2>1. Cardinality(Order!Group(Owners(entry)[i], TRUE)) < PinLimit
        BY <1>5, <1>6, OrderSees
    <2>2. Orders(entry') = Order!Landing(i, Order!Group(Owners(entry)[i], TRUE), Last)
        BY <1>3, <1>5, OrderSees, OrderLanding
    <2>3. /\ i \in DOMAIN Owners(entry) \ (Pins(entry) \cup Sleepers(entry))
          /\ Pins(entry') = Pins(entry) \cup {i}
          /\ Owners(entry') = Owners(entry) /\ Sleepers(entry') = Sleepers(entry)
        BY <1>4, <1>5
    <2>4. \A S : Order!Cardinality(S) = Cardinality(S)
        BY Zenon DEF Order!Cardinality, Cardinality
    <2>5. QED BY <2>1, <2>2, <2>3, <2>4 DEF Order!Pin, Owners, Pins, Sleepers, Orders
<1>8. QED BY <1>7 DEF Order!Next

\* The first of a group, as QueueOrder chooses it.
LEMMA TopIsFirst ==
    ASSUME Placed(entry), NEW o, NEW p, NEW S \in SUBSET Group(entry, o, p),
           NEW x, IsFirst(entry, S, x)
    PROVE  Order!Top(S) = x
<1>1. CASE S = {}
    BY <1>1 DEF IsFirst, Order!Top
<1>2. CASE S # {}
    <2> DEFINE First0(t) == t \in S /\ \A j \in S : j # t => <<t, j>> \in Orders(entry)
               t0 == Order!Top(S)
    <2>1. \A a, b \in S : <<a, b>> \in Orders(entry) <=> Above(entry, a, b)
        BY InOrders DEF Group, Mates
    <2>2. \A a \in S : a \in Nat /\ entry[a].position \in Int
        BY LastIsNoItem DEF Group, Placed
    <2>3. First0(x)
        BY <1>2, <2>1 DEF IsFirst
    <2>4. t0 = CHOOSE t \in S : \A j \in S : j # t => <<t, j>> \in Orders(entry)
        BY <1>2 DEF Order!Top, Orders
    <2>5. First0(t0)
        <3> HIDE DEF t0
        <3>1. QED BY <2>3, <2>4, Zenon
    <2> HIDE DEF t0
    <2>6. CASE t0 # x
        <3>1. Above(entry, t0, x) /\ Above(entry, x, t0)
            BY <2>1, <2>3, <2>5, <2>6
        <3>2. QED BY <2>2, <2>3, <2>5, <3>1 DEF Above
    <2>7. QED BY <2>6 DEF t0
<1>3. QED BY <1>1, <1>2

LEMMA FinishStep ==
    ASSUME Placed(entry), TieFree(entry, DOMAIN entry), NEW i \in Item, NEW o, NEW s,
           Hidden(entry, entry', i, o, s) \/ PinHidden(entry, entry', i, o, s)
    PROVE  Order!Next
<1>1. i \in DOMAIN entry /\ entry[i].owner = o /\ ~entry[i].dormant
    BY DEF Hidden, PinHidden, Here
<1>2. i \notin Sleepers(entry) /\ i \in DOMAIN Owners(entry) /\ Owners(entry)[i] = o
    BY <1>1 DEF Sleepers, Owners
<1>3. CASE Hidden(entry, entry', i, o, s)
    <2>1. entry' = Asleep(entry, i) /\ ~entry[i].pinned
        BY <1>3 DEF Hidden
    <2>2. /\ Marked(entry, entry', i) /\ entry'[i].owner = o
          /\ entry'[i].pinned = entry[i].pinned /\ entry'[i].dormant
        BY <1>1, <2>1, MarkSet
    <2>3. OthersKept(entry, entry', i) /\ i \in DOMAIN entry'
        BY <1>1, <2>2, MarkedKept DEF Marked
    <2>4. i \notin Pins(entry)
        BY <2>1 DEF Pins
    <2>5. /\ Owners(entry') = Owners(entry) /\ Orders(entry') = Orders(entry)
          /\ Pins(entry') = Pins(entry) \ {i} /\ Sleepers(entry') = Sleepers(entry) \cup {i}
        <3>1. Owners(entry') = Owners(entry)
            BY <1>1, <2>2, <2>3, SameOwners
        <3>2. Orders(entry') = Orders(entry)
            BY <1>1, <2>2, MarkedOrders
        <3>3. Pins(entry') = Pins(entry) \ {i} /\ Sleepers(entry') = Sleepers(entry) \cup {i}
            BY <2>1, <2>2, <2>3, KeptSees
        <3>4. QED BY <3>1, <3>2, <3>3
    <2>6. Order!Finish(i)
        BY <1>2, <2>4, <2>5 DEF Order!Finish, Owners, Pins, Sleepers, Orders
    <2>7. QED BY <2>6 DEF Order!Next
<1>4. CASE PinHidden(entry, entry', i, o, s)
    <2>1. PICK x : /\ IsFirst(entry, Shown(entry, o, FALSE) \ {i}, x)
                   /\ Seats(entry, entry', i, o, FALSE, x)
        BY <1>4 DEF PinHidden, ToTheTop
    <2>2. entry'[i].dormant /\ entry[i].pinned
        BY <1>4 DEF PinHidden
    <2>3. /\ OthersKept(entry, entry', i) /\ i \in DOMAIN entry' /\ entry'[i].owner = o
          /\ ~entry'[i].pinned
        BY <2>1 DEF Seats
    <2>4. /\ Group(entry, o, FALSE) \ {i} = Group(entry, o, FALSE)
          /\ Shown(entry, o, FALSE) \ {i} = Shown(entry, o, FALSE)
        BY <2>2 DEF Shown, Group
    <2>5. Orders(entry') = LandsIn(entry, i, Group(entry, o, FALSE), x)
        <3>1. PICK p : p = FALSE /\ Seats(entry, entry', i, o, p, x)
            BY <2>1
        <3>2. Orders(entry') = LandsIn(entry, i, Group(entry, o, p) \ {i}, x)
            BY <3>1, SeatsLands
        <3>3. QED BY <2>4, <3>1, <3>2
    <2>6. Order!Top(Shown(entry, o, FALSE)) = x
        <3>1. PICK p : p = FALSE
            OBVIOUS
        <3>2. Shown(entry, o, p) \in SUBSET Group(entry, o, p)
            BY DEF Shown
        <3>3. IsFirst(entry, Shown(entry, o, p), x)
            BY <2>1, <2>4, <3>1
        <3>4. Order!Top(Shown(entry, o, p)) = x
            BY <3>2, <3>3, TopIsFirst
        <3>5. QED BY <3>1, <3>4
    <2>7. i \in Pins(entry)
        BY <1>1, <2>2 DEF Pins
    <2>8. /\ Owners(entry') = Owners(entry)
          /\ Pins(entry') = Pins(entry) \ {i} /\ Sleepers(entry') = Sleepers(entry) \cup {i}
        <3>1. Owners(entry') = Owners(entry)
            BY <1>1, <2>3, SameOwners
        <3>2. Pins(entry') = Pins(entry) \ {i} /\ Sleepers(entry') = Sleepers(entry) \cup {i}
            BY <2>2, <2>3, KeptSees
        <3>3. QED BY <3>1, <3>2
    <2>9. Order!Finish(i)
        BY <1>2, <2>5, <2>6, <2>7, <2>8, OrderSees, OrderLanding
            DEF Order!Finish, Owners, Pins, Sleepers, Orders
    <2>10. QED BY <2>9 DEF Order!Next
<1>5. QED BY <1>3, <1>4

LEMMA ReturnStep ==
    ASSUME Placed(entry), NEW i \in Item, NEW o, NEW s, Woken(entry, entry', i, o, s)
    PROVE  Order!Next
<1>1. i \in DOMAIN entry /\ entry[i].owner = o /\ entry[i].dormant /\ entry' = Awake(entry, i)
    BY DEF Woken, Here
<1>2. /\ Marked(entry, entry', i) /\ entry'[i].owner = entry[i].owner
      /\ entry'[i].pinned = entry[i].pinned /\ ~entry'[i].dormant
    BY <1>1, MarkSet
<1>3. OthersKept(entry, entry', i) /\ i \in DOMAIN entry'
    BY <1>1, <1>2, MarkedKept DEF Marked
<1>4. Owners(entry') = Owners(entry) /\ Orders(entry') = Orders(entry)
    BY <1>1, <1>2, <1>3, SameOwners, MarkedOrders
<1>5. Sleepers(entry') = Sleepers(entry) \ {i} /\ i \in Sleepers(entry)
    BY <1>1, <1>2, <1>3, KeptSees DEF Sleepers
<1>6. Pins(entry') = Pins(entry)
    BY <1>2 DEF Pins, Marked
<1>7. Order!Return(i)
    BY <1>4, <1>5, <1>6 DEF Order!Return, Owners, Pins, Sleepers, Orders
<1>8. QED BY <1>7 DEF Order!Next

LEMMA LeaveStep ==
    ASSUME Placed(entry), NEW i \in Item, entry' = Without(entry, i)
    PROVE  Order!Next \/ entry' = entry
<1>1. CASE i \notin DOMAIN entry
    BY <1>1, WithoutPlaced
<1>2. CASE i \in DOMAIN entry
    <2>1. /\ DOMAIN entry' = DOMAIN entry \ {i}
          /\ \A j \in DOMAIN entry' : entry'[j] = entry[j]
        BY DEF Without
    <2>2. Owners(entry') = [j \in DOMAIN Owners(entry) \ {i} |-> Owners(entry)[j]]
        BY <2>1 DEF Owners
    <2>3. Pins(entry') = Pins(entry) \ {i} /\ Sleepers(entry') = Sleepers(entry) \ {i}
        BY <2>1 DEF Pins, Sleepers
    <2>4. Orders(entry') = {q \in Orders(entry) : q[1] # i /\ q[2] # i}
        BY WithoutOrders
    <2>5. i \in DOMAIN Owners(entry)
        BY <1>2 DEF Owners
    <2>6. Order!Leave(i)
        BY <2>2, <2>3, <2>4, <2>5
            DEF Order!Leave, Order!Without, Owners, Pins, Sleepers, Orders
    <2>7. QED BY <2>6 DEF Order!Next
<1>3. QED BY <1>1, <1>2

LEMMA DefaultStep ==
    ASSUME Placed(entry), TieFree(entry, DOMAIN entry), NEW i \in Item, NEW o \in User, NEW k,
           ByDefault(entry, entry', k, i, o), ~entry'[i].dormant
    PROVE  Order!Next
<1>1. PICK x : /\ IsFirst(entry, Lower(entry, k, i, o), x)
               /\ Seats(entry, entry', i, o, FALSE, x)
    BY DEF ByDefault
<1>2. x = Last \/ x \in Shown(entry, o, FALSE) \ {i}
    BY <1>1 DEF IsFirst, Lower
<1>3. QED BY <1>1, <1>2, LandStep

LEMMA DragStep ==
    ASSUME Placed(entry), TieFree(entry, DOMAIN entry),
           NEW i \in Item, NEW anchor \in Item, NEW after \in BOOLEAN, Move(i, anchor, after)
    PROVE  Order!Next
<1> DEFINE o == entry[i].owner
           p == entry[i].pinned
           G == Shown(entry, o, p) \ {i}
           land == LandingAt(entry, i, anchor, after)
<1>1. i \in DOMAIN entry /\ ~entry[i].dormant
    BY DEF Move
<1>2. /\ Seats(entry, entry', i, o, p, land)
      /\ SameMarks(entry[i], entry'[i])
      /\ land \in G \cup {Last}
    BY MoveSeats DEF SameMarks
<1> HIDE DEF land
<1>3. PICK x : /\ Seats(entry, entry', i, entry[i].owner, entry[i].pinned, x)
               /\ x = Last \/ x \in Shown(entry, entry[i].owner, entry[i].pinned) \ {i}
    BY <1>2
<1>4. /\ entry[i].owner \in User /\ entry[i].pinned \in BOOLEAN
      /\ ~entry'[i].dormant
    BY <1>1, <1>2 DEF Placed, Table, IsEntry, SameMarks
<1>5. CASE entry[i].pinned = TRUE
    <2>1. Seats(entry, entry', i, entry[i].owner, TRUE, x)
        BY <1>3, <1>5
    <2>2. QED BY <1>1, <1>2, <1>5, <2>1, ReorderPinStep
<1>6. CASE entry[i].pinned = FALSE
    <2>1. /\ Seats(entry, entry', i, entry[i].owner, FALSE, x)
          /\ x = Last \/ x \in Shown(entry, entry[i].owner, FALSE) \ {i}
        BY <1>3, <1>6
    <2>2. QED BY <1>4, <2>1, LandStep
<1>7. QED BY <1>4, <1>5, <1>6

\* Every request is one step of the promised order, or none.
LEMMA OrderRefined == OrderInv /\ [Next]_vars => [Order!Next]_(Order!vars)
<1> SUFFICES ASSUME OrderInv, [Next]_vars PROVE Order!Next \/ entry' = entry
    BY DEF Order!vars
<1>1. Placed(entry) /\ TieFree(entry, DOMAIN entry)
    BY DEF OrderInv
<1>2. ASSUME NEW i \in Item, NEW o \in User \cup {NoUser}, NEW s \in Phase, NEW k \in Key,
             Update(i, o, s, k)
      PROVE  Order!Next \/ entry' = entry
    <2>1. Outcome(entry, entry', key', i, o, s, k # key[i])
        BY <1>1, <1>2, UpdateOutcome
    <2>2. CASE o \in User /\ NewPlace(entry, entry', key', i, o, s)
        BY <1>1, <2>2, DefaultStep DEF NewPlace
    <2>3. CASE Woken(entry, entry', i, o, s)
        BY <1>1, <2>3, ReturnStep
    <2>4. CASE Hidden(entry, entry', i, o, s) \/ PinHidden(entry, entry', i, o, s)
        BY <1>1, <2>4, FinishStep
    <2>5. CASE Removed(entry, entry', i, o, s)
        BY <1>1, <2>5, LeaveStep DEF Removed
    <2>6. QED BY <2>1, <2>2, <2>3, <2>4, <2>5 DEF Outcome, StaysShown, StaysHidden
<1>3. ASSUME NEW i \in Item, NEW anchor \in Item, NEW after \in BOOLEAN,
             Move(i, anchor, after)
      PROVE  Order!Next
    BY <1>1, <1>3, DragStep
<1>4. ASSUME NEW i \in Item, NEW byOwner \in BOOLEAN, Pin(i, byOwner) PROVE Order!Next
    <2>1. /\ i \in DOMAIN entry /\ ~entry[i].dormant /\ ~entry[i].pinned
          /\ Seats(entry, entry', i, entry[i].owner, TRUE, Last)
          /\ ~entry'[i].dormant
        BY <1>1, <1>4, PinSeats
    <2>2. Cardinality(Shown(entry, entry[i].owner, TRUE)) < PinLimit
        BY <1>4 DEF Pin
    <2>3. \A j \in DOMAIN entry : entry[j].dormant => ~entry[j].pinned
        BY DEF OrderInv, IInv, EntryMatchesItem
    <2>4. QED BY <1>1, <2>1, <2>2, <2>3, OrderPinStep
<1>5. ASSUME NEW i \in Item, NEW byOwner \in BOOLEAN, Unpin(i, byOwner) PROVE Order!Next
    <2>1. /\ i \in DOMAIN entry /\ ByDefault(entry, entry', key, i, entry[i].owner)
          /\ ~entry'[i].dormant
        BY <1>1, <1>5, UnpinSeats
    <2>2. entry[i].owner \in User
        BY <1>1, <2>1 DEF Placed, Table, IsEntry
    <2>3. QED BY <1>1, <2>1, <2>2, DefaultStep
<1>6. ASSUME NEW i \in Item, NEW k \in Key, Drift(i, k) PROVE entry' = entry
    BY <1>6 DEF Drift
<1>7. CASE Next
    BY <1>2, <1>3, <1>4, <1>5, <1>6, <1>7 DEF Next
<1>8. CASE UNCHANGED vars
    BY <1>8 DEF vars
<1>9. QED BY <1>7, <1>8

\* Midpoint positions implement the order a queue promises, for every set of
\* rows, every PIN_LIMIT and every step: each request moves one item, to the
\* place asked for; renumbering, hidden rows included, moves nothing.
THEOREM QueueImplementsOrder == Spec => ImplementsOrder
<1>1. Init => Order!Init
    <2> SUFFICES ASSUME Init PROVE Order!Init
        OBVIOUS
    <2>1. DOMAIN entry = {}
        BY DEF Init
    <2>2. Owners(entry) = [i \in {} |-> {}]
        BY <2>1 DEF Owners
    <2>3. Pins(entry) = {} /\ Sleepers(entry) = {} /\ Orders(entry) = {}
        BY <2>1 DEF Pins, Sleepers, Orders
    <2>4. QED BY <2>2, <2>3 DEF Order!Init, Owners, Pins, Sleepers, Orders
<1>2. QED BY <1>1, OrderStart, OrderStep, OrderRefined, PTL
          DEF Spec, ImplementsOrder, Order!Spec

(***************************************************************************)
(* The promise itself: landing an item anywhere keeps every group of       *)
(* QueueOrder in one strict total order, for any people and items.         *)
(***************************************************************************)
VARIABLES owner, pinned, dormant, above    \* of the promise, not of the rows

Promise == INSTANCE QueueOrder

PromiseTypes ==
    /\ owner = [j \in DOMAIN owner |-> owner[j]]
    /\ pinned \subseteq DOMAIN owner
    /\ above \subseteq (DOMAIN owner) \X (DOMAIN owner)

PromiseInv == PromiseTypes /\ Promise!GroupsOrdered

\* Item i lands in G, which is its new group without it: directly above x,
\* last, or, if x is nowhere in G, on top.
LEMMA LandingOrdered ==
    ASSUME PromiseInv, NEW i, NEW x, NEW G \in SUBSET (DOMAIN owner \ {i}),
           x \in G \cup {Last} \/ \A j \in G : <<j, x>> \notin above,
           \A a, b \in G : Promise!SameGroup(a, b),
           \A a \in G, b \in DOMAIN owner \ {i} : Promise!SameGroup(a, b) => b \in G,
           owner' = [j \in DOMAIN owner' |-> owner'[j]],
           DOMAIN owner' = DOMAIN owner \cup {i},
           pinned' \subseteq DOMAIN owner',
           \A a, b \in DOMAIN owner \ {i} : Promise!SameGroup(a, b)' = Promise!SameGroup(a, b),
           \A j \in DOMAIN owner \ {i} : Promise!SameGroup(i, j)' <=> j \in G,
           above' = Promise!Landing(i, G, x)
    PROVE  PromiseInv'
<1> DEFINE upper == IF x = Last THEN G ELSE {j \in G : <<j, x>> \in above}
           D == DOMAIN owner \ {i}
<1>1. /\ upper \subseteq G
      /\ above' = {q \in above : q[1] # i /\ q[2] # i}
                     \cup {<<j, i>> : j \in upper} \cup {<<i, j>> : j \in G \ upper}
    BY DEF Promise!Landing, Promise!Without
<1>2. \A a \in upper, b \in G : <<b, a>> \in above => b \in upper
    BY DEF PromiseInv, Promise!GroupsOrdered
<1>3. \A a \in upper, b \in G \ upper : <<a, b>> \in above
    BY DEF PromiseInv, Promise!GroupsOrdered
<1> HIDE DEF upper
<1>4. /\ \A a, b \in D : <<a, b>> \in above' <=> <<a, b>> \in above
      /\ \A a \in D : <<a, i>> \in above' <=> a \in upper
      /\ \A a \in D : <<i, a>> \in above' <=> a \in G \ upper
      /\ <<i, i>> \notin above'
    BY <1>1
<1>5. PromiseTypes'
    BY <1>1 DEF PromiseInv, PromiseTypes
<1>6. \A a, b \in D : Promise!SameGroup(a, b)' <=> Promise!SameGroup(b, a)'
    BY DEF Promise!SameGroup
<1>7. \A a \in D : Promise!SameGroup(a, i)' <=> a \in G
    BY DEF Promise!SameGroup
<1>8. ASSUME NEW a \in DOMAIN owner', NEW b \in DOMAIN owner'
      PROVE  /\ <<a, b>> \in above' => Promise!SameGroup(a, b)' /\ <<b, a>> \notin above'
             /\ a # b /\ Promise!SameGroup(a, b)' => <<a, b>> \in above' \/ <<b, a>> \in above'
    <2>1. CASE a \in D /\ b \in D
        BY <2>1, <1>4 DEF PromiseInv, Promise!GroupsOrdered
    <2>2. CASE a = i /\ b \in D
        BY <2>2, <1>1, <1>4
    <2>3. CASE a \in D /\ b = i
        BY <2>3, <1>1, <1>4, <1>7
    <2>4. CASE a = i /\ b = i
        BY <2>4, <1>4
    <2>5. QED BY <2>1, <2>2, <2>3, <2>4
<1>9. ASSUME NEW a \in DOMAIN owner', NEW b \in DOMAIN owner', NEW c \in DOMAIN owner',
             <<a, b>> \in above', <<b, c>> \in above'
      PROVE  <<a, c>> \in above'
    <2>1. CASE a \in D /\ b \in D /\ c \in D
        BY <2>1, <1>4, <1>9 DEF PromiseInv, Promise!GroupsOrdered
    <2>2. CASE b = i
        BY <2>2, <1>1, <1>3, <1>4, <1>9
    <2>3. CASE a = i /\ b \in D /\ c \in D
        <3>1. b \in G \ upper /\ <<b, c>> \in above
            BY <2>3, <1>4, <1>9
        <3>2. c \in G
            BY <2>3, <3>1 DEF PromiseInv, Promise!GroupsOrdered
        <3>3. c \notin upper
            BY <3>1, <3>2, <1>2
        <3>4. QED BY <2>3, <3>2, <3>3, <1>4
    <2>4. CASE a \in D /\ b \in D /\ c = i
        <3>1. b \in upper /\ <<a, b>> \in above
            BY <2>4, <1>4, <1>9
        <3>2. Promise!SameGroup(b, a)
            BY <2>4, <3>1 DEF PromiseInv, Promise!GroupsOrdered, Promise!SameGroup
        <3>3. a \in G
            BY <2>4, <3>1, <3>2, <1>1
        <3>4. QED BY <2>4, <3>1, <3>3, <1>2, <1>4
    <2>5. CASE a = i /\ b \in D /\ c = i
        BY <2>5, <1>4, <1>9
    <2>6. QED BY <2>1, <2>2, <2>3, <2>4, <2>5
<1>10. Promise!GroupsOrdered'
    BY <1>8, <1>9 DEF Promise!GroupsOrdered
<1>11. QED BY <1>5, <1>10 DEF PromiseInv

LEMMA LandOrdered ==
    ASSUME PromiseInv, NEW i \in Item, NEW o \in User, NEW x \in Item \cup {Last}, Promise!Land(i, o, x)
    PROVE  PromiseInv'
<1> DEFINE G == Promise!Group(o, FALSE) \ {i}
<1>1. /\ x = Last \/ x \in G
      /\ owner' = [j \in DOMAIN owner \cup {i} |-> IF j = i THEN o ELSE owner[j]]
      /\ pinned' = pinned \ {i}
      /\ above' = Promise!Landing(i, G, x)
    BY DEF Promise!Land, Promise!Shown
<1>2. \A j \in DOMAIN owner \ {i} : j \in G <=> owner[j] = o /\ j \notin pinned
    BY DEF Promise!Group
<1>3. /\ G \in SUBSET (DOMAIN owner \ {i})
      /\ \A a, b \in G : Promise!SameGroup(a, b)
      /\ \A a \in G, b \in DOMAIN owner \ {i} : Promise!SameGroup(a, b) => b \in G
    BY DEF Promise!Group, Promise!SameGroup
<1> HIDE DEF G
<1>4. /\ owner' = [j \in DOMAIN owner' |-> owner'[j]]
      /\ DOMAIN owner' = DOMAIN owner \cup {i}
      /\ pinned' \subseteq DOMAIN owner'
    BY <1>1 DEF PromiseInv, PromiseTypes
<1>5. \A a, b \in DOMAIN owner \ {i} : Promise!SameGroup(a, b)' = Promise!SameGroup(a, b)
    BY <1>1 DEF Promise!SameGroup
<1>6. \A j \in DOMAIN owner \ {i} : Promise!SameGroup(i, j)' <=> j \in G
    BY <1>1, <1>2 DEF Promise!SameGroup
<1>7. QED BY <1>1, <1>3, <1>4, <1>5, <1>6, LandingOrdered

LEMMA ReorderPinOrdered ==
    ASSUME PromiseInv, NEW i \in Item, NEW x \in Item \cup {Last}, Promise!ReorderPin(i, x)
    PROVE  PromiseInv'
<1> DEFINE G == Promise!Group(owner[i], TRUE) \ {i}
<1>1. /\ i \in pinned /\ i \in DOMAIN owner
      /\ x = Last \/ x \in G
      /\ above' = Promise!Landing(i, G, x)
      /\ UNCHANGED <<owner, pinned>>
    BY DEF Promise!ReorderPin, PromiseInv, PromiseTypes
<1>2. \A j \in DOMAIN owner \ {i} : j \in G <=> owner[j] = owner[i] /\ j \in pinned
    BY DEF Promise!Group
<1>3. /\ G \in SUBSET (DOMAIN owner \ {i})
      /\ \A a, b \in G : Promise!SameGroup(a, b)
      /\ \A a \in G, b \in DOMAIN owner \ {i} : Promise!SameGroup(a, b) => b \in G
    BY DEF Promise!Group, Promise!SameGroup
<1> HIDE DEF G
<1>4. /\ owner' = [j \in DOMAIN owner' |-> owner'[j]]
      /\ DOMAIN owner' = DOMAIN owner \cup {i}
      /\ pinned' \subseteq DOMAIN owner'
    BY <1>1 DEF PromiseInv, PromiseTypes
<1>5. \A a, b \in DOMAIN owner : Promise!SameGroup(a, b)' = Promise!SameGroup(a, b)
    BY <1>1 DEF Promise!SameGroup
<1>6. \A j \in DOMAIN owner \ {i} : Promise!SameGroup(i, j)' <=> j \in G
    BY <1>1, <1>2 DEF Promise!SameGroup
<1>7. QED BY <1>1, <1>3, <1>4, <1>5, <1>6, LandingOrdered

LEMMA PinOrdered ==
    ASSUME PromiseInv, NEW i \in Item, Promise!Pin(i)
    PROVE  PromiseInv'
<1> DEFINE G == Promise!Group(owner[i], TRUE)
<1>1. /\ i \in DOMAIN owner /\ i \notin pinned
      /\ pinned' = pinned \cup {i}
      /\ above' = Promise!Landing(i, G, Last)
      /\ UNCHANGED owner
    BY DEF Promise!Pin
<1>2. \A j \in DOMAIN owner \ {i} : j \in G <=> owner[j] = owner[i] /\ j \in pinned
    BY DEF Promise!Group
<1>3. /\ G \in SUBSET (DOMAIN owner \ {i})
      /\ \A a, b \in G : Promise!SameGroup(a, b)
      /\ \A a \in G, b \in DOMAIN owner \ {i} : Promise!SameGroup(a, b) => b \in G
    BY <1>1 DEF Promise!Group, Promise!SameGroup
<1> HIDE DEF G
<1>4. /\ owner' = [j \in DOMAIN owner' |-> owner'[j]]
      /\ DOMAIN owner' = DOMAIN owner \cup {i}
      /\ pinned' \subseteq DOMAIN owner'
    BY <1>1 DEF PromiseInv, PromiseTypes
<1>5. \A a, b \in DOMAIN owner \ {i} : Promise!SameGroup(a, b)' = Promise!SameGroup(a, b)
    BY <1>1 DEF Promise!SameGroup
<1>6. \A j \in DOMAIN owner \ {i} : Promise!SameGroup(i, j)' <=> j \in G
    BY <1>1, <1>2 DEF Promise!SameGroup
<1>7. QED BY <1>1, <1>3, <1>4, <1>5, <1>6, LandingOrdered

\* Whatever Top answers, a finished pin lands in the rest of its queue.
LEMMA FinishOrdered ==
    ASSUME PromiseInv, NEW i \in Item, Promise!Finish(i)
    PROVE  PromiseInv'
<1> DEFINE G == Promise!Group(owner[i], FALSE)
           x == Promise!Top(Promise!Shown(owner[i], FALSE))
<1>1. /\ i \in DOMAIN owner
      /\ pinned' = pinned \ {i}
      /\ i \in pinned => above' = Promise!Landing(i, G, x)
      /\ i \notin pinned => above' = above
      /\ UNCHANGED owner
    BY DEF Promise!Finish
<1>2. CASE i \notin pinned
    <2>1. UNCHANGED <<owner, pinned, above>>
        BY <1>1, <1>2
    <2>2. QED BY <2>1 DEF PromiseInv, PromiseTypes, Promise!GroupsOrdered, Promise!SameGroup
<1>3. CASE i \in pinned
    <2>2. \A j \in DOMAIN owner \ {i} : j \in G <=> owner[j] = owner[i] /\ j \notin pinned
        BY DEF Promise!Group
    <2>3. /\ G \in SUBSET (DOMAIN owner \ {i})
          /\ \A a, b \in G : Promise!SameGroup(a, b)
          /\ \A a \in G, b \in DOMAIN owner \ {i} : Promise!SameGroup(a, b) => b \in G
          /\ \A a \in G : ~Promise!SameGroup(a, i)
        BY <1>3 DEF Promise!Group, Promise!SameGroup
    <2> HIDE DEF G, x
    <2>4. /\ owner' = [j \in DOMAIN owner' |-> owner'[j]]
          /\ DOMAIN owner' = DOMAIN owner \cup {i}
          /\ pinned' \subseteq DOMAIN owner'
        BY <1>1 DEF PromiseInv, PromiseTypes
    <2>5. \A a, b \in DOMAIN owner \ {i} : Promise!SameGroup(a, b)' = Promise!SameGroup(a, b)
        BY <1>1 DEF Promise!SameGroup
    <2>6. \A j \in DOMAIN owner \ {i} : Promise!SameGroup(i, j)' <=> j \in G
        BY <1>1, <2>2 DEF Promise!SameGroup
    <2>7. x \in G \/ \A j \in G : <<j, x>> \notin above
        <3>1. SUFFICES ASSUME NEW j \in G, <<j, x>> \in above PROVE x \in G
            OBVIOUS
        <3>2. x \in DOMAIN owner /\ Promise!SameGroup(j, x)
            BY <2>3, <3>1 DEF PromiseInv, PromiseTypes, Promise!GroupsOrdered
        <3>3. x # i
            BY <2>3, <3>2
        <3>4. QED BY <2>3, <3>2, <3>3
    <2>8. above' = Promise!Landing(i, G, x)
        BY <1>1, <1>3
    <2>9. QED BY <2>3, <2>4, <2>5, <2>6, <2>7, <2>8, LandingOrdered
<1>4. QED BY <1>2, <1>3

LEMMA LeaveOrdered ==
    ASSUME PromiseInv, NEW i \in Item, Promise!Leave(i)
    PROVE  PromiseInv'
<1>1. /\ owner' = [j \in DOMAIN owner \ {i} |-> owner[j]]
      /\ pinned' = pinned \ {i}
      /\ above' = {q \in above : q[1] # i /\ q[2] # i}
    BY DEF Promise!Leave, Promise!Without
<1>2. DOMAIN owner' = DOMAIN owner \ {i}
    BY <1>1
<1>3. \A a, b \in DOMAIN owner' :
        /\ Promise!SameGroup(a, b)' = Promise!SameGroup(a, b)
        /\ <<a, b>> \in above' <=> <<a, b>> \in above
    BY <1>1, <1>2 DEF Promise!SameGroup
<1>4. PromiseTypes'
    BY <1>1, <1>2 DEF PromiseInv, PromiseTypes
<1>5. Promise!GroupsOrdered'
    BY <1>2, <1>3 DEF PromiseInv, Promise!GroupsOrdered
<1>6. QED BY <1>4, <1>5 DEF PromiseInv

LEMMA OrderedUntouched ==
    ASSUME PromiseInv, UNCHANGED <<owner, pinned, above>>
    PROVE  PromiseInv'
<1>1. PromiseTypes'
    BY DEF PromiseInv, PromiseTypes
<1>2. Promise!GroupsOrdered'
    BY DEF PromiseInv, Promise!GroupsOrdered, Promise!SameGroup
<1>3. QED BY <1>1, <1>2 DEF PromiseInv

\* QueueOrder: whatever is assigned, dragged, pinned, finished, returned or
\* handed over, every group is in one strict total order, hidden items included:
\* ordered() has one answer, and a return has one place to come back to.
THEOREM EveryGroupOrdered == Promise!Spec => []Promise!GroupsOrdered
<1>1. Promise!Init => PromiseInv
    BY DEF Promise!Init, PromiseInv, PromiseTypes, Promise!GroupsOrdered
<1>2. PromiseInv /\ [Promise!Next]_(Promise!vars) => PromiseInv'
    <2> SUFFICES ASSUME PromiseInv, [Promise!Next]_(Promise!vars) PROVE PromiseInv'
        OBVIOUS
    <2>1. CASE Promise!Next
        <3>1. ASSUME NEW i \in Item, Promise!Return(i) PROVE PromiseInv'
            BY <3>1, OrderedUntouched DEF Promise!Return
        <3>2. QED
            BY <2>1, <3>1, LandOrdered, ReorderPinOrdered, PinOrdered, FinishOrdered,
               LeaveOrdered DEF Promise!Next
    <2>2. CASE UNCHANGED Promise!vars
        BY <2>2, OrderedUntouched DEF Promise!vars
    <2>3. QED BY <2>1, <2>2
<1>3. PromiseInv => Promise!GroupsOrdered
    BY DEF PromiseInv
<1>4. QED BY <1>1, <1>2, <1>3, PTL DEF Promise!Spec
=============================================================================
