---------------------------- MODULE BacklogProofs ----------------------------
(***************************************************************************)
(* Proofs about Backlog, for any number of items and requests and any      *)
(* Step > 1.                                                               *)
(*                                                                         *)
(* The first part is about ranks alone: Above orders the items, what       *)
(* ranking the unranked and renumbering do to that order, and which        *)
(* neighbours a reorder finds.  The second part follows a reorder from the *)
(* lock to its commit, and what the requests that do not take the lock may *)
(* change under it meanwhile.                                              *)
(***************************************************************************)
EXTENDS Backlog, FiniteSetTheorems, TLAPS

(***************************************************************************)
(* Finite orders                                                           *)
(***************************************************************************)
\* R, a set of pairs, orders the finite set S strictly and totally.
FiniteOrder(S, R) ==
    /\ IsFiniteSet(S) /\ S # {}
    /\ \A a \in S : <<a, a>> \notin R
    /\ \A a, b \in S : a # b => <<a, b>> \in R \/ <<b, a>> \in R
    /\ \A a, b, c \in S : <<a, b>> \in R /\ <<b, c>> \in R => <<a, c>> \in R

HasFirst(S, R) == \E x \in S : \A j \in S : j # x => <<x, j>> \in R

\* Such an order has a first element: a minimal subset without one would lose
\* it with an element.
LEMMA FirstExists ==
    ASSUME NEW S, NEW R, FiniteOrder(S, R)
    PROVE  HasFirst(S, R)
<1> SUFFICES ASSUME IsFiniteSet(S), S # {},
                    \A a \in S : <<a, a>> \notin R,
                    \A a, b \in S : a # b => <<a, b>> \in R \/ <<b, a>> \in R,
                    \A a, b, c \in S : <<a, b>> \in R /\ <<b, c>> \in R => <<a, c>> \in R
             PROVE  \E x \in S : \A j \in S : j # x => <<x, j>> \in R
    BY DEF FiniteOrder, HasFirst
<1> DEFINE Bad == {T \in SUBSET S : T # {} /\ ~ \E x \in T : \A j \in T : j # x => <<x, j>> \in R}
<1>1. SUFFICES ASSUME Bad # {} PROVE FALSE
    BY DEF Bad
<1>2. IsWellFoundedOn(StrictSubsetOrdering(S), SUBSET S)
    BY FS_FiniteSubsetsOfFinite, FS_StrictSubsetOrderingWellFounded
<1>3. PICK T \in Bad : \A U \in Bad : ~ (<<U, T>> \in StrictSubsetOrdering(S))
    <2>1. Bad \subseteq SUBSET S
        OBVIOUS
    <2> HIDE DEF Bad
    <2>2. QED BY <1>1, <1>2, <2>1, WFMin
<1>4. PICK y \in T : TRUE
    OBVIOUS
<1>5. T \ {y} \notin Bad
    <2>1. T \ {y} \in SUBSET S /\ T \in SUBSET S /\ T \ {y} \subseteq T /\ T \ {y} # T
        BY <1>4
    <2>2. <<T \ {y}, T>> \in StrictSubsetOrdering(S)
        BY <2>1 DEF StrictSubsetOrdering
    <2>3. QED BY <2>2, <1>3
<1>6. CASE T = {y}
    BY <1>6
<1>7. CASE T # {y}
    <2>1. PICK x \in T \ {y} : \A j \in T \ {y} : j # x => <<x, j>> \in R
        BY <1>5, <1>7, <1>4
    <2>2. CASE <<x, y>> \in R
        BY <2>1, <2>2
    <2>3. CASE <<y, x>> \in R
        BY <2>1, <2>3, <1>4
    <2>4. QED BY <2>1, <2>2, <2>3, <1>4
<1>8. QED BY <1>6, <1>7

LEMMA MaxExists ==
    ASSUME NEW S, S \subseteq Int, IsFiniteSet(S), S # {}
    PROVE  Max(S) \in S /\ \A y \in S : y <= Max(S)
<1>1. PICK R : R = {p \in Int \X Int : p[1] > p[2]}
    OBVIOUS
<1>2. \A a, b \in S : <<a, b>> \in R <=> a > b
    BY <1>1
<1>3. PICK x \in S : \A j \in S : j # x => <<x, j>> \in R
    <2>1. \A a \in S : <<a, a>> \notin R
        BY <1>2
    <2>2. \A a, b \in S : a # b => <<a, b>> \in R \/ <<b, a>> \in R
        BY <1>2
    <2>3. \A a, b, c \in S : <<a, b>> \in R /\ <<b, c>> \in R => <<a, c>> \in R
        BY <1>2
    <2>4. FiniteOrder(S, R)
        BY <2>1, <2>2, <2>3 DEF FiniteOrder
    <2>5. QED BY <2>4, FirstExists DEF HasFirst
<1>4. ASSUME NEW y \in S PROVE x >= y
    <2>1. x \in Int /\ y \in Int
        OBVIOUS
    <2>2. y = x \/ <<x, y>> \in R
        BY <1>3
    <2>3. <<x, y>> \in R => x > y
        BY <1>2
    <2>4. QED BY <2>1, <2>2, <2>3
<1>5. QED BY <1>4 DEF Max

(***************************************************************************)
(* Ranks                                                                   *)
(***************************************************************************)
Ranking == [Item -> Int \cup {NoRank}]

LEMMA Constants ==
    /\ Item \subseteq Nat /\ NoItem \notin Item
    /\ NoRank \notin Int
    /\ Step \in Nat /\ Step > 1
    BY ItemAssumption, RankAssumption, StepAssumption

\* Among ranked items, the lower rank is above, then the older item.
LEMMA AboveRanked ==
    ASSUME NEW v \in Ranking, NEW i \in Ranked(v), NEW j \in Ranked(v)
    PROVE  /\ i \in Nat /\ j \in Nat /\ v[i] \in Int /\ v[j] \in Int
           /\ Above(v, i, j) <=> v[i] < v[j] \/ (v[i] = v[j] /\ i < j)
    BY Constants DEF Ranking, Ranked, Above

\* The backlog is in a strict total order.
LEMMA AboveOrders ==
    ASSUME NEW v \in Ranking
    PROVE  /\ \A i \in Item : ~Above(v, i, i)
           /\ \A i, j \in Item : i # j => Above(v, i, j) \/ Above(v, j, i)
           /\ \A i, j \in Item : Above(v, i, j) => ~Above(v, j, i)
           /\ \A i, j, k \in Item : Above(v, i, j) /\ Above(v, j, k) => Above(v, i, k)
<1>1. \A i \in Item : i \in Nat /\ (v[i] \in Int \/ v[i] = NoRank)
    BY Constants DEF Ranking
<1>2. \A i \in Item : ~Above(v, i, i)
    BY <1>1, Constants DEF Above
<1>3. \A i, j \in Item : i # j => Above(v, i, j) \/ Above(v, j, i)
    BY <1>1, Constants DEF Above
<1>4. \A i, j \in Item : Above(v, i, j) => ~Above(v, j, i)
    BY <1>1, Constants DEF Above
<1>5. ASSUME NEW i \in Item, NEW j \in Item, NEW k \in Item, Above(v, i, j), Above(v, j, k)
      PROVE  Above(v, i, k)
    <2>1. CASE v[k] = NoRank
        BY <1>1, <1>5, <2>1, Constants DEF Above
    <2>2. CASE v[k] # NoRank
        <3>1. v[i] \in Int /\ v[j] \in Int /\ v[k] \in Int
            BY <1>1, <1>5, <2>2, Constants DEF Above
        <3>2. QED BY <1>1, <1>5, <3>1, Constants DEF Above
    <2>3. QED BY <2>1, <2>2
<1>6. QED BY <1>2, <1>3, <1>4, <1>5

\* The bottom is below every rank of the project.
LEMMA BottomIsBelow ==
    ASSUME NEW v \in Ranking, IsFiniteSet(Ranked(v))
    PROVE  /\ Bottom(v) \in Int
           /\ \A i \in Ranked(v) : v[i] < Bottom(v)
<1> DEFINE R == Ranked(v)
           T == {v[i] : i \in R}
           f == [i \in R |-> v[i]]
<1>1. \A i \in R : v[i] \in Int
    BY DEF Ranking, Ranked
<1>2. CASE R = {}
    BY <1>2, Constants DEF Bottom
<1>3. CASE R # {}
    <2>1. f \in Surjection(R, T)
        BY DEF Surjection
    <2> HIDE DEF f
    <2>2. IsFiniteSet(T)
        <3> HIDE DEF T
        <3>1. QED BY <2>1, FS_Surjection
    <2>3. T \subseteq Int /\ T # {}
        BY <1>1, <1>3
    <2>4. Max(T) \in T /\ \A y \in T : y <= Max(T)
        <3> HIDE DEF T
        <3>1. QED BY <2>2, <2>3, MaxExists
    <2>5. Bottom(v) = Max(T) + Step
        BY <1>3 DEF Bottom
    <2>6. Max(T) \in Int
        BY <2>3, <2>4
    <2>7. \A i \in R : v[i] <= Max(T)
        BY <2>4
    <2> HIDE DEF T
    <2>8. QED BY <1>1, <2>5, <2>6, <2>7, Constants
<1>4. QED BY <1>2, <1>3

LEMMA StepApart ==
    ASSUME NEW m \in Nat, NEW n \in Nat, m < n
    PROVE  Step * m + Step <= Step * n
<1>1. PICK d \in Nat : n = m + 1 + d
    <2>1. n - m - 1 \in Nat /\ n = m + 1 + (n - m - 1)
        OBVIOUS
    <2>2. QED BY <2>1
<1>2. Step * n = Step * m + Step + Step * d
    BY <1>1, Constants
<1>3. Step * d >= 0 /\ Step * m \in Int /\ Step * d \in Int
    BY Constants
<1>4. QED BY <1>2, <1>3, Constants

LEMMA StepNat ==
    ASSUME NEW n \in Nat
    PROVE  Step * n \in Nat
    BY Constants

\* A strict subset of a finite set has fewer elements.
LEMMA Fewer ==
    ASSUME NEW S, IsFiniteSet(S), NEW T \in SUBSET S, T # S
    PROVE  /\ Cardinality(T) \in Nat /\ Cardinality(S) \in Nat
           /\ Cardinality(T) < Cardinality(S)
    BY FS_Subset, FS_CardinalityType

\* _members keeps every rank there is and puts the members without one below
\* them all, the older first.
LEMMA AllRankedPlaces ==
    ASSUME NEW v \in Ranking, IsFiniteSet(Ranked(v)), IsFiniteSet(member), member \subseteq Item
    PROVE  LET a == AllRanked(v) IN
           /\ a \in Ranking
           /\ Ranked(a) = Ranked(v) \cup member
           /\ \A i \in Ranked(v) : a[i] = v[i]
           /\ \A i \in Ranked(v), j \in member \ Ranked(v) : a[i] < a[j]
           /\ \A i, j \in member \ Ranked(v) : i < j => a[i] < a[j]
<1> DEFINE U == {i \in member : v[i] = NoRank}
           Older(i) == {j \in U : j < i}
           n(i) == Cardinality(Older(i))
           a == AllRanked(v)
           b == Bottom(v)
<1>1. b \in Int /\ \A i \in Ranked(v) : v[i] < b
    BY BottomIsBelow
<1>2. a = [i \in Item |-> IF i \in U THEN b + Step * n(i) ELSE v[i]]
    BY DEF AllRanked
<1>3. /\ U \subseteq Item /\ U = member \ Ranked(v)
      /\ \A i \in Ranked(v) : i \in Item /\ i \notin U /\ v[i] \in Int
    BY DEF Ranked, Ranking
<1>4. IsFiniteSet(U)
    BY FS_Subset
<1>5. ASSUME NEW i \in U
      PROVE  IsFiniteSet(Older(i)) /\ n(i) \in Nat /\ Step * n(i) \in Nat
    <2>1. IsFiniteSet(Older(i))
        BY <1>4, FS_Subset
    <2>2. n(i) \in Nat
        BY <2>1, FS_CardinalityType
    <2> HIDE DEF n
    <2>3. QED BY <2>1, <2>2, StepNat
<1>6. ASSUME NEW i \in U, NEW j \in U, i < j
      PROVE  Step * n(i) + Step <= Step * n(j)
    <2>1. i \in Nat /\ j \in Nat
        BY <1>3, Constants
    <2>2. Older(i) \subseteq Older(j)
        <3>1. ASSUME NEW k \in Older(i) PROVE k \in Older(j)
            <4>1. k \in Nat
                BY <1>3, Constants
            <4>2. QED BY <4>1, <2>1, <1>6
        <3>2. QED BY <3>1
    <2>3. i \in Older(j) /\ i \notin Older(i)
        BY <2>1, <1>6
    <2>4. n(i) < n(j)
        <3> HIDE DEF Older
        <3>1. QED BY <2>2, <2>3, <1>5, Fewer
    <2>5. n(i) \in Nat /\ n(j) \in Nat
        BY <1>5
    <2> HIDE DEF n
    <2>6. QED BY <2>4, <2>5, StepApart
<1> HIDE DEF n
<1>7. ASSUME NEW i \in U PROVE a[i] = b + Step * n(i) /\ a[i] \in Int /\ a[i] >= b
    <2>1. a[i] = b + Step * n(i)
        BY <1>2, <1>3
    <2>2. b \in Int /\ Step * n(i) \in Nat
        BY <1>1, <1>5
    <2>3. \A x, y, z : x \in Int /\ y \in Nat /\ z = x + y => z \in Int /\ z >= x
        OBVIOUS
    <2> HIDE DEF a, b
    <2>4. QED BY <2>1, <2>2, <2>3
<1>8. \A i \in Item \ U : a[i] = v[i] /\ a[i] \in Int \cup {NoRank}
    BY <1>2 DEF Ranking
<1>9. a \in Ranking
    <2>1. a = [i \in Item |-> a[i]]
        BY <1>2
    <2>2. \A i \in Item : a[i] \in Int \cup {NoRank}
        BY <1>7, <1>8
    <2> HIDE DEF a
    <2>3. QED BY <2>1, <2>2 DEF Ranking
<1> HIDE DEF a, b, U
<1>10. Ranked(a) = Ranked(v) \cup member
    <2>1. ASSUME NEW i \in Item PROVE a[i] # NoRank <=> v[i] # NoRank \/ i \in member
        <3>1. CASE i \in U
            BY <3>1, <1>7, <1>3, Constants
        <3>2. CASE i \notin U
            BY <3>2, <1>8, <1>3 DEF Ranked
        <3>3. QED BY <3>1, <3>2
    <2>2. QED BY <2>1 DEF Ranked
<1>11. \A i \in Ranked(v) : a[i] = v[i]
    BY <1>3, <1>8
<1>12. ASSUME NEW i \in Ranked(v), NEW j \in U PROVE a[i] < a[j]
    BY <1>1, <1>3, <1>7, <1>11
<1>13. ASSUME NEW i \in U, NEW j \in U, i < j PROVE a[i] < a[j]
    <2>1. Step * n(i) + Step <= Step * n(j)
        BY <1>13, <1>6
    <2>2. Step * n(i) \in Nat /\ Step * n(j) \in Nat
        BY <1>5
    <2>3. a[i] = b + Step * n(i) /\ a[j] = b + Step * n(j)
        BY <1>7
    <2>4. QED BY <1>1, <2>1, <2>2, <2>3, Constants
<1>14. QED BY <1>3, <1>9, <1>10, <1>11, <1>12, <1>13 DEF a

\* So the order of the members, and of whatever has a rank, stays.
LEMMA AllRankedKeepsOrder ==
    ASSUME NEW v \in Ranking, IsFiniteSet(Ranked(v)), IsFiniteSet(member), member \subseteq Item,
           NEW j \in Ranked(v) \cup member, NEW k \in Ranked(v) \cup member
    PROVE  Above(AllRanked(v), j, k) <=> Above(v, j, k)
<1> DEFINE a == AllRanked(v)
<1>1. /\ a \in Ranking
      /\ Ranked(a) = Ranked(v) \cup member
      /\ \A i \in Ranked(v) : a[i] = v[i]
      /\ \A x \in Ranked(v), y \in member \ Ranked(v) : a[x] < a[y]
      /\ \A x, y \in member \ Ranked(v) : x < y => a[x] < a[y]
    BY AllRankedPlaces
<1> SUFFICES Above(a, j, k) <=> Above(v, j, k)
    OBVIOUS
<1> HIDE DEF a
<1>2. /\ j \in Nat /\ k \in Nat /\ a[j] \in Int /\ a[k] \in Int
      /\ Above(a, j, k) <=> a[j] < a[k] \/ (a[j] = a[k] /\ j < k)
    BY <1>1, AboveRanked
<1>3. CASE j \in Ranked(v) /\ k \in Ranked(v)
    BY <1>1, <1>2, <1>3, AboveRanked
<1>4. CASE j \in Ranked(v) /\ k \notin Ranked(v)
    <2>1. v[j] # NoRank /\ v[k] = NoRank
        BY <1>4 DEF Ranked
    <2>2. a[j] < a[k]
        BY <1>1, <1>4
    <2>3. QED BY <1>2, <2>1, <2>2 DEF Above
<1>5. CASE j \notin Ranked(v) /\ k \in Ranked(v)
    <2>1. v[j] = NoRank /\ v[k] # NoRank
        BY <1>5 DEF Ranked
    <2>2. a[k] < a[j]
        BY <1>1, <1>5
    <2>3. QED BY <1>2, <2>1, <2>2 DEF Above
<1>6. CASE j \notin Ranked(v) /\ k \notin Ranked(v)
    <2>1. v[j] = NoRank /\ v[k] = NoRank
        BY <1>6 DEF Ranked
    <2>2. Above(v, j, k) <=> j < k
        BY <2>1 DEF Above
    <2>3. (j < k => a[j] < a[k]) /\ (k < j => a[k] < a[j])
        BY <1>1, <1>6
    <2>4. j = k => a[j] = a[k]
        OBVIOUS
    <2>5. QED BY <1>2, <2>2, <2>3, <2>4
<1>7. QED BY <1>3, <1>4, <1>5, <1>6

\* _renumber keeps the order of what has a rank, and leaves Step between any
\* two of them.
LEMMA RenumberedSpreads ==
    ASSUME NEW v \in Ranking, IsFiniteSet(Ranked(v))
    PROVE  LET w == Renumbered(v) IN
           /\ w \in [Ranked(v) -> Int]
           /\ \A i, j \in Ranked(v) : Above(v, i, j) => w[i] + Step <= w[j]
<1> DEFINE R == Ranked(v)
           Upto(i) == {j \in R : j = i \/ Above(v, j, i)}
           n(i) == Cardinality(Upto(i))
           w == Renumbered(v)
<1>1. w = [i \in R |-> Step * n(i)]
    BY DEF Renumbered
<1>2. ASSUME NEW i \in R
      PROVE  IsFiniteSet(Upto(i)) /\ n(i) \in Nat /\ Step * n(i) \in Nat
    <2>1. IsFiniteSet(Upto(i))
        BY FS_Subset
    <2>2. n(i) \in Nat
        BY <2>1, FS_CardinalityType
    <2> HIDE DEF n
    <2>3. QED BY <2>1, <2>2, StepNat
<1>3. ASSUME NEW i \in R, NEW j \in R, Above(v, i, j)
      PROVE  Step * n(i) + Step <= Step * n(j)
    <2>1. i \in Item /\ j \in Item /\ R \subseteq Item
        BY DEF Ranked
    <2>2. Upto(i) \subseteq Upto(j)
        BY <1>3, <2>1, AboveOrders
    <2>3. j \in Upto(j) /\ j \notin Upto(i)
        BY <1>3, <2>1, AboveOrders
    <2>4. n(i) < n(j)
        <3> HIDE DEF Upto
        <3>1. QED BY <2>2, <2>3, <1>2, Fewer
    <2>5. n(i) \in Nat /\ n(j) \in Nat
        BY <1>2
    <2> HIDE DEF n
    <2>6. QED BY <2>4, <2>5, StepApart
<1>4. \A i \in R : w[i] = Step * n(i)
    BY <1>1
<1>5. w \in [R -> Int]
    <2>1. ASSUME NEW i \in R PROVE Step * n(i) \in Int
        <3>1. Step * n(i) \in Nat
            BY <1>2
        <3> HIDE DEF n
        <3>2. QED BY <3>1
    <2> HIDE DEF n, R
    <2>2. QED BY <1>1, <2>1
<1>6. \A i, j \in R : Above(v, i, j) => w[i] + Step <= w[j]
    BY <1>3, <1>4
<1>7. QED BY <1>5, <1>6

\* What a transaction may have written.
Writes == {w \in UNION {[S -> Int] : S \in SUBSET Item} : IsFiniteSet(DOMAIN w)}

LEMMA WritesAre ==
    ASSUME NEW w \in Writes
    PROVE  /\ DOMAIN w \subseteq Item /\ IsFiniteSet(DOMAIN w)
           /\ \A i \in DOMAIN w : w[i] \in Int
    BY DEF Writes

LEMMA AreWrites ==
    ASSUME NEW S \in SUBSET Item, IsFiniteSet(S), NEW w \in [S -> Int]
    PROVE  w \in Writes
    BY DEF Writes

\* What a transaction sees is a ranking like the committed one.
LEMMA SeenIsRanking ==
    ASSUME NEW w \in Writes, rank \in Ranking, IsFiniteSet(Ranked(rank))
    PROVE  /\ Seen(w) \in Ranking
           /\ Ranked(Seen(w)) = Ranked(rank) \cup DOMAIN w
           /\ IsFiniteSet(Ranked(Seen(w)))
           /\ \A i \in DOMAIN w : Seen(w)[i] = w[i]
           /\ \A i \in Item \ DOMAIN w : Seen(w)[i] = rank[i]
<1> DEFINE v == Seen(w)
<1>1. v = [i \in Item |-> IF i \in DOMAIN w THEN w[i] ELSE rank[i]]
    BY DEF Seen
<1>2. /\ \A i \in DOMAIN w : v[i] = w[i]
      /\ \A i \in Item \ DOMAIN w : v[i] = rank[i]
    BY <1>1, WritesAre
<1>3. v \in Ranking
    BY <1>1, WritesAre DEF Ranking
<1> HIDE DEF v
<1>4. Ranked(v) = Ranked(rank) \cup DOMAIN w
    BY <1>2, WritesAre, Constants DEF Ranked
<1>5. IsFiniteSet(Ranked(v))
    BY <1>4, FS_Union, WritesAre
<1>6. QED BY <1>2, <1>3, <1>4, <1>5 DEF v

\* After a renumber a transaction sees the same items ranked, in their order.
LEMMA RenumberedKeepsOrder ==
    ASSUME NEW v \in Ranking, IsFiniteSet(Ranked(v)), rank \in Ranking, Ranked(rank) \subseteq Ranked(v)
    PROVE  LET x == Seen(Renumbered(v)) IN
           /\ Ranked(x) = Ranked(v)
           /\ \A j, k \in Ranked(v) : Above(x, j, k) <=> Above(v, j, k)
<1> DEFINE w == Renumbered(v)
           x == Seen(w)
<1>1. /\ w \in [Ranked(v) -> Int]
      /\ \A i, j \in Ranked(v) : Above(v, i, j) => w[i] + Step <= w[j]
    BY RenumberedSpreads
<1>2. w \in Writes
    <2>1. Ranked(v) \subseteq Item
        BY DEF Ranked
    <2> HIDE DEF w
    <2>2. QED BY <1>1, <2>1, AreWrites
<1>3. IsFiniteSet(Ranked(rank))
    BY FS_Subset
<1>4. /\ x \in Ranking
      /\ Ranked(x) = Ranked(v)
      /\ \A i \in Ranked(v) : x[i] = w[i]
    <2>1. DOMAIN w = Ranked(v)
        BY DEF Renumbered
    <2> HIDE DEF w
    <2>2. QED BY <2>1, <1>2, <1>3, SeenIsRanking
<1> HIDE DEF w, x
<1>5. ASSUME NEW j \in Ranked(v), NEW k \in Ranked(v) PROVE Above(x, j, k) <=> Above(v, j, k)
    <2>1. /\ j \in Nat /\ k \in Nat /\ x[j] \in Int /\ x[k] \in Int
          /\ Above(x, j, k) <=> x[j] < x[k] \/ (x[j] = x[k] /\ j < k)
        BY <1>4, AboveRanked
    <2>2. j \in Item /\ k \in Item
        BY DEF Ranked
    <2>3. x[j] = w[j] /\ x[k] = w[k]
        BY <1>4
    <2>4. CASE j = k
        BY <2>4, <2>2, <1>4, AboveOrders
    <2>5. CASE Above(v, j, k)
        <3>1. w[j] + Step <= w[k]
            BY <1>1, <2>5
        <3>2. QED BY <3>1, <2>1, <2>3, <2>5, Constants
    <2>6. CASE Above(v, k, j)
        <3>1. w[k] + Step <= w[j]
            BY <1>1, <2>6
        <3>2. ~(x[j] < x[k]) /\ x[j] # x[k]
            BY <3>1, <2>1, <2>3, Constants
        <3>3. ~Above(v, j, k)
            BY <2>2, <2>6, AboveOrders
        <3>4. QED BY <2>1, <3>2, <3>3
    <2>7. QED BY <2>2, <2>4, <2>5, <2>6, AboveOrders
<1>6. QED BY <1>4, <1>5 DEF x, w

\* The members above an anchor have a lowest, those below it a highest.
LEMMA Neighbours ==
    ASSUME NEW v \in Ranking, NEW S, IsFiniteSet(S), S # {}, S \subseteq Item
    PROVE  /\ \E j \in S : \A k \in S \ {j} : Above(v, k, j)
           /\ \E j \in S : \A k \in S \ {j} : Above(v, j, k)
<1> DEFINE Down == {p \in Item \X Item : Above(v, p[1], p[2])}
           Up == {p \in Item \X Item : Above(v, p[2], p[1])}
<1>1. \A i, j \in S : (<<i, j>> \in Down <=> Above(v, i, j)) /\ (<<i, j>> \in Up <=> Above(v, j, i))
    OBVIOUS
<1> HIDE DEF Down, Up
<1>2. FiniteOrder(S, Down)
    BY <1>1, AboveOrders DEF FiniteOrder
<1>3. FiniteOrder(S, Up)
    BY <1>1, AboveOrders DEF FiniteOrder
<1>4. HasFirst(S, Down) /\ HasFirst(S, Up)
    BY <1>2, <1>3, FirstExists
<1>5. \E j \in S : \A k \in S \ {j} : Above(v, k, j)
    BY <1>1, <1>4 DEF HasFirst
<1>6. \E j \in S : \A k \in S \ {j} : Above(v, j, k)
    BY <1>1, <1>4 DEF HasFirst
<1>7. QED BY <1>5, <1>6

\* Above one anchor: its current neighbour, and no member in between.
LEMMA UpperIs ==
    ASSUME NEW v \in Ranking, IsFiniteSet(member), member \subseteq Item, NEW i \in Item,
           NEW before \in member \ {i}
    PROVE  LET u == Upper(v, i, NoItem, before) IN
           \/ /\ u = NoItem
              /\ \A j \in member \ {i} : ~Above(v, j, before)
           \/ /\ u \in member \ {i} /\ Above(v, u, before)
              /\ \A j \in member \ {i} : Above(v, j, before) => j = u \/ Above(v, j, u)
<1> DEFINE S == {j \in member \ {i} : Above(v, j, before)}
           u == Upper(v, i, NoItem, before)
<1>1. u = IF S = {} THEN NoItem ELSE CHOOSE j \in S : \A k \in S \ {j} : Above(v, k, j)
    BY DEF Upper
<1>2. CASE S = {}
    BY <1>1, <1>2
<1>3. CASE S # {}
    <2>1. IsFiniteSet(S) /\ S \subseteq Item
        BY FS_Subset
    <2>2. u = CHOOSE j \in S : \A k \in S \ {j} : Above(v, k, j)
        BY <1>1, <1>3
    <2> HIDE DEF u
    <2>3. u \in S /\ \A k \in S \ {u} : Above(v, k, u)
        <3> HIDE DEF S
        <3>1. \E j \in S : \A k \in S \ {j} : Above(v, k, j)
            BY <1>3, <2>1, Neighbours
        <3>2. QED BY <2>2, <3>1
    <2>4. u \in member \ {i} /\ Above(v, u, before)
        BY <2>3
    <2>5. \A j \in member \ {i} : Above(v, j, before) => j = u \/ Above(v, j, u)
        BY <2>3
    <2>6. QED BY <2>4, <2>5 DEF u
<1>4. QED BY <1>2, <1>3

\* Below one anchor likewise.
LEMMA LowerIs ==
    ASSUME NEW v \in Ranking, IsFiniteSet(member), member \subseteq Item, NEW i \in Item,
           NEW after \in member \ {i}
    PROVE  LET l == Lower(v, i, after, NoItem) IN
           \/ /\ l = NoItem
              /\ \A j \in member \ {i} : ~Above(v, after, j)
           \/ /\ l \in member \ {i} /\ Above(v, after, l)
              /\ \A j \in member \ {i} : Above(v, after, j) => j = l \/ Above(v, l, j)
<1> DEFINE S == {j \in member \ {i} : Above(v, after, j)}
           l == Lower(v, i, after, NoItem)
<1>1. l = IF S = {} THEN NoItem ELSE CHOOSE j \in S : \A k \in S \ {j} : Above(v, j, k)
    BY DEF Lower
<1>2. CASE S = {}
    BY <1>1, <1>2
<1>3. CASE S # {}
    <2>1. IsFiniteSet(S) /\ S \subseteq Item
        BY FS_Subset
    <2>2. l = CHOOSE j \in S : \A k \in S \ {j} : Above(v, j, k)
        BY <1>1, <1>3
    <2> HIDE DEF l
    <2>3. l \in S /\ \A k \in S \ {l} : Above(v, l, k)
        <3> HIDE DEF S
        <3>1. \E j \in S : \A k \in S \ {j} : Above(v, j, k)
            BY <1>3, <2>1, Neighbours
        <3>2. QED BY <2>2, <3>1
    <2>4. l \in member \ {i} /\ Above(v, after, l)
        BY <2>3
    <2>5. \A j \in member \ {i} : Above(v, after, j) => j = l \/ Above(v, l, j)
        BY <2>3
    <2>6. QED BY <2>4, <2>5 DEF l
<1>4. QED BY <1>2, <1>3

LEMMA Midpoint ==
    ASSUME NEW x \in Int, NEW y \in Int, y - x >= 2
    PROVE  (x + y) \div 2 \in Int /\ x < (x + y) \div 2 /\ (x + y) \div 2 < y
    OBVIOUS

\* What reorder asks of its item i and its anchors, in a ranking v.
Asked(v, i, after, before) ==
    /\ v \in Ranking /\ IsFiniteSet(member) /\ member \subseteq Item /\ member \subseteq Ranked(v)
    /\ i \in Item
    /\ after \in (member \ {i}) \cup {NoItem}
    /\ before \in (member \ {i}) \cup {NoItem}
    /\ after # NoItem \/ before # NoItem
    /\ after # NoItem /\ before # NoItem => Above(v, after, before)

\* The neighbours found are members, and the upper one is above.
LEMMA NeighboursFound ==
    ASSUME NEW v, NEW i, NEW after, NEW before, Asked(v, i, after, before)
    PROVE  LET u == Upper(v, i, after, before)
               l == Lower(v, i, after, before)
           IN  /\ u \in (member \ {i}) \cup {NoItem} /\ l \in (member \ {i}) \cup {NoItem}
               /\ u # NoItem \/ l # NoItem
               /\ u # NoItem /\ l # NoItem => Above(v, u, l)
               /\ after # NoItem => u = after
               /\ before # NoItem => l = before
<1> DEFINE u == Upper(v, i, after, before)
           l == Lower(v, i, after, before)
<1>1. (after # NoItem => u = after) /\ (before # NoItem => l = before)
    BY DEF Upper, Lower
<1>2. CASE after # NoItem /\ before # NoItem
    BY <1>1, <1>2 DEF Asked
<1>3. CASE after # NoItem /\ before = NoItem
    <2>1. /\ v \in Ranking /\ IsFiniteSet(member) /\ member \subseteq Item
          /\ i \in Item /\ after \in member \ {i}
        BY <1>3 DEF Asked
    <2>2. l = Lower(v, i, after, NoItem)
        BY <1>3
    <2> HIDE DEF u, l
    <2>3. l = NoItem \/ (l \in member \ {i} /\ Above(v, after, l))
        BY <2>1, <2>2, LowerIs
    <2>4. QED BY <1>1, <1>3, <2>1, <2>3 DEF u, l
<1>4. CASE after = NoItem /\ before # NoItem
    <2>1. /\ v \in Ranking /\ IsFiniteSet(member) /\ member \subseteq Item
          /\ i \in Item /\ before \in member \ {i}
        BY <1>4 DEF Asked
    <2>2. u = Upper(v, i, NoItem, before)
        BY <1>4
    <2> HIDE DEF u, l
    <2>3. u = NoItem \/ (u \in member \ {i} /\ Above(v, u, before))
        BY <2>1, <2>2, UpperIs
    <2>4. QED BY <1>1, <1>4, <2>1, <2>3 DEF u, l
<1>5. QED BY <1>2, <1>3, <1>4 DEF Asked

\* The rank chosen is on the asked side of each anchor; and beside a single
\* anchor, with no member of that rank and none in between.
LEMMA ChosenBetween ==
    ASSUME NEW v, NEW i, NEW after, NEW before, Asked(v, i, after, before),
           ~NoRoom(v, Upper(v, i, after, before), Lower(v, i, after, before))
    PROVE  LET r == Between(v, Upper(v, i, after, before), Lower(v, i, after, before)) IN
           /\ r \in Int
           /\ after # NoItem => v[after] < r
           /\ before # NoItem => r < v[before]
           /\ NoItem \in {after, before} => \A j \in member \ {i} : v[j] # r
           /\ before = NoItem =>
                \A j \in member \ {i, after} : v[j] < r <=> Above(v, j, after)
           /\ after = NoItem =>
                \A j \in member \ {i} : v[j] < r <=> Above(v, j, before)
<1> DEFINE u == Upper(v, i, after, before)
           l == Lower(v, i, after, before)
           r == Between(v, u, l)
<1>1. /\ u \in (member \ {i}) \cup {NoItem} /\ l \in (member \ {i}) \cup {NoItem}
      /\ u # NoItem \/ l # NoItem
      /\ u # NoItem /\ l # NoItem => Above(v, u, l)
      /\ after # NoItem => u = after
      /\ before # NoItem => l = before
    BY NeighboursFound
<1>2. u # NoItem /\ l # NoItem => v[l] - v[u] >= 2
    <2>1. ~NoRoom(v, u, l)
        OBVIOUS
    <2> HIDE DEF u, l
    <2>2. u # NoItem /\ l # NoItem => v[l] \in Int /\ v[u] \in Int
        BY <1>1 DEF Asked, Ranked, Ranking
    <2>3. QED BY <2>1, <2>2 DEF NoRoom
<1>3. /\ v \in Ranking /\ IsFiniteSet(member) /\ member \subseteq Item /\ member \subseteq Ranked(v)
      /\ i \in Item
      /\ after \in (member \ {i}) \cup {NoItem}
      /\ before \in (member \ {i}) \cup {NoItem}
      /\ after # NoItem \/ before # NoItem
    BY DEF Asked
<1>4. \A j \in member : j \in Item /\ v[j] \in Int /\ j # NoItem
    BY <1>3, Constants DEF Ranked, Ranking
<1>5. CASE after # NoItem /\ before # NoItem
    <2>1. u = after /\ l = before /\ v[u] \in Int /\ v[l] \in Int /\ v[l] - v[u] >= 2
        BY <1>1, <1>2, <1>4, <1>5, <1>3
    <2>2. r = (v[u] + v[l]) \div 2
        BY <1>5, <2>1 DEF Between
    <2> HIDE DEF u, l, r
    <2>3. r \in Int /\ v[u] < r /\ r < v[l]
        BY <2>1, <2>2, Midpoint
    <2>4. QED BY <1>5, <2>1, <2>3 DEF r, u, l
<1>6. CASE after # NoItem /\ before = NoItem
    <2>1. after \in member \ {i} /\ u = after /\ v[after] \in Int /\ u # NoItem
        BY <1>1, <1>3, <1>4, <1>6
    <2>2. \/ l = NoItem /\ \A j \in member \ {i} : ~Above(v, after, j)
          \/ /\ l \in member \ {i} /\ Above(v, after, l)
             /\ \A j \in member \ {i} : Above(v, after, j) => j = l \/ Above(v, l, j)
        <3>1. l = Lower(v, i, after, NoItem)
            BY <1>6
        <3> HIDE DEF l
        <3>2. QED BY <3>1, <1>3, <2>1, LowerIs
    <2>3. r = IF l = NoItem THEN v[after] + Step ELSE (v[after] + v[l]) \div 2
        BY <2>1 DEF Between
    <2> HIDE DEF u, l, r
    <2>4. /\ r \in Int /\ v[after] < r
          /\ l # NoItem => l \in member \ {i} /\ v[l] \in Int /\ r < v[l]
        <3>1. CASE l = NoItem
            BY <3>1, <2>1, <2>3, Constants
        <3>2. CASE l # NoItem
            <4>1. l \in member /\ v[l] \in Int /\ v[l] - v[after] >= 2
                BY <3>2, <1>1, <1>2, <1>4, <2>1
            <4>2. QED BY <3>2, <4>1, <1>1, <2>1, <2>3, Midpoint
        <3>3. QED BY <3>1, <3>2
    <2>5. ASSUME NEW j \in member \ {i}, j # after
          PROVE  v[j] # r /\ (v[j] < r <=> Above(v, j, after))
        <3>1. j \in Item /\ after \in Item /\ v[j] \in Int /\ j \in Ranked(v) /\ after \in Ranked(v)
            BY <1>3, <1>4, <2>1
        <3>2. CASE Above(v, j, after)
            <4>1. v[j] < v[after] \/ v[j] = v[after]
                BY <3>1, <3>2, <1>3, AboveRanked
            <4>2. QED BY <3>1, <3>2, <4>1, <2>1, <2>4
        <3>3. CASE Above(v, after, j)
            <4>1. l # NoItem /\ (j = l \/ Above(v, l, j))
                BY <2>2, <3>3, <1>4
            <4>2. l \in Ranked(v) /\ v[l] \in Int /\ r < v[l]
                BY <4>1, <2>4, <1>3
            <4>3. v[l] = v[j] \/ v[l] < v[j]
                BY <4>1, <4>2, <3>1, <1>3, AboveRanked
            <4>4. ~Above(v, j, after)
                BY <3>1, <3>3, <1>3, AboveOrders
            <4>5. QED BY <4>2, <4>3, <4>4, <3>1, <2>4
        <3>4. QED BY <3>1, <3>2, <3>3, <2>5, <1>3, AboveOrders
    <2>6. v[after] # r
        BY <2>1, <2>4
    <2>7. QED BY <1>6, <2>4, <2>5, <2>6 DEF r, u, l
<1>7. CASE after = NoItem /\ before # NoItem
    <2>1. before \in member \ {i} /\ l = before /\ v[before] \in Int /\ l # NoItem
        BY <1>1, <1>3, <1>4, <1>7
    <2>2. \/ u = NoItem /\ \A j \in member \ {i} : ~Above(v, j, before)
          \/ /\ u \in member \ {i} /\ Above(v, u, before)
             /\ \A j \in member \ {i} : Above(v, j, before) => j = u \/ Above(v, j, u)
        <3>1. u = Upper(v, i, NoItem, before)
            BY <1>7
        <3> HIDE DEF u
        <3>2. QED BY <3>1, <1>3, <2>1, UpperIs
    <2>3. r = IF u = NoItem THEN v[before] - Step ELSE (v[u] + v[before]) \div 2
        BY <2>1 DEF Between
    <2> HIDE DEF u, l, r
    <2>4. /\ r \in Int /\ r < v[before]
          /\ u # NoItem => u \in member \ {i} /\ v[u] \in Int /\ v[u] < r
        <3>1. CASE u = NoItem
            BY <3>1, <2>1, <2>3, Constants
        <3>2. CASE u # NoItem
            <4>1. u \in member /\ v[u] \in Int /\ v[before] - v[u] >= 2
                BY <3>2, <1>1, <1>2, <1>4, <2>1
            <4>2. QED BY <3>2, <4>1, <1>1, <2>1, <2>3, Midpoint
        <3>3. QED BY <3>1, <3>2
    <2>5. ASSUME NEW j \in member \ {i}
          PROVE  v[j] # r /\ (v[j] < r <=> Above(v, j, before))
        <3>1. j \in Item /\ before \in Item /\ v[j] \in Int /\ j \in Ranked(v) /\ before \in Ranked(v)
            BY <1>3, <1>4, <2>1
        <3>2. CASE Above(v, j, before)
            <4>1. u # NoItem /\ (j = u \/ Above(v, j, u))
                BY <2>2, <3>2, <1>4
            <4>2. u \in Ranked(v) /\ v[u] \in Int /\ v[u] < r
                BY <4>1, <2>4, <1>3
            <4>3. v[j] = v[u] \/ v[j] < v[u]
                BY <4>1, <4>2, <3>1, <1>3, AboveRanked
            <4>4. QED BY <3>2, <4>2, <4>3, <3>1, <2>4
        <3>3. CASE ~Above(v, j, before)
            <4>1. j = before \/ Above(v, before, j)
                BY <3>1, <3>3, <1>3, AboveOrders
            <4>2. v[before] = v[j] \/ v[before] < v[j]
                BY <4>1, <3>1, <1>3, AboveRanked
            <4>3. QED BY <3>1, <3>3, <4>2, <2>1, <2>4
        <3>4. QED BY <3>2, <3>3
    <2>6. QED BY <1>7, <2>4, <2>5 DEF r, u, l
<1>8. QED BY <1>3, <1>5, <1>6, <1>7

(***************************************************************************)
(* Types                                                                   *)
(***************************************************************************)
Transaction ==
    [at : {"idle"} \cup Placing \cup Reordering, item : Item \cup {NoItem},
     after : Item \cup {NoItem}, before : Item \cup {NoItem}, rank : Int \cup {NoRank},
     write : Writes, fresh : SUBSET Item]

\* A transaction that runs has an item; a reorder has an anchor besides, and
\* has written nothing when it takes the lock; a rank is there once chosen.
Phase(s) ==
    /\ s.at = "idle" => s = Idle
    /\ s.at # "idle" => s.item \in Item
    /\ s.at \in Reordering => /\ s.item \notin {s.after, s.before}
                              /\ s.after # NoItem \/ s.before # NoItem
    /\ s.at = "locked" => DOMAIN s.write = {}
    /\ s.at \in {"chosen", "placed", "joined", "filed"} <=> s.rank # NoRank

Tables ==
    /\ member \subseteq Item /\ IsFiniteSet(member)
    /\ rank \in Ranking /\ IsFiniteSet(Ranked(rank))

Types ==
    /\ Tables
    /\ state \in [Request -> Transaction]
    /\ \A q \in Request : Phase(state[q])

LEMMA IdleIs == Idle \in Transaction /\ Phase(Idle) /\ Idle.at = "idle"
<1>1. [i \in {} |-> 0] \in Writes
    <2>1. IsFiniteSet({}) /\ {} \in SUBSET Item
        BY FS_EmptySet
    <2>2. [i \in {} |-> 0] \in [{} -> Int]
        OBVIOUS
    <2> HIDE DEF Writes
    <2>3. QED BY <2>1, <2>2, AreWrites
<1>2. QED BY <1>1, Constants DEF Idle, Transaction, Phase, Placing, Reordering

\* The item a transaction brings counts as fresh for the reorders.
LEMMA CameIs ==
    ASSUME NEW s \in [Request -> Transaction], NEW i \in Item, \A p \in Request : Phase(s[p])
    PROVE  LET t == Came(s, i) IN
           /\ t \in [Request -> Transaction]
           /\ \A p \in Request : Phase(t[p])
           /\ \A p \in Request : s[p].at \notin Reordering => t[p] = s[p]
           /\ \A p \in Request : s[p].at \in Reordering => t[p] = [s[p] EXCEPT !.fresh = @ \cup {i}]
<1> DEFINE t == Came(s, i)
<1>1. t = [p \in Request |-> IF s[p].at \in Reordering
                             THEN [s[p] EXCEPT !.fresh = @ \cup {i}] ELSE s[p]]
    BY DEF Came
<1>2. ASSUME NEW p \in Request
      PROVE  /\ s[p].at \notin Reordering => t[p] = s[p]
             /\ s[p].at \in Reordering => t[p] = [s[p] EXCEPT !.fresh = @ \cup {i}]
    BY <1>1
<1> HIDE DEF t
<1>3. ASSUME NEW p \in Request PROVE t[p] \in Transaction /\ Phase(t[p])
    <2>1. s[p] \in Transaction /\ Phase(s[p])
        OBVIOUS
    <2>2. CASE s[p].at \notin Reordering
        BY <2>1, <2>2, <1>2
    <2>3. CASE s[p].at \in Reordering
        <3>1. s[p].fresh \cup {i} \in SUBSET Item
            BY <2>1 DEF Transaction
        <3>2. t[p] = [s[p] EXCEPT !.fresh = s[p].fresh \cup {i}]
            BY <1>2, <2>3
        <3>3. t[p] \in Transaction
            BY <2>1, <3>1, <3>2 DEF Transaction
        <3>4. /\ t[p].at = s[p].at /\ t[p].item = s[p].item /\ t[p].rank = s[p].rank
              /\ t[p].after = s[p].after /\ t[p].before = s[p].before
              /\ t[p].write = s[p].write /\ s[p].at # "idle"
            BY <2>1, <2>3, <3>2 DEF Transaction, Reordering
        <3>5. Phase(t[p])
            BY <2>1, <3>4 DEF Phase
        <3>6. QED BY <3>3, <3>5
    <2>4. QED BY <2>2, <2>3
<1>4. t \in [Request -> Transaction]
    <2>1. t = [p \in Request |-> t[p]]
        BY <1>1 DEF t
    <2>2. QED BY <2>1, <1>3
<1>5. QED BY <1>2, <1>3, <1>4 DEF t

\* One transaction moves on.
LEMMA OneMoves ==
    ASSUME Types, NEW q \in Request, NEW t \in Transaction, Phase(t), state' = [state EXCEPT ![q] = t]
    PROVE  /\ state' \in [Request -> Transaction]
           /\ \A p \in Request : Phase(state'[p])
           /\ state'[q] = t
           /\ \A p \in Request \ {q} : state'[p] = state[p]
    BY DEF Types

\* How each step of a request changes what it holds.
LEMMA LoadMoves ==
    ASSUME Types, NEW q \in Request, NEW i \in Item, NEW joins \in BOOLEAN, Load(q, i, joins)
    PROVE  \E t \in Transaction :
             /\ state' = [state EXCEPT ![q] = t] /\ Phase(t)
             /\ t.at \in {"loaded", "joining"}
<1>1. state[q] = Idle
    BY DEF Types, Phase, Load
<1> DEFINE t == [Idle EXCEPT !.at = IF joins THEN "joining" ELSE "loaded", !.item = i]
<1>2. state' = [state EXCEPT ![q] = t]
    BY <1>1 DEF Types, Load
<1>3. t \in Transaction /\ t.at \in {"loaded", "joining"} /\ t.item = i /\ t.rank = NoRank
    BY IdleIs DEF Transaction, Placing, Idle
<1>4. QED BY <1>2, <1>3 DEF Phase, Reordering

LEMMA PlaceMoves ==
    ASSUME Types, NEW q \in Request, Place(q)
    PROVE  \E t \in Transaction :
             /\ state' = [state EXCEPT ![q] = t] /\ Phase(t)
             /\ t.at \in {"placed", "joined"}
<1>1. /\ state[q] \in Transaction /\ Phase(state[q]) /\ state[q].at \in {"loaded", "joining"}
      /\ Bottom(rank) \in Int
    BY BottomIsBelow DEF Types, Tables, Place
<1> DEFINE t == [state[q] EXCEPT !.at = IF state[q].at = "loaded" THEN "placed" ELSE "joined",
                                 !.rank = Bottom(rank)]
<1>2. state' = [state EXCEPT ![q] = t]
    BY <1>1 DEF Types, Place
<1>3. /\ t \in Transaction /\ t.at \in {"placed", "joined"}
      /\ t.item = state[q].item /\ t.rank = Bottom(rank)
    BY <1>1 DEF Transaction, Placing
<1>4. Phase(t)
    BY <1>1, <1>3, Constants DEF Phase, Reordering
<1>5. QED BY <1>2, <1>3, <1>4

LEMMA FileMoves ==
    ASSUME Types, NEW q \in Request, NEW i \in Item, File(q, i)
    PROVE  \E t \in Transaction :
             /\ state' = [state EXCEPT ![q] = t] /\ Phase(t)
             /\ t.at = "filed"
<1>1. state[q] = Idle /\ Bottom(rank) \in Int
    BY BottomIsBelow DEF Types, Tables, Phase, File
<1> DEFINE t == [Idle EXCEPT !.at = "filed", !.item = i, !.rank = Bottom(rank)]
<1>2. state' = [state EXCEPT ![q] = t]
    BY <1>1 DEF Types, File
<1>3. t \in Transaction /\ t.at = "filed" /\ t.item = i /\ t.rank = Bottom(rank)
    BY <1>1, IdleIs DEF Transaction, Placing, Idle
<1>4. QED BY <1>1, <1>2, <1>3, Constants DEF Phase, Reordering

LEMMA LockMoves ==
    ASSUME Types, NEW q \in Request, NEW i \in Item,
           NEW after \in Item \cup {NoItem}, NEW before \in Item \cup {NoItem},
           Lock(q, i, after, before)
    PROVE  \E t \in Transaction :
             /\ state' = [state EXCEPT ![q] = t] /\ Phase(t)
             /\ t.at = "locked"
<1> DEFINE t == [Idle EXCEPT !.at = "locked", !.item = i, !.after = after, !.before = before]
<1>1. state' = [state EXCEPT ![q] = t]
    BY DEF Lock
<1>2. /\ t \in Transaction /\ t.at = "locked" /\ t.item = i /\ t.rank = NoRank
      /\ t.after = after /\ t.before = before /\ DOMAIN t.write = {}
    BY IdleIs DEF Transaction, Reordering, Idle
<1>3. Phase(t)
    BY <1>2 DEF Phase, Lock
<1>4. QED BY <1>1, <1>2, <1>3

\* What a read writes is what it sees.
LEMMA ReadSees ==
    ASSUME Tables, NEW w \in Writes
    PROVE  LET v == AllRanked(Seen(w))
               written == DOMAIN w \cup {i \in member : Seen(w)[i] = NoRank}
               x == [i \in written |-> v[i]]
           IN  x \in Writes /\ Seen(x) = v
<1> DEFINE z == Seen(w)
           v == AllRanked(z)
           written == DOMAIN w \cup {i \in member : z[i] = NoRank}
           x == [i \in written |-> v[i]]
<1>1. /\ z \in Ranking
      /\ Ranked(z) = Ranked(rank) \cup DOMAIN w
      /\ IsFiniteSet(Ranked(z))
      /\ \A i \in Item \ DOMAIN w : z[i] = rank[i]
    BY SeenIsRanking DEF Tables
<1> HIDE DEF z
<1>2. /\ v \in Ranking
      /\ Ranked(v) = Ranked(z) \cup member
      /\ \A i \in Ranked(z) : v[i] = z[i]
    BY <1>1, AllRankedPlaces DEF Tables
<1>3. v = [i \in Item |-> v[i]]
    BY <1>2 DEF Ranking
<1>4. \A i \in Item \ written : v[i] = rank[i]
    <2>1. ASSUME NEW i \in Item \ written PROVE v[i] = z[i]
        <3>1. CASE i \in Ranked(z)
            BY <1>2, <3>1
        <3>2. CASE i \notin Ranked(z)
            <4>1. i \notin member /\ z[i] = NoRank
                BY <3>2 DEF Ranked
            <4>2. i \notin Ranked(v)
                BY <3>2, <4>1, <1>2
            <4>3. QED BY <4>1, <4>2 DEF Ranked
        <3>3. QED BY <3>1, <3>2
    <2>2. QED BY <2>1, <1>1
<1>5. written \subseteq Item /\ IsFiniteSet(written)
    <2>1. DOMAIN w \subseteq Item /\ IsFiniteSet(DOMAIN w)
        BY WritesAre
    <2>2. IsFiniteSet({i \in member : z[i] = NoRank})
        BY FS_Subset DEF Tables
    <2>3. QED BY <2>1, <2>2, FS_Union DEF Tables
<1>6. \A i \in written : v[i] \in Int
    <2>1. written \subseteq Ranked(v)
        BY <1>1, <1>2
    <2> HIDE DEF written, v
    <2>2. QED BY <2>1, <1>2, Constants DEF Ranked, Ranking
<1> HIDE DEF v, written
<1>7. x \in Writes
    <2>1. x \in [written -> Int]
        BY <1>6
    <2> HIDE DEF x
    <2>2. QED BY <2>1, <1>5, AreWrites
<1>8. Seen(x) = v
    <2>1. DOMAIN x = written /\ \A i \in written : x[i] = v[i]
        OBVIOUS
    <2>2. Seen(x) = [i \in Item |-> IF i \in DOMAIN x THEN x[i] ELSE rank[i]]
        BY DEF Seen
    <2> HIDE DEF x
    <2>3. Seen(x) = [i \in Item |-> v[i]]
        BY <2>1, <2>2, <1>4
    <2>4. QED BY <2>3, <1>3
<1>9. QED BY <1>7, <1>8 DEF x, v, written, z

\* A read gives the request up, or asks for a renumber, or chooses a rank.
ReadEnds(q, s, v, t) ==
    LET u == Upper(v, s.item, s.after, s.before)
        l == Lower(v, s.item, s.after, s.before)
    IN  /\ t.item = s.item /\ t.after = s.after /\ t.before = s.before /\ t.fresh = s.fresh
        /\ t.write \in Writes /\ Seen(t.write) = v
        /\ Asked(v, s.item, s.after, s.before)
        /\ \/ /\ s.at = "locked" /\ t.at = "cramped"
           \/ /\ s.at = "renumbered" /\ t.at = "stuck" /\ NoRoom(v, u, l)
           \/ /\ t.at = "chosen" /\ t.rank = Between(v, u, l) /\ ~NoRoom(v, u, l)

LEMMA ReadMoves ==
    ASSUME Types, NEW q \in Request, Read(q)
    PROVE  \E t \in Transaction :
             /\ state' = [state EXCEPT ![q] = t] /\ Phase(t)
             /\ t = Idle \/ ReadEnds(q, state[q], AllRanked(Seen(state[q].write)), t)
<1> DEFINE s == state[q]
           v == AllRanked(Seen(s.write))
           u == Upper(v, s.item, s.after, s.before)
           l == Lower(v, s.item, s.after, s.before)
           written == DOMAIN s.write \cup {i \in member : Seen(s.write)[i] = NoRank}
           x == [i \in written |-> v[i]]
           Fit == Anchors(q) \subseteq member /\ (s.after # NoItem /\ s.before # NoItem
                                                    => Above(v, s.after, s.before))
<1>1. s \in Transaction /\ Phase(s) /\ s.at \in {"locked", "renumbered"}
    BY DEF Types, Read
<1>2. s.write \in Writes /\ s.item \in Item /\ s.rank = NoRank
    BY <1>1 DEF Transaction, Phase
<1>3. CASE ~Fit
    <2>1. state' = [state EXCEPT ![q] = Idle]
        BY <1>3 DEF Read
    <2>2. QED BY <2>1, IdleIs
<1>4. CASE Fit
    <2>1. Asked(v, s.item, s.after, s.before)
        <3>1. /\ Seen(s.write) \in Ranking /\ IsFiniteSet(Ranked(Seen(s.write)))
            BY <1>2, SeenIsRanking DEF Types, Tables
        <3>2. /\ v \in Ranking /\ Ranked(v) = Ranked(Seen(s.write)) \cup member
            BY <3>1, AllRankedPlaces DEF Types, Tables
        <3>3. /\ s.item \notin {s.after, s.before}
              /\ s.after # NoItem \/ s.before # NoItem
            <4> HIDE DEF s
            <4>1. s.at \in Reordering
                BY <1>1 DEF Reordering
            <4>2. QED BY <1>1, <4>1 DEF Phase
        <3>4. {s.after, s.before} \ {NoItem} \subseteq member
            BY <1>4 DEF Anchors
        <3>5. s.after # NoItem /\ s.before # NoItem => Above(v, s.after, s.before)
            BY <1>4
        <3>6. member \subseteq Item /\ IsFiniteSet(member)
            BY DEF Types, Tables
        <3> HIDE DEF s, v
        <3>7. QED BY <1>2, <3>2, <3>3, <3>4, <3>5, <3>6 DEF Asked
    <2>2. x \in Writes /\ Seen(x) = v
        BY <1>2, ReadSees DEF Types
    <2>3. CASE NoRoom(v, u, l)
        <3> DEFINE t == [[s EXCEPT !.write = x] EXCEPT
                            !.at = IF s.at = "locked" THEN "cramped" ELSE "stuck"]
        <3>1. state' = [state EXCEPT ![q] = t]
            BY <1>4, <2>3 DEF Read
        <3> HIDE DEF x, v, u, l
        <3>2. /\ t \in Transaction
              /\ t.item = s.item /\ t.after = s.after /\ t.before = s.before
              /\ t.fresh = s.fresh /\ t.write = x /\ t.rank = NoRank
              /\ \/ s.at = "locked" /\ t.at = "cramped"
                 \/ s.at = "renumbered" /\ t.at = "stuck"
            BY <1>1, <1>2, <2>2 DEF Transaction, Reordering
        <3> HIDE DEF t, s
        <3>3. Phase(t)
            BY <1>1, <3>2 DEF Phase, Reordering
        <3>4. ReadEnds(q, s, v, t)
            BY <2>1, <2>2, <2>3, <3>2 DEF ReadEnds, u, l
        <3>5. QED BY <3>1, <3>2, <3>3, <3>4 DEF s, v
    <2>4. CASE ~NoRoom(v, u, l)
        <3> DEFINE r == Between(v, u, l)
                   t == [[s EXCEPT !.write = x] EXCEPT !.at = "chosen", !.rank = r]
        <3>1. state' = [state EXCEPT ![q] = t]
            BY <1>4, <2>4 DEF Read
        <3>2. r \in Int
            BY <2>1, <2>4, ChosenBetween
        <3> HIDE DEF x, v, u, l, r
        <3>3. /\ t \in Transaction
              /\ t.item = s.item /\ t.after = s.after /\ t.before = s.before
              /\ t.fresh = s.fresh /\ t.write = x /\ t.rank = r /\ t.at = "chosen"
            BY <1>1, <1>2, <2>2, <3>2 DEF Transaction, Reordering
        <3> HIDE DEF t, s
        <3>4. Phase(t)
            BY <1>1, <3>2, <3>3, Constants DEF Phase, Reordering
        <3>5. ReadEnds(q, s, v, t)
            BY <2>1, <2>2, <2>4, <3>3 DEF ReadEnds, u, l, r
        <3>6. QED BY <3>1, <3>3, <3>4, <3>5 DEF s, v
    <2>5. QED BY <2>3, <2>4
<1>5. QED BY <1>3, <1>4

LEMMA RenumberMoves ==
    ASSUME Types, NEW q \in Request, Renumber(q)
    PROVE  LET t == [state[q] EXCEPT !.at = "renumbered",
                                     !.write = Renumbered(Seen(state[q].write))]
           IN  /\ t \in Transaction /\ Phase(t)
               /\ state' = [state EXCEPT ![q] = t]
<1> DEFINE w == Renumbered(Seen(state[q].write))
           t == [state[q] EXCEPT !.at = "renumbered", !.write = w]
<1>1. state[q] \in Transaction /\ Phase(state[q]) /\ state[q].at = "cramped"
    BY DEF Types, Renumber
<1>2. w \in Writes
    <2> DEFINE z == Seen(state[q].write)
    <2>1. z \in Ranking /\ IsFiniteSet(Ranked(z))
        BY <1>1, SeenIsRanking DEF Types, Tables, Transaction
    <2> HIDE DEF z
    <2>2. Renumbered(z) \in [Ranked(z) -> Int] /\ Ranked(z) \subseteq Item
        BY <2>1, RenumberedSpreads DEF Ranked
    <2>3. Renumbered(z) \in Writes
        BY <2>1, <2>2, AreWrites
    <2>4. QED BY <2>3 DEF z
<1>3. state' = [state EXCEPT ![q] = t]
    BY <1>1 DEF Renumber, Types
<1> HIDE DEF w
<1>4. /\ t \in Transaction /\ t.at = "renumbered" /\ t.item = state[q].item
      /\ t.after = state[q].after /\ t.before = state[q].before /\ t.rank = state[q].rank
    BY <1>1, <1>2 DEF Transaction, Reordering
<1>5. Phase(t)
    BY <1>1, <1>4 DEF Phase, Reordering
<1>6. QED BY <1>3, <1>4, <1>5 DEF w

LEMMA RankedOne ==
    ASSUME NEW v \in Ranking, IsFiniteSet(Ranked(v)), NEW i \in Item, NEW r \in Int \cup {NoRank}
    PROVE  [v EXCEPT ![i] = r] \in Ranking /\ IsFiniteSet(Ranked([v EXCEPT ![i] = r]))
<1> DEFINE x == [v EXCEPT ![i] = r]
<1>1. x \in Ranking /\ \A j \in Item \ {i} : x[j] = v[j]
    BY DEF Ranking
<1> HIDE DEF x
<1>2. Ranked(x) \subseteq Ranked(v) \cup {i}
    BY <1>1 DEF Ranked
<1>3. IsFiniteSet(Ranked(x))
    BY <1>2, FS_AddElement, FS_Subset
<1>4. QED BY <1>1, <1>3 DEF x

LEMMA CommitPlaceMoves ==
    ASSUME Types, NEW q \in Request, CommitPlace(q)
    PROVE  /\ Tables'
           /\ state[q].item \in Item
           /\ member' \subseteq member \cup {state[q].item}
           /\ rank' = [rank EXCEPT ![state[q].item] = state[q].rank]
           /\ state' = Came([state EXCEPT ![q] = Idle], state[q].item)
<1>1. /\ state[q] \in Transaction /\ Phase(state[q])
      /\ state[q].at \in {"placed", "joined", "filed"}
    BY DEF Types, CommitPlace
<1> DEFINE i == state[q].item
           r == state[q].rank
<1>2. i \in Item /\ r \in Int
    BY <1>1 DEF Transaction, Phase
<1>3. /\ member' = IF state[q].at = "placed" THEN member ELSE member \cup {i}
      /\ rank' = [rank EXCEPT ![i] = r]
      /\ state' = Came([state EXCEPT ![q] = Idle], i)
    BY DEF CommitPlace
<1> HIDE DEF i, r
<1>4. member' \subseteq Item /\ IsFiniteSet(member')
    BY <1>2, <1>3, FS_AddElement DEF Types, Tables
<1>5. rank' \in Ranking /\ IsFiniteSet(Ranked(rank'))
    BY <1>2, <1>3, RankedOne DEF Types, Tables
<1>6. Ranked(rank)' = Ranked(rank')
    BY DEF Ranked
<1>7. Tables'
    BY <1>4, <1>5, <1>6 DEF Tables
<1>8. QED BY <1>2, <1>3, <1>7 DEF i, r

LEMMA CommitReorderMoves ==
    ASSUME Types, NEW q \in Request, CommitReorder(q)
    PROVE  /\ Tables'
           /\ state[q].item \in Item /\ state[q].rank \in Int
           /\ rank' = [Seen(state[q].write) EXCEPT ![state[q].item] = state[q].rank]
           /\ state' = [state EXCEPT ![q] = Idle]
           /\ member' = member
<1>1. state[q] \in Transaction /\ Phase(state[q]) /\ state[q].at = "chosen"
    BY DEF Types, CommitReorder
<1> DEFINE i == state[q].item
           r == state[q].rank
           v == Seen(state[q].write)
<1>2. i \in Item /\ r \in Int
    BY <1>1 DEF Transaction, Phase
<1>3. v \in Ranking /\ IsFiniteSet(Ranked(v))
    BY <1>1, SeenIsRanking DEF Types, Tables, Transaction
<1>4. rank' = [v EXCEPT ![i] = r] /\ state' = [state EXCEPT ![q] = Idle] /\ member' = member
    BY DEF CommitReorder
<1> HIDE DEF i, r, v
<1>5. rank' \in Ranking /\ IsFiniteSet(Ranked(rank'))
    BY <1>2, <1>3, <1>4, RankedOne
<1>6. Ranked(rank)' = Ranked(rank')
    BY DEF Ranked
<1>7. Tables'
    BY <1>4, <1>5, <1>6 DEF Tables, Types
<1>8. QED BY <1>2, <1>4, <1>7 DEF i, r, v

\* Members leave, return, arrive and depart while no request holds them.
LEMMA MembersMove ==
    ASSUME Types, NEW q \in Request, NEW i \in Item,
           Leave(q, i) \/ Return(q, i) \/ Arrive(q, i) \/ Depart(q, i)
    PROVE  Tables'
<1>1. member \subseteq Item /\ IsFiniteSet(member) /\ rank \in Ranking /\ IsFiniteSet(Ranked(rank))
    BY DEF Types, Tables
<1>2. member' \subseteq member \cup {i} /\ (rank' = rank \/ rank' = [rank EXCEPT ![i] = NoRank])
    BY DEF Leave, Return, Arrive, Depart
<1>3. member' \subseteq Item /\ IsFiniteSet(member')
    BY <1>1, <1>2, FS_AddElement, FS_Subset
<1>4. rank' \in Ranking /\ IsFiniteSet(Ranked(rank'))
    BY <1>1, <1>2, RankedOne
<1>5. Ranked(rank)' = Ranked(rank')
    BY DEF Ranked
<1>6. QED BY <1>3, <1>4, <1>5 DEF Tables

LEMMA TypesStep == Types /\ [Next]_vars => Types'
<1> SUFFICES ASSUME Types, [Next]_vars PROVE Types'
    OBVIOUS
<1>1. CASE UNCHANGED vars
    BY <1>1 DEF Types, Tables, Ranked, vars
<1>2. CASE Next
    <2>1. PICK q \in Request :
            \/ \E i \in Item, joins \in BOOLEAN : Load(q, i, joins)
            \/ Place(q)
            \/ \E i \in Item : File(q, i)
            \/ CommitPlace(q)
            \/ \E i \in Item : Leave(q, i)
            \/ \E i \in Item : Return(q, i)
            \/ \E i \in Item : Arrive(q, i)
            \/ \E i \in Item : Depart(q, i)
            \/ \E i \in Item, after, before \in Item \cup {NoItem} : Lock(q, i, after, before)
            \/ Read(q)
            \/ Renumber(q)
            \/ CommitReorder(q)
            \/ Abort(q)
        BY <1>2 DEF Next
    <2>2. (UNCHANGED <<member, rank>>) => Tables'
        BY DEF Types, Tables, Ranked
    <2>3. ASSUME NEW t \in Transaction, Phase(t), state' = [state EXCEPT ![q] = t], Tables'
          PROVE  Types'
        <3>1. state' \in [Request -> Transaction] /\ \A p \in Request : Phase(state'[p])
            BY <2>3, OneMoves
        <3>2. QED BY <3>1, <2>3 DEF Types
    <2>4. ASSUME NEW s \in [Request -> Transaction], NEW i \in Item,
                 \A p \in Request : Phase(s[p]), state' = Came(s, i), Tables'
          PROVE  Types'
        <3>1. state' \in [Request -> Transaction] /\ \A p \in Request : Phase(state'[p])
            BY <2>4, CameIs
        <3>2. QED BY <3>1, <2>4 DEF Types
    <2>5. CASE \E i \in Item, joins \in BOOLEAN : Load(q, i, joins)
        <3>1. UNCHANGED <<member, rank>>
            BY <2>5 DEF Load
        <3>2. QED BY <3>1, <2>2, <2>3, <2>5, LoadMoves
    <2>6. CASE Place(q)
        <3>1. UNCHANGED <<member, rank>>
            BY <2>6 DEF Place
        <3>2. QED BY <3>1, <2>2, <2>3, <2>6, PlaceMoves
    <2>7. CASE \E i \in Item : File(q, i)
        <3>1. UNCHANGED <<member, rank>>
            BY <2>7 DEF File
        <3>2. QED BY <3>1, <2>2, <2>3, <2>7, FileMoves
    <2>8. CASE CommitPlace(q)
        <3> DEFINE s == [state EXCEPT ![q] = Idle]
        <3>1. s \in [Request -> Transaction] /\ \A p \in Request : Phase(s[p])
            BY IdleIs DEF Types
        <3>2. Tables' /\ state[q].item \in Item /\ state' = Came(s, state[q].item)
            BY <2>8, CommitPlaceMoves
        <3> HIDE DEF s
        <3>3. QED BY <3>1, <3>2, <2>4
    <2>9. CASE \E i \in Item : Leave(q, i)
        <3>1. Tables' /\ state' = state
            BY <2>9, MembersMove DEF Leave
        <3>2. QED BY <3>1 DEF Types
    <2>10. CASE \E i \in Item : Return(q, i)
        <3>1. PICK i \in Item : Return(q, i)
            BY <2>10
        <3>2. Tables' /\ state' = Came(state, i)
            BY <3>1, MembersMove DEF Return
        <3>3. QED BY <3>2, <2>4 DEF Types
    <2>11. CASE \E i \in Item : Arrive(q, i)
        <3>1. Tables' /\ state' = state
            BY <2>11, MembersMove DEF Arrive
        <3>2. QED BY <3>1 DEF Types
    <2>12. CASE \E i \in Item : Depart(q, i)
        <3>1. PICK i \in Item : Depart(q, i)
            BY <2>12
        <3>2. Tables' /\ state' = Came(state, i)
            BY <3>1, MembersMove DEF Depart
        <3>3. QED BY <3>2, <2>4 DEF Types
    <2>13. CASE \E i \in Item, after, before \in Item \cup {NoItem} : Lock(q, i, after, before)
        <3>1. UNCHANGED <<member, rank>>
            BY <2>13 DEF Lock
        <3>2. QED BY <3>1, <2>2, <2>3, <2>13, LockMoves
    <2>14. CASE Read(q)
        <3>1. UNCHANGED <<member, rank>>
            BY <2>14 DEF Read
        <3>2. QED BY <3>1, <2>2, <2>3, <2>14, ReadMoves
    <2>15. CASE Renumber(q)
        <3>1. UNCHANGED <<member, rank>>
            BY <2>15 DEF Renumber
        <3>2. QED BY <3>1, <2>2, <2>3, <2>15, RenumberMoves
    <2>16. CASE CommitReorder(q)
        BY <2>3, <2>16, CommitReorderMoves, IdleIs
    <2>17. CASE Abort(q)
        <3>1. (UNCHANGED <<member, rank>>) /\ state' = [state EXCEPT ![q] = Idle]
            BY <2>17 DEF Abort
        <3>2. QED BY <3>1, <2>2, <2>3, IdleIs
    <2>18. QED BY <2>1, <2>5, <2>6, <2>7, <2>8, <2>9, <2>10, <2>11, <2>12, <2>13, <2>14, <2>15,
                  <2>16, <2>17
<1>3. QED BY <1>1, <1>2

LEMMA TypesStart == Init => Types
<1> SUFFICES ASSUME Init PROVE Types
    OBVIOUS
<1>1. Tables
    <2>1. Ranked(rank) = {}
        BY DEF Init, Ranked
    <2>2. QED BY <2>1, FS_EmptySet DEF Init, Tables, Ranking
<1>2. QED BY <1>1, IdleIs DEF Init, Types

\* For any items and requests: ranks are numbers or null, a transaction has a
\* rank exactly once it chose one, and what ended left nothing behind.
THEOREM BacklogTypeCorrect == Spec => []TypeOK
<1>1. Types => TypeOK
    <2> SUFFICES ASSUME Types PROVE TypeOK
        OBVIOUS
    <2>1. member \subseteq Item /\ rank \in [Item -> Int \cup {NoRank}]
        BY DEF Types, Tables, Ranking
    <2>2. ASSUME NEW q \in Request
          PROVE  /\ state[q].at \in {"idle"} \cup Placing \cup Reordering
                 /\ state[q].item \in Item \cup {NoItem}
                 /\ state[q].at = "idle" => state[q] = Idle
                 /\ state[q].at \in {"chosen", "placed", "joined", "filed"} <=> state[q].rank # NoRank
                 /\ DOMAIN state[q].write \subseteq Item
                 /\ \A i \in DOMAIN state[q].write : state[q].write[i] \in Int
        <3>1. state[q] \in Transaction /\ Phase(state[q])
            BY DEF Types
        <3>2. state[q].write \in Writes
            BY <3>1 DEF Transaction
        <3>3. QED BY <3>1, <3>2, WritesAre DEF Transaction, Phase
    <2>3. QED BY <2>1, <2>2 DEF TypeOK
<1>2. QED BY <1>1, TypesStart, TypesStep, PTL DEF Spec

(***************************************************************************)
(* A reorder from the lock to the commit                                   *)
(***************************************************************************)
\* One reorder at a time, and nothing filed while it runs.
Alone ==
    \A p \in Request : \A q \in Request \ {p} :
        state[p].at \in Reordering => state[q].at \notin Reordering \cup {"filed"}

View(q) == Seen(state[q].write)

\* The items whose order is the request's to keep, and the members it must
\* find a place among.
Live(q) == {j \in Item \ state[q].fresh : j \in member \/ rank[j] # NoRank}
Around(q) == member \ (state[q].fresh \cup {state[q].item})

OrderKept(q) == \A j, k \in Live(q) : Above(View(q), j, k) <=> Above(rank, j, k)

MembersRanked(q) == member \ state[q].fresh \subseteq Ranked(View(q))

Spaced(q) ==
    LET w == state[q].write IN
    /\ member \ state[q].fresh \subseteq DOMAIN w
    /\ \A j, k \in DOMAIN w : j # k => w[j] + Step <= w[k] \/ w[k] + Step <= w[j]

\* The chosen rank still is on the asked side of the anchors, and beside a
\* single one.
Lands(q) ==
    LET s == state[q]
        v == View(q)
    IN  /\ s.after \in Around(q) => v[s.after] < s.rank
        /\ s.before \in Around(q) => s.rank < v[s.before]
        /\ NoItem \in {s.after, s.before} => \A j \in Around(q) : v[j] # s.rank
        /\ s.before = NoItem /\ s.after \in Around(q) =>
             \A j \in Around(q) \ {s.after} : v[j] < s.rank <=> Above(v, j, s.after)
        /\ s.after = NoItem /\ s.before \in Around(q) =>
             \A j \in Around(q) : v[j] < s.rank <=> Above(v, j, s.before)

Held(q) ==
    state[q].at \in Reordering =>
        /\ OrderKept(q)
        /\ state[q].at # "locked" => MembersRanked(q)
        /\ state[q].at = "renumbered" => Spaced(q)
        /\ state[q].at = "chosen" => Lands(q)
        /\ state[q].at = "stuck" => state[q].fresh # {}

IInv ==
    /\ Types
    /\ Alone
    /\ \A q \in Request : Held(q)

\* What may happen to a reorder that waits: items come, and count as fresh;
\* members leave.
Undisturbed(p) ==
    /\ state'[p].at = state[p].at /\ state'[p].item = state[p].item
    /\ state'[p].after = state[p].after /\ state'[p].before = state[p].before
    /\ state'[p].rank = state[p].rank /\ state'[p].write = state[p].write
    /\ state[p].fresh \subseteq state'[p].fresh
    /\ \A j \in Item \ state'[p].fresh :
          rank'[j] = rank[j] /\ (j \in member' => j \in member)

LEMMA UndisturbedStaysHeld ==
    ASSUME Types, Types', NEW p \in Request, Held(p), Undisturbed(p)
    PROVE  Held(p)'
<1> SUFFICES ASSUME state[p].at \in Reordering PROVE Held(p)'
    BY DEF Held, Undisturbed
<1> DEFINE F == state'[p].fresh
           v == View(p)
           z == View(p)'
<1>1. /\ state[p] \in Transaction /\ Phase(state[p])
      /\ state'[p].write = state[p].write /\ state[p].write \in Writes
      /\ rank \in Ranking /\ IsFiniteSet(Ranked(rank))
      /\ rank' \in Ranking /\ IsFiniteSet(Ranked(rank'))
    BY DEF Types, Tables, Transaction, Undisturbed, Ranked
<1>2. \A j \in Item \ F : z[j] = v[j] /\ rank'[j] = rank[j]
    BY <1>1 DEF View, Seen, Undisturbed
<1>3. /\ state[p].fresh \subseteq F
      /\ \A j \in Item \ F : rank'[j] = rank[j] /\ (j \in member' => j \in member)
      /\ member' \subseteq Item /\ member \subseteq Item
    BY DEF Undisturbed, Types, Tables
<1>4. /\ Live(p)' \subseteq Live(p) /\ Live(p)' \subseteq Item \ F
      /\ Around(p)' \subseteq Around(p) /\ Around(p)' \subseteq Item \ F
      /\ member' \ F \subseteq member \ state[p].fresh
    BY <1>3 DEF Live, Around, Undisturbed
<1>5. \A j, k \in Item \ F : /\ Above(z, j, k) <=> Above(v, j, k)
                             /\ Above(rank', j, k) <=> Above(rank, j, k)
    BY <1>2 DEF Above
<1>6. OrderKept(p)'
    <2>1. OrderKept(p)
        BY DEF Held
    <2> HIDE DEF z, v, F
    <2>2. \A j, k \in Live(p)' : Above(z, j, k) <=> Above(rank', j, k)
        BY <1>4, <1>5, <2>1 DEF OrderKept, v
    <2>3. QED BY <2>2 DEF OrderKept, z
<1>7. state'[p].at # "locked" => MembersRanked(p)'
    <2> SUFFICES ASSUME state'[p].at # "locked" PROVE MembersRanked(p)'
        OBVIOUS
    <2>1. member \ state[p].fresh \subseteq Ranked(v)
        BY DEF Held, Undisturbed, MembersRanked
    <2> HIDE DEF z, v
    <2>2. member' \ F \subseteq Ranked(z)
        BY <2>1, <1>2, <1>3, <1>4 DEF Ranked
    <2>3. Ranked(View(p))' = Ranked(z)
        BY DEF Ranked, z
    <2>4. QED BY <2>2, <2>3 DEF MembersRanked
<1>8. state'[p].at = "renumbered" => Spaced(p)'
    <2> SUFFICES ASSUME state'[p].at = "renumbered" PROVE Spaced(p)'
        OBVIOUS
    <2>1. Spaced(p)
        BY DEF Held, Undisturbed
    <2>2. QED BY <2>1, <1>1, <1>4 DEF Spaced
<1>9. state'[p].at = "chosen" => Lands(p)'
    <2> SUFFICES ASSUME state'[p].at = "chosen" PROVE Lands(p)'
        OBVIOUS
    <2>1. Lands(p)
        BY DEF Held, Undisturbed
    <2> DEFINE s == state[p]
               t == state'[p]
               K == Around(p)'
    <2>2. t.item = s.item /\ t.after = s.after /\ t.before = s.before /\ t.rank = s.rank
        BY DEF Undisturbed
    <2>3. K \subseteq Around(p) /\ K \subseteq Item \ F
        BY <1>4
    <2>4. /\ s.after \in Around(p) => v[s.after] < s.rank
          /\ s.before \in Around(p) => s.rank < v[s.before]
          /\ NoItem \in {s.after, s.before} => \A j \in Around(p) : v[j] # s.rank
          /\ s.before = NoItem /\ s.after \in Around(p) =>
               \A j \in Around(p) \ {s.after} : v[j] < s.rank <=> Above(v, j, s.after)
          /\ s.after = NoItem /\ s.before \in Around(p) =>
               \A j \in Around(p) : v[j] < s.rank <=> Above(v, j, s.before)
        BY <2>1 DEF Lands
    <2> HIDE DEF z, v, F, K, s, t
    <2>5. \A j \in K : z[j] = v[j]
        BY <1>2, <2>3
    <2>6. \A j, a \in K : Above(z, j, a) <=> Above(v, j, a)
        BY <1>5, <2>3
    <2>7. /\ t.after \in K => z[t.after] < t.rank
          /\ t.before \in K => t.rank < z[t.before]
        BY <2>2, <2>3, <2>4, <2>5
    <2>8. NoItem \in {t.after, t.before} => \A j \in K : z[j] # t.rank
        BY <2>2, <2>3, <2>4, <2>5
    <2>9. t.before = NoItem /\ t.after \in K =>
             \A j \in K \ {t.after} : z[j] < t.rank <=> Above(z, j, t.after)
        BY <2>2, <2>3, <2>4, <2>5, <2>6
    <2>10. t.after = NoItem /\ t.before \in K =>
             \A j \in K : z[j] < t.rank <=> Above(z, j, t.before)
        BY <2>2, <2>3, <2>4, <2>5, <2>6
    <2>11. QED BY <2>7, <2>8, <2>9, <2>10 DEF Lands, K, t, z
<1>10. state'[p].at = "stuck" => state'[p].fresh # {}
    BY <1>3 DEF Held, Undisturbed
<1>11. QED BY <1>6, <1>7, <1>8, <1>9, <1>10 DEF Held

\* A step of q that leaves the other reorders undisturbed keeps the invariant
\* when it keeps it for q itself.
LEMMA StepKeeps ==
    ASSUME IInv, Types', NEW q \in Request,
           \A p \in Request \ {q} :
               /\ state[p].at \notin Reordering => state'[p].at = state[p].at
               /\ state[p].at \in Reordering => Undisturbed(p),
           state'[q].at \in Reordering => /\ Held(q)'
                                          /\ state[q].at \in Reordering \/ ProjectFree(q),
           state'[q].at = "filed" => NotReordered(q)
    PROVE  IInv'
<1>1. \A p \in Request \ {q} : state'[p].at = state[p].at
    BY DEF Undisturbed
<1>2. Alone'
    <2>1. ASSUME NEW p \in Request, NEW r \in Request \ {p}, state'[p].at \in Reordering
          PROVE  state'[r].at \notin Reordering \cup {"filed"}
        <3>1. CASE p # q /\ r # q
            BY <1>1, <2>1, <3>1 DEF IInv, Alone
        <3>2. CASE p = q
            <4>1. state'[r].at = state[r].at
                BY <1>1, <3>2
            <4>2. CASE state[q].at \in Reordering
                BY <3>2, <4>1, <4>2 DEF IInv, Alone
            <4>3. CASE ProjectFree(q)
                BY <3>2, <4>1, <4>3 DEF ProjectFree
            <4>4. QED BY <2>1, <3>2, <4>2, <4>3
        <3>3. CASE r = q
            <4>1. state'[p].at = state[p].at /\ state[p].at \in Reordering /\ p # q
                BY <1>1, <2>1, <3>3
            <4>2. state'[q].at # "filed"
                BY <4>1 DEF NotReordered
            <4>3. state[q].at \notin Reordering
                BY <4>1, <3>3 DEF IInv, Alone
            <4>4. ~ProjectFree(q)
                BY <4>1 DEF ProjectFree
            <4>5. QED BY <3>3, <4>2, <4>3, <4>4
        <3>4. QED BY <3>1, <3>2, <3>3
    <2>2. QED BY <2>1 DEF Alone
<1>3. ASSUME NEW p \in Request PROVE Held(p)'
    <2>1. CASE p = q
        BY <2>1 DEF Held
    <2>2. CASE p # q /\ state[p].at \notin Reordering
        BY <1>1, <2>2 DEF Held
    <2>3. CASE p # q /\ state[p].at \in Reordering
        BY <2>3, UndisturbedStaysHeld DEF IInv
    <2>4. QED BY <2>1, <2>2, <2>3
<1>4. QED BY <1>2, <1>3 DEF IInv

\* Only q moves, and no table changes.
LEMMA OthersWait ==
    ASSUME Types, NEW q \in Request, NEW t, state' = [state EXCEPT ![q] = t],
           UNCHANGED <<member, rank>>
    PROVE  /\ state'[q] = t
           /\ \A p \in Request \ {q} : state'[p] = state[p] /\ Undisturbed(p)
<1>1. state'[q] = t /\ \A p \in Request \ {q} : state'[p] = state[p]
    BY DEF Types
<1>2. QED BY <1>1 DEF Undisturbed

\* One item comes or goes, and counts as fresh.
LEMMA OthersSeeItCome ==
    ASSUME Types, NEW s \in [Request -> Transaction], NEW i \in Item, NEW q \in Request,
           \A p \in Request : Phase(s[p]),
           \A p \in Request \ {q} : s[p] = state[p], s[q].at = "idle",
           state' = Came(s, i),
           \A j \in Item \ {i} : rank'[j] = rank[j] /\ (j \in member' => j \in member)
    PROVE  /\ state'[q].at = "idle"
           /\ \A p \in Request \ {q} :
                  /\ state[p].at \notin Reordering => state'[p].at = state[p].at
                  /\ state[p].at \in Reordering => Undisturbed(p)
<1>1. /\ \A p \in Request : s[p].at \notin Reordering => state'[p] = s[p]
      /\ \A p \in Request : s[p].at \in Reordering => state'[p] = [s[p] EXCEPT !.fresh = @ \cup {i}]
    BY CameIs
<1>2. state'[q].at = "idle"
    BY <1>1 DEF Reordering
<1>3. ASSUME NEW p \in Request \ {q}, state[p].at \in Reordering PROVE Undisturbed(p)
    <2>1. state[p] \in Transaction
        BY DEF Types
    <2>2. state'[p] = [state[p] EXCEPT !.fresh = state[p].fresh \cup {i}]
        BY <1>1, <1>3
    <2>3. /\ state'[p].at = state[p].at /\ state'[p].item = state[p].item
          /\ state'[p].after = state[p].after /\ state'[p].before = state[p].before
          /\ state'[p].rank = state[p].rank /\ state'[p].write = state[p].write
          /\ state'[p].fresh = state[p].fresh \cup {i}
        BY <2>1, <2>2 DEF Transaction
    <2>4. QED BY <2>3 DEF Undisturbed
<1>4. QED BY <1>1, <1>2, <1>3

\* Behind the lock a request sees what is committed.
LEMMA LockHolds ==
    ASSUME Types, NEW q \in Request, NEW i \in Item,
           NEW after \in Item \cup {NoItem}, NEW before \in Item \cup {NoItem},
           Lock(q, i, after, before)
    PROVE  Held(q)' /\ state'[q].at = "locked"
<1>1. PICK t \in Transaction : state' = [state EXCEPT ![q] = t] /\ Phase(t) /\ t.at = "locked"
    BY LockMoves
<1>2. t.at = "locked"
    BY <1>1
<1>3. state'[q] = t
    BY <1>1 DEF Types
<1>4. DOMAIN state'[q].write = {}
    BY <1>1, <1>2, <1>3 DEF Phase
<1>5. \A j \in Item : View(q)'[j] = rank'[j]
    BY <1>4 DEF View, Seen
<1>6. OrderKept(q)'
    <2> DEFINE z == View(q)'
    <2>1. \A j, k \in Item : Above(z, j, k) <=> Above(rank', j, k)
        BY <1>5 DEF Above
    <2> HIDE DEF z
    <2>2. Live(q)' \subseteq Item
        BY DEF Live
    <2>3. \A j, k \in Live(q)' : Above(z, j, k) <=> Above(rank', j, k)
        BY <2>1, <2>2
    <2>4. QED BY <2>3 DEF OrderKept, z
<1>7. QED BY <1>2, <1>3, <1>6 DEF Held

\* What a request sees, it sees ranked; the items to keep in order are there.
LEMMA ViewIs ==
    ASSUME Types, NEW q \in Request
    PROVE  /\ View(q) \in Ranking /\ IsFiniteSet(Ranked(View(q)))
           /\ Ranked(View(q)) = Ranked(rank) \cup DOMAIN state[q].write
           /\ \A i \in DOMAIN state[q].write : View(q)[i] = state[q].write[i]
           /\ Live(q) \subseteq Ranked(View(q)) \cup (member \ state[q].fresh)
<1>1. state[q].write \in Writes /\ rank \in Ranking /\ IsFiniteSet(Ranked(rank))
    BY DEF Types, Tables, Transaction
<1>2. /\ View(q) \in Ranking /\ IsFiniteSet(Ranked(View(q)))
      /\ Ranked(View(q)) = Ranked(rank) \cup DOMAIN state[q].write
      /\ \A i \in DOMAIN state[q].write : View(q)[i] = state[q].write[i]
    BY <1>1, SeenIsRanking DEF View
<1>3. Live(q) \subseteq Ranked(rank) \cup (member \ state[q].fresh)
    BY DEF Live, Ranked
<1>4. QED BY <1>2, <1>3

LEMMA RenumberHolds ==
    ASSUME IInv, NEW q \in Request, Renumber(q)
    PROVE  Held(q)' /\ state[q].at \in Reordering /\ state'[q].at = "renumbered"
<1> DEFINE v == View(q)
           w == Renumbered(v)
           t == [state[q] EXCEPT !.at = "renumbered", !.write = w]
<1>1. t \in Transaction /\ state' = [state EXCEPT ![q] = t]
    BY RenumberMoves DEF IInv, View
<1>2. /\ state[q] \in Transaction /\ state[q].at = "cramped" /\ state[q].at \in Reordering
      /\ member' = member /\ rank' = rank /\ Types
    BY DEF IInv, Types, Renumber, Reordering
<1>3. state'[q].at = "renumbered" /\ state'[q].write = w /\ state'[q].fresh = state[q].fresh
    <2>1. state'[q] = t
        BY <1>1, <1>2 DEF Types
    <2> HIDE DEF w
    <2>2. QED BY <2>1, <1>2 DEF Transaction
<1>4. OrderKept(q) /\ MembersRanked(q)
    BY <1>2 DEF IInv, Held
<1>5. /\ v \in Ranking /\ IsFiniteSet(Ranked(v)) /\ Ranked(rank) \subseteq Ranked(v)
      /\ Live(q) \subseteq Ranked(v) \cup (member \ state[q].fresh)
      /\ rank \in Ranking
    BY <1>2, ViewIs DEF Types, Tables
<1>6. Live(q) \subseteq Ranked(v) /\ member \ state[q].fresh \subseteq Ranked(v)
    BY <1>4, <1>5 DEF MembersRanked
<1> DEFINE x == Seen(w)
<1>7. x = View(q)'
    BY <1>2, <1>3 DEF View, Seen
<1>8. /\ Ranked(x) = Ranked(v)
      /\ \A j, k \in Ranked(v) : Above(x, j, k) <=> Above(v, j, k)
    <2> HIDE DEF v
    <2>1. QED BY <1>5, RenumberedKeepsOrder
<1>9. /\ w \in [Ranked(v) -> Int]
      /\ \A i, j \in Ranked(v) : Above(v, i, j) => w[i] + Step <= w[j]
    <2> HIDE DEF v
    <2>1. QED BY <1>5, RenumberedSpreads
<1>10. Live(q)' = Live(q)
    BY <1>2, <1>3 DEF Live
<1>11. OrderKept(q)'
    <2>1. \A j, k \in Live(q) : Above(v, j, k) <=> Above(rank, j, k)
        BY <1>4 DEF OrderKept
    <2> HIDE DEF x, v, w
    <2>2. \A j, k \in Live(q)' : Above(x, j, k) <=> Above(rank', j, k)
        BY <2>1, <1>2, <1>6, <1>8, <1>10
    <2>3. QED BY <2>2, <1>7 DEF OrderKept
<1>12. MembersRanked(q)'
    <2> HIDE DEF x, v, w
    <2>1. member' \ state'[q].fresh \subseteq Ranked(x)
        BY <1>2, <1>3, <1>6, <1>8
    <2>2. Ranked(View(q))' = Ranked(x)
        BY <1>7 DEF Ranked
    <2>3. QED BY <2>1, <2>2 DEF MembersRanked
<1>13. Spaced(q)'
    <2> HIDE DEF w, v
    <2>1. DOMAIN w = Ranked(v) /\ Ranked(v) \subseteq Item
        BY <1>9 DEF Ranked
    <2>2. \A j, k \in DOMAIN w : j # k => w[j] + Step <= w[k] \/ w[k] + Step <= w[j]
        BY <2>1, <1>5, <1>9, AboveOrders
    <2>3. QED BY <2>1, <2>2, <1>2, <1>3, <1>6 DEF Spaced
<1>14. QED BY <1>2, <1>3, <1>11, <1>12, <1>13 DEF Held

\* After a renumber the neighbours are Step apart, unless one came since.
LEMMA RenumberMakesRoom ==
    ASSUME Types, NEW q \in Request, Spaced(q), state[q].fresh = {},
           NEW i, NEW after, NEW before,
           Asked(AllRanked(View(q)), i, after, before)
    PROVE  LET v == AllRanked(View(q)) IN
           ~NoRoom(v, Upper(v, i, after, before), Lower(v, i, after, before))
<1> DEFINE z == View(q)
           v == AllRanked(z)
           w == state[q].write
           u == Upper(v, i, after, before)
           l == Lower(v, i, after, before)
<1>1. /\ z \in Ranking /\ IsFiniteSet(Ranked(z))
      /\ Ranked(z) = Ranked(rank) \cup DOMAIN w
      /\ \A j \in DOMAIN w : z[j] = w[j]
    BY ViewIs
<1>2. member \subseteq DOMAIN w
    BY DEF Spaced
<1>3. v \in Ranking /\ member \subseteq Ranked(v) /\ \A j \in Ranked(z) : v[j] = z[j]
    <2> HIDE DEF z
    <2>1. QED BY <1>1, AllRankedPlaces DEF Types, Tables
<1>4. \A j \in member : v[j] = w[j]
    BY <1>1, <1>2, <1>3
<1>5. \A j, k \in member : j # k => w[j] + Step <= w[k] \/ w[k] + Step <= w[j]
    BY <1>2 DEF Spaced
<1>6. /\ u \in (member \ {i}) \cup {NoItem} /\ l \in (member \ {i}) \cup {NoItem}
      /\ u # NoItem /\ l # NoItem => Above(v, u, l)
    <2> HIDE DEF v
    <2>1. QED BY NeighboursFound DEF v
<1> SUFFICES ASSUME u # NoItem, l # NoItem PROVE ~(v[l] - v[u] < 2)
    BY DEF NoRoom
<1> HIDE DEF u, l, v, w, z
<1>7. u \in member /\ l \in member /\ Above(v, u, l) /\ u \in Item /\ l \in Item
    BY <1>6 DEF Types, Tables
<1>8. /\ v[u] \in Int /\ v[l] \in Int
      /\ v[u] < v[l] \/ v[u] = v[l]
    BY <1>3, <1>7, AboveRanked
<1>9. u # l
    BY <1>3, <1>7, AboveOrders
<1>10. v[u] + Step <= v[l] \/ v[l] + Step <= v[u]
    BY <1>4, <1>5, <1>7, <1>9
<1>11. QED BY <1>8, <1>10, Constants

LEMMA ReadHolds ==
    ASSUME IInv, NEW q \in Request, Read(q), NEW t \in Transaction,
           state' = [state EXCEPT ![q] = t],
           ReadEnds(q, state[q], AllRanked(Seen(state[q].write)), t)
    PROVE  Held(q)'
<1> DEFINE s == state[q]
           z == View(q)
           v == AllRanked(z)
           i == s.item
           after == s.after
           before == s.before
           u == Upper(v, i, after, before)
           l == Lower(v, i, after, before)
<1>1. /\ t.item = i /\ t.after = after /\ t.before = before /\ t.fresh = s.fresh
      /\ Seen(t.write) = v
      /\ Asked(v, i, after, before)
      /\ \/ /\ s.at = "locked" /\ t.at = "cramped"
         \/ /\ s.at = "renumbered" /\ t.at = "stuck" /\ NoRoom(v, u, l)
         \/ /\ t.at = "chosen" /\ t.rank = Between(v, u, l) /\ ~NoRoom(v, u, l)
    BY DEF ReadEnds, View
<1>2. /\ state'[q] = t /\ member' = member /\ rank' = rank /\ Types
      /\ s \in Transaction /\ s.at \in {"locked", "renumbered"} /\ s.at \in Reordering
    BY DEF IInv, Types, Read, Reordering
<1>3. View(q)' = v
    BY <1>1, <1>2 DEF View, Seen
<1>4. /\ z \in Ranking /\ IsFiniteSet(Ranked(z))
      /\ Live(q) \subseteq Ranked(z) \cup (member \ s.fresh)
      /\ member \subseteq Item /\ IsFiniteSet(member)
    BY <1>2, ViewIs DEF Types, Tables
<1>5. OrderKept(q)'
    <2>1. \A j, k \in Live(q) : Above(z, j, k) <=> Above(rank, j, k)
        BY <1>2 DEF IInv, Held, OrderKept
    <2> HIDE DEF z
    <2>2. \A j, k \in Ranked(z) \cup member : Above(v, j, k) <=> Above(z, j, k)
        BY <1>4, AllRankedKeepsOrder
    <2>3. Live(q)' = Live(q)
        BY <1>1, <1>2 DEF Live
    <2> HIDE DEF v
    <2>4. \A j, k \in Live(q)' : Above(v, j, k) <=> Above(rank', j, k)
        BY <2>1, <2>2, <2>3, <1>2, <1>4
    <2>5. QED BY <2>4, <1>3 DEF OrderKept
<1>6. MembersRanked(q)'
    <2>1. member \subseteq Ranked(v)
        BY <1>1 DEF Asked
    <2>2. Ranked(View(q))' = Ranked(v)
        BY <1>3 DEF Ranked
    <2> HIDE DEF v
    <2>3. QED BY <2>1, <2>2, <1>2 DEF MembersRanked
<1>7. t.at = "stuck" => t.fresh # {}
    <2> SUFFICES ASSUME t.at = "stuck", t.fresh = {} PROVE FALSE
        OBVIOUS
    <2>1. s.at = "renumbered" /\ NoRoom(v, u, l) /\ s.fresh = {}
        BY <1>1
    <2>2. Spaced(q)
        BY <1>2, <2>1 DEF IInv, Held
    <2> HIDE DEF i, after, before
    <2>3. QED BY <1>1, <1>2, <2>1, <2>2, RenumberMakesRoom
<1>8. t.at = "chosen" => Lands(q)'
    <2> SUFFICES ASSUME t.at = "chosen" PROVE Lands(q)'
        OBVIOUS
    <2> DEFINE r == t.rank
               K == Around(q)'
    <2>1. r = Between(v, u, l) /\ ~NoRoom(v, u, l)
        BY <1>1
    <2>2. /\ after # NoItem => v[after] < r
          /\ before # NoItem => r < v[before]
          /\ NoItem \in {after, before} => \A j \in member \ {i} : v[j] # r
          /\ before = NoItem =>
               \A j \in member \ {i, after} : v[j] < r <=> Above(v, j, after)
          /\ after = NoItem =>
               \A j \in member \ {i} : v[j] < r <=> Above(v, j, before)
        <3> HIDE DEF v, i, after, before, r
        <3>1. QED BY <1>1, <2>1, ChosenBetween
    <2>3. K \subseteq member \ {i} /\ NoItem \notin K
        BY <1>1, <1>2, <1>4, Constants DEF Around
    <2> HIDE DEF v, i, after, before, r, K
    <2>4. /\ after \in K => v[after] < r
          /\ before \in K => r < v[before]
          /\ NoItem \in {after, before} => \A j \in K : v[j] # r
          /\ before = NoItem /\ after \in K =>
               \A j \in K \ {after} : v[j] < r <=> Above(v, j, after)
          /\ after = NoItem /\ before \in K =>
               \A j \in K : v[j] < r <=> Above(v, j, before)
        BY <2>2, <2>3
    <2>5. QED BY <2>4, <1>1, <1>2, <1>3 DEF Lands, K, r
<1>9. t.at # "renumbered"
    BY <1>1
<1>10. QED BY <1>2, <1>5, <1>6, <1>7, <1>8, <1>9 DEF Held

LEMMA InvStart == Init => IInv
<1> SUFFICES ASSUME Init PROVE IInv
    OBVIOUS
<1>1. Types
    BY TypesStart
<1>2. \A q \in Request : state[q].at \notin Reordering
    BY IdleIs DEF Init, Reordering
<1>3. QED BY <1>1, <1>2 DEF IInv, Alone, Held

LEMMA InvStep == IInv /\ [Next]_vars => IInv'
<1> SUFFICES ASSUME IInv, [Next]_vars PROVE IInv'
    OBVIOUS
<1>1. Types /\ Types'
    BY TypesStep DEF IInv
<1>2. CASE UNCHANGED vars
    <2>1. member' = member /\ rank' = rank /\ state' = state
        BY <1>2 DEF vars
    <2>2. Alone'
        BY <2>1 DEF IInv, Alone
    <2>3. ASSUME NEW p \in Request PROVE Held(p)'
        <3>1. CASE state[p].at \in Reordering
            <4>1. Undisturbed(p)
                BY <2>1 DEF Undisturbed
            <4>2. QED BY <4>1, <3>1, <1>1, UndisturbedStaysHeld DEF IInv
        <3>2. CASE state[p].at \notin Reordering
            BY <2>1, <3>2 DEF Held
        <3>3. QED BY <3>1, <3>2
    <2>4. QED BY <1>1, <2>2, <2>3 DEF IInv
<1>3. ASSUME NEW q \in Request,
             \/ \E i \in Item, joins \in BOOLEAN : Load(q, i, joins)
             \/ Place(q)
             \/ Abort(q)
      PROVE  IInv'
    <2>1. PICK t \in Transaction : state' = [state EXCEPT ![q] = t] /\ t.at \notin Reordering \cup {"filed"}
        <3>1. CASE \E i \in Item, joins \in BOOLEAN : Load(q, i, joins)
            <4>1. \E t \in Transaction : /\ state' = [state EXCEPT ![q] = t]
                                         /\ t.at \in {"loaded", "joining"}
                BY <1>1, <3>1, LoadMoves
            <4>2. QED BY <4>1 DEF Reordering
        <3>2. CASE Place(q)
            <4>1. \E t \in Transaction : /\ state' = [state EXCEPT ![q] = t]
                                         /\ t.at \in {"placed", "joined"}
                BY <1>1, <3>2, PlaceMoves
            <4>2. QED BY <4>1 DEF Reordering
        <3>3. CASE Abort(q)
            BY <3>3, IdleIs DEF Abort, Reordering
        <3>4. QED BY <1>3, <3>1, <3>2, <3>3
    <2>2. UNCHANGED <<member, rank>>
        BY <1>3 DEF Load, Place, Abort
    <2>3. QED BY <1>1, <2>1, <2>2, OthersWait, StepKeeps
<1>4. ASSUME NEW q \in Request, NEW i \in Item, File(q, i) PROVE IInv'
    <2>1. PICK t \in Transaction : state' = [state EXCEPT ![q] = t] /\ t.at = "filed"
        BY <1>1, <1>4, FileMoves
    <2>2. (UNCHANGED <<member, rank>>) /\ NotReordered(q) /\ t.at \notin Reordering
        BY <1>4, <2>1 DEF File, Reordering
    <2>3. QED BY <1>1, <2>1, <2>2, OthersWait, StepKeeps
<1>5. ASSUME NEW q \in Request, CommitPlace(q) PROVE IInv'
    <2> DEFINE s == [state EXCEPT ![q] = Idle]
               i == state[q].item
    <2>1. /\ s \in [Request -> Transaction] /\ \A p \in Request : Phase(s[p])
          /\ \A p \in Request \ {q} : s[p] = state[p]
          /\ s[q].at = "idle"
        BY <1>1, IdleIs DEF Types
    <2>2. /\ i \in Item /\ member' \subseteq member \cup {i}
          /\ rank' = [rank EXCEPT ![i] = state[q].rank] /\ state' = Came(s, i)
        BY <1>1, <1>5, CommitPlaceMoves
    <2> HIDE DEF s, i
    <2>3. \A j \in Item \ {i} : rank'[j] = rank[j] /\ (j \in member' => j \in member)
        BY <1>1, <2>2 DEF Types, Tables, Ranking
    <2>4. /\ state'[q].at = "idle"
          /\ \A p \in Request \ {q} :
                 /\ state[p].at \notin Reordering => state'[p].at = state[p].at
                 /\ state[p].at \in Reordering => Undisturbed(p)
        BY <1>1, <2>1, <2>2, <2>3, OthersSeeItCome
    <2>5. QED BY <1>1, <2>4, StepKeeps DEF Reordering
<1>6. ASSUME NEW q \in Request, NEW i \in Item, Return(q, i) \/ Depart(q, i) PROVE IInv'
    <2>1. /\ \A p \in Request : Phase(state[p])
          /\ state \in [Request -> Transaction]
          /\ state[q].at = "idle" /\ state' = Came(state, i)
        BY <1>1, <1>6 DEF Types, Return, Depart
    <2>2. \A j \in Item \ {i} : rank'[j] = rank[j] /\ (j \in member' => j \in member)
        BY <1>1, <1>6 DEF Types, Tables, Ranking, Return, Depart
    <2>3. /\ state'[q].at = "idle"
          /\ \A p \in Request \ {q} :
                 /\ state[p].at \notin Reordering => state'[p].at = state[p].at
                 /\ state[p].at \in Reordering => Undisturbed(p)
        BY <1>1, <2>1, <2>2, OthersSeeItCome
    <2>4. QED BY <1>1, <2>3, StepKeeps DEF Reordering
<1>7. ASSUME NEW q \in Request, NEW i \in Item, Leave(q, i) PROVE IInv'
    <2>1. state' = state /\ rank' = rank /\ member' \subseteq member /\ state[q].at = "idle"
        BY <1>7 DEF Leave
    <2>2. \A p \in Request : Undisturbed(p)
        BY <2>1 DEF Undisturbed
    <2>3. QED BY <1>1, <2>1, <2>2, StepKeeps DEF Reordering
<1>8. ASSUME NEW q \in Request, NEW i \in Item, Arrive(q, i) PROVE IInv'
    <2>1. state' = state /\ state[q].at = "idle" /\ NotReordered(q)
        BY <1>8 DEF Arrive
    <2>2. \A p \in Request \ {q} : state[p].at \notin Reordering
        BY <2>1 DEF NotReordered
    <2>3. QED BY <1>1, <2>1, <2>2, StepKeeps DEF Reordering
<1>9. ASSUME NEW q \in Request, NEW i \in Item,
             NEW after \in Item \cup {NoItem}, NEW before \in Item \cup {NoItem},
             Lock(q, i, after, before)
      PROVE  IInv'
    <2>1. PICK t \in Transaction : state' = [state EXCEPT ![q] = t]
        BY <1>1, <1>9, LockMoves
    <2>2. (UNCHANGED <<member, rank>>) /\ ProjectFree(q)
        BY <1>9 DEF Lock
    <2>3. Held(q)' /\ state'[q].at = "locked"
        BY <1>1, <1>9, LockHolds
    <2>4. QED BY <1>1, <2>1, <2>2, <2>3, OthersWait, StepKeeps
<1>10. ASSUME NEW q \in Request, Read(q) PROVE IInv'
    <2>1. PICK t \in Transaction :
             /\ state' = [state EXCEPT ![q] = t]
             /\ t = Idle \/ ReadEnds(q, state[q], AllRanked(Seen(state[q].write)), t)
        BY <1>1, <1>10, ReadMoves
    <2>2. (UNCHANGED <<member, rank>>) /\ state[q].at \in Reordering
        BY <1>10 DEF Read, Reordering
    <2>3. state'[q] = t
        BY <1>1, <2>1 DEF Types
    <2>4. t = Idle => Held(q)'
        BY <2>3, IdleIs DEF Held, Reordering
    <2>5. t # Idle => Held(q)'
        BY <1>10, <2>1, ReadHolds
    <2>6. t.at # "filed"
        BY <2>1, IdleIs DEF ReadEnds
    <2>7. QED BY <1>1, <2>1, <2>2, <2>3, <2>4, <2>5, <2>6, OthersWait, StepKeeps
<1>11. ASSUME NEW q \in Request, Renumber(q) PROVE IInv'
    <2>1. PICK t \in Transaction : state' = [state EXCEPT ![q] = t]
        BY <1>1, <1>11, RenumberMoves
    <2>2. UNCHANGED <<member, rank>>
        BY <1>11 DEF Renumber
    <2>3. Held(q)' /\ state[q].at \in Reordering /\ state'[q].at = "renumbered"
        BY <1>11, RenumberHolds
    <2>4. QED BY <1>1, <2>1, <2>2, <2>3, OthersWait, StepKeeps
<1>12. ASSUME NEW q \in Request, CommitReorder(q) PROVE IInv'
    <2>1. state' = [state EXCEPT ![q] = Idle] /\ state[q].at \in Reordering
        BY <1>12 DEF CommitReorder, Reordering
    <2>2. /\ state'[q].at = "idle"
          /\ \A p \in Request \ {q} : state'[p] = state[p] /\ state[p].at \notin Reordering
        BY <1>1, <2>1, IdleIs DEF IInv, Alone, Types
    <2>3. QED BY <1>1, <2>2, StepKeeps DEF Reordering
<1>13. QED BY <1>2, <1>3, <1>4, <1>5, <1>6, <1>7, <1>8, <1>9, <1>10, <1>11, <1>12 DEF Next

(***************************************************************************)
(* What a reorder does                                                     *)
(***************************************************************************)
\* For any items and requests, whatever came between its two reads: a reorder
\* that renumbered finds room, unless another item came meanwhile.
THEOREM RenumberSuffices == Spec => []RenumberLeavesRoom
<1>1. IInv => RenumberLeavesRoom
    BY DEF IInv, Held, RenumberLeavesRoom, Reordering
<1>2. QED BY <1>1, InvStart, InvStep, PTL DEF Spec

\* What the commit leaves, item by item.
LEMMA Committed ==
    ASSUME IInv, NEW q \in Request, CommitReorder(q)
    PROVE  LET s == state[q] IN
           /\ s.item \in Item /\ s.rank \in Int /\ rank'[s.item] = s.rank
           /\ \A j \in Item \ {s.item} : rank'[j] = View(q)[j]
           /\ Held(q) /\ s.at = "chosen" /\ s.at \in Reordering
           /\ Types
<1>1. /\ state[q].item \in Item /\ state[q].rank \in Int
      /\ rank' = [Seen(state[q].write) EXCEPT ![state[q].item] = state[q].rank]
    BY CommitReorderMoves DEF IInv
<1>2. Seen(state[q].write) \in Ranking
    BY ViewIs DEF IInv, View
<1>3. /\ rank'[state[q].item] = state[q].rank
      /\ \A j \in Item \ {state[q].item} : rank'[j] = View(q)[j]
    BY <1>1, <1>2 DEF View, Ranking
<1>4. QED BY <1>1, <1>3 DEF IInv, CommitReorder, Reordering

LandsBeside(q) ==
    LET s == state[q]
        i == s.item
    IN  /\ s.after \in Around(q) => Above(rank', s.after, i)
        /\ s.before \in Around(q) => Above(rank', i, s.before)
        /\ NoItem \in {s.after, s.before} => \A j \in Around(q) : rank'[j] # rank'[i]
        /\ \A j \in Around(q), a \in {s.after, s.before} \cap Around(q) :
              a # j /\ {s.after, s.before} = {a, NoItem} =>
                  (Above(rank', j, i) <=> Above(rank', j, a))

LEMMA ReorderLands ==
    ASSUME IInv, NEW q \in Request, CommitReorder(q)
    PROVE  LandsBeside(q)
<1> DEFINE s == state[q]
           i == s.item
           r == s.rank
           v == View(q)
           K == Around(q)
<1>1. /\ i \in Item /\ r \in Int /\ rank'[i] = r
      /\ \A j \in Item \ {i} : rank'[j] = v[j]
      /\ Held(q) /\ s.at = "chosen" /\ s.at \in Reordering
      /\ Types
    BY Committed
<1>2. K \subseteq Item \ {i} /\ K \subseteq member \ s.fresh /\ NoItem \notin Item
    BY <1>1, Constants DEF Around, Types, Tables
<1>3. \A j \in K : v[j] \in Int /\ rank'[j] = v[j]
    <2>1. MembersRanked(q) /\ v \in Ranking
        BY <1>1, ViewIs DEF Held
    <2> HIDE DEF K, v, i, r
    <2>2. QED BY <2>1, <1>1, <1>2, Constants DEF MembersRanked, Ranked, Ranking, v
<1>4. /\ s.after \in K => v[s.after] < r
      /\ s.before \in K => r < v[s.before]
      /\ NoItem \in {s.after, s.before} => \A j \in K : v[j] # r
      /\ s.before = NoItem /\ s.after \in K =>
           \A j \in K \ {s.after} : v[j] < r <=> Above(v, j, s.after)
      /\ s.after = NoItem /\ s.before \in K =>
           \A j \in K : v[j] < r <=> Above(v, j, s.before)
    BY <1>1 DEF Held, Lands
<1> SUFFICES /\ s.after \in K => Above(rank', s.after, i)
             /\ s.before \in K => Above(rank', i, s.before)
             /\ NoItem \in {s.after, s.before} => \A j \in K : rank'[j] # rank'[i]
             /\ \A j \in K, a \in {s.after, s.before} \cap K :
                   a # j /\ {s.after, s.before} = {a, NoItem} =>
                       (Above(rank', j, i) <=> Above(rank', j, a))
    BY DEF LandsBeside
<1> HIDE DEF K, v, i, r
<1>5. s.after \in K => Above(rank', s.after, i)
    BY <1>1, <1>3, <1>4, Constants DEF Above
<1>6. s.before \in K => Above(rank', i, s.before)
    BY <1>1, <1>3, <1>4, Constants DEF Above
<1>7. NoItem \in {s.after, s.before} => \A j \in K : rank'[j] # rank'[i]
    BY <1>1, <1>3, <1>4
<1>8. ASSUME NEW j \in K, NEW a \in {s.after, s.before} \cap K,
             a # j, {s.after, s.before} = {a, NoItem}
      PROVE  Above(rank', j, i) <=> Above(rank', j, a)
    <2>1. (s.after = a /\ s.before = NoItem) \/ (s.before = a /\ s.after = NoItem)
        BY <1>2, <1>8
    <2>2. v[j] # r
        BY <1>4, <1>8
    <2>3. v[j] < r <=> Above(v, j, a)
        BY <2>1, <1>4, <1>8
    <2>4. Above(rank', j, a) <=> Above(v, j, a)
        BY <1>3 DEF Above
    <2>5. Above(rank', j, i) <=> v[j] < r
        BY <1>1, <1>3, <2>2, Constants DEF Above
    <2>6. QED BY <2>3, <2>4, <2>5
<1>9. QED BY <1>5, <1>6, <1>7, <1>8

\* For any items and requests: a reorder lands its item beside the anchor asked
\* for, whatever reorders, placements and edits ran meanwhile.
THEOREM ReordersLandBeside == Spec => ReorderLandsBeside
<1>1. IInv /\ [Next]_vars =>
        [\A q \in Request :
            LET s == state[q]
                i == s.item
                Known == member \ (s.fresh \cup {i})
            IN  CommitReorder(q) =>
                  /\ s.after \in Known => Above(rank', s.after, i)
                  /\ s.before \in Known => Above(rank', i, s.before)
                  /\ NoItem \in {s.after, s.before} => \A j \in Known : rank'[j] # rank'[i]
                  /\ \A j \in Known, a \in {s.after, s.before} \cap Known :
                        a # j /\ {s.after, s.before} = {a, NoItem} =>
                            (Above(rank', j, i) <=> Above(rank', j, a))]_vars
    BY ReorderLands DEF LandsBeside, Around
<1>2. QED BY <1>1, InvStart, InvStep, PTL DEF Spec, ReorderLandsBeside

\* For any items and requests: a reorder moves one item and no other, the ranks
\* kept outside the backlog included.
THEOREM ReordersMoveOne == Spec => OthersKeepOrder
<1>1. ASSUME IInv, NEW q \in Request, CommitReorder(q),
             NEW j \in Item \ (state[q].fresh \cup {state[q].item}),
             NEW k \in Item \ (state[q].fresh \cup {state[q].item}),
             j \in member \/ rank[j] # NoRank, k \in member \/ rank[k] # NoRank
      PROVE  Above(rank', j, k) <=> Above(rank, j, k)
    <2> DEFINE v == View(q)
    <2>1. OrderKept(q) /\ rank'[j] = v[j] /\ rank'[k] = v[k]
        BY <1>1, Committed DEF Held
    <2>2. j \in Live(q) /\ k \in Live(q)
        BY <1>1 DEF Live
    <2>3. Above(v, j, k) <=> Above(rank, j, k)
        BY <2>1, <2>2 DEF OrderKept
    <2> HIDE DEF v
    <2>4. QED BY <2>1, <2>3 DEF Above
<1>2. IInv /\ [Next]_vars =>
        [\A q \in Request : CommitReorder(q) =>
            \A j, k \in Item \ (state[q].fresh \cup {state[q].item}) :
                (j \in member \/ rank[j] # NoRank) /\ (k \in member \/ rank[k] # NoRank)
                    => (Above(rank', j, k) <=> Above(rank, j, k))]_vars
    BY <1>1
<1>3. QED BY <1>2, InvStart, InvStep, PTL DEF Spec, OthersKeepOrder
==============================================================================
