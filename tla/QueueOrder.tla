----------------------------- MODULE QueueOrder -----------------------------
(***************************************************************************)
(* What a personal queue promises, without positions.                      *)
(*                                                                         *)
(* A queue is two groups, pinned and rest, each in one total order.  An    *)
(* item is in at most one queue.  Whatever happens to a queue happens to   *)
(* one item: every other pair keeps its order, the hidden (dormant) items  *)
(* of finished work included, so that returned work finds its old place.   *)
(***************************************************************************)
EXTENDS FiniteSets, Integers

CONSTANTS
    Item,
    User,
    PinLimit,    \* pins a queue holds at most
    Last         \* the landing below everything else in the group

VARIABLES
    owner,       \* whose queue each queued item is in, a function on those items
    pinned,      \* the queued items in the pinned group
    dormant,     \* the queued items that are hidden
    above        \* pairs <<a, b>> of one group with a above b

vars == <<owner, pinned, dormant, above>>

Group(o, p) == {i \in DOMAIN owner : owner[i] = o /\ (i \in pinned <=> p)}
Shown(o, p) == Group(o, p) \ dormant

\* The order of the items other than i.
Without(i) == {q \in above : q[1] # i /\ q[2] # i}

\* The order once i lands in group G directly above x, or last.
Landing(i, G, x) ==
    LET others == Without(i)
        upper  == IF x = Last THEN G ELSE {j \in G : <<j, x>> \in above}
    IN  others \cup {<<j, i>> : j \in upper} \cup {<<i, j>> : j \in G \ upper}

\* The landing at the top of what is shown of G.
Top(G) ==
    IF G = {} THEN Last
    ELSE CHOOSE x \in G : \A j \in G : j # x => <<x, j>> \in above

TypeOK ==
    /\ owner \in [DOMAIN owner -> User]
    /\ DOMAIN owner \subseteq Item
    /\ pinned \subseteq DOMAIN owner
    /\ dormant \subseteq DOMAIN owner \ pinned
    /\ above \subseteq (DOMAIN owner) \X (DOMAIN owner)

Init ==
    /\ owner = [i \in {} |-> {}]
    /\ pinned = {}
    /\ dormant = {}
    /\ above = {}

\* i is shown in the rest of o's queue, directly above x: a new assignment,
\* a reassignment, a drag, an unpin.
Land(i, o, x) ==
    LET G == Group(o, FALSE) \ {i} IN
    /\ x = Last \/ x \in Shown(o, FALSE) \ {i}
    /\ owner' = [j \in DOMAIN owner \cup {i} |-> IF j = i THEN o ELSE owner[j]]
    /\ pinned' = pinned \ {i}
    /\ dormant' = dormant \ {i}
    /\ above' = Landing(i, G, x)

\* A drag within the pins.
ReorderPin(i, x) ==
    /\ i \in pinned
    /\ x = Last \/ x \in Group(owner[i], TRUE) \ {i}
    /\ above' = Landing(i, Group(owner[i], TRUE) \ {i}, x)
    /\ UNCHANGED <<owner, pinned, dormant>>

Pin(i) ==
    /\ i \in DOMAIN owner \ (pinned \cup dormant)
    /\ Cardinality(Group(owner[i], TRUE)) < PinLimit
    /\ pinned' = pinned \cup {i}
    /\ above' = Landing(i, Group(owner[i], TRUE), Last)
    /\ UNCHANGED <<owner, dormant>>

\* Finished work stays where it is, hidden; a pin goes to the top of the rest
\* first, so that it comes back directly below the pins.
Finish(i) ==
    /\ i \in DOMAIN owner \ dormant
    /\ dormant' = dormant \cup {i}
    /\ pinned' = pinned \ {i}
    /\ above' = IF i \in pinned
                THEN Landing(i, Group(owner[i], FALSE), Top(Shown(owner[i], FALSE)))
                ELSE above
    /\ UNCHANGED owner

Return(i) ==
    /\ i \in dormant
    /\ dormant' = dormant \ {i}
    /\ UNCHANGED <<owner, pinned, above>>

Leave(i) ==
    /\ i \in DOMAIN owner
    /\ owner' = [j \in DOMAIN owner \ {i} |-> owner[j]]
    /\ pinned' = pinned \ {i}
    /\ dormant' = dormant \ {i}
    /\ above' = Without(i)

Next ==
    \E i \in Item :
        \/ \E o \in User, x \in Item \cup {Last} : Land(i, o, x)
        \/ \E x \in Item \cup {Last} : ReorderPin(i, x)
        \/ Pin(i)
        \/ Finish(i)
        \/ Return(i)
        \/ Leave(i)

Spec == Init /\ [][Next]_vars

SameGroup(a, b) == owner[a] = owner[b] /\ (a \in pinned <=> b \in pinned)

\* Each group is in one strict total order, hidden items included, and nothing
\* is compared across groups or queues, whatever was moved, pinned, finished
\* or handed over (queue_order.ordered has a single answer).
GroupsOrdered ==
    /\ \A a, b \in DOMAIN owner :
          /\ <<a, b>> \in above => SameGroup(a, b) /\ <<b, a>> \notin above
          /\ a # b /\ SameGroup(a, b) => <<a, b>> \in above \/ <<b, a>> \in above
    /\ \A a, b, c \in DOMAIN owner :
          <<a, b>> \in above /\ <<b, c>> \in above => <<a, c>> \in above
=============================================================================
