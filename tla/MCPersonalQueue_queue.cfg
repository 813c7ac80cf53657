SPECIFICATION Spec
CONSTANTS
    alice = alice bob = bob
    Item = {1, 2, 3}
    User = {alice, bob}
    NoUser = NoUser
    Last = Last
    Key = {1}
    PinLimit = 1
    Step = 2
    PositionBound = 4
SYMMETRY People
INVARIANTS
    TypeOK
    EntryMatchesItem
    UnarrangedIsSorted
    NoTies
PROPERTIES
    DropLandsBeside
    ImplementsOrder
CHECK_DEADLOCK FALSE
