SPECIFICATION Spec
CONSTANTS
    Item = {1, 2, 3}
    Mobile = {2}
    NoItem = NoItem
    NoRank = NoRank
    Request = {q1, q2}
    Step = 2
    RankBound = 7
SYMMETRY Requests
INVARIANTS
    TypeOK
    RenumberLeavesRoom
PROPERTIES
    ReorderLandsBeside
    OthersKeepOrder
CHECK_DEADLOCK FALSE
