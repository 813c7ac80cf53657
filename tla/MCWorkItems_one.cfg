SPECIFICATION Spec
CONSTANTS
    p1 = p1  p2 = p2  s1 = s1  s2 = s2  r1 = r1
    b1 = b1  t1 = t1
    Item = {b1}
    Bug = {b1}
    Project = {p1, p2}
    Container = {s1, s2, r1}
    Backlog = Backlog
    NoItem = NoItem
    StreamOf <- TwoProjectStreams
    ProjectOf <- TwoProjectContainers
    MaxCycle <- OneBugCycles
INVARIANTS ContainerInProject BlockerOnlyOnReleaseBug CycleFollowsContainer
PROPERTIES ClosedReleaseTakesNoItem ReturnStartsNextCycle CycleHistoryKept
