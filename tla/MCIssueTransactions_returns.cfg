SPECIFICATION Spec
CONSTANTS
    p1 = p1  p2 = p2  s1 = s1  s2 = s2  r1 = r1
    q1 = q1  q2 = q2
    Request = {q1, q2}
    Kind = {"transition", "reject", "merge", "place", "bulk", "ship"}
    User = {}
    NoUser = NoUser
    Project = {p1}
    Container = {s1, r1}
    StreamOf <- OneStream
    ProjectOf <- OneContainers
    Backlog = Backlog
    MaxCycle = 3
SYMMETRY Requests
INVARIANTS TypeOK
PROPERTIES SecondCycleOpensOnlyLate
