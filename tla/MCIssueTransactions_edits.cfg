SPECIFICATION Spec
CONSTANTS
    p1 = p1  p2 = p2  s1 = s1  s2 = s2  r1 = r1
    q1 = q1  q2 = q2
    Request = {q1, q2}
    Kind = {"transition", "assign", "move", "reject"}
    User = {alice}
    NoUser = NoUser
    Project = {p1, p2}
    Container = {s1, r1, s2}
    StreamOf <- TwoStreams
    ProjectOf <- TwoContainers
    Backlog = Backlog
    MaxCycle = 2
SYMMETRY Requests
PROPERTIES AssignmentOutlivesStaleEdits
