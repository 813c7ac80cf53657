SPECIFICATION Spec
CONSTANTS
    i1 = i1  i2 = i2  e1 = e1  e2 = e2  m1 = m1  m2 = m2
    q1 = q1  q2 = q2  w1 = w1  w2 = w2
    Item = {i1}
    Slot = {"title", "talk"}
    Endpoint = {e1}
    Model = {m1, m2}
    NoModel = NoModel
    NoItem = NoItem
    Request = {q1}
    Worker = {w1, w2}
    MaxEdit = 1
    MaxSwap = 1
    MaxEvent = 1
    MaxQueue = 1
INVARIANTS TypeOK OneModelPerItem NoEditForgotten
PROPERTY CatchesUp
CHECK_DEADLOCK FALSE
