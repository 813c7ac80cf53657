SPECIFICATION Spec
CONSTANTS
    u1 = u1  u2 = u2  a1 = a1  q1 = q1  w1 = w1
    Author = u1
    Actor = {a1}
    NoActor = NoActor
    NoRequest = NoRequest
    User = {u1}
    Watchers = {u1}
    Wants = {u1}
    Mentioned = {}
    MaxChoice = 2
    Request = {q1}
    Sweeper = {w1}
    BrokerFails = TRUE
    CheckFails = FALSE
    RequestFails = TRUE
    MaxEvent = 1
    MaxReaction = 1
    MaxToken = 1
    MaxAbort = 1
INVARIANTS TypeOK SentWasHeard OnlyCommittedHeard
PROPERTY WaitingReachesRecipient
CHECK_DEADLOCK FALSE
