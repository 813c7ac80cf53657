SPECIFICATION Spec
CONSTANTS
    ann = ann  joe = joe  annsAgent = annsAgent  joesAgent = joesAgent
    q1 = q1  q2 = q2
    Request = {q1, q2}
    User = {ann, joe}
    Admin = {joe}
    Token = {annsAgent, joesAgent}
    OwnerOf <- Owners
    NoToken = NoToken
    Filer = ann
    Author = ann
    Column = {"title", "os", "browser"}
    Payload = {{"title"}, {"os"}, {"browser"}}
    MaxEdit = 2
SYMMETRY Requests
INVARIANTS TypeOK RecordNamesWriter
PROPERTIES AgentSparesOthersText
\* The bound on edits stops the instance.
CHECK_DEADLOCK FALSE
