SPECIFICATION UploadSpec
CONSTANTS
    u1 = u1  u2 = u2  u3 = u3  c1 = c1  c2 = c2
    Upload = {u1}
    Large = {}
    Caller = {c1}
PROPERTIES SweepSparesAttached
CHECK_DEADLOCK FALSE
