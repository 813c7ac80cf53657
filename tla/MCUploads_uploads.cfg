SPECIFICATION UploadSpec
CONSTANTS
    u1 = u1  u2 = u2  u3 = u3  c1 = c1  c2 = c2
    Upload = {u1, u2, u3}
    Large = {u2}
    Caller = {c1, c2}
SYMMETRY Alike
INVARIANTS
    UploadTypeOK
    UploadHeldOnce
    NoUploadForgotten
    FileBehindRow
    ValidatedRowExisted
CHECK_DEADLOCK FALSE
