SPECIFICATION Spec
CONSTANTS
    t1 = t1  t2 = t2  e1 = e1  e2 = e2  d1 = d1  d2 = d2
    Tab = {t1, t2}
    NoTab = NoTab
    DataCall = {d1, d2}
    Exchange = {e1, e2}
    MaxPair = 2
    MaxUpset = 1
SYMMETRY Alike
INVARIANTS NoCallStranded RefusedIsOver
CHECK_DEADLOCK FALSE
