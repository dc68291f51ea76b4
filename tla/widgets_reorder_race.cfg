\* Two users with two tabs each; no statement fails.
CONSTANTS
    Users = {u1, u2}
    Tabs = {t1, t2}
    Widgets = {w1, w2}
    Sessions <- AllSessions
    MaxList = 2
    MaxDbErrors = 0
    NoUser = NoUser
    u1 = u1
    u2 = u2
    t1 = t1
    t2 = t2
    w1 = w1
    w2 = w2
    w3 = w3
SPECIFICATION Spec
SYMMETRY Symmetry
INVARIANTS ListedInRequestedOrder
