\* Two users, one of them with two tabs, and one failing statement.
CONSTANTS
    Users = {u1, u2}
    Tabs = {t1, t2}
    Widgets = {w1, w2}
    Sessions <- TwoAndOneSessions
    MaxList = 1
    MaxDbErrors = 1
    NoUser = NoUser
    u1 = u1
    u2 = u2
    t1 = t1
    t2 = t2
    w1 = w1
    w2 = w2
    w3 = w3
SPECIFICATION Spec
SYMMETRY WidgetSymmetry
INVARIANTS TypeOK
PROPERTY OwnerOnlyWrites
