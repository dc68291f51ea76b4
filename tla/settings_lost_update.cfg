\* Two concurrent requests; two settings keys, one name.
CONSTANTS
    Keys <- MCKeysTwo
    KeyValues <- MCKeyValues
    Names = {n1}
    Unset = Unset
    Absent = Absent
    EmptyName = EmptyName
    Requests = {r1, r2}
    r1 = r1
    r2 = r2
    n1 = n1
    n2 = n2
    tz1 = tz1
    df1 = df1
    Empty = Empty
SPECIFICATION Spec
PROPERTY RefinesAtomicSettings
