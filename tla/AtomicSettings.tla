--------------------------- MODULE AtomicSettings ---------------------------
(***************************************************************************)
(* What PUT /api/settings/organization promises: each request changes the  *)
(* settings it names (and the name, when it gives a non-empty one) and     *)
(* leaves every other setting as it is, as one atomic step.                *)
(***************************************************************************)
CONSTANTS
    Keys,       \* the settings keys a request may carry
    KeyValues,  \* per key, the values a request may give it
    Names,      \* non-empty organization names
    Unset,      \* the key is absent from the settings JSON
    Absent,     \* the request does not carry the field (a nil pointer)
    EmptyName   \* the request carries name = ""

Values == UNION {KeyValues[k] : k \in Keys}

\* Settings JSON contents: every key holds one of its values, or is absent.
Settings == {s \in [Keys -> Values \cup {Unset}] : \A k \in Keys : s[k] \in KeyValues[k] \cup {Unset}}

\* Request bodies: every field is given one of its values, or left out.
Bodies == [fields: {f \in [Keys -> Values \cup {Absent}] :
                       \A k \in Keys : f[k] \in KeyValues[k] \cup {Absent}},
           name: Names \cup {Absent, EmptyName}]

\* The organization after a request with body b.
Merge(o, b) ==
    [settings |-> [k \in Keys |-> IF b.fields[k] = Absent THEN o.settings[k]
                                                        ELSE b.fields[k]],
     name |-> IF b.name \in Names THEN b.name ELSE o.name]

VARIABLE org

Init == org \in [settings: Settings, name: Names]

Update == \E b \in Bodies : org' = Merge(org, b)

Spec == Init /\ [][Update]_org

=============================================================================
