------------------------ MODULE OrganizationSettings ------------------------
(***************************************************************************)
(* UpdateOrganizationSettings (unnamed/part_007) as concurrent requests:   *)
(* the handler loads the organization row, changes the settings JSON and  *)
(* the name in memory, and writes the whole row back with DB.Save.  The   *)
(* data sets (settings contents, request bodies) are those of the         *)
(* abstract specification AtomicSettings.                                  *)
(***************************************************************************)
CONSTANTS Keys, KeyValues, Names, Unset, Absent, EmptyName,
    Requests    \* concurrent requests of the organization's admins

VARIABLES
    org,   \* the organizations row: the settings JSON and the name
    req    \* per request: where it is, its body, the row it loaded

vars == <<org, req>>

A == INSTANCE AtomicSettings

Idle == [pc |-> "idle", body |-> CHOOSE b \in A!Bodies : TRUE,
         snap |-> CHOOSE o \in [settings: A!Settings, name: Names] : TRUE]

TypeOK ==
    /\ org \in [settings: A!Settings, name: Names]
    /\ req \in [Requests -> [pc: {"idle", "loaded"}, body: A!Bodies,
                             snap: [settings: A!Settings, name: Names]]]

Init ==
    /\ org \in [settings: A!Settings, name: Names]
    /\ req = [r \in Requests |-> Idle]

\* json.Unmarshal of the body and First(&org); a body that does not parse
\* is answered 400 before the load and changes nothing.
Load(r) ==
    /\ req[r].pc = "idle"
    /\ \E b \in A!Bodies :
         req' = [req EXCEPT ![r] = [pc |-> "loaded", body |-> b, snap |-> org]]
    /\ UNCHANGED org

\* Mutant: the name written whenever the request carries one.
ApplyEmptyName(o, b) ==
    [settings |-> [k \in Keys |-> IF b.fields[k] = Absent THEN o.settings[k] ELSE b.fields[k]],
     name |-> IF b.name = Absent THEN o.name ELSE b.name]

\* The in-memory changes: a non-nil field sets its key, a non-empty name
\* replaces the name.
Apply(o, b) ==
    [settings |-> [k \in Keys |-> IF b.fields[k] = Absent THEN o.settings[k] ELSE b.fields[k]],
     name |-> IF b.name \in Names THEN b.name ELSE o.name]

\* DB.Save writes every column of the loaded row, or fails with a 500.
Save(r) ==
    /\ req[r].pc = "loaded"
    /\ \/ org' = Apply(req[r].snap, req[r].body)
       \/ UNCHANGED org
    /\ req' = [req EXCEPT ![r] = Idle]

Next == \E r \in Requests : Load(r) \/ Save(r)

Spec == Init /\ [][Next]_vars

=============================================================================
