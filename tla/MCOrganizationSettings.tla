----------------------- MODULE MCOrganizationSettings -----------------------
EXTENDS OrganizationSettings

CONSTANTS r1, r2, n1, n2, tz1, df1, Empty

\* The keys UpdateOrganizationSettings sets; "" is a value a request may
\* give a string key.
MCKeys == {"mask_phone_numbers", "timezone", "date_format"}
\* Two of them, for the runs with concurrent requests: date_format is handled
\* exactly like timezone.
MCKeysTwo == {"mask_phone_numbers", "timezone"}
MCKeyValues == [k \in MCKeys |->
                  CASE k = "mask_phone_numbers" -> BOOLEAN
                    [] k = "timezone" -> {tz1, Empty}
                    [] k = "date_format" -> {df1, Empty}]

Atomic == INSTANCE AtomicSettings WITH org <- org

\* Every change of the organization row by UpdateOrganizationSettings is a
\* step of AtomicSettings: the row after a save is the row before it with
\* exactly the saved request's fields applied, so no concurrent update is
\* lost or undone.
RefinesAtomicSettings == Atomic!Spec

=============================================================================
