--------------------------- MODULE MCMediaCleanup ---------------------------
EXTENDS MediaCleanup

CONSTANTS p1, p2, p3

\* A file the organization references, older than the cutoff, at a path
\* without "..", while auto-delete is enabled.
Expired(p) == p \notin Suspicious /\ p \in refs /\ file[p] = "old" /\ enabled

\* Every referenced media file older than the cutoff is eventually deleted
\* by the sweeper, unless it is rewritten or auto-delete is switched off
\* first: failing queries only postpone it to a later tick.
EventuallyCleaned ==
    \A p \in Paths : Expired(p) ~> (file[p] # "old" \/ ~enabled)

=============================================================================
