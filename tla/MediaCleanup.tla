---------------------------- MODULE MediaCleanup ----------------------------
(***************************************************************************)
(* MediaCleanupProcessor (media_cleanup_processor.go) for one organization, *)
(* racing the uploads that write media files and reference them.          *)
(*                                                                         *)
(* A file's modification time is abstracted to "old" (before the cutoff   *)
(* now - days of the sweep) or "fresh".  processStaleMedia captures now   *)
(* once, so during a sweep a file only turns fresh by being written; it   *)
(* ages between sweeps.  A path is a model value; Suspicious are the      *)
(* referenced paths that contain "..".                                    *)
(***************************************************************************)
EXTENDS Naturals, FiniteSets

CONSTANTS
    Paths,        \* media paths under the media root
    Suspicious,   \* the paths containing ".."
    NoMedia,      \* media_url = ''
    MaxErrors     \* bound on failing queries and file operations

ASSUME Suspicious \subseteq Paths

FileStates == {"absent", "dir", "old", "fresh"}

VARIABLES
    file,      \* per path: what os.Stat would find
    refs,      \* media_url of the messages and header_media_local_path of the campaigns
    enabled,   \* settings.auto_delete_media_enabled
    sweep,     \* the processor: where it is, its settings copy, the paths left, the current one
    errors     \* failing queries and file operations so far

vars == <<file, refs, enabled, sweep, errors>>

Idle == [pc |-> "idle", enabled |-> FALSE, todo |-> {}, cur |-> CHOOSE p \in Paths : TRUE]

Init ==
    /\ file \in [Paths -> FileStates]
    /\ refs \in SUBSET (Paths \cup {NoMedia})
    /\ enabled \in BOOLEAN
    /\ sweep = Idle
    /\ errors = 0

Fails == errors < MaxErrors /\ errors' = errors + 1

(***************************************************************************)
(* The processor                                                           *)
(***************************************************************************)

\* A ticker fire: processStaleMedia loads the organizations with their
\* settings (getOrgMediaCleanupSettings), or logs the error and returns.
Tick ==
    /\ sweep.pc = "idle"
    /\ \/ sweep' = [sweep EXCEPT !.pc = "org", !.enabled = enabled] /\ UNCHANGED errors
       \/ Fails /\ UNCHANGED sweep
    /\ UNCHANGED <<file, refs, enabled>>

\* The referenced-path set: both Plucks, each filtered by path != "".
CollectPaths(r) == r \ {NoMedia}

\* The organization's turn in the loop: skipped unless cleanup was enabled
\* in the copy of its settings; otherwise cleanupOrganizationMedia collects
\* the paths, or returns on a failing Pluck or a failing filepath.Abs of
\* the media root.
CleanupOrganization ==
    /\ sweep.pc = "org"
    /\ \/ /\ ~sweep.enabled
          /\ sweep' = Idle
          /\ UNCHANGED errors
       \/ /\ sweep.enabled
          /\ sweep' = [sweep EXCEPT !.pc = "paths", !.todo = CollectPaths(refs)]
          /\ UNCHANGED errors
       \/ /\ sweep.enabled
          /\ Fails
          /\ sweep' = Idle
    /\ UNCHANGED <<file, refs, enabled>>

\* Mutant: the mtime test reversed.
IsStaleReversed(f) == f = "fresh"

\* os.Stat succeeded on a regular file whose mtime is not after the cutoff.
IsStale(f) == f = "old"

\* One turn of the loop over the (unordered) path set: the ".." check, the
\* prefix check (always passed by a path without ".." joined to the root),
\* os.Stat, IsDir and the mtime test.  An os.Stat error other than
\* NotExist (a permission, an I/O error) is logged and the path skipped.
CheckPath ==
    /\ sweep.pc = "paths"
    /\ \E p \in sweep.todo :
         \/ /\ sweep' = [sweep EXCEPT !.todo = @ \ {p},
                                   !.pc = IF p \notin Suspicious /\ IsStale(file[p])
                                          THEN "remove" ELSE "paths",
                                   !.cur = p]
            /\ UNCHANGED errors
         \/ /\ p \notin Suspicious /\ file[p] # "absent"
            /\ Fails
            /\ sweep' = [sweep EXCEPT !.todo = @ \ {p}, !.cur = p]
    /\ UNCHANGED <<file, refs, enabled>>

\* os.Remove of the path checked last; a failure (a permission, a busy
\* file) is logged and the loop goes on to the next path.
RemoveFile ==
    /\ sweep.pc = "remove"
    /\ \/ file' = [file EXCEPT ![sweep.cur] = "absent"] /\ UNCHANGED errors
       \/ Fails /\ UNCHANGED file
    /\ sweep' = [sweep EXCEPT !.pc = "paths"]
    /\ UNCHANGED <<refs, enabled>>

\* The loop over the paths ends, and with it the sweep.
SweepDone ==
    /\ sweep.pc = "paths"
    /\ sweep.todo = {}
    /\ sweep' = Idle
    /\ UNCHANGED <<file, refs, enabled, errors>>

(***************************************************************************)
(* The environment: uploads, time and the settings                         *)
(***************************************************************************)

\* A media upload writes the file and stores a row referencing it.
Upload(p) ==
    /\ file' = [file EXCEPT ![p] = "fresh"]
    /\ refs' = refs \cup {p}
    /\ UNCHANGED <<enabled, sweep, errors>>

\* Between sweeps, a file's mtime falls behind the next cutoff.
Age(p) ==
    /\ sweep.pc = "idle"
    /\ file[p] = "fresh"
    /\ file' = [file EXCEPT ![p] = "old"]
    /\ UNCHANGED <<refs, enabled, sweep, errors>>

\* An admin switches auto-delete on or off.
SetAutoDelete ==
    /\ enabled' = ~enabled
    /\ UNCHANGED <<file, refs, sweep, errors>>

Sweeper == Tick \/ CleanupOrganization \/ CheckPath \/ RemoveFile \/ SweepDone

Next ==
    \/ Sweeper
    \/ \E p \in Paths : Upload(p) \/ Age(p)
    \/ SetAutoDelete

\* The ticker keeps firing and the sweep goroutine keeps running; uploads,
\* time and admins are not assumed to do anything.
FairSpec == Init /\ [][Next]_vars /\ WF_vars(Sweeper)

=============================================================================
