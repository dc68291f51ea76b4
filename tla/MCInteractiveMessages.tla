----------------------- MODULE MCInteractiveMessages -----------------------
(***************************************************************************)
(* Model-checking instance of InteractiveMessages and the properties its   *)
(* runs check.                                                             *)
(***************************************************************************)
EXTENDS InteractiveMessages

CONSTANTS m1, m2

\* TypeOK is the only property of titles_bytes: see the README for why the
\* comments' "20 chars" and a success without an id are not stated here.

=============================================================================
