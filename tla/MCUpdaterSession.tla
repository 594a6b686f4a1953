-------------------------- MODULE MCUpdaterSession --------------------------
(***************************************************************************)
(* Instances of UpdaterSession for TLC.                                    *)
(***************************************************************************)
EXTENDS UpdaterSession

OneItem == {<<[id |-> 1, status |-> "NEW"]>>}
=============================================================================
