--------------------------- MODULE MCServerThreads --------------------------
(***************************************************************************)
(* Instances of ServerThreads for TLC.                                     *)
(***************************************************************************)
EXTENDS ServerThreads

OneItem == {<<[id |-> 1, status |-> "NEW"]>>}
=============================================================================
