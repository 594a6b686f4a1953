-------------------------------- MODULE MCIO --------------------------------
(***************************************************************************)
(* An instance of IO for TLC: a payload, an empty one, another, one that is  *)
(* too long to be framed.                                                  *)
(***************************************************************************)
EXTENDS IO

MCPayloadLen == <<5, 1, 3, 10000>>
=============================================================================
