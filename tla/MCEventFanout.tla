--------------------------- MODULE MCEventFanout ----------------------------
(***************************************************************************)
(* One client, one subscription and one publisher compete for the events of  *)
(* one or two calls.  Buffers of one element make every send meet a full     *)
(* one.                                                                      *)
(***************************************************************************)
EXTENDS EventFanout
=============================================================================
