------------------------------ MODULE MCServer ------------------------------
(***************************************************************************)
(* One caller and the command worker, on one symbol whose engine may be      *)
(* replaced once.                                                            *)
(***************************************************************************)
EXTENDS Server
CONSTANTS o1, o2
MCBatches == {<<o1>>, <<o1, o2>>}
=============================================================================
