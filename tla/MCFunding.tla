----------------------------- MODULE MCFunding ------------------------------
(***************************************************************************)
(* One contract over a little more than two settlement periods of short      *)
(* hours.  The prices give a rate at each limit, one between, and none.      *)
(***************************************************************************)
EXTENDS Funding
=============================================================================
