---------------------------- MODULE MCBookFeed ------------------------------
(* Instance of BookFeed for TLC: two orders by two users, at two prices a  *)
(* side, of one or two units, so that levels hold two orders, are refilled   *)
(* after they emptied, and orders are partly filled before they are removed. *)
EXTENDS BookFeed, TLC

\* Ids and users are only ever compared.
Symmetric == Permutations(ClientIDs) \cup Permutations(Users)
=============================================================================
