------------------------- MODULE MCPriceLevelTree ---------------------------
(* Instance of PriceLevelTree for TLC: six prices, so that the binary search *)
(* takes up to three iterations, over windows of even and odd width.        *)
EXTENDS PriceLevelTree
=============================================================================
