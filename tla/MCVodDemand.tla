---------------------------- MODULE MCVodDemand ----------------------------
(* Six-second segments and the default low watermark: a join window and a    *)
(* demand radius of two segments each.                                       *)
EXTENDS VodDemand, TLC

CONSTANTS v1, v2

ViewerSymmetry == Permutations({v1, v2})

=============================================================================
