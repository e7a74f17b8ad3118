--------------------------- MODULE MCVodProducer ---------------------------
(* Two source workers; the first makes two attempts, the second one (or     *)
(* two), which is enough for a stale attempt, its successor and a bystander. *)
EXTENDS VodProducer, TLC

CONSTANTS n1, n2, a1, a2, a3

MCHome == (a1 :> n1) @@ (a2 :> n2) @@ (a3 :> n1)
MCHome2 == (a1 :> n1) @@ (a2 :> n2)

=============================================================================
