------------------------- MODULE MCLinearHashTable --------------------------
(***************************************************************************)
(* Digests for the run of LinearHashTable: k1, k2 and k3 share a chain at  *)
(* every level that the run reaches.                                       *)
(***************************************************************************)
EXTENDS LinearHashTable

CONSTANTS k1, k2, k3, k4, k5, k6, v1, v2

Digests == k1 :> 0 @@ k2 :> 16 @@ k3 :> 4 @@ k4 :> 2 @@ k5 :> 1 @@ k6 :> 3
=============================================================================
