------------------------- MODULE MCPersistentTable -------------------------
(***************************************************************************)
(* Digests for the runs of PersistentTable.                                *)
(***************************************************************************)
EXTENDS PersistentTable

CONSTANTS k1, k2, k3, v1, r1, r2

Digests == k1 :> 3 @@ k2 :> 7 @@ k3 :> 1

(***************************************************************************)
(* A table that was closed with a stale header is checked no further: what *)
(* is opened then may be anything.                                         *)
(***************************************************************************)
NotSpoiled == ~spoiled
=============================================================================
