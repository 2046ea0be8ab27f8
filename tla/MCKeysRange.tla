---------------------------- MODULE MCKeysRange -----------------------------
(***************************************************************************)
(* Digests for the runs of KeysRange: k1 and k2 share a chain.             *)
(***************************************************************************)
EXTENDS KeysRange

CONSTANTS k1, k2, k3, v1

Digests == k1 :> 0 @@ k2 :> 4 @@ k3 :> 1
\* A storage whose keys have buckets of their own, and one with an overflow bucket.
TwoStorages == <<{k1, k3}, {k1, k2}>>

\* All keys; the keys after the first; nothing after a huge offset; a huge number of keys.
Pages == {<<0, 4>>, <<1, 2>>, <<7, 1>>, <<0, 7>>}
=============================================================================
