----------------------------- MODULE MCHashHeap -----------------------------
(***************************************************************************)
(* Small instances of HashHeap: two keys share a bucket, a third has its   *)
(* own, and five buckets leave room for all of them.                       *)
(***************************************************************************)
EXTENDS HashHeap

CONSTANTS k1, k2, k3

MCHash == (k1 :> 1) @@ (k2 :> 6) @@ (k3 :> 3)
=============================================================================
