----------------------------- MODULE MCHashTable -----------------------------
(***************************************************************************)
(* Small instances of HashTable.  The hash values make every pair of keys  *)
(* collide at some size the table passes through (3 and 7, 2 and 5, 4 and  *)
(* 9) and part at another, so chains merge and split when the table grows. *)
(***************************************************************************)
EXTENDS HashTable

CONSTANTS k1, k2, k3, k4

MCHash ==
    LET h == (k1 :> 1) @@ (k2 :> 4) @@ (k3 :> 8) @@ (k4 :> 13)
    IN  [k \in Keys |-> h[k]]
=============================================================================
