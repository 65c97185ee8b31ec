----------------------------- MODULE Dictionary -----------------------------
(***************************************************************************)
(* What include/util/hash_table.h promises its clients: a dictionary from  *)
(* strings to pointers.  `map' is the content, NULL standing for "absent", *)
(* `live' says whether the table exists (created and not yet destroyed),   *)
(* and `ret' is what the most recent call returned.                        *)
(*                                                                         *)
(* A NULL value and an absent key are one thing here, as they are for a    *)
(* caller of hash_table_get.                                               *)
(***************************************************************************)
EXTENDS Integers

CONSTANTS Keys,     \* the strings used as keys
          Vals,     \* the pointers stored as values
          NULL      \* the null pointer

VARIABLES live, map, ret

vars == <<live, map, ret>>

Empty == [k \in Keys |-> NULL]

Init == live = FALSE /\ map = Empty /\ ret = 0

Create == ~live /\ live' = TRUE /\ map' = Empty /\ ret' = 0

Get(k) == live /\ ret' = map[k] /\ UNCHANGED <<live, map>>

Put(k, v) == live /\ map' = [map EXCEPT ![k] = v] /\ ret' = 0 /\ UNCHANGED live

\* A null key is refused and changes nothing.
PutNullKey == live /\ ret' = -1 /\ UNCHANGED <<live, map>>

Delete(k) ==
    /\ live
    /\ ret' = map[k]
    /\ map' = [map EXCEPT ![k] = NULL]
    /\ UNCHANGED live

Destroy == live /\ live' = FALSE /\ map' = Empty /\ ret' = 0

Next ==
    \/ Create \/ Destroy \/ PutNullKey
    \/ \E k \in Keys : Get(k) \/ Delete(k)
    \/ \E k \in Keys, v \in Vals : Put(k, v)

Spec == Init /\ [][Next]_vars
=============================================================================
