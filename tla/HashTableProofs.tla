--------------------------- MODULE HashTableProofs ---------------------------
(***************************************************************************)
(* Theorems about HashTable, for every set of keys and values, every hash  *)
(* function and all creation sizes.                                        *)
(***************************************************************************)
EXTENDS HashTable, FiniteSetTheorems, SequenceTheorems, TLAPS

\* An array of n buckets whose chains are well formed.
Good(bs, n) ==
    /\ bs \in [0 .. n - 1 -> Chains]
    /\ PlacedIn(bs, n)
    /\ UniqueIn(bs)

-----------------------------------------------------------------------------
(***************************************************************************)
(* The operators.                                                          *)
(***************************************************************************)

\* A key's bucket is a bucket of the array.
LEMMA BucketInRange ==
    ASSUME NEW k \in Keys, NEW n \in Nat \ {0}
    PROVE  Bucket(k, n) \in 0 .. n - 1
BY HashAssumption DEF Bucket

\* In a chain without repeated keys the scan stops at the node with the key.
LEMMA FirstIsIt ==
    ASSUME NEW chain \in Chains,
           \A j, m \in DOMAIN chain : chain[j].key = chain[m].key => j = m,
           NEW p \in DOMAIN chain
    PROVE  /\ Positions(chain, chain[p].key) = {p}
           /\ First(chain, chain[p].key) = p
<1>1. Positions(chain, chain[p].key) = {p}
  BY DEF Positions
<1>2. p <= p
  BY DEF Chains
<1> QED
  BY <1>1, <1>2 DEF First

\* A chain is a sequence of nodes.
LEMMA ChainFacts ==
    ASSUME NEW chain \in Chains
    PROVE  /\ Len(chain) \in Nat
           /\ DOMAIN chain = 1 .. Len(chain)
           /\ \A m \in 1 .. Len(chain) :
                 /\ chain[m] \in Entries
                 /\ chain[m].key \in Keys
                 /\ chain[m].val \in Vals \cup {NULL}
<1>1. \A m \in 1 .. Len(chain) : chain[m] \in Entries
  BY DEF Chains
<1> QED
  BY <1>1 DEF Chains, Entries

\* RemoveAt shifts the nodes behind the removed one.
LEMMA RemoveAtFacts ==
    ASSUME NEW chain \in Chains, NEW p \in DOMAIN chain
    PROVE  /\ RemoveAt(chain, p) \in Chains
           /\ DOMAIN RemoveAt(chain, p) = 1 .. Len(chain) - 1
           /\ \A m \in 1 .. Len(chain) - 1 :
                 RemoveAt(chain, p)[m] = IF m < p THEN chain[m] ELSE chain[m + 1]
<1> DEFINE front == SubSeq(chain, 1, p - 1)
           back  == SubSeq(chain, p + 1, Len(chain))
<1>1. /\ Len(chain) \in Nat /\ p \in 1 .. Len(chain)
      /\ \A m \in 1 .. Len(chain) : chain[m] \in Entries
  BY ChainFacts
<1>2. /\ front \in Seq(Entries) /\ Len(front) = p - 1
      /\ \A m \in 1 .. p - 1 : front[m] = chain[m]
  BY <1>1
<1>3. /\ back \in Seq(Entries) /\ Len(back) = Len(chain) - p
      /\ \A m \in 1 .. Len(chain) - p : back[m] = chain[p + m]
  BY <1>1
<1>4. RemoveAt(chain, p) = front \o back
  BY DEF RemoveAt
<1> HIDE DEF front, back
<1>5. /\ front \o back \in Seq(Entries)
      /\ Len(front \o back) = Len(chain) - 1
      /\ \A m \in 1 .. Len(chain) - 1 : (front \o back)[m] =
            IF m <= p - 1 THEN front[m] ELSE back[m - (p - 1)]
  <2>1. /\ front \o back \in Seq(Entries)
        /\ Len(front \o back) = Len(front) + Len(back)
        /\ \A m \in 1 .. Len(front) + Len(back) : (front \o back)[m] =
              IF m <= Len(front) THEN front[m] ELSE back[m - Len(front)]
    BY <1>2, <1>3, ConcatProperties, Zenon
  <2>2. Len(front) = p - 1 /\ Len(front) + Len(back) = Len(chain) - 1
    BY <1>1, <1>2, <1>3
  <2> QED
    BY <2>1, <2>2, Zenon
<1>6. ASSUME NEW m \in 1 .. Len(chain) - 1
      PROVE  (front \o back)[m] = IF m < p THEN chain[m] ELSE chain[m + 1]
  <2>1. CASE m < p
    BY <2>1, <1>1, <1>2, <1>5
  <2>2. CASE ~(m < p)
    <3>1. m - (p - 1) \in 1 .. Len(chain) - p /\ p + (m - (p - 1)) = m + 1
      BY <2>2, <1>1
    <3> QED
      BY <2>2, <3>1, <1>1, <1>3, <1>5
  <2> QED
    BY <2>1, <2>2
<1> QED
  BY <1>4, <1>5, <1>6 DEF Chains

\* Append adds one node behind the others.
LEMMA AppendFacts ==
    ASSUME NEW chain \in Chains, NEW e \in Entries
    PROVE  /\ Append(chain, e) \in Chains
           /\ DOMAIN Append(chain, e) = DOMAIN chain \cup {Len(chain) + 1}
           /\ Len(chain) + 1 \notin DOMAIN chain
           /\ \A m \in DOMAIN chain : Append(chain, e)[m] = chain[m]
           /\ Append(chain, e)[Len(chain) + 1] = e
BY ChainFacts DEF Chains

\* A lookup finds the value of a node that is there ...
LEMMA LookupFound ==
    ASSUME NEW n \in Nat \ {0}, NEW bs, Good(bs, n),
           NEW b \in DOMAIN bs, NEW j \in DOMAIN bs[b]
    PROVE  /\ bs[b][j].key \in Keys
           /\ Positions(bs[Bucket(bs[b][j].key, n)], bs[b][j].key) = {j}
           /\ First(bs[b], bs[b][j].key) = j
           /\ Bucket(bs[b][j].key, n) = b
           /\ Lookup(bs, n, bs[b][j].key) = bs[b][j].val
<1>1. bs[b] \in Chains
  BY DEF Good
<1>2. bs[b][j].key \in Keys
  BY <1>1, ChainFacts
<1>3. Bucket(bs[b][j].key, n) = b
  BY DEF Good, PlacedIn
<1>4. \A m, q \in DOMAIN bs[b] : bs[b][m].key = bs[b][q].key => m = q
  BY DEF Good, UniqueIn
<1>5. /\ Positions(bs[b], bs[b][j].key) = {j}
      /\ First(bs[b], bs[b][j].key) = j
  BY <1>1, <1>4, FirstIsIt
<1> QED
  BY <1>2, <1>3, <1>5 DEF Lookup

\* ... and NULL when no chain holds the key.
LEMMA LookupAbsent ==
    ASSUME NEW n \in Nat \ {0}, NEW bs, Good(bs, n),
           NEW k \in Keys, k \notin KeysIn(bs)
    PROVE  /\ Positions(bs[Bucket(k, n)], k) = {}
           /\ Lookup(bs, n, k) = NULL
<1>1. Bucket(k, n) \in DOMAIN bs
  BY BucketInRange DEF Good
<1>2. Positions(bs[Bucket(k, n)], k) = {}
  BY <1>1 DEF Positions, KeysIn, KeysOf
<1> QED
  BY <1>2 DEF Lookup

\* A key of the table is the key of some node.
LEMMA KeyHasNode ==
    ASSUME NEW n \in Nat \ {0}, NEW bs, NEW k \in KeysIn(bs)
    PROVE  \E b \in DOMAIN bs : \E j \in DOMAIN bs[b] : bs[b][j].key = k
BY DEF KeysIn, KeysOf

\* bucket_put of a key that is not there adds it and changes no other lookup.
LEMMA BucketPutFacts ==
    ASSUME NEW n \in Nat \ {0}, NEW bs, Good(bs, n),
           NEW k \in Keys, k \notin KeysIn(bs), NEW v \in Vals \cup {NULL}
    PROVE  /\ Good(BucketPut(bs, n, k, v), n)
           /\ KeysIn(BucketPut(bs, n, k, v)) = KeysIn(bs) \cup {k}
           /\ Lookup(BucketPut(bs, n, k, v), n, k) = v
           /\ \A x \in Keys \ {k} :
                 Lookup(BucketPut(bs, n, k, v), n, x) = Lookup(bs, n, x)
<1> DEFINE e  == [key |-> k, val |-> v]
           c  == Bucket(k, n)
           nb == BucketPut(bs, n, k, v)
<1>1. /\ e \in Entries /\ c \in DOMAIN bs /\ bs[c] \in Chains
      /\ DOMAIN nb = DOMAIN bs /\ DOMAIN bs = 0 .. n - 1
      /\ nb[c] = Append(bs[c], e)
      /\ \A b \in DOMAIN bs : b # c => nb[b] = bs[b]
  BY BucketInRange DEF Good, BucketPut, Entries
<1>2. /\ nb[c] \in Chains
      /\ DOMAIN nb[c] = DOMAIN bs[c] \cup {Len(bs[c]) + 1}
      /\ Len(bs[c]) + 1 \notin DOMAIN bs[c]
      /\ \A m \in DOMAIN bs[c] : nb[c][m] = bs[c][m]
      /\ nb[c][Len(bs[c]) + 1] = e
  BY <1>1, AppendFacts
<1>3. \A b \in DOMAIN bs : \A m \in DOMAIN bs[b] : bs[b][m].key # k
  BY DEF KeysIn, KeysOf
<1>4. nb \in [0 .. n - 1 -> Chains]
  <2>1. \A b \in 0 .. n - 1 : nb[b] \in Chains
    BY <1>1, <1>2 DEF Good
  <2>2. nb = [b \in 0 .. n - 1 |-> nb[b]]
    BY <1>1 DEF BucketPut
  <2> QED
    BY <2>1, <2>2
<1>5. PlacedIn(nb, n)
  <2> SUFFICES ASSUME NEW b \in DOMAIN nb, NEW j \in DOMAIN nb[b]
               PROVE  Bucket(nb[b][j].key, n) = b
    BY DEF PlacedIn
  <2>1. CASE b = c /\ j = Len(bs[c]) + 1
    BY <2>1, <1>2
  <2>2. CASE ~(b = c /\ j = Len(bs[c]) + 1)
    BY <2>2, <1>1, <1>2 DEF Good, PlacedIn
  <2> QED
    BY <2>1, <2>2
<1>6. UniqueIn(nb)
  <2> SUFFICES ASSUME NEW b \in DOMAIN nb, NEW j \in DOMAIN nb[b],
                      NEW m \in DOMAIN nb[b], nb[b][j].key = nb[b][m].key
               PROVE  j = m
    BY DEF UniqueIn
  <2>1. CASE b = c
    BY <2>1, <1>1, <1>2, <1>3 DEF Good, UniqueIn
  <2>2. CASE b # c
    BY <2>2, <1>1 DEF Good, UniqueIn
  <2> QED
    BY <2>1, <2>2
<1>7. Good(nb, n)
  BY <1>4, <1>5, <1>6 DEF Good
<1>8. KeysIn(nb) = KeysIn(bs) \cup {k}
  <2>1. KeysOf(nb[c]) = KeysOf(bs[c]) \cup {k}
    BY <1>2 DEF KeysOf
  <2>2. \A b \in DOMAIN bs : b # c => KeysOf(nb[b]) = KeysOf(bs[b])
    BY <1>1
  <2> QED
    BY ZenonT(60), <2>1, <2>2, <1>1 DEF KeysIn
<1>9. Lookup(nb, n, k) = v
  BY <1>1, <1>2, <1>7, LookupFound
<1>10. ASSUME NEW x \in Keys \ {k}
       PROVE  Lookup(nb, n, x) = Lookup(bs, n, x)
  <2>1. CASE x \in KeysIn(bs)
    <3>1. PICK b, j : b \in DOMAIN bs /\ j \in DOMAIN bs[b] /\ bs[b][j].key = x
      BY <2>1, KeyHasNode
    <3>2. j \in DOMAIN nb[b] /\ nb[b][j] = bs[b][j]
      BY <3>1, <1>1, <1>2
    <3> QED
      BY <3>1, <3>2, <1>1, <1>7, LookupFound
  <2>2. CASE x \notin KeysIn(bs)
    BY <2>2, <1>7, <1>8, LookupAbsent
  <2> QED
    BY <2>1, <2>2
<1> QED
  BY <1>7, <1>8, <1>9, <1>10

\* Deleting a key that is there removes its one node and changes no other
\* lookup.
LEMMA UnlinkFacts ==
    ASSUME NEW n \in Nat \ {0}, NEW bs, Good(bs, n),
           NEW k \in Keys, k \in KeysIn(bs)
    PROVE  /\ Good(Unlink(bs, n, k), n)
           /\ KeysIn(Unlink(bs, n, k)) = KeysIn(bs) \ {k}
           /\ Positions(bs[Bucket(k, n)], k) # {}
           /\ \A x \in Keys \ {k} :
                 Lookup(Unlink(bs, n, k), n, x) = Lookup(bs, n, x)
<1> DEFINE nb == Unlink(bs, n, k)
<1>1. PICK c, p : /\ c \in DOMAIN bs /\ p \in DOMAIN bs[c]
                  /\ bs[c][p].key = k
  BY KeyHasNode
<1>2. /\ Positions(bs[Bucket(k, n)], k) = {p}
      /\ First(bs[c], k) = p /\ Bucket(k, n) = c
  BY <1>1, LookupFound
<1>3. /\ bs[c] \in Chains
      /\ DOMAIN nb = DOMAIN bs /\ DOMAIN bs = 0 .. n - 1
      /\ nb[c] = RemoveAt(bs[c], p)
      /\ \A b \in DOMAIN bs : b # c => nb[b] = bs[b]
      /\ nb = [bs EXCEPT ![c] = RemoveAt(bs[c], p)]
  BY <1>1, <1>2 DEF Good, Unlink
<1>4. /\ Len(bs[c]) \in Nat /\ p \in 1 .. Len(bs[c])
      /\ DOMAIN bs[c] = 1 .. Len(bs[c])
      /\ nb[c] \in Chains
      /\ DOMAIN nb[c] = 1 .. Len(bs[c]) - 1
      /\ \A m \in 1 .. Len(bs[c]) - 1 :
            nb[c][m] = IF m < p THEN bs[c][m] ELSE bs[c][m + 1]
  BY <1>1, <1>3, ChainFacts, RemoveAtFacts
\* the old position of the node at m
<1> DEFINE Old(b, m) == IF b = c /\ ~(m < p) THEN m + 1 ELSE m
<1>5. ASSUME NEW b \in DOMAIN bs, NEW m \in DOMAIN nb[b]
      PROVE  /\ m \in Nat
             /\ Old(b, m) \in DOMAIN bs[b]
             /\ nb[b][m] = bs[b][Old(b, m)]
             /\ ~(b = c /\ Old(b, m) = p)
  <2>1. CASE b = c
    BY <2>1, <1>4
  <2>2. CASE b # c
    <3>1. bs[b] \in Chains /\ nb[b] = bs[b]
      BY <2>2, <1>3 DEF Good
    <3> QED
      BY <2>2, <3>1, ChainFacts
  <2> QED
    BY <2>1, <2>2
<1>6. ASSUME NEW b \in DOMAIN bs, NEW q \in DOMAIN bs[b], ~(b = c /\ q = p)
      PROVE  \E m \in DOMAIN nb[b] : nb[b][m] = bs[b][q]
  <2>1. CASE b # c
    BY <2>1, <1>3
  <2>2. CASE b = c /\ q < p
    BY <2>2, <1>4
  <2>3. CASE b = c /\ q > p
    <3>1. q - 1 \in 1 .. Len(bs[c]) - 1 /\ ~(q - 1 < p) /\ (q - 1) + 1 = q
      BY <2>3, <1>4
    <3>2. q - 1 \in DOMAIN nb[b] /\ nb[b][q - 1] = bs[b][q]
      BY <2>3, <3>1, <1>4
    <3> QED
      BY <3>2
  <2> QED
    BY <2>1, <2>2, <2>3, <1>4, <1>6
<1>7. nb \in [0 .. n - 1 -> Chains]
  BY <1>1, <1>3, <1>4 DEF Good
<1>8. PlacedIn(nb, n)
  <2> SUFFICES ASSUME NEW b \in DOMAIN nb, NEW j \in DOMAIN nb[b]
               PROVE  Bucket(nb[b][j].key, n) = b
    BY DEF PlacedIn
  <2> QED
    BY <1>3, <1>5 DEF Good, PlacedIn
<1>9. UniqueIn(nb)
  <2> SUFFICES ASSUME NEW b \in DOMAIN nb, NEW j \in DOMAIN nb[b],
                      NEW m \in DOMAIN nb[b], nb[b][j].key = nb[b][m].key
               PROVE  j = m
    BY DEF UniqueIn
  <2>1. Old(b, j) = Old(b, m)
    BY <1>3, <1>5 DEF Good, UniqueIn
  <2> QED
    BY <2>1, <1>3, <1>4, <1>5
<1>10. Good(nb, n)
  BY <1>7, <1>8, <1>9 DEF Good
<1>11. KeysIn(nb) = KeysIn(bs) \ {k}
  <2>1. ASSUME NEW x \in KeysIn(nb)
        PROVE  x \in KeysIn(bs) \ {k}
    <3>1. PICK b, m : b \in DOMAIN nb /\ m \in DOMAIN nb[b] /\ nb[b][m].key = x
      BY KeyHasNode
    <3>2. /\ Old(b, m) \in DOMAIN bs[b] /\ bs[b][Old(b, m)].key = x
          /\ ~(b = c /\ Old(b, m) = p)
      BY <3>1, <1>3, <1>5
    <3> HIDE DEF Old
    <3>3. x # k
      BY <3>1, <3>2, <1>1, <1>2, <1>3, LookupFound
    <3> QED
      BY <3>1, <3>2, <3>3, <1>3 DEF KeysIn, KeysOf
  <2>2. ASSUME NEW x \in KeysIn(bs) \ {k}
        PROVE  x \in KeysIn(nb)
    <3>1. PICK b, q : b \in DOMAIN bs /\ q \in DOMAIN bs[b] /\ bs[b][q].key = x
      BY KeyHasNode
    <3> QED
      BY <3>1, <1>1, <1>3, <1>6 DEF KeysIn, KeysOf
  <2> QED
    BY <2>1, <2>2
<1>12. ASSUME NEW x \in Keys \ {k}
       PROVE  Lookup(nb, n, x) = Lookup(bs, n, x)
  <2>1. CASE x \in KeysIn(bs)
    <3>1. PICK b, q : b \in DOMAIN bs /\ q \in DOMAIN bs[b] /\ bs[b][q].key = x
      BY <2>1, KeyHasNode
    <3>2. PICK m \in DOMAIN nb[b] : nb[b][m] = bs[b][q]
      BY <3>1, <1>1, <1>6
    <3>3. Lookup(bs, n, x) = bs[b][q].val
      BY <3>1, LookupFound
    <3>4. b \in DOMAIN nb /\ nb[b][m].key = x /\ nb[b][m].val = bs[b][q].val
      BY <3>1, <3>2, <1>3
    <3> HIDE DEF nb
    <3> QED
      BY <3>2, <3>3, <3>4, <1>10, LookupFound
  <2>2. CASE x \notin KeysIn(bs)
    BY <2>2, <1>10, <1>11, LookupAbsent
  <2> QED
    BY <2>1, <2>2
<1> QED
  BY <1>2, <1>10, <1>11, <1>12

\* An empty array.
LEMMA EmptyFacts ==
    ASSUME NEW n \in Nat
    PROVE  /\ Good(EmptyBuckets(n), n)
           /\ KeysIn(EmptyBuckets(n)) = {}
<1>1. << >> \in Chains /\ DOMAIN << >> = {}
  BY DEF Chains
<1> QED
  BY <1>1 DEF Good, EmptyBuckets, PlacedIn, UniqueIn, KeysIn, KeysOf

\* The keys of a well-formed array.
LEMMA KeysInKeys ==
    ASSUME NEW n \in Nat, NEW bs, Good(bs, n)
    PROVE  KeysIn(bs) \subseteq Keys
<1>1. \A b \in DOMAIN bs : bs[b] \in Chains
  BY DEF Good
<1> QED
  BY <1>1, ChainFacts DEF KeysIn, KeysOf

-----------------------------------------------------------------------------
(***************************************************************************)
(* The inductive invariant.  A stored value is never NULL when the client  *)
(* never puts NULL; without that a lookup cannot tell a stored NULL from   *)
(* an absent key, and hash_table_put leaves the old node in its chain.     *)
(***************************************************************************)
ValuesFound == live => \A k \in KeysIn(bkts) : Lookup(bkts, size, k) \in Vals

Inv ==
    /\ TypeOK
    /\ Placed
    /\ UniqueKeys
    /\ FullCounts
    /\ RoomLeft
    /\ ResizeCopies
    /\ PutInProgress
    /\ ValuesFound
    /\ IsFiniteSet(KeysIn(bkts))

\* The invariant of a table no put is working on.
TableInv ==
    /\ live \in BOOLEAN
    /\ size \in Nat /\ (live <=> size > 0)
    /\ Good(bkts, size)
    /\ IsFiniteSet(KeysIn(bkts))
    /\ full = Cardinality(KeysIn(bkts))
    /\ ValuesFound

LEMMA InvTable == Inv => TableInv
BY DEF Inv, TableInv, TypeOK, Good, Placed, UniqueKeys, FullCounts

\* Deleting, whether the key is there or not.
LEMMA UnlinkStep ==
    ASSUME TableInv, live, NEW k \in Keys
    PROVE  /\ Good(Unlink(bkts, size, k), size)
           /\ KeysIn(Unlink(bkts, size, k)) = KeysIn(bkts) \ {k}
           /\ IsFiniteSet(KeysIn(bkts) \ {k})
           /\ FullAfterUnlink(k) = Cardinality(KeysIn(bkts) \ {k})
           /\ FullAfterUnlink(k) \in Nat /\ FullAfterUnlink(k) <= full
           /\ \A x \in Keys \ {k} :
                 Lookup(Unlink(bkts, size, k), size, x) = Lookup(bkts, size, x)
           /\ Lookup(Unlink(bkts, size, k), size, k) = NULL
<1>1. /\ size \in Nat \ {0} /\ Good(bkts, size)
      /\ IsFiniteSet(KeysIn(bkts)) /\ full = Cardinality(KeysIn(bkts))
  BY DEF TableInv
<1>2. /\ IsFiniteSet(KeysIn(bkts) \ {k})
      /\ Cardinality(KeysIn(bkts) \ {k}) =
            IF k \in KeysIn(bkts) THEN Cardinality(KeysIn(bkts)) - 1
                                  ELSE Cardinality(KeysIn(bkts))
      /\ Cardinality(KeysIn(bkts) \ {k}) \in Nat
      /\ full \in Nat
  BY <1>1, FS_RemoveElement, FS_CardinalityType
<1>3. CASE k \in KeysIn(bkts)
  <2>1. /\ Good(Unlink(bkts, size, k), size)
        /\ KeysIn(Unlink(bkts, size, k)) = KeysIn(bkts) \ {k}
        /\ Positions(bkts[Bucket(k, size)], k) # {}
        /\ \A x \in Keys \ {k} :
              Lookup(Unlink(bkts, size, k), size, x) = Lookup(bkts, size, x)
    BY <1>1, <1>3, UnlinkFacts
  <2>2. Lookup(Unlink(bkts, size, k), size, k) = NULL
    BY <1>1, <2>1, LookupAbsent
  <2> QED
    BY <1>1, <1>2, <1>3, <2>1, <2>2 DEF FullAfterUnlink
<1>4. CASE k \notin KeysIn(bkts)
  <2>1. /\ Positions(bkts[Bucket(k, size)], k) = {}
        /\ Lookup(bkts, size, k) = NULL
    BY <1>1, <1>4, LookupAbsent
  <2>2. Unlink(bkts, size, k) = bkts /\ FullAfterUnlink(k) = full
    BY <2>1 DEF Unlink, FullAfterUnlink
  <2> QED
    BY <1>1, <1>2, <1>4, <2>1, <2>2
<1> QED
  BY <1>3, <1>4

\* Lookups return values or NULL.
LEMMA LookupType ==
    ASSUME TableInv, live, NEW k \in Keys
    PROVE  /\ Lookup(bkts, size, k) \in Vals \cup {NULL}
           /\ k \in KeysIn(bkts) => Lookup(bkts, size, k) \in Vals
           /\ k \notin KeysIn(bkts) => Lookup(bkts, size, k) = NULL
BY LookupAbsent DEF TableInv, ValuesFound

-----------------------------------------------------------------------------
(***************************************************************************)
(* The invariant holds initially and is preserved: one lemma per action    *)
(* that changes the table or the resize.                                   *)
(***************************************************************************)
LEMMA InvInit == Init => Inv
<1> SUFFICES ASSUME Init PROVE Inv
  OBVIOUS
<1>1. Good(bkts, 0) /\ KeysIn(bkts) = {}
  BY EmptyFacts DEF Init
<1>2. IsFiniteSet(KeysIn(bkts)) /\ Cardinality(KeysIn(bkts)) = 0
  BY <1>1, FS_EmptySet
<1>3. /\ live = FALSE /\ size = 0 /\ full = 0 /\ pc = "idle" /\ newsize = 0
      /\ index = 0 /\ here = 0 /\ moved = 0 /\ ret = 0
  BY DEF Init
<1>4. TypeOK
  <2>1. live \in BOOLEAN /\ ret \in Vals \cup {NULL, 0, -1}
    BY <1>3, Zenon
  <2>2. bkts \in [0 .. size - 1 -> Chains]
    BY <1>1, <1>3 DEF Good
  <2>3. size \in Nat /\ (live <=> size > 0)
    BY <1>3
  <2> QED
    BY <1>3, <2>1, <2>2, <2>3 DEF TypeOK
<1>5. Placed /\ UniqueKeys
  BY <1>1, <1>3 DEF Placed, UniqueKeys, Good
<1>6. FullCounts /\ RoomLeft /\ ResizeCopies /\ PutInProgress /\ ValuesFound
  BY <1>2, <1>3 DEF FullCounts, RoomLeft, Ready, ResizeCopies, PutInProgress,
     ValuesFound
<1> QED
  BY <1>2, <1>4, <1>5, <1>6 DEF Inv

LEMMA CreateInv ==
    ASSUME Inv, NEW n \in InitialSizes, Create(n)
    PROVE  Inv'
<1>1. size' \in Nat /\ size' > 0
  BY SizesAssumption DEF Create
<1>2. Good(bkts', size') /\ KeysIn(bkts') = {}
  BY <1>1, EmptyFacts DEF Create
<1>3. IsFiniteSet(KeysIn(bkts')) /\ Cardinality(KeysIn(bkts')) = 0
  BY <1>2, FS_EmptySet
<1>4. pc' = "idle"
  BY DEF Inv, TypeOK, Create
<1> QED
  BY <1>1, <1>2, <1>3, <1>4 DEF Create, Inv, TypeOK, Placed, UniqueKeys,
     FullCounts, RoomLeft, Ready, ResizeCopies, PutInProgress, ValuesFound,
     Good, resizing

LEMMA DestroyInv == ASSUME Inv, Destroy PROVE Inv'
<1>1. Good(bkts', size') /\ KeysIn(bkts') = {}
  BY EmptyFacts DEF Destroy
<1>2. IsFiniteSet(KeysIn(bkts')) /\ Cardinality(KeysIn(bkts')) = 0
  BY <1>1, FS_EmptySet
<1> QED
  BY <1>1, <1>2 DEF Destroy, Inv, TypeOK, Placed, UniqueKeys,
     FullCounts, RoomLeft, Ready, ResizeCopies, PutInProgress, ValuesFound,
     Good, resizing

LEMMA DeleteInv == ASSUME Inv, NEW k \in Keys, Delete(k) PROVE Inv'
<1>1. TableInv /\ live /\ pc = "idle"
  BY InvTable DEF Delete, Ready
<1>2. /\ Good(bkts', size) /\ KeysIn(bkts') = KeysIn(bkts) \ {k}
      /\ IsFiniteSet(KeysIn(bkts')) /\ full' = Cardinality(KeysIn(bkts'))
      /\ full' \in Nat /\ full' <= full
      /\ \A x \in Keys \ {k} : Lookup(bkts', size, x) = Lookup(bkts, size, x)
  BY <1>1, UnlinkStep DEF Delete
<1>3. ret' \in Vals \cup {NULL}
  BY <1>1, LookupType DEF Delete
<1>4. KeysIn(bkts) \subseteq Keys
  BY <1>1, KeysInKeys DEF TableInv
<1>5. TypeOK'
  BY <1>1, <1>2, <1>3 DEF Delete, Inv, TypeOK, Good, resizing
<1>6. ValuesFound'
  BY <1>1, <1>2, <1>4 DEF Delete, TableInv, ValuesFound
<1> QED
  BY <1>1, <1>2, <1>5, <1>6 DEF Delete, Inv, TypeOK, Placed, UniqueKeys,
     FullCounts, RoomLeft, Ready, ResizeCopies, PutInProgress, Good

LEMMA PutCallInv ==
    ASSUME NULL \notin Vals, Inv, NEW k \in Keys, NEW v \in Vals, PutCall(k, v)
    PROVE  /\ Inv'
           /\ KeysIn(bkts') = KeysIn(bkts) \ {k}
           /\ \A x \in Keys \ {k} :
                 Lookup(bkts', size, x) = Lookup(bkts, size, x)
<1>1. TableInv /\ live /\ pc = "idle"
  BY InvTable DEF PutCall, Ready
<1>2. /\ Good(bkts', size) /\ KeysIn(bkts') = KeysIn(bkts) \ {k}
      /\ IsFiniteSet(KeysIn(bkts')) /\ full' = Cardinality(KeysIn(bkts'))
      /\ full' \in Nat
      /\ \A x \in Keys \ {k} : Lookup(bkts', size, x) = Lookup(bkts, size, x)
  <2>1. CASE Lookup(bkts, size, k) # NULL
    BY <2>1, <1>1, UnlinkStep DEF PutCall
  <2>2. CASE Lookup(bkts, size, k) = NULL
    <3>1. k \notin KeysIn(bkts)
      BY <2>2, <1>1, LookupType
    <3>2. bkts' = bkts /\ full' = full
      BY <2>2 DEF PutCall
    <3>3. full \in Nat
      BY DEF Inv, TypeOK
    <3> QED
      BY <3>1, <3>2, <3>3, <1>1 DEF TableInv
  <2> QED
    BY <2>1, <2>2
<1>3. KeysIn(bkts) \subseteq Keys
  BY <1>1, KeysInKeys DEF TableInv
<1>4. TypeOK'
  BY <1>1, <1>2 DEF PutCall, Inv, TypeOK, Good, resizing
<1>5. ValuesFound'
  BY <1>1, <1>2, <1>3 DEF PutCall, TableInv, ValuesFound
<1>6. PutInProgress'
  BY <1>2 DEF PutCall, PutInProgress
<1>7. /\ live' = live /\ size' = size /\ pc' = "grow"
  BY DEF PutCall
<1> QED
  BY <1>1, <1>2, <1>4, <1>5, <1>6, <1>7 DEF Inv, Placed, UniqueKeys,
     FullCounts, RoomLeft, Ready, ResizeCopies, Good

LEMMA GrowStepInv == ASSUME Inv, GrowStep PROVE Inv'
<1>1. newsize' \in Nat
  <2>1. newsize \in Nat /\ UIntRange \in Nat \ {0}
    BY SizesAssumption DEF Inv, TypeOK
  <2> QED
    BY <2>1 DEF GrowStep
<1> QED
  BY <1>1 DEF GrowStep, table, resizing, Inv, TypeOK, Placed, UniqueKeys,
     FullCounts, RoomLeft, Ready, ResizeCopies, PutInProgress, ValuesFound

LEMMA GrowSkipInv == ASSUME Inv, GrowSkip PROVE Inv'
BY DEF GrowSkip, Crowded, table, resizing, Inv, TypeOK, Placed, UniqueKeys,
   FullCounts, RoomLeft, Ready, ResizeCopies, PutInProgress, ValuesFound

LEMMA ResizeStartInv == ASSUME Inv, ResizeStart PROVE Inv'
<1>1. TableInv /\ live /\ pc = "grow" /\ full + 1 < newsize
      /\ full \in Nat /\ newsize \in Nat
  BY InvTable DEF ResizeStart, Crowded, Inv, TypeOK
<1>2. /\ pc' = "resize" /\ newBkts' = EmptyBuckets(newsize)
      /\ index' = 0 /\ here' = 0 /\ moved' = 0
      /\ bkts' = bkts /\ size' = size /\ live' = live /\ full' = full
      /\ arg' = arg /\ newsize' = newsize /\ ret' = ret
  BY <1>1 DEF ResizeStart, table
<1>3. Good(newBkts', newsize) /\ KeysIn(newBkts') = {}
  BY <1>1, <1>2, EmptyFacts
<1>4. bkts[0] \in Chains /\ Len(bkts[0]) \in Nat
  BY <1>1, ChainFacts DEF TableInv, Good
<1>5. TypeOK'
  BY <1>1, <1>2, <1>3, <1>4 DEF Inv, TypeOK, Good
<1>6. Visited' = {}
  BY <1>2 DEF Visited
<1>7. moved' = Cardinality(KeysIn(newBkts'))
  BY <1>2, <1>3, FS_EmptySet
<1>8. Placed' /\ UniqueKeys'
  BY <1>2, <1>3 DEF Good, Placed, UniqueKeys, Inv
<1>9. FullCounts'
  BY <1>2, <1>7 DEF FullCounts, Inv
<1>10. RoomLeft' /\ ResizeCopies' /\ PutInProgress' /\ ValuesFound'
  BY <1>1, <1>2, <1>3, <1>6 DEF RoomLeft, Ready, ResizeCopies, PutInProgress,
     ValuesFound, Inv
<1> QED
  BY <1>2, <1>5, <1>8, <1>9, <1>10 DEF Inv

\* Membership in the set of keys passed by a resize, and in the set of keys of
\* an array.
LEMMA VisitedMember ==
    ASSUME NEW x
    PROVE  x \in Visited <=>
              \/ \E b \in 0 .. index - 1 : x \in KeysOf(bkts[b])
              \/ \E j \in 1 .. here : x = bkts[index][j].key
BY DEF Visited

LEMMA VisitedMemberPrime ==
    ASSUME NEW x
    PROVE  x \in Visited' <=>
              \/ \E b \in 0 .. index' - 1 : x \in KeysOf(bkts'[b])
              \/ \E j \in 1 .. here' : x = bkts'[index'][j].key
BY DEF Visited

LEMMA KeysInMember ==
    ASSUME NEW bs, NEW x
    PROVE  x \in KeysIn(bs) <=> \E b \in DOMAIN bs : x \in KeysOf(bs[b])
BY DEF KeysIn

\* A number below the modulus is its own remainder.
LEMMA ModSmall ==
    ASSUME NEW n \in Nat, NEW m \in Nat, m < n
    PROVE  m % n = m
OBVIOUS

\* What the invariant says of a resize under way.
LEMMA ResizeFacts ==
    ASSUME Inv, pc = "resize"
    PROVE  /\ TableInv /\ live /\ size \in Nat \ {0} /\ newsize \in Nat \ {0}
           /\ full \in Nat /\ full + 1 < newsize
           /\ Good(bkts, size) /\ Good(newBkts, newsize)
           /\ DOMAIN bkts = 0 .. size - 1 /\ index \in 0 .. size - 1
           /\ bkts[index] \in Chains /\ here \in 0 .. Len(bkts[index])
           /\ KeysIn(newBkts) = Visited
           /\ Visited \subseteq KeysIn(bkts)
           /\ IsFiniteSet(KeysIn(bkts)) /\ full = Cardinality(KeysIn(bkts))
           /\ IsFiniteSet(Visited) /\ moved = Cardinality(Visited)
           /\ moved \in Nat
           /\ \A k \in Visited :
                 Lookup(newBkts, newsize, k) = Lookup(bkts, size, k)
<1>1. /\ TableInv /\ live /\ size \in Nat \ {0} /\ newsize \in Nat \ {0}
      /\ full \in Nat /\ full + 1 < newsize /\ moved \in Nat
      /\ Good(bkts, size) /\ Good(newBkts, newsize)
      /\ index \in 0 .. size - 1 /\ here \in 0 .. Len(bkts[index])
  BY InvTable DEF Inv, TypeOK, Good, Placed, UniqueKeys, PutInProgress, TableInv
<1>2. DOMAIN bkts = 0 .. size - 1 /\ bkts[index] \in Chains
  BY <1>1 DEF Good
<1>3. Visited \subseteq KeysIn(bkts)
  <2>1. \A j \in 1 .. here : j \in DOMAIN bkts[index]
    BY <1>1, <1>2, ChainFacts
  <2>2. \A j \in 1 .. here : bkts[index][j].key \in KeysOf(bkts[index])
    BY <2>1 DEF KeysOf
  <2>3. \A b \in 0 .. index - 1 : b \in DOMAIN bkts
    BY <1>1, <1>2
  <2> QED
    BY <1>1, <1>2, <2>2, <2>3, VisitedMember, KeysInMember
<1>4. IsFiniteSet(KeysIn(bkts)) /\ full = Cardinality(KeysIn(bkts))
  BY <1>1 DEF TableInv
<1>5. IsFiniteSet(Visited)
  BY <1>3, <1>4, FS_Subset
<1> QED
  BY <1>1, <1>2, <1>3, <1>4, <1>5 DEF Inv, FullCounts, ResizeCopies

LEMMA MoveNodeInv == ASSUME Inv, MoveNode PROVE Inv'
<1> DEFINE k == bkts[index][here + 1].key
           v == Lookup(bkts, size, k)
<1>1. pc = "resize" /\ here < Len(bkts[index])
  BY DEF MoveNode
<1>2. /\ pc' = pc /\ live' = live /\ size' = size /\ full' = full
      /\ bkts' = bkts /\ arg' = arg /\ newsize' = newsize /\ index' = index
      /\ here' = here + 1 /\ moved' = moved + 1 /\ ret' = ret
      /\ newBkts' = BucketPut(newBkts, newsize, k, v)
  BY DEF MoveNode, table
<1>3. /\ Len(bkts[index]) \in Nat /\ here \in Nat
      /\ here + 1 \in DOMAIN bkts[index]
      /\ \A j \in 1 .. here : j \in DOMAIN bkts[index] /\ j # here + 1
      /\ k \in Keys
  <2>1. /\ Len(bkts[index]) \in Nat /\ here \in Nat
        /\ DOMAIN bkts[index] = 1 .. Len(bkts[index])
        /\ \A m \in 1 .. Len(bkts[index]) : bkts[index][m].key \in Keys
    BY <1>1, ResizeFacts, ChainFacts
  <2>2. here + 1 \in 1 .. Len(bkts[index])
    BY <1>1, <2>1
  <2> QED
    BY <2>1, <2>2
<1>4. k \in KeysIn(bkts)
  BY <1>1, <1>3, ResizeFacts DEF KeysIn, KeysOf
<1>5. k \notin Visited
  <2>1. ASSUME NEW b \in 0 .. index - 1 PROVE k \notin KeysOf(bkts[b])
    <3>1. b \in 0 .. size - 1 /\ b # index
      BY <1>1, ResizeFacts
    <3>2. Bucket(k, size) = index
      BY <1>1, <1>3, ResizeFacts DEF Good, PlacedIn
    <3> QED
      BY <1>1, <3>1, <3>2, ResizeFacts DEF Good, PlacedIn, KeysOf
  <2>2. \A j \in 1 .. here : bkts[index][j].key # k
    BY <1>1, <1>3, ResizeFacts DEF Good, UniqueIn
  <2> QED
    BY <2>1, <2>2, VisitedMember
<1>6. v \in Vals
  BY <1>1, <1>3, <1>4, ResizeFacts, LookupType
<1> HIDE DEF k, v
<1>7. /\ Good(newBkts', newsize)
      /\ KeysIn(newBkts') = Visited \cup {k}
      /\ Lookup(newBkts', newsize, k) = v
      /\ \A x \in Keys \ {k} :
            Lookup(newBkts', newsize, x) = Lookup(newBkts, newsize, x)
  BY <1>1, <1>2, <1>3, <1>5, <1>6, ResizeFacts, BucketPutFacts
<1>8. Visited' = Visited \cup {k}
  <2>1. 1 .. here + 1 = (1 .. here) \cup {here + 1}
    BY <1>3
  <2>2. ASSUME NEW x PROVE x \in Visited' <=> x \in Visited \cup {k}
    BY <1>2, <2>1, VisitedMember, VisitedMemberPrime DEF k
  <2> QED
    BY <2>2
<1>9. moved' = Cardinality(KeysIn(newBkts'))
  <2>1. Cardinality(Visited \cup {k}) = Cardinality(Visited) + 1
    BY <1>1, <1>5, ResizeFacts, FS_AddElement
  <2> QED
    BY <1>1, <1>2, <1>7, <2>1, ResizeFacts
<1>10. TypeOK'
  BY <1>1, <1>2, <1>3, <1>7, ResizeFacts DEF Inv, TypeOK, Good
<1>11. Placed' /\ UniqueKeys' /\ FullCounts'
  BY <1>2, <1>7, <1>9 DEF Good, Placed, UniqueKeys, FullCounts, Inv
<1>12. ResizeCopies'
  <2>1. Visited \subseteq Keys
    BY <1>1, ResizeFacts, KeysInKeys
  <2>2. \A x \in Visited \cup {k} :
           Lookup(newBkts', newsize, x) = Lookup(bkts, size, x)
    BY <1>1, <1>5, <1>7, <2>1, ResizeFacts DEF v
  <2> QED
    BY <1>2, <1>7, <1>8, <2>2 DEF ResizeCopies
<1>13. RoomLeft' /\ PutInProgress' /\ ValuesFound'
  BY <1>1, <1>2 DEF RoomLeft, Ready, PutInProgress, ValuesFound, Inv
<1> QED
  BY <1>2, <1>10, <1>11, <1>12, <1>13 DEF Inv

LEMMA NextBucketInv ==
    ASSUME Inv, NextBucket
    PROVE  Inv' /\ index' = index + 1
<1>1. /\ pc = "resize" /\ moved < full /\ here = Len(bkts[index])
      /\ pc' = pc /\ live' = live /\ size' = size /\ full' = full
      /\ bkts' = bkts /\ arg' = arg /\ newsize' = newsize /\ newBkts' = newBkts
      /\ index' = (index + 1) % size /\ here' = 0 /\ moved' = moved
      /\ ret' = ret
  BY DEF NextBucket, ResizeContinues, table
\* the nodes passed so far are those of the buckets up to index
<1>2. Visited = UNION {KeysOf(bkts[b]) : b \in 0 .. index}
  <2>1. 0 .. index = (0 .. index - 1) \cup {index}
    BY <1>1, ResizeFacts
  <2>2. DOMAIN bkts[index] = 1 .. here
    BY <1>1, ResizeFacts, ChainFacts
  <2>3. ASSUME NEW x
        PROVE  x \in KeysOf(bkts[index])
                  <=> \E j \in 1 .. here : x = bkts[index][j].key
    BY <2>2 DEF KeysOf
  <2>4. ASSUME NEW x
        PROVE  x \in Visited <=> \E b \in 0 .. index : x \in KeysOf(bkts[b])
    BY <2>1, <2>3, VisitedMember
  <2> QED
    BY <2>4
\* there is a next bucket, for otherwise all nodes have been copied
<1>3. index < size - 1
  <2> SUFFICES ASSUME index = size - 1 PROVE FALSE
    BY <1>1, ResizeFacts
  <2>1. Visited = KeysIn(bkts)
    BY <1>1, <1>2, ResizeFacts DEF KeysIn
  <2> QED
    BY <1>1, <2>1, ResizeFacts
<1>4. index' = index + 1
  <2>1. size \in Nat /\ index + 1 \in Nat /\ index + 1 < size
    BY <1>1, <1>3, ResizeFacts
  <2> QED
    BY <1>1, <2>1, ModSmall
<1>5. Visited' = Visited
  <2>1. index' - 1 = index /\ 1 .. here' = {}
    BY <1>1, <1>4, ResizeFacts
  <2> QED
    BY <1>1, <1>2, <2>1 DEF Visited
<1>6. bkts[index'] \in Chains /\ Len(bkts[index']) \in Nat
  BY <1>1, <1>3, <1>4, ResizeFacts, ChainFacts DEF Good
<1>7. TypeOK'
  BY <1>1, <1>3, <1>4, <1>6, ResizeFacts DEF Inv, TypeOK
<1> QED
  BY <1>1, <1>4, <1>5, <1>7 DEF Inv, Placed, UniqueKeys, FullCounts, RoomLeft,
     Ready, ResizeCopies, PutInProgress, ValuesFound

LEMMA ResizeFinishInv ==
    ASSUME Inv, ResizeFinish
    PROVE  /\ Inv'
           /\ \A x \in Keys : Lookup(bkts', size', x) = Lookup(bkts, size, x)
<1>1. /\ pc = "resize" /\ ~ResizeContinues
      /\ pc' = "append" /\ live' = live /\ size' = newsize /\ full' = full
      /\ bkts' = newBkts /\ arg' = arg /\ newsize' = newsize
      /\ index' = index /\ here' = here /\ moved' = moved /\ ret' = ret
      /\ newBkts' = newBkts
  BY DEF ResizeFinish, resizing
\* the loop has stopped because it has counted every node
<1>2. moved = full
  <2>1. moved >= full
    BY <1>1, ResizeFacts DEF ResizeContinues
  <2>2. Cardinality(Visited) <= Cardinality(KeysIn(bkts))
    BY <1>1, ResizeFacts, FS_Subset
  <2> QED
    BY <1>1, <2>1, <2>2, ResizeFacts
<1>3. KeysIn(newBkts) = KeysIn(bkts)
  BY <1>1, <1>2, ResizeFacts, FS_Subset
<1>4. \A x \in Keys : Lookup(newBkts, newsize, x) = Lookup(bkts, size, x)
  <2> SUFFICES ASSUME NEW x \in Keys
               PROVE  Lookup(newBkts, newsize, x) = Lookup(bkts, size, x)
    OBVIOUS
  <2>1. CASE x \in KeysIn(bkts)
    BY <2>1, <1>1, <1>3, ResizeFacts
  <2>2. CASE x \notin KeysIn(bkts)
    BY <2>2, <1>1, <1>3, ResizeFacts, LookupAbsent
  <2> QED
    BY <2>1, <2>2
<1>5. TypeOK'
  BY <1>1, ResizeFacts DEF Inv, TypeOK, Good
<1>6. Placed' /\ UniqueKeys' /\ FullCounts'
  BY <1>1, <1>3, ResizeFacts DEF Placed, UniqueKeys, FullCounts, Good
<1>7. PutInProgress'
  BY <1>1, <1>3, ResizeFacts DEF PutInProgress, Inv
<1>8. ValuesFound'
  <2>1. KeysIn(bkts) \subseteq Keys
    BY <1>1, ResizeFacts, KeysInKeys
  <2> QED
    BY <1>1, <1>3, <1>4, <2>1 DEF ValuesFound, Inv
<1> QED
  BY <1>1, <1>3, <1>4, <1>5, <1>6, <1>7, <1>8, ResizeFacts
  DEF Inv, RoomLeft, Ready, ResizeCopies

LEMMA PutAppendInv ==
    ASSUME Inv, PutAppend
    PROVE  /\ Inv'
           /\ arg \in [key : Keys, val : Vals]
           /\ Lookup(bkts', size', arg.key) = arg.val
           /\ \A x \in Keys \ {arg.key} :
                 Lookup(bkts', size', x) = Lookup(bkts, size, x)
<1>1. /\ pc' = "idle" /\ live' = live /\ size' = size /\ full' = full + 1
      /\ bkts' = BucketPut(bkts, size, arg.key, arg.val)
      /\ newsize' = 0 /\ index' = 0 /\ here' = 0 /\ moved' = 0 /\ ret' = 0
      /\ pc = "append"
  BY DEF PutAppend
<1>2. /\ live /\ size \in Nat \ {0} /\ full \in Nat /\ full + 1 < size
      /\ Good(bkts, size) /\ IsFiniteSet(KeysIn(bkts))
      /\ full = Cardinality(KeysIn(bkts))
      /\ arg \in [key : Keys, val : Vals] /\ arg.key \in Keys
      /\ arg.val \in Vals /\ arg.key \notin KeysIn(bkts)
  BY <1>1, InvTable DEF Inv, TypeOK, TableInv, PutInProgress
<1>3. /\ Good(bkts', size)
      /\ KeysIn(bkts') = KeysIn(bkts) \cup {arg.key}
      /\ Lookup(bkts', size, arg.key) = arg.val
      /\ \A x \in Keys \ {arg.key} :
            Lookup(bkts', size, x) = Lookup(bkts, size, x)
  BY <1>1, <1>2, BucketPutFacts
<1>4. /\ IsFiniteSet(KeysIn(bkts'))
      /\ full' = Cardinality(KeysIn(bkts'))
  BY <1>1, <1>2, <1>3, FS_AddElement
<1>5. TypeOK'
  <2>1. ret' \in Vals \cup {NULL, 0, -1} /\ live' \in BOOLEAN
    BY <1>1, Zenon DEF Inv, TypeOK
  <2> QED
    BY <1>1, <1>2, <1>3, <2>1 DEF TypeOK, Good
<1>6. Placed' /\ UniqueKeys' /\ FullCounts'
  BY <1>1, <1>3, <1>4 DEF Placed, UniqueKeys, FullCounts, Good
<1>7. RoomLeft' /\ ResizeCopies' /\ PutInProgress'
  BY <1>1, <1>2 DEF RoomLeft, Ready, ResizeCopies, PutInProgress
<1>8. ValuesFound'
  <2>1. KeysIn(bkts) \subseteq Keys
    BY <1>2, KeysInKeys
  <2> QED
    BY <1>1, <1>2, <1>3, <2>1 DEF ValuesFound, Inv
<1> QED
  BY <1>1, <1>2, <1>3, <1>4, <1>5, <1>6, <1>7, <1>8 DEF Inv

LEMMA InvNext == ASSUME NULL \notin Vals, Inv, [Next]_vars PROVE Inv'
<1>1. CASE \E n \in InitialSizes : Create(n)
  BY <1>1, CreateInv
<1>2. ASSUME NEW k \in Keys, Get(k) PROVE Inv'
  <2>1. ret' \in Vals \cup {NULL, 0, -1}
    BY <1>2, InvTable, LookupType DEF Get, Ready
  <2> QED
    BY <1>2, <2>1 DEF Get, table, resizing, Inv, TypeOK, Placed, UniqueKeys,
       FullCounts, RoomLeft, Ready, ResizeCopies, Visited, PutInProgress,
       ValuesFound
<1>3. ASSUME NEW k \in Keys, Delete(k) PROVE Inv'
  BY <1>3, DeleteInv
<1>4. ASSUME NEW k \in Keys, NEW v \in Vals, PutCall(k, v) PROVE Inv'
  BY <1>4, PutCallInv
<1>5. CASE PutNullKey
  <2>1. ret' \in Vals \cup {NULL, 0, -1}
    BY <1>5, Zenon DEF PutNullKey
  <2> QED
    BY <1>5, <2>1 DEF PutNullKey, table, resizing, Inv, TypeOK, Placed,
       UniqueKeys, FullCounts, RoomLeft, Ready, ResizeCopies, Visited,
       PutInProgress, ValuesFound
<1>6. CASE Destroy
  BY <1>6, DestroyInv
<1>7. CASE PutStep
  BY <1>7, GrowStepInv, GrowSkipInv, ResizeStartInv, MoveNodeInv, NextBucketInv,
     ResizeFinishInv, PutAppendInv DEF PutStep
<1>8. CASE UNCHANGED vars
  BY ZenonT(60), <1>8 DEF vars, table, resizing, Inv, TypeOK, Placed, UniqueKeys,
     FullCounts, RoomLeft, Ready, ResizeCopies, Visited, PutInProgress,
     ValuesFound
<1> QED
  BY <1>1, <1>2, <1>3, <1>4, <1>5, <1>6, <1>7, <1>8 DEF Next

-----------------------------------------------------------------------------
(***************************************************************************)
(* The theorems.  They assume that the client stores no NULL, which holds  *)
(* of every client under src/ and lexer/; run HashTableNull shows what     *)
(* happens otherwise.                                                      *)
(***************************************************************************)

\* hash_table.c keeps its inductive invariant.
THEOREM Invariance == ASSUME NULL \notin Vals PROVE Spec => []Inv
<1>1. Inv /\ [Next]_vars => Inv'
  BY InvNext
<1> QED
  BY <1>1, InvInit, PTL DEF Spec

\* The variables of hash_table.c keep their types: `full' never goes below
\* zero, no step leaves a table without buckets, and a resize's cursor stays in
\* the old array.
THEOREM TypeCorrect == ASSUME NULL \notin Vals PROVE Spec => []TypeOK
<1>1. Inv => TypeOK
  BY DEF Inv
<1> QED
  BY <1>1, Invariance, PTL

\* Every node is in the bucket where a lookup searches for it, during a resize too,
\* which works on arrays of two sizes.
THEOREM AlwaysPlaced == ASSUME NULL \notin Vals PROVE Spec => []Placed
<1>1. Inv => Placed
  BY DEF Inv
<1> QED
  BY <1>1, Invariance, PTL

\* Every node is the only one with its key, although bucket_put does not look.
THEOREM ChainsWellFormed == ASSUME NULL \notin Vals PROVE Spec => []UniqueKeys
<1>1. Inv => UniqueKeys
  BY DEF Inv
<1> QED
  BY <1>1, Invariance, PTL

\* table->full is the number of elements.
THEOREM CountIsRight == ASSUME NULL \notin Vals PROVE Spec => []FullCounts
<1>1. Inv => FullCounts
  BY DEF Inv
<1> QED
  BY <1>1, Invariance, PTL

\* Between calls there are more buckets than elements.
THEOREM RoomForOne == ASSUME NULL \notin Vals PROVE Spec => []RoomLeft
<1>1. Inv => RoomLeft
  BY DEF Inv
<1> QED
  BY <1>1, Invariance, PTL

\* A resize loses nothing, copies nothing twice and changes no lookup.
THEOREM ResizeFaithful == ASSUME NULL \notin Vals PROVE Spec => []ResizeCopies
<1>1. Inv => ResizeCopies
  BY DEF Inv
<1> QED
  BY <1>1, Invariance, PTL

\* While a put is under way its key is nowhere in the table, and once a size has been
\* settled there is room for one more.
THEOREM PutsMakeRoom == ASSUME NULL \notin Vals PROVE Spec => []PutInProgress
<1>1. Inv => PutInProgress
  BY DEF Inv
<1> QED
  BY <1>1, Invariance, PTL

-----------------------------------------------------------------------------
(***************************************************************************)
(* The refinement.  mapBar changes with the table's lookups, and with      *)
(* nothing else.                                                           *)
(***************************************************************************)
LEMMA RefineInit == Init => Dict!Init
<1> SUFFICES ASSUME Init PROVE Dict!Init
  OBVIOUS
<1>1. live = FALSE /\ retBar = 0
  BY DEF Init, retBar
<1>2. mapBar = Dict!Empty
  BY <1>1 DEF mapBar, Dict!Empty
<1> QED
  BY <1>1, <1>2 DEF Dict!Init

\* A step that keeps the table, put's argument and the returned value.
LEMMA RefineStutter ==
    ASSUME live' = live, pc # "idle", pc' # "idle", arg' = arg,
           \A x \in Keys : Lookup(bkts', size', x) = Lookup(bkts, size, x)
    PROVE  UNCHANGED Dict!vars
BY DEF Dict!vars, mapBar, retBar

LEMMA RefineNext ==
    ASSUME NULL \notin Vals, Inv
    PROVE  EachCall /\ ([Next]_vars => [Dict!Next]_(Dict!vars))
<1>1. ASSUME NEW n \in InitialSizes, Create(n) PROVE Dict!Create
  <2>1. ~live /\ live' = TRUE /\ ret' = 0 /\ bkts' = EmptyBuckets(size')
    BY <1>1 DEF Create
  <2>2. pc' = "idle" /\ size' \in Nat \ {0}
    BY <1>1, CreateInv, SizesAssumption DEF Create, Inv, TypeOK
  <2>3. \A x \in Keys : Lookup(bkts', size', x) = NULL
    BY <2>1, <2>2, EmptyFacts, LookupAbsent
  <2>4. mapBar' = Dict!Empty /\ retBar' = 0
    BY <2>1, <2>2, <2>3 DEF mapBar, retBar, Dict!Empty
  <2> QED
    BY <2>1, <2>4 DEF Dict!Create
<1>2. ASSUME NEW k \in Keys, Get(k) PROVE Dict!Get(k)
  BY <1>2 DEF Get, Ready, table, mapBar, retBar, Dict!Get
<1>3. ASSUME NEW k \in Keys, Delete(k) PROVE Dict!Delete(k)
  <2>1. /\ live /\ live' = live /\ pc = "idle" /\ pc' = "idle" /\ size' = size
        /\ ret' = Lookup(bkts, size, k) /\ bkts' = Unlink(bkts, size, k)
    BY <1>3 DEF Delete, Ready
  <2>2. /\ Lookup(bkts', size', k) = NULL
        /\ \A x \in Keys \ {k} :
              Lookup(bkts', size', x) = Lookup(bkts, size, x)
    BY <2>1, InvTable, UnlinkStep
  <2> QED
    BY <2>1, <2>2 DEF mapBar, retBar, Dict!Delete
<1>4. ASSUME NEW k \in Keys, NEW v \in Vals, PutCall(k, v) PROVE Dict!Put(k, v)
  <2>1. /\ live /\ live' = live /\ pc = "idle" /\ pc' = "grow" /\ size' = size
        /\ arg'.key = k /\ arg'.val = v
    BY <1>4 DEF PutCall, Ready
  <2>2. \A x \in Keys \ {k} : Lookup(bkts', size', x) = Lookup(bkts, size, x)
    BY <1>4, <2>1, PutCallInv
  <2> QED
    BY <2>1, <2>2 DEF mapBar, retBar, Dict!Put
<1>5. ASSUME PutNullKey PROVE Dict!PutNullKey
  BY <1>5 DEF PutNullKey, Ready, table, mapBar, retBar, Dict!PutNullKey
<1>6. ASSUME Destroy PROVE Dict!Destroy
  BY <1>6 DEF Destroy, Ready, mapBar, retBar, Dict!Destroy, Dict!Empty
<1>7. ASSUME GrowStep \/ GrowSkip \/ ResizeStart \/ MoveNode \/ NextBucket
      PROVE  UNCHANGED Dict!vars
  BY <1>7, RefineStutter
  DEF GrowStep, GrowSkip, ResizeStart, MoveNode, NextBucket, table
<1>8. ASSUME ResizeFinish PROVE UNCHANGED Dict!vars
  BY <1>8, ResizeFinishInv, RefineStutter DEF ResizeFinish
<1>9. ASSUME PutAppend PROVE UNCHANGED Dict!vars
  <2>1. /\ live' = live /\ pc = "append" /\ pc' = "idle" /\ ret' = 0
    BY <1>9 DEF PutAppend
  <2>2. mapBar' = mapBar
    BY <1>9, <2>1, PutAppendInv DEF mapBar
  <2> QED
    BY <2>1, <2>2 DEF retBar, Dict!vars
<1>10. ASSUME UNCHANGED vars PROVE UNCHANGED Dict!vars
  BY <1>10 DEF vars, table, Dict!vars, mapBar, retBar
<1>11. PutStep => UNCHANGED Dict!vars
  BY <1>7, <1>8, <1>9 DEF PutStep
<1>12. EachCall
  BY <1>1, <1>2, <1>3, <1>4, <1>5, <1>6, <1>11, Zenon DEF EachCall
<1>13. ASSUME [Next]_vars PROVE [Dict!Next]_(Dict!vars)
  BY <1>10, <1>12, <1>13, Zenon DEF EachCall, Next, Dict!Next
<1> QED
  BY <1>12, <1>13

\* The chained, resizable table implements the dictionary its header promises.
THEOREM Refinement == ASSUME NULL \notin Vals PROVE Spec => ImplementsDictionary
<1>1. Inv /\ [Next]_vars => [Dict!Next]_(Dict!vars) /\ [EachCall]_vars
  BY RefineNext
<1> QED
  BY <1>1, Invariance, RefineInit, PTL DEF Spec, ImplementsDictionary, Dict!Spec
=============================================================================
