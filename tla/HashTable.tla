------------------------------ MODULE HashTable ------------------------------
(***************************************************************************)
(* src/util/hash_table.c at the level of its bucket chains.                *)
(*                                                                         *)
(* A chain is the sequence of NODE cells behind the HEAD cell of a bucket; *)
(* how cells and their `next' pointers live in memory is module HashHeap.  *)
(* hash_table_put is the one operation with loops over the whole table, so *)
(* it is cut at every loop iteration: `pc' is where it stands, and between *)
(* calls pc = "idle".  The other operations are one step each.             *)
(*                                                                         *)
(*   idle --PutCall--> grow --GrowStep*--> resize --Move|NextBucket*-->    *)
(*                     grow/resize --> append --PutAppend--> idle          *)
(***************************************************************************)
EXTENDS SequencesExt, Integers, FiniteSets

CONSTANTS
    Keys,               \* the strings used as keys
    Vals,               \* the pointers stored as values
    NULL,               \* the null pointer
    Hash,               \* hash(): the value of every key before "% size"
    InitialSizes,       \* the arguments given to hash_table_create
    DefaultHashPower,   \* DEFAULT_HASH_POWER
    UIntRange           \* 2^32: the number of values of an unsigned int

\* The size of a table created with 0.
DefaultSize == 2 ^ DefaultHashPower - 1

ASSUME HashAssumption == Hash \in [Keys -> Nat]
ASSUME SizesAssumption ==
    /\ InitialSizes \subseteq Nat
    /\ UIntRange \in Nat \ {0}
    /\ DefaultSize \in Nat \ {0}

VARIABLES
    live,       \* the table exists
    size,       \* table->size
    full,       \* table->full
    bkts,       \* table->bkts, the chain of every bucket
    pc,         \* where hash_table_put stands
    arg,        \* its key and value
    newsize,    \* hash_table_put's newsize
    newBkts,    \* hash_table_resize's new_buckets
    index,      \* hash_table_resize's index
    here,       \* hash_table_resize's here: a position in the chain, 0 the HEAD
    moved,      \* hash_table_resize's i
    ret         \* what the last call returned

table == <<live, size, full, bkts>>
resizing == <<newBkts, index, here, moved>>
vars == <<table, pc, arg, newsize, resizing, ret>>

Entries == [key : Keys, val : Vals \cup {NULL}]
Chains == Seq(Entries)
NoEntry == [key |-> NULL, val |-> NULL]

-----------------------------------------------------------------------------
(***************************************************************************)
(* The chains of an array of n buckets.                                    *)
(***************************************************************************)
EmptyBuckets(n) == [b \in 0 .. n - 1 |-> << >>]

Bucket(k, n) == Hash[k] % n

Positions(chain, k) == {j \in DOMAIN chain : chain[j].key = k}

\* The scan of hash_table_get and hash_table_delete stops at the first match.
First(chain, k) ==
    CHOOSE j \in Positions(chain, k) : \A m \in Positions(chain, k) : j <= m

Lookup(bs, n, k) ==
    LET chain == bs[Bucket(k, n)]
    IN  IF Positions(chain, k) = {} THEN NULL ELSE chain[First(chain, k)].val

\* hash_table_delete unlinks the first match.
Unlink(bs, n, k) ==
    LET b == Bucket(k, n)
    IN  IF Positions(bs[b], k) = {} THEN bs
        ELSE [bs EXCEPT ![b] = RemoveAt(@, First(@, k))]

\* bucket_put walks to the end of the chain and never looks at its keys.
BucketPut(bs, n, k, v) ==
    [bs EXCEPT ![Bucket(k, n)] = Append(@, [key |-> k, val |-> v])]

\* Mistake: full-- outside of the test for a match.
FullAlwaysLess(k) == full - 1

\* Mistake: full-- forgotten.
FullKept(k) == full

\* What hash_table_delete leaves in table->full.
FullAfterUnlink(k) ==
    IF Positions(bkts[Bucket(k, size)], k) = {} THEN full ELSE full - 1

-----------------------------------------------------------------------------
Init ==
    /\ live = FALSE /\ size = 0 /\ full = 0 /\ bkts = EmptyBuckets(0)
    /\ pc = "idle" /\ arg = NoEntry /\ newsize = 0
    /\ newBkts = EmptyBuckets(0) /\ index = 0 /\ here = 0 /\ moved = 0
    /\ ret = 0

\* No call is in progress on an existing table.
Ready == live /\ pc = "idle"

Create(initial) ==
    /\ ~live
    /\ live' = TRUE
    /\ size' = IF initial = 0 THEN DefaultSize ELSE initial
    /\ full' = 0
    /\ bkts' = EmptyBuckets(size')
    /\ ret' = 0
    /\ UNCHANGED <<pc, arg, newsize, resizing>>

Get(k) ==
    /\ Ready
    /\ ret' = Lookup(bkts, size, k)
    /\ UNCHANGED <<table, pc, arg, newsize, resizing>>

Delete(k) ==
    /\ Ready
    /\ ret' = Lookup(bkts, size, k)
    /\ bkts' = Unlink(bkts, size, k)
    /\ full' = FullAfterUnlink(k)
    /\ UNCHANGED <<live, size, pc, arg, newsize, resizing>>

Destroy ==
    /\ Ready
    /\ live' = FALSE /\ size' = 0 /\ full' = 0 /\ bkts' = EmptyBuckets(0)
    /\ ret' = 0
    /\ UNCHANGED <<pc, arg, newsize, resizing>>

PutNullKey ==
    /\ Ready
    /\ ret' = -1
    /\ UNCHANGED <<table, pc, arg, newsize, resizing>>

(***************************************************************************)
(* hash_table_put.                                                         *)
(***************************************************************************)

\* Mistake: the old entry stays.
PutCallKeepsOld(k, v) ==
    /\ Ready
    /\ pc' = "grow"
    /\ arg' = [key |-> k, val |-> v]
    /\ newsize' = size
    /\ UNCHANGED <<table, resizing, ret>>

\* The old entry goes first, but only when hash_table_get finds a value.
PutCall(k, v) ==
    /\ Ready
    /\ IF Lookup(bkts, size, k) # NULL
       THEN bkts' = Unlink(bkts, size, k) /\ full' = FullAfterUnlink(k)
       ELSE UNCHANGED <<bkts, full>>
    /\ pc' = "grow"
    /\ arg' = [key |-> k, val |-> v]
    /\ newsize' = size
    /\ UNCHANGED <<live, size, resizing, ret>>

\* Mistake: off by one.
CrowdedLate(n) == full >= n

\* The test of hash_table_put, of the size and of every larger candidate.
Crowded(n) == full + 1 >= n

\* One iteration of the loop that looks for a larger size.
GrowStep ==
    /\ pc = "grow"
    /\ Crowded(newsize)
    /\ newsize' = ((newsize + 1) * 2 - 1) % UIntRange
    /\ UNCHANGED <<table, pc, arg, resizing, ret>>

\* The table is large enough: no resize.
GrowSkip ==
    /\ pc = "grow"
    /\ ~Crowded(newsize)
    /\ newsize = size
    /\ pc' = "append"
    /\ UNCHANGED <<table, arg, newsize, resizing, ret>>

\* The loop has found a size.  hash_table_resize refuses one that is too
\* small, and hash_table_put does not look at the result.
ResizeStart ==
    /\ pc = "grow"
    /\ ~Crowded(newsize)
    /\ newsize # size
    /\ IF newsize < full
       THEN pc' = "append" /\ UNCHANGED resizing
       ELSE /\ pc' = "resize"
            /\ newBkts' = EmptyBuckets(newsize)
            /\ index' = 0 /\ here' = 0 /\ moved' = 0
    /\ UNCHANGED <<table, arg, newsize, ret>>

\* Mistake: nothing but the bound on index stops the loop.
ResizeContinuesOn == index <= size

\* Mistake: the loop stops one node early.
ResizeStopsEarly == moved + 1 < full /\ index <= size

ResizeContinues == moved < full /\ index <= size

\* Mistake: "here = temp" forgotten.
MoveNodeAgain ==
    /\ pc = "resize" /\ ResizeContinues
    /\ here < Len(bkts[index])
    /\ LET k == bkts[index][here + 1].key
       IN  newBkts' = BucketPut(newBkts, newsize, k, Lookup(bkts, size, k))
    /\ moved' = moved + 1
    /\ UNCHANGED <<table, pc, arg, newsize, index, here, ret>>

\* Mistake: the old size picks the bucket in the new array.
MoveNodeOldSize ==
    /\ pc = "resize" /\ ResizeContinues
    /\ here < Len(bkts[index])
    /\ LET k == bkts[index][here + 1].key
       IN  newBkts' = BucketPut(newBkts, size, k, Lookup(bkts, size, k))
    /\ here' = here + 1
    /\ moved' = moved + 1
    /\ UNCHANGED <<table, pc, arg, newsize, index, ret>>

\* The next cell of the chain is copied, with the value a lookup finds.
MoveNode ==
    /\ pc = "resize" /\ ResizeContinues
    /\ here < Len(bkts[index])
    /\ LET k == bkts[index][here + 1].key
       IN  newBkts' = BucketPut(newBkts, newsize, k, Lookup(bkts, size, k))
    /\ here' = here + 1
    /\ moved' = moved + 1
    /\ UNCHANGED <<table, pc, arg, newsize, index, ret>>

\* Mistake: ++index forgotten.
NextBucketSame ==
    /\ pc = "resize" /\ ResizeContinues
    /\ here = Len(bkts[index])
    /\ here' = 0
    /\ UNCHANGED <<table, pc, arg, newsize, newBkts, index, moved, ret>>

NextBucket ==
    /\ pc = "resize" /\ ResizeContinues
    /\ here = Len(bkts[index])
    /\ index' = (index + 1) % size
    /\ here' = 0
    /\ UNCHANGED <<table, pc, arg, newsize, newBkts, moved, ret>>

ResizeFinish ==
    /\ pc = "resize" /\ ~ResizeContinues
    /\ size' = newsize
    /\ bkts' = newBkts
    /\ pc' = "append"
    /\ UNCHANGED <<live, full, arg, newsize, resizing, ret>>

PutAppend ==
    /\ pc = "append"
    /\ bkts' = BucketPut(bkts, size, arg.key, arg.val)
    /\ full' = full + 1
    /\ pc' = "idle"
    /\ ret' = 0
    \* put's locals die with the call
    /\ arg' = NoEntry /\ newsize' = 0
    /\ newBkts' = EmptyBuckets(0) /\ index' = 0 /\ here' = 0 /\ moved' = 0
    /\ UNCHANGED <<live, size>>

PutStep ==
    \/ GrowStep \/ GrowSkip \/ ResizeStart
    \/ MoveNode \/ NextBucket \/ ResizeFinish
    \/ PutAppend

Next ==
    \/ \E n \in InitialSizes : Create(n)
    \/ \E k \in Keys : Get(k) \/ Delete(k)
    \/ \E k \in Keys, v \in Vals : PutCall(k, v)
    \/ PutNullKey
    \/ Destroy
    \/ PutStep

\* A call that has begun runs on: there is one thread and nothing blocks.
Spec == Init /\ [][Next]_vars /\ WF_vars(PutStep)

-----------------------------------------------------------------------------
(***************************************************************************)
(* Properties.                                                             *)
(***************************************************************************)

\* Every variable has its type; while a resize is under way, its cursor is in
\* the old array.
TypeOK ==
    /\ live \in BOOLEAN
    /\ size \in Nat /\ (live <=> size > 0)
    /\ full \in Nat
    /\ bkts \in [0 .. size - 1 -> Chains]
    /\ pc \in {"idle", "grow", "resize", "append"}
    /\ pc # "idle" => live /\ arg \in [key : Keys, val : Vals]
    /\ newsize \in Nat
    /\ index \in Nat /\ here \in Nat /\ moved \in Nat
    /\ pc = "resize" =>
          /\ newsize > 0
          /\ newBkts \in [0 .. newsize - 1 -> Chains]
          /\ index \in 0 .. size - 1
          /\ here \in 0 .. Len(bkts[index])
    /\ ret \in Vals \cup {NULL, 0, -1}

KeysOf(chain) == {chain[j].key : j \in DOMAIN chain}
KeysIn(bs) == UNION {KeysOf(bs[b]) : b \in DOMAIN bs}

PlacedIn(bs, n) ==
    \A b \in DOMAIN bs : \A j \in DOMAIN bs[b] : Bucket(bs[b][j].key, n) = b

UniqueIn(bs) ==
    \A b \in DOMAIN bs : \A j, m \in DOMAIN bs[b] :
        bs[b][j].key = bs[b][m].key => j = m

\* Every node is in the bucket where a lookup searches for its key, in the
\* table and in the array a resize is filling: it bites when the two sizes
\* are mixed up (hash_table_resize works on both arrays at once).
Placed ==
    /\ PlacedIn(bkts, size)
    /\ pc = "resize" => PlacedIn(newBkts, newsize)

\* No chain holds a key twice, although bucket_put appends without looking:
\* hash_table_put must have removed the old node, and hash_table_resize must
\* not visit a node twice.
UniqueKeys ==
    /\ UniqueIn(bkts)
    /\ pc = "resize" => UniqueIn(newBkts)

\* table->full is "the number of elements stored" (hash_table.c:26), and a
\* resize's counter is the number of nodes it has copied.
FullCounts ==
    /\ full = Cardinality(KeysIn(bkts))
    /\ pc = "resize" => moved = Cardinality(KeysIn(newBkts))

\* Between calls an array always has more buckets than the table has elements,
\* which is what the test `full + 1 >= size' in hash_table_put is for, even when
\* the size came from the client.
RoomLeft == Ready => full < size

\* The keys of the nodes a resize has passed: all of the buckets before `index'
\* and the first `here' nodes of that bucket.
Visited ==
    (UNION {KeysOf(bkts[b]) : b \in 0 .. index - 1})
        \cup {bkts[index][j].key : j \in 1 .. here}

\* While a resize is under way the new array holds the nodes it has passed and
\* no others, and finds for each of their keys what the old array finds; so the
\* loop that counts to `full' cannot wrap around and copy a node again.
ResizeCopies ==
    pc = "resize" =>
        /\ KeysIn(newBkts) = Visited
        /\ \A k \in KeysIn(newBkts) :
              Lookup(newBkts, newsize, k) = Lookup(bkts, size, k)

\* While a put is in progress its key is nowhere in the table, so appending
\* without a look is safe; and from the moment a size is settled there is room
\* for one more element than the new one.
PutInProgress ==
    /\ pc # "idle" => arg.key \notin KeysIn(bkts)
    /\ pc = "resize" => full + 1 < newsize
    /\ pc = "append" => full + 1 < size

\* Whatever the sizes and the hash values, hash_table_put returns: the search
\* for a size ends, and the resize loop reaches `full'.
PutReturns == pc # "idle" ~> pc = "idle"

(***************************************************************************)
(* The refinement.  A put takes effect for its client in its first step;   *)
(* until it returns, nobody sees that the new node is not there yet.       *)
(***************************************************************************)
mapBar ==
    [k \in Keys |->
        IF ~live THEN NULL
        ELSE IF pc # "idle" /\ k = arg.key THEN arg.val
        ELSE Lookup(bkts, size, k)]

retBar == IF pc = "idle" THEN ret ELSE 0

Dict == INSTANCE Dictionary WITH map <- mapBar, ret <- retBar

\* Each call does what the dictionary's operation of its name does, with the same
\* arguments, and the steps inside a put do nothing to the dictionary.
EachCall ==
    /\ \A n \in InitialSizes : Create(n) => Dict!Create
    /\ \A k \in Keys : (Get(k) => Dict!Get(k)) /\ (Delete(k) => Dict!Delete(k))
    /\ \A k \in Keys, v \in Vals : PutCall(k, v) => Dict!Put(k, v)
    /\ PutNullKey => Dict!PutNullKey
    /\ Destroy => Dict!Destroy
    /\ PutStep => UNCHANGED Dict!vars

\* The chained, resizable table implements the dictionary: every lookup and
\* every delete returns the value of the last put for that key, whatever
\* resizes happened in between.
ImplementsDictionary == Dict!Spec /\ [][EachCall]_vars

\* What t/test_hash_table.c:49-50 checks of every pair it puts: a lookup right
\* after a put returns the value that was put.
PutThenGet == [][PutAppend => Lookup(bkts', size', arg.key) = arg.val]_vars
=============================================================================
