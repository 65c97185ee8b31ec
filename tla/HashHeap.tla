------------------------------ MODULE HashHeap ------------------------------
(***************************************************************************)
(* src/util/hash_table.c at the level of its cells and `next' pointers.    *)
(*                                                                         *)
(* bucket_top allocates the HEAD cell of a bucket with malloc and sets its *)
(* type, but not its `next', which bucket_put, hash_table_get and          *)
(* hash_table_resize then read.  What they read is what the memory held    *)
(* before: zero when the cell was never used, the `next' of the freed cell *)
(* when malloc recycles one.  The allocator is the build's: it hands out   *)
(* the most recently freed cell first, and fresh memory, which the         *)
(* operating system has zeroed, when there is none.  Zeroing = TRUE is a   *)
(* build whose allocator clears the memory it is given back.               *)
(*                                                                         *)
(* The number of buckets is fixed here (hash_table_put's guard stops short *)
(* of a resize); resizing is module HashTable's.                           *)
(***************************************************************************)
EXTENDS SequencesExt, Integers, FiniteSets

CONSTANTS
    Keys, Vals, NULL,
    Hash,           \* hash() of every key
    Size,           \* table->size
    MaxCells,       \* bound: the cells of the heap
    Zeroing,        \* whether the allocator clears freed memory
    ClientDeletes,  \* whether the client calls hash_table_delete (tpp's #undef)
    Lives           \* bound: how many tables the process creates in turn

ASSUME HeapAssumption ==
    /\ Hash \in [Keys -> Nat]
    /\ Size \in Nat \ {0} /\ MaxCells \in Nat /\ Lives \in Nat
    /\ Zeroing \in BOOLEAN /\ ClientDeletes \in BOOLEAN

Cells == 1 .. MaxCells
Nil == 0            \* the null cell pointer

VARIABLES
    live, lives,    \* the table exists; how many were created
    top,            \* table->bkts: the first cell of every bucket, or Nil
    mem,            \* the contents of every cell
    free,           \* freed cells, the most recent first
    fresh,          \* the next cell of never-used memory
    full,           \* table->full
    ret             \* what the last call returned

vars == <<live, lives, top, mem, free, fresh, full, ret>>

Cell == [type : {"NODE", "HEAD"}, key : Keys \cup {NULL},
         val : Vals \cup {NULL}, next : Cells \cup {Nil}]
Zeroed == [type |-> "NODE", key |-> NULL, val |-> NULL, next |-> Nil]
NoBuckets == [b \in 0 .. Size - 1 |-> Nil]

-----------------------------------------------------------------------------
(***************************************************************************)
(* The heap as a record, so that an operation can be a composition.        *)
(***************************************************************************)
Heap == [mem |-> mem, free |-> free, fresh |-> fresh]

\* malloc: the cell it returns, and the heap afterwards.
NextCell(h) == IF h.free # << >> THEN Head(h.free) ELSE h.fresh
Taken(h) ==
    IF h.free # << >> THEN [h EXCEPT !.free = Tail(@)] ELSE [h EXCEPT !.fresh = @ + 1]

\* free, of several cells: what they hold stays, unless the allocator clears it.
Released(h, cells) ==
    [h EXCEPT !.free = Reverse(cells) \o @,
              !.mem = [c \in Cells |->
                          IF Zeroing /\ Contains(cells, c) THEN Zeroed ELSE @[c]]]

\* The cells reached from c by following `next'.
Chain(h, c) ==
    LET walk[fuel \in 0 .. MaxCells] ==
            [x \in Cells \cup {Nil} |->
                IF x = Nil \/ fuel = 0 THEN << >>
                ELSE <<x>> \o walk[fuel - 1][h.mem[x].next]]
    IN  walk[MaxCells][c]

Bucket(k) == Hash[k] % Size

\* Where the scan of hash_table_get and hash_table_delete finds k, or 0.
Where(h, chain, k) ==
    SelectInSeq(chain, LAMBDA x : h.mem[x].type = "NODE" /\ h.mem[x].key = k)

Found(h, tops, k) ==
    LET chain == Chain(h, tops[Bucket(k)])
        j     == Where(h, chain, k)
    IN  IF j = 0 THEN NULL ELSE h.mem[chain[j]].val

Has(h, tops, k) == Where(h, Chain(h, tops[Bucket(k)]), k) # 0

\* Mistake: the freed cell stays linked.
UnlinkedStillLinked(h, tops, k) ==
    LET chain == Chain(h, tops[Bucket(k)])
        j     == Where(h, chain, k)
    IN  IF j = 0 THEN h ELSE Released(h, <<chain[j]>>)

\* Mistake: the cell is unlinked and not freed.
UnlinkedLeaks(h, tops, k) ==
    LET chain == Chain(h, tops[Bucket(k)])
        j     == Where(h, chain, k)
    IN  IF j = 0 THEN h
        ELSE [h EXCEPT !.mem[chain[j - 1]].next = h.mem[chain[j]].next]

\* hash_table_delete: the cell before is linked to the cell behind.
Unlinked(h, tops, k) ==
    LET chain == Chain(h, tops[Bucket(k)])
        j     == Where(h, chain, k)
    IN  IF j = 0 THEN h
        ELSE Released([h EXCEPT !.mem[chain[j - 1]].next = h.mem[chain[j]].next],
                      <<chain[j]>>)

\* Mistake: the old entry stays.
ReplacedKept(h, tops, k) == h

\* hash_table_put removes the old entry when a lookup finds a value.
Replaced(h, tops, k) ==
    IF Found(h, tops, k) # NULL THEN Unlinked(h, tops, k) ELSE h

\* Mistake: the first cell of a bucket is not marked.
WithHeadUnmarked(h, tops, b) == IF tops[b] # Nil THEN h ELSE Taken(h)

\* bucket_top: the HEAD cell keeps the `next' the memory held.
WithHead(h, tops, b) ==
    IF tops[b] # Nil THEN h
    ELSE [Taken(h) EXCEPT !.mem[NextCell(h)].type = "HEAD"]
HeadOf(h, tops, b) == IF tops[b] # Nil THEN tops[b] ELSE NextCell(h)

\* bucket_put: a new cell behind the last one of the chain.
WithNode(h, head, k, v) ==
    LET new == NextCell(h)
    IN  [Taken(h) EXCEPT
            !.mem = [[@ EXCEPT ![Last(Chain(h, head))].next = new]
                        EXCEPT ![new] = [type |-> "NODE", key |-> k, val |-> v,
                                         next |-> Nil]]]

SetHeap(h) == mem' = h.mem /\ free' = h.free /\ fresh' = h.fresh

\* Bound: two more cells are left.
HeapLeft == fresh + 1 <= MaxCells

-----------------------------------------------------------------------------
Init ==
    /\ live = FALSE /\ lives = 0 /\ top = NoBuckets
    /\ mem = [c \in Cells |-> Zeroed] /\ free = << >> /\ fresh = 1
    /\ full = 0 /\ ret = 0

Create ==
    /\ ~live /\ lives < Lives
    /\ live' = TRUE /\ lives' = lives + 1
    /\ top' = NoBuckets /\ full' = 0 /\ ret' = 0
    /\ UNCHANGED <<mem, free, fresh>>

Get(k) ==
    /\ live
    /\ ret' = Found(Heap, top, k)
    /\ UNCHANGED <<live, lives, top, mem, free, fresh, full>>

Delete(k) ==
    /\ live /\ ClientDeletes
    /\ ret' = Found(Heap, top, k)
    /\ SetHeap(Unlinked(Heap, top, k))
    /\ full' = IF Has(Heap, top, k) THEN full - 1 ELSE full
    /\ UNCHANGED <<live, lives, top>>

Put(k, v) ==
    LET left == IF Found(Heap, top, k) # NULL THEN full - 1 ELSE full
        h1   == Replaced(Heap, top, k)
        head == HeadOf(h1, top, Bucket(k))
        h2   == WithHead(h1, top, Bucket(k))
    IN  /\ live /\ HeapLeft
        /\ left + 1 < Size      \* short of a resize
        /\ SetHeap(WithNode(h2, head, k, v))
        /\ top' = [top EXCEPT ![Bucket(k)] = head]
        /\ full' = left + 1
        /\ ret' = 0
        /\ UNCHANGED <<live, lives>>

\* Mistake: the error code of the resize.
PutNullKeyInvalid ==
    live /\ ret' = -22 /\ UNCHANGED <<live, lives, top, mem, free, fresh, full>>

PutNullKey ==
    live /\ ret' = -1 /\ UNCHANGED <<live, lives, top, mem, free, fresh, full>>

\* The cells of all chains, bucket by bucket.
ChainedCells ==
    LET upTo[b \in 0 .. Size] ==
            IF b = 0 THEN << >> ELSE upTo[b - 1] \o Chain(Heap, top[b - 1])
    IN  upTo[Size]

\* Mistake: the array goes, the cells stay.
DestroyArrayOnly ==
    /\ live
    /\ live' = FALSE /\ full' = 0 /\ ret' = 0 /\ top' = NoBuckets
    /\ UNCHANGED <<lives, mem, free, fresh>>

Destroy ==
    /\ live
    /\ live' = FALSE /\ full' = 0 /\ ret' = 0 /\ top' = NoBuckets
    /\ SetHeap(Released(Heap, ChainedCells))
    /\ UNCHANGED lives

Next ==
    \/ Create \/ Destroy \/ PutNullKey
    \/ \E k \in Keys : Get(k) \/ Delete(k)
    \/ \E k \in Keys, v \in Vals : Put(k, v)

Spec == Init /\ [][Next]_vars

-----------------------------------------------------------------------------
TypeOK ==
    /\ live \in BOOLEAN /\ lives \in 0 .. Lives
    /\ top \in [0 .. Size - 1 -> Cells \cup {Nil}]
    /\ mem \in [Cells -> Cell]
    /\ free \in Seq(Cells) /\ fresh \in 1 .. MaxCells + 1
    /\ full \in 0 .. Size - 1
    /\ ret \in Vals \cup {NULL, 0, -1}

ChainOf(b) == Chain(Heap, top[b])

\* `next' is the "next node in a bucket" (hash_table.c:25): behind the HEAD of
\* a bucket there are only nodes of that bucket, none of them freed.
OwnChains ==
    \A b \in 0 .. Size - 1 : \A j \in DOMAIN ChainOf(b) :
        LET c == ChainOf(b)[j]
        IN  /\ ~Contains(free, c)
            /\ IF j = 1 THEN mem[c].type = "HEAD"
               ELSE mem[c].type = "NODE" /\ Bucket(mem[c].key) = b

\* Every cell handed out is in exactly one chain, once, or on the free list,
\* once: hash_table_destroy frees every cell and none twice.
CellsAccounted ==
    LET all == ChainedCells \o free
    IN  ToSet(all) = 1 .. fresh - 1 /\ Len(all) = fresh - 1

Dict == INSTANCE Dictionary WITH
            map <- [k \in Keys |-> IF live THEN Found(Heap, top, k) ELSE NULL]

\* Each call does what the dictionary's operation of its name does.
EachCall ==
    /\ Create => Dict!Create
    /\ \A k \in Keys : (Get(k) => Dict!Get(k)) /\ (Delete(k) => Dict!Delete(k))
    /\ \A k \in Keys, v \in Vals : Put(k, v) => Dict!Put(k, v)
    /\ PutNullKey => Dict!PutNullKey
    /\ Destroy => Dict!Destroy

\* For a client that only looks up and puts (the lexer's typedef names, the
\* interned strings) the recycled memory is never seen, and with an allocator
\* that clears memory no client sees it: the cells implement the dictionary.
ImplementsDictionary == Dict!Spec /\ [][EachCall]_vars
=============================================================================
