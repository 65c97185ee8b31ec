--------------------------- MODULE HashHeapProofs ----------------------------
(***************************************************************************)
(* Theorems about HashHeap: where no recycled memory is read (no client    *)
(* deletes and there is one table, or the allocator clears what it is      *)
(* given back), the cells implement the dictionary, the chains of `next'   *)
(* pointers stay apart, and no cell is lost or freed twice.                *)
(*                                                                         *)
(* A chain is what a loop over `next' finds.  The invariant says which     *)
(* sequence of cells that is for each bucket (Linked), and one induction   *)
(* shows that the loop finds it (ChainIs).  The rest is about sequences.   *)
(***************************************************************************)
EXTENDS HashHeap, InductionTheorems, FiniteSetTheorems, SequenceTheorems

Bs == 0 .. Size - 1

Heaps == [mem : [Cells -> Cell], free : Seq(Cells), fresh : 1 .. MaxCells + 1]

\* No element twice.
Once(s) == \A i, j \in 1 .. Len(s) : s[i] = s[j] => i = j

\* s is the chain that begins with c.
Linked(h, c, s) ==
    /\ s \in Seq(Cells) /\ Once(s)
    /\ c = IF s = << >> THEN Nil ELSE s[1]
    /\ \A i \in 1 .. Len(s) : h.mem[s[i]].next = IF i = Len(s) THEN Nil ELSE s[i + 1]

-----------------------------------------------------------------------------
(***************************************************************************)
(* What a loop over `next' finds.                                          *)
(***************************************************************************)
\* The function behind Chain.
Walks(h) ==
    CHOOSE walk : walk =
        [fuel \in 0 .. MaxCells |->
            [x \in Cells \cup {Nil} |->
                IF x = Nil \/ fuel = 0 THEN << >>
                ELSE <<x>> \o walk[fuel - 1][h.mem[x].next]]]

\* Chain is its value for as many steps as there are cells.
LEMMA ChainWalks ==
    ASSUME NEW h, NEW c
    PROVE  Chain(h, c) = Walks(h)[MaxCells][c]
  BY ZenonT(60) DEF Chain, Walks

\* It exists, and is as its definition says.
LEMMA WalksIs ==
    ASSUME NEW h, h.mem \in [Cells -> Cell]
    PROVE  Walks(h) = [fuel \in 0 .. MaxCells |->
               [x \in Cells \cup {Nil} |->
                   IF x = Nil \/ fuel = 0 THEN << >>
                   ELSE <<x>> \o Walks(h)[fuel - 1][h.mem[x].next]]]
<1> DEFINE S == [Cells \cup {Nil} -> Seq(Cells)]
           W(walk) == [fuel \in 0 .. MaxCells |->
               [x \in Cells \cup {Nil} |->
                   IF x = Nil \/ fuel = 0 THEN << >>
                   ELSE <<x>> \o walk[fuel - 1][h.mem[x].next]]]
           s0 == [x \in Cells \cup {Nil} |-> << >>]
           G == [w \in S |->
                    [x \in Cells \cup {Nil} |->
                        IF x = Nil THEN << >> ELSE <<x>> \o w[h.mem[x].next]]]
           g == [n \in 1 .. MaxCells |-> G]
<1>1. s0 \in S
    OBVIOUS
<1>2. ASSUME NEW w \in S PROVE G[w] \in S
  <2>1. ASSUME NEW x \in Cells PROVE <<x>> \o w[h.mem[x].next] \in Seq(Cells)
    <3>1. h.mem[x].next \in Cells \cup {Nil}
        BY DEF Cell
    <3> QED BY <3>1
  <2> QED BY <2>1
<1>3. g \in [1 .. MaxCells -> [S -> S]]
  <2>1. G \in [S -> S]
      BY <1>2
  <2> HIDE DEF G, S
  <2> QED BY <2>1
<1>4. MaxCells \in Nat
    BY HeapAssumption
<1>5. PICK f : Follows(f, MaxCells, S, s0, g)
  <2>1. IsStepping(g, MaxCells, S)
      BY <1>3 DEF IsStepping
  <2> HIDE DEF S, s0, g
  <2> QED BY <1>1, <1>4, <2>1, Recursion
<1>F. f \in [0 .. MaxCells -> S] /\ f[0] = s0 /\ \A n \in 1 .. MaxCells : f[n] = G[f[n - 1]]
    BY <1>5 DEF Follows
<1>6. f = W(f)
  <2>1. ASSUME NEW n \in 0 .. MaxCells PROVE f[n] = W(f)[n]
    <3>1. CASE n = 0
        BY <3>1, <1>F
    <3>2. CASE n # 0
      <4>1. n \in 1 .. MaxCells /\ n - 1 \in 0 .. MaxCells
          BY <3>2, <1>4
      <4>2. f[n - 1] \in S
        <5> HIDE DEF S
        <5> QED BY <4>1, <1>F
      <4>3. f[n] = G[f[n - 1]]
        <5> HIDE DEF G, S, s0
        <5> QED BY <4>1, <3>2, <1>F
      <4>4. G[f[n - 1]] = W(f)[n]
          BY <4>1, <4>2, <3>2
      <4> QED BY <4>3, <4>4
    <3> QED BY <3>1, <3>2
  <2>2. f = [n \in 0 .. MaxCells |-> f[n]] /\ W(f) = [n \in 0 .. MaxCells |-> W(f)[n]]
    <3> HIDE DEF S
    <3> QED BY <1>F
  <2> HIDE DEF W
  <2> QED BY <2>1, <2>2
<1>7. Walks(h) = W(Walks(h))
  <2>1. Walks(h) = CHOOSE w : w = W(w)
      BY DEF Walks
  <2> HIDE DEF W
  <2> QED BY <1>6, <2>1, Zenon
<1> QED BY <1>7

\* A sequence of cells without repetition is no longer than the memory.
LEMMA OnceFits ==
    ASSUME NEW s \in Seq(Cells), Once(s)
    PROVE  Len(s) <= MaxCells
<1>1. s \in [1 .. Len(s) -> Cells] /\ Len(s) \in Nat /\ MaxCells \in Nat
    BY HeapAssumption
<1>2. s \in Injection(1 .. Len(s), Cells)
    BY <1>1 DEF Injection, IsInjective, Once
<1>3. /\ IsFiniteSet(Cells) /\ Cardinality(Cells) = MaxCells
      /\ Cardinality(1 .. Len(s)) = Len(s)
  <2>1. ASSUME NEW n \in Nat PROVE IsFiniteSet(1 .. n) /\ Cardinality(1 .. n) = n
    <3>1. 1 \in Int /\ n \in Int /\ (IF 1 > n THEN 0 ELSE n - 1 + 1) = n
        OBVIOUS
    <3> QED BY <3>1, FS_Interval
  <2> QED BY <1>1, <2>1 DEF Cells
<1>4. Cardinality(1 .. Len(s)) <= Cardinality(Cells)
    BY <1>2, <1>3, FS_Injection
<1> QED BY <1>3, <1>4

\* The loop over `next' finds the chain.
LEMMA ChainIs ==
    ASSUME NEW h, h.mem \in [Cells -> Cell], NEW c, NEW s, Linked(h, c, s)
    PROVE  Chain(h, c) = s
<1> DEFINE N == Len(s)
           W == Walks(h)
           Rest(i) == SubSeq(s, i, N)
           Good(n) == \A i \in 1 .. N : N - i + 1 <= n => W[n][s[i]] = Rest(i)
           Z == {n \in Nat : n <= MaxCells => Good(n)}
<1>1. /\ s \in Seq(Cells) /\ Once(s) /\ N \in Nat /\ MaxCells \in Nat
      /\ \A i \in 1 .. N : s[i] \in Cells
      /\ \A i \in 1 .. N : h.mem[s[i]].next = IF i = N THEN Nil ELSE s[i + 1]
      /\ c = IF s = << >> THEN Nil ELSE s[1]
    BY HeapAssumption DEF Linked
<1>2. N <= MaxCells
    BY <1>1, OnceFits
<1> HIDE DEF W
<1>W. W = [fuel \in 0 .. MaxCells |->
            [x \in Cells \cup {Nil} |->
                IF x = Nil \/ fuel = 0 THEN << >>
                ELSE <<x>> \o W[fuel - 1][h.mem[x].next]]]
    BY WalksIs DEF W
<1>3. \A n \in 0 .. MaxCells : W[n][Nil] = << >>
    BY <1>W
<1>4. \A n \in 0 .. MaxCells, x \in Cells : n # 0 =>
          W[n][x] = <<x>> \o W[n - 1][h.mem[x].next]
  <2> SUFFICES ASSUME NEW n \in 0 .. MaxCells, NEW x \in Cells, n # 0
               PROVE  W[n][x] = <<x>> \o W[n - 1][h.mem[x].next]
      OBVIOUS
  <2>1. x # Nil /\ x \in Cells \cup {Nil}
      BY DEF Nil, Cells
  <2>2. W[n] = [y \in Cells \cup {Nil} |->
                   IF y = Nil \/ n = 0 THEN << >>
                   ELSE <<y>> \o W[n - 1][h.mem[y].next]]
      BY <1>W, Zenon
  <2> QED BY <2>1, <2>2, Zenon
<1>5. 0 \in Z
    BY <1>1
<1>6. ASSUME NEW n \in Z PROVE n + 1 \in Z
  <2> SUFFICES ASSUME n + 1 <= MaxCells, NEW i \in 1 .. N, N - i + 1 <= n + 1
               PROVE  W[n + 1][s[i]] = Rest(i)
      OBVIOUS
  <2>1. n \in Nat /\ Good(n) /\ n \in 0 .. MaxCells /\ n + 1 \in 0 .. MaxCells
        /\ n + 1 # 0 /\ (n + 1) - 1 = n
      BY <1>1
  <2> HIDE DEF Z
  <2>2. W[n + 1][s[i]] = <<s[i]>> \o W[n][h.mem[s[i]].next]
      BY <1>1, <1>4, <2>1
  <2>3. Rest(i) = <<s[i]>> \o Rest(i + 1)
      BY <1>1, SubSeqRecursiveFirst
  <2>4. CASE i = N
    <3>1. Rest(i + 1) = << >>
        BY <1>1, <2>4, SubSeqEmpty
    <3>2. W[n][h.mem[s[i]].next] = << >>
        BY <1>1, <1>3, <2>1, <2>4
    <3> QED BY <2>2, <2>3, <3>1, <3>2
  <2>5. CASE i # N
    <3>1. i + 1 \in 1 .. N /\ N - (i + 1) + 1 <= n
        BY <1>1, <2>1, <2>5
    <3>2. W[n][s[i + 1]] = Rest(i + 1)
        BY <2>1, <3>1
    <3> QED BY <1>1, <2>2, <2>3, <2>5, <3>2
  <2> QED BY <2>4, <2>5
<1>7. MaxCells \in Z
  <2>1. Z \in SUBSET Nat
      OBVIOUS
  <2> HIDE DEF Z
  <2> QED BY <1>1, <1>5, <1>6, <2>1, Induction
<1>8. Chain(h, c) = W[MaxCells][c]
    BY ChainWalks DEF W
<1>9. CASE s = << >>
    BY <1>1, <1>3, <1>8, <1>9
<1>10. CASE s # << >>
  <2>1. 1 \in 1 .. N /\ N - 1 + 1 <= MaxCells
      BY <1>1, <1>2, <1>10
  <2>2. W[MaxCells][s[1]] = Rest(1)
      BY <1>7, <2>1
  <2>3. Rest(1) = s
      BY <1>1, SubSeqFull
  <2> QED BY <1>1, <1>8, <1>10, <2>2, <2>3
<1> QED BY <1>9, <1>10

-----------------------------------------------------------------------------
(***************************************************************************)
(* Sequences without repetition, and the sets of their elements.           *)
(***************************************************************************)
Without(s, j) == [i \in 1 .. Len(s) - 1 |-> IF i < j THEN s[i] ELSE s[i + 1]]

\* The elements of a sequence.
LEMMA Elements ==
    ASSUME NEW s \in Seq(Cells)
    PROVE  /\ Len(s) \in Nat /\ DOMAIN s = 1 .. Len(s)
           /\ \A i \in 1 .. Len(s) : s[i] \in Cells /\ s[i] \in ToSet(s)
           /\ \A c \in ToSet(s) : c \in Cells /\ \E i \in 1 .. Len(s) : s[i] = c
           /\ s = << >> <=> ToSet(s) = {}
  BY DEF ToSet

\* Taking one element out of a sequence.
LEMMA WithoutFacts ==
    ASSUME NEW s \in Seq(Cells), Once(s), NEW j \in 1 .. Len(s)
    PROVE  /\ Without(s, j) \in Seq(Cells) /\ Len(Without(s, j)) = Len(s) - 1
           /\ Once(Without(s, j))
           /\ ToSet(Without(s, j)) = ToSet(s) \ {s[j]}
<1> DEFINE t == Without(s, j)
           old(i) == IF i < j THEN i ELSE i + 1
<1>1. Len(s) \in Nat /\ j \in Nat /\ Len(s) - 1 \in Nat
    OBVIOUS
<1>2. \A i \in 1 .. Len(s) - 1 : old(i) \in 1 .. Len(s) /\ old(i) # j /\ t[i] = s[old(i)]
    BY <1>1 DEF Without
<1>3. t \in Seq(Cells) /\ Len(t) = Len(s) - 1
  <2>1. \A i \in 1 .. Len(s) - 1 : t[i] \in Cells
      BY <1>2
  <2> QED BY <1>1, <2>1 DEF Without
<1>4. \A i \in 1 .. Len(s) : i # j => \E m \in 1 .. Len(s) - 1 : old(m) = i
  <2> SUFFICES ASSUME NEW i \in 1 .. Len(s), i # j
               PROVE  \E m \in 1 .. Len(s) - 1 : old(m) = i
      OBVIOUS
  <2>1. CASE i < j
      BY <1>1, <2>1
  <2>2. CASE i > j
    <3>1. i - 1 \in 1 .. Len(s) - 1 /\ old(i - 1) = i
        BY <1>1, <2>2
    <3> QED BY <3>1
  <2> QED BY <1>1, <2>1, <2>2
<1>5. \A i, m \in 1 .. Len(s) - 1 : old(i) = old(m) => i = m
    BY <1>1
<1> HIDE DEF t, old
<1>6. Once(t)
    BY <1>2, <1>3, <1>5 DEF Once
<1>7. ToSet(t) = ToSet(s) \ {s[j]}
  <2>1. ASSUME NEW c \in ToSet(t) PROVE c \in ToSet(s) \ {s[j]}
    <3>1. PICK i \in 1 .. Len(s) - 1 : t[i] = c
        BY <1>3, Elements
    <3> QED BY ZenonT(60), <1>2, <3>1, Elements DEF Once
  <2>2. ASSUME NEW c \in ToSet(s), c # s[j] PROVE c \in ToSet(t)
    <3>1. PICK i \in 1 .. Len(s) : s[i] = c
        BY Elements
    <3>2. PICK m \in 1 .. Len(s) - 1 : old(m) = i
        BY <1>4, <2>2, <3>1
    <3> QED BY <1>2, <1>3, <3>1, <3>2, Elements
  <2> QED BY <2>1, <2>2
<1> QED BY <1>3, <1>6, <1>7 DEF t

\* Putting one element behind the others.
LEMMA AppendFacts ==
    ASSUME NEW s \in Seq(Cells), Once(s), NEW c \in Cells, c \notin ToSet(s)
    PROVE  /\ Append(s, c) \in Seq(Cells) /\ Len(Append(s, c)) = Len(s) + 1
           /\ Once(Append(s, c)) /\ ToSet(Append(s, c)) = ToSet(s) \cup {c}
<1> DEFINE t == Append(s, c)
<1>1. Len(s) \in Nat /\ \A i \in 1 .. Len(s) : s[i] # c /\ s[i] \in ToSet(s)
    BY Elements
<1>2. t \in Seq(Cells) /\ Len(t) = Len(s) + 1 /\ t[Len(s) + 1] = c
      /\ \A i \in 1 .. Len(s) : t[i] = s[i]
    BY AppendProperties
<1>3. \A i \in 1 .. Len(s) + 1 : i \in 1 .. Len(s) \/ i = Len(s) + 1
    BY <1>1
<1>4. \A i \in 1 .. Len(s) : i \in 1 .. Len(s) + 1
    BY <1>1
<1>5. Len(s) + 1 \in 1 .. Len(s) + 1
    BY <1>1
<1> HIDE DEF t
<1>6. Once(t)
    BY <1>1, <1>2, <1>3 DEF Once
<1>7. ToSet(t) = ToSet(s) \cup {c}
  <2>1. ASSUME NEW d \in ToSet(t) PROVE d \in ToSet(s) \cup {c}
    <3>1. PICK i \in 1 .. Len(s) + 1 : t[i] = d
        BY <1>2, Elements
    <3> QED BY <1>1, <1>2, <1>3, <3>1
  <2>2. ASSUME NEW d \in ToSet(s) PROVE d \in ToSet(t)
    <3>1. PICK i \in 1 .. Len(s) : s[i] = d
        BY Elements
    <3>2. i \in 1 .. Len(t) /\ t[i] = d
        BY <1>2, <1>4, <3>1
    <3> QED BY <1>2, <3>2, Elements
  <2>3. c \in ToSet(t)
      BY <1>2, <1>5, Elements
  <2> QED BY <2>1, <2>2, <2>3
<1> QED BY <1>2, <1>6, <1>7 DEF t

\* One sequence behind another.
LEMMA ConcatFacts ==
    ASSUME NEW s \in Seq(Cells), Once(s), NEW t \in Seq(Cells), Once(t),
           ToSet(s) \cap ToSet(t) = {}
    PROVE  /\ s \o t \in Seq(Cells) /\ Once(s \o t)
           /\ ToSet(s \o t) = ToSet(s) \cup ToSet(t)
<1> DEFINE m == Len(s)
           n == Len(t)
           u == s \o t
<1>1. m \in Nat /\ n \in Nat
    OBVIOUS
<1>2. u \in Seq(Cells) /\ Len(u) = m + n
      /\ \A i \in 1 .. m + n : u[i] = IF i <= m THEN s[i] ELSE t[i - m]
    BY ConcatProperties
<1>3. \A i \in 1 .. m + n : IF i <= m THEN i \in 1 .. m ELSE i - m \in 1 .. n
    BY <1>1
<1>4. /\ \A i \in 1 .. m : i \in 1 .. m + n /\ i <= m
      /\ \A i \in 1 .. n : m + i \in 1 .. m + n /\ ~(m + i <= m) /\ m + i - m = i
    BY <1>1
<1>5. \A i \in 1 .. m, j \in 1 .. n : s[i] # t[j]
    BY Elements
<1>6. Once(u)
  <2> SUFFICES ASSUME NEW i \in 1 .. m + n, NEW j \in 1 .. m + n, u[i] = u[j]
               PROVE  i = j
      BY <1>2 DEF Once
  <2> HIDE DEF m, n, u
  <2>1. CASE i <= m /\ j <= m
      BY <1>2, <1>3, <2>1 DEF Once, m
  <2>2. CASE ~(i <= m) /\ ~(j <= m)
    <3>1. i - m = j - m
        BY <1>2, <1>3, <2>2 DEF Once, n
    <3> QED BY <1>1, <3>1
  <2>3. ~(i <= m /\ ~(j <= m)) /\ ~(~(i <= m) /\ j <= m)
      BY <1>2, <1>3, <1>5
  <2> QED BY <2>1, <2>2, <2>3
<1> HIDE DEF u
<1>7. ToSet(u) = ToSet(s) \cup ToSet(t)
  <2>1. ASSUME NEW c \in ToSet(u) PROVE c \in ToSet(s) \cup ToSet(t)
    <3>1. PICK i \in 1 .. m + n : u[i] = c
        BY <1>2, Elements
    <3>2. CASE i <= m
        BY <1>2, <1>3, <3>1, <3>2, Elements
    <3>3. CASE ~(i <= m)
        BY <1>2, <1>3, <3>1, <3>3, Elements
    <3> QED BY <3>2, <3>3
  <2>2. ASSUME NEW c \in ToSet(s) PROVE c \in ToSet(u)
    <3>1. PICK i \in 1 .. m : s[i] = c
        BY Elements
    <3>2. i \in 1 .. Len(u) /\ u[i] = c
        BY <1>2, <1>4, <3>1
    <3> QED BY <1>2, <3>2, Elements
  <2>3. ASSUME NEW c \in ToSet(t) PROVE c \in ToSet(u)
    <3>1. PICK i \in 1 .. n : t[i] = c
        BY Elements
    <3>2. m + i \in 1 .. Len(u) /\ u[m + i] = c
        BY <1>2, <1>4, <3>1
    <3> QED BY <1>2, <3>2, Elements
  <2> QED BY <2>1, <2>2, <2>3
<1> QED BY <1>2, <1>6, <1>7 DEF u

\* The first element and the others.
LEMMA HeadTailFacts ==
    ASSUME NEW s \in Seq(Cells), Once(s), s # << >>
    PROVE  /\ Head(s) \in ToSet(s) /\ Tail(s) \in Seq(Cells) /\ Once(Tail(s))
           /\ ToSet(Tail(s)) = ToSet(s) \ {Head(s)}
<1>1. Len(s) \in Nat \ {0} /\ Head(s) = s[1]
    BY EmptySeq
<1>2. 1 \in 1 .. Len(s)
    BY <1>1
<1>3. /\ Without(s, 1) \in Seq(Cells) /\ Len(Without(s, 1)) = Len(s) - 1
      /\ Once(Without(s, 1)) /\ ToSet(Without(s, 1)) = ToSet(s) \ {s[1]}
    BY <1>2, WithoutFacts
<1>4. Tail(s) = Without(s, 1)
  <2>1. /\ Tail(s) \in Seq(Cells) /\ Len(Tail(s)) = Len(s) - 1
        /\ \A i \in 1 .. Len(s) - 1 : Tail(s)[i] = s[i + 1]
      BY HeadTailProperties
  <2>2. \A i \in 1 .. Len(s) - 1 : ~(i < 1)
      BY <1>1
  <2>3. \A i \in 1 .. Len(s) - 1 : Without(s, 1)[i] = Tail(s)[i]
      BY <2>1, <2>2 DEF Without
  <2> QED BY <1>3, <2>1, <2>3, SeqEqual
<1>5. s[1] \in ToSet(s)
    BY <1>2, Elements
<1> QED BY <1>1, <1>3, <1>4, <1>5, Zenon

\* The order does not matter.
LEMMA ReverseFacts ==
    ASSUME NEW s \in Seq(Cells), Once(s)
    PROVE  Reverse(s) \in Seq(Cells) /\ Once(Reverse(s)) /\ ToSet(Reverse(s)) = ToSet(s)
<1> DEFINE t == Reverse(s)
           n == Len(s)
<1>1. n \in Nat
    OBVIOUS
<1>2. \A i \in 1 .. n : (n - i) + 1 \in 1 .. n /\ (n - ((n - i) + 1)) + 1 = i
    BY <1>1
<1>3. t \in Seq(Cells) /\ Len(t) = n /\ \A i \in 1 .. n : t[i] = s[(n - i) + 1]
    BY <1>1, <1>2 DEF Reverse
<1>4. Once(t)
  <2> SUFFICES ASSUME NEW i \in 1 .. n, NEW j \in 1 .. n, t[i] = t[j] PROVE i = j
      BY <1>3 DEF Once
  <2>1. (n - i) + 1 = (n - j) + 1
      BY ZenonT(60), <1>2, <1>3 DEF Once
  <2> QED BY <1>1, <2>1
<1> HIDE DEF t
<1>5. ToSet(t) = ToSet(s)
  <2>1. ASSUME NEW c \in ToSet(t) PROVE c \in ToSet(s)
    <3>1. PICK i \in 1 .. n : t[i] = c
        BY <1>3, Elements
    <3> QED BY <1>2, <1>3, <3>1, Elements
  <2>2. ASSUME NEW c \in ToSet(s) PROVE c \in ToSet(t)
    <3>1. PICK i \in 1 .. n : s[i] = c
        BY Elements
    <3>2. (n - i) + 1 \in 1 .. Len(t) /\ t[(n - i) + 1] = c
        BY <1>2, <1>3, <3>1
    <3> QED BY <1>3, <3>2, Elements
  <2> QED BY <2>1, <2>2
<1> QED BY <1>3, <1>4, <1>5 DEF t

-----------------------------------------------------------------------------
(***************************************************************************)
(* The invariant of the heap.  ch gives the chain of each bucket.          *)
(***************************************************************************)
\* c is the node of k.
NodeOf(h, c, k) == h.mem[c].type = "NODE" /\ h.mem[c].key = k

\* What the cells of the chain s of bucket b are: the HEAD, then nodes of this
\* bucket.  A table whose clients store no null pointer has no key twice.
Cast(h, b, s) ==
    /\ \A i \in 1 .. Len(s) :
          IF i = 1 THEN h.mem[s[i]].type = "HEAD"
          ELSE /\ h.mem[s[i]].type = "NODE" /\ h.mem[s[i]].key \in Keys
               /\ Bucket(h.mem[s[i]].key) = b
    /\ NULL \notin Vals =>
          /\ \A k \in Keys : \A c, d \in ToSet(s) :
                NodeOf(h, c, k) /\ NodeOf(h, d, k) => c = d
          /\ \A i \in 1 .. Len(s) : i # 1 => h.mem[s[i]].val # NULL

\* Every cell handed out is in one chain or on the free list.
Apart(ch, f, n) ==
    /\ Once(f)
    /\ \A b \in Bs : ToSet(ch[b]) \cap ToSet(f) = {}
    /\ \A b, d \in Bs : b # d => ToSet(ch[b]) \cap ToSet(ch[d]) = {}
    /\ \A c \in Cells : c < n <=> c \in ToSet(f) \/ \E b \in Bs : c \in ToSet(ch[b])

\* The memory that malloc hands out without a recycled `next'.
Blank(h) ==
    /\ \A c \in Cells : c >= h.fresh => h.mem[c].next = Nil
    /\ Zeroing => \A c \in ToSet(h.free) : h.mem[c].next = Nil

Sound(h, tops, ch) ==
    /\ h \in Heaps /\ tops \in [Bs -> Cells \cup {Nil}] /\ ch \in [Bs -> Seq(Cells)]
    /\ \A b \in Bs : Linked(h, tops[b], ch[b]) /\ Cast(h, b, ch[b])
    /\ Apart(ch, h.free, h.fresh)
    /\ Blank(h)

\* The nodes of the table.
Nodes(h, ch) == {c \in Cells : h.mem[c].type = "NODE" /\ \E b \in Bs : c \in ToSet(ch[b])}

\* Every key has its bucket.
LEMMA BucketIs ==
    ASSUME NEW k \in Keys
    PROVE  Bucket(k) \in Bs
<1>1. Hash[k] \in Nat /\ Size \in Nat \ {0}
    BY HeapAssumption
<1> QED BY <1>1 DEF Bucket, Bs

\* The scan finds the node of k where the chain has one.
LEMMA WhereIs ==
    ASSUME NEW h, NEW s \in Seq(Cells), NEW k
    PROVE  LET j == Where(h, s, k) IN
           IF \E c \in ToSet(s) : NodeOf(h, c, k)
           THEN j \in 1 .. Len(s) /\ NodeOf(h, s[j], k)
           ELSE j = 0
<1> DEFINE I == {i \in 1 .. Len(s) : NodeOf(h, s[i], k)}
           j == Where(h, s, k)
<1>1. Where(h, s, k) = IF I # {} THEN CHOOSE i \in I : \A m \in I : i <= m ELSE 0
    BY DEF Where, SelectInSeq, Min, NodeOf
<1>2. I # {} <=> \E c \in ToSet(s) : NodeOf(h, c, k)
    BY Elements
<1>3. CASE I # {}
  <2>1. I \in SUBSET Nat
      OBVIOUS
  <2>2. \E i \in I : \A m \in I : i <= m
    <3> HIDE DEF I
    <3> QED BY <1>3, <2>1, Least
  <2>3. j \in I
    <3> HIDE DEF I
    <3> QED BY <1>1, <1>3, <2>2
  <2> QED BY <1>2, <1>3, <2>3
<1> QED BY <1>1, <1>2, <1>3

\* What the pieces of the invariant say of one bucket.
LEMMA OfBucket ==
    ASSUME NEW h, NEW tops, NEW ch, Sound(h, tops, ch), NEW b \in Bs
    PROVE  /\ h.mem \in [Cells -> Cell] /\ Chain(h, tops[b]) = ch[b]
           /\ ch[b] \in Seq(Cells) /\ Once(ch[b]) /\ Len(ch[b]) \in Nat
           /\ \A c \in ToSet(ch[b]) : c \in Cells /\ (NodeOf(h, c, h.mem[c].key) =>
                 c \in Nodes(h, ch) /\ h.mem[c].key \in Keys
                 /\ Bucket(h.mem[c].key) = b /\ c # ch[b][1])
<1>1. /\ h.mem \in [Cells -> Cell] /\ ch[b] \in Seq(Cells) /\ Linked(h, tops[b], ch[b])
      /\ Cast(h, b, ch[b])
    BY DEF Sound, Heaps
<1>2. Chain(h, tops[b]) = ch[b]
    BY <1>1, ChainIs
<1>3. Once(ch[b]) /\ Len(ch[b]) \in Nat
    BY <1>1, Elements DEF Linked
<1>4. ASSUME NEW c \in ToSet(ch[b]), NodeOf(h, c, h.mem[c].key)
      PROVE  /\ c \in Cells /\ c \in Nodes(h, ch) /\ h.mem[c].key \in Keys
             /\ Bucket(h.mem[c].key) = b /\ c # ch[b][1]
  <2>1. PICK i \in 1 .. Len(ch[b]) : ch[b][i] = c
      BY <1>1, Elements
  <2>2. c \in Cells /\ h.mem[c].type = "NODE"
      BY <1>1, <1>4, Elements DEF NodeOf
  <2>3. i # 1
      BY <1>1, <2>1, <2>2 DEF Cast
  <2>4. i # 1 /\ c # ch[b][1]
      BY <1>3, <2>1, <2>3 DEF Once
  <2> QED BY <1>1, <2>1, <2>2, <2>4 DEF Cast, Nodes
<1>5. \A c \in ToSet(ch[b]) : c \in Cells
    BY <1>1, Elements
<1> QED BY <1>1, <1>2, <1>3, <1>4, <1>5

\* What a lookup finds.
LEMMA FoundIs ==
    ASSUME NEW h, NEW tops, NEW ch, Sound(h, tops, ch), NEW k \in Keys
    PROVE  LET b == Bucket(k)
               j == Where(h, ch[b], k)
           IN  /\ b \in Bs
               /\ Found(h, tops, k) = IF j = 0 THEN NULL ELSE h.mem[ch[b][j]].val
               /\ Has(h, tops, k) <=> j # 0
               /\ j # 0 => /\ j \in 1 .. Len(ch[b]) /\ j # 1
                           /\ ch[b][j] \in Nodes(h, ch) /\ NodeOf(h, ch[b][j], k)
               /\ j = 0 => \A c \in Nodes(h, ch) : ~NodeOf(h, c, k)
               /\ Found(h, tops, k) \in Vals \cup {NULL}
               /\ NULL \notin Vals => (Found(h, tops, k) = NULL <=> j = 0)
<1> DEFINE b == Bucket(k)
           j == Where(h, ch[b], k)
<1>1. b \in Bs
    BY BucketIs
<1>2. /\ h.mem \in [Cells -> Cell] /\ Chain(h, tops[b]) = ch[b]
      /\ ch[b] \in Seq(Cells) /\ Once(ch[b]) /\ Len(ch[b]) \in Nat
    BY <1>1, OfBucket
<1>3. /\ Found(h, tops, k) = IF j = 0 THEN NULL ELSE h.mem[ch[b][j]].val
      /\ Has(h, tops, k) <=> j # 0
    BY <1>2 DEF Found, Has
<1>4. IF \E c \in ToSet(ch[b]) : NodeOf(h, c, k)
      THEN j \in 1 .. Len(ch[b]) /\ NodeOf(h, ch[b][j], k)
      ELSE j = 0
    BY <1>2, WhereIs, Zenon
<1>5. Cast(h, b, ch[b])
    BY <1>1 DEF Sound
<1>6. ASSUME j # 0
      PROVE  /\ j \in 1 .. Len(ch[b]) /\ j # 1
             /\ ch[b][j] \in Nodes(h, ch) /\ NodeOf(h, ch[b][j], k)
             /\ h.mem[ch[b][j]].val \in Vals \cup {NULL}
             /\ NULL \notin Vals => h.mem[ch[b][j]].val # NULL
  <2> HIDE DEF j
  <2>1. j \in 1 .. Len(ch[b]) /\ NodeOf(h, ch[b][j], k)
      BY <1>4, <1>6
  <2>2. ch[b][j] \in ToSet(ch[b]) /\ ch[b][j] \in Cells
      BY <1>2, <2>1, Elements
  <2>3. NodeOf(h, ch[b][j], h.mem[ch[b][j]].key)
      BY <2>1 DEF NodeOf
  <2>4. ch[b][j] \in Nodes(h, ch) /\ ch[b][j] # ch[b][1]
    <3>1. \A c \in ToSet(ch[b]) : NodeOf(h, c, h.mem[c].key) =>
              c \in Nodes(h, ch) /\ c # ch[b][1]
        BY <1>1, OfBucket
    <3> QED BY <2>2, <2>3, <3>1
  <2>5. j # 1
      BY <2>4
  <2>6. h.mem[ch[b][j]].val \in Vals \cup {NULL}
      BY <1>2, <2>2 DEF Cell
  <2> QED BY <1>5, <2>1, <2>4, <2>5, <2>6 DEF Cast
<1>7. ASSUME j = 0, NEW c \in Nodes(h, ch) PROVE ~NodeOf(h, c, k)
  <2> HIDE DEF j
  <2>1. SUFFICES ASSUME NodeOf(h, c, k) PROVE FALSE
      OBVIOUS
  <2>2. PICK d \in Bs : c \in ToSet(ch[d])
      BY DEF Nodes
  <2>3. NodeOf(h, c, h.mem[c].key) /\ h.mem[c].key = k
      BY <2>1 DEF NodeOf
  <2>4. d = b
      BY <2>2, <2>3, OfBucket
  <2>5. j # 0
      BY <1>2, <1>4, <2>1, <2>2, <2>4
  <2> QED BY <1>7, <2>5
<1> HIDE DEF j, b
<1>8. Found(h, tops, k) \in Vals \cup {NULL} /\ (NULL \notin Vals => (Found(h, tops, k) = NULL <=> j = 0))
    BY <1>3, <1>6
<1> QED BY <1>1, <1>3, <1>6, <1>7, <1>8 DEF j, b

\* No key twice in the table.
LEMMA OneNode ==
    ASSUME NULL \notin Vals, NEW h, NEW tops, NEW ch, Sound(h, tops, ch),
           NEW k \in Keys, NEW c \in Nodes(h, ch), NEW d \in Nodes(h, ch),
           NodeOf(h, c, k), NodeOf(h, d, k)
    PROVE  c = d
<1>1. ASSUME NEW e \in Nodes(h, ch), NodeOf(h, e, k) PROVE e \in ToSet(ch[Bucket(k)])
  <2>1. PICK b \in Bs : e \in ToSet(ch[b])
      BY DEF Nodes
  <2>2. \A x \in ToSet(ch[b]) : NodeOf(h, x, h.mem[x].key) => Bucket(h.mem[x].key) = b
      BY OfBucket
  <2>3. h.mem[e].key = k /\ NodeOf(h, e, h.mem[e].key)
      BY <1>1 DEF NodeOf
  <2> QED BY <2>1, <2>2, <2>3
<1>2. Bucket(k) \in Bs /\ Cast(h, Bucket(k), ch[Bucket(k)])
    BY BucketIs DEF Sound
<1> QED BY <1>1, <1>2 DEF Cast

\* A lookup depends on the nodes of its key only.
LEMMA SameFound ==
    ASSUME NULL \notin Vals, NEW k \in Keys,
           NEW h, NEW tops, NEW ch, Sound(h, tops, ch),
           NEW g, NEW utops, NEW dh, Sound(g, utops, dh),
           \A c \in Cells : c \in Nodes(h, ch) /\ NodeOf(h, c, k) <=>
                            c \in Nodes(g, dh) /\ NodeOf(g, c, k),
           \A c \in Nodes(h, ch) : NodeOf(h, c, k) => g.mem[c].val = h.mem[c].val
    PROVE  Found(g, utops, k) = Found(h, tops, k)
<1> DEFINE b == Bucket(k)
           i == Where(h, ch[b], k)
           j == Where(g, dh[b], k)
<1>1. /\ Found(h, tops, k) = IF i = 0 THEN NULL ELSE h.mem[ch[b][i]].val
      /\ i # 0 => ch[b][i] \in Nodes(h, ch) /\ NodeOf(h, ch[b][i], k)
      /\ i = 0 => \A c \in Nodes(h, ch) : ~NodeOf(h, c, k)
    BY FoundIs
<1>2. /\ Found(g, utops, k) = IF j = 0 THEN NULL ELSE g.mem[dh[b][j]].val
      /\ j # 0 => dh[b][j] \in Nodes(g, dh) /\ NodeOf(g, dh[b][j], k)
      /\ j = 0 => \A c \in Nodes(g, dh) : ~NodeOf(g, c, k)
    BY FoundIs
<1>3. \A c \in Nodes(h, ch) : c \in Cells
    BY DEF Nodes
<1>4. \A c \in Nodes(g, dh) : c \in Cells
    BY DEF Nodes
<1> HIDE DEF i, j, b
<1>5. i = 0 <=> j = 0
    BY <1>1, <1>2, <1>3, <1>4
<1>6. CASE i = 0
    BY <1>1, <1>2, <1>5, <1>6
<1>7. CASE i # 0
  <2>1. dh[b][j] \in Nodes(h, ch) /\ NodeOf(h, dh[b][j], k)
      BY <1>2, <1>4, <1>5, <1>7
  <2>2. dh[b][j] = ch[b][i]
      BY <1>1, <1>7, <2>1, OneNode
  <2> QED BY <1>1, <1>2, <1>5, <1>7, <2>1, <2>2
<1> QED BY <1>6, <1>7

-----------------------------------------------------------------------------
(***************************************************************************)
(* The steps of the operations keep the invariant.                         *)
(***************************************************************************)
\* Writing to other cells does not change a chain,
LEMMA LinkedKept ==
    ASSUME NEW h, NEW g, NEW c, NEW s, Linked(h, c, s),
           \A x \in ToSet(s) : g.mem[x].next = h.mem[x].next
    PROVE  Linked(g, c, s)
<1>1. \A i \in 1 .. Len(s) : g.mem[s[i]].next = h.mem[s[i]].next
    BY Elements DEF Linked
<1> QED BY <1>1 DEF Linked

\* nor what its cells are.
LEMMA CastKept ==
    ASSUME NEW h, NEW g, NEW b, NEW s \in Seq(Cells), Cast(h, b, s),
           \A x \in ToSet(s) : /\ g.mem[x].type = h.mem[x].type
                               /\ g.mem[x].key = h.mem[x].key
                               /\ g.mem[x].val = h.mem[x].val
    PROVE  Cast(g, b, s)
<1>1. \A i \in 1 .. Len(s) : s[i] \in ToSet(s)
    BY Elements
<1> QED BY <1>1 DEF Cast, NodeOf

\* One cell joins one chain.
LEMMA ApartWith ==
    ASSUME NEW ch \in [Bs -> Seq(Cells)], NEW f, NEW n, Apart(ch, f, n),
           NEW e, NEW m, NEW x \in Cells, Once(e), ToSet(e) = ToSet(f) \ {x},
           \A b \in Bs : x \notin ToSet(ch[b]),
           \A c \in Cells : c < m <=> c < n \/ c = x,
           NEW b \in Bs, NEW s \in Seq(Cells), ToSet(s) = ToSet(ch[b]) \cup {x}
    PROVE  Apart([ch EXCEPT ![b] = s], e, m)
<1> DEFINE dh == [ch EXCEPT ![b] = s]
<1>1. \A d \in Bs : dh[d] = IF d = b THEN s ELSE ch[d]
    OBVIOUS
<1> HIDE DEF dh
<1>2. \A d \in Bs : ToSet(dh[d]) \cap ToSet(e) = {}
    BY <1>1 DEF Apart
<1>3. \A d, a \in Bs : d # a => ToSet(dh[d]) \cap ToSet(dh[a]) = {}
    BY <1>1 DEF Apart
<1>4. \A c \in Cells : c < m <=> c \in ToSet(e) \/ \E d \in Bs : c \in ToSet(dh[d])
    BY <1>1 DEF Apart
<1> QED BY <1>2, <1>3, <1>4 DEF Apart, dh

\* What malloc hands out.
LEMMA TakenIs ==
    ASSUME NEW h, NEW tops, NEW ch, Sound(h, tops, ch), h.fresh <= MaxCells
    PROVE  LET n == NextCell(h)
               t == Taken(h)
           IN  /\ n \in Cells /\ \A b \in Bs : n \notin ToSet(ch[b])
               /\ t \in Heaps /\ t.mem = h.mem /\ t.fresh <= h.fresh + 1
               /\ h.free = << >> \/ Tail(h.free) = << >> => t.free = << >>
               /\ \A b \in Bs, s \in Seq(Cells) :
                     ToSet(s) = ToSet(ch[b]) \cup {n} =>
                         Apart([ch EXCEPT ![b] = s], t.free, t.fresh)
               /\ Blank(t)
               /\ h.free = << >> \/ Zeroing => h.mem[n].next = Nil
<1> DEFINE n == NextCell(h)
           t == Taken(h)
<1>1. /\ h \in Heaps /\ h.mem \in [Cells -> Cell] /\ h.free \in Seq(Cells)
      /\ h.fresh \in 1 .. MaxCells /\ MaxCells \in Nat
      /\ ch \in [Bs -> Seq(Cells)] /\ Apart(ch, h.free, h.fresh) /\ Blank(h)
    BY HeapAssumption DEF Sound, Heaps
<1>2. Once(h.free)
    BY <1>1 DEF Apart
<1>3. CASE h.free = << >>
  <2>1. /\ n = h.fresh /\ t = [h EXCEPT !.fresh = h.fresh + 1]
        /\ ToSet(h.free) = {}
      BY <1>1, <1>3, Elements DEF NextCell, Taken
  <2>2. /\ t.mem = h.mem /\ t.free = h.free /\ t.fresh = h.fresh + 1 /\ t \in Heaps
    <3>1. h = [mem |-> h.mem, free |-> h.free, fresh |-> h.fresh]
        BY <1>1 DEF Heaps
    <3>2. t = [mem |-> h.mem, free |-> h.free, fresh |-> h.fresh + 1]
      <4> HIDE DEF t
      <4> QED BY <2>1, <3>1
    <3>3. h.fresh + 1 \in 1 .. MaxCells + 1
        BY <1>1
    <3> HIDE DEF t
    <3> QED BY <1>1, <3>2, <3>3 DEF Heaps
  <2>3. n \in Cells /\ \A b \in Bs : n \notin ToSet(ch[b])
    <3>1. h.fresh \in Cells /\ ~(h.fresh < h.fresh)
        BY <1>1 DEF Cells
    <3> QED BY <1>1, <2>1, <3>1 DEF Apart
  <2>4. ASSUME NEW b \in Bs, NEW s \in Seq(Cells), ToSet(s) = ToSet(ch[b]) \cup {n}
        PROVE  Apart([ch EXCEPT ![b] = s], t.free, t.fresh)
    <3>1. \A c \in Cells : c < t.fresh <=> c < h.fresh \/ c = n
        BY <1>1, <2>1, <2>2 DEF Cells
    <3>2. ToSet(t.free) = ToSet(h.free) \ {n}
        BY <2>1, <2>2
    <3> HIDE DEF n, t
    <3> QED BY <1>1, <1>2, <2>2, <2>3, <2>4, <3>1, <3>2, ApartWith
  <2>5. Blank(t) /\ h.mem[n].next = Nil
      BY <1>1, <2>1, <2>2, <2>3 DEF Blank, Cells
  <2> QED BY <1>1, <1>3, <2>2, <2>3, <2>4, <2>5
<1>4. CASE h.free # << >>
  <2>1. n = Head(h.free) /\ t = [h EXCEPT !.free = Tail(h.free)]
      BY <1>1, <1>4 DEF NextCell, Taken
  <2>2. /\ n \in ToSet(h.free) /\ Tail(h.free) \in Seq(Cells) /\ Once(Tail(h.free))
        /\ ToSet(Tail(h.free)) = ToSet(h.free) \ {n}
      BY <1>1, <1>2, <1>4, <2>1, HeadTailFacts
  <2>3. /\ t.mem = h.mem /\ t.free = Tail(h.free) /\ t.fresh = h.fresh /\ t \in Heaps
      BY <1>1, <2>1, <2>2 DEF Heaps
  <2>4. n \in Cells /\ \A b \in Bs : n \notin ToSet(ch[b])
      BY <1>1, <2>2, Elements DEF Apart
  <2>5. ASSUME NEW b \in Bs, NEW s \in Seq(Cells), ToSet(s) = ToSet(ch[b]) \cup {n}
        PROVE  Apart([ch EXCEPT ![b] = s], t.free, t.fresh)
    <3>1. \A c \in Cells : c < t.fresh <=> c < h.fresh \/ c = n
        BY <1>1, <2>2, <2>3, <2>4 DEF Apart
    <3> HIDE DEF n, t
    <3> QED BY <1>1, <2>2, <2>3, <2>4, <2>5, <3>1, ApartWith
  <2>6. Blank(t) /\ (Zeroing => h.mem[n].next = Nil)
      BY <1>1, <2>2, <2>3, <2>4 DEF Blank
  <2>7. h.free = << >> \/ Tail(h.free) = << >> => t.free = << >>
      BY <1>4, <2>3
  <2>8. t.fresh <= h.fresh + 1
      BY <1>1, <2>3
  <2> HIDE DEF t
  <2> QED BY <1>4, <2>3, <2>4, <2>5, <2>6, <2>7, <2>8 DEF t
<1> QED BY <1>3, <1>4

\* From h to g bucket b has got its HEAD, and the nodes are the same.
Headed(h, ch, g, tops, b) ==
    \E dh : /\ Sound(g, tops, dh) /\ dh[b] # << >>
            /\ Nodes(g, dh) = Nodes(h, ch)
            /\ \A c \in Nodes(h, ch) : g.mem[c] = h.mem[c]

\* bucket_top, where malloc hands out a cell whose `next' is null.
LEMMA WithHeadSound ==
    ASSUME NEW h, NEW tops, NEW ch, Sound(h, tops, ch), NEW b \in Bs,
           tops[b] = Nil => h.fresh <= MaxCells /\ (h.free = << >> \/ Zeroing)
    PROVE  LET g == WithHead(h, tops, b)
               x == HeadOf(h, tops, b)
           IN  /\ g.fresh <= h.fresh + 1 /\ (h.free = << >> => g.free = << >>)
               /\ Headed(h, ch, g, [tops EXCEPT ![b] = x], b)
<1> DEFINE g == WithHead(h, tops, b)
           x == HeadOf(h, tops, b)
<1>1. /\ h \in Heaps /\ h.fresh \in Nat /\ tops \in [Bs -> Cells \cup {Nil}]
      /\ ch \in [Bs -> Seq(Cells)] /\ h.mem \in [Cells -> Cell]
      /\ \A d \in Bs : Linked(h, tops[d], ch[d]) /\ Cast(h, d, ch[d])
      /\ Apart(ch, h.free, h.fresh) /\ Nil \notin Cells
    BY DEF Sound, Heaps, Cells, Nil
<1>2. tops[b] = Nil <=> ch[b] = << >>
  <2>1. ch[b] # << >> => ch[b][1] \in Cells
      BY <1>1
  <2> QED BY <1>1, <2>1 DEF Linked
<1>3. CASE tops[b] # Nil
  <2>1. g = h /\ [tops EXCEPT ![b] = x] = tops
      BY <1>1, <1>3 DEF WithHead, HeadOf
  <2>2. g.fresh <= h.fresh + 1 /\ (h.free = << >> => g.free = << >>)
      BY <1>1, <2>1
  <2>3. /\ Sound(g, [tops EXCEPT ![b] = x], ch) /\ ch[b] # << >>
        /\ Nodes(g, ch) = Nodes(h, ch)
        /\ \A c \in Nodes(h, ch) : g.mem[c] = h.mem[c]
      BY <1>2, <1>3, <2>1
  <2> QED BY <2>2, <2>3, Zenon DEF Headed
<1>4. CASE tops[b] = Nil
  <2> DEFINE dh == [ch EXCEPT ![b] = <<x>>]
  <2>1. /\ x = NextCell(h) /\ g = [Taken(h) EXCEPT !.mem[x].type = "HEAD"]
      BY <1>4 DEF WithHead, HeadOf
  <2>2. /\ x \in Cells /\ \A d \in Bs : x \notin ToSet(ch[d])
        /\ Taken(h) \in Heaps /\ Taken(h).mem = h.mem /\ Taken(h).fresh <= h.fresh + 1
        /\ h.free = << >> => Taken(h).free = << >>
        /\ \A d \in Bs, s \in Seq(Cells) : ToSet(s) = ToSet(ch[d]) \cup {x} =>
              Apart([ch EXCEPT ![d] = s], Taken(h).free, Taken(h).fresh)
        /\ Blank(Taken(h)) /\ h.mem[x].next = Nil
      BY <1>4, <2>1, TakenIs
  <2>3. /\ g.mem = [h.mem EXCEPT ![x].type = "HEAD"] /\ g.free = Taken(h).free
        /\ g.fresh = Taken(h).fresh
      BY <2>1, <2>2 DEF Heaps
  <2>4. g.mem \in [Cells -> Cell] /\ \A c \in Cells :
            /\ c # x => g.mem[c] = h.mem[c]
            /\ g.mem[c].next = h.mem[c].next
            /\ g.mem[x].type = "HEAD"
    <3> HIDE DEF g, x
    <3>1. h.mem[x] \in Cell
        BY <1>1, <2>2
    <3>2. [h.mem[x] EXCEPT !.type = "HEAD"] \in Cell
        BY <3>1 DEF Cell
    <3>3. g.mem = [h.mem EXCEPT ![x] = [h.mem[x] EXCEPT !.type = "HEAD"]]
        BY <2>3
    <3>4. /\ [h.mem[x] EXCEPT !.type = "HEAD"].type = "HEAD"
          /\ [h.mem[x] EXCEPT !.type = "HEAD"].next = h.mem[x].next
        BY <3>1 DEF Cell
    <3> QED BY <1>1, <2>2, <3>2, <3>3, <3>4
  <2>5. g \in Heaps
      BY <2>1, <2>2, <2>3, <2>4 DEF Heaps
  <2>6. <<x>> \in Seq(Cells) /\ Len(<<x>>) = 1 /\ <<x>>[1] = x /\ ToSet(<<x>>) = {x}
      BY <2>2 DEF ToSet
  <2>7. dh \in [Bs -> Seq(Cells)] /\ Apart(dh, g.free, g.fresh)
    <3>1. ToSet(ch[b]) = {}
        BY <1>1, <1>2, <1>4, Elements
    <3>2. ToSet(<<x>>) = ToSet(ch[b]) \cup {x}
        BY <2>6, <3>1
    <3> QED BY <1>1, <2>2, <2>3, <2>6, <3>2
  <2>8. ASSUME NEW d \in Bs
        PROVE  Linked(g, [tops EXCEPT ![b] = x][d], dh[d]) /\ Cast(g, d, dh[d])
    <3>1. CASE d = b
      <4>1. dh[d] = <<x>> /\ [tops EXCEPT ![b] = x][d] = x
          BY <1>1, <3>1
      <4>2. Linked(g, x, <<x>>)
          BY <2>2, <2>4, <2>6 DEF Linked, Once
      <4>3. Cast(g, d, <<x>>)
          BY <2>2, <2>4, <2>6 DEF Cast
      <4> QED BY <4>1, <4>2, <4>3
    <3>2. CASE d # b
      <4>1. dh[d] = ch[d] /\ [tops EXCEPT ![b] = x][d] = tops[d]
          BY <1>1, <3>2
      <4>2. \A c \in ToSet(ch[d]) : c \in Cells /\ c # x
          BY <1>1, <2>2, Elements
      <4>3. \A c \in ToSet(ch[d]) : g.mem[c] = h.mem[c]
          BY <2>4, <4>2
      <4>4. Linked(g, tops[d], ch[d])
          BY <1>1, <4>3, LinkedKept
      <4>5. Cast(g, d, ch[d])
        <5>1. ch[d] \in Seq(Cells)
            BY <1>1
        <5> QED BY <1>1, <4>3, <5>1, CastKept
      <4> QED BY <4>1, <4>4, <4>5
    <3> QED BY <3>1, <3>2
  <2>9. Blank(g)
    <3>1. \A c \in ToSet(g.free) : c \in Cells
        BY <2>5, Elements DEF Heaps
    <3> QED BY <2>2, <2>3, <2>4, <3>1 DEF Blank
  <2>10. Sound(g, [tops EXCEPT ![b] = x], dh)
    <3>1. [tops EXCEPT ![b] = x] \in [Bs -> Cells \cup {Nil}]
        BY <1>1, <2>2
    <3> HIDE DEF dh, g, x
    <3> QED BY <2>5, <2>7, <2>8, <2>9, <3>1 DEF Sound
  <2>11. Nodes(g, dh) = Nodes(h, ch) /\ \A c \in Nodes(h, ch) : g.mem[c] = h.mem[c]
    <3>1. \A d \in Bs : dh[d] = IF d = b THEN <<x>> ELSE ch[d]
        BY <1>1
    <3>2. ToSet(ch[b]) = {}
        BY <1>1, <1>2, <1>4, Elements
    <3> HIDE DEF dh, g, x
    <3> QED BY <2>2, <2>4, <2>6, <3>1, <3>2 DEF Nodes
  <2>12. dh[b] # << >>
      BY <1>1, <2>6
  <2>13. g.fresh <= h.fresh + 1 /\ (h.free = << >> => g.free = << >>)
      BY <2>2, <2>3
  <2> HIDE DEF dh
  <2> QED BY <2>10, <2>11, <2>12, <2>13 DEF Headed
<1> QED BY <1>3, <1>4

\* bucket_put.
LEMMA WithNodeSound ==
    ASSUME NEW h, NEW tops, NEW ch, Sound(h, tops, ch), h.fresh <= MaxCells,
           NEW k \in Keys, NEW v \in Vals, ch[Bucket(k)] # << >>,
           NULL \notin Vals => \A c \in Nodes(h, ch) : ~NodeOf(h, c, k)
    PROVE  LET g == WithNode(h, tops[Bucket(k)], k, v)
           IN  /\ h.free = << >> \/ Tail(h.free) = << >> => g.free = << >>
               /\ \E dh, n : /\ Sound(g, tops, dh)
                             /\ n \in Cells \ Nodes(h, ch)
                             /\ Nodes(g, dh) = Nodes(h, ch) \cup {n}
                             /\ NodeOf(g, n, k) /\ g.mem[n].val = v
                             /\ \A c \in Nodes(h, ch) :
                                   /\ g.mem[c].type = h.mem[c].type
                                   /\ g.mem[c].key = h.mem[c].key
                                   /\ g.mem[c].val = h.mem[c].val
<1> DEFINE b == Bucket(k)
           s == ch[b]
           m == Len(s)
           n == NextCell(h)
           t == Taken(h)
           node == [type |-> "NODE", key |-> k, val |-> v, next |-> Nil]
           g == WithNode(h, tops[b], k, v)
           dh == [ch EXCEPT ![b] = Append(s, n)]
<1>1. /\ h \in Heaps /\ tops \in [Bs -> Cells \cup {Nil}]
      /\ ch \in [Bs -> Seq(Cells)] /\ h.mem \in [Cells -> Cell]
      /\ \A d \in Bs : Linked(h, tops[d], ch[d]) /\ Cast(h, d, ch[d])
      /\ b \in Bs
    BY BucketIs DEF Sound, Heaps
<1>2. /\ n \in Cells /\ \A d \in Bs : n \notin ToSet(ch[d])
      /\ t \in Heaps /\ t.mem = h.mem
      /\ h.free = << >> \/ Tail(h.free) = << >> => t.free = << >>
      /\ \A d \in Bs, u \in Seq(Cells) :
            ToSet(u) = ToSet(ch[d]) \cup {n} => Apart([ch EXCEPT ![d] = u], t.free, t.fresh)
      /\ Blank(t)
    BY TakenIs
<1>3. /\ s \in Seq(Cells) /\ Once(s) /\ m \in Nat \ {0} /\ Chain(h, tops[b]) = s
      /\ Linked(h, tops[b], s) /\ Cast(h, b, s)
  <2>1. Chain(h, tops[b]) = s
      BY <1>1, ChainIs
  <2> QED BY <1>1, <2>1 DEF Linked
<1>4. s[m] \in Cells /\ s[m] \in ToSet(s) /\ s[m] # n
  <2>1. m \in 1 .. m
      BY <1>3
  <2> QED BY <1>1, <1>2, <1>3, <2>1, Elements
<1>5. /\ g.mem = [[h.mem EXCEPT ![s[m]] = [h.mem[s[m]] EXCEPT !.next = n]] EXCEPT ![n] = node]
      /\ g.free = t.free /\ g.fresh = t.fresh
      /\ g = [mem |-> g.mem, free |-> g.free, fresh |-> g.fresh]
  <2>1. Last(s) = s[m]
      BY DEF Last
  <2>2. t = [mem |-> t.mem, free |-> t.free, fresh |-> t.fresh]
      BY <1>2 DEF Heaps
  <2>3. g = [t EXCEPT !.mem = [[t.mem EXCEPT ![s[m]].next = n] EXCEPT ![n] = node]]
      BY <1>3, <2>1 DEF WithNode
  <2> HIDE DEF g, t, n, node
  <2> QED BY <1>2, <2>2, <2>3
<1>6. /\ g.mem \in [Cells -> Cell] /\ g.mem[n] = node
      /\ \A c \in Cells : c # n => /\ g.mem[c].type = h.mem[c].type
                                   /\ g.mem[c].key = h.mem[c].key
                                   /\ g.mem[c].val = h.mem[c].val
                                   /\ g.mem[c].next = IF c = s[m] THEN n ELSE h.mem[c].next
  <2> DEFINE last == [h.mem[s[m]] EXCEPT !.next = n]
  <2>1. node \in Cell
      BY DEF Cell
  <2>2. last \in Cell /\ /\ last.type = h.mem[s[m]].type
                         /\ last.key = h.mem[s[m]].key
                         /\ last.val = h.mem[s[m]].val
                         /\ last.next = n
    <3>1. h.mem[s[m]] \in Cell
        BY <1>1, <1>4
    <3> HIDE DEF n
    <3> QED BY <1>2, <3>1 DEF Cell
  <2> HIDE DEF g, n, node, last, s, m
  <2>3. g.mem = [[h.mem EXCEPT ![s[m]] = last] EXCEPT ![n] = node]
      BY <1>5 DEF last
  <2>4. g.mem \in [Cells -> Cell]
        /\ \A c \in Cells : g.mem[c] = IF c = n THEN node ELSE IF c = s[m] THEN last ELSE h.mem[c]
      BY <1>1, <1>2, <1>4, <2>1, <2>2, <2>3
  <2> QED BY <1>2, <1>4, <2>2, <2>4
<1>N. node.type = "NODE" /\ node.key = k /\ node.val = v /\ node.next = Nil
    OBVIOUS
<1> HIDE DEF n, t, g, node
<1>7. g \in Heaps
    BY <1>2, <1>5, <1>6 DEF Heaps
<1>8. /\ Append(s, n) \in Seq(Cells) /\ Len(Append(s, n)) = m + 1
      /\ Once(Append(s, n)) /\ ToSet(Append(s, n)) = ToSet(s) \cup {n}
    BY <1>1, <1>2, <1>3, AppendFacts
<1>9. Append(s, n)[m + 1] = n /\ \A i \in 1 .. m : Append(s, n)[i] = s[i]
    BY <1>2, <1>3, AppendProperties
<1>10. dh \in [Bs -> Seq(Cells)] /\ Apart(dh, g.free, g.fresh)
       /\ \A d \in Bs : dh[d] = IF d = b THEN Append(s, n) ELSE ch[d]
    BY <1>1, <1>2, <1>5, <1>8
<1>11. Blank(g)
  <2>1. \A c \in Cells : c >= g.fresh => c # s[m]
    <3>1. \A c \in Cells : c < g.fresh <=> c \in ToSet(g.free) \/ \E d \in Bs : c \in ToSet(dh[d])
        BY <1>10 DEF Apart
    <3>2. s[m] < g.fresh
        BY <1>1, <1>4, <1>8, <1>10, <3>1
    <3>3. g.fresh \in Int /\ s[m] \in Int
        BY <1>4, <1>7 DEF Heaps, Cells
    <3> QED BY <3>2, <3>3
  <2>2. \A c \in ToSet(g.free) : c \in Cells /\ c # s[m]
    <3>1. ToSet(dh[b]) \cap ToSet(g.free) = {}
        BY <1>1, <1>10 DEF Apart
    <3>2. g.free \in Seq(Cells)
        BY <1>7 DEF Heaps
    <3> QED BY <1>1, <1>4, <1>8, <1>10, <3>1, <3>2, Elements
  <2>3. ASSUME NEW c \in Cells, c # s[m], h.mem[c].next = Nil PROVE g.mem[c].next = Nil
      BY <1>6, <1>N, <2>3
  <2> QED BY <1>2, <1>5, <2>1, <2>2, <2>3 DEF Blank
<1>12. ASSUME NEW d \in Bs, d # b PROVE Linked(g, tops[d], dh[d]) /\ Cast(g, d, dh[d])
  <2>1. s[m] \notin ToSet(ch[d])
      BY <1>1, <1>4, <1>12 DEF Sound, Apart
  <2>2. ch[d] \in Seq(Cells) /\ \A c \in ToSet(ch[d]) : c \in Cells /\ c # n /\ c # s[m]
      BY <1>1, <1>2, <2>1, Elements
  <2>3. Linked(g, tops[d], ch[d])
      BY <1>1, <1>6, <2>2, LinkedKept
  <2>4. Cast(g, d, ch[d])
      BY <1>1, <1>6, <2>2, CastKept
  <2> QED BY <1>10, <1>12, <2>3, <2>4
<1>13. Linked(g, tops[b], Append(s, n))
  <2>1. tops[b] = s[1] /\ Append(s, n)[1] = s[1] /\ Append(s, n) # << >>
      BY <1>3, <1>8, <1>9 DEF Linked
  <2>2. ASSUME NEW i \in 1 .. m + 1
        PROVE  g.mem[Append(s, n)[i]].next = IF i = m + 1 THEN Nil ELSE Append(s, n)[i + 1]
    <3>1. CASE i = m + 1
        BY <1>6, <1>9, <1>N, <3>1
    <3>2. CASE i = m
        BY <1>3, <1>4, <1>6, <1>9, <3>2
    <3>3. CASE i \in 1 .. m - 1
      <4>1. i \in 1 .. m /\ i + 1 \in 1 .. m /\ i # m /\ m \in 1 .. m
          BY <1>3, <3>3
      <4>2. s[i] # s[m] /\ s[i] \in Cells /\ s[i] # n
        <5>1. s[i] \in Cells /\ s[i] \in ToSet(s)
            BY <1>3, <4>1, Elements
        <5> QED BY <1>1, <1>2, <1>3, <4>1, <5>1 DEF Once
      <4>3. h.mem[s[i]].next = s[i + 1]
          BY <1>3, <4>1 DEF Linked
      <4> QED BY <1>6, <1>9, <4>1, <4>2, <4>3
    <3> QED BY <1>3, <3>1, <3>2, <3>3
  <2> QED BY <1>8, <2>1, <2>2 DEF Linked
<1>14. Cast(g, b, Append(s, n))
  <2>1. ASSUME NEW i \in 1 .. m PROVE s[i] \in Cells /\ s[i] # n
      BY <1>1, <1>2, <1>3, Elements
  <2>2. ASSUME NEW i \in 1 .. m + 1
        PROVE  IF i = 1 THEN g.mem[Append(s, n)[i]].type = "HEAD"
               ELSE /\ g.mem[Append(s, n)[i]].type = "NODE"
                    /\ g.mem[Append(s, n)[i]].key \in Keys
                    /\ Bucket(g.mem[Append(s, n)[i]].key) = b
    <3>1. CASE i = m + 1
      <4>1. i # 1
          BY <1>3, <3>1
      <4> QED BY <1>6, <1>9, <1>N, <3>1, <4>1
    <3>2. CASE i \in 1 .. m
        BY <1>3, <1>6, <1>9, <2>1, <3>2 DEF Cast
    <3> QED BY <1>3, <3>1, <3>2
  <2>3. ASSUME NULL \notin Vals, NEW q \in Keys, NEW c \in ToSet(Append(s, n)),
               NEW d \in ToSet(Append(s, n)), NodeOf(g, c, q), NodeOf(g, d, q)
        PROVE  c = d
    <3>1. ASSUME NEW e \in ToSet(s), NodeOf(g, e, q)
          PROVE  NodeOf(h, e, q) /\ q # k
      <4>1. e \in Cells /\ e # n
          BY <1>1, <1>2, <1>3, Elements
      <4>2. NodeOf(h, e, q)
          BY <1>6, <3>1, <4>1 DEF NodeOf
      <4>3. e \in Nodes(h, ch)
          BY <1>1, <4>1, <4>2 DEF Nodes, NodeOf
      <4> QED BY <2>3, <4>2, <4>3
    <3>2. NodeOf(g, n, q) => q = k
        BY <1>6, <1>N DEF NodeOf
    <3>3. CASE c \in ToSet(s) /\ d \in ToSet(s)
        BY <1>3, <2>3, <3>1, <3>3 DEF Cast
    <3> QED BY <1>8, <2>3, <3>1, <3>2, <3>3
  <2>4. ASSUME NULL \notin Vals, NEW i \in 1 .. m + 1, i # 1
        PROVE  g.mem[Append(s, n)[i]].val # NULL
    <3>1. CASE i = m + 1
        BY <1>6, <1>9, <1>N, <2>4, <3>1
    <3>2. CASE i \in 1 .. m
        BY <1>3, <1>6, <1>9, <2>1, <2>4, <3>2 DEF Cast
    <3> QED BY <1>3, <3>1, <3>2
  <2> QED BY <1>8, <2>2, <2>3, <2>4 DEF Cast
<1>15. Sound(g, tops, dh)
  <2>1. \A d \in Bs : Linked(g, tops[d], dh[d]) /\ Cast(g, d, dh[d])
      BY <1>10, <1>12, <1>13, <1>14
  <2> HIDE DEF dh
  <2> QED BY <1>1, <1>7, <1>10, <1>11, <2>1 DEF Sound
<1>16. n \in Cells \ Nodes(h, ch)
    BY <1>2 DEF Nodes
<1>17. Nodes(g, dh) = Nodes(h, ch) \cup {n}
  <2>1. \A c \in Cells : (\E d \in Bs : c \in ToSet(dh[d])) <=>
                         c = n \/ \E d \in Bs : c \in ToSet(ch[d])
      BY <1>1, <1>8, <1>10
  <2> QED BY <1>2, <1>6, <1>N, <2>1 DEF Nodes
<1>18. NodeOf(g, n, k) /\ g.mem[n].val = v
    BY <1>6, <1>N DEF NodeOf
<1>19. \A c \in Nodes(h, ch) : /\ g.mem[c].type = h.mem[c].type
                               /\ g.mem[c].key = h.mem[c].key
                               /\ g.mem[c].val = h.mem[c].val
  <2>1. \A c \in Nodes(h, ch) : c \in Cells /\ c # n
      BY <1>16 DEF Nodes
  <2> QED BY <1>6, <2>1
<1>20. h.free = << >> \/ Tail(h.free) = << >> => g.free = << >>
    BY <1>2, <1>5
<1> HIDE DEF dh
<1> QED BY <1>15, <1>16, <1>17, <1>18, <1>19, <1>20 DEF g, b

\* What free does to cells that are not free.
LEMMA ReleasedIs ==
    ASSUME NEW h \in Heaps, Once(h.free), NEW s \in Seq(Cells), Once(s),
           ToSet(s) \cap ToSet(h.free) = {}
    PROVE  LET g == Released(h, s)
           IN  /\ g \in Heaps /\ g.fresh = h.fresh /\ Once(g.free)
               /\ ToSet(g.free) = ToSet(s) \cup ToSet(h.free)
               /\ \A c \in Cells :
                     g.mem[c] = IF Zeroing /\ c \in ToSet(s) THEN Zeroed ELSE h.mem[c]
<1> DEFINE g == Released(h, s)
           M == [c \in Cells |-> IF Zeroing /\ Contains(s, c) THEN Zeroed ELSE h.mem[c]]
<1>1. /\ h.mem \in [Cells -> Cell] /\ h.free \in Seq(Cells)
      /\ h = [mem |-> h.mem, free |-> h.free, fresh |-> h.fresh]
    BY DEF Heaps
<1>2. /\ Reverse(s) \o h.free \in Seq(Cells) /\ Once(Reverse(s) \o h.free)
      /\ ToSet(Reverse(s) \o h.free) = ToSet(s) \cup ToSet(h.free)
  <2>1. Reverse(s) \in Seq(Cells) /\ Once(Reverse(s)) /\ ToSet(Reverse(s)) = ToSet(s)
      BY ReverseFacts
  <2> QED BY <1>1, <2>1, ConcatFacts
<1>3. g.mem = M /\ g.free = Reverse(s) \o h.free /\ g.fresh = h.fresh
      /\ g = [mem |-> g.mem, free |-> g.free, fresh |-> g.fresh]
  <2>1. g = [[h EXCEPT !.free = Reverse(s) \o @] EXCEPT !.mem = M]
      BY <1>1 DEF Released
  <2> HIDE DEF M, g
  <2>2. g = [mem |-> M, free |-> Reverse(s) \o h.free, fresh |-> h.fresh]
      BY <1>1, <2>1
  <2> QED BY <2>2
<1>4. \A c \in Cells : Contains(s, c) <=> c \in ToSet(s)
    BY Elements DEF Contains
<1>5. Zeroed \in Cell
    BY DEF Zeroed, Cell, Nil
<1>6. M \in [Cells -> Cell]
    BY <1>1, <1>5
<1>7. \A c \in Cells : M[c] = IF Zeroing /\ c \in ToSet(s) THEN Zeroed ELSE h.mem[c]
    BY <1>4
<1> HIDE DEF M, g
<1>8. g \in Heaps
    BY <1>2, <1>3, <1>6 DEF Heaps
<1> QED BY <1>2, <1>3, <1>7, <1>8 DEF g

\* hash_table_delete, of a key that has a node.
LEMMA UnlinkedSound ==
    ASSUME NEW h, NEW tops, NEW ch, Sound(h, tops, ch), NEW k \in Keys,
           Has(h, tops, k)
    PROVE  LET g == Unlinked(h, tops, k)
           IN  /\ g.fresh = h.fresh /\ (h.free = << >> => Tail(g.free) = << >>)
               /\ \E dh, c : /\ Sound(g, tops, dh)
                             /\ c \in Nodes(h, ch) /\ NodeOf(h, c, k)
                             /\ Nodes(g, dh) = Nodes(h, ch) \ {c}
                             /\ \A d \in Nodes(g, dh) :
                                   /\ g.mem[d].type = h.mem[d].type
                                   /\ g.mem[d].key = h.mem[d].key
                                   /\ g.mem[d].val = h.mem[d].val
                             /\ dh[Bucket(k)] # << >>
<1> DEFINE b == Bucket(k)
           s == ch[b]
           m == Len(s)
           j == Where(h, s, k)
           g == Unlinked(h, tops, k)
           w == Without(s, j)
           dh == [ch EXCEPT ![b] = w]
           t == [h EXCEPT !.mem[s[j - 1]].next = h.mem[s[j]].next]
<1>1. /\ h \in Heaps /\ tops \in [Bs -> Cells \cup {Nil}]
      /\ ch \in [Bs -> Seq(Cells)] /\ h.mem \in [Cells -> Cell]
      /\ \A d \in Bs : Linked(h, tops[d], ch[d]) /\ Cast(h, d, ch[d])
      /\ b \in Bs /\ Apart(ch, h.free, h.fresh) /\ Blank(h)
    BY BucketIs DEF Sound, Heaps
<1>2. /\ s \in Seq(Cells) /\ Once(s) /\ m \in Nat /\ Chain(h, tops[b]) = s
      /\ Linked(h, tops[b], s) /\ Cast(h, b, s)
  <2>1. Chain(h, tops[b]) = s
      BY <1>1, ChainIs
  <2>2. m \in Nat
      BY <1>1, Elements
  <2> QED BY <1>1, <2>1, <2>2 DEF Linked
<1>3. j \in 1 .. m /\ j # 1 /\ s[j] \in Nodes(h, ch) /\ NodeOf(h, s[j], k)
    BY FoundIs
<1>4. g = Released(t, <<s[j]>>)
    BY <1>2, <1>3 DEF Unlinked
<1> HIDE DEF j
<1>5. /\ j \in 2 .. m /\ j - 1 \in 1 .. m /\ m - 1 \in Nat \ {0} /\ j - 1 # j
    BY <1>2, <1>3
<1> HIDE DEF t, g, b
<1>6. /\ s[j] \in Cells /\ s[j - 1] \in Cells /\ s[j - 1] # s[j]
      /\ s[j] \in ToSet(s) /\ s[j - 1] \in ToSet(s)
  <2>1. s[j] \in Cells /\ s[j - 1] \in Cells /\ s[j] \in ToSet(s) /\ s[j - 1] \in ToSet(s)
      BY <1>2, <1>3, <1>5, Elements
  <2> QED BY <1>2, <1>3, <1>5, <2>1 DEF Once
<1>7. /\ t \in Heaps /\ t.free = h.free /\ t.fresh = h.fresh
      /\ \A c \in Cells : /\ t.mem[c].type = h.mem[c].type
                          /\ t.mem[c].key = h.mem[c].key
                          /\ t.mem[c].val = h.mem[c].val
                          /\ t.mem[c].next = IF c = s[j - 1] THEN h.mem[s[j]].next
                                             ELSE h.mem[c].next
  <2> DEFINE prev == [h.mem[s[j - 1]] EXCEPT !.next = h.mem[s[j]].next]
             M == [h.mem EXCEPT ![s[j - 1]] = prev]
  <2>1. h = [mem |-> h.mem, free |-> h.free, fresh |-> h.fresh]
      BY <1>1 DEF Heaps
  <2>2. prev \in Cell /\ /\ prev.type = h.mem[s[j - 1]].type
                         /\ prev.key = h.mem[s[j - 1]].key
                         /\ prev.val = h.mem[s[j - 1]].val
                         /\ prev.next = h.mem[s[j]].next
    <3>1. h.mem[s[j - 1]] \in Cell /\ h.mem[s[j]] \in Cell
        BY <1>1, <1>6
    <3> QED BY <3>1 DEF Cell
  <2>3. t = [h EXCEPT !.mem = M]
      BY DEF t
  <2> HIDE DEF prev
  <2>4. M \in [Cells -> Cell]
        /\ \A c \in Cells : M[c] = IF c = s[j - 1] THEN prev ELSE h.mem[c]
      BY <1>1, <1>6, <2>2
  <2> HIDE DEF M
  <2>5. t = [mem |-> M, free |-> h.free, fresh |-> h.fresh]
      BY <2>1, <2>3
  <2>6. t \in Heaps
      BY <1>1, <2>4, <2>5 DEF Heaps
  <2> QED BY <2>2, <2>4, <2>5, <2>6
<1>8. <<s[j]>> \in Seq(Cells) /\ Once(<<s[j]>>) /\ ToSet(<<s[j]>>) = {s[j]}
    BY <1>6 DEF Once, ToSet
<1>9. /\ g \in Heaps /\ g.fresh = h.fresh /\ Once(g.free)
      /\ ToSet(g.free) = ToSet(h.free) \cup {s[j]}
      /\ \A c \in Cells : g.mem[c] = IF Zeroing /\ c = s[j] THEN Zeroed ELSE t.mem[c]
  <2>1. s[j] \notin ToSet(h.free) /\ Once(h.free)
      BY <1>1, <1>6 DEF Apart
  <2>2. Once(t.free) /\ ToSet(<<s[j]>>) \cap ToSet(t.free) = {}
      BY <1>7, <1>8, <2>1
  <2>3. /\ g \in Heaps /\ g.fresh = t.fresh /\ Once(g.free)
        /\ ToSet(g.free) = ToSet(<<s[j]>>) \cup ToSet(t.free)
        /\ \A c \in Cells : g.mem[c] =
              IF Zeroing /\ c \in ToSet(<<s[j]>>) THEN Zeroed ELSE t.mem[c]
      BY ZenonT(60), <1>4, <1>7, <1>8, <2>2, ReleasedIs
  <2> QED BY <1>7, <1>8, <2>3
<1>10. /\ w \in Seq(Cells) /\ Len(w) = m - 1 /\ Once(w) /\ ToSet(w) = ToSet(s) \ {s[j]}
       /\ \A i \in 1 .. m - 1 : w[i] = IF i < j THEN s[i] ELSE s[i + 1]
    BY <1>2, <1>3, WithoutFacts DEF Without
<1> HIDE DEF w
<1>11. dh \in [Bs -> Seq(Cells)] /\ \A d \in Bs : dh[d] = IF d = b THEN w ELSE ch[d]
    BY <1>1, <1>10
<1> HIDE DEF dh
<1>12. \A c \in Cells : c # s[j] =>
           /\ g.mem[c].type = h.mem[c].type
           /\ g.mem[c].key = h.mem[c].key
           /\ g.mem[c].val = h.mem[c].val
           /\ g.mem[c].next = IF c = s[j - 1] THEN h.mem[s[j]].next ELSE h.mem[c].next
    BY <1>7, <1>9
<1>13. Apart(dh, g.free, g.fresh)
  <2>1. \A d \in Bs : ToSet(dh[d]) \cap ToSet(g.free) = {}
      BY <1>1, <1>6, <1>9, <1>10, <1>11 DEF Apart
  <2>2. \A d, e \in Bs : d # e => ToSet(dh[d]) \cap ToSet(dh[e]) = {}
      BY <1>1, <1>10, <1>11 DEF Apart
  <2>3. \A c \in Cells : (c \in ToSet(g.free) \/ \E d \in Bs : c \in ToSet(dh[d]))
                     <=> (c \in ToSet(h.free) \/ \E d \in Bs : c \in ToSet(ch[d]))
      BY <1>1, <1>6, <1>9, <1>10, <1>11
  <2> QED BY <1>1, <1>9, <2>1, <2>2, <2>3 DEF Apart
<1>14. Blank(g)
  <2>1. s[j] < h.fresh /\ s[j - 1] < h.fresh
      BY <1>1, <1>6 DEF Apart
  <2>2. \A c \in Cells : c >= h.fresh => c # s[j] /\ c # s[j - 1]
      BY <1>1, <1>6, <2>1 DEF Cells, Heaps
  <2>3. s[j - 1] \notin ToSet(h.free) /\ \A c \in ToSet(h.free) : c \in Cells
      BY <1>1, <1>6, Elements DEF Apart, Heaps
  <2>4. Zeroed.next = Nil
      BY DEF Zeroed
  <2>5. ASSUME Zeroing, NEW c \in ToSet(g.free) PROVE g.mem[c].next = Nil
    <3>1. CASE c = s[j]
        BY <1>6, <1>9, <2>4, <2>5, <3>1
    <3>2. CASE c # s[j]
        BY <1>1, <1>9, <1>12, <2>3, <2>5, <3>2 DEF Blank
    <3> QED BY <3>1, <3>2
  <2> QED BY <1>1, <1>9, <1>12, <2>2, <2>5 DEF Blank
<1>15. ASSUME NEW d \in Bs, d # b PROVE Linked(g, tops[d], dh[d]) /\ Cast(g, d, dh[d])
  <2>1. s[j] \notin ToSet(ch[d]) /\ s[j - 1] \notin ToSet(ch[d])
      BY <1>1, <1>6, <1>15 DEF Apart
  <2>2. ch[d] \in Seq(Cells) /\ \A c \in ToSet(ch[d]) : c \in Cells /\ c # s[j] /\ c # s[j - 1]
      BY <1>1, <2>1, Elements
  <2>3. Linked(g, tops[d], ch[d])
      BY <1>1, <1>12, <2>2, LinkedKept
  <2>4. Cast(g, d, ch[d])
      BY <1>1, <1>12, <2>2, CastKept
  <2> QED BY <1>11, <1>15, <2>3, <2>4
<1>16. \A i \in 1 .. m - 1 : w[i] \in Cells /\ w[i] # s[j] /\ w[i] \in ToSet(w)
    BY <1>10, Elements
<1>17. Linked(g, tops[b], w)
  <2>1. tops[b] = w[1] /\ w # << >>
    <3>1. tops[b] = s[1] /\ 1 \in 1 .. m - 1 /\ 1 < j
        BY <1>2, <1>5 DEF Linked
    <3> QED BY <1>5, <1>10, <3>1
  <2>2. ASSUME NEW i \in 1 .. m - 1
        PROVE  g.mem[w[i]].next = IF i = m - 1 THEN Nil ELSE w[i + 1]
    <3>1. g.mem[w[i]].next = IF w[i] = s[j - 1] THEN h.mem[s[j]].next ELSE h.mem[w[i]].next
        BY <1>12, <1>16
    <3>2. \A x \in 1 .. m : h.mem[s[x]].next = IF x = m THEN Nil ELSE s[x + 1]
        BY <1>2 DEF Linked
    <3>3. CASE i = j - 1
      <4>1. w[i] = s[j - 1]
          BY <1>5, <1>10, <3>3
      <4>2. j # m => i # m - 1 /\ i + 1 \in 1 .. m - 1 /\ w[i + 1] = s[j + 1]
          BY <1>2, <1>5, <1>10, <3>3
      <4> QED BY <1>2, <1>3, <1>5, <3>1, <3>2, <3>3, <4>1, <4>2
    <3>4. CASE i < j - 1
      <4>1. w[i] = s[i] /\ i \in 1 .. m /\ i # m /\ i # m - 1 /\ i + 1 \in 1 .. m - 1
            /\ w[i + 1] = s[i + 1] /\ i # j - 1
          BY <1>5, <1>10, <3>4
      <4>2. s[i] # s[j - 1]
          BY <1>2, <1>5, <4>1 DEF Once
      <4> QED BY <3>1, <3>2, <4>1, <4>2
    <3>5. CASE i > j - 1
      <4>1. w[i] = s[i + 1] /\ i + 1 \in 1 .. m /\ i + 1 # j - 1 /\ (i + 1 = m <=> i = m - 1)
          BY <1>5, <1>10, <3>5
      <4>2. i # m - 1 => w[i + 1] = s[(i + 1) + 1]
        <5>1. i # m - 1 => i + 1 \in 1 .. m - 1 /\ ~(i + 1 < j)
            BY <1>5, <3>5
        <5> QED BY <1>10, <5>1
      <4>3. s[i + 1] # s[j - 1]
          BY <1>2, <1>5, <4>1 DEF Once
      <4> QED BY <3>1, <3>2, <4>1, <4>2, <4>3
    <3> QED BY <1>5, <3>3, <3>4, <3>5
  <2> QED BY <1>10, <2>1, <2>2 DEF Linked
<1>18. Cast(g, b, w)
  <2>1. ASSUME NEW i \in 1 .. m - 1
        PROVE  \E x \in 1 .. m : w[i] = s[x] /\ (x = 1 <=> i = 1)
    <3>1. CASE i < j
      <4>1. i \in 1 .. m /\ w[i] = s[i]
          BY <1>2, <1>10, <3>1
      <4> QED BY <4>1
    <3>2. CASE ~(i < j)
      <4>1. i + 1 \in 1 .. m /\ w[i] = s[i + 1] /\ i # 1 /\ i + 1 # 1
          BY <1>5, <1>10, <3>2
      <4> QED BY <4>1
    <3> QED BY <3>1, <3>2
  <2>2. ASSUME NEW i \in 1 .. m - 1
        PROVE  IF i = 1 THEN g.mem[w[i]].type = "HEAD"
               ELSE /\ g.mem[w[i]].type = "NODE" /\ g.mem[w[i]].key \in Keys
                    /\ Bucket(g.mem[w[i]].key) = b
                    /\ NULL \notin Vals => g.mem[w[i]].val # NULL
    <3>1. PICK x \in 1 .. m : w[i] = s[x] /\ (x = 1 <=> i = 1)
        BY <2>1
    <3> QED BY <1>2, <1>12, <1>16, <3>1 DEF Cast
  <2>3. ASSUME NULL \notin Vals, NEW q \in Keys, NEW c \in ToSet(w), NEW d \in ToSet(w),
               NodeOf(g, c, q), NodeOf(g, d, q)
        PROVE  c = d
    <3>1. \A e \in ToSet(w) : e \in ToSet(s) /\ (NodeOf(g, e, q) => NodeOf(h, e, q))
        BY <1>2, <1>10, <1>12, Elements DEF NodeOf
    <3> QED BY <1>2, <2>3, <3>1 DEF Cast
  <2> QED BY <1>10, <2>2, <2>3 DEF Cast
<1>19. Sound(g, tops, dh)
  <2>1. \A d \in Bs : Linked(g, tops[d], dh[d]) /\ Cast(g, d, dh[d])
      BY <1>11, <1>15, <1>17, <1>18
  <2> QED BY <1>1, <1>9, <1>11, <1>13, <1>14, <2>1 DEF Sound
<1>20. Nodes(g, dh) = Nodes(h, ch) \ {s[j]}
  <2>1. \A c \in Cells : (\E d \in Bs : c \in ToSet(dh[d])) <=>
                         c # s[j] /\ \E d \in Bs : c \in ToSet(ch[d])
    <3>1. \A d \in Bs : d # b => s[j] \notin ToSet(ch[d])
        BY <1>1, <1>6 DEF Apart
    <3> QED BY <1>1, <1>10, <1>11, <3>1
  <2> QED BY <1>12, <2>1 DEF Nodes
<1>21. \A d \in Nodes(g, dh) : /\ g.mem[d].type = h.mem[d].type
                               /\ g.mem[d].key = h.mem[d].key
                               /\ g.mem[d].val = h.mem[d].val
  <2>1. \A d \in Nodes(g, dh) : d \in Cells /\ d # s[j]
      BY <1>20 DEF Nodes
  <2> QED BY <1>12, <2>1
<1>22. dh[b] # << >>
    BY <1>1, <1>5, <1>10, <1>11
<1>23. h.free = << >> => Tail(g.free) = << >>
  <2>1. Reverse(<<s[j]>>) = <<s[j]>>
      BY DEF Reverse
  <2>2. t = [mem |-> t.mem, free |-> t.free, fresh |-> t.fresh]
      BY <1>7 DEF Heaps
  <2>3. g.free = <<s[j]>> \o h.free
    <3> HIDE DEF s
    <3> QED BY <1>4, <1>7, <2>1, <2>2 DEF Released
  <2>4. Tail(<<s[j]>> \o << >>) = << >>
      BY <1>6
  <2> QED BY <2>3, <2>4
<1> HIDE DEF s
<1> QED BY <1>3, <1>9, <1>19, <1>20, <1>21, <1>22, <1>23 DEF g, b

-----------------------------------------------------------------------------
(***************************************************************************)
(* All chains, one behind the other.                                       *)
(***************************************************************************)
\* The cells in the chains.
InChains(ch) == {c \in Cells : \E b \in Bs : c \in ToSet(ch[b])}

\* The loops of hash_table_destroy visit the cells of all chains, each once.
LEMMA ChainedCellsIs ==
    ASSUME NEW ch, Sound(Heap, top, ch)
    PROVE  /\ ChainedCells \in Seq(Cells) /\ Once(ChainedCells)
           /\ ToSet(ChainedCells) = InChains(ch)
<1> DEFINE S == Seq(Cells)
           W(f) == [b \in 0 .. Size |->
                       IF b = 0 THEN << >> ELSE f[b - 1] \o Chain(Heap, top[b - 1])]
           G == [n \in 1 .. Size |-> [w \in S |-> w \o ch[n - 1]]]
           U == CHOOSE f : f = W(f)
           Part(n) == {c \in Cells : \E b \in 0 .. n - 1 : c \in ToSet(ch[b])}
           Good(n) == Once(U[n]) /\ ToSet(U[n]) = Part(n)
           Z == {n \in Nat : n <= Size => U[n] \in S /\ Good(n)}
<1>1. /\ Size \in Nat \ {0} /\ \A n \in 1 .. Size : n - 1 \in Bs
      /\ \A n \in 0 .. Size : n # 0 => n \in 1 .. Size
    BY HeapAssumption DEF Bs
<1>2. ASSUME NEW b \in Bs PROVE Chain(Heap, top[b]) = ch[b] /\ ch[b] \in S /\ Once(ch[b])
    BY OfBucket
<1>3. \E f : f = W(f)
  <2>1. G \in [1 .. Size -> [S -> S]]
    <3>1. ASSUME NEW n \in 1 .. Size PROVE [w \in S |-> w \o ch[n - 1]] \in [S -> S]
      <4>1. ch[n - 1] \in S
          BY <1>1, <1>2
      <4>2. \A w \in S : w \o ch[n - 1] \in S
          BY <4>1
      <4> HIDE DEF S
      <4> QED BY <4>2
    <3> HIDE DEF S
    <3> QED BY <3>1
  <2>2. << >> \in S /\ Size \in Nat
      BY <1>1
  <2> HIDE DEF S
  <2>3. IsStepping(G, Size, S)
      BY <2>1 DEF IsStepping
  <2> HIDE DEF G
  <2>4. PICK f : Follows(f, Size, S, << >>, G)
      BY <2>2, <2>3, Recursion
  <2>5. f \in [0 .. Size -> S] /\ f[0] = << >> /\ \A n \in 1 .. Size : f[n] = G[n][f[n - 1]]
      BY <2>4 DEF Follows
  <2>6. ASSUME NEW n \in 0 .. Size PROVE f[n] = W(f)[n]
    <3>1. CASE n = 0
        BY <2>5, <3>1
    <3>2. CASE n # 0
      <4>1. n \in 1 .. Size /\ n - 1 \in 0 .. Size
          BY <1>1, <3>2
      <4>2. f[n - 1] \in S /\ f[n] = G[n][f[n - 1]]
          BY <2>5, <4>1
      <4>3. G[n][f[n - 1]] = f[n - 1] \o ch[n - 1]
          BY <4>1, <4>2 DEF G
      <4> QED BY <1>1, <1>2, <3>2, <4>1, <4>2, <4>3
    <3> QED BY <3>1, <3>2
  <2>7. f = [n \in 0 .. Size |-> f[n]] /\ W(f) = [n \in 0 .. Size |-> W(f)[n]]
      BY <2>5
  <2> HIDE DEF W
  <2> QED BY <2>6, <2>7
<1>4. U = W(U)
  <2> HIDE DEF W
  <2> QED BY <1>3, Zenon
<1>5. ChainedCells = U[Size]
    BY Zenon DEF ChainedCells
<1> HIDE DEF U
<1>6. U[0] = << >> /\ \A n \in 1 .. Size : U[n] = U[n - 1] \o ch[n - 1]
  <2>1. ASSUME NEW n \in 0 .. Size
        PROVE  U[n] = IF n = 0 THEN << >> ELSE U[n - 1] \o Chain(Heap, top[n - 1])
      BY <1>4, Zenon
  <2>2. 0 \in 0 .. Size /\ \A n \in 1 .. Size : n \in 0 .. Size /\ n # 0
      BY <1>1
  <2> QED BY <1>1, <1>2, <2>1, <2>2
<1>7. 0 \in Z
  <2>1. Once(<< >>) /\ ToSet(<< >>) = {} /\ Part(0) = {} /\ << >> \in S
    <3>1. 0 .. 0 - 1 = {}
        OBVIOUS
    <3> QED BY <3>1 DEF Once, ToSet
  <2> QED BY <1>6, <2>1
<1>8. ASSUME NEW n \in Z PROVE n + 1 \in Z
  <2> SUFFICES ASSUME n + 1 <= Size PROVE U[n + 1] \in S /\ Good(n + 1)
      OBVIOUS
  <2>1. n \in Nat /\ U[n] \in S /\ Good(n) /\ n \in Bs /\ n + 1 \in 1 .. Size /\ (n + 1) - 1 = n
      BY <1>1 DEF Bs
  <2>2. U[n + 1] = U[n] \o ch[n]
      BY <1>6, <2>1
  <2>3. \A b \in 0 .. n - 1 : b \in Bs /\ b # n
      BY <1>1, <2>1 DEF Bs
  <2>4. Part(n) \cap ToSet(ch[n]) = {}
      BY <2>1, <2>3 DEF Sound, Apart
  <2>5. Part(n + 1) = Part(n) \cup ToSet(ch[n])
    <3>1. 0 .. (n + 1) - 1 = (0 .. n - 1) \cup {n}
        BY <2>1
    <3>2. \A c \in ToSet(ch[n]) : c \in Cells
        BY <1>2, <2>1, Elements
    <3> QED BY <3>1, <3>2
  <2> HIDE DEF Part
  <2>6. /\ U[n] \o ch[n] \in S /\ Once(U[n] \o ch[n])
        /\ ToSet(U[n] \o ch[n]) = ToSet(U[n]) \cup ToSet(ch[n])
      BY <1>2, <2>1, <2>4, ConcatFacts
  <2> QED BY <2>1, <2>2, <2>5, <2>6
<1>9. Size \in Z
  <2>1. Z \in SUBSET Nat
      OBVIOUS
  <2> HIDE DEF Z
  <2> QED BY <1>1, <1>7, <1>8, <2>1, Induction
<1>10. Part(Size) = InChains(ch)
    BY DEF InChains, Bs
<1>11. U[Size] \in S /\ Good(Size)
  <2>1. Size <= Size
      BY <1>1
  <2> HIDE DEF Good, S
  <2> QED BY <1>9, <2>1
<1> QED BY <1>5, <1>10, <1>11

\* A sequence of the first n cells, each once, is n long.
LEMMA OnceLen ==
    ASSUME NEW s \in Seq(Cells), Once(s), NEW n \in Nat, ToSet(s) = 1 .. n
    PROVE  Len(s) = n
<1> DEFINE m == Len(s)
<1>1. m \in Nat /\ s \in [1 .. m -> 1 .. n]
  <2>1. m \in Nat /\ DOMAIN s = 1 .. m /\ s = [i \in 1 .. m |-> s[i]]
      OBVIOUS
  <2>2. \A i \in 1 .. m : s[i] \in 1 .. n
      BY Elements
  <2> QED BY <2>1, <2>2
<1>2. \A i \in Nat : IsFiniteSet(1 .. i) /\ Cardinality(1 .. i) = i
  <2>1. ASSUME NEW i \in Nat PROVE IsFiniteSet(1 .. i) /\ Cardinality(1 .. i) = i
    <3>1. 1 \in Int /\ i \in Int /\ (IF 1 > i THEN 0 ELSE i - 1 + 1) = i
        OBVIOUS
    <3> QED BY <3>1, FS_Interval
  <2> QED BY <2>1
<1>3. s \in Injection(1 .. m, 1 .. n)
    BY <1>1 DEF Injection, IsInjective, Once
<1>4. s \in Surjection(1 .. m, 1 .. n)
  <2>1. \A c \in 1 .. n : \E i \in 1 .. m : s[i] = c
      BY Elements
  <2> QED BY <1>1, <2>1 DEF Surjection
<1> HIDE DEF m
<1>5. Cardinality(1 .. m) <= Cardinality(1 .. n)
    BY <1>1, <1>2, <1>3, FS_Injection
<1>6. Cardinality(1 .. n) <= Cardinality(1 .. m)
    BY <1>1, <1>2, <1>4, FS_Surjection
<1>7. m <= n /\ n <= m
    BY <1>1, <1>2, <1>5, <1>6
<1>8. m = n
    BY <1>1, <1>7
<1> QED BY <1>8, Zenon DEF m

-----------------------------------------------------------------------------
(***************************************************************************)
(* The steps of the operations, as the dictionary's client sees them.      *)
(***************************************************************************)
\* What g says of the cells in C is what h says.
SameCells(h, g, C) ==
    \A c \in C : /\ g.mem[c].type = h.mem[c].type
                 /\ g.mem[c].key = h.mem[c].key
                 /\ g.mem[c].val = h.mem[c].val

\* From h to g the table loses the node c, or gains it, and keeps the others.
Loses(h, ch, g, dh, c) ==
    /\ c \in Nodes(h, ch) /\ Nodes(g, dh) = Nodes(h, ch) \ {c}
    /\ SameCells(h, g, Nodes(g, dh))
Gains(h, ch, g, dh, c) ==
    /\ c \in Cells \ Nodes(h, ch) /\ Nodes(g, dh) = Nodes(h, ch) \cup {c}
    /\ SameCells(h, g, Nodes(h, ch))

\* The table has finitely many nodes.
LEMMA NodesFinite ==
    ASSUME NEW h, NEW ch
    PROVE  IsFiniteSet(Nodes(h, ch)) /\ Cardinality(Nodes(h, ch)) \in Nat
<1>1. IsFiniteSet(Cells)
    BY HeapAssumption, FS_Interval DEF Cells
<1>2. Nodes(h, ch) \in SUBSET Cells
    BY DEF Nodes
<1>3. IsFiniteSet(Nodes(h, ch))
    BY <1>1, <1>2, FS_Subset
<1> QED BY <1>3, FS_CardinalityType

\* Without the node of k, only k is gone.
LEMMA FoundLess ==
    ASSUME NULL \notin Vals, NEW k \in Keys, NEW q \in Keys,
           NEW h, NEW tops, NEW ch, Sound(h, tops, ch),
           NEW g, NEW dh, Sound(g, tops, dh),
           NEW c, NodeOf(h, c, k), Loses(h, ch, g, dh, c)
    PROVE  Found(g, tops, q) = IF q = k THEN NULL ELSE Found(h, tops, q)
<1> USE DEF Loses
<1>1. \A d \in Nodes(g, dh) : /\ NodeOf(g, d, q) <=> NodeOf(h, d, q)
                              /\ g.mem[d].val = h.mem[d].val
    BY DEF SameCells, NodeOf
<1>2. CASE q = k
  <2>1. \A d \in Nodes(g, dh) : ~NodeOf(g, d, k)
      BY <1>1, <1>2, OneNode
  <2> DEFINE j == Where(g, dh[Bucket(k)], k)
  <2>2. /\ Found(g, tops, k) = IF j = 0 THEN NULL ELSE g.mem[dh[Bucket(k)][j]].val
        /\ j # 0 => dh[Bucket(k)][j] \in Nodes(g, dh) /\ NodeOf(g, dh[Bucket(k)][j], k)
      BY FoundIs
  <2> QED BY <1>2, <2>1, <2>2
<1>3. CASE q # k
  <2>1. ~NodeOf(h, c, q)
      BY <1>3 DEF NodeOf
  <2>2. \A d \in Cells : d \in Nodes(h, ch) /\ NodeOf(h, d, q) <=>
                         d \in Nodes(g, dh) /\ NodeOf(g, d, q)
      BY <1>1, <2>1
  <2>3. \A d \in Nodes(h, ch) : NodeOf(h, d, q) => g.mem[d].val = h.mem[d].val
      BY <1>1, <2>1
  <2>4. Found(g, tops, q) = Found(h, tops, q)
      BY <2>2, <2>3, SameFound
  <2> QED BY <1>3, <2>4
<1> QED BY <1>2, <1>3

\* With a node of k, only k has come.
LEMMA FoundMore ==
    ASSUME NULL \notin Vals, NEW k \in Keys, NEW q \in Keys,
           NEW h, NEW tops, NEW ch, Sound(h, tops, ch),
           NEW g, NEW dh, Sound(g, tops, dh),
           \A d \in Nodes(h, ch) : ~NodeOf(h, d, k),
           NEW c, NodeOf(g, c, k), Gains(h, ch, g, dh, c)
    PROVE  Found(g, tops, q) = IF q = k THEN g.mem[c].val ELSE Found(h, tops, q)
<1> USE DEF Gains
<1>1. \A d \in Nodes(h, ch) : /\ NodeOf(g, d, q) <=> NodeOf(h, d, q)
                              /\ g.mem[d].val = h.mem[d].val
    BY DEF SameCells, NodeOf
<1>2. CASE q = k
  <2> DEFINE j == Where(g, dh[Bucket(k)], k)
  <2>1. /\ Found(g, tops, k) = IF j = 0 THEN NULL ELSE g.mem[dh[Bucket(k)][j]].val
        /\ j # 0 => dh[Bucket(k)][j] \in Nodes(g, dh) /\ NodeOf(g, dh[Bucket(k)][j], k)
        /\ j = 0 => \A d \in Nodes(g, dh) : ~NodeOf(g, d, k)
      BY FoundIs
  <2>2. j # 0
      BY <2>1
  <2> HIDE DEF j
  <2>3. dh[Bucket(k)][j] = c
      BY <2>1, <2>2, OneNode
  <2> QED BY <1>2, <2>1, <2>2, <2>3
<1>3. CASE q # k
  <2>1. ~NodeOf(g, c, q)
      BY <1>3 DEF NodeOf
  <2>2. \A d \in Cells : d \in Nodes(h, ch) /\ NodeOf(h, d, q) <=>
                         d \in Nodes(g, dh) /\ NodeOf(g, d, q)
      BY <1>1, <2>1
  <2>3. Found(g, tops, q) = Found(h, tops, q)
      BY <1>1, <2>2, SameFound
  <2> QED BY <1>3, <2>3
<1> QED BY <1>2, <1>3

\* hash_table_put has removed the old entry.
LEMMA ReplacedSound ==
    ASSUME NEW h, NEW tops, NEW ch, Sound(h, tops, ch), NEW k \in Keys
    PROVE  LET g == Replaced(h, tops, k)
           IN  /\ g.fresh = h.fresh
               /\ h.free = << >> => g.free = << >> \/ Tail(g.free) = << >>
               /\ \E dh :
                     /\ Sound(g, tops, dh)
                     /\ h.free = << >> => g.free = << >> \/ dh[Bucket(k)] # << >>
                     /\ Cardinality(Nodes(h, ch)) = Cardinality(Nodes(g, dh))
                           + (IF Found(h, tops, k) # NULL THEN 1 ELSE 0)
                     /\ NULL \notin Vals =>
                           /\ \A c \in Nodes(g, dh) : ~NodeOf(g, c, k)
                           /\ \A q \in Keys \ {k} : Found(g, tops, q) = Found(h, tops, q)
<1> DEFINE g == Replaced(h, tops, k)
           b == Bucket(k)
           j == Where(h, ch[b], k)
<1>1. /\ Has(h, tops, k) <=> j # 0
      /\ Found(h, tops, k) = IF j = 0 THEN NULL ELSE h.mem[ch[b][j]].val
      /\ j = 0 => \A c \in Nodes(h, ch) : ~NodeOf(h, c, k)
      /\ NULL \notin Vals => (Found(h, tops, k) = NULL <=> j = 0)
    BY FoundIs
<1> HIDE DEF j
<1>2. CASE Found(h, tops, k) = NULL
  <2>1. g = h
      BY <1>2 DEF Replaced
  <2>2. Cardinality(Nodes(h, ch)) \in Nat
      BY NodesFinite
  <2>3. Cardinality(Nodes(h, ch)) = Cardinality(Nodes(g, ch))
            + (IF Found(h, tops, k) # NULL THEN 1 ELSE 0)
      BY <1>2, <2>1, <2>2
  <2>4. NULL \notin Vals =>
            /\ \A c \in Nodes(g, ch) : ~NodeOf(g, c, k)
            /\ \A q \in Keys \ {k} : Found(g, tops, q) = Found(h, tops, q)
      BY <1>1, <1>2, <2>1
  <2>5. g.fresh = h.fresh /\ Sound(g, tops, ch) /\ g.free = h.free
      BY <2>1
  <2> HIDE DEF g, b
  <2> QED BY <2>3, <2>4, <2>5 DEF g, b
<1>3. CASE Found(h, tops, k) # NULL
  <2>1. g = Unlinked(h, tops, k) /\ Has(h, tops, k)
      BY <1>1, <1>3 DEF Replaced
  <2> HIDE DEF g
  <2>2. g.fresh = h.fresh /\ (h.free = << >> => Tail(g.free) = << >>)
      BY <2>1, UnlinkedSound
  <2>3. PICK dh, c : /\ Sound(g, tops, dh) /\ NodeOf(h, c, k)
                     /\ Loses(h, ch, g, dh, c) /\ dh[b] # << >>
      BY <2>1, UnlinkedSound DEF Loses, SameCells
  <2>4. Cardinality(Nodes(h, ch)) = Cardinality(Nodes(g, dh))
            + (IF Found(h, tops, k) # NULL THEN 1 ELSE 0)
    <3>1. Cardinality(Nodes(h, ch)) \in Nat /\ IsFiniteSet(Nodes(h, ch))
        BY NodesFinite
    <3>2. Cardinality(Nodes(g, dh)) = Cardinality(Nodes(h, ch)) - 1
        BY <2>3, <3>1, FS_RemoveElement DEF Loses
    <3> QED BY <1>3, <3>1, <3>2
  <2>5. ASSUME NULL \notin Vals
        PROVE  /\ \A d \in Nodes(g, dh) : ~NodeOf(g, d, k)
               /\ \A q \in Keys \ {k} : Found(g, tops, q) = Found(h, tops, q)
    <3>1. ASSUME NEW d \in Nodes(g, dh) PROVE ~NodeOf(g, d, k)
      <4>1. NodeOf(g, d, k) => NodeOf(h, d, k) /\ d \in Nodes(h, ch) /\ d # c
          BY <2>3 DEF Loses, SameCells, NodeOf
      <4>2. c \in Nodes(h, ch)
          BY <2>3 DEF Loses
      <4> QED BY <2>3, <2>5, <4>1, <4>2, OneNode
    <3>2. ASSUME NEW q \in Keys, q # k PROVE Found(g, tops, q) = Found(h, tops, q)
      <4>1. Found(g, tops, q) = IF q = k THEN NULL ELSE Found(h, tops, q)
          BY <2>3, <2>5, FoundLess
      <4> QED BY <3>2, <4>1
    <3> QED BY <3>1, <3>2
  <2> HIDE DEF b
  <2> QED BY <2>2, <2>3, <2>4, <2>5 DEF g, b
<1> QED BY <1>2, <1>3

\* From h to g the value v is put for k.
PutDone(h, tops, ch, g, new, k, v) ==
    /\ h.free = << >> => g.free = << >>
    /\ \E eh :
          /\ Sound(g, new, eh)
          /\ Cardinality(Nodes(h, ch)) + 1 = Cardinality(Nodes(g, eh))
                + (IF Found(h, tops, k) # NULL THEN 1 ELSE 0)
          /\ NULL \notin Vals => \A q \in Keys :
                Found(g, new, q) = IF q = k THEN v ELSE Found(h, tops, q)

\* hash_table_put, where no recycled `next' is read.
LEMMA PutSound ==
    ASSUME NEW h, NEW tops, NEW ch, Sound(h, tops, ch), NEW k \in Keys, NEW v \in Vals,
           h.fresh + 1 <= MaxCells, h.free = << >> \/ Zeroing
    PROVE  LET h1   == Replaced(h, tops, k)
               head == HeadOf(h1, tops, Bucket(k))
               g    == WithNode(WithHead(h1, tops, Bucket(k)), head, k, v)
               new  == [tops EXCEPT ![Bucket(k)] = head]
           IN  PutDone(h, tops, ch, g, new, k, v)
<1> DEFINE b == Bucket(k)
           h1 == Replaced(h, tops, k)
           head == HeadOf(h1, tops, b)
           h2 == WithHead(h1, tops, b)
           g == WithNode(h2, head, k, v)
           new == [tops EXCEPT ![b] = head]
           less == IF Found(h, tops, k) # NULL THEN 1 ELSE 0
<1>1. b \in Bs /\ tops \in [Bs -> Cells \cup {Nil}]
    BY BucketIs DEF Sound
<1>2. h1.fresh = h.fresh /\ (h.free = << >> => h1.free = << >> \/ Tail(h1.free) = << >>)
    BY ReplacedSound
<1>3. PICK ch1 :
          /\ Sound(h1, tops, ch1)
          /\ h.free = << >> => h1.free = << >> \/ ch1[b] # << >>
          /\ Cardinality(Nodes(h, ch)) = Cardinality(Nodes(h1, ch1)) + less
          /\ NULL \notin Vals =>
                /\ \A c \in Nodes(h1, ch1) : ~NodeOf(h1, c, k)
                /\ \A q \in Keys \ {k} : Found(h1, tops, q) = Found(h, tops, q)
    BY ReplacedSound
<1> HIDE DEF h1
<1>4. h.fresh \in Nat /\ MaxCells \in Nat /\ h1.fresh <= MaxCells
  <2>1. h.fresh \in Nat /\ MaxCells \in Nat
      BY HeapAssumption DEF Sound, Heaps
  <2> QED BY <1>2, <2>1
<1>5. tops[b] = Nil => ch1[b] = << >>
  <2>1. Linked(h1, tops[b], ch1[b])
      BY <1>1, <1>3 DEF Sound
  <2>2. ch1[b] # << >> => ch1[b][1] \in Cells
      BY <2>1 DEF Linked
  <2> QED BY <2>1, <2>2 DEF Linked, Nil, Cells
<1>6. tops[b] = Nil => h1.fresh <= MaxCells /\ (h1.free = << >> \/ Zeroing)
    BY <1>3, <1>4, <1>5
<1>7. h2.fresh <= h1.fresh + 1 /\ (h1.free = << >> => h2.free = << >>)
    BY <1>1, <1>3, <1>6, WithHeadSound
<1>8. PICK ch2 :
          /\ Sound(h2, new, ch2) /\ ch2[b] # << >>
          /\ Nodes(h2, ch2) = Nodes(h1, ch1)
          /\ \A c \in Nodes(h1, ch1) : h2.mem[c] = h1.mem[c]
  <2>1. Headed(h1, ch1, h2, new, b)
      BY <1>1, <1>3, <1>6, WithHeadSound
  <2> HIDE DEF h2, new
  <2> QED BY <2>1 DEF Headed
<1>9. h.free = << >> => h2.free = << >> \/ Tail(h2.free) = << >>
  <2>1. tops[b] # Nil => h2 = h1
      BY DEF WithHead
  <2> HIDE DEF h2, b
  <2> QED BY <1>2, <1>3, <1>5, <1>7, <2>1
<1>10. new[b] = head
    BY <1>1
<1> HIDE DEF h2, head, new
<1>11. h2.fresh <= MaxCells
  <2>1. h2.fresh \in Nat
      BY <1>8 DEF Sound, Heaps
  <2> QED BY <1>2, <1>4, <1>7, <2>1
<1>12. NULL \notin Vals => \A c \in Nodes(h2, ch2) : ~NodeOf(h2, c, k)
    BY <1>3, <1>8 DEF NodeOf
<1>13. g = WithNode(h2, new[Bucket(k)], k, v) /\ ch2[Bucket(k)] # << >>
    BY <1>8, <1>10
<1> HIDE DEF g
<1>14. h2.free = << >> \/ Tail(h2.free) = << >> => g.free = << >>
    BY <1>8, <1>11, <1>12, <1>13, WithNodeSound
<1>15. PICK eh, n : /\ Sound(g, new, eh) /\ NodeOf(g, n, k) /\ g.mem[n].val = v
                    /\ Gains(h2, ch2, g, eh, n)
    BY <1>8, <1>11, <1>12, <1>13, WithNodeSound DEF Gains, SameCells
<1>16. Cardinality(Nodes(h, ch)) + 1 = Cardinality(Nodes(g, eh)) + less
  <2>1. Cardinality(Nodes(h1, ch1)) \in Nat /\ IsFiniteSet(Nodes(h1, ch1))
      BY NodesFinite
  <2>2. Cardinality(Nodes(g, eh)) = Cardinality(Nodes(h1, ch1)) + 1
      BY ZenonT(60), <1>8, <1>15, <2>1, FS_AddElement DEF Gains
  <2>3. less \in Nat
      OBVIOUS
  <2> HIDE DEF less
  <2> QED BY <1>3, <2>1, <2>2, <2>3
<1>17. ASSUME NULL \notin Vals, NEW q \in Keys
       PROVE  Found(g, new, q) = IF q = k THEN v ELSE Found(h, tops, q)
  <2>1. Found(g, new, q) = IF q = k THEN g.mem[n].val ELSE Found(h2, new, q)
      BY <1>8, <1>12, <1>15, <1>17, FoundMore
  <2>2. Found(h2, new, q) = Found(h1, tops, q)
    <3>1. \A c \in Cells : c \in Nodes(h1, ch1) /\ NodeOf(h1, c, q) <=>
                           c \in Nodes(h2, ch2) /\ NodeOf(h2, c, q)
        BY <1>8 DEF NodeOf
    <3>2. \A c \in Nodes(h1, ch1) : NodeOf(h1, c, q) => h2.mem[c].val = h1.mem[c].val
        BY <1>8
    <3> QED BY <1>3, <1>8, <1>17, <3>1, <3>2, SameFound
  <2>3. q # k => Found(h1, tops, q) = Found(h, tops, q)
      BY <1>3, <1>17
  <2> QED BY <1>15, <2>1, <2>2, <2>3
<1> HIDE DEF less
<1>18. h.free = << >> => g.free = << >>
    BY <1>9, <1>14
<1>19. PutDone(h, tops, ch, g, new, k, v)
    BY <1>15, <1>16, <1>17, <1>18 DEF PutDone, less
<1> QED BY <1>19 DEF g, h2, h1, new, head, b

-----------------------------------------------------------------------------
(***************************************************************************)
(* The program.                                                            *)
(***************************************************************************)
\* No recycled `next' is read: the allocator clears memory, or there is one
\* table and nobody deletes from it.
CleanMemory == Zeroing \/ (~ClientDeletes /\ Lives <= 1)

\* The chains are sound, `full' counts their nodes, and where memory is not
\* cleared none has been given back while it could still be handed out.
HeapInv ==
    /\ live \in BOOLEAN /\ lives \in 0 .. Lives
    /\ full \in 0 .. Size - 1 /\ ret \in Vals \cup {NULL, 0, -1}
    /\ live => lives # 0
    /\ ~live => top = NoBuckets
    /\ Zeroing \/ (live \/ lives = 0 => free = << >>)
    /\ \E ch : Sound(Heap, top, ch) /\ full = Cardinality(Nodes(Heap, ch))

\* The dictionary that the client sees.
Seen == [k \in Keys |-> IF live THEN Found(Heap, top, k) ELSE NULL]

\* The three assignments of SetHeap make the heap that they are given.
LEMMA SetHeapIs ==
    ASSUME NEW g \in Heaps, SetHeap(g)
    PROVE  Heap' = g
<1>1. g = [mem |-> g.mem, free |-> g.free, fresh |-> g.fresh]
    BY DEF Heaps
<1> QED BY <1>1 DEF SetHeap, Heap

\* Empty chains.
LEMMA NoChains ==
    ASSUME NEW h \in Heaps, Once(h.free), Blank(h),
           \A c \in Cells : c < h.fresh <=> c \in ToSet(h.free)
    PROVE  \E ch : Sound(h, NoBuckets, ch) /\ Cardinality(Nodes(h, ch)) = 0
<1> DEFINE ch == [b \in Bs |-> << >>]
<1>1. ToSet(<< >>) = {} /\ Once(<< >>) /\ Len(<< >>) = 0 /\ 1 .. 0 = {}
      /\ << >> \in Seq(Cells)
    BY DEF ToSet, Once
<1>2. NoBuckets \in [Bs -> Cells \cup {Nil}] /\ \A b \in Bs : NoBuckets[b] = Nil
    BY DEF NoBuckets, Bs
<1>3. ch \in [Bs -> Seq(Cells)] /\ \A b \in Bs : ch[b] = << >>
    BY <1>1
<1> HIDE DEF ch
<1>4. \A b \in Bs : Linked(h, NoBuckets[b], << >>) /\ Cast(h, b, << >>)
    BY <1>1, <1>2 DEF Linked, Cast
<1>5. Apart(ch, h.free, h.fresh)
    BY <1>1, <1>3 DEF Apart
<1>6. Sound(h, NoBuckets, ch)
    BY <1>2, <1>3, <1>4, <1>5 DEF Sound
<1>7. Nodes(h, ch) = {}
    BY <1>1, <1>3 DEF Nodes
<1>8. Cardinality(Nodes(h, ch)) = 0
    BY <1>7, FS_EmptySet
<1> QED BY <1>6, <1>8

\* An array without chains finds nothing.
LEMMA NoneFound ==
    ASSUME NEW h, NEW ch, Sound(h, NoBuckets, ch), NEW k \in Keys
    PROVE  Found(h, NoBuckets, k) = NULL
<1> DEFINE b == Bucket(k)
           j == Where(h, ch[b], k)
<1>1. /\ b \in Bs /\ Found(h, NoBuckets, k) = IF j = 0 THEN NULL ELSE h.mem[ch[b][j]].val
      /\ j # 0 => j \in 1 .. Len(ch[b])
    BY FoundIs
<1> HIDE DEF j, b
<1>2. NoBuckets[b] = Nil /\ Linked(h, NoBuckets[b], ch[b])
    BY <1>1 DEF Sound, NoBuckets, Bs
<1>3. ch[b] = << >>
  <2>1. ch[b] # << >> => ch[b][1] \in Cells
      BY <1>2 DEF Linked
  <2> QED BY <1>2, <2>1 DEF Linked, Nil, Cells
<1>4. j = 0
    BY <1>1, <1>3
<1> QED BY <1>1, <1>4

\* The dictionary of two states is what lookups find in them.
LEMMA SeenIs ==
    /\ live => \A q \in Keys : Seen[q] = Found(Heap, top, q)
    /\ live' => \A q \in Keys : Seen'[q] = Found(Heap', top', q)
    /\ Seen = [q \in Keys |-> Seen[q]] /\ Seen' = [q \in Keys |-> Seen'[q]]
  BY DEF Seen

\* hash_table_put is a put of the dictionary.
LEMMA PutStep ==
    ASSUME CleanMemory, HeapInv, NEW k \in Keys, NEW v \in Vals, Put(k, v)
    PROVE  HeapInv' /\ (NULL \notin Vals => Dict!Put(k, v))
<1> DEFINE h1 == Replaced(Heap, top, k)
           head == HeadOf(h1, top, Bucket(k))
           g == WithNode(WithHead(h1, top, Bucket(k)), head, k, v)
           new == [top EXCEPT ![Bucket(k)] = head]
           left == IF Found(Heap, top, k) # NULL THEN full - 1 ELSE full
<1>1. PICK ch : Sound(Heap, top, ch) /\ full = Cardinality(Nodes(Heap, ch))
    BY DEF HeapInv
<1>2. /\ live /\ HeapLeft /\ left + 1 < Size /\ SetHeap(g) /\ top' = new
      /\ full' = left + 1 /\ ret' = 0 /\ UNCHANGED <<live, lives>>
    BY DEF Put
<1>3. Heap.free = free /\ Heap.fresh = fresh /\ Heap.fresh + 1 <= MaxCells
    BY <1>2 DEF Heap, HeapLeft
<1>4. Heap.free = << >> \/ Zeroing
    BY <1>2, <1>3 DEF HeapInv
<1>P. PutDone(Heap, top, ch, g, new, k, v)
    BY <1>1, <1>3, <1>4, PutSound
<1> HIDE DEF g, new
<1>5. Heap.free = << >> => g.free = << >>
    BY <1>P DEF PutDone
<1>6. PICK eh :
          /\ Sound(g, new, eh)
          /\ Cardinality(Nodes(Heap, ch)) + 1 = Cardinality(Nodes(g, eh))
                + (IF Found(Heap, top, k) # NULL THEN 1 ELSE 0)
          /\ NULL \notin Vals => \A q \in Keys :
                Found(g, new, q) = IF q = k THEN v ELSE Found(Heap, top, q)
    BY <1>P DEF PutDone
<1>7. Heap' = g /\ free' = g.free
    BY <1>2, <1>6, SetHeapIs DEF Sound, SetHeap
<1>8. full' = Cardinality(Nodes(g, eh)) /\ full' \in 0 .. Size - 1
  <2>1. Cardinality(Nodes(g, eh)) \in Nat /\ full \in Nat /\ Size \in Nat
      BY NodesFinite, HeapAssumption DEF HeapInv
  <2> QED BY <1>1, <1>2, <1>6, <2>1
<1>9. HeapInv'
  <2>1. Sound(Heap', top', eh) /\ full' = Cardinality(Nodes(Heap', eh))
      BY <1>2, <1>6, <1>7, <1>8
  <2>2. Zeroing \/ free' = << >>
      BY <1>3, <1>4, <1>5, <1>7
  <2> QED BY <1>2, <1>8, <2>1, <2>2 DEF HeapInv
<1>10. ASSUME NULL \notin Vals PROVE Dict!Put(k, v)
  <2>1. \A q \in Keys : Seen'[q] = IF q = k THEN v ELSE Seen[q]
      BY <1>2, <1>6, <1>7, <1>10, SeenIs
  <2>2. Seen' = [Seen EXCEPT ![k] = v]
    <3> HIDE DEF Seen
    <3> QED BY <2>1, SeenIs
  <2> QED BY <1>2, <2>2 DEF Dict!Put, Seen
<1> QED BY <1>9, <1>10

\* hash_table_delete is a delete of the dictionary.
LEMMA DeleteStep ==
    ASSUME CleanMemory, HeapInv, NEW k \in Keys, Delete(k)
    PROVE  HeapInv' /\ (NULL \notin Vals => Dict!Delete(k))
<1> DEFINE g == Unlinked(Heap, top, k)
<1>1. PICK ch : Sound(Heap, top, ch) /\ full = Cardinality(Nodes(Heap, ch))
    BY DEF HeapInv
<1>2. /\ live /\ Zeroing /\ SetHeap(g) /\ UNCHANGED <<live, lives, top>>
      /\ ret' = Found(Heap, top, k)
      /\ full' = IF Has(Heap, top, k) THEN full - 1 ELSE full
    BY DEF Delete, CleanMemory
<1>3. /\ Found(Heap, top, k) \in Vals \cup {NULL}
      /\ ~Has(Heap, top, k) => Found(Heap, top, k) = NULL
  <2> DEFINE j == Where(Heap, ch[Bucket(k)], k)
  <2>1. /\ Has(Heap, top, k) <=> j # 0
        /\ Found(Heap, top, k) \in Vals \cup {NULL}
        /\ Found(Heap, top, k) = IF j = 0 THEN NULL ELSE Heap.mem[ch[Bucket(k)][j]].val
      BY <1>1, FoundIs
  <2> QED BY <2>1
<1>4. PICK dh :
          /\ Sound(g, top, dh)
          /\ Cardinality(Nodes(g, dh)) = IF Has(Heap, top, k) THEN full - 1 ELSE full
          /\ NULL \notin Vals => \A q \in Keys :
                Found(g, top, q) = IF q = k THEN NULL ELSE Found(Heap, top, q)
  <2>1. CASE ~Has(Heap, top, k)
    <3>1. g = Heap
        BY <2>1 DEF Unlinked, Has
    <3> QED BY <1>1, <1>3, <2>1, <3>1
  <2>2. CASE Has(Heap, top, k)
    <3> HIDE DEF g
    <3>1. PICK dh, c : Sound(g, top, dh) /\ NodeOf(Heap, c, k) /\ Loses(Heap, ch, g, dh, c)
        BY <1>1, <2>2, UnlinkedSound DEF Loses, SameCells, g
    <3>2. Cardinality(Nodes(Heap, ch)) \in Nat /\ IsFiniteSet(Nodes(Heap, ch))
        BY NodesFinite
    <3>3. Cardinality(Nodes(g, dh)) = full - 1
        BY <1>1, <3>1, <3>2, FS_RemoveElement DEF Loses
    <3>4. ASSUME NULL \notin Vals, NEW q \in Keys
          PROVE  Found(g, top, q) = IF q = k THEN NULL ELSE Found(Heap, top, q)
        BY <1>1, <3>1, <3>4, FoundLess
    <3> QED BY <2>2, <3>1, <3>3, <3>4
  <2> QED BY <2>1, <2>2
<1> HIDE DEF g
<1>5. Heap' = g
    BY <1>2, <1>4, SetHeapIs DEF Sound
<1>6. HeapInv'
  <2>1. full' = Cardinality(Nodes(Heap', dh)) /\ Sound(Heap', top', dh)
      BY <1>2, <1>4, <1>5
  <2>2. full' \in 0 .. Size - 1
    <3>1. full' \in Nat
        BY <2>1, NodesFinite
    <3>2. full \in 0 .. Size - 1 /\ Size \in Nat
        BY HeapAssumption DEF HeapInv
    <3> QED BY <1>2, <3>1, <3>2
  <2> QED BY <1>2, <1>3, <2>1, <2>2 DEF HeapInv
<1>7. ASSUME NULL \notin Vals PROVE Dict!Delete(k)
  <2>1. \A q \in Keys : Seen'[q] = IF q = k THEN NULL ELSE Seen[q]
      BY <1>2, <1>4, <1>5, <1>7, SeenIs
  <2>2. Seen' = [Seen EXCEPT ![k] = NULL]
    <3> HIDE DEF Seen
    <3> QED BY <2>1, SeenIs
  <2>3. ret' = Seen[k]
      BY <1>2, SeenIs
  <2> QED BY <1>2, <2>2, <2>3 DEF Dict!Delete, Seen
<1> QED BY <1>6, <1>7

\* hash_table_destroy empties the dictionary, and frees every cell.
LEMMA DestroyStep ==
    ASSUME CleanMemory, HeapInv, Destroy
    PROVE  HeapInv' /\ Dict!Destroy
<1> DEFINE g == Released(Heap, ChainedCells)
<1>1. PICK ch : Sound(Heap, top, ch)
    BY DEF HeapInv
<1>2. /\ live /\ ~live' /\ live' \in BOOLEAN /\ full' = 0 /\ ret' = 0 /\ top' = NoBuckets
      /\ SetHeap(g) /\ lives' = lives
    BY DEF Destroy
<1>3. /\ ChainedCells \in Seq(Cells) /\ Once(ChainedCells)
      /\ ToSet(ChainedCells) = InChains(ch)
    BY <1>1, ChainedCellsIs
<1>4. /\ Heap \in Heaps /\ Once(Heap.free) /\ InChains(ch) \cap ToSet(Heap.free) = {}
      /\ \A c \in Cells : c < Heap.fresh <=> c \in ToSet(Heap.free) \/ c \in InChains(ch)
      /\ Blank(Heap) /\ Heap.fresh \in Int
    BY <1>1 DEF Sound, Apart, InChains, Heaps
<1>5. /\ g \in Heaps /\ g.fresh = Heap.fresh /\ Once(g.free)
      /\ ToSet(g.free) = InChains(ch) \cup ToSet(Heap.free)
      /\ \A c \in Cells :
            g.mem[c] = IF Zeroing /\ c \in InChains(ch) THEN Zeroed ELSE Heap.mem[c]
    BY <1>3, <1>4, ReleasedIs
<1> HIDE DEF g
<1>6. \A c \in Cells : c < g.fresh <=> c \in ToSet(g.free)
    BY <1>4, <1>5
<1>7. Blank(g)
  <2>1. \A c \in Cells : c >= g.fresh => c \notin InChains(ch)
      BY <1>4, <1>5 DEF Cells
  <2>2. \A c \in ToSet(g.free) : c \in Cells
      BY <1>5, Elements DEF Heaps
  <2>3. Zeroed.next = Nil
      BY DEF Zeroed
  <2> QED BY <1>4, <1>5, <2>1, <2>2, <2>3 DEF Blank
<1>8. Heap' = g
    BY <1>2, <1>5, SetHeapIs
<1>9. HeapInv'
  <2>1. \E dh : Sound(Heap', top', dh) /\ full' = Cardinality(Nodes(Heap', dh))
      BY <1>2, <1>5, <1>6, <1>7, <1>8, NoChains
  <2>2. lives' # 0 /\ lives' \in 0 .. Lives /\ full' \in 0 .. Size - 1
      BY <1>2, HeapAssumption DEF HeapInv
  <2> QED BY <1>2, <2>1, <2>2 DEF HeapInv
<1>10. Dict!Destroy
    BY <1>2 DEF Dict!Destroy, Dict!Empty
<1> QED BY <1>9, <1>10

\* hash_table_create makes an empty dictionary.
LEMMA CreateStep ==
    ASSUME CleanMemory, HeapInv, Create
    PROVE  HeapInv' /\ Dict!Create
<1>1. /\ ~live /\ live' = TRUE /\ lives < Lives /\ lives' = lives + 1 /\ top' = NoBuckets
      /\ full' = 0 /\ ret' = 0 /\ UNCHANGED <<mem, free, fresh>>
    BY DEF Create
<1>2. PICK ch : Sound(Heap, NoBuckets, ch)
    BY <1>1 DEF HeapInv
<1>3. Heap' = Heap
    BY <1>1 DEF Heap
<1>4. \A q \in Keys : Found(Heap, NoBuckets, q) = NULL
    BY <1>2, NoneFound
<1>5. Nodes(Heap, ch) = {}
  <2>1. SUFFICES ASSUME NEW c \in Nodes(Heap, ch) PROVE FALSE
      OBVIOUS
  <2>2. PICK b \in Bs : c \in ToSet(ch[b])
      BY DEF Nodes
  <2>3. NoBuckets[b] = Nil /\ Linked(Heap, NoBuckets[b], ch[b])
      BY <1>2 DEF Sound, NoBuckets, Bs
  <2>4. ch[b] # << >> => ch[b][1] \in Cells
      BY <2>3 DEF Linked
  <2>5. ch[b] = << >>
      BY <2>3, <2>4 DEF Linked, Nil, Cells
  <2> QED BY <2>2, <2>5 DEF ToSet
<1>6. HeapInv'
  <2>1. Sound(Heap', top', ch) /\ full' = Cardinality(Nodes(Heap', ch))
      BY <1>1, <1>2, <1>3, <1>5, FS_EmptySet
  <2>2. lives' \in 0 .. Lives /\ lives' # 0 /\ full' \in 0 .. Size - 1
      BY <1>1, HeapAssumption DEF HeapInv
  <2>3. Zeroing \/ free' = << >>
    <3>1. CASE ~Zeroing
      <4>1. lives = 0
          BY <1>1, <3>1, HeapAssumption DEF CleanMemory, HeapInv
      <4> QED BY <1>1, <3>1, <4>1 DEF HeapInv
    <3> QED BY <3>1
  <2> QED BY <1>1, <2>1, <2>2, <2>3 DEF HeapInv
<1>7. Dict!Create
  <2>1. \A q \in Keys : Seen'[q] = NULL
      BY <1>1, <1>3, <1>4, SeenIs
  <2>2. Seen' = [q \in Keys |-> NULL]
    <3> HIDE DEF Seen
    <3> QED BY <2>1, SeenIs
  <2> QED BY <1>1, <2>2 DEF Dict!Create, Dict!Empty, Seen
<1> QED BY <1>6, <1>7

\* hash_table_get, and a put that is refused, change nothing but the result.
LEMMA LookStep ==
    ASSUME HeapInv
    PROVE  /\ \A k \in Keys : Get(k) => HeapInv' /\ Dict!Get(k)
           /\ PutNullKey => HeapInv' /\ Dict!PutNullKey
<1>1. ASSUME UNCHANGED <<live, lives, top, mem, free, fresh, full>>
      PROVE  /\ ret' \in Vals \cup {NULL, 0, -1} => HeapInv'
             /\ Seen' = Seen
  <2>1. Heap' = Heap
      BY <1>1 DEF Heap
  <2> QED BY <1>1, <2>1 DEF HeapInv, Seen
<1>2. ASSUME NEW k \in Keys, Get(k) PROVE HeapInv' /\ Dict!Get(k)
  <2>1. /\ live /\ ret' = Found(Heap, top, k)
        /\ UNCHANGED <<live, lives, top, mem, free, fresh, full>>
      BY <1>2 DEF Get
  <2>2. PICK ch : Sound(Heap, top, ch)
      BY DEF HeapInv
  <2>3. Found(Heap, top, k) \in Vals \cup {NULL}
      BY <2>2, FoundIs
  <2>4. HeapInv' /\ Seen' = Seen /\ ret' = Seen[k]
      BY <1>1, <2>1, <2>3, SeenIs
  <2> QED BY <2>1, <2>4 DEF Dict!Get, Seen
<1>3. ASSUME PutNullKey PROVE HeapInv' /\ Dict!PutNullKey
  <2>1. live /\ ret' = -1 /\ UNCHANGED <<live, lives, top, mem, free, fresh, full>>
      BY <1>3 DEF PutNullKey
  <2>2. HeapInv' /\ Seen' = Seen
      BY <1>1, <2>1
  <2> QED BY <2>1, <2>2 DEF Dict!PutNullKey, Seen
<1> QED BY <1>2, <1>3

-----------------------------------------------------------------------------
(***************************************************************************)
(* The theorems.                                                           *)
(***************************************************************************)
\* A process begins without a table and with untouched memory.
LEMMA InitHeap ==
    ASSUME Init
    PROVE  HeapInv
<1>1. /\ live = FALSE /\ lives = 0 /\ top = NoBuckets /\ mem = [c \in Cells |-> Zeroed]
      /\ free = << >> /\ fresh = 1 /\ full = 0 /\ ret = 0
    BY DEF Init
<1>2. Size \in Nat \ {0} /\ MaxCells \in Nat /\ Lives \in Nat
    BY HeapAssumption
<1>3. Zeroed \in Cell /\ Zeroed.next = Nil
    BY DEF Zeroed, Cell, Nil
<1>4. Heap \in Heaps /\ Heap.free = << >> /\ Heap.fresh = 1 /\ Heap.mem = mem
    BY <1>1, <1>2, <1>3 DEF Heap, Heaps
<1>5. Once(Heap.free) /\ ToSet(Heap.free) = {}
    BY <1>4 DEF Once, ToSet
<1>6. Blank(Heap) /\ \A c \in Cells : c < Heap.fresh <=> c \in ToSet(Heap.free)
    BY <1>1, <1>3, <1>4, <1>5 DEF Blank, Cells
<1>7. \E ch : Sound(Heap, NoBuckets, ch) /\ Cardinality(Nodes(Heap, ch)) = 0
    BY <1>4, <1>5, <1>6, NoChains
<1>8. lives \in 0 .. Lives /\ full \in 0 .. Size - 1
    BY <1>1, <1>2
<1> QED BY <1>1, <1>7, <1>8 DEF HeapInv

\* Every step keeps the invariant.
LEMMA StepHeap ==
    ASSUME CleanMemory, HeapInv, [Next]_vars
    PROVE  HeapInv'
<1>1. CASE Create
    BY <1>1, CreateStep
<1>2. CASE Destroy
    BY <1>2, DestroyStep
<1>3. CASE PutNullKey
    BY <1>3, LookStep
<1>4. ASSUME NEW k \in Keys, Get(k) PROVE HeapInv'
    BY <1>4, LookStep
<1>5. ASSUME NEW k \in Keys, Delete(k) PROVE HeapInv'
    BY <1>5, DeleteStep
<1>6. ASSUME NEW k \in Keys, NEW v \in Vals, Put(k, v) PROVE HeapInv'
    BY <1>6, PutStep
<1>7. CASE UNCHANGED vars
  <2>1. Heap' = Heap
      BY <1>7 DEF vars, Heap
  <2> QED BY <1>7, <2>1 DEF vars, HeapInv
<1> QED BY <1>1, <1>2, <1>3, <1>4, <1>5, <1>6, <1>7 DEF Next

\* The inductive invariant holds, whatever the keys, the hash values, the size
\* and the memory are, as long as no recycled `next' is read.
THEOREM Invariance == ASSUME CleanMemory PROVE Spec => []HeapInv
<1>1. Init => HeapInv
    BY InitHeap
<1>2. HeapInv /\ [Next]_vars => HeapInv'
    BY StepHeap
<1> QED BY <1>1, <1>2, PTL DEF Spec

\* Every variable has its type.
THEOREM TypeCorrect == ASSUME CleanMemory PROVE Spec => []TypeOK
<1>1. ASSUME HeapInv PROVE TypeOK
  <2>1. PICK ch : Sound(Heap, top, ch)
      BY <1>1 DEF HeapInv
  <2> QED BY <1>1, <2>1 DEF Sound, Heaps, Heap, HeapInv, TypeOK, Bs
<1> QED BY <1>1, Invariance, PTL

\* Behind the HEAD that bucket_top makes there are only nodes of its bucket,
\* and none of them is free.
THEOREM ChainsOwned == ASSUME CleanMemory PROVE Spec => []OwnChains
<1>1. ASSUME HeapInv PROVE OwnChains
  <2>1. PICK ch : Sound(Heap, top, ch)
      BY <1>1 DEF HeapInv
  <2> SUFFICES ASSUME NEW b \in Bs, NEW j \in DOMAIN ChainOf(b)
               PROVE  LET c == ChainOf(b)[j]
                      IN  /\ ~Contains(free, c)
                          /\ IF j = 1 THEN mem[c].type = "HEAD"
                             ELSE mem[c].type = "NODE" /\ Bucket(mem[c].key) = b
      BY DEF OwnChains, Bs
  <2>2. /\ ChainOf(b) = ch[b] /\ ch[b] \in Seq(Cells) /\ Cast(Heap, b, ch[b])
        /\ free \in Seq(Cells) /\ ToSet(ch[b]) \cap ToSet(free) = {} /\ Heap.mem = mem
    <3>1. ChainOf(b) = ch[b] /\ ch[b] \in Seq(Cells)
        BY <2>1, OfBucket DEF ChainOf
    <3>2. Cast(Heap, b, ch[b]) /\ Heap.free \in Seq(Cells)
          /\ ToSet(ch[b]) \cap ToSet(Heap.free) = {}
        BY <2>1 DEF Sound, Apart, Heaps
    <3> QED BY <3>1, <3>2 DEF Heap
  <2>3. j \in 1 .. Len(ch[b]) /\ ch[b][j] \in ToSet(ch[b])
      BY <2>2, Elements
  <2>4. ~Contains(free, ch[b][j])
    <3>1. \A i \in 1 .. Len(free) : free[i] \in ToSet(free)
        BY <2>2, Elements
    <3> QED BY <2>2, <2>3, <3>1 DEF Contains
  <2> QED BY <2>2, <2>3, <2>4 DEF Cast
<1> QED BY <1>1, Invariance, PTL

\* No cell is lost, and none is freed twice.
THEOREM NoCellLost == ASSUME CleanMemory PROVE Spec => []CellsAccounted
<1>1. ASSUME HeapInv PROVE CellsAccounted
  <2> DEFINE all == ChainedCells \o free
  <2>1. PICK ch : Sound(Heap, top, ch)
      BY <1>1 DEF HeapInv
  <2>2. /\ ChainedCells \in Seq(Cells) /\ Once(ChainedCells)
        /\ ToSet(ChainedCells) = InChains(ch)
      BY <2>1, ChainedCellsIs
  <2>3. /\ free \in Seq(Cells) /\ Once(free) /\ InChains(ch) \cap ToSet(free) = {}
        /\ \A c \in Cells : c < fresh <=> c \in ToSet(free) \/ c \in InChains(ch)
        /\ fresh \in 1 .. MaxCells + 1
      BY <2>1 DEF Sound, Apart, InChains, Heaps, Heap
  <2>4. all \in Seq(Cells) /\ Once(all) /\ ToSet(all) = InChains(ch) \cup ToSet(free)
      BY <2>2, <2>3, ConcatFacts
  <2>5. ToSet(all) = 1 .. fresh - 1
    <3>1. \A c \in ToSet(all) : c \in Cells
        BY <2>4, Elements
    <3>2. \A c : c \in 1 .. fresh - 1 <=> c \in Cells /\ c < fresh
        BY <2>3, HeapAssumption DEF Cells
    <3> HIDE DEF all
    <3> QED BY <2>3, <2>4, <3>1, <3>2
  <2>6. fresh - 1 \in Nat
      BY <2>3
  <2> HIDE DEF all
  <2>7. Len(all) = fresh - 1
      BY <2>4, <2>5, <2>6, OnceLen
  <2> QED BY <2>5, <2>7 DEF CellsAccounted, all
<1> QED BY <1>1, Invariance, PTL

\* The cells implement the dictionary, call by call.
THEOREM Refinement == ASSUME CleanMemory, NULL \notin Vals PROVE Spec => ImplementsDictionary
<1>1. Init => Dict!Init
    BY DEF Init, Dict!Init, Dict!Empty
<1>2. ASSUME HeapInv, [Next]_vars PROVE [Dict!Next]_(Dict!vars) /\ [EachCall]_vars
  <2>1. Create => Dict!Create
      BY <1>2, CreateStep
  <2>2. Destroy => Dict!Destroy
      BY <1>2, DestroyStep
  <2>3. PutNullKey => Dict!PutNullKey
      BY <1>2, LookStep
  <2>4. \A k \in Keys : (Get(k) => Dict!Get(k)) /\ (Delete(k) => Dict!Delete(k))
      BY <1>2, LookStep, DeleteStep
  <2>5. \A k \in Keys, v \in Vals : Put(k, v) => Dict!Put(k, v)
      BY <1>2, PutStep
  <2>6. EachCall
      BY <2>1, <2>2, <2>3, <2>4, <2>5 DEF EachCall
  <2>7. Next => Dict!Next
      BY <2>1, <2>2, <2>3, <2>4, <2>5 DEF Next, Dict!Next
  <2>8. UNCHANGED vars => UNCHANGED Dict!vars
    <3>1. UNCHANGED vars => Heap' = Heap
        BY DEF vars, Heap
    <3> QED BY <3>1 DEF vars, Dict!vars
  <2> QED BY <1>2, <2>6, <2>7, <2>8
<1>3. Spec => []HeapInv
    BY Invariance
<1> QED BY <1>1, <1>2, <1>3, PTL DEF Spec, ImplementsDictionary, Dict!Spec
=============================================================================
