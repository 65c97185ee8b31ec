---------------------------- MODULE VisitorProofs ----------------------------
(***************************************************************************)
(* The walk of ast-walk.c, with its stacks, flags and five mutually        *)
(* recursive cases, implements what ast-walk.h promises (module Visitor):  *)
(* VisitsEachOnce, for every schema and tree, of any walk that asks for    *)
(* the callbacks before and after.                                         *)
(*                                                                         *)
(* Entry gives the things that Visitor sees from the two stacks.  Every    *)
(* activation but the one on top waits, so a step changes the last entry,  *)
(* adds one or takes one away; what the rest of the proof shows is that    *)
(* the thing which begins belongs into the slot that is next.              *)
(*                                                                         *)
(* The last part is about the callbacks that watch the walk: their         *)
(* indentation and braces are the walk's nesting (MarginIsDepth,           *)
(* IndentIsDepth), and a text that fits is written whole (TextWhole).      *)
(***************************************************************************)
EXTENDS Printers, AstWalkProofs, FiniteSetTheorems

-----------------------------------------------------------------------------
(***************************************************************************)
(* The refinement mapping as an operator of the two stacks.                *)
(***************************************************************************)
HasBegun(f) == f.kind = "CHOICE" \/ f.at # "before"

Thing(f, name) ==
    [meta |-> f.meta, node |-> f.node,
     type |-> IF f.kind = "REC" THEN f.type
              ELSE <<f.type, Schema[f.type].items[f.i].name>>,
     name |-> name]

Bases(t) == IF Schema[t].base = "" THEN 0 ELSE 1

\* The next slot of an activation; `entered' is 1 if what it waits for has begun,
\* or else 0.
Position(f, entered) ==
    CASE f.at = "base"        -> 1
      [] f.at = "left base"   -> 1 + entered
      [] f.at = "item"        -> Bases(f.type) + f.i
      [] f.at = "left item"   -> Bases(f.type) + f.i + entered
      [] f.at = "member"      -> 1
      [] f.at = "left member" -> 1 + entered
      [] f.at = "after"       -> 2

\* Whether what activation k waits for has begun.
Inside(s, k) == IF k = Len(s) \/ HasBegun(s[k + 1]) THEN 1 ELSE 0

OutsideThing == [meta |-> "OUTSIDE", type |-> "", node |-> 0, name |-> ""]

NameAt(n, k) == IF k = 1 THEN "" ELSE n[k - 1]

\* What Visitor sees of activation k; the holder of the tree is number 0.
Entry(s, n, c, k) ==
    IF k = 0
    THEN [thing |-> OutsideThing,
          pos |-> IF c = 0 \/ (s # << >> /\ ~HasBegun(s[1])) THEN 1 ELSE 2]
    ELSE [thing |-> Thing(s[k], NameAt(n, k)),
          pos |-> Position(s[k], Inside(s, k))]

\* The number of activations that Visitor sees.
Depth(s) ==
    IF s = << >> THEN 0 ELSE IF HasBegun(s[Len(s)]) THEN Len(s) ELSE Len(s) - 1

\* All activations but the one on top wait.
Stacked(s) == s \in Seq(Frame) /\ \A k \in 1 .. Len(s) - 1 : Waits(s[k])

\* The number of activations that have begun is Depth.
LEMMA BegunCount ==
    ASSUME NEW s, Stacked(s)
    PROVE  /\ Cardinality({j \in DOMAIN s : HasBegun(s[j])}) = Depth(s)
           /\ Depth(s) \in Nat
<1> DEFINE B == {j \in DOMAIN s : HasBegun(s[j])}
<1>1. /\ s \in Seq(Frame) /\ Len(s) \in Nat /\ DOMAIN s = 1 .. Len(s)
      /\ \A k \in 1 .. Len(s) - 1 : Waits(s[k])
    BY DEF Stacked
<1>2. \A k \in 1 .. Len(s) - 1 : HasBegun(s[k])
    BY <1>1 DEF Waits, HasBegun
<1>3. Depth(s) \in Nat /\ B = 1 .. Depth(s)
  <2>1. CASE s = << >>
    <3>1. Len(s) = 0
        BY <2>1
    <3> QED BY <1>1, <2>1, <3>1 DEF Depth
  <2>2. CASE s # << >>
    <3>1. Len(s) \in Nat \ {0}
        BY <1>1, <2>2, EmptySeq
    <3>2. CASE HasBegun(s[Len(s)])
      <4>1. Depth(s) = Len(s)
          BY <2>2, <3>2 DEF Depth
      <4>2. \A k \in 1 .. Len(s) : HasBegun(s[k])
          BY <1>2, <3>1, <3>2
      <4> QED BY <1>1, <3>1, <4>1, <4>2
    <3>3. CASE ~HasBegun(s[Len(s)])
      <4>1. Depth(s) = Len(s) - 1
          BY <2>2, <3>3 DEF Depth
      <4>2. \A k \in 1 .. Len(s) : HasBegun(s[k]) <=> k \in 1 .. Len(s) - 1
          BY <1>2, <3>1, <3>3
      <4> QED BY <1>1, <3>1, <4>1, <4>2
    <3> QED BY <3>2, <3>3
  <2> QED BY <2>1, <2>2
<1>4. Cardinality(1 .. Depth(s)) = Depth(s)
    BY <1>3, FS_Interval
<1> QED BY <1>3, <1>4

\* The entries as a sequence.
Entries(s, n, c) == [i \in 1 .. Depth(s) + 1 |-> Entry(s, n, c, i - 1)]

\* The mapping before it is simplified.
Mapped(s, n, c) ==
    <<Entry(s, n, c, 0)>>
    \o [k \in 1 .. Cardinality({j \in DOMAIN s : HasBegun(s[j])}) |-> Entry(s, n, c, k)]

\* Both forms of the mapping are the same sequence.
LEMMA MappedIs ==
    ASSUME NEW s, NEW n, NEW c, Stacked(s)
    PROVE  Mapped(s, n, c) = Entries(s, n, c)
<1> DEFINE d == Depth(s)
           W == {Entry(s, n, c, k) : k \in 0 .. d}
           e == [k \in 1 .. d |-> Entry(s, n, c, k)]
<1>1. d \in Nat /\ Mapped(s, n, c) = <<Entry(s, n, c, 0)>> \o e
    BY BegunCount DEF Mapped
<1> HIDE DEF d
<1>2. \A k \in 0 .. d : Entry(s, n, c, k) \in W
    OBVIOUS
<1> HIDE DEF W
<1>3. e \in Seq(W) /\ Len(e) = d /\ \A k \in 1 .. d : e[k] = Entry(s, n, c, k)
    BY <1>1, <1>2
<1>4. <<Entry(s, n, c, 0)>> \in Seq(W) /\ Len(<<Entry(s, n, c, 0)>>) = 1
    BY <1>1, <1>2
<1> HIDE DEF e
<1> DEFINE u == <<Entry(s, n, c, 0)>> \o e
<1>5. u \in Seq(W) /\ Len(u) = d + 1
    BY <1>1, <1>3, <1>4
<1>6. ASSUME NEW i \in 1 .. d + 1 PROVE u[i] = Entry(s, n, c, i - 1)
  <2>1. CASE i = 1
      BY <1>1, <1>3, <1>4, <2>1
  <2>2. CASE i # 1
    <3>1. i - 1 \in 1 .. d
        BY <1>1, <2>2
    <3>2. u[i] = e[i - 1]
        BY <1>1, <1>3, <1>4, <2>2
    <3> QED BY <1>3, <3>1, <3>2
  <2> QED BY <2>1, <2>2
<1> HIDE DEF u
<1>7. u = [i \in 1 .. d + 1 |-> Entry(s, n, c, i - 1)]
    BY <1>1, <1>5, <1>6
<1> QED BY <1>1, <1>7 DEF Entries, u, d

\* Visitor's variable `open', in this state and in the next.
LEMMA OpenIs ==
    Stacked(stack) => OpenThings = Entries(stack, names, nodes)
<1> SUFFICES ASSUME Stacked(stack)
             PROVE  OpenThings = Entries(stack, names, nodes)
    OBVIOUS
<1> DEFINE N == Cardinality({j \in DOMAIN stack : HasBegun(stack[j])})
<1>1. N \in Nat
    BY BegunCount
<1>2. ASSUME NEW k \in Nat
      PROVE  /\ NextSlot(k) = Position(stack[k], Inside(stack, k))
             /\ ThingOf(k) = Thing(stack[k], NameAt(names, k))
    BY DEF NextSlot, Position, Inside, Entered, Begun, HasBegun, BasesOf, Bases, ThingOf,
           Thing, NameAt
<1>3. Cardinality({j \in DOMAIN stack : Begun(j)}) = N
    BY DEF Begun, HasBegun
<1>4. OpenThings = <<Entry(stack, names, nodes, 0)>>
                   \o [k \in 1 .. N |-> [thing |-> ThingOf(k), pos |-> NextSlot(k)]]
    BY <1>3 DEF OpenThings, Entry, OutsideThing, Begun, HasBegun
<1> HIDE DEF N
<1>5. \A k \in 1 .. N : k \in Nat /\ k # 0
    BY <1>1
<1>6. [k \in 1 .. N |-> [thing |-> ThingOf(k), pos |-> NextSlot(k)]]
      = [k \in 1 .. N |-> Entry(stack, names, nodes, k)]
    BY <1>2, <1>5 DEF Entry
<1>7. OpenThings = Mapped(stack, names, nodes)
    BY <1>4, <1>6 DEF Mapped, N
<1> QED BY <1>7, MappedIs

\* ... and in the next state.
LEMMA OpenIsThen ==
    Stacked(stack') => OpenThings' = Entries(stack', names', nodes')
<1> SUFFICES ASSUME Stacked(stack')
             PROVE  OpenThings' = Entries(stack', names', nodes')
    OBVIOUS
<1> DEFINE N == Cardinality({j \in DOMAIN stack' : HasBegun(stack'[j])})
<1>1. N \in Nat
    BY BegunCount
<1>2. ASSUME NEW k \in Nat
      PROVE  /\ NextSlot(k)' = Position(stack'[k], Inside(stack', k))
             /\ ThingOf(k)' = Thing(stack'[k], NameAt(names', k))
    BY DEF NextSlot, Position, Inside, Entered, Begun, HasBegun, BasesOf, Bases, ThingOf,
           Thing, NameAt
<1>3. Cardinality({j \in DOMAIN stack' : Begun(j)'}) = N
    BY DEF Begun, HasBegun
<1>4. OpenThings' = <<Entry(stack', names', nodes', 0)>>
                   \o [k \in 1 .. N |-> [thing |-> ThingOf(k)', pos |-> NextSlot(k)']]
    BY <1>3 DEF OpenThings, Entry, OutsideThing, Begun, HasBegun
<1> HIDE DEF N
<1>5. \A k \in 1 .. N : k \in Nat /\ k # 0
    BY <1>1
<1>6. [k \in 1 .. N |-> [thing |-> ThingOf(k)', pos |-> NextSlot(k)']]
      = [k \in 1 .. N |-> Entry(stack', names', nodes', k)]
    BY <1>2, <1>5 DEF Entry
<1>7. OpenThings' = Mapped(stack', names', nodes')
    BY <1>4, <1>6 DEF Mapped, N
<1> QED BY <1>7, MappedIs

-----------------------------------------------------------------------------
(***************************************************************************)
(* What Visitor's operations do to the entries.                            *)
(***************************************************************************)
Advanced(u) == [u EXCEPT ![Len(u)].pos = @ + 1]

\* A function on 1 .. D is a sequence.
LEMMA InRange ==
    ASSUME NEW D \in Nat, NEW v, v = [i \in 1 .. D |-> v[i]],
           NEW W, \A i \in 1 .. D : v[i] \in W
    PROVE  v \in Seq(W) /\ Len(v) = D
<1>1. v \in [1 .. D -> W]
    OBVIOUS
<1> QED BY <1>1, SeqDef, LenProperties

\* The length, the elements and the last of the entries.
LEMMA EntriesFacts ==
    ASSUME NEW s, NEW n, NEW c, Stacked(s)
    PROVE  LET u == Entries(s, n, c)
           IN  /\ Depth(s) \in Nat /\ Len(u) = Depth(s) + 1 /\ u # << >>
               /\ DOMAIN u = 1 .. Depth(s) + 1
               /\ \A i \in 1 .. Depth(s) + 1 : u[i] = Entry(s, n, c, i - 1)
               /\ Last(u) = Entry(s, n, c, Depth(s))
<1> DEFINE u == Entries(s, n, c)
           d == Depth(s) + 1
           W == {u[i] : i \in 1 .. d}
<1>1. Depth(s) \in Nat /\ d \in Nat \ {0}
  <2>1. Depth(s) \in Nat
      BY BegunCount
  <2> QED BY <2>1
<1>2. u = [i \in 1 .. d |-> Entry(s, n, c, i - 1)]
    BY DEF Entries
<1>3. DOMAIN u = 1 .. d /\ \A i \in 1 .. d : u[i] = Entry(s, n, c, i - 1)
    BY <1>2
<1>4. u = [i \in 1 .. d |-> u[i]]
    BY <1>2
<1> HIDE DEF u
<1>5. \A i \in 1 .. d : u[i] \in W
    OBVIOUS
<1> HIDE DEF W
<1>6. u \in [1 .. d -> W]
    BY <1>4, <1>5
<1> HIDE DEF d
<1>7. u \in Seq(W) /\ Len(u) = d
    BY <1>1, <1>6, SeqDef, LenProperties
<1>8. u # << >>
    BY <1>1, <1>7
<1>9. Last(u) = u[d]
    BY <1>7 DEF Last
<1>10. u[d] = Entry(s, n, c, d - 1) /\ d - 1 = Depth(s)
  <2>1. d \in 1 .. d
      BY <1>1
  <2>2. d - 1 = Depth(s)
      BY <1>1 DEF d
  <2> QED BY <1>3, <2>1, <2>2
<1> QED BY <1>1, <1>3, <1>7, <1>8, <1>9, <1>10 DEF u, W, d

\* Nothing changes.
LEMMA SameOpen ==
    ASSUME NEW s, NEW n, NEW c, Stacked(s), NEW t, NEW m, NEW d, Stacked(t),
           Depth(t) = Depth(s),
           \A k \in 0 .. Depth(s) : Entry(t, m, d, k) = Entry(s, n, c, k)
    PROVE  Entries(t, m, d) = Entries(s, n, c)
<1>1. Depth(s) \in Nat
    BY BegunCount
<1>2. \A i \in 1 .. Depth(s) + 1 : i - 1 \in 0 .. Depth(s)
    BY <1>1
<1> QED BY <1>2 DEF Entries

\* The last thing goes on to its next slot.
LEMMA PassOpen ==
    ASSUME NEW s, NEW n, NEW c, Stacked(s), NEW t, NEW m, NEW d, Stacked(t),
           Depth(t) = Depth(s),
           \A k \in 0 .. Depth(s) - 1 : Entry(t, m, d, k) = Entry(s, n, c, k),
           Entry(t, m, d, Depth(s)) = [Entry(s, n, c, Depth(s)) EXCEPT !.pos = @ + 1]
    PROVE  Entries(t, m, d) = Advanced(Entries(s, n, c))
<1> DEFINE u == Entries(s, n, c)
           D == Depth(s) + 1
<1>1. /\ Depth(s) \in Nat /\ Len(u) = D /\ DOMAIN u = 1 .. D
      /\ \A i \in 1 .. D : u[i] = Entry(s, n, c, i - 1)
    BY EntriesFacts
<1>2. u = [i \in 1 .. D |-> u[i]]
    BY DEF Entries
<1>3. Entries(t, m, d) = [i \in 1 .. D |-> Entry(t, m, d, i - 1)]
    BY DEF Entries
<1> HIDE DEF u
<1>4. D \in 1 .. D /\ D - 1 = Depth(s)
    BY <1>1
<1>5. Advanced(u) = [i \in 1 .. D |-> IF i = D THEN [u[D] EXCEPT !.pos = @ + 1] ELSE u[i]]
    BY <1>1, <1>2, <1>4 DEF Advanced
<1>6. ASSUME NEW i \in 1 .. D
      PROVE  Entry(t, m, d, i - 1) = IF i = D THEN [u[D] EXCEPT !.pos = @ + 1] ELSE u[i]
  <2>1. CASE i = D
      BY <1>1, <1>4, <2>1
  <2>2. CASE i # D
    <3>1. i - 1 \in 0 .. Depth(s) - 1
        BY <1>1, <2>2
    <3> QED BY <1>1, <2>2, <3>1
  <2> QED BY <2>1, <2>2
<1> QED BY <1>3, <1>5, <1>6 DEF u

\* And another thing begins in the slot that it leaves.
LEMMA BeginOpen ==
    ASSUME NEW s, NEW n, NEW c, Stacked(s), NEW t, NEW m, NEW d, Stacked(t)
    PROVE  /\ Depth(t) = Depth(s) + 1
           /\ \A k \in 0 .. Depth(s) - 1 : Entry(t, m, d, k) = Entry(s, n, c, k)
           /\ Entry(t, m, d, Depth(s)) = [Entry(s, n, c, Depth(s)) EXCEPT !.pos = @ + 1]
           => Entries(t, m, d) = Append(Advanced(Entries(s, n, c)), Entry(t, m, d, Depth(t)))
<1> DEFINE u == Entries(s, n, c)
           v == Entries(t, m, d)
           D == Depth(s) + 1
           W == {v[i] : i \in 1 .. Depth(t) + 1}
<1>1. /\ Len(v) = Depth(t) + 1 /\ Depth(t) + 1 \in Nat
      /\ \A i \in 1 .. Depth(t) + 1 : v[i] = Entry(t, m, d, i - 1)
  <2>1. /\ Len(v) = Depth(t) + 1 /\ Depth(t) \in Nat
        /\ \A i \in 1 .. Depth(t) + 1 : v[i] = Entry(t, m, d, i - 1)
      BY EntriesFacts
  <2> HIDE DEF v
  <2> QED BY <2>1
<1>2. v = [i \in 1 .. Depth(t) + 1 |-> v[i]]
    BY DEF Entries
<1>3. v \in Seq(W)
  <2>1. \A i \in 1 .. Depth(t) + 1 : v[i] \in W
      OBVIOUS
  <2> HIDE DEF v, W
  <2> QED BY <1>1, <1>2, <2>1, InRange
<1>4. /\ Depth(s) \in Nat /\ Len(u) = D /\ DOMAIN u = 1 .. D
      /\ \A i \in 1 .. D : u[i] = Entry(s, n, c, i - 1)
    BY EntriesFacts
<1> SUFFICES
      ASSUME Depth(t) = Depth(s) + 1,
             \A k \in 0 .. Depth(s) - 1 : Entry(t, m, d, k) = Entry(s, n, c, k),
             Entry(t, m, d, Depth(s)) = [Entry(s, n, c, Depth(s)) EXCEPT !.pos = @ + 1]
      PROVE  v = Append(Advanced(u), Entry(t, m, d, Depth(t)))
    OBVIOUS
<1>5. u = [i \in 1 .. D |-> u[i]]
    BY DEF Entries
<1>6. /\ v \in Seq(W) /\ Len(v) = D + 1
      /\ \A i \in 1 .. D + 1 : v[i] = Entry(t, m, d, i - 1)
  <2>1. Depth(t) = D
      OBVIOUS
  <2> HIDE DEF v, W, D
  <2> QED BY <1>1, <1>3, <2>1
<1>7. \A i \in 1 .. D + 1 : v[i] \in W
    OBVIOUS
<1> HIDE DEF u, v, W
<1>8. D \in 1 .. D /\ D - 1 = Depth(s) /\ D \in Nat
    BY <1>4
<1>9. Advanced(u) = [i \in 1 .. D |-> IF i = D THEN [u[D] EXCEPT !.pos = @ + 1] ELSE u[i]]
    BY <1>4, <1>5, <1>8 DEF Advanced
<1>10. ASSUME NEW i \in 1 .. D
      PROVE  v[i] = IF i = D THEN [u[D] EXCEPT !.pos = @ + 1] ELSE u[i]
  <2>1. v[i] = Entry(t, m, d, i - 1)
      BY <1>6, <1>8
  <2>2. CASE i = D
      BY <1>4, <1>8, <2>1, <2>2
  <2>3. CASE i # D
    <3>1. i - 1 \in 0 .. Depth(s) - 1
        BY <1>4, <2>3
    <3> QED BY <1>4, <2>1, <2>3, <3>1
  <2> QED BY <2>2, <2>3
<1>11. Advanced(u) = [i \in 1 .. D |-> v[i]]
    BY <1>9, <1>10
<1>12. v[D + 1] = Entry(t, m, d, Depth(t)) /\ v[D + 1] \in W
  <2>1. D + 1 \in 1 .. D + 1 /\ (D + 1) - 1 = Depth(t)
      BY <1>4
  <2> HIDE DEF D
  <2> QED BY <1>6, <1>7, <2>1
<1> DEFINE a == [i \in 1 .. D |-> v[i]]
<1> HIDE DEF D
<1>13. a \in Seq(W) /\ Len(a) = D /\ \A i \in 1 .. D : a[i] = v[i]
    BY <1>7, <1>8
<1> HIDE DEF a
<1>14. v = Append(a, v[D + 1])
    BY <1>6, <1>8, <1>12, <1>13
<1> QED BY <1>11, <1>12, <1>14 DEF u, v, a

\* The last thing ends.
LEMMA EndOpen ==
    ASSUME NEW s, NEW n, NEW c, Stacked(s), NEW t, NEW m, NEW d, Stacked(t),
           Depth(s) = Depth(t) + 1,
           \A k \in 0 .. Depth(t) : Entry(t, m, d, k) = Entry(s, n, c, k)
    PROVE  Entries(t, m, d) = Front(Entries(s, n, c))
<1> DEFINE u == Entries(s, n, c)
           v == Entries(t, m, d)
           W == {u[i] : i \in 1 .. Depth(s) + 1}
           D == Depth(t) + 1
<1>1. /\ Depth(s) \in Nat /\ Len(u) = D + 1 /\ u \in Seq(W) /\ u # << >>
      /\ \A i \in 1 .. D + 1 : u[i] = Entry(s, n, c, i - 1)
  <2>1. /\ Depth(s) \in Nat /\ Len(u) = D + 1 /\ u # << >>
        /\ \A i \in 1 .. D + 1 : u[i] = Entry(s, n, c, i - 1)
      BY EntriesFacts
  <2>2. u = [i \in 1 .. Depth(s) + 1 |-> u[i]]
      BY DEF Entries
  <2>3. \A i \in 1 .. Depth(s) + 1 : u[i] \in W
      OBVIOUS
  <2> HIDE DEF u, W
  <2>4. Depth(s) + 1 \in Nat
      BY <2>1
  <2>5. u \in Seq(W)
      BY <2>2, <2>3, <2>4, InRange
  <2> QED BY <2>1, <2>5
<1>2. Depth(t) \in Nat /\ v = [i \in 1 .. D |-> Entry(t, m, d, i - 1)]
    BY BegunCount DEF Entries
<1> HIDE DEF u, v, W
<1>3. \A i \in 1 .. D : Entry(t, m, d, i - 1) = u[i]
  <2>1. \A i \in 1 .. D : i - 1 \in 0 .. Depth(t) /\ i \in 1 .. D + 1
      BY <1>2
  <2> QED BY <1>1, <2>1
<1>4. v = [i \in 1 .. D |-> u[i]]
    BY <1>2, <1>3
<1> HIDE DEF D
<1>5. /\ Front(u) \in Seq(W) /\ Len(Front(u)) = D
      /\ \A i \in 1 .. D : Front(u)[i] = u[i]
  <2>1. /\ Front(u) \in Seq(W) /\ Len(Front(u)) = Len(u) - 1
        /\ \A k \in 1 .. Len(u) - 1 : Front(u)[k] = u[k]
      BY <1>1, FrontFacts
  <2>2. Len(u) - 1 = D
      BY <1>1, <1>2 DEF D
  <2> QED BY <2>1, <2>2
<1>6. Front(u) = [i \in 1 .. D |-> Front(u)[i]]
    BY <1>5
<1> QED BY <1>4, <1>5, <1>6 DEF u, v

-----------------------------------------------------------------------------
(***************************************************************************)
(* What the steps of the walk do to the entries.                           *)
(***************************************************************************)
\* The entries of the first N - 1 activations depend on those and on whether the
\* next one has begun.
LEMMA Lower ==
    ASSUME NEW s, NEW n, NEW c, Stacked(s), NEW t, NEW m, NEW d, Stacked(t),
           c # 0, d # 0,
           NEW N \in Nat \ {0}, N <= Len(s), N <= Len(t),
           \A j \in 1 .. N - 1 : t[j] = s[j],
           \A j \in 1 .. N - 2 : m[j] = n[j],
           HasBegun(t[N]) <=> HasBegun(s[N]),
           NEW k \in 0 .. N - 1
    PROVE  Entry(t, m, d, k) = Entry(s, n, c, k)
<1>1. /\ s \in Seq(Frame) /\ t \in Seq(Frame) /\ Len(s) \in Nat /\ Len(t) \in Nat
      /\ s # << >> /\ t # << >>
  <2>1. s \in Seq(Frame) /\ t \in Seq(Frame)
      BY DEF Stacked
  <2>2. Len(s) \in Nat /\ Len(t) \in Nat
      BY <2>1
  <2> QED BY <2>1, <2>2
<1>2. CASE k = 0
  <2>1. HasBegun(t[1]) <=> HasBegun(s[1])
    <3>1. CASE N = 1
        BY <3>1
    <3>2. CASE N # 1
      <4>1. 1 \in 1 .. N - 1
          BY <3>2
      <4> QED BY <4>1
    <3> QED BY <3>1, <3>2
  <2> QED BY <1>1, <1>2, <2>1 DEF Entry
<1>3. CASE k # 0
  <2>1. k \in 1 .. N - 1 /\ k # Len(s) /\ k # Len(t)
      BY <1>1, <1>3
  <2>2. HasBegun(t[k + 1]) <=> HasBegun(s[k + 1])
    <3>1. CASE k + 1 = N
        BY <3>1
    <3>2. CASE k + 1 # N
      <4>1. k + 1 \in 1 .. N - 1
          BY <2>1, <3>2
      <4> QED BY <4>1
    <3> QED BY <3>1, <3>2
  <2>3. NameAt(m, k) = NameAt(n, k)
    <3>1. CASE k = 1
        BY <3>1 DEF NameAt
    <3>2. CASE k # 1
      <4>1. k - 1 \in 1 .. N - 2
          BY <2>1, <3>2
      <4> QED BY <3>2, <4>1 DEF NameAt
    <3> QED BY <3>1, <3>2
  <2> QED BY <1>3, <2>1, <2>2, <2>3 DEF Entry, Inside
<1> QED BY <1>2, <1>3

\* When what it waits for begins, an activation goes on to the next slot.
LEMMA Enter ==
    ASSUME NEW f \in Frame, Waits(f)
    PROVE  /\ Position(f, 0) \in Nat
           /\ Position(f, 1) = Position(f, 0) + 1
<1>1. f.i \in Nat /\ Bases(f.type) \in {0, 1}
    BY DEF Frame, Bases
<1>2. CASE f.at = "left base" \/ f.at = "left member"
  <2>1. Position(f, 0) = 1 + 0 /\ Position(f, 1) = 1 + 1
      BY <1>2, Zenon DEF Position
  <2> QED BY <2>1
<1>3. CASE f.at = "left item"
  <2>1. /\ Position(f, 0) = Bases(f.type) + f.i + 0
        /\ Position(f, 1) = Bases(f.type) + f.i + 1
      BY <1>3, Zenon DEF Position
  <2> QED BY <1>1, <2>1
<1> QED BY <1>2, <1>3 DEF Waits

\* The things of two states of one activation.
SameThing(f, g) ==
    /\ g.kind = f.kind /\ g.meta = f.meta /\ g.type = f.type /\ g.node = f.node
    /\ g.kind = "CHOICE" => g.i = f.i

\* An activation that moves on stands for the same thing.
LEMMA SameThingIs ==
    ASSUME NEW f \in Frame, NEW g \in Frame, SameThing(f, g), NEW name
    PROVE  Thing(g, name) = Thing(f, name)
  BY DEF SameThing, Thing, Frame

\* The last entry.
LEMMA LastOpen ==
    ASSUME NEW s, NEW n, NEW c, Stacked(s), s # << >>
    PROVE  /\ Len(s) \in Nat \ {0}
           /\ HasBegun(s[Len(s)]) =>
                 /\ Depth(s) = Len(s)
                 /\ Last(Entries(s, n, c)) =
                      [thing |-> Thing(s[Len(s)], NameAt(n, Len(s))),
                       pos |-> Position(s[Len(s)], 1)]
           /\ ~HasBegun(s[Len(s)]) =>
                 /\ Depth(s) = Len(s) - 1
                 /\ Last(Entries(s, n, c)) = Entry(s, n, c, Len(s) - 1)
<1>1. s \in Seq(Frame)
    BY DEF Stacked
<1>2. Len(s) \in Nat \ {0}
    BY <1>1, EmptySeq
<1>3. Last(Entries(s, n, c)) = Entry(s, n, c, Depth(s))
    BY EntriesFacts
<1>4. ASSUME HasBegun(s[Len(s)])
      PROVE  /\ Depth(s) = Len(s)
             /\ Last(Entries(s, n, c)) =
                  [thing |-> Thing(s[Len(s)], NameAt(n, Len(s))),
                   pos |-> Position(s[Len(s)], 1)]
  <2>1. Depth(s) = Len(s)
      BY <1>4 DEF Depth
  <2>2. Len(s) # 0
      BY <1>2
  <2> QED BY <1>3, <2>1, <2>2 DEF Entry, Inside
<1>5. ASSUME ~HasBegun(s[Len(s)])
      PROVE  /\ Depth(s) = Len(s) - 1
             /\ Last(Entries(s, n, c)) = Entry(s, n, c, Len(s) - 1)
  <2>1. Depth(s) = Len(s) - 1
      BY <1>5 DEF Depth
  <2> QED BY <1>3, <2>1
<1> QED BY <1>2, <1>4, <1>5

\* A step leaves all activations but the one on top as they are ...
Over(s, n, t, m) ==
    /\ StacksOK(s, n) /\ StacksOK(t, m) /\ s # << >>
    /\ Len(t) >= Len(s) - 1
    /\ \A j \in 1 .. Len(s) - 1 : t[j] = s[j]

\* ... and so the names of what they wait for.
LEMMA OverFacts ==
    ASSUME NEW s, NEW n, NEW t, NEW m, Over(s, n, t, m)
    PROVE  /\ Stacked(s) /\ Stacked(t)
           /\ Len(s) \in Nat \ {0} /\ Len(t) \in Nat
           /\ \A j \in 1 .. Len(s) - 1 : m[j] = n[j] /\ HasBegun(s[j])
<1>1. /\ StacksOK(s, n) /\ StacksOK(t, m) /\ s # << >>
      /\ Len(t) >= Len(s) - 1 /\ \A j \in 1 .. Len(s) - 1 : t[j] = s[j]
    BY DEF Over
<1>2. s \in Seq(Frame) /\ t \in Seq(Frame)
    BY <1>1 DEF StacksOK, FramesOK
<1>3. /\ Len(n) = NameCount(s) /\ \A k \in 1 .. Len(n) : n[k] = FieldOf(s[k])
      /\ Len(m) = NameCount(t) /\ \A k \in 1 .. Len(m) : m[k] = FieldOf(t[k])
      /\ \A k \in 1 .. Len(s) - 1 : Waits(s[k])
      /\ \A k \in 1 .. Len(t) - 1 : Waits(t[k])
    BY <1>1 DEF StacksOK, NamesOK
<1>4. Len(s) \in Nat \ {0} /\ Len(t) \in Nat
    BY <1>1, <1>2, EmptySeq
<1>5. \A k \in 1 .. Len(s) - 1 : HasBegun(s[k])
    BY <1>3 DEF HasBegun, Waits
<1>6. Len(n) >= Len(s) - 1
    BY <1>1, <1>3, <1>4 DEF NameCount
<1>7. Len(m) >= Len(s) - 1
  <2>1. CASE t = << >>
    <3>1. Len(t) = 0
        BY <2>1
    <3> QED BY <1>1, <1>3, <1>4, <2>1, <3>1 DEF NameCount
  <2>2. CASE t # << >> /\ Len(t) = Len(s) - 1
    <3>1. Len(t) \in 1 .. Len(s) - 1
        BY <1>2, <1>4, <2>2, EmptySeq
    <3>2. Waits(t[Len(t)])
        BY <1>1, <1>3, <3>1
    <3> QED BY <1>3, <1>4, <2>2, <3>2 DEF NameCount
  <2>3. CASE t # << >> /\ Len(t) # Len(s) - 1
    <3>1. Len(t) - 1 >= Len(s) - 1
        BY <1>1, <1>4, <2>3
    <3>2. Len(m) >= Len(t) - 1
        BY <1>3, <1>4, <2>3 DEF NameCount
    <3>3. Len(m) \in Int
        BY <1>3, <1>4 DEF NameCount
    <3> QED BY <1>4, <3>1, <3>2, <3>3
  <2> QED BY <2>1, <2>2, <2>3
<1>8. Len(n) \in Int /\ Len(m) \in Int
    BY <1>3, <1>4 DEF NameCount
<1>9. ASSUME NEW j \in 1 .. Len(s) - 1 PROVE m[j] = n[j]
  <2>1. j \in 1 .. Len(n) /\ j \in 1 .. Len(m)
      BY <1>4, <1>6, <1>7, <1>8
  <2> QED BY <1>1, <1>3, <2>1
<1>10. Stacked(s) /\ Stacked(t)
    BY <1>2, <1>3 DEF Stacked
<1> QED BY <1>4, <1>5, <1>9, <1>10

\* A name below those that a step changes.
Agree(n, m, N) == \A j \in 1 .. N - 1 : m[j] = n[j]

\* The name that activation k was called for, when the names below N agree.
LEMMA NameStays ==
    ASSUME NEW N \in Nat, NEW n, NEW m, Agree(n, m, N), NEW k \in 1 .. N
    PROVE  NameAt(m, k) = NameAt(n, k)
<1>1. CASE k = 1
    BY <1>1 DEF NameAt
<1>2. CASE k # 1
  <2>1. k - 1 \in 1 .. N - 1
      BY <1>2
  <2> QED BY <1>2, <2>1 DEF NameAt, Agree
<1> QED BY <1>1, <1>2

\* Unless the activation on top, e, was about to begin or returns, it is the same
\* thing f after a step, and what is below does not change.
Below(s, n, c, t, m, d, N, e, f) ==
    /\ Stacked(s) /\ Stacked(t) /\ N \in Nat \ {0} /\ t # << >>
    /\ Depth(s) = N
    /\ \A k \in 0 .. N - 1 : Entry(t, m, d, k) = Entry(s, n, c, k)
    /\ Entry(s, n, c, N) = [thing |-> Thing(e, NameAt(n, N)), pos |-> Position(e, 1)]
    /\ Entry(t, m, d, N) = [thing |-> Thing(e, NameAt(n, N)),
                            pos |-> Position(f, Inside(t, N))]

\* What Below says holds of every such step.
LEMMA SameBelow ==
    ASSUME NEW s, NEW n, NEW c, NEW t, NEW m, NEW d, Over(s, n, t, m),
           c # 0, d # 0, NEW N, N = Len(s), Len(t) >= N,
           NEW e, NEW f, e \in Frame, f \in Frame, s[N] = e, t[N] = f,
           HasBegun(e), HasBegun(f), SameThing(e, f)
    PROVE  Below(s, n, c, t, m, d, N, e, f)
<1>1. /\ Stacked(s) /\ Stacked(t) /\ N \in Nat \ {0} /\ Len(t) \in Nat
      /\ \A j \in 1 .. N - 1 : m[j] = n[j]
    BY OverFacts
<1>2. \A j \in 1 .. N - 1 : t[j] = s[j]
    BY DEF Over
<1>3. s # << >> /\ t # << >>
    BY <1>1
<1>4. Depth(s) = N
    BY <1>3 DEF Depth
<1>5. \A k \in 0 .. N - 1 : Entry(t, m, d, k) = Entry(s, n, c, k)
  <2>1. \A j \in 1 .. N - 2 : m[j] = n[j]
      BY <1>1
  <2>2. N <= Len(s) /\ N <= Len(t)
      BY <1>1
  <2>3. HasBegun(t[N]) <=> HasBegun(s[N])
      OBVIOUS
  <2> QED BY <1>1, <1>2, <2>1, <2>2, <2>3, Lower
<1>6. NameAt(m, N) = NameAt(n, N)
  <2>1. N \in 1 .. N /\ N \in Nat /\ Agree(n, m, N)
      BY <1>1 DEF Agree
  <2> QED BY <2>1, NameStays
<1>7. Thing(f, NameAt(n, N)) = Thing(e, NameAt(n, N))
    BY SameThingIs
<1>8. N # 0 /\ Inside(s, N) = 1
    BY <1>1 DEF Inside
<1>9. Entry(s, n, c, N) = [thing |-> Thing(e, NameAt(n, N)), pos |-> Position(e, 1)]
    BY <1>8 DEF Entry
<1>10. Entry(t, m, d, N) = [thing |-> Thing(e, NameAt(n, N)),
                            pos |-> Position(f, Inside(t, N))]
    BY <1>6, <1>7, <1>8 DEF Entry
<1> QED BY <1>1, <1>3, <1>4, <1>5, <1>9, <1>10 DEF Below

\* A step within an activation.
Stays(s, n, c, t, m, d, N, e, f) ==
    /\ Position(f, 1) = Position(e, 1) => Entries(t, m, d) = Entries(s, n, c)
    /\ Position(f, 1) = Position(e, 1) + 1 => Entries(t, m, d) = Advanced(Entries(s, n, c))

\* The last thing stays where it is or goes on to its next slot.
LEMMA StayOpen ==
    ASSUME NEW s, NEW n, NEW c, NEW t, NEW m, NEW d, Over(s, n, t, m),
           c # 0, d # 0, NEW N, N = Len(s), Len(t) = N,
           NEW e, NEW f, e \in Frame, f \in Frame, s[N] = e, t[N] = f,
           HasBegun(e), HasBegun(f), SameThing(e, f)
    PROVE  Stays(s, n, c, t, m, d, N, e, f)
<1>1. N \in Nat \ {0} /\ Len(t) >= N
    BY OverFacts
<1>2. Below(s, n, c, t, m, d, N, e, f)
    BY <1>1, SameBelow
<1>3. /\ Stacked(s) /\ Stacked(t) /\ t # << >> /\ Depth(s) = N
      /\ \A k \in 0 .. N - 1 : Entry(t, m, d, k) = Entry(s, n, c, k)
      /\ Entry(s, n, c, N) = [thing |-> Thing(e, NameAt(n, N)), pos |-> Position(e, 1)]
      /\ Entry(t, m, d, N) = [thing |-> Thing(e, NameAt(n, N)),
                              pos |-> Position(f, Inside(t, N))]
    BY <1>2 DEF Below
<1>4. Inside(t, N) = 1
    BY DEF Inside
<1>5. Depth(t) = N
    BY <1>3 DEF Depth
<1>6. ASSUME Position(f, 1) = Position(e, 1)
      PROVE  Entries(t, m, d) = Entries(s, n, c)
  <2>1. \A k \in 0 .. N : k = N \/ k \in 0 .. N - 1
      BY <1>1
  <2>2. \A k \in 0 .. N : Entry(t, m, d, k) = Entry(s, n, c, k)
      BY <1>3, <1>4, <1>6, <2>1
  <2> QED BY <1>3, <1>5, <2>2, SameOpen
<1>7. ASSUME Position(f, 1) = Position(e, 1) + 1
      PROVE  Entries(t, m, d) = Advanced(Entries(s, n, c))
  <2>1. Entry(t, m, d, N) = [Entry(s, n, c, N) EXCEPT !.pos = @ + 1]
      BY <1>3, <1>4, <1>7
  <2> QED BY <1>3, <1>5, <2>1, PassOpen
<1> QED BY <1>6, <1>7 DEF Stays

\* A call of what has not begun yet.
CallsOn(s, n, c, t, m, d, N, e, f) ==
    /\ Entries(t, m, d) = Entries(s, n, c)
    /\ Entry(t, m, d, N) = [thing |-> Thing(e, NameAt(n, N)), pos |-> Position(e, 1)]

\* Nothing changes but who waits.
LEMMA CallOpen ==
    ASSUME NEW s, NEW n, NEW c, NEW t, NEW m, NEW d, Over(s, n, t, m),
           c # 0, d # 0, NEW N, N = Len(s), Len(t) = N + 1,
           NEW e, NEW f, e \in Frame, f \in Frame, s[N] = e, t[N] = f,
           HasBegun(e), HasBegun(f), SameThing(e, f),
           ~HasBegun(t[N + 1]),
           Position(f, 0) = Position(e, 1)
    PROVE  CallsOn(s, n, c, t, m, d, N, e, f)
<1>1. N \in Nat \ {0} /\ Len(t) >= N /\ N # N + 1 /\ (N + 1) - 1 = N
  <2>1. N \in Nat \ {0}
      BY OverFacts
  <2> QED BY <2>1
<1>2. Below(s, n, c, t, m, d, N, e, f)
    BY <1>1, SameBelow
<1>3. /\ Stacked(s) /\ Stacked(t) /\ t # << >> /\ Depth(s) = N
      /\ \A k \in 0 .. N - 1 : Entry(t, m, d, k) = Entry(s, n, c, k)
      /\ Entry(s, n, c, N) = [thing |-> Thing(e, NameAt(n, N)), pos |-> Position(e, 1)]
      /\ Entry(t, m, d, N) = [thing |-> Thing(e, NameAt(n, N)),
                              pos |-> Position(f, Inside(t, N))]
    BY <1>2 DEF Below
<1>4. Inside(t, N) = 0
    BY <1>1 DEF Inside
<1>5. Depth(t) = N
    BY <1>1, <1>3 DEF Depth
<1>6. \A k \in 0 .. N : k = N \/ k \in 0 .. N - 1
    BY <1>1
<1>7. \A k \in 0 .. N : Entry(t, m, d, k) = Entry(s, n, c, k)
    BY <1>3, <1>4, <1>6
<1>8. Entries(t, m, d) = Entries(s, n, c)
    BY <1>3, <1>5, <1>7, SameOpen
<1> QED BY <1>3, <1>4, <1>8 DEF CallsOn

\* The CHOICE case of recurse_any, which begins with its call.
ChoosesOn(s, n, c, t, m, d, N, e, f, g) ==
    Entries(t, m, d) = Append(Advanced(Entries(s, n, c)),
                              [thing |-> Thing(g, m[N]), pos |-> Position(g, 1)])

\* The last thing goes on, and the choice is open.
LEMMA ChooseOpen ==
    ASSUME NEW s, NEW n, NEW c, NEW t, NEW m, NEW d, Over(s, n, t, m),
           c # 0, d # 0, NEW N, N = Len(s), Len(t) = N + 1,
           NEW e, NEW f, e \in Frame, f \in Frame, s[N] = e, t[N] = f,
           HasBegun(e), HasBegun(f), SameThing(e, f),
           NEW g, t[N + 1] = g, HasBegun(g),
           Position(f, 1) = Position(e, 1) + 1
    PROVE  ChoosesOn(s, n, c, t, m, d, N, e, f, g)
<1>1. /\ N \in Nat \ {0} /\ Len(t) >= N
      /\ N + 1 # 0 /\ N + 1 # 1 /\ (N + 1) - 1 = N
  <2>1. N \in Nat \ {0}
      BY OverFacts
  <2> QED BY <2>1
<1>2. Below(s, n, c, t, m, d, N, e, f)
    BY <1>1, SameBelow
<1>3. /\ Stacked(s) /\ Stacked(t) /\ t # << >> /\ Depth(s) = N
      /\ \A k \in 0 .. N - 1 : Entry(t, m, d, k) = Entry(s, n, c, k)
      /\ Entry(s, n, c, N) = [thing |-> Thing(e, NameAt(n, N)), pos |-> Position(e, 1)]
      /\ Entry(t, m, d, N) = [thing |-> Thing(e, NameAt(n, N)),
                              pos |-> Position(f, Inside(t, N))]
    BY <1>2 DEF Below
<1>4. Inside(t, N) = 1 /\ Inside(t, N + 1) = 1
    BY DEF Inside
<1>5. Depth(t) = N + 1
    BY <1>3 DEF Depth
<1>6. Entry(t, m, d, N) = [Entry(s, n, c, N) EXCEPT !.pos = @ + 1]
    BY <1>3, <1>4
<1>7. NameAt(m, N + 1) = m[N]
    BY <1>1 DEF NameAt
<1>8. Entry(t, m, d, N + 1) = [thing |-> Thing(g, m[N]), pos |-> Position(g, 1)]
    BY <1>1, <1>4, <1>7 DEF Entry
<1>9. Entries(t, m, d) = Append(Advanced(Entries(s, n, c)), Entry(t, m, d, N + 1))
    BY <1>3, <1>5, <1>6, BeginOpen
<1> QED BY <1>8, <1>9 DEF ChoosesOn

\* What was next before begins, in the slot of its holder.
LEMMA BeginsOpen ==
    ASSUME NEW s, NEW n, NEW c, NEW t, NEW m, NEW d, Over(s, n, t, m),
           c # 0, d # 0, Len(t) = Len(s),
           NEW f, t[Len(s)] = f, ~HasBegun(s[Len(s)]), HasBegun(f)
    PROVE  Entries(t, m, d) =
               Append(Advanced(Entries(s, n, c)),
                      [thing |-> Thing(f, NameAt(n, Len(s))), pos |-> Position(f, 1)])
<1> DEFINE N == Len(s)
<1>1. /\ Stacked(s) /\ Stacked(t) /\ N \in Nat \ {0}
      /\ \A j \in 1 .. N - 1 : m[j] = n[j] /\ HasBegun(s[j])
    BY OverFacts
<1>2. \A j \in 1 .. N - 1 : t[j] = s[j]
    BY DEF Over
<1>3. Depth(s) = N - 1 /\ Depth(t) = N /\ s # << >> /\ t # << >>
  <2>1. s # << >> /\ t # << >>
      BY <1>1
  <2> QED BY <1>1, <2>1 DEF Depth
<1>4. NameAt(m, N) = NameAt(n, N)
  <2> HIDE DEF N
  <2>1. N \in 1 .. N /\ N \in Nat /\ Agree(n, m, N)
      BY <1>1 DEF Agree
  <2> QED BY <2>1, NameStays
<1>5. Entry(t, m, d, N) = [thing |-> Thing(f, NameAt(n, N)), pos |-> Position(f, 1)]
  <2>1. N # 0 /\ Inside(t, N) = 1
      BY <1>1 DEF Inside
  <2> QED BY <1>4, <2>1 DEF Entry
<1>6. /\ \A k \in 0 .. N - 2 : Entry(t, m, d, k) = Entry(s, n, c, k)
      /\ Entry(t, m, d, N - 1) = [Entry(s, n, c, N - 1) EXCEPT !.pos = @ + 1]
  <2>1. CASE N = 1
    <3>1. /\ Entry(s, n, c, 0) = [thing |-> OutsideThing, pos |-> 1]
          /\ Entry(t, m, d, 0) = [thing |-> OutsideThing, pos |-> 2]
        BY <1>3, <2>1 DEF Entry
    <3>2. N - 1 = 0 /\ 0 .. N - 2 = {}
        BY <2>1
    <3> HIDE DEF N
    <3> QED BY <3>1, <3>2
  <2>2. CASE N # 1
    <3> DEFINE M == N - 1
    <3>1. /\ M \in Nat \ {0} /\ M <= Len(s) /\ M <= Len(t) /\ M # Len(s) /\ M # Len(t)
          /\ M - 1 = N - 2 /\ M \in 1 .. N - 1 /\ M + 1 = N
        BY <1>1, <2>2
    <3> HIDE DEF M, N
    <3>2. t[M] = s[M] /\ HasBegun(s[M])
        BY <1>1, <1>2, <3>1
    <3>3. /\ \A j \in 1 .. M - 1 : t[j] = s[j]
          /\ \A j \in 1 .. M - 2 : m[j] = n[j]
        BY <1>1, <1>2, <3>1
    <3>4. \A k \in 0 .. M - 1 : Entry(t, m, d, k) = Entry(s, n, c, k)
        BY <1>1, <3>1, <3>2, <3>3, Lower
    <3>5. NameAt(m, M) = NameAt(n, M)
      <4>1. M \in 1 .. N /\ N \in Nat /\ Agree(n, m, N)
          BY <1>1, <3>1 DEF Agree
      <4> QED BY <4>1, NameStays
    <3>6. Inside(s, M) = 0 /\ Inside(t, M) = 1
        BY <3>1 DEF Inside, N
    <3>7. /\ Entry(s, n, c, M) = [thing |-> Thing(s[M], NameAt(n, M)),
                                  pos |-> Position(s[M], 0)]
          /\ Entry(t, m, d, M) = [thing |-> Thing(s[M], NameAt(n, M)),
                                  pos |-> Position(s[M], 1)]
        BY <3>1, <3>2, <3>5, <3>6 DEF Entry
    <3>8. s[M] \in Frame /\ Waits(s[M])
        BY <1>1, <3>1 DEF Stacked, N
    <3>9. Position(s[M], 1) = Position(s[M], 0) + 1
        BY <3>8, Enter
    <3>10. Entry(t, m, d, M) = [Entry(s, n, c, M) EXCEPT !.pos = @ + 1]
        BY <3>7, <3>9
    <3> QED BY <3>1, <3>4, <3>10 DEF M
  <2> QED BY <2>1, <2>2
<1> HIDE DEF N
<1>7. N = (N - 1) + 1 /\ (N - 1) - 1 = N - 2
    BY <1>1
<1>8. Entries(t, m, d) = Append(Advanced(Entries(s, n, c)), Entry(t, m, d, N))
    BY <1>1, <1>3, <1>6, <1>7, BeginOpen
<1> QED BY <1>5, <1>8 DEF N

\* A return.
LEMMA ReturnOpen ==
    ASSUME NEW s, NEW n, NEW c, NEW t, NEW m, NEW d, Over(s, n, t, m),
           c # 0, d # 0, Len(t) = Len(s) - 1, HasBegun(s[Len(s)])
    PROVE  Entries(t, m, d) = Front(Entries(s, n, c))
<1> DEFINE N == Len(s)
           M == N - 1
<1>1. /\ Stacked(s) /\ Stacked(t) /\ N \in Nat \ {0}
      /\ \A j \in 1 .. N - 1 : m[j] = n[j] /\ HasBegun(s[j])
    BY OverFacts
<1>2. \A j \in 1 .. N - 1 : t[j] = s[j]
    BY DEF Over
<1>3. Depth(s) = N
    BY <1>1 DEF Depth
<1>4. CASE N = 1
  <2>1. t = << >>
    <3>1. Len(t) = 0
        BY <1>4
    <3>2. t \in Seq(Frame)
        BY <1>1 DEF Stacked
    <3> QED BY <3>1, <3>2, EmptySeq
  <2>2. Depth(t) = 0
      BY <2>1 DEF Depth
  <2>3. /\ Entry(s, n, c, 0) = [thing |-> OutsideThing, pos |-> 2]
        /\ Entry(t, m, d, 0) = [thing |-> OutsideThing, pos |-> 2]
      BY <1>1, <1>4, <2>1 DEF Entry
  <2>4. Depth(s) = Depth(t) + 1
      BY <1>3, <1>4, <2>2
  <2>5. \A k \in 0 .. Depth(t) : k = 0
      BY <2>2
  <2> QED BY <1>1, <2>3, <2>4, <2>5, EndOpen
<1>5. CASE N # 1
  <2>1. /\ M \in Nat \ {0} /\ M <= Len(s) /\ M <= Len(t) /\ M # Len(s) /\ M = Len(t)
        /\ M \in 1 .. N - 1 /\ M + 1 = N
      BY <1>1, <1>5
  <2> HIDE DEF M, N
  <2>2. t[M] = s[M] /\ HasBegun(s[M])
      BY <1>1, <1>2, <2>1
  <2>3. /\ \A j \in 1 .. M - 1 : t[j] = s[j]
        /\ \A j \in 1 .. M - 2 : m[j] = n[j]
      BY <1>1, <1>2, <2>1
  <2>4. \A k \in 0 .. M - 1 : Entry(t, m, d, k) = Entry(s, n, c, k)
      BY <1>1, <2>1, <2>2, <2>3, Lower
  <2>5. NameAt(m, M) = NameAt(n, M)
    <3>1. M \in 1 .. N /\ N \in Nat /\ Agree(n, m, N)
        BY <1>1, <2>1 DEF Agree
    <3> QED BY <3>1, NameStays
  <2>6. Inside(s, M) = 1 /\ Inside(t, M) = 1
      BY <2>1 DEF Inside, N
  <2>7. Entry(t, m, d, M) = Entry(s, n, c, M)
      BY <2>1, <2>2, <2>5, <2>6 DEF Entry
  <2>8. t # << >>
      BY <2>1
  <2>9. Depth(t) = M /\ Depth(s) = M + 1
      BY <1>3, <2>1, <2>2, <2>8 DEF Depth
  <2>10. \A k \in 0 .. M : k = M \/ k \in 0 .. M - 1
      BY <2>1
  <2>11. \A k \in 0 .. M : Entry(t, m, d, k) = Entry(s, n, c, k)
      BY <2>4, <2>7, <2>10
  <2> QED BY <1>1, <2>9, <2>11, EndOpen
<1> QED BY <1>4, <1>5

-----------------------------------------------------------------------------
(***************************************************************************)
(* The slots of a thing, from what the tables say of its structure.        *)
(***************************************************************************)
SlotOf(item, owner) == Visit!ItemSlot(item, owner)

\* A sequence with one more element in front.
LEMMA InFront ==
    ASSUME NEW W, NEW z \in W, NEW v \in Seq(W)
    PROVE  /\ Len(<<z>> \o v) = 1 + Len(v) /\ (<<z>> \o v)[1] = z
           /\ \A k \in 1 .. Len(v) : (<<z>> \o v)[1 + k] = v[k]
<1>1. <<z>> \in Seq(W) /\ Len(<<z>>) = 1 /\ <<z>>[1] = z
    OBVIOUS
<1>2. /\ Len(<<z>> \o v) = Len(<<z>>) + Len(v)
      /\ \A k \in 1 .. Len(<<z>>) + Len(v) :
            (<<z>> \o v)[k] = IF k <= Len(<<z>>) THEN <<z>>[k] ELSE v[k - Len(<<z>>)]
    BY <1>1, ConcatProperties
<1>3. Len(v) \in Nat
    OBVIOUS
<1>4. \A k \in 1 .. 1 + Len(v) : (<<z>> \o v)[k] = IF k <= 1 THEN z ELSE v[k - 1]
    BY <1>1, <1>2
<1>5. (<<z>> \o v)[1] = z
  <2>1. 1 \in 1 .. 1 + Len(v)
      BY <1>3
  <2> QED BY <1>4, <2>1
<1>6. ASSUME NEW k \in 1 .. Len(v) PROVE (<<z>> \o v)[1 + k] = v[k]
  <2>1. 1 + k \in 1 .. 1 + Len(v) /\ ~(1 + k <= 1) /\ (1 + k) - 1 = k
      BY <1>3
  <2> QED BY <1>4, <2>1
<1> QED BY <1>1, <1>2, <1>5, <1>6

\* The structure a structure is based on comes first, then its items in order.
LEMMA RecSlotsAre ==
    ASSUME NEW t \in DOMAIN Schema
    PROVE  LET items == Schema[t].items
               slots == Visit!RecSlots(t)
           IN  /\ Len(items) \in Nat /\ Len(slots) = Bases(t) + Len(items)
               /\ \A i \in 1 .. Len(items) : slots[Bases(t) + i] = SlotOf(items[i], t)
               /\ Schema[t].base # "" =>
                     slots[1] = Visit!Slot("base", "BASE", Schema[t].base, FALSE)
<1> DEFINE items == Schema[t].items
           L == Len(items)
           z == Visit!Slot("base", "BASE", Schema[t].base, FALSE)
           W == {SlotOf(items[i], t) : i \in 1 .. L} \cup {z}
           v == [i \in 1 .. L |-> SlotOf(items[i], t)]
           slots == Visit!RecSlots(t)
<1>1. L \in Nat /\ DOMAIN items = 1 .. L
  <2>1. items \in Seq(AllItems)
      BY FieldsAssumption
  <2> HIDE DEF items
  <2> QED BY <2>1
<1>2. slots = (IF Schema[t].base = "" THEN << >> ELSE <<z>>) \o v
    BY <1>1 DEF Visit!RecSlots, SlotOf
<1>3. \A i \in 1 .. L : SlotOf(items[i], t) \in W
    OBVIOUS
<1>4. z \in W
    OBVIOUS
<1> HIDE DEF L, W, z, slots
<1>5. v \in Seq(W) /\ Len(v) = L /\ \A i \in 1 .. L : v[i] = SlotOf(items[i], t)
    BY <1>1, <1>3
<1> HIDE DEF v
<1>6. CASE Schema[t].base = ""
  <2>1. slots = v
      BY <1>2, <1>5, <1>6, ConcatEmptySeq
  <2>2. Bases(t) = 0
      BY <1>6 DEF Bases
  <2>3. \A i \in 1 .. L : 0 + i = i
      BY <1>1
  <2>4. Len(slots) = 0 + L /\ \A i \in 1 .. L : slots[0 + i] = SlotOf(items[i], t)
      BY <1>1, <1>5, <2>1, <2>3
  <2> QED BY <1>1, <1>6, <2>2, <2>4 DEF L, slots
<1>7. CASE Schema[t].base # ""
  <2>1. slots = <<z>> \o v
      BY <1>2, <1>7
  <2>2. Bases(t) = 1
      BY <1>7 DEF Bases
  <2>3. Len(slots) = 1 + L /\ slots[1] = z /\ \A k \in 1 .. L : slots[1 + k] = v[k]
      BY <1>4, <1>5, <2>1, InFront
  <2> QED BY <1>1, <1>5, <2>2, <2>3 DEF L, z, slots
<1> QED BY <1>6, <1>7

\* What Visitor may see next, for a structure ...
LEMMA RecCandidates ==
    ASSUME NEW f \in Frame, f.kind = "REC", f.meta \in {"NODE", "PRIV"}, NEW name,
           NEW pos
    PROVE  Visit!Candidates(Thing(f, name), pos) =
               IF pos <= Len(Visit!RecSlots(f.type))
               THEN {Visit!RecSlots(f.type)[pos]} ELSE {}
<1>1. Thing(f, name).meta = f.meta /\ Thing(f, name).type = f.type
    BY DEF Thing
<1> QED BY <1>1, Zenon DEF Visit!Candidates

\* ... and for a choice, whose name tells which it is.
LEMMA ChoiceCandidates ==
    ASSUME NEW f \in Frame, f.kind = "CHOICE", f.meta = "CHOICE", NEW name,
           NEW pos, f.i \in 1 .. Len(Schema[f.type].items)
    PROVE  LET members == Schema[f.type].items[f.i].members
           IN  Visit!Candidates(Thing(f, name), pos) =
                   IF pos = 1
                   THEN {SlotOf(members[j], f.type) : j \in 1 .. Len(members)} ELSE {}
<1> DEFINE items == Schema[f.type].items
           i == CHOOSE j \in DOMAIN items : items[j].name = items[f.i].name
           members == items[f.i].members
           slots == [j \in DOMAIN members |-> SlotOf(members[j], f.type)]
<1>1. f.type \in DOMAIN Schema
    BY DEF Frame
<1>2. items \in Seq(AllItems) /\ members \in Seq(AllMembers)
    BY <1>1, FieldsAssumption
<1>3. DOMAIN items = 1 .. Len(items) /\ DOMAIN members = 1 .. Len(members)
  <2> HIDE DEF items, members
  <2> QED BY <1>2
<1>4. \A j, k \in 1 .. Len(items) : items[j].name = items[k].name => j = k
    BY <1>1, FieldsAssumption
<1>5. i = f.i
  <2>1. f.i \in DOMAIN items
      BY <1>3
  <2>2. \E j \in DOMAIN items : items[j].name = items[f.i].name
      BY <2>1
  <2>3. i \in DOMAIN items /\ items[i].name = items[f.i].name
      BY ZenonT(60), <2>2
  <2> HIDE DEF items
  <2> HIDE DEF i
  <2> QED BY <1>3, <1>4, <2>1, <2>3
<1>6. Visit!Members(f.type, items[f.i].name) = slots
  <2>1. Visit!Members(f.type, items[f.i].name)
        = [j \in DOMAIN items[i].members |-> SlotOf(items[i].members[j], f.type)]
      BY DEF Visit!Members, SlotOf
  <2> QED BY ZenonT(60), <1>5, <2>1
<1>7. ToSet(slots) = {SlotOf(members[j], f.type) : j \in 1 .. Len(members)}
    BY <1>3 DEF ToSet
<1>8. /\ Thing(f, name).meta = "CHOICE"
      /\ Thing(f, name).type[1] = f.type /\ Thing(f, name).type[2] = items[f.i].name
    BY DEF Thing
<1> HIDE DEF items, slots
<1>9. ASSUME NEW x, x.meta = "CHOICE"
      PROVE  Visit!Candidates(x, pos) =
                 IF pos = 1 THEN ToSet(Visit!Members(x.type[1], x.type[2])) ELSE {}
  <2>1. x.meta # "OUTSIDE"
      BY <1>9
  <2> QED BY <1>9, <2>1, Zenon DEF Visit!Candidates, Visit!ToSet, ToSet
<1>10. Visit!Candidates(Thing(f, name), pos) = IF pos = 1 THEN ToSet(slots) ELSE {}
    BY <1>6, <1>8, <1>9
<1> QED BY <1>7, <1>10 DEF items

\* What is next in a place: an item or, in a choice, one of the members.
IsNext(item, f) ==
    \/ /\ f.kind = "REC" /\ f.i \in 1 .. Len(Schema[f.type].items)
       /\ item = Schema[f.type].items[f.i]
    \/ /\ f.kind = "CHOICE" /\ f.idx \in 1 .. Len(Schema[f.type].items[f.i].members)
       /\ item = Schema[f.type].items[f.i].members[f.idx]

\* Such an item is a candidate of Visitor, which may pass over a pointer.
LEMMA NextIsCandidate ==
    ASSUME NEW f \in Frame, InPlace(f), f.at \in {"item", "member"}, NEW name,
           NEW item, IsNext(item, f)
    PROVE  /\ SlotOf(item, f.type) \in Visit!Candidates(Thing(f, name), Position(f, 1))
           /\ item.meta = "NODE" => Visit!MayPass(Thing(f, name), Position(f, 1))
<1>1. f.type \in DOMAIN Schema /\ Schema[f.type].meta \in {"NODE", "PRIV"}
    BY SchemaAssumption DEF Frame
<1>2. CASE f.kind = "REC"
  <2>1. f.meta \in {"NODE", "PRIV"}
      BY <1>1, <1>2, RecPlace
  <2>2. f.at = "item" /\ f.i \in 1 .. Len(Schema[f.type].items)
        /\ item = Schema[f.type].items[f.i]
      BY <1>2, Zenon DEF IsNext, InPlace
  <2>3. Position(f, 1) = Bases(f.type) + f.i
      BY <2>2, Zenon DEF Position
  <2> DEFINE slots == Visit!RecSlots(f.type)
             p == Bases(f.type) + f.i
  <2>4. /\ Len(Schema[f.type].items) \in Nat
        /\ Len(slots) = Bases(f.type) + Len(Schema[f.type].items)
        /\ slots[p] = SlotOf(item, f.type)
      BY <1>1, <2>2, RecSlotsAre
  <2>5. p <= Len(slots)
    <3>1. Bases(f.type) \in {0, 1}
        BY DEF Bases
    <3> HIDE DEF slots
    <3> QED BY <2>2, <2>4, <3>1
  <2>6. Visit!Candidates(Thing(f, name), p) = IF p <= Len(slots) THEN {slots[p]} ELSE {}
      BY <1>2, <2>1, RecCandidates
  <2>7. Visit!Candidates(Thing(f, name), p) = {SlotOf(item, f.type)}
      BY <2>4, <2>5, <2>6
  <2>8. SlotOf(item, f.type).optional = (item.meta = "NODE")
      BY DEF SlotOf, Visit!ItemSlot, Visit!Slot
  <2> HIDE DEF p
  <2>9. item.meta = "NODE" => Visit!MayPass(Thing(f, name), p)
      BY <2>7, <2>8 DEF Visit!MayPass
  <2> QED BY <2>3, <2>7, <2>9 DEF p
<1>3. CASE f.kind = "CHOICE"
  <2>1. f.at = "member" /\ f.meta = "CHOICE" /\ f.i \in 1 .. Len(Schema[f.type].items)
      BY <1>3, Zenon DEF InPlace
  <2>2. Position(f, 1) = 1
      BY <2>1, Zenon DEF Position
  <2> DEFINE members == Schema[f.type].items[f.i].members
  <2>3. f.idx \in 1 .. Len(members) /\ item = members[f.idx]
      BY <1>3, Zenon DEF IsNext
  <2>4. Visit!Candidates(Thing(f, name), 1) =
            {SlotOf(members[j], f.type) : j \in 1 .. Len(members)}
      BY <1>3, <2>1, ChoiceCandidates
  <2>5. Thing(f, name).meta = "CHOICE"
      BY <2>1 DEF Thing
  <2> QED BY <2>2, <2>3, <2>4, <2>5 DEF Visit!MayPass
<1> QED BY <1>2, <1>3 DEF Frame

\* x belongs into the slot that is next in entry e.
Due(x, e) == \E s \in Visit!Candidates(e.thing, e.pos) : Visit!Fits(x, s, e.thing)

\* Visitor and the walk agree on what a type is based on.
LEMMA SameIsA == \A t, d : Visit!IsA(t, d) <=> IsA(t, d)
  BY DEF Visit!IsA, Visit!Lineage, IsA, Lineage

\* What recurse_any may find in the field of an item.
FoundIn(x, item, f) ==
    /\ x.name = item.name
    /\ \/ /\ item.meta = "NODE" /\ x.meta = "NODE" /\ x.node # f.node
          /\ IsA(x.type, item.type)
       \/ /\ item.meta \in {"PRIV", "ID", "BASIC"} /\ x.meta = item.meta
          /\ x.node = f.node /\ x.type = item.type
       \/ /\ item.meta = "CHOICE" /\ x.meta = "CHOICE"
          /\ x.node = f.node /\ x.type = <<f.type, item.name>>

\* What is found in the field that is next belongs there.
LEMMA FoundIsDue ==
    ASSUME NEW f \in Frame, InPlace(f), f.at \in {"item", "member"}, NEW name,
           NEW item, IsNext(item, f), NEW x, FoundIn(x, item, f)
    PROVE  Due(x, [thing |-> Thing(f, name), pos |-> Position(f, 1)])
<1> DEFINE s == SlotOf(item, f.type)
<1>1. s \in Visit!Candidates(Thing(f, name), Position(f, 1))
    BY NextIsCandidate
<1>2. /\ s.name = item.name /\ s.meta = item.meta
      /\ s.type = IF item.meta = "CHOICE" THEN <<f.type, item.name>> ELSE item.type
    BY DEF SlotOf, Visit!ItemSlot, Visit!Slot
<1>3. Thing(f, name).node = f.node
    BY DEF Thing
<1> HIDE DEF s
<1>4. Visit!Fits(x, s, Thing(f, name))
    BY <1>2, <1>3, SameIsA DEF Visit!Fits, FoundIn
<1> QED BY <1>1, <1>4 DEF Due

\* Arithmetic for the slot of a base.
LEMMA AtLeastOne == \A n \in Nat : 1 <= 1 + n
  OBVIOUS

\* The base of a node is due first ...
LEMMA BaseIsDue ==
    ASSUME NEW f \in Frame, InPlace(f), f.kind = "REC", Schema[f.type].base # "",
           NEW name, NEW x, x.name = "base", x.meta = "NODE", x.node = f.node,
           x.type = Schema[f.type].base
    PROVE  Due(x, [thing |-> Thing(f, name), pos |-> 1])
<1>1. f.type \in DOMAIN Schema /\ Schema[f.type].meta \in {"NODE", "PRIV"}
    BY SchemaAssumption DEF Frame
<1>2. f.meta \in {"NODE", "PRIV"}
    BY <1>1, RecPlace
<1> DEFINE s == Visit!Slot("base", "BASE", Schema[f.type].base, FALSE)
           slots == Visit!RecSlots(f.type)
           L == Len(Schema[f.type].items)
<1>3. L \in Nat /\ Len(slots) = Bases(f.type) + L /\ slots[1] = s
    BY <1>1, RecSlotsAre
<1>4. 1 <= Len(slots)
  <2>1. Bases(f.type) = 1
      BY DEF Bases
  <2> HIDE DEF slots, L, s
  <2> QED BY <1>3, <2>1, AtLeastOne, Zenon
<1>5. Visit!Candidates(Thing(f, name), 1) = IF 1 <= Len(slots) THEN {slots[1]} ELSE {}
    BY <1>2, RecCandidates
<1>6. s \in Visit!Candidates(Thing(f, name), 1)
    BY <1>3, <1>4, <1>5
<1>7. s.name = "base" /\ s.meta = "BASE" /\ s.type = Schema[f.type].base
    BY DEF Visit!Slot
<1>8. Thing(f, name).node = f.node
    BY DEF Thing
<1> HIDE DEF s
<1>9. Visit!Fits(x, s, Thing(f, name))
    BY <1>7, <1>8 DEF Visit!Fits
<1> QED BY <1>6, <1>9 DEF Due

\* ... and the top of the tree before anything else.
LEMMA RootIsDue ==
    ASSUME NEW x, x.meta = "NODE", x.node # 0, x.name = ""
    PROVE  Due(x, [thing |-> OutsideThing, pos |-> 1])
<1> DEFINE s == Visit!Slot("", "NODE", "", TRUE)
<1>1. OutsideThing.meta = "OUTSIDE" /\ OutsideThing.node = 0
    BY DEF OutsideThing
<1>2. Visit!Candidates(OutsideThing, 1) = {s}
    BY <1>1, Zenon DEF Visit!Candidates
<1>3. s.name = "" /\ s.meta = "NODE" /\ s.type = ""
    BY DEF Visit!Slot
<1> HIDE DEF s
<1>4. Visit!Fits(x, s, OutsideThing)
    BY <1>1, <1>3 DEF Visit!Fits
<1> QED BY <1>2, <1>4 DEF Due

\* When an activation ends, nothing is left in it to be visited.
LEMMA NothingLeft ==
    ASSUME NEW f \in Frame, InPlace(f), NEW name,
           \/ f.kind = "REC" /\ f.at = "item" /\ f.i > Len(Schema[f.type].items)
           \/ f.kind = "CHOICE" /\ f.at = "after"
    PROVE  /\ Visit!Candidates(Thing(f, name), Position(f, 1)) = {}
           /\ Thing(f, name) # OutsideThing
<1>1. f.type \in DOMAIN Schema /\ Schema[f.type].meta \in {"NODE", "PRIV"} /\ f.i \in Nat
    BY SchemaAssumption DEF Frame
<1>2. OutsideThing.meta = "OUTSIDE" /\ Thing(f, name).meta = f.meta
    BY DEF OutsideThing, Thing
<1>3. CASE f.kind = "REC"
  <2>1. f.meta \in {"NODE", "PRIV"}
      BY <1>1, <1>3, RecPlace
  <2>2. f.at = "item" /\ f.i > Len(Schema[f.type].items)
      BY <1>3
  <2> DEFINE slots == Visit!RecSlots(f.type)
             p == Bases(f.type) + f.i
  <2>3. Position(f, 1) = p
      BY <2>2, Zenon DEF Position
  <2>4. /\ Len(Schema[f.type].items) \in Nat
        /\ Len(slots) = Bases(f.type) + Len(Schema[f.type].items)
      BY <1>1, RecSlotsAre
  <2>5. ~(p <= Len(slots))
    <3>1. Bases(f.type) \in {0, 1}
        BY DEF Bases
    <3> HIDE DEF slots
    <3> QED BY <1>1, <2>2, <2>4, <3>1
  <2> HIDE DEF p
  <2>6. Visit!Candidates(Thing(f, name), p) = IF p <= Len(slots) THEN {slots[p]} ELSE {}
      BY <1>3, <2>1, RecCandidates
  <2> QED BY <1>2, <2>1, <2>3, <2>5, <2>6
<1>4. CASE f.kind = "CHOICE"
  <2>1. f.at = "after" /\ f.meta = "CHOICE" /\ f.i \in 1 .. Len(Schema[f.type].items)
      BY <1>4, ChoicePlace
  <2>2. Position(f, 1) = 2
      BY <2>1, Zenon DEF Position
  <2>3. Visit!Candidates(Thing(f, name), 2) = {}
      BY <1>4, <2>1, ChoiceCandidates
  <2> QED BY <1>2, <2>1, <2>2, <2>3
<1> QED BY <1>3, <1>4

\* A choice may be unset, though it is one of something.
LEMMA MayBeUnset ==
    ASSUME NEW f \in Frame, InPlace(f), f.kind = "CHOICE", f.at = "member", NEW name
    PROVE  /\ Visit!Candidates(Thing(f, name), Position(f, 1)) # {}
           /\ Visit!MayPass(Thing(f, name), Position(f, 1))
<1>1. /\ f.meta = "CHOICE" /\ f.i \in 1 .. Len(Schema[f.type].items)
      /\ Schema[f.type].items[f.i].meta = "CHOICE"
    BY ChoicePlace
<1>2. Position(f, 1) = 1
    BY Zenon DEF Position
<1> DEFINE members == Schema[f.type].items[f.i].members
<1>3. Visit!Candidates(Thing(f, name), 1) =
          {SlotOf(members[j], f.type) : j \in 1 .. Len(members)}
    BY <1>1, ChoiceCandidates
<1>4. members \in Seq(AllMembers) /\ members # << >>
    BY <1>1, FieldsAssumption DEF Frame
<1> HIDE DEF members
<1>5. 1 \in 1 .. Len(members)
    BY <1>4, EmptySeq
<1>6. Thing(f, name).meta = "CHOICE"
    BY <1>1 DEF Thing
<1> QED BY <1>2, <1>3, <1>5, <1>6 DEF Visit!MayPass

-----------------------------------------------------------------------------
(***************************************************************************)
(* The steps of Visitor.                                                   *)
(***************************************************************************)
\* The thing a callback is about.
Subject(c) == [meta |-> c.meta, type |-> c.type, node |-> c.node, name |-> c.name]

\* The walk moves without a callback that Visitor knows ...
LEMMA QuietStep ==
    ASSUME OpenThings' = OpenThings, cb' = None \/ cb'.when = "BETWEEN"
    PROVE  Visit!Next
  BY DEF Visit!Next, Visit!Quiet

\* ... passes over a slot that holds nothing ...
LEMMA PassStep ==
    ASSUME OpenThings' = Advanced(OpenThings), cb' = None,
           Visit!MayPass(Last(OpenThings).thing, Last(OpenThings).pos),
           Visit!Candidates(Last(OpenThings).thing, Last(OpenThings).pos) # {}
    PROVE  Visit!Next
  BY DEF Visit!Next, Visit!Pass, Visit!Passed, Visit!Last, Last, Advanced

\* ... calls back for a value ...
LEMMA LeafStep ==
    ASSUME OpenThings' = Advanced(OpenThings), cb' # None, cb'.when = "ONCE",
           cb'.meta \in {"ID", "BASIC"}, Due(Subject(cb'), Last(OpenThings))
    PROVE  Visit!Next
<1>1. Visit!Leaf
    BY DEF Visit!Leaf, Visit!Passed, Visit!Last, Last, Advanced, Visit!Expected,
           Visit!ThingOf, Due, Subject
<1> QED BY <1>1 DEF Visit!Next

\* ... for the first time for a structure or a choice ...
LEMMA BeginStep ==
    ASSUME NEW x, OpenThings' = Append(Advanced(OpenThings), [thing |-> x, pos |-> 1]),
           cb' # None, cb'.when = "BEFORE", Subject(cb') = x, Due(x, Last(OpenThings))
    PROVE  Visit!Next
<1>1. Visit!Begin
    BY DEF Visit!Begin, Visit!Passed, Visit!Last, Last, Advanced, Visit!Expected,
           Visit!ThingOf, Due, Subject
<1> QED BY <1>1 DEF Visit!Next

\* ... and for the last time.
LEMMA EndStep ==
    ASSUME OpenThings' = Front(OpenThings),
           cb' # None, cb'.when = "AFTER", Subject(cb') = Last(OpenThings).thing,
           Last(OpenThings).thing # OutsideThing,
           Visit!Candidates(Last(OpenThings).thing, Last(OpenThings).pos) = {}
    PROVE  Visit!Next
<1>1. Visit!End
    BY DEF Visit!End, Visit!Last, Last, Visit!Front, Front, Visit!ThingOf, Subject,
           Visit!Outside, OutsideThing
<1> QED BY <1>1 DEF Visit!Next

-----------------------------------------------------------------------------
(***************************************************************************)
(* The invariant: what begins with the next step belongs into the slot     *)
(* that is next in its holder; the nodes are numbered as they are reached, *)
(* so that a new one is another; and the items follow the base.            *)
(***************************************************************************)
Held(f, c) ==
    f.node \in 1 .. c /\ (f.at \in {"before", "base", "left base"} => f.i = 1)

AllHeld == \A k \in 1 .. Len(stack) : Held(stack[k], nodes)

TopDue ==
    stack # << >> /\ Top.at = "before" =>
        Due(Thing(Top, NameAt(names, Len(stack))), Entry(stack, names, nodes, Len(stack) - 1))

VInv == FlagsInv /\ AllHeld /\ TopDue

\* What the invariant says of the state ...
LEMMA StateFacts ==
    ASSUME VInv, stack # << >>
    PROVE  /\ Inv /\ Stacked(stack) /\ Len(stack) \in Nat \ {0}
           /\ Top = stack[Len(stack)] /\ Top \in Frame /\ FrameOK(Top) /\ InPlace(Top)
           /\ nodes # 0 /\ nodes \in Nat /\ Held(Top, nodes)
           /\ OpenThings = Entries(stack, names, nodes)
           /\ WalkFlags \subseteq Top.flags
<1>1. Inv /\ AllAsked
    BY DEF VInv, FlagsInv
<1>2. Stacked(stack)
    BY <1>1 DEF Inv, StacksOK, FramesOK, NamesOK, Stacked
<1>3. Len(stack) \in Nat \ {0}
    BY <1>1, Popped
<1>4. Top \in Frame /\ FrameOK(Top) /\ InPlace(Top)
    BY <1>1, TopOK DEF FrameOK
<1>5. Len(stack) \in 1 .. Len(stack)
    BY <1>3
<1>6. Held(Top, nodes) /\ WalkFlags \subseteq Top.flags
    BY <1>1, <1>5 DEF VInv, AllHeld, AllAsked, Top
<1>7. nodes \in 0 .. Budget \cup {1} /\ Budget \in Nat
    BY <1>1, WalkAssumption DEF Inv
<1>8. nodes \in Nat
    BY <1>7
<1>9. nodes # 0
  <2>1. Top.node \in 1 .. nodes
      BY <1>6 DEF Held
  <2> QED BY <1>8, <2>1
<1>10. OpenThings = Entries(stack, names, nodes)
    BY <1>2, OpenIs
<1> QED BY <1>1, <1>2, <1>3, <1>4, <1>6, <1>8, <1>9, <1>10 DEF Top

\* ... and of the next.
LEMMA ThenFacts ==
    ASSUME Inv'
    PROVE  /\ StacksOK(stack', names') /\ Stacked(stack')
           /\ OpenThings' = Entries(stack', names', nodes')
<1>1. StacksOK(stack', names')
    BY DEF Inv
<1>2. Stacked(stack')
    BY <1>1 DEF StacksOK, FramesOK, NamesOK, Stacked
<1> QED BY <1>1, <1>2, OpenIsThen

\* What is next in the last thing, once the activation on top has begun.
Next1 == [thing |-> Thing(Top, NameAt(names, Len(stack))), pos |-> Position(Top, 1)]

\* The last of the open things.
LEMMA LastIs ==
    ASSUME VInv, stack # << >>
    PROVE  /\ HasBegun(Top) => Last(OpenThings) = Next1
           /\ ~HasBegun(Top) =>
                 Last(OpenThings) = Entry(stack, names, nodes, Len(stack) - 1)
  BY StateFacts, LastOpen DEF Next1

\* Positions below the one on top.
LEMMA Downward ==
    ASSUME NEW N \in Nat \ {0}
    PROVE  /\ N \in 1 .. N /\ N >= N - 1 /\ N + 1 >= N - 1 /\ N - 1 >= N - 1
           /\ \A k \in 1 .. N - 1 : k \in 1 .. N
           /\ \A k \in 1 .. N : k = N \/ k \in 1 .. N - 1
           /\ \A k \in 1 .. N + 1 : k = N + 1 \/ k = N \/ k \in 1 .. N - 1
           /\ N # N + 1 /\ (N + 1) - 1 = N /\ N + 1 # 1 /\ N + 1 \in 1 .. N + 1
           /\ N \in 1 .. N + 1
  OBVIOUS

\* A step within an activation.
LEMMA StayStep ==
    ASSUME VInv, stack # << >>, Inv', NEW f \in Frame, stack' = With(f),
           nodes' = nodes, HasBegun(Top), HasBegun(f), SameThing(Top, f),
           f.at \in {"base", "left base"} => f.i = 1
    PROVE  /\ AllHeld' /\ TopDue'
           /\ Position(f, 1) = Position(Top, 1) => OpenThings' = OpenThings
           /\ Position(f, 1) = Position(Top, 1) + 1 => OpenThings' = Advanced(OpenThings)
<1> DEFINE N == Len(stack)
<1>1. /\ Inv /\ N \in Nat \ {0} /\ Top = stack[N] /\ Top \in Frame
      /\ nodes # 0 /\ Held(Top, nodes) /\ InPlace(Top)
      /\ OpenThings = Entries(stack, names, nodes)
    BY StateFacts
<1>2. N \in Nat \ {0}
    BY StateFacts
<1>3. OpenThings' = Entries(stack', names', nodes') /\ StacksOK(stack', names')
    BY ThenFacts
<1>4. /\ Len(stack') = N /\ stack'[N] = f
      /\ \A k \in 1 .. N - 1 : stack'[k] = stack[k]
    BY <1>1, Replaced
<1>5. Over(stack, names, stack', names')
  <2>1. StacksOK(stack, names)
      BY <1>1 DEF Inv
  <2>2. Len(stack') >= N - 1
      BY <1>2, <1>4, Downward, Zenon
  <2> QED BY <1>3, <1>4, <2>1, <2>2 DEF Over
<1>6. f.at # "before"
  <2>1. InPlace(f)
    <3>1. N \in 1 .. Len(stack')
        BY <1>2, <1>4, Downward, Zenon
    <3> QED BY <1>3, <1>4, <3>1 DEF StacksOK, FramesOK, FrameOK
  <2> QED BY <2>1 DEF HasBegun, InPlace
<1>7. Held(f, nodes)
    BY <1>1, <1>6 DEF Held, SameThing
<1> HIDE DEF N
<1>8. AllHeld'
  <2>1. \A k \in 1 .. N - 1 : Held(stack[k], nodes)
    <3>1. \A k \in 1 .. N - 1 : k \in 1 .. N
        BY <1>2, Downward, Zenon
    <3> QED BY <3>1 DEF VInv, AllHeld, N
  <2>2. \A k \in 1 .. N : k = N \/ k \in 1 .. N - 1
      BY <1>2, Downward, Zenon
  <2> QED BY <1>4, <1>7, <2>1, <2>2 DEF AllHeld
<1>9. TopDue'
    BY <1>4, <1>6 DEF TopDue, Top
<1>10. /\ Position(f, 1) = Position(Top, 1) =>
             Entries(stack', names', nodes') = Entries(stack, names, nodes)
       /\ Position(f, 1) = Position(Top, 1) + 1 =>
             Entries(stack', names', nodes') = Advanced(Entries(stack, names, nodes))
  <2> DEFINE c == nodes
             d == nodes'
             s == stack
             n == names
             t == stack'
             m == names'
             e == Top
  <2>1. /\ Over(s, n, t, m) /\ c # 0 /\ d # 0 /\ N = Len(s) /\ Len(t) = N
        /\ e \in Frame /\ f \in Frame /\ s[N] = e /\ t[N] = f
        /\ HasBegun(e) /\ HasBegun(f) /\ SameThing(e, f)
      BY <1>1, <1>4, <1>5 DEF N
  <2> HIDE DEF c, d, s, n, t, m, e
  <2>2. Stays(s, n, c, t, m, d, N, e, f)
      BY <2>1, StayOpen
  <2> QED BY <2>2 DEF Stays, c, d, s, n, t, m, e
<1> QED BY <1>1, <1>3, <1>8, <1>9, <1>10

\* get_name gives the name of the activation on top, unless that waits.
LEMMA TopNotWaiting ==
    ASSUME Inv, stack # << >>, ~Waits(Top)
    PROVE  Name = NameAt(names, Len(stack))
<1>1. names \in Seq(FieldNames) /\ Len(names) = Len(stack) - 1
    BY DEF Inv, StacksOK, NamesOK, NameCount, Top
<1>2. Len(stack) \in Nat \ {0}
    BY Popped
<1>3. CASE Len(stack) = 1
  <2>1. names = << >>
      BY <1>1, <1>3, EmptySeq
  <2> QED BY <1>3, <2>1 DEF Name, NameAt
<1>4. CASE Len(stack) # 1
  <2>1. names # << >>
      BY <1>1, <1>2, <1>4
  <2>2. Last(names) = names[Len(stack) - 1]
      BY <1>1 DEF Last
  <2> QED BY <1>4, <2>1, <2>2 DEF Name, NameAt
<1> QED BY <1>3, <1>4

\* What recurse_any or a base adds to the stack: the activation on top waits, in
\* state f, for g.
LEMMA PushFacts ==
    ASSUME VInv, stack # << >>, Inv', NEW f \in Frame, NEW g \in Frame,
           stack' = Append(With(f), g), HasBegun(Top), SameThing(Top, f),
           NEW N, N = Len(stack)
    PROVE  /\ N \in Nat \ {0} /\ Top \in Frame /\ stack[N] = Top /\ nodes # 0
           /\ Held(Top, nodes)
           /\ OpenThings = Entries(stack, names, nodes)
           /\ OpenThings' = Entries(stack', names', nodes')
           /\ Len(stack') = N + 1 /\ stack'[N] = f /\ stack'[N + 1] = g /\ Top' = g
           /\ \A k \in 1 .. N - 1 : stack'[k] = stack[k]
           /\ Over(stack, names, stack', names')
<1>1. /\ Inv /\ Top = stack[N] /\ Top \in Frame
      /\ nodes # 0 /\ Held(Top, nodes)
      /\ OpenThings = Entries(stack, names, nodes)
    BY StateFacts
<1>2. N \in Nat \ {0}
    BY StateFacts
<1>3. OpenThings' = Entries(stack', names', nodes') /\ StacksOK(stack', names')
    BY ThenFacts
<1>4. /\ Len(stack') = N + 1 /\ stack'[N + 1] = g /\ stack'[N] = f
      /\ \A k \in 1 .. N - 1 : stack'[k] = stack[k]
    BY <1>1, Pushed
<1>5. Over(stack, names, stack', names')
  <2>1. StacksOK(stack, names)
      BY <1>1 DEF Inv
  <2>2. Len(stack') >= N - 1
      BY <1>2, <1>4, Downward, Zenon
  <2> QED BY <1>3, <1>4, <2>1, <2>2 DEF Over
<1>6. Top' = g
    BY <1>4 DEF Top
<1> QED BY <1>1, <1>2, <1>3, <1>4, <1>5, <1>6

\* The nodes that have been reached stay.
LEMMA HeldPushed ==
    ASSUME AllHeld, NEW N \in Nat \ {0}, N = Len(stack), Len(stack') = N + 1,
           nodes \in Nat, nodes' \in {nodes, nodes + 1},
           \A k \in 1 .. N - 1 : stack'[k] = stack[k],
           Held(stack'[N], nodes'), Held(stack'[N + 1], nodes')
    PROVE  AllHeld'
<1>1. \A k \in 1 .. nodes : k \in 1 .. nodes'
    OBVIOUS
<1>2. ASSUME NEW k \in 1 .. N - 1 PROVE Held(stack'[k], nodes')
  <2>1. k \in 1 .. N
      BY Downward, Zenon
  <2>2. Held(stack[k], nodes)
      BY <2>1 DEF AllHeld
  <2>3. Held(stack[k], nodes')
      BY <1>1, <2>2, Zenon DEF Held
  <2> QED BY <2>3
<1>3. \A k \in 1 .. N + 1 : k = N + 1 \/ k = N \/ k \in 1 .. N - 1
    BY Downward, Zenon
<1>4. \A k \in 1 .. N + 1 : Held(stack'[k], nodes')
    BY <1>2, <1>3, Zenon
<1> QED BY <1>4, Zenon DEF AllHeld

\* A call of recurse_priv_or_node.
LEMMA CallStep ==
    ASSUME VInv, stack # << >>, Inv', NEW f \in Frame, NEW g \in Frame,
           stack' = Append(With(f), g), nodes' \in {nodes, nodes + 1},
           HasBegun(Top), HasBegun(f), SameThing(Top, f), ~HasBegun(g),
           Position(f, 0) = Position(Top, 1),
           Held(f, nodes'), Held(g, nodes'),
           Due(Thing(g, names'[Len(stack)]), Next1), cb' = None
    PROVE  AllHeld' /\ TopDue' /\ Visit!Next
<1> DEFINE N == Len(stack)
<1>1. /\ N \in Nat \ {0} /\ Top \in Frame /\ stack[N] = Top /\ nodes # 0
      /\ Held(Top, nodes)
      /\ OpenThings = Entries(stack, names, nodes)
      /\ OpenThings' = Entries(stack', names', nodes')
      /\ Len(stack') = N + 1 /\ stack'[N] = f /\ stack'[N + 1] = g /\ Top' = g
      /\ \A k \in 1 .. N - 1 : stack'[k] = stack[k]
      /\ Over(stack, names, stack', names')
    BY PushFacts
<1> HIDE DEF N
<1>2. N \in Nat \ {0}
    BY <1>1
<1>3. nodes \in Nat
    BY StateFacts
<1>4. AllHeld'
    BY <1>1, <1>3, HeldPushed DEF N, VInv
<1>5. nodes' # 0
    BY <1>1, <1>3
<1>6. CallsOn(stack, names, nodes, stack', names', nodes', N, Top, f)
  <2> DEFINE c == nodes
             d == nodes'
             s == stack
             n == names
             t == stack'
             m == names'
             e == Top
  <2>1. /\ Over(s, n, t, m) /\ c # 0 /\ d # 0 /\ N = Len(s) /\ Len(t) = N + 1
        /\ e \in Frame /\ f \in Frame /\ s[N] = e /\ t[N] = f
        /\ HasBegun(e) /\ HasBegun(f) /\ SameThing(e, f) /\ ~HasBegun(t[N + 1])
        /\ Position(f, 0) = Position(e, 1)
      BY <1>1, <1>5 DEF N
  <2> HIDE DEF c, d, s, n, t, m, e
  <2>2. CallsOn(s, n, c, t, m, d, N, e, f)
      BY <2>1, CallOpen
  <2> QED BY <2>2 DEF c, d, s, n, t, m, e
<1>7. /\ OpenThings' = OpenThings
      /\ Entry(stack', names', nodes', N) = Next1
    BY <1>1, <1>6 DEF CallsOn, Next1, N
<1>8. Visit!Next
    BY <1>7, QuietStep
<1>9. TopDue'
  <2>1. (N + 1) - 1 = N /\ N + 1 # 1
      BY <1>2, Downward, Zenon
  <2>2. NameAt(names', N + 1) = names'[N]
      BY <2>1 DEF NameAt
  <2>3. Due(Thing(g, names'[N]), Entry(stack', names', nodes', N))
      BY <1>7 DEF N
  <2>4. Due(Thing(Top', NameAt(names', Len(stack'))),
            Entry(stack', names', nodes', Len(stack') - 1))
      BY <1>1, <2>1, <2>2, <2>3
  <2> QED BY <2>4 DEF TopDue
<1> QED BY <1>4, <1>8, <1>9

\* The CHOICE case of recurse_any.
LEMMA ChooseStep ==
    ASSUME VInv, stack # << >>, Inv', NEW f \in Frame, NEW g \in Frame,
           stack' = Append(With(f), g), nodes' = nodes,
           HasBegun(Top), HasBegun(f), SameThing(Top, f), g.at = "member",
           Position(f, 1) = Position(Top, 1) + 1,
           Held(f, nodes), Held(g, nodes),
           Due(Thing(g, names'[Len(stack)]), Next1),
           cb' # None, cb'.when = "BEFORE", Subject(cb') = Thing(g, names'[Len(stack)])
    PROVE  AllHeld' /\ TopDue' /\ Visit!Next
<1> DEFINE N == Len(stack)
           x == Thing(g, names'[N])
<1>1. /\ N \in Nat \ {0} /\ Top \in Frame /\ stack[N] = Top /\ nodes # 0
      /\ Held(Top, nodes)
      /\ OpenThings = Entries(stack, names, nodes)
      /\ OpenThings' = Entries(stack', names', nodes')
      /\ Len(stack') = N + 1 /\ stack'[N] = f /\ stack'[N + 1] = g /\ Top' = g
      /\ \A k \in 1 .. N - 1 : stack'[k] = stack[k]
      /\ Over(stack, names, stack', names')
    BY PushFacts
<1>2. Subject(cb') = x /\ Due(x, Next1)
    OBVIOUS
<1> HIDE DEF N
<1>3. nodes \in Nat
    BY StateFacts
<1>4. AllHeld'
    BY <1>1, <1>3, HeldPushed DEF N, VInv
<1>5. HasBegun(g)
    BY DEF HasBegun
<1>6. ChoosesOn(stack, names, nodes, stack', names', nodes', N, Top, f, g)
  <2> DEFINE c == nodes
             d == nodes'
             s == stack
             n == names
             t == stack'
             m == names'
             e == Top
  <2>1. /\ Over(s, n, t, m) /\ c # 0 /\ d # 0 /\ N = Len(s) /\ Len(t) = N + 1
        /\ e \in Frame /\ f \in Frame /\ s[N] = e /\ t[N] = f
        /\ HasBegun(e) /\ HasBegun(f) /\ SameThing(e, f) /\ t[N + 1] = g /\ HasBegun(g)
        /\ Position(f, 1) = Position(e, 1) + 1
      BY <1>1, <1>5 DEF N
  <2> HIDE DEF c, d, s, n, t, m, e
  <2>2. ChoosesOn(s, n, c, t, m, d, N, e, f, g)
      BY <2>1, ChooseOpen
  <2> QED BY <2>2 DEF c, d, s, n, t, m, e
<1>7. Position(g, 1) = 1
    BY Zenon DEF Position
<1>8. OpenThings' = Append(Advanced(OpenThings), [thing |-> x, pos |-> 1])
    BY <1>1, <1>6, <1>7 DEF ChoosesOn
<1>9. Last(OpenThings) = Next1
    BY LastIs
<1> HIDE DEF x
<1>10. Visit!Next
    BY <1>2, <1>8, <1>9, BeginStep
<1>11. TopDue'
    BY <1>1 DEF TopDue
<1> QED BY <1>4, <1>10, <1>11

\* The first callback of a structure.
LEMMA BeforeStep ==
    ASSUME VInv, Inv', Before, "BEFORE" \in WalkFlags
    PROVE  AllHeld' /\ TopDue' /\ Visit!Next
<1> DEFINE N == Len(stack)
           f == [Top EXCEPT !.at = "base"]
           x == Thing(Top, NameAt(names, N))
<1>1. /\ stack # << >> /\ Top.kind = "REC" /\ Top.at = "before"
      /\ cb' = RecCall("BEFORE", Top.flags) /\ stack' = With(f)
      /\ names' = names /\ nodes' = nodes
    BY DEF Before, At
<1>2. /\ Inv /\ Top = stack[N] /\ Top \in Frame /\ InPlace(Top)
      /\ nodes # 0 /\ Held(Top, nodes) /\ WalkFlags \subseteq Top.flags
      /\ OpenThings = Entries(stack, names, nodes)
    BY <1>1, StateFacts
<1>3. N \in Nat \ {0}
    BY <1>1, StateFacts
<1>4. OpenThings' = Entries(stack', names', nodes') /\ StacksOK(stack', names')
    BY ThenFacts
<1>5. /\ f \in Frame /\ f.at = "base" /\ f.kind = Top.kind /\ f.meta = Top.meta
      /\ f.type = Top.type /\ f.node = Top.node /\ f.i = Top.i
    BY <1>2 DEF Frame
<1>6. ~HasBegun(Top) /\ HasBegun(f)
    BY <1>1, <1>5 DEF HasBegun
<1> HIDE DEF f
<1>7. /\ Len(stack') = N /\ stack'[N] = f
      /\ \A k \in 1 .. N - 1 : stack'[k] = stack[k]
    BY <1>1, <1>2, <1>5, Replaced
<1> HIDE DEF N
<1>8. Over(stack, names, stack', names')
  <2>1. StacksOK(stack, names)
      BY <1>2 DEF Inv
  <2>2. Len(stack') >= N - 1
      BY <1>3, <1>7, Downward, Zenon
  <2> QED BY <1>1, <1>4, <1>7, <2>1, <2>2 DEF Over, N
<1>9. AllHeld'
  <2>1. Held(f, nodes)
      BY <1>1, <1>2, <1>5 DEF Held
  <2>2. \A k \in 1 .. N - 1 : Held(stack[k], nodes)
    <3>1. \A k \in 1 .. N - 1 : k \in 1 .. N
        BY <1>3, Downward, Zenon
    <3> QED BY <3>1 DEF VInv, AllHeld, N
  <2>3. \A k \in 1 .. N : k = N \/ k \in 1 .. N - 1
      BY <1>3, Downward, Zenon
  <2> QED BY <1>1, <1>7, <2>1, <2>2, <2>3 DEF AllHeld
<1>10. TopDue'
    BY <1>5, <1>7 DEF TopDue, Top
<1>11. Thing(f, NameAt(names, N)) = x
    BY <1>5 DEF Thing
<1>12. Position(f, 1) = 1
    BY <1>5, Zenon DEF Position
<1>13. Entries(stack', names', nodes') =
           Append(Advanced(Entries(stack, names, nodes)),
                  [thing |-> Thing(f, NameAt(names, N)), pos |-> Position(f, 1)])
  <2> DEFINE c == nodes
             d == nodes'
             s == stack
             n == names
             t == stack'
             m == names'
  <2>1. /\ Over(s, n, t, m) /\ c # 0 /\ d # 0 /\ N = Len(s) /\ Len(t) = Len(s)
        /\ t[Len(s)] = f /\ ~HasBegun(s[Len(s)]) /\ HasBegun(f)
      BY <1>1, <1>2, <1>6, <1>7, <1>8 DEF N
  <2> HIDE DEF c, d, s, n, t, m
  <2>2. Entries(t, m, d) =
            Append(Advanced(Entries(s, n, c)),
                   [thing |-> Thing(f, NameAt(n, Len(s))), pos |-> Position(f, 1)])
      BY <2>1, BeginsOpen
  <2> QED BY <2>1, <2>2 DEF c, d, s, n, t, m
<1>14. OpenThings' = Append(Advanced(OpenThings), [thing |-> x, pos |-> 1])
    BY <1>2, <1>4, <1>11, <1>12, <1>13
<1>15. Last(OpenThings) = Entry(stack, names, nodes, N - 1)
    BY <1>1, <1>6, LastIs DEF N
<1>16. Due(x, Last(OpenThings))
    BY <1>1, <1>15 DEF VInv, TopDue, N
<1>17. "BEFORE" \in Top.flags
    BY <1>2
<1>18. cb' # None /\ cb'.when = "BEFORE"
    BY <1>1, <1>2, <1>17, RecAnnounces DEF Announces
<1>19. Name = NameAt(names, N)
    BY <1>1, <1>2, TopNotWaiting DEF N, Waits
<1>20. Subject(cb') = x
  <2>1. cb' = Call("BEFORE", Top.flags, Top.meta, Top.type, Top.node, Name, 1)
      BY <1>1, <1>17 DEF RecCall
  <2> QED BY <1>1, <1>19, <2>1 DEF Subject, Call, Thing
<1> HIDE DEF x
<1>21. Visit!Next
    BY <1>14, <1>16, <1>18, <1>20, BeginStep
<1> QED BY <1>9, <1>10, <1>21

\* Arithmetic for the activation on top.
LEMMA OwnLength == \A n \in Nat \ {0} : n \in 1 .. n
  OBVIOUS

\* A return, with the last callback.
LEMMA ReturnStep ==
    ASSUME VInv, Inv', stack # << >>, Return(Top.res), nodes' = nodes,
           \/ Top.kind = "REC" /\ Top.at = "item"
              /\ Top.i > Len(Schema[Top.type].items)
           \/ Top.kind = "CHOICE" /\ Top.at = "after",
           cb' # None, cb'.when = "AFTER",
           Subject(cb') = Thing(Top, NameAt(names, Len(stack)))
    PROVE  AllHeld' /\ TopDue' /\ Visit!Next
<1> DEFINE N == Len(stack)
           x == Thing(Top, NameAt(names, N))
<1>1. /\ Inv /\ Top = stack[N] /\ Top \in Frame /\ InPlace(Top)
      /\ nodes # 0 /\ OpenThings = Entries(stack, names, nodes) /\ Stacked(stack)
    BY StateFacts
<1>2. N \in Nat \ {0}
    BY StateFacts
<1>3. OpenThings' = Entries(stack', names', nodes') /\ StacksOK(stack', names')
    BY ThenFacts
<1>4. stack' = Front(stack)
    BY <1>1, ReturnShape
<1>5. HasBegun(Top) /\ Subject(cb') = x
    BY DEF HasBegun
<1>6. Visit!Candidates(x, Position(Top, 1)) = {} /\ x # OutsideThing
    BY <1>1, NothingLeft
<1> HIDE DEF N
<1>7. Len(stack') = N - 1 /\ \A k \in 1 .. N - 1 : stack'[k] = stack[k]
    BY <1>1, <1>4, Popped DEF N
<1>8. Over(stack, names, stack', names')
  <2>1. StacksOK(stack, names)
      BY <1>1 DEF Inv
  <2>2. Len(stack') >= N - 1
      BY <1>2, <1>7, Downward, Zenon
  <2> QED BY <1>3, <1>7, <2>1, <2>2 DEF Over, N
<1>9. \A k \in 1 .. N - 1 : k \in 1 .. N
    BY <1>2, Downward, Zenon
<1>10. AllHeld'
    BY <1>7, <1>9 DEF VInv, AllHeld, N
<1>11. TopDue'
  <2>1. CASE stack' = << >>
      BY <2>1 DEF TopDue
  <2>2. CASE stack' # << >>
    <3>1. Len(stack') \in 1 .. N - 1
      <4>1. stack' \in Seq(Frame)
          BY <1>3 DEF StacksOK, FramesOK
      <4>2. Len(stack') \in Nat \ {0}
          BY <2>2, <4>1, EmptySeq
      <4>3. Len(stack') = N - 1
          BY <1>7
      <4> QED BY <4>2, <4>3, OwnLength, Zenon
    <3>2. Top' = stack[Len(stack')]
        BY <1>7, <3>1 DEF Top
    <3>3. Waits(Top')
        BY <1>1, <3>1, <3>2 DEF Stacked, N
    <3> QED BY <3>3 DEF Waits, TopDue
  <2> QED BY <2>1, <2>2
<1>12. Entries(stack', names', nodes') = Front(Entries(stack, names, nodes))
  <2> DEFINE c == nodes
             d == nodes'
             s == stack
             n == names
             t == stack'
             m == names'
  <2>1. /\ Over(s, n, t, m) /\ c # 0 /\ d # 0 /\ Len(t) = Len(s) - 1
        /\ HasBegun(s[Len(s)])
      BY <1>1, <1>5, <1>7, <1>8 DEF N
  <2> HIDE DEF c, d, s, n, t, m
  <2>2. Entries(t, m, d) = Front(Entries(s, n, c))
      BY <2>1, ReturnOpen
  <2> QED BY <2>2 DEF c, d, s, n, t, m
<1>13. OpenThings' = Front(OpenThings)
    BY <1>1, <1>3, <1>12
<1>14. Last(OpenThings) = [thing |-> x, pos |-> Position(Top, 1)]
    BY <1>5, LastIs DEF Next1, N
<1> HIDE DEF x
<1>15. Visit!Next
    BY <1>5, <1>6, <1>13, <1>14, EndStep
<1> QED BY <1>10, <1>11, <1>15

-----------------------------------------------------------------------------
(***************************************************************************)
(* recurse_any, for what is next in the activation on top, which waits in  *)
(* state f.                                                                *)
(***************************************************************************)
AnyFor(item, flags, f, wrapped) ==
    /\ stack # << >> /\ Top.at \in {"item", "member"} /\ HasBegun(Top)
    /\ IsNext(item, Top) /\ ItemOK(item)
    /\ item.name \in FieldNames /\ item.type \in CallTypes
    /\ item.meta = "PRIV" => wrapped = FALSE
    /\ item.meta = "CHOICE" =>
          Top.i \in 1 .. Len(Schema[Top.type].items) /\ item = Schema[Top.type].items[Top.i]
    /\ flags \in AnyFlags /\ WalkFlags \subseteq flags /\ wrapped \in BOOLEAN
    /\ f \in Frame /\ SameThing(Top, f) /\ f.i = Top.i /\ HasBegun(f)
    /\ f.at \in {"left item", "left member"}
    /\ Position(f, 0) = Position(Top, 1)
    /\ Position(f, 1) = Position(Top, 1) + 1

\* What all cases of recurse_any have in common.
LEMMA AnyFacts ==
    ASSUME VInv, Inv', NEW item, NEW flags, NEW wrapped, NEW f,
           AnyFor(item, flags, f, wrapped), RecurseAny(item, flags, f, wrapped)
    PROVE  /\ names'[Len(stack)] = item.name
           /\ \A x : FoundIn(x, item, Top) => Due(x, Next1)
           /\ Held(f, nodes)
<1>1. stack # << >> /\ Top.at \in {"item", "member"} /\ IsNext(item, Top)
    BY DEF AnyFor
<1>2. /\ Inv /\ Top \in Frame /\ InPlace(Top) /\ Held(Top, nodes)
      /\ Len(stack) \in Nat \ {0}
    BY <1>1, StateFacts
<1>3. names \in Seq(FieldNames) /\ Len(names) = Len(stack) - 1
  <2>1. ~Waits(Top)
      BY <1>1 DEF Waits
  <2> QED BY <1>1, <1>2, <2>1 DEF Inv, StacksOK, NamesOK, NameCount, Top
<1>4. names' = Append(names, item.name) /\ item.name \in FieldNames
    BY DEF RecurseAny, AnyFor
<1>5. names'[Len(names) + 1] = item.name
    BY <1>3, <1>4, AppendFacts
<1>6. Len(names) + 1 = Len(stack)
    BY <1>2, <1>3
<1>7. \A x : FoundIn(x, item, Top) => Due(x, Next1)
    BY <1>1, <1>2, FoundIsDue DEF Next1
<1>8. Held(f, nodes)
    BY <1>2 DEF AnyFor, SameThing, Held
<1> QED BY <1>5, <1>6, <1>7, <1>8

\* A pointer or a choice that holds nothing is passed over.
LEMMA NullStep ==
    ASSUME VInv, Inv', NEW item, NEW flags, NEW wrapped, NEW f,
           AnyFor(item, flags, f, wrapped), VisitNull(item, flags, f, wrapped)
    PROVE  AllHeld' /\ TopDue' /\ Visit!Next
<1>1. /\ stack # << >> /\ Top.at \in {"item", "member"} /\ IsNext(item, Top)
      /\ HasBegun(Top) /\ HasBegun(f) /\ f \in Frame /\ SameThing(Top, f)
      /\ f.at \in {"left item", "left member"}
      /\ Position(f, 1) = Position(Top, 1) + 1
    BY DEF AnyFor
<1>2. item.meta = "NODE" /\ stack' = With(f) /\ cb' = None /\ nodes' = nodes
    BY <1>1, SameResult DEF VisitNull
<1>3. AllHeld' /\ TopDue' /\ OpenThings' = Advanced(OpenThings)
    BY <1>1, <1>2, StayStep
<1>4. Last(OpenThings) = Next1
    BY <1>1, LastIs
<1>5. Top \in Frame /\ InPlace(Top)
    BY <1>1, StateFacts
<1>6. /\ SlotOf(item, Top.type) \in Visit!Candidates(Next1.thing, Next1.pos)
      /\ Visit!MayPass(Next1.thing, Next1.pos)
    BY <1>1, <1>2, <1>5, NextIsCandidate DEF Next1
<1>7. Visit!Next
    BY <1>2, <1>3, <1>4, <1>6, PassStep
<1> QED BY <1>3, <1>7

\* A value gets its one callback.
LEMMA ValueStep ==
    ASSUME VInv, Inv', NEW item, NEW flags, NEW wrapped, NEW f,
           AnyFor(item, flags, f, wrapped), VisitValue(item, flags, f, wrapped),
           RecurseAny(item, flags, f, wrapped)
    PROVE  AllHeld' /\ TopDue' /\ Visit!Next
<1>1. /\ stack # << >> /\ Top.at \in {"item", "member"} /\ IsNext(item, Top)
      /\ HasBegun(Top) /\ HasBegun(f) /\ f \in Frame /\ SameThing(Top, f)
      /\ f.at \in {"left item", "left member"}
      /\ Position(f, 1) = Position(Top, 1) + 1
      /\ item.name \in FieldNames /\ item.type \in CallTypes /\ flags \in AnyFlags
    BY DEF AnyFor
<1> DEFINE deref == IF (item.meta = "ID" /\ wrapped) \/ item.ptr THEN 2 ELSE 1
<1>2. /\ item.meta \in {"ID", "BASIC"} /\ stack' = With(f) /\ nodes' = nodes
      /\ cb' = Call("ONCE", flags, item.meta, item.type, f.node, item.name, deref)
    BY <1>1, SameResult DEF VisitValue
<1>3. deref \in {1, 2}
    OBVIOUS
<1> HIDE DEF deref
<1>4. AllHeld' /\ TopDue' /\ OpenThings' = Advanced(OpenThings)
    BY <1>1, <1>2, StayStep
<1>5. Last(OpenThings) = Next1
    BY <1>1, LastIs
<1>6. cb' # None
  <2>1. flags \ Whens \in SUBSET {"IS_BASE", "HAS_ALLOCATION"}
      BY <1>1 DEF AnyFlags
  <2>2. f.node \in Nat /\ item.meta \in MetaTypes
      BY <1>1, <1>2 DEF Frame, MetaTypes
  <2>3. cb' \in CallsAround
      BY <1>1, <1>2, <1>3, <2>1, <2>2 DEF Call, CallsAround
  <2> QED BY <2>3, NoneAssumption
<1>7. cb'.when = "ONCE" /\ cb'.meta = item.meta
    BY <1>2 DEF Call
<1>8. FoundIn(Subject(cb'), item, Top)
    BY <1>1, <1>2 DEF FoundIn, Subject, Call, SameThing
<1>9. Due(Subject(cb'), Next1)
    BY <1>8, AnyFacts
<1>10. Visit!Next
    BY <1>2, <1>4, <1>5, <1>6, <1>7, <1>9, LeafStep
<1> QED BY <1>4, <1>10

\* What is found behind a pointer, and a structure in a choice, begin with the next
\* step.
LEMMA StructureStep ==
    ASSUME VInv, Inv', NEW item, NEW flags, NEW wrapped, NEW f,
           AnyFor(item, flags, f, wrapped), RecurseAny(item, flags, f, wrapped),
           NEW t \in DOMAIN Schema, NEW n \in Nat, Schema[t].meta = item.meta,
           nodes' \in {nodes, nodes + 1}, n \in 1 .. nodes',
           \/ item.meta = "PRIV" /\ n = f.node /\ t = item.type
           \/ item.meta = "NODE" /\ n = nodes + 1 /\ IsA(t, item.type),
           stack' = Append(With(f), Rec(item.meta, t, n, flags, TRUE)), cb' = None
    PROVE  AllHeld' /\ TopDue' /\ Visit!Next
<1> DEFINE g == Rec(item.meta, t, n, flags, TRUE)
<1>1. /\ stack # << >> /\ HasBegun(Top) /\ HasBegun(f) /\ f \in Frame /\ SameThing(Top, f)
      /\ Position(f, 0) = Position(Top, 1) /\ flags \in AnyFlags
    BY DEF AnyFor
<1>2. g \in Frame
    BY <1>1, RecOK DEF FrameOK
<1>3. /\ g.kind = "REC" /\ g.at = "before" /\ g.meta = item.meta /\ g.node = n
      /\ g.type = t /\ g.i = 1
    BY DEF Rec
<1>4. stack' = Append(With(f), g) /\ cb' = None
    OBVIOUS
<1> HIDE DEF g
<1>5. ~HasBegun(g)
    BY <1>3 DEF HasBegun
<1>6. Held(g, nodes')
    BY <1>3 DEF Held
<1>7. Held(f, nodes) /\ names'[Len(stack)] = item.name
    BY AnyFacts
<1>8. nodes \in Nat /\ Held(Top, nodes)
    BY <1>1, StateFacts
<1>9. Held(f, nodes')
  <2>1. f.node \in 1 .. nodes'
    <3>1. f.node \in 1 .. nodes
        BY <1>7 DEF Held
    <3> QED BY <1>8, <3>1
  <2> QED BY <1>7, <2>1 DEF Held
<1>10. n = nodes + 1 => n # Top.node
  <2>1. Top.node \in 1 .. nodes
      BY <1>8 DEF Held
  <2> QED BY <1>8, <2>1
<1>11. FoundIn(Thing(g, item.name), item, Top)
    BY <1>1, <1>3, <1>10 DEF FoundIn, Thing, SameThing
<1>12. Due(Thing(g, names'[Len(stack)]), Next1)
    BY <1>7, <1>11, AnyFacts
<1> QED BY <1>1, <1>2, <1>4, <1>5, <1>6, <1>9, <1>12, CallStep

\* A choice begins at once.
LEMMA ChoiceStep ==
    ASSUME VInv, Inv', NEW item, NEW flags, NEW wrapped, NEW f,
           AnyFor(item, flags, f, wrapped), RecurseAny(item, flags, f, wrapped),
           VisitChoice(item, flags, f, wrapped), "BEFORE" \in WalkFlags
    PROVE  AllHeld' /\ TopDue' /\ Visit!Next
<1>1. /\ stack # << >> /\ HasBegun(Top) /\ HasBegun(f) /\ f \in Frame /\ SameThing(Top, f)
      /\ f.i = Top.i /\ flags \in AnyFlags /\ WalkFlags \subseteq flags
      /\ Position(f, 1) = Position(Top, 1) + 1 /\ item.name \in FieldNames
    BY DEF AnyFor
<1>2. /\ item.meta = "CHOICE" /\ nodes' = nodes
      /\ cb' = ChoiceCall("BEFORE", flags, f.type, item, f.node, item.name)
    BY DEF VisitChoice
<1>3. PICK idx \in 0 .. Len(item.members) :
          stack' = Append(With(f), ChoiceOf(f.type, f.i, f.node, flags, idx))
    BY DEF VisitChoice
<1> DEFINE g == ChoiceOf(f.type, f.i, f.node, flags, idx)
<1>4. f.type = Top.type /\ f.type \in DOMAIN Schema /\ f.node \in Nat
    BY <1>1 DEF SameThing, Frame
<1>5. f.i \in 1 .. Len(Schema[f.type].items) /\ item = Schema[f.type].items[f.i]
    BY <1>1, <1>2, <1>4 DEF AnyFor
<1>6. g \in Frame
    BY <1>1, <1>2, <1>4, <1>5, ChoiceOK DEF FrameOK
<1>7. /\ g.kind = "CHOICE" /\ g.at = "member" /\ g.meta = "CHOICE" /\ g.node = f.node
      /\ g.type = f.type /\ g.i = f.i
    BY DEF ChoiceOf
<1>8. stack' = Append(With(f), g)
    BY <1>3
<1> HIDE DEF g
<1>9. Held(f, nodes) /\ names'[Len(stack)] = item.name
    BY AnyFacts
<1>10. Held(g, nodes)
    BY ZenonT(60), <1>7, <1>9 DEF Held
<1>11. FoundIn(Thing(g, item.name), item, Top)
    BY <1>1, <1>2, <1>5, <1>7 DEF FoundIn, Thing, SameThing
<1>12. Due(Thing(g, names'[Len(stack)]), Next1)
    BY <1>9, <1>11, AnyFacts
<1>13. cb' = Call("BEFORE", {}, "CHOICE", <<f.type, item.name>>, f.node, item.name, 2)
    BY <1>1, <1>2 DEF ChoiceCall
<1>14. cb' # None /\ cb'.when = "BEFORE"
    BY <1>1, <1>4, <1>13, ChoiceIsOne, FieldIsType
<1>15. Subject(cb') = Thing(g, item.name)
    BY <1>5, <1>7, <1>13 DEF Subject, Call, Thing
<1> QED BY <1>1, <1>2, <1>6, <1>7, <1>8, <1>9, <1>10, <1>12, <1>14, <1>15, ChooseStep

\* All of recurse_any.
LEMMA AnyStep ==
    ASSUME VInv, Inv', NEW item, NEW flags, NEW wrapped, NEW f,
           AnyFor(item, flags, f, wrapped), RecurseAny(item, flags, f, wrapped),
           "BEFORE" \in WalkFlags
    PROVE  AllHeld' /\ TopDue' /\ Visit!Next
<1>1. stack # << >> /\ ItemOK(item) /\ f \in Frame
    BY DEF AnyFor
<1>2. nodes \in Nat
    BY <1>1, StateFacts
<1>3. Held(f, nodes)
    BY AnyFacts
<1>4. CASE VisitPriv(item, flags, f, wrapped)
  <2>1. /\ item.meta = "PRIV" /\ wrapped = FALSE /\ nodes' = nodes /\ cb' = None
        /\ stack' = Append(With(f), Rec("PRIV", item.type, f.node, flags, ~wrapped))
      BY <1>4 DEF VisitPriv, AnyFor
  <2>2. item.type \in DOMAIN Schema /\ Schema[item.type].meta = "PRIV"
      BY <1>1, <2>1 DEF ItemOK
  <2>3. stack' = Append(With(f), Rec(item.meta, item.type, f.node, flags, TRUE))
      BY <2>1
  <2>4. f.node \in Nat /\ f.node \in 1 .. nodes'
      BY <1>1, <1>3, <2>1 DEF Held, Frame
  <2> QED BY <2>1, <2>2, <2>3, <2>4, StructureStep
<1>5. CASE VisitNode(item, flags, f, wrapped)
  <2>1. PICK t \in Types :
            /\ IsA(t, item.type)
            /\ stack' = Append(With(f), Rec("NODE", t, nodes + 1, flags, TRUE))
      BY <1>5 DEF VisitNode
  <2>2. item.meta = "NODE" /\ nodes' = nodes + 1 /\ cb' = None
      BY <1>5 DEF VisitNode
  <2>3. t \in DOMAIN Schema /\ Schema[t].meta = "NODE"
      BY TypesAssumption
  <2>4. nodes + 1 \in Nat /\ nodes + 1 \in 1 .. nodes'
      BY <1>2, <2>2
  <2> QED BY <2>1, <2>2, <2>3, <2>4, StructureStep
<1>6. CASE VisitNull(item, flags, f, wrapped)
    BY <1>6, NullStep
<1>7. CASE VisitValue(item, flags, f, wrapped)
    BY <1>7, ValueStep
<1>8. CASE VisitChoice(item, flags, f, wrapped)
    BY <1>8, ChoiceStep
<1> QED BY <1>4, <1>5, <1>6, <1>7, <1>8 DEF RecurseAny

-----------------------------------------------------------------------------
\* Items and members have types that a callback may be told.
LEMMA TypesOfItems ==
    ASSUME NEW t \in DOMAIN Schema, NEW i \in 1 .. Len(Schema[t].items)
    PROVE  /\ Schema[t].items[i].type \in CallTypes
           /\ \A j \in 1 .. Len(Schema[t].items[i].members) :
                 Schema[t].items[i].members[j].type \in CallTypes
<1> DEFINE it == Schema[t].items[i]
<1>1. it \in AllItems
  BY DEF AllItems
<1> HIDE DEF it
<1>2. ASSUME NEW j \in 1 .. Len(it.members)
      PROVE  it.members[j] \in AllMembers
  <2>1. it.members[j] \in {it.members[k] : k \in 1 .. Len(it.members)}
    OBVIOUS
  <2> QED
    BY <1>1, <2>1 DEF AllMembers
<1>3. \A x \in AllItems \cup AllMembers : x.type \in CallTypes
    BY DEF CallTypes
<1> QED
  BY <1>1, <1>2, <1>3 DEF it

\* The index of a member, unless it is 0.
LEMMA SetIndex ==
    ASSUME NEW n \in Nat, NEW i \in Nat, i \in 0 .. n, i > 0
    PROVE  i \in 1 .. n
  OBVIOUS

\* recurse_any for the next item of a structure ...
LEMMA ItemStep ==
    ASSUME VInv, Inv', EnterItem, "BEFORE" \in WalkFlags
    PROVE  AllHeld' /\ TopDue' /\ Visit!Next
<1> DEFINE f == [Top EXCEPT !.at = "left item"]
<1>1. /\ stack # << >> /\ Top.kind = "REC" /\ Top.at = "item" /\ Top.i <= Len(Items)
      /\ RecurseAny(Item, ItemFlags, f, TRUE)
    BY DEF EnterItem, At
<1>2. Inv /\ Top \in Frame /\ InPlace(Top) /\ WalkFlags \subseteq Top.flags
    BY <1>1, StateFacts
<1>3. Top.type \in DOMAIN Schema /\ Top.i \in Nat
    BY <1>2 DEF Frame
<1>4. Len(Items) \in Nat
    BY <1>3, SchemaAssumption DEF Items
<1>5. Top.i \in 1 .. Len(Items)
  <2>1. Top.i \in 1 .. Len(Items) + 1
      BY <1>1, <1>2, RecPlace DEF Items
  <2> QED BY <1>1, <1>3, <1>4, <2>1, Interval, Zenon
<1>6. ItemOK(Item) /\ Item.meta # "PRIV"
    BY <1>3, <1>5, SchemaAssumption DEF Item, Items
<1>7. Item.name \in FieldNames /\ Item.type \in CallTypes
    BY <1>3, <1>5, NamesOfItems, TypesOfItems DEF Item, Items
<1>8. ItemFlags \in AnyFlags /\ WalkFlags \subseteq ItemFlags
    BY <1>1, <1>2, ItemFlagsKeep
<1>9. IsNext(Item, Top)
    BY <1>1, <1>5 DEF IsNext, Item, Items
<1>10. /\ f \in Frame /\ f.at = "left item" /\ f.kind = Top.kind /\ f.meta = Top.meta
       /\ f.type = Top.type /\ f.node = Top.node /\ f.i = Top.i
    BY <1>2 DEF Frame
<1> HIDE DEF f
<1>11. SameThing(Top, f) /\ HasBegun(Top) /\ HasBegun(f)
    BY <1>1, <1>10 DEF SameThing, HasBegun
<1>12. Position(Top, 1) = Bases(Top.type) + Top.i
    BY <1>1, Zenon DEF Position
<1>13. Position(f, 0) = Bases(Top.type) + Top.i + 0
    BY <1>10, Zenon DEF Position
<1>14. Bases(Top.type) \in {0, 1}
    BY DEF Bases
<1>15. Position(f, 0) = Position(Top, 1)
    BY <1>3, <1>12, <1>13, <1>14
<1>16. Position(f, 1) = Position(Top, 1) + 1
    BY <1>10, <1>15, Enter DEF Waits
<1>17. Item = Schema[Top.type].items[Top.i] /\ Top.i \in 1 .. Len(Schema[Top.type].items)
    BY <1>5 DEF Item, Items
<1>18. AnyFor(Item, ItemFlags, f, TRUE)
    BY <1>1, <1>6, <1>7, <1>8, <1>9, <1>10, <1>11, <1>15, <1>16, <1>17 DEF AnyFor
<1> QED BY <1>1, <1>18, AnyStep

\* ... and for the member of a choice that is set.
LEMMA MemberStep ==
    ASSUME VInv, Inv', EnterMember, "BEFORE" \in WalkFlags
    PROVE  AllHeld' /\ TopDue' /\ Visit!Next
<1> DEFINE f == [Top EXCEPT !.at = "left member"]
           member == Item.members[Top.idx]
           flags == Top.flags \ {"IS_BASE"}
<1>1. /\ stack # << >> /\ Top.kind = "CHOICE" /\ Top.at = "member" /\ Top.idx > 0
      /\ RecurseAny(member, flags, f, FALSE)
    BY DEF EnterMember, At
<1>2. Inv /\ Top \in Frame /\ InPlace(Top) /\ WalkFlags \subseteq Top.flags
    BY <1>1, StateFacts
<1>3. Top.type \in DOMAIN Schema /\ Top.idx \in Nat
    BY ZenonT(60), <1>2 DEF Frame
<1>4. Top.i \in 1 .. Len(Items) /\ Item.meta = "CHOICE"
    BY <1>1, <1>2, ChoicePlace DEF Item, Items
<1>5. Len(Item.members) \in Nat
    BY <1>3, <1>4, SchemaAssumption DEF Item, Items
<1>6. Top.idx \in 1 .. Len(Item.members)
  <2>1. Top.idx \in 0 .. Len(Item.members)
      BY <1>1, <1>2, ChoicePlace DEF Item, Items
  <2> QED BY ZenonT(60), <1>1, <1>3, <1>5, <2>1, SetIndex
<1>7. ItemOK(member) /\ member.meta # "CHOICE"
    BY <1>3, <1>4, <1>6, SchemaAssumption DEF Item, Items
<1>8. member.name \in FieldNames /\ member.type \in CallTypes
    BY <1>3, <1>4, <1>6, NamesOfItems, TypesOfItems DEF Item, Items
<1>9. flags \in AnyFlags /\ WalkFlags \subseteq flags
  <2>1. WalkFlags \subseteq Whens
      BY WalkAssumption
  <2> QED BY <1>2, <2>1 DEF Frame, AnyFlags, Whens
<1>10. IsNext(member, Top)
    BY <1>1, <1>6 DEF IsNext, Item, Items
<1>11. /\ f \in Frame /\ f.at = "left member" /\ f.kind = Top.kind /\ f.meta = Top.meta
       /\ f.type = Top.type /\ f.node = Top.node /\ f.i = Top.i
    BY <1>2 DEF Frame
<1> HIDE DEF f, member, flags
<1>12. SameThing(Top, f) /\ HasBegun(Top) /\ HasBegun(f)
    BY <1>1, <1>11 DEF SameThing, HasBegun
<1>13. Position(Top, 1) = 1
    BY <1>1, Zenon DEF Position
<1>14. Position(f, 0) = 1 + 0
    BY <1>11, Zenon DEF Position
<1>15. Position(f, 0) = Position(Top, 1)
    BY <1>13, <1>14
<1>16. Position(f, 1) = Position(Top, 1) + 1
    BY <1>11, <1>15, Enter DEF Waits
<1>17. AnyFor(member, flags, f, FALSE)
    BY <1>1, <1>7, <1>8, <1>9, <1>10, <1>11, <1>12, <1>15, <1>16 DEF AnyFor
<1> QED BY <1>1, <1>17, AnyStep

\* The base of a node.
LEMMA BaseStep ==
    ASSUME VInv, Inv', EnterBase
    PROVE  AllHeld' /\ TopDue' /\ Visit!Next
<1> DEFINE f == [Top EXCEPT !.at = "left base"]
           base == Schema[Top.type].base
           flags == Top.flags \cup {"IS_BASE"}
           g == Rec("NODE", base, Top.node, flags, TRUE)
<1>1. /\ stack # << >> /\ Top.kind = "REC" /\ Top.at = "base" /\ base # ""
      /\ stack' = Append(With(f), g) /\ names' = Append(names, "base")
      /\ cb' = None /\ nodes' = nodes
    BY DEF EnterBase, At, HasBase
<1>2. /\ Inv /\ Top \in Frame /\ InPlace(Top) /\ Held(Top, nodes)
      /\ Len(stack) \in Nat \ {0}
    BY <1>1, StateFacts
<1>3. base \in DOMAIN Schema /\ Schema[base].meta = "NODE"
  <2>1. Top.type \in DOMAIN Schema
      BY <1>2 DEF Frame
  <2> QED BY <1>1, <2>1, SchemaAssumption
<1>4. Top.node \in Nat /\ flags \in AnyFlags
    BY <1>2 DEF Frame, AnyFlags
<1>5. g \in Frame
    BY <1>3, <1>4, RecOK DEF FrameOK
<1>6. /\ g.kind = "REC" /\ g.at = "before" /\ g.meta = "NODE" /\ g.node = Top.node
      /\ g.type = base /\ g.i = 1
    BY DEF Rec
<1>7. /\ f \in Frame /\ f.at = "left base" /\ f.kind = Top.kind /\ f.meta = Top.meta
      /\ f.type = Top.type /\ f.node = Top.node /\ f.i = Top.i
    BY <1>2 DEF Frame
<1>8. names'[Len(stack)] = "base"
  <2>1. ~Waits(Top)
      BY <1>1 DEF Waits
  <2>2. names \in Seq(FieldNames) /\ Len(names) = Len(stack) - 1
      BY <1>1, <1>2, <2>1 DEF Inv, StacksOK, NamesOK, NameCount, Top
  <2>3. "base" \in FieldNames
      BY DEF FieldNames
  <2>4. names'[Len(names) + 1] = "base"
      BY <1>1, <2>2, <2>3, AppendFacts
  <2>5. Len(names) + 1 = Len(stack)
      BY <1>2, <2>2
  <2> QED BY <2>4, <2>5
<1>9. Position(Top, 1) = 1
    BY <1>1, Zenon DEF Position
<1>10. Due(Thing(g, "base"), Next1)
  <2>1. /\ Thing(g, "base").name = "base" /\ Thing(g, "base").meta = "NODE"
        /\ Thing(g, "base").node = Top.node /\ Thing(g, "base").type = base
      BY <1>6 DEF Thing
  <2> QED BY <1>1, <1>2, <1>9, <2>1, BaseIsDue DEF Next1
<1> HIDE DEF f, g
<1>11. SameThing(Top, f) /\ HasBegun(Top) /\ HasBegun(f) /\ ~HasBegun(g)
    BY <1>1, <1>6, <1>7 DEF SameThing, HasBegun
<1>12. Position(f, 0) = 1 + 0
    BY <1>7, Zenon DEF Position
<1>13. Position(f, 0) = Position(Top, 1)
    BY <1>9, <1>12
<1>14. Held(f, nodes') /\ Held(g, nodes')
    BY <1>1, <1>2, <1>6, <1>7 DEF Held
<1>15. Due(Thing(g, names'[Len(stack)]), Next1)
    BY <1>8, <1>10
<1> QED BY <1>1, <1>5, <1>7, <1>11, <1>13, <1>14, <1>15, CallStep

\* The steps that make no callback which counts, and move to no other slot.
LEMMA QuietOnes ==
    ASSUME VInv, Inv', LeaveBase \/ NoBase \/ LeaveItem \/ LeaveMember
    PROVE  AllHeld' /\ TopDue' /\ Visit!Next
<1>1. stack # << >> /\ nodes' = nodes
    BY DEF LeaveBase, NoBase, LeaveItem, LeaveMember, At
<1>2. Top \in Frame /\ InPlace(Top) /\ Held(Top, nodes)
    BY <1>1, StateFacts
<1>3. ASSUME NEW f \in Frame, stack' = With(f), HasBegun(Top), HasBegun(f),
             SameThing(Top, f), f.at \notin {"base", "left base"},
             Position(f, 1) = Position(Top, 1), cb' = None \/ cb'.when = "BETWEEN"
      PROVE  AllHeld' /\ TopDue' /\ Visit!Next
  <2>1. AllHeld' /\ TopDue' /\ OpenThings' = OpenThings
      BY <1>1, <1>3, StayStep
  <2>2. Visit!Next
      BY <1>3, <2>1, QuietStep
  <2> QED BY <2>1, <2>2
<1>4. CASE LeaveBase \/ NoBase
  <2> DEFINE f == [Top EXCEPT !.at = "item"]
  <2>1. /\ Top.kind = "REC" /\ stack' = With(f) /\ cb' = None
        /\ \/ Top.at = "left base"
           \/ Top.at = "base" /\ ~HasBase
      BY <1>4 DEF LeaveBase, NoBase, At
  <2>2. /\ f \in Frame /\ f.at = "item" /\ f.kind = Top.kind /\ f.meta = Top.meta
        /\ f.type = Top.type /\ f.node = Top.node /\ f.i = Top.i
      BY <1>2 DEF Frame
  <2> HIDE DEF f
  <2>3. f.i = 1
      BY <1>2, <2>1, <2>2 DEF Held
  <2>4. SameThing(Top, f) /\ HasBegun(Top) /\ HasBegun(f)
      BY <2>1, <2>2 DEF SameThing, HasBegun
  <2>5. Position(f, 1) = Bases(Top.type) + 1
      BY <2>2, <2>3, Zenon DEF Position
  <2>6. CASE Top.at = "left base"
    <3>1. Schema[Top.type].base # ""
        BY <1>2, <2>1, <2>6, Zenon DEF InPlace
    <3>2. Bases(Top.type) = 1
        BY <3>1 DEF Bases
    <3>3. Position(Top, 1) = 1 + 1
        BY <2>6, Zenon DEF Position
    <3> QED BY <1>3, <2>1, <2>2, <2>4, <2>5, <3>2, <3>3
  <2>7. CASE Top.at = "base" /\ ~HasBase
    <3>1. Schema[Top.type].base = ""
      <4>1. Top.type \in DOMAIN Schema
          BY <1>2 DEF Frame
      <4>2. Top.meta = Schema[Top.type].meta
          BY <1>2, <2>1, RecPlace
      <4> QED BY <2>7, <4>1, <4>2, SchemaAssumption DEF HasBase
    <3>2. Bases(Top.type) = 0
        BY <3>1 DEF Bases
    <3>3. Position(Top, 1) = 1
        BY <2>7, Zenon DEF Position
    <3>4. Position(f, 1) = Position(Top, 1)
        BY <2>5, <3>2, <3>3
    <3> QED BY <1>3, <2>1, <2>2, <2>4, <3>4
  <2> QED BY <2>1, <2>6, <2>7
<1>5. CASE LeaveItem
  <2> DEFINE f == [Top EXCEPT !.at = "item", !.i = @ + 1]
  <2>1. /\ Top.kind = "REC" /\ Top.at = "left item" /\ stack' = With(f)
        /\ cb' = RecCall("BETWEEN", ItemFlags)
      BY <1>5 DEF LeaveItem, At
  <2>2. Top.i \in Nat /\ Top.i + 1 \in Nat
    <3>1. Top.i \in Nat
        BY <1>2 DEF Frame
    <3> QED BY <3>1, Successor
  <2>3. /\ f \in Frame /\ f.at = "item" /\ f.kind = Top.kind /\ f.meta = Top.meta
        /\ f.type = Top.type /\ f.node = Top.node /\ f.i = Top.i + 1
      BY <1>2, <2>2 DEF Frame
  <2> HIDE DEF f
  <2>4. SameThing(Top, f) /\ HasBegun(Top) /\ HasBegun(f)
      BY <2>1, <2>3 DEF SameThing, HasBegun
  <2>5. Position(f, 1) = Bases(Top.type) + (Top.i + 1)
      BY <2>3, Zenon DEF Position
  <2>6. Position(Top, 1) = Bases(Top.type) + Top.i + 1
      BY <2>1, Zenon DEF Position
  <2>7. Bases(Top.type) \in {0, 1}
      BY DEF Bases
  <2>8. Position(f, 1) = Position(Top, 1)
      BY <2>2, <2>5, <2>6, <2>7
  <2>9. cb' = None \/ cb'.when = "BETWEEN"
      BY <2>1 DEF RecCall, Call
  <2> QED BY <1>3, <2>1, <2>3, <2>4, <2>8, <2>9
<1>6. CASE LeaveMember
  <2> DEFINE f == [Top EXCEPT !.at = "after"]
  <2>1. /\ Top.kind = "CHOICE" /\ Top.at = "left member" /\ stack' = With(f) /\ cb' = None
      BY <1>6 DEF LeaveMember, At
  <2>2. /\ f \in Frame /\ f.at = "after" /\ f.kind = Top.kind /\ f.meta = Top.meta
        /\ f.type = Top.type /\ f.node = Top.node /\ f.i = Top.i
      BY <1>2 DEF Frame
  <2> HIDE DEF f
  <2>3. SameThing(Top, f) /\ HasBegun(Top) /\ HasBegun(f)
      BY <2>1, <2>2 DEF SameThing, HasBegun
  <2>4. Position(f, 1) = 2
      BY <2>2, Zenon DEF Position
  <2>5. Position(Top, 1) = 1 + 1
      BY <2>1, Zenon DEF Position
  <2>6. Position(f, 1) = Position(Top, 1)
      BY <2>4, <2>5
  <2> QED BY <1>3, <2>1, <2>2, <2>3, <2>6
<1> QED BY <1>4, <1>5, <1>6

\* An unset choice.
LEMMA UnsetStep ==
    ASSUME VInv, Inv', NoMember
    PROVE  AllHeld' /\ TopDue' /\ Visit!Next
<1> DEFINE f == [Top EXCEPT !.at = "after"]
<1>1. /\ stack # << >> /\ Top.kind = "CHOICE" /\ Top.at = "member"
      /\ stack' = With(f) /\ cb' = None /\ nodes' = nodes
    BY DEF NoMember, At
<1>2. Top \in Frame /\ InPlace(Top)
    BY <1>1, StateFacts
<1>3. /\ f \in Frame /\ f.at = "after" /\ f.kind = Top.kind /\ f.meta = Top.meta
      /\ f.type = Top.type /\ f.node = Top.node /\ f.i = Top.i
    BY <1>2 DEF Frame
<1> HIDE DEF f
<1>4. SameThing(Top, f) /\ HasBegun(Top) /\ HasBegun(f)
    BY <1>1, <1>3 DEF SameThing, HasBegun
<1>5. Position(f, 1) = 2
    BY <1>3, Zenon DEF Position
<1>6. Position(Top, 1) = 1
    BY <1>1, Zenon DEF Position
<1>7. Position(f, 1) = Position(Top, 1) + 1
    BY <1>5, <1>6
<1>8. AllHeld' /\ TopDue' /\ OpenThings' = Advanced(OpenThings)
    BY <1>1, <1>3, <1>4, <1>7, StayStep
<1>9. Last(OpenThings) = Next1
    BY <1>1, <1>4, LastIs
<1>10. /\ Visit!Candidates(Next1.thing, Next1.pos) # {}
       /\ Visit!MayPass(Next1.thing, Next1.pos)
    BY <1>1, <1>2, MayBeUnset DEF Next1
<1>11. Visit!Next
    BY <1>1, <1>8, <1>9, <1>10, PassStep
<1> QED BY <1>8, <1>11

\* The last callbacks.
LEMMA AfterSteps ==
    ASSUME VInv, Inv', After \/ AfterChoice, "AFTER" \in WalkFlags
    PROVE  AllHeld' /\ TopDue' /\ Visit!Next
<1>1. stack # << >> /\ nodes' = nodes /\ Return(Top.res)
    BY DEF After, AfterChoice, At
<1>2. /\ Inv /\ Top \in Frame /\ InPlace(Top) /\ FrameOK(Top)
      /\ WalkFlags \subseteq Top.flags
    BY <1>1, StateFacts
<1>3. "AFTER" \in Top.flags
    BY <1>2
<1>4. Name = NameAt(names, Len(stack))
  <2>1. ~Waits(Top)
      BY DEF After, AfterChoice, At, Waits
  <2> QED BY <1>1, <1>2, <2>1, TopNotWaiting
<1>5. CASE After
  <2>1. /\ Top.kind = "REC" /\ Top.at = "item" /\ Top.i > Len(Items)
        /\ cb' = RecCall("AFTER", Top.flags)
      BY <1>5 DEF After, At
  <2>2. cb' # None /\ cb'.when = "AFTER"
      BY <1>1, <1>2, <1>3, <2>1, RecAnnounces DEF Announces
  <2>3. cb' = Call("AFTER", Top.flags, Top.meta, Top.type, Top.node, Name, 1)
      BY <1>3, <2>1 DEF RecCall
  <2>4. Subject(cb') = Thing(Top, NameAt(names, Len(stack)))
      BY <1>4, <2>1, <2>3 DEF Subject, Call, Thing
  <2>5. Top.i > Len(Schema[Top.type].items)
      BY <2>1 DEF Items
  <2> QED BY <1>1, <2>1, <2>2, <2>4, <2>5, ReturnStep
<1>6. CASE AfterChoice
  <2>1. /\ Top.kind = "CHOICE" /\ Top.at = "after"
        /\ cb' = ChoiceCall("AFTER", Top.flags, Top.type, Item, Top.node, Name)
      BY <1>6 DEF AfterChoice, At
  <2>2. /\ Top.type \in DOMAIN Schema /\ Top.node \in Nat
        /\ Top.i \in 1 .. Len(Items) /\ Top.meta = "CHOICE"
      BY <1>2, <2>1, ChoicePlace DEF Frame, Items
  <2>3. Item.name \in FieldNames
      BY <2>2, NamesOfItems DEF Item, Items
  <2>4. cb' = Call("AFTER", {}, "CHOICE", <<Top.type, Item.name>>, Top.node, Name, 2)
      BY <1>3, <2>1 DEF ChoiceCall
  <2>5. Name \in FieldNames \cup {""}
      BY <1>2, NameIsOne
  <2>6. cb' # None /\ cb'.when = "AFTER"
      BY <2>2, <2>3, <2>4, <2>5, ChoiceIsOne, FieldIsType
  <2>7. Subject(cb') = Thing(Top, NameAt(names, Len(stack)))
      BY <1>4, <2>1, <2>2, <2>4 DEF Subject, Call, Thing, Item, Items
  <2> QED BY <1>1, <2>1, <2>6, <2>7, ReturnStep
<1> QED BY <1>5, <1>6

-----------------------------------------------------------------------------
\* Arithmetic for the top of the tree.
LEMMA First == 1 \in 1 .. 1 /\ 1 # 0 /\ \A k \in 1 .. 1 : k = 1
  OBVIOUS

\* At the start nothing is open but the outside, where the top of the tree is due.
LEMMA VisitInit == Init => VInv /\ Visit!Init
<1> SUFFICES ASSUME Init PROVE VInv /\ Visit!Init
    OBVIOUS
<1>1. Inv /\ FlagsInv
    BY InitInv, FlagsInit DEF FlagsInv
<1>2. Stacked(stack)
    BY <1>1 DEF Inv, StacksOK, FramesOK, NamesOK, Stacked
<1>3. OpenThings = Entries(stack, names, nodes) /\ cb = None
    BY <1>2, OpenIs DEF Init
<1>4. ASSUME Depth(stack) = 0,
             Entry(stack, names, nodes, 0) = [thing |-> OutsideThing, pos |-> 1]
      PROVE  Visit!Init
  <2>1. Entries(stack, names, nodes) = [i \in 1 .. 1 |-> Entry(stack, names, nodes, i - 1)]
      BY <1>4 DEF Entries
  <2>2. \A i \in 1 .. 1 : i - 1 = 0
      OBVIOUS
  <2>3. Entries(stack, names, nodes) = [i \in 1 .. 1 |-> [thing |-> OutsideThing, pos |-> 1]]
      BY <1>4, <2>1, <2>2
  <2>4. <<[thing |-> OutsideThing, pos |-> 1]>>
        = [i \in 1 .. 1 |-> [thing |-> OutsideThing, pos |-> 1]]
      OBVIOUS
  <2> QED BY <1>3, <2>3, <2>4 DEF Visit!Init, Visit!Outside, OutsideThing
<1>5. CASE stack = << >> /\ nodes = 0
  <2>1. Depth(stack) = 0
      BY <1>5 DEF Depth
  <2>2. Entry(stack, names, nodes, 0) = [thing |-> OutsideThing, pos |-> 1]
      BY <1>5 DEF Entry
  <2>3. AllHeld /\ TopDue
      BY <1>5 DEF AllHeld, TopDue
  <2> QED BY <1>1, <1>4, <2>1, <2>2, <2>3 DEF VInv
<1>6. ASSUME NEW t \in Roots, stack = <<Rec("NODE", t, 1, WalkFlags, TRUE)>>, nodes = 1
      PROVE  VInv /\ Visit!Init
  <2>1. /\ Len(stack) = 1 /\ stack # << >> /\ Top = stack[1]
        /\ stack[1] = Rec("NODE", t, 1, WalkFlags, TRUE)
      BY <1>6 DEF Top
  <2>2. /\ Top.kind = "REC" /\ Top.meta = "NODE" /\ Top.node = 1 /\ Top.i = 1
        /\ Top.at = "before"
      BY <2>1 DEF Rec
  <2>3. ~HasBegun(stack[1])
      BY <2>1, <2>2 DEF HasBegun
  <2>4. Depth(stack) = 0
      BY <2>1, <2>3 DEF Depth
  <2>5. Entry(stack, names, nodes, 0) = [thing |-> OutsideThing, pos |-> 1]
      BY <2>1, <2>3 DEF Entry
  <2>6. AllHeld
    <3>1. Held(stack[1], nodes)
        BY <1>6, <2>1, <2>2, First, Zenon DEF Held
    <3>2. \A k \in 1 .. 1 : k = 1
        BY First, Zenon
    <3> QED BY <2>1, <3>1, <3>2 DEF AllHeld
  <2>7. Due(Thing(Top, ""), [thing |-> OutsideThing, pos |-> 1])
    <3>1. /\ Thing(Top, "").meta = "NODE" /\ Thing(Top, "").node = 1
          /\ Thing(Top, "").name = ""
        BY <2>2 DEF Thing
    <3>2. Thing(Top, "").node # 0
        BY <3>1, First, Zenon
    <3> QED BY <3>1, <3>2, RootIsDue, Zenon
  <2>8. NameAt(names, Len(stack)) = "" /\ Len(stack) - 1 = 0
      BY <2>1 DEF NameAt
  <2>9. TopDue
      BY <2>5, <2>7, <2>8 DEF TopDue
  <2> QED BY <1>1, <1>4, <2>4, <2>5, <2>6, <2>9 DEF VInv
<1> QED BY <1>5, <1>6 DEF Init

\* Every step of the walk is one of Visitor, and keeps the invariant.
LEMMA VisitNext ==
    ASSUME VInv, Inv', Next, {"BEFORE", "AFTER"} \subseteq WalkFlags
    PROVE  AllHeld' /\ TopDue' /\ Visit!Next
<1>1. "BEFORE" \in WalkFlags /\ "AFTER" \in WalkFlags
    OBVIOUS
<1> QED BY <1>1, BeforeStep, BaseStep, QuietOnes, ItemStep, AfterSteps, MemberStep,
           UnsetStep DEF Next

\* The walk visits each thing of the tree once, in order, between the callbacks of
\* what holds it, and tells the field; asked for both callbacks, it does so for all
\* schemas and trees.
THEOREM EachOnce ==
    ASSUME {"BEFORE", "AFTER"} \subseteq WalkFlags
    PROVE  Spec => VisitsEachOnce
<1>1. VInv /\ [Next]_vars => VInv' /\ [Visit!Next]_(Visit!vars)
  <2> SUFFICES ASSUME VInv, [Next]_vars
               PROVE  VInv' /\ [Visit!Next]_(Visit!vars)
      OBVIOUS
  <2>1. FlagsInv /\ Inv /\ AllMarked /\ AllAsked
      BY DEF VInv, FlagsInv
  <2>2. Inv'
      BY <2>1, NextInv
  <2>3. CASE Next
    <3>1. FlagsInv'
        BY <2>1, <2>2, <2>3, MarkedStep, FlagsStep DEF FlagsInv
    <3>2. AllHeld' /\ TopDue' /\ Visit!Next
        BY <2>2, <2>3, VisitNext
    <3> QED BY <3>1, <3>2 DEF VInv
  <2>4. CASE UNCHANGED vars
    <3>1. /\ stack' = stack /\ names' = names /\ nodes' = nodes /\ cb' = cb
        BY <2>4 DEF vars
    <3>2. FlagsInv'
        BY <2>1, <2>2, <3>1 DEF FlagsInv, AllMarked, AllAsked, FlagsMark
    <3>3. AllHeld' /\ TopDue'
        BY <3>1 DEF VInv, AllHeld, TopDue, Top
    <3>4. Stacked(stack)
        BY <2>1 DEF Inv, StacksOK, FramesOK, NamesOK, Stacked
    <3>5. OpenThings = Entries(stack, names, nodes)
        BY <3>4, OpenIs
    <3>6. OpenThings' = Entries(stack', names', nodes')
        BY <2>2, ThenFacts
    <3>7. OpenThings' = OpenThings
        BY <3>1, <3>5, <3>6
    <3> QED BY <3>1, <3>2, <3>3, <3>7 DEF VInv, Visit!vars
  <2> QED BY <2>3, <2>4
<1> QED BY <1>1, VisitInit, PTL DEF Spec, VisitsEachOnce, Visit!Spec

-----------------------------------------------------------------------------
(***************************************************************************)
(* The callbacks that print keep count of where they are in the tree, by   *)
(* the callbacks they get; nobody tells them.  That the count is right for *)
(* every tree is proved by counting the activations of certain classes:    *)
(* each step changes the number by what the callback makes of it.          *)
(***************************************************************************)
\* The activations of a class.
Places(s, C) == {k \in 1 .. Len(s) : s[k] \in C}

Count(s, C) == Cardinality(Places(s, C))

\* Those whose first callback has been made, those of them that are printed, and the
\* choices among these.
Opened == {f \in Frame : f.kind = "CHOICE" \/ f.at # "before"}
Printing == {f \in Opened : f.kind = "CHOICE" => f.idx # 0}
Braced == {f \in Printing : f.kind = "CHOICE"}

\* There are finitely many.
LEMMA CountNat ==
    ASSUME NEW s \in Seq(Frame), NEW C
    PROVE  IsFiniteSet(Places(s, C)) /\ Count(s, C) \in Nat
<1>1. Len(s) \in Nat
    OBVIOUS
<1>2. IsFiniteSet(1 .. Len(s))
    BY <1>1, FS_Interval
<1>3. Places(s, C) \in SUBSET (1 .. Len(s))
    BY DEF Places
<1>4. IsFiniteSet(Places(s, C))
    BY <1>2, <1>3, FS_Subset
<1> QED BY <1>4, FS_CardinalityType DEF Count

\* A sequence that differs from another in what is on top, or has one more.
LEMMA CountTop ==
    ASSUME NEW s \in Seq(Frame), NEW t \in Seq(Frame), NEW C, NEW n \in Nat \ {0},
           Len(t) = n, Len(s) = n \/ Len(s) = n - 1,
           \A k \in 1 .. n - 1 : t[k] = s[k],
           t[n] \in C, Len(s) = n => s[n] \notin C
    PROVE  Count(t, C) = Count(s, C) + 1
<1>1. n \notin Places(s, C)
    BY DEF Places
<1>2. Places(t, C) = Places(s, C) \cup {n}
  <2>1. ASSUME NEW k \in Places(t, C) PROVE k \in Places(s, C) \cup {n}
    <3>1. k \in 1 .. n /\ t[k] \in C
        BY <2>1 DEF Places
    <3>2. CASE k = n
        BY <3>2
    <3>3. CASE k # n
      <4>1. k \in 1 .. n - 1
          BY <3>1, <3>3
      <4>2. k \in 1 .. Len(s) /\ s[k] \in C
          BY <3>1, <4>1
      <4> QED BY <4>2 DEF Places
    <3> QED BY <3>2, <3>3
  <2>2. ASSUME NEW k \in Places(s, C) PROVE k \in Places(t, C)
    <3>1. k \in 1 .. Len(s) /\ s[k] \in C /\ k # n
        BY <1>1 DEF Places
    <3>2. k \in 1 .. n - 1
        BY <3>1
    <3>3. k \in 1 .. Len(t) /\ t[k] \in C
        BY <3>1, <3>2
    <3> QED BY <3>3 DEF Places
  <2>3. n \in Places(t, C)
    <3>1. n \in 1 .. Len(t)
        OBVIOUS
    <3> QED BY <3>1 DEF Places
  <2> QED BY <2>1, <2>2, <2>3
<1>3. IsFiniteSet(Places(s, C))
    BY CountNat
<1>4. Cardinality(Places(s, C) \cup {n}) = Cardinality(Places(s, C)) + 1
    BY <1>1, <1>3, FS_AddElement
<1> QED BY <1>2, <1>4 DEF Count

LEMMA CountSame ==
    ASSUME NEW s \in Seq(Frame), NEW t \in Seq(Frame), NEW C, NEW n \in Nat \ {0},
           Len(t) = n, Len(s) = n \/ Len(s) = n - 1,
           \A k \in 1 .. n - 1 : t[k] = s[k],
           Len(s) = n => (t[n] \in C <=> s[n] \in C),
           Len(s) = n - 1 => t[n] \notin C
    PROVE  Count(t, C) = Count(s, C)
<1>1. ASSUME NEW k \in Places(t, C) PROVE k \in Places(s, C)
  <2>1. k \in 1 .. n /\ t[k] \in C
      BY <1>1 DEF Places
  <2>2. CASE k = n
    <3>1. Len(s) = n /\ s[k] \in C /\ k \in 1 .. Len(s)
        BY <2>1, <2>2
    <3> QED BY <3>1 DEF Places
  <2>3. CASE k # n
    <3>1. k \in 1 .. n - 1
        BY <2>1, <2>3
    <3>2. k \in 1 .. Len(s) /\ s[k] \in C
        BY <2>1, <3>1
    <3> QED BY <3>2 DEF Places
  <2> QED BY <2>2, <2>3
<1>2. ASSUME NEW k \in Places(s, C) PROVE k \in Places(t, C)
  <2>1. k \in 1 .. Len(s) /\ s[k] \in C
      BY DEF Places
  <2>2. CASE k = n
    <3>1. Len(s) = n /\ t[k] \in C /\ k \in 1 .. Len(t)
        BY <2>1, <2>2
    <3> QED BY <3>1 DEF Places
  <2>3. CASE k # n
    <3>1. k \in 1 .. n - 1
        BY <2>1, <2>3
    <3>2. k \in 1 .. Len(t) /\ t[k] \in C
        BY <2>1, <3>1
    <3> QED BY <3>2 DEF Places
  <2> QED BY <2>2, <2>3
<1>3. Places(t, C) = Places(s, C)
    BY <1>1, <1>2
<1> QED BY <1>3 DEF Count

-----------------------------------------------------------------------------
\* Moving on within an activation leaves it in its classes.
LEMMA AlikeClasses ==
    ASSUME NEW f \in Frame, NEW g \in Frame, Alike(f, g)
    PROVE  /\ f \in Opened /\ g \in Opened
           /\ f \in Printing <=> g \in Printing
           /\ f \in Braced <=> g \in Braced
  BY DEF Alike, Opened, Printing, Braced

\* The classes of a structure before and after its first callback, and of a choice.
LEMMA RecClasses ==
    ASSUME NEW f \in Frame, f.kind = "REC"
    PROVE  /\ f \notin Braced
           /\ f.at = "before" => f \notin Opened /\ f \notin Printing
           /\ f.at # "before" => f \in Opened /\ f \in Printing
  BY DEF Opened, Printing, Braced

LEMMA ChoiceClasses ==
    ASSUME NEW f \in Frame, f.kind = "CHOICE"
    PROVE  /\ f \in Opened
           /\ f.idx # 0 => f \in Printing /\ f \in Braced
           /\ f.idx = 0 => f \notin Printing /\ f \notin Braced
  BY DEF Opened, Printing, Braced

\* By how much a step changes the number of those opened, printed and braced.
Delta(opened, printed, braced) ==
    /\ Count(stack', Opened) = Count(stack, Opened) + opened
    /\ Count(stack', Printing) = Count(stack, Printing) + printed
    /\ Count(stack', Braced) = Count(stack, Braced) + braced

\* A step within an activation, and one that has another below a new one.
LEMMA CountWith ==
    ASSUME Inv, stack # << >>, NEW f \in Frame, NEW C, f \in C <=> Top \in C
    PROVE  Count(With(f), C) = Count(stack, C)
<1>1. stack \in Seq(Frame) /\ With(f) \in Seq(Frame)
    BY Replaced DEF Inv, StacksOK, FramesOK
<1> DEFINE n == Len(stack)
           t == With(f)
<1>2. /\ n \in Nat \ {0} /\ Len(t) = n /\ Len(stack) # n - 1
      /\ \A k \in 1 .. n - 1 : t[k] = stack[k]
    BY Replaced
<1>3. t[n] \in C <=> stack[n] \in C
    BY Replaced DEF Top
<1> HIDE DEF t
<1> QED BY <1>1, <1>2, <1>3, CountSame DEF t

\* The first callback of a structure brings it into a class, or not.
LEMMA CountBegun ==
    ASSUME Inv, stack # << >>, NEW f \in Frame, NEW C, Top \notin C
    PROVE  /\ f \in C => Count(With(f), C) = Count(stack, C) + 1
           /\ f \notin C => Count(With(f), C) = Count(stack, C)
<1>1. stack \in Seq(Frame) /\ With(f) \in Seq(Frame)
    BY Replaced DEF Inv, StacksOK, FramesOK
<1>2. f \in C => Count(With(f), C) = Count(stack, C) + 1
    BY <1>1, Replaced, CountTop DEF Top
<1>3. f \notin C => Count(With(f), C) = Count(stack, C)
    BY CountWith
<1> QED BY <1>2, <1>3

LEMMA CountPushed ==
    ASSUME Inv, stack # << >>, NEW f \in Frame, NEW g \in Frame, NEW C,
           f \in C <=> Top \in C
    PROVE  LET t == Append(With(f), g)
           IN  /\ g \in C => Count(t, C) = Count(stack, C) + 1
               /\ g \notin C => Count(t, C) = Count(stack, C)
<1> DEFINE w == With(f)
           t == Append(w, g)
           n == Len(stack) + 1
<1>1. w \in Seq(Frame) /\ Len(w) = Len(stack) /\ Len(stack) \in Nat
    BY Replaced
<1>2. Count(w, C) = Count(stack, C)
    BY CountWith
<1> HIDE DEF w
<1>3. /\ t \in Seq(Frame) /\ Len(t) = Len(w) + 1 /\ t[Len(w) + 1] = g
      /\ \A k \in 1 .. Len(w) : t[k] = w[k]
    BY <1>1, AppendFacts
<1>4. /\ n \in Nat \ {0} /\ Len(t) = n /\ t[n] = g /\ Len(w) = n - 1 /\ Len(w) # n
      /\ \A k \in 1 .. n - 1 : t[k] = w[k]
    BY <1>1, <1>3
<1> HIDE DEF t, n
<1>5. g \in C => Count(t, C) = Count(w, C) + 1
    BY <1>1, <1>3, <1>4, CountTop
<1>6. g \notin C => Count(t, C) = Count(w, C)
    BY <1>1, <1>3, <1>4, CountSame
<1> QED BY <1>2, <1>5, <1>6 DEF t, w

LEMMA CountPopped ==
    ASSUME Inv, stack # << >>, NEW C
    PROVE  /\ Top \in C => Count(Front(stack), C) = Count(stack, C) - 1
           /\ Top \notin C => Count(Front(stack), C) = Count(stack, C)
<1> DEFINE n == Len(stack)
           s == Front(stack)
<1>1. stack \in Seq(Frame) /\ s \in Seq(Frame)
    BY FrontFacts DEF Inv, StacksOK, FramesOK
<1>2. /\ n \in Nat \ {0} /\ Len(s) = n - 1 /\ Len(s) # n
      /\ \A k \in 1 .. n - 1 : stack[k] = s[k]
    BY Popped
<1>3. Top = stack[n] /\ Len(stack) = n
    BY DEF Top
<1>4. Count(stack, C) \in Nat /\ Count(s, C) \in Nat
    BY <1>1, CountNat
<1> HIDE DEF n, s
<1>5. Top \in C => Count(stack, C) = Count(s, C) + 1
    BY <1>1, <1>2, <1>3, CountTop
<1>6. Top \notin C => Count(stack, C) = Count(s, C)
    BY <1>1, <1>2, <1>3, CountSame
<1> QED BY <1>4, <1>5, <1>6 DEF s

-----------------------------------------------------------------------------
\* The callback of a step, if there is one, is of this kind.
Makes(when, choice) ==
    cb' # None /\ cb'.when = when /\ (cb'.meta = "CHOICE" <=> choice)

\* What a step does to the numbers, and the callback that tells.
LEMMA CountStep ==
    ASSUME FlagsInv, Next
    PROVE  \/ Delta(0, 0, 0) /\ (cb' = None \/ cb'.when \in {"ONCE", "BETWEEN"})
           \/ Delta(1, 1, 0) /\ Makes("BEFORE", FALSE)
           \/ Delta(1, 1, 1) /\ Makes("BEFORE", TRUE) /\ IdxOf(cb') # 0
           \/ Delta(1, 0, 0) /\ Makes("BEFORE", TRUE) /\ IdxOf(cb') = 0
           \/ Delta(-1, -1, 0) /\ Makes("AFTER", FALSE)
           \/ Delta(-1, -1, -1) /\ Makes("AFTER", TRUE) /\ IdxOf(cb') # 0
           \/ Delta(-1, 0, 0) /\ Makes("AFTER", TRUE) /\ IdxOf(cb') = 0
<1>1. Inv /\ stack # << >> /\ AllAsked
    BY Shapes DEF FlagsInv
<1>2. Top \in Frame
    BY <1>1, TopOK
<1>3. Len(stack) \in Nat \ {0} /\ Top = stack[Len(stack)]
    BY <1>1, Popped DEF Top
<1>4. {"BEFORE", "AFTER"} \subseteq Top.flags
    BY <1>1, <1>3, PrintersAssumption DEF AllAsked
<1>5. \A C : Count(stack, C) \in Nat
    BY <1>1, CountNat DEF Inv, StacksOK, FramesOK
<1>6. ASSUME NEW C PROVE Count(stack, C) + 0 = Count(stack, C)
    BY <1>5
<1>7. CASE Goes
  <2>1. PICK f \in Frame : Alike(Top, f) /\ stack' = With(f)
      BY <1>7 DEF Goes
  <2>2. Delta(0, 0, 0)
      BY <1>1, <1>2, <1>6, <2>1, AlikeClasses, CountWith DEF Delta
  <2> QED BY <1>7, <2>2 DEF Goes
<1>8. CASE Begins
  <2>1. PICK f \in Frame :
            /\ Top.kind = "REC" /\ Top.at = "before"
            /\ f = [Top EXCEPT !.at = "base"] /\ stack' = With(f)
            /\ Announces("BEFORE", Top.flags, FALSE)
      BY <1>8 DEF Begins
  <2>2. f.kind = "REC" /\ f.at = "base"
      BY <1>2, <2>1 DEF Frame
  <2>3. Delta(1, 1, 0)
      BY <1>1, <1>2, <1>6, <2>1, <2>2, RecClasses, CountBegun DEF Delta
  <2> QED BY <1>4, <2>1, <2>3 DEF Announces, Makes
<1>9. CASE Calls
  <2>1. PICK f \in Frame, g \in Frame :
            /\ Alike(Top, f) /\ stack' = Append(With(f), g)
            /\ g.kind = "REC" /\ g.at = "before"
      BY <1>9 DEF Calls
  <2>2. Delta(0, 0, 0)
      BY <1>1, <1>2, <1>6, <2>1, AlikeClasses, RecClasses, CountPushed DEF Delta
  <2> QED BY <1>9, <2>2 DEF Calls
<1>10. CASE Chooses
  <2>1. PICK f \in Frame, g \in Frame :
            /\ Alike(Top, f) /\ stack' = Append(With(f), g) /\ g.kind = "CHOICE"
            /\ Top.flags \cap Whens \subseteq g.flags
            /\ Announces("BEFORE", g.flags, TRUE)
      BY <1>10 DEF Chooses
  <2>2. "BEFORE" \in g.flags
      BY <1>4, <2>1 DEF Whens
  <2>3. Makes("BEFORE", TRUE)
      BY <2>1, <2>2 DEF Announces, Makes
  <2>4. stack'[Len(stack')] = g
      BY <1>1, <1>3, <2>1, Pushed
  <2>5. IdxOf(cb') = g.idx
      BY <2>3, <2>4 DEF IdxOf, Makes
  <2>6. CASE g.idx # 0
    <3>1. Delta(1, 1, 1)
        BY <1>1, <1>2, <2>1, <2>6, AlikeClasses, ChoiceClasses, CountPushed DEF Delta
    <3> QED BY <2>3, <2>5, <2>6, <3>1
  <2>7. CASE g.idx = 0
    <3>1. Delta(1, 0, 0)
        BY <1>1, <1>2, <1>6, <2>1, <2>7, AlikeClasses, ChoiceClasses, CountPushed DEF Delta
    <3> QED BY <2>3, <2>5, <2>7, <3>1
  <2> QED BY <2>6, <2>7
<1>11. CASE Ends
  <2>1. /\ stack' = Front(stack) /\ Top.at # "before"
        /\ Announces("AFTER", Top.flags, Top.kind = "CHOICE")
      BY <1>11 DEF Ends
  <2>2. Makes("AFTER", Top.kind = "CHOICE")
      BY <1>4, <2>1 DEF Announces, Makes
  <2>3. IdxOf(cb') = Top.idx
      BY <2>2 DEF IdxOf, Makes
  <2>4. \A C : Count(stack, C) + -1 = Count(stack, C) - 1
      BY <1>5
  <2>5. CASE Top.kind = "REC"
    <3>1. Delta(-1, -1, 0)
        BY <1>1, <1>2, <1>6, <2>1, <2>4, <2>5, RecClasses, CountPopped DEF Delta
    <3>2. Makes("AFTER", FALSE)
        BY <2>2, <2>5 DEF Makes
    <3> QED BY <3>1, <3>2
  <2>6. CASE Top.kind = "CHOICE" /\ Top.idx # 0
    <3>1. Delta(-1, -1, -1)
        BY <1>1, <1>2, <2>1, <2>4, <2>6, ChoiceClasses, CountPopped DEF Delta
    <3>2. Makes("AFTER", TRUE)
        BY <2>2, <2>6 DEF Makes
    <3> QED BY <2>3, <2>6, <3>1, <3>2
  <2>7. CASE Top.kind = "CHOICE" /\ Top.idx = 0
    <3>1. Delta(-1, 0, 0)
        BY <1>1, <1>2, <1>6, <2>1, <2>4, <2>7, ChoiceClasses, CountPopped DEF Delta
    <3>2. Makes("AFTER", TRUE)
        BY <2>2, <2>7 DEF Makes
    <3> QED BY <2>3, <2>7, <3>1, <3>2
  <2> QED BY <1>2, <2>5, <2>6, <2>7 DEF Frame
<1> QED BY <1>1, <1>7, <1>8, <1>9, <1>10, <1>11, Shapes

-----------------------------------------------------------------------------
\* What the callbacks count.  The counts are those of the classes as long as no
\* assertion has failed.
Counted ==
    /\ ~halted => margin = 4 * Count(stack, Opened)
    /\ ~aborted => /\ indent = 4 * Count(stack, Printing)
                   /\ braces = Count(stack, Printing) + Count(stack, Braced)

CountInv == FlagsInv /\ Counted /\ TextWhole

\* Nothing has been printed before the walk.
LEMMA CountInit == InitP => CountInv
<1> SUFFICES ASSUME InitP PROVE CountInv
    OBVIOUS
<1>1. Init /\ indent = 0 /\ braces = 0 /\ margin = 0 /\ fmt = NoFormat
    BY DEF InitP, InitC, InitDemo
<1>2. FlagsInv
    BY <1>1, InitInv, FlagsInit DEF FlagsInv
<1>3. \A k \in 1 .. Len(stack) : stack[k].kind = "REC" /\ stack[k].at = "before"
  <2>1. CASE stack = << >>
      BY <2>1
  <2>2. ASSUME NEW t, stack = <<Rec("NODE", t, 1, WalkFlags, TRUE)>>
        PROVE  \A k \in 1 .. Len(stack) : stack[k].kind = "REC" /\ stack[k].at = "before"
      BY <2>2 DEF Rec
  <2> QED BY <1>1, <2>1, <2>2 DEF Init
<1>4. stack \in Seq(Frame)
    BY <1>2 DEF FlagsInv, Inv, StacksOK, FramesOK
<1>5. \A k \in 1 .. Len(stack) :
          stack[k] \notin Opened /\ stack[k] \notin Printing /\ stack[k] \notin Braced
    BY <1>3 DEF Opened, Printing, Braced
<1>6. /\ Places(stack, Opened) = {} /\ Places(stack, Printing) = {}
      /\ Places(stack, Braced) = {}
    BY <1>5 DEF Places
<1>7. Count(stack, Opened) = 0 /\ Count(stack, Printing) = 0 /\ Count(stack, Braced) = 0
    BY <1>6, FS_EmptySet DEF Count
<1>8. TextWhole
    BY <1>1, FormatAssumption DEF NoFormat, TextWhole
<1> QED BY <1>1, <1>2, <1>7, <1>8 DEF CountInv, Counted

\* A text that is formatted into a buffer of the full size is whole or does not fit.
LEMMA FormatKeeps ==
    ASSUME TextWhole, NEW call, NEW crash \in BOOLEAN, Format(call, crash)
    PROVE  TextWhole'
<1>1. BufSize \in Nat \ {0} /\ Size = BufSize
    BY FormatAssumption DEF Size
<1>2. CASE UNCHANGED fmt
    BY <1>2 DEF TextWhole
<1>3. CASE fmt' = [NoFormat EXCEPT !.written = Size]
    BY <1>1, <1>3 DEF NoFormat, TextWhole
<1>4. ASSUME NEW need \in Lengths, fmt' = fmt_call(need, Size) PROVE TextWhole'
  <2>1. need \in Nat
      BY FormatAssumption
  <2>2. CASE need < Size
    <3>1. fmt'.need = need /\ fmt'.text = need /\ fmt'.written = Size
        BY <1>1, <1>4, <2>1, <2>2 DEF fmt_call, FitsIn
    <3> QED BY <1>1, <3>1 DEF TextWhole
  <2>3. CASE ~(need < Size)
    <3>1. fmt'.need = need /\ fmt'.written = Size
        BY <1>1, <1>4, <2>1, <2>3 DEF fmt_call, FitsIn
    <3> QED BY <1>1, <2>3, <3>1 DEF TextWhole
  <2> QED BY <2>2, <2>3
<1> QED BY <1>2, <1>3, <1>4 DEF Format

\* What the callbacks make of the occasions.
LEMMA Amounts ==
    ASSUME NEW c
    PROVE  /\ c.when = "BEFORE" => MarginOf(c) = 4 /\ IndentOf(c) = 4
           /\ c.when = "AFTER" => MarginOf(c) = -4 /\ IndentOf(c) = -4
           /\ c.when = "BEFORE" /\ c.meta # "CHOICE" => BracesOf(c) = 1
           /\ c.when = "BEFORE" /\ c.meta = "CHOICE" => BracesOf(c) = 2
           /\ c.when = "AFTER" /\ c.meta # "CHOICE" => BracesOf(c) = -1
           /\ c.when = "AFTER" /\ c.meta = "CHOICE" => BracesOf(c) = -2
           /\ c.when \notin {"BEFORE", "AFTER"} =>
                 MarginOf(c) = 0 /\ IndentOf(c) = 0 /\ BracesOf(c) = 0
<1>1. /\ c.when = "BEFORE" => MarginOf(c) = 4 /\ IndentOf(c) = 4
      /\ c.when = "AFTER" => MarginOf(c) = -4 /\ IndentOf(c) = -4
      /\ c.when \notin {"BEFORE", "AFTER"} => MarginOf(c) = 0 /\ IndentOf(c) = 0
    BY DEF MarginOf, IndentOf
<1>2. CASE c.when = "BEFORE" /\ c.meta # "CHOICE"
    BY <1>1, <1>2 DEF BracesOf
<1>3. CASE c.when = "BEFORE" /\ c.meta = "CHOICE"
    BY <1>1, <1>3 DEF BracesOf
<1>4. CASE c.when = "AFTER" /\ c.meta # "CHOICE"
    BY <1>1, <1>4 DEF BracesOf
<1>5. CASE c.when = "AFTER" /\ c.meta = "CHOICE"
    BY <1>1, <1>5 DEF BracesOf
<1>6. CASE c.when \notin {"BEFORE", "AFTER"} /\ c.meta = "CHOICE"
    BY <1>1, <1>6 DEF BracesOf
<1>7. CASE c.when \notin {"BEFORE", "AFTER"} /\ c.meta # "CHOICE"
    BY <1>1, <1>7 DEF BracesOf
<1> QED BY <1>2, <1>3, <1>4, <1>5, <1>6, <1>7

LEMMA Demonstrates ==
    ASSUME demo_cb
    PROVE  /\ cb' = None => margin' = margin /\ halted' = halted
           /\ cb' # None => (~halted' => margin' = margin + MarginOf(cb'))
<1>1. CASE cb' = None
    BY <1>1 DEF demo_cb, demoVars
<1>2. CASE cb' # None
  <2> DEFINE within == margin >= 0 /\ margin < MaxMargin
  <2>1. /\ halted' = ~within
        /\ margin' = IF within THEN margin + MarginOf(cb') ELSE margin
      BY <1>2, Zenon DEF demo_cb
  <2> HIDE DEF within
  <2> QED BY <1>2, <2>1
<1> QED BY <1>1, <1>2

LEMMA Prints ==
    ASSUME walk_cb
    PROVE  /\ cb' = None \/ Empty(cb') => UNCHANGED <<indent, braces>>
           /\ ~(cb' = None \/ Empty(cb')) =>
                 (~aborted' => /\ indent' = indent + IndentOf(cb')
                              /\ braces' = braces + BracesOf(cb'))
<1>1. CASE cb' = None \/ Empty(cb')
    BY <1>1, Zenon DEF walk_cb
<1>2. CASE ~(cb' = None \/ Empty(cb'))
  <2>1. /\ aborted' = ~Within
        /\ indent' = IF Within THEN indent + IndentOf(cb') ELSE indent
        /\ braces' = IF Within THEN braces + BracesOf(cb') ELSE braces
      BY <1>2, Zenon DEF walk_cb
  <2> QED BY <1>2, <2>1
<1> QED BY <1>1, <1>2

\* The indentation and the braces follow the numbers.
LEMMA CountedStep ==
    ASSUME FlagsInv, Counted, Next, ~aborted, ~halted, walk_cb, demo_cb
    PROVE  Counted'
<1> DEFINE m == Count(stack, Opened)
           p == Count(stack, Printing)
           b == Count(stack, Braced)
<1>1. m \in Nat /\ p \in Nat /\ b \in Nat
    BY CountNat DEF FlagsInv, Inv, StacksOK, FramesOK
<1>2. margin = 4 * m /\ indent = 4 * p /\ braces = p + b
    BY DEF Counted
<1> HIDE DEF m, p, b
<1>3. ASSUME NEW dm \in {-1, 0, 1}, NEW dp \in {-1, 0, 1}, NEW db \in {-1, 0, 1},
             Delta(dm, dp, db),
             NEW margins, NEW indents, NEW opens,
             margins = 4 * dm, indents = 4 * dp, opens = dp + db,
             ~halted' => margin' = margin + margins,
             ~aborted' => indent' = indent + indents /\ braces' = braces + opens
      PROVE  Counted'
  <2>1. /\ Count(stack', Opened) = m + dm /\ Count(stack', Printing) = p + dp
        /\ Count(stack', Braced) = b + db
      BY <1>3 DEF Delta, m, p, b
  <2>2. 4 * (m + dm) = 4 * m + 4 * dm /\ 4 * (p + dp) = 4 * p + 4 * dp
      BY <1>1
  <2>3. (p + dp) + (b + db) = (p + b) + (dp + db)
      BY <1>1
  <2> QED BY <1>2, <1>3, <2>1, <2>2, <2>3 DEF Counted
<1>11. margin + 0 = margin /\ indent + 0 = indent /\ braces + 0 = braces
    BY <1>1, <1>2
<1>4. CASE Delta(0, 0, 0) /\ (cb' = None \/ cb'.when \in {"ONCE", "BETWEEN"})
  <2>1. ~halted' => margin' = margin + 0
      BY <1>4, <1>11, Demonstrates, Amounts
  <2>2. ~aborted' => indent' = indent + 0 /\ braces' = braces + 0
      BY <1>4, <1>11, Prints, Amounts
  <2> QED BY <1>3, <1>4, <2>1, <2>2
<1>5. CASE Delta(1, 1, 0) /\ Makes("BEFORE", FALSE)
  <2>1. ~halted' => margin' = margin + 4
      BY <1>5, Demonstrates, Amounts DEF Makes
  <2>2. ~aborted' => indent' = indent + 4 /\ braces' = braces + 1
      BY <1>5, Prints, Amounts DEF Makes, Empty
  <2> QED BY <1>3, <1>5, <2>1, <2>2
<1>6. CASE Delta(1, 1, 1) /\ Makes("BEFORE", TRUE) /\ IdxOf(cb') # 0
  <2>1. ~halted' => margin' = margin + 4
      BY <1>6, Demonstrates, Amounts DEF Makes
  <2>2. ~aborted' => indent' = indent + 4 /\ braces' = braces + 2
      BY <1>6, Prints, Amounts DEF Makes, Empty
  <2> QED BY <1>3, <1>6, <2>1, <2>2
<1>7. CASE Delta(1, 0, 0) /\ Makes("BEFORE", TRUE) /\ IdxOf(cb') = 0
  <2>1. ~halted' => margin' = margin + 4
      BY <1>7, Demonstrates, Amounts DEF Makes
  <2>2. ~aborted' => indent' = indent + 0 /\ braces' = braces + 0
      BY <1>7, <1>11, Prints DEF Makes, Empty
  <2> QED BY <1>3, <1>7, <2>1, <2>2
<1>8. CASE Delta(-1, -1, 0) /\ Makes("AFTER", FALSE)
  <2>1. ~halted' => margin' = margin + -4
      BY <1>8, Demonstrates, Amounts DEF Makes
  <2>2. ~aborted' => indent' = indent + -4 /\ braces' = braces + -1
      BY <1>8, Prints, Amounts DEF Makes, Empty
  <2> QED BY <1>3, <1>8, <2>1, <2>2
<1>9. CASE Delta(-1, -1, -1) /\ Makes("AFTER", TRUE) /\ IdxOf(cb') # 0
  <2>1. ~halted' => margin' = margin + -4
      BY <1>9, Demonstrates, Amounts DEF Makes
  <2>2. ~aborted' => indent' = indent + -4 /\ braces' = braces + -2
      BY <1>9, Prints, Amounts DEF Makes, Empty
  <2> QED BY <1>3, <1>9, <2>1, <2>2
<1>10. CASE Delta(-1, 0, 0) /\ Makes("AFTER", TRUE) /\ IdxOf(cb') = 0
  <2>1. ~halted' => margin' = margin + -4
      BY <1>10, Demonstrates, Amounts DEF Makes
  <2>2. ~aborted' => indent' = indent + 0 /\ braces' = braces + 0
      BY <1>10, <1>11, Prints DEF Makes, Empty
  <2> QED BY <1>3, <1>10, <2>1, <2>2
<1> QED BY <1>4, <1>5, <1>6, <1>7, <1>8, <1>9, <1>10, CountStep

\* The invariant of the printing walk.
LEMMA CountKept == SpecP => []CountInv
<1>1. CountInv /\ [NextP]_varsP => CountInv'
  <2> SUFFICES ASSUME CountInv, [NextP]_varsP PROVE CountInv'
      OBVIOUS
  <2>1. CASE NextP
    <3>1. /\ FlagsInv /\ Counted /\ Next /\ ~aborted /\ ~halted /\ walk_cb /\ demo_cb
          /\ TextWhole /\ crashed' \in BOOLEAN /\ Format(cb', crashed')
        BY <2>1 DEF NextP, CountInv
    <3>2. FlagsInv'
        BY <3>1, NextInv, MarkedStep, FlagsStep DEF FlagsInv
    <3>3. Counted'
        BY <3>1, CountedStep
    <3>4. TextWhole'
        BY <3>1, FormatKeeps
    <3> QED BY <3>2, <3>3, <3>4 DEF CountInv
  <2>2. CASE UNCHANGED varsP
    <3>1. UNCHANGED vars /\ UNCHANGED <<indent, braces, aborted, margin, halted, fmt>>
        BY <2>2 DEF varsP, demoVars
    <3>2. FlagsInv'
        BY <3>1, NextInv DEF vars, CountInv, FlagsInv, AllMarked, AllAsked, FlagsMark
    <3> QED BY <3>1, <3>2 DEF vars, CountInv, Counted, TextWhole
  <2> QED BY <2>1, <2>2
<1> QED BY <1>1, CountInit, PTL DEF SpecP

\* The classes are those the properties speak of.
LEMMA Classes ==
    ASSUME Inv
    PROVE  /\ {k \in DOMAIN stack : Begun(k)} = Places(stack, Opened)
           /\ {k \in DOMAIN stack : Printed(k)} = Places(stack, Printing)
           /\ {k \in {j \in DOMAIN stack : Printed(j)} : stack[k].kind = "CHOICE"}
                 = Places(stack, Braced)
<1>1. stack \in Seq(Frame) /\ DOMAIN stack = 1 .. Len(stack)
    BY DEF Inv, StacksOK, FramesOK
<1>2. \A k \in 1 .. Len(stack) : stack[k] \in Frame
    BY <1>1
<1>3. \A k \in 1 .. Len(stack) :
          /\ Begun(k) <=> stack[k] \in Opened
          /\ Printed(k) <=> stack[k] \in Printing
          /\ (Printed(k) /\ stack[k].kind = "CHOICE") <=> stack[k] \in Braced
    BY <1>2 DEF Begun, Printed, Opened, Printing, Braced
<1> QED BY <1>1, <1>3 DEF Places

\* The demo's margin is four for each thing that has been announced and not ended,
\* whatever the tree.
THEOREM MarginFollows == SpecP => []MarginIsDepth
<1>1. CountInv => MarginIsDepth
    BY Classes DEF CountInv, FlagsInv, Counted, Count, MarginIsDepth
<1> QED BY <1>1, CountKept, PTL

\* The C printer's indentation and its braces are those of the things it is printing,
\* so that every brace is closed and an empty choice has left no trace.
THEOREM IndentFollows == SpecP => []IndentIsDepth
<1>1. CountInv => IndentIsDepth
    BY Classes DEF CountInv, FlagsInv, Counted, Count, IndentIsDepth
<1> QED BY <1>1, CountKept, PTL

\* A value that fits is printed in full and nothing is written beyond the buffer, for
\* every size of the buffer and every sequence of values.
THEOREM TextFits == SpecP => []TextWhole
<1>1. CountInv => TextWhole
    BY DEF CountInv
<1> QED BY <1>1, CountKept, PTL
=============================================================================
