---------------------------- MODULE AstWalkProofs ----------------------------
(***************************************************************************)
(* Proofs about AstWalk, for every schema that satisfies its assumptions,  *)
(* every bound on the trees and every choice of flags: type correctness,   *)
(* the agreement of cookie->stack with the C call stack, that each         *)
(* structure is walked at its own address, and that a callback's flags say *)
(* how the thing it gets is held.                                          *)
(*                                                                         *)
(* The steps of the walk change the two stacks in five ways only (a call,  *)
(* a call that returns at once, a step inside an activation, the step      *)
(* after a return, and a return).  There is a lemma for each, and the      *)
(* proof for an action checks the frames it pushes or changes.             *)
(***************************************************************************)
EXTENDS AstWalk, SequenceTheorems, TLAPS

-----------------------------------------------------------------------------
FrameOK(f) ==
    f \in Frame /\ InPlace(f) /\ (f.kind = "REC" => f.direct)

FramesOK(s) == s \in Seq(Frame) /\ \A k \in 1 .. Len(s) : FrameOK(s[k])

\* How many names there are: the top activation has one only while it waits.
NameCount(s) ==
    IF s = << >> THEN 0 ELSE IF Waits(s[Len(s)]) THEN Len(s) ELSE Len(s) - 1

NamesOK(s, n) ==
    /\ n \in Seq(FieldNames)
    /\ Len(n) = NameCount(s)
    /\ \A k \in 1 .. Len(n) : n[k] = FieldOf(s[k])
    /\ \A k \in 1 .. Len(s) - 1 : Waits(s[k])

StacksOK(s, n) == FramesOK(s) /\ NamesOK(s, n)

\* The inductive invariant.
Inv ==
    /\ StacksOK(stack, names)
    /\ nodes \in 0 .. Budget \cup {1}
    /\ cb = None \/ cb.when \in Whens \cup {"ONCE"}
    /\ result = (IF stack = << >> THEN -1 ELSE None)

-----------------------------------------------------------------------------
(***************************************************************************)
(* The two stacks.                                                         *)
(***************************************************************************)

\* Replacing the frame on top.
LEMMA ReplaceTop ==
    ASSUME NEW s \in Seq(Frame), s # << >>, NEW f \in Frame
    PROVE  LET t == [s EXCEPT ![Len(s)] = f]
           IN  /\ t \in Seq(Frame) /\ t # << >>
               /\ Len(t) = Len(s) /\ Len(s) \in Nat \ {0}
               /\ \A k \in 1 .. Len(s) : t[k] = IF k = Len(s) THEN f ELSE s[k]
  OBVIOUS

\* A sequence with one more element on top, and without the one on top.
LEMMA AppendFacts ==
    ASSUME NEW S, NEW s \in Seq(S), NEW e \in S
    PROVE  /\ Append(s, e) \in Seq(S) /\ Len(Append(s, e)) = Len(s) + 1
           /\ Append(s, e)[Len(s) + 1] = e
           /\ \A k \in 1 .. Len(s) : Append(s, e)[k] = s[k]
  OBVIOUS

LEMMA FrontFacts ==
    ASSUME NEW S, NEW s \in Seq(S), s # << >>
    PROVE  /\ Front(s) \in Seq(S) /\ Len(Front(s)) = Len(s) - 1
           /\ Len(s) \in Nat \ {0}
           /\ \A k \in 1 .. Len(s) - 1 : Front(s)[k] = s[k]
<1> DEFINE f == SubSeq(s, 1, Len(s) - 1)
           c == Len(s)
<1>1. c \in Nat \ {0}
  BY EmptySeq, LenProperties
<1>2. \A k \in 1 .. c - 1 : s[k] \in S
  BY <1>1, ElementOfSeq
<1>3. c - 1 \in Int /\ 1 \in Int
  BY <1>1
<1>4. /\ f \in Seq(S)
      /\ Len(f) = IF 1 <= c - 1 THEN c - 1 - 1 + 1 ELSE 0
      /\ \A k \in 1 .. c - 1 - 1 + 1 : f[k] = s[1 + k - 1]
  BY <1>2, <1>3, SubSeqProperties
<1>5. Front(s) = f
  BY DEF Front
<1> HIDE DEF f, c
<1>6. Len(f) = c - 1
  BY <1>1, <1>4
<1>7. \A k \in 1 .. c - 1 : f[k] = s[k]
  BY <1>1, <1>4
<1> QED
  BY <1>1, <1>4, <1>5, <1>6, <1>7 DEF c

\* A step inside an activation, or a call that has returned at once.
LEMMA StepInside ==
    ASSUME NEW s, NEW n, StacksOK(s, n), s # << >>, ~Waits(s[Len(s)]),
           NEW f, FrameOK(f), ~Waits(f)
    PROVE  /\ StacksOK([s EXCEPT ![Len(s)] = f], n)
           /\ [s EXCEPT ![Len(s)] = f] # << >>
<1> DEFINE t == [s EXCEPT ![Len(s)] = f]
<1>1. s \in Seq(Frame) /\ f \in Frame
  BY DEF StacksOK, FramesOK, FrameOK
<1>2. /\ t \in Seq(Frame) /\ t # << >>
      /\ Len(t) = Len(s) /\ Len(s) \in Nat \ {0}
      /\ \A k \in 1 .. Len(s) : t[k] = IF k = Len(s) THEN f ELSE s[k]
  BY <1>1, ReplaceTop
<1> HIDE DEF t
<1>3. FramesOK(t)
  BY <1>2 DEF StacksOK, FramesOK
<1>4. NamesOK(t, n)
  BY <1>2 DEF StacksOK, NamesOK, NameCount
<1> QED
  BY <1>2, <1>3, <1>4 DEF t, StacksOK

LEMMA CallAtOnce ==
    ASSUME NEW s, NEW n, StacksOK(s, n), s # << >>, ~Waits(s[Len(s)]),
           NEW f, FrameOK(f), Waits(f), FieldOf(f) \in FieldNames
    PROVE  /\ StacksOK([s EXCEPT ![Len(s)] = f], Append(n, FieldOf(f)))
           /\ [s EXCEPT ![Len(s)] = f] # << >>
<1> DEFINE t == [s EXCEPT ![Len(s)] = f]
           m == Append(n, FieldOf(f))
<1>1. s \in Seq(Frame) /\ f \in Frame
  BY DEF StacksOK, FramesOK, FrameOK
<1>2. /\ t \in Seq(Frame) /\ t # << >>
      /\ Len(t) = Len(s) /\ Len(s) \in Nat \ {0}
      /\ \A k \in 1 .. Len(s) : t[k] = IF k = Len(s) THEN f ELSE s[k]
  BY <1>1, ReplaceTop
<1>3. n \in Seq(FieldNames) /\ Len(n) = Len(s) - 1
  BY DEF StacksOK, NamesOK, NameCount
<1>4. /\ m \in Seq(FieldNames) /\ Len(m) = Len(s)
      /\ \A k \in 1 .. Len(s) : m[k] = IF k = Len(s) THEN FieldOf(f) ELSE n[k]
  <2>1. /\ m \in Seq(FieldNames) /\ Len(m) = Len(n) + 1 /\ m[Len(n) + 1] = FieldOf(f)
        /\ \A k \in 1 .. Len(n) : m[k] = n[k]
    BY <1>3, AppendFacts
  <2> HIDE DEF m
  <2>2. Len(m) = Len(s) /\ m[Len(s)] = FieldOf(f)
    BY <1>2, <1>3, <2>1
  <2>3. ASSUME NEW k \in 1 .. Len(s), k # Len(s)
        PROVE  m[k] = n[k]
    <3>1. k \in 1 .. Len(n)
      <4>1. Len(s) \in Nat \ {0} /\ Len(n) = Len(s) - 1
        BY <1>2, <1>3, Zenon
      <4> HIDE DEF t
      <4> QED
        BY <2>3, <4>1
    <3> QED
      BY <2>1, <3>1, Zenon
  <2> QED
    BY <2>1, <2>2, <2>3
<1> HIDE DEF t, m
<1>5. FramesOK(t)
  BY <1>2 DEF StacksOK, FramesOK
<1>6. NamesOK(t, m)
  <2>1. Len(m) = NameCount(t)
    BY <1>2, <1>4 DEF NameCount
  <2>2. \A k \in 1 .. Len(m) : m[k] = FieldOf(t[k])
    BY <1>2, <1>3, <1>4 DEF StacksOK, NamesOK
  <2>3. \A k \in 1 .. Len(t) - 1 : Waits(t[k])
    BY <1>2 DEF StacksOK, NamesOK
  <2> QED
    BY <1>4, <2>1, <2>2, <2>3 DEF NamesOK
<1> QED
  BY <1>2, <1>5, <1>6 DEF t, m, StacksOK

\* A call: the caller f waits, and the frame of the callee g is on top.
LEMMA PushFrame ==
    ASSUME NEW s, NEW n, StacksOK(s, n), s # << >>, Waits(s[Len(s)]),
           NEW g, FrameOK(g), ~Waits(g)
    PROVE  StacksOK(Append(s, g), n) /\ Append(s, g) # << >>
<1> DEFINE t == Append(s, g)
<1>1. s \in Seq(Frame) /\ g \in Frame
  BY DEF StacksOK, FramesOK, FrameOK
<1>2. /\ t \in Seq(Frame) /\ t # << >>
      /\ Len(t) = Len(s) + 1 /\ Len(s) \in Nat \ {0}
      /\ \A k \in 1 .. Len(t) : t[k] = IF k = Len(t) THEN g ELSE s[k]
  BY <1>1
<1> HIDE DEF t
<1>3. FramesOK(t)
  BY <1>2 DEF StacksOK, FramesOK
<1>4. NamesOK(t, n)
  <2>1. n \in Seq(FieldNames) /\ Len(n) = Len(s)
    BY DEF StacksOK, NamesOK, NameCount
  <2>2. Len(n) = NameCount(t)
    BY <1>2, <2>1 DEF NameCount
  <2>3. \A k \in 1 .. Len(n) : n[k] = FieldOf(t[k])
    BY <1>2, <2>1 DEF StacksOK, NamesOK
  <2>4. \A k \in 1 .. Len(t) - 1 : Waits(t[k])
    BY <1>2 DEF StacksOK, NamesOK
  <2> QED
    BY <2>1, <2>2, <2>3, <2>4 DEF NamesOK
<1> QED
  BY <1>2, <1>3, <1>4 DEF t, StacksOK

LEMMA CallFrame ==
    ASSUME NEW s, NEW n, StacksOK(s, n), s # << >>, ~Waits(s[Len(s)]),
           NEW f, FrameOK(f), Waits(f), FieldOf(f) \in FieldNames,
           NEW g, FrameOK(g), ~Waits(g)
    PROVE  /\ StacksOK(Append([s EXCEPT ![Len(s)] = f], g), Append(n, FieldOf(f)))
           /\ Append([s EXCEPT ![Len(s)] = f], g) # << >>
<1> DEFINE t == [s EXCEPT ![Len(s)] = f]
<1>1. StacksOK(t, Append(n, FieldOf(f))) /\ t # << >>
  BY CallAtOnce
<1>2. t[Len(t)] = f
  BY ReplaceTop DEF StacksOK, FramesOK, FrameOK
<1> HIDE DEF t
<1>3. StacksOK(Append(t, g), Append(n, FieldOf(f))) /\ Append(t, g) # << >>
  BY <1>1, <1>2, PushFrame
<1> QED
  BY <1>3 DEF t

\* The step after a return: the name of what was handed over goes.
LEMMA AfterCall ==
    ASSUME NEW s, NEW n, StacksOK(s, n), s # << >>, Waits(s[Len(s)]),
           NEW f, FrameOK(f), ~Waits(f)
    PROVE  /\ StacksOK([s EXCEPT ![Len(s)] = f], Front(n))
           /\ [s EXCEPT ![Len(s)] = f] # << >>
<1> DEFINE t == [s EXCEPT ![Len(s)] = f]
           m == Front(n)
<1>1. s \in Seq(Frame) /\ f \in Frame
  BY DEF StacksOK, FramesOK, FrameOK
<1>2. /\ t \in Seq(Frame) /\ t # << >>
      /\ Len(t) = Len(s) /\ Len(s) \in Nat \ {0}
      /\ \A k \in 1 .. Len(s) : t[k] = IF k = Len(s) THEN f ELSE s[k]
  BY <1>1, ReplaceTop
<1>3. n \in Seq(FieldNames) /\ Len(n) = Len(s)
  BY DEF StacksOK, NamesOK, NameCount
<1>4. /\ m \in Seq(FieldNames) /\ Len(m) = Len(s) - 1
      /\ \A k \in 1 .. Len(s) - 1 : m[k] = n[k]
  <2>1. Len(n) # 0
    BY <1>2, <1>3
  <2>2. n # << >>
    BY <2>1, EmptySeq
  <2> QED
    BY <1>3, <2>2, FrontFacts
<1> HIDE DEF t, m
<1>5. FramesOK(t)
  BY <1>2 DEF StacksOK, FramesOK
<1>6. NamesOK(t, m)
  <2>1. Len(m) = NameCount(t)
    BY <1>2, <1>4 DEF NameCount
  <2>2. \A k \in 1 .. Len(m) : m[k] = FieldOf(t[k])
    BY <1>2, <1>3, <1>4 DEF StacksOK, NamesOK
  <2>3. \A k \in 1 .. Len(t) - 1 : Waits(t[k])
    BY <1>2 DEF StacksOK, NamesOK
  <2> QED
    BY <1>4, <2>1, <2>2, <2>3 DEF NamesOK
<1> QED
  BY <1>2, <1>5, <1>6 DEF t, m, StacksOK

\* A return: the frame on top goes and the one below, which goes on waiting, gets
\* the value.
LEMMA PopFrame ==
    ASSUME NEW s, NEW n, StacksOK(s, n), s # << >>, ~Waits(s[Len(s)])
    PROVE  LET c == Front(s)
           IN  /\ c = << >> => StacksOK(<< >>, n)
               /\ c # << >> =>
                     /\ StacksOK([c EXCEPT ![Len(c)].res = -1], n)
                     /\ [c EXCEPT ![Len(c)].res = -1] # << >>
<1> DEFINE c == Front(s)
<1>1. s \in Seq(Frame) /\ \A k \in 1 .. Len(s) : FrameOK(s[k])
  BY DEF StacksOK, FramesOK
<1>2. /\ c \in Seq(Frame) /\ Len(c) = Len(s) - 1 /\ Len(s) \in Nat \ {0}
      /\ \A k \in 1 .. Len(c) : c[k] = s[k]
  BY <1>1, FrontFacts
<1>3. /\ n \in Seq(FieldNames) /\ Len(n) = Len(c)
      /\ \A k \in 1 .. Len(n) : n[k] = FieldOf(c[k])
      /\ \A k \in 1 .. Len(c) : Waits(c[k])
  BY <1>2 DEF StacksOK, NamesOK, NameCount
<1>4. FramesOK(c)
  BY <1>1, <1>2 DEF FramesOK
<1> HIDE DEF c
<1>5. StacksOK(c, n)
  BY <1>2, <1>3, <1>4 DEF StacksOK, NamesOK, NameCount
<1>6. ASSUME c # << >>
      PROVE  [c EXCEPT ![Len(c)].res = -1] = c
  <2>1. Len(c) \in 1 .. Len(c) /\ c[Len(c)] \in Frame
    BY <1>2, <1>6
  <2>2. [c[Len(c)] EXCEPT !.res = -1] = c[Len(c)]
    BY <2>1 DEF Frame
  <2>3. [c EXCEPT ![Len(c)].res = -1] = [c EXCEPT ![Len(c)] = c[Len(c)]]
    BY <2>2
  <2>4. [c EXCEPT ![Len(c)] = c[Len(c)]] = c
    BY <1>2, <2>1
  <2> QED
    BY <2>3, <2>4
<1> QED
  BY <1>5, <1>6 DEF c
-----------------------------------------------------------------------------
(***************************************************************************)
(* The frames.                                                             *)
(***************************************************************************)
AnyFlags == SUBSET (Whens \cup {"IS_BASE", "HAS_ALLOCATION"})

\* An activation that starts is at its place.
LEMMA RecOK ==
    ASSUME NEW type \in DOMAIN Schema, NEW node \in Nat, NEW flags \in AnyFlags,
           NEW meta, meta = Schema[type].meta
    PROVE  /\ FrameOK(Rec(meta, type, node, flags, TRUE))
           /\ ~Waits(Rec(meta, type, node, flags, TRUE))
<1>1. meta \in MetaTypes /\ Len(Schema[type].items) \in Nat
  BY SchemaAssumption DEF MetaTypes
<1> QED
  BY <1>1 DEF FrameOK, Frame, InPlace, Rec, AnyFlags, Waits

\* The places of the two kinds of activation, one implication each way.
LEMMA RecPlace ==
    ASSUME NEW f, f.kind = "REC", InPlace(f)
    PROVE  /\ f.meta = Schema[f.type].meta
           /\ f.i \in 1 .. Len(Schema[f.type].items) + 1
           /\ f.at = "left item" => f.i <= Len(Schema[f.type].items)
  BY Zenon DEF InPlace

LEMMA ChoicePlace ==
    ASSUME NEW f, f.kind = "CHOICE", InPlace(f)
    PROVE  /\ f.meta = "CHOICE"
           /\ f.i \in 1 .. Len(Schema[f.type].items)
           /\ Schema[f.type].items[f.i].meta = "CHOICE"
           /\ f.idx \in 0 .. Len(Schema[f.type].items[f.i].members)
  BY Zenon DEF InPlace

LEMMA Interval ==
    ASSUME NEW n \in Nat, NEW i \in Nat
    PROVE  /\ i \in 1 .. n + 1 /\ i <= n => i \in 1 .. n
           /\ i \in 1 .. n => i \in 1 .. n + 1 /\ i <= n /\ i + 1 \in 1 .. n + 1
  OBVIOUS

LEMMA ChoiceOK ==
    ASSUME NEW type \in DOMAIN Schema, NEW i \in 1 .. Len(Schema[type].items),
           Schema[type].items[i].meta = "CHOICE", NEW node \in Nat,
           NEW flags \in AnyFlags, NEW idx \in 0 .. Len(Schema[type].items[i].members)
    PROVE  /\ FrameOK(ChoiceOf(type, i, node, flags, idx))
           /\ ~Waits(ChoiceOf(type, i, node, flags, idx))
<1>1. Len(Schema[type].items) \in Nat /\ Len(Schema[type].items[i].members) \in Nat
  BY SchemaAssumption
<1>2. i \in Nat /\ idx \in Nat
  BY <1>1
<1> QED
  BY <1>1, <1>2 DEF FrameOK, Frame, InPlace, ChoiceOf, AnyFlags, Waits, MetaTypes

\* Storing a result that is there already.
LEMMA SameResult ==
    ASSUME NEW f \in Frame
    PROVE  [f EXCEPT !.res = -1] = f
  BY DEF Frame

\* The names of the items and of their members are names of fields.
LEMMA NamesOfItems ==
    ASSUME NEW t \in DOMAIN Schema, NEW i \in 1 .. Len(Schema[t].items)
    PROVE  /\ Schema[t].items[i].name \in FieldNames
           /\ \A j \in 1 .. Len(Schema[t].items[i].members) :
                 Schema[t].items[i].members[j].name \in FieldNames
<1> DEFINE it == Schema[t].items[i]
<1>1. it \in AllItems
  BY DEF AllItems
<1> HIDE DEF it
<1>2. ASSUME NEW j \in 1 .. Len(it.members)
      PROVE  it.members[j] \in AllMembers
  <2>1. it.members[j] \in {it.members[k] : k \in 1 .. Len(it.members)}
    OBVIOUS
  <2> QED
    BY <1>1, <2>1 DEF AllMembers
<1> QED
  BY <1>1, <1>2 DEF FieldNames, it

\* Going on to item j.
LEMMA StepItem ==
    ASSUME NEW f \in Frame, NEW j \in Nat
    PROVE  LET g == [f EXCEPT !.at = "item", !.i = j]
           IN  /\ g \in Frame /\ g.i = j /\ g.at = "item"
               /\ g.kind = f.kind /\ g.meta = f.meta /\ g.type = f.type
               /\ g.direct = f.direct
  BY DEF Frame

\* What the invariant says of the frame on top.
LEMMA TopOK ==
    ASSUME Inv, stack # << >>
    PROVE  Top \in Frame /\ FrameOK(Top)
<1>1. Len(stack) \in 1 .. Len(stack)
  BY EmptySeq, LenProperties DEF Inv, StacksOK, FramesOK
<1> QED
  BY <1>1 DEF Inv, StacksOK, FramesOK, FrameOK, Top

-----------------------------------------------------------------------------
(***************************************************************************)
(* recurse_any keeps the invariant when the frame `caller' is at its place *)
(* and waits for the item, and a PRIV is not handed over wrapped.          *)
(***************************************************************************)
LEMMA AnyKeepsInv ==
    ASSUME Inv, stack # << >>, ~Waits(Top),
           NEW item, ItemOK(item),
           NEW flags \in AnyFlags, NEW wrapped \in BOOLEAN,
           NEW caller, FrameOK(caller), Waits(caller), FieldOf(caller) \in FieldNames,
           FieldOf(caller) = item.name,
           item.meta = "PRIV" => ~wrapped,
           item.meta = "CHOICE" =>
               /\ caller.i \in 1 .. Len(Schema[caller.type].items)
               /\ item = Schema[caller.type].items[caller.i],
           RecurseAny(item, flags, caller, wrapped)
    PROVE  Inv'
<1>1. StacksOK(stack, names) /\ ~Waits(stack[Len(stack)]) /\ stack # << >>
  BY DEF Inv, Top
<1>2. FieldOf(caller) \in FieldNames
  OBVIOUS
<1>3. caller \in Frame /\ caller.type \in DOMAIN Schema /\ caller.node \in Nat
  BY DEF FrameOK, Frame
<1>4. names' = Append(names, FieldOf(caller)) /\ result' = result
  BY DEF RecurseAny
<1>5. result' = None
  BY <1>1, <1>4 DEF Inv
<1>6. nodes \in 0 .. Budget \cup {1} /\ Budget \in Nat
  BY WalkAssumption DEF Inv
<1>7. ASSUME NEW g, FrameOK(g), ~Waits(g), stack' = Append(With(caller), g),
             nodes' \in 0 .. Budget \cup {1},
             cb' = None \/ cb'.when \in Whens \cup {"ONCE"}
      PROVE  Inv'
  <2>1. StacksOK(stack', names') /\ stack' # << >>
    BY <1>1, <1>2, <1>4, <1>7, CallFrame DEF With
  <2> QED
    BY <1>5, <1>7, <2>1 DEF Inv
<1>8. ASSUME stack' = With([caller EXCEPT !.res = -1]), nodes' = nodes,
             cb' = None \/ cb'.when \in Whens \cup {"ONCE"}
      PROVE  Inv'
  <2>1. stack' = With(caller)
    BY <1>3, <1>8, SameResult
  <2>2. StacksOK(stack', names') /\ stack' # << >>
    BY <1>1, <1>2, <1>4, <2>1, CallAtOnce DEF With
  <2> QED
    BY <1>5, <1>6, <1>8, <2>2 DEF Inv
<1>9. CASE VisitPriv(item, flags, caller, wrapped)
  <2>1. /\ item.type \in DOMAIN Schema /\ Schema[item.type].meta = "PRIV"
        /\ wrapped = FALSE
    BY <1>9 DEF VisitPriv, ItemOK
  <2>2. /\ stack' = Append(With(caller), Rec("PRIV", item.type, caller.node, flags, TRUE))
        /\ cb' = None /\ nodes' = nodes
    BY <1>9, <2>1 DEF VisitPriv
  <2>3. /\ FrameOK(Rec("PRIV", item.type, caller.node, flags, TRUE))
        /\ ~Waits(Rec("PRIV", item.type, caller.node, flags, TRUE))
    BY <1>3, <2>1, RecOK
  <2> QED
    BY <1>6, <1>7, <2>2, <2>3
<1>10. CASE VisitNull(item, flags, caller, wrapped)
  BY <1>8, <1>10 DEF VisitNull
<1>11. CASE VisitNode(item, flags, caller, wrapped)
  <2>1. PICK t \in Types :
            stack' = Append(With(caller), Rec("NODE", t, nodes + 1, flags, TRUE))
    BY <1>11 DEF VisitNode
  <2>2. nodes' = nodes + 1 /\ nodes < Budget /\ cb' = None
    BY <1>11 DEF VisitNode
  <2>3. nodes + 1 \in Nat /\ nodes' \in 0 .. Budget \cup {1}
    BY <1>6, <2>2
  <2>4. t \in DOMAIN Schema /\ Schema[t].meta = "NODE"
    BY TypesAssumption
  <2>5. /\ FrameOK(Rec("NODE", t, nodes + 1, flags, TRUE))
        /\ ~Waits(Rec("NODE", t, nodes + 1, flags, TRUE))
    BY <2>3, <2>4, RecOK
  <2> QED
    BY <1>7, <2>1, <2>2, <2>3, <2>5
<1>12. CASE VisitValue(item, flags, caller, wrapped)
  <2>1. cb'.when = "ONCE"
    BY <1>12 DEF VisitValue, Call
  <2> QED
    BY <1>8, <1>12, <2>1 DEF VisitValue
<1>13. CASE VisitChoice(item, flags, caller, wrapped)
  <2>1. PICK idx \in 0 .. Len(item.members) :
            stack' = Append(With(caller),
                            ChoiceOf(caller.type, caller.i, caller.node, flags, idx))
    BY <1>13 DEF VisitChoice
  <2>2. item.meta = "CHOICE" /\ nodes' = nodes
    BY <1>13 DEF VisitChoice
  <2>3. cb' = None \/ cb'.when \in Whens \cup {"ONCE"}
    BY <1>13 DEF VisitChoice, ChoiceCall, Call, Whens
  <2>4. /\ FrameOK(ChoiceOf(caller.type, caller.i, caller.node, flags, idx))
        /\ ~Waits(ChoiceOf(caller.type, caller.i, caller.node, flags, idx))
    BY <1>3, <2>2, ChoiceOK
  <2> QED
    BY <1>6, <1>7, <2>1, <2>2, <2>3, <2>4
<1> QED
  BY <1>9, <1>10, <1>11, <1>12, <1>13 DEF RecurseAny
-----------------------------------------------------------------------------
(***************************************************************************)
(* The three other kinds of step keep the invariant.                       *)
(***************************************************************************)

\* What callbacks may say of their occasion.
CbOK(c) == c = None \/ c.when \in Whens \cup {"ONCE"}

LEMMA CallbackOK ==
    /\ \A when \in Whens : \A flags : CbOK(RecCall(when, flags))
    /\ \A when \in Whens : \A flags, owner, item, node, name :
          CbOK(ChoiceCall(when, flags, owner, item, node, name))
  BY DEF CbOK, RecCall, ChoiceCall, Call

LEMMA InsideKeepsInv ==
    ASSUME Inv, stack # << >>, ~Waits(Top),
           NEW f, FrameOK(f), ~Waits(f), stack' = With(f),
           UNCHANGED <<names, nodes, result>>, CbOK(cb')
    PROVE  Inv'
<1>1. StacksOK(stack, names) /\ ~Waits(stack[Len(stack)]) /\ stack # << >>
  BY DEF Inv, Top
<1>2. StacksOK(stack', names') /\ stack' # << >>
  BY <1>1, StepInside DEF With
<1> QED
  BY <1>2 DEF Inv, CbOK

LEMMA AfterCallKeepsInv ==
    ASSUME Inv, stack # << >>, Waits(Top),
           NEW f, FrameOK(f), ~Waits(f), stack' = With(f), names' = Front(names),
           UNCHANGED <<nodes, result>>, CbOK(cb')
    PROVE  Inv'
<1>1. StacksOK(stack, names) /\ Waits(stack[Len(stack)]) /\ stack # << >>
  BY DEF Inv, Top
<1>2. StacksOK(stack', names') /\ stack' # << >>
  BY <1>1, AfterCall DEF With
<1> QED
  BY <1>2 DEF Inv, CbOK

LEMMA ReturnKeepsInv ==
    ASSUME Inv, stack # << >>, ~Waits(Top), Return(Top.res),
           UNCHANGED <<names, nodes>>, CbOK(cb')
    PROVE  Inv'
<1>1. StacksOK(stack, names) /\ ~Waits(stack[Len(stack)]) /\ stack # << >>
  BY DEF Inv, Top
<1>2. Top.res = -1
  BY TopOK DEF Frame
<1> DEFINE c == Front(stack)
<1>3. CASE c = << >>
  <2>1. stack' = << >> /\ result' = -1
    BY <1>2, <1>3 DEF Return
  <2>2. StacksOK(stack', names')
    BY <1>1, <1>3, <2>1, PopFrame
  <2> QED
    BY <2>1, <2>2 DEF Inv, CbOK
<1>4. CASE c # << >>
  <2>1. stack' = [c EXCEPT ![Len(c)].res = -1] /\ result' = result
    BY <1>2, <1>4 DEF Return
  <2>2. StacksOK(stack', names') /\ stack' # << >>
    BY <1>1, <1>4, <2>1, PopFrame
  <2> QED
    BY <1>1, <2>1, <2>2 DEF Inv, CbOK
<1> QED
  BY <1>3, <1>4

-----------------------------------------------------------------------------
\* The invariant holds when ast_walk is called.
LEMMA InitInv == Init => Inv
<1> SUFFICES ASSUME Init PROVE Inv
  OBVIOUS
<1>1. Budget \in Nat /\ WalkFlags \in AnyFlags
  BY WalkAssumption DEF AnyFlags
<1>2. names = << >> /\ cb = None
  BY DEF Init
<1>3. names \in Seq(FieldNames) /\ Len(names) = 0
  BY <1>2
<1>4. ASSUME NEW t \in Roots, stack = <<Rec("NODE", t, 1, WalkFlags, TRUE)>>,
             nodes = 1, result = None
      PROVE  Inv
  <2> DEFINE f == Rec("NODE", t, 1, WalkFlags, TRUE)
  <2>1. t \in DOMAIN Schema /\ Schema[t].meta = "NODE"
    BY TypesAssumption
  <2>2. FrameOK(f) /\ ~Waits(f)
    BY <1>1, <2>1, RecOK
  <2>3. f \in Frame
    BY <2>2 DEF FrameOK
  <2>4. stack = <<f>>
    BY <1>4
  <2> HIDE DEF f
  <2>5. stack \in Seq(Frame) /\ Len(stack) = 1 /\ stack[1] = f /\ stack # << >>
    BY <2>3, <2>4
  <2>6. FramesOK(stack)
    BY <2>2, <2>5 DEF FramesOK
  <2>7. NamesOK(stack, names)
    BY <1>3, <2>2, <2>5 DEF NamesOK, NameCount
  <2> QED
    BY <1>2, <1>4, <2>5, <2>6, <2>7 DEF Inv, StacksOK
<1>5. ASSUME stack = << >>, nodes = 0, result = -1
      PROVE  Inv
  <2>1. FramesOK(stack)
    BY <1>5 DEF FramesOK
  <2>2. NamesOK(stack, names)
    BY <1>3, <1>5 DEF NamesOK, NameCount
  <2> QED
    BY <1>1, <1>2, <1>5, <2>1, <2>2 DEF Inv, StacksOK
<1> QED
  BY <1>4, <1>5 DEF Init

\* Every step keeps it.
LEMMA NextInv == Inv /\ [Next]_vars => Inv'
<1> SUFFICES ASSUME Inv, [Next]_vars PROVE Inv'
  OBVIOUS
<1>1. CASE Before
  <2>1. stack # << >> /\ Top.kind = "REC" /\ Top.at = "before"
    BY <1>1 DEF Before, At
  <2>2. Top \in Frame /\ FrameOK(Top)
    BY <2>1, TopOK
  <2> DEFINE f == [Top EXCEPT !.at = "base"]
  <2>3. FrameOK(f) /\ ~Waits(f) /\ ~Waits(Top)
    BY <2>1, <2>2 DEF FrameOK, Frame, InPlace, Waits
  <2>4. stack' = With(f) /\ UNCHANGED <<names, nodes, result>> /\ CbOK(cb')
    BY <1>1, CallbackOK DEF Before, Whens
  <2> HIDE DEF f
  <2> QED
    BY <2>1, <2>3, <2>4, InsideKeepsInv
<1>2. CASE EnterBase
  <2>1. /\ stack # << >> /\ Top.kind = "REC" /\ Top.at = "base"
        /\ Schema[Top.type].base # ""
    BY <1>2 DEF EnterBase, At, HasBase
  <2>2. Top \in Frame /\ FrameOK(Top)
    BY <2>1, TopOK
  <2> DEFINE f == [Top EXCEPT !.at = "left base"]
             base == Schema[Top.type].base
             g == Rec("NODE", base, Top.node, Top.flags \cup {"IS_BASE"}, TRUE)
  <2>3. FrameOK(f) /\ Waits(f) /\ ~Waits(Top)
    BY <2>1, <2>2 DEF FrameOK, Frame, InPlace, Waits
  <2>4. FieldOf(f) = "base"
    BY <2>2 DEF Frame, FieldOf
  <2>5. base \in DOMAIN Schema /\ Schema[base].meta = "NODE"
    <3>1. Top.type \in DOMAIN Schema
      BY <2>2 DEF Frame
    <3> QED
      BY <2>1, <3>1, SchemaAssumption
  <2>6. Top.node \in Nat /\ Top.flags \cup {"IS_BASE"} \in AnyFlags
    BY <2>2 DEF Frame, AnyFlags
  <2>7. FrameOK(g) /\ ~Waits(g)
    BY <2>5, <2>6, RecOK
  <2>8. /\ stack' = Append(With(f), g) /\ names' = Append(names, FieldOf(f))
        /\ cb' = None /\ UNCHANGED <<nodes, result>>
    BY <1>2, <2>4 DEF EnterBase
  <2>9. StacksOK(stack, names) /\ ~Waits(stack[Len(stack)])
    BY <2>3 DEF Inv, Top
  <2> HIDE DEF f, g
  <2>10. FieldOf(f) \in FieldNames
    <3>1. "base" \in FieldNames
      BY DEF FieldNames
    <3> QED
      BY <2>4, <3>1, Zenon
  <2>11. StacksOK(stack', names') /\ stack' # << >>
    <3>1. /\ StacksOK(Append(With(f), g), Append(names, FieldOf(f)))
          /\ Append(With(f), g) # << >>
      BY <2>1, <2>3, <2>7, <2>9, <2>10, CallFrame DEF With
    <3> QED
      BY <2>8, <3>1, Zenon
  <2> QED
    BY <2>1, <2>8, <2>11 DEF Inv
<1>3. CASE LeaveBase
  <2>1. stack # << >> /\ Top.kind = "REC" /\ Top.at = "left base"
    BY <1>3 DEF LeaveBase, At
  <2>2. Top \in Frame /\ FrameOK(Top)
    BY <2>1, TopOK
  <2> DEFINE f == [Top EXCEPT !.at = "item"]
  <2>3. FrameOK(f) /\ ~Waits(f) /\ Waits(Top)
    BY <2>1, <2>2 DEF FrameOK, Frame, InPlace, Waits
  <2>4. /\ stack' = With(f) /\ names' = Front(names)
        /\ UNCHANGED <<nodes, result>> /\ CbOK(cb')
    BY <1>3 DEF LeaveBase, CbOK
  <2> HIDE DEF f
  <2> QED
    BY <2>1, <2>3, <2>4, AfterCallKeepsInv
<1>4. CASE NoBase
  <2>1. stack # << >> /\ Top.kind = "REC" /\ Top.at = "base"
    BY <1>4 DEF NoBase, At
  <2>2. Top \in Frame /\ FrameOK(Top)
    BY <2>1, TopOK
  <2> DEFINE f == [Top EXCEPT !.at = "item"]
  <2>3. FrameOK(f) /\ ~Waits(f) /\ ~Waits(Top)
    BY <2>1, <2>2 DEF FrameOK, Frame, InPlace, Waits
  <2>4. stack' = With(f) /\ UNCHANGED <<names, nodes, result>> /\ CbOK(cb')
    BY <1>4 DEF NoBase, CbOK
  <2> HIDE DEF f
  <2> QED
    BY <2>1, <2>3, <2>4, InsideKeepsInv
<1>5. CASE EnterItem
  <2>1. /\ stack # << >> /\ Top.kind = "REC" /\ Top.at = "item"
        /\ Top.i <= Len(Items)
    BY <1>5 DEF EnterItem, At
  <2>2. Top \in Frame /\ FrameOK(Top)
    BY <2>1, TopOK
  <2>3. Top.type \in DOMAIN Schema /\ Top.i \in Nat /\ Top.flags \in AnyFlags
    BY <2>2 DEF Frame, AnyFlags
  <2>4. Len(Items) \in Nat
    BY <2>3, SchemaAssumption DEF Items
  <2>5. Top.i \in 1 .. Len(Items)
    BY <2>1, <2>2, <2>4 DEF FrameOK, InPlace, Items
  <2>6. ItemOK(Item) /\ Item.meta # "PRIV"
    BY <2>3, <2>5, SchemaAssumption DEF Item, Items
  <2>7. ItemFlags \in AnyFlags
    BY <2>3 DEF ItemFlags, AnyFlags
  <2> DEFINE f == [Top EXCEPT !.at = "left item"]
  <2>8. f.type = Top.type /\ f.i = Top.i /\ f.at = "left item"
    BY <2>2 DEF Frame
  <2>9. FrameOK(f) /\ Waits(f) /\ ~Waits(Top)
    <3>1. f \in Frame
      BY <2>2 DEF Frame
    <3>2. InPlace(f)
      <4>1. f.kind = "REC" /\ f.meta = Top.meta
        BY <2>1, <2>2 DEF Frame
      <4>2. Top.meta = Schema[Top.type].meta
        BY <2>1, <2>2, RecPlace DEF FrameOK
      <4>3. f.i \in 1 .. Len(Schema[f.type].items)
        BY <2>5, <2>8 DEF Items
      <4> HIDE DEF f
      <4>4. f.i \in 1 .. Len(Schema[f.type].items) + 1 /\ f.i <= Len(Schema[f.type].items)
        BY <2>3, <2>4, <2>8, <4>3, Interval DEF Items
      <4> QED
        BY <2>8, <4>1, <4>2, <4>4, Zenon DEF InPlace
    <3>3. f.kind = "REC" => f.direct
      <4>1. f.kind = Top.kind /\ f.direct = Top.direct
        BY <2>2 DEF Frame
      <4>2. Top.kind = "REC" => Top.direct
        BY <2>2, Zenon DEF FrameOK
      <4> QED
        BY <4>1, <4>2, Zenon
    <3> QED
      BY <2>1, <2>8, <3>1, <3>2, <3>3 DEF FrameOK, Waits
  <2>10. FieldOf(f) = Item.name
    BY <2>8 DEF FieldOf, Item, Items
  <2>11. FieldOf(f) \in FieldNames
    BY <2>3, <2>5, <2>10, NamesOfItems DEF Item, Items
  <2>12. /\ f.i \in 1 .. Len(Schema[f.type].items)
         /\ Item = Schema[f.type].items[f.i]
    BY <2>5, <2>8 DEF Item, Items
  <2>13. RecurseAny(Item, ItemFlags, f, TRUE)
    BY <1>5 DEF EnterItem
  <2> HIDE DEF f
  <2> QED
    BY <2>1, <2>6, <2>7, <2>9, <2>10, <2>12, <2>13, <2>11, AnyKeepsInv
<1>6. CASE LeaveItem
  <2>1. stack # << >> /\ Top.kind = "REC" /\ Top.at = "left item"
    BY <1>6 DEF LeaveItem, At
  <2>2. Top \in Frame /\ FrameOK(Top)
    BY <2>1, TopOK
  <2> DEFINE f == [Top EXCEPT !.at = "item", !.i = @ + 1]
  <2>3. Len(Schema[Top.type].items) \in Nat /\ Top.i \in Nat
    BY <2>2, SchemaAssumption DEF Frame
  <2>4. FrameOK(f) /\ ~Waits(f) /\ Waits(Top)
    <3>1. /\ f \in Frame /\ f.at = "item" /\ f.i = Top.i + 1
          /\ f.kind = Top.kind /\ f.type = Top.type /\ f.meta = Top.meta
          /\ f.direct = Top.direct
      <4>1. Top.i + 1 \in Nat
        BY <2>3
      <4> QED
        BY <2>2, <4>1, StepItem
    <3> HIDE DEF f
    <3>2. InPlace(f)
      <4>1. /\ f.kind = "REC" /\ f.at = "item" /\ f.i = Top.i + 1
            /\ f.type = Top.type /\ f.meta = Top.meta
        BY <2>1, <3>1
      <4>2. /\ Top.meta = Schema[Top.type].meta
            /\ Top.i \in 1 .. Len(Schema[Top.type].items)
        BY <2>1, <2>2, <2>3, RecPlace, Interval DEF FrameOK
      <4>3. f.i \in 1 .. Len(Schema[f.type].items) + 1
        BY <2>3, <4>1, <4>2, Interval
      <4>4. f.meta = Schema[f.type].meta /\ Len(Schema[f.type].items) \in Nat
        BY <2>3, <4>1, <4>2
      <4> QED
        BY <4>1, <4>3, <4>4, Zenon DEF InPlace
    <3>3. (f.kind = "REC" => f.direct) /\ f.at = "item"
      <4>1. f.kind = Top.kind /\ f.direct = Top.direct /\ f.at = "item"
        BY <3>1
      <4>2. Top.kind = "REC" => Top.direct
        BY <2>2, Zenon DEF FrameOK
      <4> QED
        BY <4>1, <4>2, Zenon
    <3> QED
      BY <2>1, <3>1, <3>2, <3>3 DEF FrameOK, Waits
  <2>5. /\ stack' = With(f) /\ names' = Front(names)
        /\ UNCHANGED <<nodes, result>> /\ CbOK(cb')
    BY <1>6, CallbackOK DEF LeaveItem, Whens
  <2> HIDE DEF f
  <2> QED
    BY <2>1, <2>4, <2>5, AfterCallKeepsInv
<1>7. CASE After
  <2>1. stack # << >> /\ ~Waits(Top)
    BY <1>7 DEF After, At, Waits
  <2>2. Return(Top.res) /\ UNCHANGED <<names, nodes>> /\ CbOK(cb')
    BY <1>7, CallbackOK DEF After, Whens
  <2> QED
    BY <2>1, <2>2, ReturnKeepsInv
<1>8. CASE EnterMember
  <2>1. /\ stack # << >> /\ Top.kind = "CHOICE" /\ Top.at = "member"
        /\ Top.idx > 0
    BY <1>8 DEF EnterMember, At
  <2>2. Top \in Frame /\ FrameOK(Top)
    BY <2>1, TopOK
  <2>3. /\ Top.type \in DOMAIN Schema /\ Top.idx \in Nat
        /\ Top.flags \ {"IS_BASE"} \in AnyFlags
    BY <2>2 DEF Frame, AnyFlags
  <2>4. Top.i \in 1 .. Len(Items) /\ Item.meta = "CHOICE"
    BY <2>1, <2>2 DEF FrameOK, InPlace, Item, Items
  <2>5. Len(Item.members) \in Nat
    BY <2>3, <2>4, SchemaAssumption DEF Item, Items
  <2>6. Top.idx \in 1 .. Len(Item.members)
    BY <2>1, <2>2, <2>5 DEF FrameOK, InPlace, Item, Items
  <2> DEFINE member == Item.members[Top.idx]
             f == [Top EXCEPT !.at = "left member"]
  <2>7. ItemOK(member) /\ member.meta # "CHOICE"
    BY <2>3, <2>4, <2>6, SchemaAssumption DEF Item, Items
  <2>8. f.type = Top.type /\ f.i = Top.i /\ f.idx = Top.idx /\ f.at = "left member"
    BY <2>2 DEF Frame
  <2>9. FrameOK(f) /\ Waits(f) /\ ~Waits(Top)
    BY <2>1, <2>2, <2>4, <2>6 DEF FrameOK, Frame, InPlace, Waits, Item, Items
  <2>10. FieldOf(f) = member.name
    BY <2>8 DEF FieldOf, Item, Items
  <2>11. FieldOf(f) \in FieldNames
    BY <2>3, <2>4, <2>6, <2>10, NamesOfItems DEF Item, Items
  <2>12. RecurseAny(member, Top.flags \ {"IS_BASE"}, f, FALSE)
    BY <1>8 DEF EnterMember
  <2> HIDE DEF f, member
  <2> QED
    BY <2>1, <2>3, <2>7, <2>9, <2>10, <2>12, <2>11, AnyKeepsInv
<1>9. CASE NoMember
  <2>1. /\ stack # << >> /\ Top.kind = "CHOICE" /\ Top.at = "member"
        /\ Top.idx = 0
    BY <1>9 DEF NoMember, At
  <2>2. Top \in Frame /\ FrameOK(Top)
    BY <2>1, TopOK
  <2> DEFINE f == [Top EXCEPT !.at = "after"]
  <2>3. FrameOK(f) /\ ~Waits(f) /\ ~Waits(Top)
    BY <2>1, <2>2 DEF FrameOK, Frame, InPlace, Waits
  <2>4. stack' = With(f) /\ UNCHANGED <<names, nodes, result>> /\ CbOK(cb')
    BY <1>9 DEF NoMember, CbOK
  <2> HIDE DEF f
  <2> QED
    BY <2>1, <2>3, <2>4, InsideKeepsInv
<1>10. CASE LeaveMember
  <2>1. stack # << >> /\ Top.kind = "CHOICE" /\ Top.at = "left member"
    BY <1>10 DEF LeaveMember, At
  <2>2. Top \in Frame /\ FrameOK(Top)
    BY <2>1, TopOK
  <2> DEFINE f == [Top EXCEPT !.at = "after"]
             members == Schema[Top.type].items[Top.i].members
  <2>3. Len(members) \in Nat
    <3>1. Top.type \in DOMAIN Schema /\ Top.i \in 1 .. Len(Schema[Top.type].items)
      BY <2>1, <2>2 DEF FrameOK, Frame, InPlace
    <3> QED
      BY <3>1, SchemaAssumption
  <2>4. FrameOK(f) /\ ~Waits(f) /\ Waits(Top)
    <3>1. f \in Frame
      BY <2>2 DEF Frame
    <3>2. InPlace(f)
      <4>1. /\ f.kind = "CHOICE" /\ f.at = "after" /\ f.i = Top.i /\ f.idx = Top.idx
            /\ f.type = Top.type /\ f.meta = Top.meta
        BY <2>1, <2>2 DEF Frame
      <4>2. /\ Top.meta = "CHOICE" /\ Top.i \in 1 .. Len(Schema[Top.type].items)
            /\ Schema[Top.type].items[Top.i].meta = "CHOICE"
            /\ Top.idx \in 0 .. Len(members)
        BY <2>1, <2>2, ChoicePlace DEF FrameOK
      <4> HIDE DEF f
      <4> QED
        BY <4>1, <4>2, Zenon DEF InPlace
    <3>3. (f.kind = "REC" => f.direct) /\ f.at = "after"
      BY <2>2 DEF FrameOK, Frame
    <3> QED
      BY <2>1, <3>1, <3>2, <3>3 DEF FrameOK, Waits
  <2>5. /\ stack' = With(f) /\ names' = Front(names)
        /\ UNCHANGED <<nodes, result>> /\ CbOK(cb')
    BY <1>10 DEF LeaveMember, CbOK
  <2> HIDE DEF f
  <2> QED
    BY <2>1, <2>4, <2>5, AfterCallKeepsInv
<1>11. CASE AfterChoice
  <2>1. stack # << >> /\ ~Waits(Top)
    BY <1>11 DEF AfterChoice, At, Waits
  <2>2. Return(Top.res) /\ UNCHANGED <<names, nodes>> /\ CbOK(cb')
    BY <1>11, CallbackOK DEF AfterChoice, Whens
  <2> QED
    BY <2>1, <2>2, ReturnKeepsInv
<1>12. CASE UNCHANGED vars
  BY <1>12 DEF vars, Inv
<1> QED
  BY <1>1, <1>2, <1>3, <1>4, <1>5, <1>6, <1>7, <1>8, <1>9, <1>10, <1>11, <1>12
  DEF Next

-----------------------------------------------------------------------------
\* The invariant of the walk: every activation is at a place of its structure,
\* and the two stacks agree.
THEOREM Invariance == Spec => []Inv
  BY InitInv, NextInv, PTL DEF Spec

\* ast_walk has its variables in their types, every activation at a place of the
\* structure it walks, and a result iff it has returned.
THEOREM TypeCorrect == Spec => []TypeOK
<1>1. Inv => TypeOK
  BY DEF Inv, StacksOK, FramesOK, FrameOK, NamesOK, TypeOK
<1> QED
  BY <1>1, Invariance, PTL

\* get_name is right: cookie->stack holds the names of the fields the activations
\* have handed over, in their order, whatever the tree, and is empty at the end.
THEOREM NamesInStep == Spec => []NamesFollowFrames
<1>1. ASSUME Inv PROVE NamesFollowFrames
  <2> DEFINE waiting == {j \in 1 .. Len(stack) : Waits(stack[j])}
  <2>1. /\ stack \in Seq(Frame) /\ names \in Seq(FieldNames)
        /\ Len(stack) \in Nat /\ Len(names) = NameCount(stack)
        /\ \A k \in 1 .. Len(names) : names[k] = FieldOf(stack[k])
        /\ \A k \in 1 .. Len(stack) - 1 : Waits(stack[k])
    BY <1>1 DEF Inv, StacksOK, FramesOK, NamesOK
  <2>2. 1 .. Len(names) = waiting
    <3>1. CASE stack = << >>
      BY <2>1, <3>1 DEF NameCount
    <3>2. CASE stack # << >>
      <4>1. Len(stack) \in Nat \ {0}
        BY <2>1, <3>2, EmptySeq, LenProperties
      <4>2. CASE Waits(stack[Len(stack)])
        <5>1. Len(names) = Len(stack)
          BY <2>1, <3>2, <4>2 DEF NameCount
        <5>2. \A k \in 1 .. Len(stack) : Waits(stack[k])
          BY <2>1, <4>1, <4>2
        <5> QED
          BY <5>1, <5>2
      <4>3. CASE ~Waits(stack[Len(stack)])
        <5>1. Len(names) = Len(stack) - 1
          BY <2>1, <3>2, <4>3 DEF NameCount
        <5> QED
          BY <2>1, <4>1, <4>3, <5>1
      <4> QED
        BY <4>2, <4>3
    <3> QED
      BY <3>1, <3>2
  <2>3. names = [k \in 1 .. Len(names) |-> names[k]]
    BY <2>1
  <2>4. names = [k \in waiting |-> FieldOf(stack[k])]
    BY <2>1, <2>2, <2>3
  <2> QED
    BY <2>1, <2>4 DEF NamesFollowFrames
<1> QED
  BY <1>1, Invariance, PTL

\* recurse_priv reads the structure at the address it is given, never through a
\* variable that holds the address.
THEOREM InPlaceAlways == Spec => []WalkedInPlace
<1>1. Inv => WalkedInPlace
  BY DEF Inv, StacksOK, FramesOK, FrameOK, WalkedInPlace
<1> QED
  BY <1>1, Invariance, PTL

-----------------------------------------------------------------------------
(***************************************************************************)
(* What each step of the walk does to the C call stack and which callback  *)
(* it makes (lemma Shapes), and from that, that callbacks are told how the *)
(* thing they get is held (FlagsMark).  FlagsMark is about the flags of    *)
(* the step just made; the inductive invariant is about all activations:   *)
(* each was marked when it was called, and nothing changes its flags.      *)
(***************************************************************************)
\* How an activation is marked by the one that waits for it.
Marked(holder, f) ==
    /\ holder.at = "left base" => "IS_BASE" \in f.flags
    /\ holder.at = "left item" => "HAS_ALLOCATION" \in f.flags
    /\ holder.at = "left member" => "IS_BASE" \notin f.flags

\* Two states of one activation that has begun.
Alike(f, g) ==
    /\ g.kind = f.kind /\ g.idx = f.idx /\ g.flags = f.flags
    /\ f.at # "before" /\ g.at # "before"

\* The step makes the callback for an occasion, if it is asked for.
Announces(when, flags, choice) ==
    when \in flags =>
        cb' # None /\ cb'.when = when /\ (cb'.meta = "CHOICE" <=> choice)

\* The five kinds of step: within an activation; its first callback; a call of
\* recurse_priv_or_node; the CHOICE case of recurse_any; and a return.
Goes == \E f \in Frame :
    /\ Alike(Top, f) /\ stack' = With(f)
    /\ cb' = None \/ cb'.when \in {"ONCE", "BETWEEN"}

Begins == \E f \in Frame :
    /\ Top.kind = "REC" /\ Top.at = "before"
    /\ f = [Top EXCEPT !.at = "base"] /\ stack' = With(f)
    /\ cb' = RecCall("BEFORE", Top.flags)
    /\ Announces("BEFORE", Top.flags, FALSE)

Calls == \E f, g \in Frame :
    /\ Alike(Top, f) /\ stack' = Append(With(f), g)
    /\ g.kind = "REC" /\ g.at = "before" /\ Marked(f, g)
    /\ Top.flags \cap Whens \subseteq g.flags
    /\ cb' = None

Chooses == \E f, g \in Frame :
    /\ Alike(Top, f) /\ stack' = Append(With(f), g)
    /\ g.kind = "CHOICE" /\ g.at = "member"
    /\ Top.flags \cap Whens \subseteq g.flags
    /\ cb' = None \/ cb'.meta = "CHOICE"
    /\ Announces("BEFORE", g.flags, TRUE)

Ends ==
    /\ stack' = Front(stack) /\ Top.at # "before"
    /\ cb' = None \/ cb'.when = "AFTER"
    /\ Announces("AFTER", Top.flags, Top.kind = "CHOICE")

-----------------------------------------------------------------------------
\* What a callback's type says: a structure, or the field of a CHOICE.
LEMMA FieldIsType ==
    ASSUME NEW owner \in DOMAIN Schema, NEW name \in FieldNames
    PROVE  owner \in CallTypes /\ <<owner, name>> \in CallTypes
<1>1. owner \in CallTypes
    BY DEF CallTypes
<1>2. <<owner, name>> \in CallTypes
    BY DEF CallTypes
<1> QED BY <1>1, <1>2

\* There is a number for another node.
LEMMA NextNode == Inv => nodes + 1 \in Nat
<1>1. Inv => nodes \in 0 .. Budget \cup {1}
    BY DEF Inv
<1>2. Budget \in Nat
    BY WalkAssumption
<1> QED BY <1>1, <1>2

\* Callbacks are not None.
LEMMA CallIsOne ==
    ASSUME NEW when \in {"BEFORE", "AFTER"}, NEW flags \in AnyFlags,
           NEW meta \in MetaTypes,
           NEW type \in CallTypes,
           NEW n \in Nat, NEW name \in FieldNames \cup {""}, NEW deref \in {1, 2},
           NEW c, c = Call(when, flags, meta, type, n, name, deref)
    PROVE  c # None
<1>1. flags \ Whens \in SUBSET {"IS_BASE", "HAS_ALLOCATION"}
    BY DEF AnyFlags
<1>2. c \in CallsAround
    BY <1>1 DEF Call, CallsAround
<1> QED BY <1>2, NoneAssumption

\* get_name gives the name of a field.
LEMMA NameIsOne == Inv => Name \in FieldNames \cup {""}
<1> SUFFICES ASSUME Inv, names # << >> PROVE Last(names) \in FieldNames
    BY DEF Name
<1>1. names \in Seq(FieldNames)
    BY DEF Inv, StacksOK, NamesOK
<1> QED BY <1>1 DEF Last

\* A callback for an activation of recurse_priv_or_node says which it is.
LEMMA RecAnnounces ==
    ASSUME Inv, stack # << >>, Top.kind = "REC", NEW when \in {"BEFORE", "AFTER"},
           cb' = RecCall(when, Top.flags)
    PROVE  /\ Announces(when, Top.flags, FALSE)
           /\ cb' = None \/ cb'.when = when
<1>1. Top \in Frame /\ FrameOK(Top)
    BY TopOK
<1>2. Top.meta \in MetaTypes /\ Top.meta # "CHOICE"
  <2>1. Top.meta = Schema[Top.type].meta /\ Top.type \in DOMAIN Schema
      BY <1>1, RecPlace DEF FrameOK, Frame
  <2> QED BY <2>1, SchemaAssumption DEF MetaTypes
<1>3. Top.flags \in AnyFlags /\ Top.node \in Nat /\ Top.type \in DOMAIN Schema
    BY <1>1 DEF Frame, AnyFlags
<1>4. CASE when \in Top.flags
  <2>1. cb' = Call(when, Top.flags, Top.meta, Top.type, Top.node, Name, 1)
      BY <1>4 DEF RecCall
  <2>2. Name \in FieldNames \cup {""}
      BY NameIsOne
  <2>3. Top.type \in CallTypes
      BY <1>3 DEF CallTypes
  <2>4. cb' # None
      BY <1>2, <1>3, <2>1, <2>2, <2>3, CallIsOne
  <2>5. cb'.when = when /\ cb'.meta = Top.meta
      BY <2>1 DEF Call
  <2> QED BY <1>2, <2>4, <2>5 DEF Announces
<1>5. CASE when \notin Top.flags
    BY <1>5 DEF Announces, RecCall
<1> QED BY <1>4, <1>5

\* ... and so does one for a CHOICE.
LEMMA ChoiceIsOne ==
    ASSUME NEW when \in {"BEFORE", "AFTER"}, NEW type \in CallTypes, NEW n \in Nat,
           NEW name \in FieldNames \cup {""},
           cb' = Call(when, {}, "CHOICE", type, n, name, 2)
    PROVE  cb' # None /\ cb'.when = when /\ cb'.meta = "CHOICE"
<1>1. {} \in AnyFlags
    BY DEF AnyFlags
<1>2. "CHOICE" \in MetaTypes
    BY DEF MetaTypes
<1>3. cb' # None
    BY <1>1, <1>2, CallIsOne
<1>4. cb'.when = when /\ cb'.meta = "CHOICE"
    BY DEF Call
<1> QED BY <1>3, <1>4

LEMMA ChoiceAnnounces ==
    ASSUME NEW when \in {"BEFORE", "AFTER"}, NEW flags \in AnyFlags,
           NEW owner \in DOMAIN Schema, NEW item, item.name \in FieldNames,
           NEW n \in Nat, NEW name \in FieldNames \cup {""},
           cb' = ChoiceCall(when, flags, owner, item, n, name)
    PROVE  /\ Announces(when, flags, TRUE)
           /\ cb' = None \/ (cb'.when = when /\ cb'.meta = "CHOICE")
<1>1. CASE when \in flags
  <2>1. cb' = Call(when, {}, "CHOICE", <<owner, item.name>>, n, name, 2)
      BY <1>1 DEF ChoiceCall
  <2>2. <<owner, item.name>> \in CallTypes
      BY FieldIsType
  <2>3. cb' # None /\ cb'.when = when /\ cb'.meta = "CHOICE"
      BY <2>1, <2>2, ChoiceIsOne
  <2> QED BY <2>3 DEF Announces
<1>2. CASE when \notin flags
    BY <1>2 DEF Announces, ChoiceCall
<1> QED BY <1>1, <1>2

\* recurse_any returns at once, or calls, or chooses.
LEMMA AnyShape ==
    ASSUME Inv, stack # << >>,
           NEW item, ItemOK(item), item.name \in FieldNames,
           NEW flags \in AnyFlags, NEW wrapped \in BOOLEAN,
           NEW caller \in Frame, Alike(Top, caller), Top.flags \cap Whens \subseteq flags,
           caller.at \in {"left item", "left member"},
           caller.at = "left item" /\ item.meta \in {"PRIV", "NODE"} =>
               "HAS_ALLOCATION" \in flags,
           caller.at = "left member" => "IS_BASE" \notin flags,
           item.meta = "PRIV" => ~wrapped,
           item.meta = "CHOICE" =>
               /\ caller.i \in 1 .. Len(Schema[caller.type].items)
               /\ item = Schema[caller.type].items[caller.i],
           RecurseAny(item, flags, caller, wrapped)
    PROVE  Goes \/ Calls \/ Chooses
<1>1. caller.type \in DOMAIN Schema /\ caller.node \in Nat
    BY DEF Frame
<1>2. [caller EXCEPT !.res = -1] = caller
    BY SameResult
<1>3. ASSUME NEW t \in DOMAIN Schema, NEW n \in Nat, NEW meta,
             meta = Schema[t].meta, item.meta \in {"PRIV", "NODE"},
             stack' = Append(With(caller), Rec(meta, t, n, flags, TRUE)), cb' = None
      PROVE  Calls
  <2>1. Rec(meta, t, n, flags, TRUE) \in Frame
      BY <1>3, RecOK DEF FrameOK
  <2>2. /\ Rec(meta, t, n, flags, TRUE).kind = "REC"
        /\ Rec(meta, t, n, flags, TRUE).at = "before"
        /\ Rec(meta, t, n, flags, TRUE).flags = flags
      BY DEF Rec
  <2>3. Marked(caller, Rec(meta, t, n, flags, TRUE))
      BY <1>3, <2>2 DEF Marked
  <2> QED BY <1>3, <2>1, <2>2, <2>3 DEF Calls
<1>4. CASE VisitPriv(item, flags, caller, wrapped)
  <2>1. /\ item.type \in DOMAIN Schema /\ Schema[item.type].meta = "PRIV"
        /\ wrapped = FALSE /\ item.meta = "PRIV"
      BY <1>4 DEF VisitPriv, ItemOK
  <2>2. /\ stack' = Append(With(caller), Rec("PRIV", item.type, caller.node, flags, TRUE))
        /\ cb' = None
      BY <1>4, <2>1 DEF VisitPriv
  <2> QED BY <1>1, <1>3, <2>1, <2>2
<1>5. CASE VisitNull(item, flags, caller, wrapped)
    BY <1>2, <1>5 DEF VisitNull, Goes
<1>6. CASE VisitNode(item, flags, caller, wrapped)
  <2>1. PICK t \in Types :
            stack' = Append(With(caller), Rec("NODE", t, nodes + 1, flags, TRUE))
      BY <1>6 DEF VisitNode
  <2>2. cb' = None /\ item.meta = "NODE" /\ nodes < Budget
      BY <1>6 DEF VisitNode
  <2>4. nodes + 1 \in Nat
      BY NextNode
  <2>3. t \in DOMAIN Schema /\ Schema[t].meta = "NODE"
      BY TypesAssumption
  <2> QED BY <1>3, <2>1, <2>2, <2>3, <2>4
<1>7. CASE VisitValue(item, flags, caller, wrapped)
  <2>1. cb'.when = "ONCE"
      BY <1>7 DEF VisitValue, Call
  <2> QED BY <1>2, <1>7, <2>1 DEF VisitValue, Goes
<1>8. CASE VisitChoice(item, flags, caller, wrapped)
  <2>1. PICK idx \in 0 .. Len(item.members) :
            stack' = Append(With(caller),
                            ChoiceOf(caller.type, caller.i, caller.node, flags, idx))
      BY <1>8 DEF VisitChoice
  <2> DEFINE g == ChoiceOf(caller.type, caller.i, caller.node, flags, idx)
  <2>2. item.meta = "CHOICE"
        /\ cb' = ChoiceCall("BEFORE", flags, caller.type, item, caller.node, item.name)
      BY <1>8 DEF VisitChoice
  <2>3. g \in Frame
      BY <1>1, <2>2, ChoiceOK DEF FrameOK
  <2>4. g.kind = "CHOICE" /\ g.at = "member" /\ g.flags = flags
      BY DEF ChoiceOf
  <2>5. /\ Announces("BEFORE", flags, TRUE)
        /\ cb' = None \/ cb'.meta = "CHOICE"
      BY <1>1, <2>2, ChoiceAnnounces
  <2> HIDE DEF g
  <2> QED BY <2>1, <2>3, <2>4, <2>5 DEF Chooses, g
<1> QED BY <1>4, <1>5, <1>6, <1>7, <1>8 DEF RecurseAny

\* Storing the result that is there does not change the stack.
LEMMA ResultStays ==
    ASSUME NEW s \in Seq(Frame), s # << >>
    PROVE  [s EXCEPT ![Len(s)].res = -1] = s
<1>1. Len(s) \in 1 .. Len(s) /\ s[Len(s)] \in Frame
    OBVIOUS
<1>2. [s[Len(s)] EXCEPT !.res = -1] = s[Len(s)]
    BY <1>1, SameResult
<1>3. [s EXCEPT ![Len(s)].res = -1] = [s EXCEPT ![Len(s)] = s[Len(s)]]
    BY <1>2
<1>4. [s EXCEPT ![Len(s)] = s[Len(s)]] = s
    BY <1>1
<1> QED BY <1>3, <1>4

\* A return takes the activation off the stack, and that is all.
LEMMA ReturnShape ==
    ASSUME Inv, stack # << >>, Return(Top.res)
    PROVE  stack' = Front(stack)
<1>1. Top.res = -1
    BY TopOK DEF Frame
<1>2. Front(stack) \in Seq(Frame)
    BY FrontFacts DEF Inv, StacksOK, FramesOK
<1>3. CASE Front(stack) = << >>
    BY <1>3 DEF Return
<1>4. CASE Front(stack) # << >>
    BY <1>1, <1>2, <1>4, ResultStays DEF Return
<1> QED BY <1>3, <1>4

-----------------------------------------------------------------------------
\* Moving on within an activation.
LEMMA MoveOn ==
    ASSUME NEW f \in Frame,
           NEW at \in {"base", "left base", "item", "left item", "left member", "after"}
    PROVE  LET g == [f EXCEPT !.at = at]
           IN  g \in Frame /\ g.at = at /\ (f.at # "before" => Alike(f, g))
  BY DEF Frame, Alike

LEMMA Successor == \A n \in Nat : n + 1 \in Nat
  OBVIOUS

LEMMA NextItem ==
    ASSUME NEW f \in Frame, f.at = "left item"
    PROVE  LET g == [f EXCEPT !.at = "item", !.i = @ + 1]
           IN  g \in Frame /\ Alike(f, g)
<1>1. f.i \in Nat
    BY DEF Frame
<1>2. f.i + 1 \in Nat
    BY <1>1, Successor, Zenon
<1> QED BY <1>2 DEF Frame, Alike

\* A pointer field adds its flag, and no flag is lost.
LEMMA ItemFlagsKeep ==
    ASSUME Inv, stack # << >>
    PROVE  /\ ItemFlags \in AnyFlags /\ Top.flags \subseteq ItemFlags
           /\ Item.ptr => "HAS_ALLOCATION" \in ItemFlags
<1>1. Top.flags \in AnyFlags
    BY TopOK DEF Frame, AnyFlags
<1> QED BY <1>1 DEF ItemFlags, AnyFlags

\* Every step of the walk has one of the five shapes.
LEMMA Shapes ==
    ASSUME Inv, Next
    PROVE  stack # << >> /\ (Goes \/ Begins \/ Calls \/ Chooses \/ Ends)
<1>1. CASE Before
  <2>1. /\ stack # << >> /\ Top.kind = "REC" /\ Top.at = "before"
        /\ cb' = RecCall("BEFORE", Top.flags) /\ stack' = With([Top EXCEPT !.at = "base"])
      BY <1>1 DEF Before, At
  <2>2. [Top EXCEPT !.at = "base"] \in Frame
      BY <2>1, TopOK, MoveOn
  <2>3. Announces("BEFORE", Top.flags, FALSE)
      BY <2>1, RecAnnounces
  <2> QED BY <2>1, <2>2, <2>3 DEF Begins
<1>2. CASE EnterBase
  <2>1. stack # << >> /\ Top.at = "base" /\ Schema[Top.type].base # ""
      BY <1>2 DEF EnterBase, At, HasBase
  <2>2. Top \in Frame
      BY <2>1, TopOK
  <2> DEFINE f == [Top EXCEPT !.at = "left base"]
             g == Rec("NODE", Schema[Top.type].base, Top.node,
                      Top.flags \cup {"IS_BASE"}, TRUE)
  <2>3. f \in Frame /\ Alike(Top, f) /\ f.at = "left base"
      BY <2>1, <2>2, MoveOn
  <2>4. Schema[Top.type].base \in DOMAIN Schema /\ Schema[Schema[Top.type].base].meta = "NODE"
    <3>1. Top.type \in DOMAIN Schema
        BY <2>2 DEF Frame
    <3> QED BY <2>1, <3>1, SchemaAssumption
  <2>5. Top.node \in Nat /\ Top.flags \cup {"IS_BASE"} \in AnyFlags
      BY <2>2 DEF Frame, AnyFlags
  <2>6. g \in Frame
      BY <2>4, <2>5, RecOK DEF FrameOK
  <2>7. g.kind = "REC" /\ g.at = "before" /\ g.flags = Top.flags \cup {"IS_BASE"}
      BY DEF Rec
  <2>8. stack' = Append(With(f), g) /\ cb' = None
      BY <1>2 DEF EnterBase
  <2> HIDE DEF f, g
  <2>9. Marked(f, g) /\ Top.flags \cap Whens \subseteq g.flags
      BY <2>3, <2>7 DEF Marked
  <2> QED BY <2>1, <2>3, <2>6, <2>7, <2>8, <2>9 DEF Calls
<1>3. CASE LeaveBase \/ NoBase
  <2>1. /\ stack # << >> /\ Top.at \in {"left base", "base"}
        /\ stack' = With([Top EXCEPT !.at = "item"]) /\ cb' = None
      BY <1>3 DEF LeaveBase, NoBase, At
  <2>2. /\ [Top EXCEPT !.at = "item"] \in Frame
        /\ Alike(Top, [Top EXCEPT !.at = "item"])
      BY <2>1, TopOK, MoveOn
  <2> QED BY <2>1, <2>2 DEF Goes
<1>4. CASE EnterItem
  <2>1. /\ stack # << >> /\ Top.kind = "REC" /\ Top.at = "item"
        /\ Top.i <= Len(Items)
      BY <1>4 DEF EnterItem, At
  <2>2. Top \in Frame /\ FrameOK(Top)
      BY <2>1, TopOK
  <2>3. Top.type \in DOMAIN Schema /\ Top.i \in Nat
      BY <2>2 DEF Frame
  <2>4. Len(Items) \in Nat
      BY <2>3, SchemaAssumption DEF Items
  <2>5. Top.i \in 1 .. Len(Items)
      BY <2>1, <2>2, <2>4 DEF FrameOK, InPlace, Items
  <2>6. ItemOK(Item) /\ Item.meta # "PRIV"
      BY <2>3, <2>5, SchemaAssumption DEF Item, Items
  <2>7. Item.name \in FieldNames
      BY <2>3, <2>5, NamesOfItems DEF Item, Items
  <2>8. ItemFlags \in AnyFlags /\ Top.flags \cap Whens \subseteq ItemFlags
      BY <2>1, ItemFlagsKeep
  <2>9. Item.meta \in {"PRIV", "NODE"} => "HAS_ALLOCATION" \in ItemFlags
      BY <2>1, <2>6, ItemFlagsKeep DEF ItemOK
  <2> DEFINE f == [Top EXCEPT !.at = "left item"]
  <2>10. f \in Frame /\ Alike(Top, f) /\ f.at = "left item"
      BY <2>1, <2>2, MoveOn
  <2>11. f.type = Top.type /\ f.i = Top.i
      BY <2>2 DEF Frame
  <2>12. RecurseAny(Item, ItemFlags, f, TRUE)
      BY <1>4 DEF EnterItem
  <2>13. /\ f.i \in 1 .. Len(Schema[f.type].items)
         /\ Item = Schema[f.type].items[f.i]
      BY <2>5, <2>11 DEF Item, Items
  <2> HIDE DEF f
  <2>14. Goes \/ Calls \/ Chooses
      BY <2>1, <2>6, <2>7, <2>8, <2>9, <2>10, <2>12, <2>13, AnyShape
  <2> QED BY <2>1, <2>14
<1>5. CASE LeaveItem
  <2>1. /\ stack # << >> /\ Top.at = "left item" /\ cb' = RecCall("BETWEEN", ItemFlags)
        /\ stack' = With([Top EXCEPT !.at = "item", !.i = @ + 1])
      BY <1>5 DEF LeaveItem, At
  <2>2. cb' = None \/ cb'.when = "BETWEEN"
      BY <2>1 DEF RecCall, Call
  <2>3. /\ [Top EXCEPT !.at = "item", !.i = @ + 1] \in Frame
        /\ Alike(Top, [Top EXCEPT !.at = "item", !.i = @ + 1])
      BY <2>1, TopOK, NextItem
  <2> QED BY <2>1, <2>2, <2>3 DEF Goes
<1>6. CASE After
  <2>1. /\ stack # << >> /\ Top.kind = "REC" /\ Top.at = "item"
        /\ cb' = RecCall("AFTER", Top.flags) /\ Return(Top.res)
      BY <1>6 DEF After, At
  <2>2. stack' = Front(stack)
      BY <2>1, ReturnShape
  <2>3. Announces("AFTER", Top.flags, FALSE) /\ (cb' = None \/ cb'.when = "AFTER")
      BY <2>1, RecAnnounces
  <2>4. Announces("AFTER", Top.flags, Top.kind = "CHOICE")
      BY <2>1, <2>3 DEF Announces
  <2> QED BY <2>1, <2>2, <2>3, <2>4 DEF Ends
<1>7. CASE EnterMember
  <2>1. /\ stack # << >> /\ Top.kind = "CHOICE" /\ Top.at = "member"
        /\ Top.idx > 0
      BY <1>7 DEF EnterMember, At
  <2>2. Top \in Frame /\ FrameOK(Top)
      BY <2>1, TopOK
  <2>3. /\ Top.type \in DOMAIN Schema /\ Top.idx \in Nat
        /\ Top.flags \ {"IS_BASE"} \in AnyFlags
        /\ Top.flags \cap Whens \subseteq Top.flags \ {"IS_BASE"}
        /\ "IS_BASE" \notin Top.flags \ {"IS_BASE"}
      BY <2>2 DEF Frame, AnyFlags, Whens
  <2>4. Top.i \in 1 .. Len(Items) /\ Item.meta = "CHOICE"
      BY <2>1, <2>2 DEF FrameOK, InPlace, Item, Items
  <2>5. Len(Item.members) \in Nat
      BY <2>3, <2>4, SchemaAssumption DEF Item, Items
  <2>6. Top.idx \in 1 .. Len(Item.members)
      BY <2>1, <2>2, <2>5 DEF FrameOK, InPlace, Item, Items
  <2> DEFINE member == Item.members[Top.idx]
             f == [Top EXCEPT !.at = "left member"]
  <2>7. ItemOK(member) /\ member.meta # "CHOICE"
      BY ZenonT(60), <2>3, <2>4, <2>6, SchemaAssumption DEF Item, Items
  <2>8. f \in Frame /\ Alike(Top, f) /\ f.at = "left member"
      BY <2>1, <2>2, MoveOn
  <2>9. member.name \in FieldNames
      BY <2>3, <2>4, <2>6, NamesOfItems DEF Item, Items
  <2>10. RecurseAny(member, Top.flags \ {"IS_BASE"}, f, FALSE)
      BY <1>7 DEF EnterMember
  <2> HIDE DEF f, member
  <2>11. Goes \/ Calls \/ Chooses
      BY <2>1, <2>3, <2>7, <2>8, <2>9, <2>10, AnyShape
  <2> QED BY <2>1, <2>11
<1>8. CASE NoMember \/ LeaveMember
  <2>1. /\ stack # << >> /\ Top.at \in {"member", "left member"}
        /\ stack' = With([Top EXCEPT !.at = "after"]) /\ cb' = None
      BY <1>8 DEF NoMember, LeaveMember, At
  <2>2. /\ [Top EXCEPT !.at = "after"] \in Frame
        /\ Alike(Top, [Top EXCEPT !.at = "after"])
      BY <2>1, TopOK, MoveOn
  <2> QED BY <2>1, <2>2 DEF Goes
<1>9. CASE AfterChoice
  <2>1. /\ stack # << >> /\ Top.kind = "CHOICE" /\ Top.at = "after"
        /\ cb' = ChoiceCall("AFTER", Top.flags, Top.type, Item, Top.node, Name)
        /\ Return(Top.res)
      BY <1>9 DEF AfterChoice, At
  <2>2. stack' = Front(stack)
      BY <2>1, ReturnShape
  <2>3. Top \in Frame /\ FrameOK(Top)
      BY <2>1, TopOK
  <2>4. Top.type \in DOMAIN Schema /\ Top.node \in Nat /\ Top.flags \in AnyFlags
      BY <2>3 DEF Frame, AnyFlags
  <2>5. Top.i \in 1 .. Len(Items)
      BY <2>1, <2>3, ChoicePlace DEF FrameOK, Items
  <2>6. Item.name \in FieldNames
      BY <2>4, <2>5, NamesOfItems DEF Item, Items
  <2>7. Announces("AFTER", Top.flags, TRUE) /\ (cb' = None \/ cb'.when = "AFTER")
      BY <2>1, <2>4, <2>6, ChoiceAnnounces, NameIsOne
  <2>8. Announces("AFTER", Top.flags, Top.kind = "CHOICE")
      BY <2>1, <2>7 DEF Announces
  <2> QED BY <2>1, <2>2, <2>7, <2>8 DEF Ends
<1> QED BY <1>1, <1>2, <1>3, <1>4, <1>5, <1>6, <1>7, <1>8, <1>9 DEF Next

-----------------------------------------------------------------------------
\* The activations after a step: those below the one on top are as they were, the
\* one on top has been replaced, and there may be one more, or one less.
LEMMA Replaced ==
    ASSUME Inv, stack # << >>, NEW f \in Frame
    PROVE  /\ Len(stack) \in Nat \ {0} /\ Len(With(f)) = Len(stack)
           /\ With(f) \in Seq(Frame)
           /\ With(f)[Len(stack)] = f
           /\ \A k \in 1 .. Len(stack) - 1 : With(f)[k] = stack[k]
<1>1. stack \in Seq(Frame)
    BY DEF Inv, StacksOK, FramesOK
<1> QED BY <1>1, ReplaceTop DEF With

LEMMA Pushed ==
    ASSUME Inv, stack # << >>, NEW f \in Frame, NEW g \in Frame
    PROVE  LET t == Append(With(f), g)
           IN  /\ Len(stack) \in Nat \ {0} /\ Len(t) = Len(stack) + 1
               /\ t[Len(stack) + 1] = g /\ t[Len(stack)] = f
               /\ \A k \in 1 .. Len(stack) - 1 : t[k] = stack[k]
<1> DEFINE w == With(f)
<1>1. /\ Len(stack) \in Nat \ {0} /\ Len(w) = Len(stack) /\ w \in Seq(Frame)
      /\ w[Len(stack)] = f /\ \A k \in 1 .. Len(stack) - 1 : w[k] = stack[k]
    BY Replaced
<1> HIDE DEF w
<1>2. /\ Len(Append(w, g)) = Len(w) + 1 /\ Append(w, g)[Len(w) + 1] = g
      /\ \A k \in 1 .. Len(w) : Append(w, g)[k] = w[k]
    BY <1>1, AppendFacts
<1>3. Append(w, g)[Len(stack)] = f
    BY <1>1, <1>2
<1>4. \A k \in 1 .. Len(stack) - 1 : Append(w, g)[k] = stack[k]
    BY <1>1, <1>2
<1> QED BY <1>1, <1>2, <1>3, <1>4 DEF w

LEMMA Popped ==
    ASSUME Inv, stack # << >>
    PROVE  /\ Len(stack) \in Nat \ {0} /\ Len(Front(stack)) = Len(stack) - 1
           /\ \A k \in 1 .. Len(stack) - 1 : Front(stack)[k] = stack[k]
  BY FrontFacts DEF Inv, StacksOK, FramesOK

(***************************************************************************)
(* Each activation was marked when it was called, and has the flags        *)
(* ast_walk was called with.                                               *)
(***************************************************************************)
AllMarked == \A k \in 1 .. Len(stack) - 1 :
    stack[k + 1].kind = "REC" => Marked(stack[k], stack[k + 1])

AllAsked == \A k \in 1 .. Len(stack) : WalkFlags \subseteq stack[k].flags

FlagsInv == Inv /\ AllMarked /\ AllAsked /\ FlagsMark

LEMMA FlagsInit == Init => AllMarked /\ AllAsked /\ FlagsMark
<1> SUFFICES ASSUME Init PROVE AllMarked /\ AllAsked /\ FlagsMark
    OBVIOUS
<1>1. cb = None
    BY DEF Init
<1>2. CASE stack = << >>
    BY <1>1, <1>2 DEF AllMarked, AllAsked, FlagsMark
<1>3. ASSUME NEW t, stack = <<Rec("NODE", t, 1, WalkFlags, TRUE)>>
      PROVE  AllMarked /\ AllAsked
  <2>1. Len(stack) = 1 /\ stack[1].flags = WalkFlags
      BY <1>3 DEF Rec
  <2> QED BY <2>1 DEF AllMarked, AllAsked
<1> QED BY <1>1, <1>2, <1>3 DEF Init, FlagsMark

\* A mark is in the flags.
LEMMA MarkedAlike ==
    ASSUME NEW holder, NEW f, NEW g, g.flags = f.flags, Marked(holder, f)
    PROVE  Marked(holder, g)
  BY DEF Marked

\* What is below the activation on top stays marked.
LEMMA MarkedStep ==
    ASSUME FlagsInv, Next
    PROVE  AllMarked' /\ AllAsked'
<1>1. Inv /\ AllMarked /\ AllAsked /\ stack # << >>
    BY Shapes DEF FlagsInv
<1> DEFINE c == Len(stack)
<1>2. c \in Nat \ {0} /\ Top = stack[c]
    BY <1>1, Popped DEF Top
<1>3. WalkFlags \subseteq Whens
    BY WalkAssumption
<1>4. ASSUME NEW f \in Frame, f.kind = Top.kind, f.flags = Top.flags, stack' = With(f)
      PROVE  AllMarked' /\ AllAsked'
  <2>1. /\ Len(stack') = c /\ stack'[c] = f
        /\ \A k \in 1 .. c - 1 : stack'[k] = stack[k]
      BY <1>1, <1>4, Replaced
  <2> HIDE DEF c
  <2>2. ASSUME NEW k \in 1 .. c - 1, stack'[k + 1].kind = "REC"
        PROVE  Marked(stack'[k], stack'[k + 1])
    <3>1. k + 1 \in 1 .. c /\ stack'[k] = stack[k]
        BY <1>2, <2>1
    <3>2. /\ stack'[k + 1].kind = stack[k + 1].kind
          /\ stack'[k + 1].flags = stack[k + 1].flags
        BY <1>2, <1>4, <2>1, <3>1
    <3>3. Marked(stack[k], stack[k + 1])
        BY <1>1, <2>2, <3>2 DEF AllMarked, c
    <3> QED BY <3>1, <3>2, <3>3, MarkedAlike, Zenon
  <2>3. \A k \in 1 .. c : WalkFlags \subseteq stack'[k].flags
      BY <1>1, <1>2, <1>4, <2>1 DEF AllAsked, c
  <2> QED BY <2>1, <2>2, <2>3 DEF AllMarked, AllAsked
<1>5. ASSUME NEW f \in Frame, NEW g \in Frame, f.kind = Top.kind, f.flags = Top.flags,
             stack' = Append(With(f), g), Top.flags \cap Whens \subseteq g.flags,
             g.kind = "REC" => Marked(f, g)
      PROVE  AllMarked' /\ AllAsked'
  <2>1. /\ Len(stack') = c + 1 /\ stack'[c] = f /\ stack'[c + 1] = g
        /\ \A k \in 1 .. c - 1 : stack'[k] = stack[k]
      BY <1>1, <1>5, Pushed
  <2> HIDE DEF c
  <2>2. ASSUME NEW k \in 1 .. c, stack'[k + 1].kind = "REC"
        PROVE  Marked(stack'[k], stack'[k + 1])
    <3>1. CASE k = c
        BY <1>5, <2>1, <2>2, <3>1
    <3>2. CASE k # c
      <4>1. k \in 1 .. c - 1 /\ k + 1 \in 1 .. c /\ stack'[k] = stack[k]
          BY <1>2, <2>1, <3>2
      <4>2. /\ stack'[k + 1].kind = stack[k + 1].kind
            /\ stack'[k + 1].flags = stack[k + 1].flags
          BY <1>2, <1>5, <2>1, <4>1
      <4>3. Marked(stack[k], stack[k + 1])
          BY <1>1, <2>2, <4>1, <4>2 DEF AllMarked, c
      <4> QED BY <4>1, <4>2, <4>3, MarkedAlike, Zenon
    <3> QED BY <3>1, <3>2
  <2>3. \A k \in 1 .. c + 1 : WalkFlags \subseteq stack'[k].flags
      BY <1>1, <1>2, <1>3, <1>5, <2>1 DEF AllAsked, c
  <2>4. Len(stack') - 1 = c
      BY <1>2, <2>1
  <2> QED BY <2>1, <2>2, <2>3, <2>4 DEF AllMarked, AllAsked
<1>6. ASSUME stack' = Front(stack) PROVE AllMarked' /\ AllAsked'
  <2>1. Len(stack') = c - 1 /\ \A k \in 1 .. c - 1 : stack'[k] = stack[k]
      BY <1>1, <1>6, Popped
  <2> HIDE DEF c
  <2>2. \A k \in 1 .. (c - 1) - 1 : k \in 1 .. c - 1 /\ k + 1 \in 1 .. c - 1
      BY <1>2
  <2> QED BY <1>1, <1>2, <2>1, <2>2 DEF AllMarked, AllAsked, c
<1> HIDE DEF c
<1>7. CASE Goes
    BY <1>4, <1>7 DEF Goes, Alike
<1>8. CASE Begins
  <2>1. Top \in Frame
      BY <1>1, TopOK
  <2>2. PICK f \in Frame : f = [Top EXCEPT !.at = "base"] /\ stack' = With(f)
      BY <1>8 DEF Begins
  <2>3. f.kind = Top.kind /\ f.flags = Top.flags
      BY <2>1, <2>2 DEF Frame
  <2> QED BY <1>4, <2>2, <2>3
<1>9. CASE Calls
    BY <1>5, <1>9 DEF Calls, Alike
<1>10. CASE Chooses
    BY <1>5, <1>10 DEF Chooses, Alike
<1>11. CASE Ends
    BY <1>6, <1>11 DEF Ends
<1> QED BY <1>1, <1>7, <1>8, <1>9, <1>10, <1>11, Shapes

\* The first callback of a structure has the flags of its activation.
LEMMA FlagsStep ==
    ASSUME FlagsInv, Next
    PROVE  FlagsMark'
<1>1. Inv /\ AllMarked /\ stack # << >>
    BY Shapes DEF FlagsInv
<1>2. CASE Goes
  <2>1. cb' = None \/ cb'.when # "BEFORE"
      BY <1>2 DEF Goes
  <2> QED BY <2>1 DEF FlagsMark
<1>3. CASE Begins
  <2>1. PICK f \in Frame :
            /\ f = [Top EXCEPT !.at = "base"] /\ stack' = With(f)
            /\ Top.kind = "REC" /\ cb' = RecCall("BEFORE", Top.flags)
      BY <1>3 DEF Begins
  <2>2. cb' = None \/ cb'.flags = Top.flags \ Whens
      BY <2>1 DEF RecCall, Call
  <2>3. Len(stack) > 1 => Marked(stack[Len(stack) - 1], Top)
    <3>1. Len(stack) \in Nat
        BY <1>1, Popped
    <3>2. ASSUME Len(stack) > 1 PROVE Marked(stack[Len(stack) - 1], Top)
      <4>1. /\ Len(stack) - 1 \in 1 .. Len(stack) - 1
            /\ (Len(stack) - 1) + 1 = Len(stack)
          BY <3>1, <3>2
      <4> QED BY <1>1, <2>1, <4>1 DEF AllMarked, Top
    <3> QED BY <3>2
  <2>4. /\ Len(stack') = Len(stack) /\ Len(stack) \in Nat
        /\ \A k \in 1 .. Len(stack) - 1 : stack'[k] = stack[k]
      BY <1>1, <2>1, Replaced
  <2>5. Len(stack) > 1 => stack'[Len(stack) - 1] = stack[Len(stack) - 1]
      BY <2>4
  <2>6. "IS_BASE" \notin Whens /\ "HAS_ALLOCATION" \notin Whens
      BY DEF Whens
  <2> QED BY <2>2, <2>3, <2>4, <2>5, <2>6 DEF FlagsMark, Marked
<1>4. CASE Calls
  <2>1. cb' = None
      BY <1>4 DEF Calls
  <2> QED BY <2>1 DEF FlagsMark
<1>5. CASE Chooses
  <2>1. cb' = None \/ cb'.meta = "CHOICE"
      BY <1>5 DEF Chooses
  <2> QED BY <2>1 DEF FlagsMark
<1>6. CASE Ends
  <2>1. cb' = None \/ cb'.when # "BEFORE"
      BY <1>6 DEF Ends
  <2> QED BY <2>1 DEF FlagsMark
<1> QED BY <1>1, <1>2, <1>3, <1>4, <1>5, <1>6, Shapes DEF FlagsInv

\* The invariant of the flags.
LEMMA FlagsKept == Spec => []FlagsInv
<1>1. Init => FlagsInv
    BY InitInv, FlagsInit DEF FlagsInv
<1>2. FlagsInv /\ [Next]_vars => FlagsInv'
  <2> SUFFICES ASSUME FlagsInv, [Next]_vars PROVE FlagsInv'
      OBVIOUS
  <2>1. Inv'
      BY NextInv DEF FlagsInv
  <2>2. CASE Next
      BY <2>1, <2>2, MarkedStep, FlagsStep DEF FlagsInv
  <2>3. CASE UNCHANGED vars
      BY <2>1, <2>3 DEF vars, FlagsInv, AllMarked, AllAsked, FlagsMark
  <2> QED BY <2>2, <2>3
<1> QED BY <1>1, <1>2, PTL DEF Spec

\* A callback is told how the structure it gets is held: whether it is the base of
\* a node and whether a pointer leads to it, however deep the tree.
THEOREM FlagsTell == Spec => []FlagsMark
<1>1. FlagsInv => FlagsMark
    BY DEF FlagsInv
<1> QED BY <1>1, FlagsKept, PTL
=============================================================================
