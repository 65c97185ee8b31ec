--------------------------- MODULE NodeStoreProofs ---------------------------
(***************************************************************************)
(* Proofs about module NodeStore: whatever the productions are, as long as *)
(* an action puts each of its arguments into at most one field and does    *)
(* not use the one it upgrades any more, no pointer dangles.               *)
(*                                                                         *)
(* NoDangling is not inductive: an upgrade gives a node back, and that it  *)
(* is not held elsewhere follows from OneOwner.  That one needs in turn    *)
(* that what is on the stack has a type and that interned strings have     *)
(* none, so that a string, which has many holders, is never upgraded.      *)
(***************************************************************************)
EXTENDS NodeStore, TLAPS

Live(a) == node[a].type # Free

StackLive == \A i \in 1 .. Len(yyvs) : yyvs[i] # Null => node[yyvs[i]].type \in Types

RefsLive ==
    \A a \in Addr : Live(a) => \A f \in Fields :
        node[a].refs[f] # Null => Live(node[a].refs[f])

Interned ==
    \A s \in Texts : strings[s] # Null =>
        node[strings[s]].type = Unset /\ node[strings[s]].text = s

Found ==
    \A a \in Addr : node[a].type = Unset =>
        node[a].text \in Texts /\ (ps = "ready" => strings[node[a].text] = a)

OneText ==
    \A a, b \in Addr : node[a].type = Unset /\ node[b].type = Unset
                          /\ node[a].text = node[b].text => a = b

TopUnit == top # Null => node[top].type = "translation_unit"

NothingYet == ps = "none" => yyvs = << >> /\ \A a \in Addr : ~Live(a)

StackOnce ==
    \A i, j \in 1 .. Len(yyvs) : yyvs[i] = yyvs[j] /\ yyvs[i] # Null => i = j

\* A node that is not a string and is held by a field is not on the stack.
OffStack ==
    \A a \in Addr : Live(a) => \A f \in Fields : \A i \in 1 .. Len(yyvs) :
        node[a].refs[f] # Null /\ yyvs[i] = node[a].refs[f] =>
            node[yyvs[i]].type = Unset

\* ... nor held by another field.
HeldOnce ==
    \A a, b \in Addr : Live(a) /\ Live(b) => \A f, g \in Fields :
        node[a].refs[f] # Null /\ node[a].refs[f] = node[b].refs[g] =>
            node[node[a].refs[f]].type = Unset \/ (a = b /\ f = g)

StoreInv ==
    /\ StoreOK
    /\ StackLive /\ RefsLive /\ Interned /\ Found /\ OneText /\ TopUnit /\ NothingYet
    /\ StackOnce /\ OffStack /\ HeldOnce

Nodes ==
    [type : Types \cup {Unset, Free}, text : Texts \cup {NoText},
     refs : [Fields -> Addr \cup {Null}]]

-----------------------------------------------------------------------------
\* What the invariant says.
LEMMA StoreInvImplies ==
    StoreInv => NoDangling /\ OneOwner /\ OneStringOneObject
<1> SUFFICES ASSUME StoreInv PROVE NoDangling /\ OneOwner /\ OneStringOneObject
    OBVIOUS
<1>0. StoreOK /\ StackLive /\ RefsLive /\ Interned /\ Found /\ OneText /\ TopUnit
      /\ StackOnce /\ OffStack /\ HeldOnce
    BY DEF StoreInv
<1>1. NoDangling
  <2>1. \A s \in Texts : strings[s] # Null => node[strings[s]].type # Free
    BY <1>0, StoreAssumption DEF Interned
  <2> QED BY <1>0, <2>1 DEF NoDangling, StackLive, RefsLive, TopUnit, Live
<1>2. OneOwner
  <2>1. ASSUME NEW a \in Addr, Live(a), NEW f \in Fields, node[a].refs[f] # Null,
               node[node[a].refs[f]].type # Unset
        PROVE  /\ \A i \in 1 .. Len(yyvs) : yyvs[i] # node[a].refs[f]
               /\ \A b \in Addr : node[b].type # Free =>
                    \A g \in Fields : node[b].refs[g] = node[a].refs[f] => a = b /\ f = g
    BY <1>0, <2>1 DEF OffStack, HeldOnce, Live
  <2> QED BY <1>0, <2>1 DEF OneOwner, StackOnce, Live
<1>3. OneStringOneObject
    BY <1>0 DEF OneStringOneObject, Interned, Found, OneText
<1> QED BY <1>1, <1>2, <1>3

\* What Push leaves on the stack.
LEMMA Pushed ==
    ASSUME NEW S, NEW stack \in Seq(S), NEW n \in Nat, n <= Len(stack), NEW v \in S,
           NEW after, after = Append(SubSeq(stack, 1, Len(stack) - n), v)
    PROVE  /\ after \in Seq(S)
           /\ Len(after) = Len(stack) - n + 1
           /\ \A j \in 1 .. Len(stack) - n : j \in 1 .. Len(stack) /\ after[j] = stack[j]
           /\ after[Len(stack) - n + 1] = v
<1> DEFINE rest == SubSeq(stack, 1, Len(stack) - n)
<1>1. /\ rest \in Seq(S) /\ Len(rest) = Len(stack) - n
      /\ \A j \in 1 .. Len(stack) - n : rest[j] = stack[j]
    OBVIOUS
<1>2. \A j \in 1 .. Len(stack) - n : j \in 1 .. Len(stack)
    OBVIOUS
<1> HIDE DEF rest
<1>3. after = Append(rest, v)
    BY DEF rest
<1>4. /\ after \in Seq(S) /\ Len(after) = Len(rest) + 1
      /\ \A j \in 1 .. Len(rest) : after[j] = rest[j]
      /\ after[Len(rest) + 1] = v
    BY <1>1, <1>3
<1> QED BY <1>1, <1>2, <1>4

-----------------------------------------------------------------------------
(***************************************************************************)
(* The step that NN and UN have in common.  A node is made at `a', in the  *)
(* place of `old' or (old = Null) of nothing, and replaces n arguments on  *)
(* the stack; what its fields hold was an argument, a string, or held by   *)
(* the old node.                                                           *)
(***************************************************************************)
LEMMA Made ==
    ASSUME StoreInv, ps = "ready", ps' = ps, strings' = strings,
           NEW a \in Addr, NEW old \in Addr \cup {Null}, NEW T \in Types,
           NEW n \in Nat, n <= Len(yyvs),
           NEW refs \in [Fields -> Addr \cup {Null}],
           node[a].type = Free \/ a = old,
           old # Null => node[old].type \in Types /\ \E i \in 1 .. n : old = Arg(n, i),
           node' \in [Addr -> Nodes], node'[a].type = T, node'[a].refs = refs,
           \A b \in Addr : b # a /\ b # old => node'[b] = node[b],
           \A b \in Addr : b # a /\ b = old => node'[b].type = Free,
           Push(n, a),
           \A f \in Fields : refs[f] # Null =>
              \/ \E i \in 1 .. n : refs[f] = Arg(n, i)
              \/ \E s \in Texts : refs[f] = strings[s]
              \/ old # Null /\ \E g \in Fields : refs[f] = node[old].refs[g],
           \A f \in Fields : refs[f] # Null => refs[f] # old,
           \A f, g \in Fields :
              refs[f] # Null /\ refs[f] = refs[g] =>
                  node[refs[f]].type = Unset \/ f = g,
           top' \in Addr \cup {Null}, TopUnit'
    PROVE  StoreInv'
<1> DEFINE keep == Len(yyvs) - n
<1>0. /\ StoreOK /\ StackLive /\ RefsLive /\ Interned /\ Found /\ OneText
      /\ StackOnce /\ OffStack /\ HeldOnce
    BY DEF StoreInv
<1>1. /\ keep \in Nat /\ yyvs \in Seq(Addr \cup {Null})
      /\ \A i \in 1 .. n : keep + i \in 1 .. Len(yyvs) /\ keep + i \notin 1 .. keep
                           /\ Arg(n, i) = yyvs[keep + i]
    BY <1>0 DEF StoreOK, Arg
<1>2. /\ yyvs' \in Seq(Addr \cup {Null})
      /\ Len(yyvs') = keep + 1
      /\ \A j \in 1 .. keep : j \in 1 .. Len(yyvs) /\ yyvs'[j] = yyvs[j]
      /\ yyvs'[keep + 1] = a
    BY <1>1, Pushed DEF Push
<1> HIDE DEF keep
<1>3. \A j \in 1 .. Len(yyvs') : j \in 1 .. keep \/ j = keep + 1
    BY <1>1, <1>2
<1>types. /\ Null \notin Addr /\ Unset \notin Types /\ Free \notin Types /\ Unset # Free
          /\ \A b \in Addr : node[b] \in Nodes
    BY <1>0, StoreAssumption DEF StoreOK, Nodes
<1>4. \A i \in 1 .. n : Arg(n, i) # Null =>
          /\ node[Arg(n, i)].type \in Types
          /\ \A j \in 1 .. keep : yyvs[j] # Arg(n, i)
    BY <1>0, <1>1, <1>2 DEF StackLive, StackOnce
<1>5. \A j \in 1 .. keep : yyvs[j] # Null => yyvs[j] # a /\ yyvs[j] # old
    BY <1>0, <1>2, <1>4, <1>types DEF StackLive
<1>6. \A s \in Texts : strings[s] # Null =>
          strings[s] \in Addr /\ strings[s] # a /\ strings[s] # old
          /\ node[strings[s]].type = Unset
    BY <1>0, <1>types DEF Interned, StoreOK
\* Nobody else points to the old node, or to memory that was free.
<1>7. ASSUME NEW b \in Addr, Live(b), b # a, b # old, NEW g \in Fields, node[b].refs[g] # Null
      PROVE  /\ node[b].refs[g] # a /\ node[b].refs[g] # old
             /\ Live(node[b].refs[g])
  <2>1. Live(node[b].refs[g])
      BY <1>0, <1>7 DEF RefsLive
  <2>2. node[b].refs[g] # old
    <3> SUFFICES ASSUME node[b].refs[g] = old PROVE FALSE
        OBVIOUS
    <3>1. PICK i \in 1 .. n : old = yyvs[keep + i] /\ keep + i \in 1 .. Len(yyvs)
        BY <1>1, <1>7
    <3> QED BY <3>1, <1>0, <1>7, <1>types DEF OffStack
  <2> QED BY <2>1, <2>2, <1>types DEF Live
\* What the new node holds stays where it is.
<1>8. ASSUME NEW f \in Fields, refs[f] # Null
      PROVE  /\ refs[f] \in Addr /\ Live(refs[f]) /\ refs[f] # a /\ refs[f] # old
             /\ \/ node[refs[f]].type = Unset
                \/ /\ \A j \in 1 .. keep : yyvs[j] # refs[f]
                   /\ \A b \in Addr : Live(b) /\ b # a /\ b # old =>
                         \A g \in Fields : node[b].refs[g] # refs[f]
  <2>0. refs[f] \in Addr /\ refs[f] # old
      BY <1>8
  <2>1. CASE \E i \in 1 .. n : refs[f] = Arg(n, i)
    <3>1. PICK i \in 1 .. n : refs[f] = Arg(n, i)
        BY <2>1
    <3>2. node[refs[f]].type \in Types /\ \A j \in 1 .. keep : yyvs[j] # refs[f]
        BY <3>1, <1>4, <1>8
    <3>3. ASSUME NEW b \in Addr, Live(b), NEW g \in Fields PROVE node[b].refs[g] # refs[f]
        BY <3>1, <3>2, <3>3, <1>0, <1>1, <1>8, <1>types DEF OffStack
    <3> QED BY <2>0, <3>2, <3>3, <1>types DEF Live
  <2>2. CASE \E s \in Texts : refs[f] = strings[s]
      BY <2>0, <2>2, <1>6, <1>8, <1>types DEF Live
  <2>3. CASE old # Null /\ \E g \in Fields : refs[f] = node[old].refs[g]
    <3>1. PICK g \in Fields : refs[f] = node[old].refs[g]
        BY <2>3
    <3>2. old \in Addr /\ Live(old)
        BY <2>3, <1>types DEF Live
    <3>3. Live(refs[f])
        BY <3>1, <3>2, <1>0, <1>8 DEF RefsLive
    <3>4. node[refs[f]].type = Unset \/ \A j \in 1 .. keep : yyvs[j] # refs[f]
        BY <3>1, <3>2, <1>0, <1>2, <1>8 DEF OffStack
    <3>5. node[refs[f]].type = Unset \/
              \A b \in Addr : Live(b) /\ b # old =>
                  \A h \in Fields : node[b].refs[h] # refs[f]
        BY <3>1, <3>2, <1>0, <1>8 DEF HeldOnce
    <3> QED BY <2>0, <3>3, <3>4, <3>5, <1>types DEF Live
  <2> QED BY <2>1, <2>2, <2>3, <1>8
<1>9. \A b \in Addr : Live(b)' => b = a \/ (b # a /\ b # old /\ Live(b) /\ node'[b] = node[b])
    BY DEF Live
<1>10. ASSUME NEW b \in Addr, Live(b)', NEW f \in Fields, node'[b].refs[f] # Null
       PROVE  /\ node'[b].refs[f] \in Addr /\ Live(node'[b].refs[f])
              /\ node'[node'[b].refs[f]] = node[node'[b].refs[f]]
  <2>1. CASE b = a
      BY <2>1, <1>8, <1>10
  <2>2. CASE b # a /\ b # old /\ Live(b) /\ node'[b] = node[b]
      BY <2>2, <1>7, <1>10, <1>types DEF Nodes
  <2> QED BY <2>1, <2>2, <1>9, <1>10
<1>11. StoreOK'
  <2>1. strings' \in [Texts -> Addr \cup {Null}] /\ ps' \in {"none", "ready", "cleared"}
      BY <1>0 DEF StoreOK
  <2> QED BY <1>2, <2>1 DEF StoreOK, Nodes
<1>12. StackLive'
  <2>1. \A j \in 1 .. keep : yyvs'[j] # Null => node'[yyvs'[j]].type \in Types
      BY <1>0, <1>1, <1>2, <1>5 DEF StackLive
  <2> QED BY <2>1, <1>2, <1>3 DEF StackLive
<1>13. RefsLive'
    BY <1>10 DEF RefsLive, Live
<1>14. Interned'
    BY <1>0, <1>6 DEF Interned
<1>15. \A b \in Addr : node'[b].type = Unset => node'[b] = node[b]
    BY <1>types
<1>16. Found' /\ OneText'
    BY <1>0, <1>15 DEF Found, OneText
<1>17. NothingYet'
    BY DEF NothingYet
<1>18. StackOnce'
  <2> SUFFICES ASSUME NEW i \in 1 .. Len(yyvs'), NEW j \in 1 .. Len(yyvs'),
                      yyvs'[i] = yyvs'[j], yyvs'[i] # Null
               PROVE  i = j
      BY DEF StackOnce
  <2>1. (i \in 1 .. keep \/ i = keep + 1) /\ (j \in 1 .. keep \/ j = keep + 1)
      BY <1>3
  <2>2. CASE i \in 1 .. keep /\ j \in 1 .. keep
      BY <2>2, <1>0, <1>2 DEF StackOnce
  <2> QED BY <2>1, <2>2, <1>2, <1>5
<1>19. OffStack'
  <2> SUFFICES ASSUME NEW b \in Addr, Live(b)', NEW f \in Fields, NEW j \in 1 .. Len(yyvs'),
                      node'[b].refs[f] # Null, yyvs'[j] = node'[b].refs[f]
               PROVE  node'[yyvs'[j]].type = Unset
      BY DEF OffStack
  <2>1. CASE j = keep + 1
    <3>1. node'[b].refs[f] = a
        BY <2>1, <1>2
    <3> QED BY <3>1, <1>7, <1>8, <1>9, <1>types
  <2>2. CASE j \in 1 .. keep
    <3>1. yyvs'[j] = yyvs[j] /\ j \in 1 .. Len(yyvs)
        BY <2>2, <1>2
    <3>2. node'[yyvs'[j]] = node[yyvs[j]]
        BY ZenonT(60), <3>1, <1>10
    <3>3. CASE b = a
      <4>1. node'[b].refs[f] = refs[f] /\ refs[f] # Null /\ yyvs[j] = refs[f]
          BY <3>1, <3>3
      <4> QED BY <4>1, <3>2, <2>2, <1>8
    <3>4. CASE b # a /\ b # old /\ Live(b) /\ node'[b] = node[b]
      <4>1. node[b].refs[f] # Null /\ yyvs[j] = node[b].refs[f]
          BY <3>1, <3>4
      <4>2. node[yyvs[j]].type = Unset
          BY <4>1, <3>1, <3>4, <1>0 DEF OffStack
      <4> QED BY <4>2, <3>2
    <3> QED BY <3>3, <3>4, <1>9
  <2> QED BY <2>1, <2>2, <1>3
<1>20. HeldOnce'
  <2> SUFFICES ASSUME NEW b \in Addr, NEW c \in Addr, Live(b)', Live(c)',
                      NEW f \in Fields, NEW g \in Fields,
                      node'[b].refs[f] # Null, node'[b].refs[f] = node'[c].refs[g],
                      node'[node'[b].refs[f]].type # Unset
               PROVE  b = c /\ f = g
      BY DEF HeldOnce
  <2>1. node[node'[b].refs[f]].type # Unset
      BY <1>10
  <2>2. CASE b = a /\ c = a
      BY <2>1, <2>2
  <2>3. CASE b = a /\ c # a
      BY <2>1, <2>3, <1>8, <1>9
  <2>4. CASE b # a /\ c = a
      BY <2>1, <2>4, <1>8, <1>9
  <2>5. CASE b # a /\ c # a
      BY <2>1, <2>5, <1>0, <1>9 DEF HeldOnce
  <2> QED BY <2>2, <2>3, <2>4, <2>5
<1> QED BY <1>11, <1>12, <1>13, <1>14, <1>16, <1>17, <1>18, <1>19, <1>20 DEF StoreInv

-----------------------------------------------------------------------------
\* A node that NN makes takes the place of none.
LEMMA NNKeepsInv ==
    ASSUME StoreInv, NEW a \in Addr, NEW T \in Types, NEW text \in Texts \cup {NoText},
           NEW n \in Nat, NEW refs \in [Fields -> Addr \cup {Null}],
           Given(n, refs), NN(a, T, text, n, refs)
    PROVE  StoreInv'
<1>0. /\ ps = "ready" /\ n <= Len(yyvs) /\ node[a].type = Free /\ Push(n, a)
      /\ strings' = strings /\ ps' = ps
      /\ node' = [node EXCEPT ![a] = [type |-> T, text |-> text, refs |-> refs]]
      /\ top' = IF T = "translation_unit" THEN a ELSE top
    BY DEF NN, Allocated
<1>1. node \in [Addr -> Nodes] /\ top \in Addr \cup {Null}
    BY DEF StoreInv, StoreOK, Nodes
<1>2. [type |-> T, text |-> text, refs |-> refs] \in Nodes
    BY DEF Nodes
<1>3. node' \in [Addr -> Nodes] /\ node'[a].type = T /\ node'[a].refs = refs
    BY <1>0, <1>1, <1>2
<1>4. \A b \in Addr : b # a => node'[b] = node[b]
    BY <1>0, <1>1
<1>5. \A b \in Addr : b # a /\ b = Null => node'[b].type = Free
    BY StoreAssumption
<1>6. top' \in Addr \cup {Null}
    BY <1>0, <1>1
<1>7. TopUnit'
  <2>1. top # Null => top # a
    <3>1. TopUnit
        BY DEF StoreInv
    <3>2. "translation_unit" # Free
        BY StoreAssumption, TopAssumption
    <3> QED BY <3>1, <3>2, <1>0 DEF TopUnit
  <2>2. CASE T = "translation_unit"
      BY <2>2, <1>0, <1>3 DEF TopUnit
  <2>3. CASE T # "translation_unit"
    <3>1. top' = top
        BY <2>3, <1>0
    <3>2. TopUnit
        BY DEF StoreInv
    <3> QED BY <3>1, <3>2, <2>1, <1>1, <1>4 DEF TopUnit
  <2> QED BY <2>2, <2>3
<1>8. \A f \in Fields : refs[f] # Null =>
          \/ \E i \in 1 .. n : refs[f] = Arg(n, i)
          \/ \E s \in Texts : refs[f] = strings[s]
    BY DEF Given
<1>9. \A f, g \in Fields : refs[f] # Null /\ refs[f] = refs[g] =>
          node[refs[f]].type = Unset \/ f = g
    BY DEF Given
<1>10. Null \in Addr \cup {Null}
    OBVIOUS
<1> QED BY <1>0, <1>3, <1>4, <1>5, <1>6, <1>7, <1>8, <1>9, <1>10, Made

\* A node that UN makes takes the place of its argument, and keeps what that held.
LEMMA UNKeepsInv ==
    ASSUME StoreInv, NEW a \in Addr, NEW T \in Types, NEW n \in Nat, NEW i \in 1 .. n,
           NEW refs \in [Fields -> Addr \cup {Null}],
           Given(n, refs), Upgradable(T, n, i, refs), UN(a, T, n, i, refs)
    PROVE  StoreInv'
<1> DEFINE old == Arg(n, i)
           merged == [f \in Fields |-> IF Place[f][1] \in Layers[node[old].type]
                                       THEN node[old].refs[f] ELSE refs[f]]
           made == [type |-> T, text |-> node[old].text, refs |-> merged]
<1>0. /\ ps = "ready" /\ n <= Len(yyvs) /\ old # Null /\ Push(n, a)
      /\ a = old \/ node[a].type = Free
      /\ strings' = strings /\ ps' = ps /\ top' = top
      /\ node' = [node EXCEPT ![old] = FreeNode, ![a] = made]
    BY Zenon DEF UN, Copied
<1>inv. /\ StoreOK /\ StackLive /\ RefsLive /\ OffStack /\ HeldOnce /\ TopUnit /\ StackOnce
    BY DEF StoreInv
<1>arg. \A k \in 1 .. n : Arg(n, k) \in Addr \cup {Null} /\
          \E j \in 1 .. Len(yyvs) : Arg(n, k) = yyvs[j]
  <2> SUFFICES ASSUME NEW k \in 1 .. n
               PROVE  Arg(n, k) \in Addr \cup {Null} /\
                         \E j \in 1 .. Len(yyvs) : Arg(n, k) = yyvs[j]
      OBVIOUS
  <2>1. Len(yyvs) - n + k \in 1 .. Len(yyvs) /\ yyvs \in Seq(Addr \cup {Null})
      BY <1>0, <1>inv DEF StoreOK
  <2> QED BY <2>1 DEF Arg
<1>1. /\ old \in Addr
      /\ node[old].type \in Layers[T] \ {T}
      /\ \A f \in Fields : refs[f] # Null => refs[f] # old
    BY <1>0, <1>arg DEF Upgradable
<1>2. node[old].type \in Types
    BY <1>1, TopAssumption
<1>3. \E j \in 1 .. n : old = Arg(n, j)
    OBVIOUS
<1>4. \E j \in 1 .. Len(yyvs) : old = yyvs[j]
    BY <1>arg
<1> HIDE DEF old
<1>5. node \in [Addr -> Nodes] /\ top \in Addr \cup {Null}
    BY <1>inv DEF StoreOK, Nodes
<1>6. \A f \in Fields : node[old].refs[f] \in Addr \cup {Null}
    BY <1>1, <1>5 DEF Nodes
<1>7. /\ merged \in [Fields -> Addr \cup {Null}]
      /\ \A f \in Fields : merged[f] = node[old].refs[f] \/ merged[f] = refs[f]
    BY <1>6
<1> HIDE DEF merged
<1>8. made \in Nodes /\ made.type = T /\ made.refs = merged /\ FreeNode \in Nodes
      /\ FreeNode.type = Free
  <2>1. node[old].text \in Texts \cup {NoText}
      BY <1>1, <1>5 DEF Nodes
  <2> QED BY <2>1, <1>7 DEF Nodes, FreeNode, NoRefs
<1> HIDE DEF made
<1>9. /\ node' \in [Addr -> Nodes] /\ node'[a] = made
      /\ \A b \in Addr : b # a /\ b # old => node'[b] = node[b]
      /\ \A b \in Addr : b # a /\ b = old => node'[b].type = Free
    BY <1>0, <1>1, <1>5, <1>8
\* The old node does not hold itself, being on the stack.
<1>10. \A f \in Fields : node[old].refs[f] # Null => node[old].refs[f] # old
  <2>1. Live(old) /\ node[old].type # Unset
      BY <1>2, StoreAssumption DEF Live
  <2> QED BY <2>1, <1>1, <1>4, <1>inv DEF OffStack
<1>11. \A f \in Fields : merged[f] # Null => merged[f] # old
    BY <1>1, <1>7, <1>10
<1>12. ASSUME NEW f \in Fields, refs[f] # Null
       PROVE  \/ \E j \in 1 .. n : refs[f] = Arg(n, j)
              \/ \E s \in Texts : refs[f] = strings[s]
    BY <1>12 DEF Given
<1>13. ASSUME NEW f \in Fields, merged[f] # Null
       PROVE  \/ \E j \in 1 .. n : merged[f] = Arg(n, j)
              \/ \E s \in Texts : merged[f] = strings[s]
              \/ old # Null /\ \E g \in Fields : merged[f] = node[old].refs[g]
    BY <1>0, <1>7, <1>12, <1>13
\* What the old node holds is not given again: it is not on the stack.
<1>14. ASSUME NEW f \in Fields, NEW g \in Fields, refs[f] # Null,
              refs[f] = node[old].refs[g]
       PROVE  node[refs[f]].type = Unset
  <2>1. CASE \E j \in 1 .. n : refs[f] = Arg(n, j)
    <3>1. \E k \in 1 .. Len(yyvs) : refs[f] = yyvs[k]
        BY <2>1, <1>arg
    <3>2. Live(old)
        BY <1>2, StoreAssumption DEF Live
    <3> QED BY <3>1, <3>2, <1>1, <1>14, <1>inv DEF OffStack
  <2>2. CASE \E s \in Texts : refs[f] = strings[s]
      BY <2>2, <1>14 DEF StoreInv, Interned
  <2> QED BY <2>1, <2>2, <1>12, <1>14
<1>15. ASSUME NEW f \in Fields, NEW g \in Fields, merged[f] # Null, merged[f] = merged[g]
       PROVE  node[merged[f]].type = Unset \/ f = g
  <2>1. CASE merged[f] = refs[f] /\ merged[g] = refs[g]
    <3>1. refs[f] # Null /\ refs[f] = refs[g]
        BY <2>1, <1>15
    <3>2. f = g
        BY <3>1 DEF Given
    <3> QED BY <3>2
  <2>2. CASE merged[f] = node[old].refs[f] /\ merged[g] = node[old].refs[g]
    <3>1. Live(old)
        BY <1>2, StoreAssumption DEF Live
    <3>2. node[old].refs[f] # Null /\ node[old].refs[f] = node[old].refs[g]
        BY <2>2, <1>15
    <3>3. node[node[old].refs[f]].type = Unset \/ f = g
        BY <3>1, <3>2, <1>1, <1>inv DEF HeldOnce
    <3> QED BY <3>3, <2>2
  <2>3. CASE merged[f] = refs[f] /\ merged[g] = node[old].refs[g]
      BY <2>3, <1>14, <1>15
  <2>4. CASE merged[f] = node[old].refs[f] /\ merged[g] = refs[g]
      BY <2>4, <1>14, <1>15
  <2> QED BY <2>1, <2>2, <2>3, <2>4, <1>7
\* The result of the parse is not what is upgraded.
<1>16. TopUnit'
  <2> SUFFICES ASSUME top # Null PROVE node'[top].type = "translation_unit"
      BY <1>0 DEF TopUnit
  <2>1. top \in Addr /\ node[top].type = "translation_unit"
      BY <1>5, <1>inv DEF TopUnit
  <2>2. node[old].type # "translation_unit"
      BY <1>1, TopAssumption
  <2>3. Free # "translation_unit"
      BY StoreAssumption, TopAssumption
  <2> QED BY <2>1, <2>2, <2>3, <1>0, <1>9
<1>17. old # Null => node[old].type \in Types /\ \E j \in 1 .. n : old = Arg(n, j)
    BY <1>2, <1>3
<1>18. node'[a].type = T /\ node'[a].refs = merged
    BY <1>8, <1>9
<1>19. top' \in Addr \cup {Null} /\ old \in Addr \cup {Null}
    BY <1>0, <1>1, <1>5
<1> QED
    BY <1>0, <1>1, <1>7, <1>9, <1>11, <1>13, <1>15, <1>16, <1>17, <1>18, <1>19, Made

\* A new string is not found by any other text, nor held by anybody.
LEMMA InternKeepsInv ==
    ASSUME StoreInv, NEW a \in Addr, NEW s \in Texts, intern_string(a, s)
    PROVE  StoreInv'
<1> DEFINE made == [type |-> Unset, text |-> s, refs |-> NoRefs]
<1>0. /\ ps = "ready" /\ strings[s] = Null /\ node[a].type = Free
      /\ node' = [node EXCEPT ![a] = made]
      /\ strings' = [strings EXCEPT ![s] = a]
      /\ yyvs' = yyvs /\ top' = top /\ ps' = ps
    BY DEF intern_string
<1>1. /\ StoreOK /\ StackLive /\ RefsLive /\ Interned /\ Found /\ OneText /\ TopUnit
      /\ StackOnce /\ OffStack /\ HeldOnce
    BY DEF StoreInv
<1>2. /\ made \in Nodes /\ made.type = Unset /\ made.text = s
      /\ \A f \in Fields : made.refs[f] = Null
    BY DEF Nodes, NoRefs
<1>3. /\ node \in [Addr -> Nodes] /\ strings \in [Texts -> Addr \cup {Null}]
      /\ top \in Addr \cup {Null} /\ yyvs \in Seq(Addr \cup {Null})
    BY <1>1 DEF StoreOK, Nodes
<1> HIDE DEF made
<1>4. /\ node' \in [Addr -> Nodes] /\ node'[a] = made
      /\ \A b \in Addr : b # a => node'[b] = node[b]
    BY <1>0, <1>2, <1>3
<1>5. /\ strings' \in [Texts -> Addr \cup {Null}] /\ strings'[s] = a
      /\ \A r \in Texts : r # s => strings'[r] = strings[r]
    BY <1>0, <1>3
<1>types. /\ Null \notin Addr /\ Unset \notin Types /\ Free \notin Types /\ Unset # Free
          /\ "translation_unit" \in Types
    BY StoreAssumption, TopAssumption
<1>6. \A i \in 1 .. Len(yyvs) : yyvs[i] # Null =>
          yyvs[i] \in Addr /\ node'[yyvs[i]] = node[yyvs[i]]
  <2>1. \A i \in 1 .. Len(yyvs) : yyvs[i] \in Addr \cup {Null}
      BY <1>3
  <2> QED BY <2>1, <1>0, <1>1, <1>4, <1>types DEF StackLive
<1>7. ASSUME NEW b \in Addr, Live(b)', NEW f \in Fields, node'[b].refs[f] # Null
      PROVE  /\ Live(b) /\ node'[b] = node[b]
             /\ Live(node[b].refs[f])
             /\ node'[node[b].refs[f]] = node[node[b].refs[f]]
  <2>1. b # a
      BY <1>2, <1>4, <1>7
  <2>2. Live(b) /\ node'[b] = node[b] /\ node[b].refs[f] \in Addr
      BY <2>1, <1>3, <1>4, <1>7 DEF Live, Nodes
  <2>3. Live(node[b].refs[f])
      BY <2>2, <1>1, <1>7 DEF RefsLive
  <2> QED BY <2>2, <2>3, <1>0, <1>4 DEF Live
<1>8. StoreOK'
    BY <1>0, <1>1, <1>4, <1>5 DEF StoreOK, Nodes
<1>9. StackLive'
    BY <1>0, <1>1, <1>6 DEF StackLive
<1>10. RefsLive'
    BY <1>7 DEF RefsLive, Live
<1>11. Interned'
  <2>1. \A r \in Texts : strings[r] # Null => strings[r] \in Addr /\ strings[r] # a
      BY <1>0, <1>1, <1>3, <1>types DEF Interned
  <2> QED BY <2>1, <1>1, <1>2, <1>4, <1>5 DEF Interned
\* Had another node this text, the table would have had it.
<1>12. \A b \in Addr : node[b].type = Unset => node[b].text # s
    BY <1>0, <1>1, <1>types DEF Found
<1>13. Found'
  <2>1. \A b \in Addr : b # a /\ node[b].type = Unset => strings'[node[b].text] = b
      BY <1>0, <1>1, <1>5, <1>12 DEF Found
  <2> QED BY <2>1, <1>1, <1>2, <1>4, <1>5 DEF Found
<1>14. OneText'
    BY <1>1, <1>2, <1>4, <1>12 DEF OneText
<1>15. TopUnit'
    BY <1>0, <1>1, <1>3, <1>4, <1>types DEF TopUnit
<1>16. NothingYet'
    BY <1>0 DEF NothingYet
<1>17. StackOnce'
    BY <1>0, <1>1 DEF StackOnce
<1>18. OffStack'
  <2> SUFFICES ASSUME NEW b \in Addr, Live(b)', NEW f \in Fields, NEW i \in 1 .. Len(yyvs),
                      node'[b].refs[f] # Null, yyvs[i] = node'[b].refs[f]
               PROVE  node'[yyvs[i]].type = Unset
      BY <1>0 DEF OffStack
  <2>1. Live(b) /\ node'[b] = node[b] /\ node'[yyvs[i]] = node[yyvs[i]]
      BY <1>7
  <2>2. node[b].refs[f] # Null /\ yyvs[i] = node[b].refs[f]
      BY <2>1
  <2>3. node[yyvs[i]].type = Unset
      BY <2>1, <2>2, <1>1 DEF OffStack
  <2> QED BY <2>1, <2>3
<1>19. HeldOnce'
  <2> SUFFICES ASSUME NEW b \in Addr, NEW c \in Addr, Live(b)', Live(c)',
                      NEW f \in Fields, NEW g \in Fields,
                      node'[b].refs[f] # Null, node'[b].refs[f] = node'[c].refs[g]
               PROVE  node'[node'[b].refs[f]].type = Unset \/ (b = c /\ f = g)
      BY DEF HeldOnce
  <2>1. Live(b) /\ Live(c) /\ node'[b] = node[b] /\ node'[c] = node[c]
        /\ node'[node[b].refs[f]] = node[node[b].refs[f]]
      BY <1>7
  <2>2. node[b].refs[f] # Null /\ node[b].refs[f] = node[c].refs[g]
      BY <2>1
  <2> QED BY <2>1, <2>2, <1>1 DEF HeldOnce
<1> QED BY <1>8, <1>9, <1>10, <1>11, <1>13, <1>14, <1>15, <1>16, <1>17, <1>18, <1>19
        DEF StoreInv

\* The actions that make no node.
LEMMA OthersKeepInv ==
    ASSUME StoreInv,
           parser_setup \/ parser_teardown \/ Abandon \/ UNCHANGED storeVars
           \/ \E n \in Nat : Value(n)
    PROVE  StoreInv'
<1>1. /\ StoreOK /\ StackLive /\ RefsLive /\ Interned /\ Found /\ OneText /\ TopUnit
      /\ NothingYet /\ StackOnce /\ OffStack /\ HeldOnce
    BY DEF StoreInv
<1>2. NoStrings \in [Texts -> Addr \cup {Null}] /\ \A s \in Texts : NoStrings[s] = Null
    BY DEF NoStrings
<1>3. << >> \in Seq(Addr \cup {Null}) /\ Len(<< >>) = 0 /\ 1 .. 0 = {}
    OBVIOUS
<1>4. CASE parser_setup
  <2>1. /\ ps = "none" /\ ps' = "ready" /\ strings' = NoStrings /\ yyvs' = << >>
        /\ node' = node /\ top' = top
      BY <1>4 DEF parser_setup
  <2>2. \A a \in Addr : node[a].type # Unset
      BY <1>1, <2>1, StoreAssumption DEF NothingYet, Live
  <2>3. StoreOK' /\ StackLive' /\ StackOnce' /\ OffStack'
      BY <1>1, <1>2, <1>3, <2>1 DEF StoreOK, StackLive, StackOnce, OffStack
  <2>4. RefsLive' /\ OneText' /\ TopUnit' /\ HeldOnce'
      BY <1>1, <2>1 DEF RefsLive, OneText, TopUnit, HeldOnce, Live
  <2>5. Interned' /\ Found' /\ NothingYet'
      BY <1>2, <2>1, <2>2 DEF Interned, Found, NothingYet
  <2> QED BY <2>3, <2>4, <2>5 DEF StoreInv
<1>5. CASE parser_teardown
  <2>1. /\ ps' = "cleared" /\ strings' = NoStrings
        /\ node' = node /\ top' = top /\ yyvs' = yyvs
      BY <1>5 DEF parser_teardown
  <2>2. StoreOK' /\ Interned' /\ Found' /\ NothingYet'
      BY <1>1, <1>2, <2>1 DEF StoreOK, Interned, Found, NothingYet
  <2>3. StackLive' /\ RefsLive' /\ OneText' /\ TopUnit' /\ StackOnce' /\ OffStack' /\ HeldOnce'
      BY <1>1, <2>1 DEF StackLive, RefsLive, OneText, TopUnit, StackOnce, OffStack, HeldOnce, Live
  <2> QED BY <2>2, <2>3 DEF StoreInv
<1>6. CASE Abandon
  <2>1. /\ yyvs' = << >> /\ node' = node /\ top' = top /\ strings' = strings /\ ps' = ps
      BY <1>6 DEF Abandon
  <2>2. StoreOK' /\ StackLive' /\ StackOnce' /\ OffStack'
      BY <1>1, <1>3, <2>1 DEF StoreOK, StackLive, StackOnce, OffStack
  <2>3. RefsLive' /\ Interned' /\ Found' /\ OneText' /\ TopUnit' /\ NothingYet' /\ HeldOnce'
      BY <1>1, <2>1 DEF RefsLive, Interned, Found, OneText, TopUnit, NothingYet, HeldOnce, Live
  <2> QED BY <2>2, <2>3 DEF StoreInv
<1>7. CASE UNCHANGED storeVars
  <2>1. /\ yyvs' = yyvs /\ node' = node /\ top' = top /\ strings' = strings /\ ps' = ps
      BY <1>7 DEF storeVars
  <2>2. StoreOK' /\ StackLive' /\ RefsLive' /\ StackOnce' /\ OffStack' /\ HeldOnce'
      BY <1>1, <2>1 DEF StoreOK, StackLive, RefsLive, StackOnce, OffStack, HeldOnce, Live
  <2>3. Interned' /\ Found' /\ OneText' /\ TopUnit' /\ NothingYet'
      BY <1>1, <2>1 DEF Interned, Found, OneText, TopUnit, NothingYet, Live
  <2> QED BY <2>2, <2>3 DEF StoreInv
<1>8. ASSUME NEW n \in Nat, Value(n) PROVE StoreInv'
  <2> DEFINE keep == Len(yyvs) - n
  <2>1. /\ ps = "ready" /\ n <= Len(yyvs) /\ Push(n, Null)
        /\ node' = node /\ top' = top /\ strings' = strings /\ ps' = ps
      BY <1>8 DEF Value
  <2>2. yyvs \in Seq(Addr \cup {Null}) /\ keep \in Nat
      BY <1>1, <2>1 DEF StoreOK
  <2>3. /\ yyvs' \in Seq(Addr \cup {Null})
        /\ Len(yyvs') = keep + 1
        /\ \A j \in 1 .. keep : j \in 1 .. Len(yyvs) /\ yyvs'[j] = yyvs[j]
        /\ yyvs'[keep + 1] = Null
      BY <2>1, <2>2, Pushed DEF Push
  <2> HIDE DEF keep
  <2>4. \A j \in 1 .. Len(yyvs') : yyvs'[j] # Null =>
            j \in 1 .. Len(yyvs) /\ yyvs'[j] = yyvs[j]
      BY <2>2, <2>3
  <2>5. StoreOK' /\ StackLive' /\ StackOnce' /\ OffStack'
    <3>1. StoreOK'
        BY <1>1, <2>1, <2>3 DEF StoreOK
    <3>2. StackLive' /\ StackOnce'
        BY <1>1, <2>1, <2>4 DEF StackLive, StackOnce
    <3>3. OffStack'
        BY <1>1, <2>1, <2>4 DEF OffStack, Live
    <3> QED BY <3>1, <3>2, <3>3
  <2>6. RefsLive' /\ Interned' /\ Found' /\ OneText' /\ TopUnit' /\ HeldOnce'
      BY <1>1, <2>1 DEF RefsLive, Interned, Found, OneText, TopUnit, HeldOnce, Live
  <2>7. NothingYet'
      BY <2>1 DEF NothingYet
  <2> QED BY <2>5, <2>6, <2>7 DEF StoreInv
<1> QED BY <1>4, <1>5, <1>6, <1>7, <1>8

-----------------------------------------------------------------------------
\* An empty heap satisfies the invariant.
LEMMA StoreInit == InitStore => StoreInv
<1> SUFFICES ASSUME InitStore PROVE StoreInv
    OBVIOUS
<1>1. /\ node = [a \in Addr |-> FreeNode] /\ yyvs = << >>
      /\ strings = NoStrings /\ top = Null /\ ps = "none"
    BY DEF InitStore
<1>2. FreeNode \in Nodes /\ FreeNode.type = Free
    BY DEF FreeNode, Nodes, NoRefs
<1>3. node \in [Addr -> Nodes] /\ \A a \in Addr : node[a].type = Free
    BY <1>1, <1>2
<1>4. NoStrings \in [Texts -> Addr \cup {Null}] /\ \A s \in Texts : NoStrings[s] = Null
    BY DEF NoStrings
<1>5. << >> \in Seq(Addr \cup {Null}) /\ Len(<< >>) = 0 /\ 1 .. 0 = {}
    OBVIOUS
<1>6. StoreOK
    BY <1>1, <1>3, <1>4, <1>5 DEF StoreOK, Nodes
<1>7. StackLive /\ StackOnce /\ OffStack
    BY <1>1, <1>5 DEF StackLive, StackOnce, OffStack
<1>8. RefsLive /\ Found /\ OneText /\ HeldOnce /\ NothingYet
    BY <1>1, <1>3, StoreAssumption DEF RefsLive, Found, OneText, HeldOnce, NothingYet, Live
<1>9. Interned /\ TopUnit
    BY <1>1, <1>4 DEF Interned, TopUnit
<1> QED BY <1>6, <1>7, <1>8, <1>9 DEF StoreInv

\* Every action keeps it: the two that make nodes, the interner, and the rest.
LEMMA StoreStep == StoreInv /\ [NextStore]_storeVars => StoreInv'
<1> SUFFICES ASSUME StoreInv, [NextStore]_storeVars PROVE StoreInv'
    OBVIOUS
<1>1. ASSUME NEW a \in Addr, NEW T \in Types, NEW text \in Texts \cup {NoText},
             NEW n \in Nat, NEW refs \in [Fields -> Addr \cup {Null}],
             Given(n, refs), NN(a, T, text, n, refs)
      PROVE  StoreInv'
    BY <1>1, NNKeepsInv
<1>2. ASSUME NEW a \in Addr, NEW T \in Types, NEW n \in Nat, NEW i \in 1 .. n,
             NEW refs \in [Fields -> Addr \cup {Null}],
             Given(n, refs), Upgradable(T, n, i, refs), UN(a, T, n, i, refs)
      PROVE  StoreInv'
    BY <1>2, UNKeepsInv
<1>3. ASSUME NEW a \in Addr, NEW s \in Texts, intern_string(a, s) PROVE StoreInv'
    BY <1>3, InternKeepsInv
<1>4. ASSUME parser_setup \/ parser_teardown \/ Abandon \/ UNCHANGED storeVars
             \/ \E n \in Nat : Value(n)
      PROVE  StoreInv'
    BY <1>4, OthersKeepInv
<1> QED BY <1>1, <1>2, <1>3, <1>4, Zenon DEF NextStore

\* The store's invariant holds of every parser that keeps to the discipline.
THEOREM StoreInvariant == SpecStore => []StoreInv
    BY StoreInit, StoreStep, PTL DEF SpecStore

\* For every such parser, wherever realloc moves the nodes: no pointer on the stack, in
\* a field or in the table of strings leads to memory that has been given back, no node
\* is held twice, and equal strings are one object.
THEOREM StoreSafe == SpecStore => [](NoDangling /\ OneOwner /\ OneStringOneObject)
    BY StoreInvariant, StoreInvImplies, PTL

-----------------------------------------------------------------------------
(***************************************************************************)
(* The tree has no cycle: nodes have ranks that fall along every field.  A *)
(* rank is the order in which nodes got their present contents, so it is   *)
(* of no use to compare addresses: a node that moves may come to lie       *)
(* anywhere.                                                               *)
(***************************************************************************)
Ranking(rank, n) ==
    /\ rank \in [Addr -> 0 .. n]
    /\ \A a \in Addr : Live(a) => \A f \in Fields :
          node[a].refs[f] # Null => rank[node[a].refs[f]] < rank[a]

Ranked == \E n \in Nat : \E rank : Ranking(rank, n)

\* A step that gives one node new contents keeps the ranks, if that node was held by no
\* field: it takes the highest.
LEMMA HigherRank ==
    ASSUME Ranked, NEW a \in Addr,
           \A b \in Addr : b # a /\ Live(b)' =>
              /\ node'[b] = node[b]
              /\ \A f \in Fields : node[b].refs[f] # Null => node[b].refs[f] \in Addr \ {a},
           \A f \in Fields : node'[a].refs[f] # Null => node'[a].refs[f] \in Addr \ {a}
    PROVE  Ranked'
<1>1. PICK n \in Nat : \E rank : Ranking(rank, n)
    BY DEF Ranked
<1>2. PICK rank : Ranking(rank, n)
    BY <1>1
<1>3. rank \in [Addr -> 0 .. n]
    BY <1>2 DEF Ranking
<1> DEFINE after == [rank EXCEPT ![a] = n + 1]
<1>4. /\ after \in [Addr -> 0 .. n + 1] /\ after[a] = n + 1
      /\ \A b \in Addr : b # a => after[b] = rank[b] /\ rank[b] \in 0 .. n
    BY <1>3
<1> HIDE DEF after
<1>5. ASSUME NEW b \in Addr, Live(b)', NEW f \in Fields, node'[b].refs[f] # Null
      PROVE  after[node'[b].refs[f]] < after[b]
  <2>1. CASE b = a
    <3>1. node'[a].refs[f] \in Addr \ {a}
        BY <2>1, <1>5
    <3>2. after[node'[a].refs[f]] \in 0 .. n
        BY <3>1, <1>4
    <3> QED BY <2>1, <3>2, <1>4
  <2>2. CASE b # a
    <3>1. node'[b] = node[b] /\ node[b].refs[f] \in Addr \ {a}
        BY <2>2, <1>5
    <3>2. Live(b)
        BY <3>1, <1>5 DEF Live
    <3>3. rank[node[b].refs[f]] < rank[b]
        BY <3>1, <3>2, <1>2, <1>5 DEF Ranking
    <3>4. after[node[b].refs[f]] = rank[node[b].refs[f]] /\ after[b] = rank[b]
        BY <2>2, <3>1, <1>4
    <3> QED BY <3>1, <3>3, <3>4
  <2> QED BY <2>1, <2>2
<1>6. Ranking(after, n + 1)'
    BY <1>4, <1>5 DEF Ranking
<1>7. n + 1 \in Nat
    OBVIOUS
<1> QED BY <1>6, <1>7 DEF Ranked

\* What is on the stack or in the table of strings is live.
LEMMA GivenLive ==
    ASSUME StoreInv, NEW n \in Nat, n <= Len(yyvs),
           NEW refs \in [Fields -> Addr \cup {Null}], Given(n, refs),
           NEW f \in Fields, refs[f] # Null
    PROVE  refs[f] \in Addr /\ Live(refs[f])
<1>1. StackLive /\ Interned /\ yyvs \in Seq(Addr \cup {Null})
    BY DEF StoreInv, StoreOK
<1>2. CASE \E i \in 1 .. n : refs[f] = Arg(n, i)
  <2>1. PICK i \in 1 .. n : refs[f] = yyvs[Len(yyvs) - n + i]
      BY <1>2 DEF Arg
  <2>2. Len(yyvs) - n + i \in 1 .. Len(yyvs)
      BY <1>1
  <2> QED BY <2>1, <2>2, <1>1, StoreAssumption DEF StackLive, Live
<1>3. CASE \E s \in Texts : refs[f] = strings[s]
    BY <1>1, <1>3, StoreAssumption DEF Interned, Live
<1> QED BY <1>2, <1>3 DEF Given

\* A new node is held by nobody, and holds what was there before.
LEMMA NNKeepsRanks ==
    ASSUME StoreInv, Ranked, NEW a \in Addr, NEW T \in Types,
           NEW text \in Texts \cup {NoText}, NEW n \in Nat,
           NEW refs \in [Fields -> Addr \cup {Null}],
           Given(n, refs), NN(a, T, text, n, refs)
    PROVE  Ranked'
<1>1. /\ n <= Len(yyvs) /\ ~Live(a)
      /\ node' = [node EXCEPT ![a] = [type |-> T, text |-> text, refs |-> refs]]
    BY DEF NN, Allocated, Live
<1>2. node \in [Addr -> Nodes] /\ RefsLive
    BY DEF StoreInv, StoreOK, Nodes
<1>3. /\ node'[a].refs = refs
      /\ \A b \in Addr : b # a => node'[b] = node[b]
    BY <1>1, <1>2
<1>4. \A f \in Fields : node'[a].refs[f] # Null => node'[a].refs[f] \in Addr \ {a}
    BY <1>1, <1>3, GivenLive
<1>5. ASSUME NEW b \in Addr, b # a, Live(b)', NEW f \in Fields, node[b].refs[f] # Null
      PROVE  node[b].refs[f] \in Addr \ {a}
  <2>1. Live(b) /\ node[b].refs[f] \in Addr \cup {Null}
      BY <1>2, <1>3, <1>5 DEF Live, Nodes
  <2> QED BY <2>1, <1>1, <1>2, <1>5 DEF RefsLive
<1> QED BY <1>3, <1>4, <1>5, HigherRank

\* So is an upgraded one, which was on the stack; and it holds none but what it held
\* and what else was there.
LEMMA UNKeepsRanks ==
    ASSUME StoreInv, Ranked, NEW a \in Addr, NEW T \in Types, NEW n \in Nat,
           NEW i \in 1 .. n, NEW refs \in [Fields -> Addr \cup {Null}],
           Given(n, refs), Upgradable(T, n, i, refs), UN(a, T, n, i, refs)
    PROVE  Ranked'
<1> DEFINE old == Arg(n, i)
           merged == [f \in Fields |-> IF Place[f][1] \in Layers[node[old].type]
                                       THEN node[old].refs[f] ELSE refs[f]]
           made == [type |-> T, text |-> node[old].text, refs |-> merged]
<1>0. /\ n <= Len(yyvs) /\ old # Null
      /\ a = old \/ ~Live(a)
      /\ node' = [node EXCEPT ![old] = FreeNode, ![a] = made]
    BY Zenon DEF UN, Copied, Live
<1>1. /\ node \in [Addr -> Nodes] /\ yyvs \in Seq(Addr \cup {Null})
      /\ StackLive /\ RefsLive /\ OffStack
    BY DEF StoreInv, StoreOK, Nodes
<1>2. Len(yyvs) - n + i \in 1 .. Len(yyvs) /\ old = yyvs[Len(yyvs) - n + i]
    BY <1>0, <1>1 DEF Arg
<1>3. /\ old \in Addr /\ node[old].type \in Types
      /\ \A f \in Fields : refs[f] # Null => refs[f] # old
    BY <1>0, <1>1, <1>2 DEF StackLive, Upgradable
<1>4. /\ Live(old) /\ node[old].type # Unset
      /\ \A b \in Addr : Live(b) => \A f \in Fields :
            node[b].refs[f] # Null => node[b].refs[f] # old
  <2>1. Live(old) /\ node[old].type # Unset
      BY <1>3, StoreAssumption DEF Live
  <2> QED BY <2>1, <1>1, <1>2 DEF OffStack
<1> HIDE DEF old
<1>5. \A b \in Addr : Live(b) => \A f \in Fields : node[b].refs[f] # Null =>
          node[b].refs[f] \in Addr /\ Live(node[b].refs[f])
    BY <1>1 DEF RefsLive, Nodes
<1>6. \A f \in Fields : refs[f] # Null => refs[f] \in Addr /\ Live(refs[f])
    BY <1>0, GivenLive
<1>7. ASSUME NEW f \in Fields, merged[f] # Null
      PROVE  merged[f] \in Addr \ {a} /\ merged[f] # old
  <2>1. \/ merged[f] = node[old].refs[f]
        \/ merged[f] = refs[f]
      OBVIOUS
  <2> HIDE DEF merged
  <2>2. merged[f] \in Addr /\ Live(merged[f]) /\ merged[f] # old
      BY <2>1, <1>3, <1>4, <1>5, <1>6, <1>7
  <2> QED BY <2>2, <1>0
<1> HIDE DEF merged
<1>8. made.refs = merged /\ FreeNode.type = Free
    BY DEF FreeNode
<1> HIDE DEF made
<1>9. /\ node'[a] = made
      /\ \A b \in Addr : b # a /\ b # old => node'[b] = node[b]
      /\ a # old => node'[old].type = Free
    BY <1>0, <1>1, <1>3, <1>8
<1>10. \A f \in Fields : node'[a].refs[f] # Null => node'[a].refs[f] \in Addr \ {a}
    BY <1>7, <1>8, <1>9
<1>11. ASSUME NEW b \in Addr, b # a, Live(b)'
       PROVE  /\ node'[b] = node[b]
              /\ \A f \in Fields : node[b].refs[f] # Null => node[b].refs[f] \in Addr \ {a}
  <2>1. b # old /\ node'[b] = node[b] /\ Live(b)
      BY <1>9, <1>11 DEF Live
  <2>2. ASSUME NEW f \in Fields, node[b].refs[f] # Null
        PROVE  node[b].refs[f] \in Addr \ {a}
    <3>1. /\ node[b].refs[f] \in Addr /\ Live(node[b].refs[f])
          /\ node[b].refs[f] # old
        BY <2>1, <2>2, <1>4, <1>5
    <3> QED BY <3>1, <1>0
  <2> QED BY <2>1, <2>2
<1> QED BY <1>10, <1>11, HigherRank

\* A new string holds nothing, and nobody it.
LEMMA InternKeepsRanks ==
    ASSUME StoreInv, Ranked, NEW a \in Addr, NEW s \in Texts, intern_string(a, s)
    PROVE  Ranked'
<1>1. /\ ~Live(a)
      /\ node' = [node EXCEPT ![a] = [type |-> Unset, text |-> s, refs |-> NoRefs]]
    BY DEF intern_string, Live
<1>2. node \in [Addr -> Nodes] /\ RefsLive
    BY DEF StoreInv, StoreOK, Nodes
<1>3. /\ node'[a].refs = NoRefs
      /\ \A b \in Addr : b # a => node'[b] = node[b]
    BY <1>1, <1>2
<1>4. \A f \in Fields : node'[a].refs[f] = Null
    BY <1>3 DEF NoRefs
<1>5. ASSUME NEW b \in Addr, b # a, Live(b)', NEW f \in Fields, node[b].refs[f] # Null
      PROVE  node[b].refs[f] \in Addr \ {a}
  <2>1. Live(b) /\ node[b].refs[f] \in Addr \cup {Null}
      BY <1>2, <1>3, <1>5 DEF Live, Nodes
  <2> QED BY <2>1, <1>1, <1>2, <1>5 DEF RefsLive
<1> QED BY <1>3, <1>4, <1>5, HigherRank

\* Every step keeps ranks.
LEMMA RankedStep == StoreInv /\ Ranked /\ [NextStore]_storeVars => Ranked'
<1> SUFFICES ASSUME StoreInv, Ranked, [NextStore]_storeVars PROVE Ranked'
    OBVIOUS
<1>1. ASSUME NEW a \in Addr, NEW T \in Types, NEW text \in Texts \cup {NoText},
             NEW n \in Nat, NEW refs \in [Fields -> Addr \cup {Null}],
             Given(n, refs), NN(a, T, text, n, refs)
      PROVE  Ranked'
    BY <1>1, NNKeepsRanks
<1>2. ASSUME NEW a \in Addr, NEW T \in Types, NEW n \in Nat, NEW i \in 1 .. n,
             NEW refs \in [Fields -> Addr \cup {Null}],
             Given(n, refs), Upgradable(T, n, i, refs), UN(a, T, n, i, refs)
      PROVE  Ranked'
    BY <1>2, UNKeepsRanks
<1>3. ASSUME NEW a \in Addr, NEW s \in Texts, intern_string(a, s) PROVE Ranked'
    BY <1>3, InternKeepsRanks
<1>4. ASSUME parser_setup \/ parser_teardown \/ Abandon \/ UNCHANGED storeVars
             \/ \E n \in Nat : Value(n)
      PROVE  Ranked'
  <2>1. node' = node
      BY <1>4 DEF parser_setup, parser_teardown, Abandon, storeVars, Value
  <2> QED BY <2>1 DEF Ranked, Ranking, Live
<1> QED BY <1>1, <1>2, <1>3, <1>4, Zenon DEF NextStore

\* Nothing is below itself, in whatever order nodes were made and wherever they moved to:
\* the recursions over the tree, in the walk and in the parser's add_typenames, end.
THEOREM StoreAcyclic == SpecStore => []Ranked
<1>1. InitStore => Ranked
  <2> SUFFICES ASSUME InitStore PROVE Ranked
      OBVIOUS
  <2> DEFINE none == [a \in Addr |-> 0]
  <2>1. \A a \in Addr : ~Live(a)
      BY DEF InitStore, FreeNode, Live
  <2>2. Ranking(none, 0)
      BY <2>1 DEF Ranking
  <2> QED BY <2>2 DEF Ranked
<1> QED BY <1>1, StoreInit, StoreStep, RankedStep, PTL DEF SpecStore
=============================================================================
