----------------------------- MODULE ToycenProofs ----------------------------
(***************************************************************************)
(* Proofs about module Toycen, for every grammar that bison accepts        *)
(* (ParserAssumption), every source and every address realloc may return.  *)
(*                                                                         *)
(* The parser keeps to the discipline that module NodeStore asks for, and  *)
(* so implements it; what is proved there holds of the program.  That it   *)
(* does rests on two things that need each other: the values on the stack  *)
(* are of the types of their symbols (ValuesTyped), so that an upgrade is  *)
(* one, and no node is held twice, so that an upgrade leaves the others'   *)
(* values alone.                                                           *)
(***************************************************************************)
EXTENDS Toycen, NodeStoreProofs, InductionTheorems

Symbols == {p.lhs : p \in Productions} \cup {s[2] : s \in Shifts}

ParserInv ==
    /\ StoreInv
    /\ syms \in Seq(Symbols) /\ Len(syms) = Len(yyvs)
    /\ ValuesTyped
    /\ yytext \in Texts
    /\ input \in Seq(Words \cup {EOF})

-----------------------------------------------------------------------------
\* The last n elements of a sequence.
LEMMA LastOnes ==
    ASSUME NEW S, NEW stack \in Seq(S), NEW n \in Nat, n <= Len(stack), NEW i \in 1 .. n
    PROVE  SubSeq(stack, Len(stack) - n + 1, Len(stack))[i] = stack[Len(stack) - n + i]
<1>1. Len(stack) - n + 1 \in Nat /\ i \in 1 .. (Len(stack) - (Len(stack) - n + 1) + 1)
    OBVIOUS
<1>2. i + (Len(stack) - n + 1) - 1 = Len(stack) - n + i
    OBVIOUS
<1> QED BY <1>1, <1>2

\* What bison's tables and the types of values make of the arguments of a production.
LEMMA Arguments ==
    ASSUME ParserInv, NEW p \in Productions, Handle(p), NEW n, n = Len(p.rhs)
    PROVE  /\ n \in Nat \ {0} /\ n <= Len(yyvs)
           /\ \A i \in 1 .. n :
                /\ Len(yyvs) - n + i \in 1 .. Len(yyvs)
                /\ Arg(n, i) = yyvs[Len(yyvs) - n + i]
                /\ Arg(n, i) \in Addr \cup {Null}
                /\ p.rhs[i] \in Types => Arg(n, i) # Null /\ node[Arg(n, i)].type = p.rhs[i]
                /\ Arg(n, i) # Null => node[Arg(n, i)].type \in Types
                /\ Arg(n, i) # Null => node[Arg(n, i)].type = p.rhs[i]
           /\ \A i, j \in 1 .. n : Arg(n, i) = Arg(n, j) /\ Arg(n, i) # Null => i = j
<1>1. n \in Nat \ {0}
    BY ParserAssumption DEF ProductionOK
<1>2. /\ syms \in Seq(Symbols) /\ Len(syms) = Len(yyvs) /\ ValuesTyped
      /\ yyvs \in Seq(Addr \cup {Null}) /\ StackOnce /\ StackLive
    BY DEF ParserInv, StoreInv, StoreOK
<1>3. n <= Len(yyvs) /\ p.rhs = SubSeq(syms, Len(syms) - n + 1, Len(syms))
    BY <1>2 DEF Handle
<1>4. ASSUME NEW i \in 1 .. n
      PROVE  /\ Len(yyvs) - n + i \in 1 .. Len(yyvs)
             /\ Arg(n, i) = yyvs[Len(yyvs) - n + i]
             /\ Arg(n, i) \in Addr \cup {Null}
             /\ p.rhs[i] = syms[Len(yyvs) - n + i]
  <2>1. Len(yyvs) - n + i \in 1 .. Len(yyvs)
      BY <1>1, <1>2, <1>3
  <2>2. p.rhs[i] = syms[Len(yyvs) - n + i]
    <3>1. n <= Len(syms) /\ n \in Nat
        BY <1>1, <1>2, <1>3
    <3>2. SubSeq(syms, Len(syms) - n + 1, Len(syms))[i] = syms[Len(syms) - n + i]
        BY <1>2, <3>1, LastOnes
    <3>3. p.rhs[i] = syms[Len(syms) - n + i]
        BY <1>3, <3>2, Zenon
    <3> QED BY <1>2, <3>3, Zenon
  <2>3. Arg(n, i) = yyvs[Len(yyvs) - n + i]
      BY Zenon DEF Arg
  <2>4. yyvs[Len(yyvs) - n + i] \in Addr \cup {Null}
    <3>1. \A k \in 1 .. Len(yyvs) : yyvs[k] \in Addr \cup {Null}
        BY <1>2
    <3> QED BY <2>1, <3>1, Zenon
  <2>5. Arg(n, i) \in Addr \cup {Null}
      BY <2>3, <2>4, Zenon
  <2> QED BY <2>1, <2>2, <2>3, <2>5, Zenon
<1>5. ASSUME NEW i \in 1 .. n
      PROVE  /\ p.rhs[i] \in Types => Arg(n, i) # Null /\ node[Arg(n, i)].type = p.rhs[i]
             /\ Arg(n, i) # Null => node[Arg(n, i)].type \in Types
             /\ Arg(n, i) # Null => node[Arg(n, i)].type = p.rhs[i]
    BY ZenonT(60), <1>2, <1>4 DEF ValuesTyped, StackLive
<1>6. ASSUME NEW i \in 1 .. n, NEW j \in 1 .. n, Arg(n, i) = Arg(n, j), Arg(n, i) # Null
      PROVE  i = j
  <2>1. Len(yyvs) - n + i = Len(yyvs) - n + j
      BY <1>2, <1>4, <1>6 DEF StackOnce
  <2> QED BY <2>1, <1>1, <1>2
<1> QED BY <1>1, <1>3, <1>4, <1>5, <1>6

\* What an action puts into fields: arguments, none of them twice, and a string.
LEMMA RefsGiven ==
    ASSUME ParserInv, NEW p \in Productions, Handle(p), NEW n, n = Len(p.rhs)
    PROVE  RefsOf(p) \in [Fields -> Addr \cup {Null}] /\ Given(n, RefsOf(p))
<1> DEFINE refs == RefsOf(p)
<1>ok. /\ DOMAIN p.refs \subseteq Fields
       /\ \A f \in DOMAIN p.refs : p.refs[f] \in 0 .. n
       /\ \A f, g \in DOMAIN p.refs : p.refs[f] = p.refs[g] => f = g
    BY ParserAssumption DEF ProductionOK
<1>st. /\ yytext \in Texts /\ strings \in [Texts -> Addr \cup {Null}] /\ Interned
       /\ Unset \notin Types
    BY StoreAssumption DEF ParserInv, StoreInv, StoreOK
<1>ar. /\ n \in Nat \ {0}
       /\ \A i \in 1 .. n : /\ Arg(n, i) \in Addr \cup {Null}
                            /\ Arg(n, i) # Null => node[Arg(n, i)].type \in Types
       /\ \A i, j \in 1 .. n : Arg(n, i) = Arg(n, j) /\ Arg(n, i) # Null => i = j
    BY Arguments
<1>1. ASSUME NEW f \in Fields
      PROVE  \/ refs[f] = Null
             \/ f \in DOMAIN p.refs /\ p.refs[f] = 0 /\ refs[f] = strings[yytext]
             \/ f \in DOMAIN p.refs /\ p.refs[f] \in 1 .. n /\ refs[f] = Arg(n, p.refs[f])
    BY <1>ok, <1>ar DEF RefsOf
<1>2. refs \in [Fields -> Addr \cup {Null}]
  <2>1. \A f \in Fields : refs[f] \in Addr \cup {Null}
      BY <1>1, <1>st, <1>ar
  <2>2. refs = [f \in Fields |-> refs[f]]
      BY DEF RefsOf
  <2> HIDE DEF refs
  <2> QED BY <2>1, <2>2
<1> HIDE DEF refs
<1>3. \A f \in Fields : refs[f] # Null =>
          \/ \E i \in 1 .. n : refs[f] = Arg(n, i)
          \/ \E s \in Texts : refs[f] = strings[s]
    BY <1>1, <1>st
<1>4. ASSUME NEW f \in Fields, NEW g \in Fields, refs[f] = refs[g], refs[f] # Null
      PROVE  f = g
  <2>1. CASE f \in DOMAIN p.refs /\ p.refs[f] = 0 /\ refs[f] = strings[yytext]
    <3>1. node[refs[f]].type = Unset
        BY <2>1, <1>st, <1>4 DEF Interned
    <3>2. p.refs[g] = 0 /\ g \in DOMAIN p.refs
        BY <3>1, <1>1, <1>st, <1>ar, <1>4
    <3> QED BY <2>1, <3>2, <1>ok
  <2>2. CASE f \in DOMAIN p.refs /\ p.refs[f] \in 1 .. n /\ refs[f] = Arg(n, p.refs[f])
    <3>1. node[refs[f]].type # Unset
      <4>1. PICK k \in 1 .. n : refs[f] = Arg(n, k)
          BY <2>2
      <4> QED BY <4>1, <1>st, <1>ar, <1>4
    <3>2. refs[g] # Null /\ refs[g] # strings[yytext]
      <4>1. strings[yytext] # Null => node[strings[yytext]].type = Unset
          BY <1>st DEF Interned
      <4> QED BY <4>1, <3>1, <1>4
    <3>3. /\ p.refs[g] \in 1 .. n /\ g \in DOMAIN p.refs
          /\ refs[g] = Arg(n, p.refs[g])
        BY <3>2, <1>1
    <3>4. p.refs[f] = p.refs[g]
        BY <2>2, <3>3, <1>ar, <1>4
    <3> QED BY <2>2, <3>3, <3>4, <1>ok
  <2> QED BY <2>1, <2>2, <1>1, <1>4
<1>5. Given(n, refs)
    BY <1>3, <1>4 DEF Given
<1> QED BY <1>2, <1>5 DEF refs

\* An upgrade is one: of an argument of a type that the new type is based on, which the
\* action does not use besides.
LEMMA UpgradesArgument ==
    ASSUME ParserInv, NEW p \in Productions, Handle(p), p.op = "UN", NEW n, n = Len(p.rhs)
    PROVE  p.arg \in 1 .. n /\ Upgradable(p.lhs, n, p.arg, RefsOf(p))
<1>1. /\ p.arg \in 1 .. n
      /\ p.rhs[p.arg] \in Layers[p.lhs] \ {p.lhs}
      /\ \A f \in DOMAIN p.refs : p.refs[f] \in 0 .. n /\ p.refs[f] \notin {0, p.arg}
      /\ p.lhs \in Types
    BY ParserAssumption DEF ProductionOK
<1>2. p.rhs[p.arg] \in Types
    BY <1>1, TopAssumption
<1>3. /\ Arg(n, p.arg) # Null
      /\ node[Arg(n, p.arg)].type = p.rhs[p.arg]
      /\ n \in Nat
      /\ \A i, j \in 1 .. n : Arg(n, i) = Arg(n, j) /\ Arg(n, i) # Null => i = j
    BY <1>1, <1>2, Arguments
<1>4. ASSUME NEW f \in Fields, RefsOf(p)[f] # Null PROVE RefsOf(p)[f] # Arg(n, p.arg)
  <2>1. f \in DOMAIN p.refs /\ RefsOf(p)[f] = Arg(n, p.refs[f]) /\ p.refs[f] \in 1 .. n
      BY <1>1, <1>3, <1>4 DEF RefsOf
  <2> QED BY <2>1, <1>1, <1>3
<1> QED BY <1>1, <1>3, <1>4 DEF Upgradable

\* The texts of nodes.
LEMMA TextOfType ==
    ASSUME ParserInv, NEW p \in Productions PROVE TextOf(p) \in Texts \cup {NoText}
    BY ParserAssumption DEF TextOf, ParserInv

-----------------------------------------------------------------------------
(***************************************************************************)
(* The steps of the parser are steps of the store, and leave on the stack  *)
(* a value of the type of its symbol.                                      *)
(***************************************************************************)
\* What is left of the stack below a production's arguments, and the symbol pushed.
LEMMA SymbolsPushed ==
    ASSUME ParserInv, NEW n \in Nat, n <= Len(yyvs), NEW symbol \in Symbols,
           NEW v \in Addr \cup {Null}, Push(n, v),
           syms' = Append(SubSeq(syms, 1, Len(syms) - n), symbol)
    PROVE  /\ syms' \in Seq(Symbols)
           /\ Len(syms') = Len(syms) - n + 1 /\ Len(yyvs') = Len(syms')
           /\ \A j \in 1 .. Len(syms') :
                \/ j \in 1 .. Len(yyvs) - n /\ j \in 1 .. Len(syms)
                   /\ syms'[j] = syms[j] /\ yyvs'[j] = yyvs[j]
                \/ j = Len(syms') /\ syms'[j] = symbol /\ yyvs'[j] = v
<1> DEFINE keep == Len(yyvs) - n
<1>1. /\ syms \in Seq(Symbols) /\ Len(syms) = Len(yyvs) /\ yyvs \in Seq(Addr \cup {Null})
    BY DEF ParserInv, StoreInv, StoreOK
<1>2. keep \in Nat
    BY <1>1
<1>3. /\ yyvs' \in Seq(Addr \cup {Null}) /\ Len(yyvs') = keep + 1
      /\ \A j \in 1 .. keep : j \in 1 .. Len(yyvs) /\ yyvs'[j] = yyvs[j]
      /\ yyvs'[keep + 1] = v
    BY <1>1, Pushed DEF Push
<1>4. /\ syms' \in Seq(Symbols) /\ Len(syms') = keep + 1
      /\ \A j \in 1 .. keep : j \in 1 .. Len(syms) /\ syms'[j] = syms[j]
      /\ syms'[keep + 1] = symbol
    BY <1>1, Pushed
<1>5. \A j \in 1 .. keep + 1 : j \in 1 .. keep \/ j = keep + 1
    BY <1>2
<1> QED BY <1>1, <1>3, <1>4, <1>5

\* Values keep their types when a step leaves the nodes below the arguments alone.
LEMMA StaysTyped ==
    ASSUME ParserInv, NEW n \in Nat, n <= Len(yyvs), NEW symbol \in Symbols,
           NEW v \in Addr \cup {Null}, Push(n, v),
           syms' = Append(SubSeq(syms, 1, Len(syms) - n), symbol),
           IF symbol \in Types THEN v # Null /\ node'[v].type = symbol ELSE v = Null,
           \A j \in 1 .. Len(yyvs) - n : yyvs[j] # Null => node'[yyvs[j]] = node[yyvs[j]]
    PROVE  /\ ValuesTyped' /\ syms' \in Seq(Symbols) /\ Len(syms') = Len(yyvs')
<1>1. /\ syms' \in Seq(Symbols)
      /\ Len(syms') = Len(syms) - n + 1 /\ Len(yyvs') = Len(syms')
      /\ \A j \in 1 .. Len(syms') :
            \/ j \in 1 .. Len(yyvs) - n /\ j \in 1 .. Len(syms)
               /\ syms'[j] = syms[j] /\ yyvs'[j] = yyvs[j]
            \/ j = Len(syms') /\ syms'[j] = symbol /\ yyvs'[j] = v
    BY ZenonT(60), SymbolsPushed
<1>2. ValuesTyped
    BY DEF ParserInv
<1>3. ASSUME NEW j \in 1 .. Len(syms')
      PROVE  IF syms'[j] \in Types THEN yyvs'[j] # Null /\ node'[yyvs'[j]].type = syms'[j]
                                   ELSE yyvs'[j] = Null
  <2>1. CASE /\ j \in 1 .. Len(yyvs) - n /\ j \in 1 .. Len(syms)
             /\ syms'[j] = syms[j] /\ yyvs'[j] = yyvs[j]
      BY <2>1, <1>2 DEF ValuesTyped
  <2>2. CASE j = Len(syms') /\ syms'[j] = symbol /\ yyvs'[j] = v
      BY <2>2
  <2> QED BY <2>1, <2>2, <1>1
<1> QED BY <1>1, <1>3 DEF ValuesTyped

\* The rest of the invariant, once the store's part and the stacks are known.
LEMMA Rebuilt ==
    ASSUME ParserInv, NextStore, ValuesTyped', syms' \in Seq(Symbols),
           Len(syms') = Len(yyvs'), yytext' = yytext, input' = input
    PROVE  ParserInv'
<1>1. StoreInv'
  <2>1. StoreInv
      BY DEF ParserInv
  <2> QED BY <2>1, StoreStep
<1> QED BY <1>1 DEF ParserInv

\* A reduction to an enumerator's value makes no node.
LEMMA ReduceValue ==
    ASSUME ParserInv, NEW p \in Productions, Reduce(p), p.op = "value", Value(Len(p.rhs))
    PROVE  NextStore /\ ParserInv'
<1> DEFINE n == Len(p.rhs)
<1>1. /\ Handle(p) /\ yytext' = yytext /\ input' = input
      /\ syms' = Append(SubSeq(syms, 1, Len(syms) - n), p.lhs)
    BY DEF Reduce, Ready
<1>2. n \in Nat \ {0} /\ n <= Len(yyvs)
    BY <1>1, Arguments
<1>3. p.lhs \in Symbols /\ p.lhs \notin Types
    BY ParserAssumption DEF ProductionOK, Symbols
<1> HIDE DEF n
<1>4. Value(n) /\ Push(n, Null) /\ node' = node
    BY DEF Value, n
<1>5. NextStore
    BY <1>2, <1>4 DEF NextStore
<1>6. /\ ValuesTyped' /\ syms' \in Seq(Symbols) /\ Len(syms') = Len(yyvs')
    BY <1>1, <1>2, <1>3, <1>4, StaysTyped
<1> QED BY <1>1, <1>5, <1>6, Rebuilt

\* A reduction with NN is a step of the store, and pushes a node of its symbol's type.
LEMMA ReduceNN ==
    ASSUME ParserInv, NEW p \in Productions, Reduce(p), p.op = "NN", NEW a \in Fresh,
           NN(a, p.lhs, TextOf(p), Len(p.rhs), RefsOf(p))
    PROVE  NextStore /\ ParserInv'
<1> DEFINE n == Len(p.rhs)
<1>1. /\ Handle(p) /\ yytext' = yytext /\ input' = input
      /\ syms' = Append(SubSeq(syms, 1, Len(syms) - n), p.lhs)
    BY DEF Reduce, Ready
<1>2. n \in Nat /\ n <= Len(yyvs)
    BY <1>1, Arguments
<1>3. p.lhs \in Symbols /\ p.lhs \in Types /\ a \in Addr
    BY ParserAssumption DEF ProductionOK, Symbols, Fresh
<1>4. RefsOf(p) \in [Fields -> Addr \cup {Null}] /\ Given(n, RefsOf(p))
    BY <1>1, RefsGiven
<1>5. TextOf(p) \in Texts \cup {NoText}
    BY TextOfType
<1> HIDE DEF n
<1>6. NN(a, p.lhs, TextOf(p), n, RefsOf(p))
    BY DEF n
<1>7. NextStore
  <2>1. \E b \in Addr, T \in Types, text \in Texts \cup {NoText}, k \in Nat :
          \E refs \in [Fields -> Addr \cup {Null}] :
              Given(k, refs) /\ NN(b, T, text, k, refs)
      BY <1>2, <1>3, <1>4, <1>5, <1>6, Zenon
  <2> QED BY <2>1, Zenon DEF NextStore
<1>8. /\ node[a].type = Free /\ Push(n, a)
      /\ node' = [node EXCEPT ![a] = [type |-> p.lhs, text |-> TextOf(p), refs |-> RefsOf(p)]]
    BY <1>6, Zenon DEF NN, Allocated
<1>9. node \in [Addr -> Nodes] /\ yyvs \in Seq(Addr \cup {Null}) /\ StackLive
    BY DEF ParserInv, StoreInv, StoreOK, Nodes
<1>10. node'[a].type = p.lhs /\ a # Null
    BY <1>3, <1>8, <1>9, StoreAssumption
<1>11. ASSUME NEW j \in 1 .. Len(yyvs) - n, yyvs[j] # Null
       PROVE  node'[yyvs[j]] = node[yyvs[j]]
  <2>1. j \in 1 .. Len(yyvs)
      BY <1>2, <1>9
  <2>2. yyvs[j] \in Addr /\ yyvs[j] # a
      BY <2>1, <1>8, <1>9, <1>11, StoreAssumption DEF StackLive
  <2> QED BY <2>2, <1>8, <1>9
<1>12. /\ ValuesTyped' /\ syms' \in Seq(Symbols) /\ Len(syms') = Len(yyvs')
    BY <1>1, <1>2, <1>3, <1>8, <1>10, <1>11, StaysTyped
<1> QED BY <1>1, <1>7, <1>12, Rebuilt

\* A reduction with UN is one too: the values below the arguments are not the node that
\* moves, since nobody else holds that.
LEMMA ReduceUN ==
    ASSUME ParserInv, NEW p \in Productions, Reduce(p), p.op = "UN",
           NEW a \in Grown(Arg(Len(p.rhs), p.arg)),
           UN(a, p.lhs, Len(p.rhs), p.arg, RefsOf(p))
    PROVE  NextStore /\ ParserInv'
<1> DEFINE n == Len(p.rhs)
           old == Arg(n, p.arg)
<1>1. /\ Handle(p) /\ yytext' = yytext /\ input' = input
      /\ syms' = Append(SubSeq(syms, 1, Len(syms) - n), p.lhs)
    BY DEF Reduce, Ready
<1>2. n \in Nat /\ n <= Len(yyvs)
    BY <1>1, Arguments
<1>3. p.lhs \in Symbols /\ p.lhs \in Types
    BY ParserAssumption DEF ProductionOK, Symbols
<1>4. RefsOf(p) \in [Fields -> Addr \cup {Null}] /\ Given(n, RefsOf(p))
    BY <1>1, RefsGiven
<1>5. p.arg \in 1 .. n /\ Upgradable(p.lhs, n, p.arg, RefsOf(p))
    BY <1>1, UpgradesArgument
<1>6. /\ old # Null /\ Push(n, a) /\ UN(a, p.lhs, n, p.arg, RefsOf(p))
      /\ a = old \/ node[a].type = Free
    BY Zenon DEF UN
<1>7. /\ Len(yyvs) - n + p.arg \in 1 .. Len(yyvs) /\ old = yyvs[Len(yyvs) - n + p.arg]
      /\ old \in Addr
  <2>1. \A i \in 1 .. n : /\ Len(yyvs) - n + i \in 1 .. Len(yyvs)
                          /\ Arg(n, i) = yyvs[Len(yyvs) - n + i]
                          /\ Arg(n, i) \in Addr \cup {Null}
      BY ZenonT(60), <1>1, Arguments
  <2> HIDE DEF n
  <2> QED BY <2>1, <1>5, <1>6
<1>8. a \in Addr
    BY <1>7 DEF Grown, Fresh
<1> HIDE DEF n
<1>9. NextStore
  <2>1. \E b \in Addr, T \in Types, k \in Nat : \E i \in 1 .. k :
          \E refs \in [Fields -> Addr \cup {Null}] :
              Given(k, refs) /\ Upgradable(T, k, i, refs) /\ UN(b, T, k, i, refs)
      BY <1>2, <1>3, <1>4, <1>5, <1>6, <1>8, Zenon
  <2> QED BY <2>1, Zenon DEF NextStore
<1>10. node \in [Addr -> Nodes] /\ yyvs \in Seq(Addr \cup {Null}) /\ StackLive /\ StackOnce
    BY DEF ParserInv, StoreInv, StoreOK, Nodes
<1>11. /\ node'[a].type = p.lhs /\ a # Null
       /\ \A b \in Addr : b # a /\ b # old => node'[b] = node[b]
  <2> DEFINE made == [type |-> p.lhs, text |-> node[old].text,
                      refs |-> [f \in Fields |->
                          IF Place[f][1] \in Layers[node[old].type]
                          THEN node[old].refs[f] ELSE RefsOf(p)[f]]]
  <2>1. node' = [node EXCEPT ![old] = FreeNode, ![a] = made]
      BY <1>6, Zenon DEF UN, Copied
  <2>2. made.type = p.lhs
      OBVIOUS
  <2> HIDE DEF made, old
  <2> QED BY <2>1, <2>2, <1>7, <1>8, <1>10, StoreAssumption
<1> HIDE DEF old
<1>12. ASSUME NEW j \in 1 .. Len(yyvs) - n, yyvs[j] # Null
       PROVE  node'[yyvs[j]] = node[yyvs[j]]
  <2>1. j \in 1 .. Len(yyvs) /\ j # Len(yyvs) - n + p.arg
      BY <1>2, <1>5, <1>10
  <2>2. yyvs[j] \in Addr /\ yyvs[j] # old
      BY <2>1, <1>7, <1>10, <1>12 DEF StackOnce
  <2>3. yyvs[j] # a
      BY <2>1, <2>2, <1>6, <1>10, <1>12, StoreAssumption DEF StackLive
  <2> QED BY <2>2, <2>3, <1>11
<1>13. /\ ValuesTyped' /\ syms' \in Seq(Symbols) /\ Len(syms') = Len(yyvs')
    BY <1>1, <1>2, <1>3, <1>6, <1>8, <1>11, <1>12, StaysTyped
<1> QED BY <1>1, <1>9, <1>13, Rebuilt

\* A new string takes fresh memory, so no value's type changes.
LEMMA InternStep ==
    ASSUME ParserInv, NEW p \in Productions, Intern(p)
    PROVE  NextStore /\ ParserInv'
<1>1. /\ yytext' = yytext /\ input' = input /\ syms' = syms
      /\ \E a \in Fresh : intern_string(a, yytext)
    BY DEF Intern, parserVars
<1>2. PICK a \in Fresh : intern_string(a, yytext)
    BY <1>1
<1>3. a \in Addr /\ yytext \in Texts
    BY DEF Fresh, ParserInv
<1>4. NextStore
    BY <1>2, <1>3 DEF NextStore
<1>5. /\ node[a].type = Free /\ yyvs' = yyvs
      /\ node' = [node EXCEPT ![a] = [type |-> Unset, text |-> yytext, refs |-> NoRefs]]
    BY <1>2 DEF intern_string
<1>6. /\ node \in [Addr -> Nodes] /\ yyvs \in Seq(Addr \cup {Null}) /\ StackLive
      /\ ValuesTyped /\ syms \in Seq(Symbols) /\ Len(syms) = Len(yyvs)
    BY DEF ParserInv, StoreInv, StoreOK, Nodes
<1>7. ASSUME NEW j \in 1 .. Len(syms), yyvs[j] # Null
      PROVE  node'[yyvs[j]] = node[yyvs[j]]
  <2>1. yyvs[j] \in Addr /\ yyvs[j] # a
      BY <1>5, <1>6, <1>7, StoreAssumption DEF StackLive
  <2> QED BY <2>1, <1>5, <1>6
<1>8. ValuesTyped'
    BY <1>1, <1>5, <1>6, <1>7 DEF ValuesTyped
<1> QED BY <1>1, <1>4, <1>5, <1>6, <1>8, Rebuilt

\* A token's value is no node.
\* A token's symbol has no node for its value.
LEMMA ShiftStep ==
    ASSUME ParserInv, Shift
    PROVE  NextStore /\ ParserInv'
<1>1. /\ yytext' = yytext /\ input' = input /\ Value(0)
      /\ syms' = Append(syms, la.kind) /\ <<Under, la.kind>> \in Shifts
    BY DEF Shift, CanShift
<1>2. la.kind \in Symbols /\ la.kind \notin Types
    BY <1>1, ParserAssumption DEF Symbols
<1>3. Push(0, Null) /\ node' = node
    BY <1>1 DEF Value
<1>4. /\ syms \in Seq(Symbols) /\ 0 <= Len(yyvs) /\ 0 \in Nat
      /\ SubSeq(syms, 1, Len(syms) - 0) = syms
  <2>1. syms \in Seq(Symbols) /\ yyvs \in Seq(Addr \cup {Null})
      BY DEF ParserInv, StoreInv, StoreOK
  <2> QED BY <2>1
<1>5. NextStore
    BY <1>1, <1>4 DEF NextStore
<1>6. /\ ValuesTyped' /\ syms' \in Seq(Symbols) /\ Len(syms') = Len(yyvs')
    BY <1>1, <1>2, <1>3, <1>4, StaysTyped
<1> QED BY <1>1, <1>5, <1>6, Rebuilt

\* The parser reads on: only the words that are left change.
LEMMA LexStep ==
    ASSUME ParserInv, Lex
    PROVE  UNCHANGED storeVars /\ ParserInv'
<1>1. PICK rest \in Rests : yytext' = Head(rest).text /\ input' = Tail(rest)
    BY DEF Lex
<1>2. /\ node' = node /\ yyvs' = yyvs /\ strings' = strings /\ top' = top /\ ps' = ps
      /\ syms' = syms
    BY DEF Lex, storeVars
<1>3. rest \in Seq(Words \cup {EOF}) /\ rest # << >>
  <2>1. CASE input # << >> /\ rest = input
      BY <2>1 DEF ParserInv
  <2>2. CASE rest = <<EOF>>
      BY <2>2
  <2>3. CASE rest \in Lines
      BY <2>3, ParserAssumption
  <2> QED BY <2>1, <2>2, <2>3, <1>1 DEF Rests
<1>4. Head(rest) \in Words \cup {EOF} /\ Tail(rest) \in Seq(Words \cup {EOF})
    BY <1>3
<1>5. \A w \in Words \cup {EOF} : w.text \in Texts
    BY ParserAssumption DEF EOF
<1>6. yytext' \in Texts /\ input' \in Seq(Words \cup {EOF})
    BY <1>1, <1>4, <1>5
<1>7. UNCHANGED storeVars
    BY <1>2 DEF storeVars
<1>8. StoreInv'
    BY <1>7, OthersKeepInv DEF ParserInv
<1>9. ValuesTyped'
    BY <1>2 DEF ParserInv, ValuesTyped
<1> QED BY <1>2, <1>6, <1>7, <1>8, <1>9 DEF ParserInv

\* yyparse returns with its stacks empty.
LEMMA ReturnStep ==
    ASSUME ParserInv, Return
    PROVE  NextStore /\ ParserInv'
<1>1. /\ yytext' = yytext /\ input' = input /\ Abandon /\ syms' = << >> /\ yyvs' = << >>
    BY DEF Return, Abandon
<1>2. NextStore
    BY <1>1 DEF NextStore
<1>3. << >> \in Seq(Symbols) /\ Len(<< >>) = 0 /\ 1 .. 0 = {}
    OBVIOUS
<1>4. ValuesTyped'
    BY <1>1, <1>3 DEF ValuesTyped
<1> QED BY <1>1, <1>2, <1>3, <1>4, Rebuilt

\* main sets up and tears down around an empty stack.
LEMMA DriverStep ==
    ASSUME ParserInv, Setup \/ Walk \/ NoWalk \/ Teardown \/ UNCHANGED vars
    PROVE  [NextStore]_storeVars /\ ParserInv'
<1>0. /\ StoreInv /\ syms \in Seq(Symbols) /\ Len(syms) = Len(yyvs) /\ ValuesTyped
      /\ yytext \in Texts /\ input \in Seq(Words \cup {EOF})
    BY DEF ParserInv
<1>1. CASE UNCHANGED <<storeVars, parserVars>>
  <2>1. UNCHANGED storeVars /\ syms' = syms /\ yyvs' = yyvs /\ node' = node
        /\ yytext' = yytext /\ input' = input
      BY <1>1 DEF parserVars, storeVars
  <2>2. StoreInv'
      BY <1>0, <2>1, OthersKeepInv
  <2> QED BY <1>0, <2>1, <2>2 DEF ParserInv, ValuesTyped
<1>2. CASE Setup
  <2>1. parser_setup /\ yytext' = yytext /\ input' = input /\ syms' = syms
        /\ yyvs' = << >> /\ node' = node
      BY <1>2 DEF Setup, parser_setup
  <2>2. NextStore
      BY <2>1 DEF NextStore
  <2>3. syms = << >>
    <3>1. yyvs = << >>
        BY <1>0, <2>1 DEF parser_setup, StoreInv, NothingYet
    <3>2. Len(syms) = 0
        BY <1>0, <3>1
    <3> QED BY <1>0, <3>2
  <2>4. StoreInv'
      BY <1>0, <2>1, OthersKeepInv
  <2>5. ValuesTyped' /\ Len(syms') = Len(yyvs')
      BY <2>1, <2>3 DEF ValuesTyped
  <2> QED BY <1>0, <2>1, <2>2, <2>4, <2>5 DEF ParserInv
<1>3. CASE Teardown
  <2>1. parser_teardown /\ yytext' = yytext /\ input' = input /\ syms' = syms
        /\ yyvs' = yyvs /\ node' = node
      BY <1>3 DEF Teardown, parser_teardown
  <2>2. NextStore
      BY <2>1 DEF NextStore
  <2>3. StoreInv'
      BY <1>0, <2>1, OthersKeepInv
  <2> QED BY <1>0, <2>1, <2>2, <2>3 DEF ParserInv, ValuesTyped
<1>4. CASE Walk \/ NoWalk
    BY <1>1, <1>4 DEF Walk, NoWalk
<1>5. CASE UNCHANGED vars
    BY <1>1, <1>5 DEF vars
<1> QED BY <1>2, <1>3, <1>4, <1>5

-----------------------------------------------------------------------------
\* main begins with empty stacks and an empty heap.
LEMMA ParserInit == Init => InitStore /\ ParserInv
<1> SUFFICES ASSUME Init PROVE InitStore /\ ParserInv
    OBVIOUS
<1>1. InitStore /\ syms = << >> /\ yyvs = << >> /\ yytext = Other /\ input = << >>
    BY DEF Init, InitStore
<1>2. StoreInv
    BY <1>1, StoreInit
<1>3. /\ << >> \in Seq(Symbols) /\ << >> \in Seq(Words \cup {EOF})
      /\ Len(<< >>) = 0 /\ 1 .. 0 = {}
    OBVIOUS
<1>4. ValuesTyped
    BY <1>1, <1>3 DEF ValuesTyped
<1> QED BY <1>1, <1>2, <1>3, <1>4, ParserAssumption DEF ParserInv

\* Every step of the program keeps the invariant, and is a step of the store or leaves it
\* alone.
LEMMA ParserStep == ParserInv /\ [Next]_vars => [NextStore]_storeVars /\ ParserInv'
<1> SUFFICES ASSUME ParserInv, [Next]_vars PROVE [NextStore]_storeVars /\ ParserInv'
    OBVIOUS
<1>1. ASSUME NEW p \in Productions, Reduce(p) PROVE NextStore /\ ParserInv'
  <2>1. Act(p)
      BY <1>1 DEF Reduce
  <2>2. CASE p.op = "value" /\ Value(Len(p.rhs))
      BY <1>1, <2>2, ReduceValue
  <2>3. CASE p.op = "NN" /\ \E a \in Fresh : NN(a, p.lhs, TextOf(p), Len(p.rhs), RefsOf(p))
      BY <1>1, <2>3, ReduceNN
  <2>4. CASE p.op = "UN" /\ \E a \in Grown(Arg(Len(p.rhs), p.arg)) :
                                UN(a, p.lhs, Len(p.rhs), p.arg, RefsOf(p))
      BY <1>1, <2>4, ReduceUN
  <2> QED BY <2>1, <2>2, <2>3, <2>4 DEF Act
<1>2. ASSUME NEW p \in Productions, Intern(p) PROVE NextStore /\ ParserInv'
    BY <1>2, InternStep
<1>3. ASSUME Shift PROVE NextStore /\ ParserInv'
    BY <1>3, ShiftStep
<1>4. ASSUME Return PROVE NextStore /\ ParserInv'
    BY <1>4, ReturnStep
<1>5. ASSUME Lex PROVE UNCHANGED storeVars /\ ParserInv'
    BY <1>5, LexStep
<1>6. ASSUME Setup \/ Walk \/ NoWalk \/ Teardown \/ UNCHANGED vars
      PROVE  [NextStore]_storeVars /\ ParserInv'
    BY <1>6, DriverStep
<1> QED BY <1>1, <1>2, <1>3, <1>4, <1>5, <1>6, Zenon DEF Next

\* Values have the types of their symbols, in every parse of every such grammar: what
\* UN takes for the size of the old structure is right.
THEOREM ValuesAlwaysTyped == Spec => []ValuesTyped
<1>1. ParserInv => ValuesTyped
    BY DEF ParserInv
<1> QED BY <1>1, ParserInit, ParserStep, PTL DEF Spec

\* The parser keeps to the discipline of the store: every step of the program is one of
\* NodeStore's, or leaves the nodes alone.
THEOREM ParserIsDisciplined == Spec => SpecStore
    BY ParserInit, ParserStep, PTL DEF Spec, SpecStore

\* So no pointer dangles, wherever realloc moves nodes to, ...
THEOREM ParserNeverDangles == Spec => []NoDangling
    BY ParserIsDisciplined, StoreSafe, PTL

\* ... no node is held twice ...
THEOREM ParserOwnsOnce == Spec => []OneOwner
    BY ParserIsDisciplined, StoreSafe, PTL

\* ... and equal string constants are one object.
THEOREM ParserInterns == Spec => []OneStringOneObject
    BY ParserIsDisciplined, StoreSafe, PTL

-----------------------------------------------------------------------------
(***************************************************************************)
(* The tree that the parser builds is one the walk can follow (FitsSchema) *)
(* if every production fits the schema when looked at alone                *)
(* (FittingAssumption).  That this is enough is not plain: a node's type   *)
(* changes when it is upgraded, and so does its address, while others may  *)
(* point to it and it keeps what it holds.                                 *)
(***************************************************************************)
\* What the walk takes a node for.
Kind(n) == IF n.type = Unset THEN "string" ELSE n.type

TreeInv == ParserInv /\ FitsSchema

-----------------------------------------------------------------------------
\* A step that makes a node at `a' keeps the tree fitting if the new node fits and no
\* other node points to one that changes.
LEMMA StillFits ==
    ASSUME FitsSchema, NEW a \in Addr,
           \A b \in Addr : b # a =>
              \/ node'[b].type = Free
              \/ /\ node'[b] = node[b]
                 /\ node[b].type # Free => \A f \in Fields : node[b].refs[f] # Null =>
                       node'[node[b].refs[f]] = node[node[b].refs[f]],
           \A f \in Fields : node'[a].refs[f] # Null =>
              /\ <<node'[a].type, f>> \in Owning
              /\ <<f, Kind(node'[node'[a].refs[f]])>> \in Leading
    PROVE  FitsSchema'
<1> SUFFICES ASSUME NEW b \in Addr, node'[b].type # Free,
                    NEW f \in Fields, node'[b].refs[f] # Null
             PROVE  /\ <<node'[b].type, f>> \in Owning
                    /\ <<f, Kind(node'[node'[b].refs[f]])>> \in Leading
    BY DEF FitsSchema, Kind
<1>1. CASE b = a
    BY <1>1
<1>2. CASE b # a
  <2>1. /\ node'[b] = node[b] /\ node[b].type # Free /\ node[b].refs[f] # Null
        /\ node'[node[b].refs[f]] = node[node[b].refs[f]]
      BY <1>2
  <2>2. <<node[b].type, f>> \in Owning /\ <<f, Kind(node[node[b].refs[f]])>> \in Leading
      BY <2>1 DEF FitsSchema, Kind
  <2> QED BY <2>1, <2>2 DEF Kind
<1> QED BY <1>1, <1>2

\* What an action puts into fields fits there: an argument is of its symbol's type, and
\* the string is one.
LEMMA RefsFit ==
    ASSUME ParserInv, NEW p \in Productions, Handle(p), NEW f \in Fields,
           RefsOf(p)[f] # Null
    PROVE  /\ <<p.lhs, f>> \in Owning
           /\ <<f, Kind(node[RefsOf(p)[f]])>> \in Leading
           /\ RefsOf(p)[f] \in Addr /\ node[RefsOf(p)[f]].type # Free
<1>1. f \in DOMAIN p.refs
    BY DEF RefsOf
<1>2. /\ <<p.lhs, f>> \in Owning
      /\ <<f, IF p.refs[f] = 0 THEN "string" ELSE p.rhs[p.refs[f]]>> \in Leading
    BY <1>1, FittingAssumption DEF Fitting
<1>3. p.refs[f] \in 0 .. Len(p.rhs) /\ Len(p.rhs) \in Nat
    BY <1>1, ParserAssumption DEF ProductionOK
<1>4. yytext \in Texts /\ strings \in [Texts -> Addr \cup {Null}] /\ Interned
      /\ Unset # Free /\ Unset \notin Types /\ Free \notin Types
    BY StoreAssumption DEF ParserInv, StoreInv, StoreOK
<1>5. CASE p.refs[f] = 0
  <2>1. RefsOf(p)[f] = strings[yytext]
      BY <1>1, <1>5 DEF RefsOf
  <2>2. node[strings[yytext]].type = Unset /\ strings[yytext] \in Addr
      BY <2>1, <1>4 DEF Interned
  <2> QED BY <1>2, <1>4, <1>5, <2>1, <2>2 DEF Kind
<1>6. CASE p.refs[f] # 0
  <2>1. /\ RefsOf(p)[f] = Arg(Len(p.rhs), p.refs[f])
        /\ p.refs[f] \in 1 .. Len(p.rhs)
      BY <1>1, <1>3, <1>6 DEF RefsOf
  <2>2. /\ Arg(Len(p.rhs), p.refs[f]) \in Addr
        /\ node[Arg(Len(p.rhs), p.refs[f])].type = p.rhs[p.refs[f]]
        /\ node[Arg(Len(p.rhs), p.refs[f])].type \in Types
      BY <2>1, Arguments
  <2> QED BY <1>2, <1>4, <1>6, <2>1, <2>2 DEF Kind
<1> QED BY <1>5, <1>6

\* A new node fits, and nobody points to it.
LEMMA NNFits ==
    ASSUME TreeInv, NEW p \in Productions, Reduce(p), p.lhs \in Types, NEW a \in Fresh,
           NN(a, p.lhs, TextOf(p), Len(p.rhs), RefsOf(p))
    PROVE  FitsSchema'
<1>1. /\ node[a].type = Free
      /\ node' = [node EXCEPT ![a] = [type |-> p.lhs, text |-> TextOf(p), refs |-> RefsOf(p)]]
    BY Zenon DEF NN, Allocated
<1>2. /\ node \in [Addr -> Nodes] /\ RefsLive /\ FitsSchema /\ ParserInv
      /\ Handle(p) /\ a \in Addr
    BY DEF TreeInv, ParserInv, StoreInv, StoreOK, Nodes, Reduce, Ready, Fresh
<1>3. \A b \in Addr : b # a => node'[b] = node[b]
    BY <1>1, <1>2
<1>4. node'[a].type = p.lhs /\ node'[a].refs = RefsOf(p)
    BY <1>1, <1>2
<1>5. ASSUME NEW b \in Addr, b # a, node[b].type # Free, NEW f \in Fields,
             node[b].refs[f] # Null
      PROVE  node'[node[b].refs[f]] = node[node[b].refs[f]]
  <2>1. node[b].refs[f] \in Addr /\ node[b].refs[f] # a
      BY <1>1, <1>2, <1>5 DEF RefsLive, Live, Nodes
  <2> QED BY <2>1, <1>3
<1>6. ASSUME NEW f \in Fields, RefsOf(p)[f] # Null
      PROVE  <<p.lhs, f>> \in Owning /\ <<f, Kind(node'[RefsOf(p)[f]])>> \in Leading
  <2>1. /\ <<p.lhs, f>> \in Owning /\ <<f, Kind(node[RefsOf(p)[f]])>> \in Leading
        /\ RefsOf(p)[f] \in Addr /\ node[RefsOf(p)[f]].type # Free
      BY <1>2, <1>6, RefsFit
  <2>2. RefsOf(p)[f] # a
      BY <2>1, <1>1
  <2>3. node'[RefsOf(p)[f]] = node[RefsOf(p)[f]]
      BY <2>1, <2>2, <1>3
  <2> QED BY <2>1, <2>3 DEF Kind
<1> QED BY <1>2, <1>3, <1>4, <1>5, <1>6, StillFits

\* An upgraded node keeps what it held, where it still belongs, and nobody points to it:
\* neither where it was, since the parser's stack holds it, nor where it goes.
LEMMA UNFits ==
    ASSUME TreeInv, NEW p \in Productions, Reduce(p), p.op = "UN",
           NEW a \in Grown(Arg(Len(p.rhs), p.arg)),
           UN(a, p.lhs, Len(p.rhs), p.arg, RefsOf(p))
    PROVE  FitsSchema'
<1> DEFINE n == Len(p.rhs)
           old == Arg(n, p.arg)
           kept == Copied(old, RefsOf(p))
           made == [type |-> p.lhs, text |-> node[old].text, refs |-> kept]
<1>1. /\ old # Null
      /\ a = old \/ node[a].type = Free
      /\ node' = [node EXCEPT ![old] = FreeNode, ![a] = made]
    BY Zenon DEF UN
<1>2. /\ node \in [Addr -> Nodes] /\ RefsLive /\ OffStack /\ FitsSchema /\ ParserInv
      /\ Handle(p)
    BY DEF TreeInv, ParserInv, StoreInv, StoreOK, Nodes, Reduce, Ready
<1>3. /\ p.arg \in 1 .. n
      /\ node[old].type \in Layers[p.lhs] \ {p.lhs}
      /\ \A f \in Fields : RefsOf(p)[f] # Null => RefsOf(p)[f] # old
  <2>1. p.arg \in 1 .. n /\ Upgradable(p.lhs, n, p.arg, RefsOf(p))
      BY <1>2, UpgradesArgument
  <2> QED BY <2>1, <1>1 DEF Upgradable
<1>4. /\ old \in Addr
      /\ Len(yyvs) - n + p.arg \in 1 .. Len(yyvs) /\ yyvs[Len(yyvs) - n + p.arg] = old
  <2>1. \A i \in 1 .. n : /\ Len(yyvs) - n + i \in 1 .. Len(yyvs)
                          /\ Arg(n, i) = yyvs[Len(yyvs) - n + i]
                          /\ Arg(n, i) \in Addr \cup {Null}
      BY <1>2, Arguments
  <2> HIDE DEF n
  <2> QED BY <2>1, <1>1, <1>3
<1>5. /\ p.lhs \in Types /\ node[old].type \in Types
      /\ Layers[node[old].type] \subseteq Layers[p.lhs]
      /\ Unset \notin Types /\ Free \notin Types
  <2>1. p.lhs \in Types
      BY ParserAssumption DEF ProductionOK
  <2> QED BY <2>1, <1>3, TopAssumption, FittingAssumption, StoreAssumption
<1>6. a \in Addr
    BY <1>4 DEF Grown, Fresh
<1>7. /\ node'[a] = made
      /\ \A b \in Addr : b # a /\ b # old => node'[b] = node[b]
      /\ old # a => node'[old] = FreeNode
  <2> HIDE DEF made, old
  <2> QED BY <1>1, <1>2, <1>4, <1>6
<1>8. made.type = p.lhs /\ made.refs = kept
    OBVIOUS
<1>9. \A f \in Fields : kept[f] = IF Place[f][1] \in Layers[node[old].type]
                                 THEN node[old].refs[f] ELSE RefsOf(p)[f]
    BY DEF Copied
<1> HIDE DEF made, kept, old, n
<1>10. ASSUME NEW b \in Addr, node[b].type # Free, NEW f \in Fields, node[b].refs[f] # Null
       PROVE  node'[node[b].refs[f]] = node[node[b].refs[f]]
  <2>1. node[b].refs[f] \in Addr /\ node[node[b].refs[f]].type # Free
      BY <1>2, <1>10 DEF RefsLive, Live, Nodes
  <2>2. node[b].refs[f] # old
      BY <1>2, <1>4, <1>5, <1>10 DEF OffStack, Live
  <2> QED BY <2>1, <2>2, <1>1, <1>7
<1>11. ASSUME NEW f \in Fields, kept[f] # Null
       PROVE  <<p.lhs, f>> \in Owning /\ <<f, Kind(node'[kept[f]])>> \in Leading
  <2>1. CASE Place[f][1] \in Layers[node[old].type]
    <3>1. kept[f] = node[old].refs[f] /\ node[old].type # Free
        BY <2>1, <1>5, <1>9
    <3>2. <<node[old].type, f>> \in Owning /\ <<f, Kind(node[node[old].refs[f]])>> \in Leading
        BY <3>1, <1>2, <1>4, <1>11 DEF FitsSchema, Kind
    <3>3. <<p.lhs, f>> \in Owning
        BY <2>1, <1>5 DEF Owning
    <3>4. node'[kept[f]] = node[node[old].refs[f]]
        BY <3>1, <1>4, <1>10, <1>11
    <3> QED BY <3>2, <3>3, <3>4
  <2>2. CASE Place[f][1] \notin Layers[node[old].type]
    <3>1. kept[f] = RefsOf(p)[f]
        BY <2>2, <1>9
    <3>2. /\ <<p.lhs, f>> \in Owning /\ <<f, Kind(node[RefsOf(p)[f]])>> \in Leading
          /\ RefsOf(p)[f] \in Addr /\ node[RefsOf(p)[f]].type # Free
        BY <3>1, <1>2, <1>11, RefsFit
    <3>3. node'[RefsOf(p)[f]] = node[RefsOf(p)[f]]
        BY <3>1, <3>2, <1>1, <1>3, <1>7, <1>11
    <3> QED BY <3>1, <3>2, <3>3
  <2> QED BY <2>1, <2>2
<1>12. node'[a].type = p.lhs /\ node'[a].refs = kept
    BY <1>7, <1>8
<1>13. \A b \in Addr : b # a =>
          \/ node'[b].type = Free
          \/ /\ node'[b] = node[b]
             /\ node[b].type # Free => \A f \in Fields : node[b].refs[f] # Null =>
                   node'[node[b].refs[f]] = node[node[b].refs[f]]
    BY <1>7, <1>10 DEF FreeNode
<1> QED BY <1>2, <1>6, <1>11, <1>12, <1>13, StillFits

\* A new string holds nothing, and nobody points to it yet.
LEMMA InternFits ==
    ASSUME TreeInv, NEW p \in Productions, Intern(p)
    PROVE  FitsSchema'
<1>1. PICK a \in Fresh : intern_string(a, yytext)
    BY DEF Intern
<1>2. /\ node[a].type = Free /\ a \in Addr
      /\ node' = [node EXCEPT ![a] = [type |-> Unset, text |-> yytext, refs |-> NoRefs]]
    BY <1>1 DEF intern_string, Fresh
<1>3. node \in [Addr -> Nodes] /\ RefsLive /\ FitsSchema
    BY DEF TreeInv, ParserInv, StoreInv, StoreOK, Nodes
<1>4. \A b \in Addr : b # a => node'[b] = node[b]
    BY <1>2, <1>3
<1>5. \A f \in Fields : node'[a].refs[f] = Null
    BY <1>2, <1>3 DEF NoRefs
<1>6. ASSUME NEW b \in Addr, b # a, node[b].type # Free, NEW f \in Fields,
             node[b].refs[f] # Null
      PROVE  node'[node[b].refs[f]] = node[node[b].refs[f]]
  <2>1. node[b].refs[f] \in Addr /\ node[b].refs[f] # a
      BY <1>2, <1>3, <1>6 DEF RefsLive, Live, Nodes
  <2> QED BY <2>1, <1>4
<1> QED BY <1>2, <1>3, <1>4, <1>5, <1>6, StillFits

-----------------------------------------------------------------------------
\* The heap is empty at first.
LEMMA TreeInit == Init => TreeInv
<1> SUFFICES ASSUME Init PROVE TreeInv
    OBVIOUS
<1>1. ParserInv
    BY ParserInit
<1>2. \A a \in Addr : node[a].type = Free
    BY DEF Init, InitStore, FreeNode
<1> QED BY <1>1, <1>2 DEF TreeInv, FitsSchema

\* Every step keeps the tree fitting: those that make no node leave all nodes alone.
LEMMA TreeStep == TreeInv /\ [Next]_vars => TreeInv'
<1> SUFFICES ASSUME TreeInv, [Next]_vars PROVE TreeInv'
    OBVIOUS
<1>1. ParserInv'
    BY ParserStep DEF TreeInv
<1>2. ASSUME node' = node PROVE FitsSchema'
    BY <1>2 DEF TreeInv, FitsSchema
<1>3. ASSUME NEW p \in Productions, Reduce(p) PROVE FitsSchema'
  <2>1. Act(p)
      BY <1>3 DEF Reduce
  <2>2. CASE p.op = "value" /\ Value(Len(p.rhs))
      BY <2>2, <1>2 DEF Value
  <2>3. CASE p.op = "NN" /\ \E a \in Fresh : NN(a, p.lhs, TextOf(p), Len(p.rhs), RefsOf(p))
    <3>1. p.lhs \in Types
        BY <2>3, ParserAssumption DEF ProductionOK
    <3> QED BY <3>1, <2>3, <1>3, NNFits
  <2>4. CASE p.op = "UN" /\ \E a \in Grown(Arg(Len(p.rhs), p.arg)) :
                                UN(a, p.lhs, Len(p.rhs), p.arg, RefsOf(p))
      BY <2>4, <1>3, UNFits
  <2> QED BY <2>1, <2>2, <2>3, <2>4 DEF Act
<1>4. ASSUME NEW p \in Productions, Intern(p) PROVE FitsSchema'
    BY <1>4, InternFits
<1>5. ASSUME Setup \/ Lex \/ Shift \/ Return \/ Walk \/ NoWalk \/ Teardown \/ UNCHANGED vars
      PROVE  FitsSchema'
  <2>1. node' = node
      BY <1>5 DEF Setup, Lex, Shift, Return, Walk, NoWalk, Teardown, vars, storeVars,
                  parser_setup, parser_teardown, Value, Abandon
  <2> QED BY <2>1, <1>2
<1>6. FitsSchema'
    BY <1>3, <1>4, <1>5, Zenon DEF Next
<1> QED BY <1>1, <1>6 DEF TreeInv

\* A walk of what the parser has built finds at every pointer what ast.xi says is there,
\* for every grammar whose productions fit one by one, every source, and wherever realloc
\* moves nodes to.
THEOREM TreeAlwaysFits == Spec => []FitsSchema
<1>1. TreeInv => FitsSchema
    BY DEF TreeInv
<1> QED BY <1>1, TreeInit, TreeStep, PTL DEF Spec

-----------------------------------------------------------------------------
(***************************************************************************)
(* Nothing but pointers is lost.                                           *)
(***************************************************************************)
KeptInv == TreeInv /\ OnlyPointersLost

\* What is held stays held, unless it was a popped argument or a field of a node that
\* has been given back.
LEMMA StillHeld ==
    ASSUME NEW n \in Nat, n <= Len(yyvs), yyvs \in Seq(Addr \cup {Null}),
           NEW v \in Addr \cup {Null}, Push(n, v),
           NEW c \in Addr, Held(c),
           \A i \in 1 .. n : Arg(n, i) # c,
           \A b \in Addr : node[b].type # Free => \A f \in Fields : node[b].refs[f] = c =>
              \E d \in Addr : node'[d].type # Free /\ node'[d].refs[f] = c
    PROVE  Held(c)'
<1>1. CASE \E b \in Addr : node[b].type # Free /\ \E f \in Fields : node[b].refs[f] = c
    BY <1>1 DEF Held
<1>2. ASSUME NEW k \in DOMAIN yyvs, yyvs[k] = c PROVE Held(c)'
  <2>1. k \in 1 .. Len(yyvs)
      BY <1>2
  <2>2. k \in 1 .. Len(yyvs) - n
    <3>1. SUFFICES ASSUME k > Len(yyvs) - n PROVE FALSE
        BY <2>1
    <3>2. k - (Len(yyvs) - n) \in 1 .. n
        BY <2>1, <3>1
    <3>3. Arg(n, k - (Len(yyvs) - n)) = yyvs[k]
        BY <2>1 DEF Arg
    <3> QED BY <1>2, <3>2, <3>3
  <2>3. yyvs' = Append(SubSeq(yyvs, 1, Len(yyvs) - n), v)
      BY DEF Push
  <2>4. k \in DOMAIN yyvs' /\ yyvs'[k] = yyvs[k]
      BY <2>2, <2>3
  <2> QED BY <1>2, <2>4 DEF Held
<1> QED BY <1>1, <1>2 DEF Held

\* What is pushed is held.
LEMMA PushedHeld ==
    ASSUME NEW n \in Nat, n <= Len(yyvs), yyvs \in Seq(Addr \cup {Null}),
           NEW v \in Addr \cup {Null}, Push(n, v)
    PROVE  Held(v)'
<1>1. yyvs' = Append(SubSeq(yyvs, 1, Len(yyvs) - n), v)
    BY DEF Push
<1>2. Len(yyvs') \in DOMAIN yyvs' /\ yyvs'[Len(yyvs')] = v
    BY <1>1
<1> QED BY <1>2 DEF Held

\* The arguments of an action, if they are nodes, are in the new node: they are used.
LEMMA ArgumentUsed ==
    ASSUME ParserInv, NEW p \in Productions, Handle(p), NEW i \in 1 .. Len(p.rhs),
           NEW c \in Addr, Arg(Len(p.rhs), i) = c, node[c].type # "pointer",
           ~(p.op = "UN" /\ p.arg = i)
    PROVE  p.op # "value" /\ \E f \in Fields : f \in DOMAIN p.refs /\ RefsOf(p)[f] = c
<1>1. c # Null
    BY StoreAssumption
<1>2. node[c].type \in Types /\ node[c].type = p.rhs[i]
    BY <1>1, Arguments
<1>3. p.op # "value" /\ \E f \in DOMAIN p.refs : p.refs[f] = i
    BY <1>2, KeepingAssumption DEF Keeps
<1>4. PICK f \in DOMAIN p.refs : p.refs[f] = i
    BY <1>3
<1>5. f \in Fields /\ Len(p.rhs) \in Nat
    BY ParserAssumption DEF ProductionOK
<1>6. RefsOf(p)[f] = c
    BY <1>4, <1>5 DEF RefsOf
<1> QED BY <1>3, <1>5, <1>6

\* An enumerator's value is made of tokens.
LEMMA ValueKeeps ==
    ASSUME KeptInv, pc = "parse", NEW p \in Productions, Reduce(p), p.op = "value",
           Value(Len(p.rhs))
    PROVE  OnlyPointersLost'
<1>1. /\ Handle(p) /\ ParserInv /\ OnlyPointersLost /\ node' = node
      /\ Push(Len(p.rhs), Null) /\ yyvs \in Seq(Addr \cup {Null})
    BY DEF Reduce, Ready, KeptInv, TreeInv, ParserInv, StoreInv, StoreOK, Value
<1>2. Len(p.rhs) \in Nat /\ Len(p.rhs) <= Len(yyvs)
    BY <1>1, Arguments
<1> SUFFICES ASSUME NEW c \in Addr, node[c].type \notin {Free, Unset, "pointer"}
             PROVE  Held(c)'
    BY <1>1 DEF OnlyPointersLost
<1>3. Held(c)
    BY <1>1 DEF OnlyPointersLost
<1>4. \A i \in 1 .. Len(p.rhs) : Arg(Len(p.rhs), i) # c
    BY <1>1, ArgumentUsed
<1> QED BY <1>1, <1>2, <1>3, <1>4, StillHeld

\* A new node is pushed, and holds the arguments.
LEMMA NNKeeps ==
    ASSUME KeptInv, pc = "parse", NEW p \in Productions, Reduce(p), p.op = "NN",
           NEW a \in Fresh, NN(a, p.lhs, TextOf(p), Len(p.rhs), RefsOf(p))
    PROVE  OnlyPointersLost'
<1>1. /\ Handle(p) /\ ParserInv /\ OnlyPointersLost /\ yyvs \in Seq(Addr \cup {Null})
      /\ node \in [Addr -> Nodes] /\ a \in Addr /\ p.lhs # Free
  <2>1. p.lhs \in Types
      BY ParserAssumption DEF ProductionOK
  <2> QED BY <2>1, StoreAssumption DEF Reduce, Ready, KeptInv, TreeInv, ParserInv, StoreInv,
                                       StoreOK, Nodes, Fresh
<1>2. Len(p.rhs) \in Nat /\ Len(p.rhs) <= Len(yyvs)
    BY <1>1, Arguments
<1>3. /\ node[a].type = Free /\ Push(Len(p.rhs), a)
      /\ node' = [node EXCEPT ![a] = [type |-> p.lhs, text |-> TextOf(p), refs |-> RefsOf(p)]]
    BY Zenon DEF NN, Allocated
<1>4. /\ \A b \in Addr : b # a => node'[b] = node[b]
      /\ node'[a].type = p.lhs /\ node'[a].refs = RefsOf(p)
    BY <1>1, <1>3
<1> SUFFICES ASSUME NEW c \in Addr, node'[c].type \notin {Free, Unset, "pointer"}
             PROVE  Held(c)'
    BY DEF OnlyPointersLost
<1>5. CASE c = a
    BY <1>1, <1>2, <1>3, <1>5, PushedHeld
<1>6. CASE c # a
  <2>1. node[c].type \notin {Free, Unset, "pointer"} /\ Held(c)
      BY <1>1, <1>4, <1>6 DEF OnlyPointersLost
  <2>2. CASE \E i \in 1 .. Len(p.rhs) : Arg(Len(p.rhs), i) = c
    <3>1. \E f \in Fields : RefsOf(p)[f] = c
        BY <1>1, <2>1, <2>2, ArgumentUsed
    <3> QED BY <3>1, <1>1, <1>4 DEF Held
  <2>3. CASE \A i \in 1 .. Len(p.rhs) : Arg(Len(p.rhs), i) # c
    <3>1. \A b \in Addr : node[b].type # Free => node'[b] = node[b]
        BY <1>3, <1>4
    <3>2. ASSUME NEW b \in Addr, node[b].type # Free, NEW f \in Fields, node[b].refs[f] = c
          PROVE  \E d \in Addr : node'[d].type # Free /\ node'[d].refs[f] = c
        BY <3>1, <3>2
    <3> QED BY <1>1, <1>2, <1>3, <2>1, <2>3, <3>2, StillHeld
  <2> QED BY <2>2, <2>3
<1> QED BY <1>5, <1>6

\* An upgraded node is pushed, and holds what the old one held and the other arguments.
LEMMA UNKeeps ==
    ASSUME KeptInv, pc = "parse", NEW p \in Productions, Reduce(p), p.op = "UN",
           NEW a \in Grown(Arg(Len(p.rhs), p.arg)),
           UN(a, p.lhs, Len(p.rhs), p.arg, RefsOf(p))
    PROVE  OnlyPointersLost'
<1> DEFINE n == Len(p.rhs)
           old == Arg(n, p.arg)
           kept == Copied(old, RefsOf(p))
           made == [type |-> p.lhs, text |-> node[old].text, refs |-> kept]
<1>1. /\ Handle(p) /\ ParserInv /\ OnlyPointersLost /\ yyvs \in Seq(Addr \cup {Null})
      /\ node \in [Addr -> Nodes] /\ FitsSchema
    BY DEF Reduce, Ready, KeptInv, TreeInv, ParserInv, StoreInv, StoreOK, Nodes
<1>2. /\ p.lhs \in Types /\ p.lhs # Free /\ Free \notin Types
      /\ p.arg \in 1 .. n /\ p.rhs[p.arg] \in Types
  <2>1. p.lhs \in Types /\ p.arg \in 1 .. n /\ p.rhs[p.arg] \in Layers[p.lhs]
      BY ParserAssumption DEF ProductionOK
  <2> QED BY <2>1, StoreAssumption, TopAssumption
<1>3. /\ n \in Nat /\ n <= Len(yyvs)
      /\ old \in Addr /\ node[old].type = p.rhs[p.arg]
  <2>1. /\ n \in Nat /\ n <= Len(yyvs)
        /\ \A i \in 1 .. n : /\ Arg(n, i) \in Addr \cup {Null}
                             /\ p.rhs[i] \in Types => /\ Arg(n, i) # Null
                                                      /\ node[Arg(n, i)].type = p.rhs[i]
      BY ZenonT(60), <1>1, Arguments
  <2> HIDE DEF n
  <2> QED BY <2>1, <1>2
<1>4. /\ a = old \/ node[a].type = Free
      /\ node' = [node EXCEPT ![old] = FreeNode, ![a] = made]
      /\ Push(n, a)
    BY Zenon DEF UN
<1>5. a \in Addr
    BY <1>3 DEF Grown, Fresh
<1>6. /\ node'[a] = made
      /\ \A b \in Addr : b # a /\ b # old => node'[b] = node[b]
      /\ old # a => node'[old] = FreeNode
  <2> HIDE DEF made, old
  <2> QED BY <1>1, <1>3, <1>4, <1>5
<1>7. made.type = p.lhs /\ made.refs = kept
    OBVIOUS
<1>8. \A f \in Fields : kept[f] = IF Place[f][1] \in Layers[node[old].type]
                                 THEN node[old].refs[f] ELSE RefsOf(p)[f]
    BY DEF Copied
<1>9. ASSUME NEW i \in 1 .. n, i # p.arg, NEW c \in Addr, Arg(n, i) = c,
             node[c].type # "pointer"
      PROVE  \E f \in Fields : kept[f] = c
  <2>1. PICK f \in Fields : f \in DOMAIN p.refs /\ RefsOf(p)[f] = c
      BY <1>1, <1>9, ArgumentUsed
  <2>2. Place[f][1] \notin Layers[node[old].type]
      BY <2>1, <1>3, KeepingAssumption DEF Keeps
  <2> QED BY <2>1, <2>2, <1>8
<1>10. ASSUME NEW f \in Fields, NEW c \in Addr, node[old].refs[f] = c
       PROVE  kept[f] = c
  <2>1. node[old].type # Free /\ c # Null
      BY <1>2, <1>3, StoreAssumption
  <2>2. <<node[old].type, f>> \in Owning
      BY <2>1, <1>1, <1>3, <1>10 DEF FitsSchema
  <2>3. Place[f][1] \in Layers[node[old].type]
      BY <2>2 DEF Owning
  <2> QED BY <2>3, <1>8, <1>10
<1> HIDE DEF made, kept, old, n
<1> SUFFICES ASSUME NEW c \in Addr, node'[c].type \notin {Free, Unset, "pointer"}
             PROVE  Held(c)'
    BY DEF OnlyPointersLost
<1>11. CASE c = a
    BY <1>1, <1>3, <1>4, <1>5, <1>11, PushedHeld
<1>12. CASE c # a
  <2>1. c # old
      BY <1>6, <1>12 DEF FreeNode
  <2>2. node[c].type \notin {Free, Unset, "pointer"} /\ Held(c)
      BY <2>1, <1>1, <1>6, <1>12 DEF OnlyPointersLost
  <2>3. CASE \E i \in 1 .. n : Arg(n, i) = c
    <3>1. \E f \in Fields : kept[f] = c
        BY <2>1, <2>2, <2>3, <1>9 DEF old
    <3> QED BY <3>1, <1>2, <1>5, <1>6, <1>7 DEF Held
  <2>4. CASE \A i \in 1 .. n : Arg(n, i) # c
    <3>1. ASSUME NEW b \in Addr, node[b].type # Free, NEW f \in Fields, node[b].refs[f] = c
          PROVE  \E d \in Addr : node'[d].type # Free /\ node'[d].refs[f] = c
      <4>1. CASE b = old
        <5>1. node'[a].refs[f] = c /\ node'[a].type # Free
            BY <3>1, <4>1, <1>2, <1>6, <1>7, <1>10
        <5> QED BY <5>1, <1>5
      <4>2. CASE b # old
          BY <3>1, <4>2, <1>4, <1>6
      <4> QED BY <4>1, <4>2
    <3> QED BY <1>1, <1>3, <1>4, <1>5, <2>2, <2>4, <3>1, StillHeld
  <2> QED BY <2>3, <2>4
<1> QED BY <1>11, <1>12

\* A new string takes nothing away.
LEMMA InternKeeps ==
    ASSUME KeptInv, pc = "parse", NEW p \in Productions, Intern(p)
    PROVE  OnlyPointersLost'
<1>1. PICK a \in Fresh : intern_string(a, yytext)
    BY DEF Intern
<1>2. /\ node[a].type = Free /\ a \in Addr /\ yyvs' = yyvs
      /\ node' = [node EXCEPT ![a] = [type |-> Unset, text |-> yytext, refs |-> NoRefs]]
      /\ node \in [Addr -> Nodes] /\ OnlyPointersLost
    BY <1>1 DEF intern_string, Fresh, KeptInv, TreeInv, ParserInv, StoreInv, StoreOK, Nodes
<1>3. /\ \A b \in Addr : b # a => node'[b] = node[b]
      /\ node'[a].type = Unset
    BY <1>2
<1> SUFFICES ASSUME NEW c \in Addr, node'[c].type \notin {Free, Unset, "pointer"}
             PROVE  Held(c)'
    BY DEF OnlyPointersLost
<1>4. node[c].type \notin {Free, Unset, "pointer"}
    BY <1>3
<1>5. Held(c)
    BY <1>2, <1>4 DEF OnlyPointersLost
<1> QED BY <1>2, <1>3, <1>5 DEF Held

\* A shift leaves the values where they are.
LEMMA ShiftKeeps ==
    ASSUME KeptInv, Shift
    PROVE  OnlyPointersLost'
<1>1. /\ yyvs \in Seq(Addr \cup {Null}) /\ OnlyPointersLost /\ pc = "parse"
      /\ node' = node /\ Push(0, Null)
    BY DEF Shift, Value, KeptInv, TreeInv, ParserInv, StoreInv, StoreOK
<1> SUFFICES ASSUME NEW c \in Addr, node[c].type \notin {Free, Unset, "pointer"}
             PROVE  Held(c)'
    BY <1>1 DEF OnlyPointersLost
<1>2. Held(c)
    BY <1>1 DEF OnlyPointersLost
<1>3. 0 \in Nat /\ 0 <= Len(yyvs) /\ \A i \in 1 .. 0 : Arg(0, i) # c
    BY <1>1
<1> QED BY <1>1, <1>2, <1>3, StillHeld

\* The heap is empty at first.
LEMMA KeptInit == Init => KeptInv
<1> SUFFICES ASSUME Init PROVE KeptInv
    OBVIOUS
<1>1. pc # "parse"
    BY DEF Init
<1> QED BY <1>1, TreeInit DEF KeptInv, OnlyPointersLost

\* Every step of a parse keeps what is held; what follows the parse does not matter.
LEMMA KeptStep == KeptInv /\ [Next]_vars => KeptInv'
<1> SUFFICES ASSUME KeptInv, [Next]_vars PROVE KeptInv'
    OBVIOUS
<1>1. TreeInv'
    BY TreeStep DEF KeptInv
<1>2. ASSUME NEW p \in Productions, Reduce(p) PROVE OnlyPointersLost'
  <2>1. Act(p) /\ pc = "parse"
      BY <1>2 DEF Reduce
  <2>2. CASE p.op = "value" /\ Value(Len(p.rhs))
      BY <2>1, <2>2, <1>2, ValueKeeps
  <2>3. CASE p.op = "NN" /\ \E a \in Fresh : NN(a, p.lhs, TextOf(p), Len(p.rhs), RefsOf(p))
      BY <2>1, <2>3, <1>2, NNKeeps
  <2>4. CASE p.op = "UN" /\ \E a \in Grown(Arg(Len(p.rhs), p.arg)) :
                                UN(a, p.lhs, Len(p.rhs), p.arg, RefsOf(p))
      BY <2>1, <2>4, <1>2, UNKeeps
  <2> QED BY <2>1, <2>2, <2>3, <2>4 DEF Act
<1>3. ASSUME NEW p \in Productions, Intern(p) PROVE OnlyPointersLost'
    BY <1>3, InternKeeps DEF Intern
<1>4. ASSUME Shift PROVE OnlyPointersLost'
    BY <1>4, ShiftKeeps
<1>5. ASSUME Setup PROVE OnlyPointersLost'
  <2>1. ps = "none" /\ node' = node /\ NothingYet
      BY <1>5 DEF Setup, parser_setup, KeptInv, TreeInv, ParserInv, StoreInv
  <2>2. \A c \in Addr : node'[c].type = Free
      BY <2>1 DEF NothingYet, Live
  <2> QED BY <2>2 DEF OnlyPointersLost
<1>6. ASSUME Lex \/ UNCHANGED vars PROVE OnlyPointersLost'
  <2>1. node' = node /\ yyvs' = yyvs /\ pc' = pc
      BY <1>6 DEF Lex, vars, storeVars
  <2> QED BY <2>1 DEF KeptInv, OnlyPointersLost, Held
<1>7. ASSUME Return \/ Walk \/ NoWalk \/ Teardown PROVE OnlyPointersLost'
  <2>1. pc' # "parse"
      BY <1>7 DEF Return, Walk, Printing, NoWalk, Teardown
  <2> QED BY <2>1 DEF OnlyPointersLost
<1>8. OnlyPointersLost'
    BY <1>2, <1>3, <1>4, <1>5, <1>6, <1>7, Zenon DEF Next
<1> QED BY <1>1, <1>8 DEF KeptInv

\* While the parse goes on nothing is lost but the pointers of declarators: for every
\* grammar whose actions use their arguments, every source, and wherever nodes move to.
THEOREM NothingElseLost == Spec => []OnlyPointersLost
<1>1. KeptInv => OnlyPointersLost
    BY DEF KeptInv
<1> QED BY <1>1, KeptInit, KeptStep, PTL DEF Spec

-----------------------------------------------------------------------------
(***************************************************************************)
(* Types.  That the table of type names holds names only is what needs an  *)
(* argument: add_typenames follows `left' and `id' without looking at what *)
(* it comes to.  It comes to live nodes since the tree has no cycle        *)
(* (Ranked), along `id' to an identifier since the tree fits its schema,   *)
(* and identifiers have names.                                             *)
(***************************************************************************)
HasName(n) == n.type = Unset \/ <<IdField, n.type>> \in Leading => n.text \in Texts
NamesInv == \A a \in Addr : HasName(node[a])

TypesInv ==
    /\ TreeInv /\ Ranked /\ NamesInv
    /\ pc \in {"start", "parse", "parsed", "walked", "done", "crashed", "aborted", "stopped"}
    /\ la = None \/ la.text \in Texts
    /\ types_hash = None \/ types_hash \subseteq Texts
    /\ pc = "parse" => types_hash \subseteq Texts

\* h is what the recursion of Heads asks for.
FollowsLeft(h) ==
    h = [a \in Addr \cup {Null} |->
            IF a = Null THEN {} ELSE {a} \cup h[node[a].refs[LeftField]]]

\* There is such a function, whatever the nodes hold: the least one.
LEMMA LeftFollowed ==
    ASSUME node \in [Addr -> Nodes]
    PROVE  \E h : FollowsLeft(h)
<1> DEFINE next(a) == node[a].refs[LeftField]
           Whole(S) == \A a \in S : next(a) # Null => next(a) \in S
           Reached(a) == {b \in Addr : \A S \in SUBSET Addr : a \in S /\ Whole(S) => b \in S}
           h == [a \in Addr \cup {Null} |-> IF a = Null THEN {} ELSE Reached(a)]
<1>1. \A a \in Addr : next(a) \in Addr \cup {Null}
    BY ParserAssumption DEF Nodes
<1> HIDE DEF next
<1>2. ASSUME NEW a \in Addr PROVE Reached(a) = {a} \cup h[next(a)]
  <2>1. ASSUME NEW b \in h[next(a)] PROVE b \in Reached(a)
    <3>1. next(a) # Null /\ b \in Reached(next(a))
        BY <1>1, <2>1
    <3> QED BY <3>1
  <2>2. a \in Reached(a)
      OBVIOUS
  <2>3. ASSUME NEW b \in Reached(a), b # a PROVE b \in h[next(a)]
    <3>1. CASE next(a) = Null
      <4>1. Whole({a})
          BY <3>1
      <4> QED BY <4>1, <2>3
    <3>2. CASE next(a) # Null
      <4> SUFFICES ASSUME NEW S \in SUBSET Addr, next(a) \in S, Whole(S) PROVE b \in S
          BY <1>1, <3>2
      <4>1. Whole(S \cup {a})
          OBVIOUS
      <4>2. b \in S \cup {a}
          BY <4>1, <2>3
      <4> QED BY <4>2, <2>3
    <3> QED BY <3>1, <3>2
  <2> QED BY <2>1, <2>2, <2>3
<1>3. h = [a \in Addr \cup {Null} |-> IF a = Null THEN {} ELSE {a} \cup h[next(a)]]
    BY <1>2, StoreAssumption
<1>4. FollowsLeft(h)
    BY <1>3, Zenon DEF FollowsLeft, next
<1> QED BY <1>4

\* So Heads is one.
LEMMA HeadsAre ==
    ASSUME node \in [Addr -> Nodes]
    PROVE  /\ Heads[Null] = {}
           /\ \A a \in Addr : Heads[a] = {a} \cup Heads[node[a].refs[LeftField]]
<1>1. FollowsLeft(Heads)
  <2>1. \E h : h = [a \in Addr \cup {Null} |->
                       IF a = Null THEN {} ELSE {a} \cup h[node[a].refs[LeftField]]]
      BY LeftFollowed DEF FollowsLeft
  <2> QED BY <2>1, Zenon DEF Heads, FollowsLeft
<1> HIDE DEF Heads
<1> QED BY <1>1, StoreAssumption DEF FollowsLeft

\* In a tree, Heads holds live nodes only.
LEMMA HeadsLive ==
    ASSUME StoreInv, Ranked, NEW a \in Addr, Live(a)
    PROVE  Heads[a] \subseteq {b \in Addr : Live(b)}
<1>1. node \in [Addr -> Nodes] /\ RefsLive
    BY DEF StoreInv, StoreOK, Nodes
<1>2. PICK n \in Nat : \E rank : Ranking(rank, n)
    BY DEF Ranked
<1>3. PICK rank : Ranking(rank, n)
    BY <1>2
<1> DEFINE next(b) == node[b].refs[LeftField]
           Lives == {b \in Addr : Live(b)}
           Good == {k \in Nat : \A b \in Lives : rank[b] < k => Heads[b] \subseteq Lives}
<1>4. \A b \in Lives :
          /\ Heads[b] = {b} \cup Heads[next(b)]
          /\ rank[b] \in Nat
          /\ next(b) # Null => next(b) \in Lives /\ rank[next(b)] < rank[b]
  <2>1. \A b \in Addr : next(b) \in Addr \cup {Null}
      BY <1>1, ParserAssumption DEF Nodes
  <2>2. \A b \in Lives : next(b) # Null => Live(next(b))
      BY <1>1, ParserAssumption DEF RefsLive
  <2>3. rank \in [Addr -> 0 .. n]
        /\ \A b \in Lives : next(b) # Null => rank[next(b)] < rank[b]
      BY <1>3, ParserAssumption DEF Ranking
  <2>4. \A b \in Lives : Heads[b] = {b} \cup Heads[next(b)]
      BY <1>1, HeadsAre
  <2>5. \A b \in Lives : rank[b] \in Nat
    <3> SUFFICES ASSUME NEW b \in Lives PROVE rank[b] \in Nat
        OBVIOUS
    <3> HIDE DEF Good
    <3>1. rank[b] \in 0 .. n /\ n \in Nat
        BY <1>2, <2>3
    <3> HIDE DEF Lives
    <3> QED BY <3>1
  <2> HIDE DEF Heads, next
  <2>6. \A b \in Lives : next(b) # Null => next(b) \in Lives /\ rank[next(b)] < rank[b]
      BY <2>1, <2>2, <2>3
  <2> HIDE DEF Lives
  <2> QED BY <2>4, <2>5, <2>6
<1>5. Heads[Null] = {}
    BY <1>1, HeadsAre
<1> HIDE DEF Heads, next
<1>6. 0 \in Good
    BY <1>4
<1>7. ASSUME NEW k \in Good PROVE k + 1 \in Good
  <2> SUFFICES ASSUME NEW b \in Lives, rank[b] < k + 1 PROVE Heads[b] \subseteq Lives
      OBVIOUS
  <2>1. CASE next(b) = Null
      BY <2>1, <1>4, <1>5
  <2>2. CASE next(b) # Null
    <3>1. rank[next(b)] < k
        BY <2>2, <1>4
    <3>2. Heads[next(b)] \subseteq Lives
        BY <3>1, <2>2, <1>4
    <3> QED BY <3>2, <1>4
  <2> QED BY <2>1, <2>2
<1>8. Good = Nat
  <2> HIDE DEF Good
  <2>1. Good \in SUBSET Nat
      BY DEF Good
  <2> QED BY <2>1, <1>6, <1>7, Induction
<1>9. rank[a] + 1 \in Good
    BY <1>4, <1>8
<1> QED BY <1>9, <1>4

\* One argument, by itself.
LEMMA TheArgument ==
    ASSUME ParserInv, NEW p \in Productions, Handle(p), NEW i \in 1 .. Len(p.rhs)
    PROVE  /\ Len(yyvs) - Len(p.rhs) + i \in 1 .. Len(yyvs)
           /\ Arg(Len(p.rhs), i) = yyvs[Len(yyvs) - Len(p.rhs) + i]
           /\ Arg(Len(p.rhs), i) \in Addr \cup {Null}
<1> DEFINE n == Len(p.rhs)
<1>1. n = Len(p.rhs)
    OBVIOUS
<1> HIDE DEF n
<1>2. \A j \in 1 .. n : /\ Len(yyvs) - n + j \in 1 .. Len(yyvs)
                         /\ Arg(n, j) = yyvs[Len(yyvs) - n + j]
                         /\ Arg(n, j) \in Addr \cup {Null}
    BY ZenonT(60), <1>1, Arguments
<1> QED BY <1>1, <1>2

\* What add_typenames adds are names.
LEMMA NamesAdded ==
    ASSUME TreeInv, Ranked, NamesInv, NEW p \in Productions, Handle(p),
           types_hash \subseteq Texts, add_typenames(p)
    PROVE  types_hash' \subseteq Texts
<1>1. CASE ~IsTypedef(p)
    BY <1>1 DEF add_typenames
<1>2. CASE IsTypedef(p)
  <2> DEFINE heads == Heads[Arg(3, 2)]
             names == {node[node[h].refs[IdField]].text : h \in heads}
  <2>1. \/ types_hash' = types_hash
        \/ /\ \A h \in heads : node[h].refs[IdField] # Null
           /\ types_hash' = types_hash \cup names
      BY <1>2 DEF add_typenames
  <2>2. ParserInv /\ StoreInv /\ StackLive /\ node \in [Addr -> Nodes] /\ FitsSchema
      BY DEF TreeInv, ParserInv, StoreInv, StoreOK, Nodes
  <2>3. Len(p.rhs) = 3
      BY <1>2 DEF IsTypedef
  <2>4. Arg(3, 2) = Null \/ (Arg(3, 2) \in Addr /\ Live(Arg(3, 2)))
    <3>1. /\ Len(yyvs) - 3 + 2 \in 1 .. Len(yyvs) /\ Arg(3, 2) = yyvs[Len(yyvs) - 3 + 2]
          /\ Arg(3, 2) \in Addr \cup {Null}
      <4> HIDE DEF heads, names
      <4>1. ParserInv
          BY <2>2
      <4>2. 2 \in 1 .. Len(p.rhs)
          BY <2>3
      <4> QED BY <4>1, <4>2, <2>3, TheArgument
    <3> QED BY <3>1, <2>2, StoreAssumption DEF StackLive, Live
  <2>5. heads \subseteq {b \in Addr : Live(b)}
      BY <2>2, <2>4, HeadsAre, HeadsLive
  <2> HIDE DEF heads
  <2>6. ASSUME NEW h \in heads, node[h].refs[IdField] # Null
        PROVE  node[node[h].refs[IdField]].text \in Texts
    <3> DEFINE id == node[h].refs[IdField]
    <3>1. h \in Addr /\ Live(h) /\ id \in Addr
        BY <2>2, <2>5, <2>6, ParserAssumption DEF Nodes
    <3>2. node[id].type = Unset \/ <<IdField, node[id].type>> \in Leading
        BY <3>1, <2>2, <2>6, ParserAssumption DEF FitsSchema, Live
    <3> QED BY <3>1, <3>2 DEF NamesInv, HasName
  <2> QED BY <2>1, <2>6
<1> QED BY <1>1, <1>2

\* A reduction makes an identifier with a name or nothing that `id' may hold, and leaves
\* the other nodes' texts alone.
LEMMA ReduceKeepsNames ==
    ASSUME TypesInv, NEW p \in Productions, Reduce(p)
    PROVE  NamesInv'
<1>0. /\ NamesInv /\ node \in [Addr -> Nodes] /\ ParserInv /\ Handle(p) /\ Act(p)
    BY DEF TypesInv, TreeInv, ParserInv, StoreInv, StoreOK, Nodes, Reduce, Ready
<1>1. ASSUME NEW b \in Addr, node'[b] = node[b] PROVE HasName(node'[b])
    BY <1>0, <1>1 DEF NamesInv
<1>2. CASE p.op = "value" /\ Value(Len(p.rhs))
    BY <1>0, <1>2 DEF Value, NamesInv
<1>3. ASSUME p.op = "NN", NEW a \in Fresh, NN(a, p.lhs, TextOf(p), Len(p.rhs), RefsOf(p))
      PROVE  NamesInv'
  <2> DEFINE made == [type |-> p.lhs, text |-> TextOf(p), refs |-> RefsOf(p)]
  <2>1. node' = [node EXCEPT ![a] = made] /\ a \in Addr
      BY <1>3, Zenon DEF NN, Allocated, Fresh
  <2>2. made.type = p.lhs /\ made.text = TextOf(p)
      OBVIOUS
  <2> HIDE DEF made
  <2>3. p.lhs \in Types /\ p.lhs # Unset
      BY <1>3, ParserAssumption, StoreAssumption DEF ProductionOK
  <2>4. <<IdField, p.lhs>> \in Leading => TextOf(p) \in Texts
    <3>1. p.lhs = "identifier" => TextOf(p) \in {yytext, Typedef}
        BY DEF TextOf
    <3> QED BY <3>1, <1>0, NamingAssumption, ParserAssumption DEF ParserInv
  <2>5. HasName(made)
      BY <2>2, <2>3, <2>4 DEF HasName
  <2>6. ASSUME NEW b \in Addr PROVE HasName(node'[b])
      BY <2>1, <2>5, <1>0, <1>1
  <2> QED BY <2>6 DEF NamesInv
<1>4. ASSUME p.op = "UN", NEW a \in Grown(Arg(Len(p.rhs), p.arg)),
             UN(a, p.lhs, Len(p.rhs), p.arg, RefsOf(p))
      PROVE  NamesInv'
  <2> DEFINE old == Arg(Len(p.rhs), p.arg)
             made == [type |-> p.lhs, text |-> node[old].text, refs |-> Copied(old, RefsOf(p))]
  <2>1. node' = [node EXCEPT ![old] = FreeNode, ![a] = made]
      BY <1>4, Zenon DEF UN
  <2>2. made.type = p.lhs
      OBVIOUS
  <2> HIDE DEF made
  <2>3. p.lhs # Unset /\ <<IdField, p.lhs>> \notin Leading
      BY <1>4, NamingAssumption, ParserAssumption, StoreAssumption DEF ProductionOK
  <2>4. HasName(made)
      BY <2>2, <2>3 DEF HasName
  <2>5. <<IdField, Free>> \notin Leading /\ Free # Unset
      BY StoreAssumption DEF Leading
  <2>6. HasName(FreeNode)
      BY <2>5 DEF HasName, FreeNode
  <2> HIDE DEF old
  <2>7. ASSUME NEW b \in Addr PROVE HasName(node'[b])
      BY <2>1, <2>4, <2>6, <1>0, <1>1
  <2> QED BY <2>7 DEF NamesInv
<1> QED BY <1>0, <1>2, <1>3, <1>4 DEF Act

\* An interned string has its text.
LEMMA InternKeepsNames ==
    ASSUME TypesInv, NEW p \in Productions, Intern(p)
    PROVE  NamesInv'
<1>1. PICK a \in Fresh : intern_string(a, yytext)
    BY DEF Intern
<1> DEFINE made == [type |-> Unset, text |-> yytext, refs |-> NoRefs]
<1>2. node' = [node EXCEPT ![a] = made] /\ a \in Addr
    BY <1>1 DEF intern_string, Fresh
<1>3. NamesInv /\ node \in [Addr -> Nodes] /\ yytext \in Texts
    BY DEF TypesInv, TreeInv, ParserInv, StoreInv, StoreOK, Nodes
<1>4. HasName(made)
    BY <1>3 DEF HasName
<1> HIDE DEF made
<1>5. ASSUME NEW b \in Addr PROVE HasName(node'[b])
  <2>1. CASE b = a
      BY <2>1, <1>2, <1>3, <1>4
  <2>2. CASE b # a
      BY <2>2, <1>2, <1>3 DEF NamesInv
  <2> QED BY <2>1, <2>2
<1> QED BY <1>5 DEF NamesInv

\* The program begins with nothing in its tables.
LEMMA TypesInit == Init => TypesInv
<1> SUFFICES ASSUME Init PROVE TypesInv
    OBVIOUS
<1>1. TreeInv
    BY TreeInit
<1>2. InitStore /\ pc = "start" /\ la = None /\ types_hash = None
    BY DEF Init
<1>3. \A a \in Addr : node[a].type = Free
    BY <1>2 DEF InitStore, FreeNode
<1>4. <<IdField, Free>> \notin Leading /\ Free # Unset
    BY StoreAssumption DEF Leading
<1>5. NamesInv
    BY <1>3, <1>4 DEF NamesInv, HasName
<1>6. Ranked
  <2> DEFINE none == [a \in Addr |-> 0]
  <2>1. Ranking(none, 0)
      BY <1>3 DEF Ranking, Live
  <2> QED BY <2>1 DEF Ranked
<1> QED BY <1>1, <1>2, <1>5, <1>6 DEF TypesInv

\* Every step keeps the types, reductions those of the tables and all others what they
\* find.
LEMMA TypesStep == TypesInv /\ [Next]_vars => TypesInv'
<1> SUFFICES ASSUME TypesInv, [Next]_vars PROVE TypesInv'
    OBVIOUS
<1>0. TreeInv /\ Ranked /\ NamesInv /\ ParserInv /\ StoreInv
    BY DEF TypesInv, TreeInv, ParserInv
<1>1. TreeInv' /\ ParserInv'
    BY <1>0, TreeStep DEF TreeInv
<1>2. Ranked'
    BY <1>0, ParserStep, RankedStep
<1> DEFINE Rest ==
              /\ pc \in {"start", "parse", "parsed", "walked", "done", "crashed", "aborted", "stopped"}
              /\ la = None \/ la.text \in Texts
              /\ types_hash = None \/ types_hash \subseteq Texts
              /\ pc = "parse" => types_hash \subseteq Texts
<1>3. Rest
    BY DEF TypesInv
<1>4. ASSUME NEW p \in Productions, Reduce(p) PROVE NamesInv' /\ Rest'
  <2>1. NamesInv'
      BY <1>4, ReduceKeepsNames
  <2>2. pc = "parse" /\ Handle(p) /\ add_typenames(p) /\ la' = la
      BY <1>4 DEF Reduce, Ready
  <2>3. types_hash' \subseteq Texts
      BY <2>2, <1>0, <1>3, NamesAdded
  <2>4. pc' \in {"parse", "crashed"}
      BY <2>2 DEF add_typenames
  <2> QED BY <2>1, <2>2, <2>3, <2>4, <1>3
<1>5. ASSUME NEW p \in Productions, Intern(p) PROVE NamesInv' /\ Rest'
  <2>1. NamesInv'
      BY <1>5, InternKeepsNames
  <2>2. pc' = pc /\ la' = la /\ types_hash' = types_hash
      BY <1>5 DEF Intern, parserVars
  <2> QED BY <2>1, <2>2, <1>3
<1>6. ASSUME Setup \/ Lex \/ Shift \/ Return \/ Walk \/ NoWalk \/ Teardown \/ UNCHANGED vars
      PROVE  NamesInv' /\ Rest'
  <2>1. node' = node
      BY <1>6 DEF Setup, Lex, Shift, Return, Walk, NoWalk, Teardown, vars, storeVars,
                  parser_setup, parser_teardown, Value, Abandon
  <2>2. NamesInv'
      BY <2>1, <1>0 DEF NamesInv
  <2>3. CASE Lex
    <3>1. /\ pc' = pc /\ types_hash' = types_hash /\ la'.text = yytext'
        BY <2>3 DEF Lex
    <3>2. yytext' \in Texts
        BY <1>1 DEF ParserInv
    <3> QED BY <3>1, <3>2, <2>2, <1>3
  <2>4. CASE Setup
    <3>1. pc' = "parse" /\ la' = la /\ types_hash' \subseteq Texts
        BY <2>4, <1>3 DEF Setup
    <3> QED BY <3>1, <2>2, <1>3
  <2>5. CASE Shift \/ Return \/ Walk \/ NoWalk \/ Teardown \/ UNCHANGED vars
    <3>1. /\ la' = la \/ la' = None
          /\ types_hash' = types_hash \/ types_hash' = None
          /\ \/ pc' = pc /\ types_hash' = types_hash
             \/ pc' \in {"parsed", "walked", "done", "crashed", "aborted", "stopped"}
        BY <2>5 DEF Shift, Return, Walk, Printing, NoWalk, Teardown, vars, parserVars
    <3> QED BY <3>1, <2>2, <1>3
  <2> QED BY <1>6, <2>3, <2>4, <2>5
<1>7. NamesInv' /\ Rest'
    BY <1>4, <1>5, <1>6, Zenon DEF Next
<1> QED BY <1>1, <1>2, <1>7 DEF TypesInv

\* The program's variables have their types, whatever the source and wherever nodes move
\* to; the table of type names, that it holds names.
THEOREM ProgramTyped == Spec => []TypeOK
<1>1. TypesInv => TypeOK
  <2> SUFFICES ASSUME TypesInv PROVE TypeOK
      OBVIOUS
  <2>1. StoreOK /\ Len(syms) = Len(yyvs) /\ yytext \in Texts
      BY DEF TypesInv, TreeInv, ParserInv, StoreInv
  <2> QED BY <2>1 DEF TypesInv, TypeOK
<1> QED BY <1>1, TypesInit, TypesStep, PTL DEF Spec
=============================================================================
