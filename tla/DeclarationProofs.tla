------------------------- MODULE DeclarationProofs --------------------------
(***************************************************************************)
(* Proofs about what the whole program makes of a source, for every        *)
(* grammar that module Phrases admits.                                     *)
(*                                                                         *)
(* They need to know of which words each symbol on the stack is made, and  *)
(* that the stack has a shape in which the productions meet what they are  *)
(* meant for.  The parts: the shape; sources; words and symbols; type      *)
(* names; classes; what ends the program; and what the tree says.          *)
(***************************************************************************)
EXTENDS Phrases, ToycenProofs, SequenceTheorems

\* The symbol at place i of a stack.
At(st, i) == IF i = 0 THEN "bottom" ELSE st[i]

\* Specifiers on which something lies begin a declaration, and a declarator belongs
\* to one; otherwise every symbol lies on one that it may lie on.
ShapeOf(st) ==
    \A i \in 1 .. Len(st) :
        /\ <<At(st, i - 1), st[i]>> \in Beside
        /\ i < Len(st) =>
              /\ st[i] = "declaration_specifiers" => At(st, i - 1) \in Outermost
              /\ st[i] = "declarator" => At(st, i - 1) \in Specified

Shaped == ShapeOf(syms)

Stuck == ~\E p \in Productions : Ready(p)

-----------------------------------------------------------------------------
\* Symbols are phrases and tokens.
LEMMA SymbolsAre ==
    /\ Symbols = Phrases \cup Tokens
    /\ "bottom" \notin Symbols
    BY ShapeAssumption DEF Symbols, Phrases, Tokens

\* The last n symbols of the stack.
LEMMA HandleIs ==
    ASSUME syms \in Seq(Symbols), NEW p \in Productions
    PROVE  Handle(p) <=>
              /\ Len(p.rhs) <= Len(syms)
              /\ p.rhs = SubSeq(syms, Len(syms) - Len(p.rhs) + 1, Len(syms))
<1> DEFINE n == Len(p.rhs)
<1>1. n \in Nat \ {0}
    BY ParserAssumption DEF ProductionOK
<1>2. ASSUME n <= Len(syms), p.rhs = SubSeq(syms, Len(syms) - n + 1, Len(syms))
      PROVE  Last(p.rhs) = Under
  <2>1. syms # << >> /\ Len(syms) \in Nat /\ Len(syms) - n + 1 \in 1 .. Len(syms)
      BY <1>1, <1>2
  <2>2. SubSeq(syms, Len(syms) - n + 1, Len(syms))[n] = syms[Len(syms)]
    <3> HIDE DEF n
    <3>1. \A i \in 1 .. n : SubSeq(syms, Len(syms) - n + 1, Len(syms))[i] = syms[Len(syms) - n + i]
        BY <1>1, <1>2, LastOnes
    <3>2. n \in 1 .. n /\ Len(syms) - n + n = Len(syms)
        BY <1>1, <2>1
    <3> QED BY <3>1, <3>2
  <2>3. p.rhs[n] = syms[Len(syms)]
      BY <1>2, <2>2
  <2> QED BY <2>1, <2>3 DEF Last, Under
<1> QED BY <1>2 DEF Handle

\* A sequence that the stack ends with is that of its last symbols.
LEMMA Ends ==
    ASSUME syms \in Seq(Symbols), NEW s \in Seq(Symbols), Len(s) <= Len(syms),
           \A i \in 1 .. Len(s) : s[i] = syms[Len(syms) - Len(s) + i]
    PROVE  s = SubSeq(syms, Len(syms) - Len(s) + 1, Len(syms))
<1> DEFINE t == SubSeq(syms, Len(syms) - Len(s) + 1, Len(syms))
<1>1. t \in Seq(Symbols) /\ Len(t) = Len(s)
    OBVIOUS
<1>2. \A i \in 1 .. Len(s) : t[i] = s[i]
    BY <1>1
<1> HIDE DEF t
<1>3. s = t
    BY <1>1, <1>2, SeqEqual
<1> QED BY <1>3 DEF t

\* If one production is complete, one that no longer one exceeds is.
LEMMA Longest ==
    ASSUME syms \in Seq(Symbols), NEW p \in Productions, Handle(p)
    PROVE  \E q \in Productions :
              Handle(q) /\ \A r \in Productions : Handle(r) => Len(r.rhs) <= Len(q.rhs)
<1> DEFINE Left == {Len(syms) - Len(q.rhs) : q \in {r \in Productions : Handle(r)}}
<1>1. \A r \in Productions : Handle(r) => Len(r.rhs) \in Nat /\ Len(r.rhs) <= Len(syms)
    BY ParserAssumption DEF ProductionOK, Handle
<1>2. Left \in SUBSET Nat /\ Left # {}
    BY <1>1
<1>3. PICK m \in Left : \A k \in Left : m <= k
    BY <1>2, Least
<1>4. PICK q \in Productions : Handle(q) /\ m = Len(syms) - Len(q.rhs)
    BY <1>3
<1>5. ASSUME NEW r \in Productions, Handle(r) PROVE Len(r.rhs) <= Len(q.rhs)
  <2>1. m <= Len(syms) - Len(r.rhs)
      BY <1>3, <1>5
  <2> QED BY <2>1, <1>1, <1>4, <1>5
<1> QED BY <1>4, <1>5

\* What is where on a stack.
LEMMA AtIs ==
    ASSUME NEW st \in Seq(Symbols)
    PROVE  /\ Len(st) \in Nat /\ At(st, 0) = "bottom"
           /\ \A i \in 1 .. Len(st) : At(st, i) = st[i] /\ st[i] \in Symbols
           /\ \A i \in 0 .. Len(st) : At(st, i) \in Marks
           /\ \A i \in 0 .. Len(st) : At(st, i) \in Symbols => i \in 1 .. Len(st)
<1>1. Len(st) \in Nat /\ At(st, 0) = "bottom"
    BY DEF At
<1>2. ASSUME NEW i \in 1 .. Len(st) PROVE At(st, i) = st[i] /\ st[i] \in Symbols
    BY DEF At
<1>3. Symbols \subseteq Marks /\ "bottom" \in Marks /\ "bottom" \notin Symbols
    BY SymbolsAre DEF Marks
<1>4. \A i \in 0 .. Len(st) : i = 0 \/ i \in 1 .. Len(st)
    BY <1>1
<1> QED BY <1>1, <1>2, <1>3, <1>4

\* Some symbols are not left on the stack for the next word.
LEMMA MustReduce ==
    ASSUME syms \in Seq(Symbols), syms # << >>, Last(syms) \in Immediate,
           NEW p \in Productions, Handle(p)
    PROVE  ~Stuck
<1>1. PICK q \in Productions :
          Handle(q) /\ \A r \in Productions : Handle(r) => Len(r.rhs) <= Len(q.rhs)
    BY Longest
<1>2. Last(q.rhs) = Last(syms)
    BY <1>1 DEF Handle, Under
<1>3. q.unless = {} /\ q.rhs # <<"declarator">>
    BY <1>2, ShapeAssumption
<1> QED BY <1>1, <1>3 DEF Ready, Stuck

\* A production whose right side is what ends the stack, one to three symbols.
LEMMA OneEnds ==
    ASSUME syms \in Seq(Symbols), NEW p \in Productions, p.rhs \in Seq(Symbols),
           Len(syms) >= 1, p.rhs = <<syms[Len(syms)]>>
    PROVE  Handle(p)
<1>1. Len(p.rhs) = 1 /\ p.rhs[1] = syms[Len(syms)] /\ Len(syms) \in Nat
    OBVIOUS
<1>2. \A i \in 1 .. Len(p.rhs) : p.rhs[i] = syms[Len(syms) - Len(p.rhs) + i]
    BY <1>1
<1> QED BY <1>1, <1>2, Ends, HandleIs

\* The same with two symbols,
LEMMA TwoEnd ==
    ASSUME syms \in Seq(Symbols), NEW p \in Productions, p.rhs \in Seq(Symbols),
           Len(syms) >= 2, p.rhs = <<syms[Len(syms) - 1], syms[Len(syms)]>>
    PROVE  Handle(p)
<1>1. /\ Len(p.rhs) = 2 /\ p.rhs[1] = syms[Len(syms) - 1] /\ p.rhs[2] = syms[Len(syms)]
      /\ Len(syms) \in Nat
    OBVIOUS
<1>2. \A i \in 1 .. Len(p.rhs) : p.rhs[i] = syms[Len(syms) - Len(p.rhs) + i]
    BY <1>1
<1> QED BY <1>1, <1>2, Ends, HandleIs

\* and with three.
LEMMA ThreeEnd ==
    ASSUME syms \in Seq(Symbols), NEW p \in Productions, p.rhs \in Seq(Symbols),
           Len(syms) >= 3,
           p.rhs = <<syms[Len(syms) - 2], syms[Len(syms) - 1], syms[Len(syms)]>>
    PROVE  Handle(p)
<1>1. /\ Len(p.rhs) = 3 /\ p.rhs[1] = syms[Len(syms) - 2]
      /\ p.rhs[2] = syms[Len(syms) - 1] /\ p.rhs[3] = syms[Len(syms)] /\ Len(syms) \in Nat
    OBVIOUS
<1>2. \A i \in 1 .. Len(p.rhs) : p.rhs[i] = syms[Len(syms) - Len(p.rhs) + i]
    BY <1>1
<1> QED BY <1>1, <1>2, Ends, HandleIs

\* If there is a production that s completes on x, and they end the stack, then one is
\* complete.
LEMMA Completed ==
    ASSUME syms \in Seq(Symbols), Shaped, syms # << >>,
           Completes(At(syms, Len(syms) - 1), Last(syms))
    PROVE  \E p \in Productions : Handle(p)
<1> DEFINE m == Len(syms)
           x == At(syms, m - 1)
           s == syms[m]
<1>1. Completes(x, s)
  <2>1. Last(syms) = s
      BY DEF Last
  <2> QED BY <2>1
<1>2. PICK p \in Productions :
          \/ p.rhs = <<s>> \/ p.rhs = <<x, s>>
          \/ \E y \in Phrases : /\ p.rhs = <<y, x, s>>
                                /\ \A z \in Marks : <<z, x>> \in Beside => z = y
    BY <1>1 DEF Completes
<1>3. p.rhs \in Seq(Symbols)
    BY ShapeAssumption, SymbolsAre
<1>4. m \in Nat /\ m >= 1
    OBVIOUS
<1>5. x \in Symbols => m >= 2 /\ x = syms[m - 1]
  <2>1. m - 1 \in 0 .. m
      BY <1>4
  <2>2. x \in Symbols => m - 1 \in 1 .. m
      BY <2>1, AtIs
  <2>3. x \in Symbols => x = syms[m - 1]
      BY <2>2, AtIs
  <2> HIDE DEF x
  <2> QED BY <2>2, <2>3, <1>4
<1> HIDE DEF x, s
<1>6. CASE p.rhs = <<s>>
    BY <1>3, <1>4, <1>6, OneEnds DEF s
<1>7. CASE p.rhs = <<x, s>>
  <2>1. x \in Symbols
      BY <1>3, <1>7
  <2> QED BY <2>1, <1>3, <1>5, <1>7, TwoEnd DEF s
<1>8. CASE \E y \in Phrases : /\ p.rhs = <<y, x, s>>
                              /\ \A z \in Marks : <<z, x>> \in Beside => z = y
  <2>1. PICK y \in Phrases : /\ p.rhs = <<y, x, s>>
                             /\ \A z \in Marks : <<z, x>> \in Beside => z = y
      BY <1>8
  <2>2. x \in Symbols
      BY <1>3, <2>1
  <2>3. m >= 2 /\ x = syms[m - 1] /\ m - 1 \in 1 .. m /\ m - 2 \in 0 .. m
      BY <2>2, <1>4, <1>5
  <2>4. <<At(syms, m - 2), x>> \in Beside
    <3>1. <<At(syms, (m - 1) - 1), syms[m - 1]>> \in Beside
        BY <2>3 DEF Shaped, ShapeOf
    <3>2. (m - 1) - 1 = m - 2
        BY <1>4
    <3> QED BY <3>1, <3>2, <2>3
  <2>5. At(syms, m - 2) = y
      BY <2>1, <2>3, <2>4, AtIs
  <2>6. m - 2 \in 1 .. m /\ y = syms[m - 2]
      BY <2>3, <2>5, AtIs, SymbolsAre
  <2>7. m >= 3
      BY <2>6, <1>4
  <2> QED BY <2>1, <2>3, <2>6, <2>7, <1>3, ThreeEnd DEF s
<1> QED BY <1>2, <1>6, <1>7, <1>8

\* Where the parser cannot reduce, some symbols are not on the stack, and specifiers begin
\* a declaration.
LEMMA StuckOn ==
    ASSUME syms \in Seq(Symbols), Shaped, syms # << >>, Stuck, Last(syms) \in Immediate
    PROVE  /\ Last(syms) = "declaration_specifiers"
           /\ At(syms, Len(syms) - 1) \in Outermost
<1>1. Len(syms) \in 1 .. Len(syms) /\ Len(syms) - 1 \in 0 .. Len(syms)
      /\ Last(syms) = syms[Len(syms)]
    BY DEF Last
<1>2. <<At(syms, Len(syms) - 1), Last(syms)>> \in Beside
    BY <1>1 DEF Shaped, ShapeOf
<1>3. At(syms, Len(syms) - 1) \in Marks
    BY <1>1, AtIs
<1>4. ~Completes(At(syms, Len(syms) - 1), Last(syms))
    BY Completed, MustReduce
<1> QED BY <1>2, <1>3, <1>4, ShapeAssumption

\* A symbol that may lie there is laid on what is left of the stack.
LEMMA Laid ==
    ASSUME NEW st \in Seq(Symbols), ShapeOf(st), NEW n \in Nat, n <= Len(st),
           NEW s \in Symbols, <<At(st, Len(st) - n), s>> \in Beside,
           n = 0 /\ st # << >> =>
              /\ Last(st) = "declaration_specifiers" => At(st, Len(st) - 1) \in Outermost
              /\ Last(st) = "declarator" => At(st, Len(st) - 1) \in Specified
    PROVE  ShapeOf(Append(SubSeq(st, 1, Len(st) - n), s))
<1> DEFINE k == Len(st) - n
           t == Append(SubSeq(st, 1, k), s)
<1>1. /\ k \in Nat /\ t \in Seq(Symbols) /\ Len(t) = k + 1 /\ k <= Len(st)
      /\ \A j \in 1 .. k : j \in 1 .. Len(st) /\ t[j] = st[j]
      /\ t[k + 1] = s
    OBVIOUS
<1>2. \A j \in 0 .. k : At(t, j) = At(st, j)
    BY <1>1 DEF At
<1>3. n = 0 \/ k < Len(st)
    OBVIOUS
<1> HIDE DEF t
<1>4. <<At(t, k), t[k + 1]>> \in Beside
  <2>1. k \in 0 .. k /\ <<At(st, k), s>> \in Beside
      BY <1>1
  <2> HIDE DEF k
  <2> QED BY <2>1, <1>1, <1>2
<1> HIDE DEF k
<1>5. ASSUME NEW i \in 1 .. k
      PROVE  /\ <<At(t, i - 1), t[i]>> \in Beside
             /\ t[i] = "declaration_specifiers" => At(t, i - 1) \in Outermost
             /\ t[i] = "declarator" => At(t, i - 1) \in Specified
  <2>1. i \in 1 .. Len(st) /\ t[i] = st[i] /\ At(t, i - 1) = At(st, i - 1)
    <3>1. i - 1 \in 0 .. k
        BY <1>1
    <3> QED BY <3>1, <1>1, <1>2
  <2>2. <<At(st, i - 1), st[i]>> \in Beside
      BY <2>1 DEF ShapeOf
  <2>3. CASE i < Len(st)
    <3>1. /\ st[i] = "declaration_specifiers" => At(st, i - 1) \in Outermost
          /\ st[i] = "declarator" => At(st, i - 1) \in Specified
        BY <2>1, <2>3 DEF ShapeOf
    <3> QED BY <2>1, <2>2, <3>1
  <2>4. CASE i = Len(st)
    <3>1. n = 0 /\ st # << >> /\ st[i] = Last(st)
        BY <1>1, <1>3, <2>4 DEF Last
    <3> QED BY <2>1, <2>2, <2>4, <3>1
  <2> QED BY <2>1, <2>3, <2>4
<1>6. ASSUME NEW i \in 1 .. Len(t)
      PROVE  /\ <<At(t, i - 1), t[i]>> \in Beside
             /\ i < Len(t) =>
                   /\ t[i] = "declaration_specifiers" => At(t, i - 1) \in Outermost
                   /\ t[i] = "declarator" => At(t, i - 1) \in Specified
  <2>1. CASE i = k + 1
    <3>1. i - 1 = k /\ ~(i < Len(t))
        BY <2>1, <1>1
    <3> QED BY <2>1, <3>1, <1>4
  <2>2. CASE i # k + 1
    <3>1. i \in 1 .. k
        BY <2>2, <1>1
    <3> QED BY <3>1, <1>5
  <2> QED BY <2>1, <2>2
<1>7. ShapeOf(t)
    BY <1>6 DEF ShapeOf
<1> QED BY <1>7 DEF t, k

\* What AfterSpecifiers says of the shape.
LEMMA AfterSpecifiersAre ==
    AfterSpecifiers <=> Len(syms) > 1 /\ syms[Len(syms) - 1] \in Specified
    BY Zenon DEF AfterSpecifiers, Specified, Comma

\* A shift keeps the shape.
LEMMA ShiftShaped ==
    ASSUME ParserInv, Shaped, Shift
    PROVE  Shaped'
<1>1. /\ syms \in Seq(Symbols) /\ <<Under, la.kind>> \in Shifts /\ Stuck
      /\ la.kind = Equals => AfterSpecifiers
      /\ syms' = Append(syms, la.kind)
    BY Zenon DEF ParserInv, Shift, CanShift, Stuck, Equals
<1>2. la.kind \in Tokens /\ la.kind \in Symbols /\ <<Under, la.kind>> \in Beside
  <2>1. la.kind \in Tokens
    <3>1. <<Under, la.kind>>[2] = la.kind
        OBVIOUS
    <3> QED BY <3>1, <1>1 DEF Tokens
  <2> QED BY <2>1, <1>1, SymbolsAre, ShapeAssumption
<1>3. Len(syms) \in Nat /\ (syms # << >> => Len(syms) \in 1 .. Len(syms))
    BY <1>1
<1>4. At(syms, Len(syms)) = Under
    BY <1>1, <1>3 DEF At, Under, Last
<1>5. ASSUME syms # << >>
      PROVE  /\ Last(syms) = "declaration_specifiers" => At(syms, Len(syms) - 1) \in Outermost
             /\ Last(syms) = "declarator" => At(syms, Len(syms) - 1) \in Specified
  <2>1. CASE Last(syms) = "declaration_specifiers"
    <3>1. Last(syms) \in Immediate
        BY <2>1 DEF Immediate
    <3> QED BY <2>1, <3>1, <1>1, <1>5, StuckOn
  <2>2. CASE Last(syms) = "declarator"
    <3>1. <<"declarator", la.kind>> \in Shifts
        BY <1>1, <1>5, <2>2 DEF Under
    <3>2. AfterSpecifiers
        BY <3>1, <1>1, <1>2, ShapeAssumption
    <3>3. Len(syms) - 1 \in 1 .. Len(syms) /\ syms[Len(syms) - 1] \in Specified
        BY <3>2, <1>3, AfterSpecifiersAre
    <3>4. At(syms, Len(syms) - 1) = syms[Len(syms) - 1]
        BY <1>1, <3>3, AtIs
    <3> QED BY <2>2, <3>3, <3>4
  <2> QED BY <2>1, <2>2
<1>6. Len(syms) - 0 = Len(syms) /\ SubSeq(syms, 1, Len(syms)) = syms
    BY <1>1
<1>7. ShapeOf(Append(SubSeq(syms, 1, Len(syms) - 0), la.kind))
  <2>1. <<At(syms, Len(syms) - 0), la.kind>> \in Beside
      BY <1>2, <1>4, <1>6
  <2> QED BY <2>1, <1>1, <1>2, <1>3, <1>5, Laid DEF Shaped
<1> QED BY <1>1, <1>6, <1>7 DEF Shaped

\* The symbols under the right side of a production that ends the stack.
LEMMA UnderHandle ==
    ASSUME syms \in Seq(Symbols), NEW p \in Productions, Handle(p), NEW n, n = Len(p.rhs)
    PROVE  /\ n \in Nat \ {0} /\ n <= Len(syms) /\ Len(syms) \in Nat
           /\ \A i \in 1 .. n : p.rhs[i] = syms[Len(syms) - n + i]
<1>0. Len(syms) \in Nat
    OBVIOUS
<1>1. n \in Nat \ {0}
    BY ParserAssumption DEF ProductionOK
<1>2. n <= Len(syms) /\ p.rhs = SubSeq(syms, Len(syms) - n + 1, Len(syms))
    BY HandleIs
<1>3. \A i \in 1 .. n :
          SubSeq(syms, Len(syms) - n + 1, Len(syms))[i] = syms[Len(syms) - n + i]
    BY <1>1, <1>2, LastOnes
<1> QED BY Zenon, <1>0, <1>1, <1>2, <1>3

\* An argument that is a node has the type of its symbol, which others are not.
LEMMA TheNode ==
    ASSUME ParserInv, NEW p \in Productions, Handle(p), NEW n, n = Len(p.rhs), NEW i \in 1 .. n
    PROVE  /\ Len(yyvs) - n + i \in 1 .. Len(yyvs)
           /\ Arg(n, i) = yyvs[Len(yyvs) - n + i]
           /\ Arg(n, i) \in Addr \cup {Null}
           /\ p.rhs[i] \in Types => Arg(n, i) # Null
           /\ Arg(n, i) # Null => p.rhs[i] \in Types /\ node[Arg(n, i)].type = p.rhs[i]
<1> DEFINE k == Len(yyvs) - n + i
<1>1. /\ Len(yyvs) - n + i \in 1 .. Len(yyvs) /\ Arg(n, i) = yyvs[Len(yyvs) - n + i]
      /\ Arg(n, i) \in Addr \cup {Null}
    BY TheArgument
<1>2. Len(syms) = Len(yyvs) /\ syms \in Seq(Symbols) /\ ValuesTyped
    BY DEF ParserInv
<1>3. p.rhs[i] = syms[k]
    BY <1>2, UnderHandle
<1>4. k \in 1 .. Len(syms)
    BY <1>1, <1>2
<1>5. IF syms[k] \in Types THEN yyvs[k] # Null /\ node[yyvs[k]].type = syms[k]
                           ELSE yyvs[k] = Null
    BY <1>2, <1>4 DEF ValuesTyped
<1> QED BY <1>1, <1>3, <1>5

\* No two arguments are the same node.
LEMMA NodesDiffer ==
    ASSUME ParserInv, NEW p \in Productions, Handle(p), NEW n, n = Len(p.rhs),
           NEW i \in 1 .. n, NEW j \in 1 .. n, i # j, Arg(n, i) # Null
    PROVE  Arg(n, i) # Arg(n, j)
<1>1. /\ Len(yyvs) - n + i \in 1 .. Len(yyvs) /\ Arg(n, i) = yyvs[Len(yyvs) - n + i]
      /\ Len(yyvs) - n + j \in 1 .. Len(yyvs) /\ Arg(n, j) = yyvs[Len(yyvs) - n + j]
    BY TheArgument
<1>2. StackOnce /\ yyvs \in Seq(Addr \cup {Null}) /\ Len(yyvs) \in Nat /\ n \in Nat
    BY ParserAssumption DEF ParserInv, StoreInv, StoreOK, ProductionOK
<1>3. Len(yyvs) - n + i # Len(yyvs) - n + j
    BY <1>2
<1> QED BY <1>1, <1>2, <1>3 DEF StackOnce

\* The parser does not reduce by a production that a longer one exceeds.
LEMMA NotExceeded ==
    ASSUME syms \in Seq(Symbols), Shaped, NEW p \in Productions, Ready(p),
           Exceeded(p, At(syms, Len(syms) - Len(p.rhs)))
    PROVE  FALSE
<1> DEFINE n == Len(p.rhs)
           m == Len(syms)
           x == At(syms, m - n)
<1>1. /\ n \in Nat \ {0} /\ n <= m /\ m \in Nat
      /\ \A i \in 1 .. n : p.rhs[i] = syms[m - n + i]
    BY UnderHandle DEF Ready
<1>2. \A q \in Productions : Handle(q) => Len(q.rhs) <= n
    BY DEF Ready
<1>3. PICK q \in Productions :
          \/ q.rhs = <<x>> \o p.rhs
          \/ \E y \in Phrases : /\ q.rhs = <<y, x>> \o p.rhs
                                /\ \A z \in Marks : <<z, x>> \in Beside => z = y
    BY DEF Exceeded
<1>4. p.rhs \in Seq(Symbols) /\ q.rhs \in Seq(Symbols)
    BY ShapeAssumption, SymbolsAre
<1>5. x \in Symbols => m - n \in 1 .. m /\ x = syms[m - n]
  <2>1. m - n \in 0 .. m
      BY <1>1
  <2> QED BY <2>1, AtIs
<1> HIDE DEF x, n, m
<1>6. n = Len(p.rhs)
    BY DEF n
<1>7. CASE q.rhs = <<x>> \o p.rhs
  <2>1. /\ Len(q.rhs) = n + 1 /\ q.rhs[1] = x
        /\ \A i \in 1 .. n : q.rhs[i + 1] = p.rhs[i]
      BY <1>1, <1>4, <1>6, <1>7
  <2>2. x \in Symbols
      BY <2>1, <1>1, <1>4
  <2>3. \A i \in 1 .. Len(q.rhs) : q.rhs[i] = syms[m - Len(q.rhs) + i]
    <3> TAKE i \in 1 .. Len(q.rhs)
    <3>1. CASE i = 1
        BY <3>1, <2>1, <2>2, <1>1, <1>5
    <3>2. CASE i # 1
      <4>1. i - 1 \in 1 .. n /\ (i - 1) + 1 = i /\ m - n + (i - 1) = m - Len(q.rhs) + i
          BY <3>2, <2>1, <1>1
      <4>2. q.rhs[(i - 1) + 1] = p.rhs[i - 1] /\ p.rhs[i - 1] = syms[m - n + (i - 1)]
          BY <4>1, <2>1, <1>1
      <4> QED BY <4>1, <4>2
    <3> QED BY <3>1, <3>2
  <2>4. Len(q.rhs) <= m
      BY <2>1, <2>2, <1>1, <1>5
  <2>5. Handle(q)
      BY <2>3, <2>4, <1>4, Ends, HandleIs DEF m
  <2> QED BY <2>1, <2>5, <1>1, <1>2
<1>8. CASE \E y \in Phrases : /\ q.rhs = <<y, x>> \o p.rhs
                              /\ \A z \in Marks : <<z, x>> \in Beside => z = y
  <2>1. PICK y \in Phrases : /\ q.rhs = <<y, x>> \o p.rhs
                             /\ \A z \in Marks : <<z, x>> \in Beside => z = y
      BY <1>8
  <2>2. /\ Len(q.rhs) = n + 2 /\ q.rhs[1] = y /\ q.rhs[2] = x
        /\ \A i \in 1 .. n : q.rhs[i + 2] = p.rhs[i]
      BY <1>1, <1>4, <1>6, <2>1
  <2>3. x \in Symbols
      BY <2>2, <1>1, <1>4
  <2>4. m - n \in 1 .. m /\ x = syms[m - n] /\ m - n - 1 \in 0 .. m
      BY <2>3, <1>1, <1>5
  <2>5. <<At(syms, m - n - 1), syms[m - n]>> \in Beside
      BY <2>4 DEF Shaped, ShapeOf, m
  <2>6. At(syms, m - n - 1) \in Marks
      BY <2>4, AtIs DEF m
  <2>7. At(syms, m - n - 1) = y
      BY <2>1, <2>4, <2>5, <2>6
  <2>8. m - n - 1 \in 1 .. m /\ y = syms[m - n - 1]
    <3>1. y \in Symbols
        BY SymbolsAre
    <3> QED BY <3>1, <2>4, <2>7, AtIs DEF m
  <2>9. \A i \in 1 .. Len(q.rhs) : q.rhs[i] = syms[m - Len(q.rhs) + i]
    <3> TAKE i \in 1 .. Len(q.rhs)
    <3>1. CASE i = 1
        BY <3>1, <2>2, <2>8, <1>1
    <3>2. CASE i = 2
        BY <3>2, <2>2, <2>4, <1>1
    <3>3. CASE i # 1 /\ i # 2
      <4>1. i - 2 \in 1 .. n /\ (i - 2) + 2 = i /\ m - n + (i - 2) = m - Len(q.rhs) + i
          BY <3>3, <2>2, <1>1
      <4>2. q.rhs[(i - 2) + 2] = p.rhs[i - 2] /\ p.rhs[i - 2] = syms[m - n + (i - 2)]
          BY <4>1, <2>2, <1>1
      <4> QED BY <4>1, <4>2
    <3> QED BY <3>1, <3>2, <3>3
  <2>10. Len(q.rhs) <= m
      BY <2>2, <2>8, <1>1
  <2>11. Handle(q)
      BY <2>9, <2>10, <1>4, Ends, HandleIs DEF m
  <2> QED BY <2>2, <2>11, <1>1, <1>2
<1> QED BY <1>3, <1>7, <1>8

\* A declaration begins with specifiers, and does not end with them.
LEMMA DeclarationsBegin ==
    ASSUME NEW p \in Productions, p.lhs = "declaration"
    PROVE  p.rhs[1] = "declaration_specifiers" /\ Len(p.rhs) > 1
<1>1. \/ p.rhs = <<"declaration_specifiers", "init_declarator_list", Semicolon>>
      \/ p.rhs = <<"declaration_specifiers", Semicolon>>
    BY PhraseAssumption DEF DeclarationOK
<1>2. ASSUME NEW r, r = <<"declaration_specifiers", "init_declarator_list", Semicolon>>
      PROVE  r[1] = "declaration_specifiers" /\ Len(r) > 1
    BY <1>2
<1>3. ASSUME NEW r, r = <<"declaration_specifiers", Semicolon>>
      PROVE  r[1] = "declaration_specifiers" /\ Len(r) > 1
    BY <1>3
<1> QED BY <1>1, <1>2, <1>3

\* A reduction keeps the shape.
LEMMA ReduceShaped ==
    ASSUME ParserInv, Shaped, NEW p \in Productions, Reduce(p)
    PROVE  Shaped'
<1> DEFINE n == Len(p.rhs)
           m == Len(syms)
           x == At(syms, m - n)
<1>1. /\ syms \in Seq(Symbols) /\ Ready(p) /\ Handle(p)
      /\ syms' = Append(SubSeq(syms, 1, m - n), p.lhs)
    BY DEF ParserInv, Reduce, Ready
<1>2. /\ n \in Nat \ {0} /\ n <= m /\ m \in Nat
      /\ \A i \in 1 .. n : p.rhs[i] = syms[m - n + i]
    BY <1>1, UnderHandle
<1>3. p.lhs \in Symbols
    BY SymbolsAre DEF Phrases
<1>4. m - n \in 0 .. m /\ m - n + 1 \in 1 .. m /\ (m - n + 1) - 1 = m - n /\ 1 \in 1 .. n
    BY <1>2
<1>5. x \in Marks
    BY <1>1, <1>4, AtIs
<1>6. /\ <<At(syms, (m - n + 1) - 1), syms[m - n + 1]>> \in Beside
      /\ m - n + 1 < m =>
            /\ syms[m - n + 1] = "declaration_specifiers" =>
                  At(syms, (m - n + 1) - 1) \in Outermost
            /\ syms[m - n + 1] = "declarator" => At(syms, (m - n + 1) - 1) \in Specified
    BY <1>4 DEF Shaped, ShapeOf
<1>7. /\ <<x, p.rhs[1]>> \in Beside
      /\ n > 1 => /\ p.rhs[1] = "declaration_specifiers" => x \in Outermost
                  /\ p.rhs[1] = "declarator" => x \in Specified
  <2>1. syms[m - n + 1] = p.rhs[1] /\ (n > 1 => m - n + 1 < m)
    <3> HIDE DEF n, m
    <3> QED BY <1>2, <1>4
  <2> QED BY <2>1, <1>4, <1>6
<1> HIDE DEF n, m
<1>8. p.lhs = "declaration" => x \in Outermost
  <2>1. p.lhs = "declaration" => p.rhs[1] = "declaration_specifiers" /\ Len(p.rhs) > 1
      BY DeclarationsBegin
  <2> QED BY <2>1, <1>7 DEF n
<1>9. p.rhs[1] = "declarator" => x \in Specified
  <2>1. CASE n > 1
      BY <2>1, <1>7
  <2>2. CASE ~(n > 1) /\ p.rhs[1] = "declarator"
    <3>1. p.rhs \in Seq(Symbols)
        BY ShapeAssumption, SymbolsAre
    <3>2. n = 1
        BY <2>2, <1>2
    <3>3. p.rhs = <<"declarator">>
        BY <2>2, <3>1, <3>2 DEF n
    <3>4. AfterSpecifiers
        BY <3>3, <1>1 DEF Ready
    <3>5. m > 1 /\ syms[m - 1] \in Specified
        BY <3>4, AfterSpecifiersAre DEF m
    <3>6. At(syms, m - 1) = syms[m - 1]
        BY <3>5, <1>1, <1>2 DEF At
    <3> QED BY <3>2, <3>5, <3>6
  <2> QED BY <2>1, <2>2
<1>10. ~Exceeded(p, x)
    BY <1>1, NotExceeded DEF n, m
<1> HIDE DEF x
<1>11. <<x, p.lhs>> \in Beside
    BY <1>5, <1>7, <1>8, <1>9, <1>10, ShapeAssumption
<1>12. ShapeOf(Append(SubSeq(syms, 1, m - n), p.lhs))
  <2>1. <<At(syms, m - n), p.lhs>> \in Beside
      BY <1>11 DEF x
  <2>2. n \in Nat /\ n # 0
      BY <1>2
  <2> QED BY <2>1, <2>2, <1>1, <1>2, <1>3, Laid DEF Shaped, m
<1> QED BY <1>1, <1>12 DEF Shaped

-----------------------------------------------------------------------------
(***************************************************************************)
(* Sources: how the names that typedefs declare grow word by word.         *)
(***************************************************************************)
BeginsIn(src, k) == k = 1 \/ src[k - 1].kind = Semicolon
IsFirst(src, i, k) == BeginsIn(src, i) /\ \A j \in i + 1 .. k : ~BeginsIn(src, j)
FirstIn(src, k) == CHOOSE i \in 1 .. k : IsFirst(src, i, k)
ClosedIn(src, n) == {k \in 1 .. n - 1 : \E j \in k .. n - 1 : src[j].kind = Semicolon}
DeclaredIn(src, k) == src[k].kind = "IDENTIFIER" /\ src[FirstIn(src, k)].kind = "TYPEDEF"
TypedefsIn(src, n) == {src[k].text : k \in {k \in ClosedIn(src, n) : DeclaredIn(src, k)}}

\* The names among the words from l to h.
Ids(src, l, h) == {src[j].text : j \in {j \in l .. h : src[j].kind = "IDENTIFIER"}}

\* The property's operators are these, of the words read so far.
LEMMA SourceIs ==
    /\ \A n : TypedefsBefore(n) = TypedefsIn(source, n)
    /\ \A n : Closed(n) = ClosedIn(source, n)
    /\ \A k : FirstOf(k) = FirstIn(source, k)
<1>1. \A k : FirstOf(k) = FirstIn(source, k)
    BY Zenon DEF FirstOf, FirstIn, IsFirst, Begins, BeginsIn, Semicolon
<1>2. \A n : Closed(n) = ClosedIn(source, n)
    BY Zenon DEF Closed, ClosedIn, Semicolon
<1>3. \A n : TypedefsBefore(n) = TypedefsIn(source, n)
  <2> TAKE n
  <2>1. /\ Closed(n) = ClosedIn(source, n)
        /\ \A k : FirstOf(k) = FirstIn(source, k)
      BY <1>1, <1>2
  <2>2. \A k : DeclaredIn(source, k) <=>
                  source[k].kind = "IDENTIFIER" /\ source[FirstOf(k)].kind = "TYPEDEF"
      BY Zenon, <2>1 DEF DeclaredIn
  <2> QED BY <2>1, <2>2 DEF TypedefsBefore, TypedefsIn
<1> QED BY <1>1, <1>2, <1>3

\* There is a first word of what a word is in, and only one.
LEMMA FirstIs ==
    ASSUME NEW src, NEW k \in Nat, NEW i \in 1 .. k, IsFirst(src, i, k)
    PROVE  FirstIn(src, k) = i
<1>1. FirstIn(src, k) \in 1 .. k /\ IsFirst(src, FirstIn(src, k), k)
    BY Zenon DEF FirstIn
<1>2. ASSUME NEW a \in 1 .. k, NEW b \in 1 .. k, IsFirst(src, a, k), BeginsIn(src, b)
      PROVE  b <= a
  <2>1. b \notin a + 1 .. k
      BY <1>2 DEF IsFirst
  <2> QED BY <2>1
<1>3. BeginsIn(src, i) /\ BeginsIn(src, FirstIn(src, k))
    BY <1>1 DEF IsFirst
<1>4. i <= FirstIn(src, k) /\ FirstIn(src, k) <= i
    BY <1>1, <1>2, <1>3
<1> QED BY <1>1, <1>4

\* Every word belongs to a declaration that has begun.
LEMMA FirstExists ==
    ASSUME NEW src, NEW k \in Nat \ {0}
    PROVE  FirstIn(src, k) \in 1 .. k /\ IsFirst(src, FirstIn(src, k), k)
<1> DEFINE Back == {k - i : i \in {i \in 1 .. k : BeginsIn(src, i)}}
<1>1. Back \in SUBSET Nat
    OBVIOUS
<1>2. 1 \in 1 .. k /\ BeginsIn(src, 1)
    BY DEF BeginsIn
<1>3. Back # {}
    BY <1>2
<1>4. PICK m \in Back : \A b \in Back : m <= b
    BY <1>1, <1>3, Least
<1>5. PICK i \in 1 .. k : BeginsIn(src, i) /\ m = k - i
    BY <1>4
<1>6. IsFirst(src, i, k)
  <2>1. ASSUME NEW j \in i + 1 .. k, BeginsIn(src, j) PROVE FALSE
    <3>1. j \in 1 .. k
        OBVIOUS
    <3>2. k - j \in Back
        BY <3>1, <2>1
    <3>3. k - i <= k - j
        BY <3>2, <1>4, <1>5
    <3> QED BY <3>3, <3>1
  <2> QED BY <2>1, <1>5 DEF IsFirst
<1> QED BY <1>5, <1>6, FirstIs

\* A word that is added changes nothing before it.
LEMMA SourceGrows ==
    ASSUME NEW W, NEW src \in Seq(W), NEW w \in W
    PROVE  /\ \A n \in 1 .. Len(src) + 1 :
                 /\ TypedefsIn(Append(src, w), n) = TypedefsIn(src, n)
                 /\ ClosedIn(Append(src, w), n) = ClosedIn(src, n)
           /\ \A k \in 1 .. Len(src) : FirstIn(Append(src, w), k) = FirstIn(src, k)
<1> DEFINE new == Append(src, w)
<1>1. Len(src) \in Nat /\ \A k \in 1 .. Len(src) : new[k] = src[k]
    OBVIOUS
<1> HIDE DEF new
<1>2. \A k \in 1 .. Len(src) + 1 : BeginsIn(new, k) <=> BeginsIn(src, k)
  <2> TAKE k \in 1 .. Len(src) + 1
  <2>1. k = 1 \/ k - 1 \in 1 .. Len(src)
      BY <1>1
  <2> QED BY <2>1, <1>1 DEF BeginsIn
<1>3. ASSUME NEW k \in 1 .. Len(src) PROVE FirstIn(new, k) = FirstIn(src, k)
  <2>1. FirstIn(src, k) \in 1 .. k /\ IsFirst(src, FirstIn(src, k), k)
      BY <1>1, FirstExists
  <2>2. \A j \in 1 .. k : BeginsIn(new, j) <=> BeginsIn(src, j)
      BY <1>1, <1>2
  <2> DEFINE f == FirstIn(src, k)
  <2> HIDE DEF f
  <2>3. f \in 1 .. k /\ IsFirst(src, f, k)
      BY <2>1 DEF f
  <2>4. IsFirst(new, f, k)
    <3>1. \A j \in f + 1 .. k : j \in 1 .. k
        BY <2>3
    <3> QED BY <3>1, <2>2, <2>3 DEF IsFirst
  <2>5. FirstIn(new, k) = f
      BY <2>3, <2>4, <1>1, FirstIs
  <2> QED BY <2>5 DEF f
<1>4. ASSUME NEW n \in 1 .. Len(src) + 1
      PROVE  ClosedIn(new, n) = ClosedIn(src, n) /\ TypedefsIn(new, n) = TypedefsIn(src, n)
  <2>1. \A k \in 1 .. n - 1 : k \in 1 .. Len(src)
      BY <1>1
  <2>2. ClosedIn(new, n) = ClosedIn(src, n)
    <3>1. \A k \in 1 .. n - 1 : \A j \in k .. n - 1 : new[j] = src[j]
        BY <1>1
    <3> QED BY <3>1 DEF ClosedIn
  <2>3. \A k \in ClosedIn(src, n) : k \in 1 .. Len(src)
      BY <2>1 DEF ClosedIn
  <2>4. ASSUME NEW k \in ClosedIn(src, n)
        PROVE  new[k] = src[k] /\ (DeclaredIn(new, k) <=> DeclaredIn(src, k))
    <3>1. k \in 1 .. Len(src) /\ FirstIn(src, k) \in 1 .. k
        BY <2>3, <1>1, FirstExists
    <3>2. FirstIn(src, k) \in 1 .. Len(src)
        BY <3>1, <1>1
    <3> QED BY <3>1, <3>2, <1>1, <1>3 DEF DeclaredIn
  <2> QED BY <2>2, <2>4 DEF TypedefsIn
<1> QED BY <1>3, <1>4 DEF new

\* No name is declared by a word that does not end a declaration, ...
LEMMA NotTheEnd ==
    ASSUME NEW src, NEW n \in Nat \ {0}, src[n].kind # Semicolon
    PROVE  /\ TypedefsIn(src, n + 1) = TypedefsIn(src, n)
           /\ ClosedIn(src, n + 1) = ClosedIn(src, n)
<1>1. ClosedIn(src, n + 1) \subseteq ClosedIn(src, n)
  <2> SUFFICES ASSUME NEW k \in 1 .. n, NEW j \in k .. n, src[j].kind = Semicolon
               PROVE  k \in ClosedIn(src, n)
      BY DEF ClosedIn
  <2>1. j # n
      OBVIOUS
  <2>2. j \in k .. n - 1 /\ k \in 1 .. n - 1
      BY <2>1
  <2> QED BY <2>2 DEF ClosedIn
<1>2. ClosedIn(src, n) \subseteq ClosedIn(src, n + 1)
  <2> SUFFICES ASSUME NEW k \in 1 .. n - 1, NEW j \in k .. n - 1, src[j].kind = Semicolon
               PROVE  k \in ClosedIn(src, n + 1)
      BY DEF ClosedIn
  <2>1. j \in k .. (n + 1) - 1 /\ k \in 1 .. (n + 1) - 1
      OBVIOUS
  <2> QED BY <2>1 DEF ClosedIn
<1>3. ClosedIn(src, n + 1) = ClosedIn(src, n)
    BY <1>1, <1>2
<1> QED BY <1>3 DEF TypedefsIn

\* ... and those of a whole declaration by the one that does.
LEMMA TheEnd ==
    ASSUME NEW src, NEW n \in Nat \ {0}, NEW l \in 1 .. n, src[n].kind = Semicolon,
           BeginsIn(src, l), \A j \in l .. n - 1 : src[j].kind # Semicolon
    PROVE  /\ \A k \in l .. n : FirstIn(src, k) = l
           /\ ClosedIn(src, n + 1) = 1 .. n
           /\ TypedefsIn(src, n + 1) =
                 IF src[l].kind = "TYPEDEF" THEN TypedefsIn(src, n) \cup Ids(src, l, n)
                                            ELSE TypedefsIn(src, n)
<1>1. ASSUME NEW k \in l .. n PROVE FirstIn(src, k) = l
  <2>1. ASSUME NEW j \in l + 1 .. k PROVE ~BeginsIn(src, j)
    <3>1. j - 1 \in l .. n - 1 /\ j # 1
        OBVIOUS
    <3> QED BY <3>1 DEF BeginsIn
  <2>2. k \in Nat /\ l \in 1 .. k
      OBVIOUS
  <2> QED BY <2>1, <2>2, FirstIs DEF IsFirst
<1>2. ClosedIn(src, n + 1) = 1 .. n
  <2>1. \A k \in 1 .. n : n \in k .. (n + 1) - 1
      OBVIOUS
  <2>2. (n + 1) - 1 = n
      OBVIOUS
  <2> QED BY <2>1, <2>2 DEF ClosedIn
<1>3. ClosedIn(src, n) = 1 .. l - 1
  <2>1. ASSUME NEW k \in ClosedIn(src, n) PROVE k \in 1 .. l - 1
    <3>1. PICK j \in k .. n - 1 : k \in 1 .. n - 1 /\ src[j].kind = Semicolon
        BY DEF ClosedIn
    <3>2. ~(j \in l .. n - 1)
        BY <3>1
    <3> QED BY <3>1, <3>2
  <2>2. ASSUME NEW k \in 1 .. l - 1 PROVE k \in ClosedIn(src, n)
    <3>1. l - 1 \in k .. n - 1 /\ k \in 1 .. n - 1 /\ l # 1
        OBVIOUS
    <3>2. src[l - 1].kind = Semicolon
        BY <3>1 DEF BeginsIn
    <3> QED BY <3>1, <3>2 DEF ClosedIn
  <2> QED BY <2>1, <2>2
<1>4. \A k \in 1 .. n : k \in 1 .. l - 1 \/ k \in l .. n
    OBVIOUS
<1>5. \A k \in 1 .. l - 1 : k \in 1 .. n
    OBVIOUS
<1>6. \A k \in l .. n : DeclaredIn(src, k) <=>
          src[k].kind = "IDENTIFIER" /\ src[l].kind = "TYPEDEF"
    BY <1>1 DEF DeclaredIn
<1>7. \A k \in l .. n : k \in 1 .. n
    OBVIOUS
<1>8. CASE src[l].kind = "TYPEDEF"
  <2>1. {k \in 1 .. n : DeclaredIn(src, k)} =
           {k \in 1 .. l - 1 : DeclaredIn(src, k)}
           \cup {k \in l .. n : src[k].kind = "IDENTIFIER"}
      BY <1>4, <1>5, <1>6, <1>7, <1>8
  <2> QED BY <2>1, <1>1, <1>2, <1>3, <1>8 DEF TypedefsIn, Ids
<1>9. CASE src[l].kind # "TYPEDEF"
  <2>1. {k \in 1 .. n : DeclaredIn(src, k)} = {k \in 1 .. l - 1 : DeclaredIn(src, k)}
      BY <1>4, <1>5, <1>6, <1>9
  <2> QED BY <2>1, <1>1, <1>2, <1>3, <1>9 DEF TypedefsIn
<1> QED BY <1>8, <1>9

-----------------------------------------------------------------------------
(***************************************************************************)
(* Of which words a symbol is made: those from l to h.                     *)
(***************************************************************************)
WordsSay(src, s, l, h) ==
    /\ s \in Tokens => l = h /\ src[h].kind = s
    /\ s \notin Ended \cup {Semicolon} => \A j \in l .. h : src[j].kind # Semicolon
    /\ s \in Ended => src[h].kind = Semicolon
    /\ s \in Quiet => \A j \in l .. h : src[j].kind # "IDENTIFIER"
    /\ s = "storage_class_specifier" => src[l].kind = "TYPEDEF"
    /\ s = "type_specifier" => src[l].kind # "TYPEDEF"
    /\ s = "identifier" => l = h /\ src[h].kind = "IDENTIFIER"

\* What the text t of its node says,
TextSays(src, s, t, l, h) ==
    /\ s = "declaration_specifiers" => (t = Typedef <=> src[l].kind = "TYPEDEF")
    /\ s = "identifier" => t = src[h].text

\* and what the loop in add_typenames would find: the names, if all are named.
NamesSay(src, s, all, names, l, h) ==
    s \in Declaring => IF all THEN names = Ids(src, l, h)
                              ELSE \E j \in l .. h : src[j].kind = Brackets

\* The words of a right side, from one cut to the next.
Cuts(c, n) == c \in [0 .. n -> Nat] /\ \A i, j \in 0 .. n : i < j => c[i] < c[j]

\* Several pieces together are not empty.
LEMMA CutsRise ==
    ASSUME NEW n \in Nat \ {0}, NEW c, Cuts(c, n)
    PROVE  c[n] \in Nat /\ c[0] < c[n]
BY DEF Cuts

\* The pieces cover the words and none is empty.
LEMMA Pieces ==
    ASSUME NEW n \in Nat \ {0}, NEW c, Cuts(c, n)
    PROVE  /\ \A i \in 0 .. n : c[i] \in Nat
           /\ \A j \in c[0] + 1 .. c[n] : \E i \in 1 .. n : j \in c[i - 1] + 1 .. c[i]
           /\ \A i \in 1 .. n : c[i] \in c[i - 1] + 1 .. c[i] /\ c[i - 1] + 1 \in c[i - 1] + 1 .. c[i]
           /\ \A i \in 1 .. n : \A j \in c[i - 1] + 1 .. c[i] : j \in c[0] + 1 .. c[n]
<1>1. \A i \in 0 .. n : c[i] \in Nat
    BY DEF Cuts
<1>2. \A i, j \in 0 .. n : i < j => c[i] < c[j]
    BY DEF Cuts
<1>3. ASSUME NEW j \in c[0] + 1 .. c[n] PROVE \E i \in 1 .. n : j \in c[i - 1] + 1 .. c[i]
  <2> DEFINE Over == {i \in 0 .. n : j <= c[i]}
  <2>1. 0 \in 0 .. n /\ n \in 0 .. n
      OBVIOUS
  <2>2. Over \in SUBSET Nat /\ n \in Over /\ 0 \notin Over
      BY <2>1, <1>1
  <2>3. PICK i \in Over : \A k \in Over : i <= k
      BY <2>2, Least
  <2>4. i \in 0 .. n /\ j <= c[i] /\ i # 0
      BY <2>2
  <2>5. i \in 1 .. n /\ i - 1 \in 0 .. n
      BY <2>4
  <2>6. i - 1 \notin Over
      BY <2>3, <2>5
  <2>7. ~(j <= c[i - 1])
      BY <2>5, <2>6
  <2> HIDE DEF Over
  <2>8. j \in c[i - 1] + 1 .. c[i]
      BY <2>1, <2>4, <2>5, <2>7, <1>1
  <2> QED BY <2>5, <2>8
<1>4. ASSUME NEW i \in 1 .. n
      PROVE  c[i] \in c[i - 1] + 1 .. c[i] /\ c[i - 1] + 1 \in c[i - 1] + 1 .. c[i]
  <2>1. i \in 0 .. n /\ i - 1 \in 0 .. n /\ i - 1 < i
      OBVIOUS
  <2>2. c[i - 1] < c[i] /\ c[i] \in Nat /\ c[i - 1] \in Nat
      BY <2>1, <1>1, <1>2
  <2> QED BY <2>2
<1>5. ASSUME NEW i \in 1 .. n, NEW j \in c[i - 1] + 1 .. c[i] PROVE j \in c[0] + 1 .. c[n]
  <2>1. /\ i \in 0 .. n /\ i - 1 \in 0 .. n /\ 0 \in 0 .. n /\ n \in 0 .. n
        /\ i - 1 = 0 \/ 0 < i - 1
        /\ i = n \/ i < n
      OBVIOUS
  <2>2. c[0] <= c[i - 1] /\ c[i] <= c[n]
    <3>1. c[0] <= c[i - 1]
        BY <2>1, <1>1, <1>2
    <3>2. c[i] <= c[n]
        BY <2>1, <1>1, <1>2
    <3> QED BY <3>1, <3>2
  <2> QED BY <2>1, <2>2, <1>1
<1> QED BY <1>1, <1>3, <1>4, <1>5

\* The last element of a short sequence.
LEMMA LastIs ==
    /\ \A r, x : r = <<x>> => r[Len(r)] = x
    /\ \A r, x, y : r = <<x, y>> => r[Len(r)] = y
    /\ \A r, x, y, z : r = <<x, y, z>> => r[Len(r)] = z
<1>1. ASSUME NEW r, NEW x, r = <<x>> PROVE r[Len(r)] = x
  <2>1. Len(<<x>>) = 1 /\ <<x>>[1] = x
      OBVIOUS
  <2> QED BY <1>1, <2>1
<1>2. ASSUME NEW r, NEW x, NEW y, r = <<x, y>> PROVE r[Len(r)] = y
  <2>1. Len(<<x, y>>) = 2 /\ <<x, y>>[2] = y
      OBVIOUS
  <2> QED BY <1>2, <2>1
<1>3. ASSUME NEW r, NEW x, NEW y, NEW z, r = <<x, y, z>> PROVE r[Len(r)] = z
  <2>1. Len(<<x, y, z>>) = 3 /\ <<x, y, z>>[3] = z
      OBVIOUS
  <2> QED BY <1>3, <2>1
<1> QED BY Zenon, <1>1, <1>2, <1>3

\* The last element of one that has been appended to.
LEMMA LastAppended ==
    ASSUME NEW S, NEW u \in Seq(S), NEW x \in S
    PROVE  Append(u, x) # << >> /\ Last(Append(u, x)) = x
<1>1. Len(Append(u, x)) = Len(u) + 1 /\ Append(u, x)[Len(u) + 1] = x /\ Len(u) \in Nat
    OBVIOUS
<1> QED BY <1>1 DEF Last

\* What the production of an ended phrase ends with.
LEMMA EndedLast ==
    ASSUME NEW p \in Productions, p.lhs \in Ended
    PROVE  p.rhs[Len(p.rhs)] \in Ended \/ p.rhs[Len(p.rhs)] = Semicolon
<1>1. \/ p.rhs = <<"declaration_specifiers", "init_declarator_list", Semicolon>>
      \/ p.rhs = <<"declaration_specifiers", Semicolon>>
      \/ p.rhs = <<"declaration">> \/ p.rhs = <<"external_declaration">>
      \/ p.rhs = <<"translation_unit", "external_declaration">>
    BY PhraseAssumption DEF Ended, DeclarationOK, ClosingOK
<1>2. \/ p.rhs[Len(p.rhs)] = Semicolon \/ p.rhs[Len(p.rhs)] = "declaration"
      \/ p.rhs[Len(p.rhs)] = "external_declaration"
  <2>1. CASE p.rhs = <<"declaration_specifiers", "init_declarator_list", Semicolon>>
      BY <2>1, LastIs
  <2>2. CASE p.rhs = <<"declaration_specifiers", Semicolon>>
      BY <2>2, LastIs
  <2>3. CASE p.rhs = <<"declaration">>
      BY <2>3, LastIs
  <2>4. CASE p.rhs = <<"external_declaration">>
      BY <2>4, LastIs
  <2>5. CASE p.rhs = <<"translation_unit", "external_declaration">>
      BY <2>5, LastIs
  <2> QED BY <1>1, <2>1, <2>2, <2>3, <2>4, <2>5
<1> QED BY <1>2 DEF Ended

\* What the first words are made into.
LEMMA FirstsAre ==
    ASSUME NEW p \in Productions
    PROVE  /\ p.lhs = "storage_class_specifier" =>
                 Len(p.rhs) = 1 /\ p.rhs[1] = "TYPEDEF" /\ p.rhs[1] \in Tokens
           /\ p.lhs = "type_specifier" =>
                 Len(p.rhs) = 1 /\ p.rhs[1] # "TYPEDEF" /\ p.rhs[1] \in Tokens
           /\ p.lhs = "identifier" =>
                 Len(p.rhs) = 1 /\ p.rhs[1] = "IDENTIFIER" /\ p.rhs[1] \in Tokens
<1>1. FirstsOK(p)
    BY PhraseAssumption
<1>2. /\ \A r : r = <<"TYPEDEF">> => Len(r) = 1 /\ r[1] = "TYPEDEF"
      /\ \A r : r = <<"IDENTIFIER">> => Len(r) = 1 /\ r[1] = "IDENTIFIER"
    OBVIOUS
<1>3. Len(p.rhs) = 1 => p.rhs[1] \in Phrases \cup Tokens
  <2>1. p.rhs \in Seq(Phrases \cup Tokens)
      BY ShapeAssumption
  <2> QED BY <2>1
<1>4. "TYPEDEF" \notin Phrases /\ "IDENTIFIER" \notin Phrases
    BY PhraseAssumption
<1> QED BY <1>1, <1>2, <1>3, <1>4 DEF FirstsOK

\* What is true of the words of each part is true of the words of the whole.
LEMMA PhraseWords ==
    ASSUME NEW src, NEW p \in Productions, NEW n, n = Len(p.rhs), NEW c, Cuts(c, n),
           \A i \in 1 .. n : WordsSay(src, p.rhs[i], c[i - 1] + 1, c[i])
    PROVE  WordsSay(src, p.lhs, c[0] + 1, c[n])
<1>1. n \in Nat \ {0} /\ 1 \in 1 .. n /\ n \in 1 .. n
  <2>1. n \in Nat \ {0}
      BY ParserAssumption DEF ProductionOK
  <2> QED BY <2>1
<1>2. /\ \A i \in 0 .. n : c[i] \in Nat
      /\ \A j \in c[0] + 1 .. c[n] : \E i \in 1 .. n : j \in c[i - 1] + 1 .. c[i]
    BY <1>1, Pieces
<1>3. /\ WordsSay(src, p.rhs[1], c[0] + 1, c[1])
      /\ WordsSay(src, p.rhs[n], c[n - 1] + 1, c[n])
  <2>1. 1 - 1 = 0
      OBVIOUS
  <2> QED BY <2>1, <1>1
<1>4. p.lhs \notin Tokens
    BY ShapeAssumption DEF Phrases
<1>5. ASSUME p.lhs \notin Ended \cup {Semicolon}
      PROVE  \A j \in c[0] + 1 .. c[n] : src[j].kind # Semicolon
  <2>1. \A i \in 1 .. n : p.rhs[i] \notin Ended \cup {Semicolon}
      BY <1>5, PhraseAssumption DEF ClosingOK
  <2>2. \A i \in 1 .. n : \A j \in c[i - 1] + 1 .. c[i] : src[j].kind # Semicolon
      BY <2>1 DEF WordsSay
  <2> QED BY <2>2, <1>2
<1>6. ASSUME p.lhs \in Ended PROVE src[c[n]].kind = Semicolon
  <2>1. p.rhs[n] \in Ended \/ p.rhs[n] = Semicolon
      BY <1>6, EndedLast
  <2>2. p.rhs[n] = Semicolon => Semicolon \in Tokens
    <3>1. p.rhs[n] \in Phrases \cup Tokens
        BY <1>1, ShapeAssumption
    <3> QED BY <3>1, PhraseAssumption
  <2> QED BY <2>1, <2>2, <1>3 DEF WordsSay
<1>7. ASSUME p.lhs \in Quiet PROVE \A j \in c[0] + 1 .. c[n] : src[j].kind # "IDENTIFIER"
  <2>1. \A i \in 1 .. n : p.rhs[i] \in Quiet
      BY <1>7, PhraseAssumption DEF QuietOK
  <2>2. \A i \in 1 .. n : \A j \in c[i - 1] + 1 .. c[i] : src[j].kind # "IDENTIFIER"
      BY <2>1 DEF WordsSay
  <2> QED BY <2>2, <1>2
<1>8. ASSUME n = 1, p.rhs[1] \in Tokens
      PROVE  c[0] + 1 = c[n] /\ src[c[0] + 1].kind = p.rhs[1] /\ src[c[n]].kind = p.rhs[1]
    BY <1>3, <1>8 DEF WordsSay
<1>9. p.lhs = "storage_class_specifier" => src[c[0] + 1].kind = "TYPEDEF"
  <2>1. p.lhs = "storage_class_specifier" => n = 1 /\ p.rhs[1] = "TYPEDEF"
      BY FirstsAre
  <2> QED BY <2>1, <1>8, FirstsAre
<1>10. p.lhs = "type_specifier" => src[c[0] + 1].kind # "TYPEDEF"
    BY <1>8, FirstsAre
<1>11. p.lhs = "identifier" => c[0] + 1 = c[n] /\ src[c[n]].kind = "IDENTIFIER"
    BY <1>8, FirstsAre
<1> QED BY <1>4, <1>5, <1>6, <1>7, <1>9, <1>10, <1>11 DEF WordsSay

\* The class of a declaration is that of its first word, and a name its own.
LEMMA PhraseText ==
    ASSUME NEW src, NEW p \in Productions, NEW n, n = Len(p.rhs), NEW c, Cuts(c, n),
           \A i \in 1 .. n : WordsSay(src, p.rhs[i], c[i - 1] + 1, c[i]),
           p.rhs[1] = "IDENTIFIER" /\ n = 1 => yytext = src[c[n]].text
    PROVE  TextSays(src, p.lhs, TextOf(p), c[0] + 1, c[n])
<1>1. n \in Nat \ {0} /\ WordsSay(src, p.rhs[1], c[0] + 1, c[1])
  <2>1. n \in Nat \ {0}
      BY ParserAssumption DEF ProductionOK
  <2>2. 1 \in 1 .. n /\ 1 - 1 = 0
      BY <2>1
  <2> QED BY <2>1, <2>2
<1>2. ASSUME p.lhs = "declaration_specifiers"
      PROVE  TextOf(p) = Typedef <=> src[c[0] + 1].kind = "TYPEDEF"
  <2>1. p.rhs[1] \in {"storage_class_specifier", "type_specifier"}
      BY <1>2, PhraseAssumption DEF FirstsOK
  <2>2. Typedef # NoText
      BY StoreAssumption, ParserAssumption
  <2>3. TextOf(p) = IF p.rhs[1] = "storage_class_specifier" THEN Typedef ELSE NoText
      BY <1>2 DEF TextOf
  <2> QED BY <2>1, <2>2, <2>3, <1>1 DEF WordsSay
<1>3. ASSUME p.lhs = "identifier" PROVE TextOf(p) = src[c[n]].text
  <2>1. p.rhs[1] = "IDENTIFIER" /\ n = 1
      BY <1>3, FirstsAre
  <2>2. TextOf(p) = yytext
      BY <1>3, <2>1 DEF TextOf
  <2> QED BY <2>1, <2>2
<1> QED BY <1>2, <1>3 DEF TextSays

\* A name declares itself, ...
LEMMA NamingSays ==
    ASSUME NEW src, NEW p \in Productions, NEW n, n = Len(p.rhs), NEW c, Cuts(c, n),
           \A i \in 1 .. n : WordsSay(src, p.rhs[i], c[i - 1] + 1, c[i]),
           Naming(p), NEW t, TextSays(src, "identifier", t, c[0] + 1, c[1])
    PROVE  NamesSay(src, p.lhs, TRUE, {t}, c[0] + 1, c[n])
<1>1. n = 1 /\ p.rhs[1] = "identifier"
    BY DEF Naming
<1>2. WordsSay(src, "identifier", c[0] + 1, c[1])
  <2>1. 1 \in 1 .. n /\ 1 - 1 = 0
      BY <1>1
  <2> QED BY <2>1, <1>1
<1>3. c[0] + 1 = c[1] /\ src[c[1]].kind = "IDENTIFIER" /\ t = src[c[1]].text
    BY <1>2 DEF WordsSay, TextSays
<1>4. c[1] \in Nat
    BY <1>1 DEF Cuts
<1>5. c[0] + 1 .. c[1] = {c[1]}
    BY <1>3, <1>4
<1>6. Ids(src, c[0] + 1, c[n]) = {t}
    BY <1>1, <1>3, <1>5 DEF Ids
<1> QED BY <1>6 DEF NamesSay

\* ... an array is not a name, ...
LEMMA NamelessSays ==
    ASSUME NEW src, NEW p \in Productions, NEW n, n = Len(p.rhs), NEW c, Cuts(c, n),
           \A i \in 1 .. n : WordsSay(src, p.rhs[i], c[i - 1] + 1, c[i]),
           Nameless(p), NEW names
    PROVE  NamesSay(src, p.lhs, FALSE, names, c[0] + 1, c[n])
<1>1. PICK i \in 1 .. n : p.rhs[i] = Brackets
    BY DEF Nameless
<1>2. n \in Nat \ {0}
    BY ParserAssumption DEF ProductionOK
<1>3. src[c[i]].kind = Brackets
    BY <1>1 DEF WordsSay, Nameless
<1>4. c[i] \in c[0] + 1 .. c[n]
    BY <1>2, Pieces
<1> QED BY <1>3, <1>4 DEF NamesSay

\* ... what is made of a declarator is what it was, ...
LEMMA PassingSays ==
    ASSUME NEW src, NEW p \in Productions, NEW n, n = Len(p.rhs), NEW c, Cuts(c, n),
           \A i \in 1 .. n : WordsSay(src, p.rhs[i], c[i - 1] + 1, c[i]),
           Passing(p), NEW all, NEW names,
           NamesSay(src, p.rhs[p.arg], all, names, c[p.arg - 1] + 1, c[p.arg])
    PROVE  NamesSay(src, p.lhs, all, names, c[0] + 1, c[n])
<1>1. n \in Nat \ {0} /\ p.arg \in 1 .. n
    BY ParserAssumption DEF ProductionOK, Passing
<1>2. /\ \A j \in c[0] + 1 .. c[n] : \E i \in 1 .. n : j \in c[i - 1] + 1 .. c[i]
      /\ \A i \in 1 .. n : \A j \in c[i - 1] + 1 .. c[i] : j \in c[0] + 1 .. c[n]
    BY <1>1, Pieces
<1>3. \A i \in 1 .. n : i # p.arg =>
          \A j \in c[i - 1] + 1 .. c[i] : src[j].kind # "IDENTIFIER"
    BY DEF Passing, WordsSay
<1>4. Ids(src, c[0] + 1, c[n]) = Ids(src, c[p.arg - 1] + 1, c[p.arg])
  <2> DEFINE whole == c[0] + 1 .. c[n]
             part == c[p.arg - 1] + 1 .. c[p.arg]
  <2>1. \A j \in part : j \in whole
      BY <1>1, <1>2
  <2>2. \A j \in whole : j \in part \/ src[j].kind # "IDENTIFIER"
      BY <1>2, <1>3
  <2> HIDE DEF whole, part
  <2>3. {j \in whole : src[j].kind = "IDENTIFIER"} = {j \in part : src[j].kind = "IDENTIFIER"}
      BY <2>1, <2>2
  <2> QED BY <2>3 DEF Ids, whole, part
<1>5. p.rhs[p.arg] \in Declaring
    BY DEF Passing
<1>6. CASE all
    BY <1>4, <1>5, <1>6 DEF NamesSay
<1>7. CASE ~all
  <2>1. PICK j \in c[p.arg - 1] + 1 .. c[p.arg] : src[j].kind = Brackets
      BY <1>5, <1>7 DEF NamesSay
  <2> QED BY <2>1, <1>1, <1>2, <1>7 DEF NamesSay
<1> QED BY <1>6, <1>7

\* ... and a list what its members were.
LEMMA ListingSays ==
    ASSUME NEW src, NEW p \in Productions, NEW n, n = Len(p.rhs), NEW c, Cuts(c, n),
           \A i \in 1 .. n : WordsSay(src, p.rhs[i], c[i - 1] + 1, c[i]),
           Listing(p), NEW all1, NEW names1, NEW all3, NEW names3,
           NamesSay(src, p.rhs[1], all1, names1, c[0] + 1, c[1]),
           NamesSay(src, p.rhs[3], all3, names3, c[2] + 1, c[3])
    PROVE  NamesSay(src, p.lhs, all1 /\ all3, names1 \cup names3, c[0] + 1, c[n])
<1>1. /\ n = 3 /\ p.rhs[1] = "init_declarator_list" /\ p.rhs[2] \in Quiet
      /\ p.rhs[3] = "init_declarator"
    BY DEF Listing
<1>2. /\ \A j \in c[0] + 1 .. c[n] : \E i \in 1 .. n : j \in c[i - 1] + 1 .. c[i]
      /\ \A i \in 1 .. n : \A j \in c[i - 1] + 1 .. c[i] : j \in c[0] + 1 .. c[n]
    BY <1>1, Pieces
<1>3. /\ \A j \in c[0] + 1 .. c[n] : \/ j \in c[0] + 1 .. c[1] \/ j \in c[1] + 1 .. c[2]
                                     \/ j \in c[2] + 1 .. c[3]
      /\ \A j \in c[0] + 1 .. c[1] : j \in c[0] + 1 .. c[n]
      /\ \A j \in c[2] + 1 .. c[3] : j \in c[0] + 1 .. c[n]
  <2>1. /\ \A i \in 1 .. n : i = 1 \/ i = 2 \/ i = 3
        /\ 1 \in 1 .. n /\ 3 \in 1 .. n /\ 1 - 1 = 0 /\ 2 - 1 = 1 /\ 3 - 1 = 2
      BY <1>1
  <2> QED BY <2>1, <1>2
<1>4. \A j \in c[1] + 1 .. c[2] : src[j].kind # "IDENTIFIER"
  <2>1. 2 \in 1 .. n /\ 2 - 1 = 1
      BY <1>1
  <2> QED BY <2>1, <1>1 DEF WordsSay
<1>5. Ids(src, c[0] + 1, c[n]) = Ids(src, c[0] + 1, c[1]) \cup Ids(src, c[2] + 1, c[3])
  <2> DEFINE whole == c[0] + 1 .. c[n]
             first == c[0] + 1 .. c[1]
             last == c[2] + 1 .. c[3]
  <2>1. \A j \in whole : j \in first \/ j \in last \/ src[j].kind # "IDENTIFIER"
      BY <1>3, <1>4
  <2>2. /\ \A j \in first : j \in whole
        /\ \A j \in last : j \in whole
      BY <1>3
  <2> HIDE DEF whole, first, last
  <2>3. {j \in whole : src[j].kind = "IDENTIFIER"} =
           {j \in first : src[j].kind = "IDENTIFIER"} \cup {j \in last : src[j].kind = "IDENTIFIER"}
      BY <2>1, <2>2
  <2> QED BY <2>3 DEF Ids, whole, first, last
<1>6. p.rhs[1] \in Declaring /\ p.rhs[3] \in Declaring
    BY <1>1 DEF Declaring
<1>7. CASE all1 /\ all3
    BY <1>5, <1>6, <1>7 DEF NamesSay
<1>8. CASE ~all1
  <2>1. PICK j \in c[0] + 1 .. c[1] : src[j].kind = Brackets
      BY <1>6, <1>8 DEF NamesSay
  <2> QED BY <2>1, <1>3, <1>8 DEF NamesSay
<1>9. CASE ~all3
  <2>1. PICK j \in c[2] + 1 .. c[3] : src[j].kind = Brackets
      BY <1>6, <1>9 DEF NamesSay
  <2> QED BY <2>1, <1>3, <1>9 DEF NamesSay
<1> QED BY <1>7, <1>8, <1>9

-----------------------------------------------------------------------------
(***************************************************************************)
(* What the loop in add_typenames would find from a node on: whether all   *)
(* the declarators to its left are named, and their names.                 *)
(***************************************************************************)
NodesOK == node \in [Addr -> Nodes]

HeadsFollow ==
    /\ Heads[Null] = {}
    /\ \A a \in Addr : Heads[a] = {a} \cup Heads[node[a].refs[LeftField]]

NamedNodes == {a \in Addr : \A h \in Heads[a] : node[h].refs[IdField] # Null}
NamesOf == [a \in Addr |-> {node[node[h].refs[IdField]].text : h \in Heads[a]}]

\* One declarator, and what is to its left.
NamesFollow ==
    \A a \in Addr : LET left == node[a].refs[LeftField]
                        id   == node[a].refs[IdField]
                    IN  /\ a \in NamedNodes <=> id # Null /\ (left = Null \/ left \in NamedNodes)
                        /\ NamesOf[a] = {node[id].text}
                                        \cup (IF left = Null THEN {} ELSE NamesOf[left])

\* They are found that way, since no node is below itself,
LEMMA HeadsDo == NodesOK => HeadsFollow
    BY HeadsAre DEF NodesOK, HeadsFollow

\* also after a step.
LEMMA HeadsDoNext == NodesOK' => HeadsFollow'
    BY HeadsDo, PTL

\* So are their names,
LEMMA NamesDo == NodesOK => NamesFollow
<1> SUFFICES ASSUME NodesOK, NEW a \in Addr
             PROVE  LET left == node[a].refs[LeftField]
                        id   == node[a].refs[IdField]
                    IN  /\ a \in NamedNodes <=> id # Null /\ (left = Null \/ left \in NamedNodes)
                        /\ NamesOf[a] = {node[id].text}
                                        \cup (IF left = Null THEN {} ELSE NamesOf[left])
    BY DEF NamesFollow
<1> DEFINE left == node[a].refs[LeftField]
           id == node[a].refs[IdField]
<1>1. HeadsFollow
    BY HeadsDo
<1>2. left \in Addr \cup {Null} /\ Heads[a] = {a} \cup Heads[left] /\ Heads[Null] = {}
    BY <1>1, ParserAssumption DEF HeadsFollow, NodesOK, Nodes
<1> HIDE DEF left, Heads
<1>3. a \in NamedNodes <=> id # Null /\ (left = Null \/ left \in NamedNodes)
    BY <1>2, StoreAssumption DEF NamedNodes
<1>4. NamesOf[a] = {node[id].text} \cup (IF left = Null THEN {} ELSE NamesOf[left])
  <2>1. \A b \in Addr : NamesOf[b] = {node[node[h].refs[IdField]].text : h \in Heads[b]}
      BY DEF NamesOf
  <2>2. NamesOf[a] = {node[id].text} \cup {node[node[h].refs[IdField]].text : h \in Heads[left]}
      BY <2>1, <1>2
  <2>3. left = Null => {node[node[h].refs[IdField]].text : h \in Heads[left]} = {}
      BY <1>2
  <2>4. left # Null => {node[node[h].refs[IdField]].text : h \in Heads[left]} = NamesOf[left]
      BY <2>1, <1>2
  <2> QED BY <2>2, <2>3, <2>4
<1> QED BY <1>3, <1>4 DEF left

\* also after a step.
LEMMA NamesDoNext == NodesOK' => NamesFollow'
    BY NamesDo, PTL

\* The nodes that a step leaves alone which gives `old' back.
Region(old) == {b \in Addr : Live(b) /\ b # old}

\* They do not point to it, if the stack holds it.
LEMMA RegionClosed ==
    ASSUME StoreInv, NEW old, old = Null \/ \E i \in 1 .. Len(yyvs) : yyvs[i] = old,
           NEW b \in Addr, Live(b), NEW f \in Fields, node[b].refs[f] # Null
    PROVE  node[b].refs[f] \in Region(old)
<1>1. /\ node \in [Addr -> Nodes] /\ RefsLive /\ OffStack /\ StackLive
      /\ b \in Addr /\ Live(b)
    BY DEF StoreInv, StoreOK, Nodes, Region
<1>2. node[b].refs[f] \in Addr /\ Live(node[b].refs[f])
    BY <1>1 DEF RefsLive, Nodes
<1>3. node[b].refs[f] # old
  <2>1. CASE old = Null
      BY <2>1
  <2>2. ASSUME NEW i \in 1 .. Len(yyvs), yyvs[i] = old, node[b].refs[f] = old
        PROVE  FALSE
    <3>1. node[old].type \in Types /\ node[old].type # Unset
        BY <2>2, <1>1, StoreAssumption DEF StackLive
    <3> QED BY <2>2, <3>1, <1>1 DEF OffStack, Live
  <2> QED BY <2>1, <2>2
<1> QED BY <1>2, <1>3 DEF Region

\* So they have the same declarators to their left.
LEMMA HeadsKept ==
    ASSUME NodesOK, NodesOK', Ranked, NEW S \in SUBSET Addr,
           \A b \in S : /\ Live(b) /\ node'[b] = node[b]
                        /\ node[b].refs[LeftField] # Null => node[b].refs[LeftField] \in S
    PROVE  \A v \in S : Heads'[v] = Heads[v] /\ Heads[v] \subseteq S
<1>1. PICK n \in Nat : \E rank : Ranking(rank, n)
    BY DEF Ranked
<1>2. PICK rank : Ranking(rank, n)
    BY <1>1
<1> DEFINE next(b) == node[b].refs[LeftField]
           Good == {k \in Nat : \A b \in S : rank[b] < k =>
                                   Heads'[b] = Heads[b] /\ Heads[b] \subseteq S}
<1>3. HeadsFollow /\ HeadsFollow'
    BY HeadsDo, HeadsDoNext
<1>4. Heads[Null] = {} /\ Heads'[Null] = {}
    BY <1>3 DEF HeadsFollow
<1>5. ASSUME NEW b \in S
      PROVE  /\ Heads[b] = {b} \cup Heads[next(b)] /\ Heads'[b] = {b} \cup Heads'[next(b)]
             /\ rank[b] \in Nat
             /\ next(b) # Null => next(b) \in S /\ rank[next(b)] < rank[b]
  <2>1. b \in Addr /\ Live(b) /\ node'[b] = node[b] /\ LeftField \in Fields
      BY ParserAssumption
  <2>2. Heads[b] = {b} \cup Heads[next(b)]
      BY <2>1, <1>3 DEF HeadsFollow
  <2>3. Heads'[b] = {b} \cup Heads'[next(b)]
      BY <2>1, <1>3 DEF HeadsFollow
  <2>4. rank[b] \in 0 .. n
      BY <2>1, <1>2 DEF Ranking
  <2>5. next(b) # Null => next(b) \in S /\ rank[next(b)] < rank[b]
      BY <2>1, <1>2 DEF Ranking
  <2> HIDE DEF Heads, next
  <2>6. rank[b] \in Nat
      BY <2>4, <1>1
  <2> QED BY <2>2, <2>3, <2>5, <2>6
<1> HIDE DEF Heads, next
<1>6. 0 \in Good
    BY <1>5
<1>7. ASSUME NEW k \in Good PROVE k + 1 \in Good
  <2> SUFFICES ASSUME NEW b \in S, rank[b] < k + 1
               PROVE  Heads'[b] = Heads[b] /\ Heads[b] \subseteq S
      OBVIOUS
  <2>0. Heads[b] = {b} \cup Heads[next(b)] /\ Heads'[b] = {b} \cup Heads'[next(b)]
      BY <1>5
  <2>1. CASE next(b) = Null
    <3>1. Heads[next(b)] = {} /\ Heads'[next(b)] = {}
        BY <2>1, <1>4
    <3> HIDE DEF Good
    <3> QED BY <2>0, <3>1
  <2>2. CASE next(b) # Null
    <3>1. rank[next(b)] < k /\ next(b) \in S
      <4>1. rank[next(b)] < rank[b] /\ next(b) \in S /\ rank[b] \in Nat
            /\ rank[next(b)] \in Nat
          BY <2>2, <1>5
      <4> QED BY <4>1
    <3>2. Heads'[next(b)] = Heads[next(b)] /\ Heads[next(b)] \subseteq S
        BY <3>1
    <3> HIDE DEF Good
    <3> QED BY <2>0, <3>2
  <2> QED BY <2>1, <2>2
<1>8. Good = Nat
  <2> HIDE DEF Good
  <2>1. Good \in SUBSET Nat
      BY DEF Good
  <2> QED BY <2>1, <1>6, <1>7, Induction
<1>9. ASSUME NEW v \in S PROVE Heads'[v] = Heads[v] /\ Heads[v] \subseteq S
  <2>1. rank[v] \in Nat
      BY <1>5
  <2>2. rank[v] + 1 \in Good /\ rank[v] < rank[v] + 1
    <3> HIDE DEF Good
    <3> QED BY <2>1, <1>8
  <2> QED BY <2>2
<1> QED BY <1>9

\* And the same names, where all have one.
LEMMA NamesKept ==
    ASSUME NodesOK, NodesOK', Ranked, NEW S \in SUBSET Addr,
           \A b \in S : /\ Live(b) /\ node'[b] = node[b]
                        /\ \A f \in Fields : node[b].refs[f] # Null => node[b].refs[f] \in S
    PROVE  \A v \in S : /\ v \in NamedNodes' <=> v \in NamedNodes
                        /\ v \in NamedNodes => NamesOf'[v] = NamesOf[v]
<1>1. IdField \in Fields /\ LeftField \in Fields
    BY ParserAssumption
<1>2. \A v \in S : Heads'[v] = Heads[v] /\ Heads[v] \subseteq S
    BY <1>1, HeadsKept
<1>3. \A a \in Addr :
          /\ a \in NamedNodes <=> \A h \in Heads[a] : node[h].refs[IdField] # Null
          /\ a \in NamedNodes' <=> \A h \in Heads'[a] : node'[h].refs[IdField] # Null
          /\ NamesOf[a] = {node[node[h].refs[IdField]].text : h \in Heads[a]}
          /\ NamesOf'[a] = {node'[node'[h].refs[IdField]].text : h \in Heads'[a]}
    BY DEF NamedNodes, NamesOf
<1> HIDE DEF Heads, NamedNodes, NamesOf
<1>4. ASSUME NEW v \in S PROVE v \in NamedNodes' <=> v \in NamedNodes
  <2>1. \A h \in Heads[v] : node'[h] = node[h]
      BY <1>2
  <2> QED BY <2>1, <1>2, <1>3
<1>5. ASSUME NEW v \in S, v \in NamedNodes PROVE NamesOf'[v] = NamesOf[v]
  <2>1. \A h \in Heads[v] : /\ node'[h] = node[h]
                            /\ node'[node[h].refs[IdField]] = node[node[h].refs[IdField]]
    <3> SUFFICES ASSUME NEW h \in Heads[v]
                 PROVE  /\ node'[h] = node[h]
                        /\ node'[node[h].refs[IdField]] = node[node[h].refs[IdField]]
        OBVIOUS
    <3>1. h \in S /\ node[h].refs[IdField] # Null
        BY <1>2, <1>3, <1>5
    <3>2. node[h].refs[IdField] \in S
        BY <3>1, <1>1
    <3> QED BY <3>1, <3>2
  <2>2. NamesOf'[v] = {node'[node'[h].refs[IdField]].text : h \in Heads[v]}
      BY <1>2, <1>3
  <2>3. NamesOf[v] = {node[node[h].refs[IdField]].text : h \in Heads[v]}
      BY <1>3
  <2> QED BY <2>1, <2>2, <2>3
<1> QED BY <1>4, <1>5

-----------------------------------------------------------------------------
(***************************************************************************)
(* The words read, and the symbols that are made of them.                  *)
(***************************************************************************)
Consumed == IF la = None THEN Len(source) ELSE Len(source) - 1

ReadInv ==
    /\ source \in Seq(Reads)
    /\ la # None => /\ source # << >> /\ la = source[Len(source)]
                    /\ Under \notin {"IDENTIFIER", Semicolon}
    /\ source # << >> => yytext = source[Len(source)].text

Spans(cut) ==
    /\ Cuts(cut, Len(syms)) /\ cut[0] = 0 /\ cut[Len(syms)] = Consumed
    /\ \A i \in 1 .. Len(syms) :
          /\ WordsSay(source, syms[i], cut[i - 1] + 1, cut[i])
          /\ TextSays(source, syms[i], node[yyvs[i]].text, cut[i - 1] + 1, cut[i])
          /\ NamesSay(source, syms[i], yyvs[i] \in NamedNodes, NamesOf[yyvs[i]],
                      cut[i - 1] + 1, cut[i])

Spanned == \E cut : Spans(cut)

\* The same for the arguments of a production of n symbols.
Args(p, n, c) ==
    /\ Cuts(c, n)
    /\ \A i \in 1 .. n :
          /\ WordsSay(source, p.rhs[i], c[i - 1] + 1, c[i])
          /\ TextSays(source, p.rhs[i], node[Arg(n, i)].text, c[i - 1] + 1, c[i])
          /\ NamesSay(source, p.rhs[i], Arg(n, i) \in NamedNodes, NamesOf[Arg(n, i)],
                      c[i - 1] + 1, c[i])

\* The last pieces of a sequence are pieces.
LEMMA LastCuts ==
    ASSUME NEW m \in Nat, NEW n \in Nat, n <= m, NEW cut, Cuts(cut, m),
           NEW c, c = [i \in 0 .. n |-> cut[m - n + i]]
    PROVE  Cuts(c, n)
<1>1. cut \in [0 .. m -> Nat] /\ \A i, j \in 0 .. m : i < j => cut[i] < cut[j]
    BY DEF Cuts
<1>2. \A i \in 0 .. n : m - n + i \in 0 .. m /\ c[i] = cut[m - n + i]
    OBVIOUS
<1>3. c \in [0 .. n -> Nat]
    BY <1>1, <1>2
<1>4. ASSUME NEW i \in 0 .. n, NEW j \in 0 .. n, i < j PROVE c[i] < c[j]
  <2>1. m - n + i < m - n + j
      BY <1>4
  <2> QED BY <2>1, <1>1, <1>2
<1> QED BY <1>3, <1>4 DEF Cuts

\* The arguments of a complete production are what the words at the end of the source say.
LEMMA ArgumentsSay ==
    ASSUME ParserInv, NEW p \in Productions, Handle(p), NEW n, n = Len(p.rhs), NEW cut, Spans(cut)
    PROVE  \E c : /\ Args(p, n, c) /\ c[n] = Consumed
                  /\ c[0] = cut[Len(syms) - n]
                  /\ n > 1 => c[1] = cut[Len(syms) - n + 1]
<1> DEFINE m == Len(syms)
<1>1. /\ syms \in Seq(Symbols) /\ Len(yyvs) = m
      /\ n \in Nat \ {0} /\ n <= m /\ m \in Nat
      /\ \A i \in 1 .. n : p.rhs[i] = syms[m - n + i]
    BY UnderHandle DEF ParserInv
<1>2. \A i \in 1 .. n : Arg(n, i) = yyvs[m - n + i]
  <2> SUFFICES ASSUME NEW i \in 1 .. n PROVE Arg(n, i) = yyvs[m - n + i]
      OBVIOUS
  <2>1. Arg(n, i) = yyvs[Len(yyvs) - n + i]
      BY TheArgument
  <2> QED BY <2>1, <1>1
<1>3. /\ cut \in [0 .. m -> Nat] /\ \A i, j \in 0 .. m : i < j => cut[i] < cut[j]
      /\ cut[m] = Consumed
      /\ \A i \in 1 .. m :
            /\ WordsSay(source, syms[i], cut[i - 1] + 1, cut[i])
            /\ TextSays(source, syms[i], node[yyvs[i]].text, cut[i - 1] + 1, cut[i])
            /\ NamesSay(source, syms[i], yyvs[i] \in NamedNodes, NamesOf[yyvs[i]],
                        cut[i - 1] + 1, cut[i])
    BY DEF Spans, Cuts
<1> HIDE DEF m
<1>4. PICK c : c = [i \in 0 .. n |-> cut[m - n + i]]
    OBVIOUS
<1>5. \A i \in 0 .. n : m - n + i \in 0 .. m /\ c[i] = cut[m - n + i]
    BY <1>1, <1>4
<1>6. Cuts(c, n)
  <2>1. n \in Nat /\ m \in Nat /\ n <= m /\ Cuts(cut, m)
      BY <1>1, <1>3 DEF Cuts
  <2> QED BY Zenon, <2>1, <1>4, LastCuts
<1>7. ASSUME NEW i \in 1 .. n
      PROVE  /\ WordsSay(source, p.rhs[i], c[i - 1] + 1, c[i])
             /\ TextSays(source, p.rhs[i], node[Arg(n, i)].text, c[i - 1] + 1, c[i])
             /\ NamesSay(source, p.rhs[i], Arg(n, i) \in NamedNodes, NamesOf[Arg(n, i)],
                         c[i - 1] + 1, c[i])
  <2>1. /\ m - n + i \in 1 .. m /\ i \in 0 .. n /\ i - 1 \in 0 .. n
        /\ (m - n + i) - 1 = m - n + (i - 1)
      BY <1>1
  <2>2. /\ c[i] = cut[m - n + i] /\ c[i - 1] = cut[(m - n + i) - 1]
        /\ Arg(n, i) = yyvs[m - n + i] /\ p.rhs[i] = syms[m - n + i]
    <3>1. c[i - 1] = cut[m - n + (i - 1)] /\ c[i] = cut[m - n + i]
        BY <2>1, <1>5
    <3> QED BY <3>1, <2>1, <1>1, <1>2
  <2> QED BY <2>1, <2>2, <1>3
<1>8. Args(p, n, c)
    BY <1>6, <1>7 DEF Args
<1>9. c[n] = cut[m] /\ c[0] = cut[m - n] /\ (n > 1 => c[1] = cut[m - n + 1])
  <2>1. 0 \in 0 .. n /\ n \in 0 .. n /\ 1 \in 0 .. n /\ m - n + n = m /\ m - n + 0 = m - n
      BY <1>1
  <2>2. c[0] = cut[m - n + 0] /\ c[n] = cut[m - n + n] /\ c[1] = cut[m - n + 1]
      BY <2>1, <1>5
  <2> QED BY <2>1, <2>2
<1> QED BY <1>3, <1>8, <1>9 DEF m

\* What is on the stack and not given back says what it said.
LEMMA StaysSaid ==
    ASSUME TypesInv, NodesOK', NEW old,
           old = Null \/ \E i \in 1 .. Len(yyvs) : yyvs[i] = old,
           \A b \in Region(old) : node'[b] = node[b],
           NEW v \in Region(old)
    PROVE  /\ node'[v] = node[v]
           /\ v \in NamedNodes' <=> v \in NamedNodes
           /\ v \in NamedNodes => NamesOf'[v] = NamesOf[v]
<1>1. StoreInv /\ NodesOK /\ Ranked
    BY DEF TypesInv, TreeInv, ParserInv, StoreInv, StoreOK, NodesOK, Nodes
<1>2. Region(old) \in SUBSET Addr /\ \A b \in Region(old) : Live(b)
    BY DEF Region
<1>3. \A b \in Region(old) : \A f \in Fields :
          node[b].refs[f] # Null => node[b].refs[f] \in Region(old)
    BY <1>1, <1>2, RegionClosed
<1>4. PICK S : S = Region(old)
    OBVIOUS
<1> HIDE DEF NamedNodes, NamesOf
<1>5. /\ S \in SUBSET Addr
      /\ \A b \in S : /\ Live(b) /\ node'[b] = node[b]
                      /\ \A f \in Fields : node[b].refs[f] # Null => node[b].refs[f] \in S
    BY <1>2, <1>3, <1>4
<1>6. \A w \in S : /\ w \in NamedNodes' <=> w \in NamedNodes
                   /\ w \in NamedNodes => NamesOf'[w] = NamesOf[w]
    BY <1>1, <1>5, NamesKept
<1> QED BY <1>4, <1>5, <1>6

\* A new node says what its production makes of its arguments.
LEMMA NNSays ==
    ASSUME TypesInv, NodesOK', ReadInv, NEW p \in Productions, Reduce(p), p.op = "NN",
           NEW a \in Fresh, NN(a, p.lhs, TextOf(p), Len(p.rhs), RefsOf(p)),
           NEW n, n = Len(p.rhs), NEW c, Args(p, n, c), c[n] = Consumed
    PROVE  /\ \A b \in Region(Null) : node'[b] = node[b]
           /\ TextSays(source, p.lhs, node'[a].text, c[0] + 1, c[n])
           /\ NamesSay(source, p.lhs, a \in NamedNodes', NamesOf'[a], c[0] + 1, c[n])
<1> DEFINE made == [type |-> p.lhs, text |-> TextOf(p), refs |-> RefsOf(p)]
<1>1. node' = [node EXCEPT ![a] = made] /\ a \in Addr /\ node[a].type = Free
    BY Zenon DEF NN, Allocated, Fresh
<1>2. /\ ParserInv /\ StoreInv /\ node \in [Addr -> Nodes] /\ Handle(p)
    BY DEF TypesInv, TreeInv, ParserInv, StoreInv, StoreOK, Nodes, Reduce, Ready
<1>3. /\ made.text = TextOf(p) /\ made.refs = RefsOf(p)
    OBVIOUS
<1> HIDE DEF made
<1>4. node'[a].text = TextOf(p) /\ node'[a].refs = RefsOf(p)
    BY <1>1, <1>2, <1>3
<1>5. \A b \in Region(Null) : node'[b] = node[b]
    BY <1>1, <1>2 DEF Region, Live
<1>6. /\ Cuts(c, n)
      /\ \A i \in 1 .. n :
            /\ WordsSay(source, p.rhs[i], c[i - 1] + 1, c[i])
            /\ TextSays(source, p.rhs[i], node[Arg(n, i)].text, c[i - 1] + 1, c[i])
    BY DEF Args
<1>7. n \in Nat \ {0}
    BY ParserAssumption DEF ProductionOK
<1>8. p.rhs[1] = "IDENTIFIER" /\ n = 1 => yytext = source[c[n]].text
  <2>1. ASSUME p.rhs[1] = "IDENTIFIER", n = 1 PROVE la = None
    <3>1. Under = "IDENTIFIER"
        BY <1>2, <2>1 DEF Handle, Last
    <3> QED BY <3>1 DEF ReadInv
  <2>2. ASSUME la = None PROVE yytext = source[c[n]].text
    <3>1. c[n] = Len(source)
        BY <2>2 DEF Consumed
    <3>2. c[0] \in Nat /\ c[0] < c[n]
        BY <1>6, <1>7 DEF Cuts
    <3>3. source # << >>
        BY <3>1, <3>2
    <3> QED BY <3>1, <3>3 DEF ReadInv
  <2> QED BY <2>1, <2>2
<1>9. TextSays(source, p.lhs, node'[a].text, c[0] + 1, c[n])
    BY <1>4, <1>6, <1>8, PhraseText
<1>10. CASE p.lhs \notin Declaring
    BY <1>5, <1>9, <1>10 DEF NamesSay
<1>11. NamesFollow'
    BY NamesDoNext
<1>12. CASE Naming(p)
  <2> DEFINE v == Arg(n, 1)
  <2>1. 1 \in 1 .. n /\ p.rhs[1] = "identifier" /\ 1 - 1 = 0
      BY <1>7, <1>12 DEF Naming
  <2>2. p.rhs[1] \in Types /\ Free \notin Types
      BY <2>1, PhraseAssumption, StoreAssumption
  <2>3. v # Null /\ v \in Addr /\ node[v].type \in Types
    <3>1. /\ Arg(n, 1) \in Addr \cup {Null}
          /\ p.rhs[1] \in Types => Arg(n, 1) # Null /\ node[Arg(n, 1)].type = p.rhs[1]
        BY <1>2, <2>1, Arguments
    <3> QED BY <3>1, <2>2
  <2>4. RefsOf(p)[IdField] = v /\ RefsOf(p)[LeftField] = Null
    <3>1. /\ IdField \in DOMAIN p.refs /\ p.refs[IdField] = 1 /\ LeftField \notin DOMAIN p.refs
          /\ IdField \in Fields /\ LeftField \in Fields
        BY <1>12, ParserAssumption DEF Naming
    <3> QED BY <3>1 DEF RefsOf
  <2>5. node'[v] = node[v]
      BY <2>2, <2>3, <1>5, StoreAssumption DEF Region, Live
  <2> HIDE DEF v, NamedNodes, NamesOf
  <2>6. a \in NamedNodes' /\ NamesOf'[a] = {node[v].text}
      BY <2>3, <2>4, <2>5, <1>1, <1>4, <1>11 DEF NamesFollow
  <2>7. TextSays(source, "identifier", node[v].text, c[0] + 1, c[1])
      BY <2>1, <1>6 DEF v
  <2>8. NamesSay(source, p.lhs, TRUE, {node[v].text}, c[0] + 1, c[n])
      BY <2>7, <1>6, <1>12, NamingSays
  <2>9. NamesSay(source, p.lhs, a \in NamedNodes', NamesOf'[a], c[0] + 1, c[n])
      BY <2>6, <2>8 DEF NamesSay
  <2> QED BY <2>9, <1>5, <1>9
<1>13. CASE Nameless(p)
  <2>1. RefsOf(p)[IdField] = Null
    <3>1. IdField \notin DOMAIN p.refs /\ IdField \in Fields
        BY <1>13, ParserAssumption DEF Nameless, TakesNone
    <3> QED BY <3>1 DEF RefsOf
  <2> HIDE DEF NamedNodes, NamesOf
  <2>2. a \notin NamedNodes'
      BY <2>1, <1>1, <1>4, <1>11 DEF NamesFollow
  <2>3. NamesSay(source, p.lhs, FALSE, NamesOf'[a], c[0] + 1, c[n])
      BY <1>6, <1>13, NamelessSays
  <2>4. NamesSay(source, p.lhs, a \in NamedNodes', NamesOf'[a], c[0] + 1, c[n])
      BY <2>2, <2>3 DEF NamesSay
  <2> QED BY <2>4, <1>5, <1>9
<1> QED BY <1>10, <1>12, <1>13, PhraseAssumption DEF DeclaringOK, Passing, Listing

\* What an upgrade leaves in the fields: what the action puts there, where nothing was, and
\* what the old node held.
LEMMA UNRefs ==
    ASSUME TreeInv, NEW p \in Productions, Handle(p), p.op = "UN",
           NEW n, n = Len(p.rhs), NEW old, old = Arg(n, p.arg), old # Null
    PROVE  /\ p.arg \in 1 .. n /\ old \in Addr /\ node[old].type \in Types
           /\ \E i \in 1 .. Len(yyvs) : yyvs[i] = old
           /\ \A f \in Fields : Copied(old, RefsOf(p))[f] =
                 IF f \in DOMAIN p.refs THEN Arg(n, p.refs[f]) ELSE node[old].refs[f]
           /\ \A f \in DOMAIN p.refs : f \in Fields /\ node[old].refs[f] = Null
<1>1. ParserInv /\ FitsSchema /\ node \in [Addr -> Nodes]
    BY DEF TreeInv, ParserInv, StoreInv, StoreOK, Nodes
<1>2. /\ p.arg \in 1 .. n /\ DOMAIN p.refs \subseteq Fields
      /\ \A f \in DOMAIN p.refs : p.refs[f] # 0
    BY ParserAssumption DEF ProductionOK
<1>3. old \in Addr /\ node[old].type = p.rhs[p.arg] /\ node[old].type \in Types
      /\ Len(yyvs) - n + p.arg \in 1 .. Len(yyvs) /\ old = yyvs[Len(yyvs) - n + p.arg]
  <2>1. /\ Len(yyvs) - n + p.arg \in 1 .. Len(yyvs)
        /\ Arg(n, p.arg) = yyvs[Len(yyvs) - n + p.arg] /\ Arg(n, p.arg) \in Addr \cup {Null}
        /\ Arg(n, p.arg) # Null => /\ p.rhs[p.arg] \in Types
                                   /\ node[Arg(n, p.arg)].type = p.rhs[p.arg]
      BY <1>1, <1>2, TheNode
  <2> QED BY <2>1
<1>4. \A f \in DOMAIN p.refs : Place[f][1] \notin Layers[node[old].type]
    BY <1>3, KeepingAssumption DEF Keeps
<1>5. \A f \in Fields : node[old].refs[f] # Null => Place[f][1] \in Layers[node[old].type]
  <2>1. node[old].type # Free
      BY <1>3, StoreAssumption
  <2>2. \A f \in Fields : node[old].refs[f] # Null => <<node[old].type, f>> \in Owning
      BY <2>1, <1>1, <1>3 DEF FitsSchema
  <2> QED BY <2>2 DEF Owning
<1>6. \A f \in DOMAIN p.refs : f \in Fields /\ node[old].refs[f] = Null
    BY <1>2, <1>4, <1>5
<1>7. ASSUME NEW f \in Fields
      PROVE  Copied(old, RefsOf(p))[f] =
                 IF f \in DOMAIN p.refs THEN Arg(n, p.refs[f]) ELSE node[old].refs[f]
  <2>1. Copied(old, RefsOf(p))[f] = IF Place[f][1] \in Layers[node[old].type]
                                    THEN node[old].refs[f] ELSE RefsOf(p)[f]
      BY DEF Copied
  <2>2. RefsOf(p)[f] = IF f \notin DOMAIN p.refs THEN Null
                       ELSE IF p.refs[f] = 0 THEN strings[yytext] ELSE Arg(n, p.refs[f])
      BY DEF RefsOf
  <2>3. CASE f \in DOMAIN p.refs
      BY <2>1, <2>2, <2>3, <1>2, <1>4
  <2>4. CASE f \notin DOMAIN p.refs
      BY <2>1, <2>2, <2>4, <1>5
  <2> QED BY <2>3, <2>4
<1> QED BY <1>2, <1>3, <1>6, <1>7

\* What the loop finds from a node whose `id' and `left' a step leaves alone.
LEMMA MadeFollows ==
    ASSUME TypesInv, NodesOK', NEW old,
           old = Null \/ \E i \in 1 .. Len(yyvs) : yyvs[i] = old,
           \A b \in Region(old) : node'[b] = node[b],
           NEW a \in Addr, NEW id \in Region(old) \cup {Null}, NEW left \in Region(old) \cup {Null},
           node'[a].refs[IdField] = id, node'[a].refs[LeftField] = left
    PROVE  /\ a \in NamedNodes' <=> id # Null /\ (left = Null \/ left \in NamedNodes)
           /\ a \in NamedNodes' =>
                 NamesOf'[a] = {node[id].text} \cup (IF left = Null THEN {} ELSE NamesOf[left])
<1>1. NamesFollow'
    BY NamesDoNext
<1> HIDE DEF NamedNodes, NamesOf
<1>2. /\ a \in NamedNodes' <=> id # Null /\ (left = Null \/ left \in NamedNodes')
      /\ NamesOf'[a] = {node'[id].text} \cup (IF left = Null THEN {} ELSE NamesOf'[left])
    BY <1>1 DEF NamesFollow
<1>3. left # Null => /\ left \in NamedNodes' <=> left \in NamedNodes
                     /\ left \in NamedNodes => NamesOf'[left] = NamesOf[left]
    BY StaysSaid
<1>4. id # Null => node'[id] = node[id]
    OBVIOUS
<1> QED BY <1>2, <1>3, <1>4

\* An upgraded node says what its production makes of its arguments.
LEMMA UNSays ==
    ASSUME TypesInv, NodesOK', NEW p \in Productions, Reduce(p), p.op = "UN",
           NEW n, n = Len(p.rhs), NEW old, old = Arg(n, p.arg), NEW a \in Grown(old),
           UN(a, p.lhs, n, p.arg, RefsOf(p)), NEW c, Args(p, n, c)
    PROVE  /\ \E i \in 1 .. Len(yyvs) : yyvs[i] = old
           /\ \A b \in Region(old) : node'[b] = node[b]
           /\ a \in Addr /\ node'[a].text = node[old].text
           /\ TextSays(source, p.lhs, node'[a].text, c[0] + 1, c[n])
           /\ NamesSay(source, p.lhs, a \in NamedNodes', NamesOf'[a], c[0] + 1, c[n])
<1> DEFINE made == [type |-> p.lhs, text |-> node[old].text, refs |-> Copied(old, RefsOf(p))]
<1>1. /\ node' = [node EXCEPT ![old] = FreeNode, ![a] = made]
      /\ old # Null /\ (a = old \/ node[a].type = Free)
    BY Zenon DEF UN
<1>2. /\ made.text = node[old].text /\ made.refs = Copied(old, RefsOf(p))
    OBVIOUS
<1> HIDE DEF made
<1>3. /\ TreeInv /\ ParserInv /\ StoreInv /\ node \in [Addr -> Nodes] /\ Handle(p) /\ NodesOK
    BY DEF TypesInv, TreeInv, ParserInv, StoreInv, StoreOK, Nodes, NodesOK, Reduce, Ready
<1>4. /\ p.arg \in 1 .. n /\ old \in Addr /\ node[old].type \in Types
      /\ \E i \in 1 .. Len(yyvs) : yyvs[i] = old
      /\ \A f \in Fields : Copied(old, RefsOf(p))[f] =
            IF f \in DOMAIN p.refs THEN Arg(n, p.refs[f]) ELSE node[old].refs[f]
      /\ \A f \in DOMAIN p.refs : f \in Fields /\ node[old].refs[f] = Null
    BY <1>1, <1>3, UNRefs
<1>5. a \in Addr
    BY <1>4 DEF Grown, Fresh
<1>6. node'[a].text = node[old].text /\ node'[a].refs = Copied(old, RefsOf(p))
    BY <1>1, <1>2, <1>3, <1>5
<1>7. \A b \in Region(old) : node'[b] = node[b]
    BY <1>1, <1>3 DEF Region, Live
<1>8. TextSays(source, p.lhs, node'[a].text, c[0] + 1, c[n])
  <2>1. p.lhs \notin {"declaration_specifiers", "identifier"}
      BY PhraseAssumption DEF FirstsOK
  <2> QED BY <2>1 DEF TextSays
<1>9. /\ Cuts(c, n)
      /\ \A i \in 1 .. n :
            /\ WordsSay(source, p.rhs[i], c[i - 1] + 1, c[i])
            /\ NamesSay(source, p.rhs[i], Arg(n, i) \in NamedNodes, NamesOf[Arg(n, i)],
                        c[i - 1] + 1, c[i])
    BY DEF Args
<1>10. IdField \in Fields /\ LeftField \in Fields
    BY ParserAssumption
<1>11. Live(old)
    BY <1>4, StoreAssumption DEF Live
<1> DEFINE id == node[old].refs[IdField]
           left == node[old].refs[LeftField]
<1>12. id \in Region(old) \cup {Null} /\ left \in Region(old) \cup {Null}
    BY <1>3, <1>4, <1>10, <1>11, RegionClosed
<1>13. /\ old \in NamedNodes <=> id # Null /\ (left = Null \/ left \in NamedNodes)
       /\ NamesOf[old] = {node[id].text} \cup (IF left = Null THEN {} ELSE NamesOf[left])
    BY <1>3, <1>4, NamesDo DEF NamesFollow
<1>14. CASE p.lhs \notin Declaring
    BY <1>4, <1>5, <1>6, <1>7, <1>8, <1>14 DEF NamesSay
<1>15. CASE Passing(p)
  <2>1. node'[a].refs[IdField] = id /\ node'[a].refs[LeftField] = left
      BY <1>4, <1>6, <1>10, <1>15 DEF Passing, TakesNone
  <2> HIDE DEF NamedNodes, NamesOf, id, left
  <2>2. /\ a \in NamedNodes' <=> id # Null /\ (left = Null \/ left \in NamedNodes)
        /\ a \in NamedNodes' =>
              NamesOf'[a] = {node[id].text} \cup (IF left = Null THEN {} ELSE NamesOf[left])
      BY <2>1, <1>4, <1>5, <1>7, <1>12, MadeFollows
  <2>3. NamesSay(source, p.lhs, old \in NamedNodes, NamesOf[old], c[0] + 1, c[n])
    <3>1. NamesSay(source, p.rhs[p.arg], old \in NamedNodes, NamesOf[old],
                   c[p.arg - 1] + 1, c[p.arg])
        BY <1>4, <1>9
    <3> QED BY <3>1, <1>9, <1>15, PassingSays
  <2>4. /\ a \in NamedNodes' <=> old \in NamedNodes
        /\ a \in NamedNodes' => NamesOf'[a] = NamesOf[old]
      BY <2>2, <1>13
  <2>5. NamesSay(source, p.lhs, a \in NamedNodes', NamesOf'[a], c[0] + 1, c[n])
      BY <2>3, <2>4 DEF NamesSay
  <2> QED BY <2>5, <1>4, <1>5, <1>6, <1>7, <1>8
<1>16. CASE Listing(p)
  <2> DEFINE list == Arg(n, 1)
  <2>1. /\ n = 3 /\ p.arg = 3 /\ LeftField \in DOMAIN p.refs /\ p.refs[LeftField] = 1
        /\ (IdField \in DOMAIN p.refs => IdField = LeftField)
        /\ p.rhs[1] = "init_declarator_list" /\ 1 \in 1 .. n /\ 3 \in 1 .. n
      BY <1>16 DEF Listing
  <2>2. list # Null /\ list \in Addr /\ node[list].type = p.rhs[1] /\ p.rhs[1] \in Types
    <3>1. p.rhs[1] \in Types
        BY <2>1, PhraseAssumption DEF Declaring
    <3>2. /\ list \in Addr \cup {Null} /\ (p.rhs[1] \in Types => list # Null)
          /\ list # Null => node[list].type = p.rhs[1]
        BY <2>1, <1>3, TheNode
    <3> QED BY <3>1, <3>2
  <2>3. list \in Region(old)
    <3>1. list # old
      <4>1. 1 \in 1 .. n /\ p.arg \in 1 .. n /\ 1 # p.arg /\ Arg(n, 1) # Null
          BY <2>1, <2>2
      <4>2. Arg(n, 1) # Arg(n, p.arg)
          BY <4>1, <1>3, NodesDiffer
      <4> QED BY <4>2
    <3> QED BY <3>1, <2>2, StoreAssumption DEF Region, Live
  <2>4. left = Null
      BY <2>1, <1>4
  <2>5. IdField # LeftField
      BY <1>16 DEF Listing
  <2>6. node'[a].refs[IdField] = id /\ node'[a].refs[LeftField] = list
      BY <2>1, <2>5, <1>4, <1>6, <1>10
  <2> HIDE DEF NamedNodes, NamesOf, id, left, list
  <2>7. /\ a \in NamedNodes' <=> id # Null /\ (list = Null \/ list \in NamedNodes)
        /\ a \in NamedNodes' =>
              NamesOf'[a] = {node[id].text} \cup (IF list = Null THEN {} ELSE NamesOf[list])
      BY <2>3, <2>6, <1>4, <1>5, <1>7, <1>12, MadeFollows
  <2>8. NamesSay(source, p.lhs, list \in NamedNodes /\ old \in NamedNodes,
                 NamesOf[list] \cup NamesOf[old], c[0] + 1, c[n])
    <3>1. /\ NamesSay(source, p.rhs[1], list \in NamedNodes, NamesOf[list], c[0] + 1, c[1])
          /\ NamesSay(source, p.rhs[3], old \in NamedNodes, NamesOf[old], c[2] + 1, c[3])
      <4>1. 1 - 1 = 0 /\ 3 - 1 = 2
          OBVIOUS
      <4> QED BY <4>1, <2>1, <1>9 DEF list
    <3> QED BY ZenonT(60), <3>1, <1>9, <1>16, ListingSays
  <2>9. /\ a \in NamedNodes' <=> list \in NamedNodes /\ old \in NamedNodes
        /\ a \in NamedNodes' => NamesOf'[a] = NamesOf[list] \cup NamesOf[old]
      BY <2>2, <2>4, <2>7, <1>13
  <2>10. NamesSay(source, p.lhs, a \in NamedNodes', NamesOf'[a], c[0] + 1, c[n])
      BY <2>8, <2>9 DEF NamesSay
  <2> QED BY <2>10, <1>4, <1>5, <1>6, <1>7, <1>8
<1> QED BY <1>14, <1>15, <1>16, PhraseAssumption DEF DeclaringOK, Naming, Nameless

\* The cuts below the arguments, and the end of the words that are left.
LEMMA CutsPushed ==
    ASSUME NEW m \in Nat, NEW k \in Nat, k <= m, NEW cut, Cuts(cut, m),
           NEW e \in Nat, cut[k] < e
    PROVE  \E new : /\ Cuts(new, k + 1) /\ new[k + 1] = e
                    /\ \A i \in 0 .. k : new[i] = cut[i]
<1>0. PICK new : new = [i \in 0 .. k + 1 |-> IF i <= k THEN cut[i] ELSE e]
    OBVIOUS
<1>1. cut \in [0 .. m -> Nat] /\ \A i, j \in 0 .. m : i < j => cut[i] < cut[j]
    BY DEF Cuts
<1>3. /\ \A i \in 0 .. k : i \in 0 .. m /\ new[i] = cut[i] /\ new[i] \in Nat
      /\ new[k + 1] = e
    BY <1>0, <1>1
<1>4. \A i \in 0 .. k + 1 : i \in 0 .. k \/ i = k + 1
    OBVIOUS
<1>5. new \in [0 .. k + 1 -> Nat]
    BY <1>0, <1>3, <1>4
<1>6. ASSUME NEW i \in 0 .. k + 1, NEW j \in 0 .. k + 1, i < j PROVE new[i] < new[j]
  <2>1. i \in 0 .. k
      BY <1>6
  <2>2. CASE j \in 0 .. k
      BY <2>1, <2>2, <1>1, <1>3, <1>6
  <2>3. CASE j = k + 1
    <3>1. cut[i] <= cut[k]
      <4>1. i = k \/ i < k
          BY <2>1
      <4>2. i \in 0 .. m /\ k \in 0 .. m /\ cut[i] \in Nat
          BY <2>1, <1>1
      <4>3. i < k => cut[i] < cut[k]
          BY <4>2, <1>1
      <4>4. cut[k] \in Nat
          BY <4>2, <1>1
      <4> QED BY <4>1, <4>2, <4>3, <4>4
    <3>2. cut[k] < e /\ cut[i] \in Nat /\ cut[k] \in Nat
        BY <2>1, <1>1
    <3>3. cut[i] < e /\ new[i] = cut[i]
        BY <3>1, <3>2, <2>1, <1>3
    <3> QED BY <3>3, <2>3, <1>3
  <2> QED BY <2>2, <2>3, <1>4
<1>7. Cuts(new, k + 1)
    BY <1>5, <1>6 DEF Cuts
<1> QED BY <1>3, <1>7

\* Places on a stack, and cuts beside them.
LEMMA Places ==
    ASSUME NEW k \in Nat
    PROVE  /\ 0 \in 0 .. k /\ k \in 0 .. k /\ (k + 1) - 1 = k
           /\ \A m \in Nat : k <= m => \A i \in 1 .. k :
                 i \in 1 .. m /\ i \in 0 .. k /\ i - 1 \in 0 .. k
    OBVIOUS

\* A symbol that is pushed and says what it should leaves the others what they said.
LEMMA PushSpans ==
    ASSUME TypesInv, NodesOK', NEW cut, Spans(cut), NEW n \in Nat, n <= Len(yyvs),
           NEW symbol \in Symbols, NEW v \in Addr \cup {Null}, Push(n, v),
           syms' = Append(SubSeq(syms, 1, Len(syms) - n), symbol),
           NEW old, old = Null \/ \E i \in 1 .. Len(yyvs) : yyvs[i] = old,
           \A b \in Region(old) : node'[b] = node[b],
           \A i \in 1 .. Len(yyvs) - n : yyvs[i] = Null \/ yyvs[i] # old,
           source' = source, NEW e \in Nat, e = Consumed', cut[Len(syms) - n] < e,
           WordsSay(source, symbol, cut[Len(syms) - n] + 1, e),
           TextSays(source, symbol, node'[v].text, cut[Len(syms) - n] + 1, e),
           NamesSay(source, symbol, v \in NamedNodes', NamesOf'[v], cut[Len(syms) - n] + 1, e)
    PROVE  Spanned'
<1>1. /\ ParserInv /\ StoreInv /\ Len(syms) = Len(yyvs) /\ ValuesTyped /\ StackLive
      /\ syms \in Seq(Symbols) /\ yyvs \in Seq(Addr \cup {Null})
    BY DEF TypesInv, TreeInv, ParserInv, StoreInv, StoreOK
<1>2. PICK m \in Nat : m = Len(syms) /\ m = Len(yyvs)
    BY <1>1
<1>3. PICK k \in Nat : k = m - n /\ k <= m
    BY <1>2
<1>4. /\ Len(syms') = k + 1 /\ Len(yyvs') = k + 1
      /\ \A j \in 1 .. k + 1 :
            \/ j \in 1 .. k /\ syms'[j] = syms[j] /\ yyvs'[j] = yyvs[j]
            \/ j = k + 1 /\ syms'[j] = symbol /\ yyvs'[j] = v
  <2>1. /\ Len(syms') = Len(syms) - n + 1 /\ Len(yyvs') = Len(syms')
        /\ \A j \in 1 .. Len(syms') :
              \/ j \in 1 .. Len(yyvs) - n /\ j \in 1 .. Len(syms)
                 /\ syms'[j] = syms[j] /\ yyvs'[j] = yyvs[j]
              \/ j = Len(syms') /\ syms'[j] = symbol /\ yyvs'[j] = v
      BY ZenonT(120), <1>1, SymbolsPushed
  <2>2. /\ Len(syms) - n + 1 = k + 1 /\ Len(yyvs) - n = k
      BY <1>2, <1>3
  <2> QED BY <2>1, <2>2
<1>5. /\ cut \in [0 .. m -> Nat] /\ Cuts(cut, m) /\ cut[0] = 0
      /\ \A i \in 1 .. m :
            /\ WordsSay(source, syms[i], cut[i - 1] + 1, cut[i])
            /\ TextSays(source, syms[i], node[yyvs[i]].text, cut[i - 1] + 1, cut[i])
            /\ NamesSay(source, syms[i], yyvs[i] \in NamedNodes, NamesOf[yyvs[i]],
                        cut[i - 1] + 1, cut[i])
    BY <1>2 DEF Spans, Cuts
<1>7. PICK new : /\ Cuts(new, k + 1) /\ new[k + 1] = e
                 /\ \A i \in 0 .. k : new[i] = cut[i]
  <2>1. k \in Nat /\ m \in Nat /\ k <= m /\ e \in Nat /\ cut[k] < e /\ Cuts(cut, m)
      BY <1>2, <1>3, <1>5
  <2> QED BY SMTT(60), <2>1, CutsPushed
<1>8. /\ WordsSay(source, symbol, cut[k] + 1, e)
      /\ TextSays(source, symbol, node'[v].text, cut[k] + 1, e)
      /\ NamesSay(source, symbol, v \in NamedNodes', NamesOf'[v], cut[k] + 1, e)
    BY <1>2, <1>3
<1> HIDE DEF NamedNodes, NamesOf
<1>9. ASSUME NEW i \in 1 .. k
      PROVE  /\ WordsSay(source, syms[i], new[i - 1] + 1, new[i])
             /\ TextSays(source, syms[i], node'[yyvs[i]].text, new[i - 1] + 1, new[i])
             /\ NamesSay(source, syms[i], yyvs[i] \in NamedNodes', NamesOf'[yyvs[i]],
                         new[i - 1] + 1, new[i])
  <2>1. i \in 1 .. m /\ i \in 0 .. k /\ i - 1 \in 0 .. k
      BY Zenon, <1>3, Places
  <2>2. new[i] = cut[i] /\ new[i - 1] = cut[i - 1]
      BY <2>1, <1>7
  <2>3. /\ WordsSay(source, syms[i], new[i - 1] + 1, new[i])
        /\ TextSays(source, syms[i], node[yyvs[i]].text, new[i - 1] + 1, new[i])
        /\ NamesSay(source, syms[i], yyvs[i] \in NamedNodes, NamesOf[yyvs[i]],
                    new[i - 1] + 1, new[i])
      BY <2>1, <2>2, <1>5
  <2>4. ASSUME syms[i] \in Types
        PROVE  /\ node'[yyvs[i]] = node[yyvs[i]]
               /\ yyvs[i] \in NamedNodes' <=> yyvs[i] \in NamedNodes
               /\ yyvs[i] \in NamedNodes => NamesOf'[yyvs[i]] = NamesOf[yyvs[i]]
    <3>1. yyvs[i] # Null /\ node[yyvs[i]].type \in Types
        BY <2>1, <2>4, <1>1, <1>2 DEF ValuesTyped
    <3>2. yyvs[i] \in Addr /\ yyvs[i] # old
        BY <2>1, <3>1, <1>1, <1>2, <1>3
    <3>3. yyvs[i] \in Region(old)
        BY <3>1, <3>2, StoreAssumption DEF Region, Live
    <3> QED BY <3>3, StaysSaid
  <2>5. CASE syms[i] \notin Types
    <3>1. syms[i] \notin {"declaration_specifiers", "identifier"} \cup Declaring
        BY <2>5, PhraseAssumption
    <3> QED BY Zenon, <2>3, <3>1 DEF TextSays, NamesSay
  <2>6. CASE syms[i] \in Types /\ yyvs[i] \in NamedNodes
    <3>1. /\ node'[yyvs[i]] = node[yyvs[i]] /\ yyvs[i] \in NamedNodes'
          /\ NamesOf'[yyvs[i]] = NamesOf[yyvs[i]]
        BY Zenon, <2>4, <2>6
    <3> QED BY Zenon, <2>3, <2>6, <3>1 DEF TextSays, NamesSay
  <2>7. CASE syms[i] \in Types /\ yyvs[i] \notin NamedNodes
    <3>1. node'[yyvs[i]] = node[yyvs[i]] /\ yyvs[i] \notin NamedNodes'
        BY Zenon, <2>4, <2>7
    <3> QED BY Zenon, <2>3, <2>7, <3>1 DEF TextSays, NamesSay
  <2> QED BY Zenon, <2>5, <2>6, <2>7
<1>10. ASSUME NEW i \in 1 .. k + 1
       PROVE  /\ WordsSay(source', syms'[i], new[i - 1] + 1, new[i])
              /\ TextSays(source', syms'[i], node'[yyvs'[i]].text, new[i - 1] + 1, new[i])
              /\ NamesSay(source', syms'[i], yyvs'[i] \in NamedNodes', NamesOf'[yyvs'[i]],
                          new[i - 1] + 1, new[i])
  <2>1. CASE i \in 1 .. k /\ syms'[i] = syms[i] /\ yyvs'[i] = yyvs[i]
      BY <2>1, <1>9
  <2>2. CASE i = k + 1 /\ syms'[i] = symbol /\ yyvs'[i] = v
    <3>1. new[i - 1] = cut[k] /\ new[i] = e
      <4>1. k \in 0 .. k /\ (k + 1) - 1 = k
          BY Zenon, Places
      <4> QED BY Zenon, <4>1, <2>2, <1>7
    <3> QED BY <2>2, <3>1, <1>8
  <2> QED BY <2>1, <2>2, <1>4
<1>11. Spans(new)'
  <2>1. new[0] = 0
    <3>1. 0 \in 0 .. k
        BY Zenon, Places
    <3> QED BY Zenon, <3>1, <1>5, <1>7
  <2>2. new[k + 1] = Consumed'
      BY <1>7
  <2> HIDE DEF Consumed
  <2> QED BY <2>1, <2>2, <1>4, <1>7, <1>10 DEF Spans
<1> QED BY <1>11 DEF Spanned

\* A production's symbol that says what it should.
LEMMA ReducedSpans ==
    ASSUME TypesInv, NodesOK', NEW p \in Productions, Reduce(p), NEW n, n = Len(p.rhs),
           NEW cut, Spans(cut), NEW c, Args(p, n, c), c[n] = Consumed,
           c[0] = cut[Len(syms) - n], NEW v \in Addr \cup {Null}, Push(n, v),
           NEW old, old = Null \/ \E i \in 1 .. Len(yyvs) : yyvs[i] = old,
           \A b \in Region(old) : node'[b] = node[b],
           \A i \in 1 .. Len(yyvs) - n : yyvs[i] = Null \/ yyvs[i] # old,
           TextSays(source, p.lhs, node'[v].text, c[0] + 1, c[n]),
           NamesSay(source, p.lhs, v \in NamedNodes', NamesOf'[v], c[0] + 1, c[n])
    PROVE  Spanned'
<1> HIDE DEF NamedNodes, NamesOf
<1>1. /\ ParserInv /\ Handle(p) /\ source' = source /\ la' = la
      /\ syms' = Append(SubSeq(syms, 1, Len(syms) - n), p.lhs)
    BY DEF TypesInv, TreeInv, Reduce, Ready
<1>2. n \in Nat \ {0} /\ n <= Len(yyvs)
    BY <1>1, UnderHandle DEF ParserInv
<1>3. p.lhs \in Symbols
    BY SymbolsAre DEF Phrases
<1>4. Consumed' = Consumed
    BY <1>1 DEF Consumed
<1>5. Cuts(c, n) /\ \A i \in 1 .. n : WordsSay(source, p.rhs[i], c[i - 1] + 1, c[i])
    BY Zenon DEF Args
<1>6. PICK e \in Nat : e = c[n] /\ c[0] < e
  <2>1. n \in Nat \ {0}
      BY <1>2
  <2>2. c[n] \in Nat /\ c[0] < c[n]
      BY <1>5, <2>1, CutsRise, Zenon
  <2> QED BY <2>2, Zenon
<1>7. WordsSay(source, p.lhs, c[0] + 1, c[n])
    BY <1>5, PhraseWords
<1>8. /\ e = Consumed' /\ cut[Len(syms) - n] < e
      /\ WordsSay(source, p.lhs, cut[Len(syms) - n] + 1, e)
      /\ TextSays(source, p.lhs, node'[v].text, cut[Len(syms) - n] + 1, e)
      /\ NamesSay(source, p.lhs, v \in NamedNodes', NamesOf'[v], cut[Len(syms) - n] + 1, e)
    BY Zenon, <1>4, <1>6, <1>7
<1> HIDE DEF Consumed
<1> QED BY <1>1, <1>2, <1>3, <1>8, PushSpans

\* A reduction makes of its words what they say.
LEMMA ReduceSpans ==
    ASSUME TypesInv, NodesOK', ReadInv, Spanned, NEW p \in Productions, Reduce(p)
    PROVE  Spanned'
<1>1. /\ ParserInv /\ StoreInv /\ StackOnce /\ Handle(p) /\ Act(p)
    BY DEF TypesInv, TreeInv, ParserInv, StoreInv, Reduce, Ready
<1>2. PICK cut : Spans(cut)
    BY DEF Spanned
<1>3. PICK n : n = Len(p.rhs)
    OBVIOUS
<1>4. PICK c : Args(p, n, c) /\ c[n] = Consumed /\ c[0] = cut[Len(syms) - n]
    BY <1>1, <1>2, <1>3, ArgumentsSay
<1>5. n \in Nat \ {0} /\ Len(yyvs) \in Nat /\ yyvs \in Seq(Addr \cup {Null})
    BY <1>1, <1>3, UnderHandle DEF ParserInv, StoreInv, StoreOK
<1> HIDE DEF NamedNodes, NamesOf, Consumed
<1>6. CASE p.op = "value" /\ Value(n)
  <2>1. Push(n, Null) /\ node' = node
      BY <1>6 DEF Value
  <2>2. p.lhs \notin {"declaration_specifiers", "identifier"} \cup Declaring
      BY <1>6, ParserAssumption, PhraseAssumption DEF ProductionOK
  <2>3. /\ TextSays(source, p.lhs, node'[Null].text, c[0] + 1, c[n])
        /\ NamesSay(source, p.lhs, Null \in NamedNodes', NamesOf'[Null], c[0] + 1, c[n])
      BY <2>2 DEF TextSays, NamesSay
  <2>4. \A b \in Region(Null) : node'[b] = node[b]
      BY <2>1
  <2>5. \A i \in 1 .. Len(yyvs) - n : yyvs[i] = Null \/ yyvs[i] # Null
      OBVIOUS
  <2> QED BY <2>1, <2>3, <2>4, <2>5, <1>2, <1>3, <1>4, ReducedSpans
<1>7. ASSUME p.op = "NN", NEW a \in Fresh, NN(a, p.lhs, TextOf(p), n, RefsOf(p))
      PROVE  Spanned'
  <2>1. a \in Addr \cup {Null} /\ Push(n, a)
      BY <1>7 DEF NN, Fresh
  <2>2. /\ \A b \in Region(Null) : node'[b] = node[b]
        /\ TextSays(source, p.lhs, node'[a].text, c[0] + 1, c[n])
        /\ NamesSay(source, p.lhs, a \in NamedNodes', NamesOf'[a], c[0] + 1, c[n])
      BY <1>3, <1>4, <1>7, NNSays
  <2>3. \A i \in 1 .. Len(yyvs) - n : yyvs[i] = Null \/ yyvs[i] # Null
      OBVIOUS
  <2> QED BY <2>1, <2>2, <2>3, <1>2, <1>3, <1>4, ReducedSpans
<1>8. ASSUME p.op = "UN", NEW a \in Grown(Arg(n, p.arg)), UN(a, p.lhs, n, p.arg, RefsOf(p))
      PROVE  Spanned'
  <2>1. PICK old : old = Arg(n, p.arg)
      OBVIOUS
  <2>2. Push(n, a) /\ a \in Grown(old)
      BY <2>1, <1>8 DEF UN
  <2>3. /\ \E i \in 1 .. Len(yyvs) : yyvs[i] = old
        /\ \A b \in Region(old) : node'[b] = node[b]
        /\ a \in Addr
        /\ TextSays(source, p.lhs, node'[a].text, c[0] + 1, c[n])
        /\ NamesSay(source, p.lhs, a \in NamedNodes', NamesOf'[a], c[0] + 1, c[n])
      BY <2>1, <2>2, <1>3, <1>4, <1>8, UNSays
  <2>4. /\ Len(yyvs) - n + p.arg \in 1 .. Len(yyvs) /\ old = yyvs[Len(yyvs) - n + p.arg]
        /\ p.arg \in 1 .. n
    <3>1. p.arg \in 1 .. n
        BY <1>3, <1>8, ParserAssumption DEF ProductionOK
    <3> QED BY <3>1, <2>1, <1>1, <1>3, TheArgument
  <2>5. ASSUME NEW i \in 1 .. Len(yyvs) - n PROVE yyvs[i] = Null \/ yyvs[i] # old
    <3>1. i \in 1 .. Len(yyvs) /\ i # Len(yyvs) - n + p.arg
        BY <2>4, <1>5
    <3> QED BY <3>1, <2>4, <1>1 DEF StackOnce
  <2> QED BY <2>2, <2>3, <2>5, <1>2, <1>3, <1>4, ReducedSpans
<1> QED BY <1>1, <1>3, <1>6, <1>7, <1>8 DEF Act

\* A word by itself.
LEMMA TokenSays ==
    ASSUME NEW src, NEW s \in Tokens, NEW h \in Nat, src[h].kind = s, NEW t, NEW all, NEW names
    PROVE  /\ WordsSay(src, s, h, h) /\ TextSays(src, s, t, h, h)
           /\ NamesSay(src, s, all, names, h, h)
<1>1. s \notin Types /\ s \notin Phrases
    BY ParserAssumption, ShapeAssumption DEF Tokens
<1>2. s \notin Ended \cup Declaring \cup {"identifier", "declaration_specifiers",
                                         "type_specifier", "storage_class_specifier"}
    BY <1>1, PhraseAssumption
<1>3. s \in Quiet => s # "IDENTIFIER"
    BY <1>1 DEF Quiet
<1>4. \A j \in h .. h : j = h
    OBVIOUS
<1>5. WordsSay(src, s, h, h)
    BY <1>2, <1>3, <1>4 DEF WordsSay
<1> QED BY <1>2, <1>5 DEF TextSays, NamesSay

\* The word that has been read last is shifted.
LEMMA ShiftSpans ==
    ASSUME TypesInv, NodesOK', ReadInv, Spanned, Shift
    PROVE  Spanned'
<1>1. /\ la # None /\ la' = None /\ source' = source /\ Push(0, Null) /\ node' = node
      /\ syms' = Append(syms, la.kind) /\ <<Under, la.kind>> \in Shifts
    BY DEF Shift, CanShift, Value
<1>2. la.kind \in Tokens
  <2>1. <<Under, la.kind>>[2] = la.kind
      OBVIOUS
  <2> QED BY <2>1, <1>1 DEF Tokens
<1>3. PICK cut : Spans(cut)
    BY DEF Spanned
<1>4. /\ syms \in Seq(Symbols) /\ yyvs \in Seq(Addr \cup {Null}) /\ source \in Seq(Reads)
      /\ source # << >> /\ la = source[Len(source)]
    BY <1>1 DEF TypesInv, TreeInv, ParserInv, StoreInv, StoreOK, ReadInv
<1>5. /\ Len(syms) - 0 = Len(syms) /\ Len(yyvs) - 0 = Len(yyvs) /\ 0 <= Len(yyvs)
      /\ SubSeq(syms, 1, Len(syms)) = syms /\ Len(source) \in Nat
      /\ Len(source) - 1 < Len(source) /\ (Len(source) - 1) + 1 = Len(source)
    BY <1>4
<1>6. cut[Len(syms)] = Len(source) - 1
    BY SMTT(60), <1>1, <1>3 DEF Spans, Consumed
<1>7. PICK e \in Nat : e = Len(source)
    BY <1>5
<1>8. e = Consumed' /\ cut[Len(syms) - 0] < e /\ cut[Len(syms) - 0] + 1 = e
    BY <1>1, <1>5, <1>6, <1>7 DEF Consumed
<1>9. la.kind \in Symbols /\ source[e].kind = la.kind
    BY <1>2, <1>4, <1>7, SymbolsAre
<1>10. syms' = Append(SubSeq(syms, 1, Len(syms) - 0), la.kind)
    BY <1>1, <1>5
<1> HIDE DEF NamedNodes, NamesOf, Consumed
<1>11. /\ WordsSay(source, la.kind, cut[Len(syms) - 0] + 1, e)
       /\ TextSays(source, la.kind, node'[Null].text, cut[Len(syms) - 0] + 1, e)
       /\ NamesSay(source, la.kind, Null \in NamedNodes', NamesOf'[Null],
                   cut[Len(syms) - 0] + 1, e)
    BY <1>2, <1>8, <1>9, TokenSays
<1>12. /\ \A b \in Region(Null) : node'[b] = node[b]
       /\ \A i \in 1 .. Len(yyvs) - 0 : yyvs[i] = Null \/ yyvs[i] # Null
    BY <1>1
<1> QED BY <1>1, <1>3, <1>5, <1>8, <1>9, <1>10, <1>11, <1>12, PushSpans

\* What is said of words does not depend on later ones.
LEMMA SameWords ==
    ASSUME NEW src, NEW new, NEW l \in Nat, NEW h \in Nat, l <= h,
           \A j \in l .. h : new[j] = src[j], NEW s
    PROVE  /\ WordsSay(src, s, l, h) => WordsSay(new, s, l, h)
           /\ \A t : TextSays(src, s, t, l, h) => TextSays(new, s, t, l, h)
           /\ Ids(new, l, h) = Ids(src, l, h)
           /\ (\E j \in l .. h : src[j].kind = Brackets) => \E j \in l .. h : new[j].kind = Brackets
<1>1. new[l] = src[l] /\ new[h] = src[h]
    OBVIOUS
<1>2. Ids(new, l, h) = Ids(src, l, h)
  <2>1. {j \in l .. h : new[j].kind = "IDENTIFIER"} = {j \in l .. h : src[j].kind = "IDENTIFIER"}
      OBVIOUS
  <2> QED BY <2>1 DEF Ids
<1> QED BY <1>1, <1>2 DEF WordsSay, TextSays

\* Steps that leave stack and nodes alone, and the words that are on the stack.
LEMMA StaySpans ==
    ASSUME TypesInv, NodesOK', Spanned, UNCHANGED <<syms, yyvs>>,
           \A b \in Region(Null) : node'[b] = node[b],
           Consumed' = Consumed, \A j \in 1 .. Consumed : source'[j] = source[j]
    PROVE  Spanned'
<1>1. /\ ParserInv /\ Len(syms) = Len(yyvs) /\ ValuesTyped /\ syms' = syms /\ yyvs' = yyvs
      /\ syms \in Seq(Symbols) /\ yyvs \in Seq(Addr \cup {Null})
    BY DEF TypesInv, TreeInv, ParserInv, StoreInv, StoreOK
<1>2. PICK m \in Nat : m = Len(syms) /\ m = Len(yyvs)
    BY <1>1
<1>3. PICK cut : Spans(cut)
    BY DEF Spanned
<1>4. /\ cut \in [0 .. m -> Nat] /\ Cuts(cut, m) /\ cut[0] = 0 /\ cut[m] = Consumed
      /\ \A i, j \in 0 .. m : i < j => cut[i] < cut[j]
      /\ \A i \in 1 .. m :
            /\ WordsSay(source, syms[i], cut[i - 1] + 1, cut[i])
            /\ TextSays(source, syms[i], node[yyvs[i]].text, cut[i - 1] + 1, cut[i])
            /\ NamesSay(source, syms[i], yyvs[i] \in NamedNodes, NamesOf[yyvs[i]],
                        cut[i - 1] + 1, cut[i])
    BY <1>2, <1>3 DEF Spans, Cuts
<1> HIDE DEF NamedNodes, NamesOf, Consumed
<1>5. ASSUME NEW i \in 1 .. m
      PROVE  /\ WordsSay(source', syms[i], cut[i - 1] + 1, cut[i])
             /\ TextSays(source', syms[i], node'[yyvs[i]].text, cut[i - 1] + 1, cut[i])
             /\ NamesSay(source', syms[i], yyvs[i] \in NamedNodes', NamesOf'[yyvs[i]],
                         cut[i - 1] + 1, cut[i])
  <2>1. PICK l \in Nat, h \in Nat :
            /\ l = cut[i - 1] + 1 /\ h = cut[i] /\ l <= h
            /\ \A j \in l .. h : j \in 1 .. cut[m]
    <3>1. /\ i \in 0 .. m /\ i - 1 \in 0 .. m /\ i - 1 < i /\ m \in 0 .. m
          /\ (i < m \/ i = m)
        BY <1>2
    <3>2. cut[i - 1] \in Nat /\ cut[i] \in Nat /\ cut[m] \in Nat
        BY <3>1, <1>4
    <3>3. cut[i - 1] < cut[i] /\ cut[i] <= cut[m]
        BY <3>1, <3>2, <1>4
    <3> QED BY <3>2, <3>3
  <2>2. \A j \in l .. h : source'[j] = source[j]
      BY <2>1, <1>4
  <2>3. /\ WordsSay(source, syms[i], l, h) => WordsSay(source', syms[i], l, h)
        /\ \A t : TextSays(source, syms[i], t, l, h) => TextSays(source', syms[i], t, l, h)
        /\ Ids(source', l, h) = Ids(source, l, h)
        /\ (\E j \in l .. h : source[j].kind = Brackets) =>
              \E j \in l .. h : source'[j].kind = Brackets
    <3>1. l \in Nat /\ h \in Nat /\ l <= h
        BY <2>1
    <3> QED BY ZenonT(60), <3>1, <2>2, SameWords
  <2>4. /\ WordsSay(source, syms[i], l, h)
        /\ TextSays(source, syms[i], node[yyvs[i]].text, l, h)
        /\ NamesSay(source, syms[i], yyvs[i] \in NamedNodes, NamesOf[yyvs[i]], l, h)
      BY <2>1, <1>4
  <2>5. WordsSay(source', syms[i], l, h)
      BY <2>3, <2>4
  <2>6. ASSUME syms[i] \in Types
        PROVE  /\ node'[yyvs[i]] = node[yyvs[i]]
               /\ yyvs[i] \in NamedNodes' <=> yyvs[i] \in NamedNodes
               /\ yyvs[i] \in NamedNodes => NamesOf'[yyvs[i]] = NamesOf[yyvs[i]]
    <3>1. yyvs[i] # Null /\ node[yyvs[i]].type \in Types
        BY <2>6, <1>1, <1>2 DEF ValuesTyped
    <3>2. yyvs[i] \in Addr
        BY <3>1, <1>1, <1>2
    <3>3. yyvs[i] \in Region(Null)
        BY <3>1, <3>2, StoreAssumption DEF Region, Live
    <3> QED BY <3>3, StaysSaid
  <2>7. CASE syms[i] \notin Types
    <3>1. syms[i] \notin {"declaration_specifiers", "identifier"} \cup Declaring
        BY <2>7, PhraseAssumption
    <3>2. /\ TextSays(source', syms[i], node'[yyvs[i]].text, l, h)
          /\ NamesSay(source', syms[i], yyvs[i] \in NamedNodes', NamesOf'[yyvs[i]], l, h)
        BY Zenon, <3>1 DEF TextSays, NamesSay
    <3> QED BY <3>2, <2>1, <2>5
  <2>8. CASE syms[i] \in Types
    <3>1. TextSays(source', syms[i], node'[yyvs[i]].text, l, h)
        BY Zenon, <2>3, <2>4, <2>6, <2>8
    <3>2. NamesSay(source', syms[i], yyvs[i] \in NamedNodes', NamesOf'[yyvs[i]], l, h)
      <4>1. CASE yyvs[i] \in NamedNodes
          BY Zenon, <4>1, <2>3, <2>4, <2>6, <2>8 DEF NamesSay
      <4>2. CASE yyvs[i] \notin NamedNodes
          BY Zenon, <4>2, <2>3, <2>4, <2>6, <2>8 DEF NamesSay
      <4> QED BY <4>1, <4>2
    <3> QED BY <3>1, <3>2, <2>1, <2>5
  <2> QED BY <2>7, <2>8
<1>6. Spans(cut)'
    BY <1>1, <1>2, <1>4, <1>5 DEF Spans
<1> QED BY <1>6 DEF Spanned

-----------------------------------------------------------------------------
\* A declaration.
LEMMA DeclarationIs ==
    ASSUME NEW p \in Productions, p.lhs = "declaration", NEW n, n = Len(p.rhs)
    PROVE  /\ n \in {2, 3} /\ p.op = "UN" /\ p.arg = 1
           /\ p.rhs[1] = "declaration_specifiers" /\ p.rhs[n] = Semicolon
           /\ n = 3 => p.rhs[2] = "init_declarator_list"
           /\ Semicolon \in Tokens
<1>1. /\ p.op = "UN" /\ p.arg = 1
      /\ \/ p.rhs = <<"declaration_specifiers", "init_declarator_list", Semicolon>>
         \/ p.rhs = <<"declaration_specifiers", Semicolon>>
    BY PhraseAssumption DEF DeclarationOK
<1>2. CASE p.rhs = <<"declaration_specifiers", "init_declarator_list", Semicolon>>
  <2>1. /\ Len(p.rhs) = 3 /\ p.rhs[1] = "declaration_specifiers"
        /\ p.rhs[2] = "init_declarator_list" /\ p.rhs[3] = Semicolon
      BY <1>2
  <2>2. p.rhs[3] \in Phrases \cup Tokens
      BY <2>1, ShapeAssumption
  <2> QED BY <2>1, <2>2, <1>1, PhraseAssumption
<1>3. CASE p.rhs = <<"declaration_specifiers", Semicolon>>
  <2>1. Len(p.rhs) = 2 /\ p.rhs[1] = "declaration_specifiers" /\ p.rhs[2] = Semicolon
      BY <1>3
  <2>2. p.rhs[2] \in Phrases \cup Tokens
      BY <2>1, ShapeAssumption
  <2> QED BY <2>1, <2>2, <1>1, PhraseAssumption
<1> QED BY <1>1, <1>2, <1>3

\* Its words are those of one declaration, with the names of its declarators.
LEMMA DeclarationWords ==
    ASSUME NEW src, NEW p \in Productions, p.lhs = "declaration", NEW n, n = Len(p.rhs),
           NEW c, Cuts(c, n),
           \A i \in 1 .. n : WordsSay(src, p.rhs[i], c[i - 1] + 1, c[i])
    PROVE  /\ src[c[n]].kind = Semicolon
           /\ \A j \in c[0] + 1 .. c[n] - 1 : src[j].kind # Semicolon
           /\ n = 3 => /\ Ids(src, c[0] + 1, c[n]) = Ids(src, c[1] + 1, c[2])
                       /\ \A j \in c[1] + 1 .. c[2] : j \in c[0] + 1 .. c[n]
           /\ n # 3 => Ids(src, c[0] + 1, c[n]) = {}
<1>1. /\ n \in {2, 3} /\ p.rhs[1] = "declaration_specifiers" /\ p.rhs[n] = Semicolon
      /\ n = 3 => p.rhs[2] = "init_declarator_list"
      /\ Semicolon \in Tokens
    BY DeclarationIs
<1>2. /\ \A i \in 0 .. n : c[i] \in Nat
      /\ \A j \in c[0] + 1 .. c[n] : \E i \in 1 .. n : j \in c[i - 1] + 1 .. c[i]
      /\ \A i \in 1 .. n : \A j \in c[i - 1] + 1 .. c[i] : j \in c[0] + 1 .. c[n]
  <2>1. n \in Nat \ {0}
      BY <1>1
  <2> QED BY <2>1, Pieces
<1>3. /\ Semicolon \notin Types /\ Semicolon \notin Phrases
      /\ "declaration_specifiers" \in Types /\ "init_declarator_list" \in Types
    BY <1>1, PhraseAssumption, ParserAssumption DEF Tokens, Declaring
<1>4. c[n - 1] + 1 = c[n] /\ src[c[n]].kind = Semicolon
  <2>1. n \in 1 .. n
      BY <1>1
  <2>2. WordsSay(src, Semicolon, c[n - 1] + 1, c[n])
      BY <2>1, <1>1
  <2> QED BY <2>2, <1>1 DEF WordsSay
<1>5. \A i \in 1 .. n : i # n => i = 1 \/ (i = 2 /\ n = 3)
  <2>1. /\ \A i \in 1 .. 2 : i # 2 => i = 1
        /\ \A i \in 1 .. 3 : i # 3 => i = 1 \/ i = 2
      OBVIOUS
  <2> QED BY Zenon, <2>1, <1>1
<1>6. /\ "declaration_specifiers" \notin Ended \cup {Semicolon}
      /\ "init_declarator_list" \notin Ended \cup {Semicolon}
    BY <1>3 DEF Ended
<1>7. ASSUME NEW i \in 1 .. n, i # n
      PROVE  \A j \in c[i - 1] + 1 .. c[i] : src[j].kind # Semicolon
  <2>1. p.rhs[i] \notin Ended \cup {Semicolon}
      BY <1>1, <1>5, <1>6, <1>7
  <2>2. WordsSay(src, p.rhs[i], c[i - 1] + 1, c[i])
      OBVIOUS
  <2> QED BY <2>1, <2>2 DEF WordsSay
<1>8. ASSUME NEW j \in c[0] + 1 .. c[n] - 1 PROVE src[j].kind # Semicolon
  <2>1. c[0] \in Nat /\ c[n] \in Nat
      BY <1>1, <1>2
  <2>2. j \in c[0] + 1 .. c[n] /\ j # c[n]
      BY <2>1
  <2>3. PICK i \in 1 .. n : j \in c[i - 1] + 1 .. c[i]
      BY <2>2, <1>2
  <2>4. i # n
      BY <2>1, <2>2, <2>3, <1>4
  <2> QED BY <2>3, <2>4, <1>7
<1>9. ASSUME NEW j \in c[0] + 1 .. c[n], src[j].kind = "IDENTIFIER"
      PROVE  n = 3 /\ j \in c[1] + 1 .. c[2]
  <2>1. PICK i \in 1 .. n : j \in c[i - 1] + 1 .. c[i]
      BY <1>2
  <2>2. i # n
    <3>1. c[n] \in Nat
        BY <1>1, <1>2
    <3>2. i = n => j = c[n]
        BY <3>1, <2>1, <1>4
    <3>3. Semicolon # "IDENTIFIER"
        BY Zenon DEF Semicolon
    <3> QED BY <3>2, <3>3, <1>4, <1>9
  <2>3. i # 1
    <3>1. "declaration_specifiers" \in Quiet
      <4>1. "declaration_specifiers" \notin Tokens
          BY <1>3, ParserAssumption DEF Tokens
      <4>2. p.rhs[1] \in Phrases \cup Tokens
          BY <1>1, ShapeAssumption
      <4> QED BY <4>1, <4>2, <1>1 DEF Quiet, Ended, Declaring
    <3>2. 1 \in 1 .. n /\ 1 - 1 = 0
        BY <1>1
    <3>3. WordsSay(src, p.rhs[1], c[0] + 1, c[1])
        BY <3>2
    <3>4. \A k \in c[0] + 1 .. c[1] : src[k].kind # "IDENTIFIER"
        BY <3>1, <3>3, <1>1 DEF WordsSay
    <3> QED BY <3>2, <3>4, <2>1, <1>9
  <2>4. i = 2 /\ n = 3 /\ i - 1 = 1
      BY <2>2, <2>3, <1>5
  <2> QED BY <2>1, <2>4
<1>10. ASSUME n = 3 PROVE \A j \in c[1] + 1 .. c[2] : j \in c[0] + 1 .. c[n]
  <2>1. 2 \in 1 .. n /\ 2 - 1 = 1
      BY <1>10
  <2> QED BY <2>1, <1>2
<1>11. ASSUME n = 3 PROVE Ids(src, c[0] + 1, c[n]) = Ids(src, c[1] + 1, c[2])
  <2> DEFINE all == c[0] + 1 .. c[n]
             middle == c[1] + 1 .. c[2]
  <2>1. /\ \A j \in all : src[j].kind = "IDENTIFIER" => j \in middle
        /\ \A j \in middle : j \in all
      BY <1>9, <1>10, <1>11
  <2> HIDE DEF all, middle
  <2>2. {j \in all : src[j].kind = "IDENTIFIER"} = {j \in middle : src[j].kind = "IDENTIFIER"}
      BY <2>1
  <2> QED BY <2>2 DEF Ids, all, middle
<1>12. n # 3 => Ids(src, c[0] + 1, c[n]) = {}
    BY <1>9 DEF Ids
<1> QED BY <1>4, <1>8, <1>10, <1>11, <1>12

\* What the table of type names holds: the names of all declarations but one that is
\* just being ended.
Known == types_hash = TypedefsIn(source, IF Under = Semicolon THEN Consumed ELSE Consumed + 1)

\* Where a typedef declares an array.
ArrayOfTypes ==
    \E k \in ClosedIn(source, Len(source) + 1) :
        source[k].kind = Brackets /\ source[FirstIn(source, k)].kind = "TYPEDEF"

\* The symbol that a reduction leaves.
LEMMA UnderNext ==
    ASSUME NEW s, NEW n \in Nat, n <= Len(syms), syms \in Seq(Symbols), s \in Symbols,
           syms' = Append(SubSeq(syms, 1, Len(syms) - n), s)
    PROVE  Under' = s
<1> DEFINE t == Append(SubSeq(syms, 1, Len(syms) - n), s)
<1>1. t # << >> /\ Last(t) = s
  <2>1. PICK u \in Seq(Symbols) : u = SubSeq(syms, 1, Len(syms) - n)
    <3> HIDE DEF t
    <3>1. Len(syms) - n <= Len(syms) /\ Len(syms) - n \in Nat /\ syms \in Seq(Symbols)
        OBVIOUS
    <3>2. \A i \in 1 .. Len(syms) - n : syms[i] \in Symbols
        OBVIOUS
    <3>3. SubSeq(syms, 1, Len(syms) - n) \in Seq(Symbols)
        BY <3>1, <3>2
    <3> QED BY <3>3
  <2> QED BY <2>1, LastAppended
<1>2. Under' = IF syms' = << >> THEN "bottom" ELSE Last(syms')
    BY DEF Under
<1> HIDE DEF t
<1>3. syms' = t
    BY DEF t
<1> QED BY <1>1, <1>2, <1>3

\* Other productions declare nothing.
LEMMA ReduceOther ==
    ASSUME TypesInv, Known, NEW p \in Productions, Reduce(p), p.lhs # "declaration"
    PROVE  Known' /\ pc' = pc
<1>1. /\ syms \in Seq(Symbols) /\ Handle(p) /\ la' = la /\ source' = source
      /\ syms' = Append(SubSeq(syms, 1, Len(syms) - Len(p.rhs)), p.lhs)
      /\ add_typenames(p)
    BY DEF TypesInv, TreeInv, ParserInv, Reduce, Ready
<1>2. types_hash' = types_hash /\ pc' = pc
    BY <1>1 DEF add_typenames, IsTypedef
<1>3. /\ Len(p.rhs) \in Nat \ {0} /\ Len(p.rhs) <= Len(syms)
    BY <1>1, UnderHandle
<1>4. Under # Semicolon
  <2> SUFFICES ASSUME Under = Semicolon PROVE FALSE
      OBVIOUS
  <2>1. Len(p.rhs) \in 1 .. Len(p.rhs) /\ p.rhs[Len(p.rhs)] = Semicolon
      BY <1>1, <1>3 DEF Handle, Last
  <2>2. p.lhs \in Ended
      BY <2>1, PhraseAssumption DEF ClosingOK
  <2>3. \/ p.rhs = <<"declaration">> \/ p.rhs = <<"external_declaration">>
        \/ p.rhs = <<"translation_unit", "external_declaration">>
      BY <2>2, PhraseAssumption DEF Ended, ClosingOK
  <2>4. /\ \A r : r = <<"declaration">> => r[Len(r)] = "declaration"
        /\ \A r : r = <<"external_declaration">> => r[Len(r)] = "external_declaration"
        /\ \A r : r = <<"translation_unit", "external_declaration">> =>
                 r[Len(r)] = "external_declaration"
      OBVIOUS
  <2>5. Semicolon \in Types
      BY <2>1, <2>3, <2>4, PhraseAssumption DEF Ended
  <2>6. Semicolon \in Tokens
      BY <2>1, ShapeAssumption, PhraseAssumption
  <2> QED BY <2>5, <2>6, ParserAssumption DEF Tokens
<1>5. Under' # Semicolon
  <2>1. p.lhs \in Symbols /\ p.lhs \in Phrases
      BY SymbolsAre DEF Phrases
  <2>2. Under' = p.lhs
      BY <2>1, <1>1, <1>3, UnderNext
  <2> QED BY <2>1, <2>2, PhraseAssumption
<1>6. Consumed' = Consumed
    BY <1>1 DEF Consumed
<1> QED BY <1>1, <1>2, <1>4, <1>5, <1>6 DEF Known

\* A declaration declares the names that its words say, if it is a typedef of names.
LEMMA ReduceDeclaration ==
    ASSUME TypesInv, NodesOK', Shaped, Spanned, Known, source \in Seq(Reads),
           la # None => source # << >>,
           NEW p \in Productions, Reduce(p), p.lhs = "declaration"
    PROVE  \/ pc' = pc /\ Known'
           \/ pc' = "crashed" /\ ArrayOfTypes
<1>1. /\ syms \in Seq(Symbols) /\ Handle(p) /\ la' = la /\ source' = source /\ Act(p)
      /\ syms' = Append(SubSeq(syms, 1, Len(syms) - Len(p.rhs)), p.lhs)
      /\ add_typenames(p) /\ ParserInv
    BY DEF TypesInv, TreeInv, ParserInv, Reduce, Ready
<1>2. PICK n : n = Len(p.rhs)
    OBVIOUS
<1>3. /\ n \in {2, 3} /\ p.op = "UN" /\ p.arg = 1
      /\ p.rhs[1] = "declaration_specifiers" /\ p.rhs[n] = Semicolon
      /\ n = 3 => p.rhs[2] = "init_declarator_list"
      /\ Semicolon \in Tokens /\ n \in Nat /\ 1 \in 1 .. n /\ n \in 1 .. n
  <2>1. \A k \in {2, 3} : k \in Nat /\ 1 \in 1 .. k /\ k \in 1 .. k
      OBVIOUS
  <2> QED BY <2>1, <1>2, DeclarationIs
<1>4. PICK cut : Spans(cut)
    BY DEF Spanned
<1>5. PICK c : Args(p, n, c) /\ c[n] = Consumed /\ c[0] = cut[Len(syms) - n]
  <2>1. ParserInv /\ Handle(p)
      BY <1>1
  <2> QED BY <2>1, <1>2, <1>4, ArgumentsSay
<1>6. /\ Cuts(c, n)
      /\ \A i \in 1 .. n :
            /\ WordsSay(source, p.rhs[i], c[i - 1] + 1, c[i])
            /\ TextSays(source, p.rhs[i], node[Arg(n, i)].text, c[i - 1] + 1, c[i])
            /\ NamesSay(source, p.rhs[i], Arg(n, i) \in NamedNodes, NamesOf[Arg(n, i)],
                        c[i - 1] + 1, c[i])
    BY <1>5 DEF Args
<1> HIDE DEF NamedNodes, NamesOf, Consumed
<1>7. PICK e \in Nat, l \in Nat : /\ e = c[n] /\ l = c[0] + 1 /\ l \in 1 .. e /\ e # 0
                                  /\ e = Consumed
  <2>1. c[0] \in Nat /\ c[n] \in Nat /\ c[0] < c[n]
      BY <1>3, <1>6 DEF Cuts
  <2> QED BY <2>1, <1>5
<1>8. /\ source[e].kind = Semicolon
      /\ \A j \in l .. e - 1 : source[j].kind # Semicolon
      /\ n = 3 => /\ Ids(source, l, e) = Ids(source, c[1] + 1, c[2])
                  /\ \A j \in c[1] + 1 .. c[2] : j \in l .. e
      /\ n # 3 => Ids(source, l, e) = {}
  <2>1. Cuts(c, n) /\ \A i \in 1 .. n : WordsSay(source, p.rhs[i], c[i - 1] + 1, c[i])
      BY Zenon, <1>6
  <2>2. /\ source[c[n]].kind = Semicolon
        /\ \A j \in c[0] + 1 .. c[n] - 1 : source[j].kind # Semicolon
        /\ n = 3 => /\ Ids(source, c[0] + 1, c[n]) = Ids(source, c[1] + 1, c[2])
                    /\ \A j \in c[1] + 1 .. c[2] : j \in c[0] + 1 .. c[n]
        /\ n # 3 => Ids(source, c[0] + 1, c[n]) = {}
      BY ZenonT(120), <2>1, <1>2, DeclarationWords
  <2> QED BY Zenon, <2>2, <1>7
<1>9. BeginsIn(source, l)
  <2>1. /\ Len(syms) \in Nat /\ n <= Len(syms) /\ Len(syms) - n \in 0 .. Len(syms)
        /\ Len(syms) - n + 1 \in 1 .. Len(syms) /\ Len(syms) - n + 1 < Len(syms)
        /\ syms[Len(syms) - n + 1] = "declaration_specifiers"
        /\ (Len(syms) - n + 1) - 1 = Len(syms) - n
    <3>1. /\ Len(syms) \in Nat /\ n <= Len(syms)
          /\ \A i \in 1 .. n : p.rhs[i] = syms[Len(syms) - n + i]
        BY <1>1, <1>2, UnderHandle
    <3>2. syms[Len(syms) - n + 1] = "declaration_specifiers"
        BY <3>1, <1>3
    <3>3. \A k \in {2, 3} : \A m \in Nat : k <= m =>
              /\ m - k \in 0 .. m /\ m - k + 1 \in 1 .. m /\ m - k + 1 < m
              /\ (m - k + 1) - 1 = m - k
        OBVIOUS
    <3> QED BY <3>1, <3>2, <3>3, <1>3
  <2>2. At(syms, Len(syms) - n) \in Outermost
      BY <2>1 DEF Shaped, ShapeOf
  <2>3. CASE Len(syms) - n = 0
    <3>1. cut[0] = 0
        BY <1>4 DEF Spans
    <3>2. l = 1
        BY <3>1, <2>3, <1>5, <1>7
    <3> QED BY <3>2 DEF BeginsIn
  <2>4. CASE Len(syms) - n # 0
    <3>1. Len(syms) - n \in 1 .. Len(syms)
        BY <2>1, <2>4
    <3>2. syms[Len(syms) - n] = "translation_unit"
      <4>1. syms[Len(syms) - n] \in Symbols /\ syms[Len(syms) - n] \in Outermost
          BY <3>1, <2>2, <1>1, AtIs
      <4> QED BY <4>1, SymbolsAre DEF Outermost
    <3>3. source[cut[Len(syms) - n]].kind = Semicolon
      <4>1. WordsSay(source, syms[Len(syms) - n], cut[Len(syms) - n - 1] + 1,
                     cut[Len(syms) - n])
          BY <3>1, <1>4 DEF Spans
      <4> QED BY <4>1, <3>2 DEF WordsSay, Ended
    <3>4. l - 1 = cut[Len(syms) - n]
      <4>1. c[0] \in Nat
          BY <1>3, <1>6 DEF Cuts
      <4> QED BY <4>1, <1>5, <1>7
    <3> QED BY <3>3, <3>4 DEF BeginsIn
  <2> QED BY <2>3, <2>4
<1>10. /\ \A k \in l .. e : FirstIn(source, k) = l
       /\ ClosedIn(source, e + 1) = 1 .. e
       /\ TypedefsIn(source, e + 1) =
             IF source[l].kind = "TYPEDEF" THEN TypedefsIn(source, e) \cup Ids(source, l, e)
                                           ELSE TypedefsIn(source, e)
    BY <1>7, <1>8, <1>9, TheEnd
<1>11. types_hash = TypedefsIn(source, e)
  <2>1. Under = Semicolon
    <3>1. Under = p.rhs[n]
        BY <1>1, <1>2 DEF Handle, Last
    <3> QED BY <3>1, <1>3
  <2> QED BY <2>1, <1>7 DEF Known
<1>12. types_hash' = TypedefsIn(source, e + 1) => Known'
  <2>1. Under' # Semicolon
    <3>1. p.lhs \in Symbols /\ p.lhs \in Phrases
        BY SymbolsAre DEF Phrases
    <3>2. Under' = p.lhs
      <4>1. n <= Len(syms)
          BY <1>1, <1>2, UnderHandle
      <4> QED BY <4>1, <3>1, <1>1, <1>2, <1>3, UnderNext
    <3> QED BY <3>1, <3>2, PhraseAssumption
  <2>2. Consumed' = e
      BY <1>1, <1>7 DEF Consumed
  <2> QED BY <2>1, <2>2, <1>1 DEF Known
<1>13. IsTypedef(p) <=> n = 3 /\ source[l].kind = "TYPEDEF"
  <2>1. PICK old : old = Arg(n, 1)
      OBVIOUS
  <2>2. PICK a \in Grown(old) : UN(a, p.lhs, n, p.arg, RefsOf(p))
      BY <2>1, <1>1, <1>2, <1>3 DEF Act
  <2>3. a \in Addr /\ node'[a].text = node[old].text
      BY <2>1, <2>2, <1>2, <1>3, <1>5, UNSays
  <2>4. Last(yyvs') = a
    <3>1. Push(n, a) /\ n <= Len(yyvs) /\ yyvs \in Seq(Addr \cup {Null})
        BY <2>2, <1>1 DEF UN, ParserInv, StoreInv, StoreOK
    <3>2. \A k \in Nat : k <= Len(yyvs) =>
              Last(Append(SubSeq(yyvs, 1, Len(yyvs) - k), a)) = a
      <4> SUFFICES ASSUME NEW k \in Nat, k <= Len(yyvs)
                   PROVE  Last(Append(SubSeq(yyvs, 1, Len(yyvs) - k), a)) = a
          OBVIOUS
      <4>1. SubSeq(yyvs, 1, Len(yyvs) - k) \in Seq(Addr \cup {Null})
          BY <3>1
      <4> QED BY <4>1, <2>3 DEF Last
    <3> QED BY <3>1, <3>2, <1>3 DEF Push
  <2>5. node[old].text = Typedef <=> source[l].kind = "TYPEDEF"
    <3>1. TextSays(source, p.rhs[1], node[Arg(n, 1)].text, c[1 - 1] + 1, c[1])
        BY <1>3, <1>6
    <3>2. 1 - 1 = 0
        OBVIOUS
    <3> QED BY <3>1, <3>2, <2>1, <1>3, <1>7 DEF TextSays
  <2> QED BY <2>3, <2>4, <2>5, <1>2 DEF IsTypedef
<1>14. CASE ~IsTypedef(p)
  <2>1. types_hash' = types_hash /\ pc' = pc
      BY <1>1, <1>14 DEF add_typenames
  <2>2. types_hash = TypedefsIn(source, e + 1)
      BY <1>8, <1>10, <1>11, <1>13, <1>14
  <2> QED BY <2>1, <2>2, <1>12
<1>15. CASE IsTypedef(p)
  <2> DEFINE v == Arg(3, 2)
             named == \A h \in Heads[v] : node[h].refs[IdField] # Null
             names == {node[node[h].refs[IdField]].text : h \in Heads[v]}
  <2>1. /\ n = 3 /\ source[l].kind = "TYPEDEF" /\ 2 \in 1 .. n
      BY <1>13, <1>15
  <2>2. v \in Addr
    <3>1. p.rhs[2] \in Types
        BY <2>1, <1>3, PhraseAssumption DEF Declaring
    <3>2. v \in Addr \cup {Null} /\ (p.rhs[2] \in Types => v # Null)
        BY ZenonT(60), <2>1, <1>1, <1>2, TheNode
    <3> QED BY <3>1, <3>2
  <2>3. (v \in NamedNodes <=> named) /\ NamesOf[v] = names
      BY <2>2 DEF NamedNodes, NamesOf
  <2>4. NamesSay(source, "init_declarator_list", v \in NamedNodes, NamesOf[v], c[1] + 1, c[2])
    <3>1. 2 - 1 = 1
        OBVIOUS
    <3>2. NamesSay(source, p.rhs[2], v \in NamedNodes, NamesOf[v], c[2 - 1] + 1, c[2])
        BY <2>1, <1>6
    <3> QED BY <3>1, <3>2, <2>1, <1>3
  <2>5. /\ types_hash' = IF named THEN types_hash \cup names ELSE types_hash
        /\ pc' = IF named THEN pc ELSE "crashed"
      BY Zenon, <1>1, <1>15 DEF add_typenames
  <2> HIDE DEF named, names, v
  <2>6. CASE named
    <3>1. names = Ids(source, c[1] + 1, c[2])
        BY <2>3, <2>4, <2>6 DEF NamesSay, Declaring
    <3>2. types_hash' = TypedefsIn(source, e + 1) /\ pc' = pc
        BY <3>1, <2>1, <2>5, <2>6, <1>8, <1>10, <1>11
    <3> QED BY <3>2, <1>12
  <2>7. CASE ~named
    <3>1. PICK j \in c[1] + 1 .. c[2] : source[j].kind = Brackets
        BY <2>3, <2>4, <2>7 DEF NamesSay, Declaring
    <3>2. j \in l .. e /\ FirstIn(source, j) = l
        BY <2>1, <1>8, <1>10
    <3>3. j \in ClosedIn(source, Len(source) + 1)
      <4>1. e <= Len(source) /\ Len(source) \in Nat
          BY <1>7 DEF Consumed
      <4>2. j \in 1 .. (Len(source) + 1) - 1 /\ e \in j .. (Len(source) + 1) - 1
          BY <4>1, <3>2, <1>7
      <4> QED BY <4>2, <1>8 DEF ClosedIn
    <3>4. pc' = "crashed"
        BY <2>5, <2>7
    <3> QED BY <3>1, <3>2, <3>3, <3>4, <2>1 DEF ArrayOfTypes
  <2> QED BY <2>6, <2>7
<1> QED BY <1>14, <1>15

-----------------------------------------------------------------------------
(***************************************************************************)
(* The classes of words.                                                   *)
(***************************************************************************)
ClassesIn(src) ==
    \A n \in 1 .. Len(src) : src[n].kind \in {"IDENTIFIER", "TYPEDEF_NAME"} =>
        (src[n].kind = "TYPEDEF_NAME" <=> src[n].text \in TypedefsIn(src, n))

\* This is the property, of the words read so far,
LEMMA ClassesAre == ClassesAsDeclared <=> ClassesIn(source)
    BY Zenon, SourceIs DEF ClassesAsDeclared, ClassesIn

\* also after a step.
LEMMA ClassesAreNext == ClassesAsDeclared' <=> ClassesIn(source)'
    BY ClassesAre, PTL

\* Known classes stay right, and the next one is if the names are known.
LEMMA OneMoreClass ==
    ASSUME NEW W, NEW src \in Seq(W), ClassesIn(src), NEW w \in W,
           w.kind \in {"IDENTIFIER", "TYPEDEF_NAME"} =>
              (w.kind = "TYPEDEF_NAME" <=> w.text \in TypedefsIn(src, Len(src) + 1))
    PROVE  ClassesIn(Append(src, w))
<1> DEFINE new == Append(src, w)
<1>1. /\ Len(src) \in Nat /\ Len(new) = Len(src) + 1 /\ new[Len(src) + 1] = w
      /\ \A n \in 1 .. Len(src) : new[n] = src[n]
    OBVIOUS
<1>2. \A n \in 1 .. Len(src) + 1 : TypedefsIn(new, n) = TypedefsIn(src, n)
    BY SourceGrows
<1> HIDE DEF new
<1>3. ASSUME NEW n \in 1 .. Len(new), new[n].kind \in {"IDENTIFIER", "TYPEDEF_NAME"}
      PROVE  new[n].kind = "TYPEDEF_NAME" <=> new[n].text \in TypedefsIn(new, n)
  <2>1. CASE n \in 1 .. Len(src)
    <3>1. new[n] = src[n] /\ TypedefsIn(new, n) = TypedefsIn(src, n)
        BY <2>1, <1>1, <1>2
    <3> QED BY <2>1, <3>1, <1>3 DEF ClassesIn
  <2>2. CASE n = Len(src) + 1
    <3>1. new[n] = w /\ TypedefsIn(new, n) = TypedefsIn(src, n)
        BY <2>2, <1>1, <1>2
    <3> QED BY <2>2, <3>1, <1>3
  <2> QED BY <2>1, <2>2, <1>1
<1> QED BY <1>3 DEF ClassesIn, new

\* What may be on the stack's end when the parser waits for a word.
LEMMA StuckUnder ==
    ASSUME syms \in Seq(Symbols), Shaped, Stuck
    PROVE  Under \notin {"IDENTIFIER", Semicolon, "declaration", "external_declaration"}
<1>1. Semicolon \notin {"bottom", "declaration_specifiers"}
    BY Zenon DEF Semicolon
<1>2. CASE syms = << >>
    BY <1>1, <1>2 DEF Under
<1>3. CASE syms # << >>
    BY <1>1, <1>3, StuckOn DEF Under, Immediate
<1> QED BY <1>2, <1>3

\* What has a kind and a text of those the lexer has is a word it may make.
LEMMA IsRead ==
    ASSUME NEW k \in {w.kind : w \in Words} \cup {"IDENTIFIER", "TYPEDEF_NAME", "EOF"},
           NEW t \in Texts
    PROVE  [kind |-> k, text |-> t] \in Reads
BY DEF Reads

\* The word that is read is one of a line, or the end of the file.
LEMMA TheWord ==
    ASSUME TypesInv, Lex
    PROVE  \E w \in Words \cup {EOF} :
              la' = [kind |-> check_identifier(w), text |-> w.text] /\ yytext' = w.text
<1>1. input \in Seq(Words \cup {EOF})
    BY DEF TypesInv, TreeInv, ParserInv
<1>2. PICK rest \in Rests :
          /\ la' = [kind |-> check_identifier(Head(rest)), text |-> Head(rest).text]
          /\ yytext' = Head(rest).text
    BY DEF Lex
<1>3. rest \in Seq(Words \cup {EOF}) /\ rest # << >>
  <2>1. CASE input # << >> /\ rest = input
      BY <2>1, <1>1
  <2>2. CASE rest = <<EOF>>
      BY <2>2
  <2>3. CASE rest \in Lines
      BY <2>3, ParserAssumption
  <2> QED BY <2>1, <2>2, <2>3, <1>2 DEF Rests
<1> QED BY <1>2, <1>3

\* A word that is read is of the class that the names known so far give it.
LEMMA LexDeclares ==
    ASSUME TypesInv, TypesInv', Shaped, ReadInv, Spanned, Known, ClassesAsDeclared, Lex
    PROVE  ReadInv' /\ Spanned' /\ Known' /\ ClassesAsDeclared'
<1>1. /\ la = None /\ Stuck /\ syms' = syms /\ yyvs' = yyvs /\ node' = node
      /\ types_hash' = types_hash /\ source' = Append(source, la')
    BY DEF Lex, Stuck, storeVars
<1>2. /\ syms \in Seq(Symbols) /\ source \in Seq(Reads) /\ input \in Seq(Words \cup {EOF})
      /\ Len(source) \in Nat
    BY DEF TypesInv, TreeInv, ParserInv, ReadInv
<1>3. PICK w \in Words \cup {EOF} :
          la' = [kind |-> check_identifier(w), text |-> w.text] /\ yytext' = w.text
    BY TheWord
<1>4. /\ w.text \in Texts
      /\ w.kind = "EOF" \/ (w.kind \in {v.kind : v \in Words}
                            /\ w.kind \notin {"IDENTIFIER", "TYPEDEF_NAME"})
    BY ParserAssumption, PhraseAssumption DEF EOF
<1>5. /\ la' \in Reads /\ la'.text = yytext' /\ la'.text = w.text
      /\ la'.kind = check_identifier(w)
  <2>1. /\ la'.kind = check_identifier(w) /\ la'.text = w.text
      BY <1>3
  <2>2. check_identifier(w) \in {v.kind : v \in Words} \cup {"IDENTIFIER", "TYPEDEF_NAME", "EOF"}
      BY <1>4 DEF check_identifier
  <2>3. la' \in Reads
      BY Zenon, <2>2, <1>3, <1>4, IsRead
  <2> QED BY <2>1, <2>3, <1>3
<1>6. la' # None
    BY <1>5, PhraseAssumption
<1>7. /\ Len(source') = Len(source) + 1 /\ source'[Len(source) + 1] = la'
      /\ source' \in Seq(Reads) /\ source' # << >>
      /\ \A j \in 1 .. Len(source) : source'[j] = source[j]
    BY SMTT(60), <1>1, <1>2, <1>5
<1>8. Under' = Under /\ Under \notin {"IDENTIFIER", Semicolon}
    BY <1>1, <1>2, StuckUnder DEF Under
<1>9. Consumed = Len(source) /\ Consumed' = Len(source)
    BY <1>1, <1>2, <1>6, <1>7 DEF Consumed
<1>10. ReadInv'
    BY <1>5, <1>7, <1>8 DEF ReadInv
<1>11. Spanned'
  <2>1. NodesOK'
      BY DEF TypesInv, TreeInv, ParserInv, StoreInv, StoreOK, NodesOK, Nodes
  <2> HIDE DEF Consumed
  <2> QED BY <2>1, <1>1, <1>7, <1>9, StaySpans
<1>12. types_hash = TypedefsIn(source, Len(source) + 1)
    BY <1>8, <1>9 DEF Known
<1>13. Known'
  <2>1. TypedefsIn(source', Len(source) + 1) = TypedefsIn(source, Len(source) + 1)
      BY <1>1, <1>2, <1>5, SourceGrows
  <2> QED BY <2>1, <1>1, <1>8, <1>9, <1>12 DEF Known
<1>14. ClassesAsDeclared'
  <2>1. ClassesIn(source)
      BY ClassesAre
  <2>2. la'.kind \in {"IDENTIFIER", "TYPEDEF_NAME"} =>
            (la'.kind = "TYPEDEF_NAME" <=> la'.text \in TypedefsIn(source, Len(source) + 1))
      BY <1>4, <1>5, <1>12 DEF check_identifier
  <2>3. ClassesIn(Append(source, la'))
      BY <2>1, <2>2, <1>2, <1>5, OneMoreClass
  <2> QED BY <2>3, <1>1, ClassesAreNext
<1> QED BY <1>10, <1>11, <1>13, <1>14

\* A word that is shifted declares nothing yet.
LEMMA ShiftDeclares ==
    ASSUME TypesInv, TypesInv', Shaped, ReadInv, Spanned, Known, Shift
    PROVE  ReadInv' /\ Spanned' /\ Known'
<1>1. /\ la # None /\ la' = None /\ source' = source /\ yytext' = yytext
      /\ types_hash' = types_hash /\ syms' = Append(syms, la.kind)
    BY DEF Shift
<1>2. ReadInv'
    BY <1>1 DEF ReadInv
<1>3. Spanned'
  <2>1. NodesOK'
      BY DEF TypesInv, TreeInv, ParserInv, StoreInv, StoreOK, NodesOK, Nodes
  <2> QED BY <2>1, ShiftSpans
<1>4. /\ source # << >> /\ la = source[Len(source)] /\ Under # Semicolon
      /\ source \in Seq(Reads) /\ syms \in Seq(Symbols)
    BY <1>1 DEF ReadInv, TypesInv, TreeInv, ParserInv
<1>5. PICK n \in Nat \ {0} : n = Len(source)
    BY <1>4
<1>6. Consumed + 1 = n /\ Consumed' = n
    BY <1>1, <1>5 DEF Consumed
<1>7. types_hash = TypedefsIn(source, n)
    BY <1>4, <1>6 DEF Known
<1>8. Under' = la.kind
    BY <1>1, <1>4 DEF Under, Last
<1>9. CASE la.kind = Semicolon
    BY <1>1, <1>2, <1>3, <1>6, <1>7, <1>8, <1>9 DEF Known
<1>10. CASE la.kind # Semicolon
  <2>1. TypedefsIn(source, n + 1) = TypedefsIn(source, n)
      BY <1>4, <1>5, <1>10, NotTheEnd
  <2> QED BY <2>1, <1>1, <1>2, <1>3, <1>6, <1>7, <1>8, <1>10 DEF Known
<1> QED BY <1>2, <1>3, <1>9, <1>10

-----------------------------------------------------------------------------
(***************************************************************************)
(* The classes of the words.  The invariant says, beside the stack's shape *)
(* and the words its symbols span, what the table of type names holds, and *)
(* that only a typedef of an array ends the program while it parses.       *)
(***************************************************************************)
DeclInv ==
    /\ TypesInv /\ Shaped /\ ReadInv /\ ClassesAsDeclared
    /\ pc = "start" => syms = << >> /\ la = None /\ source = << >> /\ types_hash = None
    /\ pc = "parse" => Spanned /\ Known
    /\ pc = "crashed" /\ syms # << >> => ArrayOfTypes
    /\ pc \in {"parsed", "walked", "done"} => syms = << >>

\* An empty stack has the shape.
LEMMA EmptyShaped == ShapeOf(<< >>)
BY DEF ShapeOf

\* The program starts with nothing read, nothing on the stack and no type name.
LEMMA DeclInit == Init => DeclInv
<1> SUFFICES ASSUME Init PROVE DeclInv
    OBVIOUS
<1>1. TypesInv
    BY TypesInit
<1>2. pc = "start" /\ syms = << >> /\ la = None /\ source = << >> /\ types_hash = None
    BY DEF Init
<1>3. Shaped
    BY <1>2, EmptyShaped DEF Shaped
<1>4. ReadInv
    BY <1>2 DEF ReadInv
<1>5. ClassesAsDeclared
    BY <1>2 DEF ClassesAsDeclared
<1> QED BY <1>1, <1>2, <1>3, <1>4, <1>5 DEF DeclInv

\* The parse begins with nothing on the stack and no name of a type.
LEMMA SetupDeclares ==
    ASSUME DeclInv, TypesInv', Setup
    PROVE  DeclInv'
<1>1. /\ pc = "start" /\ pc' = "parse" /\ types_hash' = {} /\ yyvs' = << >>
      /\ syms' = syms /\ la' = la /\ yytext' = yytext /\ source' = source
      /\ syms = << >> /\ la = None /\ source = << >>
    BY DEF DeclInv, Setup, parser_setup
<1>2. Shaped' /\ ReadInv'
    BY <1>1 DEF DeclInv, Shaped, ShapeOf, ReadInv
<1>3. ClassesAsDeclared'
    BY <1>1 DEF ClassesAsDeclared
<1>4. Consumed' = 0 /\ Under' = "bottom"
    BY <1>1 DEF Consumed, Under
<1>5. Spanned'
  <2>1. Spans([i \in 0 .. 0 |-> 0])'
      BY <1>1, <1>4 DEF Spans, Cuts
  <2> QED BY <2>1 DEF Spanned
<1>6. Known'
  <2>1. "bottom" # Semicolon
      BY Zenon DEF Semicolon
  <2>2. TypedefsIn(<< >>, 1) = {}
      BY DEF TypedefsIn, ClosedIn
  <2> QED BY <1>1, <1>4, <2>1, <2>2 DEF Known
<1> QED BY <1>1, <1>2, <1>3, <1>5, <1>6 DEF DeclInv

\* A reduction: the words of the right side are those of what is made of them.
LEMMA ReduceDeclares ==
    ASSUME DeclInv, TypesInv', NEW p \in Productions, Reduce(p)
    PROVE  DeclInv'
<1>1. /\ TypesInv /\ Shaped /\ ReadInv /\ ClassesAsDeclared /\ Spanned /\ Known /\ pc = "parse"
      /\ ParserInv /\ syms \in Seq(Symbols) /\ source \in Seq(Reads)
      /\ la # None => source # << >>
    BY DEF DeclInv, Reduce, TypesInv, TreeInv, ParserInv, ReadInv
<1>2. NodesOK'
    BY DEF TypesInv, TreeInv, ParserInv, StoreInv, StoreOK, NodesOK, Nodes
<1>3. /\ Handle(p) /\ source' = source /\ la' = la /\ yytext' = yytext
      /\ syms' = Append(SubSeq(syms, 1, Len(syms) - Len(p.rhs)), p.lhs)
    BY DEF Reduce, Ready
<1>4. PICK n \in Nat \ {0} : n = Len(p.rhs) /\ n <= Len(syms)
    BY <1>1, <1>3, UnderHandle
<1>5. p.lhs \in Symbols /\ p.lhs \in Phrases
    BY SymbolsAre DEF Phrases
<1>6. Under' = p.lhs /\ syms' # << >>
  <2>1. Under' = p.lhs
      BY <1>1, <1>3, <1>4, <1>5, UnderNext
  <2>2. SubSeq(syms, 1, Len(syms) - n) \in Seq(Symbols)
      BY <1>1, <1>4
  <2>3. PICK rest \in Seq(Symbols) : syms' = Append(rest, p.lhs)
      BY <2>2, <1>3, <1>4
  <2>4. syms' # << >>
      BY <2>3, <1>5
  <2> QED BY <2>1, <2>4
<1>7. Shaped'
    BY <1>1, ReduceShaped
<1>8. Spanned'
    BY <1>1, <1>2, ReduceSpans
<1>9. ReadInv'
  <2>1. Under' \notin {"IDENTIFIER", Semicolon}
      BY <1>5, <1>6, PhraseAssumption
  <2> QED BY <2>1, <1>1, <1>3 DEF ReadInv
<1>10. ClassesAsDeclared'
    BY <1>1, <1>3, ClassesAre, ClassesAreNext
<1>11. \/ pc' = pc /\ Known'
       \/ pc' = "crashed" /\ ArrayOfTypes
    BY <1>1, <1>2, ReduceOther, ReduceDeclaration
<1>12. ArrayOfTypes' <=> ArrayOfTypes
    BY <1>3 DEF ArrayOfTypes
<1> QED BY <1>1, <1>6, <1>7, <1>8, <1>9, <1>10, <1>11, <1>12 DEF DeclInv

\* Steps that read nothing and reduce nothing.
LEMMA StillDeclares ==
    ASSUME DeclInv, TypesInv', UNCHANGED <<parserVars, pc, yyvs>>,
           \A b \in Region(Null) : node'[b] = node[b]
    PROVE  DeclInv'
<1>1. /\ syms' = syms /\ la' = la /\ yytext' = yytext /\ types_hash' = types_hash
      /\ source' = source /\ pc' = pc /\ yyvs' = yyvs
    BY DEF parserVars
<1>2. NodesOK'
    BY DEF TypesInv, TreeInv, ParserInv, StoreInv, StoreOK, NodesOK, Nodes
<1>3. Consumed' = Consumed /\ Under' = Under
    BY <1>1 DEF Consumed, Under
<1>4. pc = "parse" => Spanned'
    BY <1>1, <1>2, <1>3, StaySpans DEF DeclInv
<1>5. pc = "parse" => Known'
    BY <1>1, <1>3 DEF DeclInv, Known
<1>6. Shaped' /\ ReadInv' /\ (ArrayOfTypes' <=> ArrayOfTypes)
    BY <1>1, <1>3 DEF DeclInv, Shaped, ReadInv, ArrayOfTypes
<1>7. ClassesAsDeclared'
    BY <1>1, ClassesAre, ClassesAreNext DEF DeclInv
<1> QED BY <1>1, <1>4, <1>5, <1>6, <1>7 DEF DeclInv

\* Every step of the program keeps the invariant.
LEMMA DeclStep == DeclInv /\ [Next]_vars => DeclInv'
<1> SUFFICES ASSUME DeclInv, [Next]_vars PROVE DeclInv'
    OBVIOUS
<1>1. TypesInv /\ Shaped /\ ReadInv /\ ClassesAsDeclared
    BY DEF DeclInv
<1>2. TypesInv'
    BY <1>1, TypesStep
<1>3. ASSUME source' = source PROVE ClassesAsDeclared'
    BY <1>1, <1>3, ClassesAre, ClassesAreNext
<1>4. CASE Setup
    BY <1>2, <1>4, SetupDeclares
<1>5. CASE Lex
  <2>1. pc = "parse" /\ pc' = pc /\ syms' = syms
      BY <1>5 DEF Lex
  <2>2. Spanned /\ Known
      BY <2>1 DEF DeclInv
  <2>3. ReadInv' /\ Spanned' /\ Known' /\ ClassesAsDeclared'
      BY <1>1, <1>2, <1>5, <2>2, LexDeclares
  <2>4. Shaped'
      BY <1>1, <2>1 DEF Shaped
  <2> QED BY <1>2, <2>1, <2>3, <2>4 DEF DeclInv
<1>6. CASE Shift
  <2>1. pc = "parse" /\ pc' = pc /\ source' = source
      BY <1>6 DEF Shift
  <2>2. Spanned /\ Known /\ ParserInv
      BY <2>1, <1>1 DEF DeclInv, TypesInv, TreeInv
  <2>3. ReadInv' /\ Spanned' /\ Known'
      BY <1>1, <1>2, <1>6, <2>2, ShiftDeclares
  <2>4. Shaped'
      BY <1>1, <1>6, <2>2, ShiftShaped
  <2> QED BY <1>2, <1>3, <2>1, <2>3, <2>4 DEF DeclInv
<1>7. CASE Return
  <2>1. /\ pc' = "parsed" /\ syms' = << >> /\ la' = None /\ source' = source
        /\ yytext' = yytext
      BY <1>7 DEF Return
  <2>2. Shaped' /\ ReadInv'
      BY <2>1, <1>1 DEF Shaped, ShapeOf, ReadInv
  <2> QED BY <1>2, <1>3, <2>1, <2>2 DEF DeclInv
<1>8. CASE Walk \/ NoWalk \/ Teardown
  <2>1. /\ pc \in {"parsed", "walked"}
        /\ pc' \in {"walked", "crashed", "aborted", "stopped", "done"}
        /\ syms' = syms /\ la' = la /\ source' = source /\ yytext' = yytext
      BY <1>8 DEF Walk, Printing, NoWalk, Teardown, parserVars
  <2>2. syms' = << >>
      BY <2>1 DEF DeclInv
  <2>3. Shaped' /\ ReadInv'
      BY <2>1, <1>1 DEF Shaped, ReadInv, Under
  <2> QED BY <1>2, <1>3, <2>1, <2>2, <2>3 DEF DeclInv
<1>9. ASSUME NEW p \in Productions, Reduce(p) PROVE DeclInv'
    BY <1>2, <1>9, ReduceDeclares
<1>10. ASSUME NEW p \in Productions, Intern(p) PROVE DeclInv'
  <2>1. UNCHANGED <<parserVars, pc, yyvs>>
      BY <1>10 DEF Intern, intern_string
  <2>2. \A b \in Region(Null) : node'[b] = node[b]
      BY <1>1, <1>10 DEF Intern, intern_string, Fresh, Region, Live, TypesInv, TreeInv, ParserInv,
                    StoreInv, StoreOK
  <2> QED BY <1>2, <2>1, <2>2, StillDeclares
<1>11. CASE UNCHANGED vars
    BY <1>2, <1>11, StillDeclares DEF vars, storeVars
<1> QED BY <1>4, <1>5, <1>6, <1>7, <1>8, <1>9, <1>10, <1>11 DEF Next

\* The class of every word is what the typedefs closed before it say, however the
\* productions are made up that keep to the assumptions: the parser has reduced a
\* declaration when the lexer classifies the next word.
THEOREM WordsClassified == Spec => []ClassesAsDeclared
<1>1. DeclInv => ClassesAsDeclared
    BY DEF DeclInv
<1> QED BY <1>1, DeclInit, DeclStep, PTL DEF Spec

-----------------------------------------------------------------------------
(***************************************************************************)
(* What ends the program: a typedef of an array while it parses; after     *)
(* that, only that there is nothing to walk, or a string or a storage      *)
(* class in a declaration of the tree.                                     *)
(***************************************************************************)
\* b is what the recursion of Below asks for.
FollowsBelow(b) ==
    b = [a \in Addr \cup {Null} |->
            IF a = Null THEN {} ELSE {a} \cup UNION {b[node[a].refs[f]] : f \in Fields}]

\* There is such a function, whatever the nodes hold: the least one.
LEMMA BelowFollowed ==
    ASSUME NodesOK
    PROVE  \E b : FollowsBelow(b)
<1> DEFINE next(a, f) == node[a].refs[f]
           Whole(S) == \A a \in S : \A f \in Fields : next(a, f) # Null => next(a, f) \in S
           Reached(a) == {b \in Addr : \A S \in SUBSET Addr : a \in S /\ Whole(S) => b \in S}
           h == [a \in Addr \cup {Null} |-> IF a = Null THEN {} ELSE Reached(a)]
<1>1. \A a \in Addr, f \in Fields : next(a, f) \in Addr \cup {Null}
    BY DEF NodesOK, Nodes
<1> HIDE DEF next
<1>2. ASSUME NEW a \in Addr PROVE Reached(a) = {a} \cup UNION {h[next(a, f)] : f \in Fields}
  <2> DEFINE T == {a} \cup UNION {h[next(a, f)] : f \in Fields}
  <2>1. ASSUME NEW f \in Fields, NEW b \in h[next(a, f)] PROVE b \in Reached(a)
    <3>1. next(a, f) # Null /\ b \in Reached(next(a, f))
        BY <1>1, <2>1
    <3> QED BY <3>1
  <2>2. a \in Reached(a)
      OBVIOUS
  <2>3. ASSUME NEW f \in Fields, next(a, f) # Null PROVE next(a, f) \in T
    <3>1. h[next(a, f)] = Reached(next(a, f)) /\ next(a, f) \in Addr
        BY <1>1, <2>3
    <3>2. next(a, f) \in Reached(next(a, f))
        BY <3>1
    <3> QED BY <3>1, <3>2
  <2>4. ASSUME NEW f \in Fields, NEW c \in h[next(a, f)], NEW g \in Fields, next(c, g) # Null
        PROVE  next(c, g) \in T
    <3>1. next(a, f) # Null /\ h[next(a, f)] = Reached(next(a, f)) /\ c \in Reached(next(a, f))
        BY <1>1, <2>4
    <3>2. next(c, g) \in Addr /\ c \in Addr
        BY <3>1, <1>1, <2>4
    <3>3. next(c, g) \in Reached(next(a, f))
        BY <3>1, <3>2, <2>4
    <3> QED BY <3>1, <3>3
  <2>5. T \in SUBSET Addr
    <3>1. \A f \in Fields : h[next(a, f)] \subseteq Addr
        BY <1>1
    <3> HIDE DEF h
    <3> QED BY <3>1
  <2>6. Whole(T)
    <3> SUFFICES ASSUME NEW c \in T, NEW g \in Fields, next(c, g) # Null PROVE next(c, g) \in T
        OBVIOUS
    <3>1. CASE c = a
        BY <3>1, <2>3
    <3>2. ASSUME NEW f \in Fields, c \in h[next(a, f)] PROVE next(c, g) \in T
      <4> HIDE DEF T, h
      <4> QED BY <3>2, <2>4
    <3> QED BY <3>1, <3>2
  <2>7. Reached(a) \subseteq T
    <3> HIDE DEF T, Whole
    <3> QED BY <2>5, <2>6, a \in T DEF T
  <2>8. T \subseteq Reached(a)
    <3> HIDE DEF h, Reached
    <3> QED BY <2>1, <2>2
  <2> HIDE DEF h, Reached
  <2> QED BY <2>7, <2>8
<1>3. h = [a \in Addr \cup {Null} |->
              IF a = Null THEN {} ELSE {a} \cup UNION {h[next(a, f)] : f \in Fields}]
  <2>1. \A a \in Addr \cup {Null} :
            (IF a = Null THEN {} ELSE Reached(a)) =
                IF a = Null THEN {} ELSE {a} \cup UNION {h[next(a, f)] : f \in Fields}
    <3> HIDE DEF h, Reached
    <3> QED BY <1>2, StoreAssumption
  <2> HIDE DEF Reached
  <2> QED BY <2>1
<1>4. FollowsBelow(h)
    BY <1>3, Zenon DEF FollowsBelow, next
<1> QED BY <1>4

BelowFollows ==
    /\ Below[Null] = {}
    /\ \A a \in Addr : Below[a] = {a} \cup UNION {Below[node[a].refs[f]] : f \in Fields}

\* So Below is one.
LEMMA BelowDo == NodesOK => BelowFollows
<1> SUFFICES ASSUME NodesOK PROVE BelowFollows
    OBVIOUS
<1>1. FollowsBelow(Below)
  <2>1. \E h : h = [a \in Addr \cup {Null} |->
                       IF a = Null THEN {}
                       ELSE {a} \cup UNION {h[node[a].refs[f]] : f \in Fields}]
      BY BelowFollowed DEF FollowsBelow
  <2> QED BY <2>1, Zenon DEF Below, FollowsBelow
<1> HIDE DEF Below
<1> QED BY <1>1, StoreAssumption DEF FollowsBelow, BelowFollows

\* The nodes below one are found through its fields, also after a step.
LEMMA BelowDoNext == NodesOK' => BelowFollows'
    BY BelowDo, PTL

\* Nodes that a step leaves alone, and that only lead to one another, have the same below
\* them.
LEMMA BelowKept ==
    ASSUME NodesOK, NodesOK', Ranked, NEW S \in SUBSET Addr,
           \A b \in S : /\ Live(b) /\ node'[b] = node[b]
                        /\ \A f \in Fields : node[b].refs[f] # Null => node[b].refs[f] \in S
    PROVE  \A v \in S : Below'[v] = Below[v] /\ Below[v] \subseteq S
<1>1. PICK n \in Nat : \E rank : Ranking(rank, n)
    BY DEF Ranked
<1>2. PICK rank : Ranking(rank, n)
    BY <1>1
<1> DEFINE next(b, f) == node[b].refs[f]
           Good == {k \in Nat : \A b \in S : rank[b] < k =>
                                   Below'[b] = Below[b] /\ Below[b] \subseteq S}
<1>3. BelowFollows /\ BelowFollows'
    BY BelowDo, BelowDoNext
<1>4. Below[Null] = {} /\ Below'[Null] = {}
    BY <1>3 DEF BelowFollows
<1>5. ASSUME NEW b \in S
      PROVE  /\ Below[b] = {b} \cup UNION {Below[next(b, f)] : f \in Fields}
             /\ Below'[b] = {b} \cup UNION {Below'[next(b, f)] : f \in Fields}
             /\ rank[b] \in Nat
             /\ \A f \in Fields : next(b, f) # Null =>
                   next(b, f) \in S /\ rank[next(b, f)] < rank[b]
  <2>1. b \in Addr /\ Live(b) /\ node'[b] = node[b]
      OBVIOUS
  <2>2. Below[b] = {b} \cup UNION {Below[next(b, f)] : f \in Fields}
      BY <2>1, <1>3 DEF BelowFollows
  <2>3. Below'[b] = {b} \cup UNION {Below'[next(b, f)] : f \in Fields}
      BY <2>1, <1>3 DEF BelowFollows
  <2>4. rank[b] \in 0 .. n
      BY <2>1, <1>2 DEF Ranking
  <2>5. \A f \in Fields : next(b, f) # Null => next(b, f) \in S /\ rank[next(b, f)] < rank[b]
      BY <2>1, <1>2 DEF Ranking
  <2> HIDE DEF Below, next
  <2>6. rank[b] \in Nat
      BY <2>4, <1>1
  <2> QED BY <2>2, <2>3, <2>5, <2>6
<1> HIDE DEF Below, next
<1>6. 0 \in Good
    BY <1>5
<1>7. ASSUME NEW k \in Good PROVE k + 1 \in Good
  <2> SUFFICES ASSUME NEW b \in S, rank[b] < k + 1
               PROVE  Below'[b] = Below[b] /\ Below[b] \subseteq S
      OBVIOUS
  <2>1. \A f \in Fields : Below'[next(b, f)] = Below[next(b, f)] /\ Below[next(b, f)] \subseteq S
    <3> SUFFICES ASSUME NEW f \in Fields
                 PROVE  Below'[next(b, f)] = Below[next(b, f)] /\ Below[next(b, f)] \subseteq S
        OBVIOUS
    <3>1. CASE next(b, f) = Null
        BY <3>1, <1>4
    <3>2. CASE next(b, f) # Null
      <4>1. next(b, f) \in S /\ rank[next(b, f)] < k
        <5>1. next(b, f) \in S /\ rank[next(b, f)] < rank[b] /\ rank[b] \in Nat
            BY <3>2, <1>5
        <5>2. rank[next(b, f)] \in Nat
            BY <5>1, <1>5
        <5> QED BY <5>1, <5>2
      <4> QED BY <4>1
    <3> QED BY <3>1, <3>2
  <2>2. {Below'[next(b, f)] : f \in Fields} = {Below[next(b, f)] : f \in Fields}
      BY Zenon, <2>1
  <2>3. UNION {Below[next(b, f)] : f \in Fields} \subseteq S
      BY <2>1
  <2>4. /\ Below[b] = {b} \cup UNION {Below[next(b, f)] : f \in Fields}
        /\ Below'[b] = {b} \cup UNION {Below'[next(b, f)] : f \in Fields}
      BY <1>5
  <2> QED BY <2>2, <2>3, <2>4
<1>8. Good = Nat
  <2> HIDE DEF Good
  <2>1. Good \in SUBSET Nat
      BY DEF Good
  <2> QED BY <2>1, <1>6, <1>7, Induction
<1>9. ASSUME NEW v \in S PROVE Below'[v] = Below[v] /\ Below[v] \subseteq S
  <2>1. rank[v] + 1 \in Good /\ rank[v] < rank[v] + 1
      BY <1>5, <1>8
  <2> QED BY <2>1
<1> QED BY <1>9

\* The words that say that a walk may fail, and the nodes made of them.
Telling == {"STRING", "TYPEDEF"}
Told(S) == \E k \in S : source[k].kind \in Telling
FatalIn(S) == \E a \in S : Fatal(a)

CauseInv ==
    /\ \A k \in 1 .. Len(source) : source[k].kind = "IDENTIFIER" => source[k].text # Typedef
    /\ pc = "start" => top = Null /\ ~FatalIn(Addr)
    /\ pc = "parse" => /\ FatalIn(Addr) => Told(1 .. Consumed)
                       /\ FatalIn(Below[top]) => Told(ClosedIn(source, Consumed + 1))
                       /\ \A i \in 1 .. Len(syms) : syms[i] = "translation_unit" => top # Null
    /\ pc = "parsed" => /\ top = Null => Accepted = {}
                        /\ FatalIn(Below[top]) => Told(Accepted)
    /\ pc = "crashed" /\ syms = << >> => Accepted = {} \/ Told(Accepted)

\* The words of a production that is complete are the last that the stack has.
LEMMA LastWords ==
    ASSUME ParserInv, Spanned, NEW p \in Productions, Handle(p)
    PROVE  \E n \in Nat \ {0} : \E c :
              /\ n = Len(p.rhs) /\ Args(p, n, c) /\ Cuts(c, n) /\ c[n] = Consumed
              /\ Consumed \in Nat \ {0} /\ c[0] + 1 \in 1 .. Consumed /\ c[1] \in 1 .. Consumed
              /\ \A i \in 1 .. n : WordsSay(source, p.rhs[i], c[i - 1] + 1, c[i])
<1>1. PICK cut : Spans(cut)
    BY DEF Spanned
<1>2. PICK n \in Nat \ {0} : n = Len(p.rhs)
    BY UnderHandle DEF ParserInv
<1>3. PICK c : Args(p, n, c) /\ c[n] = Consumed
    BY <1>1, <1>2, ArgumentsSay
<1>4. Cuts(c, n) /\ \A i \in 1 .. n : WordsSay(source, p.rhs[i], c[i - 1] + 1, c[i])
    BY <1>3 DEF Args
<1>5. /\ c[0] \in Nat /\ c[n] \in Nat /\ c[1] \in Nat /\ c[0] < c[n] /\ c[0] < c[1]
      /\ c[1] = c[n] \/ c[1] < c[n]
  <2> HIDE DEF Consumed
  <2> QED BY <1>2, <1>4 DEF Cuts
<1>6. c[0] + 1 \in 1 .. c[n] /\ c[1] \in 1 .. c[n] /\ c[n] \in Nat \ {0}
    BY <1>5
<1> HIDE DEF Consumed
<1> QED BY <1>2, <1>3, <1>4, <1>6

\* What is fatal in the node that an action makes was said by a word.
LEMMA FatalMade ==
    ASSUME DeclInv, CauseInv, NEW p \in Productions, Reduce(p), FatalIn(Addr)'
    PROVE  Told(1 .. Consumed)
<1>1. PICK a \in Addr : Fatal(a)'
    BY DEF FatalIn
<1>2. /\ pc = "parse" /\ Handle(p) /\ Act(p) /\ ParserInv /\ Spanned /\ ReadInv
      /\ node \in [Addr -> Nodes] /\ syms \in Seq(Symbols)
    BY DEF DeclInv, TypesInv, TreeInv, ParserInv, StoreInv, StoreOK, Nodes, Reduce, Ready
<1>3. (\E b \in Addr : Fatal(b)) => Told(1 .. Consumed)
    BY <1>2 DEF CauseInv, FatalIn
<1>4. ASSUME node'[a] = node[a] PROVE Told(1 .. Consumed)
    BY <1>1, <1>3, <1>4 DEF Fatal
<1>5. CASE p.op = "value" /\ Value(Len(p.rhs))
    BY <1>4, <1>5 DEF Value
<1>6. ASSUME p.op = "NN", NEW b \in Fresh, NN(b, p.lhs, TextOf(p), Len(p.rhs), RefsOf(p))
      PROVE  Told(1 .. Consumed)
  <2>1. b \in Addr /\ node' = [node EXCEPT ![b] = Allocated(p.lhs, TextOf(p), RefsOf(p))]
      BY <1>6 DEF NN, Fresh
  <2>2. CASE a # b
      BY <2>1, <2>2, <1>2, <1>4
  <2>3. CASE a = b
    <3>1. node'[a].type = p.lhs /\ node'[a].text = TextOf(p)
        BY <2>1, <2>3, <1>2 DEF Allocated
    <3>2. p.lhs # Unset
        BY <1>6, ParserAssumption, StoreAssumption DEF ProductionOK
    <3>3. TextOf(p) = Typedef
        BY <1>1, <3>1, <3>2 DEF Fatal
    <3>4. PICK n \in Nat \ {0} : \E c :
              /\ n = Len(p.rhs) /\ Args(p, n, c) /\ Cuts(c, n) /\ c[n] = Consumed
              /\ Consumed \in Nat \ {0} /\ c[0] + 1 \in 1 .. Consumed /\ c[1] \in 1 .. Consumed
              /\ \A i \in 1 .. n : WordsSay(source, p.rhs[i], c[i - 1] + 1, c[i])
        BY <1>2, LastWords
    <3>5. PICK c :
              /\ n = Len(p.rhs) /\ c[n] = Consumed
              /\ Consumed \in Nat \ {0} /\ c[0] + 1 \in 1 .. Consumed /\ c[1] \in 1 .. Consumed
              /\ \A i \in 1 .. n : WordsSay(source, p.rhs[i], c[i - 1] + 1, c[i])
        BY <3>4
    <3>6. CASE p.lhs = "identifier"
      <4>1. n = 1 /\ p.rhs[1] = "IDENTIFIER" /\ p.rhs[1] \in Tokens
          BY <3>5, <3>6, FirstsAre
      <4>2. source[Consumed].kind = "IDENTIFIER"
          BY <4>1, <3>5 DEF WordsSay
      <4>3. Under = "IDENTIFIER"
          BY <4>1, <3>5, <1>2 DEF Handle, Last
      <4>4. la = None /\ Consumed = Len(source)
          BY <4>3, <1>2 DEF ReadInv, Consumed
      <4>5. yytext = source[Consumed].text
          BY <4>4, <3>5, <1>2 DEF ReadInv
      <4>6. yytext = Typedef
          BY <3>3, <3>6, <4>1 DEF TextOf
      <4>7. \A k \in 1 .. Len(source) : source[k].kind = "IDENTIFIER" => source[k].text # Typedef
          BY DEF CauseInv
      <4>8. Len(source) \in 1 .. Len(source)
          BY <3>5, <4>4
      <4> QED BY <4>2, <4>4, <4>5, <4>6, <4>7, <4>8
    <3>7. CASE p.lhs # "identifier" /\ p.rhs[1] = "storage_class_specifier"
      <4>1. source[c[0] + 1].kind = "TYPEDEF"
          BY <3>5, <3>7 DEF WordsSay
      <4> QED BY <4>1, <3>5 DEF Told, Telling
    <3>8. CASE p.lhs # "identifier" /\ p.rhs[1] # "storage_class_specifier"
        BY <3>3, <3>8, StoreAssumption, ParserAssumption DEF TextOf
    <3> QED BY <3>6, <3>7, <3>8
  <2> QED BY <2>2, <2>3
<1>7. ASSUME p.op = "UN", NEW b \in Grown(Arg(Len(p.rhs), p.arg)),
             UN(b, p.lhs, Len(p.rhs), p.arg, RefsOf(p))
      PROVE  Told(1 .. Consumed)
  <2> DEFINE old == Arg(Len(p.rhs), p.arg)
             made == [type |-> p.lhs, text |-> node[old].text, refs |-> Copied(old, RefsOf(p))]
  <2>1. node' = [node EXCEPT ![old] = FreeNode, ![b] = made] /\ old # Null
      BY <1>7, Zenon DEF UN
  <2>2. made.type = p.lhs /\ made.text = node[old].text
      OBVIOUS
  <2> HIDE DEF made
  <2>3. old \in Addr
    <3>1. old \in Addr \cup {Null}
        BY <1>7, <1>2, TheArgument, ParserAssumption DEF ProductionOK
    <3> QED BY <2>1, <3>1
  <2> HIDE DEF old
  <2>4. CASE a = b
    <3>1. node'[a] = made
        BY <2>1, <2>4, <1>2
    <3>2. p.lhs # Unset
        BY <1>7, ParserAssumption, StoreAssumption DEF ProductionOK
    <3>3. Fatal(old)
        BY <3>1, <3>2, <2>2, <1>1 DEF Fatal
    <3> QED BY <3>3, <2>3, <1>3
  <2>5. CASE a # b /\ a = old
    <3>1. node'[a] = FreeNode
        BY <2>1, <2>5, <1>2
    <3> QED BY <3>1, <1>1, StoreAssumption, ParserAssumption DEF Fatal, FreeNode
  <2>6. CASE a # b /\ a # old
      BY <2>1, <2>6, <1>2, <1>4
  <2> QED BY <2>4, <2>5, <2>6
<1> QED BY <1>2, <1>5, <1>6, <1>7 DEF Act

\* A string is interned when its word has been shifted.
LEMMA FatalInterned ==
    ASSUME DeclInv, NEW p \in Productions, Intern(p)
    PROVE  Told(1 .. Consumed)
<1>1. /\ pc = "parse" /\ Handle(p) /\ ParserInv /\ Spanned
    BY DEF DeclInv, TypesInv, TreeInv, Intern, Ready
<1>2. PICK f \in DOMAIN p.refs : p.refs[f] = 0
    BY DEF Intern, NeedsString
<1>3. p.rhs = <<"STRING">> /\ "STRING" \in Tokens
    BY <1>2, PhraseAssumption DEF CausesOK
<1>4. PICK n \in Nat \ {0} : \E c :
          /\ n = Len(p.rhs) /\ Args(p, n, c) /\ Cuts(c, n) /\ c[n] = Consumed
          /\ Consumed \in Nat \ {0} /\ c[0] + 1 \in 1 .. Consumed /\ c[1] \in 1 .. Consumed
          /\ \A i \in 1 .. n : WordsSay(source, p.rhs[i], c[i - 1] + 1, c[i])
    BY <1>1, LastWords
<1>5. n = 1 /\ p.rhs[1] = "STRING"
    BY <1>3, <1>4
<1>6. source[Consumed].kind = "STRING"
    BY <1>3, <1>4, <1>5 DEF WordsSay
<1> QED BY <1>4, <1>6 DEF Told, Telling

\* What is below the result is left alone by a step that gives back nothing but a node of
\* the stack that is not a translation unit.
LEMMA TopKept ==
    ASSUME DeclInv, TypesInv', NEW old, old = Null \/ \E i \in 1 .. Len(yyvs) : yyvs[i] = old,
           old # Null => node[old].type # "translation_unit",
           \A b \in Region(old) : node'[b] = node[b], top' = top
    PROVE  FatalIn(Below[top])' <=> FatalIn(Below[top])
<1>1. TypesInv /\ StoreInv /\ NodesOK /\ Ranked /\ TopUnit /\ top \in Addr \cup {Null}
    BY DEF DeclInv, TypesInv, TreeInv, ParserInv, StoreInv, StoreOK, NodesOK, Nodes
<1>2. NodesOK'
    BY DEF TypesInv, TreeInv, ParserInv, StoreInv, StoreOK, NodesOK, Nodes
<1>3. BelowFollows /\ BelowFollows'
    BY <1>1, <1>2, BelowDo, BelowDoNext
<1>4. CASE top = Null
    BY <1>3, <1>4 DEF BelowFollows, FatalIn
<1>5. CASE top # Null
  <2>1. top \in Region(old)
      BY <1>1, <1>5, StoreAssumption, TopAssumption DEF TopUnit, Region, Live
  <2>2. Region(old) \in SUBSET Addr
      BY DEF Region
  <2>3. \A b \in Region(old) :
            /\ Live(b) /\ node'[b] = node[b]
            /\ \A f \in Fields : node[b].refs[f] # Null => node[b].refs[f] \in Region(old)
    <3> SUFFICES ASSUME NEW b \in Region(old)
                 PROVE  /\ Live(b) /\ node'[b] = node[b]
                        /\ \A f \in Fields : node[b].refs[f] # Null =>
                              node[b].refs[f] \in Region(old)
        OBVIOUS
    <3>1. b \in Addr /\ Live(b)
        BY DEF Region
    <3> QED BY <3>1, <1>1, RegionClosed
  <2> HIDE DEF Region
  <2>4. Below'[top] = Below[top] /\ Below[top] \subseteq Region(old)
      BY <1>1, <1>2, <2>1, <2>2, <2>3, BelowKept
  <2>5. \A a \in Below[top] : Fatal(a)' <=> Fatal(a)
      BY <2>4 DEF Fatal
  <2> HIDE DEF Below
  <2> QED BY <2>4, <2>5 DEF FatalIn
<1> QED BY <1>1, <1>4, <1>5

\* On a word that ends a declaration, on a declaration and on an external one there is
\* nothing, and under a translation unit neither.
LEMMA NothingOn ==
    \A x, s : <<x, s>> \in Beside =>
        /\ x \notin {Semicolon, "declaration", "external_declaration"}
        /\ s = "translation_unit" => x = "bottom"
<1> SUFFICES ASSUME NEW x, NEW s, <<x, s>> \in Beside
             PROVE  /\ x \notin {Semicolon, "declaration", "external_declaration"}
                    /\ s = "translation_unit" => x = "bottom"
    OBVIOUS
<1>1. /\ Semicolon \notin {"bottom", "translation_unit", "storage_class_specifier",
                           "type_specifier", "declaration_specifiers", "init_declarator_list",
                           Comma, Star, "pointer", "direct_declarator", "declarator", Equals}
      /\ {Comma, Star, Equals, Semicolon, Brackets} \cap
            {"declaration", "external_declaration", "translation_unit"} = {}
  <2>1. /\ Semicolon # "bottom" /\ Semicolon # "translation_unit" /\ Semicolon # "pointer"
        /\ Semicolon # "storage_class_specifier" /\ Semicolon # "type_specifier"
        /\ Semicolon # "declaration_specifiers" /\ Semicolon # "init_declarator_list"
        /\ Semicolon # "direct_declarator" /\ Semicolon # "declarator"
        /\ Semicolon # Comma /\ Semicolon # Star /\ Semicolon # Equals
      BY Zenon DEF Semicolon, Comma, Star, Equals
  <2>2. \A t \in {"declaration", "external_declaration", "translation_unit"} :
            t # Comma /\ t # Star /\ t # Equals /\ t # Semicolon /\ t # Brackets
      BY Zenon DEF Semicolon, Comma, Star, Equals, Brackets
  <2> QED BY <2>1, <2>2
<1>2. s \in Values => s # "translation_unit"
  <2>1. "translation_unit" \in Ended
      BY DEF Ended
  <2>2. "translation_unit" \notin Phrases \cap Quiet
    <3>1. "translation_unit" \notin Phrases \/ "translation_unit" \notin Quiet
      <4>1. Tokens \cap Phrases = {}
          BY ShapeAssumption
      <4> QED BY <2>1, <4>1 DEF Quiet
    <3> QED BY <3>1
  <2> QED BY <2>2 DEF Values
<1>3. \/ x \in Outermost
      \/ x \in {"storage_class_specifier", "type_specifier", "declaration_specifiers",
                "init_declarator_list", Comma, Star, "pointer", "direct_declarator", "declarator",
                Equals}
  <2> HIDE DEF Outermost, Beginnings, Declarators, Values
  <2>1. \/ x \in Outermost \/ x = "bottom" \/ x \in {"storage_class_specifier", "type_specifier"}
        \/ x \in {"declaration_specifiers"} \/ x \in {"init_declarator_list"}
        \/ x \in {Comma} \/ x \in {Star, "pointer"} \/ x = "direct_declarator"
        \/ x = "declarator" \/ x \in {Equals}
      BY DEF Beside
  <2> QED BY <2>1 DEF Outermost
<1>4. \/ x = "bottom"
      \/ s \in Beginnings \cup Declarators
      \/ s \in {"declaration", "external_declaration", "init_declarator", "init_declarator_list",
                Semicolon, Comma, Brackets, Equals}
      \/ s \in Values
  <2> HIDE DEF Outermost, Beginnings, Declarators, Values
  <2> QED BY DEF Beside
<1>5. x \notin {Semicolon, "declaration", "external_declaration"}
  <2>1. x # Semicolon
      BY <1>1, <1>3 DEF Outermost
  <2>2. x # "declaration" /\ x # "external_declaration"
      BY <1>1, <1>3 DEF Outermost
  <2> QED BY <2>1, <2>2
<1>6. s = "translation_unit" => x = "bottom"
  <2>1. "translation_unit" \notin Beginnings \cup Declarators
      BY <1>1 DEF Beginnings, Declarators
  <2> QED BY <1>1, <1>2, <1>4, <2>1
<1> QED BY <1>5, <1>6

\* When the parser returns, the declarations that are complete are in the translation unit,
\* if there is one, and there is one if there are any.
LEMMA ReturnCauses ==
    ASSUME DeclInv, CauseInv, Return
    PROVE  CauseInv'
<1>1. /\ pc = "parse" /\ pc' = "parsed" /\ la # None /\ Stuck /\ source' = source
      /\ top' = top /\ node' = node /\ Shaped /\ ReadInv /\ Spanned
      /\ syms \in Seq(Symbols)
    BY DEF DeclInv, TypesInv, TreeInv, ParserInv, Return, Abandon, Stuck
<1>2. PICK cut : Spans(cut)
    BY <1>1 DEF Spanned
<1>3. Len(source) \in Nat /\ Consumed + 1 = Len(source) /\ Consumed \in Nat
    BY <1>1 DEF ReadInv, Consumed
<1>4. Accepted = ClosedIn(source, Consumed + 1)
    BY <1>3, SourceIs DEF Accepted
<1>5. Accepted' = Accepted
    BY <1>1 DEF Accepted, Closed
<1>6. FatalIn(Below[top])' <=> FatalIn(Below[top])
    BY <1>1 DEF FatalIn, Fatal, Below
<1>7. Told(Accepted)' <=> Told(Accepted)
    BY <1>1, <1>5 DEF Told
<1>8. ASSUME top = Null, NEW j \in 1 .. Consumed PROVE source[j].kind # Semicolon
  <2>1. Len(syms) \in Nat \ {0} /\ Cuts(cut, Len(syms)) /\ cut[0] = 0 /\ cut[Len(syms)] = Consumed
    <3>1. /\ Cuts(cut, Len(syms)) /\ cut[0] = 0 /\ cut[Len(syms)] = Consumed
          /\ Len(syms) \in Nat
        BY <1>1, <1>2 DEF Spans
    <3>2. Consumed # 0
        BY <1>3, <1>8
    <3> QED BY <3>1, <3>2
  <2>2. PICK i \in 1 .. Len(syms) : j \in cut[i - 1] + 1 .. cut[i]
    <3>1. PICK m \in Nat \ {0} : m = Len(syms)
        BY <2>1
    <3> HIDE DEF Consumed
    <3>2. Cuts(cut, m) /\ j \in cut[0] + 1 .. cut[m]
        BY <2>1, <3>1, <1>8
    <3> QED BY <3>1, <3>2, Pieces
  <2>3. WordsSay(source, syms[i], cut[i - 1] + 1, cut[i])
      BY <1>2 DEF Spans
  <2>4. syms[i] \notin Ended \cup {Semicolon}
    <3>1. syms[i] # "translation_unit"
        BY <1>1, <1>8 DEF CauseInv
    <3>2. CASE i = Len(syms)
      <4>1. Under \notin {Semicolon, "declaration", "external_declaration"}
          BY <1>1, StuckUnder
      <4>2. Under = syms[i]
          BY <1>1, <2>1, <3>2 DEF Under, Last
      <4> QED BY <3>1, <4>1, <4>2 DEF Ended
    <3>3. CASE i # Len(syms)
      <4>1. i + 1 \in 1 .. Len(syms) /\ (i + 1) - 1 = i /\ i # 0
          BY <3>3, <2>1
      <4>2. <<At(syms, (i + 1) - 1), syms[i + 1]>> \in Beside
          BY <4>1, <1>1 DEF Shaped, ShapeOf
      <4>3. <<syms[i], syms[i + 1]>> \in Beside
          BY <4>1, <4>2 DEF At
      <4>4. syms[i] \notin {Semicolon, "declaration", "external_declaration"}
          BY <4>3, NothingOn
      <4> QED BY <3>1, <4>4 DEF Ended
    <3> QED BY <3>2, <3>3
  <2> QED BY <2>2, <2>3, <2>4 DEF WordsSay
<1>9. top = Null => Accepted = {}
  <2> SUFFICES ASSUME top = Null, NEW k \in ClosedIn(source, Consumed + 1) PROVE FALSE
      BY <1>4
  <2>1. PICK j \in k .. (Consumed + 1) - 1 : source[j].kind = Semicolon
      BY DEF ClosedIn
  <2>2. k \in 1 .. (Consumed + 1) - 1
      BY DEF ClosedIn
  <2>3. j \in 1 .. Consumed
      BY <2>1, <2>2, <1>3
  <2> QED BY <2>1, <2>3, <1>8
<1>10. FatalIn(Below[top]) => Told(Accepted)
    BY <1>1, <1>4 DEF CauseInv
<1>11. \A k \in 1 .. Len(source') : source'[k].kind = "IDENTIFIER" => source'[k].text # Typedef
    BY <1>1 DEF CauseInv
<1> QED BY <1>1, <1>5, <1>6, <1>7, <1>9, <1>10, <1>11 DEF CauseInv

\* What only leads to one another leads to nothing else.
LEMMA BelowWithin ==
    ASSUME NodesOK, Ranked, NEW S \in SUBSET Addr,
           \A b \in S : Live(b) /\ \A f \in Fields : node[b].refs[f] # Null => node[b].refs[f] \in S
    PROVE  \A v \in S : Below[v] \subseteq S
<1>1. PICK n \in Nat : \E rank : Ranking(rank, n)
    BY DEF Ranked
<1>2. PICK rank : Ranking(rank, n)
    BY <1>1
<1> DEFINE next(b, f) == node[b].refs[f]
           Good == {k \in Nat : \A b \in S : rank[b] < k => Below[b] \subseteq S}
<1>3. BelowFollows
    BY BelowDo
<1>4. Below[Null] = {}
    BY <1>3 DEF BelowFollows
<1>5. ASSUME NEW b \in S
      PROVE  /\ Below[b] = {b} \cup UNION {Below[next(b, f)] : f \in Fields}
             /\ rank[b] \in Nat
             /\ \A f \in Fields : next(b, f) # Null =>
                   next(b, f) \in S /\ rank[next(b, f)] < rank[b]
  <2>1. b \in Addr /\ Live(b)
      OBVIOUS
  <2>2. Below[b] = {b} \cup UNION {Below[next(b, f)] : f \in Fields}
      BY <2>1, <1>3 DEF BelowFollows
  <2>3. rank[b] \in 0 .. n
      BY <2>1, <1>2 DEF Ranking
  <2>4. \A f \in Fields : next(b, f) # Null => next(b, f) \in S /\ rank[next(b, f)] < rank[b]
      BY <2>1, <1>2 DEF Ranking
  <2> HIDE DEF Below, next
  <2>5. rank[b] \in Nat
      BY <2>3, <1>1
  <2> QED BY <2>2, <2>4, <2>5
<1> HIDE DEF Below, next
<1>6. 0 \in Good
    BY <1>5
<1>7. ASSUME NEW k \in Good PROVE k + 1 \in Good
  <2> SUFFICES ASSUME NEW b \in S, rank[b] < k + 1 PROVE Below[b] \subseteq S
      OBVIOUS
  <2>1. \A f \in Fields : Below[next(b, f)] \subseteq S
    <3> SUFFICES ASSUME NEW f \in Fields PROVE Below[next(b, f)] \subseteq S
        OBVIOUS
    <3>1. CASE next(b, f) = Null
        BY <3>1, <1>4
    <3>2. CASE next(b, f) # Null
      <4>1. next(b, f) \in S /\ rank[next(b, f)] < k
        <5>1. next(b, f) \in S /\ rank[next(b, f)] < rank[b] /\ rank[b] \in Nat
            BY <3>2, <1>5
        <5>2. rank[next(b, f)] \in Nat
            BY <5>1, <1>5
        <5> QED BY <5>1, <5>2
      <4> QED BY <4>1
    <3> QED BY <3>1, <3>2
  <2>2. UNION {Below[next(b, f)] : f \in Fields} \subseteq S
      BY <2>1
  <2> QED BY <2>2, <1>5
<1>8. Good = Nat
  <2> HIDE DEF Good
  <2>1. Good \in SUBSET Nat
      BY DEF Good
  <2> QED BY <2>1, <1>6, <1>7, Induction
<1>9. ASSUME NEW v \in S PROVE Below[v] \subseteq S
  <2>1. rank[v] + 1 \in Good /\ rank[v] < rank[v] + 1
      BY <1>5, <1>8
  <2> QED BY <2>1
<1> QED BY <1>9

\* What is below the result are nodes.
LEMMA TopBelow == TypesInv => Below[top] \subseteq Addr
<1> SUFFICES ASSUME TypesInv PROVE Below[top] \subseteq Addr
    OBVIOUS
<1>1. /\ StoreInv /\ NodesOK /\ Ranked /\ TopUnit /\ RefsLive /\ top \in Addr \cup {Null}
    BY DEF TypesInv, TreeInv, ParserInv, StoreInv, StoreOK, NodesOK, Nodes
<1> DEFINE S == {b \in Addr : Live(b)}
<1>2. CASE top = Null
    BY <1>1, <1>2, BelowDo DEF BelowFollows
<1>3. CASE top # Null
  <2>1. top \in S
      BY <1>1, <1>3, StoreAssumption, TopAssumption DEF TopUnit, Live
  <2>2. \A b \in S : Live(b) /\ \A f \in Fields : node[b].refs[f] # Null => node[b].refs[f] \in S
      BY <1>1 DEF RefsLive, NodesOK, Nodes
  <2>3. S \in SUBSET Addr
      OBVIOUS
  <2> HIDE DEF S
  <2>4. Below[top] \subseteq S
      BY <1>1, <2>1, <2>2, <2>3, BelowWithin
  <2> QED BY <2>3, <2>4
<1> QED BY <1>1, <1>2, <1>3

\* What is below the result are nodes, also after a step.
LEMMA TopBelowNext == TypesInv' => (Below[top] \subseteq Addr)'
    BY TopBelow, PTL

\* A reduction that makes no translation unit leaves the result alone, and gives back nothing
\* but a node of the stack that is not one.
LEMMA ReducedRegion ==
    ASSUME TypesInv, NEW p \in Productions, Reduce(p), p.lhs # "translation_unit"
    PROVE  /\ top' = top
           /\ \E old : /\ old = Null \/ \E i \in 1 .. Len(yyvs) : yyvs[i] = old
                       /\ old # Null => node[old].type # "translation_unit"
                       /\ \A b \in Region(old) : node'[b] = node[b]
<1>1. /\ Handle(p) /\ Act(p) /\ TreeInv /\ ParserInv /\ node \in [Addr -> Nodes]
    BY DEF TypesInv, TreeInv, ParserInv, StoreInv, StoreOK, Nodes, Reduce, Ready
<1>2. CASE p.op = "value" /\ Value(Len(p.rhs))
  <2>1. top' = top /\ node' = node
      BY <1>2 DEF Value
  <2> QED BY <2>1
<1>3. ASSUME p.op = "NN", NEW a \in Fresh, NN(a, p.lhs, TextOf(p), Len(p.rhs), RefsOf(p))
      PROVE  /\ top' = top
             /\ \A b \in Region(Null) : node'[b] = node[b]
  <2>1. top' = top /\ a \in Addr /\ ~Live(a)
      BY <1>3 DEF NN, Fresh, Live
  <2>2. node' = [node EXCEPT ![a] = Allocated(p.lhs, TextOf(p), RefsOf(p))]
      BY <1>3 DEF NN
  <2> QED BY <2>1, <2>2, <1>1 DEF Region
<1>4. ASSUME p.op = "UN", NEW a \in Grown(Arg(Len(p.rhs), p.arg)),
             UN(a, p.lhs, Len(p.rhs), p.arg, RefsOf(p))
      PROVE  /\ top' = top
             /\ \E old : /\ old = Null \/ \E i \in 1 .. Len(yyvs) : yyvs[i] = old
                         /\ old # Null => node[old].type # "translation_unit"
                         /\ \A b \in Region(old) : node'[b] = node[b]
  <2>1. PICK n \in Nat \ {0} : n = Len(p.rhs)
      BY <1>1, UnderHandle DEF ParserInv
  <2>2. PICK old : old = Arg(n, p.arg)
      OBVIOUS
  <2>3. /\ top' = top /\ old # Null /\ (a = old \/ node[a].type = Free)
        /\ node' = [node EXCEPT ![old] = FreeNode,
                               ![a] = [type |-> p.lhs, text |-> node[old].text,
                                       refs |-> Copied(old, RefsOf(p))]]
      BY <1>4, <2>1, <2>2, Zenon DEF UN
  <2>4. p.arg \in 1 .. n /\ p.lhs \in Types /\ p.rhs[p.arg] \in Layers[p.lhs] \ {p.lhs}
      BY <1>4, <2>1, ParserAssumption DEF ProductionOK
  <2>5. /\ \E i \in 1 .. Len(yyvs) : yyvs[i] = old
        /\ node[old].type = p.rhs[p.arg]
    <3>1. /\ Len(yyvs) - n + p.arg \in 1 .. Len(yyvs) /\ old = yyvs[Len(yyvs) - n + p.arg]
          /\ old # Null => node[old].type = p.rhs[p.arg]
        BY ZenonT(120), <1>1, <2>1, <2>2, <2>4, TheNode
    <3> QED BY <3>1, <2>3
  <2>6. node[old].type # "translation_unit"
      BY <2>4, <2>5, TopAssumption
  <2>7. \A b \in Region(old) : node'[b] = node[b]
    <3> SUFFICES ASSUME NEW b \in Region(old) PROVE node'[b] = node[b]
        OBVIOUS
    <3>1. b \in Addr /\ b # old /\ b # a
        BY <2>3 DEF Region, Live
    <3> QED BY <3>1, <2>3, <1>1
  <2> QED BY ZenonT(60), <2>3, <2>5, <2>6, <2>7
<1> QED BY <1>1, <1>2, <1>3, <1>4 DEF Act

\* The program starts without nodes and without a result.
LEMMA CauseInit == Init => CauseInv
<1> SUFFICES ASSUME Init PROVE CauseInv
    OBVIOUS
<1>1. pc = "start" /\ source = << >> /\ top = Null /\ node = [a \in Addr |-> FreeNode]
    BY DEF Init, InitStore
<1>2. ~FatalIn(Addr)
    BY <1>1, StoreAssumption, ParserAssumption DEF FatalIn, Fatal, FreeNode
<1> QED BY <1>1, <1>2 DEF CauseInv

\* A symbol of a reduced stack was there, or is the production's.
LEMMA ReducedSymbols ==
    ASSUME syms \in Seq(Symbols), NEW n \in Nat, n <= Len(syms), NEW s \in Symbols,
           syms' = Append(SubSeq(syms, 1, Len(syms) - n), s),
           NEW i \in 1 .. Len(syms')
    PROVE  syms'[i] = s \/ \E j \in 1 .. Len(syms) : syms'[i] = syms[j]
<1>1. Len(syms) - n \in Nat /\ Len(syms) - n <= Len(syms) /\ Len(syms) \in Nat
    OBVIOUS
<1>2. PICK m \in Nat : m = Len(syms) - n /\ m <= Len(syms)
    BY <1>1
<1>3. /\ Len(syms') = m + 1 /\ syms'[m + 1] = s
      /\ \A j \in 1 .. m : syms'[j] = syms[j]
    BY <1>2
<1>4. CASE i = m + 1
    BY <1>3, <1>4
<1>5. CASE i # m + 1
  <2>1. PICK l \in Nat : l = Len(syms) /\ m <= l
      BY <1>1, <1>2
  <2>2. i \in 1 .. m + 1
      BY <1>3
  <2>3. i \in 1 .. m
      BY <2>2, <1>5
  <2>4. i \in 1 .. l
      BY <2>1, <2>3
  <2> QED BY <2>1, <2>3, <2>4, <1>3
<1> QED BY <1>4, <1>5

\* A new translation unit comes when a declaration has just been ended, with all words
\* before it.
LEMMA UnitEnds ==
    ASSUME DeclInv, NEW p \in Productions, Reduce(p), p.lhs = "translation_unit"
    PROVE  ClosedIn(source, Consumed + 1) = 1 .. Consumed
<1>1. /\ pc = "parse" /\ Handle(p) /\ ParserInv /\ Spanned
    BY DEF DeclInv, TypesInv, TreeInv, Reduce, Ready
<1>2. PICK n \in Nat \ {0} : \E c :
          /\ n = Len(p.rhs) /\ Args(p, n, c) /\ Cuts(c, n) /\ c[n] = Consumed
          /\ Consumed \in Nat \ {0} /\ c[0] + 1 \in 1 .. Consumed /\ c[1] \in 1 .. Consumed
          /\ \A i \in 1 .. n : WordsSay(source, p.rhs[i], c[i - 1] + 1, c[i])
    BY <1>1, LastWords
<1>3. PICK c :
          /\ n = Len(p.rhs) /\ c[n] = Consumed /\ Consumed \in Nat \ {0}
          /\ \A i \in 1 .. n : WordsSay(source, p.rhs[i], c[i - 1] + 1, c[i])
    BY <1>2
<1>4. p.rhs[n] = "external_declaration"
  <2>1. p.rhs \in {<<"external_declaration">>, <<"translation_unit", "external_declaration">>}
      BY PhraseAssumption DEF ClosingOK
  <2>2. CASE p.rhs = <<"external_declaration">>
    <3>1. Len(<<"external_declaration">>) = 1 /\ <<"external_declaration">>[1] = "external_declaration"
        OBVIOUS
    <3> QED BY <2>2, <3>1, <1>3
  <2>3. CASE p.rhs = <<"translation_unit", "external_declaration">>
    <3> DEFINE both == <<"translation_unit", "external_declaration">>
    <3>1. Len(both) = 2 /\ both[2] = "external_declaration"
        OBVIOUS
    <3> HIDE DEF both
    <3> QED BY <2>3, <3>1, <1>3 DEF both
  <2> QED BY <2>1, <2>2, <2>3
<1>5. source[Consumed].kind = Semicolon
    BY <1>3, <1>4 DEF WordsSay, Ended
<1>6. PICK m \in Nat \ {0} : m = Consumed
    BY <1>3
<1>7. ClosedIn(source, m + 1) = 1 .. m
  <2>1. source[m].kind = Semicolon
      BY <1>5, <1>6
  <2>2. (m + 1) - 1 = m
      OBVIOUS
  <2>3. \A k \in 1 .. m : m \in k .. m
      OBVIOUS
  <2> QED BY <2>1, <2>2, <2>3 DEF ClosedIn
<1> QED BY <1>6, <1>7

\* What a reduction says of the causes.
LEMMA ReduceCauses ==
    ASSUME DeclInv, CauseInv, TypesInv', NEW p \in Productions, Reduce(p)
    PROVE  CauseInv'
<1>1. /\ pc = "parse" /\ Handle(p) /\ Act(p) /\ ParserInv /\ Spanned
      /\ syms \in Seq(Symbols) /\ source' = source /\ la' = la
      /\ syms' = Append(SubSeq(syms, 1, Len(syms) - Len(p.rhs)), p.lhs)
      /\ pc' \in {"parse", "crashed"}
    BY DEF DeclInv, TypesInv, TreeInv, ParserInv, Reduce, Ready, add_typenames
<1>2. PICK n \in Nat \ {0} : n = Len(p.rhs) /\ n <= Len(syms)
    BY <1>1, UnderHandle
<1>3. p.lhs \in Symbols
    BY DEF Symbols
<1>4. Consumed' = Consumed
    BY <1>1 DEF Consumed
<1>5. /\ \A S : Told(S)' <=> Told(S)
      /\ ClosedIn(source, Consumed + 1)' = ClosedIn(source, Consumed + 1)
    BY <1>1, <1>4 DEF Told, ClosedIn
<1>6. FatalIn(Addr)' => Told(1 .. Consumed)
    BY FatalMade
<1>7. syms' # << >>
  <2>1. SubSeq(syms, 1, Len(syms) - n) \in Seq(Symbols)
      BY <1>1, <1>2
  <2>2. PICK rest \in Seq(Symbols) : syms' = Append(rest, p.lhs)
      BY <2>1, <1>1, <1>2
  <2> QED BY <2>2, <1>3
<1>8. \A i \in 1 .. Len(syms) : syms[i] = "translation_unit" => top # Null
    BY <1>1 DEF CauseInv
<1>9. FatalIn(Below[top]) => Told(ClosedIn(source, Consumed + 1))
    BY <1>1 DEF CauseInv
<1>10. NodesOK' /\ top' \in Addr \cup {Null}
    BY DEF TypesInv, TreeInv, ParserInv, StoreInv, StoreOK, NodesOK, Nodes
<1>11. CASE p.lhs = "translation_unit"
  <2>1. p.op = "NN"
      BY <1>11, PhraseAssumption DEF CausesOK
  <2>2. PICK a \in Fresh : NN(a, p.lhs, TextOf(p), Len(p.rhs), RefsOf(p))
      BY <2>1, <1>1 DEF Act
  <2>3. top' # Null
      BY <2>2, <1>11, StoreAssumption DEF NN, Fresh
  <2>4. FatalIn(Below[top])' => FatalIn(Addr)'
    <3>1. (Below[top] \subseteq Addr)'
        BY TopBelowNext
    <3> QED BY <3>1 DEF FatalIn
  <2>5. ClosedIn(source, Consumed + 1) = 1 .. Consumed
      BY <1>11, UnitEnds
  <2> QED BY <2>3, <2>4, <2>5, <1>1, <1>4, <1>5, <1>6, <1>7 DEF CauseInv
<1>12. CASE p.lhs # "translation_unit"
  <2>1. /\ top' = top
        /\ \E old : /\ old = Null \/ \E i \in 1 .. Len(yyvs) : yyvs[i] = old
                    /\ old # Null => node[old].type # "translation_unit"
                    /\ \A b \in Region(old) : node'[b] = node[b]
    <3>1. TypesInv
        BY DEF DeclInv
    <3> QED BY <3>1, <1>12, ReducedRegion, Zenon
  <2>2. FatalIn(Below[top])' <=> FatalIn(Below[top])
      BY <2>1, TopKept
  <2>3. ASSUME NEW i \in 1 .. Len(syms'), syms'[i] = "translation_unit" PROVE top' # Null
    <3>1. \E j \in 1 .. Len(syms) : syms'[i] = syms[j]
        BY <2>3, <1>1, <1>2, <1>3, <1>12, ReducedSymbols
    <3> QED BY <3>1, <2>1, <2>3, <1>8
  <2> QED BY <2>2, <2>3, <1>1, <1>4, <1>5, <1>6, <1>7, <1>9 DEF CauseInv
<1> QED BY <1>11, <1>12

\* Nothing fatal is made by a step that leaves the nodes alone.
LEMMA SameNodes ==
    ASSUME node' = node, top' = top
    PROVE  /\ FatalIn(Addr)' <=> FatalIn(Addr)
           /\ FatalIn(Below[top])' <=> FatalIn(Below[top])
BY DEF FatalIn, Fatal, Below

\* Setting up makes no node.
LEMMA SetupCauses ==
    ASSUME DeclInv, CauseInv, Setup
    PROVE  CauseInv'
<1>1. /\ pc = "start" /\ pc' = "parse" /\ node' = node /\ top' = top /\ syms' = << >>
      /\ source' = << >> /\ top = Null /\ ~FatalIn(Addr)
    BY DEF DeclInv, CauseInv, Setup, parser_setup
<1>2. ~FatalIn(Addr)' /\ (FatalIn(Below[top])' <=> FatalIn(Below[top]))
    BY <1>1, SameNodes
<1>3. ~FatalIn(Below[top])
  <2>1. NodesOK
      BY DEF DeclInv, TypesInv, TreeInv, ParserInv, StoreInv, StoreOK, NodesOK, Nodes
  <2>2. Below[Null] = {}
      BY <2>1, BelowDo DEF BelowFollows
  <2> QED BY <1>1, <2>2 DEF FatalIn
<1> QED BY <1>1, <1>2, <1>3 DEF CauseInv

\* Reading on makes no node and forgets no word.
LEMMA LexCauses ==
    ASSUME DeclInv, CauseInv, Lex
    PROVE  CauseInv'
<1>1. /\ pc = "parse" /\ pc' = "parse" /\ node' = node /\ top' = top /\ syms' = syms
      /\ la = None /\ source' = Append(source, la') /\ TypesInv /\ DeclInv' 
    BY TypesStep, DeclStep DEF DeclInv, Lex, storeVars, Next
<1>2. la' \in Reads /\ la' # None /\ source \in Seq(Reads) /\ Len(source) \in Nat
  <2>1. source \in Seq(Reads) /\ Len(source) \in Nat
      BY DEF DeclInv, ReadInv
  <2>3. PICK w \in Words \cup {EOF} : la' = [kind |-> check_identifier(w), text |-> w.text]
      BY <1>1, TheWord
  <2>4. /\ w.text \in Texts
        /\ w.kind = "EOF" \/ w.kind \in {v.kind : v \in Words}
      BY ParserAssumption DEF EOF
  <2>5. check_identifier(w) \in {v.kind : v \in Words} \cup {"IDENTIFIER", "TYPEDEF_NAME", "EOF"}
      BY <2>4 DEF check_identifier
  <2>6. la' \in Reads
      BY Zenon, <2>3, <2>4, <2>5, IsRead
  <2> QED BY <2>1, <2>6, PhraseAssumption
<1>3. la'.kind = "IDENTIFIER" => la'.text # Typedef
  <2>1. PICK w \in Words \cup {EOF} : la' = [kind |-> check_identifier(w), text |-> w.text]
      BY <1>1, TheWord
  <2>2. w \in Words => w.kind # "IDENTIFIER" /\ (w.kind = "NAME" => w.text # Typedef)
      BY PhraseAssumption
  <2>3. w = EOF => w.kind = "EOF"
      BY DEF EOF
  <2> QED BY <2>1, <2>2, <2>3 DEF check_identifier
<1>4. /\ \A k \in 1 .. Len(source) : source'[k] = source[k] /\ k \in 1 .. Len(source')
      /\ Len(source') = Len(source) + 1 /\ source'[Len(source) + 1] = la'
    BY <1>1, <1>2
<1>5. Consumed = Len(source) /\ Consumed' = Len(source)
    BY <1>1, <1>2, <1>4 DEF Consumed
<1>6. \A k \in 1 .. Len(source') : source'[k].kind = "IDENTIFIER" => source'[k].text # Typedef
  <2> SUFFICES ASSUME NEW k \in 1 .. Len(source'), source'[k].kind = "IDENTIFIER"
               PROVE  source'[k].text # Typedef
      OBVIOUS
  <2>1. CASE k = Len(source) + 1
      BY <2>1, <1>3, <1>4
  <2>2. CASE k # Len(source) + 1
    <3>1. k \in 1 .. Len(source)
        BY <2>2, <1>2, <1>4
    <3> QED BY <3>1, <1>4 DEF CauseInv
  <2> QED BY <2>1, <2>2
<1>7. ASSUME NEW S \in SUBSET (1 .. Len(source)), Told(S) PROVE Told(S)'
    BY <1>4, <1>7 DEF Told
<1>8. FatalIn(Addr)' => Told(1 .. Consumed)'
  <2>1. FatalIn(Addr)' => Told(1 .. Len(source))
      BY <1>1, <1>5, SameNodes DEF CauseInv
  <2>2. Told(1 .. Len(source)) => \E k \in 1 .. Len(source) : source'[k].kind \in Telling
      BY <1>4 DEF Told
  <2> QED BY <2>1, <2>2, <1>5 DEF Told
<1>9. FatalIn(Below[top])' => Told(ClosedIn(source, Consumed + 1))'
  <2>1. FatalIn(Below[top])' => Told(ClosedIn(source, Len(source) + 1))
      BY <1>1, <1>5, SameNodes DEF CauseInv
  <2>2. ClosedIn(source', Len(source) + 1) = ClosedIn(source, Len(source) + 1)
      BY <1>1, <1>2, SourceGrows
  <2>3. ClosedIn(source, Len(source) + 1) \subseteq 1 .. Len(source)
      BY <1>2 DEF ClosedIn
  <2>4. Told(ClosedIn(source, Len(source) + 1)) =>
            \E k \in ClosedIn(source, Len(source) + 1) : source'[k].kind \in Telling
      BY <2>3, <1>4 DEF Told
  <2> QED BY <2>1, <2>2, <2>4, <1>5 DEF Told
<1>10. \A i \in 1 .. Len(syms') : syms'[i] = "translation_unit" => top' # Null
    BY <1>1 DEF CauseInv
<1> QED BY <1>1, <1>6, <1>8, <1>9, <1>10 DEF CauseInv

\* A shift makes no node, and consumes one word more.
LEMMA ShiftCauses ==
    ASSUME DeclInv, CauseInv, Shift
    PROVE  CauseInv'
<1>1. /\ pc = "parse" /\ pc' = "parse" /\ node' = node /\ top' = top
      /\ la # None /\ la' = None /\ source' = source /\ syms' = Append(syms, la.kind)
      /\ <<Under, la.kind>> \in Shifts /\ syms \in Seq(Symbols)
    BY DEF DeclInv, TypesInv, TreeInv, ParserInv, Shift, CanShift, Value
<1>2. PICK n \in Nat : Consumed = n /\ Consumed' = n + 1
  <2>1. Len(source) \in Nat \ {0}
      BY <1>1 DEF DeclInv, ReadInv
  <2>2. Consumed = Len(source) - 1 /\ Consumed' = Len(source)
      BY <1>1 DEF Consumed
  <2> QED BY <2>1, <2>2
<1>3. FatalIn(Addr)' => Told(1 .. n + 1)
  <2>1. FatalIn(Addr)' => Told(1 .. n)
      BY <1>1, <1>2, SameNodes DEF CauseInv
  <2>2. 1 .. n \subseteq 1 .. n + 1
      OBVIOUS
  <2> QED BY <2>1, <2>2 DEF Told
<1>4. FatalIn(Below[top])' => Told(ClosedIn(source, (n + 1) + 1))
  <2>1. FatalIn(Below[top])' => Told(ClosedIn(source, n + 1))
      BY <1>1, <1>2, SameNodes DEF CauseInv
  <2>2. ClosedIn(source, n + 1) \subseteq ClosedIn(source, (n + 1) + 1)
      BY DEF ClosedIn
  <2> QED BY <2>1, <2>2 DEF Told
<1>5. \A i \in 1 .. Len(syms') : syms'[i] = "translation_unit" => top' # Null
  <2> SUFFICES ASSUME NEW i \in 1 .. Len(syms'), syms'[i] = "translation_unit" PROVE top' # Null
      OBVIOUS
  <2>1. la.kind # "translation_unit"
    <3>1. la.kind \notin Types
      <4>1. <<Under, la.kind>>[2] = la.kind
          OBVIOUS
      <4> QED BY <4>1, <1>1, ParserAssumption
    <3> QED BY <3>1, TopAssumption
  <2>2. Len(syms') = Len(syms) + 1 /\ syms'[Len(syms) + 1] = la.kind /\ Len(syms) \in Nat
      BY <1>1
  <2>3. i \in 1 .. Len(syms)
      BY <2>1, <2>2
  <2>4. syms'[i] = syms[i]
      BY <2>3, <1>1
  <2> QED BY <2>3, <2>4, <1>1 DEF CauseInv
<1>6. \A k \in 1 .. Len(source') : source'[k].kind = "IDENTIFIER" => source'[k].text # Typedef
    BY <1>1 DEF CauseInv
<1>7. \A S : Told(S)' <=> Told(S)
    BY <1>1 DEF Told
<1> QED BY <1>1, <1>2, <1>3, <1>4, <1>5, <1>6, <1>7 DEF CauseInv, Told

\* A string's node is made of a string's word.
LEMMA InternCauses ==
    ASSUME DeclInv, CauseInv, TypesInv', NEW p \in Productions, Intern(p)
    PROVE  CauseInv'
<1>1. /\ pc = "parse" /\ pc' = "parse" /\ top' = top /\ la' = la /\ source' = source
      /\ syms' = syms
    BY DEF Intern, intern_string, parserVars
<1>2. \A b \in Region(Null) : node'[b] = node[b]
    BY DEF Intern, intern_string, Fresh, Region, Live, DeclInv, TypesInv, TreeInv, ParserInv,
           StoreInv, StoreOK
<1>3. FatalIn(Below[top])' <=> FatalIn(Below[top])
    BY <1>1, <1>2, TopKept
<1>4. Told(1 .. Consumed)
    BY FatalInterned
<1>5. Consumed' = Consumed
    BY <1>1 DEF Consumed
<1>6. ClosedIn(source, Consumed + 1)' = ClosedIn(source, Consumed + 1)
    BY <1>1, <1>5 DEF ClosedIn
<1>7. \A S : Told(S)' <=> Told(S)
    BY <1>1 DEF Told
<1>8. Told(1 .. Consumed)' /\ (Told(ClosedIn(source, Consumed + 1)) =>
                                  Told(ClosedIn(source, Consumed + 1))')
    BY <1>1, <1>4, <1>5, <1>6 DEF Told
<1> QED BY <1>1, <1>3, <1>8 DEF CauseInv

\* Every step of the program keeps the invariant.
LEMMA CauseStep == DeclInv /\ CauseInv /\ [Next]_vars => CauseInv'
<1> SUFFICES ASSUME DeclInv, CauseInv, [Next]_vars PROVE CauseInv'
    OBVIOUS
<1>1. TypesInv'
    BY TypesStep DEF DeclInv
<1>2. CASE Setup
    BY <1>2, SetupCauses
<1>3. CASE Lex
    BY <1>3, LexCauses
<1>4. CASE Shift
    BY <1>4, ShiftCauses
<1>5. CASE Return
    BY <1>5, ReturnCauses
<1>6. CASE Walk
  <2>1. /\ pc = "parsed" /\ pc' \in {"walked", "crashed", "aborted", "stopped"}
        /\ source' = source
        /\ pc' = "crashed" => top = Null \/ FatalIn(Below[top])
      BY <1>6 DEF Walk, Printing, parserVars, FatalIn
  <2>2. pc' = "crashed" => Accepted = {} \/ Told(Accepted)
      BY <2>1 DEF CauseInv
  <2>3. /\ Accepted' = Accepted /\ (Told(Accepted)' <=> Told(Accepted))
      BY <2>1 DEF Accepted, Closed, Told
  <2> QED BY <2>1, <2>2, <2>3 DEF CauseInv
<1>7. CASE NoWalk \/ Teardown
  <2>1. pc' \in {"walked", "done"} /\ source' = source
      BY <1>7 DEF NoWalk, Teardown, parserVars
  <2> QED BY <2>1 DEF CauseInv
<1>8. ASSUME NEW p \in Productions, Reduce(p) PROVE CauseInv'
    BY <1>1, <1>8, ReduceCauses
<1>9. ASSUME NEW p \in Productions, Intern(p) PROVE CauseInv'
    BY <1>1, <1>9, InternCauses
<1>10. CASE UNCHANGED vars
  <2>1. /\ node' = node /\ top' = top /\ pc' = pc /\ source' = source /\ syms' = syms /\ la' = la
      BY <1>10 DEF vars, storeVars, parserVars
  <2>2. (FatalIn(Addr)' <=> FatalIn(Addr)) /\ (FatalIn(Below[top])' <=> FatalIn(Below[top]))
      BY <2>1, SameNodes
  <2>3. /\ Told(1 .. Consumed)' <=> Told(1 .. Consumed)
        /\ Told(ClosedIn(source, Consumed + 1))' <=> Told(ClosedIn(source, Consumed + 1))
        /\ Told(Accepted)' <=> Told(Accepted)
        /\ Accepted' = Accepted
      BY <2>1 DEF Told, Consumed, ClosedIn, Accepted, Closed
  <2> QED BY <2>1, <2>2, <2>3 DEF CauseInv
<1> QED BY <1>2, <1>3, <1>4, <1>5, <1>6, <1>7, <1>8, <1>9, <1>10 DEF Next

\* The parser follows a bad pointer at a typedef of an array only; a walk that prints does in a
\* tree with nothing in it, or one with a string or a storage class in it, which it need not
\* survive.  Assertions that fail, and callbacks that get past no tree, are not meant.
THEOREM CrashesExplained == Spec => []CrashCauses
<1>1. DeclInv /\ CauseInv => CrashCauses
  <2> SUFFICES ASSUME DeclInv, CauseInv, pc = "crashed" PROVE CrashCauses
      BY DEF CrashCauses
  <2>1. CASE syms = << >>
      BY <2>1 DEF CauseInv, CrashCauses, Told, Telling
  <2>2. CASE syms # << >>
    <3>1. ArrayOfTypes
        BY <2>2 DEF DeclInv
    <3>2. \E k \in Closed(Len(source) + 1) :
              source[k].kind = Brackets /\ source[FirstOf(k)].kind = "TYPEDEF"
        BY <3>1, SourceIs DEF ArrayOfTypes
    <3> QED BY <2>2, <3>2, Zenon DEF CrashCauses, Brackets
  <2> QED BY <2>1, <2>2
<1> QED BY <1>1, DeclInit, DeclStep, CauseInit, CauseStep, PTL DEF Spec

-----------------------------------------------------------------------------
(***************************************************************************)
(* Sequences of sequences, laid one after the other.                       *)
(***************************************************************************)
\* Texts one after the other, which the provers are to know by these facts only.
Readings == Seq(Texts)
Silence == << >>
Then(s, t) == s \o t

\* Laying out keeps readings readings, nothing adds nothing, and it does not matter what is
\* laid out first.
LEMMA ThenIs ==
    /\ Silence \in Readings
    /\ \A s, t \in Readings : Then(s, t) \in Readings
    /\ \A s \in Readings : Then(s, Silence) = s /\ Then(Silence, s) = s
    /\ \A s, t, u \in Readings : Then(Then(s, t), u) = Then(s, Then(t, u))
    BY SMTT(60), EmptySeq, ConcatProperties, ConcatEmptySeq, ConcatAssociative
       DEF Readings, Silence, Then

\* F[i] is what the first i of the n sequences X are together.
Joins(F, X, n) ==
    /\ n \in Nat /\ X \in [1 .. n -> Readings] /\ F \in [0 .. n -> Readings]
    /\ F[0] = Silence /\ \A i \in 1 .. n : F[i] = Then(F[i - 1], X[i])

\* There is such a function.
LEMMA JoinExists ==
    ASSUME NEW n \in Nat, NEW X \in [1 .. n -> Readings]
    PROVE  \E F : Joins(F, X, n)
<1>1. PICK g : g = [i \in 1 .. n |-> [s \in Readings |-> Then(s, X[i])]]
    OBVIOUS
<1>2. \A i \in 1 .. n : X[i] \in Readings
    OBVIOUS
<1>3. ASSUME NEW i \in 1 .. n, NEW s \in Readings PROVE Then(s, X[i]) \in Readings
    BY <1>2, ThenIs
<1>4. IsStepping(g, n, Readings)
    BY <1>1, <1>3 DEF IsStepping
<1>5. Silence \in Readings
    BY ThenIs
<1>6. PICK F : Follows(F, n, Readings, Silence, g)
    BY <1>4, <1>5, Recursion
<1>7. F \in [0 .. n -> Readings] /\ F[0] = Silence /\ \A i \in 1 .. n : F[i] = g[i][F[i - 1]]
    BY <1>6 DEF Follows
<1>8. ASSUME NEW i \in 1 .. n PROVE F[i] = Then(F[i - 1], X[i])
  <2>1. i - 1 \in 0 .. n
      OBVIOUS
  <2>2. F[i - 1] \in Readings /\ F[i] = g[i][F[i - 1]]
      BY <2>1, <1>7
  <2> QED BY <2>2, <1>1
<1> QED BY <1>7, <1>8 DEF Joins

\* What flattening a sequence gives.
LEMMA JoinIs ==
    ASSUME NEW n, NEW X, NEW F, Joins(F, X, n)
    PROVE  FlattenSeq(X) = F[n] /\ FlattenSeq(X) \in Readings
<1>1. /\ n \in Nat /\ X \in [1 .. n -> Readings] /\ F \in [0 .. n -> Readings]
      /\ F[0] = Silence /\ \A i \in 1 .. n : F[i] = Then(F[i - 1], X[i])
    BY DEF Joins
<1>2. X \in Seq(Readings) /\ Len(X) = n
    BY <1>1
<1>3. F[n] \in Readings
    BY <1>1
<1>4. CASE n = 0
  <2>1. X = Silence
      BY <1>2, <1>4 DEF Silence
  <2>2. FlattenSeq(X) = X
      BY Zenon, <1>2, <1>4 DEF FlattenSeq
  <2> QED BY <2>1, <2>2, <1>1, <1>3, <1>4
<1>5. CASE n # 0
  <2> DEFINE Asked(g) == g = [i \in 1 .. n |-> IF i = 1 THEN X[i] ELSE Then(g[i - 1], X[i])]
  <2>1. PICK f : /\ FlattenSeq(X) = f[n]
                 /\ f = CHOOSE g : g = [i \in 1 .. n |-> IF i = 1 THEN X[i] ELSE Then(g[i - 1], X[i])]
      BY Zenon, <1>2, <1>5 DEF FlattenSeq, Then
  <2>2. PICK h : h = [i \in 1 .. n |-> F[i]]
      OBVIOUS
  <2>3. \A i \in 1 .. n : h[i] = F[i] /\ h[i] = IF i = 1 THEN X[i] ELSE Then(h[i - 1], X[i])
    <3> SUFFICES ASSUME NEW i \in 1 .. n
                 PROVE  h[i] = F[i] /\ h[i] = IF i = 1 THEN X[i] ELSE Then(h[i - 1], X[i])
        OBVIOUS
    <3>1. h[i] = F[i] /\ F[i] = Then(F[i - 1], X[i]) /\ X[i] \in Readings
        BY <2>2, <1>1
    <3>2. CASE i = 1
      <4>1. F[i - 1] = Silence
          BY <3>2, <1>1
      <4> QED BY <3>1, <3>2, <4>1, ThenIs
    <3>3. CASE i # 1
      <4>1. i - 1 \in 1 .. n
          BY <1>1, <3>3
      <4>2. h[i - 1] = F[i - 1]
          BY <4>1, <2>2
      <4> QED BY <3>1, <3>3, <4>2
    <3> QED BY <3>2, <3>3
  <2>4. Asked(h)
    <3>1. \A i \in 1 .. n : F[i] = IF i = 1 THEN X[i] ELSE Then(h[i - 1], X[i])
        BY <2>3
    <3> QED BY <2>2, <3>1
  <2>5. Asked(f)
    <3>1. \E g : g = [i \in 1 .. n |-> IF i = 1 THEN X[i] ELSE Then(g[i - 1], X[i])]
        BY <2>4
    <3> QED BY Zenon, <2>1, <3>1
  <2> HIDE DEF Asked
  <2>10. \A i \in 1 .. n : f[i] = IF i = 1 THEN X[i] ELSE Then(f[i - 1], X[i])
      BY <2>5 DEF Asked
  <2> DEFINE Same == {k \in Nat : k + 1 <= n => f[k + 1] = F[k + 1]}
  <2>6. 0 \in Same
    <3>1. 1 \in 1 .. n /\ 0 + 1 = 1
        BY <1>1, <1>5
    <3>2. f[1] = X[1] /\ h[1] = X[1] /\ h[1] = F[1]
        BY <3>1, <2>3, <2>10
    <3> QED BY <3>1, <3>2
  <2>7. ASSUME NEW k \in Same PROVE k + 1 \in Same
    <3> SUFFICES ASSUME (k + 1) + 1 <= n PROVE f[(k + 1) + 1] = F[(k + 1) + 1]
        OBVIOUS
    <3>1. /\ k + 1 <= n /\ (k + 1) + 1 \in 1 .. n /\ ((k + 1) + 1) - 1 = k + 1
          /\ (k + 1) + 1 # 1
        BY <1>1
    <3>2. f[(k + 1) + 1] = Then(f[k + 1], X[(k + 1) + 1])
        BY <3>1, <2>10
    <3>3. F[(k + 1) + 1] = Then(F[k + 1], X[(k + 1) + 1])
        BY <3>1, <1>1
    <3> QED BY <3>1, <3>2, <3>3
  <2>8. Same = Nat
    <3> HIDE DEF Same
    <3>1. Same \in SUBSET Nat
        BY DEF Same
    <3> QED BY <3>1, <2>6, <2>7, Induction
  <2>9. n - 1 \in Nat /\ (n - 1) + 1 = n /\ n <= n
      BY <1>1, <1>5
  <2>11. f[n] = F[n]
      BY <2>8, <2>9
  <2> QED BY <2>1, <2>11, <1>3
<1> QED BY <1>4, <1>5

\* It depends on the sequences up to i only.
LEMMA JoinSame ==
    ASSUME NEW n, NEW X, NEW F, Joins(F, X, n), NEW m, NEW Y, NEW G, Joins(G, Y, m),
           NEW l \in Nat, l <= n, l <= m, \A i \in 1 .. l : X[i] = Y[i]
    PROVE  \A i \in 0 .. l : F[i] = G[i]
<1>1. /\ n \in Nat /\ m \in Nat /\ F[0] = Silence /\ G[0] = Silence
      /\ \A i \in 1 .. n : F[i] = Then(F[i - 1], X[i])
      /\ \A i \in 1 .. m : G[i] = Then(G[i - 1], Y[i])
    BY DEF Joins
<1> DEFINE Same == {k \in Nat : k <= l => F[k] = G[k]}
<1>2. 0 \in Same
    BY <1>1
<1>3. ASSUME NEW k \in Same PROVE k + 1 \in Same
  <2> SUFFICES ASSUME k + 1 <= l PROVE F[k + 1] = G[k + 1]
      OBVIOUS
  <2>1. k + 1 \in 1 .. n /\ k + 1 \in 1 .. m /\ k + 1 \in 1 .. l /\ (k + 1) - 1 = k /\ k <= l
      BY <1>1
  <2> QED BY <2>1, <1>1
<1>4. Same = Nat
  <2> HIDE DEF Same
  <2>1. Same \in SUBSET Nat
      BY DEF Same
  <2> QED BY <2>1, <1>2, <1>3, Induction
<1> QED BY <1>4

\* Nothing is laid out when all are empty.
LEMMA JoinNone ==
    ASSUME NEW n, NEW X, NEW F, Joins(F, X, n), NEW l \in Nat, l <= n,
           \A i \in 1 .. l : X[i] = Silence
    PROVE  F[l] = Silence
<1>1. /\ n \in Nat /\ F[0] = Silence /\ \A i \in 1 .. n : F[i] = Then(F[i - 1], X[i])
    BY DEF Joins
<1> DEFINE Good == {k \in Nat : k <= l => F[k] = Silence}
<1>2. 0 \in Good
    BY <1>1
<1>3. ASSUME NEW k \in Good PROVE k + 1 \in Good
  <2> SUFFICES ASSUME k + 1 <= l PROVE F[k + 1] = Silence
      OBVIOUS
  <2>1. k + 1 \in 1 .. n /\ k + 1 \in 1 .. l /\ (k + 1) - 1 = k /\ k <= l
      BY <1>1
  <2>2. F[k] = Silence /\ X[k + 1] = Silence
      BY <2>1
  <2> QED BY <2>1, <2>2, <1>1, ThenIs
<1>4. Good = Nat
  <2> HIDE DEF Good
  <2>1. Good \in SUBSET Nat
      BY DEF Good
  <2> QED BY <2>1, <1>2, <1>3, Induction
<1> QED BY <1>4

\* What is laid out when all but one are empty.
LEMMA JoinOne ==
    ASSUME NEW n, NEW X, NEW F, Joins(F, X, n), NEW m \in Nat,
           \A i \in 1 .. n : i # m => X[i] = Silence
    PROVE  \A i \in 0 .. n : F[i] = IF 1 <= m /\ m <= i THEN X[m] ELSE Silence
<1>1. /\ n \in Nat /\ F[0] = Silence /\ F \in [0 .. n -> Readings] /\ X \in [1 .. n -> Readings]
      /\ \A i \in 1 .. n : F[i] = Then(F[i - 1], X[i])
    BY DEF Joins
<1> DEFINE Is(i) == F[i] = IF 1 <= m /\ m <= i THEN X[m] ELSE Silence
           Good == {k \in Nat : k <= n => Is(k)}
<1>2. 0 \in Good
    BY <1>1
<1>3. ASSUME NEW k \in Good PROVE k + 1 \in Good
  <2> SUFFICES ASSUME k + 1 <= n PROVE Is(k + 1)
      OBVIOUS
  <2>1. k + 1 \in 1 .. n /\ k \in 0 .. n /\ (k + 1) - 1 = k /\ Is(k)
      BY <1>1
  <2>2. F[k + 1] = Then(F[k], X[k + 1]) /\ F[k] \in Readings /\ X[k + 1] \in Readings
      BY <2>1, <1>1
  <2>3. CASE k + 1 = m
    <3>1. F[k] = Silence
        BY <2>1, <2>3
    <3> QED BY <2>2, <2>3, <3>1, ThenIs
  <2>4. CASE k + 1 # m
    <3>1. X[k + 1] = Silence
        BY <2>1, <2>4
    <3>2. F[k + 1] = F[k]
        BY <2>2, <3>1, ThenIs
    <3> QED BY <2>1, <2>4, <3>2
  <2> QED BY <2>3, <2>4
<1>4. Good = Nat
  <2> HIDE DEF Good
  <2>1. Good \in SUBSET Nat
      BY DEF Good
  <2> QED BY <2>1, <1>2, <1>3, Induction
<1> QED BY <1>4

\* One of the sequences has x more at its end, and all after it are empty.
LEMMA JoinMore ==
    ASSUME NEW n, NEW X, NEW F, Joins(F, X, n), NEW Y, NEW G, Joins(G, Y, n),
           NEW m \in 1 .. n, NEW x \in Readings, Y[m] = Then(X[m], x),
           \A i \in 1 .. n : i # m => Y[i] = X[i],
           \A i \in 1 .. n : m < i => X[i] = Silence
    PROVE  G[n] = Then(F[n], x)
<1>1. /\ n \in Nat /\ F \in [0 .. n -> Readings] /\ X \in [1 .. n -> Readings]
      /\ G \in [0 .. n -> Readings] /\ Y \in [1 .. n -> Readings]
      /\ \A i \in 1 .. n : F[i] = Then(F[i - 1], X[i])
      /\ \A i \in 1 .. n : G[i] = Then(G[i - 1], Y[i])
    BY DEF Joins
<1>2. \A i \in 0 .. m - 1 : F[i] = G[i]
  <2>1. m - 1 \in Nat /\ m - 1 <= n /\ \A i \in 1 .. m - 1 : X[i] = Y[i]
      BY <1>1
  <2> QED BY <2>1, JoinSame
<1> DEFINE Good == {k \in Nat : m <= k /\ k <= n => G[k] = Then(F[k], x)}
<1>3. 0 \in Good
    OBVIOUS
<1>4. ASSUME NEW k \in Good PROVE k + 1 \in Good
  <2> SUFFICES ASSUME m <= k + 1, k + 1 <= n PROVE G[k + 1] = Then(F[k + 1], x)
      OBVIOUS
  <2>1. k + 1 \in 1 .. n /\ k \in 0 .. n /\ (k + 1) - 1 = k
      BY <1>1
  <2>2. /\ F[k + 1] = Then(F[k], X[k + 1]) /\ F[k] \in Readings /\ X[k + 1] \in Readings
        /\ G[k + 1] = Then(G[k], Y[k + 1]) /\ G[k] \in Readings /\ F[k + 1] \in Readings
      BY <2>1, <1>1
  <2>3. CASE k + 1 = m
    <3>1. k \in 0 .. m - 1
        BY <2>3
    <3>2. G[k] = F[k] /\ Y[k + 1] = Then(X[k + 1], x)
        BY <3>1, <2>3, <1>2
    <3>3. Then(Then(F[k], X[k + 1]), x) = Then(F[k], Then(X[k + 1], x))
        BY ZenonT(60), <2>2, ThenIs
    <3> QED BY <3>2, <3>3, <2>2
  <2>4. CASE k + 1 # m
    <3>1. m < k + 1 /\ m <= k /\ k <= n
        BY <2>4, <1>1
    <3>2. X[k + 1] = Silence /\ Y[k + 1] = Silence /\ G[k] = Then(F[k], x)
        BY <3>1, <2>1
    <3>3. F[k + 1] = F[k] /\ G[k + 1] = G[k]
        BY <3>2, <2>2, ThenIs
    <3> QED BY <3>2, <3>3
  <2> QED BY <2>3, <2>4
<1>5. Good = Nat
  <2> HIDE DEF Good
  <2>1. Good \in SUBSET Nat
      BY DEF Good
  <2> QED BY <2>1, <1>3, <1>4, Induction
<1> QED BY SMTT(60), <1>1, <1>5

\* The sequences of X that have slot j, and the others empty.
Block(X, slot, j) == [i \in DOMAIN X |-> IF slot[i] = j THEN X[i] ELSE Silence]

\* The sequences are in the order of their slots, of which there are n, and K[j] is what
\* those of slot j are together.
Slotted(X, L, slot, n, K) ==
    /\ \A i \in 1 .. L : X[i] = Silence \/ slot[i] \in 1 .. n
    /\ \A i, k \in 1 .. L : i < k /\ X[i] # Silence /\ X[k] # Silence => slot[i] <= slot[k]
    /\ \A j \in 1 .. n : Joins(K[j], Block(X, slot, j), L)

\* They may be laid out slot by slot.
LEMMA JoinBlocks ==
    ASSUME NEW L, NEW X, NEW F, Joins(F, X, L), NEW n \in Nat, NEW slot, NEW K,
           Slotted(X, L, slot, n, K),
           NEW R, NEW S, Joins(R, S, n), \A j \in 1 .. n : S[j] = K[j][L]
    PROVE  R[n] = F[L]
<1>0. /\ \A i \in 1 .. L : X[i] = Silence \/ slot[i] \in 1 .. n
      /\ \A i, k \in 1 .. L : i < k /\ X[i] # Silence /\ X[k] # Silence => slot[i] <= slot[k]
      /\ \A j \in 1 .. n : Joins(K[j], Block(X, slot, j), L)
    BY DEF Slotted
<1>1. /\ L \in Nat /\ X \in [1 .. L -> Readings] /\ F \in [0 .. L -> Readings]
      /\ F[0] = Silence /\ \A i \in 1 .. L : F[i] = Then(F[i - 1], X[i])
    BY DEF Joins
<1>2. \A j \in 1 .. n : /\ K[j] \in [0 .. L -> Readings] /\ K[j][0] = Silence
                        /\ \A i \in 1 .. L : K[j][i] = Then(K[j][i - 1], Block(X, slot, j)[i])
    BY <1>0 DEF Joins
<1>3. \A j \in 1 .. n : \A i \in 1 .. L :
          Block(X, slot, j)[i] = IF slot[i] = j THEN X[i] ELSE Silence
    BY <1>1 DEF Block
<1> DEFINE Column(i) == [j \in 1 .. n |-> K[j][i]]
           Good == {i \in Nat : i <= L => \A H : Joins(H, Column(i), n) => H[n] = F[i]}
<1>4. \A i \in 0 .. L : Column(i) \in [1 .. n -> Readings]
    BY <1>0, <1>2
<1>5. 0 \in Good
  <2> SUFFICES ASSUME NEW H, Joins(H, Column(0), n) PROVE H[n] = Silence
      BY <1>1
  <2>1. \A j \in 1 .. n : Column(0)[j] = Silence
      BY <1>2
  <2> HIDE DEF Column
  <2> QED BY <2>1, <1>0, JoinNone
<1>6. ASSUME NEW i \in Good PROVE i + 1 \in Good
  <2> SUFFICES ASSUME i + 1 <= L, NEW H, Joins(H, Column(i + 1), n) PROVE H[n] = F[i + 1]
      OBVIOUS
  <2>1. i + 1 \in 1 .. L /\ i \in 0 .. L /\ (i + 1) - 1 = i /\ i \in Nat
      BY <1>1
  <2>2. PICK G : Joins(G, Column(i), n)
    <3> HIDE DEF Column
    <3> QED BY <2>1, <1>0, <1>4, JoinExists
  <2>3. G[n] = F[i] /\ F[i] \in Readings /\ X[i + 1] \in Readings /\ F[i + 1] = Then(F[i], X[i + 1])
      BY <2>1, <2>2, <1>1
  <2>4. ASSUME NEW j \in 1 .. n
        PROVE  /\ Column(i)[j] = K[j][i] /\ Column(i + 1)[j] = K[j][i + 1]
               /\ K[j][i] \in Readings
               /\ K[j][i + 1] = Then(K[j][i], IF slot[i + 1] = j THEN X[i + 1] ELSE Silence)
    <3>1. Column(i)[j] = K[j][i] /\ Column(i + 1)[j] = K[j][i + 1]
        OBVIOUS
    <3> HIDE DEF Column, Good
    <3>2. /\ K[j][i] \in Readings
          /\ K[j][i + 1] = Then(K[j][(i + 1) - 1], Block(X, slot, j)[i + 1])
        BY <2>1, <1>2
    <3>3. Block(X, slot, j)[i + 1] = IF slot[i + 1] = j THEN X[i + 1] ELSE Silence
        BY <2>1, <1>3
    <3> QED BY Zenon, <2>1, <3>1, <3>2, <3>3
  <2>5. ASSUME NEW j \in 1 .. n, slot[i + 1] # j \/ X[i + 1] = Silence
        PROVE  Column(i + 1)[j] = Column(i)[j]
    <3>1. K[j][i + 1] = Then(K[j][i], Silence)
        BY <2>4, <2>5
    <3> QED BY <3>1, <2>4, ThenIs
  <2>6. CASE X[i + 1] = Silence
    <3>1. \A j \in 1 .. n : Column(i + 1)[j] = Column(i)[j]
        BY <2>5, <2>6
    <3> HIDE DEF Column
    <3>2. \A k \in 0 .. n : H[k] = G[k]
        BY <3>1, <2>2, JoinSame
    <3>3. F[i + 1] = F[i]
        BY <2>3, <2>6, ThenIs
    <3> QED BY <3>2, <3>3, <2>3
  <2>7. CASE X[i + 1] # Silence
    <3>1. PICK m \in 1 .. n : m = slot[i + 1]
        BY <1>0, <2>1, <2>7
    <3>2. Column(i + 1)[m] = Then(Column(i)[m], X[i + 1])
        BY <3>1, <2>4
    <3>3. \A j \in 1 .. n : j # m => Column(i + 1)[j] = Column(i)[j]
        BY <3>1, <2>5
    <3>4. ASSUME NEW j \in 1 .. n, m < j PROVE Column(i)[j] = Silence
      <4>1. \A k \in 1 .. i : Block(X, slot, j)[k] = Silence
        <5> SUFFICES ASSUME NEW k \in 1 .. i, slot[k] = j, X[k] # Silence PROVE FALSE
          <6>1. \A k \in 1 .. i : k \in 1 .. L
              BY <1>1, <2>1
          <6> HIDE DEF Good, Column
          <6> QED BY <6>1, <1>3
        <5>1. k \in 1 .. L /\ k < i + 1
          <6> HIDE DEF Good, Column
          <6> QED BY <1>1, <2>1
        <5>2. slot[k] <= slot[i + 1]
            BY <1>0, <5>1, <2>1, <2>7
        <5> QED BY <5>2, <3>1, <3>4
      <4>2. Joins(K[j], Block(X, slot, j), L) /\ i <= L
          BY <1>0, <1>1, <2>1
      <4>3. K[j][i] = Silence
        <5> HIDE DEF Good, Column
        <5> QED BY <4>1, <4>2, <2>1, JoinNone
      <4> QED BY <4>3, <2>1, <2>4
    <3> HIDE DEF Column, Good
    <3>5. H[n] = Then(G[n], X[i + 1])
      <4>1. PICK U : U = Column(i)
          OBVIOUS
      <4>2. PICK V : V = Column(i + 1)
          OBVIOUS
      <4>3. PICK x \in Readings : x = X[i + 1]
          BY <2>3
      <4>4. /\ Joins(G, U, n) /\ Joins(H, V, n) /\ V[m] = Then(U[m], x)
            /\ \A j \in 1 .. n : j # m => V[j] = U[j]
            /\ \A j \in 1 .. n : m < j => U[j] = Silence
          BY <3>2, <3>3, <3>4, <2>2, <4>1, <4>2, <4>3
      <4>5. H[n] = Then(G[n], x)
          BY ONLY <4>4, m \in 1 .. n, x \in Readings, JoinMore
      <4> QED BY <4>3, <4>5
    <3> QED BY <3>5, <2>3
  <2> QED BY <2>6, <2>7
<1>7. Good = Nat
  <2> HIDE DEF Good
  <2>1. Good \in SUBSET Nat
      BY DEF Good
  <2> QED BY <2>1, <1>5, <1>6, Induction
<1>8. PICK H : Joins(H, Column(L), n)
  <2>1. L \in 0 .. L
      BY <1>1
  <2>2. Column(L) \in [1 .. n -> Readings]
      BY <2>1, <1>4
  <2> HIDE DEF Column, Good
  <2> QED BY <2>2, <1>0, JoinExists
<1>9. H[n] = F[L]
    BY <1>1, <1>7, <1>8
<1>10. \A j \in 1 .. n : S[j] = Column(L)[j]
    OBVIOUS
<1> HIDE DEF Column
<1>11. \A i \in 0 .. n : R[i] = H[i]
    BY <1>8, <1>10, JoinSame
<1> QED BY <1>9, <1>11

\* What is laid out after s.
LEMMA JoinAfter ==
    ASSUME NEW n, NEW X, NEW F, Joins(F, X, n), NEW R \in [0 .. n -> Readings],
           \A i \in 1 .. n : R[i] = Then(R[i - 1], X[i])
    PROVE  R[n] = Then(R[0], F[n])
<1>1. /\ n \in Nat /\ F[0] = Silence /\ F \in [0 .. n -> Readings] /\ X \in [1 .. n -> Readings]
      /\ \A i \in 1 .. n : F[i] = Then(F[i - 1], X[i])
    BY DEF Joins
<1> DEFINE Good == {k \in Nat : k <= n => R[k] = Then(R[0], F[k])}
<1>2. 0 \in Good
  <2>1. R[0] \in Readings
      BY <1>1
  <2> QED BY <2>1, <1>1, ThenIs
<1>3. ASSUME NEW k \in Good PROVE k + 1 \in Good
  <2> SUFFICES ASSUME k + 1 <= n PROVE R[k + 1] = Then(R[0], F[k + 1])
      OBVIOUS
  <2>1. k + 1 \in 1 .. n /\ k \in 0 .. n /\ 0 \in 0 .. n /\ (k + 1) - 1 = k /\ k <= n
      BY <1>1
  <2>2. /\ F[k] \in Readings /\ R[0] \in Readings /\ X[k + 1] \in Readings
        /\ R[k] = Then(R[0], F[k]) /\ F[k + 1] = Then(F[k], X[k + 1]) /\ R[k + 1] = Then(R[k], X[k + 1])
      BY <2>1, <1>1
  <2>3. Then(Then(R[0], F[k]), X[k + 1]) = Then(R[0], Then(F[k], X[k + 1]))
      BY ZenonT(60), <2>2, ThenIs
  <2> QED BY <2>2, <2>3
<1>4. Good = Nat
  <2> HIDE DEF Good
  <2>1. Good \in SUBSET Nat
      BY DEF Good
  <2> QED BY <2>1, <1>2, <1>3, Induction
<1> QED BY <1>1, <1>4

-----------------------------------------------------------------------------
(***************************************************************************)
(* What a tree says: the text of a node, and those of what is in its       *)
(* fields.                                                                 *)
(***************************************************************************)
Own(a) == IF node[a].text \in {NoText, Typedef} THEN Silence ELSE <<node[a].text>>
ReadFrom(h, a) == [i \in 1 .. Len(FieldOrder) |-> h[node[a].refs[FieldOrder[i]]]]
ReadAt(h, a) == IF a = Null THEN Silence ELSE Then(Own(a), FlattenSeq(ReadFrom(h, a)))

\* h is what the recursion of Spelled asks for.
FollowsSpelling(h) == h = [a \in Addr \cup {Null} |-> ReadAt(h, a)]

\* Memory that is not in use points nowhere.
DeadEmpty == \A a \in Addr : ~Live(a) => \A f \in Fields : node[a].refs[f] = Null

TreeOK == NodesOK /\ Ranked /\ DeadEmpty

\* What a node says is made of texts.
LEMMA ReadTyped ==
    ASSUME NodesOK, NEW h \in [Addr \cup {Null} -> Readings], NEW a \in Addr
    PROVE  /\ ReadFrom(h, a) \in [1 .. Len(FieldOrder) -> Readings]
           /\ Own(a) \in Readings /\ FlattenSeq(ReadFrom(h, a)) \in Readings
           /\ ReadAt(h, a) \in Readings
<1>1. node[a] \in Nodes
    BY DEF NodesOK
<1>2. /\ node[a].text \in Texts \cup {NoText}
      /\ \A f \in Fields : node[a].refs[f] \in Addr \cup {Null}
    BY <1>1 DEF Nodes
<1>3. Len(FieldOrder) \in Nat /\ \A i \in 1 .. Len(FieldOrder) : FieldOrder[i] \in Fields
    BY TellingAssumption
<1>4. ReadFrom(h, a) \in [1 .. Len(FieldOrder) -> Readings]
    BY <1>2, <1>3 DEF ReadFrom
<1>5. Own(a) \in Readings
    BY <1>2 DEF Own, Readings, Silence
<1>6. PICK F : Joins(F, ReadFrom(h, a), Len(FieldOrder))
    BY <1>3, <1>4, JoinExists
<1>7. FlattenSeq(ReadFrom(h, a)) \in Readings
    BY <1>6, JoinIs
<1>8. ReadAt(h, a) \in Readings
    BY <1>5, <1>7, ThenIs DEF ReadAt
<1> QED BY <1>4, <1>5, <1>7, <1>8

\* It depends on what is in its fields only.
LEMMA ReadSame ==
    ASSUME NEW h, NEW k, NEW a,
           \A i \in 1 .. Len(FieldOrder) :
               h[node[a].refs[FieldOrder[i]]] = k[node[a].refs[FieldOrder[i]]]
    PROVE  ReadAt(h, a) = ReadAt(k, a)
<1>1. ReadFrom(h, a) = ReadFrom(k, a)
    BY DEF ReadFrom
<1> QED BY <1>1 DEF ReadAt

\* There is a function that follows: what is found when the fields are followed further and
\* further, since no node is below itself.
LEMMA SpellingExists ==
    ASSUME TreeOK
    PROVE  \E h : FollowsSpelling(h)
<1>1. NodesOK /\ DeadEmpty
    BY DEF TreeOK
<1>2. PICK n \in Nat : \E rank : Ranking(rank, n)
    BY DEF TreeOK, Ranked
<1>3. PICK rank : Ranking(rank, n)
    BY <1>2
<1>4. rank \in [Addr -> 0 .. n]
    BY <1>3 DEF Ranking
<1>5. PICK S : S = [Addr \cup {Null} -> Readings]
    OBVIOUS
<1>6. PICK step : step = [h \in S |-> [a \in Addr \cup {Null} |-> ReadAt(h, a)]]
    OBVIOUS
<1>7. ASSUME NEW h \in S PROVE step[h] \in S
  <2>1. \A a \in Addr \cup {Null} : ReadAt(h, a) \in Readings
    <3>1. ReadAt(h, Null) \in Readings
        BY ThenIs DEF ReadAt
    <3> QED BY <3>1, <1>1, <1>5, ReadTyped
  <2> QED BY <2>1, <1>5, <1>6
<1>8. PICK g : g = [k \in 1 .. n + 2 |-> step]
    OBVIOUS
<1>9. step \in [S -> S]
    BY <1>6, <1>7
<1>10. IsStepping(g, n + 2, S)
    BY <1>8, <1>9 DEF IsStepping
<1>11. PICK s0 : s0 = [a \in Addr \cup {Null} |-> Silence]
    OBVIOUS
<1>12. s0 \in S
    BY <1>5, <1>11, ThenIs
<1>13. PICK f : Follows(f, n + 2, S, s0, g)
    BY <1>10, <1>12, Recursion
<1>14. f \in [0 .. n + 2 -> S] /\ f[0] = s0 /\ \A k \in 1 .. n + 2 : f[k] = g[k][f[k - 1]]
    BY <1>13 DEF Follows
<1>15. ASSUME NEW k \in 0 .. n + 1, NEW a \in Addr \cup {Null}
       PROVE  f[k + 1][a] = ReadAt(f[k], a) /\ f[k] \in S
  <2>1. k + 1 \in 1 .. n + 2 /\ k \in 0 .. n + 2 /\ (k + 1) - 1 = k
      BY <1>2
  <2>2. f[k + 1] = step[f[k]] /\ f[k] \in S
      BY <2>1, <1>8, <1>14
  <2> QED BY <2>2, <1>6
<1>16. ASSUME NEW k \in 0 .. n + 2 PROVE f[k][Null] = Silence
  <2>1. CASE k = 0
      BY <2>1, <1>11, <1>14
  <2>2. CASE k # 0
    <3>1. k - 1 \in 0 .. n + 1 /\ (k - 1) + 1 = k
        BY <2>2, <1>2
    <3>2. f[k][Null] = ReadAt(f[k - 1], Null)
        BY <3>1, <1>15
    <3> QED BY <3>2 DEF ReadAt
  <2> QED BY <2>1, <2>2
<1> DEFINE Good == {k \in Nat : k <= n + 1 =>
                       \A a \in Addr : rank[a] < k => f[k][a] = f[k + 1][a]}
<1>17. 0 \in Good
    BY <1>4
<1>18. ASSUME NEW k \in Good PROVE k + 1 \in Good
  <2> SUFFICES ASSUME k + 1 <= n + 1, NEW a \in Addr, rank[a] < k + 1
               PROVE  f[k + 1][a] = f[(k + 1) + 1][a]
      OBVIOUS
  <2>1. k \in 0 .. n + 1 /\ k + 1 \in 0 .. n + 1 /\ k <= n + 1 /\ k \in 0 .. n + 2
        /\ k + 1 \in 0 .. n + 2
      BY <1>2
  <2>2. f[k + 1][a] = ReadAt(f[k], a) /\ f[(k + 1) + 1][a] = ReadAt(f[k + 1], a)
      BY <2>1, <1>15
  <2>3. \A b \in Addr : rank[b] < k => f[k][b] = f[k + 1][b]
      BY <2>1
  <2>4. f[k][Null] = f[k + 1][Null]
      BY <2>1, <1>16
  <2>5. ASSUME NEW i \in 1 .. Len(FieldOrder)
        PROVE  f[k][node[a].refs[FieldOrder[i]]] = f[k + 1][node[a].refs[FieldOrder[i]]]
    <3>1. PICK b : b = node[a].refs[FieldOrder[i]]
        OBVIOUS
    <3>2. FieldOrder[i] \in Fields
        BY TellingAssumption
    <3>3. b \in Addr \cup {Null}
        BY <3>1, <3>2, <1>1 DEF NodesOK, Nodes
    <3>4. CASE b = Null
        BY <3>1, <3>4, <2>4
    <3>5. CASE b # Null
      <4>1. Live(a)
          BY <3>1, <3>2, <3>5, <1>1 DEF DeadEmpty
      <4>2. rank[b] < rank[a]
          BY <3>1, <3>2, <3>5, <4>1, <1>3 DEF Ranking
      <4>3. rank[b] < k
        <5> HIDE DEF Good
        <5>1. rank[a] \in 0 .. n /\ rank[b] \in 0 .. n /\ k \in Nat
            BY <1>4, <2>1, <3>3, <3>5
        <5> QED BY <5>1, <4>2
      <4> QED BY <3>1, <3>3, <3>5, <4>3, <2>3
    <3> QED BY <3>4, <3>5
  <2>6. ReadAt(f[k], a) = ReadAt(f[k + 1], a)
    <3> HIDE DEF Good
    <3> QED BY <2>5, ReadSame
  <2> QED BY <2>2, <2>6
<1>19. Good = Nat
  <2> HIDE DEF Good
  <2>1. Good \in SUBSET Nat
      BY DEF Good
  <2> QED BY <2>1, <1>17, <1>18, Induction
<1>20. PICK m \in Nat : m = n + 1 /\ m \in 0 .. n + 1 /\ m \in 0 .. n + 2 /\ m + 1 \in 0 .. n + 2
    BY <1>2
<1>21. \A a \in Addr : rank[a] < m
    BY <1>2, <1>4, <1>20
<1>22. ASSUME NEW a \in Addr \cup {Null} PROVE f[m][a] = ReadAt(f[m], a)
  <2>1. f[m + 1][a] = ReadAt(f[m], a)
      BY <1>15, <1>20
  <2>2. f[m][a] = f[m + 1][a]
    <3>1. CASE a = Null
        BY <3>1, <1>16, <1>20
    <3>2. CASE a # Null
      <4>1. m \in Good
          BY <1>19
      <4>2. m <= n + 1
          BY <1>20
      <4> QED BY <3>2, <4>1, <4>2, <1>21
    <3> QED BY <3>1, <3>2
  <2> QED BY <2>1, <2>2
<1>23. f[m] \in S
    BY <1>14, <1>20
<1>24. f[m] = [a \in Addr \cup {Null} |-> ReadAt(f[m], a)]
  <2> HIDE DEF Good
  <2> QED BY <1>5, <1>22, <1>23
<1> QED BY <1>24 DEF FollowsSpelling

SpellOK ==
    /\ Spelled \in [Addr \cup {Null} -> Readings]
    /\ Spelled[Null] = Silence
    /\ \A a \in Addr : Spelled[a] = Then(Own(a), FlattenSeq(ReadFrom(Spelled, a)))

\* So Spelled is one, and what it gives are texts.
LEMMA SpellingIs == TreeOK => SpellOK
<1> SUFFICES ASSUME TreeOK PROVE SpellOK
    OBVIOUS
<1>0. DOMAIN FieldOrder = 1 .. Len(FieldOrder)
    BY TellingAssumption
<1>1. FollowsSpelling(Spelled)
  <2>1. \E h : h = [a \in Addr \cup {Null} |->
            IF a = Null THEN << >>
            ELSE (IF node[a].text \in {NoText, Typedef} THEN << >> ELSE <<node[a].text>>)
                 \o FlattenSeq([i \in DOMAIN FieldOrder |-> h[node[a].refs[FieldOrder[i]]]])]
      BY Zenon, <1>0, SpellingExists DEF FollowsSpelling, ReadAt, ReadFrom, Own, Then, Silence
  <2>2. Spelled = [a \in Addr \cup {Null} |->
            IF a = Null THEN << >>
            ELSE (IF node[a].text \in {NoText, Typedef} THEN << >> ELSE <<node[a].text>>)
                 \o FlattenSeq([i \in DOMAIN FieldOrder |-> Spelled[node[a].refs[FieldOrder[i]]]])]
      BY Zenon, <2>1 DEF Spelled
  <2> HIDE DEF Spelled
  <2> QED BY Zenon, <2>2, <1>0 DEF FollowsSpelling, ReadAt, ReadFrom, Own, Then, Silence
<1> HIDE DEF Spelled
<1>2. /\ DOMAIN Spelled = Addr \cup {Null} /\ Spelled[Null] = Silence
      /\ \A a \in Addr : Spelled[a] = Then(Own(a), FlattenSeq(ReadFrom(Spelled, a)))
                         /\ Spelled[a] = ReadAt(Spelled, a)
      /\ Spelled = [a \in Addr \cup {Null} |-> Spelled[a]]
  <2>1. \A a \in Addr : a # Null
      BY StoreAssumption
  <2> QED BY <1>1, <2>1 DEF FollowsSpelling, ReadAt
<1>3. PICK n \in Nat : \E rank : Ranking(rank, n)
    BY DEF TreeOK, Ranked
<1>4. PICK rank : Ranking(rank, n)
    BY <1>3
<1>5. rank \in [Addr -> 0 .. n] /\ NodesOK /\ DeadEmpty
    BY <1>4 DEF Ranking, TreeOK
<1> DEFINE Good == {k \in Nat : \A a \in Addr : rank[a] < k => Spelled[a] \in Readings}
<1>6. 0 \in Good
    BY <1>5
<1>7. ASSUME NEW k \in Good PROVE k + 1 \in Good
  <2> SUFFICES ASSUME NEW a \in Addr, rank[a] < k + 1 PROVE Spelled[a] \in Readings
      OBVIOUS
  <2>1. \A b \in Addr : rank[b] < k => Spelled[b] \in Readings
      OBVIOUS
  <2>2. PICK h : h = [b \in Addr \cup {Null} |->
                          IF b # Null /\ rank[b] < k THEN Spelled[b] ELSE Silence]
      OBVIOUS
  <2>3. h \in [Addr \cup {Null} -> Readings]
      BY <2>1, <2>2, ThenIs
  <2>4. ASSUME NEW i \in 1 .. Len(FieldOrder)
        PROVE  h[node[a].refs[FieldOrder[i]]] = Spelled[node[a].refs[FieldOrder[i]]]
    <3>1. PICK b : b = node[a].refs[FieldOrder[i]]
        OBVIOUS
    <3>2. FieldOrder[i] \in Fields
        BY TellingAssumption
    <3>3. b \in Addr \cup {Null}
        BY <3>1, <3>2, <1>5 DEF NodesOK, Nodes
    <3>4. CASE b = Null
        BY <3>1, <3>4, <2>2, <1>2
    <3>5. CASE b # Null
      <4>1. Live(a)
          BY <3>1, <3>2, <3>5, <1>5 DEF DeadEmpty
      <4>2. rank[b] < rank[a]
          BY <3>1, <3>2, <3>5, <4>1, <1>4 DEF Ranking
      <4>3. rank[b] < k
        <5>1. rank[a] \in 0 .. n /\ rank[b] \in 0 .. n /\ k \in Nat
            BY <1>5, <3>3, <3>5
        <5> HIDE DEF Good
        <5> QED BY <5>1, <4>2
      <4> QED BY <3>1, <3>3, <3>5, <4>3, <2>2
    <3> QED BY <3>4, <3>5
  <2>5. ReadAt(h, a) = ReadAt(Spelled, a)
    <3> HIDE DEF Good
    <3> QED BY <2>4, ReadSame
  <2>6. ReadAt(h, a) \in Readings
      BY <2>3, <1>5, ReadTyped
  <2> QED BY <2>5, <2>6, <1>2
<1>8. Good = Nat
  <2> HIDE DEF Good
  <2>1. Good \in SUBSET Nat
      BY DEF Good
  <2> QED BY <2>1, <1>6, <1>7, Induction
<1>9. ASSUME NEW a \in Addr PROVE Spelled[a] \in Readings
  <2>1. rank[a] \in Nat /\ rank[a] + 1 \in Nat /\ rank[a] < rank[a] + 1
      BY <1>5
  <2>2. rank[a] + 1 \in Good
      BY <2>1, <1>8
  <2> QED BY <2>1, <2>2
<1>10. \A a \in Addr \cup {Null} : Spelled[a] \in Readings
    BY <1>2, <1>9, ThenIs
<1> HIDE DEF Good
<1> QED BY <1>2, <1>10 DEF SpellOK

\* ... also after a step.
LEMMA SpellingIsNext == TreeOK' => SpellOK'
    BY SpellingIs, PTL

\* Nodes that a step leaves alone, and that only lead to one another, say what they said.
LEMMA SpellingKept ==
    ASSUME TreeOK, TreeOK', NEW S \in SUBSET Addr,
           \A b \in S : /\ Live(b) /\ node'[b] = node[b]
                        /\ \A f \in Fields : node[b].refs[f] # Null => node[b].refs[f] \in S
    PROVE  \A v \in S : Spelled'[v] = Spelled[v]
<1>1. SpellOK /\ SpellOK'
    BY SpellingIs, SpellingIsNext
<1>2. PICK n \in Nat : \E rank : Ranking(rank, n)
    BY DEF TreeOK, Ranked
<1>3. PICK rank : Ranking(rank, n)
    BY <1>2
<1>4. rank \in [Addr -> 0 .. n] /\ NodesOK
    BY <1>3 DEF Ranking, TreeOK
<1> HIDE DEF Spelled
<1>5. Spelled[Null] = Silence /\ Spelled'[Null] = Silence
    BY <1>1 DEF SpellOK
<1> DEFINE Good == {k \in Nat : \A b \in S : rank[b] < k => Spelled'[b] = Spelled[b]}
<1>6. 0 \in Good
    BY <1>4
<1>7. ASSUME NEW k \in Good PROVE k + 1 \in Good
  <2> SUFFICES ASSUME NEW b \in S, rank[b] < k + 1 PROVE Spelled'[b] = Spelled[b]
      OBVIOUS
  <2>1. Live(b) /\ node'[b] = node[b] /\ b \in Addr
      OBVIOUS
  <2>2. ASSUME NEW i \in 1 .. Len(FieldOrder)
        PROVE  Spelled'[node[b].refs[FieldOrder[i]]] = Spelled[node[b].refs[FieldOrder[i]]]
    <3>1. PICK c : c = node[b].refs[FieldOrder[i]]
        OBVIOUS
    <3>2. FieldOrder[i] \in Fields
        BY TellingAssumption
    <3>3. CASE c = Null
        BY <3>1, <3>3, <1>5
    <3>4. CASE c # Null
      <4>1. c \in S /\ rank[c] < rank[b]
          BY <3>1, <3>2, <3>4, <2>1, <1>3 DEF Ranking
      <4>2. rank[c] < k
        <5>1. rank[b] \in 0 .. n /\ rank[c] \in 0 .. n /\ k \in Nat
            BY <1>4, <4>1
        <5> HIDE DEF Good
        <5> QED BY <5>1, <4>1
      <4> QED BY <3>1, <4>1, <4>2
    <3> QED BY <3>3, <3>4
  <2> HIDE DEF Good
  <2>3. ReadFrom(Spelled, b)' = ReadFrom(Spelled, b)
      BY <2>1, <2>2 DEF ReadFrom
  <2>4. Own(b)' = Own(b)
      BY <2>1 DEF Own
  <2>5. Spelled[b] = Then(Own(b), FlattenSeq(ReadFrom(Spelled, b)))
      BY <2>1, <1>1 DEF SpellOK
  <2>6. Spelled'[b] = Then(Own(b)', FlattenSeq(ReadFrom(Spelled, b)'))
      BY <2>1, <1>1 DEF SpellOK
  <2> QED BY <2>3, <2>4, <2>5, <2>6
<1>8. Good = Nat
  <2> HIDE DEF Good
  <2>1. Good \in SUBSET Nat
      BY DEF Good
  <2> QED BY <2>1, <1>6, <1>7, Induction
<1>9. ASSUME NEW v \in S PROVE Spelled'[v] = Spelled[v]
  <2>1. rank[v] \in Nat /\ rank[v] + 1 \in Nat /\ rank[v] < rank[v] + 1
      BY <1>4
  <2>2. rank[v] + 1 \in Good
      BY <2>1, <1>8
  <2> QED BY <2>1, <2>2
<1> QED BY <1>9
-----------------------------------------------------------------------------
(***************************************************************************)
(* The names and strings among the words read, and what an action makes of *)
(* those of its arguments.                                                 *)
(***************************************************************************)
SpokenOK ==
    /\ Spoken \in [0 .. Len(source) -> Readings]
    /\ Spoken[0] = Silence
    /\ \A k \in 1 .. Len(source) :
          Spoken[k] = IF source[k].kind \in Speaking THEN Then(Spoken[k - 1], <<source[k].text>>)
                                                     ELSE Spoken[k - 1]

\* A text by itself, and one that is added.
LEMMA OneWord ==
    ASSUME NEW t \in Texts
    PROVE  <<t>> \in Readings /\ \A s \in Readings : Append(s, t) = Then(s, <<t>>)
<1>1. <<t>> \in Readings
    BY DEF Readings
<1>2. ASSUME NEW s \in Seq(Texts) PROVE Append(s, t) = s \o <<t>>
    BY Zenon, AppendIsConcat
<1> QED BY Zenon, <1>1, <1>2 DEF Readings, Then

\* Spoken is what its recursion asks for.
LEMMA SpokenIs == source \in Seq(Reads) => SpokenOK
<1> SUFFICES ASSUME source \in Seq(Reads) PROVE SpokenOK
    OBVIOUS
<1>1. PICK n \in Nat : n = Len(source)
    OBVIOUS
<1>2. \A k \in 1 .. n : source[k].text \in Texts
  <2>1. \A k \in 1 .. n : source[k] \in Reads
      BY <1>1
  <2> QED BY <2>1 DEF Reads
<1>3. PICK g : g = [k \in 1 .. n |-> [s \in Readings |->
          IF source[k].kind \in Speaking THEN Append(s, source[k].text) ELSE s]]
    OBVIOUS
<1>4. IsStepping(g, n, Readings)
  <2>1. ASSUME NEW k \in 1 .. n, NEW s \in Readings PROVE Append(s, source[k].text) \in Readings
      BY <1>2 DEF Readings
  <2> QED BY <2>1, <1>3 DEF IsStepping
<1>5. Silence \in Readings
    BY ThenIs
<1>6. PICK F : Follows(F, n, Readings, Silence, g)
    BY <1>4, <1>5, Recursion
<1>7. F \in [0 .. n -> Readings] /\ F[0] = Silence /\ \A k \in 1 .. n : F[k] = g[k][F[k - 1]]
    BY <1>6 DEF Follows
<1> DEFINE Asks(h) ==
        h = [k \in 0 .. n |->
                IF k = 0 THEN << >>
                ELSE IF source[k].kind \in {"IDENTIFIER", "STRING"}
                     THEN Append(h[k - 1], source[k].text)
                     ELSE h[k - 1]]
<1>8. Asks(F)
  <2> SUFFICES ASSUME NEW k \in 0 .. n
               PROVE  F[k] = IF k = 0 THEN << >>
                             ELSE IF source[k].kind \in {"IDENTIFIER", "STRING"}
                                  THEN Append(F[k - 1], source[k].text)
                                  ELSE F[k - 1]
      BY <1>7
  <2>1. CASE k = 0
      BY <2>1, <1>7 DEF Silence
  <2>2. CASE k # 0
    <3>1. k \in 1 .. n /\ k - 1 \in 0 .. n
        BY <2>2
    <3>2. F[k] = g[k][F[k - 1]] /\ F[k - 1] \in Readings
        BY <3>1, <1>7
    <3> QED BY <2>2, <3>1, <3>2, <1>3 DEF Speaking
  <2> QED BY <2>1, <2>2
<1>9. Asks(Spoken)
    BY Zenon, <1>1, <1>8 DEF Spoken
<1> HIDE DEF Spoken
<1>10. /\ DOMAIN Spoken = 0 .. n /\ Spoken[0] = Silence
       /\ \A k \in 1 .. n : Spoken[k] = IF source[k].kind \in Speaking
                                        THEN Append(Spoken[k - 1], source[k].text)
                                        ELSE Spoken[k - 1]
       /\ Spoken = [k \in 0 .. n |-> Spoken[k]]
  <2>1. PICK h : h = Spoken
      OBVIOUS
  <2>2. h = [k \in 0 .. n |->
                IF k = 0 THEN << >>
                ELSE IF source[k].kind \in {"IDENTIFIER", "STRING"}
                     THEN Append(h[k - 1], source[k].text)
                     ELSE h[k - 1]]
      BY Zenon, <2>1, <1>9
  <2> HIDE DEF Asks
  <2>3. DOMAIN h = 0 .. n /\ h = [k \in 0 .. n |-> h[k]]
      BY <2>2
  <2>4. h[0] = Silence
      BY <2>2, <1>1 DEF Silence
  <2>5. ASSUME NEW k \in 1 .. n
        PROVE  h[k] = IF source[k].kind \in Speaking THEN Append(h[k - 1], source[k].text)
                                                     ELSE h[k - 1]
    <3>1. k \in 0 .. n /\ k # 0
        OBVIOUS
    <3> QED BY <3>1, <2>2 DEF Speaking
  <2> QED BY <2>1, <2>3, <2>4, <2>5
<1> HIDE DEF Asks
<1> DEFINE Good == {k \in Nat : k <= n => Spoken[k] \in Readings}
<1>11. 0 \in Good
    BY <1>5, <1>10
<1>12. ASSUME NEW k \in Good PROVE k + 1 \in Good
  <2> SUFFICES ASSUME k + 1 <= n PROVE Spoken[k + 1] \in Readings
      OBVIOUS
  <2>1. k + 1 \in 1 .. n /\ (k + 1) - 1 = k /\ Spoken[k] \in Readings
      BY <1>1
  <2>2. Append(Spoken[k], source[k + 1].text) \in Readings
      BY <2>1, <1>2 DEF Readings
  <2> QED BY <2>1, <2>2, <1>10
<1>13. Good = Nat
  <2> HIDE DEF Good
  <2>1. Good \in SUBSET Nat
      BY DEF Good
  <2> QED BY <2>1, <1>11, <1>12, Induction
<1>14. \A k \in 0 .. n : Spoken[k] \in Readings
    BY <1>13
<1> HIDE DEF Good
<1>15. Spoken \in [0 .. n -> Readings]
    BY <1>10, <1>14
<1>16. ASSUME NEW k \in 1 .. n
       PROVE  Append(Spoken[k - 1], source[k].text) = Then(Spoken[k - 1], <<source[k].text>>)
  <2>1. k - 1 \in 0 .. n
      OBVIOUS
  <2> QED BY <2>1, <1>2, <1>14, OneWord
<1> QED BY <1>1, <1>10, <1>15, <1>16 DEF SpokenOK

\* ... also after a step.
LEMMA SpokenIsNext == (source \in Seq(Reads))' => SpokenOK'
    BY SpokenIs, PTL

\* A word that is read adds nothing to what has been spoken before it.
LEMMA SpokenKept ==
    ASSUME source \in Seq(Reads), (source \in Seq(Reads))', Len(source) <= Len(source'),
           \A k \in 1 .. Len(source) : source'[k] = source[k]
    PROVE  \A k \in 0 .. Len(source) : Spoken'[k] = Spoken[k]
<1> HIDE DEF Spoken
<1>1. SpokenOK /\ SpokenOK'
    BY SpokenIs, SpokenIsNext
<1>2. PICK n \in Nat : n = Len(source)
    OBVIOUS
<1>3. PICK m \in Nat : m = Len(source') /\ n <= m
    BY <1>2
<1>4. /\ Spoken[0] = Silence /\ Spoken'[0] = Silence
      /\ \A k \in 1 .. n :
            Spoken[k] = IF source[k].kind \in Speaking THEN Then(Spoken[k - 1], <<source[k].text>>)
                                                       ELSE Spoken[k - 1]
    BY <1>1, <1>2 DEF SpokenOK
<1>5. \A k \in 1 .. m :
          Spoken'[k] = IF source'[k].kind \in Speaking
                       THEN Then(Spoken'[k - 1], <<source'[k].text>>) ELSE Spoken'[k - 1]
    BY <1>1, <1>3 DEF SpokenOK
<1> DEFINE Good == {k \in Nat : k <= n => Spoken'[k] = Spoken[k]}
<1>6. 0 \in Good
    BY <1>4
<1>7. ASSUME NEW k \in Good PROVE k + 1 \in Good
  <2> SUFFICES ASSUME k + 1 <= n PROVE Spoken'[k + 1] = Spoken[k + 1]
      OBVIOUS
  <2>1. k + 1 \in 1 .. n /\ k + 1 \in 1 .. m /\ (k + 1) - 1 = k /\ k <= n
      BY <1>3
  <2>2. source'[k + 1] = source[k + 1] /\ Spoken'[k] = Spoken[k]
      BY <2>1, <1>2
  <2> HIDE DEF Good
  <2>3. Spoken[k + 1] = IF source[k + 1].kind \in Speaking
                        THEN Then(Spoken[k], <<source[k + 1].text>>) ELSE Spoken[k]
      BY <2>1, <1>4
  <2>4. Spoken'[k + 1] = IF source'[k + 1].kind \in Speaking
                         THEN Then(Spoken'[k], <<source'[k + 1].text>>) ELSE Spoken'[k]
      BY <2>1, <1>5
  <2> QED BY <2>2, <2>3, <2>4
<1>8. Good = Nat
  <2> HIDE DEF Good
  <2>1. Good \in SUBSET Nat
      BY DEF Good
  <2> QED BY <2>1, <1>6, <1>7, Induction
<1> QED BY <1>2, <1>8

\* X are the texts of the fields of a node that a production's action makes, S those of its
\* arguments, which are together T, and Y those of the fields that an upgrade leaves alone.
Filled(p, n, L, X, S, T, Y) ==
    /\ p.op # "value" /\ p.lhs # "identifier" /\ 0 \notin Used(p)
    /\ n = Len(p.rhs) /\ L = Len(FieldOrder)
    /\ X \in [1 .. L -> Readings] /\ Joins(T, S, n)
    /\ \A i \in 1 .. L : FieldOrder[i] \in DOMAIN p.refs => X[i] = S[p.refs[FieldOrder[i]]]
    /\ \A i \in 1 .. L : FieldOrder[i] \notin DOMAIN p.refs /\ X[i] # Silence =>
           p.op = "UN" /\ <<p.rhs[p.arg], FieldOrder[i]>> \in Owning
    /\ \A j \in 1 .. n : j \notin Used(p) => S[j] = Silence
    /\ Y = [i \in 1 .. L |-> IF FieldOrder[i] \in DOMAIN p.refs THEN Silence ELSE X[i]]
    /\ p.op = "UN" => \E G : Joins(G, Y, L) /\ G[L] = S[p.arg]

\* What an action puts into the fields of a node, read in their order, are the texts of its
\* arguments in theirs.
LEMMA LaidOut ==
    ASSUME NEW p \in Productions, NEW n, NEW L, NEW X, NEW S, NEW T, NEW Y,
           Filled(p, n, L, X, S, T, Y)
    PROVE  FlattenSeq(X) = T[n]
<1>0. /\ p.op # "value" /\ p.lhs # "identifier" /\ 0 \notin Used(p)
      /\ n = Len(p.rhs) /\ L = Len(FieldOrder)
      /\ X \in [1 .. L -> Readings] /\ Joins(T, S, n)
      /\ \A i \in 1 .. L : FieldOrder[i] \in DOMAIN p.refs => X[i] = S[p.refs[FieldOrder[i]]]
      /\ \A i \in 1 .. L : FieldOrder[i] \notin DOMAIN p.refs /\ X[i] # Silence =>
             p.op = "UN" /\ <<p.rhs[p.arg], FieldOrder[i]>> \in Owning
      /\ \A j \in 1 .. n : j \notin Used(p) => S[j] = Silence
      /\ Y = [i \in 1 .. L |-> IF FieldOrder[i] \in DOMAIN p.refs THEN Silence ELSE X[i]]
      /\ p.op = "UN" => \E G : Joins(G, Y, L) /\ G[L] = S[p.arg]
    BY DEF Filled
<1> USE <1>0
<1>1. /\ n \in Nat \ {0} /\ DOMAIN p.refs \subseteq Fields /\ p.op \in {"NN", "UN"}
      /\ \A f \in DOMAIN p.refs : p.refs[f] \in 0 .. n
      /\ \A f, g \in DOMAIN p.refs : p.refs[f] = p.refs[g] => f = g
      /\ p.op = "UN" => p.arg \in 1 .. n /\ \A f \in DOMAIN p.refs : p.refs[f] # p.arg
    BY ParserAssumption DEF ProductionOK
<1>2. /\ L \in Nat /\ \A i \in 1 .. L : FieldOrder[i] \in Fields
      /\ \A i, j \in 1 .. L : FieldOrder[i] = FieldOrder[j] => i = j
    BY TellingAssumption
<1>3. /\ \A i, j \in 1 .. L :
            i < j /\ FieldOrder[i] \in Carried(p) /\ FieldOrder[j] \in Carried(p) =>
                Slot(p, FieldOrder[i]) <= Slot(p, FieldOrder[j])
    BY TellingAssumption DEF TellingOK
<1>4. /\ \A f \in DOMAIN p.refs : p.refs[f] \in Used(p)
      /\ p.op = "UN" => p.arg \in Used(p)
    BY DEF Used
<1>5. PICK slot : slot = [i \in 1 .. L |-> Slot(p, FieldOrder[i])]
    OBVIOUS
<1>6. \A i \in 1 .. L : slot[i] = IF FieldOrder[i] \in DOMAIN p.refs THEN p.refs[FieldOrder[i]]
                                                                    ELSE p.arg
    BY <1>5 DEF Slot
<1>7. ASSUME NEW i \in 1 .. L, X[i] # Silence
      PROVE  slot[i] \in 1 .. n /\ FieldOrder[i] \in Carried(p)
  <2>1. CASE FieldOrder[i] \in DOMAIN p.refs
    <3>1. p.refs[FieldOrder[i]] \in 0 .. n /\ p.refs[FieldOrder[i]] # 0
        BY <2>1, <1>1, <1>4
    <3> QED BY <2>1, <3>1, <1>6, <1>1 DEF Carried
  <2>2. CASE FieldOrder[i] \notin DOMAIN p.refs
    <3>1. p.op = "UN" /\ <<p.rhs[p.arg], FieldOrder[i]>> \in Owning
        BY <2>2, <1>7
    <3> QED BY <2>2, <3>1, <1>1, <1>2, <1>6 DEF Carried
  <2> QED BY <2>1, <2>2
<1>8. ASSUME NEW i \in 1 .. L, NEW k \in 1 .. L, i < k, X[i] # Silence, X[k] # Silence
      PROVE  slot[i] <= slot[k]
    BY <1>3, <1>5, <1>7, <1>8
<1>9. DOMAIN X = 1 .. L
    OBVIOUS
<1>10. ASSUME NEW j \in 1 .. n
       PROVE  /\ Block(X, slot, j) \in [1 .. L -> Readings]
              /\ \A i \in 1 .. L : Block(X, slot, j)[i] = IF slot[i] = j THEN X[i] ELSE Silence
    BY <1>9, ThenIs DEF Block
<1>11. \A i \in 1 .. L : FieldOrder[i] \notin DOMAIN p.refs /\ p.op = "NN" => X[i] = Silence
    OBVIOUS
<1>12. ASSUME NEW j \in 1 .. n PROVE \E G : Joins(G, Block(X, slot, j), L) /\ G[L] = S[j]
  <2>1. PICK B : B = Block(X, slot, j) /\ B \in [1 .. L -> Readings]
      BY <1>10
  <2>2. \A i \in 1 .. L : B[i] = IF slot[i] = j THEN X[i] ELSE Silence
      BY <2>1, <1>10
  <2>3. PICK G : Joins(G, B, L)
      BY <2>1, <1>2, JoinExists
  <2>4. L \in 0 .. L /\ L <= L
      BY <1>2
  <2>5. ASSUME NEW f \in DOMAIN p.refs, p.refs[f] = j PROVE G[L] = S[j]
    <3>1. PICK m \in 1 .. L : FieldOrder[m] = f
      <4>1. f \in ToSet(FieldOrder)
          BY <1>1, ParserAssumption
      <4>2. DOMAIN FieldOrder = 1 .. L
          BY TellingAssumption
      <4> QED BY <4>1, <4>2 DEF ToSet
    <3>2. B[m] = S[j]
        BY <2>2, <2>5, <3>1, <1>6
    <3>3. ASSUME NEW i \in 1 .. L, i # m PROVE B[i] = Silence
      <4>1. FieldOrder[i] # f
          BY <3>1, <3>3, <1>2
      <4>2. CASE FieldOrder[i] \in DOMAIN p.refs
        <5>1. slot[i] # j
            BY <4>1, <4>2, <2>5, <1>1, <1>6
        <5> QED BY <5>1, <2>2
      <4>3. CASE FieldOrder[i] \notin DOMAIN p.refs /\ p.op = "UN"
        <5>1. slot[i] # j
            BY <4>3, <2>5, <1>1, <1>6
        <5> QED BY <5>1, <2>2
      <4>4. CASE FieldOrder[i] \notin DOMAIN p.refs /\ p.op = "NN"
          BY <4>4, <2>2, <1>11
      <4> QED BY <4>2, <4>3, <4>4, <1>1
    <3>4. m \in Nat /\ 1 <= m /\ m <= L
        BY <1>2
    <3>5. \A i \in 0 .. L : G[i] = IF 1 <= m /\ m <= i THEN B[m] ELSE Silence
        BY <3>3, <3>4, <2>3, JoinOne
    <3> QED BY <3>2, <3>4, <3>5, <2>4
  <2>6. ASSUME p.op = "UN", j = p.arg PROVE \E H : Joins(H, B, L) /\ H[L] = S[j]
    <3>1. \A i \in 1 .. L : B[i] = Y[i]
      <4> SUFFICES ASSUME NEW i \in 1 .. L PROVE B[i] = Y[i]
          OBVIOUS
      <4>1. CASE FieldOrder[i] \in DOMAIN p.refs
        <5>1. slot[i] # j
            BY <4>1, <2>6, <1>1, <1>6
        <5> QED BY <4>1, <5>1, <2>2
      <4>2. CASE FieldOrder[i] \notin DOMAIN p.refs
        <5>1. slot[i] = j
            BY <4>2, <2>6, <1>6
        <5> QED BY <4>2, <5>1, <2>2
      <4> QED BY <4>1, <4>2
    <3>2. B = Y
        BY <3>1, <2>1
    <3> QED BY <3>2, <2>6
  <2>7. ASSUME j \notin Used(p) PROVE G[L] = S[j]
    <3>1. \A i \in 1 .. L : B[i] = Silence
      <4> SUFFICES ASSUME NEW i \in 1 .. L PROVE B[i] = Silence
          OBVIOUS
      <4>1. CASE FieldOrder[i] \in DOMAIN p.refs
        <5>1. slot[i] # j
            BY <4>1, <2>7, <1>4, <1>6
        <5> QED BY <5>1, <2>2
      <4>2. CASE FieldOrder[i] \notin DOMAIN p.refs /\ p.op = "UN"
        <5>1. slot[i] # j
            BY <4>2, <2>7, <1>4, <1>6
        <5> QED BY <5>1, <2>2
      <4>3. CASE FieldOrder[i] \notin DOMAIN p.refs /\ p.op = "NN"
          BY <4>3, <2>2, <1>11
      <4> QED BY <4>1, <4>2, <4>3, <1>1
    <3>2. G[L] = Silence
        BY <3>1, <2>3, <2>4, <1>2, JoinNone
    <3> QED BY <3>2, <2>7
  <2>8. \/ \E f \in DOMAIN p.refs : p.refs[f] = j
        \/ p.op = "UN" /\ j = p.arg
        \/ j \notin Used(p)
      BY DEF Used
  <2> QED BY <2>1, <2>3, <2>5, <2>6, <2>7, <2>8
<1>13. PICK K : K = [j \in 1 .. n |-> CHOOSE G : Joins(G, Block(X, slot, j), L) /\ G[L] = S[j]]
    OBVIOUS
<1>14. \A j \in 1 .. n : Joins(K[j], Block(X, slot, j), L) /\ S[j] = K[j][L]
  <2> SUFFICES ASSUME NEW j \in 1 .. n
               PROVE  Joins(K[j], Block(X, slot, j), L) /\ S[j] = K[j][L]
      OBVIOUS
  <2>1. K[j] = CHOOSE G : Joins(G, Block(X, slot, j), L) /\ G[L] = S[j]
      BY <1>13
  <2> QED BY Zenon, <2>1, <1>12
<1>15. PICK F : Joins(F, X, L)
    BY <1>2, JoinExists
<1>16. T[n] = F[L]
  <2>1. Slotted(X, L, slot, n, K)
      BY <1>7, <1>8, <1>14 DEF Slotted
  <2> QED BY <2>1, <1>1, <1>14, <1>15, JoinBlocks
<1>17. FlattenSeq(X) = F[L]
    BY <1>15, JoinIs
<1> QED BY <1>16, <1>17

-----------------------------------------------------------------------------
(***************************************************************************)
(* What the stack says: q[i] is what its first i symbols say together.  A  *)
(* symbol says what is in its tree, but the token of a name or a string    *)
(* has none yet, and is the last word read.                                *)
(***************************************************************************)
Says(q) ==
    /\ q \in [0 .. Len(syms) -> Readings]
    /\ q[0] = Silence /\ q[Len(syms)] = Spoken[Consumed]
    /\ \A i \in 1 .. Len(syms) :
          /\ syms[i] \notin Speaking => q[i] = Then(q[i - 1], Spelled[yyvs[i]])
          /\ syms[i] \in Mute => q[i] = q[i - 1]
    /\ Under \in Speaking => q[Len(syms)] = Then(q[Len(syms) - 1], <<yytext>>)

Said == \E q : Says(q)

\* The same for the arguments of a production of n symbols.
ArgsTell(p, n, r) ==
    /\ r \in [0 .. n -> Readings]
    /\ \A i \in 1 .. n :
          /\ p.rhs[i] \notin Speaking => r[i] = Then(r[i - 1], Spelled[Arg(n, i)])
          /\ p.rhs[i] \in Mute => r[i] = r[i - 1]
    /\ p.rhs[n] \in Speaking => r[n] = Then(r[n - 1], <<yytext>>)

\* What a step leaves alone that gives back a node of the stack says what it said.
LEMMA RegionSays ==
    ASSUME StoreInv, TreeOK, TreeOK', NEW old,
           old = Null \/ \E i \in 1 .. Len(yyvs) : yyvs[i] = old,
           \A b \in Region(old) : node'[b] = node[b],
           NEW v \in Region(old) \cup {Null}
    PROVE  Spelled'[v] = Spelled[v]
<1> HIDE DEF Spelled
<1>1. CASE v = Null
    BY <1>1, SpellingIs, SpellingIsNext DEF SpellOK
<1>2. CASE v # Null
  <2>1. Region(old) \in SUBSET Addr /\ \A b \in Region(old) : Live(b)
      BY DEF Region
  <2>2. \A b \in Region(old) : \A f \in Fields :
            node[b].refs[f] # Null => node[b].refs[f] \in Region(old)
      BY <2>1, RegionClosed
  <2>3. PICK S : S = Region(old)
      OBVIOUS
  <2>4. /\ S \in SUBSET Addr /\ v \in S
        /\ \A b \in S : /\ Live(b) /\ node'[b] = node[b]
                        /\ \A f \in Fields : node[b].refs[f] # Null => node[b].refs[f] \in S
      BY <2>1, <2>2, <2>3, <1>2
  <2> QED BY <2>4, SpellingKept
<1> QED BY <1>1, <1>2

\* A node of the stack, or none.
LEMMA StackRegion ==
    ASSUME StoreInv, NEW i \in 1 .. Len(yyvs), NEW old, yyvs[i] = Null \/ yyvs[i] # old
    PROVE  yyvs[i] \in Region(old) \cup {Null} /\ yyvs[i] \in Addr \cup {Null}
<1>1. yyvs[i] \in Addr \cup {Null}
    BY DEF StoreInv, StoreOK
<1>2. yyvs[i] # Null => node[yyvs[i]].type \in Types
    BY DEF StoreInv, StackLive
<1> QED BY <1>1, <1>2, StoreAssumption DEF Region, Live

\* A step pushes v for the last n values and gives back `old', which was one of them if it
\* was a node.
Replaced(n, v, old) ==
    /\ Push(n, v)
    /\ old = Null \/ \E i \in 1 .. Len(yyvs) : yyvs[i] = old
    /\ \A b \in Region(old) : node'[b] = node[b]
    /\ \A i \in 1 .. Len(yyvs) - n : yyvs[i] = Null \/ yyvs[i] # old

\* With a symbol, whose value is v after a step, on a stack that said s, it says r.
Tells(symbol, v, s, r) ==
    /\ symbol \notin Speaking => r = Then(s, Spelled'[v])
    /\ symbol \in Mute => r = s
    /\ symbol \in Speaking => r = Then(s, <<yytext'>>)

\* A symbol that is pushed and says what it should leaves the others what they said.
LEMMA PushTells ==
    ASSUME ParserInv, TreeOK, TreeOK', NEW q, Says(q), NEW n \in Nat, n <= Len(yyvs),
           NEW symbol \in Symbols, NEW v \in Addr \cup {Null}, NEW old, Replaced(n, v, old),
           syms' = Append(SubSeq(syms, 1, Len(syms) - n), symbol),
           NEW r \in Readings, r = Spoken'[Consumed'], Tells(symbol, v, q[Len(syms) - n], r)
    PROVE  \E new : Says(new)' /\ (Len(syms) = n => r = new[1] /\ Len(syms') = 1)
<1>0. /\ Push(n, v) /\ (old = Null \/ \E i \in 1 .. Len(yyvs) : yyvs[i] = old)
      /\ \A b \in Region(old) : node'[b] = node[b]
      /\ \A i \in 1 .. Len(yyvs) - n : yyvs[i] = Null \/ yyvs[i] # old
      /\ symbol \notin Speaking => r = Then(q[Len(syms) - n], Spelled'[v])
      /\ symbol \in Mute => r = q[Len(syms) - n]
      /\ symbol \in Speaking => r = Then(q[Len(syms) - n], <<yytext'>>)
    BY Zenon DEF Replaced, Tells
<1> USE <1>0
<1> HIDE DEF Spelled, Spoken, Consumed
<1>1. /\ StoreInv /\ Len(syms) = Len(yyvs)
      /\ syms \in Seq(Symbols) /\ yyvs \in Seq(Addr \cup {Null})
    BY DEF ParserInv, StoreInv, StoreOK
<1>2. PICK m \in Nat : m = Len(syms) /\ m = Len(yyvs)
    BY <1>1
<1>3. PICK k \in Nat : k = m - n /\ k <= m
    BY <1>2
<1>4. /\ Len(syms') = k + 1 /\ Len(yyvs') = k + 1 /\ Under' = symbol
      /\ \A j \in 1 .. k + 1 :
            \/ j \in 1 .. k /\ syms'[j] = syms[j] /\ yyvs'[j] = yyvs[j]
            \/ j = k + 1 /\ syms'[j] = symbol /\ yyvs'[j] = v
  <2>1. /\ Len(syms') = Len(syms) - n + 1 /\ Len(yyvs') = Len(syms')
        /\ \A j \in 1 .. Len(syms') :
              \/ j \in 1 .. Len(yyvs) - n /\ j \in 1 .. Len(syms)
                 /\ syms'[j] = syms[j] /\ yyvs'[j] = yyvs[j]
              \/ j = Len(syms') /\ syms'[j] = symbol /\ yyvs'[j] = v
      BY ZenonT(120), SymbolsPushed
  <2>2. /\ Len(syms) - n + 1 = k + 1 /\ Len(yyvs) - n = k
      BY <1>2, <1>3
  <2>3. Under' = symbol
      BY <1>1, UnderNext
  <2> QED BY <2>1, <2>2, <2>3
<1>5. /\ q \in [0 .. m -> Readings] /\ q[0] = Silence
      /\ \A i \in 1 .. m :
            /\ syms[i] \notin Speaking => q[i] = Then(q[i - 1], Spelled[yyvs[i]])
            /\ syms[i] \in Mute => q[i] = q[i - 1]
    BY <1>2 DEF Says
<1>6. PICK new : new = [i \in 0 .. k + 1 |-> IF i = k + 1 THEN r ELSE q[i]]
    OBVIOUS
<1>7. new \in [0 .. k + 1 -> Readings] /\ new[k + 1] = r /\ \A i \in 0 .. k : new[i] = q[i]
  <2>1. \A i \in 0 .. k + 1 : i # k + 1 => i \in 0 .. m /\ q[i] \in Readings
      BY SMTT(60), <1>3, <1>5
  <2>2. \A i \in 0 .. k + 1 : (IF i = k + 1 THEN r ELSE q[i]) \in Readings
      BY <2>1
  <2>3. k + 1 \in 0 .. k + 1 /\ \A i \in 0 .. k : i \in 0 .. k + 1 /\ i # k + 1
      OBVIOUS
  <2> QED BY <2>2, <2>3, <1>6
<1>8. /\ symbol \notin Speaking => r = Then(q[k], Spelled'[v])
      /\ symbol \in Mute => r = q[k]
      /\ symbol \in Speaking => r = Then(q[k], <<yytext'>>)
    BY <1>2, <1>3
<1>9. ASSUME NEW i \in 1 .. k PROVE Spelled'[yyvs[i]] = Spelled[yyvs[i]]
  <2>1. i \in 1 .. Len(yyvs) /\ i \in 1 .. Len(yyvs) - n
      BY <1>2, <1>3
  <2>2. yyvs[i] \in Region(old) \cup {Null}
      BY <2>1, <1>1, StackRegion
  <2>3. PICK w \in Region(old) \cup {Null} : w = yyvs[i]
      BY <2>2
  <2>4. Spelled'[w] = Spelled[w]
      BY <1>1, RegionSays
  <2> QED BY <2>3, <2>4
<1>10. ASSUME NEW i \in 1 .. k + 1
       PROVE  /\ syms'[i] \notin Speaking => new[i] = Then(new[i - 1], Spelled'[yyvs'[i]])
              /\ syms'[i] \in Mute => new[i] = new[i - 1]
  <2>1. CASE i \in 1 .. k /\ syms'[i] = syms[i] /\ yyvs'[i] = yyvs[i]
    <3>1. i \in 1 .. m /\ i \in 0 .. k /\ i - 1 \in 0 .. k
        BY Zenon, <2>1, <1>3, Places
    <3>2. new[i] = q[i] /\ new[i - 1] = q[i - 1]
        BY <3>1, <1>7
    <3> QED BY ZenonT(60), <2>1, <3>1, <3>2, <1>5, <1>9
  <2>2. CASE i = k + 1 /\ syms'[i] = symbol /\ yyvs'[i] = v
    <3>1. new[i - 1] = q[k] /\ new[i] = r
      <4>1. k \in 0 .. k /\ (k + 1) - 1 = k
          BY Zenon, Places
      <4> QED BY <4>1, <2>2, <1>7
    <3> QED BY <2>2, <3>1, <1>8
  <2> QED BY <2>1, <2>2, <1>4
<1>11. Says(new)'
  <2>1. new[0] = Silence
    <3>1. 0 \in 0 .. k
        BY Zenon, Places
    <3> QED BY <3>1, <1>5, <1>7
  <2>2. new[k + 1] = Spoken'[Consumed']
      BY <1>7
  <2>3. symbol \in Speaking => new[k + 1] = Then(new[(k + 1) - 1], <<yytext'>>)
    <3>1. k \in 0 .. k /\ (k + 1) - 1 = k
        BY Zenon, Places
    <3> QED BY <3>1, <1>7, <1>8
  <2> HIDE DEF Under
  <2> QED BY <2>1, <2>2, <2>3, <1>4, <1>7, <1>10 DEF Says
<1>12. Len(syms) = n => r = new[1] /\ Len(syms') = 1
  <2>1. ASSUME Len(syms) = n PROVE k + 1 = 1
    <3>1. m = n /\ m \in Nat /\ k \in Nat /\ k = m - n
        BY <2>1, <1>2, <1>3
    <3> QED BY ONLY <3>1
  <2>2. Len(syms') = k + 1 /\ new[k + 1] = r
      BY <1>4, <1>7
  <2> QED BY <2>1, <2>2
<1> QED BY <1>11, <1>12

\* The arguments of a complete production say what the last words say.
LEMMA ArgumentsTell ==
    ASSUME ParserInv, NEW p \in Productions, Handle(p), NEW n, n = Len(p.rhs), NEW q, Says(q)
    PROVE  \E r : ArgsTell(p, n, r) /\ r[n] = Spoken[Consumed] /\ r[0] = q[Len(syms) - n]
<1> HIDE DEF Spelled, Spoken, Consumed
<1>1. PICK m : m = Len(syms)
    OBVIOUS
<1>2. /\ syms \in Seq(Symbols) /\ Len(yyvs) = m /\ yyvs \in Seq(Addr \cup {Null})
      /\ n \in Nat \ {0} /\ n <= m /\ m \in Nat
      /\ \A i \in 1 .. n : p.rhs[i] = syms[m - n + i]
  <2>1. syms \in Seq(Symbols) /\ Len(yyvs) = Len(syms) /\ yyvs \in Seq(Addr \cup {Null})
      BY DEF ParserInv, StoreInv, StoreOK
  <2>2. /\ n \in Nat \ {0} /\ n <= Len(syms) /\ Len(syms) \in Nat
        /\ \A i \in 1 .. n : p.rhs[i] = syms[Len(syms) - n + i]
      BY <2>1, UnderHandle
  <2> QED BY <2>1, <2>2, <1>1
<1>3. \A i \in 1 .. n : Arg(n, i) = yyvs[m - n + i]
  <2> SUFFICES ASSUME NEW i \in 1 .. n PROVE Arg(n, i) = yyvs[m - n + i]
      OBVIOUS
  <2>1. Arg(n, i) = yyvs[Len(yyvs) - n + i]
      BY TheArgument
  <2> QED BY <2>1, <1>2
<1>4. /\ q \in [0 .. m -> Readings] /\ q[m] = Spoken[Consumed]
      /\ \A i \in 1 .. m :
            /\ syms[i] \notin Speaking => q[i] = Then(q[i - 1], Spelled[yyvs[i]])
            /\ syms[i] \in Mute => q[i] = q[i - 1]
      /\ Under \in Speaking => q[m] = Then(q[m - 1], <<yytext>>)
    BY <1>1 DEF Says
<1>5. PICK r : r = [i \in 0 .. n |-> q[m - n + i]]
    OBVIOUS
<1>6. \A i \in 0 .. n : m - n + i \in 0 .. m /\ r[i] = q[m - n + i]
    BY <1>2, <1>5
<1>7. r \in [0 .. n -> Readings]
    BY <1>4, <1>5, <1>6
<1>8. ASSUME NEW i \in 1 .. n
      PROVE  /\ p.rhs[i] \notin Speaking => r[i] = Then(r[i - 1], Spelled[Arg(n, i)])
             /\ p.rhs[i] \in Mute => r[i] = r[i - 1]
  <2>1. /\ m - n + i \in 1 .. m /\ i \in 0 .. n /\ i - 1 \in 0 .. n
        /\ (m - n + i) - 1 = m - n + (i - 1)
      BY <1>2
  <2>2. /\ r[i] = q[m - n + i] /\ r[i - 1] = q[(m - n + i) - 1]
        /\ Arg(n, i) = yyvs[m - n + i] /\ p.rhs[i] = syms[m - n + i]
    <3>1. r[i - 1] = q[m - n + (i - 1)] /\ r[i] = q[m - n + i]
        BY <2>1, <1>6
    <3> QED BY <3>1, <2>1, <1>2, <1>3
  <2> QED BY <2>1, <2>2, <1>4
<1>9. r[n] = q[m] /\ r[0] = q[m - n] /\ r[n - 1] = q[m - 1]
  <2>0. n \in Nat \ {0} /\ m \in Nat
      BY <1>2
  <2>1. /\ 0 \in 0 .. n /\ n \in 0 .. n /\ n - 1 \in 0 .. n /\ m - n + n = m /\ m - n + 0 = m - n
        /\ m - n + (n - 1) = m - 1
      BY ONLY <2>0
  <2>2. r[0] = q[m - n + 0] /\ r[n] = q[m - n + n] /\ r[n - 1] = q[m - n + (n - 1)]
      BY <2>1, <1>6
  <2> QED BY <2>1, <2>2
<1>10. p.rhs[n] = Under
    BY DEF Handle, Last
<1>11. ArgsTell(p, n, r)
    BY <1>4, <1>7, <1>8, <1>9, <1>10 DEF ArgsTell
<1> QED BY <1>1, <1>4, <1>9, <1>11

\* Nothing is said by mute arguments.
LEMMA MuteTells ==
    ASSUME NEW p \in Productions, NEW n \in Nat, NEW r, ArgsTell(p, n, r),
           \A i \in 1 .. n : p.rhs[i] \in Mute
    PROVE  r[n] = r[0]
<1>1. r \in [0 .. n -> Readings] /\ \A i \in 1 .. n : r[i] = r[i - 1]
    BY DEF ArgsTell
<1> DEFINE Good == {k \in Nat : k <= n => r[k] = r[0]}
<1>2. 0 \in Good
    OBVIOUS
<1>3. ASSUME NEW k \in Good PROVE k + 1 \in Good
  <2> SUFFICES ASSUME k + 1 <= n PROVE r[k + 1] = r[0]
      OBVIOUS
  <2>1. k + 1 \in 1 .. n /\ (k + 1) - 1 = k /\ r[k] = r[0]
      OBVIOUS
  <2> QED BY <2>1, <1>1
<1>4. Good = Nat
  <2> HIDE DEF Good
  <2>1. Good \in SUBSET Nat
      BY DEF Good
  <2> QED BY <2>1, <1>2, <1>3, Induction
<1> QED BY <1>4

-----------------------------------------------------------------------------
(***************************************************************************)
(* What the actions make says what their arguments say.                    *)
(***************************************************************************)
\* A node that holds at most one other says its own text and what that says, and one that
\* holds none its own text.
OnesOK ==
    \A a \in Addr : \A f \in Fields :
        (\A g \in Fields : g # f => node[a].refs[g] = Null) =>
            Spelled[a] = Then(Own(a), Spelled[node[a].refs[f]])
LeavesOK ==
    \A a \in Addr : (\A g \in Fields : node[a].refs[g] = Null) => Spelled[a] = Own(a)

\* The first in any tree,
LEMMA OnesSay == TreeOK => OnesOK
<1> HIDE DEF Spelled
<1> SUFFICES ASSUME TreeOK, NEW a \in Addr, NEW f \in Fields,
                    \A g \in Fields : g # f => node[a].refs[g] = Null
             PROVE  Spelled[a] = Then(Own(a), Spelled[node[a].refs[f]])
    BY DEF OnesOK
<1>1. SpellOK /\ NodesOK
    BY SpellingIs DEF TreeOK
<1>2. PICK X : X = ReadFrom(Spelled, a)
    OBVIOUS
<1>3. PICK L \in Nat : L = Len(FieldOrder) /\ DOMAIN FieldOrder = 1 .. L
    BY TellingAssumption
<1>4. X \in [1 .. L -> Readings]
    BY <1>1, <1>2, <1>3, ReadTyped DEF SpellOK
<1>5. \A i \in 1 .. L : X[i] = Spelled[node[a].refs[FieldOrder[i]]] /\ FieldOrder[i] \in Fields
    BY <1>2, <1>3, TellingAssumption DEF ReadFrom
<1>6. PICK m \in 1 .. L : FieldOrder[m] = f
  <2>1. f \in ToSet(FieldOrder)
      BY ParserAssumption
  <2> QED BY <2>1, <1>3 DEF ToSet
<1>7. ASSUME NEW i \in 1 .. L, i # m PROVE X[i] = Silence
  <2>1. FieldOrder[i] # f
      BY <1>3, <1>6, <1>7, TellingAssumption
  <2> QED BY <2>1, <1>1, <1>5 DEF SpellOK
<1>8. PICK F : Joins(F, X, L)
    BY <1>4, JoinExists
<1>9. m \in Nat /\ 1 <= m /\ m <= L /\ L \in 0 .. L
    BY <1>3
<1>10. F[L] = X[m]
  <2>1. \A i \in 0 .. L : F[i] = IF 1 <= m /\ m <= i THEN X[m] ELSE Silence
      BY <1>7, <1>8, <1>9, JoinOne
  <2> QED BY <2>1, <1>9
<1>11. FlattenSeq(X) = F[L]
    BY <1>8, JoinIs
<1>12. Spelled[a] = Then(Own(a), FlattenSeq(X))
    BY <1>1, <1>2 DEF SpellOK
<1> QED BY <1>5, <1>6, <1>10, <1>11, <1>12

\* ... also after a step,
LEMMA OnesSayNext == TreeOK' => OnesOK'
    BY OnesSay, PTL

\* and so the second,
LEMMA LeavesSay == TreeOK => LeavesOK
<1> HIDE DEF Spelled
<1> SUFFICES ASSUME TreeOK, NEW a \in Addr, \A g \in Fields : node[a].refs[g] = Null
             PROVE  Spelled[a] = Own(a)
    BY DEF LeavesOK
<1>1. IdField \in Fields
    BY ParserAssumption
<1>2. Spelled[a] = Then(Own(a), Spelled[node[a].refs[IdField]])
    BY <1>1, OnesSay DEF OnesOK
<1>3. Spelled[Null] = Silence /\ NodesOK /\ Spelled \in [Addr \cup {Null} -> Readings]
    BY SpellingIs DEF SpellOK, TreeOK
<1>4. Own(a) \in Readings
    BY <1>3, ReadTyped
<1> QED BY <1>1, <1>2, <1>3, <1>4, ThenIs

\* also after a step.
LEMMA LeavesSayNext == TreeOK' => LeavesOK'
    BY LeavesSay, PTL

\* Which arguments are nodes.
LEMMA UsedAre ==
    ASSUME NEW p \in Productions, NEW j \in 1 .. Len(p.rhs), j \in Used(p)
    PROVE  p.rhs[j] \in Types /\ p.rhs[j] \notin Speaking
<1>1. p.op # "value" /\ p.lhs \in Types
    BY ParserAssumption DEF Used, ProductionOK
<1>2. ASSUME NEW f \in DOMAIN p.refs, p.refs[f] = j PROVE p.rhs[j] \in Types
  <2>1. j # 0
      OBVIOUS
  <2>2. <<f, p.rhs[j]>> \in Leading
      BY <1>2, <2>1, FittingAssumption DEF Fitting
  <2> QED BY <2>2 DEF Leading
<1>3. ASSUME p.op = "UN", p.arg = j PROVE p.rhs[j] \in Types
    BY <1>1, <1>3, ParserAssumption, TopAssumption DEF ProductionOK
<1>4. p.rhs[j] \in Types
    BY <1>2, <1>3 DEF Used
<1>5. \A t \in Speaking : t \notin Types
    BY TellingAssumption, ParserAssumption DEF Tokens
<1> QED BY <1>4, <1>5

\* Arguments other than the one that is given back say what they said.
LEMMA ArgumentSays ==
    ASSUME ParserInv, TreeOK, TreeOK', NEW p \in Productions, Handle(p), NEW n, n = Len(p.rhs),
           NEW old, old = Null \/ \E i \in 1 .. Len(yyvs) : yyvs[i] = old,
           \A b \in Region(old) : node'[b] = node[b],
           old # Null => p.arg \in 1 .. n /\ old = Arg(n, p.arg),
           NEW j \in 1 .. n, old # Null => j # p.arg
    PROVE  Spelled'[Arg(n, j)] = Spelled[Arg(n, j)] /\ Arg(n, j) \in Addr \cup {Null}
<1> HIDE DEF Spelled
<1>1. Len(yyvs) - n + j \in 1 .. Len(yyvs) /\ Arg(n, j) = yyvs[Len(yyvs) - n + j]
    BY TheArgument
<1>2. PICK i \in 1 .. Len(yyvs) : Arg(n, j) = yyvs[i]
    BY <1>1
<1>3. yyvs[i] = Null \/ yyvs[i] # old
  <2>1. CASE old = Null
      BY <2>1
  <2>2. CASE old # Null
    <3>1. Arg(n, p.arg) # Arg(n, j)
        BY <2>2, NodesDiffer
    <3> QED BY <3>1, <2>2, <1>2
  <2> QED BY <2>1, <2>2
<1>4. yyvs[i] \in Region(old) \cup {Null} /\ yyvs[i] \in Addr \cup {Null}
    BY <1>3, StackRegion DEF ParserInv
<1>5. PICK v \in Region(old) \cup {Null} : v = Arg(n, j)
    BY <1>2, <1>4
<1>6. Spelled'[v] = Spelled[v]
    BY RegionSays DEF ParserInv
<1> QED BY <1>2, <1>4, <1>5, <1>6

\* What an action with nodes for arguments makes: its own text is none, and its fields hold
\* the arguments and what an upgraded node held.
LEMMA MadeTells ==
    ASSUME ParserInv, TreeOK, TreeOK', NEW p \in Productions, Handle(p),
           p.op # "value", p.lhs # "identifier", 0 \notin Used(p),
           NEW n, n = Len(p.rhs), NEW r, ArgsTell(p, n, r),
           NEW old, old = Null \/ \E i \in 1 .. Len(yyvs) : yyvs[i] = old,
           \A b \in Region(old) : node'[b] = node[b],
           NEW a \in Addr, node'[a].text \in {NoText, Typedef},
           \A f \in DOMAIN p.refs : node'[a].refs[f] = Arg(n, p.refs[f]),
           p.op = "NN" => old = Null /\ \A f \in Fields \ DOMAIN p.refs : node'[a].refs[f] = Null,
           p.op = "UN" =>
               /\ old \in Addr /\ Live(old) /\ p.arg \in 1 .. n /\ old = Arg(n, p.arg)
               /\ node[old].text \in {NoText, Typedef}
               /\ \A f \in Fields \ DOMAIN p.refs : node'[a].refs[f] = node[old].refs[f]
               /\ \A f \in DOMAIN p.refs : node[old].refs[f] = Null
               /\ \A f \in Fields : node[old].refs[f] # Null => <<p.rhs[p.arg], f>> \in Owning
    PROVE  r[n] = Then(r[0], Spelled'[a])
<1> HIDE DEF Spelled
<1>1. /\ SpellOK /\ SpellOK' /\ NodesOK /\ NodesOK' /\ StoreInv
    BY SpellingIs, SpellingIsNext DEF TreeOK, ParserInv
<1>2. /\ Spelled \in [Addr \cup {Null} -> Readings] /\ Spelled' \in [Addr \cup {Null} -> Readings]
      /\ Spelled[Null] = Silence /\ Spelled'[Null] = Silence
    BY <1>1 DEF SpellOK
<1>3. /\ n \in Nat \ {0} /\ DOMAIN p.refs \subseteq Fields /\ p.op \in {"NN", "UN"}
      /\ \A f \in DOMAIN p.refs : p.refs[f] \in 1 .. n /\ p.refs[f] \in Used(p)
      /\ \A f \in DOMAIN p.refs : p.op = "UN" => p.refs[f] # p.arg
  <2>1. /\ n \in Nat \ {0} /\ DOMAIN p.refs \subseteq Fields /\ p.op \in {"NN", "UN"}
        /\ \A f \in DOMAIN p.refs : p.refs[f] \in 0 .. n
        /\ \A f \in DOMAIN p.refs : p.op = "UN" => p.refs[f] # p.arg
      BY ParserAssumption DEF ProductionOK
  <2>2. \A f \in DOMAIN p.refs : p.refs[f] \in Used(p)
      BY DEF Used
  <2> QED BY <2>1, <2>2
<1>4. PICK L \in Nat : L = Len(FieldOrder) /\ \A i \in 1 .. L : FieldOrder[i] \in Fields
    BY TellingAssumption
<1>5. PICK X : X = ReadFrom(Spelled, a)'
    OBVIOUS
<1>6. \A i \in 1 .. L : X[i] = Spelled'[node'[a].refs[FieldOrder[i]]]
    BY <1>4, <1>5 DEF ReadFrom
<1>7. X \in [1 .. L -> Readings]
  <2>1. \A i \in 1 .. L : node'[a].refs[FieldOrder[i]] \in Addr \cup {Null}
      BY <1>1, <1>4 DEF NodesOK, Nodes
  <2>2. X = [i \in 1 .. L |-> Spelled'[node'[a].refs[FieldOrder[i]]]]
      BY <1>4, <1>5 DEF ReadFrom
  <2> QED BY <2>1, <2>2, <1>2
<1>8. PICK S : S = [j \in 1 .. n |-> IF j \in Used(p) THEN Spelled[Arg(n, j)] ELSE Silence]
    OBVIOUS
<1>9. S \in [1 .. n -> Readings]
  <2>1. \A j \in 1 .. n : Arg(n, j) \in Addr \cup {Null}
      BY TheArgument
  <2>2. \A j \in 1 .. n : (IF j \in Used(p) THEN Spelled[Arg(n, j)] ELSE Silence) \in Readings
      BY <2>1, <1>2, ThenIs
  <2> QED BY <2>2, <1>8
<1>10. PICK T : Joins(T, S, n)
    BY <1>3, <1>9, JoinExists
<1>11. r \in [0 .. n -> Readings] /\ r[0] \in Readings
  <2>1. r \in [0 .. n -> Readings] /\ 0 \in 0 .. n
      BY <1>3 DEF ArgsTell
  <2> QED BY <2>1
<1>12. ASSUME NEW i \in 1 .. n PROVE r[i] = Then(r[i - 1], S[i])
  <2>1. CASE i \in Used(p)
    <3>1. p.rhs[i] \notin Speaking
        BY <2>1, UsedAre
    <3>2. r[i] = Then(r[i - 1], Spelled[Arg(n, i)])
        BY <3>1 DEF ArgsTell
    <3> QED BY <3>2, <2>1, <1>8
  <2>2. CASE i \notin Used(p)
    <3>1. p.rhs[i] \in Mute
        BY <2>2, TellingAssumption DEF TellingOK
    <3>2. r[i] = r[i - 1]
        BY <3>1 DEF ArgsTell
    <3>3. r[i - 1] \in Readings
      <4>1. i - 1 \in 0 .. n
          BY <1>3
      <4> QED BY <4>1, <1>11
    <3>4. S[i] = Silence
        BY <2>2, <1>8
    <3> QED BY <3>2, <3>3, <3>4, ThenIs
  <2> QED BY <2>1, <2>2
<1>13. r[n] = Then(r[0], T[n])
    BY <1>10, <1>11, <1>12, JoinAfter
<1>14. ASSUME NEW i \in 1 .. L, FieldOrder[i] \in DOMAIN p.refs
       PROVE  X[i] = S[p.refs[FieldOrder[i]]]
  <2>1. PICK j \in 1 .. n : j = p.refs[FieldOrder[i]] /\ j \in Used(p) /\ (p.op = "UN" => j # p.arg)
      BY <1>3, <1>14
  <2>2. Spelled'[Arg(n, j)] = Spelled[Arg(n, j)]
    <3>1. old # Null => p.arg \in 1 .. n /\ old = Arg(n, p.arg) /\ j # p.arg
        BY <2>1, <1>3
    <3> QED BY SMTT(60), <3>1, ArgumentSays
  <2>3. X[i] = Spelled'[Arg(n, j)]
      BY <2>1, <1>6, <1>14
  <2> QED BY <2>1, <2>2, <2>3, <1>8
<1>15. ASSUME NEW i \in 1 .. L, FieldOrder[i] \notin DOMAIN p.refs, X[i] # Silence
       PROVE  p.op = "UN" /\ <<p.rhs[p.arg], FieldOrder[i]>> \in Owning
  <2>1. FieldOrder[i] \in Fields \ DOMAIN p.refs /\ node'[a].refs[FieldOrder[i]] # Null
      BY <1>2, <1>4, <1>6, <1>15
  <2>2. p.op = "UN"
      BY <2>1, <1>3
  <2>3. node[old].refs[FieldOrder[i]] # Null
      BY <2>1, <2>2
  <2> QED BY <2>1, <2>2, <2>3
<1>16. \A j \in 1 .. n : j \notin Used(p) => S[j] = Silence
    BY <1>8
<1>17. PICK Y : Y = [i \in 1 .. L |-> IF FieldOrder[i] \in DOMAIN p.refs THEN Silence ELSE X[i]]
    OBVIOUS
<1>18. ASSUME p.op = "UN" PROVE \E G : Joins(G, Y, L) /\ G[L] = S[p.arg]
  <2>1. PICK Z : Z = ReadFrom(Spelled, old)
      OBVIOUS
  <2>2. /\ Z = [i \in 1 .. L |-> Spelled[node[old].refs[FieldOrder[i]]]]
        /\ Z \in [1 .. L -> Readings]
    <3>1. old \in Addr
        BY <1>18
    <3> QED BY ZenonT(60), <3>1, <2>1, <1>1, <1>2, <1>4, ReadTyped DEF ReadFrom
  <2>3. ASSUME NEW i \in 1 .. L PROVE Y[i] = Z[i]
    <3>1. Z[i] = Spelled[node[old].refs[FieldOrder[i]]] /\ FieldOrder[i] \in Fields
        BY <2>2, <1>4
    <3>2. CASE FieldOrder[i] \in DOMAIN p.refs
      <4>1. node[old].refs[FieldOrder[i]] = Null
          BY <3>2, <1>18
      <4> QED BY <4>1, <3>1, <3>2, <1>2, <1>17
    <3>3. CASE FieldOrder[i] \notin DOMAIN p.refs
      <4>1. Y[i] = Spelled'[node[old].refs[FieldOrder[i]]]
          BY <3>1, <3>3, <1>6, <1>17, <1>18
      <4>2. PICK w : w = node[old].refs[FieldOrder[i]]
          OBVIOUS
      <4>3. w \in Region(old) \cup {Null}
        <5>1. old \in Addr /\ Live(old)
            BY <1>18
        <5> QED BY <5>1, <4>2, <3>1, <1>1, RegionClosed
      <4>4. Spelled'[w] = Spelled[w]
          BY <4>3, <1>1, RegionSays
      <4> QED BY SMTT(60), <4>1, <4>2, <4>4, <3>1
    <3> QED BY <3>2, <3>3
  <2>4. Y = Z
      BY <2>2, <2>3, <1>17
  <2>5. PICK G : Joins(G, Z, L)
      BY <2>2, JoinExists
  <2>6. FlattenSeq(Z) = G[L] /\ G[L] \in Readings
      BY <2>5, JoinIs
  <2>7. Own(old) = Silence
      BY <1>18 DEF Own
  <2>8. Spelled[old] = G[L]
    <3>1. Spelled[old] = Then(Own(old), FlattenSeq(Z))
        BY <2>1, <1>1, <1>18 DEF SpellOK
    <3> QED BY <3>1, <2>6, <2>7, ThenIs
  <2>9. S[p.arg] = Spelled[old]
    <3>1. p.arg \in 1 .. n /\ p.arg \in Used(p) /\ old = Arg(n, p.arg)
        BY <1>18 DEF Used
    <3> QED BY <3>1, <1>8
  <2> QED BY <2>4, <2>5, <2>8, <2>9
<1>19. FlattenSeq(X) = T[n]
  <2>1. Filled(p, n, L, X, S, T, Y)
      BY <1>4, <1>7, <1>10, <1>14, <1>15, <1>16, <1>17, <1>18 DEF Filled
  <2> QED BY <2>1, LaidOut
<1>20. T[n] \in Readings
    BY <1>10, JoinIs
<1>21. Spelled'[a] = T[n]
  <2>1. Spelled'[a] = Then(Own(a)', FlattenSeq(X))
      BY <1>1, <1>5 DEF SpellOK
  <2>2. Own(a)' = Silence
      BY DEF Own
  <2> QED BY <2>1, <2>2, <1>19, <1>20, ThenIs
<1> QED BY <1>13, <1>21

-----------------------------------------------------------------------------
(***************************************************************************)
(* What an action leaves on the stack says what its arguments said.        *)
(***************************************************************************)
\* Only names, and interned strings, have a text of their own.
Plain == \A a \in Addr : node[a].type \in Types \ {"identifier"} => node[a].text \in {NoText, Typedef}

\* The text of a name or a string that is not in the tree yet is one that a node keeps.
LastTells == Under \in Speaking => yytext \in Texts \ {Typedef}

\* A single argument.
LEMMA OneTells ==
    ASSUME NEW p \in Productions, NEW n, n = Len(p.rhs), NEW r, ArgsTell(p, n, r),
           NEW s \in Speaking, p.rhs = <<s>>, Handle(p)
    PROVE  n = 1 /\ p.rhs[1] = s /\ Under \in Speaking /\ r[n] = Then(r[0], <<yytext>>) /\ r[0] \in Readings
<1>1. Len(<<s>>) = 1 /\ <<s>>[1] = s
    OBVIOUS
<1>2. n = 1 /\ p.rhs[1] = s
    BY <1>1
<1>3. Under = s
    BY <1>2 DEF Handle, Last
<1>4. r[1] = Then(r[1 - 1], <<yytext>>) /\ r \in [0 .. 1 -> Readings]
    BY <1>2 DEF ArgsTell
<1>5. 0 \in 0 .. 1 /\ 1 - 1 = 0
    OBVIOUS
<1> QED BY <1>2, <1>3, <1>4, <1>5

\* A name says its word.
LEMMA NameTells ==
    ASSUME ParserInv, TreeOK', LastTells, NEW p \in Productions, Handle(p), p.lhs = "identifier",
           NEW n, n = Len(p.rhs), NEW r, ArgsTell(p, n, r),
           NEW a \in Addr, node'[a].text = TextOf(p), node'[a].refs = RefsOf(p)
    PROVE  r[n] = Then(r[0], Spelled'[a])
<1> HIDE DEF Spelled
<1>1. p.rhs = <<"IDENTIFIER">> /\ DOMAIN p.refs = {}
    BY PhraseAssumption, TellingAssumption DEF FirstsOK, TellingOK
<1>2. "IDENTIFIER" \in Speaking
    BY DEF Speaking
<1>3. Under \in Speaking /\ r[n] = Then(r[0], <<yytext>>) /\ p.rhs[1] = "IDENTIFIER"
    BY <1>1, <1>2, OneTells
<1>4. TextOf(p) = yytext
    BY <1>3 DEF TextOf
<1>5. Own(a)' = <<yytext>>
  <2>1. yytext \in Texts \ {Typedef} /\ yytext # NoText
      BY <1>3, StoreAssumption DEF LastTells
  <2> QED BY <2>1, <1>4 DEF Own
<1>6. \A f \in Fields : node'[a].refs[f] = Null
    BY <1>1 DEF RefsOf
<1>7. Spelled'[a] = Own(a)'
    BY <1>6, LeavesSayNext DEF LeavesOK
<1> QED BY <1>3, <1>5, <1>7

\* A string is in the table when it is put into a node, and says its word.
LEMMA StringTells ==
    ASSUME ParserInv, FitsSchema, TreeOK, TreeOK', LastTells,
           NEW p \in Productions, Handle(p), p.lhs # "identifier", 0 \in Used(p), ~NeedsString(p),
           NEW n, n = Len(p.rhs), NEW r, ArgsTell(p, n, r),
           \A b \in Region(Null) : node'[b] = node[b],
           NEW a \in Addr, node'[a].text = TextOf(p), node'[a].refs = RefsOf(p)
    PROVE  r[n] = Then(r[0], Spelled'[a])
<1> HIDE DEF Spelled
<1>1. PICK f \in DOMAIN p.refs : p.refs[f] = 0
  <2>1. p.op = "UN" => p.arg # 0
      BY ParserAssumption DEF ProductionOK
  <2> QED BY <2>1 DEF Used
<1>2. /\ DOMAIN p.refs = {f} /\ p.rhs = <<"STRING">> /\ f \in Fields
      /\ p.rhs = <<"STRING">> => p.rhs[1] = "STRING"
    BY <1>1, TellingAssumption, PhraseAssumption, ParserAssumption
       DEF TellingOK, CausesOK, ProductionOK
<1>3. "STRING" \in Speaking
    BY DEF Speaking
<1>4. Under \in Speaking /\ r[n] = Then(r[0], <<yytext>>) /\ p.rhs[1] = "STRING"
    BY ZenonT(60), <1>2, <1>3, OneTells
<1>5. yytext \in Texts \ {Typedef} /\ yytext # NoText
    BY <1>4, StoreAssumption DEF LastTells
<1>6. PICK s : s = strings[yytext]
    OBVIOUS
<1>7. s \in Addr /\ node[s].type = Unset /\ node[s].text = yytext /\ Live(s)
  <2>1. s # Null
      BY <1>1, <1>6 DEF NeedsString
  <2>2. s \in Addr
      BY <2>1, <1>5, <1>6 DEF ParserInv, StoreInv, StoreOK
  <2>3. node[s].type = Unset /\ node[s].text = yytext
      BY <2>1, <1>5, <1>6 DEF ParserInv, StoreInv, Interned
  <2> QED BY <2>2, <2>3, StoreAssumption DEF Live
<1>8. \A g \in Fields : node[s].refs[g] = Null
  <2> SUFFICES ASSUME NEW g \in Fields, node[s].refs[g] # Null PROVE FALSE
      OBVIOUS
  <2>1. <<node[s].type, g>> \in Owning
      BY <1>7 DEF FitsSchema, Live
  <2>2. Unset \in Types
      BY <2>1, <1>7 DEF Owning
  <2> QED BY <2>2, StoreAssumption
<1>9. Own(s) = <<yytext>>
    BY <1>5, <1>7 DEF Own
<1>10. Spelled[s] = <<yytext>>
    BY <1>7, <1>8, <1>9, LeavesSay DEF LeavesOK
<1>11. Spelled'[s] = Spelled[s]
  <2>1. StoreInv /\ s \in Region(Null) \cup {Null}
      BY <1>7, StoreAssumption DEF Region, ParserInv
  <2> QED BY <2>1, RegionSays
<1>12. node'[a].refs[f] = s /\ \A g \in Fields : g # f => node'[a].refs[g] = Null
    BY <1>1, <1>2, <1>6 DEF RefsOf
<1>13. Own(a)' = Silence
  <2>1. TextOf(p) = NoText
      BY <1>4 DEF TextOf
  <2> QED BY <2>1 DEF Own
<1>14. Spelled'[a] = Then(Own(a)', Spelled'[s])
    BY <1>2, <1>12, OnesSayNext DEF OnesOK
<1>15. <<yytext>> \in Readings
    BY <1>5, OneWord
<1>16. Spelled'[a] = <<yytext>>
    BY <1>10, <1>11, <1>13, <1>14, <1>15, ThenIs
<1> QED BY <1>4, <1>16

\* A new node says what its arguments say.
LEMMA NewTells ==
    ASSUME ParserInv, FitsSchema, TreeOK, TreeOK', LastTells,
           NEW p \in Productions, Reduce(p), p.op = "NN", NEW n, n = Len(p.rhs),
           NEW r, ArgsTell(p, n, r), NEW a \in Fresh, NN(a, p.lhs, TextOf(p), n, RefsOf(p))
    PROVE  /\ a \in Addr /\ r[n] = Then(r[0], Spelled'[a])
           /\ \A b \in Region(Null) : node'[b] = node[b]
<1> HIDE DEF Spelled
<1> DEFINE made == [type |-> p.lhs, text |-> TextOf(p), refs |-> RefsOf(p)]
<1>1. node' = [node EXCEPT ![a] = made] /\ a \in Addr /\ node[a].type = Free
    BY Zenon DEF NN, Allocated, Fresh
<1>2. node \in [Addr -> Nodes] /\ Handle(p) /\ ~NeedsString(p)
    BY DEF ParserInv, StoreInv, StoreOK, Nodes, Reduce, Ready
<1>3. made.text = TextOf(p) /\ made.refs = RefsOf(p)
    OBVIOUS
<1> HIDE DEF made
<1>4. node'[a].text = TextOf(p) /\ node'[a].refs = RefsOf(p)
    BY <1>1, <1>2, <1>3
<1>5. \A b \in Region(Null) : node'[b] = node[b]
    BY <1>1, <1>2 DEF Region, Live
<1>6. CASE p.lhs = "identifier"
  <2>1. r[n] = Then(r[0], Spelled'[a])
      BY <1>1, <1>2, <1>4, <1>6, NameTells
  <2> QED BY <2>1, <1>1, <1>5
<1>7. CASE p.lhs # "identifier" /\ 0 \in Used(p)
  <2>1. r[n] = Then(r[0], Spelled'[a])
      BY <1>1, <1>2, <1>4, <1>5, <1>7, StringTells
  <2> QED BY <2>1, <1>1, <1>5
<1>8. CASE p.lhs # "identifier" /\ 0 \notin Used(p)
  <2>1. node'[a].text \in {NoText, Typedef}
      BY <1>4, <1>8 DEF TextOf
  <2>2. DOMAIN p.refs \subseteq Fields /\ \A f \in DOMAIN p.refs : p.refs[f] # 0
    <3>1. \A f \in DOMAIN p.refs : p.refs[f] \in Used(p)
        BY DEF Used
    <3> QED BY <3>1, <1>8, ParserAssumption DEF ProductionOK
  <2>3. /\ \A f \in DOMAIN p.refs : node'[a].refs[f] = Arg(n, p.refs[f])
        /\ \A f \in Fields \ DOMAIN p.refs : node'[a].refs[f] = Null
      BY <2>2, <1>4 DEF RefsOf
  <2>4. r[n] = Then(r[0], Spelled'[a])
    <3>1. PICK old : old = Null
        OBVIOUS
    <3>2. \A b \in Region(old) : node'[b] = node[b]
        BY <3>1, <1>5
    <3>3. p.op # "value" /\ p.op # "UN"
        OBVIOUS
    <3> QED BY <3>1, <3>2, <3>3, <2>1, <2>3, <1>1, <1>2, <1>8, MadeTells
  <2> QED BY <2>4, <1>1, <1>5
<1> QED BY <1>6, <1>7, <1>8

\* So does an upgraded one.
LEMMA UpgradedTells ==
    ASSUME TreeInv, TreeOK, TreeOK', Plain,
           NEW p \in Productions, Reduce(p), p.op = "UN", NEW n, n = Len(p.rhs),
           NEW r, ArgsTell(p, n, r), NEW old, old = Arg(n, p.arg), NEW a \in Grown(old),
           UN(a, p.lhs, n, p.arg, RefsOf(p))
    PROVE  /\ a \in Addr /\ r[n] = Then(r[0], Spelled'[a])
           /\ \E i \in 1 .. Len(yyvs) : yyvs[i] = old
           /\ \A b \in Region(old) : node'[b] = node[b]
<1> HIDE DEF Spelled
<1> DEFINE made == [type |-> p.lhs, text |-> node[old].text, refs |-> Copied(old, RefsOf(p))]
<1>1. /\ node' = [node EXCEPT ![old] = FreeNode, ![a] = made]
      /\ old # Null /\ (a = old \/ node[a].type = Free)
    BY Zenon DEF UN
<1>2. /\ made.text = node[old].text /\ made.refs = Copied(old, RefsOf(p))
    OBVIOUS
<1> HIDE DEF made
<1>3. /\ ParserInv /\ FitsSchema /\ node \in [Addr -> Nodes] /\ Handle(p)
    BY DEF TreeInv, ParserInv, StoreInv, StoreOK, Nodes, Reduce, Ready
<1>4. /\ p.arg \in 1 .. n /\ old \in Addr /\ node[old].type \in Types
      /\ \E i \in 1 .. Len(yyvs) : yyvs[i] = old
      /\ \A f \in Fields : Copied(old, RefsOf(p))[f] =
            IF f \in DOMAIN p.refs THEN Arg(n, p.refs[f]) ELSE node[old].refs[f]
      /\ \A f \in DOMAIN p.refs : f \in Fields /\ node[old].refs[f] = Null
    BY <1>1, <1>3, UNRefs
<1>5. a \in Addr
    BY <1>4 DEF Grown, Fresh
<1>6. node'[a].text = node[old].text /\ node'[a].refs = Copied(old, RefsOf(p))
    BY <1>1, <1>2, <1>3, <1>5
<1>7. \A b \in Region(old) : node'[b] = node[b]
    BY <1>1, <1>3 DEF Region, Live
<1>8. node[old].type = p.rhs[p.arg]
    BY <1>1, <1>3, <1>4, TheNode
<1>9. node[old].text \in {NoText, Typedef}
  <2>1. p.rhs[p.arg] # "identifier"
      BY TellingAssumption DEF TellingOK
  <2> QED BY <2>1, <1>4, <1>8 DEF Plain
<1>10. p.lhs # "identifier" /\ 0 \notin Used(p) /\ p.op # "value" /\ p.op # "NN"
  <2>1. p.lhs # "identifier"
      BY PhraseAssumption DEF FirstsOK
  <2>2. p.arg # 0 /\ \A f \in DOMAIN p.refs : p.refs[f] # 0
      BY ParserAssumption DEF ProductionOK
  <2> QED BY <2>1, <2>2 DEF Used
<1>11. Live(old)
    BY <1>4, StoreAssumption DEF Live
<1>12. \A f \in Fields : node[old].refs[f] # Null => <<p.rhs[p.arg], f>> \in Owning
    BY <1>3, <1>4, <1>8, <1>11 DEF FitsSchema, Live
<1>13. /\ \A f \in DOMAIN p.refs : node'[a].refs[f] = Arg(n, p.refs[f])
       /\ \A f \in Fields \ DOMAIN p.refs : node'[a].refs[f] = node[old].refs[f]
       /\ \A f \in DOMAIN p.refs : node[old].refs[f] = Null
       /\ node'[a].text \in {NoText, Typedef}
    BY <1>4, <1>6, <1>9
<1>14. r[n] = Then(r[0], Spelled'[a])
    BY <1>3, <1>4, <1>5, <1>7, <1>9, <1>10, <1>11, <1>12, <1>13, MadeTells
<1> QED BY <1>4, <1>5, <1>7, <1>14

-----------------------------------------------------------------------------
(***************************************************************************)
(* A reduction.                                                            *)
(***************************************************************************)
\* What is pushed says what the words of the right side say.
LEMMA ReducedTells ==
    ASSUME ParserInv, TreeOK, TreeOK', NEW p \in Productions, Reduce(p), NEW n, n = Len(p.rhs),
           NEW q, Says(q), NEW r, ArgsTell(p, n, r), r[n] = Spoken[Consumed],
           r[0] = q[Len(syms) - n], NEW v \in Addr \cup {Null}, NEW old, Replaced(n, v, old),
           r[n] = Then(r[0], Spelled'[v])
    PROVE  \E new : Says(new)' /\ (Len(syms) = n => Spoken[Consumed] = new[1] /\ Len(syms') = 1)
<1> HIDE DEF Spelled
<1>1. /\ Handle(p) /\ source' = source /\ la' = la
      /\ syms' = Append(SubSeq(syms, 1, Len(syms) - n), p.lhs)
    BY DEF Reduce, Ready
<1>2. n \in Nat \ {0} /\ n <= Len(yyvs)
    BY <1>1, UnderHandle DEF ParserInv
<1>3. p.lhs \in Symbols /\ p.lhs \notin Speaking
  <2>1. p.lhs \in Phrases /\ Tokens \cap Phrases = {} /\ Speaking \subseteq Tokens
      BY ShapeAssumption, TellingAssumption DEF Phrases
  <2> QED BY <2>1, SymbolsAre
<1>4. Spoken'[Consumed'] = Spoken[Consumed]
    BY <1>1 DEF Spoken, Consumed
<1> HIDE DEF Spoken, Consumed
<1>5. p.lhs \in Mute => r[n] = r[0]
  <2>1. p.lhs \in Mute => \A i \in 1 .. n : p.rhs[i] \in Mute
      BY TellingAssumption DEF TellingOK
  <2> QED BY <2>1, <1>2, MuteTells
<1>6. PICK s : s = Spoken[Consumed]
    OBVIOUS
<1>7. /\ s \in Readings /\ s = Spoken'[Consumed']
      /\ Tells(p.lhs, v, q[Len(syms) - n], s)
  <2>1. n \in 0 .. n
      BY <1>2
  <2>2. s \in Readings
      BY <2>1, <1>6 DEF ArgsTell
  <2> QED BY <2>2, <1>3, <1>4, <1>5, <1>6 DEF Tells
<1>8. \E new : Says(new)' /\ (Len(syms) = n => s = new[1] /\ Len(syms') = 1)
    BY ZenonT(60), <1>1, <1>2, <1>3, <1>7, PushTells
<1> QED BY <1>6, <1>8

\* So after every reduction the stack says what has been read.
LEMMA ReduceSays ==
    ASSUME TreeInv, TreeOK, TreeOK', Plain, LastTells, NEW p \in Productions, Reduce(p),
           NEW n, n = Len(p.rhs), Said
    PROVE  \E new : Says(new)' /\ (Len(syms) = n => Spoken[Consumed] = new[1] /\ Len(syms') = 1)
<1> HIDE DEF Spelled, Spoken, Consumed
<1>1. /\ ParserInv /\ FitsSchema /\ StoreInv /\ StackOnce /\ Handle(p) /\ Act(p)
    BY DEF TreeInv, ParserInv, StoreInv, Reduce, Ready
<1>2. PICK q : Says(q)
    BY DEF Said
<1>3. PICK r : ArgsTell(p, n, r) /\ r[n] = Spoken[Consumed] /\ r[0] = q[Len(syms) - n]
    BY SMTT(60), <1>1, <1>2, ArgumentsTell
<1>4. n \in Nat \ {0} /\ Len(yyvs) \in Nat /\ yyvs \in Seq(Addr \cup {Null})
    BY <1>1, UnderHandle DEF ParserInv, StoreInv, StoreOK
<1>5. ASSUME NEW v \in Addr \cup {Null}, NEW old, Replaced(n, v, old),
             r[n] = Then(r[0], Spelled'[v])
      PROVE  \E new : Says(new)' /\ (Len(syms) = n => Spoken[Consumed] = new[1] /\ Len(syms') = 1)
    BY <1>1, <1>2, <1>3, <1>5, ReducedTells
<1>6. CASE p.op = "value" /\ Value(n)
  <2>1. Push(n, Null) /\ node' = node
      BY <1>6 DEF Value
  <2>2. r[n] = r[0] /\ r[0] \in Readings
    <3>1. p.lhs # "identifier" /\ Used(p) = {}
        BY <1>6, ParserAssumption, PhraseAssumption DEF ProductionOK, Used
    <3>2. \A i \in 1 .. n : p.rhs[i] \in Mute
        BY <3>1, TellingAssumption DEF TellingOK
    <3>3. 0 \in 0 .. n
        BY <1>4
    <3> QED BY <3>2, <3>3, <1>3, <1>4, MuteTells DEF ArgsTell
  <2>3. r[n] = Then(r[0], Spelled'[Null])
    <3>1. Spelled'[Null] = Silence
        BY SpellingIsNext DEF SpellOK
    <3> QED BY <3>1, <2>2, ThenIs
  <2>4. Replaced(n, Null, Null)
      BY <2>1 DEF Replaced
  <2> QED BY <2>3, <2>4, <1>5
<1>7. ASSUME p.op = "NN", NEW a \in Fresh, NN(a, p.lhs, TextOf(p), n, RefsOf(p))
      PROVE  \E new : Says(new)' /\ (Len(syms) = n => Spoken[Consumed] = new[1] /\ Len(syms') = 1)
  <2>1. Push(n, a)
      BY <1>7 DEF NN
  <2>2. /\ a \in Addr /\ r[n] = Then(r[0], Spelled'[a])
        /\ \A b \in Region(Null) : node'[b] = node[b]
      BY <1>1, <1>3, <1>7, NewTells
  <2>3. Replaced(n, a, Null) /\ a \in Addr \cup {Null}
      BY <2>1, <2>2 DEF Replaced
  <2> QED BY <2>2, <2>3, <1>5
<1>8. ASSUME p.op = "UN", NEW a \in Grown(Arg(n, p.arg)), UN(a, p.lhs, n, p.arg, RefsOf(p))
      PROVE  \E new : Says(new)' /\ (Len(syms) = n => Spoken[Consumed] = new[1] /\ Len(syms') = 1)
  <2>1. PICK old : old = Arg(n, p.arg)
      OBVIOUS
  <2>2. Push(n, a) /\ a \in Grown(old)
      BY <2>1, <1>8 DEF UN
  <2>3. /\ a \in Addr /\ r[n] = Then(r[0], Spelled'[a])
        /\ \E i \in 1 .. Len(yyvs) : yyvs[i] = old
        /\ \A b \in Region(old) : node'[b] = node[b]
      BY SMTT(60), <2>1, <2>2, <1>3, <1>8, UpgradedTells
  <2>4. /\ Len(yyvs) - n + p.arg \in 1 .. Len(yyvs) /\ old = yyvs[Len(yyvs) - n + p.arg]
        /\ p.arg \in 1 .. n
    <3>1. p.arg \in 1 .. n
        BY <1>8, ParserAssumption DEF ProductionOK
    <3> QED BY <3>1, <2>1, <1>1, TheArgument
  <2>5. ASSUME NEW i \in 1 .. Len(yyvs) - n PROVE yyvs[i] = Null \/ yyvs[i] # old
    <3>1. i \in 1 .. Len(yyvs) /\ i # Len(yyvs) - n + p.arg
        BY <2>4, <1>4
    <3> QED BY <3>1, <2>4, <1>1 DEF StackOnce
  <2>6. Replaced(n, a, old) /\ a \in Addr \cup {Null}
      BY <2>2, <2>3, <2>5 DEF Replaced
  <2> QED BY <2>3, <2>6, <1>5
<1> QED BY <1>1, <1>6, <1>7, <1>8 DEF Act

\* No action gives a text to a node that is not a name, nor points out of free memory.
LEMMA ReducePlain ==
    ASSUME TreeInv, TreeOK, Plain, NEW p \in Productions, Reduce(p)
    PROVE  Plain' /\ DeadEmpty'
<1>1. /\ ParserInv /\ node \in [Addr -> Nodes] /\ Handle(p) /\ Act(p) /\ DeadEmpty
    BY DEF TreeInv, ParserInv, StoreInv, StoreOK, Nodes, Reduce, Ready, TreeOK
<1>2. PICK n : n = Len(p.rhs)
    OBVIOUS
<1>3. CASE p.op = "value" /\ Value(n)
  <2>1. node' = node
      BY <1>3 DEF Value
  <2> QED BY <2>1, <1>1 DEF Plain, DeadEmpty, Live
<1>4. ASSUME p.op = "NN", NEW a \in Fresh, NN(a, p.lhs, TextOf(p), n, RefsOf(p))
      PROVE  Plain' /\ DeadEmpty'
  <2> DEFINE made == [type |-> p.lhs, text |-> TextOf(p), refs |-> RefsOf(p)]
  <2>1. node' = [node EXCEPT ![a] = made] /\ a \in Addr
      BY Zenon, <1>4 DEF NN, Allocated, Fresh
  <2>2. made.type = p.lhs /\ made.text = TextOf(p)
      OBVIOUS
  <2> HIDE DEF made
  <2>3. node'[a].type = p.lhs /\ node'[a].text = TextOf(p)
        /\ \A b \in Addr : b # a => node'[b] = node[b]
      BY <2>1, <2>2, <1>1
  <2>4. p.lhs # "identifier" => TextOf(p) \in {NoText, Typedef}
      BY DEF TextOf
  <2>5. p.lhs # Free
      BY <1>4, ParserAssumption, StoreAssumption DEF ProductionOK
  <2>6. Plain'
    <3> SUFFICES ASSUME NEW b \in Addr, node'[b].type \in Types \ {"identifier"}
                 PROVE  node'[b].text \in {NoText, Typedef}
        BY DEF Plain
    <3> QED BY <2>3, <2>4 DEF Plain
  <2>7. DeadEmpty'
    <3> SUFFICES ASSUME NEW b \in Addr, node'[b].type = Free, NEW f \in Fields
                 PROVE  node'[b].refs[f] = Null
        BY DEF DeadEmpty, Live
    <3> QED BY <2>3, <2>5, <1>1 DEF DeadEmpty, Live
  <2> QED BY <2>6, <2>7
<1>5. ASSUME p.op = "UN", NEW a \in Grown(Arg(n, p.arg)), UN(a, p.lhs, n, p.arg, RefsOf(p))
      PROVE  Plain' /\ DeadEmpty'
  <2>1. PICK old : old = Arg(n, p.arg)
      OBVIOUS
  <2> DEFINE made == [type |-> p.lhs, text |-> node[old].text, refs |-> Copied(old, RefsOf(p))]
  <2>2. /\ node' = [node EXCEPT ![old] = FreeNode, ![a] = made] /\ old # Null
      BY Zenon, <1>5, <2>1 DEF UN
  <2>3. made.type = p.lhs /\ made.text = node[old].text
      OBVIOUS
  <2> HIDE DEF made
  <2>4. p.arg \in 1 .. n /\ old \in Addr /\ node[old].type \in Types
      BY <1>2, <1>5, <2>1, <2>2, <1>1, UNRefs
  <2>5. a \in Addr
      BY <2>1, <2>4, <1>5 DEF Grown, Fresh
  <2>6. /\ node'[a].type = p.lhs /\ node'[a].text = node[old].text
        /\ \A b \in Addr : b # a => node'[b] = node[b] \/ node'[b] = FreeNode
      BY <2>2, <2>3, <2>5, <1>1
  <2>7. node[old].text \in {NoText, Typedef}
    <3>1. node[old].type = p.rhs[p.arg]
        BY <1>1, <1>2, <2>1, <2>2, <2>4, TheNode
    <3>2. p.rhs[p.arg] # "identifier"
        BY <1>5, TellingAssumption DEF TellingOK
    <3> QED BY <3>1, <3>2, <2>4 DEF Plain
  <2>8. p.lhs # Free /\ FreeNode.type = Free /\ FreeNode.text = NoText
        /\ \A f \in Fields : FreeNode.refs[f] = Null
      BY <1>5, ParserAssumption, StoreAssumption DEF ProductionOK, FreeNode, NoRefs
  <2>9. Plain'
    <3> SUFFICES ASSUME NEW b \in Addr, node'[b].type \in Types \ {"identifier"}
                 PROVE  node'[b].text \in {NoText, Typedef}
        BY DEF Plain
    <3> HIDE DEF FreeNode
    <3> QED BY <2>6, <2>7, <2>8 DEF Plain
  <2>10. DeadEmpty'
    <3> SUFFICES ASSUME NEW b \in Addr, node'[b].type = Free, NEW f \in Fields
                 PROVE  node'[b].refs[f] = Null
        BY DEF DeadEmpty, Live
    <3> HIDE DEF FreeNode
    <3> QED BY <2>6, <2>8, <1>1 DEF DeadEmpty, Live
  <2> QED BY <2>9, <2>10
<1> QED BY <1>1, <1>2, <1>3, <1>4, <1>5 DEF Act

-----------------------------------------------------------------------------
(***************************************************************************)
(* The invariant: nodes and words have the texts they should, the stack    *)
(* says what has been read, and the result says what the declarations do   *)
(* that have been closed and taken into it.                                *)
(***************************************************************************)
\* No name or string is a storage class,
WordsTold == \A k \in 1 .. Len(source) : source[k].kind \in Speaking => source[k].text # Typedef

\* and the token of one is the last word that has been read.
Pending == Under \in Speaking => la = None /\ source # << >> /\ source[Len(source)].kind = Under

\* Symbols of a declaration that is not in the result yet.
Ending == {Semicolon, "declaration", "external_declaration"}

TopSays ==
    Under \notin Ending =>
        \E k \in 0 .. Consumed : Spelled[top] = Spoken[k] /\ ClosedIn(source, Consumed + 1) = 1 .. k

SpellInv ==
    /\ DeadEmpty /\ Plain /\ WordsTold
    /\ pc = "start" => top = Null
    /\ pc = "parse" => Pending /\ Said /\ TopSays
    /\ TreeIsSource

\* What the proofs about trees need of the invariants,
LEMMA TreeHas ==
    TypesInv /\ DeadEmpty =>
        /\ TreeOK /\ TreeInv /\ ParserInv /\ FitsSchema /\ StoreInv /\ top \in Addr \cup {Null}
        /\ syms \in Seq(Symbols) /\ yyvs \in Seq(Addr \cup {Null}) /\ Len(syms) = Len(yyvs)
    BY DEF TypesInv, TreeInv, ParserInv, StoreInv, StoreOK, NodesOK, Nodes, TreeOK

\* also after a step.
LEMMA TreeHasNext == TypesInv' /\ DeadEmpty' => TreeOK'
    BY DEF TypesInv, TreeInv, ParserInv, StoreInv, StoreOK, NodesOK, Nodes, TreeOK

\* The last word has a text that the tree keeps, if it is a name or a string.
LEMMA LastHas ==
    ASSUME ReadInv, WordsTold, Pending
    PROVE  LastTells
<1> SUFFICES ASSUME Under \in Speaking PROVE yytext \in Texts \ {Typedef}
    BY DEF LastTells
<1>1. source # << >> /\ source[Len(source)].kind \in Speaking /\ source \in Seq(Reads)
      /\ yytext = source[Len(source)].text
    BY DEF Pending, ReadInv
<1>2. Len(source) \in 1 .. Len(source)
    BY <1>1
<1>3. source[Len(source)] \in Reads
    BY <1>1, <1>2
<1> QED BY <1>1, <1>2, <1>3 DEF WordsTold, Reads

\* Trees and words that a step leaves alone say what they said.
LEMMA SameTree ==
    ASSUME node' = node
    PROVE  Spelled' = Spelled /\ (DeadEmpty' <=> DeadEmpty) /\ (Plain' <=> Plain)
    BY DEF Spelled, DeadEmpty, Plain, Live

\* The same of the words.
LEMMA SameSource ==
    ASSUME source' = source
    PROVE  Spoken' = Spoken /\ (WordsTold' <=> WordsTold) /\ Accepted' = Accepted
    BY DEF Spoken, WordsTold, Accepted, Closed

\* The result says what it said, if it is not given back.
LEMMA TopTells ==
    ASSUME StoreInv, TreeOK, TreeOK', NEW old, old = Null \/ \E i \in 1 .. Len(yyvs) : yyvs[i] = old,
           old # Null => node[old].type # "translation_unit",
           \A b \in Region(old) : node'[b] = node[b], top' = top
    PROVE  Spelled'[top'] = Spelled[top]
<1> HIDE DEF Spelled
<1>1. top \in Region(old) \cup {Null}
  <2>1. top \in Addr \cup {Null} /\ TopUnit
      BY DEF StoreInv, StoreOK
  <2> QED BY <2>1, StoreAssumption, TopAssumption DEF TopUnit, Region, Live
<1>2. PICK v \in Region(old) \cup {Null} : v = top
    BY <1>1
<1>3. Spelled'[v] = Spelled[v]
    BY RegionSays
<1> QED BY <1>2, <1>3

\* A translation unit is alone on the stack.
LEMMA UnitAlone ==
    ASSUME syms' \in Seq(Symbols), Shaped', syms' # << >>, Last(syms') = "translation_unit"
    PROVE  Len(syms') = 1
<1>1. PICK m \in Nat \ {0} : m = Len(syms')
    BY EmptySeq
<1>2. Last(syms') = syms'[m] /\ m \in 1 .. m
    BY <1>1 DEF Last
<1>3. <<At(syms', m - 1), syms'[m]>> \in Beside
    BY <1>1, <1>2 DEF Shaped, ShapeOf
<1>4. At(syms', m - 1) = "bottom"
    BY <1>2, <1>3, NothingOn
<1>5. m - 1 \in 0 .. m
    BY <1>1
<1>6. CASE m - 1 = 0
    BY <1>1, <1>6
<1>7. CASE m - 1 # 0
  <2>1. m - 1 \in 1 .. m /\ At(syms', m - 1) = syms'[m - 1]
      BY <1>1, <1>7 DEF At
  <2>2. syms'[m - 1] \in Symbols
      BY <2>1, <1>1
  <2> QED BY <2>1, <2>2, <1>4, SymbolsAre
<1> QED BY <1>6, <1>7

\* What is pushed onto a stack that is left empty.
LEMMA OnlyOne ==
    ASSUME NEW S, NEW st \in Seq(S), NEW v \in S
    PROVE  Append(SubSeq(st, 1, 0), v)[1] = v
<1>1. SubSeq(st, 1, 0) \in Seq(S) /\ Len(SubSeq(st, 1, 0)) = 0
    OBVIOUS
<1>2. PICK u \in Seq(S) : u = SubSeq(st, 1, 0) /\ Len(u) = 0
    BY <1>1
<1> QED BY <1>2

\* The new result says what its stack does.
LEMMA UnitTells ==
    ASSUME TypesInv, TreeOK', Shaped', TypesInv', NEW p \in Productions, Reduce(p),
           p.lhs = "translation_unit", NEW n, n = Len(p.rhs),
           NEW new, Says(new)', Len(syms) = n => Spoken[Consumed] = new[1] /\ Len(syms') = 1
    PROVE  Spelled'[top'] = Spoken[Consumed]
<1> HIDE DEF Spelled, Spoken, Consumed
<1>1. /\ Handle(p) /\ Act(p) /\ syms \in Seq(Symbols) /\ yyvs \in Seq(Addr \cup {Null})
      /\ syms' = Append(SubSeq(syms, 1, Len(syms) - n), p.lhs) /\ Len(syms) = Len(yyvs)
      /\ syms' \in Seq(Symbols) /\ Len(syms') = Len(yyvs') /\ yyvs' \in Seq(Addr \cup {Null})
    BY DEF TypesInv, TreeInv, ParserInv, StoreInv, StoreOK, Reduce, Ready
<1>2. n \in Nat \ {0} /\ n <= Len(syms)
    BY <1>1, UnderHandle
<1>3. p.lhs \in Symbols
    BY SymbolsAre DEF Phrases
<1>4. /\ SubSeq(syms, 1, Len(syms) - n) \in Seq(Symbols)
      /\ SubSeq(yyvs, 1, Len(yyvs) - n) \in Seq(Addr \cup {Null})
    BY <1>1, <1>2
<1>5. syms' # << >> /\ Last(syms') = "translation_unit"
    BY ZenonT(60), <1>1, <1>3, <1>4, LastAppended
<1>6. Len(syms') = 1
    BY <1>1, <1>5, UnitAlone
<1>7. Len(syms) = n
    BY <1>1, <1>2, <1>4, <1>6
<1>8. p.op = "NN"
    BY PhraseAssumption DEF CausesOK
<1>9. PICK a \in Fresh : NN(a, p.lhs, TextOf(p), n, RefsOf(p))
    BY <1>1, <1>8 DEF Act
<1>10. top' = a /\ yyvs' = Append(SubSeq(yyvs, 1, Len(yyvs) - n), a) /\ a \in Addr
    BY <1>9 DEF NN, Push, Fresh
<1>11. yyvs'[1] = a
  <2>1. n <= Len(yyvs) /\ a \in Addr \cup {Null} /\ Len(yyvs) - n + 1 = 1
      BY <1>1, <1>2, <1>7, <1>10
  <2>2. PICK st : st = yyvs
      OBVIOUS
  <2>3. Len(yyvs) - n = 0 /\ st \in Seq(Addr \cup {Null})
      BY <1>1, <1>2, <1>7, <2>2
  <2>4. yyvs' = Append(SubSeq(st, 1, 0), a)
      BY <1>10, <2>2, <2>3
  <2> QED BY <2>1, <2>3, <2>4, OnlyOne
<1>12. syms'[1] = "translation_unit"
    BY <1>5, <1>6 DEF Last
<1>13. "translation_unit" \notin Speaking
    BY DEF Speaking
<1>14. new[1] = Then(new[0], Spelled'[yyvs'[1]]) /\ new[0] = Silence
  <2>1. 1 \in 1 .. Len(syms') /\ 1 - 1 = 0
      BY <1>6
  <2>2. /\ new[0] = Silence
        /\ syms'[1] \notin Speaking => new[1] = Then(new[1 - 1], Spelled'[yyvs'[1]])
      BY <2>1 DEF Says
  <2> QED BY <2>1, <2>2, <1>12, <1>13
<1>15. Spelled'[a] \in Readings
    BY <1>10, SpellingIsNext DEF SpellOK
<1> QED BY <1>7, <1>10, <1>11, <1>14, <1>15, ThenIs

\* Before an action that does not end a declaration there is none that has just been ended.
LEMMA NotEnding ==
    ASSUME NEW p \in Productions, Handle(p), p.lhs \notin Ending, p.lhs # "translation_unit"
    PROVE  Under \notin Ending
<1>1. Under = p.rhs[Len(p.rhs)]
    BY DEF Handle, Last
<1>2. Len(p.rhs) \in 1 .. Len(p.rhs)
    BY ParserAssumption DEF ProductionOK
<1>3. p.lhs \notin Ended
    BY DEF Ended, Ending
<1>4. p.rhs[Len(p.rhs)] \notin Ended \cup {Semicolon}
    BY <1>2, <1>3, PhraseAssumption DEF ClosingOK
<1> QED BY <1>1, <1>4 DEF Ended, Ending

\* A reduction.
LEMMA ReduceSpells ==
    ASSUME DeclInv, SpellInv, DeclInv', NEW p \in Productions, Reduce(p)
    PROVE  SpellInv'
<1> HIDE DEF Spelled, Spoken
<1>1. /\ pc = "parse" /\ Handle(p) /\ source' = source /\ la' = la
      /\ syms' = Append(SubSeq(syms, 1, Len(syms) - Len(p.rhs)), p.lhs)
      /\ pc' \in {"parse", "crashed"} /\ TypesInv /\ TypesInv' /\ Shaped' /\ ReadInv
    BY DEF DeclInv, Reduce, Ready, add_typenames
<1>2. DeadEmpty /\ Plain /\ WordsTold /\ Pending /\ Said /\ TopSays
    BY <1>1 DEF SpellInv
<1>3. TreeOK /\ TreeInv /\ StoreInv /\ syms \in Seq(Symbols) /\ LastTells
    BY <1>1, <1>2, TreeHas, LastHas
<1>4. Plain' /\ DeadEmpty'
    BY <1>2, <1>3, ReducePlain
<1>5. TreeOK'
    BY <1>1, <1>4, TreeHasNext
<1>6. PICK n : n = Len(p.rhs)
    OBVIOUS
<1>7. PICK new : Says(new)' /\ (Len(syms) = n => Spoken[Consumed] = new[1] /\ Len(syms') = 1)
    BY <1>2, <1>3, <1>5, <1>6, ReduceSays
<1>8. Said'
    BY <1>7 DEF Said
<1>9. Under' = p.lhs
  <2>1. n \in Nat /\ n <= Len(syms) /\ p.lhs \in Symbols
      BY <1>1, <1>3, <1>6, UnderHandle, SymbolsAre DEF Phrases
  <2> QED BY <2>1, <1>1, <1>3, <1>6, UnderNext
<1>10. Pending'
  <2>1. p.lhs \notin Speaking
    <3>1. p.lhs \in Phrases /\ Tokens \cap Phrases = {} /\ Speaking \subseteq Tokens
        BY ShapeAssumption, TellingAssumption DEF Phrases
    <3> QED BY <3>1
  <2> QED BY <2>1, <1>9 DEF Pending
<1>11. Consumed' = Consumed /\ Spoken' = Spoken /\ WordsTold'
       /\ ClosedIn(source, Consumed + 1)' = ClosedIn(source, Consumed + 1)
  <2>1. Consumed' = Consumed /\ Spoken' = Spoken /\ WordsTold'
      BY <1>1, <1>2, SameSource DEF Consumed
  <2> QED BY <2>1, <1>1 DEF ClosedIn
<1>12. Consumed \in Nat
    BY <1>1 DEF ReadInv, Consumed
<1> HIDE DEF Consumed
<1>13. TopSays'
  <2>1. CASE p.lhs \in Ending
      BY <2>1, <1>9 DEF TopSays
  <2>2. CASE p.lhs = "translation_unit"
    <3>1. Spelled'[top'] = Spoken[Consumed]
        BY <2>2, <1>1, <1>5, <1>6, <1>7, UnitTells
    <3>2. ClosedIn(source, Consumed + 1) = 1 .. Consumed
        BY <2>2, UnitEnds
    <3>3. Consumed \in 0 .. Consumed
        BY <1>12
    <3> QED BY <3>1, <3>2, <3>3, <1>11 DEF TopSays
  <2>3. CASE p.lhs \notin Ending /\ p.lhs # "translation_unit"
    <3>1. Under \notin Ending
        BY <2>3, <1>1, NotEnding
    <3>2. PICK k \in 0 .. Consumed :
              Spelled[top] = Spoken[k] /\ ClosedIn(source, Consumed + 1) = 1 .. k
        BY <3>1, <1>2 DEF TopSays
    <3>3. top' = top /\ \E old : /\ old = Null \/ \E i \in 1 .. Len(yyvs) : yyvs[i] = old
                                 /\ old # Null => node[old].type # "translation_unit"
                                 /\ \A b \in Region(old) : node'[b] = node[b]
        BY <2>3, <1>1, ReducedRegion, Zenon
    <3>4. Spelled'[top'] = Spelled[top]
        BY <3>3, <1>3, <1>5, TopTells
    <3> QED BY <3>2, <3>4, <1>11 DEF TopSays
  <2> QED BY <2>1, <2>2, <2>3
<1> QED BY <1>1, <1>4, <1>8, <1>10, <1>11, <1>13 DEF SpellInv, TreeIsSource


-----------------------------------------------------------------------------
(***************************************************************************)
(* The other steps.                                                        *)
(***************************************************************************)
\* The parser does not wait for a word on a name or a string.
LEMMA StuckSilent ==
    ASSUME syms \in Seq(Symbols), Shaped, Stuck
    PROVE  Under \notin Speaking
<1>1. CASE syms = << >>
    BY <1>1 DEF Under, Speaking
<1>2. CASE syms # << >>
    BY <1>2, StuckOn DEF Under, Immediate, Speaking
<1> QED BY <1>1, <1>2

\* Steps that leave the stack alone, and its nodes.
LEMMA StaySays ==
    ASSUME StoreInv, TreeOK, TreeOK', Said, UNCHANGED <<syms, yyvs>>, Len(syms) = Len(yyvs),
           \A b \in Region(Null) : node'[b] = node[b],
           Spoken'[Consumed'] = Spoken[Consumed], Under \in Speaking => yytext' = yytext
    PROVE  Said'
<1> HIDE DEF Spelled, Spoken, Consumed
<1>1. PICK q : Says(q)
    BY DEF Said
<1>2. syms' = syms /\ yyvs' = yyvs /\ Under' = Under
    BY DEF Under
<1>3. ASSUME NEW i \in 1 .. Len(syms) PROVE Spelled'[yyvs[i]] = Spelled[yyvs[i]]
  <2>1. i \in 1 .. Len(yyvs) /\ (yyvs[i] = Null \/ yyvs[i] # Null)
      OBVIOUS
  <2>2. yyvs[i] \in Region(Null) \cup {Null}
      BY <2>1, StackRegion
  <2>3. PICK v \in Region(Null) \cup {Null} : v = yyvs[i]
      BY <2>2
  <2>4. Spelled'[v] = Spelled[v]
      BY <2>3, RegionSays
  <2> QED BY <2>3, <2>4
<1>4. Says(q)'
    BY <1>1, <1>2, <1>3 DEF Says
<1> QED BY <1>4 DEF Said

\* What is pushed for nothing.
LEMMA WordTells ==
    ASSUME ParserInv, TreeOK, TreeOK', NEW q, Says(q), NEW s \in Symbols, NEW r \in Readings,
           Replaced(0, Null, Null), syms' = Append(syms, s), r = Spoken'[Consumed'],
           Tells(s, Null, q[Len(syms)], r)
    PROVE  Said'
<1> HIDE DEF Spelled, Spoken, Consumed
<1>1. ASSUME NEW n \in Nat, n <= Len(yyvs), NEW v \in Addr \cup {Null}, NEW old,
             Replaced(n, v, old), syms' = Append(SubSeq(syms, 1, Len(syms) - n), s),
             Tells(s, v, q[Len(syms) - n], r)
      PROVE  Said'
  <2>1. \E new : Says(new)' /\ (Len(syms) = n => r = new[1] /\ Len(syms') = 1)
      BY ZenonT(60), <1>1, PushTells
  <2> QED BY <2>1 DEF Said
<1>2. syms \in Seq(Symbols) /\ yyvs \in Seq(Addr \cup {Null})
    BY DEF ParserInv, StoreInv, StoreOK
<1>3. PICK n \in Nat : n = 0
    OBVIOUS
<1>4. Len(syms) - n = Len(syms) /\ SubSeq(syms, 1, Len(syms)) = syms /\ n <= Len(yyvs)
    BY <1>2, <1>3
<1>5. /\ Replaced(n, Null, Null) /\ syms' = Append(SubSeq(syms, 1, Len(syms) - n), s)
      /\ Tells(s, Null, q[Len(syms) - n], r)
    BY <1>3, <1>4
<1>6. Null \in Addr \cup {Null}
    OBVIOUS
<1> QED BY <1>1, <1>3, <1>4, <1>5, <1>6, Zenon

\* A shift: the word is the last that has been read.
LEMMA ShiftSpells ==
    ASSUME DeclInv, SpellInv, DeclInv', Shift
    PROVE  SpellInv'
<1> HIDE DEF Spelled, Spoken
<1>1. /\ pc = "parse" /\ pc' = "parse" /\ la # None /\ la' = None /\ source' = source
      /\ Push(0, Null) /\ node' = node /\ top' = top /\ yytext' = yytext
      /\ syms' = Append(syms, la.kind) /\ <<Under, la.kind>> \in Shifts /\ Stuck
      /\ TypesInv /\ TypesInv' /\ Shaped /\ ReadInv
    BY DEF DeclInv, Shift, CanShift, Value, Stuck
<1>2. la.kind \in Tokens /\ la.kind \in Symbols
  <2>1. <<Under, la.kind>>[2] = la.kind
      OBVIOUS
  <2>2. la.kind \in Tokens
      BY <2>1, <1>1 DEF Tokens
  <2> QED BY <2>2, SymbolsAre
<1>3. DeadEmpty /\ Plain /\ WordsTold /\ Pending /\ Said /\ TopSays
    BY <1>1 DEF SpellInv
<1>4. /\ ParserInv /\ TreeOK /\ syms \in Seq(Symbols) /\ yyvs \in Seq(Addr \cup {Null})
      /\ Len(syms) = Len(yyvs)
    BY <1>1, <1>3, TreeHas
<1>5. Spelled' = Spelled /\ DeadEmpty' /\ Plain'
    BY <1>1, <1>3, SameTree
<1>6. TreeOK'
    BY <1>1, <1>5, TreeHasNext
<1>7. /\ source # << >> /\ source \in Seq(Reads) /\ la = source[Len(source)]
      /\ yytext = source[Len(source)].text
    BY <1>1 DEF ReadInv
<1>8. PICK e \in Nat \ {0} : e = Len(source)
    BY <1>7
<1>9. /\ Consumed = e - 1 /\ Consumed' = e /\ Spoken' = Spoken /\ WordsTold'
    BY <1>1, <1>3, <1>8, SameSource DEF Consumed
<1> HIDE DEF Consumed
<1>10. /\ Spoken[e] \in Readings /\ Spoken[e - 1] \in Readings
       /\ la.kind \in Speaking => Spoken[e] = Then(Spoken[e - 1], <<yytext>>)
       /\ la.kind \notin Speaking => Spoken[e] = Spoken[e - 1]
  <2>1. SpokenOK /\ e \in 1 .. Len(source) /\ e \in 0 .. Len(source) /\ e - 1 \in 0 .. Len(source)
      BY <1>7, <1>8, SpokenIs
  <2> QED BY <2>1, <1>7, <1>8 DEF SpokenOK
<1>11. PICK q : Says(q)
    BY <1>3 DEF Said
<1>12. q[Len(syms)] = Spoken[e - 1]
    BY <1>9, <1>11 DEF Says
<1>13. Tells(la.kind, Null, q[Len(syms)], Spoken[e])
  <2>1. Spelled'[Null] = Silence
      BY <1>6, SpellingIsNext DEF SpellOK
  <2>2. Then(Spoken[e - 1], Silence) = Spoken[e - 1]
      BY <1>10, ThenIs
  <2>3. la.kind \in Mute => la.kind \notin Speaking
      BY DEF Mute, Speaking
  <2> QED BY <2>1, <2>2, <2>3, <1>1, <1>10, <1>12 DEF Tells
<1>14. Replaced(0, Null, Null)
    BY <1>1 DEF Replaced
<1>15. Said'
  <2>1. PICK s \in Symbols, r \in Readings : s = la.kind /\ r = Spoken[e]
      BY <1>2, <1>10
  <2>2. syms' = Append(syms, s) /\ r = Spoken'[Consumed'] /\ Tells(s, Null, q[Len(syms)], r)
      BY <2>1, <1>1, <1>9, <1>13
  <2> QED BY <2>1, <2>2, <1>4, <1>6, <1>11, <1>14, WordTells
<1>16. Under' = la.kind
    BY <1>1, <1>2, <1>4, LastAppended DEF Under
<1>17. Pending'
    BY <1>1, <1>7, <1>16 DEF Pending
<1>18. TopSays'
  <2>1. CASE la.kind = Semicolon
      BY <2>1, <1>16 DEF TopSays, Ending
  <2>2. CASE la.kind # Semicolon
    <3>1. Under \notin Ending
        BY <1>1, <1>4, StuckUnder DEF Ending
    <3>2. PICK k \in 0 .. e - 1 : Spelled[top] = Spoken[k] /\ ClosedIn(source, e) = 1 .. k
        BY <3>1, <1>3, <1>9 DEF TopSays
    <3>3. ClosedIn(source, e + 1) = ClosedIn(source, e)
        BY <2>2, <1>7, <1>8, NotTheEnd
    <3>4. k \in 0 .. e
        OBVIOUS
    <3> QED BY <3>2, <3>3, <3>4, <1>1, <1>5, <1>9 DEF TopSays
  <2> QED BY <2>1, <2>2
<1> QED BY <1>1, <1>5, <1>9, <1>15, <1>17, <1>18 DEF SpellInv, TreeIsSource

\* Reading on: what has been said is not changed by the word that is looked ahead to.
LEMMA LexSpells ==
    ASSUME DeclInv, SpellInv, DeclInv', Lex
    PROVE  SpellInv'
<1> HIDE DEF Spelled, Spoken
<1>1. /\ pc = "parse" /\ pc' = "parse" /\ node' = node /\ top' = top /\ syms' = syms
      /\ yyvs' = yyvs /\ la = None /\ source' = Append(source, la') /\ Stuck
      /\ TypesInv /\ TypesInv' /\ Shaped
    BY DEF DeclInv, Lex, storeVars, Stuck
<1>2. PICK w \in Words \cup {EOF} : la' = [kind |-> check_identifier(w), text |-> w.text]
    BY <1>1, TheWord
<1>3. la' \in Reads /\ la' # None /\ source \in Seq(Reads) /\ Len(source) \in Nat
  <2>1. source \in Seq(Reads) /\ Len(source) \in Nat
      BY DEF DeclInv, ReadInv
  <2>2. /\ w.text \in Texts
        /\ w.kind = "EOF" \/ w.kind \in {v.kind : v \in Words}
      BY ParserAssumption DEF EOF
  <2>3. check_identifier(w) \in {v.kind : v \in Words} \cup {"IDENTIFIER", "TYPEDEF_NAME", "EOF"}
      BY <2>2 DEF check_identifier
  <2>4. la' \in Reads
      BY Zenon, <1>2, <2>2, <2>3, IsRead
  <2> QED BY <2>1, <2>4, PhraseAssumption
<1>4. la'.kind \in Speaking => la'.text # Typedef
  <2>1. la'.kind = check_identifier(w) /\ la'.text = w.text
      BY <1>2
  <2>2. /\ w \in Words => /\ w.kind = "NAME" => w.text # Typedef
                          /\ w.kind \in Speaking => w.text # Typedef
        /\ w = EOF => w.kind = "EOF" /\ "EOF" \notin Speaking
      BY PhraseAssumption, TellingAssumption DEF EOF, Speaking
  <2> QED BY <2>1, <2>2 DEF check_identifier
<1>5. /\ \A k \in 1 .. Len(source) : source'[k] = source[k] /\ k \in 1 .. Len(source')
      /\ Len(source') = Len(source) + 1 /\ source'[Len(source) + 1] = la'
      /\ (source \in Seq(Reads))' /\ Len(source) <= Len(source')
    BY <1>1, <1>3
<1>6. Consumed = Len(source) /\ Consumed' = Len(source)
    BY <1>1, <1>3, <1>5 DEF Consumed
<1> HIDE DEF Consumed
<1>7. DeadEmpty /\ Plain /\ WordsTold /\ Said /\ TopSays
    BY <1>1 DEF SpellInv
<1>8. Spelled' = Spelled /\ DeadEmpty' /\ Plain'
    BY <1>1, <1>7, SameTree
<1>9. StoreInv /\ TreeOK /\ TreeOK' /\ syms \in Seq(Symbols) /\ Len(syms) = Len(yyvs)
    BY <1>1, <1>7, <1>8, TreeHas, TreeHasNext
<1>10. WordsTold'
  <2> SUFFICES ASSUME NEW k \in 1 .. Len(source'), source'[k].kind \in Speaking
               PROVE  source'[k].text # Typedef
      BY DEF WordsTold
  <2>1. CASE k = Len(source) + 1
      BY <2>1, <1>4, <1>5
  <2>2. CASE k # Len(source) + 1
    <3>1. k \in 1 .. Len(source)
        BY <2>2, <1>3, <1>5
    <3> QED BY <3>1, <1>5, <1>7 DEF WordsTold
  <2> QED BY <2>1, <2>2
<1>11. \A k \in 0 .. Len(source) : Spoken'[k] = Spoken[k]
    BY <1>3, <1>5, SpokenKept
<1>12. Under' = Under /\ Under \notin Speaking
    BY <1>1, <1>9, StuckSilent DEF Under
<1>13. Said'
  <2>1. Spoken'[Consumed'] = Spoken[Consumed]
      BY <1>3, <1>6, <1>11
  <2>2. \A b \in Region(Null) : node'[b] = node[b]
      BY <1>1
  <2> QED BY <2>1, <2>2, <1>1, <1>7, <1>9, <1>12, StaySays
<1>14. TopSays'
  <2> SUFFICES ASSUME Under \notin Ending PROVE TopSays'
      BY <1>12 DEF TopSays
  <2>1. PICK k \in 0 .. Len(source) :
            Spelled[top] = Spoken[k] /\ ClosedIn(source, Len(source) + 1) = 1 .. k
      BY <1>6, <1>7 DEF TopSays
  <2>2. ClosedIn(source', Len(source) + 1) = ClosedIn(source, Len(source) + 1)
      BY <1>1, <1>3, SourceGrows
  <2>3. Spelled'[top'] = Spoken'[k]
      BY <2>1, <1>1, <1>8, <1>11
  <2> QED BY <2>1, <2>2, <2>3, <1>6 DEF TopSays
<1>15. Pending'
    BY <1>12 DEF Pending
<1> QED BY <1>1, <1>8, <1>10, <1>13, <1>14, <1>15 DEF SpellInv, TreeIsSource

\* A string is interned before it is put into the tree.
LEMMA InternSpells ==
    ASSUME DeclInv, SpellInv, DeclInv', NEW p \in Productions, Intern(p)
    PROVE  SpellInv'
<1> HIDE DEF Spelled, Spoken
<1>1. /\ pc = "parse" /\ pc' = "parse" /\ top' = top /\ la' = la /\ source' = source
      /\ syms' = syms /\ yyvs' = yyvs /\ yytext' = yytext /\ TypesInv /\ TypesInv'
    BY DEF DeclInv, Intern, intern_string, parserVars
<1>2. DeadEmpty /\ Plain /\ WordsTold /\ Pending /\ Said /\ TopSays
    BY <1>1 DEF SpellInv
<1>3. StoreInv /\ TreeOK /\ Len(syms) = Len(yyvs) /\ node \in [Addr -> Nodes]
    BY <1>1, <1>2, TreeHas DEF TreeOK, NodesOK
<1>4. PICK a \in Fresh : node' = [node EXCEPT ![a] = [type |-> Unset, text |-> yytext, refs |-> NoRefs]]
    BY DEF Intern, intern_string
<1>5. a \in Addr /\ ~Live(a)
    BY DEF Fresh, Live
<1>6. /\ node'[a] = [type |-> Unset, text |-> yytext, refs |-> NoRefs]
      /\ \A b \in Addr : b # a => node'[b] = node[b]
    BY <1>3, <1>4, <1>5
<1>7. \A b \in Region(Null) : node'[b] = node[b]
    BY <1>5, <1>6 DEF Region
<1>8. DeadEmpty'
  <2> SUFFICES ASSUME NEW b \in Addr, ~Live(b)', NEW f \in Fields
               PROVE  node'[b].refs[f] = Null
      BY DEF DeadEmpty
  <2>1. CASE b = a
      BY <2>1, <1>6 DEF NoRefs
  <2>2. CASE b # a
      BY <2>2, <1>2, <1>6 DEF DeadEmpty, Live
  <2> QED BY <2>1, <2>2
<1>9. Plain'
  <2> SUFFICES ASSUME NEW b \in Addr, node'[b].type \in Types \ {"identifier"}
               PROVE  node'[b].text \in {NoText, Typedef}
      BY DEF Plain
  <2>1. b # a
      BY <1>6, StoreAssumption
  <2> QED BY <2>1, <1>2, <1>6 DEF Plain
<1>10. TreeOK'
    BY <1>1, <1>8, TreeHasNext
<1>11. Consumed' = Consumed /\ Spoken' = Spoken /\ WordsTold' /\ Under' = Under
       /\ ClosedIn(source, Consumed + 1)' = ClosedIn(source, Consumed + 1)
  <2>1. Consumed' = Consumed /\ Spoken' = Spoken /\ WordsTold' /\ Under' = Under
      BY <1>1, <1>2, SameSource DEF Consumed, Under
  <2> QED BY <2>1, <1>1 DEF ClosedIn
<1> HIDE DEF Consumed
<1>12. Said'
    BY <1>1, <1>2, <1>3, <1>7, <1>10, <1>11, StaySays
<1>13. Spelled'[top'] = Spelled[top]
  <2>1. PICK old : old = Null
      OBVIOUS
  <2> QED BY <2>1, <1>1, <1>3, <1>7, <1>10, TopTells
<1>14. TopSays'
    BY <1>2, <1>11, <1>13 DEF TopSays
<1>15. Pending'
    BY <1>1, <1>2, <1>11 DEF Pending
<1> QED BY <1>1, <1>8, <1>9, <1>11, <1>12, <1>14, <1>15 DEF SpellInv, TreeIsSource

\* Setting up: nothing has been read, and there is no result.
LEMMA SetupSpells ==
    ASSUME DeclInv, SpellInv, DeclInv', Setup
    PROVE  SpellInv'
<1> HIDE DEF Spelled, Spoken
<1>1. /\ pc = "start" /\ pc' = "parse" /\ node' = node /\ top' = Null /\ syms' = << >>
      /\ source' = source /\ source = << >> /\ la' = None /\ TypesInv /\ TypesInv'
    BY DEF DeclInv, SpellInv, Setup, parser_setup
<1>2. DeadEmpty' /\ Plain' /\ WordsTold'
    BY <1>1, SameTree, SameSource DEF SpellInv
<1>3. TreeOK'
    BY <1>1, <1>2, TreeHasNext
<1>4. Spelled'[Null] = Silence
    BY <1>3, SpellingIsNext DEF SpellOK
<1>5. Consumed' = 0 /\ Under' = "bottom" /\ Under' \notin Speaking /\ Len(syms') = 0
    BY <1>1 DEF Consumed, Under, Speaking
<1>6. Spoken'[0] = Silence
  <2>1. (source \in Seq(Reads))'
      BY <1>1
  <2> QED BY <2>1, SpokenIsNext DEF SpokenOK
<1> HIDE DEF Consumed
<1>7. Said'
  <2>1. PICK q : q = [i \in 0 .. 0 |-> Silence]
      OBVIOUS
  <2>2. q \in [0 .. 0 -> Readings] /\ q[0] = Silence
      BY <2>1, ThenIs
  <2>3. Says(q)'
      BY <2>2, <1>5, <1>6 DEF Says
  <2> QED BY <2>3 DEF Said
<1>8. TopSays'
  <2>1. ClosedIn(source', 0 + 1) = 1 .. 0
      BY DEF ClosedIn
  <2>2. 0 \in 0 .. 0
      OBVIOUS
  <2> QED BY <2>1, <2>2, <1>1, <1>4, <1>5, <1>6 DEF TopSays
<1>9. Pending'
    BY <1>5 DEF Pending
<1> QED BY <1>1, <1>2, <1>7, <1>8, <1>9 DEF SpellInv, TreeIsSource

\* The greatest of the first numbers.
LEMMA MaxFirst ==
    ASSUME NEW k \in Nat
    PROVE  Max({0} \cup (1 .. k)) = k
<1>1. /\ k \in {0} \cup (1 .. k) /\ \A y \in {0} \cup (1 .. k) : k >= y
      /\ \A x \in {0} \cup (1 .. k) : (\A y \in {0} \cup (1 .. k) : x >= y) => x = k
    OBVIOUS
<1> QED BY <1>1 DEF Max

\* When the parser returns, the declarations that have been closed are in the result.
LEMMA ReturnSpells ==
    ASSUME DeclInv, SpellInv, DeclInv', Return
    PROVE  SpellInv'
<1> HIDE DEF Spelled, Spoken
<1>1. /\ pc = "parse" /\ pc' = "parsed" /\ la # None /\ Stuck /\ source' = source
      /\ top' = top /\ node' = node /\ Shaped /\ ReadInv /\ syms \in Seq(Symbols)
    BY DEF DeclInv, TypesInv, TreeInv, ParserInv, Return, Abandon, Stuck
<1>2. DeadEmpty /\ Plain /\ WordsTold /\ TopSays
    BY <1>1 DEF SpellInv
<1>3. Consumed + 1 = Len(source) /\ Consumed \in Nat
    BY <1>1 DEF ReadInv, Consumed
<1> HIDE DEF Consumed
<1>4. Under \notin Ending
    BY <1>1, StuckUnder DEF Ending
<1>5. PICK k \in 0 .. Consumed : Spelled[top] = Spoken[k] /\ ClosedIn(source, Consumed + 1) = 1 .. k
    BY <1>2, <1>4 DEF TopSays
<1>6. Accepted = 1 .. k
    BY <1>3, <1>5, SourceIs DEF Accepted
<1>7. Max({0} \cup Accepted) = k
    BY <1>3, <1>5, <1>6, MaxFirst
<1>8. /\ Spelled' = Spelled /\ Spoken' = Spoken /\ Accepted' = Accepted
      /\ DeadEmpty' /\ Plain' /\ WordsTold'
    BY <1>1, <1>2, SameTree, SameSource
<1>9. TreeIsSource'
    BY <1>1, <1>5, <1>7, <1>8 DEF TreeIsSource
<1> QED BY <1>1, <1>8, <1>9 DEF SpellInv

\* The program starts without nodes, words and a result.
LEMMA SpellInit == Init => SpellInv
<1> SUFFICES ASSUME Init PROVE SpellInv
    OBVIOUS
<1>1. pc = "start" /\ source = << >> /\ top = Null /\ node = [a \in Addr |-> FreeNode]
    BY DEF Init, InitStore
<1>2. DeadEmpty /\ Plain
    BY <1>1, StoreAssumption DEF DeadEmpty, Plain, FreeNode, NoRefs
<1>3. WordsTold
    BY <1>1 DEF WordsTold
<1> QED BY <1>1, <1>2, <1>3 DEF SpellInv, TreeIsSource

\* Every step of the program keeps the invariant.
LEMMA SpellStep == DeclInv /\ SpellInv /\ [Next]_vars => SpellInv'
<1> SUFFICES ASSUME DeclInv, SpellInv, [Next]_vars PROVE SpellInv'
    OBVIOUS
<1> HIDE DEF Spelled, Spoken
<1>1. DeclInv'
    BY DeclStep
<1>2. CASE Setup
    BY <1>1, <1>2, SetupSpells
<1>3. CASE Lex
    BY <1>1, <1>3, LexSpells
<1>4. CASE Shift
    BY <1>1, <1>4, ShiftSpells
<1>5. CASE Return
    BY <1>1, <1>5, ReturnSpells
<1>6. CASE Walk \/ NoWalk \/ Teardown
  <2>1. /\ pc' \in {"walked", "crashed", "aborted", "stopped", "done"}
        /\ source' = source /\ node' = node
      BY <1>6 DEF Walk, Printing, NoWalk, Teardown, parser_teardown, parserVars, storeVars
  <2>2. DeadEmpty' /\ Plain' /\ WordsTold'
      BY <2>1, SameTree, SameSource DEF SpellInv
  <2> QED BY <2>1, <2>2 DEF SpellInv, TreeIsSource
<1>7. ASSUME NEW p \in Productions, Reduce(p) PROVE SpellInv'
    BY <1>1, <1>7, ReduceSpells
<1>8. ASSUME NEW p \in Productions, Intern(p) PROVE SpellInv'
    BY <1>1, <1>8, InternSpells
<1>9. CASE UNCHANGED vars
  <2>1. /\ node' = node /\ top' = top /\ pc' = pc /\ source' = source /\ syms' = syms
        /\ la' = la /\ yyvs' = yyvs /\ yytext' = yytext
      BY <1>9 DEF vars, storeVars, parserVars
  <2>2. /\ DeadEmpty' /\ Plain' /\ WordsTold' /\ Spelled' = Spelled /\ Spoken' = Spoken
        /\ Accepted' = Accepted
      BY <2>1, SameTree, SameSource DEF SpellInv
  <2>3. Consumed' = Consumed /\ Under' = Under
        /\ ClosedIn(source, Consumed + 1)' = ClosedIn(source, Consumed + 1)
      BY <2>1 DEF Consumed, Under, ClosedIn
  <2> HIDE DEF Consumed
  <2>4. (Pending' <=> Pending) /\ (Said' <=> Said) /\ (TopSays' <=> TopSays)
        /\ (TreeIsSource' <=> TreeIsSource)
    <3>1. Pending' <=> Pending
        BY <2>1, <2>3 DEF Pending
    <3>2. Said' <=> Said
        BY <2>1, <2>2, <2>3 DEF Said, Says
    <3>3. TopSays' <=> TopSays
        BY <2>1, <2>2, <2>3 DEF TopSays
    <3>4. TreeIsSource' <=> TreeIsSource
        BY <2>1, <2>2 DEF TreeIsSource
    <3> QED BY <3>1, <3>2, <3>3, <3>4
  <2> QED BY <2>1, <2>2, <2>4 DEF SpellInv
<1> QED BY <1>2, <1>3, <1>4, <1>5, <1>6, <1>7, <1>8, <1>9 DEF Next

\* After the parse, also one that has failed, the result holds the names and strings of the
\* declarations that the source completes, each once and in their order, however the
\* productions are made up that keep to the assumptions.
THEOREM TreeRead == Spec => []TreeIsSource
<1>1. SpellInv => TreeIsSource
    BY DEF SpellInv
<1> QED BY <1>1, DeclInit, DeclStep, SpellInit, SpellStep, PTL DEF Spec
=============================================================================
