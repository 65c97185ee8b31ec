-------------------------- MODULE InductionTheorems -------------------------
(***************************************************************************)
(* Induction and recursion over the natural numbers, stated with sets and  *)
(* functions in place of the operators that the library's theorems take,   *)
(* so that SMT and Zenon can use them: to prove P(n) for all n, show that  *)
(* {n \in Nat : P(n)} is closed.                                           *)
(***************************************************************************)
EXTENDS Integers, WellFoundedInduction, TLAPS

\* A set of natural numbers that is not empty has a least element.
LEMMA Least ==
    ASSUME NEW S \in SUBSET Nat, S # {}
    PROVE  \E m \in S : \A k \in S : m <= k
<1> DEFINE R == {ss \in Nat \X Nat : ss[1] < ss[2]}
<1>1. OpToRel(<, Nat) = R
  BY DEF OpToRel
<1>2. IsWellFoundedOn(R, Nat)
  BY <1>1, NatLessThanWellFounded, Zenon
<1>3. PICK x \in S : \A y \in S : ~(<<y, x>> \in R)
  <2> HIDE DEF R
  <2> QED BY <1>2, WFMin
<1>4. ASSUME NEW y \in S PROVE x <= y
  <2>1. <<y, x>> \notin R 
    BY <1>3
  <2> QED BY <2>1
<1> QED BY <1>3, <1>4

\* A set with 0, and with n + 1 for each n in it, is Nat.
LEMMA Induction ==
    ASSUME NEW S \in SUBSET Nat, 0 \in S, \A n \in S : n + 1 \in S
    PROVE  S = Nat
<1>1. SUFFICES ASSUME Nat \ S # {} PROVE FALSE
  OBVIOUS
<1>2. PICK m \in Nat \ S : \A k \in Nat \ S : m <= k
  BY <1>1, Least
<1>3. m - 1 \in S
  BY <1>2
<1> QED BY <1>2, <1>3

\* g gives what each of N steps makes of an element of S.
IsStepping(g, N, S) == g \in [1 .. N -> [S -> S]]

\* f is what becomes of s0 in these steps.
Follows(f, N, S, s0, g) ==
    f \in [0 .. N -> S] /\ f[0] = s0 /\ \A n \in 1 .. N : f[n] = g[n][f[n - 1]]

\* There is such a function.
LEMMA Recursion ==
    ASSUME NEW N, N \in Nat, NEW S, NEW s0, s0 \in S, NEW g, IsStepping(g, N, S)
    PROVE  \E f : Follows(f, N, S, s0, g)
<1> USE DEF IsStepping
<1> DEFINE Has(n) == \E f \in [0 .. n -> S] :
              f[0] = s0 /\ \A m \in 1 .. n : f[m] = g[m][f[m - 1]]
           Z == {n \in Nat : n <= N => Has(n)}
<1>1. Z \in SUBSET Nat
  OBVIOUS
<1>2. 0 \in Z
  <2> DEFINE f == [n \in 0 .. 0 |-> s0]
  <2>1. f \in [0 .. 0 -> S] /\ f[0] = s0 /\ 1 .. 0 = {}
    OBVIOUS
  <2> QED BY <2>1
<1>3. ASSUME NEW n \in Z PROVE n + 1 \in Z
  <2> SUFFICES ASSUME n + 1 <= N PROVE Has(n + 1)
    OBVIOUS
  <2>1. n \in Nat /\ Has(n)
    OBVIOUS
  <2>2. PICK f \in [0 .. n -> S] : 
              f[0] = s0 /\ \A m \in 1 .. n : f[m] = g[m][f[m - 1]]
    BY <2>1
  <2> DEFINE e == [m \in 0 .. n + 1 |-> IF m = n + 1 THEN g[n + 1][f[n]] ELSE f[m]]
  <2>3. g[n + 1][f[n]] \in S
    <3>1. f[n] \in S /\ n + 1 \in 1 .. N
      BY <2>1
    <3> QED BY <3>1
  <2>4. e \in [0 .. n + 1 -> S]
    BY <2>1, <2>3
  <2>5. e[0] = s0
    BY <2>1, <2>2
  <2>6. ASSUME NEW m \in 1 .. n + 1 PROVE e[m] = g[m][e[m - 1]]
    <3>1. CASE m = n + 1
       BY <3>1, <2>1
    <3>2. CASE m # n + 1
       <4>1. m \in 1 .. n /\ m \in 0 .. n + 1 /\ m - 1 \in 0 .. n + 1 /\ m - 1 # n + 1
          BY <3>2, <2>1
       <4>2. e[m] = f[m] /\ e[m - 1] = f[m - 1]
          BY <3>2, <4>1
       <4> QED BY <4>1, <4>2, <2>2
    <3> QED BY <3>1, <3>2
  <2> HIDE DEF e
  <2> QED BY <2>4, <2>5, <2>6
<1>4. N \in Z
  <2> HIDE DEF Z
  <2>1. Z = Nat BY <1>1, <1>2, <1>3, Induction
  <2> QED BY <2>1
<1> QED BY <1>4 DEF Follows
=============================================================================
