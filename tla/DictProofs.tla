----------------------------- MODULE DictProofs -----------------------------
(***************************************************************************)
(* The hash table implements a set of keys, and SCAN over it misses none:  *)
(* proofs.                                                                 *)
(***************************************************************************)
EXTENDS Dict, TLAPS, FiniteSetTheorems, WellFoundedInduction

(* The time that a leaf may take.                                           *)
USE SMTT(40), ZenonT(40), Z3T(40)

(* A remainder lies below its divisor.                                      *)
LEMMA ModRange == ASSUME NEW a \in Nat, NEW n \in Nat \ {0} PROVE a % n \in 0 .. n - 1
  OBVIOUS

Below == {p \in Nat \X Nat : p[1] < p[2]}

(* The order below which least elements are taken.                          *)
LEMMA NaturalsAreWellFounded == IsWellFoundedOn(Below, Nat)
<1>1. OpToRel(<, Nat) = Below
  BY ZenonT(40) DEF OpToRel, Below
<1>2. QED
  BY <1>1, NatLessThanWellFounded, ZenonT(40)

\* A set of naturals that is not empty has a least element.
LEMMA LeastNatural ==
  ASSUME NEW T \in SUBSET Nat, T # {}
  PROVE  \E x \in T : \A y \in T : x <= y
<1>1. PICK x \in T : \A y \in T : ~(<<y, x>> \in Below)
  BY WFMin, NaturalsAreWellFounded, ZenonT(40)
<1>2. ASSUME NEW y \in T PROVE x <= y
  <2>1. <<y, x>> \in Nat \X Nat /\ <<y, x>>[1] = y /\ <<y, x>>[2] = x
    OBVIOUS
  <2>2. ~(<<y, x>>[1] < <<y, x>>[2])
    BY <1>1, <2>1, ZenonT(40) DEF Below
  <2>3. ~(y < x)
    BY <2>1, <2>2
  <2>4. QED
    BY <2>3
<1>3. QED
  BY <1>2

(* Induction over the naturals.                                             *)
LEMMA Induction ==
  ASSUME NEW T, 0 \in T, \A n \in Nat : n \in T => n + 1 \in T
  PROVE  \A n \in Nat : n \in T
<1> DEFINE B == Nat \ T
<1>1. SUFFICES ASSUME B # {} PROVE FALSE
  OBVIOUS
<1>2. PICK m \in B : \A k \in B : m <= k
  BY <1>1, LeastNatural, ZenonT(40)
<1>3. m \in Nat /\ m # 0 /\ m \notin T
  OBVIOUS
<1>4. m - 1 \in Nat /\ ~(m <= m - 1) /\ (m - 1) + 1 = m
  BY <1>3
<1>5. QED
  BY <1>2, <1>3, <1>4

\* f is the recursive function that starts with s and goes on with F.
IsRun(f, n, I, s, F) ==
  f \in [0 .. n -> I] /\ f[0] = s /\ \A i \in 1 .. n : f[i] = F[i][f[i - 1]]

(* A recursion over an interval defines a function.                         *)
LEMMA RunExists ==
  ASSUME NEW n \in Nat, NEW I, NEW s \in I, NEW F \in [1 .. n -> [I -> I]]
  PROVE  \E f : IsRun(f, n, I, s, F)
<1> DEFINE Is(f, m) == /\ f \in [0 .. n -> I] /\ f[0] = s
                       /\ \A i \in 1 .. n : i <= m => f[i] = F[i][f[i - 1]]
           T == {m \in Nat : m <= n => \E f : Is(f, m)}
<1>1. 0 \in T
  <2> DEFINE f == [i \in 0 .. n |-> s]
  <2>1. Is(f, 0)
    OBVIOUS
  <2>2. QED
    BY <2>1
<1>2. ASSUME NEW m \in Nat, m \in T PROVE m + 1 \in T
  <2>1. SUFFICES ASSUME m + 1 <= n PROVE \E f : Is(f, m + 1)
    OBVIOUS
  <2>2. PICK f : Is(f, m)
    BY <2>1, <1>2
  <2> DEFINE v == F[m + 1][f[m]]
             g == [f EXCEPT ![m + 1] = v]
  <2>3. f[m] \in I /\ m + 1 \in 1 .. n
    BY <2>1, <2>2
  <2>4. v \in I
    BY <2>3
  <2> HIDE DEF v
  <2>5. g \in [0 .. n -> I] /\ g[m + 1] = v /\ \A i \in 0 .. n : i # m + 1 => g[i] = f[i]
    BY <2>2, <2>3, <2>4
  <2> HIDE DEF g
  <2>6. g[0] = s /\ g[m] = f[m]
    BY <2>2, <2>3, <2>5
  <2>7. ASSUME NEW i \in 1 .. n, i <= m + 1 PROVE g[i] = F[i][g[i - 1]]
    <3>1. CASE i = m + 1
      BY <3>1, <2>5, <2>6 DEF v
    <3>2. CASE i <= m
      <4>1. g[i] = f[i] /\ g[i - 1] = f[i - 1]
        BY <3>2, <2>5
      <4>2. QED
        BY <3>2, <4>1, <2>2
    <3>3. QED
      BY <3>1, <3>2, <2>7
  <2>8. QED
    BY <2>5, <2>6, <2>7
<1> HIDE DEF T
<1>3. n \in T
  BY <1>1, <1>2, Induction
<1>4. QED
  BY <1>3 DEF T, IsRun

-----------------------------------------------------------------------------
(* Powers of two and reversed bits.                                        *)

(* What the recursion of TwoTo computes.                                    *)
LEMMA TwoToIs ==
  /\ Width \in Nat
  /\ \A w \in 0 .. Width : TwoTo[w] \in Nat \ {0}
  /\ TwoTo[0] = 1
  /\ \A w \in 1 .. Width : TwoTo[w] = 2 * TwoTo[w - 1]
<1> DEFINE I == Nat \ {0}
           F == [i \in 1 .. Width |-> [x \in I |-> 2 * x]]
           P(f) == f = [w \in 0 .. Width |-> IF w = 0 THEN 1 ELSE 2 * f[w - 1]]
<1>1. Width \in Nat /\ 1 \in I /\ F \in [1 .. Width -> [I -> I]]
  BY DictAssumption DEF DictAssumption
<1>2. PICK f : IsRun(f, Width, I, 1, F)
  <2> HIDE DEF I, F
  <2>1. QED
    BY <1>1, RunExists
<1>3. P(f)
  <2>1. f \in [0 .. Width -> I] /\ f[0] = 1 /\ \A i \in 1 .. Width : f[i] = F[i][f[i - 1]]
    BY <1>2 DEF IsRun
  <2>2. ASSUME NEW i \in 0 .. Width PROVE f[i] = IF i = 0 THEN 1 ELSE 2 * f[i - 1]
    <3>1. CASE i # 0
      <4>1. i \in 1 .. Width /\ i - 1 \in 0 .. Width
        BY <1>1, <3>1
      <4>2. f[i - 1] \in I
        BY <2>1, <4>1, ZenonT(40)
      <4>3. F[i][f[i - 1]] = 2 * f[i - 1]
        BY <4>1, <4>2, ZenonT(40)
      <4>4. QED
        BY <2>1, <3>1, <4>1, <4>3, ZenonT(40)
    <3>2. QED
      BY <2>1, <3>1
  <2> HIDE DEF I, F
  <2>3. QED
    BY <2>1, <2>2
<1>4. P(TwoTo)
  <2>1. TwoTo = CHOOSE g : P(g)
    BY DEF TwoTo
  <2> HIDE DEF P
  <2>2. QED
    BY <1>3, <2>1, ZenonT(40)
<1>5. \A w \in 0 .. Width : TwoTo[w] = IF w = 0 THEN 1 ELSE 2 * TwoTo[w - 1]
  BY <1>4, ZenonT(40)
<1>6. ASSUME NEW w \in 0 .. Width PROVE TwoTo[w] \in Nat \ {0}
  <2> DEFINE T == {m \in Nat : m <= Width => TwoTo[m] \in Nat \ {0}}
  <2>1. 0 \in T
    BY <1>1, <1>5
  <2>2. ASSUME NEW m \in Nat, m \in T PROVE m + 1 \in T
    <3>1. SUFFICES ASSUME m + 1 <= Width PROVE TwoTo[m + 1] \in Nat \ {0}
      OBVIOUS
    <3>2. m + 1 \in 0 .. Width /\ m + 1 # 0 /\ (m + 1) - 1 = m /\ m <= Width
      BY <1>1, <3>1
    <3>3. TwoTo[m] \in Nat \ {0} /\ TwoTo[m + 1] = 2 * TwoTo[m]
      BY <1>5, <2>2, <3>2
    <3>4. QED
      BY <3>3
  <2> HIDE DEF T
  <2>3. \A m \in Nat : m \in T
    BY <2>1, <2>2, Induction
  <2>4. QED
    BY <1>1, <2>3 DEF T
<1>7. QED
  BY <1>1, <1>5, <1>6

(* What the recursion of Reversed computes.                                 *)
LEMMA ReversedIs ==
  ASSUME NEW v \in Nat
  PROVE  /\ \A w \in 0 .. Width : Reversed[w][v] \in Nat
         /\ Reversed[0][v] = 0
         /\ \A w \in 1 .. Width :
              Reversed[w][v] = (v % 2) * TwoTo[w - 1] + Reversed[w - 1][v \div 2]
<1> DEFINE I == [Nat -> Nat]
           none == [x \in Nat |-> 0]
           F == [i \in 1 .. Width |->
                   [r \in I |-> [x \in Nat |-> (x % 2) * TwoTo[i - 1] + r[x \div 2]]]]
           P(f) == f = [w \in 0 .. Width |->
                          [x \in Nat |-> IF w = 0 THEN 0
                                         ELSE (x % 2) * TwoTo[w - 1] + f[w - 1][x \div 2]]]
<1>1. \A x \in Nat : x % 2 \in Nat /\ x \div 2 \in Nat
  OBVIOUS
<1>2. F \in [1 .. Width -> [I -> I]]
  <2>1. ASSUME NEW i \in 1 .. Width, NEW r \in I, NEW x \in Nat
        PROVE  (x % 2) * TwoTo[i - 1] + r[x \div 2] \in Nat
    <3>1. TwoTo[i - 1] \in Nat
      BY TwoToIs
    <3>2. r[x \div 2] \in Nat
      BY <1>1
    <3>3. QED
      BY <1>1, <3>1, <3>2
  <2>2. QED
    BY <2>1, ZenonT(40)
<1>3. PICK f : IsRun(f, Width, I, none, F)
  <2>1. none \in I /\ Width \in Nat
    BY TwoToIs
  <2> HIDE DEF I, F, none
  <2>2. QED
    BY <1>2, <2>1, RunExists
<1>4. f \in [0 .. Width -> I] /\ f[0] = none /\ \A i \in 1 .. Width : f[i] = F[i][f[i - 1]]
  BY <1>3, ZenonT(40) DEF IsRun
<1>5. P(f)
  <2>1. ASSUME NEW w \in 0 .. Width
        PROVE  f[w] = [x \in Nat |-> IF w = 0 THEN 0
                                     ELSE (x % 2) * TwoTo[w - 1] + f[w - 1][x \div 2]]
    <3>1. CASE w = 0
      BY <1>4, <3>1
    <3>2. CASE w # 0
      <4>1. w \in 1 .. Width /\ w - 1 \in 0 .. Width
        BY <3>2, TwoToIs
      <4>2. f[w - 1] \in I
        BY <1>4, <4>1, ZenonT(40)
      <4>3. F[w][f[w - 1]] = [x \in Nat |-> (x % 2) * TwoTo[w - 1] + f[w - 1][x \div 2]]
        BY <4>1, <4>2, ZenonT(40)
      <4>4. QED
        BY <1>4, <3>2, <4>1, <4>3, ZenonT(40)
    <3>3. QED
      BY <3>1, <3>2
  <2> HIDE DEF I, F, none
  <2>2. QED
    BY <1>4, <2>1, ZenonT(40)
<1>6. P(Reversed)
  <2>1. Reversed = CHOOSE g : P(g)
    BY DEF Reversed
  <2> HIDE DEF P
  <2>2. QED
    BY <1>5, <2>1, ZenonT(40)
<1>7. \A w \in 0 .. Width, x \in Nat :
        Reversed[w][x] = IF w = 0 THEN 0 ELSE (x % 2) * TwoTo[w - 1] + Reversed[w - 1][x \div 2]
  <2> DEFINE H(w) == [x \in Nat |-> IF w = 0 THEN 0
                                    ELSE (x % 2) * TwoTo[w - 1] + Reversed[w - 1][x \div 2]]
             G == [w \in 0 .. Width |-> H(w)]
  <2>1. Reversed = G
    BY <1>6, ZenonT(40)
  <2>2. \A w \in 0 .. Width : G[w] = H(w)
    <3> HIDE DEF H
    <3>1. QED
      BY ZenonT(40)
  <2>3. \A w \in 0 .. Width : Reversed[w] = H(w)
    <3> HIDE DEF G, H
    <3>1. QED
      BY <2>1, <2>2
  <2>4. \A w \in 0 .. Width, x \in Nat :
          H(w)[x] = IF w = 0 THEN 0 ELSE (x % 2) * TwoTo[w - 1] + Reversed[w - 1][x \div 2]
    BY ZenonT(40)
  <2> HIDE DEF G, H
  <2>5. QED
    BY <2>3, <2>4
<1>8. ASSUME NEW w \in 0 .. Width PROVE \A x \in Nat : Reversed[w][x] \in Nat
  <2> DEFINE T == {m \in Nat : m <= Width => \A x \in Nat : Reversed[m][x] \in Nat}
  <2>1. 0 \in T
    BY <1>7, TwoToIs
  <2>2. ASSUME NEW m \in Nat, m \in T PROVE m + 1 \in T
    <3>1. SUFFICES ASSUME m + 1 <= Width, NEW x \in Nat PROVE Reversed[m + 1][x] \in Nat
      OBVIOUS
    <3>2. m + 1 \in 0 .. Width /\ m + 1 # 0 /\ (m + 1) - 1 = m /\ m \in 0 .. Width
      BY <3>1, TwoToIs
    <3>3. Reversed[m + 1][x] = (x % 2) * TwoTo[m] + Reversed[m][x \div 2]
      BY <1>7, <3>2
    <3>4. TwoTo[m] \in Nat /\ Reversed[m][x \div 2] \in Nat
      BY <1>1, <2>2, <3>2, TwoToIs
    <3>5. QED
      BY <1>1, <3>3, <3>4
  <2> HIDE DEF T
  <2>3. \A m \in Nat : m \in T
    BY <2>1, <2>2, Induction
  <2>4. QED
    BY <2>3, TwoToIs DEF T
<1>9. Reversed[0][v] = 0
  BY <1>7, TwoToIs
<1>10. ASSUME NEW w \in 1 .. Width
       PROVE  Reversed[w][v] = (v % 2) * TwoTo[w - 1] + Reversed[w - 1][v \div 2]
  <2>1. w \in 0 .. Width /\ w # 0
    BY TwoToIs
  <2>2. QED
    BY <1>7, <2>1
<1>11. QED
  BY <1>8, <1>9, <1>10

(* Quotient and remainder.                                                  *)
LEMMA DivMod ==
  ASSUME NEW q \in Nat, NEW n \in Nat \ {0}, NEW r \in 0 .. n - 1
  PROVE  (q * n + r) % n = r /\ (q * n + r) \div n = q
OBVIOUS

(* A number, its quotient and its remainder.                               *)
LEMMA DivModOf ==
  ASSUME NEW x \in Nat, NEW n \in Nat \ {0}
  PROVE  x % n \in 0 .. n - 1 /\ x \div n \in Nat /\ x = (x \div n) * n + (x % n)
OBVIOUS

(* Powers multiply.                                                        *)
LEMMA TwoToSum ==
  ASSUME NEW j \in Nat
  PROVE  \A i \in Nat : i + j <= Width => TwoTo[i + j] = TwoTo[i] * TwoTo[j]
<1> DEFINE T == {i \in Nat : i + j <= Width => TwoTo[i + j] = TwoTo[i] * TwoTo[j]}
<1>1. 0 \in T
  <2>1. SUFFICES ASSUME j <= Width PROVE TwoTo[0 + j] = TwoTo[0] * TwoTo[j]
    OBVIOUS
  <2>2. TwoTo[j] \in Nat /\ TwoTo[0] = 1 /\ 0 + j = j
    BY <2>1, TwoToIs
  <2>3. QED
    BY <2>2
<1>2. ASSUME NEW i \in Nat, i \in T PROVE i + 1 \in T
  <2>1. SUFFICES ASSUME (i + 1) + j <= Width PROVE TwoTo[(i + 1) + j] = TwoTo[i + 1] * TwoTo[j]
    OBVIOUS
  <2>2. /\ i + j <= Width /\ i + 1 \in 1 .. Width /\ (i + 1) - 1 = i
        /\ (i + 1) + j \in 1 .. Width /\ ((i + 1) + j) - 1 = i + j /\ i \in 0 .. Width /\ j \in 0 .. Width
    BY <2>1, TwoToIs
  <2>3. TwoTo[(i + 1) + j] = 2 * TwoTo[i + j] /\ TwoTo[i + 1] = 2 * TwoTo[i]
    BY <2>2, TwoToIs
  <2>4. TwoTo[i + j] = TwoTo[i] * TwoTo[j] /\ TwoTo[i] \in Nat /\ TwoTo[j] \in Nat
    BY <1>2, <2>2, TwoToIs
  <2>5. QED
    BY <2>3, <2>4
<1> HIDE DEF T
<1>3. \A i \in Nat : i \in T
  BY <1>1, <1>2, Induction
<1>4. QED
  BY <1>3 DEF T

(* The recursion of Reversed, one bit up.                                   *)
LEMMA ReversedStep ==
  ASSUME NEW w \in Nat, w + 1 <= Width, NEW q \in Nat, NEW r \in 0 .. 1
  PROVE  /\ Reversed[w + 1][q * 2 + r] = r * TwoTo[w] + Reversed[w][q]
         /\ TwoTo[w + 1] = 2 * TwoTo[w]
         /\ TwoTo[w] \in Nat \ {0}
         /\ Reversed[w][q] \in Nat
<1>1. w + 1 \in 1 .. Width /\ (w + 1) - 1 = w /\ w \in 0 .. Width
  BY TwoToIs
<1>2. (q * 2 + r) % 2 = r /\ (q * 2 + r) \div 2 = q /\ q * 2 + r \in Nat
  BY DivMod
<1>3. Reversed[w + 1][q * 2 + r] = ((q * 2 + r) % 2) * TwoTo[w] + Reversed[w][(q * 2 + r) \div 2]
  <2> DEFINE z == q * 2 + r
  <2>1. z \in Nat
    BY <1>2
  <2> HIDE DEF z
  <2>2. Reversed[w + 1][z] = (z % 2) * TwoTo[w] + Reversed[w][z \div 2]
    BY <1>1, <2>1, ReversedIs
  <2>3. QED
    BY <2>2 DEF z
<1>4. QED
  BY <1>1, <1>2, <1>3, TwoToIs, ReversedIs, ZenonT(40)

(* w bits reversed are w bits.                                             *)
LEMMA ReversedBelow ==
  \A w \in Nat : w <= Width => \A x \in Nat : Reversed[w][x] \in 0 .. TwoTo[w] - 1
<1> DEFINE T == {w \in Nat : w <= Width => \A x \in Nat : Reversed[w][x] \in 0 .. TwoTo[w] - 1}
<1>1. 0 \in T
  BY ReversedIs, TwoToIs
<1>2. ASSUME NEW w \in Nat, w \in T PROVE w + 1 \in T
  <2>1. SUFFICES ASSUME w + 1 <= Width, NEW x \in Nat
                 PROVE  Reversed[w + 1][x] \in 0 .. TwoTo[w + 1] - 1
    OBVIOUS
  <2>2. PICK q \in Nat, r \in 0 .. 1 : x = q * 2 + r
    <3>1. x \div 2 \in Nat /\ x % 2 \in 0 .. 1 /\ x = (x \div 2) * 2 + (x % 2)
      BY DivModOf
    <3>2. QED
      BY <3>1
  <2>3. Reversed[w + 1][x] = r * TwoTo[w] + Reversed[w][q] /\ TwoTo[w + 1] = 2 * TwoTo[w] /\ TwoTo[w] \in Nat
    BY <2>1, <2>2, ReversedStep, ZenonT(40)
  <2>4. Reversed[w][q] \in 0 .. TwoTo[w] - 1
    BY <1>2, <2>1, TwoToIs
  <2>5. CASE r = 0
    BY <2>3, <2>4, <2>5
  <2>6. CASE r = 1
    BY <2>3, <2>4, <2>6
  <2>7. QED
    BY <2>5, <2>6
<1> HIDE DEF T
<1>3. \A w \in Nat : w \in T
  BY <1>1, <1>2, Induction
<1>4. QED
  BY <1>3 DEF T

(* The lower i bits come out above the others.                              *)
LEMMA ReversedSplit ==
  ASSUME NEW j \in Nat, NEW b \in Nat
  PROVE  \A i \in Nat : i + j <= Width => \A a \in 0 .. TwoTo[i] - 1 :
           Reversed[i + j][b * TwoTo[i] + a] = Reversed[i][a] * TwoTo[j] + Reversed[j][b]
<1> DEFINE T == {i \in Nat : i + j <= Width => \A a \in 0 .. TwoTo[i] - 1 :
                   Reversed[i + j][b * TwoTo[i] + a] = Reversed[i][a] * TwoTo[j] + Reversed[j][b]}
<1>1. 0 \in T
  <2>1. SUFFICES ASSUME 0 + j <= Width, NEW a \in 0 .. TwoTo[0] - 1
                 PROVE  Reversed[0 + j][b * TwoTo[0] + a] = Reversed[0][a] * TwoTo[j] + Reversed[j][b]
    OBVIOUS
  <2>2. TwoTo[0] = 1 /\ a = 0 /\ b * TwoTo[0] + a = b /\ 0 + j = j /\ j \in 0 .. Width
    BY <2>1, TwoToIs
  <2>3. Reversed[0][a] = 0 /\ TwoTo[j] \in Nat /\ Reversed[j][b] \in Nat
    BY <2>2, ReversedIs, TwoToIs
  <2>4. QED
    BY <2>2, <2>3
<1>2. ASSUME NEW i \in Nat, i \in T PROVE i + 1 \in T
  <2>1. SUFFICES ASSUME (i + 1) + j <= Width, NEW a \in 0 .. TwoTo[i + 1] - 1
                 PROVE  Reversed[(i + 1) + j][b * TwoTo[i + 1] + a]
                          = Reversed[i + 1][a] * TwoTo[j] + Reversed[j][b]
    OBVIOUS
  <2>2. /\ i + 1 <= Width /\ i + j <= Width /\ (i + 1) + j = (i + j) + 1
        /\ i + j \in Nat /\ i \in 0 .. Width /\ j \in 0 .. Width
    BY <2>1, TwoToIs
  <2>3. i + 1 \in 1 .. Width /\ (i + 1) - 1 = i
    BY <2>2, TwoToIs
  <2>4. TwoTo[i + 1] = 2 * TwoTo[i] /\ TwoTo[i] \in Nat \ {0} /\ TwoTo[j] \in Nat
    BY <2>2, <2>3, TwoToIs
  <2>5. PICK q \in Nat, r \in 0 .. 1 : a = q * 2 + r
    <3>1. a \in Nat
      BY <2>4
    <3>2. a \div 2 \in Nat /\ a % 2 \in 0 .. 1 /\ a = (a \div 2) * 2 + (a % 2)
      BY <3>1, DivModOf
    <3>3. QED
      BY <3>2
  <2>6. q \in 0 .. TwoTo[i] - 1
    BY <2>1, <2>4, <2>5
  <2>7. b * TwoTo[i + 1] + a = (b * TwoTo[i] + q) * 2 + r /\ b * TwoTo[i] + q \in Nat
    BY <2>4, <2>5
  <2>8. Reversed[(i + 1) + j][b * TwoTo[i + 1] + a]
          = r * TwoTo[i + j] + Reversed[i + j][b * TwoTo[i] + q]
    <3> DEFINE z == b * TwoTo[i] + q
               m == i + j
    <3>1. z \in Nat /\ m \in Nat /\ m + 1 <= Width
      BY <2>1, <2>2, <2>7
    <3> HIDE DEF z, m
    <3>2. Reversed[m + 1][z * 2 + r] = r * TwoTo[m] + Reversed[m][z]
      BY <3>1, ReversedStep, ZenonT(40)
    <3>3. QED
      BY <2>2, <2>7, <3>2 DEF z, m
  <2>9. Reversed[i + j][b * TwoTo[i] + q] = Reversed[i][q] * TwoTo[j] + Reversed[j][b]
    BY <1>2, <2>2, <2>6
  <2>10. Reversed[i + 1][a] = r * TwoTo[i] + Reversed[i][q]
    BY <2>2, <2>5, ReversedStep, ZenonT(40)
  <2>11. TwoTo[i + j] = TwoTo[i] * TwoTo[j]
    BY <2>2, TwoToSum
  <2>12. Reversed[i][q] \in Nat /\ Reversed[j][b] \in Nat
    BY <2>2, ReversedIs, ZenonT(40)
  <2>13. (r * TwoTo[i] + Reversed[i][q]) * TwoTo[j]
            = r * (TwoTo[i] * TwoTo[j]) + Reversed[i][q] * TwoTo[j]
    BY <2>4, <2>12
  <2>14. r * (TwoTo[i] * TwoTo[j]) \in Nat /\ Reversed[i][q] * TwoTo[j] \in Nat
    BY <2>4, <2>12
  <2>15. r * (TwoTo[i] * TwoTo[j]) + (Reversed[i][q] * TwoTo[j] + Reversed[j][b])
           = (r * (TwoTo[i] * TwoTo[j]) + Reversed[i][q] * TwoTo[j]) + Reversed[j][b]
    <3> DEFINE s == r * (TwoTo[i] * TwoTo[j])
               t == Reversed[i][q] * TwoTo[j]
               u == Reversed[j][b]
    <3>1. s \in Nat /\ t \in Nat /\ u \in Nat
      BY <2>12, <2>14
    <3> HIDE DEF s, t, u
    <3>2. s + (t + u) = (s + t) + u
      BY <3>1
    <3>3. QED
      BY <3>2 DEF s, t, u
  <2>16. QED
    BY <2>8, <2>9, <2>10, <2>11, <2>13, <2>15, ZenonT(40)
<1> HIDE DEF T
<1>3. \A i \in Nat : i \in T
  BY <1>1, <1>2, Induction
<1>4. QED
  BY <1>3 DEF T

(* All bits 0, and all bits 1.                                             *)
LEMMA ReversedZeroAndOnes ==
  \A w \in Nat : w <= Width => Reversed[w][0] = 0 /\ Reversed[w][TwoTo[w] - 1] = TwoTo[w] - 1
<1> DEFINE T == {w \in Nat : w <= Width => /\ Reversed[w][0] = 0
                                           /\ Reversed[w][TwoTo[w] - 1] = TwoTo[w] - 1}
<1>1. 0 \in T
  BY ReversedIs, TwoToIs
<1>2. ASSUME NEW w \in Nat, w \in T PROVE w + 1 \in T
  <2>1. SUFFICES ASSUME w + 1 <= Width
                 PROVE  Reversed[w + 1][0] = 0 /\ Reversed[w + 1][TwoTo[w + 1] - 1] = TwoTo[w + 1] - 1
    OBVIOUS
  <2>2. Reversed[w][0] = 0 /\ Reversed[w][TwoTo[w] - 1] = TwoTo[w] - 1
    BY <1>2, <2>1, TwoToIs
  <2>3. w + 1 \in 1 .. Width /\ (w + 1) - 1 = w /\ w \in 0 .. Width
    BY <2>1, TwoToIs
  <2>4. TwoTo[w + 1] = 2 * TwoTo[w] /\ TwoTo[w] \in Nat \ {0}
    BY <2>3, TwoToIs
  <2>5. 0 \in Nat /\ 0 \in 0 .. 1 /\ 1 \in 0 .. 1 /\ TwoTo[w] - 1 \in Nat
    BY <2>4
  <2>6. Reversed[w + 1][0 * 2 + 0] = 0 * TwoTo[w] + Reversed[w][0]
    BY <2>1, <2>5, ReversedStep, ZenonT(40)
  <2>7. Reversed[w + 1][(TwoTo[w] - 1) * 2 + 1] = 1 * TwoTo[w] + Reversed[w][TwoTo[w] - 1]
    BY <2>1, <2>5, ReversedStep, ZenonT(40)
  <2>8. (TwoTo[w] - 1) * 2 + 1 = TwoTo[w + 1] - 1 /\ 0 * 2 + 0 = 0
    BY <2>4
  <2>9. Reversed[w + 1][0] = 0
    BY <2>2, <2>4, <2>6, <2>8
  <2>10. Reversed[w + 1][TwoTo[w + 1] - 1] = TwoTo[w + 1] - 1
    BY <2>2, <2>4, <2>7, <2>8
  <2>11. QED
    BY <2>9, <2>10
<1> HIDE DEF T
<1>3. \A w \in Nat : w \in T
  BY <1>1, <1>2, Induction
<1>4. QED
  BY <1>3 DEF T

(* Reversing twice gives the bits back.                                     *)
LEMMA ReversedTwice ==
  \A w \in Nat : w <= Width => \A x \in 0 .. TwoTo[w] - 1 : Reversed[w][Reversed[w][x]] = x
<1> DEFINE T == {w \in Nat : w <= Width => \A x \in 0 .. TwoTo[w] - 1 : Reversed[w][Reversed[w][x]] = x}
<1>1. 0 \in T
  BY ReversedIs, TwoToIs
<1>2. ASSUME NEW w \in Nat, w \in T PROVE w + 1 \in T
  <2>1. SUFFICES ASSUME w + 1 <= Width, NEW x \in 0 .. TwoTo[w + 1] - 1
                 PROVE  Reversed[w + 1][Reversed[w + 1][x]] = x
    OBVIOUS
  <2>2. w + 1 \in 1 .. Width /\ (w + 1) - 1 = w /\ w \in 0 .. Width /\ 1 \in 1 .. Width /\ 1 - 1 = 0
    BY <2>1, TwoToIs
  <2>3. TwoTo[w + 1] = 2 * TwoTo[w] /\ TwoTo[w] \in Nat \ {0} /\ TwoTo[1] = 2 /\ TwoTo[0] = 1
    BY <2>2, TwoToIs
  <2>4. PICK q \in Nat, r \in 0 .. 1 : x = q * 2 + r
    <3>1. x \in Nat
      BY <2>3
    <3>2. x \div 2 \in Nat /\ x % 2 \in 0 .. 1 /\ x = (x \div 2) * 2 + (x % 2)
      BY <3>1, DivModOf
    <3>3. QED
      BY <3>2
  <2>5. q \in 0 .. TwoTo[w] - 1
    BY <2>1, <2>3, <2>4
  <2>6. Reversed[w + 1][x] = r * TwoTo[w] + Reversed[w][q]
    BY <2>1, <2>4, ReversedStep, ZenonT(40)
  <2>7. Reversed[w][q] \in 0 .. TwoTo[w] - 1
    BY <2>2, ReversedBelow
  <2>8. Reversed[w + 1][r * TwoTo[w] + Reversed[w][q]]
          = Reversed[w][Reversed[w][q]] * TwoTo[1] + Reversed[1][r]
    <3>1. r \in Nat /\ 1 \in Nat
      OBVIOUS
    <3>2. QED
      BY <2>1, <2>7, <3>1, ReversedSplit, ZenonT(40)
  <2>9. Reversed[w][Reversed[w][q]] = q
    BY <1>2, <2>2, <2>5
  <2>10. Reversed[1][r] = r
    <3>1. r \in Nat /\ r % 2 = r /\ r \div 2 = 0
      OBVIOUS
    <3>2. Reversed[1][r] = (r % 2) * TwoTo[0] + Reversed[0][r \div 2]
      BY <2>2, <3>1, ReversedIs
    <3>3. Reversed[0][0] = 0
      BY ReversedIs
    <3>4. QED
      BY <2>3, <3>1, <3>2, <3>3
  <2>11. QED
    BY <2>3, <2>4, <2>6, <2>8, <2>9, <2>10
<1> HIDE DEF T
<1>3. \A w \in Nat : w \in T
  BY <1>1, <1>2, Induction
<1>4. QED
  BY <1>3 DEF T

-----------------------------------------------------------------------------
(* A cursor stands at the position of its reversed bits, and an iteration   *)
(* goes up through the positions.                                           *)
Pos(x) == Reversed[Width][x]
End(c) == IF c = 0 THEN TwoTo[Width] ELSE Pos(c)
Cursors == 0 .. TwoTo[Width] - 1

\* In a table of n buckets the positions of a bucket are a block of g of them,
\* and B orders the blocks.
Blocks(n, g, B) ==
  /\ n \in Nat \ {0} /\ g \in Nat \ {0} /\ TwoTo[Width] = n * g
  /\ B \in [0 .. n - 1 -> 0 .. n - 1]
  /\ \A a, b \in 0 .. n - 1 : B[a] = B[b] => a = b
  /\ \A x \in Nat : Pos(x) \in Nat /\ B[x % n] * g <= Pos(x) /\ Pos(x) < B[x % n] * g + g
  /\ \A v \in Cursors : NextCursor(v, n) \in Cursors /\ End(NextCursor(v, n)) = (B[v % n] + 1) * g
  /\ \A c \in Cursors, q \in 0 .. n - 1 : Pos(c) = q * g => c < n

(* A cursor's position is below the largest table's size.                   *)
LEMMA CursorPos ==
  \A c \in Cursors : Pos(c) \in Nat /\ Pos(c) < TwoTo[Width] /\ c \in Nat
<1>1. Width \in Nat /\ TwoTo[Width] \in Nat
  BY TwoToIs
<1>2. SUFFICES ASSUME NEW c \in Cursors PROVE Pos(c) \in Nat /\ Pos(c) < TwoTo[Width] /\ c \in Nat
  OBVIOUS
<1>3. c \in Nat
  BY <1>1 DEF Cursors
<1>4. Reversed[Width][c] \in 0 .. TwoTo[Width] - 1
  BY <1>1, <1>3, ReversedBelow
<1>5. QED
  BY <1>1, <1>3, <1>4 DEF Pos

(* NextCursor goes to the first position behind the block.                  *)
LEMMA NextCursorIs ==
  ASSUME NEW i \in 0 .. Width, NEW n, n = TwoTo[i], NEW g, g = TwoTo[Width - i],
         n \in Nat \ {0}, g \in Nat \ {0}, TwoTo[Width] = n * g,
         NEW v \in Cursors, NEW b \in 0 .. n - 1, b = Reversed[i][v % n]
  PROVE  NextCursor(v, n) \in Cursors /\ End(NextCursor(v, n)) = (b + 1) * g
<1> DEFINE M == TwoTo[Width]
           y == M - n + (v % n)
           p == ((b + 1) * g) % M
<1>1. M \in Nat \ {0} /\ Width \in Nat /\ i \in Nat /\ Width - i \in Nat /\ i + (Width - i) = Width
  BY TwoToIs
<1>2. v % n \in 0 .. n - 1
  <2>1. v \in Nat
    BY <1>1 DEF Cursors
  <2>2. QED
    BY <2>1, DivModOf
<1>3. y = (g - 1) * n + (v % n) /\ g - 1 \in Nat
  <2>1. ASSUME NEW x \in Nat PROVE n * g - n + x = (g - 1) * n + x
    OBVIOUS
  <2>2. v % n \in Nat
    BY <1>2
  <2>3. M - n + (v % n) = (g - 1) * n + (v % n)
    BY <2>1, <2>2, ZenonT(40)
  <2>4. QED
    BY <2>3
<1>4. Pos(y) = b * g + (g - 1)
  <2>1. Reversed[i + (Width - i)][(g - 1) * TwoTo[i] + (v % n)]
          = Reversed[i][v % n] * TwoTo[Width - i] + Reversed[Width - i][g - 1]
    <3>1. i + (Width - i) <= Width /\ v % n \in 0 .. TwoTo[i] - 1
      BY <1>1, <1>2
    <3> DEFINE a == v % n
               j == Width - i
               c == g - 1
    <3>2. i \in Nat /\ j \in Nat /\ c \in Nat /\ i + j <= Width /\ a \in 0 .. TwoTo[i] - 1
      BY <1>1, <1>3, <3>1
    <3> HIDE DEF a, j, c
    <3>3. \A k \in Nat : k + j <= Width => \A x \in 0 .. TwoTo[k] - 1 :
            Reversed[k + j][c * TwoTo[k] + x] = Reversed[k][x] * TwoTo[j] + Reversed[j][c]
      BY <3>2, ReversedSplit, ZenonT(40)
    <3>4. Reversed[i + j][c * TwoTo[i] + a] = Reversed[i][a] * TwoTo[j] + Reversed[j][c]
      BY <3>2, <3>3, ZenonT(40)
    <3>5. QED
      BY <3>4 DEF a, j, c
  <2>2. Reversed[Width - i][g - 1] = g - 1
    BY <1>1, ReversedZeroAndOnes
  <2>3. QED
    BY <1>1, <1>3, <2>1, <2>2, ZenonT(40) DEF Pos
<1>5. y \in Cursors
  <2>1. n <= M
    OBVIOUS
  <2>2. QED
    BY <1>1, <1>2, <2>1 DEF Cursors
<1>6. reverseBits[y] + 1 = (b + 1) * g
  <2>1. reverseBits[y] = Pos(y)
    <3> HIDE DEF y
    <3>1. QED
      BY <1>5, ZenonT(40) DEF reverseBits, Pos, Cursors
  <2>2. (b * g + (g - 1)) + 1 = (b + 1) * g
    OBVIOUS
  <2>3. QED
    BY <1>4, <2>1, <2>2, ZenonT(40)
<1>7. p \in Cursors /\ (b + 1) * g \in Nat
  <2>1. (b + 1) * g \in Nat
    OBVIOUS
  <2>2. QED
    BY <1>1, <2>1, DivModOf, ZenonT(40) DEF Cursors
<1>8. NextCursor(v, n) = Pos(p)
  <2>1. NextCursor(v, n) = reverseBits[(reverseBits[y] + 1) % M]
    BY DEF NextCursor
  <2>2. NextCursor(v, n) = reverseBits[p]
    BY <1>6, <2>1, ZenonT(40)
  <2> HIDE DEF p
  <2>3. QED
    BY <1>7, <2>2, ZenonT(40) DEF reverseBits, Pos, Cursors
<1>9. Pos(p) \in Cursors /\ Pos(Pos(p)) = p
  <2> HIDE DEF p
  <2>1. p \in Nat /\ Width \in Nat /\ Width <= Width
    BY <1>1, <1>7 DEF Cursors
  <2>2. QED
    BY <1>7, <2>1, ReversedBelow, ReversedTwice, ZenonT(40) DEF Pos, Cursors
<1>10. CASE b + 1 = n
  <2>1. (b + 1) * g = M /\ p = 0
    BY <1>1, <1>10
  <2>2. Pos(p) = 0
    BY <1>1, <2>1, ReversedZeroAndOnes DEF Pos
  <2> HIDE DEF p
  <2>3. QED
    BY <1>8, <1>9, <2>1, <2>2 DEF End
<1>11. CASE b + 1 < n
  <2>1. (b + 1) * g < M
    <3>1. ASSUME NEW s \in Nat, NEW t \in Nat, s < t PROVE s * g < t * g
      BY <3>1
    <3>2. b + 1 \in Nat /\ n \in Nat
      OBVIOUS
    <3>3. QED
      BY <1>11, <3>1, <3>2
  <2>2. (b + 1) * g > 0
    OBVIOUS
  <2>3. p = (b + 1) * g
    BY <1>1, <1>7, <2>1
  <2>4. p # 0
    BY <2>2, <2>3
  <2> HIDE DEF p
  <2>5. Pos(p) # 0
    BY <1>1, <1>9, <2>4, ReversedZeroAndOnes DEF Pos
  <2>6. QED
    BY <1>8, <1>9, <2>3, <2>5 DEF End
<1>12. QED
  BY <1>10, <1>11

(* The blocks of a table of 2^i buckets.                                   *)
LEMMA BlocksOf ==
  ASSUME NEW i \in 0 .. Width
  PROVE  Blocks(TwoTo[i], TwoTo[Width - i], [a \in 0 .. TwoTo[i] - 1 |-> Reversed[i][a]])
<1> DEFINE n == TwoTo[i]
           g == TwoTo[Width - i]
           B == [a \in 0 .. n - 1 |-> Reversed[i][a]]
           j == Width - i
<1>1. Width \in Nat /\ i \in Nat /\ j \in Nat /\ i + j = Width /\ i <= Width /\ j <= Width /\ j \in 0 .. Width
  BY TwoToIs
<1>2. n \in Nat \ {0} /\ g \in Nat \ {0}
  BY <1>1, TwoToIs
<1>3. TwoTo[Width] = n * g
  <2> HIDE DEF j
  <2>1. TwoTo[i + j] = TwoTo[i] * TwoTo[j]
    BY <1>1, TwoToSum
  <2>2. QED
    BY <1>1, <2>1 DEF j
<1>4. \A a \in 0 .. n - 1 : a \in Nat /\ B[a] = Reversed[i][a] /\ B[a] \in 0 .. n - 1
  <2>1. ASSUME NEW a \in 0 .. n - 1
        PROVE  a \in Nat /\ B[a] = Reversed[i][a] /\ Reversed[i][a] \in 0 .. n - 1
    <3>1. a \in Nat
      BY <1>2
    <3>2. Reversed[i][a] \in 0 .. TwoTo[i] - 1
      BY <1>1, <3>1, ReversedBelow
    <3>3. QED
      BY <3>1, <3>2
  <2>2. QED
    BY <2>1, ZenonT(40)
<1>5. B \in [0 .. n - 1 -> 0 .. n - 1]
  BY <1>4, ZenonT(40)
<1>6. ASSUME NEW a \in 0 .. n - 1, NEW b \in 0 .. n - 1, B[a] = B[b] PROVE a = b
  <2>1. Reversed[i][Reversed[i][a]] = a /\ Reversed[i][Reversed[i][b]] = b
    BY <1>1, ReversedTwice
  <2>2. QED
    BY <1>4, <1>6, <2>1, ZenonT(40)
<1>7. \A x \in Nat : x % n \in 0 .. n - 1 /\ x \div n \in Nat /\ x = (x \div n) * n + (x % n)
  <2> HIDE DEF n
  <2>1. QED
    BY <1>2, DivModOf, ZenonT(40)
<1>8. ASSUME NEW x \in Nat
      PROVE  Pos(x) \in Nat /\ B[x % n] * g <= Pos(x) /\ Pos(x) < B[x % n] * g + g
  <2> DEFINE a == x % n
             b == x \div n
  <2>1. a \in 0 .. n - 1 /\ b \in Nat /\ x = b * n + a
    BY <1>7, ZenonT(40)
  <2> HIDE DEF a, b, j, B
  <2>2. Reversed[i + j][b * TwoTo[i] + a] = Reversed[i][a] * TwoTo[j] + Reversed[j][b]
    BY <1>1, <2>1, ReversedSplit
  <2>3. Pos(x) = B[a] * g + Reversed[j][b]
    BY <1>1, <1>4, <2>1, <2>2, ZenonT(40) DEF Pos, j
  <2>4. Reversed[j][b] \in 0 .. g - 1
    <3>1. Reversed[j][b] \in 0 .. TwoTo[j] - 1
      BY <1>1, <2>1, ReversedBelow
    <3>2. QED
      BY <3>1 DEF j
  <2>5. B[a] \in Nat
    BY <1>2, <1>4, <2>1
  <2> HIDE DEF n, g
  <2>6. B[a] * g \in Nat
    BY <1>2, <2>5
  <2>7. QED
    BY <1>2, <2>3, <2>4, <2>6 DEF a
<1>9. ASSUME NEW v \in Cursors
      PROVE  NextCursor(v, n) \in Cursors /\ End(NextCursor(v, n)) = (B[v % n] + 1) * g
  <2>1. v \in Nat
    BY <1>1, TwoToIs DEF Cursors
  <2>2. v % n \in 0 .. n - 1
    BY <1>7, <2>1
  <2>3. B[v % n] = Reversed[i][v % n] /\ B[v % n] \in 0 .. n - 1
    BY <1>4, <2>2
  <2> DEFINE b == B[v % n]
  <2>4. n = TwoTo[i] /\ g = TwoTo[Width - i] /\ b \in 0 .. n - 1 /\ b = Reversed[i][v % n]
    BY <2>3
  <2> HIDE DEF n, g, b
  <2>5. NextCursor(v, n) \in Cursors /\ End(NextCursor(v, n)) = (b + 1) * g
    BY <1>2, <1>3, <2>4, NextCursorIs
  <2>6. QED
    BY <2>5 DEF b
<1>10. ASSUME NEW c \in Cursors, NEW q \in 0 .. n - 1, Pos(c) = q * g PROVE c < n
  <2>1. q \in Nat /\ 0 \in 0 .. TwoTo[j] - 1 /\ j + i <= Width /\ j + i = Width /\ TwoTo[i] \in Nat
    BY <1>1, <1>2
  <2> HIDE DEF j, n, g
  <2>2. Reversed[j + i][q * TwoTo[j] + 0] = Reversed[j][0] * TwoTo[i] + Reversed[i][q]
    BY <1>1, <2>1, ReversedSplit, ZenonT(40)
  <2>3. Reversed[j][0] = 0 /\ Reversed[i][q] \in 0 .. TwoTo[i] - 1
    BY <1>1, <2>1, ReversedZeroAndOnes, ReversedBelow
  <2>4. q * TwoTo[j] + 0 = q * g
    BY <1>2, <2>1 DEF j, g
  <2>5. Reversed[j][0] * TwoTo[i] + Reversed[i][q] = Reversed[i][q]
    BY <2>1, <2>3
  <2>6. Pos(q * g) = Reversed[i][q]
    BY <2>1, <2>2, <2>4, <2>5, ZenonT(40) DEF Pos
  <2>7. Pos(Pos(c)) = c
    BY <1>1, ReversedTwice DEF Pos, Cursors
  <2>8. c = Reversed[i][q]
    BY <1>10, <2>6, <2>7, ZenonT(40)
  <2>9. QED
    BY <2>1, <2>3, <2>8 DEF n
<1> HIDE DEF n, g, B
<1>11. Blocks(n, g, B)
  BY <1>2, <1>3, <1>5, <1>6, <1>8, <1>9, <1>10, ZenonT(40) DEF Blocks
<1>12. QED
  BY <1>11 DEF n, g, B

(* Every table has its blocks, and those of a larger table lie within those *)
(* of a smaller one.                                                        *)
LEMMA NestedBlocks ==
  ASSUME NEW m \in Sizes, NEW n \in Sizes, m <= n
  PROVE  \E g, h, B, C, r : r \in Nat /\ Blocks(m, g, B) /\ Blocks(n, h, C) /\ g = r * h
<1>1. PICK i \in 0 .. Width : m = TwoTo[i]
  BY DEF Sizes
<1>2. PICK l \in 0 .. Width : n = TwoTo[l]
  BY DEF Sizes
<1>3. i <= l
  <2>1. SUFFICES ASSUME l < i PROVE FALSE
    BY TwoToIs
  <2> DEFINE d == i - l
  <2>2. l \in Nat /\ d \in Nat /\ d + l = i /\ d \in 1 .. Width /\ d - 1 \in 0 .. Width /\ i <= Width
    BY <2>1, TwoToIs
  <2> HIDE DEF d
  <2>3. TwoTo[d + l] = TwoTo[d] * TwoTo[l]
    BY <2>2, TwoToSum, ZenonT(40)
  <2>4. TwoTo[d] = 2 * TwoTo[d - 1] /\ TwoTo[d - 1] \in Nat \ {0} /\ TwoTo[l] \in Nat \ {0}
    BY <2>2, TwoToIs
  <2>5. ASSUME NEW s \in Nat \ {0}, NEW t \in Nat \ {0} PROVE ~((2 * s) * t <= t)
    OBVIOUS
  <2>6. m = (2 * TwoTo[d - 1]) * TwoTo[l]
    BY <1>1, <2>2, <2>3, <2>4
  <2>7. ~((2 * TwoTo[d - 1]) * TwoTo[l] <= TwoTo[l])
    BY <2>4, <2>5
  <2>8. QED
    BY <1>2, <2>6, <2>7, ZenonT(40)
<1>4. TwoTo[Width - i] = TwoTo[l - i] * TwoTo[Width - l] /\ TwoTo[l - i] \in Nat
  <2> DEFINE d == l - i
             e == Width - l
  <2>1. d \in Nat /\ e \in Nat /\ d + e = Width - i /\ d + e <= Width /\ d \in 0 .. Width
    BY <1>3, TwoToIs
  <2> HIDE DEF d, e
  <2>2. TwoTo[d + e] = TwoTo[d] * TwoTo[e]
    BY <2>1, TwoToSum
  <2>3. TwoTo[d] \in Nat
    BY <2>1, TwoToIs
  <2>4. QED
    BY <2>1, <2>2, <2>3, ZenonT(40) DEF d, e
<1>5. QED
  BY <1>1, <1>2, <1>4, BlocksOf, ZenonT(40)

-----------------------------------------------------------------------------
(* The cursors of a call of Dict::scan.                                    *)

(* Multiples of a block's length are ordered as the blocks are.            *)
LEMMA Multiples ==
  ASSUME NEW a \in Nat, NEW b \in Nat, NEW g \in Nat \ {0}
  PROVE  /\ a * g \in Nat
         /\ a * g < b * g => a < b
         /\ a < b => (a + 1) * g <= b * g
         /\ a <= b => a * g <= b * g
         /\ (a + 1) * g = a * g + g
OBVIOUS

(* What lies in the rest of a cursor's block lies in its bucket.            *)
LEMMA SameBucket ==
  ASSUME NEW n, NEW g, NEW B, Blocks(n, g, B), NEW v \in Nat, NEW x \in Nat,
         Pos(v) <= Pos(x), Pos(x) < (B[v % n] + 1) * g
  PROVE  x % n = v % n
<1>1. n \in Nat \ {0} /\ g \in Nat \ {0} /\ B \in [0 .. n - 1 -> 0 .. n - 1]
  BY ZenonT(40) DEF Blocks
<1>2. x % n \in 0 .. n - 1 /\ v % n \in 0 .. n - 1
  BY <1>1, DivModOf, ZenonT(40)
<1>3. B[x % n] \in Nat /\ B[v % n] \in Nat
  BY <1>1, <1>2
<1>4. /\ Pos(v) \in Nat /\ B[v % n] * g <= Pos(v)
      /\ Pos(x) \in Nat /\ B[x % n] * g <= Pos(x) /\ Pos(x) < B[x % n] * g + g
  BY ZenonT(40) DEF Blocks
<1> DEFINE a == B[x % n]
           b == B[v % n]
<1>5. a \in Nat /\ b \in Nat /\ a + 1 \in Nat /\ b + 1 \in Nat
  BY <1>3
<1> HIDE DEF a, b
<1>6. a * g \in Nat /\ b * g \in Nat /\ (a + 1) * g = a * g + g /\ (b + 1) * g \in Nat
  BY <1>1, <1>5, Multiples
<1>7. a * g < (b + 1) * g /\ b * g < (a + 1) * g
  <2>1. /\ Pos(v) \in Nat /\ b * g <= Pos(v) /\ Pos(x) < (b + 1) * g
        /\ Pos(x) \in Nat /\ a * g <= Pos(x) /\ Pos(x) < a * g + g
    BY <1>4, ZenonT(40) DEF a, b
  <2> DEFINE s == a * g
             t == b * g
             u == (b + 1) * g
  <2>2. s \in Nat /\ t \in Nat /\ u \in Nat
    BY <1>6
  <2>3. t <= Pos(v) /\ Pos(x) < u /\ s <= Pos(x) /\ Pos(x) < s + g
    BY <2>1, ZenonT(40)
  <2>4. Pos(v) \in Nat /\ Pos(x) \in Nat /\ Pos(v) <= Pos(x)
    BY <2>1, ZenonT(40)
  <2> HIDE DEF s, t, u
  <2>5. s < u /\ t < s + g
    <3> DEFINE p == Pos(v)
               r == Pos(x)
    <3>1. g \in Nat /\ p \in Nat /\ r \in Nat /\ p <= r
      BY <1>1, <2>4
    <3>2. t <= p /\ r < u /\ s <= r /\ r < s + g
      BY <2>3
    <3> HIDE DEF p, r
    <3>3. QED
      BY <2>2, <3>1, <3>2
  <2>6. QED
    BY <1>6, <2>5, ZenonT(40) DEF s, t, u
<1>8. a < b + 1 /\ b < a + 1
  BY <1>1, <1>5, <1>7, Multiples
<1>9. a = b
  BY <1>5, <1>8
<1>10. QED
  BY <1>2, <1>9, ZenonT(40) DEF Blocks, a, b

(* The larger table's cursors go up to the end of the smaller one's block.  *)
Walks(at, v, n) == at[0] = v /\ \A j \in 1 .. n : at[j] = NextCursor(at[j - 1], n)
Stops(c, m, n) == c % n = c % m

(* One step of the walk.                                                   *)
LEMMA WalkStep ==
  ASSUME NEW m, NEW g, NEW B, NEW n, NEW h, NEW C, NEW r \in Nat, m <= n,
         Blocks(m, g, B), Blocks(n, h, C), g = r * h,
         NEW q \in 1 .. m, NEW j \in Nat, NEW c \in Cursors,
         Pos(c) < q * g, j * h <= Pos(c)
  PROVE  /\ NextCursor(c, n) \in Cursors
         /\ End(NextCursor(c, n)) <= q * g
         /\ (j + 1) * h <= End(NextCursor(c, n))
<1>1. m \in Nat \ {0} /\ n \in Nat \ {0} /\ g \in Nat \ {0} /\ h \in Nat \ {0} /\ c \in Nat
  BY TwoToIs DEF Blocks, Cursors
<1>2. NextCursor(c, n) \in Cursors /\ End(NextCursor(c, n)) = (C[c % n] + 1) * h
  BY ZenonT(40) DEF Blocks
<1>3. c % n \in 0 .. n - 1 /\ C \in [0 .. n - 1 -> 0 .. n - 1]
  BY <1>1, DivModOf, ZenonT(40) DEF Blocks
<1> DEFINE b == C[c % n]
<1>4. b \in Nat
  BY <1>1, <1>3
<1>5. Pos(c) \in Nat /\ b * h <= Pos(c) /\ Pos(c) < b * h + h
  BY <1>1 DEF Blocks
<1> HIDE DEF b
<1>6. q * g = (q * r) * h /\ q \in Nat /\ q * r \in Nat
  BY <1>1
<1>7. b * h \in Nat /\ b * h < (q * r) * h
  BY <1>1, <1>4, <1>5, <1>6, Multiples
<1>8. b < q * r
  BY <1>1, <1>4, <1>6, <1>7, Multiples, ZenonT(40)
<1>9. (b + 1) * h <= (q * r) * h
  BY <1>1, <1>4, <1>6, <1>8, Multiples, ZenonT(40)
<1>10. (b + 1) * h = b * h + h /\ b + 1 \in Nat
  BY <1>1, <1>4, Multiples
<1>11. j * h < (b + 1) * h
  BY <1>1, <1>5, <1>7, <1>10
<1>12. j < b + 1
  BY <1>1, <1>10, <1>11, Multiples, ZenonT(40)
<1>13. (j + 1) * h <= (b + 1) * h
  BY <1>1, <1>10, <1>12, Multiples, ZenonT(40)
<1>14. End(NextCursor(c, n)) = (b + 1) * h
  BY <1>2 DEF b
<1>15. QED
  BY <1>2, <1>6, <1>9, <1>13, <1>14

(* A cursor at the end of a block of the smaller table stops the walk.      *)
LEMMA StopsAtBoundary ==
  ASSUME NEW m, NEW g, NEW B, NEW n, m <= n, n \in Nat,
         Blocks(m, g, B), NEW q \in 1 .. m, NEW c \in Cursors, End(c) = q * g
  PROVE  Stops(c, m, n)
<1>1. m \in Nat \ {0} /\ g \in Nat \ {0} /\ c \in Nat /\ n \in Nat \ {0}
  BY TwoToIs DEF Blocks, Cursors
<1>2. CASE c < m
  BY <1>1, <1>2 DEF Stops
<1>3. CASE ~(c < m)
  <2>1. c # 0
    BY <1>1, <1>3
  <2>2. Pos(c) = q * g
    BY <2>1 DEF End
  <2>3. q = m
    BY <1>1, <1>3, <2>2 DEF Blocks
  <2>4. Pos(c) \in 0 .. TwoTo[Width] - 1 /\ TwoTo[Width] = m * g
    BY <1>1, ReversedBelow, TwoToIs DEF Pos, Blocks
  <2>5. QED
    BY <1>1, <2>2, <2>3, <2>4
<1>4. QED
  BY <1>2, <1>3

(* As long as it has not stopped, the walk lies within the block and goes   *)
(* up a block of the larger table by every step.                            *)
LEMMA WalkBounds ==
  ASSUME NEW m, NEW g, NEW B, NEW n, NEW h, NEW C, NEW r \in Nat, m <= n,
         Blocks(m, g, B), Blocks(n, h, C), g = r * h,
         NEW v \in Cursors, NEW at, Walks(at, v, n), NEW q, q = B[v % m] + 1
  PROVE  \A j \in 1 .. n : (\A i \in 1 .. j - 1 : ~Stops(at[i], m, n)) =>
            at[j - 1] \in Cursors /\ at[j] \in Cursors /\ End(at[j]) <= q * g /\ j * h <= End(at[j])
<1> DEFINE W(j) == at[j] \in Cursors /\ End(at[j]) <= q * g /\ j * h <= End(at[j])
           T == {j \in Nat : (j + 1 <= n /\ \A i \in 1 .. j : ~Stops(at[i], m, n))
                               => at[j] \in Cursors /\ W(j + 1)}
<1>1. m \in Nat \ {0} /\ n \in Nat \ {0} /\ g \in Nat \ {0} /\ h \in Nat \ {0} /\ v \in Nat
  BY TwoToIs DEF Blocks, Cursors
<1>2. v % m \in 0 .. m - 1
  BY <1>1, DivModOf, ZenonT(40)
<1>3. B[v % m] \in 0 .. m - 1
  BY <1>2, ZenonT(40) DEF Blocks
<1>4. q \in 1 .. m /\ q \in Nat
  BY <1>1, <1>3
<1>5. \A c \in Cursors : Pos(c) \in Nat /\ Pos(c) < TwoTo[Width] /\ c \in Nat
  BY CursorPos
<1>6. Pos(v) < q * g /\ 0 * h <= Pos(v)
  <2>1. Pos(v) < B[v % m] * g + g
    BY <1>1, ZenonT(40) DEF Blocks
  <2> DEFINE b == B[v % m]
  <2>2. b \in Nat /\ q = b + 1
    BY <1>1, <1>3
  <2>3. Pos(v) < b * g + g
    BY <2>1
  <2> HIDE DEF b
  <2>4. (b + 1) * g = b * g + g
    BY <1>1, <2>2, Multiples
  <2>5. QED
    BY <1>1, <1>5, <2>2, <2>3, <2>4
<1>7. ASSUME NEW j \in Nat, j + 1 <= n, at[j] \in Cursors, Pos(at[j]) < q * g, j * h <= Pos(at[j])
      PROVE  W(j + 1)
  <2>1. at[j + 1] = NextCursor(at[j], n)
    <3>1. j + 1 \in 1 .. n /\ (j + 1) - 1 = j
      BY <1>1, <1>7
    <3>2. QED
      BY <3>1 DEF Walks
  <2> DEFINE c == at[j]
  <2>2. c \in Cursors /\ Pos(c) < q * g /\ j * h <= Pos(c)
    BY <1>7
  <2> HIDE DEF c
  <2>3. /\ NextCursor(c, n) \in Cursors
        /\ End(NextCursor(c, n)) <= q * g
        /\ (j + 1) * h <= End(NextCursor(c, n))
    BY <1>4, <2>2, WalkStep, ZenonT(40)
  <2>4. QED
    BY <2>1, <2>3, ZenonT(40) DEF c
<1>8. 0 \in T
  <2>1. SUFFICES ASSUME 0 + 1 <= n PROVE at[0] \in Cursors /\ W(0 + 1)
    OBVIOUS
  <2>2. at[0] = v
    BY DEF Walks
  <2>3. QED
    BY <1>6, <1>7, <2>1, <2>2, ZenonT(40)
<1>9. ASSUME NEW j \in Nat, j \in T PROVE j + 1 \in T
  <2> DEFINE k == j + 1
  <2>1. SUFFICES ASSUME k + 1 <= n, \A i \in 1 .. k : ~Stops(at[i], m, n)
                 PROVE  at[k] \in Cursors /\ W(k + 1)
    OBVIOUS
  <2>2. k <= n /\ k \in Nat /\ k \in 1 .. k /\ \A i \in 1 .. j : i \in 1 .. k
    BY <1>1, <2>1
  <2>3. at[k] \in Cursors /\ W(k) /\ ~Stops(at[k], m, n)
    BY <1>9, <2>1, <2>2
  <2> HIDE DEF k
  <2>4. at[k] # 0
    <3>1. 0 % n = 0 /\ 0 % m = 0
      BY <1>1
    <3>2. QED
      BY <2>3, <3>1 DEF Stops
  <2>5. End(at[k]) = Pos(at[k])
    BY <2>4 DEF End
  <2>6. End(at[k]) # q * g
    BY <1>1, <1>4, <2>3, StopsAtBoundary, ZenonT(40)
  <2>7. Pos(at[k]) < q * g
    <3>1. Pos(at[k]) \in Nat
      BY <1>5, <2>3, ZenonT(40)
    <3>2. q * g \in Nat
      BY <1>1, <1>4
    <3>3. QED
      BY <2>3, <2>5, <2>6, <3>1, <3>2
  <2>8. k * h <= Pos(at[k])
    BY <2>3, <2>5, ZenonT(40)
  <2>9. QED
    BY <1>7, <2>1, <2>2, <2>3, <2>7, <2>8, ZenonT(40)
<1> HIDE DEF T
<1>10. \A j \in Nat : j \in T
  BY <1>8, <1>9, Induction
<1>11. ASSUME NEW j \in 1 .. n, \A i \in 1 .. j - 1 : ~Stops(at[i], m, n)
       PROVE  at[j - 1] \in Cursors /\ W(j)
  <2> DEFINE k == j - 1
  <2>1. k \in Nat /\ k + 1 = j /\ k + 1 <= n
    BY <1>1
  <2>2. \A i \in 1 .. k : ~Stops(at[i], m, n)
    BY <1>11
  <2> HIDE DEF k
  <2>3. at[k] \in Cursors /\ W(k + 1)
    BY <1>10, <2>1, <2>2, ZenonT(40) DEF T
  <2>4. QED
    BY <2>1, <2>3, ZenonT(40) DEF k
<1>12. QED
  BY <1>11

(* The walk stops.                                                          *)
LEMMA WalkStops ==
  ASSUME NEW m, NEW g, NEW B, NEW n, NEW h, NEW C, NEW r \in Nat, m <= n,
         Blocks(m, g, B), Blocks(n, h, C), g = r * h,
         NEW v \in Cursors, NEW at, Walks(at, v, n)
  PROVE  \E j \in 1 .. n : Stops(at[j], m, n) /\ \A i \in 1 .. j - 1 : ~Stops(at[i], m, n)
<1> DEFINE T == {j \in 1 .. n : Stops(at[j], m, n)}
<1>1. m \in Nat \ {0} /\ n \in Nat \ {0} /\ h \in Nat \ {0} /\ TwoTo[Width] = n * h
  BY ZenonT(40) DEF Blocks
<1>2. T # {}
  <2>1. SUFFICES ASSUME \A i \in 1 .. n : ~Stops(at[i], m, n) PROVE FALSE
    OBVIOUS
  <2>2. n \in 1 .. n /\ \A i \in 1 .. n - 1 : i \in 1 .. n
    BY <1>1
  <2>3. at[n] \in Cursors /\ n * h <= End(at[n])
    BY <2>1, <2>2, WalkBounds, ZenonT(40)
  <2>4. at[n] # 0
    <3>1. 0 % n = 0 /\ 0 % m = 0
      BY <1>1
    <3>2. QED
      BY <2>1, <2>2, <3>1 DEF Stops
  <2>5. Pos(at[n]) \in Nat /\ Pos(at[n]) < TwoTo[Width] /\ TwoTo[Width] \in Nat
    BY <2>3, ReversedBelow, TwoToIs DEF Pos, Cursors
  <2>6. End(at[n]) = Pos(at[n])
    BY <2>4 DEF End
  <2>7. QED
    BY <1>1, <2>3, <2>5, <2>6
<1>3. T \in SUBSET Nat
  BY <1>1
<1>4. PICK j \in T : \A i \in T : j <= i
  BY <1>2, <1>3, LeastNatural, ZenonT(40)
<1>5. \A i \in 1 .. j - 1 : i \in 1 .. n /\ ~(j <= i)
  BY <1>1
<1>6. QED
  BY <1>4, <1>5, ZenonT(40)

(* And it passes every bucket from the cursor to where it stops, all of one *)
(* bucket of the smaller table.                                             *)
LEMMA WalkCovers ==
  ASSUME NEW m, NEW g, NEW B, NEW n, NEW h, NEW C, NEW r \in Nat, m <= n,
         Blocks(m, g, B), Blocks(n, h, C), g = r * h,
         NEW v \in Cursors, NEW at, Walks(at, v, n),
         NEW last \in 1 .. n, \A i \in 1 .. last - 1 : ~Stops(at[i], m, n),
         NEW x \in Nat, Pos(v) <= Pos(x), Pos(x) < End(at[last])
  PROVE  /\ x % m = v % m
         /\ \E j \in 0 .. last - 1 : x % n = at[j] % n
<1> DEFINE T == {j \in 1 .. last : Pos(x) < End(at[j])}
<1>1. m \in Nat \ {0} /\ n \in Nat \ {0} /\ g \in Nat \ {0} /\ h \in Nat \ {0} /\ last \in Nat
  <2>1. m \in Nat \ {0} /\ n \in Nat \ {0} /\ g \in Nat \ {0} /\ h \in Nat \ {0}
    BY ZenonT(40) DEF Blocks
  <2>2. QED
    BY <2>1
<1>2. \A j \in 1 .. last : at[j - 1] \in Cursors /\ End(at[j]) <= (B[v % m] + 1) * g
  <2>1. ASSUME NEW j \in 1 .. last
        PROVE  j \in 1 .. n /\ \A i \in 1 .. j - 1 : i \in 1 .. last - 1
    BY <1>1
  <2>2. QED
    BY <2>1, WalkBounds, ZenonT(40)
<1>3. \A c \in Cursors : c \in Nat /\ Pos(c) \in Nat /\ End(c) \in Nat
  BY ReversedBelow, TwoToIs DEF Pos, Cursors, End
<1>4. x % m = v % m
  <2>1. last \in 1 .. last
    BY <1>1
  <2>2. End(at[last]) <= (B[v % m] + 1) * g
    BY <1>2, <2>1
  <2>3. B[v % m] \in Nat /\ v \in Nat
    <3>1. v \in Nat
      BY <1>3
    <3>2. v % m \in 0 .. m - 1
      BY <1>1, <3>1, DivModOf, ZenonT(40)
    <3>3. B[v % m] \in 0 .. m - 1
      BY <3>2, ZenonT(40) DEF Blocks
    <3>4. QED
      BY <1>1, <3>1, <3>3
  <2>4. Pos(x) \in Nat /\ (B[v % m] + 1) * g \in Nat
    <3>1. (B[v % m] + 1) * g \in Nat
      BY <1>1, <2>3
    <3>2. QED
      BY <3>1, ReversedBelow, TwoToIs DEF Pos
  <2>5. at[last] \in Cursors
    BY WalkBounds, ZenonT(40)
  <2>6. End(at[last]) \in Nat
    BY <1>3, <2>5
  <2>7. Pos(x) < (B[v % m] + 1) * g
    BY <2>2, <2>4, <2>6
  <2>8. QED
    BY <2>3, <2>7, SameBucket, ZenonT(40)
<1>5. T \in SUBSET Nat /\ T # {}
  BY <1>1
<1>6. PICK j \in T : \A i \in T : j <= i
  BY <1>5, LeastNatural, ZenonT(40)
<1>7. j \in 1 .. last /\ Pos(x) < End(at[j]) /\ j \in 1 .. n /\ j - 1 \in 0 .. last - 1
  BY <1>1
<1>8. at[j] = NextCursor(at[j - 1], n)
  BY <1>7 DEF Walks
<1>9. Pos(at[j - 1]) <= Pos(x)
  <2>1. CASE j = 1
    <3>1. at[j - 1] = v
      BY <2>1 DEF Walks
    <3>2. QED
      BY <3>1
  <2>2. CASE j # 1
    <3>1. j - 1 \in 1 .. last /\ j - 1 \in 1 .. last - 1 /\ ~(j <= j - 1)
      BY <1>1, <1>7, <2>2
    <3>2. ~(Pos(x) < End(at[j - 1]))
      BY <1>6, <3>1
    <3>3. at[j - 1] # 0
      <4>1. 0 % n = 0 /\ 0 % m = 0
        BY <1>1
      <4>2. ~Stops(at[j - 1], m, n)
        BY <3>1
      <4>3. QED
        BY <4>1, <4>2 DEF Stops
    <3>4. End(at[j - 1]) = Pos(at[j - 1])
      BY <3>3 DEF End
    <3>5. Pos(x) \in Nat /\ Pos(at[j - 1]) \in Nat
      <4>1. Pos(x) \in Nat
        BY ReversedBelow, TwoToIs DEF Pos
      <4>2. QED
        BY <1>2, <1>3, <1>7, <4>1
    <3>6. QED
      BY <3>2, <3>4, <3>5
  <2>3. QED
    BY <2>1, <2>2
<1>10. x % n = at[j - 1] % n
  <2> DEFINE c == at[j - 1]
  <2>1. c \in Cursors /\ c \in Nat /\ Pos(c) <= Pos(x)
    BY <1>2, <1>3, <1>7, <1>9, ZenonT(40)
  <2>2. Pos(x) < End(NextCursor(c, n))
    BY <1>7, <1>8
  <2> HIDE DEF c
  <2>3. End(NextCursor(c, n)) = (C[c % n] + 1) * h
    BY <2>1, ZenonT(40) DEF Blocks
  <2>4. Pos(x) < (C[c % n] + 1) * h
    BY <2>2, <2>3, ZenonT(40)
  <2>5. x % n = c % n
    BY <2>1, <2>4, SameBucket, ZenonT(40)
  <2>6. QED
    BY <2>5 DEF c
<1>11. QED
  BY <1>4, <1>7, <1>10

-----------------------------------------------------------------------------
(* One table: n buckets t that hold u keys.                                *)

\* The keys that a search of the table finds.
Filed(t, n) == {k \in Keys : k \in t[Hash[k] % n]}

TableOK(t, n, u) ==
  /\ n \in Nat \ {0} /\ n \in Sizes
  /\ t \in [0 .. n - 1 -> SUBSET Keys]
  /\ \A b \in 0 .. n - 1 : \A k \in t[b] : Hash[k] % n = b
  /\ u = Cardinality(Filed(t, n))

\* A key's bucket is one of the table's.
LEMMA BucketExists ==
  ASSUME NEW n \in Nat \ {0}, NEW k \in Keys
  PROVE  Hash[k] % n \in 0 .. n - 1
BY ModRange, DictAssumption, ZenonT(40) DEF DictAssumption

(* A table with finite buckets files finitely many keys.                    *)
LEMMA FiledIsFinite ==
  ASSUME NEW t, NEW n
  PROVE  IsFiniteSet(Filed(t, n)) /\ Cardinality(Filed(t, n)) \in Nat
<1>1. Filed(t, n) \subseteq Keys
  BY DEF Filed
<1>2. QED
  BY <1>1, FS_Subset, FS_CardinalityType, DictAssumption DEF DictAssumption

(* A table of empty buckets is sound and files nothing.                     *)
LEMMA EmptyTableOK ==
  ASSUME NEW n \in Sizes
  PROVE  TableOK(EmptyTable(n), n, 0) /\ Filed(EmptyTable(n), n) = {}
<1>0. n \in Nat \ {0}
  BY TwoToIs DEF Sizes
<1>1. EmptyTable(n) \in [0 .. n - 1 -> SUBSET Keys] /\ \A b \in 0 .. n - 1 : EmptyTable(n)[b] = {}
  BY DEF EmptyTable
<1>2. Filed(EmptyTable(n), n) = {}
  BY <1>0, <1>1, BucketExists DEF Filed
<1>3. QED
  BY <1>0, <1>1, <1>2, FS_EmptySet DEF TableOK

\* What buckets hold and what a search finds is the same.
LEMMA FiledIsHeld ==
  ASSUME NEW t, NEW n, NEW u, TableOK(t, n, u), NEW b \in 0 .. n - 1
  PROVE  t[b] = {k \in Filed(t, n) : Hash[k] % n = b}
BY DEF TableOK, Filed

(* Filing a key in its bucket: the table stays sound, the key joins.        *)
LEMMA AddToTable ==
  ASSUME NEW t, NEW n, NEW u, TableOK(t, n, u), NEW k \in Keys, k \notin t[Hash[k] % n]
  PROVE  TableOK(Added(t, n, k), n, u + 1) /\ Filed(Added(t, n, k), n) = Filed(t, n) \cup {k}
<1> DEFINE h == Hash[k] % n
           s == Added(t, n, k)
<1>1. h \in 0 .. n - 1
  BY BucketExists DEF TableOK
<1>2. s \in [0 .. n - 1 -> SUBSET Keys] /\ s[h] = t[h] \cup {k}
      /\ \A b \in 0 .. n - 1 : b # h => s[b] = t[b]
  BY <1>1 DEF TableOK, Added
<1>3. \A b \in 0 .. n - 1 : \A j \in s[b] : Hash[j] % n = b
  BY <1>2 DEF TableOK
<1>4. Filed(s, n) = Filed(t, n) \cup {k}
  <2> HIDE DEF s
  <2>1. ASSUME NEW j \in Keys PROVE j \in s[Hash[j] % n] <=> j \in t[Hash[j] % n] \/ j = k
    <3>1. Hash[j] % n \in 0 .. n - 1
      BY BucketExists DEF TableOK
    <3>2. QED
      BY <1>2, <3>1
  <2>2. QED
    BY <2>1 DEF Filed
<1>5. k \notin Filed(t, n)
  BY DEF Filed
<1>6. Cardinality(Filed(s, n)) = u + 1
  <2> DEFINE S == Filed(t, n)
  <2>1. u = Cardinality(S) /\ IsFiniteSet(S) /\ (k \in S <=> k \in Filed(t, n)) /\ Filed(s, n) = S \cup {k}
    BY <1>4, FiledIsFinite DEF TableOK
  <2> HIDE DEF S, s
  <2>2. k \notin S
    BY <1>5, <2>1
  <2>3. Cardinality(S \cup {k}) = Cardinality(S) + 1
    BY <2>1, <2>2, FS_AddElement, ZenonT(40)
  <2>4. QED
    BY <2>1, <2>3
<1>7. QED
  BY <1>2, <1>3, <1>4, <1>6 DEF TableOK

(* Taking a key out of its bucket: the table stays sound, the key leaves.   *)
LEMMA TakeFromTable ==
  ASSUME NEW t, NEW n, NEW u, TableOK(t, n, u), NEW k \in Keys, k \in t[Hash[k] % n]
  PROVE  TableOK(Removed(t, n, k), n, u - 1) /\ Filed(Removed(t, n, k), n) = Filed(t, n) \ {k}
<1> DEFINE h == Hash[k] % n
           s == Removed(t, n, k)
<1>1. h \in 0 .. n - 1
  BY BucketExists DEF TableOK
<1>2. s \in [0 .. n - 1 -> SUBSET Keys] /\ s[h] = t[h] \ {k}
      /\ \A b \in 0 .. n - 1 : b # h => s[b] = t[b]
  BY <1>1 DEF TableOK, Removed
<1>3. \A b \in 0 .. n - 1 : \A j \in s[b] : Hash[j] % n = b
  BY <1>2 DEF TableOK
<1>4. Filed(s, n) = Filed(t, n) \ {k}
  <2> HIDE DEF s
  <2>1. ASSUME NEW j \in Keys PROVE j \in s[Hash[j] % n] <=> j \in t[Hash[j] % n] /\ j # k
    <3>1. Hash[j] % n \in 0 .. n - 1
      BY BucketExists DEF TableOK
    <3>2. QED
      BY <1>2, <3>1
  <2>2. QED
    BY <2>1 DEF Filed
<1>5. k \in Filed(t, n)
  BY DEF Filed
<1>6. Cardinality(Filed(s, n)) = u - 1
  <2> DEFINE S == Filed(t, n)
  <2>1. u = Cardinality(S) /\ IsFiniteSet(S) /\ (k \in S <=> k \in Filed(t, n)) /\ Filed(s, n) = S \ {k}
    BY <1>4, FiledIsFinite DEF TableOK
  <2> HIDE DEF S, s
  <2>2. QED
    BY <1>5, <2>1, FS_RemoveElement, ZenonT(40)
<1>7. QED
  BY <1>2, <1>3, <1>4, <1>6 DEF TableOK

-----------------------------------------------------------------------------
(* The dictionary.                                                         *)

\* While it rehashes the two tables are sound and share no key, and the buckets
\* below the mark are empty.
DictOK(d) ==
  /\ TableOK(d.t0, d.n0, d.u0)
  /\ d.at = -1 => d.u1 = 0
  /\ d.at # -1 =>
       /\ d.at \in 0 .. d.n0
       /\ \A b \in 0 .. d.at - 1 : d.t0[b] = {}
       /\ TableOK(d.t1, d.n1, d.u1)
       /\ Filed(d.t0, d.n0) \cap Filed(d.t1, d.n1) = {}

Members(d) == {k \in Keys : Holds(d, k)}

(* A key of the dictionary lies in one of the two tables.                   *)
LEMMA MembersAreFiled ==
  ASSUME NEW d, DictOK(d)
  PROVE  /\ IsRehashing(d) <=> d.at # -1
         /\ d.at = -1 => Members(d) = Filed(d.t0, d.n0)
         /\ d.at # -1 => Members(d) = Filed(d.t0, d.n0) \cup Filed(d.t1, d.n1)
<1>1. IsRehashing(d) <=> d.at # -1
  BY DEF DictOK, IsRehashing, TableOK
<1>2. QED
  BY <1>1 DEF Members, Holds, Filed

\* As long as keys are left in the first table, a bucket at or above the mark holds one.
LEMMA NextFullExists ==
  ASSUME NEW d, DictOK(d), d.at # -1, d.u0 # 0
  PROVE  /\ NextFull(d) \in d.at .. d.n0 - 1
         /\ d.t0[NextFull(d)] # {}
         /\ \A c \in d.at .. NextFull(d) - 1 : d.t0[c] = {}
<1> DEFINE T == {b \in d.at .. d.n0 - 1 : d.t0[b] # {}}
<1>1. PICK k \in Keys : k \in d.t0[Hash[k] % d.n0]
  <2>1. Filed(d.t0, d.n0) # {}
    BY FS_EmptySet, ZenonT(40) DEF DictOK, TableOK
  <2>2. QED
    BY <2>1 DEF Filed
<1>2. Hash[k] % d.n0 \in 0 .. d.n0 - 1
  BY BucketExists DEF DictOK, TableOK
<1>3. d.at \in Nat /\ d.n0 \in Nat
  BY DEF DictOK, TableOK
<1>4. Hash[k] % d.n0 \in d.at .. d.n0 - 1
  BY <1>1, <1>2, <1>3 DEF DictOK
<1>5. T \in SUBSET Nat /\ T # {}
  BY <1>1, <1>3, <1>4
<1>6. PICK b \in T : \A y \in T : b <= y
  BY <1>5, LeastNatural, ZenonT(40)
<1>7. b \in d.at .. d.n0 - 1 /\ d.t0[b] # {} /\ \A c \in d.at .. b - 1 : d.t0[c] = {}
  BY <1>3, <1>6
<1>8. QED
  BY <1>7, ZenonT(40) DEF NextFull

(* One bucket moved to the new table: same keys, still sound.               *)
LEMMA MoveBucketOK ==
  ASSUME NEW d, DictOK(d), d.at # -1, NEW b \in d.at .. d.n0 - 1,
         \A c \in d.at .. b - 1 : d.t0[c] = {}
  PROVE  DictOK(MoveBucket(d, b)) /\ Members(MoveBucket(d, b)) = Members(d)
         /\ MoveBucket(d, b).at # -1
<1> DEFINE moved == d.t0[b]
           s0 == [d.t0 EXCEPT ![b] = {}]
           s1 == [c \in 0 .. d.n1 - 1 |-> d.t1[c] \cup {k \in moved : Hash[k] % d.n1 = c}]
           F0 == Filed(d.t0, d.n0)
           F1 == Filed(d.t1, d.n1)
<1>1. /\ d.at \in Nat /\ d.n0 \in Nat \ {0} /\ d.n1 \in Nat \ {0} /\ b \in 0 .. d.n0 - 1
      /\ d.n0 \in Sizes /\ d.n1 \in Sizes
  BY DEF DictOK, TableOK
<1>2. moved = {k \in F0 : Hash[k] % d.n0 = b} /\ moved \subseteq F0 /\ moved \subseteq Keys
  BY <1>1, FiledIsHeld DEF DictOK, Filed
<1>3. s0 \in [0 .. d.n0 - 1 -> SUBSET Keys] /\ s0[b] = {}
      /\ \A c \in 0 .. d.n0 - 1 : c # b => s0[c] = d.t0[c]
  BY <1>1 DEF DictOK, TableOK
<1>4. Filed(s0, d.n0) = F0 \ moved
  <2> HIDE DEF s0
  <2>1. ASSUME NEW k \in Keys
        PROVE  k \in s0[Hash[k] % d.n0] <=> k \in d.t0[Hash[k] % d.n0] /\ Hash[k] % d.n0 # b
    BY <1>1, <1>3, BucketExists
  <2>2. QED
    BY <2>1, <1>2 DEF Filed
<1>5. IsFiniteSet(moved) /\ Cardinality(moved) \in Nat
  BY <1>2, FiledIsFinite, FS_Subset, FS_CardinalityType
<1>6. Cardinality(F0 \ moved) = d.u0 - Cardinality(moved)
  <2>1. F0 \cap moved = moved
    BY <1>2
  <2>2. IsFiniteSet(F0) /\ Cardinality(F0) = d.u0
    BY FiledIsFinite DEF DictOK, TableOK
  <2> HIDE DEF F0, moved
  <2>3. Cardinality(F0 \ moved) = Cardinality(F0) - Cardinality(F0 \cap moved)
    BY <2>2, FS_Difference
  <2>4. QED
    BY <2>1, <2>2, <2>3
<1>7. TableOK(s0, d.n0, d.u0 - Cardinality(moved))
  <2>1. \A c \in 0 .. d.n0 - 1 : \A k \in s0[c] : Hash[k] % d.n0 = c
    BY <1>3 DEF DictOK, TableOK
  <2>2. QED
    BY <2>1, <1>1, <1>3, <1>4, <1>6, ZenonT(40) DEF TableOK
<1>8. s1 \in [0 .. d.n1 - 1 -> SUBSET Keys]
      /\ \A c \in 0 .. d.n1 - 1 : s1[c] = d.t1[c] \cup {k \in moved : Hash[k] % d.n1 = c}
  BY <1>2 DEF DictOK, TableOK
<1>9. Filed(s1, d.n1) = F1 \cup moved
  <2> HIDE DEF s1
  <2>1. ASSUME NEW k \in Keys
        PROVE  k \in s1[Hash[k] % d.n1] <=> k \in d.t1[Hash[k] % d.n1] \/ k \in moved
    BY <1>1, <1>8, BucketExists
  <2>2. QED
    BY <2>1, <1>2 DEF Filed
<1>10. Cardinality(F1 \cup moved) = d.u1 + Cardinality(moved)
  <2>1. F1 \cap moved = {}
    BY <1>2 DEF DictOK
  <2>2. IsFiniteSet(F1) /\ Cardinality(F1) = d.u1 /\ d.u1 \in Nat
    BY FiledIsFinite DEF DictOK, TableOK
  <2> HIDE DEF F1, moved
  <2>3. Cardinality(F1 \cup moved) = Cardinality(F1) + Cardinality(moved) - Cardinality(F1 \cap moved)
    BY <1>5, <2>2, FS_Union
  <2>4. QED
    BY <1>5, <2>1, <2>2, <2>3, FS_EmptySet
<1>11. TableOK(s1, d.n1, d.u1 + Cardinality(moved))
  <2>1. \A c \in 0 .. d.n1 - 1 : \A k \in s1[c] : Hash[k] % d.n1 = c
    BY <1>8 DEF DictOK, TableOK
  <2>2. QED
    BY <2>1, <1>1, <1>8, <1>9, <1>10, ZenonT(40) DEF TableOK
<1>12. MoveBucket(d, b) = [n0 |-> d.n0, t0 |-> s0, u0 |-> d.u0 - Cardinality(moved),
                           n1 |-> d.n1, t1 |-> s1, u1 |-> d.u1 + Cardinality(moved), at |-> b + 1]
  BY DEF MoveBucket, Tables
<1>13. \A c \in 0 .. b : s0[c] = {}
  <2>1. ASSUME NEW c \in 0 .. b - 1 PROVE d.t0[c] = {}
    <3>1. c \in 0 .. d.at - 1 \/ c \in d.at .. b - 1
      BY <1>1
    <3>2. QED
      BY <3>1 DEF DictOK
  <2> HIDE DEF s0
  <2>2. ASSUME NEW c \in 0 .. b PROVE s0[c] = {}
    <3>1. CASE c = b
      BY <1>3, <3>1, ZenonT(40)
    <3>2. CASE c # b
      <4>1. c \in 0 .. b - 1 /\ c \in 0 .. d.n0 - 1
        BY <1>1, <3>2
      <4>2. QED
        BY <1>3, <2>1, <3>2, <4>1, ZenonT(40)
    <3>3. QED
      BY <3>1, <3>2, ZenonT(40)
  <2>3. QED
    BY <2>2, ZenonT(40)
<1>14. (F0 \ moved) \cap (F1 \cup moved) = {} /\ (F0 \ moved) \cup (F1 \cup moved) = F0 \cup F1
  BY <1>2 DEF DictOK
<1> HIDE DEF s0, s1, moved, F0, F1
<1>15. DictOK(MoveBucket(d, b))
  BY <1>1, <1>4, <1>7, <1>9, <1>11, <1>12, <1>13, <1>14 DEF DictOK
<1>16. MoveBucket(d, b).at # -1
  BY <1>1, <1>12
<1>17. Members(MoveBucket(d, b)) = F0 \cup F1
  BY <1>4, <1>9, <1>12, <1>14, <1>15, <1>16, MembersAreFiled
<1>18. Members(d) = F0 \cup F1
  BY MembersAreFiled DEF F0, F1
<1>19. QED
  BY <1>15, <1>16, <1>17, <1>18

\* rehashSteps' loop and its end keep the table sound and its keys the same.
LEMMA MigrateOK ==
  ASSUME NEW d, DictOK(d), d.at # -1, NEW visits \in Nat
  PROVE  /\ DictOK(Migrate(d, visits)) /\ Members(Migrate(d, visits)) = Members(d)
         /\ Migrate(d, visits).at # -1
         /\ Passes(d) \in Nat
<1> DEFINE e == Tables(d.n0, d.t0, d.u0, d.n1, d.t1, d.u1, d.at + visits)
<1>1. d.u0 \in Nat /\ d.at \in Nat /\ d.n0 \in Nat
  BY FiledIsFinite DEF DictOK, TableOK
<1>2. CASE d.u0 = 0
  BY <1>2 DEF Migrate, Passes
<1>3. CASE d.u0 > 0
  <2>1. /\ NextFull(d) \in d.at .. d.n0 - 1
        /\ \A c \in d.at .. NextFull(d) - 1 : d.t0[c] = {}
    BY <1>1, <1>3, NextFullExists
  <2>2. Passes(d) = NextFull(d) - d.at /\ Passes(d) \in Nat
    BY <1>1, <1>3, <2>1 DEF Passes
  <2>3. CASE Passes(d) < visits
    <3>1. Migrate(d, visits) = MoveBucket(d, NextFull(d))
      BY <1>1, <1>3, <2>2, <2>3 DEF Migrate
    <3>2. QED
      BY <2>1, <2>2, <3>1, MoveBucketOK
  <2>4. CASE Passes(d) >= visits
    <3>1. Migrate(d, visits) = e
      BY <1>1, <1>3, <2>2, <2>4 DEF Migrate
    <3>2. /\ e.n0 = d.n0 /\ e.t0 = d.t0 /\ e.u0 = d.u0
          /\ e.n1 = d.n1 /\ e.t1 = d.t1 /\ e.u1 = d.u1 /\ e.at = d.at + visits
      BY DEF Tables
    <3> HIDE DEF e
    <3>3. e.at \in 0 .. d.n0 /\ e.at # -1
      BY <1>1, <2>1, <2>2, <2>4, <3>2
    <3>4. ASSUME NEW c \in 0 .. e.at - 1 PROVE d.t0[c] = {}
      <4>1. c \in 0 .. d.at - 1 \/ c \in d.at .. NextFull(d) - 1
        BY <1>1, <2>1, <2>2, <2>4, <3>2
      <4>2. QED
        BY <4>1, <2>1 DEF DictOK
    <3>5. DictOK(e)
      BY <3>2, <3>3, <3>4 DEF DictOK
    <3>6. Members(e) = Members(d)
      BY <3>2, <3>3, <3>5, MembersAreFiled, ZenonT(40)
    <3>7. QED
      BY <2>2, <3>1, <3>3, <3>5, <3>6
  <2>5. QED
    BY <1>1, <2>2, <2>3, <2>4
<1>4. QED
  BY <1>1, <1>2, <1>3

(* Swapping the tables once the old one is empty loses no key.              *)
LEMMA FinishOK ==
  ASSUME NEW d, DictOK(d), d.at # -1
  PROVE  DictOK(Finish(d)) /\ Members(Finish(d)) = Members(d)
<1> DEFINE e == OneTable(d.n1, d.t1, d.u1)
<1>1. CASE d.u0 # 0
  BY <1>1 DEF Finish
<1>2. CASE d.u0 = 0
  <2>1. e.n0 = d.n1 /\ e.t0 = d.t1 /\ e.u0 = d.u1 /\ e.u1 = 0 /\ e.at = -1
    BY DEF OneTable, Tables
  <2> HIDE DEF e
  <2>2. DictOK(e)
    BY <2>1 DEF DictOK
  <2>3. Filed(d.t0, d.n0) = {}
    BY <1>2, FS_EmptySet, FiledIsFinite, ZenonT(40) DEF DictOK, TableOK
  <2>4. Members(e) = Members(d)
    BY <2>1, <2>2, <2>3, MembersAreFiled
  <2>5. QED
    BY <1>2, <2>2, <2>4 DEF Finish, e
<1>3. QED
  BY <1>1, <1>2

(* A step of the rehash, idle or not, keeps the keys.                       *)
LEMMA RehashStepOK ==
  ASSUME NEW d, DictOK(d)
  PROVE  DictOK(rehashStep(d)) /\ Members(rehashStep(d)) = Members(d)
<1>1. CASE d.at = -1
  BY <1>1, MembersAreFiled DEF rehashStep
<1>2. CASE d.at # -1
  <2>1. EmptyVisits \in Nat
    BY DictAssumption DEF DictAssumption
  <2>2. QED
    BY <1>2, <2>1, MigrateOK, FinishOK, MembersAreFiled DEF rehashStep
<1>3. QED
  BY <1>1, <1>2

(* Starting a resize keeps the keys.                                        *)
LEMMA ResizeOK ==
  ASSUME NEW d, DictOK(d), d.at = -1, NEW n \in Sizes
  PROVE  DictOK(resizeTo(d, n)) /\ Members(resizeTo(d, n)) = Members(d)
<1> DEFINE e == resizeTo(d, n)
<1>1. /\ e.n0 = d.n0 /\ e.t0 = d.t0 /\ e.u0 = d.u0
      /\ e.n1 = n /\ e.t1 = EmptyTable(n) /\ e.u1 = 0 /\ e.at = 0
  BY DEF resizeTo, Tables
<1> HIDE DEF e
<1>2. TableOK(e.t1, e.n1, e.u1) /\ Filed(e.t1, e.n1) = {}
  BY <1>1, EmptyTableOK
<1>3. DictOK(e)
  <2>1. TableOK(e.t0, e.n0, e.u0)
    BY <1>1, ZenonT(40) DEF DictOK
  <2>2. e.n0 \in Nat
    BY <2>1 DEF TableOK
  <2>3. e.at \in 0 .. e.n0 /\ e.at # -1 /\ 0 .. e.at - 1 = {}
    BY <1>1, <2>2
  <2>4. QED
    BY <1>2, <2>1, <2>3, ZenonT(40) DEF DictOK
<1>4. Members(e) = Members(d)
  BY <1>1, <1>2, <1>3, MembersAreFiled
<1>5. QED
  BY <1>3, <1>4 DEF e

(* A table never holds so many keys that it cannot be doubled.              *)
LEMMA UsedBound ==
  ASSUME NEW d, DictOK(d)
  PROVE  d.u0 \in Nat /\ d.u0 <= Cardinality(Keys) /\ Cardinality(Keys) \in Nat /\ d.u0 < TwoTo[Width]
<1>1. Filed(d.t0, d.n0) \subseteq Keys
  BY DEF Filed
<1>2. d.u0 \in Nat /\ d.u0 <= Cardinality(Keys) /\ Cardinality(Keys) \in Nat
  BY <1>1, FiledIsFinite, FS_Subset, FS_CardinalityType, DictAssumption
  DEF DictOK, TableOK, DictAssumption
<1>3. QED
  BY <1>2, TwoToIs, DictAssumption DEF DictAssumption

(* expandIfNeeded keeps the keys.                                           *)
LEMMA ExpandOK ==
  ASSUME NEW d, DictOK(d)
  PROVE  DictOK(expandIfNeeded(d)) /\ Members(expandIfNeeded(d)) = Members(d)
<1>1. CASE d.at = -1 /\ ~(d.u0 < d.n0)
  <2>1. PICK i \in 0 .. Width : d.n0 = TwoTo[i]
    BY DEF DictOK, TableOK, Sizes
  <2>2. d.u0 \in Nat /\ d.u0 < TwoTo[Width] /\ TwoTo[Width] \in Nat
    BY UsedBound, TwoToIs
  <2>3. i # Width
    BY <1>1, <2>1, <2>2
  <2>4. i + 1 \in 1 .. Width /\ i + 1 \in 0 .. Width /\ (i + 1) - 1 = i
    BY <2>3, TwoToIs
  <2>5. d.n0 * 2 = TwoTo[i + 1]
    BY <2>1, <2>4, TwoToIs
  <2>6. d.n0 * 2 \in Sizes
    BY <2>4, <2>5 DEF Sizes
  <2>7. expandIfNeeded(d) = resizeTo(d, d.n0 * 2)
    BY <1>1, MembersAreFiled DEF expandIfNeeded
  <2>8. QED
    BY <1>1, <2>6, <2>7, ResizeOK
<1>2. CASE ~(d.at = -1 /\ ~(d.u0 < d.n0))
  BY <1>2, MembersAreFiled DEF expandIfNeeded
<1>3. QED
  BY <1>1, <1>2

(* shrinkIfNeeded keeps the keys.                                           *)
LEMMA ShrinkOK ==
  ASSUME NEW d, DictOK(d)
  PROVE  DictOK(shrinkIfNeeded(d)) /\ Members(shrinkIfNeeded(d)) = Members(d)
<1>1. SizeFor(d.u0 + 1) \in Sizes
  BY UsedBound, DictAssumption DEF DictAssumption
<1>2. QED
  BY <1>1, ResizeOK, MembersAreFiled DEF shrinkIfNeeded

(* Put adds the one key.                                                    *)
LEMMA PutOK ==
  ASSUME NEW d, DictOK(d), NEW k \in Keys, k \notin Members(d)
  PROVE  DictOK(Put(d, k)) /\ Members(Put(d, k)) = Members(d) \cup {k}
<1> DEFINE e == Put(d, k)
<1>1. CASE d.at = -1
  <2>1. e.n0 = d.n0 /\ e.t0 = Added(d.t0, d.n0, k) /\ e.u0 = d.u0 + 1 /\ e.u1 = d.u1 /\ e.at = -1
    BY <1>1, MembersAreFiled DEF Put, Tables
  <2> HIDE DEF e
  <2>2. k \notin d.t0[Hash[k] % d.n0]
    BY <1>1, MembersAreFiled DEF Filed
  <2>3. TableOK(e.t0, e.n0, e.u0) /\ Filed(e.t0, e.n0) = Filed(d.t0, d.n0) \cup {k}
    BY <2>1, <2>2, AddToTable DEF DictOK
  <2>4. DictOK(e)
    BY <1>1, <2>1, <2>3 DEF DictOK
  <2>5. QED
    BY <1>1, <2>1, <2>3, <2>4, MembersAreFiled DEF e
<1>2. CASE d.at # -1
  <2>1. /\ e.n0 = d.n0 /\ e.t0 = d.t0 /\ e.u0 = d.u0 /\ e.at = d.at
        /\ e.n1 = d.n1 /\ e.t1 = Added(d.t1, d.n1, k) /\ e.u1 = d.u1 + 1
    BY <1>2, MembersAreFiled, ZenonT(40) DEF Put, Tables
  <2> HIDE DEF e
  <2>2. k \notin Filed(d.t0, d.n0) /\ k \notin Filed(d.t1, d.n1)
    BY <1>2, MembersAreFiled
  <2>3. k \notin d.t1[Hash[k] % d.n1]
    BY <2>2 DEF Filed
  <2>4. TableOK(e.t1, e.n1, e.u1) /\ Filed(e.t1, e.n1) = Filed(d.t1, d.n1) \cup {k}
    BY <1>2, <2>1, <2>3, AddToTable DEF DictOK
  <2>5. DictOK(e)
    BY <1>2, <2>1, <2>2, <2>4 DEF DictOK
  <2>6. QED
    BY <1>2, <2>1, <2>4, <2>5, MembersAreFiled DEF e
<1>3. QED
  BY <1>1, <1>2

(* Take removes the one key.                                                *)
LEMMA TakeOK ==
  ASSUME NEW d, DictOK(d), NEW k \in Keys, k \in Members(d)
  PROVE  DictOK(Take(d, k)) /\ Members(Take(d, k)) = Members(d) \ {k}
<1> DEFINE e == Take(d, k)
<1>1. CASE k \in d.t0[Hash[k] % d.n0]
  <2>1. /\ e.n0 = d.n0 /\ e.t0 = Removed(d.t0, d.n0, k) /\ e.u0 = d.u0 - 1 /\ e.at = d.at
        /\ e.n1 = d.n1 /\ e.t1 = d.t1 /\ e.u1 = d.u1
    BY <1>1, ZenonT(40) DEF Take, Tables
  <2> HIDE DEF e
  <2>2. TableOK(e.t0, e.n0, e.u0) /\ Filed(e.t0, e.n0) = Filed(d.t0, d.n0) \ {k}
    BY <1>1, <2>1, TakeFromTable DEF DictOK
  <2>3. k \in Filed(d.t0, d.n0)
    BY <1>1 DEF Filed
  <2>4. ASSUME d.at # -1, NEW b \in 0 .. d.at - 1 PROVE e.t0[b] = {}
    <3>1. b \in 0 .. d.n0 - 1 /\ d.t0[b] = {}
      BY <2>4 DEF DictOK, TableOK
    <3>2. e.t0[b] = {j \in Filed(e.t0, e.n0) : Hash[j] % e.n0 = b}
      BY <2>1, <2>2, <3>1, FiledIsHeld
    <3>3. d.t0[b] = {j \in Filed(d.t0, d.n0) : Hash[j] % d.n0 = b}
      BY <3>1, FiledIsHeld DEF DictOK
    <3>4. QED
      BY <2>1, <2>2, <3>1, <3>2, <3>3
  <2>5. DictOK(e)
    BY <2>1, <2>2, <2>4 DEF DictOK
  <2>6. d.at # -1 => k \notin Filed(d.t1, d.n1)
    BY <2>3 DEF DictOK
  <2>7. QED
    BY <2>1, <2>2, <2>5, <2>6, MembersAreFiled DEF e
<1>2. CASE k \notin d.t0[Hash[k] % d.n0]
  <2>1. /\ e.n0 = d.n0 /\ e.t0 = d.t0 /\ e.u0 = d.u0 /\ e.at = d.at
        /\ e.n1 = d.n1 /\ e.t1 = Removed(d.t1, d.n1, k) /\ e.u1 = d.u1 - 1
    BY <1>2, ZenonT(40) DEF Take, Tables
  <2> HIDE DEF e
  <2>2. k \notin Filed(d.t0, d.n0)
    BY <1>2 DEF Filed
  <2>3. d.at # -1 /\ k \in Filed(d.t1, d.n1)
    BY <2>2, MembersAreFiled
  <2>4. k \in d.t1[Hash[k] % d.n1]
    BY <2>3 DEF Filed
  <2>5. TableOK(e.t1, e.n1, e.u1) /\ Filed(e.t1, e.n1) = Filed(d.t1, d.n1) \ {k}
    <3>1. TableOK(d.t1, d.n1, d.u1)
      BY <2>3 DEF DictOK
    <3> DEFINE t == Removed(d.t1, d.n1, k)
    <3>2. TableOK(t, d.n1, d.u1 - 1) /\ Filed(t, d.n1) = Filed(d.t1, d.n1) \ {k}
      BY <2>4, <3>1, TakeFromTable
    <3> HIDE DEF t
    <3>3. e.t1 = t /\ e.n1 = d.n1 /\ e.u1 = d.u1 - 1
      BY <2>1 DEF t
    <3>4. QED
      BY <3>2, <3>3
  <2>6. Filed(e.t0, e.n0) \cap Filed(e.t1, e.n1) = {}
    BY <2>1, <2>3, <2>5 DEF DictOK
  <2>7. DictOK(e)
    BY <2>1, <2>3, <2>5, <2>6 DEF DictOK
  <2>8. Members(e) = Filed(d.t0, d.n0) \cup (Filed(d.t1, d.n1) \ {k})
    BY <2>1, <2>3, <2>5, <2>7, MembersAreFiled
  <2>9. Members(d) = Filed(d.t0, d.n0) \cup Filed(d.t1, d.n1)
    BY <2>3, MembersAreFiled
  <2>10. QED
    BY <2>2, <2>7, <2>8, <2>9, ZenonT(40) DEF e
<1>3. QED
  BY <1>1, <1>2

(* The lookup of the bucket tells membership.                               *)
LEMMA HoldsIsMember ==
  ASSUME NEW d, NEW k \in Keys PROVE Holds(d, k) = (k \in Members(d))
<1>1. Holds(d, k) <=> k \in Members(d)
  BY DEF Members
<1>2. Holds(d, k) \in BOOLEAN
  BY DEF Holds, IsRehashing
<1>3. QED
  BY <1>1, <1>2

(* find, with its step of the rehash, keeps the keys.                       *)
LEMMA FindOK ==
  ASSUME NEW d, DictOK(d)
  PROVE  DictOK(AfterFind(d)) /\ Members(AfterFind(d)) = Members(d)
BY RehashStepOK DEF AfterFind

(* insert adds the one key.                                                 *)
LEMMA InsertOK ==
  ASSUME NEW d, DictOK(d), NEW k \in Keys
  PROVE  DictOK(AfterInsert(d, k)) /\ Members(AfterInsert(d, k)) = Members(d) \cup {k}
<1> DEFINE found == AfterFind(rehashStep(d))
<1>1. DictOK(found) /\ Members(found) = Members(d)
  BY RehashStepOK, FindOK
<1> HIDE DEF found
<1>2. CASE Holds(found, k)
  BY <1>1, <1>2, HoldsIsMember, ZenonT(40) DEF AfterInsert, found
<1>3. CASE ~Holds(found, k)
  <2>1. DictOK(expandIfNeeded(found)) /\ Members(expandIfNeeded(found)) = Members(d)
    BY <1>1, ExpandOK
  <2>2. k \notin Members(expandIfNeeded(found))
    BY <1>1, <1>3, <2>1, HoldsIsMember, ZenonT(40)
  <2>3. AfterInsert(d, k) = Put(expandIfNeeded(found), k)
    BY <1>3 DEF AfterInsert, found
  <2>4. QED
    BY <2>1, <2>2, <2>3, PutOK
<1>4. QED
  BY <1>2, <1>3

(* erase removes the one key.                                               *)
LEMMA EraseOK ==
  ASSUME NEW d, DictOK(d), NEW k \in Keys
  PROVE  DictOK(AfterErase(d, k)) /\ Members(AfterErase(d, k)) = Members(d) \ {k}
<1> DEFINE stepped == AfterFind(d)
<1>1. DictOK(stepped) /\ Members(stepped) = Members(d)
  BY FindOK
<1> HIDE DEF stepped
<1>2. k \in Members(stepped) <=> Holds(stepped, k)
  BY <1>1, HoldsIsMember, ZenonT(40)
<1>3. CASE ~Holds(stepped, k)
  <2>1. AfterErase(d, k) = stepped
    BY <1>3, ZenonT(40) DEF AfterErase, stepped
  <2>2. Members(d) \ {k} = Members(d)
    BY <1>1, <1>2, <1>3, ZenonT(40)
  <2>3. QED
    BY <1>1, <2>1, <2>2, ZenonT(40)
<1>4. CASE Holds(stepped, k)
  <2>1. DictOK(Take(stepped, k)) /\ Members(Take(stepped, k)) = Members(stepped) \ {k}
    BY <1>1, <1>2, <1>4, TakeOK, ZenonT(40)
  <2>2. AfterErase(d, k) = shrinkIfNeeded(Take(stepped, k))
    BY <1>4, ZenonT(40) DEF AfterErase, stepped
  <2>3. QED
    BY <1>1, <2>1, <2>2, ShrinkOK, ZenonT(40)
<1>5. QED
  BY <1>3, <1>4, ZenonT(40)

(* A new dictionary is sound and empty.                                     *)
LEMMA NewOK == DictOK(New) /\ Members(New) = {}
<1>1. New.n0 = InitialSize /\ New.t0 = EmptyTable(InitialSize) /\ New.u0 = 0 /\ New.u1 = 0 /\ New.at = -1
  BY DEF New, OneTable, Tables
<1>2. TableOK(New.t0, New.n0, New.u0) /\ Filed(New.t0, New.n0) = {}
  BY <1>1, EmptyTableOK, DictAssumption DEF DictAssumption
<1>3. DictOK(New)
  BY <1>1, <1>2 DEF DictOK
<1>4. QED
  BY <1>1, <1>2, <1>3, MembersAreFiled


-----------------------------------------------------------------------------
(* SCAN.                                                                   *)

\* s, a cursor and keys, has every key of K from the position of v to that of the cursor.
Reaches(K, v, s) ==
  /\ s \in [cursor : Cursors, out : SUBSET Keys]
  /\ \A k \in K : Pos(v) <= Pos(Hash[k]) /\ Pos(Hash[k]) < End(s.cursor) => k \in s.out

(* Hashes are naturals.                                                    *)
LEMMA HashIsNat == ASSUME NEW k \in Keys PROVE Hash[k] \in Nat
BY DictAssumption DEF DictAssumption

(* Between rehashes: one bucket.                                            *)
LEMMA PlainReaches ==
  ASSUME NEW d, DictOK(d), NEW v \in Cursors
  PROVE  Reaches(Filed(d.t0, d.n0), v, ScanPlain(d, v))
<1> DEFINE n == d.n0
           s == ScanPlain(d, v)
<1>1. TableOK(d.t0, n, d.u0) /\ n \in Sizes /\ n \in Nat \ {0}
  BY DEF DictOK, TableOK
<1>2. s.cursor = NextCursor(v, n) /\ s.out = d.t0[v % n] /\ s = [cursor |-> s.cursor, out |-> s.out]
  BY DEF ScanPlain
<1> HIDE DEF s
<1>3. PICK g, B : Blocks(n, g, B)
  <2>1. n <= n
    BY <1>1
  <2>2. QED
    BY <1>1, <2>1, NestedBlocks, ZenonT(40)
<1>4. v \in Nat
  BY TwoToIs DEF Cursors
<1>5. NextCursor(v, n) \in Cursors /\ End(NextCursor(v, n)) = (B[v % n] + 1) * g
  BY <1>3, ZenonT(40) DEF Blocks
<1>6. s.out \in SUBSET Keys
  <2>1. v % n \in 0 .. n - 1
    BY <1>1, <1>4, DivModOf, ZenonT(40)
  <2>2. QED
    BY <1>1, <1>2, <2>1 DEF TableOK
<1>7. ASSUME NEW k \in Filed(d.t0, n), Pos(v) <= Pos(Hash[k]), Pos(Hash[k]) < End(s.cursor)
      PROVE  k \in s.out
  <2>1. k \in Keys /\ k \in d.t0[Hash[k] % n]
    BY DEF Filed
  <2>2. Hash[k] \in Nat
    BY <2>1, HashIsNat
  <2>3. Pos(Hash[k]) < (B[v % n] + 1) * g
    BY <1>2, <1>5, <1>7
  <2>4. Hash[k] % n = v % n
    BY <1>3, <1>4, <1>7, <2>2, <2>3, SameBucket, ZenonT(40)
  <2>5. QED
    BY <1>2, <2>1, <2>4
<1>8. QED
  BY <1>2, <1>5, <1>6, <1>7 DEF Reaches, s

(* During one: the bucket of the smaller table and those of the larger.     *)
LEMMA BothReach ==
  ASSUME NEW small, NEW ns, NEW us, TableOK(small, ns, us),
         NEW large, NEW nl, NEW ul, TableOK(large, nl, ul), ns <= nl, NEW v \in Cursors
  PROVE  Reaches(Filed(small, ns) \cup Filed(large, nl), v, ScanBoth(small, ns, large, nl, v))
<1>1. ns \in Sizes /\ nl \in Sizes /\ ns \in Nat \ {0} /\ nl \in Nat \ {0}
  BY DEF TableOK
<1>2. PICK g, h, B, C, r : r \in Nat /\ Blocks(ns, g, B) /\ Blocks(nl, h, C) /\ g = r * h
  BY <1>1, NestedBlocks
<1>3. v \in Nat /\ \A c \in Cursors : c \in Nat /\ NextCursor(c, nl) \in Cursors
  <2>1. \A c \in Cursors : c \in Nat
    BY TwoToIs DEF Cursors
  <2>2. QED
    BY <1>2, <2>1, ZenonT(40) DEF Blocks
<1> DEFINE P(f) == f = [j \in 0 .. nl |-> IF j = 0 THEN v ELSE NextCursor(f[j - 1], nl)]
           at == CHOOSE f : P(f)
<1>4. P(at)
  <2> DEFINE F == [i \in 1 .. nl |-> [c \in Cursors |-> NextCursor(c, nl)]]
  <2>1. F \in [1 .. nl -> [Cursors -> Cursors]]
    BY <1>3
  <2>2. \A i \in 1 .. nl, c \in Cursors : F[i][c] = NextCursor(c, nl)
    BY ZenonT(40)
  <2> HIDE DEF F
  <2>3. PICK f : IsRun(f, nl, Cursors, v, F)
    <3>1. nl \in Nat
      BY <1>1
    <3>2. QED
      BY <2>1, <3>1, RunExists, ZenonT(40)
  <2>4. f \in [0 .. nl -> Cursors] /\ f[0] = v /\ \A i \in 1 .. nl : f[i] = F[i][f[i - 1]]
    BY <2>3 DEF IsRun
  <2>5. ASSUME NEW j \in 0 .. nl PROVE f[j] = IF j = 0 THEN v ELSE NextCursor(f[j - 1], nl)
    <3>1. CASE j = 0
      BY <2>4, <3>1
    <3>2. CASE j # 0
      <4>1. j \in 1 .. nl /\ j - 1 \in 0 .. nl
        BY <1>1, <3>2
      <4>2. f[j - 1] \in Cursors
        BY <2>4, <4>1, ZenonT(40)
      <4>3. QED
        BY <2>2, <2>4, <3>2, <4>1, <4>2, ZenonT(40)
    <3>3. QED
      BY <3>1, <3>2
  <2>6. P(f)
    BY <2>4, <2>5, ZenonT(40)
  <2> HIDE DEF P
  <2>7. QED
    BY <2>6, ZenonT(40)
<1> DEFINE Last(j) == /\ at[j] % nl = at[j] % ns
                      /\ \A i \in 1 .. j - 1 : at[i] % nl # at[i] % ns
           last == CHOOSE j \in 1 .. nl : Last(j)
           s == ScanBoth(small, ns, large, nl, v)
<1>5. /\ s.cursor = at[last] /\ s = [cursor |-> s.cursor, out |-> s.out]
      /\ s.out = small[v % ns] \cup UNION {large[at[j] % nl] : j \in 0 .. last - 1}
  BY DEF ScanBoth
<1> HIDE DEF at, s
<1>6. Walks(at, v, nl)
  <2> DEFINE N(j) == IF j = 0 THEN v ELSE NextCursor(at[j - 1], nl)
  <2>1. at = [j \in 0 .. nl |-> N(j)]
    BY <1>4, ZenonT(40)
  <2> HIDE DEF N
  <2>2. \A j \in 0 .. nl : at[j] = N(j)
    BY <2>1
  <2>3. 0 \in 0 .. nl /\ N(0) = v
    BY <1>1 DEF N
  <2>4. \A j \in 1 .. nl : j \in 0 .. nl /\ N(j) = NextCursor(at[j - 1], nl)
    BY <1>1 DEF N
  <2>5. QED
    BY <2>2, <2>3, <2>4 DEF Walks
<1> HIDE DEF P
<1>7. last \in 1 .. nl /\ Last(last)
  <2>1. \E j \in 1 .. nl : Last(j)
    <3>1. \E j \in 1 .. nl : Stops(at[j], ns, nl) /\ \A i \in 1 .. j - 1 : ~Stops(at[i], ns, nl)
      BY <1>2, <1>6, WalkStops, ZenonT(40)
    <3>2. QED
      BY <3>1 DEF Stops
  <2> HIDE DEF Last
  <2>2. QED
    BY <2>1, ZenonT(40)
<1>8. \A i \in 1 .. last - 1 : ~Stops(at[i], ns, nl)
  BY <1>7, ZenonT(40) DEF Stops
<1> HIDE DEF last
<1>9. s.cursor \in Cursors /\ \A j \in 0 .. last - 1 : at[j] \in Cursors
  <2>1. at[last] \in Cursors
    BY <1>2, <1>6, <1>7, <1>8, WalkBounds, ZenonT(40)
  <2>2. ASSUME NEW j \in 0 .. last - 1 PROVE at[j] \in Cursors
    <3>1. j + 1 \in 1 .. nl /\ (j + 1) - 1 = j /\ \A i \in 1 .. (j + 1) - 1 : i \in 1 .. last - 1
      BY <1>1, <1>7
    <3> DEFINE m == j + 1
    <3>2. m \in 1 .. nl /\ \A i \in 1 .. m - 1 : ~Stops(at[i], ns, nl)
      BY <1>8, <3>1
    <3> HIDE DEF m
    <3>3. at[m - 1] \in Cursors
      BY <1>2, <1>6, <3>2, WalkBounds, ZenonT(40)
    <3>4. QED
      BY <3>1, <3>3 DEF m
  <2>3. QED
    BY <1>5, <2>1, <2>2
<1>10. s.out \in SUBSET Keys
  <2>1. v % ns \in 0 .. ns - 1 /\ \A c \in Cursors : c % nl \in 0 .. nl - 1
    BY <1>1, <1>3, DivModOf, ZenonT(40)
  <2>2. small[v % ns] \in SUBSET Keys
    BY <2>1, ZenonT(40) DEF TableOK
  <2>3. \A j \in 0 .. last - 1 : large[at[j] % nl] \in SUBSET Keys
    BY <1>9, <2>1, ZenonT(40) DEF TableOK
  <2>4. QED
    BY <1>5, <2>2, <2>3
<1>11. ASSUME NEW k \in Filed(small, ns) \cup Filed(large, nl),
              Pos(v) <= Pos(Hash[k]), Pos(Hash[k]) < End(s.cursor)
       PROVE  k \in s.out
  <2>1. k \in Keys
    BY DEF Filed
  <2>2. Hash[k] \in Nat /\ Pos(Hash[k]) < End(at[last])
    BY <1>5, <1>11, <2>1, HashIsNat
  <2>3. Hash[k] % ns = v % ns /\ \E j \in 0 .. last - 1 : Hash[k] % nl = at[j] % nl
    <3> DEFINE x == Hash[k]
    <3>1. x \in Nat /\ Pos(v) <= Pos(x) /\ Pos(x) < End(at[last])
      BY <1>11, <2>2
    <3> HIDE DEF x
    <3>2. x % ns = v % ns
      BY <1>2, <1>6, <1>7, <1>8, <3>1, WalkCovers
    <3>3. \E j \in 0 .. last - 1 : x % nl = at[j] % nl
      BY <1>2, <1>6, <1>7, <1>8, <3>1, WalkCovers
    <3>4. QED
      BY <3>2, <3>3 DEF x
  <2>4. CASE k \in small[Hash[k] % ns]
    BY <1>5, <2>3, <2>4
  <2>5. CASE k \in large[Hash[k] % nl]
    BY <1>5, <2>3, <2>5
  <2>6. QED
    BY <2>4, <2>5 DEF Filed
<1>12. QED
  BY <1>5, <1>9, <1>10, <1>11 DEF Reaches, s

(* Dict::scan, whatever the stage of a resize.                              *)
LEMMA DictScanReaches ==
  ASSUME NEW d, DictOK(d), NEW v \in Cursors
  PROVE  Reaches(Members(d), v, DictScan(d, v))
<1> DEFINE F0 == Filed(d.t0, d.n0)
           F1 == Filed(d.t1, d.n1)
<1>1. /\ IsRehashing(d) <=> d.at # -1
      /\ d.at = -1 => Members(d) = F0
      /\ d.at # -1 => Members(d) = F0 \cup F1
  BY MembersAreFiled
<1>2. /\ TableOK(d.t0, d.n0, d.u0) /\ d.n0 \in Nat /\ d.u0 \in Nat
      /\ d.at # -1 => TableOK(d.t1, d.n1, d.u1) /\ d.n1 \in Nat
  BY FiledIsFinite DEF DictOK, TableOK
<1>3. d.u1 \in Nat
  BY FiledIsFinite DEF DictOK, TableOK
<1>4. CASE Size(d) = 0
  <2>1. d.u0 = 0 /\ d.u1 = 0
    BY <1>2, <1>3, <1>4 DEF Size
  <2>2. F0 = {}
    BY <1>2, <2>1, FiledIsFinite, FS_EmptySet, ZenonT(40) DEF TableOK
  <2>3. d.at # -1 => F1 = {}
    BY <1>2, <2>1, FiledIsFinite, FS_EmptySet, ZenonT(40) DEF TableOK
  <2>4. Members(d) = {}
    BY <1>1, <2>2, <2>3
  <2>5. DictScan(d, v) = [cursor |-> 0, out |-> {}]
    BY <1>4 DEF DictScan
  <2>6. 0 \in Cursors
    BY TwoToIs DEF Cursors
  <2>7. QED
    BY <2>4, <2>5, <2>6 DEF Reaches
<1>5. CASE Size(d) # 0 /\ d.at = -1
  <2>1. Size(d) > 0
    BY <1>2, <1>3, <1>5 DEF Size
  <2>2. DictScan(d, v) = ScanPlain(d, v)
    BY <1>1, <1>5, <2>1 DEF DictScan
  <2>3. QED
    BY <1>1, <1>5, <2>2, PlainReaches
<1>6. CASE Size(d) # 0 /\ d.at # -1 /\ d.n0 <= d.n1
  <2>1. Size(d) > 0
    BY <1>2, <1>3, <1>6 DEF Size
  <2>2. DictScan(d, v) = ScanBoth(d.t0, d.n0, d.t1, d.n1, v)
    BY <1>1, <1>6, <2>1 DEF DictScan
  <2>3. Reaches(F0 \cup F1, v, ScanBoth(d.t0, d.n0, d.t1, d.n1, v))
    BY <1>2, <1>6, BothReach
  <2>4. QED
    BY <1>1, <1>6, <2>2, <2>3
<1>7. CASE Size(d) # 0 /\ d.at # -1 /\ ~(d.n0 <= d.n1)
  <2>1. DictScan(d, v) = ScanBoth(d.t1, d.n1, d.t0, d.n0, v)
    BY <1>1, <1>7 DEF DictScan
  <2>2. d.n1 <= d.n0
    BY <1>2, <1>7
  <2>3. Reaches(F1 \cup F0, v, ScanBoth(d.t1, d.n1, d.t0, d.n0, v))
    BY <1>2, <1>7, <2>2, BothReach
  <2>4. F1 \cup F0 = F0 \cup F1
    OBVIOUS
  <2>5. QED
    BY <1>1, <1>7, <2>1, <2>3, <2>4
<1>8. QED
  BY <1>4, <1>5, <1>6, <1>7

\* A call that goes on where another ended.
LEMMA ReachesOn ==
  ASSUME NEW K \in SUBSET Keys, NEW v \in Cursors, NEW p, NEW q,
         Reaches(K, v, p), p.cursor # 0, Reaches(K, p.cursor, q)
  PROVE  Reaches(K, v, [q EXCEPT !.out = @ \cup p.out])
<1> DEFINE s == [q EXCEPT !.out = @ \cup p.out]
<1>1. p \in [cursor : Cursors, out : SUBSET Keys] /\ q \in [cursor : Cursors, out : SUBSET Keys]
  BY DEF Reaches
<1>2. s \in [cursor : Cursors, out : SUBSET Keys] /\ s.cursor = q.cursor /\ s.out = q.out \cup p.out
  BY <1>1
<1> HIDE DEF s
<1>3. ASSUME NEW k \in K, Pos(v) <= Pos(Hash[k]), Pos(Hash[k]) < End(s.cursor) PROVE k \in s.out
  <2>1. CASE Pos(Hash[k]) < End(p.cursor)
    BY <1>2, <1>3, <2>1 DEF Reaches
  <2>2. CASE ~(Pos(Hash[k]) < End(p.cursor))
    <3>1. End(p.cursor) = Pos(p.cursor)
      BY DEF End
    <3>2. Pos(Hash[k]) \in Nat /\ Pos(p.cursor) \in Nat
      <4>1. Hash[k] \in Nat /\ p.cursor \in Nat
        BY <1>1, HashIsNat, TwoToIs DEF Cursors
      <4>2. QED
        BY <4>1, ReversedBelow, TwoToIs DEF Pos
    <3>3. Pos(p.cursor) <= Pos(Hash[k])
      BY <2>2, <3>1, <3>2
    <3>4. QED
      BY <1>2, <1>3, <3>3 DEF Reaches
  <2>3. QED
    BY <2>1, <2>2
<1>4. QED
  BY <1>2, <1>3 DEF Reaches, s

(* The command's loop.                                                      *)
LEMMA CollectReaches ==
  ASSUME NEW d, DictOK(d), NEW v \in Cursors, NEW count
  PROVE  Reaches(Members(d), v, Collect(d, v, count))
<1> DEFINE K == Members(d)
           n == MaxScanIterations - 1
           I == {p \in [cursor : Cursors, out : SUBSET Keys] : Reaches(K, v, p)}
           More(p) == IF p.cursor = 0 \/ Cardinality(p.out) >= count THEN p
                      ELSE LET q == DictScan(d, p.cursor) IN [q EXCEPT !.out = @ \cup p.out]
           P(f) == f = [i \in 0 .. n |-> IF i = 0 THEN DictScan(d, v)
                                         ELSE LET p == f[i - 1] IN
                                              IF p.cursor = 0 \/ Cardinality(p.out) >= count THEN p
                                              ELSE LET q == DictScan(d, p.cursor)
                                                   IN  [q EXCEPT !.out = @ \cup p.out]]
           run == CHOOSE f : P(f)
<1>1. n \in Nat /\ K \in SUBSET Keys
  BY DictAssumption DEF DictAssumption, Members
<1>2. DictScan(d, v) \in I
  BY DictScanReaches DEF Reaches
<1>3. ASSUME NEW p \in I PROVE More(p) \in I
  <2>1. CASE p.cursor = 0 \/ Cardinality(p.out) >= count
    BY <2>1
  <2>2. CASE ~(p.cursor = 0 \/ Cardinality(p.out) >= count)
    <3> DEFINE q == DictScan(d, p.cursor)
               s == [q EXCEPT !.out = @ \cup p.out]
    <3>1. p.cursor \in Cursors /\ Reaches(K, v, p) /\ p.cursor # 0
      BY <2>2
    <3>2. Reaches(K, p.cursor, q)
      BY <3>1, DictScanReaches
    <3> HIDE DEF q, K
    <3>3. Reaches(K, v, s)
      BY <1>1, <3>1, <3>2, ReachesOn
    <3>4. s \in I
      BY <3>3 DEF Reaches
    <3>5. More(p) = s
      BY <2>2 DEF q
    <3>6. QED
      BY <3>4, <3>5
  <2>3. QED
    BY <2>1, <2>2
<1>4. P(run)
  <2> DEFINE s0 == DictScan(d, v)
             F == [i \in 1 .. n |-> [p \in I |-> More(p)]]
  <2> HIDE DEF I, More
  <2>1. F \in [1 .. n -> [I -> I]]
    BY <1>3
  <2>2. \A i \in 1 .. n, p \in I : F[i][p] = More(p)
    BY ZenonT(40)
  <2>3. s0 \in I
    BY <1>2
  <2> HIDE DEF F, n, s0
  <2>4. PICK f : IsRun(f, n, I, s0, F)
    BY <1>1, <2>1, <2>3, RunExists
  <2>5. f \in [0 .. n -> I] /\ f[0] = s0 /\ \A i \in 1 .. n : f[i] = F[i][f[i - 1]]
    BY <2>4 DEF IsRun
  <2>6. ASSUME NEW i \in 0 .. n PROVE f[i] = IF i = 0 THEN s0 ELSE More(f[i - 1])
    <3>1. CASE i = 0
      BY <2>5, <3>1
    <3>2. CASE i # 0
      <4>1. i \in 1 .. n /\ i - 1 \in 0 .. n
        BY <1>1, <3>2
      <4>2. f[i - 1] \in I
        BY <2>5, <4>1, ZenonT(40)
      <4>3. QED
        BY <2>2, <2>5, <3>2, <4>1, <4>2, ZenonT(40)
    <3>3. QED
      BY <3>1, <3>2
  <2>7. f = [i \in 0 .. n |-> IF i = 0 THEN s0 ELSE More(f[i - 1])]
    BY <2>5, <2>6, ZenonT(40)
  <2>8. P(f)
    BY <2>7, ZenonT(40) DEF More, s0
  <2> HIDE DEF P
  <2>9. QED
    BY <2>8, ZenonT(40)
<1>5. Collect(d, v, count) = run[n]
  BY DEF Collect
<1> HIDE DEF run, n
<1>6. \A i \in 0 .. n : run[i] = IF i = 0 THEN DictScan(d, v) ELSE More(run[i - 1])
  <2> DEFINE N(i) == IF i = 0 THEN DictScan(d, v) ELSE More(run[i - 1])
  <2>1. run = [i \in 0 .. n |-> N(i)]
    BY <1>4, ZenonT(40)
  <2> HIDE DEF N
  <2>2. \A i \in 0 .. n : run[i] = N(i)
    BY <2>1
  <2>3. QED
    BY <2>2 DEF N
<1> HIDE DEF P, More, I
<1> DEFINE T == {i \in Nat : i <= n => run[i] \in I}
<1>7. 0 \in T
  BY <1>1, <1>2, <1>6
<1>8. ASSUME NEW i \in Nat, i \in T PROVE i + 1 \in T
  <2>1. SUFFICES ASSUME i + 1 <= n PROVE run[i + 1] \in I
    OBVIOUS
  <2>2. i + 1 \in 0 .. n /\ i + 1 # 0 /\ (i + 1) - 1 = i /\ i <= n
    BY <1>1, <2>1
  <2>3. run[i + 1] = More(run[i]) /\ run[i] \in I
    BY <1>6, <1>8, <2>2
  <2>4. QED
    BY <1>3, <2>3
<1> HIDE DEF T
<1>9. n \in T
  BY <1>1, <1>7, <1>8, Induction
<1>10. run[n] \in I
  BY <1>1, <1>9 DEF T
<1>11. QED
  BY <1>5, <1>10 DEF I
-----------------------------------------------------------------------------
(* The specification.                                                      *)

IInv ==
  /\ DictOK(dict)
  /\ busy.in = "cron" => dict.at # -1 /\ busy.visits \in Nat

\* The step of the abstract table, with its variables mapped.
Abstract == [Set!Next]_<<Members(dict), reply>>

(* What the thread is in the middle of, by its tag.                         *)
LEMMA BusyKinds ==
  /\ Idle.in = "poll"
  /\ \A left : Scan(left).in = "scan"
  /\ \A left, visits : Cron(left, visits).in = "cron" /\ Cron(left, visits).visits = visits
BY DEF Idle, Scan, Cron

(* The initial state is sound and maps to an initial state of KeySet.       *)
LEMMA InitOK == Init => IInv /\ Set!Init
<1> SUFFICES ASSUME Init PROVE IInv /\ Set!Init
  OBVIOUS
<1>1. IInv
  BY NewOK, BusyKinds DEF Init, IInv
<1>2. {k \in Keys : Holds(dict, k)} = {}
  BY NewOK DEF Init, Members
<1>3. QED
  BY <1>1, <1>2 DEF Init, Set!Init, Set!NoReply, NoReply

\* A step that leaves the keys and the reply alone is none of the abstract table's.
LEMMA Stutter ==
  ASSUME Members(dict)' = Members(dict), reply' = reply
  PROVE  Abstract
BY DEF Abstract

(* An operation of the dictionary maps to its operation on the set.         *)
LEMMA OperationMaps ==
  ASSUME NEW k \in Keys, reply' = Answer(k, k \in Members(dict)),
         Members(dict)' \in {Members(dict), Members(dict) \cup {k}, Members(dict) \ {k}}
  PROVE  Abstract
<1>1. Set!Operation(k)
  BY DEF Set!Operation, Set!Find, Set!Insert, Set!Erase, Set!Answer, Answer, Members
<1>2. QED
  BY <1>1 DEF Abstract, Set!Next

(* Every step keeps the invariant and maps to a step of KeySet.             *)
LEMMA NextOK == IInv /\ [Next]_vars => IInv' /\ Abstract
<1> SUFFICES ASSUME IInv, [Next]_vars PROVE IInv' /\ Abstract
  OBVIOUS
<1> USE DEF IInv
<1>1. ASSUME NEW k \in Keys, find(k) PROVE IInv' /\ Abstract
  <2>1. dict' = AfterFind(dict) /\ busy' = Idle /\ reply' = Answer(k, Holds(dict', k))
    BY <1>1 DEF find
  <2>2. DictOK(dict)' /\ Members(dict)' = Members(dict)
    BY <2>1, FindOK
  <2>3. Holds(dict', k) = (k \in Members(dict))
    BY <2>2, HoldsIsMember
  <2>4. QED
    BY <2>1, <2>2, <2>3, BusyKinds, OperationMaps
<1>2. ASSUME NEW k \in Keys, insert(k) PROVE IInv' /\ Abstract
  <2>1. /\ dict' = AfterInsert(dict, k) /\ busy' = Idle
        /\ reply' = Answer(k, Holds(AfterFind(rehashStep(dict)), k))
    BY <1>2 DEF insert
  <2>2. DictOK(dict)' /\ Members(dict)' = Members(dict) \cup {k}
    BY <2>1, InsertOK
  <2>3. Holds(AfterFind(rehashStep(dict)), k) = (k \in Members(dict))
    BY RehashStepOK, FindOK, HoldsIsMember
  <2>4. QED
    BY <2>1, <2>2, <2>3, BusyKinds, OperationMaps
<1>3. ASSUME NEW k \in Keys, erase(k) PROVE IInv' /\ Abstract
  <2>1. /\ dict' = AfterErase(dict, k) /\ busy' = Idle
        /\ reply' = Answer(k, Holds(AfterFind(dict), k))
    BY <1>3 DEF erase
  <2>2. DictOK(dict)' /\ Members(dict)' = Members(dict) \ {k}
    BY <2>1, EraseOK
  <2>3. Holds(AfterFind(dict), k) = (k \in Members(dict))
    BY FindOK, HoldsIsMember
  <2>4. QED
    BY <2>1, <2>2, <2>3, BusyKinds, OperationMaps
<1>4. ASSUME NEW k \in Keys, scanLookup(k) PROVE IInv' /\ Abstract
  <2>1. dict' = AfterFind(dict) /\ busy'.in = "scan" /\ reply' = reply
    BY <1>4, BusyKinds DEF scanLookup
  <2>2. DictOK(dict)' /\ Members(dict)' = Members(dict)
    BY <2>1, FindOK
  <2>3. QED
    BY <2>1, <2>2, Stutter
<1>5. ASSUME clear PROVE IInv' /\ Abstract
  <2>1. dict' = New /\ busy' = Idle /\ reply' = reply
    BY <1>5 DEF clear
  <2>2. DictOK(dict)' /\ Members(dict)' = {}
    BY <2>1, NewOK
  <2>3. Set!Clear
    BY <2>1, <2>2 DEF Set!Clear, Members
  <2>4. QED
    BY <2>1, <2>2, <2>3, BusyKinds DEF Abstract, Set!Next
<1>6. ASSUME incrementalRehash PROVE IInv' /\ Abstract
  <2>1. /\ dict' = dict /\ reply' = reply /\ IsRehashing(dict)
        /\ busy' = Cron(CronBuckets, CronBuckets * EmptyVisits)
    BY <1>6 DEF incrementalRehash
  <2>2. dict.at # -1
    BY <2>1, MembersAreFiled
  <2>3. CronBuckets * EmptyVisits \in Nat
    BY DictAssumption DEF DictAssumption
  <2>4. QED
    BY <2>1, <2>2, <2>3, BusyKinds, Stutter
<1>7. ASSUME rehashSteps PROVE IInv' /\ Abstract
  <2>1. busy.in = "cron" /\ dict.at # -1 /\ busy.visits \in Nat
    BY <1>7 DEF rehashSteps
  <2>2. dict' = Finish(Migrate(dict, busy.visits)) /\ reply' = reply
    BY <1>7 DEF rehashSteps
  <2>3. DictOK(dict)' /\ Members(dict)' = Members(dict) /\ Passes(dict) \in Nat
    BY <2>1, <2>2, MigrateOK, FinishOK, ZenonT(40)
  <2>4. busy'.in = "cron" => dict'.at # -1 /\ busy'.visits \in Nat
    <3>1. \/ busy' = Idle
          \/ /\ IsRehashing(dict') /\ ~(Passes(dict) >= busy.visits)
             /\ busy' = Cron(busy.left - 1, busy.visits - Passes(dict))
      BY <1>7 DEF rehashSteps
    <3>2. CASE busy' = Idle
      BY <3>2, BusyKinds
    <3>3. CASE /\ IsRehashing(dict') /\ ~(Passes(dict) >= busy.visits)
               /\ busy' = Cron(busy.left - 1, busy.visits - Passes(dict))
      <4>1. dict'.at # -1
        BY <2>3, <3>3, MembersAreFiled, ZenonT(40)
      <4>2. busy'.visits = busy.visits - Passes(dict)
        BY <3>3, BusyKinds, ZenonT(40)
      <4>3. busy.visits - Passes(dict) \in Nat
        BY <2>1, <2>3, <3>3
      <4>4. QED
        BY <4>1, <4>2, <4>3, ZenonT(40)
    <3>4. QED
      BY <3>1, <3>2, <3>3, ZenonT(40)
  <2>5. QED
    BY <2>2, <2>3, <2>4, Stutter
<1>8. ASSUME NEW n \in Counts, scan(n) PROVE IInv' /\ Abstract
  <2>1. dict' = dict /\ reply' = reply /\ busy'.in = "scan"
    BY <1>8, BusyKinds DEF scan
  <2>2. QED
    BY <2>1, Stutter
<1>9. ASSUME scanReply PROVE IInv' /\ Abstract
  BY <1>9, BusyKinds, Stutter DEF scanReply
<1>10. ASSUME UNCHANGED vars PROVE IInv' /\ Abstract
  BY <1>10, Stutter DEF vars
<1>11. QED
  BY <1>1, <1>2, <1>3, <1>4, <1>5, <1>6, <1>7, <1>8, <1>9, <1>10 DEF Next

\* The table of dict.h, in any stage of a resize, is a set of keys: find, insert and
\* erase answer by that set, and neither a migration, nor growth, nor shrinkage, nor
\* the cron, nor SCAN's lookups add or lose a key.
THEOREM DictImplementsKeySet == Spec => ImplementsKeySet
<1>1. Init => IInv /\ Set!Init
  BY InitOK
<1>2. IInv /\ [Next]_vars => IInv' /\ Abstract
  BY NextOK
<1>3. Abstract => [Set!Next]_<<{k \in Keys : Holds(dict, k)}, reply>>
  BY DEF Abstract, Members
<1>4. QED
  BY <1>1, <1>2, <1>3, PTL DEF Spec, ImplementsKeySet, Set!Spec

-----------------------------------------------------------------------------
(* An iteration of SCAN.                                                   *)

\* What the iteration has passed of the keys that stayed was returned, or waits for
\* its lookup.
ScanInv ==
  /\ cursor \in Cursors
  /\ ~scanning => cursor = 0 /\ busy.in # "scan"
  /\ scanning /\ cursor = 0 => busy.in = "scan"
  /\ scanning =>
       /\ stayed \subseteq Members(dict)
       /\ \A k \in stayed :
            Pos(Hash[k]) < End(cursor) => k \in returned \/ (busy.in = "scan" /\ k \in busy.left)

(* Before the first call nothing has been passed.                           *)
LEMMA ScanInit == Init => ScanInv
<1>1. 0 \in Cursors
  BY TwoToIs DEF Cursors
<1>2. QED
  BY <1>1, BusyKinds DEF Init, ScanInv

\* A step of another operation, which takes only keys that it also takes from stayed.
LEMMA ScanRests ==
  ASSUME ScanInv, UNCHANGED <<scanning, cursor, returned>>, busy.in # "scan", busy'.in # "scan",
         stayed' \subseteq stayed, stayed' \cap Members(dict) \subseteq Members(dict)'
  PROVE  ScanInv'
<1>1. cursor' = cursor /\ scanning' = scanning /\ returned' = returned
  OBVIOUS
<1>2. scanning => stayed' \subseteq Members(dict)'
  BY DEF ScanInv
<1>3. ASSUME scanning, NEW k \in stayed', Pos(Hash[k]) < End(cursor) PROVE k \in returned
  BY <1>3 DEF ScanInv
<1>4. QED
  BY <1>1, <1>2, <1>3 DEF ScanInv, End

(* A call of SCAN.                                                          *)
LEMMA ScanCallOK == ASSUME IInv, ScanInv, NEW count \in Counts, scan(count) PROVE ScanInv'
<1> DEFINE got == Collect(dict, cursor, count)
<1>1. /\ cursor' = got.cursor /\ busy' = Scan(got.out) /\ scanning' = TRUE /\ busy = Idle
      /\ stayed' = (IF scanning THEN stayed ELSE {k \in Keys : Holds(dict, k)})
      /\ dict' = dict /\ returned' = returned
  BY DEF scan
<1>2. Reaches(Members(dict), cursor, got)
  BY CollectReaches DEF IInv, ScanInv
<1> HIDE DEF got
<1>3. got.cursor \in Cursors
  BY <1>2 DEF Reaches
<1>4. busy.in # "scan" /\ busy'.in = "scan" /\ busy'.left = got.out
  BY <1>1, BusyKinds DEF Scan
<1>5. stayed' \subseteq Members(dict)
  BY <1>1 DEF ScanInv, Members
<1>6. ASSUME NEW k \in stayed', Pos(Hash[k]) < End(got.cursor) PROVE k \in returned \/ k \in got.out
  <2>1. k \in Members(dict) /\ k \in Keys
    BY <1>5 DEF Members
  <2>2. Pos(Hash[k]) \in Nat /\ Pos(cursor) \in Nat
    <3>1. Hash[k] \in Nat /\ cursor \in Nat
      BY <2>1, HashIsNat, TwoToIs DEF Cursors, ScanInv
    <3>2. QED
      BY <3>1, ReversedBelow, TwoToIs DEF Pos
  <2>3. CASE Pos(cursor) <= Pos(Hash[k])
    BY <1>2, <1>6, <2>1, <2>3 DEF Reaches
  <2>4. CASE ~(Pos(cursor) <= Pos(Hash[k]))
    <3>1. cursor # 0
      <4>1. Pos(0) = 0
        BY ReversedZeroAndOnes, TwoToIs DEF Pos
      <4>2. QED
        BY <2>2, <2>4, <4>1
    <3>2. scanning /\ End(cursor) = Pos(cursor)
      BY <3>1 DEF ScanInv, End
    <3>3. Pos(Hash[k]) < End(cursor) /\ k \in stayed
      BY <1>1, <2>2, <2>4, <3>2
    <3>4. QED
      BY <1>4, <3>2, <3>3 DEF ScanInv
  <2>5. QED
    BY <2>3, <2>4
<1>7. QED
  BY <1>1, <1>3, <1>4, <1>5, <1>6, ZenonT(40) DEF ScanInv, Members, End, Holds

(* The lookup of a key that was collected.                                  *)
LEMMA ScanLookupOK == ASSUME IInv, ScanInv, NEW j \in Keys, scanLookup(j) PROVE ScanInv'
<1>1. /\ dict' = AfterFind(dict) /\ busy' = Scan(busy.left \ {j}) /\ busy.in = "scan"
      /\ returned' = (IF Holds(dict', j) THEN returned \cup {j} ELSE returned)
      /\ scanning' = scanning /\ cursor' = cursor /\ stayed' = stayed
  BY ZenonT(40) DEF scanLookup
<1>2. Members(dict)' = Members(dict)
  BY <1>1, FindOK DEF IInv
<1>3. busy'.in = "scan" /\ busy'.left = busy.left \ {j}
  BY <1>1 DEF Scan
<1>4. scanning /\ stayed \subseteq Members(dict)
  BY <1>1 DEF ScanInv
<1>5. ASSUME NEW k \in stayed, Pos(Hash[k]) < End(cursor)
      PROVE  k \in returned' \/ k \in busy.left \ {j}
  <2>1. k \in returned \/ k \in busy.left
    BY <1>4, <1>5 DEF ScanInv
  <2>2. CASE k = j
    <3>1. Holds(dict', j)
      BY <1>2, <1>4, <2>2 DEF Members
    <3>2. QED
      BY <1>1, <2>2, <3>1
  <2>3. CASE k # j
    BY <1>1, <2>1, <2>3
  <2>4. QED
    BY <2>2, <2>3
<1>6. cursor' \in Cursors /\ stayed' \subseteq Members(dict)'
  BY <1>1, <1>2, <1>4 DEF ScanInv
<1>7. ASSUME NEW k \in stayed', Pos(Hash[k]) < End(cursor')
      PROVE  k \in returned' \/ k \in busy'.left
  BY <1>1, <1>3, <1>5, <1>7
<1>8. QED
  BY <1>1, <1>3, <1>4, <1>6, <1>7, ZenonT(40) DEF ScanInv, End

(* The reply.                                                               *)
LEMMA ScanReplyOK == ASSUME ScanInv, scanReply PROVE ScanInv'
<1>1. /\ busy.in = "scan" /\ busy.left = {} /\ busy' = Idle /\ cursor' = cursor /\ dict' = dict
      /\ returned' = (IF cursor = 0 THEN {} ELSE returned)
      /\ stayed' = (IF cursor = 0 THEN {} ELSE stayed)
  BY DEF scanReply
<1>2. busy'.in # "scan"
  BY <1>1, BusyKinds
<1>3. (cursor = 0 => ~scanning') /\ (cursor # 0 => scanning')
  BY ZenonT(40) DEF scanReply
<1>4. CASE cursor = 0
  BY <1>1, <1>2, <1>3, <1>4 DEF ScanInv
<1>5. CASE cursor # 0
  <2>1. scanning /\ scanning' /\ returned' = returned /\ stayed' = stayed /\ Members(dict)' = Members(dict)
    <3>1. scanning /\ scanning'
      BY <1>1, <1>3, <1>5 DEF ScanInv
    <3>2. QED
      BY <1>1, <1>5, <3>1 DEF Members, Holds
  <2>2. ASSUME NEW k \in stayed, Pos(Hash[k]) < End(cursor) PROVE k \in returned
    BY <1>1, <2>1, <2>2 DEF ScanInv
  <2>3. QED
    BY <1>1, <1>2, <1>5, <2>1, <2>2 DEF ScanInv, End
<1>6. QED
  BY <1>4, <1>5

(* Every step keeps what the iteration has passed.                          *)
LEMMA ScanKept == IInv /\ ScanInv /\ [Next]_vars => ScanInv'
<1> SUFFICES ASSUME IInv, ScanInv, [Next]_vars PROVE ScanInv'
  OBVIOUS
<1>1. ASSUME NEW k \in Keys, find(k) PROVE ScanInv'
  <2>1. /\ dict' = AfterFind(dict) /\ busy = Idle /\ busy' = Idle
        /\ UNCHANGED <<scanning, cursor, returned, stayed>>
    BY <1>1 DEF find, scanVars
  <2>2. Members(dict)' = Members(dict)
    BY <2>1, FindOK DEF IInv
  <2>3. QED
    BY <2>1, <2>2, BusyKinds, ScanRests
<1>2. ASSUME NEW k \in Keys, insert(k) PROVE ScanInv'
  <2>1. /\ dict' = AfterInsert(dict, k) /\ busy = Idle /\ busy' = Idle
        /\ UNCHANGED <<scanning, cursor, returned, stayed>>
    BY <1>2 DEF insert, scanVars
  <2>2. Members(dict)' = Members(dict) \cup {k}
    BY <2>1, InsertOK DEF IInv
  <2>3. QED
    BY <2>1, <2>2, BusyKinds, ScanRests
<1>3. ASSUME NEW k \in Keys, erase(k) PROVE ScanInv'
  <2>1. /\ dict' = AfterErase(dict, k) /\ busy = Idle /\ busy' = Idle /\ stayed' = stayed \ {k}
        /\ UNCHANGED <<scanning, cursor, returned>>
    BY <1>3 DEF erase
  <2>2. Members(dict)' = Members(dict) \ {k}
    BY <2>1, EraseOK DEF IInv
  <2>3. QED
    BY <2>1, <2>2, BusyKinds, ScanRests
<1>4. ASSUME NEW k \in Keys, scanLookup(k) PROVE ScanInv'
  BY <1>4, ScanLookupOK
<1>5. ASSUME clear PROVE ScanInv'
  <2>1. busy = Idle /\ busy' = Idle /\ stayed' = {} /\ UNCHANGED <<scanning, cursor, returned>>
    BY <1>5 DEF clear
  <2>2. QED
    BY <2>1, BusyKinds, ScanRests
<1>6. ASSUME incrementalRehash PROVE ScanInv'
  <2>1. /\ busy = Idle /\ dict' = dict /\ busy' = Cron(CronBuckets, CronBuckets * EmptyVisits)
        /\ UNCHANGED <<scanning, cursor, returned, stayed>>
    BY <1>6 DEF incrementalRehash, scanVars
  <2>2. Members(dict)' = Members(dict) /\ busy.in # "scan" /\ busy'.in # "scan"
    BY <2>1, BusyKinds DEF Members, Holds
  <2>3. QED
    BY <2>1, <2>2, ScanRests
<1>7. ASSUME rehashSteps PROVE ScanInv'
  <2>1. /\ busy.in = "cron" /\ dict' = Finish(Migrate(dict, busy.visits))
        /\ UNCHANGED <<scanning, cursor, returned, stayed>>
    BY <1>7 DEF rehashSteps, scanVars
  <2>2. Members(dict)' = Members(dict)
    BY <2>1, MigrateOK, FinishOK, ZenonT(40) DEF IInv
  <2>3. busy' = Idle \/ busy' = Cron(busy.left - 1, busy.visits - Passes(dict))
    BY <1>7 DEF rehashSteps
  <2>4. busy.in # "scan" /\ busy'.in # "scan"
    BY <2>1, <2>3, BusyKinds
  <2>5. QED
    BY <2>1, <2>2, <2>4, ScanRests
<1>8. ASSUME NEW n \in Counts, scan(n) PROVE ScanInv'
  BY <1>8, ScanCallOK
<1>9. ASSUME scanReply PROVE ScanInv'
  BY <1>9, ScanReplyOK
<1>10. ASSUME UNCHANGED vars PROVE ScanInv'
  BY <1>10 DEF vars, scanVars, ScanInv, Members, Holds, End
<1>11. QED
  BY <1>1, <1>2, <1>3, <1>4, <1>5, <1>6, <1>7, <1>8, <1>9, <1>10 DEF Next

\* SCAN's promise (keyspace_commands.cpp over Dict::scan): when an iteration ends, every
\* key that was there from its beginning to its end has been returned, although between
\* and within its calls the table grew, shrank and migrated: for any keys and hashes, any
\* sizes that are powers of two and any COUNTs.
THEOREM ScanIsComplete == Spec => []ScanMissesNothing
<1>1. Init => IInv /\ ScanInv
  BY InitOK, ScanInit
<1>2. IInv /\ ScanInv /\ [Next]_vars => IInv' /\ ScanInv'
  BY NextOK, ScanKept
<1>3. ScanInv => ScanMissesNothing
  <2>1. SUFFICES ASSUME ScanInv, busy = Scan({}), cursor = 0, NEW k \in stayed PROVE k \in returned
    BY DEF ScanMissesNothing
  <2>2. busy.in = "scan" /\ busy.left = {}
    BY <2>1 DEF Scan
  <2>3. scanning /\ k \in Keys
    BY <2>1, <2>2 DEF ScanInv, Members
  <2>4. Pos(Hash[k]) < End(cursor)
    BY <2>1, <2>3, HashIsNat, ReversedBelow, TwoToIs DEF Pos, End
  <2>5. QED
    BY <2>1, <2>2, <2>3, <2>4 DEF ScanInv
<1>4. QED
  BY <1>1, <1>2, <1>3, PTL DEF Spec
=============================================================================
