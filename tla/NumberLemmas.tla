----------------------------- MODULE NumberLemmas ------------------------------
(***************************************************************************)
(* What the proofs need of numbers: induction (the least element of a set  *)
(* of naturals, what holds along a run of steps, and that such a run       *)
(* exists), and the arithmetic of remainders.                              *)
(***************************************************************************)
EXTENDS Integers, WellFoundedInduction, TLAPS

LEMMA LeastNatural ==
  ASSUME NEW T \in SUBSET Nat, T # {}
  PROVE  \E n \in T : \A m \in T : n <= m
<1> DEFINE R == {p \in Nat \X Nat : p[1] < p[2]}
<1>1. IsWellFoundedOn(R, Nat)
  BY NatLessThanWellFounded DEF OpToRel
<1>2. PICK n \in T : \A m \in T : ~(<<m, n>> \in R)
  BY <1>1, WFMin
<1>3. \A m \in T : ~(m < n)
  BY <1>2
<1> QED BY <1>3

\* A set of naturals that holds 0 and, below n, every successor.
LEMMA CountedUp ==
  ASSUME NEW n \in Nat, NEW T, 0 \in T, \A k \in 1..n : k - 1 \in T => k \in T
  PROVE  \A k \in 0..n : k \in T
<1> DEFINE U == {k \in 0..n : k \notin T}
<1> SUFFICES ASSUME U # {} PROVE FALSE
  OBVIOUS
<1>0. U \in SUBSET Nat
  OBVIOUS
<1>1. PICK m \in U : \A k \in U : m <= k
  <2> HIDE DEF U
  <2> QED BY <1>0, LeastNatural
<1>2. m \in 1..n /\ m - 1 \in 0..n
  BY <1>1
<1>3. m - 1 \notin U
  BY <1>1, <1>2
<1> QED BY <1>1, <1>2, <1>3

\* g is a run of n steps through S that starts at c, step k by F[k].
IsRun(g, S, c, n, F) ==
  g \in [0..n -> S] /\ g[0] = c /\ \A k \in 1..n : g[k] = F[k][g[k - 1]]

LEMMA RunExists ==
  ASSUME NEW S, NEW c \in S, NEW n \in Nat, NEW F \in [1..n -> [S -> S]]
  PROVE  \E g : IsRun(g, S, c, n, F)
<1> DEFINE Run(m) == {g \in [0..m -> S] :
                        g = [k \in 0..m |-> IF k = 0 THEN c ELSE F[k][g[k - 1]]]}
           T == {m \in 0..n : Run(m) # {}}
<1>1. 0 \in T
  <2> DEFINE g == [k \in 0..0 |-> c]
  <2>1. g \in [0..0 -> S]
    OBVIOUS
  <2>2. \A k \in 0..0 : k = 0
    OBVIOUS
  <2>3. g = [k \in 0..0 |-> IF k = 0 THEN c ELSE F[k][g[k - 1]]]
    BY <2>2
  <2>4. g \in Run(0)
    BY <2>1, <2>3
  <2> QED BY <2>4
<1>2. ASSUME NEW m \in 1..n, m - 1 \in T PROVE m \in T
  <2>1. PICK g \in [0..(m - 1) -> S] :
          g = [k \in 0..(m - 1) |-> IF k = 0 THEN c ELSE F[k][g[k - 1]]]
    BY <1>2
  <2> DEFINE last == F[m][g[m - 1]]
             h == [k \in 0..m |-> IF k = m THEN last ELSE g[k]]
  <2>2. last \in S
    BY <2>1
  <2>3. h \in [0..m -> S]
    <3>1. \A k \in 0..m : k = m \/ k \in 0..(m - 1)
      OBVIOUS
    <3> HIDE DEF last
    <3> QED BY <2>1, <2>2, <3>1
  <2>4. ASSUME NEW k \in 0..m PROVE h[k] = IF k = 0 THEN c ELSE F[k][h[k - 1]]
    <3>1. CASE k = m
      <4>1. m - 1 \in 0..m /\ m - 1 # m /\ m # 0
        OBVIOUS
      <4>2. h[m - 1] = g[m - 1]
        BY <4>1
      <4> QED BY <3>1, <4>1, <4>2
    <3>2. CASE k # m
      <4>1. k \in 0..(m - 1) /\ (k # 0 => k - 1 \in 0..(m - 1) /\ k - 1 \in 0..m /\ k - 1 # m)
        BY <3>2
      <4>2. h[k] = g[k] /\ (k # 0 => h[k - 1] = g[k - 1])
        BY <3>2, <4>1
      <4>3. g[k] = IF k = 0 THEN c ELSE F[k][g[k - 1]]
        BY <2>1, <4>1
      <4> QED BY <4>2, <4>3
    <3> QED BY <3>1, <3>2
  <2> HIDE DEF h
  <2>5. h = [k \in 0..m |-> IF k = 0 THEN c ELSE F[k][h[k - 1]]]
    BY <2>3, <2>4
  <2>6. h \in Run(m)
    BY <2>3, <2>5
  <2>7. m \in 0..n
    OBVIOUS
  <2> HIDE DEF Run
  <2> QED BY <2>6, <2>7
<1>3. n \in T
  <2> HIDE DEF T
  <2>1. \A k \in 0..n : k \in T
    BY <1>1, <1>2, CountedUp
  <2> QED BY <2>1
<1>4. PICK g \in [0..n -> S] : g = [k \in 0..n |-> IF k = 0 THEN c ELSE F[k][g[k - 1]]]
  BY <1>3
<1>5. 0 \in 0..n /\ \A k \in 1..n : k \in 0..n /\ k # 0
  OBVIOUS
<1>6. g[0] = c /\ \A k \in 1..n : g[k] = F[k][g[k - 1]]
  BY <1>4, <1>5
<1> QED BY <1>6 DEF IsRun

-------------------------------------------------------------------------------
(* Remainders. *)

LEMMA ModForm ==
  ASSUME NEW M \in Int, M > 0, NEW x \in Int
  PROVE  x \div M \in Int /\ x = M * (x \div M) + (x % M) /\ x % M \in 0..(M - 1)
<1>1. x \div M \in Int
  OBVIOUS
<1>2. x = M * (x \div M) + (x % M)
  OBVIOUS
<1>3. x % M \in 0..(M - 1)
  OBVIOUS
<1> QED BY <1>1, <1>2, <1>3

LEMMA SmallMultiple ==
  ASSUME NEW M \in Int, M > 0, NEW k \in Int, M * k < M, -M < M * k
  PROVE  k = 0
<1>1. k < 1
  OBVIOUS
<1>2. k > -1
  OBVIOUS
<1> QED BY <1>1, <1>2

LEMMA ModUnique ==
  ASSUME NEW M \in Int, M > 0, NEW q \in Int, NEW e \in 0..(M - 1)
  PROVE  (M * q + e) % M = e
<1> DEFINE x == M * q + e
           y == x % M
           z == x \div M
<1>1. x \in Int
  OBVIOUS
<1> HIDE DEF x
<1>2. z \in Int /\ x = M * z + y /\ y \in 0..(M - 1)
  BY <1>1, ModForm
<1> HIDE DEF y, z
<1>3. M * (q - z) = y - e
  BY <1>2 DEF x
<1>4. M * (q - z) < M /\ -M < M * (q - z) /\ q - z \in Int
  BY <1>2, <1>3
<1>5. q - z = 0
  BY <1>4, SmallMultiple
<1>6. M * (q - z) = 0
  BY <1>5
<1> QED BY <1>2, <1>3, <1>6 DEF x, y

LEMMA ModAdd ==
  ASSUME NEW M \in Int, M > 0, NEW x \in Int, NEW i \in Int
  PROVE  ((x % M) + i) % M = (x + i) % M
<1> DEFINE a == x \div M
           r == x % M
           b == (r + i) \div M
           s == (r + i) % M
<1>1. a \in Int /\ x = M * a + r /\ r \in 0..(M - 1)
  BY ModForm
<1> HIDE DEF a, r
<1>2. b \in Int /\ r + i = M * b + s /\ s \in 0..(M - 1)
  BY <1>1, ModForm
<1> HIDE DEF b, s
<1>3. x + i = M * (a + b) + s
  BY <1>1, <1>2
<1>4. (M * (a + b) + s) % M = s
  BY <1>1, <1>2, ModUnique
<1> QED BY <1>3, <1>4 DEF r, s

LEMMA ModDiff ==
  ASSUME NEW M \in Int, M > 0, NEW x \in Int, NEW y \in Int
  PROVE  ((x % M) - (y % M)) % M = (x - y) % M
<1> DEFINE a == x \div M
           r == x % M
           b == y \div M
           s == y % M
           c == (r - s) \div M
           e == (r - s) % M
<1>1. a \in Int /\ x = M * a + r /\ r \in Int /\ b \in Int /\ y = M * b + s /\ s \in Int
  BY ModForm
<1> HIDE DEF a, r, b, s
<1>2. c \in Int /\ r - s = M * c + e /\ e \in 0..(M - 1)
  BY <1>1, ModForm
<1> HIDE DEF c, e
<1>3. x - y = M * (a - b + c) + e
  BY <1>1, <1>2
<1>4. (M * (a - b + c) + e) % M = e
  BY <1>1, <1>2, ModUnique
<1> QED BY <1>3, <1>4 DEF e, r, s

\* Numbers less than M apart with one remainder are equal.
LEMMA ModSame ==
  ASSUME NEW M \in Int, M > 0, NEW x \in Int, NEW y \in Int, x % M = y % M,
         x - y < M, y - x < M
  PROVE  x = y
<1> DEFINE a == x \div M
           b == y \div M
           r == x % M
<1>1. a \in Int /\ b \in Int /\ x = M * a + r /\ y = M * b + r /\ r \in Int
  BY ModForm
<1> HIDE DEF a, b, r
<1>2. M * (a - b) = x - y
  BY <1>1
<1>3. a - b = 0
  BY <1>1, <1>2, SmallMultiple
<1> QED BY <1>1, <1>2, <1>3

LEMMA SmallMod ==
  ASSUME NEW M \in Int, M > 0, NEW x \in Nat, x < M
  PROVE  x % M = x
OBVIOUS

LEMMA ModShift ==
  ASSUME NEW M \in Int, M > 0, NEW x \in Int
  PROVE  (x + M) % M = x % M
<1> DEFINE q == x \div M
           e == x % M
<1>1. q \in Int /\ x = M * q + e /\ e \in 0..(M - 1)
  BY ModForm
<1> HIDE DEF q, e
<1>2. x + M = M * (q + 1) + e /\ q + 1 \in Int
  BY <1>1
<1>3. (M * (q + 1) + e) % M = e
  BY <1>1, <1>2, ModUnique
<1> QED BY <1>2, <1>3 DEF e
===============================================================================
