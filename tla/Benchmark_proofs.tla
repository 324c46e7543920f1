-------------------------- MODULE Benchmark_proofs ---------------------------
(***************************************************************************)
(* What is reported about simulations is right for any load profiles, any  *)
(* algorithms, any number of runs per group, any threads and any old CSV   *)
(* file: the fairness index, the averages of a group and the exported file.*)
(*                                                                         *)
(* The loops that add up are recursive functions, and what they compute is *)
(* proved by induction on sets of naturals.  An average is reasoned about  *)
(* by bounds on the sum: k values in S have a sum of at least k times one  *)
(* of them and at most k times another.                                    *)
(***************************************************************************)
EXTENDS Benchmark, FiniteSetTheorems, WellFoundedInduction, TLAPS

(* Induction over the naturals, for sets instead of predicates. *)

\* Every nonempty set of naturals has a least element.
LEMMA LeastElement ==
  ASSUME NEW T, T \subseteq Nat, T # {}
  PROVE  \E m \in T : \A k \in T : m <= k
<1> DEFINE R == OpToRel(<, Nat)
<1>1. IsWellFoundedOn(R, Nat)
  BY NatLessThanWellFounded
<1>2. \A x, y \in Nat : x < y => <<x, y>> \in R
  BY DEF OpToRel
<1> HIDE DEF R
<1>3. PICK m \in T : \A k \in T : ~ (<<k, m>> \in R)
  BY <1>1, WFMin
<1>4. \A k \in T : ~(k < m)
  BY <1>2, <1>3
<1> QED
  BY <1>4

\* A set with 0, and with the successor of each of its naturals, has them all.
LEMMA SetInduction ==
  ASSUME NEW S, 0 \in S, \A n \in Nat : n \in S => n + 1 \in S
  PROVE  \A n \in Nat : n \in S
<1> SUFFICES ASSUME Nat \ S # {} PROVE FALSE
  OBVIOUS
<1>1. PICK m \in Nat \ S : \A k \in Nat \ S : m <= k
  BY LeastElement
<1>2. m # 0 /\ m - 1 \in Nat
  BY <1>1
<1>3. m - 1 \in S
  BY <1>1, <1>2
<1> QED
  BY <1>1, <1>2, <1>3
-----------------------------------------------------------------------------
(* The loops that add up. *)

\* s is what the loop that adds up f[1], ..., f[n] has after each iteration.
Loop(s, f, n) ==
  /\ s = [i \in 0..n |-> IF i = 0 THEN 0 ELSE s[i - 1] + f[i]]
  /\ \A i \in 0..n : s[i] \in Int

\* Such a loop exists for every array of integers.
LEMMA LoopExists ==
  ASSUME NEW f, NEW n \in Nat, \A i \in 1..n : f[i] \in Int
  PROVE  \E s : Loop(s, f, n)
<1> DEFINE S == {k \in Nat : k <= n => \E s : Loop(s, f, k)}
<1>1. 0 \in S
  <2>1. Loop([i \in 0..0 |-> 0], f, 0)
    BY DEF Loop
  <2> QED
    BY <2>1
<1>2. ASSUME NEW k \in Nat, k \in S PROVE k + 1 \in S
  <2> SUFFICES ASSUME k + 1 <= n PROVE \E s : Loop(s, f, k + 1)
    OBVIOUS
  <2>1. PICK s : Loop(s, f, k)
    BY <1>2
  <2> DEFINE t == [i \in 0..k + 1 |-> IF i <= k THEN s[i] ELSE s[k] + f[k + 1]]
  <2>2. \A i \in 0..k + 1 : t[i] = IF i <= k THEN s[i] ELSE s[k] + f[k + 1]
    OBVIOUS
  <2>3. \A i \in 0..k : s[i] \in Int /\ s[i] = IF i = 0 THEN 0 ELSE s[i - 1] + f[i]
    BY <2>1 DEF Loop
  <2>4. DOMAIN t = 0..k + 1 /\ t = [i \in 0..k + 1 |-> t[i]]
    OBVIOUS
  <2> HIDE DEF t
  <2>5. \A i \in 0..k + 1 : t[i] = IF i = 0 THEN 0 ELSE t[i - 1] + f[i]
    <3> SUFFICES ASSUME NEW i \in 0..k + 1 PROVE t[i] = IF i = 0 THEN 0 ELSE t[i - 1] + f[i]
      OBVIOUS
    <3>1. CASE i <= k
      <4>1. i \in 0..k /\ (i # 0 => i - 1 \in 0..k)
        BY <3>1
      <4>2. i # 0 => t[i - 1] = s[i - 1]
        BY <2>2, <4>1
      <4> QED
        BY <2>2, <2>3, <4>1, <4>2
    <3>2. CASE i = k + 1
      <4>1. t[i] = s[k] + f[i] /\ t[i - 1] = s[k]
        BY <2>2, <3>2
      <4> QED
        BY <3>2, <4>1
    <3> QED
      BY <3>1, <3>2
  <2>6. \A i \in 0..k + 1 : t[i] \in Int
    BY <2>2, <2>3
  <2>7. t = [i \in 0..k + 1 |-> IF i = 0 THEN 0 ELSE t[i - 1] + f[i]]
    BY <2>4, <2>5
  <2> QED
    BY <2>6, <2>7 DEF Loop
<1>3. n \in S
  <2> HIDE DEF S
  <2> QED
    BY <1>1, <1>2, SetInduction
<1> QED
  BY <1>3

\* A loop that goes on has, on the way, what the shorter loop ends with.
LEMMA LoopUnique ==
  ASSUME NEW f, NEW n \in Nat, NEW m \in Nat, n <= m, NEW s, NEW t, Loop(s, f, n), Loop(t, f, m)
  PROVE  s[n] = t[n]
<1> DEFINE S == {k \in Nat : k <= n => s[k] = t[k]}
<1>1. 0 \in S
  BY DEF Loop
<1>2. ASSUME NEW k \in Nat, k \in S PROVE k + 1 \in S
  <2> SUFFICES ASSUME k + 1 <= n PROVE s[k + 1] = t[k + 1]
    OBVIOUS
  <2>1. k + 1 \in 0..n /\ k + 1 \in 0..m /\ k + 1 # 0 /\ (k + 1) - 1 = k
    OBVIOUS
  <2>2. s[k + 1] = s[k] + f[k + 1] /\ t[k + 1] = t[k] + f[k + 1]
    BY <2>1 DEF Loop
  <2> QED
    BY <1>2, <2>2
<1>3. n \in S
  <2> HIDE DEF S
  <2> QED
    BY <1>1, <1>2, SetInduction
<1> QED
  BY <1>3

\* Sum, the model of the for loops of Metrics::compute, is the last value of
\* such a loop.
LEMMA SumIsLoop ==
  ASSUME NEW f, NEW n \in Nat, \A i \in 1..n : f[i] \in Int
  PROVE  \E s : Loop(s, f, n) /\ Sum(f, n) = s[n]
<1> DEFINE s == CHOOSE s : s = [i \in 0..n |-> IF i = 0 THEN 0 ELSE s[i - 1] + f[i]]
<1>1. PICK t : Loop(t, f, n)
  BY LoopExists
<1>2. s = [i \in 0..n |-> IF i = 0 THEN 0 ELSE s[i - 1] + f[i]]
  BY <1>1 DEF Loop
<1>3. Sum(f, n) = s[n]
  BY DEF Sum
<1> HIDE DEF s
<1>4. \A i \in 0..n : s[i] = IF i = 0 THEN 0 ELSE s[i - 1] + f[i]
  BY <1>2
<1> DEFINE S == {k \in Nat : k <= n => s[k] \in Int}
<1>5. \A k \in Nat : k \in S
  <2>1. 0 \in S
    BY <1>4
  <2>2. ASSUME NEW k \in Nat, k \in S PROVE k + 1 \in S
    <3> SUFFICES ASSUME k + 1 <= n PROVE s[k + 1] \in Int
      OBVIOUS
    <3>1. k + 1 \in 0..n /\ k + 1 \in 1..n /\ k + 1 # 0 /\ (k + 1) - 1 = k /\ s[k] \in Int
      BY <2>2
    <3> QED
      BY <1>4, <3>1
  <2> HIDE DEF S
  <2> QED
    BY <2>1, <2>2, SetInduction
<1>6. \A i \in 0..n : s[i] \in Int
  BY <1>5
<1> QED
  BY <1>2, <1>3, <1>6 DEF Loop

\* What one more iteration adds.
LEMMA SumStep ==
  ASSUME NEW f, NEW n \in Nat, \A i \in 1..n + 1 : f[i] \in Int
  PROVE  /\ Sum(f, 0) = 0
         /\ Sum(f, n) \in Int
         /\ Sum(f, n + 1) = Sum(f, n) + f[n + 1]
<1>1. PICK z : Loop(z, f, 0) /\ Sum(f, 0) = z[0]
  <2>1. 0 \in Nat /\ \A i \in 1..0 : f[i] \in Int
    OBVIOUS
  <2> QED
    BY <2>1, SumIsLoop
<1>2. PICK s : Loop(s, f, n) /\ Sum(f, n) = s[n]
  <2>1. \A i \in 1..n : f[i] \in Int
    OBVIOUS
  <2> QED
    BY <2>1, SumIsLoop
<1>3. PICK t : Loop(t, f, n + 1) /\ Sum(f, n + 1) = t[n + 1]
  <2>1. n + 1 \in Nat
    OBVIOUS
  <2> QED
    BY <2>1, SumIsLoop
<1>4. s[n] = t[n]
  <2>1. n + 1 \in Nat /\ n <= n + 1
    OBVIOUS
  <2> QED
    BY <1>2, <1>3, <2>1, LoopUnique
<1>5. t[n + 1] = t[n] + f[n + 1]
  <2>1. n + 1 \in 0..n + 1 /\ n + 1 # 0 /\ (n + 1) - 1 = n
    OBVIOUS
  <2> QED
    BY <1>3, <2>1 DEF Loop
<1>6. z[0] = 0 /\ s[n] \in Int
  BY <1>1, <1>2 DEF Loop
<1> QED
  BY <1>1, <1>2, <1>3, <1>4, <1>5, <1>6

\* Two loops over the same values have the same outcome.
LEMMA SumSame ==
  ASSUME NEW f, NEW g, NEW n \in Nat, \A i \in 1..n : f[i] \in Int /\ g[i] = f[i]
  PROVE  Sum(g, n) = Sum(f, n)
<1> DEFINE S == {k \in Nat : k <= n => Sum(g, k) = Sum(f, k)}
<1>1. 0 \in S
  <2>1. Sum(f, 0) = 0 /\ Sum(g, 0) = 0
    <3>1. PICK s : Loop(s, f, 0) /\ Sum(f, 0) = s[0]
      <4>1. 0 \in Nat /\ \A i \in 1..0 : f[i] \in Int
        OBVIOUS
      <4> QED
        BY <4>1, SumIsLoop
    <3>2. PICK r : Loop(r, g, 0) /\ Sum(g, 0) = r[0]
      <4>1. 0 \in Nat /\ \A i \in 1..0 : g[i] \in Int
        OBVIOUS
      <4> QED
        BY <4>1, SumIsLoop
    <3> QED
      BY <3>1, <3>2 DEF Loop
  <2> QED
    BY <2>1
<1>2. ASSUME NEW k \in Nat, k \in S PROVE k + 1 \in S
  <2> SUFFICES ASSUME k + 1 <= n PROVE Sum(g, k + 1) = Sum(f, k + 1)
    OBVIOUS
  <2>1. \A i \in 1..k + 1 : f[i] \in Int /\ g[i] \in Int
    OBVIOUS
  <2>2. Sum(f, k + 1) = Sum(f, k) + f[k + 1] /\ Sum(g, k + 1) = Sum(g, k) + g[k + 1]
    BY <2>1, SumStep
  <2>3. g[k + 1] = f[k + 1] /\ Sum(g, k) = Sum(f, k)
    BY <1>2
  <2> QED
    BY <2>2, <2>3
<1>3. n \in S
  <2> HIDE DEF S
  <2> QED
    BY <1>1, <1>2, SetInduction
<1> QED
  BY <1>3

\* A sum of naturals is a natural, and it is 0 when there is nothing to add.
LEMMA SumNat ==
  ASSUME NEW f, NEW n \in Nat, \A i \in 1..n : f[i] \in Nat
  PROVE  Sum(f, 0) = 0 /\ Sum(f, n) \in Nat
<1> DEFINE g == [i \in 1..n + 1 |-> IF i = n + 1 THEN 0 ELSE f[i]]
           S == {k \in Nat : k <= n => Sum(g, k) \in Nat}
<1>1. \A i \in 1..n + 1 : g[i] \in Nat /\ g[i] \in Int
  OBVIOUS
<1>2. \A i \in 1..n : g[i] = f[i] /\ g[i] \in Int /\ f[i] \in Int
  OBVIOUS
<1> HIDE DEF g
<1>3. Sum(g, 0) = 0
  BY <1>1, SumStep
<1>4. ASSUME NEW k \in Nat, k \in S PROVE k + 1 \in S
  <2> SUFFICES ASSUME k + 1 <= n PROVE Sum(g, k + 1) \in Nat
    OBVIOUS
  <2>1. \A i \in 1..k + 1 : g[i] \in Int
    BY <1>1
  <2>2. Sum(g, k + 1) = Sum(g, k) + g[k + 1]
    BY <2>1, SumStep
  <2> QED
    BY <1>1, <1>4, <2>2
<1>5. n \in S /\ 0 \in S
  <2>1. 0 \in S
    BY <1>3
  <2> HIDE DEF S
  <2> QED
    BY <1>4, <2>1, SetInduction
<1>6. Sum(g, n) = Sum(f, n)
  BY <1>2, SumSame
<1>7. Sum(g, 0) = Sum(f, 0)
  <2>1. 0 \in Nat /\ \A i \in 1..0 : f[i] \in Int /\ g[i] = f[i]
    OBVIOUS
  <2> QED
    BY <2>1, SumSame
<1> QED
  BY <1>3, <1>5, <1>6, <1>7

\* The sums of n numbers and of their squares: Cauchy's inequality, and when
\* it is an equation.
LEMMA SquareSums ==
  ASSUME NEW n \in Nat, NEW x, \A i \in 1..n : x[i] \in Nat,
         NEW y, \A i \in 1..n : y[i] = x[i] * x[i]
  PROVE  /\ Sum(x, n) \in Nat /\ Sum(y, n) \in Nat
         /\ Sum(y, n) <= Sum(x, n) * Sum(x, n)
         /\ Sum(y, n) = 0 => \A i \in 1..n : x[i] = 0
         /\ Sum(x, n) * Sum(x, n) <= n * Sum(y, n)
         /\ Sum(x, n) * Sum(x, n) = n * Sum(y, n) <=> \A i, j \in 1..n : x[i] = x[j]
<1> DEFINE X(k) == Sum(x, k)
           Q(k) == Sum(y, k)
           E(k, a) == Q(k) + k * (a * a) - 2 * (X(k) * a)
           D(k) == k * Q(k) - X(k) * X(k)
<1>1. \A i \in 1..n : x[i] \in Int /\ y[i] \in Nat /\ y[i] \in Int
  <2>1. \A a \in Nat : a * a \in Nat
    OBVIOUS
  <2> QED
    BY <2>1
<1>2. ASSUME NEW k \in Nat, k <= n
      PROVE  X(k) \in Nat /\ Q(k) \in Nat /\ X(0) = 0 /\ Q(0) = 0
  <2>1. \A i \in 1..k : x[i] \in Nat /\ y[i] \in Nat
    BY <1>1, <1>2
  <2> QED
    BY <2>1, SumNat
<1>3. ASSUME NEW k \in Nat, k + 1 <= n
      PROVE  /\ X(k + 1) = X(k) + x[k + 1]
             /\ Q(k + 1) = Q(k) + x[k + 1] * x[k + 1]
             /\ X(k) \in Nat /\ Q(k) \in Nat /\ x[k + 1] \in Nat /\ k + 1 \in 1..n
  <2>1. \A i \in 1..k + 1 : x[i] \in Int /\ y[i] \in Int
    BY <1>1, <1>3
  <2>2. X(k + 1) = X(k) + x[k + 1] /\ Q(k + 1) = Q(k) + y[k + 1]
    BY <2>1, SumStep
  <2>3. X(k) \in Nat /\ Q(k) \in Nat
    BY <1>2, <1>3
  <2>4. k + 1 \in 1..n
    BY <1>3
  <2> QED
    BY <2>2, <2>3, <2>4
<1> HIDE DEF X, Q
<1>4. ASSUME NEW k \in Nat, k <= n PROVE Q(k) <= X(k) * X(k)
  <2> DEFINE S == {m \in Nat : m <= n => Q(m) <= X(m) * X(m)}
  <2>1. 0 \in S
    BY <1>2
  <2>2. ASSUME NEW m \in Nat, m \in S PROVE m + 1 \in S
    <3> SUFFICES ASSUME m + 1 <= n PROVE Q(m + 1) <= X(m + 1) * X(m + 1)
      OBVIOUS
    <3>1. \A X0, Q0, a \in Nat : Q0 <= X0 * X0 => Q0 + a * a <= (X0 + a) * (X0 + a)
      <4> SUFFICES ASSUME NEW X0 \in Nat, NEW Q0 \in Nat, NEW a \in Nat, Q0 <= X0 * X0
                   PROVE  Q0 + a * a <= (X0 + a) * (X0 + a)
        OBVIOUS
      <4>1. (X0 + a) * (X0 + a) = X0 * X0 + 2 * (X0 * a) + a * a /\ X0 * a \in Nat
        OBVIOUS
      <4> QED
        BY <4>1
    <3>2. Q(m) <= X(m) * X(m)
      BY <2>2
    <3>3. Q(m) + x[m + 1] * x[m + 1] <= (X(m) + x[m + 1]) * (X(m) + x[m + 1])
      BY <1>3, <3>1, <3>2, Zenon
    <3> QED
      BY <1>3, <3>3
  <2> HIDE DEF S
  <2>3. k \in S
    BY <2>1, <2>2, SetInduction
  <2> QED
    BY <1>4, <2>3 DEF S
<1>5. ASSUME NEW k \in Nat, k <= n PROVE Q(k) = 0 => \A i \in 1..k : x[i] = 0
  <2> DEFINE S == {m \in Nat : m <= n => (Q(m) = 0 => \A i \in 1..m : x[i] = 0)}
  <2>1. 0 \in S
    OBVIOUS
  <2>2. ASSUME NEW m \in Nat, m \in S PROVE m + 1 \in S
    <3> SUFFICES ASSUME m + 1 <= n, Q(m + 1) = 0, NEW i \in 1..m + 1 PROVE x[i] = 0
      OBVIOUS
    <3>1. \A Q0, a \in Nat : Q0 + a * a = 0 => Q0 = 0 /\ a = 0
      OBVIOUS
    <3>2. Q(m) = 0 /\ x[m + 1] = 0
      BY <1>3, <3>1
    <3>3. \A j \in 1..m : x[j] = 0
      BY <2>2, <3>2
    <3>4. i \in 1..m \/ i = m + 1
      OBVIOUS
    <3> QED
      BY <3>2, <3>3, <3>4
  <2> HIDE DEF S
  <2>3. k \in S
    BY <2>1, <2>2, SetInduction
  <2> QED
    BY <1>5, <2>3 DEF S
<1>6. ASSUME NEW a \in Nat, NEW k \in Nat, k <= n
      PROVE  E(k, a) \in Nat /\ (E(k, a) = 0 <=> \A i \in 1..k : x[i] = a)
  <2> DEFINE S == {m \in Nat : m <= n => E(m, a) \in Nat /\ (E(m, a) = 0 <=> \A i \in 1..m : x[i] = a)}
  <2>1. 0 \in S
    <3>1. E(0, a) = 0
      BY <1>2
    <3> QED
      BY <3>1
  <2>2. ASSUME NEW m \in Nat, m \in S PROVE m + 1 \in S
    <3> SUFFICES ASSUME m + 1 <= n
                 PROVE  E(m + 1, a) \in Nat /\ (E(m + 1, a) = 0 <=> \A i \in 1..m + 1 : x[i] = a)
      OBVIOUS
    <3>2. E(m + 1, a) = E(m, a) + (x[m + 1] - a) * (x[m + 1] - a)
      <4>1. /\ X(m + 1) = X(m) + x[m + 1]
            /\ Q(m + 1) = Q(m) + x[m + 1] * x[m + 1]
        BY <1>3
      <4>2. X(m) \in Nat /\ Q(m) \in Nat /\ x[m + 1] \in Nat
        BY <1>3
      <4>3. (Q(m) + x[m + 1] * x[m + 1]) + (m + 1) * (a * a) - 2 * ((X(m) + x[m + 1]) * a)
            = E(m, a) + (x[m + 1] - a) * (x[m + 1] - a)
        BY <4>2
      <4> QED
        BY <4>1, <4>3, Zenon
    <3>3. \A e, b \in Nat : /\ e + (b - a) * (b - a) \in Nat
                            /\ e + (b - a) * (b - a) = 0 <=> e = 0 /\ b = a
      <4> SUFFICES ASSUME NEW e \in Nat, NEW b \in Nat
                   PROVE  /\ e + (b - a) * (b - a) \in Nat
                          /\ e + (b - a) * (b - a) = 0 <=> e = 0 /\ b = a
        OBVIOUS
      <4>1. \A c \in Int : c * c >= 0 /\ (c * c = 0 <=> c = 0)
        OBVIOUS
      <4>2. b - a \in Int
        OBVIOUS
      <4> DEFINE c == b - a
      <4>3. c * c >= 0 /\ (c * c = 0 <=> c = 0) /\ c * c \in Int
        BY <4>1, <4>2
      <4> QED
        BY <4>3
    <3>4. E(m, a) \in Nat /\ (E(m, a) = 0 <=> \A i \in 1..m : x[i] = a)
      BY <2>2
    <3>5. x[m + 1] \in Nat
      BY <1>3
    <3> HIDE DEF E
    <3>6. E(m + 1, a) \in Nat /\ (E(m + 1, a) = 0 <=> E(m, a) = 0 /\ x[m + 1] = a)
      <4>1. /\ E(m, a) + (x[m + 1] - a) * (x[m + 1] - a) \in Nat
            /\ E(m, a) + (x[m + 1] - a) * (x[m + 1] - a) = 0 <=> E(m, a) = 0 /\ x[m + 1] = a
        BY <3>3, <3>4, <3>5, Zenon
      <4> QED
        BY <3>2, <4>1, Zenon
    <3>7. (\A i \in 1..m + 1 : x[i] = a) <=> (\A i \in 1..m : x[i] = a) /\ x[m + 1] = a
      <4>1. \A i : i \in 1..m + 1 <=> i \in 1..m \/ i = m + 1
        OBVIOUS
      <4> QED
        BY <4>1
    <3> QED
      BY <3>4, <3>6, <3>7
  <2> HIDE DEF S
  <2>3. k \in S
    BY <2>1, <2>2, SetInduction
  <2> HIDE DEF E
  <2> QED
    BY <1>6, <2>3 DEF S
<1>7. D(n) \in Nat /\ (D(n) = 0 <=> \A i, j \in 1..n : x[i] = x[j])
  <2> DEFINE S == {m \in Nat : m <= n => D(m) \in Nat /\ (D(m) = 0 <=> \A i, j \in 1..m : x[i] = x[j])}
  <2>1. 0 \in S
    <3>1. D(0) = 0
      BY <1>2
    <3> QED
      BY <3>1
  <2>2. ASSUME NEW m \in Nat, m \in S PROVE m + 1 \in S
    <3> SUFFICES ASSUME m + 1 <= n
                 PROVE  D(m + 1) \in Nat /\ (D(m + 1) = 0 <=> \A i, j \in 1..m + 1 : x[i] = x[j])
      OBVIOUS
    <3>1. \A X0, Q0, a \in Nat : (m + 1) * (Q0 + a * a) - (X0 + a) * (X0 + a)
                                 = (m * Q0 - X0 * X0) + (Q0 + m * (a * a) - 2 * (X0 * a))
      OBVIOUS
    <3>2. D(m + 1) = D(m) + E(m, x[m + 1])
      <4>1. /\ X(m + 1) = X(m) + x[m + 1]
            /\ Q(m + 1) = Q(m) + x[m + 1] * x[m + 1]
        BY <1>3
      <4>2. X(m) \in Nat /\ Q(m) \in Nat /\ x[m + 1] \in Nat
        BY <1>3
      <4>3. (m + 1) * (Q(m) + x[m + 1] * x[m + 1]) - (X(m) + x[m + 1]) * (X(m) + x[m + 1])
            = D(m) + E(m, x[m + 1])
        BY <3>1, <4>2, Zenon
      <4> QED
        BY <4>1, <4>3, Zenon
    <3> HIDE DEF E
    <3>3. E(m, x[m + 1]) \in Nat /\ (E(m, x[m + 1]) = 0 <=> \A i \in 1..m : x[i] = x[m + 1])
      <4>1. x[m + 1] \in Nat /\ m <= n
        BY <1>3
      <4> QED
        BY <1>6, <4>1
    <3>4. D(m) \in Nat /\ (D(m) = 0 <=> \A i, j \in 1..m : x[i] = x[j])
      BY <2>2
    <3> HIDE DEF D
    <3>5. D(m + 1) \in Nat /\ (D(m + 1) = 0 <=> D(m) = 0 /\ E(m, x[m + 1]) = 0)
      BY <3>2, <3>3, <3>4
    <3>6. (\A i, j \in 1..m + 1 : x[i] = x[j])
            <=> (\A i, j \in 1..m : x[i] = x[j]) /\ (\A i \in 1..m : x[i] = x[m + 1])
      <4>1. \A i : i \in 1..m + 1 <=> i \in 1..m \/ i = m + 1
        OBVIOUS
      <4> QED
        BY <4>1
    <3> QED
      BY <3>3, <3>4, <3>5, <3>6
  <2> HIDE DEF S
  <2>3. n \in S
    BY <2>1, <2>2, SetInduction
  <2> HIDE DEF D
  <2> QED
    BY <2>3 DEF S
<1>8. X(n) \in Nat /\ Q(n) \in Nat
  BY <1>2
<1>9. X(n) * X(n) <= n * Q(n) /\ (X(n) * X(n) = n * Q(n) <=> \A i, j \in 1..n : x[i] = x[j])
  <2>1. X(n) * X(n) \in Int /\ n * Q(n) \in Int
    BY <1>8
  <2> QED
    BY <1>7, <2>1
<1>10. Q(n) <= X(n) * X(n) /\ (Q(n) = 0 => \A i \in 1..n : x[i] = 0)
  BY <1>4, <1>5
<1> QED
  BY <1>8, <1>9, <1>10 DEF X, Q

\* The fairness index is a rational between 1/n and 1, and is 1 exactly for
\* equal shares.
LEMMA JainFacts ==
  ASSUME NEW n \in Nat, NEW x, \A i \in 1..n : x[i] \in Nat
  PROVE  /\ Jain(x, n) \in Rational
         /\ n = 0 => Jain(x, n) = RatZero
         /\ n > 0 => /\ RatLeq(<<1, n>>, Jain(x, n)) /\ RatLeq(Jain(x, n), RatOne)
                     /\ RatLeq(RatOne, Jain(x, n)) <=> \A i, j \in 1..n : x[i] = x[j]
<1> DEFINE y == [t \in 1..n |-> x[t] * x[t]]
           X == Sum(x, n)
           Q == Sum(y, n)
<1>1. \A i \in 1..n : y[i] = x[i] * x[i]
  OBVIOUS
<1>2. Jain(x, n) = IF n = 0 THEN RatZero ELSE IF Q > 0 THEN <<X * X, n * Q>> ELSE RatOne
  BY DEF Jain
<1> HIDE DEF y
<1>3. /\ X \in Nat /\ Q \in Nat
      /\ Q <= X * X /\ (Q = 0 => \A i \in 1..n : x[i] = 0)
      /\ X * X <= n * Q /\ (X * X = n * Q <=> \A i, j \in 1..n : x[i] = x[j])
  BY <1>1, SquareSums
<1> HIDE DEF X, Q
<1>4. CASE n = 0
  BY <1>2, <1>4 DEF Rational, RatZero
<1>5. CASE n > 0 /\ Q = 0
  <2>1. Jain(x, n) = <<1, 1>>
    BY <1>2, <1>5 DEF RatOne
  <2>2. \A i, j \in 1..n : x[i] = x[j]
    BY <1>3, <1>5
  <2> QED
    BY <1>5, <2>1, <2>2 DEF Rational, RatLeq, RatOne
<1>6. CASE n > 0 /\ Q > 0
  <2>1. Jain(x, n) = <<X * X, n * Q>>
    BY <1>2, <1>6
  <2>2. X * X \in Nat /\ n * Q \in Nat /\ n * Q > 0
    BY <1>3, <1>6
  <2>3. 1 * (n * Q) <= (X * X) * n
    <3>1. \A a, b \in Nat : a <= b => 1 * (n * a) <= b * n
      OBVIOUS
    <3> QED
      BY <1>3, <2>2, <3>1
  <2> DEFINE num == X * X
             den == n * Q
  <2>4. num \in Nat /\ den \in Nat \ {0} /\ num <= den /\ 1 * den <= num * n
        /\ (num = den <=> \A i, j \in 1..n : x[i] = x[j]) /\ Jain(x, n) = <<num, den>>
    BY <1>3, <2>1, <2>2, <2>3
  <2> HIDE DEF num, den
  <2>5. Jain(x, n) \in Rational /\ RatLeq(<<1, n>>, Jain(x, n)) /\ RatLeq(Jain(x, n), RatOne)
    BY <2>4 DEF Rational, RatLeq, RatOne
  <2>6. RatLeq(RatOne, Jain(x, n)) <=> num = den
    BY <2>4 DEF RatLeq, RatOne
  <2> QED
    BY <1>6, <2>4, <2>5, <2>6
<1> QED
  BY <1>3, <1>4, <1>5, <1>6
-----------------------------------------------------------------------------
(* Rationals. *)

\* The operations on rationals yield rationals: no denominator is ever 0.
LEMMA RatType ==
  ASSUME NEW x \in Rational, NEW y \in Rational, NEW n \in Nat \ {0}
  PROVE  /\ RatAdd(x, y) \in Rational /\ RatOver(x, n) \in Rational
         /\ RatZero \in Rational /\ RatOne \in Rational
         /\ x[1] \in Nat /\ x[2] \in Nat \ {0}
<1>1. x[1] \in Nat /\ x[2] \in Nat \ {0} /\ y[1] \in Nat /\ y[2] \in Nat \ {0}
  BY DEF Rational
<1>2. \A a, b \in Nat : a * b \in Nat
  OBVIOUS
<1>3. \A a, b \in Nat \ {0} : a * b \in Nat \ {0}
  OBVIOUS
<1>4. x[1] * y[2] \in Nat /\ y[1] * x[2] \in Nat /\ x[2] * y[2] \in Nat \ {0} /\ x[2] * n \in Nat \ {0}
  BY <1>1, <1>2, <1>3
<1>5. x[1] * y[2] + y[1] * x[2] \in Nat
  BY <1>4
<1> QED
  BY <1>1, <1>4, <1>5 DEF RatAdd, RatOver, RatZero, RatOne, Rational

\* A sum of rationals, as the means over readers and over writers take it, is
\* a rational.
LEMMA RatSumType ==
  ASSUME NEW f, NEW n \in Nat, \A i \in 1..n : f[i] \in Rational
  PROVE  RatSum(f, n) \in Rational
<1> DEFINE After(s, i) == IF i = 0 THEN RatZero ELSE RatAdd(s[i - 1], f[i])
           S == {k \in Nat : k <= n => \E s : s = [i \in 0..k |-> After(s, i)]}
<1>1. 0 \in S
  <2> DEFINE s == [i \in 0..0 |-> RatZero]
  <2>1. s = [i \in 0..0 |-> After(s, i)]
    OBVIOUS
  <2> QED
    BY <2>1
<1>2. ASSUME NEW k \in Nat, k \in S PROVE k + 1 \in S
  <2> SUFFICES ASSUME k + 1 <= n PROVE \E s : s = [i \in 0..k + 1 |-> After(s, i)]
    OBVIOUS
  <2>1. PICK s : s = [i \in 0..k |-> After(s, i)]
    BY <1>2
  <2> DEFINE t == [i \in 0..k + 1 |-> IF i <= k THEN s[i] ELSE RatAdd(s[k], f[k + 1])]
  <2>2. \A i \in 0..k + 1 : t[i] = IF i <= k THEN s[i] ELSE RatAdd(s[k], f[k + 1])
    OBVIOUS
  <2>3. \A i \in 0..k : s[i] = After(s, i)
    BY <2>1
  <2>4. t = [i \in 0..k + 1 |-> t[i]]
    OBVIOUS
  <2> HIDE DEF t
  <2>5. ASSUME NEW i \in 0..k + 1 PROVE t[i] = After(t, i)
    <3>1. CASE i <= k
      <4>1. i \in 0..k /\ (i # 0 => i - 1 \in 0..k)
        BY <3>1
      <4>2. i # 0 => t[i - 1] = s[i - 1]
        BY <2>2, <4>1
      <4> QED
        BY <2>2, <2>3, <4>1, <4>2
    <3>2. CASE i = k + 1
      <4>1. t[i] = RatAdd(s[k], f[i]) /\ t[i - 1] = s[k]
        BY <2>2, <3>2
      <4> QED
        BY <3>2, <4>1
    <3> QED
      BY <3>1, <3>2
  <2>6. t = [i \in 0..k + 1 |-> After(t, i)]
    BY <2>4, <2>5
  <2> QED
    BY <2>6
<1>3. n \in S
  <2> HIDE DEF S
  <2> QED
    BY <1>1, <1>2, SetInduction
<1> DEFINE s == CHOOSE s : s = [i \in 0..n |-> After(s, i)]
<1>4. s = [i \in 0..n |-> After(s, i)]
  <2>1. PICK t : t = [i \in 0..n |-> After(t, i)]
    BY <1>3
  <2> QED
    BY <2>1
<1>5. RatSum(f, n) = s[n]
  BY DEF RatSum
<1> HIDE DEF s
<1>6. \A i \in 0..n : s[i] = After(s, i)
  BY <1>4
<1> DEFINE T == {k \in Nat : k <= n => s[k] \in Rational}
<1>7. n \in T
  <2>1. 0 \in T
    BY <1>6 DEF Rational, RatZero
  <2>2. ASSUME NEW k \in Nat, k \in T PROVE k + 1 \in T
    <3> SUFFICES ASSUME k + 1 <= n PROVE s[k + 1] \in Rational
      OBVIOUS
    <3>1. k + 1 \in 0..n /\ k + 1 \in 1..n /\ k + 1 # 0 /\ (k + 1) - 1 = k
      OBVIOUS
    <3>2. s[k] \in Rational
      BY <2>2
    <3>3. s[k + 1] = RatAdd(s[k], f[k + 1])
      BY <1>6, <3>1
    <3>4. RatAdd(s[k], f[k + 1]) \in Rational
      BY <3>1, <3>2, RatType
    <3> QED
      BY <3>3, <3>4
  <2> HIDE DEF T
  <2> QED
    BY <2>1, <2>2, SetInduction
<1> QED
  BY <1>5, <1>7

\* k times x is at most y; y is at most k times x.
TimesLeq(k, x, y) == (k * x[1]) * y[2] <= y[1] * x[2]
LeqTimes(y, k, x) == y[1] * x[2] <= (k * x[1]) * y[2]

\* Products of naturals, spelled out for cross multiplication.
LEMMA Products ==
  ASSUME NEW a \in Nat, NEW b \in Nat, NEW c \in Nat
  PROVE  /\ a * b \in Nat /\ a * b = b * a /\ (a * b) * c = a * (b * c)
         /\ a <= b => a * c <= b * c
         /\ c # 0 /\ a * c <= b * c => a <= b
<1>1. a * b \in Nat /\ a * b = b * a /\ (a * b) * c = a * (b * c)
  OBVIOUS
<1>2. ASSUME a <= b PROVE a * c <= b * c
  <2>1. PICK d \in Nat : b = a + d
    <3>1. b - a \in Nat /\ b = a + (b - a)
      BY <1>2
    <3> QED
      BY <3>1
  <2>2. b * c = a * c + d * c /\ d * c \in Nat /\ a * c \in Nat
    BY <2>1
  <2> QED
    BY <2>2
<1>3. ASSUME c # 0, b < a PROVE b * c < a * c
  <2>1. PICK d \in Nat : a = b + 1 + d
    <3>1. a - b - 1 \in Nat /\ a = b + 1 + (a - b - 1)
      BY <1>3
    <3> QED
      BY <3>1
  <2>2. a * c = b * c + c + d * c /\ d * c \in Nat /\ b * c \in Nat
    BY <2>1
  <2> QED
    BY <1>3, <2>2
<1>4. a * c \in Nat /\ b * c \in Nat
  OBVIOUS
<1> QED
  BY <1>1, <1>2, <1>3, <1>4

\* Adding r to y, when y is at least k times x and r at least x; or at most.
LEMMA AddBound ==
  ASSUME NEW k \in Nat, NEW x \in Rational, NEW y \in Rational, NEW r \in Rational
  PROVE  /\ TimesLeq(k, x, y) /\ RatLeq(x, r) => TimesLeq(k + 1, x, RatAdd(y, r))
         /\ LeqTimes(y, k, x) /\ RatLeq(r, x) => LeqTimes(RatAdd(y, r), k + 1, x)
<1> DEFINE a == x[1]  b == x[2]  c == y[1]  d == y[2]  e == r[1]  f == r[2]
<1>1. a \in Nat /\ b \in Nat /\ c \in Nat /\ d \in Nat /\ e \in Nat /\ f \in Nat
  BY RatType
<1>2. RatAdd(y, r)[1] = c * f + e * d /\ RatAdd(y, r)[2] = d * f
  BY DEF RatAdd
<1> HIDE DEF a, b, c, d, e, f
<1>3. ((k + 1) * a) * (d * f) = ((k * a) * d) * f + (a * f) * d
  BY <1>1
<1>4. (c * f + e * d) * b = (c * b) * f + (e * b) * d
  BY <1>1
<1>5. /\ (k * a) * d \in Nat /\ a * f \in Nat /\ c * b \in Nat /\ e * b \in Nat
      /\ ((k * a) * d) * f \in Nat /\ (a * f) * d \in Nat /\ (c * b) * f \in Nat /\ (e * b) * d \in Nat
  BY <1>1, Products
<1>6. ASSUME (k * a) * d <= c * b, a * f <= e * b
      PROVE  ((k + 1) * a) * (d * f) <= (c * f + e * d) * b
  <2>1. ((k * a) * d) * f <= (c * b) * f
    BY <1>1, <1>5, <1>6, Products
  <2>2. (a * f) * d <= (e * b) * d
    BY <1>1, <1>5, <1>6, Products
  <2> QED
    BY <1>3, <1>4, <1>5, <2>1, <2>2
<1>7. ASSUME c * b <= (k * a) * d, e * b <= a * f
      PROVE  (c * f + e * d) * b <= ((k + 1) * a) * (d * f)
  <2>1. (c * b) * f <= ((k * a) * d) * f
    BY <1>1, <1>5, <1>7, Products
  <2>2. (e * b) * d <= (a * f) * d
    BY <1>1, <1>5, <1>7, Products
  <2> QED
    BY <1>3, <1>4, <1>5, <2>1, <2>2
<1> QED
  BY <1>2, <1>6, <1>7 DEF TimesLeq, LeqTimes, RatLeq, a, b, c, d, e, f

\* The order is total, and a smaller x keeps y at least k times x.
LEMMA RatOrder ==
  ASSUME NEW k \in Nat, NEW x \in Rational, NEW y \in Rational, NEW r \in Rational
  PROVE  /\ RatLeq(x, r) \/ RatLeq(r, x)
         /\ RatLeq(x, x)
         /\ TimesLeq(k, x, y) /\ RatLeq(r, x) => TimesLeq(k, r, y)
         /\ LeqTimes(y, k, x) /\ RatLeq(x, r) => LeqTimes(y, k, r)
<1> DEFINE a == x[1]  b == x[2]  c == y[1]  d == y[2]  e == r[1]  f == r[2]
<1>1. a \in Nat /\ b \in Nat /\ b # 0 /\ c \in Nat /\ d \in Nat /\ e \in Nat /\ f \in Nat
  BY DEF Rational
<1> HIDE DEF a, b, c, d, e, f
<1>2. /\ a * f \in Nat /\ e * b \in Nat /\ k * a \in Nat /\ k * e \in Nat /\ k * d \in Nat /\ c * b \in Nat
      /\ (k * a) * d \in Nat /\ (k * e) * d \in Nat /\ c * f \in Nat
  BY <1>1, Products
<1>3. /\ (e * b) * (k * d) = ((k * e) * d) * b
      /\ (a * f) * (k * d) = ((k * a) * d) * f
      /\ (c * b) * f = (c * f) * b
  BY <1>1
<1>4. ASSUME (k * a) * d <= c * b, e * b <= a * f
      PROVE  (k * e) * d <= c * f
  <2>1. (e * b) * (k * d) <= (a * f) * (k * d)
    BY <1>1, <1>2, <1>4, Products
  <2>2. ((k * a) * d) * f <= (c * b) * f
    BY <1>1, <1>2, <1>4, Products
  <2>3. ((k * e) * d) * b \in Nat /\ ((k * a) * d) * f \in Nat /\ (c * f) * b \in Nat
    BY <1>1, <1>2, Products
  <2>4. ((k * e) * d) * b <= (c * f) * b
    BY <1>3, <2>1, <2>2, <2>3
  <2> QED
    BY <1>1, <1>2, <2>4, Products
<1>5. ASSUME c * b <= (k * a) * d, a * f <= e * b
      PROVE  c * f <= (k * e) * d
  <2>1. (a * f) * (k * d) <= (e * b) * (k * d)
    BY <1>1, <1>2, <1>5, Products
  <2>2. (c * b) * f <= ((k * a) * d) * f
    BY <1>1, <1>2, <1>5, Products
  <2>3. ((k * e) * d) * b \in Nat /\ ((k * a) * d) * f \in Nat /\ (c * f) * b \in Nat
    BY <1>1, <1>2, Products
  <2>4. (c * f) * b <= ((k * e) * d) * b
    BY <1>3, <2>1, <2>2, <2>3
  <2> QED
    BY <1>1, <1>2, <2>4, Products
<1>6. RatLeq(x, r) \/ RatLeq(r, x)
  BY <1>2 DEF RatLeq, a, b, e, f
<1>7. RatLeq(x, x)
  <2>1. a * b \in Nat
    BY <1>1, Products
  <2> QED
    BY <2>1 DEF RatLeq, a, b
<1> QED
  BY <1>4, <1>5, <1>6, <1>7 DEF TimesLeq, LeqTimes, RatLeq, a, b, c, d, e, f

\* A sum between k times x and k times z is, divided by k, between x and z:
\* what runBenchmark does with the sums of a group.
LEMMA OverBound ==
  ASSUME NEW k \in Nat, NEW x \in Rational, NEW y \in Rational
  PROVE  /\ TimesLeq(k, x, y) => RatLeq(x, RatOver(y, k))
         /\ LeqTimes(y, k, x) => RatLeq(RatOver(y, k), x)
<1> DEFINE a == x[1]  d == y[2]
<1>1. a \in Nat /\ d \in Nat
  BY RatType
<1>2. RatOver(y, k)[1] = y[1] /\ RatOver(y, k)[2] = d * k
  BY DEF RatOver
<1>3. (k * a) * d = a * (d * k)
  <2> HIDE DEF a, d
  <2> QED
    BY <1>1
<1> QED
  BY <1>2, <1>3 DEF TimesLeq, LeqTimes, RatLeq

\* The bounds after one more value: k values in S add up to y, and r is added.
LEMMA BoundsAfterAdding ==
  ASSUME NEW k \in Nat, NEW S, S \subseteq Rational, NEW y \in Rational, NEW r \in Rational,
         k = 0 => y = RatZero,
         k # 0 => (\E x \in S : TimesLeq(k, x, y)) /\ (\E x \in S : LeqTimes(y, k, x))
  PROVE  /\ \E x \in S \cup {r} : TimesLeq(k + 1, x, RatAdd(y, r))
         /\ \E x \in S \cup {r} : LeqTimes(RatAdd(y, r), k + 1, x)
<1>1. RatLeq(r, r)
  BY RatOrder
<1>2. CASE k = 0
  <2>1. r[1] \in Nat /\ r[2] \in Nat /\ y = <<0, 1>>
    BY <1>2, RatType DEF RatZero
  <2>2. (k * r[1]) * y[2] = 0 /\ y[1] * r[2] = 0
    BY <1>2, <2>1
  <2>3. TimesLeq(k, r, y) /\ LeqTimes(y, k, r)
    BY <2>2 DEF TimesLeq, LeqTimes
  <2> QED
    BY <1>1, <2>3, AddBound
<1>3. CASE k # 0
  <2>1. PICK x \in S : TimesLeq(k, x, y)
    BY <1>3
  <2>2. PICK z \in S : LeqTimes(y, k, z)
    BY <1>3
  <2>3. \E v \in S \cup {r} : TimesLeq(k + 1, v, RatAdd(y, r))
    <3>1. CASE RatLeq(x, r)
      BY <2>1, <3>1, AddBound
    <3>2. CASE RatLeq(r, x)
      <4>1. TimesLeq(k, r, y)
        BY <2>1, <3>2, RatOrder
      <4> QED
        BY <1>1, <4>1, AddBound
    <3> QED
      BY <3>1, <3>2, RatOrder
  <2>4. \E v \in S \cup {r} : LeqTimes(RatAdd(y, r), k + 1, v)
    <3>1. CASE RatLeq(r, z)
      BY <2>2, <3>1, AddBound
    <3>2. CASE RatLeq(z, r)
      <4>1. LeqTimes(y, k, r)
        BY <2>2, <3>2, RatOrder
      <4> QED
        BY <1>1, <4>1, AddBound
    <3> QED
      BY <3>1, <3>2, RatOrder
  <2> QED
    BY <2>3, <2>4
<1> QED
  BY <1>2, <1>3
-----------------------------------------------------------------------------
(* What Metrics::compute returns. *)

\* The fields that are doubles in the code, and the one that is an int.
RatFields == {"avgReaderWaitMs", "avgWriterWaitMs", "throughputOpsPerSec",
              "jainsFairnessIndex", "simulationDurationMs"}
Fields    == RatFields \cup {"starvationCount"}

\* A MetricsResult.
Result == {r \in [Fields -> Rational \cup Nat] :
             r["starvationCount"] \in Nat /\ \A f \in RatFields : r[f] \in Rational}

\* MetricsResult{} is a result, with every field 0.
LEMMA NoMetricsType ==
  /\ NoMetrics \in Result /\ NoMetrics["starvationCount"] = 0
  /\ \A f \in RatFields : NoMetrics[f] = RatZero
<1>1. RatZero \in Rational
  BY DEF RatZero, Rational
<1>2. /\ DOMAIN NoMetrics = Fields /\ NoMetrics["starvationCount"] = 0
      /\ \A f \in RatFields : NoMetrics[f] = RatZero
  BY DEF NoMetrics, Fields, RatFields
<1>3. NoMetrics = [f \in Fields |-> NoMetrics[f]]
  BY DEF NoMetrics, Fields, RatFields
<1> QED
  BY <1>1, <1>2, <1>3 DEF Result, Fields

\* The mean wait of a nonempty or empty set of threads.
LEMMA MeanType ==
  ASSUME NEW n \in Nat, NEW lo \in Nat, NEW hi \in Nat, NEW i,
         \A t \in 1..n : i.opsCompleted[t] \in Nat /\ i.totalWaitMs[t] \in Nat
  PROVE  Mean(i, lo + 1..hi, n) \in Rational
<1> DEFINE S == lo + 1..hi
           f == [t \in 1..n |-> IF t \in S THEN avgWait(i, t) ELSE RatZero]
<1>1. RatZero \in Rational
  BY DEF RatZero, Rational
<1>2. ASSUME NEW t \in 1..n PROVE f[t] \in Rational
  <2>1. avgWait(i, t) \in Rational
    BY <1>1 DEF avgWait, Rational
  <2> QED
    BY <1>1, <2>1
<1> HIDE DEF f
<1>3. RatSum(f, n) \in Rational
  BY <1>2, RatSumType
<1>4. S # {} => Cardinality(S) \in Nat \ {0}
  <2>1. IsFiniteSet(S) /\ Cardinality(S) \in Nat
    BY FS_Interval, FS_CardinalityType
  <2> QED
    BY <2>1, FS_EmptySet
<1>5. Mean(i, S, n) = IF S = {} THEN RatZero ELSE RatOver(RatSum(f, n), Cardinality(S))
  BY DEF Mean, f
<1> HIDE DEF S
<1>6. Mean(i, S, n) \in Rational
  BY <1>1, <1>3, <1>4, <1>5, RatType
<1> QED
  BY <1>6 DEF S

\* Metrics::compute divides by no zero, whatever the threads did, and its
\* fairness index is that of the operations they completed.
LEMMA ComputeFacts ==
  ASSUME NEW cfg \in Config, NEW i \in ThreadInfos(cfg), NEW wallMs \in Durations
  PROVE  /\ compute(i, cfg, wallMs) \in Result
         /\ \E n \in Nat : /\ i.opsCompleted \in [1..n -> Nat]
                           /\ compute(i, cfg, wallMs)["jainsFairnessIndex"] = Jain(i.opsCompleted, n)
<1> DEFINE n == NumThreads(cfg)
           r == compute(i, cfg, wallMs)
<1>1. cfg.numReaders \in Nat /\ cfg.numWriters \in Nat /\ cfg.totalOps \in Nat /\ n \in Nat
  BY DEF Config, NumThreads
<1>2. /\ i.opsCompleted \in [1..n -> 0..cfg.totalOps]
      /\ i.totalWaitMs \in [1..n -> Waits] /\ i.starveCount \in [1..n -> Starves]
  BY DEF ThreadInfos, ThreadIds
<1>3. \A t \in 1..n : i.opsCompleted[t] \in Nat /\ i.totalWaitMs[t] \in Nat /\ i.starveCount[t] \in Nat
  <2>1. Waits \subseteq Nat /\ Starves \subseteq Nat /\ 0..cfg.totalOps \subseteq Nat
    BY <1>1, BenchmarkAssumption
  <2> HIDE DEF n
  <2> QED
    BY <1>2, <2>1
<1>4. /\ r = [avgReaderWaitMs      |-> Mean(i, ReaderIds(cfg), n),
              avgWriterWaitMs      |-> Mean(i, WriterIds(cfg), n),
              throughputOpsPerSec  |-> IF wallMs > 0 THEN <<Sum(i.opsCompleted, n) * 1000, wallMs>> ELSE RatZero,
              jainsFairnessIndex   |-> Jain(i.opsCompleted, n),
              starvationCount      |-> Sum(i.starveCount, n),
              simulationDurationMs |-> <<wallMs, 1>>]
  BY DEF compute
<1> HIDE DEF n, r
<1>5. Mean(i, ReaderIds(cfg), n) \in Rational
  <2>1. ReaderIds(cfg) = 0 + 1..cfg.numReaders
    BY DEF ReaderIds
  <2> QED
    BY <1>1, <1>3, <2>1, MeanType
<1>6. Mean(i, WriterIds(cfg), n) \in Rational
  <2>1. WriterIds(cfg) = cfg.numReaders + 1..n
    BY DEF WriterIds, n
  <2> QED
    BY <1>1, <1>3, <2>1, MeanType
<1>7. Sum(i.opsCompleted, n) \in Nat /\ Sum(i.starveCount, n) \in Nat
  BY <1>1, <1>3, SumNat
<1>8. Jain(i.opsCompleted, n) \in Rational
  BY <1>1, <1>3, JainFacts
<1>9. wallMs \in Nat
  BY BenchmarkAssumption
<1>10. /\ r["avgReaderWaitMs"] \in Rational /\ r["avgWriterWaitMs"] \in Rational
       /\ r["throughputOpsPerSec"] \in Rational /\ r["jainsFairnessIndex"] \in Rational
       /\ r["simulationDurationMs"] \in Rational /\ r["starvationCount"] \in Nat
       /\ r["jainsFairnessIndex"] = Jain(i.opsCompleted, n)
  BY <1>4, <1>5, <1>6, <1>7, <1>8, <1>9 DEF Rational, RatZero
<1>11. r = [f \in Fields |-> r[f]]
  BY <1>4 DEF Fields, RatFields
<1>12. r \in Result
  BY <1>10, <1>11 DEF Result, Fields, RatFields
<1>13. i.opsCompleted \in [1..n -> Nat]
  BY <1>2, <1>3
<1> QED
  BY <1>1, <1>10, <1>12, <1>13 DEF r
-----------------------------------------------------------------------------
(* The invariant that every step of main keeps. *)

\* Every line a CSV file may have.
Lines == OldLines \cup {Header} \cup {row(g) : g \in 1..Groups}

\* The types of what the invariant is about.
TypeInv ==
  /\ baseCfg.benchmarkMode \in BOOLEAN /\ baseCfg.sim \in Config
  /\ runsOk \in Nat /\ avg \in Result /\ results \in Seq(Result)
  /\ csv0.exists \in BOOLEAN /\ csv0.lines \in Seq(OldLines)
  /\ ~csv0.exists => csv0.lines = <<>>
  /\ csv.exists \in BOOLEAN /\ csv.lines \in Seq(Lines)

\* Which group main is at.
PlaceInv ==
  /\ main \in {"group", "simulate", "export", "exported", "printTable", "finished"}
  /\ group \in 1..Groups + 1
  /\ baseCfg.benchmarkMode =>
        (group = Groups + 1 <=> main \in {"printTable", "finished"})
  /\ ~baseCfg.benchmarkMode => group = 1 /\ main \notin {"group", "printTable"}

\* The last result is about the threads of the last simulation.
JainInv ==
  results # <<>> =>
    \E n \in Nat : /\ infos.opsCompleted \in [1..n -> Nat]
                   /\ results[Len(results)]["jainsFairnessIndex"] = Jain(infos.opsCompleted, n)

\* The starvation events of the runs of the group.
Counts(s) == [i \in 1..Len(s) |-> s[i]["starvationCount"]]

\* The values of field f in the runs of the group.
Values(s, f) == {s[i][f] : i \in 1..Len(s)}

\* avg is a sum of the results of the group so far: as many times a value
\* that is not above any of them, and one that is not below.
SumInv ==
  main = "simulate" /\ baseCfg.benchmarkMode =>
    /\ runsOk = Len(results)
    /\ avg["starvationCount"] = Sum(Counts(results), runsOk)
    /\ runsOk = 0 => \A f \in RatFields : avg[f] = RatZero
    /\ runsOk # 0 => \A f \in RatFields :
          /\ \E x \in Values(results, f) : TimesLeq(runsOk, x, avg[f])
          /\ \E x \in Values(results, f) : LeqTimes(avg[f], runsOk, x)

\* The groups whose export is over, and those of them that are in the file.
Over == IF main = "exported" \/ (main = "finished" /\ ~baseCfg.benchmarkMode)
        THEN 1..group ELSE 1..group - 1
Kept == Over \ lost

\* What is in front of the rows of this process.
Front == csv0.lines \o IF csv0.exists \/ Kept = {} THEN <<>> ELSE <<Header>>

\* OneHeaderFirst, for the exports so far.
FileInv ==
  baseCfg.csvOutput =>
    /\ lost \subseteq Over
    /\ csv.exists <=> csv0.exists \/ Kept # {}
    /\ Len(csv.lines) = Len(Front) + Cardinality(Kept)
    /\ \A i \in 1..Len(Front) : csv.lines[i] = Front[i]
    /\ \A g \in Kept : csv.lines[Len(Front) + Cardinality({h \in Kept : h <= g})] = row(g)

\* The inductive invariant.
IndInv == TypeInv /\ PlaceInv /\ JainInv /\ SumInv /\ AverageBetweenRuns /\ FileInv

\* The two outer loops: there is a group, and each has its configuration.
LEMMA GroupFacts ==
  /\ Groups \in Nat \ {0}
  /\ \A g \in 1..Groups : applyLoadProfile(g) \in Config
<1> DEFINE L == Len(Algorithms)
           P == Len(Profiles)
<1>1. L \in Nat \ {0} /\ P \in Nat \ {0}
  BY BenchmarkAssumption
<1>2. Groups = P * L
  BY DEF Groups
<1>3. \A k \in 1..P : Profiles[k] \in Config
  BY BenchmarkAssumption
<1> HIDE DEF L, P
<1>4. Groups \in Nat \ {0}
  BY <1>1, <1>2
<1>5. ASSUME NEW g \in 1..Groups PROVE applyLoadProfile(g) \in Config
  <2> DEFINE q == (g - 1) \div L
             m == (g - 1) % L
  <2>1. g - 1 \in Nat /\ g - 1 < P * L
    BY <1>1, <1>2, <1>4
  <2>2. q \in Nat /\ m \in Nat /\ g - 1 = L * q + m
    BY <1>1, <2>1
  <2> HIDE DEF q, m
  <2>3. ASSUME q >= P PROVE FALSE
    <3>1. P * L <= q * L
      BY <1>1, <2>2, <2>3, Products
    <3>2. q * L = L * q /\ L * q \in Nat /\ P * L \in Nat
      BY <1>1, <2>2
    <3> QED
      BY <2>1, <2>2, <3>1, <3>2
  <2>4. q + 1 \in 1..P
    BY <1>1, <2>2, <2>3
  <2>5. applyLoadProfile(g) = Profiles[q + 1]
    BY DEF applyLoadProfile, q, L
  <2> QED
    BY <1>3, <2>4, <2>5
<1> QED
  BY <1>4, <1>5

\* While a group is simulated or exported, its configuration and its row exist.
LEMMA CurrentConfig ==
  ASSUME TypeInv, PlaceInv, main \in {"simulate", "export"}
  PROVE  runCfg(group) \in Config /\ group \in 1..Groups /\ row(group) \in Lines
<1>1. group \in 1..Groups
  BY GroupFacts DEF PlaceInv, TypeInv
<1>2. runCfg(group) \in Config
  BY <1>1, GroupFacts DEF runCfg, TypeInv
<1>3. row(group) \in Lines
  BY <1>1 DEF Lines
<1> QED
  BY <1>1, <1>2, <1>3

\* A step that exports nothing and begins no group leaves the file as it is.
LEMMA FileUntouched ==
  ASSUME FileInv, UNCHANGED <<baseCfg, csv, csv0, lost>>, Over' = Over
  PROVE  FileInv'
<1>1. Kept' = Kept
  BY DEF Kept
<1>2. Front' = Front
  BY <1>1 DEF Front
<1>3. \A g : row(g)' = row(g)
  BY DEF row, runCfg
<1> QED
  BY <1>1, <1>2, <1>3 DEF FileInv

\* When main begins, nothing is simulated and the file is the old one.
LEMMA InitInv == Init => IndInv
<1> SUFFICES ASSUME Init PROVE IndInv
  OBVIOUS
<1>1. csv0 \in Files /\ csv = csv0 /\ lost = {} /\ group = 1 /\ results = <<>>
  BY DEF Init
<1>2. /\ baseCfg.benchmarkMode \in BOOLEAN /\ baseCfg.sim \in CommandLines
      /\ main = IF baseCfg.benchmarkMode THEN "group" ELSE "simulate"
  BY DEF Init
<1>3. TypeInv
  <2>1. baseCfg.sim \in Config /\ csv0.exists \in BOOLEAN /\ csv0.lines \in Seq(OldLines)
        /\ (~csv0.exists => csv0.lines = <<>>)
    BY <1>1, <1>2, BenchmarkAssumption
  <2>2. csv0.lines \in Seq(Lines)
    BY <2>1 DEF Lines
  <2>3. avg \in Result /\ runsOk \in Nat /\ results \in Seq(Result)
    BY NoMetricsType DEF Init
  <2> QED
    BY <1>1, <1>2, <2>1, <2>2, <2>3 DEF TypeInv
<1>4. PlaceInv
  BY <1>1, <1>2, GroupFacts DEF PlaceInv
<1>5. JainInv
  BY <1>1 DEF JainInv
<1>6. SumInv
  BY <1>2 DEF SumInv
<1>7. AverageBetweenRuns
  BY <1>2 DEF AverageBetweenRuns
<1>8. FileInv
  <2>1. Over = {} /\ Kept = {}
    BY <1>1, <1>2 DEF Over, Kept
  <2>2. Front = csv0.lines
    BY <1>3, <2>1 DEF Front, TypeInv
  <2>3. Cardinality(Kept) = 0
    BY <2>1, FS_EmptySet
  <2> QED
    BY <1>1, <1>3, <2>1, <2>2, <2>3 DEF FileInv, TypeInv
<1> QED
  BY <1>3, <1>4, <1>5, <1>6, <1>7, <1>8 DEF IndInv
-----------------------------------------------------------------------------
(* The steps. *)

\* The locals of a group are reset.
LEMMA BeginGroup ==
  ASSUME IndInv, begin_group
  PROVE  IndInv'
<1> USE DEF IndInv, begin_group, files
<1>1. /\ baseCfg' = baseCfg /\ group' = group /\ csv' = csv /\ csv0' = csv0 /\ lost' = lost
      /\ main = "group" /\ main' = "simulate"
      /\ avg' = NoMetrics /\ runsOk' = 0 /\ results' = <<>>
  OBVIOUS
<1>2. TypeInv'
  <2>1. Lines' = Lines
    BY <1>1 DEF Lines, row, runCfg
  <2> QED
    BY <1>1, <2>1, NoMetricsType DEF TypeInv
<1>3. PlaceInv'
  BY <1>1 DEF PlaceInv
<1>4. JainInv'
  BY <1>1 DEF JainInv
<1>5. SumInv'
  <2>1. Sum(Counts(<<>>), 0) = 0
    <3>1. 0 \in Nat /\ \A i \in 1..0 : Counts(<<>>)[i] \in Nat
      OBVIOUS
    <3> QED
      BY <3>1, SumNat
  <2> QED
    BY <1>1, <2>1, NoMetricsType DEF SumInv
<1>6. AverageBetweenRuns'
  BY <1>1 DEF AverageBetweenRuns
<1>7. FileInv'
  <2>1. Over' = Over
    BY <1>1 DEF Over
  <2> QED
    BY <1>1, <2>1, FileUntouched
<1> QED
  BY <1>2, <1>3, <1>4, <1>5, <1>6, <1>7

\* One result is added to the sums.
LEMMA SimulateRun ==
  ASSUME IndInv, simulate_run
  PROVE  IndInv'
<1> USE DEF IndInv
<1>1. /\ baseCfg' = baseCfg /\ group' = group /\ csv' = csv /\ csv0' = csv0 /\ lost' = lost
      /\ baseCfg.benchmarkMode /\ main = "simulate" /\ main' = main
      /\ runsOk' = runsOk + 1
  BY DEF simulate_run, files
<1>2. PICK i \in ThreadInfos(runCfg(group)), wallMs \in Durations :
        LET r == compute(i, runCfg(group), wallMs)
        IN /\ infos' = i
           /\ results' = Append(results, r)
           /\ avg' = [f \in DOMAIN avg |-> IF f = "starvationCount" THEN avg[f] + r[f]
                                           ELSE RatAdd(avg[f], r[f])]
  BY DEF simulate_run
<1> DEFINE r == compute(i, runCfg(group), wallMs)
<1>3. /\ infos' = i /\ results' = Append(results, r)
      /\ avg' = [f \in DOMAIN avg |-> IF f = "starvationCount" THEN avg[f] + r[f]
                                      ELSE RatAdd(avg[f], r[f])]
  BY <1>2
<1>4. runCfg(group) \in Config
  BY <1>1, CurrentConfig
<1>5. /\ r \in Result
      /\ \E n \in Nat : i.opsCompleted \in [1..n -> Nat]
                        /\ r["jainsFairnessIndex"] = Jain(i.opsCompleted, n)
  BY <1>4, ComputeFacts
<1> HIDE DEF r
<1>6. avg \in Result /\ results \in Seq(Result) /\ runsOk \in Nat /\ Len(results) \in Nat
  BY DEF TypeInv
<1>7. /\ Len(results') = Len(results) + 1
      /\ \A k \in 1..Len(results) : results'[k] = results[k]
      /\ results'[Len(results) + 1] = r
      /\ results' \in Seq(Result)
  BY <1>3, <1>5, <1>6
<1>8. /\ avg'["starvationCount"] = avg["starvationCount"] + r["starvationCount"]
      /\ \A f \in RatFields : avg'[f] = RatAdd(avg[f], r[f])
      /\ avg' = [f \in Fields |-> avg'[f]]
  BY <1>3, <1>6 DEF Result, Fields, RatFields
<1>9. /\ avg["starvationCount"] \in Nat /\ r["starvationCount"] \in Nat
      /\ \A f \in RatFields : avg[f] \in Rational /\ r[f] \in Rational
  BY <1>5, <1>6 DEF Result
<1>10. avg' \in Result
  <2>1. ASSUME NEW f \in RatFields PROVE avg'[f] \in Rational
    <3>1. avg[f] \in Rational /\ r[f] \in Rational /\ avg'[f] = RatAdd(avg[f], r[f])
      BY <1>8, <1>9
    <3>2. RatAdd(avg[f], r[f]) \in Rational
      BY <3>1, RatType
    <3> QED
      BY <3>1, <3>2
  <2>2. avg'["starvationCount"] \in Nat
    BY <1>8, <1>9
  <2> QED
    BY <1>8, <2>1, <2>2 DEF Result, Fields
<1>11. TypeInv'
  <2>1. Lines' = Lines
    BY <1>1 DEF Lines, row, runCfg
  <2>2. runsOk' \in Nat
    BY <1>1, <1>6
  <2> QED
    BY <1>1, <1>7, <1>10, <2>1, <2>2 DEF TypeInv
<1>12. PlaceInv'
  BY <1>1 DEF PlaceInv
<1>13. JainInv'
  <2>1. results'[Len(results')] = r
    BY <1>6, <1>7
  <2> QED
    BY <1>3, <1>5, <2>1 DEF JainInv
<1>14. SumInv'
  <2>1. runsOk = Len(results) /\ avg["starvationCount"] = Sum(Counts(results), runsOk)
    BY <1>1 DEF SumInv
  <2>2. runsOk' = Len(results')
    BY <1>1, <1>7, <2>1
  <2>3. avg'["starvationCount"] = Sum(Counts(results'), runsOk')
    <3>1. /\ \A k \in 1..runsOk + 1 : Counts(results')[k] \in Int
          /\ Counts(results')[runsOk + 1] = r["starvationCount"]
      <4>1. Len(results') = runsOk + 1 /\ runsOk + 1 \in 1..runsOk + 1
        BY <1>6, <1>7, <2>1
      <4>2. \A k \in 1..runsOk + 1 : Counts(results')[k] = results'[k]["starvationCount"]
        BY <4>1 DEF Counts
      <4>3. \A k \in 1..runsOk + 1 : results'[k] \in Result
        BY <1>7, <4>1
      <4>4. \A q \in Result : q["starvationCount"] \in Int
        BY DEF Result
      <4> QED
        BY <1>7, <2>1, <4>1, <4>2, <4>3, <4>4
    <3>2. \A k \in 1..runsOk : Counts(results)[k] \in Int /\ Counts(results')[k] = Counts(results)[k]
      BY <1>1, <1>6, <1>7, <2>1 DEF Counts, Result
    <3>3. Sum(Counts(results'), runsOk + 1) = Sum(Counts(results'), runsOk) + r["starvationCount"]
      BY <1>6, <3>1, SumStep
    <3>4. Sum(Counts(results'), runsOk) = Sum(Counts(results), runsOk)
      BY <1>6, <3>2, SumSame
    <3> QED
      BY <1>1, <1>8, <2>1, <3>3, <3>4
  <2>4. ASSUME NEW f \in RatFields
        PROVE  /\ \E x \in Values(results', f) : TimesLeq(runsOk', x, avg'[f])
               /\ \E x \in Values(results', f) : LeqTimes(avg'[f], runsOk', x)
    <3> DEFINE S == Values(results, f)
    <3>1. S \subseteq Rational
      BY <1>6 DEF Values, Result
    <3>2. Values(results', f) = S \cup {r[f]}
      <4>1. \A k : k \in 1..Len(results') <=> k \in 1..Len(results) \/ k = Len(results) + 1
        BY <1>6, <1>7
      <4> QED
        BY <1>7, <4>1 DEF Values
    <3>3. /\ runsOk = 0 => avg[f] = RatZero
          /\ runsOk # 0 => (\E x \in S : TimesLeq(runsOk, x, avg[f]))
                           /\ (\E x \in S : LeqTimes(avg[f], runsOk, x))
      BY <1>1 DEF SumInv
    <3> HIDE DEF S
    <3>4. /\ \E x \in S \cup {r[f]} : TimesLeq(runsOk + 1, x, RatAdd(avg[f], r[f]))
          /\ \E x \in S \cup {r[f]} : LeqTimes(RatAdd(avg[f], r[f]), runsOk + 1, x)
      <4>1. runsOk \in Nat /\ avg[f] \in Rational /\ r[f] \in Rational
        BY <1>6, <1>9
      <4> HIDE DEF IndInv
      <4> QED
        BY <3>1, <3>3, <4>1, BoundsAfterAdding
    <3> QED
      BY <1>1, <1>8, <3>2, <3>4
  <2>5. runsOk' # 0
    BY <1>1, <1>6
  <2> QED
    BY <2>2, <2>3, <2>4, <2>5 DEF SumInv
<1>15. AverageBetweenRuns'
  BY <1>1 DEF AverageBetweenRuns
<1>16. FileInv'
  <2>1. Over' = Over
    BY <1>1 DEF Over
  <2> QED
    BY <1>1, <2>1, FileUntouched
<1> QED
  BY <1>11, <1>12, <1>13, <1>14, <1>15, <1>16

\* What integer division leaves out.
LEMMA Remainder ==
  ASSUME NEW a \in Nat, NEW n \in Nat \ {0}
  PROVE  a \div n \in Nat /\ a - (a \div n) * n \in 0..n - 1
<1>1. a \div n \in Nat /\ a % n \in 0..n - 1 /\ a = n * (a \div n) + (a % n)
  OBVIOUS
<1>2. \A q \in Nat : q * n = n * q /\ n * q \in Nat
  OBVIOUS
<1> QED
  BY <1>1, <1>2

\* The sums become averages.
LEMMA Average ==
  ASSUME IndInv, average
  PROVE  IndInv'
<1> USE DEF IndInv
<1>1. /\ baseCfg' = baseCfg /\ group' = group /\ csv' = csv /\ csv0' = csv0 /\ lost' = lost
      /\ runsOk' = runsOk /\ infos' = infos /\ results' = results
      /\ baseCfg.benchmarkMode /\ main = "simulate" /\ main' = "export" /\ runsOk = BENCHMARK_RUNS
      /\ avg' = [f \in DOMAIN avg |-> IF f = "starvationCount" THEN avg[f] \div runsOk
                                      ELSE RatOver(avg[f], runsOk)]
  BY DEF average, files
<1>2. runsOk \in Nat \ {0} /\ avg \in Result /\ results \in Seq(Result) /\ runsOk = Len(results)
  BY <1>1, BenchmarkAssumption DEF TypeInv, SumInv
<1>3. /\ avg'["starvationCount"] = avg["starvationCount"] \div runsOk
      /\ \A f \in RatFields : avg'[f] = RatOver(avg[f], runsOk)
      /\ avg' = [f \in Fields |-> avg'[f]]
  BY <1>1, <1>2 DEF Result, Fields, RatFields
<1>4. avg["starvationCount"] \in Nat /\ \A f \in RatFields : avg[f] \in Rational
  BY <1>2 DEF Result
<1>5. avg' \in Result
  <2>1. ASSUME NEW f \in RatFields PROVE avg'[f] \in Rational
    <3>1. avg[f] \in Rational /\ avg'[f] = RatOver(avg[f], runsOk)
      BY <1>3, <1>4
    <3>2. RatOver(avg[f], runsOk) \in Rational
      BY <1>2, <3>1, RatType
    <3> QED
      BY <3>1, <3>2
  <2>2. avg'["starvationCount"] \in Nat
    BY <1>2, <1>3, <1>4, Remainder
  <2> QED
    BY <1>3, <2>1, <2>2 DEF Result, Fields
<1>6. TypeInv'
  <2>1. Lines' = Lines
    BY <1>1 DEF Lines, row, runCfg
  <2> QED
    BY <1>1, <1>5, <2>1 DEF TypeInv
<1>7. PlaceInv'
  BY <1>1 DEF PlaceInv
<1>8. JainInv'
  BY <1>1 DEF JainInv
<1>9. SumInv'
  BY <1>1 DEF SumInv
<1>10. AverageBetweenRuns'
  <2>1. DOMAIN avg' \ {"starvationCount"} = RatFields
    BY <1>3 DEF Fields, RatFields
  <2>2. ASSUME NEW f \in RatFields
        PROVE  \E i, j \in DOMAIN results : RatLeq(results[i][f], avg'[f]) /\ RatLeq(avg'[f], results[j][f])
    <3>1. avg'[f] = RatOver(avg[f], runsOk) /\ avg[f] \in Rational
      BY <1>3, <1>4
    <3>2. PICK x \in Values(results, f) : TimesLeq(runsOk, x, avg[f])
      BY <1>1, <1>2 DEF SumInv
    <3>3. PICK y \in Values(results, f) : LeqTimes(avg[f], runsOk, y)
      BY <1>1, <1>2 DEF SumInv
    <3>4. x \in Rational /\ y \in Rational
      BY <1>2 DEF Values, Result
    <3>5. RatLeq(x, avg'[f]) /\ RatLeq(avg'[f], y)
      BY <1>2, <3>1, <3>2, <3>3, <3>4, OverBound
    <3>6. DOMAIN results = 1..Len(results)
      BY <1>2
    <3> QED
      BY <3>5, <3>6 DEF Values
  <2>3. /\ avg["starvationCount"] = Sum(Counts(results), runsOk)
        /\ Counts(results) = [i \in 1..Len(results) |-> results[i].starvationCount]
    BY <1>1 DEF SumInv, Counts
  <2>4. avg["starvationCount"] - avg'["starvationCount"] * runsOk \in 0..runsOk - 1
    BY <1>2, <1>3, <1>4, Remainder
  <2>5. Sum([i \in 1..Len(results) |-> results[i].starvationCount], Len(results))
          - avg'.starvationCount * Len(results) \in 0..Len(results) - 1
    BY <1>2, <2>3, <2>4
  <2> QED
    BY <1>1, <2>1, <2>2, <2>5 DEF AverageBetweenRuns
<1>11. FileInv'
  <2>1. Over' = Over
    BY <1>1 DEF Over
  <2> QED
    BY <1>1, <2>1, FileUntouched
<1> QED
  BY <1>6, <1>7, <1>8, <1>9, <1>10, <1>11

\* One simulation, its result reported as it is.
LEMMA SimulateOnce ==
  ASSUME IndInv, simulate_once
  PROVE  IndInv'
<1> USE DEF IndInv
<1>1. /\ baseCfg' = baseCfg /\ group' = group /\ csv' = csv /\ csv0' = csv0 /\ lost' = lost
      /\ runsOk' = runsOk /\ ~baseCfg.benchmarkMode /\ main = "simulate" /\ main' = "export"
  BY DEF simulate_once, files
<1>2. PICK i \in ThreadInfos(runCfg(group)), wallMs \in Durations :
        /\ infos' = i
        /\ results' = <<compute(i, runCfg(group), wallMs)>>
        /\ avg' = compute(i, runCfg(group), wallMs)
  BY DEF simulate_once
<1> DEFINE r == compute(i, runCfg(group), wallMs)
<1>3. infos' = i /\ results' = <<r>> /\ avg' = r
  BY <1>2
<1>4. runCfg(group) \in Config
  BY <1>1, CurrentConfig
<1>5. /\ r \in Result
      /\ \E n \in Nat : i.opsCompleted \in [1..n -> Nat]
                        /\ r["jainsFairnessIndex"] = Jain(i.opsCompleted, n)
  BY <1>4, ComputeFacts
<1> HIDE DEF r
<1>6. TypeInv'
  <2>1. Lines' = Lines
    BY <1>1 DEF Lines, row, runCfg
  <2>2. results' \in Seq(Result)
    BY <1>3, <1>5
  <2> QED
    BY <1>1, <1>3, <1>5, <2>1, <2>2 DEF TypeInv
<1>7. PlaceInv'
  BY <1>1 DEF PlaceInv
<1>8. JainInv'
  <2>1. results'[Len(results')] = r
    BY <1>3
  <2> QED
    BY <1>3, <1>5, <2>1 DEF JainInv
<1>9. SumInv'
  BY <1>1 DEF SumInv
<1>10. AverageBetweenRuns'
  <2>1. DOMAIN avg' \ {"starvationCount"} = RatFields
    BY <1>3, <1>5 DEF Result, Fields, RatFields
  <2>2. r["starvationCount"] \in Nat /\ \A f \in RatFields : RatLeq(r[f], r[f])
    <3>1. r["starvationCount"] \in Nat /\ \A f \in RatFields : r[f] \in Rational
      BY <1>5 DEF Result
    <3>2. \A x \in Rational : RatLeq(x, x)
      BY RatOrder
    <3> QED
      BY <3>1, <3>2
  <2>3. Len(results') = 1 /\ DOMAIN results' = {1} /\ results'[1] = r
    BY <1>3
  <2> DEFINE c == [k \in 1..Len(results') |-> results'[k].starvationCount]
  <2>4. Sum(c, 1) = r["starvationCount"]
    <3>1. c[1] = r["starvationCount"] /\ \A k \in 1..0 + 1 : c[k] \in Int
      BY <2>2, <2>3
    <3> HIDE DEF c
    <3>2. Sum(c, 0) = 0 /\ Sum(c, 0 + 1) = Sum(c, 0) + c[0 + 1]
      BY <3>1, SumStep
    <3> QED
      BY <2>2, <3>1, <3>2
  <2>5. Sum(c, Len(results')) - avg'.starvationCount * Len(results') \in 0..Len(results') - 1
    <3>1. avg'.starvationCount = r["starvationCount"]
      BY <1>3
    <3> HIDE DEF c
    <3> QED
      BY <2>2, <2>3, <2>4, <3>1
  <2>6. \A f \in DOMAIN avg' \ {"starvationCount"} : \E k, j \in DOMAIN results' :
            RatLeq(results'[k][f], avg'[f]) /\ RatLeq(avg'[f], results'[j][f])
    BY <1>3, <2>1, <2>2, <2>3
  <2> QED
    BY <2>5, <2>6 DEF AverageBetweenRuns
<1>11. FileInv'
  <2>1. Over' = Over
    BY <1>1 DEF Over
  <2> QED
    BY <1>1, <2>1, FileUntouched
<1> QED
  BY <1>6, <1>7, <1>8, <1>9, <1>10, <1>11

\* Steps of main between two exports, and the export that is not asked for.
LEMMA MainGoesOn ==
  ASSUME IndInv, next_group \/ finish \/ export_nothing
  PROVE  IndInv'
<1> USE DEF IndInv
<1>1. /\ baseCfg' = baseCfg /\ csv' = csv /\ csv0' = csv0 /\ lost' = lost
      /\ runsOk' = runsOk /\ infos' = infos /\ results' = results /\ avg' = avg
      /\ main' \in {"printTable", "group", "finished", "exported"}
  BY DEF next_group, finish, export_nothing, benchmark, files
<1>2. TypeInv'
  <2>1. Lines' = Lines
    BY <1>1 DEF Lines, row, runCfg
  <2> QED
    BY <1>1, <2>1 DEF TypeInv
<1>3. Groups \in Nat \ {0} /\ group \in 1..Groups + 1
  BY GroupFacts DEF PlaceInv
<1>4. PlaceInv'
  <2>1. CASE next_group
    <3>1. /\ group' = group + 1 /\ baseCfg.benchmarkMode /\ main = "exported"
          /\ main' = IF group = Groups THEN "printTable" ELSE "group"
      BY <2>1 DEF next_group
    <3>2. group # Groups + 1
      BY <3>1 DEF PlaceInv
    <3> QED
      BY <1>1, <1>3, <3>1, <3>2 DEF PlaceInv
  <2>2. CASE finish
    BY <1>1, <2>2 DEF PlaceInv, finish, benchmark, TypeInv
  <2>3. CASE export_nothing
    BY <1>1, <2>3 DEF PlaceInv, export_nothing, benchmark, TypeInv
  <2> QED
    BY <2>1, <2>2, <2>3
<1>5. JainInv'
  BY <1>1 DEF JainInv
<1>6. SumInv' /\ AverageBetweenRuns'
  BY <1>1 DEF SumInv, AverageBetweenRuns
<1>7. FileInv'
  <2>1. CASE export_nothing
    BY <1>1, <2>1 DEF FileInv, export_nothing
  <2>2. CASE next_group
    <3>1. Over = 1..group /\ Over' = 1..(group + 1) - 1
      BY <2>2 DEF Over, next_group
    <3>2. Over' = Over
      BY <1>3, <3>1
    <3> QED
      BY <1>1, <3>2, FileUntouched
  <2>3. CASE finish
    <3>1. Over' = Over
      BY <1>1, <2>3 DEF Over, finish, benchmark, PlaceInv, TypeInv
    <3> QED
      BY <1>1, <3>1, FileUntouched
  <2> QED
    BY <2>1, <2>2, <2>3
<1> QED
  BY <1>2, <1>4, <1>5, <1>6, <1>7

\* Counting the kept groups up to one: a group after all of them comes last
\* and leaves the places of the others as they are.
LEMMA OneMore ==
  ASSUME NEW g \in Nat, NEW K, K \subseteq 1..g - 1
  PROVE  /\ Cardinality(K) \in Nat /\ Cardinality(K \cup {g}) = Cardinality(K) + 1
         /\ {h \in K \cup {g} : h <= g} = K \cup {g}
         /\ \A k \in K : /\ {h \in K \cup {g} : h <= k} = {h \in K : h <= k}
                         /\ Cardinality({h \in K : h <= k}) \in 1..Cardinality(K)
<1>1. IsFiniteSet(K)
  <2>1. IsFiniteSet(1..g - 1)
    BY FS_Interval
  <2> QED
    BY <2>1, FS_Subset
<1>2. g \notin K /\ \A k \in K : k \in Int /\ k < g
  OBVIOUS
<1>3. Cardinality(K) \in Nat /\ Cardinality(K \cup {g}) = Cardinality(K) + 1
  BY <1>1, <1>2, FS_CardinalityType, FS_AddElement
<1>4. {h \in K \cup {g} : h <= g} = K \cup {g}
  <2>1. \A h \in K \cup {g} : h <= g
    BY <1>2
  <2> QED
    BY <2>1, Zenon
<1>5. ASSUME NEW k \in K
      PROVE  /\ {h \in K \cup {g} : h <= k} = {h \in K : h <= k}
             /\ Cardinality({h \in K : h <= k}) \in 1..Cardinality(K)
  <2> DEFINE A == {h \in K : h <= k}
  <2>1. {h \in K \cup {g} : h <= k} = A
    BY <1>2
  <2>2. A \subseteq K /\ k \in A
    BY <1>2
  <2> HIDE DEF A
  <2>3. IsFiniteSet(A) /\ Cardinality(A) <= Cardinality(K)
    BY <1>1, <2>2, FS_Subset
  <2>4. Cardinality(A) \in Nat /\ Cardinality(A) # 0
    BY <2>2, <2>3, FS_CardinalityType, FS_EmptySet
  <2>5. Cardinality(A) \in 1..Cardinality(K)
    BY <1>3, <2>3, <2>4
  <2> QED
    BY <2>1, <2>5 DEF A
<1> QED
  BY <1>3, <1>4, <1>5

\* What an export, successful or not, leaves alone: only main goes on.
LEMMA ExportKeeps ==
  ASSUME IndInv, exportCSV \/ exportCSV_fails
  PROVE  /\ PlaceInv' /\ JainInv' /\ SumInv' /\ AverageBetweenRuns'
         /\ baseCfg' = baseCfg /\ group' = group /\ csv0' = csv0 /\ Lines' = Lines
         /\ group \in Nat \ {0} /\ Over = 1..group - 1 /\ Over' = 1..group
         /\ row(group) \in Lines /\ \A g : row(g)' = row(g)
<1>1. /\ baseCfg' = baseCfg /\ group' = group /\ csv0' = csv0
      /\ runsOk' = runsOk /\ infos' = infos /\ results' = results /\ avg' = avg
      /\ main = "export" /\ main' = "exported"
  BY DEF exportCSV, exportCSV_fails, benchmark
<1>2. group \in 1..Groups /\ row(group) \in Lines /\ Groups \in Nat
  BY <1>1, CurrentConfig, GroupFacts DEF IndInv
<1>3. PlaceInv'
  BY <1>1 DEF IndInv, PlaceInv, TypeInv
<1>4. JainInv' /\ SumInv' /\ AverageBetweenRuns'
  BY <1>1 DEF IndInv, JainInv, SumInv, AverageBetweenRuns
<1>5. Lines' = Lines /\ \A g : row(g)' = row(g)
  BY <1>1 DEF Lines, row, runCfg
<1>6. group \in Nat \ {0} /\ Over = 1..group - 1 /\ Over' = 1..group
  BY <1>1, <1>2 DEF Over
<1> QED
  BY <1>1, <1>2, <1>3, <1>4, <1>5, <1>6

\* A failed fopen: the group is over and not kept, and the file as it was.
LEMMA ExportFails ==
  ASSUME IndInv, exportCSV_fails
  PROVE  IndInv'
<1>1. csv' = csv /\ lost' = lost \cup {group} /\ baseCfg.csvOutput
  BY DEF exportCSV_fails
<1>2. /\ PlaceInv' /\ JainInv' /\ SumInv' /\ AverageBetweenRuns'
      /\ baseCfg' = baseCfg /\ csv0' = csv0 /\ Lines' = Lines
      /\ group \in Nat \ {0} /\ Over = 1..group - 1 /\ Over' = 1..group
      /\ \A g : row(g)' = row(g)
  BY ExportKeeps
<1>3. runsOk' = runsOk /\ avg' = avg /\ results' = results
  BY DEF exportCSV_fails, benchmark
<1>4. TypeInv'
  BY <1>1, <1>2, <1>3 DEF IndInv, TypeInv
<1>5. lost \subseteq Over
  BY <1>1 DEF IndInv, FileInv
<1>6. Kept' = Kept /\ lost' \subseteq Over'
  <2>1. \A k : k \in 1..group <=> k \in 1..group - 1 \/ k = group
    BY <1>2
  <2>2. group \notin 1..group - 1
    BY <1>2
  <2> QED
    BY <1>1, <1>2, <1>5, <2>1, <2>2 DEF Kept
<1>7. Front' = Front
  BY <1>2, <1>6 DEF Front
<1>8. FileInv'
  BY <1>1, <1>2, <1>6, <1>7 DEF IndInv, FileInv
<1> QED
  BY <1>2, <1>4, <1>8 DEF IndInv

\* A row is appended, after the header if the file has to be created.
LEMMA Export ==
  ASSUME IndInv, exportCSV
  PROVE  IndInv'
<1> DEFINE new == IF csv.exists THEN <<row(group)>> ELSE <<Header, row(group)>>
<1>1. /\ csv' = [exists |-> TRUE, lines |-> csv.lines \o new]
      /\ lost' = lost /\ baseCfg.csvOutput
      /\ runsOk' = runsOk /\ avg' = avg /\ results' = results
  BY DEF exportCSV, benchmark
<1>2. /\ PlaceInv' /\ JainInv' /\ SumInv' /\ AverageBetweenRuns'
      /\ baseCfg' = baseCfg /\ csv0' = csv0 /\ Lines' = Lines
      /\ group \in Nat \ {0} /\ Over = 1..group - 1 /\ Over' = 1..group
      /\ row(group) \in Lines /\ \A g : row(g)' = row(g)
  BY ExportKeeps
<1>3. csv.lines \in Seq(Lines) /\ Header \in Lines /\ csv.exists \in BOOLEAN
      /\ csv0.lines \in Seq(OldLines) /\ csv0.exists \in BOOLEAN
      /\ (~csv0.exists => csv0.lines = <<>>)
  BY DEF IndInv, TypeInv, Lines
<1>4. csv'.exists = TRUE /\ csv'.lines = csv.lines \o new /\ new \in Seq(Lines)
  <2>1. <<row(group)>> \in Seq(Lines) /\ <<Header, row(group)>> \in Seq(Lines)
    BY <1>2, <1>3
  <2>2. new \in Seq(Lines)
    BY <2>1
  <2> HIDE DEF new
  <2> QED
    BY <1>1, <2>2
<1> HIDE DEF new
<1>5. TypeInv'
  <2>1. csv'.lines \in Seq(Lines)
    BY <1>3, <1>4
  <2>2. csv'.exists \in BOOLEAN
    BY <1>4, Zenon
  <2> QED
    BY <1>1, <1>2, <2>1, <2>2 DEF IndInv, TypeInv
<1>6. /\ lost \subseteq Over
      /\ csv.exists <=> csv0.exists \/ Kept # {}
      /\ Len(csv.lines) = Len(Front) + Cardinality(Kept)
      /\ \A i \in 1..Len(Front) : csv.lines[i] = Front[i]
      /\ \A g \in Kept : csv.lines[Len(Front) + Cardinality({h \in Kept : h <= g})] = row(g)
  BY <1>1 DEF IndInv, FileInv
<1>7. Kept' = Kept \cup {group} /\ Kept \subseteq 1..group - 1 /\ lost' \subseteq Over'
  <2>1. \A k : k \in 1..group <=> k \in 1..group - 1 \/ k = group
    BY <1>2
  <2>2. group \notin 1..group - 1
    BY <1>2
  <2> QED
    BY <1>1, <1>2, <1>6, <2>1, <2>2 DEF Kept
<1>8. /\ Cardinality(Kept) \in Nat /\ Cardinality(Kept') = Cardinality(Kept) + 1
      /\ {h \in Kept' : h <= group} = Kept'
      /\ \A k \in Kept : /\ {h \in Kept' : h <= k} = {h \in Kept : h <= k}
                         /\ Cardinality({h \in Kept : h <= k}) \in 1..Cardinality(Kept)
  <2>1. group \in Nat
    BY <1>2
  <2> QED
    BY <1>7, <2>1, OneMore
<1>9. CASE csv.exists
  <2>1. Front' = Front
    BY <1>2, <1>6, <1>7, <1>9 DEF Front
  <2>2. Len(Front) \in Nat
    <3>1. CASE csv0.exists \/ Kept = {}
      <4>1. Front = csv0.lines \o <<>>
        BY <3>1 DEF Front
      <4> QED
        BY <1>3, <4>1
    <3>2. CASE ~(csv0.exists \/ Kept = {})
      <4>1. Front = <<>> \o <<Header>>
        BY <1>3, <3>2 DEF Front
      <4> QED
        BY <4>1
    <3> QED
      BY <3>1, <3>2
  <2>3. /\ Len(csv'.lines) = Len(csv.lines) + 1
        /\ \A i \in 1..Len(csv.lines) : csv'.lines[i] = csv.lines[i]
        /\ csv'.lines[Len(csv.lines) + 1] = row(group)
    <3>1. new = <<row(group)>>
      BY <1>9 DEF new
    <3> QED
      BY <1>2, <1>3, <1>4, <3>1
  <2>4. Len(csv'.lines) = Len(Front) + Cardinality(Kept')
    BY <1>6, <1>8, <2>2, <2>3
  <2>5. \A i \in 1..Len(Front) : csv'.lines[i] = Front[i]
    BY <1>6, <1>8, <2>2, <2>3
  <2>6. ASSUME NEW g \in Kept'
        PROVE  csv'.lines[Len(Front) + Cardinality({h \in Kept' : h <= g})] = row(g)
    <3>1. CASE g = group
      <4>1. Len(Front) + Cardinality({h \in Kept' : h <= g}) = Len(csv.lines) + 1
        <5>1. {h \in Kept' : h <= g} = Kept'
          BY <1>8, <3>1
        <5>2. Len(Front) + (Cardinality(Kept) + 1) = Len(csv.lines) + 1
          BY <1>6, <1>8, <2>2
        <5> QED
          BY <1>8, <5>1, <5>2
      <4> QED
        BY <2>3, <3>1, <4>1
    <3>2. CASE g \in Kept
      <4> DEFINE c == Cardinality({h \in Kept : h <= g})
      <4>1. c \in 1..Cardinality(Kept) /\ {h \in Kept' : h <= g} = {h \in Kept : h <= g}
        BY <1>8, <3>2
      <4>2. csv.lines[Len(Front) + c] = row(g)
        BY <1>6, <3>2
      <4> HIDE DEF c
      <4>3. Len(Front) + c \in 1..Len(csv.lines)
        BY <1>6, <1>8, <2>2, <4>1
      <4>4. csv'.lines[Len(Front) + c] = row(g)
        BY <2>3, <4>2, <4>3
      <4> QED
        BY <4>1, <4>4 DEF c
    <3> QED
      BY <1>7, <3>1, <3>2
  <2>7. csv0'.exists \/ Kept' # {}
    BY <1>7
  <2>8. FileInv'
    BY <1>2, <1>4, <1>7, <2>1, <2>4, <2>5, <2>6, <2>7 DEF FileInv
  <2> QED
    BY <1>2, <1>5, <2>8 DEF IndInv
<1>10. CASE ~csv.exists
  <2>1. Kept = {} /\ ~csv0.exists /\ csv0.lines = <<>>
    BY <1>3, <1>6, <1>10
  <2>2. Front = <<>> /\ Front' = <<Header>>
    <3>1. Kept' # {}
      BY <1>7
    <3>2. Front = <<>> \o <<>> /\ Front' = <<>> \o <<Header>>
      BY <1>2, <2>1, <3>1 DEF Front
    <3> QED
      BY <3>2
  <2>3. Cardinality(Kept) = 0 /\ Cardinality(Kept') = 1
    BY <1>8, <2>1, FS_EmptySet
  <2>4. csv.lines = <<>>
    <3>1. Len(csv.lines) = 0
      BY <1>6, <2>2, <2>3
    <3> QED
      BY <1>3, <3>1
  <2>5. csv'.lines = <<Header, row(group)>>
    <3>1. new = <<Header, row(group)>>
      BY <1>10 DEF new
    <3> QED
      BY <1>4, <2>4, <3>1
  <2>6. Kept' = {group} /\ {h \in Kept' : h <= group} = Kept'
    BY <1>7, <1>8, <2>1
  <2>7. Len(Front') = 1 /\ Front'[1] = Header
    BY <2>2
  <2>8. Len(csv'.lines) = 2 /\ csv'.lines[1] = Header /\ csv'.lines[2] = row(group)
    BY <2>5
  <2>9. ASSUME NEW g \in Kept'
        PROVE  csv'.lines[Len(Front') + Cardinality({h \in Kept' : h <= g})] = row(g)
    <3>1. g = group /\ Cardinality({h \in Kept' : h <= g}) = 1
      BY <2>3, <2>6
    <3> QED
      BY <2>7, <2>8, <3>1
  <2>10. \A i \in 1..Len(Front') : csv'.lines[i] = Front'[i]
    BY <2>7, <2>8
  <2>11. FileInv'
    <3>1. /\ csv0'.exists \/ Kept' # {}
          /\ Len(csv'.lines) = Len(Front') + Cardinality(Kept')
      BY <2>3, <2>6, <2>7, <2>8
    <3> QED
      BY <1>2, <1>4, <1>7, <2>9, <2>10, <3>1 DEF FileInv
  <2> QED
    BY <1>2, <1>5, <2>11 DEF IndInv
<1> QED
  BY <1>3, <1>9, <1>10

\* Every step of main keeps the invariant.
LEMMA NextInv == IndInv /\ [Next]_vars => IndInv'
<1> SUFFICES ASSUME IndInv, [Next]_vars PROVE IndInv'
  OBVIOUS
<1>1. CASE UNCHANGED vars
  <2>1. /\ baseCfg' = baseCfg /\ main' = main /\ group' = group /\ avg' = avg /\ runsOk' = runsOk
        /\ infos' = infos /\ results' = results /\ csv' = csv /\ csv0' = csv0 /\ lost' = lost
    BY <1>1 DEF vars, benchmark, files
  <2>2. TypeInv'
    BY <2>1 DEF IndInv, TypeInv, Lines, row, runCfg
  <2>3. PlaceInv' /\ JainInv' /\ SumInv' /\ AverageBetweenRuns'
    BY <2>1 DEF IndInv, PlaceInv, JainInv, SumInv, AverageBetweenRuns
  <2>4. Over' = Over
    BY <2>1 DEF Over
  <2>5. FileInv'
    BY <2>1, <2>4, FileUntouched DEF IndInv
  <2> QED
    BY <2>2, <2>3, <2>5 DEF IndInv
<1> QED
  BY <1>1, BeginGroup, SimulateRun, Average, SimulateOnce, MainGoesOn, ExportFails, Export DEF Next
-----------------------------------------------------------------------------
\* The inductive invariant holds throughout every execution.
THEOREM Invariance == Spec => []IndInv
  BY InitInv, NextInv, PTL DEF Spec

\* For any numbers of readers and writers and any shares of the operations,
\* Jain's index of metrics.cpp is between 1/n and 1, is 1 exactly for equal
\* shares, and is the 0 of MetricsResult{} when there are no threads.
THEOREM FairnessIndexInRange == Spec => []JainInRange
<1>1. IndInv => JainInRange
  <2> SUFFICES ASSUME IndInv, results # <<>> PROVE JainInRange
    BY DEF JainInRange
  <2> DEFINE J == results[Len(results)].jainsFairnessIndex
             ops == infos.opsCompleted
  <2>1. PICK n \in Nat : ops \in [1..n -> Nat] /\ J = Jain(ops, n)
    BY DEF IndInv, JainInv
  <2> HIDE DEF J, ops
  <2>2. DOMAIN ops = 1..n /\ \A t \in 1..n : ops[t] \in Nat
    BY <2>1
  <2>3. Cardinality(1..n) = n
    <3>1. Cardinality(1..n) = IF 1 > n THEN 0 ELSE n - 1 + 1
      BY FS_Interval
    <3> QED
      BY <3>1
  <2>4. /\ J \in Rational
        /\ n = 0 => J = RatZero
        /\ n > 0 => /\ RatLeq(<<1, n>>, J) /\ RatLeq(J, RatOne)
                    /\ RatLeq(RatOne, J) <=> \A i, j \in 1..n : ops[i] = ops[j]
    BY <2>1, <2>2, JainFacts
  <2>5. J[2] > 0
    BY <2>4 DEF Rational
  <2>6. 1..n = {} <=> n = 0
    <3>1. n # 0 => 1 \in 1..n
      OBVIOUS
    <3> QED
      BY <3>1
  <2>7. IF DOMAIN ops = {} THEN J = RatZero
        ELSE /\ J[2] > 0
             /\ RatLeq(<<1, Cardinality(DOMAIN ops)>>, J) /\ RatLeq(J, RatOne)
             /\ RatLeq(RatOne, J) <=> \A t, u \in DOMAIN ops : ops[t] = ops[u]
    <3>1. CASE n = 0
      BY <2>2, <2>4, <2>6, <3>1
    <3>2. CASE n # 0
      <4>1. n > 0
        BY <3>2
      <4> QED
        BY <2>2, <2>3, <2>4, <2>5, <2>6, <3>2, <4>1, Zenon
    <3> QED
      BY <3>1, <3>2
  <2> QED
    BY <2>7 DEF JainInRange, J, ops
<1> QED
  BY <1>1, Invariance, PTL

\* For any number of runs per group: the averages runBenchmark exports lie
\* between results of the group's own runs, and its integer division of the
\* starvation events loses less than one event per run.
THEOREM AveragesBetweenRuns == Spec => []AverageBetweenRuns
<1>1. IndInv => AverageBetweenRuns
  BY DEF IndInv
<1> QED
  BY <1>1, Invariance, PTL

\* For any profiles, algorithms and old file, and whichever exports fail: the
\* file ends with one row per exported group in order, behind a header
\* exactly if exportCSV had to create it.
THEOREM HeaderOnceInFront == Spec => []OneHeaderFirst
<1>1. IndInv => OneHeaderFirst
  <2> SUFFICES ASSUME IndInv, main = "finished", baseCfg.csvOutput PROVE OneHeaderFirst
    BY DEF OneHeaderFirst
  <2>1. Over = IF baseCfg.benchmarkMode THEN 1..Groups ELSE {1}
    <3>1. baseCfg.benchmarkMode => group - 1 = Groups
      BY GroupFacts DEF IndInv, PlaceInv
    <3>2. ~baseCfg.benchmarkMode => 1..group = {1}
      BY DEF IndInv, PlaceInv
    <3> QED
      BY <3>1, <3>2 DEF Over
  <2> DEFINE kept == (IF baseCfg.benchmarkMode THEN 1..Groups ELSE {1}) \ lost
             front == csv0.lines \o IF csv0.exists \/ kept = {} THEN <<>> ELSE <<Header>>
  <2>2. Kept = kept
    BY <2>1 DEF Kept
  <2>3. Front = front
    BY <2>2 DEF Front
  <2>4. /\ csv.exists <=> csv0.exists \/ kept # {}
        /\ Len(csv.lines) = Len(front) + Cardinality(kept)
        /\ \A i \in 1..Len(front) : csv.lines[i] = front[i]
        /\ \A g \in kept : csv.lines[Len(front) + Cardinality({h \in kept : h <= g})] = row(g)
    <3> HIDE DEF kept, front
    <3> QED
      BY <2>2, <2>3 DEF IndInv, FileInv
  <2> QED
    BY <2>4 DEF OneHeaderFirst
<1> QED
  BY <1>1, Invariance, PTL
==============================================================================
