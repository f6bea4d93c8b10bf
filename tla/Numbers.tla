------------------------------ MODULE Numbers ------------------------------
(***************************************************************************)
(* Facts about numbers that the proofs share.  Remainders: continuity      *)
(* counters modulo N that are kept in wider counters modulo M, where N     *)
(* divides M, and time stamps of a fixed width.  Induction: what holds of  *)
(* 0 and of every successor, and that recursion defines a function.        *)
(***************************************************************************)
EXTENDS Integers, WellFoundedInduction, TLAPS

(* The remainder is the one number below N that the quotient leaves. *)
LEMMA ModOf ==
  ASSUME NEW N \in Nat \ {0}, NEW a \in Nat, NEW q \in Nat, NEW r \in 0..(N - 1),
         a = N * q + r
  PROVE  a % N = r
  OBVIOUS

(* A number is the sum of its remainder and a multiple of N. *)
LEMMA ModSplit ==
  ASSUME NEW N \in Nat \ {0}, NEW a \in Nat
  PROVE  /\ a \div N \in Nat
         /\ a % N \in 0..(N - 1)
         /\ a = N * (a \div N) + (a % N)
  OBVIOUS

(* Numbers below N are their own remainders. *)
LEMMA ModSmall ==
  ASSUME NEW N \in Nat \ {0}, NEW a \in 0..(N - 1)
  PROVE  a % N = a
  OBVIOUS

(* Congruent numbers less than a period apart are equal. *)
LEMMA ModWindow ==
  ASSUME NEW N \in Nat \ {0}, NEW a \in Nat, NEW b \in Nat,
         a % N = b % N, a <= b, b - a < N
  PROVE  a = b
<1>1. PICK q \in Nat : a = N * q + (a % N)  BY ModSplit
<1>2. PICK p \in Nat : b = N * p + (b % N)  BY ModSplit
<1>3. (a % N) \in 0..(N - 1)  BY ModSplit
<1>4. b - a = N * (p - q)  BY <1>1, <1>2, <1>3
<1>5. p = q  BY <1>4
<1>6. QED  BY <1>1, <1>2, <1>5

(* The successor of a remainder. *)
LEMMA ModSuccessor ==
  ASSUME NEW N \in Nat \ {0}, NEW a \in Nat, NEW r \in 0..(N - 1), a % N = r
  PROVE  (a + 1) % N = IF r = N - 1 THEN 0 ELSE r + 1
<1>1. PICK q \in Nat : a = N * q + r  BY ModSplit
<1>2. CASE r = N - 1
  <2>1. a + 1 = N * (q + 1) + 0  BY <1>1, <1>2
  <2>2. 0 \in 0..(N - 1) /\ a + 1 \in Nat /\ q + 1 \in Nat  OBVIOUS
  <2>3. (a + 1) % N = 0  BY <2>1, <2>2, ModOf
  <2>4. QED  BY <2>3, <1>2
<1>3. CASE r # N - 1
  <2>1. a + 1 = N * q + (r + 1)  BY <1>1
  <2>2. r + 1 \in 0..(N - 1) /\ a + 1 \in Nat  BY <1>3
  <2>3. (a + 1) % N = r + 1  BY <2>1, <2>2, ModOf
  <2>4. QED  BY <2>3, <1>3
<1>4. QED  BY <1>2, <1>3

(* Congruent numbers have congruent successors. *)
LEMMA ModCongruence ==
  ASSUME NEW N \in Nat \ {0}, NEW a \in Nat, NEW b \in Nat, a % N = b % N
  PROVE  (a + 1) % N = (b + 1) % N
<1>1. PICK r \in 0..(N - 1) : a % N = r  BY ModSplit
<1>2. QED  BY <1>1, ModSuccessor

(* A remainder has the same successor as the number it is the remainder of. *)
LEMMA ModOfMod ==
  ASSUME NEW N \in Nat \ {0}, NEW a \in Nat
  PROVE  ((a % N) + 1) % N = (a + 1) % N
<1> DEFINE r == a % N
<1>1. r \in 0..(N - 1) /\ r \in Nat  BY ModSplit
<1>2. r % N = a % N  BY <1>1, ModSmall
<1> HIDE DEF r
<1>3. (r + 1) % N = (a + 1) % N  BY <1>1, <1>2, ModCongruence
<1>4. QED  BY <1>3 DEF r

(* What N divides is not smaller. *)
LEMMA MultipleIsLarger ==
  ASSUME NEW N \in Nat \ {0}, NEW M \in Nat \ {0}, M % N = 0
  PROVE  N <= M
<1>1. SUFFICES ASSUME M < N  PROVE FALSE  OBVIOUS
<1>2. M % N = M  BY <1>1, ModSmall
<1>3. QED  BY <1>2

(* A counter modulo M wraps at a multiple of N, so its wrap is invisible in
   its remainder modulo N. *)
LEMMA CounterWrap ==
  ASSUME NEW N \in Nat \ {0}, NEW M \in Nat \ {0}, M % N = 0,
         NEW c \in 0..(M - 1)
  PROVE  /\ (c + 1) % M \in 0..(M - 1)
         /\ ((c + 1) % M) % N = (c + 1) % N
<1>1. CASE c + 1 < M
  <2>1. (c + 1) % M = c + 1  BY <1>1, ModSmall
  <2>2. QED  BY <2>1, <1>1
<1>2. CASE c + 1 = M
  <2>1. (c + 1) % M = 0  BY <1>2
  <2>2. 0 % N = 0  BY ModSmall
  <2>3. (c + 1) % N = 0  BY <1>2
  <2>4. QED  BY <2>1, <2>2, <2>3
<1>3. QED  BY <1>1, <1>2

(* Taking the remainder modulo a multiple of N first changes nothing. *)
LEMMA ModOfMultiple ==
  ASSUME NEW N \in Nat \ {0}, NEW M \in Nat \ {0}, M % N = 0, NEW a \in Nat
  PROVE  a % M \in 0..(M - 1) /\ (a % M) % N = a % N
<1>1. PICK q \in Nat : M = N * q
  <2>1. M \div N \in Nat /\ M = N * (M \div N) + (M % N)  BY ModSplit
  <2>2. M = N * (M \div N)  BY <2>1
  <2>3. QED  BY <2>1, <2>2
<1>2. PICK d \in Nat : a = M * d + (a % M)  BY ModSplit
<1>3. a % M \in 0..(M - 1)  BY ModSplit
<1> DEFINE r == a % M
<1>r. r \in Nat  BY <1>3
<1> HIDE DEF r
<1>4. PICK e \in Nat : r = N * e + (r % N)  BY <1>r, ModSplit
<1>5. r % N \in 0..(N - 1)  BY <1>r, ModSplit
<1>6. a = N * (q * d + e) + (r % N)
  <2>1. a = (N * q) * d + (N * e + (r % N))  BY <1>1, <1>2, <1>4 DEF r
  <2>2. (N * q) * d + (N * e + (r % N)) = N * (q * d + e) + (r % N)  BY <1>5
  <2>3. QED  BY <2>1, <2>2
<1>7. q * d + e \in Nat  OBVIOUS
<1>8. a % N = r % N  BY <1>5, <1>6, <1>7, ModOf
<1>9. QED  BY <1>3, <1>8 DEF r

(* The distance around the circle from p to q steps further is q. *)
LEMMA ModDistance ==
  ASSUME NEW N \in Nat \ {0}, NEW p \in 0..(N - 1), NEW q \in 0..(N - 1)
  PROVE  (((p + q) % N) - p) % N = q
<1>1. CASE p + q < N
  <2>1. (p + q) % N = p + q  BY <1>1, ModSmall
  <2>2. ((p + q) % N) - p = q  BY <2>1
  <2>3. QED  BY <2>2, ModSmall
<1>2. CASE p + q >= N
  <2>1. p + q = N * 1 + (p + q - N) /\ p + q - N \in 0..(N - 1) /\ p + q \in Nat
    BY <1>2
  <2>2. (p + q) % N = p + q - N  BY <2>1, ModOf
  <2>3. ((p + q) % N) - p = q - N  BY <2>2
  <2>4. (q - N) % N = q  OBVIOUS
  <2>5. QED  BY <2>3, <2>4
<1>3. QED  BY <1>1, <1>2

-----------------------------------------------------------------------------
(* Every set of naturals that is not empty has a least element. *)
LEMMA LeastNumber ==
  ASSUME NEW S \in SUBSET Nat, S # {}
  PROVE  \E m \in S : \A k \in S : m <= k
<1> DEFINE R == OpToRel(<, Nat)
<1>1. IsWellFoundedOn(R, Nat)  BY NatLessThanWellFounded, Zenon
<1>2. \A i, j \in Nat : i < j => <<i, j>> \in R  BY Zenon DEF OpToRel
<1> HIDE DEF R
<1>3. PICK m \in S : \A k \in S : ~(<<k, m>> \in R)  BY <1>1, WFMin, Zenon
<1>4. \A k \in S : ~(k < m)  BY <1>2, <1>3, Zenon
<1>5. QED  BY <1>4

(* What holds of 0 and of every successor up to N holds up to N. *)
LEMMA Induction ==
  ASSUME NEW N \in Nat, NEW S, 0 \in S,
         \A n \in 1..N : n - 1 \in S => n \in S
  PROVE  0..N \subseteq S
<1> DEFINE T == (0..N) \ S
<1> SUFFICES ASSUME T # {}  PROVE FALSE  OBVIOUS
<1>1. T \in SUBSET Nat  OBVIOUS
<1>2. PICK m \in T : \A k \in T : m <= k  BY <1>1, LeastNumber, Zenon
<1>3. m \in 1..N  OBVIOUS
<1>4. m - 1 \in S  BY <1>2, <1>3
<1>5. QED  BY <1>3, <1>4

(* A function may be defined by recursion up to N: from a at 0, the n-th step
   by h[n]. *)
IsRecursive(f, N, V, a, h) ==
  f \in [0..N -> V] /\ f[0] = a /\ \A n \in 1..N : f[n] = h[n][f[n - 1]]

LEMMA Recursion ==
  ASSUME NEW N \in Nat, NEW V, NEW a \in V, NEW h \in [1..N -> [V -> V]]
  PROVE  \E f : IsRecursive(f, N, V, a, h)
<1> DEFINE Good(k, f) == f[0] = a /\ \A n \in 1..k : f[n] = h[n][f[n - 1]]
           S == {k \in 0..N : \E f \in [0..k -> V] : Good(k, f)}
<1>1. 0 \in S
  <2>1. [n \in 0..0 |-> a] \in [0..0 -> V] /\ Good(0, [n \in 0..0 |-> a])  OBVIOUS
  <2> HIDE DEF Good
  <2>2. QED  BY <2>1
<1>2. ASSUME NEW k \in 1..N, k - 1 \in S  PROVE k \in S
  <2>1. PICK f \in [0..(k - 1) -> V] : Good(k - 1, f)  BY <1>2
  <2> DEFINE g == [n \in 0..k |-> IF n = k THEN h[k][f[k - 1]] ELSE f[n]]
  <2>2. f[k - 1] \in V  OBVIOUS
  <2>3. h[k][f[k - 1]] \in V  BY <2>2
  <2>4. g \in [0..k -> V]  BY <2>3
  <2>5. g[0] = a  BY <2>1
  <2>6. ASSUME NEW n \in 1..k  PROVE g[n] = h[n][g[n - 1]]
    BY <2>1
  <2>7. Good(k, g)  BY <2>5, <2>6
  <2> HIDE DEF Good, g
  <2>8. QED  BY <2>4, <2>7
<1>3. \E f \in [0..N -> V] : Good(N, f)
  <2> HIDE DEF S
  <2>1. 0..N \subseteq S  BY <1>1, <1>2, Induction
  <2>2. N \in S  BY <2>1
  <2> USE DEF S
  <2> HIDE DEF Good
  <2>3. QED  BY <2>2
<1>4. QED  BY <1>3, Zenon DEF IsRecursive
=============================================================================
