----------------------------- MODULE LiftProofs -----------------------------
(***************************************************************************)
(* Proofs about Lift, for bytes of any width that is a power of two, any   *)
(* encodable instructions, any contents of the registers and the memory    *)
(* and any number of steps: type correctness, and with it that no emitted  *)
(* operation is undefined; that lifting implements Isa; and that returns   *)
(* compare what the ABI fixes.                                             *)
(*                                                                         *)
(* The actions are simple, the words are not: a bitwise operation is the   *)
(* word with given bits, so one has to know that such a word exists and    *)
(* that there is no other.  Both are inductions over the width of a word.  *)
(* The first part derives that induction, and the laws of powers of two,   *)
(* from what is known of finite sets.                                      *)
(***************************************************************************)
EXTENDS Lift, FiniteSetTheorems, TLAPS

-----------------------------------------------------------------------------
(* Natural numbers and powers of two                                       *)

(* Induction for a set: the next number of a member is one.  If n were not *)
(* a member, k + 1 would map the finite set of members below n one to one  *)
(* into itself and miss 0.                                                 *)
LEMMA SetInduction ==
  ASSUME NEW S, 0 \in S, \A k \in Nat : k \in S => k + 1 \in S, NEW n \in Nat
  PROVE  n \in S
<1> SUFFICES ASSUME n \notin S PROVE FALSE
  OBVIOUS
<1>1. PICK A : A = {k \in 0..n : k \in S}
  OBVIOUS
<1>2. IsFiniteSet(A)
  <2>1. IsFiniteSet(0..n)
    BY FS_Interval
  <2>2. A \in SUBSET (0..n)
    BY <1>1
  <2> QED
    BY <2>1, <2>2, FS_Subset
<1>3. PICK f : f = [k \in A |-> k + 1]
  OBVIOUS
<1>4. \A k \in A : k + 1 \in A
  BY <1>1
<1>5. f \in [A -> A] /\ \A x, y \in A : f[x] = f[y] => x = y
  BY <1>1, <1>3, <1>4
<1>6. f \in Injection(A, A)
  BY <1>5 DEF Injection, IsInjective
<1>7. f \in Surjection(A, A)
  BY <1>2, <1>6, FS_Injection
<1>8. 0 \in A
  BY <1>1
<1>9. PICK x \in A : f[x] = 0
  BY <1>7, <1>8 DEF Surjection
<1> QED
  BY <1>1, <1>3, <1>9

(* A power of two counts the subsets of a finite set.                      *)
LEMMA PowerCounts ==
  ASSUME NEW n \in Nat
  PROVE  IsFiniteSet(SUBSET (1..n)) /\ Cardinality(SUBSET (1..n)) = 2^n
<1>1. IsFiniteSet(1..n) /\ Cardinality(1..n) = n
  BY FS_Interval
<1> QED
  BY <1>1, FS_SUBSET

(* A set with one more element has twice as many subsets: those without it *)
(* and those with it.                                                      *)
LEMMA PowerNext == ASSUME NEW n \in Nat PROVE 2^(n + 1) = 2 * 2^n
<1>1. PICK A, B, C : A = SUBSET (1..n) /\ B = SUBSET (1..(n + 1)) /\ C = {T \in B : n + 1 \in T}
  OBVIOUS
<1>2. IsFiniteSet(A) /\ Cardinality(A) = 2^n /\ Cardinality(B) = 2^(n + 1)
  <2>1. IsFiniteSet(SUBSET (1..n)) /\ Cardinality(SUBSET (1..n)) = 2^n
    BY PowerCounts
  <2>2. PICK m \in Nat : m = n + 1
    OBVIOUS
  <2>3. Cardinality(SUBSET (1..m)) = 2^m
    BY PowerCounts
  <2>4. A = SUBSET (1..n) /\ B = SUBSET (1..m)
    BY <1>1, <2>2
  <2> QED
    BY <2>1, <2>2, <2>3, <2>4
<1>3. PICK f : f = [T \in A |-> T \cup {n + 1}]
  OBVIOUS
<1>4. f \in Bijection(A, C)
  <2>1. f \in [A -> C]
    BY <1>1, <1>3
  <2>2. ASSUME NEW T \in A, NEW U \in A, f[T] = f[U] PROVE T = U
    <3>1. T \cup {n + 1} = U \cup {n + 1}
      BY <1>3, <2>2
    <3>2. n + 1 \notin T /\ n + 1 \notin U
      BY <1>1
    <3> QED
      BY <3>1, <3>2
  <2>3. ASSUME NEW U \in C PROVE \E T \in A : f[T] = U
    <3>1. U \ {n + 1} \in A
      BY <1>1
    <3>2. f[U \ {n + 1}] = U
      BY <1>1, <1>3, <3>1
    <3> QED
      BY <3>1, <3>2
  <2> QED
    BY <2>1, <2>2, <2>3 DEF Bijection, Injection, Surjection, IsInjective
<1>5. IsFiniteSet(C) /\ Cardinality(C) = Cardinality(A)
  BY <1>2, <1>4, FS_Bijection DEF ExistsBijection
<1>6. A \cup C = B /\ A \cap C = {}
  <2>1. A \subseteq B
    BY <1>1
  <2>2. \A T \in A : n + 1 \notin T
    BY <1>1
  <2>3. \A T \in B : n + 1 \notin T => T \in A
    BY <1>1
  <2> QED
    BY <1>1, <2>1, <2>2, <2>3
<1>7. Cardinality(A \cup C) = Cardinality(A) + Cardinality(C) - Cardinality(A \cap C)
  BY <1>2, <1>5, FS_Union
<1>8. Cardinality(A \cap C) = 0
  BY <1>6, FS_EmptySet
<1>9. Cardinality(A) \in Nat
  BY <1>2, FS_CardinalityType
<1> QED
  BY <1>2, <1>5, <1>6, <1>7, <1>8, <1>9

(* A power of two is positive.                                             *)
LEMMA PowerPositive == ASSUME NEW n \in Nat PROVE 2^n \in Nat \ {0}
<1>1. PICK S : S = {k \in Nat : 2^k \in Nat \ {0}}
  OBVIOUS
<1>2. 0 \in S
  <2>1. 2^0 = 1
    OBVIOUS
  <2> QED
    BY <1>1, <2>1
<1>3. ASSUME NEW k \in Nat, k \in S PROVE k + 1 \in S
  <2>1. PICK p : p = 2^k
    OBVIOUS
  <2>2. 2^(k + 1) = 2 * p /\ p \in Nat \ {0}
    BY <1>1, <1>3, <2>1, PowerNext
  <2>3. 2 * p \in Nat \ {0}
    BY <2>2
  <2> QED
    BY <1>1, <2>2, <2>3
<1>4. n \in S
  BY <1>2, <1>3, SetInduction
<1> QED
  BY <1>1, <1>4

(* 2^m * 2^n, by induction over n                                          *)
LEMMA PowerAdd == ASSUME NEW m \in Nat, NEW n \in Nat PROVE 2^(m + n) = 2^m * 2^n
<1>1. PICK S : S = {k \in Nat : 2^(m + k) = 2^m * 2^k}
  OBVIOUS
<1>0. PICK p : p = 2^m /\ p \in Nat
  BY PowerPositive
<1>2. 0 \in S
  <2>1. 2^0 = 1 /\ m + 0 = m
    OBVIOUS
  <2> QED
    BY <1>0, <1>1, <2>1
<1>3. ASSUME NEW k \in Nat, k \in S PROVE k + 1 \in S
  <2>1. PICK q, r : q = 2^k /\ r = 2^(m + k)
    OBVIOUS
  <2>2. r = p * q /\ q \in Nat
    BY <1>0, <1>1, <1>3, <2>1, PowerPositive
  <2>3. 2^(k + 1) = 2 * q
    BY <2>1, PowerNext
  <2>4. 2^(m + (k + 1)) = 2 * r
    <3>1. m + k \in Nat /\ m + (k + 1) = (m + k) + 1
      OBVIOUS
    <3> QED
      BY <2>1, <3>1, PowerNext
  <2>5. 2 * (p * q) = p * (2 * q)
    BY <1>0, <2>2
  <2> QED
    BY <1>0, <1>1, <2>2, <2>3, <2>4, <2>5
<1>4. n \in S
  BY <1>2, <1>3, SetInduction
<1> QED
  BY <1>1, <1>4

(* A smaller power of two divides a larger one.                            *)
LEMMA PowerGrows ==
  ASSUME NEW m \in Nat, NEW n \in Nat, m <= n
  PROVE  2^m <= 2^n /\ 2^n = 2^(n - m) * 2^m /\ n - m \in Nat
<1>1. PICK d : d = n - m /\ d \in Nat /\ n = m + d
  OBVIOUS
<1>2. PICK p, q : p = 2^m /\ q = 2^d /\ p \in Nat \ {0} /\ q \in Nat \ {0}
  BY <1>1, PowerPositive
<1>3. 2^n = p * q
  BY <1>1, <1>2, PowerAdd
<1>4. p <= p * q /\ p * q = q * p
  BY <1>2
<1> QED
  BY <1>1, <1>2, <1>3, <1>4

(* Half a power of two, which is where the signed words change sign        *)
LEMMA PowerHalf ==
  ASSUME NEW w \in Nat \ {0}
  PROVE  2^w = 2 * 2^(w - 1) /\ w - 1 \in Nat /\ 2^(w - 1) \in Nat \ {0} /\ 2^w \in Nat \ {0}
<1>1. w - 1 \in Nat /\ w = (w - 1) + 1
  OBVIOUS
<1> QED
  BY <1>1, PowerNext, PowerPositive

(* A number lies below its power of two.                                   *)
LEMMA PowerAbove == ASSUME NEW n \in Nat PROVE n < 2^n
<1>1. PICK S : S = {k \in Nat : k < 2^k}
  OBVIOUS
<1>2. 0 \in S
  <2>1. 2^0 = 1
    OBVIOUS
  <2> QED
    BY <1>1, <2>1
<1>3. ASSUME NEW k \in Nat, k \in S PROVE k + 1 \in S
  <2>1. PICK p : p = 2^k /\ p \in Nat
    BY PowerPositive
  <2>2. k < p /\ 2^(k + 1) = 2 * p
    BY <1>1, <1>3, <2>1, PowerNext
  <2>3. k + 1 < 2 * p
    BY <2>1, <2>2
  <2> QED
    BY <1>1, <2>2, <2>3
<1>4. n \in S
  BY <1>2, <1>3, SetInduction
<1> QED
  BY <1>1, <1>4

-----------------------------------------------------------------------------
(* Division with a remainder                                               *)

(* Quotient and remainder of a number                                      *)
LEMMA DivMod ==
  ASSUME NEW a \in Int, NEW d \in Nat \ {0}
  PROVE  a \div d \in Int /\ a % d \in 0..(d - 1) /\ a = (a \div d) * d + (a % d)
OBVIOUS

(* There is no other quotient with a remainder below the divisor.          *)
LEMMA DivUnique ==
  ASSUME NEW a \in Int, NEW d \in Nat \ {0}, NEW q \in Int, NEW r \in 0..(d - 1), a = q * d + r
  PROVE  a \div d = q /\ a % d = r
<1>1. r >= 0 /\ r < d /\ d > 0 /\ d \in Int
  OBVIOUS
<1> QED
  BY <1>1

(* A multiple of the divisor shows in the quotient only.                   *)
LEMMA AddMultiple ==
  ASSUME NEW a \in Int, NEW d \in Nat \ {0}, NEW k \in Int
  PROVE  (a + k * d) \div d = a \div d + k /\ (a + k * d) % d = a % d
<1>1. PICK q, r : q = a \div d /\ r = a % d
  OBVIOUS
<1>2. q \in Int /\ r \in 0..(d - 1) /\ a = q * d + r
  BY <1>1, DivMod
<1>3. PICK b : b = a + k * d /\ b \in Int
  OBVIOUS
<1>4. b = (q + k) * d + r /\ q + k \in Int
  BY <1>2, <1>3
<1>5. b \div d = q + k /\ b % d = r
  BY <1>2, <1>3, <1>4, DivUnique
<1> QED
  BY <1>1, <1>3, <1>5

(* A number below the divisor is its own remainder.                        *)
LEMMA ModSmall ==
  ASSUME NEW d \in Nat \ {0}, NEW a \in 0..(d - 1)
  PROVE  a % d = a /\ a \div d = 0
<1>1. a \in Int /\ a = 0 * d + a /\ 0 \in Int
  OBVIOUS
<1> QED
  BY <1>1, DivUnique

(* Remainders may be taken before a sum or a difference.                   *)
LEMMA ModMod ==
  ASSUME NEW a \in Int, NEW b \in Int, NEW d \in Nat \ {0}
  PROVE  ((a % d) + b) % d = (a + b) % d /\ (b - (a % d)) % d = (b - a) % d
<1>1. PICK q, r : q = a \div d /\ r = a % d
  OBVIOUS
<1>2. q \in Int /\ r \in Int /\ a = q * d + r
  BY <1>1, DivMod
<1>3. PICK s, t, k : s = r + b /\ t = b - r /\ k = -q /\ s \in Int /\ t \in Int /\ k \in Int
  BY <1>2
<1>4. a + b = s + q * d /\ b - a = t + k * d
  BY <1>2, <1>3
<1>5. (s + q * d) % d = s % d /\ (t + k * d) % d = t % d
  BY <1>2, <1>3, AddMultiple
<1> QED
  BY <1>1, <1>3, <1>4, <1>5

(* Division by a product is division by its factors in turn, and the low   *)
(* part of a number, taken apart, has the number's own parts.              *)
LEMMA DivProduct ==
  ASSUME NEW a \in Int, NEW d \in Nat \ {0}, NEW e \in Nat \ {0}
  PROVE  /\ (a \div d) \div e = a \div (d * e)
         /\ (a % (d * e)) % d = a % d
         /\ (a % (d * e)) \div d = (a \div d) % e
         /\ a % (d * e) = ((a \div d) % e) * d + (a % d)
<1>1. PICK q, r : q = a \div d /\ r = a % d
  OBVIOUS
<1>2. q \in Int /\ r \in 0..(d - 1) /\ a = q * d + r
  BY <1>1, DivMod
<1>3. PICK s, t : s = q \div e /\ t = q % e
  OBVIOUS
<1>4. s \in Int /\ t \in 0..(e - 1) /\ q = s * e + t
  BY <1>2, <1>3, DivMod
<1>5. PICK f, u : f = d * e /\ u = t * d + r /\ f \in Nat \ {0} /\ u \in Int
  BY <1>2, <1>4
<1>6. a = s * f + u
  <2>1. q * d = (s * e) * d + t * d
    BY <1>4
  <2>2. (s * e) * d = s * f
    BY <1>4, <1>5
  <2> QED
    BY <1>2, <1>4, <1>5, <2>1, <2>2
<1>7. u \in 0..(f - 1)
  <2>1. t * d >= 0 /\ t * d \in Int
    BY <1>4
  <2>2. t * d <= (e - 1) * d /\ (e - 1) * d = f - d
    BY <1>4, <1>5
  <2> QED
    BY <1>2, <1>5, <2>1, <2>2
<1>8. a \div f = s /\ a % f = u
  BY <1>4, <1>5, <1>6, <1>7, DivUnique
<1>9. u \div d = t /\ u % d = r
  BY <1>2, <1>4, <1>5, DivUnique
<1> QED
  BY <1>1, <1>3, <1>5, <1>8, <1>9

(* The parts of that, one by one                                           *)
LEMMA ModFactor ==
  ASSUME NEW a \in Int, NEW d \in Nat \ {0}, NEW e \in Nat \ {0}
  PROVE  (a % (d * e)) % d = a % d
BY DivProduct

LEMMA DivRest ==
  ASSUME NEW a \in Int, NEW d \in Nat \ {0}, NEW e \in Nat \ {0}
  PROVE  (a % (d * e)) \div d = (a \div d) % e
BY DivProduct

LEMMA ModSplit ==
  ASSUME NEW a \in Int, NEW d \in Nat \ {0}, NEW e \in Nat \ {0}
  PROVE  a % (d * e) = ((a \div d) % e) * d + (a % d)
BY DivProduct

-----------------------------------------------------------------------------
(* Numbers and their digits, of c bits each: bits for c = 1, and bytes     *)

(* The weight of digit i is 2^(c * i).                                     *)
LEMMA DigitPowers ==
  ASSUME NEW c \in Nat \ {0}, NEW i \in Nat
  PROVE  /\ c * i \in Nat /\ 2^(c * i) \in Nat \ {0} /\ 2^c \in Nat \ {0}
         /\ 2^(c * (i + 1)) = 2^(c * i) * 2^c
         /\ 2^(c * 0) = 1
<1>1. PICK m : m = c * i /\ m \in Nat
  OBVIOUS
<1>2. c * (i + 1) = m + c /\ c * 0 = 0 /\ c \in Nat
  BY <1>1
<1>3. 2^0 = 1
  OBVIOUS
<1> QED
  BY <1>1, <1>2, <1>3, PowerAdd, PowerPositive

(* The weight of a digit divides that of a higher one.                     *)
LEMMA DigitsAbove ==
  ASSUME NEW c \in Nat \ {0}, NEW k \in Nat, NEW i \in 0..(k - 1)
  PROVE  \E e \in Nat \ {0} : 2^(c * k) = 2^(c * i) * (2^c * e)
<1>1. PICK j : j = k - (i + 1) /\ j \in Nat /\ i \in Nat
  OBVIOUS
<1>2. PICK m, r, p : m = c * i /\ r = c * j /\ p = 2^c /\ m \in Nat /\ r \in Nat
  BY <1>1, DigitPowers
<1>3. PICK d, e : d = 2^m /\ e = 2^r /\ d \in Nat \ {0} /\ e \in Nat \ {0} /\ p \in Nat \ {0}
  BY <1>2, PowerPositive
<1>4. c * k = m + (c + r) /\ c + r \in Nat /\ c \in Nat
  <2>1. k = i + (1 + j)
    BY <1>1
  <2>2. c * k = c * i + (c + c * j)
    BY <1>1, <2>1
  <2> QED
    BY <1>2, <2>2
<1>5. 2^(m + (c + r)) = 2^m * 2^(c + r) /\ 2^(c + r) = 2^c * 2^r
  BY <1>2, <1>4, PowerAdd
<1> QED
  BY <1>2, <1>3, <1>4, <1>5

(* The low digits of a number are its own.                                 *)
LEMMA LowDigits ==
  ASSUME NEW c \in Nat \ {0}, NEW n \in Nat, NEW v \in Int, NEW i \in 0..(n - 1)
  PROVE  ((v % 2^(c * n)) \div 2^(c * i)) % 2^c = (v \div 2^(c * i)) % 2^c
<1>1. i \in Nat
  OBVIOUS
<1>2. PICK d, p : d = 2^(c * i) /\ p = 2^c /\ d \in Nat \ {0} /\ p \in Nat \ {0}
  BY <1>1, DigitPowers
<1>3. PICK e \in Nat \ {0} : 2^(c * n) = d * (p * e)
  <2>1. \E e \in Nat \ {0} : 2^(c * n) = 2^(c * i) * (2^c * e)
    BY DigitsAbove
  <2> QED
    BY <1>2, <2>1
<1>4. PICK q : q = p * e /\ q \in Nat \ {0}
  BY <1>2, <1>3
<1>5. PICK x : x = v \div d /\ x \in Int
  BY <1>2, DivMod
<1>6. (v % (d * q)) \div d = (v \div d) % q
  <2>1. d \in Nat \ {0} /\ q \in Nat \ {0}
    BY <1>2, <1>4
  <2> QED
    BY <2>1, DivRest
<1>7. (x % (p * e)) % p = x % p
  <2>1. p \in Nat \ {0} /\ x \in Int
    BY <1>2, <1>5
  <2> QED
    BY <2>1, ModFactor
<1> QED
  BY <1>2, <1>3, <1>4, <1>5, <1>6, <1>7

(* A number is determined by its digits ...                                *)
LEMMA DigitsDetermine ==
  ASSUME NEW c \in Nat \ {0}, NEW n \in Nat, NEW u \in Int, NEW v \in Int,
         \A i \in 0..(n - 1) : (u \div 2^(c * i)) % 2^c = (v \div 2^(c * i)) % 2^c
  PROVE  u % 2^(c * n) = v % 2^(c * n)
<1>1. PICK S : S = {k \in Nat : k <= n => u % 2^(c * k) = v % 2^(c * k)}
  OBVIOUS
<1>2. 0 \in S
  <2>1. 2^(c * 0) = 1
    BY DigitPowers
  <2>2. u % 1 = 0 /\ v % 1 = 0
    OBVIOUS
  <2> QED
    BY <1>1, <2>1, <2>2
<1>3. ASSUME NEW k \in Nat, k \in S PROVE k + 1 \in S
  <2> SUFFICES ASSUME k + 1 <= n PROVE u % 2^(c * (k + 1)) = v % 2^(c * (k + 1))
    BY <1>1
  <2>1. PICK d, p : d = 2^(c * k) /\ p = 2^c /\ d \in Nat \ {0} /\ p \in Nat \ {0}
    BY DigitPowers
  <2>2. 2^(c * (k + 1)) = d * p
    BY <2>1, DigitPowers
  <2>3. u % d = v % d
    BY <1>1, <1>3, <2>1
  <2>4. (u \div d) % p = (v \div d) % p
    BY <2>1
  <2>5. /\ u % (d * p) = ((u \div d) % p) * d + (u % d)
        /\ v % (d * p) = ((v \div d) % p) * d + (v % d)
    <3>1. d \in Nat \ {0} /\ p \in Nat \ {0}
      BY <2>1
    <3> QED
      BY <3>1, ModSplit
  <2> QED
    BY <2>2, <2>3, <2>4, <2>5
<1>4. n \in S
  BY <1>2, <1>3, SetInduction
<1> QED
  BY <1>1, <1>4

(* ... and there is one for any digits.                                    *)
LEMMA DigitsExist ==
  ASSUME NEW c \in Nat \ {0}, NEW n \in Nat, NEW f, \A i \in 0..(n - 1) : f[i] \in Word(c)
  PROVE  \E v \in Word(c * n) : \A i \in 0..(n - 1) : (v \div 2^(c * i)) % 2^c = f[i]
<1> DEFINE Has(v, k) == \A i \in 0..(k - 1) : (v \div 2^(c * i)) % 2^c = f[i]
<1>1. PICK S : S = {k \in Nat : k <= n => \E v \in Word(c * k) : Has(v, k)}
  OBVIOUS
<1>2. 0 \in S
  <2>1. 2^(c * 0) = 1
    BY DigitPowers
  <2>2. 0 \in Word(c * 0) /\ Has(0, 0)
    BY <2>1 DEF Word
  <2> QED
    BY <1>1, <2>2
<1>3. ASSUME NEW k \in Nat, k \in S PROVE k + 1 \in S
  <2> SUFFICES ASSUME k + 1 <= n PROVE \E v \in Word(c * (k + 1)) : Has(v, k + 1)
    BY <1>1
  <2>1. PICK v \in Word(c * k) : Has(v, k)
    BY <1>1, <1>3
  <2>2. PICK d, p, x : d = 2^(c * k) /\ p = 2^c /\ x = f[k] /\ d \in Nat \ {0} /\ p \in Nat \ {0}
    BY DigitPowers
  <2>3. 2^(c * (k + 1)) = d * p
    BY <2>2, DigitPowers
  <2>4. x \in 0..(p - 1) /\ v \in 0..(d - 1)
    BY <2>2 DEF Word
  <2>5. PICK u : u = x * d + v /\ u \in Int
    BY <2>2, <2>4
  <2>6. u \in Word(c * (k + 1))
    <3>1. x * d <= (p - 1) * d /\ (p - 1) * d = d * p - d /\ x * d >= 0 /\ x * d \in Int /\ d * p \in Int
      BY <2>2, <2>4
    <3>2. u >= 0 /\ u <= d * p - 1
      BY <2>2, <2>4, <2>5, <3>1
    <3> QED
      BY <2>3, <2>5, <3>2 DEF Word
  <2>7. (u \div d) % p = x
    <3>1. u \div d = x
      BY <2>2, <2>4, <2>5, DivUnique
    <3> QED
      BY <2>2, <2>4, <3>1, ModSmall
  <2>8. ASSUME NEW i \in 0..(k - 1) PROVE (u \div 2^(c * i)) % p = f[i]
    <3>1. PICK a : a = 2^(c * i) /\ a \in Nat \ {0}
      <4>1. i \in Nat
        OBVIOUS
      <4> QED
        BY <4>1, DigitPowers
    <3>2. PICK e \in Nat \ {0} : d = a * (p * e)
      <4>1. \E e \in Nat \ {0} : 2^(c * k) = 2^(c * i) * (2^c * e)
        BY DigitsAbove
      <4> QED
        BY <2>2, <3>1, <4>1
    <3>3. PICK m, q : m = x * e /\ q = v \div a /\ m \in Int /\ q \in Int
      <4>1. x \in Int /\ e \in Int /\ v \in Int
        BY <2>2, <2>4
      <4>2. v \div a \in Int
        BY <3>1, <4>1, DivMod
      <4> QED
        BY <4>1, <4>2
    <3>4. u = v + (m * p) * a /\ m * p \in Int
      <4>1. x * (a * (p * e)) = ((x * e) * p) * a
        BY <2>2, <2>4, <3>1, <3>2
      <4> QED
        BY <2>2, <2>4, <2>5, <3>2, <3>3, <4>1
    <3>5. u \div a = q + m * p
      <4>1. PICK t : t = m * p /\ t \in Int
        BY <3>4
      <4>2. v \in Int /\ a \in Nat \ {0}
        BY <2>4, <3>1
      <4>3. (v + t * a) \div a = v \div a + t
        BY <4>1, <4>2, AddMultiple
      <4> QED
        BY <3>3, <3>4, <4>1, <4>3
    <3>6. (q + m * p) % p = q % p
      <4>1. q \in Int /\ m \in Int /\ p \in Nat \ {0}
        BY <2>2, <3>3
      <4> QED
        BY <4>1, AddMultiple
    <3>7. q % p = f[i]
      BY <2>1, <2>2, <3>1, <3>3
    <3> QED
      BY <3>1, <3>5, <3>6, <3>7
  <2>9. Has(u, k + 1)
    <3>1. ASSUME NEW i \in 0..k PROVE (u \div 2^(c * i)) % 2^c = f[i]
      <4>1. CASE i = k
        BY <2>2, <2>7, <4>1
      <4>2. CASE i \in 0..(k - 1)
        BY <2>2, <2>8, <4>2
      <4> QED
        BY <4>1, <4>2
    <3> QED
      BY <3>1
  <2> QED
    BY <2>6, <2>9
<1>4. n \in S
  <2> HIDE DEF Has
  <2> QED
    BY <1>2, <1>3, SetInduction
<1> QED
  BY <1>1, <1>4

-----------------------------------------------------------------------------
(* Words, their bits and their bytes                                       *)

(* The widths of the machine                                               *)
LEMMA Widths ==
  /\ Byte \in Nat \ {0} /\ W8 \in Nat \ {0} /\ W16 \in Nat \ {0}
  /\ W32 \in Nat \ {0} /\ W64 \in Nat \ {0}
  /\ W8 <= W16 /\ W16 <= W32 /\ W32 <= W64 /\ W32 < W64 /\ W16 < W32 /\ W8 < W16
BY BitsAssumption DEF W8, W16, W32, W64

(* A word of w bits is a natural number below 2^w.                         *)
LEMMA WordType ==
  ASSUME NEW w \in Nat, NEW v
  PROVE  /\ v \in Word(w) <=> v \in Int /\ 0 <= v /\ v < 2^w
         /\ 2^w \in Nat \ {0}
<1>1. PICK p : p = 2^w /\ p \in Nat \ {0}
  BY PowerPositive
<1>2. v \in 0..(p - 1) <=> v \in Int /\ 0 <= v /\ v < p
  BY <1>1
<1> QED
  BY <1>1, <1>2 DEF Word

(* A word is one of any larger width.                                      *)
LEMMA WordGrows ==
  ASSUME NEW m \in Nat, NEW n \in Nat, m <= n, NEW v \in Word(m)
  PROVE  v \in Word(n)
<1>1. PICK p, q : p = 2^m /\ q = 2^n
  OBVIOUS
<1>2. p <= q
  BY <1>1, PowerGrows
<1>3. p \in Nat /\ q \in Nat /\ v \in Int /\ 0 <= v /\ v < p
  BY <1>1, WordType
<1>4. v < q
  BY <1>2, <1>3
<1> QED
  BY <1>1, <1>3, <1>4, WordType

(* The low bits of any number are a word.                                  *)
LEMMA TruncType ==
  ASSUME NEW w \in Nat, NEW v \in Int
  PROVE  Trunc(v, w) \in Word(w)
<1>1. 2^w \in Nat \ {0}
  BY PowerPositive
<1> QED
  BY <1>1, DivMod DEF Trunc, Word

(* The low bits of a word are the word.                                    *)
LEMMA TruncWord ==
  ASSUME NEW w \in Nat, NEW v \in Word(w)
  PROVE  Trunc(v, w) = v
<1>1. 2^w \in Nat \ {0}
  BY PowerPositive
<1> QED
  BY <1>1, ModSmall DEF Trunc, Word

(* The low bits of the low bits                                            *)
LEMMA TruncTrunc ==
  ASSUME NEW m \in Nat, NEW n \in Nat, m <= n, NEW v \in Int
  PROVE  Trunc(Trunc(v, n), m) = Trunc(v, m)
<1>1. PICK d, e : d = 2^m /\ e = 2^(n - m)
  OBVIOUS
<1>2. 2^n = e * d /\ n - m \in Nat
  BY <1>1, PowerGrows
<1>3. d \in Nat \ {0} /\ e \in Nat \ {0}
  BY <1>1, <1>2, PowerPositive
<1>4. 2^n = d * e
  BY <1>2, <1>3
<1>5. (v % (d * e)) % d = v % d
  BY <1>3, ModFactor
<1> QED
  BY <1>1, <1>4, <1>5 DEF Trunc

(* A bit is 0 or 1.                                                        *)
LEMMA BitValue ==
  ASSUME NEW v \in Int, NEW i \in Nat
  PROVE  (v \div 2^i) % 2 \in {0, 1}
<1>1. 2^i \in Nat \ {0}
  BY PowerPositive
<1>2. v \div 2^i \in Int
  BY <1>1, DivMod
<1> QED
  BY <1>2

(* Digits of one bit                                                       *)
LEMMA OneBit == \E c \in Nat \ {0} : c = 1 /\ 2^c = 2 /\ \A i \in Nat : c * i = i
<1>1. 2^(0 + 1) = 2 * 2^0 /\ 2^0 = 1
  BY PowerNext
<1>2. PICK c : c = 1
  OBVIOUS
<1>3. c \in Nat \ {0} /\ \A i \in Nat : c * i = i
  BY <1>2
<1>4. 2^c = 2
  BY <1>1, <1>2
<1> QED
  BY <1>2, <1>3, <1>4

(* The low w bits of a number have its bits.                               *)
LEMMA LowBits ==
  ASSUME NEW w \in Nat, NEW v \in Int
  PROVE  BitsOf(Trunc(v, w), w) = BitsOf(v, w)
<1>1. ASSUME NEW i \in 0..(w - 1) PROVE (Trunc(v, w) \div 2^i) % 2 = (v \div 2^i) % 2
  <2>0. i \in Nat
    OBVIOUS
  <2>1. PICK c \in Nat \ {0} : 2^c = 2 /\ c * w = w /\ c * i = i
    BY <2>0, OneBit
  <2>2. ((v % 2^(c * w)) \div 2^(c * i)) % 2^c = (v \div 2^(c * i)) % 2^c
    BY LowDigits
  <2> QED
    BY <2>1, <2>2 DEF Trunc
<1> QED
  BY <1>1 DEF BitsOf

(* Words with the same bits are the same.                                  *)
LEMMA SameBits ==
  ASSUME NEW w \in Nat, NEW u \in Word(w), NEW v \in Word(w), BitsOf(u, w) = BitsOf(v, w)
  PROVE  u = v
<1>1. u \in Int /\ v \in Int
  BY WordType
<1>0. PICK c \in Nat \ {0} : 2^c = 2 /\ \A i \in Nat : c * i = i
  BY OneBit
<1>2. ASSUME NEW i \in 0..(w - 1)
      PROVE  (u \div 2^(c * i)) % 2^c = (v \div 2^(c * i)) % 2^c
  <2>1. i \in Nat /\ c * i = i /\ 2^c = 2
    BY <1>0
  <2>2. (u \div 2^i) % 2 \in {0, 1} /\ (v \div 2^i) % 2 \in {0, 1}
    BY <1>1, <2>1, BitValue
  <2>3. i \in BitsOf(u, w) <=> i \in BitsOf(v, w)
    OBVIOUS
  <2>4. (u \div 2^i) % 2 = 1 <=> (v \div 2^i) % 2 = 1
    BY <2>3 DEF BitsOf
  <2>5. (u \div 2^i) % 2 = (v \div 2^i) % 2
    BY <2>2, <2>4
  <2> QED
    BY <2>1, <2>5
<1>3. u % 2^(c * w) = v % 2^(c * w)
  BY <1>1, <1>2, DigitsDetermine
<1>4. Trunc(u, w) = Trunc(v, w)
  BY <1>0, <1>3 DEF Trunc
<1> QED
  BY <1>4, TruncWord

(* OfBits chooses the word that has the bits of the set.                   *)
LEMMA OfBitsWord ==
  ASSUME NEW w \in Nat, NEW set \in SUBSET (0..(w - 1))
  PROVE  OfBits(set, w) \in Word(w) /\ BitsOf(OfBits(set, w), w) = set
<1>1. PICK f : f = [i \in 0..(w - 1) |-> IF i \in set THEN 1 ELSE 0]
  OBVIOUS
<1>0. PICK c \in Nat \ {0} : 2^c = 2 /\ \A i \in Nat : c * i = i
  BY OneBit
<1>2. \A i \in 0..(w - 1) : f[i] \in Word(c)
  BY <1>0, <1>1 DEF Word
<1>3. \E v \in Word(c * w) : \A i \in 0..(w - 1) : (v \div 2^(c * i)) % 2^c = f[i]
  BY <1>2, DigitsExist
<1>4. PICK v \in Word(w) : \A i \in 0..(w - 1) : (v \div 2^(c * i)) % 2^c = f[i]
  BY <1>0, <1>3
<1>5. ASSUME NEW i \in 0..(w - 1) PROVE i \in BitsOf(v, w) <=> i \in set
  <2>1. c * i = i /\ 2^c = 2
    BY <1>0
  <2>2. (v \div 2^i) % 2 = f[i]
    BY <1>4, <2>1
  <2>3. f[i] = 1 <=> i \in set
    BY <1>1
  <2> QED
    BY <2>2, <2>3 DEF BitsOf
<1>6. BitsOf(v, w) = set
  BY <1>5 DEF BitsOf
<1> QED
  BY <1>6 DEF OfBits

(* A bitwise operation yields a word, and And the one with the common      *)
(* bits.                                                                   *)
LEMMA BitwiseWord ==
  ASSUME NEW w \in Nat, NEW a, NEW b
  PROVE  /\ And(a, b, w) \in Word(w) /\ Or(a, b, w) \in Word(w) /\ Xor(a, b, w) \in Word(w)
         /\ BitsOf(And(a, b, w), w) = BitsOf(a, w) \cap BitsOf(b, w)
<1>1. PICK x, y : x = BitsOf(a, w) /\ y = BitsOf(b, w)
  OBVIOUS
<1>2. x \in SUBSET (0..(w - 1)) /\ y \in SUBSET (0..(w - 1))
  BY <1>1 DEF BitsOf
<1>3. PICK r, s, t : r = x \cap y /\ s = x \cup y /\ t = (x \cup y) \ (x \cap y)
  OBVIOUS
<1>4. r \in SUBSET (0..(w - 1)) /\ s \in SUBSET (0..(w - 1)) /\ t \in SUBSET (0..(w - 1))
  BY <1>2, <1>3
<1>5. /\ OfBits(r, w) \in Word(w) /\ OfBits(s, w) \in Word(w) /\ OfBits(t, w) \in Word(w)
      /\ BitsOf(OfBits(r, w), w) = r
  BY <1>4, OfBitsWord
<1> QED
  BY <1>1, <1>3, <1>5 DEF And, Or, Xor

(* A word has no bit above its width.                                      *)
LEMMA HighBits ==
  ASSUME NEW m \in Nat, NEW i \in Nat, m <= i, NEW v \in Word(m)
  PROVE  (v \div 2^i) % 2 = 0
<1>1. PICK p : p = 2^i /\ p \in Nat \ {0}
  BY PowerPositive
<1>2. v \in Word(i)
  BY WordGrows
<1>3. v \in 0..(p - 1)
  BY <1>1, <1>2 DEF Word
<1>4. v \div p = 0
  BY <1>1, <1>3, ModSmall
<1> QED
  BY <1>1, <1>4

(* The bits of 2^k - 1 are the lowest k.                                   *)
LEMMA MaskBits ==
  ASSUME NEW w \in Nat, NEW k \in Nat, k <= w
  PROVE  BitsOf(2^k - 1, w) = 0..(k - 1)
<1>1. ASSUME NEW i \in 0..(w - 1), i < k PROVE ((2^k - 1) \div 2^i) % 2 = 1
  <2>0. PICK c \in Nat \ {0} : 2^c = 2 /\ \A j \in Nat : c * j = j
    BY OneBit
  <2>1. i \in 0..(k - 1) /\ i \in Nat /\ c * i = i /\ c * k = k /\ 2^c = 2
    BY <1>1, <2>0
  <2>2. \E e \in Nat \ {0} : 2^(c * k) = 2^(c * i) * (2^c * e)
    BY <2>1, DigitsAbove
  <2>3. PICK e \in Nat \ {0} : 2^k = 2^i * (2 * e)
    BY <2>1, <2>2
  <2>4. PICK d, v, q : d = 2^i /\ v = 2^k - 1 /\ q = 2 * e - 1 /\ d \in Nat \ {0} /\ q \in Int
    BY <2>1, PowerPositive
  <2>5. v = q * d + (d - 1) /\ v \in Int
    <3>1. (2 * e - 1) * d = d * (2 * e) - d
      BY <2>4
    <3> QED
      BY <2>3, <2>4, <3>1
  <2>6. v \div d = q
    <3>1. d - 1 \in 0..(d - 1)
      BY <2>4
    <3> QED
      BY <2>4, <2>5, <3>1, DivUnique
  <2>7. q % 2 = 1
    BY <2>4
  <2> QED
    BY <2>4, <2>6, <2>7
<1>2. ASSUME NEW i \in 0..(w - 1), k <= i PROVE ((2^k - 1) \div 2^i) % 2 = 0
  <2>1. PICK v : v = 2^k - 1 /\ v \in Word(k)
    <3>1. 2^k \in Nat \ {0}
      BY PowerPositive
    <3> QED
      BY <3>1 DEF Word
  <2>2. (v \div 2^i) % 2 = 0
    BY <1>2, <2>1, HighBits
  <2> QED
    BY <2>1, <2>2
<1>3. ASSUME NEW i \in BitsOf(2^k - 1, w) PROVE i \in 0..(k - 1)
  <2>1. i \in 0..(w - 1) /\ ((2^k - 1) \div 2^i) % 2 = 1
    BY DEF BitsOf
  <2>2. ~ (k <= i)
    BY <1>2, <2>1
  <2> QED
    BY <2>1, <2>2
<1>4. 0..(k - 1) \subseteq BitsOf(2^k - 1, w)
  BY <1>1 DEF BitsOf
<1> QED
  BY <1>3, <1>4

(* Masking with 2^k - 1 keeps the low k bits.                              *)
LEMMA Masked ==
  ASSUME NEW w \in Nat, NEW k \in Nat, k <= w, NEW b \in Int
  PROVE  And(2^k - 1, b, w) = Trunc(b, k) /\ And(b, 2^k - 1, w) = Trunc(b, k)
<1>1. PICK v : v = Trunc(b, k) /\ v \in Word(k) /\ v \in Word(w) /\ v \in Int
  BY TruncType, WordGrows, WordType
<1>2. PICK m : m = 2^k - 1
  OBVIOUS
<1>3. BitsOf(m, w) = 0..(k - 1)
  BY <1>2, MaskBits
<1>4. ASSUME NEW i \in 0..(w - 1)
      PROVE  i \in BitsOf(v, w) <=> i \in BitsOf(b, w) /\ i \in 0..(k - 1)
  <2>1. CASE i < k
    <3>1. i \in 0..(k - 1)
      BY <2>1
    <3>2. BitsOf(v, k) = BitsOf(b, k)
      BY <1>1, LowBits
    <3>3. i \in BitsOf(v, k) <=> i \in BitsOf(b, k)
      BY <3>2
    <3> QED
      BY <3>1, <3>3 DEF BitsOf
  <2>2. CASE k <= i
    <3>1. (v \div 2^i) % 2 = 0
      <4>1. i \in Nat /\ v \in Word(k)
        BY <1>1
      <4> QED
        BY <2>2, <4>1, HighBits
    <3>2. i \notin 0..(k - 1)
      BY <2>2
    <3> QED
      BY <3>1, <3>2 DEF BitsOf
  <2> QED
    BY <2>1, <2>2
<1>5. BitsOf(v, w) = BitsOf(b, w) \cap BitsOf(m, w)
  BY <1>3, <1>4 DEF BitsOf
<1>6. And(m, b, w) = v
  <2>1. And(m, b, w) \in Word(w) /\ BitsOf(And(m, b, w), w) = BitsOf(m, w) \cap BitsOf(b, w)
    BY BitwiseWord
  <2> QED
    BY <1>1, <1>5, <2>1, SameBits
<1>7. And(b, m, w) = v
  <2>1. And(b, m, w) \in Word(w) /\ BitsOf(And(b, m, w), w) = BitsOf(b, w) \cap BitsOf(m, w)
    BY BitwiseWord
  <2> QED
    BY <1>1, <1>5, <2>1, SameBits
<1> QED
  BY <1>1, <1>2, <1>6, <1>7

(* The mask of a shift amount takes it modulo the width, which is a power  *)
(* of two.                                                                 *)
LEMMA ShiftAmount ==
  ASSUME NEW w \in {W32, W64}, NEW b \in Int
  PROVE  And(GetMaskByType(w), b, w) = b % w /\ b % w \in 0..(w - 1)
<1>1. PICK k \in 0..Byte : Byte = 2^k
  BY BitsAssumption
<1>2. k \in Nat /\ Byte \in Nat \ {0}
  BY BitsAssumption
<1>3. 2^(k + 1) = 2 * Byte /\ 2^((k + 1) + 1) = 2 * 2^(k + 1) /\ 2^(((k + 1) + 1) + 1) = 2 * 2^((k + 1) + 1)
  <2>1. k + 1 \in Nat /\ (k + 1) + 1 \in Nat
    BY <1>2
  <2> QED
    BY <1>1, <1>2, <2>1, PowerNext
<1>4. PICK j \in Nat : w = 2^j /\ j <= w
  <2>1. PICK m, n : m = (k + 1) + 1 /\ n = m + 1 /\ m \in Nat /\ n \in Nat
    BY <1>2
  <2>2. 2^m = 4 * Byte /\ 2^n = 8 * Byte
    BY <1>2, <1>3, <2>1
  <2>3. k <= Byte /\ Byte >= 1 /\ Byte \in Int
    BY <1>2
  <2>4. m <= 4 * Byte /\ n <= 8 * Byte
    BY <1>2, <2>1, <2>3
  <2>5. CASE w = W32
    BY <2>1, <2>2, <2>4, <2>5 DEF W32
  <2>6. CASE w = W64
    BY <2>1, <2>2, <2>4, <2>6 DEF W64
  <2> QED
    BY <2>5, <2>6
<1>5. w \in Nat \ {0}
  BY Widths
<1>6. And(2^j - 1, b, w) = Trunc(b, j)
  BY <1>4, <1>5, Masked
<1>7. b % w \in 0..(w - 1)
  BY <1>5, DivMod
<1> QED
  BY <1>4, <1>6, <1>7 DEF GetMaskByType, Trunc

(* A byte of a number is a word of that width.                             *)
LEMMA ByteOfType ==
  ASSUME NEW v \in Int, NEW i \in Nat
  PROVE  ByteOf(v, i) \in Word(Byte)
<1>1. Byte \in Nat \ {0}
  BY BitsAssumption
<1>2. 2^(Byte * i) \in Nat \ {0} /\ Byte \in Nat
  BY <1>1, DigitPowers
<1>3. v \div 2^(Byte * i) \in Int
  BY <1>2, DivMod
<1>4. Trunc(v \div 2^(Byte * i), Byte) \in Word(Byte)
  BY <1>2, <1>3, TruncType
<1> QED
  BY <1>4 DEF ByteOf, Trunc

(* OfBytes chooses a word, since there is one with the given bytes.        *)
LEMMA OfBytesWord ==
  ASSUME NEW n \in Nat, NEW f, \A i \in 0..(n - 1) : f[i] \in Word(Byte)
  PROVE  OfBytes(f, n) \in Word(Byte * n)
<1>1. Byte \in Nat \ {0}
  BY BitsAssumption
<1>2. \E v \in Word(Byte * n) : \A i \in 0..(n - 1) : (v \div 2^(Byte * i)) % 2^Byte = f[i]
  BY <1>1, DigitsExist
<1> QED
  BY <1>2 DEF OfBytes, ByteOf

(* The bytes of a word make up its width.                                  *)
LEMMA BytesWidth ==
  ASSUME NEW w \in {W8, W16, W32, W64}
  PROVE  Bytes(w) \in Nat \ {0} /\ Byte * Bytes(w) = w /\ w \in Nat \ {0}
<1>1. Byte \in Nat \ {0}
  BY BitsAssumption
<1>2. PICK k \in {1, 2, 4, 8} : w = k * Byte
  BY <1>1 DEF W8, W16, W32, W64
<1>3. w \in Int /\ k \in Int /\ 0 \in 0..(Byte - 1) /\ w = k * Byte + 0
  BY <1>1, <1>2
<1>4. w \div Byte = k
  BY <1>1, <1>3, DivUnique
<1>5. k \in Nat \ {0} /\ Byte * k = w /\ w \in Nat \ {0}
  BY <1>1, <1>2
<1> QED
  BY <1>4, <1>5 DEF Bytes

(* A load from memory yields a word of its width ...                       *)
LEMMA FetchWord ==
  ASSUME NEW m \in [Addresses -> Word(Byte)], NEW w \in {W8, W16, W32, W64},
         NEW p \in Int, InMemory(p, w)
  PROVE  Fetch(m, p, w) \in Word(w)
<1>1. PICK n : n = Bytes(w) /\ n \in Nat \ {0} /\ Byte * n = w
  BY BytesWidth
<1>2. PICK f : f = [i \in 0..(n - 1) |-> m[p + i]]
  OBVIOUS
<1>3. MemorySize \in Nat /\ p >= 0 /\ p + n <= MemorySize
  BY <1>1, BitsAssumption DEF InMemory
<1>4. ASSUME NEW i \in 0..(n - 1) PROVE f[i] \in Word(Byte)
  <2>1. p + i \in Addresses
    BY <1>1, <1>3 DEF Addresses
  <2> QED
    BY <1>2, <2>1
<1>5. OfBytes(f, n) \in Word(Byte * n)
  BY <1>1, <1>4, OfBytesWord
<1> QED
  BY <1>1, <1>2, <1>5 DEF Fetch

(* ... a store leaves bytes in memory ...                                  *)
LEMMA PutMemory ==
  ASSUME NEW m \in [Addresses -> Word(Byte)], NEW w \in {W8, W16, W32, W64},
         NEW p \in Int, NEW v \in Int
  PROVE  Put(m, p, w, v) \in [Addresses -> Word(Byte)]
<1>1. PICK n : n = Bytes(w) /\ n \in Nat \ {0}
  BY BytesWidth
<1>2. ASSUME NEW a \in Addresses, a \in p..(p + n - 1) PROVE ByteOf(v, a - p) \in Word(Byte)
  <2>1. a - p \in Nat
    BY <1>2
  <2> QED
    BY <2>1, ByteOfType
<1> QED
  BY <1>1, <1>2 DEF Put

(* ... and words stay words in the other byte order.                       *)
LEMMA ByteSwapWord ==
  ASSUME NEW w \in {W8, W16, W32, W64}, NEW v \in Int
  PROVE  ByteSwap(v, w) \in Word(w)
<1>1. PICK n : n = Bytes(w) /\ n \in Nat \ {0} /\ Byte * n = w
  BY BytesWidth
<1>2. PICK f : f = [i \in 0..(n - 1) |-> ByteOf(v, n - 1 - i)]
  OBVIOUS
<1>3. ASSUME NEW i \in 0..(n - 1) PROVE f[i] \in Word(Byte)
  <2>1. PICK j : j = n - 1 - i /\ j \in Nat
    BY <1>1
  <2>2. ByteOf(v, j) \in Word(Byte)
    BY <2>1, ByteOfType
  <2> QED
    BY <1>2, <2>1, <2>2
<1>4. OfBytes(f, n) \in Word(Byte * n)
  BY <1>1, <1>3, OfBytesWord
<1> QED
  BY <1>1, <1>2, <1>4 DEF ByteSwap

-----------------------------------------------------------------------------
(* Signed numbers                                                          *)

(* A signed word lies between -2^(w - 1) and 2^(w - 1) - 1, is the word    *)
(* modulo 2^w, and is the biased word less the bias.                       *)
LEMMA SignedValue ==
  ASSUME NEW w \in Nat \ {0}, NEW v \in Word(w)
  PROVE  /\ Signed(v, w) \in Int /\ - 2^(w - 1) <= Signed(v, w) /\ Signed(v, w) < 2^(w - 1)
         /\ Trunc(Signed(v, w), w) = v
         /\ Bias(v, w) = Signed(v, w) + 2^(w - 1)
<1>1. PICK h, p : h = 2^(w - 1) /\ p = 2^w /\ h \in Nat \ {0} /\ p \in Nat \ {0} /\ p = 2 * h
  BY PowerHalf
<1>2. v \in 0..(p - 1)
  BY <1>1 DEF Word
<1>3. PICK s : s = Signed(v, w)
  OBVIOUS
<1>4. s = IF v < h THEN v ELSE v - p
  BY <1>1, <1>3 DEF Signed
<1>5. s \in Int /\ - h <= s /\ s < h
  BY <1>1, <1>2, <1>4
<1>6. s % p = v
  <2>1. CASE v < h
    BY <1>1, <1>2, <1>4, <2>1, ModSmall
  <2>2. CASE ~ (v < h)
    <3>1. s = (-1) * p + v /\ -1 \in Int
      BY <1>1, <1>2, <1>4, <2>2
    <3> QED
      BY <1>1, <1>2, <1>5, <3>1, DivUnique
  <2> QED
    BY <2>1, <2>2
<1>7. (v + h) % p = s + h
  <2>1. PICK b, c : b = v + h /\ c = s + h /\ b \in Int /\ c \in 0..(p - 1)
    BY <1>1, <1>2, <1>5
  <2>2. \E q \in Int : b = q * p + c
    <3>1. CASE v < h
      <4>1. b = 0 * p + c /\ 0 \in Int
        BY <1>1, <1>2, <1>4, <2>1, <3>1
      <4> QED
        BY <4>1
    <3>2. CASE ~ (v < h)
      <4>1. b = 1 * p + c /\ 1 \in Int
        BY <1>1, <1>2, <1>4, <2>1, <3>2
      <4> QED
        BY <4>1
    <3> QED
      BY <3>1, <3>2
  <2>3. PICK q \in Int : b = q * p + c
    BY <2>2
  <2>4. b % p = c
    BY <1>1, <2>1, <2>3, DivUnique
  <2> QED
    BY <2>1, <2>4
<1> QED
  BY <1>1, <1>3, <1>5, <1>6, <1>7 DEF Trunc, Bias

(* The range alone                                                         *)
LEMMA SignedRange ==
  ASSUME NEW w \in Nat \ {0}, NEW v \in Word(w)
  PROVE  Signed(v, w) \in Int /\ - 2^(w - 1) <= Signed(v, w) /\ Signed(v, w) < 2^(w - 1)
BY SignedValue

(* Sign extension yields a word of the new width.                          *)
LEMMA SExtWord ==
  ASSUME NEW from \in Nat \ {0}, NEW to \in Nat, NEW v \in Word(from)
  PROVE  SExt(v, from, to) \in Word(to)
BY SignedRange, TruncType DEF SExt

-----------------------------------------------------------------------------
(* Isa and Lift speak of the same words.                                   *)

LEMMA IsaWords ==
  /\ \A a, w : I!Trunc(a, w) = Trunc(a, w) /\ I!Signed(a, w) = Signed(a, w)
  /\ \A a, b, w : /\ I!And(a, b, w) = And(a, b, w) /\ I!Or(a, b, w) = Or(a, b, w)
                 /\ I!Xor(a, b, w) = Xor(a, b, w)
  /\ \A a, w : I!BitsOf(a, w) = BitsOf(a, w)
  /\ \A a, b : I!Quotient(a, b) = Quotient(a, b)
  /\ \A a, w : I!ByteSwap(a, w) = ByteSwap(a, w)
  /\ \A p, w : I!InMemory(p, w) = InMemory(p, w)
  /\ \A m, p, w : I!Fetch(m, p, w) = Fetch(m, p, w)
  /\ \A m, p, w, a : I!Put(m, p, w, a) = Put(m, p, w, a)
  /\ I!W64 = W64 /\ I!Addresses = Addresses /\ \A w : I!Word(w) = Word(w)
<1> SUFFICES ASSUME NEW a, NEW b, NEW w, NEW m, NEW p
    PROVE  /\ I!Trunc(a, w) = Trunc(a, w) /\ I!Signed(a, w) = Signed(a, w)
           /\ I!And(a, b, w) = And(a, b, w) /\ I!Or(a, b, w) = Or(a, b, w)
           /\ I!Xor(a, b, w) = Xor(a, b, w)
           /\ I!BitsOf(a, w) = BitsOf(a, w)
           /\ I!Quotient(a, b) = Quotient(a, b)
           /\ I!ByteSwap(a, w) = ByteSwap(a, w)
           /\ I!InMemory(p, w) = InMemory(p, w)
           /\ I!Fetch(m, p, w) = Fetch(m, p, w)
           /\ I!Put(m, p, w, a) = Put(m, p, w, a)
           /\ I!W64 = W64 /\ I!Word(w) = Word(w) /\ I!Addresses = Addresses
  OBVIOUS
<1>1. I!Trunc(a, w) = Trunc(a, w) /\ I!Signed(a, w) = Signed(a, w)
  BY DEF I!Trunc, Trunc, I!Signed, Signed
<1>2. /\ I!And(a, b, w) = And(a, b, w) /\ I!Or(a, b, w) = Or(a, b, w)
      /\ I!Xor(a, b, w) = Xor(a, b, w)
  BY DEF I!And, And, I!Or, Or, I!Xor, Xor, I!OfBits, OfBits, I!BitsOf, BitsOf, I!Word, Word
<1>3. I!BitsOf(a, w) = BitsOf(a, w)
  BY DEF I!BitsOf, BitsOf
<1>4. I!Quotient(a, b) = Quotient(a, b)
  BY DEF I!Quotient, Quotient, I!Magnitude, Magnitude
<1>5. I!ByteSwap(a, w) = ByteSwap(a, w)
  BY DEF I!ByteSwap, ByteSwap, I!OfBytes, OfBytes, I!ByteOf, ByteOf, I!Bytes, Bytes, I!Word, Word
<1>6. I!InMemory(p, w) = InMemory(p, w)
  BY DEF I!InMemory, InMemory, I!Bytes, Bytes
<1>7. I!Fetch(m, p, w) = Fetch(m, p, w)
  BY DEF I!Fetch, Fetch, I!OfBytes, OfBytes, I!ByteOf, ByteOf, I!Bytes, Bytes, I!Word, Word
<1>8. I!Put(m, p, w, a) = Put(m, p, w, a)
  BY DEF I!Put, Put, I!ByteOf, ByteOf, I!Bytes, Bytes, I!Addresses, Addresses
<1>9. I!W64 = W64 /\ I!Word(w) = Word(w) /\ I!Addresses = Addresses
  BY DEF I!W64, W64, I!Word, Word, I!Addresses, Addresses
<1> QED
  BY <1>1, <1>2, <1>3, <1>4, <1>5, <1>6, <1>7, <1>8, <1>9

-----------------------------------------------------------------------------
(* What an emitted operation computes is what the instruction set asks for *)
(* and a number of the operation's width.                                  *)

(* Sums, differences, products and bitwise operations                      *)
LEMMA BinopIs ==
  ASSUME NEW w \in Nat \ {0}, NEW a \in Word(w), NEW b \in Word(w),
         NEW op \in {"add", "sub", "mul", "and", "or", "xor"}
  PROVE  /\ Binop(op, a, b, w) \in Word(w)
         /\ Binop(op, a, b, w) = Trunc(I!Arithmetic(op, a, b, w), w)
<1>1. w \in Nat /\ a \in Int /\ b \in Int /\ a + b \in Int /\ a - b \in Int /\ a * b \in Int
  BY WordType
<1>2. /\ Trunc(a + b, w) \in Word(w) /\ Trunc(a - b, w) \in Word(w) /\ Trunc(a * b, w) \in Word(w)
  BY <1>1, TruncType
<1>3. /\ And(a, b, w) \in Word(w) /\ Trunc(And(a, b, w), w) = And(a, b, w)
      /\ Or(a, b, w) \in Word(w) /\ Trunc(Or(a, b, w), w) = Or(a, b, w)
      /\ Xor(a, b, w) \in Word(w) /\ Trunc(Xor(a, b, w), w) = Xor(a, b, w)
  BY BitwiseWord, TruncWord
<1>4. CASE op = "add"
  BY <1>2, <1>4 DEF Binop, I!Arithmetic
<1>5. CASE op = "sub"
  BY <1>2, <1>5 DEF Binop, I!Arithmetic
<1>6. CASE op = "mul"
  BY <1>2, <1>6 DEF Binop, I!Arithmetic
<1>7. CASE op = "and"
  BY <1>3, <1>7, IsaWords DEF Binop, I!Arithmetic
<1>8. CASE op = "or"
  BY <1>3, <1>8, IsaWords DEF Binop, I!Arithmetic
<1>9. CASE op = "xor"
  BY <1>3, <1>9, IsaWords DEF Binop, I!Arithmetic
<1> QED
  BY <1>4, <1>5, <1>6, <1>7, <1>8, <1>9

(* A quotient by a positive number is no larger.                           *)
LEMMA QuotientWord ==
  ASSUME NEW w \in Nat, NEW a \in Word(w), NEW d \in Nat \ {0}
  PROVE  a \div d \in Word(w) /\ a % d \in Word(w)
<1>1. a \in Int /\ 0 <= a /\ a < 2^w /\ 2^w \in Nat
  BY WordType
<1>2. PICK q, r : q = a \div d /\ r = a % d /\ q \in Int /\ r \in 0..(d - 1) /\ a = q * d + r
  BY <1>1, DivMod
<1>3. 0 <= q /\ q <= a
  <2>1. 0 <= q
    <3> SUFFICES ASSUME q <= -1 PROVE FALSE
      BY <1>2
    <3>1. q * d <= (-1) * d
      BY <1>2
    <3> QED
      BY <1>1, <1>2, <3>1
  <2>2. q <= q * d
    BY <1>2, <2>1
  <2> QED
    BY <1>1, <1>2, <2>1, <2>2
<1>4. 0 <= r /\ r <= a
  <2>1. q * d >= 0
    BY <1>2, <1>3
  <2> QED
    BY <1>1, <1>2, <2>1
<1>5. q < 2^w /\ r < 2^w /\ r \in Int
  BY <1>1, <1>2, <1>3, <1>4
<1> QED
  BY <1>2, <1>3, <1>4, <1>5, WordType

(* A shift is by the amount modulo the width, hence never by too much.     *)
LEMMA ShiftIs ==
  ASSUME NEW w \in {W32, W64}, NEW a \in Word(w), NEW b \in Word(w),
         NEW op \in {"lsh", "rsh", "arsh"}
  PROVE  /\ CreateMasked(op, a, b, w) \in Word(w)
         /\ CreateMasked(op, a, b, w) = Trunc(I!Arithmetic(op, a, b, w), w)
<1>1. w \in Nat \ {0} /\ w \in Nat
  BY Widths
<1>2. a \in Int /\ b \in Int
  BY <1>1, WordType
<1>3. PICK k : k = b % w /\ k \in 0..(w - 1) /\ And(GetMaskByType(w), b, w) = k
  BY <1>2, ShiftAmount
<1>4. PICK p : p = 2^k /\ p \in Nat \ {0}
  BY <1>1, <1>3, PowerPositive
<1>5. ~ (k >= w)
  BY <1>1, <1>3
<1>6. CreateMasked(op, a, b, w) = CASE op = "lsh"  -> Trunc(a * p, w)
                                    [] op = "rsh"  -> a \div p
                                    [] op = "arsh" -> Trunc(Signed(a, w) \div p, w)
  BY <1>3, <1>4, <1>5 DEF CreateMasked, Shift
<1>7. CASE op = "lsh"
  <2>1. a * p \in Int
    BY <1>2, <1>4
  <2>2. Trunc(a * p, w) \in Word(w)
    BY <1>1, <2>1, TruncType
  <2>3. I!Arithmetic(op, a, b, w) = a * p
    BY <1>3, <1>4, <1>7 DEF I!Arithmetic
  <2> QED
    BY <1>6, <1>7, <2>2, <2>3
<1>8. CASE op = "rsh"
  <2>1. a \div p \in Word(w)
    BY <1>1, <1>4, QuotientWord
  <2>2. Trunc(a \div p, w) = a \div p
    BY <1>1, <2>1, TruncWord
  <2>3. I!Arithmetic(op, a, b, w) = a \div p
    BY <1>3, <1>4, <1>8 DEF I!Arithmetic
  <2> QED
    BY <1>6, <1>8, <2>1, <2>2, <2>3
<1>9. CASE op = "arsh"
  <2>1. Signed(a, w) \in Int
    BY <1>1, SignedRange
  <2>2. Signed(a, w) \div p \in Int
    BY <1>4, <2>1, DivMod
  <2>3. Trunc(Signed(a, w) \div p, w) \in Word(w)
    BY <1>1, <2>2, TruncType
  <2>4. I!Arithmetic(op, a, b, w) = Signed(a, w) \div p
    BY <1>3, <1>4, <1>9, IsaWords DEF I!Arithmetic
  <2> QED
    BY <1>6, <1>9, <2>3, <2>4
<1> QED
  BY <1>7, <1>8, <1>9

(* Quotients rounded towards zero are integers, and so are their           *)
(* remainders.                                                             *)
LEMMA QuotientInt ==
  ASSUME NEW x \in Int, NEW y \in Int \ {0}
  PROVE  Quotient(x, y) \in Int /\ x - y * Quotient(x, y) \in Int
<1>1. PICK m, n : m = Magnitude(x) /\ n = Magnitude(y) /\ m \in Int /\ n \in Nat \ {0}
  BY DEF Magnitude
<1>2. m \div n \in Int
  BY <1>1, DivMod
<1>3. PICK q : q = Quotient(x, y) /\ q \in Int
  BY <1>1, <1>2 DEF Quotient
<1> QED
  BY <1>3

(* INT_MIN / -1 is the one quotient of signed words that is not a signed   *)
(* word; wrapped around, it is the dividend again.                         *)
LEMMA OverflowIs ==
  ASSUME NEW w \in Nat \ {0}, NEW a \in Word(w), NEW b \in Word(w), Overflows(a, b, w)
  PROVE  LET x == Signed(a, w) y == Signed(b, w)
         IN  Trunc(Quotient(x, y), w) = a /\ x - y * Quotient(x, y) = 0
<1>1. PICK h, p : h = 2^(w - 1) /\ p = 2^w /\ h \in Nat \ {0} /\ p \in Nat \ {0} /\ p = 2 * h
  BY PowerHalf
<1>2. a = h /\ b = p - 1
  BY <1>1 DEF Overflows
<1>3. PICK x, y : x = Signed(a, w) /\ y = Signed(b, w)
  OBVIOUS
<1>4. x = -h /\ y = -1
  BY <1>1, <1>2, <1>3 DEF Signed
<1>5. Magnitude(x) = h /\ Magnitude(y) = 1
  <2>0. h \in Int /\ h > 0
    BY <1>1
  <2>1. x \in Int /\ y \in Int /\ x < 0 /\ y < 0
    BY <1>4, <2>0
  <2>2. -x = h
    BY <1>4, <2>0, <2>1
  <2>3. -y = 1
    <3>1. y + 1 = 0
      BY <1>4
    <3> QED
      BY <2>1, <3>1
  <2> QED
    BY <2>1, <2>2, <2>3 DEF Magnitude
<1>6. h \div 1 = h
  BY <1>1
<1>7. Quotient(x, y) = h
  BY <1>1, <1>4, <1>5, <1>6 DEF Quotient
<1>8. x - y * h = 0
  BY <1>1, <1>4
<1>9. Trunc(a, w) = a
  BY TruncWord
<1> QED
  BY <1>2, <1>3, <1>7, <1>8, <1>9

(* Divisions: by zero, of INT_MIN by -1, and all the others                *)
LEMMA DivideIs ==
  ASSUME NEW w \in Nat \ {0}, NEW a \in Word(w), NEW b \in Word(w),
         NEW op \in {"div", "mod", "sdiv", "smod"}
  PROVE  /\ Divided(op, a, b, w) \in Word(w)
         /\ Divided(op, a, b, w) = Trunc(I!Arithmetic(op, a, b, w), w)
<1>1. a \in Int /\ b \in Int /\ 0 <= b /\ 2^w \in Nat \ {0}
  BY WordType
<1>2. 0 \in Word(w) /\ Trunc(0, w) = 0
  <2>1. 0 \in Word(w)
    BY <1>1 DEF Word
  <2> QED
    BY <2>1, TruncWord
<1>3. Trunc(a, w) = a
  BY TruncWord
<1>4. CASE b = 0
  BY <1>2, <1>3, <1>4 DEF Divided, CreateCheckedUDiv, CreateCheckedURem, CreateCheckedSDiv,
                          CreateCheckedSRem, I!Arithmetic
<1>5. CASE b # 0
  <2>1. b \in Nat \ {0}
    BY <1>1, <1>5
  <2>2. CASE op = "div"
    <3>1. a \div b \in Word(w) /\ Trunc(a \div b, w) = a \div b
      BY <2>1, QuotientWord, TruncWord
    <3> QED
      BY <1>5, <2>2, <3>1 DEF Divided, CreateCheckedUDiv, UDiv, I!Arithmetic
  <2>3. CASE op = "mod"
    <3>1. a % b \in Word(w) /\ Trunc(a % b, w) = a % b
      BY <2>1, QuotientWord, TruncWord
    <3> QED
      BY <1>5, <2>3, <3>1 DEF Divided, CreateCheckedURem, URem, I!Arithmetic
  <2>4. PICK x, y : x = Signed(a, w) /\ y = Signed(b, w)
    OBVIOUS
  <2>5. x \in Int /\ y \in Int \ {0}
    <3>1. x \in Int /\ y \in Int
      BY <2>4, SignedRange
    <3>2. Trunc(y, w) = b
      BY <2>4, SignedValue
    <3> QED
      BY <1>2, <1>5, <3>1, <3>2
  <2>6. PICK q, r : q = Quotient(x, y) /\ r = x - y * Quotient(x, y) /\ q \in Int /\ r \in Int
    BY <2>5, QuotientInt
  <2>7. Trunc(q, w) \in Word(w) /\ Trunc(r, w) \in Word(w)
    BY <2>6, TruncType
  <2>8. Overflows(a, b, w) => Trunc(q, w) = a /\ r = 0
    BY <2>4, <2>6, OverflowIs
  <2>9. CASE op = "sdiv"
    <3>1. I!Arithmetic(op, a, b, w) = q
      BY <1>5, <2>4, <2>6, <2>9, IsaWords DEF I!Arithmetic
    <3>2. Divided(op, a, b, w) = IF Overflows(a, b, w) THEN a ELSE SDiv(a, b, w)
      BY <1>5, <2>9 DEF Divided, CreateCheckedSDiv
    <3>3. ~ Overflows(a, b, w) => SDiv(a, b, w) = Trunc(q, w)
      BY <1>5, <2>4, <2>6 DEF SDiv
    <3> QED
      BY <2>7, <2>8, <3>1, <3>2, <3>3
  <2>10. CASE op = "smod"
    <3>1. I!Arithmetic(op, a, b, w) = r
      BY <1>5, <2>4, <2>6, <2>10, IsaWords DEF I!Arithmetic
    <3>2. Divided(op, a, b, w) = IF Overflows(a, b, w) THEN 0 ELSE SRem(a, b, w)
      BY <1>5, <2>10 DEF Divided, CreateCheckedSRem
    <3>3. ~ Overflows(a, b, w) => SRem(a, b, w) = Trunc(r, w)
      BY <1>5, <2>4, <2>6 DEF SRem
    <3> QED
      BY <1>2, <2>7, <2>8, <3>1, <3>2, <3>3
  <2> QED
    BY <2>2, <2>3, <2>9, <2>10
<1> QED
  BY <1>4, <1>5

(* Comparisons; the signed ones compare biased words.                      *)
LEMMA ICmpIs ==
  ASSUME NEW w \in Nat \ {0}, NEW a \in Word(w), NEW b \in Word(w),
         NEW op \in {"eq", "ne", "gt", "ge", "lt", "le", "sgt", "sge", "slt", "sle"}
  PROVE  ICmp(op, a, b, w) \in BOOLEAN /\ ICmp(op, a, b, w) = I!Holds(op, a, b, w)
<1>1. a \in Int /\ b \in Int
  BY WordType
<1>2. PICK h, x, y : h = 2^(w - 1) /\ x = Signed(a, w) /\ y = Signed(b, w)
  OBVIOUS
<1>3. h \in Int /\ x \in Int /\ y \in Int /\ Bias(a, w) = x + h /\ Bias(b, w) = y + h
  BY <1>2, PowerHalf, SignedValue
<1>4. CASE op \in {"eq", "ne", "gt", "ge", "lt", "le"}
  <2>1. CASE op = "eq"
    BY <2>1 DEF ICmp, I!Holds
  <2>2. CASE op = "ne"
    BY <2>2 DEF ICmp, I!Holds
  <2>3. CASE op = "gt"
    BY <2>3 DEF ICmp, I!Holds
  <2>4. CASE op = "ge"
    BY <2>4 DEF ICmp, I!Holds
  <2>5. CASE op = "lt"
    BY <2>5 DEF ICmp, I!Holds
  <2>6. CASE op = "le"
    BY <2>6 DEF ICmp, I!Holds
  <2> QED
    BY <1>4, <2>1, <2>2, <2>3, <2>4, <2>5, <2>6
<1>5. CASE op \in {"sgt", "sge", "slt", "sle"}
  <2>1. /\ Bias(a, w) > Bias(b, w) <=> x > y
        /\ Bias(a, w) >= Bias(b, w) <=> x >= y
        /\ Bias(a, w) < Bias(b, w) <=> x < y
        /\ Bias(a, w) <= Bias(b, w) <=> x <= y
    BY <1>3
  <2>2. x = I!Signed(a, w) /\ y = I!Signed(b, w)
    BY <1>2, IsaWords
  <2>3. CASE op = "sgt"
    BY <2>1, <2>2, <2>3 DEF ICmp, I!Holds
  <2>4. CASE op = "sge"
    BY <2>1, <2>2, <2>4 DEF ICmp, I!Holds
  <2>5. CASE op = "slt"
    BY <2>1, <2>2, <2>5 DEF ICmp, I!Holds
  <2>6. CASE op = "sle"
    BY <2>1, <2>2, <2>6 DEF ICmp, I!Holds
  <2> QED
    BY <1>5, <2>3, <2>4, <2>5, <2>6
<1> QED
  BY <1>4, <1>5

(* A word is zero if and only if none of its bits is set.                  *)
LEMMA JSetIs ==
  ASSUME NEW w \in Nat \ {0}, NEW a, NEW b
  PROVE  /\ ICmp("ne", And(a, b, w), 0, w) \in BOOLEAN
         /\ ICmp("ne", And(a, b, w), 0, w) = I!Holds("set", a, b, w)
<1>1. PICK v : v = And(a, b, w) /\ v \in Word(w) /\ BitsOf(v, w) = BitsOf(a, w) \cap BitsOf(b, w)
  BY BitwiseWord
<1>2. 0 \in Word(w) /\ BitsOf(0, w) = {}
  <2>1. 0 \in Word(0) /\ 0 \in Nat
    <3>1. 2^0 = 1
      OBVIOUS
    <3> QED
      BY <3>1 DEF Word
  <2>2. ASSUME NEW i \in 0..(w - 1) PROVE (0 \div 2^i) % 2 = 0
    <3>1. i \in Nat /\ 0 <= i
      OBVIOUS
    <3> QED
      BY <2>1, <3>1, HighBits
  <2>3. 0 \in Word(w)
    BY <2>1, WordGrows
  <2>4. ASSUME NEW i \in BitsOf(0, w) PROVE FALSE
    <3>1. i \in 0..(w - 1) /\ (0 \div 2^i) % 2 = 1
      BY DEF BitsOf
    <3>2. (0 \div 2^i) % 2 = 0
      BY <2>2, <3>1
    <3> QED
      BY <3>1, <3>2
  <2> QED
    BY <2>3, <2>4
<1>3. v # 0 <=> BitsOf(v, w) # {}
  BY <1>1, <1>2, SameBits
<1>4. ICmp("ne", v, 0, w) = (v # 0)
  BY DEF ICmp
<1>5. I!Holds("set", a, b, w) = (BitsOf(a, w) \cap BitsOf(b, w) # {})
  BY IsaWords DEF I!Holds
<1> QED
  BY <1>1, <1>3, <1>4, <1>5

-----------------------------------------------------------------------------
(* What an instruction reads and writes                                    *)

(* The part of TypeOK that an instruction's own effect is about            *)
Values ==
  /\ reg \in [Registers -> Word(W64)]
  /\ mem \in [Addresses -> Word(Byte)]
  /\ taken \in BOOLEAN

(* Reading a register yields its low bits ...                              *)
LEMMA ReadRegIs ==
  ASSUME Values, NEW r \in Registers, NEW w \in {W32, W64}
  PROVE  ReadReg(r, w) \in Word(w) /\ ReadReg(r, w) = Trunc(reg[r], w)
<1>1. reg[r] \in Word(W64)
  BY DEF Values
<1>2. reg[r] \in Int
  BY <1>1, Widths, WordType
<1>3. CASE w = W64
  BY <1>1, <1>3, Widths, TruncWord DEF ReadReg
<1>4. CASE w # W64
  <2>1. w = W32
    BY <1>4
  <2>2. Trunc(reg[r], W32) \in Word(W32)
    BY <1>2, Widths, TruncType
  <2> QED
    BY <1>4, <2>1, <2>2 DEF ReadReg
<1> QED
  BY <1>3, <1>4

(* ... of the word that it holds.                                          *)
LEMMA RegisterIs ==
  ASSUME Values, NEW r \in Registers
  PROVE  reg[r] \in Word(W64) /\ reg[r] \in Int
<1>1. reg[r] \in Word(W64)
  BY DEF Values
<1> QED
  BY <1>1, Widths, WordType

(* The source operand is that of the instruction set, register or          *)
(* immediate ...                                                           *)
LEMMA OperandIs ==
  ASSUME Values, NEW i, Source(i), NEW w \in {W32, W64}
  PROVE  ReadALUSrcOperand(i.src, w) \in Word(w) /\ ReadALUSrcOperand(i.src, w) = I!Operand(i.src, w)
<1>1. CASE i.src[1] = "reg" /\ i.src[2] \in Registers
  <2>1. PICK r : r = i.src[2] /\ r \in Registers
    BY <1>1
  <2>2. ReadReg(r, w) \in Word(w) /\ ReadReg(r, w) = Trunc(reg[r], w)
    BY <2>1, ReadRegIs
  <2>3. ReadALUSrcOperand(i.src, w) = ReadReg(r, w) /\ I!Operand(i.src, w) = Trunc(reg[r], w)
    BY <1>1, <2>1, IsaWords DEF ReadALUSrcOperand, I!Operand
  <2> QED
    BY <2>2, <2>3
<1>2. CASE i.src[1] = "imm" /\ i.src[2] \in Int
  <2>1. PICK v : v = i.src[2] /\ v \in Int
    BY <1>2
  <2>2. Trunc(v, w) \in Word(w)
    BY <2>1, Widths, TruncType
  <2>3. ReadALUSrcOperand(i.src, w) = Trunc(v, w) /\ I!Operand(i.src, w) = Trunc(v, w)
    BY <1>2, <2>1, IsaWords DEF ReadALUSrcOperand, ReadImmOperand, I!Operand
  <2> QED
    BY <2>2, <2>3
<1> QED
  BY <1>1, <1>2 DEF Source

(* ... and so is the address, although the offset is truncated first.      *)
LEMMA AddressIs ==
  ASSUME Values, NEW i, Addressed(i)
  PROVE  GetMemPointerOperand(i) \in Int /\ GetMemPointerOperand(i) = I!Address(i)
<1>1. PICK a, b : a = i.off /\ b = reg[i.base] /\ a \in Int /\ b \in Int
  BY RegisterIs DEF Addressed
<1>2. PICK p : p = 2^W64 /\ p \in Nat \ {0}
  BY Widths, PowerPositive
<1>3. ((a % p) + b) % p = (a + b) % p
  BY <1>1, <1>2, ModMod
<1>4. (a % p) + b = b + (a % p) /\ a + b = b + a /\ (a + b) % p \in Int
  <2>0. a + b \in Int
    BY <1>1
  <2>1. a % p \in 0..(p - 1)
    BY <1>1, <1>2, DivMod
  <2>2. (a + b) % p \in Int
    BY <1>2, <2>0, DivMod
  <2> QED
    BY <1>1, <2>0, <2>1, <2>2
<1>5. GetMemPointerOperand(i) = (b + (a % p)) % p
  BY <1>1, <1>2 DEF GetMemPointerOperand, ReadImmOperand, Trunc
<1>6. I!Address(i) = (b + a) % p
  BY <1>1, <1>2, IsaWords DEF I!Address, Trunc
<1> QED
  BY <1>3, <1>4, <1>5, <1>6

(* The register that is written is the operation's, and its upper half is  *)
(* zero.                                                                   *)
LEMMA WriteIs ==
  ASSUME Values, NEW i, i.dst \in Registers, NEW w \in Nat, w <= W64, NEW v \in Word(w), NEW u,
         v = Trunc(u, w), NEW n, Write(i, v, n)
  PROVE  Values' /\ I!Assign(i.dst, u, w)
<1>1. v \in Word(W64)
  BY Widths, WordGrows
<1>2. reg' = [reg EXCEPT ![i.dst] = v] /\ mem' = mem /\ taken' = FALSE /\ UNCHANGED halted
  BY DEF Write, Emit, UpdateReg
<1>3. I!Trunc(u, w) = v
  BY IsaWords
<1>4. Values'
  BY <1>1, <1>2 DEF Values
<1> QED
  BY <1>2, <1>3, <1>4 DEF I!Assign, I!Becomes

(* The operands of an operation or a comparison                            *)
LEMMA AluOperands ==
  ASSUME Values, NEW i \in Instructions, i.class \in {"alu", "jump"}
  PROVE  /\ i.w \in {W32, W64} /\ i.dst \in Registers /\ i.w \in Nat \ {0}
         /\ ReadReg(i.dst, i.w) \in Word(i.w)
         /\ ReadReg(i.dst, i.w) = I!Trunc(reg[i.dst], i.w)
         /\ ReadALUSrcOperand(i.src, i.w) \in Word(i.w)
         /\ ReadALUSrcOperand(i.src, i.w) = I!Operand(i.src, i.w)
<1>1. Encodable(i)
  BY LiftAssumption
<1>2. i.w \in {W32, W64} /\ i.dst \in Registers /\ Source(i)
  BY <1>1 DEF Encodable
<1>3. PICK w, r : w = i.w /\ r = i.dst
  OBVIOUS
<1>4. w \in Nat \ {0}
  BY <1>2, <1>3, Widths
<1>5. ReadReg(r, w) \in Word(w) /\ ReadReg(r, w) = Trunc(reg[r], w)
  BY <1>2, <1>3, ReadRegIs
<1>6. ReadALUSrcOperand(i.src, w) \in Word(w) /\ ReadALUSrcOperand(i.src, w) = I!Operand(i.src, w)
  BY <1>2, <1>3, OperandIs
<1> QED
  BY <1>2, <1>3, <1>4, <1>5, <1>6, IsaWords

-----------------------------------------------------------------------------
(* One lemma for each action: it is the instruction of the instruction set *)
(* and leaves words in the registers and the memory.                       *)

(* A sum, a difference, a product or a bitwise operation                   *)
LEMMA AluStep ==
  ASSUME Values, NEW i \in Instructions, Alu(i)
  PROVE  Values' /\ I!Compute(i)
<1>1. i.class = "alu" /\ i.op \in {"add", "sub", "mul", "and", "or", "xor"}
  BY DEF Alu
<1>2. PICK w, a, b : w = i.w /\ a = ReadReg(i.dst, i.w) /\ b = ReadALUSrcOperand(i.src, i.w)
  OBVIOUS
<1>3. /\ w \in Nat \ {0} /\ w \in {W32, W64} /\ i.dst \in Registers /\ a \in Word(w) /\ b \in Word(w)
      /\ a = I!Trunc(reg[i.dst], w) /\ b = I!Operand(i.src, w)
  BY <1>1, <1>2, AluOperands
<1>4. PICK v, u : v = Binop(i.op, a, b, w) /\ u = I!Arithmetic(i.op, a, b, w)
  OBVIOUS
<1>5. v \in Word(w) /\ v = Trunc(u, w)
  BY <1>1, <1>3, <1>4, BinopIs
<1>6. Write(i, v, w)
  BY <1>2, <1>4 DEF Alu
<1>7. w \in Nat /\ w <= W64
  BY <1>3, Widths
<1>8. Values' /\ I!Assign(i.dst, u, w)
  BY <1>3, <1>5, <1>6, <1>7, WriteIs
<1> QED
  BY <1>1, <1>2, <1>3, <1>4, <1>8 DEF I!Compute

(* A shift                                                                 *)
LEMMA ShiftByStep ==
  ASSUME Values, NEW i \in Instructions, ShiftBy(i)
  PROVE  Values' /\ I!Compute(i)
<1>1. i.class = "alu" /\ i.op \in {"lsh", "rsh", "arsh"}
  BY DEF ShiftBy
<1>2. PICK w, a, b : w = i.w /\ a = ReadReg(i.dst, i.w) /\ b = ReadALUSrcOperand(i.src, i.w)
  OBVIOUS
<1>3. /\ w \in Nat \ {0} /\ w \in {W32, W64} /\ i.dst \in Registers /\ a \in Word(w) /\ b \in Word(w)
      /\ a = I!Trunc(reg[i.dst], w) /\ b = I!Operand(i.src, w)
  BY <1>1, <1>2, AluOperands
<1>4. PICK v, u : v = CreateMasked(i.op, a, b, w) /\ u = I!Arithmetic(i.op, a, b, w)
  OBVIOUS
<1>5. v \in Word(w) /\ v = Trunc(u, w)
  BY <1>1, <1>3, <1>4, ShiftIs
<1>6. Write(i, v, w)
  BY <1>2, <1>4 DEF ShiftBy
<1>7. w \in Nat /\ w <= W64
  BY <1>3, Widths
<1>8. Values' /\ I!Assign(i.dst, u, w)
  BY <1>3, <1>5, <1>6, <1>7, WriteIs
<1> QED
  BY <1>1, <1>2, <1>3, <1>4, <1>8 DEF I!Compute

(* A division                                                              *)
LEMMA DivideStep ==
  ASSUME Values, NEW i \in Instructions, Divide(i)
  PROVE  Values' /\ I!Compute(i)
<1>1. i.class = "alu" /\ i.op \in {"div", "mod", "sdiv", "smod"}
  BY DEF Divide
<1>2. PICK w, a, b : w = i.w /\ a = ReadReg(i.dst, i.w) /\ b = ReadALUSrcOperand(i.src, i.w)
  OBVIOUS
<1>3. /\ w \in Nat \ {0} /\ w \in {W32, W64} /\ i.dst \in Registers /\ a \in Word(w) /\ b \in Word(w)
      /\ a = I!Trunc(reg[i.dst], w) /\ b = I!Operand(i.src, w)
  BY <1>1, <1>2, AluOperands
<1>4. PICK v, u : v = Divided(i.op, a, b, w) /\ u = I!Arithmetic(i.op, a, b, w)
  OBVIOUS
<1>5. v \in Word(w) /\ v = Trunc(u, w)
  BY <1>1, <1>3, <1>4, DivideIs
<1>6. Write(i, v, w)
  BY <1>2, <1>4 DEF Divide
<1>7. w \in Nat /\ w <= W64
  BY <1>3, Widths
<1>8. Values' /\ I!Assign(i.dst, u, w)
  BY <1>3, <1>5, <1>6, <1>7, WriteIs
<1> QED
  BY <1>1, <1>2, <1>3, <1>4, <1>8 DEF I!Compute

(* The low bits of a negated register are those of its low bits negated.   *)
LEMMA NegStep ==
  ASSUME Values, NEW i \in Instructions, Neg(i)
  PROVE  Values' /\ I!Compute(i)
<1>1. i.class = "neg" /\ Encodable(i)
  BY LiftAssumption DEF Neg
<1>2. PICK w, x : w = i.w /\ x = reg[i.dst] /\ w \in {W32, W64} /\ i.dst \in Registers /\ x \in Int
  BY <1>1, RegisterIs DEF Encodable
<1>3. w \in Nat /\ w <= W64
  BY <1>2, Widths
<1>4. PICK p : p = 2^w /\ p \in Nat \ {0}
  BY <1>3, PowerPositive
<1>5. ReadReg(i.dst, w) = x % p
  BY <1>2, <1>4, ReadRegIs DEF Trunc
<1>6. PICK v : v = Binop("sub", 0, ReadReg(i.dst, w), w)
  OBVIOUS
<1>7. v = (0 - (x % p)) % p
  BY <1>4, <1>5, <1>6 DEF Binop, Trunc
<1>8. (0 - (x % p)) % p = (0 - x) % p
  <2>1. 0 \in Int
    OBVIOUS
  <2> QED
    BY <1>2, <1>4, <2>1, ModMod
<1>9. 0 - x = - x /\ - x \in Int
  BY <1>2
<1>10. v = Trunc(- x, w)
  BY <1>4, <1>7, <1>8, <1>9 DEF Trunc
<1>11. v \in Word(w)
  BY <1>3, <1>9, <1>10, TruncType
<1>12. Write(i, v, w)
  BY <1>2, <1>6 DEF Neg
<1>13. PICK u : u = - x
  OBVIOUS
<1>14. Values' /\ I!Assign(i.dst, u, w)
  BY <1>2, <1>3, <1>10, <1>11, <1>12, <1>13, WriteIs
<1> QED
  BY <1>1, <1>2, <1>13, <1>14 DEF I!Compute

(* A move                                                                  *)
LEMMA MovStep ==
  ASSUME Values, NEW i \in Instructions, Mov(i)
  PROVE  Values' /\ I!Compute(i)
<1>1. i.class = "mov" /\ Encodable(i)
  BY LiftAssumption DEF Mov
<1>2. PICK w, v : /\ w = i.w /\ v = ReadALUSrcOperand(i.src, i.w) /\ w \in {W32, W64}
                  /\ i.dst \in Registers /\ Source(i)
  BY <1>1 DEF Encodable
<1>3. w \in Nat /\ w <= W64
  BY <1>2, Widths
<1>4. v \in Word(w) /\ v = I!Operand(i.src, w)
  BY <1>2, OperandIs
<1>5. v = Trunc(v, w)
  BY <1>3, <1>4, TruncWord
<1>6. Write(i, v, w)
  BY <1>2 DEF Mov
<1>7. Values' /\ I!Assign(i.dst, v, w)
  BY <1>2, <1>3, <1>4, <1>5, <1>6, WriteIs
<1> QED
  BY <1>1, <1>2, <1>4, <1>7 DEF I!Compute

(* A move with sign extension: the source is read as wide as the result.   *)
LEMMA MovSxStep ==
  ASSUME Values, NEW i \in Instructions, MovSx(i)
  PROVE  Values' /\ I!Compute(i)
<1>1. i.class = "movsx" /\ Encodable(i)
  BY LiftAssumption DEF MovSx
<1>2. PICK w, n, r : /\ w = i.w /\ n = i.n /\ r = i.src[2] /\ w \in {W32, W64}
                     /\ n \in {W8, W16, W32} /\ n <= w
                     /\ i.dst \in Registers /\ r \in Registers /\ i.src[1] = "reg"
  BY <1>1 DEF Encodable, Source
<1>3. w \in Nat /\ w <= W64 /\ n \in Nat /\ n \in Nat \ {0}
  BY <1>2, Widths
<1>4. PICK x : x = reg[r] /\ x \in Int
  BY <1>2, RegisterIs
<1>5. Trunc(ReadReg(r, w), n) = Trunc(x, n)
  <2>1. ReadReg(r, w) = Trunc(x, w)
    BY <1>2, <1>4, ReadRegIs
  <2> QED
    BY <1>2, <1>3, <1>4, <2>1, TruncTrunc
<1>6. PICK a, u, v : a = Trunc(x, n) /\ u = Signed(a, n) /\ v = SExt(a, n, w) /\ a \in Word(n)
  BY <1>3, <1>4, TruncType
<1>7. v \in Word(w) /\ v = Trunc(u, w)
  <2>1. v \in Word(w)
    BY <1>3, <1>6, SExtWord
  <2> QED
    BY <1>6, <2>1 DEF SExt
<1>8. Write(i, v, w)
  BY <1>2, <1>5, <1>6 DEF MovSx
<1>9. Values' /\ I!Assign(i.dst, u, w)
  BY <1>2, <1>3, <1>7, <1>8, WriteIs
<1>10. u = I!Signed(I!Operand(i.src, i.n), i.n)
  <2>1. I!Operand(i.src, n) = a
    BY <1>2, <1>4, <1>6, IsaWords DEF I!Operand
  <2> QED
    BY <1>2, <1>6, <2>1, IsaWords
<1> QED
  BY <1>1, <1>2, <1>9, <1>10 DEF I!Compute

(* A change of the byte order                                              *)
LEMMA EndianStep ==
  ASSUME Values, NEW i \in Instructions, Endian(i)
  PROVE  Values' /\ I!Compute(i)
<1>1. i.class = "endian" /\ Encodable(i)
  BY LiftAssumption DEF Endian
<1>2. PICK n, x : /\ n = i.n /\ x = reg[i.dst] /\ n \in {W16, W32, W64}
                  /\ i.dst \in Registers /\ x \in Int /\ x \in Word(W64)
  BY <1>1, RegisterIs DEF Encodable
<1>3. n \in Nat /\ n <= W64 /\ n \in {W8, W16, W32, W64} /\ W64 \in Nat /\ W64 <= W64
  BY <1>2, Widths
<1>4. PICK a : a = Trunc(x, n) /\ a \in Word(n) /\ a \in Int
  BY <1>2, <1>3, TruncType, WordType
<1>5. Trunc(ReadReg(i.dst, W64), n) = a
  BY <1>2, <1>4 DEF ReadReg
<1>6. PICK v : v = IF i.op = "swap" THEN ByteSwap(a, n) ELSE a
  OBVIOUS
<1>7. v \in Word(n)
  <2>1. ByteSwap(a, n) \in Word(n)
    BY <1>3, <1>4, ByteSwapWord
  <2> QED
    BY <1>4, <1>6, <2>1
<1>8. v \in Word(W64) /\ v = Trunc(v, W64)
  <2>1. v \in Word(W64)
    BY <1>3, <1>7, WordGrows
  <2> QED
    BY <1>3, <2>1, TruncWord
<1>9. Write(i, v, W64)
  BY <1>2, <1>5, <1>6 DEF Endian
<1>10. Values' /\ I!Assign(i.dst, v, W64)
  BY <1>2, <1>3, <1>8, <1>9, WriteIs
<1>11. I!Trunc(reg[i.dst], i.n) = a /\ I!ByteSwap(a, i.n) = ByteSwap(a, n) /\ I!W64 = W64
  BY <1>2, <1>4, IsaWords
<1> QED
  BY <1>1, <1>6, <1>10, <1>11 DEF I!Compute

(* The address of an access, what it finds there and what it may leave     *)
(* there                                                                   *)
LEMMA AccessOperands ==
  ASSUME Values, NEW i \in Instructions, i.class \in {"load", "store", "atomic", "cmpxchg"},
         InMemory(GetMemPointerOperand(i), i.n)
  PROVE  /\ Encodable(i) /\ i.n \in {W8, W16, W32, W64} /\ i.n \in Nat \ {0}
         /\ GetMemPointerOperand(i) \in Int /\ GetMemPointerOperand(i) = I!Address(i)
         /\ I!InMemory(I!Address(i), i.n)
         /\ Fetch(mem, GetMemPointerOperand(i), i.n) \in Word(i.n)
         /\ Fetch(mem, GetMemPointerOperand(i), i.n) = I!Fetch(mem, I!Address(i), i.n)
         /\ \A v \in Int :
              /\ Put(mem, GetMemPointerOperand(i), i.n, v) \in [Addresses -> Word(Byte)]
              /\ Put(mem, GetMemPointerOperand(i), i.n, v) = I!Put(mem, I!Address(i), i.n, v)
<1>1. Encodable(i) /\ Addressed(i)
  BY LiftAssumption DEF Encodable
<1>2. PICK n, p : n = i.n /\ p = GetMemPointerOperand(i) /\ n \in {W8, W16, W32, W64}
  BY <1>1 DEF Addressed
<1>3. p \in Int /\ p = I!Address(i)
  BY <1>1, <1>2, AddressIs
<1>4. mem \in [Addresses -> Word(Byte)] /\ InMemory(p, n)
  BY <1>2 DEF Values
<1>5. Fetch(mem, p, n) \in Word(n)
  BY <1>2, <1>3, <1>4, FetchWord
<1>6. \A v \in Int : Put(mem, p, n, v) \in [Addresses -> Word(Byte)]
  BY <1>2, <1>3, <1>4, PutMemory
<1>7. n \in Nat \ {0}
  BY <1>2, Widths
<1> QED
  BY <1>1, <1>2, <1>3, <1>4, <1>5, <1>6, <1>7, IsaWords

(* A load; one that extends the sign fills the register.                   *)
LEMMA LoadStep ==
  ASSUME Values, NEW i \in Instructions, Load(i)
  PROVE  Values' /\ I!Access(i)
<1>1. i.class = "load" /\ InMemory(GetMemPointerOperand(i), i.n)
  BY DEF Load
<1>2. PICK n, p, old : n = i.n /\ p = GetMemPointerOperand(i) /\ old = Fetch(mem, p, n)
  OBVIOUS
<1>3. /\ Encodable(i) /\ n \in {W8, W16, W32, W64} /\ n \in Nat \ {0} /\ p = I!Address(i)
      /\ I!InMemory(I!Address(i), i.n) /\ old \in Word(n) /\ old = I!Fetch(mem, p, n)
  BY <1>1, <1>2, AccessOperands
<1>4. i.dst \in Registers /\ W64 \in Nat /\ W64 <= W64 /\ n \in Nat /\ n <= W64
  BY <1>1, <1>3, Widths DEF Encodable
<1>5. PICK u, v : /\ u = IF i.op = "sx" THEN Signed(old, n) ELSE old
                  /\ v = IF i.op = "sx" THEN SExt(old, n, W64) ELSE old
  OBVIOUS
<1>6. v \in Word(W64) /\ v = Trunc(u, W64)
  <2>1. CASE i.op = "sx"
    <3>1. SExt(old, n, W64) \in Word(W64)
      BY <1>3, <1>4, SExtWord
    <3> QED
      BY <1>5, <2>1, <3>1 DEF SExt
  <2>2. CASE i.op # "sx"
    <3>1. old \in Word(W64)
      BY <1>3, <1>4, WordGrows
    <3> QED
      BY <1>4, <1>5, <2>2, <3>1, TruncWord
  <2> QED
    BY <2>1, <2>2
<1>7. Write(i, v, i.w)
  BY <1>2, <1>5 DEF Load
<1>8. Values' /\ I!Assign(i.dst, u, W64)
  BY <1>4, <1>6, <1>7, WriteIs
<1>9. u = (IF i.op = "sx" THEN I!Signed(old, i.n) ELSE old) /\ I!W64 = W64
  BY <1>2, <1>5, IsaWords
<1> QED
  BY <1>1, <1>2, <1>3, <1>8, <1>9 DEF I!Access

(* A store leaves the register alone, and mem is m.                        *)
LEMMA StoreIs ==
  ASSUME Values, NEW r \in [Registers -> Word(W64)], NEW m \in [Addresses -> Word(Byte)],
         Emit(r, m, FALSE)
  PROVE  Values' /\ I!Becomes(r, m, FALSE)
BY DEF Emit, Values, I!Becomes

(* A store of a register or of an immediate, both cut to the width         *)
LEMMA StoreStep ==
  ASSUME Values, NEW i \in Instructions, Store(i)
  PROVE  Values' /\ I!Access(i)
<1>1. i.class = "store" /\ InMemory(GetMemPointerOperand(i), i.n)
  BY DEF Store
<1>2. PICK n, p : n = i.n /\ p = GetMemPointerOperand(i)
  OBVIOUS
<1>3. /\ Encodable(i) /\ n \in {W8, W16, W32, W64} /\ n \in Nat \ {0} /\ p = I!Address(i)
      /\ I!InMemory(I!Address(i), i.n)
      /\ \A v \in Int : /\ Put(mem, p, n, v) \in [Addresses -> Word(Byte)]
                        /\ Put(mem, p, n, v) = I!Put(mem, p, n, v)
  BY <1>1, <1>2, AccessOperands
<1>4. PICK w : w = i.w /\ w \in {W32, W64} /\ n <= w /\ Source(i)
  BY <1>1, <1>2, <1>3 DEF Encodable
<1>5. n \in Nat /\ w \in Nat /\ n <= W64 /\ W64 \in Nat
  BY <1>3, <1>4, Widths
<1>6. PICK v : v = I!Operand(i.src, n)
  OBVIOUS
<1>7. v \in Int /\ Emit(reg, Put(mem, p, n, v), FALSE)
  <2>1. CASE i.src[1] = "reg"
    <3>1. PICK r : r = i.src[2] /\ r \in Registers
      BY <1>4, <2>1 DEF Source
    <3>2. PICK x : x = reg[r] /\ x \in Int
      BY <3>1, RegisterIs
    <3>3. ReadReg(r, w) = Trunc(x, w)
      BY <1>4, <3>1, <3>2, ReadRegIs
    <3>4. Trunc(Trunc(x, w), n) = Trunc(x, n)
      BY <1>4, <1>5, <3>2, TruncTrunc
    <3>5. v = Trunc(x, n)
      BY <1>6, <2>1, <3>1, <3>2, IsaWords DEF I!Operand
    <3>6. v \in Int
      BY <1>5, <3>2, <3>5, TruncType, WordType
    <3> QED
      BY <1>2, <1>4, <2>1, <3>1, <3>3, <3>4, <3>5, <3>6 DEF Store
  <2>2. CASE i.src[1] = "imm"
    <3>1. PICK x : x = i.src[2] /\ x \in Int
      BY <1>4, <2>2 DEF Source
    <3>2. PICK y : y = Trunc(x, W64) /\ y \in Int
      BY <1>5, <3>1, TruncType, WordType
    <3>3. And(y, 2^n - 1, W64) = Trunc(y, n)
      BY <1>5, <3>2, Masked
    <3>4. Trunc(y, n) = Trunc(x, n)
      BY <1>5, <3>1, <3>2, TruncTrunc
    <3>5. v = Trunc(x, n)
      BY <1>6, <2>2, <3>1, IsaWords DEF I!Operand
    <3>6. v \in Int
      BY <1>5, <3>1, <3>5, TruncType, WordType
    <3> QED
      BY <1>2, <2>2, <3>1, <3>2, <3>3, <3>4, <3>5, <3>6 DEF Store
  <2> QED
    BY <1>4, <2>1, <2>2 DEF Source
<1>8. PICK m : m = Put(mem, p, n, v) /\ m \in [Addresses -> Word(Byte)] /\ m = I!Put(mem, p, n, v)
  BY <1>3, <1>7
<1>9. reg \in [Registers -> Word(W64)] /\ Emit(reg, m, FALSE)
  BY <1>7, <1>8 DEF Values
<1>10. Values' /\ I!Becomes(reg, m, FALSE)
  BY <1>8, <1>9, StoreIs
<1> QED
  BY <1>1, <1>2, <1>3, <1>6, <1>8, <1>10 DEF I!Access

(* A conditional branch                                                    *)
LEMMA BranchStep ==
  ASSUME Values, NEW i \in Instructions, CondBr(i) \/ JSet(i)
  PROVE  Values' /\ I!Jump(i)
<1>1. i.class = "jump" /\ Encodable(i)
  BY LiftAssumption DEF CondBr, JSet
<1>2. PICK w, a, b : w = i.w /\ a = ReadReg(i.dst, i.w) /\ b = ReadALUSrcOperand(i.src, i.w)
  OBVIOUS
<1>3. /\ w \in Nat \ {0} /\ a \in Word(w) /\ b \in Word(w)
      /\ a = I!Trunc(reg[i.dst], w) /\ b = I!Operand(i.src, w)
  BY <1>1, <1>2, AluOperands
<1>4. PICK t : t = I!Holds(i.op, a, b, w)
  OBVIOUS
<1>5. t \in BOOLEAN /\ Emit(reg, mem, t)
  <2>1. CASE CondBr(i)
    <3>1. i.op \in {"eq", "ne", "gt", "ge", "lt", "le", "sgt", "sge", "slt", "sle"}
      BY <1>1, <2>1 DEF CondBr, Encodable
    <3>2. ICmp(i.op, a, b, w) \in BOOLEAN /\ ICmp(i.op, a, b, w) = t
      BY <1>3, <1>4, <3>1, ICmpIs
    <3>3. Emit(reg, mem, ICmp(i.op, a, b, w))
      BY <1>2, <2>1 DEF CondBr
    <3> QED
      BY <3>2, <3>3
  <2>2. CASE JSet(i)
    <3>1. i.op = "set"
      BY <2>2 DEF JSet
    <3>2. PICK c : c = And(a, b, w)
      OBVIOUS
    <3>3. ICmp("ne", c, 0, w) \in BOOLEAN /\ ICmp("ne", c, 0, w) = t
      BY <1>3, <1>4, <3>1, <3>2, JSetIs
    <3>4. Emit(reg, mem, ICmp("ne", c, 0, w))
      BY <1>2, <2>2, <3>2 DEF JSet
    <3> QED
      BY <3>3, <3>4
  <2> QED
    BY <2>1, <2>2
<1>6. Values'
  BY <1>5 DEF Emit, Values
<1>7. I!Becomes(reg, mem, t)
  BY <1>5 DEF Emit, I!Becomes
<1> QED
  BY <1>1, <1>2, <1>3, <1>4, <1>6, <1>7 DEF I!Jump

(* An atomic operation, which writes the old value to its source if it     *)
(* fetches                                                                 *)
LEMMA AtomicStep ==
  ASSUME Values, NEW i \in Instructions, Atomic(i)
  PROVE  Values' /\ I!Access(i)
<1>1. i.class = "atomic" /\ InMemory(GetMemPointerOperand(i), i.n)
  BY DEF Atomic
<1>2. PICK n, p, old, val : /\ n = i.n /\ p = GetMemPointerOperand(i) /\ old = Fetch(mem, p, n)
                            /\ val = ReadReg(i.src[2], i.n)
  OBVIOUS
<1>3. /\ Encodable(i) /\ n \in Nat \ {0} /\ n \in Nat /\ p = I!Address(i)
      /\ I!InMemory(I!Address(i), i.n) /\ old \in Word(n) /\ old = I!Fetch(mem, p, n)
      /\ \A v \in Int : /\ Put(mem, p, n, v) \in [Addresses -> Word(Byte)]
                        /\ Put(mem, p, n, v) = I!Put(mem, p, n, v)
  BY <1>1, <1>2, AccessOperands
<1>4. /\ n \in {W32, W64} /\ i.dst \in Registers /\ i.src[1] = "reg" /\ i.src[2] \in Registers
      /\ i.op \in {"add", "and", "or", "xor", "xchg"} /\ i.fetch \in BOOLEAN
  BY <1>1, <1>2, <1>3 DEF Encodable, Source
<1>5. val \in Word(n) /\ val = I!Operand(i.src, n)
  <2>1. val = Trunc(reg[i.src[2]], n) /\ val \in Word(n)
    BY <1>2, <1>4, ReadRegIs
  <2> QED
    BY <1>4, <2>1, IsaWords DEF I!Operand
<1>6. PICK new, u : /\ new = IF i.op = "xchg" THEN val ELSE Binop(i.op, old, val, n)
                    /\ u = I!Arithmetic(i.op, old, val, n)
  OBVIOUS
<1>7. new \in Word(n) /\ new = I!Trunc(u, n)
  <2>1. CASE i.op = "xchg"
    <3>1. u = val
      BY <1>6, <2>1 DEF I!Arithmetic
    <3>2. Trunc(val, n) = val
      BY <1>3, <1>5, TruncWord
    <3> QED
      BY <1>5, <1>6, <2>1, <3>1, <3>2, IsaWords
  <2>2. CASE i.op # "xchg"
    <3>1. i.op \in {"add", "sub", "mul", "and", "or", "xor"}
      BY <1>4, <2>2
    <3>2. Binop(i.op, old, val, n) \in Word(n) /\ Binop(i.op, old, val, n) = Trunc(u, n)
      BY <1>3, <1>5, <1>6, <3>1, BinopIs
    <3> QED
      BY <1>6, <2>2, <3>2, IsaWords
  <2> QED
    BY <2>1, <2>2
<1>8. PICK m : m = Put(mem, p, n, new) /\ m \in [Addresses -> Word(Byte)] /\ m = I!Put(mem, p, n, new)
  <2>1. new \in Int
    BY <1>3, <1>7, WordType
  <2> QED
    BY <1>3, <2>1
<1>9. PICK r : r = (IF i.fetch THEN [reg EXCEPT ![i.dst] = old] ELSE reg) /\ r \in [Registers -> Word(W64)]
  <2>1. old \in Word(W64)
    BY <1>3, <1>4, Widths, WordGrows
  <2>2. reg \in [Registers -> Word(W64)]
    BY DEF Values
  <2>3. [reg EXCEPT ![i.dst] = old] \in [Registers -> Word(W64)]
    BY <2>1, <2>2
  <2> QED
    BY <2>2, <2>3
<1>10. Emit(r, m, FALSE)
  BY <1>2, <1>6, <1>8, <1>9 DEF Atomic, UpdateReg
<1>11. Values' /\ I!Becomes(r, m, FALSE)
  BY <1>8, <1>9, <1>10, StoreIs
<1> QED
  BY <1>1, <1>2, <1>3, <1>5, <1>6, <1>7, <1>8, <1>9, <1>11 DEF I!Access

(* A compare-and-exchange: r0 receives the old value in either case.       *)
LEMMA CmpXchgStep ==
  ASSUME Values, NEW i \in Instructions, CmpXchg(i)
  PROVE  Values' /\ I!Access(i)
<1>1. i.class = "cmpxchg" /\ InMemory(GetMemPointerOperand(i), i.n)
  BY DEF CmpXchg
<1>2. PICK n, p, old, val, expected :
        /\ n = i.n /\ p = GetMemPointerOperand(i) /\ old = Fetch(mem, p, n)
        /\ val = ReadReg(i.src[2], i.n) /\ expected = ReadReg(0, i.n)
  OBVIOUS
<1>3. /\ Encodable(i) /\ n \in Nat \ {0} /\ n \in Nat /\ p = I!Address(i)
      /\ I!InMemory(I!Address(i), i.n) /\ old \in Word(n) /\ old = I!Fetch(mem, p, n)
      /\ \A v \in Int : /\ Put(mem, p, n, v) \in [Addresses -> Word(Byte)]
                        /\ Put(mem, p, n, v) = I!Put(mem, p, n, v)
  BY <1>1, <1>2, AccessOperands
<1>4. n \in {W32, W64} /\ i.src[1] = "reg" /\ i.src[2] \in Registers /\ 0 \in Registers
  BY <1>1, <1>2, <1>3, LiftAssumption DEF Encodable, Source
<1>5. val \in Word(n) /\ val = I!Operand(i.src, n)
  <2>1. val = Trunc(reg[i.src[2]], n) /\ val \in Word(n)
    BY <1>2, <1>4, ReadRegIs
  <2> QED
    BY <1>4, <2>1, IsaWords DEF I!Operand
<1>6. expected = I!Trunc(reg[0], n)
  BY <1>2, <1>4, ReadRegIs, IsaWords
<1>7. PICK m : /\ m = IF old = expected THEN Put(mem, p, n, val) ELSE mem
               /\ m = IF old = expected THEN I!Put(mem, p, n, val) ELSE mem
               /\ m \in [Addresses -> Word(Byte)]
  <2>1. val \in Int
    BY <1>3, <1>5, WordType
  <2> QED
    BY <1>3, <2>1 DEF Values
<1>8. PICK r : r = [reg EXCEPT ![0] = old] /\ r \in [Registers -> Word(W64)]
  <2>1. old \in Word(W64)
    BY <1>3, <1>4, Widths, WordGrows
  <2>2. reg \in [Registers -> Word(W64)]
    BY DEF Values
  <2>3. [reg EXCEPT ![0] = old] \in [Registers -> Word(W64)]
    BY <2>1, <2>2
  <2> QED
    BY <2>3
<1>9. Emit(r, m, FALSE)
  BY <1>2, <1>7, <1>8 DEF CmpXchg, UpdateReg
<1>10. Values' /\ I!Becomes(r, m, FALSE)
  BY <1>7, <1>8, <1>9, StoreIs
<1> QED
  BY <1>1, <1>2, <1>3, <1>5, <1>6, <1>7, <1>8, <1>10 DEF I!Access

(* An instruction without effect                                           *)
LEMMA NopStep ==
  ASSUME Values, NEW i \in Instructions, Nop(i)
  PROVE  Values' /\ I!Nop(i)
<1>1. i.class = "nop" /\ Emit(reg, mem, FALSE)
  BY DEF Nop
<1>2. Values'
  BY <1>1 DEF Values, Emit
<1> QED
  BY <1>1, <1>2 DEF Emit, I!Nop, I!Becomes

(* A return leaves registers and memory as they are.                       *)
LEMMA ExitStep ==
  ASSUME Values, NEW i \in Instructions, Exit(i)
  PROVE  Values' /\ I!Halt(i)
BY DEF Values, Exit, I!Halt

(* Every instruction that is lifted is one of the instruction set.         *)
LEMMA LiftStep ==
  ASSUME Values, NEW i \in Instructions, Lift(i)
  PROVE  Values' /\ I!Next
<1>1. ~ halted /\ insn' = i
  BY DEF Lift, Lifting
<1>2. Values' /\ I!Execute(i)
  <2>1. Values' /\ (I!Compute(i) \/ I!Jump(i) \/ I!Access(i) \/ I!Nop(i) \/ I!Halt(i))
    <3>1. CASE Nop(i)
      BY <3>1, NopStep
    <3>2. CASE Alu(i)
      BY <3>2, AluStep
    <3>3. CASE ShiftBy(i)
      BY <3>3, ShiftByStep
    <3>4. CASE Divide(i)
      BY <3>4, DivideStep
    <3>5. CASE Neg(i)
      BY <3>5, NegStep
    <3>6. CASE Mov(i)
      BY <3>6, MovStep
    <3>7. CASE MovSx(i)
      BY <3>7, MovSxStep
    <3>8. CASE Endian(i)
      BY <3>8, EndianStep
    <3>9. CASE Load(i)
      BY <3>9, LoadStep
    <3>10. CASE Store(i)
      BY <3>10, StoreStep
    <3>11. CASE CondBr(i) \/ JSet(i)
      BY <3>11, BranchStep
    <3>12. CASE Atomic(i)
      BY <3>12, AtomicStep
    <3>13. CASE CmpXchg(i)
      BY <3>13, CmpXchgStep
    <3>14. CASE Exit(i)
      BY <3>14, ExitStep
    <3> QED
      BY <3>1, <3>2, <3>3, <3>4, <3>5, <3>6, <3>7, <3>8, <3>9, <3>10, <3>11, <3>12, <3>13, <3>14
      DEF Lift, Arithmetic, Moves, Memory, Branches, Atomics
  <2> QED
    BY <1>1, <2>1 DEF I!Execute
<1> QED
  BY <1>1, <1>2 DEF I!Next

-----------------------------------------------------------------------------
(* The theorems                                                            *)

(* Initial states are well typed.                                          *)
LEMMA InitTyped == Init => TypeOK
<1> SUFFICES ASSUME Init PROVE TypeOK
  OBVIOUS
<1>1. reg \in [Registers -> Word(W64)] /\ mem \in [Addresses -> Word(Byte)]
  BY LiftAssumption DEF Init
<1>2. 0 \in Word(W64) /\ 0 \in 0..MaxSteps
  <2>1. 2^W64 \in Nat \ {0}
    BY Widths, PowerPositive
  <2> QED
    BY <2>1, LiftAssumption DEF Word
<1>3. ret \in ReturnTypes
  BY DEF Init, ReturnTypes
<1> QED
  BY <1>1, <1>2, <1>3 DEF Init, TypeOK

(* What an exit returns is a word of the type's width.                     *)
LEMMA ReturnWord ==
  ASSUME NEW t \in ReturnTypes, t.w # 0, NEW r0 \in Word(W64)
  PROVE  DoReturn(t, r0) \in Word(W64)
<1>1. t.w \in Nat /\ t.w <= W64 /\ W32 \in Nat /\ W64 \in Nat /\ W32 <= W64 /\ W64 <= W64
  BY Widths DEF ReturnTypes
<1>2. PICK n : n = ActualRetWidth(t) /\ n \in Nat /\ n <= W64
  BY <1>1 DEF ActualRetWidth
<1>3. PICK v : v = Trunc(r0, n) /\ v \in Word(n) /\ v \in Int
  BY <1>1, <1>2, WordType, TruncType
<1>4. v \in Word(W64)
  BY <1>1, <1>2, <1>3, WordGrows
<1>5. Trunc(v, W32) \in Word(W64)
  <2>1. Trunc(v, W32) \in Word(W32)
    BY <1>1, <1>3, TruncType
  <2> QED
    BY <1>1, <2>1, WordGrows
<1> QED
  BY <1>2, <1>3, <1>4, <1>5 DEF DoReturn

(* Every register, byte of memory and returned value stays a number of its *)
(* width: no shift, division, access or return of the lifted code yields   *)
(* poison, whatever the instructions and their operands are.               *)
THEOREM TypeCorrect == Spec => []TypeOK
<1>1. ASSUME TypeOK, [Next]_vars PROVE TypeOK'
  <2>1. CASE UNCHANGED vars
    BY <1>1, <2>1 DEF TypeOK, vars
  <2>2. ASSUME NEW i \in Instructions, Lift(i) PROVE TypeOK'
    <3>1. Values
      BY <1>1 DEF TypeOK, Values
    <3>2. Values'
      BY <2>2, <3>1, LiftStep
    <3>3. insn' = i /\ steps \in 0..MaxSteps /\ steps < MaxSteps /\ MaxSteps \in Nat
      BY <1>1, <2>2, LiftAssumption DEF TypeOK, Lift, Lifting
    <3>4. /\ halted' \in BOOLEAN /\ refused' \in BOOLEAN /\ ret' \in ReturnTypes
          /\ returned' \in Word(W64) /\ steps' = steps + 1
      <4>1. CASE Exit(i)
        <5>1. PICK t \in ReturnTypes :
                ret' = t /\ returned' = IF t.w = 0 THEN 0 ELSE DoReturn(t, ReadReg(0, W64))
          BY <4>1 DEF Exit
        <5>2. ReadReg(0, W64) \in Word(W64)
          BY <3>1, LiftAssumption, ReadRegIs
        <5>3. 0 \in Word(W64)
          <6>1. 2^W64 \in Nat \ {0}
            BY Widths, PowerPositive
          <6> QED
            BY <6>1 DEF Word
        <5>4. returned' \in Word(W64)
          BY <5>1, <5>2, <5>3, ReturnWord
        <5> QED
          BY <1>1, <4>1, <5>1, <5>4 DEF Exit, TypeOK
      <4>2. CASE ~ Exit(i)
        <5>1. UNCHANGED <<halted, ret, returned, refused>> /\ steps' = steps + 1
          BY <2>2, <4>2
          DEF Lift, Arithmetic, Moves, Memory, Branches, Atomics, Nop, Alu, ShiftBy, Divide, Neg,
              Mov, MovSx, Endian, Load, Store, CondBr, JSet, Atomic, CmpXchg, Write, Emit
        <5> QED
          BY <1>1, <5>1 DEF TypeOK
      <4> QED
        BY <4>1, <4>2
    <3>5. steps' \in 0..MaxSteps
      BY <3>3, <3>4
    <3> QED
      BY <3>2, <3>3, <3>4, <3>5 DEF TypeOK, Values
  <2>3. ASSUME NEW i \in Instructions, VisitError(i) PROVE TypeOK'
    BY <1>1, <2>3 DEF TypeOK, VisitError
  <2> QED
    BY <1>1, <2>1, <2>2, <2>3 DEF Next, Done
<1> QED
  BY <1>1, InitTyped, PTL DEF Spec

(* The lifted code implements the instruction set: every instruction that  *)
(* it executes leaves the registers, the memory and the decision of a      *)
(* branch as the instruction set defines them, and everything else that    *)
(* lift does leaves them alone.                                            *)
THEOREM LiftImplementsIsa == Spec => FollowsIsa
<1>1. Init => I!Init
  <2> SUFFICES ASSUME Init PROVE I!Init
    OBVIOUS
  <2>1. reg \in [Registers -> Word(W64)] /\ mem \in [Addresses -> Word(Byte)]
    BY LiftAssumption DEF Init
  <2> QED
    BY <2>1, IsaWords DEF Init, I!Init, I!None
<1>2. ASSUME TypeOK, [Next]_vars PROVE [I!Next]_(I!vars)
  <2>1. CASE UNCHANGED vars
    BY <2>1 DEF vars, I!vars
  <2>2. ASSUME NEW i \in Instructions, Lift(i) PROVE I!Next
    <3>1. Values
      BY <1>2 DEF TypeOK, Values
    <3> QED
      BY <2>2, <3>1, LiftStep
  <2>3. ASSUME NEW i \in Instructions, VisitError(i) PROVE UNCHANGED I!vars
    BY <2>3 DEF VisitError, I!vars
  <2> QED
    BY <1>2, <2>1, <2>2, <2>3 DEF Next, Done
<1> QED
  BY <1>1, <1>2, TypeCorrect, PTL DEF Spec, FollowsIsa, I!Spec

-----------------------------------------------------------------------------
(* Returns, bit by bit                                                     *)

(* The low u bits of a register are a word if and only if they are its     *)
(* bits.                                                                   *)
LEMMA Agrees ==
  ASSUME NEW u \in Nat, u <= W64, NEW r0 \in Word(W64), NEW T \in Word(u)
  PROVE  Trunc(r0, u) = T <=> \A k \in 0..(u - 1) : k \in BitsOf(r0, W64) <=> k \in BitsOf(T, u)
<1>1. W64 \in Nat /\ r0 \in Int
  BY Widths, WordType
<1>2. Trunc(r0, u) \in Word(u) /\ BitsOf(Trunc(r0, u), u) = BitsOf(r0, u)
  BY <1>1, TruncType, LowBits
<1>3. ASSUME NEW k \in 0..(u - 1) PROVE k \in BitsOf(r0, W64) <=> k \in BitsOf(r0, u)
  <2>1. k \in 0..(W64 - 1)
    BY <1>1
  <2> QED
    BY <2>1 DEF BitsOf
<1>4. Trunc(r0, u) = T <=> BitsOf(r0, u) = BitsOf(T, u)
  BY <1>2, SameBits
<1>5. BitsOf(r0, u) \subseteq 0..(u - 1) /\ BitsOf(T, u) \subseteq 0..(u - 1)
  BY DEF BitsOf
<1>6. BitsOf(r0, u) = BitsOf(T, u) <=> \A k \in 0..(u - 1) : k \in BitsOf(r0, u) <=> k \in BitsOf(T, u)
  BY <1>5
<1> QED
  BY <1>3, <1>4, <1>6

(* Extending the sign repeats the highest bit.                             *)
LEMMA SExtBits ==
  ASSUME NEW w \in Nat \ {0}, NEW u \in Nat, w <= u, NEW v \in Word(w), NEW k \in 0..(u - 1)
  PROVE  k \in BitsOf(SExt(v, w, u), u) <=>
           IF k < w THEN k \in BitsOf(v, w) ELSE w - 1 \in BitsOf(v, w)
<1>1. PICK s : s = Signed(v, w) /\ s \in Int /\ - 2^(w - 1) <= s /\ s < 2^(w - 1) /\ Trunc(s, w) = v
  BY SignedValue
<1>2. PICK h, p : h = 2^(w - 1) /\ p = 2^w /\ h \in Nat \ {0} /\ p \in Nat \ {0} /\ p = 2 * h
  BY PowerHalf
<1>3. v \in 0..(p - 1) /\ v \in Int /\ w \in Nat /\ w - 1 \in 0..(w - 1) /\ k \in Nat
  BY <1>2 DEF Word
<1>4. BitsOf(SExt(v, w, u), u) = BitsOf(s, u)
  BY <1>1, LowBits DEF SExt
<1>5. k \in BitsOf(s, u) <=> (s \div 2^k) % 2 = 1
  BY DEF BitsOf
<1>6. CASE k < w
  <2>1. k \in 0..(w - 1)
    BY <1>3, <1>6
  <2>2. BitsOf(s, w) = BitsOf(v, w)
    BY <1>1, <1>3, LowBits
  <2>3. k \in BitsOf(s, w) <=> (s \div 2^k) % 2 = 1
    BY <2>1 DEF BitsOf
  <2> QED
    BY <1>4, <1>5, <1>6, <2>2, <2>3
<1>7. CASE ~ (k < w)
  <2>1. PICK q : q = 2^k /\ q \in Nat \ {0} /\ p <= q
    <3>1. w <= k
      BY <1>3, <1>7
    <3>2. 2^w <= 2^k
      BY <1>3, <3>1, PowerGrows
    <3> QED
      BY <1>2, <1>3, <3>2, PowerPositive
  <2>2. w - 1 \in BitsOf(v, w) <=> (v \div h) % 2 = 1
    BY <1>2, <1>3 DEF BitsOf
  <2>3. CASE v < h
    <3>1. v \div h = 0
      <4>1. v \in 0..(h - 1)
        BY <1>2, <1>3, <2>3
      <4> QED
        BY <1>2, <4>1, ModSmall
    <3>2. s = v
      BY <1>1, <1>2, <2>3 DEF Signed
    <3>3. s \div q = 0
      <4>1. s \in 0..(q - 1)
        BY <1>2, <1>3, <2>1, <3>2
      <4> QED
        BY <2>1, <4>1, ModSmall
    <3> QED
      BY <1>4, <1>5, <1>7, <2>1, <2>2, <3>1, <3>3
  <2>4. CASE ~ (v < h)
    <3>1. v \div h = 1
      <4>1. PICK r, n : r = v - h /\ n = 1 /\ r \in 0..(h - 1) /\ n \in Int /\ v = n * h + r
        BY <1>2, <1>3, <2>4
      <4> QED
        BY <1>2, <1>3, <4>1, DivUnique
    <3>2. s = v - p
      BY <1>1, <1>2, <2>4 DEF Signed
    <3>3. s \div q = -1
      <4>1. PICK r, n : r = s + q /\ n = -1 /\ r \in 0..(q - 1) /\ n \in Int /\ s = n * q + r
        BY <1>2, <1>3, <2>1, <3>2
      <4> QED
        BY <1>1, <2>1, <4>1, DivUnique
    <3>4. (s \div q) % 2 = 1 /\ 1 % 2 = 1
      <4>1. PICK n : n = s \div q /\ n \in Int /\ n + 1 = 0
        BY <3>3
      <4>2. n % 2 = 1
        BY <4>1
      <4> QED
        BY <4>1, <4>2
    <3> QED
      BY <1>4, <1>5, <1>7, <2>1, <2>2, <3>1, <3>4
  <2> QED
    BY <2>3, <2>4
<1> QED
  BY <1>6, <1>7

(* Extending with zeroes leaves the number as it is.                       *)
LEMMA ZExtBits ==
  ASSUME NEW w \in Nat \ {0}, NEW u \in Nat, w <= u, NEW v \in Word(w), NEW k \in 0..(u - 1)
  PROVE  k \in BitsOf(v, u) <=> k < w /\ k \in BitsOf(v, w)
<1>1. CASE k < w
  <2>1. k \in 0..(w - 1)
    BY <1>1
  <2> QED
    BY <1>1, <2>1 DEF BitsOf
<1>2. CASE w <= k
  <2>1. k \in Nat /\ w \in Nat
    OBVIOUS
  <2>2. (v \div 2^k) % 2 = 0
    BY <1>2, <2>1, HighBits
  <2>3. ~ (k < w)
    BY <1>2
  <2> QED
    BY <2>2, <2>3 DEF BitsOf
<1>3. k \in Int /\ w \in Int
  OBVIOUS
<1> QED
  BY <1>1, <1>2, <1>3

(* The three cases: a return that is not adjusted, one that is extended to 32 *)
(* bits, and one that is extended to 64.                                   *)
LEMMA ReturnObeys ==
  ASSUME NEW t \in ReturnTypes, t.w > 0, NEW r0 \in Word(W64), NEW v \in Word(t.w)
  PROVE  DoReturn(t, r0) = AdjustedReturn(t, v) <=> ObeysAbi(t, r0, v)
<1>1. PICK w : w = t.w /\ w \in Nat \ {0} /\ w \in Nat /\ w <= W64
  BY Widths DEF ReturnTypes
<1>2. t.ext \in {"none", "sext", "zext"}
  BY DEF ReturnTypes
<1>3. W32 \in Nat \ {0} /\ W64 \in Nat \ {0} /\ W32 < W64
  BY Widths
<1>4. CASE ~ Adjusted(t)
  <2>1. AdjustedReturn(t, v) = v /\ ActualRetWidth(t) = w
    BY <1>1, <1>4 DEF AdjustedReturn, ActualRetWidth
  <2>2. ~ (HasRetAttr(t) /\ w < W32)
    BY <1>1, <1>3, <1>4 DEF Adjusted
  <2>3. DoReturn(t, r0) = Trunc(r0, w)
    BY <1>1, <2>1, <2>2 DEF DoReturn
  <2>4. Trunc(r0, w) = v <=> \A k \in 0..(w - 1) : k \in BitsOf(r0, W64) <=> k \in BitsOf(v, w)
    BY <1>1, Agrees
  <2>5. \A k \in 0..(w - 1) : k < w
    BY <1>1
  <2>6. ObeysAbi(t, r0, v) <=> \A k \in 0..(w - 1) : k \in BitsOf(r0, W64) <=> k \in BitsOf(v, w)
    BY <1>1, <1>4, <2>5 DEF ObeysAbi
  <2> QED
    BY <2>1, <2>3, <2>4, <2>6
<1>5. CASE Adjusted(t)
  <2>1. PICK u : u = (IF w < W32 THEN W32 ELSE W64) /\ u \in Nat /\ w <= u /\ u <= W64
    BY <1>1, <1>3
  <2>2. HasRetAttr(t) /\ w # W32 /\ ActualRetWidth(t) = W64
    BY <1>1, <1>5 DEF Adjusted, ActualRetWidth
  <2>3. DoReturn(t, r0) = Trunc(r0, u)
    <3>1. Trunc(r0, W64) = r0
      BY <1>3, TruncWord
    <3> QED
      BY <1>1, <2>1, <2>2, <3>1 DEF DoReturn
  <2>4. PICK T : T = AdjustedReturn(t, v) /\ T = IF t.ext = "zext" THEN v ELSE SExt(v, w, u)
    BY <1>1, <1>2, <1>5, <2>1, <2>2 DEF AdjustedReturn, HasRetAttr
  <2>5. T \in Word(u)
    <3>1. v \in Word(u)
      BY <1>1, <2>1, WordGrows
    <3>2. SExt(v, w, u) \in Word(u)
      BY <1>1, <2>1, SExtWord
    <3> QED
      BY <2>4, <3>1, <3>2
  <2>6. ASSUME NEW k \in 0..(u - 1)
        PROVE  k \in BitsOf(T, u) <=> IF k < w THEN k \in BitsOf(v, w)
                                      ELSE t.ext = "sext" /\ w - 1 \in BitsOf(v, w)
    <3>1. CASE t.ext = "zext"
      BY <1>1, <2>1, <2>4, <3>1, ZExtBits
    <3>2. CASE t.ext = "sext"
      BY <1>1, <2>1, <2>4, <3>2, SExtBits
    <3> QED
      BY <1>2, <2>2, <3>1, <3>2 DEF HasRetAttr
  <2>7. Trunc(r0, u) = T <=> \A k \in 0..(u - 1) : k \in BitsOf(r0, W64) <=> k \in BitsOf(T, u)
    BY <2>1, <2>5, Agrees
  <2>8. ObeysAbi(t, r0, v) <=>
          \A k \in 0..(u - 1) :
            k \in BitsOf(r0, W64) <=> IF k < w THEN k \in BitsOf(v, w)
                                      ELSE t.ext = "sext" /\ w - 1 \in BitsOf(v, w)
    BY <1>1, <1>5, <2>1 DEF ObeysAbi
  <2> QED
    BY <2>3, <2>4, <2>6, <2>7, <2>8
<1> QED
  BY <1>4, <1>5

(* Once the lifted function has returned, it has returned r0.              *)
Returned == halted /\ ret.w > 0 => returned = DoReturn(ret, reg[0])

(* adjustSrc and doReturn compare exactly what the ABI fixes, for every    *)
(* return type, every value and every content of r0.                       *)
THEOREM ReturnsAreExact == Spec => []ReturnExact
<1>1. Init => Returned
  BY DEF Init, Returned
<1>2. ASSUME TypeOK, Returned, [Next]_vars PROVE Returned'
  <2>1. CASE UNCHANGED vars
    BY <1>2, <2>1 DEF Returned, vars
  <2>2. ASSUME NEW i \in Instructions, Lift(i) PROVE Returned'
    <3>1. CASE Exit(i)
      <4>1. PICK t \in ReturnTypes :
              ret' = t /\ returned' = IF t.w = 0 THEN 0 ELSE DoReturn(t, ReadReg(0, W64))
        BY <3>1 DEF Exit
      <4>2. ReadReg(0, W64) = reg[0] /\ reg' = reg
        BY <3>1 DEF ReadReg, Exit
      <4>3. ret'.w > 0 => ret'.w # 0
        OBVIOUS
      <4> QED
        BY <4>1, <4>2, <4>3 DEF Returned
    <3>2. CASE ~ Exit(i)
      <4>1. ~ halted /\ UNCHANGED halted
        BY <2>2, <3>2
        DEF Lift, Lifting, Arithmetic, Moves, Memory, Branches, Atomics, Nop, Alu, ShiftBy, Divide,
            Neg, Mov, MovSx, Endian, Load, Store, CondBr, JSet, Atomic, CmpXchg, Write, Emit
      <4> QED
        BY <4>1 DEF Returned
    <3> QED
      BY <3>1, <3>2
  <2>3. ASSUME NEW i \in Instructions, VisitError(i) PROVE Returned'
    BY <1>2, <2>3 DEF Returned, VisitError
  <2> QED
    BY <1>2, <2>1, <2>2, <2>3 DEF Next, Done
<1>3. ASSUME TypeOK, Returned PROVE ReturnExact
  <2> SUFFICES ASSUME halted, ret.w > 0, NEW v \in Word(ret.w)
      PROVE  returned = AdjustedReturn(ret, v) <=> ObeysAbi(ret, reg[0], v)
    BY DEF ReturnExact
  <2>1. PICK t, r0 : t = ret /\ r0 = reg[0] /\ t \in ReturnTypes /\ r0 \in Word(W64)
    BY <1>3, LiftAssumption DEF TypeOK
  <2>2. DoReturn(t, r0) = AdjustedReturn(t, v) <=> ObeysAbi(t, r0, v)
    BY <2>1, ReturnObeys
  <2> QED
    BY <1>3, <2>1, <2>2 DEF Returned
<1> QED
  BY <1>1, <1>2, <1>3, TypeCorrect, PTL DEF Spec
=============================================================================
