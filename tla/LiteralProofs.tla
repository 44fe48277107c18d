----------------------------- MODULE LiteralProofs -----------------------------
(***************************************************************************)
(* Proofs about the operators of Literal::evaluate: powers of two, bits,   *)
(* sums of powers and folds; then, for literals of any size, the kind of a *)
(* value, that a bit-vector stays below the power of its width, and what   *)
(* negation, complement, concatenation, extract and division make.         *)
(***************************************************************************)
EXTENDS LiteralOps, TLAPS, SequenceTheorems, FiniteSetTheorems, NaturalsInduction,
        WellFoundedInduction

-----------------------------------------------------------------------------
(* Powers of two, division and bits *)

(* Induction: a set of numbers with zero and every successor has all.      *)
LEMMA Inductive ==
    ASSUME NEW S, 0 \in S, \A n \in Nat : n \in S => n + 1 \in S
    PROVE  \A n \in Nat : n \in S
<1> DEFINE T == Nat \ S
<1>1. SUFFICES ASSUME T # {} PROVE FALSE
  OBVIOUS
<1>2. IsWellFoundedOn(OpToRel(<, Nat), Nat)
  BY NatLessThanWellFounded
<1>3. PICK m \in T : \A k \in T : ~(<<k, m>> \in OpToRel(<, Nat))
  BY <1>1, <1>2, WFMin
<1>4. \A k \in T : ~(k < m)
  BY <1>3 DEF OpToRel
<1>5. m \in Nat /\ m \notin S
  OBVIOUS
<1>6. m # 0
  BY <1>5
<1>7. PICK n \in Nat : m = n + 1
  <2>1. m - 1 \in Nat /\ m = (m - 1) + 1
    BY <1>5, <1>6, SMT
  <2>2. QED
    BY <2>1
<1>8. n \in S
  <2>1. n < m
    BY <1>7
  <2>2. QED
    BY <1>4, <2>1
<1>9. QED
  BY <1>5, <1>7, <1>8

(* Powers of two count subsets.                                            *)
LEMMA PowerCounts ==
    ASSUME NEW n \in Nat
    PROVE  IsFiniteSet(SUBSET (1 .. n)) /\ Cardinality(SUBSET (1 .. n)) = 2 ^ n
<1>1. IsFiniteSet(1 .. n) /\ Cardinality(1 .. n) = n
  BY FS_Interval
<1>2. QED
  BY <1>1, FS_SUBSET

(* A power of two is a positive natural number.                            *)
LEMMA PowerType ==
    ASSUME NEW n \in Nat
    PROVE  2 ^ n \in Nat /\ 2 ^ n >= 1
<1>1. 2 ^ n \in Nat
  BY PowerCounts, FS_CardinalityType
<1>2. Cardinality(SUBSET (1 .. n)) # 0
  <2>1. {} \in SUBSET (1 .. n)
    OBVIOUS
  <2>2. QED
    BY <2>1, PowerCounts, FS_EmptySet
<1>3. QED
  BY <1>1, <1>2, PowerCounts

(* The first power of two.                                                 *)
LEMMA PowerZero == 2 ^ 0 = 1
<1>1. SUBSET (1 .. 0) = {{}}
  OBVIOUS
<1>2. QED
  BY <1>1, PowerCounts, FS_Singleton

(* The next power of two is twice the last.                                *)
LEMMA PowerNext ==
    ASSUME NEW n \in Nat
    PROVE  2 ^ (n + 1) = 2 * 2 ^ n
<1> DEFINE A == SUBSET (1 .. n)
           B == {T \cup {n + 1} : T \in A}
           f == [T \in A |-> T \cup {n + 1}]
<1>1. SUBSET (1 .. n + 1) = A \cup B
  <2>1. ASSUME NEW T \in SUBSET (1 .. n + 1) PROVE T \in A \cup B
    <3>1. CASE n + 1 \in T
      <4>1. T \ {n + 1} \in A /\ T = (T \ {n + 1}) \cup {n + 1}
        BY <3>1
      <4>2. QED
        BY <4>1
    <3>2. CASE n + 1 \notin T
      BY <3>2
    <3>3. QED
      BY <3>1, <3>2
  <2>2. A \cup B \subseteq SUBSET (1 .. n + 1)
    <3>1. 1 .. n \subseteq 1 .. n + 1 /\ n + 1 \in 1 .. n + 1
      OBVIOUS
    <3>2. QED
      BY <3>1
  <2>3. QED
    BY <2>1, <2>2
<1>2. f \in Bijection(A, B)
  <2>1. f \in [A -> B]
    OBVIOUS
  <2>2. \A T, U \in A : f[T] = f[U] => T = U
    <3>1. SUFFICES ASSUME NEW T \in A, NEW U \in A, f[T] = f[U] PROVE T = U
      OBVIOUS
    <3>2. T \cup {n + 1} = U \cup {n + 1}
      BY <3>1
    <3>3. n + 1 \notin T /\ n + 1 \notin U
      OBVIOUS
    <3>4. QED
      BY <3>2, <3>3
  <2>3. \A T \in B : \E U \in A : f[U] = T
    OBVIOUS
  <2>4. QED
    BY <2>1, <2>2, <2>3 DEF Bijection, Injection, Surjection, IsInjective
<1>3. IsFiniteSet(A) /\ Cardinality(A) = 2 ^ n
  BY PowerCounts
<1>4. IsFiniteSet(B) /\ Cardinality(B) = 2 ^ n
  BY <1>2, <1>3, FS_Bijection DEF ExistsBijection
<1>5. A \cap B = {}
  OBVIOUS
<1>6. Cardinality(A \cup B) = 2 ^ n + 2 ^ n - 0
  <2>1. Cardinality(A \cup B) = Cardinality(A) + Cardinality(B) - Cardinality(A \cap B)
    <3> HIDE DEF A, B
    <3>1. QED
      BY <1>3, <1>4, FS_Union
  <2>2. Cardinality(A \cap B) = 0
    BY <1>5, FS_EmptySet
  <2>3. QED
    BY <1>3, <1>4, <2>1, <2>2
<1>7. Cardinality(A \cup B) = 2 ^ (n + 1)
  BY <1>1, PowerCounts, n + 1 \in Nat
<1>8. QED
  BY <1>6, <1>7, PowerType

(* Exponents add.                                                          *)
LEMMA PowerSum ==
    ASSUME NEW m \in Nat, NEW n \in Nat
    PROVE  2 ^ (m + n) = 2 ^ m * 2 ^ n
<1> DEFINE S == {k \in Nat : 2 ^ (m + k) = 2 ^ m * 2 ^ k}
<1>1. 0 \in S
  BY PowerZero, PowerType
<1>2. ASSUME NEW k \in Nat, k \in S PROVE k + 1 \in S
  <2>1. 2 ^ (m + k) = 2 ^ m * 2 ^ k
    BY <1>2
  <2>2. PICK p \in Nat : p = m + k
    OBVIOUS
  <2>3. 2 ^ (p + 1) = 2 * 2 ^ p /\ 2 ^ (k + 1) = 2 * 2 ^ k
    BY PowerNext
  <2>4. PICK x, y, z \in Nat : x = 2 ^ m /\ y = 2 ^ k /\ z = 2 ^ p
    BY PowerType
  <2>5. 2 * (x * y) = x * (2 * y)
    OBVIOUS
  <2>6. 2 ^ (p + 1) = 2 ^ m * 2 ^ (k + 1)
    BY <2>1, <2>2, <2>3, <2>4, <2>5
  <2>7. QED
    BY <2>2, <2>6
<1>3. n \in S
  BY <1>1, <1>2, Inductive
<1>4. QED
  BY <1>3

(* The types and bounds of quotient and remainder.                         *)
LEMMA DivMod ==
    ASSUME NEW x \in Int, NEW d \in Nat, d >= 1
    PROVE  /\ x \div d \in Int /\ x % d \in 0 .. d - 1 /\ x = d * (x \div d) + (x % d)
           /\ x >= 0 => x \div d \in Nat
<1>1. x % d \in 0 .. d - 1
  OBVIOUS
<1>2. PICK q, r : q = x \div d /\ r = x % d
  OBVIOUS
<1>3. q \in Int
  BY <1>2
<1>4. x = d * q + r
  BY <1>2
<1>5. x >= 0 => q >= 0
  <2>1. CASE q <= -1 /\ x >= 0
    <3>1. d * q <= -d
      BY <1>3, <2>1
    <3>2. QED
      BY <1>1, <1>2, <1>3, <1>4, <2>1, <3>1
  <2>2. QED
    BY <1>3, <2>1
<1>6. QED
  BY <1>1, <1>2, <1>3, <1>4, <1>5

(* Quotient and remainder of natural numbers recompose the dividend.       *)
Divided(x, d) == \E q, r \in Nat : r < d /\ q = x \div d /\ r = x % d /\ x = d * q + r

(* Natural numbers divide into quotient and remainder.                     *)
LEMMA Division ==
    ASSUME NEW x \in Nat, NEW d \in Nat, d >= 1
    PROVE  Divided(x, d)
<1>1. PICK q, r : q = x \div d /\ r = x % d
  OBVIOUS
<1>2. q \in Nat /\ r \in Nat /\ r < d
  BY <1>1, DivMod
<1>3. x = d * q + r
  BY <1>1, DivMod
<1>4. QED
  BY <1>1, <1>2, <1>3 DEF Divided

(* Quotient and remainder are the only ones that recompose.                *)
LEMMA DivUnique ==
    ASSUME NEW x \in Int, NEW d \in Nat, d >= 1, NEW q \in Int, NEW r \in Nat, r < d, x = d * q + r
    PROVE  x \div d = q /\ x % d = r
<1>1. PICK u \in Int, v \in Nat : v < d /\ u = x \div d /\ v = x % d
  BY DivMod
<1>2. x = d * u + v
  BY <1>1, DivMod
<1>3. d * u + v = d * q + r
  BY <1>2
<1>4. d * (u - q) = r - v
  <2>1. d * (u - q) = d * u - d * q /\ d * u \in Int /\ d * q \in Int
    OBVIOUS
  <2>2. QED
    BY <1>3, <2>1
<1>5. u = q
  <2>1. CASE u - q >= 1
    <3>1. d * (u - q) >= d
      BY <2>1
    <3>2. r - v < d /\ r - v > -d
      BY <1>1
    <3>3. QED
      BY <1>4, <3>1, <3>2
  <2>2. CASE u - q <= -1
    <3>1. d * (u - q) <= -d
      BY <2>2
    <3>2. r - v < d /\ r - v > -d
      BY <1>1
    <3>3. QED
      BY <1>4, <3>1, <3>2
  <2>3. QED
    BY <2>1, <2>2
<1>6. v = r
  BY <1>3, <1>5
<1>7. QED
  BY <1>1, <1>5, <1>6

(* The bit at position i                                                   *)
Bit(x, i) == (x \div 2 ^ i) % 2

(* x is a number of k bits, b, below another one, a.                       *)
Joined(x, a, k, b) == b < 2 ^ k /\ x = a * 2 ^ k + b

(* Neither of the two changes the other.                                   *)
LEMMA LowerBits ==
    ASSUME NEW x \in Nat, NEW a \in Nat, NEW k \in Nat, NEW b \in Nat, Joined(x, a, k, b),
           NEW i \in Nat, i < k
    PROVE  Bit(x, i) = Bit(b, i)
<1>b. PICK m : m = 2 ^ k
  OBVIOUS
<1>c. b < m /\ x = a * m + b
  BY <1>b DEF Joined
<1>1. PICK p, c \in Nat : p = 2 ^ i /\ c = 2 ^ (k - i - 1) /\ m \in Nat
  BY <1>b, PowerType, k - i - 1 \in Nat
<1>2. p >= 1
  BY <1>1, PowerType
<1>3. m = 2 * (c * p)
  <2>1. PICK h \in Nat : h = k - i - 1
    OBVIOUS
  <2>2. i + (h + 1) = k /\ h + 1 \in Nat
    BY <2>1
  <2>3. 2 ^ k = 2 ^ i * 2 ^ (h + 1)
    BY <2>2, PowerSum
  <2>4. m = p * (2 * c)
    BY <1>1, <1>b, <2>1, <2>3, PowerNext
  <2>5. QED
    BY <2>4
<1>d. Divided(b, p)
  BY <1>2, Division
<1>4. PICK q, r \in Nat : r < p /\ q = b \div p /\ b = p * q + r
  BY <1>d DEF Divided
<1>6. PICK u \in Nat : u = a * c
  OBVIOUS
<1>7. x = p * (2 * u + q) + r
  <2>1. a * m = p * (2 * u)
    BY <1>3, <1>6
  <2>2. p * (2 * u + q) = p * (2 * u) + p * q
    OBVIOUS
  <2>3. p * (2 * u) \in Nat /\ p * q \in Nat
    OBVIOUS
  <2>4. QED
    BY <1>c, <1>4, <2>1, <2>2, <2>3
<1>8. x \div p = 2 * u + q
  <2>1. PICK v \in Nat : v = 2 * u + q
    OBVIOUS
  <2>2. x = p * v + r
    BY <1>7, <2>1
  <2>3. x \div p = v
    <3>1. x \in Int /\ r < p
      BY <1>4
    <3>2. QED
      BY <1>2, <2>2, <3>1, DivUnique
  <2>4. QED
    BY <2>1, <2>3
<1>9. (2 * u + q) % 2 = q % 2
  OBVIOUS
<1>10. QED
  BY <1>1, <1>4, <1>8, <1>9 DEF Bit

(* The upper bits of two numbers side by side are those of the first.      *)
LEMMA UpperBits ==
    ASSUME NEW x \in Nat, NEW a \in Nat, NEW k \in Nat, NEW b \in Nat, Joined(x, a, k, b),
           NEW i \in Nat
    PROVE  Bit(x, k + i) = Bit(a, i)
<1>b. PICK m \in Nat, p \in Nat : m = 2 ^ k /\ p = 2 ^ (k + i)
  BY PowerType, k + i \in Nat
<1>c. b < m /\ x = a * m + b
  BY <1>b DEF Joined
<1>1. PICK c \in Nat : c = 2 ^ i /\ m \in Nat /\ p \in Nat
  BY <1>b, PowerType, k + i \in Nat
<1>2. p >= 1 /\ c >= 1
  BY <1>1, <1>b, PowerType, k + i \in Nat
<1>3. p = m * c
  BY <1>b, <1>1, PowerSum
<1>4. PICK q, r \in Nat : r < c /\ q = a \div c /\ a = c * q + r
  BY <1>2, Division DEF Divided
<1>6. PICK s \in Nat : s = m * r + b
  BY <1>1
<1>7. s < p
  <2>1. b < m
    BY <1>c
  <2>2. m * r <= m * (c - 1)
    BY <1>1, <1>2, <1>4
  <2>3. m * (c - 1) = m * c - m
    OBVIOUS
  <2>4. m * r \in Int /\ m * c \in Int
    OBVIOUS
  <2>5. QED
    BY <1>1, <1>3, <1>6, <2>1, <2>2, <2>3, <2>4
<1>8. x = p * q + s
  <2>1. a * m = (c * q) * m + r * m
    <3>1. PICK z \in Nat : z = c * q
      OBVIOUS
    <3>2. a = z + r
      BY <1>4, <3>1
    <3>3. (z + r) * m = z * m + r * m
      OBVIOUS
    <3>4. QED
      BY <3>1, <3>2, <3>3
  <2>2. (c * q) * m = p * q /\ r * m = m * r
    BY <1>3
  <2>3. p * q \in Int /\ m * r \in Int
    OBVIOUS
  <2>4. QED
    BY <1>c, <1>6, <2>1, <2>2, <2>3
<1>9. x \div p = q
  BY <1>1, <1>2, <1>7, <1>8, DivUnique
<1>10. QED
  BY <1>1, <1>b, <1>4, <1>9 DEF Bit

(* The bits of the complement are those that are not set.                  *)
LEMMA ComplementBits ==
    ASSUME NEW w \in Nat, NEW a \in 0 .. 2 ^ w - 1, NEW i \in 0 .. w - 1
    PROVE  Bit(2 ^ w - 1 - a, i) = 1 - Bit(a, i)
<1>1. PICK p \in Nat, c \in Nat, m \in Nat : p = 2 ^ i /\ c = 2 ^ (w - i - 1) /\ m = 2 ^ w
  BY PowerType, w - i - 1 \in Nat
<1>2. p >= 1
  BY <1>1, PowerType
<1>3. m = p * (2 * c)
  <2>1. PICK h \in Nat : h = w - i - 1
    OBVIOUS
  <2>2. i + (h + 1) = w /\ h + 1 \in Nat
    BY <2>1
  <2>3. 2 ^ w = 2 ^ i * 2 ^ (h + 1)
    <3>1. \A j, n \in Nat : 2 ^ (j + n) = 2 ^ j * 2 ^ n
      BY PowerSum
    <3>2. i \in Nat
      OBVIOUS
    <3>3. 2 ^ (i + (h + 1)) = 2 ^ i * 2 ^ (h + 1)
      BY <2>2, <3>1, <3>2
    <3>4. QED
      BY <2>2, <3>3
  <2>4. QED
    BY <1>1, <2>1, <2>3, PowerNext
<1>4. PICK q \in Nat, r \in 0 .. p - 1 : q = a \div p /\ a = p * q + r
  BY <1>1, <1>2, DivMod, a \in Nat
<1>5. PICK x \in Int : x = m - 1 - a
  BY <1>1
<1>6. x = p * (2 * c - 1 - q) + (p - 1 - r)
  <2>1. p * (2 * c - 1 - q) = p * (2 * c) - p - p * q
    OBVIOUS
  <2>2. p * (2 * c) \in Int /\ p * q \in Int
    OBVIOUS
  <2>3. QED
    BY <1>3, <1>4, <1>5, <2>1, <2>2
<1>7. x \div p = 2 * c - 1 - q
  <2>1. PICK u \in Int, v \in Nat : u = 2 * c - 1 - q /\ v = p - 1 - r
    OBVIOUS
  <2>2. v < p
    BY <1>2, <2>1
  <2>3. QED
    BY <1>2, <1>6, <2>1, <2>2, DivUnique
<1>8. (2 * c - 1 - q) % 2 = 1 - (q % 2)
  OBVIOUS
<1>9. Bit(x, i) = (2 * c - 1 - q) % 2 /\ Bit(a, i) = q % 2
  BY <1>1, <1>4, <1>7 DEF Bit
<1>10. x = 2 ^ w - 1 - a
  BY <1>1, <1>5
<1>11. QED
  BY <1>8, <1>9, <1>10

(* A remainder by a power of two keeps the bits below it.                  *)
LEMMA BitBelow ==
    ASSUME NEW x \in Nat, NEW k \in Nat, NEW i \in Nat, i < k
    PROVE  Bit(x % 2 ^ k, i) = Bit(x, i)
<1>1. PICK m \in Nat : m = 2 ^ k /\ m >= 1
  BY PowerType
<1>2. PICK q, r \in Nat : r < m /\ q = x \div m /\ r = x % m /\ x = m * q + r
  BY <1>1, Division DEF Divided
<1>3. x = q * m + r
  BY <1>2
<1>a. Joined(x, q, k, r)
  BY <1>1, <1>2, <1>3 DEF Joined
<1>4. Bit(x, i) = Bit(r, i)
  BY <1>a, LowerBits
<1>5. QED
  BY <1>1, <1>2, <1>4

(* A quotient by a power of two keeps the bits from it on.                 *)
LEMMA BitAbove ==
    ASSUME NEW x \in Nat, NEW k \in Nat, NEW i \in Nat
    PROVE  Bit(x \div 2 ^ k, i) = Bit(x, k + i)
<1>1. PICK m \in Nat : m = 2 ^ k /\ m >= 1
  BY PowerType
<1>2. PICK q, r \in Nat : r < m /\ q = x \div m /\ r = x % m /\ x = m * q + r
  BY <1>1, Division DEF Divided
<1>3. x = q * m + r
  BY <1>2
<1>4. Joined(x, q, k, r)
  BY <1>1, <1>2, <1>3 DEF Joined
<1>5. Bit(x, k + i) = Bit(q, i)
  BY <1>4, UpperBits
<1>6. QED
  BY <1>1, <1>2, <1>5

-----------------------------------------------------------------------------
(* Sums of sets *)

(* The element that a fold over a set takes first.                         *)
Pick(s) == CHOOSE x \in s : TRUE

(* How SumSet sums the subsets of a set.                                   *)
Sums(iter, subsets) ==
    iter = [s \in subsets |-> IF s = {} THEN 0 ELSE Pick(s) + iter[s \ {Pick(s)}]]

(* The subsets of S with at most n elements.                               *)
UpTo(S, n) == {s \in SUBSET S : Cardinality(s) <= n}

(* The element taken is one of the set, which is smaller without it.       *)
LEMMA Picked ==
    ASSUME NEW S, IsFiniteSet(S), NEW s \in SUBSET S, s # {}
    PROVE  /\ Pick(s) \in s /\ s \ {Pick(s)} \in SUBSET S
           /\ IsFiniteSet(s) /\ Cardinality(s) \in Nat
           /\ Cardinality(s \ {Pick(s)}) = Cardinality(s) - 1
<1>1. Pick(s) \in s
  BY DEF Pick
<1>2. IsFiniteSet(s)
  BY FS_Subset
<1>3. QED
  BY <1>1, <1>2, FS_RemoveElement, FS_CardinalityType

(* Subsets grow with their size, up to the whole set.                      *)
LEMMA UpToFacts ==
    ASSUME NEW S, IsFiniteSet(S), NEW n \in Nat
    PROVE  /\ \A s \in UpTo(S, 0) : s = {}
           /\ \A s \in UpTo(S, n + 1) : s # {} =>
                 /\ s \in SUBSET S /\ Pick(s) \in s
                 /\ s \ {Pick(s)} \in UpTo(S, n) /\ s \ {Pick(s)} \in UpTo(S, n + 1)
           /\ UpTo(S, Cardinality(S)) = SUBSET S /\ Cardinality(S) \in Nat
<1>1. ASSUME NEW s \in UpTo(S, 0), s # {} PROVE FALSE
  <2>1. s \in SUBSET S /\ Cardinality(s) <= 0
    BY DEF UpTo
  <2>2. IsFiniteSet(s) /\ Cardinality(s) \in Nat
    BY <2>1, FS_Subset, FS_CardinalityType
  <2>3. Cardinality(s) = 0
    BY <2>1, <2>2
  <2>4. QED
    BY <1>1, <2>2, <2>3, FS_EmptySet
<1>2. ASSUME NEW s \in UpTo(S, n + 1), s # {}
      PROVE  /\ s \in SUBSET S /\ Pick(s) \in s
             /\ s \ {Pick(s)} \in UpTo(S, n) /\ s \ {Pick(s)} \in UpTo(S, n + 1)
  <2>1. s \in SUBSET S /\ Cardinality(s) <= n + 1
    BY DEF UpTo
  <2>2. PICK t : t = s \ {Pick(s)}
    OBVIOUS
  <2>3. /\ Pick(s) \in s /\ t \in SUBSET S
        /\ Cardinality(s) \in Nat /\ Cardinality(t) = Cardinality(s) - 1
    BY <1>2, <2>1, <2>2, Picked
  <2>4. Cardinality(t) <= n /\ Cardinality(t) <= n + 1
    BY <2>1, <2>3
  <2>5. QED
    BY <2>1, <2>2, <2>3, <2>4 DEF UpTo
<1>3. UpTo(S, Cardinality(S)) = SUBSET S
  BY FS_Subset DEF UpTo
<1>4. QED
  BY <1>1, <1>2, <1>3, FS_CardinalityType

(* On the subsets of each size there is a function that sums.              *)
LEMMA SumsUpTo ==
    ASSUME NEW S, IsFiniteSet(S)
    PROVE  \A n \in Nat : \E g : Sums(g, UpTo(S, n))
<1> DEFINE T == {n \in Nat : \E g : Sums(g, UpTo(S, n))}
<1>1. 0 \in T
  <2>1. \A s \in UpTo(S, 0) : s = {}
    BY UpToFacts
  <2>2. PICK g : g = [s \in UpTo(S, 0) |-> 0]
    OBVIOUS
  <2>3. Sums(g, UpTo(S, 0))
    BY <2>1, <2>2 DEF Sums
  <2>4. QED
    BY <2>3
<1>2. ASSUME NEW n \in Nat, n \in T PROVE n + 1 \in T
  <2>1. PICK g : Sums(g, UpTo(S, n))
    BY <1>2
  <2>2. PICK h : h = [s \in UpTo(S, n + 1) |-> IF s = {} THEN 0 ELSE Pick(s) + g[s \ {Pick(s)}]]
    OBVIOUS
  <2>3. ASSUME NEW s \in UpTo(S, n + 1), s # {}
        PROVE  h[s \ {Pick(s)}] = g[s \ {Pick(s)}]
    <3>1. PICK t : t = s \ {Pick(s)}
      OBVIOUS
    <3>2. t \in UpTo(S, n) /\ t \in UpTo(S, n + 1)
      BY <2>3, <3>1, UpToFacts
    <3>3. h[t] = IF t = {} THEN 0 ELSE Pick(t) + g[t \ {Pick(t)}]
      BY <2>2, <3>2
    <3>4. g[t] = IF t = {} THEN 0 ELSE Pick(t) + g[t \ {Pick(t)}]
      BY <2>1, <3>2 DEF Sums
    <3>5. QED
      BY <3>1, <3>3, <3>4
  <2>4. Sums(h, UpTo(S, n + 1))
    BY <2>2, <2>3 DEF Sums
  <2>5. QED
    BY <2>4
<1>3. \A n \in Nat : n \in T
  <2> HIDE DEF T
  <2>1. QED
    BY <1>1, <1>2, Inductive
<1>4. QED
  BY <1>3

(* A sum is that of the element taken and of the others.                   *)
LEMMA SumUnfolds ==
    ASSUME NEW S, IsFiniteSet(S)
    PROVE  \E iter : Sums(iter, SUBSET S) /\ SumSet(S) = iter[S]
<1>1. \E g : Sums(g, SUBSET S)
  <2>1. PICK n \in Nat : n = Cardinality(S)
    BY FS_CardinalityType
  <2>2. UpTo(S, n) = SUBSET S
    BY <2>1, FS_Subset DEF UpTo
  <2>3. PICK g : Sums(g, UpTo(S, n))
    BY SumsUpTo
  <2>4. QED
    BY <2>2, <2>3
<1>2. PICK iter : iter = CHOOSE f : f = [s \in SUBSET S |-> IF s = {} THEN 0 ELSE Pick(s) + f[s \ {Pick(s)}]]
  OBVIOUS
<1>3. Sums(iter, SUBSET S)
  BY <1>1, <1>2 DEF Sums
<1>4. SumSet(S) = iter[S]
  BY <1>2 DEF SumSet, FoldSet, MapThenFoldSet, Pick
<1>5. QED
  BY <1>3, <1>4

(* A sum of natural numbers is a natural number.                           *)
LEMMA SumType ==
    ASSUME NEW S, IsFiniteSet(S), S \subseteq Nat
    PROVE  SumSet(S) \in Nat
<1>1. PICK iter : Sums(iter, SUBSET S) /\ SumSet(S) = iter[S]
  BY SumUnfolds
<1> DEFINE T == {n \in Nat : \A s \in UpTo(S, n) : iter[s] \in Nat}
<1>2. 0 \in T
  <2>1. ASSUME NEW s \in UpTo(S, 0) PROVE iter[s] \in Nat
    <3>1. s = {} /\ s \in SUBSET S
      BY UpToFacts
    <3>2. QED
      BY <1>1, <3>1 DEF Sums
  <2>2. QED
    BY <2>1
<1>3. ASSUME NEW n \in Nat, n \in T PROVE n + 1 \in T
  <2>1. ASSUME NEW s \in UpTo(S, n + 1) PROVE iter[s] \in Nat
    <3>1. s \in SUBSET S /\ Cardinality(s) <= n + 1
      BY DEF UpTo
    <3>2. CASE s = {}
      BY <1>1, <3>1, <3>2 DEF Sums
    <3>3. CASE s # {}
      <4>1. s \ {Pick(s)} \in UpTo(S, n) /\ Pick(s) \in Nat
        BY <3>1, <3>3, UpToFacts
      <4>2. iter[s \ {Pick(s)}] \in Nat
        BY <1>3, <4>1
      <4>3. iter[s] = Pick(s) + iter[s \ {Pick(s)}]
        BY <1>1, <3>1, <3>3 DEF Sums
      <4>4. QED
        BY <4>1, <4>2, <4>3
    <3>4. QED
      BY <3>2, <3>3
  <2>2. QED
    BY <2>1
<1>4. \A n \in Nat : n \in T
  <2> HIDE DEF T
  <2>1. QED
    BY <1>2, <1>3, Inductive
<1>5. Cardinality(S) \in Nat /\ S \in UpTo(S, Cardinality(S))
  BY FS_CardinalityType DEF UpTo
<1>6. QED
  BY <1>1, <1>4, <1>5

(* The numbers from each member of a set to its double                     *)
Span(s) == UNION {x .. 2 * x - 1 : x \in s}

(* The first n powers of two.                                              *)
PowersBelow(n) == {2 ^ i : i \in 0 .. n - 1}

(* No two powers of two lie within a factor of two.                        *)
LEMMA PowersApart ==
    ASSUME NEW i \in Nat, NEW j \in Nat, i < j
    PROVE  2 * 2 ^ i <= 2 ^ j
<1>1. PICK k \in Nat : k = j - i - 1
  OBVIOUS
<1>2. PICK m \in Nat : m = i + 1 /\ m + k = j
  BY <1>1
<1>3. 2 ^ j = 2 ^ m * 2 ^ k /\ 2 ^ m = 2 * 2 ^ i
  BY <1>2, PowerSum, PowerNext
<1>4. PICK x, y \in Nat : x = 2 ^ m /\ y = 2 ^ k /\ y >= 1
  BY PowerType
<1>5. x * y >= x
  BY <1>4
<1>6. QED
  BY <1>3, <1>4, <1>5

(* If the spans of the elements are apart, the sum is their size together. *)
LEMMA SumIsSpan ==
    ASSUME NEW n \in Nat
    PROVE  SumSet(PowersBelow(n)) = Cardinality(Span(PowersBelow(n)))
<1> DEFINE S == PowersBelow(n)
<1>1. S \subseteq Nat /\ IsFiniteSet(S)
  <2>1. S \subseteq Nat
    BY PowerType DEF PowersBelow
  <2>2. \A x \in S : x <= 2 ^ n
    <3>1. SUFFICES ASSUME NEW i \in 0 .. n - 1 PROVE 2 ^ i <= 2 ^ n
      BY DEF PowersBelow
    <3>2. i \in Nat /\ i < n
      OBVIOUS
    <3>3. QED
      BY <3>2, PowersApart, PowerType
  <2>3. QED
    BY <2>1, <2>2, PowerType, FS_BoundedSetOfNaturals
<1>2. PICK iter : Sums(iter, SUBSET S) /\ SumSet(S) = iter[S]
  BY <1>1, SumUnfolds
<1>3. \A x, y \in S : x # y => 2 * x <= y \/ 2 * y <= x
  <2>1. SUFFICES ASSUME NEW i \in 0 .. n - 1, NEW j \in 0 .. n - 1, 2 ^ i # 2 ^ j
                 PROVE  2 * 2 ^ i <= 2 ^ j \/ 2 * 2 ^ j <= 2 ^ i
    BY DEF PowersBelow
  <2>2. i \in Nat /\ j \in Nat /\ (i < j \/ j < i)
    BY <2>1
  <2>3. QED
    BY <2>2, PowersApart
<1> HIDE DEF S
<1>4. \A x \in S : IsFiniteSet(x .. 2 * x - 1) /\ Cardinality(x .. 2 * x - 1) = x
  <2>1. SUFFICES ASSUME NEW x \in S
                 PROVE  IsFiniteSet(x .. 2 * x - 1) /\ Cardinality(x .. 2 * x - 1) = x
    OBVIOUS
  <2>2. PICK y \in Nat : y = 2 * x - 1 \/ (x = 0 /\ y = 0)
    BY <1>1
  <2>3. x \in Nat /\ 2 * x - 1 \in Int
    BY <1>1
  <2>4. QED
    BY <2>3, FS_Interval
<1> DEFINE T == {m \in Nat : \A s \in UpTo(S, m) :
                    IsFiniteSet(Span(s)) /\ Cardinality(Span(s)) = iter[s]}
<1>5. Span({}) = {} /\ {} \in SUBSET S /\ iter[{}] = 0
  BY <1>2 DEF Span, Sums
<1>6. 0 \in T
  <2>1. \A s \in UpTo(S, 0) : s = {}
    BY <1>1, UpToFacts
  <2>2. QED
    BY <1>5, <2>1, FS_EmptySet
<1>7. ASSUME NEW m \in Nat, m \in T PROVE m + 1 \in T
  <2>1. ASSUME NEW s \in UpTo(S, m + 1)
        PROVE  IsFiniteSet(Span(s)) /\ Cardinality(Span(s)) = iter[s]
    <3>1. s \in SUBSET S /\ Cardinality(s) <= m + 1
      BY DEF UpTo
    <3>2. CASE s = {}
      BY <1>5, <3>2, FS_EmptySet
    <3>3. CASE s # {}
      <4>1. PICK x, t : x = Pick(s) /\ t = s \ {x}
        OBVIOUS
      <4>2. t \in UpTo(S, m) /\ x \in S /\ s = t \cup {x}
        <5>1. s \ {Pick(s)} \in UpTo(S, m) /\ Pick(s) \in s
          BY <1>1, <3>3, UpToFacts
        <5>2. QED
          BY <3>1, <4>1, <5>1
      <4>3. IsFiniteSet(Span(t)) /\ Cardinality(Span(t)) = iter[t]
        BY <1>7, <4>2
      <4>4. iter[s] = x + iter[t]
        BY <1>2, <3>1, <3>3, <4>1 DEF Sums
      <4>5. Span(s) = Span(t) \cup (x .. 2 * x - 1)
        BY <4>2 DEF Span
      <4>6. Span(t) \cap (x .. 2 * x - 1) = {}
        <5>1. SUFFICES ASSUME NEW y \in t, NEW z \in y .. 2 * y - 1, z \in x .. 2 * x - 1
                       PROVE  FALSE
          BY DEF Span
        <5>2. x \in Nat /\ y \in Nat /\ y \in S /\ x # y
          BY <1>1, <3>1, <4>1, <4>2
        <5>3. QED
          BY <1>3, <4>2, <5>1, <5>2
      <4>7. Cardinality(Span(s)) = Cardinality(Span(t)) + x - 0 /\ IsFiniteSet(Span(s))
        <5>1. PICK u : u = x .. 2 * x - 1 /\ IsFiniteSet(u) /\ Cardinality(u) = x
          BY <1>4, <4>2
        <5>2. Span(s) = Span(t) \cup u /\ Span(t) \cap u = {}
          BY <4>5, <4>6, <5>1
        <5>3. PICK v : v = Span(t)
          OBVIOUS
        <5>4. IsFiniteSet(v \cup u) /\ Cardinality(v \cup u) = Cardinality(v) + Cardinality(u) - Cardinality(v \cap u)
          BY <4>3, <5>1, <5>3, FS_Union
        <5>5. Cardinality(v \cap u) = 0
          BY <5>2, <5>3, FS_EmptySet
        <5>6. QED
          BY <5>1, <5>2, <5>3, <5>4, <5>5
      <4>8. x \in Nat /\ Cardinality(Span(t)) \in Nat
        BY <1>1, <4>2, <4>3, FS_CardinalityType
      <4>9. QED
        BY <4>3, <4>4, <4>7, <4>8
    <3>4. QED
      BY <3>2, <3>3
  <2>2. QED
    BY <2>1
<1>8. \A m \in Nat : m \in T
  <2> HIDE DEF T
  <2>1. QED
    BY <1>6, <1>7, Inductive
<1>9. Cardinality(S) \in Nat /\ S \in UpTo(S, Cardinality(S))
  BY <1>1, FS_CardinalityType DEF UpTo
<1>10. QED
  BY <1>2, <1>8, <1>9 DEF S

(* The spans of the first n powers of two cover every number below the     *)
(* next.                                                                   *)
LEMMA SpanOfPowers ==
    ASSUME NEW n \in Nat
    PROVE  Span(PowersBelow(n)) = 1 .. 2 ^ n - 1
<1> DEFINE T == {k \in Nat : Span(PowersBelow(k)) = 1 .. 2 ^ k - 1}
<1>1. 0 \in T
  <2>1. Span(PowersBelow(0)) = {}
    BY DEF Span, PowersBelow
  <2>2. 1 .. 2 ^ 0 - 1 = {}
    BY PowerZero
  <2>3. QED
    BY <2>1, <2>2
<1>2. ASSUME NEW k \in Nat, k \in T PROVE k + 1 \in T
  <2>1. PowersBelow(k + 1) = PowersBelow(k) \cup {2 ^ k}
    BY DEF PowersBelow
  <2>2. Span(PowersBelow(k + 1)) = Span(PowersBelow(k)) \cup (2 ^ k .. 2 * 2 ^ k - 1)
    BY <2>1 DEF Span
  <2>3. Span(PowersBelow(k)) = 1 .. 2 ^ k - 1
    BY <1>2
  <2>4. PICK p \in Nat : p = 2 ^ k /\ p >= 1 /\ 2 ^ (k + 1) = 2 * p
    BY PowerType, PowerNext
  <2>5. (1 .. p - 1) \cup (p .. 2 * p - 1) = 1 .. 2 * p - 1
    BY <2>4
  <2>6. Span(PowersBelow(k + 1)) = 1 .. 2 ^ (k + 1) - 1
    BY <2>2, <2>3, <2>4, <2>5
  <2>7. QED
    BY <2>6
<1>3. \A k \in Nat : k \in T
  <2> HIDE DEF T
  <2>1. QED
    BY <1>1, <1>2, Inductive
<1>4. QED
  BY <1>3

(* All ones                                                                *)
LEMMA SumOfPowers ==
    ASSUME NEW n \in Nat
    PROVE  SumSet(PowersBelow(n)) = 2 ^ n - 1
<1>1. PICK p \in Nat : p = 2 ^ n /\ p >= 1
  BY PowerType
<1>2. Cardinality(1 .. p - 1) = p - 1
  BY <1>1, FS_Interval
<1>3. QED
  BY <1>1, <1>2, SumIsSpan, SpanOfPowers

-----------------------------------------------------------------------------
(* Folds of sequences *)

(* A set of numbers that is finite and not empty has a maximum.            *)
LEMMA MaxOfSome ==
    ASSUME NEW n \in Nat, NEW s \in SUBSET (1 .. n), s # {}
    PROVE  Max(s) \in s /\ \A y \in s : y <= Max(s)
<1> DEFINE T == {m \in Nat : \A t \in SUBSET (1 .. m) : t # {} => \E x \in t : \A y \in t : x >= y}
<1>1. 0 \in T
  <2>1. 1 .. 0 = {}
    OBVIOUS
  <2>2. \A t \in SUBSET (1 .. 0) : t = {}
    BY <2>1
  <2>3. QED
    BY <2>2
<1>2. ASSUME NEW m \in Nat, m \in T PROVE m + 1 \in T
  <2>1. ASSUME NEW t \in SUBSET (1 .. m + 1), t # {} PROVE \E x \in t : \A y \in t : x >= y
    <3>1. CASE m + 1 \in t
      <4>1. \A y \in t : m + 1 >= y
        OBVIOUS
      <4>2. QED
        BY <3>1, <4>1
    <3>2. CASE m + 1 \notin t
      <4>1. t \in SUBSET (1 .. m)
        BY <3>2
      <4>2. QED
        BY <1>2, <2>1, <4>1
    <3>3. QED
      BY <3>1, <3>2
  <2>2. QED
    BY <2>1
<1>3. \A m \in Nat : m \in T
  <2> HIDE DEF T
  <2>1. QED
    BY <1>1, <1>2, Inductive
<1>4. \E x \in s : \A y \in s : x >= y
  BY <1>3
<1>5. Max(s) \in s /\ \A y \in s : Max(s) >= y
  BY <1>4 DEF Max
<1>6. \A y \in s : y \in Int
  OBVIOUS
<1>7. QED
  BY <1>5, <1>6

(* How FoldLeft applies Step to the elements of a sequence.                *)
Folds(iter, k, base, seq, subsets) ==
    iter = [s \in subsets |-> IF s = {} THEN base ELSE Step(k, iter[s \ {Max(s)}], seq[Max(s)])]

(* On the prefixes of each length there is a function that folds.          *)
LEMMA FoldsUpTo ==
    ASSUME NEW k, NEW base, NEW seq, NEW N \in Nat
    PROVE  \A n \in Nat : \E g : Folds(g, k, base, seq, UpTo(1 .. N, n))
<1> DEFINE S == 1 .. N
           T == {n \in Nat : \E g : Folds(g, k, base, seq, UpTo(S, n))}
<1>0. IsFiniteSet(S)
  BY FS_Interval
<1>1. 0 \in T
  <2>1. \A s \in UpTo(S, 0) : s = {}
    BY <1>0, UpToFacts
  <2>2. PICK g : g = [s \in UpTo(S, 0) |-> base]
    OBVIOUS
  <2>3. Folds(g, k, base, seq, UpTo(S, 0))
    BY <2>1, <2>2 DEF Folds
  <2>4. QED
    BY <2>3
<1>2. ASSUME NEW n \in Nat, n \in T PROVE n + 1 \in T
  <2>1. PICK g : Folds(g, k, base, seq, UpTo(S, n))
    BY <1>2
  <2>2. PICK h : h = [s \in UpTo(S, n + 1) |->
                        IF s = {} THEN base ELSE Step(k, g[s \ {Max(s)}], seq[Max(s)])]
    OBVIOUS
  <2>3. ASSUME NEW s \in UpTo(S, n + 1), s # {}
        PROVE  h[s \ {Max(s)}] = g[s \ {Max(s)}]
    <3>1. PICK t : t = s \ {Max(s)}
      OBVIOUS
    <3>2. s \in SUBSET S /\ Cardinality(s) <= n + 1
      BY DEF UpTo
    <3>3. Max(s) \in s /\ IsFiniteSet(s) /\ Cardinality(s) \in Nat
      BY <1>0, <2>3, <3>2, MaxOfSome, FS_Subset, FS_CardinalityType
    <3>4. Cardinality(t) = Cardinality(s) - 1
      BY <3>1, <3>3, FS_RemoveElement
    <3>5. t \in UpTo(S, n) /\ t \in UpTo(S, n + 1)
      <4>1. Cardinality(t) <= n /\ Cardinality(t) <= n + 1
        BY <3>2, <3>3, <3>4
      <4>2. t \in SUBSET S
        BY <3>1, <3>2
      <4>3. QED
        BY <4>1, <4>2 DEF UpTo
    <3>6. h[t] = IF t = {} THEN base ELSE Step(k, g[t \ {Max(t)}], seq[Max(t)])
      BY <2>2, <3>5
    <3>7. g[t] = IF t = {} THEN base ELSE Step(k, g[t \ {Max(t)}], seq[Max(t)])
      BY <2>1, <3>5 DEF Folds
    <3>8. QED
      BY <3>1, <3>6, <3>7
  <2>4. Folds(h, k, base, seq, UpTo(S, n + 1))
    BY <2>2, <2>3 DEF Folds
  <2>5. QED
    BY <2>4
<1>3. \A n \in Nat : n \in T
  <2> HIDE DEF T
  <2>1. QED
    BY <1>1, <1>2, Inductive
<1>4. QED
  BY <1>3

(* The values that the loop over the arguments goes through.               *)
Accumulates(acc, k, base, seq, n) ==
    /\ acc[0] = base
    /\ \A j \in 0 .. n - 1 : acc[j + 1] = Step(k, acc[j], seq[j + 1])

(* The loop over the arguments is the last of the values it accumulates.   *)
Unfolds(k, base, seq, n) ==
    \E acc : Accumulates(acc, k, base, seq, n) /\ Accumulated(k, base, seq) = acc[n]

(* The loop of Literal::evaluate unfolds, however many arguments there     *)
(* are.                                                                    *)
LEMMA FoldUnfolds ==
    ASSUME NEW k, NEW base, NEW seq, NEW n \in Nat, DOMAIN seq = 1 .. n
    PROVE  Unfolds(k, base, seq, n)
<1> DEFINE S == 1 .. n
<1>0. IsFiniteSet(S) /\ Cardinality(S) = n
  BY FS_Interval
<1>1. UpTo(S, n) = SUBSET S
  BY <1>0, UpToFacts
<1>2. \E g : Folds(g, k, base, seq, SUBSET S)
  <2>1. \E g : Folds(g, k, base, seq, UpTo(1 .. n, n))
    BY FoldsUpTo
  <2>2. QED
    BY <1>1, <2>1
<1>3. PICK iter : iter = CHOOSE f : f = [s \in SUBSET S |->
                            IF s = {} THEN base ELSE Step(k, f[s \ {Max(s)}], seq[Max(s)])]
  OBVIOUS
<1>4. Folds(iter, k, base, seq, SUBSET S)
  BY <1>2, <1>3 DEF Folds
<1>5. Accumulated(k, base, seq) = iter[S]
  BY <1>3 DEF Accumulated, FoldLeft, MapThenFoldSet
<1>6. PICK acc : acc = [j \in 0 .. n |-> iter[1 .. j]]
  OBVIOUS
<1>7. acc[0] = base
  <2>1. 1 .. 0 = {} /\ {} \in SUBSET S
    OBVIOUS
  <2>2. iter[{}] = base
    BY <1>4, <2>1 DEF Folds
  <2>3. QED
    BY <1>6, <2>1, <2>2
<1>8. ASSUME NEW j \in 0 .. n - 1 PROVE acc[j + 1] = Step(k, acc[j], seq[j + 1])
  <2>1. PICK s : s = 1 .. j + 1
    OBVIOUS
  <2>2. s \in SUBSET S /\ s # {} /\ j + 1 \in s /\ \A y \in s : y <= j + 1
    BY <2>1
  <2>3. Max(s) = j + 1
    <3>1. Max(s) \in s /\ \A y \in s : y <= Max(s)
      BY <2>2, MaxOfSome
    <3>2. Max(s) \in Int
      <4>1. \A y \in s : y \in Int
        BY <2>1
      <4>2. QED
        BY <3>1, <4>1
    <3>3. QED
      BY <2>2, <3>1, <3>2
  <2>4. s \ {j + 1} = 1 .. j
    BY <2>1
  <2>5. iter[s] = Step(k, iter[s \ {Max(s)}], seq[Max(s)])
    BY <1>4, <2>2 DEF Folds
  <2>6. iter[1 .. j + 1] = Step(k, iter[1 .. j], seq[j + 1])
    BY <2>1, <2>3, <2>4, <2>5
  <2>7. acc[j + 1] = iter[1 .. j + 1] /\ acc[j] = iter[1 .. j]
    BY <1>6
  <2>8. QED
    BY <2>6, <2>7
<1>9. Accumulates(acc, k, base, seq, n)
  BY <1>7, <1>8 DEF Accumulates
<1>10. iter[S] = acc[n]
  BY <1>6
<1>11. QED
  BY <1>5, <1>9, <1>10 DEF Unfolds

-----------------------------------------------------------------------------
(* Values, and bit-vectors that fit their width *)

(* A bit-vector of some width.                                             *)
Fits(l) == l.kind \in BitKinds /\ l.aux \in Nat /\ l.int \in Nat /\ l.int < 2 ^ l.aux

(* The fields of a literal.                                                *)
LEMMA Fields ==
    ASSUME NEW k, NEW n, NEW x, NEW s
    PROVE  /\ Literal(k, n, x, s).kind = k /\ Literal(k, n, x, s).int = n
           /\ Literal(k, n, x, s).aux = x /\ Literal(k, n, x, s).str = s
BY DEF Literal

(* The fields of a bit-vector.                                             *)
LEMMA BitVectorFields ==
    ASSUME NEW k, NEW w, NEW v
    PROVE  /\ BitVector(k, w, v).kind = k /\ BitVector(k, w, v).aux = w
           /\ BitVector(k, w, v).int = v % 2 ^ w
<1>1. PICK n : n = v % 2 ^ w
  OBVIOUS
<1>2. BitVector(k, w, v) = Literal(k, n, w, <<>>)
  BY <1>1 DEF BitVector
<1>3. QED
  BY <1>1, <1>2, Fields

(* The constructor of BitVector keeps its value below the power of the     *)
(* width.                                                                  *)
LEMMA BitVectorFits ==
    ASSUME NEW k \in BitKinds, NEW w \in Nat, NEW v \in Int
    PROVE  /\ Fits(BitVector(k, w, v))
           /\ BitVector(k, w, v).kind = k /\ BitVector(k, w, v).aux = w
<1>1. PICK m \in Nat : m = 2 ^ w /\ m >= 1
  BY PowerType
<1>2. v % m \in Nat /\ v % m < m
  BY <1>1, DivMod
<1>3. BitVector(k, w, v) = Literal(k, v % m, w, <<>>)
  BY <1>1 DEF BitVector
<1>4. PICK n : n = v % m
  OBVIOUS
<1>5. QED
  BY <1>1, <1>2, <1>3, <1>4, Fields DEF Fits

(* A value below the power is kept.                                        *)
LEMMA Kept ==
    ASSUME NEW w \in Nat, NEW v \in Nat, v < 2 ^ w
    PROVE  v % 2 ^ w = v
<1>1. PICK m \in Nat : m = 2 ^ w /\ m >= 1
  BY PowerType
<1>2. v = m * 0 + v
  OBVIOUS
<1>3. QED
  BY <1>1, <1>2, DivUnique

(* Sums of powers of two                                                   *)
LEMMA OfBitsFits ==
    ASSUME NEW k \in BitKinds, NEW w \in Nat, NEW bits \in SUBSET Nat, IsFiniteSet(bits)
    PROVE  Fits(OfBits(k, w, bits)) /\ OfBits(k, w, bits).kind = k
<1> DEFINE S == {2 ^ i : i \in bits}
<1>1. IsFiniteSet(S)
  <2>1. PICK f : f = [i \in bits |-> 2 ^ i]
    OBVIOUS
  <2>2. f \in Surjection(bits, S)
    BY <2>1 DEF Surjection
  <2>3. QED
    <3> HIDE DEF S
    <3>1. QED
      BY <2>2, FS_Surjection
<1>2. S \subseteq Nat
  BY PowerType
<1>3. PICK v : v = SumSet(S)
  OBVIOUS
<1>4. v \in Nat
  <2> HIDE DEF S
  <2>1. QED
    BY <1>1, <1>2, <1>3, SumType
<1>5. OfBits(k, w, bits) = BitVector(k, w, v)
  BY <1>3 DEF OfBits
<1>6. QED
  BY <1>3, <1>4, <1>5, BitVectorFits

(* The bits of a bit-vector are finitely many natural numbers.             *)
LEMMA BitsOfFinite ==
    ASSUME NEW v, v.aux \in Nat
    PROVE  BitsOf(v) \subseteq Nat /\ IsFiniteSet(BitsOf(v))
<1>1. BitsOf(v) \subseteq 0 .. v.aux - 1
  BY DEF BitsOf
<1>2. IsFiniteSet(0 .. v.aux - 1)
  BY FS_Interval
<1>3. QED
  BY <1>1, <1>2, FS_Subset

(* One iteration on bit-vectors makes a bit-vector.                        *)
LEMMA BitStepFits ==
    ASSUME NEW k \in NaryOps, NEW a, NEW b, Fits(a), Fits(b)
    PROVE  Fits(BitStep(k, a, b)) /\ BitStep(k, a, b).kind = a.kind
<1>1. /\ a.kind \in BitKinds /\ a.aux \in Nat /\ a.int \in Nat
      /\ b.aux \in Nat /\ b.int \in Nat
  BY DEF Fits
<1>2. /\ BitsOf(a) \subseteq Nat /\ IsFiniteSet(BitsOf(a))
      /\ BitsOf(b) \subseteq Nat /\ IsFiniteSet(BitsOf(b))
  BY <1>1, BitsOfFinite
<1>3. ASSUME NEW bits \in {BitsOf(a) \cap BitsOf(b), BitsOf(a) \cup BitsOf(b),
                           SymmetricDifference(BitsOf(a), BitsOf(b))}
      PROVE  Fits(OfBits(a.kind, a.aux, bits)) /\ OfBits(a.kind, a.aux, bits).kind = a.kind
  <2>1. PICK u : u = BitsOf(a) \cup BitsOf(b)
    OBVIOUS
  <2>2. IsFiniteSet(u) /\ u \subseteq Nat
    BY <1>2, <2>1, FS_Union
  <2>3. bits \subseteq u
    BY <2>1 DEF SymmetricDifference
  <2>4. bits \subseteq Nat /\ IsFiniteSet(bits)
    BY <2>2, <2>3, FS_Subset
  <2>5. PICK kind \in BitKinds, w \in Nat : kind = a.kind /\ w = a.aux
    BY <1>1
  <2>6. Fits(OfBits(kind, w, bits)) /\ OfBits(kind, w, bits).kind = kind
    BY <1>1, <2>4, <2>5, OfBitsFits
  <2>7. QED
    BY <2>5, <2>6
<1>4. ASSUME NEW v \in Int PROVE Fits(BitVector(a.kind, a.aux, v)) /\ BitVector(a.kind, a.aux, v).kind = a.kind
  BY <1>1, BitVectorFits
<1>5. Fits(Concat(a, b)) /\ Concat(a, b).kind = a.kind
  <2>1. PICK m \in Nat : m = 2 ^ b.aux
    BY <1>1, PowerType
  <2>2. PICK kind \in BitKinds, w \in Nat, v \in Nat : kind = a.kind /\ w = a.aux + b.aux /\ v = a.int * m + b.int
    BY <1>1
  <2>3. Concat(a, b) = BitVector(kind, w, v)
    BY <2>1, <2>2 DEF Concat
  <2>4. Fits(BitVector(kind, w, v)) /\ BitVector(kind, w, v).kind = kind
    BY <1>1, <2>2, BitVectorFits
  <2>5. QED
    BY <2>2, <2>3, <2>4
<1>6. a.int + b.int \in Int /\ a.int * b.int \in Int
  BY <1>1
<1>7. CASE k = "EVAL_AND"
  BY <1>3, <1>7 DEF BitStep
<1>8. CASE k = "EVAL_OR"
  BY <1>3, <1>8 DEF BitStep
<1>9. CASE k = "EVAL_XOR"
  BY <1>3, <1>9 DEF BitStep
<1>10. CASE k = "EVAL_ADD"
  BY <1>4, <1>6, <1>10 DEF BitStep
<1>11. CASE k = "EVAL_MUL"
  BY <1>4, <1>6, <1>11 DEF BitStep
<1>12. CASE k = "EVAL_CONCAT"
  BY <1>5, <1>12 DEF BitStep
<1>13. QED
  BY <1>7, <1>8, <1>9, <1>10, <1>11, <1>12 DEF NaryOps

-----------------------------------------------------------------------------
(* The kind of a value *)

(* The kinds of what is no value.                                          *)
Nothing == {"NONE", "UNDEFINED"}

(* The kinds of what the constructors of literals make.                    *)
LEMMA Kinds ==
    /\ NoLiteral.kind = "NONE" /\ UndefinedLiteral.kind = "UNDEFINED"
    /\ \A b : Bool(b).kind = "BOOLEAN"
    /\ \A n : Numeral(n).kind = "NUMERAL" /\ Numeral(n).int = n
    /\ \A s : StringOf(s).kind = "STRING"
    /\ \A k, n, d : Ratio(k, n, d).kind = k
    /\ \A k, w, n : BitVector(k, w, n).kind = k
    /\ \A k, w, bits : OfBits(k, w, bits).kind = k
<1>1. NoLiteral.kind = "NONE" /\ UndefinedLiteral.kind = "UNDEFINED"
  BY DEF NoLiteral, UndefinedLiteral, Literal
<1>2. \A b : Bool(b).kind = "BOOLEAN"
  BY DEF Bool, Literal
<1>3. \A n : Numeral(n).kind = "NUMERAL" /\ Numeral(n).int = n
  BY DEF Numeral, Literal
<1>4. \A s : StringOf(s).kind = "STRING"
  BY DEF StringOf, Literal
<1>5. \A k, n, d : Ratio(k, n, d).kind = k
  <2>1. SUFFICES ASSUME NEW k, NEW n, NEW d PROVE Ratio(k, n, d).kind = k
    OBVIOUS
  <2>2. PICK x, y : Ratio(k, n, d) = Literal(k, x, y, <<>>)
    BY DEF Ratio
  <2>3. QED
    BY <2>2, Fields
<1>6. \A k, w, n : BitVector(k, w, n).kind = k
  BY BitVectorFields
<1>7. \A k, w, bits : OfBits(k, w, bits).kind = k
  <2>1. SUFFICES ASSUME NEW k, NEW w, NEW bits PROVE OfBits(k, w, bits).kind = k
    OBVIOUS
  <2>2. PICK x : OfBits(k, w, bits) = BitVector(k, w, x)
    BY DEF OfBits
  <2>3. QED
    BY <1>6, <2>2
<1>8. QED
  BY <1>1, <1>2, <1>3, <1>4, <1>5, <1>6, <1>7

(* An iteration of the loop keeps the kind or gives up.                    *)
LEMMA StepKind ==
    ASSUME NEW k \in NaryOps, NEW a, NEW b
    PROVE  Step(k, a, b).kind \in {a.kind, "NONE"}
<1>1. BoolStep(k, a, b).kind \in {"BOOLEAN", "NONE"}
  <2>1. PICK x, y, z : x = Bool(a.int = 1 /\ b.int = 1) /\ y = Bool(a.int = 1 \/ b.int = 1) /\ z = Bool(a.int # b.int)
    OBVIOUS
  <2>2. BoolStep(k, a, b) \in {x, y, z, NoLiteral}
    BY <2>1 DEF BoolStep, NaryOps
  <2>3. QED
    BY <2>1, <2>2, Kinds
<1>2. IntegerStep(k, a, b).kind \in {"NUMERAL", "NONE"}
  <2>1. PICK x, y : x = Numeral(a.int + b.int) /\ y = Numeral(a.int * b.int)
    OBVIOUS
  <2>2. IntegerStep(k, a, b) \in {x, y, NoLiteral}
    BY <2>1 DEF IntegerStep, NaryOps
  <2>3. QED
    BY <2>1, <2>2, Kinds
<1>3. RationalStep(k, a, b).kind \in {a.kind, "NONE"}
  <2>1. PICK x, y : /\ x = Ratio(a.kind, a.int * b.aux + b.int * a.aux, a.aux * b.aux)
                    /\ y = Ratio(a.kind, a.int * b.int, a.aux * b.aux)
    OBVIOUS
  <2>2. RationalStep(k, a, b) \in {x, y, NoLiteral}
    BY <2>1 DEF RationalStep, NaryOps
  <2>3. QED
    BY <2>1, <2>2, Kinds
<1>4. BitStep(k, a, b).kind = a.kind
  <2>1. CASE k = "EVAL_AND"
    BY <2>1, Kinds DEF BitStep
  <2>2. CASE k = "EVAL_OR"
    BY <2>2, Kinds DEF BitStep
  <2>3. CASE k = "EVAL_XOR"
    BY <2>3, Kinds DEF BitStep
  <2>4. CASE k = "EVAL_ADD"
    BY <2>4, Kinds DEF BitStep
  <2>5. CASE k = "EVAL_MUL"
    BY <2>5, Kinds DEF BitStep
  <2>6. CASE k = "EVAL_CONCAT"
    BY <2>6, Kinds DEF BitStep, Concat
  <2>7. QED
    BY <2>1, <2>2, <2>3, <2>4, <2>5, <2>6 DEF NaryOps
<1>5. StringStep(k, a, b).kind \in {"STRING", "NONE"}
  BY Kinds DEF StringStep
<1>6. CASE a.kind = "BOOLEAN"
  BY <1>1, <1>6 DEF Step, BitKinds, Rationals
<1>7. CASE a.kind = "NUMERAL"
  BY <1>2, <1>7 DEF Step, BitKinds, Rationals
<1>8. CASE a.kind \in Rationals
  BY <1>3, <1>8 DEF Step, BitKinds, Rationals
<1>9. CASE a.kind \in BitKinds
  BY <1>4, <1>9 DEF Step, BitKinds, Rationals
<1>10. CASE a.kind = "STRING"
  BY <1>5, <1>10 DEF Step, BitKinds, Rationals
<1>11. CASE a.kind \notin {"BOOLEAN", "NUMERAL", "STRING"} \cup Rationals \cup BitKinds
  <2>1. Step(k, a, b) = NoLiteral
    BY <1>11 DEF Step
  <2>2. QED
    BY <2>1, Kinds
<1>12. QED
  BY <1>6, <1>7, <1>8, <1>9, <1>10, <1>11

(* The arguments after the first.                                          *)
LEMMA Others ==
    ASSUME NEW T, NEW args \in Seq(T), NEW n \in Nat, Len(args) = n + 1
    PROVE  /\ DOMAIN Tail(args) = 1 .. n
           /\ \A j \in 1 .. n : Tail(args)[j] = args[j + 1]
           /\ args[1] \in T /\ \A j \in 1 .. n : args[j + 1] \in T
OBVIOUS

(* An operator on any number of arguments keeps their kind or does not     *)
(* evaluate.                                                               *)
LEMMA NaryKind ==
    ASSUME NEW T, NEW args \in Seq(T), NEW k \in NaryOps, args # <<>>
    PROVE  Nary(k, args).kind \in {args[1].kind, "NONE"}
<1>1. PICK n \in Nat : Len(args) = n + 1
  <2>1. Len(args) - 1 \in Nat /\ Len(args) = (Len(args) - 1) + 1
    OBVIOUS
  <2>2. QED
    BY <2>1
<1>2. PICK base, rest : base = args[1] /\ rest = Tail(args) /\ DOMAIN rest = 1 .. n
  BY <1>1, Others
<1>3. PICK acc : Accumulates(acc, k, base, rest, n) /\ Accumulated(k, base, rest) = acc[n]
  <2>1. Unfolds(k, base, rest, n)
    BY <1>2, FoldUnfolds
  <2>2. QED
    BY <2>1 DEF Unfolds
<1> DEFINE S == {j \in Nat : j <= n => acc[j].kind \in {base.kind, "NONE"}}
<1>4. 0 \in S
  BY <1>3 DEF Accumulates
<1>5. ASSUME NEW j \in Nat, j \in S PROVE j + 1 \in S
  <2>1. SUFFICES ASSUME j + 1 <= n PROVE acc[j + 1].kind \in {base.kind, "NONE"}
    OBVIOUS
  <2>2. j \in 0 .. n - 1 /\ acc[j].kind \in {base.kind, "NONE"}
    BY <1>5, <2>1
  <2>3. acc[j + 1] = Step(k, acc[j], rest[j + 1])
    BY <1>3, <2>2 DEF Accumulates
  <2>4. PICK a, b : a = acc[j] /\ b = rest[j + 1]
    OBVIOUS
  <2>5. Step(k, a, b).kind \in {a.kind, "NONE"}
    BY StepKind
  <2>6. QED
    BY <2>2, <2>3, <2>4, <2>5
<1>6. \A j \in Nat : j \in S
  <2> HIDE DEF S
  <2>1. QED
    BY <1>4, <1>5, Inductive
<1>7. acc[n].kind \in {base.kind, "NONE"}
  BY <1>6
<1>8. Nary(k, args) \in {NoLiteral, acc[n]}
  BY <1>2, <1>3 DEF Nary
<1>9. QED
  BY <1>2, <1>7, <1>8, Kinds

(* The operators on one argument.                                          *)
Unary == {"EVAL_NOT", "EVAL_NEG", "EVAL_IS_NEG", "EVAL_LENGTH", "EVAL_TO_INT", "EVAL_TO_RAT",
          "EVAL_TO_STRING"}

(* The kind of a value is that of its type, with the two exceptions of     *)
(* ValueHasOpType.                                                         *)
KindRight(k, args, l) ==
    \/ l.kind \in Nothing \cup {OpType(k, args)}
    \/ k = "EVAL_GT" /\ l.kind = "BOOLEAN"
    \/ /\ k \in {"EVAL_INT_DIV", "EVAL_INT_MOD"} /\ args[1].kind \in BitKinds
       /\ l.kind = args[1].kind

(* The kinds that operators on one argument make.                          *)
LEMMA UnaryKinds ==
    ASSUME NEW a
    PROVE  /\ Not(a).kind \in Nothing \cup {a.kind} /\ Neg(a).kind \in Nothing \cup {a.kind}
           /\ IsNeg(a).kind \in Nothing \cup {"BOOLEAN"}
           /\ Length(a).kind \in Nothing \cup {"NUMERAL"}
           /\ ToInt(a).kind \in Nothing \cup {"NUMERAL"}
           /\ ToRat(a).kind \in Nothing \cup {"RATIONAL"}
           /\ ToStr(a).kind \in Nothing \cup {"STRING"}
<1>1. Not(a).kind \in Nothing \cup {a.kind}
  BY Kinds DEF Not, Nothing, BitKinds
<1>2. Neg(a).kind \in Nothing \cup {a.kind}
  BY Kinds DEF Neg, Nothing, BitKinds, Rationals, Negate
<1>3. IsNeg(a).kind \in Nothing \cup {"BOOLEAN"}
  BY Kinds DEF IsNeg, Nothing
<1>4. Length(a).kind \in Nothing \cup {"NUMERAL"}
  BY Kinds DEF Length, Nothing
<1>5. ToInt(a).kind \in Nothing \cup {"NUMERAL"}
  BY Kinds DEF ToInt, Nothing, Rationals
<1>6. ToRat(a).kind \in Nothing \cup {"RATIONAL"}
  BY Kinds DEF ToRat, Nothing, Rationals
<1>7. ToStr(a).kind \in Nothing \cup {"STRING"}
  BY Kinds DEF ToStr, Nothing, Rationals
<1>8. QED
  BY <1>1, <1>2, <1>3, <1>4, <1>5, <1>6, <1>7

(* The kinds that division makes.                                          *)
LEMMA IntDivKind ==
    ASSUME NEW a, NEW b, NEW k
    PROVE  \/ IntDivMod(k, a, b).kind \in Nothing \cup {"NUMERAL"}
           \/ a.kind \in BitKinds /\ IntDivMod(k, a, b).kind = a.kind
<1>1. PICK x, y, z : x = Euclidean(a.int, b.int)[1] /\ y = Euclidean(a.int, b.int)[2]
                     /\ z = Euclidean(a.int, b.int)[IF k = "EVAL_INT_DIV" THEN 1 ELSE 2]
  OBVIOUS
<1>2. UnsignedDiv(a, b).kind = a.kind /\ UnsignedRem(a, b).kind = a.kind
  BY Kinds DEF UnsignedDiv, UnsignedRem
<1>3. CASE a.kind = "NUMERAL"
  <2>1. IntDivMod(k, a, b) \in {Numeral(z), NoLiteral}
    BY <1>1, <1>3 DEF IntDivMod, BitKinds
  <2>2. QED
    BY <2>1, Kinds DEF Nothing
<1>4. CASE a.kind # "NUMERAL"
  BY <1>2, <1>4, Kinds DEF IntDivMod, Nothing
<1>5. QED
  BY <1>3, <1>4

(* The kinds that the other operators on two arguments make.               *)
LEMMA BinaryKinds ==
    ASSUME NEW a, NEW b
    PROVE  /\ RatDiv(a, b).kind \in Nothing \cup {"RATIONAL"}
           /\ ToBin(a, b).kind \in Nothing \cup {"BINARY"}
           /\ Gt(a, b).kind \in Nothing \cup {"BOOLEAN"}
           /\ Find(a, b).kind \in Nothing \cup {"NUMERAL"}
<1>2. RatDiv(a, b).kind \in Nothing \cup {"RATIONAL"}
  BY Kinds DEF RatDiv, Nothing, Rationals
<1>3. ToBin(a, b).kind \in Nothing \cup {"BINARY"}
  BY Kinds DEF ToBin, Nothing
<1>4. Gt(a, b).kind \in Nothing \cup {"BOOLEAN"}
  BY Kinds DEF Gt, Nothing, BitKinds, Rationals
<1>5. Find(a, b).kind \in Nothing \cup {"NUMERAL"}
  BY Kinds DEF Find, Nothing
<1>6. QED
  BY <1>2, <1>3, <1>4, <1>5

(* The length of a string or the width of a bit-vector.                    *)
SizeOf(a) == IF a.kind = "STRING" THEN Len(a.str) ELSE a.aux

(* The last position, clamped.                                             *)
LastOf(a, high) ==
    IF (IF a.kind = "STRING" THEN high >= SizeOf(a) ELSE high > SizeOf(a)) THEN SizeOf(a) - 1
    ELSE high

(* The positions are out of range.                                         *)
NothingLeft(a, low, high) ==
    low < 0 \/ high < 0 \/ low > SizeOf(a) \/ SizeOf(a) = 0 \/ low > LastOf(a, high)

(* What an extract makes, by the kind of its first argument and its        *)
(* positions.                                                              *)
LEMMA ExtractCases ==
    ASSUME NEW args, NEW a, a = args[1], NEW low, low = args[2].int, NEW high, high = args[3].int
    PROVE  \/ ExtractRange(args) \in {UndefinedLiteral, NoLiteral}
              /\ ~(Len(args) >= 3 /\ args[2].kind = "NUMERAL" /\ args[3].kind = "NUMERAL"
                   /\ a.kind \in BitKinds \cup {"STRING"})
           \/ a.kind \in BitKinds /\ NothingLeft(a, low, high)
              /\ ExtractRange(args) = BitVector(a.kind, 0, 0)
           \/ a.kind \in BitKinds /\ ~NothingLeft(a, low, high)
              /\ ExtractRange(args) = Extract(a, LastOf(a, high), low)
           \/ a.kind = "STRING" /\ NothingLeft(a, low, high)
              /\ ExtractRange(args) = StringOf(<<>>)
           \/ a.kind = "STRING" /\ ~NothingLeft(a, low, high)
              /\ ExtractRange(args) = StringOf(SubSeq(a.str, low + 1, LastOf(a, high) + 1))
<1>1. CASE Len(args) < 3
  BY <1>1 DEF ExtractRange
<1>2. CASE ~(Len(args) < 3) /\ (args[2].kind # "NUMERAL" \/ args[3].kind # "NUMERAL")
  BY <1>2 DEF ExtractRange
<1> DEFINE Fine == ~(Len(args) < 3) /\ args[2].kind = "NUMERAL" /\ args[3].kind = "NUMERAL"
<1>3. CASE Fine /\ a.kind \in BitKinds
  <2>1. a.kind # "STRING"
    BY <1>3 DEF BitKinds
  <2>2. CASE NothingLeft(a, low, high)
    <3>1. ExtractRange(args) = BitVector(a.kind, 0, 0)
      BY <1>3, <2>1, <2>2 DEF ExtractRange, NothingLeft, LastOf, SizeOf
    <3>2. QED
      BY <1>3, <2>2, <3>1
  <2>3. CASE ~NothingLeft(a, low, high)
    <3>1. ExtractRange(args) = Extract(a, LastOf(a, high), low)
      BY <1>3, <2>1, <2>3 DEF ExtractRange, NothingLeft, LastOf, SizeOf
    <3>2. QED
      BY <1>3, <2>3, <3>1
  <2>4. QED
    BY <2>2, <2>3
<1>4. CASE Fine /\ a.kind = "STRING"
  <2>2. CASE NothingLeft(a, low, high)
    <3>1. ExtractRange(args) = StringOf(<<>>)
      BY <1>4, <2>2 DEF ExtractRange, NothingLeft, LastOf, SizeOf, BitKinds
    <3>2. QED
      BY <1>4, <2>2, <3>1
  <2>3. CASE ~NothingLeft(a, low, high)
    <3>1. ExtractRange(args) = StringOf(SubSeq(a.str, low + 1, LastOf(a, high) + 1))
      BY <1>4, <2>3 DEF ExtractRange, NothingLeft, LastOf, SizeOf, BitKinds
    <3>2. QED
      BY <1>4, <2>3, <3>1
  <2>4. QED
    BY <2>2, <2>3
<1>5. CASE Fine /\ a.kind \notin BitKinds \cup {"STRING"}
  BY <1>5 DEF ExtractRange
<1>6. QED
  BY <1>1, <1>2, <1>3, <1>4, <1>5

(* An extract keeps the kind of its first argument or does not evaluate.   *)
LEMMA ExtractKind ==
    ASSUME NEW args
    PROVE  ExtractRange(args).kind \in Nothing \cup {args[1].kind}
<1>1. PICK a, low, high, last : /\ a = args[1] /\ low = args[2].int /\ high = args[3].int
                                /\ last = LastOf(a, high)
  OBVIOUS
<1>2. PICK s : s = SubSeq(a.str, low + 1, last + 1)
  OBVIOUS
<1>3. \/ ExtractRange(args) \in {UndefinedLiteral, NoLiteral, BitVector(a.kind, 0, 0),
                                 Extract(a, last, low)}
      \/ a.kind = "STRING" /\ ExtractRange(args) \in {StringOf(<<>>), StringOf(s)}
  BY <1>1, <1>2, ExtractCases
<1>4. Extract(a, last, low).kind = a.kind /\ BitVector(a.kind, 0, 0).kind = a.kind
  BY Kinds DEF Extract
<1>5. QED
  BY <1>1, <1>3, <1>4, Kinds DEF Nothing

(* Whatever the operator and its arguments, the value has the kind of its  *)
(* type.                                                                   *)
LEMMA EvaluatedKind ==
    ASSUME NEW T, NEW args \in Seq(T), args # <<>>, NEW k
    PROVE  KindRight(k, args, Evaluate(k, args))
<1>1. PICK a, b : a = args[1] /\ b = args[2]
  OBVIOUS
<1>2. CASE k = "EVAL_EXTRACT"
  BY <1>1, <1>2, ExtractKind DEF Evaluate, KindRight, OpType
<1>3. CASE k = "EVAL_TO_BIN"
  BY <1>1, <1>3, BinaryKinds DEF Evaluate, KindRight, OpType, NaryOps
<1>4. CASE k \notin {"EVAL_EXTRACT", "EVAL_TO_BIN"} /\ AllSameKind(args) = "NONE"
  BY <1>4, Kinds DEF Evaluate, KindRight, Nothing
<1>5. CASE k \notin {"EVAL_EXTRACT", "EVAL_TO_BIN"} /\ AllSameKind(args) # "NONE"
  <2>1. CASE k \in NaryOps
    <3>1. Nary(k, args).kind \in {a.kind, "NONE"}
      BY <1>1, <2>1, NaryKind
    <3>2. Evaluate(k, args) = Nary(k, args)
      BY <1>5, <2>1 DEF Evaluate, NaryOps
    <3>3. QED
      BY <1>1, <2>1, <3>1, <3>2 DEF KindRight, OpType, NaryOps, Nothing
  <2>2. CASE k \in Unary
    BY <1>1, <1>5, <2>2, UnaryKinds DEF Evaluate, KindRight, OpType, NaryOps, Unary
  <2>3. CASE k \in {"EVAL_INT_DIV", "EVAL_INT_MOD"}
    <3>1. Evaluate(k, args) = IntDivMod(k, a, b)
      BY <1>1, <1>5, <2>3 DEF Evaluate, NaryOps
    <3>2. OpType(k, args) = "NUMERAL"
      BY <2>3 DEF OpType, NaryOps
    <3>3. QED
      BY <1>1, <2>3, <3>1, <3>2, IntDivKind DEF KindRight
  <2>4. CASE k \in {"EVAL_RAT_DIV", "EVAL_GT", "EVAL_FIND"}
    <3>1. CASE k = "EVAL_RAT_DIV"
      <4>1. Evaluate(k, args) = RatDiv(a, b) /\ OpType(k, args) = "RATIONAL"
        BY <1>1, <1>5, <3>1 DEF Evaluate, OpType, NaryOps
      <4>2. QED
        BY <4>1, BinaryKinds DEF KindRight
    <3>2. CASE k = "EVAL_GT"
      <4>1. Evaluate(k, args) = Gt(a, b)
        BY <1>1, <1>5, <3>2 DEF Evaluate, NaryOps
      <4>2. QED
        BY <3>2, <4>1, BinaryKinds DEF KindRight
    <3>3. CASE k = "EVAL_FIND"
      <4>1. Evaluate(k, args) = Find(a, b) /\ OpType(k, args) = "NUMERAL"
        BY <1>1, <1>5, <3>3 DEF Evaluate, OpType, NaryOps
      <4>2. QED
        BY <4>1, BinaryKinds DEF KindRight
    <3>4. QED
      BY <2>4, <3>1, <3>2, <3>3
  <2>5. CASE k \notin NaryOps \cup Unary \cup {"EVAL_INT_DIV", "EVAL_INT_MOD", "EVAL_RAT_DIV", "EVAL_GT", "EVAL_FIND"}
    <3>1. Evaluate(k, args) = NoLiteral
      BY <1>5, <2>5 DEF Evaluate, Unary
    <3>2. QED
      BY <3>1, Kinds DEF KindRight, Nothing
  <2>6. QED
    BY <2>1, <2>2, <2>3, <2>4, <2>5
<1>6. QED
  BY <1>2, <1>3, <1>4, <1>5

-----------------------------------------------------------------------------
(* Bit-vector operators *)

(* The facts about a value that are needed.                                *)
LEMMA ValueFacts ==
    ASSUME NEW l, IsValue(l)
    PROVE  /\ l.int \in Int /\ l.aux \in Nat /\ l.str \in Seq(Nat)
           /\ l.kind \in BitKinds => Fits(l)
<1>1. l.int \in Int /\ l.aux \in Nat /\ l.str \in Seq(0 .. NumCodes)
  BY DEF IsValue
<1>2. l.str \in Seq(Nat)
  <2>1. 0 .. NumCodes \subseteq Nat
    BY SMT DEF NumCodes
  <2>2. Seq(0 .. NumCodes) \subseteq Seq(Nat)
    BY <2>1, SeqMonotonic, Zenon
  <2>3. QED
    BY <1>1, <2>2, Zenon
<1>3. ASSUME l.kind \in BitKinds PROVE Fits(l)
  <2>1. PICK m \in Nat : m = 2 ^ l.aux
    BY <1>1, PowerType
  <2>2. l.int \in 0 .. m - 1
    BY <1>3, <2>1 DEF IsValue
  <2>3. l.int \in Nat /\ l.int < m
    BY <2>1, <2>2
  <2>4. QED
    BY <1>1, <1>3, <2>1, <2>3 DEF Fits
<1>4. QED
  BY <1>1, <1>2, <1>3

(* A loop over bit-vectors makes a bit-vector.                             *)
LEMMA NaryFits ==
    ASSUME NEW T, NEW args \in Seq(T), NEW k \in NaryOps, args # <<>>,
           \A l \in T : Fits(l)
    PROVE  Nary(k, args).kind \in BitKinds => Fits(Nary(k, args))
<1>1. PICK n \in Nat : Len(args) = n + 1
  <2>1. Len(args) - 1 \in Nat /\ Len(args) = (Len(args) - 1) + 1
    OBVIOUS
  <2>2. QED
    BY <2>1
<1>2. PICK base, rest : base = args[1] /\ rest = Tail(args)
  OBVIOUS
<1>a. DOMAIN rest = 1 .. n /\ Fits(base) /\ \A j \in 1 .. n : Fits(rest[j])
  <2>1. /\ DOMAIN Tail(args) = 1 .. n
        /\ \A j \in 1 .. n : Tail(args)[j] = args[j + 1]
        /\ args[1] \in T /\ \A j \in 1 .. n : args[j + 1] \in T
    BY <1>1, Others
  <2>2. QED
    BY <1>2, <2>1
<1>3. PICK acc : Accumulates(acc, k, base, rest, n) /\ Accumulated(k, base, rest) = acc[n]
  <2>1. Unfolds(k, base, rest, n)
    BY <1>a, FoldUnfolds
  <2>2. QED
    BY <2>1 DEF Unfolds
<1> DEFINE S == {j \in Nat : j <= n => Fits(acc[j])}
<1>4. 0 \in S
  BY <1>a, <1>3 DEF Accumulates
<1>5. ASSUME NEW j \in Nat, j \in S PROVE j + 1 \in S
  <2>1. SUFFICES ASSUME j + 1 <= n PROVE Fits(acc[j + 1])
    OBVIOUS
  <2>2. j \in 0 .. n - 1 /\ j + 1 \in 1 .. n /\ Fits(acc[j])
    BY <1>5, <2>1
  <2>3. acc[j + 1] = Step(k, acc[j], rest[j + 1])
    BY <1>3, <2>2 DEF Accumulates
  <2>4. PICK a, b : a = acc[j] /\ b = rest[j + 1] /\ Fits(a) /\ Fits(b)
    BY <1>a, <2>2
  <2>5. Fits(BitStep(k, a, b))
    BY <2>4, BitStepFits
  <2>6. Step(k, a, b) = BitStep(k, a, b)
    BY <2>4 DEF Step, Fits, BitKinds, Rationals
  <2>7. QED
    BY <2>3, <2>4, <2>5, <2>6
<1>6. \A j \in Nat : j \in S
  <2> HIDE DEF S
  <2>1. QED
    BY <1>4, <1>5, Inductive
<1>7. Fits(acc[n])
  BY <1>6
<1>8. Nary(k, args) \in {NoLiteral, acc[n]}
  BY <1>2, <1>3 DEF Nary
<1>9. QED
  BY <1>7, <1>8, Kinds DEF BitKinds

(* The complement within the width.                                        *)
LEMMA ComplementValue ==
    ASSUME NEW m \in Nat, m >= 1, NEW a \in Nat, a < m
    PROVE  (-a - 1) % m = m - 1 - a
<1>1. PICK r \in Nat : r = m - 1 - a /\ r < m
  OBVIOUS
<1>2. PICK x \in Int : x = -a - 1
  OBVIOUS
<1>3. x = m * (-1) + r
  BY <1>1, <1>2
<1>4. x % m = r
  <2>1. -1 \in Int
    OBVIOUS
  <2>2. QED
    BY <1>1, <1>3, <2>1, DivUnique
<1>5. QED
  BY <1>1, <1>2, <1>4

(* The complement has the bits that are not set.                           *)
LEMMA NotFacts ==
    ASSUME NEW a, Fits(a)
    PROVE  /\ Fits(Not(a)) /\ Not(a).aux = a.aux
           /\ BitsOf(Not(a)) = (0 .. a.aux - 1) \ BitsOf(a)
<1>1. PICK kind \in BitKinds, w \in Nat, n \in Nat : kind = a.kind /\ w = a.aux /\ n = a.int
  BY DEF Fits
<1>2. PICK m \in Nat : m = 2 ^ w /\ m >= 1 /\ n < m
  BY <1>1, PowerType DEF Fits
<1>3. PICK v \in Int : v = -n - 1
  OBVIOUS
<1>4. Not(a) = BitVector(kind, w, v)
  BY <1>1, <1>3 DEF Not, BitKinds
<1>5. Fits(Not(a)) /\ Not(a).aux = w
  BY <1>4, BitVectorFits
<1>6. Not(a).int = m - 1 - n
  <2>1. Not(a).int = v % m
    BY <1>2, <1>4, BitVectorFields
  <2>2. QED
    BY <1>2, <1>3, <2>1, ComplementValue
<1>7. ASSUME NEW i \in 0 .. w - 1 PROVE i \in BitsOf(Not(a)) <=> i \notin BitsOf(a)
  <2>1. n \in 0 .. 2 ^ w - 1
    BY <1>2
  <2>2. Bit(2 ^ w - 1 - n, i) = 1 - Bit(n, i)
    BY <2>1, ComplementBits
  <2>3. Bit(m - 1 - n, i) = 1 - Bit(n, i)
    BY <1>2, <2>2
  <2>4. Bit(n, i) \in {0, 1}
    <3>1. PICK p \in Nat : p = 2 ^ i /\ p >= 1
      BY PowerType
    <3>2. n \div p \in Int
      BY <3>1, DivMod
    <3>3. QED
      BY <3>1, <3>2 DEF Bit
  <2>5. i \in BitsOf(a) <=> Bit(n, i) = 1
    BY <1>1 DEF BitsOf, Bit
  <2>6. i \in BitsOf(Not(a)) <=> Bit(m - 1 - n, i) = 1
    BY <1>5, <1>6 DEF BitsOf, Bit
  <2>7. QED
    BY <2>3, <2>4, <2>5, <2>6
<1>8. BitsOf(Not(a)) \subseteq 0 .. w - 1
  BY <1>5 DEF BitsOf
<1>9. QED
  BY <1>1, <1>5, <1>7, <1>8

(* A bit-vector and its negation add up to zero.                           *)
LEMMA NegFacts ==
    ASSUME NEW a, Fits(a)
    PROVE  /\ Fits(Neg(a)) /\ Neg(a).aux = a.aux
           /\ (a.int + Neg(a).int) % (2 ^ a.aux) = 0
<1>1. PICK kind \in BitKinds, w \in Nat, n \in Nat : kind = a.kind /\ w = a.aux /\ n = a.int
  BY DEF Fits
<1>2. PICK m \in Nat : m = 2 ^ w /\ m >= 1 /\ n < m
  BY <1>1, PowerType DEF Fits
<1>3. PICK v \in Nat : v = m - n
  BY <1>2
<1>4. Neg(a) = BitVector(kind, w, v)
  <2>1. (-n - 1) % m = m - 1 - n
    BY <1>2, ComplementValue
  <2>2. ((-n - 1) % m) + 1 = v
    BY <1>3, <2>1
  <2>3. Negate(a) = BitVector(kind, w, v)
    BY <1>1, <1>2, <2>2 DEF Negate
  <2>4. Neg(a) = Negate(a)
    BY <1>1 DEF Neg, BitKinds, Rationals
  <2>5. QED
    BY <2>3, <2>4
<1>5. Fits(Neg(a)) /\ Neg(a).aux = w
  BY <1>4, BitVectorFits
<1>6. Neg(a).int = v % m
  BY <1>2, <1>4, BitVectorFields
<1>7. (n + (v % m)) % m = 0
  <2>1. CASE n = 0
    <3>1. v = m * 1 + 0 /\ v \in Int
      BY <1>3, <2>1
    <3>2. v % m = 0
      BY <1>2, <3>1, DivUnique
    <3>3. 0 % m = 0
      BY <1>2
    <3>4. n + (v % m) = 0
      BY <2>1, <3>2
    <3>5. QED
      BY <3>3, <3>4
  <2>2. CASE n # 0
    <3>1. v = m * 0 + v /\ v < m
      BY <1>2, <1>3, <2>2
    <3>2. v % m = v
      BY <1>2, <3>1, DivUnique
    <3>3. PICK x \in Int : x = n + v
      OBVIOUS
    <3>4. x = m * 1 + 0
      BY <1>2, <1>3, <3>3
    <3>5. x % m = 0
      BY <1>2, <3>4, DivUnique
    <3>6. QED
      BY <3>2, <3>3, <3>5
  <2>3. QED
    BY <2>1, <2>2
<1>8. a.int + Neg(a).int = n + (v % m)
  BY <1>1, <1>6
<1>9. QED
  BY <1>1, <1>2, <1>5, <1>7, <1>8

(* Two bit-vectors side by side.                                           *)
LEMMA ConcatFacts ==
    ASSUME NEW a, NEW b, Fits(a), Fits(b)
    PROVE  /\ Fits(Concat(a, b)) /\ Concat(a, b).aux = a.aux + b.aux
           /\ \A i \in 0 .. b.aux - 1 : i \in BitsOf(Concat(a, b)) <=> i \in BitsOf(b)
           /\ \A i \in 0 .. a.aux - 1 : b.aux + i \in BitsOf(Concat(a, b)) <=> i \in BitsOf(a)
<1>1. PICK kind \in BitKinds, w \in Nat, x \in Nat : kind = a.kind /\ w = a.aux /\ x = a.int
  BY DEF Fits
<1>2. PICK k \in Nat, y \in Nat : k = b.aux /\ y = b.int
  BY DEF Fits
<1>3. PICK p, q \in Nat : p = 2 ^ w /\ q = 2 ^ k /\ p >= 1 /\ q >= 1 /\ x < p /\ y < q
  BY <1>1, <1>2, PowerType DEF Fits
<1>4. PICK u \in Nat, z \in Nat : u = w + k /\ z = x * q + y
  OBVIOUS
<1>j. Joined(z, x, k, y)
  BY <1>3, <1>4 DEF Joined
<1>5. Concat(a, b) = BitVector(kind, u, z)
  BY <1>1, <1>2, <1>3, <1>4 DEF Concat
<1>6. Fits(Concat(a, b)) /\ Concat(a, b).aux = u
  BY <1>5, BitVectorFits
<1>7. Concat(a, b).int = z
  <2>1. z < 2 ^ u
    <3>1. 2 ^ u = p * q
      BY <1>3, <1>4, PowerSum
    <3>2. x * q + q <= p * q
      <4>1. x * q + q = (x + 1) * q
        OBVIOUS
      <4>2. (x + 1) * q <= p * q
        BY <1>3
      <4>3. QED
        BY <4>1, <4>2
    <3>3. x * q \in Nat /\ p * q \in Nat
      OBVIOUS
    <3>4. QED
      BY <1>3, <1>4, <3>1, <3>2, <3>3
  <2>2. z % 2 ^ u = z
    BY <2>1, Kept
  <2>3. QED
    BY <1>5, <2>2, BitVectorFields
<1>8. \A i : i \in BitsOf(Concat(a, b)) <=> i \in 0 .. u - 1 /\ Bit(z, i) = 1
  BY <1>6, <1>7 DEF BitsOf, Bit
<1>9. ASSUME NEW i \in 0 .. k - 1 PROVE i \in BitsOf(Concat(a, b)) <=> i \in BitsOf(b)
  <2>1. i \in Nat /\ i < k /\ i \in 0 .. u - 1
    BY <1>4
  <2>2. Bit(z, i) = Bit(y, i)
    BY <1>j, <2>1, LowerBits
  <2>3. i \in BitsOf(b) <=> Bit(y, i) = 1
    BY <1>2 DEF BitsOf, Bit
  <2>4. QED
    BY <1>8, <2>1, <2>2, <2>3
<1>10. ASSUME NEW i \in 0 .. w - 1 PROVE k + i \in BitsOf(Concat(a, b)) <=> i \in BitsOf(a)
  <2>1. PICK j \in Nat : j = k + i
    OBVIOUS
  <2>2. i \in Nat
    OBVIOUS
  <2>5. Bit(z, j) = Bit(x, i)
    BY <1>j, <2>1, <2>2, UpperBits
  <2>6. i \in BitsOf(a) <=> Bit(x, i) = 1
    BY <1>1 DEF BitsOf, Bit
  <2>7. j \in 0 .. u - 1
    BY <1>4, <2>1
  <2>8. j \in BitsOf(Concat(a, b)) <=> i \in BitsOf(a)
    BY <1>8, <2>5, <2>6, <2>7
  <2>9. QED
    BY <2>1, <2>8
<1>11. QED
  BY <1>1, <1>2, <1>4, <1>6, <1>9, <1>10

(* The upper bits and the lower bits of a concatenation.                   *)
Halves(c, a, b) == /\ {i - b.aux : i \in BitsOf(c) \ (0 .. b.aux - 1)} = BitsOf(a)
                   /\ BitsOf(c) \cap (0 .. b.aux - 1) = BitsOf(b)

(* A concatenation has the bits of its two parts.                          *)
LEMMA ConcatHalves ==
    ASSUME NEW a, NEW b, Fits(a), Fits(b)
    PROVE  Halves(Concat(a, b), a, b)
<1>1. PICK w \in Nat, k \in Nat : w = a.aux /\ k = b.aux
  BY DEF Fits
<1>c. PICK c : c = Concat(a, b)
  OBVIOUS
<1>2. /\ c.aux = w + k
      /\ \A i \in 0 .. k - 1 : i \in BitsOf(c) <=> i \in BitsOf(b)
      /\ \A i \in 0 .. w - 1 : k + i \in BitsOf(c) <=> i \in BitsOf(a)
  BY <1>1, <1>c, ConcatFacts
<1>3. BitsOf(c) \subseteq 0 .. w + k - 1 /\ BitsOf(a) \subseteq 0 .. w - 1
      /\ BitsOf(b) \subseteq 0 .. k - 1
  BY <1>1, <1>2 DEF BitsOf
<1> DEFINE H == {i - k : i \in BitsOf(c) \ (0 .. k - 1)}
<1>4. ASSUME NEW j \in H PROVE j \in BitsOf(a)
  <2>1. PICK i \in BitsOf(c) : i \notin 0 .. k - 1 /\ j = i - k
    OBVIOUS
  <2>2. j \in 0 .. w - 1 /\ k + j = i
    BY <1>3, <2>1
  <2>3. QED
    BY <1>2, <2>1, <2>2
<1>5. ASSUME NEW j \in BitsOf(a) PROVE j \in H
  <2>1. j \in 0 .. w - 1
    BY <1>3
  <2>2. PICK i \in Nat : i = k + j
    BY <2>1
  <2>3. i \in BitsOf(c) /\ i \notin 0 .. k - 1 /\ i - k = j
    BY <1>2, <2>1, <2>2
  <2>4. QED
    BY <2>3
<1>6. BitsOf(c) \cap (0 .. k - 1) = BitsOf(b)
  BY <1>2, <1>3
<1>7. QED
  BY <1>1, <1>c, <1>4, <1>5, <1>6 DEF Halves

(* With two arguments the loop is run once.                                *)
LEMMA SecondOfTwo ==
    ASSUME NEW T, NEW args \in Seq(T), NEW n \in Nat, Len(args) = n + 1
    PROVE  n = 1 => DOMAIN Tail(args) = 1 .. 1 /\ Tail(args)[1] = args[2]
<1>1. DOMAIN Tail(args) = 1 .. n /\ \A j \in 1 .. n : Tail(args)[j] = args[j + 1]
  BY Others
<1>2. HAVE n = 1
<1>3. 1 \in 1 .. n /\ 1 + 1 = 2
  BY <1>2
<1>4. QED
  BY <1>1, <1>2, <1>3

(* The concatenation of two arguments is that of two bit-vectors.          *)
LEMMA ConcatOnce ==
    ASSUME NEW T, NEW args \in Seq(T), Len(args) = 2, args[1].kind \in BitKinds
    PROVE  Nary("EVAL_CONCAT", args) = Concat(args[1], args[2])
<1>1. PICK base, rest, b : base = args[1] /\ rest = Tail(args) /\ b = args[2]
  OBVIOUS
<1>2. DOMAIN rest = 1 .. 1 /\ rest[1] = b
  <2>a. DOMAIN Tail(args) = 1 .. 1 /\ Tail(args)[1] = args[2]
    <3>1. PICK n \in Nat : n = 1 /\ Len(args) = n + 1
      OBVIOUS
    <3>2. QED
      BY <3>1, SecondOfTwo
  <2>2. QED
    BY <1>1, <2>a
<1>3. Unfolds("EVAL_CONCAT", base, rest, 1)
  BY <1>2, FoldUnfolds
<1>4. PICK acc : /\ Accumulates(acc, "EVAL_CONCAT", base, rest, 1)
                 /\ Accumulated("EVAL_CONCAT", base, rest) = acc[1]
  BY <1>3 DEF Unfolds
<1>5. acc[0] = base /\ acc[0 + 1] = Step("EVAL_CONCAT", acc[0], rest[0 + 1])
  BY <1>4 DEF Accumulates
<1>6. acc[1] = Step("EVAL_CONCAT", base, b)
  BY <1>2, <1>5
<1>7. Step("EVAL_CONCAT", base, b) = Concat(base, b)
  BY <1>1 DEF Step, BitStep, BitKinds, Rationals
<1>8. Nary("EVAL_CONCAT", args) = Accumulated("EVAL_CONCAT", base, rest)
  BY <1>1 DEF Nary
<1>9. QED
  BY <1>1, <1>4, <1>6, <1>7, <1>8

(* The bits of a from low to last.                                         *)
Selected(c, a, low, last) ==
    /\ c.kind = a.kind /\ c.aux = last - low + 1
    /\ BitsOf(c) = {i - low : i \in (low .. last) \cap BitsOf(a)}

(* An extract within the width selects the bits between its positions.     *)
LEMMA ExtractFacts ==
    ASSUME NEW a, Fits(a), NEW low \in Nat, NEW last \in Nat, low <= last, last < a.aux
    PROVE  Selected(Extract(a, last, low), a, low, last)
<1>1. PICK kind \in BitKinds, w \in Nat, n \in Nat : kind = a.kind /\ w = a.aux /\ n = a.int
  BY DEF Fits
<1>2. PICK top \in Nat, u \in Nat : top = last + 1 /\ u = last - low + 1
  OBVIOUS
<1>3. PICK y \in Nat : y = n % 2 ^ top
  <2>1. PICK m \in Nat : m = 2 ^ top /\ m >= 1
    BY PowerType
  <2>2. n % m \in Nat
    BY <2>1, DivMod
  <2>3. QED
    BY <2>1, <2>2
<1>4. PICK z \in Nat : z = y \div 2 ^ low
  <2>1. PICK m \in Nat : m = 2 ^ low /\ m >= 1
    BY PowerType
  <2>2. y \div m \in Nat
    <3>1. y \in Int /\ y >= 0
      OBVIOUS
    <3>2. QED
      BY <2>1, <3>1, DivMod
  <2>3. QED
    BY <2>1, <2>2
<1>5. PICK e : e = Extract(a, last, low)
  OBVIOUS
<1>6. e = BitVector(kind, u, z)
  BY <1>1, <1>2, <1>3, <1>4, <1>5 DEF Extract
<1>7. Fits(e) /\ e.kind = kind /\ e.aux = u
  BY <1>6, BitVectorFits
<1>8. e.int = z % 2 ^ u
  BY <1>6, BitVectorFields
<1>9. ASSUME NEW j \in 0 .. u - 1 PROVE j \in BitsOf(e) <=> low + j \in BitsOf(a)
  <2>1. PICK i \in Nat : i = low + j
    OBVIOUS
  <2>2. j \in Nat /\ j < u /\ i < top /\ i \in 0 .. w - 1
    BY <1>1, <1>2, <2>1
  <2>3. Bit(z % 2 ^ u, j) = Bit(z, j)
    BY <2>2, BitBelow
  <2>4. Bit(y \div 2 ^ low, j) = Bit(y, low + j)
    BY <2>2, BitAbove
  <2>5. Bit(n % 2 ^ top, i) = Bit(n, i)
    BY <2>2, BitBelow
  <2>6. Bit(e.int, j) = Bit(n, i)
    BY <1>3, <1>4, <1>8, <2>1, <2>3, <2>4, <2>5
  <2>7. j \in BitsOf(e) <=> Bit(e.int, j) = 1
    BY <1>7 DEF BitsOf, Bit
  <2>8. i \in BitsOf(a) <=> Bit(n, i) = 1
    BY <1>1, <2>2 DEF BitsOf, Bit
  <2>9. QED
    BY <2>1, <2>6, <2>7, <2>8
<1>10. BitsOf(e) \subseteq 0 .. u - 1
  BY <1>7 DEF BitsOf
<1> DEFINE H == {i - low : i \in (low .. last) \cap BitsOf(a)}
<1>11. ASSUME NEW j \in BitsOf(e) PROVE j \in H
  <2>1. j \in 0 .. u - 1 /\ low + j \in BitsOf(a)
    BY <1>9, <1>10
  <2>2. PICK i : i = low + j
    OBVIOUS
  <2>3. i \in low .. last /\ i - low = j
    BY <1>2, <2>1, <2>2
  <2>4. QED
    BY <2>1, <2>2, <2>3
<1>12. ASSUME NEW j \in H PROVE j \in BitsOf(e)
  <2>1. PICK i \in (low .. last) \cap BitsOf(a) : j = i - low
    OBVIOUS
  <2>2. j \in 0 .. u - 1 /\ low + j = i
    BY <1>2, <2>1
  <2>3. QED
    BY <1>9, <2>1, <2>2
<1>13. BitsOf(e) = H
  BY <1>11, <1>12
<1>14. QED
  BY <1>1, <1>2, <1>5, <1>7, <1>13 DEF Selected

(* Whatever the positions, an extract has as many bits as it is wide.      *)
LEMMA ExtractAnyFits ==
    ASSUME NEW a, Fits(a), NEW low \in Nat, NEW last \in Nat, low <= last
    PROVE  Fits(Extract(a, last, low))
<1>1. PICK kind \in BitKinds, n \in Nat : kind = a.kind /\ n = a.int
  BY DEF Fits
<1>2. PICK u \in Nat, p \in Nat, q \in Nat :
        u = last - low + 1 /\ p = 2 ^ (last + 1) /\ q = 2 ^ low /\ p >= 1 /\ q >= 1
  BY PowerType, last + 1 \in Nat, last - low + 1 \in Nat
<1>3. PICK y \in Int : y = n % p
  BY <1>2, DivMod
<1>4. PICK z \in Int : z = y \div q
  BY <1>2, DivMod
<1>5. Extract(a, last, low) = BitVector(kind, u, z)
  BY <1>1, <1>2, <1>3, <1>4 DEF Extract
<1>6. QED
  BY <1>5, BitVectorFits

(* Whatever its arguments, an extract that makes a bit-vector makes one    *)
(* that fits.                                                              *)
LEMMA ExtractFits ==
    ASSUME NEW T, NEW args \in Seq(T), \A l \in T : IsValue(l), ExtractRange(args).kind \in BitKinds
    PROVE  Fits(ExtractRange(args))
<1>1. PICK a, low, high, last : /\ a = args[1] /\ low = args[2].int /\ high = args[3].int
                                /\ last = LastOf(a, high)
  OBVIOUS
<1>2. /\ a.kind \in BitKinds /\ a.kind # "STRING"
      /\ ~(ExtractRange(args) \in {UndefinedLiteral, NoLiteral})
      /\ Len(args) >= 3
      /\ \/ NothingLeft(a, low, high) /\ ExtractRange(args) = BitVector(a.kind, 0, 0)
         \/ ~NothingLeft(a, low, high) /\ ExtractRange(args) = Extract(a, last, low)
  <2>1. ~(ExtractRange(args) \in {UndefinedLiteral, NoLiteral})
    BY Kinds DEF BitKinds
  <2>2. ExtractRange(args).kind = a.kind
    <3>1. ExtractRange(args).kind \in Nothing \cup {a.kind}
      BY <1>1, ExtractKind
    <3>2. QED
      BY <3>1 DEF Nothing, BitKinds
  <2>3. a.kind # "STRING"
    BY <2>2 DEF BitKinds
  <2>4. Len(args) >= 3
    <3>1. CASE Len(args) < 3
      BY <2>1, <3>1 DEF ExtractRange
    <3>2. QED
      BY <3>1
  <2>5. QED
    BY <1>1, <2>1, <2>2, <2>3, <2>4, ExtractCases
<1>3. IsValue(a) /\ low \in Int /\ high \in Int
  <2>1. args[1] \in T /\ args[2] \in T /\ args[3] \in T
    BY <1>2
  <2>2. QED
    BY <1>1, <2>1, ValueFacts
<1>4. Fits(a)
  BY <1>2, <1>3, ValueFacts
<1>5. PICK kind \in BitKinds, z \in Nat : kind = a.kind /\ z = 0
  BY <1>2
<1>6. Fits(BitVector(kind, z, 0))
  BY BitVectorFits
<1>7. CASE ~NothingLeft(a, low, high)
  <2>1. PICK w \in Nat : w = a.aux /\ SizeOf(a) = w
    BY <1>2, <1>4 DEF Fits, SizeOf
  <2>2. low \in Nat /\ last \in Nat /\ low <= last /\ last <= w
    BY <1>1, <1>2, <1>3, <1>7, <2>1 DEF NothingLeft, LastOf
  <2>3. Fits(Extract(a, last, low))
    BY <1>4, <2>2, ExtractAnyFits
  <2>4. QED
    BY <1>2, <1>7, <2>3
<1>8. QED
  BY <1>2, <1>5, <1>6, <1>7

(* Quotient and remainder of bit-vectors fit their width.                  *)
LEMMA DivisionFits ==
    ASSUME NEW a, NEW b, Fits(a), Fits(b)
    PROVE  Fits(UnsignedDiv(a, b)) /\ Fits(UnsignedRem(a, b))
<1>1. PICK kind \in BitKinds, w \in Nat, n \in Nat, m \in Nat :
        kind = a.kind /\ w = a.aux /\ n = a.int /\ m = b.int
  BY DEF Fits
<1>2. CASE m = 0
  <2>1. PICK bits : bits = {0} \cup 1 .. w - 1
    OBVIOUS
  <2>2. bits \in SUBSET Nat /\ IsFiniteSet(bits)
    <3>1. PICK range : range = 0 .. w /\ IsFiniteSet(range)
      BY FS_Interval
    <3>2. bits \subseteq range /\ bits \subseteq Nat
      BY <2>1, <3>1
    <3>3. IsFiniteSet(bits)
      BY <3>1, <3>2, FS_Subset
    <3>4. QED
      BY <3>2, <3>3
  <2>3. UnsignedDiv(a, b) = OfBits(kind, w, bits) /\ UnsignedRem(a, b) = a
    BY <1>1, <1>2, <2>1 DEF UnsignedDiv, UnsignedRem
  <2>4. QED
    BY <2>2, <2>3, OfBitsFits
<1>3. CASE m # 0
  <2>1. PICK q \in Nat, r \in Nat : q = n \div m /\ r = n % m
    <3>1. m >= 1
      BY <1>3
    <3>2. QED
      BY <3>1, Division DEF Divided
  <2>2. UnsignedDiv(a, b) = BitVector(kind, w, q) /\ UnsignedRem(a, b) = BitVector(kind, w, r)
    BY <1>1, <1>3, <2>1 DEF UnsignedDiv, UnsignedRem
  <2>3. QED
    BY <2>2, BitVectorFits
<1>4. QED
  BY <1>2, <1>3

(* The operators on two arguments.                                         *)
BinaryOps == {"EVAL_INT_DIV", "EVAL_INT_MOD", "EVAL_RAT_DIV", "EVAL_TO_BIN", "EVAL_FIND", "EVAL_GT"}

(* How many arguments there are.                                           *)
LEMMA Arity ==
    ASSUME NEW k, NEW n \in Nat, ArityOk(k, n)
    PROVE  n >= 1 /\ (k \in BinaryOps => n >= 2)
<1>1. CASE k \in BinaryOps
  <2>1. k \notin NaryOps /\ k # "EVAL_EXTRACT"
    BY <1>1 DEF BinaryOps, NaryOps
  <2>2. n = 2
    BY <1>1, <2>1 DEF ArityOk, BinaryOps
  <2>3. QED
    BY <2>2
<1>2. CASE k \notin BinaryOps
  <2>1. n = 1 \/ n = 2 \/ n = 3 \/ n >= 2
    BY <1>2 DEF ArityOk, BinaryOps, NaryOps
  <2>2. QED
    BY <1>2, <2>1
<1>3. QED
  BY <1>1, <1>2

(* The arguments that an operator of this arity reads exist.               *)
LEMMA FirstTwo ==
    ASSUME NEW T, NEW args \in Seq(T), NEW k, ArityOk(k, Len(args))
    PROVE  /\ args # <<>> /\ args[1] \in T /\ 1 \in DOMAIN args
           /\ k \in BinaryOps => args[2] \in T /\ 2 \in DOMAIN args
<1>1. PICK n \in Nat : n = Len(args)
  OBVIOUS
<1>2. n >= 1 /\ (k \in BinaryOps => n >= 2)
  BY <1>1, Arity
<1>3. QED
  BY <1>1, <1>2

(* What is not evaluated by an operator that makes bit-vectors.            *)
LEMMA EvaluatedFits ==
    ASSUME NEW T, NEW args \in Seq(T), \A l \in T : IsValue(l), NEW k, ArityOk(k, Len(args)),
           Evaluate(k, args).kind \in BitKinds
    PROVE  Fits(Evaluate(k, args))
<1>1. args # <<>> /\ args[1] \in T
  BY FirstTwo
<1>2. PICK a, b : a = args[1] /\ b = args[2]
  OBVIOUS
<1>3. IsValue(a)
  BY <1>1, <1>2
<1>4. CASE k = "EVAL_EXTRACT"
  <2>1. Evaluate(k, args) = ExtractRange(args)
    BY <1>4 DEF Evaluate
  <2>2. QED
    BY <2>1, ExtractFits
<1>5. CASE k = "EVAL_TO_BIN"
  <2>1. Evaluate(k, args) = ToBin(a, b)
    BY <1>2, <1>5 DEF Evaluate
  <2>2. b \in T
    BY <1>2, <1>5, FirstTwo DEF BinaryOps
  <2>3. ToBin(a, b) = BitVector("BINARY", a.int, b.int) /\ FitsUnsigned(a.int)
    <3>1. CASE a.kind = "NUMERAL" /\ FitsUnsigned(a.int) /\ b.kind \in BitKinds \cup {"NUMERAL"}
      BY <3>1 DEF ToBin
    <3>2. CASE ~(a.kind = "NUMERAL" /\ FitsUnsigned(a.int) /\ b.kind \in BitKinds \cup {"NUMERAL"})
      <4>1. ToBin(a, b) = NoLiteral
        BY <3>2 DEF ToBin
      <4>2. QED
        BY <2>1, <4>1, Kinds DEF BitKinds
    <3>3. QED
      BY <3>1, <3>2
  <2>4. PICK kind \in BitKinds, w \in Nat, n \in Int : kind = "BINARY" /\ w = a.int /\ n = b.int
    BY <1>3, <2>2, <2>3, ValueFacts DEF FitsUnsigned, BitKinds
  <2>5. QED
    BY <2>1, <2>3, <2>4, BitVectorFits
<1>6. CASE k \notin {"EVAL_EXTRACT", "EVAL_TO_BIN"}
  <2>1. AllSameKind(args) # "NONE"
    <3>1. CASE AllSameKind(args) = "NONE"
      <4>1. Evaluate(k, args) = NoLiteral
        BY <1>6, <3>1 DEF Evaluate
      <4>2. QED
        BY <4>1, Kinds DEF BitKinds
    <3>2. QED
      BY <3>1
  <2>2. \A i \in DOMAIN args : args[i].kind = a.kind
    BY <1>2, <2>1 DEF AllSameKind
  <2>3. KindRight(k, args, Evaluate(k, args))
    BY <1>1, EvaluatedKind
  <2>4. k \in NaryOps \cup {"EVAL_NOT", "EVAL_NEG", "EVAL_INT_DIV", "EVAL_INT_MOD"} /\ a.kind \in BitKinds
    <3>1. CASE k \in {"EVAL_INT_DIV", "EVAL_INT_MOD"}
      <4>1. OpType(k, args) = "NUMERAL"
        BY <3>1 DEF OpType, NaryOps
      <4>2. QED
        BY <1>2, <2>3, <3>1, <4>1 DEF KindRight, Nothing, BitKinds
    <3>2. CASE k = "EVAL_GT"
      <4>1. OpType(k, args) = "NONE"
        BY <3>2 DEF OpType, NaryOps
      <4>2. QED
        BY <2>3, <3>2, <4>1 DEF KindRight, Nothing, BitKinds
    <3>3. CASE k \notin {"EVAL_INT_DIV", "EVAL_INT_MOD", "EVAL_GT"}
      <4>1. OpType(k, args) \in BitKinds
        BY <2>3, <3>3 DEF KindRight, Nothing, BitKinds
      <4>2. k \in NaryOps \cup {"EVAL_NOT", "EVAL_NEG"} /\ OpType(k, args) = a.kind
        BY <1>2, <1>6, <4>1 DEF OpType, BitKinds
      <4>3. QED
        BY <4>1, <4>2
    <3>4. QED
      BY <3>1, <3>2, <3>3
  <2>5. Fits(a)
    BY <1>3, <2>4, ValueFacts
  <2>6. CASE k \in NaryOps
    <3>1. Evaluate(k, args) = Nary(k, args)
      BY <1>6, <2>1, <2>6 DEF Evaluate, NaryOps
    <3>2. \A i \in 1 .. Len(args) : args[i] \in {l \in T : Fits(l)}
      BY <2>2, <2>4, ValueFacts
    <3>3. args \in Seq({l \in T : Fits(l)})
      BY <3>2
    <3>4. QED
      BY <1>1, <2>6, <3>1, <3>3, NaryFits
  <2>7. CASE k = "EVAL_NOT"
    <3>1. Evaluate(k, args) = Not(a)
      BY <1>2, <2>1, <2>7 DEF Evaluate, NaryOps
    <3>2. QED
      BY <2>5, <3>1, NotFacts
  <2>8. CASE k = "EVAL_NEG"
    <3>1. Evaluate(k, args) = Neg(a)
      BY <1>2, <2>1, <2>8 DEF Evaluate, NaryOps
    <3>2. QED
      BY <2>5, <3>1, NegFacts
  <2>9. CASE k \in {"EVAL_INT_DIV", "EVAL_INT_MOD"}
    <3>1. Evaluate(k, args) = IntDivMod(k, a, b)
      BY <1>2, <2>1, <2>9 DEF Evaluate, NaryOps
    <3>2. b \in T /\ b.kind = a.kind
      <4>1. args[2] \in T /\ 2 \in DOMAIN args
        BY <2>9, FirstTwo DEF BinaryOps
      <4>2. QED
        BY <1>2, <2>2, <4>1
    <3>3. Fits(b)
      BY <2>4, <3>2, ValueFacts
    <3>4. IntDivMod(k, a, b) \in {UnsignedDiv(a, b), UnsignedRem(a, b), NoLiteral}
      BY <2>4 DEF IntDivMod, BitKinds
    <3>5. QED
      BY <2>5, <3>1, <3>3, <3>4, DivisionFits, Kinds DEF BitKinds
  <2>10. QED
    BY <2>4, <2>6, <2>7, <2>8, <2>9
<1>7. QED
  BY <1>4, <1>5, <1>6

-----------------------------------------------------------------------------
(* What the operators compute *)

(* What a bit-vector operator makes of its arguments.                      *)
LEMMA EvaluatedBits ==
    ASSUME NEW T, NEW args \in Seq(T), \A l \in T : IsValue(l), NEW k, ArityOk(k, Len(args)),
           NEW l, l = Evaluate(k, args), l.kind \in BitKinds,
           NEW a, a = args[1], NEW b, b = args[2]
    PROVE  /\ k = "EVAL_NEG" => l.aux = a.aux /\ (a.int + l.int) % (2 ^ l.aux) = 0
           /\ k = "EVAL_NOT" => BitsOf(l) = (0 .. l.aux - 1) \ BitsOf(a)
           /\ k = "EVAL_CONCAT" /\ Len(args) = 2 =>
                 /\ l.aux = a.aux + b.aux
                 /\ Halves(l, a, b)
<1>1. args # <<>> /\ a \in T /\ 1 \in DOMAIN args
  BY FirstTwo
<1>2. SUFFICES ASSUME k \in {"EVAL_NEG", "EVAL_NOT", "EVAL_CONCAT"}
               PROVE  /\ k = "EVAL_NEG" => l.aux = a.aux /\ (a.int + l.int) % (2 ^ l.aux) = 0
                      /\ k = "EVAL_NOT" => BitsOf(l) = (0 .. l.aux - 1) \ BitsOf(a)
                      /\ k = "EVAL_CONCAT" /\ Len(args) = 2 =>
                            /\ l.aux = a.aux + b.aux
                            /\ Halves(l, a, b)
  OBVIOUS
<1>3. AllSameKind(args) # "NONE" /\ a.kind \in BitKinds
  <2>1. KindRight(k, args, l)
    BY <1>1, EvaluatedKind
  <2>2. OpType(k, args) = a.kind
    BY <1>2 DEF OpType, NaryOps
  <2>3. l.kind = a.kind
    BY <1>2, <2>1, <2>2 DEF KindRight, Nothing, BitKinds
  <2>4. CASE AllSameKind(args) = "NONE"
    <3>1. l = NoLiteral
      BY <1>2, <2>4 DEF Evaluate
    <3>2. QED
      BY <3>1, Kinds DEF BitKinds
  <2>5. QED
    BY <2>3, <2>4
<1>4. Fits(a)
  BY <1>1, <1>3, ValueFacts
<1>5. CASE k = "EVAL_NEG"
  <2>1. l = Neg(a)
    BY <1>3, <1>5 DEF Evaluate, NaryOps
  <2>2. Neg(a).aux = a.aux /\ (a.int + Neg(a).int) % (2 ^ a.aux) = 0
    BY <1>4, NegFacts
  <2>3. QED
    BY <1>5, <2>1, <2>2
<1>6. CASE k = "EVAL_NOT"
  <2>1. l = Not(a)
    BY <1>3, <1>6 DEF Evaluate, NaryOps
  <2>2. Not(a).aux = a.aux /\ BitsOf(Not(a)) = (0 .. a.aux - 1) \ BitsOf(a)
    BY <1>4, NotFacts
  <2>3. QED
    BY <1>6, <2>1, <2>2
<1>7. CASE k = "EVAL_CONCAT" /\ Len(args) = 2
  <2>1. l = Nary("EVAL_CONCAT", args)
    BY <1>3, <1>7 DEF Evaluate, NaryOps
  <2>2. Nary("EVAL_CONCAT", args) = Concat(a, b)
    BY <1>3, <1>7, ConcatOnce
  <2>3. b \in T /\ b.kind = a.kind
    <3>1. 2 \in 1 .. Len(args)
      BY <1>7
    <3>2. args[2] \in T /\ 2 \in DOMAIN args
      BY <3>1
    <3>3. QED
      BY <1>3, <3>2 DEF AllSameKind
  <2>4. Fits(b)
    BY <1>3, <2>3, ValueFacts
  <2>5. Concat(a, b).aux = a.aux + b.aux
    BY <1>4, <2>4, ConcatFacts
  <2>6. Halves(Concat(a, b), a, b)
    BY <1>4, <2>4, ConcatHalves
  <2>7. QED
    BY <1>7, <2>1, <2>2, <2>5, <2>6
<1>8. QED
  BY <1>5, <1>6, <1>7

(* The quotient by zero is all ones.                                       *)
LEMMA AllOnes ==
    ASSUME NEW a, NEW b, Fits(a), b.int = 0
    PROVE  UnsignedDiv(a, b).int = 2 ^ a.aux - 1
<1>1. PICK kind \in BitKinds, w \in Nat : kind = a.kind /\ w = a.aux
  BY DEF Fits
<1>2. PICK bits, powers : bits = {0} \cup 1 .. w - 1 /\ powers = {2 ^ i : i \in bits}
  OBVIOUS
<1>3. PICK m \in Nat : m = 2 ^ w /\ m >= 1
  BY PowerType
<1>4. PICK s : s = SumSet(powers)
  OBVIOUS
<1>5. UnsignedDiv(a, b).int = s % m
  <2>1. UnsignedDiv(a, b) = BitVector(kind, w, s)
    BY <1>1, <1>2, <1>4 DEF UnsignedDiv, OfBits
  <2>2. QED
    BY <1>3, <2>1, BitVectorFields
<1>6. CASE w = 0
  <2>1. bits = {0}
    BY <1>2, <1>6
  <2>2. powers = {1}
    BY <1>2, <2>1, PowerZero
  <2>3. s \in Nat
    <3>1. PICK one : one = {1}
      OBVIOUS
    <3>2. IsFiniteSet(one)
      BY <3>1, FS_Singleton
    <3>3. SumSet(one) \in Nat
      <4>1. one \subseteq Nat
        BY <3>1
      <4>2. QED
        BY <3>2, <4>1, SumType
    <3>4. QED
      BY <1>4, <2>2, <3>1, <3>3
  <2>4. m = 1
    BY <1>3, <1>6, PowerZero
  <2>5. s % m = 0
    BY <2>3, <2>4
  <2>6. QED
    BY <1>1, <1>3, <1>5, <2>4, <2>5
<1>7. CASE w # 0
  <2>1. bits = 0 .. w - 1
    BY <1>2, <1>7
  <2>2. powers = PowersBelow(w)
    BY <1>2, <2>1 DEF PowersBelow
  <2>3. s = m - 1
    BY <1>3, <1>4, <2>2, SumOfPowers
  <2>4. s % m = s
    <3>1. s \in Nat /\ s < 2 ^ w
      BY <1>3, <2>3
    <3>2. QED
      BY <1>3, <3>1, Kept
  <2>5. QED
    BY <1>1, <1>3, <1>5, <2>3, <2>4
<1>8. QED
  BY <1>6, <1>7

(* Quotient and remainder of bit-vectors recompose the dividend.           *)
LEMMA UnsignedRecomposes ==
    ASSUME NEW a, NEW b, Fits(a), Fits(b), b.int # 0,
           NEW q, q = UnsignedDiv(a, b).int, NEW r, r = UnsignedRem(a, b).int
    PROVE  a.int = b.int * q + r /\ r \in Nat /\ r < b.int
<1>1. PICK kind \in BitKinds, w \in Nat, x \in Nat, y \in Nat :
        kind = a.kind /\ w = a.aux /\ x = a.int /\ y = b.int /\ y >= 1
  BY DEF Fits
<1>2. PICK m \in Nat : m = 2 ^ w /\ m >= 1 /\ x < m
  BY <1>1, PowerType DEF Fits
<1>3. PICK u, v \in Nat : v < y /\ u = x \div y /\ v = x % y /\ x = y * u + v
  BY <1>1, Division DEF Divided
<1>4. u <= x /\ v <= x
  <2>1. y * u >= u
    BY <1>1
  <2>2. y * u \in Nat
    OBVIOUS
  <2>3. QED
    BY <1>3, <2>1, <2>2
<1>5. u % 2 ^ w = u /\ v % 2 ^ w = v
  <2>1. u < 2 ^ w /\ v < 2 ^ w
    BY <1>2, <1>4
  <2>2. QED
    BY <2>1, Kept
<1>6. q = u /\ r = v
  <2>1. UnsignedDiv(a, b) = BitVector(kind, w, u) /\ UnsignedRem(a, b) = BitVector(kind, w, v)
    BY <1>1, <1>3 DEF UnsignedDiv, UnsignedRem
  <2>2. QED
    BY <1>5, <2>1, BitVectorFields
<1>7. QED
  BY <1>1, <1>3, <1>6

-----------------------------------------------------------------------------
(* Division *)

(* The quotient that is rounded down and its remainder (mpz_fdiv_q and     *)
(* mpz_fdiv_r).                                                            *)
LEMMA FloorFacts ==
    ASSUME NEW x \in Int, NEW y \in Int, y # 0
    PROVE  /\ FloorQuotient(x, y) \in Int /\ FloorRemainder(x, y) \in Int
           /\ x = y * FloorQuotient(x, y) + FloorRemainder(x, y)
           /\ y > 0 => 0 <= FloorRemainder(x, y) /\ FloorRemainder(x, y) < y
           /\ y < 0 => y < FloorRemainder(x, y) /\ FloorRemainder(x, y) <= 0
<1> DEFINE q == FloorQuotient(x, y)
<1>1. CASE y > 0
  <2>1. q = x \div y
    BY <1>1 DEF FloorQuotient
  <2>2. x \div y \in Int /\ y * (x \div y) <= x /\ x < y * (x \div y) + y
    BY <1>1
  <2>3. PICK d : d = x \div y
    OBVIOUS
  <2>4. d \in Int /\ y * d \in Int /\ y * d <= x /\ x < y * d + y
    BY <2>2, <2>3
  <2>5. FloorRemainder(x, y) = x - y * d
    BY <2>1, <2>3 DEF FloorRemainder
  <2>6. QED
    BY <1>1, <2>1, <2>3, <2>4, <2>5
<1>2. CASE y < 0
  <2>1. q = (-x) \div (-y)
    BY <1>2 DEF FloorQuotient
  <2>2. PICK u, v : u = -x /\ v = -y
    OBVIOUS
  <2>3. u \in Int /\ v \in Int /\ v > 0
    BY <1>2, <2>2
  <2>4. u \div v \in Int /\ v * (u \div v) <= u /\ u < v * (u \div v) + v
    BY <2>3
  <2>5. PICK d : d = u \div v
    OBVIOUS
  <2>6. d \in Int /\ v * d \in Int /\ v * d <= u /\ u < v * d + v
    BY <2>3, <2>4, <2>5
  <2>7. y * d = -(v * d) /\ y * d \in Int
    BY <2>2, <2>6
  <2>8. FloorRemainder(x, y) = x - y * d
    BY <2>1, <2>2, <2>5 DEF FloorRemainder
  <2>9. QED
    BY <1>2, <2>1, <2>2, <2>5, <2>6, <2>7, <2>8
<1>3. QED
  BY <1>1, <1>2

(* Whatever the signs: the quotient and the remainder of eo::zdiv and      *)
(* eo::zmod recompose the dividend, and the remainder is not negative and  *)
(* smaller than the divisor (Integer::euclidianQR).                        *)
THEOREM DivisionIsEuclidean ==
    ASSUME NEW x \in Int, NEW y \in Int, y # 0
    PROVE  /\ x = y * Euclidean(x, y)[1] + Euclidean(x, y)[2]
           /\ Euclidean(x, y)[2] \in Nat /\ Euclidean(x, y)[2] < Abs(y)
<1>1. PICK q, r : q = FloorQuotient(x, y) /\ r = FloorRemainder(x, y)
  OBVIOUS
<1>2. /\ q \in Int /\ r \in Int /\ x = y * q + r
      /\ y > 0 => 0 <= r /\ r < y
      /\ y < 0 => y < r /\ r <= 0
  BY <1>1, FloorFacts
<1>3. y * (q + 1) = y * q + y /\ y * q \in Int
  BY <1>2
<1>4. Euclidean(x, y) = IF r < 0 THEN <<q + 1, r - y>> ELSE <<q, r>>
  BY <1>1 DEF Euclidean
<1>5. CASE r < 0
  <2>1. Euclidean(x, y)[1] = q + 1 /\ Euclidean(x, y)[2] = r - y
    BY <1>4, <1>5
  <2>2. x = y * (q + 1) + (r - y) /\ r - y \in Nat /\ r - y < Abs(y)
    BY <1>2, <1>3, <1>5 DEF Abs
  <2>3. QED
    BY <2>1, <2>2
<1>6. CASE ~(r < 0)
  <2>1. Euclidean(x, y)[1] = q /\ Euclidean(x, y)[2] = r
    BY <1>4, <1>6
  <2>2. r \in Nat /\ r < Abs(y)
    BY <1>2, <1>6 DEF Abs
  <2>3. QED
    BY <1>2, <2>1, <2>2
<1>7. QED
  BY <1>5, <1>6

(* Which quotient and which remainder the operators compute.               *)
LEMMA DivisionCases ==
    ASSUME NEW args, NEW k \in {"EVAL_INT_DIV", "EVAL_INT_MOD"}, Evaluate(k, args) # NoLiteral,
           NEW a, a = args[1], NEW b, b = args[2],
           NEW q, q = Evaluate("EVAL_INT_DIV", args), NEW r, r = Evaluate("EVAL_INT_MOD", args)
    PROVE  /\ AllSameKind(args) # "NONE"
           /\ \/ /\ a.kind = "NUMERAL" /\ b.int # 0
                 /\ q = Numeral(Euclidean(a.int, b.int)[1])
                 /\ r = Numeral(Euclidean(a.int, b.int)[2])
              \/ /\ a.kind \in BitKinds /\ a.aux = b.aux
                 /\ q = UnsignedDiv(a, b) /\ r = UnsignedRem(a, b)
<1>1. AllSameKind(args) # "NONE"
  BY DEF Evaluate
<1>2. q = IntDivMod("EVAL_INT_DIV", a, b) /\ r = IntDivMod("EVAL_INT_MOD", a, b)
  BY <1>1 DEF Evaluate, NaryOps
<1>3. CASE a.kind = "NUMERAL" /\ b.int # 0
  <2>1. PICK e : e = Euclidean(a.int, b.int)
    OBVIOUS
  <2>2. q = Numeral(e[1])
    <3>1. (IF "EVAL_INT_DIV" = "EVAL_INT_DIV" THEN 1 ELSE 2) = 1
      OBVIOUS
    <3>2. QED
      BY <1>2, <1>3, <2>1, <3>1 DEF IntDivMod, BitKinds
  <2>3. r = Numeral(e[2])
    <3>1. (IF "EVAL_INT_MOD" = "EVAL_INT_DIV" THEN 1 ELSE 2) = 2
      OBVIOUS
    <3>2. QED
      BY <1>2, <1>3, <2>1, <3>1 DEF IntDivMod, BitKinds
  <2>4. QED
    BY <1>1, <1>3, <2>1, <2>2, <2>3
<1>4. CASE a.kind \in BitKinds /\ a.aux = b.aux
  <2>1. q = UnsignedDiv(a, b) /\ r = UnsignedRem(a, b)
    BY <1>2, <1>4 DEF IntDivMod, BitKinds
  <2>2. QED
    BY <1>1, <1>4, <2>1
<1>5. CASE ~(a.kind = "NUMERAL" /\ b.int # 0) /\ ~(a.kind \in BitKinds /\ a.aux = b.aux)
  <2>1. IntDivMod(k, a, b) = NoLiteral
    BY <1>5 DEF IntDivMod
  <2>2. QED
    BY <1>2, <2>1
<1>6. QED
  BY <1>3, <1>4, <1>5

(* What makes q and r the Euclidean quotient and remainder of x by y.      *)
Recomposes(x, y, q, r) == x = y * q + r /\ r \in Nat /\ r < Abs(y)

(* What eo::zdiv and eo::zmod make of their arguments, numerals or         *)
(* bit-vectors.                                                            *)
LEMMA EvaluatedDivision ==
    ASSUME NEW T, NEW args \in Seq(T), \A l \in T : IsValue(l),
           NEW k \in {"EVAL_INT_DIV", "EVAL_INT_MOD"}, ArityOk(k, Len(args)),
           Evaluate(k, args) # NoLiteral,
           NEW a, a = args[1], NEW b, b = args[2],
           NEW q, q = Evaluate("EVAL_INT_DIV", args).int,
           NEW r, r = Evaluate("EVAL_INT_MOD", args).int
    PROVE  IF b.int = 0 THEN q = 2 ^ a.aux - 1 /\ r = a.int ELSE Recomposes(a.int, b.int, q, r)
<1>1. a \in T /\ b \in T /\ args # <<>> /\ 2 \in DOMAIN args
  BY FirstTwo DEF BinaryOps
<1>2. PICK s, t : s = Evaluate("EVAL_INT_DIV", args) /\ t = Evaluate("EVAL_INT_MOD", args)
  OBVIOUS
<1>3. /\ AllSameKind(args) # "NONE"
      /\ \/ /\ a.kind = "NUMERAL" /\ b.int # 0
            /\ s = Numeral(Euclidean(a.int, b.int)[1]) /\ t = Numeral(Euclidean(a.int, b.int)[2])
         \/ /\ a.kind \in BitKinds /\ a.aux = b.aux
            /\ s = UnsignedDiv(a, b) /\ t = UnsignedRem(a, b)
  BY <1>2, DivisionCases
<1>4. CASE a.kind = "NUMERAL"
  <2>1. /\ b.int # 0
        /\ s = Numeral(Euclidean(a.int, b.int)[1]) /\ t = Numeral(Euclidean(a.int, b.int)[2])
    BY <1>3, <1>4 DEF BitKinds
  <2>2. PICK x \in Int, y \in Int : x = a.int /\ y = b.int
    BY <1>1, ValueFacts
  <2>3. q = Euclidean(x, y)[1] /\ r = Euclidean(x, y)[2]
    BY <1>2, <2>1, <2>2, Fields DEF Numeral
  <2>4. Recomposes(x, y, q, r)
    BY <2>1, <2>2, <2>3, DivisionIsEuclidean DEF Recomposes
  <2>5. QED
    BY <2>1, <2>2, <2>4
<1>5. CASE a.kind \in BitKinds
  <2>1. q = UnsignedDiv(a, b).int /\ r = UnsignedRem(a, b).int
    BY <1>2, <1>3, <1>5 DEF BitKinds
  <2>2. b.kind = a.kind
    BY <1>1, <1>3 DEF AllSameKind
  <2>3. Fits(a) /\ Fits(b)
    BY <1>1, <1>5, <2>2, ValueFacts
  <2>4. CASE b.int = 0
    <3>1. q = 2 ^ a.aux - 1
      BY <2>1, <2>3, <2>4, AllOnes
    <3>2. r = a.int
      BY <2>1, <2>4 DEF UnsignedRem
    <3>3. QED
      BY <2>4, <3>1, <3>2
  <2>5. CASE b.int # 0
    <3>1. a.int = b.int * q + r /\ r \in Nat /\ r < b.int
      BY <2>1, <2>3, <2>5, UnsignedRecomposes
    <3>2. Abs(b.int) = b.int
      BY <2>3 DEF Abs, Fits
    <3>3. QED
      BY <2>5, <3>1, <3>2 DEF Recomposes
  <2>6. QED
    BY <2>4, <2>5
<1>6. QED
  BY <1>3, <1>4, <1>5

-----------------------------------------------------------------------------
(* Extract *)

(* The positions of an extract that exist.                                 *)
ChosenOf(size, low, high) ==
    IF low < 0 \/ high < 0 THEN {} ELSE {i \in 0 .. size - 1 : low <= i /\ i <= high}

(* The upper position, at most the last that exists.                       *)
Clamped(size, high) == IF high >= size THEN size - 1 ELSE high

(* No position is left.                                                    *)
OutOfRange(size, low, high) ==
    low < 0 \/ high < 0 \/ low > size \/ size = 0 \/ low > Clamped(size, high)

(* The positions that exist are an interval up to the clamped index.       *)
LEMMA ChosenFacts ==
    ASSUME NEW size \in Nat, NEW low \in Int, NEW high \in Int,
           NEW chosen, chosen = ChosenOf(size, low, high), NEW last, last = Clamped(size, high)
    PROVE  \/ OutOfRange(size, low, high) /\ chosen = {} /\ Cardinality(chosen) = 0
           \/ /\ ~OutOfRange(size, low, high)
              /\ low \in Nat /\ last \in Nat /\ low <= last /\ last < size
              /\ chosen = low .. last /\ Cardinality(chosen) = last - low + 1
<1>1. CASE OutOfRange(size, low, high)
  <2>1. chosen = {}
    BY <1>1 DEF ChosenOf, OutOfRange, Clamped
  <2>2. Cardinality(chosen) = 0
    BY <2>1, FS_EmptySet
  <2>3. QED
    BY <1>1, <2>1, <2>2
<1>2. CASE ~OutOfRange(size, low, high)
  <2>1. low \in Nat /\ last \in Nat /\ low <= last /\ last < size
    BY <1>2 DEF OutOfRange, Clamped
  <2>2. chosen = low .. last
    <3>1. chosen = {i \in 0 .. size - 1 : low <= i /\ i <= high}
      BY <1>2 DEF ChosenOf, OutOfRange
    <3>2. QED
      BY <2>1, <3>1 DEF Clamped
  <2>3. Cardinality(low .. last) = last - low + 1
    BY <2>1, FS_Interval
  <2>4. QED
    BY <1>2, <2>1, <2>2, <2>3
<1>3. QED
  BY <1>1, <1>2

(* The characters of s from low to last.                                   *)
CharsBetween(s, low, last) == [i \in 1 .. last - low + 1 |-> s[low + i]]

(* SubSeq gives the characters from low to last.                           *)
LEMMA PieceOfString ==
    ASSUME NEW s \in Seq(Nat), NEW low \in Nat, NEW last \in Nat, low <= last, last < Len(s)
    PROVE  SubSeq(s, low + 1, last + 1) = CharsBetween(s, low, last)
<1>1. PICK m \in Int, n \in Int, k \in Nat : m = low + 1 /\ n = last + 1 /\ k = last - low + 1
  OBVIOUS
<1>2. PICK t : t = SubSeq(s, m, n)
  OBVIOUS
<1>3. t \in Seq(Nat) /\ Len(t) = k /\ \A i \in 1 .. k : t[i] = s[low + i]
  <2>1. \A i \in m .. n : s[i] \in Nat
    BY <1>1
  <2>2. t \in Seq(Nat)
    BY <1>2, <2>1, SubSeqProperties
  <2>3. Len(t) = k
    BY <1>1, <1>2, <2>1, SubSeqProperties
  <2>4. ASSUME NEW i \in 1 .. k PROVE t[i] = s[low + i]
    <3>1. i \in 1 .. n - m + 1 /\ m + i - 1 = low + i
      BY <1>1
    <3>2. t[i] = s[m + i - 1]
      BY <1>1, <1>2, <2>1, <3>1, SubSeqProperties
    <3>3. QED
      BY <3>1, <3>2
  <2>5. QED
    BY <2>2, <2>3, <2>4
<1>4. t = [i \in 1 .. k |-> t[i]]
  BY <1>3
<1>5. QED
  BY <1>1, <1>2, <1>3, <1>4 DEF CharsBetween

(* The characters or bits of a at the chosen positions; the upper position *)
(* may be any but the width of a bit-vector.                               *)
Selection(v, a, low, high, size, chosen) ==
    /\ a.kind = "STRING" => v = StringOf([i \in 1 .. Cardinality(chosen) |-> a.str[low + i]])
    /\ a.kind \in BitKinds /\ high # size =>
          /\ v.kind = a.kind /\ v.aux = Cardinality(chosen)
          /\ BitsOf(v) = {i - low : i \in chosen \cap BitsOf(a)}

(* What eo::extract selects of a string or a bit-vector.                   *)
LEMMA EvaluatedExtract ==
    ASSUME NEW T, NEW args \in Seq(T), \A l \in T : IsValue(l), Len(args) >= 3,
           args[2].kind = "NUMERAL", args[3].kind = "NUMERAL",
           NEW a, a = args[1], NEW low, low = args[2].int, NEW high, high = args[3].int,
           NEW size, size = SizeOf(a), NEW chosen, chosen = ChosenOf(size, low, high),
           NEW v, v = Evaluate("EVAL_EXTRACT", args)
    PROVE  Selection(v, a, low, high, size, chosen)
<1>1. IsValue(a) /\ low \in Int /\ high \in Int
  <2>1. args[1] \in T /\ args[2] \in T /\ args[3] \in T
    OBVIOUS
  <2>2. QED
    BY <2>1, ValueFacts
<1>2. v = ExtractRange(args)
  BY DEF Evaluate
<1>3. size \in Nat /\ a.aux \in Nat /\ a.str \in Seq(Nat)
  BY <1>1, ValueFacts DEF SizeOf
<1>4. PICK last : last = Clamped(size, high)
  OBVIOUS
<1>5. \/ OutOfRange(size, low, high) /\ chosen = {} /\ Cardinality(chosen) = 0
      \/ /\ ~OutOfRange(size, low, high)
         /\ low \in Nat /\ last \in Nat /\ low <= last /\ last < size
         /\ chosen = low .. last /\ Cardinality(chosen) = last - low + 1
  BY <1>1, <1>3, <1>4, ChosenFacts
<1>6. ASSUME a.kind = "STRING"
      PROVE  v = StringOf([i \in 1 .. Cardinality(chosen) |-> a.str[low + i]])
  <2>1. size = Len(a.str) /\ LastOf(a, high) = last
    BY <1>4, <1>6 DEF SizeOf, LastOf, Clamped
  <2>2. NothingLeft(a, low, high) <=> OutOfRange(size, low, high)
    BY <1>4, <2>1 DEF NothingLeft, OutOfRange
  <2>3. v = StringOf(IF OutOfRange(size, low, high) THEN <<>> ELSE SubSeq(a.str, low + 1, last + 1))
    <3>1. a.kind \notin BitKinds /\ a.kind \in BitKinds \cup {"STRING"}
      BY <1>6 DEF BitKinds
    <3>2. CASE NothingLeft(a, low, high)
      BY <1>2, <2>2, <3>1, <3>2, ExtractCases
    <3>3. CASE ~NothingLeft(a, low, high)
      BY <1>2, <2>1, <2>2, <3>1, <3>3, ExtractCases
    <3>4. QED
      BY <3>2, <3>3
  <2>4. CASE OutOfRange(size, low, high)
    <3>1. [i \in 1 .. Cardinality(chosen) |-> a.str[low + i]] = <<>>
      BY <1>5, <2>4
    <3>2. QED
      BY <2>3, <2>4, <3>1
  <2>5. CASE ~OutOfRange(size, low, high)
    <3>1. SubSeq(a.str, low + 1, last + 1) = CharsBetween(a.str, low, last)
      <4>1. PICK s \in Seq(Nat) : s = a.str
        BY <1>3
      <4>2. low \in Nat /\ last \in Nat /\ low <= last /\ last < size
        BY <1>5, <2>5
      <4>3. last < Len(s)
        BY <2>1, <4>1, <4>2
      <4>4. SubSeq(s, low + 1, last + 1) = CharsBetween(s, low, last)
        BY <4>2, <4>3, PieceOfString
      <4>5. QED
        BY <4>1, <4>4
    <3>2. v = StringOf(CharsBetween(a.str, low, last))
      BY <2>3, <2>5, <3>1
    <3>3. QED
      BY <1>5, <2>5, <3>2 DEF CharsBetween
  <2>6. QED
    BY <2>4, <2>5
<1>7. ASSUME a.kind \in BitKinds, high # size
      PROVE  /\ v.kind = a.kind /\ v.aux = Cardinality(chosen)
             /\ BitsOf(v) = {i - low : i \in chosen \cap BitsOf(a)}
  <2>1. a.kind # "STRING"
    BY <1>7 DEF BitKinds
  <2>2. size = a.aux /\ LastOf(a, high) = last
    BY <1>1, <1>3, <1>4, <1>7, <2>1 DEF SizeOf, LastOf, Clamped
  <2>3. NothingLeft(a, low, high) <=> OutOfRange(size, low, high)
    BY <1>4, <2>2 DEF NothingLeft, OutOfRange
  <2>4. CASE OutOfRange(size, low, high)
    <3>1. v = BitVector(a.kind, 0, 0)
      BY <1>2, <1>7, <2>1, <2>3, <2>4, ExtractCases
    <3>2. v.kind = a.kind /\ v.aux = 0
      BY <3>1, BitVectorFields
    <3>3. BitsOf(v) = {}
      BY <3>2 DEF BitsOf
    <3>4. {i - low : i \in chosen \cap BitsOf(a)} = {}
      BY <1>5, <2>4
    <3>5. QED
      BY <1>5, <2>4, <3>2, <3>3, <3>4
  <2>5. CASE ~OutOfRange(size, low, high)
    <3>1. v = Extract(a, last, low)
      BY <1>2, <1>7, <2>1, <2>2, <2>3, <2>5, ExtractCases
    <3>2. Fits(a) /\ low \in Nat /\ last \in Nat /\ low <= last /\ last < a.aux
      BY <1>1, <1>5, <1>7, <2>2, <2>5, ValueFacts
    <3>3. /\ v.kind = a.kind /\ v.aux = last - low + 1
          /\ BitsOf(v) = {i - low : i \in (low .. last) \cap BitsOf(a)}
      <4>1. Selected(v, a, low, last)
        BY <3>1, <3>2, ExtractFacts
      <4>2. QED
        BY <4>1 DEF Selected
    <3>4. QED
      BY <1>5, <2>5, <3>3
  <2>6. QED
    BY <2>4, <2>5
<1>8. QED
  BY <1>6, <1>7 DEF Selection

================================================================================
