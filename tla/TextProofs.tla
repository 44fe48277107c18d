------------------------------ MODULE TextProofs ------------------------------
(***************************************************************************)
(* Proofs about the texts of values, of any length: the digits that        *)
(* Integer::toString writes and the number that is read from digits, the   *)
(* texts that String::toString puts one after the other, and the loops of  *)
(* String::toInternal and ExprParser::unescapeString.  Then that the text  *)
(* of every string value is read as that value again, and so is what       *)
(* Expr::printDebug prints, one lexeme of the kind of the value.           *)
(***************************************************************************)
EXTENDS LexemeProofs

-----------------------------------------------------------------------------
(* Numbers and their digits *)

(* The digits of s, one after the other, make the number v.                *)
MakesNumber(base, s, v) ==
    \E acc : /\ acc[0] = 0 /\ acc[Len(s)] = v
             /\ \A j \in 0 .. Len(s) - 1 : acc[j + 1] = base * acc[j] + HexValue(s[j + 1])

(* How the fold of Number goes over a set of places.                       *)
NumberFolds(iter, base, seq, subsets) ==
    iter = [s \in subsets |-> IF s = {} THEN 0
                              ELSE base * iter[s \ {Max(s)}] + HexValue(seq[Max(s)])]

(* On the prefixes of each length there is a function that folds.          *)
LEMMA NumberFoldsUpTo ==
    ASSUME NEW base, NEW seq, NEW N \in Nat
    PROVE  \A n \in Nat : \E g : NumberFolds(g, base, seq, UpTo(1 .. N, n))
<1> DEFINE S == 1 .. N
           T == {n \in Nat : \E g : NumberFolds(g, base, seq, UpTo(S, n))}
<1>0. IsFiniteSet(S)
  BY FS_Interval
<1>1. 0 \in T
  <2>1. \A s \in UpTo(S, 0) : s = {}
    BY <1>0, UpToFacts
  <2>2. PICK g : g = [s \in UpTo(S, 0) |-> 0]
    OBVIOUS
  <2>3. NumberFolds(g, base, seq, UpTo(S, 0))
    BY <2>1, <2>2 DEF NumberFolds
  <2>4. QED
    BY <2>3
<1>2. ASSUME NEW n \in Nat, n \in T PROVE n + 1 \in T
  <2>1. PICK g : NumberFolds(g, base, seq, UpTo(S, n))
    BY <1>2
  <2>2. PICK h : h = [s \in UpTo(S, n + 1) |->
                        IF s = {} THEN 0 ELSE base * g[s \ {Max(s)}] + HexValue(seq[Max(s)])]
    OBVIOUS
  <2>3. ASSUME NEW s \in UpTo(S, n + 1), s # {}
        PROVE  h[s \ {Max(s)}] = g[s \ {Max(s)}]
    <3>1. PICK t : t = s \ {Max(s)}
      OBVIOUS
    <3>2. s \in SUBSET S /\ Cardinality(s) <= n + 1
      BY DEF UpTo
    <3>3. Max(s) \in s /\ IsFiniteSet(s) /\ Cardinality(s) \in Nat
      BY <1>0, <2>3, <3>2, MaxOfSome, FS_Subset, FS_CardinalityType
    <3>4. Cardinality(t) = Cardinality(s) - 1
      BY <3>1, <3>3, FS_RemoveElement
    <3>5. t \in UpTo(S, n) /\ t \in UpTo(S, n + 1)
      <4>1. Cardinality(t) <= n /\ Cardinality(t) <= n + 1
        BY <3>2, <3>3, <3>4
      <4>2. t \in SUBSET S
        BY <3>1, <3>2
      <4>3. QED
        BY <4>1, <4>2 DEF UpTo
    <3>6. h[t] = IF t = {} THEN 0 ELSE base * g[t \ {Max(t)}] + HexValue(seq[Max(t)])
      BY <2>2, <3>5
    <3>7. g[t] = IF t = {} THEN 0 ELSE base * g[t \ {Max(t)}] + HexValue(seq[Max(t)])
      BY <2>1, <3>5 DEF NumberFolds
    <3>8. QED
      BY <3>1, <3>6, <3>7
  <2>4. NumberFolds(h, base, seq, UpTo(S, n + 1))
    BY <2>2, <2>3 DEF NumberFolds
  <2>5. QED
    BY <2>4
<1>3. \A n \in Nat : n \in T
  <2> HIDE DEF T
  <2>1. QED
    BY <1>1, <1>2, Inductive
<1>4. QED
  BY <1>3

(* The fold of Number goes over the digits from the first to the last.     *)
LEMMA NumberUnfolds ==
    ASSUME NEW base, NEW seq, DOMAIN seq = 1 .. Len(seq), Len(seq) \in Nat
    PROVE  MakesNumber(base, seq, Number(base, seq))
<1>0. PICK n \in Nat : n = Len(seq)
  OBVIOUS
<1> DEFINE S == 1 .. n
<1>1. \E g : NumberFolds(g, base, seq, SUBSET S)
  <2>1. IsFiniteSet(S) /\ Cardinality(S) = n
    BY FS_Interval
  <2>2. UpTo(S, n) = SUBSET S
    BY <2>1, UpToFacts
  <2>3. \E g : NumberFolds(g, base, seq, UpTo(1 .. n, n))
    BY NumberFoldsUpTo
  <2>4. QED
    BY <2>2, <2>3
<1>2. PICK iter : iter = CHOOSE f : f = [s \in SUBSET S |->
                            IF s = {} THEN 0 ELSE base * f[s \ {Max(s)}] + HexValue(seq[Max(s)])]
  OBVIOUS
<1>3. NumberFolds(iter, base, seq, SUBSET S)
  BY <1>1, <1>2 DEF NumberFolds
<1>4. Number(base, seq) = iter[S]
  <2>1. DOMAIN seq = S
    BY <1>0
  <2>2. QED
    BY <1>2, <2>1 DEF Number, FoldLeft, MapThenFoldSet
<1>5. PICK acc : acc = [j \in 0 .. n |-> iter[1 .. j]]
  OBVIOUS
<1>6. acc[0] = 0
  <2>1. 1 .. 0 = {} /\ {} \in SUBSET S
    OBVIOUS
  <2>2. iter[{}] = 0
    BY <1>3, <2>1 DEF NumberFolds
  <2>3. QED
    BY <1>5, <2>1, <2>2
<1>7. ASSUME NEW j \in 0 .. n - 1 PROVE acc[j + 1] = base * acc[j] + HexValue(seq[j + 1])
  <2>1. PICK s : s = 1 .. j + 1
    OBVIOUS
  <2>2. s \in SUBSET S /\ s # {} /\ j + 1 \in s /\ \A y \in s : y <= j + 1
    BY <2>1
  <2>3. Max(s) = j + 1
    <3>1. Max(s) \in s /\ \A y \in s : y <= Max(s)
      BY <2>2, MaxOfSome
    <3>2. Max(s) \in Int
      <4>1. \A y \in s : y \in Int
        BY <2>1
      <4>2. QED
        BY <3>1, <4>1
    <3>3. QED
      BY <2>2, <3>1, <3>2
  <2>4. s \ {j + 1} = 1 .. j
    BY <2>1
  <2>5. iter[s] = base * iter[s \ {Max(s)}] + HexValue(seq[Max(s)])
    BY <1>3, <2>2 DEF NumberFolds
  <2>6. iter[1 .. j + 1] = base * iter[1 .. j] + HexValue(seq[j + 1])
    BY <2>1, <2>3, <2>4, <2>5
  <2>7. acc[j + 1] = iter[1 .. j + 1] /\ acc[j] = iter[1 .. j]
    BY <1>5
  <2>8. QED
    BY <2>6, <2>7
<1>8. acc[n] = Number(base, seq)
  BY <1>4, <1>5
<1>9. QED
  BY <1>0, <1>6, <1>7, <1>8 DEF MakesNumber

(* The digits make one number.                                             *)
LEMMA OneNumber ==
    ASSUME NEW base, NEW s, NEW n \in Nat, n = Len(s), NEW v, NEW w,
           MakesNumber(base, s, v), MakesNumber(base, s, w)
    PROVE  v = w
<1>1. PICK a : /\ a[0] = 0 /\ a[n] = v
               /\ \A j \in 0 .. n - 1 : a[j + 1] = base * a[j] + HexValue(s[j + 1])
  BY DEF MakesNumber
<1>2. PICK b : /\ b[0] = 0 /\ b[n] = w
               /\ \A j \in 0 .. n - 1 : b[j + 1] = base * b[j] + HexValue(s[j + 1])
  BY DEF MakesNumber
<1> DEFINE Same == {j \in Nat : j <= n => a[j] = b[j]}
<1>3. 0 \in Same
  BY <1>1, <1>2
<1>4. ASSUME NEW j \in Nat, j \in Same PROVE j + 1 \in Same
  <2>1. CASE j + 1 <= n
    <3>1. j \in 0 .. n - 1
      BY <2>1
    <3>2. a[j + 1] = base * a[j] + HexValue(s[j + 1]) /\ b[j + 1] = base * b[j] + HexValue(s[j + 1])
      BY <1>1, <1>2, <3>1
    <3>3. a[j] = b[j]
      BY <1>4, <3>1
    <3>4. QED
      BY <3>2, <3>3
  <2>2. CASE ~(j + 1 <= n)
    BY <2>2
  <2>3. QED
    BY <2>1, <2>2
<1>5. \A j \in Nat : j \in Same
  <2> HIDE DEF Same
  <2>1. QED
    BY <1>3, <1>4, Inductive
<1>6. a[n] = b[n]
  BY <1>5
<1>7. QED
  BY <1>1, <1>2, <1>6

(* What makes a number is the number that Number gives.                    *)
LEMMA NumberIs ==
    ASSUME NEW base, NEW s, DOMAIN s = 1 .. Len(s), Len(s) \in Nat, NEW v, MakesNumber(base, s, v)
    PROVE  Number(base, s) = v
<1>1. MakesNumber(base, s, Number(base, s))
  BY NumberUnfolds
<1>2. PICK n \in Nat : n = Len(s)
  OBVIOUS
<1>3. PICK w : w = Number(base, s)
  OBVIOUS
<1>4. QED
  BY <1>1, <1>2, <1>3, OneNumber

(* A hexadecimal digit has a value.                                        *)
LEMMA HexDigit ==
    ASSUME NEW c, IsHexDigit(c)
    PROVE  c \in Int /\ HexValue(c) \in 0 .. 15
<1>1. CASE c \in 48 .. 57
  <2>1. HexValue(c) = c - 48
    BY <1>1 DEF HexValue
  <2>2. QED
    BY <1>1, <2>1
<1>2. CASE c \in 65 .. 70
  <2>1. HexValue(c) = c - 55
    BY <1>2 DEF HexValue
  <2>2. QED
    BY <1>2, <2>1
<1>3. CASE c \in 97 .. 102
  <2>1. HexValue(c) = c - 87
    BY <1>3 DEF HexValue
  <2>2. QED
    BY <1>3, <2>1
<1>4. QED
  BY <1>1, <1>2, <1>3 DEF IsHexDigit

(* The number of one digit.                                                *)
LEMMA NumberOfOne ==
    ASSUME NEW base \in Nat, NEW c, HexValue(c) \in Nat
    PROVE  MakesNumber(base, <<c>>, HexValue(c))
<1>1. PICK v \in Nat : v = HexValue(c)
  OBVIOUS
<1>2. PICK s : s = <<c>>
  OBVIOUS
<1>3. Len(s) = 1 /\ s[1] = c
  BY <1>2
<1>4. PICK acc : acc = [j \in 0 .. 1 |-> IF j = 0 THEN 0 ELSE v]
  OBVIOUS
<1>5. acc[0] = 0 /\ acc[1] = v
  BY <1>4
<1>6. ASSUME NEW j \in 0 .. Len(s) - 1 PROVE acc[j + 1] = base * acc[j] + HexValue(s[j + 1])
  <2>1. j = 0
    BY <1>3
  <2>2. acc[j] = 0 /\ acc[j + 1] = v /\ HexValue(s[j + 1]) = v
    BY <1>1, <1>3, <1>5, <2>1
  <2>3. base * acc[j] + v = v
    BY <2>2
  <2>4. QED
    BY <2>2, <2>3
<1>7. MakesNumber(base, s, v)
  BY <1>3, <1>5, <1>6 DEF MakesNumber
<1>8. QED
  BY <1>1, <1>2, <1>7

(* One digit more.                                                         *)
LEMMA NumberAppend ==
    ASSUME NEW base, NEW s \in Seq(Int), NEW c \in Int, NEW v, MakesNumber(base, s, v)
    PROVE  MakesNumber(base, Append(s, c), base * v + HexValue(c))
<1>0. PICK n \in Nat : n = Len(s)
  OBVIOUS
<1>1. PICK t : n = Len(s) /\ t = Append(s, c)
  BY <1>0
<1>2. Len(t) = n + 1 /\ t[n + 1] = c /\ \A i \in 1 .. n : t[i] = s[i]
  BY <1>1
<1>3. PICK a : /\ a[0] = 0 /\ a[n] = v
               /\ \A j \in 0 .. n - 1 : a[j + 1] = base * a[j] + HexValue(s[j + 1])
  BY <1>1 DEF MakesNumber
<1>4. PICK w : w = base * v + HexValue(c)
  OBVIOUS
<1>5. PICK b : b = [j \in 0 .. n + 1 |-> IF j <= n THEN a[j] ELSE w]
  OBVIOUS
<1>6. b[0] = 0 /\ b[n + 1] = w /\ \A j \in 0 .. n : b[j] = a[j]
  BY <1>3, <1>5
<1>7. ASSUME NEW j \in 0 .. (n + 1) - 1 PROVE b[j + 1] = base * b[j] + HexValue(t[j + 1])
  <2>1. CASE j = n
    BY <1>2, <1>3, <1>4, <1>6, <2>1
  <2>2. CASE j # n
    <3>1. j \in 0 .. n - 1 /\ j + 1 \in 0 .. n /\ j + 1 \in 1 .. n /\ j \in 0 .. n
      BY <2>2
    <3>2. b[j + 1] = a[j + 1] /\ b[j] = a[j] /\ t[j + 1] = s[j + 1]
      BY <1>2, <1>6, <3>1
    <3>3. a[j + 1] = base * a[j] + HexValue(s[j + 1])
      BY <1>3, <3>1
    <3>4. QED
      BY <3>2, <3>3
  <2>3. QED
    BY <2>1, <2>2
<1>8. MakesNumber(base, t, w)
  BY <1>2, <1>6, <1>7 DEF MakesNumber
<1>9. QED
  BY <1>1, <1>4, <1>8

(* A text with as many zeroes before it.                                   *)
Padded(k, s) == [i \in 1 .. k |-> 48] \o s

(* Zeroes in front of s.                                                   *)
LEMMA PaddedFacts ==
    ASSUME NEW k \in Nat, NEW s \in Seq(Int), NEW n \in Nat, n = Len(s)
    PROVE  /\ Padded(k, s) \in Seq(Int) /\ Len(Padded(k, s)) = k + n
           /\ \A i \in 1 .. k : Padded(k, s)[i] = 48
           /\ \A i \in 1 .. n : Padded(k, s)[k + i] = s[i]
<1>1. PICK zeros : zeros = [i \in 1 .. k |-> 48]
  OBVIOUS
<1>2. zeros \in Seq(Int) /\ k = Len(zeros) /\ \A i \in 1 .. k : zeros[i] = 48
  BY <1>1
<1>3. /\ zeros \o s \in Seq(Int) /\ Len(zeros \o s) = k + n
      /\ \A i \in 1 .. k : (zeros \o s)[i] = zeros[i]
      /\ \A i \in 1 .. n : (zeros \o s)[k + i] = s[i]
  BY <1>2
<1>4. Padded(k, s) = zeros \o s
  BY <1>1 DEF Padded
<1>5. QED
  BY <1>2, <1>3, <1>4

(* Leading zeroes make no difference.                                      *)
LEMMA NumberPadded ==
    ASSUME NEW base \in Nat, NEW k \in Nat, NEW s \in Seq(Int), NEW v, MakesNumber(base, s, v)
    PROVE  MakesNumber(base, Padded(k, s), v)
<1>0. PICK n \in Nat : n = Len(s)
  OBVIOUS
<1> DEFINE t == Padded(k, s)
<1>2. Len(t) = k + n /\ (\A i \in 1 .. k : t[i] = 48) /\ \A i \in 1 .. n : t[k + i] = s[i]
  BY <1>0, PaddedFacts
<1> HIDE DEF t
<1>3. PICK a : /\ a[0] = 0 /\ a[n] = v
               /\ \A j \in 0 .. n - 1 : a[j + 1] = base * a[j] + HexValue(s[j + 1])
  BY <1>0 DEF MakesNumber
<1>4. PICK b : b = [j \in 0 .. k + n |-> IF j <= k THEN 0 ELSE a[j - k]]
  OBVIOUS
<1>5. (\A j \in 0 .. k : b[j] = 0) /\ \A j \in 0 .. n : b[k + j] = a[j]
  <2>1. ASSUME NEW j \in 0 .. k PROVE b[j] = 0
    BY <1>4
  <2>2. ASSUME NEW j \in 0 .. n PROVE b[k + j] = a[j]
    <3>1. CASE j = 0
      BY <1>3, <1>4, <3>1
    <3>2. CASE j # 0
      <4>1. k + j \in 0 .. k + n /\ ~(k + j <= k) /\ (k + j) - k = j
        BY <3>2
      <4>2. QED
        BY <1>4, <4>1
    <3>3. QED
      BY <3>1, <3>2
  <2>3. QED
    BY <2>1, <2>2
<1>6. ASSUME NEW j \in 0 .. (k + n) - 1 PROVE b[j + 1] = base * b[j] + HexValue(t[j + 1])
  <2>1. CASE j < k
    <3>1. b[j] = 0 /\ b[j + 1] = 0 /\ t[j + 1] = 48
      BY <1>2, <1>5, <2>1
    <3>2. HexValue(48) = 0
      BY DEF HexValue
    <3>3. QED
      BY <3>1, <3>2
  <2>2. CASE ~(j < k)
    <3>1. PICK i \in 0 .. n - 1 : j = k + i
      <4>1. j - k \in 0 .. n - 1 /\ j = k + (j - k)
        BY <2>2
      <4>2. QED
        BY <4>1
    <3>2. b[k + i] = a[i] /\ b[k + (i + 1)] = a[i + 1] /\ t[k + (i + 1)] = s[i + 1]
      BY <1>2, <1>5
    <3>3. k + (i + 1) = j + 1
      BY <3>1
    <3>4. a[i + 1] = base * a[i] + HexValue(s[i + 1])
      BY <1>3
    <3>5. QED
      BY <3>1, <3>2, <3>3, <3>4
  <2>3. QED
    BY <2>1, <2>2
<1>7. b[0] = 0 /\ b[k + n] = v
  <2>1. 0 \in 0 .. k /\ n \in 0 .. n
    OBVIOUS
  <2>2. QED
    BY <1>3, <1>5, <2>1
<1>8. MakesNumber(base, t, v)
  BY <1>2, <1>6, <1>7 DEF MakesNumber
<1>9. QED
  BY <1>8 DEF t

(* Digits make a natural number.                                           *)
LEMMA NumberType ==
    ASSUME NEW base \in Nat, NEW s, NEW n \in Nat, Len(s) = n, DOMAIN s = 1 .. n,
           \A i \in 1 .. n : IsHexDigit(s[i])
    PROVE  Number(base, s) \in Nat
<1>1. MakesNumber(base, s, Number(base, s))
  BY NumberUnfolds
<1>2. PICK a : /\ a[0] = 0 /\ a[n] = Number(base, s)
               /\ \A j \in 0 .. n - 1 : a[j + 1] = base * a[j] + HexValue(s[j + 1])
  BY <1>1 DEF MakesNumber
<1> DEFINE Good == {j \in Nat : j <= n => a[j] \in Nat}
<1>3. 0 \in Good
  BY <1>2
<1>4. ASSUME NEW j \in Nat, j \in Good PROVE j + 1 \in Good
  <2>1. CASE j + 1 <= n
    <3>1. j \in 0 .. n - 1 /\ j + 1 \in 1 .. n
      BY <2>1
    <3>2. PICK x \in Nat : x = a[j]
      BY <1>4, <3>1
    <3>3. IsHexDigit(s[j + 1])
      BY <3>1
    <3>4. PICK y \in Nat : y = HexValue(s[j + 1])
      BY <3>3, HexDigit
    <3>5. base * x + y \in Nat
      OBVIOUS
    <3>6. a[j + 1] = base * x + y
      BY <1>2, <3>1, <3>2, <3>4
    <3>7. QED
      BY <3>5, <3>6
  <2>2. CASE ~(j + 1 <= n)
    BY <2>2
  <2>3. QED
    BY <2>1, <2>2
<1>5. \A j \in Nat : j \in Good
  <2> HIDE DEF Good
  <2>1. QED
    BY <1>3, <1>4, Inductive
<1>6. a[n] \in Nat
  BY <1>5
<1>7. QED
  BY <1>2, <1>6

(* The digit of a value below the base.                                    *)
DigitChar(d) == IF d < 10 THEN 48 + d ELSE 87 + d

(* The digits of m, with those of smaller numbers.                         *)
DigitsStep(base, g, m) == IF m < base THEN <<DigitChar(m)>>
                          ELSE Append(g[m \div base], DigitChar(m % base))

(* The texts of the numbers up to n.                                       *)
Writes(g, base, n) == g = [m \in 0 .. n |-> DigitsStep(base, g, m)]

(* Quotients are smaller.                                                  *)
LEMMA Smaller ==
    ASSUME NEW base \in Nat, base >= 2, NEW m \in Nat, m >= base
    PROVE  m \div base \in 0 .. m - 1
<1>1. PICK q \in Nat, r \in Nat : r < base /\ q = m \div base /\ m = base * q + r
  BY Division DEF Divided
<1>2. q < m
  <2>1. CASE q >= m
    <3>1. base * q >= 2 * q
      BY <1>1
    <3>2. QED
      BY <1>1, <2>1, <3>1
  <2>2. QED
    BY <1>1, <2>1
<1>3. QED
  BY <1>1, <1>2

(* There are digits for each number.                                       *)
LEMMA DigitsExist ==
    ASSUME NEW base \in Nat, base >= 2, NEW n \in Nat
    PROVE  \E g : Writes(g, base, n)
<1> DEFINE Up(k, g) == g = [m \in 0 .. n |-> IF m < k THEN DigitsStep(base, g, m) ELSE <<>>]
           Good == {k \in Nat : \E g : Up(k, g)}
<1>1. 0 \in Good
  <2>1. PICK g : g = [m \in 0 .. n |-> <<>>]
    OBVIOUS
  <2>2. \A m \in 0 .. n : ~(m < 0)
    OBVIOUS
  <2>3. Up(0, g)
    BY <2>1, <2>2
  <2>4. QED
    BY <2>3
<1>2. ASSUME NEW k \in Nat, k \in Good PROVE k + 1 \in Good
  <2>1. PICK g : Up(k, g)
    BY <1>2
  <2>2. PICK h : h = [m \in 0 .. n |-> IF m < k + 1 THEN DigitsStep(base, g, m) ELSE <<>>]
    OBVIOUS
  <2>3. ASSUME NEW m \in 0 .. n, m < k + 1 PROVE DigitsStep(base, h, m) = DigitsStep(base, g, m)
    <3>1. CASE m < base
      BY <3>1 DEF DigitsStep
    <3>2. CASE ~(m < base)
      <4>1. PICK q \in Nat : q = m \div base /\ q < m
        <5>1. m \div base \in 0 .. m - 1
          BY <3>2, Smaller
        <5>2. QED
          BY <5>1
      <4>2. q \in 0 .. n /\ q < k /\ q < k + 1
        BY <2>3, <4>1
      <4>3. h[q] = DigitsStep(base, g, q)
        BY <2>2, <4>2
      <4>4. g[q] = DigitsStep(base, g, q)
        BY <2>1, <4>2
      <4>5. h[m \div base] = g[m \div base]
        BY <4>1, <4>3, <4>4
      <4>6. QED
        BY <4>5 DEF DigitsStep
    <3>3. QED
      BY <3>1, <3>2
  <2>4. Up(k + 1, h)
    BY <2>2, <2>3
  <2>5. QED
    BY <2>4
<1>3. \A k \in Nat : k \in Good
  <2> HIDE DEF Good
  <2>1. QED
    BY <1>1, <1>2, Inductive
<1>4. PICK g : Up(n + 1, g)
  <2>1. n + 1 \in Nat
    OBVIOUS
  <2>2. n + 1 \in Good
    BY <1>3, <2>1, Zenon
  <2>3. QED
    BY <2>2, Zenon
<1>5. \A m \in 0 .. n : m < n + 1
  OBVIOUS
<1>6. g = [m \in 0 .. n |-> DigitsStep(base, g, m)]
  BY <1>4, <1>5
<1>7. QED
  BY <1>6 DEF Writes

(* Digits is the last of these texts.                                      *)
LEMMA DigitsAre ==
    ASSUME NEW base \in Nat, base >= 2, NEW n \in Nat
    PROVE  \E g : Writes(g, base, n) /\ Digits(n, base) = g[n]
<1>1. PICK g : g = CHOOSE f : Writes(f, base, n)
  OBVIOUS
<1>2. Writes(g, base, n)
  BY <1>1, DigitsExist
<1>3. g = CHOOSE f : f = [m \in 0 .. n |->
            IF m < base THEN <<IF m < 10 THEN 48 + m ELSE 87 + m>>
            ELSE Append(f[m \div base], IF m % base < 10 THEN 48 + (m % base) ELSE 87 + (m % base))]
  BY <1>1 DEF Writes, DigitsStep, DigitChar
<1>4. Digits(n, base) = g[n]
  BY <1>3 DEF Digits
<1>5. QED
  BY <1>2, <1>4

(* The digits that Digits writes.                                          *)
DigitChars(base) == {DigitChar(d) : d \in 0 .. base - 1}

(* A text of the number m.                                                 *)
IsTextOf(s, base, m) == s \in Seq(DigitChars(base)) /\ s # <<>> /\ MakesNumber(base, s, m)

(* The value of a digit is what it was written for.                        *)
LEMMA DigitValue ==
    ASSUME NEW d \in 0 .. 15
    PROVE  /\ HexValue(DigitChar(d)) = d /\ IsHexDigit(DigitChar(d))
           /\ DigitChar(d) \in 48 .. 57 \cup 97 .. 102
           /\ d <= 9 => DigitChar(d) = 48 + d
<1>1. CASE d <= 9
  <2>1. DigitChar(d) = 48 + d /\ 48 + d \in 48 .. 57
    BY <1>1 DEF DigitChar
  <2>2. QED
    BY <1>1, <2>1 DEF HexValue, IsHexDigit
<1>2. CASE d >= 10
  <2>1. DigitChar(d) = 87 + d
    BY <1>2 DEF DigitChar
  <2>2. 87 + d \in 97 .. 102 /\ 87 + d \notin 48 .. 57 /\ 87 + d \notin 65 .. 70 /\ (87 + d) - 87 = d
    BY <1>2
  <2>3. HexValue(87 + d) = d
    BY <2>2 DEF HexValue
  <2>4. QED
    BY <1>2, <2>1, <2>2, <2>3 DEF IsHexDigit
<1>3. QED
  BY <1>1, <1>2

(* The texts up to a number are texts of these numbers.                    *)
LEMMA WritesTexts ==
    ASSUME NEW base \in 2 .. 16, NEW n \in Nat, NEW g, Writes(g, base, n)
    PROVE  \A m \in 0 .. n : IsTextOf(g[m], base, m)
<1> DEFINE Good == {k \in Nat : \A m \in 0 .. n : m < k => IsTextOf(g[m], base, m)}
<1>0. base \in Nat /\ base >= 2
  OBVIOUS
<1>1. 0 \in Good
  OBVIOUS
<1>2. ASSUME NEW k \in Nat, k \in Good PROVE k + 1 \in Good
  <2>1. SUFFICES ASSUME NEW m \in 0 .. n, m < k + 1 PROVE IsTextOf(g[m], base, m)
    OBVIOUS
  <2>2. g[m] = DigitsStep(base, g, m)
    BY DEF Writes
  <2>3. CASE m < base
    <3>1. m \in 0 .. 15 /\ m \in 0 .. base - 1
      BY <2>3
    <3>2. g[m] = <<DigitChar(m)>>
      BY <2>2, <2>3 DEF DigitsStep
    <3>3. DigitChar(m) \in DigitChars(base)
      BY <3>1 DEF DigitChars
    <3>4. HexValue(DigitChar(m)) = m
      BY <3>1, DigitValue
    <3>5. MakesNumber(base, <<DigitChar(m)>>, m)
      <4>1. PICK c : c = DigitChar(m)
        OBVIOUS
      <4>2. HexValue(c) \in Nat
        BY <3>1, <3>4, <4>1
      <4>3. MakesNumber(base, <<c>>, HexValue(c))
        BY <1>0, <4>2, NumberOfOne
      <4>4. QED
        BY <3>4, <4>1, <4>3
    <3>6. <<DigitChar(m)>> \in Seq(DigitChars(base)) /\ <<DigitChar(m)>> # <<>>
      BY <3>3
    <3>7. QED
      BY <3>2, <3>5, <3>6 DEF IsTextOf
  <2>4. CASE ~(m < base)
    <3>1. PICK q \in Nat, r \in Nat : r < base /\ q = m \div base /\ r = m % base /\ m = base * q + r
      <4>1. Divided(m, base)
        BY <1>0, Division
      <4>2. QED
        BY <4>1 DEF Divided
    <3>2. q < m
      <4>1. m \div base \in 0 .. m - 1
        BY <1>0, <2>4, Smaller
      <4>2. QED
        BY <3>1, <4>1
    <3>3. q \in 0 .. n /\ q < k
      BY <2>1, <3>2
    <3>4. IsTextOf(g[q], base, q)
      BY <1>2, <3>3
    <3>5. r \in 0 .. 15 /\ r \in 0 .. base - 1
      BY <3>1
    <3>6. PICK s, c : s = g[q] /\ c = DigitChar(r)
      OBVIOUS
    <3>7. c \in DigitChars(base) /\ HexValue(c) = r /\ c \in Int
      <4>1. HexValue(c) = r /\ c \in 48 .. 57 \cup 97 .. 102
        BY <3>5, <3>6, DigitValue
      <4>2. QED
        BY <3>5, <3>6, <4>1 DEF DigitChars
    <3>8. g[m] = Append(s, c)
      BY <2>2, <2>4, <3>1, <3>6 DEF DigitsStep
    <3>9. s \in Seq(DigitChars(base)) /\ MakesNumber(base, s, q)
      BY <3>4, <3>6 DEF IsTextOf
    <3>10. Append(s, c) \in Seq(DigitChars(base)) /\ Append(s, c) # <<>>
      BY <3>7, <3>9, AppendProperties
    <3>11. s \in Seq(Int)
      <4>1. \A x \in DigitChars(base) : x \in Int
        <5>1. ASSUME NEW d \in 0 .. base - 1 PROVE DigitChar(d) \in Int
          <6>1. d \in 0 .. 15
            OBVIOUS
          <6>2. DigitChar(d) \in 48 .. 57 \cup 97 .. 102
            BY <6>1, DigitValue
          <6>3. QED
            BY <6>2
        <5>2. QED
          BY <5>1 DEF DigitChars
      <4>2. DigitChars(base) \subseteq Int
        BY <4>1
      <4>3. QED
        BY <3>9, <4>2, SeqMonotonic
    <3>12. MakesNumber(base, Append(s, c), base * q + HexValue(c))
      BY <3>7, <3>9, <3>11, NumberAppend
    <3>13. base * q + HexValue(c) = m
      BY <3>1, <3>7
    <3>14. QED
      BY <3>8, <3>10, <3>12, <3>13 DEF IsTextOf
  <2>5. QED
    BY <2>3, <2>4
<1>3. \A k \in Nat : k \in Good
  <2> HIDE DEF Good
  <2>1. QED
    BY <1>1, <1>2, Inductive
<1>4. n + 1 \in Good
  BY <1>3
<1>5. \A m \in 0 .. n : m < n + 1
  OBVIOUS
<1>6. QED
  BY <1>4, <1>5

(* Digits writes a text of the number.                                     *)
LEMMA DigitsFacts ==
    ASSUME NEW base \in 2 .. 16, NEW n \in Nat
    PROVE  /\ Digits(n, base) \in Seq(DigitChars(base)) /\ Digits(n, base) # <<>>
           /\ MakesNumber(base, Digits(n, base), n)
<1>1. base \in Nat /\ base >= 2 /\ n \in 0 .. n
  OBVIOUS
<1>2. PICK g : Writes(g, base, n) /\ Digits(n, base) = g[n]
  BY <1>1, DigitsAre
<1>3. IsTextOf(g[n], base, n)
  BY <1>1, <1>2, WritesTexts
<1>4. QED
  BY <1>2, <1>3 DEF IsTextOf

(* Texts of numbers below the bound have at most k digits.                 *)
Short(g, n, bound, k) == \A m \in 0 .. n : m < bound => Len(g[m]) <= k

(* What is below the base times a bound has a digit more.                  *)
LEMMA DigitMore ==
    ASSUME NEW base \in 2 .. 16, NEW n \in Nat, NEW g, Writes(g, base, n), NEW bound \in Nat,
           NEW k \in Nat, k >= 1, Short(g, n, bound, k)
    PROVE  Short(g, n, base * bound, k + 1)
<1>1. SUFFICES ASSUME NEW m \in 0 .. n, m < base * bound PROVE Len(g[m]) <= k + 1
  BY DEF Short
<1>2. g[m] = DigitsStep(base, g, m)
  BY DEF Writes
<1>3. CASE m < base
  <2>1. g[m] = <<DigitChar(m)>>
    BY <1>2, <1>3 DEF DigitsStep
  <2>2. Len(g[m]) = 1
    BY <2>1
  <2>3. QED
    BY <2>2
<1>4. CASE ~(m < base)
  <2>1. PICK q \in Nat, r \in Nat : r < base /\ q = m \div base /\ r = m % base /\ m = base * q + r
    <3>1. base \in Nat /\ base >= 1 /\ m \in Nat
      OBVIOUS
    <3>2. QED
      BY <3>1, Division DEF Divided
  <2>2. q \in 0 .. n
    <3>1. base \in Nat /\ base >= 2 /\ m \in Nat /\ m >= base
      BY <1>4
    <3>2. m \div base \in 0 .. m - 1
      BY <3>1, Smaller
    <3>3. QED
      BY <2>1, <3>2
  <2>3. q < bound
    <3>1. CASE q >= bound
      <4>1. base * q >= base * bound
        <5>1. PICK e \in Nat : q = bound + e
          <6>1. q - bound \in Nat /\ q = bound + (q - bound)
            BY <3>1
          <6>2. QED
            BY <6>1
        <5>2. base * q = base * bound + base * e /\ base * e \in Nat
          BY <5>1
        <5>3. base * bound \in Nat
          OBVIOUS
        <5>4. QED
          BY <5>2, <5>3
      <4>2. QED
        BY <1>1, <2>1, <4>1
    <3>2. QED
      BY <3>1
  <2>4. Len(g[q]) <= k
    BY <2>2, <2>3 DEF Short
  <2>5. g[m] = Append(g[q], DigitChar(r))
    BY <1>2, <1>4, <2>1 DEF DigitsStep
  <2>6. g[q] \in Seq(DigitChars(base))
    BY <2>2, WritesTexts DEF IsTextOf
  <2>7. Len(g[m]) = Len(g[q]) + 1 /\ Len(g[q]) \in Nat
    <3>1. r \in 0 .. base - 1
      BY <2>1
    <3>2. DigitChar(r) \in DigitChars(base)
      BY <3>1 DEF DigitChars
    <3>3. QED
      BY <2>5, <2>6, <3>2, AppendProperties, LenProperties
  <2>8. QED
    BY <2>4, <2>7
<1>5. QED
  BY <1>3, <1>4

(* A number below the base has one digit.                                  *)
LEMMA OneDigit ==
    ASSUME NEW base \in 2 .. 16, NEW n \in Nat, NEW g, Writes(g, base, n)
    PROVE  Short(g, n, base, 1)
<1>1. SUFFICES ASSUME NEW m \in 0 .. n, m < base PROVE Len(g[m]) <= 1
  BY DEF Short
<1>2. g[m] = <<DigitChar(m)>>
  BY <1>1 DEF Writes, DigitsStep
<1>3. Len(g[m]) = 1
  BY <1>2
<1>4. QED
  BY <1>3

(* Code points are numbers of at most five hexadecimal digits.             *)
LEMMA CodePoints ==
    NumCodes \in Nat /\ \A two, three, four, five \in Nat :
        two = 16 * 16 /\ three = 16 * two /\ four = 16 * three /\ five = 16 * four => NumCodes < five
BY SMT DEF NumCodes

(* A code point has at most five hexadecimal digits.                       *)
LEMMA CodeDigits ==
    ASSUME NEW c \in Nat, c <= NumCodes
    PROVE  /\ Digits(c, 16) \in Seq(Int) /\ Len(Digits(c, 16)) \in 1 .. 5
           /\ \A i \in 1 .. Len(Digits(c, 16)) : IsHexDigit(Digits(c, 16)[i])
           /\ Number(16, Digits(c, 16)) = c
<1>0. c \in 0 .. c
  OBVIOUS
<1>1. 16 \in 2 .. 16 /\ 16 \in Nat /\ 16 >= 2
  OBVIOUS
<1>2. PICK g : Writes(g, 16, c) /\ Digits(c, 16) = g[c]
  BY <1>0, <1>1, DigitsAre
<1>3. Len(g[c]) <= 5
  <2>1. PICK two \in Nat : two = 16 * 16
    OBVIOUS
  <2>2. PICK three \in Nat : three = 16 * two
    OBVIOUS
  <2>3. PICK four \in Nat : four = 16 * three
    OBVIOUS
  <2>4. PICK five \in Nat : five = 16 * four
    OBVIOUS
  <2>5. NumCodes < five
    BY <2>1, <2>2, <2>3, <2>4, CodePoints
  <2>6. Short(g, c, 16, 1)
    BY <1>0, <1>1, <1>2, OneDigit
  <2>7. Short(g, c, two, 2)
    <3>1. Short(g, c, 16 * 16, 1 + 1)
      BY <1>0, <1>1, <1>2, <2>6, DigitMore
    <3>2. 1 + 1 = 2
      OBVIOUS
    <3>3. QED
      BY <2>1, <3>1, <3>2
  <2>8. Short(g, c, three, 3)
    <3>1. Short(g, c, 16 * two, 2 + 1)
      BY <1>0, <1>1, <1>2, <2>7, DigitMore
    <3>2. 2 + 1 = 3
      OBVIOUS
    <3>3. QED
      BY <2>2, <3>1, <3>2
  <2>9. Short(g, c, four, 4)
    <3>1. Short(g, c, 16 * three, 3 + 1)
      BY <1>0, <1>1, <1>2, <2>8, DigitMore
    <3>2. 3 + 1 = 4
      OBVIOUS
    <3>3. QED
      BY <2>3, <3>1, <3>2
  <2>10. Short(g, c, five, 5)
    <3>1. Short(g, c, 16 * four, 4 + 1)
      BY <1>0, <1>1, <1>2, <2>9, DigitMore
    <3>2. 4 + 1 = 5
      OBVIOUS
    <3>3. QED
      BY <2>4, <3>1, <3>2
  <2>11. c < five
    BY <1>0, <2>5, CodePoints
  <2>12. QED
    BY <1>0, <2>10, <2>11 DEF Short
<1>4. g[c] \in Seq(DigitChars(16)) /\ g[c] # <<>> /\ MakesNumber(16, g[c], c)
  BY <1>0, <1>1, <1>2, WritesTexts DEF IsTextOf
<1>5. \A x \in DigitChars(16) : x \in Int /\ IsHexDigit(x)
  <2>1. ASSUME NEW d \in 0 .. 15 PROVE DigitChar(d) \in Int /\ IsHexDigit(DigitChar(d))
    <3>1. IsHexDigit(DigitChar(d)) /\ DigitChar(d) \in 48 .. 57 \cup 97 .. 102
      BY DigitValue
    <3>2. QED
      BY <3>1
  <2>2. QED
    BY <2>1 DEF DigitChars
<1>6. g[c] \in Seq(Int)
  <2>1. DigitChars(16) \subseteq Int
    BY <1>5
  <2>2. QED
    BY <1>4, <2>1, SeqMonotonic
<1>7. Len(g[c]) \in 1 .. 5
  <2>1. PICK k \in Nat : k = Len(g[c])
    BY <1>6, LenProperties
  <2>2. k # 0
    BY <1>4, <1>6, <2>1
  <2>3. k <= 5
    BY <1>3, <2>1
  <2>4. k \in 1 .. 5
    BY <2>2, <2>3
  <2>5. QED
    BY <2>1, <2>4
<1>8. \A i \in 1 .. Len(g[c]) : IsHexDigit(g[c][i])
  <2>1. ASSUME NEW i \in 1 .. Len(g[c]) PROVE IsHexDigit(g[c][i])
    <3>1. g[c][i] \in DigitChars(16)
      BY <1>4, <2>1, ElementOfSeq
    <3>2. QED
      BY <1>5, <3>1
  <2>2. QED
    BY <2>1
<1>9. Number(16, g[c]) = c
  <2>1. DOMAIN g[c] = 1 .. Len(g[c]) /\ Len(g[c]) \in Nat
    BY <1>6, LenProperties
  <2>2. QED
    BY <1>4, <2>1, NumberIs
<1>10. QED
  BY <1>2, <1>6, <1>7, <1>8, <1>9

-----------------------------------------------------------------------------
(* Sequences of texts *)

(* The text u stands in t after place p.                                   *)
Stands(t, p, u) == \A j \in 1 .. Len(u) : t[p + j] = u[j]

(* The texts of seqs stand in t one after the other.                       *)
LaidOut(place, seqs, t, n) ==
    /\ place[0] = 0 /\ place[n] = Len(t)
    /\ \A k \in 1 .. n : /\ place[k - 1] \in Nat /\ place[k] = place[k - 1] + Len(seqs[k])
                         /\ place[k] <= Len(t)
                         /\ Stands(t, place[k - 1], seqs[k])

FlatStep(seqs, f, i) == IF i = 1 THEN seqs[i] ELSE f[i - 1] \o seqs[i]

(* There is a function that puts the first i texts one after the other.    *)
LEMMA FlattenExists ==
    ASSUME NEW seqs, NEW n \in Nat
    PROVE  \E f : f = [i \in 1 .. n |-> FlatStep(seqs, f, i)]
<1> DEFINE Up(k, f) == f = [i \in 1 .. n |-> IF i <= k THEN FlatStep(seqs, f, i) ELSE <<>>]
           Good == {k \in Nat : \E f : Up(k, f)}
<1>1. 0 \in Good
  <2>1. PICK f : f = [i \in 1 .. n |-> <<>>]
    OBVIOUS
  <2>2. \A i \in 1 .. n : ~(i <= 0)
    OBVIOUS
  <2>3. Up(0, f)
    BY <2>1, <2>2
  <2>4. QED
    BY <2>3
<1>2. ASSUME NEW k \in Nat, k \in Good PROVE k + 1 \in Good
  <2>1. PICK f : Up(k, f)
    BY <1>2
  <2>2. PICK h : h = [i \in 1 .. n |-> IF i <= k + 1 THEN FlatStep(seqs, f, i) ELSE <<>>]
    OBVIOUS
  <2>3. ASSUME NEW i \in 1 .. n, i <= k + 1 PROVE FlatStep(seqs, h, i) = FlatStep(seqs, f, i)
    <3>1. CASE i = 1
      BY <3>1 DEF FlatStep
    <3>2. CASE i # 1
      <4>1. i - 1 \in 1 .. n /\ i - 1 <= k /\ i - 1 <= k + 1
        BY <2>3, <3>2
      <4>2. h[i - 1] = FlatStep(seqs, f, i - 1) /\ f[i - 1] = FlatStep(seqs, f, i - 1)
        BY <2>1, <2>2, <4>1
      <4>3. QED
        BY <3>2, <4>2 DEF FlatStep
    <3>3. QED
      BY <3>1, <3>2
  <2>4. Up(k + 1, h)
    BY <2>2, <2>3
  <2>5. QED
    BY <2>4
<1>3. \A k \in Nat : k \in Good
  <2> HIDE DEF Good
  <2>1. QED
    BY <1>1, <1>2, Inductive
<1>4. PICK f : Up(n, f)
  BY <1>3
<1>5. f = [i \in 1 .. n |-> FlatStep(seqs, f, i)]
  <2>1. \A i \in 1 .. n : i <= n
    OBVIOUS
  <2>2. QED
    BY <1>4, <2>1
<1>6. QED
  BY <1>5

(* FlattenSeq puts the texts one after the other.                          *)
LEMMA FlattenUnfolds ==
    ASSUME NEW n \in Nat, n >= 1, NEW seqs, Len(seqs) = n
    PROVE  \E f : f = [i \in 1 .. n |-> FlatStep(seqs, f, i)] /\ FlattenSeq(seqs) = f[n]
<1> DEFINE Solves(f) == f = [i \in 1 .. Len(seqs) |-> IF i = 1 THEN seqs[i] ELSE f[i - 1] \o seqs[i]]
<1>1. \E f : Solves(f)
  <2>1. \E f : f = [i \in 1 .. n |-> FlatStep(seqs, f, i)]
    BY FlattenExists
  <2>2. QED
    BY <2>1 DEF FlatStep
<1>2. FlattenSeq(seqs) = (CHOOSE f : Solves(f))[Len(seqs)]
  BY DEF FlattenSeq
<1> HIDE DEF Solves
<1>3. PICK f : f = CHOOSE g : Solves(g)
  OBVIOUS
<1>4. Solves(f) /\ FlattenSeq(seqs) = f[n]
  BY <1>1, <1>2, <1>3
<1>5. f = [i \in 1 .. n |-> FlatStep(seqs, f, i)]
  BY <1>4 DEF Solves, FlatStep
<1>6. QED
  BY <1>4, <1>5

(* Two texts joined: each stands where it should.                          *)
LEMMA JoinStands ==
    ASSUME NEW S, NEW s \in Seq(S), NEW t \in Seq(S)
    PROVE  /\ s \o t \in Seq(S) /\ Len(s \o t) = Len(s) + Len(t)
           /\ Stands(s \o t, 0, s) /\ Stands(s \o t, Len(s), t)
<1>1. s \o t \in Seq(S) /\ Len(s \o t) = Len(s) + Len(t)
  OBVIOUS
<1>2. \A j \in 1 .. Len(s) : (s \o t)[0 + j] = s[j]
  OBVIOUS
<1>3. \A j \in 1 .. Len(t) : (s \o t)[Len(s) + j] = t[j]
  OBVIOUS
<1>4. QED
  BY <1>1, <1>2, <1>3 DEF Stands

(* What stands in the first of two texts stands in both.                   *)
LEMMA StandsLonger ==
    ASSUME NEW S, NEW s \in Seq(S), NEW t \in Seq(S), NEW u \in Seq(S), NEW p \in Nat,
           p + Len(u) <= Len(s), Stands(s, p, u)
    PROVE  Stands(s \o t, p, u)
<1>1. SUFFICES ASSUME NEW j \in 1 .. Len(u) PROVE (s \o t)[p + j] = u[j]
  BY DEF Stands
<1>2. p + j \in 1 .. Len(s)
  OBVIOUS
<1>3. (s \o t)[p + j] = s[p + j]
  BY <1>2
<1>4. s[p + j] = u[j]
  BY DEF Stands
<1>5. QED
  BY <1>3, <1>4

(* One text is laid out at the beginning.                                  *)
LEMMA LayoutOfOne ==
    ASSUME NEW S, NEW n \in Nat, n >= 1, NEW seqs \in [1 .. n -> Seq(S)]
    PROVE  \E place : LaidOut(place, seqs, seqs[1], 1)
<1>1. seqs[1] \in Seq(S)
  OBVIOUS
<1>2. PICK m \in Nat : m = Len(seqs[1])
  BY <1>1, LenProperties
<1>3. PICK place : place = [k \in 0 .. 1 |-> IF k = 0 THEN 0 ELSE m]
  OBVIOUS
<1>4. place[0] = 0 /\ place[1] = m
  BY <1>3
<1>5. Stands(seqs[1], 0, seqs[1])
  <2>1. \A j \in 1 .. Len(seqs[1]) : seqs[1][0 + j] = seqs[1][j]
    BY <1>1
  <2>2. QED
    BY <2>1 DEF Stands
<1>6. ASSUME NEW k \in 1 .. 1
      PROVE  /\ place[k - 1] \in Nat /\ place[k] = place[k - 1] + Len(seqs[k])
             /\ place[k] <= Len(seqs[1]) /\ Stands(seqs[1], place[k - 1], seqs[k])
  <2>1. k = 1 /\ k - 1 = 0
    OBVIOUS
  <2>2. QED
    BY <1>2, <1>4, <1>5, <2>1
<1>7. QED
  BY <1>2, <1>4, <1>6 DEF LaidOut

(* One text more.                                                          *)
LEMMA LayoutNext ==
    ASSUME NEW S, NEW n \in Nat, NEW seqs \in [1 .. n -> Seq(S)], NEW i \in 1 .. n - 1,
           NEW t \in Seq(S), NEW place, LaidOut(place, seqs, t, i)
    PROVE  \E next : LaidOut(next, seqs, t \o seqs[i + 1], i + 1)
<1>0. i \in Nat /\ i + 1 \in 1 .. n
  OBVIOUS
<1>1. PICK u \in Seq(S) : u = seqs[i + 1]
  BY <1>0
<1>2. PICK len \in Nat, more \in Nat : len = Len(t) /\ more = Len(u)
  BY LenProperties
<1>3. PICK w \in Seq(S) : w = t \o u /\ Len(w) = len + more
  <2>1. t \o u \in Seq(S) /\ Len(t \o u) = Len(t) + Len(u)
    BY JoinStands
  <2>2. QED
    BY <1>2, <2>1
<1>4. PICK next : next = [k \in 0 .. i + 1 |-> IF k <= i THEN place[k] ELSE len + more]
  OBVIOUS
<1>5. (\A k \in 0 .. i : next[k] = place[k]) /\ next[i + 1] = len + more
  BY <1>0, <1>4
<1>6. next[0] = 0 /\ place[i] = len
  BY <1>0, <1>2, <1>5 DEF LaidOut
<1>7. ASSUME NEW k \in 1 .. i + 1
      PROVE  /\ next[k - 1] \in Nat /\ next[k] = next[k - 1] + Len(seqs[k])
             /\ next[k] <= Len(w) /\ Stands(w, next[k - 1], seqs[k])
  <2>1. CASE k <= i
    <3>1. k \in 1 .. i /\ k \in 0 .. i /\ k - 1 \in 0 .. i
      BY <2>1
    <3>2. next[k] = place[k] /\ next[k - 1] = place[k - 1]
      BY <1>5, <3>1
    <3>3. /\ place[k - 1] \in Nat /\ place[k] = place[k - 1] + Len(seqs[k])
          /\ place[k] <= len /\ Stands(t, place[k - 1], seqs[k])
      BY <1>2, <3>1 DEF LaidOut
    <3>4. PICK v \in Seq(S), p \in Nat : v = seqs[k] /\ p = place[k - 1]
      <4>1. k \in 1 .. n
        BY <3>1
      <4>2. QED
        BY <3>3, <4>1
    <3>5. Stands(t \o u, p, v)
      <4>1. p + Len(v) <= Len(t) /\ Stands(t, p, v)
        BY <1>2, <3>3, <3>4
      <4>2. QED
        BY <4>1, StandsLonger
    <3>6. PICK m \in Nat : m = Len(seqs[k])
      BY <3>4, LenProperties
    <3>7. place[k] <= len + more
      BY <3>3, <3>6
    <3>8. QED
      BY <1>3, <3>2, <3>3, <3>4, <3>5, <3>7
  <2>2. CASE ~(k <= i)
    <3>1. k = i + 1 /\ k - 1 = i /\ i \in 0 .. i
      BY <2>2
    <3>2. next[k] = len + more /\ next[k - 1] = len
      BY <1>5, <1>6, <3>1
    <3>3. Stands(t \o u, Len(t), u)
      BY JoinStands
    <3>4. QED
      BY <1>1, <1>2, <1>3, <3>1, <3>2, <3>3
  <2>3. QED
    BY <2>1, <2>2
<1>8. next[i + 1] = Len(w)
  BY <1>3, <1>5
<1>9. LaidOut(next, seqs, w, i + 1)
  BY <1>6, <1>7, <1>8 DEF LaidOut
<1>10. QED
  BY <1>1, <1>3, <1>9

(* FlattenSeq lays the texts out one after the other.                      *)
LEMMA FlattenFacts ==
    ASSUME NEW S, NEW n \in Nat, NEW seqs \in [1 .. n -> Seq(S)]
    PROVE  /\ FlattenSeq(seqs) \in Seq(S)
           /\ \E place : LaidOut(place, seqs, FlattenSeq(seqs), n)
<1>0. Len(seqs) = n /\ seqs \in Seq(Seq(S))
  OBVIOUS
<1>1. CASE n = 0
  <2>1. FlattenSeq(seqs) = seqs
    BY <1>0, <1>1 DEF FlattenSeq
  <2>2. seqs = <<>>
    BY <1>0, <1>1
  <2>3. PICK place : place = [k \in 0 .. 0 |-> 0]
    OBVIOUS
  <2>4. place[0] = 0 /\ Len(seqs) = 0
    BY <1>0, <1>1, <2>3
  <2>5. \A k \in 1 .. n : FALSE
    BY <1>1
  <2>6. LaidOut(place, seqs, seqs, n)
    BY <1>1, <2>4, <2>5 DEF LaidOut
  <2>7. <<>> \in Seq(S)
    OBVIOUS
  <2>8. QED
    BY <2>1, <2>2, <2>6, <2>7
<1>2. CASE n >= 1
  <2>1. PICK f : f = [i \in 1 .. n |-> FlatStep(seqs, f, i)] /\ FlattenSeq(seqs) = f[n]
    BY <1>0, <1>2, FlattenUnfolds
  <2> DEFINE Laid(i) == f[i] \in Seq(S) /\ \E place : LaidOut(place, seqs, f[i], i)
             Good == {k \in Nat : k + 1 <= n => Laid(k + 1)}
  <2>2. 0 \in Good
    <3>1. f[1] = seqs[1]
      BY <1>2, <2>1 DEF FlatStep
    <3>2. seqs[1] \in Seq(S)
      BY <1>2
    <3>3. \E place : LaidOut(place, seqs, seqs[1], 1)
      BY <1>2, LayoutOfOne
    <3>4. Laid(1)
      BY <3>1, <3>2, <3>3
    <3>5. 0 + 1 = 1
      OBVIOUS
    <3>6. Laid(0 + 1)
      BY <3>4, <3>5
    <3>7. QED
      BY <3>6
  <2>3. ASSUME NEW k \in Nat, k \in Good PROVE k + 1 \in Good
    <3>1. SUFFICES ASSUME (k + 1) + 1 <= n PROVE Laid((k + 1) + 1)
      OBVIOUS
    <3>2. PICK i \in 1 .. n - 1 : i = k + 1
      BY <3>1
    <3>3. k + 1 <= n
      BY <3>1
    <3>4. Laid(k + 1)
      BY <2>3, <3>3
    <3>5. Laid(i)
      BY <3>2, <3>4
    <3>6. f[i + 1] = f[i] \o seqs[i + 1]
      <4>1. i + 1 \in 1 .. n /\ ~(i + 1 = 1) /\ (i + 1) - 1 = i
        OBVIOUS
      <4>2. f[i + 1] = FlatStep(seqs, f, i + 1)
        BY <2>1, <4>1
      <4>3. QED
        BY <4>1, <4>2 DEF FlatStep
    <3>7. PICK t \in Seq(S) : t = f[i]
      BY <3>5
    <3>8. PICK place : LaidOut(place, seqs, t, i)
      BY <3>5, <3>7
    <3>9. \E next : LaidOut(next, seqs, t \o seqs[i + 1], i + 1)
      BY <3>8, LayoutNext
    <3>10. seqs[i + 1] \in Seq(S)
      OBVIOUS
    <3>11. t \o seqs[i + 1] \in Seq(S)
      BY <3>10, JoinStands
    <3>12. Laid(i + 1)
      BY <3>6, <3>7, <3>9, <3>11
    <3>13. QED
      BY <3>2, <3>12
  <2>4. \A k \in Nat : k \in Good
    <3> HIDE DEF Good
    <3>1. QED
      BY <2>2, <2>3, Inductive
  <2>5. n - 1 \in Nat /\ (n - 1) + 1 = n
    BY <1>2
  <2>6. Laid((n - 1) + 1)
    <3>1. n - 1 \in Good
      BY <2>4, <2>5
    <3>2. QED
      BY <2>5, <3>1
  <2>7. Laid(n)
    BY <2>5, <2>6
  <2>8. QED
    BY <2>1, <2>7
<1>3. QED
  BY <1>1, <1>2

-----------------------------------------------------------------------------
(* What String::toString prints *)

(* The text of one code point.                                             *)
PieceOf(c) == IF IsPrintable(c) /\ c # Backslash THEN <<c>>
              ELSE <<Backslash, 117, 123>> \o Digits(c, 16) \o <<125>>

Ascii == 0 .. 127

(* u is an escape sequence with braces for c.                              *)
IsEscape(u, c) ==
    \E d \in Seq(Ascii) : /\ Len(d) \in 1 .. 5 /\ Len(u) = Len(d) + 4 /\ Number(16, d) = c
                          /\ u[1] = Backslash /\ u[2] = 117 /\ u[3] = 123 /\ u[Len(d) + 4] = 125
                          /\ \A j \in 1 .. Len(d) : u[3 + j] = d[j] /\ IsHexDigit(d[j])

(* A piece is a character or an escape sequence.                           *)
LEMMA PieceOfFacts ==
    ASSUME NEW c \in Nat, c <= NumCodes
    PROVE  /\ PieceOf(c) \in Seq(Ascii) /\ Len(PieceOf(c)) >= 1
           /\ \/ PieceOf(c) = <<c>> /\ IsPrintable(c) /\ c # Backslash
              \/ IsEscape(PieceOf(c), c)
<1>1. CASE IsPrintable(c) /\ c # Backslash
  <2>1. c \in Ascii
    BY <1>1 DEF IsPrintable, Ascii
  <2>2. PieceOf(c) = <<c>>
    BY <1>1 DEF PieceOf
  <2>3. <<c>> \in Seq(Ascii) /\ Len(<<c>>) >= 1
    BY <2>1
  <2>4. QED
    BY <1>1, <2>2, <2>3
<1>2. CASE ~(IsPrintable(c) /\ c # Backslash)
  <2>1. PICK d \in Seq(Int) : d = Digits(c, 16)
    BY CodeDigits
  <2>2. Len(d) \in 1 .. 5 /\ Number(16, d) = c /\ \A j \in 1 .. Len(d) : IsHexDigit(d[j])
    BY <2>1, CodeDigits
  <2>3. d \in Seq(Ascii)
    <3>1. \A j \in 1 .. Len(d) : d[j] \in Ascii
      <4>1. ASSUME NEW j \in 1 .. Len(d) PROVE d[j] \in Ascii
        <5>1. PICK x : x = d[j]
          OBVIOUS
        <5>2. IsHexDigit(x)
          BY <2>2, <5>1
        <5>3. x \in Ascii
          BY <5>2 DEF IsHexDigit, Ascii
        <5>4. QED
          BY <5>1, <5>3
      <4>2. QED
        BY <4>1
    <3>2. QED
      BY <3>1
  <2>4. PICK n \in Nat : n = Len(d)
    BY <2>2
  <2>5. n \in 1 .. 5
    BY <2>2, <2>4
  <2> DEFINE first == <<Backslash, 117, 123>>
             last == <<125>>
             u == first \o d \o last
  <2>6. first \in Seq(Ascii) /\ last \in Seq(Ascii) /\ Len(first) = 3 /\ Len(last) = 1
    BY DEF Backslash, Ascii
  <2>7. first \o d \in Seq(Ascii) /\ Len(first \o d) = 3 + n
    BY <2>3, <2>4, <2>6
  <2>8. u \in Seq(Ascii) /\ Len(u) = (3 + n) + 1
    BY <2>6, <2>7
  <2>9. Stands(first \o d, 0, first) /\ Stands(first \o d, 3, d)
    <3>1. Stands(first \o d, Len(first), d)
      BY <2>3, <2>6, JoinStands
    <3>2. QED
      BY <2>3, <2>6, <3>1, JoinStands
  <2>10. Stands(u, 0, first) /\ Stands(u, 3, d) /\ Stands(u, 3 + n, last)
    <3>1. Stands(u, Len(first \o d), last)
      BY <2>6, <2>7, JoinStands
    <3>2. 0 + Len(first) <= Len(first \o d) /\ 3 + Len(d) <= Len(first \o d) /\ 3 \in Nat
      BY <2>4, <2>6, <2>7
    <3>3. Stands(u, 0, first)
      <4>1. 0 \in Nat /\ 0 + Len(first) <= Len(first \o d)
        BY <3>2
      <4>2. QED
        BY <2>6, <2>7, <2>9, <4>1, StandsLonger
    <3>4. Stands(u, 3, d)
      BY <2>3, <2>6, <2>7, <2>9, <3>2, StandsLonger
    <3>5. QED
      BY <2>7, <3>1, <3>3, <3>4
  <2>11. PieceOf(c) = u
    BY <1>2, <2>1 DEF PieceOf
  <2>12. u[1] = Backslash /\ u[2] = 117 /\ u[3] = 123
    <3>1. \A j \in 1 .. 3 : u[0 + j] = first[j]
      BY <2>6, <2>10 DEF Stands
    <3>2. u[0 + 1] = first[1] /\ u[0 + 2] = first[2] /\ u[0 + 3] = first[3]
      BY <3>1
    <3>3. QED
      BY <3>2
  <2>13. u[n + 4] = 125
    <3>1. \A j \in 1 .. 1 : u[(3 + n) + j] = last[j]
      BY <2>6, <2>10 DEF Stands
    <3>2. 1 \in 1 .. 1 /\ last[1] = 125
      OBVIOUS
    <3>3. u[(3 + n) + 1] = last[1]
      BY <3>1, <3>2, Zenon
    <3>4. (3 + n) + 1 = n + 4
      OBVIOUS
    <3>5. QED
      BY <3>2, <3>3, <3>4
  <2>14. \A j \in 1 .. n : u[3 + j] = d[j]
    BY <2>4, <2>10 DEF Stands
  <2>15. Len(u) = n + 4
    BY <2>8
  <2> HIDE DEF u
  <2>16. IsEscape(u, c)
    <3>1. /\ Len(d) \in 1 .. 5 /\ Len(u) = Len(d) + 4 /\ Number(16, d) = c
          /\ u[1] = Backslash /\ u[2] = 117 /\ u[3] = 123 /\ u[Len(d) + 4] = 125
      BY <2>2, <2>4, <2>12, <2>13, <2>15
    <3>2. \A j \in 1 .. Len(d) : u[3 + j] = d[j] /\ IsHexDigit(d[j])
      BY <2>2, <2>4, <2>14
    <3>3. QED
      BY <2>3, <3>1, <3>2, Zenon DEF IsEscape
  <2>17. QED
    BY <2>8, <2>11, <2>15, <2>16
<1>3. QED
  BY <1>1, <1>2

CodeSeqs == Seq(0 .. NumCodes)

(* A character of a string is a code point.                                *)
LEMMA CodeOf ==
    ASSUME NEW s \in CodeSeqs, NEW k \in 1 .. Len(s)
    PROVE  s[k] \in Nat /\ s[k] <= NumCodes
<1>1. s[k] \in 0 .. NumCodes
  BY ElementOfSeq DEF CodeSeqs
<1>2. QED
  BY <1>1, CodePoints

(* The pieces of a string.                                                 *)
PiecesOf(s) == [i \in DOMAIN s |-> PieceOf(s[i])]

(* ToText lays the pieces out one after the other.                         *)
LEMMA TextFacts ==
    ASSUME NEW s \in CodeSeqs, NEW n \in Nat, n = Len(s)
    PROVE  /\ ToText(s) \in Seq(Ascii) /\ DOMAIN s = 1 .. n
           /\ \E place : LaidOut(place, PiecesOf(s), ToText(s), n)
<1>1. DOMAIN s = 1 .. n
  BY LenProperties DEF CodeSeqs
<1>2. PiecesOf(s) \in [1 .. n -> Seq(Ascii)]
  <2>1. ASSUME NEW i \in 1 .. n PROVE PieceOf(s[i]) \in Seq(Ascii)
    <3>1. s[i] \in Nat /\ s[i] <= NumCodes
      BY CodeOf
    <3>2. QED
      BY <3>1, PieceOfFacts
  <2>2. QED
    BY <1>1, <2>1 DEF PiecesOf
<1>3. ToText(s) = FlattenSeq(PiecesOf(s))
  BY DEF ToText, PiecesOf, PieceOf
<1>4. QED
  BY <1>1, <1>2, <1>3, FlattenFacts

-----------------------------------------------------------------------------
(* Loops over the characters of a text *)

(* f[i] is what a loop over n characters makes from the i-th on, where it  *)
(* makes made[i] and goes on at next[i].                                   *)
GoesOn(f, made, next, n, top) ==
    f = [i \in 1 .. top |-> IF i > n THEN <<>> ELSE made[i] \o f[next[i]]]

(* The loop goes on at a later character, or behind the last one.          *)
Advances(next, n, top) == \A i \in 1 .. n : next[i] \in Nat /\ i < next[i] /\ next[i] <= top

(* There is a function that goes on from each place to the next one.       *)
LEMMA GoesOnExists ==
    ASSUME NEW made, NEW next, NEW n \in Nat, NEW top \in Nat, n <= top, Advances(next, n, top)
    PROVE  \E f : GoesOn(f, made, next, n, top)
<1> DEFINE Up(k, f) == f = [i \in 1 .. top |-> IF i <= n /\ i + k > n THEN made[i] \o f[next[i]] ELSE <<>>]
           Good == {k \in Nat : \E f : Up(k, f)}
<1>1. 0 \in Good
  <2>1. PICK f : f = [i \in 1 .. top |-> <<>>]
    OBVIOUS
  <2>2. \A i \in 1 .. top : ~(i <= n /\ i + 0 > n)
    OBVIOUS
  <2>3. Up(0, f)
    BY <2>1, <2>2
  <2>4. QED
    BY <2>3
<1>2. ASSUME NEW k \in Nat, k \in Good PROVE k + 1 \in Good
  <2>1. PICK f : Up(k, f)
    BY <1>2
  <2>2. PICK h : h = [i \in 1 .. top |-> IF i <= n /\ i + (k + 1) > n THEN made[i] \o f[next[i]] ELSE <<>>]
    OBVIOUS
  <2>3. ASSUME NEW i \in 1 .. top, i <= n, i + (k + 1) > n PROVE h[next[i]] = f[next[i]]
    <3>1. i \in 1 .. n
      BY <2>3
    <3>2. PICK j \in Nat : j = next[i] /\ i < j /\ j <= top
      BY <3>1 DEF Advances
    <3>3. j \in 1 .. top
      BY <3>2
    <3>4. CASE j <= n
      <4>1. j + k > n /\ j + (k + 1) > n
        BY <2>3, <3>2
      <4>2. h[j] = made[j] \o f[next[j]]
        BY <2>2, <3>3, <3>4, <4>1
      <4>3. f[j] = made[j] \o f[next[j]]
        BY <2>1, <3>3, <3>4, <4>1
      <4>4. QED
        BY <3>2, <4>2, <4>3
    <3>5. CASE ~(j <= n)
      <4>1. h[j] = <<>>
        BY <2>2, <3>3, <3>5
      <4>2. f[j] = <<>>
        BY <2>1, <3>3, <3>5
      <4>3. QED
        BY <3>2, <4>1, <4>2
    <3>6. QED
      BY <3>4, <3>5
  <2>4. ASSUME NEW i \in 1 .. top
        PROVE  h[i] = IF i <= n /\ i + (k + 1) > n THEN made[i] \o h[next[i]] ELSE <<>>
    <3>1. CASE i <= n /\ i + (k + 1) > n
      <4>1. h[i] = made[i] \o f[next[i]]
        BY <2>2, <3>1
      <4>2. h[next[i]] = f[next[i]]
        BY <2>3, <3>1
      <4>3. QED
        BY <3>1, <4>1, <4>2
    <3>2. CASE ~(i <= n /\ i + (k + 1) > n)
      BY <2>2, <3>2
    <3>3. QED
      BY <3>1, <3>2
  <2>5. Up(k + 1, h)
    BY <2>2, <2>4
  <2>6. \E g : Up(k + 1, g)
    <3> HIDE DEF Up
    <3>1. QED
      BY <2>5
  <2>7. k + 1 \in Nat
    OBVIOUS
  <2>8. QED
    <3> HIDE DEF Up
    <3>1. QED
      BY <2>6, <2>7
<1>3. \A k \in Nat : k \in Good
  <2> HIDE DEF Good
  <2>1. QED
    BY <1>1, <1>2, Inductive
<1>4. PICK f : Up(n, f)
  BY <1>3
<1>5. \A i \in 1 .. top : (i <= n /\ i + n > n) <=> ~(i > n)
  OBVIOUS
<1>6. ASSUME NEW i \in 1 .. top PROVE f[i] = IF i > n THEN <<>> ELSE made[i] \o f[next[i]]
  <2>1. f[i] = IF i <= n /\ i + n > n THEN made[i] \o f[next[i]] ELSE <<>>
    BY <1>4
  <2>2. QED
    BY <1>5, <2>1
<1>7. GoesOn(f, made, next, n, top)
  BY <1>4, <1>6 DEF GoesOn
<1>8. QED
  BY <1>7

MadeOf(made, n, S) == \A i \in 1 .. n : made[i] \in Seq(S)

(* What the loop makes consists of what it makes in each round.            *)
LEMMA GoesOnType ==
    ASSUME NEW S, NEW made, NEW next, NEW n \in Nat, NEW top \in Nat, Advances(next, n, top), n <= top,
           NEW f, GoesOn(f, made, next, n, top), MadeOf(made, n, S)
    PROVE  \A i \in 1 .. top : f[i] \in Seq(S)
<1> DEFINE Good == {k \in Nat : \A i \in 1 .. top : i + k > n => f[i] \in Seq(S)}
<1>0. \A i \in 1 .. top : f[i] = IF i > n THEN <<>> ELSE made[i] \o f[next[i]]
  BY DEF GoesOn
<1>1. 0 \in Good
  <2>1. ASSUME NEW i \in 1 .. top, i + 0 > n PROVE f[i] \in Seq(S)
    <3>1. f[i] = <<>>
      BY <1>0, <2>1
    <3>2. QED
      BY <3>1
  <2>2. QED
    BY <2>1
<1>2. ASSUME NEW k \in Nat, k \in Good PROVE k + 1 \in Good
  <2>1. SUFFICES ASSUME NEW i \in 1 .. top, i + (k + 1) > n PROVE f[i] \in Seq(S)
    OBVIOUS
  <2>2. CASE i > n
    <3>1. f[i] = <<>>
      BY <1>0, <2>2
    <3>2. QED
      BY <3>1
  <2>3. CASE ~(i > n)
    <3>1. i \in 1 .. n
      BY <2>3
    <3>2. PICK j \in Nat : j = next[i] /\ i < j /\ j <= top
      BY <3>1 DEF Advances
    <3>3. j \in 1 .. top /\ j + k > n
      BY <2>1, <3>2
    <3>4. f[j] \in Seq(S)
      BY <1>2, <3>3
    <3>5. f[i] = made[i] \o f[j]
      BY <1>0, <2>3, <3>2
    <3>6. made[i] \in Seq(S)
      BY <3>1 DEF MadeOf
    <3>7. QED
      BY <3>4, <3>5, <3>6, JoinStands
  <2>4. QED
    BY <2>2, <2>3
<1>3. \A k \in Nat : k \in Good
  <2> HIDE DEF Good
  <2>1. QED
    BY <1>1, <1>2, Inductive
<1>4. n \in Good
  BY <1>3
<1>5. \A i \in 1 .. top : i + n > n
  OBVIOUS
<1>6. QED
  BY <1>4, <1>5

-----------------------------------------------------------------------------
(* String::toInternal *)

Plain(c) == IF 32 <= c /\ c <= 127 THEN <<c>> ELSE <<>>

GoodEscapes(s, i) == {n \in Escapes(s, i) : EscapedCode(s, i, n) <= NumCodes}
EscapeAt(s, i) == CHOOSE n \in GoodEscapes(s, i) : TRUE

(* What toInternal makes at each place of s, and where it goes on.         *)
InternalMade(s) == [i \in 1 .. Len(s) |-> IF GoodEscapes(s, i) = {} THEN Plain(s[i])
                                          ELSE <<EscapedCode(s, i, EscapeAt(s, i))>>]
InternalNext(s) == [i \in 1 .. Len(s) |-> IF GoodEscapes(s, i) = {} THEN i + 1
                                          ELSE i + EscapeAt(s, i)]

(* An escape sequence has four to nine characters, and a code point.       *)
LEMMA EscapeFacts ==
    ASSUME NEW s \in Seq(Int), NEW i \in 1 .. Len(s), NEW n \in Escapes(s, i)
    PROVE  n \in 4 .. 9 /\ i + n - 1 <= Len(s) /\ EscapedCode(s, i, n) \in Nat
<1>1. n \in 4 .. 9 /\ i + n - 1 <= Len(s)
  BY DEF Escapes
<1>2. PICK len \in Nat : len = Len(s)
  BY LenProperties
<1>3. CASE s[i + 2] = 123
  <2>1. (\A j \in i + 3 .. i + n - 2 : IsHexDigit(s[j])) /\ n >= 5
    BY <1>3 DEF Escapes
  <2>2. PICK a \in Int, b \in Int, k \in Nat : a = i + 3 /\ b = i + n - 2 /\ k = b - a + 1 /\ a <= b
    <3>1. i + 3 \in Int /\ i + n - 2 \in Int /\ (i + n - 2) - (i + 3) + 1 \in Nat /\ i + 3 <= i + n - 2
      BY <1>1, <2>1
    <3>2. QED
      BY <3>1
  <2> DEFINE d == SubSeq(s, a, b)
  <2>3. d \in Seq(Int) /\ Len(d) = k /\ \A j \in 1 .. k : d[j] = s[a + j - 1]
    <3>1. \A j \in a .. b : s[j] \in Int
      <4>1. ASSUME NEW j \in a .. b PROVE s[j] \in Int
        <5>1. j \in 1 .. Len(s)
          BY <1>1, <1>2, <2>2
        <5>2. QED
          BY <5>1
      <4>2. QED
        BY <4>1
    <3>2. d \in Seq(Int) /\ Len(d) = IF a <= b THEN b - a + 1 ELSE 0
      BY <3>1, SubSeqProperties
    <3>3. \A j \in 1 .. b - a + 1 : d[j] = s[a + j - 1]
      BY <3>1, SubSeqProperties
    <3>4. QED
      BY <2>2, <3>2, <3>3
  <2>4. \A j \in 1 .. k : IsHexDigit(d[j])
    <3>1. ASSUME NEW j \in 1 .. k PROVE IsHexDigit(d[j])
      <4>1. a + j - 1 \in i + 3 .. i + n - 2
        BY <2>2
      <4>2. IsHexDigit(s[a + j - 1])
        BY <2>1, <4>1
      <4>3. d[j] = s[a + j - 1]
        BY <2>3
      <4>4. QED
        BY <4>2, <4>3
    <3>2. QED
      BY <3>1
  <2>5. EscapedCode(s, i, n) = Number(16, d)
    BY <1>3, <2>2 DEF EscapedCode
  <2>6. DOMAIN d = 1 .. k
    BY <2>3, LenProperties
  <2> HIDE DEF d
  <2>7. Number(16, d) \in Nat
    BY <2>3, <2>4, <2>6, NumberType, 16 \in Nat
  <2>8. QED
    BY <1>1, <2>5, <2>7
<1>4. CASE s[i + 2] # 123
  <2>1. n = 6 /\ \A j \in i + 2 .. i + 5 : IsHexDigit(s[j])
    BY <1>4 DEF Escapes
  <2>0. PICK a \in Int, b \in Int : a = i + 2 /\ b = i + 5 /\ a <= b /\ b - a + 1 = 4
    OBVIOUS
  <2> DEFINE d == SubSeq(s, a, b)
  <2>2. d \in Seq(Int) /\ Len(d) = 4 /\ \A j \in 1 .. 4 : d[j] = s[(i + 2) + j - 1]
    <3>1. \A j \in a .. b : s[j] \in Int
      <4>1. ASSUME NEW j \in a .. b PROVE s[j] \in Int
        <5>1. j \in 1 .. Len(s)
          BY <1>1, <1>2, <2>0, <2>1
        <5>2. QED
          BY <5>1
      <4>2. QED
        BY <4>1
    <3>4. d \in Seq(Int) /\ Len(d) = IF a <= b THEN b - a + 1 ELSE 0
      BY <3>1, SubSeqProperties
    <3>5. \A j \in 1 .. b - a + 1 : d[j] = s[a + j - 1]
      BY <3>1, SubSeqProperties
    <3>6. QED
      BY <2>0, <3>4, <3>5
  <2>3. \A j \in 1 .. 4 : IsHexDigit(d[j])
    <3>1. ASSUME NEW j \in 1 .. 4 PROVE IsHexDigit(d[j])
      <4>1. (i + 2) + j - 1 \in i + 2 .. i + 5
        OBVIOUS
      <4>2. IsHexDigit(s[(i + 2) + j - 1])
        BY <2>1, <4>1
      <4>3. d[j] = s[(i + 2) + j - 1]
        BY <2>2
      <4>4. QED
        BY <4>2, <4>3
    <3>2. QED
      BY <3>1
  <2>4. EscapedCode(s, i, n) = Number(16, d)
    BY <1>4, <2>0 DEF EscapedCode
  <2>5. DOMAIN d = 1 .. 4
    BY <2>2, LenProperties
  <2> HIDE DEF d
  <2>6. Number(16, d) \in Nat
    BY <2>2, <2>3, <2>5, NumberType, 16 \in Nat, 4 \in Nat
  <2>7. QED
    BY <1>1, <2>4, <2>6
<1>5. QED
  BY <1>3, <1>4

(* The recursive function of ToInternal unfolds.                           *)
LEMMA InternalLoop ==
    ASSUME NEW s \in Seq(Int), NEW n \in Nat, n = Len(s)
    PROVE  /\ Advances(InternalNext(s), n, n + 9)
           /\ \A i \in 1 .. n : InternalMade(s)[i] \in CodeSeqs
           /\ \A i \in 1 .. n : GoodEscapes(s, i) # {} => EscapeAt(s, i) \in GoodEscapes(s, i)
<1>1. \A i \in 1 .. n : GoodEscapes(s, i) # {} => EscapeAt(s, i) \in GoodEscapes(s, i)
  BY DEF EscapeAt
<1>2. ASSUME NEW i \in 1 .. n
      PROVE  /\ InternalNext(s)[i] \in Nat /\ i < InternalNext(s)[i] /\ InternalNext(s)[i] <= n + 9
             /\ InternalMade(s)[i] \in CodeSeqs
  <2>1. CASE GoodEscapes(s, i) = {}
    <3>1. InternalNext(s)[i] = i + 1 /\ InternalMade(s)[i] = Plain(s[i])
      BY <2>1 DEF InternalNext, InternalMade
    <3>2. Plain(s[i]) \in CodeSeqs
      <4>1. CASE 32 <= s[i] /\ s[i] <= 127
        <5>1. s[i] \in Nat /\ s[i] \in 0 .. NumCodes
          <6>1. s[i] \in Nat
            BY <4>1
          <6>2. s[i] <= NumCodes
            BY <4>1, <6>1, SMT DEF NumCodes
          <6>3. QED
            BY <6>1, <6>2, CodePoints
        <5>2. <<s[i]>> \in Seq(0 .. NumCodes)
          BY <5>1, SMT
        <5>3. QED
          BY <4>1, <5>2 DEF Plain, CodeSeqs
      <4>2. CASE ~(32 <= s[i] /\ s[i] <= 127)
        <5>1. Plain(s[i]) = <<>>
          BY <4>2 DEF Plain
        <5>2. QED
          BY <5>1 DEF CodeSeqs
      <4>3. QED
        BY <4>1, <4>2
    <3>3. QED
      BY <3>1, <3>2
  <2>2. CASE GoodEscapes(s, i) # {}
    <3>1. PICK m : m = EscapeAt(s, i)
      OBVIOUS
    <3>2. m \in Escapes(s, i) /\ EscapedCode(s, i, m) <= NumCodes
      BY <1>1, <2>2, <3>1 DEF GoodEscapes
    <3>3. m \in 4 .. 9 /\ EscapedCode(s, i, m) \in Nat
      BY <3>2, EscapeFacts
    <3>4. InternalNext(s)[i] = i + m /\ InternalMade(s)[i] = <<EscapedCode(s, i, m)>>
      BY <2>2, <3>1 DEF InternalNext, InternalMade
    <3>5. EscapedCode(s, i, m) \in 0 .. NumCodes
      BY <3>2, <3>3, CodePoints
    <3>6. <<EscapedCode(s, i, m)>> \in Seq(0 .. NumCodes)
      BY <3>5
    <3>7. QED
      BY <3>3, <3>4, <3>6 DEF CodeSeqs
  <2>3. QED
    BY <2>1, <2>2
<1>3. QED
  BY <1>1, <1>2 DEF Advances

(* toInternal is such a loop.                                              *)
LEMMA ToInternalUnfolds ==
    ASSUME NEW s \in Seq(Int), NEW n \in Nat, n = Len(s)
    PROVE  \E f : GoesOn(f, InternalMade(s), InternalNext(s), n, n + 9) /\ ToInternal(s) = f[1]
<1> DEFINE Solves(g) == g = [i \in 1 .. Len(s) + 9 |->
                          IF i > Len(s) THEN <<>>
                          ELSE IF GoodEscapes(s, i) = {} THEN Plain(s[i]) \o g[i + 1]
                          ELSE <<EscapedCode(s, i, EscapeAt(s, i))>> \o g[i + EscapeAt(s, i)]]
<1>1. ToInternal(s) = (CHOOSE g : Solves(g))[1]
  BY DEF ToInternal, GoodEscapes, EscapeAt, Plain
<1>2. ASSUME NEW g PROVE Solves(g) <=> GoesOn(g, InternalMade(s), InternalNext(s), n, n + 9)
  <2>1. ASSUME NEW i \in 1 .. n + 9
        PROVE  (IF i > n THEN <<>>
                ELSE IF GoodEscapes(s, i) = {} THEN Plain(s[i]) \o g[i + 1]
                ELSE <<EscapedCode(s, i, EscapeAt(s, i))>> \o g[i + EscapeAt(s, i)])
               = (IF i > n THEN <<>> ELSE InternalMade(s)[i] \o g[InternalNext(s)[i]])
    <3>1. CASE i > n
      BY <3>1
    <3>2. CASE ~(i > n)
      <4>1. i \in 1 .. Len(s)
        BY <3>2
      <4>2. CASE GoodEscapes(s, i) = {}
        <5>1. InternalMade(s)[i] = Plain(s[i]) /\ InternalNext(s)[i] = i + 1
          BY <4>1, <4>2 DEF InternalMade, InternalNext
        <5>2. QED
          BY <3>2, <4>2, <5>1
      <4>3. CASE GoodEscapes(s, i) # {}
        <5>1. /\ InternalMade(s)[i] = <<EscapedCode(s, i, EscapeAt(s, i))>>
              /\ InternalNext(s)[i] = i + EscapeAt(s, i)
          BY <4>1, <4>3 DEF InternalMade, InternalNext
        <5>2. QED
          BY <3>2, <4>3, <5>1
      <4>4. QED
        BY <4>2, <4>3
    <3>3. QED
      BY <3>1, <3>2
  <2>2. QED
    BY <2>1 DEF GoesOn
<1>3. \E g : Solves(g)
  <2>1. \E g : GoesOn(g, InternalMade(s), InternalNext(s), n, n + 9)
    <3>1. n + 9 \in Nat /\ n <= n + 9
      OBVIOUS
    <3>2. QED
      BY <3>1, InternalLoop, GoesOnExists
  <2>2. QED
    BY <1>2, <2>1
<1> HIDE DEF Solves
<1>4. PICK f : f = CHOOSE g : Solves(g)
  OBVIOUS
<1>5. Solves(f)
  BY <1>3, <1>4
<1>6. QED
  BY <1>1, <1>2, <1>4, <1>5

(* Whatever is read, a string has code points.                             *)
LEMMA InternalType == ASSUME NEW s \in Seq(Int) PROVE ToInternal(s) \in CodeSeqs
<1>1. PICK n \in Nat : n = Len(s)
  BY LenProperties
<1>2. PICK f : GoesOn(f, InternalMade(s), InternalNext(s), n, n + 9) /\ ToInternal(s) = f[1]
  BY <1>1, ToInternalUnfolds
<1>3. Advances(InternalNext(s), n, n + 9) /\ \A i \in 1 .. n : InternalMade(s)[i] \in Seq(0 .. NumCodes)
  BY <1>1, InternalLoop DEF CodeSeqs
<1>4. \A i \in 1 .. n + 9 : f[i] \in Seq(0 .. NumCodes)
  <2>1. n + 9 \in Nat /\ n <= n + 9
    OBVIOUS
  <2>2. MadeOf(InternalMade(s), n, 0 .. NumCodes)
    BY <1>3 DEF MadeOf
  <2>3. QED
    BY <1>2, <1>3, <2>1, <2>2, GoesOnType
<1>5. 1 \in 1 .. n + 9
  OBVIOUS
<1>6. QED
  BY <1>2, <1>4, <1>5 DEF CodeSeqs

-----------------------------------------------------------------------------
(* Reading what was printed *)

(* An escape sequence for c that stands at i, and no other, is read.       *)
LEMMA ReadsEscape ==
    ASSUME NEW t \in Seq(Ascii), NEW c \in Nat, c <= NumCodes, NEW u \in Seq(Ascii), IsEscape(u, c),
           NEW p \in Nat, p + Len(u) <= Len(t), Stands(t, p, u)
    PROVE  InternalMade(t)[p + 1] = <<c>> /\ InternalNext(t)[p + 1] = (p + Len(u)) + 1
<1>1. PICK d \in Seq(Ascii) :
          /\ Len(d) \in 1 .. 5 /\ Len(u) = Len(d) + 4 /\ Number(16, d) = c
          /\ u[1] = Backslash /\ u[2] = 117 /\ u[3] = 123 /\ u[Len(d) + 4] = 125
          /\ \A j \in 1 .. Len(d) : u[3 + j] = d[j] /\ IsHexDigit(d[j])
  BY DEF IsEscape
<1>2. PICK m \in Nat, n \in Nat : m = Len(d) /\ n = Len(t) /\ m \in 1 .. 5
  BY <1>1, LenProperties
<1>3. PICK i \in 1 .. n : i = p + 1 /\ (i + m) + 3 <= n
  <2>1. p + (m + 4) <= n
    BY <1>1, <1>2
  <2>2. p + 1 \in 1 .. n
    BY <1>2, <2>1
  <2>3. QED
    BY <2>1, <2>2
<1>4. \A j \in 1 .. m + 4 : t[p + j] = u[j]
  BY <1>1, <1>2 DEF Stands
<1>5. t[i] = Backslash /\ t[i + 1] = 117 /\ t[i + 2] = 123 /\ t[(i + m) + 3] = 125
  <2>1. t[p + 1] = u[1] /\ t[p + 2] = u[2] /\ t[p + 3] = u[3] /\ t[p + (m + 4)] = u[m + 4]
    <3>1. 1 \in 1 .. m + 4 /\ 2 \in 1 .. m + 4 /\ 3 \in 1 .. m + 4 /\ m + 4 \in 1 .. m + 4
      BY <1>2
    <3>2. QED
      BY <1>4, <3>1, Zenon
  <2>2. i = p + 1 /\ i + 1 = p + 2 /\ i + 2 = p + 3 /\ (i + m) + 3 = p + (m + 4)
    BY <1>3
  <2>3. QED
    BY <1>1, <1>2, <2>1, <2>2
<1>6. \A j \in 1 .. m : t[(i + 2) + j] = d[j] /\ IsHexDigit(d[j])
  <2>1. ASSUME NEW j \in 1 .. m PROVE t[(i + 2) + j] = d[j] /\ IsHexDigit(d[j])
    <3>1. 3 + j \in 1 .. m + 4 /\ p + (3 + j) = (i + 2) + j
      BY <1>3
    <3>2. t[p + (3 + j)] = u[3 + j]
      BY <1>4, <3>1
    <3>3. u[3 + j] = d[j] /\ IsHexDigit(d[j])
      BY <1>1, <1>2
    <3>4. QED
      BY <3>1, <3>2, <3>3
  <2>2. QED
    BY <2>1
<1>7. ~IsHexDigit(125)
  BY DEF IsHexDigit
<1>8. ASSUME NEW x \in Escapes(t, i) PROVE x = m + 4
  <2>1. /\ x \in 4 .. 9 /\ i + x - 1 <= n /\ x >= 5 /\ t[i + x - 1] = 125
        /\ \A j \in i + 3 .. i + x - 2 : IsHexDigit(t[j])
    BY <1>2, <1>5 DEF Escapes
  <2>2. CASE x > m + 4
    <3>1. (i + m) + 3 \in i + 3 .. i + x - 2
      BY <2>1, <2>2
    <3>2. IsHexDigit(t[(i + m) + 3])
      BY <2>1, <3>1
    <3>3. QED
      BY <1>5, <1>7, <3>2
  <2>3. CASE x < m + 4
    <3>1. PICK j \in 1 .. m : j = x - 3
      BY <2>1, <2>3
    <3>2. (i + 2) + j = i + x - 1
      BY <2>1, <3>1
    <3>3. IsHexDigit(t[i + x - 1])
      BY <1>6, <3>2
    <3>4. QED
      BY <1>7, <2>1, <3>3
  <2>4. QED
    BY <2>1, <2>2, <2>3
<1>9. m + 4 \in Escapes(t, i)
  <2>1. m + 4 \in 4 .. 9 /\ i + (m + 4) - 1 <= n /\ m + 4 >= 5
    <3>0. m \in 1 .. 5
      BY <1>2, Zenon
    <3>1. i \in Int /\ 1 <= m /\ m <= 5
      BY <3>0
    <3>2. m + 4 \in 4 .. 9 /\ m + 4 >= 5
      BY <3>1
    <3>3. i + (m + 4) - 1 <= n
      BY <1>3, <3>1
    <3>4. QED
      BY <3>2, <3>3
  <2>2. i + (m + 4) - 1 = (i + m) + 3
    OBVIOUS
  <2>3. \A j \in i + 3 .. i + (m + 4) - 2 : IsHexDigit(t[j])
    <3>1. ASSUME NEW j \in i + 3 .. i + (m + 4) - 2 PROVE IsHexDigit(t[j])
      <4>1. PICK k \in 1 .. m : k = j - (i + 2)
        OBVIOUS
      <4>2. (i + 2) + k = j
        BY <4>1
      <4>3. QED
        BY <1>6, <4>2
    <3>2. QED
      BY <3>1
  <2>4. t[i + (m + 4) - 1] = 125
    BY <1>5, <2>2
  <2>5. QED
    BY <1>2, <1>5, <2>1, <2>3, <2>4 DEF Escapes
<1>10. PICK a \in Int, b \in Int : a = i + 3 /\ b = i + (m + 4) - 2 /\ a <= b /\ b - a + 1 = m
  BY <1>2
<1>11. SubSeq(t, a, b) = d
  <2>1. \A j \in a .. b : t[j] \in Ascii
    <3>1. ASSUME NEW j \in a .. b PROVE t[j] \in Ascii
      <4>1. 1 <= i /\ (i + m) + 3 <= n /\ 1 <= m /\ n = Len(t)
        BY <1>2, <1>3
      <4>2. 1 <= a /\ b <= n
        BY <1>10, <4>1
      <4>3. j \in 1 .. Len(t)
        BY <4>1, <4>2
      <4>4. QED
        BY <4>3, ElementOfSeq
    <3>2. QED
      BY <3>1
  <2> DEFINE w == SubSeq(t, a, b)
  <2>2. w \in Seq(Ascii) /\ Len(w) = m /\ \A j \in 1 .. m : w[j] = t[a + j - 1]
    <3>1. w \in Seq(Ascii) /\ Len(w) = IF a <= b THEN b - a + 1 ELSE 0
      BY <2>1, SubSeqProperties
    <3>2. \A j \in 1 .. b - a + 1 : w[j] = t[a + j - 1]
      BY <2>1, SubSeqProperties
    <3>3. QED
      BY <1>10, <3>1, <3>2
  <2>3. \A j \in 1 .. m : w[j] = d[j]
    <3>1. ASSUME NEW j \in 1 .. m PROVE w[j] = d[j]
      <4>1. a + j - 1 = (i + 2) + j
        BY <1>10
      <4>2. QED
        BY <1>6, <2>2, <4>1
    <3>2. QED
      BY <3>1
  <2> HIDE DEF w
  <2>4. QED
    <3>1. w = d
      BY <1>2, <2>2, <2>3, SeqEqual
    <3>2. QED
      BY <3>1 DEF w
<1>12. EscapedCode(t, i, m + 4) = c
  BY <1>1, <1>5, <1>10, <1>11 DEF EscapedCode
<1>13. GoodEscapes(t, i) = {m + 4}
  BY <1>8, <1>9, <1>12 DEF GoodEscapes
<1>14. EscapeAt(t, i) = m + 4
  BY <1>13 DEF EscapeAt
<1>15. i \in 1 .. Len(t) /\ i + (m + 4) = (p + Len(u)) + 1
  BY <1>1, <1>2, <1>3
<1>16. InternalMade(t)[i] = <<c>> /\ InternalNext(t)[i] = i + (m + 4)
  <2>1. GoodEscapes(t, i) # {}
    BY <1>13
  <2>2. QED
    BY <1>12, <1>14, <1>15, <2>1 DEF InternalMade, InternalNext
<1>17. QED
  BY <1>3, <1>15, <1>16

(* The piece for a code point is read as the code point.                   *)
LEMMA ReadsPiece ==
    ASSUME NEW t \in Seq(Ascii), NEW c \in Nat, c <= NumCodes,
           NEW p \in Nat, p + Len(PieceOf(c)) <= Len(t), Stands(t, p, PieceOf(c))
    PROVE  InternalMade(t)[p + 1] = <<c>> /\ InternalNext(t)[p + 1] = (p + Len(PieceOf(c))) + 1
<1>1. CASE PieceOf(c) = <<c>> /\ IsPrintable(c) /\ c # Backslash
  <2>1. Len(<<c>>) = 1 /\ <<c>>[1] = c
    OBVIOUS
  <2>2. \A j \in 1 .. 1 : t[p + j] = <<c>>[j]
    BY <1>1, <2>1 DEF Stands
  <2>3. t[p + 1] = c
    BY <2>1, <2>2
  <2>4. Escapes(t, p + 1) = {}
    BY <1>1, <2>3 DEF Escapes
  <2>5. GoodEscapes(t, p + 1) = {}
    BY <2>4 DEF GoodEscapes
  <2>6. p + 1 \in 1 .. Len(t)
    <3>1. PICK n \in Nat : n = Len(t)
      BY LenProperties
    <3>2. p + 1 <= n
      BY <1>1, <2>1, <3>1
    <3>3. QED
      BY <3>1, <3>2
  <2>7. InternalMade(t)[p + 1] = Plain(c) /\ InternalNext(t)[p + 1] = (p + 1) + 1
    BY <2>3, <2>5, <2>6 DEF InternalMade, InternalNext
  <2>8. Plain(c) = <<c>>
    <3>1. 32 <= c /\ c <= 127
      BY <1>1 DEF IsPrintable
    <3>2. QED
      BY <3>1 DEF Plain
  <2>9. QED
    BY <1>1, <2>1, <2>7, <2>8
<1>2. CASE IsEscape(PieceOf(c), c)
  <2>1. PieceOf(c) \in Seq(Ascii)
    BY PieceOfFacts
  <2>2. QED
    BY <1>2, <2>1, ReadsEscape
<1>3. QED
  BY <1>1, <1>2, PieceOfFacts

(* String::toInternal undoes String::toString.                             *)
LEMMA RoundTrip == ASSUME NEW s \in CodeSeqs PROVE ToInternal(ToText(s)) = s
<1>1. PICK n \in Nat : n = Len(s)
  BY LenProperties DEF CodeSeqs
<1>2. PICK t \in Seq(Ascii) : t = ToText(s)
  BY <1>1, TextFacts
<1>3. DOMAIN s = 1 .. n
  BY <1>1, TextFacts
<1>4. PICK place : LaidOut(place, PiecesOf(s), t, n)
  BY <1>1, <1>2, TextFacts
<1>5. PICK len \in Nat : len = Len(t)
  BY LenProperties
<1>6. t \in Seq(Int)
  <2>1. Ascii \subseteq Int
    BY DEF Ascii
  <2>2. QED
    BY <2>1, SeqMonotonic
<1>7. PICK f : GoesOn(f, InternalMade(t), InternalNext(t), len, len + 9) /\ ToInternal(t) = f[1]
  BY <1>5, <1>6, ToInternalUnfolds
<1>8. \A i \in 1 .. len + 9 : f[i] = IF i > len THEN <<>> ELSE InternalMade(t)[i] \o f[InternalNext(t)[i]]
  BY <1>7 DEF GoesOn
<1>9. \A k \in 0 .. n : place[k] \in Nat /\ place[k] <= len
  <2>1. ASSUME NEW k \in 0 .. n PROVE place[k] \in Nat /\ place[k] <= len
    <3>1. CASE k = 0
      BY <1>4, <3>1 DEF LaidOut
    <3>2. CASE k # 0
      <4>1. k \in 1 .. n
        BY <3>2
      <4>2. place[k - 1] \in Nat /\ place[k] = place[k - 1] + Len(PiecesOf(s)[k]) /\ place[k] <= len
        BY <1>4, <1>5, <4>1 DEF LaidOut
      <4>3. PiecesOf(s)[k] \in Seq(Ascii)
        <5>1. PiecesOf(s)[k] = PieceOf(s[k])
          BY <1>3, <4>1 DEF PiecesOf
        <5>2. s[k] \in Nat /\ s[k] <= NumCodes
          BY <1>1, <4>1, CodeOf
        <5>3. QED
          BY <5>1, <5>2, PieceOfFacts
      <4>4. Len(PiecesOf(s)[k]) \in Nat
        BY <4>3, LenProperties
      <4>5. QED
        BY <4>2, <4>4
    <3>3. QED
      BY <3>1, <3>2
  <2>2. QED
    BY <2>1
<1>10. ASSUME NEW k \in 1 .. n
       PROVE  f[place[k - 1] + 1] = <<s[k]>> \o f[place[k] + 1]
  <2>1. s[k] \in Nat /\ s[k] <= NumCodes
    BY <1>1, CodeOf
  <2>2. PICK c \in Nat : c = s[k] /\ c <= NumCodes
    BY <2>1
  <2>3. PiecesOf(s)[k] = PieceOf(c)
    BY <1>3, <2>2 DEF PiecesOf
  <2>4. PICK p \in Nat, q \in Nat : p = place[k - 1] /\ q = place[k]
    <3>1. k \in 0 .. n /\ k - 1 \in 0 .. n
      OBVIOUS
    <3>2. QED
      BY <1>9, <3>1
  <2>5. q = p + Len(PieceOf(c)) /\ q <= len /\ Stands(t, p, PieceOf(c))
    BY <1>4, <1>5, <2>3, <2>4 DEF LaidOut
  <2>6. PICK m \in Nat : m = Len(PieceOf(c)) /\ m >= 1
    BY <2>2, PieceOfFacts, LenProperties
  <2>7. InternalMade(t)[p + 1] = <<c>> /\ InternalNext(t)[p + 1] = (p + Len(PieceOf(c))) + 1
    <3>1. p + Len(PieceOf(c)) <= Len(t)
      BY <1>5, <2>5
    <3>2. Stands(t, p, PieceOf(c)) /\ c <= NumCodes
      BY <2>2, <2>5
    <3>3. QED
      BY <3>1, <3>2, ReadsPiece
  <2>8. p + 1 \in 1 .. len + 9 /\ ~(p + 1 > len)
    BY <2>5, <2>6
  <2>9. f[p + 1] = InternalMade(t)[p + 1] \o f[InternalNext(t)[p + 1]]
    BY <1>8, <2>8
  <2>10. InternalNext(t)[p + 1] = q + 1
    BY <2>5, <2>7
  <2>11. QED
    BY <2>2, <2>4, <2>7, <2>9, <2>10
<1> DEFINE Good == {j \in Nat : j <= n => f[place[n - j] + 1] = SubSeq(s, (n - j) + 1, n)}
<1>11. 0 \in Good
  <2>1. n - 0 = n /\ place[n] = len
    BY <1>4, <1>5 DEF LaidOut
  <2>2. f[len + 1] = <<>>
    <3>1. len + 1 \in 1 .. len + 9 /\ len + 1 > len
      OBVIOUS
    <3>2. QED
      BY <1>8, <3>1
  <2>3. SubSeq(s, n + 1, n) = <<>>
    BY <1>1, SubSeqEmpty
  <2>4. QED
    BY <2>1, <2>2, <2>3
<1>12. ASSUME NEW j \in Nat, j \in Good PROVE j + 1 \in Good
  <2>1. SUFFICES ASSUME j + 1 <= n PROVE f[place[n - (j + 1)] + 1] = SubSeq(s, (n - (j + 1)) + 1, n)
    OBVIOUS
  <2>2. PICK k \in 1 .. n : k = n - j
    BY <2>1
  <2>3. n - (j + 1) = k - 1 /\ (n - (j + 1)) + 1 = k /\ j <= n
    BY <2>1, <2>2
  <2>4. f[place[k] + 1] = SubSeq(s, k + 1, n)
    BY <1>12, <2>2, <2>3
  <2>5. f[place[k - 1] + 1] = <<s[k]>> \o SubSeq(s, k + 1, n)
    BY <1>10, <2>4
  <2>6. SubSeq(s, k, n) = <<s[k]>> \o SubSeq(s, k + 1, n)
    <3>1. s \in Seq(0 .. NumCodes) /\ k \in 1 .. Len(s) /\ n \in k .. Len(s)
      BY <1>1, <2>2 DEF CodeSeqs
    <3>2. QED
      BY <3>1, SubSeqRecursiveFirst
  <2>7. QED
    BY <2>3, <2>5, <2>6
<1>13. \A j \in Nat : j \in Good
  <2> HIDE DEF Good
  <2>1. QED
    BY <1>11, <1>12, Inductive
<1>14. f[place[0] + 1] = SubSeq(s, 1, n)
  <2>1. n \in Good /\ n - n = 0 /\ 0 + 1 = 1 /\ n <= n
    BY <1>13
  <2>2. f[place[n - n] + 1] = SubSeq(s, (n - n) + 1, n)
    BY <2>1
  <2>3. QED
    BY <2>1, <2>2
<1>15. place[0] = 0
  BY <1>4 DEF LaidOut
<1>16. SubSeq(s, 1, n) = s
  BY <1>1, SubSeqFull DEF CodeSeqs
<1>17. QED
  BY <1>2, <1>7, <1>14, <1>15, <1>16

-----------------------------------------------------------------------------
(* The strings that operators make *)

(* Printable ASCII characters are code points.                             *)
LEMMA AsciiCodes == Ascii \subseteq 0 .. NumCodes /\ Ascii \subseteq Int
<1>1. 127 <= NumCodes
  BY SMT DEF NumCodes
<1>2. QED
  BY <1>1, CodePoints DEF Ascii

(* A text of such characters is one of code points.                        *)
LEMMA AsciiText == ASSUME NEW s \in Seq(Ascii) PROVE s \in CodeSeqs /\ s \in Seq(Int)
<1>1. s \in Seq(0 .. NumCodes) /\ s \in Seq(Int)
  BY AsciiCodes, SeqMonotonic
<1>2. QED
  BY <1>1 DEF CodeSeqs

(* A text of code points is one of integers.                               *)
LEMMA CodesAreIntegers == ASSUME NEW s \in CodeSeqs PROVE s \in Seq(Int)
<1>1. 0 .. NumCodes \subseteq Int
  BY CodePoints
<1>2. s \in Seq(0 .. NumCodes)
  BY DEF CodeSeqs
<1>3. QED
  BY <1>1, <1>2, SeqMonotonic

(* Digits are ASCII characters.                                            *)
LEMMA DigitsAscii ==
    ASSUME NEW base \in 2 .. 16, NEW n \in Nat
    PROVE  Digits(n, base) \in Seq(Ascii)
<1>1. DigitChars(base) \subseteq Ascii
  <2>1. ASSUME NEW d \in 0 .. base - 1 PROVE DigitChar(d) \in Ascii
    <3>1. d \in 0 .. 15
      OBVIOUS
    <3>2. DigitChar(d) \in 48 .. 57 \cup 97 .. 102
      BY <3>1, DigitValue
    <3>3. QED
      BY <3>2 DEF Ascii
  <2>2. QED
    BY <2>1 DEF DigitChars
<1>2. Digits(n, base) \in Seq(DigitChars(base))
  BY DigitsFacts
<1>3. QED
  BY <1>1, <1>2, SeqMonotonic

(* So is a number with its sign.                                           *)
LEMMA PrintedIntAscii == ASSUME NEW n \in Int PROVE PrintedInt(n) \in Seq(Ascii)
<1>0. 10 \in 2 .. 16
  OBVIOUS
<1>1. CASE n < 0
  <2>1. PICK m \in Nat : m = -n
    BY <1>1
  <2>2. Digits(m, 10) \in Seq(Ascii)
    BY <1>0, DigitsAscii
  <2>3. <<45>> \in Seq(Ascii)
    BY DEF Ascii
  <2>4. <<45>> \o Digits(m, 10) \in Seq(Ascii)
    BY <2>2, <2>3, JoinStands
  <2>5. QED
    BY <1>1, <2>1, <2>4 DEF PrintedInt
<1>2. CASE ~(n < 0)
  <2>1. n \in Nat
    BY <1>2
  <2>2. Digits(n, 10) \in Seq(Ascii)
    BY <1>0, <2>1, DigitsAscii
  <2>3. QED
    BY <1>2, <2>2 DEF PrintedInt
<1>3. QED
  BY <1>1, <1>2

(* Literal::toString of numbers and bit-vectors.                           *)
LEMMA PrintedAscii ==
    ASSUME NEW l, l.int \in Int, l.aux \in Nat, l.kind \in BitKinds => l.int \in Nat,
           l.kind \in Rationals \cup BitKinds \cup {"NUMERAL"}
    PROVE  Printed(l) \in Seq(Ascii)
<1>0. PICK n \in Int, w \in Nat : n = l.int /\ w = l.aux
  OBVIOUS
<1>1. PICK k : n = l.int /\ w = l.aux /\ k = l.kind
  BY <1>0
<1>2. PrintedInt(n) \in Seq(Ascii)
  BY PrintedIntAscii
<1>3. (PrintedInt(n) \o <<47>>) \o Digits(w, 10) \in Seq(Ascii)
  <2>1. 10 \in 2 .. 16
    OBVIOUS
  <2>2. Digits(w, 10) \in Seq(Ascii)
    BY <2>1, DigitsAscii
  <2>3. <<47>> \in Seq(Ascii)
    BY DEF Ascii
  <2>4. PrintedInt(n) \o <<47>> \in Seq(Ascii)
    BY <1>2, <2>3, JoinStands
  <2>5. QED
    BY <2>2, <2>4, JoinStands
<1>4. CASE k \in BitKinds /\ w = 0
  <2>1. Printed(l) = <<>>
    BY <1>1, <1>4 DEF Printed
  <2>2. QED
    BY <2>1
<1>5. CASE ~(k \in BitKinds /\ w = 0)
  <2>1. CASE k = "NUMERAL"
    BY <1>1, <1>2, <1>5, <2>1 DEF Printed
  <2>2. CASE k = "DECIMAL"
    <3>1. Printed(l) = IF w = 1 THEN PrintedInt(n) ELSE (PrintedInt(n) \o <<47>>) \o Digits(w, 10)
      BY <1>1, <1>5, <2>2 DEF Printed
    <3>2. QED
      BY <1>2, <1>3, <3>1
  <2>3. CASE k = "RATIONAL"
    <3>1. Printed(l) = (PrintedInt(n) \o <<47>>) \o Digits(w, 10)
      BY <1>1, <1>5, <2>3 DEF Printed
    <3>2. QED
      BY <1>3, <3>1
  <2>4. CASE k = "HEXADECIMAL"
    <3>1. Printed(l) = Digits(n, 16)
      BY <1>1, <1>5, <2>4 DEF Printed
    <3>2. n \in Nat /\ 16 \in 2 .. 16
      BY <1>1, <2>4 DEF BitKinds
    <3>3. QED
      BY <3>1, <3>2, DigitsAscii
  <2>5. CASE k = "BINARY"
    <3>1. n \in Nat /\ 2 \in 2 .. 16
      BY <1>1, <2>5 DEF BitKinds
    <3>2. Digits(n, 2) \in Seq(Ascii)
      BY <3>1, DigitsAscii
    <3>3. PICK m \in Int : m = w - Len(Digits(n, 2))
      <4>1. PICK d \in Seq(Ascii) : d = Digits(n, 2)
        BY <3>2
      <4>2. w - Len(d) \in Int
        OBVIOUS
      <4>3. QED
        BY <4>1, <4>2
    <3>4. PICK zeros : zeros = [i \in 1 .. m |-> 48]
      OBVIOUS
    <3>5. zeros \in Seq(Ascii)
      <4>1. CASE m >= 0
        <5>1. m \in Nat /\ 48 \in Ascii
          BY <4>1 DEF Ascii
        <5>2. QED
          BY <3>4, <5>1
      <4>2. CASE ~(m >= 0)
        <5>1. 1 .. m = 1 .. 0
          BY <4>2
        <5>2. zeros = [i \in 1 .. 0 |-> 48] /\ 48 \in Ascii
          BY <3>4, <5>1 DEF Ascii
        <5>3. QED
          BY <5>2
      <4>3. QED
        BY <4>1, <4>2
    <3>6. Printed(l) = [i \in 1 .. w - Len(Digits(n, 2)) |-> 48] \o Digits(n, 2)
      BY <1>1, <1>5, <2>5 DEF Printed
    <3>7. Printed(l) = zeros \o Digits(n, 2)
      BY <3>3, <3>4, <3>6
    <3>8. zeros \o Digits(n, 2) \in Seq(Ascii)
      BY <3>2, <3>5, JoinStands
    <3>9. QED
      BY <3>7, <3>8
  <2>6. QED
    BY <1>1, <2>1, <2>2, <2>3, <2>4, <2>5 DEF Rationals, BitKinds
<1>6. QED
  BY <1>4, <1>5

(* A string has code points.                                               *)
Strung(l) == l.kind = "STRING" => l.str \in CodeSeqs

(* The fields of a string value.                                           *)
LEMMA StringFields == ASSUME NEW s PROVE StringOf(s).kind = "STRING" /\ StringOf(s).str = s
BY DEF StringOf, Literal

(* What eo::to_str makes of a value.                                       *)
LEMMA ToStrStrung == ASSUME NEW a, IsValue(a) PROVE Strung(ToStr(a))
<1>1. a.int \in Int /\ a.aux \in Nat /\ a.str \in CodeSeqs /\ (a.kind \in BitKinds => a.int \in Nat)
  BY ValueFacts DEF IsValue, Fits, CodeSeqs
<1>2. ASSUME a.kind \in Rationals \cup BitKinds \cup {"NUMERAL"} PROVE Printed(a) \in Seq(Ascii)
  BY <1>1, <1>2, PrintedAscii
<1>3. CASE a.kind = "NUMERAL" /\ a.int \in 0 .. NumCodes - 1
  <2>1. PICK c \in Nat : c = a.int /\ c \in 0 .. NumCodes
    BY <1>3, CodePoints
  <2>2. <<c>> \in Seq(0 .. NumCodes)
    BY <2>1
  <2>3. ToStr(a) = StringOf(<<c>>)
    BY <1>3, <2>1 DEF ToStr
  <2>4. StringOf(<<c>>).str = <<c>>
    BY StringFields
  <2>5. QED
    BY <2>2, <2>3, <2>4 DEF Strung, CodeSeqs
<1>4. CASE ~(a.kind = "NUMERAL" /\ a.int \in 0 .. NumCodes - 1)
  <2>1. ASSUME NEW s \in Seq(Ascii) PROVE Strung(StringOf(s))
    BY AsciiText, StringFields DEF Strung
  <2>2. CASE a.kind \in Rationals \cup {"NUMERAL"}
    <3>1. ToStr(a) = StringOf(Printed(a))
      <4>1. a.kind \notin {"HEXADECIMAL", "BINARY", "STRING"}
        BY <2>2 DEF Rationals
      <4>2. QED
        BY <1>4, <2>2, <4>1 DEF ToStr
    <3>2. QED
      BY <1>2, <2>1, <2>2, <3>1
  <2>3. CASE a.kind = "HEXADECIMAL"
    <3>1. ToStr(a) = StringOf(<<35, 120>> \o Printed(a))
      BY <1>4, <2>3 DEF ToStr, Rationals
    <3>2. <<35, 120>> \in Seq(Ascii)
      BY DEF Ascii
    <3>3. <<35, 120>> \o Printed(a) \in Seq(Ascii)
      BY <1>2, <2>3, <3>2, JoinStands DEF BitKinds
    <3>4. QED
      BY <2>1, <3>1, <3>3
  <2>4. CASE a.kind = "BINARY"
    <3>1. ToStr(a) = StringOf(<<35, 98>> \o Printed(a))
      BY <1>4, <2>4 DEF ToStr, Rationals
    <3>2. <<35, 98>> \in Seq(Ascii)
      BY DEF Ascii
    <3>3. <<35, 98>> \o Printed(a) \in Seq(Ascii)
      BY <1>2, <2>4, <3>2, JoinStands DEF BitKinds
    <3>4. QED
      BY <2>1, <3>1, <3>3
  <2>5. CASE a.kind = "STRING"
    <3>1. ToStr(a) = a
      BY <1>4, <2>5 DEF ToStr, Rationals
    <3>2. QED
      BY <1>1, <3>1 DEF Strung
  <2>6. CASE a.kind \notin Rationals \cup BitKinds \cup {"NUMERAL", "STRING"}
    <3>1. ToStr(a) = NoLiteral
      BY <1>4, <2>6 DEF ToStr, BitKinds
    <3>2. QED
      BY <3>1, Kinds DEF Strung
  <2>7. QED
    BY <2>2, <2>3, <2>4, <2>5, <2>6 DEF BitKinds
<1>5. QED
  BY <1>3, <1>4

(* A part of a string.                                                     *)
LEMMA PartOfCodes ==
    ASSUME NEW s \in CodeSeqs, NEW i \in Nat, i >= 1, NEW j \in Nat, j <= Len(s)
    PROVE  SubSeq(s, i, j) \in CodeSeqs
<1>1. \A k \in i .. j : s[k] \in 0 .. NumCodes
  <2>1. ASSUME NEW k \in i .. j PROVE s[k] \in 0 .. NumCodes
    <3>1. PICK n \in Nat : n = Len(s)
      BY LenProperties DEF CodeSeqs
    <3>2. k \in 1 .. Len(s)
      BY <3>1
    <3>3. QED
      BY <3>2, ElementOfSeq DEF CodeSeqs
  <2>2. QED
    BY <2>1
<1>2. SubSeq(s, i, j) \in Seq(0 .. NumCodes)
  BY <1>1, SubSeqProperties
<1>3. QED
  BY <1>2 DEF CodeSeqs

(* What eo::extract makes: if a string, one of code points.                *)
LEMMA ExtractStrung ==
    ASSUME NEW T, NEW args \in Seq(T), \A l \in T : IsValue(l), args # <<>>
    PROVE  Strung(ExtractRange(args))
<1>1. PICK a, low, high : a = args[1] /\ low = args[2].int /\ high = args[3].int
  OBVIOUS
<1>2. a \in T
  BY <1>1
<1>3. a.str \in CodeSeqs
  BY <1>2 DEF IsValue, CodeSeqs
<1>4. CASE ExtractRange(args) \in {UndefinedLiteral, NoLiteral}
  BY <1>4, Kinds DEF Strung
<1>5. CASE a.kind \in BitKinds
  <2>1. ExtractRange(args).kind \in Nothing \cup {a.kind}
    BY <1>1, ExtractKind
  <2>2. QED
    BY <1>5, <2>1 DEF Strung, Nothing, BitKinds
<1>6. CASE ExtractRange(args) = StringOf(<<>>)
  <2>1. <<>> \in CodeSeqs
    BY DEF CodeSeqs
  <2>2. QED
    BY <1>6, <2>1, StringFields DEF Strung
<1>7. CASE /\ ExtractRange(args) = StringOf(SubSeq(a.str, low + 1, LastOf(a, high) + 1))
           /\ a.kind = "STRING" /\ ~NothingLeft(a, low, high)
           /\ Len(args) >= 3
  <2>1. args[2] \in T /\ args[3] \in T
    BY <1>7
  <2>2. PICK lo \in Int, hi \in Int, n \in Nat : lo = low /\ hi = high /\ n = Len(a.str)
    BY <1>1, <1>3, <2>1, LenProperties DEF IsValue, CodeSeqs
  <2>3. SizeOf(a) = n
    BY <1>7, <2>2 DEF SizeOf
  <2>4. LastOf(a, high) = IF hi >= n THEN n - 1 ELSE hi
    BY <1>7, <2>2, <2>3 DEF LastOf
  <2>5. lo >= 0 /\ hi >= 0 /\ n # 0
    BY <1>7, <2>2, <2>3 DEF NothingLeft
  <2>6. PICK i \in Nat, j \in Nat : i = low + 1 /\ j = LastOf(a, high) + 1 /\ i >= 1 /\ j <= n
    <3>1. lo + 1 \in Nat /\ lo + 1 >= 1
      BY <2>5
    <3>2. LastOf(a, high) + 1 \in Nat /\ LastOf(a, high) + 1 <= n
      BY <2>4, <2>5
    <3>3. QED
      BY <2>2, <3>1, <3>2
  <2>7. SubSeq(a.str, i, j) \in CodeSeqs
    BY <1>3, <2>2, <2>6, PartOfCodes
  <2>8. QED
    BY <1>7, <2>6, <2>7, StringFields DEF Strung
<1>8. CASE Len(args) < 3
  BY <1>4, <1>8 DEF ExtractRange
<1>9. Len(args) \in Nat
  OBVIOUS
<1>10. QED
  BY <1>1, <1>4, <1>5, <1>6, <1>7, <1>8, <1>9, ExtractCases

(* A loop over strings puts them one after the other.                      *)
LEMMA NaryStrung ==
    ASSUME NEW T, NEW args \in Seq(T), \A l \in T : IsValue(l), NEW k \in NaryOps, args # <<>>,
           args[1].kind = "STRING"
    PROVE  Strung(Nary(k, args))
<1>1. PICK n \in Nat : Len(args) = n + 1
  <2>1. Len(args) - 1 \in Nat /\ Len(args) = (Len(args) - 1) + 1
    OBVIOUS
  <2>2. QED
    BY <2>1
<1>2. PICK base, rest : base = args[1] /\ rest = Tail(args) /\ DOMAIN rest = 1 .. n
  BY <1>1, Others
<1>3. base \in T /\ \A j \in 1 .. n : rest[j] \in T
  BY <1>1, <1>2, Others
<1>4. PICK acc : Accumulates(acc, k, base, rest, n) /\ Accumulated(k, base, rest) = acc[n]
  <2>1. Unfolds(k, base, rest, n)
    BY <1>2, FoldUnfolds
  <2>2. QED
    BY <2>1 DEF Unfolds
<1> DEFINE Fine(l) == l.kind = "NONE" \/ (l.kind = "STRING" /\ l.str \in CodeSeqs)
           S == {j \in Nat : j <= n => Fine(acc[j])}
<1>5. 0 \in S
  <2>1. acc[0] = base
    BY <1>4 DEF Accumulates
  <2>2. base.kind = "STRING" /\ base.str \in CodeSeqs
    BY <1>2, <1>3 DEF IsValue, CodeSeqs
  <2>3. QED
    BY <2>1, <2>2
<1>6. ASSUME NEW j \in Nat, j \in S PROVE j + 1 \in S
  <2>1. SUFFICES ASSUME j + 1 <= n PROVE Fine(acc[j + 1])
    OBVIOUS
  <2>2. j \in 0 .. n - 1 /\ Fine(acc[j])
    BY <1>6, <2>1
  <2>3. acc[j + 1] = Step(k, acc[j], rest[j + 1])
    BY <1>4, <2>2 DEF Accumulates
  <2>4. PICK a, b : a = acc[j] /\ b = rest[j + 1]
    OBVIOUS
  <2>5. b.str \in CodeSeqs
    <3>1. j + 1 \in 1 .. n
      BY <2>1
    <3>2. b \in T
      BY <1>3, <2>4, <3>1
    <3>3. QED
      BY <3>2 DEF IsValue, CodeSeqs
  <2>6. CASE a.kind = "NONE"
    <3>1. Step(k, a, b) = NoLiteral
      BY <2>6 DEF Step, Rationals, BitKinds
    <3>2. QED
      BY <2>3, <2>4, <3>1, Kinds
  <2>7. CASE a.kind = "STRING" /\ a.str \in CodeSeqs
    <3>1. Step(k, a, b) = StringStep(k, a, b)
      BY <2>7 DEF Step, Rationals, BitKinds
    <3>2. PICK u, v : u = a.str /\ v = b.str
      OBVIOUS
    <3>3. u \o v \in CodeSeqs
      <4>1. u \in Seq(0 .. NumCodes) /\ v \in Seq(0 .. NumCodes)
        BY <2>5, <2>7, <3>2 DEF CodeSeqs
      <4>2. u \o v \in Seq(0 .. NumCodes)
        BY <4>1, JoinStands
      <4>3. QED
        BY <4>2 DEF CodeSeqs
    <3>4. StringStep(k, a, b) = IF k = "EVAL_CONCAT" THEN StringOf(u \o v) ELSE NoLiteral
      BY <3>2 DEF StringStep
    <3>5. Fine(StringOf(u \o v)) /\ Fine(NoLiteral)
      BY <3>3, StringFields, Kinds
    <3>6. QED
      BY <2>3, <2>4, <3>1, <3>4, <3>5
  <2>8. QED
    BY <2>2, <2>4, <2>6, <2>7
<1>7. \A j \in Nat : j \in S
  <2> HIDE DEF S
  <2>1. QED
    BY <1>5, <1>6, Inductive
<1>8. Fine(acc[n])
  BY <1>7
<1>9. Nary(k, args) \in {NoLiteral, acc[n]}
  BY <1>2, <1>4 DEF Nary
<1>10. Fine(NoLiteral)
  BY Kinds
<1>11. QED
  BY <1>8, <1>9, <1>10 DEF Strung

(* What an operator makes of values has code points, if it is a string.    *)
LEMMA EvaluatedStrung ==
    ASSUME NEW T, NEW args \in Seq(T), \A l \in T : IsValue(l), NEW k, ArityOk(k, Len(args))
    PROVE  Strung(Evaluate(k, args))
<1>1. args # <<>> /\ args[1] \in T
  BY FirstTwo
<1>2. SUFFICES ASSUME Evaluate(k, args).kind = "STRING" PROVE Strung(Evaluate(k, args))
  BY DEF Strung
<1>3. PICK a, b : a = args[1] /\ b = args[2]
  OBVIOUS
<1>4. IsValue(a)
  BY <1>1, <1>3
<1>5. KindRight(k, args, Evaluate(k, args))
  BY <1>1, EvaluatedKind
<1>6. CASE k = "EVAL_EXTRACT"
  <2>1. Evaluate(k, args) = ExtractRange(args)
    BY <1>6 DEF Evaluate
  <2>2. QED
    BY <1>1, <2>1, ExtractStrung
<1>7. CASE k = "EVAL_TO_BIN"
  <2>1. OpType(k, args) = "BINARY"
    BY <1>7 DEF OpType, NaryOps
  <2>2. QED
    BY <1>2, <1>5, <1>7, <2>1 DEF KindRight, Nothing
<1>8. CASE k \notin {"EVAL_EXTRACT", "EVAL_TO_BIN"}
  <2>1. CASE AllSameKind(args) = "NONE"
    <3>1. Evaluate(k, args) = NoLiteral
      BY <1>8, <2>1 DEF Evaluate
    <3>2. QED
      BY <1>2, <3>1, Kinds
  <2>2. CASE AllSameKind(args) # "NONE"
    <3>1. CASE k \in NaryOps
      <4>1. Evaluate(k, args) = Nary(k, args)
        BY <1>8, <2>2, <3>1 DEF Evaluate, NaryOps
      <4>2. a.kind = "STRING"
        BY <1>1, <1>2, <1>3, <3>1, <4>1, NaryKind
      <4>3. QED
        BY <1>1, <1>3, <3>1, <4>1, <4>2, NaryStrung
    <3>2. CASE k = "EVAL_TO_STRING"
      <4>1. Evaluate(k, args) = ToStr(a)
        BY <1>3, <2>2, <3>2 DEF Evaluate, NaryOps
      <4>2. QED
        BY <1>4, <4>1, ToStrStrung
    <3>3. CASE k = "EVAL_NOT"
      <4>1. Evaluate(k, args) = Not(a)
        BY <1>3, <2>2, <3>3 DEF Evaluate, NaryOps
      <4>2. Not(a).kind # "STRING"
        BY Kinds DEF Not, BitKinds
      <4>3. QED
        BY <1>2, <4>1, <4>2
    <3>4. CASE k = "EVAL_NEG"
      <4>1. Evaluate(k, args) = Neg(a)
        BY <1>3, <2>2, <3>4 DEF Evaluate, NaryOps
      <4>2. Neg(a).kind # "STRING"
        BY Kinds DEF Neg, BitKinds, Rationals, Negate
      <4>3. QED
        BY <1>2, <4>1, <4>2
    <3>5. CASE k \notin NaryOps \cup {"EVAL_TO_STRING", "EVAL_NOT", "EVAL_NEG"}
      <4>1. OpType(k, args) # "STRING"
        BY <1>8, <3>5 DEF OpType
      <4>2. QED
        BY <1>2, <1>5, <4>1 DEF KindRight, Nothing, BitKinds
    <3>6. QED
      BY <3>1, <3>2, <3>3, <3>4, <3>5
  <2>3. QED
    BY <2>1, <2>2
<1>9. QED
  BY <1>6, <1>7, <1>8

-----------------------------------------------------------------------------
(* ExprParser::unescapeString *)

Inner(s) == SubSeq(s, 2, Len(s) - 1)

UnescapeMade(s) == [i \in 1 .. Len(s) |-> <<s[i]>>]
UnescapeNext(s) == [i \in 1 .. Len(s) |-> IF s[i] = Quote THEN i + 2 ELSE i + 1]

(* What stands between the first and the last character.                   *)
LEMMA InnerType == ASSUME NEW s \in Seq(Int) PROVE Inner(s) \in Seq(Int)
<1>1. PICK n \in Nat, m \in Int : n = Len(s) /\ m = n - 1
  BY LenProperties
<1>2. \A k \in 2 .. m : s[k] \in Int
  <2>1. ASSUME NEW k \in 2 .. m PROVE s[k] \in Int
    <3>1. k \in 1 .. Len(s)
      BY <1>1
    <3>2. QED
      BY <3>1, ElementOfSeq
  <2>2. QED
    BY <2>1
<1>3. SubSeq(s, 2, m) \in Seq(Int)
  <2>1. 2 \in Int
    OBVIOUS
  <2>2. QED
    BY <1>2, <2>1, SubSeqProperties
<1>4. QED
  BY <1>1, <1>3 DEF Inner

(* The recursive function of Unescape unfolds.                             *)
LEMMA UnescapeLoop ==
    ASSUME NEW s \in Seq(Int), NEW n \in Nat, n = Len(s)
    PROVE  Advances(UnescapeNext(s), n, n + 2) /\ MadeOf(UnescapeMade(s), n, Int)
<1>1. ASSUME NEW i \in 1 .. n
      PROVE  /\ UnescapeNext(s)[i] \in Nat /\ i < UnescapeNext(s)[i] /\ UnescapeNext(s)[i] <= n + 2
             /\ UnescapeMade(s)[i] \in Seq(Int)
  <2>1. /\ UnescapeNext(s)[i] = (IF s[i] = Quote THEN i + 2 ELSE i + 1)
        /\ UnescapeMade(s)[i] = <<s[i]>>
    BY DEF UnescapeNext, UnescapeMade
  <2>2. s[i] \in Int
    BY ElementOfSeq
  <2>3. <<s[i]>> \in Seq(Int)
    BY <2>2
  <2>4. QED
    BY <2>1, <2>3
<1>2. QED
  BY <1>1 DEF Advances, MadeOf

(* It is a loop over what stands between the quotes.                       *)
LEMMA UnescapeUnfolds ==
    ASSUME NEW t, NEW s \in Seq(Int), s = Inner(t), NEW n \in Nat, n = Len(s)
    PROVE  \E f : GoesOn(f, UnescapeMade(s), UnescapeNext(s), n, n + 2) /\ Unescape(t) = f[1]
<1> DEFINE Solves(g) == g = [i \in 1 .. Len(s) + 2 |->
                          IF i > Len(s) THEN <<>>
                          ELSE <<s[i]>> \o g[IF s[i] = Quote THEN i + 2 ELSE i + 1]]
<1>1. Unescape(t) = (CHOOSE g : Solves(g))[1]
  BY DEF Unescape, Inner
<1>2. ASSUME NEW g PROVE Solves(g) <=> GoesOn(g, UnescapeMade(s), UnescapeNext(s), n, n + 2)
  <2>1. ASSUME NEW i \in 1 .. n + 2
        PROVE  (IF i > n THEN <<>> ELSE <<s[i]>> \o g[IF s[i] = Quote THEN i + 2 ELSE i + 1])
               = (IF i > n THEN <<>> ELSE UnescapeMade(s)[i] \o g[UnescapeNext(s)[i]])
    <3>1. CASE i > n
      BY <3>1
    <3>2. CASE ~(i > n)
      <4>1. i \in 1 .. Len(s)
        BY <3>2
      <4>2. /\ UnescapeNext(s)[i] = (IF s[i] = Quote THEN i + 2 ELSE i + 1)
            /\ UnescapeMade(s)[i] = <<s[i]>>
        BY <4>1 DEF UnescapeNext, UnescapeMade
      <4>3. QED
        BY <3>2, <4>2
    <3>3. QED
      BY <3>1, <3>2
  <2>2. QED
    BY <2>1 DEF GoesOn
<1>3. \E g : Solves(g)
  <2>1. n + 2 \in Nat /\ n <= n + 2
    OBVIOUS
  <2>2. \E g : GoesOn(g, UnescapeMade(s), UnescapeNext(s), n, n + 2)
    BY <2>1, UnescapeLoop, GoesOnExists
  <2>3. QED
    BY <1>2, <2>2
<1> HIDE DEF Solves
<1>4. PICK f : f = CHOOSE g : Solves(g)
  OBVIOUS
<1>5. Solves(f)
  BY <1>3, <1>4
<1>6. QED
  BY <1>1, <1>2, <1>4, <1>5

(* Whatever stands between the quotes, characters come out.                *)
LEMMA UnescapeType == ASSUME NEW t \in Seq(Int) PROVE Unescape(t) \in Seq(Int)
<1>1. PICK s \in Seq(Int) : s = Inner(t)
  BY InnerType
<1>2. PICK n \in Nat : n = Len(s)
  BY LenProperties
<1>3. PICK f : GoesOn(f, UnescapeMade(s), UnescapeNext(s), n, n + 2) /\ Unescape(t) = f[1]
  BY <1>1, <1>2, UnescapeUnfolds
<1>4. Advances(UnescapeNext(s), n, n + 2) /\ MadeOf(UnescapeMade(s), n, Int)
  BY <1>2, UnescapeLoop
<1>5. \A i \in 1 .. n + 2 : f[i] \in Seq(Int)
  <2>1. n + 2 \in Nat /\ n <= n + 2
    OBVIOUS
  <2>2. QED
    BY <1>3, <1>4, <2>1, GoesOnType
<1>6. 1 \in 1 .. n + 2
  OBVIOUS
<1>7. QED
  BY <1>3, <1>5, <1>6

(* A string literal of the input has code points.                          *)
LEMMA LiteralStrung == ASSUME NEW t \in Seq(Int) PROVE StringLiteral(t) \in CodeSeqs
<1>1. PICK u \in CodeSeqs : u = ToInternal(Unescape(t))
  BY UnescapeType, InternalType
<1>2. ToText(u) \in Seq(Ascii)
  <2>1. PICK n \in Nat : n = Len(u)
    BY LenProperties DEF CodeSeqs
  <2>2. QED
    BY <2>1, TextFacts
<1>3. ToText(u) \in Seq(Int)
  BY <1>2, AsciiText
<1>4. ToInternal(ToText(u)) \in CodeSeqs
  BY <1>3, InternalType
<1>5. QED
  BY <1>1, <1>4 DEF StringLiteral

-----------------------------------------------------------------------------
(* The strings at hand *)

(* Every string has code points, and at most one token has no value yet,   *)
(* none while another one is read.                                         *)
StringsInv ==
    /\ values \in Seq(Range(values)) /\ \A l \in Range(values) : Strung(l)
    /\ Len(delivered) <= Len(values) + 1
    /\ Waiting => Len(delivered) <= Len(values)

(* A text that is not quoted makes no string.                              *)
LEMMA NormalizedKind == ASSUME NEW l, l.kind # "STRING" PROVE Normalized(l).kind # "STRING"
<1>1. CASE l.kind \notin normalize
  BY <1>1 DEF Normalized
<1>2. CASE l.kind \in normalize /\ l.kind = "HEXADECIMAL"
  <2>1. Normalized(l) = [l EXCEPT !.kind = "BINARY"]
    BY <1>2 DEF Normalized
  <2>2. [l EXCEPT !.kind = "BINARY"].kind \in {"BINARY", l.kind}
    OBVIOUS
  <2>3. QED
    BY <2>1, <2>2
<1>3. CASE l.kind \in normalize /\ l.kind # "HEXADECIMAL"
  <2>1. PICK d : Normalized(l) = Ratio("RATIONAL", l.int, d)
    BY <1>3 DEF Normalized
  <2>2. QED
    BY <2>1, Kinds
<1>4. QED
  BY <1>1, <1>2, <1>3

(* The value of a literal of the input: if a string, one of code points.   *)
LEMMA ValueStrung == ASSUME NEW tok, NEW s \in Seq(Int) PROVE Strung(ValueOf(tok, s))
<1>0. Fatal.kind = "FATAL" /\ \A x : Symbol(x).kind = "SYMBOL"
  BY DEF Fatal, Symbol, Literal
<1>1. CASE tok = "STRING_LITERAL"
  <2>1. ValueOf(tok, s) = FromString(s)
    BY <1>1 DEF ValueOf
  <2>2. FromString(s) \in {Fatal, StringOf(StringLiteral(s))}
    BY DEF FromString
  <2>3. Strung(StringOf(StringLiteral(s)))
    BY LiteralStrung, StringFields DEF Strung
  <2>4. QED
    BY <1>0, <2>1, <2>2, <2>3 DEF Strung
<1>2. CASE tok # "STRING_LITERAL"
  <2>1. CASE tok = "INTEGER_LITERAL"
    <3>1. Numeral(SignedDecimal(s)).kind # "STRING"
      BY Kinds
    <3>2. QED
      BY <2>1, <3>1, NormalizedKind DEF ValueOf, Strung
  <2>2. CASE tok = "DECIMAL_LITERAL"
    <3>1. FromDecimal(s).kind # "STRING"
      BY Kinds DEF FromDecimal
    <3>2. QED
      BY <2>2, <3>1, NormalizedKind DEF ValueOf, Strung
  <2>3. CASE tok = "RATIONAL_LITERAL"
    <3>1. FromRational(s).kind # "STRING"
      BY <1>0, Kinds DEF FromRational
    <3>2. QED
      BY <2>3, <3>1 DEF ValueOf, Strung
  <2>4. CASE tok = "HEX_LITERAL"
    <3>1. FromHexadecimal(s).kind # "STRING"
      BY <1>0, Kinds DEF FromHexadecimal
    <3>2. QED
      BY <2>4, <3>1, NormalizedKind DEF ValueOf, Strung
  <2>5. CASE tok = "BINARY_LITERAL"
    <3>1. FromBinary(s).kind # "STRING"
      BY <1>0, Kinds DEF FromBinary
    <3>2. QED
      BY <2>5, <3>1 DEF ValueOf, Strung
  <2>6. CASE tok \in {"SYMBOL", "QUOTED_SYMBOL"}
    <3>1. ValueOf(tok, s).kind = "SYMBOL"
      BY <1>0, <2>6 DEF ValueOf
    <3>2. QED
      BY <3>1 DEF Strung
  <2>7. CASE tok \notin {"INTEGER_LITERAL", "DECIMAL_LITERAL", "RATIONAL_LITERAL", "HEX_LITERAL",
                         "BINARY_LITERAL", "SYMBOL", "QUOTED_SYMBOL"}
    <3>1. ValueOf(tok, s) = NoLiteral
      BY <1>2, <2>7 DEF ValueOf
    <3>2. QED
      BY <3>1, Kinds DEF Strung
  <2>8. QED
    BY <2>1, <2>2, <2>3, <2>4, <2>5, <2>6, <2>7
<1>3. QED
  BY <1>1, <1>2

(* A value more.                                                           *)
LEMMA OneValueMore ==
    ASSUME NEW vs, vs \in Seq(Range(vs)), \A l \in Range(vs) : Strung(l), NEW l, Strung(l)
    PROVE  /\ Append(vs, l) \in Seq(Range(Append(vs, l))) /\ Len(Append(vs, l)) = Len(vs) + 1
           /\ \A x \in Range(Append(vs, l)) : Strung(x)
<1>1. PICK n \in Nat : n = Len(vs)
  BY LenProperties
<1>2. PICK S : S = Range(vs) \cup {l}
  OBVIOUS
<1>3. vs \in Seq(S) /\ l \in S
  <2>1. Range(vs) \subseteq S
    BY <1>2
  <2>2. QED
    BY <1>2, <2>1, SeqMonotonic
<1> DEFINE w == Append(vs, l)
<1>4. w \in Seq(S) /\ Len(w) = n + 1 /\ DOMAIN w = 1 .. n + 1
  BY <1>1, <1>3
<1>5. \A i \in 1 .. n + 1 : w[i] \in S
  BY <1>4
<1>6. \A x \in S : Strung(x)
  BY <1>2
<1> HIDE DEF w
<1>7. Range(w) = {w[i] : i \in 1 .. n + 1}
  BY <1>4 DEF Range
<1>8. w \in Seq(Range(w))
  <2>1. \A i \in 1 .. n + 1 : w[i] \in Range(w)
    BY <1>7
  <2>2. QED
    BY <1>4, <2>1
<1>9. \A x \in Range(w) : Strung(x)
  BY <1>5, <1>6, <1>7
<1>10. QED
  BY <1>1, <1>4, <1>8, <1>9 DEF w

(* Fewer values.                                                           *)
LEMMA FewerValues ==
    ASSUME NEW vs, vs \in Seq(Range(vs)), \A l \in Range(vs) : Strung(l), NEW m \in Nat, m <= Len(vs)
    PROVE  /\ SubSeq(vs, 1, m) \in Seq(Range(SubSeq(vs, 1, m))) /\ Len(SubSeq(vs, 1, m)) = m
           /\ \A x \in Range(SubSeq(vs, 1, m)) : Strung(x)
<1>1. PICK n \in Nat : n = Len(vs) /\ m <= n
  BY LenProperties
<1>2. PICK S : S = Range(vs)
  OBVIOUS
<1>3. vs \in Seq(S)
  BY <1>2
<1> DEFINE w == SubSeq(vs, 1, m)
<1>4. w \in Seq(S) /\ Len(w) = m
  <2>1. \A i \in 1 .. m : vs[i] \in S
    BY <1>1, <1>3
  <2>2. w \in Seq(S) /\ Len(w) = IF 1 <= m THEN m - 1 + 1 ELSE 0
    BY <2>1, SubSeqProperties
  <2>3. QED
    BY <2>2
<1> HIDE DEF w
<1>5. DOMAIN w = 1 .. m /\ \A i \in 1 .. m : w[i] \in S
  BY <1>4
<1>6. Range(w) = {w[i] : i \in 1 .. m}
  BY <1>5 DEF Range
<1>7. w \in Seq(Range(w))
  <2>1. \A i \in 1 .. m : w[i] \in Range(w)
    BY <1>6
  <2>2. QED
    BY <1>4, <1>5, <2>1
<1>8. \A x \in Range(w) : Strung(x)
  BY <1>2, <1>5, <1>6
<1>9. QED
  BY <1>4, <1>7, <1>8 DEF w

(* It holds at first.                                                      *)
LEMMA StringsInvInit == ASSUME ReaderInit PROVE StringsInv
<1>1. delivered = <<>> /\ mode = "idle"
  BY DEF ReaderInit, Init
<1>2. PICK vs : vs = values
  OBVIOUS
<1>3. vs \in Seq(Range(vs)) /\ \A l \in Range(vs) : Strung(l)
  <2>1. CASE vs = <<>>
    <3>1. Range(vs) = {}
      BY <2>1 DEF Range
    <3>2. <<>> \in Seq({})
      OBVIOUS
    <3>3. QED
      BY <2>1, <3>1, <3>2
  <2>2. CASE vs \in Operands
    <3>1. vs \in Seq(Range(vs)) /\ \A l \in Range(vs) : IsValue(l)
      BY <2>2, OperandsAreValues
    <3>2. QED
      BY <3>1 DEF IsValue, Strung, CodeSeqs
  <2>3. QED
    BY <1>2, <2>1, <2>2 DEF ReaderInit
<1>4. Len(delivered) = 0 /\ Len(vs) \in Nat
  BY <1>1, <1>3, LenProperties
<1>5. QED
  BY <1>1, <1>2, <1>3, <1>4 DEF StringsInv, Waiting

(* Every step of the reader keeps it.                                      *)
LEMMA StringsInvNext ==
    ASSUME ReaderInv, StringsInv, [Next]_vars
    PROVE  StringsInv'
<1>1. LexInv /\ delivered \in Seq(Tokens) /\ token \in Seq(Int)
  BY DEF ReaderInv, LexInv, LexTypes
<1>2. PICK n \in Nat, d \in Nat : n = Len(values) /\ d = Len(delivered) /\ d <= n + 1
                                  /\ (Waiting => d <= n)
  BY <1>1, LenProperties DEF StringsInv
<1>3. ASSUME UNCHANGED values, Len(delivered') \in Nat, Len(delivered') <= n + 1,
             Waiting' => Len(delivered') <= n
      PROVE  StringsInv'
  BY <1>2, <1>3 DEF StringsInv
<1>4. ASSUME NEW x, Len(Append(delivered, x)) # d + 1 PROVE FALSE
  <2>1. Len(Append(delivered, x)) = Len(delivered) + 1
    BY <1>1
  <2>2. QED
    BY <1>2, <1>4, <2>1
<1>5. CASE Call
  <2>1. UNCHANGED values /\ ~Unread
    BY <1>5 DEF Call, readerVars
  <2>2. d <= n
    BY <1>2, <2>1 DEF Unread
  <2>3. CASE NextToken /\ peeked # <<>>
    <3>1. mode = "idle" /\ mode' = mode /\ delivered' = Append(delivered, Last(peeked))
      BY <2>3 DEF NextToken, TakePeeked
    <3>2. Len(delivered') = d + 1
      BY <1>4, <3>1
    <3>3. QED
      BY <1>3, <2>1, <2>2, <3>1, <3>2 DEF Waiting
  <2>4. CASE ~(NextToken /\ peeked # <<>>)
    <3>1. \E call : Begin(call)
      BY <1>5, <2>4 DEF Call, NextToken, PeekToken
    <3>2. UNCHANGED delivered
      BY <3>1 DEF Begin, tokenVars
    <3>3. QED
      BY <1>2, <1>3, <2>1, <2>2, <3>2
  <2>5. QED
    BY <2>3, <2>4
<1>6. CASE PutBack
  <2>1. /\ delivered # <<>> /\ delivered' = Front(delivered) /\ mode = "idle" /\ mode' = mode
        /\ values' = SubSeq(values, 1, Len(delivered'))
    BY <1>6 DEF PutBack, ReinsertToken
  <2>2. PICK m \in Nat : m = Len(delivered') /\ m = d - 1
    BY <1>1, <1>2, <2>1, FrontFacts
  <2>3. m <= Len(values)
    BY <1>2, <2>2
  <2>4. PICK vs : vs = values
    OBVIOUS
  <2>5. /\ SubSeq(vs, 1, m) \in Seq(Range(SubSeq(vs, 1, m))) /\ Len(SubSeq(vs, 1, m)) = m
        /\ \A x \in Range(SubSeq(vs, 1, m)) : Strung(x)
    BY <2>3, <2>4, FewerValues DEF StringsInv
  <2>6. values' = SubSeq(vs, 1, m)
    BY <2>1, <2>2, <2>4
  <2>7. ~Waiting'
    BY <2>1 DEF Waiting
  <2>8. QED
    BY <2>2, <2>5, <2>6, <2>7 DEF StringsInv
<1>7. CASE Scanning
  <2>1. PICK r : r = NextChar
    OBVIOUS
  <2>2. Waiting /\ Does(r) /\ UNCHANGED values
    BY <1>1, <1>7, <2>1, ScanDoes DEF Scanning, readerVars
  <2>3. d <= n
    BY <1>2, <2>2
  <2>4. \/ UNCHANGED delivered
        \/ mode' = "idle" /\ \E x : delivered' = Append(delivered, x)
    BY <2>2 DEF Does, Goes, Finishes, Begins, Fails, Return, tokenVars
  <2>5. CASE UNCHANGED delivered
    BY <1>2, <1>3, <2>2, <2>3, <2>5
  <2>6. CASE mode' = "idle" /\ \E x : delivered' = Append(delivered, x)
    BY <1>3, <1>4, <2>2, <2>3, <2>6 DEF Waiting
  <2>7. QED
    BY <2>4, <2>5, <2>6
<1>8. ASSUME NEW l, values' = Append(values, l), Strung(l), mode = "idle", mode' = mode,
             UNCHANGED delivered
      PROVE  StringsInv'
  <2>1. PICK vs : vs = values
    OBVIOUS
  <2>2. /\ Append(vs, l) \in Seq(Range(Append(vs, l))) /\ Len(Append(vs, l)) = n + 1
        /\ \A x \in Range(Append(vs, l)) : Strung(x)
    BY <1>2, <1>8, <2>1, OneValueMore DEF StringsInv
  <2>3. values' = Append(vs, l) /\ ~Waiting' /\ Len(delivered') <= (n + 1) + 1
    BY <1>2, <1>8, <2>1 DEF Waiting
  <2>4. QED
    BY <2>2, <2>3 DEF StringsInv
<1>9. CASE ReadLiteral
  <2>1. PICK l : l = ValueOf(Last(delivered).token, token)
    OBVIOUS
  <2>2. Strung(l)
    BY <1>1, <2>1, ValueStrung
  <2>3. QED
    BY <1>8, <1>9, <2>1, <2>2 DEF ReadLiteral, lexVars
<1>10. CASE ReadParenthesis
  <2>1. Strung(NoLiteral)
    BY Kinds DEF Strung
  <2>2. QED
    BY <1>8, <1>10, <2>1 DEF ReadParenthesis, lexVars
<1>11. CASE \/ \E k \in AllOps : Apply(k)
            \/ UNCHANGED vars
  BY <1>11 DEF Apply, lexVars, vars, readerVars, StringsInv, Waiting
<1>12. QED
  BY <1>5, <1>6, <1>7, <1>9, <1>10, <1>11 DEF Next

(* Whatever the input and the operands: the text of a string value is read *)
(* as that value again (String::toString, String::toInternal).             *)
THEOREM StringsAreReadBack == Spec => []StringsRoundTrip
<1>1. ReaderInv /\ StringsInv => StringsRoundTrip
  <2>1. SUFFICES ASSUME ReaderInv, StringsInv, NEW l \in AllValues, l.kind = "STRING"
                 PROVE  ToInternal(ToText(l.str)) = l.str
    BY DEF StringsRoundTrip
  <2>2. Strung(l)
    <3>1. CASE l \in Range(values)
      BY <2>1, <3>1 DEF StringsInv
    <3>2. CASE l = result.value
      <4>1. result # None
        BY <2>1, <3>2, Kinds DEF None
      <4>2. PICK k, args : ResultOf(k, args)
        BY <2>1, <4>1, ResultFacts
      <4>3. l = Evaluate(k, args)
        BY <3>2, <4>2 DEF ResultOf
      <4>4. QED
        BY <4>2, <4>3, EvaluatedStrung DEF ResultOf
    <3>3. QED
      BY <3>1, <3>2 DEF AllValues
  <2>3. QED
    BY <2>1, <2>2, RoundTrip DEF Strung
<1>2. ReaderInit => StringsInv
  BY StringsInvInit
<1>3. ReaderInv /\ StringsInv /\ [Next]_vars => StringsInv'
  BY StringsInvNext
<1>4. QED
  BY <1>1, <1>2, <1>3, ReaderInvInit, ReaderInvNext, PTL DEF Spec

-----------------------------------------------------------------------------
(* The printed form of a value as a token *)

(* The tokens that values other than decimals are made of.                 *)
ValueTokens == {"INTEGER_LITERAL", "RATIONAL_LITERAL", "HEX_LITERAL", "BINARY_LITERAL",
                "STRING_LITERAL", "SYMBOL", "QUOTED_SYMBOL"}

(* The text t is one lexeme, and read as the value l.                      *)
ReadAs(t, l) == /\ t \in Seq(Int) /\ IsLexeme(t)
                /\ \A tok : IsOfKind(tok, t) => tok \in ValueTokens /\ ValueOf(tok, t) = l

(* What stands somewhere in a text is what SubSeq selects.                 *)
LEMMA PartIs ==
    ASSUME NEW t \in Seq(Int), NEW u \in Seq(Int), NEW p \in Nat, NEW n \in Nat, n = Len(u),
           p + n <= Len(t), Stands(t, p, u)
    PROVE  SubSeq(t, p + 1, p + n) = u
<1>1. PICK a \in Int, b \in Int : a = p + 1 /\ b = p + n /\ b <= Len(t)
  OBVIOUS
<1>2. \A i \in a .. b : t[i] \in Int
  <2>1. ASSUME NEW i \in a .. b PROVE t[i] \in Int
    <3>1. i \in 1 .. Len(t)
      BY <1>1
    <3>2. QED
      BY <3>1, ElementOfSeq
  <2>2. QED
    BY <2>1
<1> DEFINE v == SubSeq(t, a, b)
<1>3. /\ v \in Seq(Int) /\ Len(v) = (IF a <= b THEN b - a + 1 ELSE 0)
      /\ \A i \in 1 .. b - a + 1 : v[i] = t[a + i - 1]
  BY <1>2, SubSeqProperties
<1> HIDE DEF v
<1>4. Len(v) = Len(u)
  BY <1>1, <1>3
<1>5. ASSUME NEW i \in 1 .. Len(v) PROVE v[i] = u[i]
  <2>1. i \in 1 .. b - a + 1 /\ a + i - 1 = p + i /\ i \in 1 .. Len(u)
    BY <1>1, <1>4
  <2>2. QED
    BY <1>3, <2>1 DEF Stands
<1>6. v = u
  BY <1>3, <1>4, <1>5, SeqEqual
<1>7. QED
  BY <1>1, <1>6 DEF v

(* What comes after the first character.                                   *)
LEMMA RestIs ==
    ASSUME NEW t \in Seq(Int), NEW u \in Seq(Int), Len(t) = Len(u) + 1, Stands(t, 1, u)
    PROVE  Tail(t) = u
<1>1. t # <<>>
  OBVIOUS
<1>2. /\ Tail(t) \in Seq(Int) /\ Len(Tail(t)) = Len(t) - 1
      /\ \A i \in 1 .. Len(Tail(t)) : Tail(t)[i] = t[i + 1]
  BY <1>1, HeadTailProperties
<1>3. Len(Tail(t)) = Len(u)
  BY <1>2
<1>4. ASSUME NEW i \in 1 .. Len(Tail(t)) PROVE Tail(t)[i] = u[i]
  <2>1. i \in 1 .. Len(u) /\ i + 1 = 1 + i
    BY <1>3
  <2>2. QED
    BY <1>2, <2>1 DEF Stands
<1>5. QED
  BY <1>2, <1>3, <1>4, SeqEqual

(* The decimal digits of a natural number.                                 *)
LEMMA DecimalText ==
    ASSUME NEW n \in Nat
    PROVE  /\ Digits(n, 10) \in Seq(Int) /\ Len(Digits(n, 10)) \in Nat /\ Len(Digits(n, 10)) >= 1
           /\ AllDigits(Digits(n, 10), Len(Digits(n, 10)))
           /\ Decimal(Digits(n, 10)) = n
<1>1. DigitChars(10) \subseteq DecimalDigits
  <2>1. ASSUME NEW d \in 0 .. 10 - 1 PROVE DigitChar(d) \in DecimalDigits
    <3>1. d \in 0 .. 15 /\ d <= 9 /\ 48 + d \in 48 .. 57
      OBVIOUS
    <3>2. DigitChar(d) = 48 + d
      BY <3>1, DigitValue
    <3>3. QED
      BY <3>1, <3>2 DEF DecimalDigits
  <2>2. QED
    BY <2>1 DEF DigitChars
<1>2. 10 \in 2 .. 16
  OBVIOUS
<1> DEFINE s == Digits(n, 10)
<1>3. s \in Seq(DigitChars(10)) /\ s # <<>> /\ MakesNumber(10, s, n)
  BY <1>2, DigitsFacts
<1> HIDE DEF s
<1>4. s \in Seq(DecimalDigits)
  BY <1>1, <1>3, SeqMonotonic
<1>5. DecimalDigits \subseteq Int
  BY DEF DecimalDigits
<1>6. s \in Seq(Int) /\ Len(s) \in Nat /\ Len(s) >= 1 /\ DOMAIN s = 1 .. Len(s)
  <2>1. s \in Seq(Int)
    BY <1>4, <1>5, SeqMonotonic
  <2>2. QED
    BY <1>3, <2>1
<1>7. AllDigits(s, Len(s))
  BY <1>4, ElementOfSeq DEF AllDigits
<1>8. Number(10, s) = n
  BY <1>3, <1>6, NumberIs
<1>9. QED
  BY <1>6, <1>7, <1>8 DEF s, Decimal

(* The text t is that of the integer n, with a sign or without.            *)
IntegerText(t, n) ==
    /\ t \in Seq(Int) /\ Len(t) \in Nat /\ Len(t) >= 1
    /\ n >= 0 => AllDigits(t, Len(t))
    /\ n < 0 => t[1] = Minus /\ Len(t) >= 2 /\ \A i \in 2 .. Len(t) : t[i] \in DecimalDigits
    /\ SignedDecimal(t) = n

(* So is the one that is printed.                                          *)
LEMMA PrintedIsInteger == ASSUME NEW n \in Int PROVE IntegerText(PrintedInt(n), n)
<1> DEFINE t == PrintedInt(n)
<1>1. CASE n >= 0
  <2>1. n \in Nat /\ t = Digits(n, 10)
    BY <1>1 DEF PrintedInt
  <2>2. /\ t \in Seq(Int) /\ Len(t) \in Nat /\ Len(t) >= 1 /\ AllDigits(t, Len(t)) /\ Decimal(t) = n
    BY <2>1, DecimalText
  <2>3. t[1] # Minus
    <3>1. 1 \in 1 .. Len(t)
      BY <2>2
    <3>2. QED
      BY <2>2, <3>1 DEF AllDigits, DecimalDigits, Minus
  <2>4. QED
    BY <1>1, <2>2, <2>3 DEF IntegerText, SignedDecimal
<1>2. CASE n < 0
  <2>1. PICK m \in Nat : m = -n
    BY <1>2
  <2> DEFINE u == Digits(m, 10)
  <2>2. t = <<45>> \o u
    BY <1>2, <2>1 DEF PrintedInt
  <2>3. u \in Seq(Int) /\ Len(u) \in Nat /\ Len(u) >= 1 /\ AllDigits(u, Len(u)) /\ Decimal(u) = m
    BY DecimalText
  <2> HIDE DEF u, t
  <2>4. <<45>> \in Seq(Int) /\ Len(<<45>>) = 1 /\ <<45>>[1] = 45
    OBVIOUS
  <2>5. t \in Seq(Int) /\ Len(t) = 1 + Len(u) /\ Stands(t, 0, <<45>>) /\ Stands(t, 1, u)
    BY <2>2, <2>3, <2>4, JoinStands
  <2>6. t[1] = 45
    <3>1. 1 \in 1 .. Len(<<45>>)
      BY <2>4
    <3>2. t[0 + 1] = <<45>>[1]
      BY <2>5, <3>1 DEF Stands
    <3>3. QED
      BY <2>4, <3>2
  <2>7. Tail(t) = u
    <3>1. u \in Seq(Int) /\ t \in Seq(Int) /\ Len(t) = Len(u) + 1
      BY <2>3, <2>5
    <3>2. QED
      BY <2>5, <3>1, RestIs
  <2>8. ASSUME NEW i \in 2 .. Len(t) PROVE t[i] \in DecimalDigits
    <3>1. i - 1 \in 1 .. Len(u) /\ i = 1 + (i - 1)
      BY <2>3, <2>5
    <3>2. t[i] = u[i - 1]
      BY <2>5, <3>1 DEF Stands
    <3>3. QED
      BY <2>3, <3>1, <3>2 DEF AllDigits
  <2>9. SignedDecimal(t) = n
    <3>1. SignedDecimal(t) = -m
      BY <2>3, <2>6, <2>7 DEF SignedDecimal, Minus
    <3>2. QED
      BY <2>1, <3>1
  <2>10. Len(t) \in Nat /\ Len(t) >= 2
    BY <2>3, <2>5
  <2>11. IntegerText(t, n)
    BY <1>2, <2>5, <2>6, <2>8, <2>9, <2>10 DEF IntegerText, Minus
  <2>12. QED
    BY <2>11 DEF t
<1>3. QED
  BY <1>1, <1>2

(* A sign begins a symbol, and digits go on with one.                      *)
LEMMA SignedCharacters ==
    /\ Minus \in SymbolStart /\ Slash \in SymbolChars /\ DecimalDigits \subseteq SymbolChars
    /\ Slash \notin DecimalDigits /\ Dot \notin DecimalDigits /\ Dot # Slash /\ Minus # Slash
    /\ Minus # Dot
  BY DEF SymbolStart, SymbolChars, ExtraSymbolChars, Minus, Slash, Dot, DecimalDigits

(* No reserved word begins with a sign.                                    *)
LEMMA SignedIsNoWord ==
    ASSUME NEW t, t[1] = Minus
    PROVE  /\ t # <<33>> /\ t # Word("eo::match") /\ t # Word("eo::define") /\ t # Word("par")
           /\ t # Word("let") /\ t # Word("Bool") /\ t # Word("Type")
<1>1. /\ <<33>>[1] = 33 /\ Word("eo::match")[1] = 101 /\ Word("eo::define")[1] = 101
      /\ Word("par")[1] = 112 /\ Word("let")[1] = 108 /\ Word("Bool")[1] = 66
      /\ Word("Type")[1] = 84
  BY DEF Word
<1>2. QED
  BY <1>1 DEF Minus

(* The characters of a text that are no digits, but for the first.         *)
Marks(t) == {i \in 2 .. Len(t) : t[i] \notin DecimalDigits}

(* What a text that begins with a sign is.                                 *)
SignedKind(t) ==
    CASE Marks(t) = {} -> "INTEGER_LITERAL"
      [] \E i \in 2 .. Len(t) - 1 : Marks(t) = {i} /\ t[i] = Dot -> "DECIMAL_LITERAL"
      [] \E i \in 2 .. Len(t) - 1 : Marks(t) = {i} /\ t[i] = Slash -> "RATIONAL_LITERAL"
      [] OTHER -> "SYMBOL"

LEMMA SignedToken ==
    ASSUME NEW t, Len(t) \in Nat, Len(t) >= 2, t[1] = Minus
    PROVE  SymbolToken(t) = SignedKind(t)
<1>1. t[1] = Minus /\ Len(t) >= 2
  OBVIOUS
<1>2. /\ ~(t = <<33>>) /\ ~(t = Word("eo::match")) /\ ~(t = Word("eo::define"))
      /\ ~(t = Word("par")) /\ ~(LexLet /\ t = Word("let")) /\ ~(t = Word("Bool"))
      /\ ~(t = Word("Type"))
  BY SignedIsNoWord
<1>3. QED
  BY <1>1, <1>2 DEF SymbolToken, SignedKind, Marks

(* A number with a sign is read as a symbol first.                         *)
LEMMA SignedNumber ==
    ASSUME NEW t, NEW n \in Nat, n = Len(t), n >= 2, t[1] = Minus
    PROVE  /\ (\A i \in 2 .. n : t[i] \in DecimalDigits) => SymbolToken(t) = "INTEGER_LITERAL"
           /\ (\E i \in 2 .. n - 1 : /\ t[i] = Slash
                                    /\ \A j \in 2 .. n : j # i => t[j] \in DecimalDigits)
              => SymbolToken(t) = "RATIONAL_LITERAL"
<1>0. SymbolToken(t) = SignedKind(t)
  BY SignedToken
<1>1. ASSUME \A i \in 2 .. n : t[i] \in DecimalDigits
      PROVE  SymbolToken(t) = "INTEGER_LITERAL"
  <2>1. Marks(t) = {}
    BY <1>1 DEF Marks
  <2>2. \A i : Marks(t) # {i}
    BY <2>1
  <2>3. QED
    BY <1>0, <2>1, <2>2 DEF SignedKind
<1>2. ASSUME NEW i \in 2 .. n - 1, t[i] = Slash, \A j \in 2 .. n : j # i => t[j] \in DecimalDigits
      PROVE  SymbolToken(t) = "RATIONAL_LITERAL"
  <2>1. Marks(t) = {i}
    BY <1>2, SignedCharacters DEF Marks
  <2>2. Marks(t) # {}
    BY <2>1
  <2>3. ~\E k \in 2 .. Len(t) - 1 : Marks(t) = {k} /\ t[k] = Dot
    BY <1>2, <2>1, SignedCharacters
  <2>4. \E k \in 2 .. Len(t) - 1 : Marks(t) = {k} /\ t[k] = Slash
    BY <1>2, <2>1
  <2>5. QED
    BY <1>0, <2>2, <2>3, <2>4 DEF SignedKind
<1>3. QED
  BY <1>1, <1>2

(* The first character decides which token it is.                          *)
LEMMA KindByFirst ==
    ASSUME NEW t, NEW tok, IsOfKind(tok, t)
    PROVE  /\ t[1] \in SymbolStart => tok = SymbolToken(t)
           /\ t[1] = Hash => tok = IF t[2] = 98 THEN "BINARY_LITERAL" ELSE "HEX_LITERAL"
           /\ t[1] = Bar => tok = "QUOTED_SYMBOL"
           /\ t[1] = DoubleQuote => tok = "STRING_LITERAL"
           /\ t[1] \in DecimalDigits /\ Dot \notin Range(t) =>
                tok = IF Slash \in Range(t) THEN "RATIONAL_LITERAL" ELSE "INTEGER_LITERAL"
  BY DEF IsOfKind

(* A printed numeral is read as that numeral.                              *)
LEMMA NumeralReads ==
    ASSUME normalize = {}, NEW n \in Int, NEW t, IntegerText(t, n)
    PROVE  ReadAs(t, Numeral(n))
<1>1. t \in Seq(Int) /\ Len(t) \in Nat /\ Len(t) >= 1 /\ 1 \in 1 .. Len(t) /\ DOMAIN t = 1 .. Len(t)
  BY DEF IntegerText
<1>2. ValueOf("INTEGER_LITERAL", t) = Numeral(n)
  BY DEF ValueOf, Normalized, IntegerText
<1>3. CASE n >= 0
  <2>1. AllDigits(t, Len(t))
    BY <1>3 DEF IntegerText
  <2>2. IsLexeme(t)
    BY <1>1, <2>1, Complete
  <2>3. t[1] \in DecimalDigits /\ Dot \notin Range(t) /\ Slash \notin Range(t)
    BY <1>1, <2>1, SignedCharacters DEF AllDigits, Range
  <2>4. \A tok : IsOfKind(tok, t) => tok = "INTEGER_LITERAL"
    BY <2>3, KindByFirst
  <2>5. QED
    BY <1>1, <1>2, <2>2, <2>4 DEF ReadAs, ValueTokens
<1>4. CASE n < 0
  <2>1. t[1] = Minus /\ Len(t) >= 2 /\ \A i \in 2 .. Len(t) : t[i] \in DecimalDigits
    BY <1>4 DEF IntegerText
  <2>2. Matches(t, SymbolStart, SymbolChars)
    BY <2>1, SignedCharacters DEF Matches
  <2>3. IsLexeme(t)
    BY <1>1, <2>2, Complete
  <2>4. SymbolToken(t) = "INTEGER_LITERAL"
    BY <1>1, <2>1, SignedNumber
  <2>5. \A tok : IsOfKind(tok, t) => tok = "INTEGER_LITERAL"
    BY <2>1, <2>4, SignedCharacters, KindByFirst
  <2>6. QED
    BY <1>1, <1>2, <2>3, <2>5 DEF ReadAs, ValueTokens
<1>5. QED
  BY <1>3, <1>4

(* Three texts joined: the first, a character, the last.                   *)
LEMMA JoinedAround ==
    ASSUME NEW u \in Seq(Int), NEW c \in Int, NEW v \in Seq(Int), NEW m \in Nat, NEW k \in Nat,
           m = Len(u), k = Len(v)
    PROVE  LET t == u \o <<c>> \o v
           IN  /\ t \in Seq(Int) /\ Len(t) = m + 1 + k /\ t[m + 1] = c
               /\ Stands(t, 0, u) /\ Stands(t, m + 1, v)
<1> DEFINE w == u \o <<c>>
<1>1. <<c>> \in Seq(Int) /\ Len(<<c>>) = 1 /\ <<c>>[1] = c
  OBVIOUS
<1>2. w \in Seq(Int) /\ Len(w) = m + 1 /\ Stands(w, 0, u) /\ Stands(w, m, <<c>>)
  BY <1>1, JoinStands
<1> HIDE DEF w
<1>3. /\ w \o v \in Seq(Int) /\ Len(w \o v) = m + 1 + k /\ Stands(w \o v, m + 1, v)
  BY <1>2, JoinStands
<1>4. Stands(w \o v, 0, u)
  BY <1>2, StandsLonger
<1>5. Stands(w \o v, m, <<c>>)
  <2>1. m + Len(<<c>>) <= Len(w)
    BY <1>1, <1>2
  <2>2. QED
    BY <1>1, <1>2, <2>1, StandsLonger
<1>6. (w \o v)[m + 1] = c
  <2>1. 1 \in 1 .. Len(<<c>>)
    BY <1>1
  <2>2. QED
    BY <1>1, <1>5, <2>1 DEF Stands
<1>7. QED
  BY <1>3, <1>4, <1>6 DEF w

(* The text of a fraction.                                                 *)
FractionText(t, u, v, m, k) ==
    /\ t \in Seq(Int) /\ m = Len(u) /\ k = Len(v) /\ Len(t) = m + 1 + k
    /\ t[m + 1] = Slash /\ Stands(t, 0, u) /\ Stands(t, m + 1, v)

(* It has one slash, and numbers on both sides of it.                      *)
LEMMA FractionParts ==
    ASSUME NEW t, NEW u, NEW v, NEW m \in Nat, NEW k \in Nat, FractionText(t, u, v, m, k),
           NEW n \in Int, IntegerText(u, n), v \in Seq(Int), AllDigits(v, k), k >= 1
    PROVE  /\ \A i \in 1 .. m : t[i] = u[i]
           /\ \A j \in 1 .. m + 1 + k : j > 1 /\ j # m + 1 => t[j] \in DecimalDigits
           /\ m >= 1 /\ t[1] = u[1] /\ m + 1 \in 2 .. Len(t) - 1
           /\ n >= 0 => t[1] \in DecimalDigits
           /\ n < 0 => t[1] = Minus
<1>1. \A i \in 1 .. m : t[i] = u[i]
  BY DEF FractionText, Stands
<1>2. m >= 1 /\ 1 \in 1 .. m
  BY DEF FractionText, IntegerText
<1>3. (n >= 0 => t[1] \in DecimalDigits) /\ (n < 0 => t[1] = Minus)
  BY <1>1, <1>2 DEF FractionText, IntegerText, AllDigits
<1>4. ASSUME NEW j \in 1 .. m + 1 + k, j > 1, j # m + 1 PROVE t[j] \in DecimalDigits
  <2>1. CASE j <= m
    <3>1. j \in 1 .. m /\ j \in 2 .. m
      BY <1>4, <2>1
    <3>2. u[j] \in DecimalDigits
      BY <3>1 DEF FractionText, IntegerText, AllDigits
    <3>3. QED
      BY <1>1, <3>1, <3>2
  <2>2. CASE j > m + 1
    <3>1. PICK i \in 1 .. k : j = m + 1 + i
      <4>1. j - (m + 1) \in 1 .. k /\ j = m + 1 + (j - (m + 1))
        BY <1>4, <2>2
      <4>2. QED
        BY <4>1
    <3>2. t[m + 1 + i] = v[i]
      BY DEF FractionText, Stands
    <3>3. QED
      BY <3>1, <3>2 DEF AllDigits
  <2>3. QED
    BY <1>4, <2>1, <2>2
<1>5. m + 1 \in 2 .. Len(t) - 1
  BY <1>2 DEF FractionText
<1>6. QED
  BY <1>1, <1>2, <1>3, <1>4, <1>5

(* What stands first in a text is its first part,                          *)
LEMMA FirstPart ==
    ASSUME NEW t \in Seq(Int), NEW u \in Seq(Int), NEW m \in Nat, m = Len(u), m <= Len(t),
           Stands(t, 0, u)
    PROVE  SubSeq(t, 1, m) = u
<1>1. PICK z \in Nat : z = 0
  OBVIOUS
<1>2. Stands(t, z, u) /\ z + m <= Len(t)
  BY <1>1
<1>3. SubSeq(t, z + 1, z + m) = u
  BY <1>2, PartIs, Zenon
<1>4. z + 1 = 1 /\ z + m = m
  BY <1>1
<1>5. QED
  BY <1>3, <1>4, Zenon

(* and what stands last is its last one.                                   *)
LEMMA LastPart ==
    ASSUME NEW t \in Seq(Int), NEW v \in Seq(Int), NEW q \in Nat, NEW k \in Nat, k = Len(v),
           Len(t) = q + k, Stands(t, q, v)
    PROVE  SubSeq(t, q + 1, Len(t)) = v
<1>1. q + k <= Len(t)
  OBVIOUS
<1>2. SubSeq(t, q + 1, q + k) = v
  BY <1>1, PartIs, Zenon
<1>3. QED
  BY <1>2, Zenon

(* The numbers of a fraction are what stands before the slash and after it. *)
LEMMA FractionPieces ==
    ASSUME NEW t, NEW u \in Seq(Int), NEW v \in Seq(Int), NEW m \in Nat, NEW k \in Nat,
           FractionText(t, u, v, m, k)
    PROVE  SubSeq(t, 1, (m + 1) - 1) = u /\ SubSeq(t, (m + 1) + 1, Len(t)) = v
<1>1. t \in Seq(Int) /\ m = Len(u) /\ k = Len(v) /\ Len(t) = m + 1 + k
  BY DEF FractionText
<1>2. PICK q \in Nat : q = m + 1
  OBVIOUS
<1>3. Stands(t, 0, u) /\ Stands(t, q, v)
  BY <1>2 DEF FractionText
<1>4. m <= Len(t) /\ Len(t) = q + k
  BY <1>1, <1>2
<1>5. SubSeq(t, 1, m) = u
  BY <1>1, <1>3, <1>4, FirstPart, Zenon
<1>6. SubSeq(t, q + 1, Len(t)) = v
  BY <1>1, <1>3, <1>4, LastPart, Zenon
<1>7. m = (m + 1) - 1
  OBVIOUS
<1>8. QED
  BY <1>2, <1>5, <1>6, <1>7, Zenon

(* A fraction is read as one.                                              *)
LEMMA RationalReads ==
    ASSUME NEW t, NEW u, NEW v, NEW m \in Nat, NEW k \in Nat, FractionText(t, u, v, m, k),
           NEW n \in Int, IntegerText(u, n), v \in Seq(Int), AllDigits(v, k), k >= 1,
           NEW d \in Nat, d > 0, Decimal(v) = d
    PROVE  ReadAs(t, Ratio("RATIONAL", n, d))
<1>1. /\ \A i \in 1 .. m : t[i] = u[i]
      /\ \A j \in 1 .. m + 1 + k : j > 1 /\ j # m + 1 => t[j] \in DecimalDigits
      /\ m >= 1 /\ t[1] = u[1] /\ m + 1 \in 2 .. Len(t) - 1
      /\ n >= 0 => t[1] \in DecimalDigits
      /\ n < 0 => t[1] = Minus
  BY FractionParts
<1>2. t \in Seq(Int) /\ Len(t) = m + 1 + k /\ t[m + 1] = Slash /\ DOMAIN t = 1 .. m + 1 + k
  BY DEF FractionText
<1>3. \A j \in DOMAIN t : t[j] = Slash <=> j = m + 1
  <2>1. ASSUME NEW j \in 1 .. m + 1 + k, t[j] = Slash PROVE j = m + 1
    <3>1. t[1] # Slash
      BY <1>1, SignedCharacters
    <3>2. QED
      BY <1>1, <2>1, <3>1, SignedCharacters
  <2>2. QED
    BY <1>2, <2>1
<1>4. (CHOOSE i \in DOMAIN t : t[i] = Slash) = m + 1
  <2>1. m + 1 \in DOMAIN t
    BY <1>2
  <2>2. QED
    BY <1>2, <1>3, <2>1
<1>5. SubSeq(t, 1, (m + 1) - 1) = u
  BY FractionPieces DEF IntegerText
<1>6. SubSeq(t, (m + 1) + 1, Len(t)) = v
  BY FractionPieces DEF IntegerText
<1>7. u \notin {<<>>, <<Minus>>}
  <2>1. u # <<>>
    BY DEF IntegerText
  <2>2. ASSUME u = <<Minus>> PROVE FALSE
    <3>1. Len(u) = 1 /\ u[1] = Minus
      BY <2>2
    <3>2. n >= 0 /\ u[1] \in DecimalDigits
      BY <3>1 DEF IntegerText, AllDigits
    <3>3. QED
      BY <3>1, <3>2 DEF DecimalDigits, Minus
  <2>3. QED
    BY <2>1, <2>2
<1>8. FromRational(t) = Ratio("RATIONAL", n, d)
  <2> DEFINE p == CHOOSE i \in DOMAIN t : t[i] = Slash
  <2>1. p = m + 1
    BY <1>4
  <2> HIDE DEF p
  <2>2. SubSeq(t, 1, p - 1) = u /\ SubSeq(t, p + 1, Len(t)) = v
    BY <1>5, <1>6, <2>1, Zenon
  <2>3. FromRational(t) = IF Decimal(SubSeq(t, p + 1, Len(t))) = 0
                             \/ SubSeq(t, 1, p - 1) \in {<<>>, <<Minus>>} THEN Fatal
                          ELSE Ratio("RATIONAL", SignedDecimal(SubSeq(t, 1, p - 1)),
                                     Decimal(SubSeq(t, p + 1, Len(t))))
    BY Zenon DEF FromRational, p
  <2>6. FromRational(t) = IF Decimal(v) = 0 \/ u \in {<<>>, <<Minus>>} THEN Fatal
                          ELSE Ratio("RATIONAL", SignedDecimal(u), Decimal(v))
    BY <2>2, <2>3, Zenon
  <2>4. SignedDecimal(u) = n /\ Decimal(v) = d /\ d # 0
    BY DEF IntegerText
  <2>5. QED
    BY <1>7, <2>4, <2>6
<1>9. ValueOf("RATIONAL_LITERAL", t) = Ratio("RATIONAL", n, d)
  BY <1>8 DEF ValueOf
<1>10. CASE n >= 0
  <2>1. Fraction(t, Slash)
    <3>1. \A j \in DOMAIN t \ {m + 1} : t[j] \in DecimalDigits
      <4>1. ASSUME NEW j \in 1 .. m + 1 + k, j # m + 1 PROVE t[j] \in DecimalDigits
        <5>1. t[1] \in DecimalDigits
          BY <1>1, <1>10
        <5>2. CASE j = 1
          BY <5>1, <5>2
        <5>3. CASE j > 1
          BY <1>1, <4>1, <5>3
        <5>4. QED
          BY <5>2, <5>3
      <4>2. QED
        BY <1>2, <4>1
    <3>2. QED
      BY <1>1, <1>2, <3>1 DEF Fraction
  <2>2. IsLexeme(t)
    BY <1>2, <2>1, Complete
  <2>3. t[1] \in DecimalDigits /\ Dot \notin Range(t) /\ Slash \in Range(t)
    <3>1. ASSUME NEW j \in 1 .. m + 1 + k PROVE t[j] # Dot
      <4>1. t[j] \in DecimalDigits \cup {Slash}
        <5>1. CASE j = 1
          BY <1>1, <1>10, <5>1
        <5>2. CASE j = m + 1
          BY <1>2, <5>2
        <5>3. CASE j > 1 /\ j # m + 1
          BY <1>1, <5>3
        <5>4. QED
          BY <5>1, <5>2, <5>3
      <4>2. QED
        BY <4>1, SignedCharacters
    <3>2. m + 1 \in 1 .. m + 1 + k
      OBVIOUS
    <3>3. QED
      BY <1>1, <1>2, <1>10, <3>1, <3>2 DEF Range
  <2>4. \A tok : IsOfKind(tok, t) => tok = "RATIONAL_LITERAL"
    BY <2>3, KindByFirst
  <2>5. QED
    BY <1>2, <1>9, <2>2, <2>4 DEF ReadAs, ValueTokens
<1>11. CASE n < 0
  <2>1. t[1] = Minus
    BY <1>1, <1>11
  <2>2. Matches(t, SymbolStart, SymbolChars)
    <3>1. ASSUME NEW i \in 2 .. m + 1 + k PROVE t[i] \in SymbolChars
      <4>1. CASE i = m + 1
        BY <1>2, <4>1, SignedCharacters
      <4>2. CASE i # m + 1
        <5>1. i \in 1 .. m + 1 + k /\ i > 1
          OBVIOUS
        <5>2. t[i] \in DecimalDigits
          BY <1>1, <4>2, <5>1
        <5>3. QED
          BY <5>2, SignedCharacters
      <4>3. QED
        BY <4>1, <4>2
    <3>2. QED
      BY <1>2, <2>1, <3>1, SignedCharacters DEF Matches
  <2>3. IsLexeme(t)
    BY <1>2, <2>2, Complete
  <2>4. SymbolToken(t) = "RATIONAL_LITERAL"
    <3>1. m + 1 + k \in Nat /\ m + 1 + k >= 2 /\ m + 1 + k = Len(t)
      BY <1>2
    <3>2. \A j \in 2 .. m + 1 + k : j # m + 1 => t[j] \in DecimalDigits
      BY <1>1
    <3>3. m + 1 \in 2 .. (m + 1 + k) - 1
      BY <1>1, <1>2
    <3>4. QED
      BY <1>2, <2>1, <3>1, <3>2, <3>3, SignedNumber
  <2>5. \A tok : IsOfKind(tok, t) => tok = "RATIONAL_LITERAL"
    BY <2>1, <2>4, SignedCharacters, KindByFirst
  <2>6. QED
    BY <1>2, <1>9, <2>3, <2>5 DEF ReadAs, ValueTokens
<1>12. QED
  BY <1>10, <1>11

(* The digits of a natural number in a base.                               *)
LEMMA BaseText ==
    ASSUME NEW base, NEW S, \/ base = 2 /\ S = Bits
                            \/ base = 16 /\ S = HexDigits,
           NEW n \in Nat
    PROVE  /\ Digits(n, base) \in Seq(Int) /\ Len(Digits(n, base)) \in Nat
           /\ \A i \in 1 .. Len(Digits(n, base)) : Digits(n, base)[i] \in S
           /\ MakesNumber(base, Digits(n, base), n)
<1>2. DigitChars(base) \subseteq S
  <2>1. ASSUME NEW d \in 0 .. base - 1 PROVE DigitChar(d) \in S
    <3>1. d \in 0 .. 15
      OBVIOUS
    <3>2. DigitChar(d) \in 48 .. 57 \cup 97 .. 102 /\ (d <= 9 => DigitChar(d) = 48 + d)
      BY <3>1, DigitValue
    <3>3. CASE base = 16
      BY <3>2, <3>3 DEF HexDigits, DecimalDigits
    <3>4. CASE base = 2
      <4>1. d \in {0, 1}
        BY <3>4
      <4>2. QED
        BY <3>2, <3>4, <4>1 DEF Bits
    <3>5. QED
      BY <3>3, <3>4
  <2>2. QED
    BY <2>1 DEF DigitChars
<1>3. base \in 2 .. 16
  OBVIOUS
<1> DEFINE s == Digits(n, base)
<1>4. s \in Seq(DigitChars(base)) /\ MakesNumber(base, s, n)
  BY <1>3, DigitsFacts
<1> HIDE DEF s
<1>5. s \in Seq(S)
  BY <1>2, <1>4, SeqMonotonic
<1>6. S \subseteq Int
  BY DEF Bits, HexDigits, DecimalDigits
<1>7. s \in Seq(Int) /\ Len(s) \in Nat
  <2>1. s \in Seq(Int)
    BY <1>5, <1>6, SeqMonotonic
  <2>2. QED
    BY <2>1
<1>8. \A i \in 1 .. Len(s) : s[i] \in S
  BY <1>5, ElementOfSeq
<1>9. QED
  BY <1>4, <1>7, <1>8 DEF s

(* A number below the power of a width has no more binary digits.          *)
LEMMA BitsFit ==
    ASSUME NEW w \in Nat, w >= 1, NEW n \in Nat, n < 2 ^ w
    PROVE  Len(Digits(n, 2)) <= w
<1>1. 2 \in 2 .. 16 /\ 2 \in Nat /\ 2 >= 2 /\ n \in 0 .. n
  OBVIOUS
<1>2. PICK g : Writes(g, 2, n) /\ Digits(n, 2) = g[n]
  BY <1>1, DigitsAre
<1> DEFINE Good == {k \in Nat : Short(g, n, 2 ^ (k + 1), k + 1)}
<1>3. 0 \in Good
  <2>1. 2 ^ (0 + 1) = 2 * 2 ^ 0
    BY PowerNext
  <2>2. 2 ^ (0 + 1) = 2 /\ 0 + 1 = 1
    BY <2>1, PowerZero
  <2>3. Short(g, n, 2, 1)
    BY <1>1, <1>2, OneDigit
  <2>4. QED
    BY <2>2, <2>3
<1>4. ASSUME NEW k \in Nat, k \in Good PROVE k + 1 \in Good
  <2>1. PICK b \in Nat, m \in Nat : m = k + 1 /\ b = 2 ^ m /\ m >= 1
    <3>1. k + 1 \in Nat /\ k + 1 >= 1
      OBVIOUS
    <3>2. QED
      BY <3>1, PowerType
  <2>2. Short(g, n, b, m)
    BY <1>4, <2>1
  <2>3. Short(g, n, 2 * b, m + 1)
    BY <1>1, <1>2, <2>1, <2>2, DigitMore
  <2>4. 2 ^ (m + 1) = 2 * b
    BY <2>1, PowerNext
  <2>5. QED
    BY <2>1, <2>3, <2>4
<1>5. \A k \in Nat : k \in Good
  <2> HIDE DEF Good
  <2>1. QED
    BY <1>3, <1>4, Inductive
<1>6. Short(g, n, 2 ^ w, w)
  <2>1. PICK k \in Nat : w = k + 1
    <3>1. w - 1 \in Nat /\ w = (w - 1) + 1
      OBVIOUS
    <3>2. QED
      BY <3>1
  <2>2. k \in Good
    BY <1>5
  <2>3. QED
    BY <2>1, <2>2
<1>7. QED
  BY <1>1, <1>2, <1>6 DEF Short

(* The text of a bit-vector.                                               *)
HashText(t, c, p, k) ==
    /\ t \in Seq(Int) /\ p \in Seq(Int) /\ k = Len(p) /\ Len(t) = k + 2
    /\ t[1] = Hash /\ t[2] = c /\ Stands(t, 2, p)

LEMMA HashJoined ==
    ASSUME NEW c \in Int, NEW p \in Seq(Int), NEW k \in Nat, k = Len(p)
    PROVE  HashText(<<Hash, c>> \o p, c, p, k)
<1> DEFINE u == <<Hash, c>>
<1>1. u \in Seq(Int) /\ Len(u) = 2 /\ u[1] = Hash /\ u[2] = c
  BY DEF Hash
<1> HIDE DEF u
<1> DEFINE t == u \o p
<1>2. t \in Seq(Int) /\ Len(t) = 2 + k /\ Stands(t, 0, u) /\ Stands(t, 2, p)
  BY <1>1, JoinStands
<1> HIDE DEF t
<1>3. t[1] = Hash /\ t[2] = c
  <2>1. 1 \in 1 .. Len(u) /\ 2 \in 1 .. Len(u) /\ 0 + 1 = 1 /\ 0 + 2 = 2
    BY <1>1
  <2>2. t[0 + 1] = u[1] /\ t[0 + 2] = u[2]
    BY <1>2, <2>1 DEF Stands
  <2>3. QED
    BY <1>1, <2>1, <2>2
<1>4. HashText(t, c, p, k)
  BY <1>2, <1>3 DEF HashText
<1>5. QED
  BY <1>4 DEF t, u

(* The digits that are read are those after the first two characters.      *)
LEMMA HashReads ==
    ASSUME NEW c, NEW t, NEW p, NEW k \in Nat, HashText(t, c, p, k), k >= 1,
           NEW class, \/ c = 98 /\ class = Bits
                      \/ c = 120 /\ class = HexDigits,
           \A i \in 1 .. k : p[i] \in class
    PROVE  /\ IsLexeme(t) /\ SubSeq(t, 3, Len(t)) = p /\ p # <<>>
           /\ \A tok : IsOfKind(tok, t) =>
                  tok = IF c = 98 THEN "BINARY_LITERAL" ELSE "HEX_LITERAL"
<1>1. t \in Seq(Int) /\ p \in Seq(Int) /\ k = Len(p) /\ Len(t) = k + 2 /\ t[1] = Hash /\ t[2] = c
  BY DEF HashText
<1>2. ASSUME NEW i \in 3 .. Len(t) PROVE t[i] \in class
  <2>1. i - 2 \in 1 .. k /\ i = 2 + (i - 2)
    BY <1>1
  <2>2. t[i] = p[i - 2]
    BY <1>1, <2>1 DEF HashText, Stands
  <2>3. QED
    BY <2>1, <2>2
<1>3. BitsAfter(t, 98, Bits) \/ BitsAfter(t, 120, HexDigits)
  BY <1>1, <1>2 DEF BitsAfter
<1>4. IsLexeme(t)
  <2>1. Len(t) >= 1
    BY <1>1
  <2>2. QED
    BY <1>1, <1>3, <2>1, Complete
<1>5. SubSeq(t, 3, Len(t)) = p
  <2>1. PICK q \in Nat : q = 2
    OBVIOUS
  <2>2. Stands(t, q, p) /\ q + k <= Len(t)
    BY <1>1, <2>1 DEF HashText
  <2>3. SubSeq(t, q + 1, q + k) = p
    <3>1. t \in Seq(Int) /\ p \in Seq(Int) /\ k = Len(p)
      BY <1>1
    <3>2. QED
      BY <2>2, <3>1, PartIs, Zenon
  <2>4. QED
    BY <1>1, <2>1, <2>3
<1>6. ASSUME NEW tok, IsOfKind(tok, t)
      PROVE  tok = IF c = 98 THEN "BINARY_LITERAL" ELSE "HEX_LITERAL"
  <2>1. tok = IF t[2] = 98 THEN "BINARY_LITERAL" ELSE "HEX_LITERAL"
    BY <1>1, <1>6, KindByFirst
  <2>2. QED
    BY <1>1, <2>1
<1>7. QED
  BY <1>1, <1>4, <1>5, <1>6

(* A bit-vector is what its constructor makes of its value.                *)
LEMMA BitVectorAgain ==
    ASSUME NEW l, IsValue(l), l.kind \in BitKinds
    PROVE  /\ l.int \in Nat /\ l.aux \in Nat /\ l.int < 2 ^ l.aux
           /\ BitVector(l.kind, l.aux, l.int) = l
<1>1. l.int \in Nat /\ l.aux \in Nat /\ l.int < 2 ^ l.aux
  BY ValueFacts DEF Fits
<1>2. l.int % 2 ^ l.aux = l.int
  BY <1>1, Kept
<1>3. l = Literal(l.kind, l.int, l.aux, l.str) /\ l.str = <<>>
  BY DEF IsValue, BitKinds, Rationals
<1>4. QED
  BY <1>1, <1>2, <1>3, Zenon DEF BitVector

(* A printed bit-vector with bits is read as itself.                       *)
LEMMA BinaryReads ==
    ASSUME NEW l, IsValue(l), l.kind = "BINARY", l.aux > 0
    PROVE  ReadAs(PrintedLeaf(l), l)
<1>1. PICK n \in Nat, w \in Nat : n = l.int /\ w = l.aux /\ n < 2 ^ w /\ w >= 1
  BY BitVectorAgain DEF BitKinds
<1>2. BitVector("BINARY", w, n) = l
  BY <1>1, BitVectorAgain DEF BitKinds
<1> DEFINE bits == Digits(n, 2)
<1>3. /\ bits \in Seq(Int) /\ Len(bits) \in Nat /\ MakesNumber(2, bits, n)
      /\ \A i \in 1 .. Len(bits) : bits[i] \in Bits
  BY BaseText
<1>4. Len(bits) <= w
  BY <1>1, BitsFit
<1> DEFINE p == [i \in 1 .. w - Len(bits) |-> 48] \o bits
<1>5. PrintedLeaf(l) = <<Hash, 98>> \o p
  <2>1. ~(l.kind \in BitKinds /\ l.aux = 0)
    BY <1>1
  <2>2. Printed(l) = p
    BY <1>1, <2>1 DEF Printed
  <2> HIDE DEF p
  <2>3. QED
    BY <2>2 DEF PrintedLeaf
<1> HIDE DEF bits, p
<1>6. PICK j \in Nat : j = w - Len(bits)
  BY <1>3, <1>4
<1>7. p = Padded(j, bits)
  BY <1>6 DEF p, Padded
<1>8. /\ p \in Seq(Int) /\ Len(p) = j + Len(bits)
      /\ \A i \in 1 .. j : p[i] = 48
      /\ \A i \in 1 .. Len(bits) : p[j + i] = bits[i]
  <2>1. PICK b \in Nat : b = Len(bits)
    BY <1>3
  <2>2. /\ Padded(j, bits) \in Seq(Int) /\ Len(Padded(j, bits)) = j + b
        /\ \A i \in 1 .. j : Padded(j, bits)[i] = 48
        /\ \A i \in 1 .. b : Padded(j, bits)[j + i] = bits[i]
    <3>1. bits \in Seq(Int)
      BY <1>3
    <3>2. QED
      BY <2>1, <3>1, PaddedFacts
  <2>3. QED
    BY <1>7, <2>1, <2>2, Zenon
<1>9. w = Len(p)
  BY <1>3, <1>6, <1>8
<1>10. ASSUME NEW i \in 1 .. w PROVE p[i] \in Bits
  <2>1. CASE i <= j
    BY <1>8, <2>1 DEF Bits
  <2>2. CASE i > j
    <3>1. i - j \in 1 .. Len(bits) /\ i = j + (i - j)
      BY <1>3, <1>6, <2>2
    <3>2. p[i] = bits[i - j]
      BY <1>8, <3>1
    <3>3. QED
      BY <1>3, <3>1, <3>2
  <2>3. QED
    BY <2>1, <2>2
<1>11. Number(2, p) = n
  <2>1. MakesNumber(2, p, n)
    BY <1>3, <1>7, NumberPadded
  <2>2. DOMAIN p = 1 .. Len(p) /\ Len(p) \in Nat
    BY <1>8
  <2>3. QED
    BY <2>1, <2>2, NumberIs
<1> DEFINE t == <<Hash, 98>> \o p
<1>12. HashText(t, 98, p, w)
  BY <1>8, <1>9, HashJoined
<1> HIDE DEF t
<1>13. /\ IsLexeme(t) /\ SubSeq(t, 3, Len(t)) = p /\ p # <<>>
       /\ \A tok : IsOfKind(tok, t) => tok = "BINARY_LITERAL"
  <2>1. \A i \in 1 .. w : p[i] \in Bits
    BY <1>10
  <2>2. w \in Nat /\ w >= 1
    BY <1>1
  <2>3. QED
    BY <1>12, <2>1, <2>2, HashReads, Zenon
<1>14. FromBinary(t) = l
  BY <1>2, <1>9, <1>11, <1>13 DEF FromBinary
<1>15. ValueOf("BINARY_LITERAL", t) = l
  BY <1>14 DEF ValueOf
<1>16. t \in Seq(Int)
  BY <1>12 DEF HashText
<1>17. ReadAs(t, l)
  BY <1>13, <1>15, <1>16 DEF ReadAs, ValueTokens
<1>18. QED
  BY <1>5, <1>17 DEF t

(* So is a hexadecimal whose width is that of its digits.                  *)
LEMMA HexadecimalReads ==
    ASSUME normalize = {}, NEW l, IsValue(l), l.kind = "HEXADECIMAL", l.aux > 0,
           l.aux = 4 * Len(Printed(l))
    PROVE  ReadAs(PrintedLeaf(l), l)
<1>1. PICK n \in Nat, w \in Nat : n = l.int /\ w = l.aux
  BY BitVectorAgain DEF BitKinds
<1>2. BitVector("HEXADECIMAL", w, n) = l
  BY <1>1, BitVectorAgain DEF BitKinds
<1> DEFINE p == Digits(n, 16)
<1>3. /\ p \in Seq(Int) /\ Len(p) \in Nat /\ MakesNumber(16, p, n)
      /\ \A i \in 1 .. Len(p) : p[i] \in HexDigits
  BY BaseText
<1>4. Printed(l) = p
  <2>1. ~(l.kind \in BitKinds /\ l.aux = 0)
    BY <1>1
  <2>2. QED
    BY <1>1, <2>1 DEF Printed
<1> HIDE DEF p
<1>5. PICK k \in Nat : k = Len(p) /\ w = 4 * k /\ k >= 1
  BY <1>1, <1>3, <1>4
<1>6. Number(16, p) = n
  <2>1. DOMAIN p = 1 .. Len(p)
    BY <1>3
  <2>2. QED
    BY <1>3, <2>1, NumberIs
<1>7. PrintedLeaf(l) = <<Hash, 120>> \o p
  BY <1>4 DEF PrintedLeaf
<1> DEFINE t == <<Hash, 120>> \o p
<1>8. HashText(t, 120, p, k)
  BY <1>3, <1>5, HashJoined
<1> HIDE DEF t
<1>9. /\ IsLexeme(t) /\ SubSeq(t, 3, Len(t)) = p /\ p # <<>>
      /\ \A tok : IsOfKind(tok, t) => tok = "HEX_LITERAL"
  <2>1. \A i \in 1 .. k : p[i] \in HexDigits
    BY <1>3, <1>5
  <2>2. /\ IsLexeme(t) /\ SubSeq(t, 3, Len(t)) = p /\ p # <<>>
        /\ \A tok : IsOfKind(tok, t) =>
               tok = IF 120 = 98 THEN "BINARY_LITERAL" ELSE "HEX_LITERAL"
    BY <1>5, <1>8, <2>1, HashReads, Zenon
  <2>3. 120 # 98
    OBVIOUS
  <2>4. QED
    BY <2>2, <2>3, Zenon
<1>10. FromHexadecimal(t) = l
  BY <1>2, <1>5, <1>6, <1>9 DEF FromHexadecimal
<1>11. ValueOf("HEX_LITERAL", t) = l
  BY <1>10 DEF ValueOf, Normalized
<1>12. t \in Seq(Int)
  BY <1>8 DEF HashText
<1>13. ReadAs(t, l)
  BY <1>9, <1>11, <1>12 DEF ReadAs, ValueTokens
<1>14. QED
  BY <1>7, <1>13 DEF t

(* A printed numeral,                                                      *)
LEMMA PrintedNumeralReads ==
    ASSUME normalize = {}, NEW l, IsValue(l), l.kind = "NUMERAL"
    PROVE  ReadAs(PrintedLeaf(l), l)
<1>1. l.int \in Int
  BY ValueFacts
<1>2. PrintedLeaf(l) = PrintedInt(l.int)
  BY DEF PrintedLeaf, Printed, BitKinds
<1>3. l = Numeral(l.int)
  <2>1. l = Literal(l.kind, l.int, l.aux, l.str) /\ l.str = <<>> /\ l.aux = 0
    BY DEF IsValue, BitKinds, Rationals
  <2>2. QED
    BY <2>1, Zenon DEF Numeral
<1>4. ReadAs(PrintedInt(l.int), Numeral(l.int))
  BY <1>1, PrintedIsInteger, NumeralReads
<1>5. QED
  BY <1>2, <1>3, <1>4, Zenon

(* and a printed rational.                                                 *)
LEMMA PrintedRationalReads ==
    ASSUME NEW l, IsValue(l), l.kind = "RATIONAL"
    PROVE  ReadAs(PrintedLeaf(l), l)
<1>1. PICK n \in Int, d \in Nat : n = l.int /\ d = l.aux /\ d > 0 /\ l = Ratio("RATIONAL", n, d)
  BY ValueFacts DEF IsValue, Rationals
<1> DEFINE u == PrintedInt(n)
           v == Digits(d, 10)
<1>2. PrintedLeaf(l) = u \o <<47>> \o v
  BY <1>1 DEF PrintedLeaf, Printed, BitKinds
<1>3. IntegerText(u, n)
  BY PrintedIsInteger
<1>4. v \in Seq(Int) /\ Len(v) \in Nat /\ Len(v) >= 1 /\ AllDigits(v, Len(v)) /\ Decimal(v) = d
  BY DecimalText
<1> HIDE DEF u, v
<1>5. PICK m \in Nat, k \in Nat : m = Len(u) /\ k = Len(v)
  BY <1>3, <1>4 DEF IntegerText
<1>6. u \in Seq(Int) /\ 47 \in Int
  BY <1>3 DEF IntegerText
<1> DEFINE t == u \o <<47>> \o v
<1>7. /\ t \in Seq(Int) /\ Len(t) = m + 1 + k /\ t[m + 1] = 47
      /\ Stands(t, 0, u) /\ Stands(t, m + 1, v)
  BY <1>4, <1>5, <1>6, JoinedAround
<1> HIDE DEF t
<1>8. FractionText(t, u, v, m, k)
  BY <1>5, <1>7 DEF FractionText, Slash
<1>9. ReadAs(t, Ratio("RATIONAL", n, d))
  BY <1>1, <1>3, <1>4, <1>5, <1>8, RationalReads
<1>10. QED
  BY <1>1, <1>2, <1>9 DEF t

(* The text u between two characters q.                                    *)
Enclosed(t, q, u, k) ==
    /\ t \in Seq(Int) /\ u \in Seq(Int) /\ k = Len(u) /\ Len(t) = k + 2
    /\ t[1] = q /\ t[k + 2] = q /\ Stands(t, 1, u)

LEMMA EnclosedJoined ==
    ASSUME NEW q \in Int, NEW u \in Seq(Int), NEW k \in Nat, k = Len(u)
    PROVE  Enclosed(<<q>> \o u \o <<q>>, q, u, k)
<1> DEFINE a == <<q>>
<1>1. a \in Seq(Int) /\ Len(a) = 1 /\ a[1] = q
  OBVIOUS
<1> HIDE DEF a
<1> DEFINE w == a \o u
<1>2. w \in Seq(Int) /\ Len(w) = 1 + k /\ Stands(w, 0, a) /\ Stands(w, 1, u)
  BY <1>1, JoinStands
<1> HIDE DEF w
<1> DEFINE t == w \o a
<1>3. t \in Seq(Int) /\ Len(t) = (1 + k) + 1 /\ Stands(t, 0, w) /\ Stands(t, 1 + k, a)
  <2>1. PICK m \in Nat : m = Len(w) /\ m = 1 + k
    BY <1>2
  <2>2. t \in Seq(Int) /\ Len(t) = Len(w) + Len(a) /\ Stands(t, 0, w) /\ Stands(t, Len(w), a)
    <3>1. w \in Seq(Int) /\ a \in Seq(Int)
      BY <1>1, <1>2
    <3>2. QED
      BY <3>1, JoinStands
  <2> HIDE DEF t
  <2>3. QED
    BY <1>1, <2>1, <2>2
<1> HIDE DEF t
<1>4. \A i \in 1 .. 1 + k : t[i] = w[i]
  BY <1>2, <1>3 DEF Stands
<1>5. t[1] = q
  <2>1. 1 \in 1 .. 1 + k /\ 1 \in 1 .. Len(a) /\ 0 + 1 = 1
    BY <1>1
  <2>2. t[1] = w[1]
    BY <1>4, <2>1
  <2>3. w[0 + 1] = a[1]
    BY <1>2, <2>1 DEF Stands
  <2>4. QED
    BY <1>1, <2>1, <2>2, <2>3
<1>6. t[k + 2] = q
  <2>1. 1 \in 1 .. Len(a) /\ (1 + k) + 1 = k + 2
    BY <1>1
  <2>2. t[(1 + k) + 1] = a[1]
    BY <1>3, <2>1 DEF Stands
  <2>3. QED
    BY <1>1, <2>1, <2>2
<1>7. Stands(t, 1, u)
  <2>1. ASSUME NEW j \in 1 .. Len(u) PROVE t[1 + j] = u[j]
    <3>1. 1 + j \in 1 .. 1 + k
      OBVIOUS
    <3>2. t[1 + j] = w[1 + j]
      BY <1>4, <3>1
    <3>3. w[1 + j] = u[j]
      BY <1>2 DEF Stands
    <3>4. QED
      BY <3>2, <3>3
  <2>2. QED
    BY <2>1 DEF Stands
<1>8. Enclosed(t, q, u, k)
  BY <1>3, <1>5, <1>6, <1>7 DEF Enclosed
<1>9. QED
  BY <1>8 DEF t, w, a

(* What stands between the first and the last character is u.              *)
LEMMA EnclosedInner ==
    ASSUME NEW t, NEW q, NEW u, NEW k \in Nat, Enclosed(t, q, u, k)
    PROVE  /\ SubSeq(t, 2, Len(t) - 1) = u
           /\ \A i \in 2 .. Len(t) - 1 : t[i] = u[i - 1] /\ i - 1 \in 1 .. k
<1>1. t \in Seq(Int) /\ u \in Seq(Int) /\ k = Len(u) /\ Len(t) = k + 2 /\ Stands(t, 1, u)
  BY DEF Enclosed
<1>2. SubSeq(t, 2, Len(t) - 1) = u
  <2>1. PICK p \in Nat : p = 1 /\ p + k <= Len(t)
    BY <1>1
  <2>2. Stands(t, p, u)
    BY <1>1, <2>1
  <2>3. SubSeq(t, p + 1, p + k) = u
    BY <1>1, <2>1, <2>2, PartIs, Zenon
  <2>4. p + 1 = 2 /\ p + k = Len(t) - 1
    BY <1>1, <2>1
  <2>5. QED
    BY <2>3, <2>4
<1>3. ASSUME NEW i \in 2 .. Len(t) - 1 PROVE t[i] = u[i - 1] /\ i - 1 \in 1 .. k
  <2>1. i - 1 \in 1 .. k /\ i = 1 + (i - 1)
    BY <1>1
  <2>2. QED
    BY <1>1, <2>1 DEF Stands
<1>4. QED
  BY <1>2, <1>3

-----------------------------------------------------------------------------
(* Symbols *)

(* A quoted symbol is read as the symbol between the bars.                 *)
LEMMA QuotedReads ==
    ASSUME NEW t, NEW u, NEW k \in Nat, Enclosed(t, Bar, u, k), \A i \in 1 .. k : u[i] # Bar
    PROVE  ReadAs(t, Symbol(u))
<1>1. t \in Seq(Int) /\ Len(t) = k + 2 /\ t[1] = Bar /\ t[k + 2] = Bar /\ DOMAIN t = 1 .. k + 2
  BY DEF Enclosed
<1>2. {i \in DOMAIN t : t[i] = Bar} = {1, Len(t)}
  <2>1. ASSUME NEW i \in 1 .. k + 2, t[i] = Bar PROVE i \in {1, k + 2}
    <3>1. i \notin 2 .. Len(t) - 1
      BY <2>1, EnclosedInner
    <3>2. QED
      BY <1>1, <3>1
  <2>2. 1 \in 1 .. k + 2 /\ k + 2 \in 1 .. k + 2
    OBVIOUS
  <2>3. QED
    BY <1>1, <2>1, <2>2
<1>3. IsLexeme(t)
  <2>1. Len(t) >= 2 /\ t # <<>>
    BY <1>1
  <2>2. QED
    BY <1>2, <2>1 DEF IsLexeme, IsQuoted
<1>4. \A tok : IsOfKind(tok, t) => tok = "QUOTED_SYMBOL"
  BY <1>1, KindByFirst
<1>5. ValueOf("QUOTED_SYMBOL", t) = Symbol(u)
  BY EnclosedInner DEF ValueOf
<1>6. QED
  BY <1>1, <1>3, <1>4, <1>5 DEF ReadAs, ValueTokens

(* A word that is not reserved is read as a symbol.                        *)
LEMMA WordToken ==
    ASSUME NEW s, s \notin Reserved, s[1] # Minus
    PROVE  SymbolToken(s) = "SYMBOL"
<1>1. /\ ~(s = <<33>>) /\ ~(s = Word("eo::match")) /\ ~(s = Word("eo::define"))
      /\ ~(s = Word("par")) /\ ~(LexLet /\ s = Word("let")) /\ ~(s = Word("Bool"))
      /\ ~(s = Word("Type")) /\ ~(s[1] = Minus /\ Len(s) >= 2)
  BY DEF Reserved
<1>2. QED
  BY <1>1 DEF SymbolToken

(* A symbol that is printed without bars.                                  *)
LEMMA SimpleReads ==
    ASSUME NEW s \in Seq(Int), s # <<>>, Range(s) \subseteq SimpleChars, s[1] \notin DecimalDigits,
           SymbolToken(s) = "SYMBOL"
    PROVE  ReadAs(s, Symbol(s))
<1>1. Len(s) \in Nat /\ Len(s) >= 1 /\ DOMAIN s = 1 .. Len(s)
  OBVIOUS
<1>2. \A i \in 1 .. Len(s) : s[i] \in SimpleChars
  BY <1>1 DEF Range
<1>3. s[1] \in SymbolStart
  <2>1. 1 \in 1 .. Len(s)
    BY <1>1
  <2>2. QED
    BY <1>2, <2>1 DEF SimpleChars
<1>4. SimpleChars \subseteq SymbolChars
  BY DEF SimpleChars, SymbolChars
<1>5. Matches(s, SymbolStart, SymbolChars)
  BY <1>1, <1>2, <1>3, <1>4 DEF Matches
<1>6. IsLexeme(s)
  BY <1>1, <1>5, Complete
<1>7. \A tok : IsOfKind(tok, s) => tok = "SYMBOL"
  BY <1>3, KindByFirst
<1>8. ValueOf("SYMBOL", s) = Symbol(s)
  BY DEF ValueOf
<1>9. QED
  BY <1>6, <1>7, <1>8 DEF ReadAs, ValueTokens

(* A symbol without bars and backslashes gets bars or none.                *)
LEMMA QuoteSymbolIs ==
    ASSUME NEW s \in Seq(Int), Range(s) \cap {Bar, Backslash} = {}
    PROVE  QuoteSymbol(s) = IF s # <<>> /\ Range(s) \subseteq SimpleChars /\ s[1] \notin DecimalDigits
                            THEN s ELSE <<Bar>> \o s \o <<Bar>>
<1>1. Len(s) \in Nat /\ DOMAIN s = 1 .. Len(s)
  OBVIOUS
<1>2. \A i \in DOMAIN s : s[i] \notin {Bar, Backslash}
  BY DEF Range
<1>3. ~(Len(s) > 1 /\ s[1] = Bar /\ Last(s) = Bar)
  <2>1. ASSUME Len(s) > 1 PROVE s[1] # Bar
    <3>1. 1 \in DOMAIN s
      BY <1>1, <2>1
    <3>2. QED
      BY <1>2, <3>1
  <2>2. QED
    BY <2>1
<1> DEFINE v == [i \in DOMAIN s |-> IF s[i] \in {Bar, Backslash} THEN 95 ELSE s[i]]
<1>4. v = s
  <2>1. v = [i \in DOMAIN s |-> s[i]]
    BY <1>2, Zenon
  <2>2. s = [i \in DOMAIN s |-> s[i]]
    OBVIOUS
  <2>3. QED
    BY <2>1, <2>2, Zenon
<1>5. QuoteSymbol(s) = IF s # <<>> /\ Range(s) \subseteq SimpleChars /\ s[1] \notin DecimalDigits
                       THEN s ELSE <<Bar>> \o v \o <<Bar>>
  BY <1>3, Zenon DEF QuoteSymbol
<1> HIDE DEF v
<1>6. QED
  BY <1>4, <1>5, Zenon

(* A printed symbol is read as itself, unless it reads as another token.   *)
LEMMA PrintedSymbolReads ==
    ASSUME NEW l, IsValue(l), l.kind = "SYMBOL", ReadsBack(l)
    PROVE  ReadAs(PrintedLeaf(l), l)
<1>1. PICK s \in CodeSeqs : s = l.str
  BY DEF IsValue, CodeSeqs
<1>2. s \in Seq(Int) /\ Len(s) \in Nat /\ DOMAIN s = 1 .. Len(s)
  <2>1. s \in Seq(Int)
    BY CodesAreIntegers
  <2>2. QED
    BY <2>1
<1>3. /\ s \notin Reserved /\ (s # <<>> /\ s[1] = Minus => SymbolToken(s) = "SYMBOL")
      /\ Range(s) \cap {Bar, Backslash} = {}
  BY <1>1 DEF ReadsBack
<1>4. l = Symbol(s)
  <2>1. l = Literal(l.kind, l.int, l.aux, l.str) /\ l.int = 0 /\ l.aux = 0
    BY DEF IsValue, BitKinds, Rationals
  <2>2. QED
    BY <1>1, <2>1, Zenon DEF Symbol
<1>5. PrintedLeaf(l) = QuoteSymbol(s)
  BY <1>1 DEF PrintedLeaf
<1>6. CASE s # <<>> /\ Range(s) \subseteq SimpleChars /\ s[1] \notin DecimalDigits
  <2>1. QuoteSymbol(s) = s
    BY <1>2, <1>3, <1>6, QuoteSymbolIs
  <2>2. SymbolToken(s) = "SYMBOL"
    BY <1>3, <1>6, WordToken
  <2>3. ReadAs(s, Symbol(s))
    BY <1>2, <1>6, <2>2, SimpleReads
  <2>4. QED
    BY <1>4, <1>5, <2>1, <2>3
<1>7. CASE ~(s # <<>> /\ Range(s) \subseteq SimpleChars /\ s[1] \notin DecimalDigits)
  <2> DEFINE t == <<Bar>> \o s \o <<Bar>>
  <2>1. QuoteSymbol(s) = t
    BY <1>2, <1>3, <1>7, QuoteSymbolIs
  <2>2. Enclosed(t, Bar, s, Len(s))
    <3>1. Bar \in Int
      BY DEF Bar
    <3>2. QED
      BY <1>2, <3>1, EnclosedJoined
  <2> HIDE DEF t
  <2>3. \A i \in 1 .. Len(s) : s[i] # Bar
    BY <1>2, <1>3 DEF Range
  <2>4. ReadAs(t, Symbol(s))
    BY <1>2, <2>2, <2>3, QuotedReads
  <2>5. QED
    BY <1>4, <1>5, <2>1, <2>4
<1>8. QED
  BY <1>6, <1>7

-----------------------------------------------------------------------------
(* Strings *)

(* A quote is no digit.                                                    *)
LEMMA QuoteIsNoDigit == ~IsHexDigit(DoubleQuote)
  BY DEF IsHexDigit, DoubleQuote

(* The text of a code point has no quote, unless it is one.                *)
LEMMA PieceHasNoQuote ==
    ASSUME NEW c \in Nat, c <= NumCodes, c # DoubleQuote, NEW i \in 1 .. Len(PieceOf(c))
    PROVE  PieceOf(c)[i] # DoubleQuote
<1> DEFINE u == PieceOf(c)
<1>1. CASE u = <<c>>
  <2>1. i = 1
    BY <1>1
  <2>2. QED
    BY <1>1, <2>1
<1>2. CASE IsEscape(u, c)
  <2> HIDE DEF u
  <2>1. PICK d \in Seq(Ascii) : /\ Len(d) \in 1 .. 5 /\ Len(u) = Len(d) + 4
                                /\ u[1] = Backslash /\ u[2] = 117 /\ u[3] = 123 /\ u[Len(d) + 4] = 125
                                /\ \A j \in 1 .. Len(d) : u[3 + j] = d[j] /\ IsHexDigit(d[j])
    BY <1>2 DEF IsEscape
  <2>2. i \in 1 .. Len(u)
    BY DEF u
  <2>3. CASE i \in {1, 2, 3, Len(d) + 4}
    BY <2>1, <2>3 DEF Backslash, DoubleQuote, u
  <2>4. CASE i \notin {1, 2, 3, Len(d) + 4}
    <3>1. PICK j \in 1 .. Len(d) : i = 3 + j
      <4>1. i - 3 \in 1 .. Len(d) /\ i = 3 + (i - 3)
        BY <2>1, <2>2, <2>4
      <4>2. QED
        BY <4>1
    <3>2. u[i] = d[j] /\ IsHexDigit(d[j])
      BY <2>1, <3>1
    <3>3. d[j] # DoubleQuote
      BY <3>2, QuoteIsNoDigit
    <3>4. QED
      BY <3>2, <3>3 DEF u
  <2>5. QED
    BY <2>3, <2>4
<1>3. QED
  BY <1>1, <1>2, PieceOfFacts

(* Nor has the text of a string without quotes.                            *)
LEMMA TextHasNoQuote ==
    ASSUME NEW s \in CodeSeqs, DoubleQuote \notin Range(s)
    PROVE  \A i \in 1 .. Len(ToText(s)) : ToText(s)[i] # DoubleQuote
<1>1. PICK n \in Nat : n = Len(s)
  BY LenProperties DEF CodeSeqs
<1> DEFINE t == ToText(s)
<1>2. t \in Seq(Ascii) /\ DOMAIN s = 1 .. n
  BY <1>1, TextFacts
<1>3. PICK place : LaidOut(place, PiecesOf(s), t, n)
  BY <1>1, TextFacts
<1> HIDE DEF t
<1>4. /\ place[0] = 0 /\ place[n] = Len(t)
      /\ \A k \in 1 .. n : /\ place[k - 1] \in Nat
                           /\ place[k] = place[k - 1] + Len(PiecesOf(s)[k])
                           /\ Stands(t, place[k - 1], PiecesOf(s)[k])
  BY <1>3 DEF LaidOut
<1>5. ASSUME NEW k \in 1 .. n
      PROVE  /\ PiecesOf(s)[k] \in Seq(Ascii)
             /\ \A i \in 1 .. Len(PiecesOf(s)[k]) : PiecesOf(s)[k][i] # DoubleQuote
  <2>1. PiecesOf(s)[k] = PieceOf(s[k])
    BY <1>2 DEF PiecesOf
  <2>2. s[k] \in Nat /\ s[k] <= NumCodes
    BY <1>1, CodeOf
  <2>3. s[k] # DoubleQuote
    BY <1>2 DEF Range
  <2>4. QED
    BY <2>1, <2>2, <2>3, PieceOfFacts, PieceHasNoQuote
<1> DEFINE Good == {k \in Nat : k <= n => \A i \in 1 .. place[k] : t[i] # DoubleQuote}
<1>6. 0 \in Good
  BY <1>4
<1>7. ASSUME NEW k \in Nat, k \in Good PROVE k + 1 \in Good
  <2>1. SUFFICES ASSUME k + 1 <= n, NEW i \in 1 .. place[k + 1] PROVE t[i] # DoubleQuote
    OBVIOUS
  <2>2. PICK m \in 1 .. n : m = k + 1 /\ m - 1 = k
    BY <2>1
  <2>3. PICK p \in Nat, u \in Seq(Ascii) :
            /\ p = place[k] /\ u = PiecesOf(s)[m] /\ place[m] = p + Len(u) /\ Stands(t, p, u)
            /\ \A j \in 1 .. Len(u) : u[j] # DoubleQuote
    BY <1>4, <1>5, <2>2
  <2>4. CASE i <= p
    BY <1>7, <2>1, <2>3, <2>4
  <2>5. CASE i > p
    <3>1. i \in 1 .. p + Len(u)
      BY <2>1, <2>2, <2>3
    <3>2. i - p \in 1 .. Len(u) /\ i = p + (i - p)
      BY <2>5, <3>1
    <3>3. t[i] = u[i - p]
      BY <2>3, <3>2 DEF Stands
    <3>4. QED
      BY <2>3, <3>2, <3>3
  <2>6. i \in Int
    OBVIOUS
  <2>7. QED
    BY <2>4, <2>5, <2>6
<1>8. \A k \in Nat : k \in Good
  <2> HIDE DEF Good
  <2>1. QED
    BY <1>6, <1>7, Inductive
<1>9. \A i \in 1 .. Len(t) : t[i] # DoubleQuote
  BY <1>4, <1>8
<1>10. QED
  BY <1>9 DEF t

(* A text without quotes between two quotes is a string.                   *)
LEMMA QuotedIsString ==
    ASSUME NEW t, NEW u, NEW k \in Nat, Enclosed(t, DoubleQuote, u, k),
           \A i \in 1 .. k : u[i] # DoubleQuote
    PROVE  IsString(t)
<1>1. PICK n \in Nat : n = k + 2
  OBVIOUS
<1>2. t \in Seq(Int) /\ Len(t) = n /\ n >= 2 /\ t[1] = DoubleQuote /\ t[n] = DoubleQuote
  BY <1>1 DEF Enclosed
<1>3. \A i \in 2 .. n - 1 : t[i] # DoubleQuote
  <2>1. ASSUME NEW i \in 2 .. n - 1 PROVE t[i] # DoubleQuote
    <3>1. i \in 2 .. Len(t) - 1
      BY <1>2
    <3>2. t[i] = u[i - 1] /\ i - 1 \in 1 .. k
      BY <3>1, EnclosedInner
    <3>3. QED
      BY <3>2
  <2>2. QED
    BY <2>1
<1>4. \A i \in 2 .. n + 1 : PairedFrom(t)[i] = IF i >= n THEN i = n
                                             ELSE IF t[i] # DoubleQuote THEN PairedFrom(t)[i + 1]
                                             ELSE t[i + 1] = DoubleQuote /\ i + 1 < n /\ PairedFrom(t)[i + 2]
  BY <1>2, PairedFacts
<1>5. PairedFrom(t)[n] = TRUE
  <2>1. n \in 2 .. n + 1 /\ n >= n
    BY <1>2
  <2>2. PairedFrom(t)[n] = (n = n)
    BY <1>4, <2>1
  <2>3. QED
    BY <2>2
<1>6. ASSUME NEW i \in 2 .. n - 1 PROVE PairedFrom(t)[i] = PairedFrom(t)[i + 1]
  <2>1. i \in 2 .. n + 1 /\ ~(i >= n) /\ t[i] # DoubleQuote
    BY <1>3
  <2>2. QED
    BY <1>4, <2>1
<1> DEFINE Pairs(j) == n - j >= 2 => PairedFrom(t)[n - j] = TRUE
           Good == {j \in Nat : Pairs(j)}
<1>7. 0 \in Good
  BY <1>5
<1>8. ASSUME NEW j \in Nat, j \in Good PROVE j + 1 \in Good
  <2>0. SUFFICES Pairs(j + 1)
    <3> HIDE DEF Pairs
    <3>1. QED
      OBVIOUS
  <2>1. SUFFICES ASSUME n - (j + 1) >= 2 PROVE PairedFrom(t)[n - (j + 1)] = TRUE
    OBVIOUS
  <2>2. PICK i \in 2 .. n - 1 : i = n - (j + 1) /\ i + 1 = n - j
    <3>1. n - (j + 1) \in 2 .. n - 1 /\ (n - (j + 1)) + 1 = n - j
      BY <2>1
    <3>2. QED
      BY <3>1
  <2>3. PairedFrom(t)[i + 1] = TRUE
    BY <1>8, <2>2
  <2>4. PairedFrom(t)[i] = TRUE
    BY <1>6, <2>3
  <2>5. QED
    BY <2>2, <2>4
<1>9. \A j \in Nat : j \in Good
  <2> HIDE DEF Good
  <2>1. QED
    BY <1>7, <1>8, Inductive
<1>10. PairedFrom(t)[2] = TRUE
  <2>1. PICK j \in Nat : j = n - 2 /\ n - j = 2
    <3>1. n - 2 \in Nat /\ n - (n - 2) = 2
      BY <1>2
    <3>2. QED
      BY <3>1
  <2>2. Pairs(j)
    <3> HIDE DEF Pairs
    <3>1. QED
      BY <1>9
  <2>3. QED
    BY <2>1, <2>2
<1>11. QED
  BY <1>2, <1>10 DEF IsString

(* The loop of unescapeString keeps a text without quotes.                 *)
LEMMA UnescapedAsIs ==
    ASSUME NEW t, NEW s \in Seq(Int), s = Inner(t), \A i \in 1 .. Len(s) : s[i] # DoubleQuote
    PROVE  Unescape(t) = s
<1>1. PICK n \in Nat : n = Len(s)
  BY LenProperties
<1>2. PICK f : GoesOn(f, UnescapeMade(s), UnescapeNext(s), n, n + 2) /\ Unescape(t) = f[1]
  BY <1>1, UnescapeUnfolds
<1>3. ASSUME NEW i \in 1 .. n PROVE f[i] = <<s[i]>> \o f[i + 1]
  <2>1. i \in 1 .. n + 2 /\ ~(i > n) /\ i \in 1 .. Len(s)
    BY <1>1
  <2>2. f[i] = UnescapeMade(s)[i] \o f[UnescapeNext(s)[i]]
    BY <1>2, <2>1 DEF GoesOn
  <2>3. UnescapeMade(s)[i] = <<s[i]>> /\ UnescapeNext(s)[i] = i + 1
    BY <2>1 DEF UnescapeMade, UnescapeNext, Quote, DoubleQuote
  <2>4. QED
    BY <2>2, <2>3
<1>4. f[n + 1] = <<>>
  <2>1. n + 1 \in 1 .. n + 2 /\ n + 1 > n
    OBVIOUS
  <2>2. QED
    BY <1>2, <2>1 DEF GoesOn
<1> DEFINE Rests(i) == /\ f[i] \in Seq(Int) /\ Len(f[i]) = (n + 1) - i
                       /\ \A k \in 1 .. (n + 1) - i : f[i][k] = s[(i - 1) + k]
           Good == {j \in Nat : j <= n => Rests((n + 1) - j)}
<1>5. 0 \in Good
  <2>1. Rests(n + 1)
    BY <1>4
  <2>2. (n + 1) - 0 = n + 1
    OBVIOUS
  <2> HIDE DEF Rests
  <2>3. QED
    BY <2>1, <2>2
<1>6. ASSUME NEW j \in Nat, j \in Good PROVE j + 1 \in Good
  <2>1. SUFFICES ASSUME j + 1 <= n PROVE Rests((n + 1) - (j + 1))
    OBVIOUS
  <2>2. PICK i \in 1 .. n : i = (n + 1) - (j + 1) /\ i + 1 = (n + 1) - j
    <3>1. (n + 1) - (j + 1) \in 1 .. n /\ ((n + 1) - (j + 1)) + 1 = (n + 1) - j
      BY <2>1
    <3>2. QED
      BY <3>1
  <2>3. Rests(i + 1)
    BY <1>6, <2>1, <2>2
  <2>4. PICK m \in Nat : m = n - i
    BY <2>2
  <2>5. PICK r \in Seq(Int) : /\ r = f[i + 1] /\ Len(r) = m
                              /\ \A k \in 1 .. m : r[k] = s[i + k]
    <3>1. (n + 1) - (i + 1) = m /\ (i + 1) - 1 = i
      BY <2>4
    <3>2. QED
      BY <2>3, <3>1
  <2>6. PICK c \in Int : c = s[i]
    BY <1>1, ElementOfSeq
  <2>7. f[i] = <<c>> \o r
    BY <1>3, <2>5, <2>6
  <2>8. /\ f[i] \in Seq(Int) /\ Len(f[i]) = m + 1 /\ f[i][1] = c
        /\ \A k \in 2 .. m + 1 : f[i][k] = r[k - 1]
    BY <2>5, <2>7
  <2>9. ASSUME NEW k \in 1 .. m + 1 PROVE f[i][k] = s[(i - 1) + k]
    <3>1. CASE k = 1
      BY <2>6, <2>8, <3>1
    <3>2. CASE k # 1
      <4>1. k \in 2 .. m + 1 /\ k - 1 \in 1 .. m /\ i + (k - 1) = (i - 1) + k
        BY <3>2
      <4>2. f[i][k] = r[k - 1] /\ r[k - 1] = s[i + (k - 1)]
        BY <2>5, <2>8, <4>1
      <4>3. QED
        BY <4>1, <4>2
    <3>3. QED
      BY <3>1, <3>2
  <2>10. (n + 1) - i = m + 1
    BY <2>4
  <2>11. Rests(i)
    BY <2>8, <2>9, <2>10
  <2> HIDE DEF Rests
  <2>12. QED
    BY <2>2, <2>11
<1>7. \A j \in Nat : j \in Good
  <2> HIDE DEF Good
  <2>1. QED
    BY <1>5, <1>6, Inductive
<1>8. f[1] \in Seq(Int) /\ Len(f[1]) = n /\ \A k \in 1 .. n : f[1][k] = s[k]
  <2>1. n \in Good
    BY <1>7
  <2>2. (n + 1) - n = 1 /\ (n + 1) - 1 = n /\ \A k \in 1 .. n : (1 - 1) + k = k
    OBVIOUS
  <2>3. Rests(1)
    <3> HIDE DEF Rests
    <3>1. QED
      BY <2>1, <2>2
  <2>4. QED
    BY <2>2, <2>3
<1>9. f[1] = s
  BY <1>1, <1>8, SeqEqual
<1>10. QED
  BY <1>2, <1>9

(* A printed string without quotes is read as itself.                      *)
LEMMA PrintedStringReads ==
    ASSUME NEW l, IsValue(l), l.kind = "STRING", DoubleQuote \notin Range(l.str)
    PROVE  ReadAs(PrintedLeaf(l), l)
<1>1. PICK s \in CodeSeqs : s = l.str
  BY DEF IsValue, CodeSeqs
<1>2. l = StringOf(s)
  <2>1. l = Literal(l.kind, l.int, l.aux, l.str) /\ l.int = 0 /\ l.aux = 0
    BY DEF IsValue, BitKinds, Rationals
  <2>2. QED
    BY <1>1, <2>1, Zenon DEF StringOf
<1> DEFINE u == ToText(s)
           t == <<DoubleQuote>> \o u \o <<DoubleQuote>>
<1>3. PrintedLeaf(l) = t
  BY <1>1 DEF PrintedLeaf
<1>4. u \in Seq(Ascii) /\ u \in Seq(Int)
  <2>1. PICK n \in Nat : n = Len(s)
    BY LenProperties DEF CodeSeqs
  <2>2. u \in Seq(Ascii)
    BY <2>1, TextFacts
  <2>3. QED
    BY <2>2, AsciiText
<1>5. ToInternal(u) = s
  BY RoundTrip
<1>6. \A i \in 1 .. Len(u) : u[i] # DoubleQuote
  BY <1>1, TextHasNoQuote
<1> HIDE DEF u
<1>7. PICK k \in Nat : k = Len(u)
  BY <1>4, LenProperties
<1>8. Enclosed(t, DoubleQuote, u, k)
  <2>1. DoubleQuote \in Int
    BY DEF DoubleQuote
  <2>2. QED
    BY <1>4, <1>7, <2>1, EnclosedJoined
<1> HIDE DEF t
<1>9. t \in Seq(Int) /\ Len(t) = k + 2 /\ t[1] = DoubleQuote /\ t[k + 2] = DoubleQuote
  BY <1>8 DEF Enclosed
<1>10. IsLexeme(t)
  <2>1. IsString(t)
    BY <1>6, <1>7, <1>8, QuotedIsString
  <2>2. t # <<>>
    BY <1>9
  <2>3. QED
    BY <2>1, <2>2 DEF IsLexeme
<1>11. Unescape(t) = u
  <2>1. u = Inner(t)
    BY <1>8, EnclosedInner DEF Inner
  <2>2. QED
    BY <1>4, <1>6, <2>1, UnescapedAsIs
<1>12. StringLiteral(t) = s
  <2>1. ToInternal(ToText(s)) = s
    BY RoundTrip
  <2>2. QED
    BY <1>5, <1>11, <2>1, Zenon DEF StringLiteral
<1>13. ASSUME NEW i \in 1 .. k + 2 PROVE ~(t[i] > 127)
  <2>1. CASE i \in {1, k + 2}
    BY <1>9, <2>1 DEF DoubleQuote
  <2>2. CASE i \notin {1, k + 2}
    <3>1. i \in 2 .. Len(t) - 1
      BY <1>9, <2>2
    <3>2. t[i] = u[i - 1] /\ i - 1 \in 1 .. Len(u)
      BY <1>7, <1>8, <3>1, EnclosedInner
    <3>3. PICK c \in Ascii : c = u[i - 1]
      BY <1>4, <3>2, ElementOfSeq
    <3>4. c \in Int /\ c <= 127
      BY DEF Ascii
    <3>5. QED
      BY <3>2, <3>3, <3>4
  <2>3. QED
    BY <2>1, <2>2
<1>14. FromString(t) = l
  <2>1. DOMAIN t = 1 .. k + 2
    BY <1>9
  <2>2. ~\E i \in DOMAIN t : t[i] > 127
    BY <1>13, <2>1
  <2>3. QED
    BY <1>2, <1>12, <2>2 DEF FromString
<1>15. ValueOf("STRING_LITERAL", t) = l
  BY <1>14 DEF ValueOf
<1>16. \A tok : IsOfKind(tok, t) => tok = "STRING_LITERAL"
  BY <1>9, KindByFirst
<1>17. ReadAs(t, l)
  BY <1>9, <1>10, <1>15, <1>16 DEF ReadAs, ValueTokens
<1>18. QED
  BY <1>3, <1>17

-----------------------------------------------------------------------------
(* An input that is the printed form of a value *)

(* What is printed has no character that is read as the end.               *)
NoEnd(t) == interactive \/ 255 \notin Range(t)

LEMMA AsciiHasNoEnd == ASSUME NEW t \in Seq(Ascii) PROVE NoEnd(t)
<1>1. DOMAIN t = 1 .. Len(t)
  OBVIOUS
<1>2. ASSUME NEW i \in DOMAIN t PROVE t[i] # 255
  <2>1. t[i] \in Ascii
    BY <1>1, ElementOfSeq
  <2>2. PICK c \in Ascii : c = t[i]
    BY <2>1
  <2>3. c # 255
    BY DEF Ascii
  <2>4. QED
    BY <2>2, <2>3
<1>3. QED
  BY <1>2 DEF NoEnd, Range

(* A number, a bit-vector and a string are printed in ASCII.               *)
LEMMA PrintedPlain ==
    ASSUME NEW l, IsValue(l), l.kind \in LeafKinds \ {"SYMBOL", "DECIMAL"}
    PROVE  PrintedLeaf(l) \in Seq(Ascii)
<1>1. l.int \in Int /\ l.aux \in Nat /\ (l.kind \in BitKinds => l.int \in Nat)
  BY ValueFacts DEF Fits
<1>2. \A t \in Seq(Ascii) : <<Hash, 120>> \o t \in Seq(Ascii) /\ <<Hash, 98>> \o t \in Seq(Ascii)
  <2>1. <<Hash, 120>> \in Seq(Ascii) /\ <<Hash, 98>> \in Seq(Ascii)
    BY DEF Hash, Ascii
  <2>2. QED
    BY <2>1, JoinStands
<1>3. CASE l.kind = "STRING"
  <2>1. PICK s \in CodeSeqs : s = l.str
    BY <1>3 DEF IsValue, CodeSeqs
  <2>2. ToText(s) \in Seq(Ascii)
    <3>1. PICK n \in Nat : n = Len(s)
      BY LenProperties DEF CodeSeqs
    <3>2. QED
      BY <3>1, TextFacts
  <2>3. <<DoubleQuote>> \in Seq(Ascii)
    BY DEF DoubleQuote, Ascii
  <2>4. (<<DoubleQuote>> \o ToText(s)) \o <<DoubleQuote>> \in Seq(Ascii)
    BY <2>2, <2>3, JoinStands
  <2>5. QED
    BY <1>3, <2>1, <2>4 DEF PrintedLeaf
<1>4. CASE l.kind # "STRING"
  <2>1. l.kind \in Rationals \cup BitKinds \cup {"NUMERAL"} /\ l.kind # "DECIMAL"
    BY <1>4 DEF LeafKinds
  <2>2. Printed(l) \in Seq(Ascii)
    BY <1>1, <2>1, PrintedAscii
  <2>3. PrintedLeaf(l) \in {<<Hash, 120>> \o Printed(l), <<Hash, 98>> \o Printed(l), Printed(l)}
    BY <1>4, <2>1 DEF PrintedLeaf, Rationals, BitKinds
  <2>4. QED
    BY <1>2, <2>2, <2>3
<1>5. QED
  BY <1>3, <1>4

(* Nor has a symbol that can be read back.                                 *)
LEMMA SymbolHasNoEnd ==
    ASSUME NEW l, IsValue(l), l.kind = "SYMBOL", ReadsBack(l)
    PROVE  NoEnd(PrintedLeaf(l))
<1>1. PICK s \in CodeSeqs : s = l.str
  BY DEF IsValue, CodeSeqs
<1>2. s \in Seq(Int) /\ Len(s) \in Nat /\ DOMAIN s = 1 .. Len(s)
  <2>1. s \in Seq(Int)
    BY CodesAreIntegers
  <2>2. QED
    BY <2>1
<1>3. Range(s) \cap {Bar, Backslash} = {} /\ NoEnd(s)
  BY <1>1 DEF ReadsBack, NoEnd
<1>4. PrintedLeaf(l) = QuoteSymbol(s)
  BY <1>1 DEF PrintedLeaf
<1> DEFINE t == <<Bar>> \o s \o <<Bar>>
<1>5. PrintedLeaf(l) \in {s, t}
  BY <1>2, <1>3, <1>4, QuoteSymbolIs
<1>6. Enclosed(t, Bar, s, Len(s))
  <2>1. Bar \in Int
    BY DEF Bar
  <2>2. QED
    BY <1>2, <2>1, EnclosedJoined
<1> HIDE DEF t
<1>7. NoEnd(t)
  <2>1. SUFFICES ASSUME 255 \notin Range(s) PROVE 255 \notin Range(t)
    BY <1>3 DEF NoEnd
  <2>2. t \in Seq(Int) /\ Len(t) = Len(s) + 2 /\ t[1] = Bar /\ t[Len(s) + 2] = Bar
    BY <1>6 DEF Enclosed
  <2>3. ASSUME NEW i \in 1 .. Len(s) + 2 PROVE t[i] # 255
    <3>1. CASE i \in {1, Len(s) + 2}
      BY <2>2, <3>1 DEF Bar
    <3>2. CASE i \notin {1, Len(s) + 2}
      <4>1. i \in 2 .. Len(t) - 1
        BY <1>2, <2>2, <3>2
      <4>2. t[i] = s[i - 1] /\ i - 1 \in 1 .. Len(s)
        BY <1>2, <1>6, <4>1, EnclosedInner
      <4>3. s[i - 1] \in Range(s)
        BY <1>2, <4>2 DEF Range
      <4>4. QED
        BY <2>1, <4>2, <4>3
    <3>3. QED
      BY <3>1, <3>2
  <2>4. DOMAIN t = 1 .. Len(s) + 2
    BY <1>2, <2>2
  <2>5. QED
    BY <2>3, <2>4 DEF Range
<1>8. QED
  BY <1>3, <1>5, <1>7

(* Every value that can be read back is printed as one lexeme, from which  *)
(* it is read.                                                             *)
LEMMA PrintedReads ==
    ASSUME normalize = {}, NEW l, IsValue(l), l.kind \in LeafKinds, ReadsBack(l)
    PROVE  ReadAs(PrintedLeaf(l), l) /\ NoEnd(PrintedLeaf(l))
<1>1. l.kind \in {"RATIONAL", "HEXADECIMAL", "BINARY", "NUMERAL", "STRING", "SYMBOL"}
  <2>1. l.kind # "DECIMAL"
    <3>1. SUFFICES ASSUME l.kind = "DECIMAL" PROVE FALSE
      OBVIOUS
    <3>2. ReadsBack(l) = (l.kind # "DECIMAL")
      BY <3>1 DEF ReadsBack
    <3>3. QED
      BY <3>1, <3>2
  <2>2. QED
    BY <2>1 DEF LeafKinds, Rationals, BitKinds
<1>2. CASE l.kind # "SYMBOL"
  <2>1. NoEnd(PrintedLeaf(l))
    BY <1>1, <1>2, PrintedPlain, AsciiHasNoEnd
  <2>2. CASE l.kind = "NUMERAL"
    BY <2>1, <2>2, PrintedNumeralReads
  <2>3. CASE l.kind = "RATIONAL"
    BY <2>1, <2>3, PrintedRationalReads
  <2>4. CASE l.kind = "BINARY"
    <3>1. l.aux > 0
      BY <2>4 DEF ReadsBack
    <3>2. QED
      BY <2>1, <2>4, <3>1, BinaryReads
  <2>5. CASE l.kind = "HEXADECIMAL"
    <3>1. l.aux > 0 /\ l.aux = 4 * Len(Printed(l))
      BY <2>5 DEF ReadsBack
    <3>2. QED
      BY <2>1, <2>5, <3>1, HexadecimalReads
  <2>6. CASE l.kind = "STRING"
    <3>1. DoubleQuote \notin Range(l.str)
      BY <2>6 DEF ReadsBack
    <3>2. QED
      BY <2>1, <2>6, <3>1, PrintedStringReads
  <2>7. QED
    BY <1>1, <1>2, <2>2, <2>3, <2>4, <2>5, <2>6
<1>3. CASE l.kind = "SYMBOL"
  BY <1>3, PrintedSymbolReads, SymbolHasNoEnd
<1>4. QED
  BY <1>2, <1>3

-----------------------------------------------------------------------------
(* An input that is one lexeme *)

(* The whole input is one lexeme, read as l.                               *)
Alone(l) == ReadAs(text, l) /\ NoEnd(text) /\ text \in Seq(Bytes)

LEMMA FirstIsNoBlank ==
    ASSUME NEW c \in Int,
           c \in {40, 41} \cup SymbolStart \cup DecimalDigits \cup {Bar, DoubleQuote, Hash, Colon}
    PROVE  c \notin Whitespace \cup {Semicolon}
BY DEF Whitespace, Newline, Semicolon, SymbolStart, Letters, ExtraSymbolChars, DecimalDigits, Bar,
       DoubleQuote, Hash, Colon

LEMMA WholeText ==
    ASSUME NEW l, Alone(l)
    PROVE  /\ Len(text) \in Nat /\ Len(text) >= 1
           /\ text \in LexemesAt(0) /\ IsLexeme(text)
           /\ text[1] \notin Whitespace \cup {Semicolon}
<1>1. text \in Seq(Int) /\ IsLexeme(text) /\ text \in Seq(Bytes)
  BY DEF Alone, ReadAs
<1>2. text # <<>> /\ text[1] \in Int /\ ByFirst(text)
  BY <1>1, LexemeKind
<1>3. Len(text) \in Nat /\ Len(text) >= 1
  BY <1>1, <1>2
<1>4. text \in LexemesAt(0)
  <2>1. SubSeq(text, 1, Len(text)) = text
    <3>1. Stands(text, 0, text) /\ 0 + Len(text) <= Len(text)
      BY <1>3 DEF Stands
    <3>2. PICK n \in Nat, p \in Nat : n = Len(text) /\ p = 0
      BY <1>3
    <3>3. SubSeq(text, p + 1, p + n) = text
      BY <1>1, <3>1, <3>2, PartIs
    <3>4. p + 1 = 1 /\ p + n = Len(text)
      BY <3>2
    <3>5. QED
      BY <3>3, <3>4
  <2>2. Len(text) \in 0 + 1 .. Len(text) /\ 0 + 1 = 1
    BY <1>3
  <2>3. QED
    BY <1>1, <2>1, <2>2 DEF LexemesAt
<1>5. text[1] \notin Whitespace \cup {Semicolon}
  <2>1. PICK c \in Int : c = text[1]
    BY <1>2
  <2>2. c \in {40, 41} \cup SymbolStart \cup DecimalDigits \cup {Bar, DoubleQuote, Hash, Colon}
    BY <1>2, <2>1 DEF ByFirst
  <2>3. QED
    BY <2>1, <2>2, FirstIsNoBlank
<1>6. QED
  BY <1>1, <1>3, <1>4, <1>5

(* Nothing is passed over before it.                                       *)
LEMMA NothingPassed ==
    ASSUME NEW l, Alone(l), NEW q \in Int, Blank(0, q)
    PROVE  q = 0
<1>1. text[1] \notin Whitespace \cup {Semicolon}
  BY WholeText
<1>2. 0 <= q
  BY DEF Blank
<1>3. ASSUME q >= 1 PROVE FALSE
  <2>1. 1 \in 0 + 1 .. q
    BY <1>3
  <2>2. \/ text[1] \in Whitespace
        \/ \E k \in 0 + 1 .. 1 : text[k] = Semicolon
    BY <2>1 DEF Blank
  <2>3. \A k \in 0 + 1 .. 1 : k = 1
    OBVIOUS
  <2>4. QED
    BY <1>1, <2>2, <2>3
<1>4. QED
  BY <1>2, <1>3

(* After it there is no lexeme.                                            *)
LEMMA NothingAfter ==
    ASSUME NEW l, Alone(l), NEW p \in Nat, p >= Len(text)
    PROVE  LexemesAt(p) = {}
<1>1. Len(text) \in Nat
  BY WholeText
<1>2. p + 1 .. Len(text) = {}
  BY <1>1
<1>3. QED
  BY <1>2 DEF LexemesAt

(* The end is not told before the text is over.                            *)
LEMMA EndIsLast ==
    ASSUME NEW l, Alone(l), NEW q \in Nat, EndAt(q), q <= Len(text)
    PROVE  q = Len(text)
<1>1. Len(text) \in Nat /\ DOMAIN text = 1 .. Len(text)
  <2>1. text \in Seq(Bytes)
    BY DEF Alone
  <2>2. QED
    BY <2>1
<1>2. ASSUME q < Len(text) PROVE FALSE
  <2>1. ~interactive /\ text[q + 1] = 255
    BY <1>2 DEF EndAt
  <2>2. q + 1 \in DOMAIN text
    BY <1>1, <1>2
  <2>3. 255 \in Range(text)
    BY <2>1, <2>2 DEF Range
  <2>4. QED
    BY <2>1, <2>3 DEF Alone, NoEnd
<1>3. PICK n \in Nat : n = Len(text)
  BY <1>1
<1>4. QED
  BY <1>2, <1>3

(* The first token is the whole text.                                      *)
LEMMA FirstToken ==
    ASSUME NEW l, Alone(l), NEW made \in Tokens, AsSpecified(made, 0)
    PROVE  /\ made.str = text /\ made.first = 0
           /\ made.token \in ValueTokens /\ ValueOf(made.token, text) = l
<1>1. made.first \in Int /\ made.str \in Seq(Int) /\ made.token \in TokenKinds
  BY DEF Tokens
<1>2. Len(made.str) \in Nat
  BY <1>1
<1>3. Len(text) \in Nat /\ Len(text) >= 1 /\ text \in LexemesAt(0) /\ IsLexeme(text)
  BY WholeText
<1>4. made.token # "EOF_TOK"
  <2>1. SUFFICES ASSUME made.token = "EOF_TOK" PROVE FALSE
    OBVIOUS
  <2>2. 0 > Len(text) \/ \E e \in 0 .. Len(text) : EndAt(e) /\ Blank(0, e)
    BY <2>1 DEF AsSpecified
  <2>3. PICK e \in 0 .. Len(text) : EndAt(e) /\ Blank(0, e)
    BY <1>3, <2>2
  <2>4. e \in Nat /\ e \in Int /\ e <= Len(text)
    BY <1>3
  <2>5. e = 0 /\ e = Len(text)
    BY <2>3, <2>4, NothingPassed, EndIsLast
  <2>6. QED
    BY <1>3, <2>5
<1>5. made.first = 0
  <2>1. Blank(0, made.first)
    BY <1>4 DEF AsSpecified
  <2>2. QED
    BY <1>1, <2>1, NothingPassed
<1>6. made.token \notin Unterminated
  <2>1. SUFFICES ASSUME made.token \in Unterminated PROVE FALSE
    OBVIOUS
  <2>2. PICK q \in Nat : q = Len(made.str) /\ q = made.first + Len(made.str)
    BY <1>2, <1>5
  <2>3. /\ made.str = SubSeq(text, made.first + 1, q) /\ q <= Len(text) /\ EndAt(q)
        /\ ~IsLexeme(made.str)
    BY <2>1, <2>2 DEF AsSpecified
  <2>4. q = Len(text)
    BY <2>3, EndIsLast
  <2>5. made.str = text
    <3>1. text \in Seq(Bytes)
      BY DEF Alone
    <3>2. SubSeq(text, 1, Len(text)) = text
      BY <3>1
    <3>3. made.first + 1 = 1
      BY <1>5
    <3>4. QED
      BY <2>3, <2>4, <3>2, <3>3
  <2>6. QED
    BY <1>3, <2>3, <2>5
<1>7. Longest(made.first, made.str) /\ IsOfKind(made.token, made.str)
  BY <1>4, <1>6 DEF AsSpecified
<1>8. made.str = text
  <2>1. made.str \in LexemesAt(0) /\ Len(text) <= Len(made.str)
    BY <1>3, <1>5, <1>7 DEF Longest
  <2>2. PICK q \in 0 + 1 .. Len(text) : made.str = SubSeq(text, 0 + 1, q)
    BY <2>1 DEF LexemesAt
  <2>3. text \in Seq(Bytes)
    BY DEF Alone
  <2>4. Len(made.str) = q
    BY <1>3, <2>2, <2>3
  <2>5. q = Len(text)
    BY <1>3, <2>1, <2>4
  <2>6. SubSeq(text, 1, Len(text)) = text
    BY <2>3
  <2>7. QED
    BY <2>2, <2>5, <2>6
<1>9. QED
  BY <1>5, <1>7, <1>8 DEF Alone, ReadAs

(* The second one is the end of the input.                                 *)
LEMMA SecondToken ==
    ASSUME NEW l, Alone(l), NEW made \in Tokens, AsSpecified(made, Len(text))
    PROVE  made.token = "EOF_TOK"
<1>1. SUFFICES ASSUME made.token # "EOF_TOK" PROVE FALSE
  OBVIOUS
<1>2. made.first \in Int /\ made.str \in Seq(Int)
  BY DEF Tokens
<1>3. Len(made.str) \in Nat /\ Len(text) \in Nat
  BY <1>2, WholeText
<1>4. made.first >= Len(text) /\ made.first \in Nat
  <2>1. Len(text) <= made.first
    BY <1>1 DEF AsSpecified, Blank
  <2>2. QED
    BY <1>2, <1>3, <2>1
<1>5. made.token \in Unterminated
  <2>1. SUFFICES ASSUME made.token \notin Unterminated PROVE FALSE
    OBVIOUS
  <2>2. made.str \in LexemesAt(made.first)
    BY <1>1, <2>1 DEF AsSpecified, Longest
  <2>3. QED
    BY <1>4, <2>2, NothingAfter
<1>6. made.str # <<>> /\ made.first + Len(made.str) <= Len(text)
  BY <1>5 DEF AsSpecified
<1>7. Len(made.str) >= 1
  BY <1>2, <1>6
<1>8. QED
  BY <1>3, <1>4, <1>6, <1>7

(* No error is reported, neither at the beginning nor after the lexeme.    *)
LEMMA NoErrorFound ==
    ASSUME NEW l, Alone(l), NEW p \in Int, NEW e \in {0, Len(text)}, Blank(e, p), ErrorAsSpecified(p)
    PROVE  FALSE
<1>1. Len(text) \in Nat /\ Len(text) >= 1 /\ text \in LexemesAt(0)
  BY WholeText
<1>2. e <= p /\ p < Len(text)
  BY DEF Blank, ErrorAsSpecified
<1>3. e = 0
  BY <1>1, <1>2
<1>4. p = 0
  BY <1>3, NothingPassed
<1>5. Longest(0, text)
  <2>1. ASSUME NEW u \in LexemesAt(0) PROVE Len(u) <= Len(text)
    <3>1. text \in Seq(Bytes)
      BY DEF Alone
    <3>2. 0 \in Nat /\ 0 + Len(u) <= Len(text) /\ Len(u) \in Nat
      BY <3>1, LexemeOfText
    <3>3. QED
      BY <1>1, <3>2
  <2>2. QED
    BY <1>1, <2>1 DEF Longest
<1>6. 0 + Len(text) < Len(text)
  BY <1>1, <1>4, <1>5 DEF ErrorAsSpecified
<1>7. QED
  BY <1>1, <1>6

-----------------------------------------------------------------------------
(* What is printed is read back *)

(* The text is the printed form of a value that can be read back.          *)
Expected == meant # NoLiteral /\ normalize = {} /\ ReadsBack(meant)

(* Before the value is made no token but the first, which is the text, has *)
(* been made; after it there is no token but the end.                      *)
PrintedInv ==
    Expected =>
        /\ meant \in Printables /\ text = PrintedLeaf(meant)
        /\ values \in {<<>>, <<meant>>}
        /\ values = <<>> => /\ Len(produced) <= 1
                            /\ Waiting => produced = <<>>
                            /\ mode = "idle" /\ produced # <<>> => token = text
        /\ Len(produced) <= 2
        /\ mode # "idle" => Len(produced) <= 1

(* What the steps of the reader begin with.                                *)
PrintedState == LexInv /\ LexemeInv /\ PrintedInv /\ Expected

LEMMA TextAlone ==
    ASSUME PrintedState
    PROVE  Alone(meant)
<1>1. normalize = {} /\ ReadsBack(meant) /\ meant \in Printables /\ text = PrintedLeaf(meant)
  BY DEF PrintedState, PrintedInv, Expected
<1>2. IsValue(meant) /\ meant.kind \in LeafKinds /\ PrintedLeaf(meant) \in Seq(Bytes)
  BY <1>1, InputsAreBytes
<1>3. ReadAs(PrintedLeaf(meant), meant) /\ NoEnd(PrintedLeaf(meant))
  BY <1>1, <1>2, PrintedReads
<1>4. QED
  BY <1>1, <1>2, <1>3 DEF Alone

(* The tokens that were made.                                              *)
LEMMA MadeOfText ==
    ASSUME PrintedState
    PROVE  /\ Len(produced) \in 0 .. 2
           /\ Len(produced) >= 1 => /\ produced[1].token \in ValueTokens
                                    /\ ValueOf(produced[1].token, text) = meant
           /\ Len(produced) = 2 => produced[2].token = "EOF_TOK"
           /\ Len(produced) <= 1 => LastEnd \in {0, Len(text)}
<1>1. produced \in Seq(Tokens) /\ Len(produced) <= 2 /\ TokensRight
  BY DEF PrintedState, LexInv, LexTypes, PrintedInv, LexemeInv
<1>2. PICK n \in Nat : n = Len(produced) /\ n <= 2
  BY <1>1
<1>3. PICK l : l = meant /\ Alone(l)
  BY TextAlone
<1>4. Len(text) \in Nat
  BY <1>3, WholeText
<1>5. ASSUME n >= 1
      PROVE  /\ produced[1].str = text /\ produced[1].first = 0
             /\ produced[1].token \in ValueTokens /\ ValueOf(produced[1].token, text) = l
  <2>1. 1 \in 1 .. n
    BY <1>2, <1>5
  <2>2. PICK made \in Tokens : made = produced[1]
    BY <1>1, <1>2, <2>1, ElementOfSeq
  <2>3. EndBefore(1) = 0
    BY DEF EndBefore
  <2>4. AsSpecified(made, 0)
    BY <1>1, <1>2, <2>1, <2>2, <2>3 DEF TokensRight
  <2>5. QED
    BY <1>3, <2>2, <2>4, FirstToken
<1>6. ASSUME n >= 1 PROVE EndBefore(2) = Len(text)
  <2>1. Beyond(produced[1].token, produced[1].str) = 0
    BY <1>5, <1>6 DEF Beyond, ValueTokens, Unterminated
  <2>2. EndBefore(2) = EndOf(produced[1])
    <3>1. PICK q \in Nat : q = 2 /\ q # 1 /\ q - 1 = 1
      OBVIOUS
    <3>2. EndBefore(q) = EndOf(produced[q - 1])
      BY <3>1 DEF EndBefore
    <3>3. QED
      BY <3>1, <3>2
  <2>3. EndOf(produced[1]) = 0 + Len(text) + 0
    BY <1>5, <1>6, <2>1 DEF EndOf
  <2>4. QED
    BY <1>4, <2>2, <2>3
<1>7. ASSUME n = 2 PROVE produced[2].token = "EOF_TOK"
  <2>1. 2 \in 1 .. n
    BY <1>2, <1>7
  <2>2. PICK made \in Tokens : made = produced[2]
    BY <1>1, <1>2, <2>1, ElementOfSeq
  <2>3. AsSpecified(made, Len(text))
    BY <1>1, <1>2, <1>6, <1>7, <2>1, <2>2 DEF TokensRight
  <2>4. QED
    BY <1>3, <2>2, <2>3, SecondToken
<1>8. ASSUME n <= 1 PROVE LastEnd \in {0, Len(text)}
  <2>1. CASE n = 0
    <3>1. Len(produced) + 1 = 1
      BY <1>2, <2>1
    <3>2. QED
      BY <3>1 DEF LastEnd, EndBefore
  <2>2. CASE n = 1
    <3>1. Len(produced) + 1 = 2
      BY <1>2, <2>2
    <3>2. QED
      BY <1>6, <2>2, <3>1 DEF LastEnd
  <2>3. QED
    BY <1>2, <1>8, <2>1, <2>2
<1>9. QED
  BY <1>2, <1>3, <1>5, <1>7, <1>8

(* The lexer finds nothing wrong.                                          *)
LEMMA NothingWrong ==
    ASSUME PrintedState
    PROVE  mode # "error"
<1>1. SUFFICES ASSUME mode = "error" PROVE FALSE
  OBVIOUS
<1>2. Len(produced) <= 1 /\ Blank(LastEnd, span.first) /\ ErrorAsSpecified(span.first)
  BY <1>1 DEF PrintedState, PrintedInv, LexemeInv
<1>3. span.first \in Int
  BY DEF PrintedState, LexInv, LexTypes, Spans
<1>4. PICK p \in Int, e \in {0, Len(text)} : p = span.first /\ e = LastEnd
  BY <1>2, <1>3, MadeOfText
<1>5. Blank(e, p) /\ ErrorAsSpecified(p)
  BY <1>2, <1>4
<1>6. QED
  BY <1>5, TextAlone, NoErrorFound

(* The tokens that were handed out are the first ones made.                *)
LEMMA HandedFirst ==
    ASSUME NEW d \in Seq(Tokens), NEW p \in Seq(Tokens), NEW m \in Seq(Tokens), d \o Reverse(p) = m
    PROVE  /\ Len(d) \in Nat /\ Len(d) <= Len(m)
           /\ \A i \in 1 .. Len(d) : d[i] = m[i]
           /\ p = <<>> => d = m
<1>1. PICK u \in Seq(Tokens) : u = Reverse(p)
  BY ReverseFacts
<1>2. d \o u = m
  BY <1>1
<1>3. Len(m) = Len(d) + Len(u) /\ Len(d) \in Nat /\ Len(u) \in Nat
  <2>1. Len(d \o u) = Len(d) + Len(u) /\ Len(d) \in Nat /\ Len(u) \in Nat
    OBVIOUS
  <2>2. QED
    BY <1>2, <2>1
<1>4. \A i \in 1 .. Len(d) : d[i] = m[i]
  BY <1>2
<1>5. ASSUME p = <<>> PROVE d = m
  <2>1. d \o Reverse(<<>>) = d
    BY NothingReversed
  <2>2. QED
    BY <1>5, <2>1
<1>6. QED
  BY <1>3, <1>4, <1>5

(* The token handed out last.                                              *)
LEMMA HeldOfText ==
    ASSUME PrintedState, delivered # <<>>
    PROVE  /\ Len(delivered) \in {1, 2} /\ Len(delivered) <= Len(produced)
           /\ Len(delivered) = 1 => /\ Last(delivered).token \in ValueTokens
                                    /\ ValueOf(Last(delivered).token, text) = meant
           /\ Len(delivered) = 2 => Last(delivered).token = "EOF_TOK"
<1>1. /\ delivered \in Seq(Tokens) /\ peeked \in Seq(Tokens) /\ produced \in Seq(Tokens)
      /\ delivered \o Reverse(peeked) = produced
  BY DEF PrintedState, LexInv, LexTypes, OrderInv
<1>2. /\ Len(delivered) <= Len(produced)
      /\ \A i \in 1 .. Len(delivered) : delivered[i] = produced[i]
  BY <1>1, HandedFirst
<1>3. PICK n \in Nat, m \in Nat : n = Len(delivered) /\ m = Len(produced) /\ n >= 1 /\ n <= m /\ m <= 2
  <2>1. Len(delivered) \in Nat /\ Len(delivered) >= 1
    BY <1>1
  <2>2. PICK k \in 0 .. 2 : k = Len(produced)
    BY MadeOfText
  <2>3. k \in Nat /\ k <= 2
    OBVIOUS
  <2>4. QED
    BY <1>2, <2>1, <2>2, <2>3
<1>4. n \in 1 .. n /\ n \in {1, 2}
  BY <1>3
<1>5. Last(delivered) = produced[n]
  BY <1>2, <1>3, <1>4 DEF Last
<1>6. ASSUME n = 1
      PROVE  Last(delivered).token \in ValueTokens /\ ValueOf(Last(delivered).token, text) = meant
  <2>1. Len(produced) >= 1
    BY <1>3
  <2>2. Last(delivered) = produced[1]
    BY <1>5, <1>6
  <2>3. QED
    BY <2>1, <2>2, MadeOfText
<1>7. ASSUME n = 2 PROVE Last(delivered).token = "EOF_TOK"
  <2>1. Len(produced) = 2
    BY <1>3, <1>7
  <2>2. Last(delivered) = produced[2]
    BY <1>5, <1>7
  <2>3. QED
    BY <2>1, <2>2, MadeOfText
<1>8. QED
  BY <1>3, <1>4, <1>6, <1>7

(* There is at most one value, and when there is none at most one token.   *)
LEMMA ValuesOfText ==
    ASSUME PrintedState
    PROVE  /\ values = <<>> \/ values = <<meant>>
           /\ values = <<>> => Len(values) = 0
           /\ values = <<meant>> => Len(values) = 1 /\ values # <<>>
           /\ values = <<>> => Len(produced) <= 1
<1>1. Len(<<>>) = 0 /\ Len(<<meant>>) = 1
  OBVIOUS
<1>2. QED
  BY <1>1 DEF PrintedState, PrintedInv

(* A token of which no value was made is the first, or the end.            *)
LEMMA UnreadOfText ==
    ASSUME PrintedState, Unread
    PROVE  /\ delivered # <<>> /\ Last(delivered).token \notin {"LPAREN", "RPAREN"}
           /\ ~AtEnd => /\ values = <<>> /\ Len(delivered) = 1 /\ Len(produced) = 1
                        /\ ValueOf(Last(delivered).token, text) = meant
<1>1. delivered \in Seq(Tokens)
  BY DEF PrintedState, LexInv, LexTypes
<1>2. PICK d \in Nat, v \in Nat : d = Len(delivered) /\ v = Len(values) /\ v < d
  BY <1>1, ValuesOfText DEF Unread
<1>3. delivered # <<>>
  BY <1>2
<1>4. Last(delivered).token \in ValueTokens \cup {"EOF_TOK"}
  BY <1>3, HeldOfText
<1>5. ASSUME ~AtEnd
      PROVE  /\ values = <<>> /\ Len(delivered) = 1 /\ Len(produced) = 1
             /\ ValueOf(Last(delivered).token, text) = meant
  <2>1. Last(delivered).token # "EOF_TOK"
    BY <1>3, <1>5 DEF AtEnd
  <2>2. d = 1 /\ d <= Len(produced) /\ ValueOf(Last(delivered).token, text) = meant
    BY <1>2, <1>3, <2>1, HeldOfText
  <2>3. values = <<>>
    BY <1>2, <2>2, ValuesOfText
  <2>4. Len(produced) \in 0 .. 2 /\ Len(produced) <= 1
    BY <2>3, MadeOfText, ValuesOfText
  <2>5. QED
    BY <1>2, <2>2, <2>3, <2>4
<1>6. QED
  BY <1>3, <1>4, <1>5 DEF ValueTokens

-----------------------------------------------------------------------------
(* The steps of the reader *)

(* A call begins.                                                          *)
LEMMA CallPrinted ==
    ASSUME PrintedState, Call
    PROVE  PrintedInv'
<1>1. UNCHANGED <<normalize, meant, values>> /\ ~Unread
  BY DEF Call, readerVars
<1>2. CASE peeked # <<>>
  <2>1. TakePeeked /\ mode = "idle"
    BY <1>2 DEF Call, NextToken, PeekToken
  <2>2. UNCHANGED <<text, interactive, token, mode, produced>>
    BY <2>1 DEF TakePeeked, streamVars
  <2>3. QED
    BY <1>1, <2>1, <2>2 DEF PrintedState, PrintedInv, Expected, ReadsBack, Waiting
<1>3. CASE peeked = <<>>
  <2>1. \E call : Begin(call)
    BY <1>3 DEF Call, NextToken, PeekToken
  <2>2. UNCHANGED <<text, interactive, produced>> /\ mode' = "skip"
    BY <2>1 DEF Begin, streamVars, tokenVars
  <2>3. delivered = produced /\ produced \in Seq(Tokens)
    BY <1>3, HandedFirst DEF PrintedState, LexInv, LexTypes, OrderInv
  <2>4. PICK n \in Nat : n = Len(produced) /\ n <= Len(values)
    BY <1>1, <2>3, ValuesOfText DEF Unread
  <2>5. Len(produced) <= 1 /\ (values = <<>> => produced = <<>>)
    <3>1. CASE values = <<>>
      <4>1. Len(values) = 0
        BY <3>1, ValuesOfText
      <4>2. n = 0
        BY <2>4, <4>1
      <4>3. Len(produced) = 0 /\ Len(produced) <= 1
        BY <2>4, <4>2
      <4>4. produced = <<>>
        BY <2>3, <4>3
      <4>5. QED
        BY <4>3, <4>4
    <3>2. CASE values = <<meant>>
      <4>1. Len(values) = 1 /\ values # <<>>
        BY <3>2, ValuesOfText
      <4>2. n <= 1
        BY <2>4, <4>1
      <4>3. QED
        BY <2>4, <4>1, <4>2
    <3>3. QED
      BY <3>1, <3>2, ValuesOfText
  <2>6. Len(produced) <= 2
    BY <2>4, <2>5
  <2>7. QED
    BY <1>1, <2>2, <2>5, <2>6 DEF PrintedState, PrintedInv, Expected, ReadsBack, Waiting
<1>4. QED
  BY <1>2, <1>3

(* The token is put back before its value is made.                         *)
LEMMA PutBackPrinted ==
    ASSUME PrintedState, PutBack
    PROVE  PrintedInv'
<1>1. /\ UNCHANGED <<normalize, meant, text, interactive, token, mode, produced>>
      /\ delivered # <<>> /\ ~AtEnd /\ mode = "idle"
      /\ delivered' = Front(delivered) /\ values' = SubSeq(values, 1, Len(delivered'))
  BY DEF PutBack, ReinsertToken, streamVars
<1>2. Unread
  <2>1. SUFFICES ASSUME Last(delivered).token \in {"LPAREN", "RPAREN"} PROVE FALSE
    BY DEF PutBack
  <2>2. Last(delivered).token \in ValueTokens \cup {"EOF_TOK"}
    BY <1>1, HeldOfText
  <2>3. QED
    BY <2>1, <2>2 DEF ValueTokens
<1>3. values = <<>> /\ Len(delivered) = 1
  BY <1>1, <1>2, UnreadOfText
<1>4. values' = <<>>
  <2>1. delivered \in Seq(Tokens)
    BY DEF PrintedState, LexInv, LexTypes
  <2>2. Len(delivered') = Len(delivered) - 1
    BY <1>1, <2>1, FrontFacts
  <2>3. Len(delivered') = 0
    BY <1>3, <2>2
  <2>4. SubSeq(<<>>, 1, 0) = <<>>
    OBVIOUS
  <2>5. QED
    BY <1>1, <1>3, <2>3, <2>4
<1>5. QED
  BY <1>1, <1>3, <1>4 DEF PrintedState, PrintedInv, Expected, ReadsBack, Waiting

(* A character is read.                                                    *)
LEMMA ScanPrinted ==
    ASSUME PrintedState, Scanning, LexInv', LexemeInv'
    PROVE  PrintedInv'
<1>1. UNCHANGED <<normalize, meant, values, text, interactive>> /\ UNCHANGED streamVars /\ Scan
  BY DEF Scanning, readerVars, Scan, streamVars
<1>2. PICK r : Waiting /\ Does(r)
  BY <1>1, ScanDoes DEF PrintedState
<1>3. /\ Len(produced) <= 1 /\ (values = <<>> => produced = <<>>)
      /\ produced \in Seq(Tokens)
  BY <1>2 DEF PrintedState, PrintedInv, Waiting, LexInv, LexTypes
<1>4. \/ produced' = produced /\ mode' # "idle"
      \/ \E made : /\ produced' = Append(produced, made) /\ mode' = "idle"
                   /\ token' = made.str
  <2>1. CASE \E tok, s : Return(r, tok, s)
    BY <2>1 DEF Return
  <2>2. CASE produced' = produced /\ mode' # "idle"
    BY <2>2
  <2>3. QED
    BY <1>2, <2>1, <2>2 DEF Does, Goes, Finishes, Begins, Fails, tokenVars
<1>5. CASE produced' = produced /\ mode' # "idle"
  <2>1. Len(produced') <= 2
    BY <1>3, <1>5
  <2>2. QED
    BY <1>1, <1>3, <1>5, <2>1 DEF PrintedState, PrintedInv, Expected, ReadsBack
<1>6. ASSUME NEW made, produced' = Append(produced, made), mode' = "idle", token' = made.str
      PROVE  PrintedInv'
  <2>1. PICK new \in Seq(Tokens) : new = produced'
    BY DEF LexInv, LexTypes
  <2>2. Len(new) = Len(produced) + 1 /\ new[Len(produced) + 1] = made /\ Len(produced) \in Nat
    BY <1>3, <1>6, <2>1
  <2>3. Len(produced') <= 2
    BY <1>3, <2>1, <2>2
  <2>4. ASSUME values = <<>> PROVE Len(produced') <= 1 /\ token' = text'
    <3>1. Len(produced) = 0
      BY <1>3, <2>4
    <3>2. Len(new) = 1 /\ new[1] = made /\ 1 \in 1 .. Len(new)
      BY <2>2, <3>1
    <3>3. made \in Tokens
      BY <2>1, <3>2, ElementOfSeq
    <3>4. EndBefore(1)' = 0
      BY DEF EndBefore
    <3>5. AsSpecified(made, 0)'
      BY <2>1, <3>2, <3>4 DEF LexemeInv, TokensRight
    <3>6. AsSpecified(made, 0)
      BY <1>1, <3>5, TextStays
    <3>7. made.str = text
      BY <3>3, <3>6, TextAlone, FirstToken
    <3>8. QED
      BY <1>1, <1>6, <2>1, <3>2, <3>7
  <2>5. QED
    BY <1>1, <1>6, <2>3, <2>4 DEF PrintedState, PrintedInv, Expected, ReadsBack, Waiting
<1>7. QED
  BY <1>4, <1>5, <1>6

(* The value is made of the first token.                                   *)
LEMMA ReadPrinted ==
    ASSUME PrintedState, ReadLiteral
    PROVE  PrintedInv'
<1>1. /\ UNCHANGED <<normalize, meant, text, interactive, mode, produced>>
      /\ mode = "idle" /\ Unread /\ ~AtEnd
      /\ values' = Append(values, ValueOf(Last(delivered).token, token))
  BY DEF ReadLiteral, lexVars
<1>2. values = <<>> /\ Len(produced) = 1 /\ ValueOf(Last(delivered).token, text) = meant
  BY <1>1, UnreadOfText
<1>3. token = text
  <2>1. produced # <<>>
    BY <1>2
  <2>2. QED
    BY <1>1, <1>2, <2>1 DEF PrintedState, PrintedInv
<1>4. values' = <<meant>> /\ values' # <<>>
  <2>1. Append(<<>>, meant) = <<meant>> /\ <<meant>> # <<>>
    OBVIOUS
  <2>2. QED
    BY <1>1, <1>2, <1>3, <2>1
<1>5. QED
  BY <1>1, <1>2, <1>4 DEF PrintedState, PrintedInv, Expected, ReadsBack

LEMMA PrintedInvInit ==
    ASSUME ReaderInit
    PROVE  PrintedInv
<1>1. SUFFICES ASSUME Expected PROVE PrintedInv
  BY DEF PrintedInv
<1>2. meant \in Printables /\ text = PrintedLeaf(meant) /\ values = <<>>
  BY <1>1 DEF ReaderInit, Expected
<1>3. produced = <<>> /\ Len(<<>>) = 0
  BY DEF ReaderInit, Init
<1>4. Len(produced) <= 1 /\ Len(produced) <= 2
  BY <1>3
<1>5. QED
  BY <1>2, <1>3, <1>4 DEF PrintedInv

LEMMA PrintedInvNext ==
    ASSUME LexInv, LexemeInv, PrintedInv, [Next]_vars, LexInv', LexemeInv'
    PROVE  PrintedInv'
<1>1. UNCHANGED <<meant, normalize, interactive>>
  <2>1. CASE Call
    BY <2>1 DEF Call, NextToken, PeekToken, Begin, TakePeeked, readerVars, streamVars
  <2>2. CASE PutBack
    BY <2>2 DEF PutBack, ReinsertToken, streamVars
  <2>3. CASE Scanning
    BY <2>3 DEF Scanning, Scan, readerVars, streamVars
  <2>4. CASE ReadLiteral \/ ReadParenthesis \/ (\E k \in AllOps : Apply(k)) \/ UNCHANGED vars
    BY <2>4 DEF ReadLiteral, ReadParenthesis, Apply, lexVars, vars, readerVars
  <2>5. QED
    BY <2>1, <2>2, <2>3, <2>4 DEF Next
<1>2. Expected' => Expected
  BY <1>1 DEF Expected, ReadsBack
<1>3. CASE ~Expected
  BY <1>2, <1>3 DEF PrintedInv
<1>4. CASE Expected
  <2>1. PrintedState
    BY <1>4 DEF PrintedState
  <2>2. CASE ReadParenthesis
    BY <2>1, <2>2, UnreadOfText DEF ReadParenthesis
  <2>3. CASE \E k \in AllOps : Apply(k)
    <3>1. text = <<>>
      BY <2>3 DEF Apply
    <3>2. Len(text) >= 1
      BY <2>1, TextAlone, WholeText
    <3>3. QED
      BY <3>1, <3>2
  <2>4. CASE UNCHANGED vars
    BY <2>4 DEF vars, lexVars, readerVars, PrintedInv, Expected, ReadsBack, Waiting
  <2>5. QED
    BY <2>1, <2>2, <2>3, <2>4, CallPrinted, PutBackPrinted, ScanPrinted, ReadPrinted DEF Next
<1>5. QED
  BY <1>3, <1>4

(* Every value that Expr::printDebug prints so that it can be read back is *)
(* read as that value, and nothing else is: whatever the value, the blocks *)
(* the input comes in and the tokens that are peeked at and put back.      *)
THEOREM PrintedIsReadBack == Spec => []PrintedReadsBack
<1>1. LexInv /\ LexemeInv /\ PrintedInv => PrintedReadsBack
  <2>1. SUFFICES ASSUME LexInv, LexemeInv, PrintedInv, Expected
                 PROVE  mode # "error" /\ (AtEnd => values = <<meant>>)
    BY DEF PrintedReadsBack, Expected
  <2>2. PrintedState
    BY <2>1 DEF PrintedState
  <2>3. ASSUME AtEnd PROVE values = <<meant>>
    <3>1. delivered # <<>> /\ Last(delivered).token = "EOF_TOK"
      BY <2>3 DEF AtEnd
    <3>2. Len(delivered) = 2 /\ Len(delivered) <= Len(produced)
      BY <2>2, <3>1, HeldOfText DEF ValueTokens
    <3>3. Len(produced) \in 0 .. 2
      BY <2>2, MadeOfText
    <3>4. ~(Len(produced) <= 1)
      BY <3>2, <3>3
    <3>5. QED
      BY <2>2, <3>4, ValuesOfText
  <2>4. QED
    BY <2>2, <2>3, NothingWrong
<1>2. ReaderInit => PrintedInv
  BY PrintedInvInit
<1>3. ReaderInit => LexInv /\ LexemeInv
  BY LexInvInit, LexemeInvInit
<1>4. LexInv /\ LexemeInv /\ [Next]_vars => LexInv' /\ LexemeInv'
  BY LexInvNext, LexemeInvNext
<1>5. LexInv /\ LexemeInv /\ PrintedInv /\ [Next]_vars => PrintedInv'
  BY <1>4, PrintedInvNext
<1>6. QED
  BY <1>1, <1>2, <1>3, <1>4, <1>5, PTL DEF Spec

=============================================================================
