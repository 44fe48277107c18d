------------------------------ MODULE ReaderProofs -----------------------------
(***************************************************************************)
(* Proofs about the lexer and its client, for inputs of any length, blocks *)
(* of any size and any number of tokens put back, and about the results of *)
(* the operators, for operands of any number and size.                     *)
(***************************************************************************)
EXTENDS ReaderProps, LiteralProofs

-----------------------------------------------------------------------------
(* Tokens that are handed out *)

(* The last element of a sequence and those before it.                     *)
LEMMA FrontFacts ==
    ASSUME NEW S, NEW s \in Seq(S), s # <<>>
    PROVE  /\ Len(s) \in Nat \ {0}
           /\ Last(s) \in S /\ Last(s) = s[Len(s)]
           /\ Front(s) \in Seq(S)
           /\ Len(Front(s)) = Len(s) - 1
           /\ \A i \in 1 .. Len(s) - 1 : Front(s)[i] = s[i]
<1>1. Len(s) \in Nat \ {0} /\ Last(s) \in S /\ Last(s) = s[Len(s)]
  BY DEF Last
<1> DEFINE n == Len(s) - 1
<1>2. n \in Nat /\ \A i \in 1 .. n : s[i] \in S
  BY <1>1
<1>3. /\ SubSeq(s, 1, n) \in Seq(S)
      /\ Len(SubSeq(s, 1, n)) = IF 1 <= n THEN n - 1 + 1 ELSE 0
      /\ \A i \in 1 .. n - 1 + 1 : SubSeq(s, 1, n)[i] = s[1 + i - 1]
  BY <1>2, SubSeqProperties
<1> HIDE DEF n
<1>4. Len(SubSeq(s, 1, n)) = n
  BY <1>2, <1>3
<1>5. ASSUME NEW i \in 1 .. n PROVE SubSeq(s, 1, n)[i] = s[i]
  <2>1. i \in 1 .. n - 1 + 1 /\ 1 + i - 1 = i
    BY <1>2
  <2>2. QED
    BY <1>3, <2>1
<1>6. QED
  BY <1>1, <1>3, <1>4, <1>5 DEF Front, n

(* Nothing is put back.                                                    *)
LEMMA NothingReversed ==
    ASSUME NEW T, NEW d \in Seq(T)
    PROVE  d \o Reverse(<<>>) = d
<1>1. Reverse(<<>>) = <<>>
  BY DEF Reverse
<1>2. QED
  BY <1>1

(* One token is put back.                                                  *)
LEMMA OneReversed ==
    ASSUME NEW T, NEW d \in Seq(T), NEW x \in T
    PROVE  d \o Reverse(<<x>>) = Append(d, x)
<1>1. Reverse(<<x>>) = <<x>>
  BY DEF Reverse
<1>2. QED
  BY <1>1, AppendIsConcat

(* What Reverse returns.                                                   *)
LEMMA ReverseFacts ==
    ASSUME NEW T, NEW s \in Seq(T)
    PROVE  /\ Reverse(s) \in Seq(T)
           /\ Len(Reverse(s)) = Len(s)
           /\ \A i \in 1 .. Len(s) : Reverse(s)[i] = s[Len(s) - i + 1]
<1>1. Len(s) \in Nat /\ \A i \in 1 .. Len(s) : s[i] \in T
  OBVIOUS
<1>2. \A i \in 1 .. Len(s) : Len(s) - i + 1 \in 1 .. Len(s)
  BY <1>1
<1>3. \A i \in 1 .. Len(s) : s[Len(s) - i + 1] \in T
  BY <1>1, <1>2
<1>4. QED
  BY <1>1, <1>3 DEF Reverse

(* Concatenation is associative.                                           *)
LEMMA Associative ==
    \A T : \A a, b, c \in Seq(T) : (a \o b) \o c = a \o (b \o c)
BY ConcatAssociative

(* The last of the tokens put back is handed out.                          *)
LEMMA HandedOut ==
    ASSUME NEW T, NEW d \in Seq(T), NEW p \in Seq(T), p # <<>>
    PROVE  /\ Append(d, Last(p)) \in Seq(T) /\ Front(p) \in Seq(T)
           /\ Append(d, Last(p)) \o Reverse(Front(p)) = d \o Reverse(p)
<1> DEFINE m == Len(p)
           x == <<Last(p)>>
           rest == Reverse(Front(p))
<1>1. /\ m \in Nat \ {0} /\ Last(p) \in T /\ Last(p) = p[m]
      /\ Front(p) \in Seq(T) /\ Len(Front(p)) = m - 1
      /\ \A i \in 1 .. m - 1 : Front(p)[i] = p[i]
  BY FrontFacts
<1>2. /\ rest \in Seq(T) /\ Len(rest) = m - 1
      /\ \A i \in 1 .. m - 1 : rest[i] = Front(p)[(m - 1) - i + 1]
  <2> DEFINE f == Front(p)
  <2> HIDE DEF f
  <2>1. f \in Seq(T) /\ Len(f) = m - 1
    BY <1>1 DEF f
  <2>2. /\ Reverse(f) \in Seq(T) /\ Len(Reverse(f)) = Len(f)
        /\ \A i \in 1 .. Len(f) : Reverse(f)[i] = f[Len(f) - i + 1]
    BY <2>1, ReverseFacts, Zenon
  <2>3. QED
    BY <2>1, <2>2, Zenon DEF f
<1>3. /\ Reverse(p) \in Seq(T) /\ Len(Reverse(p)) = m
      /\ \A i \in 1 .. m : Reverse(p)[i] = p[m - i + 1]
  BY ReverseFacts
<1>4. x \in Seq(T) /\ Len(x) = 1 /\ x[1] = p[m]
  BY <1>1
<1> HIDE DEF x, rest
<1>5. /\ x \o rest \in Seq(T) /\ Len(x \o rest) = m
      /\ \A i \in 1 .. m : (x \o rest)[i] = IF i <= 1 THEN x[i] ELSE rest[i - 1]
  <2>1. /\ x \o rest \in Seq(T) /\ Len(x \o rest) = Len(x) + Len(rest)
        /\ \A i \in 1 .. Len(x) + Len(rest) :
              (x \o rest)[i] = IF i <= Len(x) THEN x[i] ELSE rest[i - Len(x)]
    <3>1. x \in Seq(T) /\ rest \in Seq(T)
      BY <1>2, <1>4
    <3>2. QED
      BY <3>1, ConcatProperties
  <2>2. Len(x) + Len(rest) = m
    BY <1>1, <1>2, <1>4
  <2>3. QED
    BY <1>4, <2>1, <2>2
<1>6. ASSUME NEW i \in 1 .. m
      PROVE  (x \o rest)[i] = Reverse(p)[i]
  <2>1. CASE i = 1
    <3>1. m - 1 + 1 = m
      BY <1>1
    <3>2. QED
      BY <1>3, <1>4, <1>5, <2>1, <3>1
  <2>2. CASE i # 1
    <3>1. /\ i - 1 \in 1 .. m - 1 /\ ~(i <= 1)
          /\ (m - 1) - (i - 1) + 1 = m - i + 1 /\ m - i + 1 \in 1 .. m - 1
      BY <1>1, <2>2
    <3>2. rest[i - 1] = p[m - i + 1]
      BY <1>1, <1>2, <3>1
    <3>3. QED
      BY <1>3, <1>5, <3>1, <3>2
  <2>3. QED
    BY <2>1, <2>2
<1>7. x \o rest = Reverse(p)
  BY <1>3, <1>5, <1>6, SeqEqual
<1>8. Append(d, Last(p)) = d \o x /\ Append(d, Last(p)) \in Seq(T)
  BY <1>1, AppendIsConcat DEF x
<1>9. (d \o x) \o rest = d \o (x \o rest)
  <2>1. x \in Seq(T)
    BY <1>4
  <2>2. rest \in Seq(T)
    BY <1>2
  <2>3. \A b, c \in Seq(T) : (d \o b) \o c = d \o (b \o c)
    BY Associative
  <2>4. QED
    BY <2>1, <2>2, <2>3
<1>10. QED
  BY <1>1, <1>7, <1>8, <1>9 DEF rest

(* A token is put back.                                                    *)
LEMMA TakenBack ==
    ASSUME NEW T, NEW d \in Seq(T), NEW p \in Seq(T), d # <<>>
    PROVE  /\ Front(d) \in Seq(T) /\ Append(p, Last(d)) \in Seq(T)
           /\ Front(d) \o Reverse(Append(p, Last(d))) = d \o Reverse(p)
<1> DEFINE q == Append(p, Last(d))
<1>1. /\ Last(d) \in T /\ Front(d) \in Seq(T)
      /\ Len(Front(d)) = Len(d) - 1 /\ Len(d) \in Nat \ {0} /\ Last(d) = d[Len(d)]
      /\ \A i \in 1 .. Len(d) - 1 : Front(d)[i] = d[i]
  BY FrontFacts
<1>2. /\ q \in Seq(T) /\ q # <<>> /\ Len(q) = Len(p) + 1
      /\ q[Len(p) + 1] = Last(d) /\ \A i \in 1 .. Len(p) : q[i] = p[i]
  BY <1>1, AppendProperties
<1> HIDE DEF q
<1>3. Last(q) = Last(d)
  BY <1>2 DEF Last
<1>4. Front(q) = p
  <2>1. /\ Front(q) \in Seq(T) /\ Len(Front(q)) = Len(q) - 1
        /\ \A i \in 1 .. Len(q) - 1 : Front(q)[i] = q[i]
    BY <1>2, FrontFacts
  <2>2. Len(p) \in Nat /\ Len(q) - 1 = Len(p)
    BY <1>2
  <2>3. QED
    BY <1>2, <2>1, <2>2, SeqEqual
<1>5. Append(Front(d), Last(d)) = d
  <2>1. /\ Append(Front(d), Last(d)) \in Seq(T)
        /\ Len(Append(Front(d), Last(d))) = Len(d)
        /\ \A i \in 1 .. Len(d) - 1 : Append(Front(d), Last(d))[i] = d[i]
        /\ Append(Front(d), Last(d))[Len(d)] = d[Len(d)]
    BY <1>1
  <2>2. \A i \in 1 .. Len(d) : i \in 1 .. Len(d) - 1 \/ i = Len(d)
    BY <1>1
  <2>3. QED
    BY <2>1, <2>2, SeqEqual
<1>6. Append(Front(d), Last(q)) \o Reverse(Front(q)) = Front(d) \o Reverse(q)
  BY <1>1, <1>2, HandedOut
<1>7. QED
  BY <1>1, <1>2, <1>3, <1>4, <1>5, <1>6 DEF q

-----------------------------------------------------------------------------
(* Lines and columns *)

(* Counting modulo a number may wrap at any time.                          *)
LEMMA ModuloNext ==
    ASSUME NEW n \in Nat
    PROVE  /\ Modulo(n) \in Nat
           /\ (Modulo(n) + 1) % (ColumnMax + 1) = Modulo(n + 1)
           /\ Modulo(0) = 0
<1> DEFINE m == ColumnMax + 1
           q == n \div m
           r == n % m
<1>1. m \in Nat \ {0}
  BY LexerAssumption
<1> HIDE DEF m
<1>2. n = m * q + r /\ q \in Nat /\ r \in 0 .. m - 1
  BY <1>1
<1>3. (r + 1) % m = (n + 1) % m
  <2> HIDE DEF q, r
  <2>1. CASE r + 1 < m
    <3>1. (r + 1) % m = r + 1
      BY <1>1, <1>2, <2>1
    <3>2. n + 1 = m * q + (r + 1) /\ r + 1 \in 0 .. m - 1
      BY <1>1, <1>2, <2>1
    <3>3. (n + 1) % m = r + 1
      BY <1>1, <1>2, <3>2
    <3>4. QED
      BY <3>1, <3>3
  <2>2. CASE r + 1 = m
    <3>1. (r + 1) % m = 0
      BY <1>1, <1>2, <2>2
    <3>2. n + 1 = m * (q + 1) + 0 /\ q + 1 \in Nat
      BY <1>1, <1>2, <2>2
    <3>3. (n + 1) % m = 0
      BY <1>1, <1>2, <3>2
    <3>4. QED
      BY <3>1, <3>3
  <2>3. QED
    BY <1>1, <1>2, <2>1, <2>2
<1>4. 0 % m = 0
  BY <1>1
<1>5. QED
  BY <1>2, <1>3, <1>4 DEF Modulo, m, q, r


NewlinesIn(t, p) == {j \in 1 .. p : t[j] = Newline}

LineStart(t, p) == Max(NewlinesIn(t, p) \cup {0})

(* The location after p characters.                                        *)
LocationAt(t, p) == Location(Modulo(1 + Cardinality(NewlinesIn(t, p))), Modulo(p - LineStart(t, p)))

(* The greatest element that Max chooses does exist.                       *)
StartKnown(t, p) ==
    LineStart(t, p) \in 0 .. p /\ \A j \in NewlinesIn(t, p) : j <= LineStart(t, p)

(* Newlines can be counted.                                                *)
LEMMA NewlinesFinite ==
    ASSUME NEW t, NEW p \in Nat
    PROVE  /\ IsFiniteSet(NewlinesIn(t, p))
           /\ Cardinality(NewlinesIn(t, p)) \in Nat
<1>1. IsFiniteSet(1 .. p)
  BY FS_Interval
<1>2. NewlinesIn(t, p) \subseteq 1 .. p
  BY DEF NewlinesIn
<1>3. QED
  BY <1>1, <1>2, FS_Subset, FS_CardinalityType

(* The location at the beginning.                                          *)
LEMMA LocationFirst ==
    ASSUME NEW t
    PROVE  StartKnown(t, 0) /\ LocationAt(t, 0) = Location(1, 0)
<1>1. NewlinesIn(t, 0) = {}
  BY DEF NewlinesIn
<1>2. LineStart(t, 0) = 0
  BY <1>1 DEF LineStart, Max
<1>3. Cardinality(NewlinesIn(t, 0)) = 0
  BY <1>1, FS_EmptySet
<1>4. Modulo(1) = 1 /\ Modulo(0) = 0
  <2>1. ColumnMax + 1 \in Nat /\ ColumnMax + 1 > 1
    BY LexerAssumption
  <2>2. \A m \in Nat : m > 1 => 1 % m = 1 /\ 0 % m = 0
    OBVIOUS
  <2>3. QED
    BY <2>1, <2>2 DEF Modulo
<1>5. QED
  BY <1>1, <1>2, <1>3, <1>4 DEF LocationAt, StartKnown

(* A newline begins a line, every other character is a column.             *)
LEMMA LocationNext ==
    ASSUME NEW t, NEW p \in Nat, StartKnown(t, p)
    PROVE  /\ StartKnown(t, p + 1)
           /\ t[p + 1] = Newline =>
                 LocationAt(t, p + 1) = Location((LocationAt(t, p).line + 1) % (ColumnMax + 1), 0)
           /\ t[p + 1] # Newline =>
                 /\ LocationAt(t, p + 1)
                       = Location(LocationAt(t, p).line,
                                  (LocationAt(t, p).column + 1) % (ColumnMax + 1))
                 /\ NewlinesIn(t, p + 1) = NewlinesIn(t, p)
<1> DEFINE N == NewlinesIn(t, p)
           M == NewlinesIn(t, p + 1)
           c == Cardinality(N)
           s == LineStart(t, p)
<1>1. IsFiniteSet(N) /\ c \in Nat
  BY NewlinesFinite
<1>2. s \in 0 .. p /\ \A j \in N : j \in 1 .. p /\ j <= s
  BY DEF StartKnown, NewlinesIn
<1>3. /\ LocationAt(t, p).line = Modulo(1 + c)
      /\ LocationAt(t, p).column = Modulo(p - s)
  BY DEF LocationAt, Location
<1>4. CASE t[p + 1] = Newline
  <2>1. M = N \cup {p + 1} /\ p + 1 \notin N
    BY <1>2, <1>4 DEF NewlinesIn
  <2>2. Cardinality(M) = c + 1
    <3> HIDE DEF N, M
    <3>1. QED
      BY <1>1, <2>1, FS_AddElement
  <2>3. \A j \in M \cup {0} : j \in Nat /\ j <= p + 1
    BY <1>2, <2>1
  <2>4. LineStart(t, p + 1) = p + 1
    <3>1. p + 1 \in M \cup {0} /\ \A y \in M \cup {0} : p + 1 >= y
      BY <2>1, <2>3
    <3>2. \A x \in M \cup {0} : (\A y \in M \cup {0} : x >= y) => x = p + 1
      BY <2>3, <3>1
    <3> HIDE DEF M
    <3>3. Max(M \cup {0}) = p + 1
      BY <3>1, <3>2 DEF Max
    <3>4. QED
      BY <3>3 DEF LineStart, M
  <2>5. StartKnown(t, p + 1)
    BY <2>3, <2>4 DEF StartKnown
  <2>6. (Modulo(1 + c) + 1) % (ColumnMax + 1) = Modulo(1 + (c + 1)) /\ Modulo(0) = 0
    <3>1. 1 + c \in Nat /\ (1 + c) + 1 = 1 + (c + 1)
      BY <1>1
    <3>2. QED
      BY <3>1, ModuloNext
  <2>7. (p + 1) - (p + 1) = 0
    OBVIOUS
  <2>8. LocationAt(t, p + 1) = Location(Modulo(1 + (c + 1)), Modulo(0))
    BY <2>2, <2>4, <2>7 DEF LocationAt
  <2>9. QED
    BY <1>3, <1>4, <2>5, <2>6, <2>8
<1>5. CASE t[p + 1] # Newline
  <2>1. M = N
    BY <1>5 DEF NewlinesIn
  <2>2. LineStart(t, p + 1) = s
    BY <2>1 DEF LineStart
  <2>3. StartKnown(t, p + 1)
    <3>1. s \in 0 .. p + 1
      BY <1>2
    <3>2. QED
      BY <1>2, <2>1, <2>2, <3>1 DEF StartKnown
  <2>4. p - s \in Nat /\ (p - s) + 1 = (p + 1) - s
    BY <1>2
  <2>5. (Modulo(p - s) + 1) % (ColumnMax + 1) = Modulo((p + 1) - s)
    BY <2>4, ModuloNext
  <2>6. LocationAt(t, p + 1) = Location(Modulo(1 + c), Modulo((p + 1) - s))
    BY <2>1, <2>2 DEF LocationAt
  <2>7. QED
    BY <1>3, <1>5, <2>1, <2>3, <2>5, <2>6
<1>6. QED
  BY <1>4, <1>5

(* Locations are two numbers.                                              *)
LEMMA LocationType ==
    ASSUME NEW t, NEW p \in Nat, StartKnown(t, p)
    PROVE  LocationAt(t, p) \in [line: Nat, column: Nat]
<1>1. 1 + Cardinality(NewlinesIn(t, p)) \in Nat /\ p - LineStart(t, p) \in Nat
  BY NewlinesFinite DEF StartKnown
<1>2. QED
  BY <1>1, ModuloNext DEF LocationAt, Location

-----------------------------------------------------------------------------
(* The invariant *)

Characters == -128 .. 255

Locations == [line: Nat, column: Nat]

Spans == [start: Locations, end: Locations, first: Int]

TokenKinds ==
    {"LPAREN", "RPAREN", "EOF_TOK", "UNTERMINATED_QUOTED_SYMBOL", "UNTERMINATED_STRING_LITERAL",
     "QUOTED_SYMBOL", "STRING_LITERAL", "KEYWORD", "BINARY_LITERAL", "HEX_LITERAL",
     "INTEGER_LITERAL", "DECIMAL_LITERAL", "RATIONAL_LITERAL", "SYMBOL", "ATTRIBUTE",
     "EVAL_MATCH", "EVAL_DEFINE", "PAR", "LET", "BOOL_TYPE", "TYPE"}

Tokens == [token: TokenKinds, str: Seq(Int), start: Locations, first: Int]

(* The character that byte is read as.                                     *)
Is(ch, byte) == ch \in {byte, Signed(byte)}

(* How many characters of the text have been read.                         *)
Consumed == given - Len(buffer)

LexTypes ==
    /\ text \in Seq(Bytes)
    /\ given \in 0 .. Len(text)
    /\ buffer \in Seq(Bytes)
    /\ saved = <<>> \/ \E ch \in Characters : saved = <<ch>>
    /\ token \in Seq(Int)
    /\ span \in Spans
    /\ peeked \in Seq(Tokens)
    /\ delivered \in Seq(Tokens)
    /\ produced \in Seq(Tokens)

(* The buffer has what comes next in the text and the saved character is   *)
(* the one read last: none is lost and none is read twice.                 *)
StreamInv ==
    /\ Len(buffer) <= given
    /\ \A j \in 1 .. Len(buffer) : buffer[j] = text[Consumed + j]
    /\ saved # <<>> /\ saved[1] # EOF => Consumed >= 1 /\ Is(saved[1], text[Consumed])

AtEOF == given = Len(text) /\ buffer = <<>> /\ (saved = <<>> \/ saved[1] = EOF)

(* The span ends where reading is, until the end of the input is read: it  *)
(* is counted as a column each time.                                       *)
PlaceInv == /\ StartKnown(text, Consumed)
            /\ mode # "error" => span.end = LocationAt(text, Consumed) \/ AtEOF

StartRight(start, first) ==
    /\ start.line = Modulo(1 + Cardinality(NewlinesIn(text, first)))
    /\ start.column = Modulo(first + 1 - LineStart(text, first))

InToken == mode \notin {"idle", "skip", "comment", "error"}

TokenInv == InToken => StartRight(span.start, span.first)

ProducedInv == \A i \in 1 .. Len(produced) :
                  produced[i].token # "EOF_TOK" => StartRight(produced[i].start, produced[i].first)

Waiting == mode \notin {"idle", "error"}

(* While a token is read nothing is put back.                              *)
OrderInv == /\ delivered \o Reverse(peeked) = produced
            /\ Waiting => peeked = <<>>

LexInv == LexTypes /\ StreamInv /\ PlaceInv /\ TokenInv /\ ProducedInv /\ OrderInv

-----------------------------------------------------------------------------
(* Reading a character *)

ReadBy(r) == r.given - Len(r.buffer)

(* The next character of the text, the saved one again, or the end.        *)
CharRead(r) ==
    /\ r.ch \in Characters
    /\ r.given \in 0 .. Len(text)
    /\ r.buffer \in Seq(Bytes)
    /\ Len(r.buffer) <= r.given
    /\ \A j \in 1 .. Len(r.buffer) : r.buffer[j] = text[ReadBy(r) + j]
    /\ \/ saved = <<>> /\ ReadBy(r) = Consumed + 1 /\ Is(r.ch, text[ReadBy(r)])
       \/ saved # <<>> /\ r.ch = saved[1] /\ r.given = given /\ r.buffer = buffer
       \/ /\ saved = <<>> /\ r.ch = EOF /\ r.given = given /\ r.buffer = buffer
          /\ given = Len(text) /\ buffer = <<>>

(* The smaller of two numbers.                                             *)
LEMMA MinOfTwo ==
    ASSUME NEW a \in Int, NEW b \in Int
    PROVE  Min({a, b}) = IF a <= b THEN a ELSE b
<1> DEFINE m == IF a <= b THEN a ELSE b
<1>1. m \in {a, b} /\ \A y \in {a, b} : m =< y
  OBVIOUS
<1>2. \A x \in {a, b} : (\A y \in {a, b} : x =< y) => x = m
  BY <1>1
<1> HIDE DEF m
<1>3. Min({a, b}) = m
  BY <1>1, <1>2 DEF Min
<1>4. QED
  BY <1>3 DEF m

(* A byte is read as a character.                                          *)
LEMMA ByteRead ==
    ASSUME NEW b \in Bytes
    PROVE  /\ b \in Characters /\ Signed(b) \in Characters
           /\ Is(b, b) /\ Is(Signed(b), b)
           /\ \A ch : Is(ch, b) => ch \in Characters /\ (ch = Newline <=> b = Newline)
  BY DEF Bytes, Characters, Signed, Is, Newline

(* A piece of a text.                                                      *)
LEMMA Piece ==
    ASSUME NEW t \in Seq(Bytes), NEW g \in Nat, NEW e \in Nat, g <= e, e <= Len(t)
    PROVE  /\ SubSeq(t, g + 1, e) \in Seq(Bytes)
           /\ Len(SubSeq(t, g + 1, e)) = e - g
           /\ \A j \in 1 .. e - g : SubSeq(t, g + 1, e)[j] = t[g + j]
<1> DEFINE f == g + 1
<1>1. Len(t) \in Nat /\ f \in Int /\ e \in Int
  OBVIOUS
<1>2. \A i \in f .. e : t[i] \in Bytes
  <2>1. \A i \in f .. e : i \in 1 .. Len(t)
    BY <1>1
  <2>2. QED
    BY <2>1
<1>3. IF f <= e THEN e - f + 1 = e - g ELSE 0 = e - g
  OBVIOUS
<1>4. e - f + 1 = e - g
  OBVIOUS
<1>5. \A j \in 1 .. e - g : f + j - 1 = g + j
  OBVIOUS
<1> HIDE DEF f
<1>6. /\ SubSeq(t, f, e) \in Seq(Bytes)
      /\ Len(SubSeq(t, f, e)) = IF f <= e THEN e - f + 1 ELSE 0
      /\ \A i \in 1 .. e - f + 1 : SubSeq(t, f, e)[i] = t[f + i - 1]
  BY <1>1, <1>2, SubSeqProperties
<1>7. Len(SubSeq(t, f, e)) = e - g
  BY <1>3, <1>6
<1>8. \A j \in 1 .. e - g : SubSeq(t, f, e)[j] = t[g + j]
  BY <1>4, <1>5, <1>6
<1>9. QED
  BY <1>6, <1>7, <1>8 DEF f

(* The first of some bytes and the others.                                 *)
LEMMA HeadTail ==
    ASSUME NEW block \in Seq(Bytes), block # <<>>
    PROVE  /\ Len(block) \in Nat \ {0}
           /\ Head(block) = block[1] /\ Head(block) \in Bytes
           /\ Tail(block) \in Seq(Bytes) /\ Len(Tail(block)) = Len(block) - 1
           /\ \A j \in 1 .. Len(block) - 1 : Tail(block)[j] = block[j + 1]
  OBVIOUS

(* Where the next block ends.                                              *)
LEMMA BlockEnd ==
    ASSUME NEW n \in Nat, NEW g \in 0 .. n
    PROVE  /\ Min({g + BufferSize, n}) \in Nat
           /\ g <= Min({g + BufferSize, n}) /\ Min({g + BufferSize, n}) <= n
           /\ g < n => g < Min({g + BufferSize, n})
<1>1. n \in Nat /\ g \in Nat /\ g <= n /\ BufferSize \in Nat \ {0}
  BY LexerAssumption
<1>2. Min({g + BufferSize, n}) = IF g + BufferSize <= n THEN g + BufferSize ELSE n
  <2>1. g + BufferSize \in Int /\ n \in Int
    BY <1>1
  <2>2. QED
    BY <2>1, MinOfTwo
<1>3. QED
  BY <1>1, <1>2

(* What is left between two places, as numbers.                            *)
LEMMA Rest ==
    ASSUME NEW g \in Nat, NEW e \in Nat, g < e, NEW l, l = e - g
    PROVE  1 \in 1 .. e - g /\ l - 1 = e - (g + 1) /\ g + l = e
OBVIOUS

(* A piece that is not empty, its first byte and the others.               *)
LEMMA PieceFacts ==
    ASSUME NEW t \in Seq(Bytes), NEW g \in Nat, NEW e \in Nat, g < e, e <= Len(t),
           NEW block \in Seq(Bytes), Len(block) = e - g,
           \A j \in 1 .. e - g : block[j] = t[g + j]
    PROVE  /\ block # <<>>
           /\ g + Len(block) = e
           /\ Head(block) = t[g + 1] /\ Head(block) \in Bytes
           /\ Tail(block) \in Seq(Bytes) /\ Len(Tail(block)) = e - (g + 1)
           /\ \A j \in 1 .. e - (g + 1) : Tail(block)[j] = t[(g + 1) + j]
<1>1. block # <<>>
  OBVIOUS
<1>2. /\ Head(block) = block[1] /\ Head(block) \in Bytes
      /\ Tail(block) \in Seq(Bytes) /\ Len(Tail(block)) = Len(block) - 1
      /\ \A j \in 1 .. Len(block) - 1 : Tail(block)[j] = block[j + 1]
  BY <1>1, HeadTail
<1>3. 1 \in 1 .. e - g /\ Len(block) - 1 = e - (g + 1) /\ g + Len(block) = e
  BY Rest
<1>4. ASSUME NEW j \in 1 .. e - (g + 1)
      PROVE  Tail(block)[j] = t[(g + 1) + j]
  <2>1. j \in 1 .. Len(block) - 1 /\ j + 1 \in 1 .. e - g /\ g + (j + 1) = (g + 1) + j
    OBVIOUS
  <2>2. Tail(block)[j] = block[j + 1]
    BY <1>2, <2>1, Zenon
  <2>3. block[j + 1] = t[g + (j + 1)]
    BY <2>1, Zenon
  <2>4. QED
    BY <2>1, <2>2, <2>3, Zenon
<1>5. QED
  BY <1>1, <1>2, <1>3, <1>4

BlockRead(t, g, e, block) ==
    /\ block = <<>> => g = Len(t)
    /\ block # <<>> =>
          /\ g < e /\ g + Len(block) = e
          /\ Head(block) = t[g + 1] /\ Head(block) \in Bytes
          /\ Tail(block) \in Seq(Bytes) /\ Len(Tail(block)) = e - (g + 1)
          /\ \A j \in 1 .. e - (g + 1) : Tail(block)[j] = t[(g + 1) + j]

(* A block that has the characters after those given is what a read gives. *)
LEMMA PieceIsRead ==
    ASSUME NEW t \in Seq(Bytes), NEW g \in Nat, NEW e \in Nat, g <= e, e <= Len(t),
           g < Len(t) => g < e,
           NEW block \in Seq(Bytes), Len(block) = e - g,
           \A j \in 1 .. e - g : block[j] = t[g + j]
    PROVE  BlockRead(t, g, e, block)
<1>1. CASE g < e
  <2>1. /\ block # <<>>
        /\ g + Len(block) = e
        /\ Head(block) = t[g + 1] /\ Head(block) \in Bytes
        /\ Tail(block) \in Seq(Bytes) /\ Len(Tail(block)) = e - (g + 1)
        /\ \A j \in 1 .. e - (g + 1) : Tail(block)[j] = t[(g + 1) + j]
    BY <1>1, PieceFacts
  <2>2. QED
    BY <1>1, <2>1, Zenon DEF BlockRead
<1>2. CASE ~(g < e)
  <2>1. g = e /\ g = Len(t)
    BY <1>2
  <2>2. block = <<>>
    BY <2>1
  <2>3. QED
    BY <2>1, <2>2 DEF BlockRead
<1>3. QED
  BY <1>1, <1>2

(* The next block of a text begins with the character after those given.   *)
LEMMA BlockFacts ==
    ASSUME NEW t \in Seq(Bytes), NEW g \in 0 .. Len(t), NEW e \in Nat, NEW block,
           g <= e, e <= Len(t), g < Len(t) => g < e,
           block = SubSeq(t, g + 1, e)
    PROVE  BlockRead(t, g, e, block)
<1>1. g \in Nat /\ g <= Len(t) /\ Len(t) \in Nat
  OBVIOUS
<1>2. /\ SubSeq(t, g + 1, e) \in Seq(Bytes)
      /\ Len(SubSeq(t, g + 1, e)) = e - g
      /\ \A j \in 1 .. e - g : SubSeq(t, g + 1, e)[j] = t[g + j]
  BY <1>1, Piece
<1>3. BlockRead(t, g, e, SubSeq(t, g + 1, e))
  BY <1>1, <1>2, PieceIsRead
<1>4. QED
  BY <1>3

(* What nextChar reads.                                                    *)
LEMMA NextCharRead ==
    ASSUME LexTypes, StreamInv, NEW r, r = NextChar
    PROVE  CharRead(r)
<1>1. /\ text \in Seq(Bytes) /\ buffer \in Seq(Bytes) /\ given \in 0 .. Len(text)
      /\ Len(buffer) \in Nat /\ Len(buffer) <= given /\ Len(text) \in Nat
      /\ \A j \in 1 .. Len(buffer) : buffer[j] = text[Consumed + j]
      /\ Consumed = given - Len(buffer)
  BY DEF LexTypes, StreamInv, Consumed
<1>2. CASE saved # <<>>
  <2>1. r = Reading(saved[1], 0, buffer)
    BY <1>2 DEF NextChar
  <2>2. r.ch = saved[1] /\ r.given = given + 0 /\ r.buffer = buffer
    BY <2>1 DEF Reading
  <2>3. saved[1] \in Characters
    <3>1. PICK ch \in Characters : saved = <<ch>>
      BY <1>2 DEF LexTypes
    <3>2. QED
      BY <3>1
  <2>4. r.given = given /\ ReadBy(r) = Consumed
    BY <1>1, <2>2 DEF ReadBy
  <2>5. QED
    BY <1>1, <1>2, <2>2, <2>3, <2>4 DEF CharRead
<1>3. CASE saved = <<>> /\ buffer # <<>>
  <2>1. r = Reading(Signed(Head(buffer)), 0, Tail(buffer))
    BY <1>3 DEF NextChar, ReadNextChar
  <2>2. /\ r.ch = Signed(Head(buffer)) /\ r.given = given + 0 /\ r.buffer = Tail(buffer)
    BY <2>1 DEF Reading
  <2>3. /\ Len(buffer) \in Nat \ {0}
        /\ Head(buffer) = buffer[1] /\ Head(buffer) \in Bytes
        /\ Tail(buffer) \in Seq(Bytes) /\ Len(Tail(buffer)) = Len(buffer) - 1
        /\ \A j \in 1 .. Len(buffer) - 1 : Tail(buffer)[j] = buffer[j + 1]
    BY <1>1, <1>3, HeadTail
  <2>4. r.given = given /\ ReadBy(r) = Consumed + 1
    BY <1>1, <2>2, <2>3 DEF ReadBy
  <2>5. buffer[1] = text[Consumed + 1]
    BY <1>1, <2>3
  <2>6. r.ch \in Characters /\ Is(r.ch, text[ReadBy(r)])
    BY <2>2, <2>3, <2>4, <2>5, ByteRead
  <2>7. ASSUME NEW j \in 1 .. Len(r.buffer)
        PROVE  r.buffer[j] = text[ReadBy(r) + j]
    <3>1. j \in 1 .. Len(buffer) - 1 /\ j + 1 \in 1 .. Len(buffer)
      BY <2>2, <2>3
    <3>2. Consumed + (j + 1) = ReadBy(r) + j
      BY <1>1, <2>4
    <3>3. QED
      BY <1>1, <2>2, <2>3, <3>1, <3>2
  <2>8. r.buffer \in Seq(Bytes) /\ Len(r.buffer) <= r.given
    BY <1>1, <2>2, <2>3
  <2>9. QED
    BY <1>1, <1>3, <2>4, <2>6, <2>7, <2>8 DEF CharRead
<1>4. CASE saved = <<>> /\ buffer = <<>>
  <2>0. PICK e : e = Min({given + BufferSize, Len(text)})
    OBVIOUS
  <2>1. e \in Nat /\ given <= e /\ e <= Len(text) /\ (given < Len(text) => given < e)
    BY <1>1, <2>0, BlockEnd
  <2>b. PICK block : block = SubSeq(text, given + 1, e)
    OBVIOUS
  <2>2. /\ block = <<>> => given = Len(text)
        /\ block # <<>> =>
              /\ given < e /\ given + Len(block) = e
              /\ Head(block) = text[given + 1] /\ Head(block) \in Bytes
              /\ Tail(block) \in Seq(Bytes) /\ Len(Tail(block)) = e - (given + 1)
              /\ \A j \in 1 .. e - (given + 1) : Tail(block)[j] = text[(given + 1) + j]
    <3>1. text \in Seq(Bytes) /\ given \in 0 .. Len(text)
      BY <1>1
    <3>2. e \in Nat /\ given <= e /\ e <= Len(text)
      BY <2>1
    <3>3. given < Len(text) => given < e
      BY <2>1
    <3>4. BlockRead(text, given, e, block)
      BY <2>b, <3>1, <3>2, <3>3, BlockFacts, Zenon
    <3>5. QED
      BY <3>4, Zenon DEF BlockRead
  <2>3. r = IF interactive /\ given < Len(text) THEN Reading(text[given + 1], 1, <<>>)
            ELSE IF interactive \/ block = <<>> THEN Reading(EOF, 0, <<>>)
            ELSE Reading(Signed(Head(block)), Len(block), Tail(block))
    BY <1>4, <2>0, <2>b DEF NextChar, ReadNextChar
  <2>4. Consumed = given /\ Len(buffer) = 0
    BY <1>1, <1>4
  <2>5. CASE interactive /\ given < Len(text)
    <3>1. r.ch = text[given + 1] /\ r.given = given + 1 /\ r.buffer = <<>>
      BY <2>3, <2>5 DEF Reading
    <3>2. ReadBy(r) = given + 1 /\ given + 1 \in 1 .. Len(text)
      BY <1>1, <2>5, <3>1 DEF ReadBy
    <3>3. r.ch \in Characters /\ Is(r.ch, text[ReadBy(r)])
      BY <1>1, <3>1, <3>2, ByteRead
    <3>4. QED
      BY <1>1, <1>4, <2>4, <3>1, <3>2, <3>3 DEF CharRead
  <2>6. CASE ~(interactive /\ given < Len(text)) /\ (interactive \/ block = <<>>)
    <3>1. r.ch = EOF /\ r.given = given + 0 /\ r.buffer = <<>>
      BY <2>3, <2>6 DEF Reading
    <3>2. r.given = given /\ given = Len(text) /\ ReadBy(r) = given
      BY <1>1, <2>2, <2>6, <3>1 DEF ReadBy
    <3>3. EOF \in Characters
      BY DEF EOF, Characters
    <3>4. QED
      BY <1>1, <1>4, <3>1, <3>2, <3>3 DEF CharRead
  <2>7. CASE ~(interactive /\ given < Len(text)) /\ ~(interactive \/ block = <<>>)
    <3>1. /\ r.ch = Signed(Head(block)) /\ r.given = given + Len(block)
          /\ r.buffer = Tail(block)
      BY <2>3, <2>7 DEF Reading
    <3>2. /\ r.given = e /\ given < e
          /\ r.buffer \in Seq(Bytes) /\ Len(r.buffer) = e - (given + 1)
          /\ \A j \in 1 .. e - (given + 1) : r.buffer[j] = text[(given + 1) + j]
          /\ Head(block) = text[given + 1] /\ Head(block) \in Bytes
      BY <2>2, <2>7, <3>1
    <3>3. ReadBy(r) = given + 1 /\ e - (given + 1) <= e /\ e \in 0 .. Len(text)
      BY <1>1, <2>1, <3>2 DEF ReadBy
    <3>4. r.ch \in Characters /\ Is(r.ch, text[ReadBy(r)])
      BY <3>1, <3>2, <3>3, ByteRead
    <3>5. QED
      BY <1>4, <2>4, <3>2, <3>3, <3>4 DEF CharRead
  <2>8. QED
    BY <2>5, <2>6, <2>7
<1>5. QED
  BY <1>2, <1>3, <1>4

(* Where reading a character leaves the reader.                            *)
LEMMA Moved ==
    ASSUME LexTypes, StreamInv, PlaceInv, mode # "error", NEW r, r = NextChar
    PROVE  /\ CharRead(r)
           /\ ReadBy(r) \in Nat
           /\ StartKnown(text, ReadBy(r))
           /\ Advance(span.end, r) \in Locations
           /\ \/ Advance(span.end, r) = LocationAt(text, ReadBy(r))
              \/ r.ch = EOF /\ r.given = Len(text) /\ r.buffer = <<>>
           /\ r.ch # EOF => /\ ReadBy(r) >= 1 /\ Is(r.ch, text[ReadBy(r)])
                            /\ text[ReadBy(r)] \in Bytes
<1>1. CharRead(r)
  BY NextCharRead
<1>2. /\ text \in Seq(Bytes) /\ Len(text) \in Nat /\ Len(buffer) \in Nat
      /\ given \in 0 .. Len(text) /\ Len(buffer) <= given
      /\ Consumed = given - Len(buffer) /\ Consumed \in Nat
  BY DEF LexTypes, StreamInv, Consumed
<1>3. /\ r.given \in 0 .. Len(text) /\ Len(r.buffer) \in Nat /\ Len(r.buffer) <= r.given
      /\ ReadBy(r) = r.given - Len(r.buffer) /\ ReadBy(r) \in Nat
  BY <1>1, <1>2 DEF CharRead, ReadBy
<1>4. /\ StartKnown(text, Consumed)
      /\ span.end = LocationAt(text, Consumed) \/ AtEOF
      /\ span.end \in Locations /\ span.end.line \in Nat /\ span.end.column \in Nat
  BY DEF PlaceInv, LexTypes, Spans, Locations
<1>5. ColumnMax + 1 \in Nat \ {0}
  BY LexerAssumption
<1>6. \A n \in Nat : (n + 1) % (ColumnMax + 1) \in Nat
  BY <1>5
<1>7. /\ (span.end.line + 1) % (ColumnMax + 1) \in Nat
      /\ (span.end.column + 1) % (ColumnMax + 1) \in Nat
  BY <1>4, <1>6
<1>8. Advance(span.end, r) \in Locations
  <2>1. Location((span.end.line + 1) % (ColumnMax + 1), 0) \in Locations
    BY <1>7 DEF Location, Locations
  <2>2. Location(span.end.line, (span.end.column + 1) % (ColumnMax + 1)) \in Locations
    BY <1>4, <1>7 DEF Location, Locations
  <2>3. QED
    BY <1>4, <2>1, <2>2 DEF Advance
<1>9. CASE saved = <<>> /\ ReadBy(r) = Consumed + 1 /\ Is(r.ch, text[ReadBy(r)])
  <2>1. Consumed + 1 \in 1 .. Len(text) /\ text[Consumed + 1] \in Bytes
    BY <1>2, <1>3, <1>9
  <2>2. ~AtEOF
    BY <1>2, <2>1 DEF AtEOF
  <2>3. r.ch = Newline <=> text[Consumed + 1] = Newline
    BY <1>9, <2>1, ByteRead
  <2> DEFINE here == LocationAt(text, Consumed)
             there == LocationAt(text, Consumed + 1)
  <2>4. /\ StartKnown(text, Consumed + 1)
        /\ text[Consumed + 1] = Newline =>
              there = Location((here.line + 1) % (ColumnMax + 1), 0)
        /\ text[Consumed + 1] # Newline =>
              there = Location(here.line, (here.column + 1) % (ColumnMax + 1))
    BY <1>2, <1>4, LocationNext
  <2>5. Advance(span.end, r) = there
    <3> HIDE DEF here, there
    <3>1. span.end = here
      BY <1>4, <2>2 DEF here
    <3>2. Advance(span.end, r)
             = IF r.ch = Newline THEN Location((here.line + 1) % (ColumnMax + 1), 0)
               ELSE Location(here.line, (here.column + 1) % (ColumnMax + 1))
      BY <1>9, <3>1 DEF Advance
    <3>3. QED
      BY <2>3, <2>4, <3>2
  <2>6. QED
    BY <1>1, <1>2, <1>3, <1>8, <1>9, <2>1, <2>4, <2>5
<1>10. CASE saved # <<>> /\ r.ch = saved[1] /\ r.given = given /\ r.buffer = buffer
  <2>1. ReadBy(r) = Consumed /\ Advance(span.end, r) = span.end
    BY <1>2, <1>3, <1>10 DEF Advance
  <2>2. r.ch # EOF => Consumed >= 1 /\ Is(r.ch, text[Consumed])
    BY <1>10 DEF StreamInv
  <2>3. Consumed >= 1 => text[Consumed] \in Bytes
    <3>1. Consumed >= 1 => Consumed \in 1 .. Len(text)
      BY <1>2
    <3>2. QED
      BY <1>2, <3>1
  <2>4. AtEOF => r.ch = EOF /\ r.given = Len(text) /\ r.buffer = <<>>
    BY <1>10 DEF AtEOF
  <2>5. QED
    BY <1>1, <1>3, <1>4, <1>8, <2>1, <2>2, <2>3, <2>4
<1>11. CASE /\ saved = <<>> /\ r.ch = EOF /\ r.given = given /\ r.buffer = buffer
            /\ given = Len(text) /\ buffer = <<>>
  <2>1. ReadBy(r) = Consumed
    BY <1>2, <1>3, <1>11
  <2>2. QED
    BY <1>1, <1>3, <1>4, <1>8, <1>11, <2>1
<1>12. QED
  BY <1>1, <1>9, <1>10, <1>11 DEF CharRead

(* The character read is used up or saved.                                 *)
CharsMove(r) == (Take(r) \/ Save(r)) /\ text' = text

(* What is left of the input after a character.                            *)
LEMMA StreamMoves ==
    ASSUME LexInv, mode # "error", NEW r, r = NextChar, CharsMove(r)
    PROVE  /\ text' \in Seq(Bytes) /\ given' \in 0 .. Len(text') /\ buffer' \in Seq(Bytes)
           /\ saved' = <<>> \/ \E ch \in Characters : saved' = <<ch>>
           /\ StreamInv' /\ StartKnown(text, Consumed)'
           /\ Consumed' = ReadBy(r)
           /\ Advance(span.end, r) \in Locations
           /\ Advance(span.end, r) = LocationAt(text', Consumed') \/ AtEOF'
<1>1. LexTypes /\ StreamInv /\ PlaceInv
  BY DEF LexInv
<1>2. /\ CharRead(r)
      /\ ReadBy(r) \in Nat
      /\ StartKnown(text, ReadBy(r))
      /\ Advance(span.end, r) \in Locations
      /\ \/ Advance(span.end, r) = LocationAt(text, ReadBy(r))
         \/ r.ch = EOF /\ r.given = Len(text) /\ r.buffer = <<>>
      /\ r.ch # EOF => ReadBy(r) >= 1 /\ Is(r.ch, text[ReadBy(r)])
  BY <1>1, Moved
<1>3. /\ text' = text /\ given' = r.given /\ buffer' = r.buffer
      /\ saved' = <<>> \/ saved' = <<r.ch>>
  BY DEF CharsMove, Take, Save
<1>4. Consumed' = ReadBy(r)
  BY <1>3 DEF Consumed, ReadBy
<1>5. /\ r.ch \in Characters /\ r.given \in 0 .. Len(text) /\ r.buffer \in Seq(Bytes)
      /\ Len(r.buffer) <= r.given
      /\ \A j \in 1 .. Len(r.buffer) : r.buffer[j] = text[ReadBy(r) + j]
  BY <1>2 DEF CharRead
<1>6. /\ text' \in Seq(Bytes) /\ given' \in 0 .. Len(text') /\ buffer' \in Seq(Bytes)
      /\ saved' = <<>> \/ \E ch \in Characters : saved' = <<ch>>
  BY <1>1, <1>3, <1>5 DEF LexTypes
<1>7. StreamInv'
  <2>1. saved' # <<>> => saved'[1] = r.ch
    BY <1>3
  <2>2. saved' # <<>> /\ saved'[1] # EOF => Consumed' >= 1 /\ Is(saved'[1], text'[Consumed'])
    BY <1>2, <1>3, <1>4, <2>1
  <2>3. /\ Len(buffer') <= given'
        /\ \A j \in 1 .. Len(buffer') : buffer'[j] = text'[Consumed' + j]
    BY <1>3, <1>4, <1>5
  <2>4. QED
    BY <2>2, <2>3 DEF StreamInv
<1>8. StartKnown(text, Consumed)'
  BY <1>2, <1>3, <1>4 DEF StartKnown, LineStart, NewlinesIn
<1>9. Advance(span.end, r) = LocationAt(text', Consumed') \/ AtEOF'
  <2>1. CASE Advance(span.end, r) = LocationAt(text, ReadBy(r))
    BY <1>3, <1>4, <2>1
  <2>2. CASE r.ch = EOF /\ r.given = Len(text) /\ r.buffer = <<>>
    BY <1>3, <2>2 DEF AtEOF
  <2>3. QED
    BY <1>2, <2>1, <2>2
<1>10. QED
  BY <1>2, <1>4, <1>6, <1>7, <1>8, <1>9

(* The tokens after one is made.                                           *)
LEMMA Returned ==
    ASSUME LexInv, Waiting, NEW r, NEW tok \in TokenKinds, NEW s \in Seq(Int),
           Return(r, tok, s), span' \in Spans, text' = text,
           tok # "EOF_TOK" => StartRight(span'.start, span'.first)
    PROVE  /\ token' \in Seq(Int)
           /\ peeked' \in Seq(Tokens) /\ delivered' \in Seq(Tokens) /\ produced' \in Seq(Tokens)
           /\ ProducedInv' /\ OrderInv'
           /\ mode' = "idle"
<1> DEFINE new == [token |-> tok, str |-> s, start |-> span'.start, first |-> span'.first]
<1>1. /\ peeked = <<>> /\ delivered \o Reverse(peeked) = produced
      /\ delivered \in Seq(Tokens) /\ produced \in Seq(Tokens)
      /\ ProducedInv
  BY DEF LexInv, LexTypes, OrderInv
<1>2. delivered = produced
  <2>1. delivered \o Reverse(<<>>) = delivered
    BY <1>1, NothingReversed
  <2>2. QED
    BY <1>1, <2>1
<1>3. new \in Tokens
  BY DEF Spans, Tokens
<1>4. /\ mode' = "idle" /\ token' = s /\ produced' = Append(produced, new)
      /\ IF asked = "peek" THEN peeked' = Append(peeked, new) /\ delivered' = delivered
                           ELSE delivered' = Append(delivered, new) /\ peeked' = peeked
  BY DEF Return
<1>5. /\ tok # "EOF_TOK" => StartRight(new.start, new.first)
      /\ new.token = tok
  OBVIOUS
<1> HIDE DEF new
<1>6. /\ produced' \in Seq(Tokens) /\ Len(produced') = Len(produced) + 1
      /\ \A i \in 1 .. Len(produced) : produced'[i] = produced[i]
      /\ produced'[Len(produced) + 1] = new
  BY <1>1, <1>3, <1>4, AppendProperties
<1>7. ProducedInv'
  <2>1. ASSUME NEW i \in 1 .. Len(produced'), produced'[i].token # "EOF_TOK"
        PROVE  StartRight(produced'[i].start, produced'[i].first)
    <3>1. CASE i \in 1 .. Len(produced)
      BY <1>1, <1>6, <2>1, <3>1 DEF ProducedInv
    <3>2. CASE i = Len(produced) + 1
      BY <1>5, <1>6, <2>1, <3>2
    <3>3. QED
      BY <1>1, <1>6, <3>1, <3>2
  <2>2. QED
    BY <2>1 DEF ProducedInv, StartRight
<1>8. CASE asked = "peek"
  <2>1. peeked' = <<new>> /\ delivered' = delivered
    BY <1>1, <1>4, <1>8
  <2>2. delivered \o Reverse(<<new>>) = Append(delivered, new)
    BY <1>1, <1>3, OneReversed
  <2>3. peeked' \in Seq(Tokens)
    BY <1>3, <2>1
  <2>4. OrderInv'
    BY <1>2, <1>4, <2>1, <2>2 DEF OrderInv, Waiting
  <2>5. QED
    BY <1>1, <1>4, <1>6, <1>7, <2>1, <2>3, <2>4
<1>9. CASE asked # "peek"
  <2>1. peeked' = <<>> /\ delivered' = Append(delivered, new)
    BY <1>1, <1>4, <1>9
  <2>2. delivered' \in Seq(Tokens)
    BY <1>1, <1>3, <2>1
  <2>3. delivered' \o Reverse(<<>>) = delivered'
    BY <2>2, NothingReversed
  <2>4. peeked' \in Seq(Tokens)
    BY <2>1
  <2>5. OrderInv'
    BY <1>2, <1>4, <2>1, <2>3 DEF OrderInv, Waiting
  <2>6. QED
    BY <1>4, <1>6, <1>7, <2>2, <2>4, <2>5
<1>10. QED
  BY <1>8, <1>9

-----------------------------------------------------------------------------
(* What a character does *)

(* The scanner goes on, in the token it was in if it is in one.            *)
Goes(r) == /\ CharsMove(r) /\ token' \in Seq(Int)
           /\ span' = [span EXCEPT !.end = Advance(span.end, r)]
           /\ mode' \notin {"idle", "error"} /\ (InToken' => InToken)
           /\ UNCHANGED <<asked, peeked, delivered, produced>>

(* A token is made.                                                        *)
Finishes(r) == /\ CharsMove(r)
               /\ span' = [span EXCEPT !.end = Advance(span.end, r)]
               /\ \E tok \in TokenKinds, s \in Seq(Int) :
                      Return(r, tok, s) /\ (tok # "EOF_TOK" => InToken)

(* A token begins; a parenthesis is one.                                   *)
Begins(r) == /\ CharsMove(r) /\ r.ch # EOF /\ r.ch # Newline
             /\ span' = [start |-> Advance(span.end, r), end |-> Advance(span.end, r),
                         first |-> Position(r)]
             /\ \/ \E tok \in TokenKinds, s \in Seq(Int) : Return(r, tok, s)
                \/ /\ token' \in Seq(Int) /\ mode' # "idle"
                   /\ UNCHANGED <<asked, peeked, delivered, produced>>

(* The program ends with an error.                                         *)
Fails(r) == /\ CharsMove(r) /\ mode' = "error"
            /\ UNCHANGED <<token, span, asked, peeked, delivered, produced>>

(* The end of the span moves.                                              *)
LEMMA EndMoves ==
    ASSUME NEW sp \in Spans, NEW e \in Locations
    PROVE  /\ [sp EXCEPT !.end = e] \in Spans
           /\ [sp EXCEPT !.end = e].end = e
           /\ [sp EXCEPT !.end = e].start = sp.start
           /\ [sp EXCEPT !.end = e].first = sp.first
  BY DEF Spans

LEMMA GoesPreserves ==
    ASSUME LexInv, Waiting, NEW r, r = NextChar, Goes(r)
    PROVE  LexInv'
<1>1. CharsMove(r) /\ mode # "error" /\ LexTypes
  BY DEF Goes, Waiting, LexInv
<1>2. /\ text' \in Seq(Bytes) /\ given' \in 0 .. Len(text') /\ buffer' \in Seq(Bytes)
      /\ saved' = <<>> \/ \E ch \in Characters : saved' = <<ch>>
      /\ StreamInv' /\ StartKnown(text, Consumed)'
      /\ Advance(span.end, r) \in Locations
      /\ Advance(span.end, r) = LocationAt(text', Consumed') \/ AtEOF'
  BY <1>1, StreamMoves
<1>3. /\ span' \in Spans /\ span'.end = Advance(span.end, r)
      /\ span'.start = span.start /\ span'.first = span.first
  BY <1>1, <1>2, EndMoves DEF Goes, LexTypes
<1>4. /\ token' \in Seq(Int) /\ peeked' = peeked /\ delivered' = delivered
      /\ produced' = produced /\ text' = text
      /\ (InToken' => InToken)
  BY DEF Goes, CharsMove
<1>5. LexTypes'
  BY <1>1, <1>2, <1>3, <1>4 DEF LexTypes
<1>6. PlaceInv'
  BY <1>2, <1>3 DEF PlaceInv
<1>7. TokenInv'
  BY <1>3, <1>4 DEF LexInv, TokenInv, StartRight
<1>8. ProducedInv'
  BY <1>4 DEF LexInv, ProducedInv, StartRight
<1>9. OrderInv'
  BY <1>4 DEF LexInv, OrderInv
<1>10. QED
  BY <1>2, <1>5, <1>6, <1>7, <1>8, <1>9 DEF LexInv

LEMMA FinishesPreserves ==
    ASSUME LexInv, Waiting, NEW r, r = NextChar, Finishes(r)
    PROVE  LexInv'
<1>1. CharsMove(r) /\ mode # "error" /\ LexTypes /\ text' = text
  BY DEF Finishes, Waiting, LexInv, CharsMove
<1>2. /\ text' \in Seq(Bytes) /\ given' \in 0 .. Len(text') /\ buffer' \in Seq(Bytes)
      /\ saved' = <<>> \/ \E ch \in Characters : saved' = <<ch>>
      /\ StreamInv' /\ StartKnown(text, Consumed)'
      /\ Advance(span.end, r) \in Locations
      /\ Advance(span.end, r) = LocationAt(text', Consumed') \/ AtEOF'
  BY <1>1, StreamMoves
<1>3. /\ span' \in Spans /\ span'.end = Advance(span.end, r)
      /\ span'.start = span.start /\ span'.first = span.first
  BY <1>1, <1>2, EndMoves DEF Finishes, LexTypes
<1>4. PICK tok \in TokenKinds, s \in Seq(Int) : Return(r, tok, s) /\ (tok # "EOF_TOK" => InToken)
  BY DEF Finishes
<1>5. tok # "EOF_TOK" => StartRight(span'.start, span'.first)
  BY <1>3, <1>4 DEF LexInv, TokenInv
<1>6. /\ token' \in Seq(Int)
      /\ peeked' \in Seq(Tokens) /\ delivered' \in Seq(Tokens) /\ produced' \in Seq(Tokens)
      /\ ProducedInv' /\ OrderInv'
      /\ mode' = "idle"
  BY <1>1, <1>3, <1>4, <1>5, Returned
<1>7. LexTypes'
  BY <1>2, <1>3, <1>6 DEF LexTypes
<1>8. PlaceInv'
  BY <1>2, <1>3 DEF PlaceInv
<1>9. TokenInv'
  BY <1>6 DEF TokenInv, InToken
<1>10. QED
  BY <1>2, <1>6, <1>7, <1>8, <1>9 DEF LexInv

LEMMA FailsPreserves ==
    ASSUME LexInv, Waiting, NEW r, r = NextChar, Fails(r)
    PROVE  LexInv'
<1>1. CharsMove(r) /\ mode # "error" /\ LexTypes
  BY DEF Fails, Waiting, LexInv
<1>2. /\ text' \in Seq(Bytes) /\ given' \in 0 .. Len(text') /\ buffer' \in Seq(Bytes)
      /\ saved' = <<>> \/ \E ch \in Characters : saved' = <<ch>>
      /\ StreamInv' /\ StartKnown(text, Consumed)'
  BY <1>1, StreamMoves
<1>3. /\ token' = token /\ span' = span /\ peeked' = peeked /\ delivered' = delivered
      /\ produced' = produced /\ text' = text /\ mode' = "error"
  BY DEF Fails, CharsMove
<1>4. LexTypes'
  BY <1>1, <1>2, <1>3 DEF LexTypes
<1>5. PlaceInv' /\ TokenInv'
  BY <1>2, <1>3 DEF PlaceInv, TokenInv, InToken
<1>6. ProducedInv'
  BY <1>3 DEF LexInv, ProducedInv, StartRight
<1>7. OrderInv'
  BY <1>3 DEF LexInv, OrderInv, Waiting
<1>8. QED
  BY <1>2, <1>4, <1>5, <1>6, <1>7 DEF LexInv

(* The location of a token is that of its first character.                 *)
LEMMA StartIsRight ==
    ASSUME LexInv, mode # "error", NEW r, r = NextChar, r.ch # EOF, r.ch # Newline
    PROVE  /\ Position(r) \in Int
           /\ StartRight(Advance(span.end, r), Position(r))
<1> DEFINE q == ReadBy(r)
           e == Advance(span.end, r)
<1>1. /\ CharRead(r) /\ q \in Nat /\ StartKnown(text, q)
      /\ e = LocationAt(text, q)
      /\ q >= 1 /\ Is(r.ch, text[q]) /\ text[q] \in Bytes
  BY Moved DEF LexInv
<1>2. Position(r) = q - 1
  BY DEF Position, ReadBy
<1>3. text[q] # Newline
  BY <1>1, ByteRead
<1> HIDE DEF q, e
<1>4. NewlinesIn(text, q) = NewlinesIn(text, q - 1)
  BY <1>1, <1>3 DEF NewlinesIn
<1>5. LineStart(text, q) = LineStart(text, q - 1)
  BY <1>4 DEF LineStart
<1>6. (q - 1) + 1 = q /\ q - 1 \in Int
  BY <1>1
<1>7. /\ e.line = Modulo(1 + Cardinality(NewlinesIn(text, q)))
      /\ e.column = Modulo(q - LineStart(text, q))
  BY <1>1 DEF LocationAt, Location
<1>8. StartRight(e, q - 1)
  <2>0. LineStart(text, q) \in Int /\ q \in Int
    BY <1>1 DEF StartKnown
  <2>1. (q - 1) + 1 - LineStart(text, q - 1) = q - LineStart(text, q)
    BY <1>5, <2>0
  <2>2. QED
    BY <1>4, <1>7, <2>1, Zenon DEF StartRight
<1>9. QED
  BY <1>2, <1>6, <1>8 DEF e

LEMMA BeginsPreserves ==
    ASSUME LexInv, Waiting, NEW r, r = NextChar, Begins(r)
    PROVE  LexInv'
<1>1. /\ CharsMove(r) /\ mode # "error" /\ LexTypes /\ text' = text
      /\ r.ch # EOF /\ r.ch # Newline
  BY DEF Begins, Waiting, LexInv, CharsMove
<1>2. /\ text' \in Seq(Bytes) /\ given' \in 0 .. Len(text') /\ buffer' \in Seq(Bytes)
      /\ saved' = <<>> \/ \E ch \in Characters : saved' = <<ch>>
      /\ StreamInv' /\ StartKnown(text, Consumed)'
      /\ Advance(span.end, r) \in Locations
      /\ Advance(span.end, r) = LocationAt(text', Consumed') \/ AtEOF'
  BY <1>1, StreamMoves
<1>3. Position(r) \in Int /\ StartRight(Advance(span.end, r), Position(r))
  BY <1>1, StartIsRight
<1>4. /\ span' \in Spans /\ span'.end = Advance(span.end, r)
      /\ span'.start = Advance(span.end, r) /\ span'.first = Position(r)
  BY <1>2, <1>3 DEF Begins, Spans
<1>5. StartRight(span'.start, span'.first)
  BY <1>3, <1>4
<1>6. PlaceInv'
  BY <1>2, <1>4 DEF PlaceInv
<1>7. TokenInv'
  BY <1>1, <1>5 DEF TokenInv, StartRight
<1>8. CASE \E tok \in TokenKinds, s \in Seq(Int) : Return(r, tok, s)
  <2>1. PICK tok \in TokenKinds, s \in Seq(Int) : Return(r, tok, s)
    BY <1>8
  <2>2. /\ token' \in Seq(Int)
        /\ peeked' \in Seq(Tokens) /\ delivered' \in Seq(Tokens) /\ produced' \in Seq(Tokens)
        /\ ProducedInv' /\ OrderInv'
    BY <1>1, <1>4, <1>5, <2>1, Returned
  <2>3. LexTypes'
    BY <1>2, <1>4, <2>2 DEF LexTypes
  <2>4. QED
    BY <1>2, <1>6, <1>7, <2>2, <2>3 DEF LexInv
<1>9. CASE /\ token' \in Seq(Int) /\ mode' # "idle"
           /\ UNCHANGED <<asked, peeked, delivered, produced>>
  <2>1. LexTypes'
    BY <1>1, <1>2, <1>4, <1>9 DEF LexTypes
  <2>2. ProducedInv'
    BY <1>1, <1>9 DEF LexInv, ProducedInv, StartRight
  <2>3. OrderInv'
    BY <1>9 DEF LexInv, OrderInv, Waiting
  <2>4. QED
    BY <1>2, <1>6, <1>7, <2>1, <2>2, <2>3 DEF LexInv
<1>10. QED
  BY <1>8, <1>9 DEF Begins

Does(r) == Goes(r) \/ Finishes(r) \/ Begins(r) \/ Fails(r)

LEMMA DoesPreserves ==
    ASSUME LexInv, Waiting, NEW r, r = NextChar, Does(r)
    PROVE  LexInv'
  BY GoesPreserves, FinishesPreserves, BeginsPreserves, FailsPreserves DEF Does

(* A character belongs to the text of a token.                             *)
LEMMA TextGrows ==
    ASSUME LexInv, mode # "error", NEW r, r = NextChar
    PROVE  /\ r.ch \in Int /\ r.ch % 256 \in Int
           /\ token \in Seq(Int) /\ Append(token, r.ch % 256) \in Seq(Int)
           /\ Append(token, Bar) \in Seq(Int)
           /\ <<r.ch>> \in Seq(Int) /\ <<r.ch % 256>> \in Seq(Int)
<1>1. r.ch \in Characters /\ token \in Seq(Int)
  BY Moved DEF CharRead, LexInv, LexTypes
<1>2. r.ch \in Int /\ r.ch % 256 \in Int
  <2>0. \A n \in Characters : n \in Int
    BY DEF Characters
  <2>1. r.ch \in Int
    BY <1>1, <2>0, Zenon
  <2>2. \A n \in Int : n % 256 \in Int
    OBVIOUS
  <2>3. QED
    BY <2>1, <2>2
<1>3. QED
  BY <1>1, <1>2 DEF Bar

LEMMA PushGoes ==
    ASSUME LexInv, Waiting, NEW r, r = NextChar, NEW next, Push(r, next), text' = text,
           next \notin {"idle", "skip", "comment", "error"}, InToken
    PROVE  Goes(r)
<1>1. mode # "error"
  BY DEF Waiting
<1>2. Append(token, r.ch % 256) \in Seq(Int)
  BY <1>1, TextGrows
<1>3. QED
  BY <1>2 DEF Push, Go, Goes, CharsMove

LEMMA SomeFinish ==
    ASSUME NEW r, NEW tok \in TokenKinds, NEW s \in Seq(Int), Finish(r, tok, s),
           Take(r) \/ Save(r), text' = text, tok = "EOF_TOK" \/ InToken
    PROVE  Finishes(r)
  BY DEF Finish, Finishes, CharsMove

LEMMA SomeFailure ==
    ASSUME NEW r, ParseError(r), text' = text
    PROVE  Fails(r)
  BY DEF ParseError, Fails, CharsMove, tokenVars

-----------------------------------------------------------------------------
(* The steps of the scanner *)

LEMMA SymbolTokenType == ASSUME NEW s PROVE SymbolToken(s) \in TokenKinds
  BY DEF SymbolToken, TokenKinds

LEMMA TokenOfType ==
    ASSUME NEW s, mode \in {"binary", "hexadecimal", "keywordRest", "symbol", "decimal", "rational"}
    PROVE  TokenOf(mode, s) \in TokenKinds
<1>1. SymbolToken(s) \in TokenKinds
  BY SymbolTokenType
<1>2. QED
  BY <1>1 DEF TokenOf, TokenKinds

LEMMA SkipBlankDoes ==
    ASSUME LexInv, SkipBlank, text' = text, NEW r, r = NextChar
    PROVE  Goes(r)
<1>1. /\ mode = "skip" /\ Take(r) /\ token' = token
      /\ Go(r, IF r.ch = Semicolon THEN "comment" ELSE "skip")
  BY DEF SkipBlank
<1>2. token \in Seq(Int)
  BY DEF LexInv, LexTypes
<1>3. mode' \in {"skip", "comment"}
  BY <1>1 DEF Go
<1>4. QED
  BY <1>1, <1>2, <1>3 DEF Go, Goes, CharsMove, InToken

LEMMA SkipCommentDoes ==
    ASSUME LexInv, SkipComment, text' = text, NEW r, r = NextChar
    PROVE  Does(r)
<1>1. CASE r.ch = EOF
  <2>1. Take(r) /\ Finish(r, "EOF_TOK", <<>>)
    BY <1>1 DEF SkipComment, CommentEnds
  <2>2. "EOF_TOK" \in TokenKinds /\ <<>> \in Seq(Int)
    BY DEF TokenKinds
  <2>3. Finishes(r)
    BY <2>1, <2>2, SomeFinish
  <2>4. QED
    BY <2>3 DEF Does
<1>2. CASE r.ch # EOF
  <2>1. Take(r) /\ token' = token /\ Go(r, IF r.ch = Newline THEN "skip" ELSE "comment")
    BY <1>2 DEF SkipComment
  <2>2. token \in Seq(Int)
    BY DEF LexInv, LexTypes
  <2>3. mode' \in {"skip", "comment"}
    BY <2>1 DEF Go
  <2>4. Goes(r)
    BY <2>1, <2>2, <2>3 DEF Go, Goes, CharsMove, InToken
  <2>5. QED
    BY <2>4 DEF Does
<1>3. QED
  BY <1>1, <1>2

LEMMA EndOfInputDoes ==
    ASSUME EndOfInput, text' = text, NEW r, r = NextChar
    PROVE  Finishes(r)
<1>1. Take(r) /\ Finish(r, "EOF_TOK", <<>>)
  BY DEF EndOfInput
<1>2. "EOF_TOK" \in TokenKinds /\ <<>> \in Seq(Int)
  BY DEF TokenKinds
<1>3. QED
  BY <1>1, <1>2, SomeFinish

LEMMA FirstCharDoes ==
    ASSUME LexInv, FirstChar, text' = text, NEW r, r = NextChar
    PROVE  Begins(r)
<1>1. /\ mode = "skip"
      /\ r.ch # EOF /\ ~InClass(r.ch, Whitespace) /\ Take(r)
      /\ span' = [start |-> Advance(span.end, r), end |-> Advance(span.end, r),
                  first |-> Position(r)]
      /\ CASE r.ch = 40 -> Return(r, "LPAREN", <<r.ch>>)
           [] r.ch = 41 -> Return(r, "RPAREN", <<r.ch>>)
           [] OTHER -> /\ mode' = ModeAfter(r.ch)
                       /\ token' = <<r.ch % 256>>
                       /\ UNCHANGED <<asked, tokenVars>>
  BY DEF FirstChar
<1>2. r.ch # Newline
  <2>1. Newline % 256 = 10
    BY DEF Newline
  <2>2. QED
    BY <1>1, <2>1 DEF InClass, Whitespace, Newline
<1>3. <<r.ch>> \in Seq(Int) /\ <<r.ch % 256>> \in Seq(Int)
  BY <1>1, TextGrows
<1>4. CASE r.ch \in {40, 41}
  <2>1. \E tok \in {"LPAREN", "RPAREN"} : Return(r, tok, <<r.ch>>)
    BY <1>1, <1>4
  <2>2. \E tok \in TokenKinds, s \in Seq(Int) : Return(r, tok, s)
    BY <1>3, <2>1 DEF TokenKinds
  <2>3. QED
    BY <1>1, <1>2, <2>2 DEF Begins, CharsMove
<1>5. CASE r.ch \notin {40, 41}
  <2>1. /\ mode' = ModeAfter(r.ch) /\ token' = <<r.ch % 256>>
        /\ UNCHANGED <<asked, peeked, delivered, produced>>
    BY <1>1, <1>5 DEF tokenVars
  <2>2. mode' # "idle"
    BY <2>1 DEF ModeAfter
  <2>3. QED
    BY <1>1, <1>2, <1>3, <2>1, <2>2 DEF Begins, CharsMove
<1>6. QED
  BY <1>4, <1>5

LEMMA QuotedCharDoes ==
    ASSUME LexInv, QuotedChar, text' = text, NEW r, r = NextChar
    PROVE  Does(r)
<1>1. mode = "quoted" /\ InToken /\ Waiting /\ mode # "error"
  BY DEF QuotedChar, InToken, Waiting
<1>2. /\ token \in Seq(Int) /\ Append(token, Bar) \in Seq(Int)
  BY <1>1, TextGrows
<1>3. CASE r.ch = EOF
  <2>1. Take(r) /\ Finish(r, "UNTERMINATED_QUOTED_SYMBOL", token)
    BY <1>1, <1>3 DEF QuotedChar, EOF, Bar
  <2>2. "UNTERMINATED_QUOTED_SYMBOL" \in TokenKinds
    BY DEF TokenKinds
  <2>3. Finishes(r)
    BY <1>1, <1>2, <2>1, <2>2, SomeFinish
  <2>4. QED
    BY <2>3 DEF Does
<1>4. CASE r.ch # EOF /\ r.ch = Bar
  <2>1. Take(r) /\ Finish(r, "QUOTED_SYMBOL", Append(token, Bar))
    BY <1>1, <1>4 DEF QuotedChar, EOF, Bar
  <2>2. "QUOTED_SYMBOL" \in TokenKinds
    BY DEF TokenKinds
  <2>3. Finishes(r)
    BY <1>1, <1>2, <2>1, <2>2, SomeFinish
  <2>4. QED
    BY <2>3 DEF Does
<1>5. CASE r.ch # EOF /\ r.ch # Bar
  <2>1. Push(r, "quoted")
    BY <1>1, <1>5 DEF QuotedChar, EOF, Bar
  <2>2. "quoted" \notin {"idle", "skip", "comment", "error"}
    BY <1>1
  <2>3. Goes(r)
    BY <1>1, <2>1, <2>2, PushGoes
  <2>4. QED
    BY <2>3 DEF Does
<1>6. QED
  BY <1>1, <1>3, <1>4, <1>5

LEMMA HashCharDoes ==
    ASSUME LexInv, HashChar, text' = text, NEW r, r = NextChar
    PROVE  Does(r)
<1>1. mode = "hash" /\ InToken /\ Waiting /\ mode # "error"
  BY DEF HashChar, InToken, Waiting
<1>2. /\ token \in Seq(Int) /\ Append(token, Bar) \in Seq(Int)
  BY <1>1, TextGrows
<1>3. CASE r.ch = 98
  <2>1. Push(r, "binary")
    BY <1>1, <1>3 DEF HashChar
  <2>2. "binary" \notin {"idle", "skip", "comment", "error"}
    BY <1>1
  <2>3. Goes(r)
    BY <1>1, <2>1, <2>2, PushGoes
  <2>4. QED
    BY <2>3 DEF Does
<1>4. CASE r.ch = 120
  <2>1. Push(r, "hexadecimal")
    BY <1>1, <1>4 DEF HashChar
  <2>2. "hexadecimal" \notin {"idle", "skip", "comment", "error"}
    BY <1>1
  <2>3. Goes(r)
    BY <1>1, <2>1, <2>2, PushGoes
  <2>4. QED
    BY <2>3 DEF Does
<1>5. CASE r.ch \notin {98, 120}
  <2>1. ParseError(r)
    BY <1>1, <1>5 DEF HashChar
  <2>2. QED
    BY <2>1, SomeFailure DEF Does
<1>6. QED
  BY <1>1, <1>3, <1>4, <1>5

LEMMA StringCharDoes ==
    ASSUME LexInv, StringChar, text' = text, NEW r, r = NextChar
    PROVE  Does(r)
<1>1. mode = "string" /\ InToken /\ Waiting /\ mode # "error"
  BY DEF StringChar, InToken, Waiting
<1>2. /\ token \in Seq(Int) /\ Append(token, Bar) \in Seq(Int)
  BY <1>1, TextGrows
<1>3. CASE r.ch = EOF
  <2>1. Take(r) /\ Finish(r, "UNTERMINATED_STRING_LITERAL", token)
    BY <1>1, <1>3 DEF StringChar, EOF, DoubleQuote
  <2>2. "UNTERMINATED_STRING_LITERAL" \in TokenKinds
    BY DEF TokenKinds
  <2>3. Finishes(r)
    BY <1>1, <1>2, <2>1, <2>2, SomeFinish
  <2>4. QED
    BY <2>3 DEF Does
<1>4. CASE r.ch # EOF /\ r.ch = DoubleQuote
  <2>1. Push(r, "stringQuote")
    BY <1>1, <1>4 DEF StringChar, EOF, DoubleQuote
  <2>2. "stringQuote" \notin {"idle", "skip", "comment", "error"}
    BY <1>1
  <2>3. Goes(r)
    BY <1>1, <2>1, <2>2, PushGoes
  <2>4. QED
    BY <2>3 DEF Does
<1>5. CASE r.ch # EOF /\ r.ch # DoubleQuote
  <2>1. Push(r, "string")
    BY <1>1, <1>5 DEF StringChar, EOF, DoubleQuote
  <2>2. "string" \notin {"idle", "skip", "comment", "error"}
    BY <1>1
  <2>3. Goes(r)
    BY <1>1, <2>1, <2>2, PushGoes
  <2>4. QED
    BY <2>3 DEF Does
<1>6. QED
  BY <1>1, <1>3, <1>4, <1>5

LEMMA AfterQuoteDoes ==
    ASSUME LexInv, AfterQuote, text' = text, NEW r, r = NextChar
    PROVE  Does(r)
<1>1. mode = "stringQuote" /\ InToken /\ Waiting /\ mode # "error"
  BY DEF AfterQuote, InToken, Waiting
<1>2. /\ token \in Seq(Int) /\ Append(token, Bar) \in Seq(Int)
  BY <1>1, TextGrows
<1>3. CASE r.ch = DoubleQuote
  <2>1. Push(r, "string")
    BY <1>1, <1>3 DEF AfterQuote
  <2>2. "string" \notin {"idle", "skip", "comment", "error"}
    BY <1>1
  <2>3. Goes(r)
    BY <1>1, <2>1, <2>2, PushGoes
  <2>4. QED
    BY <2>3 DEF Does
<1>4. CASE r.ch # DoubleQuote
  <2>1. Save(r) /\ Finish(r, "STRING_LITERAL", token)
    BY <1>1, <1>4 DEF AfterQuote
  <2>2. "STRING_LITERAL" \in TokenKinds
    BY DEF TokenKinds
  <2>3. Finishes(r)
    BY <1>1, <1>2, <2>1, <2>2, SomeFinish
  <2>4. QED
    BY <2>3 DEF Does
<1>5. QED
  BY <1>1, <1>3, <1>4

LEMMA KeywordCharDoes ==
    ASSUME LexInv, KeywordChar, text' = text, NEW r, r = NextChar
    PROVE  Does(r)
<1>1. mode = "keyword" /\ InToken /\ Waiting /\ mode # "error"
  BY DEF KeywordChar, InToken, Waiting
<1>2. /\ token \in Seq(Int) /\ Append(token, Bar) \in Seq(Int)
  BY <1>1, TextGrows
<1>3. CASE InClass(r.ch, SymbolStart)
  <2>1. Push(r, "keywordSecond")
    BY <1>1, <1>3 DEF KeywordChar
  <2>2. "keywordSecond" \notin {"idle", "skip", "comment", "error"}
    BY <1>1
  <2>3. Goes(r)
    BY <1>1, <2>1, <2>2, PushGoes
  <2>4. QED
    BY <2>3 DEF Does
<1>4. CASE ~InClass(r.ch, SymbolStart)
  <2>1. ParseError(r)
    BY <1>1, <1>4 DEF KeywordChar
  <2>2. QED
    BY <2>1, SomeFailure DEF Does
<1>5. QED
  BY <1>1, <1>3, <1>4

LEMMA KeywordSecondDoes ==
    ASSUME LexInv, KeywordSecond, text' = text, NEW r, r = NextChar
    PROVE  Does(r)
<1>1. mode = "keywordSecond" /\ InToken /\ Waiting /\ mode # "error"
  BY DEF KeywordSecond, InToken, Waiting
<1>2. /\ token \in Seq(Int) /\ Append(token, Bar) \in Seq(Int)
  BY <1>1, TextGrows
<1>3. CASE InClass(r.ch, SymbolChars)
  <2>1. Push(r, "keywordRest")
    BY <1>1, <1>3 DEF KeywordSecond
  <2>2. "keywordRest" \notin {"idle", "skip", "comment", "error"}
    BY <1>1
  <2>3. Goes(r)
    BY <1>1, <2>1, <2>2, PushGoes
  <2>4. QED
    BY <2>3 DEF Does
<1>4. CASE ~InClass(r.ch, SymbolChars)
  <2>1. Take(r) /\ Finish(r, "KEYWORD", token)
    BY <1>1, <1>4 DEF KeywordSecond
  <2>2. "KEYWORD" \in TokenKinds
    BY DEF TokenKinds
  <2>3. Finishes(r)
    BY <1>1, <1>2, <2>1, <2>2, SomeFinish
  <2>4. QED
    BY <2>3 DEF Does
<1>5. QED
  BY <1>1, <1>3, <1>4

LEMMA ListCharDoes ==
    ASSUME LexInv, ListChar, text' = text, NEW r, r = NextChar
    PROVE  Does(r)
<1>1. mode \in {"binary", "hexadecimal", "keywordRest", "symbol", "number", "decimal", "rational"} /\ InToken /\ Waiting /\ mode # "error"
  BY DEF ListChar, InToken, Waiting
<1>2. /\ token \in Seq(Int) /\ Append(token, Bar) \in Seq(Int)
  BY <1>1, TextGrows
<1>3. CASE InClass(r.ch, ClassOf(mode))
  <2>1. Push(r, mode)
    BY <1>1, <1>3 DEF ListChar
  <2>2. mode \notin {"idle", "skip", "comment", "error"}
    BY <1>1
  <2>3. Goes(r)
    BY <1>1, <2>1, <2>2, PushGoes
  <2>4. QED
    BY <2>3 DEF Does
<1>4. CASE ~InClass(r.ch, ClassOf(mode)) /\ mode = "number"
  <2>1. Save(r) /\ token' = token /\ Go(r, "numberEnd")
    BY <1>1, <1>4 DEF ListChar
  <2>2. Goes(r)
    BY <1>1, <1>2, <2>1 DEF Go, Goes, CharsMove
  <2>3. QED
    BY <2>2 DEF Does
<1>5. CASE ~InClass(r.ch, ClassOf(mode)) /\ mode # "number"
  <2>1. Save(r) /\ Finish(r, TokenOf(mode, token), token)
    BY <1>1, <1>5 DEF ListChar
  <2>2. TokenOf(mode, token) \in TokenKinds
    BY <1>1, <1>5, TokenOfType
  <2>3. Finishes(r)
    BY <1>1, <1>2, <2>1, <2>2, SomeFinish
  <2>4. QED
    BY <2>3 DEF Does
<1>6. QED
  BY <1>1, <1>3, <1>4, <1>5

LEMMA NumberEndDoes ==
    ASSUME LexInv, NumberEnd, text' = text, NEW r, r = NextChar
    PROVE  Does(r)
<1>1. mode = "numberEnd" /\ InToken /\ Waiting /\ mode # "error"
  BY DEF NumberEnd, InToken, Waiting
<1>2. /\ token \in Seq(Int) /\ Append(token, Bar) \in Seq(Int)
  BY <1>1, TextGrows
<1>3. CASE r.ch = Dot
  <2>1. Push(r, "decimalFirst")
    BY <1>1, <1>3 DEF NumberEnd, Dot, Slash
  <2>2. "decimalFirst" \notin {"idle", "skip", "comment", "error"}
    BY <1>1
  <2>3. Goes(r)
    BY <1>1, <2>1, <2>2, PushGoes
  <2>4. QED
    BY <2>3 DEF Does
<1>4. CASE r.ch # Dot /\ r.ch = Slash
  <2>1. Push(r, "rationalFirst")
    BY <1>1, <1>4 DEF NumberEnd, Dot, Slash
  <2>2. "rationalFirst" \notin {"idle", "skip", "comment", "error"}
    BY <1>1
  <2>3. Goes(r)
    BY <1>1, <2>1, <2>2, PushGoes
  <2>4. QED
    BY <2>3 DEF Does
<1>5. CASE r.ch # Dot /\ r.ch # Slash
  <2>1. Save(r) /\ Finish(r, "INTEGER_LITERAL", token)
    BY <1>1, <1>5 DEF NumberEnd, Dot, Slash
  <2>2. "INTEGER_LITERAL" \in TokenKinds
    BY DEF TokenKinds
  <2>3. Finishes(r)
    BY <1>1, <1>2, <2>1, <2>2, SomeFinish
  <2>4. QED
    BY <2>3 DEF Does
<1>6. QED
  BY <1>1, <1>3, <1>4, <1>5

LEMMA FractionFirstDoes ==
    ASSUME LexInv, FractionFirst, text' = text, NEW r, r = NextChar
    PROVE  Does(r)
<1>1. mode \in {"decimalFirst", "rationalFirst"} /\ InToken /\ Waiting /\ mode # "error"
  BY DEF FractionFirst, InToken, Waiting
<1>2. /\ token \in Seq(Int) /\ Append(token, Bar) \in Seq(Int)
  BY <1>1, TextGrows
<1>3. CASE InClass(r.ch, DecimalDigits)
  <2>1. Push(r, (IF mode = "decimalFirst" THEN "decimal" ELSE "rational"))
    BY <1>1, <1>3 DEF FractionFirst
  <2>2. (IF mode = "decimalFirst" THEN "decimal" ELSE "rational") \notin {"idle", "skip", "comment", "error"}
    BY <1>1
  <2>3. Goes(r)
    BY <1>1, <2>1, <2>2, PushGoes
  <2>4. QED
    BY <2>3 DEF Does
<1>4. CASE ~InClass(r.ch, DecimalDigits)
  <2>1. ParseError(r)
    BY <1>1, <1>4 DEF FractionFirst
  <2>2. QED
    BY <2>1, SomeFailure DEF Does
<1>5. QED
  BY <1>1, <1>3, <1>4

(* Every character read does one of the four.                              *)
LEMMA ScanDoes ==
    ASSUME LexInv, Scan, NEW r, r = NextChar
    PROVE  Waiting /\ Does(r)
<1>1. r = NextChar
  OBVIOUS
<1>2. text' = text
  BY DEF Scan, streamVars
<1>3. Waiting
  BY DEF Scan, Waiting, SkipBlank, SkipComment, EndOfInput, FirstChar, QuotedChar, HashChar,
         StringChar, AfterQuote, KeywordChar, KeywordSecond, ListChar, NumberEnd, FractionFirst
<1>4. Does(r)
  <2>1. CASE SkipBlank
    BY <1>1, <1>2, <2>1, SkipBlankDoes DEF Does
  <2>2. CASE SkipComment
    BY <1>1, <1>2, <2>2, SkipCommentDoes
  <2>3. CASE EndOfInput
    BY <1>1, <1>2, <2>3, EndOfInputDoes DEF Does
  <2>4. CASE FirstChar
    BY <1>1, <1>2, <2>4, FirstCharDoes DEF Does
  <2>5. CASE QuotedChar
    BY <1>1, <1>2, <2>5, QuotedCharDoes
  <2>6. CASE HashChar
    BY <1>1, <1>2, <2>6, HashCharDoes
  <2>7. CASE StringChar
    BY <1>1, <1>2, <2>7, StringCharDoes
  <2>8. CASE AfterQuote
    BY <1>1, <1>2, <2>8, AfterQuoteDoes
  <2>9. CASE KeywordChar
    BY <1>1, <1>2, <2>9, KeywordCharDoes
  <2>10. CASE KeywordSecond
    BY <1>1, <1>2, <2>10, KeywordSecondDoes
  <2>11. CASE ListChar
    BY <1>1, <1>2, <2>11, ListCharDoes
  <2>12. CASE NumberEnd
    BY <1>1, <1>2, <2>12, NumberEndDoes
  <2>13. CASE FractionFirst
    BY <1>1, <1>2, <2>13, FractionFirstDoes
  <2>14. QED
    BY <2>1, <2>2, <2>3, <2>4, <2>5, <2>6, <2>7, <2>8, <2>9, <2>10, <2>11, <2>12, <2>13 DEF Scan
<1>5. QED
  BY <1>3, <1>4

(* Every character read keeps the invariant.                               *)
LEMMA ScanPreserves ==
    ASSUME LexInv, Scan
    PROVE  LexInv'
<1>1. PICK r : r = NextChar
  OBVIOUS
<1>2. Waiting /\ Does(r)
  BY <1>1, ScanDoes
<1>3. QED
  BY <1>1, <1>2, DoesPreserves

-----------------------------------------------------------------------------
(* The calls *)

(* bumpSpan before a token.                                                *)
LEMMA BeginPreserves ==
    ASSUME LexInv, mode = "idle", peeked = <<>>, NEW call, Begin(call)
    PROVE  LexInv'
<1>1. /\ mode' = "skip" /\ token' = <<>>
      /\ span' = [span EXCEPT !.start = span.end]
      /\ UNCHANGED <<text, given, buffer, saved, peeked, delivered, produced>>
  BY DEF Begin, streamVars, charVars, tokenVars
<1>2. span \in Spans /\ span.end \in Locations
  BY DEF LexInv, LexTypes, Spans
<1>3. span' \in Spans /\ span'.end = span.end
  BY <1>1, <1>2 DEF Spans
<1>4. <<>> \in Seq(Int)
  OBVIOUS
<1>5. LexTypes'
  BY <1>1, <1>3, <1>4 DEF LexInv, LexTypes
<1>6. StreamInv'
  BY <1>1 DEF LexInv, StreamInv, Consumed
<1>7. PlaceInv'
  BY <1>1, <1>3 DEF LexInv, PlaceInv, Consumed, StartKnown, LineStart, NewlinesIn, LocationAt,
                    AtEOF
<1>8. TokenInv' /\ ProducedInv'
  BY <1>1 DEF LexInv, TokenInv, InToken, ProducedInv, StartRight
<1>9. OrderInv'
  BY <1>1 DEF LexInv, OrderInv
<1>10. QED
  BY <1>5, <1>6, <1>7, <1>8, <1>9 DEF LexInv

(* Tokens go from one hand to the other.                                   *)
LEMMA TokensMove ==
    ASSUME LexInv, mode = "idle",
           delivered' \in Seq(Tokens), peeked' \in Seq(Tokens),
           delivered' \o Reverse(peeked') = delivered \o Reverse(peeked),
           UNCHANGED <<text, given, buffer, saved, token, span, mode, produced>>
    PROVE  LexInv'
<1>1. LexTypes'
  BY DEF LexInv, LexTypes
<1>2. StreamInv'
  BY DEF LexInv, StreamInv, Consumed
<1>3. PlaceInv'
  BY DEF LexInv, PlaceInv, Consumed, StartKnown, LineStart, NewlinesIn, LocationAt, AtEOF
<1>4. TokenInv' /\ ProducedInv'
  BY DEF LexInv, TokenInv, InToken, ProducedInv, StartRight
<1>5. OrderInv'
  BY DEF LexInv, OrderInv, Waiting
<1>6. QED
  BY <1>1, <1>2, <1>3, <1>4, <1>5 DEF LexInv

LEMMA NextTokenPreserves ==
    ASSUME LexInv, NextToken
    PROVE  LexInv'
<1>1. CASE peeked = <<>>
  <2>1. Begin("next")
    BY <1>1 DEF NextToken
  <2>2. QED
    BY <1>1, <2>1, BeginPreserves DEF NextToken
<1>2. CASE peeked # <<>>
  <2>1. /\ mode = "idle" /\ TakePeeked
    BY <1>2 DEF NextToken
  <2>2. /\ delivered' = Append(delivered, Last(peeked)) /\ peeked' = Front(peeked)
        /\ UNCHANGED <<text, given, buffer, saved, token, span, mode, produced>>
    BY <2>1 DEF TakePeeked, streamVars, charVars
  <2>3. delivered \in Seq(Tokens) /\ peeked \in Seq(Tokens)
    BY DEF LexInv, LexTypes
  <2>4. /\ delivered' \in Seq(Tokens) /\ peeked' \in Seq(Tokens)
        /\ delivered' \o Reverse(peeked') = delivered \o Reverse(peeked)
    <3>1. /\ Append(delivered, Last(peeked)) \in Seq(Tokens) /\ Front(peeked) \in Seq(Tokens)
          /\ Append(delivered, Last(peeked)) \o Reverse(Front(peeked))
                = delivered \o Reverse(peeked)
      BY <1>2, <2>3, HandedOut
    <3>2. QED
      BY <2>2, <3>1
  <2>5. QED
    BY <2>1, <2>2, <2>4, TokensMove
<1>3. QED
  BY <1>1, <1>2

LEMMA ReinsertTokenPreserves ==
    ASSUME LexInv, ReinsertToken
    PROVE  LexInv'
<1>1. /\ mode = "idle" /\ delivered # <<>>
      /\ peeked' = Append(peeked, Last(delivered)) /\ delivered' = Front(delivered)
      /\ UNCHANGED <<text, given, buffer, saved, token, span, mode, produced>>
  BY DEF ReinsertToken, streamVars, charVars
<1>2. delivered \in Seq(Tokens) /\ peeked \in Seq(Tokens)
  BY DEF LexInv, LexTypes
<1>3. /\ delivered' \in Seq(Tokens) /\ peeked' \in Seq(Tokens)
      /\ delivered' \o Reverse(peeked') = delivered \o Reverse(peeked)
  <2>1. /\ Front(delivered) \in Seq(Tokens) /\ Append(peeked, Last(delivered)) \in Seq(Tokens)
        /\ Front(delivered) \o Reverse(Append(peeked, Last(delivered)))
              = delivered \o Reverse(peeked)
    BY <1>1, <1>2, TakenBack
  <2>2. QED
    BY <1>1, <2>1
<1>4. QED
  BY <1>1, <1>3, TokensMove

LEMMA LexVarsPreserve ==
    ASSUME LexInv, UNCHANGED lexVars
    PROVE  LexInv'
<1>1. /\ delivered' = delivered /\ peeked' = peeked
      /\ UNCHANGED <<text, given, buffer, saved, token, span, mode, produced>>
  BY DEF lexVars
<1>2. LexTypes'
  BY <1>1 DEF LexInv, LexTypes
<1>3. StreamInv'
  BY <1>1 DEF LexInv, StreamInv, Consumed
<1>4. PlaceInv'
  BY <1>1 DEF LexInv, PlaceInv, Consumed, StartKnown, LineStart, NewlinesIn, LocationAt, AtEOF
<1>5. TokenInv' /\ ProducedInv'
  BY <1>1 DEF LexInv, TokenInv, InToken, ProducedInv, StartRight
<1>6. OrderInv'
  BY <1>1 DEF LexInv, OrderInv, Waiting
<1>7. QED
  BY <1>2, <1>3, <1>4, <1>5, <1>6 DEF LexInv

-----------------------------------------------------------------------------
(* The theorems *)

LEMMA LexInvInit ==
    ASSUME ReaderInit
    PROVE  LexInv
<1>1. text \in Seq(Bytes)
  <2>1. <<>> \in Seq(Bytes)
    OBVIOUS
  <2>2. text \in Texts \/ (\E l \in Printables : text = PrintedLeaf(l)) \/ text = <<>>
    BY DEF ReaderInit
  <2>3. QED
    BY <2>1, <2>2, InputsAreBytes
<1>2. /\ given = 0 /\ buffer = <<>> /\ saved = <<>> /\ token = <<>>
      /\ span = [start |-> Location(1, 0), end |-> Location(1, 0), first |-> 0]
      /\ mode = "idle" /\ peeked = <<>> /\ delivered = <<>> /\ produced = <<>>
  BY DEF ReaderInit, Init
<1>3. /\ <<>> \in Seq(Bytes) /\ <<>> \in Seq(Int) /\ <<>> \in Seq(Tokens)
      /\ Len(<<>>) = 0
  OBVIOUS
<1>4. Location(1, 0) \in Locations
  BY DEF Location, Locations
<1>5. span \in Spans /\ span.end = Location(1, 0)
  BY <1>2, <1>4 DEF Spans
<1>6. LexTypes
  <2>1. 0 \in 0 .. Len(text)
    BY <1>1
  <2>2. QED
    BY <1>1, <1>2, <1>3, <1>5, <2>1 DEF LexTypes
<1>7. Consumed = 0
  <2>1. Len(buffer) = 0 /\ given = 0
    BY <1>2
  <2>2. QED
    BY <2>1 DEF Consumed
<1>8. StreamInv
  BY <1>2, <1>3 DEF StreamInv
<1>9. PlaceInv
  BY <1>5, <1>7, LocationFirst DEF PlaceInv
<1>10. TokenInv /\ ProducedInv
  BY <1>2, <1>3 DEF TokenInv, InToken, ProducedInv
<1>11. OrderInv
  <2>1. <<>> \o Reverse(<<>>) = <<>>
    BY <1>3, NothingReversed
  <2>2. QED
    BY <1>2, <2>1 DEF OrderInv
<1>12. QED
  BY <1>6, <1>8, <1>9, <1>10, <1>11 DEF LexInv

LEMMA LexInvNext ==
    ASSUME LexInv, [Next]_vars
    PROVE  LexInv'
<1>1. CASE Call
  <2>1. NextToken \/ PeekToken
    BY <1>1 DEF Call
  <2>2. CASE PeekToken
    BY <2>2, BeginPreserves DEF PeekToken
  <2>3. QED
    BY <2>1, <2>2, NextTokenPreserves
<1>2. CASE PutBack
  BY <1>2, ReinsertTokenPreserves DEF PutBack
<1>3. CASE Scanning
  BY <1>3, ScanPreserves DEF Scanning
<1>4. CASE UNCHANGED lexVars
  BY <1>4, LexVarsPreserve
<1>5. ReadLiteral \/ ReadParenthesis \/ (\E k \in AllOps : Apply(k)) \/ UNCHANGED vars
          => UNCHANGED lexVars
  BY DEF ReadLiteral, ReadParenthesis, Apply, vars, lexVars
<1>6. QED
  BY <1>1, <1>2, <1>3, <1>4, <1>5 DEF Next

(* Whatever the input, the size of the blocks it is read in and the number *)
(* of tokens put back: tokens are handed out in the order they were made,  *)
(* none lost and none twice (nextToken, peekToken, reinsertToken).         *)
THEOREM TokensInOrder == Spec => []DeliveredInOrder
<1>1. ReaderInit => LexInv
  BY LexInvInit
<1>2. LexInv /\ [Next]_vars => LexInv'
  BY LexInvNext
<1>3. LexInv => DeliveredInOrder
  BY DEF LexInv, OrderInv, DeliveredInOrder
<1>4. QED
  BY <1>1, <1>2, <1>3, PTL DEF Spec

(* Whatever the input and the size of the blocks it is read in: the line   *)
(* and column of a token are those of its first character, though the      *)
(* scanner has read on by then, may have saved a character and is past the *)
(* end of a block (nextChar, saveChar, bumpSpan, Span, Location).          *)
THEOREM LocationsRight == Spec => []LocationRight
<1>1. ReaderInit => LexInv
  BY LexInvInit
<1>2. LexInv /\ [Next]_vars => LexInv'
  BY LexInvNext
<1>3. LexInv => LocationRight
  <2>1. LexInv => produced \in Seq(Tokens) /\ DOMAIN produced = 1 .. Len(produced)
    BY DEF LexInv, LexTypes
  <2>2. QED
    BY <2>1 DEF LexInv, ProducedInv, LocationRight, StartRight, NewlinesIn, LineStart
<1>4. QED
  BY <1>1, <1>2, <1>3, PTL DEF Spec

-----------------------------------------------------------------------------
(* Operands and results *)

(* Only ends of the input.                                                 *)
Ends(s) == \A i \in 1 .. Len(s) : s[i].token = "EOF_TOK"

(* An input without characters gives nothing but its end, so that operands *)
(* stay what they were.                                                    *)
NothingToRead ==
    text = <<>> =>
        /\ saved = <<>> /\ mode \in {"idle", "skip"}
        /\ Ends(delivered) /\ Ends(peeked)
        /\ \/ values = <<>>
           \/ values \in Operands /\ mode = "idle" /\ delivered = <<>>

(* The result is that of an operator on the operands that are still there. *)
ResultInv ==
    \/ result = None
    \/ /\ text = <<>> /\ values # <<>> /\ values \in Operands
       /\ result.op \in AllOps /\ ArityOk(result.op, Len(values))
       /\ result.value = EvaluateLiterals(result.op, values)

(* What every reachable state satisfies: the lexer's own invariant, what   *)
(* an empty input allows, and what the last result was computed from.      *)
ReaderInv == LexInv /\ NothingToRead /\ ResultInv

(* The end of the input is read.                                           *)
LEMMA OnlyTheEnd ==
    ASSUME LexInv, text = <<>>, saved = <<>>, NEW r, r = NextChar
    PROVE  r.ch = EOF
<1>1. CharRead(r)
  BY NextCharRead DEF LexInv
<1>2. Len(text) = 0
  OBVIOUS
<1>3. given = 0 /\ Len(buffer) \in Nat /\ Len(buffer) <= given
  BY <1>2 DEF LexInv, LexTypes, StreamInv
<1>4. Consumed = 0
  BY <1>3 DEF Consumed
<1>5. r.given = 0 /\ Len(r.buffer) \in Nat
  BY <1>1, <1>2 DEF CharRead
<1>6. ReadBy(r) <= 0
  BY <1>5 DEF ReadBy
<1>7. ReadBy(r) # Consumed + 1
  <2>1. ReadBy(r) \in Int
    BY <1>5 DEF ReadBy
  <2>2. QED
    BY <1>4, <1>6, <2>1
<1>8. QED
  BY <1>1, <1>7 DEF CharRead

(* Another end is put behind ends.                                           *)
LEMMA MoreEnds ==
    ASSUME NEW S, NEW s \in Seq(S), Ends(s), NEW made, made.token = "EOF_TOK"
    PROVE  Ends(Append(s, made))
<1>1. PICK t : t = Append(s, made)
  OBVIOUS
<1>2. Len(t) = Len(s) + 1 /\ \A i \in 1 .. Len(t) : t[i] = IF i <= Len(s) THEN s[i] ELSE made
  BY <1>1
<1>3. ASSUME NEW i \in 1 .. Len(t) PROVE t[i].token = "EOF_TOK"
  BY <1>2 DEF Ends
<1>4. QED
  BY <1>1, <1>3 DEF Ends

(* The last of ends is taken away.                                         *)
LEMMA FewerEnds ==
    ASSUME NEW S, NEW s \in Seq(S), Ends(s), s # <<>>
    PROVE  Ends(Front(s)) /\ Last(s).token = "EOF_TOK"
<1>1. PICK n, t : n = Len(s) /\ t = Front(s) /\ n \in Nat /\ n > 0
  OBVIOUS
<1>2. Len(t) = n - 1 /\ (\A i \in 1 .. n - 1 : t[i] = s[i]) /\ Last(s) = s[n]
  BY <1>1, FrontFacts
<1>3. QED
  BY <1>1, <1>2 DEF Ends

(* The scanner reaches the end of an input without characters.             *)
LEMMA ScanNothing ==
    ASSUME LexInv, NothingToRead, text = <<>>, Scan, UNCHANGED values
    PROVE  NothingToRead'
<1>1. mode = "skip"
  <2>1. Waiting
    BY DEF Scan, Waiting, SkipBlank, SkipComment, EndOfInput, FirstChar, QuotedChar, HashChar,
           StringChar, AfterQuote, KeywordChar, KeywordSecond, ListChar, NumberEnd, FractionFirst
  <2>2. QED
    BY <2>1 DEF NothingToRead, Waiting
<1>2. values = <<>> /\ saved = <<>>
  BY <1>1 DEF NothingToRead
<1>3. PICK r : r = NextChar
  OBVIOUS
<1>4. r.ch = EOF
  BY <1>2, <1>3, OnlyTheEnd
<1>5. ~InClass(r.ch, Whitespace) /\ r.ch # Semicolon
  <2>1. PICK x \in Int, d \in Nat, q \in Int, c \in Nat :
          x = EOF /\ x = d * q + c /\ d = 256 /\ c = 255
    <3>1. -1 = 256 * (-1) + 255 /\ -1 \in Int
      OBVIOUS
    <3>2. QED
      BY <3>1 DEF EOF
  <2>2. d >= 1 /\ c < d
    BY <2>1
  <2>3. x % d = c
    BY <2>1, <2>2, DivUnique
  <2>4. QED
    BY <1>4, <2>1, <2>3 DEF InClass, Whitespace, Semicolon, Newline, EOF
<1>6. EndOfInput
  <2>1. ~SkipBlank /\ ~FirstChar
    BY <1>3, <1>4, <1>5 DEF SkipBlank, FirstChar
  <2>2. ~SkipComment /\ ~QuotedChar /\ ~HashChar /\ ~StringChar /\ ~AfterQuote /\ ~KeywordChar
        /\ ~KeywordSecond /\ ~ListChar /\ ~NumberEnd /\ ~FractionFirst
    BY <1>1 DEF SkipComment, QuotedChar, HashChar, StringChar, AfterQuote, KeywordChar,
                KeywordSecond, ListChar, NumberEnd, FractionFirst
  <2>3. QED
    BY <2>1, <2>2 DEF Scan
<1>7. Take(r) /\ Finish(r, "EOF_TOK", <<>>)
  BY <1>3, <1>6 DEF EndOfInput
<1>8. PICK made : /\ made.token = "EOF_TOK"
                  /\ \/ peeked' = Append(peeked, made) /\ UNCHANGED delivered
                     \/ delivered' = Append(delivered, made) /\ UNCHANGED peeked
  BY <1>7 DEF Finish, Return
<1>9. mode' = "idle" /\ saved' = <<>>
  BY <1>7 DEF Finish, Return, Take
<1>10. peeked \in Seq(Tokens) /\ delivered \in Seq(Tokens)
  BY DEF LexInv, LexTypes
<1>11. Ends(delivered) /\ Ends(peeked)
  BY DEF NothingToRead
<1>12. Ends(delivered') /\ Ends(peeked')
  BY <1>8, <1>10, <1>11, MoreEnds
<1>13. QED
  BY <1>2, <1>9, <1>12 DEF NothingToRead

(* What is handed out of an input without characters is its end.           *)
LEMMA HeldIsEnd ==
    ASSUME LexInv, NothingToRead, text = <<>>, delivered # <<>>
    PROVE  AtEnd
<1>1. delivered \in Seq(Tokens)
  BY DEF LexInv, LexTypes
<1>2. PICK n \in Nat : n = Len(delivered) /\ n \in 1 .. Len(delivered)
  BY <1>1
<1>3. delivered[n].token = "EOF_TOK"
  BY <1>2 DEF NothingToRead, Ends
<1>4. QED
  BY <1>2, <1>3 DEF AtEnd, Last

(* So is a token of which no value was made yet.                           *)
LEMMA UnreadIsEnd ==
    ASSUME LexInv, NothingToRead, text = <<>>, Unread
    PROVE  AtEnd
<1>1. PICK vs : vs = values
  OBVIOUS
<1>2. CASE vs = <<>>
  <2>1. Len(vs) = 0
    BY <1>2
  <2>2. Len(delivered) > 0
    BY <1>1, <2>1 DEF Unread
  <2>3. delivered # <<>>
    BY <2>2
  <2>4. QED
    BY <2>3, HeldIsEnd
<1>3. CASE vs # <<>>
  <2>1. vs \in Operands /\ delivered = <<>>
    BY <1>1, <1>3 DEF NothingToRead
  <2>2. vs \in Seq(Range(vs))
    BY <2>1, OperandsAreValues
  <2>3. Len(vs) \in Nat
    BY <2>2
  <2>4. Len(vs) < 0
    BY <1>1, <2>1 DEF Unread
  <2>5. QED
    BY <2>3, <2>4
<1>4. QED
  BY <1>2, <1>3

(* The stream is not written to.                                           *)
LEMMA TextKept ==
    ASSUME Next
    PROVE  text' = text
<1>1. CASE Call
  BY <1>1 DEF Call, NextToken, PeekToken, Begin, TakePeeked, streamVars
<1>2. CASE PutBack
  BY <1>2 DEF PutBack, ReinsertToken, streamVars
<1>3. CASE Scanning
  BY <1>3 DEF Scanning, Scan, streamVars
<1>4. CASE ReadLiteral \/ ReadParenthesis \/ \E k \in AllOps : Apply(k)
  BY <1>4 DEF ReadLiteral, ReadParenthesis, Apply, lexVars
<1>5. QED
  BY <1>1, <1>2, <1>3, <1>4 DEF Next

(* An input without characters stays without.                              *)
LEMMA NothingToReadNext ==
    ASSUME ReaderInv, Next
    PROVE  NothingToRead'
<1>1. text' = text
  BY TextKept DEF ReaderInv
<1>2. SUFFICES ASSUME text = <<>> PROVE NothingToRead'
  BY <1>1 DEF NothingToRead
<1>3. LexInv /\ NothingToRead
  BY DEF ReaderInv
<1>4. CASE Call
  <2>1. values = <<>> /\ UNCHANGED values
    BY <1>2, <1>4 DEF Call, readerVars
  <2>2. peeked \in Seq(Tokens) /\ delivered \in Seq(Tokens)
    BY <1>3 DEF LexInv, LexTypes
  <2>3. CASE NextToken /\ peeked # <<>>
    <3>1. /\ delivered' = Append(delivered, Last(peeked)) /\ peeked' = Front(peeked)
          /\ UNCHANGED <<saved, mode>>
      BY <2>3 DEF NextToken, TakePeeked, charVars
    <3>2. Ends(delivered) /\ Ends(peeked)
      BY <1>2, <1>3 DEF NothingToRead
    <3>3. Ends(Front(peeked)) /\ Last(peeked).token = "EOF_TOK"
      BY <2>2, <2>3, <3>2, FewerEnds
    <3>4. Ends(delivered') /\ Ends(peeked')
      BY <2>2, <3>1, <3>2, <3>3, MoreEnds
    <3>5. QED
      BY <1>2, <1>3, <2>1, <3>1, <3>4 DEF NothingToRead
  <2>4. CASE ~(NextToken /\ peeked # <<>>)
    <3>1. \E call : Begin(call)
      BY <1>4, <2>4 DEF Call, NextToken, PeekToken
    <3>2. mode' = "skip" /\ UNCHANGED <<saved, delivered, peeked>>
      BY <3>1 DEF Begin, charVars, tokenVars
    <3>3. QED
      BY <1>2, <1>3, <2>1, <3>2 DEF NothingToRead
  <2>5. QED
    BY <2>3, <2>4
<1>5. CASE PutBack
  BY <1>2, <1>3, <1>5, HeldIsEnd DEF PutBack, ReinsertToken
<1>6. CASE Scanning
  BY <1>2, <1>3, <1>6, ScanNothing DEF Scanning, readerVars
<1>7. CASE ReadLiteral
  BY <1>2, <1>3, <1>7, UnreadIsEnd DEF ReadLiteral
<1>8. CASE ReadParenthesis
  BY <1>2, <1>3, <1>8, UnreadIsEnd DEF ReadParenthesis, AtEnd
<1>9. CASE \E k \in AllOps : Apply(k)
  BY <1>2, <1>3, <1>9 DEF Apply, NothingToRead, lexVars
<1>10. QED
  BY <1>4, <1>5, <1>6, <1>7, <1>8, <1>9 DEF Next

(* Nothing but the first application of an operator changes operands or    *)
(* result.                                                                 *)
LEMMA ResultInvNext ==
    ASSUME ReaderInv, Next
    PROVE  ResultInv'
<1>1. text' = text /\ LexInv /\ NothingToRead /\ ResultInv
  BY TextKept DEF ReaderInv
<1>2. ASSUME NEW k \in AllOps, Apply(k) PROVE ResultInv'
  <2>1. /\ text = <<>> /\ values # <<>> /\ ArityOk(k, Len(values))
        /\ result' = [op |-> k, value |-> EvaluateLiterals(k, values)] /\ values' = values
    BY <1>2 DEF Apply
  <2>2. values \in Operands
    BY <1>1, <2>1 DEF NothingToRead
  <2>3. result'.op = k /\ result'.value = EvaluateLiterals(k, values)
    BY <2>1
  <2>4. QED
    BY <1>1, <2>1, <2>2, <2>3 DEF ResultInv
<1>3. ASSUME UNCHANGED <<values, result>> PROVE ResultInv'
  BY <1>1, <1>3 DEF ResultInv
<1>4. CASE Call \/ Scanning
  BY <1>3, <1>4 DEF Call, Scanning, readerVars
<1>5. CASE PutBack \/ ReadLiteral \/ ReadParenthesis
  <2>1. UNCHANGED result
    BY <1>5 DEF PutBack, ReadLiteral, ReadParenthesis
  <2>2. CASE result = None
    BY <2>1, <2>2 DEF ResultInv
  <2>3. CASE result # None
    <3>1. text = <<>> /\ delivered = <<>>
      BY <1>1, <2>3 DEF ResultInv, NothingToRead
    <3>2. Unread
      BY <1>5, <3>1 DEF PutBack, ReadLiteral, ReadParenthesis
    <3>3. AtEnd
      BY <1>1, <3>1, <3>2, UnreadIsEnd
    <3>4. QED
      BY <3>1, <3>3 DEF AtEnd
  <2>4. QED
    BY <2>2, <2>3
<1>6. QED
  BY <1>2, <1>4, <1>5 DEF Next

(* The three invariants hold at the start and are kept by every step.      *)
LEMMA ReaderInvInit ==
    ASSUME ReaderInit
    PROVE  ReaderInv
<1>1. LexInv
  BY LexInvInit
<1>2. ResultInv
  BY DEF ReaderInit, ResultInv
<1>3. NothingToRead
  <2>1. saved = <<>> /\ mode = "idle" /\ delivered = <<>> /\ peeked = <<>>
    BY DEF ReaderInit, Init
  <2>2. Ends(delivered) /\ Ends(peeked)
    BY <2>1 DEF Ends
  <2>3. values = <<>> \/ values \in Operands
    BY DEF ReaderInit
  <2>4. QED
    BY <2>1, <2>2, <2>3 DEF NothingToRead
<1>4. QED
  BY <1>1, <1>2, <1>3 DEF ReaderInv

LEMMA ReaderInvNext ==
    ASSUME ReaderInv, [Next]_vars
    PROVE  ReaderInv'
<1>1. LexInv'
  BY LexInvNext DEF ReaderInv
<1>2. CASE Next
  BY <1>1, <1>2, NothingToReadNext, ResultInvNext DEF ReaderInv
<1>3. CASE UNCHANGED vars
  BY <1>1, <1>3 DEF ReaderInv, NothingToRead, ResultInv, Ends, vars, lexVars, readerVars
<1>4. QED
  BY <1>2, <1>3

(* The operator and the operands that a result is of.                      *)
ResultOf(k, args) ==
    /\ args \in Seq(Range(args)) /\ (\A l \in Range(args) : IsValue(l)) /\ args # <<>>
    /\ ArityOk(k, Len(args))
    /\ k = result.op /\ args = values
    /\ result.value = Evaluate(k, args)

(* A result is of operands that the constant names, as many as the         *)
(* operator takes.                                                         *)
LEMMA ResultFacts ==
    ASSUME ReaderInv
    PROVE  result = None \/ \E k, args : ResultOf(k, args)
<1>1. SUFFICES ASSUME result # None PROVE \E k, args : ResultOf(k, args)
  OBVIOUS
<1>2. PICK k, args : k = result.op /\ args = values
  OBVIOUS
<1>3. /\ args # <<>> /\ args \in Operands /\ ArityOk(k, Len(args))
      /\ result.value = EvaluateLiterals(k, args)
  BY <1>1, <1>2 DEF ReaderInv, ResultInv
<1>4. ResultOf(k, args)
  BY <1>2, <1>3, OperandsAreValues DEF ResultOf, EvaluateLiterals
<1>5. QED
  BY <1>4

(* Whatever the operands: a value has the type of the application it is of *)
(* (getLiteralOpType), with the two exceptions named there.                *)
THEOREM ValuesAreTyped == Spec => []ValueHasOpType
<1>1. ReaderInv => ValueHasOpType
  <2>1. SUFFICES ASSUME ReaderInv PROVE ValueHasOpType
    OBVIOUS
  <2>2. CASE result = None
    BY <2>2, Kinds DEF None, ValueHasOpType
  <2>3. CASE \E k, args : ResultOf(k, args)
    <3>1. PICK k, args : ResultOf(k, args)
      BY <2>3
    <3>2. PICK l : l = result.value /\ l = Evaluate(k, args)
      BY <3>1 DEF ResultOf
    <3>3. KindRight(k, args, l)
      BY <3>1, <3>2, EvaluatedKind DEF ResultOf
    <3>4. QED
      BY <3>1, <3>2, <3>3 DEF ResultOf, KindRight, ValueHasOpType, Nothing, Operand
  <2>4. QED
    BY <2>1, <2>2, <2>3, ResultFacts
<1>2. QED
  BY <1>1, ReaderInvInit, ReaderInvNext, PTL DEF Spec

(* Whatever the width of the operands: a bit-vector is below the power of  *)
(* its width, and negation, complement and concatenation are undone.       *)
THEOREM BitVectorsStayBelow == Spec => []BitVectorsWrap
<1>1. ReaderInv => BitVectorsWrap
  <2>1. SUFFICES ASSUME ReaderInv, result.value.kind \in BitKinds PROVE BitVectorsWrap
    BY DEF BitVectorsWrap
  <2>2. result # None
    BY <2>1, Kinds DEF None, BitKinds
  <2>3. PICK k, args : ResultOf(k, args)
    BY <2>1, <2>2, ResultFacts
  <2>4. PICK l, a, b : l = result.value /\ a = args[1] /\ b = args[2]
    OBVIOUS
  <2>5. l = Evaluate(k, args) /\ l.kind \in BitKinds
    BY <2>1, <2>3, <2>4 DEF ResultOf
  <2>6. Fits(l)
    BY <2>3, <2>5, EvaluatedFits DEF ResultOf
  <2>7. /\ k = "EVAL_NEG" => l.aux = a.aux /\ (a.int + l.int) % (2 ^ l.aux) = 0
        /\ k = "EVAL_NOT" => BitsOf(l) = (0 .. l.aux - 1) \ BitsOf(a)
        /\ k = "EVAL_CONCAT" /\ Len(args) = 2 => l.aux = a.aux + b.aux /\ Halves(l, a, b)
    BY <2>3, <2>4, <2>5, EvaluatedBits DEF ResultOf
  <2>8. 0 <= l.int /\ l.int < 2 ^ l.aux
    BY <2>6 DEF Fits
  <2>9. k = result.op /\ a = Operand(1) /\ b = Operand(2) /\ args = values
    BY <2>3, <2>4 DEF ResultOf, Operand
  <2>10. QED
    BY <2>4, <2>7, <2>8, <2>9 DEF BitVectorsWrap, Halves
<1>2. QED
  BY <1>1, ReaderInvInit, ReaderInvNext, PTL DEF Spec

(* Whatever the operands, numerals or bit-vectors: quotient and remainder  *)
(* recompose the dividend, the remainder is smaller than the divisor and,  *)
(* for a positive divisor, the quotient is rounded down.                   *)
THEOREM DivisionsRecompose == Spec => []DivisionRecomposes
<1>1. ReaderInv => DivisionRecomposes
  <2>1. SUFFICES ASSUME ReaderInv, result.op \in {"EVAL_INT_DIV", "EVAL_INT_MOD"},
                        result.value # NoLiteral
                 PROVE  DivisionRecomposes
    BY DEF DivisionRecomposes
  <2>2. result # None
    BY <2>1 DEF None
  <2>3. PICK k, args : ResultOf(k, args)
    BY <2>1, <2>2, ResultFacts
  <2>4. k \in {"EVAL_INT_DIV", "EVAL_INT_MOD"} /\ Evaluate(k, args) # NoLiteral
    BY <2>1, <2>3 DEF ResultOf
  <2>5. PICK a, b, q, r : /\ a = args[1] /\ b = args[2]
                          /\ q = Evaluate("EVAL_INT_DIV", args).int
                          /\ r = Evaluate("EVAL_INT_MOD", args).int
    OBVIOUS
  <2>6. IF b.int = 0 THEN q = 2 ^ a.aux - 1 /\ r = a.int ELSE Recomposes(a.int, b.int, q, r)
    BY <2>3, <2>4, <2>5, EvaluatedDivision DEF ResultOf
  <2>7. Len(args) = 2
    <3>1. ArityOk(k, Len(args)) /\ k \notin NaryOps /\ k # "EVAL_EXTRACT"
      BY <2>3, <2>4 DEF ResultOf, NaryOps
    <3>2. QED
      BY <2>4, <3>1 DEF ArityOk
  <2>8. ArityOk("EVAL_INT_DIV", Len(args)) /\ ArityOk("EVAL_INT_MOD", Len(args))
    BY <2>7 DEF ArityOk
  <2>9. q = Quotient.int /\ r = Remainder.int
    BY <2>3, <2>5, <2>8 DEF ResultOf, Quotient, Remainder, EvaluateLiterals
  <2>10. a = Operand(1) /\ b = Operand(2)
    BY <2>3, <2>5 DEF ResultOf, Operand
  <2>11. ASSUME r \in Nat PROVE r >= 0 /\ Abs(r) = r
    BY <2>11 DEF Abs
  <2>12. QED
    BY <2>6, <2>9, <2>10, <2>11 DEF DivisionRecomposes, Recomposes
<1>2. QED
  BY <1>1, ReaderInvInit, ReaderInvNext, PTL DEF Spec

(* Whatever the string or bit-vector and the positions: eo::extract        *)
(* selects what lies between them.                                         *)
THEOREM ExtractsSelect == Spec => []ExtractSelects
<1>1. ReaderInv => ExtractSelects
  <2>1. SUFFICES ASSUME ReaderInv, result.op = "EVAL_EXTRACT", Len(values) = 3,
                        Operand(2).kind = "NUMERAL", Operand(3).kind = "NUMERAL"
                 PROVE  ExtractSelects
    BY DEF ExtractSelects
  <2>2. result # None
    BY <2>1 DEF None
  <2>3. PICK k, args : ResultOf(k, args)
    BY <2>1, <2>2, ResultFacts
  <2>4. PICK a, low, high, size, v : /\ a = args[1] /\ low = args[2].int /\ high = args[3].int
                                     /\ size = SizeOf(a) /\ v = result.value
    OBVIOUS
  <2>5. PICK chosen : chosen = ChosenOf(size, low, high)
    OBVIOUS
  <2>6. /\ args = values /\ Len(args) >= 3 /\ v = Evaluate("EVAL_EXTRACT", args)
        /\ args[2].kind = "NUMERAL" /\ args[3].kind = "NUMERAL"
    <3>1. args = values /\ k = "EVAL_EXTRACT" /\ v = Evaluate(k, args)
      BY <2>1, <2>3, <2>4 DEF ResultOf
    <3>2. Len(args) = Len(values)
      BY <3>1
    <3>3. Len(args) >= 3
      BY <2>1, <3>2
    <3>4. args[2].kind = "NUMERAL" /\ args[3].kind = "NUMERAL"
      BY <2>1, <3>1 DEF Operand
    <3>5. QED
      BY <3>1, <3>3, <3>4
  <2>7. Selection(v, a, low, high, size, chosen)
    BY <2>3, <2>4, <2>5, <2>6, EvaluatedExtract DEF ResultOf
  <2>8. a = Operand(1) /\ low = Operand(2).int /\ high = Operand(3).int
    BY <2>4, <2>6 DEF Operand
  <2>9. QED
    BY <2>4, <2>5, <2>7, <2>8 DEF ExtractSelects, Selection, SizeOf, ChosenOf, BitKinds
<1>2. QED
  BY <1>1, ReaderInvInit, ReaderInvNext, PTL DEF Spec

=============================================================================
