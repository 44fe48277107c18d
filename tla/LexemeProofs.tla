----------------------------- MODULE LexemeProofs ----------------------------
(***************************************************************************)
(* Proofs that the tokens are the longest lexemes of the text and that     *)
(* errors are reported where no token can be made, for inputs of any       *)
(* length, blocks of any size and any number of tokens put back.           *)
(*                                                                         *)
(* What is said of a lexeme is said of texts first: what may follow a      *)
(* piece of text in a longer lexeme depends on the piece.  Then the        *)
(* scanner: where in the text it is (At, Passed), and that what it has     *)
(* read of a token is such a piece (Inside, Grammar).                      *)
(***************************************************************************)
EXTENDS ReaderProofs

-----------------------------------------------------------------------------
(* Quotes in pairs *)

(* What PairedFrom says of the place i, with what it says of later places. *)
PairedStep(s, g, i) ==
    IF i >= Len(s) THEN i = Len(s)
    ELSE IF s[i] # DoubleQuote THEN g[i + 1]
    ELSE s[i + 1] = DoubleQuote /\ i + 1 < Len(s) /\ g[i + 2]

(* A function that is right about the last places of s.                    *)
PairedLast(s, k, g) ==
    g = [i \in 2 .. Len(s) + 1 |-> IF i >= (Len(s) + 1) - k THEN PairedStep(s, g, i) ELSE FALSE]

(* PairedFrom is a function of the places of a text with two characters.   *)
LEMMA PairedExists ==
    ASSUME NEW s \in Seq(Int), NEW n \in Nat, n = Len(s), n >= 2
    PROVE  \E g : g = [i \in 2 .. n + 1 |-> PairedStep(s, g, i)]
<1> DEFINE Good == {k \in Nat : k <= n - 1 => \E g : PairedLast(s, k, g)}
<1>1. 0 \in Good
  <2> DEFINE h == [i \in 2 .. n + 1 |-> FALSE]
  <2>1. ASSUME NEW i \in 2 .. n + 1
        PROVE  h[i] = IF i >= (n + 1) - 0 THEN PairedStep(s, h, i) ELSE FALSE
    <3>1. CASE i >= n + 1
      <4>1. i >= Len(s) /\ ~(i = Len(s))
        BY <3>1
      <4>2. PairedStep(s, h, i) = FALSE
        BY <4>1 DEF PairedStep
      <4>3. QED
        BY <4>2
    <3>2. CASE ~(i >= n + 1)
      BY <3>2
    <3>3. QED
      BY <3>1, <3>2
  <2>2. h = [i \in 2 .. n + 1 |-> IF i >= (n + 1) - 0 THEN PairedStep(s, h, i) ELSE FALSE]
    BY <2>1
  <2>3. PairedLast(s, 0, h)
    BY <2>2, Zenon DEF PairedLast
  <2>4. QED
    BY <2>3
<1>2. ASSUME NEW k \in Nat, k \in Good PROVE k + 1 \in Good
  <2>1. SUFFICES ASSUME k + 1 <= n - 1 PROVE \E g : PairedLast(s, k + 1, g)
    OBVIOUS
  <2>2. k <= n - 1
    BY <2>1
  <2>3. PICK g : PairedLast(s, k, g)
    BY <1>2, <2>2
  <2>4. g = [i \in 2 .. n + 1 |-> IF i >= (n + 1) - k THEN PairedStep(s, g, i) ELSE FALSE]
    BY <2>3, Zenon DEF PairedLast
  <2> DEFINE m == n - k
             h == [i \in 2 .. n + 1 |-> IF i = m THEN PairedStep(s, g, i) ELSE g[i]]
  <2>5. m \in 2 .. n /\ (n + 1) - (k + 1) = m /\ (n + 1) - k = m + 1
    BY <2>1
  <2>6. ASSUME NEW i \in 2 .. n + 1, i >= m
        PROVE  PairedStep(s, h, i) = PairedStep(s, g, i)
    <3>1. CASE i >= n
      BY <3>1 DEF PairedStep
    <3>2. CASE i < n
      <4>1. i + 1 \in 2 .. n + 1 /\ i + 2 \in 2 .. n + 1 /\ i + 1 # m /\ i + 2 # m
        BY <2>5, <2>6, <3>2
      <4>2. h[i + 1] = g[i + 1] /\ h[i + 2] = g[i + 2]
        BY <4>1
      <4> HIDE DEF h
      <4>3. QED
        BY <4>2 DEF PairedStep
    <3>3. QED
      BY <2>5, <3>1, <3>2
  <2>7. ASSUME NEW i \in 2 .. n + 1
        PROVE  h[i] = IF i >= m THEN PairedStep(s, h, i) ELSE FALSE
    <3>1. CASE i = m
      <4>1. h[i] = PairedStep(s, g, i)
        BY <3>1
      <4>2. QED
        BY <2>5, <2>6, <3>1, <4>1
    <3>2. CASE i # m
      <4>1. h[i] = g[i]
        BY <3>2
      <4>2. g[i] = IF i >= m + 1 THEN PairedStep(s, g, i) ELSE FALSE
        BY <2>4, <2>5
      <4>3. i >= m + 1 <=> i >= m
        BY <2>5, <3>2
      <4> HIDE DEF h, m
      <4>4. QED
        BY <2>6, <4>1, <4>2, <4>3
    <3>3. QED
      BY <3>1, <3>2
  <2>8. h = [i \in 2 .. n + 1 |-> IF i >= m THEN PairedStep(s, h, i) ELSE FALSE]
    BY <2>7
  <2>9. h = [i \in 2 .. n + 1 |-> IF i >= (n + 1) - (k + 1) THEN PairedStep(s, h, i) ELSE FALSE]
    BY <2>5, <2>8, Zenon
  <2>10. PairedLast(s, k + 1, h)
    BY <2>9, Zenon DEF PairedLast
  <2>11. QED
    BY <2>10, Zenon
<1>3. \A k \in Nat : k \in Good
  <2>1. \A k \in Nat : k \in Good => k + 1 \in Good
    BY <1>2, Zenon
  <2> HIDE DEF Good
  <2>2. QED
    BY <1>1, <2>1, Inductive
<1>4. PICK k \in Nat : k = n - 1 /\ k <= n - 1
  OBVIOUS
<1>5. PICK g : PairedLast(s, n - 1, g)
  <2>1. k \in Good
    BY <1>3
  <2>2. \E g : PairedLast(s, k, g)
    BY <1>4, <2>1, Zenon
  <2>3. QED
    BY <1>4, <2>2, Zenon
<1>6. g = [i \in 2 .. n + 1 |-> IF i >= (n + 1) - (n - 1) THEN PairedStep(s, g, i) ELSE FALSE]
  BY <1>5, Zenon DEF PairedLast
<1>7. ASSUME NEW i \in 2 .. n + 1 PROVE g[i] = PairedStep(s, g, i)
  BY <1>6
<1>8. g = [i \in 2 .. n + 1 |-> PairedStep(s, g, i)]
  BY <1>6, <1>7
<1>9. QED
  BY <1>8

(* What PairedFrom computes.                                               *)
LEMMA PairedFacts ==
    ASSUME NEW s \in Seq(Int), Len(s) >= 2, NEW i \in 2 .. Len(s) + 1
    PROVE  PairedFrom(s)[i] = IF i >= Len(s) THEN i = Len(s)
                              ELSE IF s[i] # DoubleQuote THEN PairedFrom(s)[i + 1]
                              ELSE s[i + 1] = DoubleQuote /\ i + 1 < Len(s) /\ PairedFrom(s)[i + 2]
<1> DEFINE Solves(g) == g = [j \in 2 .. Len(s) + 1 |->
                            IF j >= Len(s) THEN j = Len(s)
                            ELSE IF s[j] # DoubleQuote THEN g[j + 1]
                            ELSE s[j + 1] = DoubleQuote /\ j + 1 < Len(s) /\ g[j + 2]]
<1>1. \E g : Solves(g)
  <2>1. PICK n \in Nat : n = Len(s) /\ n >= 2
    OBVIOUS
  <2>2. \E g : g = [j \in 2 .. n + 1 |-> PairedStep(s, g, j)]
    BY <2>1, PairedExists, Zenon
  <2>3. QED
    BY <2>1, <2>2, Zenon DEF PairedStep
<1>2. PairedFrom(s) = CHOOSE g : Solves(g)
  BY DEF PairedFrom
<1> HIDE DEF Solves
<1>3. Solves(PairedFrom(s))
  BY <1>1, <1>2
<1>4. QED
  BY <1>3 DEF Solves

-----------------------------------------------------------------------------
(* Lexemes by their first character *)

(* What the first character of a lexeme says of the rest.                  *)
ByFirst(u) ==
    /\ u[1] \in {40, 41} => Len(u) = 1
    /\ u[1] \in SymbolStart => Matches(u, SymbolStart, SymbolChars)
    /\ u[1] \in DecimalDigits => IsNumber(u)
    /\ u[1] = Bar => IsQuoted(u)
    /\ u[1] = DoubleQuote => IsString(u)
    /\ u[1] = Hash => IsBits(u)
    /\ u[1] = Colon => IsKeyword(u)
    /\ u[1] \in {40, 41} \cup SymbolStart \cup DecimalDigits \cup {Bar, DoubleQuote, Hash, Colon}

(* No character begins lexemes of two kinds.                               *)
LEMMA FirstCharacters ==
    ASSUME NEW c \in Int
    PROVE  /\ c \in {40, 41} => c \notin SymbolStart \cup DecimalDigits \cup {Bar, DoubleQuote, Hash, Colon}
           /\ c \in SymbolStart => c \notin DecimalDigits \cup {Bar, DoubleQuote, Hash, Colon}
           /\ c \in DecimalDigits => c \notin {Bar, DoubleQuote, Hash, Colon}
           /\ c = Bar => c \notin {DoubleQuote, Hash, Colon}
           /\ c = DoubleQuote => c \notin {Hash, Colon}
           /\ c = Hash => c # Colon
  BY DEF SymbolStart, Letters, ExtraSymbolChars, DecimalDigits, Bar, DoubleQuote, Hash, Colon

(* A number begins with a digit,                                           *)
LEMMA NumberFirst ==
    ASSUME NEW u \in Seq(Int), u # <<>>, IsNumber(u)
    PROVE  u[1] \in DecimalDigits
<1>1. 1 \in DOMAIN u
  OBVIOUS
<1>2. CASE Matches(u, DecimalDigits, DecimalDigits)
  BY <1>2 DEF Matches
<1>3. ASSUME NEW i \in 2 .. Len(u) - 1, \A j \in DOMAIN u \ {i} : u[j] \in DecimalDigits
      PROVE  u[1] \in DecimalDigits
  BY <1>1, <1>3
<1>4. QED
  BY <1>2, <1>3 DEF IsNumber

(* a quoted symbol with a bar.                                             *)
LEMMA QuotedFirst ==
    ASSUME NEW u \in Seq(Int), u # <<>>, IsQuoted(u)
    PROVE  u[1] = Bar
<1>1. 1 \in {i \in DOMAIN u : u[i] = Bar}
  BY DEF IsQuoted
<1>2. QED
  BY <1>1

(* The first character of a lexeme tells its kind.                         *)
LEMMA LexemeKind ==
    ASSUME NEW u \in Seq(Int), IsLexeme(u)
    PROVE  u # <<>> /\ u[1] \in Int /\ ByFirst(u)
<1>1. u # <<>> /\ Len(u) \in Nat /\ Len(u) >= 1 /\ u[1] \in Int
  BY DEF IsLexeme
<1>2. CASE u \in {<<40>>, <<41>>}
  <2>1. Len(u) = 1 /\ u[1] \in {40, 41}
    BY <1>2
  <2>2. QED
    BY <1>1, <2>1, FirstCharacters DEF ByFirst
<1>3. CASE Matches(u, SymbolStart, SymbolChars)
  <2>1. u[1] \in SymbolStart
    BY <1>3 DEF Matches
  <2>2. QED
    BY <1>1, <1>3, <2>1, FirstCharacters DEF ByFirst
<1>4. CASE IsNumber(u)
  <2>1. u[1] \in DecimalDigits
    BY <1>1, <1>4, NumberFirst
  <2>2. QED
    BY <1>1, <1>4, <2>1, FirstCharacters DEF ByFirst
<1>5. CASE IsQuoted(u)
  <2>1. u[1] = Bar
    BY <1>1, <1>5, QuotedFirst
  <2>2. QED
    BY <1>1, <1>5, <2>1, FirstCharacters DEF ByFirst
<1>6. CASE IsString(u)
  <2>1. u[1] = DoubleQuote
    BY <1>6 DEF IsString
  <2>2. QED
    BY <1>1, <1>6, <2>1, FirstCharacters DEF ByFirst
<1>7. CASE IsBits(u)
  <2>1. u[1] = Hash
    BY <1>7 DEF IsBits
  <2>2. QED
    BY <1>1, <1>7, <2>1, FirstCharacters DEF ByFirst
<1>8. CASE IsKeyword(u)
  <2>1. u[1] = Colon
    BY <1>8 DEF IsKeyword
  <2>2. QED
    BY <1>1, <1>8, <2>1, FirstCharacters DEF ByFirst
<1>9. QED
  BY <1>2, <1>3, <1>4, <1>5, <1>6, <1>7, <1>8 DEF IsLexeme

(* The text u goes on after t.                                             *)
Extends(u, t) == Len(t) < Len(u) /\ \A i \in 1 .. Len(t) : u[i] = t[i]

(* The lexeme u goes on where t stops.                                     *)
Longer(u, t) == IsLexeme(u) /\ Extends(u, t)

(* It has the first character of t, and one after the last of t.           *)
LEMMA LongerFacts ==
    ASSUME NEW u \in Seq(Int), NEW t \in Seq(Int), Len(t) >= 1, Longer(u, t)
    PROVE  /\ Len(t) \in Nat /\ Len(u) \in Nat /\ Len(u) >= Len(t) + 1
           /\ u[1] = t[1] /\ u[Len(t) + 1] \in Int /\ ByFirst(u)
  BY LexemeKind DEF Longer, Extends

(* How a lexeme can go on after its first characters.                      *)
LEMMA LongerSymbol ==
    ASSUME NEW u \in Seq(Int), NEW t \in Seq(Int), Len(t) >= 1, Longer(u, t), t[1] \in SymbolStart
    PROVE  u[Len(t) + 1] \in SymbolChars
<1>1. PICK n \in Nat : n = Len(t) /\ Len(u) >= n + 1 /\ u[1] = t[1] /\ n >= 1 /\ ByFirst(u) /\ u[1] \in Int
  BY LongerFacts
<1>2. Matches(u, SymbolStart, SymbolChars)
  BY <1>1, FirstCharacters DEF ByFirst
<1>3. n + 1 \in 2 .. Len(u)
  BY <1>1
<1>4. QED
  BY <1>1, <1>2, <1>3 DEF Matches

(* No lexeme goes on after a parenthesis,                                  *)
LEMMA LongerParenthesis ==
    ASSUME NEW u \in Seq(Int), NEW t \in Seq(Int), Len(t) >= 1, Longer(u, t), t[1] \in {40, 41}
    PROVE  FALSE
  BY LongerFacts, FirstCharacters DEF ByFirst

(* nor after the bar that closes a quoted symbol.                          *)
LEMMA LongerQuoted ==
    ASSUME NEW u \in Seq(Int), NEW t \in Seq(Int), Len(t) >= 2, Longer(u, t),
           t[1] = Bar, t[Len(t)] = Bar
    PROVE  FALSE
<1>1. PICK n \in Nat : n = Len(t) /\ Len(u) >= n + 1 /\ u[1] = t[1] /\ n >= 2 /\ ByFirst(u) /\ u[1] \in Int
  BY LongerFacts
<1>2. IsQuoted(u)
  BY <1>1, FirstCharacters DEF ByFirst
<1>3. u[n] = Bar /\ n \in DOMAIN u
  BY <1>1 DEF Longer, Extends
<1>4. n \in {1, Len(u)}
  BY <1>2, <1>3 DEF IsQuoted
<1>5. QED
  BY <1>1, <1>4

(* What a lexeme goes on with after a hash,                                *)
LEMMA LongerHash ==
    ASSUME NEW u \in Seq(Int), NEW t \in Seq(Int), Len(t) >= 1, Longer(u, t), t[1] = Hash
    PROVE  /\ Len(t) = 1 => u[2] \in {98, 120}
           /\ Len(t) >= 2 /\ t[2] = 98 => u[Len(t) + 1] \in Bits
           /\ Len(t) >= 2 /\ t[2] = 120 => u[Len(t) + 1] \in HexDigits
<1>1. PICK n \in Nat : n = Len(t) /\ Len(u) >= n + 1 /\ u[1] = t[1] /\ n >= 1 /\ ByFirst(u) /\ u[1] \in Int
  BY LongerFacts
<1>2. IsBits(u)
  BY <1>1, FirstCharacters DEF ByFirst
<1>3. n >= 2 => u[2] = t[2] /\ n + 1 \in 3 .. Len(u)
  BY <1>1 DEF Longer, Extends
<1>4. QED
  BY <1>1, <1>2, <1>3, SMTT(15) DEF IsBits

(* after a colon,                                                          *)
LEMMA LongerKeyword ==
    ASSUME NEW u \in Seq(Int), NEW t \in Seq(Int), Len(t) >= 1, Longer(u, t), t[1] = Colon
    PROVE  /\ Len(t) = 1 => u[2] \in SymbolStart
           /\ Len(t) >= 2 => u[Len(t) + 1] \in SymbolChars
<1>1. PICK n \in Nat : n = Len(t) /\ Len(u) >= n + 1 /\ u[1] = t[1] /\ n >= 1 /\ ByFirst(u) /\ u[1] \in Int
  BY LongerFacts
<1>2. IsKeyword(u)
  BY <1>1, FirstCharacters DEF ByFirst
<1>3. /\ Len(Tail(u)) = Len(u) - 1
      /\ \A i \in 1 .. Len(u) - 1 : Tail(u)[i] = u[i + 1]
  BY <1>1
<1>4. Tail(u)[1] = u[2] /\ Tail(u)[n] = u[n + 1]
  BY <1>1, <1>3
<1>5. Tail(u)[1] \in SymbolStart /\ \A i \in 2 .. Len(u) - 1 : Tail(u)[i] \in SymbolChars
  BY <1>2, <1>3 DEF IsKeyword, Matches
<1>6. n >= 2 => n \in 2 .. Len(u) - 1
  BY <1>1
<1>7. QED
  BY <1>1, <1>4, <1>5, <1>6

(* and after a number.                                                     *)
LEMMA LongerNumber ==
    ASSUME NEW u \in Seq(Int), NEW t \in Seq(Int), Len(t) >= 1, Longer(u, t), t[1] \in DecimalDigits
    PROVE  /\ u[Len(t) + 1] \in DecimalDigits \cup {Dot, Slash}
           /\ (\E i \in 2 .. Len(t) : t[i] \notin DecimalDigits) => u[Len(t) + 1] \in DecimalDigits
<1>1. PICK n \in Nat : n = Len(t) /\ Len(u) >= n + 1 /\ u[1] = t[1] /\ n >= 1 /\ ByFirst(u) /\ u[1] \in Int
  BY LongerFacts
<1>2. IsNumber(u)
  BY <1>1, FirstCharacters DEF ByFirst
<1>3. \A i \in 1 .. n : u[i] = t[i] /\ i \in DOMAIN u /\ i # n + 1
  BY <1>1 DEF Longer, Extends
<1>4. n + 1 \in 2 .. Len(u) /\ n + 1 \in DOMAIN u
  BY <1>1
<1>5. CASE Matches(u, DecimalDigits, DecimalDigits)
  BY <1>1, <1>4, <1>5 DEF Matches
<1>6. ASSUME NEW i \in 2 .. Len(u) - 1, u[i] \in {Dot, Slash},
             \A j \in DOMAIN u \ {i} : u[j] \in DecimalDigits
      PROVE  /\ u[n + 1] \in DecimalDigits \cup {Dot, Slash}
             /\ (\E k \in 2 .. n : t[k] \notin DecimalDigits) => u[n + 1] \in DecimalDigits
  <2>1. CASE i = n + 1
    <3>1. \A k \in 2 .. n : t[k] \in DecimalDigits
      BY <1>3, <1>6, <2>1
    <3>2. QED
      BY <1>6, <2>1, <3>1
  <2>2. CASE i # n + 1
    BY <1>4, <1>6, <2>2
  <2>3. QED
    BY <2>1, <2>2
<1>7. QED
  BY <1>1, <1>2, <1>5, <1>6 DEF IsNumber

-----------------------------------------------------------------------------
(* String literals *)

(* Within a string literal: whether a text that goes on is one depends on  *)
(* what follows only, and it is not one yet.                               *)
OpenString(t) ==
    /\ Len(t) >= 1 /\ t[1] = DoubleQuote
    /\ Len(t) >= 2 => ~PairedFrom(t)[2] \/ t[Len(t)] # DoubleQuote
    /\ \A u \in Seq(Int) : Extends(u, t) => (PairedFrom(u)[2] <=> PairedFrom(u)[Len(t) + 1])

(* After a quote that ends the literal or is the first of a pair.          *)
QuoteSeen(t) ==
    /\ Len(t) >= 2 /\ t[1] = DoubleQuote /\ t[Len(t)] = DoubleQuote
    /\ \A u \in Seq(Int) : u = t \/ Extends(u, t) => (PairedFrom(u)[2] <=> PairedFrom(u)[Len(t)])

(* A character more.                                                       *)
LEMMA OneMore ==
    ASSUME NEW t \in Seq(Int), NEW c \in Int
    PROVE  /\ Append(t, c) \in Seq(Int) /\ Len(Append(t, c)) = Len(t) + 1
           /\ \A i \in 1 .. Len(t) : Append(t, c)[i] = t[i]
           /\ Append(t, c)[Len(t) + 1] = c
           /\ \A u : u = Append(t, c) \/ Extends(u, Append(t, c)) => Extends(u, t) /\ u[Len(t) + 1] = c
<1>1. PICK s : s = Append(t, c)
  OBVIOUS
<1>2. /\ s \in Seq(Int) /\ Len(s) = Len(t) + 1 /\ Len(t) \in Nat
      /\ \A i \in 1 .. Len(t) : s[i] = t[i]
      /\ s[Len(t) + 1] = c
  BY <1>1
<1>3. \A i \in 1 .. Len(t) : i \in 1 .. Len(s)
  BY <1>2
<1>4. ASSUME NEW u, u = s \/ Extends(u, s) PROVE Extends(u, t) /\ u[Len(t) + 1] = c
  <2>1. CASE u = s
    BY <1>2, <2>1 DEF Extends
  <2>2. CASE Extends(u, s)
    <3>1. Len(t) + 1 < Len(u) /\ \A i \in 1 .. Len(s) : u[i] = s[i]
      BY <1>2, <2>2 DEF Extends
    <3>2. \A i \in 1 .. Len(t) : u[i] = t[i]
      BY <1>2, <1>3, <3>1
    <3>3. Len(t) + 1 \in 1 .. Len(s)
      BY <1>2
    <3>4. Len(t) < Len(u)
      BY <1>2, <3>1
    <3>5. QED
      BY <1>2, <3>1, <3>2, <3>3, <3>4 DEF Extends
  <2>3. QED
    BY <1>4, <2>1, <2>2
<1>5. QED
  BY <1>1, <1>2, <1>4

(* The states of a string literal, one character after the other.          *)
LEMMA StringBegins == OpenString(<<DoubleQuote>>)
  BY DEF OpenString, DoubleQuote

(* A character within it,                                                  *)
LEMMA StringGoesOn ==
    ASSUME NEW t \in Seq(Int), OpenString(t), NEW c \in Int, c # DoubleQuote
    PROVE  OpenString(Append(t, c))
<1>1. PICK s : s = Append(t, c)
  OBVIOUS
<1>2. /\ s \in Seq(Int) /\ Len(s) = Len(t) + 1 /\ Len(t) \in Nat
      /\ \A i \in 1 .. Len(t) : s[i] = t[i]
      /\ s[Len(t) + 1] = c
      /\ \A u : u = s \/ Extends(u, s) => Extends(u, t) /\ u[Len(t) + 1] = c
  BY <1>1, OneMore
<1>3. ASSUME NEW u \in Seq(Int), Extends(u, s)
      PROVE  PairedFrom(u)[2] <=> PairedFrom(u)[Len(s) + 1]
  <2>1. Extends(u, t) /\ u[Len(t) + 1] = c /\ Len(t) + 1 < Len(u) /\ Len(t) >= 1
    BY <1>2, <1>3 DEF Extends, OpenString
  <2>2. PairedFrom(u)[2] <=> PairedFrom(u)[Len(t) + 1]
    BY <2>1 DEF OpenString
  <2>3. PICK i : i = Len(t) + 1
    OBVIOUS
  <2>4. i \in 2 .. Len(u) + 1 /\ i < Len(u) /\ Len(u) >= 2 /\ i + 1 = Len(s) + 1
    <3>1. PICK n \in Nat, m \in Nat : n = Len(t) /\ m = Len(u)
      BY <1>2
    <3>2. n + 1 < m /\ n >= 1 /\ i = n + 1 /\ Len(s) = n + 1
      BY <1>2, <2>1, <2>3, <3>1
    <3>3. i \in 2 .. m + 1 /\ i < m /\ m >= 2 /\ i + 1 = Len(s) + 1
      BY <3>2
    <3>4. QED
      BY <3>1, <3>3
  <2>5. u[i] # DoubleQuote /\ ~(i >= Len(u))
    <3>1. PICK m \in Nat : m = Len(u)
      OBVIOUS
    <3>2. i < m /\ i \in Nat
      BY <1>2, <2>3, <2>4, <3>1
    <3>3. QED
      BY <2>1, <2>3, <3>1, <3>2
  <2>6. PairedFrom(u)[i] = PairedFrom(u)[i + 1]
    BY <2>4, <2>5, PairedFacts, Zenon
  <2>7. QED
    BY <2>2, <2>3, <2>4, <2>6
<1>4. Len(s) >= 1 /\ s[1] = DoubleQuote /\ s[Len(s)] # DoubleQuote
  BY <1>2 DEF OpenString
<1>5. QED
  BY <1>1, <1>3, <1>4 DEF OpenString

(* a quote, which may be its last,                                         *)
LEMMA QuoteComes ==
    ASSUME NEW t \in Seq(Int), OpenString(t)
    PROVE  QuoteSeen(Append(t, DoubleQuote))
<1>1. PICK s : s = Append(t, DoubleQuote)
  OBVIOUS
<1>2. /\ s \in Seq(Int) /\ Len(s) = Len(t) + 1 /\ Len(t) \in Nat
      /\ \A i \in 1 .. Len(t) : s[i] = t[i]
      /\ s[Len(t) + 1] = DoubleQuote
      /\ \A u : u = s \/ Extends(u, s) => Extends(u, t)
  BY <1>1, OneMore DEF DoubleQuote
<1>3. ASSUME NEW u \in Seq(Int), u = s \/ Extends(u, s)
      PROVE  PairedFrom(u)[2] <=> PairedFrom(u)[Len(s)]
  BY <1>2, <1>3 DEF OpenString
<1>4. Len(s) >= 2 /\ s[1] = DoubleQuote /\ s[Len(s)] = DoubleQuote
  BY <1>2 DEF OpenString
<1>5. QED
  BY <1>1, <1>3, <1>4 DEF QuoteSeen

(* and a second one.                                                       *)
LEMMA QuotesPair ==
    ASSUME NEW t \in Seq(Int), QuoteSeen(t)
    PROVE  OpenString(Append(t, DoubleQuote))
<1>1. PICK s : s = Append(t, DoubleQuote)
  OBVIOUS
<1>2. /\ s \in Seq(Int) /\ Len(s) = Len(t) + 1 /\ Len(t) \in Nat
      /\ \A i \in 1 .. Len(t) : s[i] = t[i]
      /\ s[Len(t) + 1] = DoubleQuote
      /\ \A u : u = s \/ Extends(u, s) => Extends(u, t) /\ u[Len(t) + 1] = DoubleQuote
  BY <1>1, OneMore DEF DoubleQuote
<1>3. PICK n \in Nat : n = Len(t) /\ n >= 2 /\ t[n] = DoubleQuote /\ t[1] = DoubleQuote
  BY DEF QuoteSeen
<1>4. ASSUME NEW u \in Seq(Int), u = s \/ Extends(u, s)
      PROVE  PairedFrom(u)[2] <=> n + 1 < Len(u) /\ PairedFrom(u)[n + 2]
  <2>1. Extends(u, t) /\ u[n + 1] = DoubleQuote
    BY <1>2, <1>3, <1>4
  <2>2. n < Len(u) /\ u[n] = DoubleQuote /\ n \in 2 .. Len(u) + 1 /\ Len(u) >= 2
    BY <1>3, <2>1 DEF Extends
  <2>3. PairedFrom(u)[2] <=> PairedFrom(u)[n]
    BY <1>3, <2>1 DEF QuoteSeen
  <2>4. ~(n >= Len(u))
    BY <2>2
  <2>5. PairedFrom(u)[n] = (u[n + 1] = DoubleQuote /\ n + 1 < Len(u) /\ PairedFrom(u)[n + 2])
    BY <2>2, <2>4, PairedFacts
  <2>6. QED
    BY <2>1, <2>3, <2>5
<1>5. ~PairedFrom(s)[2]
  <2>1. ~(n + 1 < Len(s))
    BY <1>2, <1>3
  <2>2. QED
    BY <1>2, <1>4, <2>1
<1>6. ASSUME NEW u \in Seq(Int), Extends(u, s)
      PROVE  PairedFrom(u)[2] <=> PairedFrom(u)[Len(s) + 1]
  <2>1. n + 1 < Len(u) /\ n + 2 = Len(s) + 1
    BY <1>2, <1>3, <1>6 DEF Extends
  <2>2. QED
    BY <1>4, <1>6, <2>1
<1>7. Len(s) >= 1 /\ s[1] = DoubleQuote
  BY <1>2, <1>3
<1>8. QED
  BY <1>1, <1>5, <1>6, <1>7 DEF OpenString

(* Where a quote was the last, only a second one goes on.                  *)
LEMMA QuoteEnds ==
    ASSUME NEW t \in Seq(Int), QuoteSeen(t)
    PROVE  /\ IsLexeme(t)
           /\ \A u \in Seq(Int) : Longer(u, t) => u[Len(t) + 1] = DoubleQuote
<1>1. PICK n \in Nat : n = Len(t) /\ n >= 2 /\ t[n] = DoubleQuote /\ t[1] = DoubleQuote
  BY DEF QuoteSeen
<1>2. IsLexeme(t)
  <2>1. PairedFrom(t)[2] <=> PairedFrom(t)[n]
    BY <1>1 DEF QuoteSeen
  <2>2. PairedFrom(t)[n] = (n = n)
    BY <1>1, PairedFacts
  <2>3. IsString(t)
    BY <1>1, <2>1, <2>2 DEF IsString
  <2>4. t # <<>>
    BY <1>1
  <2>5. QED
    BY <2>3, <2>4 DEF IsLexeme
<1>3. ASSUME NEW u \in Seq(Int), Longer(u, t) PROVE u[n + 1] = DoubleQuote
  <2>1. n < Len(u) /\ u[n] = t[n] /\ u[1] = t[1] /\ ByFirst(u)
    BY <1>1, <1>3, LongerFacts DEF Longer, Extends
  <2>2. PairedFrom(u)[2]
    BY <1>1, <2>1 DEF ByFirst, IsString
  <2>3. PairedFrom(u)[2] <=> PairedFrom(u)[n]
    BY <1>1, <1>3 DEF QuoteSeen, Longer
  <2>4. n \in 2 .. Len(u) + 1 /\ Len(u) >= 2 /\ ~(n >= Len(u))
    BY <1>1, <2>1
  <2>5. PairedFrom(u)[n] = (u[n + 1] = DoubleQuote /\ n + 1 < Len(u) /\ PairedFrom(u)[n + 2])
    BY <1>1, <2>1, <2>4, PairedFacts
  <2>6. QED
    BY <2>2, <2>3, <2>5
<1>4. QED
  BY <1>1, <1>2, <1>3

(* A literal that is not closed is no lexeme.                              *)
LEMMA OpenIsNoLexeme ==
    ASSUME NEW t \in Seq(Int),
           \/ OpenString(t)
           \/ Len(t) >= 1 /\ t[1] = Bar /\ \A i \in 2 .. Len(t) : t[i] # Bar
    PROVE  ~IsLexeme(t)
<1>1. SUFFICES ASSUME IsLexeme(t) PROVE FALSE
  OBVIOUS
<1>2. t # <<>> /\ ByFirst(t) /\ Len(t) \in Nat
  BY <1>1, LexemeKind
<1>3. CASE OpenString(t)
  <2>1. IsString(t)
    BY <1>2, <1>3 DEF OpenString, ByFirst
  <2>2. QED
    BY <1>3, <2>1 DEF OpenString, IsString
<1>4. CASE Len(t) >= 1 /\ t[1] = Bar /\ \A i \in 2 .. Len(t) : t[i] # Bar
  <2>1. IsQuoted(t)
    BY <1>2, <1>4 DEF ByFirst
  <2>2. Len(t) \in {i \in DOMAIN t : t[i] = Bar} /\ Len(t) \in 2 .. Len(t)
    BY <1>2, <2>1 DEF IsQuoted
  <2>3. QED
    BY <1>4, <2>2
<1>5. QED
  BY <1>3, <1>4

-----------------------------------------------------------------------------
(* Lexemes that are complete *)

(* The first n characters are digits.                                      *)
AllDigits(t, n) == \A i \in 1 .. n : t[i] \in DecimalDigits

(* Digits on both sides of one dot or slash.                               *)
Fraction(t, c) == \E i \in 2 .. Len(t) - 1 : /\ t[i] = c
                                             /\ \A j \in DOMAIN t \ {i} : t[j] \in DecimalDigits

(* A binary or hexadecimal literal, or its beginning.                      *)
BitsAfter(t, c, class) == Len(t) >= 2 /\ t[1] = Hash /\ t[2] = c /\ \A i \in 3 .. Len(t) : t[i] \in class

(* A colon and a symbol.                                                   *)
KeywordSoFar(t) == /\ Len(t) >= 2 /\ t[1] = Colon /\ t[2] \in SymbolStart
                   /\ \A i \in 3 .. Len(t) : t[i] \in SymbolChars

(* Which tokens are lexemes as they stand.                                 *)
LEMMA Complete ==
    ASSUME NEW t \in Seq(Int), Len(t) >= 1
    PROVE  /\ t \in {<<40>>, <<41>>} => IsLexeme(t)
           /\ Matches(t, SymbolStart, SymbolChars) => IsLexeme(t)
           /\ AllDigits(t, Len(t)) => IsLexeme(t)
           /\ Fraction(t, Dot) \/ Fraction(t, Slash) => IsLexeme(t)
           /\ BitsAfter(t, 98, Bits) \/ BitsAfter(t, 120, HexDigits) => IsLexeme(t)
           /\ KeywordSoFar(t) => IsLexeme(t)
           /\ t[1] = Bar /\ (\A i \in 2 .. Len(t) : t[i] # Bar) => IsLexeme(Append(t, Bar))
<1>1. t # <<>> /\ Len(t) \in Nat
  OBVIOUS
<1>2. AllDigits(t, Len(t)) => IsNumber(t)
  BY <1>1 DEF AllDigits, IsNumber, Matches
<1>3. Fraction(t, Dot) \/ Fraction(t, Slash) => IsNumber(t)
  BY DEF Fraction, IsNumber
<1>4. BitsAfter(t, 98, Bits) \/ BitsAfter(t, 120, HexDigits) => IsBits(t)
  BY DEF BitsAfter, IsBits
<1>5. ASSUME KeywordSoFar(t) PROVE IsKeyword(t)
  <2>1. /\ Len(Tail(t)) = Len(t) - 1
        /\ \A i \in 1 .. Len(t) - 1 : Tail(t)[i] = t[i + 1]
    BY <1>1
  <2>2. \A i \in 2 .. Len(t) - 1 : i + 1 \in 3 .. Len(t)
    BY <1>1
  <2>3. 1 \in 1 .. Len(t) - 1
    BY <1>1, <1>5 DEF KeywordSoFar
  <2>4. Tail(t)[1] = t[2]
    BY <2>1, <2>3
  <2>5. \A i \in 2 .. Len(t) - 1 : Tail(t)[i] \in SymbolChars
    BY <1>1, <1>5, <2>1, <2>2 DEF KeywordSoFar
  <2>6. QED
    BY <1>5, <2>1, <2>4, <2>5 DEF KeywordSoFar, IsKeyword, Matches
<1>6. ASSUME t[1] = Bar, \A i \in 2 .. Len(t) : t[i] # Bar PROVE IsLexeme(Append(t, Bar))
  <2>1. PICK s : s = Append(t, Bar)
    OBVIOUS
  <2>2. /\ s \in Seq(Int) /\ Len(s) = Len(t) + 1
        /\ \A i \in 1 .. Len(t) : s[i] = t[i]
        /\ s[Len(t) + 1] = Bar
    BY <2>1, OneMore DEF Bar
  <2>3. {i \in DOMAIN s : s[i] = Bar} = {1, Len(s)}
    <3>1. DOMAIN s = 1 .. Len(t) + 1
      BY <2>2
    <3>2. ASSUME NEW i \in DOMAIN s, s[i] = Bar PROVE i \in {1, Len(s)}
      <4>1. i \in 2 .. Len(t) => i \in 1 .. Len(t)
        BY <1>1
      <4>2. i \notin 2 .. Len(t)
        BY <1>6, <2>2, <3>2, <4>1
      <4>3. QED
        BY <1>1, <2>2, <3>1, <4>2
    <3>3. 1 \in DOMAIN s /\ s[1] = Bar /\ Len(s) \in DOMAIN s /\ s[Len(s)] = Bar
      BY <1>1, <1>6, <2>2, <3>1
    <3>4. QED
      BY <3>2, <3>3
  <2>4. s # <<>> /\ Len(s) >= 2
    BY <1>1, <2>2
  <2>5. QED
    BY <2>1, <2>3, <2>4 DEF IsQuoted, IsLexeme
<1>7. QED
  BY <1>1, <1>2, <1>3, <1>4, <1>5, <1>6 DEF IsLexeme

-----------------------------------------------------------------------------
(* Where the scanner is *)

(* The character after the position q, as it is read.                      *)
CharAt(q) == IF q < Len(text) THEN IF interactive THEN text[q + 1] ELSE Signed(text[q + 1]) ELSE EOF

(* Where the scanner is when it has read the character after q.            *)
After(q) == IF q < Len(text) THEN q + 1 ELSE q

(* The character after q is the next one, whether it was saved or not.     *)
At(q) == /\ q \in 0 .. Len(text)
         /\ IF saved = <<>> THEN Consumed = q
            ELSE saved = <<CharAt(q)>> /\ Consumed = After(q)

(* A stream that is read by character has no buffer.                       *)
LiveInv == interactive => buffer = <<>>

(* What is read at q.                                                      *)
LEMMA NextAt ==
    ASSUME LexInv, LiveInv, NEW q, At(q), NEW r, r = NextChar
    PROVE  /\ r.ch = CharAt(q) /\ ReadBy(r) = After(q)
           /\ interactive => r.buffer = <<>>
<1>1. /\ text \in Seq(Bytes) /\ buffer \in Seq(Bytes) /\ given \in 0 .. Len(text)
      /\ Len(buffer) \in Nat /\ Len(buffer) <= given /\ Len(text) \in Nat
      /\ \A j \in 1 .. Len(buffer) : buffer[j] = text[Consumed + j]
      /\ Consumed = given - Len(buffer)
      /\ q \in 0 .. Len(text)
  BY DEF LexInv, LexTypes, StreamInv, Consumed, At
<1>2. CASE saved # <<>>
  <2>1. saved = <<CharAt(q)>> /\ Consumed = After(q)
    BY <1>2 DEF At
  <2>2. r = Reading(CharAt(q), 0, buffer)
    BY <1>2, <2>1 DEF NextChar
  <2>3. r.ch = CharAt(q) /\ r.given = given + 0 /\ r.buffer = buffer
    BY <2>2 DEF Reading
  <2>4. QED
    <3>1. given + 0 = given
      BY <1>1
    <3>2. ReadBy(r) = Consumed
      BY <1>1, <2>3, <3>1 DEF ReadBy
    <3>3. QED
      BY <2>1, <2>3, <3>2 DEF LiveInv
<1>3. CASE saved = <<>> /\ buffer # <<>>
  <2>1. r = Reading(Signed(Head(buffer)), 0, Tail(buffer))
    BY <1>3 DEF NextChar, ReadNextChar
  <2>2. /\ r.ch = Signed(Head(buffer)) /\ r.given = given + 0 /\ r.buffer = Tail(buffer)
    BY <2>1 DEF Reading
  <2>3. /\ Len(buffer) \in Nat \ {0}
        /\ Head(buffer) = buffer[1] /\ Len(Tail(buffer)) = Len(buffer) - 1
    BY <1>1, <1>3, HeadTail
  <2>4. Consumed = q /\ ~interactive
    BY <1>3 DEF At, LiveInv
  <2>5. buffer[1] = text[q + 1] /\ q < Len(text)
    BY <1>1, <2>3, <2>4
  <2>6. ReadBy(r) = q + 1
    BY <1>1, <2>2, <2>3, <2>4 DEF ReadBy
  <2>7. QED
    BY <2>2, <2>3, <2>4, <2>5, <2>6 DEF CharAt, After
<1>4. CASE saved = <<>> /\ buffer = <<>>
  <2>1. PICK e : e = Min({given + BufferSize, Len(text)})
    OBVIOUS
  <2>2. e \in Nat /\ given <= e /\ e <= Len(text) /\ (given < Len(text) => given < e)
    BY <1>1, <2>1, BlockEnd
  <2>3. PICK block : block = SubSeq(text, given + 1, e)
    OBVIOUS
  <2>4. /\ block = <<>> => given = Len(text)
        /\ block # <<>> =>
              /\ given < e /\ given + Len(block) = e
              /\ Head(block) = text[given + 1]
              /\ Len(Tail(block)) = e - (given + 1)
    <3>1. text \in Seq(Bytes) /\ given \in 0 .. Len(text)
      BY <1>1
    <3>2. e \in Nat /\ given <= e /\ e <= Len(text)
      BY <2>2
    <3>3. given < Len(text) => given < e
      BY <2>2
    <3>4. BlockRead(text, given, e, block)
      BY <2>3, <3>1, <3>2, <3>3, BlockFacts, Zenon
    <3>5. QED
      BY <3>4, Zenon DEF BlockRead
  <2>5. r = IF interactive /\ given < Len(text) THEN Reading(text[given + 1], 1, <<>>)
            ELSE IF interactive \/ block = <<>> THEN Reading(EOF, 0, <<>>)
            ELSE Reading(Signed(Head(block)), Len(block), Tail(block))
    BY <1>4, <2>1, <2>3 DEF NextChar, ReadNextChar
  <2>6. Consumed = given /\ given = q
    BY <1>1, <1>4 DEF At
  <2>7. CASE interactive /\ given < Len(text)
    <3>1. r.ch = text[given + 1] /\ r.given = given + 1 /\ r.buffer = <<>>
      BY <2>5, <2>7 DEF Reading
    <3>2. QED
      BY <1>1, <2>6, <2>7, <3>1 DEF ReadBy, CharAt, After
  <2>8. CASE ~(interactive /\ given < Len(text)) /\ (interactive \/ block = <<>>)
    <3>1. r.ch = EOF /\ r.given = given + 0 /\ r.buffer = <<>>
      BY <2>5, <2>8 DEF Reading
    <3>2. given = Len(text)
      BY <1>1, <2>4, <2>8
    <3>3. Len(<<>>) = 0 /\ ~(q < Len(text)) /\ given \in Nat /\ q = given
      BY <1>1, <2>6, <3>2
    <3>4. ReadBy(r) = q
      BY <3>1, <3>3 DEF ReadBy
    <3>5. QED
      BY <3>1, <3>3, <3>4 DEF CharAt, After
  <2>9. CASE ~(interactive /\ given < Len(text)) /\ ~(interactive \/ block = <<>>)
    <3>1. /\ r.ch = Signed(Head(block)) /\ r.given = given + Len(block)
          /\ r.buffer = Tail(block)
      BY <2>5, <2>9 DEF Reading
    <3>2. /\ r.given = e /\ given < e /\ Len(r.buffer) = e - (given + 1)
          /\ Head(block) = text[given + 1]
      BY <2>4, <2>9, <3>1
    <3>3. ReadBy(r) = given + 1 /\ given < Len(text)
      BY <1>1, <2>2, <3>2 DEF ReadBy
    <3>4. QED
      BY <2>6, <2>9, <3>1, <3>2, <3>3 DEF CharAt, After
  <2>10. QED
    BY <2>7, <2>8, <2>9
<1>5. QED
  BY <1>2, <1>3, <1>4

(* Where the scanner is when the character was used up or saved.           *)
LEMMA MovesTo ==
    ASSUME LexInv, LiveInv, NEW q, At(q), NEW r, r = NextChar, UNCHANGED streamVars,
           NEW a, a = After(q)
    PROVE  /\ Take(r) => At(a)' /\ LiveInv'
           /\ Save(r) => At(q)' /\ LiveInv'
<1>1. /\ r.ch = CharAt(q) /\ ReadBy(r) = After(q)
      /\ interactive => r.buffer = <<>>
  BY NextAt
<1>2. q \in 0 .. Len(text) /\ Len(text) \in Nat
  BY DEF At, LexInv, LexTypes
<1>3. text' = text /\ interactive' = interactive /\ After(q) \in 0 .. Len(text)
  BY <1>2 DEF streamVars, After
<1>4. CharAt(q)' = CharAt(q) /\ After(q)' = After(q)
  BY <1>3 DEF CharAt, After
<1>5. ASSUME Take(r) PROVE At(a)' /\ LiveInv'
  <2>1. given' = r.given /\ buffer' = r.buffer /\ saved' = <<>>
    BY <1>5 DEF Take
  <2>2. Consumed' = After(q)
    BY <1>1, <2>1 DEF Consumed, ReadBy
  <2>3. QED
    BY <1>1, <1>2, <1>3, <1>4, <2>1, <2>2 DEF At, LiveInv
<1>6. ASSUME Save(r) PROVE At(q)' /\ LiveInv'
  <2>1. given' = r.given /\ buffer' = r.buffer /\ saved' = <<CharAt(q)>>
    BY <1>1, <1>6 DEF Save
  <2>2. Consumed' = After(q)
    BY <1>1, <2>1 DEF Consumed, ReadBy
  <2>3. saved' # <<>>
    BY <2>1
  <2>4. QED
    BY <1>1, <1>2, <1>3, <1>4, <2>1, <2>2, <2>3 DEF At, LiveInv
<1>7. QED
  BY <1>5, <1>6

(* Which byte a character is.                                              *)
LEMMA CharIs ==
    ASSUME text \in Seq(Bytes), NEW q \in 0 .. Len(text)
    PROVE  /\ CharAt(q) = EOF <=> EndAt(q)
           /\ CharAt(q) # EOF => q < Len(text)
           /\ q < Len(text) => /\ After(q) = q + 1 /\ text[q + 1] \in Bytes
                               /\ CharAt(q) % 256 = text[q + 1]
           /\ \A c \in 0 .. 127 : CharAt(q) = c <=> q < Len(text) /\ text[q + 1] = c
           /\ \A C \in SUBSET (0 .. 254) :
                  InClass(CharAt(q), C) <=> q < Len(text) /\ text[q + 1] \in C
<1>1. CASE q < Len(text)
  <2>1. PICK b \in Bytes : b = text[q + 1]
    BY <1>1
  <2>2. \/ interactive /\ CharAt(q) = b
        \/ ~interactive /\ CharAt(q) = Signed(b)
    BY <1>1, <2>1 DEF CharAt
  <2>3. /\ b % 256 = b /\ Signed(b) % 256 = b
        /\ Signed(b) = -1 <=> b = 255
        /\ \A c \in 0 .. 127 : (Signed(b) = c <=> b = c)
        /\ b \in 0 .. 255
    BY DEF Bytes, Signed
  <2>4. CharAt(q) % 256 = b
    BY <2>2, <2>3
  <2>5. CharAt(q) = EOF <=> EndAt(q)
    <3>1. EndAt(q) <=> ~interactive /\ b = 255
      BY <1>1, <2>1 DEF EndAt
    <3>2. CASE interactive
      <4>1. CharAt(q) = b /\ ~(b = -1)
        BY <2>2, <2>3, <3>2
      <4>2. QED
        BY <3>1, <3>2, <4>1 DEF EOF
    <3>3. CASE ~interactive
      <4>1. CharAt(q) = Signed(b)
        BY <2>2, <3>3
      <4>2. QED
        BY <2>3, <3>1, <3>3, <4>1 DEF EOF
    <3>4. QED
      BY <3>2, <3>3
  <2>6. \A c \in 0 .. 127 : CharAt(q) = c <=> b = c
    BY <2>2, <2>3
  <2>7. \A C \in SUBSET (0 .. 254) : InClass(CharAt(q), C) <=> b \in C
    BY <2>4 DEF InClass
  <2>8. QED
    <3>1. After(q) = q + 1 /\ b \in Bytes /\ CharAt(q) % 256 = text[q + 1]
      BY <1>1, <2>1, <2>4 DEF After
    <3>2. \A c \in 0 .. 127 : CharAt(q) = c <=> q < Len(text) /\ text[q + 1] = c
      BY <1>1, <2>1, <2>6, Zenon
    <3>3. \A C \in SUBSET (0 .. 254) : InClass(CharAt(q), C) <=> q < Len(text) /\ text[q + 1] \in C
      BY <1>1, <2>1, <2>7, Zenon
    <3>4. QED
      BY <1>1, <2>1, <2>5, <3>1, <3>2, <3>3, Zenon
<1>2. CASE ~(q < Len(text))
  <2>1. CharAt(q) = EOF /\ EndAt(q)
    BY <1>2 DEF CharAt, EndAt
  <2>2. EOF % 256 = 255
    <3>1. PICK n \in Int : n = EOF /\ n = -1
      BY DEF EOF
    <3>2. PICK k \in Int, m \in 0 .. 255 : m = n % 256 /\ n = 256 * k + m
      <4>1. n \div 256 \in Int /\ n % 256 \in 0 .. 256 - 1 /\ n = 256 * (n \div 256) + (n % 256)
        BY DivMod
      <4>2. 256 - 1 = 255
        OBVIOUS
      <4>3. QED
        BY <4>1, <4>2
    <3>3. m = 255
      BY <3>1, <3>2
    <3>4. QED
      BY <3>1, <3>2, <3>3
  <2>3. QED
    BY <1>2, <2>1, <2>2 DEF EOF, InClass
<1>3. QED
  BY <1>1, <1>2

(* Classes that the byte of the end is not in.                             *)
LEMMA Classes ==
    /\ DecimalDigits \in SUBSET (0 .. 254) /\ SymbolStart \in SUBSET (0 .. 254)
    /\ SymbolChars \in SUBSET (0 .. 254) /\ HexDigits \in SUBSET (0 .. 254)
    /\ Bits \in SUBSET (0 .. 254) /\ Whitespace \in SUBSET (0 .. 254)
  BY DEF DecimalDigits, SymbolStart, SymbolChars, HexDigits, Bits, Whitespace, Letters,
         ExtraSymbolChars, Colon, Newline

-----------------------------------------------------------------------------
(* Texts of tokens *)

(* The token t was read from the position p on.                            *)
SameText(t, p) == \A i \in 1 .. Len(t) : t[i] = text[p + i]

(* It is that piece of the text.                                           *)
LEMMA TextIsPiece ==
    ASSUME text \in Seq(Bytes), NEW t \in Seq(Int), NEW p \in Nat, p + Len(t) <= Len(text),
           SameText(t, p)
    PROVE  t = SubSeq(text, p + 1, p + Len(t))
<1>1. PICK n \in Nat, e \in Nat : n = Len(t) /\ e = p + n /\ p <= e /\ e <= Len(text) /\ e - p = n
  OBVIOUS
<1>2. PICK s : s = SubSeq(text, p + 1, e)
  OBVIOUS
<1>3. /\ s \in Seq(Bytes) /\ Len(s) = n
      /\ \A j \in 1 .. n : s[j] = text[p + j]
  BY <1>1, <1>2, Piece
<1>4. \A j \in 1 .. n : s[j] = t[j]
  BY <1>1, <1>3 DEF SameText
<1>5. s = t
  <2>1. Bytes \subseteq Int
    BY DEF Bytes
  <2>2. s \in Seq(Int)
    BY <1>3, <2>1, SeqMonotonic
  <2>3. Len(s) = Len(t) /\ \A j \in 1 .. Len(s) : s[j] = t[j]
    BY <1>1, <1>3, <1>4
  <2>4. QED
    BY <2>2, <2>3, SeqEqual
<1>6. QED
  BY <1>1, <1>2, <1>5

(* What a lexeme of the text after p is.                                   *)
LEMMA LexemeOfText ==
    ASSUME text \in Seq(Bytes), NEW p \in Nat, NEW u \in LexemesAt(p)
    PROVE  /\ u \in Seq(Int) /\ IsLexeme(u) /\ Len(u) \in Nat /\ Len(u) >= 1 /\ p + Len(u) <= Len(text)
           /\ SameText(u, p)
<1>1. PICK q \in p + 1 .. Len(text) : u = SubSeq(text, p + 1, q) /\ IsLexeme(u)
  BY DEF LexemesAt
<1>2. q \in Nat /\ p <= q /\ q <= Len(text) /\ q - p >= 1
  OBVIOUS
<1>3. /\ u \in Seq(Bytes) /\ Len(u) = q - p
      /\ \A j \in 1 .. q - p : u[j] = text[p + j]
  BY <1>1, <1>2, Piece
<1>4. u \in Seq(Int)
  <2>1. Bytes \subseteq Int
    BY DEF Bytes
  <2>2. QED
    BY <1>3, <2>1, SeqMonotonic
<1>5. QED
  BY <1>1, <1>2, <1>3, <1>4 DEF SameText

(* Two texts from the same position.                                       *)
LEMMA SameStart ==
    ASSUME text \in Seq(Bytes), NEW p \in Nat, NEW t \in Seq(Int), NEW u \in Seq(Int),
           SameText(t, p), SameText(u, p), Len(t) < Len(u)
    PROVE  Extends(u, t) /\ u[Len(t) + 1] = text[p + Len(t) + 1]
<1>1. \A i \in 1 .. Len(t) : u[i] = t[i]
  BY DEF SameText
<1>2. Len(t) + 1 \in 1 .. Len(u) /\ p + (Len(t) + 1) = p + Len(t) + 1
  OBVIOUS
<1>3. QED
  BY <1>1, <1>2 DEF SameText, Extends

(* A lexeme that cannot go on as the text does is the longest one.         *)
LEMMA LongestIf ==
    ASSUME text \in Seq(Bytes), NEW t \in Seq(Int), NEW p \in Nat, p + Len(t) <= Len(text),
           SameText(t, p), IsLexeme(t),
           \A u \in Seq(Int) : /\ Longer(u, t) /\ p + Len(t) < Len(text)
                               /\ u[Len(t) + 1] = text[p + Len(t) + 1]
                               => FALSE
    PROVE  Longest(p, t)
<1>1. t # <<>> /\ Len(t) \in Nat /\ Len(t) >= 1
  BY LexemeKind
<1>2. t \in LexemesAt(p)
  <2>1. p + Len(t) \in p + 1 .. Len(text)
    BY <1>1
  <2>2. t = SubSeq(text, p + 1, p + Len(t))
    BY TextIsPiece
  <2>3. QED
    BY <2>1, <2>2 DEF LexemesAt
<1>3. ASSUME NEW u \in LexemesAt(p) PROVE Len(u) <= Len(t)
  <2>1. /\ u \in Seq(Int) /\ IsLexeme(u) /\ Len(u) \in Nat /\ p + Len(u) <= Len(text)
        /\ SameText(u, p)
    BY LexemeOfText
  <2>2. SUFFICES ASSUME Len(t) < Len(u) PROVE FALSE
    BY <1>1, <2>1
  <2>3. Extends(u, t) /\ u[Len(t) + 1] = text[p + Len(t) + 1]
    BY <2>1, <2>2, SameStart
  <2>4. p + Len(t) < Len(text) /\ Longer(u, t)
    BY <1>1, <2>1, <2>2, <2>3 DEF Longer
  <2>5. QED
    BY <2>1, <2>3, <2>4
<1>4. QED
  BY <1>2, <1>3 DEF Longest

-----------------------------------------------------------------------------
(* What a token that is being read looks like *)

(* The token read so far, in every mode of the scanner.                    *)
Grammar(m, t) ==
    /\ m = "quoted" => t[1] = Bar /\ \A i \in 2 .. Len(t) : t[i] # Bar
    /\ m = "hash" => t = <<Hash>>
    /\ m = "string" => OpenString(t)
    /\ m = "stringQuote" => QuoteSeen(t)
    /\ m = "keyword" => t = <<Colon>>
    /\ m = "keywordSecond" => Len(t) = 2 /\ KeywordSoFar(t)
    /\ m = "keywordRest" => Len(t) >= 3 /\ KeywordSoFar(t)
    /\ m = "binary" => BitsAfter(t, 98, Bits)
    /\ m = "hexadecimal" => BitsAfter(t, 120, HexDigits)
    /\ m = "symbol" => Matches(t, SymbolStart, SymbolChars)
    /\ m \in {"number", "numberEnd"} => AllDigits(t, Len(t))
    /\ m = "decimalFirst" => Len(t) >= 2 /\ t[Len(t)] = Dot /\ AllDigits(t, Len(t) - 1)
    /\ m = "rationalFirst" => Len(t) >= 2 /\ t[Len(t)] = Slash /\ AllDigits(t, Len(t) - 1)
    /\ m = "decimal" => Fraction(t, Dot)
    /\ m = "rational" => Fraction(t, Slash)

(* Where the token made last ended.                                        *)
LastEnd == EndBefore(Len(produced) + 1)

(* From there to q there is nothing but whitespace and comments.           *)
Passed(q) == At(q) /\ (Blank(LastEnd, q) \/ (q = Len(text) /\ q < LastEnd))

(* A comment goes on up to q.                                              *)
Commented(e, q) == \E k \in e + 1 .. q : text[k] = Semicolon /\ \A i \in k .. q : text[i] # Newline

(* The token is what was read since its first character.                   *)
Here == span.first + Len(token)

(* A token began after blanks and is what was read since.                  *)
Inside == /\ Len(token) >= 1 /\ span.first \in Nat
          /\ At(Here) /\ SameText(token, span.first)
          /\ Blank(LastEnd, span.first)

(* The last token was the end of the input.                                *)
Ended == produced # <<>> /\ Last(produced).token = "EOF_TOK"

(* Where the scanner is and what it has read, by its mode.                 *)
PlacesInv ==
    /\ mode = "idle" => Ended \/ \E q \in Nat : Passed(q)
    /\ mode = "skip" => \E q \in Nat : Passed(q)
    /\ mode = "comment" => \E q \in Nat : Passed(q) /\ Commented(LastEnd, q)
    /\ InToken => Inside /\ Grammar(mode, token)
    /\ mode = "numberEnd" => ~InClass(CharAt(Here), DecimalDigits)

(* Every token that was made is the one specified.                         *)
TokensRight == \A i \in 1 .. Len(produced) : AsSpecified(produced[i], EndBefore(i))

(* The inductive invariant, together with LexInv.                          *)
LexemeInv == /\ LiveInv /\ PlacesInv /\ TokensRight
             /\ mode = "error" => Blank(LastEnd, span.first) /\ ErrorAsSpecified(span.first)

(* Nothing that is said of the input changes.                              *)
LEMMA TextStays ==
    ASSUME UNCHANGED streamVars, NEW p, NEW q, NEW m, NEW t
    PROVE  /\ Blank(p, q)' <=> Blank(p, q)
           /\ EndAt(q)' <=> EndAt(q)
           /\ CharAt(q)' = CharAt(q)
           /\ SameText(t, p)' <=> SameText(t, p)
           /\ Commented(p, q)' <=> Commented(p, q)
           /\ AsSpecified(m, p)' <=> AsSpecified(m, p)
           /\ ErrorAsSpecified(p)' <=> ErrorAsSpecified(p)
<1>1. text' = text /\ interactive' = interactive
  BY DEF streamVars
<1>2. /\ EndAt(q)' <=> EndAt(q)
      /\ CharAt(q)' = CharAt(q)
      /\ SameText(t, p)' <=> SameText(t, p)
  BY <1>1 DEF EndAt, CharAt, SameText
<1>3. /\ Blank(p, q)' <=> Blank(p, q)
      /\ Commented(p, q)' <=> Commented(p, q)
  BY <1>1 DEF Blank, Commented
<1>4. \A a, s : (s \in LexemesAt(a))' <=> s \in LexemesAt(a)
  BY <1>1 DEF LexemesAt
<1>5. \A a, s : Longest(a, s)' <=> Longest(a, s)
  BY <1>4 DEF Longest
<1>6. \A e : EndAt(e)' <=> EndAt(e)
  BY <1>1 DEF EndAt
<1>7. \A a, e : Blank(a, e)' <=> Blank(a, e)
  BY <1>1 DEF Blank
<1>8. AsSpecified(m, p)' <=> AsSpecified(m, p)
  BY <1>1, <1>5, <1>6, <1>7 DEF AsSpecified
<1>9. ErrorAsSpecified(p)' <=> ErrorAsSpecified(p)
  BY <1>1, <1>4, <1>5 DEF ErrorAsSpecified
<1>10. QED
  BY <1>2, <1>3, <1>8, <1>9

(* A token is made that is as specified.                                   *)
LEMMA Made ==
    ASSUME LexInv, LexemeInv, NEW r, NEW tok, NEW s, Return(r, tok, s), UNCHANGED streamVars,
           LiveInv', NEW made,
           made = [token |-> tok, str |-> s, start |-> span'.start, first |-> span'.first],
           AsSpecified(made, LastEnd),
           tok = "EOF_TOK" \/ \E q \in Nat : At(q)' /\ (EndOf(made) = q \/ (EndOf(made) = q + 1 /\ q = Len(text)))
    PROVE  LexemeInv'
<1>1. mode' = "idle" /\ produced' = Append(produced, made) /\ produced \in Seq(Tokens)
  BY DEF Return, LexInv, LexTypes
<1>2. PICK n \in Nat : n = Len(produced)
  BY <1>1
<1>3. PICK old, new : n = Len(produced) /\ old = produced /\ new = produced'
  BY <1>2
<1>4. /\ Len(new) = n + 1 /\ new[n + 1] = made
      /\ \A i \in 1 .. n : new[i] = old[i]
      /\ new # <<>> /\ Last(new) = made
  BY <1>1, <1>3 DEF Last
<1>5. \A i \in 1 .. n + 1 : EndBefore(i)' = EndBefore(i)
  <2>1. ASSUME NEW i \in 1 .. n + 1, i # 1 PROVE produced'[i - 1] = produced[i - 1]
    <3>1. i - 1 \in 1 .. n
      BY <2>1
    <3>2. QED
      BY <1>3, <1>4, <3>1
  <2>2. QED
    BY <2>1 DEF EndBefore
<1>6. TokensRight'
  <2>1. ASSUME NEW i \in 1 .. n + 1 PROVE AsSpecified(new[i], EndBefore(i))
    <3>1. CASE i = n + 1
      BY <1>3, <1>4, <3>1 DEF LastEnd
    <3>2. CASE i # n + 1
      <4>1. i \in 1 .. n
        BY <3>2
      <4>2. QED
        BY <1>3, <1>4, <4>1 DEF LexemeInv, TokensRight
    <3>3. QED
      BY <3>1, <3>2
  <2>2. ASSUME NEW i \in 1 .. n + 1 PROVE AsSpecified(produced[i], EndBefore(i))'
    <3>1. PICK m, e : m = new[i] /\ e = EndBefore(i)
      OBVIOUS
    <3>2. AsSpecified(m, e)'
      BY <2>1, <3>1, TextStays
    <3>3. produced'[i] = m /\ EndBefore(i)' = e
      BY <1>3, <1>5, <3>1
    <3>4. QED
      BY <3>2, <3>3
  <2>3. QED
    BY <1>3, <1>4, <2>2 DEF TokensRight
<1>7. CASE tok = "EOF_TOK"
  <2>1. Ended'
    BY <1>3, <1>4, <1>7 DEF Ended
  <2>2. QED
    BY <1>1, <1>6, <2>1 DEF LexemeInv, PlacesInv, InToken
<1>8. CASE \E q \in Nat : At(q)' /\ (EndOf(made) = q \/ (EndOf(made) = q + 1 /\ q = Len(text)))
  <2>1. PICK q \in Nat : At(q)' /\ (EndOf(made) = q \/ (EndOf(made) = q + 1 /\ q = Len(text)))
    BY <1>8
  <2>2. LastEnd' = EndOf(made)
    <3>1. Len(produced') + 1 = n + 2 /\ n + 2 # 1 /\ (n + 2) - 1 = n + 1
      BY <1>3, <1>4
    <3>2. LastEnd' = EndOf(produced'[n + 1])
      BY <3>1 DEF LastEnd, EndBefore
    <3>3. QED
      BY <1>3, <1>4, <3>2
  <2>3. PICK e : e = EndOf(made)
    OBVIOUS
  <2>4. Blank(e, q)' \/ (q = Len(text') /\ q < e)
    <3>1. CASE e = q
      <4>1. e <= q /\ e + 1 .. q = {}
        BY <3>1
      <4>2. QED
        BY <4>1 DEF Blank
    <3>2. CASE e = q + 1 /\ q = Len(text)
      BY <3>2 DEF streamVars
    <3>3. QED
      BY <2>1, <2>3, <3>1, <3>2
  <2>5. Passed(q)'
    BY <2>1, <2>2, <2>3, <2>4 DEF Passed, Blank
  <2>6. QED
    BY <1>1, <1>6, <2>5 DEF LexemeInv, PlacesInv, InToken
<1>9. QED
  BY <1>7, <1>8

-----------------------------------------------------------------------------
(* Steps within a token *)

(* What was made stays right when nothing is made.                         *)
LEMMA NothingMade ==
    ASSUME TokensRight, UNCHANGED streamVars, produced' = produced
    PROVE  TokensRight' /\ LastEnd' = LastEnd
<1>1. \A i : EndBefore(i)' = EndBefore(i)
  BY DEF EndBefore
<1>2. ASSUME NEW i \in 1 .. Len(produced) PROVE AsSpecified(produced[i], EndBefore(i))'
  <2>1. PICK m, e : m = produced[i] /\ e = EndBefore(i)
    OBVIOUS
  <2>2. AsSpecified(m, e)
    BY <2>1 DEF TokensRight
  <2>3. AsSpecified(m, e)'
    BY <2>2, TextStays
  <2>4. produced'[i] = m /\ EndBefore(i)' = e
    BY <1>1, <2>1
  <2>5. QED
    BY <2>3, <2>4
<1>3. TokensRight'
  BY <1>2 DEF TokensRight
<1>4. LastEnd' = LastEnd
  BY DEF LastEnd, EndBefore
<1>5. QED
  BY <1>3, <1>4

(* What a step within a token begins with: the character after q is next.  *)
Reads(r, q) ==
    /\ text \in Seq(Bytes) /\ Len(text) \in Nat
    /\ q = span.first + Len(token) /\ q \in 0 .. Len(text) /\ At(q)
    /\ token \in Seq(Int) /\ Len(token) \in Nat /\ Len(token) >= 1
    /\ span.first \in Nat
    /\ SameText(token, span.first) /\ Blank(LastEnd, span.first)
    /\ Grammar(mode, token)
    /\ r.ch = CharAt(q)

(* Within a token the next character is the one after it.                  *)
LEMMA TokenReads ==
    ASSUME LexInv, LexemeInv, InToken, NEW r, r = NextChar, NEW q, q = Here
    PROVE  Reads(r, q)
<1>1. Inside /\ Grammar(mode, token) /\ LiveInv
  BY DEF LexemeInv, PlacesInv
<1>2. At(q) /\ q = span.first + Len(token)
  BY <1>1 DEF Inside, Here
<1>3. r.ch = CharAt(q)
  BY <1>1, <1>2, NextAt
<1>4. text \in Seq(Bytes) /\ token \in Seq(Int) /\ q \in 0 .. Len(text)
  BY <1>2 DEF LexInv, LexTypes, At
<1>5. QED
  BY <1>1, <1>2, <1>3, <1>4 DEF Inside, Reads

(* A character is added to the text of the token.                          *)
LEMMA Pushed ==
    ASSUME LexInv, LexemeInv, InToken, NEW r, r = NextChar, NEW q, q = Here,
           UNCHANGED streamVars, NEW next, Push(r, next),
           next \notin {"idle", "skip", "comment", "error", "numberEnd"},
           q < Len(text), Grammar(next, Append(token, text[q + 1]))
    PROVE  LexemeInv'
<1>1. Reads(r, q) /\ LiveInv /\ TokensRight
  BY TokenReads DEF LexemeInv
<1>2. PICK b, n, p : b = text[q + 1] /\ n = Len(token) /\ p = span.first
  OBVIOUS
<1>3. /\ n \in Nat /\ p \in Nat /\ q = p + n /\ b \in Bytes /\ b \in Int /\ r.ch % 256 = b
      /\ After(q) = q + 1
  <2>1. /\ text[q + 1] \in Bytes /\ CharAt(q) % 256 = text[q + 1]
        /\ After(q) = q + 1
    BY <1>1, CharIs DEF Reads
  <2>2. n \in Nat /\ p \in Nat /\ q = p + n
    BY <1>1, <1>2 DEF Reads
  <2>3. r.ch = CharAt(q)
    BY <1>1 DEF Reads
  <2>4. \A c \in Bytes : c \in Int
    BY DEF Bytes
  <2>5. QED
    BY <1>2, <2>1, <2>2, <2>3, <2>4
<1>4. /\ token' = Append(token, b) /\ mode' = next /\ Take(r)
      /\ span'.first = p /\ produced' = produced
  <2>1. span \in Spans
    BY DEF LexInv, LexTypes
  <2>2. QED
    BY <1>2, <1>3, <2>1 DEF Push, Go, Spans
<1>5. PICK t, s : t = token /\ s = token'
  OBVIOUS
<1>6. /\ Len(s) = n + 1 /\ s[n + 1] = b /\ \A i \in 1 .. n : s[i] = t[i]
  BY <1>1, <1>2, <1>3, <1>4, <1>5 DEF Reads
<1>7. SameText(s, p)
  <2>1. \A i \in 1 .. n : t[i] = text[p + i]
    BY <1>1, <1>2, <1>5 DEF Reads, SameText
  <2>2. p + (n + 1) = q + 1 /\ \A i \in 1 .. n + 1 : i \in 1 .. n \/ i = n + 1
    BY <1>3
  <2>3. QED
    BY <1>2, <1>6, <2>1, <2>2 DEF SameText
<1>8. At(q + 1)' /\ LiveInv'
  BY <1>1, <1>3, <1>4, MovesTo DEF Reads
<1>9. TokensRight' /\ LastEnd' = LastEnd
  BY <1>1, <1>4, NothingMade
<1>10. PICK e : e = LastEnd
  OBVIOUS
<1>11. Blank(e, p)' /\ SameText(s, p)'
  BY <1>1, <1>2, <1>7, <1>10, TextStays DEF Reads
<1>12. Inside'
  <2>1. Here' = q + 1
    BY <1>3, <1>4, <1>5, <1>6 DEF Here
  <2>2. n + 1 >= 1
    BY <1>3
  <2>3. At(Here)'
    BY <1>8, <2>1
  <2>4. SameText(token, span.first)' /\ Blank(LastEnd, span.first)'
    BY <1>4, <1>5, <1>9, <1>10, <1>11
  <2>5. QED
    BY <1>3, <1>4, <1>5, <1>6, <2>2, <2>3, <2>4 DEF Inside
<1>13. Grammar(mode, token)'
  BY <1>2, <1>4 DEF Grammar
<1>14. PlacesInv'
  BY <1>4, <1>12, <1>13 DEF PlacesInv, InToken
<1>15. QED
  BY <1>4, <1>8, <1>9, <1>14 DEF LexemeInv

(* A token is made whose end is at a, or the input ends there.             *)
LEMMA TokenMade ==
    ASSUME LexInv, LexemeInv, InToken, NEW r, r = NextChar, NEW q, q = Here, UNCHANGED streamVars,
           NEW tok, tok # "EOF_TOK", NEW s, Finish(r, tok, s),
           NEW a \in Nat, At(a)', LiveInv',
           tok \in Unterminated => s = token /\ EndAt(q) /\ ~IsLexeme(token),
           tok \notin Unterminated => Longest(span.first, s) /\ IsOfKind(tok, s),
           NEW n, n = Len(s) + Beyond(tok, s),
           span.first + n = a \/ (span.first + n = a + 1 /\ a = Len(text))
    PROVE  LexemeInv'
<1>1. Reads(r, q)
  BY TokenReads
<1>2. PICK p, made : /\ p = span.first
                     /\ made = [token |-> tok, str |-> s, start |-> span'.start, first |-> span'.first]
  OBVIOUS
<1>3. Return(r, tok, s) /\ span'.first = p
  <2>1. span \in Spans
    BY DEF LexInv, LexTypes
  <2>2. QED
    BY <1>2, <2>1 DEF Finish, Spans
<1>4. made.token = tok /\ made.str = s /\ made.first = p
  BY <1>2, <1>3
<1>5. AsSpecified(made, LastEnd)
  <2>1. Blank(LastEnd, p) /\ made.token # "EOF_TOK"
    BY <1>1, <1>2, <1>4 DEF Reads
  <2>2. ASSUME tok \in Unterminated
        PROVE  /\ made.str # <<>>
               /\ made.str = SubSeq(text, made.first + 1, made.first + Len(made.str))
               /\ made.first + Len(made.str) <= Len(text)
               /\ EndAt(made.first + Len(made.str)) /\ ~IsLexeme(made.str)
    <3>1. /\ s = token /\ p + Len(token) = q /\ EndAt(q) /\ ~IsLexeme(token)
          /\ Len(token) >= 1 /\ token \in Seq(Int) /\ q <= Len(text)
      BY <1>1, <1>2, <2>2 DEF Reads
    <3>2. token = SubSeq(text, p + 1, p + Len(token))
      <4>1. /\ text \in Seq(Bytes) /\ token \in Seq(Int) /\ p \in Nat /\ SameText(token, p)
            /\ q <= Len(text)
        BY <1>1, <1>2 DEF Reads
      <4>2. QED
        BY <3>1, <4>1, TextIsPiece
    <3>3. token # <<>>
      BY <3>1
    <3>4. QED
      BY <1>4, <3>1, <3>2, <3>3
  <2>3. ASSUME tok \notin Unterminated
        PROVE  Longest(made.first, made.str) /\ IsOfKind(made.token, made.str)
    BY <1>2, <1>4, <2>3
  <2>4. QED
    BY <1>4, <2>1, <2>2, <2>3 DEF AsSpecified
<1>6. EndOf(made) = a \/ (EndOf(made) = a + 1 /\ a = Len(text))
  <2>1. EndOf(made) = p + Len(s) + Beyond(tok, s) /\ Beyond(tok, s) \in {0, 1}
    BY <1>4 DEF EndOf, Beyond
  <2>2. Len(s) \in Nat /\ p \in Nat
    <3>1. CASE tok \in Unterminated
      BY <1>1, <1>2, <3>1 DEF Reads
    <3>2. CASE tok \notin Unterminated
      <4>1. s \in LexemesAt(p)
        BY <1>2, <3>2 DEF Longest
      <4>2. p \in Nat /\ text \in Seq(Bytes)
        BY <1>1, <1>2 DEF Reads
      <4>3. QED
        BY <4>1, <4>2, LexemeOfText
    <3>3. QED
      BY <3>1, <3>2
  <2>3. EndOf(made) = p + n
    BY <2>1, <2>2
  <2>4. QED
    BY <1>2, <2>3
<1>7. \E k \in Nat : At(k)' /\ (EndOf(made) = k \/ (EndOf(made) = k + 1 /\ k = Len(text)))
  BY <1>6
<1>8. QED
  BY <1>2, <1>3, <1>5, <1>7, Made

(* The character that ends the token is saved.                             *)
LEMMA SavedToken ==
    ASSUME LexInv, LexemeInv, InToken, NEW r, r = NextChar, UNCHANGED streamVars,
           NEW tok, tok \notin Unterminated \cup {"EOF_TOK"}, Save(r), Finish(r, tok, token),
           ~(tok = "KEYWORD" /\ Len(token) = 2), Longest(span.first, token), IsOfKind(tok, token)
    PROVE  LexemeInv'
<1>1. PICK q, s : q = Here /\ s = token
  OBVIOUS
<1>2. Reads(r, q)
  BY <1>1, TokenReads
<1>3. At(q)' /\ LiveInv'
  <2>1. LiveInv /\ At(q)
    BY <1>2 DEF LexemeInv, Reads
  <2>2. PICK a : a = After(q)
    OBVIOUS
  <2>3. QED
    BY <2>1, <2>2, MovesTo
<1>4. PICK n : n = Len(s) + Beyond(tok, s)
  OBVIOUS
<1>5. q \in Nat /\ span.first + n = q
  <2>1. Beyond(tok, s) = 0
    BY <1>1 DEF Beyond
  <2>2. QED
    BY <1>1, <1>2, <1>4, <2>1 DEF Reads
<1>6. Finish(r, tok, s) /\ Longest(span.first, s) /\ IsOfKind(tok, s)
  BY <1>1
<1>7. QED
  BY <1>1, <1>3, <1>4, <1>5, <1>6, TokenMade

(* The character that ends the token is used up.                           *)
LEMMA TakenToken ==
    ASSUME LexInv, LexemeInv, InToken, NEW r, r = NextChar, NEW q, q = Here, UNCHANGED streamVars,
           NEW tok, tok # "EOF_TOK", NEW s, Take(r), Finish(r, tok, s),
           tok \in Unterminated => s = token /\ EndAt(q) /\ ~IsLexeme(token),
           tok \notin Unterminated => Longest(span.first, s) /\ IsOfKind(tok, s),
           Len(s) + Beyond(tok, s) = Len(token) + 1
    PROVE  LexemeInv'
<1>1. Reads(r, q)
  BY TokenReads
<1>2. PICK a : a = After(q)
  OBVIOUS
<1>3. At(a)' /\ LiveInv'
  <2>1. LiveInv /\ At(q)
    BY <1>1 DEF LexemeInv, Reads
  <2>2. QED
    BY <1>2, <2>1, MovesTo
<1>4. PICK n : n = Len(s) + Beyond(tok, s)
  OBVIOUS
<1>5. a \in Nat /\ (span.first + n = a \/ (span.first + n = a + 1 /\ a = Len(text)))
  <2>1. PICK k, p, l : k = Len(token) /\ p = span.first /\ l = Len(text)
    OBVIOUS
  <2>2. k \in Nat /\ p \in Nat /\ q = p + k /\ q \in 0 .. l /\ l \in Nat /\ n = k + 1
    BY <1>1, <1>4, <2>1 DEF Reads
  <2>3. a = IF q < l THEN q + 1 ELSE q
    BY <1>2, <2>1 DEF After
  <2>4. a \in Nat /\ (p + n = a \/ (p + n = a + 1 /\ a = l))
    BY <2>2, <2>3
  <2>5. QED
    BY <2>1, <2>4
<1>6. QED
  BY <1>3, <1>4, <1>5, TokenMade

-----------------------------------------------------------------------------
(* When a token or an error is right *)

(* What the next character tells of the text.                              *)
LEMMA CharHere ==
    ASSUME NEW r, NEW q, Reads(r, q)
    PROVE  /\ r.ch = EOF <=> EndAt(q)
           /\ r.ch # EOF => q < Len(text)
           /\ q < Len(text) => text[q + 1] \in Bytes /\ text[q + 1] \in Int
<1>1. r.ch = CharAt(q) /\ text \in Seq(Bytes) /\ q \in 0 .. Len(text)
  BY DEF Reads
<1>2. \A b \in Bytes : b \in Int
  BY DEF Bytes
<1>3. /\ CharAt(q) = EOF <=> EndAt(q)
      /\ CharAt(q) # EOF => q < Len(text)
      /\ q < Len(text) => text[q + 1] \in Bytes
  BY <1>1, CharIs, Zenon
<1>4. QED
  BY <1>1, <1>2, <1>3

(* A character that is compared is that of the text,                       *)
LEMMA CharIsHere ==
    ASSUME NEW r, NEW q, Reads(r, q), NEW c \in 0 .. 127
    PROVE  r.ch = c <=> q < Len(text) /\ text[q + 1] = c
<1>1. r.ch = CharAt(q) /\ text \in Seq(Bytes) /\ q \in 0 .. Len(text)
  BY DEF Reads
<1>2. \A x \in 0 .. 127 : CharAt(q) = x <=> q < Len(text) /\ text[q + 1] = x
  BY <1>1, CharIs, Zenon
<1>3. QED
  BY <1>1, <1>2, Zenon

(* and so is one that is looked up in a class.                             *)
LEMMA ClassHere ==
    ASSUME NEW r, NEW q, Reads(r, q), NEW C \in SUBSET (0 .. 254)
    PROVE  InClass(r.ch, C) <=> q < Len(text) /\ text[q + 1] \in C
<1>1. r.ch = CharAt(q) /\ text \in Seq(Bytes) /\ q \in 0 .. Len(text)
  BY DEF Reads
<1>2. \A D \in SUBSET (0 .. 254) : InClass(CharAt(q), D) <=> q < Len(text) /\ text[q + 1] \in D
  BY <1>1, CharIs, Zenon
<1>3. QED
  BY <1>1, <1>2, Zenon

(* A token is the longest lexeme when the text goes on as none does.       *)
LEMMA StopsAt ==
    ASSUME NEW r, NEW q, Reads(r, q), IsLexeme(token), NEW C,
           q < Len(text) => text[q + 1] \notin C,
           \A u \in Seq(Int) : Longer(u, token) => u[Len(token) + 1] \in C
    PROVE  Longest(span.first, token)
<1>1. PICK t, p : t = token /\ p = span.first
  OBVIOUS
<1>2. /\ text \in Seq(Bytes) /\ t \in Seq(Int) /\ p \in Nat /\ q = p + Len(t)
      /\ q <= Len(text) /\ SameText(t, p) /\ Len(t) \in Nat
  BY <1>1 DEF Reads
<1>3. ASSUME NEW u \in Seq(Int), Longer(u, t), p + Len(t) < Len(text),
             u[Len(t) + 1] = text[p + Len(t) + 1]
      PROVE  FALSE
  <2>1. u[Len(t) + 1] \in C
    BY <1>1, <1>3
  <2>2. text[p + Len(t) + 1] \notin C
    BY <1>2, <1>3
  <2>3. QED
    BY <1>3, <2>1, <2>2
<1>4. IsLexeme(t) /\ p + Len(t) <= Len(text)
  BY <1>1, <1>2
<1>5. Longest(p, t)
  BY <1>2, <1>3, <1>4, LongestIf
<1>6. QED
  BY <1>1, <1>5

(* The lexemes that begin where the token does, if it has been read so far.*)
LEMMA LexemesHere ==
    ASSUME NEW r, NEW q, Reads(r, q), NEW s \in LexemesAt(span.first)
    PROVE  /\ s \in Seq(Int) /\ IsLexeme(s) /\ Len(s) \in Nat /\ ByFirst(s)
           /\ s[1] = token[1] /\ s[1] \in Int
           /\ \A i \in 1 .. Len(s) : i <= Len(token) => s[i] = token[i]
           /\ Len(s) > Len(token) => q < Len(text) /\ s[Len(token) + 1] = text[q + 1]
<1>1. PICK t, p, n, m : t = token /\ p = span.first /\ n = Len(token) /\ m = Len(s)
  OBVIOUS
<1>2. /\ text \in Seq(Bytes) /\ Len(text) \in Nat /\ p \in Nat /\ n \in Nat /\ n >= 1 /\ q = p + n
      /\ \A i \in 1 .. n : t[i] = text[p + i]
  BY <1>1 DEF Reads, SameText
<1>3. /\ s \in Seq(Int) /\ IsLexeme(s) /\ m \in Nat /\ m >= 1 /\ p + m <= Len(text)
      /\ SameText(s, p)
  BY <1>1, <1>2, LexemeOfText
<1>4. \A i \in 1 .. m : s[i] = text[p + i]
  BY <1>1, <1>3 DEF SameText
<1>5. \A i \in 1 .. m : i <= n => s[i] = t[i]
  BY <1>2, <1>3, <1>4
<1>6. s[1] = t[1]
  BY <1>2, <1>3, <1>5
<1>7. m > n => q < Len(text) /\ s[n + 1] = text[q + 1]
  <2>1. SUFFICES ASSUME m > n PROVE q < Len(text) /\ s[n + 1] = text[q + 1]
    OBVIOUS
  <2>2. n + 1 \in 1 .. m /\ p + (n + 1) = q + 1
    BY <1>2, <1>3, <2>1
  <2>3. q < Len(text)
    BY <1>2, <1>3, <2>1
  <2>4. QED
    BY <1>4, <2>2, <2>3
<1>8. ByFirst(s) /\ s[1] \in Int
  BY <1>3, LexemeKind
<1>9. QED
  BY <1>1, <1>3, <1>5, <1>6, <1>7, <1>8

(* A token that is read begins within the text.                            *)
LEMMA BeginsBefore ==
    ASSUME NEW r, NEW q, Reads(r, q)
    PROVE  span.first < Len(text)
<1>1. PICK p, n, l : p = span.first /\ n = Len(token) /\ l = Len(text)
  OBVIOUS
<1>2. p \in Nat /\ n \in Nat /\ l \in Nat /\ n >= 1 /\ p + n <= l
  BY <1>1 DEF Reads
<1>3. p < l
  BY <1>2
<1>4. QED
  BY <1>1, <1>3

(* An error is reported that is as specified.                              *)
LEMMA Failed ==
    ASSUME LexemeInv, NEW r, NEW q, Reads(r, q), r = NextChar, LexInv,
           UNCHANGED streamVars, ParseError(r), ErrorAsSpecified(span.first)
    PROVE  LexemeInv'
<1>1. /\ Take(r) /\ mode' = "error" /\ span' = span /\ produced' = produced
  BY DEF ParseError, tokenVars
<1>2. LiveInv'
  <2>1. LiveInv /\ At(q)
    BY DEF LexemeInv, Reads
  <2>2. PICK a : a = After(q)
    OBVIOUS
  <2>3. QED
    BY <1>1, <2>1, <2>2, MovesTo
<1>3. TokensRight' /\ LastEnd' = LastEnd
  BY <1>1, NothingMade DEF LexemeInv
<1>4. Blank(LastEnd, span.first)' /\ ErrorAsSpecified(span.first)'
  <2>1. PICK p, e : p = span.first /\ e = LastEnd /\ Blank(e, p)
    BY DEF Reads
  <2>2. ErrorAsSpecified(p)' /\ Blank(e, p)'
    BY <2>1, TextStays
  <2>3. QED
    BY <1>1, <1>3, <2>1, <2>2
<1>5. PlacesInv'
  BY <1>1 DEF PlacesInv, InToken
<1>6. QED
  BY <1>2, <1>3, <1>4, <1>5 DEF LexemeInv

-----------------------------------------------------------------------------
(* The steps of the scanner *)

(* After a hash.                                                           *)
LEMMA HashCharRight ==
    ASSUME LexInv, LexemeInv, HashChar, UNCHANGED streamVars
    PROVE  LexemeInv'
<1>1. PICK r, q : r = NextChar /\ q = Here
  OBVIOUS
<1>2. mode = "hash" /\ InToken
  BY DEF HashChar, InToken
<1>3. Reads(r, q) /\ token = <<Hash>>
  <2>1. Reads(r, q)
    BY <1>1, <1>2, TokenReads
  <2>2. QED
    BY <1>2, <2>1 DEF Reads, Grammar
<1>4. ASSUME NEW c \in {98, 120}
      PROVE  r.ch = c <=> q < Len(text) /\ text[q + 1] = c
  <2>1. c \in 0 .. 127
    OBVIOUS
  <2>2. QED
    BY <1>3, <2>1, CharIsHere
<1>5. CASE r.ch = 98
  <2>1. Push(r, "binary")
    BY <1>1, <1>5 DEF HashChar
  <2>2. q < Len(text) /\ text[q + 1] = 98
    BY <1>4, <1>5
  <2>3. Grammar("binary", Append(token, text[q + 1]))
    BY <1>3, <2>2 DEF Grammar, BitsAfter, Hash
  <2>4. QED
    BY <1>1, <1>2, <2>1, <2>2, <2>3, Pushed
<1>6. CASE r.ch = 120
  <2>1. Push(r, "hexadecimal")
    BY <1>1, <1>6 DEF HashChar
  <2>2. q < Len(text) /\ text[q + 1] = 120
    BY <1>4, <1>6
  <2>3. Grammar("hexadecimal", Append(token, text[q + 1]))
    BY <1>3, <2>2 DEF Grammar, BitsAfter, Hash
  <2>4. QED
    BY <1>1, <1>2, <2>1, <2>2, <2>3, Pushed
<1>7. CASE r.ch \notin {98, 120}
  <2>1. ParseError(r)
    BY <1>1, <1>7 DEF HashChar
  <2>2. ASSUME NEW s \in LexemesAt(span.first) PROVE FALSE
    <3>1. /\ ByFirst(s) /\ s[1] = Hash /\ Len(s) \in Nat
          /\ Len(s) > 1 => q < Len(text) /\ s[2] = text[q + 1]
      <4>1. Len(token) = 1 /\ token[1] = Hash /\ 1 + 1 = 2
        BY <1>3
      <4>2. QED
        BY <1>3, <4>1, LexemesHere
    <3>2. Len(s) >= 2 /\ s[2] \in {98, 120}
      BY <3>1 DEF ByFirst, IsBits
    <3>3. PICK c \in {98, 120} : c = s[2]
      BY <3>2
    <3>4. q < Len(text) /\ text[q + 1] = c
      BY <3>1, <3>2, <3>3
    <3>5. QED
      BY <1>4, <1>7, <3>4
  <2>3. ErrorAsSpecified(span.first)
    BY <1>3, <2>2, BeginsBefore DEF ErrorAsSpecified
  <2>4. QED
    BY <1>1, <1>3, <2>1, <2>3, Failed
<1>8. QED
  BY <1>5, <1>6, <1>7

(* Within a quoted symbol.                                                 *)
LEMMA QuotedCharRight ==
    ASSUME LexInv, LexemeInv, QuotedChar, UNCHANGED streamVars
    PROVE  LexemeInv'
<1>1. PICK r, q, b : r = NextChar /\ q = Here /\ b = text[q + 1]
  OBVIOUS
<1>2. mode = "quoted" /\ InToken
  BY DEF QuotedChar, InToken
<1>3. /\ Reads(r, q)
      /\ token[1] = Bar /\ \A i \in 2 .. Len(token) : token[i] # Bar
  <2>1. Reads(r, q)
    BY <1>1, <1>2, TokenReads
  <2>2. QED
    BY <1>2, <2>1 DEF Reads, Grammar
<1>4. PICK t, p, n : t = token /\ p = span.first /\ n = Len(token)
  OBVIOUS
<1>5. /\ t \in Seq(Int) /\ n = Len(t) /\ n \in Nat /\ n >= 1 /\ p \in Nat /\ q = p + n
      /\ text \in Seq(Bytes) /\ q \in 0 .. Len(text) /\ SameText(t, p)
  BY <1>3, <1>4 DEF Reads
<1>6. r.ch = Bar <=> q < Len(text) /\ b = Bar
  BY <1>1, <1>3, CharIsHere DEF Bar
<1>7. CASE r.ch = EOF
  <2>1. Take(r) /\ Finish(r, "UNTERMINATED_QUOTED_SYMBOL", t)
    BY <1>1, <1>4, <1>7 DEF QuotedChar, EOF, Bar
  <2>2. EndAt(q)
    BY <1>3, <1>7, CharHere
  <2>3. ~IsLexeme(t)
    BY <1>3, <1>4, <1>5, OpenIsNoLexeme
  <2>4. Len(t) + Beyond("UNTERMINATED_QUOTED_SYMBOL", t) = Len(token) + 1
    BY <1>4 DEF Beyond, Unterminated
  <2>5. QED
    BY <1>1, <1>2, <1>4, <2>1, <2>2, <2>3, <2>4, TakenToken DEF Unterminated
<1>8. CASE r.ch = Bar
  <2>1. PICK s : s = Append(t, Bar)
    OBVIOUS
  <2>2. Take(r) /\ Finish(r, "QUOTED_SYMBOL", s)
    BY <1>1, <1>4, <1>8, <2>1 DEF QuotedChar, Bar, EOF
  <2>3. /\ s \in Seq(Int) /\ Len(s) = n + 1 /\ s[n + 1] = Bar
        /\ \A i \in 1 .. n : s[i] = t[i]
    BY <1>5, <2>1, OneMore DEF Bar
  <2>4. p + Len(s) <= Len(text) /\ SameText(s, p)
    <3>1. p + (n + 1) = q + 1 /\ \A i \in 1 .. n + 1 : i \in 1 .. n \/ i = n + 1
      BY <1>5
    <3>2. q < Len(text) /\ text[q + 1] = Bar
      BY <1>1, <1>6, <1>8
    <3>3. \A i \in 1 .. n + 1 : s[i] = text[p + i]
      BY <1>5, <2>3, <3>1, <3>2 DEF SameText
    <3>4. p + (n + 1) <= Len(text)
      BY <1>5, <3>1, <3>2
    <3>5. QED
      BY <2>3, <3>3, <3>4 DEF SameText
  <2>5. IsLexeme(s)
    BY <1>3, <1>4, <1>5, <2>1, Complete
  <2>6. \A u \in Seq(Int) : ~Longer(u, s)
    <3>1. 1 \in 1 .. n /\ n + 1 >= 2
      BY <1>5
    <3>2. Len(s) >= 2 /\ s[1] = Bar /\ s[Len(s)] = Bar
      BY <1>3, <1>4, <2>3, <3>1
    <3>3. QED
      BY <2>3, <3>2, LongerQuoted
  <2>7. Longest(p, s)
    BY <1>5, <2>3, <2>4, <2>5, <2>6, LongestIf
  <2>8. Len(s) + Beyond("QUOTED_SYMBOL", s) = Len(token) + 1 /\ "QUOTED_SYMBOL" \notin Unterminated
    BY <1>4, <1>5, <2>3 DEF Unterminated, Beyond
  <2>9. IsOfKind("QUOTED_SYMBOL", s)
    <3>1. 1 \in 1 .. n
      BY <1>5
    <3>2. s[1] = Bar
      BY <1>3, <1>4, <2>3, <3>1
    <3>3. QED
      BY <3>2, FirstCharacters DEF IsOfKind, Bar
  <2>10. QED
    BY <1>1, <1>2, <1>4, <2>2, <2>7, <2>8, <2>9, TakenToken
<1>9. CASE r.ch # EOF /\ r.ch # Bar
  <2>1. Push(r, "quoted")
    BY <1>1, <1>9 DEF QuotedChar
  <2>2. q < Len(text) /\ b # Bar /\ b \in Int
    BY <1>1, <1>3, <1>6, <1>9, CharHere
  <2>3. PICK s : s = Append(t, b)
    OBVIOUS
  <2>4. /\ Len(s) = n + 1 /\ s[n + 1] = b
        /\ \A i \in 1 .. n : s[i] = t[i]
    BY <1>5, <2>2, <2>3
  <2>5. Grammar("quoted", s)
    <3>1. s[1] = Bar
      BY <1>3, <1>4, <1>5, <2>4
    <3>2. \A i \in 2 .. n + 1 : i \in 2 .. n \/ i = n + 1
      BY <1>5
    <3>3. \A i \in 2 .. Len(s) : s[i] # Bar
      BY <1>3, <1>4, <2>2, <2>4, <3>2
    <3>4. QED
      BY <3>1, <3>3 DEF Grammar
  <2>6. QED
    BY <1>1, <1>2, <1>4, <2>1, <2>2, <2>3, <2>5, Pushed
<1>10. QED
  BY <1>7, <1>8, <1>9

(* Within a string literal.                                                *)
LEMMA StringCharRight ==
    ASSUME LexInv, LexemeInv, StringChar, UNCHANGED streamVars
    PROVE  LexemeInv'
<1>1. PICK r, q, b, t : r = NextChar /\ q = Here /\ b = text[q + 1] /\ t = token
  OBVIOUS
<1>2. mode = "string" /\ InToken
  BY DEF StringChar, InToken
<1>3. Reads(r, q) /\ OpenString(t) /\ t \in Seq(Int)
  <2>1. Reads(r, q)
    BY <1>1, <1>2, TokenReads
  <2>2. QED
    BY <1>1, <1>2, <2>1 DEF Reads, Grammar
<1>4. r.ch = DoubleQuote <=> q < Len(text) /\ b = DoubleQuote
  BY <1>1, <1>3, CharIsHere DEF DoubleQuote
<1>5. CASE r.ch = EOF
  <2>1. Take(r) /\ Finish(r, "UNTERMINATED_STRING_LITERAL", t)
    BY <1>1, <1>5 DEF StringChar, EOF, DoubleQuote
  <2>2. EndAt(q)
    BY <1>3, <1>5, CharHere
  <2>3. ~IsLexeme(t)
    BY <1>3, OpenIsNoLexeme
  <2>4. Len(t) + Beyond("UNTERMINATED_STRING_LITERAL", t) = Len(token) + 1
    BY <1>1 DEF Beyond, Unterminated
  <2>5. QED
    BY <1>1, <1>2, <2>1, <2>2, <2>3, <2>4, TakenToken DEF Unterminated
<1>6. CASE r.ch # EOF /\ r.ch = DoubleQuote
  <2>1. Push(r, "stringQuote")
    BY <1>1, <1>6 DEF StringChar
  <2>2. q < Len(text) /\ b = DoubleQuote
    BY <1>4, <1>6
  <2>3. Grammar("stringQuote", Append(t, b))
    BY <1>3, <2>2, QuoteComes DEF Grammar
  <2>4. QED
    BY <1>1, <1>2, <2>1, <2>2, <2>3, Pushed
<1>7. CASE r.ch # EOF /\ r.ch # DoubleQuote
  <2>1. Push(r, "string")
    BY <1>1, <1>7 DEF StringChar
  <2>2. q < Len(text) /\ b # DoubleQuote /\ b \in Int
    BY <1>1, <1>3, <1>4, <1>7, CharHere
  <2>3. Grammar("string", Append(t, b))
    BY <1>3, <2>2, StringGoesOn DEF Grammar
  <2>4. QED
    BY <1>1, <1>2, <2>1, <2>2, <2>3, Pushed
<1>8. QED
  BY <1>5, <1>6, <1>7

(* After a quote in it.                                                    *)
LEMMA AfterQuoteRight ==
    ASSUME LexInv, LexemeInv, AfterQuote, UNCHANGED streamVars
    PROVE  LexemeInv'
<1>1. PICK r, q, b, t : r = NextChar /\ q = Here /\ b = text[q + 1] /\ t = token
  OBVIOUS
<1>2. mode = "stringQuote" /\ InToken
  BY DEF AfterQuote, InToken
<1>3. Reads(r, q) /\ QuoteSeen(t) /\ t \in Seq(Int)
  <2>1. Reads(r, q)
    BY <1>1, <1>2, TokenReads
  <2>2. QED
    BY <1>1, <1>2, <2>1 DEF Reads, Grammar
<1>4. r.ch = DoubleQuote <=> q < Len(text) /\ b = DoubleQuote
  BY <1>1, <1>3, CharIsHere DEF DoubleQuote
<1>5. CASE r.ch = DoubleQuote
  <2>1. Push(r, "string")
    BY <1>1, <1>5 DEF AfterQuote
  <2>2. q < Len(text) /\ b = DoubleQuote
    BY <1>4, <1>5
  <2>3. Grammar("string", Append(t, b))
    BY <1>3, <2>2, QuotesPair DEF Grammar
  <2>4. QED
    BY <1>1, <1>2, <2>1, <2>2, <2>3, Pushed
<1>6. CASE r.ch # DoubleQuote
  <2>1. Save(r) /\ Finish(r, "STRING_LITERAL", token)
    BY <1>1, <1>6 DEF AfterQuote
  <2>2. /\ IsLexeme(t)
        /\ \A u \in Seq(Int) : Longer(u, t) => u[Len(t) + 1] \in {DoubleQuote}
    BY <1>3, QuoteEnds
  <2>3. q < Len(text) => text[q + 1] \notin {DoubleQuote}
    BY <1>1, <1>4, <1>6
  <2>4. Longest(span.first, token)
    BY <1>1, <1>3, <2>2, <2>3, StopsAt
  <2>5. IsOfKind("STRING_LITERAL", token)
    <3>1. token[1] = DoubleQuote
      BY <1>1, <1>3 DEF QuoteSeen, OpenString
    <3>2. QED
      BY <3>1, FirstCharacters DEF IsOfKind, DoubleQuote
  <2>6. QED
    BY <1>1, <1>2, <2>1, <2>4, <2>5, SavedToken DEF Unterminated
<1>7. QED
  BY <1>5, <1>6

(* After a colon.                                                          *)
LEMMA KeywordCharRight ==
    ASSUME LexInv, LexemeInv, KeywordChar, UNCHANGED streamVars
    PROVE  LexemeInv'
<1>1. PICK r, q, b : r = NextChar /\ q = Here /\ b = text[q + 1]
  OBVIOUS
<1>2. mode = "keyword" /\ InToken
  BY DEF KeywordChar, InToken
<1>3. Reads(r, q) /\ token = <<Colon>>
  <2>1. Reads(r, q)
    BY <1>1, <1>2, TokenReads
  <2>2. QED
    BY <1>2, <2>1 DEF Reads, Grammar
<1>4. InClass(r.ch, SymbolStart) <=> q < Len(text) /\ b \in SymbolStart
  BY <1>1, <1>3, Classes, ClassHere
<1>5. CASE InClass(r.ch, SymbolStart)
  <2>1. Push(r, "keywordSecond")
    BY <1>1, <1>5 DEF KeywordChar
  <2>2. q < Len(text) /\ b \in SymbolStart
    BY <1>4, <1>5
  <2>3. Grammar("keywordSecond", Append(token, b))
    BY <1>3, <2>2 DEF Grammar, KeywordSoFar
  <2>4. QED
    BY <1>1, <1>2, <2>1, <2>2, <2>3, Pushed
<1>6. CASE ~InClass(r.ch, SymbolStart)
  <2>1. ParseError(r)
    BY <1>1, <1>6 DEF KeywordChar
  <2>2. ASSUME NEW s \in LexemesAt(span.first) PROVE FALSE
    <3>1. /\ s \in Seq(Int) /\ ByFirst(s) /\ s[1] = Colon /\ Len(s) \in Nat
          /\ Len(s) > 1 => q < Len(text) /\ s[2] = text[q + 1]
      <4>1. Len(token) = 1 /\ token[1] = Colon /\ 1 + 1 = 2
        BY <1>3
      <4>2. QED
        BY <1>3, <4>1, LexemesHere
    <3>2. IsKeyword(s)
      BY <3>1 DEF ByFirst
    <3>3. Len(s) >= 2 /\ Tail(s)[1] \in SymbolStart
      BY <3>2 DEF IsKeyword, Matches
    <3>4. s # <<>> /\ 1 \in 1 .. Len(s) - 1
      BY <3>1, <3>3
    <3>5. Tail(s)[1] = s[2]
      BY <3>1, <3>4
    <3>6. QED
      BY <1>1, <1>4, <1>6, <3>1, <3>3, <3>5
  <2>3. ErrorAsSpecified(span.first)
    BY <1>3, <2>2, BeginsBefore DEF ErrorAsSpecified
  <2>4. QED
    BY <1>1, <1>3, <2>1, <2>3, Failed
<1>7. QED
  BY <1>5, <1>6

(* After the first letter of a keyword, which ends it if nothing goes on.  *)
LEMMA KeywordSecondRight ==
    ASSUME LexInv, LexemeInv, KeywordSecond, UNCHANGED streamVars
    PROVE  LexemeInv'
<1>1. PICK r, q, b, t : r = NextChar /\ q = Here /\ b = text[q + 1] /\ t = token
  OBVIOUS
<1>2. mode = "keywordSecond" /\ InToken
  BY DEF KeywordSecond, InToken
<1>3. Reads(r, q) /\ KeywordSoFar(t) /\ Len(t) = 2 /\ t \in Seq(Int)
  <2>1. Reads(r, q)
    BY <1>1, <1>2, TokenReads
  <2>2. QED
    BY <1>1, <1>2, <2>1 DEF Reads, Grammar
<1>4. InClass(r.ch, SymbolChars) <=> q < Len(text) /\ b \in SymbolChars
  BY <1>1, <1>3, Classes, ClassHere, ZenonT(30)
<1>5. CASE InClass(r.ch, SymbolChars)
  <2>1. Push(r, "keywordRest")
    BY <1>1, <1>5 DEF KeywordSecond
  <2>2. q < Len(text) /\ b \in SymbolChars
    BY <1>4, <1>5
  <2>3. PICK s : s = Append(t, b)
    OBVIOUS
  <2>4. Len(s) = 3 /\ s[1] = t[1] /\ s[2] = t[2] /\ s[3] = b
    <3>1. b \in Int /\ 2 + 1 = 3 /\ 1 \in 1 .. 2 /\ 2 \in 1 .. 2
      BY <1>1, <1>3, <2>2, CharHere
    <3>2. Len(s) = Len(t) + 1 /\ s[Len(t) + 1] = b /\ \A i \in 1 .. Len(t) : s[i] = t[i]
      BY <1>3, <2>3, <3>1, OneMore
    <3>3. QED
      BY <1>3, <3>1, <3>2
  <2>5. Grammar("keywordRest", s)
    BY <1>3, <2>2, <2>4 DEF Grammar, KeywordSoFar
  <2>6. QED
    BY <1>1, <1>2, <2>1, <2>2, <2>3, <2>5, Pushed
<1>6. CASE ~InClass(r.ch, SymbolChars)
  <2>1. Take(r) /\ Finish(r, "KEYWORD", t)
    BY <1>1, <1>6 DEF KeywordSecond
  <2>2. IsLexeme(t) /\ \A u \in Seq(Int) : Longer(u, t) => u[Len(t) + 1] \in SymbolChars
    <3>1. Len(t) >= 1 /\ Len(t) >= 2 /\ t[1] = Colon
      BY <1>3 DEF KeywordSoFar
    <3>2. IsLexeme(t)
      BY <1>3, <3>1, Complete
    <3>3. QED
      BY <1>3, <3>1, <3>2, LongerKeyword
  <2>3. q < Len(text) => text[q + 1] \notin SymbolChars
    BY <1>1, <1>4, <1>6
  <2>4. Longest(span.first, t)
    BY <1>1, <1>3, <2>2, <2>3, StopsAt
  <2>5. Len(t) + Beyond("KEYWORD", t) = Len(token) + 1 /\ "KEYWORD" \notin Unterminated
    BY <1>1, <1>3 DEF Beyond, Unterminated
  <2>6. IsOfKind("KEYWORD", t)
    <3>1. t[1] = Colon
      BY <1>3 DEF KeywordSoFar
    <3>2. QED
      BY <3>1, FirstCharacters DEF IsOfKind, Colon
  <2>7. QED
    BY <1>1, <1>2, <2>1, <2>4, <2>5, <2>6, TakenToken
<1>7. QED
  BY <1>5, <1>6

(* The modes that read a list of characters of one class.                  *)
ListModes == {"binary", "hexadecimal", "keywordRest", "symbol", "number", "decimal", "rational"}

(* A list of characters of one class.                                      *)
LEMMA ListGoesOn ==
    ASSUME NEW t \in Seq(Int), Len(t) >= 1, NEW m \in ListModes, Grammar(m, t),
           NEW b \in Int, b \in ClassOf(m)
    PROVE  Grammar(m, Append(t, b))
<1>1. PICK n, s : n = Len(t) /\ s = Append(t, b)
  OBVIOUS
<1>2. /\ n \in Nat /\ n >= 1 /\ s \in Seq(Int) /\ Len(s) = n + 1 /\ s[n + 1] = b
      /\ \A i \in 1 .. n : s[i] = t[i]
      /\ 1 \in 1 .. n
  BY <1>1, OneMore
<1>3. \A i \in 1 .. n + 1 : i \in 1 .. n \/ i = n + 1
  BY <1>2
<1>4. CASE m \in {"binary", "hexadecimal"}
  <2>1. PICK c, C : BitsAfter(t, c, C) /\ b \in C /\ C = ClassOf(m)
                    /\ \/ c = 98 /\ C = Bits /\ m = "binary"
                       \/ c = 120 /\ C = HexDigits /\ m = "hexadecimal"
    BY <1>4 DEF Grammar, ClassOf
  <2>2. n >= 2 /\ t[1] = Hash /\ t[2] = c /\ \A i \in 3 .. n : t[i] \in C
    BY <1>1, <2>1 DEF BitsAfter
  <2>3. \A i \in 3 .. n + 1 : s[i] \in C
    BY <1>2, <1>3, <2>1, <2>2
  <2>4. n + 1 >= 2 /\ s[1] = Hash /\ s[2] = c
    BY <1>2, <2>2
  <2>5. BitsAfter(s, c, C)
    BY <1>2, <2>3, <2>4 DEF BitsAfter
  <2>6. QED
    BY <1>1, <1>4, <2>1, <2>5 DEF Grammar
<1>5. CASE m = "keywordRest"
  <2>1. /\ n >= 3 /\ t[1] = Colon /\ t[2] \in SymbolStart
        /\ \A i \in 3 .. n : t[i] \in SymbolChars
        /\ b \in SymbolChars
    BY <1>1, <1>5 DEF Grammar, ClassOf, KeywordSoFar
  <2>2. ASSUME NEW i \in 3 .. n + 1 PROVE s[i] \in SymbolChars
    <3>1. CASE i = n + 1
      BY <1>2, <2>1, <3>1
    <3>2. CASE i # n + 1
      <4>1. i \in 3 .. n /\ i \in 1 .. n
        BY <1>2, <3>2
      <4>2. QED
        BY <1>2, <2>1, <4>1
    <3>3. QED
      BY <3>1, <3>2
  <2>3. n + 1 >= 3 /\ n + 1 >= 2 /\ s[1] = Colon /\ s[2] \in SymbolStart
    BY <1>2, <2>1
  <2>4. QED
    BY <1>1, <1>2, <1>5, <2>2, <2>3 DEF Grammar, KeywordSoFar
<1>6. CASE m = "symbol"
  <2>1. /\ t[1] \in SymbolStart /\ \A i \in 2 .. n : t[i] \in SymbolChars
        /\ b \in SymbolChars
    BY <1>1, <1>6 DEF Grammar, ClassOf, Matches
  <2>2. \A i \in 2 .. n + 1 : s[i] \in SymbolChars
    BY <1>2, <1>3, <2>1
  <2>3. s[1] \in SymbolStart
    BY <1>2, <2>1
  <2>4. QED
    BY <1>1, <1>2, <1>6, <2>2, <2>3 DEF Grammar, Matches
<1>7. CASE m = "number"
  <2>1. /\ \A i \in 1 .. n : t[i] \in DecimalDigits
        /\ b \in DecimalDigits
    BY <1>1, <1>7 DEF Grammar, ClassOf, AllDigits
  <2>2. \A i \in 1 .. n + 1 : s[i] \in DecimalDigits
    BY <1>2, <1>3, <2>1
  <2>3. QED
    BY <1>1, <1>2, <1>7, <2>2 DEF Grammar, AllDigits
<1>8. CASE m \in {"decimal", "rational"}
  <2>1. PICK c : Fraction(t, c) /\ ((c = Dot /\ m = "decimal") \/ (c = Slash /\ m = "rational"))
    BY <1>8 DEF Grammar
  <2>2. PICK i \in 2 .. n - 1 : t[i] = c /\ \A j \in 1 .. n \ {i} : t[j] \in DecimalDigits
    <3>1. \E i \in 2 .. Len(t) - 1 : t[i] = c /\ \A j \in DOMAIN t \ {i} : t[j] \in DecimalDigits
      BY <2>1, Zenon DEF Fraction
    <3>2. DOMAIN t = 1 .. n
      BY <1>1
    <3>3. QED
      BY <1>1, <3>1, <3>2
  <2>3. b \in DecimalDigits
    BY <1>8 DEF ClassOf
  <2>4. i \in 2 .. (n + 1) - 1 /\ s[i] = c
    BY <1>2, <2>2
  <2>5. \A j \in 1 .. n + 1 \ {i} : s[j] \in DecimalDigits
    BY <1>2, <1>3, <2>2, <2>3
  <2>6. Fraction(s, c)
    BY <1>2, <2>4, <2>5 DEF Fraction
  <2>7. QED
    BY <1>1, <1>8, <2>1, <2>6 DEF Grammar
<1>9. QED
  BY <1>4, <1>5, <1>6, <1>7, <1>8 DEF ListModes

(* Where the list ends the token is a lexeme, and only its class goes on.  *)
LEMMA ListEnds ==
    ASSUME NEW t \in Seq(Int), Len(t) >= 1, NEW m \in ListModes, Grammar(m, t), m # "number"
    PROVE  IsLexeme(t) /\ \A u \in Seq(Int) : Longer(u, t) => u[Len(t) + 1] \in ClassOf(m)
<1>1. CASE m = "binary"
  <2>1. BitsAfter(t, 98, Bits)
    BY <1>1 DEF Grammar
  <2>2. Len(t) >= 2 /\ t[1] = Hash /\ t[2] = 98
    BY <2>1 DEF BitsAfter
  <2>3. IsLexeme(t)
    BY <2>1, Complete
  <2>4. QED
    BY <1>1, <2>2, <2>3, LongerHash DEF ClassOf
<1>2. CASE m = "hexadecimal"
  <2>1. BitsAfter(t, 120, HexDigits)
    BY <1>2 DEF Grammar
  <2>2. Len(t) >= 2 /\ t[1] = Hash /\ t[2] = 120
    BY <2>1 DEF BitsAfter
  <2>3. IsLexeme(t)
    BY <2>1, Complete
  <2>4. QED
    BY <1>2, <2>2, <2>3, LongerHash DEF ClassOf
<1>3. CASE m = "keywordRest"
  <2>1. KeywordSoFar(t)
    BY <1>3 DEF Grammar
  <2>2. Len(t) >= 2 /\ t[1] = Colon
    BY <2>1 DEF KeywordSoFar
  <2>3. IsLexeme(t)
    BY <2>1, Complete
  <2>4. QED
    BY <1>3, <2>2, <2>3, LongerKeyword DEF ClassOf
<1>4. CASE m = "symbol"
  <2>1. Matches(t, SymbolStart, SymbolChars)
    BY <1>4 DEF Grammar
  <2>2. t[1] \in SymbolStart
    BY <2>1 DEF Matches
  <2>3. IsLexeme(t)
    BY <2>1, Complete
  <2>4. QED
    BY <1>4, <2>2, <2>3, LongerSymbol DEF ClassOf
<1>5. CASE m \in {"decimal", "rational"}
  <2>1. PICK c : Fraction(t, c) /\ c \in {Dot, Slash}
    BY <1>5 DEF Grammar
  <2>2. PICK i \in 2 .. Len(t) - 1 : t[i] = c /\ \A j \in 1 .. Len(t) \ {i} : t[j] \in DecimalDigits
    BY <2>1 DEF Fraction
  <2>3. t[1] \in DecimalDigits
    BY <2>2
  <2>4. \E k \in 2 .. Len(t) : t[k] \notin DecimalDigits
    <3>1. i \in 2 .. Len(t)
      BY <2>2
    <3>2. c \notin DecimalDigits
      BY <2>1 DEF Dot, Slash, DecimalDigits
    <3>3. QED
      BY <2>2, <3>1, <3>2
  <2>5. IsLexeme(t)
    BY <2>1, Complete
  <2>6. QED
    BY <1>5, <2>3, <2>4, <2>5, LongerNumber DEF ClassOf
<1>6. QED
  BY <1>1, <1>2, <1>3, <1>4, <1>5 DEF ListModes

(* Its kind is that of the list.                                           *)
LEMMA ListKind ==
    ASSUME NEW t \in Seq(Int), Len(t) >= 1, NEW m \in ListModes, Grammar(m, t), m # "number"
    PROVE  IsOfKind(TokenOf(m, t), t)
<1>1. PICK b : b = t[1] /\ b \in Int
  OBVIOUS
<1>2. /\ b \in {40, 41} => b \notin SymbolStart \cup DecimalDigits \cup {Bar, DoubleQuote, Hash, Colon}
      /\ b \in SymbolStart => b \notin DecimalDigits \cup {Bar, DoubleQuote, Hash, Colon}
      /\ b \in DecimalDigits => b \notin {Bar, DoubleQuote, Hash, Colon}
      /\ b = Bar => b \notin {DoubleQuote, Hash, Colon}
      /\ b = DoubleQuote => b \notin {Hash, Colon}
      /\ b = Hash => b # Colon
  BY <1>1, FirstCharacters
<1>3. CASE m \in {"binary", "hexadecimal"}
  <2>1. /\ b = Hash
        /\ \/ m = "binary" /\ t[2] = 98
           \/ m = "hexadecimal" /\ t[2] = 120
    BY <1>1, <1>3 DEF Grammar, BitsAfter
  <2>2. TokenOf(m, t) = IF t[2] = 98 THEN "BINARY_LITERAL" ELSE "HEX_LITERAL"
    BY <2>1 DEF TokenOf
  <2>3. QED
    BY <1>1, <1>2, <2>1, <2>2 DEF IsOfKind
<1>4. CASE m = "keywordRest"
  <2>1. b = Colon /\ TokenOf(m, t) = "KEYWORD"
    BY <1>1, <1>4 DEF Grammar, KeywordSoFar, TokenOf
  <2>2. QED
    BY <1>1, <1>2, <2>1 DEF IsOfKind
<1>5. CASE m = "symbol"
  <2>1. b \in SymbolStart /\ TokenOf(m, t) = SymbolToken(t)
    BY <1>1, <1>5 DEF Grammar, Matches, TokenOf
  <2>2. QED
    BY <1>1, <1>2, <2>1 DEF IsOfKind
<1>6. CASE m \in {"decimal", "rational"}
  <2>1. PICK c : Fraction(t, c) /\ ((c = Dot /\ m = "decimal") \/ (c = Slash /\ m = "rational"))
    BY <1>6 DEF Grammar
  <2>2. PICK n \in Nat : n = Len(t) /\ DOMAIN t = 1 .. n
    OBVIOUS
  <2>3. PICK i \in 2 .. n - 1 : t[i] = c /\ \A j \in 1 .. n \ {i} : t[j] \in DecimalDigits
    BY <2>1, <2>2, Zenon DEF Fraction
  <2>4. b \in DecimalDigits
    BY <1>1, <2>2, <2>3
  <2>5. c \in Range(t) /\ \A d \in Range(t) : d = c \/ d \in DecimalDigits
    <3>1. Range(t) = {t[j] : j \in 1 .. n}
      BY <2>2 DEF Range
    <3>2. i \in 1 .. n
      BY <2>3
    <3>3. QED
      BY <2>3, <3>1, <3>2
  <2>6. Dot \notin DecimalDigits /\ Slash \notin DecimalDigits /\ Dot # Slash
    BY DEF Dot, Slash, DecimalDigits
  <2>7. TokenOf(m, t) = IF Dot \in Range(t) THEN "DECIMAL_LITERAL"
                        ELSE IF Slash \in Range(t) THEN "RATIONAL_LITERAL" ELSE "INTEGER_LITERAL"
    <3>1. CASE c = Dot /\ m = "decimal"
      BY <2>5, <3>1 DEF TokenOf
    <3>2. CASE c = Slash /\ m = "rational"
      <4>1. Dot \notin Range(t)
        BY <2>5, <2>6, <3>2
      <4>2. QED
        BY <2>5, <3>2, <4>1 DEF TokenOf
    <3>3. QED
      BY <2>1, <3>1, <3>2
  <2>8. QED
    BY <1>1, <1>2, <2>4, <2>7 DEF IsOfKind
<1>7. QED
  BY <1>3, <1>4, <1>5, <1>6 DEF ListModes

(* Digits end: what comes next is saved, the token is not made yet.        *)
LEMMA DigitsEnd ==
    ASSUME LexInv, LexemeInv, mode = "number", UNCHANGED streamVars,
           NEW r, r = NextChar, Save(r), token' = token, Go(r, "numberEnd"),
           ~InClass(r.ch, DecimalDigits)
    PROVE  LexemeInv'
<1>1. InToken
  BY DEF InToken
<1>2. PICK q, t, p, e, a : q = Here /\ t = token /\ p = span.first /\ e = LastEnd /\ a = After(q)
  OBVIOUS
<1>3. Reads(r, q) /\ LiveInv /\ TokensRight
  BY <1>1, <1>2, TokenReads DEF LexemeInv
<1>4. /\ mode' = "numberEnd" /\ span'.first = p /\ token' = t /\ produced' = produced
  <2>1. span \in Spans
    BY DEF LexInv, LexTypes
  <2>2. QED
    BY <1>2, <2>1 DEF Go, Spans
<1>5. At(q)' /\ LiveInv'
  <2>1. At(q)
    BY <1>3 DEF Reads
  <2>2. QED
    BY <1>2, <1>3, <2>1, MovesTo
<1>6. TokensRight' /\ LastEnd' = e
  BY <1>2, <1>3, <1>4, NothingMade
<1>7. Blank(e, p)' /\ SameText(t, p)' /\ CharAt(q)' = CharAt(q)
  BY <1>2, <1>3, TextStays DEF Reads
<1>8. Here' = q
  BY <1>2, <1>4 DEF Here
<1>9. Inside'
  <2>1. Len(t) >= 1 /\ p \in Nat
    BY <1>2, <1>3 DEF Reads
  <2>2. At(Here)'
    BY <1>5, <1>8
  <2>3. SameText(token, span.first)' /\ Blank(LastEnd, span.first)'
    BY <1>4, <1>6, <1>7
  <2>4. QED
    BY <1>4, <2>1, <2>2, <2>3 DEF Inside
<1>10. Grammar(mode, token)'
  <2>1. Grammar("number", t)
    BY <1>2, <1>3 DEF Reads
  <2>2. Grammar("numberEnd", t)
    BY <2>1 DEF Grammar
  <2>3. QED
    BY <1>4, <2>2 DEF Grammar
<1>11. ~InClass(CharAt(Here), DecimalDigits)'
  <2>1. ~InClass(CharAt(q), DecimalDigits)
    BY <1>3 DEF Reads
  <2>2. PICK c : c = CharAt(q)
    OBVIOUS
  <2>3. CharAt(Here)' = c /\ ~InClass(c, DecimalDigits)
    BY <1>7, <1>8, <2>1, <2>2
  <2>4. QED
    BY <2>3 DEF InClass
<1>12. PlacesInv'
  BY <1>4, <1>9, <1>10, <1>11 DEF PlacesInv
<1>13. QED
  BY <1>4, <1>5, <1>6, <1>12 DEF LexemeInv

(* Within a list of characters.                                            *)
LEMMA ListCharRight ==
    ASSUME LexInv, LexemeInv, ListChar, UNCHANGED streamVars
    PROVE  LexemeInv'
<1>1. PICK r, q, b, t, m, C : /\ r = NextChar /\ q = Here /\ b = text[q + 1] /\ t = token
                              /\ m = mode /\ C = ClassOf(m)
  OBVIOUS
<1>2. m \in ListModes /\ InToken
  BY <1>1 DEF ListChar, ListModes, InToken
<1>3. Reads(r, q) /\ Grammar(m, t) /\ t \in Seq(Int) /\ Len(t) >= 1
  <2>1. Reads(r, q)
    BY <1>1, <1>2, TokenReads
  <2>2. QED
    BY <1>1, <2>1 DEF Reads
<1>4. InClass(r.ch, C) <=> q < Len(text) /\ b \in C
  <2>1. C \in SUBSET (0 .. 254)
    BY <1>1, <1>2, Classes DEF ClassOf, ListModes
  <2>2. QED
    BY <1>1, <1>3, <2>1, ClassHere, ZenonT(30)
<1>5. CASE InClass(r.ch, C)
  <2>1. Push(r, m)
    BY <1>1, <1>5 DEF ListChar
  <2>2. q < Len(text) /\ b \in C /\ b \in Int
    BY <1>1, <1>3, <1>4, <1>5, CharHere
  <2>3. Grammar(m, Append(t, b))
    BY <1>1, <1>2, <1>3, <2>2, ListGoesOn
  <2>4. m \notin {"idle", "skip", "comment", "error", "numberEnd"}
    BY <1>2 DEF ListModes
  <2>5. QED
    BY <1>1, <1>2, <2>1, <2>2, <2>3, <2>4, Pushed
<1>6. CASE ~InClass(r.ch, C) /\ m = "number"
  <2>1. Save(r) /\ token' = token /\ Go(r, "numberEnd")
    BY <1>1, <1>6 DEF ListChar
  <2>2. C = DecimalDigits
    BY <1>1, <1>6 DEF ClassOf
  <2>3. QED
    BY <1>1, <1>6, <2>1, <2>2, DigitsEnd
<1>7. CASE ~InClass(r.ch, C) /\ m # "number"
  <2>1. PICK tok : tok = TokenOf(m, t)
    OBVIOUS
  <2>2. Save(r) /\ Finish(r, tok, token)
    BY <1>1, <1>7, <2>1 DEF ListChar
  <2>3. IsLexeme(t) /\ \A u \in Seq(Int) : Longer(u, t) => u[Len(t) + 1] \in C
    BY <1>1, <1>2, <1>3, <1>7, ListEnds
  <2>4. Longest(span.first, token)
    <3>1. q < Len(text) => text[q + 1] \notin C
      BY <1>1, <1>4, <1>7
    <3>2. QED
      BY <1>1, <1>3, <2>3, <3>1, StopsAt
  <2>5. tok \notin Unterminated \cup {"EOF_TOK"} /\ ~(tok = "KEYWORD" /\ Len(t) = 2)
    <3>1. CASE m = "symbol"
      <4>1. tok = SymbolToken(t)
        BY <2>1, <3>1 DEF TokenOf
      <4>2. QED
        BY <4>1 DEF SymbolToken, Unterminated
    <3>2. CASE m = "keywordRest"
      <4>1. Len(t) >= 3 /\ tok = "KEYWORD"
        BY <1>3, <2>1, <3>2 DEF Grammar, TokenOf
      <4>2. \A n \in Nat : n >= 3 => n # 2
        OBVIOUS
      <4>3. Len(t) \in Nat
        BY <1>3
      <4>4. QED
        BY <4>1, <4>2, <4>3 DEF Unterminated
    <3>3. CASE m \notin {"symbol", "keywordRest"}
      <4>1. tok \in {"BINARY_LITERAL", "HEX_LITERAL", "DECIMAL_LITERAL", "RATIONAL_LITERAL"}
        BY <1>2, <1>7, <2>1, <3>3 DEF TokenOf, ListModes
      <4>2. QED
        BY <4>1 DEF Unterminated
    <3>4. QED
      BY <3>1, <3>2, <3>3
  <2>6. IsOfKind(tok, token)
    <3>1. IsOfKind(TokenOf(m, t), t)
      BY <1>2, <1>3, <1>7, ListKind
    <3>2. QED
      BY <1>1, <2>1, <3>1
  <2>7. QED
    BY <1>1, <1>2, <2>2, <2>4, <2>5, <2>6, SavedToken
<1>8. QED
  BY <1>5, <1>6, <1>7

(* After the digits of a number.                                           *)
LEMMA NumberEndRight ==
    ASSUME LexInv, LexemeInv, NumberEnd, UNCHANGED streamVars
    PROVE  LexemeInv'
<1>1. PICK r, q, b, t : r = NextChar /\ q = Here /\ b = text[q + 1] /\ t = token
  OBVIOUS
<1>2. mode = "numberEnd" /\ InToken
  BY DEF NumberEnd, InToken
<1>3. /\ Reads(r, q) /\ AllDigits(t, Len(t)) /\ t \in Seq(Int) /\ Len(t) \in Nat /\ Len(t) >= 1
      /\ ~InClass(r.ch, DecimalDigits)
  <2>1. Reads(r, q)
    BY <1>1, <1>2, TokenReads
  <2>2. ~InClass(CharAt(q), DecimalDigits)
    BY <1>1, <1>2 DEF LexemeInv, PlacesInv
  <2>3. QED
    BY <1>1, <1>2, <2>1, <2>2 DEF Reads, Grammar
<1>4. /\ r.ch = Dot <=> q < Len(text) /\ b = Dot
      /\ r.ch = Slash <=> q < Len(text) /\ b = Slash
  BY <1>1, <1>3, CharIsHere DEF Dot, Slash
<1>5. ASSUME NEW c \in {Dot, Slash}, NEW next, Push(r, next), q < Len(text), b = c,
             (c = Dot /\ next = "decimalFirst") \/ (c = Slash /\ next = "rationalFirst")
      PROVE  LexemeInv'
  <2>1. PICK s, n : s = Append(t, b) /\ n = Len(t)
    OBVIOUS
  <2>2. b \in Int
    BY <1>1, <1>3, <1>5, CharHere
  <2>3. Len(s) = n + 1 /\ s[n + 1] = c /\ \A i \in 1 .. n : s[i] = t[i]
    BY <1>3, <1>5, <2>1, <2>2
  <2>4. AllDigits(s, n)
    BY <1>3, <2>1, <2>3 DEF AllDigits
  <2>5. Len(s) >= 2 /\ s[Len(s)] = c /\ Len(s) - 1 = n
    BY <1>3, <2>1, <2>3
  <2>6. Grammar(next, s)
    BY <1>5, <2>4, <2>5 DEF Grammar
  <2>7. next \notin {"idle", "skip", "comment", "error", "numberEnd"}
    BY <1>5
  <2>8. QED
    BY <1>1, <1>2, <1>5, <2>1, <2>6, <2>7, Pushed
<1>6. CASE r.ch = Dot
  <2>1. Push(r, "decimalFirst")
    BY <1>1, <1>6 DEF NumberEnd, Dot, Slash
  <2>2. QED
    BY <1>4, <1>5, <1>6, <2>1
<1>7. CASE r.ch = Slash
  <2>1. Push(r, "rationalFirst")
    BY <1>1, <1>7 DEF NumberEnd, Dot, Slash
  <2>2. QED
    BY <1>4, <1>5, <1>7, <2>1
<1>8. CASE r.ch # Dot /\ r.ch # Slash
  <2>1. Save(r) /\ Finish(r, "INTEGER_LITERAL", token)
    BY <1>1, <1>8 DEF NumberEnd, Dot, Slash
  <2>2. IsLexeme(t)
    BY <1>3, Complete
  <2>3. \A u \in Seq(Int) : Longer(u, t) => u[Len(t) + 1] \in DecimalDigits \cup {Dot, Slash}
    <3>1. t[1] \in DecimalDigits
      BY <1>3 DEF AllDigits
    <3>2. QED
      BY <1>3, <3>1, LongerNumber
  <2>4. q < Len(text) => text[q + 1] \notin DecimalDigits \cup {Dot, Slash}
    <3>1. InClass(r.ch, DecimalDigits) <=> q < Len(text) /\ b \in DecimalDigits
      BY <1>1, <1>3, Classes, ClassHere
    <3>2. QED
      BY <1>1, <1>3, <1>4, <1>8, <3>1
  <2>5. Longest(span.first, token)
    BY <1>1, <1>3, <2>2, <2>3, <2>4, StopsAt
  <2>6. IsOfKind("INTEGER_LITERAL", token)
    <3>1. DOMAIN t = 1 .. Len(t) /\ \A i \in 1 .. Len(t) : t[i] \in DecimalDigits
      BY <1>3 DEF AllDigits
    <3>2. Range(t) \subseteq DecimalDigits /\ t[1] \in DecimalDigits /\ t[1] \in Int
      BY <1>3, <3>1 DEF Range
    <3>3. Dot \notin Range(t) /\ Slash \notin Range(t)
      BY <3>2 DEF Dot, Slash, DecimalDigits
    <3>4. t[1] \notin {40, 41} \cup SymbolStart \cup {Bar, DoubleQuote, Hash, Colon}
      BY <3>2, FirstCharacters
    <3>5. QED
      BY <1>1, <3>3, <3>4 DEF IsOfKind
  <2>7. QED
    BY <1>1, <1>2, <2>1, <2>5, <2>6, SavedToken DEF Unterminated
<1>9. QED
  BY <1>6, <1>7, <1>8

(* Of a number with a dot or a slash but no digit after it only the digits *)
(* are a lexeme.                                                           *)
LEMMA NoFraction ==
    ASSUME NEW r, NEW q, Reads(r, q), NEW t, t = token, NEW n \in Nat, Len(t) = n + 1, n >= 1,
           AllDigits(t, n), t[n + 1] \in {Dot, Slash},
           ~(q < Len(text) /\ text[q + 1] \in DecimalDigits)
    PROVE  ErrorAsSpecified(span.first)
<1>1. PICK p : p = span.first
  OBVIOUS
<1>2. /\ text \in Seq(Bytes) /\ Len(text) \in Nat /\ t \in Seq(Int) /\ p \in Nat
      /\ q = p + (n + 1) /\ q <= Len(text) /\ SameText(t, p)
  BY <1>1 DEF Reads
<1>3. \A i \in 1 .. n : t[i] \in DecimalDigits
  BY DEF AllDigits
<1>4. PICK d : d = SubSeq(text, p + 1, p + n)
  OBVIOUS
<1>5. /\ d \in Seq(Int) /\ Len(d) = n /\ \A j \in 1 .. n : d[j] = t[j]
  <2>1. PICK e \in Nat : e = p + n
    BY <1>2
  <2>2. p <= e /\ e <= Len(text) /\ e - p = n
    BY <1>2, <2>1
  <2>3. /\ d \in Seq(Bytes) /\ Len(d) = e - p
        /\ \A j \in 1 .. e - p : d[j] = text[p + j]
    BY <1>2, <1>4, <2>1, <2>2, Piece, SMTT(15)
  <2>4. d \in Seq(Int)
    <3>1. Bytes \subseteq Int
      BY DEF Bytes
    <3>2. QED
      BY <2>3, <3>1, SeqMonotonic
  <2>5. \A j \in 1 .. n : j \in 1 .. Len(t)
    OBVIOUS
  <2>6. QED
    BY <1>2, <2>2, <2>3, <2>4, <2>5 DEF SameText
<1>6. d \in LexemesAt(p)
  <2>1. AllDigits(d, Len(d)) /\ Len(d) >= 1
    BY <1>3, <1>5 DEF AllDigits
  <2>2. IsLexeme(d)
    BY <1>5, <2>1, Complete
  <2>3. p + n \in p + 1 .. Len(text)
    BY <1>2
  <2>4. QED
    BY <1>4, <2>2, <2>3 DEF LexemesAt
<1>7. ASSUME NEW s \in LexemesAt(p), Longest(p, s)
      PROVE  IsNumber(s) /\ p + Len(s) < Len(text) /\ text[p + Len(s) + 1] \in {Dot, Slash}
  <2>1. PICK m : m = Len(s)
    OBVIOUS
  <2>2. /\ s \in Seq(Int) /\ m \in Nat /\ ByFirst(s) /\ s[1] = t[1]
        /\ \A i \in 1 .. m : i <= n + 1 => s[i] = t[i]
        /\ m > n + 1 => q < Len(text) /\ s[(n + 1) + 1] = text[q + 1]
    BY <1>1, <2>1, LexemesHere
  <2>3. m >= n
    BY <1>5, <1>6, <1>7, <2>1 DEF Longest
  <2>4. IsNumber(s)
    <3>1. s[1] \in DecimalDigits
      BY <1>3, <2>2
    <3>2. QED
      BY <2>2, <3>1 DEF ByFirst
  <2>5. m = n
    <3>1. SUFFICES ASSUME m >= n + 1 PROVE FALSE
      BY <2>2, <2>3
    <3>2. s[n + 1] \in {Dot, Slash} /\ n + 1 \in 1 .. m
      BY <2>2, <3>1
    <3>3. s[n + 1] \notin DecimalDigits
      BY <3>2 DEF Dot, Slash, DecimalDigits
    <3>4. ~Matches(s, DecimalDigits, DecimalDigits)
      <4>1. n + 1 \in 2 .. m
        BY <2>2, <3>1
      <4>2. QED
        BY <2>1, <3>3, <4>1 DEF Matches
    <3>5. PICK i \in 2 .. m - 1 : \A j \in 1 .. m \ {i} : s[j] \in DecimalDigits
      <4>1. \E i \in 2 .. Len(s) - 1 : \A j \in DOMAIN s \ {i} : s[j] \in DecimalDigits
        BY <2>4, <3>4, Zenon DEF IsNumber
      <4>2. DOMAIN s = 1 .. m
        BY <2>1, <2>2
      <4>3. QED
        BY <2>1, <4>1, <4>2
    <3>6. i = n + 1
      BY <3>2, <3>3, <3>5
    <3>7. m > n + 1 /\ (n + 1) + 1 \in 1 .. m \ {i}
      BY <2>2, <3>5, <3>6
    <3>8. QED
      BY <2>2, <3>5, <3>7
  <2>6. text[p + m + 1] = t[n + 1]
    <3>1. p + m + 1 = p + (n + 1) /\ n + 1 \in 1 .. Len(t)
      BY <1>2, <2>5
    <3>2. QED
      BY <1>2, <3>1 DEF SameText
  <2>7. p + m < Len(text)
    BY <1>2, <2>5
  <2>8. QED
    BY <2>1, <2>4, <2>6, <2>7
<1>8. QED
  BY <1>1, <1>7, BeginsBefore DEF ErrorAsSpecified

(* After the dot or the slash, where a digit has to come.                  *)
LEMMA FractionFirstRight ==
    ASSUME LexInv, LexemeInv, FractionFirst, UNCHANGED streamVars
    PROVE  LexemeInv'
<1>1. PICK r, q, b, t : r = NextChar /\ q = Here /\ b = text[q + 1] /\ t = token
  OBVIOUS
<1>2. mode \in {"decimalFirst", "rationalFirst"} /\ InToken
  BY DEF FractionFirst, InToken
<1>3. Reads(r, q) /\ Grammar(mode, t) /\ t \in Seq(Int) /\ Len(t) \in Nat
  <2>1. Reads(r, q)
    BY <1>1, <1>2, TokenReads
  <2>2. QED
    BY <1>1, <2>1 DEF Reads
<1>4. PICK c, n, next :
          /\ Len(t) >= 2 /\ n = Len(t) - 1 /\ t[Len(t)] = c /\ AllDigits(t, n)
          /\ next = (IF mode = "decimalFirst" THEN "decimal" ELSE "rational")
          /\ (c = Dot /\ next = "decimal") \/ (c = Slash /\ next = "rational")
  BY <1>2, <1>3 DEF Grammar
<1>5. n \in Nat /\ n >= 1 /\ Len(t) = n + 1 /\ t[n + 1] = c
  BY <1>3, <1>4
<1>6. InClass(r.ch, DecimalDigits) <=> q < Len(text) /\ b \in DecimalDigits
  BY <1>1, <1>3, Classes, ClassHere
<1>7. CASE InClass(r.ch, DecimalDigits)
  <2>1. Push(r, next)
    BY <1>1, <1>4, <1>7 DEF FractionFirst
  <2>2. q < Len(text) /\ b \in DecimalDigits /\ b \in Int
    BY <1>1, <1>3, <1>6, <1>7, CharHere
  <2>3. PICK s : s = Append(t, b)
    OBVIOUS
  <2>4. Len(s) = n + 2 /\ s[n + 2] = b /\ \A i \in 1 .. n + 1 : s[i] = t[i]
    BY <1>3, <1>5, <2>2, <2>3
  <2>5. Fraction(s, c)
    <3>1. n + 1 \in 2 .. Len(s) - 1 /\ s[n + 1] = c
      BY <1>5, <2>4
    <3>2. ASSUME NEW j \in DOMAIN s \ {n + 1} PROVE s[j] \in DecimalDigits
      <4>1. DOMAIN s = 1 .. n + 2
        BY <1>3, <2>2, <2>3, <2>4
      <4>2. CASE j = n + 2
        BY <2>2, <2>4, <4>2
      <4>3. CASE j # n + 2
        <5>1. j \in 1 .. n /\ j \in 1 .. n + 1
          BY <1>5, <4>1, <4>3
        <5>2. QED
          BY <1>4, <2>4, <5>1 DEF AllDigits
      <4>4. QED
        BY <4>2, <4>3
    <3>3. QED
      BY <3>1, <3>2 DEF Fraction
  <2>6. Grammar(next, s)
    BY <1>4, <2>5 DEF Grammar
  <2>7. next \notin {"idle", "skip", "comment", "error", "numberEnd"}
    BY <1>4
  <2>8. QED
    BY <1>1, <1>2, <2>1, <2>2, <2>3, <2>6, <2>7, Pushed
<1>8. CASE ~InClass(r.ch, DecimalDigits)
  <2>1. ParseError(r)
    BY <1>1, <1>8 DEF FractionFirst
  <2>2. c \in {Dot, Slash}
    BY <1>4
  <2>3. ~(q < Len(text) /\ text[q + 1] \in DecimalDigits)
    BY <1>1, <1>6, <1>8
  <2>4. ErrorAsSpecified(span.first)
    BY <1>1, <1>3, <1>4, <1>5, <2>2, <2>3, NoFraction
  <2>5. QED
    BY <1>1, <1>3, <2>1, <2>4, Failed
<1>9. QED
  BY <1>7, <1>8

-----------------------------------------------------------------------------
(* Between tokens *)

(* Where the last token ended is a number.                                 *)
LEMMA LastEndType ==
    ASSUME LexInv
    PROVE  LastEnd \in Int
<1>1. PICK m, ps : ps = produced /\ m = Len(ps)
  OBVIOUS
<1>2. ps \in Seq(Tokens) /\ m \in Nat
  BY <1>1 DEF LexInv, LexTypes
<1>3. CASE m = 0
  <2>1. Len(produced) + 1 = 1
    BY <1>1, <1>3
  <2>2. QED
    BY <2>1 DEF LastEnd, EndBefore
<1>4. CASE m # 0
  <2>1. m + 1 # 1 /\ (m + 1) - 1 = m /\ m \in 1 .. m
    BY <1>2, <1>4
  <2>2. LastEnd = EndOf(ps[m])
    BY <1>1, <2>1 DEF LastEnd, EndBefore
  <2>3. ps[m] \in Tokens
    BY <1>1, <1>2, <2>1
  <2>4. ps[m].first \in Int /\ Len(ps[m].str) \in Nat
    BY <2>3 DEF Tokens
  <2>5. Beyond(ps[m].token, ps[m].str) \in {0, 1}
    BY DEF Beyond
  <2>6. QED
    BY <2>2, <2>4, <2>5 DEF EndOf
<1>5. QED
  BY <1>3, <1>4

(* What the next character tells between tokens.                           *)
Outside(r, q, e) ==
    /\ text \in Seq(Bytes) /\ Len(text) \in Nat /\ q \in 0 .. Len(text) /\ At(q)
    /\ e = LastEnd /\ e \in Int
    /\ Blank(e, q) \/ (q = Len(text) /\ q < e)
    /\ r.ch = CharAt(q)

(* What is read when only blanks were, since the last token.               *)
LEMMA PassedReads ==
    ASSUME LexInv, LexemeInv, NEW q \in Nat, Passed(q), NEW r, r = NextChar, NEW e, e = LastEnd
    PROVE  Outside(r, q, e)
<1>1. At(q) /\ (Blank(e, q) \/ (q = Len(text) /\ q < e)) /\ LiveInv
  BY DEF Passed, LexemeInv
<1>2. r.ch = CharAt(q)
  BY <1>1, NextAt
<1>3. text \in Seq(Bytes) /\ q \in 0 .. Len(text)
  BY <1>1 DEF LexInv, LexTypes, At
<1>4. e \in Int
  BY LastEndType
<1>5. QED
  BY <1>1, <1>2, <1>3, <1>4 DEF Outside

(* What that character tells of the text.                                  *)
LEMMA CharOutside ==
    ASSUME NEW r, NEW q, NEW e, Outside(r, q, e)
    PROVE  /\ r.ch = EOF <=> EndAt(q)
           /\ r.ch # EOF => q < Len(text)
           /\ q < Len(text) => /\ text[q + 1] \in Bytes /\ text[q + 1] \in Int
                               /\ r.ch % 256 = text[q + 1] /\ After(q) = q + 1
           /\ \A c \in 0 .. 127 : r.ch = c <=> q < Len(text) /\ text[q + 1] = c
           /\ \A C \in SUBSET (0 .. 254) : InClass(r.ch, C) <=> q < Len(text) /\ text[q + 1] \in C
<1>1. r.ch = CharAt(q) /\ text \in Seq(Bytes) /\ q \in 0 .. Len(text)
  BY DEF Outside
<1>2. \A b \in Bytes : b \in Int
  BY DEF Bytes
<1>3. /\ CharAt(q) = EOF <=> EndAt(q)
      /\ CharAt(q) # EOF => q < Len(text)
      /\ q < Len(text) => /\ After(q) = q + 1 /\ text[q + 1] \in Bytes
                          /\ CharAt(q) % 256 = text[q + 1]
      /\ \A c \in 0 .. 127 : CharAt(q) = c <=> q < Len(text) /\ text[q + 1] = c
      /\ \A C \in SUBSET (0 .. 254) :
             InClass(CharAt(q), C) <=> q < Len(text) /\ text[q + 1] \in C
  BY <1>1, CharIs, Zenon
<1>4. QED
  BY <1>1, <1>2, <1>3, Zenon

(* A character between tokens is passed.                                   *)
LEMMA Skips ==
    ASSUME LexInv, LexemeInv, NEW q, NEW r, r = NextChar, NEW e, Outside(r, q, e),
           UNCHANGED streamVars, Take(r), produced' = produced,
           NEW next, mode' = next, next \in {"skip", "comment"}, q < Len(text),
           text[q + 1] \in Whitespace \/ Commented(e, q + 1),
           next = "comment" => Commented(e, q + 1)
    PROVE  LexemeInv'
<1>1. /\ q \in Nat /\ e \in Int /\ e = LastEnd /\ At(q) /\ Len(text) \in Nat /\ Blank(e, q)
  BY DEF Outside
<1>2. Blank(e, q + 1)
  <2>1. e <= q + 1
    BY <1>1 DEF Blank
  <2>2. ASSUME NEW j \in e + 1 .. q + 1
        PROVE  \/ text[j] \in Whitespace
               \/ \E k \in e + 1 .. j : text[k] = Semicolon /\ \A i \in k .. j : text[i] # Newline
    <3>1. CASE j = q + 1
      BY <3>1 DEF Commented
    <3>2. CASE j # q + 1
      <4>1. j \in e + 1 .. q
        BY <1>1, <3>2
      <4>2. QED
        BY <1>1, <4>1 DEF Blank
    <3>3. QED
      BY <3>1, <3>2
  <2>3. QED
    BY <2>1, <2>2 DEF Blank
<1>3. PICK a : a = After(q) /\ a = q + 1
  BY DEF After
<1>4. At(a)' /\ LiveInv'
  BY <1>1, <1>3, MovesTo DEF LexemeInv
<1>5. TokensRight' /\ LastEnd' = e
  BY <1>1, NothingMade DEF LexemeInv
<1>6. Blank(e, a)' /\ (next = "comment" => Commented(e, a)')
  BY <1>2, <1>3, TextStays
<1>7. a \in Nat
  BY <1>1, <1>3
<1>8. Passed(a)'
  <2>1. Blank(LastEnd, a)'
    BY <1>5, <1>6
  <2>2. QED
    BY <1>4, <2>1 DEF Passed
<1>9. next = "comment" => Commented(LastEnd, a)'
  BY <1>5, <1>6
<1>10. PlacesInv'
  BY <1>7, <1>8, <1>9 DEF PlacesInv, InToken
<1>11. QED
  BY <1>4, <1>5, <1>10 DEF LexemeInv

(* The end of the input is told.                                           *)
LEMMA EndTold ==
    ASSUME LexInv, LexemeInv, NEW q, NEW r, r = NextChar, NEW e, Outside(r, q, e),
           UNCHANGED streamVars, Take(r), r.ch = EOF, Finish(r, "EOF_TOK", <<>>)
    PROVE  LexemeInv'
<1>1. q \in Nat /\ e \in Int /\ e = LastEnd /\ At(q) /\ q \in 0 .. Len(text) /\ Len(text) \in Nat
  BY DEF Outside
<1>2. LiveInv'
  <2>1. PICK a : a = After(q)
    OBVIOUS
  <2>2. QED
    BY <1>1, <2>1, MovesTo DEF LexemeInv
<1>3. PICK made : made = [token |-> "EOF_TOK", str |-> <<>>, start |-> span'.start, first |-> span'.first]
  OBVIOUS
<1>4. Return(r, "EOF_TOK", <<>>)
  BY DEF Finish
<1>5. e > Len(text) \/ \E k \in 0 .. Len(text) : EndAt(k) /\ Blank(e, k)
  <2>1. EndAt(q)
    BY CharOutside
  <2>2. CASE Blank(e, q)
    BY <1>1, <2>1, <2>2
  <2>3. CASE q = Len(text) /\ q < e
    BY <1>1, <2>3
  <2>4. QED
    BY <2>2, <2>3 DEF Outside
<1>6. AsSpecified(made, LastEnd)
  BY <1>1, <1>3, <1>5 DEF AsSpecified, Unterminated
<1>7. QED
  BY <1>2, <1>3, <1>4, <1>6, Made

(* Blanks.                                                                 *)
LEMMA SkipBlankRight ==
    ASSUME LexInv, LexemeInv, SkipBlank, UNCHANGED streamVars
    PROVE  LexemeInv'
<1>1. PICK q \in Nat : Passed(q)
  BY DEF SkipBlank, LexemeInv, PlacesInv
<1>2. PICK r, e : r = NextChar /\ e = LastEnd
  OBVIOUS
<1>3. Outside(r, q, e) /\ e \in Int
  BY <1>1, <1>2, PassedReads, LastEndType
<1>4. /\ InClass(r.ch, Whitespace) \/ r.ch = Semicolon
      /\ Take(r) /\ produced' = produced
      /\ mode' = IF r.ch = Semicolon THEN "comment" ELSE "skip"
  BY <1>2 DEF SkipBlank, Go
<1>5. /\ InClass(r.ch, Whitespace) <=> q < Len(text) /\ text[q + 1] \in Whitespace
      /\ r.ch = Semicolon <=> q < Len(text) /\ text[q + 1] = Semicolon
  <2>1. Whitespace \in SUBSET (0 .. 254) /\ Semicolon \in 0 .. 127
    BY Classes DEF Semicolon
  <2>2. /\ \A c \in 0 .. 127 : r.ch = c <=> q < Len(text) /\ text[q + 1] = c
        /\ \A C \in SUBSET (0 .. 254) :
               InClass(r.ch, C) <=> q < Len(text) /\ text[q + 1] \in C
    BY <1>3, CharOutside, Zenon
  <2>3. QED
    BY <2>1, <2>2, Zenon
<1>6. r.ch = Semicolon => Commented(e, q + 1)
  <2>1. SUFFICES ASSUME r.ch = Semicolon PROVE Commented(e, q + 1)
    OBVIOUS
  <2>2. e <= q
    BY <1>3, <1>5, <2>1 DEF Outside, Blank
  <2>3. q + 1 \in e + 1 .. q + 1 /\ text[q + 1] = Semicolon
    BY <1>3, <1>5, <2>1, <2>2
  <2>4. \A i \in q + 1 .. q + 1 : text[i] # Newline
    BY <2>3 DEF Semicolon, Newline
  <2>5. QED
    BY <2>3, <2>4 DEF Commented
<1>7. q < Len(text) /\ (text[q + 1] \in Whitespace \/ Commented(e, q + 1))
  BY <1>4, <1>5, <1>6
<1>8. PICK next : next = (IF r.ch = Semicolon THEN "comment" ELSE "skip")
  OBVIOUS
<1>9. mode' = next /\ next \in {"skip", "comment"} /\ (next = "comment" => Commented(e, q + 1))
  BY <1>4, <1>6, <1>8
<1>10. QED
  BY <1>2, <1>3, <1>4, <1>7, <1>9, Skips

(* A comment.                                                              *)
LEMMA SkipCommentRight ==
    ASSUME LexInv, LexemeInv, SkipComment, UNCHANGED streamVars
    PROVE  LexemeInv'
<1>1. PICK q \in Nat : Passed(q) /\ Commented(LastEnd, q)
  BY DEF SkipComment, LexemeInv, PlacesInv
<1>2. PICK r, e : r = NextChar /\ e = LastEnd
  OBVIOUS
<1>3. Outside(r, q, e) /\ e \in Int
  BY <1>1, <1>2, PassedReads, LastEndType
<1>4. CASE r.ch = EOF
  <2>1. Take(r) /\ Finish(r, "EOF_TOK", <<>>)
    BY <1>2, <1>4 DEF SkipComment, CommentEnds
  <2>2. QED
    BY <1>2, <1>3, <1>4, <2>1, EndTold
<1>5. CASE r.ch # EOF
  <2>1. PICK next : next = (IF r.ch = Newline THEN "skip" ELSE "comment")
    OBVIOUS
  <2>2. Take(r) /\ produced' = produced /\ mode' = next /\ next \in {"skip", "comment"}
    BY <1>2, <1>5, <2>1 DEF SkipComment, Go
  <2>3. q < Len(text) /\ (r.ch = Newline <=> q < Len(text) /\ text[q + 1] = Newline)
    BY <1>3, <1>5, CharOutside DEF Newline
  <2>4. r.ch # Newline => Commented(e, q + 1)
    <3>1. SUFFICES ASSUME r.ch # Newline PROVE Commented(e, q + 1)
      OBVIOUS
    <3>2. PICK k \in e + 1 .. q : text[k] = Semicolon /\ \A i \in k .. q : text[i] # Newline
      BY <1>1, <1>2 DEF Commented
    <3>3. text[q + 1] # Newline
      BY <2>3, <3>1
    <3>4. \A i \in k .. q + 1 : i \in k .. q \/ i = q + 1
      BY <1>3, <3>2
    <3>5. \A i \in k .. q + 1 : text[i] # Newline
      BY <3>2, <3>3, <3>4
    <3>6. k \in e + 1 .. q + 1
      BY <1>3
    <3>7. QED
      BY <3>2, <3>5, <3>6 DEF Commented
  <2>5. r.ch = Newline => text[q + 1] \in Whitespace
    BY <2>3 DEF Whitespace
  <2>6. /\ text[q + 1] \in Whitespace \/ Commented(e, q + 1)
        /\ next = "comment" => Commented(e, q + 1)
    BY <2>1, <2>4, <2>5
  <2>7. QED
    BY <1>2, <1>3, <2>2, <2>3, <2>6, Skips
<1>6. QED
  BY <1>4, <1>5

(* The end of the input.                                                   *)
LEMMA EndOfInputRight ==
    ASSUME LexInv, LexemeInv, EndOfInput, UNCHANGED streamVars
    PROVE  LexemeInv'
<1>1. PICK q \in Nat : Passed(q)
  BY DEF EndOfInput, LexemeInv, PlacesInv
<1>2. PICK r, e : r = NextChar /\ e = LastEnd
  OBVIOUS
<1>3. Outside(r, q, e)
  BY <1>1, <1>2, PassedReads
<1>4. r.ch = EOF /\ Take(r) /\ Finish(r, "EOF_TOK", <<>>)
  BY <1>2 DEF EndOfInput
<1>5. QED
  BY <1>2, <1>3, <1>4, EndTold

-----------------------------------------------------------------------------
(* The first character of a token *)

(* Which token a character begins.                                         *)
Begun(m, b) ==
    /\ m = "error" => b \notin {40, 41} \cup SymbolStart \cup DecimalDigits
                               \cup {Bar, DoubleQuote, Hash, Colon}
    /\ m # "error" => Grammar(m, <<b>>)
    /\ m \notin {"idle", "skip", "comment", "numberEnd"}

(* The mode that the first character chooses fits it.                      *)
LEMMA BegunIsRight ==
    ASSUME NEW r, NEW q, NEW e, Outside(r, q, e), q < Len(text), r.ch \notin {40, 41},
           NEW b, b = text[q + 1]
    PROVE  Begun(ModeAfter(r.ch), b)
<1>1. /\ b \in Int
      /\ \A c \in 0 .. 127 : r.ch = c <=> b = c
      /\ \A C \in SUBSET (0 .. 254) : InClass(r.ch, C) <=> b \in C
  <2>1. /\ text[q + 1] \in Int
        /\ \A c \in 0 .. 127 : r.ch = c <=> q < Len(text) /\ text[q + 1] = c
        /\ \A C \in SUBSET (0 .. 254) : InClass(r.ch, C) <=> q < Len(text) /\ text[q + 1] \in C
    BY CharOutside, ZenonT(30)
  <2>2. QED
    BY <2>1
<1>2. /\ r.ch = Bar <=> b = Bar
      /\ r.ch = Hash <=> b = Hash
      /\ r.ch = DoubleQuote <=> b = DoubleQuote
      /\ r.ch = Colon <=> b = Colon
      /\ r.ch = 40 <=> b = 40
      /\ r.ch = 41 <=> b = 41
  BY <1>1 DEF Bar, Hash, DoubleQuote, Colon
<1>3. /\ InClass(r.ch, DecimalDigits) <=> b \in DecimalDigits
      /\ InClass(r.ch, SymbolStart) <=> b \in SymbolStart
  BY <1>1, Classes, ZenonT(30)
<1>4. PICK m, s : m = ModeAfter(r.ch) /\ s = <<b>>
  OBVIOUS
<1>5. /\ b \in SymbolStart => b \notin DecimalDigits \cup {Bar, DoubleQuote, Hash, Colon}
      /\ b \in DecimalDigits => b \notin {Bar, DoubleQuote, Hash, Colon}
      /\ b = Bar => b \notin {DoubleQuote, Hash, Colon}
      /\ b = DoubleQuote => b \notin {Hash, Colon}
      /\ b = Hash => b # Colon
  BY <1>1, FirstCharacters
<1>6. s \in Seq(Int) /\ Len(s) = 1 /\ s[1] = b
  BY <1>1, <1>4
<1>7. CASE b = Bar
  <2>1. m = "quoted"
    BY <1>2, <1>3, <1>4, <1>5, <1>7 DEF ModeAfter
  <2>2. Grammar("quoted", s)
    BY <1>6, <1>7 DEF Grammar
  <2>3. QED
    BY <1>4, <2>1, <2>2 DEF Begun
<1>8. CASE b = Hash
  <2>1. m = "hash"
    BY <1>2, <1>3, <1>4, <1>5, <1>8 DEF ModeAfter
  <2>2. Grammar("hash", s)
    BY <1>4, <1>8 DEF Grammar
  <2>3. QED
    BY <1>4, <2>1, <2>2 DEF Begun
<1>9. CASE b = DoubleQuote
  <2>1. m = "string"
    BY <1>2, <1>3, <1>4, <1>5, <1>9 DEF ModeAfter
  <2>2. Grammar("string", s)
    BY <1>4, <1>9, StringBegins DEF Grammar
  <2>3. QED
    BY <1>4, <2>1, <2>2 DEF Begun
<1>10. CASE b = Colon
  <2>1. m = "keyword"
    BY <1>2, <1>3, <1>4, <1>5, <1>10 DEF ModeAfter
  <2>2. Grammar("keyword", s)
    BY <1>4, <1>10 DEF Grammar
  <2>3. QED
    BY <1>4, <2>1, <2>2 DEF Begun
<1>11. CASE b \notin {Bar, Hash, DoubleQuote, Colon} /\ b \in DecimalDigits
  <2>1. m = "number"
    BY <1>2, <1>3, <1>4, <1>5, <1>11 DEF ModeAfter
  <2>2. Grammar("number", s)
    BY <1>6, <1>11 DEF Grammar, AllDigits
  <2>3. QED
    BY <1>4, <2>1, <2>2 DEF Begun
<1>12. CASE b \notin {Bar, Hash, DoubleQuote, Colon} /\ b \notin DecimalDigits /\ b \in SymbolStart
  <2>1. m = "symbol"
    BY <1>2, <1>3, <1>4, <1>5, <1>12 DEF ModeAfter
  <2>2. Grammar("symbol", s)
    BY <1>6, <1>12 DEF Grammar, Matches
  <2>3. QED
    BY <1>4, <2>1, <2>2 DEF Begun
<1>13. CASE b \notin {Bar, Hash, DoubleQuote, Colon} /\ b \notin DecimalDigits /\ b \notin SymbolStart
  <2>1. m = "error"
    BY <1>2, <1>3, <1>4, <1>5, <1>13 DEF ModeAfter
  <2>2. b \notin {40, 41} \cup SymbolStart \cup DecimalDigits \cup {Bar, DoubleQuote, Hash, Colon}
    BY <1>2, <1>13
  <2>3. QED
    BY <1>4, <2>1, <2>2 DEF Begun
<1>14. QED
  BY <1>7, <1>8, <1>9, <1>10, <1>11, <1>12, <1>13

(* A parenthesis is a lexeme of one character.                             *)
LEMMA ParenthesisIsLongest ==
    ASSUME text \in Seq(Bytes), NEW q \in Nat, q < Len(text), text[q + 1] \in {40, 41}
    PROVE  Longest(q, <<text[q + 1]>>)
<1>1. PICK b, s : b = text[q + 1] /\ s = <<b>>
  OBVIOUS
<1>2. s \in Seq(Int) /\ Len(s) = 1 /\ s[1] = b /\ s \in {<<40>>, <<41>>}
  BY <1>1
<1>3. IsLexeme(s)
  <2>1. Len(s) >= 1
    BY <1>2
  <2>2. QED
    BY <1>2, <2>1, Complete
<1>4. q + Len(s) <= Len(text) /\ SameText(s, q)
  BY <1>1, <1>2 DEF SameText
<1>5. \A u \in Seq(Int) : ~Longer(u, s)
  <2>1. Len(s) >= 1 /\ s[1] \in {40, 41}
    BY <1>1, <1>2
  <2>2. QED
    BY <1>2, <2>1, LongerParenthesis
<1>6. QED
  BY <1>1, <1>2, <1>3, <1>4, <1>5, LongestIf

(* The first character of a token: a parenthesis, the beginning of another,*)
(* or an error.                                                            *)
LEMMA FirstCharRight ==
    ASSUME LexInv, LexemeInv, FirstChar, UNCHANGED streamVars
    PROVE  LexemeInv'
<1>1. PICK q \in Nat : Passed(q)
  BY DEF FirstChar, LexemeInv, PlacesInv
<1>2. PICK r, e, b : r = NextChar /\ e = LastEnd /\ b = text[q + 1]
  OBVIOUS
<1>3. Outside(r, q, e)
  BY <1>1, <1>2, PassedReads
<1>4. /\ r.ch # EOF /\ Take(r)
      /\ span' = [start |-> Advance(span.end, r), end |-> Advance(span.end, r), first |-> Position(r)]
      /\ CASE r.ch = 40 -> Return(r, "LPAREN", <<r.ch>>)
           [] r.ch = 41 -> Return(r, "RPAREN", <<r.ch>>)
           [] OTHER -> /\ mode' = ModeAfter(r.ch)
                       /\ token' = <<r.ch % 256>>
                       /\ UNCHANGED <<asked, tokenVars>>
  BY <1>2 DEF FirstChar
<1>5. /\ q < Len(text) /\ b \in Int /\ r.ch % 256 = b /\ After(q) = q + 1
      /\ r.ch = 40 <=> b = 40
      /\ r.ch = 41 <=> b = 41
  <2>1. q < Len(text)
    BY <1>3, <1>4, CharOutside
  <2>2. b \in Int /\ r.ch % 256 = b /\ After(q) = q + 1
    BY <1>2, <1>3, <2>1, CharOutside
  <2>3. \A c \in 0 .. 127 : r.ch = c <=> q < Len(text) /\ b = c
    <3>1. \A c \in 0 .. 127 : r.ch = c <=> q < Len(text) /\ text[q + 1] = c
      BY <1>3, CharOutside, Zenon
    <3>2. QED
      BY <1>2, <3>1
  <2>4. QED
    BY <2>1, <2>2, <2>3
<1>6. /\ text \in Seq(Bytes) /\ Len(text) \in Nat /\ At(q) /\ e = LastEnd /\ Blank(e, q) /\ LiveInv
  BY <1>3, <1>5 DEF Outside, LexemeInv
<1>7. span'.first = q
  <2>1. ReadBy(r) = q + 1
    BY <1>2, <1>5, <1>6, NextAt
  <2>2. Position(r) = ReadBy(r) - 1
    BY <1>4 DEF Position, ReadBy
  <2>3. QED
    BY <1>4, <2>1, <2>2
<1>8. PICK a : a = After(q) /\ a = q + 1
  BY <1>5
<1>9. At(a)' /\ LiveInv'
  BY <1>2, <1>4, <1>6, <1>8, MovesTo
<1>10. CASE b \in {40, 41}
  <2>1. PICK tok \in {"LPAREN", "RPAREN"} :
            Return(r, tok, <<b>>) /\ tok = IF b = 40 THEN "LPAREN" ELSE "RPAREN"
    <3>1. r.ch = b
      BY <1>5, <1>10
    <3>2. \/ b = 40 /\ Return(r, "LPAREN", <<b>>)
          \/ b = 41 /\ Return(r, "RPAREN", <<b>>)
      BY <1>4, <1>10, <3>1
    <3>3. QED
      BY <3>2
  <2>2. PICK s : Return(r, tok, s) /\ s = <<b>>
    BY <2>1
  <2>3. Longest(q, s) /\ Len(s) = 1
    BY <1>2, <1>5, <1>6, <1>10, <2>2, ParenthesisIsLongest
  <2>4. PICK made : made = [token |-> tok, str |-> s, start |-> span'.start, first |-> span'.first]
    OBVIOUS
  <2>5. made.token = tok /\ made.str = s /\ made.first = q
    BY <1>7, <2>4
  <2>6. AsSpecified(made, LastEnd)
    <3>1. IsOfKind(tok, s)
      BY <1>5, <1>10, <2>1, <2>2, FirstCharacters DEF IsOfKind
    <3>2. QED
      BY <1>6, <2>3, <2>5, <3>1 DEF AsSpecified, Unterminated
  <2>7. EndOf(made) = a
    <3>1. Beyond(tok, s) = 0
      BY <2>3 DEF Beyond, Unterminated
    <3>2. EndOf(made) = q + Len(s) + Beyond(tok, s)
      BY <2>5 DEF EndOf
    <3>3. QED
      BY <1>8, <2>3, <3>1, <3>2
  <2>8. a \in Nat
    BY <1>8
  <2>9. QED
    BY <1>9, <2>2, <2>4, <2>6, <2>7, <2>8, Made
<1>11. CASE b \notin {40, 41}
  <2>1. PICK m : m = ModeAfter(r.ch)
    OBVIOUS
  <2>2. r.ch \notin {40, 41}
    BY <1>5, <1>11
  <2>3. mode' = m /\ token' = <<b>> /\ produced' = produced
    BY <1>4, <1>5, <2>1, <2>2 DEF tokenVars
  <2>4. Begun(m, b)
    BY <1>2, <1>3, <1>5, <2>1, <2>2, BegunIsRight
  <2>5. TokensRight' /\ LastEnd' = e
    BY <1>6, <2>3, NothingMade DEF LexemeInv
  <2>6. CASE m = "error"
    <3>1. ASSUME NEW s \in LexemesAt(q) PROVE FALSE
      <4>1. s \in Seq(Int) /\ IsLexeme(s) /\ Len(s) \in Nat /\ Len(s) >= 1 /\ SameText(s, q)
        BY <1>6, LexemeOfText
      <4>2. s[1] = b
        BY <1>2, <4>1 DEF SameText
      <4>3. ByFirst(s)
        BY <4>1, LexemeKind
      <4>4. QED
        BY <2>4, <2>6, <4>2, <4>3 DEF ByFirst, Begun
    <3>2. ErrorAsSpecified(q)
      BY <1>5, <3>1 DEF ErrorAsSpecified
    <3>3. ErrorAsSpecified(q)' /\ Blank(e, q)'
      BY <1>6, <3>2, TextStays
    <3>4. Blank(LastEnd, span.first)' /\ ErrorAsSpecified(span.first)'
      BY <1>7, <2>5, <3>3
    <3>5. PlacesInv'
      BY <2>3, <2>6 DEF PlacesInv, InToken
    <3>6. QED
      BY <1>9, <2>5, <3>4, <3>5 DEF LexemeInv
  <2>7. CASE m # "error"
    <3>1. PICK t : t = <<b>>
      OBVIOUS
    <3>2. t \in Seq(Int) /\ Len(t) = 1 /\ t[1] = b
      BY <1>5, <3>1
    <3>3. SameText(t, q)
      BY <1>2, <3>2 DEF SameText
    <3>4. SameText(t, q)' /\ Blank(e, q)'
      BY <1>6, <3>3, TextStays
    <3>5. Here' = a
      BY <1>7, <1>8, <2>3, <3>1, <3>2 DEF Here
    <3>6. Inside'
      <4>1. Len(token') >= 1 /\ span'.first \in Nat
        BY <1>7, <2>3, <3>1, <3>2
      <4>2. At(Here)'
        BY <1>9, <3>5
      <4>3. SameText(token, span.first)' /\ Blank(LastEnd, span.first)'
        BY <1>7, <2>3, <2>5, <3>1, <3>4
      <4>4. QED
        BY <4>1, <4>2, <4>3 DEF Inside
    <3>7. Grammar(mode, token)'
      <4>1. Grammar(m, t)
        BY <2>4, <2>7, <3>1 DEF Begun
      <4>2. QED
        BY <2>3, <3>1, <4>1 DEF Grammar
    <3>8. PlacesInv'
      BY <2>3, <2>4, <3>6, <3>7 DEF PlacesInv, Begun
    <3>9. QED
      BY <1>9, <2>3, <2>5, <2>7, <3>8 DEF LexemeInv
  <2>8. QED
    BY <2>6, <2>7
<1>12. QED
  BY <1>10, <1>11

-----------------------------------------------------------------------------
(* Every step *)

(* Every step of the scanner,                                              *)
LEMMA ScanRight ==
    ASSUME LexInv, LexemeInv, Scan
    PROVE  LexemeInv'
<1>1. UNCHANGED streamVars
  BY DEF Scan
<1>2. CASE SkipBlank
  BY <1>1, <1>2, SkipBlankRight
<1>3. CASE SkipComment
  BY <1>1, <1>3, SkipCommentRight
<1>4. CASE EndOfInput
  BY <1>1, <1>4, EndOfInputRight
<1>5. CASE FirstChar
  BY <1>1, <1>5, FirstCharRight
<1>6. CASE QuotedChar
  BY <1>1, <1>6, QuotedCharRight
<1>7. CASE HashChar
  BY <1>1, <1>7, HashCharRight
<1>8. CASE StringChar
  BY <1>1, <1>8, StringCharRight
<1>9. CASE AfterQuote
  BY <1>1, <1>9, AfterQuoteRight
<1>10. CASE KeywordChar
  BY <1>1, <1>10, KeywordCharRight
<1>11. CASE KeywordSecond
  BY <1>1, <1>11, KeywordSecondRight
<1>12. CASE ListChar
  BY <1>1, <1>12, ListCharRight
<1>13. CASE NumberEnd
  BY <1>1, <1>13, NumberEndRight
<1>14. CASE FractionFirst
  BY <1>1, <1>14, FractionFirstRight
<1>15. QED
  BY <1>2, <1>3, <1>4, <1>5, <1>6, <1>7, <1>8, <1>9, <1>10, <1>11, <1>12, <1>13, <1>14 DEF Scan

(* What is said of the input while nothing is read.                        *)
LEMMA NothingRead ==
    ASSUME LexemeInv, UNCHANGED streamVars, UNCHANGED charVars, produced' = produced
    PROVE  /\ LiveInv' /\ TokensRight' /\ LastEnd' = LastEnd
           /\ \A q : At(q)' <=> At(q)
           /\ \A q : Passed(q)' <=> Passed(q)
<1>1. /\ text' = text /\ interactive' = interactive /\ given' = given /\ buffer' = buffer
      /\ saved' = saved
  BY DEF streamVars, charVars
<1>2. TokensRight' /\ LastEnd' = LastEnd
  BY NothingMade DEF LexemeInv
<1>3. LiveInv'
  BY <1>1 DEF LexemeInv, LiveInv
<1>4. ASSUME NEW q PROVE At(q)' <=> At(q)
  <2>1. CharAt(q)' = CharAt(q) /\ After(q)' = After(q) /\ Consumed' = Consumed
    BY <1>1 DEF CharAt, After, Consumed
  <2>2. QED
    BY <1>1, <2>1 DEF At
<1>5. ASSUME NEW q PROVE Passed(q)' <=> Passed(q)
  <2>1. PICK e : e = LastEnd
    OBVIOUS
  <2>2. Blank(e, q)' <=> Blank(e, q)
    BY TextStays
  <2>3. Passed(q) <=> At(q) /\ (Blank(e, q) \/ (q = Len(text) /\ q < e))
    BY <2>1 DEF Passed
  <2>4. Passed(q)' <=> At(q)' /\ (Blank(e, q)' \/ (q = Len(text) /\ q < e))
    BY <1>1, <1>2, <2>1 DEF Passed
  <2>5. QED
    BY <1>4, <2>2, <2>3, <2>4
<1>6. QED
  BY <1>2, <1>3, <1>4, <1>5

(* The scanner is called where the last token ended.                       *)
LEMMA BeginRight ==
    ASSUME LexInv, LexemeInv, mode = "idle", peeked = <<>>, ~AtEnd, NEW call, Begin(call)
    PROVE  LexemeInv'
<1>1. /\ mode' = "skip" /\ produced' = produced /\ UNCHANGED streamVars /\ UNCHANGED charVars
  BY DEF Begin, tokenVars
<1>2. ~Ended
  <2>1. delivered = produced
    <3>1. delivered \in Seq(Tokens)
      BY DEF LexInv, LexTypes
    <3>2. PICK d : d = delivered
      OBVIOUS
    <3>3. d \o Reverse(<<>>) = d
      BY <3>1, <3>2, NothingReversed
    <3>4. QED
      BY <3>2, <3>3 DEF LexInv, OrderInv
  <2>2. QED
    BY <2>1 DEF AtEnd, Ended
<1>3. PICK q \in Nat : Passed(q)
  BY <1>2 DEF LexemeInv, PlacesInv
<1>4. LiveInv' /\ TokensRight' /\ Passed(q)'
  BY <1>1, <1>3, NothingRead
<1>5. PlacesInv'
  BY <1>1, <1>4 DEF PlacesInv, InToken
<1>6. QED
  BY <1>1, <1>4, <1>5 DEF LexemeInv

(* The lexer does nothing, or only hands out tokens.                       *)
LEMMA OthersRight ==
    ASSUME LexInv, LexemeInv,
           UNCHANGED <<text, interactive, given, buffer, saved, token, span, mode, produced>>
    PROVE  LexemeInv'
<1>1. UNCHANGED streamVars /\ UNCHANGED charVars
  BY DEF streamVars, charVars
<1>2. /\ LiveInv' /\ TokensRight' /\ LastEnd' = LastEnd
      /\ \A q : At(q)' <=> At(q)
      /\ \A q : Passed(q)' <=> Passed(q)
  BY <1>1, NothingRead
<1>3. PICK m, t, p, e, h : m = mode /\ t = token /\ p = span.first /\ e = LastEnd /\ h = Here
  OBVIOUS
<1>4. /\ Blank(e, p)' <=> Blank(e, p)
      /\ SameText(t, p)' <=> SameText(t, p)
      /\ ErrorAsSpecified(p)' <=> ErrorAsSpecified(p)
      /\ CharAt(h)' = CharAt(h)
      /\ \A q : Commented(e, q)' <=> Commented(e, q)
  BY <1>1, TextStays
<1>5. m = "idle" => Ended' \/ \E q \in Nat : Passed(q)'
  BY <1>2, <1>3 DEF LexemeInv, PlacesInv, Ended
<1>6. m = "skip" => \E q \in Nat : Passed(q)'
  BY <1>2, <1>3 DEF LexemeInv, PlacesInv
<1>7. m = "comment" => \E q \in Nat : Passed(q)' /\ Commented(e, q)'
  BY <1>2, <1>3, <1>4 DEF LexemeInv, PlacesInv
<1>8. Here' = h
  BY <1>3 DEF Here
<1>9. InToken => Inside' /\ Grammar(m, t)
  <2>1. SUFFICES ASSUME InToken PROVE Inside' /\ Grammar(m, t)
    OBVIOUS
  <2>2. Len(t) >= 1 /\ p \in Nat /\ At(h) /\ SameText(t, p) /\ Blank(e, p) /\ Grammar(m, t)
    BY <1>3, <2>1 DEF LexemeInv, PlacesInv, Inside
  <2>3. At(Here)'
    BY <1>2, <1>8, <2>2
  <2>4. SameText(token, span.first)' /\ Blank(LastEnd, span.first)'
    BY <1>2, <1>3, <1>4, <2>2
  <2>5. QED
    BY <1>3, <2>2, <2>3, <2>4 DEF Inside
<1>10. m = "numberEnd" => ~InClass(CharAt(h)', DecimalDigits)
  BY <1>3, <1>4 DEF LexemeInv, PlacesInv
<1>11. PlacesInv'
  <2>1. mode' = m /\ token' = t /\ LastEnd' = e /\ (InToken' <=> InToken)
    BY <1>2, <1>3 DEF InToken
  <2>2. /\ mode' = "idle" => Ended' \/ \E q \in Nat : Passed(q)'
        /\ mode' = "skip" => \E q \in Nat : Passed(q)'
    BY <1>5, <1>6, <2>1
  <2>3. mode' = "comment" => \E q \in Nat : Passed(q)' /\ Commented(LastEnd, q)'
    BY <1>7, <2>1
  <2>4. InToken' => Inside' /\ Grammar(mode, token)'
    BY <1>9, <2>1 DEF Grammar
  <2>5. mode' = "numberEnd" => ~InClass(CharAt(Here), DecimalDigits)'
    BY <1>8, <1>10, <2>1 DEF InClass
  <2>6. QED
    BY <2>2, <2>3, <2>4, <2>5 DEF PlacesInv
<1>12. mode' = "error" => Blank(LastEnd, span.first)' /\ ErrorAsSpecified(span.first)'
  <2>1. LastEnd' = e /\ span'.first = p /\ mode' = m
    BY <1>2, <1>3
  <2>2. m = "error" => Blank(e, p)' /\ ErrorAsSpecified(p)'
    BY <1>3, <1>4 DEF LexemeInv
  <2>3. QED
    BY <2>1, <2>2
<1>13. QED
  BY <1>2, <1>11, <1>12 DEF LexemeInv

(* every step of the reader,                                               *)
LEMMA LexemeInvNext ==
    ASSUME LexInv, LexemeInv, [Next]_vars
    PROVE  LexemeInv'
<1>1. CASE Call
  <2>1. (NextToken \/ PeekToken) /\ mode = "idle" /\ ~AtEnd
    BY <1>1 DEF Call, NextToken, PeekToken
  <2>2. CASE peeked = <<>>
    <3>1. \E call : Begin(call)
      BY <2>1, <2>2 DEF NextToken, PeekToken
    <3>2. QED
      BY <2>1, <2>2, <3>1, BeginRight
  <2>3. CASE peeked # <<>>
    <3>1. TakePeeked
      BY <2>1, <2>3 DEF NextToken, PeekToken
    <3>2. QED
      BY <3>1, OthersRight DEF TakePeeked, streamVars, charVars
  <2>4. QED
    BY <2>2, <2>3
<1>2. CASE PutBack
  BY <1>2, OthersRight DEF PutBack, ReinsertToken, streamVars, charVars
<1>3. CASE Scanning
  BY <1>3, ScanRight DEF Scanning
<1>4. CASE UNCHANGED lexVars
  BY <1>4, OthersRight DEF lexVars
<1>5. ReadLiteral \/ ReadParenthesis \/ (\E k \in AllOps : Apply(k)) \/ UNCHANGED vars
          => UNCHANGED lexVars
  BY DEF ReadLiteral, ReadParenthesis, Apply, vars, lexVars
<1>6. QED
  BY <1>1, <1>2, <1>3, <1>4, <1>5 DEF Next

(* and the initial states.                                                 *)
LEMMA LexemeInvInit ==
    ASSUME ReaderInit
    PROVE  LexemeInv
<1>1. LexInv
  BY LexInvInit
<1>2. /\ given = 0 /\ buffer = <<>> /\ saved = <<>> /\ mode = "idle" /\ produced = <<>>
  BY DEF ReaderInit, Init
<1>3. Len(<<>>) = 0 /\ Len(text) \in Nat
  BY <1>1 DEF LexInv, LexTypes
<1>4. At(0)
  <2>1. given = 0 /\ Len(buffer) = 0
    BY <1>2, <1>3
  <2>2. Consumed = 0
    BY <2>1 DEF Consumed
  <2>3. 0 \in 0 .. Len(text)
    BY <1>3
  <2>4. QED
    BY <1>2, <2>2, <2>3 DEF At
<1>5. LastEnd = 0
  BY <1>2, <1>3 DEF LastEnd, EndBefore
<1>6. Passed(0)
  <2>1. Blank(0, 0)
    <3>1. 0 + 1 .. 0 = {} /\ 0 <= 0
      OBVIOUS
    <3>2. QED
      BY <3>1 DEF Blank
  <2>2. QED
    BY <1>4, <1>5, <2>1 DEF Passed
<1>7. PlacesInv
  BY <1>2, <1>6 DEF PlacesInv, InToken
<1>8. TokensRight
  BY <1>2, <1>3 DEF TokensRight
<1>9. QED
  BY <1>2, <1>7, <1>8 DEF LexemeInv, LiveInv

(* Whatever the input, and however it is cut into blocks: every token is   *)
(* the longest lexeme where it begins, only whitespace and comments are    *)
(* passed over, and an error or the end is reported where the text leaves  *)
(* nothing else (computeNextToken, readNextChar, saveChar).                *)
THEOREM LongestLexemes == Spec => []TokensAsSpecified
<1>1. ReaderInit => LexInv /\ LexemeInv
  BY LexInvInit, LexemeInvInit
<1>2. LexInv /\ LexemeInv /\ [Next]_vars => LexInv' /\ LexemeInv'
  BY LexInvNext, LexemeInvNext
<1>3. LexemeInv => TokensAsSpecified
  BY DEF LexemeInv, TokensRight, TokensAsSpecified, LastEnd
<1>4. QED
  BY <1>1, <1>2, <1>3, PTL DEF Spec

=============================================================================
