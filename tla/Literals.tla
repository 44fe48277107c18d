------------------------------- MODULE Literals -------------------------------
(***************************************************************************)
(* Literal::evaluate (src/literal.cpp) and the classes it works with       *)
(* (src/util/): integers, rationals, bit-vectors and strings.              *)
(*                                                                         *)
(* A literal is a record with a kind.  "int" is the value of a numeral or  *)
(* a bit-vector, the numerator of a rational, and 0 or 1 for a Boolean;    *)
(* "aux" the denominator or the width; "str" the code points of a string.  *)
(* The arithmetic is GMP's, without bounds, but for indices and widths,    *)
(* which are unsigned.  Operators that look at expressions rather than at  *)
(* values (eo::is_eq, eo::ite, eo::requires) are in module EvalTerms.      *)
(***************************************************************************)
EXTENDS Integers, Sequences, FiniteSets, SequencesExt, FiniteSetsExt

CONSTANT UintMax    \* the greatest uint32_t

ASSUME UintMaxAssumption == UintMax \in Nat

Literal(kind, int, aux, str) == [kind |-> kind, int |-> int, aux |-> aux, str |-> str]

(* Literal(), the kind NONE: the operator does not evaluate.               *)
NoLiteral == Literal("NONE", 0, 0, <<>>)

(* What an access beyond the vector of arguments gives: anything.          *)
UndefinedLiteral == Literal("UNDEFINED", 0, 0, <<>>)

Bool(b) == Literal("BOOLEAN", IF b THEN 1 ELSE 0, 0, <<>>)
Numeral(n) == Literal("NUMERAL", n, 0, <<>>)
StringOf(s) == Literal("STRING", 0, 0, s)

Abs(n) == IF n < 0 THEN -n ELSE n

GCD(m, n) == LET g[a, b \in Nat] == IF b = 0 THEN a ELSE g[b, a % b] IN g[m, n]

(* mpq_class::canonicalize: least terms and a positive denominator.        *)
Ratio(kind, n, d) == LET g == GCD(Abs(n), Abs(d))
                         s == IF d < 0 THEN -1 ELSE 1
                     IN  Literal(kind, s * (n \div g), Abs(d) \div g, <<>>)

Rationals == {"DECIMAL", "RATIONAL"}
BitKinds == {"HEXADECIMAL", "BINARY"}

FitsUnsigned(n) == 0 <= n /\ n <= UintMax

-----------------------------------------------------------------------------
(* Integers and bit-vectors *)

(* mpz_fdiv_q and mpz_fdiv_r, for any divisor but 0.                       *)
FloorQuotient(x, y) == IF y > 0 THEN x \div y ELSE (-x) \div (-y)
FloorRemainder(x, y) == x - y * FloorQuotient(x, y)

(* Faulty: the branch of euclidianQR that is never taken is taken, whose   *)
(* correction is that for a positive divisor.                              *)
EuclideanOther(x, y) ==
    LET q == FloorQuotient(x, y)
        r == FloorRemainder(x, y)
    IN  IF r < 0 THEN <<q - 1, r + y>> ELSE <<q, r>>

(* Integer::euclidianQR.  The branch for a remainder that is negative and  *)
(* not negative is never taken.                                            *)
Euclidean(x, y) ==
    LET q == FloorQuotient(x, y)
        r == FloorRemainder(x, y)
    IN  IF r < 0 THEN <<q + 1, r - y>> ELSE <<q, r>>

(* BitVector(size, val): modByPow2 keeps every value below 2^size.         *)
BitVector(kind, size, val) == Literal(kind, val % (2 ^ size), size, <<>>)

BitsOf(v) == {i \in 0 .. v.aux - 1 : (v.int \div (2 ^ i)) % 2 = 1}

(* The greatest code point is in fact one less: toInternal lets a code     *)
(* that is num_codes() itself through.                                     *)
NumCodes == 196608

(* What the classes keep of any literal: a bit-vector is not negative and  *)
(* below the power of its width (the comment on the members of BitVector   *)
(* has "2^d_size < d_value"), a rational is in least terms, and a string   *)
(* has code points (the assertions of the constructor of String and of     *)
(* toInternal, which are compiled out).                                    *)
IsValue(l) ==
    /\ l = Literal(l.kind, l.int, l.aux, l.str)
    /\ l.int \in Int /\ l.aux \in Nat /\ l.str \in Seq(0 .. NumCodes)
    /\ l.kind \in BitKinds => l.int \in 0 .. 2 ^ l.aux - 1
    /\ l.kind \in Rationals => l.aux > 0 /\ l = Ratio(l.kind, l.int, l.aux)
    /\ l.kind \notin Rationals \cup BitKinds => l.aux = 0
    /\ l.kind \in {"STRING", "SYMBOL"} => l.int = 0
    /\ l.kind \notin {"STRING", "SYMBOL"} => l.str = <<>>

OfBits(kind, size, bits) == BitVector(kind, size, SumSet({2 ^ i : i \in bits}))

(* Faulty: the complement without the one.                                 *)
NegateByComplement(v) == BitVector(v.kind, v.aux, -v.int - 1)

(* operator-: the complement, mpz_com, and one more.                       *)
Negate(v) == BitVector(v.kind, v.aux, ((-v.int - 1) % (2 ^ v.aux)) + 1)

Concat(v, w) == BitVector(v.kind, v.aux + w.aux, v.int * (2 ^ w.aux) + w.int)

(* BitVector::extract without assertions: a position at the width, which   *)
(* evaluate lets through, is a bit 0 more.                                 *)
Extract(v, high, low) == BitVector(v.kind, high - low + 1, (v.int % (2 ^ (high + 1))) \div (2 ^ low))

(* Division by zero is all ones: Integer(1).oneExtend(1, size - 1), whose  *)
(* bound size + amount is taken modulo 2^32 and is 0 again for width 0.    *)
UnsignedDiv(v, w) ==
    IF w.int = 0
    THEN OfBits(v.kind, v.aux, {0} \cup 1 .. v.aux - 1)
    ELSE BitVector(v.kind, v.aux, v.int \div w.int)

UnsignedRem(v, w) ==
    IF w.int = 0 THEN v ELSE BitVector(v.kind, v.aux, v.int % w.int)

-----------------------------------------------------------------------------
(* Strings.  A char of the text and a code point are both numbers. *)

Backslash == 92
Quote == 34

IsPrintable(c) == 32 <= c /\ c <= 126
IsHexDigit(c) == c \in (48 .. 57) \cup (65 .. 70) \cup (97 .. 102)

HexValue(c) == CASE c \in 48 .. 57 -> c - 48
                 [] c \in 65 .. 70 -> c - 55
                 [] OTHER -> c - 87

(* The number that digits stand for in a base: std::hex, mpz_set_str.      *)
Number(base, s) == FoldLeft(LAMBDA n, c : base * n + HexValue(c), 0, s)

(* The text of a natural number in a base up to 16.                        *)
Digits(n, base) ==
    LET digit(d) == IF d < 10 THEN 48 + d ELSE 87 + d
        text[m \in 0 .. n] == IF m < base THEN <<digit(m)>>
                               ELSE Append(text[m \div base], digit(m % base))
    IN  text[n]

(* The lengths of the escape sequences \uXXXX and \u{X} to \u{XXXXX} at    *)
(* position i of s.                                                        *)
Escapes(s, i) ==
    {n \in 4 .. 9 :
        /\ i + n - 1 <= Len(s)
        /\ s[i] = Backslash /\ s[i + 1] = 117
        /\ IF s[i + 2] = 123
           THEN /\ \A j \in i + 3 .. i + n - 2 : IsHexDigit(s[j])
                /\ n >= 5 /\ s[i + n - 1] = 125
           ELSE n = 6 /\ \A j \in i + 2 .. i + 5 : IsHexDigit(s[j])}

EscapedCode(s, i, n) == Number(16, IF s[i + 2] = 123 THEN SubSeq(s, i + 3, i + n - 2)
                                   ELSE SubSeq(s, i + 2, i + 5))

(* Faulty: the braces are optional but any four characters are read.       *)
ToInternalNoBraces(s) ==
    LET plain(c) == IF 32 <= c /\ c <= 127 THEN <<c>> ELSE <<>>
        from[i \in 1 .. Len(s) + 9] ==
            IF i > Len(s) THEN <<>>
            ELSE IF 6 \in Escapes(s, i) THEN <<EscapedCode(s, i, 6)>> \o from[i + 6]
            ELSE plain(s[i]) \o from[i + 1]
    IN  from[1]

(* String::toInternal with escape sequences.  What does not make a full    *)
(* escape sequence, or has a code beyond num_codes(), is taken as it is;   *)
(* the characters read so far have no second backslash, so that to go on   *)
(* after them is to go on after the first.  Other characters that are not  *)
(* printable are dropped (addCharToInternal).                              *)
ToInternal(s) ==
    LET plain(c) == IF 32 <= c /\ c <= 127 THEN <<c>> ELSE <<>>
        from[i \in 1 .. Len(s) + 9] ==
            LET good == {n \in Escapes(s, i) : EscapedCode(s, i, n) <= NumCodes}
            IN  IF i > Len(s) THEN <<>>
                ELSE IF good = {} THEN plain(s[i]) \o from[i + 1]
                ELSE LET n == CHOOSE m \in good : TRUE
                     IN  <<EscapedCode(s, i, n)>> \o from[i + n]
    IN  from[1]

(* String::toString: the backslash is escaped as well.                     *)
ToText(s) ==
    LET char(c) == IF IsPrintable(c) /\ c # Backslash
                   THEN <<c>>
                   ELSE <<Backslash, 117, 123>> \o Digits(c, 16) \o <<125>>
    IN  FlattenSeq([i \in DOMAIN s |-> char(s[i])])

(* ExprParser::unescapeString, after its test for extended characters: the *)
(* quotes go and the character after a quote is skipped, another quote.    *)
Unescape(token) ==
    LET s == SubSeq(token, 2, Len(token) - 1)
        from[i \in 1 .. Len(s) + 2] ==
            IF i > Len(s) THEN <<>>
            ELSE <<s[i]>> \o from[IF s[i] = Quote THEN i + 2 ELSE i + 1]
    IN  from[1]

(* A string literal of the input: parsed, printed and parsed once more by  *)
(* mkLiteral.                                                              *)
StringLiteral(token) == ToInternal(ToText(ToInternal(Unescape(token))))

(* Positions where y occurs in x.                                          *)
OccursAt(x, y) == {i \in 0 .. Len(x) - Len(y) : SubSeq(x, i + 1, i + Len(y)) = y}

(* Literal::toString; hexadecimals are printed without leading zeroes.     *)
PrintedInt(n) == IF n < 0 THEN <<45>> \o Digits(-n, 10) ELSE Digits(n, 10)

Printed(l) ==
    LET fraction == PrintedInt(l.int) \o <<47>> \o Digits(l.aux, 10)
        bits == Digits(l.int, 2)
    IN  IF l.kind \in BitKinds /\ l.aux = 0 THEN <<>>
        ELSE CASE l.kind = "NUMERAL" -> PrintedInt(l.int)
          [] l.kind = "DECIMAL" -> IF l.aux = 1 THEN PrintedInt(l.int) ELSE fraction
          [] l.kind = "RATIONAL" -> fraction
          [] l.kind = "HEXADECIMAL" -> Digits(l.int, 16)
          [] l.kind = "BINARY" -> [i \in 1 .. l.aux - Len(bits) |-> 48] \o bits

=============================================================================
