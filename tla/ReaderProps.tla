------------------------------ MODULE ReaderProps ------------------------------
(* What reading, evaluating and printing literals guarantees. *)
EXTENDS Reader

-----------------------------------------------------------------------------
(* Lexemes, as sets of texts *)

Matches(s, first, rest) == s[1] \in first /\ \A i \in 2 .. Len(s) : s[i] \in rest

IsNumber(s) == \/ Matches(s, DecimalDigits, DecimalDigits)
               \/ \E i \in 2 .. Len(s) - 1 :
                      /\ s[i] \in {Dot, Slash}
                      /\ \A j \in DOMAIN s \ {i} : s[j] \in DecimalDigits

IsQuoted(s) == Len(s) >= 2 /\ {i \in DOMAIN s : s[i] = Bar} = {1, Len(s)}

(* From which places on the quotes of s come in pairs, up to the last one. *)
PairedFrom(s) ==
    LET n == Len(s)
        paired[i \in 2 .. n + 1] ==
            IF i >= n THEN i = n
            ELSE IF s[i] # DoubleQuote THEN paired[i + 1]
            ELSE s[i + 1] = DoubleQuote /\ i + 1 < n /\ paired[i + 2]
    IN  paired

IsString(s) == /\ Len(s) >= 2 /\ s[1] = DoubleQuote /\ s[Len(s)] = DoubleQuote
               /\ PairedFrom(s)[2]

IsBits(s) == Len(s) >= 2 /\ s[1] = Hash /\ \/ s[2] = 98 /\ \A i \in 3 .. Len(s) : s[i] \in Bits
                                           \/ s[2] = 120 /\ \A i \in 3 .. Len(s) : s[i] \in HexDigits

IsKeyword(s) == Len(s) >= 2 /\ s[1] = Colon /\ Matches(Tail(s), SymbolStart, SymbolChars)

IsLexeme(s) == s # <<>> /\ \/ s \in {<<40>>, <<41>>}
                           \/ Matches(s, SymbolStart, SymbolChars)
                           \/ IsNumber(s) \/ IsQuoted(s) \/ IsString(s) \/ IsBits(s) \/ IsKeyword(s)

(* The kind of a lexeme is seen at its beginning, and for a number in the  *)
(* mark it has; words, numbers with a sign and symbols are told apart.     *)
IsOfKind(tok, s) ==
    /\ s[1] = 40 => tok = "LPAREN"
    /\ s[1] = 41 => tok = "RPAREN"
    /\ s[1] = Bar => tok = "QUOTED_SYMBOL"
    /\ s[1] = DoubleQuote => tok = "STRING_LITERAL"
    /\ s[1] = Colon => tok = "KEYWORD"
    /\ s[1] = Hash => tok = IF s[2] = 98 THEN "BINARY_LITERAL" ELSE "HEX_LITERAL"
    /\ s[1] \in DecimalDigits => tok = IF Dot \in Range(s) THEN "DECIMAL_LITERAL"
                                      ELSE IF Slash \in Range(s) THEN "RATIONAL_LITERAL"
                                      ELSE "INTEGER_LITERAL"
    /\ s[1] \in SymbolStart => tok = SymbolToken(s)

(* The lexemes of the text that begin after position p.                    *)
LexemesAt(p) == {s \in {SubSeq(text, p + 1, q) : q \in p + 1 .. Len(text)} : IsLexeme(s)}

Longest(p, s) == s \in LexemesAt(p) /\ \A u \in LexemesAt(p) : Len(u) <= Len(s)

(* Only whitespace and comments from one position to a later one.          *)
Blank(p, q) ==
    /\ p <= q
    /\ \A j \in p + 1 .. q :
          \/ text[j] \in Whitespace
          \/ \E k \in p + 1 .. j : text[k] = Semicolon /\ \A i \in k .. j : text[i] # Newline

-----------------------------------------------------------------------------
(* Text and tokens *)

(* What reads as the end of the input: of a buffered one, a byte 255 does. *)
EndAt(q) == q < Len(text) => ~interactive /\ text[q + 1] = 255

Unterminated == {"UNTERMINATED_STRING_LITERAL", "UNTERMINATED_QUOTED_SYMBOL"}

(* A keyword of one letter takes the character after it away, and the end  *)
(* that a literal runs into is used up.                                    *)
Beyond(tok, s) == IF (tok = "KEYWORD" /\ Len(s) = 2) \/ tok \in Unterminated THEN 1 ELSE 0

EndOf(made) == made.first + Len(made.str) + Beyond(made.token, made.str)

EndBefore(i) == IF i = 1 THEN 0 ELSE EndOf(produced[i - 1])

(* A token is the longest lexeme after the position where the one before   *)
(* it ended, and has its kind; the end of the input, or a literal that     *)
(* runs into it, is told where the input ends.                             *)
AsSpecified(made, before) ==
    LET q == made.first + Len(made.str)
    IN  /\ made.token = "EOF_TOK" =>
               before > Len(text) \/ \E e \in 0 .. Len(text) : EndAt(e) /\ Blank(before, e)
        /\ made.token # "EOF_TOK" => Blank(before, made.first)
        /\ made.token \in Unterminated =>
               /\ made.str # <<>> /\ made.str = SubSeq(text, made.first + 1, q)
               /\ q <= Len(text) /\ EndAt(q)
               /\ ~IsLexeme(made.str)
        /\ made.token \notin Unterminated \cup {"EOF_TOK"} =>
               Longest(made.first, made.str) /\ IsOfKind(made.token, made.str)

(* An error is reported where no lexeme begins, or after a number that a   *)
(* dot or a slash follows without a digit.                                 *)
ErrorAsSpecified(p) ==
    /\ p < Len(text)
    /\ \A s \in LexemesAt(p) :
          Longest(p, s) => /\ IsNumber(s) /\ p + Len(s) < Len(text)
                           /\ text[p + Len(s) + 1] \in {Dot, Slash}

(* Whatever the sizes of the blocks the input is read in, tokens are the   *)
(* longest lexemes of the input, in order, with nothing but whitespace and *)
(* comments between them, each of its kind, and input that ends or fails   *)
(* does so for a reason (computeNextToken, readNextChar, saveChar,         *)
(* tokenizeCurrentSymbol).  What comes after a keyword of one letter is    *)
(* lost: parseNonEmptyCharList does not save it.                           *)
TokensAsSpecified ==
    /\ \A i \in 1 .. Len(produced) : AsSpecified(produced[i], EndBefore(i))
    /\ mode = "error" => /\ Blank(EndBefore(Len(produced) + 1), span.first)
                         /\ ErrorAsSpecified(span.first)

Modulo(n) == n % (ColumnMax + 1)

(* The location that an error message or a warning gives is the line and   *)
(* column of the first character of the token read last (bumpSpan), though *)
(* the scanner has read one character more when the token was made.        *)
LocationRight ==
    \A i \in DOMAIN produced :
        LET made == produced[i]
            newlines == {j \in 1 .. made.first : text[j] = Newline}
        IN  made.token # "EOF_TOK" =>
                /\ made.start.line = Modulo(1 + Cardinality(newlines))
                /\ made.start.column = Modulo(made.first + 1 - Max(newlines \cup {0}))

(* Tokens that are peeked at and put back are handed out once more, in the *)
(* order of the input, none lost and none twice (nextToken, reinsertToken).*)
DeliveredInOrder == delivered \o Reverse(peeked) = produced

(* A call of the lexer returns or reports an error, also at the end of an  *)
(* input that ends within a comment, a string or a quoted symbol.          *)
ScanEnds == mode = "skip" ~> mode \in {"idle", "error"}

-----------------------------------------------------------------------------
(* Values *)

Reserved == {Word("eo::match"), Word("eo::define"), Word("par"), Word("let"), Word("Bool"),
             Word("Type"), <<33>>}

(* What can be read back after it is printed: no symbol that is read as    *)
(* another token or as the end of the input, no quote in a string, no      *)
(* bit-vector without bits or hexadecimal with leading zeroes, no decimal. *)
ReadsBack(l) ==
    CASE l.kind = "SYMBOL" -> /\ l.str \notin Reserved
                              /\ l.str # <<>> /\ l.str[1] = Minus => SymbolToken(l.str) = "SYMBOL"
                              /\ Range(l.str) \cap {Bar, Backslash} = {}
                              /\ interactive \/ 255 \notin Range(l.str)
      [] l.kind = "STRING" -> DoubleQuote \notin Range(l.str)
      [] l.kind = "BINARY" -> l.aux > 0
      [] l.kind = "HEXADECIMAL" -> l.aux > 0 /\ l.aux = 4 * Len(Printed(l))
      [] OTHER -> l.kind # "DECIMAL"

(* A value that Expr::printDebug prints is the same value again when the   *)
(* parser reads it, however the input is buffered.                         *)
PrintedReadsBack ==
    meant # NoLiteral /\ normalize = {} /\ ReadsBack(meant) =>
        /\ mode # "error"
        /\ AtEnd => values = <<meant>>

AllValues == Range(values) \cup {result.value}

(* The text of a string value has the escape sequences that make the value *)
(* again, also when a concatenation brings a backslash next to a u or cuts *)
(* an escape sequence short (String::toString, String::toInternal).        *)
StringsRoundTrip ==
    \A l \in AllValues : l.kind = "STRING" => ToInternal(ToText(l.str)) = l.str

Operand(i) == values[i]

(* eo::extract with two indices selects the bits or characters between     *)
(* them that exist, and nothing for a negative index; only for a           *)
(* bit-vector and the upper index at its width it makes one bit more       *)
(* (literal.cpp, where the assertion of BitVector::extract is compiled     *)
(* out).                                                                   *)
ExtractSelects ==
    result.op = "EVAL_EXTRACT" /\ Len(values) = 3
    /\ Operand(2).kind = "NUMERAL" /\ Operand(3).kind = "NUMERAL" =>
        LET a == Operand(1)
            low == Operand(2).int
            high == Operand(3).int
            size == IF a.kind = "STRING" THEN Len(a.str) ELSE a.aux
            chosen == IF low < 0 \/ high < 0 THEN {} ELSE {i \in 0 .. size - 1 : low <= i /\ i <= high}
        IN  CASE a.kind = "STRING" ->
                     result.value = StringOf([i \in 1 .. Cardinality(chosen) |-> a.str[low + i]])
              [] a.kind \in BitKinds /\ high # size ->
                     /\ result.value.kind = a.kind
                     /\ result.value.aux = Cardinality(chosen)
                     /\ BitsOf(result.value) = {i - low : i \in chosen \cap BitsOf(a)}
              [] OTHER -> TRUE

Quotient == EvaluateLiterals("EVAL_INT_DIV", values)
Remainder == EvaluateLiterals("EVAL_INT_MOD", values)

(* Division and remainder belong together: they recompose the dividend,    *)
(* and the remainder is smaller than the divisor, whatever their signs.    *)
(* For a positive divisor the remainder is not negative, so that the       *)
(* quotient is "the integer division (floor)" (user_manual.md:694); for a  *)
(* negative one the code has the Euclidean quotient (integer.h:105), which *)
(* is not the floor, and nothing is said of its rounding.  Of bit-vectors  *)
(* both are total (BitVector::unsignedDivTotal, unsignedRemTotal).         *)
DivisionRecomposes ==
    result.op \in {"EVAL_INT_DIV", "EVAL_INT_MOD"} /\ result.value # NoLiteral =>
        LET a == Operand(1)
            b == Operand(2)
        IN  IF b.int = 0
            THEN Quotient.int = 2 ^ a.aux - 1 /\ Remainder.int = a.int
            ELSE /\ a.int = b.int * Quotient.int + Remainder.int
                 /\ Abs(Remainder.int) < Abs(b.int)
                 /\ b.int > 0 => Remainder.int >= 0

(* Bit-vectors of one width are the integers modulo a power of two: a      *)
(* result lies below it, and negation, complement and concatenation are    *)
(* undone by addition, by the bits that are not set and by the two halves. *)
BitVectorsWrap ==
    result.value.kind \in BitKinds =>
        LET a == Operand(1)
            w == result.value.aux
            n == result.value.int
        IN  /\ 0 <= n /\ n < 2 ^ w
            /\ result.op = "EVAL_NEG" => w = a.aux /\ (a.int + n) % (2 ^ w) = 0
            /\ result.op = "EVAL_NOT" => BitsOf(result.value) = (0 .. w - 1) \ BitsOf(a)
            /\ result.op = "EVAL_CONCAT" /\ Len(values) = 2 =>
                   LET b == Operand(2)
                   IN  /\ w = a.aux + b.aux
                       /\ {i - b.aux : i \in BitsOf(result.value) \ (0 .. b.aux - 1)} = BitsOf(a)
                       /\ BitsOf(result.value) \cap (0 .. b.aux - 1) = BitsOf(b)

(* A value has the type that getLiteralOpType gives the application before *)
(* it is evaluated, but for the division of bit-vectors, which is typed as *)
(* one of numerals, and the comparison, which has no type.                 *)
ValueHasOpType ==
    result.value.kind \notin {"NONE", "UNDEFINED"} =>
        \/ result.value.kind = OpType(result.op, values)
        \/ result.op = "EVAL_GT"
        \/ result.op \in {"EVAL_INT_DIV", "EVAL_INT_MOD"} /\ Operand(1).kind \in BitKinds

=============================================================================
