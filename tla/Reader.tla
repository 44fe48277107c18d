-------------------------------- MODULE Reader --------------------------------
(***************************************************************************)
(* From text to values and back: the lexer with the part of                *)
(* ExprParser::parseExpr that makes literals and symbols of tokens, the    *)
(* operators of Literal::evaluate applied to what was read, and how        *)
(* Expr::printDebug prints a value.                                        *)
(***************************************************************************)
EXTENDS Lexer, LiteralOps

CONSTANTS
    Texts,          \* inputs
    Printables,     \* values whose printed forms are inputs as well
    Operands        \* sequences of values that operators are applied to

VARIABLES
    normalize,      \* the kinds of the options --normalize-..., outside of signatures
    meant,          \* history: the value whose printed form the text is
    values,         \* the values made of the tokens
    result          \* of an operator: its kind and its value

readerVars == <<normalize, meant, values, result>>
vars == <<lexVars, readerVars>>

Symbol(name) == Literal("SYMBOL", 0, 0, name)

(* The constructors of GMP's numbers throw std::invalid_argument, which    *)
(* nothing catches; a parse error ends the program as well.                *)
Fatal == Literal("FATAL", 0, 0, <<>>)

Decimal(s) == Number(10, s)

(* The number that a text with an optional sign stands for.                *)
SignedDecimal(s) == IF s[1] = Minus THEN -Decimal(Tail(s)) ELSE Decimal(s)

(* Rational::fromDecimal                                                   *)
FromDecimal(s) ==
    LET point == CHOOSE i \in DOMAIN s : s[i] = Dot
    IN  Ratio("DECIMAL", SignedDecimal(RemoveAt(s, point)), 10 ^ (Len(s) - point))

(* The test for a zero denominator, then mpq_class.                        *)
FromRational(s) ==
    LET slash == CHOOSE i \in DOMAIN s : s[i] = Slash
        n == SubSeq(s, 1, slash - 1)
        d == SubSeq(s, slash + 1, Len(s))
    IN  IF Decimal(d) = 0 \/ n \in {<<>>, <<Minus>>} THEN Fatal
        ELSE Ratio("RATIONAL", SignedDecimal(n), Decimal(d))

(* BitVector(num, base): the digits after #b or #x, at least one.          *)
FromBinary(s) == LET digits == SubSeq(s, 3, Len(s))
                 IN  IF digits = <<>> THEN Fatal
                     ELSE BitVector("BINARY", Len(digits), Number(2, digits))

FromHexadecimal(s) == LET digits == SubSeq(s, 3, Len(s))
                      IN  IF digits = <<>> THEN Fatal
                          ELSE BitVector("HEXADECIMAL", 4 * Len(digits), Number(16, digits))

(* unescapeString, String(s, true) and mkLiteral; other characters than    *)
(* those of ASCII are an error.                                            *)
FromString(s) == IF \E i \in DOMAIN s : s[i] > 127 THEN Fatal ELSE StringOf(StringLiteral(s))

(* What the options make of a numeral, a decimal or a hexadecimal.         *)
Normalized(l) == IF l.kind \notin normalize THEN l
                 ELSE IF l.kind = "HEXADECIMAL" THEN [l EXCEPT !.kind = "BINARY"]
                 ELSE Ratio("RATIONAL", l.int, IF l.kind = "NUMERAL" THEN 1 ELSE l.aux)

(* The base cases of parseExpr.  The text is that of the token read last,  *)
(* whichever token was asked for.                                          *)
ValueOf(tok, s) ==
    CASE tok = "INTEGER_LITERAL" -> Normalized(Numeral(SignedDecimal(s)))
      [] tok = "DECIMAL_LITERAL" -> Normalized(FromDecimal(s))
      [] tok = "RATIONAL_LITERAL" -> FromRational(s)
      [] tok = "HEX_LITERAL" -> Normalized(FromHexadecimal(s))
      [] tok = "BINARY_LITERAL" -> FromBinary(s)
      [] tok = "STRING_LITERAL" -> FromString(s)
      [] tok = "SYMBOL" -> Symbol(s)
      [] tok = "QUOTED_SYMBOL" -> Symbol(SubSeq(s, 2, Len(s) - 1))
      [] OTHER -> NoLiteral

-----------------------------------------------------------------------------
(* Printing *)

SimpleChars == SymbolStart \cup DecimalDigits

(* Faulty: a symbol that begins with a digit is not quoted.                *)
QuoteSymbolDigits(s) ==
    IF s # <<>> /\ Range(s) \subseteq SimpleChars THEN s
    ELSE <<Bar>> \o [i \in DOMAIN s |-> IF s[i] \in {Bar, Backslash} THEN 95 ELSE s[i]] \o <<Bar>>

(* quoteSymbol: bars around what is no simple symbol, underscores for bars *)
(* and backslashes.  Reserved words and numbers with a sign get no bars.   *)
QuoteSymbol(s) ==
    LET inner == IF Len(s) > 1 /\ s[1] = Bar /\ Last(s) = Bar THEN SubSeq(s, 2, Len(s) - 1) ELSE s
    IN  IF s # <<>> /\ Range(s) \subseteq SimpleChars /\ s[1] \notin DecimalDigits THEN s
        ELSE <<Bar>>
             \o [i \in DOMAIN inner |-> IF inner[i] \in {Bar, Backslash} THEN 95 ELSE inner[i]]
             \o <<Bar>>

(* A blank, the keyword :decimal and a closing parenthesis.                *)
DecimalMark == <<32, Colon, 100, 101, 99, 105, 109, 97, 108, 41>>

(* printDebugInternal, for a leaf.  A decimal is printed as an annotated   *)
(* rational, and is read back as that.                                     *)
PrintedLeaf(l) ==
    CASE l.kind = "HEXADECIMAL" -> <<Hash, 120>> \o Printed(l)
      [] l.kind = "BINARY" -> <<Hash, 98>> \o Printed(l)
      [] l.kind = "STRING" -> <<DoubleQuote>> \o ToText(l.str) \o <<DoubleQuote>>
      [] l.kind = "DECIMAL" -> <<40, 33, 32>> \o Printed(l) \o DecimalMark
      [] l.kind = "SYMBOL" -> QuoteSymbol(l.str)
      [] OTHER -> Printed(l)

Bytes == 0 .. 255

(* What PrintedLeaf has a case for.                                        *)
LeafKinds == Rationals \cup BitKinds \cup {"NUMERAL", "STRING", "SYMBOL"}

(* An input is a sequence of bytes, and so is a printed leaf.              *)
ASSUME InputsAreBytes ==
    /\ Texts \subseteq Seq(Bytes)
    /\ \A l \in Printables : IsValue(l) /\ l.kind \in LeafKinds /\ PrintedLeaf(l) \in Seq(Bytes)

(* The arguments of an operator are literals as their classes keep them.   *)
ASSUME OperandsAreValues ==
    \A vs \in Operands : vs \in Seq(Range(vs)) /\ \A l \in Range(vs) : IsValue(l)

-----------------------------------------------------------------------------

None == [op |-> "none", value |-> NoLiteral]

ReaderInit ==
    /\ Init
    /\ interactive \in BOOLEAN
    /\ result = None
    /\ \/ /\ text \in Texts /\ values = <<>> /\ meant = NoLiteral
          /\ normalize = {}
       \/ /\ \E l \in Printables : text = PrintedLeaf(l) /\ meant = l
          /\ values = <<>>
          /\ normalize \in {{}, {"NUMERAL", "DECIMAL", "HEXADECIMAL"}}
       \/ /\ text = <<>> /\ values \in Operands /\ meant = NoLiteral
          /\ ~interactive /\ normalize = {}

(* Values and tokens in the hands of the parser.                           *)
Unread == Len(values) < Len(delivered)

Aborted == Fatal \in Range(values)

Call == /\ ~Aborted /\ ~Unread
        /\ text = <<>> => values = <<>>
        /\ NextToken \/ PeekToken
        /\ UNCHANGED readerVars

(* A token is put back, unless it is a value already.                      *)
PutBack == /\ delivered # <<>>
           /\ Unread \/ Last(delivered).token \in {"LPAREN", "RPAREN"}
           /\ ~Aborted
           /\ ReinsertToken
           /\ values' = SubSeq(values, 1, Len(delivered'))
           /\ UNCHANGED <<normalize, meant, result>>

Scanning == Scan /\ UNCHANGED readerVars

(* The token the parser was handed becomes a value; its text is d_token.   *)
ReadLiteral ==
    /\ mode = "idle" /\ Unread /\ peeked = <<>> /\ ~AtEnd
    /\ values' = Append(values, ValueOf(Last(delivered).token, token))
    /\ UNCHANGED <<lexVars, normalize, meant, result>>

(* A parenthesis, whose text nobody needs.                                 *)
ReadParenthesis ==
    /\ mode = "idle" /\ Unread /\ Last(delivered).token \in {"LPAREN", "RPAREN"}
    /\ values' = Append(values, NoLiteral)
    /\ UNCHANGED <<lexVars, normalize, meant, result>>

AllOps == NaryOps \cup {"EVAL_INT_DIV", "EVAL_INT_MOD", "EVAL_RAT_DIV", "EVAL_TO_BIN", "EVAL_FIND",
          "EVAL_GT", "EVAL_EXTRACT", "EVAL_NOT", "EVAL_NEG", "EVAL_IS_NEG", "EVAL_LENGTH",
          "EVAL_TO_INT", "EVAL_TO_RAT", "EVAL_TO_STRING"}

(* An operator is evaluated on the values at hand.                         *)
Apply(k) ==
    /\ text = <<>> /\ values # <<>> /\ result = None
    /\ ArityOk(k, Len(values))
    /\ result' = [op |-> k, value |-> EvaluateLiterals(k, values)]
    /\ UNCHANGED <<lexVars, normalize, meant, values>>

Next == \/ Call
        \/ PutBack
        \/ Scanning
        \/ ReadLiteral
        \/ ReadParenthesis
        \/ \E k \in AllOps : Apply(k)

(* The scanner is a loop that only waits for the stream.                   *)
Spec == ReaderInit /\ [][Next]_vars /\ WF_vars(Scanning)

=============================================================================
