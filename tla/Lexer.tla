-------------------------------- MODULE Lexer --------------------------------
(***************************************************************************)
(* The lexer (src/lexer.cpp, src/lexer.h) reading one input, and the calls *)
(* that parsers make of it.  A step of the scanner consumes one character. *)
(*                                                                         *)
(* A character is its code; a buffered char is signed, so that the byte    *)
(* 255 is taken for EOF.  A client asks for the next token, peeks at it or *)
(* takes back the last one it got: ExprParser and CmdParser only ever put  *)
(* back what they were handed last.                                        *)
(***************************************************************************)
EXTENDS Integers, Sequences, FiniteSets, SequencesExt, FiniteSetsExt

CONSTANTS
    ColumnMax,      \* the greatest uint32_t, the type of lines and columns
    BufferSize,     \* INPUT_BUFFER_SIZE
    LexLet,         \* d_lexLet
    MaxPeeked       \* bound of the model: tokens put back at one time

ASSUME LexerAssumption == /\ ColumnMax \in Nat \ {0}
                          /\ BufferSize \in Nat \ {0}
                          /\ LexLet \in BOOLEAN
                          /\ MaxPeeked \in Nat

VARIABLES
    text,           \* the bytes of the stream
    interactive,    \* d_isInteractive
    given,          \* how many bytes the stream has given
    buffer,         \* d_buffer from d_bufferPos to d_bufferEnd
    saved,          \* d_chPeeked, if d_peekedChar
    token,          \* d_token
    span,           \* d_span
    mode,           \* where computeNextToken is, "idle" outside of it
    asked,          \* the call that waits for the token: "next" or "peek"
    peeked,         \* d_peeked
    delivered,      \* history: the tokens the client holds
    produced        \* history: the tokens made, where each began and ended

streamVars == <<text, interactive>>
charVars == <<given, buffer, saved>>
tokenVars == <<peeked, delivered, produced>>
lexVars == <<text, interactive, given, buffer, saved, token, span, mode, asked, peeked,
             delivered, produced>>

EOF == -1

-----------------------------------------------------------------------------
(* Characters and their classes.  A character is named by its code. *)

Newline == 10
Semicolon == 59
Bar == 124
Colon == 58
DoubleQuote == 34
Hash == 35
Slash == 47
Dot == 46
Minus == 45

Letters == (65 .. 90) \cup (97 .. 122)
DecimalDigits == 48 .. 57

(* "+-/*=%?!.$_~&^<>@"                                                     *)
ExtraSymbolChars == {43, 45, 47, 42, 61, 37, 63, 33, 46, 36, 95, 126, 38, 94, 60, 62, 64}

Whitespace == {32, 9, 13, Newline}
HexDigits == DecimalDigits \cup (65 .. 70) \cup (97 .. 102)
Bits == {48, 49}
SymbolStart == Letters \cup ExtraSymbolChars
SymbolChars == SymbolStart \cup DecimalDigits \cup {Colon}

(* isCharacterClass looks up the unsigned byte; EOF is that of 255.        *)
InClass(ch, class) == ch % 256 \in class

Word(w) == CASE w = "eo::match" -> <<101, 111, 58, 58, 109, 97, 116, 99, 104>>
             [] w = "eo::define" -> <<101, 111, 58, 58, 100, 101, 102, 105, 110, 101>>
             [] w = "par" -> <<112, 97, 114>>
             [] w = "let" -> <<108, 101, 116>>
             [] w = "Bool" -> <<66, 111, 111, 108>>
             [] w = "Type" -> <<84, 121, 112, 101>>

(* tokenizeCurrentSymbol                                                   *)
SymbolToken(s) ==
    LET others == {i \in 2 .. Len(s) : s[i] \notin DecimalDigits}
    IN  CASE s[1] = Minus /\ Len(s) >= 2 ->
                 CASE others = {} -> "INTEGER_LITERAL"
                   [] \E i \in 2 .. Len(s) - 1 : others = {i} /\ s[i] = Dot -> "DECIMAL_LITERAL"
                   [] \E i \in 2 .. Len(s) - 1 : others = {i} /\ s[i] = Slash -> "RATIONAL_LITERAL"
                   [] OTHER -> "SYMBOL"
          [] s = <<33>> -> "ATTRIBUTE"
          [] s = Word("eo::match") -> "EVAL_MATCH"
          [] s = Word("eo::define") -> "EVAL_DEFINE"
          [] s = Word("par") -> "PAR"
          [] LexLet /\ s = Word("let") -> "LET"
          [] s = Word("Bool") -> "BOOL_TYPE"
          [] s = Word("Type") -> "TYPE"
          [] OTHER -> "SYMBOL"

-----------------------------------------------------------------------------
(* Reading characters *)

Signed(byte) == IF byte > 127 THEN byte - 256 ELSE byte

Reading(ch, taken, rest) == [ch |-> ch, given |-> given + taken, buffer |-> rest]

(* Faulty: the first character of a block is not read.                     *)
ReadNextCharSkipping ==
    LET block == SubSeq(text, given + 1, Min({given + BufferSize, Len(text)}))
    IN  IF buffer # <<>> THEN Reading(Signed(Head(buffer)), 0, Tail(buffer))
        ELSE IF interactive /\ given < Len(text) THEN Reading(text[given + 1], 1, <<>>)
        ELSE IF interactive \/ Len(block) < 2 THEN Reading(EOF, Len(block), <<>>)
        ELSE Reading(Signed(block[2]), Len(block), Tail(Tail(block)))

(* readNextChar: from the buffer, from the stream by character, or from    *)
(* the next block of the stream.                                           *)
ReadNextChar ==
    LET block == SubSeq(text, given + 1, Min({given + BufferSize, Len(text)}))
    IN  IF buffer # <<>> THEN Reading(Signed(Head(buffer)), 0, Tail(buffer))
        ELSE IF interactive /\ given < Len(text) THEN Reading(text[given + 1], 1, <<>>)
        ELSE IF interactive \/ block = <<>> THEN Reading(EOF, 0, <<>>)
        ELSE Reading(Signed(Head(block)), Len(block), Tail(block))

Location(line, column) == [line |-> line, column |-> column]

(* Faulty: a saved character is counted once more.                         *)
AdvanceAlways(end, r) == IF r.ch = Newline THEN Location((end.line + 1) % (ColumnMax + 1), 0)
                         ELSE Location(end.line, (end.column + 1) % (ColumnMax + 1))

(* How reading a character moves the end of the span.                      *)
Advance(end, r) == IF saved # <<>> THEN end
                   ELSE IF r.ch = Newline THEN Location((end.line + 1) % (ColumnMax + 1), 0)
                   ELSE Location(end.line, (end.column + 1) % (ColumnMax + 1))

(* nextChar                                                                *)
NextChar == IF saved # <<>> THEN Reading(saved[1], 0, buffer) ELSE ReadNextChar

(* The character r was read; saveChar keeps it for the next reading.       *)
Take(r) == given' = r.given /\ buffer' = r.buffer /\ saved' = <<>>
Save(r) == given' = r.given /\ buffer' = r.buffer /\ saved' = <<r.ch>>

(* How many characters before the one just read.                           *)
Position(r) == r.given - Len(r.buffer) - (IF r.ch = EOF THEN 0 ELSE 1)

-----------------------------------------------------------------------------
(* The scanner *)

Init ==
    /\ given = 0
    /\ buffer = <<>>
    /\ saved = <<>>
    /\ token = <<>>
    /\ span = [start |-> Location(1, 0), end |-> Location(1, 0), first |-> 0]
    /\ mode = "idle"
    /\ asked = "next"
    /\ peeked = <<>>
    /\ delivered = <<>>
    /\ produced = <<>>

(* The scanner goes on, having moved the end of the span.                  *)
Go(r, next) == /\ mode' = next
               /\ span' = [span EXCEPT !.end = Advance(@, r)]
               /\ UNCHANGED <<asked, peeked, delivered, produced>>

Push(r, next) == Take(r) /\ token' = Append(token, r.ch % 256) /\ Go(r, next)

(* computeNextToken returns: the token goes to the caller of nextToken, or *)
(* to the stack of peeked tokens.                                          *)
Return(r, tok, s) ==
    LET made == [token |-> tok, str |-> s, start |-> span'.start, first |-> span'.first]
    IN  /\ mode' = "idle"
        /\ token' = s
        /\ produced' = Append(produced, made)
        /\ IF asked = "peek" THEN peeked' = Append(peeked, made) /\ UNCHANGED delivered
                             ELSE delivered' = Append(delivered, made) /\ UNCHANGED peeked
        /\ UNCHANGED asked

Finish(r, tok, s) == /\ span' = [span EXCEPT !.end = Advance(@, r)]
                     /\ Return(r, tok, s)

(* parseError ends the program.                                            *)
ParseError(r) == Take(r) /\ mode' = "error" /\ UNCHANGED <<token, span, asked, tokenVars>>

(* Faulty: a comment does not end with the input.                          *)
CommentAtEnd(r) == Take(r) /\ UNCHANGED token /\ Go(r, "comment")

(* A comment reaches the end of the input.                                 *)
CommentEnds(r) == Take(r) /\ Finish(r, "EOF_TOK", <<>>)

(* Whitespace and comments.                                                *)
SkipBlank ==
    /\ mode = "skip"
    /\ LET r == NextChar
       IN  /\ InClass(r.ch, Whitespace) \/ r.ch = Semicolon
           /\ Take(r) /\ UNCHANGED token
           /\ Go(r, IF r.ch = Semicolon THEN "comment" ELSE "skip")

SkipComment ==
    /\ mode = "comment"
    /\ LET r == NextChar
       IN  IF r.ch = EOF THEN CommentEnds(r)
           ELSE Take(r) /\ UNCHANGED token /\ Go(r, IF r.ch = Newline THEN "skip" ELSE "comment")

EndOfInput ==
    /\ mode = "skip"
    /\ LET r == NextChar IN r.ch = EOF /\ Take(r) /\ Finish(r, "EOF_TOK", <<>>)

ModeAfter(ch) == CASE ch = Bar -> "quoted"
                   [] ch = Hash -> "hash"
                   [] ch = DoubleQuote -> "string"
                   [] ch = Colon -> "keyword"
                   [] InClass(ch, DecimalDigits) -> "number"
                   [] InClass(ch, SymbolStart) -> "symbol"
                   [] OTHER -> "error"

(* The first character of a token: bumpSpan sets the location.             *)
FirstChar ==
    /\ mode = "skip"
    /\ LET r == NextChar
           end == Advance(span.end, r)
       IN  /\ r.ch # EOF /\ r.ch # Semicolon /\ ~InClass(r.ch, Whitespace)
           /\ Take(r)
           /\ span' = [start |-> end, end |-> end, first |-> Position(r)]
           /\ CASE r.ch = 40 -> Return(r, "LPAREN", <<r.ch>>)
                [] r.ch = 41 -> Return(r, "RPAREN", <<r.ch>>)
                [] OTHER -> /\ mode' = ModeAfter(r.ch)
                            /\ token' = <<r.ch % 256>>
                            /\ UNCHANGED <<asked, tokenVars>>

QuotedChar ==
    /\ mode = "quoted"
    /\ LET r == NextChar
       IN  CASE r.ch = EOF -> Take(r) /\ Finish(r, "UNTERMINATED_QUOTED_SYMBOL", token)
             [] r.ch = Bar -> Take(r) /\ Finish(r, "QUOTED_SYMBOL", Append(token, Bar))
             [] OTHER -> Push(r, "quoted")

HashChar ==
    /\ mode = "hash"
    /\ LET r == NextChar
       IN  CASE r.ch = 98 -> Push(r, "binary")
             [] r.ch = 120 -> Push(r, "hexadecimal")
             [] OTHER -> ParseError(r)

StringChar ==
    /\ mode = "string"
    /\ LET r == NextChar
       IN  CASE r.ch = EOF -> Take(r) /\ Finish(r, "UNTERMINATED_STRING_LITERAL", token)
             [] r.ch = DoubleQuote -> Push(r, "stringQuote")
             [] OTHER -> Push(r, "string")

(* After a quote: another one is an escaped quote.                         *)
AfterQuote ==
    /\ mode = "stringQuote"
    /\ LET r == NextChar
       IN  IF r.ch = DoubleQuote THEN Push(r, "string")
           ELSE Save(r) /\ Finish(r, "STRING_LITERAL", token)

KeywordChar ==
    /\ mode = "keyword"
    /\ LET r == NextChar
       IN  IF InClass(r.ch, SymbolStart) THEN Push(r, "keywordSecond") ELSE ParseError(r)

(* The result of parseNonEmptyCharList is not looked at: a character that  *)
(* is not part of the keyword is neither used nor saved.                   *)
KeywordSecond ==
    /\ mode = "keywordSecond"
    /\ LET r == NextChar
       IN  IF InClass(r.ch, SymbolChars) THEN Push(r, "keywordRest")
           ELSE Take(r) /\ Finish(r, "KEYWORD", token)

ClassOf(m) == CASE m = "binary" -> Bits
                [] m = "hexadecimal" -> HexDigits
                [] m = "keywordRest" -> SymbolChars
                [] m = "symbol" -> SymbolChars
                [] m \in {"number", "decimal", "rational"} -> DecimalDigits

TokenOf(m, s) == CASE m = "binary" -> "BINARY_LITERAL"
                   [] m = "hexadecimal" -> "HEX_LITERAL"
                   [] m = "keywordRest" -> "KEYWORD"
                   [] m = "symbol" -> SymbolToken(s)
                   [] m = "decimal" -> "DECIMAL_LITERAL"
                   [] m = "rational" -> "RATIONAL_LITERAL"

(* parseCharList; digits may go on with a dot or a slash.                  *)
ListChar ==
    /\ mode \in {"binary", "hexadecimal", "keywordRest", "symbol", "number", "decimal", "rational"}
    /\ LET r == NextChar
       IN  IF InClass(r.ch, ClassOf(mode)) THEN Push(r, mode)
           ELSE IF mode = "number" THEN Save(r) /\ UNCHANGED token /\ Go(r, "numberEnd")
           ELSE Save(r) /\ Finish(r, TokenOf(mode, token), token)

NumberEnd ==
    /\ mode = "numberEnd"
    /\ LET r == NextChar
       IN  CASE r.ch = Dot -> Push(r, "decimalFirst")
             [] r.ch = Slash -> Push(r, "rationalFirst")
             [] OTHER -> Save(r) /\ Finish(r, "INTEGER_LITERAL", token)

FractionFirst ==
    /\ mode \in {"decimalFirst", "rationalFirst"}
    /\ LET r == NextChar
       IN  IF InClass(r.ch, DecimalDigits)
           THEN Push(r, IF mode = "decimalFirst" THEN "decimal" ELSE "rational")
           ELSE ParseError(r)

Scan == /\ \/ SkipBlank \/ SkipComment \/ EndOfInput \/ FirstChar \/ QuotedChar \/ HashChar
           \/ StringChar \/ AfterQuote \/ KeywordChar \/ KeywordSecond \/ ListChar
           \/ NumberEnd \/ FractionFirst
        /\ UNCHANGED streamVars

-----------------------------------------------------------------------------
(* Calls *)

(* nextTokenInternal begins: bumpSpan                                      *)
Begin(call) == /\ mode' = "skip"
               /\ asked' = call
               /\ token' = <<>>
               /\ span' = [span EXCEPT !.start = span.end]
               /\ UNCHANGED <<streamVars, charVars, tokenVars>>

(* Faulty: the oldest of the peeked tokens is returned.                    *)
TakePeekedFirst == /\ delivered' = Append(delivered, Head(peeked))
                   /\ peeked' = Tail(peeked)
                   /\ UNCHANGED <<streamVars, charVars, token, span, mode, asked, produced>>

(* nextToken returns the token put back last.                              *)
TakePeeked == /\ delivered' = Append(delivered, Last(peeked))
              /\ peeked' = Front(peeked)
              /\ UNCHANGED <<streamVars, charVars, token, span, mode, asked, produced>>

AtEnd == delivered # <<>> /\ Last(delivered).token = "EOF_TOK"

NextToken == /\ mode = "idle" /\ ~AtEnd
             /\ IF peeked = <<>> THEN Begin("next") ELSE TakePeeked

(* peekToken, which asserts that nothing is peeked.                        *)
PeekToken == mode = "idle" /\ ~AtEnd /\ peeked = <<>> /\ Begin("peek")

ReinsertToken ==
    /\ mode = "idle" /\ delivered # <<>> /\ ~AtEnd /\ Len(peeked) < MaxPeeked
    /\ peeked' = Append(peeked, Last(delivered))
    /\ delivered' = Front(delivered)
    /\ UNCHANGED <<streamVars, charVars, token, span, mode, asked, produced>>

Calls == NextToken \/ PeekToken \/ ReinsertToken

=============================================================================
