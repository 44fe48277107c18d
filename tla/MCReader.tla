------------------------------ MODULE MCReader ------------------------------
(***************************************************************************)
(* Inputs for the reader: every short text over characters of each class,  *)
(* longer texts, the printed forms of values, and operands.                *)
(***************************************************************************)
EXTENDS ReaderProps

SeqsUpTo(S, n) == UNION {[1 .. k -> S] : k \in 0 .. n}

(* One character of each kind: ( | # " : ; newline blank . 0 a -           *)
Alphabet == {40, Bar, Hash, DoubleQuote, Colon, Semicolon, Newline, 32, Dot, 48, 97, Minus}

(* Keywords of one letter, fractions, escapes, reserved words, incomplete  *)
(* literals, and bytes that are no characters of ASCII.                    *)
LongTexts ==
    { <<97, Colon, 98, 32, Colon, 98, 41, Colon, 98, 99, 41>>,
      <<49, 50, Slash, 48, Minus, 51, Slash, 52>>,
      <<Minus, 51, Slash, 52, 32, Minus, Dot, 53, 32, Minus, Slash, 53>>,
      <<DoubleQuote, 97, DoubleQuote, DoubleQuote, 98, DoubleQuote, 41>>,
      <<DoubleQuote, 92, 117, 123, 52, 49, 125, 92, 117, 48, 48, 54, 49, DoubleQuote>>,
      <<Hash, 98, 49, 48, 50, Hash, 120, 48, 70, 103>>,
      <<Bar, 40, Newline, Bar, Semicolon, Bar, Newline, 97>>,
      Word("par") \o <<32>> \o Word("Type") \o <<41>> \o Word("let"),
      Word("eo::match"), Word("eo::define") \o <<49>>,
      <<Hash, 98, 32>>, <<Hash, 99>>, <<97, 255, 98>>, <<DoubleQuote, 200, DoubleQuote>>,
      <<33, 32, 49, Slash, 97>>, <<Hash, 120, 32>>,
      <<DoubleQuote, 255, DoubleQuote, DoubleQuote, 97>>, <<Bar, 97, 255, 98, Bar>>,
      <<97, 32, 255, 98>>, <<Semicolon, 255, Newline, 97>>, <<Colon, 97, 255, 98>>,
      <<49, Dot, 255>>, <<Hash, 255, 98>>, <<200, 97>> }

MCTexts == SeqsUpTo(Alphabet, 3) \cup [1 .. 4 -> {DoubleQuote, Bar, Colon, Semicolon, Newline, 97}]
           \cup LongTexts

Strings == SeqsUpTo({97, Backslash, 117, DoubleQuote}, 2)
           \cup {<<Backslash, 117, 123, 54, 49, 125>>, <<0, 127>>, <<NumCodes>>}

BitVectors == {BitVector(k, w, n) : k \in BitKinds, w \in {0, 1, 2, 4}, n \in 0 .. 5}
Fractions == {Ratio("RATIONAL", n, d) : n \in {-3, 0, 2}, d \in {1, 4}}

MCPrintables == {StringOf(s) : s \in Strings} \cup BitVectors \cup Fractions
                \cup {Numeral(n) : n \in {-12, 0, 7}} \cup {Ratio("DECIMAL", 1, 2)}
                \cup {Symbol(s) : s \in SeqsUpTo({97, 48, Minus, Colon, Bar, Backslash}, 2)}
                \cup {Symbol(<<97, b>>) : b \in {200, 255}}
                \cup {Symbol(w) : w \in Reserved}

Numerals == {Numeral(n) : n \in -3 .. 4}
SmallStrings == {StringOf(s) : s \in Strings}
Bools == {Bool(b) : b \in BOOLEAN}
AnyValue == Bools \cup Numerals \cup Fractions \cup BitVectors \cup {Ratio("DECIMAL", -1, 2)}
       \cup {StringOf(s) : s \in {<<>>, <<97>>, <<97, 98>>, <<98>>}}

MCOperands == {<<a>> : a \in AnyValue \cup SmallStrings \cup {Numeral(NumCodes), Numeral(20)}}
              \cup (AnyValue \X AnyValue)
              \cup (SmallStrings \X SmallStrings)
              \cup ((BitVectors \cup {StringOf(<<97, 98, 99>>), StringOf(<<>>)})
                        \X {Numeral(n) : n \in -1 .. 4} \X {Numeral(n) : n \in -1 .. 5})
              \cup (Bools \X Bools \X Bools)
              \cup {<<Numeral(20), Numeral(5)>>}


=============================================================================
