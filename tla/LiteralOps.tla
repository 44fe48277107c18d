------------------------------ MODULE LiteralOps ------------------------------
(***************************************************************************)
(* The operators of Literal::evaluate, one definition per case or group of *)
(* cases, their arities (checkArity) and their types (getLiteralOpType).   *)
(***************************************************************************)
EXTENDS Literals

AllSameKind(args) ==
    IF \A i \in DOMAIN args : args[i].kind = args[1].kind THEN args[1].kind ELSE "NONE"

AllSameBitWidth(args) == \A i \in DOMAIN args : args[i].aux = args[1].aux

NaryOps == {"EVAL_AND", "EVAL_OR", "EVAL_XOR", "EVAL_ADD", "EVAL_MUL", "EVAL_CONCAT"}

SymmetricDifference(S, T) == (S \ T) \cup (T \ S)

(* One iteration of the loop over the arguments, by their kind.            *)
BoolStep(k, a, b) ==
    CASE k = "EVAL_AND" -> Bool(a.int = 1 /\ b.int = 1)
      [] k = "EVAL_OR" -> Bool(a.int = 1 \/ b.int = 1)
      [] k = "EVAL_XOR" -> Bool(a.int # b.int)
      [] OTHER -> NoLiteral

IntegerStep(k, a, b) ==
    CASE k = "EVAL_ADD" -> Numeral(a.int + b.int)
      [] k = "EVAL_MUL" -> Numeral(a.int * b.int)
      [] OTHER -> NoLiteral

RationalStep(k, a, b) ==
    CASE k = "EVAL_ADD" -> Ratio(a.kind, a.int * b.aux + b.int * a.aux, a.aux * b.aux)
      [] k = "EVAL_MUL" -> Ratio(a.kind, a.int * b.int, a.aux * b.aux)
      [] OTHER -> NoLiteral

BitStep(k, a, b) ==
    CASE k = "EVAL_AND" -> OfBits(a.kind, a.aux, BitsOf(a) \cap BitsOf(b))
      [] k = "EVAL_OR" -> OfBits(a.kind, a.aux, BitsOf(a) \cup BitsOf(b))
      [] k = "EVAL_XOR" -> OfBits(a.kind, a.aux, SymmetricDifference(BitsOf(a), BitsOf(b)))
      [] k = "EVAL_ADD" -> BitVector(a.kind, a.aux, a.int + b.int)
      [] k = "EVAL_MUL" -> BitVector(a.kind, a.aux, a.int * b.int)
      [] k = "EVAL_CONCAT" -> Concat(a, b)

StringStep(k, a, b) == IF k = "EVAL_CONCAT" THEN StringOf(a.str \o b.str) ELSE NoLiteral

Step(k, a, b) ==
    CASE a.kind = "BOOLEAN" -> BoolStep(k, a, b)
      [] a.kind = "NUMERAL" -> IntegerStep(k, a, b)
      [] a.kind \in Rationals -> RationalStep(k, a, b)
      [] a.kind \in BitKinds -> BitStep(k, a, b)
      [] a.kind = "STRING" -> StringStep(k, a, b)
      [] OTHER -> NoLiteral

(* The loop over the arguments after the first.                            *)
Accumulated(k, first, rest) == FoldLeft(LAMBDA a, b : Step(k, a, b), first, rest)

(* Bit-vectors must have one width, except to be concatenated.             *)
Nary(k, args) ==
    IF args[1].kind \in BitKinds /\ k # "EVAL_CONCAT" /\ ~AllSameBitWidth(args)
    THEN NoLiteral
    ELSE Accumulated(k, args[1], Tail(args))

Not(a) == CASE a.kind = "BOOLEAN" -> Bool(a.int = 0)
            [] a.kind \in BitKinds -> BitVector(a.kind, a.aux, -a.int - 1)
            [] OTHER -> NoLiteral

Neg(a) == CASE a.kind = "NUMERAL" -> Numeral(-a.int)
            [] a.kind \in Rationals -> Ratio(a.kind, -a.int, a.aux)
            [] a.kind \in BitKinds -> Negate(a)
            [] OTHER -> NoLiteral

(* EVAL_INT_DIV and EVAL_INT_MOD                                           *)
IntDivMod(k, a, b) ==
    LET isDiv == k = "EVAL_INT_DIV"
    IN  CASE a.kind = "NUMERAL" /\ b.int # 0 ->
                 Numeral(Euclidean(a.int, b.int)[IF isDiv THEN 1 ELSE 2])
          [] a.kind \in BitKinds /\ a.aux = b.aux ->
                 IF isDiv THEN UnsignedDiv(a, b) ELSE UnsignedRem(a, b)
          [] OTHER -> NoLiteral

RatDiv(a, b) ==
    CASE a.kind = "NUMERAL" /\ b.int # 0 -> Ratio("RATIONAL", a.int, b.int)
      [] a.kind \in Rationals /\ b.int # 0 -> Ratio("RATIONAL", a.int * b.aux, a.aux * b.int)
      [] OTHER -> NoLiteral

IsNeg(a) == IF a.kind = "NUMERAL" \/ a.kind \in Rationals THEN Bool(a.int < 0) ELSE NoLiteral

Length(a) == CASE a.kind = "BINARY" -> Numeral(a.aux)
               [] a.kind = "STRING" -> Numeral(Len(a.str))
               [] OTHER -> NoLiteral

(* Faulty: the upper index of a string is clamped as that of a bit-vector. *)
ExtractOneBeyond(args) ==
    LET a == args[1]
        size == IF a.kind = "STRING" THEN Len(a.str) ELSE a.aux
        i1 == args[2].int
        i2 == IF args[3].int > size THEN size - 1 ELSE args[3].int
        empty == i1 < 0 \/ args[3].int < 0 \/ i1 > size \/ size = 0 \/ i1 > i2
    IN  IF Len(args) < 3 THEN UndefinedLiteral
        ELSE IF args[2].kind # "NUMERAL" \/ args[3].kind # "NUMERAL" THEN NoLiteral
        ELSE CASE a.kind \in BitKinds -> IF empty THEN BitVector(a.kind, 0, 0) ELSE Extract(a, i2, i1)
               [] a.kind = "STRING" -> StringOf(IF empty THEN <<>> ELSE [j \in 1 .. i2 + 1 - i1 |-> a.str[IF i1 + j > size THEN size ELSE i1 + j]])
               [] OTHER -> NoLiteral

(* EVAL_EXTRACT.  The third argument is read without regard to how many    *)
(* there are, though checkArity accepts two.  An upper index beyond the    *)
(* last position is clamped; at the width itself only that of a string is. *)
ExtractRange(args) ==
    LET a == args[1]
        size == IF a.kind = "STRING" THEN Len(a.str) ELSE a.aux
        beyond == IF a.kind = "STRING" THEN args[3].int >= size ELSE args[3].int > size
        i1 == args[2].int
        i2 == IF beyond THEN size - 1 ELSE args[3].int
        empty == i1 < 0 \/ args[3].int < 0 \/ i1 > size \/ size = 0 \/ i1 > i2
    IN  IF Len(args) < 3 THEN UndefinedLiteral
        ELSE IF args[2].kind # "NUMERAL" \/ args[3].kind # "NUMERAL" THEN NoLiteral
        ELSE CASE a.kind \in BitKinds -> IF empty THEN BitVector(a.kind, 0, 0) ELSE Extract(a, i2, i1)
               [] a.kind = "STRING" -> StringOf(IF empty THEN <<>> ELSE SubSeq(a.str, i1 + 1, i2 + 1))
               [] OTHER -> NoLiteral

ToInt(a) == CASE a.kind \in Rationals -> Numeral(a.int \div a.aux)
              [] a.kind = "NUMERAL" -> a
              [] a.kind = "BINARY" -> Numeral(a.int)
              [] a.kind = "STRING" /\ Len(a.str) = 1 -> Numeral(a.str[1])
              [] OTHER -> NoLiteral

(* Faulty: a decimal stays what it is.                                     *)
ToRatAsIs(a) == CASE a.kind \in Rationals -> a
                  [] a.kind = "NUMERAL" -> Ratio("RATIONAL", a.int, 1)
                  [] OTHER -> NoLiteral

ToRat(a) == CASE a.kind \in Rationals -> Ratio("RATIONAL", a.int, a.aux)
              [] a.kind = "NUMERAL" -> Ratio("RATIONAL", a.int, 1)
              [] OTHER -> NoLiteral

ToBin(a, b) == IF /\ a.kind = "NUMERAL" /\ FitsUnsigned(a.int)
                  /\ b.kind \in BitKinds \cup {"NUMERAL"}
               THEN BitVector("BINARY", a.int, b.int)
               ELSE NoLiteral

(* A numeral that is no code point falls through to the case of rationals. *)
ToStr(a) == IF a.kind = "NUMERAL" /\ a.int \in 0 .. NumCodes - 1 THEN StringOf(<<a.int>>)
            ELSE CASE a.kind \in Rationals \cup {"NUMERAL"} -> StringOf(Printed(a))
              [] a.kind = "HEXADECIMAL" -> StringOf(<<35, 120>> \o Printed(a))
              [] a.kind = "BINARY" -> StringOf(<<35, 98>> \o Printed(a))
              [] a.kind = "STRING" -> a
              [] OTHER -> NoLiteral

Gt(a, b) == CASE a.kind \in BitKinds \cup {"NUMERAL"} -> Bool(a.int > b.int)
              [] a.kind \in Rationals -> Bool(a.int * b.aux > b.int * a.aux)
              [] OTHER -> NoLiteral

(* String::find from position 0, std::search for a string that is not empty*)
Find(a, b) == IF a.kind # "STRING" THEN NoLiteral
              ELSE LET at == OccursAt(a.str, b.str)
                   IN  Numeral(IF at = {} THEN -1 ELSE Min(at))

(* Literal::evaluate                                                       *)
Evaluate(k, args) ==
    LET a == args[1]
        b == args[2]
    IN  IF k = "EVAL_EXTRACT" THEN ExtractRange(args)
        ELSE IF k = "EVAL_TO_BIN" THEN ToBin(a, b)
        ELSE IF AllSameKind(args) = "NONE" THEN NoLiteral
        ELSE CASE k \in NaryOps -> Nary(k, args)
          [] k = "EVAL_NOT" -> Not(a)
          [] k = "EVAL_NEG" -> Neg(a)
          [] k \in {"EVAL_INT_DIV", "EVAL_INT_MOD"} -> IntDivMod(k, a, b)
          [] k = "EVAL_RAT_DIV" -> RatDiv(a, b)
          [] k = "EVAL_IS_NEG" -> IsNeg(a)
          [] k = "EVAL_LENGTH" -> Length(a)
          [] k = "EVAL_TO_INT" -> ToInt(a)
          [] k = "EVAL_TO_RAT" -> ToRat(a)
          [] k = "EVAL_TO_STRING" -> ToStr(a)
          [] k = "EVAL_GT" -> Gt(a, b)
          [] k = "EVAL_FIND" -> Find(a, b)
          [] OTHER -> NoLiteral

-----------------------------------------------------------------------------
(* What the type checker says of the operators *)

(* checkArity                                                              *)
ArityOk(k, n) ==
    CASE k \in {"EVAL_INT_DIV", "EVAL_INT_MOD", "EVAL_RAT_DIV", "EVAL_TO_BIN", "EVAL_FIND",
                "EVAL_GT"} -> n = 2
      [] k \in NaryOps -> n >= 2
      [] k = "EVAL_EXTRACT" -> n \in {2, 3}
      [] OTHER -> n = 1

(* getLiteralOpType, for literals as children: the kind whose type rule is *)
(* the type of the application, or NONE if it has no type.                 *)
OpType(k, args) ==
    CASE k \in NaryOps \cup {"EVAL_NEG", "EVAL_NOT", "EVAL_EXTRACT"} -> args[1].kind
      [] k = "EVAL_IS_NEG" -> "BOOLEAN"
      [] k \in {"EVAL_INT_DIV", "EVAL_INT_MOD", "EVAL_TO_INT", "EVAL_LENGTH", "EVAL_FIND"} ->
             "NUMERAL"
      [] k \in {"EVAL_RAT_DIV", "EVAL_TO_RAT"} -> "RATIONAL"
      [] k = "EVAL_TO_STRING" -> "STRING"
      [] k = "EVAL_TO_BIN" -> "BINARY"
      [] OTHER -> "NONE"

(* The part of evaluateLiteralOpInternal that is about values: what the    *)
(* application of a literal operator to literals becomes.  NoLiteral is    *)
(* d_null, for which evaluateLiteralOp keeps the application as it is.     *)
EvaluateLiterals(k, args) == IF ArityOk(k, Len(args)) THEN Evaluate(k, args) ELSE NoLiteral

=============================================================================
