--------------------------- MODULE LiteralGrammar ---------------------------
(***************************************************************************)
(* The literal value model of common.rs (enum Literal, struct Float and    *)
(* Double, enum ItemPlaceholder), its canonical rendering (impl Display    *)
(* for Literal) and the literal grammar (float_literal, integer_literal,   *)
(* boolean_literal and the ordered alternation of literal(dialect)).       *)
(*                                                                         *)
(* A real (Float or Double) is kept as a decimal: sign bit neg, magnitude  *)
(* num / 10^scale, and the rendering precision prec.  The values a model   *)
(* generates are dyadic (exact in binary), so the decimal is the exact     *)
(* value of the float; a parsed real keeps the decimal text it came from.  *)
(***************************************************************************)
EXTENDS Integers, Sequences, SqlText, NumericLex, Dialect

CONSTANTS
  PrecCap,            \* write_real caps the precision at 30 digits
  MaxDecimalScale,    \* rust_decimal: largest scale (28)
  DecimalMantissaBits \* rust_decimal: width of the mantissa (96)

ASSUME LiteralAssumption ==
  /\ PrecCap \in Nat
  /\ MaxDecimalScale \in Nat
  /\ DecimalMantissaBits \in Nat \ {0}

(***************************************************************************)
(* Literal values, one record shape per variant.                           *)
(***************************************************************************)
Null == [tag |-> "Null"]
Boolean(b) == [tag |-> "Boolean", b |-> b]
Integer(i) == [tag |-> "Integer", i |-> i]
Real(kind, neg, num, scale, prec) ==
  [tag |-> kind, neg |-> neg, num |-> num, scale |-> scale, prec |-> prec]
Numeric(m, s) == [tag |-> "Numeric", m |-> m, s |-> s]
String(cs) == [tag |-> "String", s |-> cs]
Blob(bs) == [tag |-> "Blob", bytes |-> bs]
CurrentTime == [tag |-> "CurrentTime"]
CurrentDate == [tag |-> "CurrentDate"]
CurrentTimestamp == [tag |-> "CurrentTimestamp"]
ByteArray(bs) == [tag |-> "ByteArray", bytes |-> bs]
Placeholder(kind, n) == [tag |-> "Placeholder", kind |-> kind, n |-> n]
BitVector(bs) == [tag |-> "BitVector", bytes |-> bs]

RealTags == {"Float", "Double"}

(* PartialEq for Float and Double: equal bit patterns and precisions.  Two *)
(* decimals denote the same float iff they have the same sign and value.   *)
LitEq(a, b) ==
  IF a.tag \in RealTags /\ b.tag = a.tag
  THEN /\ a.neg = b.neg /\ a.prec = b.prec
       /\ a.num * 10^b.scale = b.num * 10^a.scale
  ELSE a = b

(* The variants whose text re-parses to an equal value (common.rs test     *)
(* literal_to_string_parse_round_trip), with the exceptions the code has:  *)
(* Blob renders as bare hex, and i64::MIN as a minus sign followed by a    *)
(* magnitude i64::from_str rejects.                                        *)
ExactVariant(d, l) ==
  /\ l.tag \notin RealTags \cup {"Numeric", "ByteArray", "Blob"}
  /\ l.tag = "Integer" => l.i # IntMin
  /\ l.tag = "BitVector" => d = PostgreSQL

(***************************************************************************)
(* Rendering.                                                              *)
(***************************************************************************)
Pad(ds, n) == [i \in 1..(n - Len(ds)) |-> "0"] \o ds

(* m / 10^p in fixed point with exactly p digits after the point.          *)
FixedPoint(neg, m, p) ==
  LET ds == Pad(NatDigits(m), p + 1)
      k == Len(ds) - p
  IN  (IF neg THEN <<"-">> ELSE <<>>)
      \o (IF p = 0 THEN ds ELSE SubSeq(ds, 1, k) \o <<".">> \o Drop(ds, k))

(* The integers m such that m / 10^p is num / 10^scale rounded to p digits *)
(* as format!("{:.*}") rounds it; a tie may go either way.                 *)
Rounded(num, scale, p) ==
  IF p >= scale THEN {num * 10^(p - scale)}
  ELSE LET d == 10^(scale - p)
           q == num \div d
           r == num % d
       IN  IF 2 * r < d THEN {q} ELSE IF 2 * r > d THEN {q + 1} ELSE {q, q + 1}

TrimTrailingZeros(s) ==
  LET k == CHOOSE k \in 0..Len(s) :
             /\ k = 0 \/ s[k] # "0"
             /\ \A j \in (k + 1)..Len(s) : s[j] = "0"
  IN  SubSeq(s, 1, k)

(* write_real!: the texts a Float or Double can render to.                 *)
WriteReal(l) ==
  LET p == IF l.prec < PrecCap THEN l.prec ELSE PrecCap
      Finish(res) ==
        IF Len(res) > 0 /\ res[Len(res)] = "." THEN res \o <<"0">> ELSE res
  IN  {Finish(TrimTrailingZeros(FixedPoint(l.neg, m, p))) :
         m \in Rounded(l.num, l.scale, p)}

Quote == <<"'">>

(* s.replace('\'', "''").replace('\\', "\\\\")                            *)
EscapeString(s) ==
  LET Esc(c) == IF c \in {"'", "\\"} THEN <<c, c>> ELSE <<c>>
      E[k \in 0..Len(s)] == IF k = 0 THEN <<>> ELSE E[k - 1] \o Esc(s[k])
  IN  E[Len(s)]

(* format!("{:x}", v): lowercase hex without padding.                      *)
Hex(v) ==
  IF v < 16 THEN <<HexDigits[v + 1]>>
  ELSE <<HexDigits[(v \div 16) + 1], HexDigits[(v % 16) + 1]>>

(* The hex forms of the bytes, joined with sep.                            *)
JoinHex(bs, sep) ==
  LET J[k \in 0..Len(bs)] ==
        IF k = 0 THEN <<>>
        ELSE IF k = 1 THEN Hex(bs[1]) ELSE J[k - 1] \o sep \o Hex(bs[k])
  IN  J[Len(bs)]

(* BitVec::from_bytes(b).iter(): eight bits per byte, most significant     *)
(* first.                                                                  *)
BitString(bs) ==
  [i \in 1..(8 * Len(bs)) |->
     IF (bs[((i - 1) \div 8) + 1] \div 2^(7 - ((i - 1) % 8))) % 2 = 1
     THEN "1" ELSE "0"]

IntText(i) == IF i < 0 THEN <<"-">> \o NatDigits(-i) ELSE NatDigits(i)

(* ItemPlaceholder::to_string                                              *)
PlaceholderText(ph) ==
  CASE ph.kind = "QuestionMark" -> <<"?">>
    [] ph.kind = "DollarNumber" -> <<"$">> \o NatDigits(ph.n)
    [] ph.kind = "ColonNumber"  -> <<":">> \o NatDigits(ph.n)

(* Decimal::from_i128_with_scale panics outside rust_decimal's range.      *)
RenderPanics(l) ==
  /\ l.tag = "Numeric"
  /\ \/ l.s > MaxDecimalScale
     \/ l.m > 2^DecimalMantissaBits - 1
     \/ l.m < -(2^DecimalMantissaBits - 1)

(* impl Display for Literal: the set of texts l can render to.             *)
Render(l) ==
  CASE l.tag \in RealTags -> WriteReal(l)
    [] l.tag = "Null" -> {Chars("NULL")}
    [] l.tag = "Boolean" -> {IF l.b THEN Chars("TRUE") ELSE Chars("FALSE")}
    [] l.tag = "Integer" -> {IntText(l.i)}
    [] l.tag = "Numeric" -> {FixedPoint(l.m < 0, IF l.m < 0 THEN -l.m ELSE l.m, l.s)}
    [] l.tag = "String" -> {Quote \o EscapeString(l.s) \o Quote}
    [] l.tag = "Blob" -> {JoinHex(l.bytes, <<" ">>)}
    [] l.tag = "CurrentTime" -> {Chars("CURRENT_TIME")}
    [] l.tag = "CurrentDate" -> {Chars("CURRENT_DATE")}
    [] l.tag = "CurrentTimestamp" -> {Chars("CURRENT_TIMESTAMP")}
    [] l.tag = "ByteArray" -> {Chars("E'\\x") \o JoinHex(l.bytes, <<>>) \o Quote}
    [] l.tag = "Placeholder" -> {PlaceholderText(l)}
    [] l.tag = "BitVector" -> {Chars("B'") \o BitString(l.bytes) \o Quote}

(***************************************************************************)
(* The literal grammar.                                                    *)
(***************************************************************************)
(* opt(tag("-")): whether a minus sign leads, and the span after it.       *)
Minus(s) == Len(s) > 0 /\ s[1] = "-"
AfterMinus(s) == IF Minus(s) THEN Tail(s) ELSE s

(* float: tuple((opt(tag("-")), digit1, tag("."), digit1)).  float_literal *)
(* peeks it, then converts the recognised text with f64::from_str, which   *)
(* cannot fail on it; the precision is frac.len() as u8.                   *)
FloatLiteral(s) ==
  LET int == Digit1(AfterMinus(s))
      dot == Tag(<<".">>, int.rest)
      frac == Digit1(dot.rest)
  IN  IF int.ok /\ dot.ok /\ frac.ok
      THEN Ok(Real("Double", Minus(s), DecValue(int.val \o frac.val),
                   Len(frac.val), AsU8(Len(frac.val))),
              frac.rest)
      ELSE Err(s)

(* Mutant: the digits read with u64::from_str and cast `as i64`, which    *)
(* wraps a magnitude past i64::MAX to a negative number.                   *)
IntegerLiteralWrapped(s) ==
  LET ds == Digit1(AfterMinus(s))
      v == FromStrBounded(ds.val, 2 * IntMax + 1)
      n == IF v.val > IntMax THEN v.val - 2^IntBits ELSE v.val
  IN  IF ds.ok /\ v.ok
      THEN Ok(Integer(IF Minus(s) THEN -n ELSE n), ds.rest)
      ELSE Err(s)

(* integer_literal: i64::from_str of the digits, then *= -1 on a minus.    *)
IntegerLiteral(s) ==
  LET ds == Digit1(AfterMinus(s))
      v == FromStrBounded(ds.val, IntMax)
  IN  IF ds.ok /\ v.ok
      THEN Ok(Integer(IF Minus(s) THEN -v.val ELSE v.val), ds.rest)
      ELSE Err(s)

(* map(dialect.string_literal(), String::from_utf8 or Blob)                *)
StringOrBlob(d, s) ==
  LET r == StringLiteral(d, s)
  IN  IF ~r.ok THEN r
      ELSE IF \E i \in DOMAIN r.val : r.val[i] = BadByte
           THEN Ok(Blob([i \in DOMAIN r.val |-> ByteCode(r.val[i])]), r.rest)
           ELSE Ok(String(r.val), r.rest)

(* BitVec::to_bytes: eight bits per byte, the last byte padded with 0s.    *)
BitsToBytes(bits) ==
  [j \in 1..((Len(bits) + 7) \div 8) |->
     LET Bit(i) == IF i <= Len(bits) /\ bits[i] THEN 1 ELSE 0
     IN  128 * Bit(8 * j - 7) + 64 * Bit(8 * j - 6) + 32 * Bit(8 * j - 5)
         + 16 * Bit(8 * j - 4) + 8 * Bit(8 * j - 3) + 4 * Bit(8 * j - 2)
         + 2 * Bit(8 * j - 1) + Bit(8 * j)]

(* map(tag_no_case(kw), |_| v) and map(tag(kw), |_| v)                     *)
Keyword(kw, v, s) ==
  LET r == TagNoCase(Chars(kw), s) IN IF r.ok THEN Ok(v, r.rest) ELSE r
Symbol(sym, v, s) ==
  LET r == Tag(Chars(sym), s) IN IF r.ok THEN Ok(v, r.rest) ELSE r

(* preceded(tag(sigil), u32::from_str of digit1)                           *)
Numbered(sigil, kind, s) ==
  LET t == Tag(<<sigil>>, s)
      ds == Digit1(t.rest)
      v == FromStrBounded(ds.val, U32Max)
  IN  IF t.ok /\ ds.ok /\ v.ok THEN Ok(Placeholder(kind, v.val), ds.rest)
      ELSE Err(s)

BooleanLiteral(s) ==
  LET t == Keyword("true", Boolean(TRUE), s)
  IN  IF t.ok THEN t ELSE Keyword("false", Boolean(FALSE), s)

(* map(dialect.bytes_literal(), Literal::ByteArray)                        *)
ByteArrayLiteral(d, s) ==
  LET r == BytesLiteral(d, s)
  IN  IF r.ok THEN Ok(ByteArray(r.val), r.rest) ELSE r

(* map(dialect.bitvec_literal(), |bits| Literal::BitVector(bits.to_bytes()))*)
BitVectorLiteral(d, s) ==
  LET r == BitvecLiteral(d, s)
  IN  IF r.ok THEN Ok(BitVector(BitsToBytes(r.val)), r.rest) ELSE r

(* Mutant: current_time tried before current_timestamp.                  *)
ParseLiteralTimeFirst(d, s) ==
      FloatLiteral(s)
  (+) IntegerLiteral(s)
  (+) StringOrBlob(d, s)
  (+) ByteArrayLiteral(d, s)
  (+) BitVectorLiteral(d, s)
  (+) Keyword("null", Null, s)
  (+) Keyword("current_time", CurrentTime, s)
  (+) Keyword("current_timestamp", CurrentTimestamp, s)
  (+) Keyword("current_date", CurrentDate, s)
  (+) Symbol("?", Placeholder("QuestionMark", 0), s)
  (+) Numbered(":", "ColonNumber", s)
  (+) Numbered("$", "DollarNumber", s)
  (+) BooleanLiteral(s)

(* Mutant: integer_literal tried before float_literal.                   *)
ParseLiteralIntegerFirst(d, s) ==
      IntegerLiteral(s)
  (+) FloatLiteral(s)
  (+) StringOrBlob(d, s)
  (+) ByteArrayLiteral(d, s)
  (+) BitVectorLiteral(d, s)
  (+) Keyword("null", Null, s)
  (+) Keyword("current_timestamp", CurrentTimestamp, s)
  (+) Keyword("current_date", CurrentDate, s)
  (+) Keyword("current_time", CurrentTime, s)
  (+) Symbol("?", Placeholder("QuestionMark", 0), s)
  (+) Numbered(":", "ColonNumber", s)
  (+) Numbered("$", "DollarNumber", s)
  (+) BooleanLiteral(s)

(* literal(dialect): the alternatives in the order of the code.            *)
ParseLiteral(d, s) ==
      FloatLiteral(s)
  (+) IntegerLiteral(s)
  (+) StringOrBlob(d, s)
  (+) ByteArrayLiteral(d, s)
  (+) BitVectorLiteral(d, s)
  (+) Keyword("null", Null, s)
  (+) Keyword("current_timestamp", CurrentTimestamp, s)
  (+) Keyword("current_date", CurrentDate, s)
  (+) Keyword("current_time", CurrentTime, s)
  (+) Symbol("?", Placeholder("QuestionMark", 0), s)
  (+) Numbered(":", "ColonNumber", s)
  (+) Numbered("$", "DollarNumber", s)
  (+) BooleanLiteral(s)

(***************************************************************************)
(* What a number that literal() returns says about the text it read.      *)
(***************************************************************************)
(* A run of decimal digits, such as digit1 returns.                        *)
IsDigitRun(ds) == ds # <<>> /\ \A i \in DOMAIN ds : ds[i] \in Digits

(* The sign a prefix starts with, the rest of it, and a signed magnitude.  *)
Negative(p) == p # <<>> /\ p[1] = "-"
AfterSign(p) == IF Negative(p) THEN Tail(p) ELSE p
Signed(neg, n) == IF neg THEN -n ELSE n

(* The values literal() reads from digits: integers, reals, :N and $N.     *)
IsNumber(v) ==
  \/ v.tag \in RealTags \cup {"Integer"}
  \/ v.tag = "Placeholder" /\ v.kind # "QuestionMark"

(* The number v is what the consumed prefix p says, read in base ten with  *)
(* no bound taken off: an integer its signed digits, a real the digits on  *)
(* both sides of its point (as a mantissa and a scale), a placeholder the  *)
(* digits after its sigil.  The precision, a u8 cast, is left out.         *)
SpellsNumber(v, p) ==
  CASE v.tag = "Integer" ->
         /\ IsDigitRun(AfterSign(p))
         /\ v.i = Signed(Negative(p), DecValue(AfterSign(p)))
    [] v.tag \in RealTags ->
         LET u == AfterSign(p) IN
         \E j \in DOMAIN u :
           LET int == SubSeq(u, 1, j - 1)
               frac == Drop(u, j)
           IN  /\ u[j] = "."
               /\ IsDigitRun(int)
               /\ IsDigitRun(frac)
               /\ v.neg = Negative(p)
               /\ v.num = DecValue(int \o frac)
               /\ v.scale = Len(frac)
    [] OTHER ->
         /\ p # <<>>
         /\ p[1] = IF v.kind = "ColonNumber" THEN ":" ELSE "$"
         /\ IsDigitRun(Tail(p))
         /\ v.n = DecValue(Tail(p))

(* A parse result r of s that is a number spells it with a prefix of s.    *)
ReadsNumber(r, s) ==
  r.ok /\ IsNumber(r.val)
    => \E k \in 0..Len(s) : r.rest = Drop(s, k) /\ SpellsNumber(r.val, SubSeq(s, 1, k))

=============================================================================
