------------------------- MODULE TypeSessionProofs -------------------------
(***************************************************************************)
(* ArgsAsWritten for every width of u8 and u16 and every set of type      *)
(* texts: a length, precision or scale of a type that type_identifier or  *)
(* SqlType::from_str returns is the value of a run of digits of the text. *)
(* The argument follows the grammar.  Every parser reads a prefix of its  *)
(* span and hands the rest, a suffix, to the next one; digit1 reads a run *)
(* of digits that ends where the digits end; digit_as_u16 and digit_as_u8 *)
(* return the value of that run or fail; a number written in a suffix is  *)
(* written in the span; every branch of both halves builds its arguments  *)
(* from such numbers or from decimal_or_numeric's defaults; and nom's alt *)
(* returns the result of one of its branches.                              *)
(***************************************************************************)
EXTENDS TypeSession, LiteralGrammarProofs

(* t is a suffix of s: what is left of s after a parser read a prefix.    *)
IsSuffix(t, s) == \E k \in 0..Len(s) : t = Drop(s, k)

(* A type parser's result whose arguments are written in its span.         *)
TypeReads(r, s) == r.ok => ArgsWritten(r.val, s)

(* A parser result: ok is a Boolean.                                       *)
IsResult(r) == r.ok \in BOOLEAN

LEMMA SuffixRefl ==
  ASSUME NEW X, NEW s \in Seq(X) PROVE IsSuffix(s, s)
<1>1. Drop(s, 0) = s
  BY DEF Drop
<1> QED
  BY <1>1 DEF IsSuffix

LEMMA SuffixSeq ==
  ASSUME NEW X, NEW s \in Seq(X), NEW t, IsSuffix(t, s)
  PROVE  t \in Seq(X)
BY DropType DEF IsSuffix

LEMMA SuffixTrans ==
  ASSUME NEW X, NEW s \in Seq(X), NEW t, NEW w, IsSuffix(t, s), IsSuffix(w, t)
  PROVE  IsSuffix(w, s)
<1>1. PICK j \in 0..Len(s) : t = Drop(s, j)
  BY DEF IsSuffix
<1>2. Len(t) = Len(s) - j
  BY <1>1, DropType
<1>3. PICK k \in 0..Len(t) : w = Drop(t, k)
  BY DEF IsSuffix
<1>4. Drop(Drop(s, j), k) = Drop(s, j + k)
  BY <1>2, DropDrop
<1>5. j + k \in 0..Len(s)
  BY <1>2
<1> QED
  BY <1>1, <1>3, <1>4, <1>5 DEF IsSuffix

(* A slice of a suffix is a slice of the span.                             *)
LEMMA SliceOfDrop ==
  ASSUME NEW X, NEW s \in Seq(X), NEW k \in 0..Len(s),
         NEW i \in 1..Len(s) - k, NEW j \in i..Len(s) - k
  PROVE  SubSeq(Drop(s, k), i, j) = SubSeq(s, i + k, j + k)
<1>1. SubSeq(Drop(s, k), i, j) \in Seq(X) /\ SubSeq(s, i + k, j + k) \in Seq(X)
  BY DropType
<1>2. Len(SubSeq(Drop(s, k), i, j)) = j - i + 1 /\ Len(SubSeq(s, i + k, j + k)) = j - i + 1
  BY DropType
<1>3. \A m \in 1..j - i + 1 : SubSeq(Drop(s, k), i, j)[m] = SubSeq(s, i + k, j + k)[m]
  BY DEF Drop
<1> QED
  BY <1>1, <1>2, <1>3, SeqEqual

(* A number written in a suffix of a span is written in the span.          *)
LEMMA WrittenSuffix ==
  ASSUME NEW X, NEW s \in Seq(X), NEW t, IsSuffix(t, s), NEW n, Written(n, t)
  PROVE  Written(n, s)
<1>1. PICK k \in 0..Len(s) : t = Drop(s, k)
  BY DEF IsSuffix
<1>2. t \in Seq(X) /\ Len(t) = Len(s) - k
  BY <1>1, DropType
<1>3. PICK i, j \in 1..Len(t) :
        /\ i <= j
        /\ IsDigitRun(SubSeq(t, i, j))
        /\ j < Len(t) => t[j + 1] \notin Digits
        /\ n = DecValue(SubSeq(t, i, j))
  BY DEF Written
<1>4. SubSeq(t, i, j) = SubSeq(s, i + k, j + k)
  <2>1. i \in 1..Len(s) - k /\ j \in i..Len(s) - k
    BY <1>2, <1>3
  <2>2. SubSeq(Drop(s, k), i, j) = SubSeq(s, i + k, j + k)
    BY <2>1, SliceOfDrop, Zenon
  <2> QED
    BY <1>1, <2>2
<1>5. ASSUME j + k < Len(s) PROVE s[(j + k) + 1] \notin Digits
  <2>1. j + 1 \in 1..Len(s) - k
    BY <1>2, <1>5
  <2>2. Drop(s, k)[j + 1] = s[k + (j + 1)]
    BY <2>1, DropAt
  <2>3. t[j + 1] \notin Digits
    BY <1>2, <1>3, <1>5
  <2> QED
    BY <1>1, <2>2, <2>3
<1>6. i + k \in 1..Len(s) /\ j + k \in 1..Len(s) /\ i + k <= j + k
  BY <1>2, <1>3
<1> QED
  BY <1>3, <1>4, <1>5, <1>6 DEF Written


(* Every number of the sequence o is written in s.                         *)
AllWritten(o, s) == \A a \in DOMAIN o : Written(o[a], s)

LEMMA AllWrittenSuffix ==
  ASSUME NEW X, NEW s \in Seq(X), NEW t, IsSuffix(t, s), NEW o, AllWritten(o, t)
  PROVE  AllWritten(o, s)
BY WrittenSuffix DEF AllWritten

(* tag, tag_no_case, whitespace0 and whitespace1 hand on a suffix.         *)
LEMMA PrimitivesSuffix ==
  ASSUME NEW X, NEW s \in Seq(X), NEW kw
  PROVE  /\ KW(kw, s).ok => IsSuffix(KW(kw, s).rest, s)
         /\ Tag(kw, s).ok => IsSuffix(Tag(kw, s).rest, s)
         /\ IsSuffix(Whitespace0(s).rest, s)
         /\ Whitespace1(s).ok => IsSuffix(Whitespace1(s).rest, s)
<1>1. TagNoCase(Chars(kw), s).ok => IsSuffix(TagNoCase(Chars(kw), s).rest, s)
  BY TagRead DEF IsSuffix
<1>2. Tag(kw, s).ok => IsSuffix(Tag(kw, s).rest, s)
  BY TagRead DEF IsSuffix
<1>3. IsSuffix(Whitespace0(s).rest, s) /\ (Whitespace1(s).ok => IsSuffix(Whitespace1(s).rest, s))
  BY WhitespaceRead DEF IsSuffix
<1> QED
  BY <1>1, <1>2, <1>3 DEF KW

(* digit1 hands on a suffix, and the number it read is written.            *)
LEMMA Digit1Written ==
  ASSUME NEW X, NEW s \in Seq(X), Digit1(s).ok
  PROVE  IsSuffix(Digit1(s).rest, s) /\ Written(DecValue(Digit1(s).val), s)
<1>1. PICK k \in 1..Len(s) :
        /\ Digit1(s).val = SubSeq(s, 1, k)
        /\ Digit1(s).rest = Drop(s, k)
        /\ IsDigitRun(SubSeq(s, 1, k))
        /\ k < Len(s) => s[k + 1] \notin Digits
  BY Digit1Read
<1>2. IsSuffix(Digit1(s).rest, s)
  BY <1>1 DEF IsSuffix
<1>3. Written(DecValue(Digit1(s).val), s)
  <2>1. 1 \in 1..Len(s) /\ k \in 1..Len(s) /\ 1 <= k
    BY <1>1
  <2> QED
    BY <1>1, <2>1 DEF Written
<1> QED
  BY <1>2, <1>3

(* digit_as_u16 and digit_as_u8 return the value of the digits, or fail.  *)
LEMMA DigitAsValue ==
  \A ds : /\ DigitAsU16(ds).ok => DigitAsU16(ds).val = DecValue(ds)
          /\ DigitAsU8(ds).ok => DigitAsU8(ds).val = DecValue(ds)
          /\ IsResult(DigitAsU16(ds)) /\ IsResult(DigitAsU8(ds))
BY DEF DigitAsU16, DigitAsU8, FromStrBounded, Ok, Err, IsResult

(* delim_digit: the digits between the parentheses are written.            *)
LEMMA DelimDigitWritten ==
  ASSUME NEW X, NEW s \in Seq(X), DelimDigit(s).ok
  PROVE  Written(DecValue(DelimDigit(s).val), s) /\ IsSuffix(DelimDigit(s).rest, s)
<1> DEFINE t1 == Tag(<<"(">>, s)
           d == Digit1(t1.rest)
           t2 == Tag(<<")">>, d.rest)
<1>1. t1.ok /\ d.ok /\ t2.ok /\ DelimDigit(s) = Ok(d.val, t2.rest)
  BY DEF DelimDigit, Delimited, Then
<1>2. IsSuffix(t1.rest, s) /\ t1.rest \in Seq(X)
  BY <1>1, PrimitivesSuffix, SuffixSeq
<1>3. IsSuffix(d.rest, t1.rest) /\ Written(DecValue(d.val), t1.rest)
  BY <1>1, <1>2, Digit1Written
<1>4. IsSuffix(d.rest, s) /\ d.rest \in Seq(X)
  BY <1>2, <1>3, SuffixTrans, SuffixSeq
<1>5. IsSuffix(t2.rest, s)
  BY <1>1, <1>4, PrimitivesSuffix, SuffixTrans
<1>6. Written(DecValue(d.val), s)
  BY <1>2, <1>3, WrittenSuffix
<1> QED
  BY <1>1, <1>5, <1>6 DEF Ok

(* delim_u16: the length is written.                                       *)
LEMMA DelimU16Written ==
  ASSUME NEW X, NEW s \in Seq(X), DelimU16(s).ok
  PROVE  Written(DelimU16(s).val, s) /\ IsSuffix(DelimU16(s).rest, s)
<1> DEFINE dd == DelimDigit(s)
<1>1. dd.ok /\ DigitAsU16(dd.val).ok /\ DelimU16(s) = Ok(DigitAsU16(dd.val).val, dd.rest)
  BY DEF DelimU16, Then
<1>2. DigitAsU16(dd.val).val = DecValue(dd.val)
  BY <1>1, DigitAsValue
<1> QED
  BY <1>1, <1>2, DelimDigitWritten DEF Ok

(* opt(delim_u16) never fails, and holds no length or a written one.       *)
LEMMA OptLenWritten ==
  ASSUME NEW X, NEW s \in Seq(X)
  PROVE  /\ Opt(DelimU16(s), s).ok = TRUE
         /\ AllWritten(Opt(DelimU16(s), s).val, s)
         /\ IsSuffix(Opt(DelimU16(s), s).rest, s)
<1>1. CASE DelimU16(s).ok
  BY <1>1, DelimU16Written DEF Opt, Ok, Some, AllWritten
<1>2. CASE ~DelimU16(s).ok
  BY <1>2, SuffixRefl DEF Opt, Ok, None, AllWritten
<1> QED
  BY <1>1, <1>2


(* A type whose argument list is written, and a type with none.            *)
LEMMA ArgsFromLen ==
  ASSUME NEW name, NEW o, NEW s, AllWritten(o, s)
  PROVE  ArgsWritten(SqlType(name, o), s)
BY DEF ArgsWritten, SqlType, AllWritten

LEMMA NoArgs ==
  \A name, vs, s : ArgsWritten(SqlType(name, None), s) /\ ArgsWritten(EnumType(vs), s)
BY DEF ArgsWritten, SqlType, EnumType, None

(* tag_no_case(kw), opt(delim_u16): the length is written.                 *)
LEMMA KWLenReads ==
  ASSUME NEW X, NEW s \in Seq(X), NEW kw, NEW name
  PROVE  TypeReads(KWLen(kw, name, s), s)
<1> SUFFICES ASSUME KWLen(kw, name, s).ok PROVE ArgsWritten(KWLen(kw, name, s).val, s)
  BY DEF TypeReads
<1> DEFINE u == KW(kw, s).rest
           o == Opt(DelimU16(u), u)
<1>1. KW(kw, s).ok /\ KWLen(kw, name, s) = Ok(SqlType(name, o.val), o.rest)
  <2>1. KW(kw, s).ok
    BY DEF KWLen, Then
  <2>2. o.ok = TRUE
    <3>1. IsSuffix(u, s) /\ u \in Seq(X)
      BY <2>1, PrimitivesSuffix, SuffixSeq
    <3> QED
      BY <3>1, OptLenWritten
  <2> QED
    BY <2>1, <2>2 DEF KWLen, Then
<1>2. IsSuffix(u, s) /\ u \in Seq(X)
  BY <1>1, PrimitivesSuffix, SuffixSeq
<1>3. AllWritten(o.val, s)
  BY <1>2, OptLenWritten, AllWrittenSuffix
<1> QED
  BY <1>1, <1>3, ArgsFromLen DEF Ok

(* opt_signed never fails.                                                 *)
LEMMA OptSignedOK == \A s : OptSigned(s).ok = TRUE
<1> SUFFICES ASSUME NEW s PROVE OptSigned(s).ok = TRUE
  OBVIOUS
<1>1. /\ IsResult(KW("unsigned", s))
      /\ IsResult(KW("signed", s))
  BY DEF IsResult, KW, TagNoCase, Ok, Err
<1>2. /\ IsResult(Then(KW("unsigned", s), LAMBDA k, u : Ok(Some("Unsigned"), u)))
      /\ IsResult(Then(KW("signed", s), LAMBDA k, u : Ok(Some("Signed"), u)))
  BY <1>1 DEF IsResult, Then, Ok
<1> QED
  BY <1>2, AltDef DEF OptSigned, IsResult, Ok

(* int_type: the display width is written.                                 *)
LEMMA IntTypeReads ==
  ASSUME NEW X, NEW s \in Seq(X), NEW kw, NEW ut, NEW st
  PROVE  TypeReads(IntType(kw, ut, st, s), s)
<1> SUFFICES ASSUME IntType(kw, ut, st, s).ok
             PROVE  ArgsWritten(IntType(kw, ut, st, s).val, s)
  BY DEF TypeReads
<1> DEFINE u == KW(kw, s).rest
           o == Opt(DelimU16(u), u)
           sg == OptSigned(Whitespace0(o.rest).rest)
<1>1. KW(kw, s).ok
  BY DEF IntType, Then
<1>2. IsSuffix(u, s) /\ u \in Seq(X)
  BY <1>1, PrimitivesSuffix, SuffixSeq
<1>3. o.ok = TRUE /\ AllWritten(o.val, s)
  BY <1>2, OptLenWritten, AllWrittenSuffix
<1>4. sg.ok = TRUE
  BY OptSignedOK
<1>5. IntType(kw, ut, st, s).val
        = SqlType(IF sg.val = Some("Unsigned") THEN ut ELSE st, o.val)
  BY <1>1, <1>3, <1>4 DEF IntType, Then, Ok
<1> QED
  BY <1>3, <1>5, ArgsFromLen

(* A keyword mapped to a type without arguments.                           *)
LEMMA PlainReads == \A kw, name, s : TypeReads(Plain(kw, name, s), s)
<1> SUFFICES ASSUME NEW kw, NEW name, NEW s PROVE TypeReads(Plain(kw, name, s), s)
  OBVIOUS
<1>1. IsResult(TagNoCase(Chars(kw), s))
  BY DEF IsResult, TagNoCase, Ok, Err
<1> QED
  BY <1>1, NoArgs DEF TypeReads, IsResult, Plain, Keyword, Ok


(* A precision and an optional scale, both written.                        *)
PairWritten(p, s) ==
  /\ p = <<p[1], p[2]>>
  /\ Written(p[1], s)
  /\ \/ p[2] = None
     \/ p[2] = Some(p[2][1]) /\ Written(p[2][1], s)

(* An optional run of digits, absent or written.                           *)
OptDigitsWritten(d, s) ==
  \/ d = None
  \/ d = Some(d[1]) /\ Written(DecValue(d[1]), s)

(* whitespace0 on a suffix leaves a suffix.                               *)
LEMMA Ws0Suffix ==
  ASSUME NEW X, NEW s \in Seq(X), NEW t, IsSuffix(t, s)
  PROVE  IsSuffix(Whitespace0(t).rest, s) /\ Whitespace0(t).rest \in Seq(X)
<1>1. t \in Seq(X)
  BY SuffixSeq
<1>2. IsSuffix(Whitespace0(t).rest, t)
  BY <1>1, PrimitivesSuffix
<1>3. IsSuffix(Whitespace0(t).rest, s)
  BY <1>2, SuffixTrans
<1> QED
  BY <1>3, SuffixSeq

(* ", digit1": the digits are written.                                     *)
LEMMA CommaDigitsWritten ==
  ASSUME NEW X, NEW s \in Seq(X), CommaDigits(s).ok
  PROVE  Written(DecValue(CommaDigits(s).val), s) /\ IsSuffix(CommaDigits(s).rest, s)
<1> DEFINE t == Tag(<<",">>, s)
           v == Whitespace0(t.rest).rest
<1>1. t.ok /\ CommaDigits(s) = Digit1(v)
  BY DEF CommaDigits, Then
<1>2. IsSuffix(t.rest, s) /\ t.rest \in Seq(X)
  BY <1>1, PrimitivesSuffix, SuffixSeq
<1>3. IsSuffix(v, s) /\ v \in Seq(X)
  BY <1>2, Ws0Suffix
<1>4. Digit1(v).ok
  BY <1>1
<1>5. IsSuffix(Digit1(v).rest, v) /\ Written(DecValue(Digit1(v).val), v)
  BY <1>3, <1>4, Digit1Written
<1> QED
  BY <1>1, <1>3, <1>5, SuffixTrans, WrittenSuffix

(* opt(", digit1") never fails; its digits are absent or written.         *)
LEMMA OptCommaWritten ==
  ASSUME NEW X, NEW s \in Seq(X)
  PROVE  /\ Opt(CommaDigits(s), s).ok = TRUE
         /\ OptDigitsWritten(Opt(CommaDigits(s), s).val, s)
         /\ IsSuffix(Opt(CommaDigits(s), s).rest, s)
<1>1. CASE CommaDigits(s).ok
  <2>1. Opt(CommaDigits(s), s) = Ok(<<CommaDigits(s).val>>, CommaDigits(s).rest)
    BY <1>1 DEF Opt, Some
  <2>2. Written(DecValue(CommaDigits(s).val), s) /\ IsSuffix(CommaDigits(s).rest, s)
    BY <1>1, CommaDigitsWritten
  <2> QED
    BY <2>1, <2>2 DEF Ok, OptDigitsWritten, Some, None
<1>2. CASE ~CommaDigits(s).ok
  BY <1>2, SuffixRefl DEF Opt, Ok, None, OptDigitsWritten
<1> QED
  BY <1>1, <1>2

(* The pair a precision parser builds from written numbers is written.     *)
LEMMA PrecisionPairWritten ==
  ASSUME NEW s, NEW mv, NEW d, NEW w, Written(mv, s), OptDigitsWritten(d, s),
         PrecisionPair(mv, d, w).ok
  PROVE  PairWritten(PrecisionPair(mv, d, w).val, s)
<1>1. CASE d = None
  <2>1. PrecisionPair(mv, d, w).val = <<mv, None>>
    BY <1>1 DEF PrecisionPair, Ok
  <2> QED
    BY <2>1 DEF PairWritten
<1>2. CASE d # None
  <2>1. d = Some(d[1]) /\ Written(DecValue(d[1]), s)
    BY <1>2 DEF OptDigitsWritten
  <2>2. DigitAsU8(d[1]).ok /\ PrecisionPair(mv, d, w).val = <<mv, Some(DigitAsU8(d[1]).val)>>
    BY <1>2 DEF PrecisionPair, Then, Ok
  <2>3. DigitAsU8(d[1]).val = DecValue(d[1])
    BY <2>2, DigitAsValue
  <2> QED
    BY <2>1, <2>2, <2>3 DEF PairWritten, Some, None
<1> QED
  BY <1>1, <1>2

(* precision_helper: the precision and the scale are written.              *)
LEMMA PrecisionHelperWritten ==
  ASSUME NEW X, NEW s \in Seq(X), PrecisionHelper(s).ok
  PROVE  PairWritten(PrecisionHelper(s).val, s)
<1> DEFINE m == Digit1(s)
           c == Opt(CommaDigits(m.rest), m.rest)
<1>1. m.ok
  BY DEF PrecisionHelper, Then
<1>2. IsSuffix(m.rest, s) /\ m.rest \in Seq(X) /\ Written(DecValue(m.val), s)
  BY <1>1, Digit1Written, SuffixSeq
<1>3. c.ok = TRUE /\ OptDigitsWritten(c.val, m.rest)
  BY <1>2, OptCommaWritten
<1>4. OptDigitsWritten(c.val, s)
  BY <1>2, <1>3, WrittenSuffix DEF OptDigitsWritten
<1>5. DigitAsU8(m.val).ok
  BY <1>1, <1>3 DEF PrecisionHelper, Then
<1>6. PrecisionHelper(s) = PrecisionPair(DigitAsU8(m.val).val, c.val, c.rest)
  BY <1>1, <1>3, <1>5 DEF PrecisionHelper, Then
<1>7. Written(DigitAsU8(m.val).val, s)
  BY <1>2, <1>5, DigitAsValue
<1> QED
  BY <1>4, <1>6, <1>7, PrecisionPairWritten

(* numeric_precision_inner: the precision and the scale are written.       *)
LEMMA NumericPrecisionInnerWritten ==
  ASSUME NEW X, NEW s \in Seq(X), NumericPrecisionInner(s).ok
  PROVE  PairWritten(NumericPrecisionInner(s).val, s)
<1> DEFINE m == Digit1(s)
           v == Whitespace0(m.rest).rest
           c == Opt(CommaDigits(v), v)
<1>1. m.ok
  BY DEF NumericPrecisionInner, Then
<1>2. IsSuffix(m.rest, s) /\ m.rest \in Seq(X) /\ Written(DecValue(m.val), s)
  BY <1>1, Digit1Written, SuffixSeq
<1>3. IsSuffix(v, s) /\ v \in Seq(X)
  BY <1>2, Ws0Suffix
<1>4. c.ok = TRUE /\ OptDigitsWritten(c.val, v)
  BY <1>3, OptCommaWritten
<1>5. OptDigitsWritten(c.val, s)
  BY <1>3, <1>4, WrittenSuffix DEF OptDigitsWritten
<1>6. Whitespace0(m.rest).ok = TRUE
  BY DEF Whitespace0, Ok
<1>7. DigitAsU16(m.val).ok
  BY <1>1, <1>4, <1>6 DEF NumericPrecisionInner, Then
<1>8. NumericPrecisionInner(s) = PrecisionPair(DigitAsU16(m.val).val, c.val, c.rest)
  BY <1>1, <1>4, <1>6, <1>7 DEF NumericPrecisionInner, Then
<1>9. Written(DigitAsU16(m.val).val, s)
  BY <1>2, <1>7, DigitAsValue
<1> QED
  BY <1>5, <1>8, <1>9, PrecisionPairWritten


LEMMA PairWrittenSuffix ==
  ASSUME NEW X, NEW s \in Seq(X), NEW t, IsSuffix(t, s), NEW p, PairWritten(p, t)
  PROVE  PairWritten(p, s)
BY WrittenSuffix DEF PairWritten

(* precision: the precision and the scale are written.                     *)
LEMMA PrecisionWritten ==
  ASSUME NEW X, NEW s \in Seq(X), Precision(s).ok
  PROVE  PairWritten(Precision(s).val, s)
<1> DEFINE t1 == Tag(<<"(">>, s)
           h == PrecisionHelper(t1.rest)
<1>1. t1.ok /\ h.ok /\ Precision(s).val = h.val
  BY DEF Precision, Delimited, Then, Ok
<1>2. IsSuffix(t1.rest, s) /\ t1.rest \in Seq(X)
  BY <1>1, PrimitivesSuffix, SuffixSeq
<1>3. PairWritten(h.val, t1.rest)
  BY <1>1, <1>2, PrecisionHelperWritten
<1> QED
  BY <1>1, <1>2, <1>3, PairWrittenSuffix

(* numeric_precision: the precision and the scale are written.             *)
LEMMA NumericPrecisionWritten ==
  ASSUME NEW X, NEW s \in Seq(X), NumericPrecision(s).ok
  PROVE  PairWritten(NumericPrecision(s).val, s)
<1> DEFINE t1 == Tag(<<"(">>, s)
           h == NumericPrecisionInner(t1.rest)
<1>1. t1.ok /\ h.ok /\ NumericPrecision(s).val = h.val
  BY DEF NumericPrecision, Delimited, Then, Ok
<1>2. IsSuffix(t1.rest, s) /\ t1.rest \in Seq(X)
  BY <1>1, PrimitivesSuffix, SuffixSeq
<1>3. PairWritten(h.val, t1.rest)
  BY <1>1, <1>2, NumericPrecisionInnerWritten
<1> QED
  BY <1>1, <1>2, <1>3, PairWrittenSuffix

(* The arguments decimal_or_numeric builds from a written pair.           *)
LEMMA DecimalArgs ==
  ASSUME NEW pv, NEW s, PairWritten(pv, s)
  PROVE  ArgsWritten(SqlType("Decimal", <<pv[1], IF pv[2] = None THEN 0 ELSE pv[2][1]>>), s)
BY DEF ArgsWritten, SqlType, PairWritten, DecimalDefault

(* decimal_or_numeric: a written precision and scale, or the defaults.     *)
LEMMA DecimalOrNumericReads ==
  ASSUME NEW X, NEW s \in Seq(X)
  PROVE  TypeReads(DecimalOrNumeric(s), s)
<1> SUFFICES ASSUME DecimalOrNumeric(s).ok PROVE ArgsWritten(DecimalOrNumeric(s).val, s)
  BY DEF TypeReads
<1> DEFINE k == KW("decimal", s) (+) KW("numeric", s)
           u == k.rest
           p == Opt(Precision(u), u)
           arg == IF p.val = None THEN <<32, 0>>
                  ELSE <<p.val[1][1], IF p.val[1][2] = None THEN 0 ELSE p.val[1][2][1]>>
<1> HIDE DEF p
<1>1. k.ok /\ DecimalOrNumeric(s).val = SqlType("Decimal", arg)
  BY DEF DecimalOrNumeric, Then, Opt, Ok, p
<1>2. IsSuffix(u, s) /\ u \in Seq(X)
  <2>1. k \in {KW("decimal", s), KW("numeric", s)}
    BY AltOneOf, Zenon
  <2> QED
    BY <1>1, <2>1, PrimitivesSuffix, SuffixSeq
<1>3. CASE Precision(u).ok
  <2> DEFINE pv == Precision(u).val
  <2>1. p.val = <<pv>>
    BY <1>3 DEF Opt, Ok, Some, p
  <2>2. PairWritten(pv, s)
    BY <1>2, <1>3, PrecisionWritten, PairWrittenSuffix
  <2> HIDE DEF pv
  <2>3. arg = <<pv[1], IF pv[2] = None THEN 0 ELSE pv[2][1]>>
    BY <2>1 DEF None
  <2> QED
    BY <1>1, <2>2, <2>3, DecimalArgs, Zenon
<1>4. CASE ~Precision(u).ok
  <2>1. arg = <<32, 0>>
    BY <1>4 DEF Opt, Ok, None, p
  <2>2. ArgsWritten(SqlType("Decimal", <<32, 0>>), s)
    BY DEF ArgsWritten, SqlType, DecimalDefault
  <2> QED
    BY <1>1, <2>1, <2>2, Zenon
<1> QED
  BY <1>3, <1>4

(* A written precision followed by no scale or a written one.             *)
LEMMA ConcatWritten ==
  ASSUME NEW a, NEW q, NEW s, Written(a, s),
         \/ q = <<>>
         \/ q = <<q[1]>> /\ Written(q[1], s)
  PROVE  AllWritten(<<a>> \o q, s)
<1>1. CASE q = <<>>
  <2>1. <<a>> \o q = <<a>>
    BY <1>1
  <2> QED
    BY <2>1 DEF AllWritten
<1>2. CASE q = <<q[1]>> /\ Written(q[1], s)
  <2>0. <<a>> \o <<q[1]>> = <<a, q[1]>>
    <3> DEFINE S == {a, q[1]}
    <3>1. <<a>> \in Seq(S) /\ <<q[1]>> \in Seq(S) /\ <<a, q[1]>> \in Seq(S)
      OBVIOUS
    <3>2. /\ <<a>> \o <<q[1]>> \in Seq(S)
          /\ Len(<<a>> \o <<q[1]>>) = 2
          /\ \A i \in 1..2 : (<<a>> \o <<q[1]>>)[i] = IF i <= 1 THEN a ELSE q[1]
      BY <3>1, ConcatProperties
    <3>3. /\ Len(<<a>> \o <<q[1]>>) = Len(<<a, q[1]>>)
          /\ \A i \in 1..Len(<<a>> \o <<q[1]>>) : (<<a>> \o <<q[1]>>)[i] = <<a, q[1]>>[i]
      BY <3>2
    <3> QED
      BY <3>1, <3>2, <3>3, SeqEqual, Zenon
  <2>1. <<a>> \o q = <<a, q[1]>>
    BY <1>2, <2>0, Zenon
  <2> QED
    BY <1>2, <2>1 DEF AllWritten
<1> QED
  BY <1>1, <1>2

(* The NUMERIC branch: a written precision and, if given, a written scale. *)
LEMMA NumericTypeReads ==
  ASSUME NEW X, NEW s \in Seq(X)
  PROVE  TypeReads(NumericType(s), s)
<1> SUFFICES ASSUME NumericType(s).ok PROVE ArgsWritten(NumericType(s).val, s)
  BY DEF TypeReads
<1> DEFINE v == Whitespace0(KW("numeric", s).rest).rest
           p == Opt(NumericPrecision(v), v)
           arg == IF p.val = None THEN <<>> ELSE <<p.val[1][1]>> \o p.val[1][2]
<1> HIDE DEF p
<1>1. KW("numeric", s).ok /\ NumericType(s).val = SqlType("Numeric", arg)
  BY DEF NumericType, Then, Opt, Ok, p
<1>2. IsSuffix(v, s) /\ v \in Seq(X)
  <2>1. IsSuffix(KW("numeric", s).rest, s)
    BY <1>1, PrimitivesSuffix
  <2> QED
    BY <2>1, Ws0Suffix
<1>3. CASE NumericPrecision(v).ok
  <2> DEFINE pv == NumericPrecision(v).val
  <2>1. p.val = <<pv>>
    BY <1>3 DEF Opt, Ok, Some, p
  <2>2. PairWritten(pv, s)
    BY <1>2, <1>3, NumericPrecisionWritten, PairWrittenSuffix
  <2>3. arg = <<pv[1]>> \o pv[2]
    BY <2>1 DEF None
  <2>4. AllWritten(<<pv[1]>> \o pv[2], s)
    <3>1. Written(pv[1], s)
      BY <2>2 DEF PairWritten
    <3>2. \/ pv[2] = <<>>
          \/ pv[2] = <<pv[2][1]>> /\ Written(pv[2][1], s)
      BY <2>2 DEF PairWritten, None, Some
    <3> QED
      BY <3>1, <3>2, ConcatWritten
  <2> QED
    BY <1>1, <2>3, <2>4, ArgsFromLen
<1>4. CASE ~NumericPrecision(v).ok
  <2>1. arg = <<>>
    BY <1>4 DEF Opt, Ok, None, p
  <2>2. AllWritten(<<>>, s)
    BY DEF AllWritten
  <2> QED
    BY <1>1, <2>1, <2>2, ArgsFromLen
<1> QED
  BY <1>3, <1>4


(* A keyword after whitespace, and a phrase, hand on a suffix.             *)
LEMMA SpacedKWSuffix ==
  ASSUME NEW X, NEW s \in Seq(X), NEW kw, SpacedKW(kw, s).ok
  PROVE  IsSuffix(SpacedKW(kw, s).rest, s)
<1> DEFINE u == Whitespace1(s).rest
<1>1. Whitespace1(s).ok /\ SpacedKW(kw, s) = KW(kw, u)
  BY DEF SpacedKW, Then
<1>2. IsSuffix(u, s) /\ u \in Seq(X)
  BY <1>1, PrimitivesSuffix, SuffixSeq
<1>3. IsSuffix(KW(kw, u).rest, u)
  BY <1>1, <1>2, PrimitivesSuffix
<1> QED
  BY <1>1, <1>2, <1>3, SuffixTrans

LEMMA PhraseSuffix ==
  ASSUME NEW X, NEW s \in Seq(X), NEW words, Phrase(words, s).ok
  PROVE  IsSuffix(Phrase(words, s).rest, s)
<1> DEFINE u == KW(words[1], s).rest
           w == SpacedKW(words[2], u).rest
<1>1. KW(words[1], s).ok /\ SpacedKW(words[2], u).ok
  BY DEF Phrase, Then
<1>2. IsSuffix(u, s) /\ u \in Seq(X)
  BY <1>1, PrimitivesSuffix, SuffixSeq
<1>3. IsSuffix(w, s) /\ w \in Seq(X)
  BY <1>1, <1>2, SpacedKWSuffix, SuffixTrans, SuffixSeq
<1>4. CASE Len(words) = 2
  BY <1>1, <1>3, <1>4 DEF Phrase, Then, Ok
<1>5. CASE Len(words) # 2
  <2>1. SpacedKW(words[3], w).ok /\ Phrase(words, s).rest = SpacedKW(words[3], w).rest
    BY <1>1, <1>5 DEF Phrase, Then, Ok
  <2>2. IsSuffix(SpacedKW(words[3], w).rest, w)
    BY <1>3, <2>1, SpacedKWSuffix
  <2> QED
    BY <1>3, <2>1, <2>2, SuffixTrans
<1> QED
  BY <1>4, <1>5

(* opt(delim_u16), whitespace0, opt(binary): the length is written.        *)
LEMMA LenBinaryWritten ==
  ASSUME NEW X, NEW s \in Seq(X), LenBinary(s).ok
  PROVE  AllWritten(LenBinary(s).val, s)
<1>1. Opt(DelimU16(s), s).ok = TRUE /\ AllWritten(Opt(DelimU16(s), s).val, s)
  BY OptLenWritten
<1>2. LenBinary(s).val = Opt(DelimU16(s), s).val
  BY <1>1 DEF LenBinary, Then, Whitespace0, Ok
<1> QED
  BY <1>1, <1>2

(* VARCHAR or CHARACTER VARYING and a written length.                      *)
LEMMA VarcharTypeReads ==
  ASSUME NEW X, NEW s \in Seq(X)
  PROVE  TypeReads(VarcharType(s), s)
<1> SUFFICES ASSUME VarcharType(s).ok PROVE ArgsWritten(VarcharType(s).val, s)
  BY DEF TypeReads
<1> DEFINE k1 == Then(KW("varchar", s), LAMBDA k, u : Whitespace0(u))
           k2 == Phrase(<<"character", "varying">>, s)
           k == k1 (+) k2
           u == k.rest
<1> HIDE DEF k1
<1>1. k.ok /\ LenBinary(u).ok /\ VarcharType(s).val = SqlType("Varchar", LenBinary(u).val)
  BY DEF VarcharType, Then, Ok, k1
<1>2. k1.ok => IsSuffix(k1.rest, s)
  <2> SUFFICES ASSUME k1.ok PROVE IsSuffix(k1.rest, s)
    OBVIOUS
  <2>1. KW("varchar", s).ok /\ k1 = Whitespace0(KW("varchar", s).rest)
    BY DEF Then, k1
  <2>2. IsSuffix(KW("varchar", s).rest, s)
    BY <2>1, PrimitivesSuffix
  <2> QED
    BY <2>1, <2>2, Ws0Suffix
<1>3. k2.ok => IsSuffix(k2.rest, s)
  BY PhraseSuffix
<1>4. IsSuffix(u, s) /\ u \in Seq(X)
  <2>1. k \in {k1, k2}
    BY AltOneOf, Zenon
  <2> QED
    BY <1>1, <1>2, <1>3, <2>1, SuffixSeq
<1>5. AllWritten(LenBinary(u).val, s)
  BY <1>1, <1>4, LenBinaryWritten, AllWrittenSuffix
<1> QED
  BY <1>1, <1>5, ArgsFromLen

(* CHAR and a written length.                                              *)
LEMMA CharTypeReads ==
  ASSUME NEW X, NEW s \in Seq(X)
  PROVE  TypeReads(CharType(s), s)
<1> SUFFICES ASSUME CharType(s).ok PROVE ArgsWritten(CharType(s).val, s)
  BY DEF TypeReads
<1> DEFINE u == KW("char", s).rest
<1>1. KW("char", s).ok /\ LenBinary(u).ok /\ CharType(s).val = SqlType("Char", LenBinary(u).val)
  BY DEF CharType, Then, Ok
<1>2. IsSuffix(u, s) /\ u \in Seq(X)
  BY <1>1, PrimitivesSuffix, SuffixSeq
<1>3. AllWritten(LenBinary(u).val, s)
  BY <1>1, <1>2, LenBinaryWritten, AllWrittenSuffix
<1> QED
  BY <1>1, <1>3, ArgsFromLen


(* BINARY and a written length.                                            *)
LEMMA BinaryTypeReads ==
  ASSUME NEW X, NEW s \in Seq(X)
  PROVE  TypeReads(BinaryType(s), s)
<1> SUFFICES ASSUME BinaryType(s).ok PROVE ArgsWritten(BinaryType(s).val, s)
  BY DEF TypeReads
<1>1. KWLen("binary", "Binary", s).ok /\ BinaryType(s).val = KWLen("binary", "Binary", s).val
  BY DEF BinaryType, Then, Ok
<1> QED
  BY <1>1, KWLenReads DEF TypeReads

(* VARBINARY and its written length.                                       *)
LEMMA VarbinaryTypeReads ==
  ASSUME NEW X, NEW s \in Seq(X)
  PROVE  TypeReads(VarbinaryType(s), s)
<1> SUFFICES ASSUME VarbinaryType(s).ok PROVE ArgsWritten(VarbinaryType(s).val, s)
  BY DEF TypeReads
<1> DEFINE u == KW("varbinary", s).rest
<1>1. /\ KW("varbinary", s).ok /\ DelimU16(u).ok
      /\ VarbinaryType(s).val = SqlType("Varbinary", <<DelimU16(u).val>>)
  BY DEF VarbinaryType, Then, Ok
<1>2. IsSuffix(u, s) /\ u \in Seq(X)
  BY <1>1, PrimitivesSuffix, SuffixSeq
<1>3. Written(DelimU16(u).val, s)
  BY <1>1, <1>2, DelimU16Written, WrittenSuffix
<1>4. AllWritten(<<DelimU16(u).val>>, s)
  BY <1>3 DEF AllWritten
<1> QED
  BY <1>1, <1>4, ArgsFromLen

(* VARBIT or BIT VARYING and a written length.                             *)
LEMMA VarbitTypeReads ==
  ASSUME NEW X, NEW s \in Seq(X)
  PROVE  TypeReads(VarbitType(s), s)
<1> SUFFICES ASSUME VarbitType(s).ok PROVE ArgsWritten(VarbitType(s).val, s)
  BY DEF TypeReads
<1> DEFINE k == KW("varbit", s) (+) Phrase(<<"bit", "varying">>, s)
           v == Whitespace0(k.rest).rest
           o == Opt(DelimU16(v), v)
<1>1. k.ok /\ VarbitType(s).val = SqlType("Varbit", o.val)
  BY OptLenWritten DEF VarbitType, Then, Ok, Opt
<1>2. IsSuffix(k.rest, s)
  <2>1. k \in {KW("varbit", s), Phrase(<<"bit", "varying">>, s)}
    BY AltOneOf, Zenon
  <2> QED
    BY <1>1, <2>1, PrimitivesSuffix, PhraseSuffix
<1>3. IsSuffix(v, s) /\ v \in Seq(X)
  BY <1>2, Ws0Suffix
<1>4. AllWritten(o.val, v)
  BY <1>3, OptLenWritten
<1>5. AllWritten(o.val, s)
  BY <1>3, <1>4, AllWrittenSuffix, Zenon
<1> QED
  BY <1>1, <1>5, ArgsFromLen

(* The branches that build a type without arguments.                       *)
LEMMA NoArgBranchesRead ==
  ASSUME NEW d, NEW s
  PROVE  /\ TypeReads(BoolType(s), s)
         /\ TypeReads(DoubleType(s), s)
         /\ TypeReads(EnumTypeDef(d, s), s)
         /\ TypeReads(FloatType(s), s)
         /\ TypeReads(RealType(s), s)
         /\ TypeReads(TimestampTzType(s), s)
         /\ TypeReads(TimestampType(s), s)
         /\ TypeReads(TimeType(s), s)
<1>1. TypeReads(BoolType(s), s)
  <2>1. BoolType(s) \in {Plain("boolean", "Bool", s), Plain("bool", "Bool", s)}
    BY AltOneOf, Zenon DEF BoolType
  <2> QED
    BY <2>1, PlainReads
<1>2. TypeReads(DoubleType(s), s)
  BY NoArgs DEF TypeReads, DoubleType, Then, Ok
<1>3. TypeReads(EnumTypeDef(d, s), s)
  BY NoArgs DEF TypeReads, EnumTypeDef, Then, Ok
<1>4. TypeReads(FloatType(s), s)
  BY NoArgs DEF TypeReads, FloatType, Then, Ok
<1>5. TypeReads(RealType(s), s)
  BY NoArgs DEF TypeReads, RealType, Then, Ok
<1>6. TypeReads(TimestampTzType(s), s)
  BY NoArgs DEF TypeReads, TimestampTzType, Then, Ok
<1>7. TypeReads(TimestampType(s), s)
  BY NoArgs DEF TypeReads, TimestampType, Then, Ok
<1>8. TypeReads(TimeType(s), s)
  BY NoArgs DEF TypeReads, TimeType, Then, Ok
<1> QED
  BY <1>1, <1>2, <1>3, <1>4, <1>5, <1>6, <1>7, <1>8


(* alt of two results whose arguments are written.                         *)
LEMMA AltTypeReads ==
  ASSUME NEW s, NEW r1, NEW r2, TypeReads(r1, s), TypeReads(r2, s)
  PROVE  TypeReads(r1 (+) r2, s)
<1>1. r1 (+) r2 \in {r1, r2}
  BY AltOneOf
<1> QED
  BY <1>1

(* type_identifier_first_half: every branch writes its arguments.          *)
LEMMA FirstHalfReads ==
  ASSUME NEW X, NEW s \in Seq(X), NEW d
  PROVE  TypeReads(TypeIdentifierFirstHalf(d, s), s)
<1>1. /\ TypeReads(IntType("tinyint", "UnsignedTinyint", "Tinyint", s), s)
      /\ TypeReads(IntType("smallint", "UnsignedSmallint", "Smallint", s), s)
      /\ TypeReads(IntType("integer", "UnsignedInt", "Int", s), s)
      /\ TypeReads(IntType("int", "UnsignedInt", "Int", s), s)
      /\ TypeReads(IntType("bigint", "UnsignedBigint", "Bigint", s), s)
  BY IntTypeReads
<1>2. /\ TypeReads(DateTimeType(s), s)
      /\ TypeReads(Plain("date", "Date", s), s)
      /\ TypeReads(Plain("text", "Text", s), s)
  BY KWLenReads, PlainReads DEF DateTimeType
<1>3. /\ TypeReads(NumericType(s), s)
      /\ TypeReads(VarcharType(s), s)
      /\ TypeReads(CharType(s), s)
  BY NumericTypeReads, VarcharTypeReads, CharTypeReads
<1>4. /\ TypeReads(BoolType(s), s)
      /\ TypeReads(DoubleType(s), s)
      /\ TypeReads(EnumTypeDef(d, s), s)
      /\ TypeReads(FloatType(s), s)
      /\ TypeReads(RealType(s), s)
      /\ TypeReads(TimestampTzType(s), s)
      /\ TypeReads(TimestampType(s), s)
  BY NoArgBranchesRead
<1> HIDE DEF TypeReads
<1> QED
  BY <1>1, <1>2, <1>3, <1>4, AltTypeReads DEF TypeIdentifierFirstHalf


(* type_identifier_second_half: every branch writes its arguments.         *)
LEMMA SecondHalfReads ==
  ASSUME NEW X, NEW s \in Seq(X)
  PROVE  TypeReads(TypeIdentifierSecondHalf(s), s)
<1>1. /\ TypeReads(DecimalOrNumeric(s), s)
      /\ TypeReads(BinaryType(s), s)
      /\ TypeReads(VarbinaryType(s), s)
      /\ TypeReads(VarbitType(s), s)
      /\ TypeReads(BitType(s), s)
  BY DecimalOrNumericReads, BinaryTypeReads, VarbinaryTypeReads, VarbitTypeReads,
     KWLenReads DEF BitType
<1>2. \A kw, name : TypeReads(Plain(kw, name, s), s)
  BY PlainReads
<1>3. TypeReads(TimeType(s), s)
  BY NoArgBranchesRead
<1> HIDE DEF TypeReads
<1> QED
  BY <1>1, <1>2, <1>3, AltTypeReads DEF TypeIdentifierSecondHalf

(* type_identifier and SqlType::from_str: the arguments are written.       *)
LEMMA TypeIdentifierReads ==
  ASSUME NEW X, NEW s \in Seq(X), NEW d
  PROVE  /\ TypeReads(TypeIdentifier(d, s), s)
         /\ TypeReads(FromStr(s), s)
<1>1. TypeReads(TypeIdentifier(d, s), s)
  BY FirstHalfReads, SecondHalfReads, AltTypeReads DEF TypeIdentifier
<1>2. TypeReads(TypeIdentifier(MySQL, s), s)
  BY FirstHalfReads, SecondHalfReads, AltTypeReads DEF TypeIdentifier
<1> QED
  BY <1>1, <1>2 DEF TypeReads, FromStr, DropRest


(***************************************************************************)
(* The session.  The result held after a parse is the parser's result on  *)
(* the text held: type_identifier under the round's dialect, or from_str. *)
(***************************************************************************)
ParsedInv ==
  /\ phase = "parsed" => parsed = TypeIdentifier(dialect, text)
  /\ phase = "converted" => parsed = FromStr(text)

LEMMA ParsedInvInit == Init => ParsedInv
BY DEF Init, ParsedInv

LEMMA ParsedInvNext == ParsedInv /\ [Next]_vars => ParsedInv'
<1> SUFFICES ASSUME ParsedInv, [Next]_vars PROVE ParsedInv'
  OBVIOUS
<1>1. ASSUME NEW d \in Dialects, NEW t \in GenTypes, RenderType(d, t) PROVE ParsedInv'
  BY <1>1 DEF RenderType, ParsedInv
<1>2. CASE Reparse
  BY <1>2 DEF Reparse, ParsedInv
<1>3. ASSUME NEW d \in Dialects, NEW s \in TypeInputs, ParseText(d, s) PROVE ParsedInv'
  BY <1>3 DEF ParseText, ParsedInv
<1>4. ASSUME NEW s \in TypeInputs, ConvertText(s) PROVE ParsedInv'
  BY <1>4 DEF ConvertText, ParsedInv
<1>5. CASE Rerender
  BY <1>5 DEF Rerender, ParsedInv
<1>6. CASE Reset
  BY <1>6 DEF Reset, ParsedInv
<1>7. CASE UNCHANGED vars
  BY <1>7 DEF vars, ParsedInv
<1> QED
  BY <1>1, <1>2, <1>3, <1>4, <1>5, <1>6, <1>7 DEF Next

(* ArgsAsWritten holds in every state: a length, precision or scale of a  *)
(* type that type_identifier or SqlType::from_str returned for a text of  *)
(* the caller's set is the value of a run of digits of that text, for     *)
(* every width of u8 and u16 (digit_as_u16, digit_as_u8 never wrap).       *)
THEOREM ArgsCorrect == Spec => []ArgsAsWritten
<1>1. ParsedInv => ArgsAsWritten
  <2> SUFFICES ASSUME ParsedInv, phase \in {"parsed", "converted"}, text \in TypeInputs,
                      parsed.ok
               PROVE  ArgsWritten(parsed.val, text)
    BY DEF ArgsAsWritten
  <2>1. text \in Seq(Bytes)
    BY TypeInputsAssumption
  <2>2. TypeReads(TypeIdentifier(dialect, text), text) /\ TypeReads(FromStr(text), text)
    BY <2>1, TypeIdentifierReads
  <2> QED
    BY <2>2 DEF ParsedInv, TypeReads
<1> QED
  BY <1>1, ParsedInvInit, ParsedInvNext, PTL DEF Spec

=============================================================================
