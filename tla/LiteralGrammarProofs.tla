------------------------ MODULE LiteralGrammarProofs ------------------------
(***************************************************************************)
(* Lemmas about literal(dialect), for every width of the integer types:   *)
(* on any byte span, a number it returns (an integer, a real, a :N or $N  *)
(* placeholder) has the value of the digits it consumed, read with no     *)
(* bound taken off.  The argument follows the grammar: digit1 reads a run *)
(* of digits at the front of its span, each number alternative builds its *)
(* value from that run (i64::from_str and u32::from_str return the value  *)
(* of the digits or fail), the other alternatives return no number, and   *)
(* nom's alt returns the result of one of its alternatives.               *)
(***************************************************************************)
EXTENDS LiteralGrammar, SqlTextProofs, SequenceTheorems, TLAPS

(* A parse result that is no number at all.                                *)
NotNumber(r) == r.ok => ~IsNumber(r.val)

LEMMA NotNumberReads ==
  ASSUME NEW r, NEW s, NotNumber(r) PROVE ReadsNumber(r, s)
BY DEF NotNumber, ReadsNumber

(* nom's alt of two parsers reads numbers as both of them do.              *)
LEMMA AltReads ==
  ASSUME NEW r1, NEW r2, NEW s, ReadsNumber(r1, s), ReadsNumber(r2, s)
  PROVE  ReadsNumber(r1 (+) r2, s)
BY AltOneOf

(* digit1 reads a non-empty run of digits at the front of its span.        *)
LEMMA Digit1Read ==
  ASSUME NEW X, NEW s \in Seq(X)
  PROVE  Digit1(s).ok =>
           \E k \in 1..Len(s) :
             /\ Digit1(s).val = SubSeq(s, 1, k)
             /\ Digit1(s).rest = Drop(s, k)
             /\ IsDigitRun(SubSeq(s, 1, k))
             /\ k < Len(s) => s[k + 1] \notin Digits
<1>1. /\ RunLength(Digits, s) \in 0..Len(s)
      /\ \A i \in 1..RunLength(Digits, s) : s[i] \in Digits
      /\ RunLength(Digits, s) < Len(s) => s[RunLength(Digits, s) + 1] \notin Digits
  BY RunLengthRange
<1> QED
  BY <1>1 DEF Digit1, Ok, Err, IsDigitRun

(* opt(tag("-")) consumes the minus sign when there is one.               *)
LEMMA AfterMinusRead ==
  ASSUME NEW X, NEW s \in Seq(X)
  PROVE  /\ (IF Minus(s) THEN 1 ELSE 0) \in 0..Len(s)
         /\ AfterMinus(s) = Drop(s, IF Minus(s) THEN 1 ELSE 0)
BY DEF Minus, AfterMinus, Drop

(* A prefix that runs past the optional minus has the sign of the span,   *)
(* and without its sign it is the front of the span after the minus.     *)
LEMMA SignedPrefix ==
  ASSUME NEW X, NEW s \in Seq(X),
         NEW n \in 1..Len(s) - (IF Minus(s) THEN 1 ELSE 0)
  PROVE  LET p == SubSeq(s, 1, (IF Minus(s) THEN 1 ELSE 0) + n)
         IN  /\ Negative(p) = Minus(s)
             /\ AfterSign(p) = SubSeq(AfterMinus(s), 1, n)
<1>1. CASE Minus(s)
  BY <1>1 DEF Negative, AfterSign, Minus, AfterMinus
<1>2. CASE ~Minus(s)
  BY <1>2 DEF Negative, AfterSign, Minus, AfterMinus
<1> QED
  BY <1>1, <1>2


(* The arms of SpellsNumber, one per kind of number.                       *)
LEMMA SpellsInteger ==
  ASSUME NEW v, NEW p, v.tag = "Integer"
  PROVE  SpellsNumber(v, p) =
           (IsDigitRun(AfterSign(p)) /\ v.i = Signed(Negative(p), DecValue(AfterSign(p))))
BY DEF SpellsNumber, RealTags

(* integer_literal: i64::from_str either fails or returns the value of the *)
(* digits, and the sign is the minus that was consumed.                    *)
LEMMA IntegerLiteralReads ==
  ASSUME NEW X, NEW s \in Seq(X)
  PROVE  ReadsNumber(IntegerLiteral(s), s)
<1> DEFINE m == IF Minus(s) THEN 1 ELSE 0
           u == AfterMinus(s)
           ds == Digit1(u)
           v == FromStrBounded(ds.val, IntMax)
           r == IntegerLiteral(s)
<1> SUFFICES ASSUME r.ok
             PROVE  \E k \in 0..Len(s) :
                      r.rest = Drop(s, k) /\ SpellsNumber(r.val, SubSeq(s, 1, k))
  BY DEF ReadsNumber
<1>1. m \in 0..Len(s) /\ u = Drop(s, m) /\ u \in Seq(X) /\ Len(u) = Len(s) - m
  BY AfterMinusRead, DropType
<1>2. ds.ok /\ v.ok
      /\ r = Ok(Integer(IF Minus(s) THEN -v.val ELSE v.val), ds.rest)
  BY DEF IntegerLiteral, Err
<1>3. PICK n \in 1..Len(u) :
        /\ ds.val = SubSeq(u, 1, n)
        /\ ds.rest = Drop(u, n)
        /\ IsDigitRun(SubSeq(u, 1, n))
  BY <1>1, <1>2, Digit1Read
<1>4. v.val = DecValue(ds.val)
  BY <1>2 DEF FromStrBounded
<1>5. ds.rest = Drop(s, m + n)
  BY <1>1, <1>3, DropDrop
<1>6. /\ Negative(SubSeq(s, 1, m + n)) = Minus(s)
      /\ AfterSign(SubSeq(s, 1, m + n)) = SubSeq(u, 1, n)
  BY <1>1, SignedPrefix
<1>7. r.val = Integer(Signed(Minus(s), DecValue(SubSeq(u, 1, n))))
  BY <1>2, <1>3, <1>4 DEF Ok, Signed
<1>8. SpellsNumber(r.val, SubSeq(s, 1, m + n))
  <2>1. r.val.tag = "Integer"
    BY <1>7 DEF Integer
  <2>2. IsDigitRun(AfterSign(SubSeq(s, 1, m + n)))
    BY <1>3, <1>6
  <2>3. r.val.i = Signed(Negative(SubSeq(s, 1, m + n)),
                         DecValue(AfterSign(SubSeq(s, 1, m + n))))
    <3>1. DecValue(AfterSign(SubSeq(s, 1, m + n))) = DecValue(SubSeq(u, 1, n))
      BY <1>6
    <3>2. r.val.i = Signed(Minus(s), DecValue(SubSeq(u, 1, n)))
      BY <1>7 DEF Integer
    <3>3. CASE Minus(s)
      BY <1>6, <3>1, <3>2, <3>3 DEF Signed
    <3>4. CASE ~Minus(s)
      BY <1>6, <3>1, <3>2, <3>4 DEF Signed
    <3> QED
      BY <3>3, <3>4
  <2> QED
    BY <2>1, <2>2, <2>3, SpellsInteger
<1> QED
  BY <1>1, <1>2, <1>5, <1>8 DEF Ok


LEMMA SpellsReal ==
  ASSUME NEW v, NEW p, v.tag \in RealTags
  PROVE  SpellsNumber(v, p) =
           \E j \in DOMAIN AfterSign(p) :
             /\ AfterSign(p)[j] = "."
             /\ IsDigitRun(SubSeq(AfterSign(p), 1, j - 1))
             /\ IsDigitRun(Drop(AfterSign(p), j))
             /\ v.neg = Negative(p)
             /\ v.num = DecValue(SubSeq(AfterSign(p), 1, j - 1) \o Drop(AfterSign(p), j))
             /\ v.scale = Len(Drop(AfterSign(p), j))
BY DEF SpellsNumber, RealTags

(* The front of a suffix, and a suffix of the front, are slices.          *)
LEMMA PrefixOfDrop ==
  ASSUME NEW X, NEW s \in Seq(X), NEW k \in 0..Len(s), NEW n \in 0..Len(s) - k
  PROVE  SubSeq(Drop(s, k), 1, n) = SubSeq(s, k + 1, k + n)
<1>1. SubSeq(Drop(s, k), 1, n) \in Seq(X) /\ SubSeq(s, k + 1, k + n) \in Seq(X)
  BY DropType
<1>2. Len(SubSeq(Drop(s, k), 1, n)) = n /\ Len(SubSeq(s, k + 1, k + n)) = n
  BY DropType
<1>3. \A i \in 1..n : SubSeq(Drop(s, k), 1, n)[i] = SubSeq(s, k + 1, k + n)[i]
  BY DEF Drop
<1> QED
  BY <1>1, <1>2, <1>3, SeqEqual

LEMMA DropOfPrefix ==
  ASSUME NEW X, NEW s \in Seq(X), NEW n \in 0..Len(s), NEW k \in 0..n
  PROVE  Drop(SubSeq(s, 1, n), k) = SubSeq(s, k + 1, n)
<1>1. Drop(SubSeq(s, 1, n), k) \in Seq(X) /\ SubSeq(s, k + 1, n) \in Seq(X)
  BY DEF Drop
<1>2. Len(Drop(SubSeq(s, 1, n), k)) = n - k /\ Len(SubSeq(s, k + 1, n)) = n - k
  BY DEF Drop
<1>3. \A i \in 1..n - k : Drop(SubSeq(s, 1, n), k)[i] = SubSeq(s, k + 1, n)[i]
  BY DEF Drop
<1> QED
  BY <1>1, <1>2, <1>3, SeqEqual

(* The i-th byte of a suffix.                                             *)
LEMMA DropAt ==
  ASSUME NEW X, NEW s \in Seq(X), NEW k \in 0..Len(s), NEW i \in 1..Len(s) - k
  PROVE  Drop(s, k)[i] = s[k + i]
BY DEF Drop

(* tag(c) of one byte c reads that byte at the front of its span.         *)
LEMMA ByteRead ==
  ASSUME NEW X, NEW s \in Seq(X), NEW c, Tag(<<c>>, s).ok
  PROVE  /\ 1 <= Len(s)
         /\ s[1] = c
         /\ Tag(<<c>>, s).rest = Drop(s, 1)
<1>1. Len(<<c>>) = 1
  OBVIOUS
<1>2. 1 \in 0..Len(s) /\ SubSeq(s, 1, 1) = <<c>> /\ Tag(<<c>>, s).rest = Drop(s, 1)
  BY <1>1 DEF Tag, Ok, Err
<1>3. s[1] = SubSeq(s, 1, 1)[1]
  BY <1>2
<1>4. <<c>>[1] = c
  OBVIOUS
<1>5. 1 <= Len(s)
  BY <1>2
<1>6. s[1] = c
  BY <1>2, <1>3, <1>4, Zenon
<1> QED
  BY <1>2, <1>5, <1>6, Zenon

(* float_literal: a real whose mantissa is the digits on both sides of the *)
(* point and whose scale is the number of digits after it.                 *)
LEMMA FloatLiteralReads ==
  ASSUME NEW X, NEW s \in Seq(X)
  PROVE  ReadsNumber(FloatLiteral(s), s)
<1> DEFINE m == IF Minus(s) THEN 1 ELSE 0
           u == AfterMinus(s)
           int == Digit1(u)
           dot == Tag(<<".">>, int.rest)
           frac == Digit1(dot.rest)
           r == FloatLiteral(s)
<1> SUFFICES ASSUME r.ok
             PROVE  \E k \in 0..Len(s) :
                      r.rest = Drop(s, k) /\ SpellsNumber(r.val, SubSeq(s, 1, k))
  BY DEF ReadsNumber
<1>1. m \in 0..Len(s) /\ u = Drop(s, m) /\ u \in Seq(X) /\ Len(u) = Len(s) - m
  BY AfterMinusRead, DropType
<1>2. /\ int.ok /\ dot.ok /\ frac.ok
      /\ r = Ok(Real("Double", Minus(s), DecValue(int.val \o frac.val),
                     Len(frac.val), AsU8(Len(frac.val))),
                frac.rest)
  BY DEF FloatLiteral, Err
<1>3. PICK n1 \in 1..Len(u) :
        /\ int.val = SubSeq(u, 1, n1)
        /\ int.rest = Drop(u, n1)
        /\ IsDigitRun(SubSeq(u, 1, n1))
  BY <1>1, <1>2, Digit1Read
<1>4. int.rest \in Seq(X) /\ Len(int.rest) = Len(u) - n1
  BY <1>1, <1>3, DropType
<1>5. /\ 1 <= Len(u) - n1
      /\ u[n1 + 1] = "."
      /\ dot.rest = Drop(u, n1 + 1)
  <2>1. 1 <= Len(int.rest) /\ int.rest[1] = "." /\ dot.rest = Drop(int.rest, 1)
    BY <1>2, <1>4, ByteRead
  <2>2. n1 \in 0..Len(u) /\ 1 \in 0..Len(u) - n1
    BY <1>4, <2>1
  <2>3. Drop(Drop(u, n1), 1) = Drop(u, n1 + 1)
    BY <1>1, <2>2, DropDrop
  <2>4. int.rest[1] = u[n1 + 1]
    <3>1. Drop(u, n1)[1] = u[n1 + 1]
      BY <1>1, <2>2, DropAt
    <3> QED
      BY <1>3, <3>1
  <2> QED
    BY <1>3, <1>4, <2>1, <2>3, <2>4
<1>6. dot.rest \in Seq(X) /\ Len(dot.rest) = Len(u) - (n1 + 1)
  <2>1. n1 + 1 \in 0..Len(u)
    BY <1>5
  <2>2. Drop(u, n1 + 1) \in Seq(X) /\ Len(Drop(u, n1 + 1)) = Len(u) - (n1 + 1)
    BY <1>1, <2>1, DropType
  <2> QED
    BY <1>5, <2>2
<1>7. PICK n2 \in 1..Len(dot.rest) :
        /\ frac.val = SubSeq(dot.rest, 1, n2)
        /\ frac.rest = Drop(dot.rest, n2)
        /\ IsDigitRun(SubSeq(dot.rest, 1, n2))
  BY <1>2, <1>6, Digit1Read
<1> DEFINE N == n1 + 1 + n2
           w == SubSeq(u, 1, N)
           p == SubSeq(s, 1, m + N)
<1>8. N \in 1..Len(u) /\ m + N \in 0..Len(s)
  BY <1>1, <1>5, <1>6, <1>7, SMTT(30)
<1>9. frac.rest = Drop(s, m + N)
  <2>1. n1 + 1 \in 0..Len(u) /\ n2 \in 0..Len(u) - (n1 + 1)
    BY <1>5, <1>6
  <2>2. Drop(Drop(u, n1 + 1), n2) = Drop(u, (n1 + 1) + n2)
    BY <1>1, <2>1, DropDrop
  <2>3. Drop(Drop(s, m), N) = Drop(s, m + N)
    <3>1. m \in 0..Len(s) /\ N \in 0..Len(s) - m
      BY <1>1, <1>8
    <3> QED
      BY <3>1, DropDrop
  <2> QED
    BY <1>1, <1>5, <1>7, <2>2, <2>3
<1>10. Negative(p) = Minus(s) /\ AfterSign(p) = w
  BY <1>1, <1>8, SignedPrefix
<1>11. /\ n1 + 1 \in DOMAIN w
       /\ w[n1 + 1] = "."
       /\ SubSeq(w, 1, n1) = int.val
       /\ Drop(w, n1 + 1) = frac.val
  <2>1. w \in Seq(X) /\ Len(w) = N
    BY <1>1, <1>8
  <2>2. n1 + 1 \in DOMAIN w /\ w[n1 + 1] = "."
    BY <1>5, <1>8, <2>1
  <2>3. SubSeq(w, 1, n1) = int.val
    BY <1>1, <1>3, <1>8, <2>1
  <2>4. frac.val = SubSeq(u, n1 + 2, N)
    <3>1. n1 + 1 \in 0..Len(u) /\ n2 \in 0..Len(u) - (n1 + 1)
      BY <1>5, <1>6
    <3>2. SubSeq(Drop(u, n1 + 1), 1, n2) = SubSeq(u, (n1 + 1) + 1, (n1 + 1) + n2)
      BY <1>1, <3>1, PrefixOfDrop, Zenon
    <3> QED
      BY <1>5, <1>7, <3>2
  <2>5. Drop(w, n1 + 1) = SubSeq(u, n1 + 2, N)
    <3>1. N \in 0..Len(u) /\ n1 + 1 \in 0..N
      BY <1>8
    <3>2. Drop(SubSeq(u, 1, N), n1 + 1) = SubSeq(u, (n1 + 1) + 1, N)
      BY <1>1, <3>1, DropOfPrefix, Zenon
    <3> QED
      BY <3>2
  <2> QED
    BY <2>2, <2>3, <2>4, <2>5
<1>12. SpellsNumber(r.val, p)
  <2>1. r.val.tag \in RealTags
    BY <1>2 DEF Ok, Real, RealTags
  <2>2. /\ r.val.neg = Minus(s)
        /\ r.val.num = DecValue(int.val \o frac.val)
        /\ r.val.scale = Len(frac.val)
    BY <1>2 DEF Ok, Real
  <2>3. IsDigitRun(int.val) /\ IsDigitRun(frac.val)
    BY <1>3, <1>7
  <2>4. \E j \in DOMAIN AfterSign(p) :
             /\ AfterSign(p)[j] = "."
             /\ IsDigitRun(SubSeq(AfterSign(p), 1, j - 1))
             /\ IsDigitRun(Drop(AfterSign(p), j))
             /\ r.val.neg = Negative(p)
             /\ r.val.num = DecValue(SubSeq(AfterSign(p), 1, j - 1) \o Drop(AfterSign(p), j))
             /\ r.val.scale = Len(Drop(AfterSign(p), j))
    <3>1. n1 + 1 \in DOMAIN AfterSign(p) /\ AfterSign(p)[n1 + 1] = "."
      BY <1>10, <1>11, Zenon
    <3>2. /\ SubSeq(AfterSign(p), 1, (n1 + 1) - 1) = int.val
          /\ Drop(AfterSign(p), n1 + 1) = frac.val
      <4>1. SubSeq(AfterSign(p), 1, n1) = int.val /\ Drop(AfterSign(p), n1 + 1) = frac.val
        BY <1>10, <1>11, Zenon
      <4>2. (n1 + 1) - 1 = n1
        OBVIOUS
      <4> QED
        BY <4>1, <4>2, Zenon
    <3>3. /\ IsDigitRun(SubSeq(AfterSign(p), 1, (n1 + 1) - 1))
          /\ IsDigitRun(Drop(AfterSign(p), n1 + 1))
      BY <3>2, <2>3
    <3>4. r.val.neg = Negative(p)
      BY <1>10, <2>2
    <3>5. /\ r.val.num = DecValue(SubSeq(AfterSign(p), 1, (n1 + 1) - 1)
                                   \o Drop(AfterSign(p), n1 + 1))
          /\ r.val.scale = Len(Drop(AfterSign(p), n1 + 1))
      BY <3>2, <2>2
    <3> QED
      BY <3>1, <3>3, <3>4, <3>5
  <2> QED
    BY <2>1, <2>4, SpellsReal
<1> QED
  BY <1>2, <1>8, <1>9, <1>12 DEF Ok


LEMMA SpellsPlaceholder ==
  ASSUME NEW v, NEW p, v.tag = "Placeholder"
  PROVE  SpellsNumber(v, p) =
           /\ p # <<>>
           /\ p[1] = IF v.kind = "ColonNumber" THEN ":" ELSE "$"
           /\ IsDigitRun(Tail(p))
           /\ v.n = DecValue(Tail(p))
BY DEF SpellsNumber, RealTags

(* The :N and $N placeholders: u32::from_str either fails or returns the   *)
(* value of the digits after the sigil.                                    *)
LEMMA NumberedReads ==
  ASSUME NEW X, NEW s \in Seq(X), NEW sigil, NEW kind,
         sigil = IF kind = "ColonNumber" THEN ":" ELSE "$"
  PROVE  ReadsNumber(Numbered(sigil, kind, s), s)
<1> DEFINE t == Tag(<<sigil>>, s)
           ds == Digit1(t.rest)
           v == FromStrBounded(ds.val, U32Max)
           r == Numbered(sigil, kind, s)
<1> SUFFICES ASSUME r.ok
             PROVE  \E k \in 0..Len(s) :
                      r.rest = Drop(s, k) /\ SpellsNumber(r.val, SubSeq(s, 1, k))
  BY DEF ReadsNumber
<1>1. t.ok /\ ds.ok /\ v.ok /\ r = Ok(Placeholder(kind, v.val), ds.rest)
  BY DEF Numbered, Err
<1>2. 1 <= Len(s) /\ s[1] = sigil /\ t.rest = Drop(s, 1)
  BY <1>1, ByteRead
<1>3. t.rest \in Seq(X) /\ Len(t.rest) = Len(s) - 1
  BY <1>2, DropType
<1>4. PICK n \in 1..Len(t.rest) :
        /\ ds.val = SubSeq(t.rest, 1, n)
        /\ ds.rest = Drop(t.rest, n)
        /\ IsDigitRun(SubSeq(t.rest, 1, n))
  BY <1>1, <1>3, Digit1Read
<1> DEFINE p == SubSeq(s, 1, 1 + n)
<1>5. 1 + n \in 0..Len(s)
  BY <1>3, <1>4, SMTT(30)
<1>6. ds.rest = Drop(s, 1 + n)
  <2>1. 1 \in 0..Len(s) /\ n \in 0..Len(s) - 1
    BY <1>2, <1>3
  <2> QED
    BY <1>2, <1>4, <2>1, DropDrop
<1>7. Tail(p) = ds.val
  <2>0. 1 \in 0..Len(s) /\ n \in 0..Len(s) - 1 /\ 1 + n \in 0..Len(s) /\ 1 \in 0..1 + n
    BY <1>2, <1>3
  <2>1. SubSeq(Drop(s, 1), 1, n) = SubSeq(s, 1 + 1, 1 + n)
    BY <2>0, PrefixOfDrop, Zenon
  <2>2. Tail(p) = SubSeq(s, 1 + 1, 1 + n)
    <3>1. Tail(p) = Drop(p, 1)
      BY <2>0 DEF Drop
    <3>2. Drop(SubSeq(s, 1, 1 + n), 1) = SubSeq(s, 1 + 1, 1 + n)
      BY <2>0, DropOfPrefix, Zenon
    <3> QED
      BY <3>1, <3>2
  <2> QED
    BY <1>2, <1>4, <2>1, <2>2
<1>8. p # <<>> /\ p[1] = sigil
  BY <1>2, <1>5
<1>9. r.val.tag = "Placeholder" /\ r.val.kind = kind /\ r.val.n = DecValue(ds.val)
  BY <1>1 DEF Ok, Placeholder, FromStrBounded
<1>10. SpellsNumber(r.val, p)
  BY <1>4, <1>7, <1>8, <1>9, SpellsPlaceholder
<1> QED
  BY <1>1, <1>5, <1>6, <1>10 DEF Ok


(* The other alternatives return no number: strings and blobs, byte arrays *)
(* and bit vectors, the keywords, ? and the booleans.                      *)
LEMMA StringOrBlobNotNumber == \A d, s : NotNumber(StringOrBlob(d, s))
<1> SUFFICES ASSUME NEW d, NEW s PROVE NotNumber(StringOrBlob(d, s))
  OBVIOUS
<1>1. \A q : RawQuoted(q, s).ok \in BOOLEAN
  BY DEF RawQuoted, Ok, Err
<1>2. StringLiteral(d, s).ok \in BOOLEAN
  BY <1>1 DEF StringLiteral, Err
<1> QED
  BY <1>2 DEF NotNumber, IsNumber, StringOrBlob, Ok, Blob, String, RealTags

LEMMA ByteArrayNotNumber == \A d, s : NotNumber(ByteArrayLiteral(d, s))
<1> SUFFICES ASSUME NEW d, NEW s PROVE NotNumber(ByteArrayLiteral(d, s))
  OBVIOUS
<1>1. BytesLiteral(d, s).ok \in BOOLEAN
  BY DEF BytesLiteral, Ok, Err
<1> QED
  BY <1>1 DEF NotNumber, IsNumber, ByteArrayLiteral, Ok, ByteArray, RealTags

LEMMA BitVectorNotNumber == \A d, s : NotNumber(BitVectorLiteral(d, s))
<1> SUFFICES ASSUME NEW d, NEW s PROVE NotNumber(BitVectorLiteral(d, s))
  OBVIOUS
<1>1. BitvecLiteral(d, s).ok \in BOOLEAN
  BY DEF BitvecLiteral, Ok, Err
<1> QED
  BY <1>1 DEF NotNumber, IsNumber, BitVectorLiteral, Ok, BitVector, RealTags

LEMMA KeywordNotNumber ==
  ASSUME NEW kw, NEW v, ~IsNumber(v)
  PROVE  \A s : NotNumber(Keyword(kw, v, s)) /\ NotNumber(Symbol(kw, v, s))
BY DEF NotNumber, Keyword, Symbol, TagNoCase, Tag, Ok, Err, NoValue, IsNumber,
       RealTags

LEMMA BooleanNotNumber == \A s : NotNumber(BooleanLiteral(s))
<1>1. ~IsNumber(Boolean(TRUE)) /\ ~IsNumber(Boolean(FALSE))
  BY DEF IsNumber, Boolean, RealTags
<1> QED
  BY <1>1, KeywordNotNumber DEF BooleanLiteral

(* literal(dialect) reads every number it returns as written, whatever the *)
(* order its alternatives are tried in.                                    *)
LEMMA ParseLiteralReads ==
  ASSUME NEW X, NEW d, NEW s \in Seq(X)
  PROVE  ReadsNumber(ParseLiteral(d, s), s)
<1>1. /\ ReadsNumber(FloatLiteral(s), s)
      /\ ReadsNumber(IntegerLiteral(s), s)
      /\ ReadsNumber(Numbered(":", "ColonNumber", s), s)
      /\ ReadsNumber(Numbered("$", "DollarNumber", s), s)
  BY FloatLiteralReads, IntegerLiteralReads, NumberedReads
<1>2. /\ NotNumber(StringOrBlob(d, s))
      /\ NotNumber(ByteArrayLiteral(d, s))
      /\ NotNumber(BitVectorLiteral(d, s))
      /\ NotNumber(BooleanLiteral(s))
  BY StringOrBlobNotNumber, ByteArrayNotNumber, BitVectorNotNumber,
     BooleanNotNumber
<1>3. /\ NotNumber(Keyword("null", Null, s))
      /\ NotNumber(Keyword("current_timestamp", CurrentTimestamp, s))
      /\ NotNumber(Keyword("current_date", CurrentDate, s))
      /\ NotNumber(Keyword("current_time", CurrentTime, s))
      /\ NotNumber(Symbol("?", Placeholder("QuestionMark", 0), s))
  <2>1. \A v \in {Null, CurrentTimestamp, CurrentDate, CurrentTime,
                   Placeholder("QuestionMark", 0)} : ~IsNumber(v)
    BY DEF IsNumber, Null, CurrentTimestamp, CurrentDate, CurrentTime,
           Placeholder, RealTags
  <2> QED
    BY <2>1, KeywordNotNumber
<1>4. /\ ReadsNumber(StringOrBlob(d, s), s)
      /\ ReadsNumber(ByteArrayLiteral(d, s), s)
      /\ ReadsNumber(BitVectorLiteral(d, s), s)
      /\ ReadsNumber(BooleanLiteral(s), s)
      /\ ReadsNumber(Keyword("null", Null, s), s)
      /\ ReadsNumber(Keyword("current_timestamp", CurrentTimestamp, s), s)
      /\ ReadsNumber(Keyword("current_date", CurrentDate, s), s)
      /\ ReadsNumber(Keyword("current_time", CurrentTime, s), s)
      /\ ReadsNumber(Symbol("?", Placeholder("QuestionMark", 0), s), s)
  BY <1>2, <1>3, NotNumberReads
<1> QED
  BY <1>1, <1>4, AltReads DEF ParseLiteral

=============================================================================
