---------------------------- MODULE TypeGrammar ----------------------------
(***************************************************************************)
(* The SQL type model of common.rs (enum SqlType), its rendering (impl     *)
(* Display for SqlType) and the type grammar: type_identifier(dialect),    *)
(* the ordered alternation of type_identifier_first_half and              *)
(* type_identifier_second_half, with its helpers int_type, precision,     *)
(* numeric_precision, delim_u16, opt_signed, decimal_or_numeric and       *)
(* opt_without_time_zone, and impl FromStr for SqlType.                   *)
(*                                                                         *)
(* A failing parser is modelled as failing at its input: the grammar only *)
(* ever tests whether a branch succeeded, never where it failed.           *)
(***************************************************************************)
EXTENDS Integers, Sequences, SqlText, NumericLex, Dialect, LiteralGrammar

(* The Rust widths the type grammar relies on: a u8 fits in a u16          *)
(* (precision() reads a u8 where numeric_precision reads a u16), and the   *)
(* default precision 32 of decimal_or_numeric is a u8.                     *)
ASSUME TypeWidthAssumption ==
  /\ U16Max \in Nat
  /\ U8Max <= U16Max
  /\ 32 <= U8Max

(***************************************************************************)
(* A SqlType: the variant, its integer arguments as a sequence (the        *)
(* Option<u16> of a length, the pair of Decimal, the u16 of Varbinary, the *)
(* precision and optional scale of Numeric) and the literals of an Enum.   *)
(***************************************************************************)
SqlType(name, arg) == [ty |-> name, arg |-> arg, vals |-> <<>>]
EnumType(vs) == [ty |-> "Enum", arg |-> <<>>, vals |-> vs]

(***************************************************************************)
(* Display for SqlType.                                                    *)
(***************************************************************************)
(* The keyword each variant is written with.                               *)
TypeName == [
  Bool |-> "BOOL", Char |-> "CHAR", Varchar |-> "VARCHAR", Int |-> "INT",
  UnsignedInt |-> "INT", Bigint |-> "BIGINT", UnsignedBigint |-> "BIGINT",
  Tinyint |-> "TINYINT", UnsignedTinyint |-> "TINYINT",
  Smallint |-> "SMALLINT", UnsignedSmallint |-> "SMALLINT",
  Blob |-> "BLOB", Longblob |-> "LONGBLOB", Mediumblob |-> "MEDIUMBLOB",
  Tinyblob |-> "TINYBLOB", Double |-> "DOUBLE", Float |-> "FLOAT",
  Real |-> "REAL", Numeric |-> "NUMERIC", Tinytext |-> "TINYTEXT",
  Mediumtext |-> "MEDIUMTEXT", Longtext |-> "LONGTEXT", Text |-> "TEXT",
  Date |-> "DATE", DateTime |-> "DATETIME", Time |-> "TIME",
  Timestamp |-> "TIMESTAMP", TimestampTz |-> "TIMESTAMP WITH TIME ZONE",
  Binary |-> "BINARY", Varbinary |-> "VARBINARY", Enum |-> "ENUM",
  Decimal |-> "DECIMAL", Json |-> "JSON", Jsonb |-> "JSONB",
  ByteArray |-> "BYTEA", MacAddr |-> "MACADDR", Inet |-> "INET",
  Uuid |-> "UUID", Bit |-> "BIT", Varbit |-> "VARBIT", Serial |-> "SERIAL",
  BigSerial |-> "BIGSERIAL"]

(* The variants written as write_with_len(name, len), or as BIT(n).        *)
WithLen == {"Char", "Varchar", "Int", "Bigint", "Tinyint", "Smallint",
            "DateTime", "Binary", "Bit", "Varbit"}
Unsigned == {"UnsignedInt", "UnsignedBigint", "UnsignedTinyint",
             "UnsignedSmallint"}

Paren(ts) == Chars("(") \o ts \o Chars(")")

(* write_with_len: the name, then "(len)" when there is a length.          *)
WriteWithLen(t) ==
  Chars(TypeName[t.ty]) \o (IF t.arg = None THEN <<>> ELSE Paren(IntText(t.arg[1])))

(* The texts ts[1], ..., ts[n] joined with ", " (itertools join).         *)
JoinComma(ts) ==
  LET J[k \in 0..Len(ts)] ==
        IF k = 0 THEN <<>> ELSE IF k = 1 THEN ts[1] ELSE J[k - 1] \o Chars(", ") \o ts[k]
  IN  J[Len(ts)]

(* The texts Display can give a type: one, but for an Enum whose literals *)
(* have several renderings.                                                *)
TypeTexts(t) ==
  CASE t.ty \in WithLen -> {WriteWithLen(t)}
    [] t.ty \in Unsigned -> {WriteWithLen(t) \o Chars(" UNSIGNED")}
    [] t.ty = "Numeric" ->
         {Chars("NUMERIC") \o
            (CASE t.arg = <<>> -> <<>>
               [] Len(t.arg) = 1 -> Paren(IntText(t.arg[1]))
               [] OTHER -> Paren(IntText(t.arg[1]) \o Chars(", ") \o IntText(t.arg[2])))}
    [] t.ty = "Decimal" ->
         {Chars("DECIMAL") \o Paren(IntText(t.arg[1]) \o Chars(", ") \o IntText(t.arg[2]))}
    [] t.ty = "Varbinary" -> {Chars("VARBINARY") \o Paren(IntText(t.arg[1]))}
    [] t.ty = "Enum" ->
         {Chars("ENUM") \o Paren(JoinComma(ts)) :
            ts \in {f \in [DOMAIN t.vals -> UNION {Render(t.vals[i]) : i \in DOMAIN t.vals}] :
                      \A i \in DOMAIN t.vals : f[i] \in Render(t.vals[i])}}
    [] OTHER -> {Chars(TypeName[t.ty])}

(***************************************************************************)
(* Grammar helpers.                                                        *)
(***************************************************************************)
KW(kw, s) == TagNoCase(Chars(kw), s)

(* preceded(whitespace1, tag_no_case(kw)): a keyword after whitespace.    *)
SpacedKW(kw, s) == Then(Whitespace1(s), LAMBDA ws, u : KW(kw, u))

(* tuple((tag_no_case(w1), whitespace1, tag_no_case(w2)[, whitespace1,   *)
(* tag_no_case(w3)])): the two- and three-word phrases of the grammar.    *)
Phrase(words, s) ==
  Then(KW(words[1], s), LAMBDA a, u :
  Then(SpacedKW(words[2], u), LAMBDA b, w :
    IF Len(words) = 2 THEN Ok(None, w)
    ELSE Then(SpacedKW(words[3], w), LAMBDA c, x : Ok(None, x))))

(* delim_digit: delimited(tag("("), digit1, tag(")"))                     *)
DelimDigit(s) == Delimited(<<"(">>, Digit1, <<")">>, s)

(* delim_u16: map_parser(delim_digit, digit_as_u16)                        *)
DelimU16(s) ==
  Then(DelimDigit(s), LAMBDA ds, u : Then(DigitAsU16(ds), LAMBDA n, w : Ok(n, u)))

(* preceded(tag(","), preceded(whitespace0, digit1))                       *)
CommaDigits(s) == Then(Tag(<<",">>, s), LAMBDA c, u : Digit1(Whitespace0(u).rest))

(* The precision and the optional scale, given the precision mv as an     *)
(* integer, the optional scale digits d and the rest: d as u8.            *)
PrecisionPair(mv, d, rest) ==
  IF d = None THEN Ok(<<mv, None>>, rest)
  ELSE Then(DigitAsU8(d[1]), LAMBDA dv, w : Ok(<<mv, Some(dv)>>, rest))

(* precision_helper: digit1 and an optional ", digit1", both as u8.        *)
PrecisionHelper(s) ==
  Then(Digit1(s), LAMBDA m, u :
  Then(Opt(CommaDigits(u), u), LAMBDA d, w :
  Then(DigitAsU8(m), LAMBDA mv, x : PrecisionPair(mv, d, w))))

(* precision: delimited(tag("("), precision_helper, tag(")"))             *)
Precision(s) == Delimited(<<"(">>, PrecisionHelper, <<")">>, s)

(* numeric_precision_inner: digit1 as u16, whitespace0, an optional        *)
(* ", digit1" as u8.                                                       *)
NumericPrecisionInner(s) ==
  Then(Digit1(s), LAMBDA m, u :
  Then(Whitespace0(u), LAMBDA ws, v :
  Then(Opt(CommaDigits(v), v), LAMBDA d, w :
  Then(DigitAsU16(m), LAMBDA mv, x : PrecisionPair(mv, d, w)))))

(* numeric_precision: delimited(tag("("), numeric_precision_inner, ")")   *)
NumericPrecision(s) == Delimited(<<"(">>, NumericPrecisionInner, <<")">>, s)

(* opt_signed: opt(alt((tag_no_case("unsigned"), tag_no_case("signed"))))  *)
OptSigned(s) ==
      Then(KW("unsigned", s), LAMBDA k, u : Ok(Some("Unsigned"), u))
  (+) Then(KW("signed", s), LAMBDA k, u : Ok(Some("Signed"), u))
  (+) Ok(None, s)

(* int_type: tag_no_case(tag), opt(delim_u16), whitespace0, opt_signed;    *)
(* unsigned only on an explicit UNSIGNED.                                  *)
IntType(kw, unsignedTy, signedTy, s) ==
  Then(KW(kw, s), LAMBDA k, u :
  Then(Opt(DelimU16(u), u), LAMBDA len, w :
  Then(OptSigned(Whitespace0(w).rest), LAMBDA sg, x :
  Ok(SqlType(IF sg = Some("Unsigned") THEN unsignedTy ELSE signedTy, len), x))))

(* decimal_or_numeric: DECIMAL or NUMERIC, opt(precision), whitespace0;   *)
(* Decimal(32, 0) without a precision, scale 0 without a scale.            *)
DecimalOrNumeric(s) ==
  Then(KW("decimal", s) (+) KW("numeric", s), LAMBDA k, u :
  Then(Opt(Precision(u), u), LAMBDA p, w :
  Ok(SqlType("Decimal",
             IF p = None THEN <<32, 0>>
             ELSE <<p[1][1], IF p[1][2] = None THEN 0 ELSE p[1][2][1]>>),
     Whitespace0(w).rest)))

(* preceded(whitespace1, "<kw> time zone")                                 *)
TimeZoneClause(kw, s) ==
  Then(Whitespace1(s), LAMBDA ws, u : Phrase(<<kw, "time", "zone">>, u))

(* opt_without_time_zone                                                   *)
OptWithoutTimeZone(s) == TimeZoneClause("without", s) (+) Ok(None, s)

(* opt(preceded(whitespace0, delim_digit)): a discarded fractional-second  *)
(* precision.                                                              *)
OptFsp(s) == DelimDigit(Whitespace0(s).rest) (+) Ok(None, s)

(* map(kw, |_| ty) for a type without arguments.                           *)
Plain(kw, name, s) == Keyword(kw, SqlType(name, None), s)

(* tag_no_case(kw), opt(delim_u16), and the type of that length.           *)
KWLen(kw, name, s) ==
  Then(KW(kw, s), LAMBDA k, u :
  Then(Opt(DelimU16(u), u), LAMBDA len, w : Ok(SqlType(name, len), w)))

(***************************************************************************)
(* The branches of type_identifier_first_half that take arguments.         *)
(***************************************************************************)
BoolType(s) == Plain("boolean", "Bool", s) (+) Plain("bool", "Bool", s)

(* preceded(tag_no_case("datetime"), opt(delim_u16))                       *)
DateTimeType(s) == KWLen("datetime", "DateTime", s)

(* DOUBLE [PRECISION] [(m[, d])] [SIGNED|UNSIGNED], all discarded.         *)
DoubleType(s) ==
  Then(KW("double", s), LAMBDA k, u :
  Then(Then(Whitespace1(u), LAMBDA ws, x : KW("precision", x)) (+) Ok(None, u),
       LAMBDA pr, v :
  Then(Opt(Precision(Whitespace0(v).rest), Whitespace0(v).rest), LAMBDA p, w :
  Then(OptSigned(Whitespace0(w).rest), LAMBDA sg, y :
  Ok(SqlType("Double", None), y)))))

(* NUMERIC, whitespace0, opt(numeric_precision)                            *)
NumericType(s) ==
  Then(KW("numeric", s), LAMBDA k, u :
  Then(Opt(NumericPrecision(Whitespace0(u).rest), Whitespace0(u).rest), LAMBDA p, w :
  Ok(SqlType("Numeric", IF p = None THEN <<>> ELSE <<p[1][1]>> \o p[1][2]), w)))

(* value_list(dialect): separated_list0(ws_sep_comma, literal(dialect)).   *)
(* One turn of nom's loop on t: a separator, then an element.              *)
ValueListSep(d, t) ==
  Then(Tag(<<",">>, Whitespace0(t).rest), LAMBDA c, u : ParseLiteral(d, Whitespace0(u).rest))

(* The elements acc before the ones the loop read.                        *)
ConsElements(acc, x) == Ok(acc \o x.val, x.rest)

(* The turn's element before the elements the loop reads after it.         *)
ConsElement(v, x) == ConsElements(<<v>>, x)

(* A turn that succeeded extends the list and the loop goes on from its    *)
(* rest; otherwise the list ends before the separator.  The rest is        *)
(* shorter, as the comma was read (nom's no-progress check never fires).   *)
ListTurn(t, r, loop, k) ==
  IF r.ok /\ Len(r.rest) < k THEN ConsElement(r.val, loop[Len(r.rest)]) ELSE Ok(<<>>, t)

(* After the elements acc, the loop on s: loop[k] is the loop run on the   *)
(* last k bytes of s.                                                      *)
ValueListFrom(d, acc, s) ==
  LET loop[k \in 0..Len(s)] ==
        ListTurn(Drop(s, Len(s) - k), ValueListSep(d, Drop(s, Len(s) - k)), loop, k)
  IN  ConsElements(acc, loop[Len(s)])

ValueList(d, s) ==
      Then(ParseLiteral(d, s), LAMBDA e, u : ValueListFrom(d, <<e>>, u))
  (+) Ok(<<>>, s)

(* terminated(preceded(tag_no_case("enum"), delimited(tag("("),            *)
(* value_list(dialect), tag(")"))), whitespace0)                           *)
EnumTypeDef(d, s) ==
  Then(KW("enum", s), LAMBDA k, u :
  Then(Delimited(<<"(">>, LAMBDA x : ValueList(d, x), <<")">>, u), LAMBDA vs, w :
  Ok(EnumType(vs), Whitespace0(w).rest)))

(* FLOAT whitespace0 [(m[, d])] whitespace0                                *)
FloatType(s) ==
  Then(KW("float", s), LAMBDA k, u :
  Then(Opt(Precision(Whitespace0(u).rest), Whitespace0(u).rest), LAMBDA p, w :
  Ok(SqlType("Float", None), Whitespace0(w).rest)))

(* REAL whitespace0 [SIGNED|UNSIGNED]                                      *)
RealType(s) ==
  Then(KW("real", s), LAMBDA k, u :
  Ok(SqlType("Real", None), OptSigned(Whitespace0(u).rest).rest))

(* TIMESTAMP [(fsp)] WITH TIME ZONE                                        *)
TimestampTzType(s) ==
  Then(KW("timestamp", s), LAMBDA k, u :
  Then(TimeZoneClause("with", OptFsp(u).rest), LAMBDA z, w :
  Ok(SqlType("TimestampTz", None), w)))

(* TIMESTAMP [(fsp)] [WITHOUT TIME ZONE]                                   *)
TimestampType(s) ==
  Then(KW("timestamp", s), LAMBDA k, u :
  Ok(SqlType("Timestamp", None), OptWithoutTimeZone(OptFsp(u).rest).rest))

(* opt(delim_u16), whitespace0, opt(tag_no_case("binary")) after a         *)
(* character type; the length is kept.                                     *)
LenBinary(s) ==
  Then(Opt(DelimU16(s), s), LAMBDA len, u :
  Then(Whitespace0(u), LAMBDA ws, v :
  Ok(len, (KW("binary", v) (+) Ok(None, v)).rest)))

(* VARCHAR or CHARACTER VARYING, then a length and BINARY.                 *)
VarcharType(s) ==
  Then(    Then(KW("varchar", s), LAMBDA k, u : Whitespace0(u))
       (+) Phrase(<<"character", "varying">>, s), LAMBDA kk, u :
  Then(LenBinary(u), LAMBDA len, w : Ok(SqlType("Varchar", len), w)))

CharType(s) ==
  Then(KW("char", s), LAMBDA k, u :
  Then(LenBinary(u), LAMBDA len, w : Ok(SqlType("Char", len), w)))

(* type_identifier_first_half(dialect): the alternatives in the code's     *)
(* order; tinyint, smallint and integer before int, datetime before date.  *)
TypeIdentifierFirstHalf(d, s) ==
      IntType("tinyint", "UnsignedTinyint", "Tinyint", s)
  (+) IntType("smallint", "UnsignedSmallint", "Smallint", s)
  (+) IntType("integer", "UnsignedInt", "Int", s)
  (+) IntType("int", "UnsignedInt", "Int", s)
  (+) IntType("bigint", "UnsignedBigint", "Bigint", s)
  (+) BoolType(s)
  (+) DateTimeType(s)
  (+) Plain("date", "Date", s)
  (+) DoubleType(s)
  (+) NumericType(s)
  (+) EnumTypeDef(d, s)
  (+) FloatType(s)
  (+) RealType(s)
  (+) Plain("text", "Text", s)
  (+) TimestampTzType(s)
  (+) TimestampType(s)
  (+) VarcharType(s)
  (+) CharType(s)

(***************************************************************************)
(* The branches of type_identifier_second_half that take arguments.        *)
(***************************************************************************)
TimeType(s) ==
  Then(KW("time", s), LAMBDA k, u : Ok(SqlType("Time", None), OptWithoutTimeZone(u).rest))

(* tag_no_case("binary"), opt(delim_u16), whitespace0                      *)
BinaryType(s) ==
  Then(KWLen("binary", "Binary", s), LAMBDA t, u : Ok(t, Whitespace0(u).rest))

(* tag_no_case("varbinary"), delim_u16, whitespace0                        *)
VarbinaryType(s) ==
  Then(KW("varbinary", s), LAMBDA k, u :
  Then(DelimU16(u), LAMBDA len, w :
  Ok(SqlType("Varbinary", <<len>>), Whitespace0(w).rest)))

(* VARBIT or BIT VARYING, whitespace0, then an optional length.            *)
VarbitType(s) ==
  Then(KW("varbit", s) (+) Phrase(<<"bit", "varying">>, s), LAMBDA k, u :
  Then(Opt(DelimU16(Whitespace0(u).rest), Whitespace0(u).rest), LAMBDA len, w :
  Ok(SqlType("Varbit", len), w)))

(* tuple((tag_no_case("bit"), opt(delim_u16)))                             *)
BitType(s) == KWLen("bit", "Bit", s)

(* Mutant: json tried before jsonb.                                        *)
TypeIdentifierSecondHalfJsonFirst(s) ==
      TimeType(s)
  (+) DecimalOrNumeric(s)
  (+) BinaryType(s)
  (+) Plain("blob", "Blob", s)
  (+) Plain("longblob", "Longblob", s)
  (+) Plain("mediumblob", "Mediumblob", s)
  (+) Plain("mediumtext", "Mediumtext", s)
  (+) Plain("longtext", "Longtext", s)
  (+) Plain("tinyblob", "Tinyblob", s)
  (+) Plain("tinytext", "Tinytext", s)
  (+) VarbinaryType(s)
  (+) Plain("bytea", "ByteArray", s)
  (+) Plain("macaddr", "MacAddr", s)
  (+) Plain("inet", "Inet", s)
  (+) Plain("uuid", "Uuid", s)
  (+) Plain("json", "Json", s)
  (+) Plain("jsonb", "Jsonb", s)
  (+) VarbitType(s)
  (+) BitType(s)
  (+) Plain("serial", "Serial", s)
  (+) Plain("bigserial", "BigSerial", s)

(* type_identifier_second_half, in the code's order.                       *)
TypeIdentifierSecondHalf(s) ==
      TimeType(s)
  (+) DecimalOrNumeric(s)
  (+) BinaryType(s)
  (+) Plain("blob", "Blob", s)
  (+) Plain("longblob", "Longblob", s)
  (+) Plain("mediumblob", "Mediumblob", s)
  (+) Plain("mediumtext", "Mediumtext", s)
  (+) Plain("longtext", "Longtext", s)
  (+) Plain("tinyblob", "Tinyblob", s)
  (+) Plain("tinytext", "Tinytext", s)
  (+) VarbinaryType(s)
  (+) Plain("bytea", "ByteArray", s)
  (+) Plain("macaddr", "MacAddr", s)
  (+) Plain("inet", "Inet", s)
  (+) Plain("uuid", "Uuid", s)
  (+) Plain("jsonb", "Jsonb", s)
  (+) Plain("json", "Json", s)
  (+) VarbitType(s)
  (+) BitType(s)
  (+) Plain("serial", "Serial", s)
  (+) Plain("bigserial", "BigSerial", s)

(* type_identifier(dialect)                                                *)
TypeIdentifier(d, s) == TypeIdentifierFirstHalf(d, s) (+) TypeIdentifierSecondHalf(s)

(* SqlType::from_str: type_identifier(MySQL), the rest of the input        *)
(* dropped, any error mapped to "failed to parse".                         *)
DropRest(r) == [ok |-> r.ok, val |-> r.val]
FromStr(s) == DropRest(TypeIdentifier(MySQL, s))

=============================================================================
