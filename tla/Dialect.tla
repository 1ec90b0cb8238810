------------------------------ MODULE Dialect ------------------------------
(***************************************************************************)
(* The dialect contract (dialect.rs, outside src/): the lexical primitives *)
(* the grammar of common.rs calls with an explicit Dialect value.  Only    *)
(* the primitives the literal grammar reaches are here, modelled from the  *)
(* spec (section 4.1) and from what common.rs and its tests rely on:       *)
(*   - string_literal: MySQL accepts '...' and "...", PostgreSQL '...';    *)
(*     inside, a doubled quote stands for the quote and a backslash        *)
(*     escapes the next byte; the result is the raw bytes;                 *)
(*   - bytes_literal: PostgreSQL E'\x<hex pairs>';                         *)
(*   - bitvec_literal: PostgreSQL B'<binary digits>';                      *)
(*   - identifier: a bare word that is not a reserved keyword, or a quoted *)
(*     name (backticks in MySQL, double quotes in PostgreSQL).            *)
(* The tests of common.rs only round-trip BitVector under PostgreSQL, so   *)
(* the MySQL bytes and bit-vector primitives are taken to fail.            *)
(***************************************************************************)
EXTENDS Integers, Sequences, SqlText

MySQL == "MySQL"
PostgreSQL == "PostgreSQL"
Dialects == {MySQL, PostgreSQL}

(* Bytes that are not characters of the printable alphabet.                *)
NUL == "<NUL>"
DEL == "<DEL>"
CR == "<CR>"
TAB == "<TAB>"
SUB == "<SUB>"
BadByte == "<0xFF>"   \* a byte that can not start a UTF-8 sequence

(* Printable ASCII, codes 32 to 126; the grave accent, which a TLA+ string *)
(* can not hold, is the abstract character "<96>".                         *)
Printable ==
  Chars(" !\"#$%&'()*+,-./0123456789:;<=>?@ABCDEFGHIJKLMNOPQRSTUVWXYZ[\\]^_")
  \o <<"<96>">> \o Chars("abcdefghijklmnopqrstuvwxyz{|}~")

(* Every byte of the model's alphabet.                                     *)
Bytes == {Printable[i] : i \in DOMAIN Printable} \cup {NUL, DEL, CR, TAB, SUB, BadByte, "\n"}

(* The byte value of a character of the model's alphabet.                  *)
ByteCode(c) ==
  CASE c = NUL -> 0 [] c = TAB -> 9 [] c = "\n" -> 10 [] c = CR -> 13
    [] c = SUB -> 26 [] c = DEL -> 127 [] c = BadByte -> 255
    [] OTHER -> 31 + CHOOSE i \in DOMAIN Printable : Printable[i] = c

(* The escapes of raw_string_quoted: \b \r \n \t \0 \Z stand for control   *)
(* bytes, a backslash before any other byte stands for that byte.          *)
Unescape(c) ==
  CASE c = "b" -> DEL [] c = "r" -> CR [] c = "n" -> "\n" [] c = "t" -> TAB
    [] c = "0" -> NUL [] c = "Z" -> SUB [] OTHER -> c

StringQuotes(d) == IF d = MySQL THEN {"'", "\""} ELSE {"'"}

(***************************************************************************)
(* The body of a literal quoted with q, starting at s[1] = q.  Scan[i]     *)
(* decodes from position i to the closing quote: the decoded bytes and    *)
(* the position of the closing quote.                                      *)
(***************************************************************************)
RawQuoted(q, s) ==
  LET n == Len(s)
      Cons(c, r) == IF r.ok THEN [r EXCEPT !.bytes = <<c>> \o @] ELSE r
      Scan[i \in 1..n + 2] ==
        IF i > n THEN [ok |-> FALSE, bytes |-> <<>>, close |-> 0]
        ELSE IF s[i] = q
          THEN IF i < n /\ s[i + 1] = q
                 THEN Cons(q, Scan[i + 2])
                 ELSE [ok |-> TRUE, bytes |-> <<>>, close |-> i]
        ELSE IF s[i] = "\\"
          THEN IF i < n THEN Cons(Unescape(s[i + 1]), Scan[i + 2])
                        ELSE [ok |-> FALSE, bytes |-> <<>>, close |-> 0]
        ELSE Cons(s[i], Scan[i + 1])
      body == Scan[2]
  IN  IF n >= 1 /\ s[1] = q /\ body.ok
      THEN Ok(body.bytes, Drop(s, body.close))
      ELSE Err(s)

StringLiteral(d, s) ==
  IF \E q \in StringQuotes(d) : RawQuoted(q, s).ok
  THEN IF RawQuoted("'", s).ok THEN RawQuoted("'", s) ELSE RawQuoted("\"", s)
  ELSE Err(s)

HexDigits == Chars("0123456789abcdef")
HexValue(c) == CHOOSE v \in 0..15 : HexDigits[v + 1] = CaseFold(c)

BytesLiteral(d, s) ==
  LET open == Tag(Chars("E'\\x"), s)
      k == RunLength({HexDigits[i] : i \in 1..16}, open.rest)
      hex == SubSeq(open.rest, 1, k)
      close == Tag(<<"'">>, Drop(open.rest, k))
  IN  IF d = PostgreSQL /\ open.ok /\ close.ok /\ k % 2 = 0
      THEN Ok([j \in 1..(k \div 2) |->
                 16 * HexValue(hex[2 * j - 1]) + HexValue(hex[2 * j])],
              close.rest)
      ELSE Err(s)

(* B'<bits>' parsed into a bit vector: a sequence of booleans.             *)
BitvecLiteral(d, s) ==
  LET open == Tag(<<"B", "'">>, s)
      k == RunLength({"0", "1"}, open.rest)
      close == Tag(<<"'">>, Drop(open.rest, k))
  IN  IF d = PostgreSQL /\ open.ok /\ close.ok
      THEN Ok([j \in 1..k |-> open.rest[j] = "1"], close.rest)
      ELSE Err(s)

(***************************************************************************)
(* identifier().  A bare identifier is the longest run of identifier      *)
(* characters, refused when it is a reserved keyword (compared case-      *)
(* insensitively, as sql_keyword does); a quoted one is a non-empty run   *)
(* of other characters between two quote characters.  Like every dialect  *)
(* primitive it consumes nothing when it fails.  Keywords holds the       *)
(* reserved words the grammar of common.rs itself spells.                  *)
(***************************************************************************)
IdentChars == {c \in Bytes :
                 \/ CaseFold(c) \in {SubSeq(LowerLetters, i, i) : i \in 1..26}
                 \/ c \in Digits \/ c = "_"}
Keywords == {Chars(k) : k \in {"as", "if", "not", "exists", "comment"}}
IsKeyword(w) == [i \in DOMAIN w |-> CaseFold(w[i])] \in Keywords

IdentQuote(d) == IF d = MySQL THEN "<96>" ELSE "\""

Identifier(d, s) ==
  LET k == RunLength(IdentChars, s)
      q == IdentQuote(d)
      n == RunLength({s[i] : i \in DOMAIN s} \ {q}, Drop(s, 1))
  IN  IF k > 0 /\ ~IsKeyword(SubSeq(s, 1, k))
      THEN Ok(SubSeq(s, 1, k), Drop(s, k))
      ELSE IF Len(s) >= n + 2 /\ n > 0 /\ s[1] = q /\ s[n + 2] = q
      THEN Ok(SubSeq(s, 2, n + 1), Drop(s, n + 2))
      ELSE Err(s)

=============================================================================
