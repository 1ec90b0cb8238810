------------------------- MODULE MCLiteralSession -------------------------
(***************************************************************************)
(* A small instance of LiteralSession for TLC.  i64 shrinks to 4 bits      *)
(* (-8..7), u32 to 4 bits, u8 to 2 bits (precisions 0..3), and the         *)
(* precision cap of write_real from 30 to 2, so that every boundary the    *)
(* code has (i64::MIN, u32 overflow, the u8 cast, the cap) is reached by   *)
(* texts of a few characters.                                              *)
(***************************************************************************)
EXTENDS LiteralSession, TLC

MCStrings == {<<>>, <<"a">>, <<"'">>, <<"\\">>, <<"a", "'">>, <<"\\", "'">>}
MCBytes == {<<>>, <<0>>, <<10>>, <<171>>, <<1, 35>>}

(* Reals are generated as quarters (exact in binary): k / 4 = 25k / 100.   *)
MCReals ==
  {Real(kind, neg, 25 * k, 2, p) :
     kind \in RealTags, neg \in BOOLEAN, k \in {0, 1, 2, 3, 5, 39}, p \in 1..3}

MCGenLiterals ==
  {Null, CurrentTime, CurrentDate, CurrentTimestamp}
  \cup {Boolean(b) : b \in BOOLEAN}
  \cup {Integer(i) : i \in IntMin..IntMax}
  \cup {String(s) : s \in MCStrings}
  \cup {Blob(b) : b \in MCBytes}
  \cup {ByteArray(b) : b \in MCBytes}
  \cup {BitVector(b) : b \in {<<>>, <<5>>, <<255>>}}
  \cup {Placeholder("QuestionMark", 0)}
  \cup {Placeholder(k, n) : k \in {"DollarNumber", "ColonNumber"}, n \in {0, 7, 15}}
  \cup {Numeric(m, s) : m \in {-15, 0, 150}, s \in {0, 2}}
  \cup MCReals

MCAlphabet == {"1", "-", ".", "'", "\"", "?", "$"}

MCInputs ==
  UNION {[1..n -> MCAlphabet] : n \in 0..3}
  \cup {Chars(t) : t \in {"tRuE", "FALSE", "null", "Current_Date", "-0.50",
                          "1.0000", "16", "-8", "$16", ":007", "'a''b'",
                          "'\\'x'", "\"q\"\"\"", "'<0xFF>'", "E'\\x0a'",
                          "B'101'", "12.345", "7.", "-.5"}}

(* The values literal_to_string_parse_round_trip draws: Blob has weight 0. *)
MCProptestLiterals == MCGenLiterals \ {Blob(b) : b \in MCBytes}
MCBlobLiterals == {Blob(b) : b \in MCBytes}
MCPrecZeroReals ==
  {Real(kind, neg, 25 * k, 2, 0) : kind \in RealTags, neg \in BOOLEAN, k \in {0, 4, 40}}
MCNumerics == {Numeric(m, s) : m \in {-15, 0, 300}, s \in 0..2}
MCNoInputs == {}
MCNoLiterals == {}
(* Float texts with more fraction digits than a u8 counts (here 2 bits).   *)
MCLongFractions == {Chars("1.0000"), Chars("-2.5000"), Chars("0.00")}
=============================================================================
