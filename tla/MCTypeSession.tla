--------------------------- MODULE MCTypeSession ---------------------------
(***************************************************************************)
(* Small instances of the type session for TLC.                            *)
(***************************************************************************)
EXTENDS TypeSession, TLC

(* The variants without arguments.                                         *)
MCPlainTypes ==
  {"Bool", "Blob", "Longblob", "Mediumblob", "Tinyblob", "Double", "Float",
   "Real", "Tinytext", "Mediumtext", "Longtext", "Text", "Date", "Time",
   "Timestamp", "TimestampTz", "Json", "Jsonb", "ByteArray", "MacAddr",
   "Inet", "Uuid", "Serial", "BigSerial"}

(* Every variant, with no length and with a length or precision.           *)
MCGenTypes ==
  {SqlType(n, None) : n \in MCPlainTypes}
  \cup {SqlType(n, a) : n \in WithLen \cup Unsigned, a \in {None, <<5>>}}
  \cup {SqlType("Numeric", a) : a \in {<<>>, <<10>>, <<10, 2>>}}
  \cup {SqlType("Decimal", <<10, 2>>), SqlType("Varbinary", <<5>>)}
  \cup {EnumType(<<>>), EnumType(<<String(Chars("a")), Integer(3)>>),
        EnumType(<<String(Chars("it's"))>>)}

(* Texts of the forms the grammar accepts, and some it reads in part.      *)
MCTypeInputs ==
  {Chars(t) : t \in
     {"integer(16)", "int(5) unsigned", "TINYINT signed",
      "double precision(16,12)", "character varying(20)",
      "timestamp(6) with time zone", "time without time zone",
      "enum('a', 'b',3)", "bit varying(10)", "varchar(200)", "int8",
      "char(5) binary", "decimal", "numeric (5, 2)", "datetime", "xyz"}}

(* Texts a PostgreSQL user writes for other types: each has a prefix that *)
(* is a type keyword.                                                      *)
MCPrefixInputs ==
  {Chars(t) : t \in {"float8", "timestamptz", "character(10)"}}

(* A length and a precision too wide for u16 and u8.                       *)
MCOverflowInputs ==
  {Chars(t) : t \in {"varchar(200)", "decimal(70)"}}

(* The texts from_str is handed that are not a whole type it can read.     *)
MCFromStrInputs == MCPrefixInputs \cup MCOverflowInputs

(* DECIMAL texts with no precision, a zero precision, a scale larger than  *)
(* the precision.                                                          *)
MCDecimalInputs ==
  {Chars(t) : t \in {"decimal", "decimal(0)", "decimal(2, 5)"}}

MCNumericInputs == {Chars("numeric")}

MCNoTypes == {}

=============================================================================
