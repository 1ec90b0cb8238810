---------------------------- MODULE TypeSession ----------------------------
(***************************************************************************)
(* A caller of the type component: it renders a SqlType with Display and   *)
(* parses the text back with type_identifier(dialect), as a CREATE TABLE   *)
(* statement written by the renderer is read again; or it parses a type    *)
(* text it was given, with type_identifier(dialect) or with                *)
(* SqlType::from_str, and renders and re-parses the result.  Each action   *)
(* is one call into the component.                                         *)
(***************************************************************************)
EXTENDS TypeGrammar

CONSTANTS
  GenTypes,    \* the types the caller constructs
  TypeInputs   \* the type texts the caller parses

(* The caller parses byte texts.                                           *)
ASSUME TypeInputsAssumption == TypeInputs \subseteq Seq(Bytes)

VARIABLES
  phase,    \* "idle", "rendered", "parsed" (type_identifier) or "converted" (from_str)
  dialect,  \* the dialect of the current round
  ty,       \* the type rendered in this round, NoValue after a parse
  text,     \* the text handed to the parser
  parsed    \* the result of the parser

vars == <<phase, dialect, ty, text, parsed>>

Init ==
  /\ phase = "idle"
  /\ dialect = MySQL
  /\ ty = NoValue
  /\ text = <<>>
  /\ parsed = Err(<<>>)

(* Display::fmt of t.                                                      *)
RenderType(d, t) ==
  /\ phase = "idle"
  /\ dialect' = d
  /\ ty' = t
  /\ text' \in TypeTexts(t)
  /\ phase' = "rendered"
  /\ UNCHANGED parsed

(* type_identifier(dialect) on the rendered text.                          *)
Reparse ==
  /\ phase = "rendered"
  /\ parsed' = TypeIdentifier(dialect, text)
  /\ phase' = "parsed"
  /\ UNCHANGED <<dialect, ty, text>>

(* type_identifier(dialect) on a text the caller was given.                *)
ParseText(d, s) ==
  /\ phase = "idle"
  /\ dialect' = d
  /\ ty' = NoValue
  /\ text' = s
  /\ parsed' = TypeIdentifier(d, s)
  /\ phase' = "parsed"

(* s.parse::<SqlType>(): FromStr always reads MySQL.                       *)
ConvertText(s) ==
  /\ phase = "idle"
  /\ dialect' = MySQL
  /\ ty' = NoValue
  /\ text' = s
  /\ parsed' = FromStr(s)
  /\ phase' = "converted"

(* Display::fmt of the type a text parsed to.                              *)
Rerender ==
  /\ phase \in {"parsed", "converted"}
  /\ ty = NoValue
  /\ parsed.ok
  /\ ty' = parsed.val
  /\ text' \in TypeTexts(parsed.val)
  /\ phase' = "rendered"
  /\ UNCHANGED <<dialect, parsed>>

(* The round is over; the next starts afresh.                              *)
Reset ==
  /\ phase \in {"parsed", "converted"}
  /\ ~(ty = NoValue /\ parsed.ok)
  /\ phase' = "idle"
  /\ dialect' = MySQL
  /\ ty' = NoValue
  /\ text' = <<>>
  /\ parsed' = Err(<<>>)

Next ==
  \/ \E d \in Dialects, t \in GenTypes : RenderType(d, t)
  \/ Reparse
  \/ \E d \in Dialects, s \in TypeInputs : ParseText(d, s)
  \/ \E s \in TypeInputs : ConvertText(s)
  \/ Rerender
  \/ Reset

Spec == Init /\ [][Next]_vars

(***************************************************************************)
(* Properties.                                                             *)
(***************************************************************************)
(* The types whose text re-parses to an equal type: all, but an Enum with  *)
(* a literal that does not round-trip (ExactVariant).                      *)
ExactType(d, t) ==
  t.ty = "Enum" => \A i \in DOMAIN t.vals : ExactVariant(d, t.vals[i])

(* The number n is written in s: it is the value of a run of digits of s  *)
(* that ends where the digits of s end (digit1 reads to the last digit).   *)
Written(n, s) ==
  \E i, j \in 1..Len(s) :
    /\ i <= j
    /\ IsDigitRun(SubSeq(s, i, j))
    /\ j < Len(s) => s[j + 1] \notin Digits
    /\ n = DecValue(SubSeq(s, i, j))

(* The precision and scale decimal_or_numeric puts in when none is read.   *)
DecimalDefault == <<32, 0>>

(* Every integer argument of the type t is written in s, but a default    *)
(* precision or scale of a Decimal.                                        *)
ArgsWritten(t, s) ==
  \A a \in DOMAIN t.arg :
    \/ Written(t.arg[a], s)
    \/ t.ty = "Decimal" /\ t.arg[a] = DecimalDefault[a]

(* Spec sections 7 and 8: a length, precision or scale of a type that      *)
(* type_identifier or SqlType::from_str returns for a text of the caller's *)
(* set is the value of digits written in the text: digit_as_u16,           *)
(* digit_as_u8 and delim_u16 fail on overflow, never wrap or truncate.     *)
ArgsAsWritten ==
  phase \in {"parsed", "converted"} /\ text \in TypeInputs /\ parsed.ok
    => ArgsWritten(parsed.val, text)

(* Round trip of types: the text Display gives a type, whether the caller *)
(* built it or parsed it, is read back by type_identifier under the same   *)
(* dialect, whole, as an equal type.  It rests on the order of the         *)
(* alternatives (tinyint before int, datetime before date, jsonb before    *)
(* json, the WITH TIME ZONE timestamp before the plain one) and on every   *)
(* argument Display writes being read back.                                *)
TypeRoundTrip ==
  phase = "parsed" /\ ty # NoValue /\ ExactType(dialect, ty)
    => /\ parsed.ok
       /\ parsed.rest = <<>>
       /\ parsed.val = ty

(***************************************************************************)
(* What the spec says, checked by the runs that expect a violation.       *)
(***************************************************************************)
(* Spec section 6: SqlType::from_str parses a standalone type name: a text *)
(* it accepts is a type and nothing else, so type_identifier consumes all *)
(* of it; and by sections 7 and 8 a length that overflows u16 is a parse  *)
(* failure, not dropped.                                                   *)
FromStrStandalone ==
  phase = "converted" /\ parsed.ok => TypeIdentifier(MySQL, text).rest = <<>>

(* Spec section 3: a Decimal(precision, scale) has 1 <= precision <= 30,   *)
(* and scale <= precision.                                                 *)
DecimalInRange ==
  phase = "parsed" /\ parsed.ok /\ parsed.val.ty = "Decimal"
    => /\ parsed.val.arg[1] \in 1..30
       /\ parsed.val.arg[2] <= parsed.val.arg[1]

(* Spec section 4.2: DECIMAL or NUMERIC with no precision parses as        *)
(* Decimal(32, 0).                                                         *)
BareNumericIsDecimal ==
  phase = "parsed" /\ ty = NoValue
  /\ (\E kw \in {"decimal", "numeric"} :
         KW(kw, text).ok /\ KW(kw, text).rest = <<>>)
    => parsed.val = SqlType("Decimal", <<32, 0>>)

=============================================================================
