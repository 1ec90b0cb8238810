--------------------------- MODULE LiteralSession ---------------------------
(***************************************************************************)
(* A caller of the literal component, as the tests of common.rs use it     *)
(* (literal_to_string_parse_round_trip and the parsing tests): it renders  *)
(* a value with Display and parses the text back with literal(dialect),    *)
(* or parses a text it was given and renders and re-parses what came out.  *)
(* Each action is one call into the component.                             *)
(***************************************************************************)
EXTENDS LiteralGrammar

CONSTANTS
  GenLiterals,  \* the values the caller constructs
  Inputs        \* the texts the caller parses

(* The caller parses byte texts.                                           *)
ASSUME InputsAssumption == Inputs \subseteq Seq(Bytes)

VARIABLES
  phase,    \* "idle", "rendered", "parsed" or "panicked"
  dialect,  \* the dialect of the current round
  lit,      \* the value rendered in this round, NoValue after ParseText
  text,     \* the text handed to literal(dialect)
  parsed    \* the result of literal(dialect)(text)

vars == <<phase, dialect, lit, text, parsed>>

Init ==
  /\ phase = "idle"
  /\ dialect = MySQL
  /\ lit = NoValue
  /\ text = <<>>
  /\ parsed = Err(<<>>)

(* Display::fmt of l: a text, or the panic of Decimal::from_i128_with_scale *)
RenderValue(l) ==
  /\ lit' = l
  /\ IF RenderPanics(l)
     THEN phase' = "panicked" /\ text' = <<>>
     ELSE phase' = "rendered" /\ \E t \in Render(l) : text' = t
  /\ UNCHANGED parsed

(* The caller renders a value it constructed.                              *)
RenderLiteral(d, l) ==
  /\ phase = "idle"
  /\ dialect' = d
  /\ RenderValue(l)

(* literal(dialect) on the rendered text.                                  *)
Reparse ==
  /\ phase = "rendered"
  /\ parsed' = ParseLiteral(dialect, text)
  /\ phase' = "parsed"
  /\ UNCHANGED <<dialect, lit, text>>

(* literal(dialect) on a text the caller was given.                        *)
ParseText(d, s) ==
  /\ phase = "idle"
  /\ dialect' = d
  /\ lit' = NoValue
  /\ text' = s
  /\ parsed' = ParseLiteral(d, s)
  /\ phase' = "parsed"

(* Display::fmt of the value a text parsed to.                             *)
Rerender ==
  /\ phase = "parsed"
  /\ lit = NoValue
  /\ parsed.ok
  /\ RenderValue(parsed.val)
  /\ UNCHANGED dialect

(* The round is over (or the test panicked); the next starts afresh.      *)
Reset ==
  /\ phase \in {"parsed", "panicked"}
  /\ ~(phase = "parsed" /\ lit = NoValue /\ parsed.ok)
  /\ phase' = "idle"
  /\ dialect' = MySQL
  /\ lit' = NoValue
  /\ text' = <<>>
  /\ parsed' = Err(<<>>)

Next ==
  \/ \E d \in Dialects, l \in GenLiterals : RenderLiteral(d, l)
  \/ Reparse
  \/ \E d \in Dialects, s \in Inputs : ParseText(d, s)
  \/ Rerender
  \/ Reset

Spec == Init /\ [][Next]_vars

(***************************************************************************)
(* Properties.                                                             *)
(***************************************************************************)
Min2(a, b) == IF a < b THEN a ELSE b

(* The precision write_real renders a real with.                           *)
RenderPrec(l) == Min2(l.prec, PrecCap)

(* Spec section 7 (and 4.3, 8): an integer, a real or a numbered           *)
(* placeholder that literal() returns for any text of the caller's set has *)
(* exactly the value of the digits it consumed; overflow of i64 or u32 is  *)
(* a parse failure, never a wrapped or truncated number.  It is about      *)
(* integer_literal's i64::from_str and the negation after it, float's      *)
(* digits, and the u32::from_str of the :N and $N placeholders.            *)
NumbersAsWritten ==
  phase = "parsed" /\ text \in Inputs => ReadsNumber(parsed, text)

(* Round trip: rendering a value of an exact variant and parsing the text  *)
(* under the same dialect gives back an equal value and consumes the      *)
(* whole text (Display for Literal against literal(dialect)).              *)
RoundTripExact ==
  phase = "parsed" /\ lit # NoValue /\ ExactVariant(dialect, lit)
    => /\ parsed.ok
       /\ parsed.rest = <<>>
       /\ LitEq(parsed.val, lit)

(* A Float or Double rendered with a precision of at least one digit       *)
(* re-parses, whole, as a Double with the same sign whose value is the     *)
(* original rounded to that precision and whose precision is at most it:   *)
(* write_real's trimming against float_literal, tried before integers.     *)
RealReparse ==
  phase = "parsed" /\ lit # NoValue /\ lit.tag \in RealTags
  /\ RenderPrec(lit) >= 1
    => /\ parsed.ok
       /\ parsed.rest = <<>>
       /\ parsed.val.tag = "Double"
       /\ parsed.val.neg = lit.neg
       /\ parsed.val.prec <= RenderPrec(lit)
       /\ \E m \in Rounded(lit.num, lit.scale, RenderPrec(lit)) :
            parsed.val.num * 10^RenderPrec(lit) = m * 10^parsed.val.scale

(***************************************************************************)
(* What the spec and the comments of common.rs say, checked by the runs   *)
(* that expect a violation.                                                *)
(***************************************************************************)
(* The round-trip law of spec section 8: every variant but Float, Double,  *)
(* Numeric and ByteArray re-parses to an equal value, in both dialects     *)
(* (BitVector in PostgreSQL, the only dialect the test tries it in).       *)
RoundTripLaw ==
  phase = "parsed" /\ lit # NoValue
  /\ lit.tag \notin RealTags \cup {"Numeric", "ByteArray"}
  /\ (lit.tag = "BitVector" => dialect = PostgreSQL)
    => /\ parsed.ok
       /\ parsed.rest = <<>>
       /\ LitEq(parsed.val, lit)

(* write_real's comment and spec section 4.4: the text of a Float or       *)
(* Double keeps a digit after the point ("0.0", never "0." or "0"), so it *)
(* is a float literal of its own.                                          *)
RealTextIsFloat ==
  phase = "rendered" /\ lit.tag \in RealTags
    => LET r == FloatLiteral(text) IN r.ok /\ r.rest = <<>>

(* Display for Literal never panics.                                       *)
RenderTotal == phase # "panicked"

=============================================================================
