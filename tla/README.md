# TLA+ models of nom-sql's common grammar (`src/nom-sql/src/common.rs`)

`common.rs` holds the value models and the building-block grammars that the
statement parsers of nom-sql are built from. The parts, and how they use one
another:

| Part | Code | Uses |
|---|---|---|
| numeric lexing | `digit_as_u8`, `digit_as_u16`, the `from_str` calls and the `as u8` cast | nom's `digit1` |
| literal values | `enum Literal`, `Float`, `Double` (bit-pattern `PartialEq`/`Hash`), `ItemPlaceholder`, `Display for Literal` | `rust_decimal`, `bit_vec` |
| literal grammar | `float`, `float_literal`, `integer_literal`, `boolean_literal`, `literal(dialect)` | the dialect's `string_literal`, `bytes_literal` and `bitvec_literal` |
| SqlType | `enum SqlType`, `Display for SqlType`, `FromStr for SqlType` | the type grammar |
| type grammar | `type_identifier(dialect)` = first half, then second half; `int_type`, `precision`, `numeric_precision`, `delim_u16`, `opt_signed`, `decimal_or_numeric`, `opt_without_time_zone` | `value_list` (for ENUM), and through it `literal` |
| function-call grammar | `agg_function_arguments`, `group_concat`, `column_function` | `expression` (expression.rs) |
| reference and list grammars | `column_identifier_no_alias`, `as_alias`, `table_reference`, `schema_table_reference(_no_alias)`, `table_list`, `field_list`, `if_not_exists`, `statement_terminator`, `parse_comment`, `field_reference`, `opt_delimited` | `Dialect::identifier`, `ws_sep_comma` |
| constraints | `IndexType`, `ReferentialAction`, `TableKey` with `Display` | identifiers, `Display for Table`, expressions |

Nothing in this file holds shared state or runs concurrently: every parser is
a pure function from a byte span to a result, and every `Display` a pure
function to text. The hard part is in the data: ordered alternation where the
first success wins, keyword prefixes, fixed-width integer conversions, and
the promise that rendered text parses back to the same value. So the models
are of callers: a *session* calls the component as the tests in `common.rs`
do (render, parse, render again), one call per step, and the properties
relate what was rendered to what was parsed back.

## Modules

- `SqlText` holds the nom primitives the grammar uses: `tag`, `tag_no_case`
  and `digit1`, and `whitespace0`/`whitespace1` from whitespace.rs. Neither is
  under src/, so these are modelled from the spec. A span `&[u8]` is a
  sequence of one-character strings. A result is
  `[ok, val, rest]`: `Ok(v, rest)` for success, `Err(at)` for a nom
  `Err::Error`. `Then(r, K)` is nom's sequencing (`tuple`, `preceded`,
  `terminated`): the continuation `K` gets the value and the rest of a
  successful parse. `Delimited(l, P, r, s)` is `delimited(tag(l), p, tag(r))`.
  The type grammar is written with them, so that each sub-parse occurs once
  in a definition, as in the code, and is never restated.
- `NumericLex` holds the widths of `i64`, `u32`, `u16` and `u8` as CONSTANTS
  (`IntBits`, `U32Bits`, `U16Bits`, `U8Bits`). `FromStrBounded` is
  `<uN>::from_str` on a digit span: it fails on overflow and never wraps.
  `DigitAsU16`/`DigitAsU8` keep the whole span as the rest, as the code does.
  `AsU8` is the truncating cast `n % 2^U8Bits`.
- `Dialect` (spec_modelled: dialect.rs is not under src/) models
  `string_literal` with MySQL `'..'` and `".."`, PostgreSQL `'..'`, doubled
  quotes and backslash escapes. It also models the PostgreSQL
  `bytes_literal` `E'\x..'` and `bitvec_literal` `B'..'`.
- `LiteralGrammar` holds the literal values, one record shape per variant.
  A real is a decimal `num / 10^scale` with a sign bit and its precision.
  The generated values are quarters, which are exact in binary.
  - `Render(l)` is `Display for Literal` and returns the *set* of texts.
    `write_real`'s `format!("{:.*}")` may round a tie either way.
    `RenderPanics` is the panic of `Decimal::from_i128_with_scale`.
  - The grammar mirrors the code: `FloatLiteral`, `IntegerLiteral`,
    `StringOrBlob`, `Keyword`, `Numbered`.
  - `r1 (+) r2` is nom's `alt` of two parsers. `ParseLiteral` is `literal`
    with its alternatives in the code's order.
- `LiteralSession` is the caller of `literal_to_string_parse_round_trip` and
  of the parsing tests. Its state: `phase`, `dialect`, the rendered literal
  `lit`, `text` and the `parsed` result. Its actions:
  - `RenderLiteral(d, l)` calls `to_string`. It either renders or panics.
  - `Reparse` calls `literal(dialect)` on the rendered text.
  - `ParseText(d, s)` parses a given text.
  - `Rerender` renders what was parsed.
  - `Reset` starts a new round.
- `TypeGrammar` holds the SqlType model. A type is a record `[ty, arg, vals]`:
  `arg` is the sequence of integer arguments, with `Option<u16>` as `<<>>`
  or `<<n>>`, and `vals` holds the literals of an Enum.
  - `TypeTexts(t)` is `Display for SqlType`.
  - Every branch of both halves of `type_identifier` is an operator, and the
    halves list them in the code's order.
  - `Phrase(words, s)` is the `tuple` of two or three keywords separated by
    `whitespace1` (`CHARACTER VARYING`, `BIT VARYING`, `WITHOUT TIME ZONE`).
  - `ValueList` is `separated_list0(ws_sep_comma, literal(dialect))`.
    `ValueListFrom` is nom's loop, written as a recursive function over the
    length of the text still to be read. A turn (`ListTurn`) takes a
    separator and an element (`ValueListSep`). When both parse, the element
    is put before the elements of the loop on the shorter rest. Otherwise
    the list ends before the separator.
  - The module declares no RECURSIVE operator, so that TLAPS can use its
    SMT backend on it. `TypeWidthAssumption` states that a u8 fits in a u16
    and that the default precision 32 is a u8.
  - `FromStr` is `type_identifier(MySQL)` with the rest dropped.
- `TypeSession` has the same shape for types, with one more action:
  `RenderType`, `Reparse`, `ParseText` (`type_identifier`), `ConvertText`
  (`s.parse::<SqlType>()`), `Rerender` and `Reset`.
- `RefGrammar` holds the reference and list grammars, written with the
  same combinators. `Column` and `Table` are the value records of
  column.rs and table.rs. `Dialect` now also models `identifier()` from the
  spec: a bare run of letters, digits and `_` that is not a reserved
  keyword, or a name between the dialect's quotes (backtick for MySQL, `"`
  for PostgreSQL). Then, following the code:
  - `ColumnIdentifierNoAlias`: `opt(QualifierPrefix)` (a name, then `.`
    with whitespace0 on both sides), then a name;
  - `AsAlias`: whitespace1, an optional `AS` and whitespace1, a name;
  - `TableReference`, `SchemaTableReference(NoAlias)` with the schema's
    `.` taking no whitespace;
  - `SeparatedList1`/`SeparatedList0` are nom's loops. `SepNext` is one
    separator and the next element. `SepTurn` is one turn: it pushes the
    element when both parse, and otherwise marks the loop done before the
    separator. `SepMore` runs the loop as a recursive function indexed by
    the length of the text still to be read (`SepFrom`), so its depth is the
    number of elements and no RECURSIVE operator is declared. `TableList`
    and `FieldList` use them with `ws_sep_comma`;
  - `IfNotExists`, `Eof`, `StatementTerminator` (`whitespace0`, then `;`,
    a line ending or the end, then `whitespace0`), and `ParseComment`
    (`take_until("'")`, then `from_utf8`, which fails on `BadByte`).
- `RefContract` is the abstract specification of those parsers. It is
  written from the spec (sections 4.1, 4.6 and 6), not from the code.
  Its state is the text still to be read and the last call. A call either
  fails and reads nothing, or reads a prefix that *spells* the value it
  returns. Spelling is given by recognisers (`IsColumn`, `IsTable`,
  `IsList`, `IsTerminator`, `IsComment`...), predicates on a span built
  with `Cat(A, B, p)`: p is an A followed by a B. `IsList` is a recursive
  function: `From[j]` is the set of positions where the elements from the
  j-th on can start (`ElementFrom`, `CommaFrom`).
- `RefSession` is a statement parser that calls one of the nine entry
  points at each step, in any order, on the rest of the text. Its state is
  `dialect`, `text` and `last`, the same variables as the contract's, so
  `Contract == INSTANCE RefContract` needs no WITH. It has one more
  variable, `list`, for the loop of `table_list` and `field_list`. The
  contract does not see it.
  - `Read(e, r)` is one call of an entry point whose parse is a single
    function of the text. `Call` records it, and moves the reader to the
    rest only on a success.
  - `table_list` and `field_list` run their loop inside one call, and the
    model takes that loop a turn at a time. `OpenList` reads the first
    element. When that fails, `table_list` fails and `field_list` returns
    the empty list (alt's second branch). `ListTurn` is one turn of
    `separated_list1` (`SepTurn` on `SepNext`). `EndTurn` ends the call
    when the loop is done, with the elements read and the span before the
    separator that failed. While a list is open, no other entry point is
    called, so the turns stay inside the one call.
- `KeyRender` holds `IndexType`, `ReferentialAction` and `TableKey`, one
  record shape for the six variants, and `KeyText`, which is `Display for
  TableKey` variant by variant (`ColumnList`, `OptName`, `Using`,
  `OnAction`, `Enforcement`). A CHECK expression is the text its Display
  writes, and `TableText` is `Display for Table` from the spec.
- `KeySession` writes the constraints of a CREATE TABLE one at a time:
  `AddKey(k)` renders `k`, up to `MaxKeys` per table, and `NextTable` starts
  the next statement.
- `SqlTextProofs`, `LiteralGrammarProofs`, `LiteralSessionProofs` and
  `TypeSessionProofs` hold the TLAPS proofs (see
  "What is proved").
- `MCLiteralSession`, `MCTypeSession`, `MCRefSession` and `MCKeySession`
  hold the constants of the TLC runs.

An action is one whole call into the component: the parser with all its
alternatives, or `Display` with its trailing trimming. The model never takes
half a call.

## Runs

| Run | Expect | Properties | What it shows |
|---|---|---|---|
| literal_session | pass | NumbersAsWritten, RoundTripExact, RealReparse | See below. |
| literal_int_min | violation | RoundTripLaw | `Integer(i64::MIN)` renders as `-8` (4-bit i64), which `integer_literal` rejects: `from_str` reads the magnitude before negating it. |
| literal_blob | violation | RoundTripLaw | `Blob` renders as bare hex, so it does not re-parse; the spec's law excepts only Float, Double, Numeric and ByteArray. |
| literal_real_point | violation | RealTextIsFloat | At precision 0, `write_real` trims `0` to the empty text and `10` to `1`, against its own comment; `1.0000` gets precision `4 as u8 = 0` with a 2-bit u8 and renders the same way. |
| literal_numeric_panic | violation | RenderTotal | `Display` panics for a Numeric outside rust_decimal's range. |
| type_session | pass | ArgsAsWritten, TypeRoundTrip | See below. |
| type_from_str | violation | FromStrStandalone | `float8`, `timestamptz` and `character(10)` are read as FLOAT, TIMESTAMP and CHAR, and an overflowing length or precision is dropped by `opt(..)` (`DECIMAL(70)` gives `Decimal(32, 0)`); the rest is ignored. |
| type_decimal_range | violation | DecimalInRange | `DECIMAL`, `DECIMAL(0)` and `DECIMAL(2, 5)` break the spec's `1 <= precision <= 30`, `scale <= precision`. |
| ref_session | pass | WholeFormsParse, RefinesContract | See below. |
| ref_terminator | violation | TerminatorAcceptsLineEnding | After a column, `statement_terminator` fails on `\na`: `whitespace0` eats the newline before `line_ending` is tried, so that branch is dead, against the spec's "`;`, a line ending or the end". |
| key_session | pass | KeysRenderApart, KeyColumnsReparse | See below. |
| type_numeric_default | violation | BareNumericIsDecimal | `NUMERIC` is `Numeric(None)`, not the spec's `Decimal(32, 0)`: that branch of `decimal_or_numeric` is dead. |

The properties of the passing runs:

- **RoundTripExact**: every exact variant, rendered and re-parsed under the
  same dialect, comes back whole and equal. The same holds when the value
  was first parsed from a given text.
- **RealReparse**: a real rendered with at least one digit comes back as a
  Double with the same sign, the rounded value and at most that precision.
  This rests on `float_literal` being tried before `integer_literal`.
- **TypeRoundTrip**: every SqlType variant, with and without arguments,
  built or parsed, renders to a text that `type_identifier` reads back whole
  as an equal type. This rests on the order of the alternatives (`tinyint`
  before `int`, `datetime` before `date`, `jsonb` before `json`) and on
  every argument that Display writes being read back.
- **RefinesContract**: the reference session implements `RefContract`.
  Checked as a PROPERTY (`Contract!Spec`), this says every call of every
  entry point, from every state reached, reads exactly a prefix that spells
  its value in the spec's grammar, and a failure reads nothing. A list that
  stops before a trailing comma, an alias read without its whitespace, or a
  comment that ends at the wrong quote breaks it.
- **WholeFormsParse**: the converse direction, for the values made of the
  names `a` and `as`: when the whole text handed to an entry point spells a
  value, the call succeeds with that value and reads all of the text. It
  rests on `identifier()` refusing the keyword `AS` (so `t AS a` is not the
  table `t` aliased `AS`), on the whitespace around a column's dot, and on
  the loop of `separated_list`.
- **KeysRenderApart**: two constraints of one table that render to the same
  text are equal, except for the tables of their columns, which Display
  does not write.
- **KeyColumnsReparse**: every column list a constraint renders (and the
  referenced columns of a foreign key) reads back with `field_list` under
  MySQL as the names of its columns, including the keyword `as`, which
  only the backticks make a name.
- **NumbersAsWritten** (literal session, spec sections 7 and 8): an
  Integer, a real or a numbered placeholder that `literal` reads from a
  given text is the value of the digits it read, with their sign: the
  integer is the signed run of digits, a real's mantissa and scale are the
  digits on both sides of its point, a placeholder's number the digits after
  its sigil. A parse that overflowed i64 or u32 must fail; wrapping it, or
  negating a wrapped magnitude, reads `9` as `-7`.
- **ArgsAsWritten** (type session, spec sections 7 and 8): every length,
  precision and scale of a type that `type_identifier` or `from_str` reads
  from a given text is the value of a run of digits of that text (a run
  that ends where the digits end), except the defaults `(32, 0)` that
  `decimal_or_numeric` puts in. `digit_as_u16` or `digit_as_u8` wrapping an
  overflow (`VARCHAR(200)` read as `Varchar(72)` at 7 bits) breaks it.

Each property of a passing run has a mutant, a plausible bug, that TLC
catches:

- `integer_literal` wrapping the magnitude modulo 2^64 instead of failing
  (NumbersAsWritten);
- `current_time` tried before `current_timestamp` (RoundTripExact);
- `integer_literal` tried before `float_literal` (RealReparse);
- `digit_as_u16` reading a usize and casting it `as u16` (ArgsAsWritten);
- `json` tried before `jsonb` (TypeRoundTrip);
- a column's dot without the whitespace around it (WholeFormsParse);
- `as_alias` with whitespace0 in place of whitespace1 (RefinesContract: `aas` reads as `a` aliased `s`);
- `USING` left out (KeysRenderApart);
- column names without backticks (KeyColumnsReparse).

### Bounds

- **Widths.** The literal runs use i64 = 4 bits (so i64::MIN is -8) and
  u8 = 2 bits (so `as u8` wraps at 4 fraction digits). The type runs use
  u8 = 6 and u16 = 7 bits, so that the code's literal `Decimal(32, 0)` fits
  in a u8, as it does in the code, and `VARCHAR(200)` and `DECIMAL(70)`
  overflow. Every boundary of the code (overflow, wrap, the cap) occurs at
  these widths with short texts.
- **Caps.** The precision cap of 30 is `PrecCap = 2`, the Decimal scale
  limit of 28 is `MaxDecimalScale = 1`, and the 96-bit mantissa is
  `DecimalMantissaBits = 8`.
- **Inputs.** The literal inputs are every text of length at most 3 over
  `1 - . ' " ? $`, plus chosen texts such as `tRuE`, `1.0000`, `$16`,
  `E'\x0a'` and `B'101'`. These cover every alternative of `literal` and
  every order in which two alternatives can both match. The type inputs
  exercise every helper, and the generated types cover every variant.

- **Reference inputs.** Every phrase `p g q` where p and q are one of `a`,
  `` `as` ``, `"as"`, `a.a`, `a . a`, and the glue g is one of nothing,
  space, ` AS `, ` as `, `,`, ` , `, `;`, newline, `.`, CR LF; and the
  clauses `IF NOT EXISTS `, ` COMMENT 'a'`, `COMMENT 'as'` before a phrase,
  nothing or `;`. Both dialects read each, so `"as"` is a name under
  PostgreSQL and a failure under MySQL. Every entry point is called from
  every suffix the session reaches, so each is tried on texts that end in
  the middle of a qualifier, an alias, a list or a clause.
- **Keys.** Every variant, with names `a` and the keyword `as`, columns
  with and without a table, one or two columns, both index types, a schema
  or none on the target, an action or none; two keys per table, so
  KeysRenderApart compares every pair of distinct constraints.

There is no concurrency, so no fairness is assumed and no liveness property
is stated. A session can always start a new round or a new table, so
deadlock is checked.

## What is proved

Two theorems are proved, each for every width of the integer types, every
dialect and every set of input texts. They are the two invariants of the
passing runs that the provers can reach: what a parsed number says about the
text it was read from. They rest on lemmas about the grammar's operators:

- `SqlTextProofs`: `AltDef` and `AltOneOf`. nom's `alt` of two results is
  one of them. The grammar proofs cite these lemmas instead of expanding
  `(+)`. Expanding it in a module that nests `alt` as deeply as the type
  grammar makes tlapm rewrite every nested use, and it runs out of time
  before any backend starts.
  - Lemmas on spans: `DropType`, `DropDrop` (dropping j then k is dropping
    j + k) and `PrefixType`.
  - `RunLengthRange`: the run of characters that `digit1`, `whitespace0/1`
    and `take_until` read is a length in `0..Len(s)`, every character of the
    prefix is in the set, and the character after it is not. `RunLength` is
    a CHOOSE of the least position where the run stops, so this is proved
    with the least-element principle (`WFMin` and `NatLessThanWellFounded`
    of WellFoundedInduction), which needs no operator parameter.
  - `TagRead` and `WhitespaceRead`: a successful tag leaves the span after
    the keyword.
- `LiteralGrammarProofs`: `ReadsNumber(r, s)` says that if `r` holds a
  number, some prefix of `s` spells it and `r`'s rest is what follows.
  - `Digit1Read`: `digit1` reads a maximal run of digits.
  - `IntegerLiteralReads`: the guard of `FromStrBounded` keeps the value,
    so the integer is the signed value of the run. `FloatLiteralReads`:
    the mantissa and the scale are the digits around the point
    (`SpellsReal`, with the slice lemmas `PrefixOfDrop`, `DropOfPrefix`).
    `NumberedReads`: a placeholder's number is the digits after `?`, `:` or
    `$`.
  - The other alternatives return no number (`NotNumberReads`).
  - `ParseLiteralReads` chains the alternatives with `AltReads`.
- `LiteralSessionProofs`: `THEOREM NumbersCorrect == Spec =>
  []NumbersAsWritten`. NumbersAsWritten is not inductive: it speaks of
  `parsed` and not of how it was obtained. The strengthening `ParsedInv`
  says that in phase `parsed` the result is `literal(dialect)` on the text
  held. Every action keeps it (one step per action), and with
  `ParseLiteralReads` and `InputsAssumption` it gives NumbersAsWritten.
- `TypeSessionProofs`: `THEOREM ArgsCorrect == Spec => []ArgsAsWritten`.
  The strengthening `ParsedInv` says that in phase `parsed` the result is
  `type_identifier(dialect)` on the text and in phase `converted` it is
  `from_str` on it. The argument follows the grammar. Every parser reads a
  prefix of its span and hands a suffix to the next (`IsSuffix`,
  `PrimitivesSuffix`, `SuffixTrans`), and a number written in a suffix is
  written in the span (`WrittenSuffix`). Then:
  - `Digit1Written`, `DigitAsValue`, `DelimU16Written`, `OptLenWritten`:
    `digit_as_u16` and `digit_as_u8` return the value of the run `digit1`
    read, or fail, and `opt(delim_u16)` holds no length or a written one.
  - `PrecisionWritten` and `NumericPrecisionWritten` (through
    `PrecisionPairWritten` and `OptCommaWritten`): a written precision and
    an absent or written scale.
  - One lemma per branch: `KWLenReads`, `IntTypeReads`, `PlainReads`,
    `DecimalOrNumericReads` (the defaults are `DecimalDefault`),
    `NumericTypeReads`, `VarcharTypeReads`, `CharTypeReads`,
    `BinaryTypeReads`, `VarbinaryTypeReads`, `VarbitTypeReads` and
    `NoArgBranchesRead` for the branches that build no argument.
  - `FirstHalfReads`, `SecondHalfReads` and `TypeIdentifierReads` chain the
    branches with `AltTypeReads`, which follows from `AltOneOf`.

Assumptions:

- `WidthAssumption` states that `2^(IntBits-1)` and `2^U8Bits` are positive
  naturals. That is a fact of arithmetic that the provers cannot derive for
  a symbolic exponent.
- `TypeWidthAssumption` states that `u16::MAX` is a natural,
  `u8::MAX <= u16::MAX` and `32 <= u8::MAX`. These are the facts of the
  Rust types that `decimal_or_numeric` relies on.
- `InputsAssumption` and `TypeInputsAssumption` state that the texts
  the literal and type sessions are given are byte spans.
- TLC checks these assumptions on every run.

Only model-checked, not proved:

- **The round-trip properties** (RoundTripExact, RealReparse,
  TypeRoundTrip). They need what `Render` and `TypeTexts` compute for every
  value, and what the grammar reads from it. That takes recursive
  definitions over digits and over lists, and the provers cannot unfold
  them: a recursive function is a CHOOSE to TLAPS, and the induction
  theorems that would characterise it take an operator parameter that no
  installed backend instantiates. TLAPS also treats a string literal such
  as `"BOOL"` as an opaque value, not a sequence of characters, so nothing
  can be proved about the text of a keyword.
- **RefinesContract and WholeFormsParse.** These need that a value read
  from a prefix *spells* it in the spec's grammar, and the converse.
  `Spells` compares spans with keywords given as string literals (`AS`,
  `IF NOT EXISTS`, `COMMENT`, the quotes), which the provers treat as
  opaque. `IsList` is a recursive function over the elements, which is a
  CHOOSE to TLAPS. Both stay with TLC.
- **KeySession.** `KeyText` is built from string literals and from
  `Joined`, a recursive function. KeysRenderApart and KeyColumnsReparse
  need what the rendering writes, and so the characters of string
  literals.
- **Action properties of the literal and type sessions.** Each action
  there is one whole call of a pure parser or renderer, so what a step may
  do is fixed by the call's result. The properties worth stating are about
  that result, and they are the invariants above. In the reference
  session a list call spans several steps; RefinesContract, checked by
  TLC, says that those steps are stutters of the contract and the last one
  a whole call.
- There is no concurrency, so there is no liveness to prove.

## Not modelled

- **The function-call grammar, `field_reference`, `assignment_expr_list`
  and `field_definition_expr`** parse `expression()`, which is outside src/
  and far larger than this file; `terminated_with_statement_terminator`
  only wraps another parser; `opt_delimited` is used only by tests.
- **The empty name of an unnamed foreign key** (``CONSTRAINT `` FOREIGN
  KEY``) is recorded as a hazard, not checked: the spec lets constraint
  rendering not round-trip, so nothing it says is broken.
- **FieldDefinitionExpression and FieldReference Display** are formatting
  over Expression.
- **The proptest strategies and From conversions** build values; the
  generated constants of the MC modules stand in for them.
- **The error kind and the position of a failure.** They are abstracted:
  the grammar only tests whether a branch succeeded.
