----------------------------- MODULE NumericLex -----------------------------
(***************************************************************************)
(* Numeric lexing helpers of common.rs: the conversion of a digit span     *)
(* into an integer of a bounded width (str::from_utf8 followed by          *)
(* u8/u16/u32/i64::from_str), digit_as_u8 and digit_as_u16, and the        *)
(* truncating cast `as u8`.  The widths are constants so that a model can  *)
(* shrink them while keeping every boundary of the code.                   *)
(***************************************************************************)
EXTENDS Integers, Sequences, SqlText

CONSTANTS
  IntBits,    \* width of i64 (Literal::Integer)
  U32Bits,    \* width of u32 (placeholder ordinals :N and $N)
  U16Bits,    \* width of u16 (display widths, digit_as_u16)
  U8Bits      \* width of u8 (Double/Float precision, digit_as_u8)

ASSUME WidthAssumption ==
  /\ IntBits \in Nat /\ IntBits >= 2
  /\ U32Bits \in Nat \ {0}
  /\ U16Bits \in Nat \ {0}
  /\ U8Bits \in Nat \ {0}
  \* powers of two are positive integers (a fact of arithmetic the provers
  \* do not derive for a symbolic exponent)
  /\ 2^(IntBits - 1) \in Nat \ {0}
  /\ 2^U8Bits \in Nat \ {0}

IntMax == 2^(IntBits - 1) - 1
IntMin == -IntMax - 1
U32Max == 2^U32Bits - 1
U16Max == 2^U16Bits - 1
U8Max  == 2^U8Bits - 1

(* The value of a span of decimal digits.                                  *)
DecValue(ds) ==
  LET V[k \in 0..Len(ds)] ==
        IF k = 0 THEN 0 ELSE 10 * V[k - 1] + DigitValue(ds[k])
  IN  V[Len(ds)]

(***************************************************************************)
(* <uN>::from_str / i64::from_str on a span that digit1 accepted: the      *)
(* value if it is at most max, a ParseIntError (here: ok = FALSE) when it  *)
(* overflows.  The guard is the whole of the overflow check; no value is   *)
(* ever wrapped.                                                           *)
(***************************************************************************)
FromStrBounded(ds, max) ==
  LET v == DecValue(ds)
  IN  IF v \in 0..max THEN [ok |-> TRUE, val |-> v]
                      ELSE [ok |-> FALSE, val |-> NoValue]

(* Mutant: the digits read as a usize and cast `as u16`, which wraps a     *)
(* length past u16::MAX instead of failing.                                *)
DigitAsU16Wrapped(len) == Ok(DecValue(len) % 2^U16Bits, len)

(* digit_as_u16 / digit_as_u8: on success the result keeps the whole span  *)
(* as its rest (Ok((len, v))); callers only use the value.                 *)
DigitAsU16(len) ==
  LET r == FromStrBounded(len, U16Max)
  IN  IF r.ok THEN Ok(r.val, len) ELSE Err(len)

DigitAsU8(len) ==
  LET r == FromStrBounded(len, U8Max)
  IN  IF r.ok THEN Ok(r.val, len) ELSE Err(len)

(* The cast `n as u8` of a usize: truncation modulo 2^8.                   *)
AsU8(n) == n % 2^U8Bits

(* The decimal digits of a natural number, most significant first.         *)
NatDigits(n) ==
  LET D[m \in Nat] ==
        IF m < 10 THEN <<DigitOf(m)>> ELSE D[m \div 10] \o <<DigitOf(m % 10)>>
  IN  D[n]

=============================================================================
