CONSTANTS
  IntBits = 4
  U32Bits = 4
  U16Bits = 4
  U8Bits = 2
  PrecCap = 2
  MaxDecimalScale = 1
  DecimalMantissaBits = 8
  GenLiterals <- MCBlobLiterals
  Inputs <- MCNoInputs
SPECIFICATION Spec
INVARIANT RoundTripLaw
