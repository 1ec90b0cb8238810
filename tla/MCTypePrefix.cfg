CONSTANTS
  IntBits = 4
  U32Bits = 4
  U16Bits = 7
  U8Bits = 6
  PrecCap = 2
  MaxDecimalScale = 1
  DecimalMantissaBits = 8
  GenTypes <- MCNoTypes
  TypeInputs <- MCFromStrInputs
SPECIFICATION Spec
INVARIANT FromStrStandalone
