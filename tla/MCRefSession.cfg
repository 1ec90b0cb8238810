CONSTANTS
  Inputs <- MCInputs
  Names <- MCNames
SPECIFICATION Spec
INVARIANTS WholeFormsParse
PROPERTIES RefinesContract
