CONSTANTS
  Inputs <- MCLineEndingInputs
  Names <- MCNames
SPECIFICATION Spec
INVARIANT TerminatorAcceptsLineEnding
