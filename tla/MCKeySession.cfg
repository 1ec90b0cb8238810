CONSTANTS
  Keys <- MCKeys
  MaxKeys = 2
SPECIFICATION Spec
INVARIANTS KeysRenderApart KeyColumnsReparse
