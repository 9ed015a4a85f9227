SPECIFICATION Spec
CONSTANTS
  b1 = b1
  b2 = b2
  b3 = b3
  r1 = r1
  r2 = r2
  x = x
  y = y
  Blocks <- MCBlocks
  Requests <- MCRequests
  System <- MCSystem
  Text <- MCText
  Asked <- MCAsked
  Prefixes <- MCPrefixes
  BlockSize = 2
  None = none
SYMMETRY Symmetry
INVARIANT TypeOK
INVARIANT ReferencesBalance
INVARIANT TablesHoldTheirText
INVARIANT StoredOnce
INVARIANT StoredIsFound
