SPECIFICATION Spec
CONSTANTS
  b1 = b1
  b2 = b2
  b3 = b3
  r1 = r1
  r2 = r2
  x = x
  y = y
  Blocks <- MCBlocks
  Requests <- MCRequests
  Chunks <- MCChunks
  Prompt <- MCPrompt
  Prefixes <- MCPrefixes
  None = none
  Pinnable <- MCBlocks
  MaxRef = 3
SYMMETRY Symmetry
INVARIANT TypeOK
INVARIANT BlocksAccountedFor
INVARIANT RefsAreHolders
INVARIANT ChainHitsAreSound
PROPERTY HeldKvIsStable
