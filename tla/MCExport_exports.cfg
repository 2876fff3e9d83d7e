SPECIFICATION Spec
CONSTANTS
  Lists <- Both
  Languages <- English
  MaxTokens = 3
  OverlapTokens = 1
  MinStep = 1
  MaxExports = 3
CHECK_DEADLOCK FALSE
INVARIANTS TypeOK FilesAgree ChunksFaithful
