CONSTANTS
  Configs <- Overlap
  Prompts = 2
  N = 2
  Layouts <- OneEach
  Lengths <- Unequal
  MaxTokens = 4
  MiniPrompts = 2
  MicroSize = 2
  PpoEpochs = 1
SPECIFICATION BatchSpec
INVARIANTS
  RowsTogether
