CONSTANTS
  StudentBytes <- ByteStrings
  Specials = {0}
  LargeChunkThreshold = 2
SPECIFICATION AlignSpec
INVARIANTS CutIsGivenUp
