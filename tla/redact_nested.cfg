SPECIFICATION RedactSpec
CONSTANTS
  Alphabet = {"a", "b"}
  ValueSets <- Nested
  MaxStream = 6
  MaxChunk = 3
  MaxValue = 3
CHECK_DEADLOCK FALSE
INVARIANT ChunkingIsInvisible
