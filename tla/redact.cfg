SPECIFICATION RedactSpec
CONSTANTS
  Alphabet = {"a", "b"}
  ValueSets <- Separate
  MaxStream = 6
  MaxChunk = 3
  MaxValue = 3
CHECK_DEADLOCK FALSE
INVARIANTS  NoValuePassed ChunkingIsInvisible
