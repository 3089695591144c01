CONSTANTS
  NoState = NoState
  Bytes <- MCBytes
  Letters = {"a"}
  Typed <- MCTyped
  CLI_IO_SIZE = 2
  Wrap = 4
SPECIFICATION InputFairSpec
INVARIANTS NoStrayCharacters TypedAheadIsDropped
PROPERTIES InputIsAStream InputGoesOn
