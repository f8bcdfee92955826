\* All files of four characters, and of five pieces of up to three.  Five
\* characters and the zero fit into the buffer, so that most lines do and some
\* do not.
CONSTANTS
  MAX_READ_BUFFER_SIZE = 6
  MaxChars = 4
  MaxPieces = 5
  Files <- AllFiles
SPECIFICATION Spec
INVARIANTS
  TypeOK
  EveryCharacterOnce
  RowIsRight
  ColumnOffByLookahead
