SPECIFICATION Spec
CONSTANTS
  a = a
  x = x
  None = None
  MaxWordLength = 2
  DefaultCount = 2
  MaxPassphrase = 2
  Target = 1
  PhysicalKeyboard = TRUE
  Letters <- MCLetters
  Lexicon <- MCLexicon
  WordCounts <- MCWordCounts
  Characters <- MCCharacters
INVARIANTS
  TypeOK
  ExportIsProved
  NothingInTheBuffers
PROPERTIES
  SeedIsNeverReplaced
