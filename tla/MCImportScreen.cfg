SPECIFICATION Spec
CONSTANTS
  a = a
  x = x
  None = None
  MaxWordLength = 3
  DefaultCount = 2
  MaxAccount = 1
  MaxPassphrase = 2
  PhysicalKeyboard = TRUE
  Letters <- MCLetters
  Lexicon <- MCLexicon
  Mnemonics <- MCMnemonics
  WordCounts <- MCWordCounts
  Characters <- MCCharacters
INVARIANTS
  TypeOK
  ReviewIsWhatIsTyped
  NothingIsKept
