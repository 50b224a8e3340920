SPECIFICATION Spec
CONSTANTS
  a = a
  b = b
  Space = Space
  Nul = Nul
  Capacity = 6
  MaxCells = 4
  Letters <- MCLetters
  Words <- MCWords
INVARIANTS
  TypeOK
  TailIsWiped
PROPERTIES
  ImplementsGrid
