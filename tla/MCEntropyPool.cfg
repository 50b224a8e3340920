SPECIFICATION PoolSpec
CONSTANTS
  r1 = r1
  r2 = r2
  r3 = r3
  Zero = Zero
  Ones = Ones
  CpuWords = 3
  MaxSamples = 1
  Random <- MCRandom
INVARIANTS
  AnswerIsJustified
PROPERTIES
  AnswerComes
