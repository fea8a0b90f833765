\* A clock of 20 MHz and an odd one; rates with and without a solution, one
\* below and one above what the arithmetic has room for.  Word is 2^30: TLC's
\* integers end below 2^31.
CONSTANTS
  CanClk = {20000000, 20008000}
  Rate = {61, 50000, 500000, 2000800, 536870912}
  BitSegments = {0, 594954, 656644, 16711680}
  SamplePct = {0, 100}
  Word = 1073741824
  Half = 65536
SPECIFICATION TimingSpec
INVARIANTS
  TimingTypeOK
  FieldsFit
  RateAndPointRight
  SmallestPrescaler
  SegmentsReproduced
  NoTrap
PROPERTIES
  RefusedOnlyIfImpossible
  SolverReturns
CHECK_DEADLOCK FALSE
