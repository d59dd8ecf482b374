\* A ring of fifteen numbers with four low-bit values: the window of seven is longer
\* than the low bits can tell apart, as in the code.
CONSTANTS
  SeqMax = 15
  LowMod = 4
  ReservedMod = 1
  BadLimit = 3
  UnexpectedMax = 3
  ReplayLimit = 3
SPECIFICATION StreamSpec
INVARIANTS
  GapIsCounted
PROPERTY
  AcceptsOnlyNext
