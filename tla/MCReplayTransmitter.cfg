\* One transmitter and its hardware on a ring of seven numbers against every header
\* word.  The ring has the code's shape: odd, a power of two of raw values, a window
\* of half the ring.
CONSTANTS
  SeqMax = 7
  LowMod = 2
  ReservedMod = 2
  Capacity = 3
  IgnoreWindow = 2
  Payloads = {a, b}
SPECIFICATION RingSpec
INVARIANTS
  TypeOK
  BufferIsWindow
  WindowTestsMeanBuffered
  ScheduleRunsToTail
  ResidentBound
  OneContentPerNumber
  HardwareInStep
