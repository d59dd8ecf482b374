\* Codeword groups so wide that the copies of a request outlive the ignore window.
CONSTANTS
  SeqMax = 11
  LowMod = 4
  ReservedMod = 1
  Capacity = 5
  IgnoreWindow = 4
  BadLimit = 3
  UnexpectedMax = 15
  ReplayLimit = 10
  ExplicitPeriod = 3
  RequestCopies = 3
  GroupSpan = 3
  Peers = {A, B}
  Sources = {A}
  NoPayload = 99
  Latency = 3
  MaxFaults = 2
  Payloads = {0, 1, 2, 3, 4, 5, 6, 7, 8, 9, 10}
SPECIFICATION LockSpec
INVARIANTS
  NothingLostOrRepeated
