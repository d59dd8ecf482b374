\* Both peers send payloads, so that acknowledgements and requests ride on payload
\* Flits.
CONSTANTS
  SeqMax = 5
  LowMod = 3
  ReservedMod = 1
  Capacity = 2
  IgnoreWindow = 3
  BadLimit = 2
  UnexpectedMax = 3
  ReplayLimit = 3
  ExplicitPeriod = 2
  RequestCopies = 2
  GroupSpan = 1
  Peers = {A, B}
  Sources = {A, B}
  NoPayload = 99
  Latency = 2
  MaxFaults = 1
  Payloads = {0, 1, 2, 3, 4}
SPECIFICATION LockSpec
INVARIANTS
  AcksMakeSense
  PortFollowsReference
