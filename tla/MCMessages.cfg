SPECIFICATION MessagesSpec
INVARIANTS
  HardwareInStep
  EndsUnderstandEachOther
PROPERTIES
  WaitShortens
  EveryRequestAnswered
CONSTANTS
  near = near
  far = far
  Offered = {1, 4, 6, 7, 9}
  QueueDepth = 2
  MaxWords = 3
  Ends = {near, far}
  Starts = {1, 4, 5, 6}
  Rates = {1, 2}
  Identities = {1, 2}
  Folding = TRUE
  AckEdges = 1
  MaxPayload = 2
  CreditModulus = 4
  UartRxDepth = 2
  ResponseDepth = 3
  NoOps = 2
  Timeout = 2
  UartEnds = {near, far}
  UartWriters = {near}
  UartTxDepth = 2
  PayloadWords = {1, 2}
  InLine = 2
  MaxEvents = 2
  MaxResets = 1
