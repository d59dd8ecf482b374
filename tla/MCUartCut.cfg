\* A stream reset in the middle of a transport.
CONSTANTS
  MaxPayload = 2
  CreditModulus = 4
  UartRxDepth = 2
  ResponseDepth = 3
  NoOps = 2
  Timeout = 2
  UartEnds = {near, far}
  UartWriters = {near}
  UartTxDepth = 2
  PayloadWords = {1, 2}
  InLine = 2
  MaxEvents = 2
  MaxResets = 1
SPECIFICATION PortsSpec
INVARIANTS
  TransportsStayWhole
