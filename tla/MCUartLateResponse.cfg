\* A response after the deadline, and what it does to the credit.
CONSTANTS
  Modulus = 3
  MaxWords = 2
  TxDepth = 1
  RxDepth = 2
  NoOps = 1
  Timeout = 1
  Ends = {A, B}
  Writers = {A}
  Words = {0, 1}
  NoWord = 99
  InFlight = 2
  MaxRequests = 1
  MaxRetries = 1
SPECIFICATION Spec
INVARIANTS
  CreditConserved
