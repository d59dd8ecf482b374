SPECIFICATION TransactionSpec
CONSTANTS
    Lanes = 2
    CreditBits = 2
    RequestBudget = 2
    ResponseBudget = 4
    CommandField = 1
    DataField = 1
    WireRoom = 1
    Plans <- MCPlans
    Halves <- MCHalves
    Pairs <- MCPairs
    Quantities <- MCQuantities
    Groups1 <- MCGroups1
    Groups2 <- MCGroups2
INVARIANTS
    LinkConservesCredit LinkRejectsNothing LinkOfferStaysGood DataUnderItsHeader
    PairMonitorInStep GroupsGoOutWhole HardwareAgrees
PROPERTY TransactionsSettle
