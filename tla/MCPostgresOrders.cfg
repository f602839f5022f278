SPECIFICATION FairSpec
CONSTANTS
  u1 = u1
  u2 = u2
  NoOrder = NoOrder
  NoUser = NoUser
  Unit = 2
  Users <- MCUsers
  OrderIds = {1, 2, 3}
  Prices <- MCPrices
  InitialBalance <- MCInitialBalance
INVARIANTS
  TypeOK
  NeverOverdrawn
  Conserved
  DebitIsCurrent
  AnswersAreFinal
PROPERTIES
  ImplementsLedger
  EverySaveReturns
CHECK_DEADLOCK FALSE
