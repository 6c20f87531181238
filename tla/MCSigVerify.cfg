CONSTANTS
  discord = discord
  foreign = foreign
  DiscordKey = discord
  MaxI64 = 11
  Orders <- FewOrders
  Transactions <- ManyTransactions
SPECIFICATION Spec
INVARIANTS
  ExecutedWasOrdered
  RelayedCommandsVerify
