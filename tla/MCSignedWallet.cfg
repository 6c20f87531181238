CONSTANTS
  alice = alice
  relayer = relayer
  holder = holder
  Users = {alice}
  Keys = {relayer, holder}
  Mints = {}
  Sol = Sol
  ZeroAddress = ZeroAddress
  None = None
  DiscordKey = DiscordKey
  ForeignKey = ForeignKey
  UserInteractions <- AliceInteractions
  InteractionIds = {1, 2, 3}
  ForeignSignatures = {}
  Skew = 1
  MaxAge = 1
  WalletRent = 2
  VaultRent = 1
  SolDecimals = 1
  MintDecimals <- NoDecimals
  InitialLamports <- FourLamports
  InitialTokens <- NoTokens
  DepositAmounts = {1}
  TokenOwners = {}
  MaxTime = 1
  MaxRequests = 3
  MaxU64 = 100
  MaxI64 = 11
  Orders <- FewOrders
  Transactions <- FewTransactions
  ReadRequest <- Read
SPECIFICATION SignedSpec
PROPERTIES
  ImplementsWallet
CHECK_DEADLOCK FALSE
