CONSTANTS
  alice = alice
  bob = bob
  relayer = relayer
  holder = holder
  Users = {alice}
  Keys = {relayer, holder}
  Mints = {}
  Sol = Sol
  ZeroAddress = ZeroAddress
  None = None
  DiscordKey = DiscordKey
  ForeignKey = ForeignKey
  UserInteractions <- OneUserInteractions
  InteractionIds = {1, 2, 3}
  ForeignSignatures = {}
  Skew = 2
  MaxAge = 1
  WalletRent = 2
  VaultRent = 1
  SolDecimals = 1
  MintDecimals <- NoDecimals
  InitialLamports <- FiveLamports
  InitialTokens <- NoTokens
  DepositAmounts = {2}
  TokenOwners = {}
  MaxTime = 1
  MaxRequests = 3
  MaxU64 = 100
SPECIFICATION Spec
INVARIANTS
  NonceCoversExecuted
  NonceNeverAhead
PROPERTIES
  ImplementsCustody
  CommandsInNonceOrder
  WalletNeverReset
CHECK_DEADLOCK FALSE
