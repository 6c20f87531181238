CONSTANTS
  alice = alice
  bob = bob
  relayer = relayer
  holder = holder
  usdc = usdc
  h1 = h1
  h2 = h2
  Users = {alice, bob}
  Keys = {relayer, holder}
  Mints = {usdc}
  Sol = Sol
  ZeroAddress = ZeroAddress
  None = None
  DiscordKey = DiscordKey
  ForeignKey = ForeignKey
  UserInteractions <- AllInteractions
  InteractionIds = {1, 2}
  ForeignSignatures = {}
  Skew = 0
  MaxAge = 0
  WalletRent = 2
  VaultRent = 1
  SolDecimals = 0
  MintDecimals <- NoDecimals
  InitialLamports <- RelayerLamports
  InitialTokens <- AliceHoldsTokens
  DepositAmounts = {}
  TokenOwners <- VaultsAndHolder
  MaxTime = 0
  MaxRequests = 2
  MaxU64 = 100
  Handlers = {h1}
  RelayerKey = relayer
  BlockhashLife = 0
SPECIFICATION RelayerSpec
PROPERTIES
  RelayerServesEveryCommand
CHECK_DEADLOCK FALSE
