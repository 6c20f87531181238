CONSTANTS
  alice = alice
  bob = bob
  relayer = relayer
  holder = holder
  usdc = usdc
  Users = {alice, bob}
  Keys = {relayer, holder}
  Mints = {usdc}
  Sol = Sol
  ZeroAddress = ZeroAddress
  None = None
  DiscordKey = DiscordKey
  ForeignKey = ForeignKey
  UserInteractions <- TokenInteractions
  InteractionIds = {1, 2}
  ForeignSignatures = {}
  Skew = 0
  MaxAge = 0
  WalletRent = 2
  VaultRent = 1
  SolDecimals = 1
  MintDecimals <- OneDecimal
  InitialLamports <- RelayerLamports
  InitialTokens <- AliceHoldsTokens
  DepositAmounts = {3}
  TokenOwners <- HoldersAndVaults
  MaxTime = 0
  MaxRequests = 2
  MaxU64 = 100
SPECIFICATION Spec
INVARIANTS
  TypeOK
  WithdrawerCanExitTokens
PROPERTIES
  ImplementsCustody
  TokensReachNamedOwner
CHECK_DEADLOCK FALSE
