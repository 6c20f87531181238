CONSTANTS
  alice = alice
  bob = bob
  relayer = relayer
  holder = holder
  usdc = usdc
  h1 = h1
  h2 = h2
  Users = {alice, bob}
  Keys = {relayer, holder}
  Mints = {}
  Sol = Sol
  ZeroAddress = ZeroAddress
  None = None
  DiscordKey = DiscordKey
  ForeignKey = ForeignKey
  UserInteractions <- PaymentInteractions
  InteractionIds = {1, 2}
  ForeignSignatures = {}
  Skew = 0
  MaxAge = 0
  WalletRent = 2
  VaultRent = 1
  SolDecimals = 0
  MintDecimals <- NoDecimals
  InitialLamports <- PaidBeforeOpening
  InitialTokens <- NoTokens
  DepositAmounts = {}
  TokenOwners = {}
  MaxTime = 0
  MaxRequests = 2
  MaxU64 = 100
  Handlers = {h1, h2}
  RelayerKey = relayer
  BlockhashLife = 1
SPECIFICATION FairRelayerSpec
INVARIANTS
  RelayerTypeOK
  ReceiptMeansCarriedOut
  NoOpeningHeldBack
  RequestLandsOnce
PROPERTIES
  EveryRequestAnswered
CHECK_DEADLOCK FALSE
