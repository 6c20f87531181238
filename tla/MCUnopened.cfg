CONSTANTS
  alice = alice
  bob = bob
  relayer = relayer
  holder = holder
  Users = {alice, bob}
  Keys = {relayer, holder}
  Mints = {}
  Sol = Sol
  ZeroAddress = ZeroAddress
  None = None
  DiscordKey = DiscordKey
  ForeignKey = ForeignKey
  UserInteractions <- TwoUserInteractions
  InteractionIds = {1, 2, 3}
  ForeignSignatures <- ForgedPayment
  Skew = 1
  MaxAge = 0
  WalletRent = 2
  VaultRent = 1
  SolDecimals = 1
  MintDecimals <- NoDecimals
  InitialLamports <- SevenLamports
  InitialTokens <- NoTokens
  DepositAmounts = {2}
  TokenOwners = {}
  MaxTime = 1
  MaxRequests = 2
  MaxU64 = 100
SPECIFICATION Spec
INVARIANTS
  EachUserGetsAVault
CHECK_DEADLOCK FALSE
