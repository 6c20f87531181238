--------------------------- MODULE Relayer_proofs ----------------------------
(***************************************************************************)
(* The relayer adds nothing to what the wallet program may do, its receipts *)
(* are true and it serves every command: for any number of handlers,       *)
(* requests and blocks.                                                    *)
(***************************************************************************)
EXTENDS Relayer, DiscordWallet_proofs

-----------------------------------------------------------------------------
(* The chain under the relayer.                                            *)

(* Signatures never leave circulation.                                     *)
LEMMA SignaturesGrow ==
  ASSUME [Next]_vars
  PROVE  signatures \subseteq signatures'
<1>1. CASE UNCHANGED vars
  BY <1>1 DEF vars
<1>2. CASE ProcessExecuteInstruction
  BY <1>2 DEF ProcessExecuteInstruction, ExecuteInstruction, WalletInit, SetWithdrawer,
       Executes
<1>3. CASE ProcessSystemTransferInstruction
  BY <1>3 DEF ProcessSystemTransferInstruction, SystemTransferInstruction,
       SolTransferAddress, SolTransferUser,
     InvokeSolTransfer, Executes
<1>4. CASE ProcessTokenTransferInstruction
  BY <1>4 DEF ProcessTokenTransferInstruction, TokenTransferInstruction,
       TokenTransferAddress, TokenTransferUser,
     InvokeTokenTransfer, Executes
<1>5. CASE ProcessWithdrawInstruction
  BY <1>5 DEF ProcessWithdrawInstruction, WithdrawSol, WithdrawToken, Withdraws
<1>6. CASE Environment
  BY <1>6 DEF Environment, Discord, Chain, Tick, IssueCommand, Deposit,
       CreateAssociatedTokenAccount,
     TokenDeposit, SetAuthority
<1> QED
  BY <1>1, <1>2, <1>3, <1>4, <1>5, <1>6 DEF Next

LEMMA CirculationGrows ==
  ASSUME [Next]_vars
  PROVE  Circulating \subseteq Circulating'
BY SignaturesGrow DEF Circulating

LEMMA MoveKeepsOthers ==
  ASSUME NEW S, NEW f \in [S -> Int], NEW p \in S, NEW q \in S, NEW n \in Nat,
         NEW a \in S, a # p
  PROVE  Move(f, p, q, n) \in [S -> Int] /\ f[a] <= Move(f, p, q, n)[a]
BY DEF Move

(* No lamports ever leave a wallet state: the program signs for vaults     *)
(* only, and nobody has its key.                                           *)
LEMMA WalletsKeepLamports ==
  ASSUME TypeOK, [Next]_vars, NEW a \in WalletAddresses
  PROVE  lamports[a] <= lamports'[a]
<1>1. /\ lamports \in [Addresses -> Nat] /\ lamports \in [Addresses -> Int]
      /\ a \in Addresses /\ VaultAddresses \subseteq Addresses /\ Keys \subseteq Addresses
  BY DEF TypeOK, Addresses
<1>2. a \notin Keys /\ a \notin VaultAddresses
  BY DistinctValues DEF WalletAddresses, VaultAddresses, WalletPda, VaultOf, VaultPda
<1>3. ASSUME UNCHANGED lamports PROVE lamports[a] <= lamports'[a]
  BY <1>1, <1>3
<1>4. ASSUME NEW p \in Keys \cup VaultAddresses, NEW q \in Addresses, NEW n \in Nat,
             SystemTransfer(p, q, n)
      PROVE  lamports[a] <= lamports'[a]
  BY <1>1, <1>2, <1>4, MoveKeepsOthers DEF SystemTransfer
<1>5. ASSUME NEW payer \in Keys, NEW ws \in WalletAddresses, NEW vault \in VaultAddresses,
             CreateWallet(payer, ws, vault)
      PROVE  lamports[a] <= lamports'[a]
  <2> DEFINE vaultFund == IF lamports[vault] = 0 THEN VaultRent ELSE 0
             paid == Move(lamports, payer, ws, WalletRent)
  <2>1. payer \in Addresses /\ ws \in Addresses /\ vault \in Addresses /\ a # payer
    BY <1>1, <1>2 DEF Addresses
  <2>2. paid \in [Addresses -> Int] /\ lamports[a] <= paid[a]
    BY <1>1, <2>1, MoveKeepsOthers, ConstantTypes
  <2>3. vaultFund \in Nat
    BY ConstantTypes
  <2>4. Move(paid, payer, vault, vaultFund) \in [Addresses -> Int]
        /\ paid[a] <= Move(paid, payer, vault, vaultFund)[a]
    BY <1>1, <2>1, <2>2, <2>3, MoveKeepsOthers
  <2>5. lamports' = Move(paid, payer, vault, vaultFund)
    BY <1>5 DEF CreateWallet
  <2> HIDE DEF paid, vaultFund
  <2> QED
    BY <1>1, <2>2, <2>4, <2>5
<1>6. CASE UNCHANGED vars
  BY <1>3, <1>6 DEF vars
<1>7. CASE ProcessExecuteInstruction
  BY <1>3, <1>5, <1>7 DEF ProcessExecuteInstruction, ExecuteInstruction, WalletInit,
     SetWithdrawer
<1>8. CASE ProcessSystemTransferInstruction
  <2>1. PICK r \in Circulating, ws \in WalletAddresses, vault \in VaultAddresses,
             to \in Addresses : InvokeSolTransfer(r, ws, vault, to)
    BY <1>1, <1>8 DEF ProcessSystemTransferInstruction, SystemTransferInstruction,
       SolTransferAddress, SolTransferUser
  <2>2. PICK n \in ToBaseUnits(r.body.amt, SolDecimals) : SystemTransfer(vault, to, n)
    BY <2>1 DEF InvokeSolTransfer
  <2> QED
    BY <1>4, <2>2, BaseUnitsAreNat
<1>9. CASE ProcessTokenTransferInstruction
  BY <1>3, <1>9 DEF ProcessTokenTransferInstruction, TokenTransferInstruction,
     TokenTransferAddress, TokenTransferUser, InvokeTokenTransfer
<1>10. CASE ProcessWithdrawInstruction
  <2>1. ASSUME NEW vault \in VaultAddresses, NEW to \in Addresses,
               NEW n \in 0..lamports[vault], NEW w, NEW ws, WithdrawSol(w, ws, vault, to, n)
        PROVE  lamports[a] <= lamports'[a]
    BY <1>1, <1>4, <2>1 DEF WithdrawSol
  <2> QED
    BY <1>3, <1>10, <2>1 DEF ProcessWithdrawInstruction, WithdrawToken
<1>11. CASE Environment
  <2>1. ASSUME NEW p \in Keys, NEW q \in Addresses, NEW n \in DepositAmounts, Deposit(p, q, n)
        PROVE  lamports[a] <= lamports'[a]
    BY <1>4, <2>1, ConstantTypes DEF Deposit
  <2> QED
    BY <1>3, <1>11, <2>1 DEF Environment, Discord, Chain, Tick, IssueCommand,
       CreateAssociatedTokenAccount, TokenDeposit, SetAuthority
<1> QED
  BY <1>6, <1>7, <1>8, <1>9, <1>10, <1>11 DEF Next

(* What has been carried out stays so.                                     *)
LEMMA StaysCarriedOut ==
  ASSUME TypeOK, [Next]_vars, NEW r \in Requests, CarriedOut(r)
  PROVE  CarriedOut(r)'
<1>1. CASE UNCHANGED vars
  BY <1>1 DEF vars, CarriedOut
<1>2. CASE Next
  <2>1. executed \subseteq executed'
    BY <1>2, StepOnWallets, LandsOnOneWallet DEF NoCommand, MakesWallet
  <2>2. WalletPda(r.body.user) \in WalletAddresses
    BY AddressesOfAUser DEF Requests, Interactions
  <2>3. walletData[WalletPda(r.body.user)] # None => walletData'[WalletPda(r.body.user)] # None
    BY <1>2, <2>2, WalletNeverResetStep DEF SameWalletLater
  <2> QED
    BY <2>1, <2>3 DEF CarriedOut
<1> QED
  BY <1>1, <1>2


-----------------------------------------------------------------------------
(* What the handlers have at hand came from Discord, what has landed has   *)
(* been carried out, and what is said of a transaction or of a wallet's    *)
(* address is so.                                                          *)

Circulated(x) == x.signature \in signatures /\ x.request \in Circulating

WalletHasLamports(r) == lamports[WalletPda(r.body.user)] > 0

HandlerInv(h) ==
  /\ pc[h] # "done" => reply[h] = None
  /\ pc[h] \notin {"idle", "failed"} => post[h] \in Posts /\ Circulated(post[h])
  /\ pc[h] \in {"send", "confirm"} =>
       /\ tx[h] \in Transactions
       /\ tx[h].signature = post[h].signature /\ tx[h].request = post[h].request
  /\ reply[h] = "ok:signature" => tx[h] \in landed /\ tx[h].request = post[h].request
  /\ reply[h] = "ok:already_initialized" => WalletHasLamports(post[h].request)

ChainInv ==
  /\ sent \subseteq Transactions /\ landed \subseteq sent
  /\ \A t \in sent : Circulated(t)
  /\ \A t \in landed : CarriedOut(t.request)

(* The inductive invariant of the relayer and the chain together.          *)
RelayerInv ==
  /\ NonceInv
  /\ RelayerTypeOK
  /\ \A h \in Handlers : HandlerInv(h)
  /\ ChainInv
  /\ RequestLandsOnce

LEMMA CirculatedStays ==
  ASSUME [Next]_vars, NEW x, Circulated(x)
  PROVE  Circulated(x)'
BY SignaturesGrow, CirculationGrows DEF Circulated

(* What a request does when it runs with the accounts that are derived     *)
(* from it, each in the part the program gives it.                         *)
RunsWithDerivedAccounts(r) ==
  LET ws == SourceWallet(r)
      vault == SourceVault(r)
      to == r.body.to
  IN  \/ WalletInit(r, RelayerKey, ws, vault)
      \/ SetWithdrawer(r, ws)
      \/ to \in Addresses /\ SolTransferAddress(r, ws, vault, to)
      \/ to \in Users /\ SolTransferUser(r, ws, vault, WalletPda(to), VaultOf(to))
      \/ /\ r.body.tkn \in Mints /\ to \in Addresses
         /\ TokenTransferAddress(r, ws, vault, SourceTokenAccount(r), DestinationTokenAccount(r))
      \/ /\ r.body.tkn \in Mints /\ to \in Users
         /\ TokenTransferUser(r, ws, vault, SourceTokenAccount(r), WalletPda(to),
                              DestinationTokenAccount(r))

(* An action of the program is of the command it is named for.             *)
LEMMA NamesOfActions ==
  ASSUME NEW r, r.body \in Interactions, NEW a, NEW b, NEW c, NEW d, NEW e
  PROVE  /\ WalletInit(r, a, b, c) => r.body.name = "wallet_init"
         /\ SetWithdrawer(r, a) => r.body.name = "set_withdrawer"
         /\ SolTransferAddress(r, a, b, c) =>
              r.body.name = "transfer" /\ r.body.tkn = Sol /\ r.body.to \in Addresses
         /\ SolTransferUser(r, a, b, c, d) =>
              r.body.name = "transfer" /\ r.body.tkn = Sol /\ r.body.to \in Users
         /\ TokenTransferAddress(r, a, b, c, d) =>
              r.body.name = "transfer" /\ r.body.tkn \in Mints /\ r.body.to \in Addresses
         /\ TokenTransferUser(r, a, b, c, d, e) =>
              r.body.name = "transfer" /\ r.body.tkn \in Mints /\ r.body.to \in Users
BY ParsedOptions DEF ParsesAs, WalletInit, SetWithdrawer, SolTransferAddress,
   SolTransferUser, TokenTransferAddress, TokenTransferUser, BuildTransferCommand

LEMMA Metas ==
  ASSUME NEW a
  PROVE  /\ SignerMeta(a).address = a /\ SignerMeta(a).role = "writable signer"
         /\ WritableMeta(a).address = a /\ WritableMeta(a).role # "readonly"
         /\ ReadonlyMeta(a).address = a
BY DEF SignerMeta, WritableMeta, ReadonlyMeta

(* Every list of accounts has them in the places the program takes them    *)
(* from.                                                                   *)
LEMMA WalletInitInPlace ==
  ASSUME NEW r, NEW m, m = WalletInitMetas(r)
  PROVE  /\ TakesAccounts(m, 5, {2, 3})
         /\ m[1].address = RelayerKey
         /\ m[2].address = SourceWallet(r)
         /\ m[3].address = SourceVault(r)
         /\ m[4].address = InstructionsSysvar
         /\ m[5].address = SystemProgram
<1>1. /\ m[1] = SignerMeta(RelayerKey)
      /\ m[2] = WritableMeta(SourceWallet(r))
      /\ m[3] = WritableMeta(SourceVault(r))
  BY DEF WalletInitMetas
<1>2. /\ m[4] = ReadonlyMeta(InstructionsSysvar)
      /\ m[5] = ReadonlyMeta(SystemProgram)
  BY DEF WalletInitMetas
<1>3. Len(m) >= 5
  BY DEF WalletInitMetas
<1>4. m[1].role = "writable signer" /\ m[1].address = RelayerKey
  BY <1>1, Metas
<1>5. m[2].role # "readonly" /\ m[2].address = SourceWallet(r)
  BY <1>1, Metas
<1>6. m[3].role # "readonly" /\ m[3].address = SourceVault(r)
  BY <1>1, Metas
<1>7. /\ m[4].address = InstructionsSysvar
      /\ m[5].address = SystemProgram
  BY <1>2, Metas
<1>8. \A k \in {2, 3} : m[k].role # "readonly"
  BY <1>5, <1>6
<1> QED
  BY <1>3, <1>4, <1>5, <1>6, <1>7, <1>8 DEF TakesAccounts

LEMMA SetWithdrawerInPlace ==
  ASSUME NEW r, NEW m, m = SetWithdrawerMetas(r)
  PROVE  /\ TakesAccounts(m, 3, {2})
         /\ m[1].address = RelayerKey
         /\ m[2].address = SourceWallet(r)
         /\ m[3].address = InstructionsSysvar
<1>1. /\ m[1] = SignerMeta(RelayerKey)
      /\ m[2] = WritableMeta(SourceWallet(r))
  BY DEF SetWithdrawerMetas
<1>2. m[3] = ReadonlyMeta(InstructionsSysvar)
  BY DEF SetWithdrawerMetas
<1>3. Len(m) >= 3
  BY DEF SetWithdrawerMetas
<1>4. m[1].role = "writable signer" /\ m[1].address = RelayerKey
  BY <1>1, Metas
<1>5. m[2].role # "readonly" /\ m[2].address = SourceWallet(r)
  BY <1>1, Metas
<1>7. m[3].address = InstructionsSysvar
  BY <1>2, Metas
<1>6. \A k \in {2} : m[k].role # "readonly"
  BY <1>5
<1> QED
  BY <1>3, <1>4, <1>5, <1>6, <1>7 DEF TakesAccounts

LEMMA SolTransferAddressInPlace ==
  ASSUME NEW r, NEW m, m = SolTransferAddressMetas(r)
  PROVE  /\ TakesAccounts(m, 6, {2, 3, 4})
         /\ m[1].address = RelayerKey
         /\ m[2].address = SourceWallet(r)
         /\ m[3].address = SourceVault(r)
         /\ m[4].address = r.body.to
         /\ m[5].address = InstructionsSysvar
         /\ m[6].address = SystemProgram
<1>1. /\ m[1] = SignerMeta(RelayerKey)
      /\ m[2] = WritableMeta(SourceWallet(r))
      /\ m[3] = WritableMeta(SourceVault(r))
      /\ m[4] = WritableMeta(r.body.to)
  BY DEF SolTransferAddressMetas
<1>2. /\ m[5] = ReadonlyMeta(InstructionsSysvar)
      /\ m[6] = ReadonlyMeta(SystemProgram)
  BY DEF SolTransferAddressMetas
<1>3. Len(m) >= 6
  BY DEF SolTransferAddressMetas
<1>4. m[1].role = "writable signer" /\ m[1].address = RelayerKey
  <2>1. m[1] = SignerMeta(RelayerKey)
    BY <1>1
  <2> QED
    BY <2>1, Metas
<1>5. m[2].role # "readonly" /\ m[2].address = SourceWallet(r)
  BY <1>1, Metas
<1>6. m[3].role # "readonly" /\ m[3].address = SourceVault(r)
  BY <1>1, Metas
<1>7. m[4].role # "readonly" /\ m[4].address = r.body.to
  BY <1>1, Metas
<1>8. /\ m[5].address = InstructionsSysvar
      /\ m[6].address = SystemProgram
  BY <1>2, Metas
<1>9. \A k \in {2, 3, 4} : m[k].role # "readonly"
  BY <1>5, <1>6, <1>7
<1> QED
  BY <1>3, <1>4, <1>5, <1>6, <1>7, <1>8, <1>9 DEF TakesAccounts

LEMMA SolTransferUserInPlace ==
  ASSUME NEW r, NEW m, m = SolTransferUserMetas(r)
  PROVE  /\ TakesAccounts(m, 7, {2, 3, 5})
         /\ m[1].address = RelayerKey
         /\ m[2].address = SourceWallet(r)
         /\ m[3].address = SourceVault(r)
         /\ m[4].address = WalletPda(r.body.to)
         /\ m[5].address = VaultOf(r.body.to)
         /\ m[6].address = InstructionsSysvar
         /\ m[7].address = SystemProgram
<1>1. /\ m[1] = SignerMeta(RelayerKey)
      /\ m[2] = WritableMeta(SourceWallet(r))
      /\ m[3] = WritableMeta(SourceVault(r))
      /\ m[5] = WritableMeta(VaultOf(r.body.to))
  BY DEF SolTransferUserMetas
<1>2. /\ m[4] = ReadonlyMeta(WalletPda(r.body.to))
      /\ m[6] = ReadonlyMeta(InstructionsSysvar)
      /\ m[7] = ReadonlyMeta(SystemProgram)
  BY DEF SolTransferUserMetas
<1>3. Len(m) >= 7
  BY DEF SolTransferUserMetas
<1>4. m[1].role = "writable signer" /\ m[1].address = RelayerKey
  <2>1. m[1] = SignerMeta(RelayerKey)
    BY <1>1
  <2> QED
    BY <2>1, Metas
<1>5. m[2].role # "readonly" /\ m[2].address = SourceWallet(r)
  BY <1>1, Metas
<1>6. m[3].role # "readonly" /\ m[3].address = SourceVault(r)
  BY <1>1, Metas
<1>7. m[5].role # "readonly" /\ m[5].address = VaultOf(r.body.to)
  BY <1>1, Metas
<1>8. /\ m[4].address = WalletPda(r.body.to)
      /\ m[6].address = InstructionsSysvar
      /\ m[7].address = SystemProgram
  BY <1>2, Metas
<1>9. \A k \in {2, 3, 5} : m[k].role # "readonly"
  BY <1>5, <1>6, <1>7
<1> QED
  BY <1>3, <1>4, <1>5, <1>6, <1>7, <1>8, <1>9 DEF TakesAccounts

LEMMA TokenTransferAddressInPlace ==
  ASSUME NEW r, NEW m, m = TokenTransferAddressMetas(r)
  PROVE  /\ TakesAccounts(m, 8, {2, 5, 6})
         /\ m[1].address = RelayerKey
         /\ m[2].address = SourceWallet(r)
         /\ m[3].address = SourceVault(r)
         /\ m[4].address = r.body.tkn
         /\ m[5].address = SourceTokenAccount(r)
         /\ m[6].address = DestinationTokenAccount(r)
         /\ m[7].address = InstructionsSysvar
         /\ m[8].address = TokenProgram
<1>1. /\ m[1] = SignerMeta(RelayerKey)
      /\ m[2] = WritableMeta(SourceWallet(r))
      /\ m[5] = WritableMeta(SourceTokenAccount(r))
      /\ m[6] = WritableMeta(DestinationTokenAccount(r))
  BY DEF TokenTransferAddressMetas
<1>2. /\ m[3] = ReadonlyMeta(SourceVault(r))
      /\ m[4] = ReadonlyMeta(r.body.tkn)
      /\ m[7] = ReadonlyMeta(InstructionsSysvar)
      /\ m[8] = ReadonlyMeta(TokenProgram)
  BY DEF TokenTransferAddressMetas
<1>3. Len(m) >= 8
  BY DEF TokenTransferAddressMetas
<1>4. m[1].role = "writable signer" /\ m[1].address = RelayerKey
  <2>1. m[1] = SignerMeta(RelayerKey)
    BY <1>1
  <2> QED
    BY <2>1, Metas
<1>5. m[2].role # "readonly" /\ m[2].address = SourceWallet(r)
  BY <1>1, Metas
<1>6. m[5].role # "readonly" /\ m[5].address = SourceTokenAccount(r)
  BY <1>1, Metas
<1>7. m[6].role # "readonly" /\ m[6].address = DestinationTokenAccount(r)
  BY <1>1, Metas
<1>8. /\ m[3].address = SourceVault(r)
      /\ m[4].address = r.body.tkn
      /\ m[7].address = InstructionsSysvar
      /\ m[8].address = TokenProgram
  BY <1>2, Metas
<1>9. \A k \in {2, 5, 6} : m[k].role # "readonly"
  BY <1>5, <1>6, <1>7
<1> QED
  BY <1>3, <1>4, <1>5, <1>6, <1>7, <1>8, <1>9 DEF TakesAccounts

LEMMA TokenTransferUserInPlace ==
  ASSUME NEW r, NEW m, m = TokenTransferUserMetas(r)
  PROVE  /\ TakesAccounts(m, 9, {2, 5, 7})
         /\ m[1].address = RelayerKey
         /\ m[2].address = SourceWallet(r)
         /\ m[3].address = SourceVault(r)
         /\ m[4].address = r.body.tkn
         /\ m[5].address = SourceTokenAccount(r)
         /\ m[6].address = WalletPda(r.body.to)
         /\ m[7].address = DestinationTokenAccount(r)
         /\ m[8].address = InstructionsSysvar
         /\ m[9].address = TokenProgram
<1>1. /\ m[1] = SignerMeta(RelayerKey)
      /\ m[2] = WritableMeta(SourceWallet(r))
      /\ m[5] = WritableMeta(SourceTokenAccount(r))
      /\ m[7] = WritableMeta(DestinationTokenAccount(r))
  BY DEF TokenTransferUserMetas
<1>2. /\ m[3] = ReadonlyMeta(SourceVault(r))
      /\ m[4] = ReadonlyMeta(r.body.tkn)
      /\ m[6] = ReadonlyMeta(WalletPda(r.body.to))
      /\ m[8] = ReadonlyMeta(InstructionsSysvar)
      /\ m[9] = ReadonlyMeta(TokenProgram)
  BY DEF TokenTransferUserMetas
<1>3. Len(m) >= 9
  BY DEF TokenTransferUserMetas
<1>4. m[1].role = "writable signer" /\ m[1].address = RelayerKey
  <2>1. m[1] = SignerMeta(RelayerKey)
    BY <1>1
  <2> QED
    BY <2>1, Metas
<1>5. m[2].role # "readonly" /\ m[2].address = SourceWallet(r)
  BY <1>1, Metas
<1>6. m[5].role # "readonly" /\ m[5].address = SourceTokenAccount(r)
  BY <1>1, Metas
<1>7. m[7].role # "readonly" /\ m[7].address = DestinationTokenAccount(r)
  BY <1>1, Metas
<1>8. /\ m[3].address = SourceVault(r)
      /\ m[4].address = r.body.tkn
      /\ m[6].address = WalletPda(r.body.to)
      /\ m[8].address = InstructionsSysvar
      /\ m[9].address = TokenProgram
  BY <1>2, Metas
<1>9. \A k \in {2, 5, 7} : m[k].role # "readonly"
  BY <1>5, <1>6, <1>7
<1> QED
  BY <1>3, <1>4, <1>5, <1>6, <1>7, <1>8, <1>9 DEF TakesAccounts

(* The builder's list of accounts, read by position, gives each of them    *)
(* the part it was named for.                                              *)
LEMMA PositionsAgree ==
  ASSUME NEW r, r.body \in Interactions, Builds(r.body)
  PROVE  RunsByPosition(r, BuildInstructionAccounts(r)) <=> RunsWithDerivedAccounts(r)
<1> PICK ix : ix = BuildInstructionAccounts(r)
  OBVIOUS
<1>1. CASE r.body.name = "wallet_init"
  <2>1. ix.discriminator = "execute" /\ ix.accounts = WalletInitMetas(r)
    BY <1>1 DEF BuildInstructionAccounts, Names
  <2>2. RunsByPosition(r, ix) <=> RunsWithDerivedAccounts(r)
    BY <1>1, <2>1, WalletInitInPlace, NamesOfActions, DistinctValues
       DEF RunsByPosition, RunsWithDerivedAccounts
  <2> QED
    BY <2>2
<1>2. CASE r.body.name = "set_withdrawer"
  <2>1. ix.discriminator = "execute" /\ ix.accounts = SetWithdrawerMetas(r)
    BY <1>2 DEF BuildInstructionAccounts, Names
  <2>2. RunsByPosition(r, ix) <=> RunsWithDerivedAccounts(r)
    BY <1>2, <2>1, SetWithdrawerInPlace, NamesOfActions, DistinctValues
       DEF RunsByPosition, RunsWithDerivedAccounts
  <2> QED
    BY <2>2
<1>3. CASE r.body.name = "transfer" /\ r.body.tkn = Sol /\ r.body.to \notin Users
  <2>1. ix.discriminator = "system_transfer" /\ ix.accounts = SolTransferAddressMetas(r)
    BY <1>3 DEF BuildInstructionAccounts, Names, BuildTransferInstructionAccounts
  <2> DEFINE A == SolTransferAddress(r, SourceWallet(r), SourceVault(r), r.body.to)
  <2>2. A => RunsByPosition(r, ix)
    BY <2>1, SolTransferAddressInPlace, NamesOfActions DEF RunsByPosition
  <2>3. RunsByPosition(r, ix) => A
    BY <1>3, <2>1, SolTransferAddressInPlace, NamesOfActions, DistinctValues DEF RunsByPosition
  <2>4. A <=> RunsWithDerivedAccounts(r)
    BY <1>3, NamesOfActions, DistinctValues DEF RunsWithDerivedAccounts
  <2> QED
    BY <2>2, <2>3, <2>4
<1>4. CASE r.body.name = "transfer" /\ r.body.tkn = Sol /\ r.body.to \in Users
  <2>1. ix.discriminator = "system_transfer" /\ ix.accounts = SolTransferUserMetas(r)
    BY <1>4 DEF BuildInstructionAccounts, Names, BuildTransferInstructionAccounts
  <2> DEFINE A == SolTransferUser(r, SourceWallet(r), SourceVault(r), WalletPda(r.body.to),
                           VaultOf(r.body.to))
  <2>2. A => RunsByPosition(r, ix)
    BY <2>1, SolTransferUserInPlace, NamesOfActions DEF RunsByPosition
  <2>3. RunsByPosition(r, ix) => A
    BY <1>4, <2>1, SolTransferUserInPlace, NamesOfActions, DistinctValues DEF RunsByPosition
  <2>4. A <=> RunsWithDerivedAccounts(r)
    BY <1>4, NamesOfActions, DistinctValues DEF RunsWithDerivedAccounts
  <2> QED
    BY <2>2, <2>3, <2>4
<1>5. CASE r.body.name = "transfer" /\ r.body.tkn # Sol /\ r.body.to \notin Users
  <2>1. ix.discriminator = "token_transfer" /\ ix.accounts = TokenTransferAddressMetas(r)
    BY <1>5 DEF BuildInstructionAccounts, Names, BuildTransferInstructionAccounts
  <2> DEFINE A == TokenTransferAddress(r, SourceWallet(r), SourceVault(r), SourceTokenAccount(r),
                                DestinationTokenAccount(r))
  <2>2. A => RunsByPosition(r, ix)
    BY <2>1, TokenTransferAddressInPlace, NamesOfActions DEF RunsByPosition
  <2>3. RunsByPosition(r, ix) => A
    BY <1>5, <2>1, TokenTransferAddressInPlace, NamesOfActions, DistinctValues DEF RunsByPosition
  <2>4. A <=> RunsWithDerivedAccounts(r)
    BY <1>5, NamesOfActions, DistinctValues DEF RunsWithDerivedAccounts
  <2> QED
    BY <2>2, <2>3, <2>4
<1>6. CASE r.body.name = "transfer" /\ r.body.tkn # Sol /\ r.body.to \in Users
  <2>1. ix.discriminator = "token_transfer" /\ ix.accounts = TokenTransferUserMetas(r)
    BY <1>6 DEF BuildInstructionAccounts, Names, BuildTransferInstructionAccounts
  <2> DEFINE A == TokenTransferUser(r, SourceWallet(r), SourceVault(r), SourceTokenAccount(r),
                             WalletPda(r.body.to), DestinationTokenAccount(r))
  <2>2. A => RunsByPosition(r, ix)
    BY <2>1, TokenTransferUserInPlace, NamesOfActions DEF RunsByPosition
  <2>3. RunsByPosition(r, ix) => A
    BY <1>6, <2>1, TokenTransferUserInPlace, NamesOfActions, DistinctValues DEF RunsByPosition
  <2>4. A <=> RunsWithDerivedAccounts(r)
    BY <1>6, NamesOfActions, DistinctValues DEF RunsWithDerivedAccounts
  <2> QED
    BY <2>2, <2>3, <2>4
<1> QED
  BY <1>1, <1>2, <1>3, <1>4, <1>5, <1>6 DEF Builds

(* The accounts the relayer names are accounts.                            *)
LEMMA BuiltAccounts ==
  ASSUME NEW r \in Requests
  PROVE  LET to == r.body.to
             mint == r.body.tkn
         IN  /\ SourceWallet(r) \in WalletAddresses /\ SourceVault(r) \in VaultAddresses
             /\ to \in Users => WalletPda(to) \in WalletAddresses /\ VaultOf(to) \in VaultAddresses
             /\ mint \in Mints => SourceTokenAccount(r) \in TokenAddresses
             /\ mint \in Mints /\ (to \in Users \/ to \in Addresses) =>
                  DestinationTokenAccount(r) \in TokenAddresses
<1>1. r.body.user \in Users
  BY DEF Requests, Interactions
<1>2. VaultOf(r.body.user) = VaultPda(WalletPda(r.body.user))
  BY DEF VaultOf
<1>3. Payee(r) \in Addresses \/ ~(r.body.to \in Users \/ r.body.to \in Addresses)
  BY AddressesOfAUser DEF Payee
<1> QED
  BY <1>1, <1>2, <1>3, AddressesOfAUser DEF TokenAddresses, DestinationTokenAccount,
     SourceWallet, SourceVault, SourceTokenAccount

(* A relayed transaction that lands is one anybody could have sent.        *)
LEMMA LandingIsAStep ==
  ASSUME RelayerInv, NEW t \in sent, Land(t)
  PROVE  Next
<1> DEFINE s == t.signature
           r == t.request
           ws == SourceWallet(r)
           vault == SourceVault(r)
<1>1. s \in signatures /\ r \in Circulating /\ r \in Requests
  BY CirculatingRequests DEF RelayerInv, ChainInv, Circulated, NonceInv
<1>2. AcceptRequest(s, r) /\ RunsWithDerivedAccounts(r)
  BY <1>1, PositionsAgree DEF Land, LandsAsBuilt, Requests
<1>3. ws \in WalletAddresses /\ vault \in VaultAddresses
  BY <1>1, BuiltAccounts
<1>4. CASE WalletInit(r, RelayerKey, ws, vault) \/ SetWithdrawer(r, ws)
  BY <1>1, <1>2, <1>3, <1>4, RelayerConstants DEF ProcessExecuteInstruction,
       ExecuteInstruction, Next
<1>5. CASE r.body.to \in Users /\ SolTransferUser(r, ws, vault, WalletPda(r.body.to), VaultOf(r.body.to))
  BY <1>1, <1>2, <1>3, <1>5, AddressesOfAUser DEF ProcessSystemTransferInstruction,
       SystemTransferInstruction, Next
<1>6. CASE r.body.to \in Addresses /\ SolTransferAddress(r, ws, vault, r.body.to)
  BY <1>1, <1>2, <1>3, <1>6 DEF ProcessSystemTransferInstruction,
       SystemTransferInstruction, Next
<1>7. CASE /\ r.body.tkn \in Mints /\ r.body.to \in Users
           /\ TokenTransferUser(r, ws, vault, SourceTokenAccount(r),
                                WalletPda(r.body.to), DestinationTokenAccount(r))
  BY <1>1, <1>2, <1>3, <1>7, BuiltAccounts DEF ProcessTokenTransferInstruction,
       TokenTransferInstruction, Next
<1>8. CASE /\ r.body.tkn \in Mints /\ r.body.to \in Addresses
           /\ TokenTransferAddress(r, ws, vault, SourceTokenAccount(r),
                                   DestinationTokenAccount(r))
  BY <1>1, <1>2, <1>3, <1>8, BuiltAccounts DEF ProcessTokenTransferInstruction,
       TokenTransferInstruction, Next
<1> QED
  BY <1>2, <1>4, <1>5, <1>6, <1>7, <1>8 DEF RunsWithDerivedAccounts

(* The relayer does to the chain only what anybody may do to it.           *)
LEMMA RelayerStepOnChain ==
  ASSUME RelayerInv, [RelayerNext]_allvars
  PROVE  [Next]_vars
<1>1. ASSUME NEW h \in Handlers, HandlerStep(h) \/ RpcFails(h) \/ Cancelled(h)
      PROVE  UNCHANGED vars
  BY <1>1 DEF HandlerStep, Lookup, BuildTransaction, SendTransaction, Confirm, GiveUp,
     RpcFails, Cancelled
<1>2. ASSUME NEW t \in sent, SetupTokenAccount(t) PROVE Next
  BY <1>2 DEF SetupTokenAccount, Next, Environment, Discord, Chain
<1>3. ASSUME NEW h \in Handlers, NEW s \in signatures, NEW r \in Circulating, Receive(h, s, r)
      PROVE  UNCHANGED vars
  BY <1>3 DEF Receive
<1>4. NewBlock \/ UNCHANGED allvars \/ (\E h \in Handlers : ReceiveMalformed(h)) =>
        UNCHANGED vars
  BY DEF NewBlock, allvars, ReceiveMalformed
<1> QED
  BY <1>1, <1>2, <1>3, <1>4, LandingIsAStep DEF RelayerNext, Others

(* Landing carries a request out, which had not been carried out before.   *)
LEMMA LandingCarriesOut ==
  ASSUME RelayerInv, NEW t \in sent, Land(t)
  PROVE  ~ CarriedOut(t.request) /\ CarriedOut(t.request)'
<1> DEFINE r == t.request
           ws == WalletPda(r.body.user)
           vault == VaultPda(ws)
<1>1. r \in Requests /\ r.body \in Interactions /\ r.body.user \in Users
  BY CirculatingRequests DEF RelayerInv, ChainInv, Circulated, NonceInv
<1>2. ws \in WalletAddresses /\ TypeOK /\ RunsWithDerivedAccounts(r)
  BY <1>1, AddressesOfAUser, PositionsAgree DEF RelayerInv, NonceInv, Land, LandsAsBuilt
<1>3. CASE WalletInit(r, RelayerKey, ws, vault)
  <2>1. walletData[ws] = None /\ r.body.name = "wallet_init"
    BY <1>3 DEF WalletInit, WalletStateUnused, ParsesAs, BuildTransferCommand
  <2>2. walletData'[ws] # None
    BY <1>1, <1>2, <1>3, <2>1, MadeWallet DEF WalletInit, MakesWallet
  <2> QED
    BY <2>1, <2>2 DEF CarriedOut
<1>4. ASSUME NEW w, Executes(r, ws, w), RejectReplayedInteraction(r, walletData[ws]),
             r.body.name # "wallet_init"
      PROVE  ~ CarriedOut(r) /\ CarriedOut(r)'
  <2>1. r \notin executed
    BY <1>4 DEF RelayerInv, NonceInv, NonceCoversExecuted
  <2> QED
    BY <1>4, <2>1 DEF CarriedOut, Executes
<1>5. CASE SetWithdrawer(r, ws)
  BY <1>4, <1>5 DEF SetWithdrawer, ParsesAs
<1>6. CASE \/ SolTransferUser(r, ws, vault, WalletPda(r.body.to), VaultOf(r.body.to))
           \/ SolTransferAddress(r, ws, vault, r.body.to)
  BY <1>4, <1>6 DEF SolTransferUser, SolTransferAddress, InvokeSolTransfer,
     PrepareTransferSourceWallet, ParsesAs
<1>7. CASE \/ TokenTransferUser(r, ws, vault, SourceTokenAccount(r),
                                WalletPda(r.body.to), DestinationTokenAccount(r))
           \/ TokenTransferAddress(r, ws, vault, SourceTokenAccount(r),
                                   DestinationTokenAccount(r))
  BY <1>4, <1>7 DEF TokenTransferUser, TokenTransferAddress, InvokeTokenTransfer,
     PrepareTransferSourceWallet, ParsesAs
<1> QED
  BY <1>2, <1>3, <1>5, <1>6, <1>7 DEF RunsWithDerivedAccounts, SourceWallet, SourceVault

(* Lamports found at a wallet's address are not taken away again.          *)
LEMMA StaysPaid ==
  ASSUME TypeOK, [Next]_vars, NEW r \in Requests, WalletHasLamports(r)
  PROVE  WalletHasLamports(r)'
<1>1. WalletPda(r.body.user) \in WalletAddresses
  BY AddressesOfAUser DEF Requests, Interactions
<1>2. PICK a \in WalletAddresses : a = WalletPda(r.body.user)
  BY <1>1
<1>3. lamports[a] \in Nat /\ lamports'[a] \in Nat
  BY TypeOKStep DEF TypeOK, Addresses
<1>4. lamports[a] > 0 /\ lamports[a] <= lamports'[a]
  BY <1>2, WalletsKeepLamports DEF WalletHasLamports
<1> QED
  BY <1>2, <1>3, <1>4 DEF WalletHasLamports

(* A handler that does nothing loses nothing by what the chain does.       *)
LEMMA HandlerKept ==
  ASSUME TypeOK, [Next]_vars, landed \subseteq landed', NEW h \in Handlers, HandlerInv(h),
         pc'[h] = pc[h], post'[h] = post[h], tx'[h] = tx[h], reply'[h] = reply[h]
  PROVE  HandlerInv(h)'
<1>1. PICK p : p = post[h] /\ p = post'[h]
  OBVIOUS
<1>2. ASSUME pc[h] \notin {"idle", "failed"} PROVE Circulated(p)'
  BY <1>1, <1>2, CirculatedStays DEF HandlerInv
<1>3. ASSUME reply[h] = "ok:already_initialized" PROVE WalletHasLamports(p.request)'
  <2>1. pc[h] = "done" /\ WalletHasLamports(p.request)
    BY <1>1, <1>3, RelayerConstants DEF HandlerInv, Replies
  <2>2. p.request \in Requests
    BY <1>1, <2>1 DEF HandlerInv, Posts
  <2> QED
    BY <2>1, <2>2, StaysPaid
<1> QED
  BY <1>1, <1>2, <1>3 DEF HandlerInv, Circulated, WalletHasLamports

(* A handler moves on, fails, or answers with what it knows.               *)
LEMMA HandlerMoves ==
  ASSUME RelayerInv, NEW h \in Handlers, UNCHANGED vars, pc[h] \in Waiting,
         post' = post, tx' = tx, landed' = landed,
         \/ \E p \in {"blockhash", "confirm", "gone", "failed"} :
              pc'[h] = p /\ reply'[h] = reply[h] /\ (p = "confirm" => pc[h] = "send")
         \/ pc'[h] = "done" /\ reply'[h] \notin {"ok:signature", "ok:already_initialized"}
         \/ /\ pc'[h] = "done" /\ reply'[h] = "ok:signature"
            /\ tx[h] \in landed /\ tx[h].request = post[h].request
         \/ /\ pc'[h] = "done" /\ reply'[h] = "ok:already_initialized"
            /\ WalletHasLamports(post[h].request)
  PROVE  HandlerInv(h)'
<1>1. HandlerInv(h)
  BY DEF RelayerInv
<1>2. UNCHANGED <<lamports, signatures, Circulating>>
  BY DEF vars, Circulating
<1>3. None # "ok:signature" /\ None # "ok:already_initialized"
  BY RelayerConstants DEF Replies
<1> QED
  BY <1>1, <1>2, <1>3 DEF HandlerInv, Circulated, WalletHasLamports, Waiting

LEMMA ReceiveKeepsHandlers ==
  ASSUME RelayerInv, NEW h \in Handlers, NEW s \in signatures, NEW r \in Circulating,
         Receive(h, s, r), NEW g \in Handlers
  PROVE  HandlerInv(g)'
<1>1. /\ UNCHANGED <<vars, tx, sent, landed, height>>
      /\ pc[h] = "idle" /\ post' = [post EXCEPT ![h] = [signature |-> s, request |-> r]]
  BY DEF Receive
<1>2. /\ pc \in [Handlers -> Waiting \cup {"idle", "done", "failed", "gone"}]
      /\ post \in [Handlers -> Posts \cup {None}]
      /\ reply \in [Handlers -> Replies \cup {None}]
      /\ TypeOK /\ HandlerInv(g) /\ HandlerInv(h)
  BY DEF RelayerInv, RelayerTypeOK, NonceInv
<1>3. CASE g # h
  <2>1. pc'[g] = pc[g] /\ post'[g] = post[g] /\ tx'[g] = tx[g] /\ reply'[g] = reply[g]
    BY <1>2, <1>3 DEF Receive, Awaits, Responds, Throws, Fails
  <2> QED
    BY <1>1, <1>2, <2>1, HandlerKept DEF vars
<1>4. CASE g = h
  <2>1. /\ pc'[h] \in {"done", "blockhash", "lookup", "failed"}
        /\ pc'[h] # "done" => reply'[h] = None
        /\ reply'[h] \notin {"ok:signature", "ok:already_initialized"}
    BY <1>1, <1>2, RelayerConstants
       DEF Receive, Awaits, Responds, Throws, Fails, HandlerInv, Replies
  <2>3. s \in Signatures /\ r \in Requests
    BY <1>2, CirculatingRequests DEF TypeOK
  <2>4. post'[h] = [signature |-> s, request |-> r] /\ post'[h] \in Posts
    BY <1>1, <1>2, <2>3 DEF Posts
  <2>5. UNCHANGED <<signatures, Circulating>>
    BY <1>1 DEF vars, Circulating
  <2>6. Circulated(post[h])'
    BY <2>4, <2>5 DEF Circulated
  <2> QED
    BY <1>4, <2>1, <2>4, <2>6 DEF HandlerInv
<1> QED
  BY <1>3, <1>4

LEMMA ReceiveMalformedKeepsHandlers ==
  ASSUME RelayerInv, NEW h \in Handlers, ReceiveMalformed(h), NEW g \in Handlers
  PROVE  HandlerInv(g)'
<1>1. UNCHANGED <<post, tx, reply, sent, landed, height, vars>> /\ pc[h] = "idle"
  BY DEF ReceiveMalformed, Fails
<1>2. /\ pc \in [Handlers -> Waiting \cup {"idle", "done", "failed", "gone"}]
      /\ TypeOK /\ HandlerInv(g) /\ HandlerInv(h)
  BY DEF RelayerInv, RelayerTypeOK, NonceInv
<1>3. CASE g # h
  <2>1. pc'[g] = pc[g]
    BY <1>2, <1>3 DEF ReceiveMalformed, Fails
  <2> QED
    BY <1>1, <1>2, <2>1, HandlerKept DEF vars
<1>4. CASE g = h
  <2>1. pc'[h] = "failed" /\ reply'[h] = None
    BY <1>1, <1>2 DEF ReceiveMalformed, Fails, HandlerInv
  <2> QED
    BY <1>4, <2>1, RelayerConstants DEF HandlerInv, Replies
<1> QED
  BY <1>3, <1>4

LEMMA HandlerStepKeepsHandlers ==
  ASSUME RelayerInv, NEW h \in Handlers, HandlerStep(h) \/ RpcFails(h) \/ Cancelled(h),
         NEW g \in Handlers
  PROVE  HandlerInv(g)'
<1>1. /\ pc \in [Handlers -> Waiting \cup {"idle", "done", "failed", "gone"}]
      /\ tx \in [Handlers -> Transactions \cup {None}]
      /\ reply \in [Handlers -> Replies \cup {None}]
      /\ TypeOK /\ HandlerInv(g) /\ HandlerInv(h)
  BY DEF RelayerInv, RelayerTypeOK, NonceInv
<1>2. UNCHANGED <<vars, post>> /\ pc[h] \in Waiting
  BY DEF HandlerStep, RpcFails, Cancelled, Lookup, BuildTransaction, SendTransaction,
     Confirm, GiveUp, Waiting
<1>3. CASE g # h
  <2>1. pc'[g] = pc[g] /\ tx'[g] = tx[g] /\ reply'[g] = reply[g] /\ landed' = landed
    BY <1>1, <1>3 DEF HandlerStep, RpcFails, Cancelled, Lookup, BuildTransaction,
       SendTransaction, Confirm, GiveUp, Awaits, Responds, Throws, Fails
  <2> QED
    BY <1>1, <1>2, <2>1, HandlerKept DEF vars
<1>4. ASSUME SendTransaction(h) \/ GiveUp(h) \/ RpcFails(h) \/ Cancelled(h)
      PROVE  HandlerInv(h)'
  <2>1. \/ \E p \in {"blockhash", "confirm", "gone", "failed"} :
             pc'[h] = p /\ reply'[h] = reply[h] /\ (p = "confirm" => pc[h] = "send")
        \/ pc'[h] = "done" /\ reply'[h] \notin {"ok:signature", "ok:already_initialized"}
    BY <1>1, <1>4 DEF SendTransaction, GiveUp, RpcFails, Cancelled, Awaits, Responds,
       Throws, Fails
  <2>2. tx' = tx /\ landed' = landed
    BY <1>4 DEF SendTransaction, GiveUp, RpcFails, Cancelled
  <2> QED
    BY <1>2, <2>1, <2>2, HandlerMoves
<1>5. ASSUME Confirm(h) PROVE HandlerInv(h)'
  <2>1. /\ tx[h] \in landed /\ tx' = tx /\ landed' = landed /\ pc[h] = "confirm"
        /\ pc'[h] = "done" /\ reply'[h] = "ok:signature"
    BY <1>1, <1>5 DEF Confirm, Responds
  <2>2. tx[h].request = post[h].request
    BY <1>1, <2>1 DEF HandlerInv
  <2> QED
    BY <1>2, <2>1, <2>2, HandlerMoves
<1>6. ASSUME BuildTransaction(h) PROVE HandlerInv(h)'
  <2> DEFINE t == [signature |-> post[h].signature, request |-> post[h].request,
                   lastValidBlockHeight |-> LastValidBlockHeight]
  <2>1. CASE /\ tx' = tx /\ landed' = landed
             /\ \/ pc'[h] = "done" /\ reply'[h] = "error"
                \/ pc'[h] = "failed" /\ reply'[h] = reply[h]
    BY <1>2, <2>1, HandlerMoves
  <2>2. CASE tx' = [tx EXCEPT ![h] = t] /\ pc'[h] = "send" /\ reply'[h] = reply[h]
    <3>1. post[h] \in Posts /\ Circulated(post[h]) /\ reply[h] = None
      BY <1>1, <1>2 DEF HandlerInv, Waiting
    <3>2. LastValidBlockHeight \in Nat
      BY RelayerConstants DEF RelayerInv, RelayerTypeOK, LastValidBlockHeight
    <3>3. t \in Transactions
      BY <3>1, <3>2 DEF Transactions, Posts
    <3>4. tx'[h] = t /\ post'[h] = post[h]
      BY <1>1, <1>2, <2>2
    <3>5. UNCHANGED <<signatures, Circulating>>
      BY <1>2 DEF vars, Circulating
    <3>6. None # "ok:signature" /\ None # "ok:already_initialized"
      BY RelayerConstants DEF Replies
    <3> QED
      BY <2>2, <3>1, <3>3, <3>4, <3>5, <3>6 DEF HandlerInv, Circulated
  <2> QED
    BY <1>1, <1>6, <2>1, <2>2 DEF BuildTransaction, Awaits, Responds, Throws, Fails
<1>7. ASSUME Lookup(h) PROVE HandlerInv(h)'
  <2> DEFINE body == post[h].request.body
  <2>1. /\ tx' = tx /\ landed' = landed /\ pc[h] = "lookup"
        /\ post[h] \in Posts
    BY <1>1, <1>7 DEF Lookup, HandlerInv
  <2>2. PICK user \in LookedUp(body), found \in BOOLEAN :
          /\ AccountFound(AddressLookedUp(user), found)
          /\ \/ /\ body.name = "wallet"
                /\ Responds(h, IF found THEN "initialized: yes" ELSE "initialized: no")
             \/ body.name = "airdrop" /\ found /\ Responds(h, "ok:airdrop")
             \/ body.name = "airdrop" /\ ~ found /\ Throws(h, body)
             \/ body.name = "wallet_init" /\ found /\ Responds(h, "ok:already_initialized")
             \/ body.name = "wallet_init" /\ ~ found /\ Awaits(h, "blockhash")
    BY <1>7 DEF Lookup
  <2>3. CASE body.name = "wallet_init" /\ found /\ Responds(h, "ok:already_initialized")
    <3>1. user = body.user
      BY <2>2, <2>3 DEF LookedUp
    <3>2. WalletHasLamports(post[h].request)
      BY <2>2, <2>3, <3>1 DEF AccountFound, AddressLookedUp, WalletHasLamports
    <3>3. pc'[h] = "done" /\ reply'[h] = "ok:already_initialized"
      BY <1>1, <2>3 DEF Responds
    <3> QED
      BY <1>2, <2>1, <3>2, <3>3, HandlerMoves
  <2>4. CASE ~(body.name = "wallet_init" /\ found)
    <3>1. \/ pc'[h] = "blockhash" /\ reply'[h] = reply[h]
          \/ pc'[h] = "failed" /\ reply'[h] = reply[h]
          \/ pc'[h] = "done" /\ reply'[h] \notin {"ok:signature", "ok:already_initialized"}
      BY <1>1, <2>2, <2>4 DEF Awaits, Responds, Throws, Fails
    <3> QED
      BY <1>2, <2>1, <3>1, HandlerMoves
  <2> QED
    BY <2>2, <2>3, <2>4
<1> QED
  BY <1>3, <1>4, <1>5, <1>6, <1>7 DEF HandlerStep

LEMMA HandlersKept ==
  ASSUME RelayerInv, [RelayerNext]_allvars, NEW g \in Handlers
  PROVE  HandlerInv(g)'
<1>1. TypeOK /\ HandlerInv(g) /\ [Next]_vars
  BY RelayerStepOnChain DEF RelayerInv, NonceInv
<1>2. ASSUME UNCHANGED <<pc, post, tx, reply>>, landed \subseteq landed'
      PROVE  HandlerInv(g)'
  BY <1>1, <1>2, HandlerKept
<1>3. \A t \in sent : SetupTokenAccount(t) \/ Land(t) =>
        UNCHANGED <<pc, post, tx, reply>> /\ landed \subseteq landed'
  BY DEF SetupTokenAccount, Land, rvars
<1>4. NewBlock \/ Others \/ UNCHANGED allvars => UNCHANGED <<pc, post, tx, reply, landed>>
  BY DEF NewBlock, Others, rvars, allvars
<1> QED
  BY <1>2, <1>3, <1>4, ReceiveKeepsHandlers, ReceiveMalformedKeepsHandlers,
     HandlerStepKeepsHandlers DEF RelayerNext

LEMMA ChainKept ==
  ASSUME RelayerInv, [RelayerNext]_allvars
  PROVE  ChainInv' /\ RequestLandsOnce'
<1>1. TypeOK /\ ChainInv /\ RequestLandsOnce /\ [Next]_vars
  BY RelayerStepOnChain DEF RelayerInv, NonceInv
<1>2. \A t \in sent : Circulated(t)'
  BY <1>1, CirculatedStays DEF ChainInv
<1>3. \A t \in landed : CarriedOut(t.request)'
  BY <1>1, StaysCarriedOut DEF ChainInv, Transactions
<1>4. ASSUME UNCHANGED <<sent, landed>> PROVE ChainInv' /\ RequestLandsOnce'
  BY <1>1, <1>2, <1>3, <1>4 DEF ChainInv, RequestLandsOnce, Circulated, CarriedOut
<1>5. ASSUME NEW h \in Handlers, SendTransaction(h), sent' = sent \cup {tx[h]}
      PROVE  ChainInv' /\ RequestLandsOnce'
  <2>1. tx[h] \in Transactions /\ Circulated(tx[h])
    BY <1>5 DEF SendTransaction, RelayerInv, HandlerInv, Circulated
  <2>2. Circulated(tx[h])' /\ landed' = landed
    BY <1>5, <2>1 DEF SendTransaction, vars, Circulated, Circulating
  <2>3. PICK t : t = tx[h] /\ t \in Transactions /\ sent' = sent \cup {t}
    BY <1>5, <2>1
  <2>4. Circulated(t)'
    BY <1>1, <2>1, <2>3, CirculatedStays
  <2> QED
    BY <1>1, <1>2, <1>3, <2>2, <2>3, <2>4 DEF ChainInv, RequestLandsOnce, Circulated,
         CarriedOut
<1>6. ASSUME NEW t \in sent, Land(t) PROVE ChainInv' /\ RequestLandsOnce'
  <2>1. landed' = landed \cup {t} /\ sent' = sent
    BY <1>6 DEF Land
  <2>2. ~ CarriedOut(t.request) /\ CarriedOut(t.request)'
    BY <1>6, LandingCarriesOut
  <2>3. \A u \in landed : u.request # t.request
    BY <1>1, <2>2 DEF ChainInv
  <2> QED
    BY <1>1, <1>2, <1>3, <2>1, <2>2, <2>3 DEF ChainInv, RequestLandsOnce, Circulated,
         CarriedOut
<1>7. ASSUME NEW h \in Handlers, HandlerStep(h) \/ RpcFails(h) \/ Cancelled(h)
      PROVE  ChainInv' /\ RequestLandsOnce'
  BY <1>4, <1>5, <1>7 DEF HandlerStep, Lookup, BuildTransaction, SendTransaction, Confirm,
     GiveUp, RpcFails, Cancelled
<1>8. ASSUME NEW h \in Handlers, NEW s \in signatures, NEW r \in Circulating, Receive(h, s, r)
      PROVE  ChainInv' /\ RequestLandsOnce'
  BY <1>4, <1>8 DEF Receive
<1>9. ASSUME NEW h \in Handlers, ReceiveMalformed(h) PROVE ChainInv' /\ RequestLandsOnce'
  BY <1>4, <1>9 DEF ReceiveMalformed
<1>10. \A t \in sent : SetupTokenAccount(t) => UNCHANGED <<sent, landed>>
  BY DEF SetupTokenAccount, rvars
<1>11. NewBlock \/ Others \/ UNCHANGED allvars => UNCHANGED <<sent, landed>>
  BY DEF NewBlock, Others, rvars, allvars
<1> QED
  BY <1>4, <1>6, <1>7, <1>8, <1>9, <1>10, <1>11 DEF RelayerNext

-----------------------------------------------------------------------------
(* The invariant holds.                                                    *)

LEMMA HandlerStepTypes ==
  ASSUME RelayerInv, NEW h \in Handlers, HandlerStep(h) \/ RpcFails(h) \/ Cancelled(h)
  PROVE  RelayerTypeOK'
<1>1. RelayerTypeOK /\ HandlerInv(h)
  BY DEF RelayerInv
<1>2. pc[h] \in Waiting
  BY DEF HandlerStep, RpcFails, Cancelled, Lookup, BuildTransaction, SendTransaction,
     Confirm, GiveUp, Waiting
<1>3. CASE Lookup(h) \/ Confirm(h) \/ GiveUp(h) \/ RpcFails(h) \/ Cancelled(h)
  BY <1>1, <1>3 DEF RelayerTypeOK, Lookup, Confirm, GiveUp, RpcFails, Cancelled, Awaits,
     Responds, Throws, Fails, Waiting, Replies
<1>4. CASE SendTransaction(h)
  <2>1. tx[h] \in Transactions
    BY <1>1, <1>4 DEF SendTransaction, HandlerInv
  <2> QED
    BY <1>1, <1>4, <2>1 DEF RelayerTypeOK, SendTransaction, Awaits, Responds, Throws,
       Fails, Waiting, Replies
<1>5. CASE BuildTransaction(h)
  <2>1. post[h] \in Posts /\ LastValidBlockHeight \in Nat
    BY <1>1, <1>2, RelayerConstants
       DEF HandlerInv, Waiting, RelayerTypeOK, LastValidBlockHeight
  <2>2. [signature |-> post[h].signature, request |-> post[h].request,
         lastValidBlockHeight |-> LastValidBlockHeight] \in Transactions
    BY <2>1 DEF Transactions, Posts
  <2> QED
    BY <1>1, <1>5, <2>2 DEF RelayerTypeOK, BuildTransaction, Awaits, Responds, Throws,
       Fails, Waiting, Replies
<1> QED
  BY <1>3, <1>4, <1>5 DEF HandlerStep

LEMMA RelayerTypeOKStep ==
  ASSUME RelayerInv, [RelayerNext]_allvars
  PROVE  RelayerTypeOK'
<1>1. RelayerTypeOK /\ NonceInv
  BY DEF RelayerInv
<1>2. ASSUME NEW h \in Handlers, NEW s \in signatures, NEW r \in Circulating, Receive(h, s, r)
      PROVE  RelayerTypeOK'
  <2>1. s \in Signatures /\ r \in Requests
    BY <1>1, CirculatingRequests DEF NonceInv, TypeOK
  <2>2. [signature |-> s, request |-> r] \in Posts
    BY <2>1 DEF Posts
  <2> QED
    BY <1>1, <1>2, <2>2 DEF RelayerTypeOK, Receive, Awaits, Responds, Throws, Fails, Waiting,
       Replies
<1>3. ASSUME NEW t \in sent, Land(t) PROVE RelayerTypeOK'
  BY <1>1, <1>3 DEF RelayerTypeOK, Land, MayLand
<1>4. CASE NewBlock
  BY <1>1, <1>4 DEF RelayerTypeOK, NewBlock
<1>5. ASSUME UNCHANGED rvars PROVE RelayerTypeOK'
  BY <1>1, <1>5 DEF RelayerTypeOK, rvars
<1>6. ASSUME NEW h \in Handlers, ReceiveMalformed(h) PROVE RelayerTypeOK'
  BY <1>1, <1>6 DEF RelayerTypeOK, ReceiveMalformed, Fails, Waiting
<1> QED
  BY <1>2, <1>3, <1>4, <1>5, <1>6, HandlerStepTypes
     DEF RelayerNext, SetupTokenAccount, Others, allvars

LEMMA RelayerInvInit == RelayerInit => RelayerInv
<1> SUFFICES ASSUME RelayerInit PROVE RelayerInv
  OBVIOUS
<1>1. NonceInv
  BY NonceInvInit DEF RelayerInit
<1>2. RelayerTypeOK /\ ChainInv /\ RequestLandsOnce
  BY DEF RelayerInit, RelayerTypeOK, ChainInv, RequestLandsOnce
<1>3. \A h \in Handlers : HandlerInv(h)
  BY RelayerConstants DEF RelayerInit, HandlerInv, Replies
<1> QED
  BY <1>1, <1>2, <1>3 DEF RelayerInv

LEMMA RelayerInvStep == RelayerInv /\ [RelayerNext]_allvars => RelayerInv'
<1> SUFFICES ASSUME RelayerInv, [RelayerNext]_allvars
             PROVE  RelayerInv'
  OBVIOUS
<1>1. NonceInv'
  BY RelayerStepOnChain, NonceInvStep DEF RelayerInv
<1> QED
  BY <1>1, RelayerTypeOKStep, HandlersKept, ChainKept DEF RelayerInv

LEMMA RelayerSafe == RelayerSpec => []RelayerInv
BY RelayerInvInit, RelayerInvStep, PTL DEF RelayerSpec

-----------------------------------------------------------------------------
(* The theorems.                                                           *)

(* The variables of the handlers and of the chain keep their types.        *)
THEOREM RelayerTypes == RelayerSpec => []RelayerTypeOK
<1>1. RelayerInv => RelayerTypeOK
  BY DEF RelayerInv
<1> QED
  BY <1>1, RelayerSafe, PTL

(* Every answer that carries a transaction's signature is true: the        *)
(* transaction is in a block with the request it answers, whose command    *)
(* has been carried out (server.ts:116).                                   *)
THEOREM ReceiptsAreTrue == RelayerSpec => []ReceiptMeansCarriedOut
<1>1. RelayerInv => ReceiptMeansCarriedOut
  BY DEF RelayerInv, HandlerInv, ChainInv, ReceiptMeansCarriedOut, CarriedOut
<1> QED
  BY <1>1, RelayerSafe, PTL

(* A wallet_init which the relayer answers itself is one the program would *)
(* refuse, whoever has put what at the wallet's address (server.ts:84-95). *)
THEOREM OpeningsNotHeldBack == RelayerSpec => []NoOpeningHeldBack
<1>1. RelayerInv => NoOpeningHeldBack
  BY DEF RelayerInv, HandlerInv, WalletHasLamports, NoOpeningHeldBack, WalletStateUnused
<1> QED
  BY <1>1, RelayerSafe, PTL

(* However often a request is posted and whatever blockhash each handler   *)
(* takes, one transaction at most lands for it.                            *)
THEOREM LandsOnce == RelayerSpec => []RequestLandsOnce
<1>1. RelayerInv => RequestLandsOnce
  BY DEF RelayerInv
<1> QED
  BY <1>1, RelayerSafe, PTL

(* Refinement: to the chain, the relayer is one more party among those the *)
(* wallet program's specification already allows.  What is proved of       *)
(* DiscordWalletCustody holds under the relayer too.                       *)
THEOREM RelayerAddsNothing == RelayerSpec => Spec
<1>1. RelayerInit => Init
  BY DEF RelayerInit
<1>2. RelayerInv /\ [RelayerNext]_allvars => [Next]_vars
  BY RelayerStepOnChain
<1> QED
  BY <1>1, <1>2, RelayerSafe, PTL DEF RelayerSpec, Spec

-----------------------------------------------------------------------------
(* The builder.                                                            *)

(* The checks of the program leave no choice of accounts: those that pass  *)
(* are the ones the relayer derives.                                       *)
LEMMA AccountsAreThoseNamed ==
  ASSUME NEW r, r.body \in Interactions, SomeAccounts(r)
  PROVE  LandsAsBuilt(r)
<1> SUFFICES Builds(r.body) /\ RunsWithDerivedAccounts(r)
  BY PositionsAgree DEF LandsAsBuilt
<1>1. PICK ws \in WalletAddresses, vault \in VaultAddresses :
        \/ WalletInit(r, RelayerKey, ws, vault)
        \/ SetWithdrawer(r, ws)
        \/ \E a \in Addresses : SolTransferAddress(r, ws, vault, a)
        \/ \E dw \in WalletAddresses, dv \in VaultAddresses : SolTransferUser(r, ws, vault, dw, dv)
        \/ \E source, destination \in TokenAddresses :
             \/ TokenTransferAddress(r, ws, vault, source, destination)
             \/ \E dw \in WalletAddresses :
                  TokenTransferUser(r, ws, vault, source, dw, destination)
  BY DEF SomeAccounts
<1>2. CASE WalletInit(r, RelayerKey, ws, vault)
  <2>1. r.body.name = "wallet_init" /\ r.body.guild
    BY <1>2 DEF WalletInit, ParsesAs, BuildTransferCommand
  <2>2. ws = SourceWallet(r) /\ vault = SourceVault(r)
    BY <1>2 DEF WalletInit, ExecuteAccounts, SourceWallet, SourceVault
  <2> QED
    BY <1>2, <2>1, <2>2 DEF RunsWithDerivedAccounts, Builds
<1>3. CASE SetWithdrawer(r, ws)
  <2>1. r.body.name = "set_withdrawer" /\ r.body.guild
    BY <1>3 DEF SetWithdrawer, ParsesAs, BuildTransferCommand
  <2>2. ws = SourceWallet(r)
    BY <1>3 DEF SetWithdrawer, ExecuteAccounts, SourceWallet
  <2> QED
    BY <1>3, <2>1, <2>2 DEF RunsWithDerivedAccounts, Builds
<1>4. ASSUME NEW a \in Addresses, SolTransferAddress(r, ws, vault, a)
      PROVE  Builds(r.body) /\ RunsWithDerivedAccounts(r)
  <2>1. r.body.name = "transfer" /\ r.body.guild
    BY <1>4 DEF SolTransferAddress, ParsesAs
  <2>2. r.body.tkn = Sol /\ r.body.to \in Addresses
    BY <1>4, ParsedOptions DEF SolTransferAddress
  <2>3. ws = SourceWallet(r) /\ vault = SourceVault(r) /\ a = r.body.to
    BY <1>4 DEF SolTransferAddress, PrepareTransferSourceWallet, SourceWallet,
       SourceVault
  <2> QED
    BY <1>4, <2>1, <2>2, <2>3, DistinctValues DEF RunsWithDerivedAccounts, Builds, VaultOf
<1>5. ASSUME NEW dw \in WalletAddresses, NEW dv \in VaultAddresses,
             SolTransferUser(r, ws, vault, dw, dv)
      PROVE  Builds(r.body) /\ RunsWithDerivedAccounts(r)
  <2>1. r.body.name = "transfer" /\ r.body.guild
    BY <1>5 DEF SolTransferUser, ParsesAs
  <2>2. r.body.tkn = Sol /\ r.body.to \in Users
    BY <1>5, ParsedOptions DEF SolTransferUser
  <2>3. /\ ws = SourceWallet(r) /\ vault = SourceVault(r)
        /\ dw = WalletPda(r.body.to) /\ dv = VaultPda(dw)
    BY <1>5 DEF SolTransferUser, PrepareTransferSourceWallet, SystemTransferAccounts,
       SourceWallet, SourceVault
  <2> QED
    BY <1>5, <2>1, <2>2, <2>3, DistinctValues DEF RunsWithDerivedAccounts, Builds, VaultOf
<1>6. ASSUME NEW source, NEW destination,
             TokenTransferAddress(r, ws, vault, source, destination)
      PROVE  Builds(r.body) /\ RunsWithDerivedAccounts(r)
  <2>1. r.body.name = "transfer" /\ r.body.guild
    BY <1>6 DEF TokenTransferAddress, ParsesAs
  <2>2. r.body.tkn \in Mints /\ r.body.to \in Addresses /\ Payee(r) = r.body.to
    BY <1>6, ParsedOptions, DistinctValues DEF TokenTransferAddress, Payee
  <2>3. /\ ws = SourceWallet(r) /\ vault = SourceVault(r)
        /\ source = SourceTokenAccount(r)
        /\ destination = DestinationTokenAccount(r)
    BY <1>6, <2>2 DEF TokenTransferAddress, PrepareTransferSourceWallet,
       ValidateAndParseTokenTransfer, DestinationTokenAccount, SourceWallet, SourceVault,
       SourceTokenAccount
  <2>4. r.body.tkn # None /\ r.body.to # None
    BY <2>2, DistinctValues
  <2> QED
    BY <1>6, <2>1, <2>2, <2>3, <2>4 DEF RunsWithDerivedAccounts, Builds
<1>7. ASSUME NEW source, NEW destination, NEW dw,
             TokenTransferUser(r, ws, vault, source, dw, destination)
      PROVE  Builds(r.body) /\ RunsWithDerivedAccounts(r)
  <2>1. r.body.name = "transfer" /\ r.body.guild
    BY <1>7 DEF TokenTransferUser, ParsesAs
  <2>2. r.body.tkn \in Mints /\ r.body.to \in Users /\ Payee(r) = VaultOf(r.body.to)
    BY <1>7, ParsedOptions DEF TokenTransferUser, Payee
  <2>3. /\ ws = SourceWallet(r) /\ vault = SourceVault(r)
        /\ source = SourceTokenAccount(r)
        /\ destination = DestinationTokenAccount(r)
        /\ dw = WalletPda(r.body.to)
    BY <1>7, <2>2 DEF TokenTransferUser, PrepareTransferSourceWallet, TokenTransferAccounts,
       ValidateAndParseTokenTransfer, DestinationTokenAccount, SourceWallet, SourceVault,
       SourceTokenAccount
  <2>4. r.body.tkn # None /\ r.body.to # None
    BY <2>2, DistinctValues
  <2> QED
    BY <1>7, <2>1, <2>2, <2>3, <2>4 DEF RunsWithDerivedAccounts, Builds
<1> QED
  BY <1>1, <1>2, <1>3, <1>4, <1>5, <1>6, <1>7

(* A command which the program runs for anybody, with whatever accounts,   *)
(* is one the relayer builds, with the same accounts, each in the place    *)
(* and with the rights the program expects.                                *)
THEOREM EveryCommandServed == RelayerSpec => RelayerServesEveryCommand
<1>1. ASSUME RelayerInv, NEW r \in Issued, SomeAccounts(r)
      PROVE  LandsAsBuilt(r)
  <2>1. r.body \in Interactions
    BY <1>1, CirculatingRequests DEF RelayerInv, NonceInv, Issued, Circulating
  <2> QED
    BY <1>1, <2>1, AccountsAreThoseNamed
<1>2. RelayerInv /\ [RelayerNext]_allvars =>
        [\A r \in Issued : authority' = r /\ SomeAccounts(r) => LandsAsBuilt(r)]_allvars
  BY <1>1
<1> QED
  BY <1>2, RelayerSafe, PTL DEF RelayerSpec, RelayerServesEveryCommand

=============================================================================
