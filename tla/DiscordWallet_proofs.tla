------------------------ MODULE DiscordWallet_proofs ------------------------
(***************************************************************************)
(* Theorems about the on-chain program, for any users, keys, mints,        *)
(* interactions and bounds.                                                *)
(***************************************************************************)
EXTENDS DiscordWalletCustody, TLAPS

-----------------------------------------------------------------------------
(* The operators.                                                          *)

(* A transfer within the balance keeps every balance a natural number, and *)
(* touches no other account.                                               *)
LEMMA MoveType ==
  ASSUME NEW S, NEW f \in [S -> Nat], NEW a \in S, NEW b \in S,
         NEW n \in Nat, n <= f[a]
  PROVE  Move(f, a, b, n) \in [S -> Nat]
BY DEF Move

(* Amounts come out as natural numbers.                                    *)
LEMMA BaseUnitsAreNat ==
  ASSUME NEW amt, NEW d, NEW n \in ToBaseUnits(amt, d)
  PROVE  n \in Nat
BY MaxU64Assumption DEF ToBaseUnits

LEMMA AddressesOfAUser ==
  ASSUME NEW u \in Users
  PROVE  /\ WalletPda(u) \in WalletAddresses
         /\ VaultOf(u) \in VaultAddresses
         /\ WalletAddresses \subseteq Addresses
         /\ VaultAddresses \subseteq Addresses
BY DEF WalletAddresses, VaultAddresses, Addresses

(* A request in circulation is a request, by an interaction of a user.     *)
LEMMA CirculatingRequests ==
  ASSUME TypeOK, NEW r \in Circulating
  PROVE  r \in Requests /\ r.body \in Interactions /\ r.body.user \in Users
         /\ r.timestamp \in Nat /\ r.id \in Nat
BY DEF TypeOK, Circulating, Signatures, Requests, Interactions

(* A command's options have been looked at.                                *)
LEMMA ParsedOptions ==
  ASSUME NEW body \in Interactions
  PROVE  /\ ParsesAs(body, "SetWithdrawer") => body.wallet \in Addresses \cup {ZeroAddress}
         /\ ParsesAs(body, "TransferSolAddress") => body.tkn = Sol /\ body.to \in Addresses
         /\ ParsesAs(body, "TransferSolUser") => body.tkn = Sol /\ body.to \in Users
         /\ ParsesAs(body, "TransferTokenAddress") => body.tkn \in Mints /\ body.to \in Addresses
         /\ ParsesAs(body, "TransferTokenUser") => body.tkn \in Mints /\ body.to \in Users
BY DEF ParsesAs, BuildTransferCommand, Interactions

-----------------------------------------------------------------------------
(* Type correctness, one lemma per entry point.                            *)

LEMMA ExecutesType ==
  ASSUME TypeOK, NEW r \in Requests, NEW ws \in WalletAddresses,
         NEW w \in WalletStates, Executes(r, ws, w)
  PROVE  /\ walletData' \in [WalletAddresses -> WalletStates \cup {None}]
         /\ executed' \subseteq Requests
         /\ authority' \in Requests \cup Keys \cup {None}
         /\ now' \in Nat
         /\ signatures' \subseteq Signatures
<1>1. AdvanceWalletNonce(w, r) \in WalletStates
  BY DEF AdvanceWalletNonce, WalletStates, Requests
<1> QED
  BY <1>1 DEF Executes, TypeOK

LEMMA SystemTransferType ==
  ASSUME TypeOK, NEW a \in Addresses, NEW b \in Addresses, NEW n \in Nat,
         SystemTransfer(a, b, n)
  PROVE  lamports' \in [Addresses -> Nat]
BY MoveType DEF SystemTransfer, CanTransfer, TypeOK

LEMMA TokenTransferType ==
  ASSUME TypeOK, NEW owner, NEW a \in TokenAddresses, NEW b \in TokenAddresses,
         NEW n \in Nat, tokens[a] # None, tokens[b] # None,
         TokenTransferChecked(owner, a, b, n)
  PROVE  tokens' \in [TokenAddresses -> TokenAccounts \cup {None}]
<1>1. tokens[a] \in TokenAccounts /\ tokens[b] \in TokenAccounts
  BY DEF TypeOK
<1>2. tokens[a].amount \in Nat /\ n <= tokens[a].amount
  BY <1>1 DEF TokenTransferChecked, CanTransferTokens, TokenAccounts
<1> DEFINE T == [tokens EXCEPT ![a].amount = @ - n]
<1>3. T[b] \in TokenAccounts /\ T \in [TokenAddresses -> TokenAccounts \cup {None}]
  BY <1>1, <1>2 DEF TypeOK, TokenAccounts
<1>4. [T EXCEPT ![b].amount = @ + n] \in [TokenAddresses -> TokenAccounts \cup {None}]
  BY <1>3 DEF TokenAccounts
<1>5. tokens' = [T EXCEPT ![b].amount = @ + n]
  BY DEF TokenTransferChecked
<1> QED
  BY <1>4, <1>5

LEMMA WalletInitType ==
  ASSUME TypeOK, NEW r \in Circulating, NEW payer \in Keys,
         NEW ws \in WalletAddresses, NEW vault \in VaultAddresses,
         WalletInit(r, payer, ws, vault)
  PROVE  TypeOK'
<1>1. r \in Requests /\ r.body.user \in Users
  BY CirculatingRequests
<1>2. InitialWalletState(r.body.user) \in WalletStates
  BY <1>1 DEF InitialWalletState, WalletStates
<1>3. lamports' \in [Addresses -> Nat]
  <2> DEFINE fund == IF lamports[vault] = 0 THEN VaultRent ELSE 0
  <2>1. fund \in Nat /\ WalletRent \in Nat
    BY ConstantTypes
  <2>2. payer \in Addresses /\ ws \in Addresses /\ vault \in Addresses
    BY DEF Addresses
  <2>3. lamports[payer] \in Nat /\ WalletRent + fund <= lamports[payer]
    BY <2>2 DEF TypeOK, WalletInit, CreateWallet
  <2> DEFINE L == Move(lamports, payer, ws, WalletRent)
  <2>4. L \in [Addresses -> Nat]
    BY <2>1, <2>2, <2>3, MoveType DEF TypeOK
  <2>5. fund <= L[payer]
    BY <2>1, <2>2, <2>3 DEF Move, TypeOK
  <2>6. lamports' = Move(L, payer, vault, fund)
    BY DEF WalletInit, CreateWallet
  <2> HIDE DEF L, fund
  <2> QED
    BY <2>1, <2>2, <2>4, <2>5, <2>6, MoveType
<1> QED
  BY <1>1, <1>2, <1>3 DEF TypeOK, WalletInit

LEMMA SetWithdrawerType ==
  ASSUME TypeOK, NEW r \in Circulating, NEW ws \in WalletAddresses,
         SetWithdrawer(r, ws)
  PROVE  TypeOK'
<1>1. r \in Requests /\ r.body \in Interactions
  BY CirculatingRequests
<1>2. walletData[ws] \in WalletStates
  BY DEF TypeOK, SetWithdrawer, IsWalletState
<1>3. [walletData[ws] EXCEPT !.withdrawer = r.body.wallet] \in WalletStates
  BY <1>1, <1>2, ParsedOptions DEF SetWithdrawer, WalletStates
<1>4. lamports' = lamports /\ tokens' = tokens
  BY DEF SetWithdrawer
<1> QED
  BY <1>1, <1>3, <1>4, ExecutesType DEF SetWithdrawer, TypeOK

LEMMA InvokeSolTransferType ==
  ASSUME TypeOK, NEW r \in Circulating, NEW ws \in WalletAddresses,
         NEW vault \in VaultAddresses, NEW destination \in Addresses,
         IsWalletState(ws),
         InvokeSolTransfer(r, ws, vault, destination)
  PROVE  TypeOK'
<1>1. r \in Requests /\ walletData[ws] \in WalletStates /\ vault \in Addresses
  BY CirculatingRequests DEF TypeOK, IsWalletState, Addresses
<1>2. lamports' \in [Addresses -> Nat]
  BY <1>1, BaseUnitsAreNat, SystemTransferType DEF InvokeSolTransfer
<1>3. Executes(r, ws, walletData[ws]) /\ tokens' = tokens
  BY DEF InvokeSolTransfer
<1> QED
  BY <1>1, <1>2, <1>3, ExecutesType DEF TypeOK

LEMMA InvokeTokenTransferType ==
  ASSUME TypeOK, NEW r \in Circulating, NEW ws \in WalletAddresses,
         NEW vault, NEW source \in TokenAddresses, NEW destination \in TokenAddresses,
         IsWalletState(ws), tokens[source] # None, tokens[destination] # None,
         InvokeTokenTransfer(r, ws, vault, source, destination)
  PROVE  TypeOK'
<1>1. r \in Requests /\ walletData[ws] \in WalletStates
  BY CirculatingRequests DEF TypeOK, IsWalletState
<1>2. tokens' \in [TokenAddresses -> TokenAccounts \cup {None}]
  BY BaseUnitsAreNat, TokenTransferType DEF InvokeTokenTransfer
<1>3. Executes(r, ws, walletData[ws]) /\ lamports' = lamports
  BY DEF InvokeTokenTransfer
<1> QED
  BY <1>1, <1>2, <1>3, ExecutesType DEF TypeOK

LEMMA ExecuteInstructionType ==
  TypeOK /\ ProcessExecuteInstruction => TypeOK'
BY WalletInitType, SetWithdrawerType DEF ProcessExecuteInstruction, ExecuteInstruction

LEMMA SystemTransferInstructionType ==
  TypeOK /\ ProcessSystemTransferInstruction => TypeOK'
<1> SUFFICES ASSUME TypeOK, NEW r \in Circulating,
                    NEW ws \in WalletAddresses, NEW vault \in VaultAddresses,
                    \/ \E destination \in Addresses :
                         SolTransferAddress(r, ws, vault, destination)
                    \/ \E dw \in WalletAddresses, dv \in VaultAddresses :
                         SolTransferUser(r, ws, vault, dw, dv)
             PROVE  TypeOK'
  BY DEF ProcessSystemTransferInstruction, SystemTransferInstruction
<1>1. PICK destination \in Addresses :
        IsWalletState(ws) /\ InvokeSolTransfer(r, ws, vault, destination)
  BY DEF SolTransferAddress, SolTransferUser, PrepareTransferSourceWallet, Addresses
<1> QED
  BY <1>1, InvokeSolTransferType

LEMMA TokenTransferInstructionType ==
  TypeOK /\ ProcessTokenTransferInstruction => TypeOK'
<1> SUFFICES ASSUME TypeOK, NEW r \in Circulating,
                    NEW ws \in WalletAddresses, NEW vault \in VaultAddresses,
                    NEW source \in TokenAddresses, NEW destination \in TokenAddresses,
                    \/ TokenTransferAddress(r, ws, vault, source, destination)
                    \/ \E dw \in WalletAddresses :
                         TokenTransferUser(r, ws, vault, source, dw, destination)
             PROVE  TypeOK'
  BY DEF ProcessTokenTransferInstruction, TokenTransferInstruction
<1>1. /\ IsWalletState(ws)
      /\ tokens[source] # None /\ tokens[destination] # None
      /\ InvokeTokenTransfer(r, ws, vault, source, destination)
  BY DEF TokenTransferAddress, TokenTransferUser, PrepareTransferSourceWallet,
         ValidateAndParseTokenTransfer, ValidateTokenTransferState
<1> QED
  BY <1>1, InvokeTokenTransferType

LEMMA WithdrawInstructionType ==
  TypeOK /\ ProcessWithdrawInstruction => TypeOK'
<1> SUFFICES ASSUME TypeOK, NEW k \in Keys,
                    NEW ws \in WalletAddresses, NEW vault \in VaultAddresses,
                    \/ \E destination \in Addresses : \E n \in 0..lamports[vault] :
                         WithdrawSol(k, ws, vault, destination, n)
                    \/ \E mint \in Mints, source, destination \in TokenAddresses :
                         /\ tokens[source] # None
                         /\ \E n \in 0..tokens[source].amount :
                              WithdrawToken(k, ws, vault, mint, source, destination, n)
             PROVE  TypeOK'
  BY DEF ProcessWithdrawInstruction
<1>1. ASSUME NEW destination \in Addresses, NEW n \in 0..lamports[vault],
             WithdrawSol(k, ws, vault, destination, n)
      PROVE  TypeOK'
  <2>1. n \in Nat /\ SystemTransfer(vault, destination, n)
    BY <1>1 DEF WithdrawSol
  <2>2. lamports' \in [Addresses -> Nat]
    BY <2>1, SystemTransferType DEF Addresses
  <2> QED
    BY <1>1, <2>2 DEF WithdrawSol, Withdraws, TypeOK
<1>2. ASSUME NEW mint \in Mints, NEW source \in TokenAddresses,
             NEW destination \in TokenAddresses, tokens[source] # None,
             NEW n \in 0..tokens[source].amount,
             WithdrawToken(k, ws, vault, mint, source, destination, n)
      PROVE  TypeOK'
  <2>1. n \in Nat /\ TokenTransferChecked(vault, source, destination, n)
        /\ tokens[destination] # None
    BY <1>2 DEF WithdrawToken, CanWithdrawToken, ValidateTokenTransferState
  <2>2. tokens' \in [TokenAddresses -> TokenAccounts \cup {None}]
    BY <1>2, <2>1, TokenTransferType
  <2> QED
    BY <1>2, <2>2 DEF WithdrawToken, Withdraws, TypeOK
<1> QED
  BY <1>1, <1>2

LEMMA IssueCommandType ==
  ASSUME TypeOK, NEW body \in UserInteractions, NEW id \in InteractionIds, NEW t \in Nat,
         IssueCommand([timestamp |-> t, id |-> id, body |-> body])
  PROVE  TypeOK'
<1> DEFINE r == [timestamp |-> t, id |-> id, body |-> body]
<1>1. r \in Requests
  BY ConstantTypes DEF Requests
<1>2. signatures' \subseteq Signatures
  BY <1>1 DEF IssueCommand, TypeOK, Signatures
<1> QED
  BY <1>2 DEF IssueCommand, Unauthorised, TypeOK

LEMMA EnvironmentType ==
  TypeOK /\ Environment => TypeOK'
<1> SUFFICES ASSUME TypeOK, Environment PROVE TypeOK'
  OBVIOUS
<1>1. CASE Tick
  BY <1>1 DEF Tick, Unauthorised, TypeOK
<1>2. ASSUME NEW body \in UserInteractions, NEW id \in InteractionIds,
             NEW t \in 0..(now + Skew),
             IssueCommand([timestamp |-> t, id |-> id, body |-> body])
      PROVE  TypeOK'
  BY <1>2, IssueCommandType
<1>3. ASSUME NEW from \in Keys, NEW to \in Addresses, NEW n \in DepositAmounts,
             Deposit(from, to, n)
      PROVE  TypeOK'
  <2>1. lamports' \in [Addresses -> Nat]
    BY <1>3, SystemTransferType, ConstantTypes DEF Deposit, Addresses
  <2> QED
    BY <1>3, <2>1 DEF Deposit, Unauthorised, TypeOK
<1>4. ASSUME NEW owner \in TokenOwners, NEW mint \in Mints,
             CreateAssociatedTokenAccount(owner, mint)
      PROVE  TypeOK'
  <2>1. [owner |-> owner, amount |-> 0] \in TokenAccounts
    BY ConstantTypes DEF TokenAccounts
  <2> QED
    BY <1>4, <2>1 DEF CreateAssociatedTokenAccount, Unauthorised, TypeOK
<1>5. ASSUME NEW owner \in Keys, NEW mint \in Mints, NEW from \in TokenAddresses,
             NEW to \in TokenAddresses, NEW n \in DepositAmounts,
             TokenDeposit(owner, mint, from, to, n)
      PROVE  TypeOK'
  <2>1. tokens' \in [TokenAddresses -> TokenAccounts \cup {None}]
    BY <1>5, TokenTransferType, ConstantTypes DEF TokenDeposit
  <2> QED
    BY <1>5, <2>1 DEF TokenDeposit, Unauthorised, TypeOK
<1>6. ASSUME NEW owner \in Keys, NEW newOwner \in TokenOwners, NEW a \in TokenAddresses,
             SetAuthority(owner, a, newOwner)
      PROVE  TypeOK'
  <2>1. tokens[a] \in TokenAccounts /\ newOwner \in Addresses
    BY <1>6, ConstantTypes DEF SetAuthority, TypeOK
  <2>2. [tokens[a] EXCEPT !.owner = newOwner] \in TokenAccounts
    BY <2>1 DEF TokenAccounts
  <2>3. tokens' \in [TokenAddresses -> TokenAccounts \cup {None}]
    BY <1>6, <2>2 DEF SetAuthority, TypeOK
  <2> QED
    BY <1>6, <2>3 DEF SetAuthority, Unauthorised, TypeOK
<1> QED
  BY <1>1, <1>2, <1>3, <1>4, <1>5, <1>6 DEF Environment, Discord, Chain

LEMMA TypeOKInit == Init => TypeOK
BY ConstantTypes DEF Init, TypeOK, Signatures

LEMMA TypeOKStep == TypeOK /\ [Next]_vars => TypeOK'
<1> SUFFICES ASSUME TypeOK, [Next]_vars PROVE TypeOK'
  OBVIOUS
<1>1. CASE UNCHANGED vars
  BY <1>1 DEF vars, TypeOK
<1>2. CASE Next
  BY <1>2, ExecuteInstructionType, SystemTransferInstructionType,
     TokenTransferInstructionType, WithdrawInstructionType, EnvironmentType DEF Next
<1> QED
  BY <1>1, <1>2

(* The accounts, requests and histories keep their types: in particular no *)
(* instruction overdraws an account or writes a wallet state without a     *)
(* withdrawer field.                                                       *)
THEOREM TypeCorrect == Spec => []TypeOK
<1> QED
  BY TypeOKInit, TypeOKStep, PTL DEF Spec

-----------------------------------------------------------------------------
(* What a step does to the wallet states and the histories.                *)

(* It leaves them alone, and needs nobody's command.                       *)
NoCommand ==
  walletData' = walletData /\ executed' = executed /\ authority' \in Keys \cup {None}

(* It makes a wallet where there was none, under a wallet_init.            *)
MakesWallet(u) ==
  /\ walletData[WalletPda(u)] = None
  /\ walletData' = [walletData EXCEPT ![WalletPda(u)] = InitialWalletState(u)]
  /\ executed' = executed
  /\ authority' \in Requests /\ authority'.body.name = "wallet_init"

(* It executes a command that is fresh and newer than the wallet's nonce.  *)
Lands(r, w) ==
  LET ws == WalletPda(r.body.user)
  IN  /\ walletData[ws] # None
      /\ RejectStaleTimestamp(r)
      /\ RejectReplayedInteraction(r, walletData[ws])
      /\ r.body.name # "wallet_init"
      /\ w.discord_user_id = walletData[ws].discord_user_id
      /\ Executes(r, ws, w)

LEMMA StepOnWallets ==
  ASSUME TypeOK, Next
  PROVE  /\ now' \in Nat /\ now <= now'
         /\ \/ NoCommand
            \/ \E u \in Users : MakesWallet(u) /\ now' = now
            \/ \E r \in Requests, w \in WalletStates : Lands(r, w)
<1>1. CASE ProcessExecuteInstruction
  <2>1. PICK r \in Circulating :
          /\ RejectStaleTimestamp(r)
          /\ \/ \E payer \in Keys, ws \in WalletAddresses, vault \in VaultAddresses :
                  WalletInit(r, payer, ws, vault)
             \/ \E ws \in WalletAddresses : SetWithdrawer(r, ws)
    BY <1>1 DEF ProcessExecuteInstruction, ExecuteInstruction, AcceptRequest
  <2>2. r \in Requests /\ r.body \in Interactions /\ r.body.user \in Users
    BY CirculatingRequests
  <2>3. ASSUME NEW payer \in Keys, NEW ws \in WalletAddresses, NEW vault \in VaultAddresses,
               WalletInit(r, payer, ws, vault)
        PROVE  MakesWallet(r.body.user) /\ now' = now
    BY <2>2, <2>3 DEF WalletInit, MakesWallet, WalletStateUnused, ExecuteAccounts,
         ParsesAs, BuildTransferCommand
  <2>4. ASSUME NEW ws \in WalletAddresses, SetWithdrawer(r, ws)
        PROVE  (\E w \in WalletStates : Lands(r, w)) /\ now' = now
    <3> DEFINE w == [walletData[ws] EXCEPT !.withdrawer = r.body.wallet]
    <3>1. w \in WalletStates /\ w.discord_user_id = walletData[ws].discord_user_id
      BY <2>2, <2>4, ParsedOptions DEF SetWithdrawer, IsWalletState, TypeOK, WalletStates
    <3>2. Lands(r, w)
      BY <2>1, <2>4, <3>1 DEF SetWithdrawer, ExecuteAccounts, IsWalletState, Lands, ParsesAs
    <3> QED
      BY <3>1, <3>2 DEF Lands, Executes
  <2> QED
    BY <2>1, <2>2, <2>3, <2>4 DEF TypeOK
<1>2. CASE ProcessSystemTransferInstruction \/ ProcessTokenTransferInstruction
  <2>1. PICK r \in Circulating, ws \in WalletAddresses :
          /\ RejectStaleTimestamp(r)
          /\ r.body.name = "transfer"
          /\ IsWalletState(ws) /\ ws = WalletPda(r.body.user)
          /\ RejectReplayedInteraction(r, walletData[ws])
          /\ Executes(r, ws, walletData[ws])
    BY <1>2 DEF ProcessSystemTransferInstruction, SystemTransferInstruction,
         ProcessTokenTransferInstruction, TokenTransferInstruction,
         AcceptRequest, SolTransferAddress, SolTransferUser, TokenTransferAddress,
         TokenTransferUser, PrepareTransferSourceWallet, ParsesAs,
         InvokeSolTransfer, InvokeTokenTransfer
  <2>2. r \in Requests /\ walletData[ws] \in WalletStates
    BY <2>1, CirculatingRequests DEF IsWalletState, TypeOK
  <2>3. Lands(r, walletData[ws])
    BY <2>1 DEF Lands, IsWalletState
  <2>4. now' = now
    BY <2>1 DEF Executes
  <2> QED
    BY <2>2, <2>3, <2>4 DEF TypeOK
<1>3. CASE ProcessWithdrawInstruction
  <2>1. NoCommand /\ now' = now
    BY <1>3 DEF ProcessWithdrawInstruction, WithdrawSol, WithdrawToken, Withdraws, NoCommand
  <2> QED
    BY <2>1 DEF TypeOK
<1>4. CASE Environment
  <2>1. NoCommand /\ (now' = now \/ now' = now + 1)
    BY <1>4 DEF Environment, Discord, Chain, Tick, IssueCommand, Deposit,
         CreateAssociatedTokenAccount,
         TokenDeposit, SetAuthority, Unauthorised, NoCommand
  <2> QED
    BY <2>1 DEF TypeOK
<1> QED
  BY <1>1, <1>2, <1>3, <1>4 DEF Next

(* A wallet's new state, wallet by wallet.                                 *)
LEMMA LandsOnOneWallet ==
  ASSUME TypeOK, NEW r \in Requests, NEW w \in WalletStates, Lands(r, w)
  PROVE  /\ r.body.user \in Users
         /\ WalletPda(r.body.user) \in WalletAddresses
         /\ walletData'[WalletPda(r.body.user)] # None
         /\ walletData'[WalletPda(r.body.user)].discord_user_id
              = walletData[WalletPda(r.body.user)].discord_user_id
         /\ walletData'[WalletPda(r.body.user)].last_timestamp = r.timestamp
         /\ walletData'[WalletPda(r.body.user)].last_interaction_id = r.id
         /\ \A a \in WalletAddresses : a # WalletPda(r.body.user) =>
              walletData'[a] = walletData[a]
         /\ executed' = executed \cup {r} /\ authority' = r
<1>1. r.body.user \in Users /\ WalletPda(r.body.user) \in WalletAddresses
  BY AddressesOfAUser DEF Requests, Interactions
<1>2. /\ AdvanceWalletNonce(w, r) # None
      /\ AdvanceWalletNonce(w, r).discord_user_id = w.discord_user_id
      /\ AdvanceWalletNonce(w, r).last_timestamp = r.timestamp
      /\ AdvanceWalletNonce(w, r).last_interaction_id = r.id
  <2>1. AdvanceWalletNonce(w, r) \in WalletStates
    BY DEF AdvanceWalletNonce, WalletStates, Requests
  <2> QED
    BY <2>1, DistinctValues DEF AdvanceWalletNonce, WalletStates
<1> QED
  BY <1>1, <1>2 DEF Lands, Executes, TypeOK

LEMMA MadeWallet ==
  ASSUME TypeOK, NEW u \in Users, MakesWallet(u)
  PROVE  /\ WalletPda(u) \in WalletAddresses
         /\ walletData'[WalletPda(u)] = InitialWalletState(u)
         /\ walletData'[WalletPda(u)] # None
         /\ \A a \in WalletAddresses : a # WalletPda(u) => walletData'[a] = walletData[a]
<1>1. InitialWalletState(u) \in WalletStates
  BY DEF InitialWalletState, WalletStates
<1> QED
  BY <1>1, AddressesOfAUser, DistinctValues DEF MakesWallet, TypeOK

-----------------------------------------------------------------------------
(* The nonce.                                                              *)

(* However far ahead Discord's clock runs, no wallet's nonce is more than  *)
(* MaxAge past the present.                                                *)
LEMMA NonceNeverAheadStep ==
  TypeOK /\ NonceNeverAhead /\ [Next]_vars => NonceNeverAhead'
<1> SUFFICES ASSUME TypeOK, NonceNeverAhead, [Next]_vars,
                    NEW a \in WalletAddresses, walletData'[a] # None
             PROVE  walletData'[a].last_timestamp <= now' + MaxAge
  BY DEF NonceNeverAhead
<1>1. CASE UNCHANGED vars
  BY <1>1 DEF vars, NonceNeverAhead
<1>2. CASE Next
  <2>1. now \in Nat /\ now' \in Nat /\ now <= now' /\ MaxAge \in Nat
    BY <1>2, StepOnWallets, ConstantTypes DEF TypeOK
  <2>2. ASSUME walletData'[a] = walletData[a] PROVE walletData'[a].last_timestamp <= now' + MaxAge
    <3>1. walletData[a].last_timestamp \in Nat /\ walletData[a].last_timestamp <= now + MaxAge
      BY <2>2 DEF TypeOK, WalletStates, NonceNeverAhead
    <3> QED
      BY <2>1, <2>2, <3>1
  <2>3. ASSUME NEW u \in Users, MakesWallet(u) PROVE walletData'[a].last_timestamp <= now' + MaxAge
    <3>1. InitialWalletState(u).last_timestamp = 0
      BY DEF InitialWalletState
    <3> QED
      BY <2>1, <2>2, <2>3, <3>1, MadeWallet
  <2>4. ASSUME NEW r \in Requests, NEW w \in WalletStates, Lands(r, w) PROVE walletData'[a].last_timestamp <= now' + MaxAge
    <3>1. r.timestamp \in Nat /\ r.timestamp <= now + MaxAge
      BY <2>1, <2>4 DEF Lands, RejectStaleTimestamp, Requests
    <3> QED
      BY <2>1, <2>2, <2>4, <3>1, LandsOnOneWallet
  <2> QED
    BY <1>2, <2>2, <2>3, <2>4, StepOnWallets DEF NoCommand
<1> QED
  BY <1>1, <1>2

(* However far ahead Discord's clock runs, no wallet's nonce is more than  *)
(* MaxAge past the present.                                                *)
THEOREM NonceBounded == Spec => []NonceNeverAhead
<1>1. Init => NonceNeverAhead
  BY DEF Init, NonceNeverAhead
<1> QED
  BY <1>1, TypeOKInit, TypeOKStep, NonceNeverAheadStep, PTL DEF Spec

SameWalletLater(w, v) ==
  /\ v # None
  /\ v.discord_user_id = w.discord_user_id
  /\ NonceNotBack(w, v)

(* A step never takes a wallet away or its nonce back.                     *)
LEMMA WalletNeverResetStep ==
  ASSUME TypeOK, Next, NEW a \in WalletAddresses, walletData[a] # None
  PROVE  SameWalletLater(walletData[a], walletData'[a])
<1>1. /\ walletData[a].last_timestamp \in Nat
      /\ walletData[a].last_interaction_id \in Nat
  BY DEF TypeOK, WalletStates
<1>2. ASSUME walletData'[a] = walletData[a]
      PROVE  SameWalletLater(walletData[a], walletData'[a])
  BY <1>1, <1>2 DEF SameWalletLater, NonceNotBack
<1>3. ASSUME NEW u \in Users, MakesWallet(u)
      PROVE  SameWalletLater(walletData[a], walletData'[a])
  BY <1>2, <1>3, MadeWallet DEF MakesWallet
<1>4. ASSUME NEW r \in Requests, NEW w \in WalletStates, Lands(r, w)
      PROVE  SameWalletLater(walletData[a], walletData'[a])
  <2>1. CASE a = WalletPda(r.body.user)
    <3>1. r.timestamp \in Nat /\ r.id \in Nat /\ RejectReplayedInteraction(r, walletData[a])
      BY <1>4, <2>1 DEF Lands, Requests
    <3> QED
      BY <1>1, <1>4, <2>1, <3>1, LandsOnOneWallet
         DEF SameWalletLater, NonceNotBack, RejectReplayedInteraction
  <2> QED
    BY <1>2, <1>4, <2>1, LandsOnOneWallet
<1> QED
  BY <1>2, <1>3, <1>4, StepOnWallets DEF NoCommand

(* Once made, a wallet is never reset: not by a second wallet_init, not by *)
(* an old command.                                                         *)
THEOREM WalletsArePermanent == Spec => WalletNeverReset
<1>1. TypeOK /\ [Next]_vars =>
        [\A ws \in WalletAddresses : walletData[ws] # None =>
           /\ walletData'[ws] # None
           /\ walletData'[ws].discord_user_id = walletData[ws].discord_user_id
           /\ NonceNotBack(walletData[ws], walletData'[ws])]_vars
  BY WalletNeverResetStep DEF SameWalletLater
<1> QED
  BY <1>1, TypeOKInit, TypeOKStep, PTL DEF Spec, WalletNeverReset

(* wallet_init, which no nonce protects, does not count as executed.       *)
ExecutedNeedNonce == \A r \in executed : r.body.name # "wallet_init"

(* The inductive invariant behind the order of commands: what has landed   *)
(* is behind its wallet's nonce, so whatever passes the replay check is    *)
(* after all of it.                                                        *)
NonceInv == TypeOK /\ NonceCoversExecuted /\ ExecutedNeedNonce

LEMMA NonceInvStep == NonceInv /\ [Next]_vars => NonceInv'
<1> SUFFICES ASSUME NonceInv, [Next]_vars PROVE NonceInv'
  OBVIOUS
<1>1. TypeOK /\ TypeOK'
  BY TypeOKStep DEF NonceInv
<1>2. CASE UNCHANGED vars
  BY <1>1, <1>2 DEF vars, NonceInv, NonceCoversExecuted, ExecutedNeedNonce,
     RejectReplayedInteraction
<1>3. CASE Next
  <2>1. \A q \in executed : q.body.name # "wallet_init"
    BY DEF NonceInv, ExecutedNeedNonce
  <2>2. ExecutedNeedNonce'
    BY <1>1, <1>3, <2>1, StepOnWallets, LandsOnOneWallet
       DEF NoCommand, MakesWallet, Lands, ExecutedNeedNonce
  <2>3. ASSUME NEW q \in executed
        PROVE  LET ws == WalletPda(q.body.user)
               IN  walletData'[ws] # None /\ ~ RejectReplayedInteraction(q, walletData'[ws])
    <3> DEFINE ws == WalletPda(q.body.user)
    <3>1. q.body.user \in Users /\ q.timestamp \in Nat /\ q.id \in Nat
      BY <1>1 DEF TypeOK, Requests, Interactions
    <3>2. ws \in WalletAddresses
      BY <3>1, AddressesOfAUser
    <3>3. walletData[ws] # None /\ ~ RejectReplayedInteraction(q, walletData[ws])
      BY DEF NonceInv, NonceCoversExecuted
    <3>4. walletData'[ws] # None /\ NonceNotBack(walletData[ws], walletData'[ws])
      BY <1>1, <1>3, <3>2, <3>3, WalletNeverResetStep DEF SameWalletLater
    <3>5. /\ walletData[ws] \in WalletStates /\ walletData'[ws] \in WalletStates
      BY <1>1, <3>2, <3>3, <3>4 DEF TypeOK
    <3> HIDE DEF ws
    <3>6. ~ RejectReplayedInteraction(q, walletData'[ws])
      BY <3>1, <3>3, <3>4, <3>5 DEF RejectReplayedInteraction, NonceNotBack, WalletStates
    <3> QED
      BY <3>4, <3>6 DEF ws
  <2>4. ASSUME NEW r \in Requests, NEW w \in WalletStates, Lands(r, w)
        PROVE  LET ws == WalletPda(r.body.user)
               IN  walletData'[ws] # None /\ ~ RejectReplayedInteraction(r, walletData'[ws])
    <3>1. r.timestamp \in Nat /\ r.id \in Nat
      BY DEF Requests
    <3> QED
      BY <1>1, <2>4, <3>1, LandsOnOneWallet DEF RejectReplayedInteraction
  <2>5. \A q \in executed' : q \in executed
          \/ \E w \in WalletStates : q \in Requests /\ Lands(q, w)
    BY <1>1, <1>3, StepOnWallets, LandsOnOneWallet DEF NoCommand, MakesWallet
  <2>6. NonceCoversExecuted'
    BY <2>3, <2>4, <2>5 DEF NonceCoversExecuted, RejectReplayedInteraction
  <2> QED
    BY <1>1, <2>2, <2>6 DEF NonceInv
<1> QED
  BY <1>2, <1>3

LEMMA NonceInvInit == Init => NonceInv
BY TypeOKInit DEF Init, NonceInv, NonceCoversExecuted, ExecutedNeedNonce

(* What has landed stays behind its wallet's nonce, for ever.              *)
THEOREM NonceCovers == Spec => []NonceCoversExecuted
<1>1. NonceInv => NonceCoversExecuted
  BY DEF NonceInv
<1> QED
  BY <1>1, NonceInvInit, NonceInvStep, PTL DEF Spec

(* A request is not newer than a nonce that covers a later one.            *)
LEMMA LandsAfterAll ==
  ASSUME NonceInv, NEW r \in Requests, NEW w \in WalletStates, Lands(r, w),
         NEW q \in executed, q.body.user = r.body.user
  PROVE  Precedes(q, r)
<1> DEFINE ws == WalletPda(r.body.user)
<1>1. TypeOK
  BY DEF NonceInv
<1>2. walletData[ws] # None /\ ~ RejectReplayedInteraction(q, walletData[ws])
  BY DEF NonceInv, NonceCoversExecuted
<1>3. RejectReplayedInteraction(r, walletData[ws])
  BY DEF Lands
<1>4. ws \in WalletAddresses
  BY AddressesOfAUser DEF Requests, Interactions
<1>5. walletData[ws] \in WalletStates
  BY <1>1, <1>2, <1>4 DEF TypeOK
<1>6. q \in Requests
  BY <1>1 DEF TypeOK
<1> HIDE DEF ws
<1> QED
  BY <1>2, <1>3, <1>5, <1>6 DEF RejectReplayedInteraction, Precedes, WalletStates, Requests

(* Commands of a user land in the order of their nonces, at most once.     *)
THEOREM CommandsOrdered == Spec => CommandsInNonceOrder
<1>1. ASSUME NonceInv, Next, authority' \in executed'
      PROVE  LandsInOrder(authority')
  <2>1. TypeOK
    BY <1>1 DEF NonceInv
  <2>2. CASE NoCommand
    <3>1. authority' \in Requests
      BY <1>1, <2>1, <2>2 DEF NoCommand, TypeOK
    <3> QED
      BY <2>2, <3>1, DistinctValues DEF NoCommand
  <2>3. CASE \E u \in Users : MakesWallet(u)
    BY <1>1, <2>3 DEF MakesWallet, NonceInv, ExecutedNeedNonce
  <2>4. ASSUME NEW r \in Requests, NEW w \in WalletStates, Lands(r, w)
        PROVE  LandsInOrder(authority')
    <3>1. authority' = r
      BY <2>1, <2>4, LandsOnOneWallet
    <3> QED
      BY <1>1, <2>4, <3>1, LandsAfterAll DEF LandsInOrder
  <2> QED
    BY <1>1, <2>1, <2>2, <2>3, <2>4, StepOnWallets
<1>2. NonceInv /\ [Next]_vars => [authority' \in executed' => LandsInOrder(authority')]_vars
  BY <1>1
<1> QED
  BY <1>2, NonceInvInit, NonceInvStep, PTL DEF Spec, CommandsInNonceOrder

=============================================================================
