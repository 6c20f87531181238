--------------------------- MODULE DiscordWallet ----------------------------
(***************************************************************************)
(* The on-chain program (programs/discord-wallet/src/lib.rs, sigverify.rs) *)
(* and the chain around it.                                                *)
(*                                                                         *)
(* Anyone may send a transaction, with any accounts, at any time and as    *)
(* often as they like; the parameters of an action are what the sender     *)
(* chooses and its guards are the program's checks.  An instruction that   *)
(* returns Err is reverted with its transaction: it is no step here.       *)
(* Transactions that land are serial, so an action is one transaction.     *)
(*                                                                         *)
(* Signatures never leave circulation.  A request may therefore land late, *)
(* out of order, several times, or never.                                  *)
(***************************************************************************)
EXTENDS Interaction, FiniteSets

CONSTANTS
  DiscordKey, ForeignKey,  \* DISCORD_PUBLIC_KEY, and some other key
  UserInteractions,        \* the interactions users make
  InteractionIds,          \* the ids Discord gives them
  ForeignSignatures,       \* signatures made with ForeignKey
  Skew,                    \* how far Discord's clock is from the chain's
  MaxAge,                  \* MAX_COMMAND_AGE_SECS
  WalletRent, VaultRent,   \* rent minimums of a wallet state and an empty account
  SolDecimals,             \* 9
  MintDecimals,            \* the decimals of each mint
  InitialLamports,         \* what each address holds at first
  InitialTokens,           \* the token accounts there are at first
  DepositAmounts,          \* bound: what a deposit may be
  TokenOwners,             \* bound: whom token accounts are made for or given to
  MaxTime, MaxRequests     \* bounds: the last instant, the requests issued

Signatures == [key : {DiscordKey, ForeignKey}, request : Requests]
WalletStates == [discord_user_id : Users, last_timestamp : Nat,
                 last_interaction_id : Nat, withdrawer : Addresses \cup {ZeroAddress}]
TokenAccounts == [owner : Addresses, amount : Nat]

ASSUME DistinctValues ==
  /\ None \notin WalletStates \cup TokenAccounts \cup Addresses \cup Users \cup Mints \cup Requests
  /\ ZeroAddress \notin Addresses
  /\ Sol \notin Mints \cup {None}
  /\ Users \cap (Addresses \cup {ZeroAddress}) = {}
  /\ Keys \cap (WalletAddresses \cup VaultAddresses \cup Requests) = {}
  /\ DiscordKey # ForeignKey

ASSUME ChainIsRentExempt ==
  \A a \in Addresses : InitialLamports[a] = 0 \/ InitialLamports[a] >= VaultRent

ASSUME ConstantTypes ==
  /\ UserInteractions \subseteq Interactions
  /\ InteractionIds \subseteq Nat
  /\ ForeignSignatures \subseteq [key : {ForeignKey}, request : Requests]
  /\ Skew \in Nat /\ MaxAge \in Nat /\ MaxTime \in Nat /\ MaxRequests \in Nat
  /\ WalletRent \in Nat /\ VaultRent \in Nat
  /\ SolDecimals \in Nat
  /\ MintDecimals \in [Mints -> Nat]
  /\ InitialLamports \in [Addresses -> Nat]
  /\ InitialTokens \in [TokenAddresses -> TokenAccounts \cup {None}]
  /\ \A o \in VaultAddresses, m \in Mints :
       LET t == InitialTokens[AssociatedTokenAddress(o, m)]
       IN  t # None => t.owner = o
  /\ DepositAmounts \subseteq Nat
  /\ TokenOwners \subseteq Addresses

VARIABLES
  now,         \* the chain's clock
  lamports,    \* the lamports of every address
  walletData,  \* the WalletState an address holds; None: system-owned and empty
  tokens,      \* the token account at every associated token address, or None
  signatures,  \* the signed requests in circulation
  executed,    \* history: the nonce-protected requests that have landed
  authority    \* history: who authorised the last step, None when nobody had to

vars == <<now, lamports, walletData, tokens, signatures, executed, authority>>

TypeOK ==
  /\ now \in Nat
  /\ lamports \in [Addresses -> Nat]
  /\ walletData \in [WalletAddresses -> WalletStates \cup {None}]
  /\ tokens \in [TokenAddresses -> TokenAccounts \cup {None}]
  /\ signatures \subseteq Signatures
  /\ executed \subseteq Requests
  /\ authority \in Requests \cup Keys \cup {None}

Init ==
  /\ now = 0
  /\ lamports = InitialLamports
  /\ walletData = [a \in WalletAddresses |-> None]
  /\ tokens = InitialTokens
  /\ signatures = ForeignSignatures
  /\ executed = {}
  /\ authority = None

Issued == {s.request : s \in {t \in signatures : t.key = DiscordKey}}
Circulating == {s.request : s \in signatures}

-----------------------------------------------------------------------------
(* The two programs the wallet program calls.                              *)

(* A transfer from an account to another, or to itself.                    *)
Move(balance, from, to, n) ==
  [[balance EXCEPT ![from] = @ - n] EXCEPT ![to] = @ + n]

RentMinimum(data, a) ==
  IF a \in WalletAddresses /\ data[a] # None THEN WalletRent ELSE VaultRent

(* The runtime refuses a transaction that leaves an account with lamports  *)
(* but less than its rent minimum.                                         *)
RentExempt(balance, data) ==
  \A a \in Addresses : balance[a] = 0 \/ balance[a] >= RentMinimum(data, a)

CanTransfer(from, to, n) ==
  /\ n <= lamports[from]
  /\ RentExempt(Move(lamports, from, to, n), walletData)

(* The System program's Transfer; its source has signed.                   *)
SystemTransfer(from, to, n) ==
  /\ CanTransfer(from, to, n)
  /\ lamports' = Move(lamports, from, to, n)

CanTransferTokens(owner, from, n) ==
  /\ tokens[from].owner = owner
  /\ n <= tokens[from].amount

(* The Token program's TransferChecked; its source's owner has signed.     *)
TokenTransferChecked(owner, from, to, n) ==
  /\ CanTransferTokens(owner, from, n)
  /\ tokens' = [[tokens EXCEPT ![from].amount = @ - n] EXCEPT ![to].amount = @ + n]

-----------------------------------------------------------------------------
(* The checks every signed command goes through.                           *)

(* An age measured towards the past only.                                  *)
RejectStaleTimestampPastOnly(r) == now - r.timestamp <= MaxAge

(* reject_stale_timestamp lets this request through.                       *)
RejectStaleTimestamp(r) ==
  IF now >= r.timestamp THEN now - r.timestamp <= MaxAge
                        ELSE r.timestamp - now <= MaxAge

(* A verification that only looks at who signed.                           *)
VerifyEd25519AnyMessage(s, r) == s.key = DiscordKey

(* verify_ed25519: the signature the Ed25519 program has just verified is  *)
(* Discord's, and its message is the one in this instruction.              *)
VerifyEd25519(s, r) == s.key = DiscordKey /\ s.request = r

(* The front of the instructions that carry a signed request.              *)
AcceptRequest(s, r) ==
  /\ RejectStaleTimestamp(r)
  /\ VerifyEd25519(s, r)

(* A nonce compared as "not older": the request itself passes again.       *)
NotOlderThanNonce(r, w) ==
  \/ r.timestamp > w.last_timestamp
  \/ r.timestamp = w.last_timestamp /\ r.id >= w.last_interaction_id

(* reject_replayed_interaction lets this request through: timestamp and    *)
(* interaction id, in that order, are past the wallet's.                   *)
RejectReplayedInteraction(r, w) ==
  \/ r.timestamp > w.last_timestamp
  \/ r.timestamp = w.last_timestamp /\ r.id > w.last_interaction_id

(* read_wallet_state succeeds.                                             *)
IsWalletState(ws) == ws \in WalletAddresses /\ walletData[ws] # None

(* Writing the wallet state back as it was read.                           *)
AdvanceNothing(w, r) == w

(* Writing the timestamp and forgetting the interaction id.                *)
AdvanceTimestampOnly(w, r) == [w EXCEPT !.last_timestamp = r.timestamp]

(* advance_wallet_nonce *)
AdvanceWalletNonce(w, r) ==
  [w EXCEPT !.last_timestamp = r.timestamp, !.last_interaction_id = r.id]

(* What every command but wallet_init leaves behind.                       *)
Executes(r, ws, w) ==
  /\ walletData' = [walletData EXCEPT ![ws] = AdvanceWalletNonce(w, r)]
  /\ executed' = executed \cup {r}
  /\ authority' = r
  /\ UNCHANGED <<now, signatures>>

-----------------------------------------------------------------------------
(* process_execute_instruction: wallet_init and set_withdrawer.            *)

(* The program does not care whether the account is in use.                *)
WalletStateMayBeInUse(ws) == lamports[ws] >= 0

(* wallet_init wants an address nothing has ever been put at.              *)
WalletStateUnused(ws) == walletData[ws] = None /\ lamports[ws] = 0

(* A wallet state whose withdrawer field is left unset.                    *)
UnsetWalletState(user) ==
  [discord_user_id |-> user, last_timestamp |-> 0, last_interaction_id |-> 0,
   withdrawer |-> None]

InitialWalletState(user) ==
  [discord_user_id |-> user, last_timestamp |-> 0, last_interaction_id |-> 0,
   withdrawer |-> ZeroAddress]

(* CreateAccount::with_minimum_balance for the wallet state and, unless    *)
(* somebody has funded it already, for the vault.                          *)
CreateWallet(payer, ws, vault) ==
  LET vaultFund == IF lamports[vault] = 0 THEN VaultRent ELSE 0
  IN  /\ WalletRent + vaultFund <= lamports[payer]
      /\ lamports' = Move(Move(lamports, payer, ws, WalletRent), payer, vault, vaultFund)

(* ExecuteAccounts: the accounts are those of the user whose command it is. *)
ExecuteAccounts(r, ws) == ws = WalletPda(r.body.user)

(* process_wallet_init.  It neither reads nor advances a nonce.            *)
WalletInit(r, payer, ws, vault) ==
  /\ ParsesAs(r.body, "WalletInit")
  /\ ExecuteAccounts(r, ws) /\ vault = VaultPda(ws)
  /\ WalletStateUnused(ws)
  /\ CreateWallet(payer, ws, vault)
  /\ walletData' = [walletData EXCEPT ![ws] = InitialWalletState(r.body.user)]
  /\ RentExempt(lamports', walletData')
  /\ authority' = r
  /\ UNCHANGED <<now, tokens, signatures, executed>>

(* process_set_withdrawer *)
SetWithdrawer(r, ws) ==
  /\ ParsesAs(r.body, "SetWithdrawer")
  /\ IsWalletState(ws)
  /\ walletData[ws].discord_user_id = r.body.user
  /\ ExecuteAccounts(r, ws)
  /\ RejectReplayedInteraction(r, walletData[ws])
  /\ r.body.wallet # ZeroAddress
  /\ Executes(r, ws, [walletData[ws] EXCEPT !.withdrawer = r.body.wallet])
  /\ UNCHANGED <<lamports, tokens>>

(* What it does with a request it has accepted, for any accounts.          *)
ExecuteInstruction(r) ==
  \/ \E payer \in Keys, ws \in WalletAddresses, vault \in VaultAddresses :
       WalletInit(r, payer, ws, vault)
  \/ \E ws \in WalletAddresses : SetWithdrawer(r, ws)

ProcessExecuteInstruction ==
  \E s \in signatures, r \in Circulating : AcceptRequest(s, r) /\ ExecuteInstruction(r)

-----------------------------------------------------------------------------
(* process_system_transfer_instruction and process_token_transfer_         *)
(* instruction: the four transfers.                                        *)

(* prepare_transfer_source_wallet *)
PrepareTransferSourceWallet(r, ws, vault) ==
  /\ IsWalletState(ws)
  /\ walletData[ws].discord_user_id = r.body.user
  /\ ws = WalletPda(r.body.user) /\ vault = VaultPda(ws)
  /\ RejectReplayedInteraction(r, walletData[ws])

(* invoke_sol_transfer, and the nonce written after it.  The vault's       *)
(* signature is made from the seeds of this wallet state.                  *)
InvokeSolTransfer(r, ws, vault, destination) ==
  /\ \E n \in ToBaseUnits(r.body.amt, SolDecimals) :
       SystemTransfer(vault, destination, n)
  /\ Executes(r, ws, walletData[ws])
  /\ UNCHANGED tokens

(* process_sol_transfer_address *)
SolTransferAddress(r, ws, vault, destination) ==
  /\ ParsesAs(r.body, "TransferSolAddress")
  /\ PrepareTransferSourceWallet(r, ws, vault)
  /\ destination = r.body.to
  /\ InvokeSolTransfer(r, ws, vault, destination)

(* SystemTransferAccounts: a payee named as a user is paid into his vault. *)
SystemTransferAccounts(r, destinationWallet, destinationVault) ==
  /\ destinationWallet = WalletPda(r.body.to)
  /\ destinationVault = VaultPda(destinationWallet)

(* process_sol_transfer_user.  The payee needs no wallet yet.              *)
SolTransferUser(r, ws, vault, destinationWallet, destinationVault) ==
  /\ ParsesAs(r.body, "TransferSolUser")
  /\ PrepareTransferSourceWallet(r, ws, vault)
  /\ SystemTransferAccounts(r, destinationWallet, destinationVault)
  /\ InvokeSolTransfer(r, ws, vault, destinationVault)

SystemTransferInstruction(r) ==
  \E ws \in WalletAddresses, vault \in VaultAddresses :
    \/ \E destination \in Addresses : SolTransferAddress(r, ws, vault, destination)
    \/ \E destinationWallet \in WalletAddresses, destinationVault \in VaultAddresses :
         SolTransferUser(r, ws, vault, destinationWallet, destinationVault)

ProcessSystemTransferInstruction ==
  \E s \in signatures, r \in Circulating :
    AcceptRequest(s, r) /\ SystemTransferInstruction(r)

(* validate_token_transfer_state.  An associated token address is derived  *)
(* from the mint, and the account at it never changes mint.                *)
ValidateTokenTransferState(vault, source, destination) ==
  /\ tokens[source] # None /\ tokens[source].owner = vault
  /\ tokens[destination] # None

(* A destination taken on its address alone.                               *)
ValidateTokenTransferByAddress(vault, mint, source, destination, owner) ==
  /\ source = AssociatedTokenAddress(vault, mint)
  /\ destination = AssociatedTokenAddress(owner, mint)
  /\ ValidateTokenTransferState(vault, source, destination)

(* validate_and_parse_token_transfer, apart from the amount.  The address  *)
(* of the destination is derived from its owner, and the owner is looked   *)
(* up as well: a token account can change hands.                           *)
ValidateAndParseTokenTransfer(vault, mint, source, destination, owner) ==
  /\ source = AssociatedTokenAddress(vault, mint)
  /\ destination = AssociatedTokenAddress(owner, mint)
  /\ ValidateTokenTransferState(vault, source, destination)
  /\ tokens[destination].owner = owner

(* invoke_token_transfer, and the nonce written after it.                  *)
InvokeTokenTransfer(r, ws, vault, source, destination) ==
  /\ \E n \in ToBaseUnits(r.body.amt, MintDecimals[r.body.tkn]) :
       TokenTransferChecked(vault, source, destination, n)
  /\ Executes(r, ws, walletData[ws])
  /\ UNCHANGED lamports

(* process_token_transfer_address *)
TokenTransferAddress(r, ws, vault, source, destination) ==
  /\ ParsesAs(r.body, "TransferTokenAddress")
  /\ PrepareTransferSourceWallet(r, ws, vault)
  /\ ValidateAndParseTokenTransfer(vault, r.body.tkn, source, destination, r.body.to)
  /\ InvokeTokenTransfer(r, ws, vault, source, destination)

(* TokenTransferAccounts *)
TokenTransferAccounts(r, destinationWallet) == destinationWallet = WalletPda(r.body.to)

(* process_token_transfer_user *)
TokenTransferUser(r, ws, vault, source, destinationWallet, destination) ==
  /\ ParsesAs(r.body, "TransferTokenUser")
  /\ PrepareTransferSourceWallet(r, ws, vault)
  /\ TokenTransferAccounts(r, destinationWallet)
  /\ ValidateAndParseTokenTransfer(vault, r.body.tkn, source, destination, VaultOf(r.body.to))
  /\ InvokeTokenTransfer(r, ws, vault, source, destination)

TokenTransferInstruction(r) ==
  \E ws \in WalletAddresses, vault \in VaultAddresses,
     source, destination \in TokenAddresses :
    \/ TokenTransferAddress(r, ws, vault, source, destination)
    \/ \E destinationWallet \in WalletAddresses :
         TokenTransferUser(r, ws, vault, source, destinationWallet, destination)

ProcessTokenTransferInstruction ==
  \E s \in signatures, r \in Circulating :
    AcceptRequest(s, r) /\ TokenTransferInstruction(r)

-----------------------------------------------------------------------------
(* process_withdraw_instruction: the withdrawer needs no command.          *)

(* Any signer will do once a withdrawer is configured.                     *)
ValidateAnySigner(w, withdrawer) == w.withdrawer # ZeroAddress

(* validate_withdrawer, of an account that has signed.                     *)
ValidateWithdrawer(w, withdrawer) ==
  w.withdrawer # ZeroAddress /\ withdrawer = w.withdrawer

WithdrawAccounts(withdrawer, ws, vault) ==
  /\ IsWalletState(ws)
  /\ ValidateWithdrawer(walletData[ws], withdrawer)
  /\ ws = WalletPda(walletData[ws].discord_user_id)
  /\ vault = VaultPda(ws)

Withdraws(withdrawer) ==
  /\ authority' = withdrawer
  /\ UNCHANGED <<now, walletData, signatures, executed>>

(* A withdrawal that leaves the vault alive.                               *)
CanWithdrawSolKeepingRent(withdrawer, ws, vault, destination, n) ==
  /\ WithdrawAccounts(withdrawer, ws, vault)
  /\ lamports[vault] - n >= VaultRent
  /\ CanTransfer(vault, destination, n)

(* process_withdraw_sol succeeds.                                          *)
CanWithdrawSol(withdrawer, ws, vault, destination, n) ==
  /\ WithdrawAccounts(withdrawer, ws, vault)
  /\ CanTransfer(vault, destination, n)

(* process_withdraw_sol *)
WithdrawSol(withdrawer, ws, vault, destination, n) ==
  /\ CanWithdrawSol(withdrawer, ws, vault, destination, n)
  /\ SystemTransfer(vault, destination, n)
  /\ Withdraws(withdrawer)
  /\ UNCHANGED tokens

(* A withdrawal into the withdrawer's own token account only.              *)
CanWithdrawTokenToOwnAccount(withdrawer, ws, vault, mint, source, destination, n) ==
  /\ WithdrawAccounts(withdrawer, ws, vault)
  /\ source = AssociatedTokenAddress(vault, mint)
  /\ destination = AssociatedTokenAddress(withdrawer, mint)
  /\ ValidateTokenTransferState(vault, source, destination)
  /\ CanTransferTokens(vault, source, n)

(* process_withdraw_token succeeds.  Any token account of the mint may     *)
(* receive.                                                                *)
CanWithdrawToken(withdrawer, ws, vault, mint, source, destination, n) ==
  /\ WithdrawAccounts(withdrawer, ws, vault)
  /\ source = AssociatedTokenAddress(vault, mint)
  /\ \E o \in Addresses : destination = AssociatedTokenAddress(o, mint)
  /\ ValidateTokenTransferState(vault, source, destination)
  /\ CanTransferTokens(vault, source, n)

(* process_withdraw_token *)
WithdrawToken(withdrawer, ws, vault, mint, source, destination, n) ==
  /\ CanWithdrawToken(withdrawer, ws, vault, mint, source, destination, n)
  /\ TokenTransferChecked(vault, source, destination, n)
  /\ Withdraws(withdrawer)
  /\ UNCHANGED lamports

ProcessWithdrawInstruction ==
  \E withdrawer \in Keys, ws \in WalletAddresses, vault \in VaultAddresses :
    \/ \E destination \in Addresses : \E n \in 0..lamports[vault] :
         WithdrawSol(withdrawer, ws, vault, destination, n)
    \/ \E mint \in Mints, source, destination \in TokenAddresses :
         /\ tokens[source] # None
         /\ \E n \in 0..tokens[source].amount :
              WithdrawToken(withdrawer, ws, vault, mint, source, destination, n)

-----------------------------------------------------------------------------
(* The rest of the world.                                                  *)

Unauthorised == authority' = None /\ UNCHANGED <<walletData, executed>>

Tick ==
  /\ now < MaxTime
  /\ now' = now + 1
  /\ Unauthorised
  /\ UNCHANGED <<lamports, tokens, signatures>>

(* A user makes an interaction.  Discord signs it once, under an id of its *)
(* own and with a timestamp from a clock that may be off.                  *)
IssueCommand(r) ==
  /\ Cardinality(Issued) < MaxRequests
  /\ \A q \in Issued : q.id # r.id
  /\ r.timestamp <= now + Skew /\ now <= r.timestamp + Skew
  /\ signatures' = signatures \cup {[key |-> DiscordKey, request |-> r]}
  /\ Unauthorised
  /\ UNCHANGED <<now, lamports, tokens>>

(* Anybody may send lamports to any address, program-derived ones too.     *)
Deposit(from, to, n) ==
  /\ SystemTransfer(from, to, n)
  /\ Unauthorised
  /\ UNCHANGED <<now, tokens, signatures>>

CreateAssociatedTokenAccount(owner, mint) ==
  LET a == AssociatedTokenAddress(owner, mint)
  IN  /\ tokens[a] = None
      /\ tokens' = [tokens EXCEPT ![a] = [owner |-> owner, amount |-> 0]]
      /\ Unauthorised
      /\ UNCHANGED <<now, lamports, signatures>>

TokenDeposit(owner, mint, from, to, n) ==
  /\ \E o \in Addresses : from = AssociatedTokenAddress(o, mint)
  /\ \E o \in Addresses : to = AssociatedTokenAddress(o, mint)
  /\ tokens[from] # None /\ tokens[to] # None
  /\ TokenTransferChecked(owner, from, to, n)
  /\ Unauthorised
  /\ UNCHANGED <<now, lamports, signatures>>

(* The Token program's SetAuthority: an account gets another owner, and    *)
(* keeps the address derived from the first one.                           *)
SetAuthority(owner, a, newOwner) ==
  /\ tokens[a] # None /\ tokens[a].owner = owner
  /\ tokens' = [tokens EXCEPT ![a].owner = newOwner]
  /\ Unauthorised
  /\ UNCHANGED <<now, lamports, signatures>>

Discord ==
  \E body \in UserInteractions, id \in InteractionIds, t \in 0..(now + Skew) :
    IssueCommand([timestamp |-> t, id |-> id, body |-> body])

Chain ==
  \/ Tick
  \/ \E from \in Keys, to \in Addresses, n \in DepositAmounts : Deposit(from, to, n)
  \/ \E owner \in TokenOwners, mint \in Mints : CreateAssociatedTokenAccount(owner, mint)
  \/ \E owner \in Keys, mint \in Mints, from, to \in TokenAddresses, n \in DepositAmounts :
       TokenDeposit(owner, mint, from, to, n)
  \/ \E owner \in Keys, newOwner \in TokenOwners, a \in TokenAddresses :
       SetAuthority(owner, a, newOwner)

Environment == Discord \/ Chain

Next ==
  \/ ProcessExecuteInstruction
  \/ ProcessSystemTransferInstruction
  \/ ProcessTokenTransferInstruction
  \/ ProcessWithdrawInstruction
  \/ Environment

Spec == Init /\ [][Next]_vars

=============================================================================
