-------------------- MODULE DiscordWalletCustody_proofs ---------------------
(***************************************************************************)
(* The on-chain program implements Custody: every step of it, under the    *)
(* mapping of DiscordWalletCustody, is a step of the promise or a stutter. *)
(* What a command sends in tokens is shown to reach the payee's account,   *)
(* and a withdrawal to be always able to take everything out.              *)
(***************************************************************************)
EXTENDS DiscordWallet_proofs

-----------------------------------------------------------------------------
(* Addresses and accounts.                                                 *)

(* Different users have different vaults, and no vault is a key's address. *)
LEMMA VaultsDiffer ==
  ASSUME NEW u \in Users, NEW v \in Users
  PROVE  /\ VaultOf(u) = VaultOf(v) <=> u = v
         /\ WalletPda(u) = WalletPda(v) <=> u = v
         /\ WalletPda(u) # VaultOf(v)
         /\ VaultOf(u) \notin Keys
BY DistinctValues DEF VaultOf, VaultPda, WalletPda, VaultAddresses

LEMMA VaultTokenAddresses ==
  ASSUME NEW u \in Users, NEW m \in Mints
  PROVE  AssociatedTokenAddress(VaultOf(u), m) \in TokenAddresses
BY AddressesOfAUser DEF TokenAddresses

LEMMA TokenAddressesDiffer ==
  ASSUME NEW o, NEW m, NEW p, NEW n
  PROVE  AssociatedTokenAddress(o, m) = AssociatedTokenAddress(p, n) <=> o = p /\ m = n
BY DEF AssociatedTokenAddress

(* What a transfer does to each account, the same one twice included.      *)
LEMMA MoveAt ==
  ASSUME NEW S, NEW f \in [S -> Nat], NEW a \in S, NEW b \in S, NEW c \in S, NEW n \in Nat
  PROVE  Move(f, a, b, n)[c]
           = f[c] - (IF c = a THEN n ELSE 0) + (IF c = b THEN n ELSE 0)
BY DEF Move

LEMMA TokensMovedAt ==
  ASSUME TypeOK, NEW owner, NEW a \in TokenAddresses, NEW b \in TokenAddresses,
         NEW n \in Nat, tokens[a] # None, tokens[b] # None,
         TokenTransferChecked(owner, a, b, n), NEW c \in TokenAddresses
  PROVE  /\ tokens'[c] = None <=> tokens[c] = None
         /\ tokens[c] # None =>
              /\ tokens'[c].owner = tokens[c].owner
              /\ tokens'[c].amount = tokens[c].amount - (IF c = a THEN n ELSE 0)
                                                      + (IF c = b THEN n ELSE 0)
<1>1. \A d \in TokenAddresses : tokens[d] # None =>
        tokens[d] \in TokenAccounts /\ tokens[d].amount \in Nat
  BY DEF TypeOK, TokenAccounts
<1> DEFINE T == [tokens EXCEPT ![a].amount = @ - n]
<1>2. T[b] = IF b = a THEN [tokens[b] EXCEPT !.amount = @ - n] ELSE tokens[b]
  BY DEF TypeOK
<1>3. tokens' = [T EXCEPT ![b].amount = @ + n]
  BY DEF TokenTransferChecked
<1>4. \A d \in TokenAddresses : d # a /\ d # b => tokens'[d] = tokens[d]
  BY <1>3 DEF TypeOK
<1>5. CASE c # a /\ c # b
  BY <1>1, <1>4, <1>5
<1>6. ASSUME c = a \/ c = b
      PROVE  /\ tokens'[c] \in TokenAccounts
             /\ tokens'[c].owner = tokens[c].owner
             /\ tokens'[c].amount = tokens[c].amount - (IF c = a THEN n ELSE 0)
                                                     + (IF c = b THEN n ELSE 0)
  <2>1. tokens' \in [TokenAddresses -> TokenAccounts \cup {None}]
    BY TokenTransferType
  <2>2. CASE a = b
    <3>1. tokens'[c] = [[tokens[c] EXCEPT !.amount = @ - n] EXCEPT !.amount = @ + n]
      BY <1>3, <1>6, <2>2 DEF TypeOK
    <3>2. n <= tokens[c].amount
      BY <1>6, <2>2 DEF TokenTransferChecked, CanTransferTokens
    <3>3. [[tokens[c] EXCEPT !.amount = @ - n] EXCEPT !.amount = @ + n] \in TokenAccounts
      <4> DEFINE t == [tokens[c] EXCEPT !.amount = @ - n]
      <4>1. t \in TokenAccounts
        BY <1>1, <1>6, <2>2, <3>2 DEF TokenAccounts
      <4>2. [t EXCEPT !.amount = @ + n] \in TokenAccounts
        <5> HIDE DEF t
        <5> QED BY <4>1 DEF TokenAccounts
      <4> QED
        BY <4>2
    <3> QED
      BY <1>1, <1>6, <2>2, <3>1, <3>3 DEF TokenAccounts
  <2>3. CASE a # b /\ c = a
    <3>1. tokens'[c] = [tokens[c] EXCEPT !.amount = @ - n]
      BY <1>3, <2>3 DEF TypeOK
    <3>2. tokens'[c] # None
      <4>1. n <= tokens[a].amount
        BY DEF TokenTransferChecked, CanTransferTokens
      <4>2. [tokens[c] EXCEPT !.amount = @ - n] \in TokenAccounts
        BY <1>1, <2>3, <4>1 DEF TokenAccounts
      <4> QED
        BY <3>1, <4>2, DistinctValues
    <3> QED
      BY <1>1, <2>1, <2>3, <3>1, <3>2 DEF TokenAccounts
  <2>4. CASE a # b /\ c = b
    <3>1. tokens'[c] = [tokens[c] EXCEPT !.amount = @ + n]
      BY <1>3, <2>4 DEF TypeOK
    <3>2. [tokens[c] EXCEPT !.amount = @ + n] \in TokenAccounts
      BY <1>1, <2>4 DEF TokenAccounts
    <3> QED
      BY <1>1, <2>4, <3>1, <3>2 DEF TokenAccounts
  <2> QED
    BY <1>6, <2>2, <2>3, <2>4
<1> QED
  BY <1>5, <1>6, DistinctValues

-----------------------------------------------------------------------------
(* The mapped balances.                                                    *)

LEMMA Balances ==
  ASSUME NEW u \in Users
  PROVE  /\ BalanceOf(u) = [x \in Promise!Assets |-> BalanceOf(u)[x]]
         /\ BalanceOf(u)[Sol] = lamports[VaultOf(u)]
         /\ \A m \in Mints : m # Sol /\ BalanceOf(u)[m] = VaultTokens(u, m)
         /\ Promise!Assets = {Sol} \cup Mints
BY DistinctValues DEF BalanceOf, Promise!Assets

LEMMA BalancesPrimed ==
  ASSUME NEW u \in Users
  PROVE  /\ BalanceOf(u)' = [x \in Promise!Assets |-> BalanceOf(u)'[x]]
         /\ BalanceOf(u)'[Sol] = lamports'[VaultOf(u)]
         /\ \A m \in Mints : m # Sol /\ BalanceOf(u)'[m] = VaultTokens(u, m)'
BY DistinctValues DEF BalanceOf, Promise!Assets

(* The promise speaks of the same addresses, commands and amounts.         *)
LEMMA SameWords ==
  /\ \A u : Promise!VaultOf(u) = VaultOf(u)
  /\ Promise!Addresses = Addresses
  /\ \A amt, d : Promise!ToBaseUnits(amt, d) = ToBaseUnits(amt, d)
BY DEF Promise!VaultOf, Promise!VaultPda, Promise!WalletPda, VaultOf, VaultPda, WalletPda,
  Promise!Addresses, Addresses, Promise!WalletAddresses, WalletAddresses,
  Promise!VaultAddresses, VaultAddresses, Promise!ToBaseUnits, ToBaseUnits, Promise!Pow10, Pow10

(* The payee of a payment, as the promise sees him.                        *)
LEMMA PayeeIsNamed ==
  ASSUME NEW to \in Users \cup Addresses, NEW v \in Users
  PROVE  Promise!IsPayee(to, v)
           <=> (IF to \in Users THEN VaultOf(to) ELSE to) = VaultOf(v)
BY SameWords, VaultsDiffer, AddressesOfAUser, DistinctValues DEF Promise!IsPayee

LEMMA SolMoved ==
  ASSUME TypeOK, NEW u \in Users, NEW to \in Users \cup Addresses, NEW n \in Nat,
         SystemTransfer(VaultOf(u), IF to \in Users THEN VaultOf(to) ELSE to, n),
         tokens' = tokens
  PROVE  /\ [v \in Users |-> BalanceOf(v)]' = Promise!Transferred(u, Sol, n, to)
         /\ n <= [v \in Users |-> BalanceOf(v)][u][Sol]
<1> DEFINE d == IF to \in Users THEN VaultOf(to) ELSE to
<1>1. d \in Addresses /\ VaultOf(u) \in Addresses
  BY AddressesOfAUser
<1>2. lamports' = Move(lamports, VaultOf(u), d, n) /\ n <= lamports[VaultOf(u)]
  BY DEF SystemTransfer, CanTransfer
<1>3. ASSUME NEW v \in Users
      PROVE  lamports'[VaultOf(v)] = lamports[VaultOf(v)]
               - (IF v = u THEN n ELSE 0) + (IF Promise!IsPayee(to, v) THEN n ELSE 0)
  <2>1. VaultOf(v) \in Addresses /\ lamports \in [Addresses -> Nat]
    BY AddressesOfAUser DEF TypeOK
  <2>2. Move(lamports, VaultOf(u), d, n)[VaultOf(v)] = lamports[VaultOf(v)]
          - (IF VaultOf(v) = VaultOf(u) THEN n ELSE 0) + (IF VaultOf(v) = d THEN n ELSE 0)
    <3> HIDE DEF d
    <3> QED BY <1>1, <2>1, MoveAt
  <2>3. VaultOf(v) = VaultOf(u) <=> v = u
    BY VaultsDiffer
  <2>4. Promise!IsPayee(to, v) <=> VaultOf(v) = d
    BY PayeeIsNamed
  <2> HIDE DEF d
  <2> QED
    BY <1>2, <2>2, <2>3, <2>4
<1>4. ASSUME NEW v \in Users, NEW m \in Mints PROVE BalanceOf(v)'[m] = BalanceOf(v)[m]
  BY Balances, BalancesPrimed DEF VaultTokens
<1>5. ASSUME NEW v \in Users
      PROVE  BalanceOf(v)' = [y \in Promise!Assets |->
               IF y # Sol THEN BalanceOf(v)[y]
               ELSE BalanceOf(v)[y] - (IF v = u THEN n ELSE 0)
                                    + (IF Promise!IsPayee(to, v) THEN n ELSE 0)]
  BY <1>3, <1>4, Balances, BalancesPrimed
<1>6. [v \in Users |-> BalanceOf(v)]' = Promise!Transferred(u, Sol, n, to)
  BY <1>5 DEF Promise!Transferred
<1> QED
  BY <1>2, <1>6, Balances

LEMMA TokensMoved ==
  ASSUME TypeOK, NEW u \in Users, NEW m \in Mints, NEW to \in Users \cup Addresses,
         NEW n \in Nat, NEW o \in Addresses, o = (IF to \in Users THEN VaultOf(to) ELSE to),
         tokens[AssociatedTokenAddress(VaultOf(u), m)] # None,
         tokens[AssociatedTokenAddress(o, m)] # None,
         TokenTransferChecked(VaultOf(u), AssociatedTokenAddress(VaultOf(u), m),
                              AssociatedTokenAddress(o, m), n),
         lamports' = lamports
  PROVE  /\ [v \in Users |-> BalanceOf(v)]' = Promise!Transferred(u, m, n, to)
         /\ n <= [v \in Users |-> BalanceOf(v)][u][m]
<1> DEFINE a == AssociatedTokenAddress(VaultOf(u), m)
           b == AssociatedTokenAddress(o, m)
<1>1. a \in TokenAddresses /\ b \in TokenAddresses
  BY VaultTokenAddresses DEF TokenAddresses
<1>2. ASSUME NEW v \in Users, NEW x \in Mints
      PROVE  VaultTokens(v, x)' = IF x # m THEN VaultTokens(v, x)
               ELSE VaultTokens(v, x) - (IF v = u THEN n ELSE 0)
                                      + (IF Promise!IsPayee(to, v) THEN n ELSE 0)
  <2> DEFINE c == AssociatedTokenAddress(VaultOf(v), x)
  <2>1. c \in TokenAddresses
    BY VaultTokenAddresses
  <2>2. c = a <=> v = u /\ x = m
    BY TokenAddressesDiffer, VaultsDiffer
  <2>3. c = b <=> Promise!IsPayee(to, v) /\ x = m
    BY TokenAddressesDiffer, PayeeIsNamed
  <2>4. /\ tokens'[c] = None <=> tokens[c] = None
        /\ tokens[c] # None =>
             tokens'[c].amount = tokens[c].amount - (IF c = a THEN n ELSE 0)
                                                  + (IF c = b THEN n ELSE 0)
    <3> HIDE DEF a, b, c
    <3>1. tokens[a] # None /\ tokens[b] # None /\ TokenTransferChecked(VaultOf(u), a, b, n)
      BY DEF a, b
    <3> QED
      BY <1>1, <2>1, <3>1, TokensMovedAt
  <2>5. tokens[c] # None => tokens[c].amount \in Nat
    BY <2>1 DEF TypeOK, TokenAccounts
  <2>6. VaultTokens(v, x) = IF tokens[c] = None THEN 0 ELSE tokens[c].amount
    BY DEF VaultTokens
  <2>7. VaultTokens(v, x)' = IF tokens'[c] = None THEN 0 ELSE tokens'[c].amount
    BY DEF VaultTokens
  <2>8. tokens[a] # None /\ tokens[b] # None
    OBVIOUS
  <2> HIDE DEF a, b, c
  <2> QED
    BY <2>2, <2>3, <2>4, <2>5, <2>6, <2>7, <2>8
<1>3. ASSUME NEW v \in Users
      PROVE  BalanceOf(v)' = [y \in Promise!Assets |->
               IF y # m THEN BalanceOf(v)[y]
               ELSE BalanceOf(v)[y] - (IF v = u THEN n ELSE 0)
                                    + (IF Promise!IsPayee(to, v) THEN n ELSE 0)]
  <2>1. ASSUME NEW y \in Promise!Assets
        PROVE  BalanceOf(v)'[y] = IF y # m THEN BalanceOf(v)[y]
                 ELSE BalanceOf(v)[y] - (IF v = u THEN n ELSE 0)
                                      + (IF Promise!IsPayee(to, v) THEN n ELSE 0)
    BY <1>2, <2>1, Balances, BalancesPrimed
  <2> QED
    BY <2>1, BalancesPrimed
<1>4. [v \in Users |-> BalanceOf(v)]' = Promise!Transferred(u, m, n, to)
  BY <1>3 DEF Promise!Transferred
<1>5. n <= BalanceOf(u)[m]
  BY Balances DEF TokenTransferChecked, CanTransferTokens, VaultTokens
<1> QED
  BY <1>4, <1>5

-----------------------------------------------------------------------------
(* A vault's token accounts stay its own: the vault never signs for a      *)
(* change of owner, and nobody else can.                                   *)
VaultsKeepTheirAccounts ==
  \A u \in Users, m \in Mints :
    LET t == tokens[AssociatedTokenAddress(VaultOf(u), m)]
    IN  t # None => t.owner = VaultOf(u)

LEMMA VaultsKeepTheirAccountsInit == Init => VaultsKeepTheirAccounts
BY AddressesOfAUser, ConstantTypes DEF Init, VaultsKeepTheirAccounts

(* A transfer changes no owner.                                            *)
LEMMA OwnersStay ==
  ASSUME TypeOK, VaultsKeepTheirAccounts, NEW owner, NEW a \in TokenAddresses,
         NEW b \in TokenAddresses, NEW n \in Nat, tokens[a] # None, tokens[b] # None,
         TokenTransferChecked(owner, a, b, n)
  PROVE  VaultsKeepTheirAccounts'
<1> SUFFICES ASSUME NEW u \in Users, NEW m \in Mints,
                    tokens'[AssociatedTokenAddress(VaultOf(u), m)] # None
             PROVE  tokens'[AssociatedTokenAddress(VaultOf(u), m)].owner = VaultOf(u)
  BY DEF VaultsKeepTheirAccounts
<1>1. tokens'[AssociatedTokenAddress(VaultOf(u), m)].owner
        = tokens[AssociatedTokenAddress(VaultOf(u), m)].owner
      /\ tokens[AssociatedTokenAddress(VaultOf(u), m)] # None
  BY VaultTokenAddresses, TokensMovedAt
<1> QED
  BY <1>1 DEF VaultsKeepTheirAccounts

LEMMA VaultsKeepTheirAccountsStep ==
  TypeOK /\ VaultsKeepTheirAccounts /\ [Next]_vars => VaultsKeepTheirAccounts'
<1> SUFFICES ASSUME TypeOK, VaultsKeepTheirAccounts, [Next]_vars
             PROVE  VaultsKeepTheirAccounts'
  OBVIOUS
<1>1. CASE tokens' = tokens
  BY <1>1 DEF VaultsKeepTheirAccounts
<1>2. CASE ProcessTokenTransferInstruction
  <2>1. PICK r \in Circulating, vault \in VaultAddresses, source, destination \in TokenAddresses :
          /\ tokens[source] # None /\ tokens[destination] # None
          /\ \E n \in ToBaseUnits(r.body.amt, MintDecimals[r.body.tkn]) :
               TokenTransferChecked(vault, source, destination, n)
    BY <1>2 DEF ProcessTokenTransferInstruction, TokenTransferInstruction,
         TokenTransferAddress, TokenTransferUser,
         ValidateAndParseTokenTransfer, ValidateTokenTransferState, InvokeTokenTransfer
  <2> QED
    BY <2>1, BaseUnitsAreNat, OwnersStay
<1>3. CASE ProcessWithdrawInstruction
  <2>1. ASSUME NEW k \in Keys, NEW ws \in WalletAddresses, NEW vault \in VaultAddresses,
               NEW mint \in Mints, NEW source \in TokenAddresses,
               NEW destination \in TokenAddresses, tokens[source] # None,
               NEW n \in 0..tokens[source].amount,
               WithdrawToken(k, ws, vault, mint, source, destination, n)
        PROVE  VaultsKeepTheirAccounts'
    <3>1. tokens[source].amount \in Nat /\ n \in Nat
      BY <2>1 DEF TypeOK, TokenAccounts
    <3>2. tokens[destination] # None /\ TokenTransferChecked(vault, source, destination, n)
      BY <2>1 DEF WithdrawToken, CanWithdrawToken, ValidateTokenTransferState
    <3> QED
      BY <2>1, <3>1, <3>2, OwnersStay
  <2> QED
    BY <1>1, <1>3, <2>1 DEF ProcessWithdrawInstruction, WithdrawSol
<1>4. ASSUME NEW owner \in TokenOwners, NEW mint \in Mints,
             CreateAssociatedTokenAccount(owner, mint)
      PROVE  VaultsKeepTheirAccounts'
  <2>1. [owner |-> owner, amount |-> 0].owner = owner
    OBVIOUS
  <2>2. \A c \in TokenAddresses : c # AssociatedTokenAddress(owner, mint) => tokens'[c] = tokens[c]
    BY <1>4 DEF CreateAssociatedTokenAccount, TypeOK
  <2>3. AssociatedTokenAddress(owner, mint) \in TokenAddresses
    BY ConstantTypes DEF TokenAddresses
  <2>4. tokens'[AssociatedTokenAddress(owner, mint)] = [owner |-> owner, amount |-> 0]
    BY <1>4, <2>3 DEF CreateAssociatedTokenAccount, TypeOK
  <2> QED
    BY <2>1, <2>2, <2>4, VaultTokenAddresses, TokenAddressesDiffer DEF VaultsKeepTheirAccounts
<1>5. ASSUME NEW owner \in Keys, NEW mint \in Mints, NEW from \in TokenAddresses,
             NEW to \in TokenAddresses, NEW n \in DepositAmounts,
             TokenDeposit(owner, mint, from, to, n)
      PROVE  VaultsKeepTheirAccounts'
  BY <1>5, OwnersStay, ConstantTypes DEF TokenDeposit
<1>6. ASSUME NEW owner \in Keys, NEW newOwner \in TokenOwners, NEW a \in TokenAddresses,
             SetAuthority(owner, a, newOwner)
      PROVE  VaultsKeepTheirAccounts'
  <2>1. ASSUME NEW u \in Users, NEW m \in Mints
        PROVE  LET c == AssociatedTokenAddress(VaultOf(u), m) IN tokens'[c] = tokens[c]
    <3> DEFINE c == AssociatedTokenAddress(VaultOf(u), m)
    <3>1. c # a
      BY <1>6, VaultsDiffer DEF SetAuthority, VaultsKeepTheirAccounts
    <3>2. c \in TokenAddresses
      BY VaultTokenAddresses
    <3> HIDE DEF c
    <3>3. tokens'[c] = tokens[c]
      BY <1>6, <3>1, <3>2 DEF SetAuthority, TypeOK
    <3> QED
      BY <3>3 DEF c
  <2> QED
    BY <2>1 DEF VaultsKeepTheirAccounts
<1>7. CASE Environment
  BY <1>1, <1>4, <1>5, <1>6, <1>7 DEF Environment, Discord, Chain, Tick, IssueCommand, Deposit
<1> QED
  BY <1>1, <1>2, <1>3, <1>7 DEF Next, vars, ProcessExecuteInstruction, ExecuteInstruction,
       WalletInit, SetWithdrawer,
       ProcessSystemTransferInstruction, SystemTransferInstruction, SolTransferAddress,
       SolTransferUser, InvokeSolTransfer

-----------------------------------------------------------------------------
(* The mapped state is read off the accounts, so steps that leave accounts *)
(* alone leave it alone.                                                   *)

LEMMA SameWallets ==
  ASSUME walletData' = walletData
  PROVE  /\ OpenedWallets' = OpenedWallets
         /\ [u \in Users |-> WithdrawerOf(u)]' = [u \in Users |-> WithdrawerOf(u)]
BY DEF OpenedWallets, WithdrawerOf

LEMMA SameFunds ==
  ASSUME lamports' = lamports, tokens' = tokens
  PROVE  [u \in Users |-> BalanceOf(u)]' = [u \in Users |-> BalanceOf(u)]
BY DEF BalanceOf, VaultTokens

LEMMA SameRequests ==
  ASSUME signatures' = signatures
  PROVE  Issued' = Issued
BY DEF Issued

(* A command that lands leaves the same wallets open, and no withdrawer    *)
(* changes but that of its user.                                           *)
LEMMA WalletsAfterCommand ==
  ASSUME TypeOK, NEW r \in Requests, NEW w \in WalletStates, NEW ws, ws = WalletPda(r.body.user),
         walletData[ws] # None, Executes(r, ws, w)
  PROVE  /\ r.body.user \in OpenedWallets
         /\ OpenedWallets' = OpenedWallets
         /\ [u \in Users |-> WithdrawerOf(u)]'
              = [[u \in Users |-> WithdrawerOf(u)] EXCEPT ![r.body.user] = w.withdrawer]
         /\ executed' = executed \cup {r} /\ authority' = r /\ Issued' = Issued
<1>1. r.body.user \in Users /\ ws \in WalletAddresses
  BY AddressesOfAUser DEF Requests, Interactions
<1>2. AdvanceWalletNonce(w, r) \in WalletStates /\ AdvanceWalletNonce(w, r).withdrawer = w.withdrawer
  BY DEF AdvanceWalletNonce, WalletStates, Requests
<1>3. ASSUME NEW u \in Users
      PROVE  walletData'[WalletPda(u)]
               = IF u = r.body.user THEN AdvanceWalletNonce(w, r) ELSE walletData[WalletPda(u)]
  BY <1>1, VaultsDiffer, AddressesOfAUser DEF Executes, TypeOK
<1>4. AdvanceWalletNonce(w, r) # None
  BY <1>2, DistinctValues
<1>5. OpenedWallets' = OpenedWallets
  BY <1>3, <1>4 DEF OpenedWallets
<1>6. ASSUME NEW u \in Users
      PROVE  WithdrawerOf(u)' = IF u = r.body.user THEN w.withdrawer ELSE WithdrawerOf(u)
  BY <1>2, <1>3, <1>4, <1>5 DEF WithdrawerOf, OpenedWallets
<1> QED
  BY <1>1, <1>5, <1>6 DEF Executes, OpenedWallets, Issued

(* A request that gets past the program's checks is one Discord signed...  *)
LEMMA AcceptedIsIssued ==
  ASSUME NEW s \in signatures, NEW r, AcceptRequest(s, r)
  PROVE  r \in Issued
BY DEF AcceptRequest, VerifyEd25519, Issued

(* ... for a command, not for the choices that go with one ...             *)
LEMMA ParsedIsCommanded ==
  ASSUME NEW r \in Issued
  PROVE  /\ ParsesAs(r.body, "WalletInit") => Promise!Commanded(r, "wallet_init")
         /\ ParsesAs(r.body, "SetWithdrawer") => Promise!Commanded(r, "set_withdrawer")
         /\ \A c \in {"TransferSolAddress", "TransferSolUser",
                      "TransferTokenAddress", "TransferTokenUser"} :
              ParsesAs(r.body, c) => Promise!Commanded(r, "transfer") /\ r.body.amt # None
BY DEF ParsesAs, BuildTransferCommand, Promise!Commanded, APPLICATION_COMMAND,
  Promise!APPLICATION_COMMAND

(* ... and has not landed before.                                          *)
LEMMA NotYetExecuted ==
  ASSUME NonceInv, NEW r, RejectReplayedInteraction(r, walletData[WalletPda(r.body.user)])
  PROVE  r \notin executed
BY DEF NonceInv, NonceCoversExecuted

-----------------------------------------------------------------------------
(* One lemma per action.                                                   *)

LEMMA WalletInitOpens ==
  ASSUME TypeOK, NEW r \in Circulating, r \in Issued, NEW payer \in Keys,
         NEW ws \in WalletAddresses, NEW vault \in VaultAddresses,
         WalletInit(r, payer, ws, vault)
  PROVE  Promise!Open(r)
<1> DEFINE user == r.body.user
           fund == IF lamports[vault] = 0 THEN VaultRent ELSE 0
<1>1. user \in Users
  BY CirculatingRequests
<1>2. ws = WalletPda(user) /\ vault = VaultOf(user)
  BY DEF WalletInit, ExecuteAccounts, VaultOf
<1>3. user \notin OpenedWallets
  BY <1>2 DEF WalletInit, WalletStateUnused, OpenedWallets
<1>4. MakesWallet(user)
  <2>1. r \in Requests
    BY CirculatingRequests
  <2> QED
    BY <1>2, <2>1 DEF WalletInit, WalletStateUnused, MakesWallet, ParsesAs,
         BuildTransferCommand
<1>5. \A u \in Users : walletData'[WalletPda(u)]
               = IF u = user THEN InitialWalletState(user) ELSE walletData[WalletPda(u)]
  <2> HIDE DEF user
  <2> QED
    BY <1>1, <1>4, MadeWallet, VaultsDiffer, AddressesOfAUser
<1>6. walletData'[WalletPda(user)] # None
  <2> HIDE DEF user
  <2> QED
    BY <1>1, <1>4, MadeWallet
<1>7. OpenedWallets' = OpenedWallets \cup {user}
  BY <1>1, <1>5, <1>6 DEF OpenedWallets
<1>8. \A u \in Users : WithdrawerOf(u)' = WithdrawerOf(u)
  <2>1. InitialWalletState(user).withdrawer = ZeroAddress
    BY DEF InitialWalletState
  <2> QED
    BY <1>3, <1>5, <1>6, <1>7, <2>1 DEF WithdrawerOf
<1>9. ASSUME NEW u \in Users
      PROVE  lamports'[VaultOf(u)] = lamports[VaultOf(u)] + (IF u = user THEN fund ELSE 0)
  <2>1. fund \in Nat /\ WalletRent \in Nat
    BY ConstantTypes
  <2>2. /\ WalletRent + fund <= lamports[payer]
        /\ lamports' = Move(Move(lamports, payer, ws, WalletRent), payer, vault, fund)
    BY DEF WalletInit, CreateWallet
  <2>3. payer \in Addresses /\ ws \in Addresses /\ vault \in Addresses /\ VaultOf(u) \in Addresses
    BY <1>1, <1>2, AddressesOfAUser DEF Addresses
  <2>4. lamports \in [Addresses -> Nat]
    BY DEF TypeOK
  <2> HIDE DEF fund, user
  <2>5. payer # VaultOf(u) /\ ws # VaultOf(u) /\ (vault = VaultOf(u) <=> u = user) /\ payer # ws
    BY <1>1, <1>2, VaultsDiffer, DistinctValues
  <2>6. lamports[payer] \in Nat /\ WalletRent <= lamports[payer]
    BY <2>1, <2>2, <2>3, <2>4
  <2>7. Move(lamports, payer, ws, WalletRent) \in [Addresses -> Nat]
    BY <2>1, <2>3, <2>4, <2>6, MoveType
  <2>8. Move(lamports, payer, ws, WalletRent)[VaultOf(u)] = lamports[VaultOf(u)]
    BY <2>1, <2>3, <2>4, <2>5 DEF Move
  <2>9. Move(Move(lamports, payer, ws, WalletRent), payer, vault, fund)[VaultOf(u)]
          = lamports[VaultOf(u)] + (IF u = user THEN fund ELSE 0)
    <3> DEFINE g == Move(lamports, payer, ws, WalletRent)
    <3>1. g \in [Addresses -> Nat] /\ g[VaultOf(u)] = lamports[VaultOf(u)]
      BY <2>7, <2>8
    <3> HIDE DEF g
    <3>2. Move(g, payer, vault, fund)[VaultOf(u)]
            = g[VaultOf(u)] - (IF VaultOf(u) = payer THEN fund ELSE 0)
                            + (IF VaultOf(u) = vault THEN fund ELSE 0)
      BY <2>1, <2>3, <3>1, MoveAt
    <3>3. lamports[VaultOf(u)] \in Nat
      BY <2>3, <2>4
    <3>4. Move(g, payer, vault, fund)[VaultOf(u)]
            = lamports[VaultOf(u)] + (IF u = user THEN fund ELSE 0)
      BY <2>1, <2>5, <3>1, <3>2, <3>3
    <3> QED
      BY <3>4 DEF g
  <2> QED
    BY <2>2, <2>9
<1>10. ASSUME NEW u \in Users, NEW x \in Promise!Assets
       PROVE  BalanceOf(u)'[x] = BalanceOf(u)[x] + (IF u = user /\ x = Sol THEN fund ELSE 0)
              /\ BalanceOf(u)[x] \in Nat
  <2>1. lamports[VaultOf(u)] \in Nat
    BY AddressesOfAUser DEF TypeOK
  <2>2. \A m \in Mints : VaultTokens(u, m)' = VaultTokens(u, m) /\ VaultTokens(u, m) \in Nat
    BY VaultTokenAddresses DEF WalletInit, VaultTokens, TypeOK, TokenAccounts
  <2> QED
    BY <1>9, <2>1, <2>2, Balances, BalancesPrimed
<1>11. fund \in Nat /\ (lamports[VaultOf(user)] # 0 => fund = 0)
  BY <1>2, ConstantTypes
<1>12. /\ authority' = r
       /\ UNCHANGED <<signatures, executed>>
       /\ Promise!Commanded(r, "wallet_init")
  BY ParsedIsCommanded DEF WalletInit
<1>13. BalanceOf(user)[Sol] = lamports[VaultOf(user)]
  BY <1>1, Balances
<1>14. ASSUME NEW u \in Users, NEW x \in Promise!Assets
       PROVE  /\ [v \in Users |-> BalanceOf(v)]'[u][x] >= [v \in Users |-> BalanceOf(v)][u][x]
              /\ u # user \/ x # Sol \/ [v \in Users |-> BalanceOf(v)][u][x] # 0 =>
                   [v \in Users |-> BalanceOf(v)]'[u][x] = [v \in Users |-> BalanceOf(v)][u][x]
  <2> HIDE DEF fund, user
  <2> QED
    BY <1>10, <1>11, <1>13
<1>15. [u \in Users |-> WithdrawerOf(u)]' = [u \in Users |-> WithdrawerOf(u)]
  BY <1>8
<1> HIDE DEF fund
<1> QED
  BY <1>3, <1>7, <1>12, <1>14, <1>15, SameRequests DEF Promise!Open, Promise!BalancesOnlyRise

LEMMA SetWithdrawerAppoints ==
  ASSUME NonceInv, NEW r \in Circulating, r \in Issued,
         NEW ws \in WalletAddresses, SetWithdrawer(r, ws)
  PROVE  Promise!Appoint(r)
<1> DEFINE w == [walletData[ws] EXCEPT !.withdrawer = r.body.wallet]
<1>1. TypeOK
  BY DEF NonceInv
<1>2. /\ ws = WalletPda(r.body.user) /\ walletData[ws] # None
      /\ RejectReplayedInteraction(r, walletData[ws])
      /\ ParsesAs(r.body, "SetWithdrawer") /\ r.body.wallet # ZeroAddress
      /\ Executes(r, ws, w)
      /\ lamports' = lamports /\ tokens' = tokens
  BY DEF SetWithdrawer, ExecuteAccounts, IsWalletState
<1>3. r \in Requests /\ r.body.wallet \in Addresses
  BY <1>1, <1>2, CirculatingRequests, ParsedOptions
<1>4. w \in WalletStates /\ w.withdrawer = r.body.wallet
  BY <1>1, <1>2, <1>3 DEF TypeOK, WalletStates
<1>5. r \notin executed
  BY <1>2, NotYetExecuted
<1> HIDE DEF w
<1>6. /\ r.body.user \in OpenedWallets
      /\ OpenedWallets' = OpenedWallets
      /\ [u \in Users |-> WithdrawerOf(u)]'
           = [[u \in Users |-> WithdrawerOf(u)] EXCEPT ![r.body.user] = r.body.wallet]
      /\ executed' = executed \cup {r} /\ authority' = r /\ Issued' = Issued
  BY <1>1, <1>2, <1>3, <1>4, WalletsAfterCommand
<1> QED
  BY <1>2, <1>3, <1>5, <1>6, SameFunds, SameWords, ParsedIsCommanded DEF Promise!Appoint

(* A transfer, whatever its asset, that moves what the promise moves.      *)
LEMMA TransferPays ==
  ASSUME NonceInv, NEW r \in Circulating, r \in Issued,
         NEW ws \in WalletAddresses, NEW vault, PrepareTransferSourceWallet(r, ws, vault),
         Executes(r, ws, walletData[ws]),
         Promise!Commanded(r, "transfer"), r.body.amt # None,
         r.body.to \in Users \cup Addresses, r.body.tkn \in Promise!Assets,
         NEW n \in ToBaseUnits(r.body.amt, Promise!Decimals(r.body.tkn)),
         n <= [v \in Users |-> BalanceOf(v)][r.body.user][r.body.tkn],
         [v \in Users |-> BalanceOf(v)]'
           = Promise!Transferred(r.body.user, r.body.tkn, n, r.body.to)
  PROVE  Promise!Pay(r)
<1>1. TypeOK
  BY DEF NonceInv
<1>2. /\ ws = WalletPda(r.body.user) /\ walletData[ws] # None
      /\ RejectReplayedInteraction(r, walletData[ws])
  BY DEF PrepareTransferSourceWallet, IsWalletState
<1>3. r \in Requests /\ walletData[ws] \in WalletStates
  BY <1>1, <1>2, CirculatingRequests DEF TypeOK
<1>4. r \notin executed
  BY <1>2, NotYetExecuted
<1>5. /\ r.body.user \in OpenedWallets
      /\ OpenedWallets' = OpenedWallets
      /\ [u \in Users |-> WithdrawerOf(u)]'
           = [[u \in Users |-> WithdrawerOf(u)] EXCEPT ![r.body.user] = walletData[ws].withdrawer]
      /\ executed' = executed \cup {r} /\ authority' = r /\ Issued' = Issued
  BY <1>1, <1>2, <1>3, WalletsAfterCommand
<1>6. walletData[ws].withdrawer = WithdrawerOf(r.body.user)
  BY <1>2, <1>5 DEF WithdrawerOf
<1>7. [u \in Users |-> WithdrawerOf(u)]' = [u \in Users |-> WithdrawerOf(u)]
  BY <1>5, <1>6
<1>8. r.body.to # None
  BY DistinctValues
<1>9. n \in Promise!ToBaseUnits(r.body.amt, Promise!Decimals(r.body.tkn))
  BY SameWords
<1> QED
  BY <1>4, <1>5, <1>7, <1>8, <1>9 DEF Promise!Pay

LEMMA SystemTransferPays ==
  NonceInv /\ ProcessSystemTransferInstruction => \E c \in Issued : Promise!Pay(c)
<1> SUFFICES ASSUME NonceInv, NEW r \in Circulating, r \in Issued,
                    NEW ws \in WalletAddresses, NEW vault \in VaultAddresses,
                    \/ \E destination \in Addresses :
                         SolTransferAddress(r, ws, vault, destination)
                    \/ \E dw \in WalletAddresses, dv \in VaultAddresses :
                         SolTransferUser(r, ws, vault, dw, dv)
             PROVE  Promise!Pay(r)
  BY AcceptedIsIssued DEF ProcessSystemTransferInstruction, SystemTransferInstruction
<1>1. TypeOK /\ r.body \in Interactions /\ r.body.user \in Users
  BY CirculatingRequests DEF NonceInv
<1>2. /\ PrepareTransferSourceWallet(r, ws, vault)
      /\ r.body.tkn = Sol /\ r.body.to \in Users \cup Addresses
      /\ Promise!Commanded(r, "transfer") /\ r.body.amt # None
      /\ InvokeSolTransfer(r, ws, vault, IF r.body.to \in Users THEN VaultOf(r.body.to) ELSE r.body.to)
  <2>1. CASE \E destination \in Addresses : SolTransferAddress(r, ws, vault, destination)
    <3>1. r.body.to \in Addresses /\ r.body.to \notin Users /\ r.body.tkn = Sol
      BY <1>1, <2>1, ParsedOptions, DistinctValues DEF SolTransferAddress
    <3> QED
      BY <2>1, <3>1, ParsedIsCommanded DEF SolTransferAddress
  <2>2. CASE \E dw \in WalletAddresses, dv \in VaultAddresses : SolTransferUser(r, ws, vault, dw, dv)
    <3>1. r.body.to \in Users /\ r.body.tkn = Sol
      BY <1>1, <2>2, ParsedOptions DEF SolTransferUser
    <3> QED
      BY <2>2, <3>1, ParsedIsCommanded DEF SolTransferUser, SystemTransferAccounts, VaultOf
  <2> QED
    BY <2>1, <2>2
<1>3. vault = VaultOf(r.body.user)
  BY <1>2 DEF PrepareTransferSourceWallet, VaultOf
<1>4. PICK n \in ToBaseUnits(r.body.amt, SolDecimals) :
        SystemTransfer(VaultOf(r.body.user),
                       IF r.body.to \in Users THEN VaultOf(r.body.to) ELSE r.body.to, n)
  BY <1>2, <1>3 DEF InvokeSolTransfer
<1>5. n \in Nat /\ tokens' = tokens /\ Executes(r, ws, walletData[ws])
  BY <1>2, BaseUnitsAreNat DEF InvokeSolTransfer
<1>6. /\ [v \in Users |-> BalanceOf(v)]' = Promise!Transferred(r.body.user, Sol, n, r.body.to)
      /\ n <= [v \in Users |-> BalanceOf(v)][r.body.user][Sol]
  BY <1>1, <1>2, <1>4, <1>5, SolMoved
<1>7. Promise!Decimals(Sol) = SolDecimals /\ Sol \in Promise!Assets
  BY DEF Promise!Decimals, Promise!Assets
<1> QED
  BY <1>2, <1>5, <1>6, <1>7, TransferPays

LEMMA TokenTransferPays ==
  NonceInv /\ ProcessTokenTransferInstruction => \E c \in Issued : Promise!Pay(c)
<1> SUFFICES ASSUME NonceInv, NEW r \in Circulating, r \in Issued,
                    NEW ws \in WalletAddresses, NEW vault \in VaultAddresses,
                    NEW source \in TokenAddresses, NEW destination \in TokenAddresses,
                    \/ TokenTransferAddress(r, ws, vault, source, destination)
                    \/ \E dw \in WalletAddresses :
                         TokenTransferUser(r, ws, vault, source, dw, destination)
             PROVE  Promise!Pay(r)
  BY AcceptedIsIssued DEF ProcessTokenTransferInstruction, TokenTransferInstruction
<1>1. TypeOK /\ r.body \in Interactions /\ r.body.user \in Users
  BY CirculatingRequests DEF NonceInv
<1> DEFINE o == IF r.body.to \in Users THEN VaultOf(r.body.to) ELSE r.body.to
<1>2. /\ PrepareTransferSourceWallet(r, ws, vault)
      /\ r.body.tkn \in Mints /\ r.body.to \in Users \cup Addresses
      /\ Promise!Commanded(r, "transfer") /\ r.body.amt # None
      /\ ValidateAndParseTokenTransfer(vault, r.body.tkn, source, destination, o)
      /\ InvokeTokenTransfer(r, ws, vault, source, destination)
  <2>1. CASE TokenTransferAddress(r, ws, vault, source, destination)
    <3>1. r.body.to \in Addresses /\ r.body.to \notin Users /\ r.body.tkn \in Mints
      BY <1>1, <2>1, ParsedOptions, DistinctValues DEF TokenTransferAddress
    <3> QED
      BY <2>1, <3>1, ParsedIsCommanded DEF TokenTransferAddress
  <2>2. CASE \E dw \in WalletAddresses :
               TokenTransferUser(r, ws, vault, source, dw, destination)
    <3>1. r.body.to \in Users /\ r.body.tkn \in Mints
      BY <1>1, <2>2, ParsedOptions DEF TokenTransferUser
    <3> QED
      BY <2>2, <3>1, ParsedIsCommanded DEF TokenTransferUser
  <2> QED
    BY <2>1, <2>2
<1>3. o \in Addresses
  BY <1>2, AddressesOfAUser
<1>4. vault = VaultOf(r.body.user)
  BY <1>2 DEF PrepareTransferSourceWallet, VaultOf
<1> HIDE DEF o
<1>5. /\ source = AssociatedTokenAddress(VaultOf(r.body.user), r.body.tkn)
      /\ destination = AssociatedTokenAddress(o, r.body.tkn)
      /\ tokens[source] # None /\ tokens[destination] # None
  BY <1>2, <1>4 DEF ValidateAndParseTokenTransfer, ValidateTokenTransferState
<1>6. PICK n \in ToBaseUnits(r.body.amt, MintDecimals[r.body.tkn]) :
        TokenTransferChecked(VaultOf(r.body.user), source, destination, n)
  BY <1>2, <1>4 DEF InvokeTokenTransfer
<1>7. n \in Nat /\ lamports' = lamports /\ Executes(r, ws, walletData[ws])
  BY <1>2, BaseUnitsAreNat DEF InvokeTokenTransfer
<1>8. /\ [v \in Users |-> BalanceOf(v)]'
           = Promise!Transferred(r.body.user, r.body.tkn, n, r.body.to)
      /\ n <= [v \in Users |-> BalanceOf(v)][r.body.user][r.body.tkn]
  <2>1. o = IF r.body.to \in Users THEN VaultOf(r.body.to) ELSE r.body.to
    BY DEF o
  <2>2. TokenTransferChecked(VaultOf(r.body.user),
          AssociatedTokenAddress(VaultOf(r.body.user), r.body.tkn),
          AssociatedTokenAddress(o, r.body.tkn), n)
    BY <1>5, <1>6
  <2>3. /\ tokens[AssociatedTokenAddress(VaultOf(r.body.user), r.body.tkn)] # None
        /\ tokens[AssociatedTokenAddress(o, r.body.tkn)] # None
    BY <1>5
  <2> QED
    BY <1>1, <1>2, <1>3, <1>7, <2>1, <2>2, <2>3, TokensMoved
<1>9. Promise!Decimals(r.body.tkn) = MintDecimals[r.body.tkn] /\ r.body.tkn \in Promise!Assets
  BY <1>2, DistinctValues DEF Promise!Decimals, Promise!Assets
<1> QED
  BY <1>2, <1>6, <1>7, <1>8, <1>9, TransferPays

(* What the accounts of a withdrawal say about who withdraws from what.    *)
LEMMA WithdrawerExits ==
  ASSUME TypeOK, NEW k \in Keys, NEW ws \in WalletAddresses, NEW vault,
         WithdrawAccounts(k, ws, vault)
  PROVE  \E u \in Users : vault = VaultOf(u) /\ WithdrawerOf(u) = k /\ k # ZeroAddress
<1>1. walletData[ws] \in WalletStates /\ walletData[ws] # None
  BY DEF WithdrawAccounts, IsWalletState, TypeOK
<1>2. walletData[ws].discord_user_id \in Users
  BY <1>1 DEF WalletStates
<1> QED
  BY <1>1, <1>2 DEF WithdrawAccounts, ValidateWithdrawer, WithdrawerOf, OpenedWallets, VaultOf

LEMMA ExitOf ==
  ASSUME NEW u \in Users, NEW x \in Promise!Assets, NEW k, WithdrawerOf(u) = k, k # ZeroAddress,
         Withdraws(k), NEW to \in Addresses, NEW n \in Nat,
         n <= [v \in Users |-> BalanceOf(v)][u][x],
         [v \in Users |-> BalanceOf(v)][u][x] \in Nat,
         [v \in Users |-> BalanceOf(v)]' = Promise!Transferred(u, x, n, to)
  PROVE  Promise!Exit(u, x)
<1>1. n \in 0..[v \in Users |-> BalanceOf(v)][u][x]
  OBVIOUS
<1>2. to \in Promise!Addresses
  BY SameWords
<1>3. walletData' = walletData /\ signatures' = signatures /\ executed' = executed /\ authority' = k
  BY DEF Withdraws
<1>4. [v \in Users |-> WithdrawerOf(v)][u] = k
  OBVIOUS
<1> QED
  BY <1>1, <1>2, <1>3, <1>4, SameWallets, SameRequests DEF Promise!Exit

LEMMA BalancesAreNat ==
  ASSUME TypeOK, NEW u \in Users, NEW x \in Promise!Assets
  PROVE  BalanceOf(u)[x] \in Nat
<1>1. lamports[VaultOf(u)] \in Nat
  BY AddressesOfAUser DEF TypeOK
<1>2. \A m \in Mints : VaultTokens(u, m) \in Nat
  BY VaultTokenAddresses DEF VaultTokens, TypeOK, TokenAccounts
<1> QED
  BY <1>1, <1>2, Balances

LEMMA WithdrawInstructionExits ==
  TypeOK /\ ProcessWithdrawInstruction => \E u \in Users, x \in Promise!Assets : Promise!Exit(u, x)
<1> SUFFICES ASSUME TypeOK, NEW k \in Keys, NEW ws \in WalletAddresses,
                    NEW vault \in VaultAddresses,
                    \/ \E destination \in Addresses : \E n \in 0..lamports[vault] :
                         WithdrawSol(k, ws, vault, destination, n)
                    \/ \E mint \in Mints, source, destination \in TokenAddresses :
                         /\ tokens[source] # None
                         /\ \E n \in 0..tokens[source].amount :
                              WithdrawToken(k, ws, vault, mint, source, destination, n)
             PROVE  \E u \in Users, x \in Promise!Assets : Promise!Exit(u, x)
  BY DEF ProcessWithdrawInstruction
<1>1. WithdrawAccounts(k, ws, vault) /\ Withdraws(k)
  BY DEF WithdrawSol, CanWithdrawSol, WithdrawToken, CanWithdrawToken
<1>2. PICK u \in Users : vault = VaultOf(u) /\ WithdrawerOf(u) = k /\ k # ZeroAddress
  BY <1>1, WithdrawerExits
<1>3. ASSUME NEW destination \in Addresses, NEW n \in 0..lamports[vault],
             WithdrawSol(k, ws, vault, destination, n)
      PROVE  Promise!Exit(u, Sol)
  <2>1. n \in Nat /\ destination \notin Users /\ Sol \in Promise!Assets
    BY AddressesOfAUser, DistinctValues DEF TypeOK, Promise!Assets
  <2>2. destination = IF destination \in Users THEN VaultOf(destination) ELSE destination
    BY <2>1
  <2>3. SystemTransfer(VaultOf(u), IF destination \in Users THEN VaultOf(destination) ELSE destination, n)
        /\ tokens' = tokens
    BY <1>2, <1>3, <2>2 DEF WithdrawSol
  <2>4. /\ [v \in Users |-> BalanceOf(v)]' = Promise!Transferred(u, Sol, n, destination)
        /\ n <= [v \in Users |-> BalanceOf(v)][u][Sol]
    BY <2>1, <2>3, SolMoved
  <2>5. [v \in Users |-> BalanceOf(v)][u][Sol] \in Nat
    BY <2>1, BalancesAreNat
  <2> QED
    BY <1>1, <1>2, <2>1, <2>4, <2>5, ExitOf
<1>4. ASSUME NEW mint \in Mints, NEW source \in TokenAddresses, NEW destination \in TokenAddresses,
             tokens[source] # None, NEW n \in 0..tokens[source].amount,
             WithdrawToken(k, ws, vault, mint, source, destination, n)
      PROVE  Promise!Exit(u, mint)
  <2>1. n \in Nat /\ mint \in Promise!Assets
    BY <1>4 DEF TypeOK, TokenAccounts, Promise!Assets
  <2>2. PICK o \in Addresses : destination = AssociatedTokenAddress(o, mint)
    BY <1>4 DEF WithdrawToken, CanWithdrawToken
  <2>3. /\ source = AssociatedTokenAddress(VaultOf(u), mint)
        /\ tokens[source] # None /\ tokens[destination] # None
        /\ TokenTransferChecked(VaultOf(u), source, destination, n)
        /\ lamports' = lamports
    BY <1>2, <1>4 DEF WithdrawToken, CanWithdrawToken, ValidateTokenTransferState
  <2>4. o = IF o \in Users THEN VaultOf(o) ELSE o
    BY DistinctValues
  <2>5. /\ TokenTransferChecked(VaultOf(u), AssociatedTokenAddress(VaultOf(u), mint),
                                AssociatedTokenAddress(o, mint), n)
        /\ tokens[AssociatedTokenAddress(VaultOf(u), mint)] # None
        /\ tokens[AssociatedTokenAddress(o, mint)] # None
    BY <2>2, <2>3
  <2>6. /\ [v \in Users |-> BalanceOf(v)]' = Promise!Transferred(u, mint, n, o)
        /\ n <= [v \in Users |-> BalanceOf(v)][u][mint]
    BY <2>1, <2>3, <2>4, <2>5, TokensMoved
  <2>7. [v \in Users |-> BalanceOf(v)][u][mint] \in Nat
    BY <2>1, BalancesAreNat
  <2> QED
    BY <1>1, <1>2, <2>1, <2>6, <2>7, ExitOf
<1> QED
  BY <1>3, <1>4, DistinctValues DEF Promise!Assets

(* Nobody outside the program can take from a vault: its lamports need its *)
(* signature and so do its tokens, while it is the owner of their account. *)
LEMMA EnvironmentIsOutside ==
  TypeOK /\ VaultsKeepTheirAccounts /\ Environment => Promise!Outside
<1> SUFFICES ASSUME TypeOK, VaultsKeepTheirAccounts, Environment PROVE Promise!Outside
  OBVIOUS
<1>1. Unauthorised
  BY DEF Environment, Discord, Chain, Tick, IssueCommand, Deposit,
       CreateAssociatedTokenAccount, TokenDeposit,
     SetAuthority
<1>2. Issued \subseteq Issued'
  BY DEF Environment, Discord, Chain, Tick, IssueCommand, Deposit,
       CreateAssociatedTokenAccount, TokenDeposit,
     SetAuthority, Issued
<1>3. ASSUME NEW u \in Users PROVE lamports'[VaultOf(u)] >= lamports[VaultOf(u)]
  <2>1. VaultOf(u) \in Addresses /\ lamports[VaultOf(u)] \in Nat
    BY AddressesOfAUser DEF TypeOK
  <2>2. ASSUME NEW from \in Keys, NEW to \in Addresses, NEW n \in DepositAmounts, Deposit(from, to, n)
        PROVE  lamports'[VaultOf(u)] >= lamports[VaultOf(u)]
    <3>1. from \in Addresses /\ VaultOf(u) # from /\ n \in Nat
      BY VaultsDiffer, ConstantTypes DEF Addresses
    <3>2. Move(lamports, from, to, n)[VaultOf(u)] = lamports[VaultOf(u)]
            - (IF VaultOf(u) = from THEN n ELSE 0) + (IF VaultOf(u) = to THEN n ELSE 0)
      BY <2>1, <3>1, MoveAt DEF TypeOK
    <3> QED
      BY <2>1, <2>2, <3>1, <3>2 DEF Deposit, SystemTransfer, CanTransfer
  <2>3. CASE lamports' = lamports
    BY <2>1, <2>3
  <2> QED
    BY <2>2, <2>3 DEF Environment, Discord, Chain, Tick, IssueCommand,
         CreateAssociatedTokenAccount, TokenDeposit,
       SetAuthority
<1>4. ASSUME NEW u \in Users, NEW m \in Mints PROVE VaultTokens(u, m)' >= VaultTokens(u, m)
  <2> DEFINE c == AssociatedTokenAddress(VaultOf(u), m)
  <2>1. c \in TokenAddresses
    BY VaultTokenAddresses
  <2>2. tokens[c] # None => tokens[c].amount \in Nat /\ tokens[c].owner = VaultOf(u)
    BY <2>1 DEF TypeOK, TokenAccounts, VaultsKeepTheirAccounts
  <2>3. VaultTokens(u, m) = IF tokens[c] = None THEN 0 ELSE tokens[c].amount
    BY DEF VaultTokens
  <2>4. VaultTokens(u, m)' = IF tokens'[c] = None THEN 0 ELSE tokens'[c].amount
    BY DEF VaultTokens
  <2> HIDE DEF c
  <2>5. CASE tokens'[c] = tokens[c]
    BY <2>2, <2>3, <2>4, <2>5
  <2>6. ASSUME NEW owner \in TokenOwners, NEW mint \in Mints, CreateAssociatedTokenAccount(owner, mint)
        PROVE  VaultTokens(u, m)' >= VaultTokens(u, m)
    <3>1. CASE c = AssociatedTokenAddress(owner, mint)
      <4>1. tokens[c] = None /\ tokens'[c] = [owner |-> owner, amount |-> 0]
        BY <2>1, <2>6, <3>1 DEF CreateAssociatedTokenAccount, TypeOK
      <4> QED
        BY <2>3, <2>4, <4>1
    <3>2. CASE c # AssociatedTokenAddress(owner, mint)
      BY <2>1, <2>5, <2>6, <3>2 DEF CreateAssociatedTokenAccount, TypeOK
    <3> QED
      BY <3>1, <3>2
  <2>7. ASSUME NEW owner \in Keys, NEW mint \in Mints, NEW from \in TokenAddresses,
               NEW to \in TokenAddresses, NEW n \in DepositAmounts,
               TokenDeposit(owner, mint, from, to, n)
        PROVE  VaultTokens(u, m)' >= VaultTokens(u, m)
    <3>1. n \in Nat
      BY ConstantTypes
    <3>2. /\ tokens'[c] = None <=> tokens[c] = None
          /\ tokens[c] # None =>
               tokens'[c].amount = tokens[c].amount - (IF c = from THEN n ELSE 0)
                                                    + (IF c = to THEN n ELSE 0)
      BY <2>1, <2>7, <3>1, TokensMovedAt DEF TokenDeposit
    <3>3. tokens[c] # None => c # from
      BY <2>2, <2>7, VaultsDiffer DEF TokenDeposit, TokenTransferChecked, CanTransferTokens
    <3> QED
      BY <2>2, <2>3, <2>4, <3>1, <3>2, <3>3
  <2>8. ASSUME NEW owner \in Keys, NEW newOwner \in TokenOwners, NEW a \in TokenAddresses,
               SetAuthority(owner, a, newOwner)
        PROVE  VaultTokens(u, m)' >= VaultTokens(u, m)
    <3>1. c # a
      BY <2>2, <2>8, VaultsDiffer DEF SetAuthority
    <3> QED
      BY <2>1, <2>5, <2>8, <3>1 DEF SetAuthority, TypeOK
  <2> QED
    BY <2>5, <2>6, <2>7, <2>8 DEF Environment, Discord, Chain, Tick, IssueCommand, Deposit
<1>5. ASSUME NEW u \in Users, NEW x \in Promise!Assets
      PROVE  [v \in Users |-> BalanceOf(v)]'[u][x] >= [v \in Users |-> BalanceOf(v)][u][x]
  <2>1. BalanceOf(u)'[x] >= BalanceOf(u)[x]
    BY <1>3, <1>4, Balances, BalancesPrimed
  <2> QED
    BY <2>1
<1> QED
  BY <1>1, <1>2, <1>5, SameWallets DEF Unauthorised, Promise!Outside, Promise!BalancesOnlyRise

-----------------------------------------------------------------------------
(* The refinement.                                                         *)

CustodyInv == NonceInv /\ VaultsKeepTheirAccounts

LEMMA CustodyInvariant == Spec => []CustodyInv
<1>1. Init => CustodyInv
  BY NonceInvInit, VaultsKeepTheirAccountsInit DEF CustodyInv
<1>2. CustodyInv /\ [Next]_vars => CustodyInv'
  BY NonceInvStep, VaultsKeepTheirAccountsStep DEF CustodyInv, NonceInv
<1> QED
  BY <1>1, <1>2, PTL DEF Spec

LEMMA CustodyInitMaps == Init => Promise!CustodyInit
BY AddressesOfAUser DEF Init, Promise!CustodyInit, OpenedWallets, WithdrawerOf

LEMMA CustodyStepMaps ==
  CustodyInv /\ [Next]_vars => [Promise!CustodyNext]_(Promise!cvars)
<1> SUFFICES ASSUME CustodyInv, [Next]_vars
             PROVE  Promise!CustodyNext \/ UNCHANGED Promise!cvars
  OBVIOUS
<1>1. NonceInv /\ TypeOK /\ VaultsKeepTheirAccounts
  BY DEF CustodyInv, NonceInv
<1>2. CASE UNCHANGED vars
  BY <1>2, SameWallets, SameFunds, SameRequests DEF vars, Promise!cvars
<1>3. CASE ProcessExecuteInstruction
  <2>1. PICK r \in Circulating : r \in Issued /\
          (\/ \E payer \in Keys, ws \in WalletAddresses, vault \in VaultAddresses :
                WalletInit(r, payer, ws, vault)
           \/ \E ws \in WalletAddresses : SetWithdrawer(r, ws))
    BY <1>3, AcceptedIsIssued DEF ProcessExecuteInstruction, ExecuteInstruction
  <2>2. Promise!Open(r) \/ Promise!Appoint(r)
    BY <1>1, <2>1, WalletInitOpens, SetWithdrawerAppoints
  <2> QED
    BY <2>1, <2>2 DEF Promise!CustodyNext
<1>4. CASE ProcessSystemTransferInstruction \/ ProcessTokenTransferInstruction
  BY <1>1, <1>4, SystemTransferPays, TokenTransferPays DEF Promise!CustodyNext
<1>5. CASE ProcessWithdrawInstruction
  BY <1>1, <1>5, WithdrawInstructionExits DEF Promise!CustodyNext
<1>6. CASE Environment
  BY <1>1, <1>6, EnvironmentIsOutside DEF Promise!CustodyNext
<1> QED
  BY <1>2, <1>3, <1>4, <1>5, <1>6 DEF Next

(* Whatever is sent, replayed or re-ordered, by however many users, every  *)
(* step of the program is one the custody promise allows: an asset leaves  *)
(* a vault only by a payment its user ordered, once, to the payee and of   *)
(* the amount of the order, or by the withdrawer he appointed.             *)
THEOREM CustodyKept == Spec => ImplementsCustody
<1> QED
  BY CustodyInvariant, CustodyInitMaps, CustodyStepMaps, PTL
     DEF Spec, ImplementsCustody, Promise!CustodySpec

-----------------------------------------------------------------------------
(* The payee of a token payment.                                           *)

LEMMA TokensReachNamedOwnerStep ==
  ASSUME TypeOK, Next, NEW t \in TokenAddresses, authority' \in executed',
         tokens[t] # None, tokens'[t].amount > tokens[t].amount
  PROVE  tokens'[t].owner = Payee(authority')
<1>1. tokens[t].amount \in Nat
  BY DEF TypeOK, TokenAccounts
<1>2. tokens' # tokens
  BY <1>1
<1>3. authority' \in Requests
  BY TypeOKStep DEF TypeOK
<1>4. ProcessTokenTransferInstruction
  <2>1. ~ ProcessExecuteInstruction /\ ~ ProcessSystemTransferInstruction
    BY <1>2 DEF ProcessExecuteInstruction, ExecuteInstruction, WalletInit, SetWithdrawer,
       ProcessSystemTransferInstruction, SystemTransferInstruction, SolTransferAddress,
       SolTransferUser, InvokeSolTransfer
  <2>2. ~ ProcessWithdrawInstruction
    BY <1>3, DistinctValues DEF ProcessWithdrawInstruction, WithdrawSol, WithdrawToken,
         Withdraws
  <2>3. ~ Environment
    BY <1>3, DistinctValues DEF Environment, Discord, Chain, Tick, IssueCommand, Deposit,
       CreateAssociatedTokenAccount, TokenDeposit, SetAuthority, Unauthorised
  <2> QED
    BY <2>1, <2>2, <2>3 DEF Next
<1>5. PICK r \in Circulating, ws \in WalletAddresses, vault \in VaultAddresses,
           source, destination \in TokenAddresses :
        \/ TokenTransferAddress(r, ws, vault, source, destination)
        \/ \E dw \in WalletAddresses : TokenTransferUser(r, ws, vault, source, dw, destination)
  BY <1>4 DEF ProcessTokenTransferInstruction, TokenTransferInstruction
<1>6. r.body \in Interactions
  BY CirculatingRequests
<1>7. /\ ValidateAndParseTokenTransfer(vault, r.body.tkn, source, destination, Payee(r))
      /\ InvokeTokenTransfer(r, ws, vault, source, destination)
  <2>1. CASE TokenTransferAddress(r, ws, vault, source, destination)
    <3>1. r.body.to \in Addresses /\ r.body.to \notin Users
      BY <1>6, <2>1, ParsedOptions, DistinctValues DEF TokenTransferAddress
    <3> QED
      BY <2>1, <3>1 DEF TokenTransferAddress, Payee
  <2>2. CASE \E dw \in WalletAddresses : TokenTransferUser(r, ws, vault, source, dw, destination)
    <3>1. r.body.to \in Users
      BY <1>6, <2>2, ParsedOptions DEF TokenTransferUser
    <3> QED
      BY <2>2, <3>1 DEF TokenTransferUser, Payee
  <2> QED
    BY <1>5, <2>1, <2>2
<1>8. PICK n \in Nat : TokenTransferChecked(vault, source, destination, n)
  BY <1>7, BaseUnitsAreNat DEF InvokeTokenTransfer
<1>9. tokens[source] # None /\ tokens[destination] # None /\ tokens[destination].owner = Payee(r)
  BY <1>7 DEF ValidateAndParseTokenTransfer, ValidateTokenTransferState
<1>10. /\ tokens'[t].owner = tokens[t].owner
       /\ tokens'[t].amount = tokens[t].amount - (IF t = source THEN n ELSE 0)
                                               + (IF t = destination THEN n ELSE 0)
  BY <1>8, <1>9, TokensMovedAt
<1>11. t = destination
  BY <1>1, <1>10
<1>12. authority' = r
  BY <1>7 DEF InvokeTokenTransfer, Executes
<1> QED
  BY <1>9, <1>10, <1>11, <1>12

(* Tokens a command moves end in an account that is the named payee's,     *)
(* whoever made the account at the payee's address and whatever owners it  *)
(* has had.                                                                *)
THEOREM TokensReachPayee == Spec => TokensReachNamedOwner
<1>1. TypeOK /\ [Next]_vars =>
        [\A t \in TokenAddresses :
           /\ authority' \in executed'
           /\ tokens[t] # None /\ tokens'[t].amount > tokens[t].amount
           => tokens'[t].owner = Payee(authority')]_vars
  BY TokensReachNamedOwnerStep
<1> QED
  BY <1>1, TypeOKInit, TypeOKStep, PTL DEF Spec, TokensReachNamedOwner

-----------------------------------------------------------------------------
(* The withdrawer's way out is always open: at every reachable state all   *)
(* the lamports of a vault, and all the tokens of each of its accounts,    *)
(* can be withdrawn in one transaction.                                    *)

(* A wallet belongs to the user its address is derived from.               *)
WalletsKnowTheirUser ==
  \A u \in Users : walletData[WalletPda(u)] # None =>
                     walletData[WalletPda(u)].discord_user_id = u

LEMMA WalletsKnowTheirUserStep ==
  TypeOK /\ WalletsKnowTheirUser /\ [Next]_vars => WalletsKnowTheirUser'
<1> SUFFICES ASSUME TypeOK, WalletsKnowTheirUser, [Next]_vars,
                    NEW u \in Users, walletData'[WalletPda(u)] # None
             PROVE  walletData'[WalletPda(u)].discord_user_id = u
  BY DEF WalletsKnowTheirUser
<1> DEFINE a == WalletPda(u)
<1>1. a \in WalletAddresses
  BY AddressesOfAUser
<1>2. CASE walletData[a] # None
  <2>1. CASE UNCHANGED vars
    BY <1>2, <2>1 DEF vars, WalletsKnowTheirUser
  <2>2. CASE Next
    BY <1>1, <1>2, <2>2, WalletNeverResetStep DEF SameWalletLater, WalletsKnowTheirUser
  <2> QED
    BY <2>1, <2>2
<1>3. CASE walletData[a] = None
  <2>1. walletData'[a] # walletData[a]
    BY <1>3
  <2>2. Next
    BY <2>1 DEF vars
  <2>3. ~ NoCommand
    BY <2>1 DEF NoCommand
  <2>4. ASSUME NEW r \in Requests, NEW w \in WalletStates, Lands(r, w) PROVE FALSE
    BY <1>1, <1>3, <2>1, <2>4, LandsOnOneWallet DEF Lands
  <2>5. PICK v \in Users : MakesWallet(v)
    BY <2>2, <2>3, <2>4, StepOnWallets
  <2>6. a = WalletPda(v) /\ walletData'[WalletPda(v)] = InitialWalletState(v)
    BY <1>1, <2>1, <2>5, MadeWallet
  <2>7. u = v
    BY <2>6, VaultsDiffer
  <2> QED
    BY <2>6, <2>7 DEF InitialWalletState
<1> QED
  BY <1>2, <1>3

-----------------------------------------------------------------------------
(* No account is ever left with less than its rent minimum, but for none.  *)

(* The rent minimums depend only on which wallets there are.               *)
LEMMA SameWalletsSameRent ==
  ASSUME NEW balance, NEW data, NEW data2, RentExempt(balance, data),
         \A a \in WalletAddresses : data2[a] = None <=> data[a] = None
  PROVE  RentExempt(balance, data2)
BY DEF RentExempt, RentMinimum

(* Advancing a nonce makes and unmakes no wallet.                          *)
LEMMA ExecutesKeepsWallets ==
  ASSUME TypeOK, NEW r \in Requests, NEW ws \in WalletAddresses, NEW w \in WalletStates,
         walletData[ws] # None, Executes(r, ws, w)
  PROVE  \A a \in WalletAddresses : walletData'[a] = None <=> walletData[a] = None
<1>1. AdvanceWalletNonce(w, r) \in WalletStates
  BY DEF AdvanceWalletNonce, WalletStates, Requests
<1>2. AdvanceWalletNonce(w, r) # None
  BY <1>1, DistinctValues
<1> QED
  BY <1>2 DEF Executes, TypeOK

LEMMA RentExemptStep ==
  TypeOK /\ RentExempt(lamports, walletData) /\ [Next]_vars => RentExempt(lamports, walletData)'
<1> SUFFICES ASSUME TypeOK, RentExempt(lamports, walletData), [Next]_vars
             PROVE  RentExempt(lamports', walletData')
  BY DEF RentExempt, RentMinimum
<1>1. ASSUME NEW from, NEW to, NEW n, SystemTransfer(from, to, n)
      PROVE  RentExempt(lamports', walletData)
  BY <1>1 DEF SystemTransfer, CanTransfer
<1>2. CASE ProcessExecuteInstruction
  <2>1. ASSUME NEW r, NEW payer, NEW ws, NEW vault, WalletInit(r, payer, ws, vault)
        PROVE  RentExempt(lamports', walletData')
    BY <2>1 DEF WalletInit
  <2>2. ASSUME NEW r \in Circulating, NEW ws \in WalletAddresses, SetWithdrawer(r, ws)
        PROVE  RentExempt(lamports', walletData')
    <3> DEFINE w == [walletData[ws] EXCEPT !.withdrawer = r.body.wallet]
    <3>1. r \in Requests /\ r.body \in Interactions
      BY CirculatingRequests
    <3>2. w \in WalletStates /\ walletData[ws] # None /\ Executes(r, ws, w)
      BY <2>2, <3>1, ParsedOptions DEF SetWithdrawer, IsWalletState, TypeOK, WalletStates
    <3>3. lamports' = lamports
      BY <2>2 DEF SetWithdrawer
    <3> HIDE DEF w
    <3> QED
      BY <3>1, <3>2, <3>3, ExecutesKeepsWallets, SameWalletsSameRent
  <2> QED
    BY <1>2, <2>1, <2>2 DEF ProcessExecuteInstruction, ExecuteInstruction
<1>3. CASE ProcessSystemTransferInstruction \/ ProcessTokenTransferInstruction
  <2>1. PICK r \in Circulating, ws \in WalletAddresses :
          /\ IsWalletState(ws)
          /\ Executes(r, ws, walletData[ws])
          /\ lamports' = lamports \/ \E from, to, n : SystemTransfer(from, to, n)
    BY <1>3 DEF ProcessSystemTransferInstruction, SystemTransferInstruction,
         ProcessTokenTransferInstruction, TokenTransferInstruction,
         SolTransferAddress, SolTransferUser, TokenTransferAddress, TokenTransferUser,
         PrepareTransferSourceWallet, InvokeSolTransfer, InvokeTokenTransfer
  <2>2. r \in Requests /\ walletData[ws] # None /\ walletData[ws] \in WalletStates
    BY <2>1, CirculatingRequests DEF IsWalletState, TypeOK
  <2>3. RentExempt(lamports', walletData)
    BY <1>1, <2>1
  <2> QED
    BY <2>1, <2>2, <2>3, ExecutesKeepsWallets, SameWalletsSameRent
<1>4. CASE ProcessWithdrawInstruction \/ Environment
  <2>1. /\ walletData' = walletData
        /\ lamports' = lamports \/ \E from, to, n : SystemTransfer(from, to, n)
    BY <1>4 DEF ProcessWithdrawInstruction, WithdrawSol, WithdrawToken, Withdraws,
         Environment, Discord, Chain, Tick, IssueCommand, Deposit, CreateAssociatedTokenAccount,
         TokenDeposit, SetAuthority, Unauthorised
  <2> QED
    BY <1>1, <2>1
<1>5. CASE UNCHANGED vars
  BY <1>5 DEF vars
<1> QED
  BY <1>2, <1>3, <1>4, <1>5 DEF Next

-----------------------------------------------------------------------------
(* The invariant behind the exit: the accounts a withdrawal needs belong   *)
(* to the vault, the wallet knows whose it is, and whatever is in an       *)
(* account is enough for its rent.                                         *)
ExitInv ==
  /\ CustodyInv
  /\ WalletsKnowTheirUser
  /\ RentExempt(lamports, walletData)

LEMMA ExitInvariant == Spec => []ExitInv
<1>1. Init => ExitInv
  <2> SUFFICES ASSUME Init PROVE WalletsKnowTheirUser /\ RentExempt(lamports, walletData)
    BY NonceInvInit, VaultsKeepTheirAccountsInit DEF ExitInv, CustodyInv
  <2>1. \A u \in Users : walletData[WalletPda(u)] = None
    BY AddressesOfAUser DEF Init
  <2>2. RentExempt(lamports, walletData)
    BY ChainIsRentExempt DEF Init, RentExempt, RentMinimum
  <2> QED
    BY <2>1, <2>2 DEF WalletsKnowTheirUser
<1>2. ExitInv /\ [Next]_vars => ExitInv'
  BY NonceInvStep, VaultsKeepTheirAccountsStep, WalletsKnowTheirUserStep, RentExemptStep
     DEF ExitInv, CustodyInv, NonceInv
<1> QED
  BY <1>1, <1>2, PTL DEF Spec

(* The withdrawer's accounts pass the checks of a withdrawal.              *)
LEMMA WithdrawerIsLetIn ==
  ASSUME ExitInv, NEW u \in OpenedWallets, WithdrawerOf(u) \in Keys
  PROVE  /\ u \in Users
         /\ WithdrawAccounts(WithdrawerOf(u), WalletPda(u), VaultOf(u))
<1>1. u \in Users /\ walletData[WalletPda(u)] # None
  BY DEF OpenedWallets
<1>2. WalletPda(u) \in WalletAddresses
  BY <1>1, AddressesOfAUser
<1>3. walletData[WalletPda(u)].discord_user_id = u
  BY <1>1 DEF ExitInv, WalletsKnowTheirUser
<1>4. WithdrawerOf(u) = walletData[WalletPda(u)].withdrawer /\ WithdrawerOf(u) # ZeroAddress
  BY DistinctValues DEF WithdrawerOf, Addresses
<1> QED
  BY <1>1, <1>2, <1>3, <1>4 DEF WithdrawAccounts, IsWalletState, ValidateWithdrawer, VaultOf

(* Emptying a vault into a key's account leaves every account in order:    *)
(* the vault with nothing, the key with no less than the vault had.        *)
LEMMA EmptyingAVault ==
  ASSUME ExitInv, NEW u \in Users, NEW k \in Keys, lamports[VaultOf(u)] > 0
  PROVE  CanTransfer(VaultOf(u), k, lamports[VaultOf(u)])
<1> DEFINE v == VaultOf(u)
           n == lamports[v]
<1>1. TypeOK /\ RentExempt(lamports, walletData)
  BY DEF ExitInv, CustodyInv, NonceInv
<1>2. v \in Addresses /\ k \in Addresses /\ v # k
  BY AddressesOfAUser, VaultsDiffer DEF Addresses
<1>3. v \notin WalletAddresses /\ k \notin WalletAddresses
  BY DistinctValues, VaultsDiffer DEF WalletAddresses
<1>4. lamports \in [Addresses -> Nat] /\ n \in Nat
  BY <1>1, <1>2 DEF TypeOK
<1>5. n >= VaultRent /\ VaultRent \in Nat
  BY <1>1, <1>2, <1>3, <1>4, ConstantTypes DEF RentExempt, RentMinimum
<1> HIDE DEF v
<1>6. ASSUME NEW a \in Addresses
      PROVE  Move(lamports, v, k, n)[a] = 0
               \/ Move(lamports, v, k, n)[a] >= RentMinimum(walletData, a)
  <2>1. Move(lamports, v, k, n)[a]
          = lamports[a] - (IF a = v THEN n ELSE 0) + (IF a = k THEN n ELSE 0)
    BY <1>2, <1>4, MoveAt
  <2>2. CASE a = v
    BY <1>2, <1>4, <2>1, <2>2
  <2>3. CASE a = k
    <3>1. RentMinimum(walletData, a) = VaultRent /\ lamports[a] \in Nat
      BY <1>3, <1>4, <2>3 DEF RentMinimum
    <3> QED
      BY <1>2, <1>4, <1>5, <2>1, <2>3, <3>1
  <2>4. CASE a # v /\ a # k
    <3>1. lamports[a] \in Nat /\ Move(lamports, v, k, n)[a] = lamports[a]
      BY <1>4, <2>1, <2>4
    <3> QED
      BY <1>1, <3>1 DEF RentExempt
  <2> QED
    BY <2>2, <2>3, <2>4
<1> QED
  BY <1>4, <1>6 DEF CanTransfer, RentExempt, v

(* README.md:16: a configured withdrawer can always take every lamport of  *)
(* the vault, in one transaction, whatever has happened before and with    *)
(* however little in it.                                                   *)
THEOREM LamportsCanExit == Spec => []WithdrawerCanExit
<1>1. ExitInv => WithdrawerCanExit
  BY WithdrawerIsLetIn, EmptyingAVault DEF WithdrawerCanExit, CanWithdrawSol
<1> QED
  BY <1>1, ExitInvariant, PTL

(* The same for all the tokens of an account of the vault, to any account  *)
(* of the mint, whoever owns it by now.                                    *)
THEOREM TokensCanExit == Spec => []WithdrawerCanExitTokens
<1>1. ASSUME ExitInv, NEW u \in OpenedWallets, NEW m \in Mints, NEW o \in Addresses,
             WithdrawerOf(u) \in Keys,
             tokens[AssociatedTokenAddress(VaultOf(u), m)] # None,
             tokens[AssociatedTokenAddress(o, m)] # None
      PROVE  CanWithdrawToken(WithdrawerOf(u), WalletPda(u), VaultOf(u), m,
                              AssociatedTokenAddress(VaultOf(u), m), AssociatedTokenAddress(o, m),
                              tokens[AssociatedTokenAddress(VaultOf(u), m)].amount)
  <2> DEFINE t == tokens[AssociatedTokenAddress(VaultOf(u), m)]
  <2>1. u \in Users /\ WithdrawAccounts(WithdrawerOf(u), WalletPda(u), VaultOf(u))
    BY <1>1, WithdrawerIsLetIn
  <2>2. t.owner = VaultOf(u)
    BY <1>1, <2>1 DEF ExitInv, CustodyInv, VaultsKeepTheirAccounts
  <2>3. t.amount \in Nat
    BY <1>1, <2>1, VaultTokenAddresses DEF ExitInv, CustodyInv, NonceInv, TypeOK, TokenAccounts
  <2> QED
    BY <1>1, <2>1, <2>2, <2>3 DEF CanWithdrawToken, ValidateTokenTransferState,
         CanTransferTokens
<1>2. ExitInv => WithdrawerCanExitTokens
  BY <1>1 DEF WithdrawerCanExitTokens
<1> QED
  BY <1>2, ExitInvariant, PTL

=============================================================================
