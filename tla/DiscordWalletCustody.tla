------------------------ MODULE DiscordWalletCustody ------------------------
(***************************************************************************)
(* The properties of the on-chain program, and the mapping under which it  *)
(* implements Custody.                                                     *)
(***************************************************************************)
EXTENDS DiscordWallet

-----------------------------------------------------------------------------
(* Custody's state, read off the accounts.                                 *)

VaultTokens(user, mint) ==
  LET t == tokens[AssociatedTokenAddress(VaultOf(user), mint)]
  IN  IF t = None THEN 0 ELSE t.amount

OpenedWallets == {u \in Users : walletData[WalletPda(u)] # None}

WithdrawerOf(user) ==
  IF user \in OpenedWallets THEN walletData[WalletPda(user)].withdrawer ELSE ZeroAddress

BalanceOf(user) ==
  [x \in {Sol} \cup Mints |-> IF x = Sol THEN lamports[VaultOf(user)]
                                         ELSE VaultTokens(user, x)]

Promise == INSTANCE Custody WITH
  issued <- Issued,
  used <- executed,
  opened <- OpenedWallets,
  withdrawer <- [u \in Users |-> WithdrawerOf(u)],
  balance <- [u \in Users |-> BalanceOf(u)]

(* Whatever is sent, replayed or re-ordered, users see their custody kept: *)
(* each change of a wallet or of a vault is one the promise allows.        *)
ImplementsCustody == Promise!CustodySpec

-----------------------------------------------------------------------------
Precedes(q, r) ==
  \/ q.timestamp < r.timestamp
  \/ q.timestamp = r.timestamp /\ q.id < r.id

LandsInOrder(r) ==
  \A q \in executed : q.body.user = r.body.user => Precedes(q, r)

(* Commands of one user land in the order of their nonces, each at most    *)
(* once, however often and in whatever order they are delivered            *)
(* (reject_replayed_interaction, advance_wallet_nonce).                    *)
CommandsInNonceOrder ==
  [][authority' \in executed' => LandsInOrder(authority')]_vars

(* A command that landed stays behind its wallet's nonce: there is no time *)
(* at which it would be let through again.                                 *)
NonceCoversExecuted ==
  \A r \in executed : LET ws == WalletPda(r.body.user)
                      IN  /\ walletData[ws] # None
                          /\ ~ RejectReplayedInteraction(r, walletData[ws])

(* A request from a clock that runs ahead never moves a wallet's nonce     *)
(* further than MaxAge past the present, so requests that are right about  *)
(* the time are shut out for no longer (reject_stale_timestamp).           *)
NonceNeverAhead ==
  \A ws \in WalletAddresses :
    walletData[ws] # None => walletData[ws].last_timestamp <= now + MaxAge

NonceNotBack(w, v) ==
  \/ w.last_timestamp < v.last_timestamp
  \/ w.last_timestamp = v.last_timestamp /\ w.last_interaction_id <= v.last_interaction_id

(* A wallet is made once: it is never unmade or made again, stays with its *)
(* user, and its nonce never goes back, so nothing that landed before can  *)
(* land again (process_wallet_init, write_wallet_state).                   *)
WalletNeverReset ==
  [][\A ws \in WalletAddresses : walletData[ws] # None =>
       /\ walletData'[ws] # None
       /\ walletData'[ws].discord_user_id = walletData[ws].discord_user_id
       /\ NonceNotBack(walletData[ws], walletData'[ws])]_vars

(* README.md:16, "a configured withdrawer can always exit funds on-chain": *)
(* whatever else has happened, the withdrawer can take all the lamports of *)
(* the vault in one transaction.  Nothing but CanWithdrawSol restricts     *)
(* WithdrawSol, so this is what enables it.                                *)
WithdrawerCanExit ==
  \A u \in OpenedWallets :
    WithdrawerOf(u) \in Keys /\ lamports[VaultOf(u)] > 0 =>
      CanWithdrawSol(WithdrawerOf(u), WalletPda(u), VaultOf(u),
                     WithdrawerOf(u), lamports[VaultOf(u)])

(* The same for tokens, to anybody who has an account to receive them.     *)
WithdrawerCanExitTokens ==
  \A u \in OpenedWallets, m \in Mints, o \in Addresses :
    LET source == AssociatedTokenAddress(VaultOf(u), m)
        destination == AssociatedTokenAddress(o, m)
    IN  WithdrawerOf(u) \in Keys /\ tokens[source] # None /\ tokens[destination] # None =>
          CanWithdrawToken(WithdrawerOf(u), WalletPda(u), VaultOf(u), m,
                           source, destination, tokens[source].amount)

Payee(r) == IF r.body.to \in Users THEN VaultOf(r.body.to) ELSE r.body.to

(* A token payment reaches an account of the payee the user named, even    *)
(* when the account at the payee's address has changed hands               *)
(* (validate_and_parse_token_transfer).                                    *)
TokensReachNamedOwner ==
  [][\A t \in TokenAddresses :
       /\ authority' \in executed'
       /\ tokens[t] # None /\ tokens'[t].amount > tokens[t].amount
       => tokens'[t].owner = Payee(authority')]_vars

(* README.md:13, "each Discord user gets a program-derived vault": a user  *)
(* who has no wallet yet can get one, as far as wallet_init's check of the *)
(* wallet address goes.                                                    *)
EachUserGetsAVault ==
  \A u \in Users \ OpenedWallets : WalletStateUnused(WalletPda(u))

=============================================================================
