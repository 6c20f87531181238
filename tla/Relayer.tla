------------------------------- MODULE Relayer -------------------------------
(***************************************************************************)
(* The relayer (src/server.ts, executor.ts, program.ts, bot-runtime.ts)    *)
(* in front of the wallet program.  One handler serves one POST: it looks  *)
(* at the chain, builds a transaction, sends it, waits for it and replies. *)
(* Between any two of its steps the chain, other handlers and anybody else *)
(* move on, any RPC call may fail, and the worker may be cancelled.        *)
(*                                                                         *)
(* A setup instruction that makes the payee's token account lands with its *)
(* transaction; here it is a step before it.                               *)
(***************************************************************************)
EXTENDS DiscordWalletCustody, Sequences

CONSTANTS
  Handlers,      \* the POSTs the relayer gets
  RelayerKey,    \* the relayer's key pair: it pays, and authorises nothing
  BlockhashLife  \* how many blocks a blockhash is good for

VARIABLES
  pc,      \* what each handler awaits
  post,    \* the signature and the request it was sent
  tx,      \* the transaction it has signed
  reply,   \* the answer Discord shows to the user
  sent,    \* the transactions an RPC node has taken
  landed,  \* those that are in a block
  height   \* the height of the chain

rvars == <<pc, post, tx, reply, sent, landed, height>>
allvars == <<vars, rvars>>

Posts == [signature : Signatures, request : Requests]
Transactions == [signature : Signatures, request : Requests, lastValidBlockHeight : Nat]
Waiting == {"lookup", "blockhash", "send", "confirm"}
Replies == {"unauthorized", "choices", "initialized: yes", "initialized: no",
            "ok:airdrop", "ok:already_initialized", "ok:signature", "error"}

ASSUME RelayerConstants ==
  /\ RelayerKey \in Keys
  /\ BlockhashLife \in Nat
  /\ None \notin Replies

RelayerTypeOK ==
  /\ pc \in [Handlers -> Waiting \cup {"idle", "done", "failed", "gone"}]
  /\ post \in [Handlers -> Posts \cup {None}]
  /\ tx \in [Handlers -> Transactions \cup {None}]
  /\ reply \in [Handlers -> Replies \cup {None}]
  /\ sent \subseteq Transactions
  /\ landed \subseteq sent
  /\ height \in Nat

RelayerInit ==
  /\ Init
  /\ pc = [h \in Handlers |-> "idle"]
  /\ post = [h \in Handlers |-> None]
  /\ tx = [h \in Handlers |-> None]
  /\ reply = [h \in Handlers |-> None]
  /\ sent = {} /\ landed = {}
  /\ height = 0

-----------------------------------------------------------------------------
(* createBotHandler: what one handler does between two awaits.             *)

Awaits(h, what) ==
  /\ pc' = [pc EXCEPT ![h] = what]
  /\ UNCHANGED reply

Responds(h, answer) ==
  /\ pc' = [pc EXCEPT ![h] = "done"]
  /\ reply' = [reply EXCEPT ![h] = answer]

(* The handler itself throws: there is no answer of the bot's.             *)
Fails(h) ==
  /\ pc' = [pc EXCEPT ![h] = "failed"]
  /\ UNCHANGED reply

(* The catch block.  It logs the member's id before it answers: outside a  *)
(* guild there is no member, and the handler of errors fails.              *)
Throws(h, body) ==
  \/ body.guild /\ Responds(h, "error")
  \/ ~ body.guild /\ Fails(h)

(* The user whose wallet is looked at: for "wallet" the one in its option  *)
(* (kept in "to"), if there is one; nobody when there is no member.        *)
LookedUp(body) ==
  IF body.name = "wallet" /\ body.to \in Users THEN {body.to}
  ELSE IF body.guild THEN {body.user} ELSE {}

NeedsLookup(body) == body.name \in {"wallet", "airdrop", "wallet_init"}

(* A POST whose signature header is not one: verifyDiscordRequest throws.  *)
ReceiveMalformed(h) ==
  /\ pc[h] = "idle"
  /\ Fails(h)
  /\ UNCHANGED <<post, tx, sent, landed, height, vars>>

(* A POST arrives and is verified; an autocomplete request is answered.    *)
Receive(h, s, r) ==
  /\ pc[h] = "idle"
  /\ post' = [post EXCEPT ![h] = [signature |-> s, request |-> r]]
  /\ \/ /\ ~ VerifyEd25519(s, r)
        /\ Responds(h, "unauthorized")
     \/ /\ VerifyEd25519(s, r)
        /\ r.body.type = AUTOCOMPLETE
        /\ Responds(h, "choices")
     \/ /\ VerifyEd25519(s, r)
        /\ r.body.type = APPLICATION_COMMAND
        /\ \/ ~ NeedsLookup(r.body) /\ Awaits(h, "blockhash")
           \/ NeedsLookup(r.body) /\ LookedUp(r.body) # {} /\ Awaits(h, "lookup")
           \/ NeedsLookup(r.body) /\ LookedUp(r.body) = {} /\ Throws(h, r.body)
  /\ UNCHANGED <<tx, sent, landed, height, vars>>

(* getAccountInfo finds an account at any address that has lamports.  It   *)
(* reads a finalized state: an account made since is not seen yet.         *)
AccountFound(address, found) == found => lamports[address] > 0

(* A lookup of the wallet at its vault, which may be paid before it opens. *)
AddressOfVault(user) == VaultOf(user)

(* walletStatePda, which the lookups ask for.                              *)
AddressLookedUp(user) == WalletPda(user)

(* walletSummary, airdrop and walletStateExists, and what follows.  What   *)
(* the airdrop then asks of the node is left out.                          *)
Lookup(h) ==
  /\ pc[h] = "lookup"
  /\ LET body == post[h].request.body
     IN  \E user \in LookedUp(body), found \in BOOLEAN :
           /\ AccountFound(AddressLookedUp(user), found)
           /\ \/ /\ body.name = "wallet"
                 /\ Responds(h, IF found THEN "initialized: yes" ELSE "initialized: no")
              \/ body.name = "airdrop" /\ found /\ Responds(h, "ok:airdrop")
              \/ body.name = "airdrop" /\ ~ found /\ Throws(h, body)
              \/ body.name = "wallet_init" /\ found /\ Responds(h, "ok:already_initialized")
              \/ body.name = "wallet_init" /\ ~ found /\ Awaits(h, "blockhash")
  /\ UNCHANGED <<post, tx, sent, landed, height, vars>>

(* buildDiscordCommandTransaction does not throw.  It looks neither at the *)
(* amount nor at the withdrawer.                                           *)
Builds(body) ==
  /\ body.guild
  /\ \/ body.name \in {"wallet_init", "set_withdrawer"}
     \/ body.name = "transfer" /\ body.tkn # None /\ body.to # None

(* A blockhash whose end of life is not kept.                              *)
UnknownBlockHeight == None

(* getLatestBlockhash says until when the blockhash is good.               *)
LastValidBlockHeight == height + BlockhashLife

(* getLatestBlockhash, then the transaction is built and signed.  The same *)
(* request and blockhash make the same transaction.                        *)
BuildTransaction(h) ==
  /\ pc[h] = "blockhash"
  /\ LET r == post[h].request
     IN  \/ /\ Builds(r.body)
            /\ tx' = [tx EXCEPT ![h] =
                        [signature |-> post[h].signature, request |-> r,
                         lastValidBlockHeight |-> LastValidBlockHeight]]
            /\ Awaits(h, "send")
         \/ ~ Builds(r.body) /\ Throws(h, r.body) /\ UNCHANGED tx
  /\ UNCHANGED <<post, sent, landed, height, vars>>

(* assertTransactionSize and sendTransaction: the transaction is taken, is *)
(* refused, or is taken and the answer that says so is lost.               *)
SendTransaction(h) ==
  /\ pc[h] = "send"
  /\ \/ sent' = sent \cup {tx[h]} /\ Awaits(h, "confirm")
     \/ sent' \in {sent, sent \cup {tx[h]}} /\ Throws(h, post[h].request.body)
  /\ UNCHANGED <<post, tx, landed, height, vars>>

(* A confirmation that trusts the node which took the transaction.         *)
ConfirmSent(h) ==
  /\ pc[h] = "confirm"
  /\ Responds(h, "ok:signature")
  /\ UNCHANGED <<post, tx, sent, landed, height, vars>>

(* The transaction has been seen in a confirmed block; its signature is in *)
(* the answer.                                                             *)
Confirm(h) ==
  /\ pc[h] = "confirm"
  /\ tx[h] \in landed
  /\ Responds(h, "ok:signature")
  /\ UNCHANGED <<post, tx, sent, landed, height, vars>>

(* A confirmation that waits for as long as it takes.                      *)
NeverGiveUp(h) == FALSE

(* sendAndConfirmTransaction of @solana/kit, which is told the last valid  *)
(* block height, throws once the chain is past it.  Whether the            *)
(* transaction has landed meanwhile is not asked.                          *)
GiveUp(h) ==
  /\ pc[h] = "confirm"
  /\ height > tx[h].lastValidBlockHeight
  /\ Throws(h, post[h].request.body)
  /\ UNCHANGED <<post, tx, sent, landed, height, vars>>

(* An RPC call fails, or the subscription a confirmation listens to does.  *)
RpcFails(h) ==
  /\ pc[h] \in {"lookup", "blockhash", "confirm"}
  /\ Throws(h, post[h].request.body)
  /\ UNCHANGED <<post, tx, sent, landed, height, vars>>

(* The worker is stopped, or Discord has stopped listening.                *)
Cancelled(h) ==
  /\ pc[h] \in Waiting
  /\ pc' = [pc EXCEPT ![h] = "gone"]
  /\ UNCHANGED <<post, tx, reply, sent, landed, height, vars>>

HandlerStep(h) ==
  \/ Lookup(h)
  \/ BuildTransaction(h)
  \/ SendTransaction(h)
  \/ Confirm(h)
  \/ GiveUp(h)

-----------------------------------------------------------------------------
(* Transactions of the relayer on the chain.                               *)

(* associatedTokenAddress of the payee, whose account the setup makes.     *)
DestinationTokenAccount(r) == AssociatedTokenAddress(Payee(r), r.body.tkn)

InstructionsSysvar == <<"sysvar", "instructions">>
SystemProgram == <<"program", "system">>
TokenProgram == <<"program", "token">>

SignerMeta(a) == [address |-> a, role |-> "writable signer"]
WritableMeta(a) == [address |-> a, role |-> "writable"]
ReadonlyMeta(a) == [address |-> a, role |-> "readonly"]

SourceWallet(r) == WalletPda(r.body.user)
SourceVault(r) == VaultPda(SourceWallet(r))
SourceTokenAccount(r) == AssociatedTokenAddress(SourceVault(r), r.body.tkn)

(* The token account before the wallet that names it.                      *)
TokenTransferUserMetasSwapped(r) ==
  <<SignerMeta(RelayerKey), WritableMeta(SourceWallet(r)), ReadonlyMeta(SourceVault(r)),
    ReadonlyMeta(r.body.tkn), WritableMeta(SourceTokenAccount(r)),
    WritableMeta(DestinationTokenAccount(r)), ReadonlyMeta(WalletPda(r.body.to)),
    ReadonlyMeta(InstructionsSysvar), ReadonlyMeta(TokenProgram)>>

TokenTransferUserMetas(r) ==
  <<SignerMeta(RelayerKey), WritableMeta(SourceWallet(r)), ReadonlyMeta(SourceVault(r)),
    ReadonlyMeta(r.body.tkn), WritableMeta(SourceTokenAccount(r)),
    ReadonlyMeta(WalletPda(r.body.to)), WritableMeta(DestinationTokenAccount(r)),
    ReadonlyMeta(InstructionsSysvar), ReadonlyMeta(TokenProgram)>>

TokenTransferAddressMetas(r) ==
  <<SignerMeta(RelayerKey), WritableMeta(SourceWallet(r)), ReadonlyMeta(SourceVault(r)),
    ReadonlyMeta(r.body.tkn), WritableMeta(SourceTokenAccount(r)),
    WritableMeta(DestinationTokenAccount(r)),
    ReadonlyMeta(InstructionsSysvar), ReadonlyMeta(TokenProgram)>>

SolTransferUserMetas(r) ==
  <<SignerMeta(RelayerKey), WritableMeta(SourceWallet(r)), WritableMeta(SourceVault(r)),
    ReadonlyMeta(WalletPda(r.body.to)), WritableMeta(VaultOf(r.body.to)),
    ReadonlyMeta(InstructionsSysvar), ReadonlyMeta(SystemProgram)>>

SolTransferAddressMetas(r) ==
  <<SignerMeta(RelayerKey), WritableMeta(SourceWallet(r)), WritableMeta(SourceVault(r)),
    WritableMeta(r.body.to),
    ReadonlyMeta(InstructionsSysvar), ReadonlyMeta(SystemProgram)>>

WalletInitMetas(r) ==
  <<SignerMeta(RelayerKey), WritableMeta(SourceWallet(r)), WritableMeta(SourceVault(r)),
    ReadonlyMeta(InstructionsSysvar), ReadonlyMeta(SystemProgram)>>

SetWithdrawerMetas(r) ==
  <<SignerMeta(RelayerKey), WritableMeta(SourceWallet(r)), ReadonlyMeta(InstructionsSysvar)>>

Names(discriminator, metas) == [discriminator |-> discriminator, accounts |-> metas]

(* buildTransferInstructionAccounts *)
BuildTransferInstructionAccounts(r) ==
  IF r.body.tkn = Sol
  THEN Names("system_transfer", IF r.body.to \in Users THEN SolTransferUserMetas(r)
                                                       ELSE SolTransferAddressMetas(r))
  ELSE Names("token_transfer", IF r.body.to \in Users THEN TokenTransferUserMetas(r)
                                                      ELSE TokenTransferAddressMetas(r))

(* buildInstructionAccounts, of a command that is built.                   *)
BuildInstructionAccounts(r) ==
  CASE r.body.name = "wallet_init" -> Names("execute", WalletInitMetas(r))
    [] r.body.name = "set_withdrawer" -> Names("execute", SetWithdrawerMetas(r))
    [] r.body.name = "transfer" -> BuildTransferInstructionAccounts(r)

(* What every command asks of the accounts it is given: that there are so  *)
(* many, the payer first, and those writable that it changes.              *)
TakesAccounts(accounts, n, writable) ==
  /\ Len(accounts) >= n
  /\ accounts[1].role = "writable signer"
  /\ \A k \in writable : accounts[k].role # "readonly"

(* The program takes an instruction's accounts by position (try_from), and *)
(* runs the request with them.                                             *)
RunsByPosition(r, ix) ==
  LET at(k) == ix.accounts[k].address
      Takes(discriminator, n, writable) ==
        ix.discriminator = discriminator /\ TakesAccounts(ix.accounts, n, writable)
      Called(k, program) == at(k) = InstructionsSysvar /\ at(k + 1) = program
  IN  \/ /\ Takes("execute", 5, {2, 3}) /\ Called(4, SystemProgram)
         /\ WalletInit(r, at(1), at(2), at(3))
      \/ /\ Takes("execute", 3, {2}) /\ at(3) = InstructionsSysvar
         /\ SetWithdrawer(r, at(2))
      \/ /\ Takes("system_transfer", 6, {2, 3, 4}) /\ Called(5, SystemProgram)
         /\ SolTransferAddress(r, at(2), at(3), at(4))
      \/ /\ Takes("system_transfer", 7, {2, 3, 5}) /\ Called(6, SystemProgram)
         /\ SolTransferUser(r, at(2), at(3), at(4), at(5))
      \/ /\ Takes("token_transfer", 8, {2, 5, 6}) /\ Called(7, TokenProgram)
         /\ at(4) = r.body.tkn
         /\ TokenTransferAddress(r, at(2), at(3), at(5), at(6))
      \/ /\ Takes("token_transfer", 9, {2, 5, 7}) /\ Called(8, TokenProgram)
         /\ at(4) = r.body.tkn
         /\ TokenTransferUser(r, at(2), at(3), at(5), at(6), at(7))

(* The wallet program runs this request with the accounts the relayer      *)
(* names for it.                                                           *)
LandsAsBuilt(r) == Builds(r.body) /\ RunsByPosition(r, BuildInstructionAccounts(r))

MayLand(t) == t \in sent \ landed /\ height <= t.lastValidBlockHeight

(* The setup instruction: the relayer pays for the payee's token account.  *)
SetupTokenAccount(t) ==
  /\ MayLand(t)
  /\ t.request.body.name = "transfer" /\ t.request.body.tkn \in Mints
  /\ Payee(t.request) \in TokenOwners
  /\ CreateAssociatedTokenAccount(Payee(t.request), t.request.body.tkn)
  /\ UNCHANGED rvars

Land(t) ==
  /\ MayLand(t)
  /\ AcceptRequest(t.signature, t.request)
  /\ LandsAsBuilt(t.request)
  /\ landed' = landed \cup {t}
  /\ UNCHANGED <<pc, post, tx, reply, sent, height>>

(* The chain grows; no further here than somebody waits for it to.         *)
NewBlock ==
  /\ \E h \in Handlers : pc[h] = "confirm" /\ height <= tx[h].lastValidBlockHeight
  /\ height' = height + 1
  /\ UNCHANGED <<pc, post, tx, reply, sent, landed, vars>>

(* Anybody else's transactions, and the rest of the world.                 *)
Others == Next /\ UNCHANGED rvars

RelayerNext ==
  \/ \E h \in Handlers, s \in signatures, r \in Circulating : Receive(h, s, r)
  \/ \E h \in Handlers : ReceiveMalformed(h) \/ HandlerStep(h) \/ RpcFails(h) \/ Cancelled(h)
  \/ \E t \in sent : SetupTokenAccount(t) \/ Land(t)
  \/ NewBlock
  \/ Others

RelayerSpec == RelayerInit /\ [][RelayerNext]_allvars

(* The event loop runs every handler whose wait is over, and blocks keep   *)
(* coming.  Nothing obliges a transaction to land.                         *)
FairRelayerSpec ==
  /\ RelayerSpec
  /\ \A h \in Handlers : WF_allvars(HandlerStep(h))
  /\ WF_allvars(NewBlock)

-----------------------------------------------------------------------------
(* What the chain shows of a command that has been carried out.            *)
CarriedOut(r) ==
  IF r.body.name = "wallet_init" THEN walletData[WalletPda(r.body.user)] # None
                                 ELSE r \in executed

(* Who is answered with the signature of a transaction can rely on it: the *)
(* transaction is in a block, it carried the request he made, and the      *)
(* command has been carried out, whatever failed, was repeated or was done *)
(* by others on the way (server.ts:116, sendAndConfirmTransaction).        *)
ReceiptMeansCarriedOut ==
  \A h \in Handlers : reply[h] = "ok:signature" =>
    /\ tx[h] \in landed /\ tx[h].request = post[h].request
    /\ CarriedOut(post[h].request)

(* A wallet_init that the relayer keeps to itself, with the answer that    *)
(* there is a wallet, is one the program would refuse, then and ever       *)
(* after: nobody is kept from opening a wallet he could open               *)
(* (server.ts:84-95, process_wallet_init).  That there is a wallet is not  *)
(* said: see ReportedWalletsExist.                                         *)
NoOpeningHeldBack ==
  \A h \in Handlers : reply[h] = "ok:already_initialized" =>
    ~ WalletStateUnused(WalletPda(post[h].request.body.user))

(* A request that is posted again, served by two handlers at a time or     *)
(* sent with two blockhashes lands in one transaction at most.             *)
RequestLandsOnce ==
  \A t, u \in landed : t.request = u.request => t = u

SomeAccounts(r) ==
  \E ws \in WalletAddresses, vault \in VaultAddresses :
    \/ WalletInit(r, RelayerKey, ws, vault)
    \/ SetWithdrawer(r, ws)
    \/ \E a \in Addresses : SolTransferAddress(r, ws, vault, a)
    \/ \E dw \in WalletAddresses, dv \in VaultAddresses : SolTransferUser(r, ws, vault, dw, dv)
    \/ \E source, destination \in TokenAddresses :
         \/ TokenTransferAddress(r, ws, vault, source, destination)
         \/ \E dw \in WalletAddresses :
              TokenTransferUser(r, ws, vault, source, dw, destination)

(* The builder and the program agree on the accounts of every command: one *)
(* that the program runs, whoever sends it and with whatever accounts, is  *)
(* built, and runs just so with those the relayer names, each in the place *)
(* and with the rights the program expects (buildInstructionAccounts,      *)
(* try_from).                                                              *)
RelayerServesEveryCommand ==
  [][\A r \in Issued : authority' = r /\ SomeAccounts(r) => LandsAsBuilt(r)]_allvars

(* Every verified command is answered unless the worker is stopped: no     *)
(* wait is without an end, whatever happens to the transaction, and no     *)
(* error leaves a handler without an answer but that of a request from     *)
(* outside a guild, whose handler may fail (server.ts:119, :160).          *)
EveryRequestAnswered ==
  \A h \in Handlers :
    LET outsideGuild == post[h] # None /\ ~ post[h].request.body.guild
    IN  pc[h] \in Waiting ~>
          (pc[h] \in {"done", "gone"} \/ (pc[h] = "failed" /\ outsideGuild))


=============================================================================
