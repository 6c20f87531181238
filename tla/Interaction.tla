---------------------------- MODULE Interaction -----------------------------
(***************************************************************************)
(* What Discord signs and how the program reads it: addresses derived from *)
(* a Discord user id, the interaction a user makes, and the command that   *)
(* parse_interaction recognises in it.                                     *)
(***************************************************************************)
EXTENDS UiAmount

CONSTANTS
  Users,        \* Discord user ids
  Keys,         \* addresses with a private key: relayers, withdrawers, payees
  Mints,        \* SPL Token mints
  Sol,          \* the value "sol" of the token option, in any letter case
  ZeroAddress,  \* Address::default()
  None          \* an absent Option, account or token account

(* Program-derived addresses are hashes of their seeds that are not points *)
(* of the curve: injective in their seeds, never a key.                    *)
WalletPda(user) == <<"wallet", user>>
VaultPda(walletState) == <<"vault", walletState>>
AssociatedTokenAddress(owner, mint) == <<"ata", owner, mint>>

VaultOf(user) == VaultPda(WalletPda(user))

WalletAddresses == {WalletPda(u) : u \in Users}
VaultAddresses == {VaultOf(u) : u \in Users}
Addresses == Keys \cup WalletAddresses \cup VaultAddresses
TokenAddresses ==
  {AssociatedTokenAddress(o, m) : o \in Addresses, m \in Mints}

APPLICATION_COMMAND == 2   \* a slash command the user ran
AUTOCOMPLETE == 4          \* a request for choices while the user types

(* The raw body Discord sends.  An option that is missing, or whose value  *)
(* the parsers refuse, is None; "to" is a mention of a user or an address. *)
Interactions ==
  [type : {APPLICATION_COMMAND, AUTOCOMPLETE}, guild : BOOLEAN, user : Users,
   name : STRING, wallet : Addresses \cup {ZeroAddress, None},
   tkn : Mints \cup {Sol, None}, to : Users \cup Addresses \cup {None},
   amt : UiAmounts \cup {None}]

(* The message Discord signs: the timestamp header followed by the body,   *)
(* whose interaction id is kept apart.                                     *)
Requests == [timestamp : Nat, id : Nat, body : Interactions]

Commands == {"WalletInit", "SetWithdrawer", "TransferSolAddress",
             "TransferSolUser", "TransferTokenAddress", "TransferTokenUser"}

(* build_transfer_command: which of the four transfers the options name.   *)
BuildTransferCommand(body, command) ==
  \/ body.tkn = Sol /\ body.to \in Addresses /\ command = "TransferSolAddress"
  \/ body.tkn = Sol /\ body.to \in Users /\ command = "TransferSolUser"
  \/ body.tkn \in Mints /\ body.to \in Addresses /\ command = "TransferTokenAddress"
  \/ body.tkn \in Mints /\ body.to \in Users /\ command = "TransferTokenUser"

(* A parser that never looks at the interaction's type.                    *)
ParsesAsAnyType(body, command) ==
  /\ body.guild
  /\ \/ body.name = "wallet_init" /\ command = "WalletInit"
     \/ body.name = "set_withdrawer" /\ body.wallet # None /\ command = "SetWithdrawer"
     \/ body.name = "transfer" /\ body.amt # None /\ BuildTransferCommand(body, command)

(* parse_interaction: the body is read as this command.  It must be an     *)
(* application command of a guild, with a name the program supports and    *)
(* the options that name needs.                                            *)
ParsesAs(body, command) ==
  /\ body.type = APPLICATION_COMMAND
  /\ body.guild
  /\ \/ body.name = "wallet_init" /\ command = "WalletInit"
     \/ body.name = "set_withdrawer" /\ body.wallet # None /\ command = "SetWithdrawer"
     \/ body.name = "transfer" /\ body.amt # None /\ BuildTransferCommand(body, command)

=============================================================================
