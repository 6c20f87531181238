---------------------------- MODULE SignedWallet ----------------------------
(***************************************************************************)
(* The wallet program on the bytes it is sent (lib.rs, sigverify.rs).      *)
(* DiscordWallet lets a command run when a signature of Discord's for that *)
(* very request is about; the program knows no requests, only the data of  *)
(* its instruction and those of the Ed25519 instruction before it, as      *)
(* SigVerify has them.  Here the two are put together: Discord signs text, *)
(* the program reads text, and does what the first byte of its data and    *)
(* the text say.                                                           *)
(***************************************************************************)
EXTENDS DiscordWalletCustody, Sequences

CONSTANTS
  MaxI64,          \* the largest i64, scaled down by a model
  Orders,          \* the texts Discord may sign: a timestamp and a body
  Transactions,    \* the transactions anybody may send
  ReadRequest(_)   \* parse_u64_decimal and parse_interaction: the request in a text

VARIABLES
  ordered,   \* the texts Discord has signed
  ran        \* history: the texts the program has run

svars == <<vars, ordered, ran>>

Sig == INSTANCE SigVerify WITH executed <- ran

(* Discord's texts are the interactions users make.  Nothing is said of    *)
(* what the program reads in any other text.                               *)
ASSUME OrdersAreRequests ==
  \A o \in Orders :
    /\ Sig!IsOrder(o)
    /\ ReadRequest(o) \in Requests
    /\ ReadRequest(o).body \in UserInteractions /\ ReadRequest(o).id \in InteractionIds

ASSUME TransactionsAreSent == \A tx \in Transactions : Sig!IsTransaction(tx)

SignedInit == Init /\ Sig!Init

-----------------------------------------------------------------------------
(* Discord signs the text of an interaction.                               *)
SignText(o) == Sig!DiscordSigns(o) /\ IssueCommand(ReadRequest(o))

(* process_instruction, for the instructions that carry signed text: which *)
(* of them it is, is for the sender to say.                                *)
ProcessInstruction(discriminator, r) ==
  \/ discriminator = Sig!EXECUTE_DISCRIMINATOR /\ ExecuteInstruction(r)
  \/ discriminator = Sig!SYSTEM_TRANSFER_DISCRIMINATOR /\ SystemTransferInstruction(r)
  \/ discriminator = Sig!TOKEN_TRANSFER_DISCRIMINATOR /\ TokenTransferInstruction(r)

(* The program runs in or below instruction i of a transaction, with what  *)
(* it reads in its own data.                                               *)
RunInstruction ==
  \E tx \in Transactions : \E i \in 1..Len(tx), height \in 1..2 :
    LET data == Sig!InstructionData(tx, i, height)
        r == ReadRequest(Sig!OrderRead(data))
    IN  /\ Sig!Runs(tx, i, height, data)
        /\ RejectStaleTimestamp(r)
        /\ ProcessInstruction(data[1], r)
        /\ ran' = ran \cup {Sig!OrderRead(data)}
        /\ UNCHANGED ordered

(* What needs no text of Discord's.                                        *)
Unsigned ==
  /\ ProcessWithdrawInstruction \/ Chain
  /\ UNCHANGED <<ordered, ran>>

SignedNext ==
  \/ \E o \in Orders : SignText(o)
  \/ RunInstruction
  \/ Unsigned

SignedSpec == SignedInit /\ [][SignedNext]_svars

-----------------------------------------------------------------------------
(* However transactions are put together, and whatever the program reads   *)
(* in texts Discord has not signed, every step the program takes on bytes  *)
(* is one that DiscordWallet allows: a command runs only for a request     *)
(* that Discord has signed (process_instruction, verify_ed25519).          *)
ImplementsWallet == Spec

=============================================================================
