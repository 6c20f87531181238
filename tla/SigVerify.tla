------------------------------ MODULE SigVerify ------------------------------
(***************************************************************************)
(* How the wallet program knows that Discord signed what it runs           *)
(* (sigverify.rs, ExecutePayload).  It never sees a signature checked: the *)
(* Ed25519 program checks one, in the instruction before, over bytes that  *)
(* instruction points at.  What ties the two together is modelled here     *)
(* byte by byte; DiscordWallet takes the outcome as VerifyEd25519.         *)
(***************************************************************************)
EXTENDS Integers, Sequences

CONSTANTS
  MaxI64,        \* the largest i64, scaled down by a model
  DiscordKey,    \* Discord's public key for this application
  Orders,        \* what Discord may sign: a timestamp and a body
  Transactions   \* the transactions anybody may send

Byte == 0..255
Digits == 48..57    \* "0" to "9"
Brace == 123        \* the brace that opens an object
Whitespace == {9, 10, 13, 32}

EMBEDDED == 65535   \* u16::MAX: the instruction's own data
EXECUTE_HEADER_LEN == 5
EXECUTE_DISCRIMINATOR == 1
SYSTEM_TRANSFER_DISCRIMINATOR == 3
TOKEN_TRANSFER_DISCRIMINATOR == 4

(* Those of the instructions that carry a signed request.                  *)
Discriminators ==
  {EXECUTE_DISCRIMINATOR, SYSTEM_TRANSFER_DISCRIMINATOR, TOKEN_TRANSFER_DISCRIMINATOR}
MAX_TRANSACTION_SIZE == 4096

(* A top-level instruction.  One of another program may call the wallet    *)
(* program, with data of its own; one of the Ed25519 program says where    *)
(* its key and its message are.  If the key is in another instruction,     *)
(* publicKeyElsewhere is what is there.                                    *)
IsInstruction(ix) ==
  /\ ix.data \in Seq(Byte)
  /\ \/ ix.program = "wallet"
     \/ ix.program = "ed25519"
     \/ ix.program = "other" /\ ix.calledWith \in Seq(Byte)

IsTransaction(tx) ==
  /\ Len(tx) \in Nat /\ Len(tx) < EMBEDDED
  /\ \A i \in 1..Len(tx) : IsInstruction(tx[i])

(* What a string of digits is worth.                                       *)
DecimalValue(s) ==
  LET value[n \in 0..Len(s)] == IF n = 0 THEN 0 ELSE 10 * value[n - 1] + (s[n] - 48)
  IN  value[Len(s)]

(* Discord's timestamp is a number that fits an i64, its body an object;   *)
(* the two fit in a transaction.                                           *)
IsOrder(o) ==
  /\ o.timestamp \in Seq(Digits) /\ o.timestamp # << >>
  /\ DecimalValue(o.timestamp) <= MaxI64
  /\ o.body \in Seq(Byte) /\ o.body # << >> /\ o.body[1] = Brace
  /\ Len(o.timestamp) + Len(o.body) <= MAX_TRANSACTION_SIZE
  /\ o = [timestamp |-> o.timestamp, body |-> o.body]

ASSUME OrdersAssumption == \A o \in Orders : IsOrder(o)

ASSUME TransactionsAssumption == \A tx \in Transactions : IsTransaction(tx)

VARIABLES
  ordered,   \* what Discord has signed
  executed   \* history: the timestamps and bodies the program has run

vars == <<ordered, executed>>

Init == ordered = {} /\ executed = {}

Message(o) == o.timestamp \o o.body

-----------------------------------------------------------------------------
(* The Ed25519 program.                                                    *)

InBounds(data, offset, size) == offset + size <= Len(data)
Slice(data, offset, size) == SubSeq(data, offset + 1, offset + size)

(* Instruction j passes: it names bytes that are there, and they have been *)
(* signed with the key it names.  With another key than Discord's anybody  *)
(* can sign anything.                                                      *)
Ed25519Verifies(tx, j) ==
  LET o == tx[j].offsets
      at == IF o.messageIndex = EMBEDDED THEN j ELSE o.messageIndex + 1
      key == IF o.publicKeyIndex = EMBEDDED THEN o.publicKey ELSE o.publicKeyElsewhere
  IN  /\ at \in 1..Len(tx)
      /\ InBounds(tx[at].data, o.messageOffset, o.messageSize)
      /\ key = DiscordKey =>
           \E order \in ordered :
             Message(order) = Slice(tx[at].data, o.messageOffset, o.messageSize)

-----------------------------------------------------------------------------
(* ExecutePayload::try_from                                                *)

ReadU16Le(data, offset) == data[offset + 1] + 256 * data[offset + 2]

TimestampLen(data) == ReadU16Le(data, 1)
VerifiedMessageLen(data) == TimestampLen(data) + ReadU16Le(data, 3)

IsExecutePayload(data) ==
  /\ Len(data) >= EXECUTE_HEADER_LEN
  /\ Len(data) = EXECUTE_HEADER_LEN + VerifiedMessageLen(data)

Timestamp(data) == Slice(data, EXECUTE_HEADER_LEN, TimestampLen(data))
RawBody(data) == SubSeq(data, EXECUTE_HEADER_LEN + TimestampLen(data) + 1, Len(data))

(* parse_i64_decimal wants digits, one at least, and what does not         *)
(* overflow.                                                               *)
IsDecimal(s) ==
  /\ s # << >> /\ \A i \in 1..Len(s) : s[i] \in Digits
  /\ DecimalValue(s) <= MaxI64

(* A parser that looks for the object wherever it begins.                  *)
HoldsObject(s) == \E i \in 1..Len(s) : s[i] = Brace

(* parse_interaction wants an object after any whitespace.                 *)
StartsObject(s) ==
  \E i \in 1..Len(s) : s[i] = Brace /\ \A k \in 1..i-1 : s[k] \in Whitespace

-----------------------------------------------------------------------------
(* verify_ed25519, for instruction i of a transaction.                     *)

(* An inspection that takes the message from wherever it is.               *)
InspectAnyInstruction(tx, i, data) ==
  /\ i > 1
  /\ tx[i-1].program = "ed25519"
  /\ LET o == tx[i-1].offsets
     IN  /\ o.numSignatures = 1
         /\ o.signatureIndex = EMBEDDED /\ o.publicKeyIndex = EMBEDDED
         /\ InBounds(data, o.messageOffset, o.messageSize)

(* An inspection that takes the key bytes in the Ed25519 instruction for   *)
(* the key that was used.                                                  *)
InspectAnyKeyIndex(tx, i, data) ==
  /\ i > 1
  /\ tx[i-1].program = "ed25519"
  /\ LET o == tx[i-1].offsets
     IN  /\ o.numSignatures = 1
         /\ o.messageIndex = i - 1
         /\ InBounds(data, o.messageOffset, o.messageSize)

(* Ed25519Verification::inspect: the instruction before checks one         *)
(* signature, with a key of its own, over bytes of this instruction.       *)
Inspect(tx, i, data) ==
  /\ i > 1
  /\ tx[i-1].program = "ed25519"
  /\ LET o == tx[i-1].offsets
     IN  /\ o.numSignatures = 1
         /\ o.signatureIndex = EMBEDDED /\ o.publicKeyIndex = EMBEDDED
         /\ o.messageIndex = i - 1
         /\ InBounds(data, o.messageOffset, o.messageSize)

(* The bytes are all of this instruction's behind its header.              *)
MessageBound(tx, i, data) ==
  /\ tx[i-1].offsets.messageOffset = EXECUTE_HEADER_LEN
  /\ tx[i-1].offsets.messageSize = VerifiedMessageLen(data)

(* A program that does not mind being called by another.                   *)
AtAnyStackHeight(height) == height >= 1

(* get_stack_height() = TRANSACTION_LEVEL_STACK_HEIGHT.  A program that is *)
(* called sees its caller's index in the instructions sysvar, and data     *)
(* that are not its caller's.                                              *)
AtTransactionLevel(height) == height = 1

VerifyEd25519(tx, i, height, data) ==
  /\ AtTransactionLevel(height)
  /\ Inspect(tx, i, data)
  /\ tx[i-1].offsets.publicKey = DiscordKey
  /\ MessageBound(tx, i, data)

(* The program runs with these data, in or below instruction i.            *)
Invoked(tx, i, height, data) ==
  \/ tx[i].program = "wallet" /\ height = 1 /\ data = tx[i].data
  \/ tx[i].program = "other" /\ height = 2 /\ data = tx[i].calledWith

Accepts(tx, i, height, data) ==
  /\ IsExecutePayload(data)
  /\ IsDecimal(Timestamp(data)) /\ StartsObject(RawBody(data))
  /\ VerifyEd25519(tx, i, height, data)

Verifies(tx) ==
  \A j \in 1..Len(tx) : tx[j].program = "ed25519" => Ed25519Verifies(tx, j)

-----------------------------------------------------------------------------
DiscordSigns(o) ==
  /\ ordered' = ordered \cup {o}
  /\ UNCHANGED executed

(* What the program takes for the order.                                   *)
OrderRead(data) == [timestamp |-> Timestamp(data), body |-> RawBody(data)]

InstructionData(tx, i, height) == IF height = 1 THEN tx[i].data ELSE tx[i].calledWith

(* The program runs these data as a command, in a transaction that lands.  *)
Runs(tx, i, height, data) ==
  /\ Invoked(tx, i, height, data)
  /\ Accepts(tx, i, height, data)
  /\ Verifies(tx)

Execute ==
  \E tx \in Transactions : \E i \in 1..Len(tx), height \in 1..2 :
    LET data == InstructionData(tx, i, height)
    IN  /\ Runs(tx, i, height, data)
        /\ executed' = executed \cup {OrderRead(data)}
        /\ UNCHANGED ordered

Next == (\E o \in Orders : DiscordSigns(o)) \/ Execute

Spec == Init /\ [][Next]_vars

-----------------------------------------------------------------------------
(* The relayer's side (program.ts).                                        *)

LowByte(n) == n % 256
HighByte(n) == n \div 256

(* encodeInteractionInstruction: a header of five bytes, and the message.  *)
EncodeInteractionInstruction(discriminator, o) ==
  LET t == Len(o.timestamp)
      b == Len(o.body)
  IN  <<discriminator, LowByte(t), HighByte(t), LowByte(b), HighByte(b)>> \o Message(o)

(* The command taken to come right after the signature, first of all.      *)
CommandInstructionIndexAlone(setup) == 1

(* The setup instructions and the signature come before the command.       *)
CommandInstructionIndex(setup) == Len(setup) + 1

BuildEd25519VerifyInstruction(index, size) ==
  [program |-> "ed25519", data |-> << >>,
   offsets |-> [numSignatures |-> 1, signatureIndex |-> EMBEDDED,
                publicKeyIndex |-> EMBEDDED, publicKey |-> DiscordKey,
                publicKeyElsewhere |-> DiscordKey, messageIndex |-> index,
                messageOffset |-> EXECUTE_HEADER_LEN, messageSize |-> size]]

BuildDiscordCommandTransaction(discriminator, o, setup) ==
  LET data == EncodeInteractionInstruction(discriminator, o)
  IN  setup \o
      <<BuildEd25519VerifyInstruction(CommandInstructionIndex(setup),
                                      Len(data) - EXECUTE_HEADER_LEN),
        [program |-> "wallet", data |-> data]>>

-----------------------------------------------------------------------------
(* The program runs a timestamp and a body only if Discord has signed that *)
(* very timestamp with that very body, whoever put the transaction         *)
(* together: the header that splits them is not signed, nor is the rest of *)
(* the transaction (verify_ed25519, ExecutePayload::try_from).             *)
ExecutedWasOrdered == executed \subseteq ordered

ReadsAsOrdered(data, o) == Timestamp(data) = o.timestamp /\ RawBody(data) = o.body

(* What Discord has signed can be run: in the transaction the relayer      *)
(* builds for it, with an instruction that makes a token account before it *)
(* or without, the signature verifies and the program reads that very      *)
(* timestamp and body (buildDiscordCommandTransaction).                    *)
RelayedCommandsVerify ==
  \A o \in ordered, discriminator \in Discriminators, n \in 0..1 :
    LET setup == [k \in 1..n |-> [program |-> "other", data |-> <<1>>, calledWith |-> << >>]]
        tx == BuildDiscordCommandTransaction(discriminator, o, setup)
    IN  /\ Verifies(tx)
        /\ Accepts(tx, Len(tx), 1, tx[Len(tx)].data)
        /\ ReadsAsOrdered(tx[Len(tx)].data, o)

=============================================================================
