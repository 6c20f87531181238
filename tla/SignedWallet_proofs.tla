------------------------- MODULE SignedWallet_proofs -------------------------
(***************************************************************************)
(* The wallet program on bytes implements DiscordWallet, for any texts and *)
(* any transactions: so what is proved of DiscordWallet, custody first,    *)
(* holds for the program as it is called.                                  *)
(***************************************************************************)
EXTENDS SignedWallet, DiscordWalletCustody_proofs

(* SigVerify with what is proved about it.                                 *)
SigFacts == INSTANCE SigVerify_proofs WITH executed <- ran

-----------------------------------------------------------------------------
(* The two instances of SigVerify are the same.                            *)

LEMMA SameReading ==
  ASSUME NEW data
  PROVE  /\ Sig!IsExecutePayload(data) <=> SigFacts!IsExecutePayload(data)
         /\ Sig!Timestamp(data) = SigFacts!Timestamp(data)
         /\ Sig!RawBody(data) = SigFacts!RawBody(data)
         /\ Sig!OrderRead(data) = SigFacts!OrderRead(data)
         /\ Sig!VerifiedMessageLen(data) = SigFacts!VerifiedMessageLen(data)
BY DEF Sig!IsExecutePayload, SigFacts!IsExecutePayload, Sig!Timestamp,
       SigFacts!Timestamp, Sig!RawBody, SigFacts!RawBody, Sig!OrderRead,
       SigFacts!OrderRead, Sig!VerifiedMessageLen, SigFacts!VerifiedMessageLen,
       Sig!TimestampLen, SigFacts!TimestampLen, Sig!ReadU16Le, SigFacts!ReadU16Le,
       Sig!Slice, SigFacts!Slice, Sig!EXECUTE_HEADER_LEN, SigFacts!EXECUTE_HEADER_LEN

LEMMA SameValue ==
  ASSUME NEW s
  PROVE  Sig!DecimalValue(s) = SigFacts!DecimalValue(s)
BY DEF Sig!DecimalValue, SigFacts!DecimalValue

LEMMA SameParsing ==
  ASSUME NEW s
  PROVE  /\ Sig!IsDecimal(s) <=> SigFacts!IsDecimal(s)
         /\ Sig!StartsObject(s) <=> SigFacts!StartsObject(s)
BY SameValue DEF Sig!IsDecimal, SigFacts!IsDecimal, Sig!StartsObject, SigFacts!StartsObject,
       Sig!Digits, SigFacts!Digits, Sig!Brace, SigFacts!Brace, Sig!Whitespace,
       SigFacts!Whitespace

LEMMA SameVerification ==
  ASSUME NEW tx, NEW i, NEW height, NEW data
  PROVE  /\ Sig!VerifyEd25519(tx, i, height, data)
              <=> SigFacts!VerifyEd25519(tx, i, height, data)
         /\ Sig!Verifies(tx) <=> SigFacts!Verifies(tx)
<1>1. Sig!Inspect(tx, i, data) <=> SigFacts!Inspect(tx, i, data)
  BY DEF Sig!Inspect, SigFacts!Inspect, Sig!InBounds, SigFacts!InBounds, Sig!EMBEDDED,
         SigFacts!EMBEDDED
<1>2. Sig!MessageBound(tx, i, data) <=> SigFacts!MessageBound(tx, i, data)
  BY SameReading DEF Sig!MessageBound, SigFacts!MessageBound, Sig!EXECUTE_HEADER_LEN,
         SigFacts!EXECUTE_HEADER_LEN
<1>3. Sig!AtTransactionLevel(height) <=> SigFacts!AtTransactionLevel(height)
  BY DEF Sig!AtTransactionLevel, SigFacts!AtTransactionLevel
<1>4. ASSUME NEW j
      PROVE  Sig!Ed25519Verifies(tx, j) <=> SigFacts!Ed25519Verifies(tx, j)
  BY DEF Sig!Ed25519Verifies, SigFacts!Ed25519Verifies, Sig!InBounds, SigFacts!InBounds,
         Sig!Slice, SigFacts!Slice, Sig!Message, SigFacts!Message, Sig!EMBEDDED,
         SigFacts!EMBEDDED
<1> QED
  BY <1>1, <1>2, <1>3, <1>4 DEF Sig!VerifyEd25519, SigFacts!VerifyEd25519, Sig!Verifies,
         SigFacts!Verifies

LEMMA SameForms ==
  ASSUME NEW x
  PROVE  /\ Sig!IsOrder(x) <=> SigFacts!IsOrder(x)
         /\ Sig!IsTransaction(x) <=> SigFacts!IsTransaction(x)
<1>1. Sig!IsOrder(x) <=> SigFacts!IsOrder(x)
  <2>1. Sig!DecimalValue(x.timestamp) = SigFacts!DecimalValue(x.timestamp)
    BY SameValue
  <2>2. /\ Sig!Digits = SigFacts!Digits /\ Sig!Byte = SigFacts!Byte
        /\ Sig!Brace = SigFacts!Brace
        /\ Sig!MAX_TRANSACTION_SIZE = SigFacts!MAX_TRANSACTION_SIZE
    BY DEF Sig!Digits, SigFacts!Digits, Sig!Byte, SigFacts!Byte, Sig!Brace, SigFacts!Brace,
           Sig!MAX_TRANSACTION_SIZE, SigFacts!MAX_TRANSACTION_SIZE
  <2> QED
    BY <2>1, <2>2, Zenon DEF Sig!IsOrder, SigFacts!IsOrder
<1>2. Sig!IsTransaction(x) <=> SigFacts!IsTransaction(x)
  BY DEF Sig!IsTransaction, SigFacts!IsTransaction, Sig!IsInstruction, SigFacts!IsInstruction,
         Sig!Byte, SigFacts!Byte, Sig!EMBEDDED, SigFacts!EMBEDDED
<1> QED
  BY <1>1, <1>2

(* What the program runs is a text Discord has signed.                     *)
LEMMA RunsOnlyOrders ==
  ASSUME ordered \subseteq Orders,
         NEW tx \in Transactions, NEW i \in 1..Len(tx), NEW height \in 1..2, NEW data,
         Sig!Runs(tx, i, height, data)
  PROVE  Sig!OrderRead(data) \in ordered
<1>1. SigFacts!Invoked(tx, i, height, data)
  BY DEF Sig!Runs, Sig!Invoked, SigFacts!Invoked
<1>2. SigFacts!Accepts(tx, i, height, data)
  <2>1. /\ Sig!IsExecutePayload(data)
        /\ Sig!IsDecimal(Sig!Timestamp(data)) /\ Sig!StartsObject(Sig!RawBody(data))
        /\ Sig!VerifyEd25519(tx, i, height, data)
    BY DEF Sig!Runs, Sig!Accepts
  <2>2. SigFacts!IsExecutePayload(data) /\ SigFacts!VerifyEd25519(tx, i, height, data)
    BY <2>1, SameReading, SameVerification
  <2>3. SigFacts!IsDecimal(Sig!Timestamp(data)) /\ SigFacts!StartsObject(Sig!RawBody(data))
    BY <2>1, SameParsing
  <2>4. /\ SigFacts!Timestamp(data) = Sig!Timestamp(data)
        /\ SigFacts!RawBody(data) = Sig!RawBody(data)
    BY SameReading
  <2> QED
    BY <2>2, <2>3, <2>4 DEF SigFacts!Accepts
<1>3. SigFacts!Verifies(tx)
  BY SameVerification DEF Sig!Runs
<1>4. \A o \in Orders : SigFacts!IsOrder(o)
  BY OrdersAreRequests, SameForms
<1>5. \A t \in Transactions : SigFacts!IsTransaction(t)
  BY TransactionsAreSent, SameForms
<1>6. SigFacts!OrderRead(data) \in ordered
  BY <1>1, <1>2, <1>3, <1>4, <1>5, SigFacts!AcceptedWasOrdered
<1> QED
  BY <1>6, SameReading

-----------------------------------------------------------------------------
(* The invariant: the requests Discord has signed are those in the texts   *)
(* it has signed.                                                          *)
SignedInv ==
  /\ ordered \subseteq Orders
  /\ Issued = {ReadRequest(o) : o \in ordered}

LEMMA SignedInvInit == SignedInit => SignedInv
BY ConstantTypes, DistinctValues DEF SignedInit, Init, Sig!Init, SignedInv, Issued

(* Only Discord adds to the signatures.                                    *)
LEMMA CommandsSignNothing ==
  ASSUME NEW r,
         ExecuteInstruction(r) \/ SystemTransferInstruction(r) \/ TokenTransferInstruction(r)
  PROVE  signatures' = signatures
BY DEF ExecuteInstruction, SystemTransferInstruction, TokenTransferInstruction, WalletInit,
       SetWithdrawer, SolTransferAddress, SolTransferUser, InvokeSolTransfer,
       TokenTransferAddress, TokenTransferUser, InvokeTokenTransfer, Executes

LEMMA OthersSignNothing ==
  ProcessWithdrawInstruction \/ Chain => signatures' = signatures
BY DEF ProcessWithdrawInstruction, WithdrawSol, WithdrawToken, Withdraws, Chain, Tick,
       Deposit, CreateAssociatedTokenAccount, TokenDeposit, SetAuthority

(* A text Discord signs is a request it issues.                            *)
LEMMA SignedTextStep ==
  ASSUME SignedInv, NEW o \in Orders, SignText(o)
  PROVE  Next /\ SignedInv'
<1> DEFINE r == ReadRequest(o)
<1>1. r \in Requests /\ r.body \in UserInteractions /\ r.id \in InteractionIds
  BY OrdersAreRequests
<1>2. IssueCommand(r) /\ ordered' = ordered \cup {o}
  BY DEF SignText, Sig!DiscordSigns
<1> HIDE DEF r
<1>3. r = [timestamp |-> r.timestamp, id |-> r.id, body |-> r.body] /\ r.timestamp \in Nat
  BY <1>1 DEF Requests
<1>4. Discord
  <2>1. r.timestamp <= now + Skew
    BY <1>2 DEF IssueCommand
  <2> QED
    BY <1>1, <1>2, <1>3, <2>1 DEF Discord
<1>5. Issued' = Issued \cup {r}
  <2>1. signatures' = signatures \cup {[key |-> DiscordKey, request |-> r]}
    BY <1>2 DEF IssueCommand
  <2> DEFINE new == [key |-> DiscordKey, request |-> r]
  <2>2. new.key = DiscordKey /\ new.request = r
    OBVIOUS
  <2> HIDE DEF new
  <2>3. signatures' = signatures \cup {new}
    BY <2>1 DEF new
  <2> QED
    BY <2>2, <2>3, Zenon DEF Issued
<1>6. SignedInv'
  BY <1>2, <1>5 DEF SignedInv, r
<1> QED
  BY <1>4, <1>6 DEF Next, Environment

(* A run on bytes is a run on a request that Discord has signed.           *)
LEMMA RunInstructionStep == SignedInv /\ RunInstruction => Next /\ SignedInv'
<1> SUFFICES ASSUME SignedInv, RunInstruction PROVE Next /\ SignedInv'
  OBVIOUS
<1>1. PICK tx \in Transactions : \E i \in 1..Len(tx), height \in 1..2 :
        LET data == Sig!InstructionData(tx, i, height)
            r == ReadRequest(Sig!OrderRead(data))
        IN  /\ Sig!Runs(tx, i, height, data)
            /\ RejectStaleTimestamp(r) /\ ProcessInstruction(data[1], r)
            /\ UNCHANGED ordered
  BY DEF RunInstruction
<1>2. PICK i \in 1..Len(tx), height \in 1..2 :
        LET data == Sig!InstructionData(tx, i, height)
            r == ReadRequest(Sig!OrderRead(data))
        IN  /\ Sig!Runs(tx, i, height, data)
            /\ RejectStaleTimestamp(r) /\ ProcessInstruction(data[1], r)
            /\ UNCHANGED ordered
  BY <1>1
<1> DEFINE data == Sig!InstructionData(tx, i, height)
           r == ReadRequest(Sig!OrderRead(data))
<1>3. /\ Sig!Runs(tx, i, height, data)
      /\ RejectStaleTimestamp(r) /\ ProcessInstruction(data[1], r)
      /\ UNCHANGED ordered
  BY <1>2
<1>4. r \in Issued
  BY <1>3, RunsOnlyOrders DEF SignedInv
<1>5. PICK s \in signatures : s.key = DiscordKey /\ s.request = r
  BY <1>4 DEF Issued
<1>6. AcceptRequest(s, r) /\ r \in Circulating
  BY <1>3, <1>5 DEF AcceptRequest, VerifyEd25519, Circulating
<1>7. ExecuteInstruction(r) \/ SystemTransferInstruction(r) \/ TokenTransferInstruction(r)
  BY <1>3 DEF ProcessInstruction
<1>8. Next
  BY <1>5, <1>6, <1>7 DEF Next, ProcessExecuteInstruction, ProcessSystemTransferInstruction,
         ProcessTokenTransferInstruction
<1>9. SignedInv'
  <2>1. ordered' = ordered
    BY <1>3
  <2> QED
    BY <1>7, <2>1, CommandsSignNothing, SameRequests DEF SignedInv
<1> QED
  BY <1>8, <1>9

LEMMA SignedStep == SignedInv /\ [SignedNext]_svars => [Next]_vars /\ SignedInv'
<1> SUFFICES ASSUME SignedInv, [SignedNext]_svars PROVE [Next]_vars /\ SignedInv'
  OBVIOUS
<1>1. CASE \E o \in Orders : SignText(o)
  BY <1>1, SignedTextStep
<1>2. CASE RunInstruction
  BY <1>2, RunInstructionStep
<1>3. CASE Unsigned
  BY <1>3, OthersSignNothing, SameRequests
     DEF Unsigned, Next, Environment, SignedInv
<1>4. CASE UNCHANGED svars
  BY <1>4, SameRequests DEF svars, vars, SignedInv
<1> QED
  BY <1>1, <1>2, <1>3, <1>4 DEF SignedNext

(* Whatever bytes are sent, each step of the program is a step of          *)
(* DiscordWallet (process_instruction, verify_ed25519).                    *)
THEOREM SignedRefinesWallet == SignedSpec => ImplementsWallet
<1>1. SignedInit => Init
  BY DEF SignedInit
<1> QED
  BY <1>1, SignedInvInit, SignedStep, PTL DEF SignedSpec, ImplementsWallet, Spec

(* So the program keeps custody on whatever bytes it is sent: an asset     *)
(* leaves a vault only as a text Discord has signed says, once, or by the  *)
(* withdrawer's hand.                                                      *)
THEOREM SignedCustodyKept == SignedSpec => ImplementsCustody
BY SignedRefinesWallet, CustodyKept, PTL DEF ImplementsWallet

=============================================================================
