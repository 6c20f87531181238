---------------------------- MODULE MCSigVerify -----------------------------
(* Instances of the signature verification: six messages, and the ways to  *)
(* put an Ed25519 instruction, the wallet program and another together.    *)
EXTENDS SigVerify

CONSTANTS discord, foreign

One == 49

\* "1" and "11", each with three bodies: a digit may be taken for either side.
FewOrders ==
  [timestamp : {<<One>>, <<One, One>>},
   body : {<<Brace>>, <<Brace, One>>, <<Brace, Brace>>}]

Messages == {Message(o) : o \in FewOrders}

Payload(timestampLen, bodyLen, m) == <<0, timestampLen, 0, bodyLen, 0>> \o m

\* As it was signed, and cut where the sender likes.
Signed == {Payload(Len(o.timestamp), Len(o.body), Message(o)) : o \in FewOrders}
Cut == {Payload(k, Len(m) - k, m) : m \in Messages, k \in 0..2}
Miscounted == {Payload(1, 1, m) : m \in Messages}

\* The key in the instruction or in another one, Discord's or the sender's.
Keyed ==
  {<<EMBEDDED, discord, discord>>, <<EMBEDDED, foreign, foreign>>, <<0, discord, foreign>>}

Ed25519Instructions ==
  {[program |-> "ed25519", data |-> <<One, Brace>>,
    offsets |-> [numSignatures |-> n, signatureIndex |-> EMBEDDED,
                 publicKeyIndex |-> k[1], publicKey |-> k[2], publicKeyElsewhere |-> k[3],
                 messageIndex |-> index, messageOffset |-> offset, messageSize |-> size]] :
     n \in {1, 2}, k \in Keyed, index \in {0, 1, 2, EMBEDDED}, offset \in {0, 5},
     size \in 2..4}

Wallet(data) == [program |-> "wallet", data |-> data]
Other(data, inner) == [program |-> "other", data |-> data, calledWith |-> inner]

ManyTransactions ==
  {<<e, Wallet(d)>> : e \in Ed25519Instructions, d \in Cut \cup Miscounted}
  \cup {<<Other(s, << >>), e, Wallet(d)>> :
          s \in Signed, e \in {x \in Ed25519Instructions : x.offsets.numSignatures = 1}, d \in Signed}
  \cup {<<e, Other(s, d)>> :
          s \in Signed, e \in {x \in Ed25519Instructions : x.offsets.numSignatures = 1}, d \in Signed}
  \cup {<<Wallet(d), e>> : e \in Ed25519Instructions, d \in Signed}

=============================================================================
