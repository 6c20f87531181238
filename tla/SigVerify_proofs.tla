-------------------------- MODULE SigVerify_proofs --------------------------
(***************************************************************************)
(* Whatever transactions are sent, what the program runs is what Discord   *)
(* has signed.  The heart of it is that the bytes Discord signs can be cut *)
(* in one way only, because a timestamp is digits and a body starts with   *)
(* something else.                                                         *)
(***************************************************************************)
EXTENDS SigVerify, SequenceTheorems, TLAPS

(* A body the program accepts does not start with a digit.                 *)
LEMMA ObjectStart ==
  ASSUME NEW s \in Seq(Byte), StartsObject(s)
  PROVE  s # << >> /\ Len(s) >= 1 /\ s[1] \notin Digits
<1>1. PICK i \in 1..Len(s) : s[i] = Brace /\ \A k \in 1..i-1 : s[k] \in Whitespace
  BY DEF StartsObject
<1>2. Len(s) \in Nat /\ Len(s) >= 1
  BY <1>1
<1>3. CASE i = 1
  BY <1>1, <1>2, <1>3 DEF Brace, Digits
<1>4. CASE i # 1
  <2>1. s[1] \in Whitespace
    BY <1>1, <1>4
  <2> QED
    BY <1>2, <2>1 DEF Whitespace, Digits
<1> QED
  BY <1>3, <1>4

(* Of two ways to cut a message in digits and a rest that starts with no   *)
(* digit, neither has the shorter first part.                              *)
LEMMA NotShorter ==
  ASSUME NEW t \in Seq(Byte), NEW b \in Seq(Byte), NEW u \in Seq(Byte), NEW c \in Seq(Byte),
         t \o b = u \o c,
         \A i \in 1..Len(u) : u[i] \in Digits,
         Len(b) >= 1, b[1] \notin Digits
  PROVE  Len(t) >= Len(u)
<1> SUFFICES ASSUME Len(t) < Len(u) PROVE FALSE
  OBVIOUS
<1>1. (t \o b)[Len(t) + 1] = b[1]
  OBVIOUS
<1>2. (u \o c)[Len(t) + 1] = u[Len(t) + 1]
  OBVIOUS
<1>3. u[Len(t) + 1] \in Digits
  OBVIOUS
<1> QED
  BY <1>1, <1>2, <1>3

LEMMA OneCut ==
  ASSUME NEW t \in Seq(Byte), NEW b \in Seq(Byte), NEW u \in Seq(Byte), NEW c \in Seq(Byte),
         t \o b = u \o c,
         \A i \in 1..Len(t) : t[i] \in Digits, \A i \in 1..Len(u) : u[i] \in Digits,
         Len(b) >= 1, b[1] \notin Digits, Len(c) >= 1, c[1] \notin Digits
  PROVE  t = u /\ b = c
<1>1. Len(t) = Len(u)
  <2>1. Len(t) >= Len(u)
    BY NotShorter
  <2>2. Len(u) >= Len(t)
    BY NotShorter
  <2> QED
    BY <2>1, <2>2
<1>2. Len(t \o b) = Len(t) + Len(b) /\ Len(u \o c) = Len(u) + Len(c)
  OBVIOUS
<1>3. Len(b) = Len(c)
  BY <1>1, <1>2
<1>4. \A i \in 1..Len(t) : t[i] = u[i]
  <2> TAKE i \in 1..Len(t)
  <2>1. (t \o b)[i] = t[i] /\ (u \o c)[i] = u[i]
    BY <1>1
  <2> QED
    BY <2>1
<1>5. \A i \in 1..Len(b) : b[i] = c[i]
  <2> TAKE i \in 1..Len(b)
  <2>1. (t \o b)[Len(t) + i] = b[i] /\ (u \o c)[Len(u) + i] = c[i]
    BY <1>3
  <2> QED
    BY <1>1, <2>1
<1>6. t = u
  BY <1>1, <1>4, SeqEqual
<1>7. b = c
  BY <1>3, <1>5, SeqEqual
<1> QED
  BY <1>6, <1>7

(* The program cuts all of its message, and nothing else, in two.          *)
LEMMA CutsItsMessage ==
  ASSUME NEW data \in Seq(Byte), IsExecutePayload(data)
  PROVE  /\ Timestamp(data) \in Seq(Byte) /\ RawBody(data) \in Seq(Byte)
         /\ Timestamp(data) \o RawBody(data)
              = Slice(data, EXECUTE_HEADER_LEN, VerifiedMessageLen(data))
<1> DEFINE k == TimestampLen(data)
           n == VerifiedMessageLen(data)
<1>1. k \in Nat /\ n \in Nat /\ k <= n /\ Len(data) = 5 + n
  <2>1. Len(data) >= 5
    BY DEF IsExecutePayload, EXECUTE_HEADER_LEN
  <2>2. PICK a \in 0..255, b \in 0..255, c \in 0..255, d \in 0..255 :
          data[2] = a /\ data[3] = b /\ data[4] = c /\ data[5] = d
    <3>1. data[2] \in Byte /\ data[3] \in Byte /\ data[4] \in Byte /\ data[5] \in Byte
      BY <2>1
    <3> QED
      BY <3>1, Zenon DEF Byte
  <2>3. ReadU16Le(data, 1) = a + 256 * b /\ ReadU16Le(data, 3) = c + 256 * d
    <3>1. 1 + 1 = 2 /\ 1 + 2 = 3 /\ 3 + 1 = 4 /\ 3 + 2 = 5
      OBVIOUS
    <3>2. ReadU16Le(data, 1) = data[2] + 256 * data[3] /\ ReadU16Le(data, 3) = data[4] + 256 * data[5]
      BY <3>1, Zenon DEF ReadU16Le
    <3> QED
      BY <2>2, <3>2, Zenon
  <2>4. Len(data) = 5 + n /\ k = a + 256 * b /\ n = k + (c + 256 * d)
    BY <2>3 DEF IsExecutePayload, EXECUTE_HEADER_LEN, TimestampLen, VerifiedMessageLen
  <2> HIDE DEF k, n
  <2> QED
    BY <2>4
<1>2. Timestamp(data) = SubSeq(data, 6, 5 + k) /\ RawBody(data) = SubSeq(data, 6 + k, 5 + n)
  BY <1>1 DEF Timestamp, RawBody, Slice, EXECUTE_HEADER_LEN
<1> HIDE DEF k, n
<1>3. Timestamp(data) \in Seq(Byte) /\ Len(Timestamp(data)) = k
      /\ \A i \in 1..k : Timestamp(data)[i] = data[5 + i]
  BY <1>1, <1>2
<1>4. RawBody(data) \in Seq(Byte) /\ Len(RawBody(data)) = n - k
      /\ \A i \in 1..(n - k) : RawBody(data)[i] = data[5 + k + i]
  BY <1>1, <1>2
<1>5. Slice(data, 5, n) \in Seq(Byte) /\ Len(Slice(data, 5, n)) = n
      /\ \A i \in 1..n : Slice(data, 5, n)[i] = data[5 + i]
  BY <1>1 DEF Slice
<1> DEFINE joined == Timestamp(data) \o RawBody(data)
<1>6. joined \in Seq(Byte) /\ Len(joined) = n
  BY <1>1, <1>3, <1>4
<1>7. \A i \in 1..n : joined[i] = data[5 + i]
  <2> TAKE i \in 1..n
  <2>1. CASE i <= k
    <3>1. joined[i] = Timestamp(data)[i] /\ i \in 1..k
      BY <1>1, <1>3, <1>4, <2>1
    <3> QED
      BY <1>3, <3>1
  <2>2. CASE i > k
    <3>1. joined[i] = RawBody(data)[i - k] /\ i - k \in 1..(n - k)
      BY <1>1, <1>3, <1>4, <2>2
    <3>2. RawBody(data)[i - k] = data[5 + k + (i - k)]
      BY <1>4, <3>1
    <3>3. 5 + k + (i - k) = 5 + i
      BY <1>1
    <3> QED
      BY <3>1, <3>2, <3>3
  <2> QED
    <3>1. i <= k \/ i > k
      BY <1>1
    <3> QED
      BY <2>1, <2>2, <3>1
<1>8. joined = Slice(data, 5, n)
  BY <1>5, <1>6, <1>7, SeqEqual
<1> QED
  BY <1>3, <1>4, <1>8 DEF EXECUTE_HEADER_LEN, n

(* What the program accepts is, cut as the program cuts it, an order.      *)
LEMMA AcceptedWasOrdered ==
  ASSUME ordered \subseteq Orders,
         NEW tx \in Transactions, NEW i \in 1..Len(tx), NEW height, NEW data,
         Invoked(tx, i, height, data), Accepts(tx, i, height, data), Verifies(tx)
  PROVE  OrderRead(data) \in ordered
<1> DEFINE o == tx[i-1].offsets
<1>1. height = 1 /\ Inspect(tx, i, data) /\ MessageBound(tx, i, data) /\ o.publicKey = DiscordKey
  BY DEF Accepts, VerifyEd25519, AtTransactionLevel
<1>2. data = tx[i].data /\ data \in Seq(Byte)
  BY <1>1, TransactionsAssumption DEF Invoked, IsTransaction, IsInstruction
<1>3. /\ i > 1 /\ i - 1 \in 1..Len(tx) /\ tx[i-1].program = "ed25519"
      /\ o.publicKeyIndex = EMBEDDED /\ o.messageIndex = i - 1 /\ i - 1 # EMBEDDED
  BY <1>1, TransactionsAssumption DEF IsTransaction, Inspect, EMBEDDED
<1>4. Ed25519Verifies(tx, i-1)
  BY <1>3 DEF Verifies
<1>5. PICK order \in ordered :
        Message(order) = Slice(data, EXECUTE_HEADER_LEN, VerifiedMessageLen(data))
  <2>1. (i - 1) + 1 = i
    OBVIOUS
  <2> QED
    BY <1>1, <1>2, <1>3, <1>4, <2>1 DEF Ed25519Verifies, MessageBound
<1>6. /\ IsExecutePayload(data) /\ IsDecimal(Timestamp(data)) /\ StartsObject(RawBody(data))
  BY DEF Accepts
<1>7. /\ Timestamp(data) \in Seq(Byte) /\ RawBody(data) \in Seq(Byte)
      /\ Message(order) = Timestamp(data) \o RawBody(data)
  BY <1>2, <1>5, <1>6, CutsItsMessage
<1>8. /\ order.timestamp \in Seq(Digits) /\ order.body \in Seq(Byte)
      /\ order.body # << >> /\ order.body[1] = Brace
      /\ order = [timestamp |-> order.timestamp, body |-> order.body]
  BY OrdersAssumption DEF IsOrder
<1>9. order.timestamp \in Seq(Byte) /\ \A k \in 1..Len(order.timestamp) : order.timestamp[k] \in Digits
  <2>1. Digits \subseteq Byte
    BY DEF Digits, Byte
  <2> QED
    BY <1>8, <2>1
<1>10. Len(order.body) >= 1 /\ order.body[1] \notin Digits
  <2>1. Len(order.body) # 0
    BY <1>8, EmptySeq
  <2> QED
    BY <1>8, <2>1 DEF Brace, Digits
<1>11. Len(RawBody(data)) >= 1 /\ RawBody(data)[1] \notin Digits
  BY <1>6, <1>7, ObjectStart
<1>12. \A k \in 1..Len(Timestamp(data)) : Timestamp(data)[k] \in Digits
  BY <1>6 DEF IsDecimal
<1>13. order.timestamp = Timestamp(data) /\ order.body = RawBody(data)
  BY <1>7, <1>8, <1>9, <1>10, <1>11, <1>12, OneCut DEF Message
<1> QED
  BY <1>8, <1>13 DEF OrderRead

(* The program runs only what Discord has signed, for any transactions.    *)
THEOREM OnlyOrdersRun == Spec => []ExecutedWasOrdered
<1> DEFINE Inv == ordered \subseteq Orders /\ ExecutedWasOrdered
<1>1. Init => Inv
  BY DEF Init, ExecutedWasOrdered
<1>2. Inv /\ [Next]_vars => Inv'
  <2> SUFFICES ASSUME Inv, [Next]_vars PROVE Inv'
    OBVIOUS
  <2>1. CASE \E o \in Orders : DiscordSigns(o)
    BY <2>1 DEF DiscordSigns, ExecutedWasOrdered
  <2>2. CASE Execute
    BY <2>2, AcceptedWasOrdered DEF Execute, Runs, ExecutedWasOrdered
  <2>3. CASE UNCHANGED vars
    BY <2>3 DEF vars, ExecutedWasOrdered
  <2> QED
    BY <2>1, <2>2, <2>3 DEF Next
<1>3. Inv => ExecutedWasOrdered
  OBVIOUS
<1> QED
  BY <1>1, <1>2, <1>3, PTL DEF Spec

-----------------------------------------------------------------------------
(* The relayer's transactions.                                             *)

LEMMA FiveBytes ==
  ASSUME NEW a \in Byte, NEW b \in Byte, NEW c \in Byte, NEW d \in Byte, NEW e \in Byte
  PROVE  LET s == <<a, b, c, d, e>>
         IN  /\ s \in Seq(Byte) /\ Len(s) = 5
             /\ s[2] = b /\ s[3] = c /\ s[4] = d /\ s[5] = e
OBVIOUS

LEMMA Joined ==
  ASSUME NEW s \in Seq(Byte), NEW u \in Seq(Byte)
  PROVE  /\ s \o u \in Seq(Byte) /\ Len(s \o u) = Len(s) + Len(u)
         /\ \A k \in 1..Len(s) : (s \o u)[k] = s[k]
         /\ \A k \in 1..Len(u) : (s \o u)[Len(s) + k] = u[k]
OBVIOUS

(* A length in two bytes, and back.                                        *)
LEMMA TwoBytes ==
  ASSUME NEW n \in Nat, n <= MAX_TRANSACTION_SIZE
  PROVE  \E x \in Byte, y \in Byte : x = LowByte(n) /\ y = HighByte(n) /\ x + 256 * y = n
<1>1. n % 256 \in 0..255 /\ n \div 256 \in 0..255 /\ (n % 256) + 256 * (n \div 256) = n
  BY DEF MAX_TRANSACTION_SIZE
<1> QED
  BY <1>1, Zenon DEF Byte, LowByte, HighByte

(* The program reads the lengths in the four bytes after the first.        *)
LEMMA LengthsRead ==
  ASSUME NEW data, NEW t0, NEW t1, NEW b0, NEW b1,
         data[2] = t0, data[3] = t1, data[4] = b0, data[5] = b1
  PROVE  /\ TimestampLen(data) = t0 + 256 * t1
         /\ VerifiedMessageLen(data) = (t0 + 256 * t1) + (b0 + 256 * b1)
<1>1. 1 + 1 = 2 /\ 1 + 2 = 3 /\ 3 + 1 = 4 /\ 3 + 2 = 5
  OBVIOUS
<1> QED
  BY <1>1, Zenon DEF ReadU16Le, TimestampLen, VerifiedMessageLen

(* A header of five bytes, and the message behind it.                      *)
LEMMA BehindHeader ==
  ASSUME NEW h \in Seq(Byte), Len(h) = 5, NEW m \in Seq(Byte)
  PROVE  /\ h \o m \in Seq(Byte) /\ Len(h \o m) = 5 + Len(m)
         /\ \A k \in 1..5 : (h \o m)[k] = h[k]
         /\ \A k \in 1..Len(m) : (h \o m)[5 + k] = m[k]
<1>1. PICK n : n = Len(h) /\ n = 5
  OBVIOUS
<1>2. /\ h \o m \in Seq(Byte) /\ Len(h \o m) = n + Len(m)
      /\ \A k \in 1..n : (h \o m)[k] = h[k]
      /\ \A k \in 1..Len(m) : (h \o m)[n + k] = m[k]
  <2>1. /\ h \o m \in Seq(Byte) /\ Len(h \o m) = Len(h) + Len(m)
        /\ \A k \in 1..Len(h) : (h \o m)[k] = h[k]
        /\ \A k \in 1..Len(m) : (h \o m)[Len(h) + k] = m[k]
    BY Joined
  <2> QED
    BY <1>1, <2>1, Zenon
<1> QED
  BY <1>1, <1>2, Zenon

(* The program reads back the lengths and the message the relayer wrote.   *)
LEMMA DataReadBack ==
  ASSUME NEW o \in Orders, NEW discriminator \in Discriminators, NEW data,
         data = EncodeInteractionInstruction(discriminator, o)
  PROVE  /\ data \in Seq(Byte) /\ Len(data) = 5 + Len(Message(o))
         /\ TimestampLen(data) = Len(o.timestamp)
         /\ VerifiedMessageLen(data) = Len(Message(o))
         /\ \A k \in 1..Len(Message(o)) : data[5 + k] = Message(o)[k]
<1>1. PICK t, b : t = Len(o.timestamp) /\ b = Len(o.body)
  OBVIOUS
<1>2. o.timestamp \in Seq(Byte) /\ o.body \in Seq(Byte) /\ t + b <= MAX_TRANSACTION_SIZE
  <2>1. Digits \subseteq Byte
    BY DEF Digits, Byte
  <2>2. o.timestamp \in Seq(Digits)
    BY OrdersAssumption DEF IsOrder
  <2>3. o.timestamp \in Seq(Byte)
    BY <2>1, <2>2
  <2> QED
    BY <1>1, <2>3, OrdersAssumption DEF IsOrder
<1>3. t \in Nat /\ b \in Nat /\ t <= MAX_TRANSACTION_SIZE /\ b <= MAX_TRANSACTION_SIZE
  <2>1. t \in Nat /\ b \in Nat
    BY <1>1, <1>2
  <2> QED
    BY <1>2, <2>1 DEF MAX_TRANSACTION_SIZE
<1>4. PICK t0 \in Byte, t1 \in Byte :
        t0 = LowByte(t) /\ t1 = HighByte(t) /\ t0 + 256 * t1 = t
  BY <1>3, TwoBytes, Zenon
<1>5. PICK b0 \in Byte, b1 \in Byte :
        b0 = LowByte(b) /\ b1 = HighByte(b) /\ b0 + 256 * b1 = b
  BY <1>3, TwoBytes, Zenon
<1>6. discriminator \in Byte
  BY DEF Byte, Discriminators, EXECUTE_DISCRIMINATOR, SYSTEM_TRANSFER_DISCRIMINATOR,
         TOKEN_TRANSFER_DISCRIMINATOR
<1>7. PICK h : h = <<discriminator, t0, t1, b0, b1>>
  OBVIOUS
<1>8. h \in Seq(Byte) /\ Len(h) = 5 /\ h[2] = t0 /\ h[3] = t1 /\ h[4] = b0 /\ h[5] = b1
  BY <1>6, <1>7, FiveBytes
<1>9. PICK m : m = Message(o)
  OBVIOUS
<1>10. m \in Seq(Byte) /\ Len(m) = t + b
  BY <1>1, <1>2, <1>9, Joined DEF Message
<1>11. data = h \o m
  BY <1>1, <1>4, <1>5, <1>7, <1>9, Zenon DEF EncodeInteractionInstruction
<1>12. /\ data \in Seq(Byte) /\ Len(data) = 5 + Len(m)
       /\ (\A k \in 1..5 : data[k] = h[k]) /\ \A k \in 1..Len(m) : data[5 + k] = m[k]
  BY <1>8, <1>10, <1>11, BehindHeader
<1>13. data[2] = t0 /\ data[3] = t1 /\ data[4] = b0 /\ data[5] = b1
  BY <1>8, <1>12
<1>14. TimestampLen(data) = t /\ VerifiedMessageLen(data) = t + b
  <2>1. /\ TimestampLen(data) = t0 + 256 * t1
        /\ VerifiedMessageLen(data) = (t0 + 256 * t1) + (b0 + 256 * b1)
    BY <1>13, LengthsRead
  <2>2. t0 + 256 * t1 = t /\ b0 + 256 * b1 = b
    BY <1>4, <1>5, Zenon
  <2> QED
    BY <2>1, <2>2, Zenon
<1> QED
  BY <1>1, <1>9, <1>10, <1>12, <1>14

(* And cuts it where Discord did.                                          *)
LEMMA OrderReadBack ==
  ASSUME NEW o \in Orders, NEW discriminator \in Discriminators, NEW data,
         data = EncodeInteractionInstruction(discriminator, o)
  PROVE  /\ Timestamp(data) = o.timestamp /\ RawBody(data) = o.body
         /\ Slice(data, EXECUTE_HEADER_LEN, VerifiedMessageLen(data)) = Message(o)
<1>1. PICK ts, body, m : ts = o.timestamp /\ body = o.body /\ m = Message(o)
  OBVIOUS
<1>2. ts \in Seq(Byte) /\ body \in Seq(Byte)
  <2>1. Digits \subseteq Byte
    BY DEF Digits, Byte
  <2>2. o.timestamp \in Seq(Digits) /\ o.body \in Seq(Byte)
    BY OrdersAssumption DEF IsOrder
  <2> QED
    BY <1>1, <2>1, <2>2
<1>3. PICK t, b : t = Len(ts) /\ b = Len(body) /\ t \in Nat /\ b \in Nat
  <2>1. Len(ts) \in Nat /\ Len(body) \in Nat
    BY <1>2
  <2> QED
    BY <2>1
<1>4. /\ m \in Seq(Byte) /\ Len(m) = t + b
      /\ (\A k \in 1..t : m[k] = ts[k]) /\ \A k \in 1..b : m[t + k] = body[k]
  <2>1. m = ts \o body
    BY <1>1, Zenon DEF Message
  <2> QED
    BY <1>2, <1>3, <2>1, Joined
<1>5. /\ data \in Seq(Byte) /\ Len(data) = 5 + Len(m)
      /\ TimestampLen(data) = t /\ VerifiedMessageLen(data) = Len(m)
      /\ \A k \in 1..Len(m) : data[5 + k] = m[k]
  BY <1>1, <1>3, DataReadBack, Zenon
<1>6. /\ Timestamp(data) = SubSeq(data, 6, 5 + t)
      /\ RawBody(data) = SubSeq(data, 6 + t, 5 + (t + b))
      /\ Slice(data, EXECUTE_HEADER_LEN, VerifiedMessageLen(data)) = SubSeq(data, 6, 5 + (t + b))
  BY <1>3, <1>4, <1>5 DEF Timestamp, RawBody, Slice, EXECUTE_HEADER_LEN
<1>7. SubSeq(data, 6, 5 + t) = ts
  <2>1. /\ SubSeq(data, 6, 5 + t) \in Seq(Byte) /\ Len(SubSeq(data, 6, 5 + t)) = t
        /\ \A k \in 1..t : SubSeq(data, 6, 5 + t)[k] = data[5 + k]
    BY <1>3, <1>4, <1>5
  <2>2. \A k \in 1..t : data[5 + k] = ts[k]
    BY <1>3, <1>4, <1>5
  <2> QED
    BY <1>2, <1>3, <2>1, <2>2, SeqEqual
<1>8. SubSeq(data, 6 + t, 5 + (t + b)) = body
  <2>1. /\ SubSeq(data, 6 + t, 5 + (t + b)) \in Seq(Byte)
        /\ Len(SubSeq(data, 6 + t, 5 + (t + b))) = b
        /\ \A k \in 1..b : SubSeq(data, 6 + t, 5 + (t + b))[k] = data[5 + (t + k)]
    BY <1>3, <1>4, <1>5
  <2>2. \A k \in 1..b : data[5 + (t + k)] = body[k]
    BY <1>3, <1>4, <1>5
  <2> QED
    BY <1>2, <1>3, <2>1, <2>2, SeqEqual
<1>9. SubSeq(data, 6, 5 + (t + b)) = m
  <2>1. /\ SubSeq(data, 6, 5 + (t + b)) \in Seq(Byte)
        /\ Len(SubSeq(data, 6, 5 + (t + b))) = t + b
        /\ \A k \in 1..(t + b) : SubSeq(data, 6, 5 + (t + b))[k] = data[5 + k]
    BY <1>3, <1>4, <1>5
  <2> QED
    BY <1>4, <1>5, <2>1, SeqEqual
<1> QED
  BY <1>1, <1>6, <1>7, <1>8, <1>9, Zenon

(* A transaction whose last two instructions are the signature check and   *)
(* the command of an order.                                                *)
LEMMA BuiltVerifies ==
  ASSUME ordered \subseteq Orders, NEW o \in ordered,
         NEW discriminator \in Discriminators, NEW data,
         data = EncodeInteractionInstruction(discriminator, o),
         NEW tx, NEW i \in 2..3, Len(tx) = i,
         tx[i] = [program |-> "wallet", data |-> data],
         tx[i-1] = BuildEd25519VerifyInstruction(i - 1, Len(data) - EXECUTE_HEADER_LEN),
         \A j \in 1..(i-2) : tx[j].program # "ed25519"
  PROVE  Verifies(tx) /\ Accepts(tx, i, 1, data)
<1>1. /\ data \in Seq(Byte) /\ Len(data) = 5 + Len(Message(o))
      /\ VerifiedMessageLen(data) = Len(Message(o))
      /\ Timestamp(data) = o.timestamp /\ RawBody(data) = o.body
      /\ Slice(data, EXECUTE_HEADER_LEN, VerifiedMessageLen(data)) = Message(o)
  BY DataReadBack, OrderReadBack
<1>2. PICK n : n = VerifiedMessageLen(data)
  OBVIOUS
<1>3. n \in Nat /\ Len(data) = 5 + n /\ Len(data) \in Nat /\ Len(data) - EXECUTE_HEADER_LEN = n
  <2>1. Len(data) \in Nat /\ Len(data) >= 5
    <3>1. Len(Message(o)) \in Nat
      <4>1. o \in Orders
        OBVIOUS
      <4>2. Digits \subseteq Byte
        BY DEF Digits, Byte
      <4>3. o.timestamp \in Seq(Digits) /\ o.body \in Seq(Byte)
        BY <4>1, OrdersAssumption DEF IsOrder
      <4>4. o.timestamp \in Seq(Byte)
        BY <4>2, <4>3
      <4>5. o.timestamp \o o.body \in Seq(Byte)
        BY <4>3, <4>4, Joined
      <4>6. Message(o) \in Seq(Byte)
        BY <4>5 DEF Message
      <4> QED
        BY <4>6
    <3> QED
      BY <1>1, <3>1
  <2> QED
    BY <1>1, <1>2, <2>1 DEF EXECUTE_HEADER_LEN
<1>4. /\ tx[i].program = "wallet" /\ tx[i].data = data
      /\ tx[i-1].program = "ed25519"
      /\ tx[i-1].offsets.numSignatures = 1 /\ tx[i-1].offsets.signatureIndex = EMBEDDED
      /\ tx[i-1].offsets.publicKeyIndex = EMBEDDED /\ tx[i-1].offsets.publicKey = DiscordKey
      /\ tx[i-1].offsets.messageIndex = i - 1
      /\ tx[i-1].offsets.messageOffset = EXECUTE_HEADER_LEN
      /\ tx[i-1].offsets.messageSize = n
  BY <1>3 DEF BuildEd25519VerifyInstruction
<1>5. i - 1 # EMBEDDED /\ (i - 1) + 1 = i /\ i > 1 /\ i \in 1..Len(tx)
  BY DEF EMBEDDED
<1>6. InBounds(data, EXECUTE_HEADER_LEN, n)
  BY <1>3 DEF InBounds, EXECUTE_HEADER_LEN
<1>7. Ed25519Verifies(tx, i - 1)
  BY <1>1, <1>2, <1>4, <1>5, <1>6, Zenon DEF Ed25519Verifies
<1>8. Verifies(tx)
  <2> SUFFICES ASSUME NEW j \in 1..Len(tx), tx[j].program = "ed25519"
               PROVE  Ed25519Verifies(tx, j)
    BY DEF Verifies
  <2>1. j # i
    BY <1>4
  <2>2. j = i - 1
    BY <2>1
  <2> QED
    BY <1>7, <2>2
<1>9. IsDecimal(o.timestamp)
  <2>1. o \in Orders
    OBVIOUS
  <2>2. /\ o.timestamp \in Seq(Digits) /\ o.timestamp # << >>
        /\ DecimalValue(o.timestamp) <= MaxI64
    BY <2>1, OrdersAssumption DEF IsOrder
  <2>3. \A k \in 1..Len(o.timestamp) : o.timestamp[k] \in Digits
    BY <2>2
  <2> QED
    BY <2>2, <2>3 DEF IsDecimal
<1>10. StartsObject(o.body)
  <2>1. o.body \in Seq(Byte) /\ o.body # << >> /\ o.body[1] = Brace
    BY OrdersAssumption DEF IsOrder
  <2>2. 1 \in 1..Len(o.body) /\ 1..(1-1) = {}
    BY <2>1, EmptySeq
  <2> QED
    BY <2>1, <2>2 DEF StartsObject
<1>11. IsExecutePayload(data)
  BY <1>2, <1>3 DEF IsExecutePayload, EXECUTE_HEADER_LEN
<1>12. VerifyEd25519(tx, i, 1, data)
  <2>1. Inspect(tx, i, data)
    BY <1>4, <1>5, <1>6, Zenon DEF Inspect
  <2>2. MessageBound(tx, i, data)
    BY <1>2, <1>4, Zenon DEF MessageBound
  <2> QED
    BY <1>4, <2>1, <2>2, Zenon DEF VerifyEd25519, AtTransactionLevel
<1> QED
  BY <1>1, <1>8, <1>9, <1>10, <1>11, <1>12, Zenon DEF Accepts

(* The relayer's transaction for whatever Discord has signed is one the    *)
(* program accepts, and reads as Discord wrote it.                         *)
THEOREM RelayedVerify == Spec => []RelayedCommandsVerify
<1>1. Init => ordered \subseteq Orders
  BY DEF Init
<1>2. ordered \subseteq Orders /\ [Next]_vars => (ordered \subseteq Orders)'
  BY DEF Next, DiscordSigns, Execute, vars
<1>3. ordered \subseteq Orders => RelayedCommandsVerify
  <2> SUFFICES ASSUME ordered \subseteq Orders, NEW o \in ordered,
                      NEW discriminator \in Discriminators, NEW n \in 0..1
               PROVE  LET setup == [k \in 1..n |-> [program |-> "other", data |-> <<1>>,
                                                   calledWith |-> << >>]]
                          tx == BuildDiscordCommandTransaction(discriminator, o, setup)
                      IN  /\ Verifies(tx)
                          /\ Accepts(tx, Len(tx), 1, tx[Len(tx)].data)
                          /\ ReadsAsOrdered(tx[Len(tx)].data, o)
    BY DEF RelayedCommandsVerify
  <2>0. PICK setup, data, tx :
          /\ setup = [k \in 1..n |-> [program |-> "other", data |-> <<1>>, calledWith |-> << >>]]
          /\ data = EncodeInteractionInstruction(discriminator, o)
          /\ tx = BuildDiscordCommandTransaction(discriminator, o, setup)
    OBVIOUS
  <2> DEFINE e == BuildEd25519VerifyInstruction(n + 1, Len(data) - EXECUTE_HEADER_LEN)
             c == [program |-> "wallet", data |-> data]
  <2>1. setup \in Seq({setup[k] : k \in 1..n}) /\ Len(setup) = n
    BY <2>0
  <2>2. tx = setup \o <<e, c>>
    BY <2>0, <2>1 DEF BuildDiscordCommandTransaction, CommandInstructionIndex
  <2> HIDE DEF e, c
  <2>3. /\ Len(tx) = n + 2 /\ tx[n+1] = e /\ tx[n+2] = c
        /\ \A j \in 1..n : tx[j] = setup[j]
    BY <2>1, <2>2
  <2>4. n + 2 \in 2..3 /\ (n + 2) - 1 = n + 1 /\ (n + 2) - 2 = n
    OBVIOUS
  <2>5. \A j \in 1..n : setup[j].program # "ed25519"
    BY <2>0
  <2>6. Verifies(tx) /\ Accepts(tx, n + 2, 1, data)
    <3>1. PICK i : i = n + 2
      OBVIOUS
    <3>2. /\ i \in 2..3 /\ i - 1 = n + 1 /\ i - 2 = n
          /\ Len(tx) = i /\ tx[i] = c /\ tx[i-1] = e
          /\ \A j \in 1..(i-2) : tx[j].program # "ed25519"
      BY <2>3, <2>4, <2>5, <3>1
    <3>3. tx[i] = [program |-> "wallet", data |-> data]
      BY <3>2 DEF c
    <3>4. tx[i-1] = BuildEd25519VerifyInstruction(i - 1, Len(data) - EXECUTE_HEADER_LEN)
      BY <3>2 DEF e
    <3>5. Verifies(tx) /\ Accepts(tx, i, 1, data)
      BY <2>0, <3>2, <3>3, <3>4, BuiltVerifies, Zenon
    <3> QED
      BY <3>1, <3>5
  <2>7. tx[n+2].data = data
    BY <2>3 DEF c
  <2> QED
    <3>1. ReadsAsOrdered(data, o)
      BY <2>0, OrderReadBack DEF ReadsAsOrdered
    <3> QED
      BY <2>0, <2>3, <2>6, <2>7, <3>1, Zenon
<1> QED
  BY <1>1, <1>2, <1>3, PTL DEF Spec

=============================================================================
