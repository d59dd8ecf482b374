-------------------------- MODULE ReplayParts_proofs --------------------------
(* Facts about what all of link-level retry is built from, for every value of   *)
(* the constants: the ring of sequence numbers, header words and low bits, what *)
(* one ingress event does to a receiver, and what each operation does to a      *)
(* transmitter whose buffer is the window and whose schedule runs to the tail.  *)
(*                                                                              *)
(* The second half is about the hardware's ring: what the registers and the     *)
(* memory mean, the window tests on registers, and what a command and an issue  *)
(* of one edge do to the meaning.                                               *)
EXTENDS ReplayTransmitter, ReplayReceiver, FiniteSetTheorems, TLAPS

\* Python's and TLA+'s % on a difference of two ring positions.
LEMMA RingModulo ==
  ASSUME NEW x \in Int, -SeqMax <= x, x < SeqMax
  PROVE  x % SeqMax = IF x >= 0 THEN x ELSE x + SeqMax
<1>1. SeqMax \in Nat \ {0}
  BY SeqMaxAssumption
<1>2. QED
  BY <1>1

\* The ring is one longer than two windows, which is what keeps the two
\* ends of a window apart.
LEMMA WindowIsHalf ==
  Window \in Nat /\ Window >= 1 /\ SeqMax = 2 * Window + 1
BY SeqMaxAssumption DEF Window

\* Distance without the modulus.
LEMMA DistanceInRing ==
  ASSUME NEW a \in SequenceNumbers, NEW b \in SequenceNumbers
  PROVE  Distance(a, b) = IF b >= a THEN b - a ELSE b - a + SeqMax
BY RingModulo, SeqMaxAssumption DEF Distance, SequenceNumbers

\* Going round the ring stays on it.
LEMMA NthInRing ==
  ASSUME NEW a \in SequenceNumbers, NEW i \in 0..SeqMax
  PROVE  Nth(a, i) \in SequenceNumbers
BY SeqMaxAssumption DEF Nth, SequenceNumbers

\* The successor of the i-th number is the next one.
LEMMA SuccessorOfNth ==
  ASSUME NEW a \in SequenceNumbers, NEW i \in 0..Window
  PROVE  Successor(Nth(a, i)) = Nth(a, i + 1)
BY WindowIsHalf, SeqMaxAssumption DEF Nth, Successor, SequenceNumbers

\* Going on from the i-th number.
LEMMA NthOfNth ==
  ASSUME NEW a \in SequenceNumbers, NEW i \in 0..Window, NEW j \in 0..Window,
         i + j <= Window
  PROVE  Nth(Nth(a, i), j) = Nth(a, i + j)
BY WindowIsHalf, SeqMaxAssumption DEF Nth, SequenceNumbers

\* Within a window every number occurs once.
LEMMA NthOneToOne ==
  ASSUME NEW a \in SequenceNumbers, NEW i \in 0..Window, NEW j \in 0..Window,
         Nth(a, i) = Nth(a, j)
  PROVE  i = j
BY WindowIsHalf, SeqMaxAssumption DEF Nth, SequenceNumbers

\* Distance undoes Nth.
LEMMA DistanceToNth ==
  ASSUME NEW a \in SequenceNumbers, NEW i \in 0..Window
  PROVE  Distance(a, Nth(a, i)) = i
BY DistanceInRing, NthInRing, WindowIsHalf, SeqMaxAssumption DEF Nth, SequenceNumbers

-------------------------------------------------------------------------------
(* Header words.                                                               *)

\* The high part of a two-part field.
LEMMA FieldSplit ==
  ASSUME NEW L \in Nat \ {0}, NEW M \in Nat \ {0}, NEW x \in 0..(M * L - 1)
  PROVE  x \div L \in 0..(M - 1)
OBVIOUS

\* A number put together from a quotient and a remainder comes apart again.
LEMMA DivModUnique ==
  ASSUME NEW L \in Nat \ {0}, NEW q \in Nat, NEW r \in 0..(L - 1)
  PROVE  (q * L + r) \div L = q /\ (q * L + r) % L = r
<1> DEFINE x == q * L + r
           d == x \div L
           m == x % L
<1>1. x \in Nat
  OBVIOUS
<1>2. x = L * d + m /\ m \in 0..(L - 1) /\ d \in Nat
  BY <1>1
<1>3. (q - d) * L = m - r
  BY <1>2
<1>4. q - d < 1
  BY <1>2, <1>3
<1>5. d - q < 1
  BY <1>2, <1>3
<1>6. QED
  BY <1>2, <1>3, <1>4, <1>5
\* The numbers the word layout is made of.
LEMMA FieldSizes ==
  /\ FieldMod \in Nat \ {0} /\ SeqMod \in Nat \ {0} /\ LowMod \in Nat \ {0}
  /\ ReservedMod \in Nat \ {0} /\ SeqMax \in Nat \ {0} /\ SeqMod = SeqMax + 1
  /\ FieldMod = SeqMod * LowMod
BY SeqMaxAssumption, LowModAssumption, ReservedModAssumption DEF FieldMod, SeqMod

\* The three parts of an encoded word are found again.
LEMMA WordParts ==
  ASSUME NEW op \in 0..7, NEW payload \in BOOLEAN, NEW field \in 0..(FieldMod - 1)
  PROVE  LET word == Word(op, payload, field)
         IN  /\ WordOp(word) = op
             /\ WordPayload(word) = payload
             /\ WordField(word) = field
<1> DEFINE F == FieldMod
           R == ReservedMod
           b == Bit(payload)
           word == Word(op, payload, field)
           lead == 2 * op + b
           upper == lead * F + field
<1>1. F \in Nat \ {0} /\ R \in Nat \ {0}
  BY FieldSizes
<1>2. b \in 0..1 /\ (b = 1 <=> payload)
  BY DEF Bit
<1>3. word = upper * R
  BY DEF Word
<1>4. lead \in Nat /\ field \in 0..(F - 1) /\ op \in Nat
  BY <1>2
<1> HIDE DEF F, R, b, word
<1>5. upper \in Nat
  BY <1>1, <1>4
<1>6. word \div R = upper
  BY <1>1, <1>3, <1>5, DivModUnique, 0 \in 0..(R - 1)
<1>7. upper \div F = lead /\ upper % F = field
  BY <1>1, <1>4, DivModUnique
<1>8. WordField(word) = field
  BY <1>6, <1>7 DEF WordField, R, F
<1>9. word = lead * (F * R) + field * R /\ field * R \in 0..(F * R - 1) /\ F * R \in Nat \ {0}
  <2>1. word = lead * (F * R) + field * R
    BY <1>1, <1>3, <1>4
  <2>2. F * R \in Nat \ {0}
    BY <1>1
  <2>3. field * R \in Nat /\ (F - 1 - field) * R \in Nat
    BY <1>1, <1>4
  <2>4. field * R <= (F - 1) * R
    BY <2>3, <1>1, <1>4
  <2>5. (F - 1) * R = F * R - R
    BY <1>1
  <2>6. QED
    BY <2>1, <2>2, <2>3, <2>4, <2>5, <1>1
<1>10. word \div (F * R) = lead
  BY <1>4, <1>9, DivModUnique
<1>11. lead % 2 = b
  BY <1>2, <1>4
<1>12. WordPayload(word) = payload
  BY <1>2, <1>10, <1>11 DEF WordPayload, F, R
<1>13. word = op * (2 * F * R) + (b * (F * R) + field * R)
  BY <1>1, <1>2, <1>4, <1>9
<1>14. b * (F * R) + field * R \in 0..(2 * F * R - 1) /\ 2 * F * R \in Nat \ {0}
  <2> DEFINE Q == F * R
             z == field * R
  <2>1. Q \in Nat \ {0} /\ z \in 0..(Q - 1)
    BY <1>9
  <2>2. 2 * F * R = 2 * Q
    BY <1>1
  <2> HIDE DEF Q, z
  <2>3. b * Q + z \in 0..(2 * Q - 1)
    BY <1>2, <2>1
  <2>4. QED
    BY <2>1, <2>2, <2>3 DEF Q, z
<1>15. word \div (2 * F * R) = op
  BY <1>4, <1>13, <1>14, DivModUnique
<1>16. QED
  BY <1>8, <1>12, <1>15 DEF WordOp, F, R, word

\* What encode_explicit() writes, decode_header() reads, without an error.
THEOREM ExplicitRoundTrip ==
  ASSUME NEW sequence \in SequenceNumbers, NEW payload \in BOOLEAN,
         NEW replay \in BOOLEAN, replay => payload
  PROVE  DecodeHeader(EncodeExplicit(sequence, payload, replay))
           = Header(IF replay THEN OpReplay ELSE OpExplicit, payload,
                    sequence, NoField, NoField, NoError)
<1> DEFINE op == IF replay THEN OpReplay ELSE OpExplicit
           word == EncodeExplicit(sequence, payload, replay)
<1>1. op \in 0..7 /\ op \in {0, 1} /\ (op = OpReplay => payload)
  BY DEF OpReplay, OpExplicit
<1>2. sequence \in 0..(SeqMod - 1) /\ sequence # 0
  BY FieldSizes DEF SequenceNumbers
<1>3. sequence \in 0..(FieldMod - 1)
  BY <1>2, FieldSizes
<1>4. WordOp(word) = op /\ WordPayload(word) = payload /\ WordField(word) = sequence
  BY <1>1, <1>3, WordParts DEF EncodeExplicit
<1>5. sequence % SeqMod = sequence
  BY <1>2, FieldSizes
<1> HIDE DEF word
<1>6. CASE replay
  <2>1. op = 1 /\ WordOp(word) = 1 /\ WordField(word) = sequence
    BY <1>4, <1>6 DEF OpReplay
  <2>2. WordPayload(word)
    BY <1>4, <1>6
  <2>3. DecodeHeader(word) = Header(op, WordPayload(word), sequence, NoField, NoField, NoError)
    BY <1>2, <1>5, <2>1, <2>2
    DEF DecodeHeader, OpReplay, OpExplicit, CommandOps, OpAck, OpRequest, Header, WordPayload
  <2>4. QED
    BY <1>4, <2>3 DEF word
<1>7. CASE ~replay
  <2>1. op = 0 /\ WordOp(word) = 0
    BY <1>4, <1>7 DEF OpExplicit
  <2>2. DecodeHeader(word) = Header(op, WordPayload(word), sequence, NoField, NoField, NoError)
    BY <1>2, <1>4, <1>5, <2>1 DEF DecodeHeader, OpReplay, OpExplicit, CommandOps, OpAck, OpRequest
  <2>3. QED
    BY <1>4, <2>2 DEF word
<1>8. QED
  BY <1>6, <1>7

\* What encode_command() writes, decode_header() reads, without an error.
THEOREM CommandRoundTrip ==
  ASSUME NEW low \in 0..(LowMod - 1), NEW target \in SequenceNumbers,
         NEW payload \in BOOLEAN, NEW request \in BOOLEAN
  PROVE  DecodeHeader(EncodeCommand(low, target, payload, request))
           = Header(IF request THEN OpRequest ELSE OpAck, payload,
                    NoField, low, target, NoError)
<1> DEFINE op == IF request THEN OpRequest ELSE OpAck
           word == EncodeCommand(low, target, payload, request)
           field == target * LowMod + low
<1>1. op \in 0..7 /\ op \in CommandOps /\ op \in {2, 3}
  BY DEF OpRequest, OpAck, CommandOps
<1>2. target \in 0..(SeqMod - 1) /\ target # 0
  BY FieldSizes DEF SequenceNumbers
<1>3. field \in 0..(FieldMod - 1)
  <2>1. target * LowMod <= (SeqMod - 1) * LowMod /\ target * LowMod \in Nat
    BY <1>2, FieldSizes
  <2>2. (SeqMod - 1) * LowMod = FieldMod - LowMod
    BY FieldSizes
  <2>3. QED
    BY <2>1, <2>2, FieldSizes
<1>4. WordOp(word) = op /\ WordPayload(word) = payload /\ WordField(word) = field
  BY <1>1, <1>3, WordParts DEF EncodeCommand
<1>5. field \div LowMod = target /\ field % LowMod = low
  BY <1>2, DivModUnique, FieldSizes
<1> HIDE DEF word, field, op
<1>6. DecodeHeader(word) = Header(op, WordPayload(word), NoField, low, target, NoError)
  BY <1>1, <1>2, <1>4, <1>5
  DEF DecodeHeader, OpReplay, OpExplicit, OpRequest, OpAck, CommandOps
<1>7. QED
  BY <1>4, <1>6 DEF word, op
-------------------------------------------------------------------------------
(* Low bits.                                                                   *)

\* % on a difference of two values of the low bits.
LEMMA LowModulo ==
  ASSUME NEW x \in Int, -LowMod < x, x < LowMod
  PROVE  x % LowMod = IF x >= 0 THEN x ELSE x + LowMod
<1>1. LowMod \in Nat \ {0}
  BY LowModAssumption
<1>2. QED
  BY <1>1

\* The low bits of a and b differ by n if a and b differ by n and whole turns.
LEMMA LowDifference ==
  ASSUME NEW a \in Nat, NEW b \in Nat, NEW n \in 0..(LowMod - 1), NEW c \in Int,
         a = b + n + LowMod * c
  PROVE  ((a % LowMod) - (b % LowMod)) % LowMod = n
<1> DEFINE M == LowMod
           qa == a \div M
           ra == a % M
           qb == b \div M
           rb == b % M
           t == c - qa + qb
<1>1. M \in Nat \ {0}
  BY LowModAssumption
<1>2. a = M * qa + ra /\ ra \in 0..(M - 1) /\ qa \in Int
  BY <1>1
<1>3. b = M * qb + rb /\ rb \in 0..(M - 1) /\ qb \in Int
  BY <1>1
<1> HIDE DEF M, qa, ra, qb, rb
<1>4. ra - rb - n = M * t /\ t \in Int
  <2>1. M * t = M * c - M * qa + M * qb
    BY <1>1, <1>2, <1>3
  <2>2. QED
    BY <1>1, <1>2, <1>3, <2>1 DEF M
<1> HIDE DEF t
<1>5. -2 * M < M * t /\ M * t < M
  BY <1>1, <1>2, <1>3, <1>4 DEF M
<1>6. t \in {-1, 0}
  <2>1. t < 1
    BY <1>1, <1>4, <1>5
  <2>2. t > -2
    BY <1>1, <1>4, <1>5
  <2>3. QED
    BY <1>4, <2>1, <2>2
<1>7. ra - rb = n \/ ra - rb = n - M
  BY <1>1, <1>2, <1>3, <1>4, <1>6
<1>8. (ra - rb) % M = n
  BY <1>1, <1>2, <1>3, <1>7, LowModulo DEF M
<1>9. QED
  BY <1>8 DEF M, ra, rb

\* A number in terms of its quotient and remainder.
LEMMA DivMod ==
  ASSUME NEW a \in Nat, NEW L \in Nat \ {0}
  PROVE  /\ a = L * (a \div L) + (a % L)
         /\ a \div L \in Nat /\ a % L \in 0..(L - 1)
<1> DEFINE d == a \div L
           r == a % L
<1>1. a = L * d + r /\ r \in 0..(L - 1) /\ d \in Int
  OBVIOUS
<1> HIDE DEF d, r
<1>2. d > -1
  BY <1>1
<1>3. d \in Nat
  BY <1>1, <1>2
<1>4. QED
  BY <1>1, <1>3 DEF d, r

\* The ring and zero together are whole turns of the low bits.
LEMMA WholeTurns ==
  \E k \in Nat : SeqMax + 1 = LowMod * k
<1>1. SeqMax + 1 \in Nat /\ LowMod \in Nat \ {0} /\ (SeqMax + 1) % LowMod = 0
  BY SeqMaxAssumption, LowModAssumption
<1> DEFINE k == (SeqMax + 1) \div LowMod
           r == (SeqMax + 1) % LowMod
<1>2. SeqMax + 1 = LowMod * k + r /\ k \in Nat /\ r = 0
  BY <1>1, DivMod
<1> HIDE DEF k, r
<1>3. SeqMax + 1 = LowMod * k
  BY <1>1, <1>2
<1>4. QED
  BY <1>2, <1>3

\* What the low bits of a command are completed to.
Completed(last, low, payload) ==
  LET delta == (low - (last % LowMod)) % LowMod
  IN  (last + (IF payload /\ delta = 0 THEN LowMod ELSE delta)) % SeqMod

\* The completion finds a payload up to LowMod - 1 numbers ahead, and a NOP up to
\* LowMod - 2 numbers ahead.
LEMMA CompletionExact ==
  ASSUME NEW last \in SequenceNumbers, NEW payload \in BOOLEAN,
         NEW j \in 0..(LowMod - 1), j <= Window,
         payload => j >= 1, ~payload => j < LowMod - 1
  PROVE  Completed(last, Nth(last, j) % LowMod, payload) = Nth(last, j)
<1> DEFINE seq == Nth(last, j)
           delta == ((seq % LowMod) - (last % LowMod)) % LowMod
<1>1. LowMod \in Nat /\ LowMod >= 2 /\ SeqMax \in Nat /\ SeqMod = SeqMax + 1
  BY FieldSizes, LowModAssumption
<1>2. last \in 1..SeqMax /\ seq \in 1..SeqMax /\ last \in Nat /\ seq \in Nat
  <2>1. j \in 0..SeqMax
    BY WindowIsHalf
  <2>2. QED
    BY <1>1, <2>1, NthInRing DEF SequenceNumbers
<1>3. PICK k \in Nat : SeqMax + 1 = LowMod * k
  BY WholeTurns
<1>4. LowMod <= SeqMax + 1
  <2>1. k >= 1
    BY <1>1, <1>3
  <2>2. QED
    BY <1>1, <1>3, <2>1
<1>5. CASE last + j <= SeqMax
  <2>1. seq = last + j
    BY <1>1, <1>2, <1>5 DEF Nth
  <2> HIDE DEF seq
  <2>2. seq = last + j + LowMod * 0
    BY <1>1, <2>1
  <2>3. delta = j
    <3>1. 0 \in Int
      OBVIOUS
    <3>2. QED
      BY <1>2, <2>2, <3>1, LowDifference
  <2>4. (last + j) % SeqMod = last + j
    BY <1>1, <1>2, <1>5
  <2>5. payload => delta # 0
    BY <2>3
  <2> HIDE DEF delta
  <2>6. (last + (IF payload /\ delta = 0 THEN LowMod ELSE delta)) % SeqMod = seq
    BY <2>1, <2>3, <2>4, <2>5
  <2>7. QED
    BY <2>6 DEF Completed, delta, seq
<1>6. CASE last + j > SeqMax
  <2>1. seq = last + j - SeqMax
    BY <1>1, <1>2, <1>6 DEF Nth
  <2> HIDE DEF seq
  <2>2. (last + j + 1) % SeqMod = seq
    <3>1. last + j + 1 = 1 * SeqMod + seq /\ seq \in 0..(SeqMod - 1) /\ SeqMod \in Nat \ {0}
      BY <1>1, <1>2, <2>1 DEF SequenceNumbers
    <3>2. QED
      BY <3>1, DivModUnique
  <2>3. CASE j + 1 < LowMod
    <3>1. seq = last + (j + 1) + LowMod * (0 - k)
      <4>1. LowMod * (0 - k) = 0 - LowMod * k
        BY <1>1
      <4>2. QED
        BY <1>1, <1>2, <1>3, <2>1, <4>1
    <3>2. j + 1 \in 0..(LowMod - 1) /\ 0 - k \in Int
      BY <1>1, <2>3
    <3>3. delta = j + 1
      BY <1>2, <3>1, <3>2, LowDifference
    <3> HIDE DEF delta
    <3>4. (last + (IF payload /\ delta = 0 THEN LowMod ELSE delta)) % SeqMod = seq
      BY <1>1, <1>2, <2>2, <3>3
    <3>5. QED
      BY <3>4 DEF Completed, delta, seq
  <2>4. CASE j + 1 = LowMod
    <3>1. seq = last + 0 + LowMod * (1 - k)
      <4>1. LowMod * (1 - k) = LowMod - LowMod * k
        BY <1>1
      <4>2. QED
        BY <1>1, <1>2, <1>3, <2>1, <2>4, <4>1
    <3>2. 0 \in 0..(LowMod - 1) /\ 1 - k \in Int
      BY <1>1
    <3>3. delta = 0
      BY <1>2, <3>1, <3>2, LowDifference
    <3>4. payload
      BY <1>1, <2>4
    <3> HIDE DEF delta
    <3>5. last + LowMod = last + j + 1
      BY <1>1, <1>2, <2>4
    <3>6. (last + (IF payload /\ delta = 0 THEN LowMod ELSE delta)) % SeqMod = seq
      BY <2>2, <3>3, <3>4, <3>5
    <3>7. QED
      BY <3>6 DEF Completed, delta, seq
  <2>5. QED
    BY <1>1, <2>3, <2>4
<1>7. QED
  BY <1>1, <1>2, <1>5, <1>6

\* Going to b from a in as many successors as lie between them.
LEMMA NthOfDistance ==
  ASSUME NEW a \in SequenceNumbers, NEW b \in SequenceNumbers
  PROVE  Distance(a, b) \in 0..(SeqMax - 1) /\ b = Nth(a, Distance(a, b))
BY DistanceInRing, SeqMaxAssumption DEF Nth, SequenceNumbers
-------------------------------------------------------------------------------
(* A receiver.                                                                 *)

\* After an accepted Flit the receiver stands at its number and doubts nothing.
LEMMA AcceptedState ==
  ASSUME NEW sequence \in SequenceNumbers
  PROVE  RxReset \in RxStates /\ [RxReset EXCEPT !.last_sequence = sequence] \in RxStates
<1>1. 0 \in 0..BadLimit /\ 0 \in 0..UnexpectedMax /\ SeqMax \in SequenceNumbers
  BY SeqMaxAssumption, BadLimitAssumption, ReplayLimitAssumption DEF SequenceNumbers
<1>2. RxReset \in RxStates
  BY <1>1 DEF RxReset, RxStates
<1>3. QED
  BY <1>2 DEF RxStates

\* Counting an unexpected Flit during a wait leaves everything else alone.
LEMMA UnexpectedKeeps ==
  ASSUME NEW r \in RxStates
  PROVE  LET s == UnexpectedInReplay(r).state
         IN  /\ s \in RxStates
             /\ s.last_sequence = r.last_sequence
             /\ s.replay = r.replay
             /\ s.ambiguous = r.ambiguous
             /\ s.bad_crc_count = r.bad_crc_count
<1> DEFINE count == Min2(UnexpectedMax, r.unexpected_count + 1)
           n == IF count >= ReplayLimit THEN 0 ELSE count
<1>1. n \in 0..UnexpectedMax
  BY ReplayLimitAssumption DEF RxStates, Min2
<1>2. UnexpectedInReplay(r).state = [r EXCEPT !.unexpected_count = n]
  BY DEF UnexpectedInReplay, Outcome
<1> HIDE DEF n
<1>3. QED
  BY <1>1, <1>2 DEF RxStates

\* What a header says that was sent with this payload bit under this number.
Says(h, payload, sequence) ==
  /\ h.error = NoError /\ h.payload = payload
  /\ \/ /\ h.op \in {OpExplicit, OpReplay}
        /\ h.sequence = sequence
     \/ /\ h.op \in CommandOps
        /\ h.sequence = NoField /\ h.sequence_low = sequence % LowMod
        /\ h.ack_request \in SequenceNumbers

EncodedExplicit(sequence, payload, replay) ==
  DecodeHeader(EncodeExplicit(sequence, payload, replay))
EncodedCommand(sequence, target, payload, request) ==
  DecodeHeader(EncodeCommand(sequence % LowMod, target, payload, request))

\* An explicit header says its number.
LEMMA ExplicitSays ==
  ASSUME NEW sequence \in SequenceNumbers, NEW payload \in BOOLEAN,
         NEW replay \in BOOLEAN, replay => payload
  PROVE  /\ Says(EncodedExplicit(sequence, payload, replay), payload, sequence)
         /\ EncodedExplicit(sequence, payload, replay).op \notin CommandOps
<1> DEFINE op == IF replay THEN OpReplay ELSE OpExplicit
           h == EncodedExplicit(sequence, payload, replay)
<1>1. h = Header(op, payload, sequence, NoField, NoField, NoError)
  BY ExplicitRoundTrip DEF EncodedExplicit
<1>2. op \in {OpExplicit, OpReplay}
  OBVIOUS
<1> HIDE DEF op, h
<1>3. /\ h.op = op /\ h.payload = payload /\ h.sequence = sequence /\ h.error = NoError
  BY <1>1 DEF Header
<1>4. Says(h, payload, sequence)
  BY <1>2, <1>3 DEF Says
<1>5. h.op \notin CommandOps
  BY <1>2, <1>3 DEF CommandOps, OpExplicit, OpReplay, OpAck, OpRequest
<1>6. QED
  BY <1>4, <1>5 DEF h

\* A command says its number by its low bits.
LEMMA CommandSays ==
  ASSUME NEW sequence \in SequenceNumbers, NEW target \in SequenceNumbers,
         NEW payload \in BOOLEAN, NEW request \in BOOLEAN,
         NEW h, h = EncodedCommand(sequence, target, payload, request)
  PROVE  /\ Says(h, payload, sequence)
         /\ h.op = IF request THEN OpRequest ELSE OpAck
         /\ h.ack_request = target
<1> DEFINE op == IF request THEN OpRequest ELSE OpAck
           low == sequence % LowMod
<1>1. low \in 0..(LowMod - 1)
  BY FieldSizes DEF SequenceNumbers
<1>2. h = Header(op, payload, NoField, low, target, NoError)
  BY <1>1, CommandRoundTrip DEF EncodedCommand
<1>3. op \in CommandOps
  BY DEF CommandOps
<1> HIDE DEF op, low
<1>4. /\ h.op = op /\ h.payload = payload /\ h.sequence = NoField
      /\ h.sequence_low = low /\ h.ack_request = target /\ h.error = NoError
  BY <1>2 DEF Header
<1>5. Says(h, payload, sequence)
  BY <1>3, <1>4 DEF Says, low
<1>6. QED
  BY <1>4, <1>5 DEF op

\* While the receiver trusts low bits, a Flit of a stream is at most one number
\* further than the bad Flits it counted.
Trackable(r, payload, j) ==
  /\ j \in 0..Window
  /\ payload => j >= 1
  /\ ~r.ambiguous /\ ~r.replay =>
       /\ j <= IF payload THEN r.bad_crc_count + 1 ELSE r.bad_crc_count
       /\ r.bad_crc_count < BadLimit

\* A trusted Flit is given the number it was sent under.
LEMMA TrustedMeansExact ==
  ASSUME NEW r \in RxStates, NEW payload \in BOOLEAN, NEW j, Trackable(r, payload, j),
         NEW sequence, sequence = Nth(r.last_sequence, j),
         NEW h, Says(h, payload, sequence), Trusted(r, h)
  PROVE  FullSequence(r, h) = sequence
<1>1. r.last_sequence \in SequenceNumbers /\ r.bad_crc_count \in Nat /\ j \in 0..Window
  BY DEF RxStates, Trackable
<1>2. sequence \in SequenceNumbers
  BY <1>1, NthInRing, WindowIsHalf
<1>3. sequence # NoField
  BY <1>2 DEF SequenceNumbers, NoField
<1>4. CASE h.sequence = sequence
  BY <1>3, <1>4 DEF FullSequence
<1>5. CASE h.sequence = NoField /\ h.sequence_low = sequence % LowMod
  <2>1. /\ j <= IF payload THEN r.bad_crc_count + 1 ELSE r.bad_crc_count
        /\ r.bad_crc_count < BadLimit
    BY <1>5 DEF Trusted, Trackable
  <2>2. j \in 0..(LowMod - 1) /\ (~payload => j < LowMod - 1) /\ (payload => j >= 1)
    BY <1>1, <2>1, BadLimitAssumption, LowModAssumption DEF Trackable
  <2>3. Completed(r.last_sequence, sequence % LowMod, payload) = sequence
    BY <1>1, <2>2, WindowIsHalf, CompletionExact
  <2>4. FullSequence(r, h) = Completed(r.last_sequence, sequence % LowMod, h.payload)
    BY <1>5, Zenon DEF FullSequence, Completed
  <2>5. QED
    BY <2>3, <2>4 DEF Says
<1>6. QED
  BY <1>4, <1>5 DEF Says

\* A trusted Flit is expected exactly if it is the next payload or a NOP without
\* a gap.
LEMMA ExpectedMeansNext ==
  ASSUME NEW r \in RxStates, NEW payload \in BOOLEAN, NEW j, Trackable(r, payload, j),
         NEW h, Says(h, payload, Nth(r.last_sequence, j)), Trusted(r, h)
  PROVE  Expected(r, h) <=> j = Bit(payload)
<1> DEFINE b == r.last_sequence
<1>1. b \in SequenceNumbers /\ j \in 0..Window /\ h.payload = payload
  BY DEF RxStates, Trackable, Says
<1>2. FullSequence(r, h) = Nth(b, j)
  BY TrustedMeansExact
<1>3. b = Nth(b, 0)
  BY <1>1, SeqMaxAssumption DEF Nth, SequenceNumbers
<1>4. Successor(b) = Nth(b, 1)
  BY <1>1, <1>3, WindowIsHalf, SuccessorOfNth
<1>5. Expected(r, h) <=> Nth(b, j) = Nth(b, Bit(payload))
  BY <1>1, <1>2, <1>3, <1>4 DEF Expected, Bit
<1>6. Bit(payload) \in 0..Window
  BY WindowIsHalf DEF Bit
<1> HIDE DEF b
<1>7. QED
  BY <1>1, <1>5, <1>6, NthOneToOne

\* The outcomes of an ingress event.  Taken: the Flit is accepted.
Taken(r, payload, j, out) ==
  /\ out.state = [RxReset EXCEPT !.last_sequence = Nth(r.last_sequence, j)]
  /\ j = Bit(payload)
  /\ out.deliver = payload /\ ~out.request

\* Waiting: a wait for replay goes on, and every ReplayLimit-th event asks again.
Waiting(r, out) ==
  /\ r.replay /\ out.state.replay
  /\ out.state.last_sequence = r.last_sequence
  /\ ~out.deliver
  /\ out.request = (Min2(UnexpectedMax, r.unexpected_count + 1) >= ReplayLimit)
  /\ out.state.unexpected_count = IF out.request THEN 0
                                  ELSE Min2(UnexpectedMax, r.unexpected_count + 1)

\* Missed: a gap shows, and a wait begins.
Missed(r, j, out) ==
  /\ ~r.replay /\ out.state.replay
  /\ out.state.last_sequence = r.last_sequence
  /\ out.state.unexpected_count = 0
  /\ ~out.deliver /\ out.request
  /\ j >= 1

\* Passed: no wait, nothing accepted; without doubt the Flit was counted as bad.
Passed(r, out) ==
  /\ ~r.replay /\ ~out.state.replay
  /\ out.state.last_sequence = r.last_sequence
  /\ ~out.deliver /\ ~out.request
  /\ ~out.state.ambiguous =>
       /\ ~r.ambiguous
       /\ out.state.bad_crc_count = r.bad_crc_count + 1
       /\ out.state.bad_crc_count < BadLimit

\* Counting an unexpected Flit goes on waiting.
LEMMA UnexpectedOutcome ==
  ASSUME NEW r \in RxStates, NEW c \in RxStates, r.replay,
         c.replay = r.replay, c.last_sequence = r.last_sequence,
         c.unexpected_count = r.unexpected_count
  PROVE  Waiting(r, UnexpectedInReplay(c))
<1> DEFINE out == UnexpectedInReplay(c)
           count == Min2(UnexpectedMax, c.unexpected_count + 1)
           n == IF count >= ReplayLimit THEN 0 ELSE count
<1>1. /\ out.state = [c EXCEPT !.unexpected_count = n]
      /\ out.deliver = FALSE /\ out.request = (count >= ReplayLimit)
  BY DEF UnexpectedInReplay, Outcome
<1>2. (count >= ReplayLimit) \in BOOLEAN
  OBVIOUS
<1> HIDE DEF out
<1>3. /\ out.state.replay = c.replay /\ out.state.last_sequence = c.last_sequence
      /\ out.state.unexpected_count = n
  BY <1>1 DEF RxStates
<1>4. QED
  BY <1>1, <1>2, <1>3 DEF Waiting, out

\* A discard goes on waiting or passes.
LEMMA DiscardOutcome ==
  ASSUME NEW r \in RxStates, NEW out, out = RxDiscard(r)
  PROVE  out.state \in RxStates /\ (Waiting(r, out) \/ Passed(r, out))
<1> DEFINE bad == Min2(BadLimit, r.bad_crc_count + 1)
           doubt == r.ambiguous \/ bad >= BadLimit
           c == [r EXCEPT !.bad_crc_count = bad, !.ambiguous = doubt]
<1>1. /\ bad \in 0..BadLimit
      /\ bad < BadLimit => bad = r.bad_crc_count + 1
  BY BadLimitAssumption DEF RxStates, Min2
<1>2. out = IF r.replay THEN UnexpectedInReplay(c) ELSE Ignored(c)
  BY DEF RxDiscard
<1> HIDE DEF bad
<1>3. doubt \in BOOLEAN /\ (~doubt => ~r.ambiguous /\ bad < BadLimit)
  BY <1>1, BadLimitAssumption
<1> HIDE DEF doubt
<1>4. /\ c \in RxStates
      /\ c.last_sequence = r.last_sequence
      /\ c.replay = r.replay
      /\ c.unexpected_count = r.unexpected_count
      /\ c.bad_crc_count = bad
      /\ c.ambiguous = doubt
  BY <1>1, <1>3 DEF RxStates
<1> HIDE DEF c
<1>5. CASE r.replay
  <2>1. out.state \in RxStates
    BY <1>2, <1>4, <1>5, UnexpectedKeeps
  <2>2. Waiting(r, out)
    BY <1>2, <1>4, <1>5, UnexpectedOutcome
  <2>3. QED
    BY <2>1, <2>2
<1>6. CASE ~r.replay
  <2>1. out.state = c /\ ~out.deliver /\ ~out.request
    BY <1>2, <1>6 DEF Ignored, Outcome
  <2>2. QED
    BY <1>1, <1>3, <1>4, <1>6, <2>1 DEF Passed
<1>7. QED
  BY <1>5, <1>6

\* Reception of a Flit that was sent under the number j after the receiver's own.
LEMMA ReceiveOutcome ==
  ASSUME NEW r \in RxStates, NEW payload \in BOOLEAN, NEW j, Trackable(r, payload, j),
         NEW h, Says(h, payload, Nth(r.last_sequence, j)),
         NEW crc_ok \in BOOLEAN, NEW out, out = RxReceive(r, h, crc_ok)
  PROVE  /\ out.state \in RxStates
         /\ \/ Waiting(r, out) \/ Missed(r, j, out) \/ Passed(r, out)
            \/ Taken(r, payload, j, out) /\ (r.replay => h.op \notin CommandOps)
<1>1. r.last_sequence \in SequenceNumbers /\ r.replay \in BOOLEAN /\ r.ambiguous \in BOOLEAN
  BY DEF RxStates
<1>2. h.error = NoError /\ h.payload = payload /\ j \in 0..Window
  BY DEF Says, Trackable
<1>3. CASE ~crc_ok
  <2>1. out = RxDiscard(r)
    BY <1>3 DEF RxReceive
  <2>2. QED
    BY <2>1, DiscardOutcome
<1>4. CASE crc_ok /\ Trusted(r, h) /\ Expected(r, h)
  <2>1. FullSequence(r, h) = Nth(r.last_sequence, j)
    BY <1>4, TrustedMeansExact
  <2>2. out = Accept(r, h)
    BY <1>2, <1>4 DEF RxReceive, NoError
  <2>3. /\ out.state = [RxReset EXCEPT !.last_sequence = Nth(r.last_sequence, j)]
        /\ out.deliver = payload /\ ~out.request
    BY <1>2, <2>1, <2>2 DEF Accept, Outcome
  <2>4. j = Bit(payload)
    BY <1>4, ExpectedMeansNext
  <2>5. out.state \in RxStates
    BY <1>1, <1>2, <2>3, AcceptedState, NthInRing, WindowIsHalf
  <2>6. r.replay => h.op \notin CommandOps
    BY <1>4 DEF Trusted, Says, CommandOps, OpAck, OpRequest, OpExplicit, OpReplay
  <2>7. QED
    BY <2>3, <2>4, <2>5, <2>6 DEF Taken
<1>5. CASE crc_ok /\ ~(Trusted(r, h) /\ Expected(r, h)) /\ r.replay
  <2>1. out = UnexpectedInReplay(r)
    <3>1. CASE Trusted(r, h)
      BY <1>2, <1>5, <3>1 DEF RxReceive, NoError, Unexpected
    <3>2. CASE ~Trusted(r, h)
      BY <1>2, <1>5, <3>2 DEF RxReceive, NoError
    <3>3. QED
      BY <3>1, <3>2
  <2>2. QED
    BY <1>5, <2>1, UnexpectedKeeps, UnexpectedOutcome
<1>6. CASE crc_ok /\ Trusted(r, h) /\ ~Expected(r, h) /\ ~r.replay
  <2>1. out = Outcome([r EXCEPT !.replay = TRUE, !.unexpected_count = 0], FALSE, FALSE, TRUE)
    BY <1>2, <1>6 DEF RxReceive, Unexpected, NoError
  <2>2. j # Bit(payload)
    BY <1>6, ExpectedMeansNext
  <2>3. j >= 1
    BY <1>2, <2>2 DEF Trackable, Bit
  <2>4. 0 \in 0..UnexpectedMax
    BY ReplayLimitAssumption
  <2> DEFINE s == [r EXCEPT !.replay = TRUE, !.unexpected_count = 0]
  <2>5. out.state = s /\ out.deliver = FALSE /\ out.request = TRUE
    BY <2>1 DEF Outcome
  <2>6. /\ s \in RxStates /\ s.replay /\ s.last_sequence = r.last_sequence
        /\ s.unexpected_count = 0
    BY <2>4 DEF RxStates
  <2>7. out.state \in RxStates /\ Missed(r, j, out)
    BY <1>6, <2>3, <2>5, <2>6 DEF Missed
  <2>8. QED
    BY <2>7
<1>7. CASE crc_ok /\ ~Trusted(r, h) /\ ~r.replay
  <2>1. out = Ignored(r)
    BY <1>2, <1>7 DEF RxReceive, NoError
  <2>2. r.ambiguous
    BY <1>1, <1>7 DEF Trusted
  <2>3. out.state = r /\ out.deliver = FALSE /\ out.request = FALSE
    BY <2>1 DEF Ignored, Outcome
  <2>4. QED
    BY <1>7, <2>2, <2>3 DEF Passed
<1>8. QED
  BY <1>3, <1>4, <1>5, <1>6, <1>7
-------------------------------------------------------------------------------
(* A transmitter.                                                              *)

\* The two modular tests of receive(), for a window that starts after a and
\* holds n numbers: they accept exactly the numbers of the window, the
\* acknowledgement test a itself as well.
LEMMA WindowTestsInRing ==
  ASSUME NEW a \in SequenceNumbers, NEW n \in 0..Window, NEW target \in SequenceNumbers
  PROVE  /\ ((target - a) % SeqMax <= Window
             /\ (Nth(a, n) - target) % SeqMax <= Window)
              <=> \E i \in 0..n : target = Nth(a, i)
         /\ ((target - a - 1) % SeqMax <= Window - 1
             /\ (Nth(a, n) - target) % SeqMax <= Window - 1)
              <=> \E i \in 1..n : target = Nth(a, i)
<1> DEFINE d == IF target >= a THEN target - a ELSE target - a + SeqMax
           t == Nth(a, n)
           e == IF t >= target THEN t - target ELSE t - target + SeqMax
<1>1. t \in SequenceNumbers
  BY NthInRing, WindowIsHalf
<1>2. (target - a) % SeqMax = d
  BY RingModulo, SeqMaxAssumption DEF SequenceNumbers
<1>3. (t - target) % SeqMax = e
  BY <1>1, RingModulo, SeqMaxAssumption DEF SequenceNumbers
<1>4. (target - a - 1) % SeqMax = IF d = 0 THEN SeqMax - 1 ELSE d - 1
  BY RingModulo, SeqMaxAssumption DEF SequenceNumbers
<1>5. d \in 0..(SeqMax - 1) /\ target = Nth(a, d)
  BY SeqMaxAssumption DEF SequenceNumbers, Nth
<1>6. d <= Window /\ e <= Window => d <= n
  BY <1>1, WindowIsHalf DEF SequenceNumbers, Nth
<1>7. d <= n => d <= Window /\ e = n - d
  BY <1>1, WindowIsHalf DEF SequenceNumbers, Nth
<1>8. \A i \in 0..n : target = Nth(a, i) => i = d
  BY WindowIsHalf DEF SequenceNumbers, Nth
<1>9. e \in 0..(SeqMax - 1)
  BY <1>1, SeqMaxAssumption DEF SequenceNumbers
<1> HIDE DEF d, t, e
<1>10. (d <= Window /\ e <= Window) <=> \E i \in 0..n : target = Nth(a, i)
  BY <1>5, <1>6, <1>7, <1>8, WindowIsHalf
<1>11. ((IF d = 0 THEN SeqMax - 1 ELSE d - 1) <= Window - 1 /\ e <= Window - 1)
        <=> \E i \in 1..n : target = Nth(a, i)
  BY <1>5, <1>6, <1>7, <1>8, <1>9, WindowIsHalf
<1>12. QED
  BY <1>2, <1>3, <1>4, <1>10, <1>11 DEF t

\* The target of a valid command is a sequence number, never zero.
LEMMA CommandTargets ==
  ASSUME NEW word \in Words, NEW h, h = DecodeHeader(word),
         h.error = NoError, h.op \in CommandOps
  PROVE  h.ack_request \in SequenceNumbers
<1>1. FieldMod \in Nat \ {0} /\ SeqMod \in Nat \ {0} /\ LowMod \in Nat \ {0}
  BY SeqMaxAssumption, LowModAssumption DEF FieldMod, SeqMod
<1>2. word \div ReservedMod \in Nat
  BY ReservedModAssumption DEF Words
<1>3. WordField(word) \in 0..(SeqMod * LowMod - 1)
  BY <1>1, <1>2 DEF WordField, FieldMod
<1>4. WordField(word) \div LowMod \in 0..SeqMax
  BY <1>1, <1>3, FieldSplit, SeqMaxAssumption DEF SeqMod
<1>5. WordOp(word) \in 0..7
  <2> DEFINE L == 2 * FieldMod * ReservedMod
  <2>1. L \in Nat \ {0}
    BY <1>1, ReservedModAssumption
  <2>2. word \in 0..(8 * L - 1)
    BY <1>1, ReservedModAssumption DEF Words
  <2>3. WordOp(word) = word \div L
    BY DEF WordOp
  <2> HIDE DEF L
  <2>4. QED
    BY <2>1, <2>2, <2>3, FieldSplit
<1> DEFINE op == WordOp(word)
<1>6. CASE op >= 4 \/ (op = OpReplay /\ ~WordPayload(word))
  <2>1. h.error = "reserved_op"
    BY <1>5, <1>6 DEF DecodeHeader, Header, OpReplay, OpExplicit, CommandOps, OpAck, OpRequest
  <2>2. QED
    BY <2>1 DEF NoError
<1>7. CASE ~(op >= 4) /\ (op = OpExplicit \/ (op = OpReplay /\ WordPayload(word)))
  <2>1. h.op = op
    BY <1>5, <1>7 DEF DecodeHeader, Header, OpReplay, OpExplicit
  <2>2. QED
    BY <1>5, <1>7, <2>1 DEF CommandOps, OpAck, OpRequest, OpReplay, OpExplicit
<1>8. CASE op \in CommandOps
  <2>1. h = Header(op, WordPayload(word), NoField, WordField(word) % LowMod,
                   WordField(word) \div LowMod,
                   IF WordField(word) \div LowMod = 0 THEN "zero_ack_request" ELSE NoError)
    BY <1>8 DEF DecodeHeader, CommandOps, OpAck, OpRequest, OpReplay, OpExplicit
  <2>2. h.ack_request = WordField(word) \div LowMod /\ h.ack_request # 0
    BY <2>1 DEF Header, NoError
  <2>3. QED
    BY <1>4, <2>2 DEF SequenceNumbers
<1>9. QED
  BY <1>5, <1>6, <1>7, <1>8 DEF CommandOps, OpAck, OpRequest, OpReplay, OpExplicit

Good(t) ==
  /\ t \in TxStates
  /\ Len(t.buffer) <= Window
  /\ t.last_sequence = Nth(t.last_ack, Len(t.buffer))
  /\ \A i \in 1..Len(t.buffer) : t.buffer[i].sequence = Nth(t.last_ack, i)
  /\ t.replay <=> Len(t.scheduled) > 0
  /\ t.first_replay => t.replay
  /\ \A i \in 1..Len(t.scheduled) :
        Nth(t.scheduled[i].sequence, Len(t.scheduled) - i) = t.last_sequence

\* The parts of a good state.
LEMMA GoodParts ==
  ASSUME NEW t, Good(t)
  PROVE  /\ t \in TxStates /\ t.buffer \in Seq(Entries) /\ t.scheduled \in Seq(Entries)
         /\ Len(t.buffer) \in 0..Window /\ Len(t.scheduled) \in Nat
         /\ DOMAIN t.buffer = 1..Len(t.buffer)
         /\ t.last_ack \in SequenceNumbers /\ t.last_sequence \in SequenceNumbers
         /\ t.last_sequence = Nth(t.last_ack, Len(t.buffer))
         /\ \A i \in 1..Len(t.buffer) : t.buffer[i].sequence = Nth(t.last_ack, i)
         /\ t.replay \in BOOLEAN /\ t.first_replay \in BOOLEAN
         /\ t.ignore_count \in 0..IgnoreWindow
         /\ (t.replay <=> Len(t.scheduled) > 0) /\ (t.first_replay => t.replay)
         /\ \A i \in 1..Len(t.scheduled) :
              Nth(t.scheduled[i].sequence, Len(t.scheduled) - i) = t.last_sequence
BY WindowIsHalf DEF Good, TxStates

\* A new transmitter is good.
LEMMA ResetGood == Good(TxReset)
BY SeqMaxAssumption, IgnoreWindowAssumption, WindowIsHalf
   DEF Good, TxReset, TxStates, Nth, SequenceNumbers

\* A new payload extends the window by its successor.
LEMMA EnqueueKeeps ==
  ASSUME NEW t, Good(t), NEW payload \in Payloads, CanEnqueue(t)
  PROVE  Good(Enqueue(t, payload))
<1> DEFINE n == Len(t.buffer)
           s == Successor(t.last_sequence)
           entry == [sequence |-> s, payload |-> payload]
           u == Enqueue(t, payload)
<1>1. /\ t.buffer \in Seq(Entries) /\ n \in 0..(Window - 1)
      /\ t.last_ack \in SequenceNumbers
      /\ ~t.replay /\ t.scheduled = << >> /\ ~t.first_replay
  <2>1. Len(t.scheduled) = 0
    BY GoodParts DEF CanEnqueue
  <2> QED  BY <2>1, GoodParts, WindowIsHalf DEF CanEnqueue
<1>2. s = Nth(t.last_ack, n + 1) /\ s \in SequenceNumbers
  <2>1. s = Nth(t.last_ack, n + 1)
    BY <1>1, GoodParts, SuccessorOfNth, WindowIsHalf
  <2> QED  BY <1>1, <2>1, NthInRing, WindowIsHalf
<1>3. u = [t EXCEPT !.buffer = Append(@, entry), !.last_sequence = s]
  BY DEF Enqueue
<1>4. /\ u.buffer = Append(t.buffer, entry) /\ u.last_sequence = s
      /\ u.last_ack = t.last_ack /\ u.replay = t.replay
      /\ u.first_replay = t.first_replay /\ u.scheduled = t.scheduled
  BY <1>3, GoodParts DEF TxStates
<1>5. Append(t.buffer, entry) \in Seq(Entries)
  BY <1>1, <1>2 DEF Entries
<1> HIDE DEF s, entry
<1>6. u \in TxStates
  BY <1>2, <1>3, <1>5, GoodParts DEF TxStates
<1> HIDE DEF u
<1>7. /\ Len(u.buffer) = n + 1
      /\ \A i \in 1..n : u.buffer[i] = t.buffer[i]
      /\ u.buffer[n + 1] = entry
  BY <1>1, <1>4
<1>8. \A i \in 1..(n + 1) : u.buffer[i].sequence = Nth(t.last_ack, i)
  BY <1>1, <1>2, <1>7, GoodParts, SMTT(40) DEF entry
<1>9. Good(u)
  BY <1>1, <1>2, <1>4, <1>6, <1>7, <1>8, WindowIsHalf DEF Good
<1> QED  BY <1>9 DEF u

\* Ageing the ignore window changes nothing else.
LEMMA AgeKeeps ==
  ASSUME NEW t, Good(t)
  PROVE  /\ Good(AgeIgnore(t))
         /\ AgeIgnore(t).buffer = t.buffer /\ AgeIgnore(t).scheduled = t.scheduled
         /\ AgeIgnore(t).last_ack = t.last_ack
         /\ AgeIgnore(t).last_sequence = t.last_sequence
         /\ AgeIgnore(t).replay = t.replay /\ AgeIgnore(t).first_replay = t.first_replay
         /\ AgeIgnore(t).ignore_count = IF t.ignore_count > 0 THEN t.ignore_count - 1 ELSE 0
<1> DEFINE u == AgeIgnore(t)
<1>1. /\ u.buffer = t.buffer /\ u.last_sequence = t.last_sequence
      /\ u.last_ack = t.last_ack /\ u.replay = t.replay
      /\ u.first_replay = t.first_replay /\ u.scheduled = t.scheduled
      /\ u.ignore_count = IF t.ignore_count > 0 THEN t.ignore_count - 1 ELSE 0
  BY GoodParts DEF TxStates, AgeIgnore
<1>2. u \in TxStates
  BY IgnoreWindowAssumption, GoodParts DEF TxStates, AgeIgnore
<1> HIDE DEF u
<1>3. Good(u)
  BY <1>1, <1>2 DEF Good
<1> QED  BY <1>1, <1>3 DEF u

\* Sending the head of the schedule leaves its tail in place.
LEMMA NextReplayKeeps ==
  ASSUME NEW t, Good(t), t.scheduled # << >>
  PROVE  Good(NextReplay(t))
<1> DEFINE n == Len(t.scheduled)
           u == NextReplay(t)
<1>1. t.scheduled \in Seq(Entries) /\ n >= 1 /\ n \in Nat /\ t \in TxStates
  BY GoodParts
<1>2. /\ u.buffer = t.buffer /\ u.last_sequence = t.last_sequence
      /\ u.last_ack = t.last_ack /\ (u.replay <=> n > 1)
      /\ ~u.first_replay /\ u.scheduled = Tail(t.scheduled)
  BY <1>1 DEF TxStates, NextReplay
<1>3. u \in TxStates
  <2>1. Tail(t.scheduled) \in Seq(Entries) /\ (n > 1) \in BOOLEAN
    BY <1>1
  <2> QED  BY <2>1, GoodParts DEF TxStates, NextReplay
<1> HIDE DEF u
<1>4. Len(u.scheduled) = n - 1 /\ \A i \in 1..(n - 1) : u.scheduled[i] = t.scheduled[i + 1]
  BY <1>1, <1>2
<1>5. \A i \in 1..(n - 1) : Nth(u.scheduled[i].sequence, n - 1 - i) = t.last_sequence
  <2>1. \A i \in 1..n : Nth(t.scheduled[i].sequence, n - i) = t.last_sequence
    BY GoodParts
  <2> HIDE DEF n
  <2>2. ASSUME NEW i \in 1..(n - 1)
        PROVE  i + 1 \in 1..n /\ n - (i + 1) = n - 1 - i
    BY <1>1
  <2> QED  BY <1>4, <2>1, <2>2
<1>6. Good(u)
  BY <1>1, <1>2, <1>3, <1>4, <1>5, GoodParts DEF Good
<1> QED  BY <1>6 DEF u

\* The modular tests of receive() look for a number of the window.
LEMMA TestsOf ==
  ASSUME NEW t, Good(t), NEW target \in SequenceNumbers
  PROVE  /\ RequestInWindow(t, target)
              <=> \E i \in 1..Len(t.buffer) : target = Nth(t.last_ack, i)
         /\ AckInWindow(t, target)
              <=> \E i \in 0..Len(t.buffer) : target = Nth(t.last_ack, i)
BY GoodParts, WindowTestsInRing DEF RequestInWindow, AckInWindow

\* The buffered numbers are the numbers of the window.
LEMMA BufferedIs ==
  ASSUME NEW t, Good(t), NEW target
  PROVE  /\ target \in {t.buffer[i].sequence : i \in DOMAIN t.buffer}
              <=> \E i \in 1..Len(t.buffer) : target = Nth(t.last_ack, i)
         /\ target = t.last_ack \/ (\E i \in 1..Len(t.buffer) : target = Nth(t.last_ack, i))
              <=> \E i \in 0..Len(t.buffer) : target = Nth(t.last_ack, i)
<1>1. Nth(t.last_ack, 0) = t.last_ack
  BY GoodParts, SeqMaxAssumption DEF SequenceNumbers, Nth
<1>2. target \in {t.buffer[i].sequence : i \in DOMAIN t.buffer}
        <=> \E i \in 1..Len(t.buffer) : target = Nth(t.last_ack, i)
  BY GoodParts
<1>3. ASSUME NEW i \in 0..Len(t.buffer), target = Nth(t.last_ack, i)
      PROVE  target = t.last_ack \/ \E j \in 1..Len(t.buffer) : target = Nth(t.last_ack, j)
  BY <1>1, <1>3, GoodParts
<1>4. /\ 0 \in 0..Len(t.buffer)
      /\ \A i \in 1..Len(t.buffer) : i \in 0..Len(t.buffer)
  BY GoodParts
<1> QED  BY <1>1, <1>2, <1>3, <1>4

\* A request in the window finds its entry: StopIteration cannot happen.
LEMMA RequestFindsEntry ==
  ASSUME NEW t, Good(t), NEW k \in 1..Len(t.buffer)
  PROVE  StartOf(t, Nth(t.last_ack, k)) = k
<1> DEFINE n == Len(t.buffer)
           target == Nth(t.last_ack, k)
<1>1. k \in 0..Window /\ \A i \in 1..n : i \in 0..Window
  <2>1. n \in 0..Window /\ Window \in Nat
    BY GoodParts, WindowIsHalf
  <2> HIDE DEF n
  <2>2. k \in 1..n
    BY DEF n
  <2> QED  BY <2>1, <2>2
<1>2. \A i \in 1..n : t.buffer[i].sequence = target <=> i = k
  BY <1>1, GoodParts, NthOneToOne
<1> HIDE DEF target
<1>3. DOMAIN t.buffer = 1..n /\ n \in Nat
  BY GoodParts
<1>4. StartOf(t, target) = k
  BY <1>2, <1>3 DEF StartOf
<1> QED  BY <1>4 DEF target

\* The schedule of a restarted replay is the tail of the buffer.
LEMMA StartReplayKeeps ==
  ASSUME NEW t, Good(t), NEW k \in 1..Len(t.buffer)
  PROVE  LET u == StartReplay(t, Nth(t.last_ack, k))
         IN  /\ Good(u)
             /\ u.buffer = t.buffer /\ u.last_ack = t.last_ack
             /\ u.last_sequence = t.last_sequence
             /\ u.first_replay /\ u.ignore_count = IgnoreWindow
             /\ u.scheduled = SubSeq(t.buffer, k, Len(t.buffer))
<1> DEFINE n == Len(t.buffer)
           rest == SubSeq(t.buffer, k, n)
           u == StartReplay(t, Nth(t.last_ack, k))
<1>1. n \in 0..Window /\ t.buffer \in Seq(Entries) /\ t.last_ack \in SequenceNumbers
      /\ t.last_sequence = Nth(t.last_ack, n) /\ k \in 1..n /\ t \in TxStates
      /\ \A i \in 1..n : t.buffer[i].sequence = Nth(t.last_ack, i)
  BY GoodParts
<1>2. rest \in Seq(Entries) /\ Len(rest) = n - k + 1
      /\ \A i \in 1..(n - k + 1) : rest[i] = t.buffer[k + i - 1]
  BY <1>1
<1>3. u = [t EXCEPT !.scheduled = rest, !.replay = TRUE, !.first_replay = TRUE,
                    !.ignore_count = IgnoreWindow]
  BY RequestFindsEntry DEF StartReplay
<1> HIDE DEF rest, u
<1>4. /\ u.buffer = t.buffer /\ u.last_sequence = t.last_sequence
      /\ u.last_ack = t.last_ack /\ u.replay /\ u.first_replay /\ u.scheduled = rest
      /\ u.ignore_count = IgnoreWindow
  BY <1>1, <1>3 DEF TxStates
<1>5. u \in TxStates
  <2>1. rest \in Seq(Entries) /\ IgnoreWindow \in 0..IgnoreWindow
    BY <1>2, IgnoreWindowAssumption
  <2> QED  BY <1>1, <1>3, <2>1 DEF TxStates
<1> HIDE DEF n
<1>6. ASSUME NEW i \in 1..(n - k + 1)
      PROVE  Nth(rest[i].sequence, (n - k + 1) - i) = t.last_sequence
  <2>1. /\ k + i - 1 \in 1..n /\ k + i - 1 \in 0..Window
        /\ (n - k + 1) - i \in 0..Window /\ (k + i - 1) + ((n - k + 1) - i) = n
    BY <1>1, WindowIsHalf
  <2>2. rest[i].sequence = Nth(t.last_ack, k + i - 1)
    BY <1>1, <1>2, <2>1
  <2>3. Nth(Nth(t.last_ack, k + i - 1), (n - k + 1) - i) = Nth(t.last_ack, n)
    BY <1>1, <2>1, NthOfNth, WindowIsHalf
  <2> QED  BY <1>1, <2>2, <2>3
<1>7. Len(u.buffer) = n /\ Len(u.scheduled) = n - k + 1 /\ Len(u.scheduled) > 0
  BY <1>1, <1>2, <1>4 DEF n
<1>8. n <= Window
  BY <1>1, WindowIsHalf
<1>9. Good(u)
  BY <1>1, <1>4, <1>5, <1>6, <1>7, <1>8 DEF Good
<1> QED  BY <1>4, <1>9 DEF u, rest, n

\* An acknowledgement cuts the window after its target.
LEMMA ReleaseKeeps ==
  ASSUME NEW t, Good(t), NEW k \in 0..Len(t.buffer)
  PROVE  LET u == Release(t, Nth(t.last_ack, k))
         IN  /\ Good(u)
             /\ u.buffer = SubSeq(t.buffer, k + 1, Len(t.buffer))
             /\ u.last_ack = Nth(t.last_ack, k)
             /\ u.last_sequence = t.last_sequence
             /\ u.first_replay = t.first_replay /\ u.ignore_count = t.ignore_count
             /\ u.scheduled = t.scheduled
<1> DEFINE n == Len(t.buffer)
           target == Nth(t.last_ack, k)
           rest == SubSeq(t.buffer, k + 1, n)
           u == Release(t, target)
<1>1. n \in 0..Window /\ t.buffer \in Seq(Entries) /\ t.last_ack \in SequenceNumbers
      /\ t.last_sequence = Nth(t.last_ack, n) /\ k \in 0..n /\ t \in TxStates
      /\ \A i \in 1..n : t.buffer[i].sequence = Nth(t.last_ack, i)
  BY GoodParts
<1>2. rest \in Seq(Entries) /\ Len(rest) = n - k
      /\ \A i \in 1..(n - k) : rest[i] = t.buffer[k + i]
  BY <1>1
<1>3. Distance(t.last_ack, target) = k /\ target \in SequenceNumbers
  <2> HIDE DEF n
  <2>1. k \in 0..Window /\ k \in 0..SeqMax
    BY <1>1, WindowIsHalf
  <2> QED  BY <1>1, <2>1, DistanceToNth, NthInRing
<1>4. u = [t EXCEPT !.buffer = rest, !.last_ack = target]
  BY <1>3 DEF Release
<1> HIDE DEF rest, u
<1>5. /\ u.buffer = rest /\ u.last_sequence = t.last_sequence
      /\ u.last_ack = target /\ u.replay = t.replay /\ u.ignore_count = t.ignore_count
      /\ u.first_replay = t.first_replay /\ u.scheduled = t.scheduled
  BY <1>1, <1>4 DEF TxStates
<1>6. u \in TxStates
  BY <1>1, <1>2, <1>3, <1>4 DEF TxStates
<1> HIDE DEF n
<1>7. n - k \in 0..Window /\ k \in 0..Window /\ k + (n - k) = n
  BY <1>1, WindowIsHalf
<1>8. u.last_sequence = Nth(target, n - k)
  BY <1>1, <1>5, <1>7, NthOfNth, WindowIsHalf DEF target
<1>9. ASSUME NEW i \in 1..(n - k)
      PROVE  rest[i].sequence = Nth(target, i)
  <2>1. k + i \in 1..n /\ i \in 0..Window /\ k + i <= Window
    BY <1>1, WindowIsHalf
  <2>2. Nth(Nth(t.last_ack, k), i) = Nth(t.last_ack, k + i)
    BY <1>1, <1>7, <2>1, NthOfNth
  <2> QED  BY <1>1, <1>2, <2>1, <2>2
<1> HIDE DEF target
<1>10. /\ Len(u.buffer) = n - k /\ n - k <= Window
       /\ u.replay <=> Len(u.scheduled) > 0
       /\ u.first_replay => u.replay
       /\ \A i \in 1..Len(u.scheduled) :
            Nth(u.scheduled[i].sequence, Len(u.scheduled) - i) = u.last_sequence
  <2>1. n - k <= Window
    BY <1>7, WindowIsHalf
  <2> QED  BY <1>2, <1>5, <2>1, GoodParts
<1>11. Good(u)
  BY <1>5, <1>6, <1>8, <1>9, <1>10 DEF Good
<1> QED  BY <1>5, <1>11 DEF u, rest, target, n

\* The target of a valid command is a number, as CommandTargets says of words.
Targeted(h) == h.error = NoError /\ h.op \in CommandOps => h.ack_request \in SequenceNumbers

\* What receiving a header can amount to.
Restarts(t, u) == \E k \in 1..Len(t.buffer) :
                    u = StartReplay(AgeIgnore(t), Nth(t.last_ack, k))
Releases(t, u) == \E k \in 0..Len(t.buffer) :
                    u = Release(AgeIgnore(t), Nth(t.last_ack, k))

\* The header h is obeyed, after the ageing that every header does.
Obeys(t, h, u) ==
  \/ u = AgeIgnore(t)
  \/ \E k \in 1..Len(t.buffer) :
       /\ h.op = OpRequest /\ h.ack_request = Nth(t.last_ack, k)
       /\ AgeIgnore(t).ignore_count = 0
       /\ u = StartReplay(AgeIgnore(t), Nth(t.last_ack, k))
  \/ \E k \in 0..Len(t.buffer) :
       /\ h.op = OpAck /\ h.ack_request = Nth(t.last_ack, k)
       /\ u = Release(AgeIgnore(t), Nth(t.last_ack, k))

\* Receiving obeys a request or an acknowledgement of the window, or only ages.
LEMMA ReceiveObeys ==
  ASSUME NEW t, Good(t), NEW h, Targeted(h), NEW crc_ok \in BOOLEAN,
         NEW u, u = TxReceive(t, h, crc_ok)
  PROVE  Obeys(t, h, u)
<1> DEFINE aged == AgeIgnore(t)
           valid == crc_ok /\ h.error = NoError
<1>1. Good(aged) /\ aged.last_ack = t.last_ack /\ aged.buffer = t.buffer
  BY AgeKeeps
<1> HIDE DEF aged
<1>2. u = CASE valid /\ AcceptsRequest(aged, h) -> StartReplay(aged, h.ack_request)
            [] valid /\ AcceptsAck(aged, h) -> Release(aged, h.ack_request)
            [] ~valid \/ ~(AcceptsRequest(aged, h) \/ AcceptsAck(aged, h)) -> aged
  BY DEF TxReceive, aged
<1>3. CASE valid /\ AcceptsRequest(aged, h)
  <2>1. h.ack_request \in SequenceNumbers /\ h.op = OpRequest /\ aged.ignore_count = 0
    BY <1>3 DEF AcceptsRequest, CommandOps, Targeted
  <2>2. PICK k \in 1..Len(t.buffer) : h.ack_request = Nth(t.last_ack, k)
    BY <1>1, <1>3, <2>1, TestsOf DEF AcceptsRequest
  <2>3. u = StartReplay(aged, h.ack_request)
    BY <1>2, <1>3 DEF AcceptsRequest, AcceptsAck, OpRequest, OpAck
  <2> QED  BY <2>1, <2>2, <2>3 DEF Obeys, aged
<1>4. CASE valid /\ AcceptsAck(aged, h)
  <2>1. h.ack_request \in SequenceNumbers /\ h.op = OpAck
    BY <1>4 DEF AcceptsAck, CommandOps, Targeted
  <2>2. PICK k \in 0..Len(t.buffer) : h.ack_request = Nth(t.last_ack, k)
    BY <1>1, <1>4, <2>1, TestsOf DEF AcceptsAck
  <2>3. u = Release(aged, h.ack_request)
    BY <1>2, <1>4 DEF AcceptsRequest, AcceptsAck, OpRequest, OpAck
  <2> QED  BY <2>1, <2>2, <2>3 DEF Obeys, aged
<1>5. CASE ~valid \/ ~(AcceptsRequest(aged, h) \/ AcceptsAck(aged, h))
  BY <1>2, <1>5 DEF Obeys, aged
<1> QED  BY <1>3, <1>4, <1>5

\* So it restarts, releases or only ages.
LEMMA ReceiveCases ==
  ASSUME NEW t, Good(t), NEW h, Targeted(h), NEW crc_ok \in BOOLEAN,
         NEW u, u = TxReceive(t, h, crc_ok)
  PROVE  Restarts(t, u) \/ Releases(t, u) \/ u = AgeIgnore(t)
BY ReceiveObeys DEF Obeys, Restarts, Releases

\* Receiving any header keeps a good state good.
LEMMA ReceiveKeeps ==
  ASSUME NEW t, Good(t), NEW h, Targeted(h), NEW crc_ok \in BOOLEAN
  PROVE  Good(TxReceive(t, h, crc_ok))
<1> DEFINE u == TxReceive(t, h, crc_ok)
<1>1. Restarts(t, u) \/ Releases(t, u) \/ u = AgeIgnore(t)
  BY ReceiveCases
<1> HIDE DEF u
<1>2. Good(AgeIgnore(t)) /\ AgeIgnore(t).buffer = t.buffer
      /\ AgeIgnore(t).last_ack = t.last_ack
  BY AgeKeeps
<1>3. ASSUME Restarts(t, u)  PROVE Good(u)
  <2>1. PICK k \in 1..Len(t.buffer) : u = StartReplay(AgeIgnore(t), Nth(t.last_ack, k))
    BY <1>3 DEF Restarts
  <2> QED  BY <1>2, <2>1, StartReplayKeeps
<1>4. ASSUME Releases(t, u)  PROVE Good(u)
  <2>1. PICK k \in 0..Len(t.buffer) : u = Release(AgeIgnore(t), Nth(t.last_ack, k))
    BY <1>4 DEF Releases
  <2> QED  BY <1>2, <2>1, ReleaseKeeps
<1>5. Good(u)
  BY <1>1, <1>2, <1>3, <1>4
<1> QED  BY <1>5 DEF u
-------------------------------------------------------------------------------
(* The hardware ring.  An edge of dl_replay_tx_control.v applies a command and *)
(* an issue at once; the proof takes them apart.  Commanded is what the        *)
(* registers would be after the command alone, Issuing what an issue does to   *)
(* them, and an edge is one after the other (EdgeSplits).                      *)

\* The slot n places behind another one, counted round the ring.
At(n) == n % Capacity

\* What the memory may hold.
Cells == Entries \cup {Blank}

RingStates == [last_sequence : SequenceNumbers, last_ack : SequenceNumbers,
               ignore : 0..IgnoreWindow, unacked : 0..MaxLive, head : Slots, write : Slots,
               replay_sequence : 0..SeqMax, scheduled : 0..MaxLive,
               replay_pointer : Slots, first : BOOLEAN]

\* The registers c and the memory m mean the transmitter state t.
Means(c, m, t) ==
  /\ c \in RingStates /\ m \in [Slots -> Cells]
  /\ c.last_sequence = t.last_sequence /\ c.last_ack = t.last_ack
  /\ c.ignore = t.ignore_count /\ c.first = t.first_replay
  /\ c.write = At(c.head + c.unacked)
  /\ c.unacked = Len(t.buffer)
  /\ \A i \in 1..c.unacked : m[At(c.head + i - 1)] = t.buffer[i]
  /\ c.scheduled = Len(t.scheduled)
  /\ \A i \in 1..c.scheduled : m[At(c.replay_pointer + i - 1)] = t.scheduled[i]
  /\ c.scheduled > 0 => c.replay_sequence = t.scheduled[1].sequence

Commanded(c, ingress, cmd) ==
  [last_sequence |-> c.last_sequence,
   last_ack |-> IF TakesAck(c, cmd) THEN cmd.target ELSE c.last_ack,
   ignore |-> IF TakesRequest(c, cmd) THEN IgnoreWindow
              ELSE IF ingress THEN AgedIgnore(c) ELSE c.ignore,
   unacked |-> LiveAfter(c, cmd),
   head |-> IF TakesAck(c, cmd) THEN Wrap(c.head + RingDistance(c, cmd.target)) ELSE c.head,
   write |-> c.write,
   replay_sequence |-> ReplaySequence(c, cmd),
   scheduled |-> ScheduledAfter(c, cmd),
   replay_pointer |-> ReplayAddress(c, cmd),
   first |-> TakesRequest(c, cmd) \/ c.first]

\* Whether a replayed or a new payload goes.
Replays(c) == c.scheduled > 0
Accepts(c) == c.scheduled = 0 /\ c.unacked < MaxLive

Issuing(c, push, take) ==
  LET pushed == push /\ Accepts(c)
      taken == take /\ Replays(c)
      last == taken /\ c.scheduled = 1
  IN  [last_sequence |-> IF pushed THEN Successor(c.last_sequence) ELSE c.last_sequence,
       last_ack |-> c.last_ack,
       ignore |-> c.ignore,
       unacked |-> IF pushed THEN c.unacked + 1 ELSE c.unacked,
       head |-> c.head,
       write |-> IF pushed THEN Wrap(c.write + 1) ELSE c.write,
       replay_sequence |-> IF last THEN 0
                           ELSE IF taken THEN Successor(c.replay_sequence)
                           ELSE c.replay_sequence,
       scheduled |-> c.scheduled - Bit(taken),
       replay_pointer |-> IF last THEN 0
                          ELSE IF taken THEN Wrap(c.replay_pointer + 1)
                          ELSE c.replay_pointer,
       first |-> ~taken /\ c.first]

\* The limits of the hardware.
LEMMA LiveLimit ==
  /\ Capacity \in Nat \ {0} /\ MaxLive \in Nat \ {0}
  /\ MaxLive <= Capacity /\ MaxLive <= Window
BY CapacityAssumption, WindowIsHalf DEF MaxLive

\* One conditional subtraction is the remainder, up to twice the capacity.
LEMMA WrapIsAt ==
  ASSUME NEW n \in 0..(2 * Capacity - 1)
  PROVE  /\ At(n) = IF n >= Capacity THEN n - Capacity ELSE n
         /\ Wrap(n) = At(n) /\ At(n) \in Slots
<1>1. Capacity \in Nat \ {0}
  BY LiveLimit
<1>2. At(n) = IF n >= Capacity THEN n - Capacity ELSE n
  BY <1>1 DEF At
<1> QED  BY <1>1, <1>2 DEF Wrap, Slots

\* Moving a pointer on and counting from there is counting from where it was.
LEMMA AtMoved ==
  ASSUME NEW h \in Slots, NEW d \in Nat, NEW j \in Nat, d + j <= Capacity
  PROVE  Wrap(h + d) \in Slots /\ At(Wrap(h + d) + j) = At(h + d + j)
<1> DEFINE x == h + d
           y == x + j
           w == Wrap(x)
           z == w + j
<1>1. x \in 0..(2 * Capacity - 1) /\ y \in 0..(2 * Capacity - 1) /\ x \in Int
  BY LiveLimit DEF Slots
<1> HIDE DEF x
<1>2. w = (IF x >= Capacity THEN x - Capacity ELSE x) /\ w \in Slots
  BY <1>1, WrapIsAt
<1> HIDE DEF w
<1>3. z \in 0..(2 * Capacity - 1)
  BY <1>2, LiveLimit DEF Slots
<1>4. y = x + j /\ z = w + j
  OBVIOUS
<1> HIDE DEF y, z
<1>5. /\ At(z) = (IF z >= Capacity THEN z - Capacity ELSE z)
      /\ At(y) = (IF y >= Capacity THEN y - Capacity ELSE y)
  BY <1>1, <1>3, WrapIsAt
<1>6. At(z) = At(y)
  BY <1>1, <1>2, <1>4, <1>5, LiveLimit DEF Slots
<1> QED  BY <1>2, <1>6 DEF x, y, w, z

\* Different places within one turn are different slots.
LEMMA AtOneToOne ==
  ASSUME NEW h \in Slots, NEW i \in 0..(Capacity - 1), NEW j \in 0..(Capacity - 1), i # j
  PROVE  At(h + i) # At(h + j)
<1> DEFINE x == h + i
           y == h + j
<1>1. x \in 0..(2 * Capacity - 1) /\ y \in 0..(2 * Capacity - 1) /\ x = h + i /\ y = h + j
  BY LiveLimit DEF Slots
<1> HIDE DEF x, y
<1>2. /\ At(x) = (IF x >= Capacity THEN x - Capacity ELSE x)
      /\ At(y) = (IF y >= Capacity THEN y - Capacity ELSE y)
  BY <1>1, WrapIsAt
<1>3. At(x) # At(y)
  BY <1>1, <1>2, LiveLimit DEF Slots
<1> QED  BY <1>3 DEF x, y

\* The registers alone: their ranges, one by one.
LEMMA MeansParts ==
  ASSUME NEW c, NEW m, NEW t, Means(c, m, t)
  PROVE  /\ c.last_sequence \in SequenceNumbers /\ c.last_ack \in SequenceNumbers
         /\ c.ignore \in 0..IgnoreWindow /\ c.unacked \in 0..MaxLive
         /\ c.head \in Slots /\ c.write \in Slots /\ c.replay_sequence \in 0..SeqMax
         /\ c.scheduled \in 0..MaxLive /\ c.replay_pointer \in Slots /\ c.first \in BOOLEAN
         /\ c.unacked \in 0..Window
<1>1. c \in RingStates
  BY DEF Means
<1>2. c.unacked \in 0..Window
  <2> DEFINE n == c.unacked
  <2>1. n \in 0..MaxLive
    BY <1>1 DEF RingStates
  <2> HIDE DEF n
  <2>2. n \in 0..Window
    BY <2>1, LiveLimit, WindowIsHalf
  <2> QED  BY <2>2 DEF n
<1> QED  BY <1>1, <1>2 DEF RingStates
-------------------------------------------------------------------------------
(* The window tests of the hardware.                                           *)

\* Both end points against the number itself: inside the window.
LEMMA InBufferIs ==
  ASSUME NEW c, c.last_ack \in SequenceNumbers, c.unacked \in 0..Window,
         NEW target \in SequenceNumbers
  PROVE  InBuffer(c, target) <=> \E i \in 0..c.unacked : target = Nth(c.last_ack, i)
<1> DEFINE a == c.last_ack
           n == c.unacked
           d == IF target >= a THEN target - a ELSE target - a + SeqMax
<1>1. a \in SequenceNumbers /\ n \in 0..Window
  OBVIOUS
<1> HIDE DEF a, n
<1>2. InBuffer(c, target)
        <=> IF target >= a THEN a + n > SeqMax \/ target <= (IF a + n > SeqMax THEN a + n - SeqMax ELSE a + n)
            ELSE a + n > SeqMax /\ target <= (IF a + n > SeqMax THEN a + n - SeqMax ELSE a + n)
  BY SeqMaxAssumption DEF InBuffer, WindowWraps, WindowEnd, WindowSum, SequenceNumbers, a, n
<1>3. InBuffer(c, target) <=> d <= n
  BY <1>1, <1>2, WindowIsHalf DEF SequenceNumbers
<1>4. d \in 0..(SeqMax - 1) /\ target = Nth(a, d)
  BY <1>1, SeqMaxAssumption DEF SequenceNumbers, Nth
<1>5. \A i \in 0..n : target = Nth(a, i) => i = d
  BY <1>1, WindowIsHalf DEF SequenceNumbers, Nth
<1> HIDE DEF d
<1>6. InBuffer(c, target) <=> \E i \in 0..n : target = Nth(a, i)
  BY <1>1, <1>3, <1>4, <1>5
<1> QED  BY <1>6 DEF a, n

\* The distance is what the number is to the window.
LEMMA RingDistanceIs ==
  ASSUME NEW c, c.last_ack \in SequenceNumbers, NEW i \in 0..Window
  PROVE  RingDistance(c, Nth(c.last_ack, i)) = i
<1>1. Nth(c.last_ack, i) \in SequenceNumbers
  BY NthInRing, WindowIsHalf
<1>2. RingDistance(c, Nth(c.last_ack, i)) = Distance(c.last_ack, Nth(c.last_ack, i))
  BY <1>1, DistanceInRing DEF RingDistance
<1> QED  BY <1>2, DistanceToNth

\* A number of the window is as near to its end as its place says.
LEMMA NearTailIs ==
  ASSUME NEW c, c.last_ack \in SequenceNumbers, NEW n \in 0..Window,
         c.last_sequence = Nth(c.last_ack, n), NEW i \in 0..n,
         NEW reach \in 0..Window, n - i <= reach
  PROVE  NearTail(c, Nth(c.last_ack, i), reach)
<1> DEFINE a == c.last_ack
           s == c.last_sequence
           target == Nth(a, i)
<1>1. a \in SequenceNumbers /\ s = Nth(a, n) /\ s \in SequenceNumbers
  BY NthInRing, WindowIsHalf
<1>2. s # 0
  BY <1>1 DEF SequenceNumbers
<1>3. NearTail(c, target, reach)
        <=> IF s <= reach THEN target <= s \/ target >= s + SeqMax - reach
            ELSE target <= s /\ target >= s - reach
  BY <1>2 DEF NearTail
<1> HIDE DEF a, s
<1>4. IF s <= reach THEN target <= s \/ target >= s + SeqMax - reach
      ELSE target <= s /\ target >= s - reach
  BY <1>1, WindowIsHalf DEF SequenceNumbers, Nth
<1> QED  BY <1>3, <1>4 DEF a

\* Registers over a window of n numbers.
Windowed(c) == /\ c.last_ack \in SequenceNumbers /\ c.unacked \in 0..Window
               /\ c.last_sequence = Nth(c.last_ack, c.unacked)

\* Which commands the hardware takes.
LEMMA TakesIs ==
  ASSUME NEW c, Windowed(c), NEW cmd, cmd.valid => cmd.target \in SequenceNumbers
  PROVE  /\ TakesAck(c, cmd) <=>
              /\ cmd.valid /\ ~cmd.request
              /\ \E i \in 0..c.unacked : cmd.target = Nth(c.last_ack, i)
         /\ TakesRequest(c, cmd) <=>
              /\ cmd.valid /\ cmd.request /\ AgedIgnore(c) = 0
              /\ \E i \in 1..c.unacked : cmd.target = Nth(c.last_ack, i)
<1> DEFINE n == c.unacked
<1>1. n \in 0..Window /\ c.last_ack \in SequenceNumbers /\ Window \in Nat /\ Window >= 1
  BY WindowIsHalf DEF Windowed
<1>2. c.last_sequence = Nth(c.last_ack, n)
  BY DEF Windowed
<1>3. cmd.valid => (InBuffer(c, cmd.target) <=> \E i \in 0..n : cmd.target = Nth(c.last_ack, i))
  BY <1>1, InBufferIs
<1>4. Nth(c.last_ack, 0) = c.last_ack
  BY <1>1, SeqMaxAssumption DEF SequenceNumbers, Nth
<1> HIDE DEF n
<1>5. \A i \in 0..n : NearTail(c, Nth(c.last_ack, i), Window)
  <2> TAKE i \in 0..n
  <2>1. Window \in 0..Window /\ n - i <= Window
    BY <1>1
  <2> QED  BY <1>1, <1>2, <2>1, NearTailIs
<1>6. \A i \in 1..n : NearTail(c, Nth(c.last_ack, i), Window - 1)
  <2> TAKE i \in 1..n
  <2>1. Window - 1 \in 0..Window /\ n - i <= Window - 1 /\ i \in 0..n
    BY <1>1
  <2> QED  BY <1>1, <1>2, <2>1, NearTailIs
<1>7. \A i \in 1..n : Nth(c.last_ack, i) # c.last_ack
  <2> TAKE i \in 1..n
  <2>1. i \in 0..Window /\ 0 \in 0..Window /\ i # 0
    BY <1>1
  <2> QED  BY <1>1, <1>4, <2>1, NthOneToOne
<1>8. TakesAck(c, cmd) <=> /\ cmd.valid /\ ~cmd.request
                           /\ \E i \in 0..n : cmd.target = Nth(c.last_ack, i)
  BY <1>3, <1>5 DEF TakesAck
<1>9. \A i \in 0..n : i = 0 \/ i \in 1..n
  BY <1>1
<1>10. \A i \in 1..n : i \in 0..n
  BY <1>1
<1>11. TakesRequest(c, cmd) <=> /\ cmd.valid /\ cmd.request /\ AgedIgnore(c) = 0
                                /\ \E i \in 1..n : cmd.target = Nth(c.last_ack, i)
  BY <1>3, <1>4, <1>6, <1>7, <1>9, <1>10 DEF TakesRequest
<1> QED  BY <1>8, <1>11 DEF n

\* What the registers mean is a window.
LEMMA MeansWindowed ==
  ASSUME NEW c, NEW m, NEW t, Good(t), Means(c, m, t)
  PROVE  Windowed(c)
<1>1. c.unacked = Len(t.buffer) /\ c.last_ack = t.last_ack /\ c.last_sequence = t.last_sequence
  BY DEF Means
<1> QED  BY <1>1, GoodParts DEF Windowed
-------------------------------------------------------------------------------
(* A command moves the registers as it moves the transmitter.                  *)

\* A request: the replay pointer goes to the requested payload.
LEMMA RequestMoves ==
  ASSUME NEW c, NEW m, NEW t, Good(t), Means(c, m, t), NEW cmd,
         NEW k \in 1..Len(t.buffer), cmd.target = Nth(t.last_ack, k),
         TakesRequest(c, cmd), ~TakesAck(c, cmd)
  PROVE  Means(Commanded(c, TRUE, cmd), m, StartReplay(AgeIgnore(t), cmd.target))
<1> DEFINE n == Len(t.buffer)
           aged == AgeIgnore(t)
           u == StartReplay(aged, cmd.target)
           e == Commanded(c, TRUE, cmd)
<1>1. /\ n \in 0..MaxLive /\ n \in 0..Window /\ c.unacked = n /\ k \in 1..n
      /\ c.last_ack = t.last_ack /\ c.last_ack \in SequenceNumbers
      /\ t.buffer \in Seq(Entries)
  <2>1. c.unacked = Len(t.buffer) /\ c.last_ack = t.last_ack
    BY DEF Means
  <2> QED  BY <2>1, MeansParts, GoodParts
<1>2. /\ u.buffer = t.buffer /\ u.last_ack = t.last_ack
      /\ u.last_sequence = t.last_sequence
      /\ u.first_replay /\ u.ignore_count = IgnoreWindow
      /\ u.scheduled = SubSeq(t.buffer, k, n) /\ u.first_replay \in BOOLEAN
  <2>1. /\ Good(aged) /\ aged.buffer = t.buffer /\ aged.last_ack = t.last_ack
        /\ aged.last_sequence = t.last_sequence
    BY AgeKeeps
  <2> HIDE DEF aged
  <2> QED  BY <2>1, StartReplayKeeps, GoodParts, SMTT(40)
<1>3. /\ Len(u.scheduled) = n - k + 1
      /\ \A i \in 1..(n - k + 1) : u.scheduled[i] = t.buffer[k + i - 1]
  BY <1>1, <1>2
<1> HIDE DEF u, n
<1>4. RingDistance(c, cmd.target) = k
  <2>1. k \in 0..Window
    BY <1>1, WindowIsHalf
  <2> QED  BY <1>1, <2>1, RingDistanceIs
<1>5. /\ e.last_sequence = c.last_sequence /\ e.last_ack = c.last_ack
      /\ e.ignore = IgnoreWindow /\ e.unacked = n /\ e.head = c.head /\ e.write = c.write
      /\ e.replay_sequence = cmd.target /\ e.scheduled = n - k + 1
      /\ e.replay_pointer = Wrap(c.head + k - 1) /\ e.first = TRUE
      /\ e = [last_sequence |-> c.last_sequence, last_ack |-> c.last_ack,
              ignore |-> IgnoreWindow, unacked |-> n, head |-> c.head, write |-> c.write,
              replay_sequence |-> cmd.target, scheduled |-> n - k + 1,
              replay_pointer |-> Wrap(c.head + k - 1), first |-> TRUE]
  BY <1>1, <1>4 DEF Commanded, LiveAfter, ReplaySequence, ScheduledAfter, ReplayAddress
<1> HIDE DEF e
<1>6. cmd.target \in SequenceNumbers
  <2>1. k \in 0..SeqMax
    BY <1>1, WindowIsHalf
  <2> QED  BY <1>1, <2>1, NthInRing
<1>7. c.head \in Slots /\ k - 1 \in Nat /\ c.head + k - 1 = c.head + (k - 1)
  BY <1>1, MeansParts, LiveLimit DEF Slots
<1>8. ASSUME NEW i \in 1..(n - k + 1)
      PROVE  m[At(e.replay_pointer + i - 1)] = u.scheduled[i]
  <2> DEFINE j == i - 1
             d == k - 1
             h == c.head
             p == Wrap(h + d)
  <2>0. h \in Slots /\ h \in Int /\ n \in Nat /\ k \in 1..n /\ n <= Capacity /\ Capacity \in Nat
    BY <1>1, <1>7, LiveLimit DEF Slots
  <2> HIDE DEF h
  <2>1. /\ j \in Nat /\ d \in Nat /\ d + j <= Capacity /\ h \in Slots /\ h \in Int
        /\ k + i - 1 \in 1..n /\ h + (k + i - 1) - 1 = h + d + j
    BY <2>0
  <2>2. m[At(h + (k + i - 1) - 1)] = t.buffer[k + i - 1]
    BY <1>1, <2>1 DEF Means, h
  <2>3. e.replay_pointer = p
    BY <1>5, <1>7 DEF h
  <2> HIDE DEF j, d
  <2>4. p \in Slots /\ At(p + j) = At(h + d + j)
    BY <2>1, AtMoved
  <2> HIDE DEF p
  <2>5. p + i - 1 = p + j
    BY <1>1, <2>4 DEF j, Slots
  <2> QED  BY <1>3, <2>1, <2>2, <2>3, <2>4, <2>5
<1>9. e \in RingStates
  <2>1. Wrap(c.head + k - 1) \in Slots
    <3>1. k - 1 + 0 <= Capacity
      BY <1>1, LiveLimit
    <3> DEFINE d == k - 1
    <3>2. d \in Nat /\ d + 0 <= Capacity
      BY <1>7, <3>1
    <3> HIDE DEF d
    <3>3. Wrap(c.head + d) \in Slots
      BY <1>7, <3>2, AtMoved
    <3> QED  BY <1>7, <3>3 DEF d
  <2>2. n - k + 1 \in 0..MaxLive
    BY <1>1, LiveLimit
  <2>3. cmd.target \in 0..SeqMax
    BY <1>6 DEF SequenceNumbers
  <2> QED  BY <1>1, <1>5, <2>1, <2>2, <2>3, MeansParts, IgnoreWindowAssumption DEF RingStates
<1>10. u.scheduled[1].sequence = cmd.target
  <2>1. 1 \in 1..(n - k + 1) /\ k + 1 - 1 = k
    BY <1>1
  <2>2. u.scheduled[1] = t.buffer[k]
    BY <1>3, <2>1
  <2>3. t.buffer[k].sequence = Nth(t.last_ack, k)
    BY <1>1, GoodParts DEF n
  <2> QED  BY <2>2, <2>3
<1>11. e.scheduled = Len(u.scheduled) /\ e.unacked = Len(u.buffer)
  BY <1>2, <1>3, <1>5 DEF n
<1>12. /\ e.last_sequence = u.last_sequence /\ e.last_ack = u.last_ack
       /\ e.ignore = u.ignore_count /\ e.first = u.first_replay
       /\ m \in [Slots -> Cells] /\ e.write = At(e.head + e.unacked)
  BY <1>1, <1>2, <1>5 DEF Means
<1>13. \A i \in 1..e.unacked : m[At(e.head + i - 1)] = u.buffer[i]
  BY <1>1, <1>2, <1>5 DEF Means
<1>14. \A i \in 1..e.scheduled : m[At(e.replay_pointer + i - 1)] = u.scheduled[i]
  BY <1>5, <1>8
<1>15. Means(e, m, u)
  BY <1>5, <1>9, <1>10, <1>11, <1>12, <1>13, <1>14 DEF Means
<1> QED  BY <1>15 DEF e, u

\* An acknowledgement: the head goes on by what it releases.
LEMMA AckMoves ==
  ASSUME NEW c, NEW m, NEW t, Good(t), Means(c, m, t), NEW cmd,
         NEW k \in 0..Len(t.buffer), cmd.target = Nth(t.last_ack, k),
         TakesAck(c, cmd), ~TakesRequest(c, cmd)
  PROVE  Means(Commanded(c, TRUE, cmd), m, Release(AgeIgnore(t), cmd.target))
<1> DEFINE n == Len(t.buffer)
           aged == AgeIgnore(t)
           u == Release(aged, cmd.target)
           e == Commanded(c, TRUE, cmd)
<1>1. /\ n \in 0..MaxLive /\ n \in 0..Window /\ c.unacked = n /\ k \in 0..n
      /\ c.last_ack = t.last_ack /\ c.last_ack \in SequenceNumbers
      /\ t.buffer \in Seq(Entries)
  <2>1. c.unacked = Len(t.buffer) /\ c.last_ack = t.last_ack
    BY DEF Means
  <2> QED  BY <2>1, MeansParts, GoodParts
<1>2. /\ u.buffer = SubSeq(t.buffer, k + 1, n) /\ u.last_ack = cmd.target
      /\ u.last_sequence = t.last_sequence
      /\ u.first_replay = t.first_replay /\ u.ignore_count = AgedIgnore(c)
      /\ u.scheduled = t.scheduled
  <2>1. /\ Good(aged) /\ aged.buffer = t.buffer /\ aged.last_ack = t.last_ack
        /\ aged.last_sequence = t.last_sequence /\ aged.first_replay = t.first_replay
        /\ aged.scheduled = t.scheduled
        /\ aged.ignore_count = IF t.ignore_count > 0 THEN t.ignore_count - 1 ELSE 0
    BY AgeKeeps
  <2>2. c.ignore = t.ignore_count
    BY DEF Means
  <2> HIDE DEF aged
  <2> QED  BY <2>1, <2>2, ReleaseKeeps, SMTT(40) DEF AgedIgnore
<1>3. Len(u.buffer) = n - k /\ \A i \in 1..(n - k) : u.buffer[i] = t.buffer[k + i]
  BY <1>1, <1>2
<1> HIDE DEF u, n
<1>4. RingDistance(c, cmd.target) = k
  <2>1. k \in 0..Window
    BY <1>1, WindowIsHalf
  <2> QED  BY <1>1, <2>1, RingDistanceIs
<1>5. /\ e.last_sequence = c.last_sequence /\ e.last_ack = cmd.target
      /\ e.ignore = AgedIgnore(c) /\ e.unacked = n - k /\ e.head = Wrap(c.head + k)
      /\ e.write = c.write /\ e.replay_sequence = c.replay_sequence
      /\ e.scheduled = c.scheduled /\ e.replay_pointer = c.replay_pointer
      /\ (e.first <=> c.first) /\ e.first \in BOOLEAN
      /\ e = [last_sequence |-> c.last_sequence, last_ack |-> cmd.target,
              ignore |-> AgedIgnore(c), unacked |-> n - k, head |-> Wrap(c.head + k),
              write |-> c.write, replay_sequence |-> c.replay_sequence,
              scheduled |-> c.scheduled, replay_pointer |-> c.replay_pointer,
              first |-> e.first]
  BY <1>1, <1>4 DEF Commanded, LiveAfter, ReplaySequence, ScheduledAfter, ReplayAddress
<1> HIDE DEF e
<1>6. cmd.target \in SequenceNumbers
  <2>1. k \in 0..SeqMax
    BY <1>1, WindowIsHalf
  <2> QED  BY <1>1, <2>1, NthInRing
<1> DEFINE h == c.head
           p == Wrap(h + k)
<1>7. h \in Slots /\ k \in Nat /\ h \in Int /\ n <= Capacity /\ e.head = p
  BY <1>1, <1>5, MeansParts, LiveLimit DEF Slots
<1> HIDE DEF h
<1>8. p \in Slots /\ At(p + (n - k)) = At(h + k + (n - k))
  <2>1. n - k \in Nat /\ k + (n - k) <= Capacity
    BY <1>1, <1>7
  <2> QED  BY <1>7, <2>1, AtMoved
<1>9. ASSUME NEW i \in 1..(n - k)
      PROVE  m[At(e.head + i - 1)] = u.buffer[i]
  <2> DEFINE j == i - 1
  <2>1. /\ j \in Nat /\ k + j <= Capacity /\ k + i \in 1..n /\ h + (k + i) - 1 = h + k + j
    <3>1. n \in Nat /\ k \in 0..n /\ i \in 1..(n - k) /\ n <= Capacity /\ Capacity \in Nat
      BY <1>1, <1>7, LiveLimit
    <3> QED  BY <1>7, <3>1
  <2>2. m[At(h + (k + i) - 1)] = t.buffer[k + i]
    BY <1>1, <2>1 DEF Means, h
  <2> HIDE DEF j
  <2>3. At(p + j) = At(h + k + j)
    BY <1>7, <2>1, AtMoved
  <2>4. p + i - 1 = p + j
    BY <1>8 DEF j, Slots
  <2> QED  BY <1>3, <1>7, <2>1, <2>2, <2>3, <2>4
<1>10. e.write = At(e.head + e.unacked)
  <2>1. c.write = At(h + n) /\ h + n = h + k + (n - k)
    BY <1>1, <1>7 DEF Means, h
  <2> QED  BY <1>5, <1>7, <1>8, <2>1
<1>11. e \in RingStates
  <2>1. n - k \in 0..MaxLive
    BY <1>1, LiveLimit
  <2>2. AgedIgnore(c) \in 0..IgnoreWindow
    BY MeansParts, IgnoreWindowAssumption DEF AgedIgnore
  <2>3. p \in Slots
    BY <1>8
  <2> QED  BY <1>5, <1>6, <1>7, <2>1, <2>2, <2>3, MeansParts DEF RingStates
<1>12. e.scheduled = Len(u.scheduled) /\ e.unacked = Len(u.buffer)
  BY <1>2, <1>3, <1>5 DEF Means
<1>13. /\ e.last_sequence = u.last_sequence /\ e.last_ack = u.last_ack
       /\ e.ignore = u.ignore_count /\ m \in [Slots -> Cells]
       /\ c.first = t.first_replay /\ c.first \in BOOLEAN
  BY <1>2, <1>5, MeansParts DEF Means
<1>14. e.first = u.first_replay
  BY <1>2, <1>5, <1>13
<1>15. \A i \in 1..e.unacked : m[At(e.head + i - 1)] = u.buffer[i]
  BY <1>5, <1>9
<1>16. \A i \in 1..e.scheduled : m[At(e.replay_pointer + i - 1)] = u.scheduled[i]
  BY <1>2, <1>5 DEF Means
<1>17. e.scheduled > 0 => e.replay_sequence = u.scheduled[1].sequence
  BY <1>2, <1>5 DEF Means
<1>18. Means(e, m, u)
  BY <1>10, <1>11, <1>12, <1>13, <1>14, <1>15, <1>16, <1>17 DEF Means
<1> QED  BY <1>18 DEF e, u

\* Anything else only ages the ignore window, if something arrived at all.
LEMMA NothingMoves ==
  ASSUME NEW c, NEW m, NEW t, Good(t), Means(c, m, t), NEW cmd,
         ~TakesAck(c, cmd), ~TakesRequest(c, cmd)
  PROVE  /\ Means(Commanded(c, TRUE, cmd), m, AgeIgnore(t))
         /\ Means(Commanded(c, FALSE, cmd), m, t)
<1> DEFINE e(ingress) == Commanded(c, ingress, cmd)
<1>1. c \in RingStates /\ c.ignore = t.ignore_count
  BY DEF Means
<1>2. ASSUME NEW ingress \in BOOLEAN
      PROVE  e(ingress) = [c EXCEPT !.ignore = IF ingress THEN AgedIgnore(c) ELSE @]
  <2>1. c.first \in BOOLEAN
    BY <1>1 DEF RingStates
  <2>2. (TakesRequest(c, cmd) \/ c.first) = c.first
    BY <2>1
  <2> QED  BY <1>1, <2>2 DEF Commanded, LiveAfter, ReplaySequence, ScheduledAfter, ReplayAddress,
                            RingStates
<1> HIDE DEF e
<1>3. AgedIgnore(c) \in 0..IgnoreWindow
  BY MeansParts, IgnoreWindowAssumption DEF AgedIgnore
<1>4. AgeIgnore(t).ignore_count = AgedIgnore(c)
  BY <1>1, AgeKeeps DEF AgedIgnore
<1>5. Means(e(TRUE), m, AgeIgnore(t))
  <2>1. e(TRUE) = [c EXCEPT !.ignore = AgedIgnore(c)]
    BY <1>2
  <2>2. /\ e(TRUE) \in RingStates /\ e(TRUE).ignore = AgedIgnore(c)
        /\ e(TRUE).last_sequence = c.last_sequence /\ e(TRUE).last_ack = c.last_ack
        /\ e(TRUE).first = c.first /\ e(TRUE).write = c.write /\ e(TRUE).head = c.head
        /\ e(TRUE).unacked = c.unacked /\ e(TRUE).scheduled = c.scheduled
        /\ e(TRUE).replay_pointer = c.replay_pointer
        /\ e(TRUE).replay_sequence = c.replay_sequence
    BY <1>1, <1>3, <2>1 DEF RingStates
  <2> QED  BY <1>4, <2>2, AgeKeeps DEF Means
<1>6. e(FALSE) = c
  BY <1>1, <1>2 DEF RingStates
<1> QED  BY <1>5, <1>6 DEF e

\* A command of a decoded header names a number of the ring.
LEMMA CommandNames ==
  ASSUME NEW word \in Words, NEW crc_ok \in BOOLEAN
  PROVE  CommandOf(DecodeHeader(word), crc_ok).valid
           => CommandOf(DecodeHeader(word), crc_ok).target \in SequenceNumbers
BY CommandTargets DEF CommandOf, NoCommand

\* The registers follow the transmitter through whatever arrives.
LEMMA ReceiveMoves ==
  ASSUME NEW c, NEW m, NEW t, Good(t), Means(c, m, t),
         NEW word \in Words, NEW crc_ok \in BOOLEAN
  PROVE  LET h == DecodeHeader(word)
         IN  Means(Commanded(c, TRUE, CommandOf(h, crc_ok)), m, TxReceive(t, h, crc_ok))
<1> DEFINE h == DecodeHeader(word)
           cmd == CommandOf(h, crc_ok)
           aged == AgeIgnore(t)
           valid == crc_ok /\ h.error = NoError
           u == TxReceive(t, h, crc_ok)
<1>1. cmd.valid => cmd.target \in SequenceNumbers
  BY CommandNames
<1>2. /\ Good(aged) /\ aged.last_ack = t.last_ack /\ aged.buffer = t.buffer
      /\ aged.ignore_count = AgedIgnore(c)
  BY AgeKeeps DEF AgedIgnore, Means
<1>3. /\ cmd.valid <=> valid /\ h.op \in CommandOps
      /\ cmd.valid => (cmd.target = h.ack_request /\ (cmd.request <=> h.op = OpRequest))
  BY DEF CommandOf, NoCommand
<1>4. u = CASE valid /\ AcceptsRequest(aged, h) -> StartReplay(aged, h.ack_request)
            [] valid /\ AcceptsAck(aged, h) -> Release(aged, h.ack_request)
            [] ~valid \/ ~(AcceptsRequest(aged, h) \/ AcceptsAck(aged, h)) -> aged
  BY DEF TxReceive
<1>5. Windowed(c) /\ c.last_ack = t.last_ack /\ c.unacked = Len(t.buffer)
  BY MeansWindowed DEF Means
<1> HIDE DEF h, cmd, u, valid, aged
<1>6. /\ TakesAck(c, cmd) <=>
           /\ cmd.valid /\ ~cmd.request
           /\ \E i \in 0..Len(t.buffer) : cmd.target = Nth(t.last_ack, i)
      /\ TakesRequest(c, cmd) <=>
           /\ cmd.valid /\ cmd.request /\ AgedIgnore(c) = 0
           /\ \E i \in 1..Len(t.buffer) : cmd.target = Nth(t.last_ack, i)
  BY <1>1, <1>5, TakesIs
<1>7. h.ack_request \in SequenceNumbers =>
        /\ RequestInWindow(aged, h.ack_request)
             <=> \E i \in 1..Len(t.buffer) : h.ack_request = Nth(t.last_ack, i)
        /\ AckInWindow(aged, h.ack_request)
             <=> \E i \in 0..Len(t.buffer) : h.ack_request = Nth(t.last_ack, i)
  BY <1>2, TestsOf
<1>8. h.op = OpRequest => h.op # OpAck /\ h.op \in CommandOps
  BY DEF OpRequest, OpAck, CommandOps
<1>9. h.op \in CommandOps => h.op = OpRequest \/ h.op = OpAck
  BY DEF CommandOps
<1>10. h.op = OpAck => h.op # OpRequest /\ h.op \in CommandOps
  BY DEF OpRequest, OpAck, CommandOps
<1>11. TakesRequest(c, cmd) <=> valid /\ AcceptsRequest(aged, h)
  BY <1>1, <1>2, <1>3, <1>6, <1>7, <1>8 DEF AcceptsRequest
<1>12. TakesAck(c, cmd) <=> valid /\ AcceptsAck(aged, h)
  BY <1>1, <1>3, <1>6, <1>7, <1>8, <1>9, <1>10 DEF AcceptsAck
<1>13. ASSUME TakesRequest(c, cmd)  PROVE Means(Commanded(c, TRUE, cmd), m, u)
  <2>1. ~TakesAck(c, cmd) /\ cmd.target = h.ack_request
    BY <1>3, <1>6, <1>13
  <2>2. u = StartReplay(aged, cmd.target)
    BY <1>4, <1>11, <1>12, <1>13, <2>1
  <2>3. PICK k \in 1..Len(t.buffer) : cmd.target = Nth(t.last_ack, k)
    BY <1>6, <1>13
  <2> QED  BY <1>13, <2>1, <2>2, <2>3, RequestMoves DEF aged
<1>14. ASSUME TakesAck(c, cmd)  PROVE Means(Commanded(c, TRUE, cmd), m, u)
  <2>1. ~TakesRequest(c, cmd) /\ cmd.target = h.ack_request
    BY <1>3, <1>6, <1>14
  <2>2. u = Release(aged, cmd.target)
    BY <1>4, <1>11, <1>12, <1>14, <2>1
  <2>3. PICK k \in 0..Len(t.buffer) : cmd.target = Nth(t.last_ack, k)
    BY <1>6, <1>14
  <2> QED  BY <1>14, <2>1, <2>2, <2>3, AckMoves DEF aged
<1>15. ASSUME ~TakesAck(c, cmd), ~TakesRequest(c, cmd)
       PROVE  Means(Commanded(c, TRUE, cmd), m, u)
  <2>1. u = aged
    BY <1>4, <1>11, <1>12, <1>15
  <2> QED  BY <1>15, <2>1, NothingMoves DEF aged
<1>16. Means(Commanded(c, TRUE, cmd), m, u)
  BY <1>13, <1>14, <1>15
<1> QED  BY <1>16 DEF cmd, u, h
-------------------------------------------------------------------------------
(* An edge is a command and then an issue.                                     *)

\* The distances the hardware subtracts stay within what is unacknowledged.
LEMMA DistancesFit ==
  ASSUME NEW c, Windowed(c), NEW cmd, cmd.valid => cmd.target \in SequenceNumbers
  PROVE  /\ TakesAck(c, cmd) => RingDistance(c, cmd.target) \in 0..c.unacked
         /\ TakesRequest(c, cmd) => RingDistance(c, cmd.target) \in 1..c.unacked
<1> DEFINE n == c.unacked
<1>1. n \in 0..Window /\ c.last_ack \in SequenceNumbers /\ Window \in Nat
  BY WindowIsHalf DEF Windowed
<1>2. /\ TakesAck(c, cmd) => \E i \in 0..n : cmd.target = Nth(c.last_ack, i)
      /\ TakesRequest(c, cmd) => \E i \in 1..n : cmd.target = Nth(c.last_ack, i)
  BY TakesIs
<1> HIDE DEF n
<1>3. \A i \in 0..n : RingDistance(c, Nth(c.last_ack, i)) = i
  <2> TAKE i \in 0..n
  <2>1. i \in 0..Window
    BY <1>1
  <2> QED  BY <1>1, <2>1, RingDistanceIs
<1>4. \A i \in 1..n : i \in 0..n
  BY <1>1
<1>5. /\ TakesAck(c, cmd) => RingDistance(c, cmd.target) \in 0..n
      /\ TakesRequest(c, cmd) => RingDistance(c, cmd.target) \in 1..n
  BY <1>2, <1>3, <1>4
<1> QED  BY <1>5 DEF n

\* The registers between command and issue tell what the issue may do.
LEMMA ReadyAfterCommand ==
  ASSUME NEW c, c \in RingStates, Windowed(c), NEW ingress \in BOOLEAN,
         NEW cmd, cmd.valid => cmd.target \in SequenceNumbers
  PROVE  /\ ReplayValid(c, cmd) <=> Replays(Commanded(c, ingress, cmd))
         /\ PushReady(c, cmd) <=> Accepts(Commanded(c, ingress, cmd))
<1> DEFINE e == Commanded(c, ingress, cmd)
           n == c.unacked
           d == RingDistance(c, cmd.target)
           s == c.scheduled
<1>1. n \in Nat /\ s \in Nat /\ MaxLive \in Nat
  BY LiveLimit DEF RingStates
<1>2. /\ e.unacked = IF TakesAck(c, cmd) THEN n - d ELSE n
      /\ e.scheduled = IF TakesRequest(c, cmd) THEN n - d + 1 ELSE s
  BY DEF Commanded, LiveAfter, ScheduledAfter
<1>3. /\ TakesAck(c, cmd) => d \in 0..n
      /\ TakesRequest(c, cmd) => d \in 1..n
  BY DistancesFit
<1>4. ~(TakesAck(c, cmd) /\ TakesRequest(c, cmd))
  BY DEF TakesAck, TakesRequest
<1>5. /\ ReplayValid(c, cmd) <=> TakesRequest(c, cmd) \/ s > 0
      /\ PushReady(c, cmd) <=> /\ ~ReplayValid(c, cmd)
                               /\ n < MaxLive \/ (TakesAck(c, cmd) /\ d > n - MaxLive)
  BY DEF ReplayValid, PushReady
<1> HIDE DEF n, d, s, e
<1>6. ReplayValid(c, cmd) <=> e.scheduled > 0
  BY <1>1, <1>2, <1>3, <1>5
<1>7. ASSUME ~ReplayValid(c, cmd)
      PROVE  e.scheduled = 0 /\ (PushReady(c, cmd) <=> e.unacked < MaxLive)
  <2>1. ~TakesRequest(c, cmd) /\ e.scheduled = 0
    BY <1>1, <1>2, <1>5, <1>7
  <2>2. CASE TakesAck(c, cmd)
    BY <1>1, <1>2, <1>3, <1>5, <1>7, <2>1, <2>2
  <2>3. CASE ~TakesAck(c, cmd)
    BY <1>1, <1>2, <1>5, <1>7, <2>1, <2>3
  <2> QED  BY <2>1, <2>2, <2>3
<1>8. PushReady(c, cmd) <=> e.scheduled = 0 /\ e.unacked < MaxLive
  BY <1>5, <1>6, <1>7
<1> QED  BY <1>6, <1>8 DEF Replays, Accepts, e

\* One edge is the command and then the issue.
LEMMA EdgeSplits ==
  ASSUME NEW c, c \in RingStates, Windowed(c), NEW ingress \in BOOLEAN,
         NEW cmd, cmd.valid => cmd.target \in SequenceNumbers,
         NEW push \in BOOLEAN, NEW take \in BOOLEAN
  PROVE  RingEdge(c, ingress, cmd, push, take) = Issuing(Commanded(c, ingress, cmd), push, take)
<1> DEFINE e == Commanded(c, ingress, cmd)
<1>1. /\ ReplayValid(c, cmd) <=> Replays(e)
      /\ PushReady(c, cmd) <=> Accepts(e)
  BY ReadyAfterCommand
<1>2. /\ e.last_sequence = c.last_sequence
      /\ e.last_ack = IF TakesAck(c, cmd) THEN cmd.target ELSE c.last_ack
      /\ e.ignore = IF TakesRequest(c, cmd) THEN IgnoreWindow
                    ELSE IF ingress THEN AgedIgnore(c) ELSE c.ignore
      /\ e.unacked = LiveAfter(c, cmd)
      /\ e.head = IF TakesAck(c, cmd) THEN Wrap(c.head + RingDistance(c, cmd.target)) ELSE c.head
      /\ e.write = c.write
      /\ e.replay_sequence = ReplaySequence(c, cmd)
      /\ e.scheduled = ScheduledAfter(c, cmd)
      /\ e.replay_pointer = ReplayAddress(c, cmd)
      /\ e.first = (TakesRequest(c, cmd) \/ c.first)
  BY DEF Commanded
<1> HIDE DEF e
<1> DEFINE pushed == push /\ Accepts(e)
           taken == take /\ Replays(e)
<1>3. /\ (push /\ PushReady(c, cmd)) = pushed
      /\ (take /\ ReplayValid(c, cmd)) = taken
  BY <1>1
<1> QED  BY <1>2, <1>3 DEF RingEdge, Issuing, e

\* What the output slot is loaded with, from the registers in between.
LEMMA IssuedIs ==
  ASSUME NEW s, NEW c, s.control = c, c \in RingStates, Windowed(c),
         NEW cmd, cmd.valid => cmd.target \in SequenceNumbers,
         NEW ingress \in BOOLEAN, NEW offer \in BOOLEAN, NEW payload,
         NEW e, e = Commanded(c, ingress, cmd)
  PROVE  LET x == Issued(s, cmd, offer, payload)
         IN  /\ x.valid
             /\ x.payload \in BOOLEAN /\ (x.payload <=> Replays(e) \/ (offer /\ Accepts(e)))
             /\ x.replay \in BOOLEAN /\ (x.replay <=> Replays(e))
             /\ x.first \in BOOLEAN /\ (x.first <=> Replays(e) /\ e.first)
             /\ x.sequence = IF Replays(e) THEN e.replay_sequence
                             ELSE IF offer /\ Accepts(e) THEN Successor(e.last_sequence)
                             ELSE e.last_sequence
             /\ x.normal = IF offer /\ Accepts(e) THEN payload ELSE Blank.payload
             /\ x.read = IF Replays(e) THEN s.memory[e.replay_pointer] ELSE Blank
<1>1. /\ ReplayValid(c, cmd) <=> Replays(e)
      /\ PushReady(c, cmd) <=> Accepts(e)
  BY ReadyAfterCommand
<1>2. /\ e.last_sequence = c.last_sequence /\ e.replay_sequence = ReplaySequence(c, cmd)
      /\ e.replay_pointer = ReplayAddress(c, cmd)
      /\ e.first = (TakesRequest(c, cmd) \/ c.first)
  BY DEF Commanded
<1>3. c.first \in BOOLEAN
  BY DEF RingStates
<1>4. FirstReplay(c, cmd) \in BOOLEAN /\ (FirstReplay(c, cmd) <=> Replays(e) /\ e.first)
  BY <1>1, <1>2, <1>3 DEF FirstReplay
<1>5. ReplayValid(c, cmd) \in BOOLEAN /\ PushReady(c, cmd) \in BOOLEAN
  BY DEF ReplayValid, PushReady
<1> QED  BY <1>1, <1>2, <1>4, <1>5 DEF Issued
-------------------------------------------------------------------------------
(* An issue moves the registers as it moves the transmitter.                   *)

\* The head of the schedule goes: the pointer moves on, at last to zero.
LEMMA ReplayMoves ==
  ASSUME NEW c, NEW m, NEW t, Good(t), Means(c, m, t), Replays(c), NEW push \in BOOLEAN
  PROVE  /\ t.scheduled # << >>
         /\ Means(Issuing(c, push, TRUE), m, NextReplay(t))
         /\ m[c.replay_pointer] = Head(t.scheduled)
         /\ c.replay_sequence = Head(t.scheduled).sequence
<1> DEFINE s == c.scheduled
           p == c.replay_pointer
           u == NextReplay(t)
           e == Issuing(c, push, TRUE)
<1>1. /\ s = Len(t.scheduled) /\ s \in 0..MaxLive /\ s \in Nat /\ s > 0
      /\ t.scheduled \in Seq(Entries) /\ t \in TxStates /\ p \in Slots /\ p \in Int
      /\ c \in RingStates /\ MaxLive <= Capacity /\ Capacity \in Nat \ {0} /\ MaxLive \in Nat
  <2>1. /\ s = Len(t.scheduled) /\ s > 0 /\ c \in RingStates
    BY DEF Means, Replays
  <2>2. /\ t.scheduled \in Seq(Entries) /\ t \in TxStates
    BY GoodParts
  <2>3. s \in 0..MaxLive /\ p \in Slots
    BY MeansParts
  <2>4. s \in Nat /\ p \in Int
    BY <2>3, LiveLimit DEF Slots
  <2> QED  BY <2>1, <2>2, <2>3, <2>4, LiveLimit
<1>0. s \in Nat /\ s > 0 /\ s <= Capacity /\ p \in Int /\ Capacity \in Nat /\ s <= Window
  BY <1>1, LiveLimit, WindowIsHalf
<1>2. t.scheduled # << >> /\ Head(t.scheduled) = t.scheduled[1]
  BY <1>1
<1>3. /\ u.buffer = t.buffer /\ u.last_sequence = t.last_sequence
      /\ u.last_ack = t.last_ack /\ u.ignore_count = t.ignore_count
      /\ ~u.first_replay /\ u.first_replay = FALSE /\ u.scheduled = Tail(t.scheduled)
  BY <1>1 DEF TxStates, NextReplay
<1>4. Len(u.scheduled) = s - 1 /\ \A i \in 1..(s - 1) : u.scheduled[i] = t.scheduled[i + 1]
  BY <1>1, <1>2, <1>3
<1>5. /\ e.last_sequence = c.last_sequence /\ e.last_ack = c.last_ack /\ e.ignore = c.ignore
      /\ e.unacked = c.unacked /\ e.head = c.head /\ e.write = c.write
      /\ e.replay_sequence = (IF s = 1 THEN 0 ELSE Successor(c.replay_sequence))
      /\ e.scheduled = s - 1 /\ e.first = FALSE
      /\ e.replay_pointer = (IF s = 1 THEN 0 ELSE Wrap(p + 1))
      /\ e = [last_sequence |-> e.last_sequence, last_ack |-> e.last_ack,
              ignore |-> e.ignore, unacked |-> e.unacked, head |-> e.head, write |-> e.write,
              replay_sequence |-> e.replay_sequence, scheduled |-> e.scheduled,
              replay_pointer |-> e.replay_pointer, first |-> e.first]
  <2>1. Replays(c) /\ ~Accepts(c) /\ (s = 1 <=> c.scheduled = 1)
    BY <1>0 DEF Accepts
  <2> QED  BY <2>1 DEF Issuing, Bit
<1>6. m[At(p + 1 - 1)] = t.scheduled[1] /\ c.replay_sequence = t.scheduled[1].sequence
  <2>1. 1 \in 1..s
    BY <1>1
  <2> QED  BY <1>1, <2>1 DEF Means
<1> HIDE DEF u, e
<1>7. m[p] = t.scheduled[1]
  <2>1. p \in 0..(2 * Capacity - 1) /\ p < Capacity
    BY <1>1 DEF Slots
  <2> HIDE DEF p
  <2>2. p + 1 - 1 = p /\ At(p) = p
    BY <1>1, <2>1, WrapIsAt
  <2> QED  BY <1>6, <2>2 DEF p
<1> HIDE DEF s, p
<1>8. e.replay_sequence \in 0..SeqMax
  <2>1. c.replay_sequence \in 0..SeqMax
    BY MeansParts
  <2> QED  BY <1>5, <2>1, SeqMaxAssumption DEF Successor
<1>9. e.replay_pointer \in Slots
  <2>1. 0 \in Slots
    BY <1>1 DEF Slots
  <2>2. 1 \in Nat /\ 0 \in Nat /\ 1 + 0 <= Capacity
    BY <1>1
  <2>3. Wrap(p + 1) \in Slots
    BY <1>1, <2>2, AtMoved
  <2> QED  BY <1>5, <2>1, <2>3
<1>10. e \in RingStates
  <2>1. s - 1 \in 0..MaxLive
    BY <1>1
  <2> QED  BY <1>1, <1>5, <1>8, <1>9, <2>1 DEF RingStates
<1>11. ASSUME NEW i \in 1..(s - 1)
       PROVE  m[At(e.replay_pointer + i - 1)] = u.scheduled[i]
  <2> DEFINE j == i - 1
             w == Wrap(p + 1)
  <2>1. /\ i \in Int /\ j \in Nat /\ 1 \in Nat /\ 1 + j <= Capacity /\ i + 1 \in 1..s /\ s # 1
        /\ p + (i + 1) - 1 = p + 1 + j
    BY <1>0
  <2>2. m[At(p + (i + 1) - 1)] = t.scheduled[i + 1]
    BY <2>1 DEF Means, p, s
  <2>3. e.replay_pointer = w
    BY <1>5, <2>1
  <2>4. j = i - 1
    OBVIOUS
  <2> HIDE DEF j
  <2>5. w \in Slots /\ At(w + j) = At(p + 1 + j)
    BY <1>1, <2>1, AtMoved
  <2> HIDE DEF w
  <2>6. w + i - 1 = w + j
    BY <2>1, <2>4, <2>5 DEF Slots
  <2> QED  BY <1>4, <2>1, <2>2, <2>3, <2>5, <2>6
<1>12. ASSUME s - 1 > 0  PROVE e.replay_sequence = u.scheduled[1].sequence
  <2>1. s # 1 /\ 1 \in 1..(s - 1) /\ 2 \in 1..s /\ 1 \in 1..s /\ s - 2 \in Nat /\ s - 1 \in Nat
    BY <1>0, <1>12
  <2>2. u.scheduled[1] = t.scheduled[2]
    BY <1>4, <2>1
  <2> DEFINE a == t.scheduled[1].sequence
             b == t.scheduled[2].sequence
  <2>3. a \in SequenceNumbers /\ b \in SequenceNumbers
    <3>1. t.scheduled[1] \in Entries /\ t.scheduled[2] \in Entries
      BY <1>1, <2>1 DEF s
    <3> QED  BY <3>1 DEF Entries
  <2>4. Nth(a, s - 1) = t.last_sequence /\ Nth(b, s - 2) = t.last_sequence
    <3>1. \A i \in 1..s : Nth(t.scheduled[i].sequence, s - i) = t.last_sequence
      BY <1>1, GoodParts
    <3> QED  BY <2>1, <3>1
  <2>5. Nth(a, s - 1) = Nth(b, s - 2)
    BY <2>4
  <2> HIDE DEF a, b
  <2>6. b = Successor(a)
    BY <1>0, <2>1, <2>3, <2>5, WindowIsHalf DEF Nth, Successor, SequenceNumbers
  <2> QED  BY <1>5, <1>6, <2>1, <2>2, <2>6 DEF a, b
<1>13. /\ e.unacked = Len(u.buffer) /\ m \in [Slots -> Cells]
       /\ e.last_sequence = u.last_sequence /\ e.last_ack = u.last_ack
       /\ e.ignore = u.ignore_count /\ e.first = u.first_replay
       /\ e.write = At(e.head + e.unacked)
       /\ \A i \in 1..e.unacked : m[At(e.head + i - 1)] = u.buffer[i]
  BY <1>3, <1>5 DEF Means
<1>14. Means(e, m, u)
  BY <1>4, <1>5, <1>10, <1>11, <1>12, <1>13 DEF Means
<1> QED  BY <1>2, <1>6, <1>7, <1>14 DEF e, u, p

\* While nothing is scheduled the buffer is all that is resident.
LEMMA ResidentCount ==
  ASSUME NEW t, Good(t), t.scheduled = << >>
  PROVE  Cardinality(Resident(t)) = Len(t.buffer)
<1> DEFINE n == Len(t.buffer)
           S == Resident(t)
           f == [i \in 1..n |-> t.buffer[i]]
<1>1. n \in 0..Window /\ t.buffer \in Seq(Entries) /\ DOMAIN t.buffer = 1..n
      /\ t.last_ack \in SequenceNumbers
      /\ \A i \in 1..n : t.buffer[i].sequence = Nth(t.last_ack, i)
  BY GoodParts
<1>2. S = {t.buffer[i] : i \in 1..n}
  BY <1>1 DEF Resident, Content
<1> HIDE DEF n, S
<1>3. n \in Nat /\ \A i \in 1..n : i \in 0..Window
  BY <1>1, WindowIsHalf
<1>4. \A i, j \in 1..n : f[i] = f[j] => i = j
  BY <1>1, <1>3, NthOneToOne
<1>5. f \in Bijection(1..n, S)
  BY <1>2, <1>4 DEF Bijection, Injection, Surjection, IsInjective
<1>6. ExistsBijection(1..n, S)
  BY <1>5 DEF ExistsBijection
<1>7. Cardinality(S) = n
  BY <1>3, <1>6, FS_CountingElements
<1> QED  BY <1>7 DEF n, S

\* The reference takes a new payload exactly when the hardware does.
LEMMA AcceptsIs ==
  ASSUME NEW c, NEW m, NEW t, Good(t), Means(c, m, t)
  PROVE  /\ Accepts(c) <=> CanEnqueue(t)
         /\ Replays(c) <=> t.scheduled # << >>
<1> DEFINE n == Len(t.buffer)
           s == Len(t.scheduled)
<1>1. /\ c.unacked = n /\ c.scheduled = s /\ n \in Nat /\ s \in Nat
      /\ t.replay <=> s > 0
      /\ t.scheduled \in Seq(Entries)
  BY GoodParts, WindowIsHalf DEF Means
<1>2. s = 0 <=> t.scheduled = << >>
  BY <1>1
<1>3. t.scheduled = << >> => Cardinality(Resident(t)) = n
  BY ResidentCount
<1>4. MaxLive = IF Capacity < Window THEN Capacity ELSE Window
  BY DEF MaxLive
<1> HIDE DEF n, s
<1>5. n < MaxLive <=> n < Capacity /\ n < Window
  BY <1>1, <1>4, LiveLimit, WindowIsHalf
<1>6. CanEnqueue(t) <=> ~t.replay /\ n < Window /\ Cardinality(Resident(t)) < Capacity
  BY DEF CanEnqueue, n
<1>7. s > 0 <=> t.scheduled # << >>
  BY <1>1, <1>2
<1>8. ~t.replay <=> t.scheduled = << >>
  BY <1>1, <1>7
<1>9. Accepts(c) <=> t.scheduled = << >> /\ n < MaxLive
  BY <1>1, <1>2 DEF Accepts
<1>10. Accepts(c) <=> CanEnqueue(t)
  BY <1>3, <1>5, <1>6, <1>8, <1>9
<1> QED  BY <1>1, <1>7, <1>10 DEF Replays

\* A new payload is written behind the buffer and touches nothing of it.
LEMMA PushMoves ==
  ASSUME NEW c, NEW m, NEW t, Good(t), Means(c, m, t), Accepts(c),
         NEW payload \in Payloads, NEW take \in BOOLEAN
  PROVE  LET entry == [sequence |-> Successor(c.last_sequence), payload |-> payload]
         IN  Means(Issuing(c, TRUE, take), [m EXCEPT ![c.write] = entry], Enqueue(t, payload))
<1> DEFINE entry == [sequence |-> Successor(c.last_sequence), payload |-> payload]
           n == c.unacked
           h == c.head
           m2 == [m EXCEPT ![c.write] = entry]
           u == Enqueue(t, payload)
           e == Issuing(c, TRUE, take)
<1>1. /\ n = Len(t.buffer) /\ n \in Nat /\ n < MaxLive /\ c.scheduled = 0
      /\ t.buffer \in Seq(Entries) /\ t \in TxStates /\ h \in Slots /\ h \in Int
      /\ c \in RingStates /\ MaxLive <= Capacity /\ Capacity \in Nat \ {0} /\ MaxLive \in Nat
      /\ c.write = At(h + n) /\ c.write \in Slots /\ m \in [Slots -> Cells]
      /\ c.last_sequence = t.last_sequence /\ c.last_sequence \in SequenceNumbers
  <2>1. /\ n = Len(t.buffer) /\ n < MaxLive /\ c.scheduled = 0 /\ c \in RingStates
        /\ c.write = At(h + n) /\ m \in [Slots -> Cells] /\ c.last_sequence = t.last_sequence
    BY DEF Means, Accepts
  <2>2. t.buffer \in Seq(Entries) /\ t \in TxStates
    BY GoodParts
  <2>3. /\ n \in 0..MaxLive /\ h \in Slots /\ c.write \in Slots
        /\ c.last_sequence \in SequenceNumbers
    BY MeansParts
  <2>4. n \in Nat /\ h \in Int
    BY <2>3, LiveLimit DEF Slots
  <2> QED  BY <2>1, <2>2, <2>3, <2>4, LiveLimit
<1>2. entry \in Entries /\ Successor(c.last_sequence) \in SequenceNumbers
  <2>1. Successor(c.last_sequence) \in SequenceNumbers
    BY <1>1, SeqMaxAssumption DEF Successor, SequenceNumbers
  <2> QED  BY <2>1 DEF Entries
<1>3. /\ u.buffer = Append(t.buffer, entry)
      /\ u.last_sequence = Successor(c.last_sequence)
      /\ u.last_ack = t.last_ack /\ u.ignore_count = t.ignore_count
      /\ u.first_replay = t.first_replay /\ u.scheduled = t.scheduled
  BY <1>1 DEF Enqueue, TxStates
<1>4. /\ e.last_sequence = Successor(c.last_sequence) /\ e.last_ack = c.last_ack
      /\ e.ignore = c.ignore /\ e.unacked = n + 1 /\ e.head = h
      /\ e.write = Wrap(c.write + 1) /\ e.replay_sequence = c.replay_sequence
      /\ e.scheduled = 0 /\ e.replay_pointer = c.replay_pointer
      /\ e = [last_sequence |-> e.last_sequence, last_ack |-> e.last_ack,
              ignore |-> e.ignore, unacked |-> e.unacked, head |-> e.head, write |-> e.write,
              replay_sequence |-> e.replay_sequence, scheduled |-> e.scheduled,
              replay_pointer |-> e.replay_pointer, first |-> e.first]
  BY <1>1 DEF Issuing, Replays, Accepts, Bit
<1>5. e.first = c.first
  <2>1. c.first \in BOOLEAN
    BY <1>1 DEF RingStates
  <2> QED  BY <1>1, <2>1 DEF Issuing, Replays
<1> HIDE DEF entry, u, e, n, h
<1>6. Len(u.buffer) = n + 1 /\ u.buffer[n + 1] = entry /\ \A i \in 1..n : u.buffer[i] = t.buffer[i]
  BY <1>1, <1>3
<1> DEFINE w == c.write
<1>7. w + 1 \in 0..(2 * Capacity - 1) /\ w \in Int
  BY <1>1 DEF Slots
<1>8. e.write = At(h + (n + 1)) /\ e.write \in Slots
  <2> DEFINE x == h + n
             y == x + 1
             z == w + 1
  <2>1. x \in 0..(2 * Capacity - 1) /\ y \in 0..(2 * Capacity - 1) /\ z \in 0..(2 * Capacity - 1)
        /\ h + (n + 1) = y /\ x \in Int
    BY <1>1, <1>7 DEF Slots
  <2>2. w = At(x) /\ e.write = Wrap(z) /\ y = x + 1 /\ z = w + 1
    BY <1>1, <1>4
  <2> HIDE DEF x, y, z, w
  <2>3. /\ At(x) = (IF x >= Capacity THEN x - Capacity ELSE x)
        /\ At(y) = (IF y >= Capacity THEN y - Capacity ELSE y)
        /\ Wrap(z) = (IF z >= Capacity THEN z - Capacity ELSE z)
        /\ Wrap(z) \in Slots
    BY <2>1, WrapIsAt
  <2>4. Wrap(z) = At(y)
    <3>1. h \in 0..(Capacity - 1) /\ n < Capacity
      BY <1>1 DEF Slots
    <3>2. x = h + n
      BY DEF x
    <3> QED  BY <1>1, <2>1, <2>2, <2>3, <3>1, <3>2
  <2> QED  BY <2>1, <2>2, <2>3, <2>4
<1>9. m2 \in [Slots -> Cells] /\ m2[w] = entry /\ \A x \in Slots : x # w => m2[x] = m[x]
  BY <1>1, <1>2 DEF Cells
<1> HIDE DEF m2
<1>10. ASSUME NEW i \in 1..(n + 1)
       PROVE  m2[At(h + i - 1)] = u.buffer[i]
  <2> DEFINE j == i - 1
  <2>1. /\ j \in 0..n /\ j \in 0..(Capacity - 1) /\ n \in 0..(Capacity - 1)
        /\ h + i - 1 = h + j /\ i \in Int /\ i = j + 1
    BY <1>1
  <2> HIDE DEF j
  <2>2. CASE j = n
    BY <1>1, <1>6, <1>9, <2>1, <2>2
  <2>3. ASSUME j # n  PROVE m2[At(h + j)] = u.buffer[i]
    <3>1. At(h + j) # w
      BY <1>1, <2>1, <2>3, AtOneToOne
    <3>2. At(h + j) \in Slots
      <4> DEFINE x == h + j
      <4>1. x \in 0..(2 * Capacity - 1)
        BY <1>1, <2>1 DEF Slots
      <4> HIDE DEF x
      <4>2. At(x) \in Slots
        BY <4>1, WrapIsAt
      <4> QED  BY <4>2 DEF x
    <3>3. i \in 1..n
      BY <1>1, <2>1, <2>3
    <3>4. m[At(h + i - 1)] = t.buffer[i]
      BY <3>3 DEF Means, h, n
    <3> QED  BY <1>6, <1>9, <2>1, <3>1, <3>2, <3>3, <3>4
  <2> QED  BY <2>1, <2>2, <2>3
<1>11. e \in RingStates
  <2>1. n + 1 \in 0..MaxLive /\ 0 \in 0..MaxLive
    BY <1>1
  <2> QED  BY <1>1, <1>2, <1>4, <1>5, <1>8, <2>1 DEF RingStates, h
<1>12. e.unacked = Len(u.buffer) /\ \A i \in 1..e.unacked : m2[At(e.head + i - 1)] = u.buffer[i]
  BY <1>4, <1>6, <1>10
<1>13. /\ e.last_sequence = u.last_sequence /\ e.last_ack = u.last_ack
       /\ e.ignore = u.ignore_count /\ e.first = u.first_replay
       /\ e.scheduled = Len(u.scheduled)
  BY <1>1, <1>3, <1>4, <1>5 DEF Means
<1>14. /\ \A i \in 1..e.scheduled : m2[At(e.replay_pointer + i - 1)] = u.scheduled[i]
       /\ ~(e.scheduled > 0)
  BY <1>4
<1>15. e.write = At(e.head + e.unacked)
  BY <1>4, <1>8
<1>16. Means(e, m2, u)
  BY <1>9, <1>11, <1>12, <1>13, <1>14, <1>15 DEF Means
<1> QED  BY <1>16 DEF e, m2, u, entry

\* Without an issue nothing moves.
LEMMA RestMoves ==
  ASSUME NEW c, c \in RingStates, NEW push \in BOOLEAN, NEW take \in BOOLEAN,
         ~(push /\ Accepts(c)), ~(take /\ Replays(c))
  PROVE  Issuing(c, push, take) = c
<1>1. c.first \in BOOLEAN /\ c.scheduled \in 0..MaxLive
  BY DEF RingStates
<1>2. c.scheduled - 0 = c.scheduled
  BY <1>1, LiveLimit
<1> QED  BY <1>1, <1>2 DEF Issuing, RingStates, Bit

\* The registers after a reset mean an empty transmitter, whatever is in memory.
LEMMA ResetMeans ==
  ASSUME NEW m \in [Slots -> Cells]
  PROVE  Means(RingReset, m, TxReset)
<1>1. /\ 0 \in Slots /\ 0 \in 0..MaxLive /\ 0 \in 0..SeqMax /\ 0 \in 0..IgnoreWindow
      /\ SeqMax \in SequenceNumbers
  BY LiveLimit, SeqMaxAssumption, IgnoreWindowAssumption DEF Slots, SequenceNumbers
<1>2. RingReset \in RingStates
  BY <1>1 DEF RingReset, RingStates
<1>3. At(0 + 0) = 0
  BY LiveLimit DEF At
<1> QED  BY <1>2, <1>3 DEF Means, RingReset, TxReset
===============================================================================
