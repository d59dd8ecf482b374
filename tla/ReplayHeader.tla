----------------------------- MODULE ReplayHeader -----------------------------
(* The logical 24-bit replay header of one link-level-retry Flit               *)
(* (model/ualink/dl_replay_header.py), together with the ring of sequence      *)
(* numbers every other replay module computes on.                              *)
(*                                                                             *)
(* The numbers of the code are parameters here: SeqMax is its 511 (sequence    *)
(* numbers are 1..SeqMax and the successor of SeqMax is 1), LowMod its 8 (the  *)
(* values of the three low sequence bits a command carries) and ReservedMod    *)
(* its 256 (the values of the eight low bits nobody reads).                    *)
EXTENDS Integers

CONSTANTS SeqMax, LowMod, ReservedMod

ASSUME SeqMaxAssumption == SeqMax \in Nat /\ SeqMax >= 3 /\ SeqMax % 2 = 1
ASSUME LowModAssumption == /\ LowMod \in Nat /\ LowMod >= 2
                           /\ (SeqMax + 1) % LowMod = 0
ASSUME ReservedModAssumption == ReservedMod \in Nat \ {0}

SequenceNumbers == 1..SeqMax
SeqMod == SeqMax + 1

\* A field the decoded header does not have (Python's None).
NoField == -1

\* Slip: the wrap from SeqMax to 1 forgotten.
SuccessorWithoutWrap(s) == s + 1

Successor(s) == IF s = SeqMax THEN 1 ELSE s + 1

\* How many successors lead from a to b, and the number i successors after a.
Distance(a, b) == (b - a) % SeqMax
Nth(a, i) == IF a + i > SeqMax THEN a + i - SeqMax ELSE a + i

\* The 255 of the code: at most this many payloads are unacknowledged.
Window == SeqMax \div 2

\* The op field: explicit sequence, explicit sequence of a replayed payload,
\* acknowledgement, replay request.  1 without payload and 4..7 are reserved.
OpExplicit == 0
OpReplay == 1
OpAck == 2
OpRequest == 3

CommandOps == {OpAck, OpRequest}
-------------------------------------------------------------------------------
(* Encoding.  op and the payload bit lead, then one field of SeqMod * LowMod   *)
(* values, then the reserved byte, which a sender leaves zero.                 *)

FieldMod == SeqMod * LowMod
Bit(b) == IF b THEN 1 ELSE 0
Word(op, payload, field) == ((2 * op + Bit(payload)) * FieldMod + field) * ReservedMod
Words == 0..(16 * FieldMod * ReservedMod - 1)

EncodeExplicit(sequence, payload, replay) ==
  Word(IF replay THEN OpReplay ELSE OpExplicit, payload, sequence)

EncodeCommand(low, target, payload, request) ==
  Word(IF request THEN OpRequest ELSE OpAck, payload, target * LowMod + low)
-------------------------------------------------------------------------------
(* Decoding.  A malformed word decodes to a header that names its error.       *)

WordOp(word) == word \div (2 * FieldMod * ReservedMod)
WordPayload(word) == (word \div (FieldMod * ReservedMod)) % 2 = 1
WordField(word) == (word \div ReservedMod) % FieldMod

NoError == "none"

Header(op, payload, sequence, low, target, error) ==
  [op |-> op, payload |-> payload, sequence |-> sequence,
   sequence_low |-> low, ack_request |-> target, error |-> error]

DecodeHeader(word) ==
  LET op == WordOp(word)
      payload == WordPayload(word)
      sequence == WordField(word) % SeqMod
      target == WordField(word) \div LowMod
  IN  CASE op >= 4 \/ (op = OpReplay /\ ~payload) ->
             Header(op, payload, NoField, NoField, NoField, "reserved_op")
        [] op = OpExplicit \/ (op = OpReplay /\ payload) ->
             Header(op, payload, sequence, NoField, NoField,
                    IF sequence = 0 THEN "zero_sequence" ELSE NoError)
        [] op \in CommandOps ->
             Header(op, payload, NoField, WordField(word) % LowMod, target,
                    IF target = 0 THEN "zero_ack_request" ELSE NoError)
===============================================================================
