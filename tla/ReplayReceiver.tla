----------------------------- MODULE ReplayReceiver -----------------------------
(* The receive half of link-level retry (model/ualink/dl_replay_receiver.py):   *)
(* which received Flits are trusted, what is delivered, and when the peer is    *)
(* asked to replay.  The operators take the receiver state r; RxReceive and     *)
(* RxDiscard return an outcome that holds the next state and what the caller    *)
(* must act on.                                                                 *)
EXTENDS ReplayHeader

CONSTANTS BadLimit,      \* the 7 bad Flits that make the low sequence bits ambiguous
          UnexpectedMax, \* the 255 at which the unexpected count saturates
          ReplayLimit    \* the programmed number of unexpected Flits per request

\* What is lost unnoticed must not reach the numbers at which low bits repeat.
ASSUME BadLimitAssumption == BadLimit \in Nat \ {0} /\ BadLimit < LowMod
ASSUME ReplayLimitAssumption == /\ UnexpectedMax \in Nat
                                /\ ReplayLimit \in 0..UnexpectedMax

RxReset == [last_sequence |-> SeqMax, bad_crc_count |-> 0, unexpected_count |-> 0,
            ambiguous |-> FALSE, replay |-> FALSE]

RxStates == [last_sequence : SequenceNumbers, bad_crc_count : 0..BadLimit,
             unexpected_count : 0..UnexpectedMax, ambiguous : BOOLEAN, replay : BOOLEAN]

Min2(a, b) == IF a < b THEN a ELSE b

\* What one ingress event leads to: deliver says the payload goes to the user,
\* request that the peer is to be asked to replay.
Outcome(r, accepted, deliver, request) ==
  [state |-> r, accepted |-> accepted, deliver |-> deliver, request |-> request]

Ignored(r) == Outcome(r, FALSE, FALSE, FALSE)

\* While waiting for a replay, every ReplayLimit-th event that does not end the
\* wait asks for it again.
UnexpectedInReplay(r) ==
  LET count == Min2(UnexpectedMax, r.unexpected_count + 1)
      request == count >= ReplayLimit
  IN  Outcome([r EXCEPT !.unexpected_count = IF request THEN 0 ELSE count],
              FALSE, FALSE, request)

\* Slip: the limit compared before the bad Flit is counted.
RxDiscardLate(r) ==
  LET counted == [r EXCEPT !.bad_crc_count = Min2(BadLimit, @ + 1),
                           !.ambiguous = @ \/ r.bad_crc_count >= BadLimit]
  IN  IF r.replay THEN UnexpectedInReplay(counted) ELSE Ignored(counted)

\* A Flit with a bad CRC or a reserved operation, or one storage refused.
RxDiscard(r) ==
  LET bad == Min2(BadLimit, r.bad_crc_count + 1)
      counted == [r EXCEPT !.bad_crc_count = bad, !.ambiguous = @ \/ bad >= BadLimit]
  IN  IF r.replay THEN UnexpectedInReplay(counted) ELSE Ignored(counted)

\* The full sequence number a header means: explicit, or completed from the low
\* bits of a command.  The completion counts modulo SeqMax + 1, so it can be 0.
FullSequence(r, h) ==
  LET delta == (h.sequence_low - (r.last_sequence % LowMod)) % LowMod
      step == IF h.payload /\ delta = 0 THEN LowMod ELSE delta
  IN  IF h.sequence # NoField THEN h.sequence ELSE (r.last_sequence + step) % SeqMod

\* Slip: ambiguity ignored.
TrustedThoughAmbiguous(r, h) == h.sequence # NoField \/ ~r.replay

Trusted(r, h) == h.sequence # NoField \/ (~r.ambiguous /\ ~r.replay)

\* Slip: any other payload number taken for the next.
ExpectedIfNew(r, h) == h.payload = (FullSequence(r, h) # r.last_sequence)

\* A payload must follow the last one, a NOP must repeat its number.
Expected(r, h) ==
  FullSequence(r, h) = IF h.payload THEN Successor(r.last_sequence) ELSE r.last_sequence

Accept(r, h) ==
  Outcome([RxReset EXCEPT !.last_sequence = FullSequence(r, h)], TRUE, h.payload, FALSE)

\* A trusted Flit out of sequence starts a wait for replay, or counts in it.
Unexpected(r) ==
  IF r.replay THEN UnexpectedInReplay(r)
  ELSE Outcome([r EXCEPT !.replay = TRUE, !.unexpected_count = 0], FALSE, FALSE, TRUE)

RxReceive(r, h, crc_ok) ==
  CASE ~crc_ok \/ h.error = "reserved_op" -> RxDiscard(r)
    [] crc_ok /\ h.error \in {"zero_sequence", "zero_ack_request"} -> Ignored(r)
    [] crc_ok /\ h.error = NoError ->
         CASE Trusted(r, h) /\ Expected(r, h) -> Accept(r, h)
           [] Trusted(r, h) /\ ~Expected(r, h) -> Unexpected(r)
           [] ~Trusted(r, h) /\ r.replay -> UnexpectedInReplay(r)
           [] ~Trusted(r, h) /\ ~r.replay -> Ignored(r)
===============================================================================
