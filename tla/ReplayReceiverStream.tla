------------------------- MODULE ReplayReceiverStream -------------------------
(* One receiver (model/ualink/dl_replay_receiver.py) behind a wire that loses  *)
(* Flits.  The peer is reduced to what the receiver relies on: payloads go out *)
(* under consecutive numbers, a NOP repeats the last one, any Flit may carry   *)
(* its number in full or only its low bits, and a restart, which begins with a *)
(* full number, happens only while the receiver waits for it.  ReplayLink      *)
(* shows when the real transmitter keeps to that.                              *)
EXTENDS ReplayReceiver

VARIABLES rx,     \* the receiver
          sent,   \* the number of the last payload the peer sent
          first   \* the peer is about to send the first Flit of a replay

streamVars == <<rx, sent, first>>

StreamInit == rx = RxReset /\ sent = SeqMax /\ first = FALSE

\* What arrives when the peer sends a Flit under this number.
Arrives(payload, sequence, explicit) ==
  DecodeHeader(IF explicit THEN EncodeExplicit(sequence, payload, payload /\ first)
               ELSE EncodeCommand(sequence % LowMod, 1, payload, FALSE))

Ingest(payload, sequence, explicit) ==
  \/ \E crc_ok \in BOOLEAN :
       rx' = RxReceive(rx, Arrives(payload, sequence, explicit), crc_ok).state
  \/ rx' = RxDiscard(rx).state

SendPayload(explicit) ==
  LET sequence == Successor(sent)
  IN  /\ Distance(rx.last_sequence, sent) < Window
      /\ first => explicit
      /\ Ingest(TRUE, sequence, explicit)
      /\ sent' = sequence
      /\ first' = FALSE

SendNop(explicit) ==
  /\ ~first
  /\ Ingest(FALSE, sent, explicit)
  /\ UNCHANGED <<sent, first>>

\* The peer obeys a request: the next payload is the one the receiver expects.
Restart ==
  /\ rx.replay
  /\ sent' = rx.last_sequence
  /\ first' = TRUE
  /\ UNCHANGED rx

StreamNext == \/ \E explicit \in BOOLEAN : SendPayload(explicit) \/ SendNop(explicit)
              \/ Restart

StreamSpec == StreamInit /\ [][StreamNext]_streamVars
-------------------------------------------------------------------------------
(* Properties.                                                                 *)

\* The receiver state stays in its ranges.
StreamTypeOK == rx \in RxStates /\ sent \in SequenceNumbers /\ first \in BOOLEAN

\* As long as the receiver trusts low sequence bits, it misses at most as many
\* payloads as it counted bad Flits, so that a gap never reaches the LowMod
\* numbers at which the low bits repeat.
GapIsCounted ==
  ~rx.ambiguous /\ ~rx.replay =>
    /\ Distance(rx.last_sequence, sent) <= rx.bad_crc_count
    /\ rx.bad_crc_count < BadLimit

\* The receiver's position only ever moves to the number of the payload that was
\* just sent, one step at a time: neither a skipped nor an old payload is taken
\* for the next one, also across the wrap from SeqMax to 1.
AcceptsOnlyNext ==
  [][rx'.last_sequence # rx.last_sequence =>
       rx'.last_sequence = sent' /\ sent' = Successor(rx.last_sequence)]_streamVars
===============================================================================
