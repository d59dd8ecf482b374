------------------------------ MODULE ReplayRing ------------------------------
(* One transmitter of link-level retry, and the hardware's beside it.          *)
(*                                                                             *)
(* Spec runs the transmitter alone against an environment that may offer any   *)
(* payload and deliver any header word in any order; RingSpec runs hardware    *)
(* and transmitter on the same inputs.                                         *)
EXTENDS ReplayTransmitter

VARIABLES tx,    \* the reference transmitter
          ring,  \* the hardware
          due    \* what the reference put into the output slot

ringVars == <<tx, ring, due>>
-------------------------------------------------------------------------------
(* One transmitter and an arbitrary environment.                               *)

Init == tx = TxReset

Send(payload) == CanEnqueue(tx) /\ tx' = Enqueue(tx, payload)
Receive(word, crc_ok) == tx' = TxReceive(tx, DecodeHeader(word), crc_ok)
DiscardIngress == tx' = AgeIgnore(tx)
Replay == tx.scheduled # << >> /\ tx' = NextReplay(tx)
Reset == tx' = TxReset

Next == \/ \E payload \in Payloads : Send(payload)
        \/ \E word \in Words, crc_ok \in BOOLEAN : Receive(word, crc_ok)
        \/ DiscardIngress
        \/ Replay
        \/ Reset

Spec == Init /\ [][Next]_tx
-------------------------------------------------------------------------------
(* Properties.                                                                 *)

\* The state stays in its declared ranges (TxState and the two content tuples).
TypeOK == tx \in TxStates

\* The buffer holds exactly the numbers after last_ack up to last_sequence, in
\* ring order, whatever wrap-around, releases and restarts came before.
BufferIsWindow ==
  /\ Len(tx.buffer) <= Window
  /\ tx.last_sequence = Nth(tx.last_ack, Len(tx.buffer))
  /\ \A i \in 1..Len(tx.buffer) : tx.buffer[i].sequence = Nth(tx.last_ack, i)

\* The modular window tests of receive() agree with what is really buffered: a
\* request in the window finds its entry (the code's next() never raises
\* StopIteration), no buffered number is refused, and an acknowledgement is
\* accepted exactly for last_ack itself and for buffered numbers.
WindowTestsMeanBuffered ==
  LET buffered == {tx.buffer[i].sequence : i \in DOMAIN tx.buffer}
  IN  \A target \in SequenceNumbers :
        /\ RequestInWindow(tx, target) <=> target \in buffered
        /\ AckInWindow(tx, target) <=> target \in buffered \cup {tx.last_ack}

\* A replay under way always runs to the newest payload: what is scheduled is
\* numbered consecutively up to last_sequence, also when acknowledgements
\* release part of it or a new request replaces it; replay says it is not empty
\* and first_replay that none of it was sent.
ScheduleRunsToTail ==
  LET n == Len(tx.scheduled)
  IN  /\ tx.replay <=> n > 0
      /\ tx.first_replay => tx.replay
      /\ \A i \in 1..n : Nth(tx.scheduled[i].sequence, n - i) = tx.last_sequence

\* Payloads kept alive by the buffer or by a replay never exceed the capacity,
\* although an acknowledged payload stays resident until its replay is sent.
ResidentBound == Cardinality(Resident(tx)) <= Capacity

\* A replayed payload has the content it was first sent with: the buffer and
\* the schedule never disagree about a number.
OneContentPerNumber ==
  \A e, f \in Resident(tx) : e.sequence = f.sequence => e = f
-------------------------------------------------------------------------------
(* Hardware and reference in lockstep.                                         *)

\* The headers that can arrive, up to what neither side reads: the payload bit,
\* the low sequence bits and the value of an explicit sequence number.
Headers == {h \in {DecodeHeader(word) : word \in Words} :
              ~h.payload /\ h.sequence_low <= 0 /\ h.sequence <= 1}

Nothing == [valid |-> FALSE, payload |-> FALSE, replay |-> FALSE, first |-> FALSE,
            sequence |-> 0, data |-> Blank.payload]

Carries(payload, replay, first, sequence, data) ==
  [valid |-> TRUE, payload |-> payload, replay |-> replay, first |-> first,
   sequence |-> sequence, data |-> data]

\* The reference in one interval, after it consumed what arrived: a replay goes
\* before the offered payload, and a NOP repeats the last number.
Reference(t, issue, offer, payload) ==
  CASE ~issue -> tx' = t /\ due' = Nothing
    [] issue /\ t.scheduled # << >> ->
         /\ tx' = NextReplay(t)
         /\ due' = Carries(TRUE, TRUE, t.first_replay, Head(t.scheduled).sequence,
                           Head(t.scheduled).payload)
    [] issue /\ t.scheduled = << >> /\ offer /\ CanEnqueue(t) ->
         /\ tx' = Enqueue(t, payload)
         /\ due' = Carries(TRUE, FALSE, FALSE, Successor(t.last_sequence), payload)
    [] issue /\ t.scheduled = << >> /\ ~(offer /\ CanEnqueue(t)) ->
         /\ tx' = t
         /\ due' = Carries(FALSE, FALSE, FALSE, t.last_sequence, Blank.payload)

\* One clock edge of both.  The output is taken in every interval (the data port
\* ties i_out_ready high).
Edge(t, ingress, cmd) ==
  \E issue, offer \in BOOLEAN, payload \in Payloads :
    /\ offer => issue
    /\ ~offer => payload = Blank.payload
    /\ Reference(t, issue, offer, payload)
    /\ ring' = StorageEdge(ring, ingress, cmd, issue, offer, payload, TRUE)

Idle == Edge(tx, FALSE, NoCommand)
ReceiveEdge(h, crc_ok) ==
  /\ ~crc_ok => h.op = OpRequest
  /\ Edge(TxReceive(tx, h, crc_ok), TRUE, CommandOf(h, crc_ok))
DiscardEdge == Edge(AgeIgnore(tx), TRUE, NoCommand)
LinkReset == tx' = TxReset /\ ring' = StorageReset(ring.memory) /\ due' = Nothing

RingInit == /\ Init
            /\ ring = StorageReset([i \in Slots |-> Blank])
            /\ due = Nothing

RingNext == \/ Idle
            \/ \E h \in Headers, crc_ok \in BOOLEAN : ReceiveEdge(h, crc_ok)
            \/ DiscardEdge
            \/ LinkReset

RingSpec == RingInit /\ [][RingNext]_ringVars
-------------------------------------------------------------------------------
(* Properties.                                                                 *)

\* The words the hardware keeps from slot start on.
Stored(start, n) == [i \in 1..n |-> ring.memory[(start + i - 1) % Capacity]]

\* The pointers and counters of the hardware mean the sequences of the
\* reference: from head on the memory holds exactly the unacknowledged payloads,
\* from the replay pointer on exactly the ones still to be replayed, also after
\* releases during a replay, requests in the edge of an issue and ring wraps.
RingHoldsBuffer ==
  LET c == ring.control
  IN  /\ c.last_sequence = tx.last_sequence /\ c.last_ack = tx.last_ack
      /\ c.ignore = tx.ignore_count /\ c.first = tx.first_replay
      /\ c.write = (c.head + c.unacked) % Capacity
      /\ Stored(c.head, c.unacked) = tx.buffer
      /\ Stored(c.replay_pointer, c.scheduled) = tx.scheduled
      /\ c.scheduled > 0 => c.replay_sequence = tx.scheduled[1].sequence

\* The output slot shows what the reference selected in the same interval, and
\* the tag stored with a replayed payload is the number it is replayed under.
SlotShowsSelected ==
  /\ ~TagError(ring)
  /\ due = IF ring.slot.valid
           THEN Carries(ring.slot.payload, ring.slot.replay, ring.slot.first,
                        ring.slot.sequence,
                        IF ring.slot.payload THEN OutData(ring) ELSE Blank.payload)
           ELSE Nothing

\* The hardware follows the reference (dl_replay_tx_control.v, dl_replay_tx_storage.v).
HardwareInStep == RingHoldsBuffer /\ SlotShowsSelected
===============================================================================
