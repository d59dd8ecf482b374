------------------------------ MODULE ReplayPort ------------------------------
(* One endpoint of the replay link as the hardware builds it: the receiver     *)
(* rtl/dl/dl_replay_receiver.v, the header generator rtl/dl/                   *)
(* dl_replay_header_tx.v, and their composition with the transmit ring in      *)
(* rtl/dl/dl_replay_event_port.v and rtl/dl/dl_replay_data_port.v.             *)
(*                                                                             *)
(* The receiver and the header generator keep the registers of the reference   *)
(* under other names, so that the hardware needs no variable of its own here:  *)
(* the agreement is checked as a function, from every state the reference link *)
(* reaches, for one clock edge in which a Flit arrives and another is issued.  *)
EXTENDS ReplayLink

\* The header fields, read from the word without the checks of the decoder.
WordLow(word) == WordField(word) % LowMod
WordTarget(word) == WordField(word) \div LowMod
WordSequence(word) == WordField(word) % SeqMod

\* The largest of the small saturating counter: full means ambiguous.
Saturating(n, limit) == IF n = limit THEN limit ELSE n + 1
-------------------------------------------------------------------------------
(* The receiver.  c has the five registers, named as in the reference.         *)

\* The low bits have gone round since the last accepted number.
WrapsLow(c, word) ==
  \/ WordLow(word) < c.last_sequence % LowMod
  \/ WordPayload(word) /\ WordLow(word) = c.last_sequence % LowMod

\* The high bits count up with a carry that is cut off at their width.
CompletedSequence(c, word) ==
  ((c.last_sequence \div LowMod + Bit(WrapsLow(c, word))) % (SeqMod \div LowMod)) * LowMod
    + WordLow(word)

\* What one event does: discard says that storage refused the Flit.
HwReceive(c, discard, crc_ok, word) ==
  LET op == WordOp(word)
      payload == WordPayload(word)
      explicit == op \in {0, 1}
      command == op \in {2, 3}
      bad == discard \/ ~crc_ok \/ ~(op = 0 \/ (op = 1 /\ payload) \/ command)
      valid == ~bad /\ (IF explicit THEN WordSequence(word) # 0 ELSE WordTarget(word) # 0)
      sequence == IF explicit THEN WordSequence(word) ELSE CompletedSequence(c, word)
      expected == IF ~payload THEN c.last_sequence
                  ELSE IF c.last_sequence = SeqMax THEN 1 ELSE c.last_sequence + 1
      trusted == explicit \/ (~c.ambiguous /\ ~c.replay)
      accept == /\ valid /\ trusted
                /\ IF explicit THEN WordSequence(word) = expected
                   ELSE WordLow(word) = expected % LowMod
      start == valid /\ trusted /\ ~accept /\ ~c.replay
      counts == c.replay /\ (bad \/ (valid /\ ~accept))
      unexpected == Saturating(c.unexpected_count, UnexpectedMax)
      retry == counts /\ unexpected >= ReplayLimit
      badCount == Saturating(c.bad_crc_count, BadLimit)
  IN  [state |-> [last_sequence |-> IF accept THEN sequence ELSE c.last_sequence,
                  bad_crc_count |-> IF accept THEN 0 ELSE IF bad THEN badCount
                                    ELSE c.bad_crc_count,
                  unexpected_count |-> IF accept \/ start \/ retry THEN 0
                                       ELSE IF counts THEN unexpected
                                       ELSE c.unexpected_count,
                  ambiguous |-> ~accept /\ (c.ambiguous \/ (bad /\ badCount = BadLimit)),
                  replay |-> ~accept /\ (c.replay \/ start)],
       accept |-> accept, sequence |-> IF valid THEN sequence ELSE 0,
       deliver |-> accept /\ payload, request |-> start \/ retry,
       command |-> IF valid /\ command
                   THEN [valid |-> TRUE, request |-> op = 3, target |-> WordTarget(word)]
                   ELSE NoCommand]

\* Nothing arrives in this edge.
HwQuiet(c) == [state |-> c, accept |-> FALSE, sequence |-> 0, deliver |-> FALSE,
               request |-> FALSE, command |-> NoCommand]
-------------------------------------------------------------------------------
(* The header generator.  h has its four registers, named as in the reference. *)

\* Slip: the count of copies still to send before this edge's request.
PendingLate(h, rx_request) == h.replay_requests

\* Copies still to send, a request of the same edge included.
Pending(h, rx_request) == IF rx_request THEN RequestCopies ELSE h.replay_requests

\* One edge in which a Flit with metadata m is sent, after the receiver accepted
\* up to rx_sequence and wants rx_request.
HwHeader(h, m, metadata_ok, rx_sequence, rx_request, newGroup) ==
  LET send == metadata_ok /\ rx_sequence # 0
      explicit == m.first \/ h.explicit_count <= 1
      request == ~explicit /\ Pending(h, rx_request) # 0 /\ (~h.request_in_group \/ newGroup)
      target == IF Pending(h, rx_request) = RequestCopies THEN Successor(rx_sequence)
                ELSE h.request_sequence
      word == IF explicit THEN Word(Bit(m.replay), m.payload, m.sequence)
              ELSE Word(2 + Bit(request), m.payload,
                           (IF request THEN target ELSE rx_sequence) * LowMod
                             + (m.sequence % LowMod))
  IN  [word |-> IF send THEN word ELSE 0, valid |-> send,
       state |-> [explicit_count |-> IF ~send THEN h.explicit_count
                                     ELSE IF explicit THEN ExplicitPeriod
                                     ELSE h.explicit_count - 1,
                  replay_requests |-> IF send /\ request THEN Pending(h, rx_request) - 1
                                      ELSE Pending(h, rx_request),
                  request_sequence |->
                    IF send /\ request /\ Pending(h, rx_request) = RequestCopies
                    THEN Successor(rx_sequence) ELSE h.request_sequence,
                  request_in_group |-> (send /\ request) \/ (h.request_in_group /\ ~newGroup)]]
-------------------------------------------------------------------------------
(* The data port: receiver, storage and header generator in one edge.          *)

\* The number the header of this edge acknowledges (o_rx_effective_sequence).
EffectiveSequence(r, c) == IF r.accept THEN r.sequence ELSE c.last_sequence

\* s is the storage, c and h the registers above, r what arrived in this edge.
HwIssue(s, c, h, r, ingress, offer, payload, newGroup) ==
  LET Known(m) == \/ m.payload /\ ~m.replay
                  \/ IF m.replay THEN \/ TakesRequest(s.control, r.command)
                                      \/ s.control.replay_sequence # 0
                     ELSE s.control.last_sequence # 0
      Sends(next) ==
        [slot |-> next.slot, data |-> OutData(next), tag_error |-> TagError(next),
         header |-> HwHeader(h, next.slot, Known(next.slot), EffectiveSequence(r, c),
                             r.request, newGroup)]
  IN  Sends(StorageEdge(s, ingress, r.command, TRUE, offer, payload, TRUE))

\* A ring that holds what the transmitter t holds: the resident payloads in a
\* row, the newest one last.
RingOf(t) ==
  LET live == Len(t.buffer)
      replayed == Len(t.scheduled)
      entries == IF live >= replayed THEN t.buffer ELSE t.scheduled
  IN  [control |-> [last_sequence |-> t.last_sequence, last_ack |-> t.last_ack,
                    ignore |-> t.ignore_count, unacked |-> live, scheduled |-> replayed,
                    head |-> Wrap(Len(entries) - live), write |-> Wrap(Len(entries)),
                    replay_sequence |-> IF replayed > 0 THEN t.scheduled[1].sequence ELSE 0,
                    replay_pointer |-> IF replayed > 0 THEN Len(entries) - replayed ELSE 0,
                    first |-> t.first_replay],
       memory |-> [i \in Slots |-> IF i < Len(entries) THEN entries[i + 1] ELSE Blank],
       slot |-> EmptySlot]
-------------------------------------------------------------------------------
(* Properties.                                                                 *)

\* Reference and hardware agree on one arriving Flit: state, delivery, request
\* and the command handed to the transmitter.
ReceiveAgrees(outcome, r) ==
  /\ r.state = outcome.state
  /\ r.accept = outcome.accepted /\ r.deliver = outcome.deliver /\ r.request = outcome.request

\* They agree on the Flit issued in the same edge: the header word, the number
\* and data it carries, and the registers left for the next header.
IssueAgrees(p, outcome, t, r, ingress, offer, newGroup) ==
  \A sel \in {Select(t, offer, offered[p])}, s \in {Asked(sched[p], outcome)},
     issue \in {HwIssue(RingOf(tx[p]), rx[p], sched[p], r, ingress, offer, offered[p],
                       newGroup)} :
    LET requested == ~newGroup /\ s.request_in_group
    IN  /\ ~issue.tag_error /\ issue.header.valid
        /\ issue.header.word = NextHeader(s, outcome.state, sel, requested)
        /\ issue.header.state = NextSchedule(s, outcome.state, sel, requested)
        /\ issue.slot.payload = sel.payload /\ issue.slot.sequence = sel.entry.sequence
        /\ sel.payload => issue.data = sel.entry.payload

EdgeAgrees(p, outcome, t, r, ingress) ==
  /\ ReceiveAgrees(outcome, r)
  /\ \A offer, newGroup \in BOOLEAN : IssueAgrees(p, outcome, t, r, ingress, offer, newGroup)

\* The hardware, which receives and issues in one clock edge, does what the
\* reference does one call after the other: for the peer whose turn it is and
\* whatever the wire brings it, the next header acknowledges and requests what the
\* Flit of the same edge made due, and carries what its command made next.
PortFollowsReference ==
  \A p \in pending :
    Acts(p) =>
      IF phase = "send" THEN EdgeAgrees(p, Ignored(rx[p]), tx[p], HwQuiet(rx[p]), FALSE)
      ELSE LET word == Head(wire[p]).header
               Agree(outcome, t, r) == EdgeAgrees(p, outcome, t, r, TRUE)
           IN  \A h \in {DecodeHeader(word)}, fate \in {"good", "bad", "discarded"} :
                 IF fate = "discarded"
                 THEN Agree(RxDiscard(rx[p]), AgeIgnore(tx[p]),
                            HwReceive(rx[p], TRUE, TRUE, word))
                 ELSE Agree(RxReceive(rx[p], h, fate = "good"),
                            TxReceive(tx[p], h, fate = "good"),
                            HwReceive(rx[p], FALSE, fate = "good", word))
===============================================================================
