------------------------------ MODULE ReplayLink ------------------------------
(* Two link-level-retry endpoints (model/ualink/dl_replay_scheduler.py) and     *)
(* the two wires between them.  Every Send is one Flit interval of one peer:    *)
(* the scheduler picks a replayed payload, a new one or a NOP and the header    *)
(* that goes with it.  Every Receive or Discard is one ingress event: receiver  *)
(* and transmitter consume the same Flit.                                       *)
(*                                                                              *)
(* The lanes drive them: in every Flit interval each peer consumes the Flit     *)
(* that arrived and sends one, and a Flit takes exactly Latency intervals (the  *)
(* loop of test_two_automatic_peers_ordered_content_and_recovery in             *)
(* verification/model/test_dl_replay_scheduler.py).                             *)
(*                                                                              *)
(* The wires are ordered and lose nothing: lanes always carry a Flit, and an    *)
(* error shows as a bad CRC, never as a missing Flit.  Corruption and storage   *)
(* discards are bounded by MaxFaults in total, the Flits under way by Latency.  *)
EXTENDS ReplayTransmitter, ReplayReceiver

CONSTANTS ExplicitPeriod,  \* the 7 Flits between headers with a full sequence number
          RequestCopies,   \* the 3 copies of a replay request
          GroupSpan,       \* the Flits of one FEC codeword group
          Peers,           \* the two endpoints
          Sources,         \* the endpoints whose upper layer offers payloads
          NoPayload,       \* nothing offered, nothing carried, nothing delivered yet
          Latency,         \* bound on the Flits under way in one direction
          MaxFaults        \* bound on corrupted and discarded Flits

ASSUME PeersAssumption == /\ \E p, q \in Peers : p # q /\ Peers = {p, q}
                          /\ Sources \subseteq Peers
ASSUME ScheduleAssumption == /\ ExplicitPeriod \in Nat \ {0}
                             /\ RequestCopies \in Nat \ {0}
                             /\ GroupSpan \in Nat \ {0}
ASSUME BoundsAssumption == /\ Latency \in Nat \ {0} /\ MaxFaults \in Nat
                           /\ NoPayload \notin Payloads
                           /\ Cardinality(Payloads) \in Nat \ {0}
                           /\ Payloads = 0..(Cardinality(Payloads) - 1)

VARIABLES tx,         \* tx[p]: the transmitter of peer p
          rx,         \* rx[p]: the receiver of peer p
          sched,      \* sched[p]: the scheduler of peer p
          group,      \* group[p]: Flits p has sent in the current codeword group
          wire,       \* wire[p]: the Flits on their way to p
          offered,    \* offered[p]: the payload the upper layer of p offers next
          delivered,  \* delivered[p]: the payload last delivered to the upper layer of p
          faults,     \* corrupted and discarded Flits so far
          phase,      \* what the peers do now: "send" or "receive"
          pending     \* the peers that have not done it in this interval

vars == <<tx, rx, sched, group, wire, offered, delivered, faults>>
lockVars == <<vars, phase, pending>>

Other(p) == CHOOSE q \in Peers : q # p

\* request_in_group says that the group the last request copy went into is the
\* current one (last_request_group = last_flit_group in the code).
ScheduleReset == [explicit_count |-> ExplicitPeriod, replay_requests |-> 0,
                  request_sequence |-> 0, request_in_group |-> FALSE]

Init == /\ tx = [p \in Peers |-> TxReset]
        /\ rx = [p \in Peers |-> RxReset]
        /\ sched = [p \in Peers |-> ScheduleReset]
        /\ group = [p \in Peers |-> 0]
        /\ wire = [p \in Peers |-> << >>]
        /\ offered = [p \in Peers |-> 0]
        /\ delivered = [p \in Peers |-> NoPayload]
        /\ faults = 0
-------------------------------------------------------------------------------
(* Sending one Flit: the payload.                                               *)

\* What the transmitter puts in the slot, before the header is chosen: the
\* state after it, the entry carried (or none) and how it got there.
Selection(t, hasPayload, entry, replayed, first) ==
  [tx |-> t, payload |-> hasPayload, entry |-> entry, replayed |-> replayed, first |-> first]

Nop(t) == Selection(t, FALSE, [sequence |-> t.last_sequence, payload |-> NoPayload], FALSE, FALSE)

\* A replay under way comes before the offered payload, which a full buffer
\* refuses: then a NOP goes out.
Select(t, offer, payload) ==
  LET pushed == Enqueue(t, payload)
  IN  IF t.scheduled # << >>
        THEN Selection(NextReplay(t), TRUE, Head(t.scheduled), TRUE, t.first_replay)
      ELSE IF offer /\ CanEnqueue(t)
        THEN Selection(pushed, TRUE, pushed.buffer[Len(pushed.buffer)], FALSE, FALSE)
      ELSE Nop(t)
-------------------------------------------------------------------------------
(* Sending one Flit: the header.  s is the scheduler, r the receiver beside it, *)
(* sel what was selected, requested whether the current codeword group already  *)
(* holds a request copy.                                                        *)

\* The counter of the period, and whether this Flit must be explicit.
ExplicitCount(s) == IF s.explicit_count > 0 THEN s.explicit_count - 1 ELSE 0
MustBeExplicit(s, sel) == sel.first \/ ExplicitCount(s) = 0
SendsRequest(s, sel, requested) ==
  ~MustBeExplicit(s, sel) /\ s.replay_requests > 0 /\ ~requested

\* The first copy of a request captures its target; the others repeat it.
RequestTarget(s, r) ==
  IF s.replay_requests = RequestCopies THEN Successor(r.last_sequence)
  ELSE s.request_sequence

Acknowledged(r) == r.last_sequence

NextHeader(s, r, sel, requested) ==
  LET low == sel.entry.sequence % LowMod
  IN  IF MustBeExplicit(s, sel)
        THEN EncodeExplicit(sel.entry.sequence, sel.payload, sel.replayed)
      ELSE IF SendsRequest(s, sel, requested)
        THEN EncodeCommand(low, RequestTarget(s, r), sel.payload, TRUE)
      ELSE EncodeCommand(low, Acknowledged(r), sel.payload, FALSE)

NextSchedule(s, r, sel, requested) ==
  LET request == SendsRequest(s, sel, requested)
  IN  [explicit_count |-> IF MustBeExplicit(s, sel) THEN ExplicitPeriod ELSE ExplicitCount(s),
       replay_requests |-> IF request THEN s.replay_requests - 1 ELSE s.replay_requests,
       request_sequence |-> IF request THEN RequestTarget(s, r) ELSE s.request_sequence,
       request_in_group |-> request \/ requested]

\* The Flit that goes out: the header and what was selected.
Sent(s, r, sel, requested) ==
  [header |-> NextHeader(s, r, sel, requested), payload |-> sel.entry.payload]

\* Groups follow one another: the Flits of the group after one more is sent, and
\* whether that Flit goes into a group that already holds a request copy.
NextGroup(g) == IF g = GroupSpan THEN 1 ELSE g + 1
Requested(s, g) == g # GroupSpan /\ s.request_in_group

\* The upper layer keeps its payload until it is accepted, then offers the next.
NextOffer(p, sel) ==
  IF sel.payload /\ ~sel.replayed THEN (offered[p] + 1) % Cardinality(Payloads)
  ELSE offered[p]

Send(p, offer) ==
  LET q == Other(p)
      sel == Select(tx[p], offer, offered[p])
      requested == Requested(sched[p], group[p])
  IN  /\ offer => p \in Sources
      /\ Len(wire[q]) < Latency
      /\ tx' = [tx EXCEPT ![p] = sel.tx]
      /\ sched' = [sched EXCEPT ![p] = NextSchedule(sched[p], rx[p], sel, requested)]
      /\ group' = [group EXCEPT ![p] = NextGroup(@)]
      /\ wire' = [wire EXCEPT ![q] = Append(@, Sent(sched[p], rx[p], sel, requested))]
      /\ offered' = [offered EXCEPT ![p] = NextOffer(p, sel)]
      /\ UNCHANGED <<rx, delivered, faults>>
-------------------------------------------------------------------------------
(* One ingress event.  The receiver looks at the Flit first, then the           *)
(* transmitter obeys the command in it, whatever the receiver decided.          *)

Command(f) == DecodeHeader(f.header)

\* A request the receiver wants is counted down by the scheduler as it is sent.
Asked(s, outcome) == [s EXCEPT !.replay_requests = IF outcome.request THEN RequestCopies ELSE @]

Ingress(p, outcome, t) ==
  /\ rx' = [rx EXCEPT ![p] = outcome.state]
  /\ tx' = [tx EXCEPT ![p] = t]
  /\ sched' = [sched EXCEPT ![p] = Asked(@, outcome)]
  /\ delivered' = [delivered EXCEPT ![p] = IF outcome.deliver THEN Head(wire[p]).payload ELSE @]
  /\ wire' = [wire EXCEPT ![p] = Tail(@)]
  /\ UNCHANGED <<group, offered>>

Fault == faults < MaxFaults /\ faults' = faults + 1

Receive(p, crc_ok) ==
  LET h == Command(Head(wire[p]))
  IN  /\ wire[p] # << >>
      /\ Ingress(p, RxReceive(rx[p], h, crc_ok), TxReceive(tx[p], h, crc_ok))
      /\ IF crc_ok THEN UNCHANGED faults ELSE Fault

DiscardIngress(p) ==
  /\ wire[p] # << >>
  /\ Ingress(p, RxDiscard(rx[p]), AgeIgnore(tx[p]))
  /\ Fault
-------------------------------------------------------------------------------
(* The intervals.                                                               *)

LockInit == Init /\ phase = "send" /\ pending = Peers

\* The peers act one after the other; the two orders lead to the same state,
\* because a peer only takes from its own wire and only appends to the other.
Acts(p) == p = CHOOSE q \in pending : TRUE

\* While the wires fill up nothing arrives, so sending follows sending.
NextPhase(p) ==
  IF phase = "send" /\ Len(wire'[Other(p)]) = Latency THEN "receive" ELSE "send"

EndTurn(p) ==
  IF pending = {p} THEN pending' = Peers /\ phase' = NextPhase(p)
  ELSE pending' = pending \ {p} /\ phase' = phase

IntervalSend(p) ==
  /\ phase = "send" /\ Acts(p)
  /\ \E offer \in BOOLEAN : Send(p, offer)
  /\ EndTurn(p)

IntervalReceive(p) ==
  /\ phase = "receive" /\ Acts(p)
  /\ DiscardIngress(p) \/ \E crc_ok \in BOOLEAN : Receive(p, crc_ok)
  /\ EndTurn(p)

LockNext == \E p \in pending : IntervalSend(p) \/ IntervalReceive(p)

LockSpec == LockInit /\ [][LockNext]_lockVars

\* The lanes never stop, so there is always a next interval; whether the upper
\* layer offers a payload in it is up to the upper layer.
LockFairSpec == LockSpec /\ WF_lockVars(LockNext)
-------------------------------------------------------------------------------
(* Properties.                                                                  *)

\* What p accepted and its peer has not delivered: the part of the transmit
\* buffer behind the receiver's last sequence number.
Undelivered(p) ==
  LET buffer == tx[p].buffer
      got == Distance(tx[p].last_ack, rx[Other(p)].last_sequence)
  IN  [i \in 1..(Len(buffer) - got) |-> buffer[got + i].payload]

Stream == INSTANCE ReliableStream
            WITH queue <- [p \in Peers |-> Undelivered(p)],
                 out <- [p \in Peers |-> delivered[Other(p)]]

\* Each direction is a reliable stream: through corruption, discards, stale
\* requests, replays and wrap-around, every payload is delivered once and in the
\* order it was accepted.
InOrderDelivery == Stream!Spec

\* The same as a state predicate.  The upper layer offers 0, 1, 2, ... modulo
\* the number of payloads, so what is undelivered must continue the delivered
\* payload without a gap and end just before the next offer.
NothingLostOrRepeated ==
  \A p \in Peers :
    LET last == delivered[Other(p)]
        next == IF last = NoPayload THEN 0 ELSE last + 1
        queue == Undelivered(p)
        K == Cardinality(Payloads)
    IN  /\ \A i \in DOMAIN queue : queue[i] = (next + i - 1) % K
        /\ offered[p] = (next + Len(queue)) % K

\* A transmitter never counts as acknowledged what its peer has not delivered,
\* and the receiver is never ahead of what was sent: the receiver's position
\* lies in the unacknowledged window.
AckBehindDelivery ==
  \A p \in Peers :
    Distance(tx[p].last_ack, rx[Other(p)].last_sequence) <= Len(tx[p].buffer)

\* The commands under way to p make sense when they arrive: an acknowledgement
\* is never older than last_ack nor newer than what the peer delivered, and they
\* arrive in order, so that a healthy link never rejects one as unexpected.
AcksArriveInOrder ==
  \A p \in Peers :
    LET base == tx[p].last_ack
        Acked(i) == Distance(base, Command(wire[p][i]).ack_request)
        acks == {i \in DOMAIN wire[p] : Command(wire[p][i]).op = OpAck}
    IN  /\ \A i \in acks : Acked(i) <= Distance(base, rx[Other(p)].last_sequence)
        /\ \A i, j \in acks : i < j => Acked(i) <= Acked(j)

\* What is acknowledged was delivered, in every place an acknowledgement can be.
AcksMakeSense == AckBehindDelivery /\ AcksArriveInOrder

\* Once faults stop, accepted payloads keep being acknowledged and released until
\* none is left: no combination of lost Flits, lost or ignored requests and
\* ambiguity stops the link.
EveryPayloadReleased ==
  \A p \in Sources :
    \/ []<>(tx[p].buffer = << >>)
    \/ []<><<tx[p].last_ack' # tx[p].last_ack>>_lockVars
===============================================================================
