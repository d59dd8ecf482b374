------------------------------ MODULE UartStream ------------------------------
(* Two ends of UART stream 0 over the ordered, lossless messages that          *)
(* link-level retry provides: at each end the buffers and credit of            *)
(* uart_credit.py and the reset sequencer of UartReset, coupled as the         *)
(* integration contract of uart_reset.py and the port rtl/dl/dl_uart_port.v    *)
(* couple them.                                                                *)
(*                                                                             *)
(* Credit is a pair of absolute counters modulo Modulus, the code's 4096.  An  *)
(* update carries how many words its sender has ever had room for; a           *)
(* transmitter may send until its own count reaches the last update.           *)
EXTENDS Integers, Sequences, FiniteSets, UartReset

CONSTANTS Modulus,          \* 4096, the values of a counter
          MaxWords,         \* the 32 payload words of one transport message
          TxDepth, RxDepth  \* the capacities of the two buffers, 128 by default

ASSUME ModulusAssumption == Modulus \in Nat
ASSUME MaxWordsAssumption == MaxWords \in Nat \ {0}
ASSUME DepthAssumption == TxDepth \in 1..(Modulus - 1) /\ RxDepth \in 1..(Modulus - 1)

Counters == 0..(Modulus - 1)

\* Python's None.
Nothing == -1

FlowReset == [tx |-> << >>, rx |-> << >>, tx_counter |-> 0, rx_counter |-> 0,
              latest_fc |-> 0, in_reset |-> TRUE, channel4_enabled |-> FALSE]

\* Slip: the words firmware has not read survive a reset.
StreamResetKeepingWords(f) ==
  [FlowReset EXCEPT !.channel4_enabled = f.channel4_enabled, !.rx = f.rx]

\* A stream reset: everything but the management of channel 4 starts anew.
StreamReset(f) == [FlowReset EXCEPT !.channel4_enabled = f.channel4_enabled]

ReleaseReset(f) ==
  IF f.in_reset THEN [f EXCEPT !.rx_counter = RxDepth, !.in_reset = FALSE] ELSE f

Active(f) == ~f.in_reset /\ f.channel4_enabled

CanWrite(f) == ~f.in_reset /\ Len(f.tx) < TxDepth
Write(f, word) == [f EXCEPT !.tx = Append(@, word)]

ApplyCreditUpdate(f, value) == IF f.in_reset THEN f ELSE [f EXCEPT !.latest_fc = value]

CreditSnapshot(f) == IF Active(f) THEN f.rx_counter ELSE Nothing

AvailableCredits(f) == (f.latest_fc - f.tx_counter) % Modulus

\* Slip: one word more than there is credit for.
NextTransportLengthOneMore(f) ==
  LET room == {AvailableCredits(f) + 1, Len(f.tx), MaxWords}
  IN  IF Active(f) THEN CHOOSE n \in room : \A m \in room : n <= m ELSE 0

\* The words the next message would carry; none is the code's None.
NextTransportLength(f) ==
  LET room == {AvailableCredits(f), Len(f.tx), MaxWords}
  IN  IF Active(f) THEN CHOOSE n \in room : \A m \in room : n <= m ELSE 0

\* Slip: the header word is charged as well.
TransmitChargingHeader(f) ==
  LET count == NextTransportLength(f)
  IN  [f EXCEPT !.tx = SubSeq(@, count + 1, Len(@)),
                !.tx_counter = (@ + count + 1) % Modulus]

\* The next message leaves: its words, and the state without them.
TransportWords(f) == SubSeq(f.tx, 1, NextTransportLength(f))
Transmit(f) ==
  LET count == NextTransportLength(f)
  IN  [f EXCEPT !.tx = SubSeq(@, count + 1, Len(@)),
                !.tx_counter = (@ + count) % Modulus]

\* A message that does not fit is refused with a BufferError, which changes
\* nothing.
Fits(f, words) == Len(f.rx) + Len(words) <= RxDepth

ReceiveTransport(f, words) ==
  IF Active(f) /\ Fits(f, words) THEN [f EXCEPT !.rx = @ \o words] ELSE f

\* Slip: the receive counter does not wrap.
ReadSaturating(f) ==
  [f EXCEPT !.rx = Tail(@), !.rx_counter = IF @ = Modulus - 1 THEN @ ELSE @ + 1]

Read(f) == [f EXCEPT !.rx = Tail(@), !.rx_counter = (@ + 1) % Modulus]
-------------------------------------------------------------------------------
(* The two ends.                                                               *)

CONSTANTS Ends,         \* the two ends
          Writers,      \* the ends whose firmware writes
          Words,        \* 0..n, written in this order, over and over
          NoWord,
          InFlight,     \* bound: messages under way in one direction
          MaxRequests,  \* bound: local resets the firmware of an end asks for
          MaxRetries    \* bound: times an end runs into the deadline

ASSUME EndsAssumption == \E a, b \in Ends : a # b /\ Ends = {a, b}

VARIABLES flow,      \* the UARTStreamFlowControl of each end
          seq,       \* its UARTResetSequencer
          wire,      \* the messages it has sent and the peer has not received
          offer,     \* the next word its firmware writes
          out,       \* the last word its firmware read
          requests   \* local resets it has asked for

vars == <<flow, seq, wire, offer, out, requests>>

Peer(e) == CHOOSE p \in Ends : p # e

\* A disabled stream is flushed and holds no credit; once enabled, it advertises
\* its whole receive buffer.
Follow(f, s) == IF StreamDisabled(s) THEN StreamReset(f) ELSE ReleaseReset(f)

Running == ReleaseHold(SequencerReset)

Init == /\ flow = [e \in Ends |-> ReleaseReset([FlowReset EXCEPT !.channel4_enabled = TRUE])]
        /\ seq = [e \in Ends |-> Running]
        /\ wire = [e \in Ends |-> << >>]
        /\ offer = [e \in Ends |-> 0]
        /\ out = [e \in Ends |-> NoWord]
        /\ requests = [e \in Ends |-> 0]

Transport(words) == [kind |-> "transport", words |-> words]
Credit(value) == [kind |-> "credit", value |-> value]
Maintenance(kind, all) == [kind |-> kind, all |-> all]

Put(e, message) == /\ Len(wire[e]) < InFlight
                   /\ wire' = [wire EXCEPT ![e] = Append(@, message)]
-------------------------------------------------------------------------------
(* Firmware.                                                                   *)

FirmwareWrite(e) ==
  /\ e \in Writers
  /\ CanWrite(flow[e])
  /\ flow' = [flow EXCEPT ![e] = Write(@, offer[e])]
  /\ offer' = [offer EXCEPT ![e] = IF @ + 1 \in Words THEN @ + 1 ELSE 0]
  /\ UNCHANGED <<seq, wire, out, requests>>

FirmwareRead(e) ==
  /\ flow[e].rx # << >>
  /\ out' = [out EXCEPT ![e] = Head(flow[e].rx)]
  /\ flow' = [flow EXCEPT ![e] = Read(@)]
  /\ UNCHANGED <<seq, wire, offer, requests>>

FirmwareReset(e) ==
  /\ requests[e] < MaxRequests
  /\ CanRequest(seq[e])
  /\ seq' = [seq EXCEPT ![e] = Request(@, FALSE)]
  /\ flow' = [flow EXCEPT ![e] = Follow(@, seq'[e])]
  /\ requests' = [requests EXCEPT ![e] = @ + 1]
  /\ UNCHANGED <<wire, offer, out>>
-------------------------------------------------------------------------------
(* What an end sends.  A reset in run-out blocks ordinary messages.            *)

SendTransport(e) ==
  /\ ~BlockMessages(seq[e])
  /\ NextTransportLength(flow[e]) > 0
  /\ Put(e, Transport(TransportWords(flow[e])))
  /\ flow' = [flow EXCEPT ![e] = Transmit(@)]
  /\ UNCHANGED <<seq, offer, out, requests>>

SendCredit(e) ==
  /\ ~BlockMessages(seq[e])
  /\ CreditSnapshot(flow[e]) # Nothing
  /\ Put(e, Credit(CreditSnapshot(flow[e])))
  /\ UNCHANGED <<flow, seq, offer, out, requests>>

\* A NoOp means nothing to the peer and is not put on the wire.
SendMaintenance(e) ==
  /\ Offer(seq[e]) # "none"
  /\ seq' = [seq EXCEPT ![e] = Service(@)]
  /\ flow' = [flow EXCEPT ![e] = Follow(@, seq'[e])]
  /\ CASE Offer(seq[e]) = "noop" -> UNCHANGED wire
       [] Offer(seq[e]) = "request" -> Put(e, Maintenance("request", seq[e].all_streams))
       [] Offer(seq[e]) = "response" -> Put(e, Maintenance("response", Head(seq[e].responses)))
  /\ UNCHANGED <<offer, out, requests>>
-------------------------------------------------------------------------------
(* What an end receives, and time.                                             *)

Receive(e) ==
  /\ wire[Peer(e)] # << >>
  /\ wire' = [wire EXCEPT ![Peer(e)] = Tail(@)]
  /\ LET m == Head(wire[Peer(e)])
     IN  \/ /\ m.kind = "transport"
            /\ flow' = [flow EXCEPT ![e] = ReceiveTransport(@, m.words)]
            /\ UNCHANGED seq
         \/ /\ m.kind = "credit"
            /\ flow' = [flow EXCEPT ![e] = ApplyCreditUpdate(@, m.value)]
            /\ UNCHANGED seq
         \/ /\ m.kind = "request"
            /\ seq' = [seq EXCEPT ![e] = ReceiveRequest(@, 0, m.all)]
            /\ flow' = [flow EXCEPT ![e] = Follow(@, seq'[e])]
         \/ /\ m.kind = "response"
            /\ seq' = [seq EXCEPT ![e] = ReceiveResponse(@, SUCCESS, 0, m.all)]
            /\ flow' = [flow EXCEPT ![e] = Follow(@, seq'[e])]
  /\ UNCHANGED <<offer, out, requests>>

Elapse(e) ==
  /\ seq[e].phase = "wait"
  /\ seq[e].left = 1 => seq[e].retries < MaxRetries
  /\ seq' = [seq EXCEPT ![e] = Advance(@, 1)]
  /\ flow' = [flow EXCEPT ![e] = Follow(@, seq'[e])]
  /\ UNCHANGED <<wire, offer, out, requests>>

Send(e) == SendTransport(e) \/ SendCredit(e) \/ SendMaintenance(e)

Next == \E e \in Ends : \/ FirmwareWrite(e) \/ FirmwareRead(e) \/ FirmwareReset(e)
                        \/ Send(e) \/ Receive(e) \/ Elapse(e)

Spec == Init /\ [][Next]_vars

\* Messages are carried and firmware reads what arrived.  The message arbiter
\* serves every source in turn, so that a source that is ready again and again is
\* served.  Nothing is assumed about writes, resets and time.
FairSpec ==
  /\ Spec
  /\ \A e \in Ends : /\ WF_vars(FirmwareRead(e)) /\ WF_vars(Receive(e))
                     /\ SF_vars(SendTransport(e)) /\ SF_vars(SendCredit(e))
                     /\ SF_vars(SendMaintenance(e))
-------------------------------------------------------------------------------
(* Properties.                                                                 *)

\* Words under way from an end, in order.
OnWire(e) ==
  LET sent == SelectSeq(wire[e], LAMBDA m : m.kind = "transport")
      joined[n \in 0..Len(sent)] == IF n = 0 THEN << >> ELSE joined[n - 1] \o sent[n].words
  IN  joined[Len(sent)]

\* How many there are: each is a message on the wire and a place in it.
Underway(e) ==
  Cardinality({at \in (DOMAIN wire[e]) \X (1..MaxWords) :
                 LET m == wire[e][at[1]]
                 IN  m.kind = "transport" /\ at[2] <= Len(m.words)})

Resetting == \E e \in Ends : StreamDisabled(seq[e])

\* No reset is going on at either end or under way to one.
Settled == ~Resetting /\ \A e \in Ends : \A i \in DOMAIN wire[e] :
                           wire[e][i].kind \in {"transport", "credit"}

Room(e) == RxDepth - Len(flow[e].rx)

\* Counters and buffers stay in their ranges, and the flow control of an end is
\* in reset exactly while its sequencer disables the stream.
TypeOK ==
  \A e \in Ends :
    /\ Len(flow[e].tx) <= TxDepth /\ Len(flow[e].rx) <= RxDepth
    /\ {flow[e].tx_counter, flow[e].rx_counter, flow[e].latest_fc} \subseteq Counters
    /\ seq[e].phase \in Phases /\ seq[e].noops \in 0..NoOps /\ seq[e].left \in 0..Timeout
    /\ flow[e].in_reset = StreamDisabled(seq[e])

\* receive_transport does not raise its BufferError, not even with messages and
\* updates of the time before a reset under way.  (It can once an answer came late.)
NoOverflow ==
  \A e \in Ends :
    LET arriving == wire[Peer(e)]
    IN  arriving # << >> /\ Head(arriving).kind = "transport" /\ Active(flow[e])
          => Fits(flow[e], Head(arriving).words)

\* No credit is lost or invented: what the reader has ever announced or could
\* announce, less what the writer has ever sent, is the room not yet claimed by
\* words under way.
CreditConserved ==
  Settled => \A e \in Ends :
    LET p == Peer(e)
    IN  (flow[p].rx_counter - flow[e].tx_counter) % Modulus = Room(p) - Underway(e)

\* No end has missed the deadline of its last reset.
InTime == \A e \in Ends : seq[e].retries = 0

\* Credit is conserved as long as resets are answered in time.
CreditConservedInTime == InTime => CreditConserved

\* A writer never believes in more room than there is.
CreditWithinRoom ==
  Settled => \A e \in Ends : AvailableCredits(flow[e]) <= Room(Peer(e)) - Underway(e)

\* Counters and buffers stay within their bounds, whatever is under way; and as long
\* as resets are answered in time, so does what is believed and sent.
StaysWithinRoom == TypeOK /\ (InTime => NoOverflow /\ CreditWithinRoom)

Stream == INSTANCE LossyStream
            WITH queue <- [e \in Writers |-> flow[Peer(e)].rx \o OnWire(e) \o flow[e].tx],
                 out <- [e \in Writers |-> out[Peer(e)]],
                 disabled <- Resetting \/ ~InTime

\* Words come out in the order they were written, once, and only a reset loses any,
\* or an end that did not get its answer in time.
ImplementsLossyStream == Stream!Spec

\* A local reset is answered, also when both ends reset at once.
EveryResetEnds == \A e \in Ends : seq[e].phase # "normal" ~> seq[e].phase = "normal"

\* Credit always comes back to the writer: a transmit buffer that is not empty is
\* drained again and again, so that every written word is sent or flushed, as long
\* as resets are answered in time.
EveryWordLeaves ==
  \A e \in Writers :
    \/ []<>(InTime => flow[e].tx = << >>)
    \/ []<><<Len(flow'[e].tx) < Len(flow[e].tx)>>_vars
===============================================================================
