------------------------------- MODULE TlLink -------------------------------
(***************************************************************************)
(* A transaction-layer link: one end sends request and response fields     *)
(* with their data to the other, whose buffer returns the credit in credit *)
(* words.  The sender also has credit words of its own to send, for the    *)
(* opposite direction, which compete with the fields for each Flit.        *)
(*                                                                         *)
(* The sender is CreditedPort's port with TxPacker's channels in front of  *)
(* it; the receiver is CreditedPort's buffer with its publisher.  Wires    *)
(* deliver in order and lose nothing (the layer below replays), with any   *)
(* delay.  A Flit carries the lane each of its data halves was taken from, *)
(* which only the properties look at.                                      *)
(***************************************************************************)
EXTENDS CreditedPort

CONSTANTS Plans,     \* [auth, shared, capacities, work, own]: work[l] is a
                     \* sequence of headers for lane l, own the kinds of
                     \* credit Flits the sender has for the other direction
          WireRoom   \* Flits under way in one direction

VARIABLES plan, snd, rcv, down, up

tlVars == <<plan, snd, rcv, down, up>>

BlankHalf == [s \in Sectors |-> Padding]
Message(lower, upper) == [cells |-> BlankHalf, msg |-> <<lower, upper>>, used |-> 0,
                          grants |-> Nothing]
Blank == Message(NoMessage, NoMessage)

LanesOf == {0, 1}

\* A header: a Control half, its fields, and the data halves that follow.
Header(cells) ==
    LET fields == Derive(cells).records
    IN  [cells |-> cells, fields |-> fields, halves |-> Len(Tokens(fields))]

HalvesOf(l) == FoldSeq(LAMBDA header, n : n + header.halves, 0, plan.work[l])

TlInit ==
    /\ plan \in Plans
    /\ snd = [port |-> NewPort, chan |-> NewChannels,
              next |-> [l \in LanesOf |-> 1],      \* the first header not sent
              loaded |-> [l \in LanesOf |-> 0],    \* halves read so far
              used |-> [l \in LanesOf |-> 0],      \* halves sent so far
              fc |-> "none", completed |-> FALSE]  \* the credit word waiting
    /\ rcv = [buffer |-> NewBuffer, mixed |-> FALSE, waited |-> FALSE]
    /\ down = <<>>
    /\ up = <<>>

---------------------------------------------------------------------------
(* The sender. *)

Source(l) ==
    LET at == snd.next[l]
    IN  [valid |-> at <= Len(plan.work[l]), tags |-> TRUE,
         fields |-> IF at <= Len(plan.work[l]) THEN plan.work[l][at].fields ELSE <<>>,
         data |-> snd.loaded[l] - snd.used[l]]

ChannelInput ==
    LET port == snd.port
    IN  [pending |-> Len(port.tx.pending), auth |-> plan.auth,
         done |-> port.rx.ledger.done, shared |-> port.rx.ledger.shared,
         available |-> port.rx.ledger.available, capacity |-> port.rx.ledger.capacity,
         requests |-> RequestBudget - port.tx.budget.requests,
         responses |-> ResponseBudget - port.tx.budget.responses,
         fc |-> snd.fc, sources |-> [l \in LanesOf |-> Source(l)]]

\* The Flit an offer stands for, with the lanes of its data halves.
OfferedFlit(offer) ==
    LET lanes == [i \in 1 .. offer.data |-> offer.from]
        flit == CASE offer.choice = "header" ->
                         [Blank EXCEPT !.cells = plan.work[offer.lane][snd.next[offer.lane]].cells]
                  [] offer.choice = "fc" /\ snd.fc = "complete" ->
                         Message(NoMessage, "init")
                  [] OTHER -> Blank
    IN  [flit |-> flit, lanes |-> lanes]

\* One clock edge of the sender: the credit Flit that arrives, if there is
\* one, and the offer of the channels, if the link takes one.
SenderInput(offer, ready) ==
    [receive |-> up # <<>>, rx |-> IF up = <<>> THEN Blank ELSE Head(up),
     tx |-> OfferedFlit(offer).flit,
     send |-> offer.choice # "none" /\ ready]

SenderEdge(ready) ==
    /\ ready => Len(down) < WireRoom
    /\ \E offer \in {Offer(snd.chan, ChannelInput)} :
       \E edge \in {PortStep(plan.auth, snd.port, SenderInput(offer, ready))} :
          /\ snd' = [snd EXCEPT
                 !.port = edge.port,
                 !.chan = ChannelsStep(snd.chan, offer, edge.taken),
                 !.next[offer.lane] =
                     IF edge.taken /\ offer.choice = "header" THEN @ + 1 ELSE @,
                 !.used[offer.from] = IF edge.taken THEN @ + offer.data ELSE @,
                 !.fc = IF edge.taken /\ offer.choice = "fc" THEN "none" ELSE @]
          /\ down' = IF edge.taken THEN Append(down, OfferedFlit(offer)) ELSE down
    /\ up' = IF up = <<>> THEN up ELSE Tail(up)
    /\ UNCHANGED <<plan, rcv>>

\* The data of a lane is read from its queue, ahead of its header.
LoadData(l) ==
    /\ snd.loaded[l] < HalvesOf(l)
    /\ snd.loaded[l] - snd.used[l] < 2
    /\ snd' = [snd EXCEPT !.loaded[l] = @ + 1]
    /\ UNCHANGED <<plan, rcv, down, up>>

\* The sender's own publisher has something to send.
OfferCredit(kind) ==
    /\ snd.fc = "none"
    /\ kind = "complete" => ~snd.completed
    /\ snd' = [snd EXCEPT !.fc = kind, !.completed = @ \/ kind = "complete"]
    /\ UNCHANGED <<plan, rcv, down, up>>

---------------------------------------------------------------------------
(* The receiver. *)

\* The lane whose data a token stands for.
TokenLane(token) == IF token.slot < ResponsePool THEN 0 ELSE 1

CreditFlit(pub) ==
    CASE ~pub.complete -> [Blank EXCEPT !.grants = Grants(pub.word)]
      [] pub.complete /\ pub.shared -> Message(NoMessage, "initShared")
      [] pub.complete /\ ~pub.shared -> Message(NoMessage, "init")

BufferInput(fcReady, readReady) ==
    [valid |-> down # <<>>, flit |-> IF down = <<>> THEN Blank ELSE Head(down).flit,
     fcReady |-> fcReady, readReady |-> readReady,
     capacities |-> plan.capacities, shared |-> plan.shared]

ReceiverEdge(fcReady, readReady) ==
    /\ fcReady => Len(up) < WireRoom
    /\ \E edge \in {BufferStep(plan.auth, rcv.buffer, BufferInput(fcReady, readReady))} :
          LET lanes == [i \in DOMAIN edge.used |-> TokenLane(edge.used[i])]
          IN  /\ rcv' = [buffer |-> edge.buffer,
                         mixed |-> rcv.mixed \/ (edge.taken /\ lanes # Head(down).lanes),
                         waited |-> rcv.waited \/ edge.waits]
              /\ up' = IF edge.sent THEN Append(up, CreditFlit(rcv.buffer.pub)) ELSE up
    /\ down' = IF down = <<>> THEN down ELSE Tail(down)
    /\ UNCHANGED <<plan, snd>>

TlNext ==
    \/ \E ready \in BOOLEAN : SenderEdge(ready)
    \/ \E fcReady, readReady \in BOOLEAN : ReceiverEdge(fcReady, readReady)
    \/ \E l \in LanesOf : LoadData(l)
    \/ \E kind \in plan.own : OfferCredit(kind)

\* What a clock edge would do, and what was done.
SenderWould ==
    PortStep(plan.auth, snd.port,
             SenderInput(Offer(snd.chan, ChannelInput), TRUE)).taken
PublisherBuilds == LET p == rcv.buffer.pub
                   IN  ~p.valid /\ (~p.active \/ CreditDue(p) \/ ~p.done)
ReleaseWaits == rcv.buffer.store # <<>> /\ ReleaseReady(rcv.buffer.pub, Head(rcv.buffer.store))
Arrived(wire) == Len(wire') < Len(wire)
Sent(wire) == Len(wire') > Len(wire)
Retired == Len(rcv'.buffer.store) < Len(rcv.buffer.store)

\* Both clocks run, the link takes what is offered and the application what is
\* stored, again and again, and the queues deliver their data: weak fairness of
\* every kind of edge, stated by what the edge does.
TlFairness ==
    /\ []<>(up = <<>>) \/ []<><<Arrived(up)>>_tlVars
    /\ []<>~(Len(down) < WireRoom /\ SenderWould) \/ []<><<Sent(down)>>_tlVars
    /\ []<>(down = <<>>) \/ []<><<Arrived(down)>>_tlVars
    /\ []<>~PublisherBuilds \/ []<><<rcv'.buffer.pub # rcv.buffer.pub>>_tlVars
    /\ []<>~(Len(up) < WireRoom /\ rcv.buffer.pub.valid) \/ []<><<Sent(up)>>_tlVars
    /\ []<>~ReleaseWaits \/ []<><<Retired>>_tlVars
    /\ \A l \in LanesOf : WF_tlVars(LoadData(l))

TlSpec == TlInit /\ [][TlNext]_tlVars /\ TlFairness

---------------------------------------------------------------------------

\* The Flits under way, run through the receiver's checks: the credit they
\* cost, whether all of them pass, and where the receiver then stands.
UnderWay ==
    FoldLeft(LAMBDA acc, item :
                 LET step == FlowStep(plan.auth, acc.flow, item.flit)
                 IN  [flow |-> step.flow, ok |-> acc.ok /\ step.ok,
                      cost |-> Plus(acc.cost,
                                    Cost(plan.auth, [tx |-> acc.flow], item.flit))],
             [flow |-> rcv.buffer.flow, ok |-> TRUE, cost |-> Nothing], down)

\* The credit a partly received tenure will still give back.
HeldBy(queue) ==
    [s \in Slots |->
        Cardinality({i \in DOMAIN queue : queue[i].cmd /\ queue[i].slot - DataPool = s})
        + Cardinality({i \in DOMAIN queue : i = 1 /\ queue[i].data /\ queue[i].slot = s})]

SumOf(seq) == FoldLeft(Plus, Nothing, seq)

\* Every credit of the receiver is in exactly one place: at the sender, spent
\* on a Flit under way, in the tenure being received, in a stored word, waiting
\* to be published, or in a credit word under way.  In shared mode the two
\* data pools are one place (credit_ledger.py, credit_publish.py,
\* credit_context.py and receive_context.py, which each keep a part of it).
CreditConserved ==
    LET ledger == snd.port.rx.ledger
        total == SumOf(<<ledger.available, UnderWay.cost, HeldBy(rcv.buffer.flow.pending),
                         SumOf(rcv.buffer.store), rcv.buffer.pub.pending,
                         SumOf([i \in DOMAIN up |-> up[i].grants])>>)
        announced == IF rcv.buffer.pub.active THEN plan.capacities ELSE Nothing
    IN  IF plan.shared THEN Pooled(total) = Pooled(announced) ELSE total = announced

\* Neither end ever has to reject what the other sent, or to leave it waiting:
\* the Flits under way all pass the receiver's checks and bring it to where the
\* sender already is, the buffer sized by required_words always has room, and
\* no credit word exceeds what was announced.
NothingRejected ==
    /\ ~snd.port.rx.fatal /\ ~rcv.buffer.fatal /\ ~rcv.waited
    /\ UnderWay.ok
    /\ UnderWay.flow = snd.port.tx

\* What the channels offer, and go on offering while the link is busy, is at
\* every moment a legal Flit that the ledger can pay for: a choice never goes
\* stale (tx_packer.py holds its choice).  A tenure once begun never runs out of
\* credit: the ledger is charged half by half, and what the rest of the tenure
\* will cost is there at every moment, although nothing is set aside for it and
\* other tenures want the same slot (credit_admission.py:5-9).
OfferStaysGood ==
    /\ \A offer \in {Offer(snd.chan, ChannelInput)} :
        LET flit == OfferedFlit(offer).flit
            l == snd.port.rx.ledger
        IN  offer.choice # "none" =>
            /\ FlowStep(plan.auth, snd.port.tx, flit).ok
            /\ TenureAdmitted(snd.port, flit)
            /\ Fits(Accounted(l, Cost(plan.auth, snd.port, flit)), l.available)
            /\ offer.data <= snd.loaded[offer.from] - snd.used[offer.from]
    /\ Fits(Accounted(snd.port.rx.ledger, Reserved(snd.port.tx.pending)),
            snd.port.rx.ledger.available)

\* Each data half is sent under the header it belongs to, although requests
\* and responses alternate and a header may be sent together with the last
\* half of the one before it.
DataUnderItsHeader == ~rcv.mixed

\* The hardware of the sender (channels, packer, ledger), of the receiver
\* (publisher) and of the checks both share does what the reference does.
HardwareInStep ==
    LET b == rcv.buffer
        SameLedger(in) == HwIntegrated(snd.port.rx, in).ledger
                              = Integrated(snd.port.rx, in).end.ledger
        EndIn(input) == [auth |-> plan.auth, flit |-> input.rx,
                         receive |-> input.receive, send |-> input.send,
                         demands |-> Cost(plan.auth, snd.port, input.tx)]
        SameSender(offer) ==
            /\ HwOffer(snd.chan, ChannelInput) = offer
            /\ \A taken \in BOOLEAN :
                  HwChannelsStep(snd.chan, offer, taken) = ChannelsStep(snd.chan, offer, taken)
            /\ \A ready \in BOOLEAN : SameLedger(EndIn(SenderInput(offer, ready)))
        pubIn(send, release) ==
            [start |-> TRUE, shared |-> plan.shared, capacities |-> plan.capacities,
             releaseValid |-> release, send |-> send,
             release |-> IF b.store = <<>> THEN Nothing ELSE Head(b.store)]
        encoded(p) == [p EXCEPT !.word = [g \in Groups |-> HwEncode(p.word[g])]]
        SamePublisher(in) == HwPublisherStep(b.pub, in) = encoded(PublisherStep(b.pub, in))
    IN  /\ SameSender(Offer(snd.chan, ChannelInput))
        /\ \A send \in BOOLEAN, release \in {FALSE, b.store # <<>>} :
              SamePublisher(pubIn(send, release))

\* In the end everything is sent and taken by the application, and all credit
\* is back with the sender, although its own credit words compete with the
\* fields for every Flit.
EverythingSettles ==
    <>[](/\ \A l \in LanesOf : snd.next[l] > Len(plan.work[l])
         /\ snd.port.tx.pending = <<>> /\ rcv.buffer.store = <<>>
         /\ snd.port.rx.ledger.done
         /\ snd.port.rx.ledger.available = snd.port.rx.ledger.capacity)
===========================================================================
