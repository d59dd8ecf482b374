---------------------------- MODULE CreditedPort ----------------------------
(***************************************************************************)
(* The ends of a transaction-layer link.  The port of the sender admits a  *)
(* Flit when it is well formed, its whole tenure is affordable and nothing *)
(* that arrives in the same edge is rejected; the Flits it receives bring  *)
(* its credit.  The buffer of the receiver checks a Flit, stores it with   *)
(* the credit its retirement gives back, and hands that credit to the      *)
(* publisher in the edge in which the application takes the Flit.          *)
(*                                                                         *)
(* Reference: src/model/tl/credit_integration.py (Integrated.step),        *)
(* receive_credit.py.  Hardware: tl_credit_integration, tl_credit_port,    *)
(* tl_credit_admitted_port, tl_receive_storage, tl_receive_credit of       *)
(* src/rtl/tl, which compose the modules of the other specifications.      *)
(***************************************************************************)
EXTENDS TxPacker, CreditPublisher

InitMessages == {"init", "initShared"}

\* credit_events.decode: a Flit is the record of FlitSequence with the credits
\* its credit words grant.
EventsOk(pending, flit) ==
    /\ "reserved" \notin {flit.msg[1], flit.msg[2]}
    /\ IsControl(pending, flit) => EventFields(flit.cells).valid
GrantsOf(pending, flit) ==
    IF EventsOk(pending, flit) /\ IsControl(pending, flit) THEN flit.grants ELSE Nothing
Flags(flit) == SelectSeq(<<flit.msg[1], flit.msg[2]>>, LAMBDA m : m \in InitMessages)

---------------------------------------------------------------------------
(* Integrated.step: a receiver of Flits with the local ledger.             *)

NewEnd == [flow |-> NewFlow, ledger |-> NewLedger, fatal |-> FALSE]

EndInput(rx, in) ==
    LET valid == EventsOk(rx.flow.pending, in.flit)
        flags == IF valid THEN Flags(in.flit) ELSE <<>>
    IN  [grants |-> GrantsOf(rx.flow.pending, in.flit), demands |-> in.demands,
         receive |-> in.receive, send |-> in.send, finish |-> flags # <<>>,
         shared |-> IF rx.ledger.done THEN rx.ledger.shared
                    ELSE flags # <<>> /\ Head(flags) = "initShared"]

\* Slip: the ledger moves even when the Flit that came with it is rejected.
JointAlways(rx, in, allowed) == TRUE

Joint(rx, in, allowed) == ~in.receive \/ allowed

Integrated(rx, in) ==
    LET Moved(input, flow, flags, allowed, joint) ==
            [end |-> [flow |-> IF in.receive /\ allowed THEN flow ELSE rx.flow,
                      ledger |-> IF joint THEN LedgerStep(rx.ledger, input) ELSE rx.ledger,
                      fatal |-> in.receive /\ ~allowed],
             rejected |-> in.receive /\ ~allowed, allowed |-> allowed, joint |-> joint,
             sends |-> Allowed(rx.ledger, input) /\ joint,
             repeat |-> in.receive /\ flags # <<>> /\ (rx.ledger.done \/ Len(flags) > 1),
             conflict |-> in.receive /\ \E i \in DOMAIN flags :
                              (flags[i] = "initShared") # input.shared]
        Decided(input, step, valid, allowed) ==
            Moved(input, step.flow, IF valid THEN Flags(in.flit) ELSE <<>>,
                  allowed, Joint(rx, in, allowed))
        Read(input, step, valid) ==
            Decided(input, step, valid,
                    step.ok /\ valid /\ ~ReceiveError(rx.ledger, input))
    IN  IF rx.fatal
        THEN [end |-> rx, rejected |-> in.receive, allowed |-> FALSE, joint |-> FALSE,
              sends |-> FALSE, repeat |-> FALSE, conflict |-> FALSE]
        ELSE Read(EndInput(rx, in), FlowStep(in.auth, rx.flow, in.flit),
                  EventsOk(rx.flow.pending, in.flit))

\* tl_credit_events: which halves start the credit, which share the data pools,
\* and what is granted; an undefined message clears them all.
HwEvents(flit, control) ==
    LET valid == /\ \A i \in 1 .. 2 : flit.msg[i] # "reserved"
                 /\ control => HwDecode(flit.cells).valid
        init == {i \in 1 .. 2 : valid /\ flit.msg[i] \in InitMessages}
    IN  [valid |-> valid, init |-> init,
         shared |-> {i \in init : flit.msg[i] = "initShared"},
         grants |-> IF valid /\ control THEN flit.grants ELSE Nothing]

\* tl_credit_integration around tl_full_flit, tl_credit_ledger and
\* tl_credit_events.
HwIntegrated(rx, in) ==
    LET Moved(full, events, input, allowed, joint, taken) ==
            [pending |-> IF taken THEN full.regs ELSE HwPending(rx.flow.pending),
             content |-> IF taken THEN full.content ELSE rx.flow.content,
             budget |-> IF taken THEN full.budget ELSE rx.flow.budget,
             ledger |-> IF joint THEN HwLedgerStep(rx.ledger, input) ELSE rx.ledger,
             fatal |-> rx.fatal \/ (in.receive /\ ~allowed),
             rejected |-> in.receive /\ ~allowed, allowed |-> allowed, joint |-> joint,
             sends |-> HwAllowed(rx.ledger, input) /\ joint,
             repeat |-> ~rx.fatal /\ in.receive /\ events.init # {}
                        /\ (rx.ledger.done \/ events.init = {1, 2}),
             conflict |-> ~rx.fatal /\ in.receive
                          /\ \E i \in events.init : (i \in events.shared) # input.shared]
        Decided(full, events, input, allowed) ==
            Moved(full, events, input, allowed, ~rx.fatal /\ (~in.receive \/ allowed),
                  in.receive /\ allowed)
        Checked(full, events, input) ==
            Decided(full, events, input, /\ ~rx.fatal /\ full.ok /\ events.valid
                                         /\ ~HwReceiveError(rx.ledger, input))
        Read(full, events) ==
            Checked(full, events,
                [grants |-> events.grants, demands |-> in.demands,
                 receive |-> in.receive /\ ~rx.fatal, send |-> in.send,
                 finish |-> events.init # {},
                 shared |-> CASE rx.ledger.done -> rx.ledger.shared
                              [] ~rx.ledger.done /\ 1 \in events.init -> 1 \in events.shared
                              [] OTHER -> 2 \in events.shared])
    IN  Read(HwFullFlit(in.auth, rx.flow, in.flit),
             HwEvents(in.flit, Len(rx.flow.pending) <= 1 /\ in.flit.msg[1] = NoMessage))

---------------------------------------------------------------------------
(* tl_credit_port and tl_credit_admitted_port: the received side, the      *)
(* transmitted side and the admission of a whole tenure in one edge.       *)

NewPort == [rx |-> NewEnd, tx |-> NewFlow]

Cost(auth, port, flit) ==
    LET Price(fields, step) ==
            IF step.ok THEN Demands(fields, UsedTokens(port.tx.pending, fields, step.classes))
                       ELSE Nothing
    IN  Price(FieldsOf(port.tx.pending, flit), FlowStep(auth, port.tx, flit))

TenureAdmitted(port, flit) ==
    LET l == port.rx.ledger
    IN  IsControl(port.tx.pending, flit) =>
            Admits(FieldsOf(port.tx.pending, flit), l.available, l.shared, l.done)

PortStep(auth, port, in) ==
    LET Sent(tx, rx, cost, allowed) ==
            [port |-> [rx |-> rx.end, tx |-> IF in.send /\ allowed THEN tx.flow ELSE port.tx],
             taken |-> in.send /\ allowed, error |-> ~tx.ok, rejected |-> rx.rejected,
             cost |-> cost]
        Weighed(tx, rx, cost, admitted) ==
            Sent(tx, rx, cost,
                 admitted /\ tx.ok /\ (IF cost = Nothing THEN rx.joint ELSE rx.sends))
        Valued(tx, cost, admitted) ==
            Weighed(tx,
                  Integrated(port.rx,
                      [auth |-> auth, flit |-> in.rx, receive |-> in.receive, demands |-> cost,
                       send |-> in.send /\ admitted /\ tx.ok /\ cost # Nothing]),
                  cost, admitted)
    IN  Valued(FlowStep(auth, port.tx, in.tx), Cost(auth, port, in.tx),
               TenureAdmitted(port, in.tx))

---------------------------------------------------------------------------
(* tl_receive_storage and tl_receive_credit.  A stored word is represented *)
(* by the credit it gives back.                                            *)

\* Slip: one word for each credit, which forgets byte enables and second halves.
OneWordEach(capacities) == Credit(capacities, Slots)

\* receive_credit.required_words.
RequiredWords(capacities) == 2 * Credit(capacities, Slots)

NewBuffer == [flow |-> NewFlow, fatal |-> FALSE, store |-> <<>>, pub |-> NewPublisher]

\* What tl_receive_storage makes of a Flit: it stores what belongs to a tenure,
\* with the credit to give back, if it has room.
Storing(auth, b, in) ==
    LET Read(fields, flow, used) ==
            LET proposal == flow.ok /\ ~b.fatal
                stores == Stores(fields, flow.classes)
                space == ~stores \/ Len(b.store) < RequiredWords(in.capacities)
            IN  [taken |-> in.valid /\ proposal /\ space,
                 waits |-> in.valid /\ proposal /\ ~space,
                 rejected |-> in.valid /\ ~proposal, flow |-> flow.flow, used |-> used,
                 word |-> IF stores THEN <<Releases(fields, used)>> ELSE <<>>]
        Checked(fields, flow) ==
            Read(fields, flow, UsedTokens(b.flow.pending, fields, flow.classes))
    IN  Checked(FieldsOf(b.flow.pending, in.flit), FlowStep(auth, b.flow, in.flit))

BufferStep(auth, b, in) ==
    LET Moved(new, retired) ==
            LET left == IF retired THEN Tail(b.store) ELSE b.store
            IN  [buffer |->
                    [flow |-> IF new.taken THEN new.flow ELSE b.flow,
                     fatal |-> b.fatal \/ new.rejected,
                     store |-> IF new.taken THEN left \o new.word ELSE left,
                     pub |-> PublisherStep(b.pub,
                                [start |-> TRUE, shared |-> in.shared,
                                 capacities |-> in.capacities, releaseValid |-> retired,
                                 release |-> IF b.store = <<>> THEN Nothing ELSE Head(b.store),
                                 send |-> in.fcReady /\ ~b.fatal])],
                 taken |-> new.taken, used |-> new.used, waits |-> new.waits,
                 sent |-> b.pub.valid /\ in.fcReady /\ ~b.fatal]
    IN  Moved(Storing(auth, b, in),
              /\ ~b.fatal /\ b.store # <<>> /\ in.readReady
              /\ ReleaseReady(b.pub, Head(b.store)))
===========================================================================
