----------------------------- MODULE TlReceiver -----------------------------
(***************************************************************************)
(* The receiving side of a port under every Flit a peer may send it, legal *)
(* or not, while the local sender asks for credit: Integrated.step of      *)
(* src/model/tl/credit_integration.py, with the hardware of the same end   *)
(* beside it.                                                              *)
(***************************************************************************)
EXTENDS CreditedPort

CONSTANTS Halves,    \* the Control halves a peer may send
          Pairs,     \* the messages of the two halves
          Quantities \* what one credit word grants, or one Flit costs

ASSUME HalvesAssumption == Halves \subseteq [Sectors -> Cells]

VARIABLES auth,      \* whether authentication is on
          rx,        \* the end, as the reference has it
          inStep     \* whether the hardware did the same in the last edge

rxVars == <<auth, rx, inStep>>

Flits == [cells : Halves, msg : Pairs, used : {0, 2}, grants : Quantities]

RxInit == auth \in BOOLEAN /\ rx = NewEnd /\ inStep = TRUE

\* What an observer sees of the reference, in the hardware's terms.
Seen(step) ==
    [pending |-> HwPending(step.end.flow.pending), content |-> step.end.flow.content,
     budget |-> step.end.flow.budget, ledger |-> step.end.ledger,
     fatal |-> step.end.fatal, rejected |-> step.rejected, allowed |-> step.allowed,
     joint |-> step.joint, sends |-> step.sends, repeat |-> step.repeat,
     conflict |-> step.conflict]

RxEdge(flit, receive, send, cost) ==
    LET in == [auth |-> auth, flit |-> flit, receive |-> receive, send |-> send,
               demands |-> cost]
    IN  /\ \E step \in {Integrated(rx, in)} :
              /\ rx' = step.end
              /\ inStep' = (HwIntegrated(rx, in) = Seen(step))
        /\ UNCHANGED auth

RxReceive == \E flit \in Flits, cost \in Quantities :
                 RxEdge(flit, TRUE, cost # Nothing, cost)
RxSendOnly == \E flit \in Flits, cost \in Quantities :
                 /\ flit.grants = Nothing /\ flit.used = 0
                 /\ RxEdge(flit, FALSE, TRUE, cost)

RxNext == RxReceive \/ RxSendOnly
RxSpec == RxInit /\ [][RxNext]_rxVars

---------------------------------------------------------------------------

\* The hardware accepts, rejects, classifies and accounts every Flit as the
\* reference does, whatever came before it.
HardwareReceives == inStep

\* The content monitor and the sequencer, which keep their state apart, agree
\* on whether the first half of a data pair has been seen and its second half
\* has not (tl_content.py against tl_sequence.py, poisoned halves included).
PairMonitorInStep ==
    LET queue == rx.flow.pending
    IN  rx.flow.content.open <=>
            queue # <<>> /\ Head(queue).kind = "D" /\ ~Head(queue).reserve
===========================================================================
