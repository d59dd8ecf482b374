------------------------------ MODULE MCMessages ------------------------------
(* What lies between the users of the DL channel and its words: the message    *)
(* arbiter, two basic endpoints and one alone, two UART ports and their blocks *)
(* alone.  They share no state: a run follows one of them, chosen in the       *)
(* initial state.                                                              *)
EXTENDS MessageArbiter, BasicLink, UartPort

CONSTANTS near, far

VARIABLE part

vars == <<arbiter, basicVars, aloneVars, portVars, part>>

MessagesInit ==
  /\ part \in {"arbiter", "peers", "alone", "source", "rx", "control", "ports"}
  /\ ArbiterInit
  /\ BasicInit
  /\ alone = IF part = "alone" THEN {BasicReset} ELSE {}
  /\ AloneInit
  /\ PortsInit

UartIdle == UNCHANGED <<aloneVars, portVars>>
BasicIdle == UNCHANGED <<arbiter, basicVars>>

ArbiterPart == part = "arbiter" /\ ArbiterNext /\ UNCHANGED <<basicVars, part>> /\ UartIdle
PeersPart == part = "peers" /\ BasicNext /\ UNCHANGED <<arbiter, part>> /\ UartIdle
AlonePart == OpenEdge /\ UNCHANGED <<arbiter, part>> /\ UartIdle
SourcePart == part = "source" /\ SourceEdge /\ UNCHANGED part /\ BasicIdle
RxPart == part = "rx" /\ RxEdge /\ UNCHANGED part /\ BasicIdle
ControlPart == part = "control" /\ ControlEdge /\ UNCHANGED part /\ BasicIdle
PortsPart == part = "ports" /\ PortsNext /\ UNCHANGED <<aloneVars, part>> /\ BasicIdle

MessagesNext == \/ ArbiterPart \/ PeersPart \/ AlonePart
                \/ SourcePart \/ RxPart \/ ControlPart \/ PortsPart

\* Every clock runs and every word arrives; the arbiter serves each waiting head,
\* as WaitShortens says; the pacing comes down to the least rate asked for.
MessagesFairness ==
  \A p \in Ends :
    /\ WF_vars(part = "peers" /\ Arrival(p) /\ UNCHANGED <<arbiter, part>> /\ UartIdle)
    /\ \A k \in Kinds :
         WF_vars(part = "peers" /\ Service(p, k) /\ UNCHANGED <<arbiter, part>> /\ UartIdle)

MessagesSpec == MessagesInit /\ [][MessagesNext]_vars /\ MessagesFairness

\* Arbiter, basic controller and the blocks of a UART port in hardware
\* (dl_message_arbiter.v, dl_basic_message_control.v, dl_uart_tx_source.v,
\* dl_uart_rx_path.v, dl_uart_reset_control.v) do what the references do.
HardwareInStep == /\ HardwareArbitrates /\ HardwareKeepsBasic
                  /\ part = "source" => SourceInStep
                  /\ part = "rx" => RxInStep
                  /\ part = "control" => ControlInStep

\* What two ends send each other always makes sense where it arrives: basic
\* messages, the words of a transport, and the messages around it.
EndsUnderstandEachOther == NoProtocolError /\ PortsAgree /\ FramingKept
===============================================================================
