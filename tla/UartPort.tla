------------------------------- MODULE UartPort -------------------------------
(* The UART port rtl/dl/dl_uart_port.v with its transmit path                   *)
(* rtl/dl/dl_uart_tx_path.v: the blocks of UartCycle, the FIFO of the firmware  *)
(* and the lock of the message arbiter, joined.  Two ports face each other over *)
(* lines that keep words and their order, as link-level retry does.  Each block *)
(* also stands alone before any inputs.                                         *)
(*                                                                              *)
(* Which of the waiting sources the arbiter serves is left open here: its turns *)
(* are the subject of MessageArbiter.                                           *)
EXTENDS UartCycle

CONSTANTS UartEnds,     \* the two ports
          UartWriters,  \* the ends whose firmware writes
          UartTxDepth,  \* words of the firmware an end holds
          PayloadWords, \* payload words of the source that stands alone
          InLine,       \* bound: words under way in one direction
          MaxEvents,    \* bound: words written and deadlines missed, together
          MaxResets     \* bound: stream resets the firmware of an end asks for

ASSUME UartPortAssumption ==
  /\ UartWriters \subseteq UartEnds /\ Cardinality(UartEnds) = 2
  /\ Timeout > 1 /\ {UartTxDepth, InLine} \subseteq Nat \ {0}

VARIABLES source, rxpath, control,  \* the blocks that stand alone
          ports,     \* the two ports
          lines,     \* the words an end has sent and the other has not received
          told,      \* the counter it has sent last, none after a stream reset
          resets,    \* stream resets its firmware has asked for
          events     \* words written and deadlines missed

aloneVars == <<source, rxpath, control>>
portVars == <<ports, lines, told, resets, events>>

OtherEnd(e) == CHOOSE o \in UartEnds : o # e
-------------------------------------------------------------------------------
(* One port.                                                                   *)

\* Sources of the arbiter; those of ordinary messages are one.
NoOpSource == 0
Normal == 1
UartSource == 7
CreditSource == 8
RequestSource == 9
ResponseSource == 10
NoSource == -1

\* The words of a reset.
Maintenance == {NoOpSource, RequestSource, ResponseSource}

Unlocked == [on |-> FALSE, index |-> 0, last |-> 0]

PortReset == [control |-> ControlReset, source |-> SourceReset, store |-> F!Empty,
              rx |-> RxReset, lock |-> Unlocked, error |-> FALSE]

\* A reset does not hold up the decoding of requests and responses.
RxInput(x, stream_reset) ==
  [word |-> x.word, enabled |-> TRUE, stream_reset |-> stream_reset, fw_ready |-> x.read,
   reset |-> FALSE]

ControlInput(p, x, take) ==
  LET heard == RxSignals(p.rx, RxInput(x, FALSE))
  IN  [reset |-> FALSE, local |-> x.local, local_all |-> FALSE,
       request |-> heard.request[1], request_all |-> heard.request[2],
       response |-> heard.response[1], status |-> heard.response[3], take |-> take]

SourceInput(p, stream_reset, credit, take) ==
  [enabled |-> TRUE, fill |-> F!Count(p.store),
   data |-> IF F!Valid(p.store) THEN <<Token>> ELSE << >>,
   credit |-> credit, take |-> take, reset |-> stream_reset]

\* What goes into a port at an edge, and what its blocks say before the arbiter
\* has chosen.
Control(p, x) == ControlSignals(p.control, ControlInput(p, x, FALSE))

Seen(p, x, c) ==
  [in |-> x, control |-> c, rx |-> RxSignals(p.rx, RxInput(x, c.stream_reset)),
   source |-> SourceSignals(p.source, SourceInput(p, c.stream_reset, NoCredit, FALSE))]

\* The sources that wait for the channel.  A reset in run-out blocks ordinary
\* messages and updates.
WaitingSources(p, v) ==
  {s \in {NoOpSource, Normal, UartSource, CreditSource, RequestSource, ResponseSource} :
     CASE s = NoOpSource -> v.control.word[1] = "noop"
       [] s = RequestSource -> v.control.word[1] = "request"
       [] s = ResponseSource -> v.control.word[1] = "response"
       [] s = Normal -> ~v.control.block_messages
       [] s = CreditSource -> v.rx.credit_available /\ ~v.control.block_messages
       [] s = UartSource -> v.source.pending}

\* Slip: the others are served between the words of a transport.
ContendersThoughLocked(p, v) == WaitingSources(p, v)

\* A transport under way keeps the channel, unless a stream reset withdraws it.
Contenders(p, v) ==
  IF p.lock.on /\ ~v.control.stream_reset THEN WaitingSources(p, v) \cap {UartSource}
  ELSE WaitingSources(p, v)

\* The word of the source that is served.
Sent(v, s) ==
  CASE s = NoOpSource -> UartWord("noop", 0, FALSE, 0)
    [] s = Normal -> UartWord("other", 0, FALSE, 0)
    [] s = CreditSource -> UartWord("credit", 0, FALSE, v.rx.rx_counter)
    [] s = RequestSource -> UartWord("request", 0, v.control.word[2], 0)
    [] s = ResponseSource -> UartWord("response", 0, v.control.word[2], R!SUCCESS)
    [] s = UartSource ->
         IF v.source.word[1] = "header" THEN UartWord("transport", 0, FALSE, v.source.word[2])
         ELSE UartWord("data", 0, FALSE, 0)

\* The arbiter holds the channel from the first word of a transport to its last,
\* whose index it has caught.
LockStep(p, v, s) ==
  CASE v.control.stream_reset -> Unlocked
    [] ~v.control.stream_reset /\ s = UartSource /\ ~p.lock.on ->
         [on |-> TRUE, index |-> 1, last |-> v.source.word_count - 1]
    [] ~v.control.stream_reset /\ s = UartSource /\ p.lock.on ->
         IF p.lock.index = p.lock.last THEN [p.lock EXCEPT !.on = FALSE, !.index = 0]
         ELSE [p.lock EXCEPT !.index = @ + 1]
    [] OTHER -> p.lock

\* Words of the firmware in the FIFO and in the source.
Buffered(p, v) == F!Count(p.store) + v.source.staged_words

\* o_error: a block or the arbiter complains, the buffer runs over, or arbiter and
\* source disagree about where in a transport they are.
PortError(p, v, s) ==
  LET reset == v.control.stream_reset
      take == s = UartSource
      out == SourceSignals(p.source, SourceInput(p, reset, NoCredit, take))
  IN  \/ ~reset /\ \/ out.error
                   \/ p.lock.on /\ (~out.pending \/ out.word_index # p.lock.index)
                   \/ ~p.lock.on /\ out.pending /\ out.word_count \notin 2..MaxPayload + 1
                   \/ Buffered(p, v) > UartTxDepth
                   \/ out.done # (take /\ p.lock.on /\ p.lock.index = p.lock.last)
      \/ v.rx.error
      \/ ControlSignals(p.control, ControlInput(p, v.in, s \in Maintenance)).error

\* One edge, in which source s is served, if any.
PortStep(p, v, s) ==
  LET reset == v.control.stream_reset
      write == v.in.write /\ Buffered(p, v) < UartTxDepth
  IN  [control |-> ControlStep(p.control, ControlInput(p, v.in, s \in Maintenance)),
       source |-> SourceStep(p.source, SourceInput(p, reset, v.rx.credit, s = UartSource)),
       store |-> IF reset THEN F!Empty
                 ELSE F!Step(p.store, UartTxDepth, IF write THEN <<Token>> ELSE << >>,
                             v.source.payload_ready),
       rx |-> RxStep(p.rx, RxInput(v.in, reset)),
       lock |-> LockStep(p, v, s),
       error |-> PortError(p, v, s)]
-------------------------------------------------------------------------------
(* The blocks alone, before any inputs.                                        *)

SourceInputs ==
  [enabled : BOOLEAN, fill : 0..MaxPayload + 1, data : {<< >>} \cup {<<w>> : w \in PayloadWords},
   credit : {NoCredit} \cup 0..CreditModulus - 1, take : BOOLEAN, reset : {FALSE}]

\* Words for this stream and another, at a boundary and within a message alike.
RxWords ==
  {NoUartWord, UartWord("other", 0, FALSE, 0)}
    \cup {UartWord("transport", s, FALSE, n) : s \in 0..1, n \in 1..MaxPayload}
    \cup {UartWord("credit", s, FALSE, 1) : s \in 0..1}
    \cup {UartWord(kind, s, all, 0) : kind \in {"request", "response"}, s \in 0..1, all \in BOOLEAN}
    \cup {UartWord("response", 0, FALSE, 1)}

RxInputs == [word : RxWords, enabled : BOOLEAN, stream_reset : BOOLEAN, fw_ready : BOOLEAN,
             reset : {FALSE}]

\* A scope or status is read with its word only.
ControlInputs ==
  {x \in [local : BOOLEAN, local_all : BOOLEAN, request : BOOLEAN, request_all : BOOLEAN,
          response : BOOLEAN, status : 0..1, take : BOOLEAN, reset : {FALSE}] :
     /\ x.local_all => x.local
     /\ x.request_all => x.request
     /\ x.status # 0 => x.response}

WithReset(inputs) == inputs \cup {[x EXCEPT !.reset = TRUE] : x \in inputs}

AloneInit == source = SourceReset /\ rxpath = RxReset /\ control = ControlReset

SourceEdge == /\ \E x \in SourceInputs : source' = SourceStep(source, x)
              /\ UNCHANGED <<rxpath, control, portVars>>

RxEdge == /\ \E x \in RxInputs : rxpath' = RxStep(rxpath, x)
          /\ UNCHANGED <<source, control, portVars>>

ControlEdge == /\ \E x \in ControlInputs : control' = ControlStep(control, x)
               /\ UNCHANGED <<source, rxpath, portVars>>

\* The circuits show the same signals as the references and go to the same state,
\* whatever comes in: what is staged, how much credit is left, where in a message
\* the path stands, what is dropped, what a reset owes and when it gives up.
SourceInStep ==
  \A r \in {SourceRegisters(source)}, x \in WithReset(SourceInputs) :
    \A hw \in {HwSource(r, x)} :
      /\ hw.signals = SourceSignals(source, x)
      /\ SourceMeaning(hw.registers) = SourceRegisters(SourceStep(source, x))

RxInStep ==
  \A r \in {RxRegisters(rxpath)}, x \in WithReset(RxInputs) :
    HwRx(r, x) = [signals |-> RxSignals(rxpath, x), registers |-> RxRegisters(RxStep(rxpath, x))]

ControlInStep ==
  \A r \in {ControlRegisters(control)}, x \in WithReset(ControlInputs) :
    HwControl(r, x) = [signals |-> ControlSignals(control, x),
                       registers |-> ControlRegisters(ControlStep(control, x))]
-------------------------------------------------------------------------------
(* Two ports.                                                                  *)

PortsInit == /\ ports = [e \in UartEnds |-> PortReset]
             /\ lines = [e \in UartEnds |-> << >>]
             /\ told = [e \in UartEnds |-> NoCredit]
             /\ events = 0
             /\ resets = [e \in UartEnds |-> 0]

\* What may happen at an edge of e.
Inputs(e) ==
  LET coming == lines[OtherEnd(e)]
  IN  [word : {NoUartWord} \cup (IF coming = << >> THEN {} ELSE {Head(coming)}),
       write : {x \in BOOLEAN : x => e \in UartWriters /\ events < MaxEvents},
       read : BOOLEAN, local : {x \in BOOLEAN : x => resets[e] < MaxResets}]

\* Firmware counts only where it has an effect: a write that finds no room, or
\* falls into a reset, leaves no trace.
Effective(p, v) ==
  /\ v.in.write => Buffered(p, v) < UartTxDepth /\ ~v.control.stream_reset
  /\ v.in.read => v.rx.fw_valid
  /\ v.in.local => v.control.local_start

Up(count, more) == IF more THEN count + 1 ELSE count

\* How many edges go by before a deadline is left open: at any edge of the wait the
\* time is up or is not.
OnTheClock(p, due) ==
  IF p.control.seq.phase = "wait"
  THEN [p EXCEPT !.control.seq.left = IF due THEN 1 ELSE Timeout] ELSE p

\* The clock of one end.  A word may arrive, the firmware may write, read and ask
\* for a reset; an update is due when the counter has changed since the last one.
PortEdge(e) ==
  \E due \in {FALSE, events < MaxEvents /\ ports[e].control.seq.phase = "wait"} :
    \E p \in {OnTheClock(ports[e], due)}, x \in Inputs(e) :
      \E v \in {Seen(p, x, Control(p, x))} :
        /\ Effective(p, v)
        /\ \E s \in Contenders(p, v) \cup {NoSource} :
             /\ s # NoSource => Len(lines[e]) < InLine
             /\ s = CreditSource => v.rx.rx_counter # told[e]
             /\ ports' = [ports EXCEPT ![e] = PortStep(p, v, s)]
             /\ lines' = [lines EXCEPT
                            ![e] = IF s = NoSource THEN @ ELSE Append(@, Sent(v, s)),
                            ![OtherEnd(e)] = IF x.word = NoUartWord THEN @ ELSE Tail(@)]
             /\ told' = [told EXCEPT ![e] = CASE v.control.stream_reset -> NoCredit
                                              [] s = CreditSource -> v.rx.rx_counter
                                              [] OTHER -> @]
        /\ events' = Up(Up(events, x.write), v.control.retry)
        /\ resets' = [resets EXCEPT ![e] = Up(@, x.local)]

PortsNext == \E e \in UartEnds : PortEdge(e)

\* The two ports, while the blocks that stand alone rest.
PortsSpec == /\ PortsInit /\ AloneInit
             /\ [][PortsNext /\ UNCHANGED aloneVars]_<<portVars, aloneVars>>
-------------------------------------------------------------------------------
(* Properties.                                                                 *)

\* Head of the line to an end, and where in a message that end expects it.
Coming(e) == lines[OtherEnd(e)]
AtBoundary(e) == ports[e].rx.remaining = 0

\* No port ever reports an error.
PortsAgree == \A e \in UartEnds : ~ports[e].error

\* Payload never arrives where a message is expected, and a request always does.
FramingKept ==
  \A e \in UartEnds :
    Coming(e) # << >> => /\ Head(Coming(e)).kind = "data" => ~AtBoundary(e)
                         /\ Head(Coming(e)).kind = "request" => AtBoundary(e)

\* Nothing but its payload is sent within a transport.
TransportsStayWhole ==
  \A e \in UartEnds :
    Coming(e) # << >> /\ ~AtBoundary(e) => Head(Coming(e)).kind \in {"data", "noop"}
===============================================================================
