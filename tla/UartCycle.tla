------------------------------ MODULE UartCycle ------------------------------
(* The three blocks of a UART port clock by clock: the source that stages one   *)
(* transport and hands it to the arbiter (model/ualink/uart_tx_source.py), the  *)
(* receive path that finds the messages in the words that arrive                *)
(* (uart_rx_path.py), and the control of stream resets (uart_reset_control.py), *)
(* which wraps the sequencer of UartReset.  Beside each stands its circuit in   *)
(* src/rtl/dl, a function of registers and inputs.                              *)
(*                                                                              *)
(* A word is a record; a payload word stored in a FIFO is only counted, since   *)
(* the FIFO itself is the subject of ReceiveFifoQueue.                          *)
EXTENDS Integers, Sequences, FiniteSetsExt

CONSTANTS MaxPayload,      \* the 32 payload words of one transport
          CreditModulus,   \* 4096, the values of a credit counter
          UartRxDepth,     \* words the receive path stores
          ResponseDepth,   \* responses the control may owe, 4 by default
          NoOps, Timeout   \* as in UartReset; the clock period is the unit of time

ASSUME UartCycleAssumption ==
  /\ MaxPayload \in Nat \ {0} /\ ResponseDepth \in 1..16
  /\ CreditModulus \in Nat \ {0} /\ UartRxDepth \in 1..(CreditModulus - 1)
  /\ {NoOps, Timeout} \subseteq Nat \ {0}

F == INSTANCE ReceiveFifo
R == INSTANCE UartReset

\* One word, of which the FIFOs hold so and so many.
Token == 0
NoCredit == -1

\* Messages of class UART by type, and words of any other class or type: arg is
\* the length of a transport, the value of an update, the status of a response.
UartWord(kind, stream, all, arg) == [kind |-> kind, stream |-> stream, all |-> all, arg |-> arg]
NoUartWord == UartWord("none", 0, FALSE, 0)
-------------------------------------------------------------------------------
(* The source of transports.                                                   *)

SourceReset == [payload |-> << >>, reserved |-> 0, remaining_load |-> 0,
                header_sent |-> FALSE, tx_counter |-> 0, latest_fc |-> 0]

SourceQuiet ==
  [payload_ready |-> FALSE, pending |-> FALSE, word |-> <<"none", 0>>, word_count |-> 0,
   word_index |-> 0, busy |-> FALSE, reserved_words |-> 0, staged_words |-> 0,
   tx_counter |-> 0, latest_fc |-> 0, done |-> FALSE, error |-> FALSE]

SourcePending(s, x) == x.enabled /\ s.reserved # 0 /\ s.remaining_load = 0

SourceSignals(s, x) ==
  LET pending == SourcePending(s, x)
  IN  IF x.reset THEN SourceQuiet
      ELSE [payload_ready |-> x.enabled /\ s.remaining_load # 0,
            pending |-> pending,
            word |-> CASE ~pending -> <<"none", 0>>
                       [] pending /\ ~s.header_sent -> <<"header", s.reserved>>
                       [] pending /\ s.header_sent -> <<"data", Head(s.payload)>>,
            word_count |-> IF pending THEN s.reserved + 1 ELSE 0,
            word_index |-> IF pending /\ s.header_sent
                           THEN s.reserved - Len(s.payload) + 1 ELSE 0,
            busy |-> s.reserved # 0,
            reserved_words |-> s.reserved, staged_words |-> Len(s.payload),
            tx_counter |-> s.tx_counter, latest_fc |-> s.latest_fc,
            done |-> x.take /\ pending /\ s.header_sent /\ Len(s.payload) = 1,
            error |-> (x.take /\ ~pending) \/ (~x.enabled /\ s.header_sent)]

\* Words for the next message: what is stored, has credit and fits.
Reserved(s, x) ==
  IF x.enabled THEN Min({x.fill, (s.latest_fc - s.tx_counter) % CreditModulus, MaxPayload})
  ELSE 0

\* The head of the message goes out: first the header, then the payload.
SourceTaken(s) ==
  IF ~s.header_sent THEN [s EXCEPT !.header_sent = TRUE]
  ELSE IF Len(s.payload) > 1 THEN [s EXCEPT !.payload = Tail(@)]
  ELSE [s EXCEPT !.payload = << >>, !.tx_counter = (@ + s.reserved) % CreditModulus,
                 !.reserved = 0, !.header_sent = FALSE]

\* One clock edge.  An update counts for the next reservation, not for this one.
SourceStep(s, x) ==
  LET moved ==
        CASE s.reserved = 0 ->
               [s EXCEPT !.reserved = Reserved(s, x), !.remaining_load = Reserved(s, x)]
          [] s.remaining_load # 0 /\ x.enabled /\ x.data # << >> ->
               [s EXCEPT !.payload = @ \o x.data, !.remaining_load = @ - 1]
          [] s.remaining_load = 0 /\ SourcePending(s, x) /\ x.take -> SourceTaken(s)
          [] OTHER -> s
  IN  CASE x.reset -> SourceReset
        [] ~x.reset /\ x.credit = NoCredit -> moved
        [] OTHER -> [moved EXCEPT !.latest_fc = x.credit]

\* dl_uart_tx_source.v.  The staged words stay in their registers; those not
\* loaded, or sent already, hold words of no meaning.
SourceRegisters(s) ==
  LET sent == IF s.header_sent THEN s.reserved - Len(s.payload) ELSE 0
  IN  [busy |-> s.reserved # 0, ready |-> s.reserved # 0 /\ s.remaining_load = 0,
       payload_count |-> s.reserved, loaded |-> s.reserved - s.remaining_load,
       word_index |-> IF s.header_sent THEN sent + 1 ELSE 0,
       held |-> Len(s.payload), tx |-> s.tx_counter, latest_fc |-> s.latest_fc,
       words |-> [i \in 0..MaxPayload - 1 |->
                    IF i >= sent /\ i - sent < Len(s.payload)
                    THEN s.payload[i - sent + 1] ELSE Token]]

\* Which of the words still count.
SourceMeaning(r) ==
  LET sent == IF r.word_index = 0 THEN 0 ELSE r.word_index - 1
  IN  [r EXCEPT !.words = [i \in DOMAIN @ |-> IF sent <= i /\ i < r.loaded THEN @[i] ELSE Token]]

TakesLast(r) == r.word_index = r.payload_count

HwSource(r, x) ==
  LET live == ~x.reset
      limit == Min({(r.latest_fc - r.tx) % CreditModulus, x.fill})
      capture == live /\ x.enabled /\ ~r.busy /\ limit # 0
      ready == live /\ x.enabled /\ r.busy /\ ~r.ready
      load == ready /\ x.data # << >>
      pending == live /\ x.enabled /\ r.busy /\ r.ready
      take == pending /\ x.take
      complete == take /\ TakesLast(r)
      anew == complete \/ capture
      masked(count) == IF live THEN count ELSE 0
  IN  [signals |->
         [payload_ready |-> ready, pending |-> pending,
          word |-> CASE ~pending -> <<"none", 0>>
                     [] pending /\ r.word_index = 0 ->
                          <<"header", ((r.payload_count - 1) % MaxPayload) + 1>>
                     [] OTHER -> <<"data", r.words[(r.word_index - 1) % MaxPayload]>>,
          word_count |-> IF pending THEN r.payload_count + 1 ELSE 0,
          word_index |-> IF pending THEN r.word_index ELSE 0,
          busy |-> live /\ r.busy,
          reserved_words |-> IF r.busy THEN masked(r.payload_count) ELSE 0,
          staged_words |-> masked(r.held),
          tx_counter |-> masked(r.tx), latest_fc |-> masked(r.latest_fc),
          done |-> complete,
          error |-> live /\ \/ x.take /\ ~pending
                            \/ ~x.enabled /\ r.ready /\ r.word_index # 0],
       registers |->
         IF x.reset THEN SourceRegisters(SourceReset)
         ELSE [busy |-> ~complete /\ (capture \/ r.busy),
               ready |-> ~anew /\ (r.ready \/ (load /\ r.loaded + 1 = r.payload_count)),
               payload_count |-> CASE complete -> 0
                                   [] ~complete /\ capture -> Min({limit, MaxPayload})
                                   [] OTHER -> r.payload_count,
               loaded |-> CASE anew -> 0 [] ~anew /\ load -> r.loaded + 1 [] OTHER -> r.loaded,
               word_index |-> CASE anew -> 0 [] ~anew /\ take -> r.word_index + 1
                                [] OTHER -> r.word_index,
               held |-> CASE anew -> 0
                          [] ~anew /\ load -> r.held + 1
                          [] ~anew /\ take /\ r.word_index # 0 -> r.held - 1
                          [] OTHER -> r.held,
               tx |-> IF complete THEN (r.tx + r.payload_count) % CreditModulus ELSE r.tx,
               latest_fc |-> IF x.credit = NoCredit THEN r.latest_fc ELSE x.credit,
               words |-> [i \in DOMAIN r.words |->
                            IF load /\ r.loaded = i THEN x.data[1] ELSE r.words[i]]]]
-------------------------------------------------------------------------------
(* The receive path.                                                           *)

RxReset == [fifo |-> F!Empty, remaining |-> 0, discard |-> FALSE,
            initialized |-> FALSE, reads |-> 0]

RxQuiet == [fw_valid |-> FALSE, fill |-> 0, initialized |-> FALSE, rx_counter |-> 0,
            credit_available |-> FALSE, remaining |-> 0, dropping |-> FALSE, header |-> FALSE,
            write |-> FALSE, discard |-> FALSE, done |-> FALSE, credit |-> NoCredit,
            request |-> <<FALSE, FALSE>>, response |-> <<FALSE, FALSE, 0>>, other |-> FALSE,
            error |-> FALSE]

Arrives(x) == x.word.kind # "none"
Applies(word) == word.stream = 0 \/ word.all

RxSignals(r, x) ==
  LET active == r.initialized /\ ~x.stream_reset
      here == Arrives(x)
      boundary == here /\ r.remaining = 0
      dropping == r.remaining # 0 /\ (r.discard \/ ~active \/ ~x.enabled)
      write == here /\ r.remaining # 0 /\ ~dropping /\ F!Ready(r.fifo, UartRxDepth)
      header == boundary /\ x.word.kind = "transport"
      update == boundary /\ x.word.kind = "credit" /\ x.word.stream = 0
      request == boundary /\ x.word.kind = "request" /\ Applies(x.word)
      response == boundary /\ x.word.kind = "response" /\ Applies(x.word)
  IN  IF x.reset THEN RxQuiet
      ELSE [fw_valid |-> active /\ F!Valid(r.fifo),
            fill |-> IF active THEN F!Count(r.fifo) ELSE 0,
            initialized |-> active,
            rx_counter |-> IF active THEN (UartRxDepth + r.reads) % CreditModulus ELSE 0,
            credit_available |-> active /\ x.enabled,
            remaining |-> r.remaining, dropping |-> dropping, header |-> header,
            write |-> write, discard |-> here /\ r.remaining # 0 /\ ~write,
            done |-> here /\ r.remaining = 1,
            credit |-> IF update /\ active THEN x.word.arg ELSE NoCredit,
            request |-> <<request, request /\ x.word.all>>,
            response |-> <<response, response /\ x.word.all, IF response THEN x.word.arg ELSE 0>>,
            other |-> boundary /\ ~(header \/ update \/ request \/ response),
            error |-> IF r.remaining # 0
                      THEN here /\ ~dropping /\ ~F!Ready(r.fifo, UartRxDepth)
                      ELSE header /\ x.word.stream = 0 /\ active /\ x.enabled
                             /\ F!Count(r.fifo) + x.word.arg > UartRxDepth]

\* Slip: a stream reset forgets how much of the message is still to come.
FramingForgotten(r, x, out) ==
  CASE x.stream_reset -> [remaining |-> 0, discard |-> FALSE]
    [] ~x.stream_reset /\ r.remaining # 0 ->
         LET left == IF Arrives(x) THEN r.remaining - 1 ELSE r.remaining
         IN  [remaining |-> left, discard |-> left # 0 /\ (r.discard \/ out.dropping \/ out.error)]
    [] ~x.stream_reset /\ r.remaining = 0 /\ out.header ->
         [remaining |-> x.word.arg,
          discard |-> ~out.initialized \/ ~x.enabled \/ x.word.stream # 0 \/ out.error]
    [] OTHER -> [remaining |-> 0, discard |-> r.discard]

\* Where in a message the next word stands, and whether its payload is dropped.
\* A stream reset does not change where it stands.
Framing(r, x, out) ==
  CASE r.remaining # 0 ->
         LET left == IF Arrives(x) THEN r.remaining - 1 ELSE r.remaining
         IN  [remaining |-> left, discard |-> left # 0 /\ (r.discard \/ out.dropping \/ out.error)]
    [] r.remaining = 0 /\ out.header ->
         [remaining |-> x.word.arg,
          discard |-> ~out.initialized \/ ~x.enabled \/ x.word.stream # 0 \/ out.error]
    [] OTHER -> [remaining |-> 0, discard |-> r.discard]

RxStep(r, x) ==
  LET out == RxSignals(r, x)
      read == out.fw_valid /\ x.fw_ready
      framing == Framing(r, x, out)
  IN  IF x.reset THEN RxReset
      ELSE [fifo |-> IF x.stream_reset \/ ~r.initialized THEN F!Empty
                     ELSE F!Step(r.fifo, UartRxDepth, IF out.write THEN <<Token>> ELSE << >>, read),
            remaining |-> framing.remaining, discard |-> framing.discard,
            initialized |-> ~x.stream_reset,
            reads |-> CASE x.stream_reset \/ ~r.initialized -> 0
                        [] ~x.stream_reset /\ r.initialized /\ read -> (r.reads + 1) % CreditModulus
                        [] OTHER -> r.reads]

\* dl_uart_rx_path.v keeps the counter to announce in place of the reads.
RxRegisters(r) ==
  [remaining |-> r.remaining, drop |-> r.discard, initialized |-> r.initialized,
   rx_credit |-> IF r.initialized THEN (UartRxDepth + r.reads) % CreditModulus ELSE 0,
   storage |-> r.fifo]

HwRx(r, x) ==
  LET live == ~x.reset
      running == live /\ ~x.stream_reset /\ r.initialized
      here == live /\ Arrives(x)
      boundary == here /\ r.remaining = 0
      payload == here /\ r.remaining # 0
      header == boundary /\ x.word.kind = "transport"
      update == boundary /\ x.word.kind = "credit" /\ x.word.stream = 0
      request == boundary /\ x.word.kind = "request" /\ Applies(x.word)
      response == boundary /\ x.word.kind = "response" /\ Applies(x.word)
      admit_error == header /\ x.word.stream = 0 /\ running /\ x.enabled
                       /\ F!Count(r.storage) + x.word.arg > UartRxDepth
      drop_now == r.drop \/ ~running \/ ~x.enabled
      space == F!Ready(r.storage, UartRxDepth)
      write == payload /\ ~drop_now /\ space
      write_error == payload /\ ~drop_now /\ ~space
      done == payload /\ r.remaining = 1
      valid == running /\ F!Valid(r.storage)
  IN  [signals |->
         [fw_valid |-> valid, fill |-> IF running THEN F!Count(r.storage) ELSE 0,
          initialized |-> running, rx_counter |-> IF running THEN r.rx_credit ELSE 0,
          credit_available |-> running /\ x.enabled,
          remaining |-> IF live THEN r.remaining ELSE 0,
          dropping |-> live /\ r.remaining # 0 /\ drop_now, header |-> header, write |-> write,
          discard |-> payload /\ ~write, done |-> done,
          credit |-> IF update /\ running THEN x.word.arg ELSE NoCredit,
          request |-> <<request, request /\ x.word.all>>,
          response |-> <<response, response /\ x.word.all, IF response THEN x.word.arg ELSE 0>>,
          other |-> boundary /\ ~(header \/ update \/ request \/ response),
          error |-> admit_error \/ write_error],
       registers |->
         IF x.reset THEN RxRegisters(RxReset)
         ELSE [remaining |-> CASE header -> x.word.arg
                               [] ~header /\ payload -> r.remaining - 1
                               [] OTHER -> r.remaining,
               drop |-> IF header THEN ~running \/ ~x.enabled \/ x.word.stream # 0 \/ admit_error
                        ELSE ~done /\ (r.drop \/ (r.remaining # 0 /\ (drop_now \/ write_error))),
               initialized |-> ~x.stream_reset,
               rx_credit |-> CASE x.stream_reset -> 0
                               [] ~x.stream_reset /\ ~r.initialized -> UartRxDepth
                               [] OTHER -> IF valid /\ x.fw_ready
                                           THEN (r.rx_credit + 1) % CreditModulus ELSE r.rx_credit,
               storage |-> IF ~running THEN F!Empty
                           ELSE F!Step(r.storage, UartRxDepth,
                                       IF write THEN <<Token>> ELSE << >>, valid /\ x.fw_ready)]]
-------------------------------------------------------------------------------
(* The control of stream resets.                                               *)

\* _clear(): owed is the requests seen less the responses sent.
ControlReset == [seq |-> R!ReleaseHold(R!SequencerReset), owed |-> 0, noops_sent |-> 0,
                 fault |-> FALSE]

ControlQuiet ==
  [local_ready |-> FALSE, stream_reset |-> TRUE, block_messages |-> TRUE, pending |-> FALSE,
   word |-> <<"none", FALSE>>, waiting |-> FALSE, noops_left |-> 0, response_count |-> 0,
   local_start |-> FALSE, local_done |-> FALSE, retry |-> FALSE, reply_done |-> FALSE,
   fault |-> FALSE, error |-> FALSE]

\* An answer is looked at before the time that passes in the edge.
Answered(c, x) ==
  IF x.response /\ x.status = R!SUCCESS THEN R!ReceiveResponse(c.seq, R!SUCCESS, 0, FALSE)
  ELSE c.seq

TimesOut(c, x) == R!Advance(Answered(c, x), 1).retries # c.seq.retries

\* What the control sends, with the scope of a request or response.
ControlWord(c) ==
  LET kind == R!Offer(c.seq)
  IN  <<kind, CASE kind = "request" -> c.seq.all_streams
                [] kind = "response" -> Head(c.seq.responses)
                [] OTHER -> FALSE>>

\* Slip: a reply taken at this edge leaves no place for a request.
OverflowsAlthoughTaken(c, x, reply) == x.request /\ c.owed = ResponseDepth
Overflows(c, x, reply) == x.request /\ c.owed = ResponseDepth /\ ~reply

ControlSignals(c, x) ==
  LET waiting == c.seq.phase = "wait"
      ready == ~R!BlockMessages(c.seq) /\ ~waiting
      start == x.local /\ ready
      success == x.response /\ x.status = R!SUCCESS /\ waiting
      timeout == TimesOut(c, x)
      pending == ~start /\ ~timeout /\ R!Offer(c.seq) # "none"
      reply == pending /\ R!Offer(c.seq) = "response" /\ x.take
      error == Overflows(c, x, reply) \/ (x.take /\ ~pending)
  IN  CASE x.reset -> ControlQuiet
        [] ~x.reset /\ c.fault -> [ControlQuiet EXCEPT !.fault = TRUE]
        [] OTHER ->
             [local_ready |-> ready,
              stream_reset |-> R!StreamDisabled(c.seq) \/ start \/ x.request,
              block_messages |-> R!BlockMessages(c.seq) \/ start \/ timeout,
              pending |-> pending,
              word |-> IF pending THEN ControlWord(c) ELSE <<"none", FALSE>>,
              waiting |-> waiting,
              noops_left |-> IF R!Offer(c.seq) = "noop" THEN NoOps - c.noops_sent ELSE 0,
              response_count |-> c.owed,
              local_start |-> start, local_done |-> success /\ ~error,
              retry |-> timeout /\ ~error, reply_done |-> reply, fault |-> FALSE,
              error |-> error]

\* One edge: answer, time, local request, the word taken, the peer's request.
\* How often it was tried again is not kept.
ControlStep(c, x) ==
  LET out == ControlSignals(c, x)
      timed == [R!Advance(IF out.local_done THEN Answered(c, x) ELSE c.seq, 1)
                  EXCEPT !.retries = 0]
      asked == IF out.local_start THEN R!Request(timed, x.local_all) ELSE timed
      served == IF out.pending /\ x.take THEN R!Service(asked) ELSE asked
      sent == IF out.retry \/ out.local_start THEN 0 ELSE c.noops_sent
  IN  CASE x.reset -> ControlReset
        [] ~x.reset /\ (c.fault \/ out.error) -> [ControlReset EXCEPT !.fault = TRUE]
        [] OTHER ->
             [c EXCEPT
                !.seq = IF x.request THEN R!ReceiveRequest(served, 0, x.request_all) ELSE served,
                !.owed = @ + (IF x.request THEN 1 ELSE 0) - (IF out.reply_done THEN 1 ELSE 0),
                !.noops_sent = IF x.take /\ out.word[1] = "noop" THEN sent + 1 ELSE sent]

\* dl_uart_reset_control.v: a state, counters up and down, and a shift register
\* with the scope of each response that is owed.
ControlRegisters(c) ==
  [sta |-> c.seq.phase,
   noops |-> IF c.seq.phase = "noops" THEN c.seq.noops ELSE 0,
   wait |-> IF c.seq.phase = "wait" THEN Timeout - c.seq.left ELSE 0,
   local_all |-> c.seq.all_streams, response |-> c.owed,
   scope |-> [i \in 0..ResponseDepth - 1 |->
                i < Len(c.seq.responses) /\ c.seq.responses[i + 1]],
   fault |-> c.fault]

HwControl(r, x) ==
  LET live == ~x.reset /\ ~r.fault
      start == live /\ r.sta = "normal" /\ x.local
      success == live /\ r.sta = "wait" /\ x.response /\ x.status = 0
      timeout == live /\ r.sta = "wait" /\ r.wait = Timeout - 1 /\ ~success
      pending == live /\ ~start /\ ~timeout
                   /\ (r.sta \in {"noops", "request"} \/ r.response # 0)
      kind == CASE ~pending -> "none"
                [] pending /\ r.sta = "noops" -> "noop"
                [] pending /\ r.sta = "request" -> "request"
                [] OTHER -> "response"
      taken(k) == kind = k /\ pending /\ x.take
      overflow == live /\ x.request /\ r.response = ResponseDepth /\ ~taken("response")
      error == live /\ (overflow \/ (x.take /\ ~pending))
      push == live /\ ~error /\ x.request
      pop == IF taken("response") THEN 1 ELSE 0
      popped == [i \in DOMAIN r.scope |->
                   IF pop = 1 THEN i + 1 \in DOMAIN r.scope /\ r.scope[i + 1] ELSE r.scope[i]]
  IN  [signals |->
         [local_ready |-> live /\ r.sta = "normal",
          stream_reset |-> ~live \/ start \/ x.request \/ r.sta # "normal" \/ r.response # 0,
          block_messages |-> ~live \/ start \/ timeout \/ r.sta \in {"noops", "request"},
          pending |-> pending,
          word |-> <<kind, CASE kind = "request" -> r.local_all
                             [] kind = "response" -> r.scope[0]
                             [] OTHER -> FALSE>>,
          waiting |-> live /\ r.sta = "wait",
          noops_left |-> IF live /\ r.sta = "noops" THEN r.noops ELSE 0,
          response_count |-> IF live THEN r.response ELSE 0,
          local_start |-> start, local_done |-> success /\ ~error, retry |-> timeout /\ ~error,
          reply_done |-> taken("response"), fault |-> ~x.reset /\ r.fault, error |-> error],
       registers |->
         IF x.reset \/ r.fault \/ error
         THEN [ControlRegisters(ControlReset) EXCEPT !.fault = ~x.reset]
         ELSE [sta |-> CASE start \/ timeout -> "noops"
                         [] ~(start \/ timeout) /\ taken("noop") /\ r.noops = 1 -> "request"
                         [] taken("request") -> "wait"
                         [] ~taken("request") /\ success -> "normal"
                         [] OTHER -> r.sta,
               noops |-> CASE start \/ timeout -> NoOps
                           [] ~(start \/ timeout) /\ taken("noop") -> r.noops - 1
                           [] OTHER -> r.noops,
               wait |-> IF r.sta # "wait" \/ success \/ timeout THEN 0 ELSE r.wait + 1,
               local_all |-> IF start THEN x.local_all ELSE r.local_all,
               response |-> r.response + (IF push THEN 1 ELSE 0) - pop,
               scope |-> IF push THEN [popped EXCEPT ![r.response - pop] = x.request_all]
                         ELSE popped,
               fault |-> FALSE]]
===============================================================================
