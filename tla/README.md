# TLA+ verification of the KD-UAlink 2.0 link

This directory holds TLA+ modules for the digital core of KD-UAlink 2.0, the TLC
configurations that check them, and TLAPS proofs. The code that is modelled is the
reference models under `model/`, which state event by event what has to happen, and the
RTL under `rtl/`, which has to do the same edge by edge. All paths below are relative to
the repository root.

Contents: [inventory](#inventory), [modules](#modules), [hardware](#hardware),
[scaling](#scaling), [runs](#runs), [wires, order and fairness](#wires-order-and-fairness),
[what fails](#what-fails), [proofs](#proofs), [only model-checked](#only-model-checked),
[not modelled](#not-modelled), [plan](#plan), [running](#running).

## Inventory

The system is an endpoint of a UALink 2.0 link. Transactions enter through UPLI,
the transaction layer (TL) packs them into Flits, the data link (DL) numbers,
retries and multiplexes them with control messages, and the RS layer formats
them for the lanes.

| component | state | operations | interacts with |
|---|---|---|---|
| Replay transmitter (`model/ualink/dl_replay_transmitter.py`) | last number sent and acknowledged, ignore window, buffer, schedule | enqueue, receive, discard_ingress, next_replay, reset | scheduler |
| Replay receiver (`dl_replay_receiver.py`) | last number received, bad and unexpected counts, ambiguous, replay | receive, discard_for_backpressure, reset, configure_replay_limit | scheduler |
| Replay scheduler (`dl_replay_scheduler.py`) | explicit counter, request copies left, request target, codeword groups | send, receive, discard_ingress, reset | both halves above, the peer over the wire |
| Message arbiter (`dl_message_scheduler.py`, `dl_message_service.py`) | a FIFO per source, two round-robin levels, active message | offer, tick, cancel | all message sources |
| Basic messages (`dl_basic_message.py`, `dl_basic_control.py`) | one local request, one remote reply, four queues, age | request, receive, commit, reset; one clock edge | arbiter, peer |
| UART stream (`uart_credit.py`) | two buffers, absolute counters modulo 4096 | write, transmit, receive_transport, read, apply_credit_update, reset | arbiter, peer |
| UART reset (`uart_reset.py`) | phase, NoOps left, responses owed, deadline | request, receive_request, receive_response, service, advance_ps | UART stream, arbiter, peer |
| UART blocks (`uart_tx_source.py`, `uart_rx_path.py`, `uart_reset_control.py`) | staged transport, message position, response queue | one clock edge | arbiter, firmware FIFO, peer |
| UPLI connection and credit (`upli_connection.py`, `upli_credit*.py`) | four handshake levels, balances, initialisation streaks, return queues | one clock edge | both sides of the interface |
| UPLI receive channel (`upli_receive.py`, `upli_receipt.py`, `receive_fifo.py`) | FIFOs with a two-stage read pipeline, publisher position | one clock edge | UPLI credit |
| UPLI bursts (`upli_burst*.py`, `upli_tdm.py`) | turn, remaining beats and staged payload of each port | one clock edge | UPLI credit |
| TL credit (`model/tl/credit_*.py`, `receive_*.py`) | credit slots, capacities, pending publication, receive buffer | one clock edge | peer TL, packer |
| TL packing (`tx_packer.py`, `tx_channels.py`, `tl_*.py`, `control_partition.py`, `prepared_partition.py`) | held choice, class preference, tenure still owed, budget, cursor | one clock edge | TL credit, DL |
| RS formatting (`model/phy/*.py`) | calendar position | next block | lanes |
| RTL (`rtl/`) | registers of the above | one clock edge | each model above is its reference |

What is hard, and what makes each part correct:

* **Link-level retry.** Flits get corrupted, or storage refuses them; requests,
  their copies and acknowledgements are under way at the same time; numbers
  wrap; most Flits carry three bits of their number. Correct means: every
  payload is delivered once and in order, whatever happens, storage stays within
  its capacity, and the link never stops for good.
* **Messages.** Sources compete for one Flit segment, and a UART transport holds it
  for up to 33 words. Correct means: every source is served within the computed bound,
  a message is not cut in two, and every request is answered.
* **UART stream.** Counters are absolute and modular, and either end may reset while
  messages of the old numbering are under way. Correct means: the receive buffer never
  overflows, credit survives resets, and a reset handshake ends.
* **UPLI and TL credit.** Credit loops across a handshake, an initialisation
  phase and merging queues. Correct means: credit is conserved, never used before
  both ends are ready, and never leaked; what was accepted on credit can go.
* **Pipelined storage and circuits.** A read decision is taken before the data arrive;
  a circuit replaces sequences by pointers, distances by end points and counts by
  threshold bits. Correct means: it is still the reference.

The full list of hazards, with lines and the properties that watch them, is in
`PROJECT.json`.

## Modules

Link-level retry:

| module | models | how |
|---|---|---|
| `ReplayHeader` | `dl_replay_header.py` | header words as numbers, encoders and decoder by `div` and `%`; the ring of sequence numbers |
| `ReplayTransmitter` | `dl_replay_transmitter.py`, `dl_replay_tx_control.v`, `dl_replay_tx_storage.v` | operators from state to state, one per method; behind them the circuit's window registers, pointers, memory and output slot, and one clock edge of them |
| `ReplayReceiver` | `dl_replay_receiver.py` | operators from state to outcome |
| `ReplayReceiverStream` | the receiver and what it relies on | a sender reduced to consecutive numbers, restarts on request, and a wire that loses Flits |
| `ReliableStream` | what retry promises | a queue per direction |
| `ReplayLink` | two `dl_replay_scheduler.py` and two wires | `send`, `receive`, `discard_ingress` of either peer, in the order of the loop of `verification/model/test_dl_replay_scheduler.py:137-153` |
| `ReplayRing` | the two together | one transmitter in an arbitrary environment, an action per method; beside it the circuit, stepped on the same inputs |
| `ReplayPort` | `dl_replay_receiver.v`, `dl_replay_header_tx.v`, `dl_replay_event_port.v`, `dl_replay_data_port.v` | the endpoint as a function of registers and inputs, compared with the reference in every state of the link |

DL messages and the UART stream:

| module | models | how |
|---|---|---|
| `MessageArbiter` | `dl_message_scheduler.py`, `dl_message_service.py`, `dl_message_arbiter.v` | the queues and turns, the service bound, the circuit |
| `BasicLink` | `dl_basic_message.py`, `dl_basic_control.py`, `dl_basic_message_control.v` | one end against any input, two ends on wires, the circuit |
| `UartReset` | `uart_reset.py` | operators from state to state; what the sequencer offers to the wire |
| `UartStream` | `uart_credit.py`, two ends with their sequencers and wires | one action per firmware call, message kind sent, message received, and the clock |
| `LossyStream` | what the stream promises | a queue per direction that only a reset cuts |
| `UartCycle` | `uart_tx_source.py`, `uart_rx_path.py`, `uart_reset_control.py` and their circuits | clock by clock, each circuit a function |
| `UartPort` | `dl_uart_port.v`, `dl_uart_tx_path.v` | two ports with the firmware FIFO, the arbiter's lock and ordered lines; each block alone before any input |
| `MCMessages` | | the three together, one followed at a time |

UPLI:

| module | models | how |
|---|---|---|
| `ReceiveFifo` | `receive_fifo.py` | one operator for a clock edge |
| `ReceiveFifoQueue` | the FIFO between a producer and a consumer | anything may be offered and taken at each edge |
| `BoundedQueue` | what the FIFO promises | one queue |
| `UpliCredit` | `upli_connection.py`, `upli_credit.py` | the four levels and their controller; the sender's ledger of one channel |
| `UpliCreditReturn` | `upli_credit_return.py` | the return queue, one operator for an edge |
| `UpliCreditLoop` | `upli_receive.py`, `upli_credit_initialization.py`, and the closed loop of a channel | receive channel, ledger and connection; one action for an edge, one for an edge in reset |
| `UpliReceipts` | `upli_receipt.py` | what a receiver owes: receipts held, retired, returned |
| `UpliBurst` | `upli_burst.py`, `upli_burst_payload.py`, `upli_burst_monitor.py`, `upli_tdm.py`, `upli_burst_control.v`, `upli_burst_sender.v` | the sender of requests and bursts, the monitor on the wires, the circuit |
| `UpliHardware` | `upli_connection_side.v`, `upli_credit_bank.v`, `upli_credit_initializer.v`, `upli_receive_channel.v` | circuits beside the loop |
| `UpliBlocks` | `upli_receive_fifo.v`, `upli_receive_storage.v`, `upli_credit_return_queue.v` | FIFO, return queue and bursts, one followed at a time |

Transaction layer:

| module | models | how |
|---|---|---|
| `CreditLedger` | `credit_ledger.py`, `tl_credit_ledger.v` | what an end may still send, slot by slot |
| `CreditPublisher` | `credit_publish.py`, `tl_credit_publish.v` | initial capacities and releases turned into credit words |
| `ControlFields` | `tl_control_decode.v`, `tl_tenure.py`, `tl_control_tenure.v`, `tl_full_flit.v` | a Control half as eight sectors, its fields, tenures and tokens |
| `FlitSequence` | `tl_sequence.py`, `tl_content.py`, `tl_packing_budget.py` and their RTL | what a Flit may be after the Flits before it |
| `TxPacker` | `tx_packer.py`, `tx_channels.py`, `tx_validation.py` and their RTL | what is offered next, held until it is taken |
| `CreditedPort` | `credit_admission.py`, `credit_context.py`, `credit_events.py`, `credit_integration.py`, `receive_context.py`, `receive_credit.py` and their RTL | the sending port and the receive buffer |
| `TlReceiver` | `credit_integration.py` | the receiving end before any Flit, legal or not |
| `TlPartition` | `control_partition.py`, `prepared_partition.py` and their RTL | a group of fields sent in several runs |
| `TlLink` | the bench `verification/tl_tx_channels/run_peers.py` | two ends with queues, data and credit words |
| `MCTransaction` | | link, receiving end and partitioner, one followed at a time |

The `*_proofs` modules are described under [proofs](#proofs), the circuits under
[hardware](#hardware).

**State.** A transmitter is one record: the fields of `TxState` and the tuples
`buffer` and `scheduled`. A receiver is the record of `RxState`. A scheduler has the
fields of `ScheduleState`; the two group ordinals, which only grow, are reduced to
what `send` compares: how many Flits the current group has seen (`group`) and whether
it already holds a request copy (`request_in_group`). `ReplayLink` keeps one of each
per peer, and uses the same operators that the single-component modules check.

**Steps.** A `send` is one step: take from the replay, or enqueue, or send a NOP; choose
explicit, request or acknowledgement; update the counters; put the Flit on the wire.
A `receive` is one step: the receiver's outcome, then the transmitter's, then the
request copies if the receiver asks. A header travels as the encoded word, so the
peer sees only what the encoding carries. Synchronous parts take one step per clock edge,
in which every operator reads the state of before the edge.

**Payloads.** The upper layer of a peer offers 0, 1, 2, ... modulo the number of
payloads and repeats its offer until it is accepted, as the harness does. In `link_stream`
and `link_wide_groups`, whose properties compare payloads, the number of payloads equals the
ring, more than can ever be undelivered, so a lost or repeated payload always shows.

**UART stream.** An end is the record of `uart_credit.py` (`flow`) and that of
`uart_reset.py` (`seq`). The code leaves their coupling to the integrator and states it
in the contract at `uart_reset.py:39-46` and in
`test_existing_buffers_and_credits_follow_disable_release`; `rtl/dl/dl_uart_port.v` wires
it the same way. `Follow` is that contract: every step that changes the sequencer flushes
the stream while it is disabled and releases it when it is not. The wires carry whole
messages, in order and without loss, because retry lies below. A NoOp word is counted and
not put on the wire, as it means nothing to the peer. The absolute clock is reduced to
`left`, what remains of the wait for a response. Firmware writes and reads word by word.

**Receive FIFO.** `unread`, `pending` and `visible` are the deques of the code, `pending` as a
sequence of at most one word. `Step` reads the fill of before the edge throughout, as `step`
does.

**UPLI.** `vectors` in `verification/rtl/startup_vectors.py` and
`_exercise_closed_loop` in `verification/model/test_upli_receive.py` take the registered
outputs of all parts, then step each part with them. `Edge` is that. `ResetEdge` clears all
parts and counts how long reset lasts. A grant is a record with the true number of credits
(the code encodes one less); the absent grant has none. The publisher's position in its
expanded schedule is the account it is at and how much of it is issued. Beats of the loop
carry no payload, since nothing decides by it. The sender drives any beat the ledger would
not refuse, and the consumer takes from any account or none. The rules of
`CreditInitMonitor`, and the errors the ledger and the outputs raise, are properties.

**TL.** A field is its kind, lane, data halves and byte enables, a Control half eight
sectors of them. Each reference of `model/tl` has its circuit of `rtl/tl` beside it in the
same module. Data halves are tokens that name their lane, so that data under the wrong
header shows.

**Left out**: argument type checks, the report fields (`reason`, `CommandResult`), and
`ValueError`s of a caller that breaks the interface.

**Slips.** Definitions marked `Slip:` are plausible mistakes in the definition below
them (a forgotten wrap, a late comparison, a dropped assignment). No specification
uses them. For each property `PROJECT.json` names one that breaks it: replacing
the definition by its slip and running the same configuration must fail.

## Hardware

There are two ways in which a circuit stands beside its reference.

* *Registers of its own* (`ReplayRing`, the FIFO in `UpliBlocks`): the circuit is stepped
  with the reference and an invariant says what its registers and memory mean. This is
  needed where the registers remember more than the reference does: pointers into a
  memory, an output slot, old words.
* *A function* (`ReplayPort`, `UpliHardware`, `UpliBurst`, `UartPort`, `BasicLink`,
  `MessageArbiter`, the TL modules): the reference state determines the registers. In
  every reachable state of the reference, and for every input of the next edge, the
  circuit's outputs and next registers must be those of the reference. Where registers
  behind a cleared valid bit mean nothing, the comparison says so (`Meaning`,
  `ArbiterMeaning`, `SourceMeaning`). Inputs that the reference refuses are
  included where the circuit has to survive them.

`HardwareInStep` is the name of that property in `ReplayRing`, `UpliBlocks`
and `MCMessages`, `LoopHardwareInStep` in `UpliHardware`; `PortFollowsReference` and `HardwareAgrees` are the same
for the replay endpoint and the transaction layer. What is left out of the circuits:
observation outputs, elaboration checks, payload bits, and the X of memory never written.

## Scaling

The numbers of the code are constants of the modules; the configurations give them
small values of the same shape.

| code | constant | transmitter | receiver_stream | link_two_way | link_stream | link_wide_groups |
|---|---|---|---|---|---|---|
| ring of 511 | SeqMax | 7 | 15 | 5 | 11 | 11 |
| window of 255 | Window = SeqMax div 2 | 3 | 7 | 2 | 5 | 5 |
| 8 low-bit values | LowMod | 2 | 4 | 3 | 4 | 4 |
| 256 reserved values | ReservedMod | 2 | 1 | 1 | 1 | 1 |
| capacity | Capacity | 3 | | 2 | 5 | 5 |
| ignore window of 12 | IgnoreWindow | 2 | | 3 | 5 | 4 |
| bad limit of 7 | BadLimit | | 3 | 2 | 3 | 3 |
| replay limit (50) | ReplayLimit | | 3 | 3 | 8 | 10 |
| explicit every 7 | ExplicitPeriod | | | 2 | 4 | 3 |
| 3 request copies | RequestCopies | | | 2 | 3 | 3 |
| Flits per FEC group | GroupSpan | | | 1 | 1 | 3 |
| link latency | Latency | | | 2 | 2 | 3 |
| faults | MaxFaults | | unbounded | 1 | 2 | 2 |

What matters in the code's numbers is kept: the ring is odd, its window is half of it,
`SeqMax + 1` is a multiple of `LowMod` (512 of 8), and `BadLimit` is `LowMod - 1`. In
`receiver_stream` and `link_stream` the window is longer than `LowMod`, so that low bits
can really be ambiguous; a gap of `LowMod` or more needs that many losses, and
`receiver_stream` allows any number. The numbers of
`link_stream` meet the conditions `Configured` of the [proofs](#proofs), as those of the code do
with groups of two Flits.
The ring is always small enough to wrap many times. A capacity of 3 is no power of two, as the
pointers of the ring must cope with.

| code | constant | uart_stream, uart_late_response | dl_messages, uart_cut_transport |
|---|---|---|---|
| counters modulo 4096 | Modulus, CreditModulus | 3 | 4 |
| 32 words in a transport | MaxWords, MaxPayload | 2 | 2 |
| transmit buffer of 128 | TxDepth, UartTxDepth | 1 | 2 |
| receive buffer of 128 | RxDepth, UartRxDepth | 2 | 2 |
| 40 NoOps | NoOps | 1 | 2 |
| 10 ms for a response | Timeout | 1 | 2 |
| response queue | ResponseDepth | | 3 |
| messages or words under way | InFlight, InLine | 2 | 2 |
| resets asked for, per end | MaxRequests, MaxResets | 1 | 1 |
| deadlines missed | MaxRetries (per end), MaxEvents (with writes) | 1 | 2 |

`Modulus = RxDepth + 1` is the tightest ring the constructor accepts: an update that is out
of date is most dangerous there, and the counters wrap every third word. Only one end
writes; the other one answers with updates and may reset as well, so both
roles of the reset handshake meet both roles of the data. The directions share nothing but
the handshake. With `MaxRequests = 2`, `InFlight = 3` and no missed deadline (103 182 states), and
with two writers (7.7 million), the same invariants were found to hold; the theorems cover all
constants. Of the composed ports, `MaxEvents` bounds writes and missed deadlines jointly, a
deadline may pass at any edge of a wait, and the response queue needs three places because
retries pile up in it.

The arbiter of `dl_messages` has queues of two messages, transports of up to three words and
five of the eleven sources, at least one of each group and two that compete in one
(`Offered = {1, 4, 6, 7, 9}`). Basic endpoints start every kind of request and a rate of two
values. An acknowledgement is late after one edge.

| code | constant | upli_loop | upli_blocks |
|---|---|---|---|
| 1, 2 or 4 ports | Ports | 2 | 2 |
| 4 VCs | VCs | 2 | 2 |
| batches of 4 | Batch | 2 | 2 |
| capacities | Capacity | 1, 0 and pool 3; 0, 1 and pool 0 | 2, 0 and pool 3; none |
| done stable for 2 edges | Stable | 2 | 2 |
| return depth 1..16 | ReturnDepth | 2 | 4 |
| a completer that waits | CompleterModes | both | both |
| channel | Channel | rd_rsp | req |
| resets after the first | MaxResets | 1 | unbounded |
| beats of a burst | MaxBeats | | 4 |
| FIFO depth | Depth | | 5 |
| credit counters of 3 to 16 bits | CreditWidth | 3 | |

The capacities have an account without storage between others (the publisher idles there), one
that is not a multiple of the batch, and ports that need different times to publish. Accounts
below the pool only differ in their index, so two VCs stand for four. The FIFO has
depth 5, more than the two words its cache and its pipeline can hold, and two words to tell
order by. In `upli_blocks` at most one grant comes per channel and edge, and one port has
bursts of full length out of two accounts.

`transaction` has two lanes, credit fields of two bits (quantities of up to three), budgets of
two requests and four responses in a half, and wires with room for one Flit. It has five work lists.
In two of them, one with split and one with shared data credit, a write of two halves with byte
enables, a read, and read data with a response behind it each have a data slot of their own. In the
others a write and read data share one data credit in a pool; two writes want one slot, the second
needing all its data credit, while its command credit would let it begin earlier; and requests in
pairs exhaust the packing budget, so that an empty Flit has to go in between. The receiving end meets seven Control halves, good and
malformed ones, and every pair of messages. The partitioner gets every start of a lower half under
three upper halves, and mixed capacities.

## Runs

| run | states | shows |
|---|---|---|
| `transmitter` | 28 624 | one transmitter and its ring against **every** header word in any order, with a command and an issue in the same edge: window, tests, schedule and storage are right, and the hardware means the reference |
| `receiver_stream` | 1 290 | the receiver never takes a skipped or old payload for the next one, with unlimited losses. Its limit is tight: with `BadLimit = LowMod` it fails |
| `link_two_way` | 399 181 | both peers send payloads: what is acknowledged was delivered, acknowledgements arrive in order, and the hardware endpoint issues what the reference issues |
| `link_stream` | 477 936 | one direction of payloads, two faults: the link implements `ReliableStream`, and every payload is released |
| `link_wide_groups` | violation | see [what fails](#what-fails) |
| `uart_stream` | 130 464 | both ends may reset at any moment and miss a deadline: the stream implements `LossyStream`, every reset ends, every written word leaves; in time, credit is conserved and no buffer overflows |
| `uart_late_response` | violation | see [what fails](#what-fails) |
| `upli_loop` | 10 138 | two ports from reset to traffic: credit is conserved in each account, nothing the sender may send is refused, every port opens, credit always comes back, the channel implements `UpliReceipts`; four circuits in step |
| `upli_blocks` | 29 144 | the FIFO is a bounded queue and its cache suffices, the return queue implements `UpliReceipts`, bursts keep their turns; three circuits in step |
| `dl_messages` | 115 362 | no source waits longer than the service bound says; every basic request is answered; two UART ports keep the framing of transports; five circuits in step |
| `uart_cut_transport` | violation | see [what fails](#what-fails) |
| `transaction` | 33 081 | TL credit is conserved, neither end rejects the other, offers do not go stale, data stay under their header, groups go out whole, all work is done in the end; the circuits agree |

`BufferIsWindow` says that the buffer is the interval of the ring between `last_ack` and
`last_sequence`; `WindowTestsMeanBuffered` that the two modular tests of `receive` select
exactly that interval, hence that `next(...)` at line 128 finds its entry.
`ScheduleRunsToTail` holds while acknowledgements release part of a schedule and new
requests replace it. `GapIsCounted` is the reason the low bits may be trusted: a gap is
at most the number of counted bad Flits. `AcksMakeSense` relates a transmitter to
the receiver at the other end (`AckBehindDelivery`) and to the wire (`AcksArriveInOrder`).
`NothingLostOrRepeated` and `InOrderDelivery` state the service to the upper layer, as a
predicate over both ends and as a refinement: `queue` is the part of the transmit buffer behind
the peer's last received number, `out` the last delivered payload.

`CreditConserved` of `UartStream` is an equation over both ends and the wire: what the reader has
announced less what the writer has sent is the room nobody has claimed. It says at once that no
credit is invented (overflow) and none is lost (a slow death of the stream), and is asked when no
reset is going on or under way. `StaysWithinRoom` has the types and, in time, `NoOverflow`, in
the middle of a reset too, and `CreditWithinRoom`. `ImplementsLossyStream` maps `queue` to
receive buffer, wire and transmit buffer in a row.

`CreditKept` of UPLI has four parts. `CreditConserved` says of each account of each port that its
storage is, to the last credit, in the sender's balance, on the bus, occupied, waiting in the
return queue, or not yet published. `NothingRefused` compares two views of the start: the sender
filters `done` for `Stable` edges, the receiver goes by the `done` it drives itself. `BusIsLegal`
has the rules of `CreditInitMonitor`. `ImplementsReceipts` (of the blocks; `LoopImplementsReceipts` of
the loop) maps the receipts that are held to the
words in the FIFOs and the retired ones to the return queue; two receivers of the code, written
independently, thus agree. In the loop a record leaves the return queue at the edge after it
came, so merging and a full queue only show in `upli_blocks`.

`BurstsKeepTheirTurns` relates the sender's reservations, the payload it staged and the monitor's
expectation: the monitor never reports an error, each beat goes in its turn with its own data, and
a first beat is accepted only when the whole burst has its credit.

`WaitShortens` is a bound as an action property: each word that is served brings each waiting
source nearer to its turn, where "near" is computed as `service_bound` computes it.
`EndsUnderstandEachOther` has `NoProtocolError` (basic messages), `PortsAgree` and `FramingKept`
(UART words).

`LinkConservesCredit` and `LinkRejectsNothing` are about both ends and the wires of the TL link;
`LinkOfferStaysGood` is the point of the held choice and of admitting a tenure as a whole: what is
offered can be sent at every later edge, and a tenure once begun has the credit for its remaining
halves at every moment, although nothing is set aside for it. Where tenures want the same data credit, admission on
the command credit alone would begin a tenure that cannot go on. `DataUnderItsHeader` says that data tokens arrive under the header of their lane;
`PairMonitorInStep` that the content monitor and the sequencer of an end, which keep their state apart,
agree about a half-finished data pair.

## Wires, order and fairness

* **Wires keep order and lose nothing.** The lanes always carry a Flit and the CRC decides
  if it is good, so an error is a Flit with a bad CRC, or one that storage refused
  (`discard_ingress`), never a missing Flit. A Flit takes exactly `Latency` intervals.
* **Faults** are bounded by `MaxFaults`, in total and for both directions. Two are enough
  to lose a payload and its request, or the first Flit of the replay; the receiver alone is
  checked with unlimited losses.
* **Order of the link.** All receive, then all send, as in the harness. In one half of an
  interval the peers touch disjoint state, so their order inside it does not matter and `Acts`
  picks one. In the hardware both halves are one edge; `PortFollowsReference` joins them.
* **Fairness of the link** is `WF_lockVars(LockNext)`: there is always a next Flit interval,
  because lanes do not stop. Nothing is assumed about the upper layer: it may stop offering for
  ever, and faults may come at any time until their bound is reached.
* **UART.** Weak fairness of reading and receiving; strong fairness of the three kinds of
  sends, because the round-robin arbiter serves a source that is ready again and again
  (`dl_message_scheduler.py`), while a reset in between may disable it. Nothing is assumed about
  writes, resets or time.
* **Basic messages.** A word that is under way arrives, and the arbiter serves each waiting
  head, which `WaitShortens` shows of it.
* **UPLI.** The clock runs (`WF(Next)`); both sides are ready at the same edge again and again
  (a side that has become ready stays so, as the docstring of `UpliConnection` asks, lines
  35-36); the consumer takes from each account that offers something again and again. The
  sender may be silent for ever.
* **TL.** Fairness is stated by effects: what is on a wire arrives, what could be sent with room on
  the wire is sent, a publisher that can build does, the application takes what waits. Several
  inputs of one edge are chosen together, so an action per effect would not be fair to each.
* **Conditions on configuration** keep a finished replay from being started again: the copies of a
  request fit into the ignore window and between two explicit headers, and the replay limit exceeds
  the round trip (`Configured`, see [proofs](#proofs)). `link_stream` keeps them and
  `link_wide_groups` drops the first. `link_two_way` drops all of them and has one fault only: an
  unwanted replay does harm only if its first Flit is lost too. (With numbers that meet the
  conditions the same invariants hold, but the run takes over four minutes; the theorems cover it.)

Deadlock is checked in every run. In `transaction` it says little, as a clock edge is always
possible: after an error the receiving end goes on refusing every Flit, as the code does.

## What fails

`link_wide_groups` gives codeword groups three Flits, so that the three copies of a request
are spaced wider than the ignore window. The trace: a Flit is lost, the receiver asks, the
replay is sent and delivered. The last copy of the request arrives after the ignore window
closed and before the acknowledgement of the replay: its target is still buffered, so the
replay starts again. The receiver is not waiting any more. If the explicit first Flit of
this unwanted replay is corrupted too, the receiver completes the low bits of the following
ones: enough losses later they match the next expected number and an old payload is
delivered as new. In the code, with groups of 8 Flits and a delay of 7 slots (one of the
configurations of `test_two_automatic_peers_ordered_content_and_recovery`), six corrupted
Flits suffice and line 155 of that test fails: payload 8 is delivered after payload 15.
With group span 1, a replay limit below the round trip leads to the same repeat.

`uart_late_response` lets the response to the first Request come after the deadline and after
the repeated Request was sent. A response has no tag: it ends the reset of the requester,
which is enabled and sends words. Then the repeated Request reaches the peer and resets it
alone. Words that arrive while the peer is disabled are discarded but stay charged to the
sender, whose peer starts to advertise its buffer from zero again: their credit is lost for
good. If it was all of it, the stream is silent for ever with both ends enabled, and the Python
classes do the same. With two resets, three messages under way and one missed deadline the
opposite happens as well: the late response to the first Request ends the wait for the second,
the update that follows it belongs to the peer's old numbering and is applied to counters that
restarted from zero, and the sender overruns the receive buffer (`BufferError` at
`uart_credit.py:155`). That is why the two invariants of `uart_stream` ask for time; order,
progress and the end of every reset do not.

`uart_cut_transport` is about the RTL: `dl_uart_tx_path.v:82` ties the withdrawal of a transport to
the stream reset, which `dl_uart_reset_control.v` raises in the edge in which a Request of the peer
is decoded. The arbiter drops its lock between two words of the transport, and the Response, or any
other message, follows where the peer counts payload. The peer swallows it. The Response comes back
through the retry; basic and control messages do not.

## Proofs

The theorems hold for every value of the constants that the named assumptions of the modules
allow; TLC evaluates those on each run. The values of the code are one instance.

| module | theorems | about |
|---|---|---|
| `ReplayParts_proofs` | `ExplicitRoundTrip`, `CommandRoundTrip` | decoding inverts both encoders; lemmas about one event of the receiver and of the transmitter, and about one edge of the ring |
| `ReplayEnds_proofs` | `TypeCorrect`, `BufferAlwaysWindow`, `WindowTestsAlwaysExact`, `ScheduleAlwaysRunsToTail`, `ResidentAlwaysBounded`, `OneContentAlways` | the six invariants of the transmitter |
| | `RingStaysInStep`, `RingKeepsWindow` | `HardwareInStep` of the ring; the invariants at its edges |
| | `ReceiverTypeCorrect`, `GapAlwaysCounted`, `AlwaysAcceptsOnlyNext` | the receiver, also as an action property |
| `ReplayLink_proofs` | `LinkInvariant` | the inductive invariant of the two peers and their wires |
| | `LinkAcknowledges`, `LinkKeepsOrder` | `AcksMakeSense`, `NothingLostOrRepeated` |
| | `LinkIsStream` | `InOrderDelivery`: the link implements `ReliableStream` |
| | `PortAlwaysFollows` | `PortFollowsReference`: the hardware endpoint, with no condition on the configuration |
| `UartStream_proofs` | `CreditKept`, `RoomKept` | `CreditConservedInTime`, `StaysWithinRoom` |
| `MCMessages_proofs` | `HardwareAlwaysInStep` | `HardwareInStep` of the message arbiter, the basic controller and the blocks of a UART port |
| `UpliHardware_proofs` | `LoopKeepsCredit`, `ChannelStaysInStep` | `CreditKept`, `LoopHardwareInStep`; before them, lemmas about one edge of a FIFO, of the return queue and of the receive channel |
| `UpliBlocks_proofs` | `FifoTypeCorrect`, `CacheAlwaysSuffices`, `FifoIsQueue`, `BlocksFifoIsQueue` | the FIFO; the refinement of `BoundedQueue` |
| | `BlocksStayInStep`, `BlocksStaySafe`, `BlocksReturnReceipts` | `HardwareInStep` and the invariants of the blocks; the refinement of `UpliReceipts` |
| | `BurstsAreKept` | `BurstsKeepTheirTurns` |
| `Transaction_proofs` | `MonitorsAgree` | `PairMonitorInStep` of the receiving end |
| | `GroupsAlwaysGoOutWhole` | `GroupsGoOutWhole` of both partitioners |

**Header.** The word is split into quotients and remainders once, in `WordParts`; the rest is
substitution.

**Transmitter.** The inductive invariant is

    IndInv == TypeOK /\ BufferIsWindow /\ ScheduleRunsToTail

None of the three is inductive alone: a release needs to know that the buffer is a window
to land on the right number, a request needs it to find its entry, and the schedule runs
to the tail only because what it is cut from does. The lemmas about the ring (`Nth`,
distances, injectivity on half the ring) are stated first; then, for a transmitter state t
with `Good(t)`, what `Enqueue`, `StartReplay`, `Release` and `NextReplay` each keep; then one
step per action. `WindowTestsMeanBuffered` follows from the invariant by the arithmetic of the
ring. `ResidentBound` and `OneContentPerNumber` need a second invariant (the resident set is
finite, within the capacity, and one content per number), whose induction uses the first:
a new number is not resident, because while nothing is scheduled the residents are the
buffer and the buffer is a window.

**Replay ring.** `Means(c, m, t)` says that registers c and memory m mean the transmitter state t:
the same window numbers and flags, the write pointer is the head pointer plus the unacknowledged
modulo `Capacity`, and the slots from the head on hold the buffer, those from the replay pointer on the
schedule. The inductive invariant is

    RingInv == Good(tx) /\ Means(ring.control, ring.memory, tx) /\ SlotShowsSelected

An edge is taken apart into `Commanded`, then `Issuing`: the circuit computes the issue from what
the command of the same edge leaves, although the registers still hold what was before
(`EdgeSplits`, `ReadyAfterCommand`). The end-point comparisons that replace modular distances accept
exactly the window (`InBufferIs`, `NearTailIs`, `TakesIs`). Then there is one lemma per command and
one per issue. `ResidentCount` is the point where the two differ most: the circuit admits a payload
by a count of slots, the reference by the number of distinct residents; both are the length of the
buffer whenever nothing is scheduled, which is when payloads are admitted.

**Receiver.** One more assumption, `BadLimit < LowMod` (7 < 8 in the code).
`CompletionExact` is the arithmetic: the low bits name the number of a payload
up to `LowMod - 1` ahead and of a NOP up to `LowMod - 2` ahead. The two bounds differ at
the wrap only, where the ring skips zero and the completion counts it, so that the last
number before the bits repeat looks like a repetition, which for a payload means a whole
turn. `TrustedMeansExact` combines it with the round trip: a Flit the receiver trusts is
given the number it was sent under. `Moves` states what one ingress event can do, and the
inductive invariant is

    StreamInv == StreamTypeOK /\ GapIsCounted /\ SentInWindow

`GapIsCounted` alone is not inductive: without the window a distance of half the ring or more
would not tell ahead from behind.

**Link.** This is the theorem about link-level retry as a whole. `Span` is `RequestCopies * GroupSpan`, the
Flits in which all copies of a request go out, and the theorems assume

    Configured == /\ IgnoreWindow >= Span + 2
                  /\ ExplicitPeriod >= Span + 1
                  /\ ReplayLimit >= 2 * Latency + Span + 1

Ring, low bits, capacity, latency, payloads and the number of faults are arbitrary. The code's window of
12, period of 7, 3 copies and limit of 50 satisfy this with groups of up to two Flits and a
latency of up to 21. The conditions are sufficient; whether groups of three to six Flits
also work with a window of 12 is open, and wider ones fail (see [what fails](#what-fails)). Of the
configurations of `test_two_automatic_peers_ordered_content_and_recovery` (line 133) only the first, with
groups of one Flit, is covered. The invariant is

    LinkInv == LinkTypes /\ Timing /\ \A p \in Peers : Way(p)

`Timing` says how many Flits each wire holds in each phase. `Way(p)` is about the payloads of p: its transmitter,
the receiver of the other peer, the Flits between them, and the commands that come back. It has
five parts, `Direction`:

* `Behind`: the receiver's position is in the transmitter's window, and a schedule is the last part of what is
  missing there.
* `Flits`: each Flit under way has a place, the distance of its number from the receiver's; a function `o` of
  places exists such that each Flit continues from the one before it, or begins a replay of all that is missing
  (at most one does, the `m`-th), and carries the payload of its place.
* `Tracks`: a receiver that trusts low bits has counted every gap; one that waits for a replay that is under way will
  see it before its limit makes it ask again. This is where the replay limit enters.
* `Acks`: acknowledgements under way tell of delivered payloads only, and in order.
* `Requests`: each copy of a request, under way or still to be sent, either arrives while the transmitter
  ignores requests, or asks for exactly the replay the receiver still waits for and was sent within the first
  `Span + 2` intervals of that wait. This is where the ignore window enters, and it is what is false in
  `link_wide_groups`.

None of the parts is inductive alone. Without the places a Flit could be taken for another one with the same low bits;
without the age of requests a late copy would restart a replay whose first Flits are under way, and
the receiver, which does not wait any more, may then follow the wrong numbers. `Left` counts the Flits until the last copy of
a request has gone out: copies wait for their group, for the explicit Flit of the period, and for the first Flit of a replay
of the receiver's own payloads. `SendingBringsNearer` shows that each Flit sent decreases it, and is the most delicate
lemma: the payloads of the other direction take part in it.

The lemmas are about one direction and one side at a time (`ReceiverReceives`, `SenderReceives`, `SenderSends`,
`ReceiverSends`); `DirectionSends`, `DirectionAnswers`, `DirectionReceives` and `DirectionObeys` put them
together for the two roles a peer has in a step, and `LinkSends` and `LinkReceives` are the steps. For the
refinement, `Undelivered` is shown to be appended to by a send of a new payload, shortened at
its head by a delivery, and left alone by everything else; so each step of the link is a step of
`ReliableStream` or a stutter. `LinkKeepsOrder` adds to the invariant that what is undelivered counts on from what
was delivered.

**Endpoint in hardware.** `PortAlwaysFollows` is about one edge from any state that two linked
endpoints reach. It does not assume `Configured`: the circuit must make the same mistakes as the
reference where the reference makes any. What it needs of a state is little, and the lock of the two
peers keeps it under every configuration:

    PortInv == PortTypes /\ Turns /\ \A p \in Peers : Laid(tx[p])

`PortTypes` says that every Flit under way carries a header word and each receiver and scheduler is in
its ranges, `Turns` how many Flits a wire holds in each phase (so that there is one to receive), and
`Laid(t)` that buffer and schedule of a transmitter can lie in one memory: each fits, and counted back
from the newest payload they hold the same entries as far as both reach, also when the buffer's head was
released while the schedule still has it (`RingOfMeans`: `RingOf(t)` then means t). The edge is taken apart as the circuit is:

* *Receiver.* The reference completes the low bits of a number and compares the result with the one it
  waits for; the circuit compares low bits, and completes only for its output. `LowBitsDecide` shows that the
  two tests agree although completion counts a zero which the ring skips, and `CountsAlike`, `BadAlike`,
  `RefusedAlike` that the saturating counters do. `ReceiverFollows` joins them for every word, also one
  that does not decode (`VerdictsAlike`).
* *Issue.* The command decoded in the edge reaches the ring before it is in a register. `StorageFollows` uses
  the lemmas of the ring on what the command leaves, and shows in addition that the port knows the number it
  issues and that no tag error is raised.
* *Header.* `HeaderFollows`: the circuit compares its count before it is decremented, decides the group
  by itself, and takes a request of the same edge, and the number to acknowledge or to ask for, from the
  combinational outputs of the receiver.

**UART stream.** The inductive invariant is

    StreamInv == StreamType /\ (InTime => \A e \in Ends : JoinedAt(e))

`StreamType` has the types and, at each end, that flow control is in reset exactly while the
sequencer disables the stream (`Coupled`). `JoinedAt` has two parts for each direction. `Shook`: the
handshake of an end is in one of four places (`Quiet`, `Asked`: its Request is under way, `Owed`: the
peer has it, `Answered`: the Response is under way), each with what may be on either wire before and
behind that message. And for a direction whose two ends are both in step (`InSync`), `Balanced`: the
credit equation, and updates under way that only grow up to what the reader has announced. The arrival of a
Request is what makes it true again after a reset: both streams are flushed then, only
Responses follow, and what was sent before is dropped because the peer still waits. `Heeded` is the
set of messages an end will still take notice of. A missed deadline leaves `InTime`, which no step
restores, and only the types remain. Counting is by differences modulo `Modulus` (`Ahead`); each
operation on a pair of records has a lemma, and `StepKeeps` carries them to the two ends.

**Message circuits.** `HardwareAlwaysInStep` is about one edge of each block from any state its reference
reaches, for every input, legal or not. The blocks share no state, so the invariant is a conjunction,
and a step changes one part:

    MessagesInv == /\ ArbiterOK(arbiter) /\ EndsAlone
                   /\ SourceOK(source) /\ RxOK(rxpath) /\ ControlOK(control)

The registers are a function of the reference state, so what is needed of a state is that they can hold
it; in each block one relation between two of its fields carries the rest.

* *Arbiter.* The reference compares distances from the cursors, the circuit looks them up in tables.
  `RowIs` shows that a row that goes round its members lists them by distance, `FirstIsNearest` that the
  first candidate in a row is the nearest one, and `SelectByTables` that both choose the same source in two
  levels. `ArbiterOK` says that under the lock of a transport its head is still in the queue and has words
  left; its length, which the circuit caught with the first word, is then the one the reference reads.
  `NoArbiterError` shows that no error is raised under the inputs the reference accepts.
* *Basic controller.* The reference keeps the order of the request and the reply of a kind in a queue, the
  circuit one bit. `BasicOK` says that each queue holds at most the unsent request and the owed reply, and
  that the bit tells which is first (`QueuesFor`, `HeadsAre`). The edge of the reference is taken apart into
  its stages, acknowledgement, commit and request, in their order (`AckOK`, `CommitOK`, `RequestOK`,
  `EdgeIs`); the circuit computes them side by side from the registers (`StepsAgree`, `VerdictsAgree`,
  `RegistersAgree`).
* *UART source.* `SourceOK` relates the words staged, still to load and reserved by the header
  (`LeastInSteps`: the circuit finds the length of a transport by three comparisons); a word is staged or
  taken at an edge, never both.
* *Receive path.* Only counters and remaining words; `CounterModulo` is the wrap of the advertised credit.
* *Reset control.* The reference counts down, the circuit up, so a time of n is `Timeout - n` in a register,
  and the timeout comes at an equality. Responses owed lie in a shift register: `ScopesShift` and
  `ScopePushed` follow them through an edge in which one leaves and one comes, also when it is full.

**UPLI loop.** `LoopInv` says, of each port, at which stage it is. The controller's levels only rise;
the publisher's position and what it has issued are what capacity and initial credit demand; publish
comes before done, done before the first return, and the sender's confirmation comes `Stable` edges
after the receiver's done, which is why the receiver never refuses what the sender allows. The FIFO of
an account holds words of that account only; the return queue holds metas of accounts with storage;
credit is conserved; the bus is legal. The first lemmas of `UpliHardware_proofs` say what an edge of the
FIFO and of the return queue adds and removes, counted by account; `UpliBlocks_proofs` rests on them too. The circuits are functions of that
state: the bank raises its error exactly when the ledger refuses (`BankPortFollows`, with the
comparison by a borrow done by cases on the counter width, 3 to 16), the initializer's search for the
next account finds the least one (`Least`, `Greatest`), and the channel's round robin is the
reference's.

**Blocks.** `IInv == TypeOK /\ CacheSuffices` of the FIFO: a read starts only if cache and pipeline,
less the word that leaves, hold fewer than two. The contents of the three places in a row are
followed through an edge: a pop removes the head, a read and an arriving answer move
words without changing the row, and a write appends. The edge is a step of the queue because
readiness is the count of the row before the edge. `FifoCircuit` adds that the memory between read
and write address, wrapped at `Depth`, is `unread`. `ReturnsOK` bounds the return queue, and its steps
map to steps of `UpliReceipts`: retire, merge and return move one receipt each.

**Bursts.** `BurstInv` says, of each port, that it is at rest (`AtRest`) or inside a burst
(`UnderWay`): the payload it holds is what remains of the burst, the monitor expects the next beat in
the turn that is `Away(p, phase)` edges away, and the balance minus the reserved credit covers what
the remaining beats need (`CountOf`). Only the whole is inductive: the monitor stays silent because
the beat goes in its turn, and the beat goes because its credit was put aside when the request was
accepted.

**Transaction layer.** `MonitorsAgree` is about every Flit, `GroupsAlwaysGoOutWhole` about every group. They assume of
the constants only that a sector is a cell (`HalvesAssumption`, `GroupsAssumption`). Parser, tokens and runs are
recursive functions over at most eight places. TLA+ defines such a function by a choice, so it must first be shown
that there is one: `ParserExists`, `FlattenExists` and `RunExists` put it together place by place.

* *Fields.* `DerivedFields`: what the parser returns lies in the half, in order and without overlap (`RecordsOK`),
  also where a wide field covers cells of any content.
* *Monitor.* A field owes its data halves in pairs (`FieldWhole`, `TokensWhole`), and pairs put behind a queue that
  is cut within a pair leave it so (`JoinedPaired`). The invariant `FlowOK` is that the queue of the sequencer is
  `Paired`, and that the monitor is open exactly if its first entry is a second half. A half that is taken removes
  the entry, a poisoned one as well (`Consumed`, `ContentTurns`); a rejected Flit leaves both alone.
* *Partitioner.* The run up to a cursor and the run from there to an end are the run up to that end (`RunsJoin`);
  unless the end is the last sector, fields remain behind it (`RunLeavesMore`). `PartitionInv` says that a cursor
  other than 0 has fields behind it and that what was sent is the run before it. So there always is a
  first field to send, and its end is one of the ends that `ChooseRun` may choose (`FirstFieldFits`).

## Only model-checked

* Liveness and everything under fairness (`EveryPayloadReleased`, `EveryWordLeaves`,
  `EveryResetEnds`, `PortsStayUsable`, `EveryRequestAnswered`, `TransactionsSettle`): out of the
  prover's reach.
* `ImplementsLossyStream` and `LoopImplementsReceipts`: their mappings join sequences by
  recursion and sum over sets, which needs induction over data.
* Of the transaction layer, the link (`LinkConservesCredit`, `LinkRejectsNothing`, `LinkOfferStaysGood`,
  `DataUnderItsHeader`): both ends, their buffers and the wires are counted together; and `HardwareAgrees`: the
  circuits search all sectors at once, the references one after the other.
* `WaitShortens`: the service bound is a sum over the sources of a group.
* `EndsUnderstandEachOther`: two basic endpoints, and two ports, with what is under way between them.
* The link outside `Configured`: `link_two_way` with its smaller numbers, and groups of three to six Flits
  with the code's window of 12, about which nothing is claimed.

## Not modelled

`PROJECT.json` lists each component with its status. Of the modelled ones, these parts are
missing: changing the replay limit at run time, resetting one endpoint (the watchdog that
would do it is outside the code), codeword groups that differ in length; a global reset of one
UART end while the other runs, `set_channel4_enabled` (channel 4 stays enabled; as an input it is
modelled of the blocks alone); of UPLI, the order of receipts
that `returnable` reports, beats for a port that does not exist, slots of `upli_tdm.py` other than the
phase that requests and data share, and drivers that break the protocol (the code raises an error and
keeps its state); of TL, payloads, sources that a driver must not offer, and a reset with Flits under way.

Whole parts that are missing: `rtl/dl/dl_control_controller.v`, a negotiation controller (channels on
and off line, lane widths) without a Python reference, with `dl_control_port.v` and `dl_message_port.v`
that wire it; RS calendar and frames (`model/phy/rs_*.py`, `rtl/phy/rs_tx_*.v`,
`variants/rs_qualified`), a deterministic data path whose tests compare every bit; CRC, parity and
configuration checks; synthesis scripts, benches and contracts.

## Plan

1. *(done)* Link-level retry: header, transmitter, receiver, link, ring and endpoint; theorems about
   each half and the ring.
2. *(done)* UART stream with resets, blocks and ports; theorems about credit and room.
3. *(done)* UPLI: loop, blocks, bursts and their circuits; theorems about all invariants.
4. *(done: models and runs)* Messages and the transaction layer; theorem about the circuits of the messages.
5. *(done)* The theorem that the link delivers every payload once and in order under conditions on
   its configuration.
6. *(done)* `PortFollowsReference` for every ring, from the lemmas about ring and header; `HardwareInStep`
   of `MCMessages` for every queue, counter and time; of the transaction layer `PairMonitorInStep` and
   `GroupsGoOutWhole` for every Control half.
7. `dl_control_controller.v` by itself and between two ends.
8. `ReplayLink` extended by a reset of both ends with Flits under way.

## Running

    tlc -config MCReplayStream.cfg ReplayPort
    tlc -config MCTransaction.cfg MCTransaction
    tlc -config MCUartCut.cfg UartPort
    tlapm ReplayEnds_proofs.tla

The runs with their modules and configurations are listed in `PROJECT.json`; a configuration without
a module of its own belongs to the module that its run names. Each run finishes within four minutes
on two cores, each proof module within about five, `MCMessages_proofs` in about fifteen.
