--------------------------- MODULE ReplayTransmitter ---------------------------
(* The transmit half of link-level retry                                       *)
(* (model/ualink/dl_replay_transmitter.py): the buffer of sent and not yet      *)
(* acknowledged payloads, the replay under way, and what a received command    *)
(* does to them.                                                               *)
(*                                                                             *)
(* The operators take and return the whole transmitter state t, so that the    *)
(* link can apply them to either peer.  ReplayRing runs one transmitter.       *)
(*                                                                             *)
(* Behind them the same transmitter as the hardware keeps it:                  *)
(* rtl/dl/dl_replay_tx_control.v and rtl/dl/dl_replay_tx_storage.v.            *)
EXTENDS ReplayHeader, Sequences, FiniteSets

CONSTANTS Capacity,      \* payloads the implementation can keep resident
          IgnoreWindow,  \* the 12 ingress Flits a started replay ignores requests for
          Payloads       \* the contents a payload may have

ASSUME CapacityAssumption == Capacity \in Nat \ {0}
ASSUME IgnoreWindowAssumption == IgnoreWindow \in Nat

Entries == [sequence : SequenceNumbers, payload : Payloads]

TxStates == [last_sequence : SequenceNumbers, last_ack : SequenceNumbers,
             ignore_count : 0..IgnoreWindow, replay : BOOLEAN, first_replay : BOOLEAN,
             buffer : Seq(Entries), scheduled : Seq(Entries)]

TxReset == [last_sequence |-> SeqMax, last_ack |-> SeqMax, ignore_count |-> 0,
            replay |-> FALSE, first_replay |-> FALSE,
            buffer |-> << >>, scheduled |-> << >>]

Content(s) == {s[i] : i \in DOMAIN s}
Resident(t) == Content(t.buffer) \cup Content(t.scheduled)

\* Slip: both limits off by one.
CanEnqueueOneTooMany(t) == /\ ~t.replay
                           /\ Len(t.buffer) <= Window
                           /\ Cardinality(Resident(t)) <= Capacity
CanEnqueue(t) == /\ ~t.replay
                 /\ Len(t.buffer) < Window
                 /\ Cardinality(Resident(t)) < Capacity

\* Slip: last_sequence not stored.
EnqueueSameNumber(t, payload) ==
  [t EXCEPT !.buffer = Append(@, [sequence |-> Successor(t.last_sequence),
                                  payload |-> payload])]

\* Commit a new payload; the caller checks CanEnqueue.
Enqueue(t, payload) ==
  LET sequence == Successor(t.last_sequence)
  IN  [t EXCEPT !.buffer = Append(@, [sequence |-> sequence, payload |-> payload]),
                !.last_sequence = sequence]
-------------------------------------------------------------------------------
(* Received commands.  Whatever arrives ages the ignore window first.          *)

\* Slip: the ignore window never runs out.
AgeIgnoreNever(t) == t

AgeIgnore(t) == [t EXCEPT !.ignore_count = IF @ > 0 THEN @ - 1 ELSE 0]

\* Slip: the distance of a request taken from last_ack itself.
RequestInWindowWithLastAck(t, target) ==
  /\ (target - t.last_ack) % SeqMax <= Window - 1
  /\ (t.last_sequence - target) % SeqMax <= Window - 1

RequestInWindow(t, target) == /\ (target - t.last_ack - 1) % SeqMax <= Window - 1
                              /\ (t.last_sequence - target) % SeqMax <= Window - 1

AckInWindow(t, target) == /\ (target - t.last_ack) % SeqMax <= Window
                          /\ (t.last_sequence - target) % SeqMax <= Window

\* Where the replay of target starts in the buffer.
StartOf(t, target) == CHOOSE i \in DOMAIN t.buffer :
                        /\ t.buffer[i].sequence = target
                        /\ \A j \in 1..(i - 1) : t.buffer[j].sequence # target

\* Slip: a request taken for an acknowledgement of its target.
StartReplayAcknowledging(t, target) ==
  [t EXCEPT !.scheduled = SubSeq(t.buffer, StartOf(t, target), Len(t.buffer)),
            !.buffer = SubSeq(@, StartOf(t, target) + 1, Len(@)), !.last_ack = target,
            !.replay = TRUE, !.first_replay = TRUE, !.ignore_count = IgnoreWindow]

\* Slip: only the requested payload is scheduled, not everything after it.
StartReplayOfOne(t, target) ==
  [t EXCEPT !.scheduled = <<t.buffer[StartOf(t, target)]>>,
            !.replay = TRUE, !.first_replay = TRUE, !.ignore_count = IgnoreWindow]

StartReplay(t, target) ==
  [t EXCEPT !.scheduled = SubSeq(t.buffer, StartOf(t, target), Len(t.buffer)),
            !.replay = TRUE, !.first_replay = TRUE, !.ignore_count = IgnoreWindow]

\* Slip: one entry too many released.
ReleaseOneTooMany(t, target) ==
  [t EXCEPT !.buffer = SubSeq(@, Distance(t.last_ack, target) + 2, Len(@)),
            !.last_ack = target]

\* An acknowledgement releases everything up to and including its target.
Release(t, target) ==
  [t EXCEPT !.buffer = SubSeq(@, Distance(t.last_ack, target) + 1, Len(@)),
            !.last_ack = target]

AcceptsRequest(t, h) == /\ h.op = OpRequest
                        /\ t.ignore_count = 0
                        /\ RequestInWindow(t, h.ack_request)

AcceptsAck(t, h) == h.op = OpAck /\ AckInWindow(t, h.ack_request)

TxReceive(t, h, crc_ok) ==
  LET aged == AgeIgnore(t)
      valid == crc_ok /\ h.error = NoError
  IN  CASE valid /\ AcceptsRequest(aged, h) -> StartReplay(aged, h.ack_request)
        [] valid /\ AcceptsAck(aged, h) -> Release(aged, h.ack_request)
        [] ~valid \/ ~(AcceptsRequest(aged, h) \/ AcceptsAck(aged, h)) -> aged

\* Take the head of the replay under way; the caller checks that there is one.
NextReplay(t) ==
  [t EXCEPT !.scheduled = Tail(@), !.replay = Len(t.scheduled) > 1,
            !.first_replay = FALSE]
-------------------------------------------------------------------------------
(* The transmitter as the hardware keeps it: a window and physical ring        *)
(* pointers.  c is the state of the control registers.  A command is           *)
(* [valid, request, target], as the receiver of the same clock edge decodes    *)
(* it.  Where the reference appends to and cuts a sequence, the hardware moves *)
(* pointers, and it lets a command and an issue happen in one edge: the issue  *)
(* sees what the command changes through the combinational dec_ signals.       *)

Slots == 0..(Capacity - 1)
MaxLive == IF Capacity < Window THEN Capacity ELSE Window

NoCommand == [valid |-> FALSE, request |-> FALSE, target |-> 0]

\* The command in a received header.
CommandOf(h, crc_ok) ==
  IF crc_ok /\ h.error = NoError /\ h.op \in CommandOps
  THEN [valid |-> TRUE, request |-> h.op = OpRequest, target |-> h.ack_request]
  ELSE NoCommand

RingReset == [last_sequence |-> SeqMax, last_ack |-> SeqMax, ignore |-> 0, unacked |-> 0,
              head |-> 0, write |-> 0, replay_sequence |-> 0, scheduled |-> 0,
              replay_pointer |-> 0, first |-> FALSE]

\* Slip: the pointer wraps one slot late, as a ring of a power of two would.
WrapLate(pointer) == IF pointer > Capacity THEN pointer - Capacity ELSE pointer

\* Pointers wrap at the exact capacity, by one conditional subtraction.
Wrap(pointer) == IF pointer >= Capacity THEN pointer - Capacity ELSE pointer
-------------------------------------------------------------------------------
(* Window tests.  The hardware tests the late target against end points that   *)
(* it can compute from the registers alone.                                    *)

WindowSum(c) == c.last_ack + c.unacked
WindowWraps(c) == WindowSum(c) > SeqMax
WindowEnd(c) == IF WindowWraps(c) THEN WindowSum(c) - SeqMax ELSE WindowSum(c)

InBuffer(c, target) ==
  /\ target # 0
  /\ IF target >= c.last_ack THEN WindowWraps(c) \/ target <= WindowEnd(c)
     ELSE WindowWraps(c) /\ target <= WindowEnd(c)

\* target lies at most reach numbers behind the newest one.
NearTail(c, target, reach) ==
  LET anchor == IF c.last_sequence = 0 THEN SeqMax ELSE c.last_sequence
  IN  IF anchor <= reach THEN target <= anchor \/ target >= anchor + SeqMax - reach
      ELSE target <= anchor /\ target >= anchor - reach

\* The one's complement difference: a borrow takes one more off.
RingDistance(c, target) ==
  IF target >= c.last_ack THEN target - c.last_ack ELSE target - c.last_ack + SeqMax

AgedIgnore(c) == IF c.ignore > 0 THEN c.ignore - 1 ELSE 0

TakesAck(c, cmd) == /\ cmd.valid /\ ~cmd.request
                    /\ InBuffer(c, cmd.target) /\ NearTail(c, cmd.target, Window)

TakesRequest(c, cmd) == /\ cmd.valid /\ cmd.request
                        /\ InBuffer(c, cmd.target) /\ AgedIgnore(c) = 0
                        /\ cmd.target # c.last_ack
                        /\ NearTail(c, cmd.target, Window - 1)
-------------------------------------------------------------------------------
(* What an issue in the same edge sees.                                        *)

LiveAfter(c, cmd) ==
  IF TakesAck(c, cmd) THEN c.unacked - RingDistance(c, cmd.target) ELSE c.unacked

ScheduledAfter(c, cmd) ==
  IF TakesRequest(c, cmd) THEN c.unacked - RingDistance(c, cmd.target) + 1 ELSE c.scheduled

ReplayAddress(c, cmd) ==
  IF TakesRequest(c, cmd) THEN Wrap(c.head + RingDistance(c, cmd.target) - 1)
  ELSE c.replay_pointer

ReplaySequence(c, cmd) == IF TakesRequest(c, cmd) THEN cmd.target ELSE c.replay_sequence

ReplayValid(c, cmd) == TakesRequest(c, cmd) \/ c.scheduled > 0

PushReady(c, cmd) ==
  /\ ~ReplayValid(c, cmd)
  /\ \/ c.unacked < MaxLive
     \/ TakesAck(c, cmd) /\ RingDistance(c, cmd.target) > c.unacked - MaxLive

FirstReplay(c, cmd) == ReplayValid(c, cmd) /\ (TakesRequest(c, cmd) \/ c.first)

\* The control registers after an edge.
RingEdge(c, ingress, cmd, push, take) ==
  LET pushed == push /\ PushReady(c, cmd)
      taken == take /\ ReplayValid(c, cmd)
      last == taken /\ ScheduledAfter(c, cmd) = 1
  IN  [last_sequence |-> IF pushed THEN Successor(c.last_sequence) ELSE c.last_sequence,
       last_ack |-> IF TakesAck(c, cmd) THEN cmd.target ELSE c.last_ack,
       ignore |-> IF TakesRequest(c, cmd) THEN IgnoreWindow
                  ELSE IF ingress THEN AgedIgnore(c) ELSE c.ignore,
       unacked |-> IF pushed THEN LiveAfter(c, cmd) + 1 ELSE LiveAfter(c, cmd),
       head |-> IF TakesAck(c, cmd) THEN Wrap(c.head + RingDistance(c, cmd.target)) ELSE c.head,
       write |-> IF pushed THEN Wrap(c.write + 1) ELSE c.write,
       replay_sequence |-> IF last THEN 0
                           ELSE IF taken THEN Successor(ReplaySequence(c, cmd))
                           ELSE ReplaySequence(c, cmd),
       scheduled |-> ScheduledAfter(c, cmd) - Bit(taken),
       replay_pointer |-> IF last THEN 0
                          ELSE IF taken THEN Wrap(ReplayAddress(c, cmd) + 1)
                          ELSE ReplayAddress(c, cmd),
       first |-> ~taken /\ (TakesRequest(c, cmd) \/ c.first)]
-------------------------------------------------------------------------------
(* Storage and output slot.  s holds the control registers, the memory, and    *)
(* the one Flit issued and not yet taken, with the word its memory read        *)
(* returned.  What the registers hold behind a cleared valid bit is masked and *)
(* overwritten by the next issue, so the model clears it as well.              *)

Blank == [sequence |-> 0, payload |-> CHOOSE p \in Payloads : TRUE]

EmptySlot == [valid |-> FALSE, payload |-> FALSE, replay |-> FALSE, first |-> FALSE,
              sequence |-> 0, normal |-> Blank.payload, read |-> Blank]

\* A link reset clears the registers; the memory keeps its words.
StorageReset(memory) == [control |-> RingReset, memory |-> memory, slot |-> EmptySlot]

IssueReady(s, out_ready) == ~s.slot.valid \/ out_ready

\* What the output slot is loaded with.
Issued(s, cmd, offer, payload) ==
  LET c == s.control
      replay == ReplayValid(c, cmd)
      push == offer /\ PushReady(c, cmd)
  IN  [valid |-> TRUE, payload |-> replay \/ push, replay |-> replay,
       first |-> FirstReplay(c, cmd),
       sequence |-> IF replay THEN ReplaySequence(c, cmd)
                    ELSE IF push THEN Successor(c.last_sequence) ELSE c.last_sequence,
       normal |-> IF push THEN payload ELSE Blank.payload,
       read |-> IF replay THEN s.memory[ReplayAddress(c, cmd)] ELSE Blank]

\* One edge: issue says that a Flit is asked for, offer that a payload is there.
StorageEdge(s, ingress, cmd, issue, offer, payload, out_ready) ==
  LET c == s.control
      accept == issue /\ IssueReady(s, out_ready)
      push == accept /\ offer /\ PushReady(c, cmd)
      entry == [sequence |-> Successor(c.last_sequence), payload |-> payload]
  IN  [control |-> RingEdge(c, ingress, cmd, push, accept),
       memory |-> IF push THEN [s.memory EXCEPT ![c.write] = entry] ELSE s.memory,
       slot |-> IF accept THEN Issued(s, cmd, offer, payload)
                ELSE IF out_ready THEN EmptySlot ELSE s.slot]

\* What the output port shows: a replayed payload comes from the memory.
OutData(s) == IF s.slot.replay THEN s.slot.read.payload ELSE s.slot.normal
TagError(s) == s.slot.valid /\ s.slot.replay /\ s.slot.read.sequence # s.slot.sequence
===============================================================================
