---------------------------- MODULE MessageArbiter ----------------------------
(* The arbiter of DL messages: model/ualink/dl_message_scheduler.py, the bound *)
(* on its service in model/ualink/dl_message_service.py, and the hardware      *)
(* rtl/dl/dl_message_arbiter.v.                                                *)
(*                                                                             *)
(* Eleven sources stand in three groups.  Groups take turns, and so do the     *)
(* sources of a group; both turns move only when a message is complete.  Every *)
(* message is one word long but a UART transport, which has up to MaxWords and *)
(* keeps the channel until its last.  A message is its number of words.        *)
EXTENDS Integers, Sequences, FiniteSetsExt, TLC

CONSTANTS Offered,     \* the sources that offer messages in this instance
          QueueDepth,  \* messages a source may hold, the one under way included
          MaxWords     \* the longest transport, 33 in the code

ASSUME MessageArbiterAssumption ==
  /\ Offered \subseteq 0..10
  /\ QueueDepth \in Nat \ {0}
  /\ MaxWords \in Nat \ {0, 1}

VARIABLE arbiter

Sources == 0..10
Transport == 7

\* First source and size of the groups: basic, control and UART messages.
Groups == 0..2
First == [g \in Groups |-> CASE g = 0 -> 0 [] g = 1 -> 5 [] g = 2 -> 7]
Size == [g \in Groups |-> CASE g = 0 -> 5 [] g = 1 -> 2 [] g = 2 -> 4]
GroupOf(s) == CHOOSE g \in Groups : s \in First[g]..(First[g] + Size[g] - 1)
Local(s) == s - First[GroupOf(s)]

Lengths(s) == IF s = Transport THEN 2..MaxWords ELSE {1}
NoneActive == -1

ArbiterReset == [queues |-> [s \in Sources |-> << >>], group_next |-> 0,
                 local_next |-> [g \in Groups |-> 0], active |-> NoneActive, word_index |-> 0]

PendingSources(a) == {s \in Sources : a.queues[s] # << >>}
-------------------------------------------------------------------------------
(* The two round robins.                                                       *)

GroupDistance(a, s) == (GroupOf(s) - a.group_next) % 3
LocalDistance(a, s) == (Local(s) - a.local_next[GroupOf(s)]) % Size[GroupOf(s)]

Precedes(a, s, t) ==
  \/ GroupDistance(a, s) < GroupDistance(a, t)
  \/ /\ GroupDistance(a, s) = GroupDistance(a, t)
     /\ LocalDistance(a, s) < LocalDistance(a, t)

\* The first pending source of the first group that has one.
Select(a, pending) ==
  CHOOSE s \in pending : \A t \in pending \ {s} : Precedes(a, s, t)

\* Slip: the group keeps its turn.
TurnsMovedWithinGroup(a, s) ==
  [a EXCEPT !.local_next[GroupOf(s)] = (Local(s) + 1) % Size[GroupOf(s)]]

\* Both cursors move behind the source whose message is complete.
TurnsMoved(a, s) ==
  [a EXCEPT !.group_next = (GroupOf(s) + 1) % 3,
            !.local_next[GroupOf(s)] = (Local(s) + 1) % Size[GroupOf(s)]]

Completed(a, s) ==
  [TurnsMoved(a, s) EXCEPT !.queues[s] = Tail(@), !.active = NoneActive, !.word_index = 0]

Winner(a) == IF a.active # NoneActive THEN a.active ELSE Select(a, PendingSources(a))
IsLast(a, s) == a.word_index + 1 = Head(a.queues[s])

\* One word is served: the whole of a message, or the next one of a transport.
Served(a) ==
  LET s == Winner(a)
  IN  IF IsLast(a, s) THEN Completed(a, s)
      ELSE [a EXCEPT !.active = s, !.word_index = @ + 1]

\* The transport is withdrawn, begun or not; the turns stay as they are.
Cancelled(a) == [a EXCEPT !.queues[Transport] = << >>, !.active = NoneActive, !.word_index = 0]
-------------------------------------------------------------------------------
(* The bound on the wait of a source, in words served.                         *)

\* The service module keeps who completed last instead of who is next.
Histories == Groups \X (0..4) \X (0..1) \X (0..3)
HistoryOf(a) == <<(a.group_next - 1) % 3, (a.local_next[0] - 1) % 5,
                  (a.local_next[1] - 1) % 2, (a.local_next[2] - 1) % 4>>

GroupRank(h, s) == (GroupOf(s) - h[1] - 1) % 3
LocalRank(h, s) == (Local(s) - h[GroupOf(s) + 2] - 1) % Size[GroupOf(s)]
RankAtMost(h, s, t) ==
  \/ GroupRank(h, s) < GroupRank(h, t)
  \/ GroupRank(h, s) = GroupRank(h, t) /\ LocalRank(h, s) <= LocalRank(h, t)

Advance(h, s) == [h EXCEPT ![1] = GroupOf(s), ![GroupOf(s) + 2] = Local(s)]

Cost(s) == IF s = Transport THEN MaxWords ELSE 1

\* Turns before that of t, at most: every one of them lets t come nearer.
Turns(h, t) == 3 * LocalRank(h, t) + GroupRank(h, t)

\* The longest wait for a source at most n turns away.  Who goes first, s, can
\* only be a source that wins against t.
Wait[n \in 0..14] ==
  LET shorter == IF n = 0 THEN << >> ELSE Wait[n - 1]
  IN  [at \in {at \in Histories \X Sources : Turns(at[1], at[2]) = n} |->
         Max({Cost(s) + IF s = at[2] THEN 0 ELSE shorter[<<Advance(at[1], s), at[2]>>] :
                s \in {q \in Sources : RankAtMost(at[1], q, at[2])}})] @@ shorter
Bound == Wait[14]

ServiceBound(h, t) == Bound[<<h, t>>]
LockedServiceBound(h, t, remaining) ==
  IF t = Transport THEN remaining ELSE remaining + ServiceBound(Advance(h, Transport), t)

\* Words that may still be served until the head of source t is complete.
Remaining(a, t) ==
  IF a.active = NoneActive THEN ServiceBound(HistoryOf(a), t)
  ELSE LockedServiceBound(HistoryOf(a), t, Head(a.queues[Transport]) - a.word_index)
-------------------------------------------------------------------------------
(* The hardware.  Its registers are the cursors, the lock with the next index  *)
(* and the index of the last word, caught when the first word goes out.        *)

ArbiterRegisters(a) ==
  [group |-> a.group_next, basic |-> a.local_next[0], control |-> a.local_next[1],
   uart |-> a.local_next[2], locked |-> a.active # NoneActive, index |-> a.word_index,
   last |-> IF a.active # NoneActive THEN Head(a.queues[Transport]) - 1 ELSE 0]

\* What the registers say: the index of the last word counts under the lock only.
ArbiterMeaning(r) == IF r.locked THEN r ELSE [r EXCEPT !.last = 0]

\* Slip: the third row starts anew one source too early.
BasicOrderTwisted == << <<0, 1, 2, 3, 4>>, <<1, 2, 3, 4, 0>>, <<2, 3, 0, 1, 4>>,
                        <<3, 4, 0, 1, 2>>, <<4, 0, 1, 2, 3>> >>
BasicOrder == << <<0, 1, 2, 3, 4>>, <<1, 2, 3, 4, 0>>, <<2, 3, 4, 0, 1>>,
                 <<3, 4, 0, 1, 2>>, <<4, 0, 1, 2, 3>> >>
ControlOrder == << <<5, 6>>, <<6, 5>> >>
UartOrder == << <<7, 8, 9, 10>>, <<8, 9, 10, 7>>, <<9, 10, 7, 8>>, <<10, 7, 8, 9>> >>
GroupOrder == << <<0, 1, 2>>, <<1, 2, 0>>, <<2, 0, 1>> >>

FirstIn(order, candidates) ==
  LET hits == {i \in DOMAIN order : order[i] \in candidates}
  IN  IF hits = {} THEN order[1] ELSE order[Min(hits)]

\* The source whose turn it is in a group.
NextSource(r, group, eligible, locked) ==
  CASE group = 0 -> FirstIn(BasicOrder[r.basic + 1], eligible)
    [] group = 1 -> FirstIn(ControlOrder[r.control + 1], eligible)
    [] group = 2 -> IF locked THEN Transport ELSE FirstIn(UartOrder[r.uart + 1], eligible)

\* One edge: pending are the sources with a staged head, count is the length of
\* the transport at the port.  Returns the word served, or none, and the registers.
HwArbiter(r, cancel, available, pending, count) ==
  LET locked == r.locked /\ ~cancel
      legal == count \in 2..MaxWords
      eligible == pending \ (IF legal /\ ~cancel THEN {} ELSE {Transport})
      group == IF locked THEN 2
               ELSE FirstIn(GroupOrder[r.group + 1],
                            {g \in Groups : \E s \in eligible : GroupOf(s) = g})
      source == NextSource(r, group, eligible, locked)
      emit == available /\ IF locked THEN Transport \in pending ELSE eligible # {}
      last == IF locked THEN r.index = r.last ELSE source # Transport
      complete == emit /\ last
      start == emit /\ ~locked /\ source = Transport
  IN  [valid |-> emit, source |-> IF emit THEN source ELSE 0,
       index |-> IF emit /\ locked THEN r.index ELSE 0, last |-> complete,
       error |-> ~cancel /\ IF locked THEN Transport \notin pending
                            ELSE Transport \in pending /\ ~legal,
       registers |->
         [group |-> IF complete THEN (IF group = 2 THEN 0 ELSE group + 1) ELSE r.group,
          basic |-> IF complete /\ group = 0
                    THEN (IF source = 4 THEN 0 ELSE source + 1) ELSE r.basic,
          control |-> IF complete /\ group = 1 THEN (IF source = 5 THEN 1 ELSE 0)
                      ELSE r.control,
          uart |-> IF complete /\ group = 2
                   THEN (IF source = 10 THEN 0 ELSE source - 6) ELSE r.uart,
          locked |-> ~cancel /\ (start \/ (r.locked /\ ~complete)),
          index |-> IF cancel THEN 0 ELSE IF start THEN 1
                    ELSE IF emit /\ locked THEN (IF last THEN 0 ELSE r.index + 1)
                    ELSE r.index,
          last |-> IF cancel THEN 0 ELSE IF start THEN count - 1 ELSE r.last]]
-------------------------------------------------------------------------------
ArbiterInit == arbiter = ArbiterReset

Offer(s, words) ==
  /\ Len(arbiter.queues[s]) < QueueDepth
  /\ arbiter' = [arbiter EXCEPT !.queues[s] = Append(@, words)]

Tick == /\ PendingSources(arbiter) # {}
        /\ arbiter' = Served(arbiter)

\* A withdrawal leaves the word of its edge to the others.
Cancel == LET a == Cancelled(arbiter)
          IN  arbiter' = IF PendingSources(a) = {} THEN a ELSE Served(a)

ArbiterNext == \/ \E s \in Offered : \E words \in Lengths(s) : Offer(s, words)
               \/ Tick
               \/ Cancel

ArbiterSpec == ArbiterInit /\ [][ArbiterNext]_arbiter
-------------------------------------------------------------------------------
(* Properties.                                                                 *)

\* Every word served brings every waiting source nearer to its turn, as far as
\* the service bound says: whatever the others offer meanwhile and whatever
\* transport is under way, it waits for no more words than the bound.  A transport
\* withdrawn half way throws it back to the bound at that time, never further.
WaitShortens ==
  [][ \A t \in PendingSources(arbiter) :
        LET done == Len(arbiter'.queues[t]) < Len(arbiter.queues[t])
            remains == Remaining(arbiter, t)
            bound == ServiceBound(HistoryOf(arbiter), t)
        IN  /\ Tick => done \/ Remaining(arbiter', t) < remains
            /\ Cancel => done \/ Remaining(arbiter', t) < bound
            /\ Remaining(arbiter', t) > remains => done \/ Cancel ]_arbiter

\* The hardware, which looks the winner up in tables and finds the end of a
\* transport by an index it caught, serves the same word as the reference and
\* moves its cursors alike, also in the edge in which a transport is withdrawn.
HardwareArbitrates ==
  \A cancel, available \in BOOLEAN :
    LET a == IF cancel THEN Cancelled(arbiter) ELSE arbiter
        serves == available /\ PendingSources(a) # {}
        s == Winner(a)
        next == IF serves THEN Served(a) ELSE a
        count == IF arbiter.active = NoneActive /\ arbiter.queues[Transport] # << >>
                 THEN Head(arbiter.queues[Transport]) ELSE 0
        hw == HwArbiter(ArbiterRegisters(arbiter), cancel, available, PendingSources(arbiter), count)
    IN  /\ hw.valid = serves /\ ~hw.error
        /\ ArbiterMeaning(hw.registers) = ArbiterRegisters(next)
        /\ serves => /\ hw.source = s /\ hw.index = a.word_index
                     /\ hw.last = IsLast(a, s)
===============================================================================
