--------------------------- MODULE ReplayEnds_proofs ---------------------------
(* The two ends of the replay link, each alone in its environment.              *)
(*                                                                              *)
(* The transmitter of ReplayRing: for every ring, capacity, ignore window and   *)
(* payload set its properties hold in every reachable state, whatever words     *)
(* arrive.  The window tests come first, then what a decoded command can carry, *)
(* then one lemma per operation for the inductive invariant IndInv, and the     *)
(* resident payloads, which only Send adds to.  Then the hardware runs beside   *)
(* it: with the lemmas of ReplayParts_proofs about one edge, the theorems that  *)
(* the hardware follows and that the window stays one under it.                 *)
(*                                                                              *)
(* The receiver of ReplayReceiverStream: for every ring, number of low bits and *)
(* limits, if its limit of bad Flits is below the number of low-bit values it   *)
(* never takes a payload for the next one that is not, however many Flits the   *)
(* wire loses.  The heart is CompletionExact: low bits name the right number as *)
(* long as it lies less than LowMod ahead, also across the wrap, where the ring *)
(* skips zero and the completion counts it.                                     *)
EXTENDS ReplayRing, ReplayReceiverStream, ReplayParts_proofs, FiniteSetTheorems, TLAPS

-------------------------------------------------------------------------------
(* The inductive invariant: the buffer is exactly the unacknowledged window,   *)
(* and the schedule, when there is one, ends where the buffer ends.            *)

IndInv == TypeOK /\ BufferIsWindow /\ ScheduleRunsToTail

\* The invariant holds after construction.
LEMMA InitIndInv == Init => IndInv
BY SeqMaxAssumption, IgnoreWindowAssumption
   DEF Init, TxReset, IndInv, TypeOK, TxStates, BufferIsWindow, ScheduleRunsToTail, Nth,
       SequenceNumbers, Window

\* The two statements agree.
LEMMA IndInvIs == IndInv <=> Good(tx)
BY DEF IndInv, Good, TypeOK, BufferIsWindow, ScheduleRunsToTail

\* Under the invariant the tests of receive() decide membership.
LEMMA WindowTests ==
  ASSUME IndInv
  PROVE  WindowTestsMeanBuffered
<1> SUFFICES ASSUME NEW target \in SequenceNumbers
             PROVE  LET buffered == {tx.buffer[i].sequence : i \in DOMAIN tx.buffer}
                    IN  /\ RequestInWindow(tx, target) <=> target \in buffered
                        /\ AckInWindow(tx, target) <=> target \in buffered \cup {tx.last_ack}
  BY DEF WindowTestsMeanBuffered
<1> QED  BY IndInvIs, TestsOf, BufferedIs, SMTT(30)

\* Every step preserves the invariant.
LEMMA NextIndInv == IndInv /\ [Next]_tx => IndInv'
<1> SUFFICES ASSUME Good(tx), [Next]_tx PROVE Good(tx')
  <2>1. Good(tx') => IndInv'
    BY DEF IndInv, Good, TypeOK, BufferIsWindow, ScheduleRunsToTail
  <2> QED  BY <2>1, IndInvIs
<1>1. CASE \E payload \in Payloads : Send(payload)
  BY <1>1, EnqueueKeeps DEF Send
<1>2. CASE \E word \in Words, crc_ok \in BOOLEAN : Receive(word, crc_ok)
  BY <1>2, CommandTargets, ReceiveKeeps DEF Receive, Targeted
<1>3. CASE DiscardIngress
  BY <1>3, AgeKeeps DEF DiscardIngress
<1>4. CASE Replay
  BY <1>4, NextReplayKeeps DEF Replay
<1>5. CASE Reset
  BY <1>5, ResetGood DEF Reset
<1>6. CASE UNCHANGED tx
  BY <1>6
<1> QED  BY <1>1, <1>2, <1>3, <1>4, <1>5, <1>6 DEF Next

-------------------------------------------------------------------------------
(* Whatever is resident after a step was resident before or was just sent.     *)

\* Part of a sequence holds part of its content.
LEMMA ContentOfPart ==
  ASSUME NEW s \in Seq(Entries), NEW i \in Nat \ {0}
  PROVE  Content(SubSeq(s, i, Len(s))) \subseteq Content(s)
BY DEF Content

\* Only sending makes something resident.
LEMMA ResidentShrinks ==
  ASSUME IndInv, Restarts(tx, tx') \/ Releases(tx, tx') \/ Replay \/ tx' = AgeIgnore(tx)
  PROVE  Resident(tx)' \subseteq Resident(tx)
<1> DEFINE t == AgeIgnore(tx)
<1>1. /\ tx.buffer \in Seq(Entries) /\ tx.scheduled \in Seq(Entries)
      /\ Good(t) /\ t.buffer = tx.buffer /\ t.scheduled = tx.scheduled
      /\ t.last_ack = tx.last_ack
  BY IndInvIs, GoodParts, AgeKeeps
<1> HIDE DEF t
<1>2. CASE Restarts(tx, tx')
  <2>1. PICK k \in 1..Len(t.buffer) : tx' = StartReplay(t, Nth(t.last_ack, k))
    BY <1>1, <1>2 DEF Restarts, t
  <2>2. tx'.buffer = tx.buffer /\ tx'.scheduled = SubSeq(tx.buffer, k, Len(tx.buffer))
    BY <1>1, <2>1, StartReplayKeeps
  <2>3. k \in Nat \ {0}
    OBVIOUS
  <2> QED  BY <1>1, <2>2, <2>3, ContentOfPart DEF Resident
<1>3. CASE Releases(tx, tx')
  <2>1. PICK k \in 0..Len(t.buffer) : tx' = Release(t, Nth(t.last_ack, k))
    BY <1>1, <1>3 DEF Releases, t
  <2>2. tx'.buffer = SubSeq(tx.buffer, k + 1, Len(tx.buffer)) /\ tx'.scheduled = tx.scheduled
    BY <1>1, <2>1, ReleaseKeeps
  <2>3. k + 1 \in Nat \ {0}
    OBVIOUS
  <2> QED  BY <1>1, <2>2, <2>3, ContentOfPart DEF Resident
<1>4. CASE Replay
  <2>1. tx'.buffer = tx.buffer /\ tx'.scheduled = Tail(tx.scheduled) /\ tx.scheduled # << >>
    BY <1>4 DEF Replay, NextReplay, IndInv, TypeOK, TxStates
  <2>2. Content(Tail(tx.scheduled)) \subseteq Content(tx.scheduled)
    BY <1>1, <2>1 DEF Content
  <2>3. QED
    BY <2>1, <2>2 DEF Resident
<1>5. CASE tx' = AgeIgnore(tx)
  BY <1>1, <1>5 DEF Resident, t
<1>6. QED
  BY <1>2, <1>3, <1>4, <1>5

\* Sending adds one payload under a number that was not resident, and only
\* below the capacity.
LEMMA ResidentGrows ==
  ASSUME IndInv, NEW payload \in Payloads, Send(payload)
  PROVE  /\ \E e : Resident(tx)' = Resident(tx) \cup {e}
                   /\ \A f \in Resident(tx) : f.sequence # e.sequence
         /\ Cardinality(Resident(tx)) < Capacity
<1> DEFINE n == Len(tx.buffer)
           e == [sequence |-> Successor(tx.last_sequence), payload |-> payload]
<1>1. /\ tx.buffer \in Seq(Entries) /\ n \in 0..(Window - 1)
      /\ tx.last_ack \in SequenceNumbers /\ tx.scheduled = << >>
      /\ tx.last_sequence = Nth(tx.last_ack, n)
      /\ \A i \in 1..n : tx.buffer[i].sequence = Nth(tx.last_ack, i)
  BY WindowIsHalf DEF IndInv, TypeOK, TxStates, BufferIsWindow, ScheduleRunsToTail, Send, CanEnqueue
<1>2. e.sequence = Nth(tx.last_ack, n + 1)
  BY <1>1, SuccessorOfNth, WindowIsHalf
<1>3. tx'.buffer = Append(tx.buffer, e) /\ tx'.scheduled = << >>
  BY <1>1 DEF Send, Enqueue, IndInv, TypeOK, TxStates
<1> HIDE DEF e
<1>4. Content(Append(tx.buffer, e)) = Content(tx.buffer) \cup {e}
  BY <1>1 DEF Content
<1>5. \A i \in 1..n : tx.buffer[i].sequence # e.sequence
  <2>1. \A i \in 1..n : i \in 0..Window /\ n + 1 \in 0..Window /\ i # n + 1
    BY <1>1, WindowIsHalf
  <2>2. QED
    BY <1>1, <1>2, <2>1, NthOneToOne
<1>6. Content(<< >>) = {}
  BY DEF Content
<1>7. \A f \in Resident(tx) : f.sequence # e.sequence
  BY <1>1, <1>5, <1>6 DEF Resident, Content
<1>8. Resident(tx)' = Resident(tx) \cup {e}
  BY <1>1, <1>3, <1>4 DEF Resident
<1>9. QED
  BY <1>7, <1>8 DEF Send, CanEnqueue

(* The resident payloads: few enough for the capacity, one content a number.   *)
ResidentInv == IsFiniteSet(Resident(tx)) /\ ResidentBound /\ OneContentPerNumber

\* Nothing is resident after construction.
LEMMA InitResidentInv == Init => ResidentInv
<1>1. Init => Resident(tx) = {}
  BY DEF Init, TxReset, Resident, Content
<1>2. QED
  BY <1>1, FS_EmptySet, CapacityAssumption DEF ResidentInv, ResidentBound, OneContentPerNumber

\* Every step keeps the resident payloads few and unambiguous.
LEMMA NextResidentInv == IndInv /\ ResidentInv /\ [Next]_tx => ResidentInv'
<1> SUFFICES ASSUME IndInv, ResidentInv, [Next]_tx PROVE ResidentInv'
  OBVIOUS
<1>1. CASE \E payload \in Payloads : Send(payload)
  <2>1. PICK payload \in Payloads : Send(payload)
    BY <1>1
  <2>2. PICK e : /\ Resident(tx)' = Resident(tx) \cup {e}
                 /\ \A f \in Resident(tx) : f.sequence # e.sequence
    BY <2>1, ResidentGrows
  <2>3. Cardinality(Resident(tx)) < Capacity
    BY <2>1, ResidentGrows
  <2>4. /\ IsFiniteSet(Resident(tx)')
        /\ Cardinality(Resident(tx)') <= Cardinality(Resident(tx)) + 1
        /\ Cardinality(Resident(tx)) \in Nat /\ Cardinality(Resident(tx)') \in Nat
    <3>1. IsFiniteSet(Resident(tx)) /\ Cardinality(Resident(tx)) \in Nat
      BY FS_CardinalityType DEF ResidentInv
    <3>2. IsFiniteSet(Resident(tx) \cup {e})
      BY <3>1, FS_AddElement
    <3>3. Cardinality(Resident(tx) \cup {e}) \in {Cardinality(Resident(tx)),
                                                  Cardinality(Resident(tx)) + 1}
      BY <3>1, FS_AddElement
    <3>4. QED
      BY <2>2, <3>1, <3>2, <3>3
  <2>5. QED
    BY <2>2, <2>3, <2>4, CapacityAssumption DEF ResidentInv, ResidentBound, OneContentPerNumber
<1>2. CASE Resident(tx)' \subseteq Resident(tx)
  <2>1. /\ IsFiniteSet(Resident(tx)')
        /\ Cardinality(Resident(tx)') <= Cardinality(Resident(tx))
        /\ Cardinality(Resident(tx)) \in Nat /\ Cardinality(Resident(tx)') \in Nat
    BY <1>2, FS_Subset, FS_CardinalityType DEF ResidentInv
  <2>2. QED
    BY <1>2, <2>1, CapacityAssumption DEF ResidentInv, ResidentBound, OneContentPerNumber
<1>3. CASE \E word \in Words, crc_ok \in BOOLEAN : Receive(word, crc_ok)
  <2>1. Good(tx)
    BY IndInvIs
  <2>2. Restarts(tx, tx') \/ Releases(tx, tx') \/ tx' = AgeIgnore(tx)
    BY <1>3, <2>1, CommandTargets, ReceiveCases DEF Receive, Targeted
  <2> QED  BY <1>2, <2>2, ResidentShrinks
<1>4. CASE DiscardIngress
  BY <1>2, <1>4, ResidentShrinks DEF DiscardIngress
<1>5. CASE Replay
  BY <1>2, <1>5, ResidentShrinks
<1>6. CASE Reset
  BY <1>2, <1>6 DEF Reset, TxReset, Resident, Content
<1>7. CASE UNCHANGED tx
  BY <1>2, <1>7
<1>8. QED
  BY <1>1, <1>3, <1>4, <1>5, <1>6, <1>7 DEF Next
-------------------------------------------------------------------------------
(* The theorems.                                                               *)

\* The inductive invariant holds in every reachable state.
THEOREM IndInvHolds == Spec => []IndInv
BY InitIndInv, NextIndInv, PTL DEF Spec

\* The transmitter state never leaves its ranges.
THEOREM TypeCorrect == Spec => []TypeOK
<1>1. IndInv => TypeOK
  BY DEF IndInv
<1>2. QED
  BY <1>1, IndInvHolds, PTL

\* The buffer of dl_replay_transmitter.py is always exactly the window from
\* last_ack to last_sequence, for every ring size.
THEOREM BufferAlwaysWindow == Spec => []BufferIsWindow
<1>1. IndInv => BufferIsWindow
  BY DEF IndInv
<1>2. QED
  BY <1>1, IndInvHolds, PTL

\* The modular window tests of receive() always decide what is buffered, so the
\* search for a requested entry never fails.
THEOREM WindowTestsAlwaysExact == Spec => []WindowTestsMeanBuffered
BY IndInvHolds, WindowTests, PTL

\* A replay always runs to the newest payload.
THEOREM ScheduleAlwaysRunsToTail == Spec => []ScheduleRunsToTail
<1>1. IndInv => ScheduleRunsToTail
  BY DEF IndInv
<1>2. QED
  BY <1>1, IndInvHolds, PTL

\* The resident payloads never exceed the capacity and never give one number
\* two contents.
THEOREM ResidentInvHolds == Spec => []ResidentInv
<1>1. Init => ResidentInv
  BY InitResidentInv
<1>2. IndInv /\ ResidentInv /\ [Next]_tx => ResidentInv'
  BY NextResidentInv
<1>3. QED
  BY <1>1, <1>2, IndInvHolds, PTL DEF Spec

\* The capacity is never exceeded.
THEOREM ResidentAlwaysBounded == Spec => []ResidentBound
<1>1. ResidentInv => ResidentBound
  BY DEF ResidentInv
<1>2. QED
  BY <1>1, ResidentInvHolds, PTL

\* A payload is always replayed with the content it was first sent with.
THEOREM OneContentAlways == Spec => []OneContentPerNumber
<1>1. ResidentInv => OneContentPerNumber
  BY DEF ResidentInv
<1>2. QED
  BY <1>1, ResidentInvHolds, PTL
-------------------------------------------------------------------------------
(* Hardware and reference, edge by edge.                                       *)

(* The inductive invariant: the window, what the registers mean, and the slot. *)
RingInv == Good(tx) /\ Means(ring.control, ring.memory, tx) /\ SlotShowsSelected

\* The slot agrees with what the reference selected, field by field.
LEMMA SlotAgrees ==
  ASSUME NEW s, NEW x, s.slot = x, NEW d,
         x.valid, x.payload \in BOOLEAN, x.replay \in BOOLEAN, x.first \in BOOLEAN,
         x.replay => x.read.sequence = x.sequence /\ x.payload,
         d = Carries(x.payload, x.replay, x.first, x.sequence,
                     IF x.replay THEN x.read.payload
                     ELSE IF x.payload THEN x.normal ELSE Blank.payload)
  PROVE  /\ ~TagError(s)
         /\ d = IF s.slot.valid
                THEN Carries(s.slot.payload, s.slot.replay, s.slot.first, s.slot.sequence,
                             IF s.slot.payload THEN OutData(s) ELSE Blank.payload)
                ELSE Nothing
<1>1. (IF x.replay THEN x.read.payload ELSE IF x.payload THEN x.normal ELSE Blank.payload)
        = IF x.payload THEN OutData(s) ELSE Blank.payload
  BY DEF OutData
<1> HIDE DEF Blank
<1> QED  BY <1>1 DEF TagError

\* One edge of both keeps them in step, once the command keeps them in step.
LEMMA EdgeKeeps ==
  ASSUME RingInv, NEW t, Good(t), NEW ingress \in BOOLEAN,
         NEW cmd, cmd.valid => cmd.target \in SequenceNumbers,
         Means(Commanded(ring.control, ingress, cmd), ring.memory, t),
         Edge(t, ingress, cmd)
  PROVE  RingInv'
<1> DEFINE c == ring.control
           m == ring.memory
           e == Commanded(c, ingress, cmd)
<1>1. PICK issue \in BOOLEAN, offer \in BOOLEAN, payload \in Payloads :
        /\ offer => issue
        /\ Reference(t, issue, offer, payload)
        /\ ring' = StorageEdge(ring, ingress, cmd, issue, offer, payload, TRUE)
  BY DEF Edge
<1>2. /\ c \in RingStates /\ Windowed(c) /\ Means(e, m, t) /\ e \in RingStates
      /\ m \in [Slots -> Cells]
  BY MeansWindowed DEF RingInv, Means
<1>3. /\ ReplayValid(c, cmd) <=> Replays(e)
      /\ PushReady(c, cmd) <=> Accepts(e)
      /\ ~(Accepts(e) /\ Replays(e))
  BY <1>2, ReadyAfterCommand DEF Accepts, Replays
<1>4. /\ Accepts(e) <=> CanEnqueue(t)
      /\ Replays(e) <=> t.scheduled # << >>
  BY <1>2, AcceptsIs
<1>5. /\ e.write = c.write /\ e.last_sequence = c.last_sequence
      /\ e.last_sequence = t.last_sequence /\ e.first = t.first_replay
      /\ t.first_replay \in BOOLEAN
  BY <1>2, GoodParts DEF Commanded, Means
<1> DEFINE push == issue /\ offer /\ PushReady(c, cmd)
           entry == [sequence |-> Successor(c.last_sequence), payload |-> payload]
           x == Issued(ring, cmd, offer, payload)
<1>6. /\ ring'.control = Issuing(e, push, issue)
      /\ ring'.memory = (IF push THEN [m EXCEPT ![e.write] = entry] ELSE m)
      /\ ring'.slot = (IF issue THEN x ELSE EmptySlot)
  <2>1. IssueReady(ring, TRUE)
    BY DEF IssueReady
  <2>2. (issue /\ IssueReady(ring, TRUE)) = issue
    BY <2>1
  <2>3. push \in BOOLEAN
    BY DEF PushReady
  <2>4. RingEdge(c, ingress, cmd, push, issue) = Issuing(e, push, issue)
    <3> HIDE DEF push, c
    <3> QED  BY <1>2, <2>3, EdgeSplits
  <2>5. /\ ring'.control = RingEdge(c, ingress, cmd, push, issue)
        /\ ring'.memory = (IF push THEN [m EXCEPT ![c.write] = entry] ELSE m)
        /\ ring'.slot = (IF issue THEN x ELSE EmptySlot)
    BY <1>1, <2>2 DEF StorageEdge
  <2> QED  BY <1>5, <2>4, <2>5
<1>7. /\ x.valid
      /\ x.payload \in BOOLEAN /\ (x.payload <=> Replays(e) \/ (offer /\ Accepts(e)))
      /\ x.replay \in BOOLEAN /\ (x.replay <=> Replays(e))
      /\ x.first \in BOOLEAN /\ (x.first <=> Replays(e) /\ e.first)
      /\ x.sequence = IF Replays(e) THEN e.replay_sequence
                      ELSE IF offer /\ Accepts(e) THEN Successor(e.last_sequence)
                      ELSE e.last_sequence
      /\ x.normal = IF offer /\ Accepts(e) THEN payload ELSE Blank.payload
      /\ x.read = IF Replays(e) THEN m[e.replay_pointer] ELSE Blank
  BY <1>2, IssuedIs
<1>8. Means(e, m, t) /\ e \in RingStates
  BY <1>2
<1> HIDE DEF c, m, e, x, push
<1>9. SUFFICES Good(tx') /\ Means(ring'.control, ring'.memory, tx') /\ SlotShowsSelected'
  BY DEF RingInv
<1>10. CASE ~issue
  <2>1. tx' = t /\ due' = Nothing
    BY <1>1, <1>10 DEF Reference
  <2>2. ~push
    BY <1>10 DEF push
  <2>3. Issuing(e, push, issue) = e
    <3>1. push \in BOOLEAN
      BY <2>2 DEF push, PushReady
    <3> QED  BY <1>8, <1>10, <2>2, <3>1, RestMoves
  <2>4. ring'.slot = EmptySlot
    BY <1>6, <1>10
  <2>5. SlotShowsSelected'
    BY <2>1, <2>4 DEF SlotShowsSelected, TagError, EmptySlot
  <2>6. Means(ring'.control, ring'.memory, tx')
    BY <1>6, <1>8, <2>1, <2>2, <2>3
  <2> QED  BY <2>1, <2>5, <2>6
<1>11. ASSUME issue, Replays(e)
       PROVE  Good(tx') /\ Means(ring'.control, ring'.memory, tx') /\ SlotShowsSelected'
  <2>1. /\ tx' = NextReplay(t)
        /\ due' = Carries(TRUE, TRUE, t.first_replay, Head(t.scheduled).sequence,
                          Head(t.scheduled).payload)
    BY <1>1, <1>4, <1>11 DEF Reference
  <2>2. ~push /\ push \in BOOLEAN
    BY <1>3, <1>11 DEF push, PushReady
  <2>3. /\ t.scheduled # << >>
        /\ Means(Issuing(e, push, TRUE), m, NextReplay(t))
        /\ m[e.replay_pointer] = Head(t.scheduled)
        /\ e.replay_sequence = Head(t.scheduled).sequence
    BY <1>8, <1>11, <2>2, ReplayMoves
  <2>4. Good(tx')
    BY <2>1, <2>3, NextReplayKeeps
  <2>5. Issuing(e, push, issue) = Issuing(e, push, TRUE)
    BY <1>11
  <2>6. Means(ring'.control, ring'.memory, tx')
    BY <1>6, <2>1, <2>2, <2>3, <2>5
  <2>7. /\ ring'.slot = x /\ x.valid /\ x.payload = TRUE /\ x.replay = TRUE
        /\ x.first = t.first_replay /\ x.sequence = Head(t.scheduled).sequence
        /\ x.read = Head(t.scheduled)
    BY <1>5, <1>6, <1>7, <1>11, <2>3
  <2>8. SlotShowsSelected'
    BY <2>1, <2>7 DEF SlotShowsSelected, TagError, OutData
  <2> QED  BY <2>4, <2>6, <2>8
<1>12. ASSUME issue, offer, Accepts(e)
       PROVE  Good(tx') /\ Means(ring'.control, ring'.memory, tx') /\ SlotShowsSelected'
  <2>1. ~Replays(e) /\ t.scheduled = << >> /\ CanEnqueue(t)
    BY <1>3, <1>4, <1>12
  <2>2. /\ tx' = Enqueue(t, payload)
        /\ due' = Carries(TRUE, FALSE, FALSE, Successor(t.last_sequence), payload)
    BY <1>1, <1>12, <2>1 DEF Reference
  <2>3. push = TRUE
    BY <1>3, <1>12 DEF push, PushReady
  <2>4. Good(tx')
    BY <2>1, <2>2, EnqueueKeeps
  <2>5. Means(Issuing(e, TRUE, issue),
              [m EXCEPT ![e.write] = [sequence |-> Successor(e.last_sequence), payload |-> payload]],
              Enqueue(t, payload))
    BY <1>8, <1>12, PushMoves
  <2>6. Means(ring'.control, ring'.memory, tx')
    BY <1>5, <1>6, <2>2, <2>3, <2>5
  <2>7. /\ ring'.slot = x /\ x.valid /\ x.payload = TRUE /\ x.replay = FALSE
        /\ x.first = FALSE /\ x.sequence = Successor(t.last_sequence) /\ x.normal = payload
    BY <1>5, <1>6, <1>7, <1>12, <2>1
  <2>8. SlotShowsSelected'
    BY <2>2, <2>7 DEF SlotShowsSelected, TagError, OutData
  <2> QED  BY <2>4, <2>6, <2>8
<1>13. ASSUME issue, ~Replays(e), ~(offer /\ Accepts(e))
       PROVE  Good(tx') /\ Means(ring'.control, ring'.memory, tx') /\ SlotShowsSelected'
  <2>1. t.scheduled = << >> /\ ~(offer /\ CanEnqueue(t))
    BY <1>4, <1>13
  <2>2. tx' = t /\ due' = Carries(FALSE, FALSE, FALSE, t.last_sequence, Blank.payload)
    BY <1>1, <1>13, <2>1 DEF Reference
  <2>3. push = FALSE
    BY <1>3, <1>13 DEF push
  <2>4. Issuing(e, push, issue) = e
    BY <1>8, <1>13, <2>3, RestMoves
  <2>5. Means(ring'.control, ring'.memory, tx')
    BY <1>6, <1>8, <2>2, <2>3, <2>4
  <2>6. /\ ring'.slot = x /\ x.valid /\ x.payload = FALSE /\ x.replay = FALSE
        /\ x.first = FALSE /\ x.sequence = t.last_sequence
    BY <1>5, <1>6, <1>7, <1>13
  <2>7. SlotShowsSelected'
    BY <2>2, <2>6 DEF SlotShowsSelected, TagError
  <2> QED  BY <2>2, <2>5, <2>7
<1> QED  BY <1>10, <1>11, <1>12, <1>13

\* Both start in step.
LEMMA InitRing == RingInit => RingInv
<1> SUFFICES ASSUME RingInit PROVE RingInv
  OBVIOUS
<1>1. Good(tx) /\ tx = TxReset
  BY ResetGood DEF RingInit, Init
<1> DEFINE m0 == [i \in Slots |-> Blank]
<1>2. m0 \in [Slots -> Cells]
  BY DEF Cells
<1>3. ring = StorageReset(m0) /\ due = Nothing
  BY DEF RingInit
<1> HIDE DEF m0
<1>4. ring.control = RingReset /\ ring.memory = m0 /\ ring.slot = EmptySlot
  BY <1>3 DEF StorageReset
<1>5. SlotShowsSelected
  BY <1>3, <1>4 DEF SlotShowsSelected, TagError, EmptySlot
<1> QED  BY <1>1, <1>2, <1>4, <1>5, ResetMeans DEF RingInv

\* Every edge keeps them in step.
LEMMA NextRing == RingInv /\ [RingNext]_ringVars => RingInv'
<1> SUFFICES ASSUME RingInv, [RingNext]_ringVars PROVE RingInv'
  OBVIOUS
<1> DEFINE c == ring.control
           m == ring.memory
<1>1. Good(tx) /\ Means(c, m, tx)
  BY DEF RingInv
<1>2. ~TakesAck(c, NoCommand) /\ ~TakesRequest(c, NoCommand) /\ ~NoCommand.valid
  BY DEF TakesAck, TakesRequest, NoCommand
<1>3. /\ Means(Commanded(c, TRUE, NoCommand), m, AgeIgnore(tx))
      /\ Means(Commanded(c, FALSE, NoCommand), m, tx)
  BY <1>1, <1>2, NothingMoves
<1>4. CASE Idle
  BY <1>1, <1>2, <1>3, <1>4, EdgeKeeps DEF Idle
<1>5. ASSUME NEW h \in Headers, NEW crc_ok \in BOOLEAN, ReceiveEdge(h, crc_ok)
      PROVE  RingInv'
  <2>1. PICK word \in Words : h = DecodeHeader(word)
    BY DEF Headers
  <2> DEFINE cmd == CommandOf(h, crc_ok)
             t == TxReceive(tx, h, crc_ok)
  <2>2. cmd.valid => cmd.target \in SequenceNumbers
    BY <2>1, CommandNames
  <2>3. Good(t)
    BY <1>1, <2>1, CommandTargets, ReceiveKeeps DEF Targeted
  <2>4. Means(Commanded(c, TRUE, cmd), m, t)
    BY <1>1, <2>1, ReceiveMoves
  <2>5. Edge(t, TRUE, cmd)
    BY <1>5 DEF ReceiveEdge
  <2> HIDE DEF cmd, t
  <2> QED  BY <2>2, <2>3, <2>4, <2>5, EdgeKeeps
<1>6. CASE DiscardEdge
  <2>1. Good(AgeIgnore(tx))
    BY <1>1, AgeKeeps
  <2> QED  BY <1>2, <1>3, <1>6, <2>1, EdgeKeeps DEF DiscardEdge
<1>7. CASE LinkReset
  <2>1. tx' = TxReset /\ ring' = StorageReset(m) /\ due' = Nothing
    BY <1>7 DEF LinkReset
  <2>2. ring'.control = RingReset /\ ring'.memory = m /\ ring'.slot = EmptySlot
    BY <2>1 DEF StorageReset
  <2>3. m \in [Slots -> Cells]
    BY <1>1 DEF Means
  <2>4. SlotShowsSelected'
    BY <2>1, <2>2 DEF SlotShowsSelected, TagError, EmptySlot
  <2>5. Means(ring'.control, ring'.memory, tx')
    BY <2>1, <2>2, <2>3, ResetMeans
  <2> QED  BY <2>1, <2>4, <2>5, ResetGood DEF RingInv
<1>8. CASE UNCHANGED ringVars
  BY <1>8 DEF RingInv, ringVars, SlotShowsSelected, TagError, OutData
<1> QED  BY <1>4, <1>5, <1>6, <1>7, <1>8 DEF RingNext

\* What the registers mean is what RingHoldsBuffer says.
LEMMA RingImplies == RingInv => HardwareInStep
<1> SUFFICES ASSUME RingInv PROVE RingHoldsBuffer
  BY DEF RingInv, HardwareInStep
<1> DEFINE c == ring.control
<1>1. Good(tx) /\ Means(c, ring.memory, tx)
  BY DEF RingInv
<1>2. Stored(c.head, c.unacked) = tx.buffer
  <2>1. tx.buffer \in Seq(Entries) /\ c.unacked = Len(tx.buffer)
    BY <1>1, GoodParts DEF Means
  <2>2. \A i \in 1..c.unacked : ring.memory[(c.head + i - 1) % Capacity] = tx.buffer[i]
    BY <1>1 DEF Means, At
  <2> QED  BY <2>1, <2>2 DEF Stored
<1>3. Stored(c.replay_pointer, c.scheduled) = tx.scheduled
  <2>1. tx.scheduled \in Seq(Entries) /\ c.scheduled = Len(tx.scheduled)
    BY <1>1, GoodParts DEF Means
  <2>2. \A i \in 1..c.scheduled : ring.memory[(c.replay_pointer + i - 1) % Capacity] = tx.scheduled[i]
    BY <1>1 DEF Means, At
  <2> QED  BY <2>1, <2>2 DEF Stored
<1> QED  BY <1>1, <1>2, <1>3 DEF RingHoldsBuffer, Means, At

\* In every reachable state the ring registers and memory of the hardware mean
\* the buffer and the schedule of the reference, and the output slot shows what
\* the reference selected, with the right tag, for every ring and capacity, a
\* power of two or not.
THEOREM RingStaysInStep == RingSpec => []HardwareInStep
BY InitRing, NextRing, RingImplies, PTL DEF RingSpec

\* With a command and an issue in one edge, too, the buffer is the window, the
\* window tests are exact and a replay runs to the newest payload.
THEOREM RingKeepsWindow ==
  RingSpec => [](TypeOK /\ BufferIsWindow /\ WindowTestsMeanBuffered /\ ScheduleRunsToTail)
<1>1. RingInv => TypeOK /\ BufferIsWindow /\ WindowTestsMeanBuffered /\ ScheduleRunsToTail
  BY IndInvIs, WindowTests DEF RingInv, IndInv
<1> QED  BY <1>1, InitRing, NextRing, PTL DEF RingSpec

-------------------------------------------------------------------------------
(* The receiver: one ingress event.                                            *)

\* What the receiver decodes is what the peer meant.
LEMMA ArrivalMeaning ==
  ASSUME NEW payload \in BOOLEAN, NEW sequence \in SequenceNumbers,
         NEW explicit \in BOOLEAN, first \in BOOLEAN
  PROVE  Says(Arrives(payload, sequence, explicit), payload, sequence)
<1>1. 1 \in SequenceNumbers
  BY FieldSizes DEF SequenceNumbers
<1>2. (payload /\ first) \in BOOLEAN /\ ((payload /\ first) => payload)
  OBVIOUS
<1>3. CASE explicit
  <2>1. Says(EncodedExplicit(sequence, payload, payload /\ first), payload, sequence)
    BY <1>2, ExplicitSays
  <2>2. QED
    BY <1>3, <2>1 DEF Arrives, EncodedExplicit
<1>4. CASE ~explicit
  <2> DEFINE no == FALSE
             h == EncodedCommand(sequence, 1, payload, no)
  <2>1. no \in BOOLEAN
    OBVIOUS
  <2> HIDE DEF no, h
  <2>2. Says(h, payload, sequence)
    BY <1>1, <2>1, CommandSays DEF h
  <2>3. h = Arrives(payload, sequence, explicit)
    BY <1>4 DEF Arrives, EncodedCommand, h, no
  <2>4. QED
    BY <2>2, <2>3
<1>5. QED
  BY <1>3, <1>4

\* What an ingress event may do to the receiver: accept the Flit, which is the
\* next payload or a NOP without a gap, or keep its position; and if it is then
\* still in step without doubt, it has counted the Flit as bad.
Moves(r, s, payload, sequence, j) ==
  \/ /\ s = [RxReset EXCEPT !.last_sequence = sequence]
     /\ j = IF payload THEN 1 ELSE 0
  \/ /\ s.last_sequence = r.last_sequence
     /\ ~s.ambiguous /\ ~s.replay =>
          /\ ~r.ambiguous /\ ~r.replay
          /\ s.bad_crc_count = r.bad_crc_count + 1
          /\ s.bad_crc_count < BadLimit

\* Every outcome of an ingress event is such a move.
LEMMA OutcomeMoves ==
  ASSUME NEW r, NEW out, NEW payload, NEW j,
         \/ Waiting(r, out) \/ Missed(r, j, out) \/ Passed(r, out)
         \/ Taken(r, payload, j, out)
  PROVE  Moves(r, out.state, payload, Nth(r.last_sequence, j), j)
BY DEF Waiting, Missed, Passed, Taken, Moves, Bit

-------------------------------------------------------------------------------
(* The receiver: the stream.                                                   *)

\* The peer is never a full window ahead of the receiver.
SentInWindow == Distance(rx.last_sequence, sent) <= Window

StreamInv == StreamTypeOK /\ GapIsCounted /\ SentInWindow

\* The position of the receiver moves only to the number just sent, by one step.
OnlyNext ==
  rx'.last_sequence # rx.last_sequence =>
    rx'.last_sequence = sent' /\ sent' = Successor(rx.last_sequence)

\* A Flit of either kind, delivered, damaged or refused, as one event: sent' is
\* its number, j numbers after the receiver's.
LEMMA IngestStep ==
  ASSUME StreamInv, NEW payload \in BOOLEAN, NEW explicit \in BOOLEAN,
         NEW j \in 0..Window,
         j = IF payload THEN Distance(rx.last_sequence, sent) + 1
                        ELSE Distance(rx.last_sequence, sent),
         sent' = Nth(rx.last_sequence, j),
         Ingest(payload, sent', explicit)
  PROVE  /\ rx' \in RxStates /\ sent' \in SequenceNumbers
         /\ GapIsCounted' /\ SentInWindow' /\ OnlyNext
<1> DEFINE d == Distance(rx.last_sequence, sent)
<1>1. rx \in RxStates /\ sent \in SequenceNumbers /\ first \in BOOLEAN
  BY DEF StreamInv, StreamTypeOK
<1>2. rx.last_sequence \in SequenceNumbers /\ rx.bad_crc_count \in Nat
  BY <1>1 DEF RxStates
<1>3. d \in Nat /\ (payload => j >= 1)
  BY <1>1, <1>2, NthOfDistance, SeqMaxAssumption
<1>4. ~rx.ambiguous /\ ~rx.replay =>
        /\ j <= IF payload THEN rx.bad_crc_count + 1 ELSE rx.bad_crc_count
        /\ rx.bad_crc_count < BadLimit
  BY <1>2, <1>3 DEF StreamInv, GapIsCounted
<1>5. sent' \in SequenceNumbers
  BY <1>2, NthInRing, WindowIsHalf
<1>6. rx' \in RxStates /\ Moves(rx, rx', payload, sent', j)
  <2>1. CASE rx' = RxDiscard(rx).state
    <3>1. rx' \in RxStates /\ (Waiting(rx, RxDiscard(rx)) \/ Passed(rx, RxDiscard(rx)))
      BY <1>1, <2>1, DiscardOutcome
    <3>2. QED
      BY <2>1, <3>1, OutcomeMoves
  <2>2. ASSUME NEW crc_ok \in BOOLEAN,
               rx' = RxReceive(rx, Arrives(payload, sent', explicit), crc_ok).state
        PROVE  rx' \in RxStates /\ Moves(rx, rx', payload, sent', j)
    <3> DEFINE h == Arrives(payload, sent', explicit)
               out == RxReceive(rx, h, crc_ok)
    <3>1. Trackable(rx, payload, j)
      BY <1>3, <1>4 DEF Trackable
    <3>2. Says(h, payload, Nth(rx.last_sequence, j))
      BY <1>1, <1>5, ArrivalMeaning
    <3> HIDE DEF h
    <3>3. /\ out.state \in RxStates
          /\ \/ Waiting(rx, out) \/ Missed(rx, j, out) \/ Passed(rx, out)
             \/ Taken(rx, payload, j, out)
      BY <1>1, <3>1, <3>2, ReceiveOutcome
    <3> HIDE DEF out
    <3>4. Moves(rx, out.state, payload, Nth(rx.last_sequence, j), j)
      BY <3>3, OutcomeMoves
    <3>5. QED
      BY <2>2, <3>3, <3>4 DEF out, h
  <2>3. QED
    BY <2>1, <2>2 DEF Ingest
<1>7. CASE /\ rx' = [RxReset EXCEPT !.last_sequence = sent']
           /\ j = IF payload THEN 1 ELSE 0
  <2>1. /\ rx'.last_sequence = sent' /\ rx'.bad_crc_count = 0
    BY <1>7 DEF RxReset
  <2>2. Distance(sent', sent') = 0
    BY <1>5, DistanceInRing DEF SequenceNumbers
  <2>3. GapIsCounted' /\ SentInWindow'
    BY <2>1, <2>2, BadLimitAssumption, WindowIsHalf DEF GapIsCounted, SentInWindow
  <2>4. OnlyNext
    <3>1. Nth(rx.last_sequence, 0) = rx.last_sequence
      BY <1>2, SeqMaxAssumption DEF Nth, SequenceNumbers
    <3>2. Successor(rx.last_sequence) = Nth(rx.last_sequence, 1)
      BY <1>2, <3>1, WindowIsHalf, SuccessorOfNth
    <3>3. QED
      BY <1>7, <2>1, <3>1, <3>2 DEF OnlyNext
  <2>5. QED
    BY <1>5, <1>6, <2>3, <2>4
<1>8. CASE /\ rx'.last_sequence = rx.last_sequence
           /\ ~rx'.ambiguous /\ ~rx'.replay =>
                /\ ~rx.ambiguous /\ ~rx.replay
                /\ rx'.bad_crc_count = rx.bad_crc_count + 1
                /\ rx'.bad_crc_count < BadLimit
  <2>1. Distance(rx'.last_sequence, sent') = j
    BY <1>2, <1>8, DistanceToNth
  <2>2. SentInWindow'
    BY <2>1, WindowIsHalf DEF SentInWindow
  <2>3. GapIsCounted'
    <3>1. SUFFICES ASSUME ~rx'.ambiguous, ~rx'.replay
                   PROVE  /\ j <= rx'.bad_crc_count
                          /\ rx'.bad_crc_count < BadLimit
      BY <2>1 DEF GapIsCounted
    <3>2. QED
      BY <1>2, <1>4, <1>8, <3>1, WindowIsHalf
  <2>4. OnlyNext
    BY <1>8 DEF OnlyNext
  <2>5. QED
    BY <1>5, <1>6, <2>2, <2>3, <2>4
<1>9. QED
  BY <1>6, <1>7, <1>8 DEF Moves

LEMMA StreamStarts ==
  ASSUME StreamInit PROVE StreamInv
<1>1. StreamTypeOK
  <2>1. SeqMax \in SequenceNumbers
    BY SeqMaxAssumption DEF SequenceNumbers
  <2>2. RxReset \in RxStates
    BY <2>1, AcceptedState
  <2>3. QED
    BY <2>1, <2>2 DEF StreamInit, StreamTypeOK
<1>2. rx.last_sequence = SeqMax /\ sent = SeqMax /\ rx.bad_crc_count = 0
  BY DEF StreamInit, RxReset
<1>3. SeqMax \in SequenceNumbers
  BY SeqMaxAssumption DEF SequenceNumbers
<1>4. Distance(rx.last_sequence, sent) = 0
  BY <1>2, <1>3, DistanceInRing, SeqMaxAssumption
<1>5. QED
  BY <1>1, <1>2, <1>4, BadLimitAssumption, WindowIsHalf
     DEF StreamInv, GapIsCounted, SentInWindow

LEMMA StreamContinues ==
  ASSUME StreamInv, [StreamNext]_streamVars
  PROVE  StreamInv' /\ (OnlyNext \/ UNCHANGED streamVars)
<1> DEFINE d == Distance(rx.last_sequence, sent)
<1>1. rx \in RxStates /\ sent \in SequenceNumbers /\ first \in BOOLEAN
  BY DEF StreamInv, StreamTypeOK
<1>2. rx.last_sequence \in SequenceNumbers
  BY <1>1 DEF RxStates
<1>3. d \in 0..(SeqMax - 1) /\ sent = Nth(rx.last_sequence, d) /\ d <= Window
  BY <1>1, <1>2, NthOfDistance DEF StreamInv, SentInWindow
<1>4. ASSUME NEW explicit \in BOOLEAN, SendPayload(explicit)
      PROVE  StreamInv' /\ OnlyNext
  <2>1. d < Window /\ sent' = Successor(sent) /\ first' = FALSE
    BY <1>4 DEF SendPayload
  <2>2. d + 1 \in 0..Window /\ d \in 0..Window
    BY <1>3, <2>1, WindowIsHalf, SeqMaxAssumption
  <2>3. sent' = Nth(rx.last_sequence, d + 1)
    BY <1>2, <1>3, <2>1, <2>2, SuccessorOfNth
  <2>4. Ingest(TRUE, sent', explicit)
    BY <1>4, <2>1 DEF SendPayload
  <2> HIDE DEF d
  <2>5. d + 1 = IF TRUE THEN Distance(rx.last_sequence, sent) + 1
                ELSE Distance(rx.last_sequence, sent)
    BY DEF d
  <2>6. /\ rx' \in RxStates /\ sent' \in SequenceNumbers
        /\ GapIsCounted' /\ SentInWindow' /\ OnlyNext
    BY <2>2, <2>3, <2>4, <2>5, IngestStep
  <2>7. QED
    BY <2>1, <2>6 DEF StreamInv, StreamTypeOK
<1>5. ASSUME NEW explicit \in BOOLEAN, SendNop(explicit)
      PROVE  StreamInv' /\ OnlyNext
  <2>1. sent' = sent /\ first' = first /\ Ingest(FALSE, sent', explicit)
    BY <1>5 DEF SendNop
  <2>2. d \in 0..Window
    BY <1>3, WindowIsHalf, SeqMaxAssumption
  <2>3. /\ rx' \in RxStates /\ sent' \in SequenceNumbers
        /\ GapIsCounted' /\ SentInWindow' /\ OnlyNext
    BY <1>3, <2>1, <2>2, IngestStep
  <2>4. QED
    BY <1>1, <2>1, <2>3 DEF StreamInv, StreamTypeOK
<1>6. CASE Restart
  <2>1. rx' = rx /\ rx.replay /\ sent' = rx.last_sequence /\ first' = TRUE
    BY <1>6 DEF Restart
  <2>2. Distance(rx'.last_sequence, sent') = 0
    BY <1>2, <2>1, DistanceInRing DEF SequenceNumbers
  <2>3. QED
    BY <1>1, <1>2, <2>1, <2>2, WindowIsHalf
       DEF StreamInv, StreamTypeOK, GapIsCounted, SentInWindow, OnlyNext
<1>7. CASE UNCHANGED streamVars
  BY <1>7 DEF streamVars, StreamInv, StreamTypeOK, GapIsCounted, SentInWindow
<1>8. QED
  BY <1>4, <1>5, <1>6, <1>7 DEF StreamNext

LEMMA AlwaysStreamInv == StreamSpec => []StreamInv
<1>1. StreamInit => StreamInv
  BY StreamStarts
<1>2. StreamInv /\ [StreamNext]_streamVars => StreamInv'
  BY StreamContinues
<1>3. QED
  BY <1>1, <1>2, PTL DEF StreamSpec

\* The receiver state of dl_replay_receiver.py stays in its ranges.
THEOREM ReceiverTypeCorrect == StreamSpec => []StreamTypeOK
<1>1. StreamInv => StreamTypeOK
  BY DEF StreamInv
<1>2. QED
  BY <1>1, AlwaysStreamInv, PTL

\* While the receiver trusts low bits it has counted every payload it missed.
THEOREM GapAlwaysCounted == StreamSpec => []GapIsCounted
<1>1. StreamInv => GapIsCounted
  BY DEF StreamInv
<1>2. QED
  BY <1>1, AlwaysStreamInv, PTL

\* The receiver accepts nothing but the payload that follows its last one.
THEOREM AlwaysAcceptsOnlyNext == StreamSpec => AcceptsOnlyNext
<1>1. StreamInv /\ [StreamNext]_streamVars => [OnlyNext]_streamVars
  BY StreamContinues
<1>2. QED
  BY <1>1, AlwaysStreamInv, PTL DEF StreamSpec, AcceptsOnlyNext, OnlyNext
===============================================================================
