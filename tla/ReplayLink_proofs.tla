--------------------------- MODULE ReplayLink_proofs ---------------------------
(* For every ring, window, latency and number of faults: a link whose request   *)
(* copies fit into the ignore window and whose replay limit exceeds the round   *)
(* trip acknowledges only what was delivered and delivers every payload once    *)
(* and in order.                                                                *)
(*                                                                              *)
(* The invariant says of the Flits under way in each direction which payloads   *)
(* they carry, and of every request under way that it is either too late to be  *)
(* heard or about the replay its receiver still waits for.  A direction is      *)
(* looked at by itself: t is its transmitter, r its receiver with b the         *)
(* receiver's last number, w the wire to the receiver and v the wire back, s, g *)
(* and u the scheduler, group count and transmitter beside the receiver.        *)
(*                                                                              *)
(* The last part is about ReplayPort: the hardware port agrees with the         *)
(* reference in every edge, with no condition on the numbers of the             *)
(* configuration.  It takes the receiver, the issue and the header one by one.  *)
EXTENDS ReplayPort, ReplayParts_proofs, SequenceTheorems

\* The Flits in which all copies of a request go out, and what the numbers of the
\* configuration have to observe: 6, 12, 7 and 50 with groups of two Flits.
Span == RequestCopies * GroupSpan

Configured ==
  /\ IgnoreWindow >= Span + 2
  /\ ExplicitPeriod >= Span + 1
  /\ ReplayLimit >= 2 * Latency + Span + 1

Flit == [header : Int, payload : Payloads \cup {NoPayload}]

-------------------------------------------------------------------------------
(* The invariant of a direction: the Flits under way to the receiver.          *)

\* What the transmitter counts as acknowledged is short of what was delivered by
\* Got payloads, and Missing ones were not delivered yet.
Got(t, b) == Distance(t.last_ack, b)
Missing(t, b) == Len(t.buffer) - Got(t, b)

\* The receiver stands in the window of the transmitter, and a schedule is the
\* last part of what is missing.
Behind(t, b) ==
  /\ Good(t) /\ b \in SequenceNumbers
  /\ Got(t, b) <= Len(t.buffer)
  /\ Len(t.scheduled) <= Missing(t, b)
  /\ \A i \in 1..Len(t.scheduled) :
       t.scheduled[i] = t.buffer[Len(t.buffer) - Len(t.scheduled) + i]

\* The Flit f carries the number here places after b.  It continues from the Flit
\* before it, or begins a replay of all that is missing.
Carries(t, b, f, before, here, restart) ==
  /\ Command(f).payload \in BOOLEAN
  /\ Says(Command(f), Command(f).payload, Nth(b, here))
  /\ restart => here = 1 /\ Command(f).payload /\ Command(f).op \notin CommandOps
  /\ ~restart => here = before + Bit(Command(f).payload)
  /\ Command(f).payload => f.payload = t.buffer[Got(t, b) + here].payload

\* o[i] is the place of the i-th Flit under way, o[0] that of the last one that
\* arrived; the m-th begins the replay that the receiver waits for, where the
\* one after the last is the next to be sent and 0 says that there is none.
Flits(t, b, w, o, m) ==
  /\ m \in 0..(Len(w) + 1)
  /\ o \in [0..Len(w) -> 0..Missing(t, b)]
  /\ \A i \in 1..Len(w) : Carries(t, b, w[i], o[i - 1], o[i], i = m)
  /\ \A i, j \in 0..Len(w) : i <= j /\ (j < m \/ m <= i) => o[i] <= o[j]
  /\ m = Len(w) + 1 => t.first_replay /\ Len(t.scheduled) = Missing(t, b)
  /\ m # Len(w) + 1 => ~t.first_replay /\ o[Len(w)] = Missing(t, b) - Len(t.scheduled)

\* The receiver waits only if something is missing, and no longer than the limit
\* once the replay is under way; when it trusts low bits it counted every gap.
Tracks(r, o, m) ==
  /\ r \in RxStates
  /\ r.replay => o[0] >= 1 /\ r.unexpected_count < ReplayLimit
  /\ ~r.replay => m = 0
  /\ ~r.replay /\ ~r.ambiguous => o[0] <= r.bad_crc_count /\ r.bad_crc_count < BadLimit
  /\ m # 0 => r.unexpected_count + m <= ReplayLimit

-------------------------------------------------------------------------------
(* The Flits under way to the transmitter.                                     *)

\* Acknowledgements arrive in order and tell of delivered payloads only.
Acknowledges(t, f, most) ==
  Command(f).op = OpAck =>
    /\ Command(f).ack_request \in SequenceNumbers
    /\ Distance(t.last_ack, Command(f).ack_request) <= most

Acks(t, b, v) ==
  /\ \A i \in 1..Len(v) : Acknowledges(t, v[i], Got(t, b))
  /\ \A i, j \in 1..Len(v) :
       i <= j /\ Command(v[j]).op = OpAck =>
         Acknowledges(t, v[i], Distance(t.last_ack, Command(v[j]).ack_request))

\* How many Flits go out until the last copy of a request has: copies wait for
\* their group, for the Flit that the period makes explicit, and for the first
\* Flit of a replay of the receiver's own payloads, when one can start meanwhile.
\* turn is 1 between a Flit sent and the next one received.
InGroups(s, g) == (IF s.request_in_group THEN GroupSpan - g ELSE 0)
                  + (s.replay_requests - 1) * GroupSpan + 1
ForPeriod(s, g) == IF s.explicit_count <= InGroups(s, g) THEN 1 ELSE 0
ForReplay(s, g, u, turn) ==
  IF u.ignore_count - turn >= InGroups(s, g) + ForPeriod(s, g) THEN 0 ELSE 1
Left(s, g, u, turn) ==
  IF s.replay_requests = 0 THEN 0
  ELSE IF u.first_replay THEN InGroups(s, g) + 1
  ELSE InGroups(s, g) + ForPeriod(s, g) + ForReplay(s, g, u, turn)

ScheduleStates ==
  [explicit_count : 1..ExplicitPeriod, replay_requests : 0..RequestCopies,
   request_sequence : 0..SeqMax, request_in_group : BOOLEAN]

\* Only a request of which a copy was sent has its number.
Schedules(s, g) ==
  /\ s \in ScheduleStates /\ g \in 0..GroupSpan
  /\ s.request_in_group => g >= 1
  /\ s.replay_requests \notin {0, RequestCopies} => s.request_sequence \in SequenceNumbers

\* A replay that was just started still ignores all the window.
JustStarted(u, turn) == u.first_replay => u.ignore_count = IgnoreWindow /\ turn = 0

\* The i-th Flit of v was sent in this wait, in the interval a copy may take.
\* The Flits sent in it are the events counted in it.
InWait(r, v, i, turn) ==
  /\ Len(v) < i + r.unexpected_count + turn
  /\ i + r.unexpected_count + turn <= Len(v) + Span + 2

\* A request under way comes while requests are ignored, or it asks for the
\* replay that is waited for and not under way yet.
Asks(t, r, m, v, i, turn) ==
  \/ i < t.ignore_count
  \/ /\ r.replay /\ m = 0
     /\ Command(v[i]).ack_request = Successor(r.last_sequence)
     /\ InWait(r, v, i, turn)

\* The same of the copies that are still to be sent.
WillAsk(t, r, m, s, g, u, v, turn) ==
  \/ Len(v) + Left(s, g, u, turn) < t.ignore_count
  \/ /\ r.replay /\ m = 0
     /\ \/ s.replay_requests = RequestCopies
        \/ s.request_sequence = Successor(r.last_sequence)
     /\ r.unexpected_count + turn + Left(s, g, u, turn) <= Span + 2

Requests(t, r, m, s, g, u, v, turn) ==
  /\ \A i \in 1..Len(v) : Command(v[i]).op = OpRequest => Asks(t, r, m, v, i, turn)
  /\ s.replay_requests > 0 => WillAsk(t, r, m, s, g, u, v, turn)

\* All of it for one way to place the Flits.
Placed(t, r, w, v, s, g, u, turn, o, m) ==
  /\ Behind(t, r.last_sequence)
  /\ Acks(t, r.last_sequence, v)
  /\ Flits(t, r.last_sequence, w, o, m)
  /\ Tracks(r, o, m)
  /\ Requests(t, r, m, s, g, u, v, turn)

Direction(t, r, w, v, s, g, u, turn) ==
  /\ Schedules(s, g) /\ JustStarted(u, turn)
  /\ \E m \in Nat, o \in [0..Len(w) -> 0..Missing(t, r.last_sequence)] :
       Placed(t, r, w, v, s, g, u, turn, o, m)
-------------------------------------------------------------------------------
(* A Flit arrives at the receiver.                                             *)

\* The numbers after the receiver's are those of the buffer.
LEMMA BehindParts ==
  ASSUME NEW t, NEW b, Behind(t, b)
  PROVE  /\ Good(t) /\ b \in SequenceNumbers
         /\ Got(t, b) \in 0..Window /\ Missing(t, b) \in 0..Window
         /\ Len(t.buffer) \in 0..Window /\ Len(t.buffer) = Got(t, b) + Missing(t, b)
         /\ Len(t.scheduled) \in 0..Missing(t, b)
         /\ b = Nth(t.last_ack, Got(t, b))
         /\ \A i \in 0..Missing(t, b) : Nth(t.last_ack, Got(t, b) + i) = Nth(b, i)
<1> DEFINE N == Len(t.buffer)
           D == Got(t, b)
           n == Missing(t, b)
           k == Len(t.scheduled)
<1>1. Good(t) /\ b \in SequenceNumbers /\ t.last_ack \in SequenceNumbers
  BY GoodParts DEF Behind
<1>2. N \in 0..Window /\ k \in Nat /\ Window \in Nat
  BY <1>1, GoodParts, WindowIsHalf
<1>3. D \in 0..(SeqMax - 1) /\ b = Nth(t.last_ack, D)
  BY <1>1, NthOfDistance DEF Got
<1>4. D <= N /\ k <= n /\ n = N - D
  BY DEF Behind, Missing
<1> HIDE DEF N, D, n, k
<1>5. D \in 0..Window /\ n \in 0..Window /\ N = D + n /\ k \in 0..n
  BY <1>2, <1>3, <1>4, SeqMaxAssumption
<1>6. ASSUME NEW i \in 0..n
      PROVE  Nth(t.last_ack, D + i) = Nth(b, i)
  <2>1. i \in 0..Window /\ D + i <= Window
    BY <1>2, <1>5
  <2>2. QED
    BY <1>1, <1>3, <1>5, <2>1, NthOfNth
<1>7. QED
  BY <1>1, <1>2, <1>3, <1>5, <1>6 DEF N, D, n, k

\* Standing one payload further on, the places of all others are one less.
LEMMA OneFurther ==
  ASSUME NEW t, NEW b, Behind(t, b), NEW c, c = Nth(b, 1),
         Missing(t, b) >= 1, Len(t.scheduled) <= Missing(t, b) - 1
  PROVE  /\ Behind(t, c)
         /\ Got(t, c) = Got(t, b) + 1 /\ Missing(t, c) = Missing(t, b) - 1
         /\ \A i \in 1..Missing(t, b) : Nth(b, i) = Nth(c, i - 1)
<1> DEFINE N == Len(t.buffer)
           D == Got(t, b)
           n == Missing(t, b)
           k == Len(t.scheduled)
<1>1. /\ Good(t) /\ b \in SequenceNumbers /\ t.last_ack \in SequenceNumbers
      /\ D \in 0..Window /\ n \in 0..Window /\ N \in 0..Window /\ N = D + n /\ k \in 0..n
      /\ n >= 1 /\ k <= n - 1
      /\ \A i \in 0..n : Nth(t.last_ack, D + i) = Nth(b, i)
  BY BehindParts, GoodParts
<1>2. /\ k \in Nat
      /\ \A i \in 1..k : t.scheduled[i] = t.buffer[N - k + i]
  BY <1>1 DEF Behind
<1> HIDE DEF N, D, n, k
<1>3. c = Nth(t.last_ack, D + 1) /\ D + 1 \in 0..Window /\ Window \in Nat
  BY <1>1, WindowIsHalf
<1>4. c \in SequenceNumbers
  BY <1>1, <1>3, NthInRing, WindowIsHalf
<1>5. Got(t, c) = D + 1
  BY <1>1, <1>3, DistanceToNth DEF Got
<1>6. Missing(t, c) = n - 1
  BY <1>1, <1>5 DEF Missing, N
<1>7. Behind(t, c)
  <2>1. Got(t, c) <= N /\ k <= Missing(t, c)
    BY <1>1, <1>5, <1>6
  <2>2. QED
    BY <1>1, <1>2, <1>4, <2>1 DEF Behind, N, k
<1>8. ASSUME NEW i \in 1..n
      PROVE  Nth(b, i) = Nth(c, i - 1)
  <2>1. 1 \in 0..Window /\ i - 1 \in 0..Window /\ 1 + (i - 1) <= Window /\ 1 + (i - 1) = i
    BY <1>1, <1>3
  <2>2. QED
    BY <1>1, <2>1, NthOfNth
<1>9. QED
  BY <1>5, <1>6, <1>7, <1>8 DEF D, n

\* What the header h of the first Flit says.
Leads(t, r, w, o, m, h) ==
  LET b == r.last_sequence
  IN  /\ h.payload \in BOOLEAN /\ Says(h, h.payload, Nth(b, o[1]))
      /\ Trackable(r, h.payload, o[1])
      /\ o[0] \in 0..Window /\ o[1] \in 0..Missing(t, b)
      /\ m = 1 => o[1] = 1 /\ h.payload /\ h.op \notin CommandOps
      /\ m # 1 => o[1] = o[0] + Bit(h.payload)
      /\ h.payload => w[1].payload = t.buffer[Got(t, b) + o[1]].payload

\* The first of the Flits under way is one the receiver can track.
LEMMA FirstFlit ==
  ASSUME NEW t, NEW r, NEW w \in Seq(Flit), NEW o, NEW m, NEW b, b = r.last_sequence,
         Behind(t, b), Flits(t, b, w, o, m), Tracks(r, o, m), w # << >>,
         NEW h, h = Command(w[1])
  PROVE  Leads(t, r, w, o, m, h)
<1> DEFINE n == Missing(t, b)
<1>1. 1 \in 1..Len(w) /\ 0 \in 0..Len(w) /\ 1 \in 0..Len(w)
  <2>1. Len(w) # 0 /\ Len(w) \in Nat
    BY EmptySeq
  <2>2. QED
    BY <2>1
<1>2. n \in 0..Window /\ Window \in Nat
  BY BehindParts, WindowIsHalf
<1> HIDE DEF n
<1>3. o[0] \in 0..n /\ o[1] \in 0..n
  BY <1>1 DEF Flits, n
<1>4. Carries(t, b, w[1], o[0], o[1], 1 = m)
  BY <1>1 DEF Flits
<1>5. /\ h.payload \in BOOLEAN /\ Says(h, h.payload, Nth(b, o[1]))
      /\ m = 1 => o[1] = 1 /\ h.payload /\ h.op \notin CommandOps
      /\ m # 1 => o[1] = o[0] + Bit(h.payload)
      /\ h.payload => w[1].payload = t.buffer[Got(t, b) + o[1]].payload
  BY <1>4 DEF Carries
<1>6. r \in RxStates /\ r.replay \in BOOLEAN /\ r.ambiguous \in BOOLEAN
      /\ r.bad_crc_count \in Nat
  BY DEF Tracks, RxStates
<1>7. Trackable(r, h.payload, o[1])
  <2>1. o[1] \in 0..Window /\ o[0] \in Nat /\ o[1] \in Nat
    BY <1>2, <1>3
  <2>2. h.payload => o[1] >= 1
    BY <1>5, <2>1 DEF Bit
  <2>3. ASSUME ~r.ambiguous, ~r.replay
        PROVE  /\ o[1] <= IF h.payload THEN r.bad_crc_count + 1 ELSE r.bad_crc_count
               /\ r.bad_crc_count < BadLimit
    <3>1. m = 0 /\ o[0] <= r.bad_crc_count /\ r.bad_crc_count < BadLimit
      BY <2>3 DEF Tracks
    <3>2. o[1] = o[0] + Bit(h.payload)
      BY <1>5, <3>1
    <3>3. QED
      BY <1>6, <2>1, <3>1, <3>2 DEF Bit
  <2>4. QED
    BY <2>1, <2>2, <2>3 DEF Trackable
<1>8. QED
  BY <1>2, <1>3, <1>5, <1>7 DEF n, Leads

\* The Flits that remain when the first one has arrived, seen from the receiver's
\* number d further on.
Remaining(w, o, d) == [i \in 0..Len(Tail(w)) |-> o[i + 1] - d]
Restart(m) == IF m <= 1 THEN 0 ELSE m - 1

\* They are tracked as before.
LEMMA Arrived ==
  ASSUME NEW t, NEW w \in Seq(Flit), NEW o, NEW m, NEW b,
         Behind(t, b), Flits(t, b, w, o, m), w # << >>,
         NEW d \in 0..1, d = 1 => m <= 1 /\ o[1] = 1,
         NEW c, c = Nth(b, d)
  PROVE  /\ Behind(t, c) /\ Flits(t, c, Tail(w), Remaining(w, o, d), Restart(m))
         /\ Got(t, c) = Got(t, b) + d /\ Missing(t, c) = Missing(t, b) - d
<1> DEFINE n == Missing(t, b)
           D == Got(t, b)
           L == Len(w)
           x == Tail(w)
           o2 == Remaining(w, o, d)
           m2 == Restart(m)
           k == Len(t.scheduled)
<1>1. L \in Nat /\ L >= 1 /\ x \in Seq(Flit) /\ Len(x) = L - 1
      /\ \A i \in 1..(L - 1) : x[i] = w[i + 1]
  BY EmptySeq, HeadTailProperties
<1>2. /\ b \in SequenceNumbers /\ n \in 0..Window /\ D \in 0..Window /\ k \in 0..n
      /\ Window \in Nat
  BY BehindParts, WindowIsHalf
<1>3. /\ m \in 0..(L + 1)
      /\ \A i \in 0..L : o[i] \in 0..n
      /\ \A i \in 1..L : Carries(t, b, w[i], o[i - 1], o[i], i = m)
      /\ \A i, j \in 0..L : i <= j /\ (j < m \/ m <= i) => o[i] <= o[j]
      /\ m = L + 1 => t.first_replay /\ k = n
      /\ m # L + 1 => ~t.first_replay /\ o[L] = n - k
  BY DEF Flits, n, k, L
<1> HIDE DEF n, D, L, k
<1>4. \A i \in 1..L : o[i] >= d
  <2>1. CASE d = 0
    BY <1>1, <1>2, <1>3, <2>1
  <2>2. CASE d = 1
    BY <1>1, <1>2, <1>3, <2>2
  <2>3. QED
    BY <2>1, <2>2
<1>5. /\ Behind(t, c) /\ Got(t, c) = D + d /\ Missing(t, c) = n - d
      /\ \A i \in d..n : Nth(b, i) = Nth(c, i - d)
  <2>1. CASE d = 0
    <3>1. c = b
      BY <1>2, <2>1, SeqMaxAssumption DEF Nth, SequenceNumbers
    <3>2. QED
      BY <1>2, <2>1, <3>1 DEF n, D
  <2>2. CASE d = 1
    <3>1. n >= 1 /\ k <= n - 1
      BY <1>1, <1>2, <1>3, <2>2
    <3>2. QED
      BY <2>2, <3>1, OneFurther, <1>2 DEF n, D, k
  <2>3. QED
    BY <2>1, <2>2
<1>6. /\ o2 \in [0..(L - 1) -> 0..(n - d)]
      /\ \A i \in 0..(L - 1) : o2[i] = o[i + 1] - d
  <2>1. o2 = [i \in 0..(L - 1) |-> o[i + 1] - d]
    BY <1>1 DEF Remaining
  <2>2. \A i \in 0..(L - 1) : o[i + 1] - d \in 0..(n - d)
    BY <1>1, <1>2, <1>3, <1>4
  <2> HIDE DEF o2
  <2>3. QED
    BY <2>1, <2>2
<1>7. /\ m2 \in 0..L /\ (m2 = L <=> m = L + 1)
      /\ \A i \in 1..(L - 1) : i = m2 <=> i + 1 = m
      /\ \A i, j \in 0..(L - 1) : j < m2 \/ m2 <= i => j + 1 < m \/ m <= i + 1
  BY <1>1, <1>3 DEF Restart
<1> HIDE DEF x, o2, m2
<1>8. ASSUME NEW i \in 1..(L - 1)
      PROVE  Carries(t, c, x[i], o2[i - 1], o2[i], i = m2)
  <2> DEFINE f == w[i + 1]
             h == Command(f)
             restart == i + 1 = m
  <2>1. Carries(t, b, f, o[i], o[i + 1], restart)
    BY <1>1, <1>3
  <2>2. x[i] = f /\ o2[i - 1] = o[i] - d /\ o2[i] = o[i + 1] - d /\ (i = m2 <=> restart)
    BY <1>1, <1>6, <1>7, SMTT(90)
  <2>3. o[i] \in d..n /\ o[i + 1] \in d..n
    BY <1>1, <1>2, <1>3, <1>4, SMTT(60)
  <2>4. Nth(b, o[i + 1]) = Nth(c, o[i + 1] - d)
    BY <1>5, <2>3
  <2> HIDE DEF restart, h
  <2>5. /\ h.payload \in BOOLEAN /\ Says(h, h.payload, Nth(b, o[i + 1]))
        /\ restart => o[i + 1] = 1 /\ h.payload /\ h.op \notin CommandOps
        /\ ~restart => o[i + 1] = o[i] + Bit(h.payload)
        /\ h.payload => f.payload = t.buffer[D + o[i + 1]].payload
    BY <2>1 DEF Carries, D, h
  <2>6. restart => d = 0
    BY <1>1 DEF restart
  <2>7. restart => o2[i] = 1 /\ h.payload /\ h.op \notin CommandOps
    BY <2>2, <2>3, <2>5, <2>6
  <2>8. ~restart => o2[i] = o2[i - 1] + Bit(h.payload)
    BY <1>2, <2>2, <2>3, <2>5 DEF Bit
  <2>9. D + o[i + 1] = (D + d) + o2[i]
    BY <1>2, <2>2, <2>3
  <2>10. h = Command(x[i])
    BY <2>2 DEF h
  <2>11. h.payload => x[i].payload = t.buffer[Got(t, c) + o2[i]].payload
    BY <2>2, <2>5, <2>9, <1>5
  <2>12. Says(h, h.payload, Nth(c, o2[i]))
    BY <2>2, <2>4, <2>5
  <2>13. QED
    BY <2>2, <2>5, <2>7, <2>8, <2>10, <2>11, <2>12 DEF Carries
<1>9. \A i, j \in 0..(L - 1) : i <= j /\ (j < m2 \/ m2 <= i) => o2[i] <= o2[j]
  <2>1. ASSUME NEW i \in 0..(L - 1), NEW j \in 0..(L - 1), i <= j, j < m2 \/ m2 <= i
        PROVE  o2[i] <= o2[j]
    <3>1. i + 1 \in 0..L /\ j + 1 \in 0..L /\ i + 1 <= j + 1
      BY <1>1, <2>1
    <3>2. j + 1 < m \/ m <= i + 1
      BY <1>7, <2>1
    <3>3. o[i + 1] <= o[j + 1]
      BY <1>3, <3>1, <3>2
    <3>4. o[i + 1] \in Nat /\ o[j + 1] \in Nat
      BY <1>2, <1>3, <3>1
    <3>5. QED
      BY <1>6, <3>3, <3>4
  <2>2. QED
    BY <2>1
<1>10. /\ m2 = (L - 1) + 1 => t.first_replay /\ k = n - d
       /\ m2 # (L - 1) + 1 => ~t.first_replay /\ o2[L - 1] = (n - d) - k
  <2>1. L - 1 \in 0..(L - 1) /\ (L - 1) + 1 = L
    BY <1>1
  <2>2. m = L + 1 => d = 0
    BY <1>1
  <2>3. o2[L - 1] = o[L] - d
    BY <1>6, <2>1
  <2>4. QED
    BY <1>2, <1>3, <1>7, <2>1, <2>2, <2>3
<1>11. Flits(t, c, x, o2, m2)
  <2>1. Len(x) = L - 1 /\ m2 \in 0..((L - 1) + 1)
    BY <1>1, <1>7
  <2>2. QED
    BY <1>5, <1>6, <1>8, <1>9, <1>10, <2>1 DEF Flits, k
<1>12. QED
  BY <1>5, <1>11 DEF D, n, x, o2, m2

\* The wait after an event of the receiver: it goes on, is begun or renewed with a
\* request, or ends with the replay it was for.
Waits(r, m, out) ==
  LET n == r.unexpected_count
      z == out.state
      b == r.last_sequence
  IN  /\ z.replay /\ ~out.request =>
           r.replay /\ z.last_sequence = b /\ z.unexpected_count = n + 1
      /\ out.request =>
           /\ z.replay /\ z.last_sequence = b /\ z.unexpected_count = 0
           /\ Restart(m) = 0
           /\ r.replay => n + 1 = ReplayLimit
      /\ ~z.replay => ~r.replay \/ m # 0

\* d says whether the event delivers: the next payload and no other.
Moves(t, r, w, o, m, out, d) ==
  /\ d = 1 => m <= 1 /\ o[1] = 1
              /\ w[1].payload = t.buffer[Got(t, r.last_sequence) + 1].payload
  /\ out.state.last_sequence = Nth(r.last_sequence, d)
  /\ Tracks(out.state, Remaining(w, o, d), Restart(m))
  /\ Waits(r, m, out)

\* The receiver moves on by one exactly when it delivers the next payload.
LEMMA ReceiverReceives ==
  ASSUME Configured, NEW t, NEW r, NEW w \in Seq(Flit), NEW o, NEW m,
         Behind(t, r.last_sequence), Flits(t, r.last_sequence, w, o, m),
         Tracks(r, o, m), w # << >>,
         NEW crc_ok \in BOOLEAN, NEW out,
         out = RxReceive(r, Command(w[1]), crc_ok) \/ out = RxDiscard(r)
  PROVE  Bit(out.deliver) \in 0..1 /\ Moves(t, r, w, o, m, out, Bit(out.deliver))
<1> DEFINE b == r.last_sequence
<1> DEFINE n == r.unexpected_count
           h == Command(w[1])
           z == out.state
           j == o[1]
<1>1. /\ h.payload \in BOOLEAN /\ Says(h, h.payload, Nth(b, j))
      /\ Trackable(r, h.payload, j)
      /\ o[0] \in 0..Window /\ j \in 0..Window /\ Window \in Nat
      /\ m = 1 => j = 1 /\ h.payload /\ h.op \notin CommandOps
      /\ m # 1 => j = o[0] + Bit(h.payload)
      /\ h.payload => w[1].payload = t.buffer[Got(t, b) + j].payload
  <2>1. h = Command(w[1])
    OBVIOUS
  <2> HIDE DEF h
  <2>2. Leads(t, r, w, o, m, h)
    BY <2>1, FirstFlit
  <2>3. /\ h.payload \in BOOLEAN /\ Says(h, h.payload, Nth(b, j))
        /\ Trackable(r, h.payload, j)
        /\ o[0] \in 0..Window /\ j \in 0..Missing(t, b)
        /\ m = 1 => j = 1 /\ h.payload /\ h.op \notin CommandOps
        /\ m # 1 => j = o[0] + Bit(h.payload)
        /\ h.payload => w[1].payload = t.buffer[Got(t, b) + j].payload
    BY <2>2 DEF Leads
  <2>4. Missing(t, b) \in 0..Window /\ Window \in Nat
    BY BehindParts, WindowIsHalf
  <2> HIDE DEF j
  <2>5. QED
    BY <2>3, <2>4
<1>2. /\ z \in RxStates
      /\ \/ Waiting(r, out) \/ Missed(r, j, out) \/ Passed(r, out)
         \/ Taken(r, h.payload, j, out) /\ (r.replay => h.op \notin CommandOps)
  <2>1. CASE out = RxReceive(r, h, crc_ok)
    BY <1>1, <2>1, ReceiveOutcome DEF Tracks
  <2>2. CASE out = RxDiscard(r)
    BY <2>2, DiscardOutcome DEF Tracks
  <2>3. QED
    BY <2>1, <2>2
<1>3. /\ r.replay \in BOOLEAN /\ n \in 0..UnexpectedMax /\ r.bad_crc_count \in Nat
      /\ r.ambiguous \in BOOLEAN /\ z.replay \in BOOLEAN /\ z.ambiguous \in BOOLEAN
      /\ z.unexpected_count \in Nat /\ z.bad_crc_count \in Nat
      /\ UnexpectedMax \in Nat /\ ReplayLimit \in 0..UnexpectedMax /\ ReplayLimit >= 1
  <2>1. ReplayLimit >= 1
    BY BoundsAssumption, ScheduleAssumption, ReplayLimitAssumption DEF Configured, Span
  <2>2. r \in RxStates
    BY DEF Tracks
  <2>3. QED
    BY <1>2, <2>1, <2>2, ReplayLimitAssumption DEF RxStates
<1>4. /\ r.replay => o[0] >= 1 /\ n < ReplayLimit
      /\ ~r.replay => m = 0
      /\ ~r.replay /\ ~r.ambiguous => o[0] <= r.bad_crc_count /\ r.bad_crc_count < BadLimit
      /\ m # 0 => n + m <= ReplayLimit
      /\ m \in Nat
  BY DEF Tracks, Flits
<1>5. 1 \in 1..Len(w) /\ 0 \in 0..Len(Tail(w)) /\ 0 + 1 = 1
  <2>1. Len(w) # 0 /\ Len(w) \in Nat
    BY EmptySeq
  <2>2. Tail(w) \in Seq(Flit)
    BY HeadTailProperties
  <2>3. QED
    BY <2>1, <2>2, LenProperties
<1>6. b = Nth(b, 0) /\ b \in SequenceNumbers
  <2>1. b \in SequenceNumbers
    BY BehindParts
  <2>2. QED
    BY <2>1, SeqMaxAssumption DEF Nth, SequenceNumbers
<1>7. \A d \in 0..1 : Remaining(w, o, d)[0] = j - d
  BY <1>5 DEF Remaining
<1> DEFINE Goal(d) == Moves(t, r, w, o, m, out, d)
<1> HIDE DEF h
<1>8. Bit(out.deliver) \in 0..1
  BY DEF Bit
<1>9. CASE Taken(r, h.payload, j, out) /\ (r.replay => h.op \notin CommandOps)
  <2> DEFINE d == Bit(h.payload)
  <2>1. /\ z = [RxReset EXCEPT !.last_sequence = Nth(b, j)]
        /\ j = d /\ out.deliver = h.payload /\ ~out.request
    BY <1>9 DEF Taken
  <2>2. /\ z.last_sequence = Nth(b, d) /\ ~z.replay /\ z.unexpected_count = 0
        /\ z.bad_crc_count = 0 /\ ~z.ambiguous
    BY <2>1 DEF RxReset
  <2>3. m <= 1 /\ Restart(m) = 0 /\ d \in 0..1 /\ (~r.replay \/ m # 0)
    BY <1>1, <1>3, <1>4, <2>1 DEF Bit, Restart
  <2>4. d = 1 => h.payload
    BY DEF Bit
  <2>5. Remaining(w, o, d)[0] = 0
    BY <1>1, <1>7, <2>1, <2>3
  <2>6. 0 < BadLimit
    BY BadLimitAssumption
  <2>7. Tracks(z, Remaining(w, o, d), Restart(m))
    BY <1>2, <2>2, <2>3, <2>5, <2>6 DEF Tracks
  <2>8. Goal(d)
    BY <1>1, <2>1, <2>2, <2>3, <2>4, <2>7 DEF Moves, Waits
  <2>9. Bit(out.deliver) = d
    BY <2>1
  <2> HIDE DEF d, Goal
  <2>10. QED
    BY <1>8, <2>8, <2>9 DEF Goal
<1>10. CASE Waiting(r, out)
  <2>1. /\ r.replay /\ z.replay /\ z.last_sequence = b /\ ~out.deliver
        /\ out.request = (Min2(UnexpectedMax, n + 1) >= ReplayLimit)
        /\ z.unexpected_count = IF out.request THEN 0 ELSE Min2(UnexpectedMax, n + 1)
    BY <1>10 DEF Waiting
  <2>2. /\ ~out.request => z.unexpected_count = n + 1 /\ n + 1 < ReplayLimit
        /\ out.request => z.unexpected_count = 0 /\ n + 1 = ReplayLimit
    <3>1. Min2(UnexpectedMax, n + 1) = n + 1 /\ n + 1 <= ReplayLimit
      BY <1>3, <1>4, <2>1 DEF Min2
    <3>2. out.request = (n + 1 >= ReplayLimit)
      BY <2>1, <3>1
    <3>3. CASE n + 1 = ReplayLimit
      <4>1. n + 1 >= ReplayLimit
        BY <1>3, <3>3
      <4>2. out.request
        BY <3>2, <4>1, Zenon
      <4>3. QED
        BY <2>1, <3>3, <4>2
    <3>4. CASE n + 1 < ReplayLimit
      <4>1. ~(n + 1 >= ReplayLimit)
        BY <1>3, <3>4
      <4>2. ~out.request
        BY <3>2, <4>1, Zenon
      <4>3. QED
        BY <2>1, <3>1, <3>4, <4>2
    <3>5. QED
      BY <1>3, <3>1, <3>3, <3>4
  <2>3. Remaining(w, o, 0)[0] >= 1
    BY <1>1, <1>4, <1>7, <2>1 DEF Bit
  <2>4. Restart(m) # 0 => z.unexpected_count + Restart(m) <= ReplayLimit
    BY <1>3, <1>4, <2>2 DEF Restart
  <2>5. out.request => Restart(m) = 0
    BY <1>3, <1>4, <2>2 DEF Restart
  <2>6. z.unexpected_count < ReplayLimit
    BY <1>3, <2>2
  <2>7. Tracks(z, Remaining(w, o, 0), Restart(m))
    BY <1>2, <2>1, <2>3, <2>4, <2>6 DEF Tracks
  <2>8. Goal(0)
    BY <1>6, <2>1, <2>2, <2>5, <2>7 DEF Moves, Waits
  <2>9. Bit(out.deliver) = 0
    BY <2>1 DEF Bit
  <2>10. QED
    BY <2>8, <2>9
<1>11. CASE Missed(r, j, out)
  <2>1. /\ ~r.replay /\ z.replay /\ z.last_sequence = b /\ ~out.deliver /\ out.request
        /\ z.unexpected_count = 0 /\ j >= 1
    BY <1>11 DEF Missed
  <2>2. Restart(m) = 0 /\ Remaining(w, o, 0)[0] >= 1
    BY <1>1, <1>4, <1>7, <2>1 DEF Restart
  <2>3. Tracks(z, Remaining(w, o, 0), Restart(m))
    BY <1>2, <1>3, <2>1, <2>2 DEF Tracks
  <2>4. Goal(0)
    BY <1>6, <2>1, <2>2, <2>3 DEF Moves, Waits
  <2>5. Bit(out.deliver) = 0
    BY <2>1 DEF Bit
  <2>6. QED
    BY <2>4, <2>5
<1>12. CASE Passed(r, out)
  <2>1. /\ ~r.replay /\ ~z.replay /\ z.last_sequence = b /\ ~out.deliver /\ ~out.request
        /\ ~z.ambiguous => ~r.ambiguous /\ z.bad_crc_count = r.bad_crc_count + 1
                            /\ z.bad_crc_count < BadLimit
    BY <1>12 DEF Passed
  <2>2. Restart(m) = 0 /\ Remaining(w, o, 0)[0] <= o[0] + 1
    BY <1>1, <1>4, <1>7, <2>1 DEF Restart, Bit
  <2>3. ~z.ambiguous => Remaining(w, o, 0)[0] <= z.bad_crc_count
    BY <1>1, <1>3, <1>4, <1>7, <2>1, <2>2
  <2>4. Tracks(z, Remaining(w, o, 0), Restart(m))
    BY <1>2, <2>1, <2>2, <2>3 DEF Tracks
  <2>5. Goal(0)
    BY <1>6, <2>1, <2>2, <2>4 DEF Moves, Waits
  <2>6. Bit(out.deliver) = 0
    BY <2>1 DEF Bit
  <2>7. QED
    BY <2>5, <2>6
<1>13. QED
  BY <1>2, <1>8, <1>9, <1>10, <1>11, <1>12

\* Between one and all Flits of the copies go out for them, and two more at most.
LEMMA LeftBounds ==
  ASSUME Configured, NEW s, NEW g, Schedules(s, g), s.replay_requests # 0,
         NEW u, NEW turn
  PROVE  /\ Span \in Nat /\ InGroups(s, g) \in 1..Span
         /\ ForPeriod(s, g) \in 0..1 /\ ForReplay(s, g, u, turn) \in 0..1
         /\ Left(s, g, u, turn) \in 1..(Span + 2)
<1> DEFINE k == s.replay_requests
           K == RequestCopies
           G == GroupSpan
           x == IF s.request_in_group THEN G - g ELSE 0
<1>1. k \in 1..K /\ K \in Nat /\ G \in Nat /\ G >= 1 /\ g \in 0..G
      /\ (s.request_in_group => g >= 1)
  BY ScheduleAssumption DEF Schedules, ScheduleStates
<1>2. x \in 0..(G - 1)
  BY <1>1
<1>3. InGroups(s, g) = x + (k - 1) * G + 1
  BY DEF InGroups
<1>4. Span = K * G
  BY DEF Span
<1> HIDE DEF k, K, G, x
<1>5. K * G \in Nat /\ (k - 1) * G \in Nat /\ (K - k) * G \in Nat
  BY <1>1
<1>6. (K - k) * G = K * G - (k - 1) * G - G
  BY <1>1
<1>7. InGroups(s, g) \in 1..Span /\ Span \in Nat
  BY <1>1, <1>2, <1>3, <1>4, <1>5, <1>6
<1>8. ForPeriod(s, g) \in 0..1 /\ ForReplay(s, g, u, turn) \in 0..1
  BY DEF ForPeriod, ForReplay
<1>9. Left(s, g, u, turn) \in 1..(Span + 2)
  BY <1>7, <1>8 DEF Left
<1>10. QED
  BY <1>7, <1>8, <1>9

\* One event that a transmitter ages by: it may start a replay once the window of
\* the last one has run out.
Aged(u, z) ==
  \/ z.first_replay = u.first_replay
     /\ z.ignore_count = IF u.ignore_count > 0 THEN u.ignore_count - 1 ELSE 0
  \/ u.ignore_count <= 1 /\ z.first_replay /\ z.ignore_count = IgnoreWindow

\* What the transmitter beside the receiver makes of the event leaves no more
\* Flits until the last copy.
LEMMA ReceivingKeepsLeft ==
  ASSUME Configured, NEW s, NEW g, Schedules(s, g), s.replay_requests # 0,
         NEW u, NEW z, u.ignore_count \in Nat, JustStarted(u, 1), Aged(u, z)
  PROVE  Left(s, g, z, 0) <= Left(s, g, u, 1)
<1> DEFINE I == InGroups(s, g)
           P == ForPeriod(s, g)
<1>1. I \in 1..Span /\ Span \in Nat /\ P \in 0..1
  BY LeftBounds
<1>2. ~u.first_replay
  BY DEF JustStarted
<1>3. Left(s, g, u, 1) = I + P + ForReplay(s, g, u, 1)
  BY <1>2 DEF Left
<1>4. Left(s, g, z, 0) = IF z.first_replay THEN I + 1 ELSE I + P + ForReplay(s, g, z, 0)
  BY DEF Left
<1>5. /\ ForReplay(s, g, u, 1) = IF u.ignore_count - 1 >= I + P THEN 0 ELSE 1
      /\ ForReplay(s, g, z, 0) = IF z.ignore_count - 0 >= I + P THEN 0 ELSE 1
  BY DEF ForReplay
<1> HIDE DEF I, P
<1>6. CASE z.first_replay /\ u.ignore_count <= 1
  <2>1. ForReplay(s, g, u, 1) = 1
    BY <1>1, <1>5, <1>6
  <2>2. QED
    BY <1>1, <1>3, <1>4, <1>6, <2>1
<1>7. CASE ~z.first_replay /\ z.ignore_count = IF u.ignore_count > 0 THEN u.ignore_count - 1 ELSE 0
  <2>1. ForReplay(s, g, z, 0) <= ForReplay(s, g, u, 1)
    BY <1>1, <1>5, <1>7
  <2>2. QED
    BY <1>1, <1>3, <1>4, <1>5, <1>7, <2>1
<1>8. QED
  BY <1>2, <1>6, <1>7 DEF Aged

\* Of the requests under way, those heard are about the wait that goes on; a new
\* one is to be sent as soon as the receiver wants it.
LEMMA ReceiverAsks ==
  ASSUME Configured, NEW t, t.ignore_count \in Nat, NEW r, r \in RxStates, NEW m, NEW out, out.state \in RxStates,
         Waits(r, m, out),
         NEW s, NEW g, Schedules(s, g), NEW v \in Seq(Flit), Len(v) <= Latency,
         NEW u, NEW z, u.ignore_count \in Nat, JustStarted(u, 1), Aged(u, z),
         Requests(t, r, m, s, g, u, v, 1)
  PROVE  /\ Requests(t, out.state, Restart(m), Asked(s, out), g, z, v, 0)
         /\ Schedules(Asked(s, out), g) /\ JustStarted(z, 0)
<1> DEFINE x == out.state
           s2 == Asked(s, out)
           n == r.unexpected_count
           L == Len(v)
<1>1. L \in Nat /\ Latency \in Nat \ {0} /\ Span \in Nat /\ RequestCopies \in Nat \ {0}
      /\ ReplayLimit >= 2 * Latency + Span + 1 /\ ReplayLimit \in Nat /\ n \in Nat
  <2>1. Span \in Nat
    BY ScheduleAssumption DEF Span
  <2>2. QED
    BY <2>1, BoundsAssumption, ScheduleAssumption, ReplayLimitAssumption
       DEF Configured, RxStates
<1>2. /\ s2.request_sequence = s.request_sequence /\ s2.request_in_group = s.request_in_group
      /\ s2.explicit_count = s.explicit_count /\ s2 \in ScheduleStates
      /\ s2.replay_requests = IF out.request THEN RequestCopies ELSE s.replay_requests
  <2> DEFINE k == IF out.request THEN RequestCopies ELSE s.replay_requests
  <2>1. s \in ScheduleStates /\ k \in 0..RequestCopies
    BY <1>1 DEF Schedules, ScheduleStates
  <2>2. s2 = [s EXCEPT !.replay_requests = k]
    BY DEF Asked
  <2> HIDE DEF k, s2
  <2>3. /\ s2.request_sequence = s.request_sequence
        /\ s2.request_in_group = s.request_in_group
        /\ s2.explicit_count = s.explicit_count /\ s2 \in ScheduleStates
        /\ s2.replay_requests = k
    BY <2>1, <2>2 DEF ScheduleStates
  <2>4. QED
    BY <2>3 DEF k
<1> HIDE DEF L, s2
<1>3. Schedules(s2, g)
  BY <1>2 DEF Schedules
<1>4. JustStarted(z, 0)
  <2>1. ~u.first_replay
    BY DEF JustStarted
  <2>2. z.first_replay => z.ignore_count = IgnoreWindow
    BY <2>1, Zenon DEF Aged
  <2>3. QED
    BY <2>2 DEF JustStarted
<1>5. ASSUME NEW i \in 1..L, Command(v[i]).op = OpRequest
      PROVE  Asks(t, x, Restart(m), v, i, 0)
  <2>1. Asks(t, r, m, v, i, 1)
    BY <1>5 DEF Requests, L
  <2>2. ASSUME r.replay, m = 0, Command(v[i]).ack_request = Successor(r.last_sequence),
               L < i + n + 1, i + n + 1 <= L + Span + 2
        PROVE  Asks(t, x, Restart(m), v, i, 0)
    <3>1. x.replay
      BY <2>2 DEF Waits
    <3>2. ~out.request
      BY <1>1, <2>2 DEF Waits, L
    <3>3. x.last_sequence = r.last_sequence /\ x.unexpected_count = n + 1
      BY <3>1, <3>2 DEF Waits
    <3>4. L < i + (n + 1) + 0 /\ i + (n + 1) + 0 <= L + Span + 2
      BY <1>1, <2>2
    <3>5. Restart(m) = 0
      BY <2>2 DEF Restart
    <3>6. InWait(x, v, i, 0)
      BY <3>3, <3>4 DEF InWait, L
    <3>7. QED
      BY <2>2, <3>1, <3>3, <3>5, <3>6 DEF Asks
  <2>3. QED
    BY <2>1, <2>2 DEF Asks, InWait, L
<1>6. ASSUME s2.replay_requests > 0
      PROVE  WillAsk(t, x, Restart(m), s2, g, z, v, 0)
  <2>1. CASE out.request
    <3>1. x.replay /\ Restart(m) = 0 /\ x.unexpected_count = 0
      BY <2>1 DEF Waits
    <3>2. s2.replay_requests = RequestCopies /\ s2.replay_requests # 0
      BY <1>1, <1>2, <2>1
    <3>3. Left(s2, g, z, 0) \in 1..(Span + 2)
      BY <1>3, <3>2, LeftBounds
    <3>4. 0 + 0 + Left(s2, g, z, 0) <= Span + 2
      BY <1>1, <3>3
    <3>5. QED
      BY <3>1, <3>2, <3>4 DEF WillAsk
  <2>2. CASE ~out.request
    <3>1. s.replay_requests > 0 /\ s2.replay_requests = s.replay_requests
      BY <1>2, <1>6, <2>2
    <3>2. /\ Left(s2, g, z, 0) = Left(s, g, z, 0)
          /\ Left(s, g, z, 0) \in 1..(Span + 2) /\ Left(s, g, u, 1) \in 1..(Span + 2)
          /\ Left(s, g, z, 0) <= Left(s, g, u, 1)
      <4>1. s.replay_requests # 0
        BY <3>1
      <4>2. Left(s2, g, z, 0) = Left(s, g, z, 0)
        BY <1>2, <3>1 DEF Left, InGroups, ForPeriod, ForReplay
      <4>3. QED
        BY <4>1, <4>2, LeftBounds, ReceivingKeepsLeft
    <3> DEFINE new == Left(s, g, z, 0)
               old == Left(s, g, u, 1)
    <3>3. WillAsk(t, r, m, s, g, u, v, 1)
      BY <3>1 DEF Requests
    <3>4. /\ new \in Nat /\ old \in Nat /\ new <= old
      BY <1>1, <3>2
    <3>5. CASE L + old < t.ignore_count
      <4>1. L + new < t.ignore_count
        BY <1>1, <3>4, <3>5
      <4>2. QED
        BY <3>2, <4>1 DEF WillAsk, L
    <3>6. CASE /\ r.replay /\ m = 0
               /\ s.replay_requests = RequestCopies
                  \/ s.request_sequence = Successor(r.last_sequence)
               /\ n + 1 + old <= Span + 2
      <4>1. x.replay
        BY <3>6 DEF Waits
      <4>2. x.last_sequence = r.last_sequence /\ x.unexpected_count = n + 1
        BY <2>2, <4>1 DEF Waits
      <4>3. Restart(m) = 0
        BY <3>6 DEF Restart
      <4>4. (n + 1) + 0 + new <= Span + 2
        BY <1>1, <3>4, <3>6
      <4>5. s2.replay_requests = RequestCopies
            \/ s2.request_sequence = Successor(x.last_sequence)
        BY <1>2, <3>1, <3>6, <4>2
      <4>6. QED
        BY <3>2, <4>1, <4>2, <4>3, <4>4, <4>5 DEF WillAsk
    <3>7. QED
      BY <3>3, <3>5, <3>6 DEF WillAsk, L
  <2>3. QED
    BY <2>1, <2>2
<1>7. QED
  BY <1>3, <1>4, <1>5, <1>6 DEF Requests, s2, L
-------------------------------------------------------------------------------
(* A Flit arrives at the transmitter.                                          *)

\* What depends only on buffer, schedule and acknowledged number.
Same(t, z) ==
  /\ z.buffer = t.buffer /\ z.last_ack = t.last_ack /\ z.scheduled = t.scheduled
  /\ z.first_replay = t.first_replay

\* Any Flit brings the requests behind it one nearer, ignored or not.
LEMMA SenderAges ==
  ASSUME NEW t, NEW r, r \in RxStates, NEW w, NEW v \in Seq(Flit), NEW s, NEW g, NEW u,
         NEW turn \in 0..1, NEW o, NEW m, Placed(t, r, w, v, s, g, u, turn, o, m), v # << >>,
         Left(s, g, u, turn) \in Nat
  PROVE  Same(t, AgeIgnore(t)) /\ Placed(AgeIgnore(t), r, w, Tail(v), s, g, u, turn, o, m)
<1> DEFINE a == AgeIgnore(t)
           b == r.last_sequence
           L == Len(v)
           x == Tail(v)
           n == r.unexpected_count
           k == Left(s, g, u, turn)
<1>1. L \in Nat /\ L >= 1 /\ x \in Seq(Flit) /\ Len(x) = L - 1
      /\ \A i \in 1..(L - 1) : x[i] = v[i + 1]
  BY EmptySeq, HeadTailProperties
<1>2. /\ Good(t) /\ t.ignore_count \in Nat /\ n \in Nat /\ Span \in Nat /\ k \in Nat
  <2>1. Good(t) /\ IgnoreWindow \in Nat
    BY IgnoreWindowAssumption DEF Placed, Behind
  <2>2. n \in Nat /\ Span \in Nat
    BY ScheduleAssumption, ReplayLimitAssumption DEF RxStates, Span
  <2>3. QED
    BY <2>1, <2>2, GoodParts
<1>3. /\ Good(a) /\ Same(t, a)
      /\ a.ignore_count = IF t.ignore_count > 0 THEN t.ignore_count - 1 ELSE 0
  BY <1>2, AgeKeeps DEF Same
<1>4. Got(a, b) = Got(t, b) /\ Missing(a, b) = Missing(t, b)
  BY <1>3 DEF Got, Missing, Same
<1> HIDE DEF a, x, L, n, k
<1>5. Behind(a, b) /\ Flits(a, b, w, o, m) /\ Tracks(r, o, m)
  <2>1. Behind(a, b)
    BY <1>3, <1>4 DEF Placed, Behind, Same
  <2>2. Flits(a, b, w, o, m)
    BY <1>3, <1>4 DEF Placed, Flits, Carries, Same
  <2>3. QED
    BY <2>1, <2>2 DEF Placed
<1>6. Acks(a, b, x)
  <2>1. Acks(t, b, v)
    BY DEF Placed
  <2>2. ASSUME NEW i \in 1..(L - 1)
        PROVE  Acknowledges(a, x[i], Got(a, b))
    <3>1. i + 1 \in 1..L /\ x[i] = v[i + 1]
      BY <1>1
    <3>2. Acknowledges(t, v[i + 1], Got(t, b))
      BY <2>1, <3>1 DEF Acks, L
    <3>3. QED
      BY <1>3, <1>4, <3>1, <3>2 DEF Acknowledges, Same
  <2>3. ASSUME NEW i \in 1..(L - 1), NEW j \in 1..(L - 1), i <= j, Command(x[j]).op = OpAck
        PROVE  Acknowledges(a, x[i], Distance(a.last_ack, Command(x[j]).ack_request))
    <3>1. /\ i + 1 \in 1..L /\ j + 1 \in 1..L /\ i + 1 <= j + 1
          /\ x[i] = v[i + 1] /\ x[j] = v[j + 1]
      BY <1>1, <2>3
    <3>2. Acknowledges(t, v[i + 1], Distance(t.last_ack, Command(v[j + 1]).ack_request))
      BY <2>1, <2>3, <3>1 DEF Acks, L
    <3>3. QED
      BY <1>3, <3>1, <3>2 DEF Acknowledges, Same
  <2>4. QED
    BY <1>1, <2>2, <2>3 DEF Acks
<1>7. ASSUME NEW i \in 1..(L - 1), Command(x[i]).op = OpRequest
      PROVE  Asks(a, r, m, x, i, turn)
  <2>1. i + 1 \in 1..L /\ x[i] = v[i + 1]
    BY <1>1
  <2>2. Asks(t, r, m, v, i + 1, turn)
    BY <1>7, <2>1 DEF Placed, Requests, L
  <2>3. CASE i + 1 < t.ignore_count
    <3>1. i < a.ignore_count
      BY <1>1, <1>2, <1>3, <2>3
    <3>2. QED
      BY <3>1 DEF Asks
  <2>4. CASE /\ r.replay /\ m = 0
             /\ Command(v[i + 1]).ack_request = Successor(b)
             /\ InWait(r, v, i + 1, turn)
    <3>1. L < (i + 1) + n + turn /\ (i + 1) + n + turn <= L + Span + 2
      BY <2>4 DEF InWait, L, n
    <3>2. L - 1 < i + n + turn /\ i + n + turn <= (L - 1) + Span + 2
      BY <1>1, <1>2, <3>1
    <3>3. InWait(r, x, i, turn)
      BY <1>1, <3>2 DEF InWait, n
    <3>4. QED
      BY <2>1, <2>4, <3>3 DEF Asks
  <2>5. QED
    BY <2>2, <2>3, <2>4 DEF Asks
<1>8. ASSUME s.replay_requests > 0
      PROVE  WillAsk(a, r, m, s, g, u, x, turn)
  <2>1. WillAsk(t, r, m, s, g, u, v, turn)
    BY <1>8 DEF Placed, Requests
  <2>2. CASE L + k < t.ignore_count
    <3>1. (L - 1) + k < a.ignore_count
      BY <1>1, <1>2, <1>3, <2>2
    <3>2. QED
      BY <1>1, <3>1 DEF WillAsk, k
  <2>3. CASE ~(L + k < t.ignore_count)
    BY <2>1, <2>3 DEF WillAsk, L, k
  <2>4. QED
    BY <2>2, <2>3
<1>9. Requests(a, r, m, s, g, u, x, turn)
  BY <1>1, <1>7, <1>8 DEF Requests
<1>10. QED
  BY <1>3, <1>5, <1>6, <1>9 DEF Placed, a, x

\* The undelivered payloads of z are those of t.
Undisturbed(t, z, b) ==
  /\ Missing(z, b) = Missing(t, b)
  /\ \A i \in 1..Missing(t, b) : z.buffer[Got(z, b) + i] = t.buffer[Got(t, b) + i]

\* From a number of the window on, the numbers behind it are nearer by as much.
LEMMA NearerBy ==
  ASSUME NEW a \in SequenceNumbers, NEW c \in SequenceNumbers, NEW k \in 0..Window,
         Distance(a, c) <= Window, k <= Distance(a, c)
  PROVE  Distance(Nth(a, k), c) = Distance(a, c) - k
<1> DEFINE d == Distance(a, c)
<1>1. d \in 0..(SeqMax - 1) /\ c = Nth(a, d)
  BY NthOfDistance
<1>2. Window \in Nat /\ k \in 0..SeqMax
  BY WindowIsHalf
<1> HIDE DEF d
<1>3. d - k \in 0..Window /\ k + (d - k) = d /\ d <= Window
  BY <1>1, <1>2, SeqMaxAssumption DEF d
<1>4. Nth(Nth(a, k), d - k) = Nth(a, d)
  <2> DEFINE e == d - k
  <2>1. e \in 0..Window /\ k + e <= Window /\ k + e = d
    BY <1>3
  <2> HIDE DEF e
  <2>2. Nth(Nth(a, k), e) = Nth(a, k + e)
    BY <2>1, NthOfNth
  <2>3. QED
    BY <2>1, <2>2 DEF e
<1>5. Nth(a, k) \in SequenceNumbers
  BY <1>2, NthInRing
<1>6. QED
  BY <1>1, <1>3, <1>4, <1>5, DistanceToNth DEF d

\* An acknowledgement of what was delivered leaves what was not.
LEMMA SenderReleases ==
  ASSUME NEW t, NEW r, NEW w, NEW v, NEW s, NEW g, NEW u, NEW turn, NEW o, NEW m,
         Placed(t, r, w, v, s, g, u, turn, o, m),
         NEW k \in 0..Len(t.buffer), k <= Got(t, r.last_sequence),
         NEW z, z = Release(t, Nth(t.last_ack, k)),
         \A j \in 1..Len(v) : Command(v[j]).op = OpAck =>
           k <= Distance(t.last_ack, Command(v[j]).ack_request)
  PROVE  /\ Placed(z, r, w, v, s, g, u, turn, o, m)
         /\ Undisturbed(t, z, r.last_sequence)
<1> DEFINE b == r.last_sequence
           N == Len(t.buffer)
           D == Got(t, b)
           n == Missing(t, b)
           c == Len(t.scheduled)
<1>1. /\ Good(t) /\ b \in SequenceNumbers /\ t.last_ack \in SequenceNumbers
      /\ t.buffer \in Seq(Entries)
      /\ D \in 0..Window /\ n \in 0..Window /\ N \in 0..Window /\ N = D + n /\ c \in 0..n
      /\ Window \in Nat
      /\ \A i \in 1..c : t.scheduled[i] = t.buffer[N - c + i]
  <2>1. Behind(t, b)
    BY DEF Placed
  <2>2. Window \in Nat /\ Good(t)
    BY <2>1, WindowIsHalf DEF Behind
  <2>3. QED
    BY <2>1, <2>2, BehindParts, GoodParts DEF Behind
<1>2. /\ Good(z) /\ z.buffer = SubSeq(t.buffer, k + 1, N) /\ z.last_ack = Nth(t.last_ack, k)
      /\ z.first_replay = t.first_replay /\ z.ignore_count = t.ignore_count
      /\ z.scheduled = t.scheduled
  BY <1>1, ReleaseKeeps
<1>3. Len(z.buffer) = N - k /\ \A i \in 1..(N - k) : z.buffer[i] = t.buffer[k + i]
  <2> DEFINE rest == SubSeq(t.buffer, k + 1, N)
  <2>1. t.buffer \in Seq(Entries) /\ N \in Nat /\ k \in 0..N
    BY <1>1
  <2>2. Len(rest) = N - k /\ \A i \in 1..(N - k) : rest[i] = t.buffer[k + i]
    BY <2>1, SMTT(30)
  <2>3. QED
    BY <1>2, <2>2
<1>4. k \in 0..D
  OBVIOUS
<1> HIDE DEF N, n
<1>5. Got(z, b) = D - k
  <2>1. k \in 0..Window /\ Distance(t.last_ack, b) = D
    BY <1>1, <1>4 DEF Got
  <2>2. Distance(Nth(t.last_ack, k), b) = D - k
    BY <1>1, <1>4, <2>1, NearerBy
  <2>3. QED
    BY <1>2, <2>2 DEF Got
<1> HIDE DEF D
<1>6. Missing(z, b) = n
  BY <1>1, <1>3, <1>4, <1>5 DEF Missing
<1>7. \A i \in 1..n : z.buffer[(D - k) + i] = t.buffer[D + i]
  <2>1. ASSUME NEW i \in 1..n
        PROVE  z.buffer[(D - k) + i] = t.buffer[D + i]
    <3>1. (D - k) + i \in 1..(N - k) /\ k + ((D - k) + i) = D + i
      BY <1>1, <1>4
    <3>2. QED
      BY <1>3, <3>1
  <2>2. QED
    BY <2>1
<1>8. Undisturbed(t, z, b)
  BY <1>5, <1>6, <1>7 DEF Undisturbed, D, n
<1> HIDE DEF c
<1>9. Behind(z, b)
  <2>1. ASSUME NEW i \in 1..c
        PROVE  z.scheduled[i] = z.buffer[(N - k) - c + i]
    <3> DEFINE j == (N - k) - c + i
    <3>1. /\ N \in Int /\ k \in Int /\ c \in Int /\ i \in Int
          /\ k + c <= N /\ 1 <= i /\ i <= c
      BY <1>1, <1>4
    <3>2. j \in Int /\ 1 <= j /\ j <= N - k /\ k + j = N - c + i
      BY <3>1
    <3>3. j \in 1..(N - k)
      BY <3>1, <3>2
    <3> HIDE DEF j
    <3>4. z.buffer[j] = t.buffer[N - c + i] /\ t.scheduled[i] = t.buffer[N - c + i]
      BY <1>1, <1>3, <3>2, <3>3
    <3>5. z.scheduled[i] = z.buffer[j]
      BY <1>2, <3>4
    <3>6. QED
      BY <3>5 DEF j
  <2>2. D - k <= N - k
    BY <1>1, <1>4
  <2>3. Len(z.scheduled) = c /\ c <= n
    BY <1>1, <1>2 DEF c
  <2>4. QED
    BY <1>1, <1>2, <1>3, <1>5, <1>6, <2>1, <2>2, <2>3, ZenonT(40) DEF Behind
<1>10. Flits(z, b, w, o, m)
  <2>1. Flits(t, b, w, o, m)
    BY DEF Placed
  <2>2. ASSUME NEW i \in 1..Len(w)
        PROVE  Carries(z, b, w[i], o[i - 1], o[i], i = m)
    <3> DEFINE restart == i = m
               h == Command(w[i])
    <3>1. Carries(t, b, w[i], o[i - 1], o[i], restart)
      BY <2>1 DEF Flits
    <3>2. o[i - 1] \in 0..n /\ o[i] \in 0..n
      <4>1. i - 1 \in 0..Len(w) /\ i \in 0..Len(w)
        OBVIOUS
      <4>2. QED
        BY <2>1, <4>1 DEF Flits, n
    <3> HIDE DEF restart
    <3>3. h.payload => o[i] \in 1..n
      BY <1>1, <3>1, <3>2 DEF Carries, Bit
    <3>4. h.payload => w[i].payload = z.buffer[Got(z, b) + o[i]].payload
      BY <1>5, <1>7, <3>1, <3>3 DEF Carries, D
    <3>5. Carries(z, b, w[i], o[i - 1], o[i], restart)
      BY <3>1, <3>4 DEF Carries
    <3>6. QED
      BY <3>5 DEF restart
  <2>3. QED
    BY <1>2, <1>6, <2>1, <2>2 DEF Flits, n
<1>11. Acks(z, b, v)
  <2>1. Acks(t, b, v)
    BY DEF Placed
  <2> DEFINE ack(i) == Command(v[i]).op = OpAck
             A(i) == Distance(t.last_ack, Command(v[i]).ack_request)
             B(i) == Distance(z.last_ack, Command(v[i]).ack_request)
  <2>2. ASSUME NEW i \in 1..Len(v), ack(i)
        PROVE  /\ Command(v[i]).ack_request \in SequenceNumbers
               /\ A(i) \in k..D /\ B(i) = A(i) - k
    <3> DEFINE y == Command(v[i]).ack_request
    <3>1. y \in SequenceNumbers /\ A(i) <= D /\ k <= A(i)
      BY <2>1, <2>2 DEF Acks, Acknowledges, D
    <3>2. A(i) \in Nat /\ A(i) <= Window
      BY <1>1, <3>1, NthOfDistance
    <3>3. k \in 0..Window
      BY <1>1, <1>4
    <3>4. B(i) = A(i) - k
      BY <1>1, <1>2, <3>1, <3>2, <3>3, NearerBy
    <3> HIDE DEF y, A, B
    <3>5. A(i) \in k..D
      BY <1>1, <1>4, <3>1, <3>2
    <3>6. QED
      BY <3>1, <3>4, <3>5 DEF y, A, B
  <2>3. ASSUME NEW i \in 1..Len(v)
        PROVE  Acknowledges(z, v[i], D - k)
    <3>1. ASSUME ack(i)
          PROVE  B(i) <= D - k /\ Command(v[i]).ack_request \in SequenceNumbers
      <4>1. A(i) \in k..D /\ B(i) = A(i) - k
        BY <2>2, <3>1
      <4>2. Command(v[i]).ack_request \in SequenceNumbers
        BY <2>2, <3>1
      <4> HIDE DEF A, B
      <4>3. QED
        BY <1>1, <1>4, <4>1, <4>2
    <3>2. QED
      BY <3>1 DEF Acknowledges
  <2>4. ASSUME NEW i \in 1..Len(v), NEW j \in 1..Len(v), i <= j, ack(j)
        PROVE  Acknowledges(z, v[i], B(j))
    <3>1. ASSUME ack(i)
          PROVE  B(i) <= B(j) /\ Command(v[i]).ack_request \in SequenceNumbers
      <4>1. A(i) \in k..D /\ B(i) = A(i) - k /\ A(j) \in k..D /\ B(j) = A(j) - k
        BY <2>2, <2>4, <3>1
      <4>2. Command(v[i]).ack_request \in SequenceNumbers /\ A(i) <= A(j)
        BY <2>1, <2>4, <3>1 DEF Acks, Acknowledges
      <4> HIDE DEF A, B
      <4>3. QED
        BY <1>1, <1>4, <4>1, <4>2
    <3>2. QED
      BY <3>1 DEF Acknowledges
  <2>5. QED
    BY <1>5, <2>3, <2>4 DEF Acks
<1>12. Requests(z, r, m, s, g, u, v, turn)
  BY <1>2 DEF Placed, Requests, Asks, WillAsk
<1>13. QED
  BY <1>8, <1>9, <1>10, <1>11, <1>12 DEF Placed

\* A request that is heard starts the replay that its receiver waits for, and
\* what was asked for before it comes too late.
LEMMA SenderRestarts ==
  ASSUME Configured, NEW t, NEW r, r \in RxStates, NEW w \in Seq(Flit), NEW v \in Seq(Flit),
         NEW s, NEW g, Schedules(s, g), NEW u, NEW turn \in 0..1, NEW o, NEW m,
         Placed(t, r, w, v, s, g, u, turn, o, m), t.ignore_count = 0,
         r.replay, m = 0,
         Len(v) + 1 < 1 + r.unexpected_count + turn,
         1 + r.unexpected_count + turn <= Len(v) + 1 + Span + 2,
         Len(v) + 1 + Len(w) + 1 <= 2 * Latency + turn,
         NEW k \in 1..Len(t.buffer), Nth(t.last_ack, k) = Successor(r.last_sequence),
         NEW z, z = StartReplay(t, Nth(t.last_ack, k))
  PROVE  /\ Placed(z, r, w, v, s, g, u, turn, o, Len(w) + 1)
         /\ Undisturbed(t, z, r.last_sequence)
<1> DEFINE b == r.last_sequence
           N == Len(t.buffer)
           D == Got(t, b)
           n == Missing(t, b)
           W == Len(w)
           L == Len(v)
           c == r.unexpected_count
<1>1. /\ Good(t) /\ b \in SequenceNumbers /\ t.last_ack \in SequenceNumbers
      /\ t.buffer \in Seq(Entries)
      /\ D \in 0..Window /\ n \in 0..Window /\ N \in 0..Window /\ N = D + n
      /\ Window \in Nat
      /\ b = Nth(t.last_ack, D)
  <2>1. Behind(t, b)
    BY DEF Placed
  <2>2. Window \in Nat /\ Good(t)
    BY <2>1, WindowIsHalf DEF Behind
  <2>3. QED
    BY <2>1, <2>2, BehindParts, GoodParts
<1>2. /\ W \in Nat /\ L \in Nat /\ c \in Nat /\ Span \in Nat
      /\ IgnoreWindow >= Span + 2 /\ ReplayLimit >= 2 * Latency + Span + 1
      /\ IgnoreWindow \in Nat /\ ReplayLimit \in Nat /\ Latency \in Nat
  <2>1. Span \in Nat
    BY ScheduleAssumption DEF Span
  <2>2. W \in Nat /\ L \in Nat
    OBVIOUS
  <2>3. QED
    BY <2>1, <2>2, BoundsAssumption, ReplayLimitAssumption, IgnoreWindowAssumption
       DEF Configured, RxStates
<1>3. /\ Good(z) /\ z.buffer = t.buffer /\ z.last_ack = t.last_ack
      /\ z.first_replay /\ z.ignore_count = IgnoreWindow
      /\ z.scheduled = SubSeq(t.buffer, k, N)
  BY <1>1, StartReplayKeeps
<1>4. /\ Flits(t, b, w, o, m) /\ Tracks(r, o, m) /\ Acks(t, b, v)
      /\ Requests(t, r, m, s, g, u, v, turn)
  BY DEF Placed
<1>5. o[0] >= 1 /\ o[0] \in 0..n
  <2>1. 0 \in 0..Len(w)
    BY <1>2
  <2>2. QED
    BY <1>4, <2>1 DEF Tracks, Flits, n
<1>6. k \in 1..N
  OBVIOUS
<1> HIDE DEF N, D, n
<1>7. k = D + 1
  <2>1. D + 1 \in 0..Window /\ k \in 0..Window
    BY <1>1, <1>5, <1>6
  <2>2. Successor(b) = Nth(t.last_ack, D + 1)
    BY <1>1, SuccessorOfNth
  <2>3. QED
    BY <1>1, <2>1, <2>2, NthOneToOne
<1>8. Got(z, b) = D /\ Missing(z, b) = n
  BY <1>3 DEF Got, Missing, D, n
<1>9. Undisturbed(t, z, b)
  BY <1>3, <1>8 DEF Undisturbed, D, n
<1>10. /\ Len(z.scheduled) = n
       /\ \A i \in 1..n : z.scheduled[i] = t.buffer[N - n + i]
  <2> DEFINE rest == SubSeq(t.buffer, k, N)
  <2>1. t.buffer \in Seq(Entries) /\ N \in Nat /\ k \in 1..N /\ N = Len(t.buffer)
    BY <1>1, <1>6 DEF N
  <2>2. Len(rest) = N - k + 1 /\ \A i \in 1..(N - k + 1) : rest[i] = t.buffer[k + i - 1]
    BY <2>1
  <2>3. N - k + 1 = n /\ \A i \in 1..n : k + i - 1 = N - n + i
    BY <1>1, <1>7
  <2>4. QED
    BY <1>3, <2>2, <2>3, ZenonT(40)
<1>11. Behind(z, b)
  <2>1. D <= N /\ n <= n /\ b \in SequenceNumbers
    BY <1>1
  <2>2. Len(z.buffer) = N
    BY <1>3 DEF N
  <2>3. \A i \in 1..Len(z.scheduled) :
          z.scheduled[i] = z.buffer[Len(z.buffer) - Len(z.scheduled) + i]
    BY <1>3, <1>10, <2>2
  <2>4. Got(z, b) <= Len(z.buffer) /\ Len(z.scheduled) <= Missing(z, b)
    BY <1>8, <1>10, <2>1, <2>2
  <2>5. QED
    BY <1>3, <2>1, <2>3, <2>4 DEF Behind
<1>12. Flits(z, b, w, o, W + 1)
  <2>1. W + 1 \in 0..(W + 1)
    BY <1>2
  <2>2. ASSUME NEW i \in 1..W
        PROVE  Carries(z, b, w[i], o[i - 1], o[i], i = W + 1)
    <3> DEFINE old == i = m
               new == i = W + 1
    <3>1. Carries(t, b, w[i], o[i - 1], o[i], old)
      BY <1>4 DEF Flits, W
    <3>2. ~old /\ ~new
      BY <1>2
    <3> HIDE DEF old, new
    <3>3. Carries(z, b, w[i], o[i - 1], o[i], new)
      BY <1>3, <1>8, <3>1, <3>2 DEF Carries, D
    <3>4. QED
      BY <3>3 DEF new
  <2>3. \A i, j \in 0..W : i <= j => o[i] <= o[j]
    <3>1. \A i \in 0..W : m <= i
      BY <1>2
    <3>2. QED
      BY <1>4, <3>1 DEF Flits, W
  <2>4. QED
    BY <1>3, <1>4, <1>8, <1>10, <2>1, <2>2, <2>3 DEF Flits, W, n
<1>13. Tracks(r, o, W + 1)
  <2>1. c + (W + 1) <= ReplayLimit
    BY <1>2 DEF L, W, c
  <2>2. QED
    BY <1>4, <2>1 DEF Tracks, c
<1>14. Acks(z, b, v)
  BY <1>3, <1>4, <1>8 DEF Acks, Acknowledges, D
<1>15. Requests(z, r, W + 1, s, g, u, v, turn)
  <2>1. ASSUME NEW i \in 1..L, Command(v[i]).op = OpRequest
        PROVE  i < IgnoreWindow
    <3>1. Asks(t, r, m, v, i, turn)
      BY <1>4, <2>1 DEF Requests, L
    <3>2. i + c + turn <= L + Span + 2
      BY <3>1 DEF Asks, InWait, c, L
    <3>3. QED
      BY <1>2, <3>2 DEF L, c
  <2>2. ASSUME s.replay_requests > 0
        PROVE  L + Left(s, g, u, turn) < IgnoreWindow
    <3> DEFINE x == Left(s, g, u, turn)
    <3>1. x \in 1..(Span + 2)
      <4>1. s.replay_requests # 0
        BY <2>2
      <4>2. QED
        BY <4>1, LeftBounds
    <3> HIDE DEF x
    <3>2. WillAsk(t, r, m, s, g, u, v, turn)
      BY <1>4, <2>2 DEF Requests
    <3>3. ~(L + x < t.ignore_count)
      BY <1>2, <3>1
    <3>4. c + turn + x <= Span + 2
      BY <3>2, <3>3 DEF WillAsk, c, L, x
    <3>5. L + x < IgnoreWindow
      BY <1>2, <3>1, <3>4, SMTT(30) DEF L, c
    <3>6. QED
      BY <3>5 DEF x
  <2>3. QED
    BY <1>3, <2>1, <2>2 DEF Requests, Asks, WillAsk, L
<1>16. QED
  BY <1>9, <1>11, <1>12, <1>13, <1>14, <1>15 DEF Placed, W

\* What the transmitter makes of any Flit that arrives.
LEMMA SenderReceives ==
  ASSUME Configured, NEW t, NEW r, r \in RxStates, NEW w \in Seq(Flit), NEW v \in Seq(Flit),
         NEW s, NEW g, Schedules(s, g), NEW u, NEW turn \in 0..1, NEW o, NEW m,
         Placed(t, r, w, v, s, g, u, turn, o, m), v # << >>,
         Len(v) + Len(w) + 1 <= 2 * Latency + turn,
         Targeted(Command(v[1])), NEW crc_ok \in BOOLEAN,
         NEW z, z = TxReceive(t, Command(v[1]), crc_ok) \/ z = AgeIgnore(t)
  PROVE  /\ Aged(t, z) /\ Undisturbed(t, z, r.last_sequence)
         /\ \E x \in {m, Len(w) + 1} : Placed(z, r, w, Tail(v), s, g, u, turn, o, x)
<1> DEFINE b == r.last_sequence
           a == AgeIgnore(t)
           x == Tail(v)
           L == Len(v)
           h == Command(v[1])
<1>1. L \in Nat /\ L >= 1 /\ x \in Seq(Flit) /\ Len(x) = L - 1
      /\ \A i \in 1..(L - 1) : x[i] = v[i + 1]
  BY EmptySeq, HeadTailProperties
<1>2. Left(s, g, u, turn) \in Nat
  <2>1. CASE s.replay_requests = 0
    BY <2>1 DEF Left
  <2>2. CASE s.replay_requests # 0
    BY <2>2, LeftBounds
  <2>3. QED
    BY <2>1, <2>2
<1>3. Same(t, a) /\ Placed(a, r, w, x, s, g, u, turn, o, m)
  BY <1>2, SenderAges
<1>4. Good(t) /\ Good(a) /\ Acks(t, b, v) /\ Requests(t, r, m, s, g, u, v, turn)
      /\ Behind(t, b) /\ t.ignore_count \in Nat
      /\ a.ignore_count = IF t.ignore_count > 0 THEN t.ignore_count - 1 ELSE 0
  <2>1. Good(t)
    BY DEF Placed, Behind
  <2>2. QED
    BY <2>1, AgeKeeps, GoodParts, IgnoreWindowAssumption DEF Placed
<1>5. Obeys(t, h, z)
  <2>1. CASE z = a
    BY <2>1 DEF Obeys
  <2>2. CASE z = TxReceive(t, h, crc_ok)
    BY <1>4, <2>2, ReceiveObeys
  <2>3. QED
    BY <2>1, <2>2
<1> HIDE DEF a, x, L, h
<1>6. Got(a, b) = Got(t, b) /\ Missing(a, b) = Missing(t, b)
  BY <1>3 DEF Same, Got, Missing
<1>7. CASE z = a
  <2>1. Aged(t, z)
    BY <1>3, <1>4, <1>7 DEF Aged, Same
  <2>2. Undisturbed(t, z, b)
    BY <1>3, <1>6, <1>7 DEF Undisturbed, Same
  <2>3. QED
    BY <1>3, <1>7, <2>1, <2>2 DEF x
<1>8. ASSUME NEW k \in 1..Len(t.buffer), h.op = OpRequest, h.ack_request = Nth(t.last_ack, k),
             a.ignore_count = 0, z = StartReplay(a, Nth(t.last_ack, k))
      PROVE  /\ Aged(t, z) /\ Undisturbed(t, z, b)
             /\ Placed(z, r, w, x, s, g, u, turn, o, Len(w) + 1)
  <2>1. Asks(t, r, m, v, 1, turn)
    BY <1>1, <1>4, <1>8 DEF Requests, L, h
  <2>2. t.ignore_count <= 1
    BY <1>4, <1>8
  <2>3. /\ r.replay /\ m = 0 /\ h.ack_request = Successor(b)
        /\ L < 1 + r.unexpected_count + turn
        /\ 1 + r.unexpected_count + turn <= L + Span + 2
    BY <1>4, <2>1, <2>2 DEF Asks, InWait, L, h
  <2>4. /\ Len(x) + 1 < 1 + r.unexpected_count + turn
        /\ 1 + r.unexpected_count + turn <= Len(x) + 1 + Span + 2
        /\ Len(x) + 1 + Len(w) + 1 <= 2 * Latency + turn
    <3>1. Len(x) + 1 = L
      BY <1>1
    <3>2. QED
      BY <2>3, <3>1 DEF L
  <2>5. a.buffer = t.buffer /\ a.last_ack = t.last_ack
    BY <1>3 DEF Same
  <2>6. Placed(z, r, w, x, s, g, u, turn, o, Len(w) + 1) /\ Undisturbed(a, z, b)
    <3>1. /\ k \in 1..Len(a.buffer) /\ Nth(a.last_ack, k) = Successor(b)
          /\ z = StartReplay(a, Nth(a.last_ack, k)) /\ x \in Seq(Flit)
      BY <1>1, <1>8, <2>3, <2>5
    <3>2. QED
      BY <1>3, <1>8, <2>3, <2>4, <3>1, SenderRestarts
  <2>7. Undisturbed(t, z, b)
    BY <1>6, <2>5, <2>6 DEF Undisturbed
  <2>8. z.first_replay /\ z.ignore_count = IgnoreWindow
    BY <1>4, <1>8, <2>5, StartReplayKeeps
  <2>9. QED
    BY <2>2, <2>6, <2>7, <2>8 DEF Aged
<1>9. ASSUME NEW k \in 0..Len(t.buffer), h.op = OpAck, h.ack_request = Nth(t.last_ack, k),
             z = Release(a, Nth(t.last_ack, k))
      PROVE  /\ Aged(t, z) /\ Undisturbed(t, z, b)
             /\ Placed(z, r, w, x, s, g, u, turn, o, m)
  <2>1. a.buffer = t.buffer /\ a.last_ack = t.last_ack
    BY <1>3 DEF Same
  <2>2. Distance(t.last_ack, h.ack_request) = k
    <3>1. Len(t.buffer) \in 0..Window /\ t.last_ack \in SequenceNumbers /\ Window \in Nat
      BY <1>4, GoodParts, WindowIsHalf
    <3> DEFINE N == Len(t.buffer)
    <3>2. k \in 0..N /\ N \in 0..Window
      BY <1>9, <3>1
    <3> HIDE DEF N
    <3>3. k \in 0..Window
      BY <3>1, <3>2
    <3>4. QED
      BY <1>9, <3>1, <3>3, DistanceToNth
  <2>3. k <= Got(t, b)
    BY <1>1, <1>4, <1>9, <2>2 DEF Acks, Acknowledges, L, h
  <2>4. ASSUME NEW j \in 1..Len(x), Command(x[j]).op = OpAck
        PROVE  k <= Distance(a.last_ack, Command(x[j]).ack_request)
    <3>1. 1 \in 1..L /\ j + 1 \in 1..L /\ 1 <= j + 1 /\ x[j] = v[j + 1]
      BY <1>1
    <3>2. Acknowledges(t, v[1], Distance(t.last_ack, Command(v[j + 1]).ack_request))
      BY <1>4, <2>4, <3>1 DEF Acks, L
    <3>3. QED
      BY <1>9, <2>1, <2>2, <3>1, <3>2 DEF Acknowledges, h
  <2>5. Placed(z, r, w, x, s, g, u, turn, o, m) /\ Undisturbed(a, z, b)
    BY <1>3, <1>6, <1>9, <2>1, <2>3, <2>4, SenderReleases
  <2>6. Undisturbed(t, z, b)
    BY <1>6, <2>1, <2>5 DEF Undisturbed
  <2>7. z.first_replay = a.first_replay /\ z.ignore_count = a.ignore_count
    BY <1>4, <1>9, <2>1, ReleaseKeeps
  <2>8. Aged(t, z)
    BY <1>3, <1>4, <2>7 DEF Aged, Same
  <2>9. QED
    BY <2>5, <2>6, <2>8
<1>10. QED
  BY <1>5, <1>7, <1>8, <1>9 DEF Obeys, a, x
-------------------------------------------------------------------------------
(* The transmitter sends a Flit.                                               *)

\* The header that is sent says what was selected.
Written(s, r, sel, requested, h) ==
  /\ h.payload \in BOOLEAN /\ h.payload = sel.payload
  /\ Says(h, h.payload, sel.entry.sequence)
  /\ sel.first => h.op \notin CommandOps
  /\ h.op = OpRequest => SendsRequest(s, sel, requested) /\ h.ack_request = RequestTarget(s, r)
  /\ h.op = OpAck => h.ack_request = r.last_sequence

\* What NextHeader chooses, the other side decodes.
LEMMA HeaderSays ==
  ASSUME NEW s, NEW g, Schedules(s, g), NEW r, r.last_sequence \in SequenceNumbers,
         NEW sel, NEW requested,
         sel.payload \in BOOLEAN, sel.replayed \in BOOLEAN, sel.replayed => sel.payload,
         sel.entry.sequence \in SequenceNumbers,
         NEW f, f.header = NextHeader(s, r, sel, requested)
  PROVE  Written(s, r, sel, requested, Command(f)) /\ f.header \in Int
<1> DEFINE q == sel.entry.sequence
           yes == TRUE
           no == FALSE
           h == Command(f)
           target == RequestTarget(s, r)
<1>1. h = DecodeHeader(NextHeader(s, r, sel, requested))
  BY DEF Command
<1>2. yes \in BOOLEAN /\ no \in BOOLEAN /\ yes /\ ~no
  OBVIOUS
<1>3. q % LowMod \in Int /\ q \in Int
  BY LowModAssumption DEF SequenceNumbers
<1>4. ASSUME NEW op \in Int, NEW p, NEW field \in Int
      PROVE  Word(op, p, field) \in Int
  <2>1. Bit(p) \in Int
    BY DEF Bit
  <2>2. FieldMod \in Int /\ ReservedMod \in Int
    BY FieldSizes
  <2>3. QED
    BY <2>1, <2>2 DEF Word
<1> HIDE DEF q, yes, no, h, target
<1>5. CASE MustBeExplicit(s, sel)
  <2>1. NextHeader(s, r, sel, requested) = EncodeExplicit(q, sel.payload, sel.replayed)
    BY <1>5 DEF NextHeader, q
  <2>2. h = EncodedExplicit(q, sel.payload, sel.replayed)
    BY <1>1, <2>1 DEF EncodedExplicit
  <2> DEFINE p == sel.payload
             y == sel.replayed
  <2>3. p \in BOOLEAN /\ y \in BOOLEAN /\ (y => p) /\ q \in SequenceNumbers
    BY DEF q
  <2> HIDE DEF p, y
  <2>4. Says(EncodedExplicit(q, p, y), p, q) /\ EncodedExplicit(q, p, y).op \notin CommandOps
    BY <2>3, ExplicitSays
  <2>5. Says(h, p, q) /\ h.op \notin CommandOps
    BY <2>2, <2>4 DEF p, y
  <2>6. h.payload = p
    BY <2>5 DEF Says
  <2>7. Says(h, h.payload, q)
    BY <2>5 DEF Says
  <2>8. h.op # OpRequest /\ h.op # OpAck
    BY <2>5 DEF CommandOps
  <2>9. f.header \in Int
    <3>1. (IF sel.replayed THEN OpReplay ELSE OpExplicit) \in Int
      BY DEF OpReplay, OpExplicit
    <3>2. QED
      BY <1>3, <1>4, <2>1, <3>1 DEF EncodeExplicit
  <2>10. QED
    BY <2>3, <2>5, <2>6, <2>7, <2>8, <2>9 DEF Written, p, q, h
<1>6. ASSUME ~MustBeExplicit(s, sel), NEW x \in SequenceNumbers, NEW y \in BOOLEAN,
             NextHeader(s, r, sel, requested) = EncodeCommand(q % LowMod, x, sel.payload, y),
             y => SendsRequest(s, sel, requested) /\ x = target,
             ~y => x = r.last_sequence
      PROVE  Written(s, r, sel, requested, h) /\ f.header \in Int
  <2> DEFINE p == sel.payload
  <2>1. h = EncodedCommand(q, x, p, y)
    BY <1>1, <1>6 DEF EncodedCommand
  <2>2. p \in BOOLEAN /\ q \in SequenceNumbers
    BY DEF q
  <2> HIDE DEF p
  <2>3. /\ Says(h, p, q)
        /\ h.op = IF y THEN OpRequest ELSE OpAck
        /\ h.ack_request = x
    BY <1>6, <2>1, <2>2, CommandSays
  <2>4. h.payload = p
    BY <2>3 DEF Says
  <2>5. Says(h, h.payload, q)
    BY <2>3 DEF Says
  <2>6. /\ h.op = OpRequest => y
        /\ h.op = OpAck => ~y
    BY <2>3 DEF OpRequest, OpAck
  <2>7. ~sel.first
    BY <1>6 DEF MustBeExplicit
  <2>8. f.header \in Int
    <3>1. (IF y THEN OpRequest ELSE OpAck) \in Int /\ x \in Int /\ LowMod \in Int
      BY LowModAssumption DEF OpRequest, OpAck, SequenceNumbers
    <3>2. x * LowMod + (q % LowMod) \in Int
      BY <1>3, <3>1
    <3>3. QED
      BY <1>4, <1>6, <3>1, <3>2 DEF EncodeCommand
  <2>9. QED
    BY <1>6, <2>2, <2>3, <2>4, <2>5, <2>6, <2>7, <2>8 DEF Written, p, q, target
<1>7. CASE ~MustBeExplicit(s, sel) /\ SendsRequest(s, sel, requested)
  <2>1. NextHeader(s, r, sel, requested) = EncodeCommand(q % LowMod, target, sel.payload, yes)
    BY <1>7 DEF NextHeader, q, target, yes
  <2>2. target \in SequenceNumbers
    <3>1. s.replay_requests > 0 /\ s.replay_requests \in Int
      BY <1>7 DEF SendsRequest, Schedules, ScheduleStates
    <3>2. Successor(r.last_sequence) \in SequenceNumbers
      BY SeqMaxAssumption DEF Successor, SequenceNumbers
    <3>3. QED
      BY <3>1, <3>2 DEF target, RequestTarget, Schedules
  <2>3. QED
    BY <1>2, <1>6, <1>7, <2>1, <2>2 DEF h
<1>8. CASE ~MustBeExplicit(s, sel) /\ ~SendsRequest(s, sel, requested)
  <2>1. NextHeader(s, r, sel, requested)
          = EncodeCommand(q % LowMod, r.last_sequence, sel.payload, no)
    BY <1>8 DEF NextHeader, Acknowledged, q, no
  <2>2. QED
    BY <1>2, <1>6, <1>8, <2>1 DEF h
<1>9. QED
  BY <1>5, <1>7, <1>8 DEF h

\* What is selected goes out x places after the receiver's number, x being what is
\* missing and not scheduled any more.
Selected(t, b, payload, sel) ==
  LET z == sel.tx
      new == sel.payload /\ ~sel.replayed
      x == Missing(z, b) - Len(z.scheduled)
  IN  /\ sel.payload \in BOOLEAN /\ sel.replayed \in BOOLEAN
      /\ sel.replayed => sel.payload
      /\ t.first_replay => sel.first /\ sel.payload
      /\ sel.entry.sequence = Nth(b, x) /\ sel.entry.sequence \in SequenceNumbers
      /\ sel.entry.payload \in Payloads \cup {NoPayload}
      /\ sel.payload => sel.entry.payload = z.buffer[Got(t, b) + x].payload
      /\ x = Missing(t, b) - Len(t.scheduled) + Bit(sel.payload)
      /\ Behind(z, b) /\ ~z.first_replay
      /\ z.ignore_count = t.ignore_count /\ z.last_ack = t.last_ack
      /\ Missing(z, b) = Missing(t, b) + Bit(new)
      /\ \A i \in 1..Missing(t, b) : z.buffer[Got(t, b) + i] = t.buffer[Got(t, b) + i]
      /\ new => z.buffer[Got(t, b) + Missing(t, b) + 1].payload = payload

\* A replayed payload, a new one and a NOP are each the next of the stream.
LEMMA SelectIsNext ==
  ASSUME NEW t, NEW b, Behind(t, b), NEW offer, NEW payload \in Payloads,
         NEW sel, sel = Select(t, offer, payload)
  PROVE  Selected(t, b, payload, sel)
<1> DEFINE N == Len(t.buffer)
           D == Got(t, b)
           n == Missing(t, b)
           c == Len(t.scheduled)
           z == sel.tx
<1>1. /\ Good(t) /\ t \in TxStates /\ b \in SequenceNumbers /\ t.last_ack \in SequenceNumbers
      /\ t.buffer \in Seq(Entries) /\ t.scheduled \in Seq(Entries)
      /\ D \in 0..Window /\ n \in 0..Window /\ N \in 0..Window /\ N = D + n /\ c \in 0..n
      /\ Window \in Nat
      /\ \A i \in 0..n : Nth(t.last_ack, D + i) = Nth(b, i)
  BY BehindParts, GoodParts, WindowIsHalf
<1>2. /\ t.last_sequence = Nth(t.last_ack, N) /\ t.last_sequence \in SequenceNumbers
      /\ \A i \in 1..N : t.buffer[i].sequence = Nth(t.last_ack, i)
      /\ (t.replay <=> c > 0) /\ (t.first_replay => t.replay)
      /\ \A i \in 1..c : t.scheduled[i] = t.buffer[N - c + i]
      /\ \A i \in 1..N : t.buffer[i] \in Entries
  BY <1>1, GoodParts DEF Behind
<1> HIDE DEF N, D, n, c
<1>3. CASE t.scheduled # << >>
  <2>1. z = NextReplay(t) /\ sel.payload = TRUE /\ sel.replayed = TRUE
        /\ sel.entry = Head(t.scheduled) /\ sel.first = t.first_replay
    BY <1>3 DEF Select, Selection
  <2>2. c >= 1 /\ Head(t.scheduled) = t.buffer[N - c + 1]
    <3>1. c # 0 /\ Head(t.scheduled) = t.scheduled[1]
      BY <1>1, <1>3, EmptySeq DEF c
    <3>2. c >= 1 /\ 1 \in 1..c
      BY <1>1, <3>1
    <3>3. QED
      BY <1>2, <3>1, <3>2
  <2>3. /\ z.buffer = t.buffer /\ z.last_ack = t.last_ack /\ z.first_replay = FALSE
        /\ z.ignore_count = t.ignore_count /\ z.scheduled = Tail(t.scheduled)
    BY <1>1, <2>1 DEF NextReplay, TxStates
  <2>4. Good(z)
    BY <1>1, <1>3, <2>1, NextReplayKeeps
  <2>5. Got(z, b) = D /\ Missing(z, b) = n /\ Len(z.buffer) = N
    BY <2>3 DEF Got, Missing, D, n, N
  <2>6. Len(z.scheduled) = c - 1 /\ \A i \in 1..(c - 1) : z.scheduled[i] = t.scheduled[i + 1]
    BY <1>1, <1>3, <2>3, HeadTailProperties DEF c
  <2>7. Behind(z, b)
    <3>1. ASSUME NEW i \in 1..(c - 1)
          PROVE  z.scheduled[i] = z.buffer[N - (c - 1) + i]
      <4>1. i + 1 \in 1..c /\ N - c + (i + 1) = N - (c - 1) + i
        BY <1>1
      <4>2. QED
        BY <1>2, <2>3, <2>6, <4>1
    <3>2. c - 1 <= n /\ D <= N
      BY <1>1
    <3>3. QED
      BY <1>1, <2>4, <2>5, <2>6, <3>1, <3>2 DEF Behind
  <2>8. N - c + 1 \in 1..N /\ n - c + 1 \in 0..n /\ D + (n - c + 1) = N - c + 1
    BY <1>1, <2>2
  <2>9. sel.entry.sequence = Nth(b, n - c + 1) /\ sel.entry \in Entries
        /\ sel.entry = z.buffer[D + (n - c + 1)]
    BY <1>1, <1>2, <2>1, <2>2, <2>3, <2>8
  <2>10. sel.entry.sequence \in SequenceNumbers /\ sel.entry.payload \in Payloads
    BY <2>9 DEF Entries
  <2>11. Missing(z, b) - Len(z.scheduled) = n - c + 1
    BY <1>1, <2>5, <2>6
  <2>12. n - c + 1 = n - c + Bit(TRUE) /\ n = n + Bit(FALSE)
    BY <1>1 DEF Bit
  <2>13. QED
    BY <2>1, <2>3, <2>5, <2>7, <2>9, <2>10, <2>11, <2>12 DEF Selected, D, n, c
<1>4. CASE t.scheduled = << >> /\ offer /\ CanEnqueue(t)
  <2> DEFINE entry == [sequence |-> Successor(t.last_sequence), payload |-> payload]
  <2>1. c = 0 /\ ~t.first_replay
    BY <1>1, <1>2, <1>4, EmptySeq DEF c
  <2>2. N < Window
    BY <1>4 DEF CanEnqueue, N
  <2>3. z = [t EXCEPT !.buffer = Append(t.buffer, entry),
                      !.last_sequence = Successor(t.last_sequence)]
        /\ sel.payload = TRUE /\ sel.replayed = FALSE /\ sel.first = FALSE
        /\ sel.entry = z.buffer[Len(z.buffer)] /\ z = Enqueue(t, payload)
    BY <1>4 DEF Select, Selection, Enqueue
  <2>4. /\ z.buffer = Append(t.buffer, entry) /\ z.last_ack = t.last_ack
        /\ z.first_replay = t.first_replay /\ z.scheduled = t.scheduled
        /\ z.ignore_count = t.ignore_count
    BY <1>1, <2>3 DEF TxStates
  <2>5. Good(z)
    BY <1>1, <1>4, <2>3, EnqueueKeeps, ZenonT(40)
  <2>6. Successor(t.last_sequence) \in SequenceNumbers /\ entry \in Entries
    BY <1>2, SeqMaxAssumption DEF Successor, SequenceNumbers, Entries
  <2>7. Len(z.buffer) = N + 1 /\ z.buffer[N + 1] = entry
        /\ \A i \in 1..N : z.buffer[i] = t.buffer[i]
    BY <1>1, <2>4, <2>6, AppendProperties DEF N
  <2>8. sel.entry = entry
    BY <2>3, <2>7
  <2>9. Got(z, b) = D /\ Missing(z, b) = n + 1
    BY <1>1, <2>4, <2>7 DEF Got, Missing, D
  <2>10. Len(z.scheduled) = 0
    BY <2>1, <2>4 DEF c
  <2>11. Behind(z, b)
    <3>1. D <= N + 1 /\ 0 <= n + 1
      BY <1>1
    <3>2. QED
      BY <1>1, <2>5, <2>7, <2>9, <2>10, <3>1 DEF Behind
  <2>12. Successor(t.last_sequence) = Nth(b, n + 1)
    <3>1. t.last_sequence = Nth(b, n) /\ n \in 0..Window
      BY <1>1, <1>2
    <3>2. QED
      BY <1>1, <3>1, SuccessorOfNth
  <2>13. sel.entry.sequence = Nth(b, n + 1) /\ sel.entry.payload = payload
         /\ sel.entry.sequence \in SequenceNumbers
    BY <2>6, <2>8, <2>12
  <2>14. /\ D + (n + 1) = N + 1 /\ (D + n) + 1 = N + 1 /\ \A i \in 1..n : D + i \in 1..N
         /\ (n + 1) - 0 = n + 1 /\ n - c = n /\ n - c + 1 = n + 1
    BY <1>1, <2>1
  <2>15. Bit(TRUE) = 1
    BY DEF Bit
  <2>16. /\ z.buffer[D + (n + 1)].payload = payload /\ z.buffer[(D + n) + 1].payload = payload
         /\ \A i \in 1..n : z.buffer[D + i] = t.buffer[D + i]
    BY <2>7, <2>14
  <2> HIDE DEF entry
  <2>17. QED
    BY <2>1, <2>3, <2>4, <2>9, <2>10, <2>11, <2>13, <2>14, <2>15, <2>16, ZenonT(40) DEF Selected, D, n, c
<1>5. CASE t.scheduled = << >> /\ ~(offer /\ CanEnqueue(t))
  <2>1. c = 0 /\ ~t.first_replay
    BY <1>1, <1>2, <1>5, EmptySeq DEF c
  <2>2. z = t /\ sel.payload = FALSE /\ sel.replayed = FALSE /\ sel.first = FALSE
        /\ sel.entry = [sequence |-> t.last_sequence, payload |-> NoPayload]
    BY <1>5 DEF Select, Selection, Nop
  <2>3. sel.entry.sequence = Nth(b, n) /\ sel.entry.payload = NoPayload
        /\ sel.entry.sequence \in SequenceNumbers
    <3>1. n \in 0..n
      BY <1>1
    <3>2. QED
      BY <1>1, <1>2, <2>2, <3>1
  <2>4. n - c = n /\ n = n + Bit(FALSE)
    BY <1>1, <2>1 DEF Bit
  <2>5. QED
    BY <2>1, <2>2, <2>3, <2>4 DEF Selected, n, c
<1>6. QED
  BY <1>3, <1>4, <1>5

\* The Flits under way with the one just sent.
Extended(w, o, x) == [i \in 0..(Len(w) + 1) |-> IF i <= Len(w) THEN o[i] ELSE x]

\* The Flit sent continues the Flits under way, or begins the replay.
LEMMA SenderSends ==
  ASSUME NEW t, NEW r, NEW w \in Seq(Flit), NEW v, NEW s, NEW g, NEW u, NEW turn, NEW o, NEW m,
         Placed(t, r, w, v, s, g, u, turn, o, m),
         NEW payload, NEW sel, Selected(t, r.last_sequence, payload, sel),
         NEW s2, NEW r2, NEW requested, NEW f \in Flit,
         Written(s2, r2, sel, requested, Command(f)), f.payload = sel.entry.payload
  PROVE  LET z == sel.tx
             x == Missing(z, r.last_sequence) - Len(z.scheduled)
         IN  /\ Placed(z, r, Append(w, f), v, s, g, u, turn, Extended(w, o, x), m)
             /\ Extended(w, o, x) \in [0..Len(Append(w, f)) -> 0..Missing(z, r.last_sequence)]
<1> DEFINE b == r.last_sequence
           z == sel.tx
           n == Missing(t, b)
           n2 == Missing(z, b)
           c == Len(t.scheduled)
           c2 == Len(z.scheduled)
           D == Got(t, b)
           x == n2 - c2
           h == Command(f)
           W == Len(w)
           o2 == Extended(w, o, x)
           w2 == Append(w, f)
<1>1. /\ Behind(t, b) /\ Behind(z, b) /\ b \in SequenceNumbers
      /\ D \in 0..Window /\ n \in 0..Window /\ c \in 0..n /\ n2 \in 0..Window /\ c2 \in 0..n2
      /\ Window \in Nat /\ W \in Nat
  <2>1. Behind(t, b) /\ Behind(z, b)
    BY DEF Placed, Selected
  <2>2. W \in Nat
    OBVIOUS
  <2>3. QED
    BY <2>1, <2>2, BehindParts, WindowIsHalf
<1>2. /\ Flits(t, b, w, o, m) /\ Tracks(r, o, m) /\ Acks(t, b, v)
      /\ Requests(t, r, m, s, g, u, v, turn)
  BY DEF Placed
<1>3. /\ z.last_ack = t.last_ack /\ z.ignore_count = t.ignore_count /\ ~z.first_replay
      /\ Got(z, b) = D
  BY DEF Selected, Got
<1>4. /\ x = n - c + Bit(sel.payload) /\ n2 = n + Bit(sel.payload /\ ~sel.replayed)
      /\ sel.entry.sequence = Nth(b, x)
      /\ t.first_replay => sel.first /\ sel.payload
      /\ sel.payload \in BOOLEAN
      /\ sel.payload => sel.entry.payload = z.buffer[D + x].payload
      /\ \A i \in 1..n : z.buffer[D + i] = t.buffer[D + i]
  BY DEF Selected
<1>5. /\ h.payload \in BOOLEAN /\ h.payload = sel.payload /\ Says(h, h.payload, Nth(b, x))
      /\ sel.first => h.op \notin CommandOps
  BY <1>4 DEF Written
<1>6. /\ w2 \in Seq(Flit) /\ Len(w2) = W + 1
      /\ \A i \in 1..W : w2[i] = w[i]
      /\ w2[W + 1] = f
  BY AppendProperties
<1>7. Bit(sel.payload) \in 0..1 /\ Bit(sel.payload /\ ~sel.replayed) \in 0..1
      /\ Bit(h.payload) \in 0..1
  BY DEF Bit
<1>8. Bit(h.payload) = Bit(sel.payload)
  BY <1>5
<1> HIDE DEF n, n2, c, c2, D, W, x, w2, h
<1>9. x \in 0..n2 /\ x \in Int
  BY <1>1 DEF x
<1>10. /\ m \in 0..(W + 1)
       /\ \A i \in 0..W : o[i] \in 0..n
       /\ \A i \in 1..W : Carries(t, b, w[i], o[i - 1], o[i], i = m)
       /\ \A i, j \in 0..W : i <= j /\ (j < m \/ m <= i) => o[i] <= o[j]
       /\ m = W + 1 => t.first_replay /\ c = n
       /\ m # W + 1 => ~t.first_replay /\ o[W] = n - c
  BY <1>2 DEF Flits, n, c, W
<1>11. /\ o2 \in [0..(W + 1) -> 0..n2]
       /\ \A i \in 0..W : o2[i] = o[i]
       /\ o2[W + 1] = x
  <2>1. \A i \in 0..(W + 1) : (IF i <= W THEN o[i] ELSE x) \in 0..n2
    BY <1>1, <1>4, <1>7, <1>9, <1>10
  <2>2. o2 = [i \in 0..(W + 1) |-> IF i <= W THEN o[i] ELSE x]
    BY DEF Extended, W
  <2> HIDE DEF o2
  <2>3. W + 1 \in 0..(W + 1) /\ ~(W + 1 <= W) /\ \A i \in 0..W : i \in 0..(W + 1) /\ i <= W
    BY <1>1
  <2>4. QED
    BY <2>1, <2>2, <2>3
<1> HIDE DEF o2
<1>12. ASSUME NEW i \in 1..W
       PROVE  Carries(z, b, w2[i], o2[i - 1], o2[i], i = m)
  <2> DEFINE restart == i = m
             hi == Command(w[i])
  <2>1. Carries(t, b, w[i], o[i - 1], o[i], restart)
    BY <1>10
  <2>2. i - 1 \in 0..W /\ i \in 0..W
    BY <1>1
  <2>3. o[i - 1] \in 0..n /\ o[i] \in 0..n /\ o2[i - 1] = o[i - 1] /\ o2[i] = o[i]
    BY <1>10, <1>11, <2>2
  <2> HIDE DEF restart
  <2>4. hi.payload => o[i] \in 1..n
    BY <1>1, <2>1, <2>3 DEF Carries, Bit
  <2>5. hi.payload => w[i].payload = z.buffer[Got(z, b) + o[i]].payload
    BY <1>3, <1>4, <2>1, <2>4 DEF Carries, D
  <2>6. Carries(z, b, w[i], o[i - 1], o[i], restart)
    BY <2>1, <2>5 DEF Carries
  <2>7. Carries(z, b, w2[i], o2[i - 1], o2[i], restart)
    BY <1>6, <2>3, <2>6
  <2>8. QED
    BY <2>7 DEF restart
<1>13. Carries(z, b, w2[W + 1], o2[W], o2[W + 1], W + 1 = m)
  <2> DEFINE restart == W + 1 = m
  <2>1. restart => t.first_replay /\ c = n
    BY <1>10
  <2>2. ~restart => o[W] = n - c
    BY <1>10
  <2>3. o2[W] = o[W] /\ o2[W + 1] = x /\ o[W] \in Int
    <3>1. W \in 0..W
      BY <1>1
    <3>2. QED
      BY <1>1, <1>10, <1>11, <3>1
  <2> HIDE DEF restart
  <2>4. restart => x = 1 /\ h.payload /\ h.op \notin CommandOps
    <3>1. ASSUME restart
          PROVE  x = 1 /\ h.payload /\ h.op \notin CommandOps
      <4>1. sel.payload /\ sel.first /\ c = n
        BY <1>4, <2>1, <3>1
      <4>2. h.payload /\ h.op \notin CommandOps
        BY <1>5, <4>1
      <4>3. x = n - c + 1
        <5>1. Bit(sel.payload) = 1
          BY <4>1 DEF Bit
        <5>2. x = n - c + Bit(sel.payload)
          BY <1>4
        <5>3. QED
          BY <5>1, <5>2
      <4>4. x = 1
        BY <1>1, <4>1, <4>3
      <4>5. QED
        BY <4>2, <4>4
    <3>2. QED
      BY <3>1
  <2>5. ~restart => x = o[W] + Bit(h.payload)
    BY <1>4, <1>8, <2>2
  <2>6. h.payload => f.payload = z.buffer[Got(z, b) + x].payload
    BY <1>3, <1>4, <1>5
  <2>7. Carries(z, b, f, o[W], x, restart)
    BY <1>5, <2>4, <2>5, <2>6 DEF Carries, h
  <2>8. Carries(z, b, w2[W + 1], o2[W], o2[W + 1], restart)
    BY <1>6, <2>3, <2>7
  <2>9. QED
    BY <2>8 DEF restart
<1>14. ASSUME NEW i \in 1..(W + 1)
       PROVE  Carries(z, b, w2[i], o2[i - 1], o2[i], i = m)
  <2>1. CASE i \in 1..W
    BY <1>12, <2>1
  <2>2. CASE i = W + 1
    <3>1. i - 1 = W
      BY <1>1, <2>2
    <3>2. QED
      BY <1>13, <2>2, <3>1
  <2>3. QED
    BY <1>1, <2>1, <2>2
<1>15. ASSUME NEW i \in 0..(W + 1), NEW j \in 0..(W + 1), i <= j, j < m \/ m <= i
       PROVE  o2[i] <= o2[j]
  <2>1. CASE j \in 0..W
    <3>1. i \in 0..W
      BY <1>1, <1>15, <2>1
    <3>2. QED
      BY <1>10, <1>11, <1>15, <2>1, <3>1
  <2>2. CASE j = W + 1 /\ i = W + 1
    BY <1>9, <1>11, <2>2
  <2>3. CASE j = W + 1 /\ i \in 0..W
    <3>1. m <= i /\ m # W + 1
      BY <1>1, <1>10, <1>15, <2>3
    <3>2. W \in 0..W /\ i <= W
      BY <1>1, <2>3
    <3>3. o[i] <= o[W] /\ o[W] = n - c /\ o[i] \in Int
      BY <1>10, <2>3, <3>1, <3>2
    <3>4. o[W] <= x
      BY <1>1, <1>4, <1>7, <3>3
    <3>5. o[i] <= x
      BY <1>1, <1>9, <3>3, <3>4
    <3>6. QED
      BY <1>11, <2>3, <3>5
  <2>4. QED
    BY <1>1, <2>1, <2>2, <2>3
<1>16. Flits(z, b, w2, o2, m)
  <2>1. m \in 0..((W + 1) + 1) /\ m # (W + 1) + 1
    BY <1>1, <1>10
  <2>2. o2[W + 1] = n2 - c2
    BY <1>11 DEF x
  <2>3. QED
    BY <1>3, <1>6, <1>11, <1>14, <1>15, <2>1, <2>2 DEF Flits, n2, c2
<1>17. Tracks(r, o2, m)
  <2>1. o2[0] = o[0]
    BY <1>1, <1>11
  <2>2. QED
    BY <1>2, <2>1 DEF Tracks
<1>18. Acks(z, b, v)
  BY <1>2, <1>3 DEF Acks, Acknowledges, D
<1>19. Requests(z, r, m, s, g, u, v, turn)
  BY <1>2, <1>3 DEF Requests, Asks, WillAsk
<1>20. QED
  BY <1>1, <1>6, <1>11, <1>16, <1>17, <1>18, <1>19 DEF Placed, n2, c2, x, w2, o2
-------------------------------------------------------------------------------
(* The receiver's side sends a Flit.                                           *)

\* Every Flit sent brings the last copy of a request nearer.
LEMMA SendingBringsNearer ==
  ASSUME Configured, NEW s, NEW g, Schedules(s, g), NEW r, r.last_sequence \in SequenceNumbers,
         NEW u, u.ignore_count \in Nat, JustStarted(u, 0),
         NEW sel, u.first_replay => sel.first, sel.first => u.first_replay,
         sel.tx.ignore_count = u.ignore_count, ~sel.tx.first_replay,
         NEW z, z = NextSchedule(s, r, sel, Requested(s, g))
  PROVE  /\ Schedules(z, NextGroup(g)) /\ JustStarted(sel.tx, 1)
         /\ s.replay_requests > 0 /\ z.replay_requests > 0 =>
              Left(z, NextGroup(g), sel.tx, 1) <= Left(s, g, u, 0) - 1
<1> DEFINE must == MustBeExplicit(s, sel)
           asks == SendsRequest(s, sel, Requested(s, g))
           g2 == NextGroup(g)
           k == s.replay_requests
           k2 == z.replay_requests
           G == GroupSpan
           e == s.explicit_count
           e2 == z.explicit_count
           i == u.ignore_count
<1>1. /\ s \in ScheduleStates /\ g \in 0..G /\ G \in Nat \ {0} /\ k \in 0..RequestCopies
      /\ e \in 1..ExplicitPeriod /\ s.request_sequence \in 0..SeqMax
      /\ s.request_in_group \in BOOLEAN
      /\ s.request_in_group => g >= 1
      /\ k \notin {0, RequestCopies} => s.request_sequence \in SequenceNumbers
      /\ ExplicitPeriod \in Nat \ {0} /\ RequestCopies \in Nat \ {0}
  BY ScheduleAssumption DEF Schedules, ScheduleStates
<1>2. g2 \in 1..G /\ (g = G => g2 = 1) /\ (g # G => g2 = g + 1)
  BY <1>1 DEF NextGroup
<1>3. /\ z.explicit_count = IF must THEN ExplicitPeriod ELSE ExplicitCount(s)
      /\ z.replay_requests = IF asks THEN k - 1 ELSE k
      /\ z.request_sequence = IF asks THEN RequestTarget(s, r) ELSE s.request_sequence
      /\ z.request_in_group = (asks \/ Requested(s, g))
      /\ z = [explicit_count |-> z.explicit_count, replay_requests |-> z.replay_requests,
              request_sequence |-> z.request_sequence, request_in_group |-> z.request_in_group]
  BY DEF NextSchedule
<1>4. ExplicitCount(s) = e - 1
  BY <1>1 DEF ExplicitCount
<1>5. /\ must => sel.first \/ e = 1
      /\ ~must => ~sel.first /\ e # 1
  BY <1>1, <1>4 DEF MustBeExplicit
<1>6. /\ asks => ~must /\ k > 0 /\ ~Requested(s, g)
      /\ ~asks => must \/ ~(k > 0) \/ Requested(s, g)
  BY DEF SendsRequest
<1> HIDE DEF must, asks, g2, k, G, e, i
<1>7. e2 = IF must THEN ExplicitPeriod ELSE e - 1
  BY <1>3, <1>4
<1>8. k2 = IF asks THEN k - 1 ELSE k
  BY <1>3
<1>9. z.request_in_group <=> asks \/ Requested(s, g)
  BY <1>3, Zenon
<1>10. z.request_in_group \in BOOLEAN
  <2>1. (asks \/ Requested(s, g)) \in BOOLEAN
    OBVIOUS
  <2>2. QED
    BY <1>3, <2>1, Zenon
<1>11. Schedules(z, g2)
  <2>1. e2 \in 1..ExplicitPeriod
    BY <1>1, <1>5, <1>7
  <2>2. k2 \in 0..RequestCopies
    BY <1>1, <1>6, <1>8
  <2>3. RequestTarget(s, r) \in SequenceNumbers \/ k = 0
    <3>1. Successor(r.last_sequence) \in SequenceNumbers
      BY SeqMaxAssumption DEF Successor, SequenceNumbers
    <3>2. QED
      BY <1>1, <3>1 DEF RequestTarget, k
  <2>4. SequenceNumbers \subseteq 0..SeqMax
    BY SeqMaxAssumption DEF SequenceNumbers
  <2>5. z.request_sequence \in 0..SeqMax
    BY <1>1, <1>3, <1>6, <2>3, <2>4
  <2>6. z \in ScheduleStates
    BY <1>3, <1>10, <2>1, <2>2, <2>5 DEF ScheduleStates
  <2>7. k2 \notin {0, RequestCopies} => z.request_sequence \in SequenceNumbers
    BY <1>1, <1>3, <1>6, <1>8, <2>3
  <2>8. g2 \in 0..GroupSpan /\ g2 >= 1
    BY <1>1, <1>2 DEF G
  <2>9. QED
    BY <2>6, <2>7, <2>8 DEF Schedules
<1>12. JustStarted(sel.tx, 1)
  BY DEF JustStarted
<1>13. ASSUME k > 0, k2 > 0
       PROVE  Left(z, g2, sel.tx, 1) <= Left(s, g, u, 0) - 1
  <2> DEFINE I == InGroups(s, g)
             I2 == InGroups(z, g2)
             P == ForPeriod(s, g)
             P2 == ForPeriod(z, g2)
             R == ForReplay(s, g, u, 0)
             R2 == ForReplay(z, g2, sel.tx, 1)
             S == (k - 1) * G
  <2>1. /\ I \in 1..Span /\ I2 \in 1..Span /\ Span \in Nat
    <3>1. k # 0 /\ k2 # 0
      BY <1>13
    <3>2. QED
      BY <1>11, <3>1, LeftBounds DEF k
  <2>2. /\ I = (IF s.request_in_group THEN G - g ELSE 0) + S + 1
        /\ I2 = (IF z.request_in_group THEN G - g2 ELSE 0) + (k2 - 1) * G + 1
    BY DEF InGroups, G, k
  <2>3. /\ P = IF e <= I THEN 1 ELSE 0
        /\ P2 = IF e2 <= I2 THEN 1 ELSE 0
    BY DEF ForPeriod, e
  <2>4. /\ R = IF i - 0 >= I + P THEN 0 ELSE 1
        /\ R2 = IF i - 1 >= I2 + P2 THEN 0 ELSE 1
    BY DEF ForReplay, i
  <2>5. /\ Left(s, g, u, 0) = IF u.first_replay THEN I + 1 ELSE I + P + R
        /\ Left(z, g2, sel.tx, 1) = I2 + P2 + R2
    <3>1. ~(k = 0) /\ ~(k2 = 0)
      BY <1>13
    <3>2. QED
      BY <3>1 DEF Left, k
  <2>6. /\ S \in Nat
        /\ k2 = k => (k2 - 1) * G = S
        /\ k2 = k - 1 => (k2 - 1) * G = S - G
    <3>1. k \in Nat /\ k >= 1 /\ G \in Nat
      BY <1>1, <1>13
    <3>2. (k - 1 - 1) * G = S - G
      BY <3>1
    <3>3. QED
      BY <3>1, <3>2
  <2>7. i \in Nat /\ IgnoreWindow \in Nat /\ IgnoreWindow >= Span + 2
        /\ ExplicitPeriod >= Span + 1 /\ (sel.first => i = IgnoreWindow)
        /\ (sel.first <=> u.first_replay)
    BY IgnoreWindowAssumption DEF Configured, JustStarted, i
  <2> HIDE DEF I, I2, P, P2, R, R2, S, k2, e2
  <2>8. CASE must
    <3>1. ~asks /\ e2 = ExplicitPeriod /\ k2 = k
      BY <1>6, <1>7, <1>8, <2>8
    <3>2. I2 <= I
      <4>1. CASE Requested(s, g)
        <5>1. s.request_in_group /\ z.request_in_group /\ g2 = g + 1
          BY <1>2, <1>9, <4>1 DEF Requested, G
        <5>2. I = (G - g) + S + 1 /\ I2 = (G - (g + 1)) + S + 1
          BY <2>2, <2>6, <3>1, <5>1
        <5>3. QED
          BY <1>1, <2>6, <5>2
      <4>2. CASE ~Requested(s, g)
        <5>1. ~z.request_in_group
          BY <1>9, <3>1, <4>2
        <5>2. I2 = 0 + S + 1
          BY <2>2, <2>6, <3>1, <5>1
        <5>3. I >= S + 1
          BY <1>1, <2>2, <2>6
        <5>4. QED
          BY <2>1, <2>6, <5>2, <5>3
      <4>3. QED
        BY <4>1, <4>2
    <3>3. P2 = 0
      BY <1>1, <2>1, <2>3, <2>7, <3>1
    <3>4. CASE sel.first
      <4>1. R2 = 0
        BY <2>1, <2>4, <2>7, <3>3, <3>4
      <4>2. QED
        BY <2>1, <2>5, <2>7, <3>2, <3>3, <3>4, <4>1
    <3>5. CASE ~sel.first
      <4>1. P = 1
        BY <1>5, <2>1, <2>3, <2>8, <3>5
      <4>2. R2 <= R /\ R \in Int /\ R2 \in Int
        BY <2>1, <2>4, <2>7, <3>2, <3>3, <4>1
      <4>3. QED
        BY <2>1, <2>5, <2>7, <3>2, <3>3, <3>5, <4>1, <4>2
    <3>6. QED
      BY <3>4, <3>5
  <2>9. CASE ~must
    <3>1. ~sel.first /\ e2 = e - 1 /\ (asks \/ Requested(s, g)) /\ z.request_in_group
      BY <1>5, <1>6, <1>7, <1>9, <1>13, <2>9
    <3>2. I2 <= I - 1
      <4>1. CASE asks
        <5>1. k2 = k - 1
          BY <1>8, <4>1
        <5>2. I2 = (G - g2) + (S - G) + 1
          BY <2>2, <2>6, <3>1, <5>1
        <5>3. I >= S + 1
          BY <1>1, <2>2, <2>6
        <5>4. QED
          BY <1>1, <1>2, <2>1, <2>6, <5>2, <5>3
      <4>2. CASE ~asks
        <5>1. k2 = k /\ s.request_in_group /\ g2 = g + 1
          BY <1>2, <1>8, <3>1, <4>2 DEF Requested, G
        <5>2. I = (G - g) + S + 1 /\ I2 = (G - (g + 1)) + S + 1
          BY <2>2, <2>6, <3>1, <5>1
        <5>3. QED
          BY <1>1, <2>6, <5>2
      <4>3. QED
        BY <4>1, <4>2
    <3>3. P2 <= P /\ P \in 0..1 /\ P2 \in 0..1
      BY <1>1, <2>1, <2>3, <3>1, <3>2
    <3>4. R2 <= R /\ R \in 0..1 /\ R2 \in 0..1
      BY <2>1, <2>4, <2>7, <3>2, <3>3
    <3>5. QED
      BY <2>1, <2>5, <2>7, <3>1, <3>2, <3>3, <3>4
  <2>10. QED
    BY <2>8, <2>9
<1>14. QED
  BY <1>11, <1>12, <1>13 DEF g2, k

\* What the receiver's side sends acknowledges what was delivered, and a copy of a
\* request goes out in time.
LEMMA ReceiverSends ==
  ASSUME Configured, NEW t, NEW r, r \in RxStates, NEW w, NEW v \in Seq(Flit),
         NEW s, NEW g, Schedules(s, g), NEW u, u.ignore_count \in Nat, JustStarted(u, 0),
         NEW sel, u.first_replay => sel.first, sel.first => u.first_replay,
         sel.tx.ignore_count = u.ignore_count, ~sel.tx.first_replay,
         NEW o, NEW m, Placed(t, r, w, v, s, g, u, 0, o, m),
         NEW f \in Flit, Written(s, r, sel, Requested(s, g), Command(f)),
         NEW z, z = NextSchedule(s, r, sel, Requested(s, g))
  PROVE  Placed(t, r, w, Append(v, f), z, NextGroup(g), sel.tx, 1, o, m)
<1> DEFINE b == r.last_sequence
           x == Append(v, f)
           L == Len(v)
           h == Command(f)
           n == r.unexpected_count
           g2 == NextGroup(g)
           old == Left(s, g, u, 0)
           new == Left(z, g2, sel.tx, 1)
<1>1. /\ x \in Seq(Flit) /\ Len(x) = L + 1 /\ L \in Nat
      /\ \A i \in 1..L : x[i] = v[i]
      /\ x[L + 1] = f
  BY AppendProperties
<1>2. /\ Behind(t, b) /\ Acks(t, b, v) /\ Flits(t, b, w, o, m) /\ Tracks(r, o, m)
      /\ Requests(t, r, m, s, g, u, v, 0)
  BY DEF Placed
<1>3. /\ n \in Nat /\ Span \in Nat /\ b \in SequenceNumbers /\ t.ignore_count \in Nat
  <2>1. Good(t) /\ b \in SequenceNumbers
    BY <1>2 DEF Behind
  <2>2. QED
    BY <2>1, GoodParts, ScheduleAssumption, ReplayLimitAssumption, IgnoreWindowAssumption
       DEF RxStates, Span
<1>4. Schedules(z, g2)
  BY <1>3, SendingBringsNearer
<1>5. ASSUME s.replay_requests > 0, z.replay_requests > 0
      PROVE  new <= old - 1 /\ new \in Int
  <2>1. z.replay_requests # 0
    BY <1>5
  <2>2. new \in 1..(Span + 2)
    BY <1>4, <2>1, LeftBounds
  <2>3. new <= old - 1
    BY <1>3, <1>5, SendingBringsNearer
  <2>4. QED
    BY <2>2, <2>3
<1>6. s.replay_requests > 0 => old \in 1..(Span + 2)
  <2>1. s.replay_requests > 0 => s.replay_requests # 0
    OBVIOUS
  <2>2. QED
    BY <2>1, LeftBounds
<1>7. h.op = OpRequest =>
        /\ s.replay_requests > 0 /\ SendsRequest(s, sel, Requested(s, g))
        /\ h.ack_request = RequestTarget(s, r)
  BY DEF Written, SendsRequest
<1>8. h.op = OpAck => h.ack_request = b
  BY DEF Written
<1> HIDE DEF x, L, h, n, g2, old, new
<1>9. Acks(t, b, x)
  <2>1. ASSUME NEW i \in 1..(L + 1)
        PROVE  Acknowledges(t, x[i], Got(t, b))
    <3>1. CASE i \in 1..L
      BY <1>1, <1>2, <3>1 DEF Acks, L
    <3>2. CASE i = L + 1
      <4>1. Distance(t.last_ack, b) = Got(t, b) /\ Got(t, b) \in 0..Window /\ Window \in Nat
        BY <1>2, BehindParts, WindowIsHalf DEF Got
      <4>2. Got(t, b) <= Got(t, b)
        BY <4>1
      <4>3. QED
        BY <1>1, <1>3, <1>8, <3>2, <4>1, <4>2 DEF Acknowledges, h
    <3>3. QED
      BY <1>1, <3>1, <3>2
  <2>2. ASSUME NEW i \in 1..(L + 1), NEW j \in 1..(L + 1), i <= j, Command(x[j]).op = OpAck
        PROVE  Acknowledges(t, x[i], Distance(t.last_ack, Command(x[j]).ack_request))
    <3>1. CASE j \in 1..L
      <4>1. i \in 1..L
        BY <1>1, <2>2, <3>1
      <4>2. QED
        BY <1>1, <1>2, <2>2, <3>1, <4>1 DEF Acks, L
    <3>2. CASE j = L + 1
      <4>1. Command(x[j]).ack_request = b
        BY <1>1, <1>8, <2>2, <3>2 DEF h
      <4>2. Distance(t.last_ack, b) = Got(t, b)
        BY DEF Got
      <4>3. QED
        BY <2>1, <4>1, <4>2
    <3>3. QED
      BY <1>1, <3>1, <3>2
  <2>3. QED
    BY <1>1, <2>1, <2>2 DEF Acks
<1>10. ASSUME s.replay_requests > 0
       PROVE  \/ L + old < t.ignore_count
              \/ /\ r.replay /\ m = 0
                 /\ RequestTarget(s, r) = Successor(b)
                 /\ s.replay_requests = RequestCopies \/ s.request_sequence = Successor(b)
                 /\ n + old <= Span + 2
  <2>1. WillAsk(t, r, m, s, g, u, v, 0)
    BY <1>2, <1>10 DEF Requests
  <2>2. CASE L + old < t.ignore_count
    BY <2>2
  <2>3. CASE ~(L + old < t.ignore_count)
    <3>1. /\ r.replay /\ m = 0
          /\ s.replay_requests = RequestCopies \/ s.request_sequence = Successor(b)
          /\ n + 0 + old <= Span + 2
      BY <2>1, <2>3 DEF WillAsk, L, n, old
    <3>2. n + old <= Span + 2
      BY <1>3, <1>6, <1>10, <3>1
    <3>3. RequestTarget(s, r) = Successor(b)
      BY <3>1 DEF RequestTarget
    <3>4. QED
      BY <3>1, <3>2, <3>3
  <2>4. QED
    BY <2>2, <2>3
<1>11. ASSUME NEW i \in 1..(L + 1), Command(x[i]).op = OpRequest
       PROVE  Asks(t, r, m, x, i, 1)
  <2>1. CASE i \in 1..L
    <3>1. x[i] = v[i]
      BY <1>1, <2>1
    <3>2. Asks(t, r, m, v, i, 0)
      BY <1>2, <1>11, <2>1, <3>1 DEF Requests, L
    <3>3. CASE i < t.ignore_count
      BY <3>3 DEF Asks
    <3>4. CASE ~(i < t.ignore_count)
      <4>1. /\ r.replay /\ m = 0 /\ Command(v[i]).ack_request = Successor(b)
            /\ L < i + n + 0 /\ i + n + 0 <= L + Span + 2
        BY <3>2, <3>4 DEF Asks, InWait, L, n
      <4>2. L + 1 < i + n + 1 /\ i + n + 1 <= (L + 1) + Span + 2
        BY <1>1, <1>3, <4>1
      <4>3. InWait(r, x, i, 1)
        BY <1>1, <4>2 DEF InWait, n
      <4>4. QED
        BY <3>1, <4>1, <4>3 DEF Asks
    <3>5. QED
      BY <3>3, <3>4
  <2>2. CASE i = L + 1
    <3>1. x[i] = f /\ h.op = OpRequest
      BY <1>1, <1>11, <2>2 DEF h
    <3>2. s.replay_requests > 0 /\ h.ack_request = RequestTarget(s, r)
      BY <1>7, <3>1
    <3>3. old \in 1..(Span + 2)
      BY <1>6, <3>2
    <3>4. CASE L + old < t.ignore_count
      <4>1. i < t.ignore_count
        BY <1>1, <1>3, <2>2, <3>3, <3>4
      <4>2. QED
        BY <4>1 DEF Asks
    <3>5. CASE ~(L + old < t.ignore_count)
      <4>1. r.replay /\ m = 0 /\ h.ack_request = Successor(b) /\ n + old <= Span + 2
        BY <1>10, <3>2, <3>5
      <4>2. L + 1 < i + n + 1 /\ i + n + 1 <= (L + 1) + Span + 2
        BY <1>1, <1>3, <2>2, <3>3, <4>1
      <4>3. InWait(r, x, i, 1)
        BY <1>1, <4>2 DEF InWait, n
      <4>4. QED
        BY <3>1, <4>1, <4>3 DEF Asks, h
    <3>6. QED
      BY <3>4, <3>5
  <2>3. QED
    BY <1>1, <2>1, <2>2
<1>12. ASSUME z.replay_requests > 0
       PROVE  WillAsk(t, r, m, z, g2, sel.tx, x, 1)
  <2>1. /\ z.replay_requests = IF SendsRequest(s, sel, Requested(s, g))
                                 THEN s.replay_requests - 1 ELSE s.replay_requests
        /\ z.request_sequence = IF SendsRequest(s, sel, Requested(s, g))
                                  THEN RequestTarget(s, r) ELSE s.request_sequence
    BY DEF NextSchedule
  <2>2. s.replay_requests > 0 /\ s.replay_requests \in Nat
    BY <1>12, <2>1 DEF SendsRequest, Schedules, ScheduleStates
  <2>3. new <= old - 1 /\ new \in Int /\ old \in 1..(Span + 2)
    BY <1>5, <1>6, <1>12, <2>2
  <2>4. CASE L + old < t.ignore_count
    <3>1. (L + 1) + new < t.ignore_count
      BY <1>1, <1>3, <2>3, <2>4
    <3>2. QED
      BY <1>1, <3>1 DEF WillAsk, new
  <2>5. CASE ~(L + old < t.ignore_count)
    <3>1. /\ r.replay /\ m = 0 /\ RequestTarget(s, r) = Successor(b)
          /\ s.replay_requests = RequestCopies \/ s.request_sequence = Successor(b)
          /\ n + old <= Span + 2
      BY <1>10, <2>2, <2>5
    <3>2. z.replay_requests = RequestCopies \/ z.request_sequence = Successor(b)
      BY <2>1, <3>1
    <3>3. n + 1 + new <= Span + 2
      BY <1>3, <2>3, <3>1
    <3>4. QED
      BY <3>1, <3>2, <3>3 DEF WillAsk, n, new
  <2>6. QED
    BY <2>4, <2>5
<1>13. Requests(t, r, m, z, g2, sel.tx, x, 1)
  BY <1>1, <1>11, <1>12 DEF Requests
<1>14. QED
  BY <1>2, <1>9, <1>13 DEF Placed, x, g2
-------------------------------------------------------------------------------
(* The four events, for all of a direction.                                    *)

\* What a direction says without its places.
LEMMA DirectionParts ==
  ASSUME NEW t, NEW r, NEW w, NEW v, NEW s, NEW g, NEW u, NEW turn,
         Direction(t, r, w, v, s, g, u, turn)
  PROVE  /\ Behind(t, r.last_sequence) /\ Acks(t, r.last_sequence, v)
         /\ Schedules(s, g) /\ JustStarted(u, turn)
         /\ r \in RxStates /\ r.last_sequence \in SequenceNumbers
         /\ \A i \in 1..Len(w) : Targeted(Command(w[i]))
<1>1. PICK m \in Nat, o \in [0..Len(w) -> 0..Missing(t, r.last_sequence)] :
        Placed(t, r, w, v, s, g, u, turn, o, m)
  BY DEF Direction
<1>2. /\ Behind(t, r.last_sequence) /\ Acks(t, r.last_sequence, v)
      /\ Flits(t, r.last_sequence, w, o, m) /\ Tracks(r, o, m)
  BY <1>1 DEF Placed
<1>3. ASSUME NEW i \in 1..Len(w)
      PROVE  Targeted(Command(w[i]))
  <2> DEFINE x == Command(w[i])
             y == Nth(r.last_sequence, o[i])
  <2>1. Says(x, x.payload, y)
    BY <1>2 DEF Flits, Carries
  <2> HIDE DEF x, y
  <2>2. x.op \in CommandOps => x.ack_request \in SequenceNumbers
    BY <2>1 DEF Says, CommandOps, OpAck, OpRequest, OpExplicit, OpReplay
  <2>3. QED
    BY <2>2 DEF Targeted, x
<1>4. r \in RxStates /\ r.last_sequence \in SequenceNumbers
  BY <1>2 DEF Tracks, RxStates
<1>5. QED
  BY <1>2, <1>3, <1>4 DEF Direction

\* The header of the Flit sent says what was selected.
LEMMA SentSays ==
  ASSUME NEW s, NEW g, Schedules(s, g), NEW r, r.last_sequence \in SequenceNumbers,
         NEW t, NEW b, NEW payload, NEW sel, Selected(t, b, payload, sel), NEW requested,
         NEW f, f = Sent(s, r, sel, requested)
  PROVE  f \in Flit /\ Written(s, r, sel, requested, Command(f)) /\ f.payload = sel.entry.payload
<1>1. f.header = NextHeader(s, r, sel, requested) /\ f.payload = sel.entry.payload
      /\ f = [header |-> f.header, payload |-> f.payload]
  BY DEF Sent
<1>2. /\ sel.payload \in BOOLEAN /\ sel.replayed \in BOOLEAN /\ (sel.replayed => sel.payload)
      /\ sel.entry.sequence \in SequenceNumbers
      /\ sel.entry.payload \in Payloads \cup {NoPayload}
  BY DEF Selected
<1>3. Written(s, r, sel, requested, Command(f)) /\ f.header \in Int
  BY <1>1, <1>2, HeaderSays
<1>4. QED
  BY <1>1, <1>2, <1>3 DEF Flit

\* The transmitter's peer sends.
LEMMA DirectionSends ==
  ASSUME NEW t, NEW r, NEW w \in Seq(Flit), NEW v, NEW s, NEW g, NEW u, NEW turn,
         Direction(t, r, w, v, s, g, u, turn),
         NEW payload, NEW sel, Selected(t, r.last_sequence, payload, sel),
         NEW s2, NEW g2, Schedules(s2, g2), NEW r2, r2.last_sequence \in SequenceNumbers,
         NEW f, f = Sent(s2, r2, sel, Requested(s2, g2))
  PROVE  Direction(sel.tx, r, Append(w, f), v, s, g, u, turn)
<1> DEFINE z == sel.tx
           b == r.last_sequence
           x == Missing(z, b) - Len(z.scheduled)
<1>1. PICK m \in Nat, o \in [0..Len(w) -> 0..Missing(t, b)] :
        Placed(t, r, w, v, s, g, u, turn, o, m)
  BY DEF Direction
<1>2. f \in Flit /\ Written(s2, r2, sel, Requested(s2, g2), Command(f))
      /\ f.payload = sel.entry.payload
  BY SentSays
<1>3. /\ Placed(z, r, Append(w, f), v, s, g, u, turn, Extended(w, o, x), m)
      /\ Extended(w, o, x) \in [0..Len(Append(w, f)) -> 0..Missing(z, b)]
  BY <1>1, <1>2, SenderSends, ZenonT(40)
<1>4. QED
  BY <1>3 DEF Direction

\* The receiver's peer sends.
LEMMA DirectionAnswers ==
  ASSUME Configured, NEW t, NEW r, NEW w, NEW v \in Seq(Flit), NEW s, NEW g, NEW u,
         Direction(t, r, w, v, s, g, u, 0),
         NEW b, Behind(u, b), NEW payload, NEW sel, Selected(u, b, payload, sel),
         sel.first => u.first_replay,
         NEW f, f = Sent(s, r, sel, Requested(s, g)),
         NEW z, z = NextSchedule(s, r, sel, Requested(s, g))
  PROVE  Direction(t, r, w, Append(v, f), z, NextGroup(g), sel.tx, 1)
<1>1. PICK m \in Nat, o \in [0..Len(w) -> 0..Missing(t, r.last_sequence)] :
        Placed(t, r, w, v, s, g, u, 0, o, m)
  BY DEF Direction
<1>2. /\ Schedules(s, g) /\ JustStarted(u, 0) /\ r \in RxStates
      /\ r.last_sequence \in SequenceNumbers
  BY DirectionParts
<1>3. f \in Flit /\ Written(s, r, sel, Requested(s, g), Command(f))
  BY <1>2, SentSays
<1>4. u.ignore_count \in Nat
  BY GoodParts, IgnoreWindowAssumption DEF Behind
<1>5. (u.first_replay => sel.first) /\ sel.tx.ignore_count = u.ignore_count
      /\ ~sel.tx.first_replay
  BY DEF Selected
<1>6. Placed(t, r, w, Append(v, f), z, NextGroup(g), sel.tx, 1, o, m)
  BY <1>1, <1>2, <1>3, <1>4, <1>5, ReceiverSends
<1>7. Schedules(z, NextGroup(g)) /\ JustStarted(sel.tx, 1)
  BY <1>2, <1>4, <1>5, SendingBringsNearer
<1>8. QED
  BY <1>6, <1>7 DEF Direction

\* An event delivers the next payload of the buffer or none.
Delivers(t, r, w, out) ==
  LET b == r.last_sequence
      c == out.state.last_sequence
  IN  /\ Got(t, c) = Got(t, b) + Bit(out.deliver)
      /\ Missing(t, c) = Missing(t, b) - Bit(out.deliver)
      /\ Bit(out.deliver) = 1 => /\ Missing(t, b) >= 1
                                 /\ w[1].payload = t.buffer[Got(t, b) + 1].payload

\* The receiver's peer receives.
LEMMA DirectionReceives ==
  ASSUME Configured, NEW t, NEW r, NEW w \in Seq(Flit), NEW v \in Seq(Flit), Len(v) <= Latency,
         NEW s, NEW g, NEW u, u.ignore_count \in Nat, NEW z, Aged(u, z),
         Direction(t, r, w, v, s, g, u, 1), w # << >>,
         NEW crc_ok \in BOOLEAN, NEW out,
         out = RxReceive(r, Command(w[1]), crc_ok) \/ out = RxDiscard(r)
  PROVE  /\ Direction(t, out.state, Tail(w), v, Asked(s, out), g, z, 0)
         /\ Delivers(t, r, w, out)
<1> DEFINE b == r.last_sequence
           d == Bit(out.deliver)
           c == out.state.last_sequence
           x == Tail(w)
           y == Asked(s, out)
<1>1. PICK m \in Nat, o \in [0..Len(w) -> 0..Missing(t, b)] :
        Placed(t, r, w, v, s, g, u, 1, o, m)
  BY DEF Direction
<1>2. /\ Behind(t, b) /\ Acks(t, b, v) /\ Flits(t, b, w, o, m) /\ Tracks(r, o, m)
      /\ Requests(t, r, m, s, g, u, v, 1)
  BY <1>1 DEF Placed
<1>3. /\ Schedules(s, g) /\ JustStarted(u, 1) /\ r \in RxStates
  BY DirectionParts
<1>4. d \in 0..1 /\ Moves(t, r, w, o, m, out, d)
  BY <1>2, ReceiverReceives
<1> HIDE DEF d, x
<1>5. /\ d = 1 => m <= 1 /\ o[1] = 1 /\ w[1].payload = t.buffer[Got(t, b) + 1].payload
      /\ c = Nth(b, d)
      /\ Tracks(out.state, Remaining(w, o, d), Restart(m))
      /\ Waits(r, m, out)
  BY <1>4 DEF Moves
<1>6. /\ Behind(t, c) /\ Flits(t, c, x, Remaining(w, o, d), Restart(m))
      /\ Got(t, c) = Got(t, b) + d /\ Missing(t, c) = Missing(t, b) - d
  <2>1. (d = 1 => m <= 1 /\ o[1] = 1) /\ c = Nth(b, d) /\ d \in 0..1
    BY <1>4, <1>5
  <2> HIDE DEF b, c
  <2>2. Behind(t, b) /\ Flits(t, b, w, o, m)
    BY <1>2
  <2>3. QED
    BY <2>1, <2>2, Arrived, SMTT(30) DEF x
<1>7. /\ Got(t, b) \in Nat /\ Missing(t, b) \in Nat /\ Missing(t, c) \in Nat
      /\ Good(t) /\ t.ignore_count \in Nat
  BY <1>2, <1>6, BehindParts, WindowIsHalf, GoodParts, IgnoreWindowAssumption
<1>8. /\ Requests(t, out.state, Restart(m), y, g, z, v, 0)
      /\ Schedules(y, g) /\ JustStarted(z, 0)
  <2>1. out.state \in RxStates
    BY <1>5 DEF Tracks
  <2>2. QED
    BY <1>2, <1>3, <1>5, <1>7, <2>1, ReceiverAsks
<1>9. Acks(t, c, v)
  <2>1. ASSUME NEW i \in 1..Len(v)
        PROVE  Acknowledges(t, v[i], Got(t, c))
    <3>1. ASSUME Command(v[i]).op = OpAck
          PROVE  /\ Command(v[i]).ack_request \in SequenceNumbers
                 /\ Distance(t.last_ack, Command(v[i]).ack_request) <= Got(t, c)
      <4> DEFINE a == Command(v[i]).ack_request
                 e == Distance(t.last_ack, a)
      <4>1. a \in SequenceNumbers /\ e <= Got(t, b)
        BY <1>2, <3>1 DEF Acks, Acknowledges
      <4>2. e \in Nat
        <5>1. t.last_ack \in SequenceNumbers
          BY <1>7, GoodParts
        <5>2. QED
          BY <4>1, <5>1, NthOfDistance
      <4> HIDE DEF e
      <4>3. e <= Got(t, c)
        BY <1>4, <1>6, <1>7, <4>1, <4>2
      <4>4. QED
        BY <4>1, <4>3 DEF e
    <3>2. QED
      BY <3>1 DEF Acknowledges
  <2>2. QED
    BY <1>2, <2>1 DEF Acks
<1>10. Delivers(t, r, w, out)
  <2>1. d = 1 => Missing(t, b) >= 1
    BY <1>6, <1>7
  <2>2. QED
    BY <1>5, <1>6, <2>1 DEF Delivers, d
<1>11. Placed(t, out.state, x, v, y, g, z, 0, Remaining(w, o, d), Restart(m))
  BY <1>5, <1>6, <1>8, <1>9 DEF Placed
<1>12. Restart(m) \in Nat
  BY DEF Restart
<1>13. Remaining(w, o, d) \in [0..Len(x) -> 0..Missing(t, c)]
  BY <1>6 DEF Flits
<1>14. QED
  BY <1>8, <1>10, <1>11, <1>12, <1>13 DEF Direction, x

\* The transmitter's peer receives.
LEMMA DirectionObeys ==
  ASSUME Configured, NEW t, NEW r, NEW w \in Seq(Flit), NEW v \in Seq(Flit),
         NEW s, NEW g, NEW u, NEW turn \in 0..1, Direction(t, r, w, v, s, g, u, turn), v # << >>,
         Len(v) + Len(w) + 1 <= 2 * Latency + turn,
         Targeted(Command(v[1])), NEW crc_ok \in BOOLEAN,
         NEW z, z = TxReceive(t, Command(v[1]), crc_ok) \/ z = AgeIgnore(t)
  PROVE  /\ Direction(z, r, w, Tail(v), s, g, u, turn)
         /\ Aged(t, z) /\ Undisturbed(t, z, r.last_sequence)
<1> DEFINE b == r.last_sequence
           x == Tail(v)
<1>1. PICK m \in Nat, o \in [0..Len(w) -> 0..Missing(t, b)] :
        Placed(t, r, w, v, s, g, u, turn, o, m)
  BY DEF Direction
<1>2. /\ Schedules(s, g) /\ JustStarted(u, turn) /\ r \in RxStates
  BY DirectionParts
<1>3. /\ Aged(t, z) /\ Undisturbed(t, z, b)
      /\ \E y \in {m, Len(w) + 1} : Placed(z, r, w, x, s, g, u, turn, o, y)
  BY <1>1, <1>2, SenderReceives, SMTT(30)
<1> HIDE DEF x
<1>4. PICK y \in {m, Len(w) + 1} : Placed(z, r, w, x, s, g, u, turn, o, y)
  BY <1>3
<1>5. y \in Nat
  BY <1>4
<1>6. o \in [0..Len(w) -> 0..Missing(z, b)]
  BY <1>3 DEF Undisturbed
<1>7. QED
  BY <1>2, <1>3, <1>4, <1>5, <1>6 DEF Direction, x

\* An interval in which nothing is asked for changes nothing.
LEMMA DirectionQuiet ==
  ASSUME NEW t, NEW r, NEW w, NEW v, NEW s, NEW g, NEW u,
         Direction(t, r, w, v, s, g, u, 1), s.replay_requests = 0,
         \A i \in 1..Len(v) : Command(v[i]).op # OpRequest
  PROVE  Direction(t, r, w, v, s, g, u, 0)
<1>1. PICK m \in Nat, o \in [0..Len(w) -> 0..Missing(t, r.last_sequence)] :
        Placed(t, r, w, v, s, g, u, 1, o, m)
  BY DEF Direction
<1>2. JustStarted(u, 0) /\ Schedules(s, g)
  <2>1. JustStarted(u, 1) /\ Schedules(s, g)
    BY DEF Direction
  <2>2. ~u.first_replay
    BY <2>1 DEF JustStarted
  <2>3. QED
    BY <2>1, <2>2 DEF JustStarted
<1>3. Requests(t, r, m, s, g, u, v, 0)
  BY DEF Requests
<1>4. QED
  BY <1>1, <1>2, <1>3 DEF Placed, Direction
-------------------------------------------------------------------------------
(* What is not delivered yet.                                                  *)

Rest(t, b) == [i \in 1..Missing(t, b) |-> t.buffer[Got(t, b) + i].payload]

\* A function on 1..n is a sequence of length n.
LEMMA LengthOf ==
  ASSUME NEW S, NEW n \in Nat, NEW x \in [1..n -> S]
  PROVE  x \in Seq(S) /\ Len(x) = n
<1>1. x \in Seq(S)
  BY SeqDef
<1>2. Len(x) \in Nat /\ DOMAIN x = 1..Len(x) /\ DOMAIN x = 1..n
  BY <1>1, LenProperties
<1>3. QED
  BY <1>1, <1>2

\* Only a new payload that is sent adds to it.
LEMMA RestSent ==
  ASSUME NEW t, NEW b, Behind(t, b), NEW payload, NEW sel, Selected(t, b, payload, sel)
  PROVE  Rest(sel.tx, b) = IF sel.payload /\ ~sel.replayed THEN Append(Rest(t, b), payload)
                           ELSE Rest(t, b)
<1> DEFINE z == sel.tx
           n == Missing(t, b)
           D == Got(t, b)
           new == sel.payload /\ ~sel.replayed
<1>1. /\ Missing(z, b) = n + Bit(new) /\ Got(z, b) = D /\ n \in 0..Window /\ Window \in Nat
      /\ \A i \in 1..n : z.buffer[D + i] = t.buffer[D + i]
      /\ new => z.buffer[(D + n) + 1].payload = payload
      /\ D \in 0..Window
  BY BehindParts, WindowIsHalf DEF Selected, Got
<1> DEFINE x == Rest(t, b)
           y == Rest(z, b)
<1>2. x = [i \in 1..n |-> t.buffer[D + i].payload]
  BY DEF Rest
<1>3. y = [i \in 1..(n + Bit(new)) |-> z.buffer[D + i].payload]
  BY <1>1 DEF Rest
<1> HIDE DEF x, y, n, D, new
<1>4. CASE new
  <2>1. n + Bit(new) = n + 1
    BY <1>1, <1>4 DEF Bit
  <2> DEFINE S == {x[i] : i \in 1..n} \cup {payload}
  <2>2. n \in Nat /\ payload \in S /\ x \in [1..n -> S]
    <3>1. \A i \in 1..n : x[i] \in S
      OBVIOUS
    <3>2. n \in Nat /\ payload \in S
      BY <1>1
    <3> HIDE DEF S
    <3>3. x = [i \in 1..n |-> x[i]]
      BY <1>2
    <3>4. QED
      BY <3>1, <3>2, <3>3
  <2> HIDE DEF S
  <2>3. /\ Append(x, payload) \in Seq(S) /\ Len(Append(x, payload)) = n + 1
        /\ \A i \in 1..n : Append(x, payload)[i] = x[i]
        /\ Append(x, payload)[n + 1] = payload
    BY <2>2, LengthOf, AppendProperties
  <2>4. y = Append(x, payload)
    <3>1. ASSUME NEW i \in 1..(n + 1)
          PROVE  z.buffer[D + i].payload = Append(x, payload)[i]
      <4>1. CASE i = n + 1
        <5>1. D + i = (D + n) + 1
          BY <1>1, <4>1
        <5>2. QED
          BY <1>1, <1>4, <2>3, <4>1, <5>1
      <4>2. CASE i # n + 1
        <5>1. i \in 1..n
          BY <1>1, <4>2
        <5>2. QED
          BY <1>1, <1>2, <2>3, <5>1
      <4>3. QED
        BY <4>1, <4>2
    <3> DEFINE c == Append(x, payload)
    <3>2. c \in Seq(S) /\ Len(c) = n + 1
      BY <2>3
    <3>3. c \in [1..(n + 1) -> S]
      BY <3>2, LenProperties
    <3>4. y = [i \in 1..(n + 1) |-> z.buffer[D + i].payload]
      BY <1>3, <2>1
    <3>5. \A i \in 1..(n + 1) : z.buffer[D + i].payload = c[i]
      BY <3>1
    <3> HIDE DEF c
    <3>6. y = c
      BY <3>3, <3>4, <3>5
    <3>7. QED
      BY <3>6 DEF c
  <2>5. QED
    BY <1>4, <2>4 DEF x, y, new
<1>5. CASE ~new
  <2>1. n + Bit(new) = n
    BY <1>1, <1>5 DEF Bit
  <2>2. y = x
    BY <1>1, <1>2, <1>3, <2>1
  <2>3. QED
    BY <1>5, <2>2 DEF x, y, new
<1>6. QED
  BY <1>4, <1>5

\* An event takes the first of x and leaves y, or takes nothing.
Shortened(x, y, w, out) ==
  /\ out.deliver => x # << >> /\ Head(x) = w[1].payload /\ y = Tail(x)
  /\ ~out.deliver => y = x

\* What is delivered is its head.
LEMMA RestDelivered ==
  ASSUME NEW t, NEW r, NEW b, b = r.last_sequence, Behind(t, b), NEW w, NEW out,
         Delivers(t, r, w, out), NEW c, c = out.state.last_sequence
  PROVE  Shortened(Rest(t, b), Rest(t, c), w, out)
<1> DEFINE n == Missing(t, b)
           D == Got(t, b)
           x == Rest(t, b)
           y == Rest(t, c)
<1>1. n \in 0..Window /\ D \in 0..Window /\ Window \in Nat
  BY BehindParts, WindowIsHalf
<1>2. /\ Got(t, c) = D + Bit(out.deliver)
      /\ Missing(t, c) = n - Bit(out.deliver)
      /\ Bit(out.deliver) = 1 => n >= 1 /\ w[1].payload = t.buffer[D + 1].payload
  BY DEF Delivers
<1>3. x = [i \in 1..n |-> t.buffer[D + i].payload]
  BY DEF Rest
<1>4. y = [i \in 1..Missing(t, c) |-> t.buffer[Got(t, c) + i].payload]
  BY DEF Rest
<1> HIDE DEF n, D, x, y
<1>5. CASE out.deliver
  <2>1. Bit(out.deliver) = 1
    BY <1>5 DEF Bit
  <2>2. Got(t, c) = D + 1 /\ Missing(t, c) = n - 1 /\ n >= 1
        /\ w[1].payload = t.buffer[D + 1].payload
    BY <1>2, <2>1
  <2> DEFINE S == {x[i] : i \in 1..n}
             e == Tail(x)
  <2>3. n \in Nat /\ x \in [1..n -> S]
    <3>1. \A i \in 1..n : x[i] \in S
      OBVIOUS
    <3> HIDE DEF S
    <3>2. x = [i \in 1..n |-> x[i]]
      BY <1>3
    <3>3. QED
      BY <1>1, <3>1, <3>2
  <2> HIDE DEF S
  <2>4. x \in Seq(S) /\ Len(x) = n /\ x # << >>
    <3>1. x \in Seq(S) /\ Len(x) = n
      BY <2>3, LengthOf
    <3>2. QED
      BY <2>2, <3>1, EmptySeq
  <2>5. e \in Seq(S) /\ Len(e) = n - 1 /\ \A i \in 1..(n - 1) : e[i] = x[i + 1]
    BY <2>4, HeadTailProperties
  <2>6. ASSUME NEW i \in 1..(n - 1)
        PROVE  t.buffer[(D + 1) + i].payload = e[i]
    <3>1. i + 1 \in 1..n /\ (D + 1) + i = D + (i + 1)
      BY <1>1
    <3>2. QED
      BY <1>3, <2>5, <3>1
  <2>7. y = Tail(x)
    <3>1. e \in [1..(n - 1) -> S]
      BY <2>5, LenProperties
    <3>2. y = [i \in 1..(n - 1) |-> t.buffer[(D + 1) + i].payload]
      BY <1>4, <2>2
    <3> HIDE DEF e
    <3>3. y = e
      BY <2>6, <3>1, <3>2
    <3>4. QED
      BY <3>3 DEF e
  <2>8. Head(x) = w[1].payload
    <3>1. 1 \in 1..n
      BY <1>1, <2>2
    <3>2. QED
      BY <1>3, <2>2, <2>4, <3>1
  <2>9. QED
    BY <1>5, <2>4, <2>7, <2>8 DEF x, y, Shortened
<1>6. CASE ~out.deliver
  <2>1. Bit(out.deliver) = 0
    BY <1>6 DEF Bit
  <2>2. Got(t, c) = D /\ Missing(t, c) = n
    BY <1>1, <1>2, <2>1
  <2>3. y = x
    BY <1>3, <1>4, <2>2
  <2>4. QED
    BY <1>6, <2>3 DEF x, y, Shortened
<1>7. QED
  BY <1>5, <1>6

\* Nothing else disturbs it.
LEMMA RestUndisturbed ==
  ASSUME NEW t, NEW z, NEW b, Undisturbed(t, z, b)
  PROVE  Rest(z, b) = Rest(t, b)
BY DEF Undisturbed, Rest
-------------------------------------------------------------------------------
(* The link.                                                                   *)

\* 1 between a Flit that q sent and the next one it receives.
Turn(q) ==
  IF (phase = "receive" /\ q \in pending) \/ (phase = "send" /\ q \notin pending)
  THEN 1 ELSE 0

Way(p) ==
  Direction(tx[p], rx[Other(p)], wire[Other(p)], wire[p],
            sched[Other(p)], group[Other(p)], tx[Other(p)], Turn(Other(p)))

LinkTypes ==
  /\ tx \in [Peers -> TxStates] /\ rx \in [Peers -> RxStates]
  /\ sched \in [Peers -> ScheduleStates] /\ group \in [Peers -> 0..GroupSpan]
  /\ wire \in [Peers -> Seq(Flit)]
  /\ offered \in [Peers -> Payloads] /\ delivered \in [Peers -> Payloads \cup {NoPayload}]

\* While the wires fill up, nobody has asked for anything.
Quiet(p) ==
  /\ sched[p].replay_requests = 0
  /\ \A i \in 1..Len(wire[p]) : Command(wire[p][i]).op # OpRequest

\* What is on the wires in an interval: Latency Flits when the peers begin to
\* receive, one less when they begin to send, and fewer at first.
Timing ==
  /\ pending \subseteq Peers /\ pending # {}
  /\ \/ /\ phase = "receive"
        /\ \A p \in Peers : Len(wire[p]) = IF p \in pending THEN Latency ELSE Latency - 1
     \/ /\ phase = "send"
        /\ \E j \in 0..(Latency - 1) :
             /\ \A p \in Peers : Len(wire[Other(p)]) = IF p \in pending THEN j ELSE j + 1
             /\ j < Latency - 1 => \A p \in Peers : Quiet(p)

LinkInv == LinkTypes /\ Timing /\ \A p \in Peers : Way(p)

\* There are two peers.
LEMMA TwoPeers ==
  ASSUME NEW p \in Peers
  PROVE  /\ Other(p) \in Peers /\ Other(p) # p /\ Other(Other(p)) = p
         /\ Peers = {p, Other(p)}
BY PeersAssumption DEF Other

\* A first Flit of a replay is selected only when there is one.
LEMMA SelectFirst ==
  ASSUME NEW t, NEW offer, NEW payload, NEW sel, sel = Select(t, offer, payload), sel.first
  PROVE  t.first_replay
BY DEF Select, Selection, Nop
-------------------------------------------------------------------------------
(* The beginning.                                                              *)

\* Two endpoints after reset have nothing under way and nothing missing.
LEMMA DirectionStarts ==
  Direction(TxReset, RxReset, << >>, << >>, ScheduleReset, 0, TxReset, 0)
<1> DEFINE t == TxReset
           r == RxReset
           s == ScheduleReset
           b == r.last_sequence
           w == << >>
           o == [i \in 0..0 |-> 0]
<1>1. /\ SeqMax \in Nat /\ SeqMax >= 3 /\ IgnoreWindow \in Nat
      /\ ReplayLimit \in Nat /\ Window \in Nat
  BY SeqMaxAssumption, IgnoreWindowAssumption, ReplayLimitAssumption, WindowIsHalf
<1>2. /\ t.last_ack = SeqMax /\ t.ignore_count = 0 /\ ~t.first_replay
      /\ t.buffer = << >> /\ t.scheduled = << >>
      /\ b = SeqMax /\ r.bad_crc_count = 0 /\ r.unexpected_count = 0
      /\ ~r.ambiguous /\ ~r.replay
      /\ s.replay_requests = 0 /\ ~s.request_in_group
  BY DEF TxReset, RxReset, ScheduleReset
<1>3. Good(t) /\ r \in RxStates /\ b \in SequenceNumbers
  <2>1. b \in SequenceNumbers
    BY <1>1, <1>2 DEF SequenceNumbers
  <2>2. QED
    BY <2>1, ResetGood, AcceptedState
<1>4. Len(t.buffer) = 0 /\ Len(t.scheduled) = 0 /\ Len(w) = 0
  BY <1>2
<1>5. Got(t, b) = 0
  <2>1. SeqMax \in SequenceNumbers
    BY <1>1 DEF SequenceNumbers
  <2>2. Distance(SeqMax, SeqMax) = 0
    BY <1>1, <2>1, DistanceInRing
  <2>3. QED
    BY <1>2, <2>2 DEF Got
<1>6. Missing(t, b) = 0
  BY <1>4, <1>5 DEF Missing
<1> HIDE DEF t, r, s, b
<1>7. Behind(t, b)
  BY <1>3, <1>4, <1>5, <1>6 DEF Behind
<1>8. Acks(t, b, w)
  BY <1>4 DEF Acks
<1>9. o \in [0..0 -> 0..0] /\ o[0] = 0
  OBVIOUS
<1>10. Flits(t, b, w, o, 0)
  <2>1. /\ 0 \in 0..(Len(w) + 1) /\ 0 # Len(w) + 1
        /\ o \in [0..Len(w) -> 0..Missing(t, b)]
        /\ o[Len(w)] = Missing(t, b) - Len(t.scheduled)
    BY <1>4, <1>6, <1>9
  <2>2. \A i \in 1..Len(w) : Carries(t, b, w[i], o[i - 1], o[i], i = 0)
    BY <1>4
  <2> HIDE DEF w
  <2>3. \A i, j \in 0..Len(w) : o[i] <= o[j]
    BY <1>4, <1>9
  <2> HIDE DEF o
  <2>4. QED
    BY <1>2, <2>1, <2>2, <2>3 DEF Flits
<1>11. Tracks(r, o, 0)
  <2>1. BadLimit \in Nat /\ BadLimit > 0
    BY BadLimitAssumption
  <2> HIDE DEF o
  <2>2. QED
    BY <1>1, <1>2, <1>3, <1>9, <2>1 DEF Tracks
<1>12. Requests(t, r, 0, s, 0, t, w, 0)
  BY <1>2, <1>4 DEF Requests
<1>13. Schedules(s, 0)
  <2>1. /\ ExplicitPeriod \in Nat \ {0} /\ RequestCopies \in Nat /\ GroupSpan \in Nat
    BY ScheduleAssumption
  <2>2. s \in ScheduleStates
    BY <1>1, <2>1 DEF s, ScheduleReset, ScheduleStates
  <2>3. QED
    BY <1>2, <2>1, <2>2 DEF Schedules
<1>14. JustStarted(t, 0)
  BY <1>2 DEF JustStarted
<1>15. Placed(t, r, w, w, s, 0, t, 0, o, 0)
  BY <1>7, <1>8, <1>10, <1>11, <1>12 DEF Placed, b
<1>16. o \in [0..Len(w) -> 0..Missing(t, b)]
  BY <1>4, <1>6, <1>9
<1>17. Direction(t, r, w, w, s, 0, t, 0)
  BY <1>13, <1>14, <1>15, <1>16 DEF Direction, b
<1>18. QED
  BY <1>17 DEF t, r, s

\* The initial states of the link.
LEMMA LinkStarts ==
  ASSUME LockInit
  PROVE  LinkInv
<1>1. /\ tx = [p \in Peers |-> TxReset] /\ rx = [p \in Peers |-> RxReset]
      /\ sched = [p \in Peers |-> ScheduleReset] /\ group = [p \in Peers |-> 0]
      /\ wire = [p \in Peers |-> << >>] /\ offered = [p \in Peers |-> 0]
      /\ delivered = [p \in Peers |-> NoPayload]
      /\ phase = "send" /\ pending = Peers
  BY DEF LockInit, Init
<1>2. /\ TxReset \in TxStates /\ RxReset \in RxStates /\ ScheduleReset \in ScheduleStates
      /\ ScheduleReset.replay_requests = 0
  <2>1. /\ Good(TxReset) /\ Schedules(ScheduleReset, 0) /\ RxReset \in RxStates
    BY DirectionStarts, DirectionParts DEF Behind
  <2>2. TxReset \in TxStates
    BY <2>1, GoodParts
  <2>3. QED
    BY <2>1, <2>2 DEF Schedules, ScheduleReset
<1>3. LinkTypes
  <2>1. GroupSpan \in Nat
    BY ScheduleAssumption
  <2>2. 0 \in Payloads
    <3> DEFINE K == Cardinality(Payloads)
    <3>1. K \in Nat \ {0} /\ Payloads = 0..(K - 1)
      BY BoundsAssumption
    <3> HIDE DEF K
    <3>2. QED
      BY <3>1
  <2>3. << >> \in Seq(Flit)
    BY EmptySeq
  <2>4. QED
    BY <1>1, <1>2, <2>1, <2>2, <2>3 DEF LinkTypes
<1>4. Timing
  <2>1. \A p \in Peers : Other(p) \in Peers
    BY TwoPeers
  <2>2. \A p \in Peers : Len(wire[p]) = 0 /\ Quiet(p)
    BY <1>1, <1>2 DEF Quiet
  <2>3. 0 \in 0..(Latency - 1)
    BY BoundsAssumption
  <2>4. Peers # {}
    BY PeersAssumption
  <2>5. QED
    BY <1>1, <2>1, <2>2, <2>3, <2>4 DEF Timing
<1>5. ASSUME NEW p \in Peers
      PROVE  Way(p)
  <2>1. Other(p) \in Peers
    BY TwoPeers
  <2>2. Turn(Other(p)) = 0
    BY <1>1, <2>1 DEF Turn
  <2>3. QED
    BY <1>1, <2>1, <2>2, DirectionStarts DEF Way
<1>6. QED
  BY <1>3, <1>4, <1>5 DEF LinkInv
-------------------------------------------------------------------------------
(* A peer sends.                                                               *)

\* What a peer finds in the invariant: the other one, and both directions.
LEMMA LinkParts ==
  ASSUME LinkInv, NEW p \in Peers, NEW q, q = Other(p)
  PROVE  /\ q \in Peers /\ q # p /\ Other(q) = p /\ Peers = {p, q}
         /\ Direction(tx[p], rx[q], wire[q], wire[p], sched[q], group[q], tx[q], Turn(q))
         /\ Direction(tx[q], rx[p], wire[p], wire[q], sched[p], group[p], tx[p], Turn(p))
         /\ wire[p] \in Seq(Flit) /\ wire[q] \in Seq(Flit)
         /\ Behind(tx[p], rx[q].last_sequence) /\ Behind(tx[q], rx[p].last_sequence)
         /\ tx[p].ignore_count \in Nat
<1>1. q \in Peers /\ q # p /\ Other(q) = p /\ Peers = {p, q}
  BY TwoPeers
<1>2. /\ Direction(tx[p], rx[q], wire[q], wire[p], sched[q], group[q], tx[q], Turn(q))
      /\ Direction(tx[q], rx[p], wire[p], wire[q], sched[p], group[p], tx[p], Turn(p))
  <2>1. Way(p) /\ Way(q)
    BY <1>1 DEF LinkInv
  <2>2. QED
    BY <1>1, <2>1 DEF Way
<1>3. wire[p] \in Seq(Flit) /\ wire[q] \in Seq(Flit)
  BY <1>1 DEF LinkInv, LinkTypes
<1>4. Behind(tx[p], rx[q].last_sequence) /\ Behind(tx[q], rx[p].last_sequence)
  BY <1>2, DirectionParts
<1>5. tx[p].ignore_count \in Nat
  <2>1. Good(tx[p])
    BY <1>4 DEF Behind
  <2>2. QED
    BY <2>1, GoodParts, IgnoreWindowAssumption
<1>6. QED
  BY <1>1, <1>2, <1>3, <1>4, <1>5

\* What Send leaves behind.
Sends(p, q, sel, f) ==
  LET s == NextSchedule(sched[p], rx[p], sel, Requested(sched[p], group[p]))
  IN  /\ tx' = [tx EXCEPT ![p] = sel.tx] /\ rx' = rx
      /\ sched' = [sched EXCEPT ![p] = s]
      /\ group' = [group EXCEPT ![p] = NextGroup(@)]
      /\ wire' = [wire EXCEPT ![q] = Append(@, f)]
      /\ offered' = [offered EXCEPT ![p] = NextOffer(p, sel)]
      /\ delivered' = delivered
      /\ f = Sent(sched[p], rx[p], sel, Requested(sched[p], group[p]))
      /\ Selected(tx[p], rx[q].last_sequence, offered[p], sel)
      /\ sel.first => tx[p].first_replay
      /\ sel.payload /\ ~sel.replayed => offered[p] \in Payloads

\* Send selects what comes next.
LEMMA SendSelects ==
  ASSUME LinkInv, NEW p \in Peers, NEW offer, Send(p, offer), NEW q, q = Other(p)
  PROVE  \E sel, f : Sends(p, q, sel, f)
<1> DEFINE sel == Select(tx[p], offer, offered[p])
           f == Sent(sched[p], rx[p], sel, Requested(sched[p], group[p]))
<1>1. Behind(tx[p], rx[q].last_sequence)
  BY LinkParts
<1>2. offered[p] \in Payloads
  BY DEF LinkInv, LinkTypes
<1>3. Selected(tx[p], rx[q].last_sequence, offered[p], sel)
  BY <1>1, <1>2, SelectIsNext
<1>4. sel.first => tx[p].first_replay
  BY SelectFirst
<1>5. /\ tx' = [tx EXCEPT ![p] = sel.tx] /\ rx' = rx
      /\ sched' = [sched EXCEPT ![p] =
                     NextSchedule(sched[p], rx[p], sel, Requested(sched[p], group[p]))]
      /\ group' = [group EXCEPT ![p] = NextGroup(@)]
      /\ wire' = [wire EXCEPT ![q] = Append(@, f)]
      /\ offered' = [offered EXCEPT ![p] = NextOffer(p, sel)]
      /\ delivered' = delivered
  BY DEF Send
<1> HIDE DEF sel
<1>6. Sends(p, q, sel, f)
  BY <1>2, <1>3, <1>4, <1>5 DEF Sends
<1>7. QED
  BY <1>6

\* Both directions after it, with the turn of the other peer as it was.
LEMMA SendDirections ==
  ASSUME Configured, LinkInv, NEW p \in Peers, NEW q, q = Other(p), Turn(p) = 0,
         NEW sel, NEW f, Sends(p, q, sel, f)
  PROVE  /\ Direction(tx'[p], rx'[q], wire'[q], wire'[p], sched'[q], group'[q], tx'[q], Turn(q))
         /\ Direction(tx'[q], rx'[p], wire'[p], wire'[q], sched'[p], group'[p], tx'[p], 1)
         /\ Len(wire'[q]) = Len(wire[q]) + 1 /\ Len(wire[q]) \in Nat /\ wire'[p] = wire[p]
         /\ Quiet(p) /\ Quiet(q) => Quiet(p)' /\ Quiet(q)'
         /\ LinkTypes'
<1> DEFINE s == NextSchedule(sched[p], rx[p], sel, Requested(sched[p], group[p]))
           x == Append(wire[q], f)
<1>1. /\ q \in Peers /\ q # p /\ Peers = {p, q}
      /\ Direction(tx[p], rx[q], wire[q], wire[p], sched[q], group[q], tx[q], Turn(q))
      /\ Direction(tx[q], rx[p], wire[p], wire[q], sched[p], group[p], tx[p], 0)
      /\ wire[p] \in Seq(Flit) /\ wire[q] \in Seq(Flit)
      /\ Behind(tx[p], rx[q].last_sequence)
  BY LinkParts
<1>2. /\ Selected(tx[p], rx[q].last_sequence, offered[p], sel)
      /\ sel.first => tx[p].first_replay
      /\ f = Sent(sched[p], rx[p], sel, Requested(sched[p], group[p]))
  BY DEF Sends
<1>3. LinkTypes
  BY DEF LinkInv
<1>4. /\ tx'[p] = sel.tx /\ tx'[q] = tx[q] /\ rx' = rx
      /\ sched'[p] = s /\ sched'[q] = sched[q]
      /\ group'[p] = NextGroup(group[p]) /\ group'[q] = group[q]
      /\ wire'[q] = x /\ wire'[p] = wire[p]
  BY <1>1, <1>3 DEF Sends, LinkTypes
<1>5. Schedules(sched[p], group[p]) /\ rx[p].last_sequence \in SequenceNumbers
  BY <1>1, DirectionParts
<1>6. f \in Flit /\ Written(sched[p], rx[p], sel, Requested(sched[p], group[p]), Command(f))
  BY <1>2, <1>5, SentSays
<1>7. Direction(sel.tx, rx[q], x, wire[p], sched[q], group[q], tx[q], Turn(q))
  BY <1>1, <1>2, <1>5, DirectionSends, ZenonT(40)
<1>8. Direction(tx[q], rx[p], wire[p], x, s, NextGroup(group[p]), sel.tx, 1)
  BY <1>1, <1>2, DirectionAnswers
<1>9. /\ x \in Seq(Flit) /\ Len(x) = Len(wire[q]) + 1 /\ Len(wire[q]) \in Nat
      /\ \A i \in 1..Len(wire[q]) : x[i] = wire[q][i]
      /\ x[Len(wire[q]) + 1] = f
  BY <1>1, <1>6, AppendProperties, LenProperties
<1>10. sched[p].replay_requests = 0 => s.replay_requests = 0 /\ Command(f).op # OpRequest
  <2>1. sched[p].replay_requests = 0 =>
          ~SendsRequest(sched[p], sel, Requested(sched[p], group[p]))
    BY DEF SendsRequest
  <2>2. s.replay_requests = IF SendsRequest(sched[p], sel, Requested(sched[p], group[p]))
                            THEN sched[p].replay_requests - 1 ELSE sched[p].replay_requests
    BY DEF NextSchedule
  <2>3. Command(f).op = OpRequest =>
          SendsRequest(sched[p], sel, Requested(sched[p], group[p]))
    BY <1>6 DEF Written
  <2>4. QED
    BY <2>1, <2>2, <2>3
<1> HIDE DEF s, x
<1>11. Quiet(p) /\ Quiet(q) => Quiet(p)' /\ Quiet(q)'
  <2>1. Quiet(p) => Quiet(p)'
    BY <1>4, <1>10 DEF Quiet
  <2>2. ASSUME Quiet(p), Quiet(q)
        PROVE  Quiet(q)'
    <3>1. sched'[q].replay_requests = 0
      BY <1>4, <2>2 DEF Quiet
    <3>2. ASSUME NEW i \in 1..(Len(wire[q]) + 1)
          PROVE  Command(x[i]).op # OpRequest
      <4>1. CASE i \in 1..Len(wire[q])
        BY <1>9, <2>2, <4>1 DEF Quiet
      <4>2. CASE i = Len(wire[q]) + 1
        BY <1>9, <1>10, <2>2, <4>2 DEF Quiet
      <4>3. QED
        BY <1>9, <4>1, <4>2
    <3>3. QED
      BY <1>4, <1>9, <3>1, <3>2 DEF Quiet
  <2>3. QED
    BY <2>1, <2>2
<1>12. LinkTypes'
  <2>1. sel.tx \in TxStates
    <3>1. Good(sel.tx)
      BY <1>7, DirectionParts DEF Behind
    <3>2. QED
      BY <3>1, GoodParts
  <2>2. s \in ScheduleStates /\ NextGroup(group[p]) \in 0..GroupSpan
    <3>1. Schedules(s, NextGroup(group[p]))
      BY <1>8, DirectionParts
    <3>2. QED
      BY <3>1 DEF Schedules
  <2>3. NextOffer(p, sel) \in Payloads
    <3> DEFINE K == Cardinality(Payloads)
    <3>1. K \in Nat \ {0} /\ Payloads = 0..(K - 1)
      BY BoundsAssumption
    <3>2. NextOffer(p, sel) = IF sel.payload /\ ~sel.replayed THEN (offered[p] + 1) % K
                              ELSE offered[p]
      BY DEF NextOffer
    <3>3. offered[p] \in Payloads
      BY <1>3 DEF LinkTypes
    <3> HIDE DEF K
    <3>4. (offered[p] + 1) % K \in 0..(K - 1)
      BY <3>1, <3>3
    <3>5. QED
      BY <3>1, <3>2, <3>3, <3>4
  <2>4. tx' \in [Peers -> TxStates] /\ rx' \in [Peers -> RxStates]
    BY <1>3, <2>1 DEF LinkTypes, Sends
  <2>5. sched' \in [Peers -> ScheduleStates] /\ group' \in [Peers -> 0..GroupSpan]
    BY <1>3, <2>2 DEF LinkTypes, Sends, s
  <2>6. wire' \in [Peers -> Seq(Flit)]
    BY <1>3, <1>9 DEF LinkTypes, Sends, x
  <2>7. offered' \in [Peers -> Payloads] /\ delivered' \in [Peers -> Payloads \cup {NoPayload}]
    BY <1>3, <2>3 DEF LinkTypes, Sends
  <2>8. QED
    BY <2>4, <2>5, <2>6, <2>7 DEF LinkTypes
<1>13. QED
  BY <1>4, <1>7, <1>8, <1>9, <1>11, <1>12

\* The next state from both directions, their turns and the Flits under way.
LEMMA WaysOf ==
  ASSUME NEW p \in Peers, NEW q, q = Other(p), LinkTypes', Timing',
         Direction(tx'[p], rx'[q], wire'[q], wire'[p], sched'[q], group'[q], tx'[q], Turn(q)'),
         Direction(tx'[q], rx'[p], wire'[p], wire'[q], sched'[p], group'[p], tx'[p], Turn(p)')
  PROVE  LinkInv'
<1>1. q \in Peers /\ Other(q) = p /\ Peers = {p, q}
  BY TwoPeers
<1>2. Way(p)' /\ Way(q)'
  BY <1>1 DEF Way
<1>3. QED
  BY <1>1, <1>2 DEF LinkInv

\* A Flit interval of one peer.
LEMMA LinkSends ==
  ASSUME Configured, LinkInv, NEW p \in pending, IntervalSend(p)
  PROVE  LinkInv'
<1> DEFINE q == Other(p)
<1>1. phase = "send" /\ EndTurn(p) /\ p \in Peers /\ pending \subseteq Peers
  BY DEF IntervalSend, LinkInv, Timing
<1>2. PICK offer \in BOOLEAN : Send(p, offer)
  BY DEF IntervalSend
<1>3. PICK sel, f : Sends(p, q, sel, f)
  BY <1>1, <1>2, SendSelects
<1>4. q \in Peers /\ q # p /\ Other(q) = p /\ Peers = {p, q}
  BY <1>1, TwoPeers
<1>5. Turn(p) = 0
  BY <1>1 DEF Turn
<1>6. /\ Direction(tx'[p], rx'[q], wire'[q], wire'[p], sched'[q], group'[q], tx'[q], Turn(q))
      /\ Direction(tx'[q], rx'[p], wire'[p], wire'[q], sched'[p], group'[p], tx'[p], 1)
      /\ Len(wire'[q]) = Len(wire[q]) + 1 /\ Len(wire[q]) \in Nat /\ wire'[p] = wire[p]
      /\ Quiet(p) /\ Quiet(q) => Quiet(p)' /\ Quiet(q)'
      /\ LinkTypes'
  BY <1>1, <1>3, <1>5, SendDirections
<1>7. PICK j \in 0..(Latency - 1) :
        /\ \A x \in Peers : Len(wire[Other(x)]) = IF x \in pending THEN j ELSE j + 1
        /\ j < Latency - 1 => Quiet(p) /\ Quiet(q)
  BY <1>1, <1>4 DEF LinkInv, Timing
<1>8. /\ Len(wire'[q]) = j + 1 /\ Len(wire'[p]) = IF q \in pending THEN j ELSE j + 1
      /\ j < Latency - 1 => Quiet(p)' /\ Quiet(q)'
  BY <1>1, <1>4, <1>6, <1>7
<1>9. Latency \in Nat \ {0}
  BY BoundsAssumption
<1>10. CASE pending = {p}
  <2>1. /\ pending' = Peers /\ q \notin pending /\ Turn(q) = 1
        /\ phase' = IF Len(wire'[q]) = Latency THEN "receive" ELSE "send"
    BY <1>1, <1>4, <1>10 DEF EndTurn, NextPhase, Turn
  <2>2. \A x \in Peers : Len(wire'[x]) = j + 1
    BY <1>4, <1>8, <2>1
  <2>3. CASE j = Latency - 1
    <3>1. phase' = "receive" /\ Turn(p)' = 1 /\ Turn(q)' = 1
      BY <1>4, <1>8, <1>9, <2>1, <2>3 DEF Turn
    <3>2. Timing'
      BY <1>9, <1>4, <2>1, <2>2, <2>3, <3>1 DEF Timing
    <3>3. QED
      BY <1>1, <1>6, <2>1, <3>1, <3>2, WaysOf
  <2>4. CASE j < Latency - 1
    <3>1. phase' = "send" /\ Turn(p)' = 0 /\ Turn(q)' = 0
      BY <1>4, <1>8, <1>9, <2>1, <2>4 DEF Turn
    <3>2. Quiet(p)' /\ Quiet(q)'
      BY <1>8, <2>4
    <3>3. Timing'
      <4>1. j + 1 \in 0..(Latency - 1)
        BY <1>9, <2>4
      <4>2. \A x \in Peers : Len(wire'[Other(x)]) = IF x \in pending' THEN j + 1 ELSE (j + 1) + 1
        BY <1>4, <2>1, <2>2
      <4>3. \A x \in Peers : Quiet(x)'
        BY <1>4, <3>2
      <4>4. QED
        BY <1>4, <2>1, <3>1, <4>1, <4>2, <4>3 DEF Timing
    <3>4. /\ Direction(tx'[p], rx'[q], wire'[q], wire'[p], sched'[q], group'[q], tx'[q], 0)
          /\ Direction(tx'[q], rx'[p], wire'[p], wire'[q], sched'[p], group'[p], tx'[p], 0)
      <4>1. /\ sched'[p].replay_requests = 0 /\ sched'[q].replay_requests = 0
            /\ \A i \in 1..Len(wire'[p]) : Command(wire'[p][i]).op # OpRequest
            /\ \A i \in 1..Len(wire'[q]) : Command(wire'[q][i]).op # OpRequest
        BY <3>2 DEF Quiet
      <4>2. /\ Direction(tx'[p], rx'[q], wire'[q], wire'[p], sched'[q], group'[q], tx'[q], 1)
            /\ Direction(tx'[q], rx'[p], wire'[p], wire'[q], sched'[p], group'[p], tx'[p], 1)
        BY <1>6, <2>1
      <4>3. QED
        BY <4>1, <4>2, DirectionQuiet
    <3>5. QED
      BY <1>1, <1>6, <3>1, <3>3, <3>4, WaysOf
  <2>5. QED
    BY <1>7, <1>9, <2>3, <2>4
<1>11. CASE pending # {p}
  <2>1. pending' = {q} /\ phase' = "send" /\ q \in pending
    BY <1>1, <1>4, <1>11 DEF EndTurn
  <2>2. Turn(q) = 0 /\ Turn(q)' = 0 /\ Turn(p)' = 1
    BY <1>1, <1>4, <2>1 DEF Turn
  <2>3. Timing'
    <3>1. \A x \in Peers : Len(wire'[Other(x)]) = IF x \in pending' THEN j ELSE j + 1
      BY <1>4, <1>8, <2>1
    <3>2. j < Latency - 1 => \A x \in Peers : Quiet(x)'
      BY <1>4, <1>8
    <3>3. QED
      BY <1>4, <2>1, <3>1, <3>2 DEF Timing
  <2>4. QED
    BY <1>1, <1>6, <2>2, <2>3, WaysOf
<1>12. QED
  BY <1>10, <1>11
-------------------------------------------------------------------------------
(* A peer receives.                                                            *)

\* What an ingress event leaves behind.
Receives(p, out, z) ==
  /\ tx' = [tx EXCEPT ![p] = z] /\ rx' = [rx EXCEPT ![p] = out.state]
  /\ sched' = [sched EXCEPT ![p] = Asked(@, out)] /\ group' = group
  /\ wire' = [wire EXCEPT ![p] = Tail(@)] /\ offered' = offered
  /\ delivered' = [delivered EXCEPT ![p] = IF out.deliver THEN Head(wire[p]).payload ELSE @]
  /\ \E crc_ok \in BOOLEAN :
       \/ /\ out = RxReceive(rx[p], Command(wire[p][1]), crc_ok)
          /\ z = TxReceive(tx[p], Command(wire[p][1]), crc_ok)
       \/ out = RxDiscard(rx[p]) /\ z = AgeIgnore(tx[p])

\* A Flit that arrives is received or discarded by both halves of the endpoint.
LEMMA IntervalReceives ==
  ASSUME LinkInv, NEW p \in Peers, wire[p] # << >>, IntervalReceive(p)
  PROVE  \E out, z : Receives(p, out, z)
<1>1. Head(wire[p]) = wire[p][1]
  BY DEF LinkInv, LinkTypes
<1>2. CASE DiscardIngress(p)
  <2>1. Receives(p, RxDiscard(rx[p]), AgeIgnore(tx[p]))
    <3>1. Ingress(p, RxDiscard(rx[p]), AgeIgnore(tx[p]))
      BY <1>2 DEF DiscardIngress
    <3>2. TRUE \in BOOLEAN
      OBVIOUS
    <3>3. QED
      BY <3>1, <3>2 DEF Ingress, Receives
  <2>2. QED
    BY <2>1
<1>3. ASSUME NEW crc_ok \in BOOLEAN, Receive(p, crc_ok)
      PROVE  \E out, z : Receives(p, out, z)
  <2> DEFINE h == Command(wire[p][1])
  <2>1. Ingress(p, RxReceive(rx[p], h, crc_ok), TxReceive(tx[p], h, crc_ok))
    BY <1>1, <1>3 DEF Receive
  <2>2. Receives(p, RxReceive(rx[p], h, crc_ok), TxReceive(tx[p], h, crc_ok))
    BY <2>1 DEF Ingress, Receives
  <2>3. QED
    BY <2>2
<1>4. QED
  BY <1>2, <1>3 DEF IntervalReceive

\* The wires while the peers receive.
LEMMA ReceivingLengths ==
  ASSUME LinkInv, phase = "receive", NEW p \in pending, NEW q, q = Other(p)
  PROVE  /\ p \in Peers /\ wire[p] # << >> /\ Len(wire[p]) = Latency
         /\ Len(wire[q]) = IF q \in pending THEN Latency ELSE Latency - 1
         /\ Turn(p) = 1 /\ Turn(q) = IF q \in pending THEN 1 ELSE 0
<1>1. p \in Peers /\ q \in Peers
  BY TwoPeers DEF LinkInv, Timing
<1>2. \A x \in Peers : Len(wire[x]) = IF x \in pending THEN Latency ELSE Latency - 1
  BY DEF LinkInv, Timing
<1>3. Len(wire[p]) = Latency /\ Latency > 0
  BY <1>1, <1>2, BoundsAssumption
<1>4. wire[p] # << >>
  <2>1. ASSUME wire[p] = << >>
        PROVE  FALSE
    <3>1. Len(<< >>) = 0
      BY EmptySeq
    <3>2. QED
      BY <1>3, <2>1, <3>1
  <2>2. QED
    BY <2>1
<1>5. QED
  BY <1>1, <1>2, <1>3, <1>4 DEF Turn

\* Both directions after it.
LEMMA ReceiveDirections ==
  ASSUME Configured, LinkInv, phase = "receive", NEW p \in pending, NEW q, q = Other(p),
         NEW out, NEW z, Receives(p, out, z)
  PROVE  /\ Direction(tx'[p], rx'[q], wire'[q], wire'[p], sched'[q], group'[q], tx'[q], Turn(q))
         /\ Direction(tx'[q], rx'[p], wire'[p], wire'[q], sched'[p], group'[p], tx'[p], 0)
         /\ Len(wire'[p]) = Latency - 1 /\ wire'[q] = wire[q]
         /\ Delivers(tx[q], rx[p], wire[p], out)
         /\ Undisturbed(tx[p], z, rx[q].last_sequence)
         /\ LinkTypes'
<1> DEFINE x == Tail(wire[p])
           y == Asked(sched[p], out)
<1>1. /\ p \in Peers /\ wire[p] # << >> /\ Len(wire[p]) = Latency
      /\ Len(wire[q]) = IF q \in pending THEN Latency ELSE Latency - 1
      /\ Turn(p) = 1 /\ Turn(q) = IF q \in pending THEN 1 ELSE 0
      /\ Latency \in Nat \ {0}
  BY ReceivingLengths, BoundsAssumption
<1>2. /\ q \in Peers /\ q # p /\ Peers = {p, q}
      /\ Direction(tx[p], rx[q], wire[q], wire[p], sched[q], group[q], tx[q], Turn(q))
      /\ Direction(tx[q], rx[p], wire[p], wire[q], sched[p], group[p], tx[p], 1)
      /\ wire[p] \in Seq(Flit) /\ wire[q] \in Seq(Flit)
      /\ tx[p].ignore_count \in Nat
  BY <1>1, LinkParts
<1>3. LinkTypes
  BY DEF LinkInv
<1>4. /\ tx'[p] = z /\ tx'[q] = tx[q] /\ rx'[p] = out.state /\ rx'[q] = rx[q]
      /\ sched'[p] = y /\ sched'[q] = sched[q] /\ group' = group
      /\ wire'[p] = x /\ wire'[q] = wire[q]
  BY <1>1, <1>2, <1>3 DEF Receives, LinkTypes
<1>5. PICK crc_ok \in BOOLEAN :
        \/ /\ out = RxReceive(rx[p], Command(wire[p][1]), crc_ok)
           /\ z = TxReceive(tx[p], Command(wire[p][1]), crc_ok)
        \/ out = RxDiscard(rx[p]) /\ z = AgeIgnore(tx[p])
  BY DEF Receives
<1>6. /\ x \in Seq(Flit) /\ Len(x) = Latency - 1 /\ 1 \in 1..Len(wire[p])
      /\ wire[p][1] \in Flit /\ Head(wire[p]) = wire[p][1]
  BY <1>1, <1>2, HeadTailProperties, ElementOfSeq
<1>7. Targeted(Command(wire[p][1]))
  BY <1>2, <1>6, DirectionParts
<1>8. /\ Direction(z, rx[q], wire[q], x, sched[q], group[q], tx[q], Turn(q))
      /\ Aged(tx[p], z) /\ Undisturbed(tx[p], z, rx[q].last_sequence)
  <2>1. Turn(q) \in 0..1 /\ Len(wire[p]) + Len(wire[q]) + 1 <= 2 * Latency + Turn(q)
    BY <1>1
  <2>2. \/ z = TxReceive(tx[p], Command(wire[p][1]), crc_ok)
        \/ z = AgeIgnore(tx[p])
    BY <1>5
  <2>3. QED
    BY <1>1, <1>2, <1>7, <2>1, <2>2, DirectionObeys
<1>9. /\ Direction(tx[q], out.state, x, wire[q], y, group[p], z, 0)
      /\ Delivers(tx[q], rx[p], wire[p], out)
  <2>1. \/ out = RxReceive(rx[p], Command(wire[p][1]), crc_ok)
        \/ out = RxDiscard(rx[p])
    BY <1>5
  <2>2. Len(wire[q]) <= Latency
    BY <1>1
  <2>3. QED
    BY <1>1, <1>2, <1>8, <2>1, <2>2, DirectionReceives
<1> HIDE DEF x, y
<1>10. LinkTypes'
  <2>1. z \in TxStates /\ out.state \in RxStates
    <3>1. Good(z)
      BY <1>8, DirectionParts DEF Behind
    <3>2. QED
      BY <1>9, <3>1, GoodParts, DirectionParts
  <2>2. y \in ScheduleStates
    <3>1. Schedules(y, group[p])
      BY <1>9, DirectionParts
    <3>2. QED
      BY <3>1 DEF Schedules
  <2>3. Head(wire[p]).payload \in Payloads \cup {NoPayload}
    BY <1>6 DEF Flit
  <2>4. tx' \in [Peers -> TxStates] /\ rx' \in [Peers -> RxStates]
    BY <1>3, <2>1 DEF LinkTypes, Receives
  <2>5. sched' \in [Peers -> ScheduleStates] /\ group' \in [Peers -> 0..GroupSpan]
    BY <1>3, <2>2 DEF LinkTypes, Receives, y
  <2>6. wire' \in [Peers -> Seq(Flit)]
    BY <1>3, <1>6 DEF LinkTypes, Receives, x
  <2>7. offered' \in [Peers -> Payloads] /\ delivered' \in [Peers -> Payloads \cup {NoPayload}]
    BY <1>3, <2>3 DEF LinkTypes, Receives
  <2>8. QED
    BY <2>4, <2>5, <2>6, <2>7 DEF LinkTypes
<1>11. QED
  BY <1>4, <1>6, <1>8, <1>9, <1>10

\* An ingress event of one peer.
LEMMA LinkReceives ==
  ASSUME Configured, LinkInv, NEW p \in pending, IntervalReceive(p)
  PROVE  LinkInv'
<1> DEFINE q == Other(p)
<1>1. phase = "receive" /\ EndTurn(p) /\ p \in Peers /\ pending \subseteq Peers
  BY DEF IntervalReceive, LinkInv, Timing
<1>2. /\ q \in Peers /\ q # p /\ Other(q) = p /\ Peers = {p, q}
  BY <1>1, TwoPeers
<1>3. /\ wire[p] # << >>
      /\ Len(wire[q]) = IF q \in pending THEN Latency ELSE Latency - 1
      /\ Turn(q) = IF q \in pending THEN 1 ELSE 0
      /\ Latency \in Nat \ {0}
  BY <1>1, ReceivingLengths, BoundsAssumption
<1>4. PICK out, z : Receives(p, out, z)
  BY <1>1, <1>3, IntervalReceives
<1>5. /\ Direction(tx'[p], rx'[q], wire'[q], wire'[p], sched'[q], group'[q], tx'[q], Turn(q))
      /\ Direction(tx'[q], rx'[p], wire'[p], wire'[q], sched'[p], group'[p], tx'[p], 0)
      /\ Len(wire'[p]) = Latency - 1 /\ wire'[q] = wire[q]
      /\ LinkTypes'
  BY <1>1, <1>4, ReceiveDirections
<1>6. CASE pending = {p}
  <2>1. q \notin pending /\ pending' = Peers /\ phase' = "send"
    BY <1>1, <1>2, <1>6 DEF EndTurn, NextPhase
  <2>2. Turn(q) = 0 /\ Turn(q)' = 0 /\ Turn(p)' = 0
    BY <1>1, <1>2, <1>3, <2>1 DEF Turn
  <2>3. Timing'
    <3>1. Latency - 1 \in 0..(Latency - 1) /\ ~(Latency - 1 < Latency - 1)
      BY <1>3
    <3>2. \A x \in Peers :
            Len(wire'[Other(x)]) = IF x \in pending' THEN Latency - 1 ELSE (Latency - 1) + 1
      BY <1>2, <1>3, <1>5, <2>1
    <3>3. QED
      BY <1>2, <2>1, <3>1, <3>2 DEF Timing
  <2>4. QED
    BY <1>1, <1>5, <2>2, <2>3, WaysOf
<1>7. CASE pending # {p}
  <2>1. q \in pending /\ pending' = {q} /\ phase' = "receive"
    BY <1>1, <1>2, <1>7 DEF EndTurn
  <2>2. Turn(q) = 1 /\ Turn(q)' = 1 /\ Turn(p)' = 0
    BY <1>1, <1>2, <1>3, <2>1 DEF Turn
  <2>3. Timing'
    BY <1>2, <1>3, <1>5, <2>1 DEF Timing
  <2>4. QED
    BY <1>1, <1>5, <2>2, <2>3, WaysOf
<1>8. QED
  BY <1>6, <1>7
-------------------------------------------------------------------------------
(* What the link keeps.                                                        *)

\* Every step keeps the invariant.
LEMMA LinkSteps ==
  ASSUME Configured, LinkInv, [LockNext]_lockVars
  PROVE  LinkInv'
<1>1. CASE UNCHANGED lockVars
  <2>1. /\ tx' = tx /\ rx' = rx /\ sched' = sched /\ group' = group /\ wire' = wire
        /\ offered' = offered /\ delivered' = delivered /\ phase' = phase /\ pending' = pending
    BY <1>1 DEF lockVars, vars
  <2>2. LinkTypes'
    BY <2>1 DEF LinkInv, LinkTypes
  <2>3. Timing'
    BY <2>1 DEF LinkInv, Timing, Quiet
  <2>4. ASSUME NEW p \in Peers
        PROVE  Way(p)'
    BY <2>1 DEF LinkInv, Way, Turn
  <2>5. QED
    BY <2>2, <2>3, <2>4 DEF LinkInv
<1>2. ASSUME NEW p \in pending, IntervalSend(p) \/ IntervalReceive(p)
      PROVE  LinkInv'
  BY <1>2, LinkSends, LinkReceives
<1>3. QED
  BY <1>1, <1>2 DEF LockNext

\* The invariant of the link: of every Flit under way what it carries, and of
\* every request under way that it comes too late to be heard or asks for the
\* replay its sender waits for.
THEOREM LinkInvariant ==
  ASSUME Configured
  PROVE  LockSpec => []LinkInv
<1>1. LockInit => LinkInv
  BY LinkStarts
<1>2. LinkInv /\ [LockNext]_lockVars => LinkInv'
  BY LinkSteps
<1>3. QED
  BY <1>1, <1>2, PTL DEF LockSpec

\* Acknowledgements make sense wherever they are: the transmitter counts as
\* acknowledged only what was delivered, those under way tell of delivered payloads
\* only and arrive in order (DLReplayTransmitter._ack and _receive_result of the
\* scheduler).
THEOREM LinkAcknowledges ==
  ASSUME Configured
  PROVE  LockSpec => []AcksMakeSense
<1>1. ASSUME LinkInv
      PROVE  AcksMakeSense
  <2>1. ASSUME NEW p \in Peers
        PROVE  /\ Distance(tx[p].last_ack, rx[Other(p)].last_sequence) <= Len(tx[p].buffer)
               /\ Acks(tx[p], rx[Other(p)].last_sequence, wire[p])
               /\ wire[p] \in Seq(Flit)
    <3> DEFINE q == Other(p)
    <3>1. /\ Behind(tx[p], rx[q].last_sequence) /\ wire[p] \in Seq(Flit)
          /\ Direction(tx[p], rx[q], wire[q], wire[p], sched[q], group[q], tx[q], Turn(q))
      BY <1>1, LinkParts
    <3>2. Acks(tx[p], rx[q].last_sequence, wire[p])
      BY <3>1, DirectionParts
    <3>3. QED
      BY <3>1, <3>2 DEF Behind, Got
  <2>2. AckBehindDelivery
    BY <2>1 DEF AckBehindDelivery
  <2>3. ASSUME NEW p \in Peers, NEW i \in DOMAIN wire[p], Command(wire[p][i]).op = OpAck
        PROVE  Distance(tx[p].last_ack, Command(wire[p][i]).ack_request)
                 <= Distance(tx[p].last_ack, rx[Other(p)].last_sequence)
    <3>1. i \in 1..Len(wire[p])
      BY <2>1, LenProperties
    <3>2. QED
      BY <2>1, <2>3, <3>1 DEF Acks, Acknowledges, Got
  <2>4. ASSUME NEW p \in Peers, NEW i \in DOMAIN wire[p], NEW j \in DOMAIN wire[p], i < j,
               Command(wire[p][i]).op = OpAck, Command(wire[p][j]).op = OpAck
        PROVE  Distance(tx[p].last_ack, Command(wire[p][i]).ack_request)
                 <= Distance(tx[p].last_ack, Command(wire[p][j]).ack_request)
    <3>1. i \in 1..Len(wire[p]) /\ j \in 1..Len(wire[p]) /\ i <= j
      BY <2>1, <2>4, LenProperties
    <3>2. Acknowledges(tx[p], wire[p][i],
                       Distance(tx[p].last_ack, Command(wire[p][j]).ack_request))
      BY <2>1, <2>4, <3>1 DEF Acks
    <3>3. QED
      BY <2>4, <3>2 DEF Acknowledges
  <2>5. AcksArriveInOrder
    BY <2>3, <2>4 DEF AcksArriveInOrder
  <2>6. QED
    BY <2>2, <2>5 DEF AcksMakeSense
<1>2. LockSpec => []LinkInv
  BY LinkInvariant
<1>3. QED
  BY <1>1, <1>2, PTL
-------------------------------------------------------------------------------
(* The link as a stream.                                                       *)

Queues == [p \in Peers |-> Undelivered(p)]
Outs == [p \in Peers |-> delivered[Other(p)]]

LEMMA UndeliveredIsRest ==
  ASSUME NEW p \in Peers
  PROVE  /\ Undelivered(p) = Rest(tx[p], rx[Other(p)].last_sequence)
         /\ Undelivered(p)' = Rest(tx'[p], rx'[Other(p)].last_sequence)
BY DEF Undelivered, Rest, Missing, Got

\* Both streams are empty at first.
LEMMA StreamStarts ==
  ASSUME LockInit
  PROVE  Stream!Init
<1>1. ASSUME NEW p \in Peers
      PROVE  Undelivered(p) = << >> /\ delivered[Other(p)] = NoPayload
  <2>1. Other(p) \in Peers
    BY TwoPeers
  <2>2. tx[p] = TxReset /\ rx[Other(p)] = RxReset /\ delivered[Other(p)] = NoPayload
    BY <2>1 DEF LockInit, Init
  <2>3. Behind(TxReset, RxReset.last_sequence) /\ Len(TxReset.buffer) = 0
    BY DirectionStarts, DirectionParts DEF TxReset
  <2>4. Missing(TxReset, RxReset.last_sequence) = 0
    BY <2>3, BehindParts
  <2>5. Rest(TxReset, RxReset.last_sequence) = << >>
    BY <2>4 DEF Rest
  <2>6. QED
    BY <2>2, <2>5, UndeliveredIsRest
<1>2. QED
  BY <1>1 DEF Stream!Init

\* What sending does to the two streams.
LEMMA SendChanges ==
  ASSUME LinkInv, NEW p \in Peers, NEW q, q = Other(p), NEW sel, NEW f, Sends(p, q, sel, f)
  PROVE  /\ Undelivered(q)' = Undelivered(q)
         /\ Undelivered(p)' = IF sel.payload /\ ~sel.replayed
                              THEN Append(Undelivered(p), offered[p]) ELSE Undelivered(p)
         /\ delivered' = delivered
<1>1. /\ q \in Peers /\ q # p /\ Other(q) = p
      /\ Behind(tx[p], rx[q].last_sequence)
  BY LinkParts
<1>2. Selected(tx[p], rx[q].last_sequence, offered[p], sel)
  BY DEF Sends
<1>3. tx'[p] = sel.tx /\ tx'[q] = tx[q] /\ rx' = rx /\ delivered' = delivered
  BY <1>1 DEF LinkInv, LinkTypes, Sends
<1>4. Undelivered(q)' = Undelivered(q)
  BY <1>1, <1>3, UndeliveredIsRest
<1>5. Rest(sel.tx, rx[q].last_sequence)
        = IF sel.payload /\ ~sel.replayed
          THEN Append(Rest(tx[p], rx[q].last_sequence), offered[p])
          ELSE Rest(tx[p], rx[q].last_sequence)
  BY <1>1, <1>2, RestSent
<1>6. /\ Undelivered(p) = Rest(tx[p], rx[q].last_sequence)
      /\ Undelivered(p)' = Rest(sel.tx, rx[q].last_sequence)
  BY <1>1, <1>3, UndeliveredIsRest
<1>7. QED
  BY <1>3, <1>4, <1>5, <1>6

\* What an ingress event does to them.
LEMMA ReceiveChanges ==
  ASSUME Configured, LinkInv, phase = "receive", NEW p \in pending, NEW q, q = Other(p),
         NEW out, NEW z, Receives(p, out, z)
  PROVE  /\ Undelivered(p)' = Undelivered(p)
         /\ Shortened(Undelivered(q), Undelivered(q)', wire[p], out)
         /\ delivered' = [delivered EXCEPT ![p] = IF out.deliver THEN wire[p][1].payload ELSE @]
         /\ delivered \in [Peers -> Payloads \cup {NoPayload}]
<1>1. p \in Peers
  BY DEF LinkInv, Timing
<1>2. /\ q \in Peers /\ q # p /\ Other(q) = p
      /\ Behind(tx[q], rx[p].last_sequence) /\ wire[p] \in Seq(Flit)
  BY <1>1, LinkParts
<1>3. /\ Delivers(tx[q], rx[p], wire[p], out)
      /\ Undisturbed(tx[p], z, rx[q].last_sequence)
  BY ReceiveDirections
<1>4. /\ tx'[p] = z /\ tx'[q] = tx[q] /\ rx'[p] = out.state /\ rx'[q] = rx[q]
      /\ delivered' = [delivered EXCEPT ![p] = IF out.deliver THEN wire[p][1].payload ELSE @]
      /\ delivered \in [Peers -> Payloads \cup {NoPayload}]
  BY <1>1, <1>2 DEF LinkInv, LinkTypes, Receives
<1>5. Undelivered(p)' = Undelivered(p)
  BY <1>1, <1>3, <1>4, RestUndisturbed, UndeliveredIsRest
<1>6. /\ Undelivered(q) = Rest(tx[q], rx[p].last_sequence)
      /\ Undelivered(q)' = Rest(tx[q], out.state.last_sequence)
  BY <1>2, <1>4, UndeliveredIsRest
<1>7. Shortened(Rest(tx[q], rx[p].last_sequence), Rest(tx[q], out.state.last_sequence),
                wire[p], out)
  BY <1>2, <1>3, RestDelivered
<1>8. QED
  BY <1>4, <1>5, <1>6, <1>7

\* Sending puts the new payload into the stream, or nothing.
LEMMA SendStreams ==
  ASSUME LinkInv, NEW p \in Peers, NEW q, q = Other(p), NEW sel, NEW f, Sends(p, q, sel, f)
  PROVE  [Stream!Next]_<<Queues, Outs>>
<1>1. q \in Peers /\ q # p /\ Peers = {p, q}
  BY TwoPeers
<1>2. sel.payload /\ ~sel.replayed => offered[p] \in Payloads
  BY DEF Sends
<1>3. /\ Undelivered(q)' = Undelivered(q)
      /\ Undelivered(p)' = IF sel.payload /\ ~sel.replayed
                           THEN Append(Undelivered(p), offered[p]) ELSE Undelivered(p)
      /\ delivered' = delivered
  BY SendChanges
<1>4. Outs' = Outs
  BY <1>3 DEF Outs
<1>5. CASE sel.payload /\ ~sel.replayed
  <2>1. Queues' = [Queues EXCEPT ![p] = Append(@, offered[p])]
    BY <1>1, <1>3, <1>5 DEF Queues
  <2>2. Stream!Put(p, offered[p])
    BY <1>4, <2>1 DEF Stream!Put, Queues, Outs
  <2>3. QED
    BY <1>2, <1>5, <2>2 DEF Stream!Next
<1>6. CASE ~(sel.payload /\ ~sel.replayed)
  <2>1. Queues' = Queues
    BY <1>1, <1>3, <1>6 DEF Queues
  <2>2. QED
    BY <1>4, <2>1
<1>7. QED
  BY <1>5, <1>6

\* An ingress event takes the next payload from the stream, or nothing.
LEMMA ReceiveStreams ==
  ASSUME Configured, LinkInv, phase = "receive", NEW p \in pending, NEW q, q = Other(p),
         NEW out, NEW z, Receives(p, out, z)
  PROVE  [Stream!Next]_<<Queues, Outs>>
<1>1. /\ p \in Peers /\ q \in Peers /\ q # p /\ Other(q) = p /\ Peers = {p, q}
  BY TwoPeers DEF LinkInv, Timing
<1>2. /\ Undelivered(p)' = Undelivered(p)
      /\ Shortened(Undelivered(q), Undelivered(q)', wire[p], out)
      /\ delivered' = [delivered EXCEPT ![p] = IF out.deliver THEN wire[p][1].payload ELSE @]
      /\ delivered \in [Peers -> Payloads \cup {NoPayload}]
  BY ReceiveChanges
<1>3. CASE out.deliver
  <2>1. /\ Undelivered(q) # << >> /\ Head(Undelivered(q)) = wire[p][1].payload
        /\ Undelivered(q)' = Tail(Undelivered(q))
    BY <1>2, <1>3 DEF Shortened
  <2>2. Queues' = [Queues EXCEPT ![q] = Tail(@)]
    BY <1>1, <1>2, <2>1 DEF Queues
  <2>3. Outs' = [Outs EXCEPT ![q] = Head(Queues[q])]
    BY <1>1, <1>2, <1>3, <2>1 DEF Queues, Outs
  <2>4. Queues[q] # << >>
    BY <1>1, <2>1 DEF Queues
  <2>5. Stream!Get(q)
    BY <2>2, <2>3, <2>4 DEF Stream!Get, Queues, Outs
  <2>6. QED
    BY <1>1, <2>5 DEF Stream!Next
<1>4. CASE ~out.deliver
  <2>1. Undelivered(q)' = Undelivered(q)
    BY <1>2, <1>4 DEF Shortened
  <2>2. Queues' = Queues
    BY <1>1, <1>2, <2>1 DEF Queues
  <2>3. delivered' = delivered
    BY <1>2, <1>4
  <2>4. Outs' = Outs
    BY <2>3 DEF Outs
  <2>5. QED
    BY <2>2, <2>4
<1>5. QED
  BY <1>3, <1>4

\* Each direction of the link is a reliable stream: through corruption, discards,
\* lost and stale requests, replays and wrap-around of the numbers, every accepted
\* payload is delivered at most once and in the order it was accepted.
THEOREM LinkIsStream ==
  ASSUME Configured
  PROVE  LockSpec => InOrderDelivery
<1>1. LockInit => Stream!Init
  BY StreamStarts
<1>2. LinkInv /\ [LockNext]_lockVars => [Stream!Next]_<<Queues, Outs>>
  <2>1. ASSUME UNCHANGED lockVars
        PROVE  UNCHANGED <<Queues, Outs>>
    BY <2>1 DEF lockVars, vars, Queues, Outs, Undelivered
  <2>2. ASSUME LinkInv, NEW p \in pending, IntervalSend(p)
        PROVE  [Stream!Next]_<<Queues, Outs>>
    <3>1. p \in Peers
      BY <2>2 DEF LinkInv, Timing
    <3>2. PICK offer \in BOOLEAN : Send(p, offer)
      BY <2>2 DEF IntervalSend
    <3>3. QED
      BY <2>2, <3>1, <3>2, SendSelects, SendStreams
  <2>3. ASSUME LinkInv, NEW p \in pending, IntervalReceive(p)
        PROVE  [Stream!Next]_<<Queues, Outs>>
    <3>1. phase = "receive"
      BY <2>3 DEF IntervalReceive
    <3>2. p \in Peers /\ wire[p] # << >>
      BY <2>3, <3>1, ReceivingLengths
    <3>3. QED
      BY <2>3, <3>1, <3>2, IntervalReceives, ReceiveStreams
  <2>4. QED
    BY <2>1, <2>2, <2>3 DEF LockNext
<1>3. LockSpec => []LinkInv
  BY LinkInvariant
<1>4. QED
  BY <1>1, <1>2, <1>3, PTL DEF LockSpec, InOrderDelivery, Stream!Spec, Queues, Outs
-------------------------------------------------------------------------------
(* The payloads in order.                                                      *)

\* x goes on counting at n, modulo the number of payloads, and k comes next.
Counts(x, n, k) ==
  /\ \A i \in 1..Len(x) : x[i] = (n + i - 1) % Cardinality(Payloads)
  /\ k = (n + Len(x)) % Cardinality(Payloads)

\* A remainder can be taken earlier.
LEMMA RemainderOfSum ==
  ASSUME NEW K \in Nat \ {0}, NEW a \in Nat, NEW j \in Nat
  PROVE  ((a % K) + j) % K = (a + j) % K
<1> DEFINE c == a \div K
           y == (a % K) + j
           d == y \div K
           e == y % K
<1>1. a = K * c + (a % K) /\ c \in Nat /\ a % K \in 0..(K - 1)
  BY DivMod
<1>2. y \in Nat
  BY <1>1
<1>3. y = K * d + e /\ d \in Nat /\ e \in 0..(K - 1)
  BY <1>2, DivMod
<1>4. a + j = K * c + y
  BY <1>1
<1> HIDE DEF c, y, d, e
<1>5. a + j = (c + d) * K + e /\ c + d \in Nat
  BY <1>1, <1>3, <1>4
<1>6. ((c + d) * K + e) % K = e
  BY <1>3, <1>5, DivModUnique
<1>7. QED
  BY <1>5, <1>6 DEF e, y

\* The next payload offered continues it.
LEMMA CountsAppended ==
  ASSUME NEW x \in Seq(Payloads), NEW n \in Nat, NEW k \in Payloads, Counts(x, n, k)
  PROVE  Counts(Append(x, k), n, (k + 1) % Cardinality(Payloads))
<1> DEFINE K == Cardinality(Payloads)
           L == Len(x)
           y == Append(x, k)
<1>1. K \in Nat \ {0}
  BY BoundsAssumption
<1>2. L \in Nat /\ Len(y) = L + 1 /\ (\A i \in 1..L : y[i] = x[i]) /\ y[L + 1] = k
  BY AppendProperties, LenProperties
<1>3. (\A i \in 1..L : x[i] = (n + i - 1) % K) /\ k = (n + L) % K
  BY DEF Counts
<1> HIDE DEF K, L, y
<1>4. (k + 1) % K = ((n + L) + 1) % K
  <2> DEFINE a == n + L
  <2>1. a \in Nat /\ 1 \in Nat /\ k = a % K
    BY <1>2, <1>3
  <2> HIDE DEF a
  <2>2. ((a % K) + 1) % K = (a + 1) % K
    BY <1>1, <2>1, RemainderOfSum
  <2>3. QED
    BY <2>1, <2>2 DEF a
<1>5. (n + L) + 1 = n + (L + 1) /\ n + (L + 1) - 1 = n + L
  BY <1>2
<1>6. ASSUME NEW i \in 1..(L + 1)
      PROVE  y[i] = (n + i - 1) % K
  <2>1. CASE i = L + 1
    BY <1>2, <1>3, <1>5, <2>1
  <2>2. CASE i # L + 1
    <3>1. i \in 1..L
      BY <1>2, <2>2
    <3>2. QED
      BY <1>2, <1>3, <3>1
  <2>3. QED
    BY <2>1, <2>2
<1>7. QED
  BY <1>2, <1>4, <1>5, <1>6 DEF Counts, K, y

\* Without its first payload it counts on from there.
LEMMA CountsTail ==
  ASSUME NEW x \in Seq(Payloads), x # << >>, NEW n \in Nat, NEW k, Counts(x, n, k)
  PROVE  Counts(Tail(x), Head(x) + 1, k) /\ Head(x) \in Payloads
<1> DEFINE K == Cardinality(Payloads)
           L == Len(x)
           y == Tail(x)
           first == Head(x)
<1>1. K \in Nat \ {0}
  BY BoundsAssumption
<1>2. /\ L \in Nat \ {0} /\ Len(y) = L - 1 /\ (\A i \in 1..(L - 1) : y[i] = x[i + 1])
      /\ first = x[1] /\ first \in Payloads
  BY EmptySeq, HeadTailProperties
<1>3. (\A i \in 1..L : x[i] = (n + i - 1) % K) /\ k = (n + L) % K
  BY DEF Counts
<1> HIDE DEF K, L, y, first
<1>4. first = n % K
  BY <1>2, <1>3
<1>5. ASSUME NEW j \in Nat
      PROVE  (first + j) % K = (n + j) % K
  BY <1>1, <1>4, RemainderOfSum
<1>6. first \in Nat
  BY <1>1, <1>4
<1>7. ASSUME NEW i \in 1..(L - 1)
      PROVE  y[i] = ((first + 1) + i - 1) % K
  <2>1. i \in Nat /\ i + 1 \in 1..L
    BY <1>2
  <2>2. (first + 1) + i - 1 = first + i /\ n + (i + 1) - 1 = n + i
    BY <1>6, <2>1
  <2>3. y[i] = x[i + 1] /\ x[i + 1] = (n + (i + 1) - 1) % K
    BY <1>2, <1>3, <2>1
  <2>4. (first + i) % K = (n + i) % K
    BY <1>5, <2>1
  <2>5. QED
    BY <2>2, <2>3, <2>4
<1>8. (first + 1) + (L - 1) = first + L
  BY <1>2, <1>6
<1>9. k = ((first + 1) + (L - 1)) % K
  <2>1. (first + L) % K = (n + L) % K
    BY <1>2, <1>5
  <2>2. QED
    BY <1>3, <1>8, <2>1
<1>10. QED
  BY <1>2, <1>7, <1>9 DEF Counts, K, y, first

\* What a transmitter holds are payloads.
LEMMA RestIsPayloads ==
  ASSUME NEW t, NEW b, Behind(t, b)
  PROVE  Rest(t, b) \in Seq(Payloads)
<1> DEFINE n == Missing(t, b)
           D == Got(t, b)
           x == Rest(t, b)
<1>1. n \in Nat /\ D \in Nat /\ Len(t.buffer) = D + n /\ Good(t)
  BY BehindParts, WindowIsHalf
<1>2. x = [i \in 1..n |-> t.buffer[D + i].payload]
  BY DEF Rest
<1> HIDE DEF n, D, x
<1>3. ASSUME NEW i \in 1..n
      PROVE  t.buffer[D + i].payload \in Payloads
  <2>1. D + i \in 1..Len(t.buffer)
    BY <1>1
  <2>2. t.buffer[D + i] \in Entries
    BY <1>1, <2>1, GoodParts, ElementOfSeq
  <2>3. QED
    BY <2>2 DEF Entries
<1>4. x \in [1..n -> Payloads]
  BY <1>2, <1>3
<1>5. QED
  BY <1>1, <1>4, LengthOf DEF x

\* The payload that follows the last one delivered.
After(last) == IF last = NoPayload THEN 0 ELSE last + 1

InOrder ==
  \A p \in Peers : Counts(Undelivered(p), After(delivered[Other(p)]), offered[p])

\* What a peer finds there.
LEMMA OrderParts ==
  ASSUME LinkInv, InOrder, NEW p \in Peers, NEW q, q = Other(p)
  PROVE  /\ Undelivered(p) \in Seq(Payloads) /\ After(delivered[q]) \in Nat
         /\ offered[p] \in Payloads
         /\ Counts(Undelivered(p), After(delivered[q]), offered[p])
<1>1. q \in Peers /\ Behind(tx[p], rx[q].last_sequence)
  BY LinkParts
<1>2. Undelivered(p) \in Seq(Payloads)
  BY <1>1, RestIsPayloads, UndeliveredIsRest
<1>3. offered[p] \in Payloads /\ delivered[q] \in Payloads \cup {NoPayload}
  BY <1>1 DEF LinkInv, LinkTypes
<1>4. \A x \in Payloads : x \in Nat
  <2> DEFINE K == Cardinality(Payloads)
  <2>1. Payloads = 0..(K - 1)
    BY BoundsAssumption
  <2> HIDE DEF K
  <2>2. QED
    BY <2>1
<1>5. After(delivered[q]) \in Nat
  BY <1>3, <1>4 DEF After
<1>6. QED
  BY <1>2, <1>3, <1>5 DEF InOrder

\* Sending a new payload continues the order, and nothing else changes it.
LEMMA SendsInOrder ==
  ASSUME LinkInv, InOrder, NEW p \in Peers, NEW q, q = Other(p), NEW sel, NEW f,
         Sends(p, q, sel, f)
  PROVE  InOrder'
<1>1. /\ q \in Peers /\ q # p /\ Other(q) = p /\ Peers = {p, q}
  BY LinkParts
<1>2. /\ Undelivered(q)' = Undelivered(q)
      /\ Undelivered(p)' = IF sel.payload /\ ~sel.replayed
                           THEN Append(Undelivered(p), offered[p]) ELSE Undelivered(p)
      /\ delivered' = delivered /\ offered'[q] = offered[q]
      /\ offered'[p] = IF sel.payload /\ ~sel.replayed
                       THEN (offered[p] + 1) % Cardinality(Payloads) ELSE offered[p]
  <2>1. offered'[q] = offered[q] /\ offered'[p] = NextOffer(p, sel) /\ delivered' = delivered
    BY <1>1 DEF LinkInv, LinkTypes, Sends
  <2>2. QED
    BY <2>1, SendChanges DEF NextOffer
<1>3. /\ Undelivered(p) \in Seq(Payloads) /\ After(delivered[q]) \in Nat
      /\ offered[p] \in Payloads
      /\ Counts(Undelivered(p), After(delivered[q]), offered[p])
      /\ Counts(Undelivered(q), After(delivered[p]), offered[q])
  BY <1>1, OrderParts
<1>4. Counts(Undelivered(p)', After(delivered[q]), offered'[p])
  <2>1. CASE sel.payload /\ ~sel.replayed
    BY <1>2, <1>3, <2>1, CountsAppended
  <2>2. CASE ~(sel.payload /\ ~sel.replayed)
    BY <1>2, <1>3, <2>2
  <2>3. QED
    BY <2>1, <2>2
<1>5. QED
  BY <1>1, <1>2, <1>3, <1>4 DEF InOrder, After

\* A delivery takes the first payload of it.
LEMMA ReceivesInOrder ==
  ASSUME Configured, LinkInv, InOrder, phase = "receive", NEW p \in pending,
         NEW q, q = Other(p), NEW out, NEW z, Receives(p, out, z)
  PROVE  InOrder'
<1>1. p \in Peers
  BY DEF LinkInv, Timing
<1>2. /\ q \in Peers /\ q # p /\ Other(q) = p /\ Peers = {p, q}
  BY <1>1, LinkParts
<1>3. /\ Undelivered(p)' = Undelivered(p)
      /\ Shortened(Undelivered(q), Undelivered(q)', wire[p], out)
      /\ delivered'[q] = delivered[q] /\ offered' = offered
      /\ delivered'[p] = IF out.deliver THEN wire[p][1].payload ELSE delivered[p]
  <2>1. /\ delivered' = [delivered EXCEPT ![p] = IF out.deliver THEN wire[p][1].payload ELSE @]
        /\ delivered \in [Peers -> Payloads \cup {NoPayload}] /\ offered' = offered
    BY ReceiveChanges DEF Receives
  <2>2. QED
    BY <1>1, <1>2, <2>1, ReceiveChanges
<1>4. /\ Undelivered(q) \in Seq(Payloads) /\ After(delivered[p]) \in Nat
      /\ Counts(Undelivered(p), After(delivered[q]), offered[p])
      /\ Counts(Undelivered(q), After(delivered[p]), offered[q])
  BY <1>1, <1>2, OrderParts
<1>5. Counts(Undelivered(q)', After(delivered'[p]), offered[q])
  <2>1. CASE out.deliver
    <3>1. /\ Undelivered(q) # << >> /\ Head(Undelivered(q)) = wire[p][1].payload
          /\ Undelivered(q)' = Tail(Undelivered(q)) /\ delivered'[p] = Head(Undelivered(q))
      BY <1>3, <2>1 DEF Shortened
    <3>2. /\ Counts(Tail(Undelivered(q)), Head(Undelivered(q)) + 1, offered[q])
          /\ Head(Undelivered(q)) \in Payloads
      BY <1>4, <3>1, CountsTail
    <3>3. After(delivered'[p]) = Head(Undelivered(q)) + 1
      BY <3>1, <3>2, BoundsAssumption DEF After
    <3>4. QED
      BY <3>1, <3>2, <3>3
  <2>2. CASE ~out.deliver
    BY <1>3, <1>4, <2>2 DEF Shortened
  <2>3. QED
    BY <2>1, <2>2
<1>6. QED
  BY <1>1, <1>2, <1>3, <1>4, <1>5 DEF InOrder, After

\* Nothing is lost and nothing delivered twice: what was accepted and not delivered
\* goes on where the deliveries stopped and ends before the next offer.  Without
\* Configured the run link_wide_groups breaks this.
THEOREM LinkKeepsOrder ==
  ASSUME Configured
  PROVE  LockSpec => []NothingLostOrRepeated
<1>1. LockInit => InOrder
  <2>1. ASSUME LockInit, NEW p \in Peers
        PROVE  Undelivered(p) = << >> /\ delivered[Other(p)] = NoPayload /\ offered[p] = 0
    <3>1. Undelivered(p) = << >> /\ delivered[Other(p)] = NoPayload
      BY <2>1, StreamStarts DEF Stream!Init
    <3>2. QED
      BY <2>1, <3>1 DEF LockInit, Init
  <2>2. Counts(<< >>, 0, 0)
    <3> DEFINE K == Cardinality(Payloads)
    <3>1. K \in Nat \ {0} /\ Len(<< >>) = 0
      BY BoundsAssumption, EmptySeq
    <3> HIDE DEF K
    <3>2. 0 % K = 0
      BY <3>1
    <3>3. QED
      BY <3>1, <3>2 DEF Counts, K
  <2>3. QED
    BY <2>1, <2>2 DEF InOrder, After
<1>2. LinkInv /\ InOrder /\ [LockNext]_lockVars => InOrder'
  <2>1. ASSUME InOrder, UNCHANGED lockVars
        PROVE  InOrder'
    BY <2>1 DEF lockVars, vars, InOrder, Undelivered
  <2>2. ASSUME LinkInv, InOrder, NEW p \in pending, IntervalSend(p)
        PROVE  InOrder'
    <3>1. p \in Peers
      BY <2>2 DEF LinkInv, Timing
    <3>2. PICK offer \in BOOLEAN : Send(p, offer)
      BY <2>2 DEF IntervalSend
    <3>3. QED
      BY <2>2, <3>1, <3>2, SendSelects, SendsInOrder
  <2>3. ASSUME LinkInv, InOrder, NEW p \in pending, IntervalReceive(p)
        PROVE  InOrder'
    <3>1. phase = "receive"
      BY <2>3 DEF IntervalReceive
    <3>2. p \in Peers /\ wire[p] # << >>
      BY <2>3, <3>1, ReceivingLengths
    <3>3. QED
      BY <2>3, <3>1, <3>2, IntervalReceives, ReceivesInOrder
  <2>4. QED
    BY <2>1, <2>2, <2>3 DEF LockNext
<1>3. LinkInv /\ InOrder => NothingLostOrRepeated
  <2>1. ASSUME LinkInv, InOrder, NEW p \in Peers
        PROVE  DOMAIN Undelivered(p) = 1..Len(Undelivered(p))
    BY <2>1, OrderParts, LenProperties
  <2>2. QED
    BY <2>1 DEF NothingLostOrRepeated, InOrder, Counts, After
<1>4. LockSpec => []LinkInv
  BY LinkInvariant
<1>5. QED
  BY <1>1, <1>2, <1>3, <1>4, PTL DEF LockSpec

-------------------------------------------------------------------------------
(* The port of the hardware.  What makes its ring storage possible: the buffer *)
(* and the schedule fit, and where both reach the newest payload they agree.   *)

Laid(t) ==
  /\ Good(t) /\ Len(t.buffer) <= MaxLive /\ Len(t.scheduled) <= MaxLive
  /\ \A i \in 1..Len(t.buffer), j \in 1..Len(t.scheduled) :
       Len(t.buffer) - i = Len(t.scheduled) - j => t.buffer[i] = t.scheduled[j]

\* A new transmitter is laid out.
LEMMA ResetLaid == Laid(TxReset)
BY ResetGood, LiveLimit DEF Laid, TxReset

\* A new payload is accepted only while nothing is scheduled.
LEMMA EnqueueLaid ==
  ASSUME NEW t, Laid(t), NEW payload \in Payloads, CanEnqueue(t)
  PROVE  Laid(Enqueue(t, payload))
<1> DEFINE u == Enqueue(t, payload)
           n == Len(t.buffer)
           entry == [sequence |-> Successor(t.last_sequence), payload |-> payload]
<1>1. /\ Good(t) /\ Good(u) /\ t.scheduled = << >> /\ t.buffer \in Seq(Entries)
      /\ t \in TxStates /\ n \in Nat
  <2>1. Good(t)
    BY DEF Laid
  <2>2. t.scheduled = << >>
    BY <2>1, GoodParts DEF CanEnqueue
  <2> QED  BY <2>1, <2>2, GoodParts, EnqueueKeeps, WindowIsHalf
<1>2. n < Window /\ n < Capacity
  <2>1. Cardinality(Resident(t)) = n
    BY <1>1, ResidentCount
  <2> QED  BY <2>1 DEF CanEnqueue
<1>3. u.buffer = Append(t.buffer, entry) /\ u.scheduled = << >>
  BY <1>1 DEF Enqueue, TxStates
<1> HIDE DEF u, n, entry
<1>4. Len(u.buffer) = n + 1 /\ Len(u.scheduled) = 0
  BY <1>1, <1>3 DEF n
<1>5. n + 1 <= MaxLive
  BY <1>1, <1>2, LiveLimit, WindowIsHalf DEF MaxLive
<1> QED  BY <1>1, <1>4, <1>5, LiveLimit DEF Laid, u

\* Sending the head of a schedule leaves its tail.
LEMMA NextReplayLaid ==
  ASSUME NEW t, Laid(t), t.scheduled # << >>
  PROVE  Laid(NextReplay(t))
<1> DEFINE u == NextReplay(t)
           n == Len(t.buffer)
           s == Len(t.scheduled)
<1>1. /\ Good(t) /\ Good(u) /\ t.scheduled \in Seq(Entries) /\ t \in TxStates
      /\ n \in Nat /\ s \in Nat /\ s <= MaxLive /\ n <= MaxLive
  BY GoodParts, NextReplayKeeps, WindowIsHalf DEF Laid
<1>2. u.buffer = t.buffer /\ u.scheduled = Tail(t.scheduled)
  BY <1>1 DEF NextReplay, TxStates
<1>3. \A i \in 1..n, j \in 1..s : n - i = s - j => t.buffer[i] = t.scheduled[j]
  BY DEF Laid
<1> HIDE DEF u
<1>4. /\ Len(u.scheduled) = s - 1 /\ s > 0
      /\ \A j \in 1..(s - 1) : u.scheduled[j] = t.scheduled[j + 1]
  BY <1>1, <1>2
<1>5. Len(u.buffer) = n
  BY <1>2
<1> HIDE DEF n, s
<1>6. ASSUME NEW i \in 1..n, NEW j \in 1..(s - 1), n - i = (s - 1) - j
      PROVE  u.buffer[i] = u.scheduled[j]
  <2>1. j + 1 \in 1..s /\ n - i = s - (j + 1)
    BY <1>1, <1>6
  <2> QED  BY <1>2, <1>3, <1>4, <2>1
<1>7. s - 1 <= MaxLive
  BY <1>1, LiveLimit
<1> QED  BY <1>1, <1>4, <1>5, <1>6, <1>7 DEF Laid, u

\* Ageing touches neither.
LEMMA AgeLaid ==
  ASSUME NEW t, Laid(t)
  PROVE  Laid(AgeIgnore(t))
<1> DEFINE u == AgeIgnore(t)
<1>1. Good(t)
  BY DEF Laid
<1>2. Good(u) /\ u.buffer = t.buffer /\ u.scheduled = t.scheduled
  BY <1>1, AgeKeeps
<1> HIDE DEF u
<1>3. Laid(u)
  BY <1>2 DEF Laid
<1> QED  BY <1>3 DEF u

\* A restarted replay is the end of the buffer, and a release cuts its start.
LEMMA ReceiveLaid ==
  ASSUME NEW t, Laid(t), NEW h, Targeted(h), NEW crc_ok \in BOOLEAN
  PROVE  Laid(TxReceive(t, h, crc_ok))
<1> DEFINE u == TxReceive(t, h, crc_ok)
           a == AgeIgnore(t)
           n == Len(t.buffer)
           s == Len(t.scheduled)
<1>0. Good(t)
  BY DEF Laid
<1>1. Restarts(t, u) \/ Releases(t, u) \/ u = a
  BY <1>0, ReceiveCases
<1>2. /\ Good(t) /\ Good(a) /\ a.buffer = t.buffer /\ a.scheduled = t.scheduled /\ Laid(a)
      /\ a.last_ack = t.last_ack
      /\ t.buffer \in Seq(Entries)
      /\ n \in Nat /\ s \in Nat /\ n <= MaxLive /\ s <= MaxLive
  <2>1. n <= MaxLive /\ s <= MaxLive
    BY DEF Laid
  <2> QED  BY <1>0, <2>1, AgeKeeps, AgeLaid, GoodParts, WindowIsHalf
<1>3. \A i \in 1..n, j \in 1..s : n - i = s - j => t.buffer[i] = t.scheduled[j]
  BY DEF Laid
<1>9. ASSUME NEW k \in 1..n
      PROVE  LET v == StartReplay(a, Nth(t.last_ack, k))
             IN  Good(v) /\ v.buffer = t.buffer /\ v.scheduled = SubSeq(t.buffer, k, n)
  <2> HIDE DEF a
  <2>1. k \in 1..Len(a.buffer)
    BY <1>2
  <2> QED  BY <1>2, <2>1, StartReplayKeeps
<1>10. ASSUME NEW k \in 0..n
       PROVE  LET v == Release(a, Nth(t.last_ack, k))
              IN  /\ Good(v) /\ v.buffer = SubSeq(t.buffer, k + 1, n)
                  /\ v.scheduled = t.scheduled
  <2> HIDE DEF a
  <2>1. k \in 0..Len(a.buffer)
    BY <1>2
  <2> QED  BY <1>2, <2>1, ReleaseKeeps
<1> HIDE DEF u, a, s
<1>4. ASSUME Restarts(t, u)  PROVE Laid(u)
  <2>1. PICK k \in 1..n : u = StartReplay(a, Nth(t.last_ack, k))
    BY <1>4 DEF Restarts, a
  <2>2. Good(u) /\ u.buffer = t.buffer /\ u.scheduled = SubSeq(t.buffer, k, n)
    BY <1>9, <2>1
  <2>3. k \in 1..n
    BY <2>1
  <2>4. /\ Len(u.scheduled) = n - k + 1 /\ Len(u.buffer) = n
        /\ \A j \in 1..(n - k + 1) : u.scheduled[j] = t.buffer[k + j - 1]
    BY <1>2, <2>2, <2>3
  <2> HIDE DEF n
  <2>5. n - k + 1 <= MaxLive
    BY <1>2, <2>3, LiveLimit
  <2>6. ASSUME NEW i \in 1..n, NEW j \in 1..(n - k + 1), n - i = (n - k + 1) - j
        PROVE  u.buffer[i] = u.scheduled[j]
    <3>1. i = k + j - 1
      BY <1>2, <2>3, <2>6
    <3> QED  BY <2>2, <2>4, <3>1
  <2> QED  BY <1>2, <2>2, <2>4, <2>5, <2>6 DEF Laid
<1>5. ASSUME Releases(t, u)  PROVE Laid(u)
  <2>1. PICK k \in 0..n : u = Release(a, Nth(t.last_ack, k))
    BY <1>5 DEF Releases, a
  <2>2. Good(u) /\ u.buffer = SubSeq(t.buffer, k + 1, n) /\ u.scheduled = t.scheduled
    BY <1>10, <2>1
  <2>3. k \in 0..n
    BY <2>1
  <2>4. /\ Len(u.buffer) = n - k /\ Len(u.scheduled) = s
        /\ \A i \in 1..(n - k) : u.buffer[i] = t.buffer[k + i]
    <3>1. /\ Len(SubSeq(t.buffer, k + 1, n)) = n - k
          /\ \A i \in 1..(n - k) : SubSeq(t.buffer, k + 1, n)[i] = t.buffer[k + i]
      BY <1>2, <2>3
    <3> QED  BY <2>2, <3>1 DEF s
  <2> HIDE DEF n
  <2>5. n - k <= MaxLive
    BY <1>2, <2>3, LiveLimit
  <2>6. ASSUME NEW i \in 1..(n - k), NEW j \in 1..s, (n - k) - i = s - j
        PROVE  u.buffer[i] = u.scheduled[j]
    <3>1. k + i \in 1..n /\ n - (k + i) = s - j
      BY <1>2, <2>3, <2>6
    <3>2. t.buffer[k + i] = t.scheduled[j]
      BY <1>3, <3>1
    <3>3. u.buffer[i] = t.buffer[k + i]
      BY <2>4
    <3> QED  BY <2>2, <3>2, <3>3
  <2>7. \A i \in 1..(n - k), j \in 1..s :
          (n - k) - i = s - j => u.buffer[i] = u.scheduled[j]
    BY <2>6
  <2>8. Good(u) /\ s <= MaxLive
    BY <1>2, <2>2
  <2>9. /\ Len(u.buffer) <= MaxLive /\ Len(u.scheduled) <= MaxLive
        /\ \A i \in 1..Len(u.buffer), j \in 1..Len(u.scheduled) :
             Len(u.buffer) - i = Len(u.scheduled) - j => u.buffer[i] = u.scheduled[j]
    BY <2>4, <2>5, <2>7, <2>8
  <2> QED  BY <2>8, <2>9 DEF Laid
<1>6. Laid(u)
  BY <1>1, <1>2, <1>4, <1>5
<1> QED  BY <1>6 DEF u

\* The ring of a laid out transmitter holds what it holds.
LEMMA RingOfMeans ==
  ASSUME NEW t, Laid(t)
  PROVE  Means(RingOf(t).control, RingOf(t).memory, t)
<1> DEFINE n == Len(t.buffer)
           s == Len(t.scheduled)
           entries == IF n >= s THEN t.buffer ELSE t.scheduled
           L == Len(entries)
           c == RingOf(t).control
           m == RingOf(t).memory
<1>1. /\ Good(t) /\ n \in Nat /\ s \in Nat /\ n <= MaxLive /\ s <= MaxLive
      /\ t.buffer \in Seq(Entries) /\ t.scheduled \in Seq(Entries)
      /\ t.last_sequence \in SequenceNumbers /\ t.last_ack \in SequenceNumbers
      /\ t.ignore_count \in 0..IgnoreWindow /\ t.first_replay \in BOOLEAN
      /\ MaxLive \in Nat /\ MaxLive <= Capacity /\ Capacity \in Nat \ {0}
  <2>1. Good(t) /\ n <= MaxLive /\ s <= MaxLive
    BY DEF Laid
  <2> QED  BY <2>1, GoodParts, LiveLimit, WindowIsHalf
<1>2. \A i \in 1..n, j \in 1..s : n - i = s - j => t.buffer[i] = t.scheduled[j]
  BY DEF Laid
<1>3. /\ c = [last_sequence |-> t.last_sequence, last_ack |-> t.last_ack,
              ignore |-> t.ignore_count, unacked |-> n, scheduled |-> s,
              head |-> Wrap(L - n), write |-> Wrap(L),
              replay_sequence |-> IF s > 0 THEN t.scheduled[1].sequence ELSE 0,
              replay_pointer |-> IF s > 0 THEN L - s ELSE 0, first |-> t.first_replay]
      /\ m = [i \in Slots |-> IF i < L THEN entries[i + 1] ELSE Blank]
  BY DEF RingOf
<1>4. /\ entries \in Seq(Entries) /\ L \in Nat /\ L <= MaxLive /\ n <= L /\ s <= L
      /\ \A i \in 1..L : entries[i] \in Entries
      /\ \A i \in 1..s : t.scheduled[i] \in Entries
  BY <1>1
<1>5. \A i \in 1..n : entries[(L - n) + i] = t.buffer[i]
  <2>1. CASE n >= s
    BY <1>1, <2>1
  <2>2. CASE ~(n >= s)
    <3>1. entries = t.scheduled /\ L = s /\ n < s
      BY <1>1, <2>2
    <3> HIDE DEF entries, L, n, s
    <3>2. ASSUME NEW i \in 1..n
          PROVE  t.scheduled[(s - n) + i] = t.buffer[i]
      <4>1. (s - n) + i \in 1..s /\ n - i = s - ((s - n) + i)
        BY <1>1, <3>1
      <4> QED  BY <1>2, <4>1
    <3> QED  BY <3>1, <3>2
  <2> QED  BY <2>1, <2>2
<1>6. \A i \in 1..s : entries[(L - s) + i] = t.scheduled[i]
  <2>1. CASE n >= s
    <3>1. entries = t.buffer /\ L = n
      BY <2>1
    <3> HIDE DEF entries, L, n, s
    <3>2. ASSUME NEW i \in 1..s
          PROVE  t.buffer[(n - s) + i] = t.scheduled[i]
      <4>1. (n - s) + i \in 1..n /\ n - ((n - s) + i) = s - i
        BY <1>1, <2>1
      <4> QED  BY <1>2, <4>1
    <3> QED  BY <3>1, <3>2
  <2>2. CASE ~(n >= s)
    BY <1>1, <2>2
  <2> QED  BY <2>1, <2>2
<1>7. n = Len(t.buffer) /\ s = Len(t.scheduled)
  OBVIOUS
<1> HIDE DEF n, s, entries, L, c, m
<1>8. L \in 0..(2 * Capacity - 1) /\ L - n \in 0..(2 * Capacity - 1)
  BY <1>1, <1>4
<1>9. /\ Wrap(L) = At(L) /\ Wrap(L - n) = At(L - n) /\ Wrap(L) \in Slots /\ Wrap(L - n) \in Slots
  BY <1>8, WrapIsAt
<1>10. ASSUME NEW k \in 0..(L - 1)
       PROVE  At(k) = k /\ m[At(k)] = entries[k + 1]
  <2>1. k \in 0..(2 * Capacity - 1) /\ k < Capacity /\ k < L
    BY <1>1, <1>4
  <2>2. k \in Slots
    BY <1>1, <2>1 DEF Slots
  <2>3. At(k) = k
    <3>1. At(k) = IF k >= Capacity THEN k - Capacity ELSE k
      BY <2>1, WrapIsAt
    <3>2. ~(k >= Capacity)
      BY <1>1, <2>1
    <3> QED  BY <3>1, <3>2
  <2>4. m[k] = IF k < L THEN entries[k + 1] ELSE Blank
    BY <1>3, <2>2
  <2> QED  BY <2>1, <2>3, <2>4
<1>11. c.write = At(c.head + c.unacked)
  <2>1. c.write = Wrap(L) /\ c.head = Wrap(L - n) /\ c.unacked = n
    BY <1>3
  <2>2. CASE L - n = Capacity
    <3>1. n = 0 /\ L = Capacity
      BY <1>1, <1>4, <2>2
    <3>2. Wrap(L) = 0 /\ Wrap(L - n) = 0
      BY <1>1, <3>1 DEF Wrap
    <3>3. At(0) = 0
      BY <1>1, WrapIsAt
    <3> QED  BY <2>1, <3>1, <3>2, <3>3
  <2>3. CASE L - n # Capacity
    <3>1. Wrap(L - n) = L - n
      BY <1>1, <1>4, <2>3 DEF Wrap
    <3>2. (L - n) + n = L
      BY <1>1, <1>4
    <3> QED  BY <1>9, <2>1, <3>1, <3>2
  <2> QED  BY <2>2, <2>3
<1>12. ASSUME NEW i \in 1..n
       PROVE  m[At(c.head + i - 1)] = t.buffer[i]
  <2>1. c.head = L - n
    BY <1>1, <1>3, <1>4 DEF Wrap
  <2>2. (L - n) + i - 1 \in 0..(L - 1) /\ ((L - n) + i - 1) + 1 = (L - n) + i
    BY <1>1, <1>4
  <2> QED  BY <1>5, <1>10, <2>1, <2>2
<1>13. ASSUME NEW i \in 1..s
       PROVE  m[At(c.replay_pointer + i - 1)] = t.scheduled[i]
  <2>1. c.replay_pointer = L - s
    BY <1>1, <1>3
  <2>2. c.replay_pointer + i - 1 \in 0..(L - 1) /\ (c.replay_pointer + i - 1) + 1 = (L - s) + i
    BY <1>1, <1>4, <2>1
  <2> QED  BY <1>6, <1>10, <2>2
<1>14. m \in [Slots -> Cells]
  <2>1. ASSUME NEW i \in Slots
        PROVE  (IF i < L THEN entries[i + 1] ELSE Blank) \in Cells
    <3>1. i < L => i + 1 \in 1..L
      BY <1>4, <2>1, LiveLimit DEF Slots
    <3> QED  BY <1>4, <3>1 DEF Cells
  <2> QED  BY <1>3, <2>1
<1>15. s > 0 => 1 \in 1..s /\ t.scheduled[1].sequence \in SequenceNumbers
  BY <1>1, <1>4 DEF Entries
<1>16. c \in RingStates
  <2>1. n \in 0..MaxLive /\ s \in 0..MaxLive
    BY <1>1
  <2>2. (IF s > 0 THEN t.scheduled[1].sequence ELSE 0) \in 0..SeqMax
    BY <1>15, SeqMaxAssumption DEF SequenceNumbers
  <2>3. (IF s > 0 THEN L - s ELSE 0) \in Slots
    BY <1>1, <1>4 DEF Slots
  <2> QED  BY <1>1, <1>3, <1>9, <2>1, <2>2, <2>3 DEF RingStates
<1>17. Means(c, m, t)
  BY <1>3, <1>7, <1>11, <1>12, <1>13, <1>14, <1>15, <1>16 DEF Means
<1> QED  BY <1>17 DEF c, m

-------------------------------------------------------------------------------
(* The receiver of the hardware.                                               *)

\* What a word holds, and how it decodes.
LEMMA WordHolds ==
  ASSUME NEW word \in Words, NEW h, h = DecodeHeader(word)
  PROVE  /\ WordOp(word) \in 0..7 /\ WordPayload(word) \in BOOLEAN
         /\ WordLow(word) \in 0..(LowMod - 1)
         /\ WordTarget(word) \in 0..SeqMax /\ WordSequence(word) \in 0..SeqMax
         /\ h.op = WordOp(word) /\ h.payload = WordPayload(word)
         /\ IF WordOp(word) >= 4 \/ (WordOp(word) = 1 /\ ~WordPayload(word))
            THEN h.error = "reserved_op"
            ELSE IF WordOp(word) \in {0, 1}
            THEN /\ h.sequence = WordSequence(word)
                 /\ h.error = IF WordSequence(word) = 0 THEN "zero_sequence" ELSE NoError
            ELSE /\ WordOp(word) \in {2, 3} /\ h.sequence = NoField
                 /\ h.sequence_low = WordLow(word) /\ h.ack_request = WordTarget(word)
                 /\ h.error = IF WordTarget(word) = 0 THEN "zero_ack_request" ELSE NoError
<1> DEFINE x == WordField(word)
           op == WordOp(word)
           payload == WordPayload(word)
<1>1. /\ FieldMod \in Nat \ {0} /\ SeqMod \in Nat \ {0} /\ LowMod \in Nat \ {0}
      /\ ReservedMod \in Nat \ {0} /\ FieldMod = SeqMod * LowMod /\ SeqMod = SeqMax + 1
      /\ SeqMax \in Nat
  BY FieldSizes
<1>2. word \in Nat /\ word \div ReservedMod \in Nat
  BY <1>1 DEF Words
<1>3. x \in 0..(SeqMod * LowMod - 1)
  BY <1>1, <1>2 DEF WordField
<1>4. x \div LowMod \in 0..SeqMax
  <2> HIDE DEF x
  <2>1. x \div LowMod \in 0..(SeqMod - 1)
    BY <1>1, <1>3, FieldSplit
  <2> QED  BY <1>1, <2>1
<1>5. x % LowMod \in 0..(LowMod - 1) /\ x % SeqMod \in 0..SeqMax
  <2> HIDE DEF x
  <2>1. x \in Int
    BY <1>3
  <2> QED  BY <1>1, <2>1
<1>6. op \in 0..7
  <2> DEFINE y == FieldMod * ReservedMod
             z == 2 * FieldMod * ReservedMod
  <2>1. y \in Nat \ {0} /\ z = 2 * y /\ 16 * FieldMod * ReservedMod = 16 * y
    BY <1>1
  <2>2. word \in 0..(16 * y - 1)
    BY <2>1 DEF Words
  <2> HIDE DEF y
  <2>3. z \in Nat \ {0} /\ 16 * y = 8 * z
    BY <2>1
  <2> HIDE DEF z
  <2>4. word \in 0..(8 * z - 1)
    BY <2>2, <2>3
  <2>5. word \div z \in 0..7
    BY <2>3, <2>4, FieldSplit
  <2> QED  BY <2>5 DEF WordOp, z
<1>7. payload \in BOOLEAN
  BY DEF WordPayload
<1> HIDE DEF x
<1>8. WordLow(word) = x % LowMod /\ WordTarget(word) = x \div LowMod
      /\ WordSequence(word) = x % SeqMod
  BY DEF WordLow, WordTarget, WordSequence, x
<1>9. CASE op >= 4 \/ (op = 1 /\ ~payload)
  <2>1. h = Header(op, payload, NoField, NoField, NoField, "reserved_op")
    <3>1. op >= 4 \/ (op = OpReplay /\ ~payload)
      BY <1>9 DEF OpReplay
    <3>2. ~(op = OpExplicit \/ (op = OpReplay /\ payload)) /\ op \notin CommandOps
      BY <1>6, <1>9 DEF OpReplay, OpExplicit, CommandOps, OpAck, OpRequest
    <3> HIDE DEF op, payload
    <3>3. h = CASE op >= 4 \/ (op = OpReplay /\ ~payload) ->
                      Header(op, payload, NoField, NoField, NoField, "reserved_op")
                [] op = OpExplicit \/ (op = OpReplay /\ payload) ->
                      Header(op, payload, WordSequence(word), NoField, NoField,
                             IF WordSequence(word) = 0 THEN "zero_sequence" ELSE NoError)
                [] op \in CommandOps ->
                      Header(op, payload, NoField, WordLow(word), WordTarget(word),
                             IF WordTarget(word) = 0 THEN "zero_ack_request" ELSE NoError)
      BY DEF DecodeHeader, op, payload, WordSequence, WordLow, WordTarget
    <3> QED  BY <3>1, <3>2, <3>3
  <2> QED  BY <1>4, <1>5, <1>6, <1>7, <1>8, <1>9, <2>1 DEF Header
<1>10. CASE ~(op >= 4 \/ (op = 1 /\ ~payload)) /\ op \in {0, 1}
  <2>1. h = Header(op, payload, WordSequence(word), NoField, NoField,
                   IF WordSequence(word) = 0 THEN "zero_sequence" ELSE NoError)
    BY <1>10 DEF DecodeHeader, OpReplay, OpExplicit, CommandOps, OpAck, OpRequest, WordSequence
  <2> QED  BY <1>4, <1>5, <1>6, <1>7, <1>8, <1>10, <2>1 DEF Header
<1>11. CASE ~(op >= 4 \/ (op = 1 /\ ~payload)) /\ op \notin {0, 1}
  <2>1. op \in {2, 3}
    BY <1>6, <1>11
  <2>2. h = Header(op, payload, NoField, WordLow(word), WordTarget(word),
                   IF WordTarget(word) = 0 THEN "zero_ack_request" ELSE NoError)
    BY <2>1 DEF DecodeHeader, OpReplay, OpExplicit, CommandOps, OpAck, OpRequest, WordLow, WordTarget
  <2> QED  BY <1>4, <1>5, <1>6, <1>7, <1>8, <1>11, <2>1, <2>2 DEF Header
<1> QED  BY <1>9, <1>10, <1>11

\* One conditional subtraction is the remainder of the sequence counter.
LEMMA SeqModulo ==
  ASSUME NEW x \in 0..(2 * SeqMod - 1)
  PROVE  x % SeqMod = IF x >= SeqMod THEN x - SeqMod ELSE x
<1>1. SeqMod \in Nat \ {0}
  BY FieldSizes
<1> QED  BY <1>1

\* Counting the high bits up with a cut carry is adding what the low bits lack.
LEMMA CompletesAlike ==
  ASSUME NEW r \in RxStates, NEW word, WordLow(word) \in 0..(LowMod - 1),
         WordPayload(word) \in BOOLEAN
  PROVE  LET low == WordLow(word)
         IN  /\ CompletedSequence(r, word) = Completed(r.last_sequence, low, WordPayload(word))
             /\ CompletedSequence(r, word) \in 0..SeqMax
             /\ CompletedSequence(r, word) % LowMod = low
<1> DEFINE M == LowMod
           low == WordLow(word)
           payload == WordPayload(word)
           last == r.last_sequence
           q == last \div M
           a == last % M
           wraps == WrapsLow(r, word)
           w == Bit(wraps)
           K == SeqMod \div M
           high == (q + w) % K
           delta == (low - a) % M
           step == IF payload /\ delta = 0 THEN M ELSE delta
<1>1. M \in Nat \ {0} /\ M >= 2 /\ SeqMod \in Nat \ {0} /\ SeqMod = SeqMax + 1 /\ SeqMax \in Nat
  BY FieldSizes, LowModAssumption
<1>2. last \in 1..SeqMax /\ last \in Nat
  BY DEF RxStates, SequenceNumbers
<1>3. last = M * q + a /\ q \in Nat /\ a \in 0..(M - 1)
  BY <1>1, <1>2, DivMod
<1>4. K \in Nat /\ SeqMod = M * K
  <2>1. SeqMod = M * K + (SeqMod % M) /\ K \in Nat
    BY <1>1, DivMod
  <2>2. SeqMod % M = 0
    BY LowModAssumption DEF SeqMod
  <2> HIDE DEF K
  <2> QED  BY <1>1, <2>1, <2>2
<1>5. (wraps <=> low < a \/ (payload /\ low = a)) /\ w = IF wraps THEN 1 ELSE 0
  BY DEF WrapsLow, Bit
<1>6. /\ CompletedSequence(r, word) = high * M + low
      /\ Completed(last, low, payload) = (last + step) % SeqMod
  BY DEF CompletedSequence, Completed
<1>7. low \in 0..(M - 1) /\ payload \in BOOLEAN
  OBVIOUS
<1>8. delta = IF low >= a THEN low - a ELSE low - a + M
  <2> DEFINE y == low - a
  <2> HIDE DEF low, a
  <2>1. y \in Int /\ -LowMod < y /\ y < LowMod
    BY <1>1, <1>3, <1>7
  <2>2. y = low - a
    OBVIOUS
  <2> HIDE DEF y
  <2>3. y % LowMod = IF y >= 0 THEN y ELSE y + LowMod
    BY <2>1, LowModulo
  <2>4. low \in Int /\ a \in Int
    BY <1>1, <1>3, <1>7
  <2> QED  BY <2>1, <2>2, <2>3, <2>4
<1> HIDE DEF M, low, payload, last, q, a, wraps, w, K, delta
<1>9. step = low - a + (IF wraps THEN M ELSE 0)
  <2>1. step = IF payload /\ delta = 0 THEN M ELSE delta
    OBVIOUS
  <2> HIDE DEF step
  <2>2. low \in Int /\ a \in Int /\ M \in Int /\ low >= 0 /\ a < M
    BY <1>1, <1>3, <1>7
  <2>3. CASE low < a
    <3>1. delta = low - a + M /\ delta # 0
      BY <1>8, <2>2, <2>3
    <3>2. wraps
      BY <1>5, <2>3
    <3> QED  BY <2>1, <2>2, <3>1, <3>2
  <2>4. CASE low > a
    <3>1. delta = low - a /\ delta # 0
      BY <1>8, <2>2, <2>4
    <3>2. ~wraps
      BY <1>5, <2>2, <2>4
    <3> QED  BY <2>1, <2>2, <3>1, <3>2
  <2>5. CASE low = a
    <3>1. delta = 0
      BY <1>8, <2>2, <2>5
    <3>2. wraps <=> payload
      BY <1>5, <2>2, <2>5
    <3> QED  BY <2>1, <2>2, <2>5, <3>1, <3>2
  <2> QED  BY <2>2, <2>3, <2>4, <2>5
<1> HIDE DEF step
<1>10. w \in 0..1 /\ (wraps => w = 1) /\ (~wraps => w = 0)
  BY <1>5
<1>11. q < K
  <2> DEFINE P == M * q
             Q == M * K
  <2>1. P < Q
    BY <1>1, <1>2, <1>3, <1>4
  <2>2. ASSUME q >= K  PROVE FALSE
    <3>1. PICK d \in Nat : q = K + d
      <4>1. q - K \in Nat /\ q = K + (q - K)
        BY <1>3, <1>4, <2>2
      <4> QED  BY <4>1
    <3>2. M * q = M * K + M * d /\ M * d \in Nat
      BY <1>1, <1>3, <1>4, <3>1
    <3> QED  BY <1>1, <1>3, <1>4, <2>1, <3>2
  <2> QED  BY <1>3, <1>4, <2>2
<1>12. q + w \in 0..K /\ K \in Nat \ {0}
  BY <1>3, <1>4, <1>10, <1>11
<1>13. last + step = M * (q + w) + low
  <2>1. M * (q + 1) = M * q + M
    BY <1>1, <1>3
  <2>4. M \in Int /\ a \in Int /\ low \in Int /\ M * q \in Int
    BY <1>1, <1>3, <1>7
  <2>2. CASE wraps
    <3>1. w = 1 /\ step = low - a + M
      BY <1>9, <1>10, <2>2
    <3>2. M * (q + w) = M * q + M
      BY <2>1, <3>1
    <3> QED  BY <1>3, <2>4, <3>1, <3>2
  <2>3. CASE ~wraps
    <3>1. w = 0 /\ step = low - a + 0
      BY <1>9, <1>10, <2>3
    <3>2. M * (q + w) = M * q
      BY <1>1, <1>3, <3>1
    <3> QED  BY <1>3, <2>4, <3>1, <3>2
  <2> QED  BY <2>2, <2>3
<1>14. high = IF q + w = K THEN 0 ELSE q + w
  <2>1. \A x \in 0..K : x % K = IF x = K THEN 0 ELSE x
    BY <1>12
  <2> QED  BY <1>12, <2>1
<1> HIDE DEF high
<1>15. high \in Nat /\ high < K
  BY <1>12, <1>14
<1>16. M * high + low \in 0..SeqMax /\ high * M = M * high
  <2>1. PICK d \in Nat : K = high + 1 + d
    <3>1. K - high - 1 \in Nat /\ K = high + 1 + (K - high - 1)
      BY <1>12, <1>15
    <3> QED  BY <3>1
  <2>2. M * K = M * high + M + M * d /\ M * d \in Nat /\ M * high \in Nat
    BY <1>1, <1>15, <2>1
  <2>3. high * M = M * high
    BY <1>1, <1>15
  <2> QED  BY <1>1, <1>4, <1>7, <2>2, <2>3
<1>17. (last + step) % SeqMod = M * high + low
  <2>1. CASE q + w = K
    <3>1. last + step = SeqMod + low /\ high = 0 /\ M * high = 0
      BY <1>1, <1>4, <1>13, <1>14, <2>1
    <3>2. low < SeqMod /\ low \in Nat
      BY <1>1, <1>7, <1>16, <3>1
    <3> DEFINE y == SeqMod + low
    <3>3. y \in 0..(2 * SeqMod - 1) /\ y >= SeqMod /\ y - SeqMod = low
      BY <1>1, <3>2
    <3> HIDE DEF y
    <3>4. y % SeqMod = low
      BY <3>3, SeqModulo
    <3> QED  BY <1>1, <3>1, <3>2, <3>4 DEF y
  <2>2. CASE q + w # K
    <3>1. last + step = M * high + low
      BY <1>13, <1>14, <2>2
    <3> DEFINE y == M * high + low
    <3>2. y \in 0..(2 * SeqMod - 1) /\ ~(y >= SeqMod)
      BY <1>1, <1>16
    <3> HIDE DEF y
    <3>3. y % SeqMod = y
      BY <3>2, SeqModulo
    <3> QED  BY <3>1, <3>3 DEF y
  <2> QED  BY <2>1, <2>2
<1>18. (high * M + low) % M = low
  BY <1>1, <1>7, <1>15, DivModUnique
<1>19. /\ CompletedSequence(r, word) = Completed(last, low, payload)
       /\ CompletedSequence(r, word) \in 0..SeqMax
       /\ CompletedSequence(r, word) % M = low
  BY <1>6, <1>16, <1>17, <1>18
<1> QED  BY <1>19 DEF M, last, low, payload

\* The number a receiver waits for.
Awaited(r, payload) == IF payload THEN Successor(r.last_sequence) ELSE r.last_sequence

\* Comparing low bits finds what comparing completed numbers finds.
LEMMA LowBitsDecide ==
  ASSUME NEW r \in RxStates, NEW word, WordLow(word) \in 0..(LowMod - 1),
         WordPayload(word) \in BOOLEAN
  PROVE  WordLow(word) = Awaited(r, WordPayload(word)) % LowMod
           <=> Completed(r.last_sequence, WordLow(word), WordPayload(word))
                 = Awaited(r, WordPayload(word))
<1> DEFINE low == WordLow(word)
           payload == WordPayload(word)
           last == r.last_sequence
           e == Awaited(r, payload)
           j == Bit(payload)
<1>1. last \in SequenceNumbers /\ payload \in BOOLEAN
  BY DEF RxStates
<1>2. Completed(last, low, payload) % LowMod = low
  BY CompletesAlike
<1>3. j \in 0..(LowMod - 1) /\ j \in 0..Window /\ j <= Window
      /\ (payload => j >= 1) /\ (~payload => j < LowMod - 1)
  BY <1>1, LowModAssumption, WindowIsHalf DEF Bit
<1>4. e = Nth(last, j)
  <2>1. Nth(last, 0) = last
    BY <1>1, SeqMaxAssumption DEF Nth, SequenceNumbers
  <2>2. Successor(last) = Nth(last, 1)
    BY <1>1, <2>1, SuccessorOfNth, WindowIsHalf
  <2> QED  BY <1>1, <2>1, <2>2 DEF Awaited, Bit
<1> HIDE DEF e, j, last, payload
<1>5. Completed(last, e % LowMod, payload) = e
  BY <1>1, <1>3, <1>4, CompletionExact
<1>6. low = e % LowMod <=> Completed(last, low, payload) = e
  BY <1>2, <1>5
<1> QED  BY <1>6 DEF e, last, payload

\* What the registers become, from the verdict on the Flit.
HwState(c, bad, valid, trusted, accept, sequence) ==
  LET start == valid /\ trusted /\ ~accept /\ ~c.replay
      counts == c.replay /\ (bad \/ (valid /\ ~accept))
      unexpected == Saturating(c.unexpected_count, UnexpectedMax)
      retry == counts /\ unexpected >= ReplayLimit
      badCount == Saturating(c.bad_crc_count, BadLimit)
  IN  [last_sequence |-> IF accept THEN sequence ELSE c.last_sequence,
       bad_crc_count |-> IF accept THEN 0 ELSE IF bad THEN badCount ELSE c.bad_crc_count,
       unexpected_count |-> IF accept \/ start \/ retry THEN 0
                            ELSE IF counts THEN unexpected ELSE c.unexpected_count,
       ambiguous |-> ~accept /\ (c.ambiguous \/ (bad /\ badCount = BadLimit)),
       replay |-> ~accept /\ (c.replay \/ start)]

HwRequest(c, bad, valid, trusted, accept) ==
  \/ valid /\ trusted /\ ~accept /\ ~c.replay
  \/ /\ c.replay /\ (bad \/ (valid /\ ~accept))
     /\ Saturating(c.unexpected_count, UnexpectedMax) >= ReplayLimit

\* The hardware counts as the reference does.
LEMMA CountsAlike ==
  ASSUME NEW c \in RxStates
  PROVE  /\ Saturating(c.unexpected_count, UnexpectedMax)
              = Min2(UnexpectedMax, c.unexpected_count + 1)
         /\ Saturating(c.bad_crc_count, BadLimit) = Min2(BadLimit, c.bad_crc_count + 1)
         /\ Min2(BadLimit, c.bad_crc_count + 1) >= BadLimit
              <=> Min2(BadLimit, c.bad_crc_count + 1) = BadLimit
BY BadLimitAssumption, ReplayLimitAssumption DEF RxStates, Saturating, Min2

\* Receivers with the same registers are the same.
LEMMA SameRegisters ==
  ASSUME NEW c \in RxStates, NEW d \in RxStates,
         c.last_sequence = d.last_sequence, c.bad_crc_count = d.bad_crc_count,
         c.unexpected_count = d.unexpected_count, c.ambiguous = d.ambiguous,
         c.replay = d.replay
  PROVE  c = d
BY DEF RxStates

\* The registers after a counted Flit of a wait.
Counted(c, n, out) ==
  /\ out.state \in RxStates
  /\ out.state.last_sequence = c.last_sequence
  /\ out.state.bad_crc_count = c.bad_crc_count
  /\ out.state.unexpected_count = IF n >= ReplayLimit THEN 0 ELSE n
  /\ out.state.ambiguous = c.ambiguous /\ out.state.replay = c.replay
  /\ out.accepted = FALSE /\ out.deliver = FALSE
  /\ out.request \in BOOLEAN /\ (out.request <=> n >= ReplayLimit)

\* That is what the reference leaves.
LEMMA WaitingRegisters ==
  ASSUME NEW c \in RxStates
  PROVE  Counted(c, Min2(UnexpectedMax, c.unexpected_count + 1), UnexpectedInReplay(c))
<1> DEFINE n == Min2(UnexpectedMax, c.unexpected_count + 1)
           out == UnexpectedInReplay(c)
           m == IF n >= ReplayLimit THEN 0 ELSE n
           request == n >= ReplayLimit
<1>1. out = Outcome([c EXCEPT !.unexpected_count = m], FALSE, FALSE, request)
  BY DEF UnexpectedInReplay
<1>4. request \in BOOLEAN
  OBVIOUS
<1> HIDE DEF m, request, n, out
<1>5. out.state = [c EXCEPT !.unexpected_count = m]
      /\ out.accepted = FALSE /\ out.deliver = FALSE /\ out.request = request
  BY <1>1 DEF Outcome
<1>2. /\ out.state = [c EXCEPT !.unexpected_count = m]
      /\ out.accepted = FALSE /\ out.deliver = FALSE
      /\ out.request \in BOOLEAN /\ (out.request <=> n >= ReplayLimit)
  BY <1>4, <1>5 DEF request
<1>3. out.state.unexpected_count = m
  BY <1>2 DEF RxStates
<1>6. out.state \in RxStates
  BY UnexpectedKeeps DEF out
<1>7. Counted(c, n, out)
  BY <1>2, <1>3, <1>6 DEF m, Counted
<1> QED  BY <1>7 DEF n, out

\* The hardware refuses a Flit as the outcome of the reference does.
Refuses(c, bad, trusted, sequence, out) ==
  /\ HwState(c, bad, ~bad, trusted, FALSE, sequence) = out.state
  /\ HwRequest(c, bad, ~bad, trusted, FALSE) <=> out.request
  /\ out.request \in BOOLEAN
  /\ out.accepted = FALSE /\ out.deliver = FALSE
  /\ out.state.last_sequence = c.last_sequence

\* The registers after a bad Flit.
LEMMA BadAlike ==
  ASSUME NEW c \in RxStates, NEW trusted \in BOOLEAN, NEW sequence
  PROVE  Refuses(c, TRUE, trusted, sequence, RxDiscard(c))
<1> DEFINE out == RxDiscard(c)
           n == Min2(UnexpectedMax, c.unexpected_count + 1)
           b == Min2(BadLimit, c.bad_crc_count + 1)
           a == c.ambiguous \/ b >= BadLimit
           d == [c EXCEPT !.bad_crc_count = b, !.ambiguous = a]
           request == n >= ReplayLimit
           x == HwState(c, TRUE, FALSE, trusted, FALSE, sequence)
           y == HwRequest(c, TRUE, FALSE, trusted, FALSE)
           count == IF c.replay /\ request THEN 0 ELSE IF c.replay THEN n ELSE c.unexpected_count
<1>0. SUFFICES /\ x = out.state /\ (y <=> out.request) /\ out.request \in BOOLEAN
             /\ out.accepted = FALSE /\ out.deliver = FALSE
             /\ out.state.last_sequence = c.last_sequence
  <2>1. (~TRUE) = FALSE /\ (~FALSE) = TRUE
    OBVIOUS
  <2> HIDE DEF out
  <2>2. Refuses(c, TRUE, trusted, sequence, out)
    BY <1>0, <2>1 DEF Refuses
  <2> QED  BY <2>2 DEF out
<1>1. /\ Saturating(c.unexpected_count, UnexpectedMax) = n
      /\ Saturating(c.bad_crc_count, BadLimit) = b
      /\ b >= BadLimit <=> b = BadLimit
  BY CountsAlike
<1>2. /\ c.replay \in BOOLEAN /\ c.ambiguous \in BOOLEAN /\ c.last_sequence \in SequenceNumbers
      /\ b \in 0..BadLimit /\ n \in 0..UnexpectedMax /\ c.unexpected_count \in 0..UnexpectedMax
      /\ 0 \in 0..UnexpectedMax
  BY BadLimitAssumption, ReplayLimitAssumption DEF RxStates, Min2
<1>3. a \in BOOLEAN /\ (a <=> c.ambiguous \/ b = BadLimit) /\ request \in BOOLEAN
  BY <1>1
<1>4. /\ d \in RxStates
      /\ d.last_sequence = c.last_sequence /\ d.bad_crc_count = b
      /\ d.unexpected_count = c.unexpected_count /\ d.ambiguous = a /\ d.replay = c.replay
  <2> HIDE DEF a, b
  <2> QED  BY <1>2, <1>3 DEF RxStates
<1>5. out = IF c.replay THEN UnexpectedInReplay(d) ELSE Ignored(d)
  BY DEF RxDiscard, RxStates
<1> HIDE DEF out
<1>6. /\ x.last_sequence = c.last_sequence /\ x.bad_crc_count = b
      /\ x.unexpected_count = count /\ x.ambiguous = a /\ x.replay = c.replay
      /\ x \in RxStates
  <2>1. x = [last_sequence |-> c.last_sequence, bad_crc_count |-> b,
             unexpected_count |-> count, ambiguous |-> c.ambiguous \/ b = BadLimit,
             replay |-> c.replay]
    BY <1>1, <1>2 DEF HwState
  <2>2. count \in 0..UnexpectedMax
    BY <1>2
  <2> HIDE DEF a, b, n, count, x
  <2>3. (c.ambiguous \/ b = BadLimit) = a
    BY <1>3
  <2> QED  BY <1>2, <1>3, <2>1, <2>2, <2>3 DEF RxStates
<1>7. y <=> c.replay /\ request
  BY <1>1 DEF HwRequest
<1> HIDE DEF a, b, n, d, x, y, request
<1>8. CASE c.replay
  <2>1. out = UnexpectedInReplay(d)
    BY <1>5, <1>8
  <2>2. n = Min2(UnexpectedMax, d.unexpected_count + 1)
    BY <1>4 DEF n
  <2>3. /\ out.state \in RxStates
        /\ out.state.last_sequence = d.last_sequence
        /\ out.state.bad_crc_count = d.bad_crc_count
        /\ out.state.unexpected_count = IF n >= ReplayLimit THEN 0 ELSE n
        /\ out.state.ambiguous = d.ambiguous /\ out.state.replay = d.replay
        /\ out.accepted = FALSE /\ out.deliver = FALSE
        /\ out.request \in BOOLEAN /\ (out.request <=> n >= ReplayLimit)
    <3>1. d \in RxStates
      BY <1>4
    <3>2. Counted(d, n, out)
      BY <2>1, <2>2, <3>1, WaitingRegisters
    <3> QED  BY <3>2 DEF Counted
  <2>4. count = IF n >= ReplayLimit THEN 0 ELSE n
    BY <1>8 DEF request
  <2> HIDE DEF count
  <2>5. x = out.state
    BY <1>4, <1>6, <2>3, <2>4, SameRegisters
  <2>6. y <=> out.request
    BY <1>7, <1>8, <2>3 DEF request
  <2> QED  BY <1>3, <1>4, <2>3, <2>5, <2>6
<1>9. CASE ~c.replay
  <2>1. out = Outcome(d, FALSE, FALSE, FALSE)
    BY <1>5, <1>9 DEF Ignored
  <2>2. /\ out.state = d /\ out.accepted = FALSE /\ out.deliver = FALSE /\ out.request = FALSE
    BY <2>1 DEF Outcome
  <2>3. count = c.unexpected_count
    BY <1>9
  <2> HIDE DEF count
  <2>4. x = d
    BY <1>4, <1>6, <2>3, SameRegisters
  <2>5. ~y
    BY <1>7, <1>9
  <2> QED  BY <1>4, <2>2, <2>4, <2>5
<1> QED  BY <1>8, <1>9

\* The registers after a Flit that is good and not accepted.
LEMMA RefusedAlike ==
  ASSUME NEW c \in RxStates, NEW trusted \in BOOLEAN, NEW sequence
  PROVE  Refuses(c, FALSE, trusted, sequence,
                 IF trusted THEN Unexpected(c)
                 ELSE IF c.replay THEN UnexpectedInReplay(c) ELSE Ignored(c))
<1> DEFINE out == IF trusted THEN Unexpected(c)
                  ELSE IF c.replay THEN UnexpectedInReplay(c) ELSE Ignored(c)
           n == Min2(UnexpectedMax, c.unexpected_count + 1)
           request == n >= ReplayLimit
           starts == trusted /\ ~c.replay
           x == HwState(c, FALSE, TRUE, trusted, FALSE, sequence)
           y == HwRequest(c, FALSE, TRUE, trusted, FALSE)
           count == IF starts \/ (c.replay /\ request) THEN 0
                    ELSE IF c.replay THEN n ELSE c.unexpected_count
<1>0. SUFFICES /\ x = out.state /\ (y <=> out.request) /\ out.request \in BOOLEAN
             /\ out.accepted = FALSE /\ out.deliver = FALSE
             /\ out.state.last_sequence = c.last_sequence
  <2>1. (~TRUE) = FALSE /\ (~FALSE) = TRUE
    OBVIOUS
  <2> HIDE DEF out
  <2>2. Refuses(c, FALSE, trusted, sequence, out)
    BY <1>0, <2>1 DEF Refuses
  <2> QED  BY <2>2 DEF out
<1>1. Saturating(c.unexpected_count, UnexpectedMax) = n
  BY CountsAlike
<1>2. /\ c.replay \in BOOLEAN /\ c.ambiguous \in BOOLEAN /\ c.last_sequence \in SequenceNumbers
      /\ c.bad_crc_count \in 0..BadLimit /\ n \in 0..UnexpectedMax
      /\ c.unexpected_count \in 0..UnexpectedMax /\ 0 \in 0..UnexpectedMax
  BY BadLimitAssumption, ReplayLimitAssumption DEF RxStates, Min2
<1>3. request \in BOOLEAN /\ starts \in BOOLEAN
  OBVIOUS
<1>4. /\ x.last_sequence = c.last_sequence /\ x.bad_crc_count = c.bad_crc_count
      /\ x.unexpected_count = count /\ x.ambiguous = c.ambiguous
      /\ x.replay = (c.replay \/ starts) /\ x \in RxStates
  <2>1. x = [last_sequence |-> c.last_sequence, bad_crc_count |-> c.bad_crc_count,
             unexpected_count |-> count, ambiguous |-> c.ambiguous,
             replay |-> c.replay \/ starts]
    BY <1>1, <1>2 DEF HwState
  <2>2. count \in 0..UnexpectedMax
    BY <1>2
  <2> HIDE DEF n, count, x
  <2> QED  BY <1>2, <2>1, <2>2 DEF RxStates
<1>5. y <=> starts \/ (c.replay /\ request)
  BY <1>1 DEF HwRequest
<1>9. out = IF trusted THEN Unexpected(c)
           ELSE IF c.replay THEN UnexpectedInReplay(c) ELSE Ignored(c)
  OBVIOUS
<1> HIDE DEF n, x, y, request, out
<1>6. CASE c.replay
  <2>1. out = UnexpectedInReplay(c)
    BY <1>6, <1>9 DEF Unexpected
  <2>2. n = Min2(UnexpectedMax, c.unexpected_count + 1)
    BY DEF n
  <2>3. /\ out.state \in RxStates
        /\ out.state.last_sequence = c.last_sequence
        /\ out.state.bad_crc_count = c.bad_crc_count
        /\ out.state.unexpected_count = IF n >= ReplayLimit THEN 0 ELSE n
        /\ out.state.ambiguous = c.ambiguous /\ out.state.replay = c.replay
        /\ out.accepted = FALSE /\ out.deliver = FALSE
        /\ out.request \in BOOLEAN /\ (out.request <=> n >= ReplayLimit)
    <3>1. c \in RxStates
      OBVIOUS
    <3>2. Counted(c, n, out)
      BY <2>1, <2>2, <3>1, WaitingRegisters
    <3> QED  BY <3>2 DEF Counted
  <2>4. count = (IF n >= ReplayLimit THEN 0 ELSE n) /\ ~starts
    BY <1>6 DEF request
  <2>5. (c.replay \/ starts) = c.replay
    BY <1>2, <2>4
  <2> HIDE DEF count, starts
  <2>6. x = out.state
    BY <1>4, <2>3, <2>4, <2>5, SameRegisters
  <2>7. y <=> out.request
    BY <1>5, <1>6, <2>3, <2>4 DEF request
  <2> QED  BY <1>3, <2>3, <2>6, <2>7
<1>7. CASE starts
  <2> DEFINE d == [c EXCEPT !.replay = TRUE, !.unexpected_count = 0]
  <2>1. out = Outcome(d, FALSE, FALSE, TRUE)
    BY <1>7, <1>9 DEF Unexpected
  <2>2. /\ d \in RxStates
        /\ d.last_sequence = c.last_sequence /\ d.bad_crc_count = c.bad_crc_count
        /\ d.unexpected_count = 0 /\ d.ambiguous = c.ambiguous /\ d.replay = TRUE
    BY <1>2 DEF RxStates
  <2>3. count = 0 /\ (c.replay \/ starts) = TRUE
    BY <1>7
  <2> HIDE DEF d, count, starts
  <2>4. /\ out.state = d /\ out.accepted = FALSE /\ out.deliver = FALSE /\ out.request = TRUE
    BY <2>1 DEF Outcome
  <2>5. x = d
    BY <1>4, <2>2, <2>3, SameRegisters
  <2>6. y
    BY <1>5, <1>7
  <2> QED  BY <2>2, <2>4, <2>5, <2>6
<1>8. CASE ~c.replay /\ ~trusted
  <2>1. out = Outcome(c, FALSE, FALSE, FALSE)
    BY <1>8, <1>9 DEF Ignored
  <2>2. /\ out.state = c /\ out.accepted = FALSE /\ out.deliver = FALSE /\ out.request = FALSE
    BY <2>1 DEF Outcome
  <2>3. count = c.unexpected_count /\ ~starts /\ (c.replay \/ starts) = c.replay
    BY <1>2, <1>8
  <2> HIDE DEF count, starts
  <2>4. x = c
    BY <1>4, <2>3, SameRegisters
  <2>5. ~y
    BY <1>5, <1>8, <2>3
  <2> QED  BY <2>2, <2>4, <2>5
<1> QED  BY <1>6, <1>7, <1>8

\* The registers after a malformed Flit, and after an accepted one.
LEMMA OthersAlike ==
  ASSUME NEW c \in RxStates, NEW trusted \in BOOLEAN, NEW sequence \in SequenceNumbers
  PROVE  /\ \A any : HwState(c, FALSE, FALSE, trusted, FALSE, any) = c
         /\ ~HwRequest(c, FALSE, FALSE, trusted, FALSE)
         /\ HwState(c, FALSE, TRUE, trusted, TRUE, sequence)
              = [RxReset EXCEPT !.last_sequence = sequence]
         /\ ~HwRequest(c, FALSE, TRUE, trusted, TRUE)
<1>1. ASSUME NEW any
      PROVE  HwState(c, FALSE, FALSE, trusted, FALSE, any) = c
  <2> DEFINE x == HwState(c, FALSE, FALSE, trusted, FALSE, any)
  <2>1. x = [last_sequence |-> c.last_sequence, bad_crc_count |-> c.bad_crc_count,
             unexpected_count |-> c.unexpected_count, ambiguous |-> c.ambiguous,
             replay |-> c.replay]
    BY DEF HwState, RxStates
  <2> HIDE DEF x
  <2>2. x = c
    BY <2>1 DEF RxStates
  <2> QED  BY <2>2 DEF x
<1>2. HwState(c, FALSE, TRUE, trusted, TRUE, sequence)
        = [RxReset EXCEPT !.last_sequence = sequence]
  <2> DEFINE x == HwState(c, FALSE, TRUE, trusted, TRUE, sequence)
             d == [RxReset EXCEPT !.last_sequence = sequence]
  <2>1. x = [last_sequence |-> sequence, bad_crc_count |-> 0, unexpected_count |-> 0,
             ambiguous |-> FALSE, replay |-> FALSE]
    BY DEF HwState
  <2>2. /\ d.last_sequence = sequence /\ d.bad_crc_count = 0 /\ d.unexpected_count = 0
        /\ d.ambiguous = FALSE /\ d.replay = FALSE
    BY DEF RxReset
  <2>3. d \in RxStates
    BY AcceptedState
  <2> HIDE DEF x, d
  <2>4. /\ x.last_sequence = sequence /\ x.bad_crc_count = 0 /\ x.unexpected_count = 0
        /\ x.ambiguous = FALSE /\ x.replay = FALSE
    BY <2>1
  <2>5. x \in RxStates
    <3>1. 0 \in 0..BadLimit /\ 0 \in 0..UnexpectedMax
      BY BadLimitAssumption, ReplayLimitAssumption
    <3> QED  BY <2>1, <3>1 DEF RxStates
  <2>6. x = d
    BY <2>2, <2>3, <2>4, <2>5, SameRegisters
  <2> QED  BY <2>6 DEF x, d
<1>3. /\ ~HwRequest(c, FALSE, FALSE, trusted, FALSE)
      /\ ~HwRequest(c, FALSE, TRUE, trusted, TRUE)
  BY DEF HwRequest
<1> QED  BY <1>1, <1>2, <1>3

\* The verdict of the hardware on a Flit, in the words of the reference.
LEMMA VerdictsAlike ==
  ASSUME NEW r \in RxStates, NEW word \in Words, NEW h, h = DecodeHeader(word),
         h.error = NoError,
         NEW op, op = WordOp(word), NEW payload, payload = WordPayload(word),
         NEW sequence, sequence = IF op \in {0, 1} THEN WordSequence(word)
                                  ELSE CompletedSequence(r, word),
         NEW expected, expected = IF ~payload THEN r.last_sequence
                                  ELSE IF r.last_sequence = SeqMax THEN 1
                                  ELSE r.last_sequence + 1
  PROVE  /\ Trusted(r, h) <=> op \in {0, 1} \/ (~r.ambiguous /\ ~r.replay)
         /\ FullSequence(r, h) = sequence
         /\ Expected(r, h) <=> IF op \in {0, 1} THEN WordSequence(word) = expected
                               ELSE WordLow(word) = expected % LowMod
         /\ Expected(r, h) => sequence \in SequenceNumbers
<1>1. /\ op \in 0..7 /\ payload \in BOOLEAN /\ WordLow(word) \in 0..(LowMod - 1)
      /\ WordSequence(word) \in 0..SeqMax /\ h.payload = payload
      /\ ~(op >= 4 \/ (op = 1 /\ ~payload))
      /\ op \in {0, 1} => h.sequence = WordSequence(word)
      /\ op \notin {0, 1} => /\ h.sequence = NoField /\ h.sequence_low = WordLow(word)
  BY WordHolds DEF NoError
<1>2. expected = Awaited(r, payload) /\ expected \in SequenceNumbers
  BY <1>1, SeqMaxAssumption DEF Awaited, Successor, RxStates, SequenceNumbers
<1>3. Expected(r, h) <=> FullSequence(r, h) = expected
  BY <1>1, <1>2 DEF Expected, Awaited
<1>4. NoField \notin 0..SeqMax
  BY SeqMaxAssumption DEF NoField
<1>5. CASE op \in {0, 1}
  <2>1. h.sequence # NoField /\ h.sequence = WordSequence(word)
    BY <1>1, <1>4, <1>5
  <2>2. FullSequence(r, h) = sequence /\ sequence = WordSequence(word)
    BY <1>5, <2>1 DEF FullSequence
  <2>3. Trusted(r, h)
    BY <2>1 DEF Trusted
  <2> QED  BY <1>2, <1>3, <1>5, <2>2, <2>3
<1>6. CASE op \notin {0, 1}
  <2>1. h.sequence = NoField /\ h.sequence_low = WordLow(word)
    BY <1>1, <1>6
  <2>2. FullSequence(r, h) = Completed(r.last_sequence, WordLow(word), payload)
    BY <1>1, <2>1 DEF FullSequence, Completed
  <2>3. sequence = Completed(r.last_sequence, WordLow(word), payload)
    BY <1>1, <1>6, CompletesAlike
  <2>4. WordLow(word) = expected % LowMod <=> sequence = expected
    BY <1>1, <1>2, <2>3, LowBitsDecide
  <2>5. Trusted(r, h) <=> ~r.ambiguous /\ ~r.replay
    BY <2>1 DEF Trusted
  <2> QED  BY <1>2, <1>3, <1>6, <2>2, <2>3, <2>4, <2>5
<1> QED  BY <1>5, <1>6

\* The receiver of the hardware hands over what the outcome of the reference says.
Follows(out, x, r, command) ==
  /\ ReceiveAgrees(out, x) /\ out.request \in BOOLEAN
  /\ x.command = command
  /\ EffectiveSequence(x, r) = out.state.last_sequence

\* The receiver of the hardware does with a Flit what the reference does.
LEMMA ReceiverFollows ==
  ASSUME NEW r \in RxStates, NEW word \in Words, NEW crc_ok \in BOOLEAN
  PROVE  LET h == DecodeHeader(word)
         IN  Follows(RxReceive(r, h, crc_ok), HwReceive(r, FALSE, crc_ok, word), r,
                     CommandOf(h, crc_ok))
<1> DEFINE h == DecodeHeader(word)
           out == RxReceive(r, h, crc_ok)
           x == HwReceive(r, FALSE, crc_ok, word)
           op == WordOp(word)
           payload == WordPayload(word)
           explicit == op \in {0, 1}
           command == op \in {2, 3}
           bad == FALSE \/ ~crc_ok \/ ~(op = 0 \/ (op = 1 /\ payload) \/ command)
           valid == ~bad /\ (IF explicit THEN WordSequence(word) # 0 ELSE WordTarget(word) # 0)
           sequence == IF explicit THEN WordSequence(word) ELSE CompletedSequence(r, word)
           expected == IF ~payload THEN r.last_sequence
                       ELSE IF r.last_sequence = SeqMax THEN 1 ELSE r.last_sequence + 1
           trusted == explicit \/ (~r.ambiguous /\ ~r.replay)
           accept == /\ valid /\ trusted
                     /\ IF explicit THEN WordSequence(word) = expected
                        ELSE WordLow(word) = expected % LowMod
           state == HwState(r, bad, valid, trusted, accept, sequence)
           request == HwRequest(r, bad, valid, trusted, accept)
           delivers == accept /\ payload
           issued == IF valid /\ command
                     THEN [valid |-> TRUE, request |-> op = 3, target |-> WordTarget(word)]
                     ELSE NoCommand
<1>1. x = [state |-> state, accept |-> accept, sequence |-> IF valid THEN sequence ELSE 0,
           deliver |-> delivers, request |-> request, command |-> issued]
  BY DEF HwReceive, HwState, HwRequest
<1>13. out = RxReceive(r, h, crc_ok) /\ h = DecodeHeader(word)
  OBVIOUS
<1> HIDE DEF out, x, h
<1>2. /\ op \in 0..7 /\ payload \in BOOLEAN
      /\ h.op = op /\ h.payload = payload
      /\ IF op >= 4 \/ (op = 1 /\ ~payload) THEN h.error = "reserved_op"
         ELSE IF op \in {0, 1}
         THEN h.error = IF WordSequence(word) = 0 THEN "zero_sequence" ELSE NoError
         ELSE /\ op \in {2, 3} /\ h.ack_request = WordTarget(word)
              /\ h.error = IF WordTarget(word) = 0 THEN "zero_ack_request" ELSE NoError
  BY <1>13, WordHolds
<1>3. /\ bad \in BOOLEAN /\ valid \in BOOLEAN /\ trusted \in BOOLEAN /\ accept \in BOOLEAN
      /\ request \in BOOLEAN /\ delivers \in BOOLEAN /\ (bad => ~valid)
      /\ (accept => valid)
  BY DEF HwRequest
<1>4. /\ bad <=> ~crc_ok \/ h.error = "reserved_op"
      /\ valid <=> crc_ok /\ h.error = NoError
  BY <1>2 DEF NoError
<1>5. issued = CommandOf(h, crc_ok)
  <2>1. CASE valid /\ command
    <3>1. crc_ok /\ h.error = NoError /\ op \in {2, 3}
      BY <1>4, <2>1
    <3>2. h.op = op /\ h.ack_request = WordTarget(word)
      BY <1>2, <3>1
    <3>3. issued = [valid |-> TRUE, request |-> op = 3, target |-> WordTarget(word)]
      BY <2>1
    <3> HIDE DEF issued, op
    <3> QED  BY <3>1, <3>2, <3>3 DEF CommandOf, CommandOps, OpAck, OpRequest
  <2>2. CASE ~(valid /\ command)
    BY <1>2, <1>4, <2>2 DEF CommandOf, CommandOps, OpAck, OpRequest
  <2> QED  BY <2>1, <2>2
<1>6. valid => /\ trusted <=> Trusted(r, h)
               /\ accept <=> Trusted(r, h) /\ Expected(r, h)
               /\ FullSequence(r, h) = sequence
               /\ accept => sequence \in SequenceNumbers
  <2>1. ASSUME valid
        PROVE  /\ Trusted(r, h) <=> op \in {0, 1} \/ (~r.ambiguous /\ ~r.replay)
               /\ FullSequence(r, h) = sequence
               /\ Expected(r, h) <=> IF op \in {0, 1} THEN WordSequence(word) = expected
                                     ELSE WordLow(word) = expected % LowMod
               /\ Expected(r, h) => sequence \in SequenceNumbers
    <3>1. h.error = NoError
      BY <1>4, <2>1
    <3> QED  BY <1>13, <3>1, VerdictsAlike
  <2> QED  BY <2>1
<1>7. /\ x.state = state /\ x.accept = accept /\ x.sequence = (IF valid THEN sequence ELSE 0)
      /\ x.deliver = delivers /\ x.request = request /\ x.command = issued
  <2> DEFINE named == IF valid THEN sequence ELSE 0
  <2>1. named = IF valid THEN sequence ELSE 0
    OBVIOUS
  <2> HIDE DEF state, accept, valid, sequence, request, issued, delivers, named
  <2>2. x = [state |-> state, accept |-> accept, sequence |-> named,
             deliver |-> delivers, request |-> request, command |-> issued]
    BY <1>1, <2>1
  <2>3. x.state = state
    BY <2>2
  <2>4. x.accept = accept
    BY <2>2
  <2>5. x.sequence = named
    BY <2>2
  <2>6. x.deliver = delivers
    BY <2>2
  <2>7. x.request = request
    BY <2>2
  <2>8. x.command = issued
    BY <2>2
  <2> QED  BY <2>1, <2>3, <2>4, <2>5, <2>6, <2>7, <2>8
<1>8. SUFFICES /\ state = out.state /\ (accept <=> out.accepted)
               /\ (delivers <=> out.deliver)
               /\ (request <=> out.request)
               /\ out.accepted \in BOOLEAN /\ out.deliver \in BOOLEAN /\ out.request \in BOOLEAN
               /\ (IF accept THEN sequence ELSE r.last_sequence) = out.state.last_sequence
  <2> HIDE DEF state, valid, sequence, request, issued, accept, delivers
  <2>1. /\ (accept = out.accepted) /\ (delivers = out.deliver)
        /\ (request = out.request)
    BY <1>3, <1>8
  <2>2. EffectiveSequence(x, r) = IF accept THEN sequence ELSE r.last_sequence
    BY <1>3, <1>7 DEF EffectiveSequence
  <2>3. ReceiveAgrees(out, x) /\ out.request \in BOOLEAN
    BY <1>7, <1>8, <2>1 DEF ReceiveAgrees
  <2>4. x.command = CommandOf(h, crc_ok)
    BY <1>5, <1>7
  <2>5. EffectiveSequence(x, r) = out.state.last_sequence
    BY <1>8, <2>2
  <2> HIDE DEF out, x
  <2>6. Follows(out, x, r, CommandOf(h, crc_ok))
    BY <2>3, <2>4, <2>5 DEF Follows
  <2> QED  BY <2>6 DEF out, x, h
<1> HIDE DEF op, explicit, command, bad, valid, sequence, expected, trusted, accept, issued
<1>9. CASE bad
  <2>1. bad = TRUE /\ valid = FALSE /\ accept = FALSE
    BY <1>3, <1>9
  <2>2. out = RxDiscard(r)
    BY <1>13, <1>4, <1>9 DEF RxReceive, NoError
  <2>3. /\ HwState(r, TRUE, FALSE, trusted, FALSE, sequence) = out.state
        /\ HwRequest(r, TRUE, FALSE, trusted, FALSE) <=> out.request
        /\ out.request \in BOOLEAN
        /\ out.accepted = FALSE /\ out.deliver = FALSE
        /\ out.state.last_sequence = r.last_sequence
    <3>0. trusted \in BOOLEAN
      BY <1>3
    <3>1. Refuses(r, TRUE, trusted, sequence, out)
      BY <2>2, <3>0, BadAlike
    <3>2. (~TRUE) = FALSE
      OBVIOUS
    <3> QED  BY <3>1, <3>2 DEF Refuses
  <2> QED  BY <2>1, <2>3
<1>10. CASE ~bad /\ ~valid
  <2>1. bad = FALSE /\ valid = FALSE /\ accept = FALSE
    BY <1>3, <1>10
  <2>2. crc_ok /\ h.error \in {"zero_sequence", "zero_ack_request"}
    BY <1>2, <1>4, <1>10
  <2>3. out = Ignored(r)
    BY <1>13, <2>2 DEF RxReceive, NoError
  <2>4. state = r /\ ~request
    <3>1. SeqMax \in SequenceNumbers
      BY SeqMaxAssumption DEF SequenceNumbers
    <3> QED  BY <1>3, <2>1, <3>1, OthersAlike
  <2> QED  BY <2>1, <2>3, <2>4 DEF Ignored, Outcome
<1>11. CASE valid /\ accept
  <2>1. bad = FALSE /\ valid = TRUE /\ accept = TRUE /\ sequence \in SequenceNumbers
    BY <1>3, <1>6, <1>11
  <2>2. out = Accept(r, h) /\ FullSequence(r, h) = sequence
    BY <1>13, <1>4, <1>6, <1>11 DEF RxReceive, NoError
  <2>3. out = Outcome([RxReset EXCEPT !.last_sequence = sequence], TRUE, payload, FALSE)
    BY <1>2, <2>2 DEF Accept
  <2>4. state = [RxReset EXCEPT !.last_sequence = sequence] /\ ~request
    BY <1>3, <2>1, OthersAlike
  <2>5. [RxReset EXCEPT !.last_sequence = sequence].last_sequence = sequence
    BY DEF RxReset
  <2> DEFINE reached == [RxReset EXCEPT !.last_sequence = sequence]
  <2>6. delivers <=> payload
    BY <2>1
  <2> HIDE DEF state, request, payload, reached, delivers
  <2>7. /\ out.state = reached /\ out.accepted = TRUE /\ out.deliver = payload
        /\ out.request = FALSE
    BY <2>3 DEF Outcome, reached
  <2> QED  BY <1>2, <2>1, <2>4, <2>5, <2>6, <2>7 DEF reached
<1>12. CASE valid /\ ~accept
  <2>1. bad = FALSE /\ valid = TRUE /\ accept = FALSE
    BY <1>3, <1>12
  <2>2. out = IF trusted THEN Unexpected(r)
              ELSE IF r.replay THEN UnexpectedInReplay(r) ELSE Ignored(r)
    <3>1. crc_ok /\ h.error = NoError /\ r.replay \in BOOLEAN
      BY <1>4, <1>12 DEF RxStates
    <3>2. (trusted <=> Trusted(r, h)) /\ ~(Trusted(r, h) /\ Expected(r, h))
      BY <1>6, <1>12
    <3>3. CASE trusted
      BY <1>13, <3>1, <3>2, <3>3 DEF RxReceive, NoError
    <3>4. CASE ~trusted /\ r.replay
      BY <1>13, <3>1, <3>2, <3>4 DEF RxReceive, NoError
    <3>5. CASE ~trusted /\ ~r.replay
      BY <1>13, <3>1, <3>2, <3>5 DEF RxReceive, NoError
    <3> QED  BY <3>3, <3>4, <3>5
  <2>3. /\ HwState(r, FALSE, TRUE, trusted, FALSE, sequence) = out.state
        /\ HwRequest(r, FALSE, TRUE, trusted, FALSE) <=> out.request
        /\ out.request \in BOOLEAN
        /\ out.accepted = FALSE /\ out.deliver = FALSE
        /\ out.state.last_sequence = r.last_sequence
    <3>0. trusted \in BOOLEAN
      BY <1>3
    <3>1. Refuses(r, FALSE, trusted, sequence, out)
      BY <2>2, <3>0, RefusedAlike
    <3>2. (~FALSE) = TRUE
      OBVIOUS
    <3> QED  BY <3>1, <3>2 DEF Refuses
  <2> QED  BY <2>1, <2>3
<1> QED  BY <1>3, <1>9, <1>10, <1>11, <1>12

\* And with a Flit that storage refused, and with none.
LEMMA DiscardFollows ==
  ASSUME NEW r \in RxStates, NEW word
  PROVE  Follows(RxDiscard(r), HwReceive(r, TRUE, TRUE, word), r, NoCommand)
<1> DEFINE out == RxDiscard(r)
           x == HwReceive(r, TRUE, TRUE, word)
           trusted == WordOp(word) \in {0, 1} \/ (~r.ambiguous /\ ~r.replay)
           sequence == IF WordOp(word) \in {0, 1} THEN WordSequence(word)
                       ELSE CompletedSequence(r, word)
           state == HwState(r, TRUE, FALSE, trusted, FALSE, sequence)
           request == HwRequest(r, TRUE, FALSE, trusted, FALSE)
<1>1. x = [state |-> state, accept |-> FALSE, sequence |-> 0, deliver |-> FALSE,
           request |-> request, command |-> NoCommand]
  BY DEF HwReceive, HwState, HwRequest
<1>2. trusted \in BOOLEAN /\ request \in BOOLEAN
  BY DEF HwRequest
<1>6. out = RxDiscard(r)
  OBVIOUS
<1> HIDE DEF trusted, sequence, out, x
<1>3. /\ state = out.state /\ (request <=> out.request) /\ out.request \in BOOLEAN
      /\ out.accepted = FALSE /\ out.deliver = FALSE
      /\ out.state.last_sequence = r.last_sequence
  <2>1. Refuses(r, TRUE, trusted, sequence, out)
    BY <1>2, <1>6, BadAlike
  <2>2. (~TRUE) = FALSE
    OBVIOUS
  <2> QED  BY <2>1, <2>2 DEF Refuses
<1> HIDE DEF state, request
<1>4. x.state = state /\ x.accept = FALSE /\ x.deliver = FALSE /\ x.request = request /\ x.command = NoCommand
  <2>1. x.state = state
    BY <1>1
  <2>2. x.accept = FALSE
    BY <1>1
  <2>3. x.deliver = FALSE
    BY <1>1
  <2>4. x.request = request
    BY <1>1
  <2>5. x.command = NoCommand
    BY <1>1
  <2> QED  BY <2>1, <2>2, <2>3, <2>4, <2>5
<1>5. request = out.request
  BY <1>2, <1>3
<1>7. /\ ReceiveAgrees(out, x) /\ out.request \in BOOLEAN
      /\ x.command = NoCommand
      /\ EffectiveSequence(x, r) = out.state.last_sequence
  BY <1>3, <1>4, <1>5 DEF ReceiveAgrees, EffectiveSequence
<1>8. Follows(out, x, r, NoCommand)
  BY <1>7 DEF Follows
<1> QED  BY <1>8 DEF out, x

\* And in an edge without a Flit.
LEMMA QuietFollows ==
  ASSUME NEW r \in RxStates
  PROVE  Follows(Ignored(r), HwQuiet(r), r, NoCommand)
BY DEF Follows, ReceiveAgrees, Ignored, Outcome, HwQuiet, EffectiveSequence

-------------------------------------------------------------------------------
(* The Flit issued in the same edge.                                           *)

\* The slot m is filled as the reference selects.
Fills(m, sel) ==
  /\ m.payload = sel.payload /\ m.replay = sel.replayed /\ m.first = sel.first
  /\ m.sequence = sel.entry.sequence
  /\ m.payload \in BOOLEAN /\ m.replay \in BOOLEAN /\ m.first \in BOOLEAN

\* The port knows the number that the slot m carries.
Knows(s, cmd, m) ==
  \/ m.payload /\ ~m.replay
  \/ IF m.replay THEN TakesRequest(s.control, cmd) \/ s.control.replay_sequence # 0
     ELSE s.control.last_sequence # 0

\* What the storage issues is what the reference selects, number and data.
Issues(s, cmd, next, sel) ==
  /\ Fills(next.slot, sel) /\ Knows(s, cmd, next.slot)
  /\ ~TagError(next) /\ (sel.payload => OutData(next) = sel.entry.payload)

\* And so it is after a command of the same edge.
LEMMA StorageFollows ==
  ASSUME NEW s, s.control \in RingStates, Windowed(s.control),
         NEW t, Good(t), NEW ingress \in BOOLEAN,
         NEW cmd, cmd.valid => cmd.target \in SequenceNumbers,
         Means(Commanded(s.control, ingress, cmd), s.memory, t),
         NEW offer \in BOOLEAN, NEW payload \in Payloads
  PROVE  Issues(s, cmd, StorageEdge(s, ingress, cmd, TRUE, offer, payload, TRUE),
                Select(t, offer, payload))
<1> DEFINE next == StorageEdge(s, ingress, cmd, TRUE, offer, payload, TRUE)
           sel == Select(t, offer, payload)
           c == s.control
           e == Commanded(c, ingress, cmd)
           x == Issued(s, cmd, offer, payload)
           m == next.slot
<1>1. /\ Accepts(e) <=> CanEnqueue(t)
      /\ Replays(e) <=> t.scheduled # << >>
      /\ Accepts(e) => ~Replays(e)
  BY AcceptsIs DEF Accepts, Replays
<1>2. /\ e.last_sequence = c.last_sequence /\ e.last_sequence = t.last_sequence
      /\ e.first = t.first_replay /\ t.first_replay \in BOOLEAN
      /\ c.last_sequence # 0 /\ t.buffer \in Seq(Entries)
  <2>1. e.last_sequence = c.last_sequence
    BY DEF Commanded
  <2>2. e.last_sequence = t.last_sequence /\ e.first = t.first_replay
    BY DEF Means
  <2>3. c.last_sequence # 0
    BY SeqMaxAssumption DEF RingStates, SequenceNumbers
  <2> QED  BY <2>1, <2>2, <2>3, GoodParts
<1>3. m = x
  <2>1. IssueReady(s, TRUE)
    BY DEF IssueReady
  <2> QED  BY <2>1 DEF StorageEdge
<1>4. /\ x.valid
      /\ x.payload \in BOOLEAN /\ (x.payload <=> Replays(e) \/ (offer /\ Accepts(e)))
      /\ x.replay \in BOOLEAN /\ (x.replay <=> Replays(e))
      /\ x.first \in BOOLEAN /\ (x.first <=> Replays(e) /\ e.first)
      /\ x.sequence = IF Replays(e) THEN e.replay_sequence
                      ELSE IF offer /\ Accepts(e) THEN Successor(e.last_sequence)
                      ELSE e.last_sequence
      /\ x.normal = IF offer /\ Accepts(e) THEN payload ELSE Blank.payload
      /\ x.read = IF Replays(e) THEN s.memory[e.replay_pointer] ELSE Blank
  BY IssuedIs
<1>5. /\ m.valid
      /\ m.payload \in BOOLEAN /\ (m.payload <=> Replays(e) \/ (offer /\ Accepts(e)))
      /\ m.replay \in BOOLEAN /\ (m.replay <=> Replays(e))
      /\ m.first \in BOOLEAN /\ (m.first <=> Replays(e) /\ e.first)
      /\ m.sequence = IF Replays(e) THEN e.replay_sequence
                      ELSE IF offer /\ Accepts(e) THEN Successor(e.last_sequence)
                      ELSE e.last_sequence
      /\ m.normal = IF offer /\ Accepts(e) THEN payload ELSE Blank.payload
      /\ m.read = IF Replays(e) THEN s.memory[e.replay_pointer] ELSE Blank
  BY <1>3, <1>4
<1>6. Means(e, s.memory, t)
  OBVIOUS
<1>7. e.replay_sequence = ReplaySequence(c, cmd)
  BY DEF Commanded
<1>12. sel = Select(t, offer, payload)
  OBVIOUS
<1> HIDE DEF c, e, x, m, next, sel
<1>8. SUFFICES /\ m.payload = sel.payload /\ m.replay = sel.replayed /\ m.first = sel.first
               /\ m.sequence = sel.entry.sequence
               /\ ~TagError(next) /\ (sel.payload => OutData(next) = sel.entry.payload)
               /\ \/ m.payload /\ ~m.replay
                  \/ IF m.replay THEN TakesRequest(c, cmd) \/ c.replay_sequence # 0
                     ELSE c.last_sequence # 0
  <2>1. Issues(s, cmd, next, sel)
    BY <1>5, <1>8 DEF Issues, Fills, Knows, m, c
  <2> QED  BY <2>1 DEF next, sel
<1>9. ASSUME Replays(e)
      PROVE  /\ m.payload = sel.payload /\ m.replay = sel.replayed /\ m.first = sel.first
             /\ m.sequence = sel.entry.sequence
             /\ ~TagError(next) /\ (sel.payload => OutData(next) = sel.entry.payload)
             /\ \/ m.payload /\ ~m.replay
                \/ IF m.replay THEN TakesRequest(c, cmd) \/ c.replay_sequence # 0
                   ELSE c.last_sequence # 0
  <2> DEFINE head == Head(t.scheduled)
  <2>1. /\ t.scheduled # << >> /\ s.memory[e.replay_pointer] = head
        /\ e.replay_sequence = head.sequence
    BY <1>6, <1>9, ReplayMoves
  <2>2. head.sequence # 0
    <3>1. t.scheduled \in Seq(Entries) /\ t.scheduled # << >>
      BY <2>1, GoodParts
    <3>2. head \in Entries
      BY <3>1
    <3> QED  BY <3>2, SeqMaxAssumption DEF Entries, SequenceNumbers
  <2>3. sel = Selection(NextReplay(t), TRUE, head, TRUE, t.first_replay)
    BY <1>12, <2>1 DEF Select
  <2> HIDE DEF head
  <2>4. /\ sel.payload = TRUE /\ sel.replayed = TRUE /\ sel.first = t.first_replay
        /\ sel.entry = head
    BY <2>3 DEF Selection
  <2>5. /\ m.payload = TRUE /\ m.replay = TRUE /\ m.first = t.first_replay
        /\ m.sequence = head.sequence /\ m.read = head /\ m.valid
    BY <1>2, <1>5, <1>9, <2>1
  <2>6. ~TagError(next) /\ OutData(next) = head.payload
    BY <2>5 DEF TagError, OutData, m
  <2>7. TakesRequest(c, cmd) \/ c.replay_sequence # 0
    BY <1>7, <2>1, <2>2 DEF ReplaySequence
  <2> QED  BY <2>4, <2>5, <2>6, <2>7
<1>10. ASSUME offer, Accepts(e)
       PROVE  /\ m.payload = sel.payload /\ m.replay = sel.replayed /\ m.first = sel.first
              /\ m.sequence = sel.entry.sequence
              /\ ~TagError(next) /\ (sel.payload => OutData(next) = sel.entry.payload)
              /\ m.payload /\ ~m.replay
  <2> DEFINE entry == [sequence |-> Successor(t.last_sequence), payload |-> payload]
             pushed == Enqueue(t, payload)
  <2>1. ~Replays(e) /\ t.scheduled = << >> /\ CanEnqueue(t)
    BY <1>1, <1>10
  <2>2. pushed.buffer = Append(t.buffer, entry)
    <3>1. t \in TxStates
      BY GoodParts DEF Good
    <3> QED  BY <3>1 DEF Enqueue, TxStates
  <2>3. pushed.buffer[Len(pushed.buffer)] = entry
    <3> HIDE DEF entry, pushed
    <3> QED  BY <1>2, <2>2
  <2>4. sel = Selection(pushed, TRUE, entry, FALSE, FALSE)
    BY <1>10, <1>12, <2>1, <2>3 DEF Select
  <2>5. entry.sequence = Successor(t.last_sequence) /\ entry.payload = payload
    OBVIOUS
  <2> HIDE DEF entry, pushed
  <2>6. /\ sel.payload = TRUE /\ sel.replayed = FALSE /\ sel.first = FALSE
        /\ sel.entry = entry
    BY <2>4 DEF Selection
  <2>7. /\ m.payload = TRUE /\ m.replay = FALSE /\ m.first = FALSE
        /\ m.sequence = entry.sequence /\ m.normal = entry.payload
    BY <1>2, <1>5, <1>10, <2>1, <2>5
  <2>8. ~TagError(next) /\ OutData(next) = entry.payload
    BY <2>7 DEF TagError, OutData, m
  <2> QED  BY <2>6, <2>7, <2>8
<1>11. ASSUME ~Replays(e), ~(offer /\ Accepts(e))
       PROVE  /\ m.payload = sel.payload /\ m.replay = sel.replayed /\ m.first = sel.first
              /\ m.sequence = sel.entry.sequence
              /\ ~TagError(next) /\ (sel.payload => OutData(next) = sel.entry.payload)
              /\ ~m.replay /\ c.last_sequence # 0
  <2>1. t.scheduled = << >> /\ ~(offer /\ CanEnqueue(t))
    BY <1>1, <1>11
  <2>2. sel = Nop(t)
    BY <1>12, <2>1 DEF Select
  <2>3. /\ sel.payload = FALSE /\ sel.replayed = FALSE /\ sel.first = FALSE
        /\ sel.entry.sequence = t.last_sequence
    BY <2>2 DEF Selection, Nop
  <2>4. /\ m.payload = FALSE /\ m.replay = FALSE /\ m.first = FALSE
        /\ m.sequence = t.last_sequence
    BY <1>2, <1>5, <1>11
  <2>5. ~TagError(next)
    BY <2>4 DEF TagError, m
  <2> QED  BY <1>2, <2>3, <2>4, <2>5
<1> QED  BY <1>9, <1>10, <1>11

\* The header x and the registers it leaves are those of the scheduler s.
Heads(x, s, r, sel, requested) ==
  /\ x.valid
  /\ x.word = NextHeader(s, r, sel, requested)
  /\ x.state = NextSchedule(s, r, sel, requested)

\* What the header takes of the receiver's outcome.
Decides(out) == out.request \in BOOLEAN /\ out.state.last_sequence # 0

\* The request state that the scheduler of s starts the Flit with.
StillAsks(s, newGroup) == ~newGroup /\ s.request_in_group

\* The header generator follows the scheduler, a request of the same edge
\* included.
LEMMA HeaderFollows ==
  ASSUME NEW h \in ScheduleStates, NEW out, Decides(out), NEW newGroup \in BOOLEAN,
         NEW m, NEW sel, Fills(m, sel)
  PROVE  Heads(HwHeader(h, m, TRUE, out.state.last_sequence, out.request, newGroup),
               Asked(h, out), out.state, sel, StillAsks(Asked(h, out), newGroup))
<1> DEFINE s == Asked(h, out)
           r == out.state
           request == out.request
           requested == ~newGroup /\ s.request_in_group
           x == HwHeader(h, m, TRUE, r.last_sequence, request, newGroup)
           rx_sequence == r.last_sequence
           count == h.explicit_count
           copies == Pending(h, request)
           explicit == m.first \/ count <= 1
           sends == ~explicit /\ copies # 0 /\ (~h.request_in_group \/ newGroup)
           target == IF copies = RequestCopies THEN Successor(rx_sequence)
                     ELSE h.request_sequence
           again == sends \/ (h.request_in_group /\ ~newGroup)
<1>11. /\ s = [h EXCEPT !.replay_requests = IF request THEN RequestCopies ELSE @]
       /\ r.last_sequence # 0 /\ request \in BOOLEAN
       /\ requested = (~newGroup /\ s.request_in_group)
       /\ m.payload = sel.payload /\ m.replay = sel.replayed /\ m.first = sel.first
       /\ m.sequence = sel.entry.sequence
       /\ m.payload \in BOOLEAN /\ m.replay \in BOOLEAN /\ m.first \in BOOLEAN
  BY DEF Asked, Fills, Decides
<1> HIDE DEF s, r, request
<1>1. /\ count \in 1..ExplicitPeriod /\ h.request_in_group \in BOOLEAN
      /\ copies \in 0..RequestCopies
      /\ s.explicit_count = count /\ s.replay_requests = copies
      /\ s.request_sequence = h.request_sequence
      /\ s.request_in_group = h.request_in_group
  BY <1>11, ScheduleAssumption DEF ScheduleStates, Pending
<1>2. /\ explicit \in BOOLEAN /\ sends \in BOOLEAN /\ again \in BOOLEAN
      /\ requested \in BOOLEAN
  BY <1>11
<1>3. MustBeExplicit(s, sel) <=> explicit
  BY <1>1, <1>11, ScheduleAssumption DEF MustBeExplicit, ExplicitCount
<1>4. SendsRequest(s, sel, requested) <=> sends
  <2>1. copies > 0 <=> copies # 0
    BY <1>1, ScheduleAssumption
  <2> HIDE DEF copies, explicit
  <2> QED  BY <1>1, <1>3, <1>11, <2>1 DEF SendsRequest
<1>5. sends => RequestTarget(s, r) = target
  BY <1>1, <1>11 DEF RequestTarget
<1>6. ~explicit => ExplicitCount(s) = count - 1
  BY <1>1, ScheduleAssumption DEF ExplicitCount
<1>7. (sends \/ requested) <=> again
  BY <1>1, <1>11
<1> HIDE DEF requested
<1>12. requested <=> ~newGroup /\ h.request_in_group
  BY <1>1 DEF requested
<1>8. /\ x.valid = TRUE
      /\ x.word = IF explicit THEN Word(Bit(m.replay), m.payload, m.sequence)
                  ELSE Word(2 + Bit(sends), m.payload,
                            (IF sends THEN target ELSE rx_sequence) * LowMod
                              + (m.sequence % LowMod))
      /\ x.state = [explicit_count |-> IF explicit THEN ExplicitPeriod ELSE count - 1,
                    replay_requests |-> IF sends THEN copies - 1 ELSE copies,
                    request_sequence |-> IF sends /\ copies = RequestCopies
                                         THEN Successor(rx_sequence) ELSE h.request_sequence,
                    request_in_group |-> again]
  BY <1>11 DEF HwHeader
<1> HIDE DEF x, rx_sequence, count, copies, explicit, sends, target, again
<1>9. x.word = NextHeader(s, r, sel, requested)
  <2>1. CASE explicit
    <3>1. x.word = Word(Bit(m.replay), m.payload, m.sequence)
      BY <1>8, <2>1
    <3>2. NextHeader(s, r, sel, requested)
            = Word(IF m.replay THEN OpReplay ELSE OpExplicit, m.payload, m.sequence)
      BY <1>3, <1>11, <2>1 DEF NextHeader, EncodeExplicit
    <3>3. Bit(m.replay) = IF m.replay THEN OpReplay ELSE OpExplicit
      BY DEF Bit, OpReplay, OpExplicit
    <3> QED  BY <3>1, <3>2, <3>3
  <2>2. CASE ~explicit /\ sends
    <3>1. x.word = Word(2 + Bit(sends), m.payload, target * LowMod + (m.sequence % LowMod))
      BY <1>8, <2>2
    <3>2. NextHeader(s, r, sel, requested)
            = Word(OpRequest, m.payload, target * LowMod + (m.sequence % LowMod))
      BY <1>3, <1>4, <1>5, <1>11, <2>2 DEF NextHeader, EncodeCommand
    <3>3. 2 + Bit(sends) = OpRequest
      BY <2>2 DEF Bit, OpRequest
    <3> QED  BY <3>1, <3>2, <3>3
  <2>3. CASE ~explicit /\ ~sends
    <3>1. x.word = Word(2 + Bit(sends), m.payload, rx_sequence * LowMod + (m.sequence % LowMod))
      BY <1>8, <2>3
    <3>2. NextHeader(s, r, sel, requested)
            = Word(OpAck, m.payload, rx_sequence * LowMod + (m.sequence % LowMod))
      BY <1>3, <1>4, <1>11, <2>3 DEF NextHeader, EncodeCommand, Acknowledged, rx_sequence
    <3>3. 2 + Bit(sends) = OpAck
      BY <2>3 DEF Bit, OpAck
    <3> QED  BY <3>1, <3>2, <3>3
  <2> QED  BY <1>2, <2>1, <2>2, <2>3
<1>10. x.state = NextSchedule(s, r, sel, requested)
  <2> DEFINE y == NextSchedule(s, r, sel, requested)
             says == SendsRequest(s, sel, requested) \/ requested
  <2>1. says = again
    BY <1>2, <1>4, <1>7
  <2>2. y = [explicit_count |-> IF explicit THEN ExplicitPeriod ELSE count - 1,
             replay_requests |-> IF sends THEN copies - 1 ELSE copies,
             request_sequence |-> IF sends THEN target ELSE h.request_sequence,
             request_in_group |-> says]
    BY <1>1, <1>2, <1>3, <1>4, <1>5, <1>6 DEF NextSchedule
  <2>3. (IF sends THEN target ELSE h.request_sequence)
          = IF sends /\ copies = RequestCopies THEN Successor(rx_sequence)
            ELSE h.request_sequence
    BY DEF target
  <2> HIDE DEF y, says
  <2>4. x.state = y
    BY <1>8, <2>1, <2>2, <2>3
  <2> QED  BY <2>4 DEF y
<1>13. Heads(x, s, r, sel, requested)
  BY <1>8, <1>9, <1>10 DEF Heads
<1> QED  BY <1>13 DEF x, s, r, request, requested, StillAsks

-------------------------------------------------------------------------------
(* The invariant of the port, which needs no round trip within the limits: every *)
(* transmitter is laid out, and every Flit under way carries a header word.    *)

PortFlit == [header : Words, payload : Payloads \cup {NoPayload}]

PortTypes ==
  /\ tx \in [Peers -> TxStates] /\ rx \in [Peers -> RxStates]
  /\ sched \in [Peers -> ScheduleStates] /\ wire \in [Peers -> Seq(PortFlit)]
  /\ offered \in [Peers -> Payloads]

\* Timing without what it says of requests.
Turns ==
  /\ pending \subseteq Peers /\ pending # {}
  /\ \/ /\ phase = "receive"
        /\ \A p \in Peers : Len(wire[p]) = IF p \in pending THEN Latency ELSE Latency - 1
     \/ /\ phase = "send"
        /\ \E j \in 0..(Latency - 1) :
             \A p \in Peers : Len(wire[Other(p)]) = IF p \in pending THEN j ELSE j + 1

PortInv == PortTypes /\ Turns /\ \A p \in Peers : Laid(tx[p])

\* A receiver stays one, whatever the word says.
LEMMA ReceiveTyped ==
  ASSUME NEW r \in RxStates, NEW word \in Words, NEW h, h = DecodeHeader(word),
         NEW crc_ok \in BOOLEAN, NEW out, out = RxReceive(r, h, crc_ok)
  PROVE  out.state \in RxStates
<1>1. /\ r.last_sequence \in SequenceNumbers /\ r.replay \in BOOLEAN
      /\ h.error \in {"reserved_op", "zero_sequence", "zero_ack_request", NoError}
  BY WordHolds DEF RxStates
<1>2. CASE ~crc_ok \/ h.error = "reserved_op"
  <2>1. out = RxDiscard(r)
    BY <1>2 DEF RxReceive, NoError
  <2> QED  BY <2>1, DiscardOutcome
<1>3. CASE crc_ok /\ h.error \in {"zero_sequence", "zero_ack_request"}
  <2>1. out = Ignored(r)
    BY <1>3 DEF RxReceive, NoError
  <2> QED  BY <2>1 DEF Ignored, Outcome
<1>4. CASE crc_ok /\ h.error = NoError /\ Trusted(r, h) /\ Expected(r, h)
  <2>1. out = Accept(r, h)
    BY <1>4 DEF RxReceive, NoError
  <2>2. FullSequence(r, h) \in SequenceNumbers
    BY <1>1, <1>4, SeqMaxAssumption DEF Expected, Successor, SequenceNumbers
  <2>3. out.state = [RxReset EXCEPT !.last_sequence = FullSequence(r, h)]
    BY <2>1 DEF Accept, Outcome
  <2> QED  BY <2>2, <2>3, AcceptedState
<1>5. CASE crc_ok /\ h.error = NoError /\ ~(Trusted(r, h) /\ Expected(r, h)) /\ r.replay
  <2>1. out = UnexpectedInReplay(r)
    <3>1. CASE Trusted(r, h)
      BY <1>5, <3>1 DEF RxReceive, NoError, Unexpected
    <3>2. CASE ~Trusted(r, h)
      BY <1>5, <3>2 DEF RxReceive, NoError
    <3> QED  BY <3>1, <3>2
  <2> QED  BY <2>1, UnexpectedKeeps
<1>6. CASE crc_ok /\ h.error = NoError /\ Trusted(r, h) /\ ~Expected(r, h) /\ ~r.replay
  <2> DEFINE s == [r EXCEPT !.replay = TRUE, !.unexpected_count = 0]
  <2>1. out = Outcome(s, FALSE, FALSE, TRUE)
    BY <1>6 DEF RxReceive, Unexpected, NoError
  <2>2. s \in RxStates
    <3>1. 0 \in 0..UnexpectedMax
      BY ReplayLimitAssumption
    <3> QED  BY <3>1 DEF RxStates
  <2> HIDE DEF s
  <2> QED  BY <2>1, <2>2 DEF Outcome
<1>7. CASE crc_ok /\ h.error = NoError /\ ~Trusted(r, h) /\ ~r.replay
  <2>1. out = Ignored(r)
    BY <1>7 DEF RxReceive, NoError
  <2> QED  BY <2>1 DEF Ignored, Outcome
<1> QED  BY <1>1, <1>2, <1>3, <1>4, <1>5, <1>6, <1>7

\* Three operations and a field within its bounds make a word.
LEMMA WordFits ==
  ASSUME NEW op \in 0..3, NEW payload, NEW field \in 0..(FieldMod - 1)
  PROVE  Word(op, payload, field) \in Words
<1> DEFINE b == Bit(payload)
           x == (2 * op + b) * FieldMod + field
<1>1. FieldMod \in Nat \ {0} /\ ReservedMod \in Nat \ {0} /\ b \in 0..1
  BY FieldSizes DEF Bit
<1>2. Word(op, payload, field) = x * ReservedMod
  BY DEF Word
<1> DEFINE k == 2 * op + b
<1>3. k \in 0..7 /\ x = k * FieldMod + field
  BY <1>1
<1> HIDE DEF b, k, x
<1>4. x \in Nat /\ x < 16 * FieldMod
  <2>1. k * FieldMod \in Nat /\ k * FieldMod <= 7 * FieldMod
    BY <1>1, <1>3
  <2> DEFINE y == k * FieldMod
  <2>2. y \in Nat /\ y <= 7 * FieldMod /\ x = y + field
    BY <1>3, <2>1
  <2> HIDE DEF y
  <2> QED  BY <1>1, <2>2
<1>5. x * ReservedMod \in Nat /\ x * ReservedMod < 16 * FieldMod * ReservedMod
  <2> DEFINE z == 16 * FieldMod
  <2>1. z \in Nat /\ x < z
    BY <1>1, <1>4
  <2> HIDE DEF z
  <2>2. x * ReservedMod \in Nat /\ x * ReservedMod < z * ReservedMod
    BY <1>1, <1>4, <2>1
  <2> QED  BY <2>2 DEF z
<1>6. 16 * FieldMod * ReservedMod \in Nat
  BY <1>1
<1> QED  BY <1>2, <1>5, <1>6 DEF Words

\* What is sent is a Flit, and leaves a scheduler.
LEMMA SentTyped ==
  ASSUME NEW s \in ScheduleStates, NEW r \in RxStates,
         NEW sel, sel.entry.sequence \in SequenceNumbers, sel.replayed \in BOOLEAN,
         sel.entry.payload \in Payloads \cup {NoPayload}, NEW requested \in BOOLEAN
  PROVE  /\ Sent(s, r, sel, requested) \in PortFlit
         /\ NextSchedule(s, r, sel, requested) \in ScheduleStates
<1> DEFINE target == RequestTarget(s, r)
           request == SendsRequest(s, sel, requested)
           q == sel.entry.sequence
           last == r.last_sequence
<1>1. /\ s.explicit_count \in 1..ExplicitPeriod /\ s.replay_requests \in 0..RequestCopies
      /\ s.request_sequence \in 0..SeqMax /\ last \in SequenceNumbers /\ q \in SequenceNumbers
      /\ SeqMax \in Nat
  BY SeqMaxAssumption DEF ScheduleStates, RxStates
<1>2. target \in 0..SeqMax
  BY <1>1 DEF RequestTarget, Successor, SequenceNumbers
<1>3. request \in BOOLEAN /\ (request => s.replay_requests > 0)
  BY DEF SendsRequest
<1> HIDE DEF target, request, q, last
<1>4. /\ FieldMod \in Nat \ {0} /\ LowMod \in Nat \ {0} /\ FieldMod = (SeqMax + 1) * LowMod
  BY FieldSizes
<1> DEFINE low == q % LowMod
<1>5. low \in 0..(LowMod - 1)
  BY <1>1, <1>4 DEF SequenceNumbers
<1> HIDE DEF low
<1>6. ASSUME NEW n \in 0..SeqMax
      PROVE  n * LowMod + low \in 0..(FieldMod - 1) /\ n \in 0..(FieldMod - 1)
  <2>1. (SeqMax + 1) * LowMod = SeqMax * LowMod + LowMod
    BY <1>1, <1>4
  <2>2. /\ n * LowMod \in Nat /\ n * LowMod <= SeqMax * LowMod /\ n <= n * LowMod
        /\ SeqMax * LowMod \in Nat
    BY <1>1, <1>4, <1>6
  <2> DEFINE x == n * LowMod
             y == SeqMax * LowMod
  <2>3. x \in Nat /\ y \in Nat /\ x <= y /\ n <= x /\ FieldMod = y + LowMod
    BY <1>4, <2>1, <2>2
  <2> HIDE DEF x, y
  <2>4. x + low \in 0..(FieldMod - 1) /\ n \in 0..(FieldMod - 1)
    BY <1>4, <1>5, <1>6, <2>3
  <2> QED  BY <2>4 DEF x
<1>7. NextHeader(s, r, sel, requested) \in Words
  <2>1. q \in 0..SeqMax /\ last \in 0..SeqMax
    BY <1>1 DEF SequenceNumbers
  <2>2. CASE MustBeExplicit(s, sel)
    <3>1. NextHeader(s, r, sel, requested)
            = Word(IF sel.replayed THEN OpReplay ELSE OpExplicit, sel.payload, q)
      BY <2>2 DEF NextHeader, EncodeExplicit, q
    <3>2. (IF sel.replayed THEN OpReplay ELSE OpExplicit) \in 0..3
      BY DEF OpReplay, OpExplicit
    <3>3. q \in 0..(FieldMod - 1)
      BY <1>6, <2>1
    <3> QED  BY <3>1, <3>2, <3>3, WordFits
  <2>3. CASE ~MustBeExplicit(s, sel) /\ request
    <3>1. NextHeader(s, r, sel, requested) = Word(OpRequest, sel.payload, target * LowMod + low)
      BY <2>3 DEF NextHeader, EncodeCommand, request, target, low, q
    <3>2. OpRequest \in 0..3
      BY DEF OpRequest
    <3>3. target * LowMod + low \in 0..(FieldMod - 1)
      BY <1>2, <1>6
    <3> QED  BY <3>1, <3>2, <3>3, WordFits
  <2>4. CASE ~MustBeExplicit(s, sel) /\ ~request
    <3>1. NextHeader(s, r, sel, requested) = Word(OpAck, sel.payload, last * LowMod + low)
      BY <2>4 DEF NextHeader, EncodeCommand, Acknowledged, request, last, low, q
    <3>2. OpAck \in 0..3
      BY DEF OpAck
    <3>3. last * LowMod + low \in 0..(FieldMod - 1)
      BY <1>6, <2>1
    <3> QED  BY <3>1, <3>2, <3>3, WordFits
  <2> QED  BY <2>2, <2>3, <2>4
<1>8. NextSchedule(s, r, sel, requested) \in ScheduleStates
  <2> DEFINE count == IF MustBeExplicit(s, sel) THEN ExplicitPeriod ELSE ExplicitCount(s)
             copies == IF request THEN s.replay_requests - 1 ELSE s.replay_requests
             number == IF request THEN target ELSE s.request_sequence
             again == request \/ requested
  <2>1. count \in 1..ExplicitPeriod
    BY <1>1, ScheduleAssumption DEF MustBeExplicit, ExplicitCount
  <2>2. copies \in 0..RequestCopies
    BY <1>1, <1>3, ScheduleAssumption
  <2>3. number \in 0..SeqMax /\ again \in BOOLEAN
    BY <1>1, <1>2
  <2>4. NextSchedule(s, r, sel, requested)
          = [explicit_count |-> count, replay_requests |-> copies,
             request_sequence |-> number, request_in_group |-> again]
    BY DEF NextSchedule, request, target
  <2> HIDE DEF count, copies, number, again
  <2> QED  BY <2>1, <2>2, <2>3, <2>4 DEF ScheduleStates
<1>9. sel.entry.payload \in Payloads \cup {NoPayload}
  OBVIOUS
<1> QED  BY <1>7, <1>8, <1>9 DEF Sent, PortFlit

\* What is selected leaves a transmitter laid out and carries an entry or none.
LEMMA SelectTyped ==
  ASSUME NEW t, Laid(t), NEW offer \in BOOLEAN, NEW payload \in Payloads,
         NEW sel, sel = Select(t, offer, payload)
  PROVE  /\ Laid(sel.tx) /\ sel.payload \in BOOLEAN /\ sel.replayed \in BOOLEAN
         /\ sel.entry.sequence \in SequenceNumbers
         /\ sel.entry.payload \in Payloads \cup {NoPayload}
<1>1. Good(t) /\ t \in TxStates /\ t.buffer \in Seq(Entries) /\ t.scheduled \in Seq(Entries)
      /\ t.last_sequence \in SequenceNumbers
  <2>1. Good(t)
    BY DEF Laid
  <2> QED  BY <2>1, GoodParts
<1>2. CASE t.scheduled # << >>
  <2>1. sel = Selection(NextReplay(t), TRUE, Head(t.scheduled), TRUE, t.first_replay)
    BY <1>2 DEF Select
  <2>2. Head(t.scheduled) \in Entries
    BY <1>1, <1>2
  <2>3. /\ sel.tx = NextReplay(t) /\ sel.payload = TRUE /\ sel.replayed = TRUE
        /\ sel.entry = Head(t.scheduled)
    BY <2>1 DEF Selection
  <2> QED  BY <1>2, <2>2, <2>3, NextReplayLaid DEF Entries
<1>3. CASE t.scheduled = << >> /\ offer /\ CanEnqueue(t)
  <2> DEFINE entry == [sequence |-> Successor(t.last_sequence), payload |-> payload]
             pushed == Enqueue(t, payload)
  <2>1. pushed.buffer = Append(t.buffer, entry) /\ entry.payload = payload
        /\ entry.sequence = Successor(t.last_sequence)
    BY <1>1 DEF Enqueue, TxStates
  <2>2. entry.sequence \in SequenceNumbers
    BY <1>1, SeqMaxAssumption DEF Successor, SequenceNumbers
  <2>3. pushed.buffer[Len(pushed.buffer)] = entry
    <3> HIDE DEF entry, pushed
    <3> QED  BY <1>1, <2>1
  <2>4. sel = Selection(pushed, TRUE, entry, FALSE, FALSE)
    BY <1>3, <2>3 DEF Select
  <2>5. Laid(pushed)
    BY <1>3, EnqueueLaid
  <2> HIDE DEF entry, pushed
  <2>6. /\ sel.tx = pushed /\ sel.payload = TRUE /\ sel.replayed = FALSE
        /\ sel.entry = entry
    BY <2>4 DEF Selection
  <2> QED  BY <2>1, <2>2, <2>5, <2>6
<1>4. CASE t.scheduled = << >> /\ ~(offer /\ CanEnqueue(t))
  <2>1. sel = Nop(t)
    BY <1>4 DEF Select
  <2>2. /\ sel.tx = t /\ sel.payload = FALSE /\ sel.replayed = FALSE
        /\ sel.entry.sequence = t.last_sequence /\ sel.entry.payload = NoPayload
    BY <2>1 DEF Selection, Nop
  <2> QED  BY <1>1, <2>2
<1> QED  BY <1>2, <1>3, <1>4

\* Two endpoints after reset.
LEMMA PortStarts ==
  ASSUME LockInit
  PROVE  PortInv
<1>1. /\ tx = [p \in Peers |-> TxReset] /\ rx = [p \in Peers |-> RxReset]
      /\ sched = [p \in Peers |-> ScheduleReset] /\ wire = [p \in Peers |-> << >>]
      /\ offered = [p \in Peers |-> 0] /\ phase = "send" /\ pending = Peers
  BY DEF LockInit, Init
<1>2. PortTypes
  <2>1. TxReset \in TxStates
    BY ResetGood, GoodParts
  <2>2. RxReset \in RxStates
    <3>1. SeqMax \in SequenceNumbers
      BY SeqMaxAssumption DEF SequenceNumbers
    <3> QED  BY <3>1, AcceptedState
  <2>3. ScheduleReset \in ScheduleStates
    BY ScheduleAssumption, SeqMaxAssumption DEF ScheduleReset, ScheduleStates
  <2>4. 0 \in Payloads
    <3> DEFINE K == Cardinality(Payloads)
    <3>1. K \in Nat \ {0} /\ Payloads = 0..(K - 1)
      BY BoundsAssumption
    <3> HIDE DEF K
    <3> QED  BY <3>1
  <2>5. << >> \in Seq(PortFlit)
    BY EmptySeq
  <2> QED  BY <1>1, <2>1, <2>2, <2>3, <2>4, <2>5 DEF PortTypes
<1>3. Turns
  <2>1. \A p \in Peers : Other(p) \in Peers
    BY TwoPeers
  <2>2. \A p \in Peers : Len(wire[p]) = 0
    BY <1>1
  <2>3. 0 \in 0..(Latency - 1)
    BY BoundsAssumption
  <2>4. Peers # {}
    BY PeersAssumption
  <2> QED  BY <1>1, <2>1, <2>2, <2>3, <2>4 DEF Turns
<1> QED  BY <1>1, <1>2, <1>3, ResetLaid DEF PortInv

\* A peer that sends stays laid out and puts a word on the wire.
LEMMA PortSends ==
  ASSUME PortInv, NEW p \in pending, IntervalSend(p)
  PROVE  PortInv'
<1> DEFINE q == Other(p)
<1>1. phase = "send" /\ EndTurn(p) /\ p \in Peers /\ pending \subseteq Peers
  BY DEF IntervalSend, PortInv, Turns
<1>2. PICK offer \in BOOLEAN : Send(p, offer)
  BY DEF IntervalSend
<1> DEFINE sel == Select(tx[p], offer, offered[p])
           s == sched[p]
           r == rx[p]
           requested == Requested(s, group[p])
           f == Sent(s, r, sel, requested)
<1>3. q \in Peers /\ q # p /\ Other(q) = p /\ Peers = {p, q}
  BY <1>1, TwoPeers
<1>4. /\ tx' = [tx EXCEPT ![p] = sel.tx] /\ rx' = rx
      /\ sched' = [sched EXCEPT ![p] = NextSchedule(s, r, sel, requested)]
      /\ wire' = [wire EXCEPT ![q] = Append(@, f)]
      /\ offered' = [offered EXCEPT ![p] = NextOffer(p, sel)]
  BY <1>2 DEF Send
<1>5. /\ Laid(tx[p]) /\ s \in ScheduleStates /\ r \in RxStates /\ offered[p] \in Payloads
      /\ wire[q] \in Seq(PortFlit)
  BY <1>1, <1>3 DEF PortInv, PortTypes
<1>6. /\ Laid(sel.tx) /\ sel.payload \in BOOLEAN /\ sel.replayed \in BOOLEAN
      /\ sel.entry.sequence \in SequenceNumbers
      /\ sel.entry.payload \in Payloads \cup {NoPayload}
  BY <1>5, SelectTyped
<1>7. f \in PortFlit /\ NextSchedule(s, r, sel, requested) \in ScheduleStates
  <2>1. requested \in BOOLEAN
    BY <1>5 DEF Requested, ScheduleStates
  <2> HIDE DEF sel, s, r, requested, f
  <2> QED  BY <1>5, <1>6, <2>1, SentTyped DEF f
<1> HIDE DEF sel, f
<1>8. PortTypes'
  <2>1. sel.tx \in TxStates
    BY <1>6, GoodParts DEF Laid
  <2>2. NextOffer(p, sel) \in Payloads
    <3> DEFINE K == Cardinality(Payloads)
    <3>1. K \in Nat \ {0} /\ Payloads = 0..(K - 1)
      BY BoundsAssumption
    <3>2. NextOffer(p, sel) = IF sel.payload /\ ~sel.replayed THEN (offered[p] + 1) % K
                              ELSE offered[p]
      BY DEF NextOffer
    <3> HIDE DEF K
    <3>3. (offered[p] + 1) % K \in 0..(K - 1)
      BY <1>5, <3>1
    <3> QED  BY <1>5, <3>1, <3>2, <3>3
  <2>3. Append(wire[q], f) \in Seq(PortFlit)
    BY <1>5, <1>7, AppendProperties
  <2>4. PortTypes
    BY DEF PortInv
  <2>5. tx' \in [Peers -> TxStates] /\ rx' \in [Peers -> RxStates]
    BY <1>4, <2>1, <2>4 DEF PortTypes
  <2>6. sched' \in [Peers -> ScheduleStates] /\ offered' \in [Peers -> Payloads]
    BY <1>4, <1>7, <2>2, <2>4 DEF PortTypes
  <2>7. wire' \in [Peers -> Seq(PortFlit)]
    BY <1>4, <2>3, <2>4 DEF PortTypes
  <2> QED  BY <2>5, <2>6, <2>7 DEF PortTypes
<1>9. \A x \in Peers : Laid(tx'[x])
  BY <1>3, <1>4, <1>6 DEF PortInv, PortTypes
<1>10. PICK j \in 0..(Latency - 1) :
         \A x \in Peers : Len(wire[Other(x)]) = IF x \in pending THEN j ELSE j + 1
  BY <1>1 DEF PortInv, Turns
<1>11. Len(wire'[q]) = j + 1 /\ Len(wire'[p]) = IF q \in pending THEN j ELSE j + 1
  <2>1. wire'[q] = Append(wire[q], f) /\ wire'[p] = wire[p]
    BY <1>3, <1>4 DEF PortInv, PortTypes
  <2>2. Len(wire[q]) = j /\ Len(wire[p]) = IF q \in pending THEN j ELSE j + 1
    BY <1>3, <1>10
  <2>3. Len(Append(wire[q], f)) = Len(wire[q]) + 1
    BY <1>5, <1>7, AppendProperties
  <2> QED  BY <2>1, <2>2, <2>3
<1>12. Latency \in Nat \ {0}
  BY BoundsAssumption
<1>13. Turns'
  <2>1. CASE pending = {p}
    <3>1. /\ pending' = Peers /\ q \notin pending
          /\ phase' = IF Len(wire'[q]) = Latency THEN "receive" ELSE "send"
      BY <1>1, <1>3, <2>1 DEF EndTurn, NextPhase
    <3>2. \A x \in Peers : Len(wire'[x]) = j + 1
      BY <1>3, <1>11, <3>1
    <3>3. CASE j = Latency - 1
      BY <1>3, <1>11, <1>12, <3>1, <3>2, <3>3 DEF Turns
    <3>4. CASE j < Latency - 1
      <4>1. phase' = "send"
        BY <1>11, <1>12, <3>1, <3>4
      <4>2. j + 1 \in 0..(Latency - 1)
        BY <1>12, <3>4
      <4>3. \A x \in Peers : Len(wire'[Other(x)]) = IF x \in pending' THEN j + 1 ELSE (j + 1) + 1
        BY <1>3, <3>1, <3>2
      <4> QED  BY <1>3, <3>1, <4>1, <4>2, <4>3 DEF Turns
    <3> QED  BY <1>12, <3>3, <3>4
  <2>2. CASE pending # {p}
    <3>1. pending' = {q} /\ phase' = "send" /\ q \in pending
      BY <1>1, <1>3, <2>2 DEF EndTurn
    <3>2. \A x \in Peers : Len(wire'[Other(x)]) = IF x \in pending' THEN j ELSE j + 1
      BY <1>3, <1>11, <3>1
    <3> QED  BY <1>3, <3>1, <3>2 DEF Turns
  <2> QED  BY <2>1, <2>2
<1> QED  BY <1>8, <1>9, <1>13 DEF PortInv

\* What arrives at a peer whose turn it is.
LEMMA PortArrives ==
  ASSUME PortInv, phase = "receive", NEW p \in pending
  PROVE  /\ p \in Peers /\ wire[p] \in Seq(PortFlit) /\ wire[p] # << >>
         /\ Head(wire[p]).header \in Words /\ Len(wire[p]) = Latency
<1>1. p \in Peers
  BY DEF PortInv, Turns
<1>2. Len(wire[p]) = Latency /\ wire[p] \in Seq(PortFlit)
  BY <1>1 DEF PortInv, Turns, PortTypes
<1>3. wire[p] # << >>
  <2>1. ASSUME wire[p] = << >>
        PROVE  FALSE
    <3>1. Len(<< >>) = 0
      BY EmptySeq
    <3> QED  BY <1>2, <2>1, <3>1, BoundsAssumption
  <2> QED  BY <2>1
<1>4. Head(wire[p]) \in PortFlit
  BY <1>2, <1>3
<1> QED  BY <1>1, <1>2, <1>3, <1>4 DEF PortFlit

\* A peer that receives stays laid out.
LEMMA PortReceives ==
  ASSUME PortInv, NEW p \in pending, IntervalReceive(p)
  PROVE  PortInv'
<1> DEFINE q == Other(p)
           word == Head(wire[p]).header
           h == DecodeHeader(word)
<1>1. phase = "receive" /\ EndTurn(p) /\ p \in Peers /\ pending \subseteq Peers
  BY DEF IntervalReceive, PortInv, Turns
<1>2. q \in Peers /\ q # p /\ Other(q) = p /\ Peers = {p, q}
  BY <1>1, TwoPeers
<1>3. /\ wire[p] \in Seq(PortFlit) /\ wire[p] # << >> /\ word \in Words
      /\ Len(wire[p]) = Latency /\ Latency \in Nat \ {0}
  BY <1>1, PortArrives, BoundsAssumption
<1>4. Laid(tx[p]) /\ rx[p] \in RxStates /\ sched[p] \in ScheduleStates
  BY <1>1 DEF PortInv, PortTypes
<1>5. Targeted(h)
  BY <1>3, CommandTargets DEF Targeted
<1>6. PICK out, z : /\ Ingress(p, out, z) /\ out.state \in RxStates /\ Laid(z)
  <2>1. CASE DiscardIngress(p)
    <3>1. Laid(AgeIgnore(tx[p])) /\ RxDiscard(rx[p]).state \in RxStates
      BY <1>4, AgeLaid, DiscardOutcome
    <3>2. Ingress(p, RxDiscard(rx[p]), AgeIgnore(tx[p]))
      BY <2>1 DEF DiscardIngress
    <3> QED  BY <3>1, <3>2
  <2>2. ASSUME NEW crc_ok \in BOOLEAN, Receive(p, crc_ok)
        PROVE  \E out, z : Ingress(p, out, z) /\ out.state \in RxStates /\ Laid(z)
    <3>1. Ingress(p, RxReceive(rx[p], h, crc_ok), TxReceive(tx[p], h, crc_ok))
      BY <2>2 DEF Receive, Command
    <3> HIDE DEF word
    <3>2. RxReceive(rx[p], h, crc_ok).state \in RxStates
      BY <1>3, <1>4, ReceiveTyped
    <3> HIDE DEF h
    <3>3. Laid(TxReceive(tx[p], h, crc_ok))
      BY <1>4, <1>5, ReceiveLaid
    <3> QED  BY <3>1, <3>2, <3>3
  <2> QED  BY <2>1, <2>2 DEF IntervalReceive
<1>7. /\ tx' = [tx EXCEPT ![p] = z] /\ rx' = [rx EXCEPT ![p] = out.state]
      /\ sched' = [sched EXCEPT ![p] = Asked(sched[p], out)]
      /\ wire' = [wire EXCEPT ![p] = Tail(wire[p])] /\ offered' = offered
  BY <1>6 DEF Ingress
<1>8. Asked(sched[p], out) \in ScheduleStates
  BY <1>4, ScheduleAssumption DEF Asked, ScheduleStates
<1>9. Tail(wire[p]) \in Seq(PortFlit) /\ Len(Tail(wire[p])) = Latency - 1
  BY <1>3, HeadTailProperties
<1>10. PortTypes'
  <2>1. PortTypes
    BY DEF PortInv
  <2>2. z \in TxStates
    BY <1>6, GoodParts DEF Laid
  <2>3. tx' \in [Peers -> TxStates] /\ rx' \in [Peers -> RxStates]
    BY <1>6, <1>7, <2>1, <2>2 DEF PortTypes
  <2>4. sched' \in [Peers -> ScheduleStates] /\ offered' \in [Peers -> Payloads]
    BY <1>7, <1>8, <2>1 DEF PortTypes
  <2>5. wire' \in [Peers -> Seq(PortFlit)]
    BY <1>7, <1>9, <2>1 DEF PortTypes
  <2> QED  BY <2>3, <2>4, <2>5 DEF PortTypes
<1>11. \A x \in Peers : Laid(tx'[x])
  BY <1>2, <1>6, <1>7 DEF PortInv, PortTypes
<1>12. /\ Len(wire'[p]) = Latency - 1
       /\ Len(wire'[q]) = IF q \in pending THEN Latency ELSE Latency - 1
  <2>1. wire'[p] = Tail(wire[p]) /\ wire'[q] = wire[q]
    BY <1>2, <1>7 DEF PortInv, PortTypes
  <2>2. Len(wire[q]) = IF q \in pending THEN Latency ELSE Latency - 1
    BY <1>1, <1>2 DEF PortInv, Turns
  <2> QED  BY <1>9, <2>1, <2>2
<1>13. Turns'
  <2>1. CASE pending = {p}
    <3>1. q \notin pending /\ pending' = Peers /\ phase' = "send"
      BY <1>1, <1>2, <2>1 DEF EndTurn, NextPhase
    <3>2. Latency - 1 \in 0..(Latency - 1)
      BY <1>3
    <3>3. \A x \in Peers :
            Len(wire'[Other(x)]) = IF x \in pending' THEN Latency - 1 ELSE (Latency - 1) + 1
      BY <1>2, <1>3, <1>12, <3>1
    <3> QED  BY <1>2, <3>1, <3>2, <3>3 DEF Turns
  <2>2. CASE pending # {p}
    <3>1. q \in pending /\ pending' = {q} /\ phase' = "receive"
      BY <1>1, <1>2, <2>2 DEF EndTurn
    <3> QED  BY <1>2, <1>3, <1>12, <3>1 DEF Turns
  <2> QED  BY <2>1, <2>2
<1> QED  BY <1>10, <1>11, <1>13 DEF PortInv

\* Every step keeps the invariant.
LEMMA PortSteps == PortInv /\ [LockNext]_lockVars => PortInv'
<1> SUFFICES ASSUME PortInv, [LockNext]_lockVars PROVE PortInv'
  OBVIOUS
<1>1. CASE UNCHANGED lockVars
  <2>1. /\ tx' = tx /\ rx' = rx /\ sched' = sched /\ wire' = wire
        /\ offered' = offered /\ phase' = phase /\ pending' = pending
    BY <1>1 DEF lockVars, vars
  <2>2. PortTypes'
    BY <2>1 DEF PortInv, PortTypes
  <2>3. Turns'
    BY <2>1 DEF PortInv, Turns
  <2>4. \A p \in Peers : Laid(tx'[p])
    BY <2>1 DEF PortInv
  <2> QED  BY <2>2, <2>3, <2>4 DEF PortInv
<1>2. ASSUME NEW p \in pending, IntervalSend(p) \/ IntervalReceive(p)
      PROVE  PortInv'
  BY <1>2, PortSends, PortReceives
<1> QED  BY <1>1, <1>2 DEF LockNext

-------------------------------------------------------------------------------
(* One edge of the port.                                                       *)

\* If the receiver agrees and the ring means the transmitter after the command,
\* what is issued agrees.
LEMMA IssueFollows ==
  ASSUME NEW p \in Peers, Laid(tx[p]), sched[p] \in ScheduleStates, offered[p] \in Payloads,
         NEW outcome, outcome.request \in BOOLEAN, outcome.state.last_sequence # 0,
         NEW r, r.request = outcome.request,
         EffectiveSequence(r, rx[p]) = outcome.state.last_sequence,
         r.command.valid => r.command.target \in SequenceNumbers,
         NEW ingress \in BOOLEAN, NEW t, Good(t),
         Means(Commanded(RingOf(tx[p]).control, ingress, r.command), RingOf(tx[p]).memory, t),
         NEW offer \in BOOLEAN, NEW newGroup \in BOOLEAN
  PROVE  IssueAgrees(p, outcome, t, r, ingress, offer, newGroup)
<1> DEFINE s == RingOf(tx[p])
           sel == Select(t, offer, offered[p])
           asked == Asked(sched[p], outcome)
           requested == ~newGroup /\ asked.request_in_group
           next == StorageEdge(s, ingress, r.command, TRUE, offer, offered[p], TRUE)
           m == next.slot
           known == Knows(s, r.command, m)
           header == HwHeader(sched[p], m, known, EffectiveSequence(r, rx[p]), r.request,
                              newGroup)
           issue == HwIssue(s, rx[p], sched[p], r, ingress, offer, offered[p], newGroup)
<1>1. issue = [slot |-> m, data |-> OutData(next), tag_error |-> TagError(next),
               header |-> header]
  BY DEF HwIssue, Knows
<1>2. requested \in BOOLEAN /\ known \in BOOLEAN /\ TagError(next) \in BOOLEAN
  BY DEF TagError, Knows
<1>4. /\ s.control \in RingStates /\ Windowed(s.control)
  <2>1. Good(tx[p]) /\ Means(s.control, s.memory, tx[p])
    BY RingOfMeans DEF Laid
  <2> HIDE DEF s
  <2> QED  BY <2>1, MeansWindowed DEF Means
<1>5. Issues(s, r.command, next, sel)
  <2> DEFINE cmd == r.command
             payload == offered[p]
  <2>1. /\ Means(Commanded(s.control, ingress, cmd), s.memory, t)
        /\ cmd.valid => cmd.target \in SequenceNumbers
        /\ payload \in Payloads
    OBVIOUS
  <2> HIDE DEF s, cmd, payload
  <2>2. Issues(s, cmd, StorageEdge(s, ingress, cmd, TRUE, offer, payload, TRUE),
               Select(t, offer, payload))
    BY <1>4, <2>1, StorageFollows
  <2> QED  BY <2>2 DEF cmd, payload
<1> HIDE DEF sel, asked, next, known, m, header, issue, s
<1>6. known = TRUE
  BY <1>2, <1>5 DEF Issues, known, m
<1>7. Heads(header, asked, outcome.state, sel, requested)
  <2>1. header = HwHeader(sched[p], m, TRUE, outcome.state.last_sequence, outcome.request,
                          newGroup)
    BY <1>6 DEF header
  <2>2. Fills(m, sel)
    BY <1>5 DEF Issues, m
  <2> DEFINE h == sched[p]
             word == HwHeader(h, m, TRUE, outcome.state.last_sequence, outcome.request,
                              newGroup)
  <2>3. h \in ScheduleStates
    OBVIOUS
  <2> HIDE DEF h
  <2>4. Heads(word, Asked(h, outcome), outcome.state, sel,
              StillAsks(Asked(h, outcome), newGroup))
    <3>1. Decides(outcome)
      BY DEF Decides
    <3> HIDE DEF word
    <3>2. Heads(HwHeader(h, m, TRUE, outcome.state.last_sequence, outcome.request, newGroup),
                Asked(h, outcome), outcome.state, sel,
                StillAsks(Asked(h, outcome), newGroup))
      BY <2>2, <2>3, <3>1, HeaderFollows
    <3> QED  BY <3>2 DEF word
  <2> QED  BY <2>1, <2>4 DEF asked, h, StillAsks
<1>8. /\ issue.slot = m /\ issue.data = OutData(next) /\ issue.header = header
      /\ ~issue.tag_error
  <2> DEFINE error == TagError(next)
  <2>1. ~error
    BY <1>5 DEF Issues
  <2> HIDE DEF error
  <2>2. issue.tag_error = error
    BY <1>1 DEF error
  <2>3. issue.slot = m /\ issue.data = OutData(next) /\ issue.header = header
    BY <1>1
  <2> QED  BY <2>1, <2>2, <2>3
<1>9. /\ ~issue.tag_error /\ issue.header.valid
      /\ issue.header.word = NextHeader(asked, outcome.state, sel, requested)
      /\ issue.header.state = NextSchedule(asked, outcome.state, sel, requested)
      /\ issue.slot.payload = sel.payload /\ issue.slot.sequence = sel.entry.sequence
      /\ sel.payload => issue.data = sel.entry.payload
  BY <1>5, <1>7, <1>8 DEF Issues, Fills, Heads, m
<1> HIDE DEF requested
<1>10. ASSUME NEW x \in {sel}, NEW y \in {asked}, NEW z \in {issue}
       PROVE  LET wanted == ~newGroup /\ y.request_in_group
              IN  /\ ~z.tag_error /\ z.header.valid
                  /\ z.header.word = NextHeader(y, outcome.state, x, wanted)
                  /\ z.header.state = NextSchedule(y, outcome.state, x, wanted)
                  /\ z.slot.payload = x.payload /\ z.slot.sequence = x.entry.sequence
                  /\ x.payload => z.data = x.entry.payload
  <2>1. x = sel /\ y = asked /\ z = issue
    BY <1>10
  <2> QED  BY <1>9, <2>1 DEF requested
<1> QED  BY <1>10 DEF IssueAgrees, sel, asked, issue, s

\* The edges of a peer whose turn it is.
LEMMA PortFollows == PortInv => PortFollowsReference
<1> SUFFICES ASSUME PortInv, NEW p \in pending
             PROVE  IF phase = "send"
                    THEN EdgeAgrees(p, Ignored(rx[p]), tx[p], HwQuiet(rx[p]), FALSE)
                    ELSE LET word == Head(wire[p]).header
                             Agree(outcome, t, r) == EdgeAgrees(p, outcome, t, r, TRUE)
                         IN  \A h \in {DecodeHeader(word)}, fate \in {"good", "bad", "discarded"} :
                               IF fate = "discarded"
                               THEN Agree(RxDiscard(rx[p]), AgeIgnore(tx[p]),
                                          HwReceive(rx[p], TRUE, TRUE, word))
                               ELSE Agree(RxReceive(rx[p], h, fate = "good"),
                                          TxReceive(tx[p], h, fate = "good"),
                                          HwReceive(rx[p], FALSE, fate = "good", word))
  BY DEF PortFollowsReference
<1> DEFINE c == RingOf(tx[p]).control
           mem == RingOf(tx[p]).memory
           t0 == tx[p]
           r0 == rx[p]
<1>1. /\ p \in Peers /\ Laid(t0) /\ Good(t0) /\ r0 \in RxStates
      /\ sched[p] \in ScheduleStates /\ offered[p] \in Payloads
      /\ phase \in {"send", "receive"}
  BY DEF PortInv, PortTypes, Turns, Laid
<1>2. Means(c, mem, t0)
  BY <1>1, RingOfMeans
<1>3. /\ ~TakesAck(c, NoCommand) /\ ~TakesRequest(c, NoCommand) /\ ~NoCommand.valid
      /\ TRUE \in BOOLEAN /\ FALSE \in BOOLEAN
  BY DEF TakesAck, TakesRequest, NoCommand
<1>4. /\ Means(Commanded(c, TRUE, NoCommand), mem, AgeIgnore(t0))
      /\ Means(Commanded(c, FALSE, NoCommand), mem, t0)
  <2> HIDE DEF c, mem, t0
  <2> QED  BY <1>1, <1>2, <1>3, NothingMoves
<1>5. ASSUME NEW out, NEW x, NEW t, NEW ingress \in BOOLEAN,
             NEW cmd, cmd.valid => cmd.target \in SequenceNumbers,
             Follows(out, x, r0, cmd), out.state \in RxStates,
             Good(t), Means(Commanded(c, ingress, cmd), mem, t)
      PROVE  EdgeAgrees(p, out, t, x, ingress)
  <2>1. /\ out.state.last_sequence # 0 /\ x.request = out.request
        /\ ReceiveAgrees(out, x) /\ out.request \in BOOLEAN /\ x.command = cmd
        /\ EffectiveSequence(x, r0) = out.state.last_sequence
    BY <1>5, SeqMaxAssumption DEF RxStates, SequenceNumbers, ReceiveAgrees, Follows
  <2>2. ASSUME NEW offer \in BOOLEAN, NEW newGroup \in BOOLEAN
        PROVE  IssueAgrees(p, out, t, x, ingress, offer, newGroup)
    BY <1>1, <1>5, <2>1, IssueFollows
  <2> QED  BY <2>1, <2>2 DEF EdgeAgrees
<1>6. CASE phase = "send"
  <2>1. Follows(Ignored(r0), HwQuiet(r0), r0, NoCommand)
    BY <1>1, QuietFollows
  <2>2. Ignored(r0).state = r0
    BY DEF Ignored, Outcome
  <2>4. EdgeAgrees(p, Ignored(r0), t0, HwQuiet(r0), FALSE)
    BY <1>1, <1>3, <1>4, <1>5, <2>1, <2>2
  <2> QED  BY <1>6, <2>4
<1>7. CASE phase = "receive"
  <2> DEFINE word == Head(wire[p]).header
             h == DecodeHeader(word)
  <2>1. word \in Words
    BY <1>7, PortArrives
  <2>2. EdgeAgrees(p, RxDiscard(r0), AgeIgnore(t0), HwReceive(r0, TRUE, TRUE, word), TRUE)
    <3> DEFINE x == HwReceive(r0, TRUE, TRUE, word)
               out == RxDiscard(r0)
    <3>1. Follows(out, x, r0, NoCommand)
      BY <1>1, DiscardFollows
    <3>2. out.state \in RxStates
      BY <1>1, DiscardOutcome
    <3>3. Good(AgeIgnore(t0))
      BY <1>1, AgeKeeps
    <3> HIDE DEF x, out
    <3>5. EdgeAgrees(p, out, AgeIgnore(t0), x, TRUE)
      BY <1>3, <1>4, <1>5, <3>1, <3>2, <3>3
    <3> QED  BY <3>5 DEF x, out
  <2>3. ASSUME NEW crc_ok \in BOOLEAN
        PROVE  EdgeAgrees(p, RxReceive(r0, h, crc_ok), TxReceive(t0, h, crc_ok),
                          HwReceive(r0, FALSE, crc_ok, word), TRUE)
    <3> DEFINE x == HwReceive(r0, FALSE, crc_ok, word)
               out == RxReceive(r0, h, crc_ok)
               t == TxReceive(t0, h, crc_ok)
               cmd == CommandOf(h, crc_ok)
    <3> HIDE DEF word
    <3>1. Follows(out, x, r0, cmd)
      BY <1>1, <2>1, ReceiverFollows
    <3>2. out.state \in RxStates
      BY <1>1, <2>1, ReceiveTyped
    <3>3. cmd.valid => cmd.target \in SequenceNumbers
      BY <2>1, CommandNames
    <3>4. Targeted(h)
      BY <2>1, CommandTargets DEF Targeted
    <3>5. Good(t)
      <4> HIDE DEF h
      <4> QED  BY <1>1, <3>4, ReceiveKeeps
    <3>6. Means(Commanded(c, TRUE, cmd), mem, t)
      <4> HIDE DEF c, mem, t0
      <4> QED  BY <1>1, <1>2, <2>1, ReceiveMoves
    <3> HIDE DEF x, out, t, cmd
    <3>7. EdgeAgrees(p, out, t, x, TRUE)
      BY <1>3, <1>5, <3>1, <3>2, <3>3, <3>5, <3>6
    <3> QED  BY <3>7 DEF x, out, t
  <2>4. ASSUME NEW fate \in {"good", "bad", "discarded"}
        PROVE  IF fate = "discarded"
               THEN EdgeAgrees(p, RxDiscard(r0), AgeIgnore(t0), HwReceive(r0, TRUE, TRUE, word), TRUE)
               ELSE EdgeAgrees(p, RxReceive(r0, h, fate = "good"), TxReceive(t0, h, fate = "good"),
                               HwReceive(r0, FALSE, fate = "good", word), TRUE)
    <3> DEFINE crc_ok == fate = "good"
    <3>1. crc_ok \in BOOLEAN
      OBVIOUS
    <3> HIDE DEF crc_ok, word
    <3>2. EdgeAgrees(p, RxReceive(r0, h, crc_ok), TxReceive(t0, h, crc_ok),
                     HwReceive(r0, FALSE, crc_ok, word), TRUE)
      BY <2>3, <3>1
    <3> QED  BY <2>2, <3>2 DEF crc_ok
  <2>5. phase # "send"
    BY <1>7
  <2> HIDE DEF word
  <2>6. \A x \in {h}, fate \in {"good", "bad", "discarded"} :
          IF fate = "discarded"
          THEN EdgeAgrees(p, RxDiscard(r0), AgeIgnore(t0), HwReceive(r0, TRUE, TRUE, word), TRUE)
          ELSE EdgeAgrees(p, RxReceive(r0, x, fate = "good"), TxReceive(t0, x, fate = "good"),
                          HwReceive(r0, FALSE, fate = "good", word), TRUE)
    BY <2>4
  <2> QED  BY <2>5, <2>6 DEF word
<1> QED  BY <1>1, <1>6, <1>7

\* In every reachable state, whatever the wire brings and whatever is offered, the
\* hardware port issues the Flit that the reference sends after receiving, with
\* the header that acknowledges and requests what was made due in the same edge
\* (dl_replay_event_port.v, dl_replay_data_port.v); for every ring, capacity and
\* period, and whether or not a replay comes back within the limits of the wait.
THEOREM PortAlwaysFollows == LockSpec => []PortFollowsReference
<1>1. LockInit => PortInv
  BY PortStarts
<1> QED  BY <1>1, PortSteps, PortFollows, PTL DEF LockSpec
===============================================================================
