--------------------------- MODULE UpliBlocks_proofs ---------------------------
(* For every depth, batch, number of ports, virtual channels and beats, and      *)
(* every capacity: a burst takes all of its turns, paid for, with its own data,  *)
(* and the circuits of UpliBlocks keep step with their references.               *)
(*                                                                               *)
(* The burst comes first, with what its sender and the circuit of                *)
(* upli_burst_control.v decide in an edge; then the FIFO and its registers; then *)
(* the three blocks side by side.                                                *)
EXTENDS UpliBlocks, UpliHardware_proofs

-------------------------------------------------------------------------------
(* Ports and their turns.                                                        *)

\* The ports are numbered from 0, without a gap.
LEMMA PortsAre == NumPorts \in Nat /\ Ports = 0..NumPorts - 1
BY BurstAssumption, FS_CardinalityType DEF NumPorts

\* The edges until the turn of p.
Away(p, phase) == IF p >= phase THEN p - phase ELSE p - phase + NumPorts

\* The next turn, without the modulus.
LEMMA NextTurn ==
  ASSUME NEW phase \in Ports
  PROVE  /\ Turn(phase) = IF phase = NumPorts - 1 THEN 0 ELSE phase + 1
         /\ Turn(phase) \in Ports
<1>1. phase \in Int /\ 0 <= phase /\ phase < NumPorts /\ NumPorts \in Nat
  BY PortsAre
<1>2. phase # Unknown
  BY <1>1 DEF Unknown
<1>3. (phase + 1) % NumPorts = IF phase = NumPorts - 1 THEN 0 ELSE phase + 1
  BY <1>1
<1> QED  BY <1>1, <1>2, <1>3, PortsAre DEF Turn

\* At each edge the turn of a port comes nearer by one; after its turn it is last.
LEMMA TurnsComeNearer ==
  ASSUME NEW p \in Ports, NEW phase \in Ports
  PROVE  /\ Away(p, phase) \in 0..NumPorts - 1
         /\ Away(p, phase) = 0 <=> p = phase
         /\ Away(p, Turn(phase)) = IF p = phase THEN NumPorts - 1 ELSE Away(p, phase) - 1
<1>1. /\ phase \in Int /\ 0 <= phase /\ phase < NumPorts /\ NumPorts \in Nat
      /\ p \in Int /\ 0 <= p /\ p < NumPorts
  BY PortsAre
<1> QED  BY <1>1, NextTurn DEF Away

-------------------------------------------------------------------------------
(* Counting the beats of a burst.                                                *)

\* A request of up to four beats tells for each beat which credit it uses.
LEMMA PoolsAre ==
  ASSUME NEW pools \in Pools
  PROVE  /\ pools \in Seq(BOOLEAN) /\ Len(pools) \in 1..MaxBeats /\ MaxBeats \in 1..4
         /\ DOMAIN pools = 1..Len(pools) /\ \A i \in 1..Len(pools) : pools[i] \in BOOLEAN
<1>1. PICK n \in 1..MaxBeats : pools \in [1..n -> BOOLEAN]
  BY DEF Pools
<1>2. n \in Nat /\ MaxBeats \in 1..4
  BY BurstAssumption
<1>3. pools \in Seq(BOOLEAN)
  BY <1>1, <1>2, IsASeq
<1>4. Len(pools) = n
  BY <1>1, <1>2, <1>3, LenProperties
<1> QED  BY <1>1, <1>2, <1>3, <1>4

\* The beats of one kind after the first few are the next one, if it is of that
\* kind, and those after it.
LEMMA CountStep ==
  ASSUME NEW pools \in Pools, NEW from \in Nat, from < Len(pools), NEW pool \in BOOLEAN
  PROVE  /\ CountOf(pools, from, pool) \in Nat /\ CountOf(pools, from + 1, pool) \in Nat
         /\ pools[from + 1] = pool => CountOf(pools, from, pool) = CountOf(pools, from + 1, pool) + 1
         /\ pools[from + 1] # pool => CountOf(pools, from, pool) = CountOf(pools, from + 1, pool)
<1> DEFINE all == {i \in DOMAIN pools : i > from /\ pools[i] = pool}
           rest == {i \in DOMAIN pools : i > from + 1 /\ pools[i] = pool}
<1>1. DOMAIN pools = 1..Len(pools) /\ Len(pools) \in Nat
  BY PoolsAre
<1>2. IsFiniteSet(DOMAIN pools)
  BY <1>1, FS_Interval
<1>3. IsFiniteSet(all) /\ IsFiniteSet(rest)
  BY <1>2, FS_Subset
<1>4. /\ pools[from + 1] = pool => all = rest \cup {from + 1}
      /\ pools[from + 1] # pool => all = rest
  BY <1>1
<1>5. from + 1 \notin rest
  BY <1>1
<1>6. Cardinality(all) \in Nat /\ Cardinality(rest) \in Nat
  BY <1>3, FS_CardinalityType
<1>7. Cardinality(rest \cup {from + 1}) = Cardinality(rest) + 1
  BY <1>3, <1>5, FS_AddElement
<1>8. CountOf(pools, from, pool) = Cardinality(all) /\ CountOf(pools, from + 1, pool) = Cardinality(rest)
  BY DEF CountOf
<1> HIDE DEF all, rest
<1> QED  BY <1>4, <1>6, <1>7, <1>8, Zenon

\* After the last beat there are none.
LEMMA CountEnd ==
  ASSUME NEW pools \in Pools, NEW pool \in BOOLEAN
  PROVE  CountOf(pools, Len(pools), pool) = 0
<1>1. DOMAIN pools = 1..Len(pools) /\ Len(pools) \in Nat
  BY PoolsAre
<1>2. {i \in DOMAIN pools : i > Len(pools) /\ pools[i] = pool} = {}
  BY <1>1
<1> QED  BY <1>2, FS_EmptySet DEF CountOf

-------------------------------------------------------------------------------
(* The inductive invariant.                                                      *)

Levels == [orig_req : BOOLEAN, comp_ack : BOOLEAN, comp_req : BOOLEAN, orig_ack : BOOLEAN]

LedgerOK(l) == /\ l.balance \in [Accounts -> Nat]
               /\ l.initialized \subseteq Ports

\* No burst under way: neither the sender nor the monitor has anything left of one.
AtRest(p) ==
  sender.active[p] = Idle /\ sender.payload[p] = << >> /\ monitor.pending[p] = NothingPending

\* The beats still to go of a burst under way.
TurnsLeft(p) == Len(sender.active[p].pools) - sender.active[p].offset

\* A burst under way, its first beat gone: what is left of its data is held, expected
\* by the monitor in the turns to come, and has its credit.
UnderWay(p) ==
  LET b == sender.active[p]
      left == TurnsLeft(p)
  IN  /\ BeatsEnabled(link) /\ sender.phase \in Ports /\ p \in credit.data.initialized
      /\ b \in [vc : 0..(VCs - 1), pools : Pools, offset : Nat \ {0}] /\ left >= 1
      /\ sender.payload[p] = [i \in 1..left |-> <<p, b.offset + i - 1>>]
      /\ monitor.pending[p] = [vc |-> b.vc, offsets |-> [i \in 1..left |-> b.offset + i - 1],
                               due |-> Away(p, sender.phase)]
      /\ \A pool \in BOOLEAN :
           CountOf(b.pools, b.offset, pool) <= credit.data.balance[<<p, Accounted(pool, b.vc)>>]

BurstInv ==
  /\ link \in Levels
  /\ LedgerOK(credit.req) /\ LedgerOK(credit.data)
  /\ sender.phase \in Ports \cup {Unknown} /\ monitor.phase = sender.phase
  /\ \A p \in Ports : AtRest(p) \/ UnderWay(p)

-------------------------------------------------------------------------------
(* What an edge does, without the choices.                                       *)

TailBeat(p) ==
  LET b == sender.active[p]
  IN  [port |-> p, vc |-> b.vc, pool |-> b.pools[b.offset + 1], offset |-> b.offset,
       last |-> b.offset + 1 = Len(b.pools)]

FirstBeat(r) ==
  [port |-> r.port, vc |-> r.vc, pool |-> r.pools[1], offset |-> 0, last |-> Len(r.pools) = 1]

\* A request goes in its turn, on credit.
Requests(e, ph) ==
  \/ e.request = {}
  \/ \E r \in Candidates :
       /\ e.request = {r} /\ r.port = ph /\ ph \in Ports /\ ph \in credit.req.initialized
       /\ credit.req.balance[<<ph, Accounted(r.pool, r.vc)>>] >= 1

\* Of data there is none, the next beat of a burst under way, or the first of one.
Quiet(e, ph) ==
  /\ e.data = {} /\ Starts(e) = {} /\ (ph \in Ports => ~Busy(sender, ph))
Continues(e, ph) ==
  /\ ph \in Ports /\ Busy(sender, ph) /\ Starts(e) = {} /\ e.data = {TailBeat(ph)}
Begins(e, ph) ==
  /\ ph \in Ports /\ ~Busy(sender, ph) /\ ph \in credit.data.initialized
  /\ \E r \in Candidates :
       /\ e.request = {r} /\ Writes(r) /\ r.port = ph /\ e.data = {FirstBeat(r)}
       /\ \A pool \in BOOLEAN :
            CountOf(r.pools, 0, pool) <= credit.data.balance[<<ph, Accounted(pool, r.vc)>>]

EdgeOf(e, ph) ==
  /\ ph \in Ports \cup {Unknown} /\ (sender.phase \in Ports => ph = sender.phase)
  /\ PhaseSeen(monitor, e) = ph /\ (e.request # {} => ph \in Ports)
  /\ Requests(e, ph)
  /\ Quiet(e, ph) \/ Continues(e, ph) \/ Begins(e, ph)

\* The only member of a set is the one chosen from it.
LEMMA ChooseOnly == ASSUME NEW r PROVE (CHOOSE x \in {r} : TRUE) = r
OBVIOUS

\* Nothing is wanted: the phase stays and a burst under way goes on in it.
LEMMA EdgeOfNothing ==
  ASSUME BurstInv
  PROVE  EdgeOf(Events(sender, credit, link, {}), sender.phase)
<1> DEFINE e == Events(sender, credit, link, {})
           ph == sender.phase
<1>1. e.request = {} /\ e.data = {TailBeat(p) : p \in {p \in Ports : p = ph /\ Busy(sender, p)}}
  BY DEF Events, TailBeat
<1>2. Starts(e) = {} /\ PhaseSeen(monitor, e) = ph /\ ph \in Ports \cup {Unknown}
  BY <1>1 DEF Starts, PhaseSeen, BurstInv
<1> HIDE DEF e
<1>3. CASE ph \in Ports /\ Busy(sender, ph)
  <2>1. {p \in Ports : p = ph /\ Busy(sender, p)} = {ph}
    BY <1>3
  <2>2. e.data = {TailBeat(ph)}
    BY <1>1, <2>1
  <2> QED  BY <1>1, <1>2, <1>3, <2>2 DEF EdgeOf, Requests, Continues, e
<1>4. CASE ~(ph \in Ports /\ Busy(sender, ph))
  <2>1. {p \in Ports : p = ph /\ Busy(sender, p)} = {}
    BY <1>4
  <2>2. e.data = {}
    BY <1>1, <2>1
  <2> QED  BY <1>1, <1>2, <1>4, <2>2 DEF EdgeOf, Requests, Quiet, e
<1> QED  BY <1>3, <1>4

\* The port of a candidate that goes is the one whose turn it is.
LEMMA EdgeOfRequest ==
  ASSUME BurstInv, NEW r \in Candidates, Events(sender, credit, link, {r}).request # {}
  PROVE  /\ Events(sender, credit, link, {r}).request = {r}
         /\ EdgeOf(Events(sender, credit, link, {r}), r.port)
<1> DEFINE e == Events(sender, credit, link, {r})
           ph == IF sender.phase = Unknown THEN r.port ELSE sender.phase
           tail == {TailBeat(p) : p \in {p \in Ports : p = ph /\ Busy(sender, p)}}
           first == {FirstBeat(q) : q \in {q \in e.request : Writes(q)}}
<1>1. e.request = {q \in {r} : EligibleRequest(sender, credit, link, q, ph)}
  BY ChooseOnly DEF Events
<1>2. e.data = IF first # {} THEN first ELSE tail
  BY ChooseOnly DEF Events, TailBeat, FirstBeat
<1>3. e.request = {r} /\ EligibleRequest(sender, credit, link, r, ph)
  BY <1>1
<1> HIDE DEF e
<1>4. r.port = ph /\ r.port \in Ports /\ r.port \in credit.req.initialized
      /\ credit.req.balance[<<r.port, Accounted(r.pool, r.vc)>>] >= 1
  BY <1>3 DEF EligibleRequest, Candidates
<1>5. PhaseSeen(monitor, e) = r.port /\ Requests(e, r.port)
  BY <1>3, <1>4, ChooseOnly DEF PhaseSeen, BurstInv, Requests
<1>6. sender.phase \in Ports => r.port = sender.phase
  BY <1>4, PortsAre DEF Unknown
<1>7. CASE Writes(r)
  <2>1. Starts(e) = {r} /\ first = {FirstBeat(r)}
    BY <1>3, <1>7 DEF Starts
  <2>2. e.data = {FirstBeat(r)}
    BY <1>2, <2>1
  <2>3. /\ ~Busy(sender, r.port) /\ r.port \in credit.data.initialized
        /\ \A pool \in BOOLEAN :
             AvailableData(sender, credit, r.port, Accounted(pool, r.vc)) >= CountOf(r.pools, 0, pool)
    BY <1>3, <1>7 DEF EligibleRequest
  <2>4. ASSUME NEW pool \in BOOLEAN
        PROVE  CountOf(r.pools, 0, pool) <= credit.data.balance[<<r.port, Accounted(pool, r.vc)>>]
    <3> DEFINE a == Accounted(pool, r.vc)
    <3>1. <<r.port, a>> \in Accounts
      BY <1>4, CreditAssumption DEF Accounts, Accounted, Pool, Candidates
    <3>2. credit.data.balance[<<r.port, a>>] \in Nat
      BY <3>1 DEF BurstInv, LedgerOK
    <3>3. Reserved(sender, r.port, a) = 0
      BY <2>3 DEF Reserved
    <3>4. r.pools \in Pools
      BY <1>7 DEF Candidates, Writes
    <3>5. CountOf(r.pools, 0, pool) \in Nat
      <4>1. 0 \in Nat /\ 0 < Len(r.pools)
        BY <3>4, PoolsAre
      <4> QED  BY <3>4, <4>1, CountStep
    <3> QED  BY <2>3, <3>2, <3>3, <3>5 DEF AvailableData
  <2> QED  BY <1>3, <1>4, <1>5, <1>6, <1>7, <2>2, <2>3, <2>4 DEF EdgeOf, Begins, e
<1>8. CASE ~Writes(r)
  <2>1. Starts(e) = {} /\ first = {}
    BY <1>3, <1>8 DEF Starts
  <2>2. e.data = tail
    BY <1>2, <2>1
  <2>3. CASE Busy(sender, r.port)
    <3>1. {p \in Ports : p = ph /\ Busy(sender, p)} = {r.port}
      BY <1>4, <2>3
    <3>2. e.data = {TailBeat(r.port)}
      BY <2>2, <3>1
    <3> QED  BY <1>3, <1>4, <1>5, <1>6, <2>1, <2>3, <3>2 DEF EdgeOf, Continues, e
  <2>4. CASE ~Busy(sender, r.port)
    <3>1. {p \in Ports : p = ph /\ Busy(sender, p)} = {}
      BY <1>4, <2>4
    <3>2. e.data = {}
      BY <2>2, <3>1
    <3> QED  BY <1>3, <1>4, <1>5, <1>6, <2>1, <2>4, <3>2 DEF EdgeOf, Quiet, e
  <2> QED  BY <2>3, <2>4
<1> QED  BY <1>7, <1>8

\* So for any edge the sender may take.
LEMMA EveryEdge ==
  ASSUME BurstInv, NEW wanted \in AtMostOneOf(Acceptable)
  PROVE  /\ Events(sender, credit, link, wanted).request = wanted
         /\ \E ph \in Ports \cup {Unknown} : EdgeOf(Events(sender, credit, link, wanted), ph)
<1>1. CASE wanted = {}
  <2>1. Events(sender, credit, link, {}).request = {}
    BY DEF Events
  <2> QED  BY <1>1, <2>1, EdgeOfNothing DEF EdgeOf
<1>2. CASE \E r \in Acceptable : wanted = {r}
  <2>1. PICK r \in Acceptable : wanted = {r}
    BY <1>2
  <2>2. r \in Candidates /\ Events(sender, credit, link, {r}).request # {}
    BY DEF Acceptable
  <2>3. EdgeOf(Events(sender, credit, link, {r}), r.port) /\ Events(sender, credit, link, {r}).request = {r}
    BY <2>2, EdgeOfRequest
  <2>4. r.port \in Ports \cup {Unknown}
    BY <2>3 DEF EdgeOf
  <2> QED  BY <2>1, <2>3, <2>4
<1> QED  BY <1>1, <1>2 DEF AtMostOneOf

-------------------------------------------------------------------------------
(* A burst under way, part by part.                                              *)

\* The first of a list given by its places, and the rest.
LEMMA ListByPlaces ==
  ASSUME NEW n \in Nat \ {0}, NEW s, s = [i \in 1..n |-> s[i]]
  PROVE  /\ s # << >> /\ Len(s) = n /\ Head(s) = s[1]
         /\ Tail(s) = [i \in 1..n - 1 |-> s[i + 1]]
<1> DEFINE T == {s[i] : i \in 1..n}
<1>1. s \in [1..n -> T]
  OBVIOUS
<1>2. s \in Seq(T)
  BY <1>1, IsASeq
<1>3. Len(s) = n
  BY <1>1, <1>2, LenProperties
<1>4. s # << >>
  BY <1>3, EmptySeq
<1> QED  BY <1>2, <1>3, <1>4

\* A port that has a burst is in the middle of it, any other is at rest.
LEMMA BusyMeansUnderWay ==
  ASSUME BurstInv, NEW p \in Ports
  PROVE  /\ Busy(sender, p) => UnderWay(p)
         /\ ~Busy(sender, p) => AtRest(p)
BY DEF BurstInv, AtRest, UnderWay, Busy, Idle

\* What is known of a burst under way: its beats, those left, its data and its credit.
LEMMA PartsOfBurst ==
  ASSUME BurstInv, NEW p \in Ports, Busy(sender, p)
  PROVE  LET b == sender.active[p]
             left == TurnsLeft(p)
         IN
         /\ BeatsEnabled(link) /\ sender.phase \in Ports /\ p \in credit.data.initialized
         /\ b = [vc |-> b.vc, pools |-> b.pools, offset |-> b.offset]
         /\ b.vc \in 0..(VCs - 1) /\ b.pools \in Pools /\ b.offset \in Nat /\ b.offset >= 1
         /\ Len(b.pools) \in 1..4 /\ left \in Nat \ {0} /\ b.offset + left = Len(b.pools)
         /\ b.pools[b.offset + 1] \in BOOLEAN
<1> DEFINE b == sender.active[p]
           left == TurnsLeft(p)
<1>1. UnderWay(p)
  BY BusyMeansUnderWay
<1>2. /\ BeatsEnabled(link) /\ sender.phase \in Ports /\ p \in credit.data.initialized
      /\ b = [vc |-> b.vc, pools |-> b.pools, offset |-> b.offset]
      /\ b.vc \in 0..(VCs - 1) /\ b.pools \in Pools /\ b.offset \in Nat /\ b.offset >= 1
      /\ left >= 1
  BY <1>1 DEF UnderWay
<1>3. Len(b.pools) \in 1..MaxBeats /\ \A i \in 1..Len(b.pools) : b.pools[i] \in BOOLEAN
  BY <1>2, PoolsAre
<1>4. MaxBeats \in 1..4
  BY BurstAssumption
<1> DEFINE len == Len(b.pools)
           at == b.offset
<1>5. len \in 1..MaxBeats /\ at \in Nat /\ left = len - at /\ left >= 1
  BY <1>2, <1>3 DEF TurnsLeft
<1> HIDE DEF len, at, left
<1>6. left \in Nat \ {0} /\ at + left = len /\ at + 1 \in 1..len
  BY <1>4, <1>5
<1>7. len \in 1..4
  BY <1>4, <1>5
<1> QED  BY <1>2, <1>3, <1>5, <1>6, <1>7 DEF len, at, left

\* What is held for it, and what the monitor expects.
LEMMA RestOfBurst ==
  ASSUME BurstInv, NEW p \in Ports, Busy(sender, p)
  PROVE  LET b == sender.active[p]
             left == TurnsLeft(p)
             words == sender.payload[p]
             seen == monitor.pending[p]
         IN
         /\ words # << >> /\ Len(words) = left /\ Head(words) = <<p, b.offset>>
         /\ Tail(words) = [i \in 1..left - 1 |-> <<p, b.offset + i>>]
         /\ seen = [vc |-> b.vc, offsets |-> seen.offsets, due |-> Away(p, sender.phase)]
         /\ seen.offsets # << >> /\ Len(seen.offsets) = left /\ Head(seen.offsets) = b.offset
         /\ Tail(seen.offsets) = [i \in 1..left - 1 |-> b.offset + i]
<1> DEFINE b == sender.active[p]
           left == TurnsLeft(p)
           words == sender.payload[p]
           seen == monitor.pending[p]
<1>1. b.offset \in Nat /\ left \in Nat \ {0}
  BY PartsOfBurst
<1>2. /\ words = [i \in 1..left |-> <<p, b.offset + i - 1>>]
      /\ seen = [vc |-> b.vc, offsets |-> [i \in 1..left |-> b.offset + i - 1],
                 due |-> Away(p, sender.phase)]
  BY BusyMeansUnderWay DEF UnderWay
<1> DEFINE k == b.offset
           offsets == seen.offsets
<1>3. offsets = [i \in 1..left |-> k + i - 1]
  BY <1>2
<1>4. k \in Nat
  BY <1>1
<1> HIDE DEF k, offsets, words, left
<1>5. words = [i \in 1..left |-> words[i]] /\ offsets = [i \in 1..left |-> offsets[i]]
  BY <1>2, <1>3
<1>6. 1 \in 1..left /\ \A i \in 1..left - 1 : i + 1 \in 1..left /\ k + (i + 1) - 1 = k + i /\ k + 1 - 1 = k
  BY <1>1, <1>4
<1>7. /\ words[1] = <<p, k>> /\ \A i \in 1..left - 1 : words[i + 1] = <<p, k + i>>
      /\ offsets[1] = k /\ \A i \in 1..left - 1 : offsets[i + 1] = k + i
  <2>1. words = [i \in 1..left |-> <<p, k + i - 1>>]
    BY <1>2 DEF k, words, left
  <2> QED  BY <1>1, <1>3, <1>4, <1>6, <2>1
<1>8. /\ words # << >> /\ Len(words) = left /\ Head(words) = words[1]
      /\ Tail(words) = [i \in 1..left - 1 |-> words[i + 1]]
  BY <1>1, <1>5, ListByPlaces
<1>9. /\ offsets # << >> /\ Len(offsets) = left /\ Head(offsets) = offsets[1]
      /\ Tail(offsets) = [i \in 1..left - 1 |-> offsets[i + 1]]
  BY <1>1, <1>5, ListByPlaces
<1>10. seen = [vc |-> b.vc, offsets |-> offsets, due |-> Away(p, sender.phase)]
  BY <1>2 DEF offsets
<1> QED  BY <1>7, <1>8, <1>9, <1>10 DEF k, offsets, words, left

\* Its next beat has its credit.
LEMMA NextBeatIsPaid ==
  ASSUME BurstInv, NEW p \in Ports, Busy(sender, p)
  PROVE  LET b == sender.active[p]
         IN  credit.data.balance[<<p, Accounted(b.pools[b.offset + 1], b.vc)>>] >= 1
<1> DEFINE b == sender.active[p]
           pool == b.pools[b.offset + 1]
           len == Len(b.pools)
           at == b.offset
<1>1. b.pools \in Pools /\ at \in Nat /\ pool \in BOOLEAN /\ b.vc \in 0..(VCs - 1)
  BY PartsOfBurst
<1>2. at < len
  <2>1. len \in 1..4 /\ len - at \in Nat \ {0}
    BY PartsOfBurst DEF TurnsLeft
  <2>2. at \in Nat
    BY <1>1
  <2> HIDE DEF len, at
  <2> QED  BY <2>1, <2>2
<1>3. CountOf(b.pools, b.offset, pool) = CountOf(b.pools, b.offset + 1, pool) + 1
      /\ CountOf(b.pools, b.offset + 1, pool) \in Nat
  BY <1>1, <1>2, CountStep
<1>4. CountOf(b.pools, b.offset, pool) <= credit.data.balance[<<p, Accounted(pool, b.vc)>>]
  BY <1>1, BusyMeansUnderWay DEF UnderWay
<1>5. <<p, Accounted(pool, b.vc)>> \in Accounts
  BY <1>1, CreditAssumption DEF Accounts, Accounted, Pool
<1>6. credit.data.balance[<<p, Accounted(pool, b.vc)>>] \in Nat
  BY <1>5 DEF BurstInv, LedgerOK
<1>7. \A rest, all, balance \in Int : rest >= 0 /\ all = rest + 1 /\ all <= balance => balance >= 1
  OBVIOUS
<1> HIDE DEF at, pool
<1> QED  BY <1>3, <1>4, <1>6, <1>7, SMTT(30) DEF b, pool, at

\* The monitor has one burst due at most: the one whose turn it is.
LEMMA DueIsTheTurn ==
  ASSUME BurstInv
  PROVE  /\ Due(monitor) = {p \in Ports : p = sender.phase /\ Busy(sender, p)}
         /\ \A p \in Ports : monitor.pending[p].due \in Nat
         /\ \A p \in Ports : monitor.pending[p].offsets # << >> <=> Busy(sender, p)
<1>1. ASSUME NEW p \in Ports, Busy(sender, p)
      PROVE  /\ monitor.pending[p].offsets # << >> /\ monitor.pending[p].due \in Nat
             /\ monitor.pending[p].due <= 0 <=> p = sender.phase
  <2> DEFINE seen == monitor.pending[p]
  <2>1. seen.offsets # << >> /\ seen = [vc |-> sender.active[p].vc, offsets |-> seen.offsets,
                                        due |-> Away(p, sender.phase)]
    BY <1>1, RestOfBurst, Zenon
  <2>2. sender.phase \in Ports
    BY <1>1, PartsOfBurst, Zenon
  <2>3. Away(p, sender.phase) \in 0..NumPorts - 1 /\ (Away(p, sender.phase) = 0 <=> p = sender.phase)
    BY <2>2, TurnsComeNearer
  <2>4. seen.due = Away(p, sender.phase)
    BY <2>1
  <2> QED  BY <2>1, <2>3, <2>4, PortsAre
<1>2. ASSUME NEW p \in Ports, ~Busy(sender, p)
      PROVE  monitor.pending[p].offsets = << >> /\ monitor.pending[p].due = 0
  BY <1>2, BusyMeansUnderWay DEF AtRest, NothingPending
<1> QED  BY <1>1, <1>2 DEF Due

-------------------------------------------------------------------------------
(* An edge the sender may take keeps the promises made to the other side.        *)

\* A request or a beat of data that goes has its credit.
LEMMA EdgeIsPaid ==
  ASSUME BurstInv, BeatsEnabled(link), NEW e, NEW ph, EdgeOf(e, ph)
  PROVE  BeatsArePaid(e)
<1>1. ASSUME NEW b \in RequestBeats(e)
      PROVE  MaySend(credit.req, link, b.port, b.meta)
  <2>1. PICK r \in Candidates :
          /\ e.request = {r} /\ r.port = ph /\ ph \in Ports /\ ph \in credit.req.initialized
          /\ credit.req.balance[<<ph, Accounted(r.pool, r.vc)>>] >= 1
    BY <1>1 DEF EdgeOf, Requests, RequestBeats
  <2>2. b = [port |-> r.port, meta |-> [vc |-> r.vc, pool |-> r.pool]]
    BY <1>1, <2>1 DEF RequestBeats
  <2>3. AccountOf(b.meta) = Accounted(r.pool, r.vc)
    BY <2>2 DEF AccountOf, Accounted
  <2> QED  BY <2>1, <2>2, <2>3 DEF MaySend
<1>2. ASSUME NEW b \in DataBeats(e)
      PROVE  MaySend(credit.data, link, b.port, b.meta)
  <2>1. CASE Continues(e, ph)
    <3> DEFINE x == sender.active[ph]
    <3>1. b = [port |-> ph, meta |-> [vc |-> x.vc, pool |-> x.pools[x.offset + 1]]]
      BY <1>2, <2>1 DEF Continues, DataBeats, TailBeat
    <3>2. AccountOf(b.meta) = Accounted(x.pools[x.offset + 1], x.vc)
      BY <3>1 DEF AccountOf, Accounted
    <3>3. credit.data.balance[<<ph, Accounted(x.pools[x.offset + 1], x.vc)>>] >= 1
      BY <2>1, NextBeatIsPaid DEF Continues
    <3>4. ph \in credit.data.initialized
      BY <2>1, PartsOfBurst, Zenon DEF Continues
    <3> QED  BY <3>1, <3>2, <3>3, <3>4 DEF MaySend
  <2>2. CASE Begins(e, ph)
    <3>1. PICK r \in Candidates :
            /\ e.request = {r} /\ Writes(r) /\ r.port = ph /\ e.data = {FirstBeat(r)}
            /\ \A pool \in BOOLEAN :
                 CountOf(r.pools, 0, pool) <= credit.data.balance[<<ph, Accounted(pool, r.vc)>>]
      BY <2>2 DEF Begins
    <3>2. r.pools \in Pools /\ r.vc \in 0..(VCs - 1)
      BY <3>1 DEF Candidates, Writes
    <3> DEFINE first == r.pools[1]
    <3>3. 0 \in Nat /\ 0 < Len(r.pools) /\ first \in BOOLEAN
      BY <3>2, PoolsAre
    <3>4. CountOf(r.pools, 0 + 1, first) \in Nat
          /\ (r.pools[0 + 1] = first => CountOf(r.pools, 0, first) = CountOf(r.pools, 0 + 1, first) + 1)
      BY <3>2, <3>3, CountStep
    <3>5. CountOf(r.pools, 0, first) >= 1
      BY <3>4
    <3>6. b = [port |-> ph, meta |-> [vc |-> r.vc, pool |-> first]]
      BY <1>2, <3>1 DEF DataBeats, FirstBeat
    <3>7. AccountOf(b.meta) = Accounted(first, r.vc)
      BY <3>6 DEF AccountOf, Accounted
    <3>8. <<ph, Accounted(first, r.vc)>> \in Accounts
      BY <2>2, <3>2, CreditAssumption DEF Accounts, Accounted, Pool, Begins
    <3>9. credit.data.balance[<<ph, Accounted(first, r.vc)>>] \in Nat
      BY <3>8 DEF BurstInv, LedgerOK
    <3>10. credit.data.balance[<<ph, Accounted(first, r.vc)>>] >= CountOf(r.pools, 0, first)
      BY <3>1, <3>3
    <3>11. credit.data.balance[<<ph, Accounted(first, r.vc)>>] >= 1
      BY <3>4, <3>5, <3>9, <3>10
    <3>12. ph \in credit.data.initialized
      BY <2>2 DEF Begins
    <3> QED  BY <3>6, <3>7, <3>11, <3>12 DEF MaySend
  <2>3. CASE Quiet(e, ph)
    BY <1>2, <2>3 DEF Quiet, DataBeats
  <2> QED  BY <2>1, <2>2, <2>3 DEF EdgeOf
<1> QED  BY <1>1, <1>2 DEF BeatsArePaid

\* A beat that continues a burst finds its own word of payload, and the last its last.
LEMMA EdgeHasItsPayload ==
  ASSUME BurstInv, NEW e, NEW ph, EdgeOf(e, ph)
  PROVE  PayloadIsThere(e)
<1> SUFFICES ASSUME NEW b \in e.data, b.offset > 0
             PROVE  /\ sender.payload[b.port] # << >>
                    /\ Head(sender.payload[b.port]) = <<b.port, b.offset>>
                    /\ b.last = (Len(sender.payload[b.port]) = 1)
  BY DEF PayloadIsThere
<1>1. CASE Continues(e, ph)
  <2> DEFINE x == sender.active[ph]
             at == x.offset
             len == Len(x.pools)
             words == sender.payload[ph]
  <2>1. b = [port |-> ph, vc |-> x.vc, pool |-> x.pools[at + 1], offset |-> at, last |-> at + 1 = len]
    BY <1>1 DEF Continues, TailBeat
  <2>2. words # << >> /\ Len(words) = TurnsLeft(ph) /\ Head(words) = <<ph, at>>
    BY <1>1, RestOfBurst, Zenon DEF Continues
  <2>3. at \in Nat /\ TurnsLeft(ph) \in Nat \ {0} /\ at + TurnsLeft(ph) = len
    BY <1>1, PartsOfBurst, Zenon DEF Continues
  <2> HIDE DEF at, len
  <2>4. (at + 1 = len) = (TurnsLeft(ph) = 1)
    BY <2>3
  <2>5. b.port = ph /\ b.offset = at /\ b.last = (at + 1 = len)
    BY <2>1
  <2> QED  BY <2>2, <2>4, <2>5, Zenon
<1>2. CASE ~Continues(e, ph)
  BY <1>2 DEF EdgeOf, Quiet, Begins, FirstBeat
<1> QED  BY <1>1, <1>2

\* The monitor sees the beat it expects, or none if it expects none.
LEMMA EdgeIsExpected ==
  ASSUME BurstInv, NEW e, NEW ph, EdgeOf(e, ph)
  PROVE  ~MonitorObjects(monitor, e)
<1> DEFINE due == Due(monitor)
           beats == {[port |-> b.port, vc |-> b.vc, offset |-> b.offset, last |-> b.last] : b \in e.data}
<1>1. due = {p \in Ports : p = sender.phase /\ Busy(sender, p)}
  BY DueIsTheTurn
<1>2. \A p \in Ports : /\ monitor.pending[p].due \in Nat
                       /\ (monitor.pending[p].offsets # << >> <=> Busy(sender, p))
  BY DueIsTheTurn
<1>3. \A p \in Ports : Busy(sender, p) => sender.phase \in Ports
  BY PartsOfBurst, Zenon
<1> HIDE DEF due
<1>4. ~(Cardinality(due) > 1)
  <2>1. CASE due = {}
    <3>1. Cardinality(due) = 0
      BY <2>1, FS_EmptySet
    <3> QED  BY <3>1
  <2>2. CASE due # {}
    <3>1. due = {sender.phase}
      BY <1>1, <2>2
    <3>2. Cardinality(due) = 1
      BY <3>1, FS_Singleton
    <3> QED  BY <3>2
  <2> QED  BY <2>1, <2>2
<1>5. due \subseteq Ports /\ \A p \in due : ~(monitor.pending[p].due < 0)
  BY <1>1, <1>2
<1>6. ~TdmObjects(monitor, e)
  <2>1. \A b \in e.request : b.port = ph
    BY DEF EdgeOf, Requests
  <2>2. \A b \in e.data : b.port = ph
    BY <2>1 DEF EdgeOf, Quiet, Continues, Begins, TailBeat, FirstBeat
  <2> QED  BY <2>1, <2>2, Zenon DEF TdmObjects, EdgeOf
<1>7. CASE Continues(e, ph)
  <2> DEFINE x == sender.active[ph]
             at == x.offset
             len == Len(x.pools)
             seen == monitor.pending[ph]
  <2>1. ph \in Ports /\ Busy(sender, ph) /\ Starts(e) = {} /\ e.data = {TailBeat(ph)}
    BY <1>7 DEF Continues
  <2>2. ph = sender.phase
    BY <1>3, <2>1 DEF EdgeOf
  <2>3. due = {ph}
    BY <1>1, <2>1, <2>2
  <2>4. seen.vc = x.vc /\ Len(seen.offsets) = TurnsLeft(ph) /\ Head(seen.offsets) = at
    <3>1. seen = [vc |-> x.vc, offsets |-> seen.offsets, due |-> Away(ph, sender.phase)]
          /\ Len(seen.offsets) = TurnsLeft(ph) /\ Head(seen.offsets) = at
      BY <2>1, RestOfBurst, Zenon
    <3> QED  BY <3>1
  <2>5. (at + 1 = len) = (TurnsLeft(ph) = 1)
    <3>1. at \in Nat /\ TurnsLeft(ph) \in Nat \ {0} /\ at + TurnsLeft(ph) = len
      BY <2>1, PartsOfBurst, Zenon
    <3> HIDE DEF at, len
    <3> QED  BY <3>1
  <2>6. beats = {[port |-> ph, vc |-> x.vc, offset |-> at, last |-> at + 1 = len]}
    BY <2>1 DEF TailBeat
  <2>7. ExpectedData(monitor, e)
          = {[port |-> ph, vc |-> seen.vc, offset |-> Head(seen.offsets), last |-> Len(seen.offsets) = 1]}
    BY <2>1, <2>3 DEF ExpectedData, due
  <2>8. beats = ExpectedData(monitor, e)
    <3> HIDE DEF beats, at, len, seen, x
    <3>1. [port |-> ph, vc |-> x.vc, offset |-> at, last |-> at + 1 = len]
            = [port |-> ph, vc |-> seen.vc, offset |-> Head(seen.offsets), last |-> Len(seen.offsets) = 1]
      BY <2>4, <2>5, Zenon DEF at, seen, x
    <3> QED  BY <2>6, <2>7, <3>1, Zenon
  <2> QED  BY <1>4, <1>5, <1>6, <2>1, <2>8, Zenon DEF MonitorObjects, due
<1>8. CASE Begins(e, ph)
  <2>1. PICK r \in Candidates :
          ph \in Ports /\ ~Busy(sender, ph) /\ e.request = {r} /\ Writes(r) /\ r.port = ph /\ e.data = {FirstBeat(r)}
    BY <1>8 DEF Begins
  <2>2. due = {}
    BY <1>1, <1>3, <2>1 DEF EdgeOf
  <2>3. Starts(e) = {r}
    BY <2>1 DEF Starts
  <2>4. beats = {[port |-> r.port, vc |-> r.vc, offset |-> 0, last |-> Len(r.pools) = 1]}
    BY <2>1 DEF FirstBeat
  <2>5. ExpectedData(monitor, e) = {[port |-> r.port, vc |-> r.vc, offset |-> 0, last |-> Len(r.pools) = 1]}
    BY <2>3 DEF ExpectedData
  <2>6. monitor.pending[r.port].offsets = << >>
    BY <1>2, <2>1
  <2> QED  BY <1>4, <1>5, <1>6, <2>2, <2>3, <2>4, <2>5, <2>6, Zenon DEF MonitorObjects, due
<1>9. CASE Quiet(e, ph)
  <2>1. due = {}
    BY <1>1, <1>3, <1>9 DEF EdgeOf, Quiet
  <2>2. Starts(e) = {} /\ beats = {}
    BY <1>9 DEF Quiet
  <2>3. ExpectedData(monitor, e) = {}
    BY <2>1, <2>2 DEF ExpectedData, due
  <2> QED  BY <1>4, <1>5, <1>6, <2>1, <2>2, <2>3, Zenon DEF MonitorObjects, due
<1> QED  BY <1>7, <1>8, <1>9 DEF EdgeOf

-------------------------------------------------------------------------------
(* The ledgers over an edge.                                                     *)

GrantsOK(grants) == \A p \in Ports : grants[p].count \in Nat

\* What a receiver may grant at an edge is a number of credits for each port.
LEMMA GrantsAreCounts ==
  ASSUME NEW l, NEW channel, NEW grants \in GrantsTo(l, channel)
  PROVE  GrantsOK(grants)
<1>1. Batch \in Nat /\ \A n \in 1..Batch : n \in Nat
  BY CreditAssumption
<1> QED  BY <1>1 DEF GrantsTo, GrantsOK, NoGrant

\* An account has what it had and what was granted, less a beat that spent from it.
LEMMA BalanceAfter ==
  ASSUME NEW l, NEW grants, NEW beats, NEW done, NEW p \in Ports, NEW a \in 0..Pool
  PROVE  LedgerStep(l, grants, beats, done).balance[<<p, a>>]
           = l.balance[<<p, a>>] + Granted(grants[p], a)
               - (IF \E b \in beats : b.port = p /\ AccountOf(b.meta) = a THEN 1 ELSE 0)
<1>1. <<p, a>> \in Accounts
  BY DEF Accounts
<1> QED  BY <1>1 DEF LedgerStep

\* A ledger stays sound if what was spent was there.
LEMMA LedgerStays ==
  ASSUME NEW l, LedgerOK(l), NEW grants, GrantsOK(grants), NEW beats, NEW done,
         \A b \in beats : b.port \in Ports => l.balance[<<b.port, AccountOf(b.meta)>>] >= 1
  PROVE  LET next == LedgerStep(l, grants, beats, done)
         IN  LedgerOK(next) /\ l.initialized \subseteq next.initialized
<1> DEFINE next == LedgerStep(l, grants, beats, done)
<1>1. ASSUME NEW p \in Ports, NEW a \in 0..Pool
      PROVE  next.balance[<<p, a>>] \in Nat
  <2>1. l.balance[<<p, a>>] \in Nat
    BY DEF LedgerOK, Accounts
  <2>2. Granted(grants[p], a) \in Nat
    BY DEF GrantsOK, Granted
  <2>3. CASE \E b \in beats : b.port = p /\ AccountOf(b.meta) = a
    <3>1. l.balance[<<p, a>>] >= 1
      BY <2>3
    <3>2. next.balance[<<p, a>>] = l.balance[<<p, a>>] + Granted(grants[p], a) - 1
      BY <2>3, BalanceAfter
    <3> HIDE DEF next
    <3> QED  BY <2>1, <2>2, <3>1, <3>2
  <2>4. CASE ~\E b \in beats : b.port = p /\ AccountOf(b.meta) = a
    <3>1. next.balance[<<p, a>>] = l.balance[<<p, a>>] + Granted(grants[p], a) - 0
      BY <2>4, BalanceAfter
    <3> HIDE DEF next
    <3> QED  BY <2>1, <2>2, <3>1
  <2> QED  BY <2>3, <2>4
<1>2. next.balance = [pa \in Accounts |-> next.balance[pa]]
  BY DEF LedgerStep
<1>3. next.balance \in [Accounts -> Nat]
  <2>1. \A pa \in Accounts : next.balance[pa] \in Nat
    BY <1>1 DEF Accounts
  <2> HIDE DEF next
  <2> QED  BY <1>2, <2>1
<1>4. next.initialized \subseteq Ports /\ l.initialized \subseteq next.initialized
  BY DEF LedgerStep, LedgerOK
<1> QED  BY <1>3, <1>4 DEF LedgerOK

\* A beat that goes leaves the credit of those that follow it.
LEMMA TheRestStaysPaid ==
  ASSUME NEW l, LedgerOK(l), NEW grants, GrantsOK(grants), NEW beats, NEW done,
         NEW p \in Ports, NEW vc \in 0..(VCs - 1), NEW pools \in Pools,
         NEW from \in Nat, from < Len(pools),
         beats = {[port |-> p, meta |-> [vc |-> vc, pool |-> pools[from + 1]]]},
         \A pool \in BOOLEAN : CountOf(pools, from, pool) <= l.balance[<<p, Accounted(pool, vc)>>],
         NEW pool \in BOOLEAN
  PROVE  CountOf(pools, from + 1, pool)
           <= LedgerStep(l, grants, beats, done).balance[<<p, Accounted(pool, vc)>>]
<1> DEFINE a == Accounted(pool, vc)
           had == l.balance[<<p, a>>]
           has == LedgerStep(l, grants, beats, done).balance[<<p, a>>]
           more == CountOf(pools, from, pool)
           rest == CountOf(pools, from + 1, pool)
           gift == Granted(grants[p], a)
<1>1. a \in 0..Pool /\ VCs \in Nat
  BY CreditAssumption DEF Accounted, Pool
<1>2. had \in Nat /\ gift \in Nat /\ more <= had
  BY <1>1 DEF LedgerOK, Accounts, GrantsOK, Granted
<1>3. more \in Nat /\ rest \in Nat
  BY CountStep
<1>4. CASE pools[from + 1] = pool
  <2>1. more = rest + 1
    BY <1>4, CountStep
  <2>2. has = had + gift - 1
    <3>1. \E b \in beats : b.port = p /\ AccountOf(b.meta) = a
      <4> DEFINE b == [port |-> p, meta |-> [vc |-> vc, pool |-> pools[from + 1]]]
      <4>1. AccountOf(b.meta) = Accounted(pools[from + 1], vc) /\ b.port = p
        BY DEF AccountOf, Accounted
      <4>2. Accounted(pools[from + 1], vc) = a
        BY <1>4, Zenon
      <4>3. b \in beats
        BY Zenon
      <4>4. AccountOf(b.meta) = a
        BY <4>1, <4>2
      <4> HIDE DEF a, b
      <4> QED  BY <4>1, <4>3, <4>4, Zenon
    <3> HIDE DEF a
    <3> QED  BY <1>1, <3>1, BalanceAfter
  <2> HIDE DEF a, had, has, more, rest, gift
  <2> QED  BY <1>2, <1>3, <2>1, <2>2 DEF a, has, rest
<1>5. CASE pools[from + 1] # pool
  <2>1. more = rest
    BY <1>5, CountStep
  <2>2. has = had + gift - 0
    <3>1. AccountOf([vc |-> vc, pool |-> pools[from + 1]]) # a
      <4>1. from + 1 \in 1..Len(pools) /\ pools[from + 1] \in BOOLEAN
        <5>1. Len(pools) \in Nat
          BY PoolsAre
        <5>2. from + 1 \in 1..Len(pools)
          BY <5>1
        <5> QED  BY <5>2, PoolsAre
      <4>2. vc # Pool
        BY <1>1 DEF Pool
      <4> QED  BY <1>5, <4>1, <4>2 DEF AccountOf, Accounted
    <3>2. ~\E b \in beats : b.port = p /\ AccountOf(b.meta) = a
      BY <3>1
    <3> QED  BY <1>1, <3>2, BalanceAfter
  <2> HIDE DEF a, had, has, more, rest, gift
  <2> QED  BY <1>2, <1>3, <2>1, <2>2 DEF a, has, rest
<1> QED  BY <1>4, <1>5

\* A port without a beat keeps its credit.
LEMMA OthersStayPaid ==
  ASSUME NEW l, LedgerOK(l), NEW grants, GrantsOK(grants), NEW beats, NEW done,
         NEW p \in Ports, NEW a \in 0..Pool, \A b \in beats : b.port # p
  PROVE  l.balance[<<p, a>>] <= LedgerStep(l, grants, beats, done).balance[<<p, a>>]
<1>1. l.balance[<<p, a>>] \in Nat /\ Granted(grants[p], a) \in Nat
  BY DEF LedgerOK, Accounts, GrantsOK, Granted
<1>2. LedgerStep(l, grants, beats, done).balance[<<p, a>>] = l.balance[<<p, a>>] + Granted(grants[p], a) - 0
  BY BalanceAfter
<1> QED  BY <1>1, <1>2

-------------------------------------------------------------------------------
(* What the sender holds after an edge.                                          *)

\* A port without a beat has what it had.
LEMMA SendingElsewhere ==
  ASSUME BurstInv, NEW e, NEW ph, EdgeOf(e, ph), NEW p \in Ports, p # ph \/ Quiet(e, ph)
  PROVE  /\ Sending(sender, e).payload[p] = sender.payload[p]
         /\ Sending(sender, e).active[p] = sender.active[p]
<1>1. {r \in e.request : r.port = p /\ Writes(r)} = {} /\ {b \in e.data : b.port = p} = {}
  BY DEF EdgeOf, Requests, Quiet, Continues, Begins, TailBeat, FirstBeat, Starts
<1>2. Sending(sender, e).payload[p] = sender.payload[p]
  BY <1>1 DEF Sending
<1>3. Sending(sender, e).active[p] = [sender.active[p] EXCEPT !.offset = @ + 0]
  BY <1>1, FS_EmptySet DEF Sending
<1>4. [sender.active[p] EXCEPT !.offset = @ + 0] = sender.active[p]
  <2>1. CASE AtRest(p)
    BY <2>1 DEF AtRest, Idle
  <2>2. CASE UnderWay(p)
    BY <2>2 DEF UnderWay
  <2> QED  BY <2>1, <2>2 DEF BurstInv
<1> QED  BY <1>2, <1>3, <1>4

\* A burst that goes on is a beat further, or over.
LEMMA SendingContinues ==
  ASSUME BurstInv, NEW e, NEW ph, EdgeOf(e, ph), Continues(e, ph)
  PROVE  LET b == sender.active[ph]
         IN  /\ Sending(sender, e).payload[ph] = Tail(sender.payload[ph])
             /\ Sending(sender, e).active[ph] =
                  IF TurnsLeft(ph) = 1 THEN Idle ELSE [vc |-> b.vc, pools |-> b.pools, offset |-> b.offset + 1]
<1> DEFINE b == sender.active[ph]
           at == b.offset
           len == Len(b.pools)
           beat == [port |-> ph, vc |-> b.vc, pool |-> b.pools[at + 1], offset |-> at, last |-> at + 1 = len]
<1>1. ph \in Ports /\ Busy(sender, ph) /\ Starts(e) = {} /\ e.data = {beat}
  BY DEF Continues, TailBeat
<1>2. /\ at \in Nat /\ len \in 1..4 /\ TurnsLeft(ph) \in Nat \ {0} /\ at + TurnsLeft(ph) = len
      /\ b = [vc |-> b.vc, pools |-> b.pools, offset |-> at]
  BY <1>1, PartsOfBurst, Zenon
<1>3. {r \in e.request : r.port = ph /\ Writes(r)} = {} /\ {x \in e.data : x.port = ph} = {beat}
  BY <1>1 DEF Starts
<1>4. Cardinality({beat}) = 1
  BY FS_Singleton
<1> HIDE DEF beat
<1>5. Sending(sender, e).payload[ph] = Tail(sender.payload[ph])
  BY <1>1, <1>3 DEF Sending
<1>6. Sending(sender, e).active[ph] = IF \E x \in {beat} : x.last THEN Idle ELSE [b EXCEPT !.offset = @ + 1]
  BY <1>1, <1>3, <1>4 DEF Sending
<1>7. beat.last <=> TurnsLeft(ph) = 1
  <2>1. beat.last = (at + 1 = len)
    BY DEF beat
  <2> HIDE DEF at, len
  <2>2. (at + 1 = len) <=> TurnsLeft(ph) = 1
    BY <1>2
  <2> QED  BY <2>1, <2>2, Zenon
<1>8. [b EXCEPT !.offset = @ + 1] = [vc |-> b.vc, pools |-> b.pools, offset |-> at + 1]
  BY <1>2
<1> QED  BY <1>5, <1>6, <1>7, <1>8, Zenon

\* A burst that begins has all but its first beat to go.
LEMMA SendingBegins ==
  ASSUME NEW e, NEW r, r.port \in Ports, e.request = {r}, Writes(r)
  PROVE  /\ Sending(sender, e).active[r.port] =
              IF Len(r.pools) > 1 THEN [vc |-> r.vc, pools |-> r.pools, offset |-> 1] ELSE Idle
         /\ Sending(sender, e).payload[r.port] = [i \in 1..Len(r.pools) - 1 |-> Word(r, i)]
<1>1. {q \in e.request : q.port = r.port /\ Writes(q)} = {r}
  OBVIOUS
<1> QED  BY <1>1, ChooseOnly DEF Sending

-------------------------------------------------------------------------------
(* The invariant over an edge.                                                   *)

EdgeTaken(e, req_grants, data_grants, req_done, data_done) ==
  /\ link' = link
  /\ credit' = [req |-> LedgerStep(credit.req, req_grants, RequestBeats(e), req_done),
                data |-> LedgerStep(credit.data, data_grants, DataBeats(e), data_done)]
  /\ sender' = Sending(sender, e) /\ monitor' = Observing(monitor, e)

\* Sender and monitor move to the same turn.
LEMMA PhaseAfter ==
  ASSUME BurstInv, NEW e, NEW ph, EdgeOf(e, ph), sender' = Sending(sender, e),
         monitor' = Observing(monitor, e)
  PROVE  /\ sender.phase' = Turn(ph) /\ monitor.phase' = Turn(ph)
         /\ Turn(ph) \in Ports \cup {Unknown} /\ (ph \in Ports => Turn(ph) \in Ports)
<1>1. monitor.phase = sender.phase /\ PhaseSeen(monitor, e) = ph
  BY DEF BurstInv, EdgeOf
<1>2. monitor.phase' = Turn(ph)
  BY <1>1 DEF Observing
<1>3. sender.phase' = Turn(PhaseSeen(monitor, e))
  BY <1>1 DEF Sending, PhaseSeen
<1>4. ph \in Ports => Turn(ph) \in Ports
  BY NextTurn
<1>5. Turn(Unknown) = Unknown
  BY DEF Turn
<1> QED  BY <1>1, <1>2, <1>3, <1>4, <1>5 DEF EdgeOf

\* The ledgers stay sound.
LEMMA LedgersAfter ==
  ASSUME BurstInv, BeatsEnabled(link), NEW e, NEW ph, EdgeOf(e, ph),
         NEW req_grants, GrantsOK(req_grants), NEW data_grants, GrantsOK(data_grants),
         NEW req_done, NEW data_done, EdgeTaken(e, req_grants, data_grants, req_done, data_done)
  PROVE  /\ LedgerOK(credit'.req) /\ LedgerOK(credit'.data)
         /\ credit.data.initialized \subseteq credit'.data.initialized
<1>1. BeatsArePaid(e)
  BY EdgeIsPaid
<1>2. /\ \A b \in RequestBeats(e) : credit.req.balance[<<b.port, AccountOf(b.meta)>>] >= 1
      /\ \A b \in DataBeats(e) : credit.data.balance[<<b.port, AccountOf(b.meta)>>] >= 1
  BY <1>1 DEF BeatsArePaid, MaySend
<1>3. LedgerOK(credit.req) /\ LedgerOK(credit.data)
  BY DEF BurstInv
<1>4. /\ credit'.req = LedgerStep(credit.req, req_grants, RequestBeats(e), req_done)
      /\ credit'.data = LedgerStep(credit.data, data_grants, DataBeats(e), data_done)
  BY DEF EdgeTaken
<1>5. LedgerOK(credit'.req)
  BY <1>2, <1>3, <1>4, LedgerStays
<1>6. LedgerOK(credit'.data) /\ credit.data.initialized \subseteq credit'.data.initialized
  BY <1>2, <1>3, <1>4, LedgerStays
<1> QED  BY <1>5, <1>6

\* A port that is given no data keeps its burst, a turn nearer, or its rest.
LEMMA PortWithoutBeat ==
  ASSUME BurstInv, BeatsEnabled(link), NEW e, NEW ph, EdgeOf(e, ph),
         NEW req_grants, GrantsOK(req_grants), NEW data_grants, GrantsOK(data_grants),
         NEW req_done, NEW data_done, EdgeTaken(e, req_grants, data_grants, req_done, data_done),
         NEW p \in Ports, p # ph \/ Quiet(e, ph)
  PROVE  AtRest(p)' \/ UnderWay(p)'
<1>1. /\ {r \in Starts(e) : r.port = p /\ Len(r.pools) > 1} = {}
      /\ \A b \in DataBeats(e) : b.port # p
  BY DEF EdgeOf, Requests, Quiet, Continues, Begins, TailBeat, FirstBeat, Starts, DataBeats
<1>2. sender'.payload[p] = sender.payload[p]
  BY SendingElsewhere DEF EdgeTaken
<1>3. sender'.active[p] = sender.active[p]
  BY SendingElsewhere DEF EdgeTaken
<1>4. p \notin Due(monitor)
  <2>1. CASE Quiet(e, ph)
    BY <2>1, DueIsTheTurn DEF Quiet, EdgeOf
  <2>2. CASE p # ph
    BY <2>2, DueIsTheTurn DEF EdgeOf
  <2> QED  BY <2>1, <2>2
<1>5. monitor'.pending[p] = IF monitor.pending[p].offsets = << >> THEN monitor.pending[p]
                            ELSE [monitor.pending[p] EXCEPT !.due = @ - 1]
  BY <1>1, <1>4 DEF EdgeTaken, Observing
<1>6. CASE AtRest(p)
  <2>1. sender'.active[p] = Idle
    BY <1>3, <1>6 DEF AtRest
  <2>2. monitor'.pending[p] = NothingPending
    BY <1>5, <1>6 DEF AtRest, NothingPending
  <2> QED  BY <1>2, <1>6, <2>1, <2>2 DEF AtRest
<1>7. CASE UnderWay(p)
  <2>1. Busy(sender, p)
    BY <1>7 DEF UnderWay, Busy
  <2>2. sender.phase \in Ports /\ ph = sender.phase
    BY <1>7 DEF UnderWay, EdgeOf
  <2>3. p # ph
    BY <2>1, <2>2 DEF Quiet
  <2>4. sender'.active[p] = sender.active[p] /\ TurnsLeft(p)' = TurnsLeft(p)
    BY <1>3 DEF TurnsLeft
  <2>5. sender'.phase = Turn(ph) /\ Turn(ph) \in Ports
    BY <2>2, PhaseAfter DEF EdgeTaken
  <2>6. Away(p, sender.phase) - 1 = Away(p, Turn(ph))
    BY <2>2, <2>3, TurnsComeNearer
  <2>7. monitor'.pending[p] = [monitor.pending[p] EXCEPT !.due = Away(p, Turn(ph))]
    <3>1. monitor.pending[p].offsets # << >>
      BY <2>1, RestOfBurst, Zenon
    <3>2. monitor.pending[p].due = Away(p, sender.phase)
      BY <1>7 DEF UnderWay
    <3> QED  BY <1>5, <2>6, <3>1, <3>2
  <2>8. p \in credit'.data.initialized
    BY <1>7, LedgersAfter DEF UnderWay
  <2>9. ASSUME NEW pool \in BOOLEAN
        PROVE  CountOf(sender.active[p].pools, sender.active[p].offset, pool)
                 <= credit'.data.balance[<<p, Accounted(pool, sender.active[p].vc)>>]
    <3> DEFINE b == sender.active[p]
               a == Accounted(pool, b.vc)
    <3>1. b.vc \in 0..(VCs - 1) /\ b.pools \in Pools /\ b.offset \in Nat
      BY <1>7 DEF UnderWay
    <3>2. CountOf(b.pools, b.offset, pool) <= credit.data.balance[<<p, a>>]
      BY <1>7 DEF UnderWay
    <3>3. a \in 0..Pool
      BY <3>1, CreditAssumption DEF Accounted, Pool
    <3>4. credit.data.balance[<<p, a>>] <= credit'.data.balance[<<p, a>>]
      <4>1. LedgerOK(credit.data)
        BY DEF BurstInv
      <4>2. credit'.data = LedgerStep(credit.data, data_grants, DataBeats(e), data_done)
        BY DEF EdgeTaken
      <4> HIDE DEF a
      <4> QED  BY <1>1, <3>3, <4>1, <4>2, OthersStayPaid
    <3>5. LedgerOK(credit.data) /\ LedgerOK(credit'.data)
      BY LedgersAfter DEF BurstInv
    <3>6. credit.data.balance[<<p, a>>] \in Nat /\ credit'.data.balance[<<p, a>>] \in Nat
      BY <3>3, <3>5 DEF LedgerOK, Accounts
    <3>7. CountOf(b.pools, b.offset, pool) \in Nat
      <4>1. b.offset < Len(b.pools)
        <5> DEFINE len == Len(b.pools)
        <5>1. len \in 1..4 /\ TurnsLeft(p) \in Nat \ {0} /\ b.offset + TurnsLeft(p) = len
          BY <2>1, PartsOfBurst, Zenon
        <5> HIDE DEF len
        <5>2. b.offset < len
          BY <3>1, <5>1
        <5> QED  BY <5>2 DEF len
      <4> QED  BY <3>1, <4>1, CountStep
    <3> HIDE DEF a, b
    <3> QED  BY <3>2, <3>4, <3>6, <3>7 DEF a, b
  <2>10. UnderWay(p)'
    <3>1. BeatsEnabled(link') /\ sender'.phase \in Ports /\ p \in credit'.data.initialized
      BY <2>5, <2>8 DEF EdgeTaken
    <3>2. /\ sender.active[p] \in [vc : 0..(VCs - 1), pools : Pools, offset : Nat \ {0}] /\ TurnsLeft(p) >= 1
          /\ sender.payload[p] = [i \in 1..TurnsLeft(p) |-> <<p, sender.active[p].offset + i - 1>>]
          /\ monitor.pending[p] = [vc |-> sender.active[p].vc,
                                   offsets |-> [i \in 1..TurnsLeft(p) |-> sender.active[p].offset + i - 1],
                                   due |-> Away(p, sender.phase)]
      BY <1>7 DEF UnderWay
    <3>3. monitor'.pending[p] = [vc |-> sender.active[p].vc,
                                 offsets |-> [i \in 1..TurnsLeft(p) |-> sender.active[p].offset + i - 1],
                                 due |-> Away(p, sender'.phase)]
      <4> DEFINE seen == monitor.pending[p]
                 offsets == [i \in 1..TurnsLeft(p) |-> sender.active[p].offset + i - 1]
      <4>1. seen = [vc |-> sender.active[p].vc, offsets |-> offsets, due |-> Away(p, sender.phase)]
        BY <3>2
      <4>2. monitor'.pending[p] = [seen EXCEPT !.due = Away(p, sender'.phase)]
        BY <2>5, <2>7
      <4> HIDE DEF offsets, seen
      <4> QED  BY <4>1, <4>2 DEF offsets
    <3> QED  BY <1>2, <2>4, <2>9, <3>1, <3>2, <3>3, Zenon DEF UnderWay
  <2> QED  BY <2>10
<1> QED  BY <1>6, <1>7 DEF BurstInv

\* The port whose turn it is goes on with its burst, or ends it.
LEMMA PortContinues ==
  ASSUME BurstInv, BeatsEnabled(link), NEW e, NEW ph, EdgeOf(e, ph),
         NEW req_grants, GrantsOK(req_grants), NEW data_grants, GrantsOK(data_grants),
         NEW req_done, NEW data_done, EdgeTaken(e, req_grants, data_grants, req_done, data_done),
         Continues(e, ph)
  PROVE  AtRest(ph)' \/ UnderWay(ph)'
<1> DEFINE b == sender.active[ph]
           at == b.offset
           len == Len(b.pools)
           left == TurnsLeft(ph)
           words == sender.payload[ph]
           seen == monitor.pending[ph]
           offsets == seen.offsets
           beat == [port |-> ph, vc |-> b.vc, pool |-> b.pools[at + 1], offset |-> at, last |-> at + 1 = len]
<1>1. ph \in Ports /\ Busy(sender, ph) /\ Starts(e) = {} /\ e.data = {beat}
  BY DEF Continues, TailBeat
<1>2. /\ b.vc \in 0..(VCs - 1) /\ b.pools \in Pools /\ at \in Nat /\ at >= 1 /\ len \in 1..4
      /\ left \in Nat \ {0} /\ at + left = len /\ b.pools[at + 1] \in BOOLEAN
      /\ b = [vc |-> b.vc, pools |-> b.pools, offset |-> at] /\ sender.phase \in Ports
      /\ ph \in credit.data.initialized
  BY <1>1, PartsOfBurst, Zenon
<1>3. /\ Tail(words) = [i \in 1..left - 1 |-> <<ph, at + i>>]
      /\ Tail(offsets) = [i \in 1..left - 1 |-> at + i]
      /\ Len(offsets) = left
      /\ seen = [vc |-> b.vc, offsets |-> offsets, due |-> Away(ph, sender.phase)]
  BY <1>1, RestOfBurst, Zenon
<1>4. ph = sender.phase
  BY <1>2 DEF EdgeOf
<1>5. ph \in Due(monitor)
  BY <1>1, <1>4, DueIsTheTurn
<1>6. {r \in Starts(e) : r.port = ph /\ Len(r.pools) > 1} = {}
  BY <1>1 DEF Starts
<1> HIDE DEF beat
<1>8. sender'.payload[ph] = Tail(words)
  BY SendingContinues DEF EdgeTaken
<1>9. sender'.active[ph] = IF left = 1 THEN Idle ELSE [vc |-> b.vc, pools |-> b.pools, offset |-> at + 1]
  BY SendingContinues, Zenon DEF EdgeTaken
<1>10. monitor'.pending[ph] = IF Len(offsets) = 1 THEN NothingPending
                              ELSE [seen EXCEPT !.offsets = Tail(@), !.due = NumPorts - 1]
  BY <1>1, <1>5, <1>6 DEF EdgeTaken, Observing
<1>12. CASE left = 1
  <2>1. sender'.active[ph] = Idle /\ monitor'.pending[ph] = NothingPending
    BY <1>3, <1>9, <1>10, <1>12
  <2>2. sender'.payload[ph] = << >>
    BY <1>3, <1>8, <1>12
  <2> QED  BY <2>1, <2>2 DEF AtRest
<1>13. CASE left # 1
  <2>1. sender'.active[ph] = [vc |-> b.vc, pools |-> b.pools, offset |-> at + 1]
    BY <1>9, <1>13
  <2>2. TurnsLeft(ph)' = left - 1
    <3>1. TurnsLeft(ph)' = Len(b.pools) - (at + 1)
      BY <2>1 DEF TurnsLeft
    <3> HIDE DEF len, at, left
    <3> QED  BY <1>2, <3>1 DEF len
  <2>3. sender'.payload[ph] = [i \in 1..left - 1 |-> <<ph, (at + 1) + i - 1>>]
    <3> HIDE DEF at, left, words
    <3>1. \A i \in 1..left - 1 : at + i = (at + 1) + i - 1
      BY <1>2
    <3> QED  BY <1>3, <1>8, <3>1
  <2>4. monitor'.pending[ph] = [vc |-> b.vc, offsets |-> [i \in 1..left - 1 |-> (at + 1) + i - 1],
                               due |-> NumPorts - 1]
    <3>1. monitor'.pending[ph] = [seen EXCEPT !.offsets = Tail(@), !.due = NumPorts - 1]
      BY <1>3, <1>10, <1>13
    <3>2. Tail(offsets) = [i \in 1..left - 1 |-> (at + 1) + i - 1]
      <4> HIDE DEF at, left, offsets
      <4>1. \A i \in 1..left - 1 : at + i = (at + 1) + i - 1
        BY <1>2
      <4> QED  BY <1>3, <4>1
    <3>3. monitor'.pending[ph] = [vc |-> b.vc, offsets |-> Tail(offsets), due |-> NumPorts - 1]
      <4>1. seen = [vc |-> b.vc, offsets |-> offsets, due |-> Away(ph, sender.phase)]
        BY <1>3, Zenon
      <4>2. seen.offsets = offsets
        OBVIOUS
      <4> HIDE DEF offsets, seen, b
      <4> QED  BY <3>1, <4>1, <4>2
    <3> QED  BY <3>2, <3>3, Zenon
  <2>5. sender'.phase \in Ports /\ Away(ph, sender'.phase) = NumPorts - 1
    BY <1>1, <1>4, PhaseAfter, TurnsComeNearer DEF EdgeTaken
  <2>6. ph \in credit'.data.initialized /\ BeatsEnabled(link')
    BY <1>2, LedgersAfter DEF EdgeTaken
  <2>7. \A pool \in BOOLEAN : CountOf(b.pools, at + 1, pool) <= credit'.data.balance[<<ph, Accounted(pool, b.vc)>>]
    <3>1. DataBeats(e) = {[port |-> ph, meta |-> [vc |-> b.vc, pool |-> b.pools[at + 1]]]}
      BY <1>1 DEF DataBeats, beat
    <3>2. \A pool \in BOOLEAN : CountOf(b.pools, at, pool) <= credit.data.balance[<<ph, Accounted(pool, b.vc)>>]
      BY <1>1, BusyMeansUnderWay DEF UnderWay
    <3>3. at < Len(b.pools)
      <4> HIDE DEF at, len, left
      <4>1. at < len
        BY <1>2
      <4> QED  BY <4>1 DEF len
    <3>4. LedgerOK(credit.data) /\ credit'.data = LedgerStep(credit.data, data_grants, DataBeats(e), data_done)
      BY DEF BurstInv, EdgeTaken
    <3> HIDE DEF b, at
    <3> QED  BY <1>1, <1>2, <3>1, <3>2, <3>3, <3>4, TheRestStaysPaid DEF at
  <2>8. left - 1 >= 1 /\ at + 1 \in Nat \ {0}
    BY <1>2, <1>13
  <2> DEFINE next == sender'.active[ph]
  <2>9. next.vc = b.vc /\ next.pools = b.pools /\ next.offset = at + 1
        /\ next \in [vc : 0..(VCs - 1), pools : Pools, offset : Nat \ {0}]
    BY <1>2, <2>1, <2>8
  <2>10. TurnsLeft(ph)' >= 1
    BY <2>2, <2>8
  <2> HIDE DEF at, left, b
  <2>11. UnderWay(ph)'
    BY <2>2, <2>3, <2>4, <2>5, <2>6, <2>7, <2>9, <2>10, Zenon DEF UnderWay
  <2> QED  BY <2>11
<1> QED  BY <1>12, <1>13

\* The port whose turn it is starts a burst, with credit for the rest of it.
LEMMA PortBegins ==
  ASSUME BurstInv, BeatsEnabled(link), NEW e, NEW ph, EdgeOf(e, ph),
         NEW req_grants, GrantsOK(req_grants), NEW data_grants, GrantsOK(data_grants),
         NEW req_done, NEW data_done, EdgeTaken(e, req_grants, data_grants, req_done, data_done),
         Begins(e, ph)
  PROVE  AtRest(ph)' \/ UnderWay(ph)'
<1>1. PICK r \in Candidates :
        /\ e.request = {r} /\ Writes(r) /\ r.port = ph /\ e.data = {FirstBeat(r)}
        /\ \A pool \in BOOLEAN :
             CountOf(r.pools, 0, pool) <= credit.data.balance[<<ph, Accounted(pool, r.vc)>>]
  BY DEF Begins
<1> DEFINE len == Len(r.pools)
<1>2. ph \in Ports /\ ~Busy(sender, ph) /\ ph \in credit.data.initialized
  BY DEF Begins
<1>3. /\ r.vc \in 0..(VCs - 1) /\ r.pools \in Pools
  BY <1>1 DEF Candidates, Writes
<1>4. len \in 1..MaxBeats /\ MaxBeats \in 1..4
  BY <1>3, PoolsAre
<1>5. Starts(e) = {r}
  BY <1>1 DEF Starts
<1>6. sender'.active[ph] = IF len > 1 THEN [vc |-> r.vc, pools |-> r.pools, offset |-> 1] ELSE Idle
  BY <1>1, <1>2, SendingBegins DEF EdgeTaken
<1>7. sender'.payload[ph] = [i \in 1..len - 1 |-> <<ph, i>>]
  <2>1. sender'.payload[ph] = [i \in 1..len - 1 |-> Word(r, i)]
    <3>1. Sending(sender, e).payload[r.port] = [i \in 1..len - 1 |-> Word(r, i)]
      BY <1>1, <1>2, SendingBegins
    <3> HIDE DEF len
    <3> QED  BY <1>1, <3>1, Zenon DEF EdgeTaken
  <2>2. \A i : Word(r, i) = <<ph, i>>
    BY <1>1 DEF Word
  <2> QED  BY <2>1, <2>2
<1>8. monitor.pending[ph] = NothingPending /\ ph \notin Due(monitor)
  BY <1>2, BusyMeansUnderWay DEF AtRest, Due, NothingPending
<1>9. CASE len = 1
  <2>1. sender'.active[ph] = Idle /\ sender'.payload[ph] = << >>
    BY <1>6, <1>7, <1>9
  <2>2. {q \in Starts(e) : q.port = ph /\ Len(q.pools) > 1} = {}
    <3>1. ~(len > 1)
      <4> HIDE DEF len
      <4> QED  BY <1>9
    <3> QED  BY <1>5, <3>1
  <2>3. monitor'.pending[ph] = NothingPending
    <3>1. monitor.pending[ph].offsets = << >>
      BY <1>8 DEF NothingPending
    <3>2. monitor'.pending[ph] = IF monitor.pending[ph].offsets = << >> THEN monitor.pending[ph]
                                 ELSE [monitor.pending[ph] EXCEPT !.due = @ - 1]
      BY <1>2, <1>8, <2>2 DEF EdgeTaken, Observing
    <3> QED  BY <1>8, <3>1, <3>2
  <2> QED  BY <2>1, <2>3 DEF AtRest
<1>10. CASE len > 1
  <2>1. sender'.active[ph] = [vc |-> r.vc, pools |-> r.pools, offset |-> 1]
    BY <1>6, <1>10
  <2>2. TurnsLeft(ph)' = len - 1
    BY <2>1 DEF TurnsLeft
  <2>3. {q \in Starts(e) : q.port = ph /\ Len(q.pools) > 1} = {r}
    BY <1>1, <1>5, <1>10
  <2>4. monitor'.pending[ph] = [vc |-> r.vc, offsets |-> [i \in 1..len - 1 |-> i], due |-> NumPorts - 1]
    BY <1>2, <2>3, ChooseOnly DEF EdgeTaken, Observing
  <2>5. sender'.phase \in Ports /\ Away(ph, sender'.phase) = NumPorts - 1
    BY <1>2, PhaseAfter, TurnsComeNearer DEF EdgeTaken
  <2>6. ph \in credit'.data.initialized /\ BeatsEnabled(link')
    BY <1>2, LedgersAfter DEF EdgeTaken
  <2>7. \A pool \in BOOLEAN : CountOf(r.pools, 0 + 1, pool) <= credit'.data.balance[<<ph, Accounted(pool, r.vc)>>]
    <3>1. DataBeats(e) = {[port |-> ph, meta |-> [vc |-> r.vc, pool |-> r.pools[0 + 1]]]}
      BY <1>1 DEF DataBeats, FirstBeat
    <3>2. 0 \in Nat /\ 0 < Len(r.pools)
      BY <1>4
    <3>3. LedgerOK(credit.data) /\ credit'.data = LedgerStep(credit.data, data_grants, DataBeats(e), data_done)
      BY DEF BurstInv, EdgeTaken
    <3> QED  BY <1>1, <1>2, <1>3, <3>1, <3>2, <3>3, TheRestStaysPaid
  <2>8. /\ sender'.payload[ph] = [i \in 1..len - 1 |-> <<ph, 1 + i - 1>>]
        /\ [i \in 1..len - 1 |-> i] = [i \in 1..len - 1 |-> 1 + i - 1]
    <3> HIDE DEF len
    <3>1. \A i \in 1..len - 1 : 1 + i - 1 = i
      BY <1>4
    <3> QED  BY <1>7, <3>1
  <2>9. len - 1 >= 1
    BY <1>4, <1>10
  <2> DEFINE next == sender'.active[ph]
  <2>10. next.vc = r.vc /\ next.pools = r.pools /\ next.offset = 1 /\ 0 + 1 = 1
         /\ next \in [vc : 0..(VCs - 1), pools : Pools, offset : Nat \ {0}]
    BY <1>3, <2>1
  <2>11. UnderWay(ph)'
    <3> HIDE DEF len
    <3> QED  BY <2>2, <2>4, <2>5, <2>6, <2>7, <2>8, <2>9, <2>10, Zenon DEF UnderWay
  <2> QED  BY <2>11
<1> HIDE DEF len
<1> QED  BY <1>4, <1>9, <1>10

\* An edge keeps the invariant.
LEMMA EdgeKeepsBurstInv ==
  ASSUME BurstInv, NEW wanted \in AtMostOneOf(Acceptable),
         NEW req_grants \in GrantsTo(credit, "req"), NEW data_grants \in GrantsTo(credit, "data"),
         NEW req_done, NEW data_done, BurstEdge(wanted, req_grants, data_grants, req_done, data_done)
  PROVE  BurstInv'
<1> DEFINE e == Events(sender, credit, link, wanted)
<1>1. PICK ph \in Ports \cup {Unknown} : EdgeOf(e, ph)
  BY EveryEdge
<1>2. BeatsEnabled(link) /\ EdgeTaken(e, req_grants, data_grants, req_done, data_done)
  BY DEF BurstEdge, EdgeTaken
<1>3. GrantsOK(req_grants) /\ GrantsOK(data_grants)
  BY GrantsAreCounts
<1> HIDE DEF e
<1>4. link' \in Levels /\ LedgerOK(credit'.req) /\ LedgerOK(credit'.data)
  BY <1>1, <1>2, <1>3, LedgersAfter DEF EdgeTaken, BurstInv
<1>5. sender'.phase \in Ports \cup {Unknown} /\ monitor'.phase = sender'.phase
  BY <1>1, <1>2, PhaseAfter DEF EdgeTaken
<1>6. ASSUME NEW p \in Ports
      PROVE  AtRest(p)' \/ UnderWay(p)'
  <2>1. CASE p # ph \/ Quiet(e, ph)
    BY <1>1, <1>2, <1>3, <2>1, PortWithoutBeat
  <2>2. CASE p = ph /\ Continues(e, ph)
    BY <1>1, <1>2, <1>3, <2>2, PortContinues
  <2>3. CASE p = ph /\ Begins(e, ph)
    BY <1>1, <1>2, <1>3, <2>3, PortBegins
  <2> QED  BY <1>1, <2>1, <2>2, <2>3 DEF EdgeOf
<1> QED  BY <1>4, <1>5, <1>6 DEF BurstInv

\* After reset nothing is under way.
LEMMA ResetMeetsBurstInv ==
  ASSUME link \in Levels, credit = [req |-> LedgerReset, data |-> LedgerReset],
         sender = SenderReset, monitor = MonitorReset
  PROVE  BurstInv
BY DEF BurstInv, LedgerOK, LedgerReset, SenderReset, MonitorReset, AtRest, Accounts

\* Every step of the sender, its credit and the monitor keeps the invariant.
LEMMA NextKeepsBurstInv == BurstInv /\ [BurstNext]_burstVars => BurstInv'
<1> SUFFICES ASSUME BurstInv, [BurstNext]_burstVars PROVE BurstInv'
  OBVIOUS
<1>1. CASE BurstReset
  <2>1. Disconnected \in Levels
    BY DEF Disconnected, Levels
  <2>2. link' \in Levels /\ credit' = [req |-> LedgerReset, data |-> LedgerReset]
        /\ sender' = SenderReset /\ monitor' = MonitorReset
    BY <1>1, <2>1 DEF BurstReset
  <2> QED  BY <2>2 DEF BurstInv, LedgerOK, LedgerReset, SenderReset, MonitorReset, AtRest, Accounts
<1>2. CASE Connecting
  <2>1. link' \in Levels
    BY <1>2 DEF Connecting, Handshake, Levels, BurstInv, OrigConnected
  <2>2. \A p \in Ports : AtRest(p)
    BY <1>2 DEF BurstInv, Connecting, UnderWay
  <2>3. credit' = credit /\ sender' = sender /\ monitor' = monitor
    BY <1>2 DEF Connecting
  <2> QED  BY <2>1, <2>2, <2>3 DEF BurstInv, AtRest
<1>3. CASE \E wanted \in AtMostOneOf(Acceptable) :
           \E req_grants \in GrantsTo(credit, "req"), data_grants \in GrantsTo(credit, "data") :
           \E req_done \in DoneOf(credit, "req"), data_done \in DoneOf(credit, "data") :
             BurstEdge(wanted, req_grants, data_grants, req_done, data_done)
  BY <1>3, EdgeKeepsBurstInv
<1>4. CASE UNCHANGED burstVars
  BY <1>4 DEF burstVars, BurstInv, AtRest, UnderWay, TurnsLeft
<1> QED  BY <1>1, <1>2, <1>3, <1>4 DEF BurstNext

\* In such a state every edge the sender may take is as promised.
LEMMA BurstInvKeepsTurns == BurstInv => BurstsKeepTheirTurns
<1> SUFFICES ASSUME BurstInv, BeatsEnabled(link), NEW wanted \in AtMostOneOf(Acceptable)
             PROVE  LET e == Events(sender, credit, link, wanted)
                    IN  BeatsArePaid(e) /\ PayloadIsThere(e) /\ ~MonitorObjects(monitor, e)
  BY DEF BurstsKeepTheirTurns
<1>1. PICK ph \in Ports \cup {Unknown} : EdgeOf(Events(sender, credit, link, wanted), ph)
  BY EveryEdge
<1> QED  BY <1>1, EdgeIsPaid, EdgeHasItsPayload, EdgeIsExpected

\* The invariant holds after power-up.
LEMMA InitBurstInv == BurstInit => BurstInv
<1> SUFFICES ASSUME BurstInit PROVE BurstInv
  OBVIOUS
<1>1. link \in Levels
  BY DEF BurstInit, Disconnected, Levels
<1> QED  BY <1>1, ResetMeetsBurstInv DEF BurstInit

\* Whatever a sender of bursts is asked to do and granted, each burst takes all of
\* its turns, paid for, with its own data, as the monitor on the wires expects.
THEOREM BurstsAreKept == BurstSpec => []BurstsKeepTheirTurns
<1>1. BurstInit => BurstInv
  BY InitBurstInv
<1>2. BurstInv /\ [BurstNext]_burstVars => BurstInv'
  BY NextKeepsBurstInv
<1>3. BurstInv => BurstsKeepTheirTurns
  BY BurstInvKeepsTurns
<1> QED  BY <1>1, <1>2, <1>3, PTL DEF BurstSpec

-------------------------------------------------------------------------------
(* The circuit's way of comparing what is wanted with what is there.             *)

Lamp(b) == IF b THEN 1 ELSE 0

\* How many of the four lanes are set.
Lit(bits) == Lamp(bits[0]) + Lamp(bits[1]) + Lamp(bits[2]) + Lamp(bits[3])

\* The sorted lanes compare the number of lanes that are up with a constant.
LEMMA ThresholdsCount ==
  ASSUME NEW bits \in [Lanes -> BOOLEAN], NEW k \in Lanes
  PROVE  Thresholds(bits)[k] <=> Lit(bits) >= k + 1
<1> DEFINE b0 == bits[0]
           b1 == bits[1]
           b2 == bits[2]
           b3 == bits[3]
<1>1. b0 \in BOOLEAN /\ b1 \in BOOLEAN /\ b2 \in BOOLEAN /\ b3 \in BOOLEAN
  BY DEF Lanes
<1>2. k \in {0, 1, 2, 3}
  BY DEF Lanes
<1>3. CASE k = 0
  BY <1>1, <1>3 DEF Thresholds, Lit, Lamp, Lanes
<1>4. CASE k = 1
  BY <1>1, <1>4 DEF Thresholds, Lit, Lamp, Lanes
<1>5. CASE k = 2
  BY <1>1, <1>5 DEF Thresholds, Lit, Lamp, Lanes
<1>6. CASE k = 3
  BY <1>1, <1>6 DEF Thresholds, Lit, Lamp, Lanes
<1> QED  BY <1>2, <1>3, <1>4, <1>5, <1>6

Distinct == /\ 0 \in Lanes /\ 1 \in Lanes /\ 2 \in Lanes /\ 3 \in Lanes
            /\ 0 # 1 /\ 0 # 2 /\ 0 # 3 /\ 1 # 2 /\ 1 # 3 /\ 2 # 3
            /\ 1 # 0 /\ 2 # 0 /\ 3 # 0 /\ 2 # 1 /\ 3 # 1 /\ 3 # 2

\* The four lanes are four.
LEMMA LanesAreDistinct == Distinct
BY DEF Distinct, Lanes

\* The bits of a balance tell whether it covers one to four beats.
LEMMA CapabilitiesCount ==
  ASSUME NEW balance \in Nat, NEW k \in Lanes
  PROVE  Capabilities(balance)[k] <=> balance >= k + 1
<1>1. /\ balance \div 2 > 0 <=> balance >= 2
      /\ balance \div 4 > 0 <=> balance >= 4
      /\ balance < 4 => (balance % 4 = 3 <=> balance = 3)
  OBVIOUS
<1>2. Distinct
  BY LanesAreDistinct
<1>3. Capabilities(balance)[0] = (balance > 0)
  BY <1>2, Zenon DEF Capabilities, Distinct
<1>4. Capabilities(balance)[1] = (balance \div 2 > 0)
  BY <1>2, Zenon DEF Capabilities, Distinct
<1>5. Capabilities(balance)[2] = (balance \div 4 > 0 \/ balance % 4 = 3)
  BY <1>2, Zenon DEF Capabilities, Distinct
<1>6. Capabilities(balance)[3] = (balance \div 4 > 0)
  BY <1>2, Zenon DEF Capabilities, Distinct
<1>7. /\ balance > 0 <=> balance >= 0 + 1
      /\ balance \div 2 > 0 <=> balance >= 1 + 1
      /\ balance \div 4 > 0 \/ balance % 4 = 3 <=> balance >= 2 + 1
      /\ balance \div 4 > 0 <=> balance >= 3 + 1
  BY <1>1
<1>8. k = 0 \/ k = 1 \/ k = 2 \/ k = 3
  BY DEF Lanes
<1> QED  BY <1>3, <1>4, <1>5, <1>6, <1>7, <1>8, Zenon

\* A lane of a burst is set if it is a beat of the kind asked for.
LEMMA MaskedLanes ==
  ASSUME NEW r \in Candidates, Writes(r), NEW valid \in BOOLEAN, NEW junk \in BOOLEAN,
         NEW value \in BOOLEAN, NEW k \in Lanes
  PROVE  /\ Masked(Wires(r, valid, junk), value)[k] \in BOOLEAN
         /\ Masked(Wires(r, valid, junk), value)[k] <=> k < Len(r.pools) /\ r.pools[k + 1] = value
<1> DEFINE w == Wires(r, valid, junk)
           len == Len(r.pools)
           num == len - 1
<1>1. r.pools \in Pools
  BY DEF Candidates, Writes
<1>2. len \in 1..MaxBeats /\ MaxBeats \in 1..4
  BY <1>1, PoolsAre
<1>3. Mask(num)[k] \in BOOLEAN /\ (Mask(num)[k] <=> k < len)
  <2>1. k \in {0, 1, 2, 3}
    BY DEF Lanes
  <2> HIDE DEF len
  <2>2. num \in {0, 1, 2, 3} /\ (k < len <=> k <= num)
    BY <1>2, <2>1
  <2> HIDE DEF num
  <2>3. /\ Mask(num)[0] = TRUE /\ Mask(num)[1] = (num # 0)
        /\ Mask(num)[2] = (num >= 2) /\ Mask(num)[3] = (num = 3)
    BY LanesAreDistinct, Zenon DEF Mask, Distinct
  <2>4. num # 0 <=> 1 <= num
    BY <2>2
  <2>5. num >= 2 <=> 2 <= num
    BY <2>2
  <2>6. num = 3 <=> 3 <= num
    BY <2>2
  <2>7. 0 <= num
    BY <2>2
  <2>8. k = 0 \/ k = 1 \/ k = 2 \/ k = 3
    BY <2>1
  <2>9. (num # 0) \in BOOLEAN /\ (num >= 2) \in BOOLEAN /\ (num = 3) \in BOOLEAN /\ TRUE \in BOOLEAN
    BY <2>2
  <2> QED  BY <2>2, <2>3, <2>4, <2>5, <2>6, <2>7, <2>8, <2>9, Zenon
<1>4. w.num = num /\ w.pools[k] = IF k < len THEN r.pools[k + 1] ELSE junk
  BY DEF Wires, LaneBits
<1>5. Masked(w, value)[k] = (w.pools[k] = value /\ Mask(w.num)[k])
  BY DEF Masked
<1> HIDE DEF w, len, num
<1> QED  BY <1>3, <1>4, <1>5, Zenon DEF w, len

\* The lanes set are the beats counted.
LEMMA LanesCount ==
  ASSUME NEW pools \in Pools, NEW value \in BOOLEAN, NEW bits \in [Lanes -> BOOLEAN],
         \A k \in Lanes : bits[k] <=> k < Len(pools) /\ pools[k + 1] = value
  PROVE  Lit(bits) = CountOf(pools, 0, value)
<1> DEFINE len == Len(pools)
           Ones(n) == CountOf(pools, n, value)
<1>1. len \in 1..4
  <2>1. len \in 1..MaxBeats /\ MaxBeats \in 1..4
    BY PoolsAre
  <2> HIDE DEF len
  <2> QED  BY <2>1
<1>2. ASSUME NEW n \in Lanes, n < len
      PROVE  Ones(n) \in Nat /\ Ones(n + 1) \in Nat /\ Ones(n) = Ones(n + 1) + Lamp(bits[n])
  <2>1. n \in Nat
    BY DEF Lanes
  <2>2. /\ Ones(n) \in Nat /\ Ones(n + 1) \in Nat
        /\ pools[n + 1] = value => Ones(n) = Ones(n + 1) + 1
        /\ pools[n + 1] # value => Ones(n) = Ones(n + 1)
    BY <1>2, <2>1, CountStep
  <2>3. bits[n] <=> pools[n + 1] = value
    BY <1>2
  <2> HIDE DEF Ones
  <2>4. CASE bits[n]
    BY <2>2, <2>3, <2>4 DEF Lamp
  <2>5. CASE ~bits[n]
    BY <2>2, <2>3, <2>5 DEF Lamp
  <2> QED  BY <2>4, <2>5
<1>3. Ones(len) = 0
  BY CountEnd
<1>4. \A n \in Lanes : n >= len => Lamp(bits[n]) = 0
  <2>1. SUFFICES ASSUME NEW n \in Lanes, n >= len PROVE ~bits[n]
    BY DEF Lamp
  <2>2. ~(n < len)
    <3> HIDE DEF len
    <3> QED  BY <1>1, <2>1 DEF Lanes
  <2> QED  BY <2>2
<1> DEFINE o(n) == Lamp(bits[n])
<1>5. \A n \in Lanes : o(n) \in 0..1
  BY DEF Lamp
<1>6. /\ 0 < len => Ones(0) = Ones(1) + o(0) /\ Ones(0) \in Nat /\ Ones(1) \in Nat
      /\ 1 < len => Ones(1) = Ones(2) + o(1) /\ Ones(1) \in Nat /\ Ones(2) \in Nat
      /\ 2 < len => Ones(2) = Ones(3) + o(2) /\ Ones(2) \in Nat /\ Ones(3) \in Nat
      /\ 3 < len => Ones(3) = Ones(4) + o(3) /\ Ones(3) \in Nat /\ Ones(4) \in Nat
  <2>1. 0 + 1 = 1 /\ 1 + 1 = 2 /\ 2 + 1 = 3 /\ 3 + 1 = 4
    OBVIOUS
  <2> HIDE DEF Ones, len, o
  <2> QED  BY <1>2, <2>1, LanesAreDistinct DEF Distinct, o
<1>7. Lit(bits) = o(0) + o(1) + o(2) + o(3)
  BY DEF Lit
<1>8. \A n \in Lanes : n >= len => o(n) = 0
  BY <1>4
<1> HIDE DEF Ones, len, o
<1>9. ASSUME len = 1 PROVE Lit(bits) = Ones(0)
  BY <1>3, <1>5, <1>6, <1>7, <1>8, <1>9 DEF Lanes
<1>10. ASSUME len = 2 PROVE Lit(bits) = Ones(0)
  BY <1>3, <1>5, <1>6, <1>7, <1>8, <1>10 DEF Lanes
<1>11. ASSUME len = 3 PROVE Lit(bits) = Ones(0)
  BY <1>3, <1>5, <1>6, <1>7, <1>8, <1>11 DEF Lanes
<1>12. ASSUME len = 4 PROVE Lit(bits) = Ones(0)
  BY <1>3, <1>5, <1>6, <1>7, <1>8, <1>12 DEF Lanes
<1> QED  BY <1>1, <1>9, <1>10, <1>11, <1>12 DEF Ones

\* So the circuit finds the data ready when there is credit for all of its beats.
LEMMA DataReadyMeansPaid ==
  ASSUME NEW l, LedgerOK(l.data), NEW r \in Candidates, Writes(r), NEW valid \in BOOLEAN,
         NEW junk \in BOOLEAN
  PROVE  DataReady(l, Wires(r, valid, junk), r.port) <=>
           \A pool \in BOOLEAN :
             l.data.balance[<<r.port, Accounted(pool, r.vc)>>] >= CountOf(r.pools, 0, pool)
<1> DEFINE w == Wires(r, valid, junk)
<1>1. r.pools \in Pools /\ r.port \in Ports /\ r.vc \in 0..(VCs - 1) /\ w.vc = r.vc
  BY DEF Candidates, Writes, Wires
<1>2. ASSUME NEW pool \in BOOLEAN
      PROVE  (\A k \in Lanes : Thresholds(Masked(w, pool))[k]
                 => Capabilities(l.data.balance[<<r.port, Accounted(pool, w.vc)>>])[k])
               <=> l.data.balance[<<r.port, Accounted(pool, r.vc)>>] >= CountOf(r.pools, 0, pool)
  <2> DEFINE bits == Masked(w, pool)
             balance == l.data.balance[<<r.port, Accounted(pool, r.vc)>>]
             count == CountOf(r.pools, 0, pool)
  <2>1. \A k \in Lanes : bits[k] \in BOOLEAN /\ (bits[k] <=> k < Len(r.pools) /\ r.pools[k + 1] = pool)
    BY MaskedLanes
  <2>2. bits = [k \in Lanes |-> bits[k]]
    BY DEF Masked
  <2>3. balance \in Nat
    <3>1. <<r.port, Accounted(pool, r.vc)>> \in Accounts
      BY <1>1, CreditAssumption DEF Accounts, Accounted, Pool
    <3> QED  BY <3>1 DEF LedgerOK
  <2> HIDE DEF bits, balance, w
  <2>4. bits \in [Lanes -> BOOLEAN]
    BY <2>1, <2>2
  <2>5. Lit(bits) = count
    BY <1>1, <2>1, <2>4, LanesCount
  <2>6. Lit(bits) \in 0..4
    BY DEF Lit, Lamp
  <2>7. \A k \in Lanes : (Thresholds(bits)[k] => Capabilities(balance)[k]) <=> (count >= k + 1 => balance >= k + 1)
    BY <2>3, <2>4, <2>5, ThresholdsCount, CapabilitiesCount
  <2>8. (\A k \in Lanes : count >= k + 1 => balance >= k + 1) <=> balance >= count
    <3>1. count \in 0..4
      BY <2>5, <2>6
    <3> HIDE DEF count
    <3> QED  BY <2>3, <3>1 DEF Lanes
  <2> HIDE DEF count
  <2> QED  BY <1>1, <2>7, <2>8, Zenon DEF bits, balance, count
<1> HIDE DEF w
<1> QED  BY <1>1, <1>2, Zenon DEF DataReady, w

-------------------------------------------------------------------------------
(* The circuit's choice, and what it makes of it.                                *)

\* It takes the candidate that the sender takes.
LEMMA CircuitChooses ==
  ASSUME BurstInv, NEW r \in Candidates, NEW junk \in BOOLEAN
  PROVE  Chosen(Wires(r, TRUE, junk)) = {q.port : q \in {r} \cap Acceptable}
<1> DEFINE w == Wires(r, TRUE, junk)
           ph == IF sender.phase = Unknown THEN r.port ELSE sender.phase
           paid == \A pool \in BOOLEAN :
                     credit.data.balance[<<r.port, Accounted(pool, r.vc)>>] >= CountOf(r.pools, 0, pool)
<1>1. /\ w.valid = TRUE /\ w.port = r.port /\ w.vc = r.vc /\ w.pool = r.pool /\ w.has_data = Writes(r)
  BY DEF Wires
<1>2. /\ r.port \in Ports /\ r.vc \in 0..(VCs - 1) /\ r.pool \in BOOLEAN
      /\ (Writes(r) => r.pools \in Pools) /\ LedgerOK(credit.req) /\ LedgerOK(credit.data)
  BY DEF Candidates, Writes, BurstInv
<1>3. \A pool \in BOOLEAN : /\ credit.req.balance[<<r.port, Accounted(pool, r.vc)>>] \in Nat
                            /\ credit.data.balance[<<r.port, Accounted(pool, r.vc)>>] \in Nat
  <2>1. \A pool \in BOOLEAN : <<r.port, Accounted(pool, r.vc)>> \in Accounts
    BY <1>2, CreditAssumption DEF Accounts, Accounted, Pool
  <2> QED  BY <1>2, <2>1 DEF LedgerOK
<1>4. r \in Acceptable <=> EligibleRequest(sender, credit, link, r, ph)
  <2>1. Events(sender, credit, link, {r}).request = {q \in {r} : EligibleRequest(sender, credit, link, q, ph)}
    BY ChooseOnly DEF Events
  <2> QED  BY <2>1 DEF Acceptable
<1>5. ~Busy(sender, r.port) /\ Writes(r) =>
        (paid <=> \A pool \in BOOLEAN :
           AvailableData(sender, credit, r.port, Accounted(pool, r.vc)) >= CountOf(r.pools, 0, pool))
  <2>1. SUFFICES ASSUME ~Busy(sender, r.port)
                 PROVE  \A pool \in BOOLEAN : AvailableData(sender, credit, r.port, Accounted(pool, r.vc))
                                               = credit.data.balance[<<r.port, Accounted(pool, r.vc)>>]
    BY Zenon
  <2>2. \A pool \in BOOLEAN : Reserved(sender, r.port, Accounted(pool, r.vc)) = 0
    BY <2>1 DEF Reserved
  <2> QED  BY <1>3, <2>2 DEF AvailableData
<1>6. Writes(r) => (DataReady(credit, w, r.port) <=> paid)
  BY <1>2, DataReadyMeansPaid
<1>7. r.port = ph <=> sender.phase = Unknown \/ sender.phase = r.port
  OBVIOUS
<1>8. credit.req.balance[<<r.port, Accounted(r.pool, r.vc)>>] > 0
        <=> credit.req.balance[<<r.port, Accounted(r.pool, r.vc)>>] >= 1
  BY <1>2, <1>3
<1>9. HwNewRequest(sender, credit, link, w, r.port) <=> r \in Acceptable
  <2> HIDE DEF w, ph, paid
  <2> QED  BY <1>1, <1>4, <1>5, <1>6, <1>7, <1>8, Zenon DEF HwNewRequest, EligibleRequest, paid
<1>10. \A p \in Ports : p # r.port => ~HwNewRequest(sender, credit, link, w, p)
  BY <1>1 DEF HwNewRequest
<1> HIDE DEF w
<1>11. Chosen(w) = IF r \in Acceptable THEN {r.port} ELSE {}
  BY <1>2, <1>9, <1>10 DEF Chosen
<1> QED  BY <1>11 DEF w

\* The wires tell of the request of an edge, or of none.
Tells(w, e) ==
  \/ e.request = {} /\ w.valid = FALSE /\ Chosen(w) = {}
  \/ \E r \in Candidates, junk \in BOOLEAN :
       e.request = {r} /\ w = Wires(r, TRUE, junk) /\ Chosen(w) = {r.port}

\* A request with data is chosen where a burst begins, and nowhere else.
LEMMA NewBursts ==
  ASSUME NEW e, NEW ph, EdgeOf(e, ph), NEW w, Tells(w, e), NEW p \in Ports
  PROVE  p \in Chosen(w) /\ w.has_data <=> p = ph /\ Begins(e, ph)
<1>1. CASE e.request = {} /\ Chosen(w) = {}
  BY <1>1 DEF Begins
<1>2. CASE \E r \in Candidates, junk \in BOOLEAN :
             e.request = {r} /\ w = Wires(r, TRUE, junk) /\ Chosen(w) = {r.port}
  <2>1. PICK r \in Candidates, junk \in BOOLEAN :
               e.request = {r} /\ w = Wires(r, TRUE, junk) /\ Chosen(w) = {r.port}
    BY <1>2
  <2>2. w.has_data = Writes(r)
    BY <2>1 DEF Wires
  <2>3. r.port = ph
    BY <2>1 DEF EdgeOf, Requests
  <2>4. Begins(e, ph) <=> Writes(r)
    BY <2>1 DEF EdgeOf, Begins, Quiet, Continues, Starts
  <2> QED  BY <2>1, <2>2, <2>3, <2>4, Zenon
<1> QED  BY <1>1, <1>2 DEF Tells

\* A burst under way is at its turn where one goes on, and nowhere else.
LEMMA OldBursts ==
  ASSUME BurstInv, NEW e, NEW ph, EdgeOf(e, ph), NEW p \in Ports
  PROVE  BeatsEnabled(link) /\ sender.phase = p /\ Busy(sender, p) <=> p = ph /\ Continues(e, ph)
<1>1. Busy(sender, p) => BeatsEnabled(link) /\ sender.phase \in Ports
  BY PartsOfBurst, Zenon
<1>2. p = ph /\ Busy(sender, ph) => Continues(e, ph)
  BY DEF EdgeOf, Quiet, Begins
<1>3. Continues(e, ph) => ph \in Ports /\ Busy(sender, ph)
  BY DEF Continues
<1> QED  BY <1>1, <1>2, <1>3 DEF EdgeOf

\* Of a burst under way the registers of its port name the beat whose turn it is.
LEMMA TailOfRegisters ==
  ASSUME BurstInv, NEW p \in Ports, Busy(sender, p)
  PROVE  LET r == PortRegisters(sender, p)
         IN  /\ [port |-> p, vc |-> r.vc, pool |-> r.pools[r.offset], offset |-> r.offset,
                 last |-> r.offset = r.last] = TailBeat(p)
             /\ (r.offset = r.last <=> TurnsLeft(p) = 1)
             /\ r.offset \in 1..3 /\ r.last - r.offset = TurnsLeft(p) - 1
             /\ r.offset # r.last => (r.offset + 1) % 4 = r.offset + 1
<1> DEFINE b == sender.active[p]
           at == b.offset
           len == Len(b.pools)
           r == PortRegisters(sender, p)
<1>1. at \in Nat /\ at >= 1 /\ len \in 1..4 /\ TurnsLeft(p) \in Nat \ {0} /\ at + TurnsLeft(p) = len
  BY PartsOfBurst, Zenon
<1>2. /\ r.vc = b.vc /\ r.offset = at /\ r.last = len - 1
      /\ r.pools = LaneBits(b.pools, FALSE)
  BY DEF PortRegisters
<1>3. at \in Lanes /\ at < len /\ at \in 1..3
  <2> HIDE DEF at, len
  <2> QED  BY <1>1 DEF Lanes
<1>4. LaneBits(b.pools, FALSE)[at] = b.pools[at + 1]
  BY <1>3, Zenon DEF LaneBits
<1>5. /\ at = len - 1 <=> at + 1 = len
      /\ at = len - 1 <=> TurnsLeft(p) = 1
      /\ (len - 1) - at = TurnsLeft(p) - 1
      /\ at # len - 1 => (at + 1) % 4 = at + 1
  <2> HIDE DEF at, len
  <2> QED  BY <1>1, <1>3
<1>6. TailBeat(p) = [port |-> p, vc |-> b.vc, pool |-> b.pools[at + 1], offset |-> at, last |-> at + 1 = len]
  BY DEF TailBeat
<1>7. (r.offset = r.last) = (at + 1 = len)
  <2> HIDE DEF at, len, r
  <2> QED  BY <1>2, <1>5, Zenon
<1>8. r.pools[r.offset] = b.pools[at + 1]
  BY <1>2, <1>4, Zenon
<1> HIDE DEF at, len, r, b
<1>9. [port |-> p, vc |-> r.vc, pool |-> r.pools[r.offset], offset |-> r.offset, last |-> r.offset = r.last]
        = TailBeat(p)
  BY <1>2, <1>6, <1>7, <1>8, Zenon
<1> QED  BY <1>2, <1>3, <1>5, <1>9 DEF r

\* Of a new burst the wires name its first beat.
LEMMA FirstOfWires ==
  ASSUME NEW r \in Candidates, Writes(r), NEW junk \in BOOLEAN, NEW w, w = Wires(r, TRUE, junk)
  PROVE  /\ [port |-> r.port, vc |-> w.vc, pool |-> Masked(w, TRUE)[0], offset |-> 0, last |-> w.num = 0]
              = FirstBeat(r)
         /\ w.num = Len(r.pools) - 1 /\ Len(r.pools) \in 1..4
         /\ Masked(w, TRUE) = LaneBits(r.pools, FALSE)
<1> DEFINE len == Len(r.pools)
<1>1. r.pools \in Pools
  BY DEF Candidates, Writes
<1>2. len \in 1..MaxBeats /\ MaxBeats \in 1..4 /\ \A k \in 1..len : r.pools[k] \in BOOLEAN
  BY <1>1, PoolsAre
<1>3. w.num = len - 1 /\ w.vc = r.vc
  BY DEF Wires
<1>4. ASSUME NEW k \in Lanes
      PROVE  Masked(w, TRUE)[k] = LaneBits(r.pools, FALSE)[k]
  <2>1. Masked(w, TRUE)[k] \in BOOLEAN /\ (Masked(w, TRUE)[k] <=> k < len /\ r.pools[k + 1] = TRUE)
    BY MaskedLanes
  <2>2. LaneBits(r.pools, FALSE)[k] = IF k < len THEN r.pools[k + 1] ELSE FALSE
    BY DEF LaneBits
  <2>3. k < len => r.pools[k + 1] \in BOOLEAN
    <3>1. k < len => k + 1 \in 1..len
      <4> HIDE DEF len
      <4> QED  BY <1>2 DEF Lanes
    <3> QED  BY <1>2, <3>1
  <2> HIDE DEF len
  <2> QED  BY <2>1, <2>2, <2>3, Zenon
<1>5. Masked(w, TRUE) = LaneBits(r.pools, FALSE)
  BY <1>4, Zenon DEF Masked, LaneBits
<1>6. len \in 1..4 /\ 0 < len /\ (len - 1 = 0 <=> len = 1)
  <2> HIDE DEF len
  <2> QED  BY <1>2
<1>7. LaneBits(r.pools, FALSE)[0] = r.pools[0 + 1]
  BY <1>6, LanesAreDistinct, Zenon DEF LaneBits, Distinct
<1>8. Masked(w, TRUE)[0] = r.pools[1]
  <2>1. 0 + 1 = 1
    OBVIOUS
  <2> QED  BY <1>5, <1>7, <2>1, Zenon
<1>9. (w.num = 0) = (len = 1)
  <2> HIDE DEF len
  <2> QED  BY <1>3, <1>6, Zenon
<1> QED  BY <1>3, <1>5, <1>6, <1>8, <1>9, Zenon DEF FirstBeat

\* What the ports drive together is what the sender drives.
LEMMA CircuitDrives ==
  ASSUME BurstInv, NEW e, NEW ph, EdgeOf(e, ph), NEW w, Tells(w, e)
  PROVE  UNION {HwPortData(sender, link, p, w, p \in Chosen(w)) : p \in Ports} = e.data
<1> DEFINE D(p) == HwPortData(sender, link, p, w, p \in Chosen(w))
<1>1. ASSUME NEW p \in Ports, ~(p = ph /\ ~Quiet(e, ph))
      PROVE  D(p) = {}
  <2>1. ~(BeatsEnabled(link) /\ sender.phase = p /\ PortRegisters(sender, p).active)
    <3>1. PortRegisters(sender, p).active = Busy(sender, p)
      BY DEF PortRegisters
    <3> QED  BY <1>1, <3>1, OldBursts, Zenon DEF Quiet, Continues
  <2>2. ~(p \in Chosen(w) /\ w.has_data)
    <3>1. ~(Quiet(e, ph) /\ Begins(e, ph))
      BY DEF Quiet, Begins
    <3> QED  BY <1>1, <3>1, NewBursts, Zenon
  <2> QED  BY <2>1, <2>2 DEF HwPortData
<1>2. CASE Continues(e, ph)
  <2>1. ph \in Ports /\ Busy(sender, ph) /\ e.data = {TailBeat(ph)} /\ ~Begins(e, ph)
    BY <1>2 DEF Continues, Begins
  <2>2. BeatsEnabled(link) /\ sender.phase = ph /\ PortRegisters(sender, ph).active
    BY <1>2, <2>1, OldBursts DEF PortRegisters
  <2>3. ~(ph \in Chosen(w) /\ w.has_data)
    BY <2>1, NewBursts, Zenon
  <2>4. D(ph) = {TailBeat(ph)}
    BY <2>1, <2>2, <2>3, TailOfRegisters DEF HwPortData
  <2>5. \A p \in Ports \ {ph} : D(p) = {}
    BY <1>1
  <2> HIDE DEF D
  <2>6. UNION {D(p) : p \in Ports} = {TailBeat(ph)}
    BY <2>1, <2>4, <2>5
  <2> QED  BY <2>1, <2>6 DEF D
<1>3. CASE Begins(e, ph)
  <2>1. PICK r \in Candidates :
           ph \in Ports /\ ~Busy(sender, ph) /\ e.request = {r} /\ Writes(r) /\ r.port = ph /\ e.data = {FirstBeat(r)}
    BY <1>3 DEF Begins
  <2>2. PICK junk \in BOOLEAN : w = Wires(r, TRUE, junk)
    BY <2>1 DEF Tells
  <2>3. ph \in Chosen(w) /\ w.has_data
    BY <1>3, <2>1, NewBursts
  <2>4. ~PortRegisters(sender, ph).active
    BY <2>1 DEF PortRegisters
  <2>5. [port |-> ph, vc |-> w.vc, pool |-> Masked(w, TRUE)[0], offset |-> 0, last |-> w.num = 0] = FirstBeat(r)
    BY <2>1, <2>2, FirstOfWires
  <2>6. D(ph) = {FirstBeat(r)}
    BY <2>3, <2>4, <2>5 DEF HwPortData
  <2>7. \A p \in Ports \ {ph} : D(p) = {}
    BY <1>1
  <2> HIDE DEF D
  <2>8. UNION {D(p) : p \in Ports} = {FirstBeat(r)}
    BY <2>1, <2>6, <2>7
  <2> QED  BY <2>1, <2>8 DEF D
<1>4. CASE Quiet(e, ph)
  <2>1. \A p \in Ports : D(p) = {}
    BY <1>1, <1>4
  <2> HIDE DEF D
  <2>2. UNION {D(p) : p \in Ports} = {}
    BY <2>1
  <2> QED  BY <1>4, <2>2 DEF Quiet, D
<1> QED  BY <1>2, <1>3, <1>4 DEF EdgeOf

\* Of the payload held, the tail register at the offset of the next beat is its head.
LEMMA HeadOfTail ==
  ASSUME BurstInv, NEW p \in Ports, Busy(sender, p)
  PROVE  HwTail(sender, p)[sender.active[p].offset] = {Head(sender.payload[p])}
<1> DEFINE at == sender.active[p].offset
           words == sender.payload[p]
<1>1. at \in 1..3
  BY TailOfRegisters DEF PortRegisters
<1>2. words = [i \in 1..TurnsLeft(p) |-> <<p, at + i - 1>>] /\ TurnsLeft(p) >= 1
  BY BusyMeansUnderWay DEF UnderWay
<1>3. TurnsLeft(p) \in Nat
  BY PartsOfBurst, Zenon
<1>4. 1 \in DOMAIN words
  <2> HIDE DEF at, words
  <2> QED  BY <1>2, <1>3
<1>5. Head(words) = words[1]
  <2>1. words = [i \in 1..TurnsLeft(p) |-> words[i]] /\ TurnsLeft(p) \in Nat \ {0}
    <3> HIDE DEF at, words
    <3> QED  BY <1>2, <1>3
  <2> QED  BY <2>1, ListByPlaces
<1>6. at - at + 1 = 1
  <2> HIDE DEF at
  <2> QED  BY <1>1
<1>7. HwTail(sender, p)[at] = IF at - at + 1 \in DOMAIN words THEN {words[at - at + 1]} ELSE {}
  BY <1>1 DEF HwTail
<1> HIDE DEF at, words
<1> QED  BY <1>4, <1>5, <1>6, <1>7 DEF at, words

\* The word with a beat is the sender's.
LEMMA CircuitWord ==
  ASSUME BurstInv, NEW e, NEW ph, EdgeOf(e, ph), NEW w, Tells(w, e)
  PROVE  HwDataWord(sender, e.data, w) = {{x} : x \in DataWord(sender, e)}
<1>1. CASE Continues(e, ph)
  <2>1. ph \in Ports /\ Busy(sender, ph) /\ e.data = {TailBeat(ph)}
    BY <1>1 DEF Continues
  <2> DEFINE b == TailBeat(ph)
  <2>2. b.offset = sender.active[ph].offset /\ b.port = ph
    BY DEF TailBeat
  <2>3. b.offset # 0
    <3>1. sender.active[ph].offset \in Nat /\ sender.active[ph].offset >= 1
      BY <2>1, PartsOfBurst, Zenon
    <3> HIDE DEF b
    <3> QED  BY <2>2, <3>1
  <2> HIDE DEF b
  <2>4. HwDataWord(sender, e.data, w) = {HwTail(sender, ph)[sender.active[ph].offset]}
    BY <2>1, <2>2, <2>3 DEF HwDataWord, b
  <2>5. DataWord(sender, e) = {Head(sender.payload[ph])}
    BY <2>1, <2>2, <2>3 DEF DataWord, b
  <2>6. HwTail(sender, ph)[sender.active[ph].offset] = {Head(sender.payload[ph])}
    BY <2>1, HeadOfTail
  <2> QED  BY <2>4, <2>5, <2>6, Zenon
<1>2. CASE Begins(e, ph)
  <2>1. PICK r \in Candidates : e.request = {r} /\ Writes(r) /\ e.data = {FirstBeat(r)}
    BY <1>2 DEF Begins
  <2>2. PICK junk \in BOOLEAN : w = Wires(r, TRUE, junk)
    BY <2>1 DEF Tells
  <2>3. w.words[0] = Word(r, 0)
    BY <2>2, LanesAreDistinct DEF Wires, Distinct
  <2>4. HwDataWord(sender, e.data, w) = {{Word(r, 0)}}
    BY <2>1, <2>3 DEF HwDataWord, FirstBeat
  <2>5. DataWord(sender, e) = {Word(r, 0)}
    BY <2>1, ChooseOnly DEF DataWord, FirstBeat
  <2> QED  BY <2>4, <2>5
<1>3. CASE Quiet(e, ph)
  BY <1>3 DEF Quiet, HwDataWord, DataWord
<1> QED  BY <1>1, <1>2, <1>3 DEF EdgeOf

\* The phase of the circuit moves as the phase of the sender does.
LEMMA CircuitTurn ==
  ASSUME BurstInv, NEW e, NEW ph, EdgeOf(e, ph), NEW w, Tells(w, e)
  PROVE  HwPhase(sender, w, e.request # {}) = Sending(sender, e).phase
<1>1. Sending(sender, e).phase = Turn(ph)
  BY DEF Sending, EdgeOf, PhaseSeen, BurstInv
<1>2. CASE sender.phase # Unknown
  BY <1>1, <1>2 DEF HwPhase, Turn, EdgeOf, BurstInv
<1>3. CASE sender.phase = Unknown /\ e.request = {}
  BY <1>1, <1>3 DEF HwPhase, Turn, EdgeOf, PhaseSeen, BurstInv
<1>4. CASE sender.phase = Unknown /\ e.request # {}
  <2>1. PICK r \in Candidates : e.request = {r} /\ w.port = r.port
    BY <1>4 DEF Tells, Wires
  <2>2. r.port = ph /\ ph \in Ports
    BY <2>1 DEF EdgeOf, Requests
  <2>3. ph # Unknown
    BY <2>2, PortsAre DEF Unknown
  <2> QED  BY <1>1, <1>4, <2>1, <2>2, <2>3 DEF HwPhase, Turn
<1> QED  BY <1>2, <1>3, <1>4

\* The registers of a port after an edge are the sender's, while they are in use.
RegistersFollow(e, w, p) ==
  LET next == Sending(sender, e)
      after == HwPortNext(sender, link, p, w, p \in Chosen(w))
  IN  /\ after.active = Busy(next, p)
      /\ Busy(next, p) =>
           /\ after = PortRegisters(next, p)
           /\ \A i \in next.active[p].offset..after.last :
                HwTailNext(sender, p, w, p \in Chosen(w))[i] = HwTail(next, p)[i]

\* A port that has no turn keeps its registers, as the sender keeps its burst.
LEMMA RegistersElsewhere ==
  ASSUME BurstInv, NEW e, NEW ph, EdgeOf(e, ph), NEW w, Tells(w, e), NEW p \in Ports,
         p # ph \/ Quiet(e, ph)
  PROVE  RegistersFollow(e, w, p)
<1> DEFINE next == Sending(sender, e)
           r == PortRegisters(sender, p)
<1>1. next.payload[p] = sender.payload[p] /\ next.active[p] = sender.active[p]
  BY SendingElsewhere
<1> HIDE DEF next
<1>2. ~(p \in Chosen(w) /\ w.has_data)
  <2>1. ~(Quiet(e, ph) /\ Begins(e, ph))
    BY DEF Quiet, Begins
  <2> QED  BY <2>1, NewBursts, Zenon
<1>3. ~(BeatsEnabled(link) /\ sender.phase = p /\ Busy(sender, p))
  BY OldBursts, Zenon DEF Quiet, Continues
<1>4. r.active = Busy(sender, p)
  BY DEF PortRegisters
<1>5. HwPortNext(sender, link, p, w, p \in Chosen(w)) = r
  BY <1>2, <1>3, <1>4 DEF HwPortNext
<1>6. PortRegisters(next, p) = r /\ Busy(next, p) = Busy(sender, p) /\ HwTail(next, p) = HwTail(sender, p)
  BY <1>1 DEF PortRegisters, Busy, HwTail
<1>7. HwTailNext(sender, p, w, p \in Chosen(w)) = HwTail(sender, p)
  BY <1>2 DEF HwTailNext
<1> HIDE DEF r
<1> QED  BY <1>4, <1>5, <1>6, <1>7, Zenon DEF RegistersFollow, next

\* A turn of a burst under way moves the registers as it moves the burst.
LEMMA RegistersContinue ==
  ASSUME BurstInv, NEW e, NEW ph, EdgeOf(e, ph), NEW w, Tells(w, e), Continues(e, ph)
  PROVE  RegistersFollow(e, w, ph)
<1> DEFINE next == Sending(sender, e)
           r == PortRegisters(sender, ph)
           b == sender.active[ph]
           at == b.offset
           words == sender.payload[ph]
<1>1. ph \in Ports /\ Busy(sender, ph)
  BY DEF Continues
<1>2. /\ next.payload[ph] = Tail(words)
      /\ next.active[ph] = IF TurnsLeft(ph) = 1 THEN Idle ELSE [vc |-> b.vc, pools |-> b.pools, offset |-> at + 1]
  BY SendingContinues, Zenon
<1> HIDE DEF next
<1>3. ~(ph \in Chosen(w) /\ w.has_data)
  <2>1. ~Begins(e, ph)
    BY <1>1 DEF Begins
  <2> QED  BY <1>1, <2>1, NewBursts, Zenon
<1>4. BeatsEnabled(link) /\ sender.phase = ph
  BY <1>1, OldBursts, Zenon
<1>5. r = [active |-> TRUE, vc |-> b.vc, last |-> Len(b.pools) - 1, pools |-> LaneBits(b.pools, FALSE),
           offset |-> at]
  BY <1>1 DEF PortRegisters, Busy
<1>6. HwPortNext(sender, link, ph, w, ph \in Chosen(w))
        = IF r.offset = r.last THEN [r EXCEPT !.active = FALSE] ELSE [r EXCEPT !.offset = (@ + 1) % 4]
  BY <1>3, <1>4, <1>5 DEF HwPortNext
<1>7. /\ r.offset = r.last <=> TurnsLeft(ph) = 1
      /\ at \in 1..3 /\ r.last - at = TurnsLeft(ph) - 1
      /\ r.offset # r.last => (at + 1) % 4 = at + 1
  BY <1>1, <1>5, TailOfRegisters
<1>8. CASE TurnsLeft(ph) = 1
  <2>1. HwPortNext(sender, link, ph, w, ph \in Chosen(w)).active = FALSE
    BY <1>5, <1>6, <1>7, <1>8
  <2>2. Busy(next, ph) = FALSE
    BY <1>2, <1>8 DEF Busy, Idle
  <2> QED  BY <2>1, <2>2 DEF RegistersFollow, next
<1>9. CASE TurnsLeft(ph) # 1
  <2>1. next.active[ph] = [vc |-> b.vc, pools |-> b.pools, offset |-> at + 1]
    BY <1>2, <1>9
  <2>2. HwPortNext(sender, link, ph, w, ph \in Chosen(w))
          = [active |-> TRUE, vc |-> b.vc, last |-> Len(b.pools) - 1, pools |-> LaneBits(b.pools, FALSE),
             offset |-> at + 1]
    <3> HIDE DEF r, at, b
    <3> QED  BY <1>5, <1>6, <1>7, <1>9
  <2>3. PortRegisters(next, ph)
          = [active |-> TRUE, vc |-> b.vc, last |-> Len(b.pools) - 1, pools |-> LaneBits(b.pools, FALSE),
             offset |-> at + 1]
    <3>1. Busy(next, ph) = TRUE
      <4> HIDE DEF at
      <4> QED  BY <1>7, <2>1 DEF Busy
    <3> HIDE DEF at, b
    <3> QED  BY <2>1, <3>1 DEF PortRegisters
  <2>4. ASSUME NEW i \in (at + 1)..(Len(b.pools) - 1)
        PROVE  HwTailNext(sender, ph, w, ph \in Chosen(w))[i] = HwTail(next, ph)[i]
    <3> DEFINE left == TurnsLeft(ph)
               last == Len(b.pools) - 1
               k == i - at
    <3>1. words = [j \in 1..left |-> words[j]]
      BY <1>1, BusyMeansUnderWay DEF UnderWay
    <3>2. left \in Nat \ {0}
      BY <1>1, PartsOfBurst, Zenon
    <3>3. Tail(words) = [j \in 1..left - 1 |-> words[j + 1]]
      <4> HIDE DEF words, left
      <4> QED  BY <3>1, <3>2, ListByPlaces
    <3>4. last = r.last
      BY <1>5
    <3>5. i \in 1..3 /\ k \in 1..left - 1 /\ i - (at + 1) + 1 = k /\ i - at + 1 = k + 1 /\ k + 1 \in 1..left
      <4>1. last \in Int /\ last - at = left - 1 /\ last <= 3
        <5> DEFINE len == Len(b.pools)
        <5>1. len \in 1..4
          BY <1>1, PartsOfBurst, Zenon
        <5>2. len - 1 \in Int /\ len - 1 <= 3
          <6> HIDE DEF len
          <6> QED  BY <5>1
        <5>3. r.last - at = left - 1
          BY <1>7, Zenon
        <5>4. last \in Int /\ last <= 3
          BY <5>2, Zenon
        <5> HIDE DEF last, r, at, left
        <5> QED  BY <3>4, <5>3, <5>4
      <4> HIDE DEF last, left, at
      <4>2. i \in (at + 1)..last
        BY DEF at, last
      <4>3. at \in 1..3
        BY <1>7 DEF at
      <4> QED  BY <3>2, <4>1, <4>2, <4>3 DEF k
    <3>6. HwTailNext(sender, ph, w, ph \in Chosen(w)) = HwTail(sender, ph)
      BY <1>3 DEF HwTailNext
    <3>7. HwTail(sender, ph)[i] = IF i - at + 1 \in DOMAIN words THEN {words[i - at + 1]} ELSE {}
      BY <3>5 DEF HwTail
    <3>8. HwTail(next, ph)[i] = IF i - (at + 1) + 1 \in DOMAIN Tail(words) THEN {Tail(words)[i - (at + 1) + 1]} ELSE {}
      <4>1. next.active[ph].offset = at + 1 /\ next.payload[ph] = Tail(words)
        BY <1>2, <2>1
      <4> HIDE DEF at, words
      <4> QED  BY <3>5, <4>1 DEF HwTail
    <3> HIDE DEF words, left, at, k
    <3>9. HwTail(sender, ph)[i] = {words[k + 1]}
      BY <3>1, <3>5, <3>7
    <3>10. HwTail(next, ph)[i] = {words[k + 1]}
      BY <3>3, <3>5, <3>8
    <3> QED  BY <3>6, <3>9, <3>10
  <2> DEFINE after == HwPortNext(sender, link, ph, w, ph \in Chosen(w))
  <2>5. after.active = Busy(next, ph) /\ after.last = Len(b.pools) - 1 /\ next.active[ph].offset = at + 1
    <3>1. PortRegisters(next, ph).active = Busy(next, ph)
      BY DEF PortRegisters
    <3>2. PortRegisters(next, ph).active = TRUE /\ after.active = TRUE /\ after.last = Len(b.pools) - 1
      <4> HIDE DEF at, b
      <4> QED  BY <2>2, <2>3
    <3>3. next.active[ph].offset = at + 1
      BY <2>1
    <3> HIDE DEF after, at, b
    <3> QED  BY <3>1, <3>2, <3>3, Zenon
  <2>6. after = PortRegisters(next, ph)
    BY <2>2, <2>3, Zenon
  <2> HIDE DEF after, at, b
  <2> QED  BY <2>4, <2>5, <2>6, Zenon DEF RegistersFollow, next, after
<1> QED  BY <1>8, <1>9

\* A first turn loads the registers with what the sender starts.
LEMMA RegistersBegin ==
  ASSUME BurstInv, NEW e, NEW ph, EdgeOf(e, ph), NEW w, Tells(w, e), Begins(e, ph)
  PROVE  RegistersFollow(e, w, ph)
<1>1. PICK r \in Candidates :
         ph \in Ports /\ ~Busy(sender, ph) /\ e.request = {r} /\ Writes(r) /\ r.port = ph
  BY DEF Begins
<1>2. PICK junk \in BOOLEAN : w = Wires(r, TRUE, junk)
  BY <1>1 DEF Tells
<1> DEFINE next == Sending(sender, e)
           len == Len(r.pools)
           after == HwPortNext(sender, link, ph, w, ph \in Chosen(w))
<1>3. ph \in Chosen(w) /\ w.has_data
  BY <1>1, NewBursts
<1>4. w.num = len - 1 /\ len \in 1..4 /\ Masked(w, TRUE) = LaneBits(r.pools, FALSE) /\ w.vc = r.vc
  BY <1>1, <1>2, FirstOfWires DEF Wires
<1>5. /\ next.active[r.port] = IF len > 1 THEN [vc |-> r.vc, pools |-> r.pools, offset |-> 1] ELSE Idle
      /\ next.payload[r.port] = [i \in 1..len - 1 |-> Word(r, i)]
  BY <1>1, SendingBegins, ZenonT(40)
<1>6. after = [active |-> w.num # 0, vc |-> w.vc, last |-> w.num, pools |-> Masked(w, TRUE), offset |-> 1]
  BY <1>3 DEF HwPortNext
<1> HIDE DEF next, after
<1>7. (w.num # 0) = (len > 1)
  <2> HIDE DEF len
  <2> QED  BY <1>4
<1>8. CASE len > 1
  <2>1. next.active[ph] = [vc |-> r.vc, pools |-> r.pools, offset |-> 1]
    BY <1>1, <1>5, <1>8
  <2>2. Busy(next, ph) = TRUE
    BY <2>1 DEF Busy
  <2>3. PortRegisters(next, ph) = [active |-> TRUE, vc |-> r.vc, last |-> len - 1,
                                   pools |-> LaneBits(r.pools, FALSE), offset |-> 1]
    <3>1. PortRegisters(next, ph) = [active |-> Busy(next, ph), vc |-> r.vc, last |-> len - 1,
                                     pools |-> LaneBits(r.pools, FALSE), offset |-> 1]
      BY <2>1 DEF PortRegisters
    <3> QED  BY <2>2, <3>1, Zenon
  <2>4. after = [active |-> TRUE, vc |-> r.vc, last |-> len - 1, pools |-> LaneBits(r.pools, FALSE), offset |-> 1]
    <3>1. (w.num # 0) = TRUE
      BY <1>7, <1>8
    <3> HIDE DEF len
    <3> QED  BY <1>4, <1>6, <3>1, Zenon
  <2>5. ASSUME NEW i \in 1..(len - 1)
        PROVE  HwTailNext(sender, ph, w, ph \in Chosen(w))[i] = HwTail(next, ph)[i]
    <3>1. i \in 1..3 /\ i \in Lanes /\ w.num >= i /\ i - 1 + 1 = i
      <4> HIDE DEF len
      <4> QED  BY <1>4 DEF Lanes
    <3>2. w.words[i] = Word(r, i)
      BY <1>2, <3>1 DEF Wires
    <3>3. HwTailNext(sender, ph, w, ph \in Chosen(w))[i] = {Word(r, i)}
      BY <1>3, <3>1, <3>2 DEF HwTailNext
    <3> DEFINE words == next.payload[ph]
    <3>4. words = [j \in 1..len - 1 |-> Word(r, j)]
      BY <1>1, <1>5
    <3>5. HwTail(next, ph)[i] = IF i - 1 + 1 \in DOMAIN words THEN {words[i - 1 + 1]} ELSE {}
      BY <2>1, <3>1 DEF HwTail
    <3> HIDE DEF words, len
    <3>6. HwTail(next, ph)[i] = {Word(r, i)}
      BY <3>1, <3>4, <3>5
    <3> QED  BY <3>3, <3>6
  <2>6. after.active = Busy(next, ph) /\ after.last = len - 1 /\ next.active[ph].offset = 1
        /\ after = PortRegisters(next, ph)
    <3> HIDE DEF len
    <3> QED  BY <2>1, <2>2, <2>3, <2>4
  <2> HIDE DEF len
  <2> QED  BY <2>5, <2>6, Zenon DEF RegistersFollow, next, after
<1>9. CASE ~(len > 1)
  <2>1. after.active = FALSE
    BY <1>6, <1>7, <1>9
  <2>2. Busy(next, ph) = FALSE
    BY <1>1, <1>5, <1>9 DEF Busy, Idle
  <2> QED  BY <2>1, <2>2, Zenon DEF RegistersFollow, next, after
<1> QED  BY <1>8, <1>9

\* At every edge, whatever the wires carry, the circuit does what the sender does.
LEMMA CircuitFollows ==
  ASSUME BurstInv, NEW e, NEW ph, EdgeOf(e, ph), NEW w, Tells(w, e)
  PROVE  EdgeInStep(w, e, Sending(sender, e))
<1>1. ASSUME NEW p \in Ports
      PROVE  RegistersFollow(e, w, p)
  <2>1. CASE p # ph \/ Quiet(e, ph)
    BY <2>1, RegistersElsewhere
  <2>2. CASE p = ph /\ Continues(e, ph)
    BY <2>2, RegistersContinue
  <2>3. CASE p = ph /\ Begins(e, ph)
    BY <2>3, RegistersBegin
  <2> QED  BY <2>1, <2>2, <2>3 DEF EdgeOf
<1>2. UNION {HwPortData(sender, link, p, w, p \in Chosen(w)) : p \in Ports} = e.data
  BY CircuitDrives
<1>3. HwDataWord(sender, e.data, w) = {{x} : x \in DataWord(sender, e)}
  BY CircuitWord
<1>4. HwPhase(sender, w, e.request # {}) = Sending(sender, e).phase
  BY CircuitTurn
<1> QED  BY <1>1, <1>2, <1>3, <1>4, Zenon DEF EdgeInStep, RegistersFollow

\* In every state of the invariant the circuit makes the sender's choice and step.
LEMMA CircuitIsTheSender == BurstInv => CircuitInStep
<1> SUFFICES ASSUME BurstInv PROVE CircuitInStep
  OBVIOUS
<1>1. ASSUME NEW r \in Candidates, NEW junk \in BOOLEAN
      PROVE  Chosen(Wires(r, TRUE, junk)) = {q.port : q \in {r} \cap Acceptable}
  BY CircuitChooses
<1>2. ASSUME NEW wanted \in AtMostOneOf(Acceptable), NEW junk \in BOOLEAN
      PROVE  LET r == CHOOSE r \in Candidates : wanted \subseteq {r}
                 e == Events(sender, credit, link, wanted)
             IN  EdgeInStep(Wires(r, wanted # {}, junk), e, Sending(sender, e))
  <2> DEFINE r == CHOOSE r \in Candidates : wanted \subseteq {r}
             e == Events(sender, credit, link, wanted)
             w == Wires(r, wanted # {}, junk)
  <2>1. e.request = wanted /\ \E ph \in Ports \cup {Unknown} : EdgeOf(e, ph)
    BY EveryEdge
  <2>2. Tells(w, e)
    <3>1. CASE wanted = {}
      <4>1. w.valid = FALSE
        BY <3>1 DEF Wires
      <4> HIDE DEF w
      <4>2. Chosen(w) = {}
        BY <4>1 DEF Chosen, HwNewRequest
      <4> QED  BY <2>1, <3>1, <4>1, <4>2 DEF Tells
    <3>2. CASE \E q \in Acceptable : wanted = {q}
      <4>1. PICK q \in Acceptable : wanted = {q}
        BY <3>2
      <4>2. q \in Candidates
        BY DEF Acceptable
      <4>3. r = q
        <5>1. \A x : wanted \subseteq {x} <=> x = q
          BY <4>1
        <5>2. r \in Candidates /\ wanted \subseteq {r}
          BY <4>2, <5>1, Zenon
        <5> HIDE DEF r
        <5> QED  BY <5>1, <5>2
      <4>4. w = Wires(q, TRUE, junk)
        <5>1. (wanted # {}) = TRUE
          BY <4>1
        <5> HIDE DEF r
        <5> QED  BY <4>3, <5>1, Zenon
      <4>5. Chosen(Wires(q, TRUE, junk)) = {q.port}
        BY <1>1, <4>2
      <4> HIDE DEF w, e, r
      <4> QED  BY <2>1, <4>1, <4>2, <4>4, <4>5, Zenon DEF Tells
    <3> QED  BY <3>1, <3>2 DEF AtMostOneOf
  <2> HIDE DEF w, e
  <2>3. EdgeInStep(w, e, Sending(sender, e))
    BY <2>1, <2>2, CircuitFollows
  <2> QED  BY <2>3 DEF w, e
<1> QED  BY <1>1, <1>2, ZenonT(40) DEF CircuitInStep
-------------------------------------------------------------------------------
(* The FIFO alone: one edge, types and the cache.                                *)

Sequences3 == [unread : Seq(Words), pending : Optional, visible : Seq(Words)]
Entering(f, data) == IF Ready(f, Depth) THEN data ELSE << >>

\* The sets of the FIFO alone are those of any FIFO.
LEMMA FifoIsBuffer ==
  Sequences3 = Buffers(Words) /\ Optional = Offers(Words)
  /\ \A f, data : Entering(f, data) = Taken(f, Depth, data)
BY DEF Sequences3, Buffers, Optional, Offers, Entering, Taken

\* A word or none is a sequence.
LEMMA OptionalIsSeq ==
  ASSUME NEW w \in Optional
  PROVE  w \in Seq(Words) /\ Len(w) \in {0, 1}
BY OfferIsSeq, FifoIsBuffer

\* The parts after an edge, in terms of the parts before.
LEMMA StepParts ==
  ASSUME fifo \in Sequences3, NEW data \in Optional, NEW consume \in BOOLEAN, Edge(data, consume)
  PROVE  /\ Pops(fifo, consume) \in BOOLEAN /\ Pops(fifo, consume) => fifo.visible # << >>
         /\ Reads(fifo, consume) \in BOOLEAN /\ Reads(fifo, consume) => fifo.unread # << >>
         /\ Entering(fifo, data) \in Optional
         /\ fifo'.visible = Remaining(fifo.visible, Pops(fifo, consume)) \o fifo.pending
         /\ fifo'.pending = Leaving(fifo.unread, Reads(fifo, consume))
         /\ fifo'.unread = Remaining(fifo.unread, Reads(fifo, consume)) \o Entering(fifo, data)
         /\ fifo' \in Sequences3
         /\ Len(fifo'.visible) = Len(fifo.visible) - One(Pops(fifo, consume))
                               + Len(fifo.pending)
         /\ Len(fifo'.pending) = One(Reads(fifo, consume))
         /\ Len(fifo'.unread) = Len(fifo.unread) - One(Reads(fifo, consume))
                              + Len(Entering(fifo, data))
<1> DEFINE W == Words
           f == fifo
           next == fifo'
           o == data
<1>1. f \in Buffers(W) /\ o \in Offers(W) /\ next = Step(f, Depth, o, consume)
  BY FifoIsBuffer DEF Edge
<1>2. Entering(fifo, data) = Taken(f, Depth, o)
  BY FifoIsBuffer
<1>3. next \in Buffers(W) <=> fifo' \in Sequences3
  BY FifoIsBuffer
<1>4. Entering(fifo, data) \in Optional
  BY DEF Entering, Optional
<1> HIDE DEF W, f, next, o
<1>5. /\ next.visible = Remaining(f.visible, Pops(f, consume)) \o f.pending
      /\ next.pending = Leaving(f.unread, Reads(f, consume))
      /\ next.unread = Remaining(f.unread, Reads(f, consume)) \o Taken(f, Depth, o)
  BY <1>1 DEF Step, Remaining, Leaving, Taken
<1>8. next \in Buffers(W)
  BY <1>1, StepOfFifo
<1>6. /\ Len(next.visible) = Len(f.visible) - One(Pops(f, consume)) + Len(f.pending)
      /\ Len(next.pending) = One(Reads(f, consume))
      /\ Len(next.unread) = Len(f.unread) - One(Reads(f, consume)) + Len(Taken(f, Depth, o))
  BY <1>1, StepLengths
<1>7. /\ Pops(fifo, consume) \in BOOLEAN /\ Pops(fifo, consume) => fifo.visible # << >>
      /\ Reads(fifo, consume) \in BOOLEAN /\ Reads(fifo, consume) => fifo.unread # << >>
  BY DEF Pops, Reads, Room, Valid
<1> QED  BY <1>2, <1>3, <1>4, <1>5, <1>6, <1>7, <1>8, Zenon DEF f, next

IInv == TypeOK /\ CacheSuffices

\* An empty FIFO satisfies the invariant.
LEMMA InitIInv == Init => IInv
<1>1. Empty \in Sequences3 /\ Len(Empty.unread) = 0 /\ Len(Empty.pending) = 0
      /\ Len(Empty.visible) = 0
  BY DEF Empty, Sequences3, Optional
<1> QED  BY <1>1, FifoAssumption DEF Init, IInv, TypeOK, CacheSuffices, Count, Sequences3, Optional

\* An edge keeps the types, the depth and the cache.
LEMMA EdgeKeepsIInv ==
  ASSUME IInv, NEW data \in Optional, NEW consume \in BOOLEAN, Edge(data, consume)
  PROVE  IInv'
<1> DEFINE pop == One(Pops(fifo, consume))
           read == One(Reads(fifo, consume))
           in == Len(Entering(fifo, data))
           v == Len(fifo.visible)
           p == Len(fifo.pending)
           u == Len(fifo.unread)
<1>1. fifo \in Sequences3
  BY DEF IInv, TypeOK, Sequences3
<1>2. /\ fifo' \in Sequences3
      /\ Entering(fifo, data) \in Optional
      /\ Len(fifo'.visible) = v - pop + p
      /\ Len(fifo'.pending) = read
      /\ Len(fifo'.unread) = u - read + in
  BY <1>1, StepParts
<1>3. /\ v \in Nat /\ u \in Nat /\ p \in {0, 1} /\ in \in {0, 1}
      /\ pop \in {0, 1} /\ read \in {0, 1}
  BY <1>1, <1>2, OptionalIsSeq, LenProperties DEF Sequences3, One
<1>4. u + p + v <= Depth /\ v + p <= 2
  BY DEF IInv, TypeOK, CacheSuffices, Count
<1>5. in # 0 => u + p + v < Depth
  BY EmptySeq DEF Entering, Ready, Count
<1>6. read # 0 => v + p - pop < 2
  BY DEF Reads, Room, One
<1>7. consumed' \in Optional
  <2>1. Pops(fifo, consume) => Head(fifo.visible) \in Words
    BY <1>1, HeadTailProperties DEF Sequences3, Pops, Valid
  <2> QED  BY <2>1 DEF Edge, Optional
<1>8. Count(fifo') = (u - read + in) + read + (v - pop + p)
  BY <1>2 DEF Count
<1>9. /\ Len(fifo'.visible) + Len(fifo'.pending) = (v - pop + p) + read
  BY <1>2
<1> HIDE DEF pop, read, in, v, p, u
<1>10. (u - read + in) + read + (v - pop + p) <= Depth /\ (v - pop + p) + read <= 2
  BY <1>3, <1>4, <1>5, <1>6, FifoAssumption
<1> QED  BY <1>2, <1>7, <1>8, <1>9, <1>10 DEF IInv, TypeOK, Sequences3, CacheSuffices

\* Every step of the FIFO keeps the invariant, and so does doing nothing.
LEMMA NextIInv == IInv /\ [Next]_vars => IInv'
<1> SUFFICES ASSUME IInv, [Next]_vars PROVE IInv'
  OBVIOUS
<1>1. CASE Reset
  <2>1. Init'
    BY <1>1 DEF Reset, Init
  <2> QED  BY <2>1, InitIInv, PTL
<1>2. ASSUME NEW data \in Optional, NEW consume \in BOOLEAN, Edge(data, consume)
      PROVE  IInv'
  BY <1>2, EdgeKeepsIInv
<1>3. CASE UNCHANGED vars
  BY <1>3 DEF vars, IInv, TypeOK, CacheSuffices
<1> QED  BY <1>1, <1>2, <1>3 DEF Next

\* So it holds in every reachable state, whatever the depth.
LEMMA Invariance == Spec => []IInv
BY InitIInv, NextIInv, PTL DEF Spec

\* The types hold and the three places together never hold more than Depth words.
THEOREM FifoTypeCorrect == Spec => []TypeOK
<1>1. IInv => TypeOK
  BY DEF IInv
<1> QED  BY <1>1, Invariance, PTL

\* No answer of the memory ever meets a full cache.
THEOREM CacheAlwaysSuffices == Spec => []CacheSuffices
<1>1. IInv => CacheSuffices
  BY DEF IInv
<1> QED  BY <1>1, Invariance, PTL

-------------------------------------------------------------------------------
(* The FIFO is a queue.                                                          *)

\* An edge of the FIFO is an edge of the queue: what is consumed was its head,
\* and what is accepted becomes its tail.
LEMMA EdgeOfQueue ==
  ASSUME TypeOK, NEW data \in Optional, NEW consume \in BOOLEAN, Edge(data, consume)
  PROVE  Queue!Edge(Entering(fifo, data), Pops(fifo, consume))
<1> DEFINE W == Words
           next == fifo'
           f == fifo
           pop == Pops(fifo, consume)
           in == Entering(fifo, data)
           words == Contents(fifo)
<1>1. /\ f \in Buffers(W) /\ data \in Offers(W) /\ next = Step(f, Depth, data, consume)
      /\ in = Taken(f, Depth, data)
  BY FifoIsBuffer DEF Edge, TypeOK, Sequences3
<1> HIDE DEF W, next, f
<1>2. /\ Contents(next) = Remaining(Contents(f), Pops(f, consume)) \o Taken(f, Depth, data)
      /\ Pops(f, consume) => Contents(f) # << >> /\ Head(Contents(f)) = Head(f.visible)
  BY <1>1, StepOfContents
<1>3. Count(f) = Len(Contents(f))
  BY <1>1, ContentsAreWords
<1>4. /\ Contents(fifo)' = Remaining(words, pop) \o in
      /\ pop => words # << >> /\ Head(words) = Head(fifo.visible)
      /\ Count(fifo) = Len(words)
  BY <1>1, <1>2, <1>3, Zenon DEF next, f, Contents
<1>5. in # << >> => Len(words) < Depth
  BY <1>4 DEF Entering, Ready
<1>6. consumed' = IF pop THEN <<Head(words)>> ELSE << >>
  BY <1>4 DEF Edge
<1>7. Contents(fifo)' = (IF pop THEN Tail(words) ELSE words) \o in
  BY <1>4 DEF Remaining
<1> QED  BY <1>4, <1>5, <1>6, <1>7, Zenon DEF Queue!Edge, Contents

\* Every behaviour of the FIFO is one of a queue of Depth words.
THEOREM FifoIsQueue == Spec => ImplementsQueue
<1>1. Init => Queue!Init
  <2>1. << >> \o << >> \o << >> = << >>
    BY EmptySeq, ConcatEmptySeq
  <2> QED  BY <2>1 DEF Init, Empty, Queue!Init
<1>2. TypeOK /\ [Next]_vars => [Queue!Next]_<<Contents(fifo), consumed>>
  <2> SUFFICES ASSUME TypeOK, [Next]_vars PROVE [Queue!Next]_<<Contents(fifo), consumed>>
    OBVIOUS
  <2>1. CASE Reset
    <3>1. << >> \o << >> \o << >> = << >>
      BY EmptySeq, ConcatEmptySeq
    <3> QED  BY <2>1, <3>1 DEF Reset, Empty, Queue!Next, Queue!Flush
  <2>2. ASSUME NEW data \in Optional, NEW consume \in BOOLEAN, Edge(data, consume)
        PROVE  Queue!Next
    <3>1. Queue!Edge(Entering(fifo, data), Pops(fifo, consume))
      BY <2>2, EdgeOfQueue
    <3>2. Entering(fifo, data) \in Queue!Optional /\ Pops(fifo, consume) \in BOOLEAN
      BY DEF Entering, Optional, Queue!Optional, Pops, Valid
    <3> QED  BY <3>1, <3>2, Zenon DEF Queue!Next
  <2>3. CASE UNCHANGED vars
    BY <2>3 DEF vars, Contents
  <2> QED  BY <2>1, <2>2, <2>3 DEF Next
<1> QED  BY <1>1, <1>2, FifoTypeCorrect, PTL DEF Spec, ImplementsQueue, Queue!Spec, Contents

-------------------------------------------------------------------------------
(* The return queue.                                                             *)

\* The places of the register hold the records and then blanks.
LEMMA SavedIs ==
  ASSUME NEW q \in Seq(Metas), NEW h \in Nat
  PROVE  /\ h < Len(q) /\ h < ReturnDepth => Saved(q)[h] = q[h + 1]
         /\ h >= Len(q) /\ h < ReturnDepth => Saved(q)[h] = Blank
         /\ Saved(q) = [slot \in 0..ReturnDepth - 1 |-> Saved(q)[slot]]
<1>1. ReturnDepth \in Nat /\ Len(q) \in Nat
  BY ReturnAssumption, LenProperties
<1> QED  BY <1>1 DEF Saved

\* The comparators of the register count the equal records at the front.
LEMMA BatchIsMerged ==
  ASSUME NEW q \in Seq(Metas), Len(q) <= ReturnDepth, NEW enabled \in BOOLEAN
  PROVE  HwBatch(Len(q), Saved(q), enabled) = IF enabled THEN Merged(q) ELSE 0
<1> DEFINE l == Len(q)
           saved == Saved(q)
           equal(h) == l > h /\ (IF h < ReturnDepth THEN saved[h] ELSE Blank) = saved[0]
           runs == {n \in 1..Batch : \A h \in 0..n - 1 : equal(h)}
<1>1. l \in Nat /\ l <= ReturnDepth /\ ReturnDepth \in Nat \ {0} /\ Batch \in Nat \ {0}
  BY LenProperties, ReturnAssumption, CreditAssumption
<1>2. /\ Merged(q) \in Alike(q) \cup {0} /\ \A m \in Alike(q) : m <= Merged(q)
      /\ Merged(q) \in 0..l /\ (q # << >> => Merged(q) > 0)
  BY MergedIs
<1>3. ASSUME NEW h \in Nat PROVE equal(h) <=> h < l /\ q[h + 1] = q[1]
  <2>1. CASE h < l
    <3>1. h < ReturnDepth /\ 0 < l /\ 0 < ReturnDepth
      BY <1>1, <2>1
    <3>2. saved[h] = q[h + 1] /\ saved[0] = q[0 + 1]
      <4>1. 0 \in Nat
        OBVIOUS
      <4> QED  BY <2>1, <3>1, <4>1, SavedIs
    <3> QED  BY <2>1, <3>1, <3>2
  <2>2. CASE ~(h < l)
    BY <1>1, <2>2
  <2> QED  BY <2>1, <2>2
<1> HIDE DEF saved, equal
<1>4. runs = Alike(q)
  <2>1. ASSUME NEW n \in runs PROVE n \in Alike(q)
    <3>1. n \in 1..Batch /\ \A h \in 0..n - 1 : h < l /\ q[h + 1] = q[1]
      <4>1. n \in 1..Batch /\ \A h \in 0..n - 1 : equal(h)
        OBVIOUS
      <4>2. \A h \in 0..n - 1 : h \in Nat
        OBVIOUS
      <4> QED  BY <1>3, <4>1, <4>2, Zenon
    <3>2. n - 1 \in 0..n - 1
      BY <3>1, <1>1
    <3>3. n \in 1..l
      BY <1>1, <3>1, <3>2
    <3>4. ASSUME NEW i \in 1..n PROVE q[i] = q[1]
      <4>1. i - 1 \in 0..n - 1 /\ (i - 1) + 1 = i
        BY <3>3
      <4> QED  BY <3>1, <4>1
    <3> QED  BY <1>1, <3>1, <3>3, <3>4 DEF Alike
  <2>2. ASSUME NEW n \in Alike(q) PROVE n \in runs
    <3>1. n \in 1..l /\ n <= Batch /\ \A i \in 1..n : q[i] = q[1]
      BY DEF Alike
    <3>2. ASSUME NEW h \in 0..n - 1 PROVE equal(h)
      <4>1. h + 1 \in 1..n /\ h \in Nat /\ h < l
        BY <1>1, <3>1
      <4> QED  BY <1>3, <3>1, <4>1
    <3> QED  BY <1>1, <3>1, <3>2
  <2> QED  BY <2>1, <2>2
<1>5. HwBatch(l, Saved(q), enabled) =
        IF enabled /\ equal(0) THEN CHOOSE n \in runs : \A m \in runs : m <= n ELSE 0
  BY DEF HwBatch, equal, saved
<1> HIDE DEF runs
<1>6. equal(0) <=> l > 0
  BY <1>1, <1>3
<1>7. CASE l > 0
  <2>1. Merged(q) \in Alike(q)
    <3>1. q # << >>
      BY <1>7, EmptySeq
    <3> QED  BY <1>2, <3>1
  <2>2. \A n \in Alike(q) : (\A m \in Alike(q) : m <= n) => n = Merged(q)
    <3>1. \A n \in Alike(q) : n \in Nat
      BY DEF Alike
    <3> QED  BY <1>2, <2>1, <3>1
  <2>3. (CHOOSE n \in Alike(q) : \A m \in Alike(q) : m <= n) = Merged(q)
    BY <1>2, <2>1, <2>2
  <2> QED  BY <1>4, <1>5, <1>6, <1>7, <2>3
<1>8. CASE ~(l > 0)
  <2>1. Merged(q) = 0
    BY <1>1, <1>2, <1>8
  <2> QED  BY <1>5, <1>6, <1>8, <2>1
<1> QED  BY <1>7, <1>8

\* A channel carries one beat at most.
LEMMA BeatsAreSingle ==
  ASSUME NEW beats \in Receipts!AtMostOne(Receipts!Beats)
  PROVE  beats \in SUBSET BeatsOf(Ports) /\ Single(beats)
<1>1. CASE beats = {}
  BY <1>1 DEF Single
<1>2. ASSUME NEW x \in Receipts!Beats, beats = {x}
      PROVE  beats \in SUBSET BeatsOf(Ports) /\ Single(beats)
  <2>1. x \in BeatsOf(Ports)
    BY DEF Receipts!Beats, Receipts!Metas, Metas, BeatsOf
  <2>2. beats \in SUBSET BeatsOf(Ports)
    BY <1>2, <2>1
  <2>3. \A b, c \in beats : b = c
    BY <1>2
  <2> QED  BY <2>2, <2>3 DEF Single
<1> QED  BY <1>1, <1>2 DEF Receipts!AtMostOne

\* A port's register moves down by the batch and takes the record behind the rest.
LEMMA RegisterMoves ==
  ASSUME ReturnsOK(returns), NEW p \in Ports,
         NEW beats \in Receipts!AtMostOne(Receipts!Beats), NEW enabled \in SUBSET Ports
  PROVE  LET after == Return(returns, beats, enabled)
         IN  HwReturnPort(returns.queue[p], p, beats, p \in enabled)
               = [count |-> Len(after.queue[p]), saved |-> Saved(after.queue[p]),
                  grant |-> after.grants[p]]
<1> DEFINE after == Return(returns, beats, enabled)
           q == returns.queue[p]
           l == Len(q)
           n == Out(returns, p, enabled)
           rest == Rest(returns, p, enabled)
           in == In(returns, p, beats)
           saved == Saved(q)
           batch == HwBatch(l, saved, p \in enabled)
           accepted == {b \in beats : b.port = p /\ l < ReturnDepth}
           shifted(slot) == IF slot + batch < ReturnDepth THEN saved[slot + batch] ELSE Blank
           grant == IF batch = 0 THEN NoGrant
                    ELSE [vc |-> saved[0].vc, pool |-> saved[0].pool, count |-> batch]
           moved == [slot \in 0..ReturnDepth - 1 |->
                       IF accepted # {} /\ l - batch = slot
                       THEN (CHOOSE b \in accepted : TRUE).meta ELSE shifted(slot)]
<1>1. beats \in SUBSET BeatsOf(Ports) /\ Single(beats)
  BY BeatsAreSingle
<1>2. /\ n \in 0..l /\ rest \in Seq(Metas) /\ Len(rest) = l - n
      /\ in = {} \/ \E m \in Metas : in = {m}
      /\ in # {} => l < ReturnDepth
      /\ in = {} => after.queue[p] = rest
      /\ \A m \in Metas : in = {m} => after.queue[p] = Append(rest, m)
      /\ n = 0 => after.grants[p] = NoGrant
      /\ n > 0 => after.grants[p] = [vc |-> q[1].vc, pool |-> q[1].pool, count |-> n]
  BY <1>1, ReturnPort
<1>3. /\ q \in Seq(Metas) /\ l \in Nat /\ l <= ReturnDepth /\ ReturnDepth \in Nat \ {0}
      /\ rest = SubSeq(q, n + 1, l)
  BY LenProperties, ReturnAssumption DEF ReturnsOK, Rest
<1>4. batch = n
  <2>1. (p \in enabled) \in BOOLEAN
    OBVIOUS
  <2> QED  BY <1>3, <2>1, BatchIsMerged DEF Out
<1>5. \A i \in 1..l - n : rest[i] = q[i + n]
  <2> HIDE DEF q, n
  <2> QED  BY <1>2, <1>3, CountRest
<1>6. HwReturnPort(q, p, beats, p \in enabled) =
        [count |-> l - batch + Cardinality(accepted), saved |-> moved, grant |-> grant]
  BY DEF HwReturnPort
<1>7. /\ in = {} => accepted = {}
      /\ \A m \in Metas : in = {m} => \E b \in beats : accepted = {b} /\ b.meta = m
  <2>1. in = {b.meta : b \in accepted}
    BY DEF In, ReturnReady
  <2> HIDE DEF accepted
  <2>2. accepted = {} \/ \E b \in beats : accepted = {b}
    BY <1>1 DEF accepted, Single
  <2> QED  BY <2>1, <2>2
<1> HIDE DEF after, q, l, n, rest, in, batch, accepted
<1>8. grant = after.grants[p]
  <2>1. n > 0 => saved[0] = q[1]
    <3> SUFFICES ASSUME n > 0 PROVE saved[0] = q[1]
      OBVIOUS
    <3>1. 0 \in Nat /\ 0 < Len(q) /\ 0 < ReturnDepth /\ 0 + 1 = 1
      BY <1>2, <1>3 DEF l
    <3>2. Saved(q)[0] = q[0 + 1]
      BY <1>3, <3>1, SavedIs
    <3> QED  BY <3>1, <3>2
  <2> HIDE DEF saved
  <2>2. n = 0 \/ n > 0
    BY <1>2, <1>3
  <2> QED  BY <1>2, <1>4, <2>1, <2>2
<1>9. ASSUME NEW slot \in 0..ReturnDepth - 1
      PROVE  shifted(slot) = IF slot < l - n THEN rest[slot + 1] ELSE Blank
  <2>1. slot \in Nat /\ slot + n \in Nat /\ n \in Nat /\ slot < ReturnDepth
    BY <1>2, <1>3
  <2>2. CASE slot < l - n
    <3>1. slot + n < l /\ slot + n < ReturnDepth /\ slot + 1 \in 1..l - n
          /\ slot + 1 + n = slot + n + 1
      BY <1>2, <1>3, <2>1, <2>2
    <3>2. saved[slot + n] = q[slot + n + 1]
      BY <1>3, <2>1, <3>1, SavedIs DEF l
    <3>3. rest[slot + 1] = q[slot + 1 + n]
      BY <1>5, <3>1
    <3> HIDE DEF saved
    <3> QED  BY <1>4, <2>2, <3>1, <3>2, <3>3
  <2>3. CASE ~(slot < l - n)
    <3>1. slot + n >= l
      BY <1>2, <1>3, <2>1, <2>3
    <3>2. slot + n < ReturnDepth => saved[slot + n] = Blank
      BY <1>3, <2>1, <3>1, SavedIs DEF l
    <3> HIDE DEF saved
    <3> QED  BY <1>4, <2>3, <3>2
  <2> QED  BY <2>2, <2>3
<1> HIDE DEF shifted, grant, saved
<1>10. CASE in = {}
  <2>1. accepted = {} /\ Cardinality(accepted) = 0
    BY <1>7, <1>10, FS_EmptySet
  <2>2. after.queue[p] = rest
    BY <1>2, <1>10
  <2>3. l - batch + Cardinality(accepted) = Len(rest)
    BY <1>2, <1>3, <1>4, <2>1
  <2>4. moved = Saved(rest)
    BY <1>2, <1>9, <2>1 DEF Saved
  <2> HIDE DEF moved
  <2> QED  BY <1>6, <1>8, <2>2, <2>3, <2>4 DEF after, q
<1>11. ASSUME NEW m \in Metas, in = {m}
       PROVE  HwReturnPort(q, p, beats, p \in enabled)
                = [count |-> Len(after.queue[p]), saved |-> Saved(after.queue[p]),
                   grant |-> after.grants[p]]
  <2>1. PICK b \in beats : accepted = {b} /\ b.meta = m
    BY <1>7, <1>11
  <2>2. Cardinality(accepted) = 1 /\ (CHOOSE c \in accepted : TRUE).meta = m /\ accepted # {}
    <3>1. (CHOOSE c \in {b} : TRUE) = b
      OBVIOUS
    <3> QED  BY <2>1, <3>1, FS_Singleton
  <2> DEFINE t == Append(rest, m)
  <2>3. /\ after.queue[p] = t /\ Len(t) = l - n + 1
        /\ \A i \in 1..l - n : t[i] = rest[i]
        /\ t[l - n + 1] = m
    <3>1. /\ Len(t) = Len(rest) + 1 /\ \A i \in 1..Len(rest) : t[i] = rest[i]
          /\ t[Len(rest) + 1] = m
      BY <1>2, AppendProperties
    <3>2. after.queue[p] = t /\ Len(rest) = l - n
      BY <1>2, <1>11
    <3> HIDE DEF t
    <3> QED  BY <3>1, <3>2
  <2> HIDE DEF t
  <2>4. l - batch + Cardinality(accepted) = Len(t)
    BY <1>2, <1>3, <1>4, <2>2, <2>3
  <2>5. ASSUME NEW slot \in 0..ReturnDepth - 1
        PROVE  moved[slot] = IF slot < Len(t) THEN t[slot + 1] ELSE Blank
    <3>1. moved[slot] = IF l - n = slot THEN m ELSE shifted(slot)
      BY <1>4, <2>2
    <3>2. slot \in Nat /\ l - n \in Nat
      BY <1>2, <1>3
    <3> HIDE DEF moved
    <3>3. CASE slot < l - n
      <4>1. slot + 1 \in 1..l - n /\ slot < Len(t) /\ l - n # slot
        BY <2>3, <3>2, <3>3
      <4> QED  BY <1>9, <2>3, <3>1, <3>3, <4>1
    <3>4. CASE slot = l - n
      <4>1. slot < Len(t) /\ slot + 1 = l - n + 1
        BY <2>3, <3>2, <3>4
      <4> QED  BY <2>3, <3>1, <3>4, <4>1
    <3>5. CASE slot > l - n
      <4>1. ~(slot < Len(t)) /\ l - n # slot /\ ~(slot < l - n)
        BY <2>3, <3>2, <3>5
      <4> QED  BY <1>9, <3>1, <4>1
    <3> QED  BY <3>2, <3>3, <3>4, <3>5
  <2>6. moved = Saved(t)
    BY <2>5 DEF Saved
  <2> HIDE DEF moved
  <2> QED  BY <1>6, <1>8, <2>3, <2>4, <2>6
<1> QED  BY <1>2, <1>10, <1>11 DEF after, q

-------------------------------------------------------------------------------
(* The FIFO.                                                                     *)

\* What a cache of two registers shows.
LEMMA CacheShows ==
  ASSUME NEW h, NEW t
  PROVE  /\ SubSeq(<<h, t>>, 1, 0) = << >>
         /\ SubSeq(<<h, t>>, 1, 1) = <<h>>
         /\ SubSeq(<<h, t>>, 1, 2) = <<h, t>>
<1>1. SubSeq(<<h, t>>, 1, 0) = << >>
  BY SubSeqEmpty
<1>2. SubSeq(<<h, t>>, 1, 1) = <<h>>
  <2>1. /\ SubSeq(<<h, t>>, 1, 1) \in Seq({h, t}) /\ Len(SubSeq(<<h, t>>, 1, 1)) = 1
        /\ SubSeq(<<h, t>>, 1, 1)[1] = h
    OBVIOUS
  <2>2. <<h>> \in Seq({h, t}) /\ Len(<<h>>) = 1 /\ <<h>>[1] = h
    OBVIOUS
  <2>3. \A i \in 1..Len(<<h>>) : SubSeq(<<h, t>>, 1, 1)[i] = <<h>>[i]
    BY <2>1, <2>2
  <2> QED  BY <2>1, <2>2, <2>3, SeqEqual
<1>3. SubSeq(<<h, t>>, 1, 2) = <<h, t>>
  <2>1. <<h, t>> \in Seq({h, t}) /\ Len(<<h, t>>) = 2
    OBVIOUS
  <2> QED  BY <2>1, SubSeqFull
<1> QED  BY <1>1, <1>2, <1>3

\* The i-th place of the memory from an address on.
Place(base, i) == (base + i) % Depth

\* An address behind a base wraps at most once, and stays an address.
LEMMA PlaceIs ==
  ASSUME NEW base \in 0..Depth - 1, NEW i \in 0..Depth
  PROVE  /\ Place(base, i) = IF base + i < Depth THEN base + i ELSE base + i - Depth
         /\ Place(base, i) \in 0..Depth - 1
<1>1. Depth \in Nat \ {0}
  BY FifoAssumption
<1>2. base \in Int /\ 0 <= base /\ base < Depth /\ i \in Int /\ 0 <= i /\ i <= Depth
  BY <1>1
<1>3. (base + i) % Depth = IF base + i < Depth THEN base + i ELSE base + i - Depth
  BY <1>1, <1>2
<1> QED  BY <1>1, <1>2, <1>3 DEF Place

\* Places are distinct, and those after the next address are one further.
LEMMA PlacesMove ==
  ASSUME NEW base \in 0..Depth - 1, NEW i \in 0..Depth - 1
  PROVE  /\ Place(base, 0) = base
         /\ After(base) \in 0..Depth - 1
         /\ Place(base, i + 1) = After(Place(base, i)) /\ Place(After(base), i) = Place(base, i + 1)
         /\ \A j \in 0..Depth - 1 : Place(base, i) = Place(base, j) => i = j
<1>1. Depth \in Nat \ {0} /\ i \in 0..Depth /\ i + 1 \in 0..Depth /\ 0 \in 0..Depth
  BY FifoAssumption
<1>2. After(base) = (IF base = Depth - 1 THEN 0 ELSE base + 1) /\ After(base) \in 0..Depth - 1
  BY <1>1 DEF After
<1>3. /\ Place(base, 0) = IF base + 0 < Depth THEN base + 0 ELSE base + 0 - Depth
      /\ Place(base, i) = IF base + i < Depth THEN base + i ELSE base + i - Depth
      /\ Place(base, i + 1) = IF base + (i + 1) < Depth THEN base + (i + 1) ELSE base + (i + 1) - Depth
      /\ Place(After(base), i) = IF After(base) + i < Depth THEN After(base) + i ELSE After(base) + i - Depth
  BY <1>1, <1>2, PlaceIs
<1>4. ASSUME NEW j \in 0..Depth - 1, Place(base, i) = Place(base, j) PROVE i = j
  <2>1. Place(base, j) = IF base + j < Depth THEN base + j ELSE base + j - Depth
    BY <1>1, PlaceIs
  <2> QED  BY <1>1, <1>3, <1>4, <2>1
<1>5. After(Place(base, i)) = IF Place(base, i) = Depth - 1 THEN 0 ELSE Place(base, i) + 1
  BY DEF After
<1>6. Place(base, i + 1) = After(Place(base, i))
  BY <1>1, <1>3, <1>5
<1>7. Place(After(base), i) = Place(base, i + 1)
  BY <1>1, <1>2, <1>3
<1>8. Place(base, 0) = base
  BY <1>1, <1>3
<1> QED  BY <1>2, <1>4, <1>6, <1>7, <1>8

\* The registers have the form of the circuit and hold the queue.
FifoCircuit ==
  /\ IInv
  /\ hw = [total |-> hw.total, unread |-> hw.unread, writeAddr |-> hw.writeAddr,
           readAddr |-> hw.readAddr, cached |-> hw.cached, pending |-> hw.pending,
           head |-> hw.head, tail |-> hw.tail, answer |-> hw.answer, memory |-> hw.memory]
  /\ hw.unread \in Nat /\ hw.cached \in 0..2 /\ hw.pending \in BOOLEAN
  /\ hw.readAddr \in 0..Depth - 1 /\ hw.writeAddr = Place(hw.readAddr, hw.unread)
  /\ hw.memory = [a \in 0..Depth - 1 |-> hw.memory[a]]
  /\ HardwareHoldsQueue

\* The queue, read off the registers.
LEMMA QueueOfRegisters ==
  ASSUME FifoCircuit
  PROVE  /\ Len(fifo.unread) = hw.unread /\ hw.unread \in 0..Depth
         /\ \A i \in 1..hw.unread : fifo.unread[i] = hw.memory[Place(hw.readAddr, i - 1)]
         /\ hw.pending => fifo.pending = <<hw.answer>>
         /\ ~hw.pending => fifo.pending = << >>
         /\ Len(fifo.pending) = Bit(hw.pending)
         /\ Len(fifo.visible) = hw.cached
         /\ hw.cached = 0 => fifo.visible = << >> /\ hw.head = Zero
         /\ hw.cached = 1 => fifo.visible = <<hw.head>>
         /\ hw.cached = 2 => fifo.visible = <<hw.head, hw.tail>>
         /\ hw.total = hw.unread + Bit(hw.pending) + hw.cached
         /\ hw.total <= Depth /\ hw.cached + Bit(hw.pending) <= 2
<1>1. /\ fifo.unread \in Seq(Words) /\ fifo.pending \in Optional /\ fifo.visible \in Seq(Words)
      /\ Count(fifo) <= Depth /\ Len(fifo.visible) + Len(fifo.pending) <= 2
  BY DEF FifoCircuit, IInv, TypeOK, CacheSuffices
<1>2. /\ fifo.unread = [i \in 1..hw.unread |-> hw.memory[(hw.readAddr + i - 1) % Depth]]
      /\ fifo.pending = IF hw.pending THEN <<hw.answer>> ELSE << >>
      /\ fifo.visible = SubSeq(<<hw.head, hw.tail>>, 1, hw.cached)
      /\ hw.total = Count(fifo)
      /\ hw.cached = 0 => hw.head = Zero
  BY DEF FifoCircuit, HardwareHoldsQueue
<1>3. hw.unread \in Nat /\ hw.cached \in 0..2 /\ hw.pending \in BOOLEAN /\ hw.readAddr \in 0..Depth - 1
  BY DEF FifoCircuit
<1>4. Len(fifo.unread) = hw.unread
  BY <1>1, <1>2, <1>3, LenProperties
<1>5. ASSUME NEW i \in 1..hw.unread
      PROVE  fifo.unread[i] = hw.memory[Place(hw.readAddr, i - 1)]
  <2>1. hw.readAddr \in Int /\ i \in Int
    BY <1>3
  <2>2. hw.readAddr + i - 1 = hw.readAddr + (i - 1)
    BY <2>1
  <2> QED  BY <1>2, <2>2 DEF Place
<1>6. /\ hw.cached = 0 => fifo.visible = << >>
      /\ hw.cached = 1 => fifo.visible = <<hw.head>>
      /\ hw.cached = 2 => fifo.visible = <<hw.head, hw.tail>>
  BY <1>2, CacheShows
<1>7. Len(fifo.visible) = hw.cached
  <2>1. hw.cached = 0 \/ hw.cached = 1 \/ hw.cached = 2
    BY <1>3
  <2>2. Len(<< >>) = 0 /\ Len(<<hw.head>>) = 1 /\ Len(<<hw.head, hw.tail>>) = 2
    OBVIOUS
  <2> QED  BY <1>6, <2>1, <2>2, Zenon
<1>8. Len(fifo.pending) = Bit(hw.pending)
  <2>1. Len(<< >>) = 0 /\ Len(<<hw.answer>>) = 1
    OBVIOUS
  <2> QED  BY <1>2, <1>3, <2>1 DEF Bit
<1>9. hw.total = hw.unread + Bit(hw.pending) + hw.cached
  BY <1>2, <1>4, <1>7, <1>8, Zenon DEF Count
<1>10. Bit(hw.pending) \in {0, 1}
  BY DEF Bit
<1>11. hw.total <= Depth /\ hw.cached + Bit(hw.pending) <= 2
  BY <1>1, <1>2, <1>7, <1>8
<1>12. hw.unread \in 0..Depth
  BY <1>3, <1>9, <1>10, <1>11, FifoAssumption
<1> QED  BY <1>2, <1>3, <1>4, <1>5, <1>6, <1>7, <1>8, <1>9, <1>11, <1>12

\* A counter moves by what enters and what leaves.
LEMMA UpIs ==
  ASSUME NEW count \in Int, NEW more \in BOOLEAN, NEW less \in BOOLEAN
  PROVE  Up(count, more, less) = count + Bit(more) - Bit(less)
BY DEF Up, Bit

\* What the circuit decides at an edge.
Stores(data) == hw.total < Depth /\ data # << >>
Takes(ready) == hw.cached # 0 /\ ready
Stays(ready) == IF Takes(ready) THEN hw.cached - 1 ELSE hw.cached
Issues(ready) == hw.unread # 0 /\ Stays(ready) + Bit(hw.pending) < 2

\* The registers after an edge.
LEMMA RegistersAfter ==
  ASSUME FifoCircuit, NEW data, NEW ready \in BOOLEAN, hw' = HwStep(hw, data, ready)
  PROVE  /\ hw' = [total |-> hw'.total, unread |-> hw'.unread, writeAddr |-> hw'.writeAddr,
                   readAddr |-> hw'.readAddr, cached |-> hw'.cached, pending |-> hw'.pending,
                   head |-> hw'.head, tail |-> hw'.tail, answer |-> hw'.answer,
                   memory |-> hw'.memory]
         /\ hw'.total = hw.total + Bit(Stores(data)) - Bit(Takes(ready))
         /\ hw'.unread = hw.unread + Bit(Stores(data)) - Bit(Issues(ready))
         /\ hw'.writeAddr = IF Stores(data) THEN After(hw.writeAddr) ELSE hw.writeAddr
         /\ hw'.readAddr = IF Issues(ready) THEN After(hw.readAddr) ELSE hw.readAddr
         /\ hw'.cached = Stays(ready) + Bit(hw.pending)
         /\ hw'.pending = Issues(ready)
         /\ hw'.head = CASE Takes(ready) /\ hw.cached = 2 -> hw.tail
                        [] ~(Takes(ready) /\ hw.cached = 2) /\ hw.pending /\ Stays(ready) = 0 -> hw.answer
                        [] Takes(ready) /\ hw.cached # 2 /\ ~hw.pending -> Zero
                        [] OTHER -> hw.head
         /\ hw'.tail = CASE hw.pending /\ Stays(ready) = 1 -> hw.answer
                        [] Takes(ready) /\ hw.cached = 2 /\ ~hw.pending -> Zero
                        [] OTHER -> hw.tail
         /\ hw'.answer = IF Issues(ready) THEN hw.memory[hw.readAddr] ELSE hw.answer
         /\ hw'.memory = IF Stores(data) THEN [hw.memory EXCEPT ![hw.writeAddr] = Head(data)]
                         ELSE hw.memory
<1> DEFINE s == HwStep(hw, data, ready)
<1>1. /\ hw.total \in Int /\ hw.unread \in Int
      /\ Stores(data) \in BOOLEAN /\ Takes(ready) \in BOOLEAN /\ Issues(ready) \in BOOLEAN
  <2>1. hw.total \in Int
    <3>1. hw.total = hw.unread + Bit(hw.pending) + hw.cached /\ hw.unread \in Nat /\ hw.cached \in 0..2
      BY QueueOfRegisters DEF FifoCircuit
    <3> QED  BY <3>1 DEF Bit
  <2> QED  BY <2>1 DEF FifoCircuit, Stores, Takes, Issues
<1>2. /\ s.total = Up(hw.total, Stores(data), Takes(ready))
      /\ s.unread = Up(hw.unread, Stores(data), Issues(ready))
  BY DEF HwStep, Stores, Takes, Issues, Stays, Bit
<1>3. /\ s.total = hw.total + Bit(Stores(data)) - Bit(Takes(ready))
      /\ s.unread = hw.unread + Bit(Stores(data)) - Bit(Issues(ready))
  <2> HIDE DEF s
  <2> QED  BY <1>1, <1>2, UpIs
<1>4. /\ s.writeAddr = (IF Stores(data) THEN After(hw.writeAddr) ELSE hw.writeAddr)
      /\ s.readAddr = (IF Issues(ready) THEN After(hw.readAddr) ELSE hw.readAddr)
      /\ s.cached = Stays(ready) + Bit(hw.pending)
      /\ s.answer = (IF Issues(ready) THEN hw.memory[hw.readAddr] ELSE hw.answer)
      /\ s.memory = (IF Stores(data) THEN [hw.memory EXCEPT ![hw.writeAddr] = Head(data)]
                     ELSE hw.memory)
  BY DEF HwStep, Stores, Takes, Issues, Stays, Bit
<1>5. s.pending = Issues(ready)
  BY DEF HwStep, Takes, Issues, Stays, Bit
<1>6. /\ s.head = CASE Takes(ready) /\ hw.cached = 2 -> hw.tail
                  [] ~(Takes(ready) /\ hw.cached = 2) /\ hw.pending /\ Stays(ready) = 0 -> hw.answer
                  [] Takes(ready) /\ hw.cached # 2 /\ ~hw.pending -> Zero
                  [] OTHER -> hw.head
      /\ s.tail = CASE hw.pending /\ Stays(ready) = 1 -> hw.answer
                  [] Takes(ready) /\ hw.cached = 2 /\ ~hw.pending -> Zero
                  [] OTHER -> hw.tail
  BY DEF HwStep, Takes, Stays
<1>7. s = [total |-> s.total, unread |-> s.unread, writeAddr |-> s.writeAddr,
           readAddr |-> s.readAddr, cached |-> s.cached, pending |-> s.pending,
           head |-> s.head, tail |-> s.tail, answer |-> s.answer, memory |-> s.memory]
  BY DEF HwStep
<1>8. hw' = s
  OBVIOUS
<1> HIDE DEF s
<1> QED  BY <1>3, <1>4, <1>5, <1>6, <1>7, <1>8, Zenon

\* The circuit decides as the reference does.
LEMMA CircuitDecides ==
  ASSUME FifoCircuit, NEW data \in Optional, NEW ready \in BOOLEAN
  PROVE  /\ Takes(ready) \in BOOLEAN /\ Takes(ready) = Pops(fifo, ready)
         /\ Issues(ready) \in BOOLEAN /\ Issues(ready) = Reads(fifo, ready)
         /\ Stores(data) \in BOOLEAN
         /\ Stores(data) => Entering(fifo, data) = data /\ \E w \in Words : data = <<w>>
         /\ ~Stores(data) => Entering(fifo, data) = << >>
<1>1. /\ Len(fifo.unread) = hw.unread /\ hw.unread \in 0..Depth
      /\ Len(fifo.pending) = Bit(hw.pending) /\ Len(fifo.visible) = hw.cached
      /\ hw.total = hw.unread + Bit(hw.pending) + hw.cached
  BY QueueOfRegisters
<1>2. fifo.unread \in Seq(Words) /\ fifo.visible \in Seq(Words)
  BY DEF FifoCircuit, IInv, TypeOK
<1>3. hw.cached \in 0..2 /\ Bit(hw.pending) \in {0, 1} /\ Depth \in Nat
  BY FifoAssumption DEF FifoCircuit, Bit
<1>4. (fifo.unread # << >>) <=> hw.unread # 0
  BY <1>1, <1>2, EmptySeq
<1>5. (fifo.visible # << >>) <=> hw.cached # 0
  BY <1>1, <1>2, EmptySeq
<1>6. Takes(ready) <=> Pops(fifo, ready)
  BY <1>5 DEF Takes, Pops, Valid
<1>7. Room(fifo, Pops(fifo, ready)) <=> Stays(ready) + Bit(hw.pending) < 2
  <2>1. Len(fifo.visible) + Len(fifo.pending) = hw.cached + Bit(hw.pending)
    BY <1>1
  <2> DEFINE pop == IF Pops(fifo, ready) THEN 1 ELSE 0
             held2 == Len(fifo.visible) + Len(fifo.pending)
  <2>4. Room(fifo, Pops(fifo, ready)) <=> held2 - pop < 2
    BY DEF Room, Pops, Valid
  <2>2. CASE Takes(ready)
    <3>1. Stays(ready) = hw.cached - 1 /\ pop = 1
      BY <1>6, <2>2, Zenon DEF Stays
    <3> HIDE DEF pop, held2
    <3>2. held2 = hw.cached + Bit(hw.pending)
      BY <2>1 DEF held2
    <3>3. held2 - pop = Stays(ready) + Bit(hw.pending)
      BY <1>3, <3>1, <3>2
    <3> QED  BY <2>4, <3>3, Zenon
  <2>3. CASE ~Takes(ready)
    <3>1. Stays(ready) = hw.cached /\ pop = 0
      BY <1>6, <2>3, Zenon DEF Stays
    <3> HIDE DEF pop, held2
    <3>2. held2 = hw.cached + Bit(hw.pending)
      BY <2>1 DEF held2
    <3>3. held2 - pop = Stays(ready) + Bit(hw.pending)
      BY <1>3, <3>1, <3>2
    <3> QED  BY <2>4, <3>3, Zenon
  <2> QED  BY <2>2, <2>3
<1>8. Issues(ready) <=> Reads(fifo, ready)
  BY <1>4, <1>7 DEF Issues, Reads
<1>9. Ready(fifo, Depth) <=> hw.total < Depth
  <2>1. hw.total = Count(fifo)
    BY DEF FifoCircuit, HardwareHoldsQueue
  <2> QED  BY <2>1 DEF Ready
<1>10. /\ Stores(data) => Entering(fifo, data) = data /\ \E w \in Words : data = <<w>>
       /\ ~Stores(data) => Entering(fifo, data) = << >>
  BY <1>9 DEF Stores, Entering, Optional
<1>11. /\ Takes(ready) \in BOOLEAN /\ Issues(ready) \in BOOLEAN /\ Stores(data) \in BOOLEAN
       /\ Pops(fifo, ready) \in BOOLEAN /\ Reads(fifo, ready) \in BOOLEAN
  BY DEF Takes, Issues, Stores, Pops, Valid, Reads
<1> QED  BY <1>6, <1>8, <1>10, <1>11, Zenon

\* The memory still holds what waits in it.
LEMMA MemoryHoldsRest ==
  ASSUME FifoCircuit, NEW data \in Optional, NEW ready \in BOOLEAN,
         Edge(data, ready), hw' = HwStep(hw, data, ready)
  PROVE  /\ hw'.unread \in Nat /\ Len(fifo'.unread) = hw'.unread
         /\ hw'.readAddr \in 0..Depth - 1 /\ hw'.writeAddr = Place(hw'.readAddr, hw'.unread)
         /\ hw'.memory = [a \in 0..Depth - 1 |-> hw'.memory[a]]
         /\ \A i \in 1..hw'.unread : fifo'.unread[i] = hw'.memory[Place(hw'.readAddr, i - 1)]
<1> DEFINE n == hw.unread
           base == hw.readAddr
           u == fifo.unread
           w == Bit(Stores(data))
           g == Bit(Issues(ready))
           n2 == hw'.unread
           base2 == hw'.readAddr
           u2 == fifo'.unread
           mem == hw.memory
           mem2 == hw'.memory
           left == Remaining(u, Issues(ready))
           new == Entering(fifo, data)
<1>1. /\ Len(u) = n /\ n \in 0..Depth /\ \A i \in 1..n : u[i] = mem[Place(base, i - 1)]
      /\ hw.total = n + Bit(hw.pending) + hw.cached /\ hw.total <= Depth
  BY QueueOfRegisters
<1>2. /\ Issues(ready) \in BOOLEAN /\ Issues(ready) = Reads(fifo, ready)
      /\ Stores(data) \in BOOLEAN
      /\ Stores(data) => new = data /\ \E x \in Words : data = <<x>>
      /\ ~Stores(data) => new = << >>
  BY CircuitDecides
<1>3. /\ n2 = n + w - g
      /\ hw'.writeAddr = IF Stores(data) THEN After(hw.writeAddr) ELSE hw.writeAddr
      /\ base2 = IF Issues(ready) THEN After(base) ELSE base
      /\ mem2 = IF Stores(data) THEN [mem EXCEPT ![hw.writeAddr] = Head(data)] ELSE mem
  BY RegistersAfter
<1>4. /\ u \in Seq(Words) /\ base \in 0..Depth - 1 /\ hw.writeAddr = Place(base, n)
      /\ mem = [a \in 0..Depth - 1 |-> mem[a]] /\ hw.cached \in 0..2 /\ Bit(hw.pending) \in {0, 1}
      /\ Depth \in Nat \ {0} /\ fifo \in Sequences3
  BY FifoAssumption DEF FifoCircuit, IInv, TypeOK, Sequences3, Bit
<1>5. w \in {0, 1} /\ g \in {0, 1}
  BY DEF Bit
<1>6. Stores(data) => n < Depth
  BY <1>1, <1>4 DEF Stores
<1>7. Issues(ready) => n > 0
  BY <1>1 DEF Issues
<1>8. u2 = left \o new
  BY <1>2, <1>4, StepParts
<1>9. /\ left \in Seq(Words) /\ Len(left) = n - g
      /\ \A i \in 1..n - g : left[i] = u[i + g]
  <2>1. CASE Issues(ready)
    <3>1. u # << >>
      BY <1>1, <1>7, <2>1, EmptySeq
    <3>2. left = Tail(u) /\ g = 1
      BY <2>1 DEF Remaining, Bit
    <3>3. Tail(u) \in Seq(Words) /\ Len(Tail(u)) = Len(u) - 1
          /\ \A i \in 1..Len(Tail(u)) : Tail(u)[i] = u[i + 1]
      BY <1>4, <3>1, HeadTailProperties
    <3> HIDE DEF left, g, u, n
    <3> QED  BY <1>1, <3>2, <3>3
  <2>2. CASE ~Issues(ready)
    <3>1. left = u /\ g = 0
      BY <2>2 DEF Remaining, Bit
    <3> HIDE DEF left, g, u, n
    <3>2. n - 0 = n /\ \A i \in 1..n : i + 0 = i
      BY <1>1
    <3> QED  BY <1>1, <1>4, <3>1, <3>2
  <2> QED  BY <1>2, <2>1, <2>2
<1>10. /\ new \in Seq(Words) /\ Len(new) = w
       /\ w = 1 => new[1] = Head(data) /\ Stores(data)
  <2>1. CASE Stores(data)
    <3>1. PICK x \in Words : data = <<x>>
      BY <1>2, <2>1
    <3>2. <<x>> \in Seq(Words) /\ Len(<<x>>) = 1 /\ <<x>>[1] = x /\ Head(<<x>>) = x
      OBVIOUS
    <3>3. new = data /\ w = 1
      BY <1>2, <2>1 DEF Bit
    <3> HIDE DEF new, w
    <3> QED  BY <2>1, <3>1, <3>2, <3>3
  <2>2. CASE ~Stores(data)
    <3>1. new = << >> /\ w = 0
      BY <1>2, <2>2 DEF Bit
    <3> HIDE DEF new, w
    <3> QED  BY <3>1, EmptySeq
  <2> QED  BY <1>2, <2>1, <2>2
<1>11. g = 1 <=> Issues(ready)
  BY DEF Bit
<1>12. w = 1 <=> Stores(data)
  BY DEF Bit
<1> HIDE DEF n, base, u, w, g, n2, base2, u2, mem, mem2, left, new
<1>13. /\ Len(u2) = n - g + w
       /\ \A i \in 1..(n - g + w) : u2[i] = IF i <= n - g THEN left[i] ELSE new[i - (n - g)]
  <2>1. /\ Len(left \o new) = Len(left) + Len(new)
        /\ \A i \in 1..(Len(left) + Len(new)) :
             (left \o new)[i] = IF i <= Len(left) THEN left[i] ELSE new[i - Len(left)]
    BY <1>9, <1>10, ConcatProperties
  <2>2. Len(left) = n - g /\ Len(new) = w
    BY <1>9, <1>10
  <2> QED  BY <1>8, <2>1, <2>2, Zenon
<1>14. n2 \in Nat /\ n2 = n - g + w /\ n2 <= Depth
  BY <1>1, <1>3, <1>4, <1>5, <1>6, <1>7, <1>11, <1>12
<1>15. base2 \in 0..Depth - 1 /\ \A i \in 0..Depth - 1 : i + g <= Depth => Place(base2, i) = Place(base, i + g)
  <2>1. base2 \in 0..Depth - 1
    <3>1. 0 \in 0..Depth - 1
      BY <1>4
    <3> QED  BY <1>3, <1>4, <3>1, PlacesMove
  <2>2. ASSUME NEW i \in 0..Depth - 1, i + g <= Depth PROVE Place(base2, i) = Place(base, i + g)
    <3>1. CASE g = 1
      BY <1>3, <1>4, <1>11, <3>1, PlacesMove
    <3>2. CASE g = 0
      <4>1. i + 0 = i /\ base2 = base
        BY <1>3, <1>5, <1>11, <3>2
      <4> QED  BY <3>2, <4>1
    <3> QED  BY <1>5, <3>1, <3>2
  <2> QED  BY <2>1, <2>2
<1>16. hw'.writeAddr = Place(base2, n2)
  <2>1. hw'.writeAddr = Place(base, n + w)
    <3>1. CASE w = 1
      <4>1. n \in 0..Depth - 1
        BY <1>1, <1>4, <1>6, <1>12, <3>1
      <4>2. Place(base, n + 1) = After(Place(base, n))
        BY <1>4, <4>1, PlacesMove
      <4> QED  BY <1>3, <1>4, <1>12, <3>1, <4>2, Zenon
    <3>2. CASE w = 0
      <4>1. n + 0 = n
        BY <1>1
      <4> QED  BY <1>3, <1>4, <1>12, <3>2, <4>1
    <3> QED  BY <1>5, <3>1, <3>2
  <2>2. n2 + g = n + w
    BY <1>1, <1>5, <1>14
  <2>3. CASE n2 < Depth
    <3>1. n2 \in 0..Depth - 1 /\ n2 + g <= Depth
      BY <1>1, <1>4, <1>5, <1>6, <1>12, <1>14, <2>2, <2>3
    <3> QED  BY <1>15, <2>1, <2>2, <3>1
  <2>4. CASE n2 = Depth
    <3>1. g = 0
      BY <1>1, <1>4, <1>5, <1>6, <1>12, <1>14, <2>2, <2>4
    <3>2. base2 = base /\ n2 = n + w
      BY <1>3, <1>11, <1>14, <2>2, <3>1
    <3> QED  BY <2>1, <3>2
  <2> QED  BY <1>4, <1>14, <2>3, <2>4
<1>17. mem2 = [a \in 0..Depth - 1 |-> mem2[a]]
  BY <1>3, <1>4
<1>18. ASSUME NEW i \in 1..n2 PROVE u2[i] = mem2[Place(base2, i - 1)]
  <2>1. /\ i - 1 \in 0..Depth - 1 /\ i - 1 + g <= Depth /\ i \in Nat /\ i - 1 + g = i + g - 1
        /\ i - 1 + g \in 0..Depth
    BY <1>1, <1>4, <1>5, <1>6, <1>7, <1>11, <1>12, <1>14
  <2>2. Place(base2, i - 1) = Place(base, i + g - 1)
    BY <1>15, <2>1
  <2>3. CASE i <= n - g
    <3>1. i \in 1..n - g /\ i + g \in 1..n /\ i \in 1..(n - g + w)
      BY <1>1, <1>5, <1>14, <2>1, <2>3
    <3>2. u2[i] = mem[Place(base, i + g - 1)]
      <4>1. u2[i] = left[i]
        BY <1>13, <2>3, <3>1
      <4>2. left[i] = u[i + g]
        BY <1>9, <3>1
      <4>3. u[i + g] = mem[Place(base, (i + g) - 1)]
        <5> DEFINE k == i + g
        <5>1. k \in 1..n
          BY <3>1
        <5> HIDE DEF k
        <5>2. u[k] = mem[Place(base, k - 1)]
          BY <1>1, <5>1
        <5> QED  BY <5>2 DEF k
      <4>4. (i + g) - 1 = i + g - 1
        BY <1>5, <2>1
      <4> QED  BY <4>1, <4>2, <4>3, <4>4, Zenon
    <3>3. CASE w = 0
      BY <1>3, <1>12, <2>2, <3>2, <3>3
    <3>4. CASE w = 1
      <4>1. n \in 0..Depth - 1 /\ i + g - 1 \in 0..Depth - 1 /\ i + g - 1 # n
        <5>1. n < Depth /\ n \in Nat
          BY <1>1, <1>6, <1>12, <3>4
        <5>2. i + g >= 1 /\ i + g <= n /\ i + g \in Int
          <6>1. i + g \in 1..n
            BY <3>1
          <6> QED  BY <6>1, <5>1
        <5>3. i \in Int /\ g \in Int
          BY <1>5, <2>1
        <5> QED  BY <1>4, <5>1, <5>2, <5>3
      <4>2. Place(base, i + g - 1) # hw.writeAddr
        <5> DEFINE j == i + g - 1
        <5>1. j \in 0..Depth - 1 /\ j # n
          BY <4>1
        <5> HIDE DEF j
        <5>2. Place(base, j) = Place(base, n) => j = n
          <6>1. base \in 0..Depth - 1 /\ n \in 0..Depth - 1
            BY <1>4, <4>1
          <6> QED  BY <5>1, <6>1, PlacesMove, SMTT(20)
        <5>3. Place(base, j) # hw.writeAddr
          BY <1>4, <5>1, <5>2
        <5> QED  BY <5>3 DEF j
      <4>3. Place(base, i + g - 1) \in 0..Depth - 1
        BY <1>4, <4>1, PlaceIs
      <4>4. mem2[Place(base, i + g - 1)] = mem[Place(base, i + g - 1)]
        BY <1>3, <1>4, <1>12, <3>4, <4>2, <4>3
      <4> QED  BY <2>2, <3>2, <4>4
    <3> QED  BY <1>5, <3>3, <3>4
  <2>4. CASE i > n - g
    <3>1. w = 1 /\ i = n - g + 1 /\ i + g - 1 = n /\ i - (n - g) = 1 /\ i \in 1..(n - g + w)
      BY <1>1, <1>5, <1>14, <2>1, <2>4
    <3>2. u2[i] = Head(data) /\ Stores(data)
      <4>1. ~(i <= n - g)
        BY <1>1, <1>5, <2>1, <2>4
      <4> QED  BY <1>10, <1>13, <3>1, <4>1
    <3>3. Place(base, n) = hw.writeAddr /\ hw.writeAddr \in 0..Depth - 1
      BY <1>1, <1>4, PlaceIs
    <3>4. mem2[hw.writeAddr] = Head(data)
      BY <1>3, <1>4, <3>2, <3>3
    <3> QED  BY <2>2, <3>1, <3>2, <3>3, <3>4
  <2> QED  BY <1>1, <1>5, <2>1, <2>3, <2>4
<1> QED  BY <1>13, <1>14, <1>15, <1>16, <1>17, <1>18, Zenon DEF n2, base2, u2, mem2

\* Short sequences.
LEMMA ShortSequences ==
  ASSUME NEW a, NEW b
  PROVE  /\ Tail(<<a>>) = << >> /\ Tail(<<a, b>>) = <<b>>
         /\ << >> \o << >> = << >> /\ << >> \o <<a>> = <<a>> /\ <<a>> \o << >> = <<a>>
         /\ <<a>> \o <<b>> = <<a, b>> /\ <<a, b>> \o << >> = <<a, b>>
<1>1. <<a>> \in Seq({a, b}) /\ <<b>> \in Seq({a, b}) /\ <<a, b>> \in Seq({a, b}) /\ << >> \in Seq({a, b})
  OBVIOUS
<1>2. << >> \o << >> = << >> /\ << >> \o <<a>> = <<a>> /\ <<a>> \o << >> = <<a>> /\ <<a, b>> \o << >> = <<a, b>>
  BY <1>1, ConcatEmptySeq
<1>3. Tail(<<a>>) = << >>
  <2>1. Tail(<<a>>) \in Seq({a, b}) /\ Len(Tail(<<a>>)) = 0
    OBVIOUS
  <2> QED  BY <2>1, EmptySeq
<1>4. Tail(<<a, b>>) = <<b>>
  <2>1. Tail(<<a, b>>) \in Seq({a, b}) /\ Len(Tail(<<a, b>>)) = 1 /\ Tail(<<a, b>>)[1] = b
    OBVIOUS
  <2>2. Len(<<b>>) = 1 /\ <<b>>[1] = b
    OBVIOUS
  <2>3. \A i \in 1..Len(<<b>>) : Tail(<<a, b>>)[i] = <<b>>[i]
    BY <2>1, <2>2
  <2> QED  BY <1>1, <2>1, <2>2, <2>3, SeqEqual
<1>5. <<a>> \o <<b>> = <<a, b>>
  <2> DEFINE s == <<a>> \o <<b>>
             t == <<a, b>>
  <2>1. s \in Seq({a, b}) /\ Len(s) = 2 /\ s[1] = a /\ s[2] = b
    OBVIOUS
  <2>2. t \in Seq({a, b}) /\ Len(t) = 2 /\ t[1] = a /\ t[2] = b
    OBVIOUS
  <2> HIDE DEF s, t
  <2>3. \A i \in 1..Len(s) : s[i] = t[i]
    <3>1. \A i \in 1..2 : i = 1 \/ i = 2
      OBVIOUS
    <3> QED  BY <2>1, <2>2, <3>1
  <2>4. s = t
    BY <2>1, <2>2, <2>3, SeqEqual
  <2> QED  BY <2>4 DEF s, t
<1> QED  BY <1>2, <1>3, <1>4, <1>5

\* The answer under way is the word that was read.
LEMMA AnswerIsRead ==
  ASSUME FifoCircuit, NEW data \in Optional, NEW ready \in BOOLEAN,
         Edge(data, ready), hw' = HwStep(hw, data, ready)
  PROVE  /\ hw'.pending \in BOOLEAN
         /\ fifo'.pending = IF hw'.pending THEN <<hw'.answer>> ELSE << >>
<1>1. /\ Issues(ready) \in BOOLEAN /\ Issues(ready) = Reads(fifo, ready)
  BY CircuitDecides
<1>2. /\ hw'.pending = Issues(ready)
      /\ hw'.answer = IF Issues(ready) THEN hw.memory[hw.readAddr] ELSE hw.answer
  BY RegistersAfter
<1>3. fifo'.pending = Leaving(fifo.unread, Reads(fifo, ready))
  BY StepParts DEF FifoCircuit, IInv, TypeOK, Sequences3
<1>4. CASE Issues(ready)
  <2>1. hw.unread \in 0..Depth /\ hw.unread # 0 /\ 1 \in 1..hw.unread
    BY <1>4, QueueOfRegisters, FifoAssumption DEF Issues
  <2>2. fifo.unread[1] = hw.memory[Place(hw.readAddr, 1 - 1)]
    BY <2>1, QueueOfRegisters
  <2>3. Place(hw.readAddr, 1 - 1) = hw.readAddr
    <3>1. 0 \in 0..Depth - 1 /\ 1 - 1 = 0 /\ hw.readAddr \in 0..Depth - 1
      BY FifoAssumption DEF FifoCircuit
    <3> QED  BY <3>1, PlacesMove
  <2>4. Head(fifo.unread) = fifo.unread[1]
    OBVIOUS
  <2>5. hw'.pending = TRUE /\ hw'.answer = Head(fifo.unread)
    BY <1>2, <1>4, <2>2, <2>3, <2>4
  <2>6. fifo'.pending = <<Head(fifo.unread)>>
    BY <1>1, <1>3, <1>4, Zenon DEF Leaving
  <2> QED  BY <2>5, <2>6, Zenon
<1>5. CASE ~Issues(ready)
  <2>1. hw'.pending = FALSE
    BY <1>1, <1>2, <1>5
  <2>2. fifo'.pending = << >>
    BY <1>1, <1>3, <1>5, Zenon DEF Leaving
  <2> QED  BY <2>1, <2>2, Zenon
<1> QED  BY <1>1, <1>4, <1>5

\* The two registers are the cache.
LEMMA CacheIsKept ==
  ASSUME FifoCircuit, NEW data \in Optional, NEW ready \in BOOLEAN,
         Edge(data, ready), hw' = HwStep(hw, data, ready)
  PROVE  /\ hw'.cached \in 0..2
         /\ fifo'.visible = SubSeq(<<hw'.head, hw'.tail>>, 1, hw'.cached)
         /\ hw'.cached = 0 => hw'.head = Zero
<1> DEFINE v == fifo.visible
           v2 == fifo'.visible
           p == fifo.pending
           take == Takes(ready)
           s == Stays(ready)
           h2 == hw'.head
           t2 == hw'.tail
           c == hw.cached
           c2 == hw'.cached
           h == hw.head
           t == hw.tail
           answer == hw.answer
           pending == hw.pending
<1>1. v2 = (IF take THEN Tail(v) ELSE v) \o p /\ take \in BOOLEAN
  <2>1. v2 = Remaining(v, Pops(fifo, ready)) \o p
    BY StepParts DEF FifoCircuit, IInv, TypeOK, Sequences3
  <2>2. take \in BOOLEAN /\ take = Pops(fifo, ready)
    BY CircuitDecides
  <2> QED  BY <2>1, <2>2, Zenon DEF Remaining
<1>2. /\ c2 = s + Bit(pending)
      /\ h2 = CASE take /\ c = 2 -> t
               [] ~(take /\ c = 2) /\ pending /\ s = 0 -> answer
               [] take /\ c # 2 /\ ~pending -> Zero
               [] OTHER -> h
      /\ t2 = CASE pending /\ s = 1 -> answer
               [] take /\ c = 2 /\ ~pending -> Zero
               [] OTHER -> t
  BY RegistersAfter, Zenon
<1>3. /\ c \in 0..2 /\ pending \in BOOLEAN
      /\ pending => p = <<answer>>
      /\ ~pending => p = << >>
      /\ c = 0 => v = << >> /\ h = Zero
      /\ c = 1 => v = <<h>>
      /\ c = 2 => v = <<h, t>>
      /\ c + Bit(pending) <= 2
  BY QueueOfRegisters DEF FifoCircuit
<1>4. s = IF take THEN c - 1 ELSE c
  BY DEF Stays
<1>5. take => c # 0
  BY DEF Takes
<1>6. /\ SubSeq(<<h2, t2>>, 1, 0) = << >> /\ SubSeq(<<h2, t2>>, 1, 1) = <<h2>>
      /\ SubSeq(<<h2, t2>>, 1, 2) = <<h2, t2>>
  BY CacheShows
<1>7. \A a, b : /\ Tail(<<a>>) = << >> /\ Tail(<<a, b>>) = <<b>>
                /\ << >> \o << >> = << >> /\ << >> \o <<a>> = <<a>> /\ <<a>> \o << >> = <<a>>
                /\ <<a>> \o <<b>> = <<a, b>> /\ <<a, b>> \o << >> = <<a, b>>
  BY ShortSequences, Zenon
<1>8. c = 0 \/ c = 1 \/ c = 2
  BY <1>3
<1> HIDE DEF v, v2, p, take, s, h2, t2, c, c2, h, t, answer, pending
<1> DEFINE Goal == c2 \in 0..2 /\ v2 = SubSeq(<<h2, t2>>, 1, c2) /\ (c2 = 0 => h2 = Zero)
<1>9. ASSUME c = 0 PROVE Goal
  <2>1. ~take /\ s = 0 /\ v = << >> /\ h = Zero
    BY <1>1, <1>3, <1>4, <1>5, <1>9
  <2>2. CASE pending
    <3>1. c2 = 1 /\ h2 = answer
      BY <1>2, <2>1, <2>2 DEF Bit
    <3>2. v2 = <<answer>>
      BY <1>1, <1>3, <1>7, <2>1, <2>2
    <3> QED  BY <1>6, <3>1, <3>2
  <2>3. CASE ~pending
    <3>1. c2 = 0 /\ h2 = Zero
      BY <1>2, <2>1, <2>3 DEF Bit
    <3>2. v2 = << >>
      BY <1>1, <1>3, <1>7, <2>1, <2>3
    <3> QED  BY <1>6, <3>1, <3>2
  <2> QED  BY <1>3, <2>2, <2>3
<1>10. ASSUME c = 1 PROVE Goal
  <2>1. v = <<h>>
    BY <1>3, <1>10
  <2>2. CASE take
    <3>1. s = 0 /\ Tail(v) = << >>
      BY <1>4, <1>7, <1>10, <2>1, <2>2
    <3>2. CASE pending
      <4>1. c2 = 1 /\ h2 = answer
        BY <1>2, <1>10, <3>1, <3>2 DEF Bit
      <4>2. v2 = <<answer>>
        BY <1>1, <1>3, <1>7, <2>2, <3>1, <3>2
      <4> QED  BY <1>6, <4>1, <4>2
    <3>3. CASE ~pending
      <4>1. c2 = 0 /\ h2 = Zero
        BY <1>2, <1>10, <2>2, <3>1, <3>3 DEF Bit
      <4>2. v2 = << >>
        BY <1>1, <1>3, <1>7, <2>2, <3>1, <3>3
      <4> QED  BY <1>6, <4>1, <4>2
    <3> QED  BY <1>3, <3>2, <3>3
  <2>3. CASE ~take
    <3>1. s = 1
      BY <1>4, <1>10, <2>3
    <3>2. CASE pending
      <4>1. c2 = 2 /\ h2 = h /\ t2 = answer
        BY <1>2, <1>10, <2>3, <3>1, <3>2 DEF Bit
      <4>2. v2 = <<h, answer>>
        BY <1>1, <1>3, <1>7, <2>1, <2>3, <3>2
      <4> QED  BY <1>6, <4>1, <4>2
    <3>3. CASE ~pending
      <4>1. c2 = 1 /\ h2 = h
        BY <1>2, <1>10, <2>3, <3>1, <3>3 DEF Bit
      <4>2. v2 = <<h>>
        BY <1>1, <1>3, <1>7, <2>1, <2>3, <3>3
      <4> QED  BY <1>6, <4>1, <4>2
    <3> QED  BY <1>3, <3>2, <3>3
  <2> QED  BY <1>1, <2>2, <2>3
<1>11. ASSUME c = 2 PROVE Goal
  <2>1. v = <<h, t>> /\ ~pending /\ p = << >>
    <3>1. ~pending
      BY <1>3, <1>11 DEF Bit
    <3> QED  BY <1>3, <1>11, <3>1
  <2>2. CASE take
    <3>1. s = 1 /\ Tail(v) = <<t>>
      BY <1>4, <1>7, <1>11, <2>1, <2>2
    <3>2. c2 = 1 /\ h2 = t
      BY <1>2, <1>11, <2>1, <2>2, <3>1 DEF Bit
    <3>3. v2 = <<t>>
      BY <1>1, <1>7, <2>1, <2>2, <3>1
    <3> QED  BY <1>6, <3>2, <3>3
  <2>3. CASE ~take
    <3>1. s = 2
      BY <1>4, <1>11, <2>3
    <3>2. c2 = 2 /\ h2 = h /\ t2 = t
      BY <1>2, <1>11, <2>1, <2>3, <3>1 DEF Bit
    <3>3. v2 = <<h, t>>
      BY <1>1, <1>7, <2>1, <2>3
    <3> QED  BY <1>6, <3>2, <3>3
  <2> QED  BY <1>1, <2>2, <2>3
<1>12. Goal
  BY <1>8, <1>9, <1>10, <1>11
<1> QED  BY <1>12 DEF v2, h2, t2, c2

\* An edge keeps registers and queue together.
LEMMA EdgeKeepsCircuit ==
  ASSUME FifoCircuit, NEW data \in Optional, NEW ready \in BOOLEAN,
         Edge(data, ready), hw' = HwStep(hw, data, ready)
  PROVE  FifoCircuit'
<1>1. IInv'
  BY EdgeKeepsIInv DEF FifoCircuit
<1>2. /\ hw'.unread \in Nat /\ Len(fifo'.unread) = hw'.unread
      /\ hw'.readAddr \in 0..Depth - 1 /\ hw'.writeAddr = Place(hw'.readAddr, hw'.unread)
      /\ hw'.memory = [a \in 0..Depth - 1 |-> hw'.memory[a]]
      /\ \A i \in 1..hw'.unread : fifo'.unread[i] = hw'.memory[Place(hw'.readAddr, i - 1)]
  BY MemoryHoldsRest
<1>3. /\ hw'.pending \in BOOLEAN
      /\ fifo'.pending = IF hw'.pending THEN <<hw'.answer>> ELSE << >>
  BY AnswerIsRead
<1>4. /\ hw'.cached \in 0..2
      /\ fifo'.visible = SubSeq(<<hw'.head, hw'.tail>>, 1, hw'.cached)
      /\ hw'.cached = 0 => hw'.head = Zero
  BY CacheIsKept
<1>5. fifo'.unread = [i \in 1..hw'.unread |-> hw'.memory[(hw'.readAddr + i - 1) % Depth]]
  <2>1. fifo'.unread = [i \in 1..Len(fifo'.unread) |-> fifo'.unread[i]]
    <3>1. fifo'.unread \in Seq(Words)
      BY <1>1 DEF IInv, TypeOK
    <3> QED  BY <3>1, LenProperties
  <2>2. ASSUME NEW i \in 1..hw'.unread
        PROVE  fifo'.unread[i] = hw'.memory[(hw'.readAddr + i - 1) % Depth]
    <3>1. hw'.readAddr + i - 1 = hw'.readAddr + (i - 1)
      BY <1>2
    <3> QED  BY <1>2, <3>1 DEF Place
  <2> QED  BY <1>2, <2>1, <2>2
<1>6. hw'.total = Count(fifo)'
  <2> DEFINE u == Len(fifo.unread)
             v == Len(fifo.visible)
             p == Len(fifo.pending)
             u2 == Len(fifo'.unread)
             v2 == Len(fifo'.visible)
             p2 == Len(fifo'.pending)
             in == Len(Entering(fifo, data))
             total == hw.total
             total2 == hw'.total
             w == Bit(Stores(data))
             take == Bit(Takes(ready))
             issue == Bit(Issues(ready))
  <2>1. /\ Takes(ready) \in BOOLEAN /\ Takes(ready) = Pops(fifo, ready)
        /\ Issues(ready) \in BOOLEAN /\ Issues(ready) = Reads(fifo, ready)
        /\ Stores(data) \in BOOLEAN
        /\ Stores(data) => Entering(fifo, data) = data /\ \E x \in Words : data = <<x>>
        /\ ~Stores(data) => Entering(fifo, data) = << >>
    BY CircuitDecides
  <2>2. One(Pops(fifo, ready)) = take /\ One(Reads(fifo, ready)) = issue
    BY <2>1, Zenon DEF One, Bit
  <2>3. /\ v2 = v - take + p /\ p2 = issue /\ u2 = u - issue + in
    <3>1. /\ Len(fifo'.visible) = Len(fifo.visible) - One(Pops(fifo, ready)) + Len(fifo.pending)
          /\ Len(fifo'.pending) = One(Reads(fifo, ready))
          /\ Len(fifo'.unread) = Len(fifo.unread) - One(Reads(fifo, ready))
                               + Len(Entering(fifo, data))
      BY StepParts DEF FifoCircuit, IInv, TypeOK, Sequences3
    <3> QED  BY <2>2, <3>1, Zenon
  <2>4. in = w
    <3>1. CASE Stores(data)
      <4>1. PICK x \in Words : Entering(fifo, data) = <<x>>
        BY <2>1, <3>1
      <4> QED  BY <3>1, <4>1 DEF Bit
    <3>2. CASE ~Stores(data)
      <4>1. Len(<< >>) = 0 /\ Entering(fifo, data) = << >>
        BY <2>1, <3>2
      <4> QED  BY <3>2, <4>1, Zenon DEF Bit
    <3> QED  BY <2>1, <3>1, <3>2
  <2>5. total2 = total + w - take
    BY RegistersAfter
  <2>6. total = u + p + v
    BY Zenon DEF FifoCircuit, HardwareHoldsQueue, Count
  <2>7. u \in Nat /\ v \in Nat /\ p \in Nat /\ take \in Nat /\ issue \in Nat /\ w \in Nat
    <3>1. /\ fifo.unread \in Seq(Words) /\ fifo.visible \in Seq(Words)
          /\ fifo.pending \in Optional
      BY DEF FifoCircuit, IInv, TypeOK
    <3> QED  BY <3>1, LenProperties, OptionalIsSeq DEF Bit
  <2>8. Count(fifo)' = u2 + p2 + v2
    BY Zenon DEF Count
  <2> HIDE DEF u, v, p, u2, v2, p2, in, total, total2, w, take, issue
  <2>9. total2 = u2 + p2 + v2
    BY <2>3, <2>4, <2>5, <2>6, <2>7
  <2> QED  BY <2>8, <2>9 DEF total2
<1>7. HardwareHoldsQueue'
  BY <1>3, <1>4, <1>5, <1>6, Zenon DEF HardwareHoldsQueue
<1>8. hw' = [total |-> hw'.total, unread |-> hw'.unread, writeAddr |-> hw'.writeAddr,
             readAddr |-> hw'.readAddr, cached |-> hw'.cached, pending |-> hw'.pending,
             head |-> hw'.head, tail |-> hw'.tail, answer |-> hw'.answer, memory |-> hw'.memory]
  BY RegistersAfter
<1> QED  BY <1>1, <1>2, <1>3, <1>4, <1>7, <1>8, Zenon DEF FifoCircuit, Place

\* Cleared registers hold the empty queue, whatever the memory holds.
Cleared ==
  /\ Init
  /\ hw = [total |-> 0, unread |-> 0, writeAddr |-> 0, readAddr |-> 0, cached |-> 0,
           pending |-> FALSE, head |-> Zero, tail |-> Zero, answer |-> hw.answer,
           memory |-> hw.memory]
  /\ hw.memory = [a \in 0..Depth - 1 |-> hw.memory[a]]

\* Cleared registers hold an empty FIFO.
LEMMA ClearedHoldsNothing == Cleared => FifoCircuit
<1> SUFFICES ASSUME Cleared PROVE FifoCircuit
  OBVIOUS
<1>1. IInv /\ fifo = [unread |-> << >>, pending |-> << >>, visible |-> << >>]
  BY InitIInv DEF Cleared, Init, Empty
<1>2. /\ hw.total = 0 /\ hw.unread = 0 /\ hw.writeAddr = 0 /\ hw.readAddr = 0 /\ hw.cached = 0
      /\ hw.pending = FALSE /\ hw.head = Zero /\ hw.tail = Zero
  BY DEF Cleared
<1>3. 0 \in 0..Depth - 1 /\ Place(0, 0) = 0
  <2>1. 0 \in 0..Depth - 1
    BY FifoAssumption
  <2> QED  BY <2>1, PlacesMove
<1>4. << >> = [i \in 1..hw.unread |-> hw.memory[(hw.readAddr + i - 1) % Depth]]
  BY <1>2
<1>5. SubSeq(<<hw.head, hw.tail>>, 1, hw.cached) = << >>
  BY <1>2, CacheShows
<1>6. Count(fifo) = 0
  <2>1. Len(<< >>) = 0
    BY EmptySeq
  <2> QED  BY <1>1, <2>1 DEF Count
<1>7. HardwareHoldsQueue
  <2>1. fifo.unread = << >> /\ fifo.pending = << >> /\ fifo.visible = << >>
    BY <1>1
  <2>2. hw.total = Count(fifo)
    BY <1>2, <1>6
  <2>3. fifo.pending = IF hw.pending THEN <<hw.answer>> ELSE << >>
    BY <1>2, <2>1
  <2>4. hw.cached = 0 => hw.head = Zero
    BY <1>2
  <2>5. /\ fifo.unread = [i \in 1..hw.unread |-> hw.memory[(hw.readAddr + i - 1) % Depth]]
        /\ fifo.visible = SubSeq(<<hw.head, hw.tail>>, 1, hw.cached)
    BY <1>4, <1>5, <2>1, Zenon
  <2> QED  BY <2>2, <2>3, <2>4, <2>5, Zenon DEF HardwareHoldsQueue
<1>8. /\ hw.unread \in Nat /\ hw.cached \in 0..2 /\ hw.pending \in BOOLEAN
      /\ hw.readAddr \in 0..Depth - 1 /\ hw.writeAddr = Place(hw.readAddr, hw.unread)
  <2>1. hw.unread \in Nat /\ hw.cached \in 0..2 /\ hw.pending \in BOOLEAN
    <3>1. 0 \in Nat /\ 0 \in 0..2 /\ FALSE \in BOOLEAN
      OBVIOUS
    <3> QED  BY <1>2, <3>1, Zenon
  <2>2. hw.readAddr \in 0..Depth - 1 /\ hw.writeAddr = Place(hw.readAddr, hw.unread)
    BY <1>2, <1>3, Zenon
  <2> QED  BY <2>1, <2>2
<1>9. hw = [total |-> hw.total, unread |-> hw.unread, writeAddr |-> hw.writeAddr,
            readAddr |-> hw.readAddr, cached |-> hw.cached, pending |-> hw.pending,
            head |-> hw.head, tail |-> hw.tail, answer |-> hw.answer, memory |-> hw.memory]
  BY DEF Cleared
<1>10. hw.memory = [a \in 0..Depth - 1 |-> hw.memory[a]]
  BY DEF Cleared
<1> QED  BY <1>1, <1>7, <1>8, <1>9, <1>10, Zenon DEF FifoCircuit

-------------------------------------------------------------------------------
(* All blocks.                                                                   *)

BlocksInv == FifoCircuit /\ ReturnsOK(returns) /\ BurstInv

\* All blocks start in the invariant.
LEMMA InitBlocksInv == BlocksInit => BlocksInv
<1> SUFFICES ASSUME BlocksInit PROVE BlocksInv
  OBVIOUS
<1>1. Cleared
  BY DEF BlocksInit, HwEmpty, Cleared
<1>2. ReturnsOK(returns)
  BY ResetReturns DEF BlocksInit, ReturnInit
<1>3. BurstInv
  BY InitBurstInv DEF BlocksInit
<1> QED  BY <1>1, <1>2, <1>3, ClearedHoldsNothing DEF BlocksInv

\* Each edge of a block keeps what its circuit holds; the others stand still.
LEMMA NextKeepsBlocksInv == BlocksInv /\ [BlocksNext]_blockVars => BlocksInv'
<1> SUFFICES ASSUME BlocksInv, [BlocksNext]_blockVars PROVE BlocksInv'
  OBVIOUS
<1> USE DEF BlocksInv
<1>1. UNCHANGED <<fifo, consumed, hw>> => FifoCircuit'
  BY DEF FifoCircuit, IInv, TypeOK, CacheSuffices, HardwareHoldsQueue
<1>2. UNCHANGED returns => ReturnsOK(returns)'
  BY DEF ReturnsOK
<1>3. UNCHANGED burstVars => BurstInv'
  BY NextKeepsBurstInv
<1>4. CASE FifoEdge
  <2>1. ASSUME NEW data \in Optional, NEW consume \in BOOLEAN, Edge(data, consume),
               hw' = HwStep(hw, data, consume)
        PROVE  FifoCircuit'
    BY <2>1, EdgeKeepsCircuit
  <2>2. ASSUME Reset, hw' = [HwEmpty EXCEPT !.memory = hw.memory, !.answer = hw.answer]
        PROVE  FifoCircuit'
    <3>1. Cleared'
      <4>1. Init'
        BY <2>2 DEF Reset, Init
      <4>2. /\ hw'.memory = hw.memory /\ hw'.answer = hw.answer
            /\ hw' = [total |-> 0, unread |-> 0, writeAddr |-> 0, readAddr |-> 0, cached |-> 0,
                      pending |-> FALSE, head |-> Zero, tail |-> Zero, answer |-> hw.answer,
                      memory |-> hw.memory]
        BY <2>2 DEF HwEmpty
      <4>3. hw.memory = [a \in 0..Depth - 1 |-> hw.memory[a]]
        BY DEF FifoCircuit
      <4> QED  BY <4>1, <4>2, <4>3 DEF Cleared
    <3> QED  BY <3>1, ClearedHoldsNothing, PTL
  <2> QED  BY <1>2, <1>3, <1>4, <2>1, <2>2 DEF FifoEdge, returnVars
<1>5. CASE ReturnsEdge
  <2>1. ASSUME NEW beats \in Receipts!AtMostOne(Receipts!Beats),
               NEW out \in Receipts!AtMostOne(Receipts!Beats),
               NEW enabled \in SUBSET Ports, ReturnEdge(beats, out, enabled)
        PROVE  ReturnsOK(returns)'
    <3>1. out \in SUBSET BeatsOf(Ports) /\ Single(out)
      BY BeatsAreSingle
    <3> QED  BY <2>1, <3>1, ReturnKeeps DEF ReturnEdge
  <2>2. ReturnReset => ReturnsOK(returns)'
    BY ResetReturns DEF ReturnReset
  <2> QED  BY <1>1, <1>3, <1>5, <2>1, <2>2 DEF ReturnsEdge, ReturnNext
<1>6. CASE BurstsEdge
  BY <1>1, <1>2, <1>6, NextKeepsBurstInv DEF BurstsEdge, returnVars
<1>7. CASE UNCHANGED blockVars
  BY <1>1, <1>2, <1>3, <1>7 DEF blockVars, returnVars
<1> QED  BY <1>4, <1>5, <1>6, <1>7 DEF BlocksNext

\* The invariant of the three blocks holds throughout.
LEMMA BlocksInvariance == BlocksSpec => []BlocksInv
BY InitBlocksInv, NextKeepsBlocksInv, PTL DEF BlocksSpec

\* The FIFO's registers hold its words through wrap-around and reset, the return
\* queue's register moves as the queue does for every beat and every set of ports,
\* and the burst control chooses, drives and counts as the sender.
THEOREM BlocksStayInStep == BlocksSpec => []HardwareInStep
<1>1. BlocksInv => HardwareInStep
  <2> SUFFICES ASSUME BlocksInv PROVE HardwareInStep
    OBVIOUS
  <2>1. HardwareHoldsQueue
    BY DEF BlocksInv, FifoCircuit
  <2>2. HardwareReturns
    BY RegisterMoves DEF BlocksInv, HardwareReturns
  <2>3. CircuitInStep
    BY CircuitIsTheSender DEF BlocksInv
  <2> QED  BY <2>1, <2>2, <2>3 DEF HardwareInStep
<1> QED  BY <1>1, BlocksInvariance, PTL

\* The FIFO keeps its types and depth, its cache suffices, and bursts keep their turns.
THEOREM BlocksStaySafe == BlocksSpec => [](TypeOK /\ CacheSuffices /\ BurstsKeepTheirTurns)
<1>1. BlocksInv => TypeOK /\ CacheSuffices /\ BurstsKeepTheirTurns
  BY BurstInvKeepsTurns DEF BlocksInv, FifoCircuit, IInv
<1> QED  BY <1>1, BlocksInvariance, PTL

\* Its FIFO is a queue of Depth words.
THEOREM BlocksFifoIsQueue == BlocksSpec => ImplementsQueue
<1>1. BlocksInit => Init
  BY DEF BlocksInit
<1>2. [BlocksNext]_blockVars => [Next]_vars
  BY DEF BlocksNext, blockVars, vars, FifoEdge, ReturnsEdge, BurstsEdge, Next
<1>3. BlocksSpec => Spec
  BY <1>1, <1>2, PTL DEF BlocksSpec, Spec
<1> QED  BY <1>3, FifoIsQueue, PTL

-------------------------------------------------------------------------------
(* The return queue returns receipts.                                            *)

\* Records, grants and beats are those of the receipts.
LEMMA MetasAreTheSame ==
  /\ Receipts!Metas = Metas /\ Receipts!NoGrant = NoGrant /\ Receipts!Beats = BeatsOf(Ports)
  /\ Receipts!Grants = GrantRecords
  /\ \A g : Receipts!MetaOf(g) = MetaIn(g)
  /\ \A m : Receipts!AccountOf(m) = AccountOf(m)
BY DEF Receipts!Metas, Metas, Receipts!NoGrant, NoGrant, Receipts!Beats, BeatsOf, Receipts!Grants,
       GrantRecords, Receipts!MetaOf, MetaIn, Receipts!AccountOf, AccountOf, Receipts!Pool, Pool

\* The queue is driven while the interface stays connected.
LEMMA ConnectedThroughout ==
  /\ Connected \in Receipts!Levels
  /\ Receipts!BeatsEnabled(Connected) /\ Receipts!CreditConnected(Connected)
<1> DEFINE Names == {"orig_req", "comp_ack", "comp_req", "orig_ack"}
<1>1. Connected = [x \in Names |-> TRUE]
  <2>1. DOMAIN Connected = Names
    BY DEF Connected
  <2>2. /\ Connected["orig_req"] = TRUE /\ Connected["comp_ack"] = TRUE
        /\ Connected["comp_req"] = TRUE /\ Connected["orig_ack"] = TRUE
    BY DEF Connected
  <2>3. Connected = [x \in DOMAIN Connected |-> Connected[x]]
    BY DEF Connected
  <2> QED  BY <2>1, <2>2, <2>3
<1>2. Connected \in [Names -> BOOLEAN]
  BY <1>1
<1>3. Connected.orig_req /\ Connected.comp_ack /\ Connected.comp_req /\ Connected.orig_ack
  BY DEF Connected
<1>4. Receipts!OrigConnected(Connected) /\ Receipts!CompConnected(Connected)
  BY <1>3, Zenon DEF Receipts!OrigConnected, Receipts!CompConnected
<1>5. Receipts!BeatsEnabled(Connected) /\ Receipts!CreditConnected(Connected)
  BY <1>4, Zenon DEF Receipts!BeatsEnabled, Receipts!CreditConnected
<1> QED  BY <1>2, <1>5 DEF Receipts!Levels

\* An edge of the queue is an edge of the ledger of receipts.
LEMMA ReturnIsOfReceipts ==
  ASSUME ReturnsOK(returns), NEW beats \in Receipts!AtMostOne(Receipts!Beats),
         NEW out \in Receipts!AtMostOne(Receipts!Beats), NEW enabled \in SUBSET Ports,
         ReturnEdge(beats, out, enabled)
  PROVE  /\ beats \in Receipts!AtMostOne(Receipts!Fitting)
         /\ out \in Receipts!AtMostOne(Receipts!Held)
         /\ Receipts!Edge(beats, out)
<1>1. /\ \A b \in beats : Receipts!Occupancy(b.port, AccountOf(b.meta))
                             < Capacity[b.port][AccountOf(b.meta)]
      /\ \A b \in out : held[b.port][b.meta] > 0 /\ ReturnReady(returns, b.port)
      /\ returns' = Return(returns, out, enabled)
      /\ held' = Receipts!Minus(Receipts!Plus(held, beats), out)
  BY DEF ReturnEdge
<1>2. out \in SUBSET BeatsOf(Ports) /\ Single(out)
  BY BeatsAreSingle
<1>3. beats \in Receipts!AtMostOne(Receipts!Fitting)
  <2>1. CASE beats = {}
    BY <2>1 DEF Receipts!AtMostOne
  <2>2. ASSUME NEW b \in Receipts!Beats, beats = {b} PROVE beats \in Receipts!AtMostOne(Receipts!Fitting)
    <3>1. Receipts!Occupancy(b.port, AccountOf(b.meta)) < Capacity[b.port][AccountOf(b.meta)]
      BY <1>1, <2>2
    <3>2. b \in Receipts!Fitting
      BY <3>1, MetasAreTheSame, ConnectedThroughout DEF Receipts!Fitting
    <3> QED  BY <2>2, <3>2 DEF Receipts!AtMostOne
  <2> QED  BY <2>1, <2>2 DEF Receipts!AtMostOne
<1>4. out \in Receipts!AtMostOne(Receipts!Held)
  <2>1. CASE out = {}
    BY <2>1 DEF Receipts!AtMostOne
  <2>2. ASSUME NEW b \in Receipts!Beats, out = {b} PROVE out \in Receipts!AtMostOne(Receipts!Held)
    <3>1. b \in Receipts!Held
      BY <1>1, <2>2 DEF Receipts!Held
    <3> QED  BY <2>2, <3>1 DEF Receipts!AtMostOne
  <2> QED  BY <2>1, <2>2 DEF Receipts!AtMostOne
<1>5. ReturnsOK(returns')
  BY <1>1, <1>2, ReturnKeeps
<1>6. returns'.grants \in [Ports -> Receipts!Grants]
  BY <1>5, MetasAreTheSame DEF ReturnsOK
<1>7. ASSUME NEW p \in Ports, NEW m \in Metas
      PROVE  LET g == returns'.grants[p]
             IN  /\ Waiting(returns)[p][m] \in Nat /\ g.count \in Nat
                 /\ g # NoGrant => MetaIn(g) \in Metas
                 /\ MetaIn(g) = m => g.count <= Waiting(returns)[p][m]
                 /\ Waiting(returns')[p][m]
                      = Waiting(returns)[p][m] + (IF [port |-> p, meta |-> m] \in out THEN 1 ELSE 0)
                        - (IF MetaIn(g) = m THEN g.count ELSE 0)
  BY <1>1, <1>2, ReturnWaits
<1>8. \A p \in Ports : returns'.grants[p] # NoGrant =>
         returns'.grants[p].count <= Waiting(returns)[p][MetaIn(returns'.grants[p])]
  <2> SUFFICES ASSUME NEW p \in Ports, returns'.grants[p] # NoGrant
               PROVE  returns'.grants[p].count <= Waiting(returns)[p][MetaIn(returns'.grants[p])]
    OBVIOUS
  <2>1. [vc |-> 0, pool |-> FALSE] \in Metas
    BY CreditAssumption DEF Metas
  <2>2. MetaIn(returns'.grants[p]) \in Metas
    BY <1>7, <2>1
  <2> QED  BY <1>7, <2>2
<1>9. Waiting(returns') = [p \in Ports |-> [m \in Metas |->
        Receipts!Plus(Waiting(returns), out)[p][m]
          - (IF Receipts!MetaOf(returns'.grants[p]) = m THEN returns'.grants[p].count ELSE 0)]]
  <2>1. ASSUME NEW p \in Ports, NEW m \in Metas
        PROVE  Waiting(returns')[p][m] =
                 Receipts!Plus(Waiting(returns), out)[p][m]
                   - (IF Receipts!MetaOf(returns'.grants[p]) = m THEN returns'.grants[p].count ELSE 0)
    <3>1. Receipts!Plus(Waiting(returns), out)[p][m]
            = Waiting(returns)[p][m] + (IF [port |-> p, meta |-> m] \in out THEN 1 ELSE 0)
      BY MetasAreTheSame DEF Receipts!Plus, Receipts!Among
    <3>2. Receipts!MetaOf(returns'.grants[p]) = MetaIn(returns'.grants[p])
      BY MetasAreTheSame
    <3> QED  BY <1>7, <3>1, <3>2
  <2>2. Waiting(returns') = [p \in Ports |-> [m \in Metas |-> Waiting(returns')[p][m]]]
    BY DEF Waiting
  <2> QED  BY <2>1, <2>2
<1> QED  BY <1>1, <1>3, <1>4, <1>6, <1>8, <1>9, MetasAreTheSame, ConnectedThroughout DEF Receipts!Edge

\* Every behaviour of the queue returns each receipt once, as what it was: merged
\* or not, none is forgotten, doubled or credited to another account.
THEOREM BlocksReturnReceipts == BlocksSpec => ImplementsReceipts
<1>1. Waiting(ReturnsReset) = Receipts!NoReceipts
  <2>1. \A p \in Ports, m \in Metas :
          {i \in DOMAIN ReturnsReset.queue[p] : ReturnsReset.queue[p][i] = m} = {}
    BY DEF ReturnsReset
  <2>2. \A p \in Ports, m \in Metas :
          Cardinality({i \in DOMAIN ReturnsReset.queue[p] : ReturnsReset.queue[p][i] = m}) = 0
    BY <2>1, FS_EmptySet
  <2> QED  BY <2>2, MetasAreTheSame DEF Waiting, Receipts!NoReceipts
<1>2. ReturnsReset.grants = [p \in Ports |-> Receipts!NoGrant]
  BY MetasAreTheSame DEF ReturnsReset
<1>3. BlocksInit => Receipts!Init
  BY <1>1, <1>2, ConnectedThroughout DEF BlocksInit, ReturnInit, Receipts!Init
<1>4. BlocksInv /\ [BlocksNext]_blockVars => [Receipts!Next]_(Receipts!vars)
  <2> SUFFICES ASSUME BlocksInv, [BlocksNext]_blockVars
               PROVE  [Receipts!Next]_(Receipts!vars)
    OBVIOUS
  <2>1. CASE ReturnReset
    <3>1. Receipts!Reset
      BY <2>1, <1>1, <1>2, ConnectedThroughout DEF ReturnReset, Receipts!Reset, Connected
    <3> QED  BY <3>1 DEF Receipts!Next
  <2>2. ASSUME NEW beats \in Receipts!AtMostOne(Receipts!Beats),
               NEW out \in Receipts!AtMostOne(Receipts!Beats), NEW enabled \in SUBSET Ports,
               ReturnEdge(beats, out, enabled)
        PROVE  Receipts!Next
    <3>1. /\ beats \in Receipts!AtMostOne(Receipts!Fitting)
          /\ out \in Receipts!AtMostOne(Receipts!Held)
          /\ Receipts!Edge(beats, out)
      BY <2>2, ReturnIsOfReceipts DEF BlocksInv
    <3> QED  BY <3>1 DEF Receipts!Next
  <2>3. CASE UNCHANGED <<returns, held>>
    BY <2>3 DEF Receipts!vars, Waiting, Connected
  <2> QED  BY <2>1, <2>2, <2>3 DEF BlocksNext, blockVars, returnVars, FifoEdge, ReturnsEdge,
                                   BurstsEdge, ReturnNext
<1> QED  BY <1>3, <1>4, BlocksInvariance, PTL DEF BlocksSpec, ImplementsReceipts, Receipts!Spec
===============================================================================
