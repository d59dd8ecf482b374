------------------------------- MODULE UpliBurst -------------------------------
(* The sender of requests and of their data bursts on one UPLI interface         *)
(* (model/ualink/upli_burst.py), with the payload it holds                       *)
(* (upli_burst_payload.py), the passive monitor of the wires                     *)
(* (upli_burst_monitor.py, upli_tdm.py) and the circuit (upli_burst_control.v,   *)
(* upli_burst_sender.v).  The ports take turns, an edge each; once a request is  *)
(* out, the rest of its data has to go in each following turn of its port.       *)
EXTENDS UpliCredit, Sequences

CONSTANTS MaxBeats,       \* beats of a burst, 4 in the code
          BurstCapacity   \* for "req" and "data": the capacity of each port's accounts

ASSUME BurstAssumption ==
  /\ MaxBeats \in 1..4
  /\ BurstCapacity \in [{"req", "data"} -> [Ports -> [0..Pool -> Nat]]]
  /\ IsFiniteSet(Ports) /\ Ports = 0..Cardinality(Ports) - 1

VARIABLES link,     \* the levels of the connection
          credit,   \* a ledger for requests and one for data
          sender,   \* the phase, and for each port the burst under way and its payload
          monitor

burstVars == <<link, credit, sender, monitor>>

Unknown == -1         \* the phase before the first request
NumPorts == Cardinality(Ports)
Turn(phase) == IF phase = Unknown THEN Unknown ELSE (phase + 1) % NumPorts

\* A candidate names the account of each beat of its data; a read has none.
Pools == UNION {[1..n -> BOOLEAN] : n \in 1..MaxBeats}
Candidates == [port : Ports, vc : 0..(VCs - 1), pool : BOOLEAN, pools : Pools \cup {<< >>}]
AtMostOneOf(S) == {{}} \cup {{x} : x \in S}

Writes(r) == r.pools # << >>
Word(r, i) == <<r.port, i>>   \* of its payload

\* offset is the next beat to go; 0 if no burst is under way.
Idle == [vc |-> 0, pools |-> << >>, offset |-> 0]
SenderReset == [phase |-> Unknown, active |-> [p \in Ports |-> Idle],
                payload |-> [p \in Ports |-> << >>]]
Busy(s, p) == s.active[p].offset > 0

Accounted(pool, vc) == IF pool THEN Pool ELSE vc
CountOf(pools, from, pool) == Cardinality({i \in DOMAIN pools : i > from /\ pools[i] = pool})

\* The credit that the rest of the burst under way will need.
Reserved(s, p, a) ==
  LET b == s.active[p]
  IN  IF Busy(s, p) /\ a \in {Pool, b.vc} THEN CountOf(b.pools, b.offset, a = Pool) ELSE 0

AvailableData(s, l, p, a) == l.data.balance[<<p, a>>] - Reserved(s, p, a)

\* Slip: the burst under way is not asked for its port.
EligibleThoughBusy(s, l, c, r, phase) ==
  /\ BeatsEnabled(c) /\ r.port = phase /\ r.port \in l.req.initialized
  /\ l.req.balance[<<r.port, Accounted(r.pool, r.vc)>>] >= 1
  /\ Writes(r) =>
       /\ r.port \in l.data.initialized
       /\ \A pool \in BOOLEAN :
            AvailableData(s, l, r.port, Accounted(pool, r.vc)) >= CountOf(r.pools, 0, pool)

\* Whether a candidate may go now, with the credit for all of its data.
EligibleRequest(s, l, c, r, phase) ==
  /\ BeatsEnabled(c) /\ r.port = phase /\ r.port \in l.req.initialized
  /\ l.req.balance[<<r.port, Accounted(r.pool, r.vc)>>] >= 1
  /\ Writes(r) =>
       /\ ~Busy(s, r.port) /\ r.port \in l.data.initialized
       /\ \A pool \in BOOLEAN :
            AvailableData(s, l, r.port, Accounted(pool, r.vc)) >= CountOf(r.pools, 0, pool)

\* What the sender drives at an edge for at most one candidate, as sets of no or one.
Events(s, l, c, wanted) ==
  LET current == IF s.phase = Unknown /\ wanted # {} THEN (CHOOSE r \in wanted : TRUE).port
                 ELSE s.phase
      tail == {[port |-> p, vc |-> s.active[p].vc, pool |-> s.active[p].pools[s.active[p].offset + 1],
                offset |-> s.active[p].offset, last |-> s.active[p].offset + 1 = Len(s.active[p].pools)] :
                 p \in {p \in Ports : p = current /\ Busy(s, p)}}
      taken == {r \in wanted : EligibleRequest(s, l, c, r, current)}
      first == {[port |-> r.port, vc |-> r.vc, pool |-> r.pools[1], offset |-> 0,
                 last |-> Len(r.pools) = 1] : r \in {r \in taken : Writes(r)}}
  IN  [request |-> taken, data |-> IF first # {} THEN first ELSE tail]

\* The word of payload with the beat.
DataWord(s, e) ==
  {IF b.offset = 0 THEN Word(CHOOSE r \in e.request : TRUE, 0) ELSE Head(s.payload[b.port]) :
     b \in e.data}

\* The sender after it has driven the events.
Sending(s, e) ==
  LET starts(p) == {r \in e.request : r.port = p /\ Writes(r)}
      moves(p) == {b \in e.data : b.port = p}
      active(p) == IF starts(p) # {}
                   THEN LET r == CHOOSE r \in starts(p) : TRUE
                        IN  IF Len(r.pools) > 1 THEN [vc |-> r.vc, pools |-> r.pools, offset |-> 1]
                            ELSE Idle
                   ELSE IF \E b \in moves(p) : b.last THEN Idle
                   ELSE [s.active[p] EXCEPT !.offset = @ + Cardinality(moves(p))]
      payload(p) == IF starts(p) # {}
                    THEN LET r == CHOOSE r \in starts(p) : TRUE
                         IN  [i \in 1..Len(r.pools) - 1 |-> Word(r, i)]
                    ELSE IF moves(p) # {} THEN Tail(s.payload[p]) ELSE s.payload[p]
      phase == IF s.phase = Unknown /\ e.request # {} THEN (CHOOSE r \in e.request : TRUE).port
               ELSE s.phase
  IN  [phase |-> Turn(phase), active |-> [p \in Ports |-> active(p)],
       payload |-> [p \in Ports |-> payload(p)]]

\* The beats of the two channels.
RequestBeats(e) == {[port |-> r.port, meta |-> [vc |-> r.vc, pool |-> r.pool]] : r \in e.request}
DataBeats(e) == {[port |-> b.port, meta |-> [vc |-> b.vc, pool |-> b.pool]] : b \in e.data}
-------------------------------------------------------------------------------
(* The monitor sees only the wires.  Of a burst it remembers its VC, the offsets *)
(* still to come, and how many edges it is until the next one is due.            *)

NothingPending == [vc |-> 0, offsets |-> << >>, due |-> 0]
MonitorReset == [phase |-> Unknown, pending |-> [p \in Ports |-> NothingPending]]

Due(m) == {p \in Ports : m.pending[p].offsets # << >> /\ m.pending[p].due <= 0}
Starts(e) == {r \in e.request : Writes(r)}

\* Requests and data share a phase, which only a request may set.
PhaseSeen(m, e) == IF m.phase = Unknown /\ e.request # {}
                   THEN (CHOOSE r \in e.request : TRUE).port ELSE m.phase
TdmObjects(m, e) == \E b \in e.request \cup e.data : b.port # PhaseSeen(m, e)

\* The one data beat that the monitor wants to see, or none.
ExpectedData(m, e) ==
  IF Starts(e) # {}
  THEN {[port |-> r.port, vc |-> r.vc, offset |-> 0, last |-> Len(r.pools) = 1] : r \in Starts(e)}
  ELSE {[port |-> p, vc |-> m.pending[p].vc, offset |-> Head(m.pending[p].offsets),
         last |-> Len(m.pending[p].offsets) = 1] : p \in Due(m)}

MonitorObjects(m, e) ==
  \/ Cardinality(Due(m)) > 1 \/ \E p \in Due(m) : m.pending[p].due < 0
  \/ \E r \in Starts(e) : m.pending[r.port].offsets # << >>
  \/ Starts(e) # {} /\ Due(m) # {}
  \/ {[port |-> b.port, vc |-> b.vc, offset |-> b.offset, last |-> b.last] : b \in e.data}
       # ExpectedData(m, e)
  \/ TdmObjects(m, e)

\* The monitor after an edge it does not object to.
Observing(m, e) ==
  [phase |-> Turn(PhaseSeen(m, e)),
   pending |-> [p \in Ports |->
     LET old == m.pending[p]
         new == {r \in Starts(e) : r.port = p /\ Len(r.pools) > 1}
     IN  IF new # {}
         THEN LET r == CHOOSE r \in new : TRUE
              IN  [vc |-> r.vc, offsets |-> [i \in 1..Len(r.pools) - 1 |-> i], due |-> NumPorts - 1]
         ELSE IF p \in Due(m)
         THEN IF Len(old.offsets) = 1 THEN NothingPending
              ELSE [old EXCEPT !.offsets = Tail(@), !.due = NumPorts - 1]
         ELSE IF old.offsets = << >> THEN old ELSE [old EXCEPT !.due = @ - 1]]]
-------------------------------------------------------------------------------
(* The other side grants what it has room for.  It publishes all it has before it *)
(* says done, and stays with that.                                               *)

Missing(l, channel, p, a) == BurstCapacity[channel][p][a] - l[channel].balance[<<p, a>>]

\* A grant for one port of a channel, or none.
GrantsTo(l, channel) ==
  {[p \in Ports |-> NoGrant]} \cup
  {[p \in Ports |-> IF p = g.port THEN g.grant ELSE NoGrant] :
     g \in {g \in [port : Ports, grant : [vc : 0..(VCs - 1), pool : BOOLEAN, count : 1..Batch]] :
              /\ g.grant.pool => g.grant.vc = 0
              /\ g.grant.count <= Missing(l, channel, g.port, AccountOf(g.grant))}}

Started(l, channel) ==
  {p \in Ports : p \in l[channel].initialized \/ l[channel].streak[p] > 0}
Complete(l, channel) == {p \in Ports : \A a \in 0..Pool : Missing(l, channel, p, a) = 0}
DoneOf(l, channel) == {Started(l, channel) \cup more : more \in SUBSET (Complete(l, channel) \ Started(l, channel))}

BurstInit == /\ link = Disconnected /\ credit = [req |-> LedgerReset, data |-> LedgerReset]
             /\ sender = SenderReset /\ monitor = MonitorReset

BurstReset == /\ link' = Disconnected /\ credit' = [req |-> LedgerReset, data |-> LedgerReset]
              /\ sender' = SenderReset /\ monitor' = MonitorReset

Connecting == /\ ~BeatsEnabled(link)
              /\ link' = Handshake(link, FALSE, TRUE, TRUE)
              /\ UNCHANGED <<credit, sender, monitor>>

\* One edge: the credit that arrives is not yet there for the beats that leave.
BurstEdge(wanted, req_grants, data_grants, req_done, data_done) ==
  /\ BeatsEnabled(link)
  /\ \E e \in {Events(sender, credit, link, wanted)} :
       /\ credit' = [req |-> LedgerStep(credit.req, req_grants, RequestBeats(e), req_done),
                     data |-> LedgerStep(credit.data, data_grants, DataBeats(e), data_done)]
       /\ sender' = Sending(sender, e)
       /\ monitor' = Observing(monitor, e)
  /\ UNCHANGED link

\* A candidate that is declined leaves no trace; a new one may be offered next.
Acceptable ==
  {r \in Candidates : Events(sender, credit, link, {r}).request # {}}

BurstNext ==
  \/ BurstReset \/ Connecting
  \/ \E wanted \in AtMostOneOf(Acceptable) :
     \E req_grants \in GrantsTo(credit, "req"), data_grants \in GrantsTo(credit, "data") :
     \E req_done \in DoneOf(credit, "req"), data_done \in DoneOf(credit, "data") :
       BurstEdge(wanted, req_grants, data_grants, req_done, data_done)

BurstSpec == BurstInit /\ [][BurstNext]_burstVars
-------------------------------------------------------------------------------
(* Properties of the sender.                                                   *)

\* The turn of a burst under way never finds its credit spent, on whatever else the
\* sender was asked to do meanwhile.
BeatsArePaid(e) ==
  /\ \A b \in RequestBeats(e) : MaySend(credit.req, link, b.port, b.meta)
  /\ \A b \in DataBeats(e) : MaySend(credit.data, link, b.port, b.meta)

\* The payload that is held is that of the beats to come: the tail the control asks
\* for is there, and is over when the control says last.
PayloadIsThere(e) ==
  \A b \in e.data : b.offset > 0 =>
    /\ sender.payload[b.port] # << >> /\ Head(sender.payload[b.port]) = <<b.port, b.offset>>
    /\ b.last = (Len(sender.payload[b.port]) = 1)

\* Whatever it accepts at an edge, each burst takes all of its turns, paid for,
\* with its own data, as the monitor on the wires expects; and no beat too many.
BurstsKeepTheirTurns ==
  BeatsEnabled(link) =>
    \A wanted \in AtMostOneOf(Acceptable) :
      \A e \in {Events(sender, credit, link, wanted)} :
        BeatsArePaid(e) /\ PayloadIsThere(e) /\ ~MonitorObjects(monitor, e)
-------------------------------------------------------------------------------
(* upli_burst_control.v: the registers of the phase and of each port.  Beats are *)
(* numbered from 0 in vectors of four bits.                                      *)

Lanes == 0..3

\* The bits of a candidate: junk where it has no beat.
LaneBits(pools, junk) == [i \in Lanes |-> IF i < Len(pools) THEN pools[i + 1] ELSE junk]
Mask(num) == [i \in Lanes |-> CASE i = 0 -> TRUE [] i = 1 -> num # 0
                                 [] i = 2 -> num >= 2 [] OTHER -> num = 3]

\* Whether one, two, three or four of the bits are set, from pairs of them.
Thresholds(bits) ==
  LET any01 == bits[0] \/ bits[1]
      all01 == bits[0] /\ bits[1]
      any23 == bits[2] \/ bits[3]
      all23 == bits[2] /\ bits[3]
  IN  [i \in Lanes |-> CASE i = 0 -> any01 \/ any23
                          [] i = 1 -> all01 \/ all23 \/ (any01 /\ any23)
                          [] i = 2 -> (all01 /\ any23) \/ (any01 /\ all23)
                          [] OTHER -> all01 /\ all23]

\* Slip: a balance of five or more does not look like three.
CapabilitiesOfLowBits(balance) ==
  [i \in Lanes |-> CASE i = 0 -> balance > 0 [] i = 1 -> balance \div 2 > 0
                      [] i = 2 -> balance % 4 = 3 [] OTHER -> balance \div 4 > 0]

\* Whether a balance has one, two, three or four, from its bits.
Capabilities(balance) ==
  [i \in Lanes |-> CASE i = 0 -> balance > 0 [] i = 1 -> balance \div 2 > 0
                      [] i = 2 -> balance \div 4 > 0 \/ balance % 4 = 3
                      [] OTHER -> balance \div 4 > 0]

\* A candidate on the wires, valid or not.
Wires(r, valid, junk) == [valid |-> valid, port |-> r.port, vc |-> r.vc, pool |-> r.pool, has_data |-> Writes(r),
                   num |-> IF Writes(r) THEN Len(r.pools) - 1 ELSE IF junk THEN 3 ELSE 0,
                   pools |-> LaneBits(r.pools, junk), words |-> [i \in Lanes |-> Word(r, i)]]

Masked(w, value) == [i \in Lanes |-> w.pools[i] = value /\ Mask(w.num)[i]]

\* Registers that are not in use hold anything; they are compared when they are.
PortRegisters(s, p) ==
  [active |-> Busy(s, p), vc |-> s.active[p].vc, last |-> Len(s.active[p].pools) - 1,
   pools |-> LaneBits(s.active[p].pools, FALSE), offset |-> s.active[p].offset]

DataReady(l, w, p) ==
  \A pool \in BOOLEAN :
    LET needs == Thresholds(Masked(w, pool))
        has == Capabilities(l.data.balance[<<p, Accounted(pool, w.vc)>>])
    IN  \A i \in Lanes : needs[i] => has[i]

HwNewRequest(s, l, c, w, p) ==
  /\ BeatsEnabled(c) /\ w.valid /\ w.port = p /\ (s.phase = Unknown \/ s.phase = p)
  /\ p \in l.req.initialized /\ l.req.balance[<<p, Accounted(w.pool, w.vc)>>] > 0
  /\ w.has_data => ~Busy(s, p) /\ p \in l.data.initialized /\ DataReady(l, w, p)

\* The data a port drives: its tail, or the first beat of a new burst, or nothing.
HwPortData(s, c, p, w, new) ==
  LET r == PortRegisters(s, p)
      tail == BeatsEnabled(c) /\ s.phase = p /\ r.active
  IN  (IF tail THEN {[port |-> p, vc |-> r.vc, pool |-> r.pools[r.offset], offset |-> r.offset,
                      last |-> r.offset = r.last]} ELSE {})
      \cup (IF new /\ w.has_data
            THEN {[port |-> p, vc |-> w.vc, pool |-> Masked(w, TRUE)[0], offset |-> 0,
                   last |-> w.num = 0]} ELSE {})

HwPortNext(s, c, p, w, new) ==
  LET r == PortRegisters(s, p)
      tail == BeatsEnabled(c) /\ s.phase = p /\ r.active
  IN  CASE new /\ w.has_data ->
             [active |-> w.num # 0, vc |-> w.vc, last |-> w.num, pools |-> Masked(w, TRUE), offset |-> 1]
        [] ~(new /\ w.has_data) /\ tail ->
             IF r.offset = r.last THEN [r EXCEPT !.active = FALSE]
             ELSE [r EXCEPT !.offset = (@ + 1) % 4]
        [] OTHER -> r

HwPhase(s, w, accepted) ==
  IF s.phase # Unknown THEN (s.phase + 1) % NumPorts
  ELSE IF accepted THEN (w.port + 1) % NumPorts ELSE Unknown

\* upli_burst_sender.v: the words of a port's tail, at their offsets.
HwTail(s, p) == [i \in 1..3 |-> LET at == i - s.active[p].offset + 1
                                IN  IF at \in DOMAIN s.payload[p] THEN {s.payload[p][at]} ELSE {}]

HwDataWord(s, e, w) ==
  {IF b.offset = 0 THEN {w.words[0]} ELSE HwTail(s, b.port)[b.offset] : b \in e}

HwTailNext(s, p, w, new) ==
  IF new /\ w.has_data THEN [i \in 1..3 |-> IF w.num >= i THEN {w.words[i]} ELSE {}] ELSE HwTail(s, p)

Chosen(w) == {p \in Ports : HwNewRequest(sender, credit, link, w, p)}

\* The beats, payload and registers of an edge are those of the sender.
EdgeInStep(w, e, next) ==
  LET new(p) == p \in Chosen(w)
      data == UNION {HwPortData(sender, link, p, w, new(p)) : p \in Ports}
  IN  /\ data = e.data
      /\ HwDataWord(sender, data, w) = {{x} : x \in DataWord(sender, e)}
      /\ HwPhase(sender, w, e.request # {}) = next.phase
      /\ \A p \in Ports :
           LET after == HwPortNext(sender, link, p, w, new(p))
           IN  /\ after.active = Busy(next, p)
               /\ Busy(next, p) =>
                    /\ after = PortRegisters(next, p)
                    /\ \A i \in next.active[p].offset..after.last :
                         HwTailNext(sender, p, w, new(p))[i] = HwTail(next, p)[i]

\* For any candidate, bits beyond its last beat included, the circuit makes the
\* sender's choice; and then, or if there is none, all the rest follows.
CircuitInStep ==
  \A accepted \in {Acceptable} :
    /\ \A r \in Candidates, junk \in BOOLEAN :
         Chosen(Wires(r, TRUE, junk)) = {q.port : q \in {r} \cap accepted}
    /\ \A wanted \in AtMostOneOf(accepted), junk \in BOOLEAN :
         LET r == CHOOSE r \in Candidates : wanted \subseteq {r}
         IN  \A w \in {Wires(r, wanted # {}, junk)}, e \in {Events(sender, credit, link, wanted)} :
               \A next \in {Sending(sender, e)} : EdgeInStep(w, e, next)
===============================================================================
