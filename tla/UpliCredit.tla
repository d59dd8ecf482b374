------------------------------ MODULE UpliCredit ------------------------------
(* The connection of one UPLI interface (model/ualink/upli_connection.py): a    *)
(* request level and an acknowledge level in each direction, which stay up once *)
(* raised until reset.  And the sender's side of the credit of one channel, the *)
(* ledger of model/ualink/upli_credit.py: a port has an account for each VC and *)
(* one for the pool all VCs share; credit comes in grants, one per port and     *)
(* edge.                                                                        *)
EXTENDS Integers, FiniteSets

CONSTANTS MinReset,        \* the edges a reset has to last
          CompleterModes   \* whether the completer may wait for the originator

ASSUME ConnectionAssumption == MinReset \in Nat \ {0} /\ CompleterModes \in (SUBSET BOOLEAN) \ {{}}

Disconnected == [orig_req |-> FALSE, comp_ack |-> FALSE, comp_req |-> FALSE, orig_ack |-> FALSE]

OrigConnected(c) == c.orig_req /\ c.comp_ack
CompConnected(c) == c.comp_req /\ c.orig_ack
BeatsEnabled(c) == OrigConnected(c) /\ CompConnected(c)

\* Slip: the completer waits for an acknowledge only it can cause.
HandshakeWaitingForAck(c, waits, orig_ready, comp_ready) ==
  [orig_req |-> c.orig_req \/ orig_ready,
   comp_ack |-> c.comp_ack \/ (comp_ready /\ c.orig_req /\ c.comp_req),
   comp_req |-> c.comp_req \/ (comp_ready /\ (waits => OrigConnected(c))),
   orig_ack |-> c.orig_ack \/ (orig_ready /\ c.comp_req)]

\* The levels after an edge; an acknowledge answers the request of before it.
Handshake(c, waits, orig_ready, comp_ready) ==
  [orig_req |-> c.orig_req \/ orig_ready,
   comp_ack |-> c.comp_ack \/ (comp_ready /\ c.orig_req),
   comp_req |-> c.comp_req \/ (comp_ready /\ (waits => OrigConnected(c))),
   orig_ack |-> c.orig_ack \/ (orig_ready /\ c.comp_req)]

\* A controller: its levels, whether it has left reset, how long reset has lasted,
\* and if the completer asks only when the originator is connected.
ControllerInit == [signals : {Disconnected}, running : {FALSE}, low : {0}, waits : CompleterModes]

HoldReset(k) == [k EXCEPT !.signals = Disconnected, !.running = FALSE,
                          !.low = IF k.low < MinReset THEN k.low + 1 ELSE k.low]

MayRun(k) == k.running \/ k.low >= MinReset

\* The first edge after a reset raises nothing.
ConnectionStep(k, orig_ready, comp_ready) ==
  [k EXCEPT !.signals = IF k.running THEN Handshake(k.signals, k.waits, orig_ready, comp_ready)
                        ELSE Disconnected,
            !.running = TRUE, !.low = 0]
-------------------------------------------------------------------------------
(* The ledger.                                                                 *)

CONSTANTS Ports,
          VCs,        \* the code has 4 virtual channels, 0..3
          Capacity,   \* the beats the receiver can hold, for each port and account
          Batch,      \* the 4 credits of a grant, at most
          Channel,    \* the name of the channel
          Stable      \* edges a done level must last to be believed, 2 by default

Pool == VCs
Accounts == Ports \X (0..Pool)

ASSUME CreditAssumption == /\ VCs \in Nat \ {0} /\ Batch \in Nat \ {0} /\ Stable \in Nat \ {0, 1}
                           /\ Capacity \in [Ports -> [0..Pool -> Nat]]
                           /\ Channel \in {"req", "orig_data", "rd_rsp", "wr_rsp"}

\* What a beat says of its credit; a pool beat keeps its VC, too.
Metas == [vc : 0..(VCs - 1), pool : BOOLEAN]
AccountOf(m) == IF m.pool THEN Pool ELSE m.vc

\* A grant returns count credits; with none it is absent.
NoGrant == [vc |-> 0, pool |-> FALSE, count |-> 0]
Granted(g, a) == IF AccountOf(g) = a THEN g.count ELSE 0

\* Credit of requests and write data travels from completer to originator.
CreditConnected(c) ==
  IF Channel \in {"req", "orig_data"} THEN CompConnected(c) ELSE OrigConnected(c)

LedgerReset == [balance |-> [a \in Accounts |-> 0], streak |-> [p \in Ports |-> 0],
                initialized |-> {}]

\* Slip: the first credit is enough, confirmed or not.
MaySendBeforeDone(l, c, p, m) == BeatsEnabled(c) /\ l.balance[<<p, AccountOf(m)>>] >= 1

\* The beats a sender may drive: both directions connected, the initial credit
\* confirmed, and credit from before this edge.
MaySend(l, c, p, m) ==
  BeatsEnabled(c) /\ p \in l.initialized /\ l.balance[<<p, AccountOf(m)>>] >= 1

\* The edges for which done has been seen without a break.
Confirm(l, done) ==
  [p \in Ports |-> IF p \in l.initialized THEN l.streak[p]
                   ELSE IF p \in done THEN l.streak[p] + 1 ELSE 0]

\* One edge of the ledger: a grant for each port, at most one beat, done levels.
LedgerStep(l, grants, beats, done) ==
  LET spent(p, a) == IF \E b \in beats : b.port = p /\ AccountOf(b.meta) = a THEN 1 ELSE 0
      streak == Confirm(l, done)
  IN  [balance |-> [pa \in Accounts |-> l.balance[pa] + Granted(grants[pa[1]], pa[2])
                                          - spent(pa[1], pa[2])],
       streak |-> streak,
       initialized |-> l.initialized \cup {p \in Ports : streak[p] >= Stable}]

\* What step refuses at a port, leaving the ledger as it is: credit or done before the
\* direction is connected, a beat that may not be driven, credit nobody has.
LedgerRefuses(l, c, p, grant, beats, done) ==
  LET here == {b \in beats : b.port = p}
      spent(a) == IF \E b \in here : AccountOf(b.meta) = a THEN 1 ELSE 0
  IN  \/ (grant # NoGrant \/ (done /\ p \notin l.initialized)) /\ ~CreditConnected(c)
      \/ \E b \in here : ~MaySend(l, c, p, b.meta)
      \/ \E a \in 0..Pool :
           l.balance[<<p, a>>] + Granted(grant, a) - spent(a) \notin 0..Capacity[p][a]
===============================================================================
