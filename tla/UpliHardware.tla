----------------------------- MODULE UpliHardware -----------------------------
(* The circuits of one UPLI channel (rtl/upli) beside their references.  Each is *)
(* a function from the registers before an edge and its inputs to the registers  *)
(* after it; in every state of the loop, and for every input of the next edge,   *)
(* legal or not, it must take what holds the reference's state to what holds the *)
(* next one.  The FIFO and the return queue are in UpliBlocks.                   *)
EXTENDS UpliCreditLoop

CONSTANT CreditWidth   \* bits of a counter of credits, 3..16

ASSUME HardwareAssumption ==
  /\ CreditWidth \in 3..16 /\ Batch < 2^CreditWidth
  /\ \A p \in Ports : \A a \in 0..Pool : Capacity[p][a] < 2^CreditWidth
-------------------------------------------------------------------------------
(* upli_connection_side.v, once for each side.                                 *)

OrigSide(k) == [active |-> k.running, req |-> k.signals.orig_req, ack |-> k.signals.orig_ack]
CompSide(k) == [active |-> k.running, req |-> k.signals.comp_req, ack |-> k.signals.comp_ack]

TxConnected(side, peer) == side.req /\ peer.ack
RxConnected(side, peer) == peer.req /\ side.ack

HwSide(side, peer, waits, ready) ==
  [active |-> TRUE,
   req |-> side.req \/ (side.active /\ ready /\ (waits => RxConnected(side, peer))),
   ack |-> side.ack \/ (side.active /\ ready /\ peer.req)]

\* Both sides raise the levels of the reference, and see the same connections.
SidesInStep ==
  LET orig == OrigSide(controller)
      comp == CompSide(controller)
  IN  /\ TxConnected(orig, comp) = OrigConnected(controller.signals)
      /\ TxConnected(comp, orig) = CompConnected(controller.signals)
      /\ MayRun(controller) => \A orig_ready, comp_ready \in BOOLEAN :
           LET next == ConnectionStep(controller, orig_ready, comp_ready)
           IN  /\ HwSide(orig, comp, FALSE, orig_ready) = OrigSide(next)
               /\ HwSide(comp, orig, controller.waits, comp_ready) = CompSide(next)
-------------------------------------------------------------------------------
(* upli_credit_bank.v: the sender's ledger, port by port; an error of any port  *)
(* keeps the whole bank as it is.                                              *)

LastInit == Stable - 1

\* The registers of a port: its balances, the edges that done lasted, the verdict.
BankPort(l, p) == [balance |-> [a \in 0..Pool |-> l.balance[<<p, a>>]],
                   cnt_init |-> IF l.streak[p] < LastInit THEN l.streak[p] ELSE LastInit,
                   init |-> p \in l.initialized]

\* Slip: a constant that borrows is compared like any other.
ExcessThoughBorrowed(capacity, balance, more) ==
  more > 0 /\ balance > (capacity - more) % 2^(CreditWidth + 1)

\* Whether a balance has no room for more credit: it is above a constant, or
\* the constant is below zero, which its borrow tells.
Excess(capacity, balance, more) ==
  LET limit == (capacity - more) % 2^(CreditWidth + 1)
  IN  more > 0 /\ (limit >= 2^CreditWidth \/ balance > limit)

Returned(grant, a) == grant # NoGrant /\ AccountOf(grant) = a
Sent(beats, p, a) == \E b \in beats : b.port = p /\ AccountOf(b.meta) = a

HwAccountError(r, p, a, grant, beats) ==
  \/ Sent(beats, p, a) /\ r.balance[a] = 0
  \/ /\ Returned(grant, a)
     /\ Excess(Capacity[p][a], r.balance[a],
               IF Sent(beats, p, a) THEN grant.count - 1 ELSE grant.count)

HwPortError(r, p, c, grant, beats, done) ==
  \/ grant # NoGrant /\ ~CreditConnected(c)
  \/ ~r.init /\ done /\ ~CreditConnected(c)
  \/ /\ \E b \in beats : b.port = p
     /\ ~BeatsEnabled(c) \/ ~CreditConnected(c) \/ ~r.init
  \/ \E a \in 0..Pool : HwAccountError(r, p, a, grant, beats)

\* A port after an edge without an error.
HwBankPort(r, p, grant, beats, done) ==
  [balance |-> [a \in 0..Pool |->
     (r.balance[a] + (IF Returned(grant, a) THEN grant.count ELSE 0)
        - (IF Sent(beats, p, a) THEN 1 ELSE 0)) % 2^CreditWidth],
   cnt_init |-> CASE r.init -> r.cnt_init
                  [] ~r.init /\ ~done -> 0
                  [] OTHER -> IF r.cnt_init = LastInit THEN LastInit ELSE r.cnt_init + 1,
   init |-> r.init \/ (done /\ r.cnt_init = LastInit)]

AnyGrant == {NoGrant} \cup [vc : 0..(VCs - 1), pool : BOOLEAN, count : 1..Batch]

\* The bank reports an error exactly where the ledger refuses the edge.
BankInStep ==
  \A p \in Ports : \A r \in {BankPort(ledger, p)} :
    \A grant \in AnyGrant, beats \in AtMostOne(Beats), done \in BOOLEAN :
      LET refused == LedgerRefuses(ledger, controller.signals, p, grant, beats, done)
      IN  /\ HwPortError(r, p, controller.signals, grant, beats, done) = refused
          /\ ~refused =>
               HwBankPort(r, p, grant, beats, done)
                 = BankPort(LedgerStep(ledger, [q \in Ports |-> IF q = p THEN grant ELSE NoGrant],
                                       beats, IF done THEN {p} ELSE {}), p)
-------------------------------------------------------------------------------
(* upli_credit_initializer.v: a state for each account and one for done.       *)

InitializerPort(k, p) ==
  [state |-> k.account[p], issued |-> k.issued[p], grant |-> k.grants[p], done |-> p \in k.done]

\* The batch leaves as the number of its credits less one.
Encoded(remaining) == IF remaining >= Batch THEN Batch - 1
                      ELSE IF remaining = 0 THEN 0 ELSE remaining - 1

HwInitializer(r, p, connected) ==
  LET capacity == IF r.state > Pool THEN 0 ELSE Capacity[p][r.state]
      remaining == capacity - r.issued
      active == connected /\ r.state <= Pool
      last == remaining <= Batch
      publish == active /\ remaining # 0
  IN  [state |-> IF active /\ last THEN r.state + 1 ELSE r.state,
       issued |-> IF ~active THEN r.issued ELSE IF last THEN 0
                  ELSE (r.issued + Batch) % 2^CreditWidth,
       grant |-> IF ~publish THEN NoGrant
                 ELSE [vc |-> IF r.state < Pool THEN r.state ELSE 0, pool |-> r.state = Pool,
                       count |-> Encoded(remaining) + 1],
       done |-> r.done \/ (connected /\ r.state > Pool)]

\* The state machine publishes what the reference's schedule says, edge by edge.
InitializerInStep ==
  LET connected == CreditConnected(controller.signals)
  IN  \A p \in Ports :
        HwInitializer(InitializerPort(receiver.initial, p), p, connected)
          = InitializerPort(Publish(receiver.initial, connected), p)
-------------------------------------------------------------------------------
(* upli_receive_channel.v: what it asks of its FIFOs and of the return queue.   *)

NativeBeats == [port : 0..3, meta : Metas]
NativeAccounts == (0..3) \X (0..(Pool + 1))

Selects(b, pa) == b.port = pa[1] /\ AccountOf(b.meta) = pa[2]
StorageReady(r, pa) == CapacityOf(pa) > 0 /\ Ready(r.fifo[pa], CapacityOf(pa))

HwDiagnostic(r, c, b) ==
  IF b.port \notin Ports THEN 1
  ELSE IF ~BeatsEnabled(c) \/ ~CreditConnected(c) THEN 2
  ELSE IF b.port \notin r.initial.done THEN 3
  ELSE IF ~\E pa \in Accounts : Selects(b, pa) /\ StorageReady(r, pa) THEN 4 ELSE 0

\* A FIFO writes by its own readiness, whatever the diagnostic says.
HwWrites(r, c, b) ==
  {pa \in Accounts : /\ CreditConnected(c) /\ BeatsEnabled(c) /\ pa[1] \in r.initial.done
                     /\ Selects(b, pa) /\ StorageReady(r, pa)}

HwReturnReady(r, port) == \E p \in Ports : p = port /\ Len(r.returns.queue[p]) < ReturnDepth

\* The account a FIFO gives a word of, and the one whose record is queued.
HwReads(r, consumer) ==
  {pa \in Accounts : /\ pa = consumer /\ Len(r.returns.queue[pa[1]]) < ReturnDepth
                     /\ CapacityOf(pa) > 0 /\ Valid(r.fifo[pa])}
HwRetires(r, consumer) ==
  {pa \in {consumer} : /\ \E slot \in Accounts : slot = pa /\ CapacityOf(slot) > 0 /\ Valid(r.fifo[slot])
                       /\ HwReturnReady(r, pa[1])}

\* Storage, return queue and diagnostic agree on each beat and each consumer.
ChannelInStep ==
  /\ \A b \in NativeBeats :
       /\ HwDiagnostic(receiver, controller.signals, b) = Diagnostic(receiver, controller.signals, b)
       /\ HwWrites(receiver, controller.signals, b)
            = {pa \in Accounts : Accepts(receiver, controller.signals, b) /\ Selects(b, pa)}
  /\ \A consumer \in NativeAccounts :
       LET taken == {pa \in {consumer} : MayRetire(receiver, pa)}
       IN  HwReads(receiver, consumer) = taken /\ HwRetires(receiver, consumer) = taken
-------------------------------------------------------------------------------
\* Every circuit of the channel does at the next edge what its reference does,
\* whatever the edge brings: also an edge that the reference refuses.
LoopHardwareInStep == SidesInStep /\ BankInStep /\ InitializerInStep /\ ChannelInStep
===============================================================================
