---------------------------- MODULE UpliCreditLoop ----------------------------
(* The receiver's side of one UPLI channel (model/ualink/upli_receive.py): the  *)
(* publisher of the initial credit (upli_credit_initialization.py), the return  *)
(* queue, and a FIFO for each account with storage.  What it drives is          *)
(* registered: the sender sees it at the next edge.                             *)
(*                                                                              *)
(* And the channel in a closed loop: the connection, the sender's ledger and    *)
(* the receive channel step together at each clock edge, and each sees what the *)
(* others drove before it.  The sender drives any beat its ledger allows.       *)
EXTENDS UpliCreditReturn, ReceiveFifo
-------------------------------------------------------------------------------
(* Initial credit.  For each port the account being published and how much of  *)
(* it has been, which is a position in the code's schedule.                    *)

PublisherReset == [account |-> [p \in Ports |-> 0], issued |-> [p \in Ports |-> 0],
                   grants |-> [p \in Ports |-> NoGrant], done |-> {}]

Published(k, p) == k.account[p] > Pool

\* What is granted next; an account without storage takes an idle edge.
InitialGrant(k, p) ==
  IF Published(k, p) \/ Capacity[p][k.account[p]] = 0 THEN NoGrant
  ELSE LET left == Capacity[p][k.account[p]] - k.issued[p]
       IN  [vc |-> IF k.account[p] = Pool THEN 0 ELSE k.account[p],
            pool |-> k.account[p] = Pool, count |-> IF left < Batch THEN left ELSE Batch]

LastOfAccount(k, p) == k.issued[p] + Batch >= Capacity[p][k.account[p]]

\* One edge of the publisher.
Publish(k, connected) ==
  LET ends == {p \in Ports : ~Published(k, p) /\ LastOfAccount(k, p)}
  IN  IF ~connected THEN k
      ELSE [account |-> [p \in Ports |-> IF p \in ends THEN k.account[p] + 1 ELSE k.account[p]],
            issued |-> [p \in Ports |-> IF p \in ends \/ Published(k, p) THEN 0
                                         ELSE k.issued[p] + Batch],
            grants |-> [p \in Ports |-> InitialGrant(k, p)],
            done |-> {p \in Ports : Published(k, p)}]
-------------------------------------------------------------------------------
(* The receive channel.  An account without storage has a FIFO of depth 0.     *)

ChannelReset == [initial |-> PublisherReset, returns |-> ReturnsReset,
                 fifo |-> [pa \in Accounts |-> Empty]]

\* The grant on the bus of a port; only one of the two sources drives it.
OnBus(r, p) ==
  IF r.initial.grants[p] # NoGrant THEN r.initial.grants[p] ELSE r.returns.grants[p]

\* Why a beat is not stored, of any port the wires can name; 0 if it is stored.
Diagnostic(r, c, b) ==
  IF b.port \notin Ports THEN 1
  ELSE IF ~BeatsEnabled(c) THEN 2
  ELSE IF b.port \notin r.initial.done THEN 3
  ELSE LET a == AccountOf(b.meta)
       IN  IF ~Ready(r.fifo[<<b.port, a>>], Capacity[b.port][a]) THEN 4 ELSE 0

Accepts(r, c, b) == Diagnostic(r, c, b) = 0

\* Whether the consumer may take the head of an account.
MayRetire(r, pa) == pa \in Accounts /\ Valid(r.fifo[pa]) /\ ReturnReady(r.returns, pa[1])

Retired(r, pa) == [port |-> pa[1], meta |-> Head(r.fifo[pa].visible)]

\* One edge: a beat or none comes in, one account or none is retired.
ReceiveStep(r, c, beats, accounts) ==
  LET stored == {b \in beats : Accepts(r, c, b)}
      retired == {pa \in accounts : MayRetire(r, pa)}
      word(pa) == IF \E b \in stored : <<b.port, AccountOf(b.meta)>> = pa
                  THEN <<(CHOOSE b \in stored : TRUE).meta>> ELSE << >>
  IN  [initial |-> Publish(r.initial, CreditConnected(c)),
       returns |-> Return(r.returns, {Retired(r, pa) : pa \in retired},
                          IF CreditConnected(c) THEN r.initial.done ELSE {}),
       fifo |-> [pa \in Accounts |-> Step(r.fifo[pa], Capacity[pa[1]][pa[2]],
                                          word(pa), pa \in retired)]]
-------------------------------------------------------------------------------
(* The closed loop.                                                            *)

CONSTANT MaxResets   \* bound: resets after the first

VARIABLES controller, ledger, receiver, resets

loopVars == <<controller, ledger, receiver, resets>>

LoopInit ==
  /\ controller \in ControllerInit /\ ledger = LedgerReset
  /\ receiver = ChannelReset /\ resets = 0

Bus == [p \in Ports |-> OnBus(receiver, p)]

\* An edge with the interface in reset.
ResetEdge ==
  /\ controller.running => resets < MaxResets
  /\ resets' = IF controller.running THEN resets + 1 ELSE resets
  /\ controller' = HoldReset(controller)
  /\ ledger' = LedgerReset /\ receiver' = ChannelReset

Beats == [port : Ports, meta : Metas]
Legal(b) == MaySend(ledger, controller.signals, b.port, b.meta)

LoopEdge(orig_ready, comp_ready, beats, accounts) ==
  /\ MayRun(controller)
  /\ \A b \in beats : Legal(b)
  /\ controller' = ConnectionStep(controller, orig_ready, comp_ready)
  /\ ledger' = LedgerStep(ledger, Bus, beats, receiver.initial.done)
  /\ receiver' = ReceiveStep(receiver, controller.signals, beats, accounts)
  /\ UNCHANGED resets

\* A channel carries at most one beat, and one account is retired, at an edge.
AtMostOne(S) == {{}} \cup {{x} : x \in S}

AnyEdge(orig_ready, comp_ready) ==
  \E beats \in AtMostOne(Beats), accounts \in AtMostOne(Accounts) :
    LoopEdge(orig_ready, comp_ready, beats, accounts)

\* Once all levels are up, nobody asks who is ready.
Readiness == IF BeatsEnabled(controller.signals) THEN {TRUE} ELSE BOOLEAN

LoopNext == ResetEdge \/ \E orig_ready, comp_ready \in Readiness : AnyEdge(orig_ready, comp_ready)

LoopSpec == LoopInit /\ [][LoopNext]_loopVars

\* The clock runs, both sides are ready again and again, and the consumer takes
\* from each account that keeps having something to take.
Retire(pa) == /\ MayRetire(receiver, pa)
              /\ \E beats \in AtMostOne(Beats), orig_ready, comp_ready \in Readiness :
                   LoopEdge(orig_ready, comp_ready, beats, {pa})
LoopFairSpec ==
  /\ LoopSpec /\ WF_loopVars(LoopNext) /\ WF_loopVars(AnyEdge(TRUE, TRUE))
  /\ \A pa \in Accounts : SF_loopVars(Retire(pa))
-------------------------------------------------------------------------------
(* Properties.                                                                 *)

CapacityOf(pa) == Capacity[pa[1]][pa[2]]

\* Credit not yet granted, stored beats, and credit that waits to be returned.
Unpublished(pa) ==
  LET at == receiver.initial.account[pa[1]]
  IN  IF pa[2] < at THEN 0
      ELSE IF pa[2] = at THEN CapacityOf(pa) - receiver.initial.issued[pa[1]]
      ELSE CapacityOf(pa)
Stored(pa) == Count(receiver.fifo[pa])
Owed(pa) == Cardinality({i \in DOMAIN receiver.returns.queue[pa[1]] :
                           AccountOf(receiver.returns.queue[pa[1]][i]) = pa[2]})

\* Balances stay within the capacity, queues within their depth.
LoopTypeOK ==
  /\ \A pa \in Accounts : ledger.balance[pa] \in 0..CapacityOf(pa)
                          /\ Stored(pa) <= CapacityOf(pa)
  /\ \A p \in Ports : Len(receiver.returns.queue[p]) <= ReturnDepth
                      /\ receiver.initial.account[p] \in 0..(Pool + 1)

\* The storage of an account is, to the last credit, promised to the sender,
\* under way to it, occupied, or waiting to be promised: none is ever lost,
\* doubled or moved to another account.
CreditConserved ==
  \A pa \in Accounts :
    ledger.balance[pa] + Granted(Bus[pa[1]], pa[2]) + Stored(pa) + Owed(pa) + Unpublished(pa)
      = CapacityOf(pa)

\* The receiver stores every beat that the sender's ledger allows: neither the
\* handshake nor the initialisation looks different from the two sides.
NothingRefused ==
  \A b \in Beats : Legal(b) => Accepts(receiver, controller.signals, b)

HeldBeats == [p \in Ports |-> [m \in Metas |->
  LET f == receiver.fifo[<<p, AccountOf(m)>>]
      words == f.visible \o f.pending \o f.unread
  IN  Cardinality({i \in DOMAIN words : words[i] = m})]]

ChannelReceipts == INSTANCE UpliReceipts
              WITH connection <- controller.signals, held <- HeldBeats,
                   retired <- Waiting(receiver.returns), grants <- receiver.returns.grants

\* The channel keeps the receipts of what it took: beats come only when connected
\* and into free storage, and each is returned once, as what it was.
LoopImplementsReceipts == ChannelReceipts!Spec

\* What the ledger and outputs would refuse never happens: credit or done before the
\* direction is connected, and two grants for one port at an edge.
BusIsLegal ==
  /\ (\E p \in Ports : Bus[p] # NoGrant \/ p \in receiver.initial.done)
       => CreditConnected(controller.signals)
  /\ \A p \in Ports : receiver.initial.grants[p] = NoGrant \/ receiver.returns.grants[p] = NoGrant

\* Whoever of the two gets ready first, every port is opened for beats at last.
EveryPortOpens == <>[](ledger.initialized = Ports /\ BeatsEnabled(controller.signals))

\* An account with storage never runs dry for good.
CreditComesBack ==
  \A pa \in Accounts : CapacityOf(pa) > 0 => []<>(ledger.balance[pa] > 0)

\* Credit is conserved for each account, and each side takes what the other drives.
CreditKept == LoopTypeOK /\ CreditConserved /\ NothingRefused /\ BusIsLegal

\* Every port gets going and never runs dry for good.
PortsStayUsable == EveryPortOpens /\ CreditComesBack
===============================================================================
