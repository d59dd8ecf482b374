---------------------------- MODULE MCTransaction ----------------------------
(* The link of two transaction layers, the receiving end under any Flit, and *)
(* the partitioner, which share no state: a run follows one of the three.    *)
EXTENDS TlReceiver, TlPartition, TlLink

VARIABLE part

Cell(kind, lane, halves, be) ==
    [kind |-> kind, lane |-> lane, halves |-> halves, be |-> be, fault |-> "ok",
     busy |-> FALSE]
Busy == [Padding EXCEPT !.busy = TRUE]
Faulty == [Cell(5, 1, 0, FALSE) EXCEPT !.fault = "bad"]
Put(cells, s, x) == [cells EXCEPT ![s] = x]

\* A write of two halves with byte enables, a read, and read data; a response
\* with another behind it.
Write(lane) == Put(BlankHalf, 1, Cell(3, lane, 2, TRUE))
LongWrite == Put(BlankHalf, 1, Cell(3, 0, 4, FALSE))
Read == Put(BlankHalf, 1, Cell(3, 0, 0, FALSE))
Reads(lane) == Put(Put(BlankHalf, 1, Cell(3, lane, 0, FALSE)), 3, Cell(3, lane, 0, FALSE))
ReadData(lane) == Put(BlankHalf, 1, Cell(2, lane, 2, FALSE))
Two == Put(ReadData(1), 2, Cell(5, 0, 0, FALSE))

CapacityIn(f) == [s \in Slots |-> IF s \in DOMAIN f THEN f[s] ELSE 0]

\* Besides tenures with a slot each: a write and read data that share one data
\* credit, two writes on one slot, the second needing all of its data credit,
\* and requests in pairs, which exhaust the packing budget.
MCPlans ==
    {[auth |-> FALSE, shared |-> FALSE,
      capacities |-> CapacityIn(0 :> 1 @@ 2 :> 1 @@ 3 :> 1 @@ 4 :> 1 @@ 7 :> 1),
      work |-> (0 :> <<Header(Write(0)), Header(Read)>> @@ 1 :> <<Header(Two)>>),
      own |-> {"word"}],
     [auth |-> TRUE, shared |-> TRUE,
      capacities |-> CapacityIn(0 :> 1 @@ 3 :> 1 @@ 6 :> 1 @@ 7 :> 1),
      work |-> (0 :> <<Header(Write(0))>> @@ 1 :> <<Header(ReadData(1))>>),
      own |-> {"word", "complete"}],
     [auth |-> TRUE, shared |-> TRUE,
      capacities |-> CapacityIn(0 :> 1 @@ 2 :> 1 @@ 6 :> 1 @@ 7 :> 1),
      work |-> (0 :> <<Header(Write(0))>> @@ 1 :> <<Header(ReadData(0))>>),
      own |-> {"word", "complete"}],
     [auth |-> FALSE, shared |-> FALSE,
      capacities |-> CapacityIn(0 :> 2 @@ 4 :> 2 @@ 7 :> 1),
      work |-> (0 :> <<Header(Write(0)), Header(LongWrite)>> @@ 1 :> <<>>),
      own |-> {"word"}],
     [auth |-> FALSE, shared |-> FALSE,
      capacities |-> CapacityIn(0 :> 2 @@ 1 :> 2 @@ 4 :> 1 @@ 7 :> 1),
      work |-> (0 :> <<Header(Reads(0)), Header(Reads(1))>> @@ 1 :> <<>>),
      own |-> {}]}

\* What a peer may send: legal halves, halves with an unknown kind, with fields
\* that overlap and with a fault, and messages of every sort.
HalfA == Put(Put(BlankHalf, 1, Cell(3, 0, 2, FALSE)), 6, Cell(5, 1, 0, FALSE))
HalfB == Put(Put(Put(BlankHalf, 3, Cell(1, 1, 2, TRUE)), 0, Cell(9, 0, 0, FALSE)),
             5, Cell(3, 0, 0, FALSE))
HalfC == Put(Put(Put(Put(Put(BlankHalf, 0, Cell(5, 0, 0, FALSE)), 1, Cell(5, 0, 0, FALSE)),
             2, Cell(4, 1, 2, FALSE)), 4, Cell(5, 0, 0, FALSE)), 7, Cell(2, 1, 2, FALSE))
MCHalves == {BlankHalf, HalfA, HalfB, HalfC, Put(BlankHalf, 3, Cell(6, 0, 0, FALSE)),
             Put(HalfA, 2, Cell(3, 0, 0, FALSE)), Put(HalfA, 5, Faulty)}
MCPairs == {"none", "nop", "init", "poison"} \X {"none", "poison"}
               \cup {<<"none", "initShared">>, <<"none", "reserved">>, <<"init", "init">>}
MCQuantities == {Nothing, [s \in Slots |-> IF s \in {0, DataPool, ResponsePool} THEN 2 ELSE 0]}

\* Groups with every start of the lower half, under a few upper halves; groups
\* of fields that agree with the mode, under several capacities.
Uppers == {<<Padding, Padding, Padding, Padding>>,
           <<Cell(4, 0, 2, FALSE), Cell(5, 1, 0, FALSE), Cell(4, 1, 2, FALSE), Cell(4, 0, 2, FALSE)>>,
           <<Padding, Cell(9, 0, 0, FALSE), Cell(3, 0, 4, TRUE), Cell(1, 1, 2, FALSE)>>}
Join(lower, upper) == [s \in Sectors |-> IF s < 4 THEN lower[s] ELSE upper[s - 3]]
Starts == {Padding, Busy, Cell(1, 0, 2, TRUE), Cell(2, 1, 2, FALSE), Cell(6, 0, 0, FALSE)}
Requests == {Padding, Cell(1, 0, 2, TRUE), Cell(3, 0, 0, FALSE)}
Responses == {Padding, Cell(4, 0, 2, FALSE), Cell(2, 1, 2, FALSE), Faulty}
Capacities == {[s \in Slots |-> IF s % Lanes = 0 THEN 2 ELSE 1], [s \in Slots |-> 2]}
Mode(a, r) == [auth |-> a, response |-> r, shared |-> a]
Of(cells, c, m) == [cells |-> cells, capacity |-> c, mode |-> m]
MCGroups1 ==
    {Of(Join(l, u), CHOOSE c \in Capacities : TRUE, Mode(FALSE, r)) :
         l \in [0 .. 3 -> Starts], u \in Uppers, r \in BOOLEAN}
    \cup {Of(Join(l, u), c, Mode(a, TRUE)) :
         l \in [0 .. 3 -> Responses], u \in Uppers, c \in Capacities, a \in BOOLEAN}
    \cup {Of(Join(l, u), c, Mode(a, FALSE)) :
         l \in [0 .. 3 -> Requests], u \in Uppers, c \in Capacities, a \in BOOLEAN}
MCGroups2 == {Of([s \in Sectors |-> IF s % 2 = 1 THEN Cell(3, 0, 0, FALSE) ELSE Padding],
                 CHOOSE c \in Capacities : TRUE, Mode(FALSE, FALSE))}

---------------------------------------------------------------------------


transactionVars == <<part, auth, rx, inStep, style, group, cursor, sent,
                     plan, snd, rcv, down, up>>

\* A part that is not followed stays in one of its initial states.
TransactionInit ==
    /\ part \in {"link", "receiver", "partition"}
    /\ TlInit /\ RxInit
    /\ part # "link" => plan = CHOOSE p \in MCPlans : TRUE
    /\ part # "receiver" => ~auth
    /\ cursor = 0 /\ sent = <<>>
    /\ IF part = "partition" THEN PartitionInit
       ELSE style = "direct" /\ group = {}

LinkPart == /\ part = "link" /\ TlNext
            /\ UNCHANGED <<part, auth, rx, inStep, style, group, cursor, sent>>
ReceiverPart == /\ part = "receiver" /\ RxNext
                /\ UNCHANGED <<part, style, group, cursor, sent, plan, snd, rcv, down, up>>
PartitionPart == /\ part = "partition" /\ PartitionNext
                 /\ UNCHANGED <<part, auth, rx, inStep, plan, snd, rcv, down, up>>

TransactionNext == LinkPart \/ ReceiverPart \/ PartitionPart

TransactionSpec ==
    /\ TransactionInit /\ [][TransactionNext]_transactionVars
    /\ part = "link" => TlFairness

---------------------------------------------------------------------------
(* The properties of each part, asked only where it is followed.            *)

\* All credit is in one place (credit_ledger.py, credit_publish.py).
LinkConservesCredit == part = "link" => CreditConserved

\* Neither end rejects the other (credit_integration.py, receive_credit.py).
LinkRejectsNothing == part = "link" => NothingRejected

\* What is offered can be sent at every later edge (tx_packer.py).
LinkOfferStaysGood == part = "link" => OfferStaysGood

\* The hardware of src/rtl/tl does what the references of src/model/tl do.
HardwareAgrees ==
    CASE part = "link" -> HardwareInStep
      [] part = "receiver" -> HardwareReceives
      [] part = "partition" -> DecodersAgree

\* All work of a link is done in the end, and the credit is back.
TransactionsSettle == part = "link" => EverythingSettles
===========================================================================
