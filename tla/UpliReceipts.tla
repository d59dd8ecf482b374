----------------------------- MODULE UpliReceipts -----------------------------
(* What any receiver of UPLI beats owes the sender (model/ualink/               *)
(* upli_receipt.py): each beat leaves a receipt, first held, then retired, until*)
(* a grant returns it, and receipts never outgrow the storage that was granted. *)
(* Receipts of one meta are interchangeable here, so they are counted.          *)
EXTENDS UpliCredit
LOCAL INSTANCE FiniteSetsExt

VARIABLES connection,
          held, retired,   \* the receipts of each port, by meta
          grants           \* what the last edge returned

vars == <<connection, held, retired, grants>>

Levels == [{"orig_req", "comp_ack", "comp_req", "orig_ack"} -> BOOLEAN]
Grants == [vc : 0..(VCs - 1), pool : BOOLEAN, count : 1..Batch] \cup {NoGrant}

MetaOf(g) == [vc |-> g.vc, pool |-> g.pool]

NoReceipts == [p \in Ports |-> [m \in Metas |-> 0]]
Among(beats, p, m) == IF [port |-> p, meta |-> m] \in beats THEN 1 ELSE 0
Plus(receipts, beats) ==
  [p \in Ports |-> [m \in Metas |-> receipts[p][m] + Among(beats, p, m)]]
Minus(receipts, beats) ==
  [p \in Ports |-> [m \in Metas |-> receipts[p][m] - Among(beats, p, m)]]

\* The storage of an account that receipts occupy, whether or not retired.
Occupancy(p, a) ==
  MapThenSumSet(LAMBDA m : held[p][m] + retired[p][m], {m \in Metas : AccountOf(m) = a})

Init == /\ connection \in Levels
        /\ held = NoReceipts /\ retired = NoReceipts /\ grants = [p \in Ports |-> NoGrant]

\* A channel carries one beat at an edge; the receivers here retire one.
AtMostOne(S) == {{}} \cup {{x} : x \in S}
Beats == [port : Ports, meta : Metas]
Held == {b \in Beats : held[b.port][b.meta] > 0}
Fitting ==
  IF BeatsEnabled(connection)
  THEN {b \in Beats : Occupancy(b.port, AccountOf(b.meta)) < Capacity[b.port][AccountOf(b.meta)]}
  ELSE {}

\* An edge, judged by what was there before it: beats come in, held receipts are
\* retired, and each port returns a batch of retired ones that are alike.
Edge(beats, out) ==
  /\ held' = Minus(Plus(held, beats), out)
  /\ grants' \in [Ports -> Grants]
  /\ \A p \in Ports : grants'[p] # NoGrant =>
       CreditConnected(connection) /\ grants'[p].count <= retired[p][MetaOf(grants'[p])]
  /\ retired' = [p \in Ports |-> [m \in Metas |->
       Plus(retired, out)[p][m] - (IF MetaOf(grants'[p]) = m THEN grants'[p].count ELSE 0)]]
  /\ connection' \in Levels

Reset == /\ held' = NoReceipts /\ retired' = NoReceipts /\ grants' = [p \in Ports |-> NoGrant]
         /\ connection' \in Levels

Next == Reset \/ \E beats \in AtMostOne(Fitting), out \in AtMostOne(Held) : Edge(beats, out)

Spec == Init /\ [][Next]_vars
===============================================================================
