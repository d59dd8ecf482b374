--------------------------- MODULE UpliCreditReturn ---------------------------
(* The queue of credits that a receiver owes (model/ualink/                     *)
(* upli_credit_return.py): for each port the metas of its retired beats, which  *)
(* go back as grants; equal neighbours share one.                               *)
EXTENDS UpliCredit, Sequences

CONSTANT ReturnDepth   \* records it holds for a port, 1..16

ASSUME ReturnAssumption == ReturnDepth \in Nat \ {0}

ReturnsReset == [queue |-> [p \in Ports |-> << >>], grants |-> [p \in Ports |-> NoGrant]]

ReturnReady(r, p) == Len(r.queue[p]) < ReturnDepth

\* Slip: records of one VC are merged, pool or not.
MergedByVc(q) ==
  LET alike == {n \in 1..Len(q) : n <= Batch /\ \A i \in 1..n : q[i].vc = q[1].vc}
  IN  CHOOSE n \in alike \cup {0} : \A m \in alike : m <= n

\* How many records at the front go into one grant: equal ones, up to a batch.
Merged(q) ==
  LET alike == {n \in 1..Len(q) : n <= Batch /\ \A i \in 1..n : q[i] = q[1]}
  IN  CHOOSE n \in alike \cup {0} : \A m \in alike : m <= n

\* Slip: a pool beat gives its credit back to its VC.
ReturnGrantToVc(q) ==
  IF q = << >> THEN NoGrant ELSE [vc |-> q[1].vc, pool |-> FALSE, count |-> Merged(q)]

ReturnGrant(q) ==
  IF q = << >> THEN NoGrant ELSE [vc |-> q[1].vc, pool |-> q[1].pool, count |-> Merged(q)]

\* One edge: a retired beat or none goes in, and each enabled port drives a grant.
Return(r, beats, enabled) ==
  LET accepted == {b \in beats : ReturnReady(r, b.port)}
      rest(p) == IF p \in enabled
                 THEN SubSeq(r.queue[p], Merged(r.queue[p]) + 1, Len(r.queue[p]))
                 ELSE r.queue[p]
  IN  [queue |-> [p \in Ports |-> IF \E b \in accepted : b.port = p
                                  THEN Append(rest(p), (CHOOSE b \in accepted : TRUE).meta)
                                  ELSE rest(p)],
       grants |-> [p \in Ports |-> IF p \in enabled THEN ReturnGrant(r.queue[p]) ELSE NoGrant]]

\* The records that wait, counted.
Waiting(r) == [p \in Ports |-> [m \in Metas |->
                 Cardinality({i \in DOMAIN r.queue[p] : r.queue[p][i] = m})]]
===============================================================================
